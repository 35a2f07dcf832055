SPECIFICATION Spec
CONSTANTS
  Grace = 2
  Options <- Watched
  Never = Never
  EscGap = 1
  TermGrace = 1
  JoinWait = 1
  Codes <- OwnCodes
  Talkative = TRUE
  EarlyHook = FALSE
  MaxLaunches = 1
  MaxTime = 8
INVARIANTS
  SignalMeansZero
CHECK_DEADLOCK FALSE
