SPECIFICATION FairSpec
CONSTANTS
  Grace = 2
  Options <- AllLaunches
  Never = Never
  EscGap = 1
  TermGrace = 1
  JoinWait = 1
  Codes <- OwnCodes
  Talkative = FALSE
  EarlyHook = FALSE
  MaxLaunches = 1
  MaxTime = 12
INVARIANTS
  SignalNotLost
PROPERTIES
  SessionEnds
  ApprovedSessionEnds
CHECK_DEADLOCK FALSE
