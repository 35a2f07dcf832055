SPECIFICATION Spec
CONSTANTS
  Grace = 2
  Options <- AllLaunches
  Never = Never
  EscGap = 1
  TermGrace = 1
  JoinWait = 1
  Codes <- OwnCodes
  Talkative = TRUE
  EarlyHook = TRUE
  MaxLaunches = 2
  MaxTime = 8
INVARIANTS
  RunTypeOK
  RunInv
  SignalIsOwn
  ZeroIsTrusted
  PatientKill
PROPERTIES
  KeepsPromise
CHECK_DEADLOCK FALSE
