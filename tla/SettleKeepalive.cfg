SPECIFICATION Spec
CONSTANTS
  a = a
  sp = sp
  nl = nl
  bad = bad
  rep = rep
  NoEntry = NoEntry
  Byte <- MCByte
  NL = nl
  Blank <- MCBlank
  Invalid <- MCInvalid
  Replacement = rep
  FaultKinds = {"io", "crash"}
  MaxFaults = 2
  Mode = "persist"
  Policies = {"deadletter", "drop"}
  Lines <- WordsAndBlanks
  MaxLines = 3
  TornWrites = TRUE
  Keepalive = TRUE
  IgnoreRecoverFailure = FALSE
  Launchers = {TRUE, FALSE}
INVARIANTS
  IInv
  NoSilentLoss
  AtMostOnceDelivery
  RecoverLeavesClean
  FlagHasOrphan
  AckOnlyAnswered
  OnceInv
PROPERTIES
  DeadLetterOnlyUnacknowledged
