SPECIFICATION FairSpec
CONSTANTS
  a = a
  sp = sp
  nl = nl
  bad = bad
  rep = rep
  NoEntry = NoEntry
  Byte <- MCByte
  NL = nl
  Blank <- MCBlank
  Invalid <- MCInvalid
  Replacement = rep
  FaultKinds = {"io", "unlink", "crash", "kill", "stat"}
  MaxFaults = 2
  Mode = "persist"
  Policies = {"retry", "deadletter", "drop"}
  Lines <- WordsAndBlanks
  MaxLines = 2
  TornWrites = TRUE
  Keepalive = FALSE
  IgnoreRecoverFailure = FALSE
  Launchers = {FALSE}
INVARIANTS
  CoreInv
  OrphanClassified
PROPERTIES
  CursorNeverRetreats
  EventuallyDrained
