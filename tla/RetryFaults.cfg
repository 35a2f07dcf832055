SPECIFICATION Spec
CONSTANTS
  a = a
  sp = sp
  nl = nl
  bad = bad
  rep = rep
  NoEntry = NoEntry
  Byte <- MCByte
  NL = nl
  Blank <- MCBlank
  Invalid <- MCInvalid
  Replacement = rep
  FaultKinds = {"io", "crash", "kill", "stdout", "stat"}
  MaxFaults = 2
  Mode = "drain"
  Policies = {"retry"}
  Lines <- AllLines
  MaxLines = 2
  TornWrites = TRUE
  Keepalive = FALSE
  IgnoreRecoverFailure = FALSE
  Launchers = {FALSE}
INVARIANTS
  TypeOK
  NoSilentLoss
  RedeliverOnlyOrphan
  RedeliveryNeedsFault
  TurnIsRecorded
  HistoryInv
PROPERTIES
  ImplementsDelivery
