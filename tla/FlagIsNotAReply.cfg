SPECIFICATION Spec
CONSTANTS
  a = a
  sp = sp
  nl = nl
  bad = bad
  rep = rep
  NoEntry = NoEntry
  Byte <- MCByte
  NL = nl
  Blank <- MCBlank
  Invalid <- MCInvalid
  Replacement = rep
  FaultKinds = {"kill", "stdout"}
  MaxFaults = 1
  Mode = "drain"
  Policies = {"retry"}
  Lines <- WordsAndBlanks
  MaxLines = 2
  TornWrites = FALSE
  Keepalive = TRUE
  IgnoreRecoverFailure = FALSE
  Launchers = {FALSE}
INVARIANTS
  AckOnlyAnswered
