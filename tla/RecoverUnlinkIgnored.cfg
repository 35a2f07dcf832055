SPECIFICATION Spec
CONSTANTS
  a = a
  sp = sp
  nl = nl
  bad = bad
  rep = rep
  NoEntry = NoEntry
  Byte <- MCByte
  NL = nl
  Blank <- MCBlank
  Invalid <- MCInvalid
  Replacement = rep
  FaultKinds = {"unlink", "crash"}
  MaxFaults = 2
  Mode = "drain"
  Policies = {"drop"}
  Lines <- WordsAndBlanks
  MaxLines = 2
  TornWrites = FALSE
  Keepalive = FALSE
  IgnoreRecoverFailure = FALSE
  Launchers = {FALSE}
INVARIANTS
  RecoverLeavesClean
