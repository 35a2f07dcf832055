SPECIFICATION Spec
CONSTANTS
  a = a
  sp = sp
  nl = nl
  bad = bad
  rep = rep
  NoEntry = NoEntry
  Byte <- MCByte
  NL = nl
  Blank <- MCBlank
  Invalid <- MCInvalid
  Replacement = rep
  FaultKinds = {"crash"}
  MaxFaults = 1
  Mode = "drain"
  Policies = {"deadletter"}
  Lines <- WordsAndBlanks
  MaxLines = 2
  TornWrites = FALSE
  Keepalive = FALSE
  IgnoreRecoverFailure = FALSE
  Launchers = {TRUE}
PROPERTIES
  TruncateErasesOnlySettled
