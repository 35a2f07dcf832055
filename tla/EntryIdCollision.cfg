SPECIFICATION Spec
CONSTANTS
  a = a
  sp = sp
  nl = nl
  bad = bad
  rep = rep
  NoEntry = NoEntry
  Byte <- MCByte
  NL = nl
  Blank <- MCBlank
  Invalid <- MCInvalid
  Replacement = rep
  FaultKinds = {"crash"}
  MaxFaults = 2
  Mode = "drain"
  Policies = {"deadletter"}
  Lines <- Words
  MaxLines = 2
  TornWrites = FALSE
  Keepalive = FALSE
  IgnoreRecoverFailure = FALSE
  Launchers = {FALSE}
INVARIANTS
  EntryIdIdentifies
