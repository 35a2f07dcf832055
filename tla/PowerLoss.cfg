SPECIFICATION Spec
CONSTANTS
  Absent = Absent
  Torn = Torn
  NoEntry = NoEntry
  Entries = 3
  Policies = {"retry", "deadletter", "drop"}
  MaxFaults = 3
INVARIANTS
  TypeOK
  NoOperatorNeeded
  NothingSkipped
  OnlyLatestComesBack
  FilesInv
PROPERTIES
  DeadLettersKept
  ImplementsAtomic
