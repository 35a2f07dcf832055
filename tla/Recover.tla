------------------------------- MODULE Recover -------------------------------
(* One invocation of `heartbeat-stop recover': recover::recover               *)
(* (src/src/recover.rs) and its exit code (src/src/main.rs).  A step is one   *)
(* file operation.                                                            *)
EXTENDS HeartbeatDir

CONSTANT Policies  \* the --on-orphan values launchers may pass

OrphanPolicy == {"retry", "deadletter", "drop"}

ASSUME PolicyAssumption == Policies \subseteq OrphanPolicy

VARIABLES rpc,     \* where recover::recover stands; "ok" and "failed" are its exits
          policy,  \* the OrphanPolicy of this invocation
          rEntry   \* the entry it read from .in-flight

recoverVars == <<rpc, policy, rEntry>>

RecoverPcs == {"off", "readOrphan", "classify", "deadLetter", "moveCursor",
               "unlinkOrphan", "unlinkFlag", "ok", "failed"}

RecoverTypeOK ==
  /\ rpc \in RecoverPcs
  /\ policy \in Policies
  /\ rEntry \in Entry \cup {NoEntry}

RecoverInit == rpc = "off" /\ policy \in Policies /\ rEntry = NoEntry

RecoverRuns == rpc \notin {"off", "ok", "failed"}

RecoverFails == Strike("io") /\ rpc' = "failed"

(* Mutant: nothing to recover, and .responded stays.                          *)
AfterReadKeepsFlag == IF inFlight = NoEntry THEN "ok" ELSE "classify"

(* No .in-flight: nothing to recover, and .responded still goes.              *)
AfterRead == IF inFlight = NoEntry THEN "unlinkFlag" ELSE "classify"

ReadOrphan ==
  /\ rpc = "readOrphan"
  /\ \/ rEntry' = inFlight /\ rpc' = AfterRead /\ NoFault
     \/ RecoverFails /\ UNCHANGED rEntry
  /\ UNCHANGED <<inbox, artifacts, settled, policy>>

(* Mutant: an entry that ends at the cursor counts as live.                   *)
StaleStrictly(e) == offset > e.end_offset

Stale(e) == offset >= e.end_offset

(* A stale orphan was acknowledged already: only its traces are removed.      *)
Classify ==
  /\ rpc = "classify"
  /\ \/ Stale(rEntry) /\ rpc' = "unlinkOrphan" /\ NoFault
     \/ ~Stale(rEntry) /\ policy = "deadletter" /\ rpc' = "deadLetter" /\ NoFault
     \/ ~Stale(rEntry) /\ policy # "deadletter" /\ rpc' = "moveCursor" /\ NoFault
     \/ RecoverFails
  /\ UNCHANGED <<inbox, artifacts, settled, policy, rEntry>>

DeadLetterAppend ==
  /\ rpc = "deadLetter"
  /\ \/ /\ deadLetter' = Append(deadLetter, rEntry)
        /\ settled' = settled \cup {rEntry}
        /\ rpc' = "moveCursor" /\ NoFault
     \/ RecoverFails /\ UNCHANGED <<deadLetter, settled>>
  /\ UNCHANGED <<inbox, offset, inFlight, responded, policy, rEntry>>

(* Mutants: retry goes to the start of the file; retry passes the orphan;     *)
(* deadletter returns to it; the start is one byte short.                     *)
RecoveredCursorAtZero == IF policy = "retry" THEN 0 ELSE rEntry.end_offset
RecoveredCursorSwapped == IF policy = "drop" THEN rEntry.start_offset ELSE rEntry.end_offset
RecoveredCursorStays == IF policy = "drop" THEN rEntry.end_offset ELSE rEntry.start_offset
RecoveredCursorShort == IF policy = "retry" THEN rEntry.start_offset - 1 ELSE rEntry.end_offset

RecoveredCursor == IF policy = "retry" THEN rEntry.start_offset ELSE rEntry.end_offset

MoveCursor ==
  /\ rpc = "moveCursor"
  /\ \/ /\ offset' = RecoveredCursor
        /\ settled' = IF policy = "drop" THEN settled \cup {rEntry} ELSE settled
        /\ rpc' = "unlinkOrphan" /\ NoFault
     \/ RecoverFails /\ UNCHANGED <<offset, settled>>
  /\ UNCHANGED <<inbox, inFlight, responded, deadLetter, policy, rEntry>>

UnlinkOrphan ==
  /\ rpc = "unlinkOrphan"
  /\ RemoveInFlight /\ rpc' = "unlinkFlag"
  /\ UNCHANGED <<inbox, offset, responded, deadLetter, settled, policy, rEntry>>

UnlinkFlag ==
  /\ rpc = "unlinkFlag"
  /\ RemoveResponded /\ rpc' = "ok"
  /\ UNCHANGED <<inbox, offset, inFlight, deadLetter, settled, policy, rEntry>>

RecoverStep ==
  \/ ReadOrphan \/ Classify \/ DeadLetterAppend \/ MoveCursor \/ UnlinkOrphan \/ UnlinkFlag
=============================================================================
