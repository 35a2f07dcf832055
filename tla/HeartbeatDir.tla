----------------------------- MODULE HeartbeatDir -----------------------------
(* The directory the hook, the recovery and the launcher share: the on-disk   *)
(* artifacts of src/README.md "On-Disk Artifacts", the writes the code makes  *)
(* on them, and the faults those writes meet.  Every write that goes through  *)
(* tmp + fsync + rename is one step; a crash before the rename leaves nothing *)
(* a reader can see.                                                          *)
EXTENDS Inbox

CONSTANTS FaultKinds,  \* which faults may strike, a subset of AllFaultKinds
          MaxFaults    \* bound: how many faults strike in a behaviour

(* "io":     a call whose error the code propagates with `?'                  *)
(* "unlink": a remove_file whose error the code ignores                       *)
(* "stat":   .responded is there but the check for it fails, and the code     *)
(*           takes the failure for its absence                                *)
(* "stdout": the decision cannot be written to stdout                         *)
(* "kill":   Claude Code kills a hook that runs past its timeout              *)
(* "crash":  the session, or the launcher with the recovery, dies             *)
AllFaultKinds == {"io", "unlink", "stat", "stdout", "kill", "crash"}

ASSUME FaultAssumption == FaultKinds \subseteq AllFaultKinds /\ MaxFaults \in Nat

VARIABLES inbox,       \* inbox.jsonl
          offset,      \* .inbox-offset; an absent file reads as 0
          inFlight,    \* .in-flight
          responded,   \* does .responded exist?
          deadLetter,  \* .dead-letter.jsonl
          settled,     \* ghost: entries answered, dead-lettered or dropped
          faults       \* how many faults have struck

artifacts == <<offset, inFlight, responded, deadLetter>>
dirVars == <<inbox, artifacts, settled, faults>>

DirTypeOK ==
  /\ inbox \in Seq(Byte)
  /\ offset \in Nat
  /\ inFlight \in Entry \cup {NoEntry}
  /\ responded \in BOOLEAN
  /\ deadLetter \in Seq(Entry)
  /\ settled \subseteq Entry
  /\ faults \in 0..MaxFaults

DirInit ==
  /\ inbox = <<>> /\ offset = 0
  /\ inFlight = NoEntry /\ responded = FALSE
  /\ deadLetter = <<>>
  /\ settled = {} /\ faults = 0

Strike(kind) ==
  /\ kind \in FaultKinds /\ faults < MaxFaults
  /\ faults' = faults + 1

NoFault == UNCHANGED faults

(* Mutant: the file is not removed.                                           *)
KeepsInFlight == UNCHANGED <<inFlight, faults>>

(* let _ = fs::remove_file(in_flight_path): the file is gone, or the call     *)
(* failed, the error is dropped and the file stays.                           *)
RemoveInFlight ==
  \/ inFlight' = NoEntry /\ NoFault
  \/ inFlight # NoEntry /\ Strike("unlink") /\ UNCHANGED inFlight

(* Mutant: the flag is not removed.                                           *)
KeepsResponded == UNCHANGED <<responded, faults>>

RemoveResponded ==
  \/ responded' = FALSE /\ NoFault
  \/ responded /\ Strike("unlink") /\ UNCHANGED responded

(* Has an entry that was settled taken byte i of the inbox with it?           *)
ByteSettled(i) == \E s \in settled : i \in BytesIn(s.start_offset, s.end_offset)
=============================================================================
