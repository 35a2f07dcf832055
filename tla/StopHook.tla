------------------------------- MODULE StopHook -------------------------------
(* One invocation of heartbeat-stop as Claude Code's Stop hook: hook::run     *)
(* (src/src/hook.rs), the inbox calls it makes, and what main.rs does with    *)
(* the decision.  A step is one file operation, so that another process, a    *)
(* kill or an error can come between any two of them.                         *)
EXTENDS HeartbeatDir

CONSTANT Mode  \* the Mode the hook is configured with

Modes == {"drain", "persist"}

ASSUME ModeAssumption == Mode \in Modes

Decisions == {"block", "approve", "idle"}

VARIABLES hpc,      \* where hook::run stands
          hSize,    \* read_next_entry: size, the snapshot of the inbox's length
          hEntry,   \* the entry read: .in-flight's while acknowledging, then the next
          decision  \* what the hook answers Claude Code

hookVars == <<hpc, hSize, hEntry, decision>>

HookPcs == {"off", "check", "readInFlight", "advance", "unlinkInFlight", "unlinkResponded",
            "snapshot", "scan", "writeInFlight", "touch", "emit", "done"}

HookTypeOK ==
  /\ hpc \in HookPcs
  /\ hSize \in Nat
  /\ hEntry \in Entry \cup {NoEntry}
  /\ decision \in Decisions \cup {"none"}

HookInit == hpc = "off" /\ hSize = 0 /\ hEntry = NoEntry /\ decision = "none"

HookRuns == hpc \notin {"off", "done"}

At(label) == hpc = label
Goto(label) == hpc' = label

(* An Err of hook::run: main.rs logs it and approves the stop.                *)
FailOpen == Goto("emit") /\ decision' = "approve"

(* Path::exists is false of a file it cannot look at: the hook that meets     *)
(* such an error goes on as if the agent had not replied.                     *)
CheckResponded ==
  /\ At("check")
  /\ \/ Goto(IF responded THEN "readInFlight" ELSE "snapshot") /\ NoFault
     \/ responded /\ Strike("stat") /\ Goto("snapshot")
  /\ UNCHANGED <<inbox, artifacts, settled, hSize, hEntry, decision>>

ReadInFlight ==
  /\ At("readInFlight")
  /\ \/ /\ inFlight # NoEntry
        /\ hEntry' = inFlight /\ Goto("advance")
        /\ UNCHANGED <<decision, faults>>
     \/ /\ inFlight = NoEntry  \* InconsistentState
        /\ FailOpen /\ UNCHANGED <<hEntry, faults>>
     \/ Strike("io") /\ FailOpen /\ UNCHANGED hEntry
  /\ UNCHANGED <<inbox, artifacts, settled, hSize>>

(* Mutants: the guard is dropped; the entry's start is taken for its end; the *)
(* end is one byte too far.                                                   *)
AckCursorUnguarded == hEntry.end_offset
AckCursorAtStart == hEntry.start_offset
AckCursorTooFar == hEntry.end_offset + 1

(* acknowledge advances the cursor and never rewinds it.                      *)
AckCursor == IF hEntry.end_offset < offset THEN offset ELSE hEntry.end_offset

AckAdvance ==
  /\ At("advance")
  /\ \/ offset' = AckCursor /\ Goto("unlinkInFlight") /\ UNCHANGED <<decision, faults>>
     \/ Strike("io") /\ FailOpen /\ UNCHANGED offset
  /\ UNCHANGED <<inbox, inFlight, responded, deadLetter, settled, hSize, hEntry>>

AckUnlink ==
  /\ At("unlinkInFlight")
  /\ RemoveInFlight /\ Goto("unlinkResponded")
  /\ UNCHANGED <<inbox, offset, responded, deadLetter, settled, hSize, hEntry, decision>>

ClearResponded ==
  /\ At("unlinkResponded")
  /\ RemoveResponded /\ Goto("snapshot")
  /\ UNCHANGED <<inbox, offset, inFlight, deadLetter, settled, hSize, hEntry, decision>>

(* read_next_entry: the size is read once, the bytes below it later.          *)
Snapshot ==
  /\ At("snapshot")
  /\ \/ hSize' = Len(inbox) /\ Goto("scan") /\ UNCHANGED <<decision, faults>>
     \/ Strike("io") /\ FailOpen /\ UNCHANGED hSize
  /\ hEntry' = NoEntry
  /\ UNCHANGED <<inbox, artifacts, settled>>

(* The sleep of the idle interval is whatever happens before the next step.   *)
ApproveOrIdle == IF Mode = "drain" THEN "approve" ELSE "idle"

ScanDrained ==
  /\ At("scan")
  /\ hSize <= offset
  /\ decision' = ApproveOrIdle
  /\ Goto("emit")
  /\ UNCHANGED <<dirVars, hSize, hEntry>>

(* A blank line moves the cursor at once, and the loop goes on.               *)
ScanBlank ==
  /\ At("scan")
  /\ \E e \in LineEnds(inbox, hSize, offset) :
       AllBlank(inbox, offset, e) /\ offset' = e
  /\ UNCHANGED <<inbox, inFlight, responded, deadLetter, settled, faults, hookVars>>

ScanEntry ==
  /\ At("scan")
  /\ \E e \in LineEnds(inbox, hSize, offset) :
       \E first, last \in BytesIn(offset, e) :
         /\ IsTrim(inbox, offset, e, first, last)
         /\ hEntry' = LineEntry(inbox, offset, e, first, last)
  /\ Goto("writeInFlight")
  /\ UNCHANGED <<dirVars, hSize, decision>>

ScanFails ==
  /\ At("scan")
  /\ Strike("io") /\ FailOpen
  /\ UNCHANGED <<inbox, artifacts, settled, hSize, hEntry>>

WriteInFlight ==
  /\ At("writeInFlight")
  /\ \/ inFlight' = hEntry /\ Goto("touch") /\ UNCHANGED <<decision, faults>>
     \/ Strike("io") /\ FailOpen /\ UNCHANGED inFlight
  /\ UNCHANGED <<inbox, offset, responded, deadLetter, settled, hSize, hEntry>>

TouchResponded ==
  /\ At("touch")
  /\ \/ responded' = TRUE /\ Goto("emit") /\ decision' = "block" /\ NoFault
     \/ Strike("io") /\ FailOpen /\ UNCHANGED responded
  /\ UNCHANGED <<inbox, offset, inFlight, deadLetter, settled, hSize, hEntry>>

(* main.rs: the decision goes to stdout.  A hook that wrote nothing approved. *)
Emit ==
  /\ At("emit") /\ Goto("done")
  /\ \/ UNCHANGED <<decision, faults>>
     \/ decision \in {"block", "idle"} /\ Strike("stdout") /\ decision' = "approve"
  /\ UNCHANGED <<inbox, artifacts, settled, hSize, hEntry>>

HookStep ==
  \/ CheckResponded \/ ReadInFlight \/ AckAdvance \/ AckUnlink \/ ClearResponded
  \/ Snapshot \/ ScanDrained \/ ScanBlank \/ ScanEntry \/ ScanFails
  \/ WriteInFlight \/ TouchResponded \/ Emit
=============================================================================
