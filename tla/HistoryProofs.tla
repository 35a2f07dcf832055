---------------------------- MODULE HistoryProofs ----------------------------
(* Proofs about what reaches the agent: in which order, how often, and what   *)
(* is to blame when an entry comes back.  They are about the ghost            *)
(* `delivered' and rest on CoreInv.                                              *)
EXTENDS HeartbeatProofs

-----------------------------------------------------------------------------
(* Who changes what.                                                          *)

(* The cursor moves when an entry is acknowledged, a blank line is skipped,   *)
(* an orphan is recovered, or the launcher resets it.                         *)
LEMMA CursorFrame ==
  ASSUME [Next]_vars
  PROVE  AckAdvance \/ ScanBlank \/ MoveCursor \/ ResetCursor \/ UNCHANGED offset
<1>1. CASE HookRunsOn
  BY <1>1 DEF HookRunsOn, HookStep, CheckResponded, ReadInFlight, AckUnlink, ClearResponded,
              Snapshot, ScanDrained, ScanEntry, ScanFails, WriteInFlight, TouchResponded, Emit,
              dirVars, artifacts
<1>2. CASE RecoverRunsOn
  BY <1>2 DEF RecoverRunsOn, RecoverStep, ReadOrphan, Classify, DeadLetterAppend, UnlinkOrphan,
              UnlinkFlag, artifacts
<1>3. CASE ~HookRunsOn /\ ~RecoverRunsOn
  BY <1>3 DEF Next, AppendLine, FinishAppend, TruncateInbox, vars, LauncherStep, StartRecover,
              RecoverExits, StartSession, CrashLauncher, SessionStep, AgentResponds,
              TakeDecision, TakeBlock, TakeIdleTick, TakeApprove, EndSession, KillHook,
              InjectKeepalive, CrashSession, dirVars, artifacts
<1> QED
  BY <1>1, <1>2, <1>3

(* .in-flight is written by the hook, and removed by it and by recover.       *)
LEMMA InFlightFrame ==
  ASSUME [Next]_vars
  PROVE  WriteInFlight \/ AckUnlink \/ UnlinkOrphan \/ UNCHANGED inFlight
<1>1. CASE HookRunsOn
  BY <1>1 DEF HookRunsOn, HookStep, CheckResponded, ReadInFlight, AckAdvance, ClearResponded,
              Snapshot, ScanDrained, ScanBlank, ScanEntry, ScanFails, TouchResponded, Emit,
              dirVars, artifacts
<1>2. CASE RecoverRunsOn
  BY <1>2 DEF RecoverRunsOn, RecoverStep, ReadOrphan, Classify, DeadLetterAppend, MoveCursor,
              UnlinkFlag, artifacts
<1>3. CASE ~HookRunsOn /\ ~RecoverRunsOn
  BY <1>3 DEF Next, AppendLine, FinishAppend, TruncateInbox, ResetCursor, vars, LauncherStep,
              StartRecover, RecoverExits, StartSession, CrashLauncher, SessionStep,
              AgentResponds, TakeDecision, TakeBlock, TakeIdleTick, TakeApprove, EndSession,
              KillHook, InjectKeepalive, CrashSession, dirVars, artifacts
<1> QED
  BY <1>1, <1>2, <1>3

(* .responded is touched by the hook, and removed by it and by recover.       *)
LEMMA FlagFrame ==
  ASSUME [Next]_vars
  PROVE  TouchResponded \/ ClearResponded \/ UnlinkFlag \/ UNCHANGED responded
<1>1. CASE HookRunsOn
  BY <1>1 DEF HookRunsOn, HookStep, CheckResponded, ReadInFlight, AckAdvance, AckUnlink,
              Snapshot, ScanDrained, ScanBlank, ScanEntry, ScanFails, WriteInFlight, Emit,
              dirVars, artifacts
<1>2. CASE RecoverRunsOn
  BY <1>2 DEF RecoverRunsOn, RecoverStep, ReadOrphan, Classify, DeadLetterAppend, MoveCursor,
              UnlinkOrphan, artifacts
<1>3. CASE ~HookRunsOn /\ ~RecoverRunsOn
  BY <1>3 DEF Next, AppendLine, FinishAppend, TruncateInbox, ResetCursor, vars, LauncherStep,
              StartRecover, RecoverExits, StartSession, CrashLauncher, SessionStep,
              AgentResponds, TakeDecision, TakeBlock, TakeIdleTick, TakeApprove, EndSession,
              KillHook, InjectKeepalive, CrashSession, dirVars, artifacts
<1> QED
  BY <1>1, <1>2, <1>3

(* A block is decided when .responded was touched.                            *)
LEMMA BlockFrame ==
  ASSUME [Next]_vars, hpc' \in {"emit", "done"}, decision' = "block"
  PROVE  TouchResponded \/ (hpc \in {"emit", "done"} /\ decision = "block")
<1>1. CASE HookRunsOn
  <2> USE DEF Goto, FailOpen, At, hookVars
  <2>1. CASE CheckResponded \/ ReadInFlight \/ AckAdvance
    BY <2>1 DEF CheckResponded, ReadInFlight, AckAdvance
  <2>2. CASE AckUnlink \/ ClearResponded \/ ScanFails
    BY <2>2 DEF AckUnlink, ClearResponded, ScanFails
  <2>3. CASE Snapshot \/ ScanBlank \/ ScanEntry
    BY <2>3 DEF Snapshot, ScanBlank, ScanEntry
  <2>4. CASE ScanDrained
    BY <2>4 DEF ScanDrained, ApproveOrIdle
  <2>5. CASE WriteInFlight \/ Emit
    BY <2>5 DEF WriteInFlight, Emit
  <2> QED
    BY <1>1, <2>1, <2>2, <2>3, <2>4, <2>5 DEF HookRunsOn, HookStep
<1>2. CASE RecoverRunsOn
  BY <1>2 DEF RecoverRunsOn, hookVars
<1>3. CASE ~HookRunsOn /\ ~RecoverRunsOn
  BY <1>3 DEF Next, AppendLine, FinishAppend, TruncateInbox, ResetCursor, vars, LauncherStep,
              StartRecover, RecoverExits, StartSession, CrashLauncher, SessionStep,
              AgentResponds, TakeDecision, TakeBlock, TakeIdleTick, TakeApprove, EndSession,
              KillHook, InjectKeepalive, CrashSession, HookOff, hookVars
<1> QED
  BY <1>1, <1>2, <1>3

(* The hook goes for the next entry when it acknowledged one or finds no      *)
(* flag; a flag that is there it cannot overlook where no look at it fails.   *)
LEMMA FetchFrame ==
  ASSUME [Next]_vars, Fetching', "stat" \notin FaultKinds
  PROVE  Fetching \/ (AckAdvance /\ offset' = AckCursor) \/ (CheckResponded /\ ~responded)
<1> USE DEF Fetching
<1>1. CASE HookRunsOn
  <2> USE DEF Goto, FailOpen, At, hookVars
  <2>1. CASE CheckResponded
    BY <2>1 DEF CheckResponded, Strike
  <2>2. CASE ReadInFlight \/ ScanDrained \/ ScanFails \/ Emit
    BY <2>2 DEF ReadInFlight, ScanDrained, ScanFails, Emit
  <2>3. CASE AckAdvance
    BY <2>3 DEF AckAdvance
  <2>4. CASE AckUnlink \/ ClearResponded
    BY <2>4 DEF AckUnlink, ClearResponded
  <2>5. CASE Snapshot \/ ScanBlank \/ ScanEntry
    BY <2>5 DEF Snapshot, ScanBlank, ScanEntry
  <2>6. CASE WriteInFlight \/ TouchResponded
    BY <2>6 DEF WriteInFlight, TouchResponded
  <2> QED
    BY <1>1, <2>1, <2>2, <2>3, <2>4, <2>5, <2>6 DEF HookRunsOn, HookStep
<1>2. CASE RecoverRunsOn
  BY <1>2 DEF RecoverRunsOn, hookVars
<1>3. CASE ~HookRunsOn /\ ~RecoverRunsOn
  BY <1>3 DEF Next, AppendLine, FinishAppend, TruncateInbox, ResetCursor, vars, LauncherStep,
              StartRecover, RecoverExits, StartSession, CrashLauncher, SessionStep,
              AgentResponds, TakeDecision, TakeBlock, TakeIdleTick, TakeApprove, EndSession,
              KillHook, InjectKeepalive, CrashSession, HookOff, hookVars
<1> QED
  BY <1>1, <1>2, <1>3

(* Recover removes .responded when it tried to remove .in-flight, or found    *)
(* none.                                                                      *)
LEMMA UnflagFrame ==
  ASSUME [Next]_vars, rpc' = "unlinkFlag"
  PROVE  \/ inFlight' = NoEntry
         \/ UnlinkOrphan /\ UNCHANGED <<offset, inFlight>>
         \/ rpc = "unlinkFlag"
<1>1. CASE HookRunsOn
  BY <1>1 DEF HookRunsOn, recoverVars
<1>2. CASE RecoverRunsOn
  BY <1>2 DEF RecoverRunsOn, RecoverStep, ReadOrphan, AfterRead, Classify, DeadLetterAppend,
              MoveCursor, UnlinkOrphan, UnlinkFlag, RecoverFails, RemoveInFlight, artifacts
<1>3. CASE ~HookRunsOn /\ ~RecoverRunsOn
  BY <1>3 DEF Next, AppendLine, FinishAppend, TruncateInbox, vars, LauncherStep, ResetCursor,
              StartRecover, RecoverExits, StartSession, CrashLauncher, SessionStep,
              AgentResponds, TakeDecision, TakeBlock, TakeIdleTick, TakeApprove, EndSession,
              KillHook, InjectKeepalive, CrashSession, recoverVars
<1> QED
  BY <1>1, <1>2, <1>3

(* Recover removes .in-flight after it moved the cursor, or found it stale.   *)
LEMMA UnlinkFrame ==
  ASSUME [Next]_vars, rpc' = "unlinkOrphan"
  PROVE  \/ Classify /\ Stale(rEntry) /\ UNCHANGED <<rEntry, offset>>
         \/ MoveCursor /\ offset' = RecoveredCursor /\ UNCHANGED rEntry
         \/ rpc = "unlinkOrphan" /\ UNCHANGED rEntry
<1>1. CASE HookRunsOn
  BY <1>1 DEF HookRunsOn, recoverVars
<1>2. CASE RecoverRunsOn
  BY <1>2 DEF RecoverRunsOn, RecoverStep, ReadOrphan, AfterRead, Classify, DeadLetterAppend,
              MoveCursor, UnlinkOrphan, UnlinkFlag, RecoverFails, artifacts
<1>3. CASE ~HookRunsOn /\ ~RecoverRunsOn
  BY <1>3 DEF Next, AppendLine, FinishAppend, TruncateInbox, ResetCursor, vars, LauncherStep,
              StartRecover, RecoverExits, StartSession, CrashLauncher, SessionStep,
              AgentResponds, TakeDecision, TakeBlock, TakeIdleTick, TakeApprove, EndSession,
              KillHook, InjectKeepalive, CrashSession, recoverVars
<1> QED
  BY <1>1, <1>2, <1>3

(* An entry reaches the agent when a block decision is taken; truncating the  *)
(* inbox begins a new history.                                                *)
LEMMA DeliveredFrame ==
  ASSUME [Next]_vars
  PROVE  TakeBlock \/ TruncateInbox \/ UNCHANGED delivered
BY DEF Next, AppendLine, FinishAppend, ResetCursor, vars, LauncherStep, StartRecover,
       RecoverExits, StartSession, CrashLauncher, SessionStep, AgentResponds, TakeDecision,
       TakeIdleTick, TakeApprove, EndSession, KillHook, InjectKeepalive, CrashSession,
       HookRunsOn, RecoverRunsOn

(* The inbox grows or is truncated.                                           *)
LEMMA InboxFrame ==
  ASSUME [Next]_vars
  PROVE  AppendLine \/ FinishAppend \/ TruncateInbox \/ UNCHANGED inbox
<1>1. CASE HookRunsOn
  BY <1>1 DEF HookRunsOn, HookStep, CheckResponded, ReadInFlight, AckAdvance, AckUnlink,
              ClearResponded, Snapshot, ScanDrained, ScanBlank, ScanEntry, ScanFails,
              WriteInFlight, TouchResponded, Emit, dirVars
<1>2. CASE RecoverRunsOn
  BY <1>2 DEF RecoverRunsOn, RecoverStep, ReadOrphan, Classify, DeadLetterAppend, MoveCursor,
              UnlinkOrphan, UnlinkFlag
<1>3. CASE ~HookRunsOn /\ ~RecoverRunsOn
  BY <1>3 DEF Next, ResetCursor, vars, LauncherStep, StartRecover, RecoverExits, StartSession,
              CrashLauncher, SessionStep, AgentResponds, TakeDecision, TakeBlock,
              TakeIdleTick, TakeApprove, EndSession, KillHook, InjectKeepalive, CrashSession,
              dirVars
<1> QED
  BY <1>1, <1>2, <1>3

(* The hook reaches the scan by a snapshot, stays in it over blank lines, and *)
(* reaches the write of .in-flight from the scan.                             *)
LEMMA ReaderFrame ==
  ASSUME [Next]_vars
  PROVE  /\ hpc' = "scan" => Snapshot \/ ScanBlank \/ (hpc = "scan" /\ UNCHANGED hSize)
         /\ hpc' = "writeInFlight" =>
              ScanEntry \/ (hpc = "writeInFlight" /\ UNCHANGED hEntry)
<1>1. CASE HookRunsOn
  <2> USE DEF Goto, FailOpen, At, hookVars
  <2>1. CASE CheckResponded \/ ReadInFlight \/ AckAdvance
    BY <2>1 DEF CheckResponded, ReadInFlight, AckAdvance
  <2>2. CASE AckUnlink \/ ClearResponded \/ ScanDrained \/ ScanFails
    BY <2>2 DEF AckUnlink, ClearResponded, ScanDrained, ScanFails
  <2>3. CASE Snapshot \/ ScanBlank
    BY <2>3 DEF Snapshot, ScanBlank
  <2>4. CASE ScanEntry
    BY <2>4 DEF ScanEntry
  <2>5. CASE WriteInFlight \/ TouchResponded \/ Emit
    BY <2>5 DEF WriteInFlight, TouchResponded, Emit
  <2> QED
    BY <1>1, <2>1, <2>2, <2>3, <2>4, <2>5 DEF HookRunsOn, HookStep
<1>2. CASE RecoverRunsOn
  BY <1>2 DEF RecoverRunsOn, hookVars
<1>3. CASE ~HookRunsOn /\ ~RecoverRunsOn
  BY <1>3 DEF Next, AppendLine, FinishAppend, TruncateInbox, ResetCursor, vars, LauncherStep,
              StartRecover, RecoverExits, StartSession, CrashLauncher, SessionStep,
              AgentResponds, TakeDecision, TakeBlock, TakeIdleTick, TakeApprove, EndSession,
              KillHook, InjectKeepalive, CrashSession, HookOff, hookVars
<1> QED
  BY <1>1, <1>2, <1>3

(* The launcher comes to truncated by truncating.                             *)
LEMMA PhaseFrame ==
  ASSUME [Next]_vars
  PROVE  phase' = "truncated" => TruncateInbox \/ phase = "truncated"
BY DEF Next, AppendLine, FinishAppend, ResetCursor, vars, LauncherStep, StartRecover,
       RecoverExits, AfterRecover, StartSession, CrashLauncher, SessionStep, AgentResponds,
       TakeDecision, TakeBlock, TakeIdleTick, TakeApprove, EndSession, KillHook,
       InjectKeepalive, CrashSession, HookRunsOn, RecoverRunsOn, launcherVars

(* The history is a finite sequence of entries.                               *)
LEMMA HistoryType ==
  ASSUME CoreInv
  PROVE  /\ delivered \in Seq(Entry) /\ Len(delivered) \in Nat
         /\ DOMAIN delivered = 1..Len(delivered)
         /\ \A i \in DOMAIN delivered : delivered[i] \in Entry
         /\ \A i \in DOMAIN delivered :
              delivered[i].start_offset \in Nat /\ delivered[i].end_offset \in Nat
<1>1. delivered \in Seq(Entry)
  BY DEF CoreInv, TypeOK
<1>2. Len(delivered) \in Nat /\ DOMAIN delivered = 1..Len(delivered)
  BY <1>1, LenProperties
<1>3. \A i \in DOMAIN delivered : delivered[i] \in Entry
  BY <1>1, <1>2, ElementOfSeq
<1> QED
  BY <1>1, <1>2, <1>3, EntryFields

-----------------------------------------------------------------------------
(* The history and the cursor.                                                *)

(* An entry of the past stays one.  Where the cursor moves, it moves beyond   *)
(* the end of every entry that was delivered from where it stood.             *)
LEMMA PastStep ==
  ASSUME CoreInv, PastInv, [Next]_vars, ~TruncateInbox, ~ResetCursor,
         NEW i \in DOMAIN delivered, NEW d \in Entry, d = delivered[i]
  PROVE  /\ Past(d)'
         /\ AtCursor(d)' => AtCursor(d) /\ UNCHANGED offset
<1>1. /\ d.start_offset \in Nat /\ d.end_offset \in Nat /\ offset \in Nat
      /\ inbox \in Seq(Byte) /\ Len(inbox) \in Nat
  BY EntryFields, LenProperties DEF CoreInv, TypeOK, DirTypeOK
<1>2. /\ IsLine(d) /\ d.start_offset < d.end_offset
      /\ AtCursor(d) \/ Stale(d)
  BY DEF PastInv, Past, IsLine
<1>3. IsLine(d)'
  <2>1. CASE UNCHANGED inbox
    BY <1>2, <2>1 DEF IsLine
  <2>2. CASE AppendLine \/ FinishAppend
    BY <1>1, <1>2, <2>2, InboxGrows, LinePersists DEF CoreInv
  <2> QED
    BY <2>1, <2>2, InboxFrame
<1>4. CASE UNCHANGED offset
  BY <1>2, <1>3, <1>4 DEF Past, AtCursor, Stale
<1>5. CASE offset' >= d.end_offset /\ offset' \in Nat
  BY <1>1, <1>2, <1>3, <1>5 DEF Past, AtCursor, Stale
<1>6. CASE AckAdvance
  <2>1. CASE UNCHANGED offset
    BY <1>4, <2>1
  <2>2. CASE offset' = AckCursor
    <3>1. hEntry = inFlight /\ inFlight \in Entry /\ inFlight # NoEntry
      BY <1>6 DEF AckAdvance, At, CoreInv, TransitInv, TypeOK, DirTypeOK
    <3>2. inFlight.start_offset \in Nat /\ inFlight.end_offset \in Nat
      BY <3>1, EntryFields
    <3>3. AtCursor(inFlight) \/ Stale(inFlight)
      BY <3>1 DEF CoreInv, OrphanInv, Live, AtCursor
    <3>4. AtCursor(inFlight) /\ AtCursor(d) => d.end_offset <= inFlight.end_offset
      BY <3>1 DEF PastInv, Covers
    <3>5. offset' = IF inFlight.end_offset < offset THEN offset ELSE inFlight.end_offset
      BY <2>2, <3>1 DEF AckCursor
    <3>6. CASE Stale(inFlight)
      BY <1>1, <1>4, <3>2, <3>5, <3>6 DEF Stale
    <3>7. CASE AtCursor(inFlight) /\ ~Stale(inFlight)
      BY <1>1, <1>2, <1>5, <3>2, <3>4, <3>5, <3>7 DEF Stale
    <3> QED
      BY <3>3, <3>6, <3>7
  <2> QED
    BY <1>6, <2>1, <2>2 DEF AckAdvance
<1>7. CASE ScanBlank
  <2>1. PICK e \in LineEnds(inbox, hSize, offset) : offset' = e
    BY <1>7 DEF ScanBlank
  <2>2. e \in Nat /\ offset < e /\ e <= hSize /\ (inbox[e] = NL \/ e = hSize)
    BY <1>1, <2>1 DEF LineEnds, BytesIn
  <2>3. AtCursor(d) => d.end_offset <= hSize
    BY <1>7 DEF ScanBlank, At, PastInv, Covers
  <2>4. AtCursor(d) => d.end_offset <= e
    BY <1>1, <1>2, <2>2, <2>3 DEF IsLine, BytesIn, AtCursor
  <2> QED
    BY <1>1, <1>2, <1>5, <2>1, <2>2, <2>4 DEF Stale
<1>8. CASE MoveCursor
  <2>1. CASE UNCHANGED offset
    BY <1>4, <2>1
  <2>2. CASE offset' = rEntry.end_offset
    <3>1. /\ rEntry = inFlight /\ inFlight \in Entry /\ inFlight # NoEntry
          /\ IsLine(inFlight) /\ AtCursor(inFlight)
      BY <1>8 DEF MoveCursor, CoreInv, TransitInv, Live, AtCursor, TypeOK, DirTypeOK
    <3>2. inFlight.start_offset \in Nat /\ inFlight.end_offset \in Nat
      BY <3>1, EntryFields
    <3>3. AtCursor(d) => d.end_offset <= inFlight.end_offset
      BY <3>1 DEF PastInv, Covers
    <3>4. offset < inFlight.end_offset
      BY <3>1 DEF IsLine, AtCursor
    <3> QED
      BY <1>1, <1>2, <1>5, <2>2, <3>1, <3>2, <3>3, <3>4 DEF Stale
  <2>3. CASE offset' = rEntry.start_offset
    BY <1>4, <1>8, <2>3 DEF MoveCursor, CoreInv, TransitInv, Live
  <2> QED
    BY <1>8, <2>1, <2>2, <2>3 DEF MoveCursor, RecoveredCursor
<1> QED
  BY <1>4, <1>6, <1>7, <1>8, CursorFrame

(* What is delivered is the entry .in-flight records, which starts at the     *)
(* cursor; it becomes the last of the history.                                *)
LEMMA TakeBlockStep ==
  ASSUME CoreInv, TakeBlock
  PROVE  /\ hEntry \in Entry /\ hEntry = inFlight /\ responded
         /\ IsLine(hEntry) /\ AtCursor(hEntry)
         /\ UNCHANGED <<inbox, offset, inFlight, responded, faults>>
         /\ Len(delivered') = Len(delivered) + 1
         /\ DOMAIN delivered' = 1..(Len(delivered) + 1)
         /\ \A i \in DOMAIN delivered : delivered'[i] = delivered[i]
         /\ delivered'[Len(delivered) + 1] = hEntry
<1>1. /\ hEntry \in Entry /\ hEntry = inFlight /\ responded
      /\ IsLine(hEntry) /\ AtCursor(hEntry)
  BY DEF TakeBlock, CoreInv, TransitInv, InTransit, Live, AtCursor, TypeOK, HookTypeOK
<1>2. delivered' = Append(delivered, hEntry) /\ UNCHANGED <<inbox, offset, inFlight, responded, faults>>
  BY DEF TakeBlock, dirVars, artifacts
<1>3. delivered' \in Seq(Entry)
  BY <1>1, <1>2, HistoryType, AppendProperties
<1>4. Len(delivered') = Len(delivered) + 1 /\ DOMAIN delivered' = 1..Len(delivered')
  BY <1>1, <1>2, <1>3, HistoryType, AppendProperties, LenProperties
<1> QED
  BY <1>1, <1>2, <1>4, HistoryType, AppendProperties

(* Where a delivery of the next state stood before.                           *)
LEMMA DeliveredBefore ==
  ASSUME CoreInv, [Next]_vars, ~TruncateInbox, NEW i \in DOMAIN delivered'
  PROVE  \/ i \in DOMAIN delivered /\ delivered'[i] = delivered[i]
         \/ TakeBlock /\ i = Len(delivered) + 1 /\ delivered'[i] = hEntry
<1>1. CASE TakeBlock
  BY <1>1, TakeBlockStep, HistoryType
<1>2. CASE UNCHANGED delivered
  BY <1>2
<1> QED
  BY <1>1, <1>2, DeliveredFrame

(* The line that is read at the cursor reaches at least as far as every entry *)
(* that was delivered from there: neither has a newline but at its end, and   *)
(* the snapshot holds both.                                                   *)
LEMMA ScannedEntryCovers ==
  ASSUME CoreInv, PastInv, ScanEntry, NEW i \in DOMAIN delivered, AtCursor(delivered[i])
  PROVE  delivered[i].end_offset <= hEntry'.end_offset
<1>1. /\ inbox \in Seq(Byte) /\ hSize \in Nat /\ hSize <= Len(inbox) /\ offset \in Nat
      /\ delivered[i].end_offset <= hSize
  BY DEF ScanEntry, At, CoreInv, TypeOK, DirTypeOK, HookTypeOK, TransitInv, PastInv, Covers
<1>2. PICK e \in LineEnds(inbox, hSize, offset) :
        \E first, last \in BytesIn(offset, e) :
          hEntry' = LineEntry(inbox, offset, e, first, last)
  BY DEF ScanEntry
<1>3. hEntry'.end_offset = e /\ e \in Nat /\ offset < e
  BY <1>1, <1>2, LineEntryType
<1>4. inbox[e] = NL \/ e = hSize
  BY <1>2 DEF LineEnds
<1>5. /\ delivered[i].end_offset \in Nat
      /\ \A k \in BytesIn(offset, delivered[i].end_offset - 1) : inbox[k] # NL
  BY HistoryType DEF PastInv, Past, IsLine, AtCursor
<1> QED
  BY <1>1, <1>3, <1>4, <1>5 DEF BytesIn

(* Every step keeps what is known of the past.                                *)
LEMMA PastPreserved ==
  ASSUME CoreInv, PastInv, [Next]_vars
  PROVE  PastInv'
<1>1. CASE TruncateInbox
  <2>1. delivered' = <<>> /\ DOMAIN delivered' = {}
    BY <1>1 DEF TruncateInbox
  <2> QED
    BY <2>1 DEF PastInv, Covers
<1>2. CASE ResetCursor
  <2>1. delivered' = <<>> /\ DOMAIN delivered' = {}
    BY <1>2 DEF ResetCursor, PastInv
  <2> QED
    BY <2>1 DEF PastInv, Covers
<1>3. CASE ~TruncateInbox /\ ~ResetCursor
  <2>1. ASSUME NEW i \in DOMAIN delivered'
        PROVE  /\ Past(delivered[i])'
               /\ AtCursor(delivered[i])' =>
                    \/ /\ i \in DOMAIN delivered /\ delivered'[i] = delivered[i]
                       /\ AtCursor(delivered[i]) /\ UNCHANGED offset
                    \/ TakeBlock /\ delivered'[i] = hEntry
    <3>1. CASE i \in DOMAIN delivered /\ delivered'[i] = delivered[i]
      <4>1. delivered[i] \in Entry
        BY <3>1, HistoryType
      <4>2. PICK d \in Entry : d = delivered[i]
        BY <4>1
      <4>3. Past(d)' /\ (AtCursor(d)' => AtCursor(d) /\ UNCHANGED offset)
        BY <1>3, <3>1, <4>2, PastStep
      <4> QED
        BY <3>1, <4>2, <4>3 DEF Past, IsLine, AtCursor, Stale
    <3>2. CASE TakeBlock /\ delivered'[i] = hEntry
      BY <3>2, TakeBlockStep DEF Past, IsLine, AtCursor
    <3> QED
      BY <1>3, <3>1, <3>2, DeliveredBefore
  <2>3. (inFlight # NoEntry /\ AtCursor(inFlight) => Covers(inFlight.end_offset))'
    <3> SUFFICES ASSUME inFlight' # NoEntry, AtCursor(inFlight)', NEW i \in DOMAIN delivered',
                        AtCursor(delivered[i])'
                 PROVE  delivered'[i].end_offset <= inFlight'.end_offset
      BY DEF Covers
    <3>1. CASE TakeBlock /\ delivered'[i] = hEntry
      <4>1. inFlight' = hEntry /\ hEntry \in Entry
        BY <3>1, TakeBlockStep
      <4> QED
        BY <3>1, <4>1, EntryFields
    <3>2. CASE /\ i \in DOMAIN delivered /\ delivered'[i] = delivered[i]
               /\ AtCursor(delivered[i]) /\ UNCHANGED offset
      <4>1. CASE UNCHANGED inFlight
        BY <3>2, <4>1 DEF PastInv, Covers, AtCursor
      <4>2. CASE WriteInFlight /\ inFlight' = hEntry
        BY <3>2, <4>2 DEF WriteInFlight, At, PastInv, Covers
      <4> QED
        BY <4>1, <4>2, InFlightFrame DEF WriteInFlight, AckUnlink, UnlinkOrphan, RemoveInFlight
    <3> QED
      BY <2>1, <3>1, <3>2
  <2>4. (hpc = "scan" => Covers(hSize))'
    <3> SUFFICES ASSUME hpc' = "scan", NEW i \in DOMAIN delivered', AtCursor(delivered[i])'
                 PROVE  delivered'[i].end_offset <= hSize'
      BY DEF Covers
    <3>1. ~TakeBlock
      BY DEF TakeBlock, HookOff
    <3>2. /\ i \in DOMAIN delivered /\ delivered'[i] = delivered[i]
          /\ AtCursor(delivered[i]) /\ UNCHANGED offset
      BY <2>1, <3>1
    <3>3. CASE Snapshot
      BY <3>2, <3>3 DEF Snapshot, FailOpen, Goto, PastInv, Past, IsLine
    <3>4. CASE ScanBlank
      <4>1. offset \in Nat
        BY DEF CoreInv, TypeOK, DirTypeOK
      <4> QED
        BY <3>2, <3>4, <4>1 DEF ScanBlank, LineEnds, BytesIn
    <3>5. CASE hpc = "scan" /\ UNCHANGED hSize
      BY <3>2, <3>5 DEF PastInv, Covers
    <3> QED
      BY <3>3, <3>4, <3>5, ReaderFrame
  <2>5. (hpc = "writeInFlight" => Covers(hEntry.end_offset))'
    <3> SUFFICES ASSUME hpc' = "writeInFlight", NEW i \in DOMAIN delivered',
                        AtCursor(delivered[i])'
                 PROVE  delivered'[i].end_offset <= hEntry'.end_offset
      BY DEF Covers
    <3>1. ~TakeBlock
      BY DEF TakeBlock, HookOff
    <3>2. /\ i \in DOMAIN delivered /\ delivered'[i] = delivered[i]
          /\ AtCursor(delivered[i]) /\ UNCHANGED offset
      BY <2>1, <3>1
    <3>3. CASE ScanEntry
      BY <3>2, <3>3, ScannedEntryCovers
    <3>4. CASE hpc = "writeInFlight" /\ UNCHANGED hEntry
      BY <3>2, <3>4 DEF PastInv, Covers
    <3> QED
      BY <3>3, <3>4, ReaderFrame
  <2>6. (phase = "truncated" => delivered = <<>>)'
    <3>1. CASE TakeBlock
      BY <3>1 DEF TakeBlock, CoreInv, ControlInv
    <3>2. CASE UNCHANGED delivered
      BY <1>3, <3>2, PhaseFrame DEF PastInv
    <3> QED
      BY <1>3, <3>1, <3>2, DeliveredFrame
  <2> QED
    BY <2>1, <2>3, <2>4, <2>5, <2>6 DEF PastInv
<1> QED
  BY <1>1, <1>2, <1>3

-----------------------------------------------------------------------------
(* Order, and who is to blame.                                                *)

(* Faults are counted and never forgotten.                                    *)
LEMMA FaultsGrow ==
  ASSUME CoreInv, [Next]_vars
  PROVE  faults \in Nat /\ faults' \in Nat /\ faults <= faults'
<1>1. faults \in Nat
  BY FaultAssumption DEF CoreInv, TypeOK, DirTypeOK
<1> SUFFICES faults' = faults \/ faults' = faults + 1
  BY <1>1
<1> USE DEF Strike, NoFault, FailOpen, RemoveInFlight, RemoveResponded, RecoverFails
<1>2. CASE HookRunsOn
  BY <1>2 DEF HookRunsOn, HookStep, CheckResponded, ReadInFlight, AckAdvance, AckUnlink,
              ClearResponded, Snapshot, ScanDrained, ScanBlank, ScanEntry, ScanFails,
              WriteInFlight, TouchResponded, Emit, dirVars
<1>3. CASE RecoverRunsOn
  BY <1>3 DEF RecoverRunsOn, RecoverStep, ReadOrphan, Classify, DeadLetterAppend, MoveCursor,
              UnlinkOrphan, UnlinkFlag
<1>4. CASE ~HookRunsOn /\ ~RecoverRunsOn
  BY <1>4 DEF Next, AppendLine, FinishAppend, TruncateInbox, ResetCursor, vars, LauncherStep,
              StartRecover, RecoverExits, StartSession, CrashLauncher, SessionStep,
              AgentResponds, TakeDecision, TakeBlock, TakeIdleTick, TakeApprove, EndSession,
              KillHook, InjectKeepalive, CrashSession, dirVars
<1> QED
  BY <1>2, <1>3, <1>4

(* While an entry is held no recover and no launcher runs.                    *)
LEMMA HeldInSession ==
  ASSUME CoreInv, Held
  PROVE  /\ phase = "session" /\ rpc = "off" /\ session # "waiting"
         /\ hpc \in {"off", "check", "readInFlight", "advance"}
         /\ session = "working" => hpc = "off"
         /\ session # "working" => session = "stopping"
BY DEF CoreInv, ControlInv, Held, TypeOK

(* Only a fault takes an entry out of the agent's hands before the cursor     *)
(* passes it.                                                                 *)
LEMMA HeldStep ==
  ASSUME CoreInv, [Next]_vars, Held
  PROVE  Held' \/ faults' = faults + 1 \/ offset' # offset
<1>1. /\ phase = "session" /\ rpc = "off" /\ session # "waiting"
      /\ hpc \in {"off", "check", "readInFlight", "advance"}
      /\ session = "working" => hpc = "off"
      /\ session # "working" => session = "stopping"
      /\ responded /\ inFlight # NoEntry /\ AtCursor(inFlight)
  BY HeldInSession DEF Held
<1> USE DEF Held, AtCursor, At, Goto, Strike, FailOpen, HookOff, dirVars, artifacts, hookVars,
            recoverVars, launcherVars, producerVars
<1>2. CASE CheckResponded /\ UNCHANGED launcherVars
  BY <1>1, <1>2 DEF CheckResponded
<1>3. CASE ReadInFlight /\ UNCHANGED launcherVars
  BY <1>1, <1>3 DEF ReadInFlight
<1>4. CASE AckAdvance
  <2>1. hEntry = inFlight /\ inFlight \in Entry /\ IsLine(inFlight)
    BY <1>4 DEF AckAdvance, CoreInv, TransitInv, OrphanInv, TypeOK, DirTypeOK
  <2>2. offset < inFlight.end_offset /\ inFlight.end_offset \in Nat /\ offset \in Nat
    BY <1>1, <2>1, EntryFields DEF IsLine
  <2> QED
    BY <1>4, <2>1, <2>2 DEF AckAdvance, AckCursor
<1>5. CASE HookRunsOn /\ hpc \in {"check", "readInFlight", "advance"}
  BY <1>2, <1>3, <1>4, <1>5
     DEF HookRunsOn, HookStep, AckUnlink, ClearResponded, Snapshot, ScanDrained, ScanBlank,
         ScanEntry, ScanFails, WriteInFlight, TouchResponded, Emit
<1>6. CASE HookRunsOn /\ hpc = "off"
  BY <1>6 DEF HookRunsOn, HookStep, CheckResponded, ReadInFlight, AckAdvance, AckUnlink,
              ClearResponded, Snapshot, ScanDrained, ScanBlank, ScanEntry, ScanFails,
              WriteInFlight, TouchResponded, Emit
<1>7. ~RecoverRunsOn
  BY <1>1 DEF RecoverRunsOn, RecoverStep, ReadOrphan, Classify, DeadLetterAppend, MoveCursor,
              UnlinkOrphan, UnlinkFlag
<1>8. CASE AgentResponds \/ KillHook \/ CrashSession
  BY <1>1, <1>8 DEF AgentResponds, KillHook, CrashSession
<1>9. CASE AppendLine \/ FinishAppend \/ UNCHANGED vars
  BY <1>1, <1>9 DEF AppendLine, FinishAppend, vars
<1>10. ~LauncherStep /\ ~CrashLauncher /\ ~TakeDecision /\ ~EndSession /\ ~InjectKeepalive
  BY <1>1 DEF LauncherStep, StartRecover, RecoverExits, TruncateInbox, ResetCursor,
              StartSession, CrashLauncher, TakeDecision, TakeBlock, TakeIdleTick, TakeApprove,
              EndSession, InjectKeepalive
<1> QED
  BY <1>1, <1>5, <1>6, <1>7, <1>8, <1>9, <1>10 DEF Next, SessionStep

(* A delivery follows what lies behind the cursor, or starts where an earlier *)
(* one started.                                                               *)
LEMMA OrderPreserved ==
  ASSUME CoreInv, PastInv, RedeliverOnlyOrphan, [Next]_vars
  PROVE  RedeliverOnlyOrphan'
<1>1. CASE TruncateInbox
  BY <1>1 DEF TruncateInbox, RedeliverOnlyOrphan
<1>2. CASE TakeBlock
  <2> SUFFICES ASSUME NEW i \in DOMAIN delivered', NEW j \in DOMAIN delivered', i < j
               PROVE  \/ delivered'[j].start_offset >= delivered'[i].end_offset
                      \/ delivered'[j].start_offset = delivered'[i].start_offset
    BY DEF RedeliverOnlyOrphan
  <2>1. i \in DOMAIN delivered /\ delivered'[i] = delivered[i]
    BY <1>2, TakeBlockStep, HistoryType
  <2>2. CASE j \in DOMAIN delivered
    BY <1>2, <2>1, <2>2, TakeBlockStep DEF RedeliverOnlyOrphan
  <2>3. CASE j = Len(delivered) + 1
    <3>1. delivered'[j].start_offset = offset
      BY <1>2, <2>3, TakeBlockStep DEF AtCursor
    <3>2. delivered[i].start_offset = offset \/ offset >= delivered[i].end_offset
      BY <2>1 DEF PastInv, Past, AtCursor, Stale
    <3> QED
      BY <2>1, <3>1, <3>2
  <2> QED
    BY <1>2, <2>2, <2>3, TakeBlockStep, HistoryType
<1>3. CASE UNCHANGED delivered
  BY <1>3 DEF RedeliverOnlyOrphan
<1> QED
  BY <1>1, <1>2, <1>3, DeliveredFrame

(* Every delivery from the cursor after the first is one fault's doing.       *)
LEMMA BlamePreserved ==
  ASSUME CoreInv, PastInv, BlameInv, [Next]_vars
  PROVE  BlameInv'
<1> SUFFICES ASSUME NEW i \in DOMAIN delivered', AtCursor(delivered[i])'
             PROVE  Len(delivered') - i + (IF Held' THEN 0 ELSE 1) <= faults'
  BY DEF BlameInv
<1>1. /\ faults \in Nat /\ faults' \in Nat /\ faults <= faults'
      /\ Len(delivered) \in Nat /\ DOMAIN delivered = 1..Len(delivered)
  BY FaultsGrow, HistoryType
<1>2. ~TruncateInbox /\ ~ResetCursor
  BY DEF TruncateInbox, ResetCursor, PastInv
<1>3. CASE i \in DOMAIN delivered /\ delivered'[i] = delivered[i]
  <2>1. PICK d \in Entry : d = delivered[i]
    BY <1>3, HistoryType
  <2>2. AtCursor(d) /\ UNCHANGED offset
    BY <1>2, <1>3, <2>1, PastStep DEF AtCursor
  <2>3. Len(delivered) - i + (IF Held THEN 0 ELSE 1) <= faults
    BY <1>3, <2>1, <2>2 DEF BlameInv
  <2>4. CASE TakeBlock
    <3>1. ~Held
      BY <2>4, HeldInSession DEF TakeBlock
    <3>2. Held'
      BY <2>4, TakeBlockStep, EntryFields DEF TakeBlock, Held, AtCursor
    <3> QED
      BY <1>1, <1>3, <2>3, <2>4, <3>1, <3>2, TakeBlockStep
  <2>5. CASE UNCHANGED delivered
    <3>1. Held => Held' \/ faults' = faults + 1
      BY <2>2, HeldStep
    <3> HIDE DEF Held
    <3> QED
      BY <1>1, <1>3, <2>3, <2>5, <3>1
  <2> QED
    BY <1>2, <2>4, <2>5, DeliveredFrame
<1>4. CASE TakeBlock /\ i = Len(delivered) + 1
  <2>1. Held'
    BY <1>4, TakeBlockStep, EntryFields DEF TakeBlock, Held, AtCursor
  <2> QED
    BY <1>1, <1>4, <2>1, TakeBlockStep
<1> QED
  BY <1>2, <1>3, <1>4, DeliveredBefore

(* An entry that comes back overlaps only what was delivered from the cursor. *)
LEMMA NeedsFaultPreserved ==
  ASSUME CoreInv, PastInv, BlameInv, RedeliveryNeedsFault, [Next]_vars
  PROVE  RedeliveryNeedsFault'
<1> SUFFICES ASSUME NEW i \in DOMAIN delivered', NEW j \in DOMAIN delivered', i < j,
                    Overlap(delivered'[i], delivered'[j])
             PROVE  j - i <= faults'
  BY DEF RedeliveryNeedsFault, Overlap
<1>1. /\ faults \in Nat /\ faults' \in Nat /\ faults <= faults'
      /\ Len(delivered) \in Nat /\ DOMAIN delivered = 1..Len(delivered)
  BY FaultsGrow, HistoryType
<1>2. CASE TruncateInbox
  BY <1>2 DEF TruncateInbox
<1>3. CASE UNCHANGED delivered
  BY <1>1, <1>3 DEF RedeliveryNeedsFault
<1>4. CASE TakeBlock
  <2>1. i \in DOMAIN delivered /\ delivered'[i] = delivered[i]
    BY <1>4, TakeBlockStep, HistoryType
  <2>2. CASE j \in DOMAIN delivered
    BY <1>1, <1>4, <2>1, <2>2, TakeBlockStep DEF RedeliveryNeedsFault
  <2>3. CASE j = Len(delivered) + 1
    <3>1. delivered'[j].start_offset = offset /\ offset \in Nat
      BY <1>4, <2>3, TakeBlockStep DEF AtCursor, CoreInv, TypeOK, DirTypeOK
    <3>2. ~Stale(delivered[i])
      BY <2>1, <3>1, HistoryType DEF Overlap, Stale
    <3>3. AtCursor(delivered[i])
      BY <2>1, <3>2 DEF PastInv, Past
    <3>4. ~Held
      BY <1>4, HeldInSession DEF TakeBlock
    <3>5. Len(delivered) - i + 1 <= faults
      BY <2>1, <3>3, <3>4 DEF BlameInv
    <3> QED
      BY <1>1, <2>1, <2>3, <3>5
  <2> QED
    BY <1>4, <2>2, <2>3, TakeBlockStep, HistoryType
<1> QED
  BY <1>2, <1>3, <1>4, DeliveredFrame

(* The history invariant holds initially, when nothing was delivered.         *)
LEMMA InitHistory == Init => HistoryInv
<1> SUFFICES ASSUME Init PROVE HistoryInv
  OBVIOUS
<1>1. DOMAIN delivered = {} /\ inFlight = NoEntry /\ hpc = "off"
  BY DEF Init, DirInit, HookInit
<1> QED
  BY <1>1 DEF Init, HistoryInv, PastInv, RedeliverOnlyOrphan, BlameInv, RedeliveryNeedsFault

(* HistoryInv holds in every reachable state, under the contract or without   *)
(* truncating launchers.                                                      *)
THEOREM HistoryKept ==
  ASSUME Orderly
  PROVE  Spec => []HistoryInv
<1>1. CoreInv /\ HistoryInv /\ [Next]_vars => HistoryInv'
  BY PastPreserved, OrderPreserved, BlamePreserved, NeedsFaultPreserved DEF HistoryInv
<1>2. Spec => []CoreInv
  BY CoreKept, Orderly
<1> QED
  BY InitHistory, <1>1, <1>2, PTL DEF Spec

(* Order is kept, and nothing that was acknowledged comes back: an entry that *)
(* reaches the agent again starts where it started the first time.            *)
THEOREM OnlyOrphansComeBack ==
  ASSUME Orderly
  PROVE  Spec => []RedeliverOnlyOrphan
<1>1. HistoryInv => RedeliverOnlyOrphan
  BY DEF HistoryInv
<1>2. Spec => []HistoryInv
  BY HistoryKept, Orderly
<1> QED
  BY <1>1, <1>2, PTL

(* An entry comes back at most as often as faults struck: without faults each *)
(* entry reaches the agent at most once.                                      *)
THEOREM FaultsAreToBlame ==
  ASSUME Orderly
  PROVE  Spec => []RedeliveryNeedsFault
<1>1. HistoryInv => RedeliveryNeedsFault
  BY DEF HistoryInv
<1>2. Spec => []HistoryInv
  BY HistoryKept, Orderly
<1> QED
  BY <1>1, <1>2, PTL

-----------------------------------------------------------------------------
(* At most once.                                                              *)

(* The files keep what a delivery from the cursor left in them: whoever       *)
(* removes .in-flight or .responded finds it stale or gone.                   *)
LEMMA TracesStay ==
  ASSUME CoreInv, PastInv, OnceInv, [Next]_vars, ~TakeBlock, "stat" \notin FaultKinds,
         NEW i \in DOMAIN delivered, AtCursor(delivered[i]), UNCHANGED offset
  PROVE  /\ UNCHANGED <<inFlight, responded>>
         /\ ~Fetching'
         /\ hpc' \in {"emit", "done"} => decision' # "block"
<1>1. /\ inFlight = delivered[i] /\ inFlight # NoEntry /\ responded /\ ~Fetching
      /\ hpc \in {"emit", "done"} => decision # "block"
  BY HistoryType, EntryFields DEF OnceInv
<1>2. /\ ~Stale(inFlight) /\ offset \in Nat
      /\ inFlight.end_offset \in Nat /\ offset < inFlight.end_offset
  BY <1>1, HistoryType DEF PastInv, Past, IsLine, AtCursor, Stale, CoreInv, TypeOK, DirTypeOK
<1>3. ~WriteInFlight /\ ~TouchResponded /\ ~AckUnlink /\ ~ClearResponded
  BY <1>1 DEF WriteInFlight, TouchResponded, AckUnlink, ClearResponded, At, Fetching
<1>4. ~UnlinkOrphan /\ ~UnlinkFlag
  BY <1>1, <1>2 DEF UnlinkOrphan, UnlinkFlag, CoreInv, TransitInv, OnceInv
<1>5. ~(AckAdvance /\ offset' = AckCursor)
  BY <1>2 DEF AckAdvance, AckCursor, At, CoreInv, TransitInv
<1> QED
  BY <1>1, <1>3, <1>4, <1>5, InFlightFrame, FlagFrame, BlockFrame, FetchFrame

(* Where no policy is retry and no look at .responded fails, every step keeps *)
(* OnceInv.                                                                   *)
LEMMA OncePreserved ==
  ASSUME CoreInv, CoreInv', PastInv, OnceInv, [Next]_vars,
         "retry" \notin Policies, "stat" \notin FaultKinds
  PROVE  OnceInv'
<1>1. ASSUME NEW i \in DOMAIN delivered', AtCursor(delivered[i])'
      PROVE  /\ i = Len(delivered') /\ inFlight' = delivered'[i] /\ responded'
             /\ ~Fetching'
             /\ hpc' \in {"emit", "done"} => decision' # "block"
  <2>1. ~TruncateInbox /\ ~ResetCursor
    BY <1>1 DEF TruncateInbox, ResetCursor, PastInv
  <2>2. CASE TakeBlock /\ i = Len(delivered) + 1
    BY <2>2, TakeBlockStep DEF TakeBlock, HookOff, Fetching
  <2>3. CASE i \in DOMAIN delivered /\ delivered'[i] = delivered[i]
    <3>1. PICK d \in Entry : d = delivered[i]
      BY <2>3, HistoryType
    <3>2. AtCursor(delivered[i]) /\ UNCHANGED offset
      BY <1>1, <2>1, <2>3, <3>1, PastStep DEF AtCursor
    <3>3. ~TakeBlock
      BY <2>3, <3>2 DEF TakeBlock, OnceInv
    <3> QED
      BY <2>1, <2>3, <3>2, <3>3, TracesStay, DeliveredFrame DEF OnceInv
  <2> QED
    BY <2>1, <2>2, <2>3, DeliveredBefore
<1>2. (rpc = "unlinkOrphan" => Stale(rEntry))'
  <2> SUFFICES ASSUME rpc' = "unlinkOrphan" PROVE offset' >= rEntry'.end_offset
    BY DEF Stale
  <2>1. CASE Classify /\ Stale(rEntry) /\ UNCHANGED <<rEntry, offset>>
    BY <2>1 DEF Stale
  <2>2. CASE MoveCursor /\ offset' = RecoveredCursor /\ UNCHANGED rEntry
    <3>1. policy # "retry"
      BY DEF CoreInv, TypeOK, RecoverTypeOK
    <3>2. rEntry.end_offset \in Nat
      BY <2>2, EntryFields DEF MoveCursor, CoreInv, TransitInv, TypeOK, RecoverTypeOK
    <3> QED
      BY <2>2, <3>1, <3>2 DEF RecoveredCursor
  <2>3. CASE rpc = "unlinkOrphan" /\ UNCHANGED rEntry
    <3>1. offset >= rEntry.end_offset /\ ~ResetCursor
      BY <2>3 DEF OnceInv, Stale, ResetCursor, CoreInv, ControlInv
    <3>2. offset' >= offset
      BY <3>1, CursorStep DEF vars, dirVars, artifacts, CoreInv, TypeOK, DirTypeOK
    <3>3. offset \in Nat /\ rEntry.end_offset \in Nat
      BY <2>3, EntryFields DEF CoreInv, TypeOK, DirTypeOK, RecoverTypeOK, TransitInv
    <3>4. offset' \in Nat
      BY DEF CoreInv, TypeOK, DirTypeOK
    <3> QED
      BY <2>3, <3>1, <3>2, <3>3, <3>4
  <2> QED
    BY <2>1, <2>2, <2>3, UnlinkFrame
<1>3. (rpc = "unlinkFlag" => inFlight = NoEntry \/ Stale(inFlight))'
  <2> SUFFICES ASSUME rpc' = "unlinkFlag", inFlight' # NoEntry
               PROVE  offset' >= inFlight'.end_offset
    BY DEF Stale
  <2>1. CASE UnlinkOrphan /\ UNCHANGED <<offset, inFlight>>
    BY <2>1 DEF UnlinkOrphan, OnceInv, CoreInv, TransitInv, Stale
  <2>2. CASE rpc = "unlinkFlag"
    <3>1. /\ phase = "recovering" /\ phase # "session" /\ hpc = "off"
      BY <2>2 DEF CoreInv, ControlInv
    <3>2. UNCHANGED inFlight /\ ~ResetCursor
      BY <2>2, <3>1, InFlightFrame
         DEF WriteInFlight, AckUnlink, UnlinkOrphan, At, ResetCursor
    <3>3. offset >= inFlight.end_offset
      BY <2>2, <3>2 DEF OnceInv, Stale
    <3>4. offset' >= offset
      BY <3>2, CursorStep DEF vars, dirVars, artifacts, CoreInv, TypeOK, DirTypeOK
    <3>5. /\ offset \in Nat /\ offset' \in Nat /\ inFlight.end_offset \in Nat
      BY <3>2, EntryFields DEF CoreInv, TypeOK, DirTypeOK
    <3> QED
      BY <3>2, <3>3, <3>4, <3>5
  <2> QED
    BY <2>1, <2>2, UnflagFrame
<1>4. AtMostOnceDelivery'
  <2>1. CASE TruncateInbox
    BY <2>1 DEF TruncateInbox, AtMostOnceDelivery
  <2>2. CASE UNCHANGED delivered
    BY <2>2 DEF OnceInv, AtMostOnceDelivery
  <2>3. CASE TakeBlock
    <3>1. ASSUME NEW i \in DOMAIN delivered
          PROVE  ~Overlap(delivered[i], hEntry) /\ ~Overlap(hEntry, delivered[i])
      <4>1. ~AtCursor(delivered[i])
        BY <2>3 DEF TakeBlock, OnceInv
      <4>2. offset >= delivered[i].end_offset
        BY <4>1 DEF PastInv, Past, Stale
      <4>3. hEntry.start_offset = offset /\ offset \in Nat
        BY <2>3, TakeBlockStep DEF AtCursor, CoreInv, TypeOK, DirTypeOK
      <4> QED
        BY <4>2, <4>3, HistoryType DEF Overlap
    <3> SUFFICES ASSUME NEW i \in DOMAIN delivered', NEW j \in DOMAIN delivered', i # j
                 PROVE  ~Overlap(delivered'[i], delivered'[j])
      BY DEF AtMostOnceDelivery, Overlap
    <3>2. CASE i \in DOMAIN delivered /\ j \in DOMAIN delivered
      BY <2>3, <3>2, TakeBlockStep DEF OnceInv, AtMostOnceDelivery
    <3>3. CASE i = Len(delivered) + 1 /\ j \in DOMAIN delivered
      BY <2>3, <3>1, <3>3, TakeBlockStep
    <3>4. CASE i \in DOMAIN delivered /\ j = Len(delivered) + 1
      BY <2>3, <3>1, <3>4, TakeBlockStep
    <3> QED
      BY <2>3, <3>2, <3>3, <3>4, TakeBlockStep, HistoryType
  <2> QED
    BY <2>1, <2>2, <2>3, DeliveredFrame
<1> QED
  BY <1>1, <1>2, <1>3, <1>4 DEF OnceInv

(* Without the retry policy, and where no look at .responded fails, the entry *)
(* at the cursor is out once, and stays recorded and flagged until the cursor *)
(* has passed it.                                                             *)
THEOREM OnceKept ==
  ASSUME Orderly, "retry" \notin Policies, "stat" \notin FaultKinds
  PROVE  Spec => []OnceInv
<1>1. Init => OnceInv
  <2> SUFFICES ASSUME Init PROVE OnceInv
    OBVIOUS
  <2>1. DOMAIN delivered = {} /\ rpc = "off"
    BY DEF Init, RecoverInit
  <2> QED
    BY <2>1 DEF OnceInv, AtMostOnceDelivery
<1>2. CoreInv /\ CoreInv' /\ HistoryInv /\ OnceInv /\ [Next]_vars => OnceInv'
  BY OncePreserved DEF HistoryInv
<1>3. Spec => []CoreInv /\ []HistoryInv
  BY CoreKept, HistoryKept, Orderly
<1> QED
  BY <1>1, <1>2, <1>3, PTL DEF Spec

(* Under deadletter and drop no byte reaches the agent twice, whatever        *)
(* crashes and whatever else fails but the look at .responded.                *)
THEOREM AtMostOnce ==
  ASSUME Orderly, "retry" \notin Policies, "stat" \notin FaultKinds
  PROVE  Spec => []AtMostOnceDelivery
<1>1. OnceInv => AtMostOnceDelivery
  BY DEF OnceInv
<1>2. Spec => []OnceInv
  BY OnceKept, Orderly
<1> QED
  BY <1>1, <1>2, PTL
=============================================================================
