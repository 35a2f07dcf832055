---------------------------- MODULE HeartbeatProofs ----------------------------
(* Machine-checked proofs of Heartbeat's safety properties, for every value   *)
(* of the constants that meets Contract.                                      *)
EXTENDS HeartbeatInv, SequenceTheorems, TLAPS

-----------------------------------------------------------------------------
(* What the reader of the inbox returns.                                      *)

(* from_utf8_lossy of bytes is a string over the bytes and U+FFFD.            *)
LEMMA LossyType ==
  ASSUME NEW s \in Seq(Byte)
  PROVE  FromUtf8Lossy(s) \in Seq(Byte \cup {Replacement})
<1>1. Len(s) \in Nat /\ DOMAIN s = 1..Len(s) /\ \A i \in 1..Len(s) : s[i] \in Byte
  BY LenProperties, ElementOfSeq
<1>2. FromUtf8Lossy(s) \in [1..Len(s) -> Byte \cup {Replacement}]
  BY <1>1 DEF FromUtf8Lossy
<1> QED
  BY <1>1, <1>2, SeqDef

(* The line at `start' that read_next_entry returns is an entry: it starts    *)
(* there, ends inside the snapshot and holds no newline but its last byte.    *)
LEMMA LineEntryType ==
  ASSUME NEW box \in Seq(Byte), NEW size \in Nat, size <= Len(box), NEW start \in Nat,
         NEW e \in LineEnds(box, size, start),
         NEW first \in BytesIn(start, e), NEW last \in BytesIn(start, e)
  PROVE  /\ LineEntry(box, start, e, first, last) \in Entry
         /\ LineEntry(box, start, e, first, last).start_offset = start
         /\ LineEntry(box, start, e, first, last).end_offset = e
         /\ e \in Nat /\ start < e /\ e <= size
         /\ \A i \in BytesIn(start, e - 1) : box[i] # NL
<1>1. /\ e \in Nat /\ start < e /\ e <= size
      /\ \A i \in BytesIn(start, e - 1) : box[i] # NL
  BY DEF LineEnds, BytesIn
<1>2. Len(box) \in Nat /\ \A i \in first..last : box[i] \in Byte
  BY <1>1, LenProperties, ElementOfSeq DEF BytesIn
<1>3. SubSeq(box, first, last) \in Seq(Byte)
  BY <1>1, <1>2, SubSeqProperties DEF BytesIn
<1> QED
  BY <1>1, <1>3, LossyType DEF LineEntry, Entry

(* The fields of an entry.                                                    *)
LEMMA EntryFields ==
  ASSUME NEW e \in Entry
  PROVE  e.start_offset \in Nat /\ e.end_offset \in Nat /\ e # NoEntry
BY NoEntryAssumption DEF Entry

(* Bytes appended to the inbox leave every byte that was there in its place.  *)
LEMMA AppendKeepsBytes ==
  ASSUME NEW box \in Seq(Byte), NEW more \in Seq(Byte)
  PROVE  /\ box \o more \in Seq(Byte)
         /\ Len(box) \in Nat /\ Len(more) \in Nat
         /\ Len(box \o more) = Len(box) + Len(more)
         /\ \A i \in 1..Len(box) : (box \o more)[i] = box[i]
BY ConcatProperties, LenProperties

(* What a producer appends leaves every byte that was there in its place.     *)
LEMMA InboxGrows ==
  ASSUME TypeOK, AppendLine \/ FinishAppend
  PROVE  /\ inbox' \in Seq(Byte)
         /\ Len(inbox) \in Nat /\ Len(inbox') \in Nat /\ Len(inbox) <= Len(inbox')
         /\ \A i \in 1..Len(inbox) : inbox'[i] = inbox[i]
<1>1. inbox \in Seq(Byte) /\ pending \in Seq(Byte)
  BY DEF TypeOK, DirTypeOK
<1>2. PICK more \in Seq(Byte) : inbox' = inbox \o more
  <2>1. CASE AppendLine
    <3>1. PICK line \in Lines : \E n \in 1..Len(line) : inbox' = inbox \o SubSeq(line, 1, n)
      BY <2>1 DEF AppendLine
    <3>2. PICK n \in 1..Len(line) : inbox' = inbox \o SubSeq(line, 1, n)
      BY <3>1
    <3>3. line \in Seq(Byte) /\ Len(line) \in Nat /\ \A i \in 1..Len(line) : line[i] \in Byte
      BY LauncherAssumption, LenProperties, ElementOfSeq
    <3>4. SubSeq(line, 1, n) \in Seq(Byte)
      BY <3>3, SubSeqProperties
    <3> QED
      BY <3>2, <3>4
  <2>2. CASE FinishAppend
    BY <1>1, <2>2 DEF FinishAppend
  <2> QED
    BY <2>1, <2>2
<1> QED
  BY <1>1, <1>2, AppendKeepsBytes

(* A line stays one while the inbox grows.                                    *)
LEMMA LinePersists ==
  ASSUME NEW e \in Entry, IsLine(e),
         Len(inbox) \in Nat, Len(inbox') \in Nat, Len(inbox) <= Len(inbox'),
         \A i \in 1..Len(inbox) : inbox'[i] = inbox[i]
  PROVE  IsLine(e)'
<1>1. e.start_offset \in Nat /\ e.end_offset \in Nat
  BY EntryFields
<1>2. ASSUME NEW i \in BytesIn(e.start_offset, e.end_offset - 1)
      PROVE  inbox'[i] # NL
  BY <1>1 DEF IsLine, BytesIn
<1>3. e.start_offset < e.end_offset /\ e.end_offset <= Len(inbox')
  BY <1>1 DEF IsLine
<1> QED
  BY <1>2, <1>3 DEF IsLine

-----------------------------------------------------------------------------
(* What is in flight: CoreInv, one component at a time, whatever faults       *)
(* strike.                                                                    *)

(* Every step of the stop hook.                                               *)
LEMMA HookKeepsCore ==
  ASSUME CoreInv, HookRunsOn
  PROVE  CoreInv'
<1> USE FaultAssumption, EntryFields
    DEF CoreInv, TypeOK, DirTypeOK, HookTypeOK, HookPcs, Decisions, RecoverTypeOK, RecoverPcs,
        BytesIn, OrphanInv, IsLine, Live, Stale, ControlInv, TransitInv, InTransit,
        dirVars, artifacts, hookVars, recoverVars, launcherVars, producerVars,
        Strike, NoFault, AllFaultKinds
<1>0. UNCHANGED <<recoverVars, launcherVars, producerVars, delivered>>
  BY DEF HookRunsOn
<1> USE <1>0 DEF At, Goto, FailOpen
<1>1. CASE CheckResponded
  BY <1>1 DEF CheckResponded
<1>2. CASE ReadInFlight
  <2> USE <1>2 DEF ReadInFlight
  <2>1. TypeOK'
    OBVIOUS
  <2>2. OrphanInv'
    OBVIOUS
  <2>3. ControlInv'
    OBVIOUS
  <2>4. TransitInv'
    OBVIOUS
  <2> QED
    BY <2>1, <2>2, <2>3, <2>4
<1>3. CASE AckAdvance
  <2> USE <1>3 DEF AckAdvance, AckCursor
  <2>a. offset' \in Nat
    OBVIOUS
  <2>b. hpc' \in HookPcs /\ decision' \in Decisions \cup {"none"} /\ faults' \in 0..MaxFaults
    OBVIOUS
  <2>1. TypeOK'
    BY <2>a, <2>b
  <2>2. OrphanInv'
    OBVIOUS
  <2>3. ControlInv'
    OBVIOUS
  <2>4. TransitInv'
    OBVIOUS
  <2> QED
    BY <2>1, <2>2, <2>3, <2>4
<1>4. CASE AckUnlink
  <2> USE <1>4 DEF AckUnlink, RemoveInFlight
  <2>1. TypeOK'
    OBVIOUS
  <2>2. OrphanInv'
    OBVIOUS
  <2>3. ControlInv'
    OBVIOUS
  <2>4. TransitInv'
    OBVIOUS
  <2> QED
    BY <2>1, <2>2, <2>3, <2>4
<1>5. CASE ClearResponded
  <2> USE <1>5 DEF ClearResponded, RemoveResponded
  <2>a. responded' \in BOOLEAN
    OBVIOUS
  <2>1. TypeOK'
    BY <2>a
  <2>2. OrphanInv'
    OBVIOUS
  <2>3. ControlInv'
    OBVIOUS
  <2>4. TransitInv'
    OBVIOUS
  <2> QED
    BY <2>1, <2>2, <2>3, <2>4
<1>6. CASE Snapshot
  BY <1>6, LenProperties DEF Snapshot
<1>7. CASE ScanDrained
  BY <1>7, ModeAssumption DEF ScanDrained, ApproveOrIdle, Modes
<1>8. CASE ScanBlank
  <2> USE <1>8 DEF ScanBlank
  <2>1. PICK e \in LineEnds(inbox, hSize, offset) : AllBlank(inbox, offset, e) /\ offset' = e
    OBVIOUS
  <2>2. e \in Nat /\ offset < e /\ e <= hSize /\ (inbox[e] = NL \/ e = hSize)
    BY <2>1 DEF LineEnds
  <2>3. inFlight # NoEntry => inFlight.end_offset <= e \/ Stale(inFlight)
    <3> SUFFICES ASSUME inFlight # NoEntry, offset = inFlight.start_offset PROVE inFlight.end_offset <= e
      OBVIOUS
    <3>1. inFlight.start_offset \in Nat /\ inFlight.end_offset \in Nat BY EntryFields
    <3>2. inFlight.end_offset <= hSize OBVIOUS
    <3>3. \A i \in BytesIn(inFlight.start_offset, inFlight.end_offset - 1) : inbox[i] # NL OBVIOUS
    <3>4. hSize \in Nat OBVIOUS
    <3> HIDE DEF CoreInv
    <3> QED BY <3>1, <3>2, <3>3, <3>4, <2>2 
  <2>4. OrphanInv'
    <3>1. CASE inFlight = NoEntry BY <3>1
    <3>2. CASE inFlight # NoEntry
      <4>1. IsLine(inFlight)' BY <3>2
      <4>2. offset' = inFlight.start_offset \/ offset' >= inFlight.end_offset
        BY <2>1, <2>2, <2>3, <3>2, EntryFields
      <4> QED BY <4>1, <4>2
    <3> QED BY <3>1, <3>2
  <2>5. TypeOK' /\ ControlInv' /\ TransitInv'
    BY <2>1, <2>2
  <2> QED BY <2>4, <2>5
<1>9. CASE ScanEntry
  <2>1. hSize \in Nat /\ hSize <= Len(inbox) /\ inbox \in Seq(Byte) /\ offset \in Nat
    BY <1>9 DEF ScanEntry
  <2>2. PICK e \in LineEnds(inbox, hSize, offset) :
          \E first, last \in BytesIn(offset, e) : hEntry' = LineEntry(inbox, offset, e, first, last)
    BY <1>9 DEF ScanEntry
  <2>3. /\ hEntry' \in Entry /\ hEntry'.start_offset = offset /\ hEntry'.end_offset = e
        /\ e \in Nat /\ offset < e /\ e <= Len(inbox)
        /\ \A i \in BytesIn(offset, e - 1) : inbox[i] # NL
    <3> HIDE DEF CoreInv, BytesIn
    <3> QED BY <2>1, <2>2, LineEntryType
  <2>4. rpc' = rpc /\ hpc = "scan" /\ hpc' = "writeInFlight" /\ UNCHANGED <<dirVars, hSize, decision>>
    BY <1>9 DEF ScanEntry
  <2>5. TypeOK' /\ OrphanInv'
    BY <2>3, <2>4
  <2>6. ControlInv'
    BY <2>4
  <2>7. TransitInv'
    BY <2>3, <2>4
  <2> QED
    BY <2>5, <2>6, <2>7
<1>10. CASE ScanFails
  BY <1>10 DEF ScanFails
<1>11. CASE WriteInFlight
  <2> USE <1>11 DEF WriteInFlight
  <2>1. TypeOK'
    OBVIOUS
  <2>2. OrphanInv'
    OBVIOUS
  <2>3. ControlInv'
    OBVIOUS
  <2>4. TransitInv'
    OBVIOUS
  <2> QED
    BY <2>1, <2>2, <2>3, <2>4
<1>12. CASE TouchResponded
  <2> USE <1>12 DEF TouchResponded
  <2>a. responded' \in BOOLEAN
    OBVIOUS
  <2>1. TypeOK'
    BY <2>a
  <2>2. OrphanInv'
    OBVIOUS
  <2>3. ControlInv'
    OBVIOUS
  <2>4. TransitInv'
    OBVIOUS
  <2> QED
    BY <2>1, <2>2, <2>3, <2>4
<1>13. CASE Emit
  BY <1>13 DEF Emit
<1> QED
  BY <1>1, <1>2, <1>3, <1>4, <1>5, <1>6, <1>7, <1>8, <1>9, <1>10, <1>11, <1>12, <1>13 DEF HookRunsOn, HookStep

(* Every step of recover.                                                     *)
LEMMA RecoverKeepsCore ==
  ASSUME CoreInv, RecoverRunsOn
  PROVE  CoreInv'
<1> USE FaultAssumption, EntryFields
    DEF CoreInv, TypeOK, DirTypeOK, HookTypeOK, HookPcs, Decisions, RecoverTypeOK, RecoverPcs,
        BytesIn, OrphanInv, IsLine, Live, Stale, ControlInv, TransitInv, InTransit,
        dirVars, artifacts, hookVars, recoverVars, launcherVars, producerVars,
        Strike, NoFault, AllFaultKinds
<1>0. UNCHANGED <<hookVars, launcherVars, producerVars, delivered>>
  BY DEF RecoverRunsOn
<1> USE <1>0 DEF RecoverFails
<1>1. CASE ReadOrphan
  BY <1>1 DEF ReadOrphan, AfterRead
<1>2. CASE Classify
  <2> USE <1>2 DEF Classify
  <2>1. TypeOK'
    OBVIOUS
  <2>2. OrphanInv'
    OBVIOUS
  <2>3. ControlInv'
    OBVIOUS
  <2>4. TransitInv'
    OBVIOUS
  <2> QED
    BY <2>1, <2>2, <2>3, <2>4
<1>3. CASE DeadLetterAppend
  <2> USE <1>3 DEF DeadLetterAppend
  <2>a. rEntry \in Entry
    OBVIOUS
  <2>b. Append(deadLetter, rEntry) \in Seq(Entry)
    BY <2>a, AppendProperties
  <2>c. deadLetter' \in Seq(Entry) /\ settled' \subseteq Entry
    BY <2>a, <2>b
  <2>d. faults' \in 0..MaxFaults
    OBVIOUS
  <2>1. TypeOK'
    BY <2>c, <2>d
  <2>2. OrphanInv'
    OBVIOUS
  <2>3. ControlInv'
    OBVIOUS
  <2>4. TransitInv'
    OBVIOUS
  <2> QED
    BY <2>1, <2>2, <2>3, <2>4
<1>4. CASE MoveCursor
  <2> USE <1>4, PolicyAssumption DEF MoveCursor, RecoveredCursor, OrphanPolicy
  <2>1. TypeOK'
    OBVIOUS
  <2>2. OrphanInv'
    OBVIOUS
  <2>3. ControlInv'
    OBVIOUS
  <2>4. TransitInv'
    OBVIOUS
  <2> QED
    BY <2>1, <2>2, <2>3, <2>4
<1>5. CASE UnlinkOrphan
  <2> USE <1>5 DEF UnlinkOrphan, RemoveInFlight
  <2>1. TypeOK'
    OBVIOUS
  <2>2. OrphanInv'
    OBVIOUS
  <2>3. ControlInv'
    OBVIOUS
  <2>4. TransitInv'
    OBVIOUS
  <2> QED
    BY <2>1, <2>2, <2>3, <2>4
<1>6. CASE UnlinkFlag
  <2> USE <1>6 DEF UnlinkFlag, RemoveResponded
  <2>a. responded' \in BOOLEAN
    OBVIOUS
  <2>1. TypeOK'
    BY <2>a
  <2>2. OrphanInv'
    OBVIOUS
  <2>3. ControlInv'
    OBVIOUS
  <2>4. TransitInv'
    OBVIOUS
  <2> QED
    BY <2>1, <2>2, <2>3, <2>4
<1> QED
  BY <1>1, <1>2, <1>3, <1>4, <1>5, <1>6 DEF RecoverRunsOn, RecoverStep

(* Every step of the launcher's cycle but those that truncate.                *)
LEMMA LauncherKeepsCore ==
  ASSUME CoreInv, LauncherStep \/ CrashLauncher, ~TruncateInbox, ~ResetCursor
  PROVE  CoreInv'
<1> USE FaultAssumption, EntryFields
    DEF CoreInv, TypeOK, DirTypeOK, HookTypeOK, HookPcs, Decisions, RecoverTypeOK, RecoverPcs,
        BytesIn, OrphanInv, IsLine, Live, Stale, ControlInv, TransitInv, InTransit,
        dirVars, artifacts, hookVars, recoverVars, launcherVars, producerVars,
        Strike, NoFault, AllFaultKinds
<1>1. CASE StartRecover
  BY <1>1 DEF StartRecover
<1>2. CASE RecoverExits
  BY <1>2 DEF RecoverExits, AfterRecover
<1>3. CASE StartSession
  BY <1>3 DEF StartSession
<1>4. CASE CrashLauncher
  BY <1>4 DEF CrashLauncher
<1> QED
  BY <1>1, <1>2, <1>3, <1>4 DEF LauncherStep

(* Every step of the session.                                                 *)
LEMMA SessionKeepsCore ==
  ASSUME CoreInv, SessionStep \/ KillHook \/ InjectKeepalive \/ CrashSession
  PROVE  CoreInv'
<1> USE FaultAssumption, EntryFields
    DEF CoreInv, TypeOK, DirTypeOK, HookTypeOK, HookPcs, Decisions, RecoverTypeOK, RecoverPcs,
        BytesIn, OrphanInv, IsLine, Live, Stale, ControlInv, TransitInv, InTransit,
        dirVars, artifacts, hookVars, recoverVars, launcherVars, producerVars,
        Strike, NoFault, AllFaultKinds
<1> USE DEF HookOff
<1>1. CASE AgentResponds
  BY <1>1 DEF AgentResponds
<1>2. CASE TakeBlock
  BY <1>2, AppendProperties DEF TakeBlock
<1>3. CASE TakeIdleTick
  BY <1>3 DEF TakeIdleTick
<1>4. CASE TakeApprove
  BY <1>4 DEF TakeApprove
<1>5. CASE EndSession
  BY <1>5 DEF EndSession
<1>6. CASE KillHook
  BY <1>6 DEF KillHook, HookRuns
<1>7. CASE InjectKeepalive
  BY <1>7 DEF InjectKeepalive
<1>8. CASE CrashSession
  BY <1>8 DEF CrashSession
<1> QED
  BY <1>1, <1>2, <1>3, <1>4, <1>5, <1>6, <1>7, <1>8 DEF SessionStep, TakeDecision

(* Every append of a producer.                                                *)
LEMMA ProducerKeepsCore ==
  ASSUME CoreInv, AppendLine \/ FinishAppend
  PROVE  CoreInv'
<1> USE FaultAssumption, EntryFields
    DEF CoreInv, TypeOK, DirTypeOK, HookTypeOK, HookPcs, Decisions, RecoverTypeOK, RecoverPcs,
        BytesIn, OrphanInv, IsLine, Live, Stale, ControlInv, TransitInv, InTransit,
        dirVars, artifacts, hookVars, recoverVars, launcherVars, producerVars,
        Strike, NoFault, AllFaultKinds
<1>1. PICK more \in Seq(Byte) : inbox' = inbox \o more /\ pending' \in Seq(Byte) /\ appended' \in 0..MaxLines
  <2>1. CASE AppendLine
    <3>1. PICK line \in Lines :
            \E n \in 1..Len(line) : /\ inbox' = inbox \o SubSeq(line, 1, n)
                                    /\ pending' = SubSeq(line, n + 1, Len(line))
      BY <2>1 DEF AppendLine
    <3>n. PICK n \in 1..Len(line) : /\ inbox' = inbox \o SubSeq(line, 1, n)
                                    /\ pending' = SubSeq(line, n + 1, Len(line))
      BY <3>1
    <3>2. line \in Seq(Byte) /\ Len(line) \in Nat /\ \A i \in 1..Len(line) : line[i] \in Byte
      BY LauncherAssumption, LenProperties, ElementOfSeq
    <3>3. SubSeq(line, 1, n) \in Seq(Byte) /\ SubSeq(line, n + 1, Len(line)) \in Seq(Byte)
      BY <3>2, SubSeqProperties
    <3>4. appended' \in 0..MaxLines
      BY <2>1, LauncherAssumption DEF AppendLine
    <3> QED BY <3>n, <3>3, <3>4
  <2>2. CASE FinishAppend
    BY <2>2, EmptySeq DEF FinishAppend
  <2> QED BY <2>1, <2>2
<1>2. UNCHANGED <<artifacts, settled, faults, hookVars, recoverVars, launcherVars, truncates,
                  delivered>>
  BY DEF AppendLine, FinishAppend
<1>3. /\ inbox' \in Seq(Byte) /\ Len(inbox) <= Len(inbox')
      /\ Len(inbox) \in Nat /\ Len(inbox') \in Nat
      /\ \A i \in 1..Len(inbox) : inbox'[i] = inbox[i]
      /\ DOMAIN inbox = 1..Len(inbox) /\ DOMAIN inbox' = 1..Len(inbox')
  BY <1>1, AppendKeepsBytes, LenProperties
<1>4. ASSUME NEW e \in Entry, IsLine(e)
      PROVE  IsLine(e)'
  BY <1>3, <1>4, LinePersists
<1>5. TypeOK'
  BY <1>1, <1>2, <1>3
<1>6. OrphanInv'
  BY <1>2, <1>4
<1>7. ControlInv'
  BY <1>2
<1>8. TransitInv'
  <2>1. Len(inbox) <= Len(inbox') /\ (inFlight # NoEntry => inFlight \in Entry)
        /\ (hEntry # NoEntry => hEntry \in Entry) /\ (turn # NoEntry => turn \in Entry)
        /\ (rEntry # NoEntry => rEntry \in Entry) /\ hSize \in Nat
    BY <1>3
  <2>2. hpc = "scan" => hSize <= Len(inbox')
    BY <1>3
  <2>3. \A e \in Entry : Live(e) => Live(e)'
    BY <1>2, <1>4
  <2>4. \A e \in Entry : InTransit(e) => InTransit(e)'
    BY <1>2, <2>3
  <2>5. TransitInv /\ UNCHANGED <<inFlight, responded, turn, hpc, hSize, hEntry, decision, rpc, rEntry>>
    BY <1>2
  <2>6. /\ turn # NoEntry => InTransit(turn)'
        /\ hpc = "writeInFlight" => hEntry # NoEntry /\ Live(hEntry)'
        /\ hpc = "touch" => InTransit(hEntry)'
        /\ hpc \in {"emit", "done"} /\ decision = "block" => InTransit(hEntry)'
        /\ rpc \in {"deadLetter", "moveCursor"} => Live(rEntry)'
    <3>1. \A e : InTransit(e) => e # NoEntry
      BY DEF InTransit
    <3> HIDE DEF CoreInv, Live, InTransit, TypeOK
    <3> QED BY <2>1, <2>3, <2>4, <2>5, <3>1
  <2> HIDE DEF CoreInv, Live, InTransit, TypeOK
  <2> QED BY <2>2, <2>5, <2>6
<1> QED BY <1>5, <1>6, <1>7, <1>8

(* A step that changes nothing.                                               *)
LEMMA StutterKeepsCore == CoreInv /\ UNCHANGED vars => CoreInv'
BY DEF vars, CoreInv, TypeOK, DirTypeOK, HookTypeOK, RecoverTypeOK, OrphanInv, IsLine, Live,
       Stale, ControlInv, TransitInv, InTransit, dirVars, artifacts, hookVars, recoverVars,
       launcherVars, producerVars

-----------------------------------------------------------------------------
(* What was settled: IInv, under the contract.                                *)

(* The empty directory, with nobody running.                                  *)
LEMMA InitIInv == Init => IInv
<1> SUFFICES ASSUME Init PROVE IInv
  OBVIOUS
<1> USE DEF Init, DirInit, HookInit, RecoverInit
<1>1. inbox \in Seq(Byte) /\ deadLetter \in Seq(Entry) /\ pending \in Seq(Byte) /\ delivered \in Seq(Entry)
  BY EmptySeq
<1>2. TypeOK
  <2>a. responded \in BOOLEAN OBVIOUS
  <2>b. faults \in 0..MaxFaults BY FaultAssumption
  <2>1. DirTypeOK BY <1>1, <2>a, <2>b DEF DirTypeOK
  <2>2. HookTypeOK /\ RecoverTypeOK
    BY DEF HookTypeOK, HookPcs, Decisions, RecoverTypeOK, RecoverPcs
  <2> QED BY <1>1, <2>1, <2>2, LauncherAssumption DEF TypeOK
<1>3. CursorInv
  BY EmptySeq DEF CursorInv, NoSilentLoss, BytesIn
<1>4. OrphanInv /\ CleanInv BY DEF OrphanInv, CleanInv
<1>t. TransitInv BY DEF TransitInv
<1>5. SessionInv BY DEF SessionInv
<1>6. HookInv BY DEF HookInv
<1>7. RecoverInv BY DEF RecoverInv
<1>8. ControlInv BY DEF ControlInv
<1> QED
  BY <1>2, <1>3, <1>4, <1>t, <1>5, <1>6, <1>7, <1>8 DEF IInv, CoreInv

(* Every step of the stop hook.                                               *)
LEMMA HookPreserves ==
  ASSUME IInv, Contract, HookRunsOn
  PROVE  IInv'
<1>c. CoreInv'
  BY HookKeepsCore DEF IInv
<1> USE FaultAssumption, EntryFields
    DEF IInv, CoreInv, TypeOK, DirTypeOK, HookTypeOK, HookPcs, Decisions, RecoverTypeOK, RecoverPcs,
        CursorInv, Beyond, NoSilentLoss, BytesIn, ByteSettled, OrphanInv, IsLine, Live, Stale,
        ControlInv, TransitInv, CleanInv, SessionInv, MayAck, InTransit, HookInv, RecoverInv, Contract,
        dirVars, artifacts, hookVars, recoverVars, launcherVars, producerVars,
        Strike, NoFault, AllFaultKinds
<1>0. UNCHANGED <<recoverVars, launcherVars, producerVars, delivered>>
  BY DEF HookRunsOn
<1> USE <1>0 DEF At, Goto, FailOpen
<1>1. CASE CheckResponded
  BY <1>c, <1>1 DEF CheckResponded
<1>2. CASE ReadInFlight
  BY <1>c, <1>2 DEF ReadInFlight
<1>3. CASE AckAdvance
  <2> USE <1>3 DEF AckAdvance, AckCursor
  <2>1. CursorInv'
    OBVIOUS
  <2>2. CleanInv'
    OBVIOUS
  <2>3. SessionInv'
    OBVIOUS
  <2>4. HookInv'
    OBVIOUS
  <2>5. RecoverInv'
    OBVIOUS
  <2> QED
    BY <1>c, <2>1, <2>2, <2>3, <2>4, <2>5
<1>4. CASE AckUnlink
  BY <1>c, <1>4 DEF AckUnlink, RemoveInFlight
<1>5. CASE ClearResponded
  BY <1>c, <1>5 DEF ClearResponded, RemoveResponded
<1>6. CASE Snapshot
  BY <1>c, <1>6, LenProperties DEF Snapshot
<1>7. CASE ScanDrained
  BY <1>c, <1>7, ModeAssumption DEF ScanDrained, ApproveOrIdle, Modes
<1>8. CASE ScanBlank
  <2> USE <1>8 DEF ScanBlank
  <2>1. PICK e \in LineEnds(inbox, hSize, offset) : AllBlank(inbox, offset, e) /\ offset' = e
    OBVIOUS
  <2>2. e \in Nat /\ offset < e /\ e <= hSize
    BY <2>1 DEF LineEnds
  <2>3. CursorInv'
    BY <2>1, <2>2 DEF AllBlank
  <2>4. CleanInv' /\ SessionInv' /\ RecoverInv'
    BY <2>1, <2>2
  <2>5. HookInv'
    BY <2>1, <2>2
  <2> QED BY <1>c, <2>3, <2>4, <2>5
<1>9. CASE ScanEntry
  <2>1. hpc = "scan" /\ hpc' = "writeInFlight" /\ UNCHANGED <<dirVars, hSize, decision>>
    BY <1>9 DEF ScanEntry
  <2>2. CursorInv' /\ CleanInv' /\ SessionInv' /\ RecoverInv'
    BY <2>1
  <2>3. HookInv'
    BY <2>1
  <2> QED
    BY <1>c, <2>2, <2>3
<1>10. CASE ScanFails
  BY <1>c, <1>10 DEF ScanFails
<1>11. CASE WriteInFlight
  BY <1>c, <1>11 DEF WriteInFlight
<1>12. CASE TouchResponded
  BY <1>c, <1>12 DEF TouchResponded
<1>13. CASE Emit
  BY <1>c, <1>13 DEF Emit
<1> QED
  BY <1>1, <1>2, <1>3, <1>4, <1>5, <1>6, <1>7, <1>8, <1>9, <1>10, <1>11, <1>12, <1>13 DEF HookRunsOn, HookStep

(* Every step of recover.                                                     *)
LEMMA RecoverPreserves ==
  ASSUME IInv, Contract, RecoverRunsOn
  PROVE  IInv'
<1>c. CoreInv'
  BY RecoverKeepsCore DEF IInv
<1> USE FaultAssumption, EntryFields
    DEF IInv, CoreInv, TypeOK, DirTypeOK, HookTypeOK, HookPcs, Decisions, RecoverTypeOK, RecoverPcs,
        CursorInv, Beyond, NoSilentLoss, BytesIn, ByteSettled, OrphanInv, IsLine, Live, Stale,
        ControlInv, TransitInv, CleanInv, SessionInv, MayAck, InTransit, HookInv, RecoverInv, Contract,
        dirVars, artifacts, hookVars, recoverVars, launcherVars, producerVars,
        Strike, NoFault, AllFaultKinds
<1>0. UNCHANGED <<hookVars, launcherVars, producerVars, delivered>>
  BY DEF RecoverRunsOn
<1> USE <1>0 DEF RecoverFails
<1>1. CASE ReadOrphan
  BY <1>c, <1>1 DEF ReadOrphan, AfterRead
<1>2. CASE Classify
  BY <1>c, <1>2 DEF Classify
<1>3. CASE DeadLetterAppend
  BY <1>c, <1>3 DEF DeadLetterAppend
<1>4. CASE MoveCursor
  <2> USE <1>4, PolicyAssumption DEF MoveCursor, RecoveredCursor, OrphanPolicy
  <2>1. CursorInv'
    <3>1. rpc = "moveCursor" /\ rEntry \in Entry /\ IsLine(rEntry) /\ offset = rEntry.start_offset
      OBVIOUS
    <3>2. offset' \in {rEntry.start_offset, rEntry.end_offset} /\ inbox' = inbox
      OBVIOUS
    <3>3. (offset <= Len(inbox))'
      BY <3>1, <3>2, LenProperties
    <3>4. CASE offset' = offset
      BY <3>3, <3>4
    <3>5. CASE offset' # offset
      <4>1. \A i \in BytesIn(rEntry.start_offset, rEntry.end_offset) : ByteSettled(i)'
        BY <3>1, <3>5
      <4>2. \A i : ByteSettled(i) => ByteSettled(i)'
        OBVIOUS
      <4>3. rEntry.start_offset \in Nat /\ rEntry.end_offset \in Nat /\ phase' # "session"
        BY <3>1
      <4>4. ASSUME NEW i \in BytesIn(0, offset') \cap DOMAIN inbox
            PROVE  inbox[i] \in Blank \/ ByteSettled(i)'
        <5>1. i \in BytesIn(0, offset) \/ i \in BytesIn(rEntry.start_offset, rEntry.end_offset)
          BY <3>1, <3>2, <4>3
        <5> HIDE DEF ByteSettled
        <5> QED
          BY <4>1, <4>2, <5>1
      <4>5. NoSilentLoss'
        BY <3>2, <4>3, <4>4
      <4> QED
        BY <3>3, <4>5
    <3> QED
      BY <3>4, <3>5
  <2>2. CleanInv'
    OBVIOUS
  <2>3. SessionInv'
    OBVIOUS
  <2>4. HookInv'
    OBVIOUS
  <2>5. RecoverInv'
    OBVIOUS
  <2> QED
    BY <1>c, <2>1, <2>2, <2>3, <2>4, <2>5
<1>5. CASE UnlinkOrphan
  BY <1>c, <1>5 DEF UnlinkOrphan, RemoveInFlight
<1>6. CASE UnlinkFlag
  BY <1>c, <1>6 DEF UnlinkFlag, RemoveResponded
<1> QED
  BY <1>1, <1>2, <1>3, <1>4, <1>5, <1>6 DEF RecoverRunsOn, RecoverStep

(* Every step of the launcher's cycle.                                        *)
LEMMA LauncherPreserves ==
  ASSUME IInv, Contract, LauncherStep \/ CrashLauncher
  PROVE  IInv'
<1>c. CASE ~TruncateInbox /\ ~ResetCursor
  <2>c. CoreInv'
    BY <1>c, LauncherKeepsCore DEF IInv
  <2> USE FaultAssumption, EntryFields
      DEF IInv, CoreInv, TypeOK, DirTypeOK, HookTypeOK, HookPcs, Decisions, RecoverTypeOK, RecoverPcs,
          CursorInv, Beyond, NoSilentLoss, BytesIn, ByteSettled, OrphanInv, IsLine, Live, Stale,
          ControlInv, TransitInv, CleanInv, SessionInv, MayAck, InTransit, HookInv, RecoverInv, Contract,
          dirVars, artifacts, hookVars, recoverVars, launcherVars, producerVars,
          Strike, NoFault, AllFaultKinds
  <2>1. CASE StartRecover
    BY <2>c, <2>1 DEF StartRecover
  <2>2. CASE RecoverExits
    BY <2>c, <2>2 DEF RecoverExits, AfterRecover
  <2>3. CASE StartSession
    BY <2>c, <2>3 DEF StartSession
  <2>4. CASE CrashLauncher
    BY <2>c, <2>4 DEF CrashLauncher
  <2> QED
    BY <1>c, <2>1, <2>2, <2>3, <2>4 DEF LauncherStep
<1> USE FaultAssumption, EntryFields
    DEF IInv, CoreInv, TypeOK, DirTypeOK, HookTypeOK, HookPcs, Decisions, RecoverTypeOK, RecoverPcs,
        CursorInv, Beyond, NoSilentLoss, BytesIn, ByteSettled, OrphanInv, IsLine, Live, Stale,
        ControlInv, TransitInv, CleanInv, SessionInv, MayAck, InTransit, HookInv, RecoverInv, Contract,
        dirVars, artifacts, hookVars, recoverVars, launcherVars, producerVars,
        Strike, NoFault, AllFaultKinds
<1>1. CASE TruncateInbox
  <2> USE <1>1, EmptySeq DEF TruncateInbox
  <2>1. TypeOK'
    OBVIOUS
  <2>2. CursorInv'
    OBVIOUS
  <2>3. OrphanInv' /\ CleanInv' /\ ControlInv'
    OBVIOUS
  <2>4. TransitInv' /\ SessionInv' /\ HookInv' /\ RecoverInv'
    OBVIOUS
  <2> QED
    BY <2>1, <2>2, <2>3, <2>4
<1>2. CASE ResetCursor
  <2> USE <1>2, LenProperties DEF ResetCursor
  <2>1. TypeOK'
    OBVIOUS
  <2>2. CursorInv'
    OBVIOUS
  <2>3. OrphanInv' /\ CleanInv' /\ ControlInv'
    OBVIOUS
  <2>4. TransitInv' /\ SessionInv' /\ HookInv' /\ RecoverInv'
    OBVIOUS
  <2> QED
    BY <2>1, <2>2, <2>3, <2>4
<1> QED
  BY <1>c, <1>1, <1>2

(* Every step of the session.                                                 *)
LEMMA SessionPreserves ==
  ASSUME IInv, Contract, SessionStep \/ KillHook \/ InjectKeepalive \/ CrashSession
  PROVE  IInv'
<1>c. CoreInv'
  BY SessionKeepsCore DEF IInv
<1> USE FaultAssumption, EntryFields
    DEF IInv, CoreInv, TypeOK, DirTypeOK, HookTypeOK, HookPcs, Decisions, RecoverTypeOK, RecoverPcs,
        CursorInv, Beyond, NoSilentLoss, BytesIn, ByteSettled, OrphanInv, IsLine, Live, Stale,
        ControlInv, TransitInv, CleanInv, SessionInv, MayAck, InTransit, HookInv, RecoverInv, Contract,
        dirVars, artifacts, hookVars, recoverVars, launcherVars, producerVars,
        Strike, NoFault, AllFaultKinds
<1> USE DEF HookOff
<1>1. CASE AgentResponds
  BY <1>c, <1>1 DEF AgentResponds
<1>2. CASE TakeBlock
  BY <1>c, <1>2, AppendProperties DEF TakeBlock
<1>3. CASE TakeIdleTick
  BY <1>c, <1>3 DEF TakeIdleTick
<1>4. CASE TakeApprove
  BY <1>c, <1>4 DEF TakeApprove
<1>5. CASE EndSession
  BY <1>c, <1>5 DEF EndSession
<1>6. CASE KillHook
  BY <1>c, <1>6 DEF KillHook, HookRuns
<1>7. CASE InjectKeepalive
  BY <1>c, <1>7 DEF InjectKeepalive
<1>8. CASE CrashSession
  BY <1>c, <1>8 DEF CrashSession
<1> QED
  BY <1>1, <1>2, <1>3, <1>4, <1>5, <1>6, <1>7, <1>8 DEF SessionStep, TakeDecision

(* Every append of a producer.                                                *)
LEMMA ProducerPreserves ==
  ASSUME IInv, Contract, AppendLine \/ FinishAppend
  PROVE  IInv'
<1>c. CoreInv'
  BY ProducerKeepsCore DEF IInv
<1>1. /\ Len(inbox) \in Nat /\ Len(inbox') \in Nat /\ Len(inbox) <= Len(inbox')
      /\ \A i \in 1..Len(inbox) : inbox'[i] = inbox[i]
      /\ DOMAIN inbox = 1..Len(inbox) /\ DOMAIN inbox' = 1..Len(inbox')
  BY InboxGrows, LenProperties DEF IInv, CoreInv, TypeOK, DirTypeOK
<1>2. UNCHANGED <<artifacts, settled, faults, hookVars, recoverVars, launcherVars, truncates,
                  delivered>>
  BY DEF AppendLine, FinishAppend
<1> USE <1>2
    DEF IInv, artifacts, hookVars, recoverVars, launcherVars
<1>3. CursorInv'
  <2>1. ~Beyond
    BY DEF AppendLine, FinishAppend, Beyond
  <2>2. offset \in Nat /\ offset <= Len(inbox)
    BY <2>1 DEF CursorInv, CoreInv, TypeOK, DirTypeOK
  <2>3. ASSUME NEW i \in BytesIn(0, offset)
        PROVE  i \in 1..Len(inbox) /\ inbox'[i] = inbox[i] /\ (inbox[i] \in Blank \/ ByteSettled(i))
    BY <1>1, <2>2, <2>3 DEF CursorInv, NoSilentLoss, BytesIn
  <2>4. \A i : ByteSettled(i)' <=> ByteSettled(i)
    BY DEF ByteSettled
  <2>5. offset' <= Len(inbox')
    BY <1>1, <2>2
  <2>6. ASSUME NEW i \in BytesIn(0, offset)
        PROVE  inbox'[i] \in Blank \/ ByteSettled(i)'
    BY <2>3, <2>4
  <2>7. \A i \in BytesIn(0, offset') : inbox'[i] \in Blank \/ ByteSettled(i)'
    BY <2>6
  <2> QED
    BY <2>5, <2>7 DEF CursorInv, NoSilentLoss
<1>4. CleanInv' /\ SessionInv' /\ HookInv' /\ RecoverInv'
  BY DEF CleanInv, SessionInv, HookInv, RecoverInv, MayAck, Stale
<1> QED
  BY <1>c, <1>3, <1>4

(* A step that changes nothing.                                               *)
LEMMA StutterPreserves == IInv /\ UNCHANGED vars => IInv'
BY DEF vars, IInv, CoreInv, TypeOK, DirTypeOK, HookTypeOK, HookPcs, Decisions, RecoverTypeOK, RecoverPcs,
        CursorInv, Beyond, NoSilentLoss, BytesIn, ByteSettled, OrphanInv, IsLine, Live, Stale,
        ControlInv, TransitInv, CleanInv, SessionInv, MayAck, InTransit, HookInv, RecoverInv,
        dirVars, artifacts, hookVars, recoverVars, launcherVars, producerVars

(* Under the contract IInv holds in every reachable state.                    *)
THEOREM Inductive ==
  ASSUME Contract
  PROVE  Spec => []IInv
<1>1. Init => IInv
  BY InitIInv
<1>2. IInv /\ [Next]_vars => IInv'
  BY HookPreserves, RecoverPreserves, LauncherPreserves, SessionPreserves, ProducerPreserves,
     StutterPreserves, Contract
     DEF Next
<1> QED
  BY <1>1, <1>2, PTL DEF Spec

(* The artifacts and the processes agree on what is in flight, whatever       *)
(* faults strike, if no launcher truncates the inbox or all keep the contract.*)
THEOREM CoreKept ==
  ASSUME Orderly
  PROVE  Spec => []CoreInv
<1>1. CASE Contract
  <2>1. IInv => CoreInv
    BY DEF IInv
  <2>2. Spec => []IInv
    BY <1>1, Inductive
  <2> QED
    BY <2>1, <2>2, PTL
<1>2. CASE Launchers = {FALSE}
  <2>1. Init => CoreInv
    BY InitIInv DEF IInv
  <2>2. CoreInv => ~TruncateInbox /\ ~ResetCursor
    BY <1>2 DEF CoreInv, TypeOK, ControlInv, TruncateInbox, ResetCursor
  <2>3. CoreInv /\ [Next]_vars => CoreInv'
    BY <2>2, HookKeepsCore, RecoverKeepsCore, LauncherKeepsCore, SessionKeepsCore,
       ProducerKeepsCore, StutterKeepsCore
       DEF Next, LauncherStep
  <2> QED
    BY <2>1, <2>3, PTL DEF Spec
<1> QED
  BY <1>1, <1>2 DEF Orderly

-----------------------------------------------------------------------------
(* What follows from them.                                                    *)

(* Every variable keeps its type.                                             *)
THEOREM TypeCorrect ==
  ASSUME Orderly
  PROVE  Spec => []TypeOK
<1>1. CoreInv => TypeOK
  BY DEF CoreInv
<1>2. Spec => []CoreInv
  BY CoreKept, Orderly
<1> QED
  BY <1>1, <1>2, PTL

(* Before the cursor lie only whitespace and settled entries: none is lost.   *)
THEOREM NothingIsLost ==
  ASSUME Contract
  PROVE  Spec => []NoSilentLoss
<1>1. IInv => NoSilentLoss
  BY DEF IInv, CursorInv
<1>2. Spec => []IInv
  BY Inductive, Contract
<1> QED
  BY <1>1, <1>2, PTL

(* What .in-flight records is live or stale whenever anything stops.          *)
THEOREM OrphansAreClassified ==
  ASSUME Orderly
  PROVE  Spec => []OrphanClassified
<1>1. CoreInv => OrphanClassified
  BY DEF CoreInv, OrphanInv, Live, Stale, OrphanClassified
<1>2. Spec => []CoreInv
  BY CoreKept, Orderly
<1> QED
  BY <1>1, <1>2, PTL

(* After a recover that exits 0 neither .in-flight nor .responded is left.    *)
THEOREM RecoverCleans ==
  ASSUME Contract
  PROVE  Spec => []RecoverLeavesClean
<1>1. IInv => RecoverLeavesClean
  BY DEF IInv, CleanInv, RecoverLeavesClean
<1>2. Spec => []IInv
  BY Inductive, Contract
<1> QED
  BY <1>1, <1>2, PTL

(* The hook never meets the state it refuses as InconsistentState.            *)
THEOREM NeverInconsistent ==
  ASSUME Contract
  PROVE  Spec => []FlagHasOrphan
<1>1. IInv => FlagHasOrphan
  BY DEF IInv, CoreInv, TransitInv, HookInv, MayAck, FlagHasOrphan, At
<1>2. Spec => []IInv
  BY Inductive, Contract
<1> QED
  BY <1>1, <1>2, PTL

(* An entry the agent works on is on record as a live orphan.                 *)
THEOREM TurnsAreRecorded ==
  ASSUME Orderly
  PROVE  Spec => []TurnIsRecorded
<1>1. CoreInv => TurnIsRecorded
  BY DEF CoreInv, TransitInv, InTransit, Live, TurnIsRecorded
<1>2. Spec => []CoreInv
  BY CoreKept, Orderly
<1> QED
  BY <1>1, <1>2, PTL

(* A hook acknowledges an entry only after it was answered, or again when its *)
(* end is already behind the cursor: under the contract .responded is a reply.*)
THEOREM AcksAreAnswers ==
  ASSUME Contract
  PROVE  Spec => []AckOnlyAnswered
<1>1. IInv => AckOnlyAnswered
  BY DEF IInv, HookInv, AckOnlyAnswered, At
<1>2. Spec => []IInv
  BY Inductive, Contract
<1> QED
  BY <1>1, <1>2, PTL

-----------------------------------------------------------------------------
(* The cursor.                                                                *)

(* No step but the launcher's reset moves the cursor back: acknowledge skips  *)
(* a write that would, a blank line lies past the cursor, and recover finds   *)
(* the cursor at the start of a live orphan.                                  *)
LEMMA CursorStep ==
  ASSUME CoreInv, Next, ~ResetCursor
  PROVE  offset' >= offset
<1>1. offset \in Nat
  BY DEF CoreInv, TypeOK, DirTypeOK
<1>2. CASE AckAdvance
  <2>1. hEntry.end_offset \in Nat
    BY <1>2, EntryFields DEF AckAdvance, At, CoreInv, TransitInv, TypeOK, HookTypeOK
  <2> QED
    BY <1>1, <1>2, <2>1 DEF AckAdvance, AckCursor
<1>3. CASE ScanBlank
  BY <1>1, <1>3 DEF ScanBlank, LineEnds, BytesIn
<1>4. CASE MoveCursor
  <2>1. /\ rEntry.start_offset \in Nat /\ rEntry.end_offset \in Nat
        /\ offset = rEntry.start_offset /\ rEntry.start_offset < rEntry.end_offset
    BY <1>4, EntryFields
       DEF MoveCursor, CoreInv, TransitInv, Live, IsLine, TypeOK, RecoverTypeOK
  <2> QED
    BY <1>1, <1>4, <2>1 DEF MoveCursor, RecoveredCursor, RecoverFails
<1>5. CASE ~(AckAdvance \/ ScanBlank \/ MoveCursor)
  <2>1. CASE HookRunsOn
    BY <1>1, <1>5, <2>1
       DEF HookRunsOn, HookStep, CheckResponded, ReadInFlight, AckUnlink, ClearResponded,
           Snapshot, ScanDrained, ScanEntry, ScanFails, WriteInFlight, TouchResponded, Emit,
           dirVars, artifacts
  <2>2. CASE RecoverRunsOn
    BY <1>1, <1>5, <2>2
       DEF RecoverRunsOn, RecoverStep, ReadOrphan, Classify, DeadLetterAppend, UnlinkOrphan,
           UnlinkFlag, artifacts
  <2>3. CASE ~HookRunsOn /\ ~RecoverRunsOn
    BY <1>1, <2>3
       DEF Next, AppendLine, FinishAppend, TruncateInbox, ResetCursor, vars, LauncherStep, StartRecover, RecoverExits,
           StartSession, CrashLauncher, SessionStep, AgentResponds, TakeDecision, TakeBlock,
           TakeIdleTick, TakeApprove, EndSession, KillHook, InjectKeepalive, CrashSession,
           dirVars, artifacts
  <2> QED
    BY <2>1, <2>2, <2>3
<1> QED
  BY <1>2, <1>3, <1>4, <1>5

(* Nothing that was acknowledged becomes unacknowledged again.                *)
THEOREM CursorIsMonotone ==
  ASSUME Orderly
  PROVE  Spec => CursorNeverRetreats
<1>1. CoreInv /\ [Next]_vars => [ResetCursor \/ offset' >= offset]_vars
  BY CursorStep
<1>2. Spec => []CoreInv
  BY CoreKept, Orderly
<1> QED
  BY <1>1, <1>2, PTL DEF Spec, CursorNeverRetreats

-----------------------------------------------------------------------------
(* The dead letters.                                                          *)

(* Only recover's append changes the dead letters.                            *)
LEMMA DeadLetterFrame ==
  ASSUME [Next]_vars
  PROVE  DeadLetterAppend \/ UNCHANGED deadLetter
<1>1. CASE HookRunsOn
  BY <1>1 DEF HookRunsOn, HookStep, CheckResponded, ReadInFlight, AckAdvance, AckUnlink,
              ClearResponded, Snapshot, ScanDrained, ScanBlank, ScanEntry, ScanFails,
              WriteInFlight, TouchResponded, Emit, dirVars, artifacts
<1>2. CASE RecoverRunsOn
  BY <1>2 DEF RecoverRunsOn, RecoverStep, ReadOrphan, Classify, MoveCursor, UnlinkOrphan,
              UnlinkFlag, artifacts
<1>3. CASE ~HookRunsOn /\ ~RecoverRunsOn
  BY <1>3 DEF Next, AppendLine, FinishAppend, TruncateInbox, ResetCursor, vars, LauncherStep,
              StartRecover, RecoverExits, StartSession, CrashLauncher, SessionStep,
              AgentResponds, TakeDecision, TakeBlock, TakeIdleTick, TakeApprove, EndSession,
              KillHook, InjectKeepalive, CrashSession, dirVars, artifacts
<1> QED
  BY <1>1, <1>2, <1>3

(* What recover dead-letters is a live orphan: the cursor is at its start, it *)
(* was not acknowledged.                                                      *)
THEOREM OnlyUnacknowledgedDeadLettered ==
  ASSUME Orderly
  PROVE  Spec => DeadLetterOnlyUnacknowledged
<1>1. ASSUME CoreInv, DeadLetterAppend, deadLetter' # deadLetter
      PROVE  offset <= deadLetter'[Len(deadLetter')].start_offset
  <2>1. /\ rEntry \in Entry /\ deadLetter \in Seq(Entry)
        /\ offset \in Nat /\ offset = rEntry.start_offset
    BY <1>1, EntryFields
       DEF DeadLetterAppend, CoreInv, TypeOK, DirTypeOK, RecoverTypeOK, TransitInv, Live
  <2>2. deadLetter' = Append(deadLetter, rEntry)
    BY <1>1 DEF DeadLetterAppend
  <2>3. deadLetter'[Len(deadLetter')] = rEntry
    BY <2>1, <2>2, AppendProperties
  <2> QED
    BY <2>1, <2>3
<1>2. CoreInv /\ [Next]_vars =>
        [deadLetter' # deadLetter =>
           offset <= deadLetter'[Len(deadLetter')].start_offset]_vars
  BY <1>1, DeadLetterFrame
<1>3. Spec => []CoreInv
  BY CoreKept, Orderly
<1> QED
  BY <1>2, <1>3, PTL DEF Spec, DeadLetterOnlyUnacknowledged

-----------------------------------------------------------------------------
(* The refinement.                                                            *)

(* A producer's step grows the abstract queue.                                *)
LEMMA ProducerGrows ==
  ASSUME IInv, AppendLine \/ FinishAppend
  PROVE  Queue!Grow
<1>1. inbox \in Seq(Byte) /\ pending \in Seq(Byte)
  BY DEF IInv, CoreInv, TypeOK, DirTypeOK
<1>2. PICK more \in Seq(Byte) : more # <<>> /\ inbox' = inbox \o more
  <2>1. CASE AppendLine
    <3>1. PICK line \in Lines :
            \E n \in 1..Len(line) : inbox' = inbox \o SubSeq(line, 1, n)
      BY <2>1 DEF AppendLine
    <3>2. PICK n \in 1..Len(line) : inbox' = inbox \o SubSeq(line, 1, n)
      BY <3>1
    <3>3. line \in Seq(Byte) /\ Len(line) \in Nat /\ \A i \in 1..Len(line) : line[i] \in Byte
      BY LauncherAssumption, LenProperties, ElementOfSeq
    <3>4. SubSeq(line, 1, n) \in Seq(Byte) /\ Len(SubSeq(line, 1, n)) = n
      BY <3>3, SubSeqProperties
    <3>5. SubSeq(line, 1, n) # <<>>
      BY <3>4, EmptySeq
    <3> QED
      BY <3>2, <3>4, <3>5
  <2>2. CASE FinishAppend
    BY <1>1, <2>2 DEF FinishAppend
  <2> QED
    BY <2>1, <2>2
<1>3. /\ inbox' \in Seq(Byte) /\ Len(inbox') > Len(inbox)
      /\ SubSeq(inbox', 1, Len(inbox)) = inbox
  BY <1>1, <1>2, AppendKeepsBytes, EmptySeq, SubSeqOfConcat1
<1>4. UNCHANGED <<offset, settled>>
  BY DEF AppendLine, FinishAppend, artifacts
<1> QED
  BY <1>3, <1>4 DEF Queue!Grow

(* Settling the live entry `e' is the abstract Settle, whether the cursor     *)
(* stays or passes the entry.                                                 *)
LEMMA SettlesAtCursor ==
  ASSUME NEW e \in Entry, Live(e), UNCHANGED inbox,
         inbox \in Seq(Byte), settled' = settled \cup {e},
         offset' \in {offset, e.end_offset}
  PROVE  Queue!Settle
<1>1. e.start_offset \in Nat /\ e.end_offset \in Nat /\ Len(inbox) \in Nat
  BY EntryFields, LenProperties
<1>2. e.end_offset \in (offset + 1)..Len(inbox)
  BY <1>1 DEF Live, IsLine
<1>3. {<<s.start_offset, s.end_offset>> : s \in settled'}
        = {<<s.start_offset, s.end_offset>> : s \in settled} \cup {<<offset, e.end_offset>>}
  BY DEF Live
<1> QED
  BY <1>2, <1>3 DEF Queue!Settle

(* A cursor that moves forward over what NoSilentLoss allows is the abstract  *)
(* Advance.                                                                   *)
LEMMA CursorAdvances ==
  ASSUME IInv, IInv', ~truncates', UNCHANGED <<inbox, settled>>, offset' >= offset
  PROVE  Queue!Advance \/ UNCHANGED Queue!deliveryVars
<1>1. offset \in Nat /\ offset' \in Nat /\ offset' <= Len(inbox) /\ Len(inbox) \in Nat
  BY LenProperties DEF IInv, CoreInv, TypeOK, DirTypeOK, CursorInv, Beyond
<1>2. ASSUME NEW i \in (offset + 1)..offset'
      PROVE  Queue!Passable(i)
  <2>1. inbox[i] \in Blank \/ ByteSettled(i)
    BY <1>1 DEF IInv, CursorInv, Beyond, NoSilentLoss, BytesIn, ByteSettled
  <2>2. CASE ByteSettled(i)
    <3>1. PICK s \in settled : i \in (s.start_offset + 1)..s.end_offset
      BY <2>2 DEF ByteSettled, BytesIn
    <3> DEFINE r == <<s.start_offset, s.end_offset>>
    <3>2. r \in {<<t.start_offset, t.end_offset>> : t \in settled}
      OBVIOUS
    <3>3. i \in (r[1] + 1)..r[2]
      BY <3>1
    <3> QED
      BY <3>2, <3>3 DEF Queue!Passable
  <2> QED
    BY <2>1, <2>2 DEF Queue!Passable
<1>3. CASE offset' = offset
  BY <1>3 DEF Queue!deliveryVars
<1>4. CASE offset' # offset
  BY <1>1, <1>2, <1>4 DEF Queue!Advance
<1> QED
  BY <1>3, <1>4

(* Every step of the system is a step of the abstract queue or a stutter.     *)
LEMMA StepRefines ==
  ASSUME IInv, IInv', ~truncates, ~truncates', [Next]_vars
  PROVE  [Queue!DeliveryNext]_Queue!deliveryVars
<1> SUFFICES Queue!DeliveryNext \/ UNCHANGED Queue!deliveryVars
  OBVIOUS
<1> USE DEF Queue!DeliveryNext
<1>1. inbox \in Seq(Byte) /\ offset \in Nat
  BY DEF IInv, CoreInv, TypeOK, DirTypeOK
<1>2. ~TruncateInbox /\ ~ResetCursor
  BY DEF TruncateInbox, ResetCursor, IInv, CoreInv, ControlInv
<1>3. CASE AppendLine \/ FinishAppend
  BY <1>3, ProducerGrows
<1>4. CASE AgentResponds /\ turn # NoEntry
  <2>1. turn \in Entry /\ Live(turn)
    BY <1>4 DEF IInv, CoreInv, TypeOK, TransitInv, InTransit
  <2> QED
    BY <1>1, <1>4, <2>1, SettlesAtCursor DEF AgentResponds, artifacts
<1>5. CASE DeadLetterAppend /\ rpc' # "failed"
  <2>1. rEntry \in Entry /\ Live(rEntry)
    BY <1>5 DEF IInv, CoreInv, TypeOK, RecoverTypeOK, TransitInv, DeadLetterAppend
  <2>2. settled' = settled \cup {rEntry} /\ UNCHANGED <<inbox, offset>>
    BY <1>5 DEF DeadLetterAppend, RecoverFails
  <2> QED
    BY <1>1, <2>1, <2>2, SettlesAtCursor
<1>6. CASE MoveCursor /\ policy = "drop" /\ rpc' # "failed"
  <2>1. rEntry \in Entry /\ Live(rEntry)
    BY <1>6 DEF IInv, CoreInv, TypeOK, RecoverTypeOK, TransitInv, MoveCursor
  <2>2. settled' = settled \cup {rEntry} /\ UNCHANGED inbox /\ offset' = rEntry.end_offset
    BY <1>6 DEF MoveCursor, RecoveredCursor, RecoverFails
  <2> QED
    BY <1>1, <2>1, <2>2, SettlesAtCursor
<1>7. CASE UNCHANGED <<inbox, settled>>
  <2>1. offset' >= offset
    BY <1>1, <1>2, CursorStep DEF IInv, vars, dirVars, artifacts
  <2> QED
    BY <1>7, <2>1, CursorAdvances
<1>8. Next => \/ AppendLine \/ FinishAppend
              \/ AgentResponds /\ turn # NoEntry
              \/ DeadLetterAppend /\ rpc' # "failed"
              \/ MoveCursor /\ policy = "drop" /\ rpc' # "failed"
              \/ UNCHANGED <<inbox, settled>>
  <2>1. HookRunsOn => UNCHANGED <<inbox, settled>>
    BY DEF HookRunsOn, HookStep, CheckResponded, ReadInFlight, AckAdvance, AckUnlink,
           ClearResponded, Snapshot, ScanDrained, ScanBlank, ScanEntry, ScanFails,
           WriteInFlight, TouchResponded, Emit, dirVars
  <2>2. RecoverRunsOn => \/ DeadLetterAppend /\ rpc' # "failed"
                         \/ MoveCursor /\ policy = "drop" /\ rpc' # "failed"
                         \/ UNCHANGED <<inbox, settled>>
    BY DEF RecoverRunsOn, RecoverStep, ReadOrphan, Classify, DeadLetterAppend, MoveCursor,
           UnlinkOrphan, UnlinkFlag, RecoverFails
  <2>3. AgentResponds => turn # NoEntry \/ UNCHANGED <<inbox, settled>>
    BY DEF AgentResponds
  <2> QED
    BY <1>2, <2>1, <2>2, <2>3
       DEF Next, LauncherStep, StartRecover, RecoverExits, StartSession, CrashLauncher,
           SessionStep, TakeDecision, TakeBlock, TakeIdleTick, TakeApprove, EndSession,
           KillHook, InjectKeepalive, CrashSession, dirVars
<1>9. CASE UNCHANGED vars
  BY <1>7, <1>9 DEF vars, dirVars
<1> QED
  BY <1>3, <1>4, <1>5, <1>6, <1>7, <1>8, <1>9

(* The artifacts, the hook and recover implement the queue with a cursor.     *)
THEOREM QueueIsImplemented ==
  ASSUME Contract, Launchers = {FALSE}
  PROVE  Spec => ImplementsDelivery
<1>1. Init => Queue!DeliveryInit
  BY DEF Init, DirInit, Queue!DeliveryInit
<1>2. IInv /\ IInv' /\ [Next]_vars => [Queue!DeliveryNext]_Queue!deliveryVars
  <2>1. IInv => ~truncates
    BY Launchers = {FALSE} DEF IInv, CoreInv, TypeOK
  <2>2. IInv' => ~truncates'
    BY Launchers = {FALSE} DEF IInv, CoreInv, TypeOK
  <2> QED
    BY <2>1, <2>2, StepRefines
<1>3. Spec => []IInv
  BY Inductive
<1> QED
  BY <1>1, <1>2, <1>3, PTL DEF Spec, ImplementsDelivery, Queue!DeliverySpec
=============================================================================
