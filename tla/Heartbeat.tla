------------------------------ MODULE Heartbeat ------------------------------
(* The whole message path: a producer appends to the inbox, a launcher runs   *)
(* cycles of recover-then-session, the Claude Code session alternates agent   *)
(* turns with invocations of the stop hook, and all of them may die.          *)
(* The launcher, the producer and the session are not code of src/: they are  *)
(* modelled from how the code and src/README.md use them.                     *)
EXTENDS StopHook, Recover

CONSTANTS Lines,                \* what a producer appends in one write
          MaxLines,             \* bound: how many lines are ever appended
          TornWrites,           \* may a line reach the file in two pieces?
          Keepalive,            \* may a waiting session be given a turn (heartbeat-launch)?
          IgnoreRecoverFailure, \* does the launcher write `recover ... || true'?
          Launchers             \* may launchers truncate the inbox after recover?

ASSUME LauncherAssumption ==
  /\ Lines \subseteq Seq(Byte) \ {<<>>}
  /\ MaxLines \in Nat
  /\ {TornWrites, Keepalive, IgnoreRecoverFailure} \subseteq BOOLEAN
  /\ Launchers \subseteq BOOLEAN

VARIABLES phase,      \* where the launcher's cycle stands
          session,    \* what the Claude Code session is doing
          turn,       \* the entry the agent works on, NoEntry in any other turn
          pending,    \* the part of the producer's line that is not yet written
          appended,   \* how many lines were begun
          truncates,  \* does this launcher truncate the inbox, and append only then?
          delivered   \* ghost: the entries handed to the agent, in order

launcherVars == <<phase, session, turn>>
producerVars == <<pending, appended, truncates>>
vars == <<dirVars, hookVars, recoverVars, launcherVars, producerVars, delivered>>

TypeOK ==
  /\ DirTypeOK /\ HookTypeOK /\ RecoverTypeOK
  /\ phase \in {"idle", "recovering", "recovered", "truncated", "ready", "session"}
  /\ session \in {"none", "working", "stopping", "waiting"}
  /\ turn \in Entry \cup {NoEntry}
  /\ pending \in Seq(Byte)
  /\ appended \in 0..MaxLines /\ truncates \in Launchers
  /\ delivered \in Seq(Entry)

Init ==
  /\ DirInit /\ HookInit /\ RecoverInit
  /\ phase = "idle" /\ session = "none" /\ turn = NoEntry
  /\ pending = <<>> /\ appended = 0 /\ truncates \in Launchers
  /\ delivered = <<>>

-----------------------------------------------------------------------------
(* The producer.  A launcher that truncates writes its new work after that.   *)

AppendLine ==
  /\ pending = <<>> /\ appended < MaxLines
  /\ truncates => phase = "ready"
  /\ \E line \in Lines : \E n \in 1..Len(line) :
       /\ TornWrites \/ n = Len(line)
       /\ inbox' = inbox \o SubSeq(line, 1, n)
       /\ pending' = SubSeq(line, n + 1, Len(line))
  /\ appended' = appended + 1
  /\ UNCHANGED <<artifacts, settled, faults, hookVars, recoverVars, launcherVars, truncates,
                 delivered>>

FinishAppend ==
  /\ pending # <<>>
  /\ inbox' = inbox \o pending /\ pending' = <<>>
  /\ UNCHANGED <<artifacts, settled, faults, hookVars, recoverVars, launcherVars, appended,
                 truncates, delivered>>

-----------------------------------------------------------------------------
(* The launcher's cycle.                                                      *)

StartRecover ==
  /\ phase = "idle"
  /\ phase' = "recovering"
  /\ rpc' = "readOrphan" /\ policy' \in Policies /\ rEntry' = NoEntry
  /\ UNCHANGED <<dirVars, hookVars, session, turn, producerVars, delivered>>

AfterRecover == IF truncates THEN "recovered" ELSE "ready"

RecoverExits ==
  /\ phase = "recovering" /\ rpc \in {"ok", "failed"}
  /\ phase' = IF rpc = "ok" \/ IgnoreRecoverFailure THEN AfterRecover ELSE "idle"
  /\ rpc' = "off"
  /\ UNCHANGED <<dirVars, hookVars, policy, rEntry, session, turn, producerVars, delivered>>

(* > "$INBOX", with the producer's last write in it.  The inbox is a new one: *)
(* the ghosts restart.                                                        *)
TruncateInbox ==
  /\ phase = "recovered" /\ pending = <<>>
  /\ phase' = "truncated"
  /\ inbox' = <<>> /\ settled' = {} /\ delivered' = <<>>
  /\ UNCHANGED <<artifacts, faults, hookVars, recoverVars, session, turn, producerVars>>

(* echo -n "0" > .inbox-offset: a command of its own, after the other.        *)
ResetCursor ==
  /\ phase = "truncated"
  /\ phase' = "ready" /\ offset' = 0
  /\ UNCHANGED <<inbox, inFlight, responded, deadLetter, settled, faults, hookVars, recoverVars,
                 session, turn, producerVars, delivered>>

StartSession ==
  /\ phase = "ready"
  /\ phase' = "session" /\ session' = "working"
  /\ UNCHANGED <<dirVars, hookVars, recoverVars, turn, producerVars, delivered>>

CrashLauncher ==
  /\ phase \in {"recovering", "recovered", "truncated", "ready"}
  /\ Strike("crash")
  /\ phase' = "idle" /\ rpc' = "off"
  /\ UNCHANGED <<inbox, artifacts, settled, hookVars, policy, rEntry, session, turn,
                 producerVars, delivered>>

-----------------------------------------------------------------------------
(* The Claude Code session.                                                   *)

(* The agent ends its turn and the stop hook is invoked.                      *)
AgentResponds ==
  /\ session = "working"
  /\ session' = "stopping" /\ turn' = NoEntry
  /\ settled' = IF turn = NoEntry THEN settled ELSE settled \cup {turn}
  /\ hpc' = "check" /\ hSize' = 0 /\ hEntry' = NoEntry /\ decision' = "none"
  /\ UNCHANGED <<inbox, artifacts, faults, recoverVars, phase, producerVars, delivered>>

HookOff == hpc' = "off" /\ hSize' = 0 /\ hEntry' = NoEntry /\ decision' = "none"

TakeBlock ==
  /\ hpc = "done" /\ decision = "block"
  /\ session' = "working" /\ turn' = hEntry
  /\ delivered' = Append(delivered, hEntry)
  /\ HookOff
  /\ UNCHANGED <<dirVars, recoverVars, phase, producerVars>>

TakeIdleTick ==
  /\ hpc = "done" /\ decision = "idle"
  /\ session' = "working" /\ HookOff
  /\ UNCHANGED <<dirVars, recoverVars, phase, turn, producerVars, delivered>>

(* The stop is approved: an interactive session stands at its prompt.         *)
TakeApprove ==
  /\ hpc = "done" /\ decision = "approve"
  /\ session' = "waiting" /\ HookOff
  /\ UNCHANGED <<dirVars, recoverVars, phase, turn, producerVars, delivered>>

KillHook ==
  /\ HookRuns /\ Strike("kill")
  /\ session' = "waiting" /\ HookOff
  /\ UNCHANGED <<inbox, artifacts, settled, recoverVars, phase, turn, producerVars, delivered>>

(* heartbeat-launch's idle watchdog types a prompt into the silent session.   *)
InjectKeepalive ==
  /\ Keepalive /\ session = "waiting"
  /\ session' = "working"
  /\ UNCHANGED <<dirVars, hookVars, recoverVars, phase, turn, producerVars, delivered>>

EndSession ==
  /\ session = "waiting"
  /\ session' = "none" /\ phase' = "idle"
  /\ UNCHANGED <<dirVars, hookVars, recoverVars, turn, producerVars, delivered>>

CrashSession ==
  /\ phase = "session" /\ Strike("crash")
  /\ session' = "none" /\ phase' = "idle" /\ turn' = NoEntry /\ HookOff
  /\ UNCHANGED <<inbox, artifacts, settled, recoverVars, producerVars, delivered>>

-----------------------------------------------------------------------------
HookRunsOn == HookStep /\ UNCHANGED <<recoverVars, launcherVars, producerVars, delivered>>

RecoverRunsOn == RecoverStep /\ UNCHANGED <<hookVars, launcherVars, producerVars, delivered>>

TakeDecision == TakeBlock \/ TakeIdleTick \/ TakeApprove

LauncherStep == StartRecover \/ RecoverExits \/ TruncateInbox \/ ResetCursor \/ StartSession

SessionStep == AgentResponds \/ TakeDecision \/ EndSession

Next ==
  \/ AppendLine \/ FinishAppend
  \/ LauncherStep \/ CrashLauncher
  \/ SessionStep \/ KillHook \/ InjectKeepalive \/ CrashSession
  \/ HookRunsOn \/ RecoverRunsOn

Spec == Init /\ [][Next]_vars

(* Processes that are alive take their next step, an agent ends its turn, a   *)
(* session nobody prompts is closed, a producer finishes its write, and the   *)
(* launcher's timer starts the next cycle.  Faults, new lines and keepalives  *)
(* owe nothing.                                                               *)
Fairness ==
  /\ WF_vars(HookRunsOn) /\ WF_vars(RecoverRunsOn)
  /\ WF_vars(LauncherStep) /\ WF_vars(SessionStep)
  /\ WF_vars(FinishAppend)

FairSpec == Spec /\ Fairness

-----------------------------------------------------------------------------
(* Safety.                                                                    *)

(* Every byte before the cursor that is not whitespace belongs to an entry    *)
(* that was answered, dead-lettered or dropped by policy, and no session ever *)
(* meets a cursor beyond the file, which would swallow what is appended next: *)
(* no entry is silently lost (inbox.rs:11-14, src/README.md:270).             *)
NoSilentLoss ==
  /\ \A i \in BytesIn(0, offset) \cap DOMAIN inbox : inbox[i] \in Blank \/ ByteSettled(i)
  /\ phase = "session" => offset <= Len(inbox)

(* Wherever a process stops, what is left in .in-flight can be classified:    *)
(* the cursor is at the entry's start (live) or has passed its end (stale),   *)
(* never inside the entry or before it (in_flight.rs:22-24, recover.rs:130).  *)
OrphanClassified ==
  inFlight # NoEntry => \/ offset = inFlight.start_offset
                        \/ offset >= inFlight.end_offset

(* A recover that exits 0 leaves neither .in-flight nor .responded behind, so *)
(* the session that follows starts clean (recover.rs:15-18, 97-99).           *)
RecoverLeavesClean ==
  phase \in {"recovered", "truncated", "ready"} => inFlight = NoEntry /\ ~responded

(* A session that was recovered into never meets .responded without           *)
(* .in-flight, the state hook::run refuses as InconsistentState: the flag is  *)
(* touched after the entry is written and cleared in the same tick, and       *)
(* recover clears what a crash between the two leaves (hook.rs:92-114).       *)
FlagHasOrphan == At("readInFlight") => inFlight # NoEntry

(* What the agent is working on is what .in-flight records, not acknowledged  *)
(* yet and flagged for the next tick: a crash at any moment of a turn leaves  *)
(* a live orphan for recover (README state machine, [in-flight]).             *)
TurnIsRecorded ==
  turn # NoEntry => /\ inFlight = turn /\ responded
                    /\ offset = turn.start_offset

Overlap(d, e) ==
  d.start_offset < e.end_offset /\ e.start_offset < d.end_offset

(* Under deadletter and drop no byte reaches the agent twice, whatever        *)
(* crashes: the policies for work whose side effects must not be duplicated   *)
(* (recover.rs:41-44).  It holds only where no hook fails to look at          *)
(* .responded: such a hook offers the entry in flight again (hook.rs:81).     *)
AtMostOnceDelivery ==
  \A i, j \in DOMAIN delivered : i # j => ~Overlap(delivered[i], delivered[j])

(* Under retry a delivery either follows all earlier ones in the file or      *)
(* offers the same orphan again from its start (recover.rs:36-39): order is   *)
(* kept, and nothing that was acknowledged comes back.                        *)
RedeliverOnlyOrphan ==
  \A i, j \in DOMAIN delivered : i < j =>
    \/ delivered[j].start_offset >= delivered[i].end_offset
    \/ delivered[j].start_offset = delivered[i].start_offset

(* An entry comes back no more often than faults have struck by then: without *)
(* faults each entry is delivered at most once.  (Of each entry, and with all *)
(* deliveries since its first one counted; not of all entries together.)      *)
RedeliveryNeedsFault ==
  \A i, j \in DOMAIN delivered :
    i < j /\ Overlap(delivered[i], delivered[j]) => j - i <= faults

(* The agent's answer is what moves an entry past the cursor: .responded      *)
(* means that the agent replied to what .in-flight records (hook.rs:81-83).   *)
AckOnlyAnswered == At("advance") => hEntry \in settled \/ Stale(hEntry)

(* entry_id identifies an entry: dead letters that share it, the ones a       *)
(* consumer is told to merge, are the same entry (recover.rs:171-173,         *)
(* in_flight.rs:19-20).  entry_id is SHA256(raw_line).                        *)
EntryIdIdentifies ==
  \A i, j \in DOMAIN deadLetter :
    deadLetter[i].raw_line = deadLetter[j].raw_line
      => deadLetter[i].start_offset = deadLetter[j].start_offset

-----------------------------------------------------------------------------
(* Action properties.                                                         *)

(* Nothing but the launcher's own reset moves the cursor back: not a stale    *)
(* .in-flight fed to acknowledge (inbox.rs:146-158), not recover.             *)
CursorNeverRetreats == [][ResetCursor \/ offset' >= offset]_vars

(* An entry that was acknowledged is never dead-lettered: recover tells a     *)
(* crash between the two acknowledgement steps from a live orphan             *)
(* (recover.rs:48-52, 127-136).                                               *)
DeadLetterOnlyUnacknowledged ==
  [][deadLetter' # deadLetter =>
       offset <= deadLetter'[Len(deadLetter')].start_offset]_vars

(* The launcher's reset erases nothing that was not settled before.           *)
TruncateErasesOnlySettled ==
  [][TruncateInbox => \A i \in DOMAIN inbox : inbox[i] \in Blank \/ ByteSettled(i)]_vars

(* The artifacts implement the abstract queue.                                *)
Queue == INSTANCE Delivery
           WITH queue  <- inbox,
                cursor <- offset,
                done   <- {<<s.start_offset, s.end_offset>> : s \in settled}

ImplementsDelivery == Queue!DeliverySpec

-----------------------------------------------------------------------------
(* Liveness.                                                                  *)

(* When faults and producers stop, the cursor reaches the end of the inbox    *)
(* and stays there: no orphan, flag or torn line blocks the queue for good.   *)
EventuallyDrained == <>[](offset = Len(inbox))
=============================================================================
