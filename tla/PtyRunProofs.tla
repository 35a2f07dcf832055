----------------------------- MODULE PtyRunProofs -----------------------------
(* Proofs about heartbeat-launch for every choice of its constants: RunInv is *)
(* inductive, and what its conjuncts say of the exit code, the exit signal    *)
(* and the watchdog holds in every reachable state.                           *)
EXTENDS PtyRunInv, TLAPS

(* One more keepalive costs one more timeout.                                 *)
LEMMA OneMoreTimeout ==
  ASSUME NEW r \in Nat, NEW t \in Nat
  PROVE  /\ r * t \in Nat
         /\ (r + 1) * t = r * t + t
         /\ 0 * t = 0
OBVIOUS

(* What the type invariant says of the clock, in numbers.                     *)
LEMMA ClockType ==
  ASSUME RunTypeOK
  PROVE  /\ now \in Nat /\ lastOutput \in Nat /\ lastOutput <= now
         /\ calmSince \in Nat /\ calmSince <= now
         /\ retryCount \in Nat /\ retryCount <= opts.maxRetries
         /\ lastKeepalive # Never => lastKeepalive \in Nat /\ lastKeepalive <= now
         /\ lastInjected # Never => lastInjected \in Nat /\ lastInjected <= now
         /\ opts.timeout \in Nat /\ opts.idleTimeout \in Nat /\ opts.maxRetries \in Nat
         /\ opts.exitSignal \in BOOLEAN
         /\ Never \notin Nat /\ Grace \in Nat
BY WatchdogAssumption DEF RunTypeOK, WatchdogTypeOK, Option

(* The watchdog gives up with every keepalive typed that it may type.         *)
LEMMA ExhaustedRetries ==
  ASSUME RunTypeOK, TickExhausts
  PROVE  retryCount = opts.maxRetries
BY ClockType DEF TickExhausts

(* A launch starts with its invariant.                                        *)
LEMMA InitRunInv == Init => RunInv
<1> SUFFICES ASSUME Init PROVE RunInv
  OBVIOUS
<1> USE DEF Init, WatchdogStarts
<1>1. WatchdogTypeOK
  BY WatchdogAssumption DEF WatchdogTypeOK, Option
<1>2. LoopTypeOK
  <2>1. exitCode \in Nat /\ wakeAt \in Nat /\ deadline \in Nat
    BY DEF NoCode
  <2> QED
    BY <2>1 DEF LoopTypeOK, RunPcs, Results
<1>3. ChildTypeOK
  <2>1. childCode \in Nat
    OBVIOUS
  <2> QED
    BY <2>1 DEF ChildTypeOK
<1>4. launches \in 0..MaxLaunches
  BY RunAssumption
<1>5. PatienceInv
  BY DEF PatienceInv, PatientKill, At
<1> QED
  BY <1>1, <1>2, <1>3, <1>4, <1>5
     DEF RunInv, RunTypeOK, CreditInv, SignalInv, ExitInv, PromiseInv, At

-----------------------------------------------------------------------------
(* Types.                                                                     *)

(* The clock runs on and the watchdog's stamps stay behind it.                *)
LEMMA WatchdogTypeStep ==
  ASSUME RunTypeOK, Next
  PROVE  WatchdogTypeOK'
<1> USE ClockType DEF RunTypeOK, WatchdogTypeOK
<1>1. CASE Spawn
  BY <1>1 DEF Spawn, SpawnFails, watchdogVars
<1>2. CASE Tick
  <2>1. CASE TickExhausts
    BY <1>2, <2>1 DEF Tick, TickExhausts, Calm, LastActivity
  <2>2. CASE TickInjects
    BY <1>2, <2>2 DEF Tick, TickInjects, TickExhausts, TickRecovers, TickIsQuiet, watchdogVars,
                      Stamp, Calm, LastActivity
  <2>3. CASE TickRecovers
    BY <1>2, <2>3 DEF Tick, TickRecovers
  <2>4. CASE TickIsQuiet
    BY <1>2, <2>4 DEF Tick, TickIsQuiet, watchdogVars
  <2> QED
    BY <1>2, <2>1, <2>2, <2>3, <2>4 DEF Tick
<1>3. CASE KeepaliveTyped
  BY <1>3 DEF KeepaliveTyped, Stamp
<1>4. CASE PassTime
  BY <1>4 DEF PassTime, watchdogVars
<1>5. CASE ReaderReads
  BY <1>5 DEF ReaderReads, watchdogVars
<1>6. CASE Relaunch
  <2>1. opts' \in Options /\ opts'.maxRetries \in Nat
    BY <1>6, WatchdogAssumption DEF Relaunch, Option
  <2> QED
    BY <1>6, <2>1 DEF Relaunch
<1>7. CASE UNCHANGED <<opts, now, lastOutput, watchdogVars>>
  BY <1>7 DEF watchdogVars
<1> QED
  BY <1>1, <1>2, <1>3, <1>4, <1>5, <1>6, <1>7
     DEF Next, LoopStep, RemoveStaleSignal, TryWait, CheckDeadline, CheckSignal, EndGrace, GraceOver,
         PollAgain, IdleKill, JoinReader, Exit, ReaderStops, HookApproves, ChildExits

(* The loop.                                                                  *)
LEMMA LoopTypeStep ==
  ASSUME RunTypeOK, Next
  PROVE  LoopTypeOK'
<1> USE DEF RunTypeOK, LoopTypeOK, RunPcs, Results, Goto
<1>0. \A time \in Nat : now + time \in Nat
  BY ClockType
<1>1. wakeAt' \in Nat /\ deadline' \in Nat /\ exitCode' \in Nat
  <2>1. CASE LoopStep
    <3>1. wakeAt' \in Nat
      BY <1>0, <2>1, RunAssumption
         DEF LoopStep, Spawn, SpawnFails, RemoveStaleSignal, TryWait, CheckDeadline, CheckSignal, EndGrace, GraceOver,
             Tick, KeepaliveTyped, PollAgain, IdleKill, JoinReader, Exit, SleepFor
    <3>2. deadline' \in Nat
      BY <1>0, <2>1, ClockType
         DEF LoopStep, Spawn, SpawnFails, RemoveStaleSignal, TryWait, CheckDeadline, CheckSignal, EndGrace, GraceOver,
             Tick, KeepaliveTyped, PollAgain, IdleKill, JoinReader, Exit
    <3>3. exitCode' \in Nat
      BY <2>1 DEF LoopStep, Spawn, SpawnFails, RemoveStaleSignal, TryWait, CheckDeadline, CheckSignal,
                  EndGrace, GraceOver, Tick, KeepaliveTyped, PollAgain, IdleKill, JoinReader, Exit,
                  ExitOfChild, ChildTypeOK
    <3> QED
      BY <3>1, <3>2, <3>3
  <2>2. CASE Relaunch
    BY <2>2 DEF Relaunch, NoCode
  <2>3. CASE UNCHANGED loopVars
    BY <2>3 DEF loopVars
  <2> QED
    BY <2>1, <2>2, <2>3
       DEF Next, PassTime, ReaderReads, ReaderStops, HookApproves, ChildExits
<1>2. exitSent' \in BOOLEAN /\ writer' \in BOOLEAN
  BY Zenon DEF Next, LoopStep, Spawn, SpawnFails, RemoveStaleSignal, TryWait, CheckDeadline, CheckSignal,
         EndGrace, GraceOver, Tick, KeepaliveTyped, PollAgain, IdleKill, JoinReader, Exit, PassTime,
         ReaderReads, ReaderStops, HookApproves, ChildExits, Relaunch, loopVars
<1>3. lpc' \in RunPcs /\ result' \in {"none", "exited", "timeout", "idle", "error"}
  BY DEF Next, LoopStep, Spawn, SpawnFails, RemoveStaleSignal, TryWait, CheckDeadline, CheckSignal,
         EndGrace, GraceOver, Tick, KeepaliveTyped, PollAgain, IdleKill, JoinReader, Exit, PassTime,
         ReaderReads, ReaderStops, HookApproves, ChildExits, Relaunch, loopVars
<1> QED
  BY <1>1, <1>2, <1>3

(* The child and the files.                                                   *)
LEMMA ChildTypeStep ==
  ASSUME RunTypeOK, Next
  PROVE  ChildTypeOK' /\ launches' \in 0..MaxLaunches
<1> USE DEF RunTypeOK, ChildTypeOK, childVars
<1>1. CASE LoopStep
  <2>1. child' \in {"none", "running", "termed", "killed", "exited"} /\ childCode' \in Nat
    BY <1>1 DEF LoopStep, Spawn, SpawnFails, RemoveStaleSignal, TryWait, CheckDeadline, CheckSignal, EndGrace, GraceOver,
                Tick, KeepaliveTyped, PollAgain, IdleKill, JoinReader, Exit, KillChild, ForceKill
  <2>2. reader' \in BOOLEAN /\ approved' \in BOOLEAN
    BY <1>1 DEF LoopStep, Spawn, SpawnFails, RemoveStaleSignal, TryWait, CheckDeadline, CheckSignal, EndGrace, GraceOver,
                Tick, KeepaliveTyped, PollAgain, IdleKill, JoinReader, Exit
  <2>3. signalFile' \in BOOLEAN
    BY <1>1 DEF LoopStep, Spawn, SpawnFails, RemoveStaleSignal, TryWait, CheckDeadline, CheckSignal, EndGrace, GraceOver,
                Tick, KeepaliveTyped, PollAgain, IdleKill, JoinReader, Exit, AfterCleaning
  <2>4. launches' = launches
    BY <1>1 DEF LoopStep, Spawn, SpawnFails, RemoveStaleSignal, TryWait, CheckDeadline, CheckSignal, EndGrace, GraceOver,
                Tick, KeepaliveTyped, PollAgain, IdleKill, JoinReader, Exit
  <2> QED
    BY <2>1, <2>2, <2>3, <2>4
<1>2. CASE PassTime \/ ReaderReads \/ ReaderStops \/ HookApproves
  BY <1>2 DEF PassTime, ReaderReads, ReaderStops, HookApproves
<1>3. CASE ChildExits
  <2>1. childCode' \in Nat
    <3>1. Codes \subseteq Nat /\ 1 \in Nat
      BY RunAssumption
    <3> QED
      BY Zenon, <1>3, <3>1 DEF ChildExits
  <2> QED
    BY <1>3, <2>1 DEF ChildExits
<1>4. CASE Relaunch
  <2>1. launches' \in 0..MaxLaunches
    BY <1>4, RunAssumption DEF Relaunch
  <2> QED
    BY <1>4, <2>1 DEF Relaunch
<1> QED
  BY <1>1, <1>2, <1>3, <1>4 DEF Next

-----------------------------------------------------------------------------
(* The watchdog.                                                              *)

(* A keepalive is forgotten only when output past its grace window was seen,  *)
(* and the reader's stamp never goes back.                                    *)
LEMMA CreditStep ==
  ASSUME RunInv, Next
  PROVE  CreditInv'
<1> USE ClockType DEF RunInv, CreditInv, OutputPastGrace
<1>1. CASE Spawn
  BY <1>1 DEF Spawn, SpawnFails, watchdogVars
<1>2. CASE Tick
  <2>1. CASE TickExhausts
    BY <1>2, <2>1 DEF Tick, TickExhausts
  <2>2. CASE TickInjects
    BY <1>2, <2>2 DEF Tick, TickInjects, TickExhausts, TickRecovers, TickIsQuiet, watchdogVars,
                      Stamp
  <2>3. CASE TickRecovers
    BY <1>2, <2>3 DEF Tick, TickRecovers, Revived
  <2>4. CASE TickIsQuiet
    BY <1>2, <2>4 DEF Tick, TickIsQuiet, watchdogVars
  <2> QED
    BY <1>2, <2>1, <2>2, <2>3, <2>4 DEF Tick
<1>3. CASE KeepaliveTyped
  BY <1>3 DEF KeepaliveTyped, Stamp
<1>4. CASE ReaderReads
  BY <1>4 DEF ReaderReads, watchdogVars
<1>5. CASE Relaunch
  BY <1>5 DEF Relaunch
<1>6. CASE UNCHANGED <<lastOutput, watchdogVars>>
  BY <1>6 DEF watchdogVars
<1> QED
  BY <1>1, <1>2, <1>3, <1>4, <1>5, <1>6
     DEF Next, LoopStep, RemoveStaleSignal, TryWait, CheckDeadline, CheckSignal, EndGrace, GraceOver,
         PollAgain, IdleKill, JoinReader, Exit, PassTime, ReaderStops, HookApproves, ChildExits

(* Each keepalive is typed one full timeout after the activity before it.     *)
LEMMA PatienceStep ==
  ASSUME RunInv, Next
  PROVE  PatienceInv'
<1> USE ClockType DEF RunInv, PatienceInv, PatientKill, Patience, At, Goto
<1>0. /\ retryCount * opts.idleTimeout \in Nat /\ 0 * opts.idleTimeout = 0
      /\ (retryCount + 1) * opts.idleTimeout = retryCount * opts.idleTimeout + opts.idleTimeout
  BY OneMoreTimeout
<1>1. CASE Tick
  <2>1. LastActivity \in Nat /\ LastActivity <= now
    BY DEF LastActivity
  <2>2. ASSUME TickExhausts \/ TickInjects
        PROVE  /\ opts' = opts /\ now' = now /\ calmSince' \in Nat
               /\ now >= calmSince' + (retryCount + 1) * opts.idleTimeout
    <3>1. lpc = "tick" /\ opts' = opts /\ now' = now /\ calmSince' \in Nat
      BY <1>1, <2>1, <2>2 DEF Tick, TickExhausts, TickInjects, Calm
    <3>2. retryCount > 0 => lastKeepalive # Never /\ lastKeepalive >= Patience
      BY <3>1
    <3>3. LastActivity >= calmSince' + retryCount * opts.idleTimeout
      BY <1>0, <2>1, <2>2, <3>1, <3>2 DEF LastActivity, TickExhausts, TickInjects, Calm
    <3>4. now >= calmSince' + (retryCount + 1) * opts.idleTimeout
      BY <1>0, <2>1, <2>2, <3>1, <3>3 DEF TickExhausts, TickInjects, Silent
    <3> QED
      BY <3>1, <3>4
  <2>3. CASE TickExhausts /\ lpc' = "idleKill"
    <3>1. retryCount' = retryCount /\ lastKeepalive' = lastKeepalive /\ lpc = "tick"
      BY <1>1, <2>3 DEF TickExhausts, Tick
    <3>2. retryCount = opts.maxRetries
      BY <2>3, ExhaustedRetries
    <3>3. calmSince' = calmSince \/ retryCount = 0
      BY <2>3 DEF TickExhausts, Calm
    <3> QED
      BY <1>0, <2>2, <2>3, <3>1, <3>2, <3>3
  <2>4. CASE TickInjects /\ lpc' = "escGap"
    BY <2>2, <2>4 DEF TickInjects
  <2>5. CASE TickInjects /\ Stamp /\ lpc' = "sleep"
    BY <2>2, <2>5 DEF TickInjects, Stamp
  <2>6. CASE TickRecovers /\ lpc' = "sleep"
    BY <2>6 DEF TickRecovers
  <2>7. CASE TickIsQuiet /\ lpc' = "sleep" /\ opts' = opts /\ lpc = "tick"
    BY <2>7 DEF TickIsQuiet, watchdogVars
  <2> QED
    BY <1>1, <2>3, <2>4, <2>5, <2>6, <2>7 DEF Tick
<1>2. CASE KeepaliveTyped
  BY <1>2 DEF KeepaliveTyped, Stamp
<1>3. CASE PassTime
  BY <1>0, <1>3 DEF PassTime, watchdogVars, loopVars
<1>4. CASE Relaunch
  BY <1>4 DEF Relaunch
<1>5. CASE /\ UNCHANGED <<opts, now, watchdogVars>>
           /\ lpc' = lpc \/ (lpc # "escGap" /\ lpc' \notin {"escGap", "idleKill"})
  BY <1>5 DEF watchdogVars
<1>6. CASE LoopStep /\ ~Tick /\ ~KeepaliveTyped
  BY <1>5, <1>6
     DEF LoopStep, Spawn, SpawnFails, RemoveStaleSignal, TryWait, CheckDeadline, CheckSignal, EndGrace, GraceOver,
         PollAgain, IdleKill, JoinReader, Exit
<1>7. CASE ReaderReads \/ ReaderStops \/ HookApproves \/ ChildExits
  BY <1>5, <1>7 DEF ReaderReads, ReaderStops, HookApproves, ChildExits, loopVars
<1> QED
  BY <1>1, <1>2, <1>3, <1>4, <1>6, <1>7 DEF Next

-----------------------------------------------------------------------------
(* The exit signal.                                                           *)

(* A signal file that outlived its launch is gone before the loop looks.      *)
LEMMA SignalStep ==
  ASSUME RunInv, Next
  PROVE  SignalInv'
<1> USE DEF RunInv, SignalInv, At, Goto
<1>1. CASE RemoveStaleSignal
  BY <1>1 DEF RemoveStaleSignal, AfterCleaning, childVars
<1>2. CASE CheckSignal
  BY <1>2 DEF CheckSignal, SeesSignal
<1>3. CASE EndGrace
  BY <1>3 DEF EndGrace, GraceOver
<1>4. CASE Spawn \/ Exit
  BY <1>4 DEF Spawn, SpawnFails, Exit, childVars
<1>5. CASE TryWait \/ CheckDeadline \/ Tick \/ KeepaliveTyped \/ PollAgain \/ IdleKill \/ JoinReader
  BY <1>5 DEF TryWait, CheckDeadline, Tick, KeepaliveTyped, PollAgain, IdleKill, JoinReader,
              childVars
<1>6. CASE PassTime \/ ReaderReads \/ ReaderStops \/ ChildExits
  BY <1>6 DEF PassTime, ReaderReads, ReaderStops, ChildExits, loopVars, childVars
<1>7. CASE HookApproves
  BY <1>7 DEF HookApproves
<1>8. CASE Relaunch
  BY <1>8 DEF Relaunch
<1> QED
  BY <1>1, <1>2, <1>3, <1>4, <1>5, <1>6, <1>7, <1>8 DEF Next, LoopStep

(* The exit code is computed last, from what does not change any more.        *)
LEMMA ExitStep ==
  ASSUME RunInv, Next
  PROVE  ExitInv'
<1> USE DEF RunInv, ExitInv, At, Goto
<1>1. CASE LoopStep /\ ~Exit
  BY <1>1 DEF LoopStep, Spawn, SpawnFails, RemoveStaleSignal, TryWait, CheckDeadline, CheckSignal, EndGrace, GraceOver,
              Tick, KeepaliveTyped, PollAgain, IdleKill, JoinReader, KillChild, childVars
<1>2. CASE Exit
  BY <1>2 DEF Exit, ExitOfChild, Unrecovered, OutputPastGrace, childVars, watchdogVars
<1>3. CASE PassTime \/ ReaderStops
  BY <1>3 DEF PassTime, ReaderStops, ExitOfChild, Unrecovered, OutputPastGrace, loopVars,
              childVars, watchdogVars
<1>4. CASE ReaderReads \/ HookApproves
  BY <1>4 DEF ReaderReads, HookApproves, ExitOfChild, Unrecovered, OutputPastGrace, loopVars,
              childVars, watchdogVars
<1>5. CASE ChildExits
  BY <1>5 DEF ChildExits, ExitOfChild, Unrecovered, OutputPastGrace, Alive, loopVars,
              childVars, watchdogVars
<1>6. CASE Relaunch
  BY <1>6 DEF Relaunch
<1> QED
  BY <1>1, <1>2, <1>3, <1>4, <1>5, <1>6 DEF Next

(* What the run gives up, and when it has an exit code.                       *)
LEMMA PromiseStep ==
  ASSUME RunInv, Next
  PROVE  PromiseInv'
<1> USE DEF RunInv, PromiseInv, At, Goto
<1>1. CASE Spawn \/ RemoveStaleSignal
  BY <1>1 DEF Spawn, SpawnFails, RemoveStaleSignal, childVars
<1>2. CASE TryWait \/ CheckDeadline
  BY <1>2 DEF TryWait, CheckDeadline, KillChild, childVars, ExitInv
<1>3. CASE CheckSignal \/ EndGrace
  BY <1>3 DEF CheckSignal, SeesSignal, EndGrace, ForceKill, GraceOver, KillChild, ExitInv
<1>4. CASE Tick \/ KeepaliveTyped \/ PollAgain
  BY <1>4 DEF Tick, TickExhausts, Silent, KeepaliveTyped, PollAgain, childVars
<1>5. CASE IdleKill \/ JoinReader \/ Exit
  BY <1>5 DEF IdleKill, JoinReader, Exit, KillChild, childVars
<1>6. CASE PassTime \/ ReaderReads \/ ReaderStops \/ HookApproves
  BY <1>6 DEF PassTime, ReaderReads, ReaderStops, HookApproves, loopVars, childVars
<1>7. CASE ChildExits
  BY <1>7 DEF ChildExits, Alive, loopVars
<1>8. CASE Relaunch
  BY <1>8 DEF Relaunch
<1> QED
  BY <1>1, <1>2, <1>3, <1>4, <1>5, <1>6, <1>7, <1>8 DEF Next, LoopStep

-----------------------------------------------------------------------------
(* The invariant, and what it says.                                           *)

(* A stuttering step keeps the invariant.                                     *)
LEMMA RunStutter ==
  ASSUME RunInv, UNCHANGED vars
  PROVE  RunInv'
BY DEF vars, loopVars, childVars, watchdogVars, RunInv, RunTypeOK, WatchdogTypeOK, LoopTypeOK,
       ChildTypeOK, CreditInv, OutputPastGrace, PatienceInv, PatientKill, Patience, SignalInv,
       ExitInv, ExitOfChild, PromiseInv, Unrecovered, At

(* RunInv is inductive: it holds in every state of every chain of launches.   *)
THEOREM RunInductive == Spec => []RunInv
<1>1. Init => RunInv
  BY InitRunInv
<1>2. RunInv /\ [Next]_vars => RunInv'
  <2>1. ASSUME RunInv, Next PROVE RunInv'
    <3>1. WatchdogTypeOK' /\ LoopTypeOK' /\ ChildTypeOK' /\ (launches \in 0..MaxLaunches)'
      BY <2>1, WatchdogTypeStep, LoopTypeStep, ChildTypeStep DEF RunInv
    <3>2. CreditInv' /\ PatienceInv' /\ SignalInv' /\ ExitInv' /\ PromiseInv'
      BY <2>1, CreditStep, PatienceStep, SignalStep, ExitStep, PromiseStep
    <3> QED
      BY <3>1, <3>2 DEF RunInv, RunTypeOK
  <2> QED
    BY <2>1, RunStutter
<1> QED
  BY <1>1, <1>2, PTL DEF Spec

(* Every variable keeps its type; no more than --max-idle-retries keepalives  *)
(* are counted and no stamp is ahead of the clock.                            *)
THEOREM RunTypeCorrect == Spec => []RunTypeOK
<1>1. RunInv => RunTypeOK
  BY DEF RunInv
<1> QED
  BY <1>1, RunInductive, PTL

(* A session is terminated only on a signal of its own hook.                  *)
THEOREM SignalsAreOwn == Spec => []SignalIsOwn
<1>1. RunInv => SignalIsOwn
  BY DEF RunInv, SignalInv, SignalIsOwn
<1> QED
  BY <1>1, RunInductive, PTL

(* Exit code 0 of a child that ended by itself is passed on exactly when it   *)
(* showed life after the last keepalive.                                      *)
THEOREM ZerosAreTrusted == Spec => []ZeroIsTrusted
<1>1. RunInv => ZeroIsTrusted
  <2> SUFFICES ASSUME RunInv, At("done"), result = "exited", ~exitSent, childCode = 0
               PROVE  exitCode = 0
                        <=> (lastInjected = Never \/ OutputPastGrace(lastInjected, lastOutput))
    BY DEF ZeroIsTrusted
  <2>1. exitCode = 0 <=> ~Unrecovered(exitSent)
    BY DEF RunInv, ExitInv, ExitOfChild
  <2>2. Unrecovered(exitSent)
          <=> lastKeepalive # Never /\ ~OutputPastGrace(lastKeepalive, lastOutput)
    BY DEF Unrecovered
  <2>3. CASE lastKeepalive # Never
    BY <2>1, <2>2, <2>3 DEF RunInv, CreditInv
  <2>4. CASE lastKeepalive = Never
    BY <2>1, <2>2, <2>4 DEF RunInv, CreditInv
  <2> QED
    BY <2>3, <2>4
<1> QED
  BY <1>1, RunInductive, PTL

(* Only the loop removes the signal file, and then it ends the session.       *)
LEMMA KeptStep ==
  ASSUME ~EarlyHook, KeptInv, Next
  PROVE  KeptInv'
<1> USE DEF KeptInv, SignalNotLost, At, Goto
<1>1. CASE Spawn \/ RemoveStaleSignal
  BY <1>1 DEF Spawn, SpawnFails, RemoveStaleSignal, childVars
<1>2. CASE CheckSignal \/ EndGrace
  BY <1>2 DEF CheckSignal, SeesSignal, EndGrace, GraceOver
<1>3. CASE \/ TryWait \/ CheckDeadline \/ Tick \/ KeepaliveTyped \/ PollAgain \/ IdleKill
           \/ JoinReader \/ Exit
  BY <1>3 DEF TryWait, CheckDeadline, Tick, KeepaliveTyped, PollAgain, IdleKill, JoinReader,
              Exit, childVars
<1>4. CASE PassTime \/ ReaderReads \/ ReaderStops
  BY <1>4 DEF PassTime, ReaderReads, ReaderStops, loopVars, childVars
<1>5. CASE HookApproves
  BY <1>5 DEF HookApproves, loopVars
<1>6. CASE ChildExits
  BY <1>6 DEF ChildExits, Alive, loopVars
<1>7. CASE Relaunch
  BY <1>7 DEF Relaunch
<1> QED
  BY <1>1, <1>2, <1>3, <1>4, <1>5, <1>6, <1>7 DEF Next, LoopStep

(* The signal of a session's own hook is there until the loop acts on it, if  *)
(* none comes before the loop is entered.                                     *)
THEOREM SignalsAreKept ==
  ASSUME ~EarlyHook
  PROVE  Spec => []SignalNotLost
<1>1. Init => KeptInv
  BY DEF Init, KeptInv, SignalNotLost, At
<1>2. KeptInv /\ [Next]_vars => KeptInv'
  <2>1. KeptInv /\ UNCHANGED vars => KeptInv'
    BY DEF vars, loopVars, childVars, KeptInv, SignalNotLost, At
  <2> QED
    BY <2>1, KeptStep
<1>3. KeptInv => SignalNotLost
  BY DEF KeptInv
<1> QED
  BY <1>1, <1>2, <1>3, PTL DEF Spec

(* Every step of a launch is one of those a launcher script is promised, the  *)
(* end of a signalled session that another reason overrules, or changes       *)
(* nothing of what the script sees.                                           *)
LEMMA PromiseImplemented ==
  ASSUME RunInv, Next
  PROVE  [Promise!PromiseNext \/ Promise!Overruled]_(Promise!promiseVars)
<1> USE DEF RunInv, Promise!PromiseNext, Promise!promiseVars, LifeOf, Goto, At
<1>1. CASE Spawn
  BY <1>1 DEF Spawn, SpawnFails, PromiseInv, Promise!Begin, watchdogVars
<1>2. CASE RemoveStaleSignal \/ TryWait \/ PollAgain \/ JoinReader
  BY <1>2 DEF RemoveStaleSignal, TryWait, PollAgain, JoinReader, watchdogVars, childVars
<1>3. CASE CheckDeadline \/ IdleKill
  <2>1. LifeOf' = LifeOf \/ (LifeOf = "alive" /\ LifeOf' = "killed")
    <3>1. child \in {"running", "termed", "killed", "exited"}
      BY <1>3 DEF CheckDeadline, IdleKill, PromiseInv, RunTypeOK, ChildTypeOK
    <3>2. child' = child \/ (child # "exited" /\ child' = "killed")
      BY <1>3 DEF CheckDeadline, IdleKill, KillChild
    <3> QED
      BY <3>1, <3>2
  <2>2. UNCHANGED <<opts, lastInjected, childCode, exitSent, exitCode>>
    BY <1>3 DEF CheckDeadline, IdleKill, watchdogVars
  <2> QED
    BY <2>1, <2>2 DEF Promise!Kill
<1>4. CASE CheckSignal
  <2>1. LifeOf' = LifeOf
    BY <1>4 DEF CheckSignal
  <2> QED
    BY <1>4, <2>1 DEF CheckSignal, watchdogVars
<1>5. CASE EndGrace
  <2>1. LifeOf # "none" /\ LifeOf' = IF LifeOf = "dead" THEN "dead" ELSE "killed"
    BY <1>5 DEF EndGrace, ForceKill, KillChild, PromiseInv, RunTypeOK, ChildTypeOK
  <2>2. ~exitSent /\ exitSent' = TRUE
    BY <1>5 DEF EndGrace, GraceOver, PromiseInv
  <2>3. UNCHANGED <<opts, lastInjected, childCode, exitCode>>
    BY <1>5 DEF EndGrace, watchdogVars
  <2> QED
    BY <2>1, <2>2, <2>3 DEF Promise!Signal
<1>6. CASE Tick \/ KeepaliveTyped
  <2>1. lastInjected' = lastInjected \/ lastInjected' = now
    BY <1>6 DEF Tick, KeepaliveTyped, TickExhausts, TickInjects, TickRecovers, TickIsQuiet,
                Stamp, watchdogVars
  <2>2. now # Never
    BY WatchdogAssumption DEF RunTypeOK, WatchdogTypeOK
  <2>3. UNCHANGED <<opts, child, childCode, exitSent, exitCode>>
    BY <1>6 DEF Tick, KeepaliveTyped, childVars
  <2> QED
    BY <2>1, <2>2, <2>3 DEF Promise!Prompt
<1>7. CASE Exit
  <2>1. UNCHANGED <<opts, lastInjected, child, childCode, exitSent>>
    BY <1>7 DEF Exit, watchdogVars, childVars
  <2>2. exitCode = NoCode
    BY <1>7 DEF Exit, PromiseInv
  <2>3. CASE result = "exited"
    <3>1. LifeOf = "dead" /\ exitCode' = ExitOfChild
      BY <1>7, <2>3 DEF Exit, ExitInv
    <3>2. Unrecovered(exitSent) => lastInjected # Never
      BY DEF Unrecovered, CreditInv
    <3>3. \/ exitCode' = 0 /\ exitSent
          \/ exitCode' = childCode /\ ~exitSent
          \/ exitCode' = 122 /\ ~exitSent /\ childCode = 0 /\ lastInjected # Never
      BY <3>1, <3>2 DEF ExitOfChild
    <3> HIDE DEF RunInv
    <3> QED
      BY <2>1, <2>2, <3>1, <3>3 DEF Promise!Exit
  <2>4. CASE result = "timeout"
    <3>1. LifeOf \in {"killed", "dead"} /\ opts.timeout > 0 /\ exitCode' = 124
      BY <1>7, <2>4 DEF Exit, PromiseInv
    <3> HIDE DEF RunInv
    <3>2. CASE ~exitSent
      BY <2>1, <2>2, <3>1, <3>2 DEF Promise!Exit, Promise!GivenUp
    <3>3. CASE exitSent
      BY <2>1, <2>2, <3>1, <3>3 DEF Promise!Overruled, Promise!GivenUp
    <3> QED
      BY <3>2, <3>3
  <2>5. CASE result = "idle"
    <3>1. LifeOf \in {"killed", "dead"} /\ opts.idleTimeout > 0 /\ exitCode' = 125
      BY <1>7, <2>5 DEF Exit, PromiseInv
    <3> HIDE DEF RunInv
    <3>2. CASE ~exitSent
      BY <2>1, <2>2, <3>1, <3>2 DEF Promise!Exit, Promise!GivenUp
    <3>3. CASE exitSent
      BY <2>1, <2>2, <3>1, <3>3 DEF Promise!Overruled, Promise!GivenUp
    <3> QED
      BY <3>2, <3>3
  <2>6. CASE result \notin {"exited", "timeout", "idle"}
    <3>1. exitCode' = 1
      BY <1>7, <2>6 DEF Exit
    <3> QED
      BY <2>1, <2>2, <3>1 DEF Promise!Exit
  <2> QED
    BY <2>3, <2>4, <2>5, <2>6
<1>8. CASE PassTime \/ ReaderReads \/ ReaderStops \/ HookApproves
  BY <1>8 DEF PassTime, ReaderReads, ReaderStops, HookApproves, watchdogVars, loopVars, childVars
<1>9. CASE ChildExits
  BY <1>9 DEF ChildExits, Alive, Promise!Die, watchdogVars, loopVars
<1>10. CASE Relaunch
  <2>1. Promise!Launch
    BY <1>10 DEF Relaunch, Promise!Launch, Promise!Fresh
  <2> QED
    BY <2>1
<1> QED
  BY <1>1, <1>2, <1>3, <1>4, <1>5, <1>6, <1>7, <1>8, <1>9, <1>10 DEF Next, LoopStep

(* heartbeat-launch implements what Supervision says of its exit codes, with  *)
(* Overruled as the only step beside the promise.                             *)
THEOREM PromiseIsKept == Spec => KeepsPromise
<1>1. Init => Promise!Fresh
  BY DEF Init, WatchdogStarts, Promise!Fresh, LifeOf
<1>2. RunInv /\ [Next]_vars
        => [Promise!PromiseNext \/ Promise!Overruled]_(Promise!promiseVars)
  <2>1. RunInv /\ UNCHANGED vars => UNCHANGED Promise!promiseVars
    BY DEF vars, watchdogVars, loopVars, childVars, Promise!promiseVars, LifeOf
  <2> QED
    BY <2>1, PromiseImplemented
<1> QED
  BY <1>1, <1>2, RunInductive, PTL DEF Spec, KeepsPromise, Promise!PromiseSpecButOverruled

(* The watchdog kills only after --max-idle-retries keepalives and a full     *)
(* --idle-timeout of silence around each of them.                             *)
THEOREM KillsArePatient == Spec => []PatientKill
<1>1. RunInv => PatientKill
  BY DEF RunInv, PatienceInv
<1> QED
  BY <1>1, RunInductive, PTL
=============================================================================
