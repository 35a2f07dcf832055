-------------------------------- MODULE PtyRun --------------------------------
(* heartbeat-launch: pty::run (src/src/pty.rs), its poll loop against the     *)
(* child, the reader thread and the signal file that heartbeat-stop touches   *)
(* (src/src/main.rs), and the exit code (src/src/launch.rs).  Between two     *)
(* checks of the loop anything may happen; the clock moves while it sleeps.   *)
EXTENDS IdleWatchdog

CONSTANTS EscGap,       \* KEEPALIVE_ESC_GAP
          TermGrace,    \* from SIGTERM to SIGKILL
          JoinWait,     \* how long join_reader waits for the reader thread
          Codes,        \* the exit codes of a child that ends by itself
          Talkative,    \* does the child write when it likes?  Else only echoes are read
          EarlyHook,    \* may a hook of the child approve before the loop is entered?
          MaxLaunches,  \* bound: how many launches follow each other
          MaxTime       \* bound: where the clock of a launch stops

ASSUME RunAssumption ==
  /\ EscGap \in Nat /\ TermGrace \in Nat /\ JoinWait \in Nat
  /\ MaxTime \in Nat /\ MaxLaunches \in Nat \ {0}
  /\ Codes \subseteq Nat
  /\ Talkative \in BOOLEAN /\ EarlyHook \in BOOLEAN

VARIABLES lpc,         \* where pty::run stands
          wakeAt,      \* when the sleep it is in ends
          deadline,    \* when --timeout ends
          exitSent,    \* exit_sent: the exit signal was seen and the child terminated
          writer,      \* did take_writer give us the terminal's input?
          result,      \* what pty::run returns
          exitCode,    \* the exit code of heartbeat-launch, NoCode before
          child,       \* the child process
          childCode,   \* its exit code
          reader,      \* does the reader thread read?
          signalFile,  \* does the --exit-signal file exist?
          approved,    \* ghost: a hook of this child approved and touched it
          launches     \* how many launches were begun

loopVars == <<lpc, wakeAt, deadline, exitSent, writer, result, exitCode>>
childVars == <<child, childCode, approved>>
vars == <<opts, now, lastOutput, watchdogVars, loopVars, childVars, reader, signalFile,
          launches>>

NoCode == 256

RunPcs == {"spawn", "clean", "poll", "deadline", "signal", "grace", "tick", "escGap", "sleep",
           "idleKill", "join", "exit", "done"}

(* RunResult and PtyError, with "error" for PtyError::Open, Spawn, Reader, Io. *)
Results == {"exited", "timeout", "idle", "error"}

LoopTypeOK ==
  /\ lpc \in RunPcs
  /\ wakeAt \in Nat /\ deadline \in Nat
  /\ exitSent \in BOOLEAN /\ writer \in BOOLEAN
  /\ result \in Results \cup {"none"}
  /\ exitCode \in Nat

ChildTypeOK ==
  /\ child \in {"none", "running", "termed", "killed", "exited"} /\ childCode \in Nat
  /\ reader \in BOOLEAN /\ signalFile \in BOOLEAN /\ approved \in BOOLEAN

RunTypeOK == WatchdogTypeOK /\ LoopTypeOK /\ ChildTypeOK /\ launches \in 0..MaxLaunches

Init ==
  /\ opts \in Options /\ now = 0 /\ lastOutput = 0 /\ WatchdogStarts
  /\ lpc = "spawn" /\ wakeAt = 0 /\ deadline = 0
  /\ exitSent = FALSE /\ writer = FALSE
  /\ result = "none" /\ exitCode = NoCode
  /\ child = "none" /\ childCode = 0 /\ approved = FALSE
  /\ reader = FALSE /\ signalFile = FALSE
  /\ launches = 1

At(label) == lpc = label
Goto(label) == lpc' = label
SleepFor(time) == wakeAt' = now + time
Awake == now >= wakeAt \/ now = MaxTime

Alive == child \in {"running", "termed", "killed"}
KillChild == child' = IF child = "exited" THEN "exited" ELSE "killed"

-----------------------------------------------------------------------------
(* pty::run.                                                                  *)

(* PtyError::Open and PtyError::Spawn; PtyError::Reader comes when the child  *)
(* runs already, and nobody ends it.                                          *)
SpawnFails ==
  /\ result' = "error" /\ Goto("exit")
  /\ child' \in {child, "running"}
  /\ UNCHANGED <<reader, lastOutput>>

Spawn ==
  /\ At("spawn")
  /\ \/ /\ child' = "running" /\ reader' = TRUE /\ lastOutput' = now
        /\ Goto("clean") /\ UNCHANGED result
     \/ SpawnFails
  /\ UNCHANGED <<opts, now, watchdogVars, wakeAt, deadline, exitSent, writer, exitCode,
                 childCode, approved, signalFile, launches>>

(* Mutant: a signal file that is already there is kept.                       *)
KeepsStaleSignal == signalFile

AfterCleaning == signalFile /\ ~opts.exitSignal

RemoveStaleSignal ==
  /\ At("clean") /\ Goto("poll")
  /\ signalFile' = AfterCleaning
  /\ deadline' = now + opts.timeout
  /\ writer' \in BOOLEAN
  /\ UNCHANGED <<opts, now, lastOutput, watchdogVars, wakeAt, exitSent, result, exitCode,
                 childVars, reader, launches>>

TryWait ==
  /\ At("poll")
  /\ \/ /\ child = "exited" /\ result' = "exited"
        /\ Goto("join") /\ SleepFor(JoinWait)
     \/ child # "exited" /\ Goto("deadline") /\ UNCHANGED <<result, wakeAt>>
     \/ result' = "error" /\ Goto("exit") /\ UNCHANGED wakeAt
  /\ UNCHANGED <<opts, now, lastOutput, watchdogVars, deadline, exitSent, writer, exitCode,
                 childVars, reader, signalFile, launches>>

CheckDeadline ==
  /\ At("deadline")
  /\ \/ /\ opts.timeout > 0 /\ now >= deadline
        /\ KillChild /\ result' = "timeout"
        /\ Goto("join") /\ SleepFor(JoinWait)
     \/ /\ opts.timeout = 0 \/ now < deadline
        /\ Goto("signal") /\ UNCHANGED <<child, result, wakeAt>>
  /\ UNCHANGED <<opts, now, lastOutput, watchdogVars, deadline, exitSent, writer, exitCode,
                 childCode, approved, reader, signalFile, launches>>

SeesSignal == ~exitSent /\ opts.exitSignal /\ signalFile

CheckSignal ==
  /\ At("signal")
  /\ \/ /\ SeesSignal
        /\ signalFile' = FALSE
        /\ child' = IF child = "running" THEN "termed" ELSE child
        /\ Goto("grace") /\ SleepFor(TermGrace)
     \/ ~SeesSignal /\ Goto("tick") /\ UNCHANGED <<signalFile, child, wakeAt>>
  /\ UNCHANGED <<opts, now, lastOutput, watchdogVars, deadline, exitSent, writer, result,
                 exitCode, childCode, approved, reader, launches>>

(* Mutant: the loop forgets that it handled the signal.                       *)
GraceForgotten == exitSent' = exitSent

(* exit_sent = true                                                           *)
GraceOver == exitSent' = TRUE

(* Mutant: a child that ignores SIGTERM is left alone.                        *)
NoForceKill == UNCHANGED child

ForceKill == KillChild

EndGrace ==
  /\ At("grace") /\ (child = "exited" \/ Awake)
  /\ ForceKill /\ GraceOver
  /\ Goto("tick")
  /\ UNCHANGED <<opts, now, lastOutput, watchdogVars, wakeAt, deadline, writer, result,
                 exitCode, childCode, approved, reader, signalFile, launches>>

Tick ==
  /\ At("tick")
  /\ \/ TickExhausts /\ Goto("idleKill") /\ UNCHANGED wakeAt
     \/ /\ TickInjects /\ writer
        /\ Goto("escGap") /\ SleepFor(EscGap) /\ UNCHANGED <<lastKeepalive, lastInjected>>
     \/ TickInjects /\ ~writer /\ Stamp /\ Goto("sleep") /\ SleepFor(1)
     \/ TickRecovers /\ Goto("sleep") /\ SleepFor(1)
     \/ TickIsQuiet /\ Goto("sleep") /\ SleepFor(1)
  /\ UNCHANGED <<opts, now, lastOutput, deadline, exitSent, writer, result, exitCode, childVars,
                 reader, signalFile, launches>>

KeepaliveTyped ==
  /\ At("escGap") /\ Awake
  /\ Stamp /\ Goto("sleep") /\ SleepFor(1)
  /\ UNCHANGED <<opts, now, lastOutput, retryCount, calmSince, deadline, exitSent, writer,
                 result, exitCode, childVars, reader, signalFile, launches>>

(* The poll interval is below the clock's resolution: the sleep may end       *)
(* before a second has passed.                                                *)
PollAgain ==
  /\ At("sleep") /\ Goto("poll")
  /\ UNCHANGED <<opts, now, lastOutput, watchdogVars, wakeAt, deadline, exitSent, writer,
                 result, exitCode, childVars, reader, signalFile, launches>>

IdleKill ==
  /\ At("idleKill")
  /\ KillChild /\ result' = "idle"
  /\ Goto("join") /\ SleepFor(JoinWait)
  /\ UNCHANGED <<opts, now, lastOutput, watchdogVars, deadline, exitSent, writer, exitCode,
                 childCode, approved, reader, signalFile, launches>>

JoinReader ==
  /\ At("join") /\ (~reader \/ Awake)
  /\ Goto("exit")
  /\ UNCHANGED <<opts, now, lastOutput, watchdogVars, wakeAt, deadline, exitSent, writer,
                 result, exitCode, childVars, reader, signalFile, launches>>

(* Mutant: a failing child that was prompted is reported as 122 too.          *)
ExitOfPrompted == IF exitSent THEN 0 ELSE IF Unrecovered(exitSent) THEN 122 ELSE childCode

ExitOfChild ==
  IF exitSent THEN 0 ELSE IF Unrecovered(exitSent) /\ childCode = 0 THEN 122 ELSE childCode

Exit ==
  /\ At("exit") /\ Goto("done")
  /\ exitCode' = CASE result = "exited"  -> ExitOfChild
                   [] result = "timeout" -> 124
                   [] result = "idle"    -> 125
                   [] OTHER              -> 1
  /\ UNCHANGED <<opts, now, lastOutput, watchdogVars, wakeAt, deadline, exitSent, writer,
                 result, childVars, reader, signalFile, launches>>

-----------------------------------------------------------------------------
(* Around it.                                                                 *)

(* The loop's own check for child exit, deadline and signal is suspended      *)
(* while it sleeps; only then does the clock move.                            *)
PassTime ==
  /\ lpc \in {"sleep", "escGap", "grace", "join"}
  /\ now < wakeAt /\ now < MaxTime
  /\ now' = now + 1
  /\ UNCHANGED <<opts, lastOutput, watchdogVars, loopVars, childVars, reader, signalFile,
                 launches>>

Echoes == At("escGap") \/ (lastKeepalive # Never /\ ~OutputPastGrace(lastKeepalive, now))

(* The reader thread reads output of the child, or what the terminal echoes.  *)
ReaderReads ==
  /\ reader /\ ~At("done")
  /\ Talkative \/ Echoes
  /\ lastOutput' = now
  /\ UNCHANGED <<opts, now, watchdogVars, loopVars, childVars, reader, signalFile, launches>>

(* At the end of the child's output, at an error, or when stdout is broken.   *)
ReaderStops ==
  /\ reader /\ reader' = FALSE
  /\ UNCHANGED <<opts, now, lastOutput, watchdogVars, loopVars, childVars, signalFile,
                 launches>>

(* A stop hook of the child approves: heartbeat-stop touches --signal-file.   *)
(* That the touch may fail, with a warning, is that this step is not taken.   *)
HookApproves ==
  /\ child \in {"running", "termed"} /\ opts.exitSignal
  /\ EarlyHook \/ ~At("clean")
  /\ signalFile' = TRUE /\ approved' = TRUE
  /\ UNCHANGED <<opts, now, lastOutput, watchdogVars, loopVars, child, childCode, reader,
                 launches>>

(* By itself with a code of its own, by a signal with code 1.                 *)
ChildExits ==
  /\ Alive /\ child' = "exited"
  /\ \/ child # "killed" /\ childCode' \in Codes
     \/ child # "running" /\ childCode' = 1
  /\ UNCHANGED <<opts, now, lastOutput, watchdogVars, loopVars, approved, reader, signalFile,
                 launches>>

(* The next launch, after this one ended or died: only the file is left.  The *)
(* old child is taken to be gone with its terminal, and its hooks with it.    *)
Relaunch ==
  /\ ~At("spawn") /\ launches < MaxLaunches
  /\ launches' = launches + 1
  /\ opts' \in Options /\ now' = 0 /\ lastOutput' = 0
  /\ retryCount' = 0 /\ lastKeepalive' = Never /\ calmSince' = 0 /\ lastInjected' = Never
  /\ Goto("spawn") /\ wakeAt' = 0 /\ deadline' = 0
  /\ exitSent' = FALSE /\ writer' = FALSE /\ result' = "none" /\ exitCode' = NoCode
  /\ child' = "none" /\ childCode' = 0 /\ approved' = FALSE
  /\ reader' = FALSE
  /\ UNCHANGED signalFile

LoopStep ==
  \/ Spawn \/ RemoveStaleSignal \/ TryWait \/ CheckDeadline \/ CheckSignal \/ EndGrace
  \/ Tick \/ KeepaliveTyped \/ PollAgain \/ IdleKill \/ JoinReader \/ Exit

Next ==
  \/ LoopStep \/ PassTime
  \/ ReaderReads \/ ReaderStops \/ HookApproves \/ ChildExits
  \/ Relaunch

Spec == Init /\ [][Next]_vars

(* The loop goes on, the clock runs though the loop sleeps only now and then, *)
(* and a child that was sent SIGKILL dies.                                    *)
Fairness ==
  /\ WF_vars(LoopStep)
  /\ SF_vars(PassTime)
  /\ WF_vars(child = "killed" /\ ChildExits)

FairSpec == Spec /\ Fairness

-----------------------------------------------------------------------------
(* Safety.                                                                    *)

(* The session is terminated on a signal of its own hook, never on a file     *)
(* that an earlier launch left behind (pty.rs:518-524).                       *)
SignalIsOwn == exitSent \/ At("grace") => approved

(* A child that ends by itself with 0 is reported as a success exactly when   *)
(* it showed life after the last keepalive that was typed into it, whatever   *)
(* the poll loop credited before (pty.rs:322-340, launch.rs:186-195).         *)
ZeroIsTrusted ==
  At("done") /\ result = "exited" /\ ~exitSent /\ childCode = 0 =>
    (exitCode = 0 <=> lastInjected = Never \/ OutputPastGrace(lastInjected, lastOutput))

(* The watchdog kills a session only when --max-idle-retries keepalives, each *)
(* after a full --idle-timeout of silence, and one more timeout brought no    *)
(* life back (pty.rs:454-458, the defect that CHANGELOG 0.5.6 describes).     *)
PatientKill ==
  At("idleKill") =>
    /\ retryCount = opts.maxRetries
    /\ now >= calmSince + (retryCount + 1) * opts.idleTimeout

(* The exit signal means success, however the child died (README.md:102,      *)
(* launch.rs:178-181), unless heartbeat-launch itself fails.                  *)
SignalMeansZero == At("done") /\ exitSent /\ result # "error" => exitCode = 0

(* The loop never loses the signal of the session it runs: it is still there  *)
(* or was handled (launch.rs:48-52), if no hook approves between the spawn    *)
(* and the removal of a stale file.                                           *)
SignalNotLost ==
  approved /\ lpc \in {"poll", "deadline", "signal", "tick", "escGap", "sleep"}
    => signalFile \/ exitSent

(* Every step keeps what README.md:102 promises a launcher script of the exit *)
(* codes, but for one: after the exit signal was handled the deadline or the  *)
(* idle tick may still turn the 0 into 124 or 125 (pty.rs:559, 646; see       *)
(* SignalMeansZero), with its option on and the child killed before.          *)
LifeOf ==
  CASE child = "none"                -> "none"
    [] child \in {"running", "termed"} -> "alive"
    [] child = "killed"              -> "killed"
    [] child = "exited"              -> "dead"

Promise == INSTANCE Supervision
             WITH Running   <- NoCode,
                  Own       <- Codes \cup {1},
                  life      <- LifeOf,
                  own       <- childCode,
                  prompted  <- lastInjected # Never,
                  signalled <- exitSent,
                  watched   <- {w \in {"timeout", "idle"} :
                                  IF w = "timeout" THEN opts.timeout > 0
                                                   ELSE opts.idleTimeout > 0},
                  code      <- exitCode

KeepsPromise == Promise!PromiseSpecButOverruled

-----------------------------------------------------------------------------
(* Liveness.                                                                  *)

(* A session that only echoes what is typed into it is ended by the watchdog, *)
(* and any session by --timeout.                                              *)
SessionEnds ==
  At("poll") /\ (opts.timeout > 0 \/ (opts.idleTimeout > 0 /\ ~Talkative)) ~> At("done")

(* A session whose hook approved the stop is terminated, and so is one that   *)
(* ignores SIGTERM.                                                           *)
ApprovedSessionEnds == approved /\ ~At("clean") ~> At("done")
=============================================================================
