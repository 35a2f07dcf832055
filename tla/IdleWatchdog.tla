----------------------------- MODULE IdleWatchdog -----------------------------
(* The idle watchdog of heartbeat-launch: IdleState and tick_idle of          *)
(* src/src/pty.rs.  It types a keepalive into a session whose terminal has    *)
(* been silent for too long, and gives up after a number of them.             *)
(* Time is a count of seconds since the launch.                               *)
EXTENDS Naturals

CONSTANTS Grace,    \* KEEPALIVE_GRACE_SECS
          Options,  \* the command lines heartbeat-launch may be started with
          Never     \* no keepalive is outstanding: Option::None

Option == [timeout : Nat, idleTimeout : Nat, maxRetries : Nat, exitSignal : BOOLEAN]

ASSUME WatchdogAssumption ==
  /\ Grace \in Nat
  /\ Options \subseteq Option
  /\ Never \notin Nat

VARIABLES opts,           \* the command line
          now,            \* the clock
          lastOutput,     \* when the reader thread last saw output
          retryCount,     \* keepalives since the session last showed life
          lastKeepalive,  \* when the last of them was typed, or Never
          calmSince,      \* ghost: the last activity when retryCount was last 0
          lastInjected    \* ghost: when any keepalive was last typed, or Never

watchdogVars == <<retryCount, lastKeepalive, calmSince, lastInjected>>

WatchdogTypeOK ==
  /\ opts \in Options
  /\ now \in Nat /\ lastOutput \in 0..now
  /\ retryCount \in 0..opts.maxRetries
  /\ lastKeepalive \in (0..now) \cup {Never}
  /\ calmSince \in 0..now
  /\ lastInjected \in (0..now) \cup {Never}

(* The watchdog of a fresh launch.                                            *)
WatchdogStarts ==
  /\ retryCount = 0 /\ lastKeepalive = Never
  /\ calmSince = 0 /\ lastInjected = Never

(* Mutant: the echo of the keepalive counts as life.                          *)
OutputAfter(keepalive, output) == output >= keepalive

(* Output that comes while the terminal still echoes the keepalive does not   *)
(* count as life.                                                             *)
OutputPastGrace(keepalive, output) == output >= keepalive + Grace

(* Mutant: typing a keepalive does not restart the idle timer.                *)
LastOutputOnly == lastOutput

LastActivity ==
  IF lastKeepalive # Never /\ lastKeepalive > lastOutput THEN lastKeepalive ELSE lastOutput

Silent == opts.idleTimeout > 0 /\ now - LastActivity >= opts.idleTimeout

Calm == calmSince' = IF retryCount = 0 THEN LastActivity ELSE calmSince

(* IdleTick::Exhausted                                                        *)
TickExhausts ==
  /\ Silent /\ retryCount >= opts.maxRetries
  /\ Calm
  /\ UNCHANGED <<retryCount, lastKeepalive, lastInjected>>

(* Mutant: one keepalive too many.                                            *)
TickInjectsOnceMore ==
  /\ Silent /\ retryCount <= opts.maxRetries
  /\ retryCount' = retryCount + 1
  /\ Calm

(* IdleTick::KeepaliveInjected: the attempt is counted before the keepalive   *)
(* is typed, and stamped when that is done.                                   *)
TickInjects ==
  /\ Silent /\ retryCount < opts.maxRetries
  /\ retryCount' = retryCount + 1
  /\ Calm

Stamp == lastKeepalive' = now /\ lastInjected' = now

(* Mutant: the mere passage of time counts as recovery.                       *)
RevivedByTime ==
  /\ opts.idleTimeout > 0 /\ ~Silent /\ retryCount > 0
  /\ lastKeepalive # Never => now >= lastKeepalive + Grace

(* The session shows life again.                                              *)
Revived ==
  /\ opts.idleTimeout > 0 /\ ~Silent /\ retryCount > 0
  /\ lastKeepalive # Never => OutputPastGrace(lastKeepalive, lastOutput)

(* IdleTick::Recovered                                                        *)
TickRecovers ==
  /\ Revived
  /\ retryCount' = 0 /\ lastKeepalive' = Never
  /\ UNCHANGED <<calmSince, lastInjected>>

(* IdleTick::Ok                                                               *)
TickIsQuiet == ~Silent /\ ~Revived /\ UNCHANGED watchdogVars

(* Mutant: judged by the retry counter, which the last tick may not have reset. *)
UnrecoveredByCount(exitSent) == ~exitSent /\ retryCount > 0

(* is_unrecovered_keepalive: did the child exit with a keepalive outstanding? *)
Unrecovered(exitSent) ==
  ~exitSent /\ lastKeepalive # Never /\ ~OutputPastGrace(lastKeepalive, lastOutput)
=============================================================================
