------------------------------ MODULE PtyRunInv ------------------------------
(* The inductive invariant behind PtyRun's safety properties.                 *)
EXTENDS PtyRun

(* After a typed keepalive either that keepalive is outstanding, or output    *)
(* past its grace window was seen.                                            *)
CreditInv ==
  /\ lastKeepalive # Never => lastInjected = lastKeepalive
  /\ lastKeepalive = Never /\ lastInjected # Never => OutputPastGrace(lastInjected, lastOutput)

(* The time that retryCount keepalives and their timeouts took at least.      *)
Patience == calmSince + retryCount * opts.idleTimeout

PatienceInv ==
  /\ retryCount > 0 /\ ~At("escGap") => lastKeepalive # Never /\ lastKeepalive >= Patience
  /\ At("escGap") => retryCount > 0 /\ now >= Patience
  /\ PatientKill

(* Once the loop is entered, a signal file is one the child's hook touched.   *)
SignalInv ==
  /\ lpc \notin {"spawn", "clean", "exit", "done"} /\ opts.exitSignal /\ signalFile => approved
  /\ exitSent \/ At("grace") => approved

ExitInv ==
  /\ result # "none" => lpc \in {"join", "exit", "done"}
  /\ result = "exited" => child = "exited"
  /\ At("done") /\ result = "exited" => exitCode = ExitOfChild

(* A run that gave its child up was told to and has killed it, and there is   *)
(* no exit code before the end.                                               *)
PromiseInv ==
  /\ At("spawn") => child = "none"
  /\ lpc \notin {"spawn", "exit", "done"} => child # "none"
  /\ ~At("done") => exitCode = NoCode
  /\ At("grace") => ~exitSent
  /\ At("idleKill") => opts.idleTimeout > 0
  /\ result = "timeout" => opts.timeout > 0 /\ child \in {"killed", "exited"}
  /\ result = "idle" => opts.idleTimeout > 0 /\ child \in {"killed", "exited"}

(* If no hook approves before the stale signal file is removed, the signal is *)
(* there until the loop sees it.                                              *)
KeptInv ==
  /\ At("spawn") => child = "none"
  /\ lpc \in {"spawn", "clean"} => ~approved
  /\ SignalNotLost

RunInv == RunTypeOK /\ CreditInv /\ PatienceInv /\ SignalInv /\ ExitInv /\ PromiseInv
=============================================================================
