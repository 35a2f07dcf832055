------------------------------ MODULE PtyOutput ------------------------------
(* How the child's output reaches heartbeat-launch's stdout and the watchdog: *)
(* the reader thread (spawn_basic_reader), join_reader, and the main thread   *)
(* that judges the run by what the reader stamped (src/src/pty.rs).  Output   *)
(* is counted in chunks; chunk n is the n-th that was written.                *)
EXTENDS Naturals

CONSTANTS Capacity,   \* how many chunks the terminal buffers
          MaxChunks,  \* bound: how many chunks are written
          Process     \* who may hold the terminal: "child" and what it forked

ASSUME OutputAssumption ==
  /\ Capacity \in Nat \ {0} /\ MaxChunks \in Nat
  /\ "child" \in Process

VARIABLES holders,    \* the processes that have the slave side open
          written,    \* chunks written to it
          taken,      \* chunks the reader thread has read from the master
          lastOutput, \* the chunk after which last_output was stamped
          forwarded,  \* chunks written to stdout
          broken,     \* has the consumer of stdout closed the pipe?
          readFailed, \* ghost: did a read end the thread with an error?
          rpc,        \* where the reader thread stands
          mpc,        \* where the main thread stands
          stop,       \* the stop flag
          master,     \* does the main thread hold the master side?
          judged      \* final_output_at: the chunk the run is judged by

terminalVars == <<holders, written>>
readerVars == <<taken, lastOutput, forwarded, rpc>>
mainVars == <<mpc, stop, master, judged>>
troubles == <<broken, readFailed>>
vars == <<terminalVars, readerVars, mainVars, troubles>>

Chunks == 0..MaxChunks

TypeOK ==
  /\ holders \subseteq Process
  /\ written \in Chunks /\ taken \in 0..written /\ written - taken <= Capacity
  /\ lastOutput \in 0..taken /\ forwarded \in 0..lastOutput
  /\ broken \in BOOLEAN /\ readFailed \in BOOLEAN
  /\ stop \in BOOLEAN /\ master \in BOOLEAN
  /\ rpc \in {"check", "read", "stamp", "forward", "finished"}
  /\ mpc \in {"poll", "drain", "judge", "over"}
  /\ judged \in 0..lastOutput

Init ==
  /\ holders \in {h \in SUBSET Process : "child" \in h}
  /\ written = 0 /\ taken = 0 /\ lastOutput = 0 /\ forwarded = 0
  /\ broken = FALSE /\ readFailed = FALSE
  /\ stop = FALSE /\ master = TRUE
  /\ rpc = "check" /\ mpc = "poll" /\ judged = 0

-----------------------------------------------------------------------------
(* The terminal and those who use it.                                         *)

Buffered == written - taken

(* A write to a full terminal blocks.                                         *)
WriteChunk ==
  /\ holders # {} /\ Buffered < Capacity /\ written < MaxChunks
  /\ written' = written + 1
  /\ UNCHANGED <<holders, readerVars, mainVars, troubles>>

Exits(p) ==
  /\ p \in holders /\ holders' = holders \ {p}
  /\ UNCHANGED <<written, readerVars, mainVars, troubles>>

ConsumerCloses ==
  /\ broken' = TRUE
  /\ UNCHANGED <<terminalVars, readerVars, mainVars, readFailed>>

-----------------------------------------------------------------------------
(* The reader thread.                                                         *)

ReaderAt(label) == rpc = label /\ mpc # "over"

CheckStop ==
  /\ ReaderAt("check")
  /\ rpc' = IF stop THEN "finished" ELSE "read"
  /\ UNCHANGED <<taken, lastOutput, forwarded, terminalVars, mainVars, troubles>>

(* read blocks until there is something, and takes what is there or less.     *)
Read ==
  /\ ReaderAt("read")
  /\ taken' \in (taken + 1)..written
  /\ rpc' = "stamp"
  /\ UNCHANGED <<lastOutput, forwarded, terminalVars, mainVars, troubles>>

(* Mutant: any error of read ends the thread.                                 *)
GiveUp == "finished"

(* ErrorKind::Interrupted, of a read that blocks too.                         *)
TryAgain == "check"

ReadInterrupted ==
  /\ ReaderAt("read")
  /\ rpc' = TryAgain
  /\ UNCHANGED <<taken, lastOutput, forwarded, terminalVars, mainVars, troubles>>

(* Everything was read and nobody holds the slave side any more; or the main  *)
(* thread closed the master, which ends a blocked read on some systems.       *)
ReadEnds ==
  /\ ReaderAt("read")
  /\ (Buffered = 0 /\ holders = {}) \/ ~master
  /\ rpc' = "finished"
  /\ UNCHANGED <<taken, lastOutput, forwarded, terminalVars, mainVars, troubles>>

(* Any other error, whatever was still to be read.                            *)
ReadFails ==
  /\ ReaderAt("read")
  /\ rpc' = "finished" /\ readFailed' = TRUE
  /\ UNCHANGED <<taken, lastOutput, forwarded, terminalVars, mainVars, broken>>

(* Mutant: try_lock, and no stamp when the main thread holds the lock.        *)
StampIfFree ==
  /\ ReaderAt("stamp")
  /\ lastOutput' \in {lastOutput, taken}
  /\ rpc' = "forward"
  /\ UNCHANGED <<taken, forwarded, terminalVars, mainVars, troubles>>

Stamp ==
  /\ ReaderAt("stamp")
  /\ lastOutput' = taken
  /\ rpc' = "forward"
  /\ UNCHANGED <<taken, forwarded, terminalVars, mainVars, troubles>>

(* A stdout that is broken stops the thread for good, at the first write that *)
(* reaches it; the error of flush is dropped, and the thread goes on.         *)
Forward ==
  /\ ReaderAt("forward")
  /\ \/ ~broken /\ forwarded' = taken /\ rpc' = "check"
     \/ broken /\ rpc' \in {"check", "finished"} /\ UNCHANGED forwarded
  /\ UNCHANGED <<taken, lastOutput, terminalVars, mainVars, troubles>>

ReaderStep ==
  \/ CheckStop \/ Read \/ ReadInterrupted \/ ReadEnds \/ ReadFails \/ Stamp \/ Forward

-----------------------------------------------------------------------------
(* The main thread.                                                           *)

(* Mutant: the master is dropped before the reader has drained it.            *)
MasterDropped == FALSE

(* join_reader starts with the master still open.                             *)
MasterWhileDraining == master

(* The child has exited.                                                      *)
SeesExit ==
  /\ mpc = "poll" /\ "child" \notin holders
  /\ mpc' = "drain" /\ master' = MasterWhileDraining
  /\ UNCHANGED <<stop, judged, terminalVars, readerVars, troubles>>

(* The deadline or the watchdog ends the run: SIGKILL to the process group,   *)
(* which what the child forked may have left.                                 *)
Kill ==
  /\ mpc = "poll"
  /\ holders' \in SUBSET (holders \ {"child"})
  /\ mpc' = "drain" /\ master' = MasterWhileDraining
  /\ UNCHANGED <<stop, judged, written, readerVars, troubles>>

(* Mutant: the join does not wait.                                            *)
JoinAtOnce ==
  /\ mpc = "drain"
  /\ mpc' = "judge" /\ master' = FALSE
  /\ UNCHANGED <<stop, judged, terminalVars, readerVars, troubles>>

JoinFinished ==
  /\ mpc = "drain" /\ rpc = "finished"
  /\ mpc' = "judge" /\ master' = FALSE
  /\ UNCHANGED <<stop, judged, terminalVars, readerVars, troubles>>

(* Mutant: join_reader waits for the reader as long as it takes.              *)
NoDeadline == FALSE

(* Two seconds have passed.                                                   *)
DeadlineElapses == rpc # "finished"

JoinAbandons ==
  /\ mpc = "drain" /\ DeadlineElapses
  /\ mpc' = "judge" /\ stop' = TRUE /\ master' = FALSE
  /\ UNCHANGED <<judged, terminalVars, readerVars, troubles>>

(* final_output_at; the process exits, and the reader thread with it.         *)
Judge ==
  /\ mpc = "judge" /\ mpc' = "over"
  /\ judged' = lastOutput
  /\ UNCHANGED <<stop, master, terminalVars, readerVars, troubles>>

MainStep == SeesExit \/ Kill \/ JoinFinished \/ JoinAbandons \/ Judge

Next ==
  \/ WriteChunk \/ (\E p \in Process : Exits(p)) \/ ConsumerCloses
  \/ ReaderStep \/ MainStep

Spec == Init /\ [][Next]_vars

(* Both threads run, the consumer of stdout reads or closes, a signal does    *)
(* not interrupt every read, and the poll loop sees the exit of the child.    *)
(* It owes no kill, reads need not fail, and the join may end either way.     *)
Fairness ==
  /\ WF_vars(CheckStop) /\ SF_vars(Read) /\ SF_vars(ReadEnds) /\ WF_vars(Stamp)
  /\ WF_vars(Forward)
  /\ WF_vars(SeesExit) /\ WF_vars(JoinFinished \/ JoinAbandons) /\ WF_vars(Judge)

FairSpec == Spec /\ Fairness

-----------------------------------------------------------------------------
(* What ends the reader thread early: a broken stdout, or a read that fails   *)
(* (pty.rs:287, 293).                                                         *)
Undisturbed == ~broken /\ ~readFailed

(* If the reader thread finished undisturbed within the drain window, all     *)
(* that the child and what it forked ever wrote was forwarded: the master is  *)
(* not dropped under a reader that still drains (pty.rs:107-118).             *)
OutputComplete ==
  mpc \in {"judge", "over"} /\ ~stop /\ Undisturbed => forwarded = written

(* Output that is drained after the child exits still counts as life: the run *)
(* is judged by the last chunk and not by the last one before the exit        *)
(* (pty.rs:50-54, 676).                                                       *)
TrailingOutputCounts ==
  mpc = "over" /\ ~stop /\ Undisturbed => judged = written

(* While the child runs, everything it writes is stamped as activity sooner   *)
(* or later and never blocks it for good, however often reads are             *)
(* interrupted, unless stdout is broken or a read fails (pty.rs:275-296).     *)
OutputIsSeen ==
  \A n \in 1..MaxChunks :
    written >= n /\ mpc = "poll" ~> lastOutput >= n \/ ~Undisturbed \/ mpc # "poll"

(* A run whose child exited ends, though another process may hold the         *)
(* terminal open and stdout may be broken (pty.rs:120-122).                   *)
RunEnds == "child" \notin holders ~> mpc = "over"
=============================================================================
