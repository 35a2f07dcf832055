--------------------------- MODULE PtyOutputProofs ---------------------------
(* Proofs about PtyOutput: what the reader thread forwards and stamps is      *)
(* complete when the run is judged, for terminals of any size, any number of  *)
(* processes that hold them, and any amount of output.                        *)
EXTENDS PtyOutput, TLAPS

(* Between two chunks everything that was taken is stamped and forwarded.     *)
CaughtUp ==
  /\ rpc # "stamp" => lastOutput = taken
  /\ rpc \in {"check", "read"} => forwarded = taken \/ broken

(* A reader that nothing stopped finished because there was no more to read.  *)
FinishedAtEnd ==
  rpc = "finished" /\ Undisturbed /\ ~stop =>
    holders = {} /\ taken = written /\ forwarded = taken

(* The stop flag and the dropped master only come after the drain window, and *)
(* without the flag only when the reader finished.                            *)
MainInOrder ==
  /\ mpc \in {"poll", "drain"} => master /\ ~stop
  /\ mpc \in {"judge", "over"} /\ ~stop => rpc = "finished"

OutputInv == TypeOK /\ CaughtUp /\ FinishedAtEnd /\ MainInOrder /\ TrailingOutputCounts

LEMMA OutputInit == Init => OutputInv
<1> SUFFICES ASSUME Init PROVE OutputInv OBVIOUS
<1>1. holders \subseteq Process BY DEF Init
<1>a. written = 0 /\ taken = 0 /\ lastOutput = 0 /\ forwarded = 0 /\ judged = 0 BY DEF Init
<1>b. /\ broken \in BOOLEAN /\ readFailed \in BOOLEAN
      /\ stop \in BOOLEAN /\ master \in BOOLEAN
  BY DEF Init
<1>c. rpc = "check" /\ mpc = "poll" BY DEF Init
<1>2. TypeOK BY <1>1, <1>a, <1>b, <1>c, OutputAssumption DEF TypeOK, Chunks
<1>3. CaughtUp /\ FinishedAtEnd /\ MainInOrder /\ TrailingOutputCounts
  BY DEF Init, CaughtUp, FinishedAtEnd, MainInOrder, TrailingOutputCounts
<1> QED BY <1>2, <1>3 DEF OutputInv

LEMMA TerminalSteps ==
  ASSUME OutputInv, WriteChunk \/ (\E p \in Process : Exits(p)) \/ ConsumerCloses
  PROVE  OutputInv'
<1> USE OutputAssumption
    DEF OutputInv, TypeOK, Chunks, CaughtUp, FinishedAtEnd, MainInOrder, TrailingOutputCounts,
        readerVars, mainVars, terminalVars, troubles, Undisturbed
<1>1. CASE WriteChunk
  BY <1>1 DEF WriteChunk, Buffered
<1>2. ASSUME NEW p \in Process, Exits(p) PROVE OutputInv'
  BY <1>2 DEF Exits
<1>3. CASE ConsumerCloses
  BY <1>3 DEF ConsumerCloses
<1> QED BY <1>1, <1>2, <1>3

LEMMA ReaderSteps == ASSUME OutputInv, ReaderStep PROVE OutputInv'
<1> USE OutputAssumption
    DEF OutputInv, TypeOK, Chunks, CaughtUp, FinishedAtEnd, MainInOrder, TrailingOutputCounts,
        readerVars, mainVars, terminalVars, troubles, Undisturbed, ReaderAt
<1>1. CASE CheckStop
  BY <1>1 DEF CheckStop
<1>2. CASE Read
  <2>1. taken' \in Nat /\ taken < taken' /\ taken' <= written BY <1>2 DEF Read
  <2>a. rpc' = "stamp" /\ UNCHANGED <<holders, written, lastOutput, forwarded, judged>>
    BY <1>2 DEF Read
  <2>b. UNCHANGED <<broken, readFailed, stop, master, mpc>> BY <1>2 DEF Read
  <2>c. (taken \in 0..written)' BY <2>1, <2>a
  <2>d. (written - taken <= Capacity)'
    <3>1. written \in Nat /\ taken \in Nat /\ Capacity \in Nat OBVIOUS
    <3>2. written - taken <= Capacity OBVIOUS
    <3>3. written' = written BY <2>a
    <3>4. \A w, t, u, c \in Nat : w - t <= c /\ t < u => w - u <= c OBVIOUS
    <3> QED BY ONLY <2>1, <3>1, <3>2, <3>3, <3>4
  <2>e. (lastOutput \in 0..taken)' BY <2>1, <2>a
  <2>f. (/\ broken \in BOOLEAN /\ readFailed \in BOOLEAN
         /\ stop \in BOOLEAN /\ master \in BOOLEAN)' BY <2>b
  <2>2. TypeOK' BY <2>a, <2>b, <2>c, <2>d, <2>e, <2>f
  <2> QED BY <1>2, <2>2 DEF Read
<1>3. CASE ReadInterrupted
  BY <1>3 DEF ReadInterrupted, TryAgain
<1>4. CASE ReadEnds
  BY <1>4 DEF ReadEnds, Buffered
<1>5. CASE ReadFails
  BY <1>5 DEF ReadFails
<1>6. CASE Stamp
  BY <1>6 DEF Stamp
<1>7. CASE Forward
  BY <1>7 DEF Forward
<1> QED BY <1>1, <1>2, <1>3, <1>4, <1>5, <1>6, <1>7 DEF ReaderStep

LEMMA MainSteps == ASSUME OutputInv, MainStep PROVE OutputInv'
<1> USE OutputAssumption
    DEF OutputInv, TypeOK, Chunks, CaughtUp, FinishedAtEnd, MainInOrder, TrailingOutputCounts,
        readerVars, mainVars, terminalVars, troubles, Undisturbed, MasterWhileDraining
<1>1. CASE SeesExit
  BY <1>1 DEF SeesExit
<1>2. CASE Kill
  BY <1>2 DEF Kill
<1>3. CASE JoinFinished
  BY <1>3 DEF JoinFinished
<1>4. CASE JoinAbandons
  BY <1>4 DEF JoinAbandons
<1>5. CASE Judge
  BY <1>5 DEF Judge
<1> QED BY <1>1, <1>2, <1>3, <1>4, <1>5 DEF MainStep

(* What reader thread and main thread know of each other holds in every       *)
(* reachable state (spawn_basic_reader, join_reader, the end of pty::run).    *)
THEOREM OutputInductive == Spec => []OutputInv
<1>1. ASSUME OutputInv, [Next]_vars PROVE OutputInv'
  <2>1. CASE UNCHANGED vars
    BY <1>1, <2>1
       DEF vars, terminalVars, readerVars, mainVars, troubles, Undisturbed, OutputInv, TypeOK,
           Chunks, CaughtUp, FinishedAtEnd, MainInOrder, TrailingOutputCounts
  <2>2. CASE Next
    BY <1>1, <2>2, TerminalSteps, ReaderSteps, MainSteps DEF Next
  <2> QED BY <1>1, <2>1, <2>2
<1> QED BY <1>1, OutputInit, PTL DEF Spec

(* Every variable stays in its type: the reader never runs ahead of the       *)
(* child, nor the stamps and the forwarded output ahead of the reader.        *)
THEOREM OutputTypeCorrect == Spec => []TypeOK
<1>1. OutputInv => TypeOK BY DEF OutputInv
<1> QED BY <1>1, OutputInductive, PTL

(* When the reader finished undisturbed within the drain window, everything   *)
(* that was ever written to the terminal was forwarded to stdout              *)
(* (join_reader).                                                             *)
THEOREM OutputIsComplete == Spec => []OutputComplete
<1>1. OutputInv => OutputComplete
  BY DEF OutputInv, TypeOK, FinishedAtEnd, MainInOrder, OutputComplete
<1> QED BY <1>1, OutputInductive, PTL

(* Then the run is judged by the last output of all, also when it was drained *)
(* after the child's exit (final_output_at).                                  *)
THEOREM TrailingOutputIsCounted == Spec => []TrailingOutputCounts
<1>1. OutputInv => TrailingOutputCounts BY DEF OutputInv
<1> QED BY <1>1, OutputInductive, PTL
=============================================================================
