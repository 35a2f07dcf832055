--------------------------- MODULE AtomicArtifacts ---------------------------
(* What tmp + fsync + rename is meant to give: each artifact is a register    *)
(* that holds a whole value or nothing and changes at once, and a loss of     *)
(* power takes all of them back together, to a moment since the last commit.  *)
EXTENDS Naturals

CONSTANTS Artifact, Absent,
          Holds  \* Holds[f]: the values artifact f may have

VARIABLES view,  \* the artifacts
          undo   \* what a loss of power may make of them

atomicVars == <<view, undo>>

Whole(v) == \A f \in Artifact : v[f] \in Holds[f] \cup {Absent}

AtomicInit == view = [f \in Artifact |-> Absent] /\ undo = {view}

Put ==
  /\ Whole(view')
  /\ \E f \in Artifact : view' = [view EXCEPT ![f] = view'[f]]
  /\ undo' = undo \cup {view'}

Commit == undo' = {view} /\ UNCHANGED view

Lose == view' \in undo /\ undo' = {view'}

AtomicNext == Put \/ Commit \/ Lose

AtomicSpec == AtomicInit /\ [][AtomicNext]_atomicVars
=============================================================================
