----------------------------- MODULE Supervision -----------------------------
(* What heartbeat-launch promises a launcher script (src/README.md:102): the  *)
(* code it exits with is the child's own, or says why it is not; a child that *)
(* is given up was killed first; and once the exit signal was handled the     *)
(* code is 0, unless heartbeat-launch itself failed.  Overruled is the one    *)
(* step that README:102 rules out and the program takes.                      *)
EXTENDS Naturals

CONSTANTS Running,  \* the exit code of a heartbeat-launch that has not exited
          Own       \* the exit codes of children

VARIABLES life,       \* the child
          own,        \* its exit code
          prompted,   \* was a keepalive typed into it?
          signalled,  \* was its exit signal handled?
          watched,    \* what may give it up: "timeout", "idle"
          code        \* the exit code

promiseVars == <<life, own, prompted, signalled, watched, code>>

Fresh ==
  /\ life = "none" /\ own = 0
  /\ prompted = FALSE /\ signalled = FALSE
  /\ watched \in SUBSET {"timeout", "idle"} /\ code = Running

Begin == life = "none" /\ life' = "alive" /\ UNCHANGED <<own, prompted, signalled, watched, code>>

Prompt == prompted' = TRUE /\ UNCHANGED <<life, own, signalled, watched, code>>

(* The exit signal ends the child, by SIGTERM or else by SIGKILL.             *)
Signal ==
  /\ life # "none" /\ ~signalled /\ signalled' = TRUE
  /\ life' = IF life = "dead" THEN "dead" ELSE "killed"
  /\ UNCHANGED <<own, prompted, watched, code>>

Kill ==
  /\ life = "alive" /\ life' = "killed"
  /\ UNCHANGED <<own, prompted, signalled, watched, code>>

Die ==
  /\ life \in {"alive", "killed"} /\ life' = "dead" /\ own' \in Own
  /\ UNCHANGED <<prompted, signalled, watched, code>>

GivenUp(why) == why \in watched /\ life \in {"killed", "dead"}

Exit ==
  /\ code = Running
  /\ \/ life = "dead" /\ signalled /\ code' = 0
     \/ life = "dead" /\ ~signalled /\ code' = own
     \/ life = "dead" /\ ~signalled /\ own = 0 /\ prompted /\ code' = 122
     \/ ~signalled /\ GivenUp("timeout") /\ code' = 124
     \/ ~signalled /\ GivenUp("idle") /\ code' = 125
     \/ code' = 1
  /\ UNCHANGED <<life, own, prompted, signalled, watched>>

Launch == Fresh'

PromiseNext == Begin \/ Prompt \/ Signal \/ Kill \/ Die \/ Exit \/ Launch

PromiseSpec == Fresh /\ [][PromiseNext]_promiseVars

(* Not promised: the deadline or the idle tick still decides the code of a    *)
(* session whose exit signal was handled.                                     *)
Overruled ==
  /\ code = Running /\ signalled
  /\ \/ GivenUp("timeout") /\ code' = 124
     \/ GivenUp("idle") /\ code' = 125
  /\ UNCHANGED <<life, own, prompted, signalled, watched>>

PromiseSpecButOverruled == Fresh /\ [][PromiseNext \/ Overruled]_promiseVars
=============================================================================
