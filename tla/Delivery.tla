------------------------------- MODULE Delivery -------------------------------
(* What the message path promises, without the artifacts that keep it: a      *)
(* queue of bytes and a cursor.  Only the entry at the cursor is ever settled *)
(* (answered, dead-lettered or dropped), the cursor passes nothing but        *)
(* settled entries and whitespace, and it never comes back.                   *)
EXTENDS Naturals, Sequences

CONSTANTS Byte, Blank

VARIABLES queue,   \* the bytes written so far
          cursor,  \* everything before it is done with
          done     \* the ranges <<from, to>> of the entries settled so far

deliveryVars == <<queue, cursor, done>>

Passable(i) == queue[i] \in Blank \/ \E r \in done : i \in (r[1] + 1)..r[2]

DeliveryInit == queue = <<>> /\ cursor = 0 /\ done = {}

Grow ==
  /\ queue' \in Seq(Byte)
  /\ Len(queue') > Len(queue)
  /\ SubSeq(queue', 1, Len(queue)) = queue
  /\ UNCHANGED <<cursor, done>>

(* The entry at the cursor is settled; a policy that discards it passes it in *)
(* the same step.                                                             *)
Settle ==
  /\ \E to \in (cursor + 1)..Len(queue) :
       done' = done \cup {<<cursor, to>>} /\ cursor' \in {cursor, to}
  /\ UNCHANGED queue

Advance ==
  /\ cursor' \in (cursor + 1)..Len(queue)
  /\ \A i \in (cursor + 1)..cursor' : Passable(i)
  /\ UNCHANGED <<queue, done>>

DeliveryNext == Grow \/ Settle \/ Advance

DeliverySpec == DeliveryInit /\ [][DeliveryNext]_deliveryVars
=============================================================================
