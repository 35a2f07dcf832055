--------------------------- MODULE ArtifactFilesInv ---------------------------
(* The inductive invariant behind the properties of ArtifactFiles: what every *)
(* directory the disk may come back to has in common, and what the files hold *)
(* between any two calls of an operation.                                     *)
EXTENDS ArtifactFiles

(* The directories the disk may come back to.                                 *)
Dirs == {journal[i] : i \in DOMAIN journal}

(* Every artifact is whole and safe on disk as soon as it has its name.       *)
Whole(d) == \A f \in Artifact : d[f] # Absent => d[f].synced /\ d[f].data # Torn

Passed(d, e) ==
  e \in answered \cup dropped \/ \E i \in DOMAIN DeadLetters(d) : DeadLetters(d)[i] = e

(* The entries up to v need no delivery any more.                             *)
PassedUpTo(d, v) == \A e \in 1..v : Passed(d, e)

Good(d) ==
  /\ DirectoryOK(d) /\ Whole(d)
  /\ PassedUpTo(d, Cursor(d))
  /\ d["inFlight"] # Absent => d["inFlight"].data <= Cursor(d) + 1
  /\ latest \in 0..(Cursor(d) + 1)

IsPrefix(s, t) == Len(s) <= Len(t) /\ \A i \in 1..Len(s) : t[i] = s[i]

(* Dead letters are only added from one directory of the journal to the next. *)
JournalInv ==
  /\ journal \in Seq(Dirs) /\ journal # <<>>
  /\ \A d \in Dirs : Good(d) /\ IsPrefix(DeadLetters(journal[1]), DeadLetters(d))
  /\ \A d \in Dirs : IsPrefix(DeadLetters(d), DeadLetters(dir))

-----------------------------------------------------------------------------
(* The operations under way.                                                  *)

From(calls, k) == SubSeq(calls, k, Len(calls))

(* The tmp file before the k-th call of WriteAtomically(f, v).                *)
TmpReady(f, v, k) ==
  /\ k \in 2..4 => dir[TmpOf[f]] # Absent
  /\ k \in 3..4 => dir[TmpOf[f]].data = v
  /\ k = 4 => dir[TmpOf[f]].synced

(* Before the k-th call of Acknowledge(v).                                    *)
Acknowledges(calls, v, k) ==
  /\ calls = From(Acknowledge(v), k)
  /\ k <= 4 => Cursor(dir) <= v /\ PassedUpTo(dir, v)
  /\ TmpReady("offset", v, k)
  /\ k >= 6 => ~Exists("inFlight")
  /\ k = 7 => ~Exists("responded")

(* Before the k-th call of DeadLetter(e), up to its Acknowledge(e).           *)
Buries(calls, e, k) ==
  /\ calls = From(WriteAtomically("deadLetter", Append(DeadLetters(dir), e)), k) \o Acknowledge(e)
  /\ e = Cursor(dir) + 1
  /\ TmpReady("deadLetter", Append(DeadLetters(dir), e), k)

Acknowledging(calls) == \E v \in 0..Entries : \E k \in 1..7 : Acknowledges(calls, v, k)

AcknowledgeInv == phase = "acknowledge" => Acknowledging(todo)

Burying(calls) == \E e \in Entry : \E k \in 1..4 : Buries(calls, e, k)

(* Before the first call of a recover: what comes after it is ready to start. *)
Sweeping(calls) ==
  \E rest \in {Tail(calls)} :
    /\ calls = <<Unlink(TmpOf["deadLetter"])>> \o rest
    /\ Acknowledging(rest) \/ \E e \in Entry : Buries(rest, e, 1)

RecoverInv == phase = "recover" => Acknowledging(todo) \/ Burying(todo) \/ Sweeping(todo)

(* Once its sync is made no directory of the journal has an older cursor: the *)
(* acknowledgement of the entry before is safe.                               *)
Delivers(e, k) ==
  /\ todo = From(Deliver(e), k)
  /\ e = Cursor(dir) + 1
  /\ TmpReady("inFlight", e, k)
  /\ k >= 4 => \A d \in Dirs : Cursor(d) = Cursor(dir)
  /\ k >= 5 => Exists("inFlight") /\ dir["inFlight"].data = e
  /\ k = 6 => Exists("responded")

DeliverInv == phase = "deliver" => \E e \in Entry : \E k \in 1..6 : Delivers(e, k)

SessionInv ==
  /\ phase \in {"down", "ready", "turn", "hook"} => todo = <<>>
  /\ phase = "ready" => ~Exists("responded")
  /\ turn # NoEntry => phase = "turn"
  /\ phase \in {"turn", "hook"} /\ Exists("responded") =>
       Exists("inFlight") /\ dir["inFlight"].data = Cursor(dir) + 1
  /\ phase = "turn" /\ Exists("responded") => turn = dir["inFlight"].data /\ turn = latest
  /\ phase = "turn" /\ ~Exists("responded") => turn = NoEntry
  /\ phase = "hook" /\ Exists("responded") => dir["inFlight"].data \in answered

(* The inductive invariant of Spec: between any two system calls every        *)
(* directory the disk may come back to is whole and passes nothing that is    *)
(* recorded nowhere, and the calls still to be made are a known tail of one   *)
(* operation (inbox.rs:215-228, in_flight.rs:70-89, recover.rs:197-211).      *)
FilesInv ==
  /\ TypeOK /\ JournalInv
  /\ AcknowledgeInv /\ RecoverInv /\ DeliverInv /\ SessionInv
  /\ NoOperatorNeeded
=============================================================================
