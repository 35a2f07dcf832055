------------------------- MODULE ArtifactFilesProofs -------------------------
(* Machine-checked proofs about the artifact files under crashes and losses   *)
(* of power, for every number of entries, set of policies and bound on the    *)
(* faults.                                                                    *)
EXTENDS ArtifactFilesInv, SequenceTheorems, TLAPS

-----------------------------------------------------------------------------
(* Calls and sequences of calls.                                              *)

(* What is left of a sequence of calls before its k-th, and what remains of   *)
(* it after that call.                                                        *)
LEMMA FromStep ==
  ASSUME NEW S, NEW calls \in Seq(S), NEW k \in 1..Len(calls)
  PROVE  /\ From(calls, k) \in Seq(S) /\ From(calls, k) # <<>>
         /\ Head(From(calls, k)) = calls[k]
         /\ Tail(From(calls, k)) = From(calls, k + 1)
         /\ From(calls, 1) = calls
         /\ From(calls, Len(calls) + 1) = <<>>
<1>1. Len(calls) \in Nat /\ \A i \in 1..Len(calls) : calls[i] \in S
  BY LenProperties, ElementOfSeq
<1>2. From(calls, k) \in Seq(S) /\ Len(From(calls, k)) = Len(calls) - k + 1
  BY <1>1, SubSeqProperties DEF From
<1>3. From(calls, k) # <<>>
  BY <1>1, <1>2, EmptySeq
<1>4. Head(From(calls, k)) = calls[k] /\ Tail(From(calls, k)) = From(calls, k + 1)
  BY <1>1, HeadTailOfSubSeq DEF From
<1>5. From(calls, 1) = calls
  BY SubSeqFull DEF From
<1>6. From(calls, Len(calls) + 1) = <<>>
  BY <1>1, SubSeqEmpty DEF From
<1> QED
  BY <1>2, <1>3, <1>4, <1>5, <1>6

(* The same of a program of n calls.                                          *)
LEMMA CallOf ==
  ASSUME NEW calls, NEW n, \E S : calls \in Seq(S) /\ Len(calls) = n, NEW k \in 1..n
  PROVE  /\ From(calls, k) # <<>>
         /\ Head(From(calls, k)) = calls[k]
         /\ Tail(From(calls, k)) = From(calls, k + 1)
<1>1. PICK S : calls \in Seq(S) /\ Len(calls) = n
  OBVIOUS
<1>2. k \in 1..Len(calls)
  BY <1>1
<1>3. From(calls, k) # <<>>
  BY <1>1, <1>2, FromStep
<1>4. Head(From(calls, k)) = calls[k]
  BY <1>1, <1>2, FromStep
<1>5. Tail(From(calls, k)) = From(calls, k + 1)
  BY <1>1, <1>2, FromStep
<1> QED
  BY <1>3, <1>4, <1>5

(* The head and the tail of two sequences of calls in a row.                  *)
LEMMA HeadTailConcat ==
  ASSUME NEW S, NEW s \in Seq(S), NEW t \in Seq(S), s # <<>>
  PROVE  /\ s \o t # <<>> /\ s \o t \in Seq(S)
         /\ Head(s \o t) = Head(s) /\ Tail(s \o t) = Tail(s) \o t
<1>1. /\ Len(s) \in Nat /\ Len(t) \in Nat /\ Len(s) > 0
      /\ s \o t \in Seq(S) /\ Len(s \o t) = Len(s) + Len(t)
      /\ \A i \in 1..(Len(s) + Len(t)) :
           (s \o t)[i] = IF i <= Len(s) THEN s[i] ELSE t[i - Len(s)]
  BY LenProperties, EmptySeq, ConcatProperties
<1>2. s \o t # <<>>
  BY <1>1, EmptySeq
<1>3. Head(s \o t) = Head(s)
  BY <1>1, <1>2
<1>4. /\ Tail(s) \in Seq(S) /\ Len(Tail(s)) = Len(s) - 1
      /\ \A i \in 1..(Len(s) - 1) : Tail(s)[i] = s[i + 1]
      /\ Tail(s \o t) \in Seq(S) /\ Len(Tail(s \o t)) = Len(s) + Len(t) - 1
      /\ \A i \in 1..(Len(s) + Len(t) - 1) : Tail(s \o t)[i] = (s \o t)[i + 1]
  BY <1>1, <1>2, HeadTailProperties
<1>5. /\ Tail(s) \o t \in Seq(S) /\ Len(Tail(s) \o t) = Len(s) - 1 + Len(t)
      /\ \A i \in 1..(Len(s) - 1 + Len(t)) :
           (Tail(s) \o t)[i] = IF i <= Len(s) - 1 THEN Tail(s)[i] ELSE t[i - (Len(s) - 1)]
  BY <1>4, ConcatProperties
<1>6. \A i \in 1..Len(Tail(s \o t)) : Tail(s \o t)[i] = (Tail(s) \o t)[i]
  BY <1>1, <1>4, <1>5
<1>7. Tail(s \o t) = Tail(s) \o t
  BY <1>1, <1>4, <1>5, <1>6, SeqEqual
<1> QED
  BY <1>1, <1>2, <1>3, <1>7

(* No call comes before the calls of a program, and none after them.          *)
LEMMA AllCalls ==
  ASSUME NEW calls, \E S : calls \in Seq(S)
  PROVE  From(calls, 1) = calls /\ <<>> \o calls = calls
<1>1. PICK S : calls \in Seq(S)
  OBVIOUS
<1>2. From(calls, 1) = calls
  BY <1>1, SubSeqFull DEF From
<1>3. <<>> \o calls = calls
  BY <1>1, ConcatEmptySeq
<1> QED
  BY <1>2, <1>3

(* Nothing is left after the last call.                                      *)
LEMMA CallsEnd ==
  ASSUME NEW calls, NEW n, \E S : calls \in Seq(S) /\ Len(calls) = n
  PROVE  From(calls, n + 1) = <<>>
<1>1. PICK S : calls \in Seq(S) /\ Len(calls) = n
  OBVIOUS
<1>2. n \in Nat
  BY <1>1, LenProperties
<1> QED
  BY <1>1, <1>2, SubSeqEmpty DEF From

(* The k-th of some calls, with others after them.                            *)
LEMMA CallBefore ==
  ASSUME NEW S, NEW calls \in Seq(S), NEW k \in 1..Len(calls),
         NEW T, NEW after \in Seq(T)
  PROVE  /\ From(calls, k) \o after # <<>>
         /\ Head(From(calls, k) \o after) = calls[k]
         /\ Tail(From(calls, k) \o after) = From(calls, k + 1) \o after
<1> DEFINE U == S \cup T
<1>1. calls \in Seq(U) /\ after \in Seq(U)
  BY SeqMonotonic
<1> HIDE DEF U
<1>2. /\ From(calls, k) \in Seq(U) /\ From(calls, k) # <<>>
      /\ Head(From(calls, k)) = calls[k] /\ Tail(From(calls, k)) = From(calls, k + 1)
  BY <1>1, FromStep
<1>3. PICK left \in Seq(U) : left = From(calls, k) /\ left # <<>>
  BY <1>2
<1>4. /\ left \o after # <<>>
      /\ Head(left \o after) = Head(left) /\ Tail(left \o after) = Tail(left) \o after
  BY <1>1, <1>3, HeadTailConcat, SMTT(30)
<1> QED
  BY <1>2, <1>3, <1>4

(* Four calls with one after them.                                            *)
LEMMA FourAndOne ==
  ASSUME NEW a, NEW b, NEW c, NEW d, NEW e
  PROVE  <<a, b, c, d>> \o <<e>> = <<a, b, c, d, e>>
<1> DEFINE S == {a, b, c, d, e}
<1>1. <<a, b, c, d>> \in Seq(S) /\ <<e>> \in Seq(S) /\ <<a, b, c, d, e>> \in Seq(S)
  OBVIOUS
<1>2. Len(<<a, b, c, d>>) = 4 /\ Len(<<e>>) = 1 /\ Len(<<a, b, c, d, e>>) = 5
  OBVIOUS
<1>3. /\ <<a, b, c, d>> \o <<e>> \in Seq(S)
      /\ Len(<<a, b, c, d>> \o <<e>>) = 5
      /\ \A i \in 1..5 : (<<a, b, c, d>> \o <<e>>)[i] = <<a, b, c, d, e>>[i]
  BY <1>1, <1>2, ConcatProperties
<1> HIDE DEF S
<1> QED
  BY <1>1, <1>2, <1>3, SeqEqual

(* Four calls with two after them.                                            *)
LEMMA FourAndTwo ==
  ASSUME NEW a, NEW b, NEW c, NEW d, NEW e, NEW f
  PROVE  <<a, b, c, d>> \o <<e, f>> = <<a, b, c, d, e, f>>
<1> DEFINE S == {a, b, c, d, e, f}
<1>1. <<a, b, c, d>> \in Seq(S) /\ <<e, f>> \in Seq(S) /\ <<a, b, c, d, e, f>> \in Seq(S)
  OBVIOUS
<1>2. Len(<<a, b, c, d>>) = 4 /\ Len(<<e, f>>) = 2 /\ Len(<<a, b, c, d, e, f>>) = 6
  OBVIOUS
<1>3. /\ <<a, b, c, d>> \o <<e, f>> \in Seq(S)
      /\ Len(<<a, b, c, d>> \o <<e, f>>) = 6
      /\ \A i \in 1..6 : (<<a, b, c, d>> \o <<e, f>>)[i] = <<a, b, c, d, e, f>>[i]
  BY <1>1, <1>2, ConcatProperties
<1> HIDE DEF S
<1> QED
  BY <1>1, <1>2, <1>3, SeqEqual

-----------------------------------------------------------------------------
(* The programs.                                                              *)

(* The names of the tmp files are no artifact's, and no two are the same.     *)
LEMMA Names ==
  /\ DOMAIN TmpOf = {"offset", "inFlight", "deadLetter"} /\ DOMAIN TmpOf \subseteq Artifact
  /\ TmpOf["offset"] = "offset.tmp" /\ TmpOf["inFlight"] = "inFlight.tmp"
  /\ TmpOf["deadLetter"] = "deadLetter.tmp"
  /\ \A f \in DOMAIN TmpOf : TmpOf[f] \in FileName /\ TmpOf[f] \notin Artifact
  /\ \A f, g \in DOMAIN TmpOf : TmpOf[f] = TmpOf[g] => f = g
  /\ Artifact \subseteq FileName
  /\ \A f \in FileName : f \in Artifact \/ \E g \in DOMAIN TmpOf : f = TmpOf[g]
  /\ Contents["offset"] = 0..Entries /\ Contents["inFlight"] = Entry
  /\ Contents["responded"] = {Flag} /\ Contents["deadLetter"] = Seq(Entry)
BY DEF TmpOf, Artifact, FileName, Contents

(* The four calls of an atomic write.                                         *)
LEMMA WriteCalls ==
  ASSUME NEW f, NEW v
  PROVE  \E S : /\ WriteAtomically(f, v) \in Seq(S) /\ Len(WriteAtomically(f, v)) = 4
                /\ WriteAtomically(f, v)[1] = Create(TmpOf[f])
                /\ WriteAtomically(f, v)[2] = Write(TmpOf[f], v)
                /\ WriteAtomically(f, v)[3] = Sync(TmpOf[f])
                /\ WriteAtomically(f, v)[4] = Rename(TmpOf[f], f)
<1> DEFINE S == {Create(TmpOf[f]), Write(TmpOf[f], v), Sync(TmpOf[f]), Rename(TmpOf[f], f)}
<1>1. WriteAtomically(f, v) \in Seq(S) /\ Len(WriteAtomically(f, v)) = 4
  BY DEF WriteAtomically
<1> QED
  BY <1>1 DEF WriteAtomically

(* The six calls of an acknowledgement.                                       *)
LEMMA AcknowledgeCalls ==
  ASSUME NEW v
  PROVE  \E S : /\ Acknowledge(v) \in Seq(S) /\ Len(Acknowledge(v)) = 6
                /\ \A k \in 1..4 : Acknowledge(v)[k] = WriteAtomically("offset", v)[k]
                /\ Acknowledge(v)[5] = Unlink("inFlight")
                /\ Acknowledge(v)[6] = Unlink("responded")
                /\ From(Acknowledge(v), 5) = CleanUp
                /\ From(Acknowledge(v), 6) = <<Unlink("responded")>>
<1> DEFINE a == Create(TmpOf["offset"])
           b == Write(TmpOf["offset"], v)
           c == Sync(TmpOf["offset"])
           d == Rename(TmpOf["offset"], "offset")
           e == Unlink("inFlight")
           f == Unlink("responded")
           S == {a, b, c, d, e, f}
<1>1. Acknowledge(v) = <<a, b, c, d, e, f>> /\ WriteAtomically("offset", v) = <<a, b, c, d>>
  <2>1. /\ WriteAtomically("offset", v) = <<a, b, c, d>> /\ CleanUp = <<e, f>>
        /\ Acknowledge(v) = WriteAtomically("offset", v) \o CleanUp
    BY DEF WriteAtomically, CleanUp, Acknowledge
  <2> HIDE DEF a, b, c, d, e, f
  <2>2. <<a, b, c, d>> \o <<e, f>> = <<a, b, c, d, e, f>>
    BY FourAndTwo
  <2> QED
    BY <2>1, <2>2
<1>2. CleanUp = <<e, f>>
  BY DEF CleanUp
<1> HIDE DEF a, b, c, d, e, f
<1>3. Acknowledge(v) \in Seq(S) /\ Len(Acknowledge(v)) = 6
  BY <1>1
<1>4. Acknowledge(v)[5] = e /\ Acknowledge(v)[6] = f
  BY <1>1
<1>5. \A k \in 1..4 : Acknowledge(v)[k] = WriteAtomically("offset", v)[k]
  BY <1>1
<1>6. From(Acknowledge(v), 6) = <<f>>
  <2>1. Len(From(Acknowledge(v), 6)) = 1 /\ From(Acknowledge(v), 6)[1] = f
        /\ From(Acknowledge(v), 6) \in Seq(S)
    BY <1>3, <1>4, ElementOfSeq, SubSeqProperties DEF From
  <2>2. <<f>> \in Seq(S) /\ Len(<<f>>) = 1 /\ <<f>>[1] = f
    OBVIOUS
  <2> HIDE DEF S
  <2> QED
    BY <2>1, <2>2, SeqEqual
<1>7. From(Acknowledge(v), 5) = <<e, f>>
  <2>1. /\ Len(From(Acknowledge(v), 5)) = 2 /\ From(Acknowledge(v), 5) \in Seq(S)
        /\ From(Acknowledge(v), 5)[1] = e /\ From(Acknowledge(v), 5)[2] = f
    BY <1>3, <1>4, ElementOfSeq, SubSeqProperties DEF From
  <2>2. <<e, f>> \in Seq(S) /\ Len(<<e, f>>) = 2 /\ <<e, f>>[1] = e /\ <<e, f>>[2] = f
    OBVIOUS
  <2> HIDE DEF S
  <2> QED
    BY <2>1, <2>2, SeqEqual
<1> QED
  BY <1>2, <1>3, <1>4, <1>5, <1>6, <1>7 DEF e, f

(* The k-th call of a burial: what it is, and what is left after it.          *)
LEMMA CallOfBurial ==
  ASSUME NEW e, NEW k \in 1..4, NEW calls, Buries(calls, e, k),
         NEW r, r = Append(DeadLetters(dir), e)
  PROVE  /\ calls # <<>> /\ Head(calls) = WriteAtomically("deadLetter", r)[k]
         /\ Tail(calls) = From(WriteAtomically("deadLetter", r), k + 1) \o Acknowledge(e)
<1>1. PICK w : w = WriteAtomically("deadLetter", r)
  OBVIOUS
<1>2. PICK S : w \in Seq(S) /\ Len(w) = 4
  BY <1>1, WriteCalls
<1>3. PICK ack : ack = Acknowledge(e)
  OBVIOUS
<1>4. PICK T : ack \in Seq(T)
  BY <1>3, AcknowledgeCalls
<1>5. k \in 1..Len(w)
  BY <1>2
<1>6. calls = From(w, k) \o ack
  BY <1>1, <1>3 DEF Buries
<1>7. From(w, k) \o ack # <<>>
  BY <1>2, <1>4, <1>5, CallBefore, ZenonT(60)
<1>8. Head(From(w, k) \o ack) = w[k]
  BY <1>2, <1>4, <1>5, CallBefore, ZenonT(60)
<1>9. Tail(From(w, k) \o ack) = From(w, k + 1) \o ack
  BY <1>2, <1>4, <1>5, CallBefore, ZenonT(60)
<1> QED
  BY <1>1, <1>3, <1>6, <1>7, <1>8, <1>9

(* The five calls of a delivery.                                              *)
LEMMA DeliverCalls ==
  ASSUME NEW v
  PROVE  \E S : /\ Deliver(v) \in Seq(S) /\ Len(Deliver(v)) = 5
                /\ \A k \in 1..4 : Deliver(v)[k] = WriteAtomically("inFlight", v)[k]
                /\ Deliver(v)[5] = Touch("responded", Flag)
<1> DEFINE a == Create(TmpOf["inFlight"])
           b == Write(TmpOf["inFlight"], v)
           c == Sync(TmpOf["inFlight"])
           d == Rename(TmpOf["inFlight"], "inFlight")
           e == Touch("responded", Flag)
           S == {a, b, c, d, e}
<1>1. Deliver(v) = <<a, b, c, d, e>> /\ WriteAtomically("inFlight", v) = <<a, b, c, d>>
  BY FourAndOne DEF Deliver, WriteAtomically, TouchFlag
<1> HIDE DEF a, b, c, d, e
<1>2. Deliver(v) \in Seq(S) /\ Len(Deliver(v)) = 5
  BY <1>1
<1>3. Deliver(v)[5] = e
  BY <1>1
<1>4. \A k \in 1..4 : Deliver(v)[k] = WriteAtomically("inFlight", v)[k]
  BY <1>1
<1> QED
  BY <1>2, <1>3, <1>4 DEF e

-----------------------------------------------------------------------------
(* What a call does to the directories.                                       *)

(* A call adds one directory to the journal, or leaves only that one.         *)
LEMMA CallMade ==
  ASSUME journal \in Seq(Dirs), journal # <<>>, NEW c, Perform(c)
  PROVE  /\ journal' \in Seq(Dirs') /\ journal' # <<>>
         /\ dir' = Effect(c) /\ dir' \in Dirs' /\ dir \in Dirs
         /\ Dirs' \subseteq Dirs \cup {dir'}
         /\ c.op = "sync" => Dirs' = {dir'}
         /\ journal'[1] \in {journal[1], dir'} /\ journal[1] \in Dirs
         /\ Dirs' = {dir'} \/ (c.op # "sync" /\ journal'[1] = journal[1])
         /\ c.op # "sync" => Dirs' = Dirs \cup {dir'}
<1>1. Len(journal) \in Nat \ {0} /\ DOMAIN journal = 1..Len(journal)
  BY LenProperties, EmptySeq
<1>2. dir \in Dirs /\ journal[1] \in Dirs
  BY <1>1 DEF dir, Dirs
<1>3. CASE c.op = "sync" /\ journal' = <<Effect(c)>>
  <2>1. Len(journal') = 1 /\ DOMAIN journal' = {1} /\ journal'[1] = Effect(c)
    BY <1>3
  <2>2. dir' = Effect(c) /\ Dirs' = {dir'}
    BY <2>1 DEF dir, Dirs
  <2>3. <<dir'>> \in Seq({dir'})
    OBVIOUS
  <2> QED
    BY <1>2, <1>3, <2>1, <2>2, <2>3
<1>4. CASE c.op # "sync" /\ journal' = Append(journal, Effect(c))
  <2> DEFINE S == Dirs \cup {Effect(c)}
  <2>1. journal \in Seq(S) /\ Effect(c) \in S
    BY SeqMonotonic
  <2> HIDE DEF S
  <2>2. /\ journal' \in Seq(S) /\ journal' # <<>> /\ Len(journal') = Len(journal) + 1
        /\ \A i \in 1..Len(journal) : journal'[i] = journal[i]
        /\ journal'[Len(journal) + 1] = Effect(c)
    BY <1>4, <2>1, AppendProperties
  <2>3. DOMAIN journal' = 1..(Len(journal) + 1)
    BY <2>2, LenProperties
  <2>4. dir' = Effect(c)
    BY <2>2 DEF dir
  <2>5. Dirs' = S
    BY <1>1, <2>2, <2>3 DEF Dirs, S
  <2> QED
    BY <1>1, <1>2, <1>4, <2>2, <2>4, <2>5 DEF S
<1>5. CASE c.op # "sync" /\ Effect(c) = dir /\ UNCHANGED journal
  BY <1>2, <1>5 DEF dir, Dirs
<1> QED
  BY <1>3, <1>4, <1>5 DEF Perform

(* The directory after each call.                                             *)
LEMMA Effects ==
  ASSUME NEW f, NEW g, NEW v
  PROVE  /\ Effect(Create(f)) = [dir EXCEPT ![f] = [data |-> Torn, synced |-> FALSE]]
         /\ Effect(Write(f, v)) = [dir EXCEPT ![f] = [dir[f] EXCEPT !.data = v]]
         /\ Effect(Sync(f)) = [dir EXCEPT ![f] = [dir[f] EXCEPT !.synced = TRUE]]
         /\ Effect(Rename(f, g)) = [dir EXCEPT ![f] = Absent, ![g] = dir[f]]
         /\ Effect(Unlink(f)) = [dir EXCEPT ![f] = Absent]
         /\ Effect(Touch(f, v)) = [dir EXCEPT ![f] = [data |-> v, synced |-> TRUE]]
         /\ Create(f).op # "sync" /\ Write(f, v).op # "sync" /\ Sync(f).op = "sync"
         /\ Rename(f, g).op # "sync" /\ Unlink(f).op # "sync" /\ Touch(f, v).op # "sync"
BY DEF Effect, Create, Write, Sync, Rename, Unlink, Touch

(* A write replaces the bytes of its file.                                    *)
LEMMA WriteEffect ==
  ASSUME NEW f, NEW v
  PROVE  Effect(Write(f, v)) = [dir EXCEPT ![f] = [dir[f] EXCEPT !.data = v]]
BY Effects

(* A rename moves a file over the other.                                      *)
LEMMA RenameEffect ==
  ASSUME NEW f, NEW g
  PROVE  Effect(Rename(f, g)) = [dir EXCEPT ![f] = Absent, ![g] = dir[f]]
BY Effects

(* A file of a directory is absent or a record.                               *)
LEMMA FileFacts ==
  ASSUME NEW d, DirectoryOK(d), NEW a \in DOMAIN TmpOf
  PROVE  /\ d[TmpOf[a]] # Absent => d[TmpOf[a]] \in File(Contents[a])
         /\ d[a] # Absent => d[a] \in File(Contents[a])
BY Names DEF DirectoryOK

(* The first three calls of an atomic write touch its tmp file only, and get  *)
(* it ready for the next call.                                                *)
LEMMA TmpCall ==
  ASSUME DirectoryOK(dir), NEW a \in DOMAIN TmpOf, NEW v \in Contents[a], NEW k \in 1..3,
         TmpReady(a, v, k), dir' = Effect(WriteAtomically(a, v)[k])
  PROVE  /\ DirectoryOK(dir') /\ \A f \in Artifact : dir'[f] = dir[f]
         /\ TmpReady(a, v, k + 1)'
<1> DEFINE t == TmpOf[a]
<1>1. /\ t \in FileName /\ t \notin Artifact /\ a \in Artifact /\ DOMAIN dir = FileName
      /\ \A b \in DOMAIN TmpOf : TmpOf[b] = t => b = a
  BY Names DEF DirectoryOK
<1>2. ASSUME NEW r \in File(Contents[a]), dir' = [dir EXCEPT ![t] = r]
      PROVE  DirectoryOK(dir') /\ dir'[t] = r /\ \A f \in Artifact : dir'[f] = dir[f]
  BY <1>1, <1>2, Names DEF DirectoryOK
<1>3. \A r \in File(Contents[a]) : r # Absent
  BY <1>1, ContentsAssumption
<1>4. CASE k = 1
  <2> DEFINE r == [data |-> Torn, synced |-> FALSE]
  <2>1. r \in File(Contents[a])
    BY DEF File
  <2>2. WriteAtomically(a, v)[k] = Create(t)
    BY <1>4, WriteCalls
  <2>3. dir' = [dir EXCEPT ![t] = r]
    BY <2>2, Effects
  <2> HIDE DEF r
  <2> QED
    BY <1>2, <1>3, <1>4, <2>1, <2>3 DEF TmpReady
<1>5. CASE k = 2
  <2> DEFINE r == [dir[t] EXCEPT !.data = v]
  <2>1. dir[t] \in File(Contents[a])
    BY <1>5, FileFacts DEF TmpReady
  <2>2. r \in File(Contents[a]) /\ r.data = v
    BY <2>1 DEF File
  <2>3. WriteAtomically(a, v)[k] = Write(t, v)
    BY <1>5, WriteCalls
  <2>4. dir' = [dir EXCEPT ![t] = r]
    BY <2>3, WriteEffect
  <2> HIDE DEF r
  <2> QED
    BY <1>2, <1>3, <1>5, <2>2, <2>4 DEF TmpReady
<1>6. CASE k = 3
  <2> DEFINE r == [dir[t] EXCEPT !.synced = TRUE]
  <2>1. dir[t] \in File(Contents[a]) /\ dir[t].data = v
    BY <1>6, FileFacts DEF TmpReady
  <2>2. r \in File(Contents[a]) /\ r.data = v /\ r.synced
    BY <2>1 DEF File
  <2>3. WriteAtomically(a, v)[k] = Sync(t)
    BY <1>6, WriteCalls
  <2>4. dir' = [dir EXCEPT ![t] = r]
    BY <2>3, Effects
  <2> HIDE DEF r
  <2> QED
    BY <1>2, <1>3, <1>6, <2>2, <2>4 DEF TmpReady
<1> QED
  BY <1>4, <1>5, <1>6

(* The fourth gives the artifact its new contents, whole and safe.            *)
LEMMA RenameCall ==
  ASSUME DirectoryOK(dir), NEW a \in DOMAIN TmpOf, NEW v \in Contents[a],
         TmpReady(a, v, 4), dir' = Effect(WriteAtomically(a, v)[4])
  PROVE  /\ DirectoryOK(dir') /\ \A f \in Artifact \ {a} : dir'[f] = dir[f]
         /\ dir'[a] # Absent /\ dir'[a].data = v /\ dir'[a].synced
         /\ WriteAtomically(a, v)[4].op # "sync"
<1> DEFINE t == TmpOf[a]
<1>1. /\ t \in FileName /\ t \notin Artifact /\ a \in Artifact /\ DOMAIN dir = FileName
      /\ \A b \in DOMAIN TmpOf : TmpOf[b] = t => b = a
      /\ \A b \in DOMAIN TmpOf : TmpOf[b] \notin Artifact
  BY Names DEF DirectoryOK
<1>2. dir[t] # Absent /\ dir[t].data = v /\ dir[t].synced /\ dir[t] \in File(Contents[a])
  BY FileFacts DEF TmpReady
<1>3. dir' = [dir EXCEPT ![t] = Absent, ![a] = dir[t]]
  <2>1. WriteAtomically(a, v)[4] = Rename(t, a)
    BY WriteCalls
  <2> QED
    BY <2>1, RenameEffect
<1>4. /\ DOMAIN dir' = FileName /\ dir'[t] = Absent /\ dir'[a] = dir[t]
      /\ \A f \in FileName \ {t, a} : dir'[f] = dir[f]
  BY <1>1, <1>3, Names
<1>5. DirectoryOK(dir')
  BY <1>1, <1>2, <1>4, Names DEF DirectoryOK
<1>6. WriteAtomically(a, v)[4].op # "sync"
  <2>1. WriteAtomically(a, v)[4] = Rename(t, a)
    BY WriteCalls
  <2> QED
    BY <2>1 DEF Rename
<1> QED
  BY <1>1, <1>2, <1>4, <1>5, <1>6, Names

(* Removing a file, and touching the flag.                                    *)
LEMMA PlainCalls ==
  ASSUME DirectoryOK(dir), NEW f \in FileName
  PROVE  /\ dir' = Effect(Unlink(f)) =>
              /\ DirectoryOK(dir') /\ dir'[f] = Absent
              /\ \A g \in FileName \ {f} : dir'[g] = dir[g]
         /\ dir' = Effect(Touch("responded", Flag)) =>
              /\ DirectoryOK(dir') /\ \A g \in FileName \ {"responded"} : dir'[g] = dir[g]
              /\ dir'["responded"] # Absent /\ dir'["responded"].data = Flag
              /\ dir'["responded"].synced
<1>1. DOMAIN dir = FileName /\ "responded" \in Artifact
  BY DEF DirectoryOK, Artifact
<1>2. ASSUME dir' = Effect(Unlink(f))
      PROVE  /\ DirectoryOK(dir') /\ dir'[f] = Absent
             /\ \A g \in FileName \ {f} : dir'[g] = dir[g]
  <2>1. dir' = [dir EXCEPT ![f] = Absent]
    BY <1>2, Effects
  <2> QED
    BY <1>1, <2>1, Names DEF DirectoryOK
<1>3. ASSUME dir' = Effect(Touch("responded", Flag))
      PROVE  /\ DirectoryOK(dir') /\ \A g \in FileName \ {"responded"} : dir'[g] = dir[g]
             /\ dir'["responded"] # Absent /\ dir'["responded"].data = Flag
             /\ dir'["responded"].synced
  <2> DEFINE r == [data |-> Flag, synced |-> TRUE]
  <2>1. dir' = [dir EXCEPT !["responded"] = r]
    BY <1>3, Effects
  <2>2. r \in File(Contents["responded"])
    BY Names DEF File
  <2>3. r # Absent
    BY <1>1, <2>2, ContentsAssumption
  <2>4. r.data = Flag /\ r.synced
    OBVIOUS
  <2> HIDE DEF r
  <2> QED
    BY <1>1, <2>1, <2>2, <2>3, <2>4, Names DEF DirectoryOK
<1> QED
  BY <1>2, <1>3

-----------------------------------------------------------------------------
(* The directories of the journal.                                            *)

(* What the parsers read in a good directory.                                 *)
LEMMA GoodFacts ==
  ASSUME NEW d, DirectoryOK(d), Whole(d)
  PROVE  /\ Cursor(d) \in 0..Entries /\ DeadLetters(d) \in Seq(Entry)
         /\ d["inFlight"] # Absent => d["inFlight"].data \in Entry
         /\ \A f \in Artifact : d[f] # Absent =>
              d[f].data \in Contents[f] /\ d[f].synced /\ d[f].data # Torn
<1>1. \A f \in Artifact : d[f] # Absent =>
        d[f].data \in Contents[f] /\ d[f].synced /\ d[f].data # Torn
  BY DEF DirectoryOK, Whole, File
<1>2. /\ "offset" \in Artifact /\ "deadLetter" \in Artifact /\ "inFlight" \in Artifact
      /\ Entries \in Nat /\ <<>> \in Seq(Entry)
  BY FilesAssumption DEF Artifact
<1>3. Cursor(d) \in 0..Entries
  BY <1>1, <1>2, Names DEF Cursor
<1>4. DeadLetters(d) \in Seq(Entry)
  BY <1>1, <1>2, Names DEF DeadLetters
<1> QED
  BY <1>1, <1>2, <1>3, <1>4, Names

(* Two directories that hold the same artifacts read the same.                *)
LEMMA SameArtifacts ==
  ASSUME NEW c, NEW d, \A f \in Artifact : c[f] = d[f]
  PROVE  /\ Cursor(c) = Cursor(d) /\ DeadLetters(c) = DeadLetters(d)
         /\ c["inFlight"] = d["inFlight"] /\ c["responded"] = d["responded"]
         /\ DirectoryOK(c) /\ Good(d) => Good(c)
<1>1. "offset" \in Artifact /\ "deadLetter" \in Artifact /\ "inFlight" \in Artifact
      /\ "responded" \in Artifact
  BY DEF Artifact
<1>2. /\ Cursor(c) = Cursor(d) /\ DeadLetters(c) = DeadLetters(d)
      /\ c["inFlight"] = d["inFlight"] /\ c["responded"] = d["responded"]
  BY <1>1 DEF Cursor, DeadLetters
<1>3. Whole(d) => Whole(c)
  BY DEF Whole
<1>4. PassedUpTo(d, Cursor(d)) => PassedUpTo(c, Cursor(c))
  BY <1>2 DEF PassedUpTo, Passed
<1> QED
  BY <1>2, <1>3, <1>4 DEF Good

(* To be a prefix is reflexive and transitive.                                *)
LEMMA PrefixOrder ==
  ASSUME NEW S, NEW a \in Seq(S), NEW b \in Seq(S), NEW c \in Seq(S)
  PROVE  /\ IsPrefix(a, a)
         /\ IsPrefix(a, b) /\ IsPrefix(b, c) => IsPrefix(a, c)
<1>1. Len(a) \in Nat /\ Len(b) \in Nat /\ Len(c) \in Nat
  BY LenProperties
<1> QED
  BY <1>1 DEF IsPrefix

(* An append adds to what is there.                                           *)
LEMMA PrefixAppend ==
  ASSUME NEW S, NEW a \in Seq(S), NEW e \in S
  PROVE  IsPrefix(a, Append(a, e))
<1>1. /\ Len(a) \in Nat /\ Len(Append(a, e)) = Len(a) + 1
      /\ \A i \in 1..Len(a) : Append(a, e)[i] = a[i]
  BY AppendProperties, LenProperties
<1> QED
  BY <1>1 DEF IsPrefix

(* What has passed stays so when the ghosts and the dead letters grow.        *)
LEMMA PassedGrows ==
  ASSUME NEW c, NEW d, DirectoryOK(c), Whole(c), DirectoryOK(d), Whole(d),
         IsPrefix(DeadLetters(c), DeadLetters(d)), NEW e, Passed(c, e)
  PROVE  Passed(d, e)
<1>1. DeadLetters(c) \in Seq(Entry) /\ DeadLetters(d) \in Seq(Entry)
  BY GoodFacts
<1>2. /\ Len(DeadLetters(c)) \in Nat /\ Len(DeadLetters(d)) \in Nat
      /\ DOMAIN DeadLetters(c) = 1..Len(DeadLetters(c))
      /\ DOMAIN DeadLetters(d) = 1..Len(DeadLetters(d))
  BY <1>1, LenProperties
<1> QED
  BY <1>2 DEF Passed, IsPrefix

(* A good directory stays good when entries are answered and dropped.         *)
LEMMA GoodGrows ==
  ASSUME NEW d, Good(d), answered \subseteq answered', dropped \subseteq dropped',
         latest' \in 0..(Cursor(d) + 1)
  PROVE  Good(d)'
BY DEF Good, Passed, PassedUpTo, DirectoryOK, Whole, Cursor, DeadLetters

(* The journal stays as it is.                                                *)
LEMMA JournalGrows ==
  ASSUME JournalInv, UNCHANGED journal, answered \subseteq answered', dropped \subseteq dropped',
         \A d \in Dirs : latest' \in 0..(Cursor(d) + 1)
  PROVE  JournalInv'
<1>1. Dirs' = Dirs /\ dir' = dir
  BY DEF Dirs, dir
<1>2. \A d \in Dirs : Good(d)'
  BY GoodGrows DEF JournalInv
<1> QED
  BY <1>1, <1>2 DEF JournalInv, DeadLetters

(* A call that leaves a good directory, with no dead letter lost.             *)
LEMMA JournalKept ==
  ASSUME JournalInv, NEW c, Perform(c), UNCHANGED ghosts,
         Good(dir'), IsPrefix(DeadLetters(dir), DeadLetters(dir'))
  PROVE  JournalInv'
<1>1. /\ journal' \in Seq(Dirs') /\ journal' # <<>>
      /\ dir' \in Dirs' /\ dir \in Dirs
      /\ Dirs' \subseteq Dirs \cup {dir'}
      /\ journal[1] \in Dirs
      /\ Dirs' = {dir'} \/ journal'[1] = journal[1]
      /\ journal'[1] \in {journal[1], dir'}
  BY CallMade DEF JournalInv
<1>2. \A d \in Dirs \cup {dir'} : Good(d)
  BY DEF JournalInv
<1>3. \A d \in Dirs \cup {dir'} : DeadLetters(d) \in Seq(Entry)
  BY <1>2, GoodFacts DEF Good
<1>4. ASSUME NEW d \in Dirs'
      PROVE  Good(d)'
  <2>1. Good(d)
    BY <1>1, <1>2
  <2>2. latest' \in 0..(Cursor(d) + 1)
    BY <2>1 DEF Good, ghosts
  <2> QED
    BY <2>1, <2>2, GoodGrows DEF ghosts
<1>5. \A d \in Dirs' : IsPrefix(DeadLetters(d), DeadLetters(dir'))
  <2>1. \A d \in Dirs : IsPrefix(DeadLetters(d), DeadLetters(dir))
    BY DEF JournalInv
  <2>2. \A d \in Dirs : IsPrefix(DeadLetters(d), DeadLetters(dir'))
    BY <1>1, <1>3, <2>1, PrefixOrder
  <2>3. IsPrefix(DeadLetters(dir'), DeadLetters(dir'))
    BY <1>3, PrefixOrder
  <2> QED
    BY <1>1, <2>2, <2>3
<1>6. \A d \in Dirs' : IsPrefix(DeadLetters(journal'[1]), DeadLetters(d))
  <2>1. CASE Dirs' = {dir'}
    <3>1. journal'[1] = dir'
      BY <1>1, <2>1, LenProperties, EmptySeq DEF Dirs
    <3> QED
      BY <1>5, <2>1, <3>1
  <2>2. CASE journal'[1] = journal[1]
    <3>1. \A d \in Dirs : IsPrefix(DeadLetters(journal[1]), DeadLetters(d))
      BY DEF JournalInv
    <3>2. IsPrefix(DeadLetters(journal[1]), DeadLetters(dir'))
      BY <1>1, <1>3, <3>1, PrefixOrder
    <3> QED
      BY <1>1, <2>2, <3>1, <3>2
  <2> QED
    BY <1>1, <2>1, <2>2
<1> QED
  BY <1>1, <1>4, <1>5, <1>6 DEF JournalInv, DeadLetters

(* What each call does: it keeps the journal and its dead letters, and        *)
(* changes one artifact at most; fsync changes none.                          *)
Advances(c) ==
  /\ JournalInv'
  /\ IsPrefix(DeadLetters(dir), DeadLetters(dir'))
  /\ \E f \in Artifact : \A g \in Artifact \ {f} : dir'[g] = dir[g]
  /\ c.op = "sync" => \A g \in Artifact : dir'[g] = dir[g]

(* A call on a tmp file.                                                      *)
LEMMA TmpAdvances ==
  ASSUME JournalInv, NEW c, Perform(c), UNCHANGED ghosts,
         Good(dir), DirectoryOK(dir'), \A f \in Artifact : dir'[f] = dir[f]
  PROVE  /\ Advances(c) /\ Good(dir') /\ Cursor(dir') = Cursor(dir)
         /\ DeadLetters(dir') = DeadLetters(dir)
<1>1. Good(dir') /\ Cursor(dir') = Cursor(dir) /\ DeadLetters(dir') = DeadLetters(dir)
  BY SameArtifacts
<1>2. IsPrefix(DeadLetters(dir), DeadLetters(dir'))
  BY <1>1, GoodFacts, PrefixOrder DEF Good
<1>3. JournalInv'
  BY <1>1, <1>2, JournalKept
<1> QED
  BY <1>1, <1>2, <1>3 DEF Advances, Artifact

(* A call that changes one artifact.                                          *)
LEMMA ArtifactAdvances ==
  ASSUME JournalInv, NEW c, Perform(c), UNCHANGED ghosts, c.op # "sync",
         NEW f \in Artifact, \A g \in Artifact \ {f} : dir'[g] = dir[g],
         Good(dir'), IsPrefix(DeadLetters(dir), DeadLetters(dir'))
  PROVE  Advances(c)
BY JournalKept DEF Advances

(* No call but fsync commits.                                                 *)
LEMMA NoSync ==
  ASSUME NEW f, NEW g, NEW v
  PROVE  Rename(f, g).op # "sync" /\ Unlink(f).op # "sync" /\ Touch(f, v).op # "sync"
BY DEF Rename, Unlink, Touch

-----------------------------------------------------------------------------
(* Directory c after directory d, with one artifact changed.                  *)

(* The cursor moves on, over entries that have all passed.                    *)
LEMMA CursorMoved ==
  ASSUME NEW c, NEW d, Good(d), DirectoryOK(c), NEW v \in 0..Entries,
         \A f \in Artifact \ {"offset"} : c[f] = d[f],
         c["offset"] # Absent, c["offset"].data = v, c["offset"].synced,
         Cursor(d) <= v, PassedUpTo(d, v)
  PROVE  Good(c) /\ Cursor(c) = v /\ DeadLetters(c) = DeadLetters(d)
<1>1. /\ "offset" \in Artifact /\ "deadLetter" \in Artifact /\ "inFlight" \in Artifact
      /\ Entries \in Nat
  BY FilesAssumption DEF Artifact
<1>2. Cursor(c) = v /\ DeadLetters(c) = DeadLetters(d) /\ c["inFlight"] = d["inFlight"]
  BY <1>1 DEF Cursor, DeadLetters
<1>3. Cursor(d) \in 0..Entries /\ (d["inFlight"] # Absent => d["inFlight"].data \in Entry)
  BY GoodFacts DEF Good
<1>4. v # Torn
  BY <1>1, Names, ContentsAssumption
<1>5. Whole(c)
  BY <1>4 DEF Good, Whole
<1>6. PassedUpTo(c, v)
  BY <1>2 DEF PassedUpTo, Passed
<1>7. latest \in 0..(v + 1)
  BY <1>1, <1>3 DEF Good
<1>8. c["inFlight"] # Absent => c["inFlight"].data <= v + 1
  BY <1>1, <1>2, <1>3 DEF Good, Entry
<1> QED
  BY <1>2, <1>5, <1>6, <1>7, <1>8 DEF Good

(* A dead letter is added.                                                    *)
LEMMA DeadLetterAdded ==
  ASSUME NEW c, NEW d, Good(d), DirectoryOK(c), NEW e \in Entry,
         \A f \in Artifact \ {"deadLetter"} : c[f] = d[f],
         c["deadLetter"] # Absent, c["deadLetter"].data = Append(DeadLetters(d), e),
         c["deadLetter"].synced
  PROVE  /\ Good(c) /\ Cursor(c) = Cursor(d) /\ Passed(c, e)
         /\ IsPrefix(DeadLetters(d), DeadLetters(c))
<1>1. "offset" \in Artifact /\ "deadLetter" \in Artifact /\ "inFlight" \in Artifact
  BY DEF Artifact
<1>2. /\ Cursor(c) = Cursor(d) /\ DeadLetters(c) = Append(DeadLetters(d), e)
      /\ c["inFlight"] = d["inFlight"]
  BY <1>1 DEF Cursor, DeadLetters
<1>3. DeadLetters(d) \in Seq(Entry)
  BY GoodFacts DEF Good
<1>4. DeadLetters(c) \in Seq(Entry) /\ IsPrefix(DeadLetters(d), DeadLetters(c))
  BY <1>2, <1>3, PrefixAppend, AppendProperties
<1>5. c["deadLetter"].data # Torn
  <2>1. c["deadLetter"].data \in Contents["deadLetter"]
    BY <1>2, <1>4, Names DEF DeadLetters
  <2> QED
    BY <1>1, <2>1, ContentsAssumption
<1>6. Whole(c)
  BY <1>5 DEF Good, Whole
<1>7. PassedUpTo(c, Cursor(c))
  BY <1>2, <1>4, <1>6, PassedGrows DEF Good, PassedUpTo
<1>8. Passed(c, e)
  <2>1. /\ Len(DeadLetters(d)) \in Nat
        /\ DOMAIN DeadLetters(c) = 1..(Len(DeadLetters(d)) + 1)
        /\ DeadLetters(c)[Len(DeadLetters(d)) + 1] = e
    BY <1>2, <1>3, AppendProperties, LenProperties
  <2> QED
    BY <2>1 DEF Passed
<1> QED
  BY <1>2, <1>4, <1>6, <1>7, <1>8 DEF Good

(* .in-flight names the entry after the cursor.                               *)
LEMMA NextInFlight ==
  ASSUME NEW c, NEW d, Good(d), DirectoryOK(c), Cursor(d) + 1 \in Entry,
         \A f \in Artifact \ {"inFlight"} : c[f] = d[f],
         c["inFlight"] # Absent, c["inFlight"].data = Cursor(d) + 1, c["inFlight"].synced
  PROVE  Good(c) /\ Cursor(c) = Cursor(d) /\ DeadLetters(c) = DeadLetters(d)
<1>1. "offset" \in Artifact /\ "deadLetter" \in Artifact /\ "inFlight" \in Artifact
  BY DEF Artifact
<1>2. Cursor(c) = Cursor(d) /\ DeadLetters(c) = DeadLetters(d)
  BY <1>1 DEF Cursor, DeadLetters
<1>3. Cursor(d) \in Nat
  BY GoodFacts DEF Good
<1>4. c["inFlight"].data # Torn
  BY <1>1, Names, ContentsAssumption
<1>5. Whole(c)
  BY <1>4 DEF Good, Whole
<1>6. PassedUpTo(c, Cursor(c))
  BY <1>2 DEF Good, PassedUpTo, Passed
<1> QED
  BY <1>2, <1>3, <1>5, <1>6 DEF Good

(* The marker is touched, or it or .in-flight is removed.                     *)
LEMMA MarkersChanged ==
  ASSUME NEW c, NEW d, Good(d), DirectoryOK(c), NEW f \in {"inFlight", "responded"},
         \A g \in Artifact \ {f} : c[g] = d[g],
         c[f] = Absent \/ (f = "responded" /\ c[f].data = Flag /\ c[f].synced)
  PROVE  Good(c) /\ Cursor(c) = Cursor(d) /\ DeadLetters(c) = DeadLetters(d)
<1>1. /\ "offset" \in Artifact /\ "deadLetter" \in Artifact /\ "inFlight" \in Artifact
      /\ "responded" \in Artifact
  BY DEF Artifact
<1>2. Cursor(c) = Cursor(d) /\ DeadLetters(c) = DeadLetters(d)
  BY <1>1 DEF Cursor, DeadLetters
<1>3. Flag # Torn
  BY <1>1, Names, ContentsAssumption
<1>4. Whole(c)
  BY <1>3 DEF Good, Whole
<1>5. PassedUpTo(c, Cursor(c))
  BY <1>2 DEF Good, PassedUpTo, Passed
<1>6. c["inFlight"] # Absent => c["inFlight"] = d["inFlight"]
  BY <1>1
<1> QED
  BY <1>2, <1>4, <1>5, <1>6 DEF Good

-----------------------------------------------------------------------------
(* The calls of an acknowledgement.                                           *)

(* Each call makes the next one's conditions true and keeps the journal.      *)
LEMMA AcknowledgeCall ==
  ASSUME JournalInv, UNCHANGED ghosts, NEW v \in 0..Entries, NEW k \in 1..6,
         NEW calls, Acknowledges(calls, v, k), Perform(Head(calls))
  PROVE  /\ Advances(Head(calls)) /\ calls # <<>>
         /\ \A rest : rest = Tail(calls) => Acknowledges(rest, v, k + 1)'
<1>1. dir' = Effect(Head(calls)) /\ dir \in Dirs /\ Good(dir) /\ DirectoryOK(dir)
  BY CallMade DEF JournalInv, Good
<1>2. /\ calls # <<>> /\ Head(calls) = Acknowledge(v)[k]
      /\ Tail(calls) = From(Acknowledge(v), k + 1)
  BY AcknowledgeCalls, CallOf DEF Acknowledges
<1>3. "offset" \in DOMAIN TmpOf /\ v \in Contents["offset"]
      /\ TmpReady("offset", v, k)
  BY Names DEF Acknowledges
<1>4. /\ "offset" \in Artifact /\ "deadLetter" \in Artifact /\ "inFlight" \in Artifact
      /\ "responded" \in Artifact /\ Artifact \subseteq FileName
  BY Names DEF Artifact
<1>5. DeadLetters(dir) \in Seq(Entry) /\ IsPrefix(DeadLetters(dir), DeadLetters(dir))
  BY <1>1, GoodFacts, PrefixOrder DEF Good
<1>6. CASE k \in 1..3
  <2>1. Head(calls) = WriteAtomically("offset", v)[k]
    BY <1>2, <1>6, AcknowledgeCalls
  <2>2. /\ DirectoryOK(dir') /\ \A f \in Artifact : dir'[f] = dir[f]
        /\ TmpReady("offset", v, k + 1)'
    BY <1>1, <1>3, <1>6, <2>1, TmpCall
  <2>3. Cursor(dir') = Cursor(dir) /\ DeadLetters(dir') = DeadLetters(dir)
    BY <1>1, <2>2, TmpAdvances
  <2>4. Advances(Head(calls))
    BY <1>1, <2>2, TmpAdvances
  <2>5. (Cursor(dir) <= v /\ PassedUpTo(dir, v))'
    BY <1>6, <2>3 DEF Acknowledges, PassedUpTo, Passed, ghosts
  <2> QED
    BY <1>2, <1>6, <2>2, <2>4, <2>5 DEF Acknowledges
<1>7. CASE k = 4
  <2>1. Head(calls) = WriteAtomically("offset", v)[4]
    BY <1>2, <1>7, AcknowledgeCalls
  <2>2. /\ DirectoryOK(dir') /\ \A f \in Artifact \ {"offset"} : dir'[f] = dir[f]
        /\ dir'["offset"] # Absent /\ dir'["offset"].data = v /\ dir'["offset"].synced
        /\ Head(calls).op # "sync"
    BY <1>1, <1>3, <1>7, <2>1, RenameCall
  <2>3. Good(dir') /\ DeadLetters(dir') = DeadLetters(dir)
    BY <1>1, <1>7, <2>2, CursorMoved DEF Acknowledges
  <2>4. Advances(Head(calls))
    BY <1>4, <1>5, <2>2, <2>3, ArtifactAdvances
  <2> QED
    BY <1>2, <1>7, <2>4 DEF Acknowledges, TmpReady
<1>8. CASE k = 5
  <2>1. Head(calls) = Unlink("inFlight")
    BY <1>2, <1>8, AcknowledgeCalls
  <2>2. /\ DirectoryOK(dir') /\ dir'["inFlight"] = Absent
        /\ \A g \in FileName \ {"inFlight"} : dir'[g] = dir[g]
        /\ Head(calls).op # "sync"
    BY <1>1, <1>4, <2>1, PlainCalls, NoSync
  <2>3. Good(dir') /\ DeadLetters(dir') = DeadLetters(dir)
    BY <1>1, <1>4, <2>2, MarkersChanged
  <2>4. Advances(Head(calls))
    BY <1>4, <1>5, <2>2, <2>3, ArtifactAdvances
  <2> QED
    BY <1>2, <1>8, <2>2, <2>4 DEF Acknowledges, TmpReady, Exists
<1>9. CASE k = 6
  <2>1. Head(calls) = Unlink("responded")
    BY <1>2, <1>9, AcknowledgeCalls
  <2>2. /\ DirectoryOK(dir') /\ dir'["responded"] = Absent
        /\ \A g \in FileName \ {"responded"} : dir'[g] = dir[g]
        /\ Head(calls).op # "sync"
    BY <1>1, <1>4, <2>1, PlainCalls, NoSync
  <2>3. Good(dir') /\ DeadLetters(dir') = DeadLetters(dir)
    BY <1>1, <1>4, <2>2, MarkersChanged
  <2>4. Advances(Head(calls))
    BY <1>4, <1>5, <2>2, <2>3, ArtifactAdvances
  <2>5. ~Exists("inFlight")' /\ ~Exists("responded")'
    BY <1>4, <1>9, <2>2 DEF Acknowledges, Exists
  <2> QED
    BY <1>2, <1>9, <2>4, <2>5 DEF Acknowledges, TmpReady
<1> QED
  BY <1>6, <1>7, <1>8, <1>9

-----------------------------------------------------------------------------
(* The calls of a dead-letter, up to its acknowledgement.                     *)

(* Each call makes the next one's conditions true and keeps the journal; the  *)
(* last leaves what an acknowledgement of the entry needs.                    *)
LEMMA BuryCall ==
  ASSUME JournalInv, UNCHANGED ghosts, NEW e \in Entry, NEW k \in 1..4,
         NEW calls, Buries(calls, e, k), Perform(Head(calls))
  PROVE  /\ Advances(Head(calls)) /\ calls # <<>>
         /\ k < 4 => \A rest : rest = Tail(calls) => Buries(rest, e, k + 1)'
         /\ k = 4 => \A rest : rest = Tail(calls) => Acknowledges(rest, e, 1)'
<1> DEFINE ack == Acknowledge(e)
<1>1. dir' = Effect(Head(calls)) /\ dir \in Dirs /\ Good(dir) /\ DirectoryOK(dir)
  BY CallMade DEF JournalInv, Good
<1>2. DeadLetters(dir) \in Seq(Entry) /\ Cursor(dir) \in 0..Entries
  BY <1>1, GoodFacts DEF Good
<1>3. PICK r : r = Append(DeadLetters(dir), e)
  OBVIOUS
<1>4. r \in Seq(Entry) /\ IsPrefix(DeadLetters(dir), DeadLetters(dir))
  BY <1>2, <1>3, AppendProperties, PrefixOrder
<1>5. /\ calls = From(WriteAtomically("deadLetter", r), k) \o ack
      /\ e = Cursor(dir) + 1 /\ TmpReady("deadLetter", r, k)
  BY <1>3 DEF Buries
<1>6. /\ calls # <<>> /\ Head(calls) = WriteAtomically("deadLetter", r)[k]
      /\ Tail(calls) = From(WriteAtomically("deadLetter", r), k + 1) \o ack
  BY <1>3, CallOfBurial
<1>7. "deadLetter" \in DOMAIN TmpOf /\ r \in Contents["deadLetter"]
  BY <1>4, Names
<1>8. CASE k \in 1..3
  <2>1. /\ DirectoryOK(dir') /\ \A f \in Artifact : dir'[f] = dir[f]
        /\ TmpReady("deadLetter", r, k + 1)'
    BY <1>1, <1>5, <1>6, <1>7, <1>8, TmpCall
  <2>2. Cursor(dir') = Cursor(dir) /\ DeadLetters(dir') = DeadLetters(dir)
    BY <1>1, <2>1, TmpAdvances
  <2>3. Advances(Head(calls))
    BY <1>1, <2>1, TmpAdvances
  <2>4. (r = Append(DeadLetters(dir), e) /\ e = Cursor(dir) + 1)'
    BY <1>3, <1>5, <2>2
  <2> HIDE DEF ack
  <2>5. ASSUME NEW rest, rest = Tail(calls)
        PROVE  Buries(rest, e, k + 1)'
    BY <1>6, <2>1, <2>4, <2>5 DEF Buries, ack
  <2> QED
    BY <1>6, <1>8, <2>3, <2>5
<1>9. CASE k = 4
  <2>1. /\ DirectoryOK(dir') /\ \A f \in Artifact \ {"deadLetter"} : dir'[f] = dir[f]
        /\ dir'["deadLetter"] # Absent /\ dir'["deadLetter"].data = r
        /\ dir'["deadLetter"].synced /\ Head(calls).op # "sync"
    BY <1>1, <1>5, <1>6, <1>7, <1>9, RenameCall
  <2>2. /\ Good(dir') /\ Cursor(dir') = Cursor(dir) /\ Passed(dir', e)
        /\ IsPrefix(DeadLetters(dir), DeadLetters(dir'))
    BY <1>1, <1>3, <2>1, DeadLetterAdded
  <2>3. Advances(Head(calls))
    BY <1>7, <2>1, <2>2, Names, ArtifactAdvances
  <2>4. PassedUpTo(dir', e) /\ Cursor(dir') <= e
    BY <1>2, <1>5, <2>2 DEF Good, PassedUpTo
  <2>5. (Cursor(dir) <= e /\ PassedUpTo(dir, e))'
    BY <2>4 DEF PassedUpTo, Passed, ghosts
  <2>6. Tail(calls) = From(ack, 1)
    <3>1. PICK w : w = WriteAtomically("deadLetter", r)
      OBVIOUS
    <3>2. \E S : w \in Seq(S) /\ Len(w) = 4
      BY <3>1, WriteCalls
    <3>3. From(w, k + 1) = <<>>
      BY <1>9, <3>2, CallsEnd
    <3>4. \E S : ack \in Seq(S)
      BY AcknowledgeCalls
    <3> HIDE DEF ack
    <3>5. From(ack, 1) = ack /\ <<>> \o ack = ack
      BY <3>4, AllCalls
    <3> QED
      BY <1>6, <1>9, <3>1, <3>3, <3>5
  <2> HIDE DEF ack
  <2>7. ASSUME NEW rest, rest = Tail(calls)
        PROVE  Acknowledges(rest, e, 1)'
    BY <2>5, <2>6, <2>7 DEF Acknowledges, TmpReady, ack
  <2> QED
    BY <1>6, <1>9, <2>3, <2>7
<1> QED
  BY <1>8, <1>9

-----------------------------------------------------------------------------
(* The first call of a recover.                                               *)

(* It removes a tmp file that nothing after it is about to use.               *)
LEMMA SweepCall ==
  ASSUME JournalInv, UNCHANGED ghosts, Perform(Unlink(TmpOf["deadLetter"]))
  PROVE  /\ Advances(Unlink(TmpOf["deadLetter"]))
         /\ \A rest, v : \A k \in 1..7 : Acknowledges(rest, v, k) => Acknowledges(rest, v, k)'
         /\ \A rest, e : Buries(rest, e, 1) => Buries(rest, e, 1)'
<1> DEFINE t == TmpOf["deadLetter"]
<1>1. dir' = Effect(Unlink(t)) /\ dir \in Dirs /\ Good(dir) /\ DirectoryOK(dir)
  BY CallMade DEF JournalInv, Good
<1>2. /\ t \in FileName /\ t \notin Artifact /\ TmpOf["offset"] # t
      /\ TmpOf["offset"] \in FileName /\ Artifact \subseteq FileName
      /\ "inFlight" \in Artifact /\ "responded" \in Artifact
  BY Names DEF Artifact
<1>3. DirectoryOK(dir') /\ \A g \in FileName \ {t} : dir'[g] = dir[g]
  BY <1>1, <1>2, PlainCalls
<1>4. \A f \in Artifact : dir'[f] = dir[f]
  BY <1>2, <1>3
<1>5. Cursor(dir') = Cursor(dir) /\ DeadLetters(dir') = DeadLetters(dir)
  BY <1>1, <1>3, <1>4, TmpAdvances
<1>7. Advances(Unlink(t))
  BY <1>1, <1>3, <1>4, TmpAdvances
<1>8. ASSUME NEW rest, NEW v, NEW k \in 1..7, Acknowledges(rest, v, k)
      PROVE  Acknowledges(rest, v, k)'
  <2>1. (PassedUpTo(dir, v))' <=> PassedUpTo(dir, v)
    BY <1>5 DEF PassedUpTo, Passed, ghosts
  <2>2. TmpReady("offset", v, k)' <=> TmpReady("offset", v, k)
    BY <1>2, <1>3 DEF TmpReady
  <2>3. (Exists("inFlight") <=> Exists("inFlight")') /\ (Exists("responded") <=> Exists("responded")')
    BY <1>2, <1>4 DEF Exists
  <2> QED
    BY <1>5, <1>8, <2>1, <2>2, <2>3 DEF Acknowledges
<1>9. ASSUME NEW rest, NEW e, Buries(rest, e, 1)
      PROVE  Buries(rest, e, 1)'
  BY <1>5, <1>9 DEF Buries, TmpReady
<1> QED
  BY <1>7, <1>8, <1>9

(* The head and the tail of a program with one call before it.                *)
LEMMA CallFirst ==
  ASSUME NEW c, NEW rest, \E S : rest \in Seq(S)
  PROVE  /\ <<c>> \o rest # <<>>
         /\ Head(<<c>> \o rest) = c /\ Tail(<<c>> \o rest) = rest
<1>1. PICK S : rest \in Seq(S)
  OBVIOUS
<1> DEFINE U == S \cup {c}
<1>2. rest \in Seq(U) /\ <<c>> \in Seq(U)
  BY <1>1, SeqMonotonic
<1>3. <<c>> # <<>> /\ Head(<<c>>) = c /\ Tail(<<c>>) = <<>>
  OBVIOUS
<1>4. <<>> \o rest = rest
  BY <1>1, ConcatEmptySeq
<1>5. PICK one : one = <<c>>
  OBVIOUS
<1> HIDE DEF U
<1>6. one \o rest # <<>>
  BY <1>2, <1>3, <1>5, HeadTailConcat
<1>7. Head(one \o rest) = Head(one) /\ Tail(one \o rest) = Tail(one) \o rest
  BY <1>2, <1>3, <1>5, HeadTailConcat
<1> QED
  BY <1>3, <1>4, <1>5, <1>6, <1>7

-----------------------------------------------------------------------------
(* The calls of a delivery.                                                   *)

(* Each call makes the next one's conditions true and keeps the journal.      *)
LEMMA DeliverCall ==
  ASSUME JournalInv, UNCHANGED ghosts, NEW e \in Entry, NEW k \in 1..5,
         Delivers(e, k), Perform(Head(todo)), todo' = Tail(todo)
  PROVE  Advances(Head(todo)) /\ todo # <<>> /\ Delivers(e, k + 1)'
<1>1. /\ dir' = Effect(Head(todo)) /\ dir \in Dirs /\ Good(dir) /\ DirectoryOK(dir)
      /\ Dirs' \subseteq Dirs \cup {dir'}
      /\ Head(todo).op = "sync" => Dirs' = {dir'}
  BY CallMade DEF JournalInv, Good
<1>2. /\ todo # <<>> /\ Head(todo) = Deliver(e)[k]
      /\ todo' = From(Deliver(e), k + 1)
  <2>1. todo = From(Deliver(e), k)
    BY DEF Delivers
  <2>2. \E S : Deliver(e) \in Seq(S) /\ Len(Deliver(e)) = 5
    BY DeliverCalls
  <2> QED
    BY <2>1, <2>2, CallOf
<1>3. "inFlight" \in DOMAIN TmpOf /\ e \in Contents["inFlight"] /\ TmpReady("inFlight", e, k)
  BY Names DEF Delivers
<1>4. /\ "offset" \in Artifact /\ "inFlight" \in Artifact /\ "responded" \in Artifact
      /\ Artifact \subseteq FileName
  BY Names DEF Artifact
<1>5. DeadLetters(dir) \in Seq(Entry) /\ IsPrefix(DeadLetters(dir), DeadLetters(dir))
  BY <1>1, GoodFacts, PrefixOrder DEF Good
<1>6. /\ e = Cursor(dir) + 1
      /\ k >= 4 => \A d \in Dirs : Cursor(d) = Cursor(dir)
  BY DEF Delivers
<1>7. CASE k \in 1..3
  <2>1. Head(todo) = WriteAtomically("inFlight", e)[k]
    BY <1>2, <1>7, DeliverCalls
  <2>2. /\ DirectoryOK(dir') /\ \A f \in Artifact : dir'[f] = dir[f]
        /\ TmpReady("inFlight", e, k + 1)'
    BY <1>1, <1>3, <1>7, <2>1, TmpCall
  <2>3. Cursor(dir') = Cursor(dir) /\ DeadLetters(dir') = DeadLetters(dir)
    BY <1>1, <2>2, TmpAdvances
  <2>4. Advances(Head(todo))
    BY <1>1, <2>2, TmpAdvances
  <2>5. k = 3 => Dirs' = {dir'}
    BY <1>1, <2>1, WriteCalls, Effects
  <2>6. k + 1 >= 4 => (\A d \in Dirs : Cursor(d) = Cursor(dir))'
    BY <1>7, <2>5 DEF Cursor
  <2>7. (e = Cursor(dir) + 1)'
    BY <1>6, <2>3
  <2> QED
    BY <1>2, <1>7, <2>2, <2>4, <2>6, <2>7 DEF Delivers
<1>8. CASE k = 4
  <2>1. Head(todo) = WriteAtomically("inFlight", e)[4]
    BY <1>2, <1>8, DeliverCalls
  <2>2. /\ DirectoryOK(dir') /\ \A f \in Artifact \ {"inFlight"} : dir'[f] = dir[f]
        /\ dir'["inFlight"] # Absent /\ dir'["inFlight"].data = e /\ dir'["inFlight"].synced
        /\ Head(todo).op # "sync"
    BY <1>1, <1>3, <1>8, <2>1, RenameCall
  <2>3. Good(dir') /\ Cursor(dir') = Cursor(dir) /\ DeadLetters(dir') = DeadLetters(dir)
    BY <1>1, <1>6, <2>2, NextInFlight
  <2>4. Advances(Head(todo))
    BY <1>4, <1>5, <2>2, <2>3, ArtifactAdvances
  <2>5. (\A d \in Dirs : Cursor(d) = Cursor(dir))'
    BY <1>1, <1>6, <1>8, <2>3 DEF Cursor
  <2>6. (e = Cursor(dir) + 1)'
    BY <1>6, <2>3
  <2>7. (Exists("inFlight") /\ dir["inFlight"].data = e)'
    BY <2>2 DEF Exists
  <2>8. TmpReady("inFlight", e, k + 1)'
    BY <1>8 DEF TmpReady
  <2> QED
    BY <1>2, <1>8, <2>4, <2>5, <2>6, <2>7, <2>8 DEF Delivers
<1>9. CASE k = 5
  <2>1. Head(todo) = Touch("responded", Flag)
    BY <1>2, <1>9, DeliverCalls
  <2>2. /\ DirectoryOK(dir') /\ \A g \in FileName \ {"responded"} : dir'[g] = dir[g]
        /\ dir'["responded"] # Absent /\ dir'["responded"].data = Flag
        /\ dir'["responded"].synced /\ Head(todo).op # "sync"
    <3>1. DirectoryOK(dir) /\ dir' = Effect(Touch("responded", Flag))
      BY <1>1, <2>1
    <3>2. "responded" \in FileName /\ Head(todo).op # "sync"
      BY <1>4, <2>1, NoSync
    <3> QED
      BY <3>1, <3>2, PlainCalls
  <2>3. Good(dir') /\ Cursor(dir') = Cursor(dir) /\ DeadLetters(dir') = DeadLetters(dir)
    BY <1>1, <1>4, <2>2, MarkersChanged
  <2>4. Advances(Head(todo))
    BY <1>4, <1>5, <2>2, <2>3, ArtifactAdvances
  <2>5. (\A d \in Dirs : Cursor(d) = Cursor(dir))'
    BY <1>1, <1>6, <1>9, <2>3 DEF Cursor
  <2>6. (e = Cursor(dir) + 1)'
    BY <1>6, <2>3
  <2>7. (Exists("inFlight") /\ dir["inFlight"].data = e /\ Exists("responded"))'
    BY <1>4, <1>9, <2>2 DEF Exists, Delivers
  <2>8. TmpReady("inFlight", e, k + 1)'
    BY <1>9 DEF TmpReady
  <2> QED
    BY <1>2, <1>9, <2>4, <2>5, <2>6, <2>7, <2>8 DEF Delivers
<1> QED
  BY <1>7, <1>8, <1>9

-----------------------------------------------------------------------------
(* The steps.                                                                 *)

(* What the types of the journal's directories take from its invariant.       *)
LEMMA JournalType ==
  ASSUME JournalInv
  PROVE  /\ journal # <<>> /\ dir \in Dirs
         /\ \A i \in DOMAIN journal : DirectoryOK(journal[i])
         /\ \A d \in Dirs : Good(d) /\ DirectoryOK(d) /\ Whole(d)
         /\ ~Corrupt("offset") /\ ~Corrupt("inFlight")
<1>1. journal # <<>> /\ journal \in Seq(Dirs) /\ \A d \in Dirs : Good(d)
  BY DEF JournalInv
<1>2. \A d \in Dirs : DirectoryOK(d) /\ Whole(d)
  BY <1>1 DEF Good
<1>3. \A i \in DOMAIN journal : DirectoryOK(journal[i])
  BY <1>2 DEF Dirs
<1>4. dir \in Dirs
  BY <1>1, LenProperties, EmptySeq DEF dir, Dirs
<1>5. "offset" \in Artifact /\ "inFlight" \in Artifact
  BY DEF Artifact
<1> QED
  BY <1>1, <1>2, <1>3, <1>4, <1>5 DEF Corrupt, Exists, Whole

(* What is left of an acknowledgement is a sequence of calls.                 *)
LEMMA LeftSeq ==
  ASSUME NEW v, NEW k \in 1..7
  PROVE  \E S : From(Acknowledge(v), k) \in Seq(S)
<1>1. PICK S : Acknowledge(v) \in Seq(S) /\ Len(Acknowledge(v)) = 6
  BY AcknowledgeCalls
<1>2. PICK w : w = Acknowledge(v)
  OBVIOUS
<1>3. w \in Seq(S) /\ Len(w) = 6
  BY <1>1, <1>2
<1>4. \A i \in 1..Len(w) : w[i] \in S
  BY <1>3, ElementOfSeq
<1>5. k \in Nat /\ k >= 1 /\ k <= Len(w) + 1 /\ Len(w) \in Nat
  BY <1>3
<1>6. SubSeq(w, k, Len(w)) \in Seq(S)
  BY <1>4, <1>5, SubSeqProperties
<1> QED
  BY <1>2, <1>6 DEF From

(* An acknowledgement is over when it has made its six calls.                 *)
LEMMA AcknowledgeEnds ==
  ASSUME NEW v, NEW k \in 1..7, NEW calls, Acknowledges(calls, v, k)
  PROVE  calls = <<>> <=> k = 7
<1>1. calls = From(Acknowledge(v), k)
  BY DEF Acknowledges
<1>2. \E S : Acknowledge(v) \in Seq(S) /\ Len(Acknowledge(v)) = 6
  BY AcknowledgeCalls
<1>3. ASSUME k # 7
      PROVE  calls # <<>>
  <2>1. k \in 1..6
    BY <1>3
  <2> QED
    BY <1>1, <1>2, <2>1, CallOf
<1>4. ASSUME k = 7
      PROVE  calls = <<>>
  <2>1. From(Acknowledge(v), 6 + 1) = <<>>
    BY <1>2, CallsEnd
  <2> QED
    BY <1>1, <1>4, <2>1
<1> QED
  BY <1>3, <1>4

(* What is left of a dead-letter is a sequence of calls.                      *)
LEMMA BuriesSeq ==
  ASSUME NEW e \in Entry, NEW k \in 1..4, NEW calls, Buries(calls, e, k)
  PROVE  \E S : calls \in Seq(S)
<1>1. PICK w : w = WriteAtomically("deadLetter", Append(DeadLetters(dir), e))
  OBVIOUS
<1>2. PICK ack : ack = Acknowledge(e)
  OBVIOUS
<1>3. PICK S : w \in Seq(S) /\ Len(w) = 4
  BY <1>1, WriteCalls
<1>4. PICK T : ack \in Seq(T)
  BY <1>2, AcknowledgeCalls
<1>5. calls = From(w, k) \o ack
  BY <1>1, <1>2 DEF Buries
<1>6. From(w, k) \in Seq(S)
  <2>1. k \in 1..Len(w)
    BY <1>3
  <2> QED
    BY <1>3, <2>1, FromStep
<1>7. From(w, k) \in Seq(S \cup T) /\ ack \in Seq(S \cup T)
  BY <1>4, <1>6, SeqMonotonic
<1>8. calls \in Seq(S \cup T)
  BY <1>5, <1>7, ConcatProperties
<1> QED
  BY <1>8

(* A dead-letter is the write of the dead letters and an acknowledgement.     *)
LEMMA DeadLetterCalls ==
  ASSUME NEW e
  PROVE  DeadLetter(e) =
           From(WriteAtomically("deadLetter", Append(DeadLetters(dir), e)), 1) \o Acknowledge(e)
<1>1. PICK w : w = WriteAtomically("deadLetter", Append(DeadLetters(dir), e))
  OBVIOUS
<1>2. PICK o : o = WriteAtomically("offset", e)
  OBVIOUS
<1>3. PICK S : w \in Seq(S)
  BY <1>1, WriteCalls
<1>4. PICK T : o \in Seq(T)
  BY <1>2, WriteCalls
<1>5. PICK u : u = CleanUp
  OBVIOUS
<1> DEFINE R == {Unlink("inFlight"), Unlink("responded")}
<1>6. u \in Seq(R)
  BY <1>5 DEF CleanUp
<1> DEFINE V == S \cup T \cup R
<1>7. w \in Seq(V) /\ o \in Seq(V) /\ u \in Seq(V)
  BY <1>3, <1>4, <1>6, SeqMonotonic
<1> HIDE DEF V
<1>8. (w \o o) \o u = w \o (o \o u)
  BY <1>7, ConcatAssociative
<1>9. DeadLetter(e) = (w \o o) \o u /\ Acknowledge(e) = o \o u
  BY <1>1, <1>2, <1>5 DEF DeadLetter, Acknowledge
<1>10. From(w, 1) = w
  BY <1>3, AllCalls
<1> QED
  BY <1>1, <1>8, <1>9, <1>10

(* The cursor is where it is, over entries that have passed: one more that    *)
(* passes lets it move on.                                                    *)
LEMMA OneMorePasses ==
  ASSUME NEW d, Good(d), NEW e, e = Cursor(d) + 1, Passed(d, e)
  PROVE  PassedUpTo(d, e)
<1>1. Cursor(d) \in Nat
  BY GoodFacts, FilesAssumption DEF Good
<1> QED
  BY <1>1 DEF Good, PassedUpTo

(* What a recover is about to do with the artifacts it read.                  *)
LEMMA RecoverProgram ==
  ASSUME JournalInv, NEW policy \in Policies, UNCHANGED <<journal, answered, latest>>,
         dropped' = IF policy = "drop" /\ Live
                      THEN dropped \cup {dir["inFlight"].data} ELSE dropped
  PROVE  \E rest : /\ RecoverCalls(policy) = <<Unlink(TmpOf["deadLetter"])>> \o rest
                   /\ Acknowledging(rest)' \/ \E e \in Entry : Buries(rest, e, 1)'
<1>1. dir \in Dirs /\ Good(dir) /\ dir' = dir
  BY JournalType DEF dir
<1>2. /\ Cursor(dir) \in 0..Entries /\ Entries \in Nat
      /\ Exists("inFlight") => dir["inFlight"].data \in Entry
  BY <1>1, GoodFacts, FilesAssumption DEF Good, Exists
<1>3. CASE ~Exists("inFlight")
  <2> DEFINE rest == <<Unlink("responded")>>
  <2>1. RecoverCalls(policy) = <<Unlink(TmpOf["deadLetter"])>> \o rest
    BY <1>3 DEF RecoverCalls, Live
  <2>2. rest = From(Acknowledge(0), 6)
    BY AcknowledgeCalls
  <2> HIDE DEF rest
  <2>3. ~Exists("inFlight")'
    BY <1>1, <1>3 DEF Exists
  <2>4. Acknowledges(rest, 0, 6)'
    BY <2>2, <2>3 DEF Acknowledges, TmpReady
  <2> QED
    BY <1>2, <2>1, <2>4 DEF Acknowledging
<1>4. CASE Exists("inFlight") /\ ~Live
  <2> DEFINE rest == CleanUp
  <2>1. RecoverCalls(policy) = <<Unlink(TmpOf["deadLetter"])>> \o rest
    BY <1>4 DEF RecoverCalls
  <2>2. rest = From(Acknowledge(0), 5)
    BY AcknowledgeCalls
  <2> HIDE DEF rest
  <2>3. Acknowledges(rest, 0, 5)'
    BY <2>2 DEF Acknowledges, TmpReady
  <2> QED
    BY <1>2, <2>1, <2>3 DEF Acknowledging
<1>5. CASE Live
  <2>1. PICK e : e = dir["inFlight"].data
    OBVIOUS
  <2>2. e \in Entry /\ e = Cursor(dir) + 1 /\ e - 1 = Cursor(dir) /\ e - 1 \in 0..Entries
        /\ e \in 0..Entries
    BY <1>1, <1>2, <1>5, <2>1 DEF Live, Good, Entry, Exists
  <2>3. RecoverCalls(policy) = <<Unlink(TmpOf["deadLetter"])>> \o Apply(policy, e)
    BY <1>5, <2>1 DEF RecoverCalls, Live
  <2>4. policy \in {"retry", "deadletter", "drop"}
    BY FilesAssumption
  <2>5. CASE policy = "retry"
    <3>1. PICK v \in 0..Entries : v = e - 1
      BY <2>2
    <3>2. PICK rest : rest = Apply(policy, e)
      OBVIOUS
    <3>3. rest = From(Acknowledge(v), 1)
      BY <2>5, <3>1, <3>2, AcknowledgeCalls, AllCalls DEF Apply
    <3>4. (Cursor(dir) <= v /\ PassedUpTo(dir, v))'
      BY <1>1, <1>2, <2>2, <2>5, <3>1 DEF Good, PassedUpTo, Passed
    <3>5. Acknowledges(rest, v, 1)'
      BY <3>3, <3>4 DEF Acknowledges, TmpReady
    <3>6. Acknowledging(rest)'
      BY <3>5 DEF Acknowledging
    <3> QED
      BY <2>3, <3>2, <3>6
  <2>6. CASE policy = "drop"
    <3>0. PICK rest : rest = Apply(policy, e)
      OBVIOUS
    <3>1. rest = From(Acknowledge(e), 1)
      BY <2>6, <3>0, AcknowledgeCalls, AllCalls DEF Apply
    <3>2. e \in dropped' /\ dropped \subseteq dropped'
      BY <1>5, <2>1, <2>6
    <3>3. (PassedUpTo(dir, e))'
      BY <1>1, <1>2, <2>2, <3>2 DEF Good, PassedUpTo, Passed
    <3>4. (Cursor(dir) <= e)'
      BY <1>1, <1>2, <2>2
    <3>5. Acknowledges(rest, e, 1)'
      BY <3>1, <3>3, <3>4 DEF Acknowledges, TmpReady
    <3>6. Acknowledging(rest)'
      BY <2>2, <3>5 DEF Acknowledging
    <3> QED
      BY <2>3, <3>0, <3>6
  <2>7. CASE policy = "deadletter"
    <3>1. Apply(policy, e) = DeadLetter(e)
      BY <2>7 DEF Apply
    <3>2. PICK rest : rest = Apply(policy, e)
      OBVIOUS
    <3>3. Buries(rest, e, 1)
      <4>1. rest = From(WriteAtomically("deadLetter", Append(DeadLetters(dir), e)), 1)
                     \o Acknowledge(e)
        BY <3>1, <3>2, DeadLetterCalls
      <4>2. TmpReady("deadLetter", Append(DeadLetters(dir), e), 1)
        BY DEF TmpReady
      <4> QED
        BY <2>2, <4>1, <4>2 DEF Buries
    <3>4. Buries(rest, e, 1)'
      BY <1>1, <3>3 DEF Buries, TmpReady
    <3> QED
      BY <2>2, <2>3, <3>2, <3>4
  <2> QED
    BY <2>4, <2>5, <2>6, <2>7
<1> QED
  BY <1>3, <1>4, <1>5

(* An acknowledgement goes on until it has no call left.                      *)
LEMMA AcknowledgingStep ==
  ASSUME JournalInv, UNCHANGED ghosts, NEW calls, Acknowledging(calls),
         Perform(Head(calls)), NEW rest, rest = Tail(calls)
  PROVE  calls # <<>> => Advances(Head(calls)) /\ Acknowledging(rest)'
<1>1. PICK v \in 0..Entries, k \in 1..7 : Acknowledges(calls, v, k)
  BY DEF Acknowledging
<1>2. calls = <<>> <=> k = 7
  BY <1>1, AcknowledgeEnds
<1>3. CASE k \in 1..6
  <2>1. Advances(Head(calls)) /\ Acknowledges(rest, v, k + 1)'
    BY <1>1, <1>3, AcknowledgeCall
  <2>2. k + 1 \in 1..7
    BY <1>3
  <2> QED
    BY <2>1, <2>2 DEF Acknowledging
<1>4. k \in 1..6 \/ k = 7
  BY <1>1
<1> QED
  BY <1>2, <1>3, <1>4

(* A dead-letter goes on with an acknowledgement.                             *)
LEMMA BuryingStep ==
  ASSUME JournalInv, UNCHANGED ghosts, NEW calls, Burying(calls),
         Perform(Head(calls)), NEW rest, rest = Tail(calls)
  PROVE  Advances(Head(calls)) /\ (Burying(rest) \/ Acknowledging(rest))'
<1>1. PICK e \in Entry, k \in 1..4 : Buries(calls, e, k)
  BY DEF Burying
<1>2. Advances(Head(calls))
  BY <1>1, BuryCall
<1>3. CASE k < 4
  <2>1. Buries(rest, e, k + 1)'
    BY <1>1, <1>3, BuryCall
  <2>2. k + 1 \in 1..4
    BY <1>1, <1>3
  <2> QED
    BY <1>2, <2>1, <2>2 DEF Burying
<1>4. CASE k = 4
  <2>1. Acknowledges(rest, e, 1)'
    BY <1>1, <1>4, BuryCall
  <2>2. e \in 0..Entries
    BY FilesAssumption DEF Entry
  <2> QED
    BY <1>2, <2>1, <2>2 DEF Acknowledging
<1> QED
  BY <1>3, <1>4

(* What a recover has to do after its first call is a sequence of calls.      *)
LEMMA SweepSeq ==
  ASSUME NEW rest, Acknowledging(rest) \/ \E e \in Entry : Buries(rest, e, 1)
  PROVE  \E S : rest \in Seq(S)
<1>1. CASE Acknowledging(rest)
  <2>1. PICK v \in 0..Entries, k \in 1..7 : rest = From(Acknowledge(v), k)
    BY <1>1 DEF Acknowledging, Acknowledges
  <2> QED
    BY <2>1, LeftSeq
<1>2. CASE \E e \in Entry : Buries(rest, e, 1)
  <2>1. PICK e \in Entry, k \in 1..4 : Buries(rest, e, k)
    BY <1>2
  <2> QED
    BY <2>1, BuriesSeq
<1> QED
  BY <1>1, <1>2

(* After the first call of a recover the rest starts.                         *)
LEMMA SweepingStep ==
  ASSUME JournalInv, UNCHANGED ghosts, NEW calls, Sweeping(calls),
         Perform(Head(calls)), NEW rest, rest = Tail(calls)
  PROVE  Advances(Head(calls)) /\ (Burying(rest) \/ Acknowledging(rest))'
<1>1. /\ calls = <<Unlink(TmpOf["deadLetter"])>> \o rest
      /\ Acknowledging(rest) \/ \E e \in Entry : Buries(rest, e, 1)
  BY DEF Sweeping
<1>2. \E S : rest \in Seq(S)
  BY <1>1, SweepSeq
<1>3. Head(calls) = Unlink(TmpOf["deadLetter"])
  BY <1>1, <1>2, CallFirst
<1>4. Perform(Unlink(TmpOf["deadLetter"]))
  BY <1>3
<1>5. CASE Acknowledging(rest)
  BY <1>3, <1>4, <1>5, SweepCall DEF Acknowledging
<1>6. CASE \E e \in Entry : Buries(rest, e, 1)
  BY <1>3, <1>4, <1>6, SweepCall DEF Burying
<1> QED
  BY <1>1, <1>5, <1>6

(* A call of the operation under way.                                         *)
LEMMA CallStep ==
  ASSUME FilesInv, MakeCall
  PROVE  JournalInv' /\ Advances(Head(todo)) /\ AcknowledgeInv' /\ RecoverInv' /\ DeliverInv'
<1>1. /\ JournalInv /\ UNCHANGED ghosts /\ UNCHANGED phase
      /\ todo # <<>> /\ Perform(Head(todo)) /\ todo' = Tail(todo)
      /\ phase \in {"recover", "acknowledge", "deliver"}
  BY DEF FilesInv, TypeOK, MakeCall, Idle
<1>2. PICK calls : calls = todo
  OBVIOUS
<1>3. PICK rest : rest = Tail(calls)
  OBVIOUS
<1>4. Perform(Head(calls)) /\ calls # <<>> /\ todo' = rest
  BY <1>1, <1>2, <1>3
<1>5. CASE phase = "acknowledge"
  <2>1. Acknowledging(calls)
    BY <1>2, <1>5 DEF FilesInv, AcknowledgeInv
  <2>2. Advances(Head(calls)) /\ Acknowledging(rest)'
    BY <1>1, <1>3, <1>4, <2>1, AcknowledgingStep
  <2>3. Acknowledging(todo)'
    BY <1>4, <2>2 DEF Acknowledging, Acknowledges
  <2>4. JournalInv' /\ Advances(Head(todo))
    BY <1>2, <2>2 DEF Advances
  <2> QED
    BY <1>1, <1>5, <2>3, <2>4 DEF AcknowledgeInv, RecoverInv, DeliverInv
<1>6. CASE phase = "recover"
  <2>1. Acknowledging(calls) \/ Burying(calls) \/ Sweeping(calls)
    BY <1>2, <1>6 DEF FilesInv, RecoverInv
  <2>2. Advances(Head(calls)) /\ (Acknowledging(rest)' \/ Burying(rest)')
    BY <1>1, <1>3, <1>4, <2>1, AcknowledgingStep, BuryingStep, SweepingStep
  <2>3. (Acknowledging(todo) \/ Burying(todo))'
    BY <1>4, <2>2 DEF Acknowledging, Acknowledges, Burying, Buries
  <2>4. JournalInv' /\ Advances(Head(todo))
    BY <1>2, <2>2 DEF Advances
  <2> QED
    BY <1>1, <1>6, <2>3, <2>4 DEF AcknowledgeInv, RecoverInv, DeliverInv
<1>7. CASE phase = "deliver"
  <2>1. PICK e \in Entry, k \in 1..6 : Delivers(e, k)
    BY <1>7 DEF FilesInv, DeliverInv
  <2>2. k \in 1..5
    <3>1. ASSUME k = 6
          PROVE  todo = <<>>
      <4>1. \E S : Deliver(e) \in Seq(S) /\ Len(Deliver(e)) = 5
        BY DeliverCalls
      <4>2. From(Deliver(e), 5 + 1) = <<>>
        BY <4>1, CallsEnd
      <4> QED
        BY <2>1, <3>1, <4>2 DEF Delivers
    <3> QED
      BY <1>1, <3>1
  <2>3. Advances(Head(todo)) /\ Delivers(e, k + 1)' /\ k + 1 \in 1..6
    BY <1>1, <2>1, <2>2, DeliverCall
  <2>4. JournalInv'
    BY <2>3 DEF Advances
  <2> QED
    BY <1>1, <1>7, <2>3, <2>4 DEF AcknowledgeInv, RecoverInv, DeliverInv
<1> QED
  BY <1>1, <1>5, <1>6, <1>7

(* What an operation that is over leaves.                                     *)
LEMMA OperationOver ==
  ASSUME FilesInv, todo = <<>>
  PROVE  /\ phase \in {"recover", "acknowledge"} => ~Exists("responded")
         /\ phase = "deliver" => \E e \in Entry : Delivers(e, 6)
<1>1. PICK calls : calls = todo
  OBVIOUS
<1>2. ASSUME Acknowledging(calls)
      PROVE  ~Exists("responded")
  <2>1. PICK v \in 0..Entries, k \in 1..7 : Acknowledges(calls, v, k)
    BY <1>2 DEF Acknowledging
  <2>2. calls = <<>> <=> k = 7
    BY <2>1, AcknowledgeEnds
  <2>3. k = 7 => ~Exists("responded")
    BY <2>1 DEF Acknowledges
  <2> QED
    BY <1>1, <2>2, <2>3
<1>3. ASSUME Burying(calls)
      PROVE  FALSE
  <2>1. PICK e \in Entry, k \in 1..4 : Buries(calls, e, k)
    BY <1>3 DEF Burying
  <2>2. PICK r : r = Append(DeadLetters(dir), e)
    OBVIOUS
  <2> QED
    BY <1>1, <2>1, <2>2, CallOfBurial
<1>4. ASSUME Sweeping(calls)
      PROVE  FALSE
  <2>1. PICK rest : rest = Tail(calls)
    OBVIOUS
  <2>2. /\ calls = <<Unlink(TmpOf["deadLetter"])>> \o rest
        /\ Acknowledging(rest) \/ \E e \in Entry : Buries(rest, e, 1)
    BY <1>4, <2>1 DEF Sweeping
  <2>3. PICK S : rest \in Seq(S)
    BY <2>2, SweepSeq
  <2>4. <<Unlink(TmpOf["deadLetter"])>> \o rest # <<>>
    BY <2>3, CallFirst
  <2> QED
    BY <1>1, <2>2, <2>4
<1>5. ASSUME phase = "deliver"
      PROVE  \E e \in Entry : Delivers(e, 6)
  <2>1. PICK e \in Entry, k \in 1..6 : Delivers(e, k)
    BY <1>5 DEF FilesInv, DeliverInv
  <2>2. ASSUME k \in 1..5
        PROVE  FALSE
    <3>1. \E S : Deliver(e) \in Seq(S) /\ Len(Deliver(e)) = 5
      BY DeliverCalls
    <3>2. From(Deliver(e), k) # <<>>
      BY <2>2, <3>1, CallOf
    <3> QED
      BY <2>1, <3>2 DEF Delivers
  <2>3. k = 6
    BY <2>1, <2>2
  <2> QED
    BY <2>1, <2>3
<1>6. phase = "recover" => Acknowledging(calls) \/ Burying(calls) \/ Sweeping(calls)
  BY <1>1 DEF FilesInv, RecoverInv
<1>7. phase = "acknowledge" => Acknowledging(calls)
  BY <1>1 DEF FilesInv, AcknowledgeInv
<1> QED
  BY <1>2, <1>3, <1>4, <1>5, <1>6, <1>7

(* A recover that starts.                                                     *)
LEMMA StartRecoverStep ==
  ASSUME FilesInv, StartRecover
  PROVE  FilesInv'
<1>1. /\ JournalInv /\ TypeOK /\ SessionInv /\ NoOperatorNeeded /\ phase = "down" /\ todo = <<>>
      /\ UNCHANGED <<journal, turn, answered, latest, faults>>
  BY DEF FilesInv, SessionInv, StartRecover
<1>2. dir' = dir /\ Dirs' = Dirs /\ dir \in Dirs /\ ParseError = "none"
  BY <1>1, JournalType DEF dir, Dirs, ParseError
<1>3. PICK policy \in Policies :
        /\ todo' = RecoverCalls(policy)
        /\ dropped' = IF policy = "drop" /\ Live
                        THEN dropped \cup {dir["inFlight"].data} ELSE dropped
        /\ phase' = "recover" /\ error' = "none"
  BY <1>2 DEF StartRecover
<1>4. JournalInv'
  <2>1. \A d \in Dirs : latest' \in 0..(Cursor(d) + 1)
    BY <1>1 DEF JournalInv, Good
  <2> QED
    BY <1>1, <1>3, <2>1, JournalGrows
<1>5. TypeOK'
  <2>1. dropped' \subseteq Entry
    <3>1. Good(dir)
      BY <1>1, <1>2 DEF JournalInv
    <3>2. Exists("inFlight") => dir["inFlight"].data \in Entry
      BY <3>1, GoodFacts DEF Good, Exists
    <3> QED
      BY <1>1, <1>3, <3>2 DEF TypeOK, Live
  <2> QED
    BY <1>1, <1>3, <2>1 DEF TypeOK, Phases, DirectoryOK
<1>6. RecoverInv'
  <2>1. PICK rest : /\ RecoverCalls(policy) = <<Unlink(TmpOf["deadLetter"])>> \o rest
                    /\ Acknowledging(rest)' \/ \E e \in Entry : Buries(rest, e, 1)'
    BY <1>1, <1>3, RecoverProgram
  <2>2. \E S : rest \in Seq(S)
    <3>1. CASE Acknowledging(rest)'
      <4>1. PICK v \in 0..Entries, k \in 1..7 : rest = From(Acknowledge(v), k)
        BY <3>1 DEF Acknowledging, Acknowledges
      <4> QED
        BY <4>1, LeftSeq
    <3>2. CASE \E e \in Entry : Buries(rest, e, 1)'
      <4>1. PICK e \in Entry : Buries(rest, e, 1)'
        BY <3>2
      <4>2. Buries(rest, e, 1)
        BY <1>2, <4>1 DEF Buries, TmpReady
      <4>3. \E k \in 1..4 : Buries(rest, e, k)
        BY <4>2
      <4> QED
        BY <4>3, BuriesSeq
    <3> QED
      BY <2>1, <3>1, <3>2
  <2>3. rest = Tail(todo')
    BY <1>3, <2>1, <2>2, CallFirst
  <2>4. Sweeping(todo)'
    BY <1>3, <2>1, <2>3 DEF Sweeping
  <2> QED
    BY <2>4 DEF RecoverInv
<1>7. AcknowledgeInv' /\ DeliverInv' /\ SessionInv' /\ NoOperatorNeeded'
  BY <1>1, <1>3 DEF AcknowledgeInv, DeliverInv, SessionInv, NoOperatorNeeded, OperatorErrors
<1> QED
  BY <1>4, <1>5, <1>6, <1>7 DEF FilesInv

(* The steps between two operations, which leave the files alone.             *)
LEMMA ControlStep ==
  ASSUME FilesInv, EndRecover \/ StartSession \/ AgentResponds
  PROVE  FilesInv'
<1>1. /\ JournalInv /\ TypeOK /\ SessionInv /\ NoOperatorNeeded
      /\ UNCHANGED <<journal, todo, error, dropped, latest, faults>> /\ answered \subseteq answered'
  BY DEF FilesInv, EndRecover, StartSession, AgentResponds, ghosts
<1>2. dir' = dir /\ Dirs' = Dirs /\ dir \in Dirs
  BY <1>1, JournalType DEF dir, Dirs
<1>3. JournalInv'
  <2>1. \A d \in Dirs : latest' \in 0..(Cursor(d) + 1)
    BY <1>1 DEF JournalInv, Good
  <2> QED
    BY <1>1, <2>1, JournalGrows
<1>4. NoOperatorNeeded'
  BY <1>1 DEF NoOperatorNeeded
<1>5. \A i \in DOMAIN journal' : DirectoryOK(journal'[i])
  BY <1>1 DEF TypeOK
<1>6. CASE EndRecover
  <2>1. ~Exists("responded") /\ todo = <<>> /\ phase' = "ready" /\ phase = "recover"
    BY <1>6, OperationOver DEF EndRecover, Idle
  <2>2. TypeOK'
    BY <1>1, <1>5, <1>6, <2>1 DEF TypeOK, EndRecover, ghosts, Phases
  <2>3. SessionInv'
    BY <1>1, <1>2, <1>6, <2>1 DEF SessionInv, EndRecover, Exists
  <2> QED
    BY <1>3, <1>4, <2>1, <2>2, <2>3 DEF FilesInv, AcknowledgeInv, RecoverInv, DeliverInv
<1>7. CASE StartSession
  <2>1. phase = "ready" /\ phase' = "turn" /\ todo = <<>> /\ ~Exists("responded")
    BY <1>1, <1>7 DEF StartSession, SessionInv
  <2>2. TypeOK'
    BY <1>1, <1>5, <1>7, <2>1 DEF TypeOK, StartSession, ghosts, Phases
  <2>3. SessionInv'
    BY <1>1, <1>2, <1>7, <2>1 DEF SessionInv, StartSession, Exists
  <2> QED
    BY <1>3, <1>4, <2>1, <2>2, <2>3 DEF FilesInv, AcknowledgeInv, RecoverInv, DeliverInv
<1>8. CASE AgentResponds
  <2>1. phase = "turn" /\ phase' = "hook" /\ todo = <<>> /\ turn' = NoEntry
    BY <1>1, <1>8 DEF AgentResponds, SessionInv
  <2>2. TypeOK'
    BY <1>1, <1>5, <1>8, <2>1 DEF TypeOK, AgentResponds, Phases
  <2>3. SessionInv'
    <3>1. Exists("responded") => turn = dir["inFlight"].data /\ turn # NoEntry
      <4>1. Exists("responded") => /\ turn = dir["inFlight"].data /\ Exists("inFlight")
        BY <1>1, <2>1 DEF SessionInv
      <4>2. Exists("inFlight") => dir["inFlight"].data \in Entry
        BY <1>1, <1>2, JournalType, GoodFacts DEF Exists
      <4>3. NoEntry \notin Entry
        BY FilesAssumption DEF Entry
      <4> QED
        BY <4>1, <4>2, <4>3
    <3>2. Exists("responded") => dir["inFlight"].data \in answered'
      BY <1>8, <3>1 DEF AgentResponds
    <3> QED
      BY <1>1, <1>2, <2>1, <3>2 DEF SessionInv, Exists, Cursor
  <2> QED
    BY <1>3, <1>4, <2>1, <2>2, <2>3 DEF FilesInv, AcknowledgeInv, RecoverInv, DeliverInv
<1> QED
  BY <1>6, <1>7, <1>8

(* The hook acknowledges the entry that the agent has answered.               *)
LEMMA HookAcknowledgesStep ==
  ASSUME FilesInv, HookAcknowledges
  PROVE  FilesInv'
<1>1. /\ JournalInv /\ TypeOK /\ SessionInv /\ NoOperatorNeeded
      /\ phase = "hook" /\ todo = <<>> /\ Exists("responded") /\ turn = NoEntry
      /\ UNCHANGED <<journal, turn, answered, dropped, latest, faults>>
  BY DEF FilesInv, SessionInv, HookAcknowledges, ghosts
<1>2. dir' = dir /\ Dirs' = Dirs /\ dir \in Dirs /\ Good(dir) /\ ParseError = "none"
  BY <1>1, JournalType DEF dir, Dirs, ParseError
<1>3. PICK e : e = Cursor(dir) + 1
  OBVIOUS
<1>4. /\ Exists("inFlight") /\ dir["inFlight"].data = e /\ e \in answered /\ e \in Entry
      /\ Cursor(dir) \in 0..Entries /\ e \in 0..Entries
  <2>1. Exists("inFlight") /\ dir["inFlight"].data = e /\ e \in answered
    BY <1>1, <1>3 DEF SessionInv
  <2>2. e \in Entry /\ Cursor(dir) \in 0..Entries
    BY <1>2, <2>1, GoodFacts DEF Good, Exists
  <2>3. e \in 0..Entries
    BY <2>2, FilesAssumption DEF Entry
  <2> QED
    BY <2>1, <2>2, <2>3
<1>5. ~(dir["inFlight"].data < Cursor(dir))
  BY <1>3, <1>4, FilesAssumption
<1>6. todo' = Acknowledge(e) /\ phase' = "acknowledge" /\ UNCHANGED error
  BY <1>2, <1>4, <1>5 DEF HookAcknowledges
<1>7. JournalInv'
  <2>1. \A d \in Dirs : latest' \in 0..(Cursor(d) + 1)
    BY <1>1 DEF JournalInv, Good
  <2> QED
    BY <1>1, <2>1, JournalGrows
<1>8. Acknowledges(todo, e, 1)'
  <2>1. todo' = From(Acknowledge(e), 1)
    BY <1>6, AcknowledgeCalls, AllCalls
  <2>2. PassedUpTo(dir, e)
    BY <1>2, <1>3, <1>4, OneMorePasses DEF Passed
  <2>3. (PassedUpTo(dir, e))'
    BY <1>1, <1>2, <2>2 DEF PassedUpTo, Passed
  <2>4. (Cursor(dir) <= e)'
    BY <1>2, <1>3, <1>4
  <2> QED
    BY <2>1, <2>3, <2>4 DEF Acknowledges, TmpReady
<1>9. TypeOK' /\ SessionInv' /\ NoOperatorNeeded'
  BY <1>1, <1>2, <1>6 DEF TypeOK, Phases, DirectoryOK, SessionInv, NoOperatorNeeded
<1>10. AcknowledgeInv'
  BY <1>4, <1>8 DEF AcknowledgeInv, Acknowledging
<1> QED
  BY <1>6, <1>7, <1>9, <1>10 DEF FilesInv, RecoverInv, DeliverInv

(* The hook starts the delivery of the next entry, or approves the stop.      *)
LEMMA HookReadsStep ==
  ASSUME FilesInv, HookReads
  PROVE  FilesInv'
<1>1. /\ JournalInv /\ TypeOK /\ SessionInv /\ NoOperatorNeeded
      /\ phase \in {"hook", "acknowledge"} /\ todo = <<>> /\ turn = NoEntry
      /\ UNCHANGED <<journal, turn, answered, dropped, latest>>
      /\ faults' \in 0..MaxFaults
  BY FilesAssumption DEF FilesInv, TypeOK, SessionInv, HookReads, Strike, ghosts, Idle
<1>2. /\ dir' = dir /\ Dirs' = Dirs /\ dir \in Dirs /\ Good(dir)
      /\ ~Corrupt("offset") /\ (phase = "hook" \/ ~Exists("responded"))
  BY <1>1, JournalType, OperationOver DEF dir, Dirs
<1>3. JournalInv'
  <2>1. \A d \in Dirs : latest' \in 0..(Cursor(d) + 1)
    BY <1>1 DEF JournalInv, Good
  <2> QED
    BY <1>1, <2>1, JournalGrows
<1>4. CASE Drained /\ phase' = "down" /\ UNCHANGED <<todo, error>>
  <2>1. TypeOK' /\ SessionInv' /\ NoOperatorNeeded'
    BY <1>1, <1>2, <1>4 DEF TypeOK, Phases, DirectoryOK, SessionInv, NoOperatorNeeded
  <2> QED
    BY <1>3, <1>4, <2>1 DEF FilesInv, AcknowledgeInv, RecoverInv, DeliverInv
<1>5. CASE /\ ~Drained /\ todo' = Deliver(Cursor(dir) + 1)
           /\ phase' = "deliver" /\ UNCHANGED error
  <2>1. PICK e : e = Cursor(dir) + 1
    OBVIOUS
  <2>2. e \in Entry
    <3>1. Cursor(dir) \in 0..Entries
      BY <1>2, GoodFacts DEF Good
    <3> QED
      BY <1>5, <2>1, <3>1, FilesAssumption DEF Drained, Entry
  <2>3. todo' = From(Deliver(e), 1)
    BY <1>5, <2>1, DeliverCalls, AllCalls
  <2>4. (e = Cursor(dir) + 1)'
    BY <1>2, <2>1
  <2>5. Delivers(e, 1)'
    BY <2>3, <2>4 DEF Delivers, TmpReady
  <2>6. DeliverInv'
    BY <2>2, <2>5 DEF DeliverInv
  <2>7. TypeOK' /\ SessionInv' /\ NoOperatorNeeded'
    BY <1>1, <1>2, <1>5 DEF TypeOK, Phases, DirectoryOK, SessionInv, NoOperatorNeeded
  <2> QED
    BY <1>3, <1>5, <2>6, <2>7 DEF FilesInv, AcknowledgeInv, RecoverInv
<1> QED
  BY <1>2, <1>4, <1>5 DEF HookReads

(* The stop is blocked: the next entry reaches the agent.                     *)
LEMMA HookBlocksStep ==
  ASSUME FilesInv, HookBlocks
  PROVE  FilesInv'
<1>1. /\ JournalInv /\ TypeOK /\ SessionInv /\ NoOperatorNeeded
      /\ phase = "deliver" /\ todo = <<>> /\ phase' = "turn" /\ turn' = dir["inFlight"].data
      /\ latest' = IF turn' > latest THEN turn' ELSE latest
      /\ UNCHANGED <<journal, todo, error, answered, dropped, faults>>
  BY DEF FilesInv, HookBlocks, Idle
<1>2. dir' = dir /\ Dirs' = Dirs /\ dir \in Dirs /\ Good(dir)
  BY <1>1, JournalType DEF dir, Dirs
<1>3. PICK e \in Entry : Delivers(e, 6)
  BY <1>1, OperationOver
<1>4. /\ e = Cursor(dir) + 1 /\ \A d \in Dirs : Cursor(d) = Cursor(dir)
      /\ dir["inFlight"].data = e /\ Exists("inFlight") /\ Exists("responded")
  BY <1>3 DEF Delivers
<1>5. latest \in 0..e /\ Entries \in Nat
  BY <1>2, <1>4, FilesAssumption DEF Good
<1>6. latest' = e /\ turn' = e
  BY <1>1, <1>4, <1>5 DEF Entry
<1>7. \A d \in Dirs : latest' \in 0..(Cursor(d) + 1)
  BY <1>4, <1>6, FilesAssumption DEF Entry
<1>8. JournalInv'
  BY <1>1, <1>7, JournalGrows
<1>9. TypeOK'
  <2>1. \A i \in DOMAIN journal' : DirectoryOK(journal'[i])
    BY <1>1 DEF TypeOK
  <2>2. latest' \in 0..Entries /\ turn' \in Entry \cup {NoEntry}
    BY <1>5, <1>6 DEF Entry
  <2> QED
    BY <1>1, <2>1, <2>2 DEF TypeOK, Phases
<1>10. SessionInv'
  BY <1>1, <1>2, <1>4, <1>6 DEF SessionInv, Exists, Cursor
<1> QED
  BY <1>1, <1>8, <1>9, <1>10
  DEF FilesInv, AcknowledgeInv, RecoverInv, DeliverInv, NoOperatorNeeded

(* A call of the operation under way.                                         *)
LEMMA MakeCallStep ==
  ASSUME FilesInv, MakeCall
  PROVE  FilesInv'
<1>1. JournalInv' /\ AcknowledgeInv' /\ RecoverInv' /\ DeliverInv'
  BY CallStep
<1>2. /\ TypeOK /\ SessionInv /\ NoOperatorNeeded /\ UNCHANGED <<phase, turn, error, ghosts, faults>>
      /\ phase \in {"recover", "acknowledge", "deliver"}
  BY DEF FilesInv, TypeOK, MakeCall, Idle
<1>3. journal' # <<>> /\ \A i \in DOMAIN journal' : DirectoryOK(journal'[i])
  <2>1. journal' # <<>> /\ \A d \in Dirs' : Good(d)'
    BY <1>1 DEF JournalInv
  <2>2. \A d \in Dirs' : DirectoryOK(d)
    BY <2>1 DEF Good, DirectoryOK
  <2> QED
    BY <2>1, <2>2 DEF Dirs
<1>4. TypeOK'
  BY <1>2, <1>3 DEF TypeOK, ghosts
<1>5. SessionInv' /\ NoOperatorNeeded'
  BY <1>2 DEF SessionInv, NoOperatorNeeded
<1> QED
  BY <1>1, <1>4, <1>5 DEF FilesInv

(* The calls are on the files of the artifacts.                               *)
LEMMA WriteFile ==
  ASSUME NEW f \in DOMAIN TmpOf, NEW v, NEW k \in 1..4
  PROVE  WriteAtomically(f, v)[k].file \in FileName
<1>1. /\ Create(TmpOf[f]).file = TmpOf[f] /\ Write(TmpOf[f], v).file = TmpOf[f]
      /\ Sync(TmpOf[f]).file = TmpOf[f] /\ Rename(TmpOf[f], f).file = TmpOf[f]
  BY DEF Create, Write, Sync, Rename
<1>2. TmpOf[f] \in FileName
  BY Names
<1>3. CASE k = 1
  <2>1. WriteAtomically(f, v)[k] = Create(TmpOf[f])
    BY <1>3, WriteCalls
  <2> QED
    BY <1>1, <1>2, <2>1
<1>4. CASE k = 2
  <2>1. WriteAtomically(f, v)[k] = Write(TmpOf[f], v)
    BY <1>4, WriteCalls
  <2> QED
    BY <1>1, <1>2, <2>1
<1>5. CASE k = 3
  <2>1. WriteAtomically(f, v)[k] = Sync(TmpOf[f])
    BY <1>5, WriteCalls
  <2> QED
    BY <1>1, <1>2, <2>1
<1>6. CASE k = 4
  <2>1. WriteAtomically(f, v)[k] = Rename(TmpOf[f], f)
    BY <1>6, WriteCalls
  <2> QED
    BY <1>1, <1>2, <2>1
<1> QED
  BY <1>3, <1>4, <1>5, <1>6

(* So are those that remove a file and the one that touches the flag.         *)
LEMMA PlainFile ==
  ASSUME NEW g
  PROVE  Unlink(g).file = g /\ Touch(g, Flag).file = g
BY DEF Unlink, Touch

(* So is the next one of the operation under way.                             *)
LEMMA NextFile ==
  ASSUME FilesInv, todo # <<>>
  PROVE  Head(todo).file \in FileName
<1>1. PICK calls : calls = todo
  OBVIOUS
<1>2. /\ {"offset", "inFlight", "deadLetter"} = DOMAIN TmpOf
      /\ "inFlight" \in FileName /\ "responded" \in FileName
      /\ TmpOf["deadLetter"] \in FileName
  BY Names DEF Artifact
<1>3. ASSUME Acknowledging(calls)
      PROVE  Head(calls).file \in FileName
  <2>1. PICK v \in 0..Entries, k \in 1..7 : Acknowledges(calls, v, k)
    BY <1>3 DEF Acknowledging
  <2>2. calls = <<>> <=> k = 7
    BY <2>1, AcknowledgeEnds
  <2>3. k \in 1..6
    BY <1>1, <2>1, <2>2
  <2>4. Head(calls) = Acknowledge(v)[k]
    <3>1. \E S : Acknowledge(v) \in Seq(S) /\ Len(Acknowledge(v)) = 6
      BY AcknowledgeCalls
    <3>2. calls = From(Acknowledge(v), k)
      BY <2>1 DEF Acknowledges
    <3> QED
      BY <2>3, <3>1, <3>2, CallOf
  <2>5. CASE k \in 1..4
    <3>1. Head(calls) = WriteAtomically("offset", v)[k]
      BY <2>4, <2>5, AcknowledgeCalls
    <3> QED
      BY <1>2, <2>5, <3>1, WriteFile
  <2>6. CASE k = 5
    <3>1. Head(calls) = Unlink("inFlight")
      BY <2>4, <2>6, AcknowledgeCalls
    <3> QED
      BY <1>2, <3>1, PlainFile
  <2>7. CASE k = 6
    <3>1. Head(calls) = Unlink("responded")
      BY <2>4, <2>7, AcknowledgeCalls
    <3> QED
      BY <1>2, <3>1, PlainFile
  <2> QED
    BY <2>3, <2>5, <2>6, <2>7
<1>4. ASSUME Burying(calls)
      PROVE  Head(calls).file \in FileName
  <2>1. PICK e \in Entry, k \in 1..4 : Buries(calls, e, k)
    BY <1>4 DEF Burying
  <2>2. PICK r : r = Append(DeadLetters(dir), e)
    OBVIOUS
  <2>3. Head(calls) = WriteAtomically("deadLetter", r)[k]
    BY <2>1, <2>2, CallOfBurial
  <2> QED
    BY <1>2, <2>3, WriteFile
<1>5. ASSUME Sweeping(calls)
      PROVE  Head(calls).file \in FileName
  <2>1. PICK rest : /\ calls = <<Unlink(TmpOf["deadLetter"])>> \o rest
                    /\ Acknowledging(rest) \/ \E e \in Entry : Buries(rest, e, 1)
    BY <1>5 DEF Sweeping
  <2>2. \E S : rest \in Seq(S)
    BY <2>1, SweepSeq
  <2>3. Head(calls) = Unlink(TmpOf["deadLetter"])
    BY <2>1, <2>2, CallFirst
  <2> QED
    BY <1>2, <2>3, PlainFile
<1>6. ASSUME NEW e \in Entry, NEW k \in 1..6, Delivers(e, k)
      PROVE  Head(calls).file \in FileName
  <2>1. \E S : Deliver(e) \in Seq(S) /\ Len(Deliver(e)) = 5
    BY DeliverCalls
  <2>2. From(Deliver(e), 5 + 1) = <<>>
    BY <2>1, CallsEnd
  <2>3. calls = From(Deliver(e), k)
    BY <1>1, <1>6 DEF Delivers
  <2>4. k \in 1..5
    BY <1>1, <2>2, <2>3
  <2>5. Head(calls) = Deliver(e)[k]
    BY <2>1, <2>3, <2>4, CallOf
  <2>6. CASE k \in 1..4
    <3>1. Head(calls) = WriteAtomically("inFlight", e)[k]
      BY <2>5, <2>6, DeliverCalls
    <3> QED
      BY <1>2, <2>6, <3>1, WriteFile
  <2>7. CASE k = 5
    <3>1. Head(calls) = Touch("responded", Flag)
      BY <2>5, <2>7, DeliverCalls
    <3> QED
      BY <1>2, <3>1, PlainFile
  <2> QED
    BY <2>4, <2>6, <2>7
<1>7. phase \in {"recover", "acknowledge", "deliver"}
  BY DEF FilesInv, TypeOK
<1>8. Head(calls).file \in FileName
  BY <1>1, <1>3, <1>4, <1>5, <1>6, <1>7 DEF FilesInv, AcknowledgeInv, RecoverInv, DeliverInv
<1> QED
  BY <1>1, <1>8

(* An operation fails, or its process dies; the files stay as they are.       *)
LEMMA FailureStep ==
  ASSUME FilesInv, CallFails \/ ReadFails \/ Crash
  PROVE  FilesInv'
<1>1. /\ JournalInv /\ TypeOK /\ SessionInv /\ NoOperatorNeeded
      /\ UNCHANGED <<journal, answered, dropped, latest>>
      /\ phase' = "down" /\ faults < MaxFaults /\ faults' = faults + 1
  BY DEF FilesInv, CallFails, ReadFails, Crash, Strike, ghosts
<1>2. todo' = <<>>
  BY DEF CallFails, ReadFails, Crash, Idle
<1>3. turn' = NoEntry
  BY <1>1 DEF CallFails, ReadFails, Crash, SessionInv, FilesInv, TypeOK, Idle
<1>4. error' \in (Errors \cup {"none"}) \ OperatorErrors
  <2>1. CASE CallFails
    <3>1. error' = WriteError(Head(todo).file)
      BY <2>1 DEF CallFails
    <3>2. Head(todo).file \in FileName
      BY <2>1, NextFile DEF CallFails, Idle
    <3>3. WriteError(Head(todo).file) \in WriteErrors
      BY <3>2 DEF WriteError, FileName, Artifact, TmpOf, WriteErrors
    <3> QED
      BY <3>1, <3>3 DEF Errors, WriteErrors, OperatorErrors
  <2>2. CASE ReadFails
    BY <2>2 DEF ReadFails, Errors, ReadErrors, OperatorErrors
  <2>3. CASE Crash
    BY <1>1, <2>3 DEF Crash, TypeOK, NoOperatorNeeded
  <2> QED
    BY <2>1, <2>2, <2>3
<1>5. JournalInv'
  <2>1. \A d \in Dirs : latest' \in 0..(Cursor(d) + 1)
    BY <1>1 DEF JournalInv, Good
  <2> QED
    BY <1>1, <2>1, JournalGrows
<1>6. TypeOK'
  BY <1>1, <1>2, <1>3, <1>4, FilesAssumption DEF TypeOK, Phases, DirectoryOK
<1> QED
  BY <1>1, <1>2, <1>3, <1>4, <1>5, <1>6
  DEF FilesInv, AcknowledgeInv, RecoverInv, DeliverInv, SessionInv, NoOperatorNeeded

(* What the disk gives back of a directory whose artifacts are safe.          *)
LEMMA RecoveredArtifacts ==
  ASSUME NEW d, DirectoryOK(d), Whole(d), NEW lost, lost \subseteq Unsynced(d)
  PROVE  DirectoryOK(Recovered(d, lost)) /\ \A f \in Artifact : Recovered(d, lost)[f] = d[f]
<1> DEFINE c == Recovered(d, lost)
<1>1. /\ DOMAIN d = FileName /\ DOMAIN c = FileName
      /\ \A f \in FileName : c[f] = IF d[f] = Absent THEN Absent
                                    ELSE [data   |-> IF f \in lost THEN Torn ELSE d[f].data,
                                          synced |-> TRUE]
  BY DEF DirectoryOK, Recovered
<1>2. \A f \in Artifact : c[f] = d[f]
  <2> SUFFICES ASSUME NEW f \in Artifact, d[f] # Absent
               PROVE  c[f] = d[f]
    BY <1>1, Names
  <2>1. d[f] \in File(Contents[f]) /\ d[f].synced /\ f \notin lost
    BY DEF DirectoryOK, Whole, Unsynced
  <2>2. d[f] = [data |-> d[f].data, synced |-> TRUE]
    BY <2>1 DEF File
  <2> QED
    BY <1>1, <2>1, <2>2, Names
<1>3. \A a \in DOMAIN TmpOf : c[TmpOf[a]] \in File(Contents[a]) \cup {Absent}
  <2> SUFFICES ASSUME NEW a \in DOMAIN TmpOf, d[TmpOf[a]] # Absent
               PROVE  c[TmpOf[a]] \in File(Contents[a])
    BY <1>1, Names
  <2>1. d[TmpOf[a]] \in File(Contents[a])
    BY FileFacts
  <2>2. d[TmpOf[a]].data \in Contents[a] \cup {Torn}
    BY <2>1 DEF File
  <2>3. c[TmpOf[a]] = [data   |-> IF TmpOf[a] \in lost THEN Torn ELSE d[TmpOf[a]].data,
                       synced |-> TRUE]
    BY <1>1, Names
  <2> QED
    BY <2>2, <2>3 DEF File
<1> QED
  BY <1>1, <1>2, <1>3 DEF DirectoryOK

(* The power fails.                                                           *)
LEMMA PowerLossStep ==
  ASSUME FilesInv, PowerLoss
  PROVE  FilesInv'
<1>1. /\ JournalInv /\ TypeOK /\ NoOperatorNeeded
      /\ UNCHANGED <<error, answered, dropped, latest>> /\ todo' = <<>> /\ turn' = NoEntry
      /\ phase' = "down" /\ faults < MaxFaults /\ faults' = faults + 1
  BY DEF FilesInv, PowerLoss, Strike, ghosts
<1>2. PICK i \in DOMAIN journal : \E lost \in SUBSET Unsynced(journal[i]) :
        journal' = <<Recovered(journal[i], lost)>>
  BY DEF PowerLoss, PowerFails
<1>2a. PICK lost \in SUBSET Unsynced(journal[i]) : journal' = <<Recovered(journal[i], lost)>>
  BY <1>2
<1>3. PICK d : d = journal[i]
  OBVIOUS
<1>4. PICK c : c = Recovered(d, lost)
  OBVIOUS
<1>5. d \in Dirs /\ Good(d) /\ DirectoryOK(d) /\ Whole(d)
  BY <1>1, <1>3, JournalType DEF Dirs
<1>6. DirectoryOK(c) /\ \A f \in Artifact : c[f] = d[f]
  BY <1>2a, <1>3, <1>4, <1>5, RecoveredArtifacts
<1>7. Good(c)
  BY <1>5, <1>6, SameArtifacts
<1>8. Good(c)'
  <2>1. latest' \in 0..(Cursor(c) + 1)
    BY <1>1, <1>7 DEF Good
  <2> QED
    BY <1>1, <1>7, <2>1, GoodGrows
<1>9. journal' = <<c>>
  BY <1>2a, <1>3, <1>4
<1>10. /\ Dirs' = {c} /\ dir' = c /\ journal' # <<>> /\ journal' \in Seq(Dirs')
       /\ journal'[1] = c /\ DOMAIN journal' = {1}
  <2>1. Len(journal') = 1 /\ DOMAIN journal' = {1} /\ journal'[1] = c /\ journal' # <<>>
    BY <1>9
  <2>2. Dirs' = {c} /\ dir' = c
    BY <2>1 DEF Dirs, dir
  <2>3. <<c>> \in Seq({c})
    OBVIOUS
  <2> QED
    BY <1>9, <2>1, <2>2, <2>3
<1>11. IsPrefix(DeadLetters(c), DeadLetters(c))
  BY <1>7, GoodFacts, PrefixOrder DEF Good
<1>12. JournalInv'
  BY <1>8, <1>10, <1>11 DEF JournalInv, DeadLetters
<1>13. TypeOK'
  BY <1>1, <1>6, <1>10, FilesAssumption DEF TypeOK, Phases, DirectoryOK
<1> QED
  BY <1>1, <1>12, <1>13
  DEF FilesInv, AcknowledgeInv, RecoverInv, DeliverInv, SessionInv, NoOperatorNeeded

-----------------------------------------------------------------------------
(* The theorems.                                                              *)

(* At first there is no file.                                                 *)
LEMMA InitFiles ==
  ASSUME Init
  PROVE  FilesInv
<1> DEFINE d == [f \in FileName |-> Absent]
<1>1. journal = <<d>> /\ latest = 0 /\ answered = {} /\ dropped = {}
  BY DEF Init
<1>2. /\ DOMAIN d = FileName /\ \A f \in FileName : d[f] = Absent
      /\ Artifact \subseteq FileName /\ \A a \in DOMAIN TmpOf : TmpOf[a] \in FileName
  BY Names
<1> HIDE DEF d
<1>3. DirectoryOK(d) /\ Whole(d)
  BY <1>2 DEF DirectoryOK, Whole
<1>4. Cursor(d) = 0 /\ DeadLetters(d) = <<>> /\ d["inFlight"] = Absent /\ d["responded"] = Absent
  BY <1>2 DEF Cursor, DeadLetters, Artifact
<1>5. Good(d)
  BY <1>1, <1>3, <1>4 DEF Good, PassedUpTo
<1>6. Dirs = {d} /\ dir = d /\ journal # <<>> /\ journal[1] = d /\ journal \in Seq(Dirs)
  <2>1. Len(journal) = 1 /\ DOMAIN journal = {1} /\ journal[1] = d /\ journal # <<>>
    BY <1>1
  <2>2. Dirs = {d} /\ dir = d
    BY <2>1 DEF Dirs, dir
  <2>3. <<d>> \in Seq({d})
    OBVIOUS
  <2> QED
    BY <1>1, <2>1, <2>2, <2>3
<1>7. IsPrefix(DeadLetters(d), DeadLetters(d))
  BY <1>5, GoodFacts, PrefixOrder DEF Good
<1>8. JournalInv
  BY <1>5, <1>6, <1>7 DEF JournalInv
<1>9. phase = "down" /\ todo = <<>> /\ turn = NoEntry /\ error = "none" /\ faults = 0
  BY DEF Init
<1>10. TypeOK
  BY <1>1, <1>3, <1>6, <1>9, FilesAssumption DEF TypeOK, Phases, Dirs
<1> QED
  BY <1>8, <1>9, <1>10
  DEF FilesInv, AcknowledgeInv, RecoverInv, DeliverInv, SessionInv, NoOperatorNeeded, OperatorErrors

(* A step that changes nothing.                                               *)
LEMMA StutterStep ==
  ASSUME FilesInv, UNCHANGED vars
  PROVE  FilesInv'
<1>1. UNCHANGED <<journal, phase, todo, turn, error, answered, dropped, latest, faults>>
  BY DEF vars, ghosts
<1> USE <1>1 DEF FilesInv
<1>2. dir' = dir /\ Dirs' = Dirs
  BY DEF dir, Dirs
<1>3. JournalInv'
  <2>1. \A d \in Dirs : latest' \in 0..(Cursor(d) + 1)
    BY DEF JournalInv, Good
  <2> QED
    BY <2>1, JournalGrows
<1>4. TypeOK' /\ SessionInv' /\ NoOperatorNeeded'
  BY <1>2 DEF TypeOK, DirectoryOK, SessionInv, Exists, Cursor, NoOperatorNeeded
<1>5. ASSUME NEW calls, NEW v, NEW k, Acknowledges(calls, v, k)
      PROVE  Acknowledges(calls, v, k)'
  BY <1>2, <1>5 DEF Acknowledges, TmpReady, PassedUpTo, Passed, Exists
<1>6. ASSUME NEW calls, NEW e, NEW k, Buries(calls, e, k)
      PROVE  Buries(calls, e, k)'
  BY <1>2, <1>6 DEF Buries, TmpReady
<1>7. ASSUME NEW calls
      PROVE  /\ Acknowledging(calls) => Acknowledging(calls)'
             /\ Burying(calls) => Burying(calls)'
             /\ Sweeping(calls) => Sweeping(calls)'
  BY <1>5, <1>6 DEF Acknowledging, Burying, Sweeping
<1>8. AcknowledgeInv' /\ RecoverInv'
  <2>1. PICK calls : calls = todo
    OBVIOUS
  <2>2. Acknowledging(todo) => Acknowledging(todo)'
    BY <1>7, <2>1 DEF Acknowledging, Acknowledges
  <2>3. Burying(todo) => Burying(todo)'
    BY <1>7, <2>1 DEF Burying, Buries
  <2>4. Sweeping(todo) => Sweeping(todo)'
    BY <1>7, <2>1 DEF Sweeping
  <2> QED
    BY <2>2, <2>3, <2>4 DEF AcknowledgeInv, RecoverInv
<1>9. DeliverInv'
  BY <1>2 DEF DeliverInv, Delivers, TmpReady, Exists
<1> QED
  BY <1>3, <1>4, <1>8, <1>9

(* The invariant of the files is inductive.                                   *)
LEMMA FilesStep ==
  ASSUME FilesInv, [Next]_vars
  PROVE  FilesInv'
BY StartRecoverStep, ControlStep, HookAcknowledgesStep, HookReadsStep, HookBlocksStep, MakeCallStep,
   FailureStep, PowerLossStep, StutterStep
DEF Next

(* Between any two calls, and after any crash or loss of power, the artifacts *)
(* are what FilesInv says.                                                    *)
THEOREM FilesKept == Spec => []FilesInv
<1>1. Init => FilesInv
  BY InitFiles
<1>2. FilesInv /\ [Next]_vars => FilesInv'
  BY FilesStep
<1> QED
  BY <1>1, <1>2, PTL DEF Spec

(* The artifacts and their types are always whole (TypeOK).                   *)
THEOREM FilesTypeCorrect == Spec => []TypeOK
<1>1. FilesInv => TypeOK
  BY DEF FilesInv
<1> QED
  BY <1>1, FilesKept, PTL

(* No crash and no loss of power, at any call, leaves an artifact that does   *)
(* not parse or a marker without its .in-flight.                              *)
THEOREM NoOperatorEverNeeded == Spec => []NoOperatorNeeded
<1>1. FilesInv => NoOperatorNeeded
  BY DEF FilesInv
<1> QED
  BY <1>1, FilesKept, PTL

(* A directory that a loss of power may leave holds the artifacts it held.    *)
LEMMA SurvivorHolds ==
  ASSUME NEW c, DirectoryOK(c), Whole(c), NEW d, d = Recovered(c, Unsynced(c))
  PROVE  /\ \A f \in Artifact : d[f] = c[f]
         /\ DirectoryOK(d) /\ Whole(d) /\ DeadLetters(d) = DeadLetters(c)
         /\ Good(c) => Good(d)
<1>1. DirectoryOK(d) /\ \A f \in Artifact : d[f] = c[f]
  BY RecoveredArtifacts
<1>2. Whole(d)
  BY <1>1 DEF Whole
<1> QED
  BY <1>1, <1>2, SameArtifacts

(* Whatever the disk comes back to, every entry before its cursor was         *)
(* answered, is a dead letter, or was dropped.                                *)
THEOREM NothingEverSkipped == Spec => []NothingSkipped
<1>1. FilesInv => NothingSkipped
  <2> SUFFICES ASSUME FilesInv, NEW d \in Survivors, NEW e \in 1..Cursor(d)
               PROVE  Passed(d, e)
    BY DEF NothingSkipped, Passed
  <2>1. PICK c \in Dirs : d = Recovered(c, Unsynced(c))
    BY DEF Survivors, Dirs
  <2>2. Good(c) /\ DirectoryOK(c) /\ Whole(c)
    BY JournalType DEF FilesInv
  <2>3. Good(d)
    BY <2>1, <2>2, SurvivorHolds
  <2> QED
    BY <2>3 DEF Good, PassedUpTo
<1> QED
  BY <1>1, FilesKept, PTL

(* A loss of power brings back the latest entry at most.                      *)
THEOREM OnlyLatestReturns == Spec => []OnlyLatestComesBack
<1>1. FilesInv => OnlyLatestComesBack
  BY DEF FilesInv, SessionInv, OnlyLatestComesBack
<1> QED
  BY <1>1, FilesKept, PTL

-----------------------------------------------------------------------------
(* Dead letters.                                                              *)

(* What a prefix is the beginning of.                                         *)
LEMMA PrefixBegins ==
  ASSUME NEW S, NEW s \in Seq(S), NEW t \in Seq(S), IsPrefix(s, t)
  PROVE  Len(t) >= Len(s) /\ SubSeq(t, 1, Len(s)) = s
<1>1. Len(s) \in Nat /\ Len(t) \in Nat /\ Len(s) <= Len(t) /\ \A i \in 1..Len(s) : t[i] = s[i]
  BY LenProperties DEF IsPrefix
<1>2. \A i \in 1..Len(s) : t[i] \in S
  BY <1>1, ElementOfSeq
<1>3. /\ SubSeq(t, 1, Len(s)) \in Seq(S) /\ Len(SubSeq(t, 1, Len(s))) = Len(s)
      /\ \A i \in 1..Len(s) : SubSeq(t, 1, Len(s))[i] = t[i]
  BY <1>1, <1>2, SubSeqProperties
<1>4. SubSeq(t, 1, Len(s)) = s
  BY <1>1, <1>3, SeqEqual
<1> QED
  BY <1>1, <1>4

(* The directories after a step that keeps the invariant.                     *)
LEMMA GoodNext ==
  ASSUME JournalInv', NEW d \in Dirs'
  PROVE  DirectoryOK(d) /\ Whole(d)
<1>1. Good(d)'
  BY DEF JournalInv
<1> QED
  BY <1>1 DEF Good, DirectoryOK, Whole

(* No step takes a safe dead letter out of a directory.                       *)
LEMMA DeadLettersStep ==
  ASSUME FilesInv, FilesInv', [Next]_vars, NEW d \in Dirs'
  PROVE  IsPrefix(DeadLetters(journal[1]), DeadLetters(d))
<1>1. /\ JournalInv /\ dir \in Dirs /\ journal[1] \in Dirs
      /\ \A c \in Dirs : /\ IsPrefix(DeadLetters(journal[1]), DeadLetters(c))
                         /\ DeadLetters(c) \in Seq(Entry) /\ DirectoryOK(c) /\ Whole(c)
  <2>1. JournalInv
    BY DEF FilesInv
  <2>2. \A c \in Dirs : DirectoryOK(c) /\ Whole(c)
    BY <2>1, JournalType
  <2>3. dir \in Dirs /\ journal[1] \in Dirs
    BY <2>1, LenProperties, EmptySeq DEF JournalInv, dir, Dirs
  <2> QED
    BY <2>1, <2>2, <2>3, GoodFacts DEF JournalInv
<1>2. CASE UNCHANGED journal
  <2>1. Dirs' = Dirs
    BY <1>2 DEF Dirs
  <2> QED
    BY <1>1, <2>1
<1>3. CASE MakeCall
  <2>1. d \in Dirs \cup {dir'}
    BY <1>1, <1>3, CallMade DEF MakeCall, JournalInv
  <2>2. CASE d \in Dirs
    BY <1>1, <2>2
  <2>3. CASE d = dir'
    <3>1. IsPrefix(DeadLetters(dir), DeadLetters(d))
      BY <1>3, <2>3, CallStep DEF Advances
    <3>2. DeadLetters(d) \in Seq(Entry)
      BY GoodNext, GoodFacts DEF FilesInv
    <3> QED
      BY <1>1, <3>1, <3>2, PrefixOrder
  <2> QED
    BY <2>1, <2>2, <2>3
<1>4. CASE PowerLoss
  <2>1. PICK i \in DOMAIN journal : \E lost \in SUBSET Unsynced(journal[i]) :
          journal' = <<Recovered(journal[i], lost)>>
    BY <1>4 DEF PowerLoss, PowerFails
  <2>2. PICK c : c = journal[i]
    OBVIOUS
  <2>3. PICK lost \in SUBSET Unsynced(c) : journal' = <<Recovered(c, lost)>>
    BY <2>1, <2>2
  <2>4. c \in Dirs
    BY <2>2 DEF Dirs
  <2>5. d = Recovered(c, lost)
    <3>1. DOMAIN journal' = {1} /\ journal'[1] = Recovered(c, lost)
      BY <2>3
    <3> QED
      BY <3>1 DEF Dirs
  <2>6. \A f \in Artifact : d[f] = c[f]
    BY <1>1, <2>4, <2>5, RecoveredArtifacts
  <2>7. DeadLetters(d) = DeadLetters(c)
    BY <2>6, SameArtifacts
  <2> QED
    BY <1>1, <2>4, <2>7
<1>5. UNCHANGED journal \/ MakeCall \/ PowerLoss
  BY DEF Next, StartRecover, EndRecover, StartSession, AgentResponds, HookAcknowledges, HookReads,
         HookBlocks, CallFails, ReadFails, Crash, vars
<1> QED
  BY <1>2, <1>3, <1>4, <1>5

(* A dead letter that is safe on disk stays there.                            *)
THEOREM DeadLettersStay == Spec => DeadLettersKept
<1>1. ASSUME FilesInv, FilesInv', [Next]_vars, NEW d \in Survivors'
      PROVE  /\ Len(DeadLetters(d)) >= Len(DeadLetters(journal[1]))
             /\ SubSeq(DeadLetters(d), 1, Len(DeadLetters(journal[1]))) = DeadLetters(journal[1])
  <2>1. PICK c \in Dirs' : d = Recovered(c, Unsynced(c))
    BY <1>1 DEF Survivors, Dirs
  <2>2. DirectoryOK(c) /\ Whole(c)
    BY <1>1, GoodNext DEF FilesInv
  <2>3. DeadLetters(d) = DeadLetters(c) /\ DeadLetters(c) \in Seq(Entry)
    BY <2>1, <2>2, SurvivorHolds, GoodFacts
  <2>4. IsPrefix(DeadLetters(journal[1]), DeadLetters(c))
    BY <1>1, DeadLettersStep
  <2>5. DeadLetters(journal[1]) \in Seq(Entry)
    <3>1. journal[1] \in Dirs
      BY <1>1, LenProperties, EmptySeq DEF FilesInv, JournalInv, Dirs
    <3>2. DirectoryOK(journal[1]) /\ Whole(journal[1])
      BY <1>1, <3>1, JournalType DEF FilesInv
    <3> QED
      BY <3>2, GoodFacts
  <2>6. PICK s : s = DeadLetters(journal[1])
    OBVIOUS
  <2>7. PICK t : t = DeadLetters(d)
    OBVIOUS
  <2>8. Len(t) >= Len(s) /\ SubSeq(t, 1, Len(s)) = s
    BY <2>3, <2>4, <2>5, <2>6, <2>7, PrefixBegins
  <2> QED
    BY <2>6, <2>7, <2>8
<1>2. FilesInv /\ FilesInv' /\ [Next]_vars =>
        [\A d \in Survivors' :
           /\ Len(DeadLetters(d)) >= Len(DeadLetters(journal[1]))
           /\ SubSeq(DeadLetters(d), 1, Len(DeadLetters(journal[1]))) = DeadLetters(journal[1])]_vars
  BY <1>1
<1> QED
  BY <1>2, FilesKept, PTL DEF Spec, DeadLettersKept

-----------------------------------------------------------------------------
(* The refinement of AtomicArtifacts.                                         *)

(* What a loss of power may make of the artifacts is what the directories of  *)
(* the journal hold.                                                          *)
Undo == {ViewOf(c) : c \in Dirs}

(* Two directories that hold the same artifacts look the same.                *)
LEMMA SameView ==
  ASSUME NEW c, NEW d, \A f \in Artifact : c[f] = d[f]
  PROVE  ViewOf(c) = ViewOf(d)
BY DEF ViewOf

(* The survivors look like the directories they come from.                    *)
LEMMA UndoOf ==
  ASSUME \A c \in Dirs : DirectoryOK(c) /\ Whole(c)
  PROVE  {ViewOf(d) : d \in Survivors} = Undo
<1>1. \A c \in Dirs : ViewOf(Recovered(c, Unsynced(c))) = ViewOf(c)
  BY SurvivorHolds, SameView
<1>2. Survivors = {Recovered(c, Unsynced(c)) : c \in Dirs}
  BY DEF Survivors, Dirs
<1> QED
  BY <1>1, <1>2 DEF Undo

(* So they do after a step.                                                   *)
LEMMA UndoNext ==
  ASSUME JournalInv'
  PROVE  {ViewOf(d) : d \in Survivors'} = Undo'
<1>1. \A c \in Dirs' : ViewOf(Recovered(c, Unsynced(c))) = ViewOf(c)
  BY GoodNext, SurvivorHolds, SameView
<1>2. Survivors' = {Recovered(c, Unsynced(c)) : c \in Dirs'}
  BY DEF Survivors, Dirs
<1>3. Undo' = {ViewOf(c) : c \in Dirs'}
  BY DEF Undo, ViewOf
<1> QED
  BY <1>1, <1>2, <1>3

(* The artifacts of a good directory hold what they may.                      *)
LEMMA ViewType ==
  ASSUME NEW d, DirectoryOK(d), Whole(d)
  PROVE  /\ \A f \in Artifact : ViewOf(d)[f] \in Contents[f] \cup {Absent}
         /\ ViewOf(d) = [f \in Artifact |-> ViewOf(d)[f]]
BY GoodFacts DEF ViewOf

(* A call changes one artifact, or commits, or does not show.                 *)
LEMMA CallRefines ==
  ASSUME FilesInv, FilesInv', MakeCall
  PROVE  /\ ViewOf(dir') = ViewOf(dir) /\ Undo' = {ViewOf(dir)}
         \/ /\ \A f \in Artifact : ViewOf(dir')[f] \in Contents[f] \cup {Absent}
            /\ \E f \in Artifact : ViewOf(dir') = [ViewOf(dir) EXCEPT ![f] = ViewOf(dir')[f]]
            /\ Undo' = Undo \cup {ViewOf(dir')}
<1>1. PICK c : c = Head(todo)
  OBVIOUS
<1>2. Advances(c) /\ Perform(c) /\ JournalInv /\ JournalInv'
  BY <1>1, CallStep DEF MakeCall, FilesInv
<1>3. /\ dir' \in Dirs'
      /\ c.op = "sync" => Dirs' = {dir'}
      /\ c.op # "sync" => Dirs' = Dirs \cup {dir'}
  BY <1>2, CallMade DEF JournalInv
<1>4. Undo' = {ViewOf(d) : d \in Dirs'}
  BY DEF Undo, ViewOf
<1>5. CASE c.op = "sync"
  <2>1. ViewOf(dir') = ViewOf(dir)
    BY <1>2, <1>5, SameView DEF Advances
  <2> QED
    BY <1>3, <1>4, <1>5, <2>1
<1>6. CASE c.op # "sync"
  <2>1. Undo' = Undo \cup {ViewOf(dir')}
    BY <1>3, <1>4, <1>6 DEF Undo
  <2>2. \A f \in Artifact : ViewOf(dir')[f] \in Contents[f] \cup {Absent}
    BY <1>2, <1>3, GoodNext, ViewType
  <2>3. PICK f \in Artifact : \A g \in Artifact \ {f} : dir'[g] = dir[g]
    BY <1>2 DEF Advances
  <2>4. ViewOf(dir') = [ViewOf(dir) EXCEPT ![f] = ViewOf(dir')[f]]
    BY <2>3 DEF ViewOf
  <2> QED
    BY <2>1, <2>2, <2>4
<1> QED
  BY <1>5, <1>6

(* A loss of power brings all artifacts back to one of the directories.       *)
LEMMA LossRefines ==
  ASSUME FilesInv, PowerLoss
  PROVE  ViewOf(dir') \in Undo /\ Undo' = {ViewOf(dir')}
<1>1. PICK i \in DOMAIN journal : \E lost \in SUBSET Unsynced(journal[i]) :
        journal' = <<Recovered(journal[i], lost)>>
  BY DEF PowerLoss, PowerFails
<1>2. PICK c : c = journal[i]
  OBVIOUS
<1>3. PICK lost \in SUBSET Unsynced(c) : journal' = <<Recovered(c, lost)>>
  BY <1>1, <1>2
<1>4. c \in Dirs /\ DirectoryOK(c) /\ Whole(c)
  BY <1>2, JournalType DEF FilesInv, Dirs
<1>5. PICK d : d = Recovered(c, lost)
  OBVIOUS
<1>6. Dirs' = {d} /\ dir' = d
  <2>1. Len(journal') = 1 /\ DOMAIN journal' = {1} /\ journal'[1] = d
    BY <1>3, <1>5
  <2> QED
    BY <2>1 DEF Dirs, dir
<1>7. ViewOf(d) = ViewOf(c)
  BY <1>4, <1>5, RecoveredArtifacts, SameView
<1>8. Undo' = {ViewOf(x) : x \in Dirs'}
  BY DEF Undo, ViewOf
<1> QED
  BY <1>4, <1>6, <1>7, <1>8 DEF Undo

(* Every step of the files is one of the atomic artifacts, or does not show.  *)
LEMMA AtomicStep ==
  ASSUME FilesInv, FilesInv', [Next]_vars
  PROVE  [Atomic!AtomicNext]_Atomic!atomicVars
<1>1. /\ {ViewOf(d) : d \in Survivors} = Undo
      /\ {ViewOf(d) : d \in Survivors'} = Undo'
  BY UndoOf, UndoNext, JournalType DEF FilesInv
<1>2. ViewOf(dir)' = ViewOf(dir') /\ ({ViewOf(d) : d \in Survivors})' = Undo'
  BY <1>1 DEF ViewOf
<1>3. CASE UNCHANGED journal
  <2>1. dir' = dir /\ Survivors' = Survivors
    BY <1>3 DEF dir, Survivors
  <2> QED
    BY <1>1, <1>2, <2>1 DEF Atomic!atomicVars
<1>4. CASE MakeCall
  <2>1. CASE ViewOf(dir') = ViewOf(dir) /\ Undo' = {ViewOf(dir)}
    BY <1>1, <1>2, <2>1 DEF Atomic!AtomicNext, Atomic!Commit
  <2>2. CASE /\ \A f \in Artifact : ViewOf(dir')[f] \in Contents[f] \cup {Absent}
             /\ \E f \in Artifact : ViewOf(dir') = [ViewOf(dir) EXCEPT ![f] = ViewOf(dir')[f]]
             /\ Undo' = Undo \cup {ViewOf(dir')}
    BY <1>1, <1>2, <2>2 DEF Atomic!AtomicNext, Atomic!Put, Atomic!Whole
  <2> QED
    BY <1>4, <2>1, <2>2, CallRefines
<1>5. CASE PowerLoss
  BY <1>1, <1>2, <1>5, LossRefines DEF Atomic!AtomicNext, Atomic!Lose
<1>6. UNCHANGED journal \/ MakeCall \/ PowerLoss
  BY DEF Next, StartRecover, EndRecover, StartSession, AgentResponds, HookAcknowledges, HookReads,
         HookBlocks, CallFails, ReadFails, Crash, vars
<1> QED
  BY <1>3, <1>4, <1>5, <1>6

(* Create, write, fsync and rename are atomic: an artifact holds a whole      *)
(* value or nothing, and a loss of power takes all of them back together, to  *)
(* a moment since the last commit (inbox.rs:198-213, "with fsync for crash    *)
(* safety").                                                                  *)
THEOREM WritesAreAtomic == Spec => ImplementsAtomic
<1>1. Init => Atomic!AtomicInit
  <2> SUFFICES ASSUME Init
               PROVE  Atomic!AtomicInit
    OBVIOUS
  <2>1. journal = <<[f \in FileName |-> Absent]>>
    BY DEF Init
  <2>2. dir = [f \in FileName |-> Absent] /\ Dirs = {dir}
    BY <2>1 DEF dir, Dirs
  <2>3. ViewOf(dir) = [f \in Artifact |-> Absent]
    BY <2>2, Names DEF ViewOf
  <2>4. {ViewOf(d) : d \in Survivors} = Undo
    BY InitFiles, UndoOf, JournalType DEF FilesInv
  <2>5. Undo = {ViewOf(dir)}
    BY <2>2 DEF Undo
  <2> QED
    BY <2>3, <2>4, <2>5 DEF Atomic!AtomicInit
<1>2. FilesInv /\ FilesInv' /\ [Next]_vars => [Atomic!AtomicNext]_Atomic!atomicVars
  BY AtomicStep
<1> QED
  BY <1>1, <1>2, FilesKept, PTL DEF Spec, ImplementsAtomic, Atomic!AtomicSpec
=============================================================================
