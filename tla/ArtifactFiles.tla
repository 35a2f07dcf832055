---------------------------- MODULE ArtifactFiles ----------------------------
(* The files behind the artifacts of heartbeat-stop, at the grain of system   *)
(* calls: what StopHook and Recover take as one write is create, write, fsync *)
(* and rename here, and the power may fail between any two calls.  Entries    *)
(* are numbered; entry e starts at cursor e - 1 and ends at cursor e.         *)
EXTENDS FileSystem

CONSTANTS Entries,     \* how many entries the inbox holds
          Policies,    \* the --on-orphan values of the recovers
          NoEntry,     \* the agent works on nothing from the inbox
          MaxFaults    \* bound: how many faults strike in a behaviour

ASSUME FilesAssumption ==
  /\ Entries \in Nat
  /\ Policies \subseteq {"retry", "deadletter", "drop"}
  /\ NoEntry \notin Nat
  /\ MaxFaults \in Nat

Artifact == {"offset", "inFlight", "responded", "deadLetter"}

(* Path::with_extension("tmp"); .responded is never renamed into place.       *)
TmpOf == [offset |-> "offset.tmp", inFlight |-> "inFlight.tmp", deadLetter |-> "deadLetter.tmp"]

FileName == Artifact \cup {TmpOf[f] : f \in DOMAIN TmpOf}

Flag == "flag"  \* what an empty file holds

Entry == 1..Entries

(* The parsed contents of each file.                                          *)
Contents ==
  [offset |-> 0..Entries, inFlight |-> Entry, responded |-> {Flag}, deadLetter |-> Seq(Entry)]

(* What is not there, and what does not parse, is no contents.                *)
ASSUME ContentsAssumption ==
  \A f \in Artifact : Torn \notin Contents[f] /\ Absent \notin File(Contents[f])

VARIABLES phase,     \* where launcher, hook and session stand
          todo,      \* the calls the running operation has yet to make
          turn,      \* the entry the agent works on
          error,     \* the HeartbeatError of the last operation that failed
          answered,  \* ghost: the entries the agent answered
          dropped,   \* ghost: the entries recover was told to drop
          latest,    \* ghost: the last entry that was delivered for the first time
          faults     \* how many faults have struck

ghosts == <<answered, dropped, latest>>
vars == <<journal, phase, todo, turn, error, ghosts, faults>>

Phases == {"down", "recover", "ready", "turn", "hook", "acknowledge", "deliver"}

(* HeartbeatError.                                                            *)
ReadErrors == {"InboxRead", "OffsetRead", "InFlightRead"}
WriteErrors == {"OffsetWrite", "InFlightWrite", "DeadLetterWrite"}
OperatorErrors == {"OffsetCorrupt", "InFlightCorrupt", "InconsistentState"}
Errors == ReadErrors \cup WriteErrors \cup OperatorErrors

Init ==
  /\ journal = <<[f \in FileName |-> Absent]>>
  /\ phase = "down" /\ todo = <<>> /\ turn = NoEntry /\ error = "none"
  /\ answered = {} /\ dropped = {} /\ latest = 0 /\ faults = 0

-----------------------------------------------------------------------------
(* The operations, as the calls they make.                                    *)

(* Mutants: no fsync; the file is written in place.                           *)
WriteUnsynced(f, v) ==
  <<Create(TmpOf[f]), Write(TmpOf[f], v), Rename(TmpOf[f], f)>>
WriteInPlace(f, v) == <<Create(f), Write(f, v), Sync(f)>>

(* tmp + fsync + rename.                                                      *)
WriteAtomically(f, v) ==
  <<Create(TmpOf[f]), Write(TmpOf[f], v), Sync(TmpOf[f]), Rename(TmpOf[f], f)>>

CleanUp == <<Unlink("inFlight"), Unlink("responded")>>

TouchFlag == <<Touch("responded", Flag)>>

(* Mutant: .in-flight is written without an fsync.                            *)
DeliverUnsynced(e) == WriteUnsynced("inFlight", e) \o TouchFlag

Deliver(e) == WriteAtomically("inFlight", e) \o TouchFlag

Acknowledge(e) == WriteAtomically("offset", e) \o CleanUp

(* read_offset: an absent file reads as 0.                                    *)
Cursor(d) == IF d["offset"] = Absent THEN 0 ELSE d["offset"].data

DeadLetters(d) == IF d["deadLetter"] = Absent THEN <<>> ELSE d["deadLetter"].data

(* Mutants: only the new record is written; the cursor goes first.            *)
DeadLetterForgets(e) ==
  WriteAtomically("deadLetter", <<e>>) \o WriteAtomically("offset", e) \o CleanUp
DeadLetterLast(e) ==
  WriteAtomically("offset", e) \o WriteAtomically("deadLetter", Append(DeadLetters(dir), e))
    \o CleanUp

DeadLetter(e) ==
  WriteAtomically("deadLetter", Append(DeadLetters(dir), e))
    \o WriteAtomically("offset", e) \o CleanUp

(* A live orphan.                                                             *)
Apply(policy, e) ==
  CASE policy = "retry"      -> Acknowledge(e - 1)
    [] policy = "deadletter" -> DeadLetter(e)
    [] policy = "drop"       -> Acknowledge(e)

(* is_stale, and what recover makes of it.                                    *)
Live == Exists("inFlight") /\ Cursor(dir) < dir["inFlight"].data

(* What recover does after it read .in-flight and the cursor.  First it       *)
(* removes a tmp file that an earlier recover may have left.                  *)
RecoverCalls(policy) ==
  <<Unlink(TmpOf["deadLetter"])>>
    \o (CASE ~Exists("inFlight")          -> <<Unlink("responded")>>
          [] Exists("inFlight") /\ ~Live -> CleanUp
          [] Live                        -> Apply(policy, dir["inFlight"].data))

-----------------------------------------------------------------------------
(* Control.                                                                   *)

Idle == todo = <<>>

Strike == faults < MaxFaults /\ faults' = faults + 1

(* The operation fails: the hook approves the stop, recover exits 1.          *)
Fail(kind) == error' = kind /\ phase' = "down" /\ UNCHANGED todo

(* recover and acknowledge parse .in-flight and, if there is one, the cursor. *)
ParseError ==
  IF Corrupt("inFlight") THEN "InFlightCorrupt"
  ELSE IF Exists("inFlight") /\ Corrupt("offset") THEN "OffsetCorrupt"
  ELSE "none"

StartRecover ==
  /\ phase = "down"
  /\ \/ /\ ParseError = "none"
        /\ \E policy \in Policies :
             /\ todo' = RecoverCalls(policy)
             /\ dropped' = IF policy = "drop" /\ Live
                             THEN dropped \cup {dir["inFlight"].data} ELSE dropped
        /\ phase' = "recover" /\ error' = "none"
     \/ ParseError # "none" /\ Fail(ParseError) /\ UNCHANGED dropped
  /\ UNCHANGED <<journal, turn, answered, latest, faults>>

(* recover exits 0.                                                           *)
EndRecover ==
  /\ phase = "recover" /\ Idle /\ phase' = "ready"
  /\ UNCHANGED <<journal, todo, turn, error, ghosts, faults>>

StartSession ==
  /\ phase = "ready" /\ phase' = "turn"
  /\ UNCHANGED <<journal, todo, turn, error, ghosts, faults>>

AgentResponds ==
  /\ phase = "turn" /\ phase' = "hook"
  /\ answered' = IF turn = NoEntry THEN answered ELSE answered \cup {turn}
  /\ turn' = NoEntry
  /\ UNCHANGED <<journal, todo, error, dropped, latest, faults>>

(* .responded: the entry in .in-flight is acknowledged, if it is not behind   *)
(* the cursor already.                                                        *)
HookAcknowledges ==
  /\ phase = "hook" /\ Exists("responded")
  /\ \/ /\ Exists("inFlight") /\ ParseError = "none"
        /\ todo' = IF dir["inFlight"].data < Cursor(dir) THEN CleanUp
                   ELSE Acknowledge(dir["inFlight"].data)
        /\ phase' = "acknowledge" /\ UNCHANGED error
     \/ ~Exists("inFlight") /\ Fail("InconsistentState")
     \/ ParseError # "none" /\ Fail(ParseError)
  /\ UNCHANGED <<journal, turn, ghosts, faults>>

(* Mutant: size < start_offset.                                               *)
DrainedLate == Cursor(dir) > Entries

Drained == Cursor(dir) >= Entries

(* The next entry is delivered, or the inbox is drained and the stop is       *)
(* approved.  A look at .responded that fails is taken for its absence.       *)
HookReads ==
  /\ \/ phase = "hook" /\ ~Exists("responded") /\ UNCHANGED faults
     \/ phase = "hook" /\ Exists("responded") /\ Strike
     \/ phase = "acknowledge" /\ Idle /\ UNCHANGED faults
  /\ \/ /\ ~Corrupt("offset") /\ ~Drained
        /\ todo' = Deliver(Cursor(dir) + 1)
        /\ phase' = "deliver" /\ UNCHANGED error
     \/ /\ ~Corrupt("offset") /\ Drained
        /\ phase' = "down" /\ UNCHANGED <<todo, error>>
     \/ Corrupt("offset") /\ Fail("OffsetCorrupt")
  /\ UNCHANGED <<journal, turn, ghosts>>

HookBlocks ==
  /\ phase = "deliver" /\ Idle
  /\ phase' = "turn" /\ turn' = dir["inFlight"].data
  /\ latest' = IF turn' > latest THEN turn' ELSE latest
  /\ UNCHANGED <<journal, todo, error, answered, dropped, faults>>

MakeCall ==
  /\ ~Idle
  /\ Perform(Head(todo)) /\ todo' = Tail(todo)
  /\ UNCHANGED <<phase, turn, error, ghosts, faults>>

-----------------------------------------------------------------------------
(* Faults.                                                                    *)

(* The variant of HeartbeatError a failed call is reported as.                *)
WriteError(file) ==
  CASE file \in {"offset", "offset.tmp"}                    -> "OffsetWrite"
    [] file \in {"inFlight", "inFlight.tmp", "responded"}   -> "InFlightWrite"
    [] file \in {"deadLetter", "deadLetter.tmp"}            -> "DeadLetterWrite"

(* An I/O error ends the operation; that of a remove_file is ignored, and     *)
(* taken not to happen here.                                                  *)
CallFails ==
  /\ ~Idle /\ Head(todo).op # "unlink"
  /\ Strike
  /\ error' = WriteError(Head(todo).file)
  /\ todo' = <<>> /\ phase' = "down"
  /\ UNCHANGED <<journal, turn, ghosts>>

(* So does one on a read; the files stay as they are.                         *)
ReadFails ==
  /\ phase \in {"down", "hook", "acknowledge"} /\ Idle
  /\ Strike
  /\ error' \in IF phase = "down" THEN ReadErrors \ {"InboxRead"} ELSE ReadErrors
  /\ phase' = "down"
  /\ UNCHANGED <<journal, todo, turn, ghosts>>

(* The session with its hook, or the launcher with recover, dies.             *)
Crash ==
  /\ phase # "down" /\ Strike
  /\ todo' = <<>> /\ phase' = "down" /\ turn' = NoEntry
  /\ UNCHANGED <<journal, error, ghosts>>

PowerLoss ==
  /\ Strike /\ PowerFails
  /\ todo' = <<>> /\ phase' = "down" /\ turn' = NoEntry
  /\ UNCHANGED <<error, ghosts>>

Next ==
  \/ StartRecover \/ EndRecover \/ StartSession
  \/ AgentResponds \/ HookAcknowledges \/ HookReads \/ HookBlocks
  \/ MakeCall
  \/ CallFails \/ ReadFails \/ Crash \/ PowerLoss

Spec == Init /\ [][Next]_vars

DirectoryOK(d) ==
  /\ DOMAIN d = FileName
  /\ \A f \in Artifact : d[f] \in File(Contents[f]) \cup {Absent}
  /\ \A f \in DOMAIN TmpOf : d[TmpOf[f]] \in File(Contents[f]) \cup {Absent}

TypeOK ==
  /\ journal # <<>>
  /\ \A i \in DOMAIN journal : DirectoryOK(journal[i])
  /\ phase \in Phases /\ error \in Errors \cup {"none"}
  /\ todo # <<>> => phase \in {"recover", "acknowledge", "deliver"}
  /\ turn \in Entry \cup {NoEntry}
  /\ answered \subseteq Entry /\ dropped \subseteq Entry /\ latest \in 0..Entries
  /\ faults \in 0..MaxFaults

-----------------------------------------------------------------------------
(* What a loss of power may leave of the directories since the last commit.   *)
Survivors == {Recovered(journal[i], Unsynced(journal[i])) : i \in DOMAIN journal}

(* No crash and no loss of power, at any call, leaves artifacts that need an  *)
(* operator: none is ever unparseable, and .responded is never met without    *)
(* .in-flight (inbox.rs:187, in_flight.rs:92, hook.rs:92-114).                *)
NoOperatorNeeded == error \notin OperatorErrors

(* Whatever the disk comes back to, every entry before its cursor was         *)
(* answered, is in its dead letters, or was dropped: the cursor never reaches *)
(* the disk before what lets it pass (recover.rs:168-175, inbox.rs:136-140).  *)
NothingSkipped ==
  \A d \in Survivors : \A e \in 1..Cursor(d) :
    \/ e \in answered \cup dropped
    \/ \E i \in DOMAIN DeadLetters(d) : DeadLetters(d)[i] = e

(* A loss of power brings back the latest entry at most: that an entry was    *)
(* acknowledged is safe on disk before the next one reaches the agent         *)
(* (inbox.rs:210-212, "with fsync for crash safety").                         *)
OnlyLatestComesBack == turn # NoEntry => turn = latest

(* A dead letter that is safe on disk stays there: the file is rewritten as a *)
(* whole on each append, and no loss of power in between costs its records    *)
(* (recover.rs:177-179).                                                      *)
DeadLettersKept ==
  [][\A d \in Survivors' :
       /\ Len(DeadLetters(d)) >= Len(DeadLetters(journal[1]))
       /\ SubSeq(DeadLetters(d), 1, Len(DeadLetters(journal[1]))) = DeadLetters(journal[1])]_vars

(* The files implement artifacts that change at once and whole, as the other  *)
(* modules take them.                                                         *)
ViewOf(d) == [f \in Artifact |-> IF d[f] = Absent THEN Absent ELSE d[f].data]

Atomic == INSTANCE AtomicArtifacts
            WITH view <- ViewOf(dir),
                 undo <- {ViewOf(d) : d \in Survivors},
                 Holds <- Contents

ImplementsAtomic == Atomic!AtomicSpec
=============================================================================
