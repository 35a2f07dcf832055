----------------------------- MODULE HeartbeatInv -----------------------------
(* The inductive invariant behind Heartbeat's safety properties, and the      *)
(* deployment contract under which they hold.                                 *)
EXTENDS Heartbeat

(* No ignored unlink failure strikes, a failed recover stops the cycle        *)
(* (src/README.md:333), and a session that heartbeat-launch prompts again is  *)
(* one whose hook was neither killed nor unable to write its decision or to   *)
(* look at .responded.                                                        *)
Contract ==
  /\ "unlink" \notin FaultKinds
  /\ ~IgnoreRecoverFailure
  /\ Keepalive => FaultKinds \cap {"kill", "stdout", "stat"} = {}

(* What most properties need is less: the contract, or launchers that never   *)
(* truncate the inbox.  With those any fault may strike, unlink failures too. *)
Orderly == Contract \/ Launchers = {FALSE}

(* An entry that lies in the inbox and is (the written part of) one line.     *)
IsLine(e) ==
  /\ e.start_offset < e.end_offset /\ e.end_offset <= Len(inbox)
  /\ \A i \in BytesIn(e.start_offset, e.end_offset - 1) : inbox[i] # NL

Live(e) == IsLine(e) /\ offset = e.start_offset

(* The launcher emptied the inbox, and the cursor is still that of the old    *)
(* one; it is only met by a launcher that will empty and reset them again.    *)
Beyond ==
  /\ truncates /\ phase \in {"idle", "recovering", "recovered", "truncated"}
  /\ inbox = <<>> /\ pending = <<>>
  /\ inFlight = NoEntry

CursorInv == (offset <= Len(inbox) \/ Beyond) /\ NoSilentLoss

OrphanInv == inFlight # NoEntry => IsLine(inFlight) /\ (Live(inFlight) \/ Stale(inFlight))

(* A hook that finds .responded finds .in-flight too, and may acknowledge it. *)
MayAck == responded => inFlight # NoEntry /\ (inFlight \in settled \/ Stale(inFlight))

(* .in-flight records the entry `e', which is about to be or was delivered.   *)
InTransit(e) == e # NoEntry /\ inFlight = e /\ Live(e)

ControlInv ==
  /\ phase = "session" => session # "none" /\ rpc = "off"
  /\ phase # "session" => session = "none"
  /\ phase \in {"recovered", "truncated"} => truncates
  /\ phase # "recovering" => rpc = "off"
  /\ phase = "recovering" => rpc # "off"
  /\ session = "stopping" <=> hpc # "off"
  /\ session # "working" => turn = NoEntry

(* What the session, the hook and the recovery know of .in-flight.            *)
TransitInv ==
  /\ turn # NoEntry => InTransit(turn) /\ responded
  /\ hpc = "readInFlight" => responded
  /\ hpc \in {"advance", "unlinkInFlight"} => inFlight # NoEntry /\ hEntry = inFlight
  /\ hpc = "scan" => hSize <= Len(inbox) /\ (inFlight # NoEntry => inFlight.end_offset <= hSize)
  /\ hpc = "writeInFlight" => hEntry # NoEntry /\ Live(hEntry)
  /\ hpc = "touch" => InTransit(hEntry)
  /\ hpc \in {"emit", "done"} /\ decision = "block" => InTransit(hEntry) /\ responded
  /\ rpc \in {"classify", "deadLetter", "moveCursor", "unlinkOrphan"} =>
       inFlight # NoEntry /\ rEntry = inFlight
  /\ rpc \in {"deadLetter", "moveCursor"} => Live(rEntry)

(* The artifacts and the processes agree on what is in flight.  Inductive     *)
(* where no launcher truncates.                                               *)
CoreInv == TypeOK /\ ControlInv /\ OrphanInv /\ TransitInv

-----------------------------------------------------------------------------
(* What the contract adds: nothing is acknowledged that was not settled.      *)

CleanInv == phase \in {"recovered", "truncated", "ready"} => inFlight = NoEntry /\ ~responded

SessionInv ==
  /\ session = "working" /\ turn = NoEntry => MayAck
  /\ session = "waiting" /\ Keepalive => MayAck

HookInv ==
  /\ hpc \in {"check", "readInFlight"} => MayAck
  /\ hpc \in {"advance", "unlinkInFlight"} => responded
  /\ hpc = "advance" => hEntry \in settled \/ Stale(hEntry)
  /\ hpc = "unlinkInFlight" => Stale(hEntry)
  /\ hpc = "unlinkResponded" => inFlight = NoEntry
  /\ hpc \in {"snapshot", "scan"} => MayAck
  /\ hpc \in {"snapshot", "scan", "writeInFlight", "touch"} /\ Keepalive => ~responded
  /\ hpc \in {"emit", "done"} => decision # "none"
  /\ hpc \in {"emit", "done"} /\ decision = "idle" => MayAck
  /\ hpc \in {"emit", "done"} /\ decision = "approve" /\ Keepalive => MayAck

RecoverInv ==
  /\ rpc = "moveCursor" /\ policy = "deadletter" => rEntry \in settled
  /\ rpc = "unlinkFlag" => inFlight = NoEntry
  /\ rpc = "ok" => inFlight = NoEntry /\ ~responded

(* The inductive invariant of Spec under Contract: whatever crashes, the      *)
(* artifacts, the hook, the recovery, the launcher and the session agree on   *)
(* what is in flight and on what was settled (hook.rs:75-130,                 *)
(* recover.rs:113-230).                                                       *)
IInv ==
  /\ CoreInv
  /\ CursorInv /\ CleanInv
  /\ SessionInv /\ HookInv /\ RecoverInv
-----------------------------------------------------------------------------
(* The history: what is known of the entries that reached the agent.          *)

AtCursor(e) == e.start_offset = offset

Past(e) == IsLine(e) /\ (AtCursor(e) \/ Stale(e))

(* No delivery that starts at the cursor reaches beyond `end'.                *)
Covers(end) ==
  \A i \in DOMAIN delivered : AtCursor(delivered[i]) => delivered[i].end_offset <= end

(* What was delivered is a line of the inbox that lies behind the cursor or   *)
(* starts at it, and whatever is read or recorded at the cursor now reaches   *)
(* at least as far: a line only grows.                                        *)
PastInv ==
  /\ \A i \in DOMAIN delivered : Past(delivered[i])
  /\ inFlight # NoEntry /\ AtCursor(inFlight) => Covers(inFlight.end_offset)
  /\ hpc = "scan" => Covers(hSize)
  /\ hpc = "writeInFlight" => Covers(hEntry.end_offset)
  /\ phase = "truncated" => delivered = <<>>

(* The entry at the cursor is in the hands of the agent, or its answer on the *)
(* way to the cursor: only a fault comes between them.                        *)
Held ==
  /\ responded /\ inFlight # NoEntry /\ AtCursor(inFlight)
  /\ session = "working" \/ hpc \in {"check", "readInFlight", "advance"}

(* As many faults have struck as there were deliveries from the cursor after  *)
(* the i-th, and one more where the entry will be delivered again.            *)
BlameInv ==
  \A i \in DOMAIN delivered :
    AtCursor(delivered[i]) => Len(delivered) - i + (IF Held THEN 0 ELSE 1) <= faults

(* Inductive together with CoreInv: what reached the agent comes back only    *)
(* from the cursor, whole, and at the price of a fault (recover.rs:36-39).    *)
HistoryInv ==
  PastInv /\ RedeliverOnlyOrphan /\ BlameInv /\ RedeliveryNeedsFault

(* The hook is beyond the acknowledgement, on its way to the next entry.      *)
Fetching ==
  hpc \in {"unlinkInFlight", "unlinkResponded", "snapshot", "scan", "writeInFlight", "touch"}

(* Without retry, a delivery from the cursor is the last one, is still        *)
(* recorded and flagged, and no other is under way: neither the hook, unless  *)
(* its look at .responded fails, nor recover offers it again (hook.rs:81,     *)
(* recover.rs:166-230).                                                       *)
OnceInv ==
  /\ \A i \in DOMAIN delivered : AtCursor(delivered[i]) =>
       /\ i = Len(delivered) /\ inFlight = delivered[i] /\ responded
       /\ ~Fetching
       /\ hpc \in {"emit", "done"} => decision # "block"
  /\ rpc = "unlinkOrphan" => Stale(rEntry)
  /\ rpc = "unlinkFlag" => inFlight = NoEntry \/ Stale(inFlight)
  /\ AtMostOnceDelivery
=============================================================================
