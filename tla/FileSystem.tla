------------------------------ MODULE FileSystem ------------------------------
(* The directory of the artifacts as the operating system keeps it, at the    *)
(* grain of system calls.  External: the code in src/ only calls it.          *)
(* A process sees the last directory of `journal'; its first one is safe on   *)
(* disk.  The calls reach the disk in order, so that a loss of power may      *)
(* bring any of these directories back.  fsync makes the bytes of its file    *)
(* safe and, being ordered behind them, the calls before it.                  *)
EXTENDS Naturals, Sequences

CONSTANTS Absent,  \* there is no file of that name
          Torn     \* bytes that parse as nothing: empty, cut, or never written out

ASSUME ContentAssumption == Absent # Torn

VARIABLE journal

File(Data) == [data : Data \cup {Torn}, synced : BOOLEAN]

dir == journal[Len(journal)]

Exists(f) == dir[f] # Absent
Corrupt(f) == Exists(f) /\ dir[f].data = Torn

(* The calls.                                                                 *)
Create(f) == [op |-> "create", file |-> f]
Write(f, v) == [op |-> "write", file |-> f, data |-> v]
Sync(f) == [op |-> "sync", file |-> f]
Rename(f, g) == [op |-> "rename", file |-> f, to |-> g]
Unlink(f) == [op |-> "unlink", file |-> f]
Touch(f, v) == [op |-> "touch", file |-> f, data |-> v]

(* File::create truncates a file that is there.  A file that is touched has   *)
(* no bytes to lose.                                                          *)
Effect(call) ==
  CASE call.op = "create" -> [dir EXCEPT ![call.file] = [data |-> Torn, synced |-> FALSE]]
    [] call.op = "write"  -> [dir EXCEPT ![call.file].data = call.data]
    [] call.op = "sync"   -> [dir EXCEPT ![call.file].synced = TRUE]
    [] call.op = "rename" -> [dir EXCEPT ![call.file] = Absent, ![call.to] = dir[call.file]]
    [] call.op = "unlink" -> [dir EXCEPT ![call.file] = Absent]
    [] call.op = "touch"  -> [dir EXCEPT ![call.file] = [data |-> call.data, synced |-> TRUE]]

(* A call that changes nothing leaves nothing to write.                       *)
Perform(call) ==
  \/ call.op = "sync" /\ journal' = <<Effect(call)>>
  \/ call.op # "sync" /\ Effect(call) # dir /\ journal' = Append(journal, Effect(call))
  \/ call.op # "sync" /\ Effect(call) = dir /\ UNCHANGED journal

(* What the disk gives back of directory d when the bytes of `lost' are gone. *)
Recovered(d, lost) ==
  [f \in DOMAIN d |-> IF d[f] = Absent THEN Absent
                      ELSE [data   |-> IF f \in lost THEN Torn ELSE d[f].data,
                            synced |-> TRUE]]

Unsynced(d) == {f \in DOMAIN d : d[f] # Absent /\ ~d[f].synced}

PowerFails ==
  \E i \in DOMAIN journal : \E lost \in SUBSET Unsynced(journal[i]) :
    journal' = <<Recovered(journal[i], lost)>>
=============================================================================
