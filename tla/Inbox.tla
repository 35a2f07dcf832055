-------------------------------- MODULE Inbox --------------------------------
(* The inbox file of src/src/inbox.rs and how read_next_entry cuts one line   *)
(* out of it.  The file is a sequence of bytes; file offset o is the byte at  *)
(* index o + 1.  A byte stands for what the reader tells apart: the newline,  *)
(* the other characters str::trim removes, bytes that are not valid UTF-8,    *)
(* and everything else.                                                       *)
EXTENDS Naturals, Sequences

CONSTANTS Byte,         \* the byte values
          NL,           \* b'\n'
          Blank,        \* the bytes str::trim removes, NL among them
          Invalid,      \* the bytes from_utf8_lossy replaces
          Replacement,  \* U+FFFD, what it replaces them by
          NoEntry       \* there is no entry: Option::None

ASSUME ByteAssumption ==
  /\ NL \in Blank
  /\ Blank \subseteq Byte
  /\ Invalid \subseteq Byte \ Blank
  /\ Replacement \notin Blank

(* What an InboxEntry and the .in-flight record made of it hold.  decoded,    *)
(* entry_id and delivered_at are functions of raw_line and of the clock.      *)
Entry == [raw_line : Seq(Byte \cup {Replacement}), start_offset : Nat, end_offset : Nat]

ASSUME NoEntryAssumption == NoEntry \notin Entry

(* The bytes of `box' in the half-open file range [from, to).                 *)
BytesIn(from, to) == (from + 1)..to

AllBlank(box, from, to) == \A i \in BytesIn(from, to) : box[i] \in Blank

(* The offsets after the line that starts at `start' when the file is read up *)
(* to its first `size' bytes: one past the first newline, or `size' when the  *)
(* rest of the snapshot holds none (a line still being written).              *)
LineEnds(box, size, start) ==
  {e \in BytesIn(start, size) : /\ \A i \in BytesIn(start, e - 1) : box[i] # NL
                                /\ box[e] = NL \/ e = size}

FromUtf8Lossy(s) == [i \in DOMAIN s |-> IF s[i] \in Invalid THEN Replacement ELSE s[i]]

(* first and last index what str::trim keeps of the line [start, e).          *)
IsTrim(box, start, e, first, last) ==
  /\ box[first] \notin Blank /\ AllBlank(box, start, first - 1)
  /\ box[last] \notin Blank /\ AllBlank(box, last, e)

(* Mutant: the entry starts where its text does.                              *)
TextEntry(box, start, e, first, last) ==
  [raw_line     |-> FromUtf8Lossy(SubSeq(box, first, last)),
   start_offset |-> first - 1,
   end_offset   |-> e]

LineEntry(box, start, e, first, last) ==
  [raw_line     |-> FromUtf8Lossy(SubSeq(box, first, last)),
   start_offset |-> start,
   end_offset   |-> e]
=============================================================================
