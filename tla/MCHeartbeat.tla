----------------------------- MODULE MCHeartbeat -----------------------------
(* A small instance of Heartbeat: four byte values and three kinds of lines.  *)
EXTENDS HeartbeatInv

CONSTANTS a, sp, nl, bad, rep

MCByte == {a, sp, nl, bad}
MCBlank == {sp, nl}
MCInvalid == {bad}

OneWord == <<a, nl>>
Padded  == <<sp, bad, nl>>
Empty   == <<nl>>

Words == {OneWord}
WordsAndBlanks == {OneWord, Empty}
AllLines == {OneWord, Padded, Empty}
=============================================================================
