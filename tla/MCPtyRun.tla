------------------------------- MODULE MCPtyRun -------------------------------
(* Small instances of PtyRun: seconds are scaled down, the command lines are  *)
(* the combinations in which the checks of the loop meet.                     *)
EXTENDS PtyRunInv

Launch(timeout, idleTimeout, maxRetries, exitSignal) ==
  [timeout |-> timeout, idleTimeout |-> idleTimeout, maxRetries |-> maxRetries,
   exitSignal |-> exitSignal]

Watched == {Launch(0, 2, 1, TRUE), Launch(6, 3, 2, FALSE), Launch(3, 1, 0, TRUE)}

Unwatched == {Launch(0, 0, 3, TRUE)}

AllLaunches == Watched \cup Unwatched

OwnCodes == {0, 2}
=============================================================================
