--------------------------- MODULE MCTokenRefresh ---------------------------
(* The instance of TokenRefresh for TLC.  Callers c1 to c3 are of process p1, caller d1
   of p2; the configuration picks. *)
EXTENDS TokenRefresh
CONSTANTS p1, p2, c1, c2, c3, d1

MCHome == [c \in Callers |-> IF c = d1 THEN p2 ELSE p1]
MCBoot == [p \in Procs |-> IF p = p2 THEN d1 ELSE c1]

\* What one process gets through unharmed, and everything.
MCModes == {{"revoke", "offline"}, AllFeatures}
=============================================================================
