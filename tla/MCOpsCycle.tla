----------------------------- MODULE MCOpsCycle -----------------------------
(* An instance of OpsCycle for TLC.                                           *)
EXTENDS OpsCycle

CONSTANTS p1, p2, r1, r2
=============================================================================
