---------------------------- MODULE MCIdempotency ----------------------------
(* An instance of Idempotency for TLC.                                        *)
EXTENDS Idempotency, TLC

CONSTANTS c1, c2, c3, k1, k2, b1, b2
=============================================================================
