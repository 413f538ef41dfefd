----------------------------- MODULE MCLifespan -----------------------------
(* The lifespan with a few requests.                                         *)
EXTENDS Lifespan, TLC

CONSTANTS r1, r2, r3

SomeRequests == {r1, r2, r3}
=============================================================================
