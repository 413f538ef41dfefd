--------------------------- MODULE MCTokenSession ---------------------------
(* One browser with two open requests and two logins.                        *)
EXTENDS TokenSession, TLC

CONSTANTS
    r1, r2, l1, l2,
    MaxIssued  \* bound: codes and refresh tokens of both logins together, and
               \* the late calls, which may give out one more

TwoRequests == {r1, r2}
TwoLogins   == {l1, l2}

Symmetry == Permutations(Requests) \cup Permutations(Logins)

FewIssued == issued[l1] + issued[l2] + Cardinality(late) <= MaxIssued
=============================================================================
