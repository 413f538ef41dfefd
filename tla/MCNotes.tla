------------------------------ MODULE MCNotes ------------------------------
(* Notes with two users and two or three requests.                           *)
EXTENDS Notes, TLC

CONSTANTS r1, r2, r3, n1, n2, alice, bob

TwoRequests   == {r1, r2}
ThreeRequests == {r1, r2, r3}
OneNote       == {n1}
TwoNotes      == {n1, n2}
OneUser       == {alice}
TwoUsers      == {alice, bob}

Symmetry ==
    Permutations(Requests) \cup Permutations(RowIds) \cup Permutations(Users)
=============================================================================
