--------------------------- MODULE MCResponseCache ---------------------------
(***************************************************************************)
(* Two kinds of requests, which are their own checksums: collisions are    *)
(* left to the proof, which holds for any checksum.                        *)
(***************************************************************************)
EXTENDS ResponseCache, TLC

CONSTANTS b1, b2, k1, k2, r1, r2

TwoRequests == {r1, r2}
TwoKinds == {k1, k2}
OwnHash == [k \in TwoKinds |-> k]
TwoBackends == {b1, b2}
Symmetry == Permutations(TwoRequests) \cup Permutations(TwoBackends) \cup Permutations(TwoKinds)
=============================================================================
