--------------------------- MODULE MCHipacheCache ---------------------------
(***************************************************************************)
(* A small instance of go-hipache: two requests in flight are enough for   *)
(* an older reply to overwrite a newer one, two URLs for lists that differ.*)
(***************************************************************************)
EXTENDS HipacheCache

CONSTANTS b1, b2, r1, r2

TwoBackends == {b1, b2}
TwoRequests == {r1, r2}
=============================================================================
