----------------------------- MODULE MCLuaCache -----------------------------
(***************************************************************************)
(* Small instances of nginx-hipache.  Two ports and a cache of one entry   *)
(* make entries drop out of the cache.                                     *)
(***************************************************************************)
EXTENDS LuaCache

CONSTANTS b1, p1, p2, q1, q2, x1

OneWorker == {x1}
TwoPorts == {p1, p2}
OneBackend == {b1}
TwoRequests == {q1, q2}
=============================================================================
