--------------------------- MODULE MCCustomBackend ---------------------------
(***************************************************************************)
(* A small instance of the nginx module, with the blocks of nginx.conf in  *)
(* their order.  Two requests of one worker are enough for one to wait for *)
(* the other; workers share nothing but the queue, which stays empty.      *)
(***************************************************************************)
EXTENDS CustomBackend

CONSTANTS b1, b2, p1, q1, q2, w1

OneWorker == {w1}
TwoRequests == {q1, q2}
OnePort == {p1}
TwoBackends == {b1, b2}
NginxConf == <<"http", "server", "location /nginx_status", "location /">>
=============================================================================
