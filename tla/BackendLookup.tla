---------------------------- MODULE BackendLookup ----------------------------
(***************************************************************************)
(* What a load balancer that asks Redis for every request promises.  A     *)
(* request that looks up a port finds a backend the port had at some       *)
(* moment of the lookup, or fails for a reason: at some moment of it Redis *)
(* could not answer, or the port had no backends.                          *)
(***************************************************************************)
EXTENDS Naturals

CONSTANTS
    Requests, Ports, Backends,
    None        \* no port, no backend

VARIABLES
    frontend,   \* the backends of every port
    healthy,    \* whether Redis answers
    lookup      \* lookup[r]: how far request r is, and what it may have been told

vars == <<frontend, healthy, lookup>>

NoLookup == [state |-> "none", port |-> None, answer |-> None, offered |-> {}, cause |-> FALSE]

(* A lookup while the ports have the backends f and Redis answers if h.    *)
Told(l, f, h) ==
    IF l.state # "asked" THEN l
    ELSE [l EXCEPT !.offered = @ \cup f[l.port], !.cause = @ \/ f[l.port] = {} \/ ~h]

Init ==
    /\ frontend \in [Ports -> SUBSET Backends]
    /\ healthy = TRUE
    /\ lookup = [r \in Requests |-> NoLookup]

Ask(r, p) ==
    /\ lookup[r].state = "none"
    /\ lookup' = [lookup EXCEPT ![r] =
                    Told([NoLookup EXCEPT !.state = "asked", !.port = p], frontend, healthy)]
    /\ UNCHANGED <<frontend, healthy>>

Find(r) ==
    /\ lookup[r].state = "asked"
    /\ \E b \in lookup[r].offered : lookup' = [lookup EXCEPT ![r] = [@ EXCEPT !.state = "found", !.answer = b]]
    /\ UNCHANGED <<frontend, healthy>>

Fail(r) ==
    /\ lookup[r].state = "asked" /\ lookup[r].cause
    /\ lookup' = [lookup EXCEPT ![r] = [@ EXCEPT !.state = "failed"]]
    /\ UNCHANGED <<frontend, healthy>>

(* The request is over, or its worker has died.                            *)
Forget(rs) ==
    /\ lookup' = [r \in Requests |-> IF r \in rs THEN NoLookup ELSE lookup[r]]
    /\ UNCHANGED <<frontend, healthy>>

Change(f, h) ==
    /\ frontend' = f /\ healthy' = h
    /\ lookup' = [r \in Requests |-> Told(lookup[r], f, h)]

Next ==
    \/ \E r \in Requests : Find(r) \/ Fail(r) \/ \E p \in Ports : Ask(r, p)
    \/ \E rs \in SUBSET Requests : Forget(rs)
    \/ \E f \in [Ports -> SUBSET Backends], h \in BOOLEAN : Change(f, h)

Spec == Init /\ [][Next]_vars
=============================================================================
