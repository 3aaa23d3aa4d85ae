----------------------------- MODULE PortService -----------------------------
(***************************************************************************)
(* What go-proxy promises of a port it serves.  The list of backends its   *)
(* server picks from is one that Redis had after the server before was     *)
(* shut down, it is not empty, and it stays as it is for as long as the    *)
(* server is live: an update takes the server away, reads, and starts a    *)
(* new one.  Every restart of the process starts with no server.           *)
(***************************************************************************)
CONSTANTS Ports, Backends

VARIABLES
    frontend,   \* the content of the list of every port in Redis
    serving,    \* serving[p]: the lists the live servers of port p pick from
    fetched     \* fetched[p]: the lists updates of port p have read

vars == <<frontend, serving, fetched>>

Nothing == [p \in Ports |-> {}]

Init ==
    /\ frontend \in [Ports -> SUBSET Backends]
    /\ serving = Nothing /\ fetched = Nothing

Edit ==
    /\ frontend' \in [Ports -> SUBSET Backends]
    /\ UNCHANGED <<serving, fetched>>

Stop(p) ==
    /\ serving' = [serving EXCEPT ![p] = {}]
    /\ UNCHANGED <<frontend, fetched>>

Read(p) ==
    /\ serving[p] = {} /\ fetched[p] = {}
    /\ frontend[p] # {}
    /\ fetched' = [fetched EXCEPT ![p] = {frontend[p]}]
    /\ UNCHANGED <<frontend, serving>>

Start(p) ==
    /\ serving[p] = {} /\ fetched[p] # {}
    /\ serving' = [serving EXCEPT ![p] = fetched[p]]
    /\ fetched' = [fetched EXCEPT ![p] = {}]
    /\ UNCHANGED frontend

Abandon(p) ==
    /\ fetched' = [fetched EXCEPT ![p] = {}]
    /\ UNCHANGED <<frontend, serving>>

Restart ==
    /\ serving' = Nothing /\ fetched' = Nothing
    /\ UNCHANGED frontend

Next ==
    \/ Edit \/ Restart
    \/ \E p \in Ports : Stop(p) \/ Read(p) \/ Start(p) \/ Abandon(p)

Spec == Init /\ [][Next]_vars
=============================================================================
