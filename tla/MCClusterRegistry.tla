-------------------------- MODULE MCClusterRegistry --------------------------
(***************************************************************************)
(* Small instances of ClusterRegistry.  Nothing but the two Go maps and    *)
(* the goroutine slots is shared between ports; the slots are alike.       *)
(***************************************************************************)
EXTENDS ClusterRegistry, TLC

CONSTANTS p1, p2, b1, b2, w1, w2, main, newl, downl, nil

OnePort == {p1}
BothPorts == {p1, p2}
OneOther == {p2}
NoPort == {}
OneBackend == {b1}
TwoBackends == {b1, b2}
TwoWorkers == {w1, w2}

WorkerSymmetry == Permutations(TwoWorkers)

(* Bound: after one step of the environment, go on only where just one of *)
(* the ports is in use.                                                    *)
Unused(p) ==
    /\ frontend[p] = {} /\ supported[p]
    /\ clusterMu[p] = None /\ clusters[p] = None
    /\ \A t \in Threads : arg[t] # p
    /\ \A l \in Listeners : p \notin {inbox[l][i] : i \in 1 .. Len(inbox[l])}

OnePortAtLength == env <= 1 \/ \E p \in BothPorts : Unused(p)
=============================================================================
