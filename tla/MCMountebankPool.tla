-------------------------- MODULE MCMountebankPool --------------------------
(***************************************************************************)
(* Small instances of the watcher: the calls are interchangeable.          *)
(***************************************************************************)
EXTENDS MountebankPool, TLC

CONSTANTS c1, c2, k1, k2

OneContainer == {c1}
TwoContainers == {c1, c2}
TwoCalls == {k1, k2}

CallSymmetry == Permutations(TwoCalls)
=============================================================================
