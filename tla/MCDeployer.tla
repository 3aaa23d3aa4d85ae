----------------------------- MODULE MCDeployer -----------------------------
(***************************************************************************)
(* A small instance of the deployer.  An instance that the pool holds      *)
(* twice, as the watcher may leave it, is left out: its two tasks would    *)
(* delete each other's imposter.  Three runs in two slots: two that        *)
(* overlap or fail, and one after them.                                    *)
(***************************************************************************)
EXTENDS Deployer

CONSTANTS i1, i2, d1, d2

TwoInstances == {i1, i2}
TwoRuns == {d1, d2}
CleanPools == {<<i1>>, <<i1, i2>>}
=============================================================================
