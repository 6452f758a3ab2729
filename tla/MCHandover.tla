----------------------------- MODULE MCHandover -----------------------------
(***************************************************************************)
(* Handover with the constants TLC is run with: hand placement per service *)
(* and the symmetry of the workers.                                        *)
(***************************************************************************)
EXTENDS Handover, TLC

CONSTANTS s1, s2

\* Every service's placement is left to the autoscaler.
AllAuto == [s \in Services |-> "auto"]

WorkerSymmetry == Permutations(Workers)
=============================================================================
