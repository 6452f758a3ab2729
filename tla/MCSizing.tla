------------------------------ MODULE MCSizing ------------------------------
(***************************************************************************)
(* Two applications, one heavy on CPU and one on memory, whose replicas    *)
(* do not pack evenly into a worker.                                       *)
(***************************************************************************)
EXTENDS Sizing

Res(c, m) == [cpu |-> c, mem |-> m]

MCApps   == <<"api", "job">>
MCLeast  == [api |-> 1, job |-> 1]
MCMost   == [api |-> 4, job |-> 2]
MCCosts  == {[api |-> Res(2, 1), job |-> Res(1, 2)],
             [api |-> Res(3, 1), job |-> Res(1, 2)]}
MCPlans  == <<Res(4, 4), Res(8, 8)>>
MCMaster == Res(7, 6)
=============================================================================
