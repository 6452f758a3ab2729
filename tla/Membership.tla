----------------------------- MODULE Membership -----------------------------
(***************************************************************************)
(* What a replica set may be asked to become: "every transition is one     *)
(* member added or one member removed", and a member votes only after it   *)
(* has been a member without a vote.  Module ReplicaSet implements this.   *)
(***************************************************************************)
EXTENDS FiniteSets

CONSTANTS Members,
          First      \* one of them

VARIABLES learners,   \* members that neither vote nor can be elected
          voters      \* members that vote

vars == <<learners, voters>>

TypeOK == learners \subseteq Members /\ voters \subseteq Members

Init == learners = {} /\ voters = {}

\* An empty set is created with one member.
Found == /\ learners = {} /\ voters = {}
         /\ voters' = {First} /\ learners' = {}

Join(m) == /\ m \in Members \ (learners \cup voters)
           /\ voters # {}
           /\ learners' = learners \cup {m} /\ voters' = voters

Earn(m) == /\ m \in learners
           /\ learners' = learners \ {m} /\ voters' = voters \cup {m}

\* The last voter never leaves.
Leave(m) == \/ m \in learners /\ learners' = learners \ {m} /\ voters' = voters
            \/ m \in voters /\ voters # {m}
                 /\ voters' = voters \ {m} /\ learners' = learners

Next == Found \/ \E m \in Members : Join(m) \/ Earn(m) \/ Leave(m)

Spec == Init /\ [][Next]_vars
=============================================================================
