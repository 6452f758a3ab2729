-------------------------- MODULE ReplicaSetProofs --------------------------
(***************************************************************************)
(* Proofs about ReplicaSet: type correctness, what a reconfiguration keeps *)
(* (a majority, the data under every vote, the leases), one initial sync   *)
(* at a time, and the steps of module Membership.                          *)
(***************************************************************************)
EXTENDS ReplicaSet, FiniteSetTheorems, WellFoundedInduction, TLAPS

\* A non-empty set of naturals with a bound has a maximum, and Max returns it.
LEMMA MaxIsMaximum ==
  ASSUME NEW n \in Nat, NEW S \in SUBSET (0..n), S # {}
  PROVE  Max(S) \in S /\ \A y \in S : Max(S) >= y
<1> DEFINE D == {d \in Nat : n - d \in S}
<1>1. PICK s \in S : TRUE
  OBVIOUS
<1>2. n - s \in Nat /\ n - (n - s) = s
  OBVIOUS
<1>3. D \subseteq Nat /\ D # {}
  BY <1>1, <1>2
<1>4. PICK d \in D : \A y \in D : ~ (<<y, d>> \in OpToRel(<, Nat))
  BY <1>3, WFMin, NatLessThanWellFounded
<1>5. \A y \in D : ~(y < d)
  BY <1>3, <1>4 DEF OpToRel
<1>6. n - d \in S
  OBVIOUS
<1>7. \A y \in S : n - d >= y
  <2> SUFFICES ASSUME NEW y \in S PROVE n - d >= y
    OBVIOUS
  <2>1. n - y \in Nat /\ n - (n - y) = y
    OBVIOUS
  <2>2. n - y \in D
    BY <2>1
  <2>3. QED
    BY <1>3, <1>5, <2>1, <2>2
<1>8. \E x \in S : \A y \in S : x >= y
  BY <1>6, <1>7
<1>9. QED
  BY <1>8 DEF Max

\* The machine that the next rung is counted from exists.
LEMMA HeldPlanType == TypeOK => HeldPlan \in 1..Top
<1> SUFFICES ASSUME TypeOK PROVE HeldPlan \in 1..Top
  OBVIOUS
<1> DEFINE P == {1} \cup {size[s] : s \in Slots}
<1>1. Top \in Nat /\ P \in SUBSET (0..Top) /\ P # {}
  BY ReplicaConstants DEF ReplicaConstants, TypeOK
<1>2. Max(P) \in P /\ \A y \in P : Max(P) >= y
  BY <1>1, MaxIsMaximum
<1>3. Max(P) >= 1
  BY <1>2
<1>4. QED
  BY <1>1, <1>2, <1>3 DEF HeldPlan

-----------------------------------------------------------------------------
(* What plan.next_action may answer.                                       *)

Changes == {"enfranchise", "hide", "unhide", "promote", "provision",
            "provision_bigger", "remove"}

\* A verb that names a member names one of the slots, the one to enfranchise is a
\* caught-up secondary without a vote, and the one to hide answers.
LEMMA ActionsType ==
  ASSUME TypeOK, NEW a \in NextAction
  PROVE  /\ a.verb \in Changes \cup {"hold", "at_ceiling", "cannot_help", "stepdown"}
         /\ a.verb \in Changes => a.slot \in Slots
         /\ a.verb = "enfranchise" => a.slot \in Enfranchisable
         /\ a.verb = "hide" => a.slot \in seen.healthy
<1> DEFINE Sound(b) ==
      /\ b.verb \in Changes \cup {"hold", "at_ceiling", "cannot_help", "stepdown"}
      /\ b.verb \in Changes => b.slot \in Slots
      /\ b.verb = "enfranchise" => b.slot \in Enfranchisable
      /\ b.verb = "hide" => b.slot \in seen.healthy
<1>0. Shrink \subseteq Hold \cup Verb("remove", Victims) \cup Verb("provision", {1})
                    \cup Verb("stepdown", {seen.primary})
                    \cup Verb("remove", seen.inset \ {1})
  BY DEF Shrink
<1> USE ReplicaConstants DEF ReplicaConstants, Slots, Changes, Verb
<1>1. /\ seen.inset \subseteq Slots /\ seen.votes \subseteq Slots
      /\ seen.healthy \subseteq Slots
  BY DEF TypeOK
<1>2. FreeIndex \subseteq Slots /\ Victims \subseteq Slots /\ Outgrown \subseteq Slots
      /\ Successors \subseteq Slots /\ Enfranchisable \subseteq Slots
  BY <1>1 DEF FreeIndex, Victims, Outgrown, Successors, Enfranchisable, Secondaries, Voters
<1>3. \A b \in Hold \cup Ceiling : Sound(b)
  BY DEF Hold, Ceiling
<1>4. ASSUME NEW v \in {"provision", "provision_bigger"}, NEW b \in OneMore(v)
      PROVE  Sound(b)
  BY <1>2, <1>3, <1>4 DEF OneMore
<1>5. \A b \in OutOfRotation : Sound(b)
  BY <1>1 DEF OutOfRotation, Secondaries
<1>6. \A b \in GrowFromPaired : Sound(b)
  BY <1>4 DEF GrowFromPaired
<1>7. \A b \in GrowDedicated : Sound(b)
  BY <1>3, <1>4 DEF GrowDedicated
<1>8. \A b \in Grow : Sound(b)
  BY <1>6, <1>7 DEF Grow, State
<1>9. \A b \in Shrink : Sound(b)
  <2>1. \A b \in Verb("stepdown", {seen.primary}) \cup Verb("provision", {1}) : Sound(b)
    OBVIOUS
  <2>2. \A b \in Verb("remove", Victims) \cup Verb("remove", seen.inset \ {1}) : Sound(b)
    BY <1>1, <1>2
  <2>3. QED
    BY <1>0, <1>3, <2>1, <2>2
<1>10. QED
  BY <1>2, <1>3, <1>5, <1>8, <1>9 DEF NextAction

\* What one pass may do to the set.
LEMMA PassCases ==
  ASSUME TypeOK, DgActs
  PROVE  \/ \E a \in NextAction : DgHolds(a)
         \/ \E s \in seen.healthy : DgHide(s)
         \/ \E s \in Slots : DgUnhide(s)
         \/ /\ Refusals = {}
            /\ \/ \E s \in Enfranchisable : DgEnfranchise(s)
               \/ DgStepDown
               \/ \E s \in Slots : \/ DgPromote(s) \/ DgRemove(s)
                                   \/ \E wants \in BOOLEAN : DgProvision(s, wants)
<1>1. PICK a \in NextAction : DgHolds(a) \/ Apply(a)
  BY DEF DgActs
<1>2. CASE DgHolds(a)
  BY <1>2
<1>3. CASE Apply(a)
  <2>1. /\ a.verb \in Changes => a.slot \in Slots
        /\ a.verb = "enfranchise" => a.slot \in Enfranchisable
        /\ a.verb = "hide" => a.slot \in seen.healthy
    BY ActionsType
  <2>2. QED
    BY <1>3, <2>1 DEF Apply, Changes
<1>4. QED
  BY <1>1, <1>2, <1>3

-----------------------------------------------------------------------------
(* Types.                                                                  *)

\* The configuration of this pass is the one that was read: nobody else changes it.
Snapshot ==
  dgpc = "act" => /\ seen.inset = inset /\ seen.votes = votes
                  /\ seen.healthy \subseteq inset

\* A pass writes values of their types, as it works on the members it read.
LEMMA PassTypes == TypeOK /\ Snapshot /\ DgActs => TypeOK'
<1> SUFFICES ASSUME TypeOK, Snapshot, DgActs PROVE TypeOK'
  OBVIOUS
<1> USE DEF TypeOK
<1>1. ASSUME NEW e \in Events, Spend(e) PROVE spent' \in [Events -> Nat]
  BY <1>1 DEF Spend
<1>2. dgpc = "act" /\ dgpc' = "read" /\ seen' = Unread /\ seen.inset = inset
      /\ seen.healthy \subseteq inset /\ seen.votes = votes
  BY DEF DgActs, Snapshot
<1>3. seen' \in [inset : SUBSET Slots, votes : SUBSET Slots, hidden : SUBSET Slots,
                 healthy : SUBSET Slots, syncing : SUBSET Slots,
                 lag : SUBSET Slots, primary : Slots \cup {Nobody}]
  BY <1>2 DEF Unread
<1>4. CASE \E a \in NextAction : DgHolds(a)
  <2>1. spent' \in [Events -> Nat]
    BY <1>1, <1>4 DEF DgHolds, Events
  <2>2. QED
    BY <1>2, <1>3, <1>4, <2>1 DEF DgHolds, config, members, asked
<1>5. ASSUME NEW s \in seen.healthy, DgHide(s) PROVE TypeOK'
  BY <1>2, <1>3, <1>5 DEF DgHide, config, members, asked, outside
<1>6. ASSUME NEW s \in Slots, DgUnhide(s) PROVE TypeOK'
  BY <1>2, <1>3, <1>6 DEF DgUnhide, config, members, asked, outside
<1>7. ASSUME NEW s \in Enfranchisable, DgEnfranchise(s) PROVE TypeOK'
  BY <1>2, <1>3, <1>7
     DEF DgEnfranchise, Enfranchisable, Secondaries, Still, members, asked, outside
<1>8. CASE DgStepDown
  BY <1>2, <1>3, <1>8 DEF DgStepDown, StepDown, config, members, asked, outside
<1>9. ASSUME NEW s \in Slots, DgPromote(s) PROVE TypeOK'
  BY <1>2, <1>3, <1>9 DEF DgPromote, members, asked, outside
<1>10. ASSUME NEW s \in Slots, NEW wants \in BOOLEAN, DgProvision(s, wants) PROVE TypeOK'
  <2>1. spent' \in [Events -> Nat]
    BY <1>1, <1>10 DEF DgProvision, Events
  <2>2. QED
    BY <1>2, <1>3, <1>10, <2>1 DEF DgProvision, VotesWith
<1>11. ASSUME NEW s \in Slots, DgRemove(s) PROVE TypeOK'
  <2>1. spent' \in [Events -> Nat]
    BY <1>1, <1>11 DEF DgRemove, Events
  <2>2. QED
    BY <1>2, <1>3, <1>11, <2>1 DEF DgRemove, StepDown, Still, config, members, asked
<1>12. QED
  BY <1>4, <1>5, <1>6, <1>7, <1>8, <1>9, <1>10, <1>11, PassCases

\* So does every other step.
LEMMA StepTypes == TypeOK /\ Snapshot /\ [Next]_vars => TypeOK'
<1> SUFFICES ASSUME TypeOK, Snapshot, [Next]_vars PROVE TypeOK'
  OBVIOUS
<1>1. CASE DgActs
  BY <1>1, PassTypes
<1> USE DEF TypeOK
<1>2. ASSUME NEW e \in Events, Spend(e) PROVE spent' \in [Events -> Nat]
  BY <1>2 DEF Spend
<1>3. 1 \in Slots
  BY ReplicaConstants DEF ReplicaConstants, Slots
<1>4. CASE DgInitiate
  BY <1>3, <1>4 DEF DgInitiate, members, process, asked, outside
<1>5. CASE DgRead
  BY <1>5 DEF DgRead, Topology, Healthy, Syncing, Up, config, members, asked
<1>6. CASE DgRestart
  BY <1>2, <1>6 DEF DgRestart, Unread, Events, config, members
<1>7. CASE Rested
  BY <1>7 DEF Rested, config, members, process, asked, outside
<1>8. CASE OtherProvisions
  BY <1>2, <1>8 DEF OtherProvisions, Events, config, members, process, asked
<1>9. CASE OtherSynced \/ OtherEnfranchises
  BY <1>9 DEF OtherSynced, OtherEnfranchises, config, members, process, asked
<1>10. CASE MoodChanges
  BY <1>2, <1>10 DEF MoodChanges, Events, config, members, process, asked
<1>11. ASSUME NEW s \in Slots, Election(s) \/ Copying(s) \/ Recovers(s) PROVE TypeOK'
  BY <1>11 DEF Election, Elect, TakeOver, Copying, Synced, CatchesUp, Recovers, Electable,
               config, members, process, asked, outside
<1>12. ASSUME NEW s \in Slots, FallsBehind(s) PROVE TypeOK'
  BY <1>2, <1>12 DEF FallsBehind, Events, config, process, asked
<1>13. ASSUME NEW s \in Slots, Fails(s) PROVE TypeOK'
  BY <1>2, <1>13 DEF Fails, Still, Events, config, process, asked
<1>14. ASSUME NEW s \in Slots, MachineJoins(s) PROVE TypeOK'
  <2>1. /\ Top \in Nat /\ Top >= 1 /\ HeldPlan \in 1..Top
        /\ size' = [size EXCEPT ![s] = IF s \in bigger
                                         THEN IF HeldPlan < Top THEN HeldPlan + 1 ELSE Top
                                         ELSE 1]
    BY <1>14, HeldPlanType, ReplicaConstants DEF ReplicaConstants, MachineJoins
  <2>2. size' \in [Slots -> 0..Top]
    BY <2>1
  <2>3. QED
    BY <1>14, <2>2 DEF MachineJoins, config, members, process, asked, outside
<1>15. ASSUME NEW s \in Slots, MachineGoes(s) PROVE TypeOK'
  <2>1. 0 \in 0..Top
    BY ReplicaConstants DEF ReplicaConstants
  <2>2. QED
    BY <1>15, <2>1 DEF MachineGoes, config, process, asked, outside
<1>16. CASE UNCHANGED vars
  BY <1>16 DEF vars, config, members, process, asked, outside
<1>17. QED
  BY <1>1, <1>4, <1>5, <1>6, <1>7, <1>8, <1>9, <1>10, <1>11, <1>12, <1>13, <1>14,
     <1>15, <1>16 DEF Next

\* Between the reading of a topology and the verb nothing changes the configuration.
LEMMA SnapshotStep == TypeOK /\ Snapshot /\ [Next]_vars => Snapshot'
<1> SUFFICES ASSUME Snapshot, [Next]_vars, dgpc' = "act" PROVE Snapshot'
  BY DEF Snapshot
<1>1. CASE DgRead
  BY <1>1 DEF DgRead, Snapshot, Topology, Healthy, Up, config
<1>2. CASE dgpc = "act" /\ UNCHANGED <<config, seen>>
  BY <1>2 DEF Snapshot, config
<1>3. CASE DgActs \/ DgRestart
  BY <1>3 DEF DgActs, DgRestart
<1>4. CASE DgInitiate
  BY <1>4 DEF DgInitiate, process
<1>5. CASE OtherProvisions \/ OtherSynced \/ OtherEnfranchises \/ MoodChanges \/ Rested
  BY <1>2, <1>5 DEF OtherProvisions, OtherSynced, OtherEnfranchises, MoodChanges, Rested,
                    process
<1>6. ASSUME NEW s \in Slots,
             \/ Election(s) \/ Copying(s) \/ FallsBehind(s) \/ Fails(s) \/ Recovers(s)
             \/ MachineJoins(s) \/ MachineGoes(s)
      PROVE  Snapshot'
  BY <1>2, <1>6 DEF Election, Elect, TakeOver, Copying, Synced, CatchesUp, FallsBehind,
                    Fails, Recovers, MachineJoins, MachineGoes, process
<1>7. CASE UNCHANGED vars
  BY <1>2, <1>7 DEF vars, process
<1>8. QED
  BY <1>1, <1>3, <1>4, <1>5, <1>6, <1>7 DEF Next

\* A new component starts with every value of its type.
LEMMA InitTypes == Init => TypeOK /\ Snapshot
<1>1. 1 \in Slots /\ 0 \in 0..Top
  BY ReplicaConstants DEF ReplicaConstants, Slots
<1>2. [s \in Slots |-> 0] \in [Slots -> 0..Top] /\ [s \in Slots |-> 0] \in [Slots -> 0..2]
  BY <1>1
<1>3. Unread \in [inset : SUBSET Slots, votes : SUBSET Slots, hidden : SUBSET Slots,
                  healthy : SUBSET Slots, syncing : SUBSET Slots,
                  lag : SUBSET Slots, primary : Slots \cup {Nobody}]
  BY DEF Unread
<1>4. [e \in Events |-> 0] \in [Events -> Nat]
  OBVIOUS
<1>5. QED
  BY <1>1, <1>2, <1>3, <1>4 DEF Init, TypeOK, Snapshot

\* Every value a step writes has its type; votes and hidden members stay members.
THEOREM TypeCorrect == Spec => []TypeOK
<1>1. TypeOK /\ Snapshot /\ [Next]_vars => (TypeOK /\ Snapshot)'
  BY StepTypes, SnapshotStep
<1>2. QED
  BY <1>1, InitTypes, PTL DEF Spec

-----------------------------------------------------------------------------
(* Members, their machines and their data.                                 *)

\* Each step keeps the members started and, until a restart, held: a lease is taken
\* and the member started before it joins, and both go after it has left.
LEMMA MembersAreHeldStep == TypeOK /\ MembersAreHeld /\ [Next]_vars => MembersAreHeld'
<1> SUFFICES ASSUME TypeOK, MembersAreHeld, [Next]_vars PROVE MembersAreHeld'
  OBVIOUS
<1> USE DEF MembersAreHeld
<1>1. ASSUME NEW e \in Events, Spend(e) PROVE spent'["restart"] = 0 => spent["restart"] = 0
  BY <1>1 DEF Spend, TypeOK, Events
<1>2. CASE inset' \subseteq inset /\ run \subseteq run' /\ held' = held
           /\ (spent' = spent \/ \E e \in Events : Spend(e))
  BY <1>1, <1>2
<1>3. CASE DgActs
  <2>1. CASE \E a \in NextAction : DgHolds(a)
    BY <1>2, <2>1 DEF DgHolds, Events, config, members, asked
  <2>2. ASSUME NEW s \in seen.healthy, DgHide(s) PROVE MembersAreHeld'
    BY <2>2 DEF DgHide, members, asked, outside
  <2>3. ASSUME NEW s \in Slots, DgUnhide(s) \/ DgPromote(s) PROVE MembersAreHeld'
    BY <2>3 DEF DgUnhide, DgPromote, members, asked, outside
  <2>4. ASSUME NEW s \in Enfranchisable, DgEnfranchise(s) PROVE MembersAreHeld'
    BY <2>4 DEF DgEnfranchise, members, asked, outside
  <2>5. CASE DgStepDown
    BY <2>5 DEF DgStepDown, config, members, asked, outside
  <2>6. ASSUME NEW s \in Slots, NEW wants \in BOOLEAN, DgProvision(s, wants)
        PROVE  MembersAreHeld'
    <3>1. spent' = spent \/ Spend("error")
      BY <2>6 DEF DgProvision
    <3>2. spent'["restart"] = 0 => spent["restart"] = 0
      BY <1>1, <3>1 DEF Events
    <3>3. run \subseteq run' /\ held \subseteq held' /\ (s # 1 => s \in held')
      BY <2>6 DEF DgProvision
    <3>4. inset' = inset \/ (inset' = inset \cup {s} /\ s \in run')
      BY <2>6 DEF DgProvision
    <3>5. QED
      BY <3>2, <3>3, <3>4
  <2>7. ASSUME NEW s \in Slots, DgRemove(s) PROVE MembersAreHeld'
    <3>1. spent' = spent \/ Spend("error")
      BY <2>7 DEF DgRemove
    <3>2. spent'["restart"] = 0 => spent["restart"] = 0
      BY <1>1, <3>1 DEF Events
    <3>3. \/ inset' = inset /\ run' = run /\ held' = held
          \/ inset' = inset \ {s} /\ run \ {s} \subseteq run' /\ held \ {s} \subseteq held'
      BY <2>7 DEF DgRemove, config, members, asked
    <3>4. QED
      BY <3>2, <3>3
  <2>8. QED
    BY <1>3, <2>1, <2>2, <2>3, <2>4, <2>5, <2>6, <2>7, PassCases
<1>4. CASE DgInitiate
  BY <1>4 DEF DgInitiate, members, asked, outside
<1>5. CASE DgRestart
  BY <1>5 DEF DgRestart, Spend, TypeOK, Events, config, members
<1>6. CASE \/ DgRead \/ Rested \/ OtherProvisions \/ OtherSynced \/ OtherEnfranchises
           \/ MoodChanges
  BY <1>2, <1>6 DEF DgRead, Rested, OtherProvisions, OtherSynced, OtherEnfranchises,
                    MoodChanges, Events, config, members, asked, outside
<1>7. ASSUME NEW s \in Slots,
             \/ Election(s) \/ Copying(s) \/ FallsBehind(s) \/ Fails(s) \/ Recovers(s)
             \/ MachineJoins(s) \/ MachineGoes(s)
      PROVE  MembersAreHeld'
  BY <1>2, <1>7 DEF Election, Elect, TakeOver, Copying, Synced, CatchesUp, FallsBehind,
                    Fails, Recovers, MachineJoins, MachineGoes, Events, config, members,
                    asked, outside
<1>8. CASE UNCHANGED vars
  BY <1>8 DEF vars, config, members, asked, outside
<1>9. QED
  BY <1>3, <1>4, <1>5, <1>6, <1>7, <1>8 DEF Next

\* A member of the set runs, and until dataguard restarts its machine is held.
\* (apply: the order of provision and of remove.)
THEOREM MembersStayHeld == Spec => []MembersAreHeld
<1>1. Init => MembersAreHeld
  BY DEF Init, MembersAreHeld
<1>2. QED
  BY <1>1, MembersAreHeldStep, TypeCorrect, PTL DEF Spec

\* The member on the master has its data and no machine of its own; whoever votes, or
\* may be given a vote in this pass, has a copy.
Copies ==
  /\ 1 \in data /\ size[1] = 0 /\ 1 \notin held
  /\ votes \subseteq data
  /\ dgpc = "act" => seen.healthy \subseteq data

\* Each step keeps the copies: a volume goes with a machine that runs no member, and
\* members run.
LEMMA CopiesStep ==
  TypeOK /\ Snapshot /\ MembersAreHeld /\ Copies /\ [Next]_vars => Copies'
<1> SUFFICES ASSUME TypeOK, Snapshot, MembersAreHeld, Copies, [Next]_vars PROVE Copies'
  OBVIOUS
<1> USE DEF Copies
<1>1. CASE votes' \subseteq votes /\ data \subseteq data' /\ size' = size /\ held' = held
           /\ (dgpc' = "act" => dgpc = "act" /\ seen' = seen)
  BY <1>1
<1>2. CASE DgActs
  <2>1. dgpc' = "read" /\ seen.votes = votes /\ seen.healthy \subseteq data
    BY <1>2 DEF DgActs, Snapshot
  <2>2. CASE \E a \in NextAction : DgHolds(a)
    BY <2>1, <2>2 DEF DgHolds, config, members, asked
  <2>3. ASSUME NEW s \in seen.healthy, DgHide(s) PROVE Copies'
    BY <2>1, <2>3 DEF DgHide, members, asked
  <2>4. ASSUME NEW s \in Slots, DgUnhide(s) \/ DgPromote(s) PROVE Copies'
    BY <2>1, <2>4 DEF DgUnhide, DgPromote, members, asked
  <2>5. ASSUME NEW s \in Enfranchisable, DgEnfranchise(s) PROVE Copies'
    BY <2>1, <2>5 DEF DgEnfranchise, Enfranchisable, Secondaries, members, asked
  <2>6. CASE DgStepDown
    BY <2>1, <2>6 DEF DgStepDown, config, members, asked
  <2>7. ASSUME NEW s \in Slots, NEW wants \in BOOLEAN, DgProvision(s, wants) PROVE Copies'
    BY <2>1, <2>7 DEF DgProvision, VotesWith
  <2>8. ASSUME NEW s \in Slots, DgRemove(s) PROVE Copies'
    BY <2>1, <2>8 DEF DgRemove, config, members, asked
  <2>9. QED
    BY <1>2, <2>2, <2>3, <2>4, <2>5, <2>6, <2>7, <2>8, PassCases
<1>3. CASE DgInitiate
  BY <1>3 DEF DgInitiate, members, process, asked
<1>4. CASE DgRead
  BY <1>4 DEF DgRead, Topology, Healthy, config, members, asked
<1>5. CASE DgRestart
  BY <1>5 DEF DgRestart, config, members
<1>6. CASE Rested \/ OtherProvisions \/ OtherSynced \/ OtherEnfranchises \/ MoodChanges
  BY <1>1, <1>6 DEF Rested, OtherProvisions, OtherSynced, OtherEnfranchises, MoodChanges,
                    config, members, process, asked
<1>7. ASSUME NEW s \in Slots,
             Election(s) \/ Copying(s) \/ FallsBehind(s) \/ Fails(s) \/ Recovers(s)
      PROVE  Copies'
  BY <1>1, <1>7 DEF Election, Elect, TakeOver, Copying, Synced, CatchesUp, FallsBehind,
                    Fails, Recovers, config, members, process, asked
<1>8. ASSUME NEW s \in Slots, MachineJoins(s) PROVE Copies'
  <2>1. s # 1
    BY <1>8 DEF MachineJoins
  <2>2. size'[1] = 0
    BY <1>8, <2>1 DEF MachineJoins, TypeOK
  <2>3. QED
    BY <1>8, <2>2 DEF MachineJoins, config, members, process, asked
<1>9. ASSUME NEW s \in Slots, MachineGoes(s) PROVE Copies'
  <2>1. s # 1 /\ s \notin inset
    BY <1>9 DEF MachineGoes, MembersAreHeld
  <2>2. s \notin votes /\ (dgpc = "act" => s \notin seen.healthy)
    BY <2>1 DEF TypeOK, Snapshot
  <2>3. size'[1] = 0
    BY <1>9, <2>1 DEF MachineGoes, TypeOK
  <2>4. QED
    BY <1>9, <2>1, <2>2, <2>3 DEF MachineGoes, config, process, asked
<1>10. CASE UNCHANGED vars
  BY <1>1, <1>10 DEF vars, config, members, process, asked
<1>11. QED
  BY <1>2, <1>3, <1>4, <1>5, <1>6, <1>7, <1>8, <1>9, <1>10 DEF Next

\* Whoever votes holds a finished copy of the data, so no election hands the primary to
\* an empty member.  (add_member, enfranchise.)
THEOREM VotersKeepData == Spec => []VotersHoldData
<1> DEFINE I == TypeOK /\ Snapshot /\ MembersAreHeld /\ Copies
<1>1. Init => I
  <2>1. 1 \in Slots
    BY ReplicaConstants DEF ReplicaConstants, Slots
  <2>2. Init => Copies /\ MembersAreHeld
    BY <2>1 DEF Init, Copies, MembersAreHeld
  <2>3. QED
    BY <2>2, InitTypes
<1>2. I /\ [Next]_vars => I'
  BY StepTypes, SnapshotStep, MembersAreHeldStep, CopiesStep
<1>3. I => VotersHoldData
  BY DEF Copies, VotersHoldData
<1>4. QED
  BY <1>1, <1>2, <1>3, PTL DEF Spec

-----------------------------------------------------------------------------
(* What a reconfiguration leaves.                                          *)

\* Whom this pass counts on still answers, unless a member stopped since the reading.
Fresh == dgpc = "act" /\ ~shaken => seen.healthy \subseteq Healthy

\* Only a member that stops makes the reading stale: the others come and catch up.
LEMMA FreshStep ==
  TypeOK /\ Snapshot /\ MembersAreHeld /\ Fresh /\ [Next]_vars => Fresh'
<1> SUFFICES ASSUME TypeOK, Snapshot, MembersAreHeld, Fresh, [Next]_vars,
                    dgpc' = "act", ~shaken'
             PROVE  (seen.healthy \subseteq Healthy)'
  BY DEF Fresh
<1> USE DEF Healthy, Up
<1>1. CASE dgpc = "act" /\ UNCHANGED <<seen, shaken, inset>> /\ run' = run
           /\ down' \subseteq down /\ data \subseteq data'
  BY <1>1 DEF Fresh
<1>2. CASE DgRead
  BY <1>2 DEF DgRead, Topology, config, members
<1>3. CASE DgActs \/ DgRestart
  BY <1>3 DEF DgActs, DgRestart
<1>4. CASE DgInitiate
  BY <1>4 DEF DgInitiate, process
<1>5. CASE Rested \/ OtherProvisions \/ OtherSynced \/ OtherEnfranchises \/ MoodChanges
  BY <1>1, <1>5 DEF Rested, OtherProvisions, OtherSynced, OtherEnfranchises, MoodChanges,
                    config, members, process, outside
<1>6. ASSUME NEW s \in Slots,
             Election(s) \/ Copying(s) \/ FallsBehind(s) \/ Recovers(s) \/ MachineJoins(s)
      PROVE  (seen.healthy \subseteq Healthy)'
  BY <1>1, <1>6 DEF Election, Elect, TakeOver, Copying, Synced, CatchesUp, FallsBehind,
                    Recovers, MachineJoins, config, members, process, outside
<1>7. ASSUME NEW s \in Slots, Fails(s) PROVE FALSE
  BY <1>7 DEF Fails, process
<1>8. ASSUME NEW s \in Slots, MachineGoes(s) PROVE (seen.healthy \subseteq Healthy)'
  <2>1. s \notin inset
    BY <1>8 DEF MachineGoes, MembersAreHeld
  <2>2. UNCHANGED <<dgpc, seen, shaken, inset, run, down>> /\ data' = data \ {s}
    BY <1>8 DEF MachineGoes, config, process, outside
  <2>3. QED
    BY <2>1, <2>2 DEF Fresh
<1>9. CASE UNCHANGED vars
  BY <1>1, <1>9 DEF vars, config, members, process, outside
<1>10. QED
  BY <1>2, <1>3, <1>4, <1>5, <1>6, <1>7, <1>8, <1>9 DEF Next

\* There are finitely many slots.
LEMMA FiniteSlots == \A S \in SUBSET Slots : IsFiniteSet(S) /\ Cardinality(S) \in Nat
<1>1. IsFiniteSet(Slots)
  BY ReplicaConstants, FS_Interval DEF ReplicaConstants, Slots
<1>2. QED
  BY <1>1, FS_Subset, FS_CardinalityType

\* One vote more for one healthy member more keeps a majority.
LEMMA AddingKeepsMajority ==
  ASSUME NEW V \in SUBSET Slots, NEW H \in SUBSET Slots, NEW G \in SUBSET Slots,
         NEW s \in H \ V, G \subseteq H,
         2 * Cardinality(V \cap G) > Cardinality(V)
  PROVE  CanElect(V \cup {s}, H)
<1>1. IsFiniteSet(V) /\ Cardinality(V) \in Nat /\ IsFiniteSet(V \cap G)
      /\ Cardinality(V \cap G) \in Nat
  BY FiniteSlots
<1>2. Cardinality(V \cup {s}) = Cardinality(V) + 1
  BY <1>1, FS_AddElement
<1>3. Cardinality((V \cap G) \cup {s}) = Cardinality(V \cap G) + 1
  BY <1>1, FS_AddElement
<1>4. (V \cap G) \cup {s} \subseteq (V \cup {s}) \cap H
  OBVIOUS
<1>5. IsFiniteSet((V \cup {s}) \cap H) /\ Cardinality((V \cup {s}) \cap H) \in Nat
  BY FiniteSlots
<1>6. Cardinality((V \cap G) \cup {s}) <= Cardinality((V \cup {s}) \cap H)
  BY <1>4, <1>5, FS_Subset
<1>7. QED
  BY <1>1, <1>2, <1>3, <1>5, <1>6 DEF CanElect

\* A majority of what is left elects, whoever else answers.
LEMMA MoreKeepMajority ==
  ASSUME NEW V \in SUBSET Slots, NEW G \in SUBSET V, NEW H \in SUBSET Slots, G \subseteq H,
         2 * Cardinality(G) > Cardinality(V)
  PROVE  CanElect(V, H)
<1>1. IsFiniteSet(V \cap H) /\ Cardinality(V \cap H) \in Nat /\ Cardinality(G) \in Nat
      /\ Cardinality(V) \in Nat
  BY FiniteSlots
<1>2. Cardinality(G) <= Cardinality(V \cap H)
  BY <1>1, FS_Subset
<1>3. QED
  BY <1>1, <1>2 DEF CanElect

\* A pass that changes who votes leaves a set that can elect.
LEMMA QuorumStep ==
  TypeOK /\ Snapshot /\ Fresh /\ DgActs /\ votes' # votes /\ ~shaken
    => CanElect(votes', Healthy')
<1> SUFFICES ASSUME TypeOK, Snapshot, Fresh, DgActs, votes' # votes, ~shaken
             PROVE  CanElect(votes', Healthy')
  OBVIOUS
<1>1. /\ seen.inset = inset /\ seen.votes = votes /\ seen.healthy \subseteq Healthy
      /\ votes \subseteq inset
      /\ inset \subseteq Slots /\ votes \subseteq Slots /\ Healthy \subseteq Slots
      /\ seen.healthy \subseteq Slots
  BY DEF DgActs, Snapshot, Fresh, TypeOK, Healthy, Up
<1>2. ASSUME NEW s \in Enfranchisable, DgEnfranchise(s), Refusals = {}
      PROVE  CanElect(votes', Healthy')
  <2>1. s \in seen.healthy /\ s \notin votes
    BY <1>1 DEF Enfranchisable, Secondaries, Voters
  <2>2. votes' = votes \cup {s} /\ Healthy' = Healthy
    BY <1>2 DEF DgEnfranchise, Healthy, Up, members
  <2>3. 2 * Cardinality(votes \cap seen.healthy) > Cardinality(votes)
    BY <1>1, <1>2 DEF Refusals, HasMajority, HealthyVoters, Voters
  <2>4. CanElect(votes \cup {s}, Healthy)
    BY <1>1, <2>1, <2>3, AddingKeepsMajority
  <2>5. QED
    BY <2>2, <2>4
<1>3. ASSUME NEW s \in Slots, DgRemove(s) PROVE CanElect(votes', Healthy')
  <2>1. s # seen.primary /\ s \in inset
    BY <1>3 DEF DgRemove, config
  <2>2. /\ votes' = votes \ {s} /\ inset' = inset \ {s} /\ run \ {s} \subseteq run'
        /\ down' = down /\ data' = data
    BY <1>3, <2>1 DEF DgRemove
  <2>3. Healthy \ {s} \subseteq Healthy' /\ Healthy' \subseteq Slots
    BY <1>1, <2>2 DEF Healthy, Up
  <2>4. ~ (2 * Cardinality((votes \cap seen.healthy) \ {s}) <= Cardinality(votes \ {s}))
    BY <1>1, <1>3, <2>1 DEF DgRemove, WouldBreakMajority, HealthyVoters, Voters
  <2>5. /\ Cardinality((votes \cap seen.healthy) \ {s}) \in Nat
        /\ Cardinality(votes \ {s}) \in Nat
    BY <1>1, FiniteSlots
  <2>6. 2 * Cardinality((votes \cap seen.healthy) \ {s}) > Cardinality(votes \ {s})
    BY <2>4, <2>5
  <2>7. (votes \cap seen.healthy) \ {s} \subseteq Healthy'
    BY <1>1, <2>3
  <2>8. CanElect(votes \ {s}, Healthy')
    BY <1>1, <2>3, <2>6, <2>7, MoreKeepMajority
  <2>9. QED
    BY <2>2, <2>8
<1>4. CASE \E a \in NextAction : DgHolds(a)
  BY <1>4 DEF DgHolds, config
<1>5. \A s \in Slots, wants \in BOOLEAN :
        ~DgUnhide(s) /\ ~DgPromote(s) /\ ~DgProvision(s, wants)
  BY DEF DgUnhide, DgPromote, DgProvision, VotesWith
<1>6. ~DgStepDown /\ \A s \in seen.healthy : ~DgHide(s)
  BY DEF DgStepDown, DgHide, config
<1>7. QED
  BY <1>2, <1>3, <1>4, <1>5, <1>6, PassCases

\* A reconfiguration that dataguard decides on leaves a set that can elect.
\* (has_majority, would_break_majority.)
THEOREM QuorumStays == Spec => QuorumKept
<1> DEFINE I == TypeOK /\ Snapshot /\ MembersAreHeld /\ Fresh
<1>1. Init => I
  BY InitTypes DEF Init, Fresh, MembersAreHeld
<1>2. I /\ [Next]_vars => I'
  BY StepTypes, SnapshotStep, MembersAreHeldStep, FreshStep
<1>3. I /\ [Next]_vars =>
        [DgActs /\ votes' # votes /\ ~shaken => CanElect(votes', Healthy')]_vars
  BY QuorumStep
<1>4. QED
  BY <1>1, <1>2, <1>3, PTL DEF Spec, QuorumKept

-----------------------------------------------------------------------------
(* The token of the initial sync.                                          *)

\* Whoever syncs has the token, nobody else of this set does, and another component
\* that syncs has it until its member votes.
SyncsAlone ==
  /\ down = {}
  /\ \A a, b \in Syncing : a = b
  /\ Syncing # {} => token = "this"
  /\ other # "no" => token = "other"
  /\ dgpc = "act" => Syncing \subseteq seen.syncing

Undisturbed == spent["restart"] = 0 /\ spent["fail"] = 0

\* Bounded events are only ever counted.
LEMMA UndisturbedBefore ==
  ASSUME TypeOK, Undisturbed', spent' = spent \/ \E e \in Events : Spend(e)
  PROVE  Undisturbed
BY DEF Undisturbed, Spend, TypeOK, Events

\* A pass that is not refused starts from a set where nobody syncs, with the token free
\* or its own.
LEMMA SyncsAlonePass ==
  TypeOK /\ Snapshot /\ SyncsAlone /\ DgActs => SyncsAlone'
<1> SUFFICES ASSUME TypeOK, Snapshot, SyncsAlone, DgActs PROVE SyncsAlone'
  OBVIOUS
<1> USE DEF SyncsAlone, Syncing, Up
<1>1. dgpc = "act" /\ dgpc' = "read"
  BY DEF DgActs
<1>2. Refusals = {} => Syncing = {} /\ other = "no"
  BY <1>1 DEF Refusals
<1>3. CASE \E a \in NextAction : DgHolds(a)
  BY <1>1, <1>3 DEF DgHolds, config, members
<1>4. ASSUME NEW s \in seen.healthy, DgHide(s) PROVE SyncsAlone'
  BY <1>1, <1>4 DEF DgHide, members, outside
<1>5. ASSUME NEW s \in Slots, DgUnhide(s) \/ DgPromote(s) PROVE SyncsAlone'
  BY <1>1, <1>5 DEF DgUnhide, DgPromote, members, outside
<1>6. ASSUME NEW s \in Enfranchisable, DgEnfranchise(s), Refusals = {} PROVE SyncsAlone'
  BY <1>1, <1>2, <1>6 DEF DgEnfranchise, members, outside
<1>7. CASE DgStepDown
  BY <1>1, <1>7 DEF DgStepDown, config, members, outside
<1>8. ASSUME NEW s \in Slots, NEW wants \in BOOLEAN, DgProvision(s, wants), Refusals = {}
      PROVE  SyncsAlone'
  <2>1. Syncing = {} /\ other = "no"
    BY <1>2, <1>8
  <2>2. UNCHANGED <<down, data, other>>
    BY <1>8 DEF DgProvision
  <2>3. \/ inset' = inset /\ run' = run
        \/ /\ inset' = inset \/ inset' = inset \cup {s}
           /\ run' = run \cup {s} /\ token' = "this"
    BY <1>8 DEF DgProvision
  <2>4. Syncing' \subseteq {s} /\ (Syncing' # {} => token' = "this")
    BY <2>1, <2>2, <2>3
  <2>5. QED
    BY <1>1, <2>1, <2>2, <2>4
<1>9. ASSUME NEW s \in Slots, DgRemove(s) PROVE SyncsAlone'
  <2>1. /\ inset' \subseteq inset /\ run' \subseteq run
        /\ UNCHANGED <<down, data, token, other>>
    BY <1>9 DEF DgRemove, config, members
  <2>2. QED
    BY <1>1, <2>1
<1>10. QED
  BY <1>3, <1>4, <1>5, <1>6, <1>7, <1>8, <1>9, PassCases

\* As long as dataguard is not restarted and no member stops, the token is kept.
LEMMA SyncsAloneStep ==
  /\ TypeOK /\ Snapshot /\ MembersAreHeld /\ Copies
  /\ Undisturbed => SyncsAlone
  /\ [Next]_vars
  => (Undisturbed => SyncsAlone)'
<1> SUFFICES ASSUME TypeOK, Snapshot, MembersAreHeld, Copies, Undisturbed => SyncsAlone,
                    [Next]_vars, Undisturbed'
             PROVE  SyncsAlone'
  OBVIOUS
<1>1. spent' = spent \/ \E e \in Events : Spend(e)
  <2>1. CASE DgActs
    BY <2>1, PassCases
       DEF DgHolds, DgHide, DgUnhide, DgEnfranchise, DgStepDown, DgPromote, DgProvision,
           DgRemove, outside, Events
  <2>2. QED
    BY <2>1 DEF Next, DgInitiate, DgRead, DgRestart, Rested, OtherProvisions, OtherSynced,
                OtherEnfranchises, MoodChanges, Election, Elect, TakeOver, Copying, Synced,
                CatchesUp, FallsBehind, Fails, Recovers, MachineJoins, MachineGoes, vars,
                outside, Events
<1>2. Undisturbed /\ SyncsAlone
  BY <1>1, UndisturbedBefore
<1> USE <1>2 DEF SyncsAlone, Syncing, Up
<1>3. CASE DgActs
  BY <1>3, SyncsAlonePass
<1>4. CASE DgInitiate
  <2>1. inset' = {1} /\ 1 \in data /\ UNCHANGED <<members, process, token, outside>>
    BY <1>4 DEF DgInitiate, Copies
  <2>2. dgpc' = "read"
    BY <1>4 DEF DgInitiate, process
  <2>3. QED
    BY <2>1, <2>2 DEF members, outside
<1>5. CASE DgRead
  BY <1>5 DEF DgRead, Topology, config, members
<1>6. CASE DgRestart
  BY <1>6 DEF DgRestart, Spend, Undisturbed, TypeOK, Events
<1>7. CASE Rested
  BY <1>7 DEF Rested, config, members, process, outside
<1>8. CASE OtherProvisions \/ OtherSynced \/ OtherEnfranchises
  BY <1>8 DEF OtherProvisions, OtherSynced, OtherEnfranchises, config, members, process
<1>9. CASE MoodChanges
  BY <1>9 DEF MoodChanges, config, members, process
<1>10. ASSUME NEW s \in Slots,
              Election(s) \/ Copying(s) \/ FallsBehind(s) \/ MachineJoins(s)
       PROVE  SyncsAlone'
  BY <1>10 DEF Election, Elect, TakeOver, Copying, Synced, CatchesUp, FallsBehind,
               MachineJoins, config, members, process, outside
<1>11. ASSUME NEW s \in Slots, Fails(s) PROVE FALSE
  BY <1>11 DEF Fails, Spend, Undisturbed, TypeOK, Events
<1>12. ASSUME NEW s \in Slots, Recovers(s) PROVE FALSE
  BY <1>12 DEF Recovers
<1>13. ASSUME NEW s \in Slots, MachineGoes(s) PROVE SyncsAlone'
  <2>1. s \notin inset
    BY <1>13 DEF MachineGoes, MembersAreHeld
  <2>2. UNCHANGED <<inset, run, down, dgpc, seen, token, other>> /\ data' = data \ {s}
    BY <1>13 DEF MachineGoes, config, process, outside
  <2>3. QED
    BY <2>1, <2>2
<1>14. CASE UNCHANGED vars
  BY <1>14 DEF vars, config, members, process, outside
<1>15. QED
  BY <1>3, <1>4, <1>5, <1>6, <1>7, <1>8, <1>9, <1>10, <1>11, <1>12, <1>13, <1>14 DEF Next

\* At most one member of the cluster copies its data from nothing.  (_syncing, refusals.)
THEOREM OneSyncStays == Spec => []OneSyncAtATime
<1> DEFINE I == /\ TypeOK /\ Snapshot /\ MembersAreHeld /\ Copies
                /\ Undisturbed => SyncsAlone
<1>1. Init => I
  <2>1. 1 \in Slots
    BY ReplicaConstants DEF ReplicaConstants, Slots
  <2>2. Init => Copies /\ MembersAreHeld /\ SyncsAlone
    BY <2>1 DEF Init, Copies, MembersAreHeld, SyncsAlone, Syncing, Up
  <2>3. QED
    BY <2>2, InitTypes
<1>2. I /\ [Next]_vars => I'
  BY StepTypes, SnapshotStep, MembersAreHeldStep, CopiesStep, SyncsAloneStep
<1>3. I => OneSyncAtATime
  <2> SUFFICES ASSUME I, Undisturbed
               PROVE  Cardinality(Syncing) <= 1 /\ (other = "sync" => Syncing = {})
    BY DEF Undisturbed, OneSyncAtATime
  <2>1. CASE Syncing = {}
    <3>1. Cardinality(Syncing) = 0
      BY <2>1, FS_EmptySet
    <3>2. QED
      BY <2>1, <3>1
  <2>2. CASE Syncing # {}
    <3>1. PICK a \in Syncing : Syncing = {a}
      BY <2>2 DEF SyncsAlone
    <3>2. Cardinality(Syncing) = 1
      BY <3>1, FS_Singleton
    <3>3. QED
      BY <2>2, <3>2 DEF SyncsAlone
  <2>3. QED
    BY <2>1, <2>2
<1>4. QED
  BY <1>1, <1>2, <1>3, PTL DEF Spec

-----------------------------------------------------------------------------
(* The steps of module Membership.                                         *)

\* The primary votes, so a set that has one has a voter.
PrimaryVotes == primary # Nobody => primary \in votes

\* An election makes a voter the primary, and a voter that leaves is not the primary.
LEMMA PrimaryVotesStep == TypeOK /\ PrimaryVotes /\ [Next]_vars => PrimaryVotes'
<1> SUFFICES ASSUME TypeOK, PrimaryVotes, [Next]_vars PROVE PrimaryVotes'
  OBVIOUS
<1> USE DEF PrimaryVotes
<1>1. CASE (primary' = primary \/ primary' = Nobody) /\ votes \subseteq votes'
  BY <1>1
<1>2. CASE DgActs
  <2>1. ASSUME NEW s \in Slots, DgRemove(s) PROVE PrimaryVotes'
    BY <2>1 DEF DgRemove, StepDown, Still, config
  <2>2. CASE \E a \in NextAction : DgHolds(a)
    BY <1>1, <2>2 DEF DgHolds, config
  <2>3. CASE DgStepDown
    BY <1>1, <2>3 DEF DgStepDown, StepDown, config
  <2>4. ASSUME NEW s \in Enfranchisable, DgEnfranchise(s) PROVE PrimaryVotes'
    BY <1>1, <2>4 DEF DgEnfranchise, Still
  <2>5. ASSUME NEW s \in Slots, NEW wants \in BOOLEAN,
               DgUnhide(s) \/ DgPromote(s) \/ DgProvision(s, wants)
        PROVE  PrimaryVotes'
    BY <1>1, <2>5 DEF DgUnhide, DgPromote, DgProvision, VotesWith
  <2>6. ASSUME NEW s \in seen.healthy, DgHide(s) PROVE PrimaryVotes'
    BY <1>1, <2>6 DEF DgHide
  <2>7. QED
    BY <1>2, <2>1, <2>2, <2>3, <2>4, <2>5, <2>6, PassCases
<1>3. CASE DgInitiate
  BY <1>3 DEF DgInitiate, TypeOK
<1>4. ASSUME NEW s \in Slots, Election(s) \/ Fails(s) PROVE PrimaryVotes'
  BY <1>4 DEF Election, Elect, TakeOver, Electable, Fails, Still, config
<1>5. CASE DgRead \/ DgRestart \/ Rested
  BY <1>1, <1>5 DEF DgRead, DgRestart, Rested, config
<1>6. CASE OtherProvisions \/ OtherSynced \/ OtherEnfranchises \/ MoodChanges
  BY <1>1, <1>6 DEF OtherProvisions, OtherSynced, OtherEnfranchises, MoodChanges, config
<1>7. ASSUME NEW s \in Slots,
             \/ Copying(s) \/ FallsBehind(s) \/ Recovers(s)
             \/ MachineJoins(s) \/ MachineGoes(s)
      PROVE  PrimaryVotes'
  BY <1>1, <1>7 DEF Copying, Synced, CatchesUp, FallsBehind, Recovers, MachineJoins,
                    MachineGoes, config
<1>8. CASE UNCHANGED vars
  BY <1>1, <1>8 DEF vars, config
<1>9. QED
  BY <1>2, <1>3, <1>4, <1>5, <1>6, <1>7, <1>8 DEF Next

\* A pass is a step of Membership, or leaves the members and the voters as they are.
LEMMA PassIsStep ==
  TypeOK /\ Snapshot /\ PrimaryVotes /\ DgActs
    => Steps!Next \/ (inset' = inset /\ votes' = votes)
<1> SUFFICES ASSUME TypeOK, Snapshot, PrimaryVotes, DgActs
             PROVE  Steps!Next \/ (inset' = inset /\ votes' = votes)
  OBVIOUS
<1>1. /\ seen.inset = inset /\ seen.votes = votes /\ seen.healthy \subseteq inset
      /\ votes \subseteq inset /\ inset \subseteq Slots
  BY DEF DgActs, Snapshot, TypeOK
<1>2. ASSUME NEW s \in Enfranchisable, DgEnfranchise(s) PROVE Steps!Next
  <2>1. s \in inset \ votes /\ votes' = votes \cup {s} /\ inset' = inset
    BY <1>1, <1>2 DEF DgEnfranchise, Enfranchisable, Secondaries, Voters
  <2>2. Steps!Earn(s)
    BY <2>1 DEF Steps!Earn
  <2>3. QED
    BY <1>1, <2>1, <2>2 DEF Steps!Next
<1>3. ASSUME NEW s \in Slots, NEW wants \in BOOLEAN, DgProvision(s, wants), inset' # inset
      PROVE  Steps!Next
  <2>1. inset' = inset \cup {s} /\ s \notin inset /\ votes' = votes /\ primary # Nobody
    BY <1>3 DEF DgProvision, VotesWith, CanReconfig
  <2>2. Steps!Join(s)
    BY <1>1, <2>1 DEF Steps!Join, PrimaryVotes
  <2>3. QED
    BY <2>2 DEF Steps!Next
<1>4. ASSUME NEW s \in Slots, DgRemove(s), s # seen.primary PROVE Steps!Next
  <2>1. inset' = inset \ {s} /\ votes' = votes \ {s} /\ s \in inset /\ votes # {s}
    BY <1>4 DEF DgRemove, CanReconfig, PrimaryVotes
  <2>2. Steps!Leave(s)
    BY <1>1, <2>1 DEF Steps!Leave
  <2>3. QED
    BY <2>2 DEF Steps!Next
<1>5. ASSUME NEW s \in Slots, DgRemove(s), s = seen.primary
      PROVE  inset' = inset /\ votes' = votes
  BY <1>5 DEF DgRemove, config
<1>6. ASSUME \/ DgStepDown
             \/ \E a \in NextAction : DgHolds(a)
             \/ \E s \in seen.healthy : DgHide(s)
             \/ \E s \in Slots : DgUnhide(s) \/ DgPromote(s)
      PROVE  inset' = inset /\ votes' = votes
  BY <1>6 DEF DgStepDown, DgHolds, DgHide, DgUnhide, DgPromote, config
<1>7. ASSUME NEW s \in Slots, NEW wants \in BOOLEAN, DgProvision(s, wants), inset' = inset
      PROVE  votes' = votes
  BY <1>7 DEF DgProvision, VotesWith
<1>8. QED
  BY <1>2, <1>3, <1>4, <1>5, <1>6, <1>7, PassCases

\* Every step of the database is a step of Membership or a stutter.
LEMMA StepIsStep ==
  TypeOK /\ Snapshot /\ PrimaryVotes /\ [Next]_vars => [Steps!Next]_(Steps!vars)
<1> SUFFICES ASSUME TypeOK, Snapshot, PrimaryVotes, [Next]_vars
             PROVE  Steps!Next \/ (inset' = inset /\ votes' = votes)
  BY DEF Steps!vars
<1>1. CASE DgActs
  BY <1>1, PassIsStep
<1>2. CASE DgInitiate
  <2>1. inset = {} /\ votes = {} /\ inset' = {1} /\ votes' = {1}
    BY <1>2 DEF DgInitiate, TypeOK
  <2>2. Steps!Found
    BY <2>1 DEF Steps!Found
  <2>3. QED
    BY <2>2 DEF Steps!Next
<1>3. CASE DgRead \/ DgRestart \/ Rested
  BY <1>3 DEF DgRead, DgRestart, Rested, config
<1>4. CASE OtherProvisions \/ OtherSynced \/ OtherEnfranchises \/ MoodChanges
  BY <1>4 DEF OtherProvisions, OtherSynced, OtherEnfranchises, MoodChanges, config
<1>5. ASSUME NEW s \in Slots,
             \/ Election(s) \/ Copying(s) \/ FallsBehind(s) \/ Fails(s) \/ Recovers(s)
             \/ MachineJoins(s) \/ MachineGoes(s)
      PROVE  inset' = inset /\ votes' = votes
  BY <1>5 DEF Election, Elect, TakeOver, Copying, Synced, CatchesUp, FallsBehind, Fails,
              Recovers, MachineJoins, MachineGoes, config
<1>6. CASE UNCHANGED vars
  BY <1>6 DEF vars, config
<1>7. QED
  BY <1>1, <1>2, <1>3, <1>4, <1>5, <1>6 DEF Next

\* One member joins or leaves at a time, it joins without a vote, and the last voter
\* stays: whatever fails, whoever is elected, and whatever was decided meanwhile.
THEOREM StepsAreMembership == Spec => ImplementsMembership
<1> DEFINE I == TypeOK /\ Snapshot /\ PrimaryVotes
<1>1. Init => I
  BY InitTypes DEF Init, PrimaryVotes
<1>2. Init => Steps!Init
  BY DEF Init, Steps!Init
<1>3. I /\ [Next]_vars => I'
  BY StepTypes, SnapshotStep, PrimaryVotesStep
<1>4. I /\ [Next]_vars => [Steps!Next]_(Steps!vars)
  BY StepIsStep
<1>5. QED
  BY <1>1, <1>2, <1>3, <1>4, PTL DEF Spec, Steps!Spec, ImplementsMembership
=============================================================================
