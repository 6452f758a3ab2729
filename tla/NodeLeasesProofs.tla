-------------------------- MODULE NodeLeasesProofs --------------------------
(***************************************************************************)
(* Proofs about NodeLeases: type correctness, applications off the leased  *)
(* machines, one machine per lease, and no member's machine ever deleted.  *)
(***************************************************************************)
EXTENDS NodeLeases, TLAPS

\* Every value a step writes has its type.
THEOREM TypeCorrect == Spec => []TypeOK
<1>1. Init => TypeOK
  BY LeaseConstants DEF Init, TypeOK, Events, LeaseConstants
<1>2. TypeOK /\ [Next]_vars => TypeOK'
  <2> SUFFICES ASSUME TypeOK, [Next]_vars PROVE TypeOK'
    OBVIOUS
  <2> USE LeaseConstants DEF LeaseConstants, TypeOK
  <2>1. ASSUME NEW e \in Events, Spend(e) PROVE spent' \in [Events -> Nat]
    BY <2>1 DEF Spend
  <2>2. CASE OvReap
    <3>1. PICK missed \in SUBSET ((Nodes \cap Servers) \ stamped),
               old \in SUBSET Booting :
            /\ spent' = spent \/ Spend("error") \/ Spend("slow")
            /\ Forget(old \cup (In({"lost"}) \cap stamped))
            /\ stamped' = (stamped \cup ((Nodes \cap Servers) \ missed)) \ In({"lost"})
      BY <2>2 DEF OvReap, Unstamped
    <3>2. spent' \in [Events -> Nat]
      BY <3>1, <2>1 DEF Events
    <3>3. QED
      BY <2>2, <3>1, <3>2 DEF OvReap, Forget, Nodes, In, members, dgVars
  <2>3. CASE OvRead
    BY <2>3 DEF OvRead, Wanted, Ready, In, cluster, members, dgVars
  <2>4. CASE OvSkips \/ OvRestart \/ LeasesExpire
    BY <2>4, <2>1 DEF OvSkips, OvRestart, LeasesExpire, Events, cluster, members, dgVars
  <2>5. CASE OvAdopt
    <3>1. spent' \in [Events -> Nat]
      BY <2>5, <2>1 DEF OvAdopt, Events
    <3>2. QED
      BY <2>5, <3>1 DEF OvAdopt, ToAdopt, Nodes, In, members, dgVars
  <2>6. CASE OvBuyLeased
    <3>1. PICK buy \in [Fresh -> Missing \cup {NoLease}] :
            LET B == {m \in Fresh : buy[m] # NoLease} IN
            /\ spent' = spent \/ Spend("error")
            /\ machine' = [m \in Machines |-> IF m \in B THEN "booting" ELSE machine[m]]
            /\ tag' = [m \in Machines |-> IF m \in B THEN buy[m] ELSE tag[m]]
            /\ paused' = paused \cup JoinsPaused(B)
      BY <2>6 DEF OvBuyLeased
    <3>2. spent' \in [Events -> Nat]
      BY <3>1, <2>1 DEF Events
    <3>3. Fresh \subseteq Machines /\ Missing \subseteq Leases
      BY DEF Fresh, In, Missing
    <3>4. QED
      BY <2>6, <3>1, <3>2, <3>3 DEF OvBuyLeased, JoinsPaused, members, dgVars
  <2>7. CASE OvGrow
    <3>1. spent' \in [Events -> Nat]
      BY <2>7, <2>1 DEF OvGrow, Events
    <3>2. QED
      BY <2>7, <3>1 DEF OvGrow, members, dgVars
  <2>8. CASE OvShrink
    BY <2>8 DEF OvShrink, Forget, members, dgVars
  <2>9. CASE DgSync
    BY <2>9 DEF DgSync, RecordLeases, Answer, Marked, Nodes, In, cluster, members
  <2>10. CASE DgRestart
    BY <2>10, <2>1 DEF DgRestart, Events, cluster, members, ovVars
  <2>11. ASSUME NEW l \in Leases, DgProvision(l) PROVE TypeOK'
    <3>1. PICK posted \in BOOLEAN, reached \in {"held", "pinned", "started", "member"} :
            /\ IF posted THEN known' = held' /\ seen' = Answer
                         ELSE UNCHANGED <<known, seen>>
            /\ spent' = spent \/ Spend("error")
            /\ IF seen'[l] = {} \/ reached = "held"
                 THEN UNCHANGED members
                 ELSE /\ home' = [home EXCEPT ![l] = @ \cup seen'[l]]
                      /\ member' = [member EXCEPT ![l] =
                                      IF reached = "pinned" THEN @ ELSE reached]
      BY <2>11 DEF DgProvision, RecordLeases, LeaseReady, StartMember
    <3>2. spent' \in [Events -> Nat]
      BY <3>1, <2>1 DEF Events
    <3>3. held' \subseteq Leases
      BY <2>11 DEF DgProvision
    <3>4. known' \subseteq Leases /\ seen' \in [Leases -> SUBSET Machines]
      BY <3>1, <3>3 DEF Answer, Marked, Nodes, In
    <3>5. home' \in [Leases -> SUBSET Machines]
      BY <3>1, <3>4 DEF members
    <3>6. member' \in [Leases -> {"off", "started", "member"}]
      BY <3>1 DEF members
    <3>7. QED
      BY <2>11, <3>2, <3>3, <3>4, <3>5, <3>6 DEF DgProvision, cluster
  <2>12. ASSUME NEW l \in Leases, DgRemove(l) PROVE TypeOK'
    <3>1. spent' \in [Events -> Nat]
      BY <2>12, <2>1 DEF DgRemove, Events
    <3>2. QED
      BY <2>12, <3>1 DEF DgRemove, StopMember, cluster, ovVars
  <2>13. ASSUME NEW m \in Machines, Join(m) \/ AppStarts(m) \/ Recovers(m) PROVE TypeOK'
    BY <2>13 DEF Join, AppStarts, Recovers, members, ovVars, dgVars
  <2>14. ASSUME NEW m \in Machines, Dies(m) \/ Flaps(m) PROVE TypeOK'
    BY <2>14, <2>1 DEF Dies, Flaps, Goes, Events, members, ovVars, dgVars
  <2>15. CASE UNCHANGED vars
    BY <2>15 DEF vars, cluster, members, ovVars, dgVars
  <2>16. QED
    BY <2>2, <2>3, <2>4, <2>5, <2>6, <2>7, <2>8, <2>9, <2>10, <2>11, <2>12, <2>13,
       <2>14, <2>15 DEF Next, OverseerStep, Fault
<1>3. QED
  BY <1>1, <1>2, PTL DEF Spec

-----------------------------------------------------------------------------
(* What keeps applications off.                                            *)

\* A leased machine is labelled or still paused, a labelled one is leased, and a
\* name that is not in use carries nothing.
KeptOff ==
  /\ \A m \in Machines : machine[m] = "absent" =>
       tag[m] = NoLease /\ m \notin dedicated /\ m \notin app
  /\ dedicated \subseteq Leased
  /\ Leased \subseteq dedicated \cup paused
  /\ app \cap Leased = {}

\* Every step keeps it: the label is written with the availability, and a server
\* bought for a lease starts paused.
LEMMA KeptOffStep == TypeOK /\ KeptOff /\ [Next]_vars => KeptOff'
<1> SUFFICES ASSUME TypeOK, KeptOff, [Next]_vars PROVE KeptOff'
  OBVIOUS
<1> USE LeaseConstants DEF LeaseConstants, TypeOK, KeptOff, Leased
<1>1. ASSUME NEW S \in SUBSET Machines, Forget(S) PROVE KeptOff'
  BY <1>1 DEF Forget
<1>2. CASE OvReap
  <2>1. \E S \in SUBSET Machines : Forget(S)
    BY <1>2 DEF OvReap, Booting, In
  <2>2. QED
    BY <2>1, <1>1
<1>3. CASE OvShrink
  <2>1. \E S \in SUBSET Machines : Forget(S)
    BY <1>3 DEF OvShrink, In
  <2>2. QED
    BY <2>1, <1>1
<1>4. CASE OvAdopt
  BY <1>4 DEF OvAdopt, ToAdopt, Nodes, Servers, In
<1>5. CASE OvBuyLeased
  <2>1. PICK buy \in [Fresh -> Missing \cup {NoLease}] :
          LET B == {m \in Fresh : buy[m] # NoLease} IN
          /\ machine' = [m \in Machines |-> IF m \in B THEN "booting" ELSE machine[m]]
          /\ tag' = [m \in Machines |-> IF m \in B THEN buy[m] ELSE tag[m]]
          /\ paused' = paused \cup JoinsPaused(B)
    BY <1>5 DEF OvBuyLeased
  <2>2. UNCHANGED <<dedicated, app>>
    BY <1>5 DEF OvBuyLeased
  <2>3. \A m \in Fresh : machine[m] = "absent"
    BY DEF Fresh, In
  <2>4. QED
    BY <2>1, <2>2, <2>3 DEF JoinsPaused
<1>6. CASE OvGrow
  BY <1>6 DEF OvGrow, Fresh, In
<1>7. ASSUME NEW m \in Machines, Join(m) \/ Dies(m) \/ Flaps(m) \/ Recovers(m)
      PROVE  KeptOff'
  BY <1>7 DEF Join, Dies, Flaps, Recovers, Goes
<1>8. ASSUME NEW m \in Machines, AppStarts(m) PROVE KeptOff'
  BY <1>8 DEF AppStarts, In
<1>9. CASE UNCHANGED cluster
  BY <1>9 DEF cluster
<1>10. QED
  BY <1>2, <1>3, <1>4, <1>5, <1>6, <1>7, <1>8, <1>9
  DEF Next, OverseerStep, Fault, OvRead, OvSkips, OvRestart, LeasesExpire, DgSync,
      DgRestart, DgProvision, DgRemove, vars

\* On any fleet, through any faults, no application task is on a leased machine.
THEOREM AppsKeepOffAlways == Spec => []AppsKeepOff
<1>1. Init => KeptOff
  BY DEF Init, KeptOff, Leased
<1>2. TypeOK /\ KeptOff /\ [Next]_vars => KeptOff'
  BY KeptOffStep
<1>3. KeptOff => AppsKeepOff
  BY DEF KeptOff, AppsKeepOff
<1>4. QED
  BY <1>1, <1>2, <1>3, TypeCorrect, PTL DEF Spec

-----------------------------------------------------------------------------
(* One machine per lease.                                                  *)

\* A machine answers for its lease while its server exists or its node is labelled.
Owns(m)  == m \in Servers \/ (m \in Nodes /\ m \in dedicated)
OneOwner == \A m, n \in Leased : tag[m] = tag[n] /\ Owns(m) /\ Owns(n) => m = n

\* Only a purchase makes a machine answer for a lease, and it looks for one first.
LEMMA OneOwnerStep == TypeOK /\ KeptOff /\ OneOwner /\ [Next]_vars => OneOwner'
<1> SUFFICES ASSUME TypeOK, KeptOff, OneOwner, [Next]_vars PROVE OneOwner'
  OBVIOUS
<1> USE LeaseConstants DEF LeaseConstants, TypeOK, OneOwner
<1>1. ASSUME \A m \in Leased' : m \in Leased /\ tag'[m] = tag[m] /\ (Owns(m)' => Owns(m))
      PROVE  OneOwner'
  BY <1>1
<1>2. ASSUME NEW S \in SUBSET Machines, Forget(S) PROVE OneOwner'
  BY <1>1, <1>2 DEF Forget, Leased, Owns, Servers, Nodes, In
<1>3. CASE OvReap
  <2>1. \E S \in SUBSET Machines : Forget(S)
    BY <1>3 DEF OvReap, Booting, In
  <2>2. QED
    BY <2>1, <1>2
<1>4. CASE OvShrink
  <2>1. \E S \in SUBSET Machines : Forget(S)
    BY <1>4 DEF OvShrink, In
  <2>2. QED
    BY <2>1, <1>2
<1>5. CASE OvAdopt
  BY <1>1, <1>5 DEF OvAdopt, ToAdopt, Leased, Owns, Servers, Nodes, In
<1>6. CASE OvBuyLeased
  <2>1. PICK buy \in [Fresh -> Missing \cup {NoLease}] :
          LET B == {m \in Fresh : buy[m] # NoLease} IN
          /\ \A m, n \in B : buy[m] = buy[n] => m = n
          /\ machine' = [m \in Machines |-> IF m \in B THEN "booting" ELSE machine[m]]
          /\ tag' = [m \in Machines |-> IF m \in B THEN buy[m] ELSE tag[m]]
    BY <1>6 DEF OvBuyLeased
  <2> DEFINE B == {m \in Fresh : buy[m] # NoLease}
  <2>2. dedicated' = dedicated
    BY <1>6 DEF OvBuyLeased
  <2>3. \A m \in B : buy[m] \in Missing /\ m \in Machines /\ tag'[m] = buy[m]
    BY <2>1 DEF Fresh, In
  <2>4. \A n \in Leased : Owns(n) => tag[n] \notin Missing
    BY DEF Owns, Missing, Marked, Leased, Nodes, In
  <2>5. \A n \in Leased' \ B : n \in Leased /\ tag'[n] = tag[n] /\ (Owns(n)' => Owns(n))
    BY <2>1, <2>2 DEF Leased, Owns, Servers, Nodes, In
  <2> SUFFICES ASSUME NEW m \in Leased', NEW n \in Leased', tag'[m] = tag'[n],
                      Owns(m)', Owns(n)'
               PROVE  m = n
    OBVIOUS
  <2>6. CASE m \in B /\ n \in B
    BY <2>1, <2>3, <2>6
  <2>7. CASE m \in B /\ n \notin B
    BY <2>3, <2>4, <2>5, <2>7
  <2>8. CASE m \notin B /\ n \in B
    BY <2>3, <2>4, <2>5, <2>8
  <2>9. CASE m \notin B /\ n \notin B
    BY <2>5, <2>9
  <2>10. QED
    BY <2>6, <2>7, <2>8, <2>9
<1>7. CASE OvGrow
  <2>1. \A m \in Fresh : tag[m] = NoLease
    BY DEF KeptOff, Fresh, In
  <2>2. QED
    BY <1>1, <1>7, <2>1 DEF OvGrow, Leased, Owns, Servers, Nodes, In
<1>8. ASSUME NEW m \in Machines, Join(m) \/ Dies(m) \/ Flaps(m) \/ Recovers(m)
      PROVE  OneOwner'
  BY <1>1, <1>8 DEF Join, Dies, Flaps, Recovers, Goes, Leased, Owns, Servers, Nodes, In
<1>9. CASE UNCHANGED <<machine, tag, dedicated>>
  BY <1>1, <1>9 DEF Leased, Owns, Servers, Nodes, In
<1>10. QED
  BY <1>3, <1>4, <1>5, <1>6, <1>7, <1>8, <1>9
  DEF Next, OverseerStep, Fault, OvRead, OvSkips, OvRestart, LeasesExpire, DgSync,
      DgRestart, DgProvision, DgRemove, AppStarts, vars, cluster

\* For any leases, machines and faults, a lease never has two machines.
THEOREM OnePerLeaseAlways == Spec => []OnePerLease
<1>1. Init => KeptOff /\ OneOwner
  BY DEF Init, KeptOff, OneOwner, Leased
<1>2. TypeOK /\ KeptOff /\ OneOwner /\ [Next]_vars => KeptOff' /\ OneOwner'
  BY KeptOffStep, OneOwnerStep
<1>3. TypeOK /\ OneOwner => OnePerLease
  BY DEF OneOwner, OnePerLease, Owns, Marked, Leased
<1>4. QED
  BY <1>1, <1>2, <1>3, TypeCorrect, PTL DEF Spec

-----------------------------------------------------------------------------
(* No member's machine is deleted.                                         *)

\* The workers the loop has read are ordinary; the machines members are pinned to,
\* and those of the last answer, were bought for a lease or are gone.
Apart ==
  /\ \A m \in ovReady : tag[m] = NoLease
  /\ \A l \in Leases : \A m \in home[l] \cup seen[l] :
       tag[m] # NoLease \/ machine[m] = "absent"

\* Every step keeps it: what is labelled is never ready for applications, and a name
\* somebody holds is not used again.
LEMMA ApartStep == TypeOK /\ KeptOff /\ Apart /\ [Next]_vars => Apart'
<1> SUFFICES ASSUME TypeOK, KeptOff, Apart, [Next]_vars PROVE Apart'
  OBVIOUS
<1> USE LeaseConstants DEF LeaseConstants, TypeOK, Apart
<1>1. ASSUME NEW S \in SUBSET Machines, Forget(S), UNCHANGED <<members, ovReady, dgVars>>
      PROVE  Apart'
  BY <1>1 DEF Forget, members, dgVars
<1>2. CASE OvReap
  <2>1. \E S \in SUBSET Machines : Forget(S)
    BY <1>2 DEF OvReap, Booting, In
  <2>2. QED
    BY <2>1, <1>1, <1>2 DEF OvReap
<1>3. CASE OvShrink
  <2>1. \E S \in SUBSET Machines : Forget(S)
    BY <1>3 DEF OvShrink, In
  <2>2. QED
    BY <2>1, <1>1, <1>3 DEF OvShrink
<1>4. CASE OvRead
  BY <1>4 DEF OvRead, KeptOff, Leased, Ready, In, cluster, members, dgVars
<1>5. CASE OvBuyLeased
  <2>1. PICK buy \in [Fresh -> Missing \cup {NoLease}] :
          LET B == {m \in Fresh : buy[m] # NoLease} IN
          /\ machine' = [m \in Machines |-> IF m \in B THEN "booting" ELSE machine[m]]
          /\ tag' = [m \in Machines |-> IF m \in B THEN buy[m] ELSE tag[m]]
    BY <1>5 DEF OvBuyLeased
  <2>2. UNCHANGED <<members, ovReady, dgVars>>
    BY <1>5 DEF OvBuyLeased
  <2>3. \A m \in Fresh : m \notin ovReady
    BY DEF Fresh
  <2>4. QED
    BY <2>1, <2>2, <2>3 DEF members, dgVars
<1>6. CASE OvGrow
  <2>1. \A m \in Fresh : \A l \in Leases : m \notin home[l] \cup seen[l]
    BY DEF Fresh
  <2>2. QED
    BY <1>6, <2>1 DEF OvGrow, members, dgVars
<1>7. \A l \in Leases : Answer[l] \subseteq {m \in Machines : tag[m] = l}
  BY DEF Answer, Marked, Nodes, In
<1>8. CASE DgSync
  BY <1>7, <1>8 DEF DgSync, cluster, members
<1>9. ASSUME NEW l \in Leases, DgProvision(l) PROVE Apart'
  <2>1. seen' = seen \/ seen' = Answer
    BY <1>9 DEF DgProvision
  <2>2. UNCHANGED <<tag, machine, ovReady>>
    BY <1>9 DEF DgProvision, cluster
  <2>3. home' = home \/ home' = [home EXCEPT ![l] = @ \cup seen'[l]]
    BY <1>9 DEF DgProvision, StartMember, members
  <2>4. \A k \in Leases : \A m \in seen'[k] : tag[m] # NoLease \/ machine[m] = "absent"
    BY <1>7, <2>1
  <2>5. \A k \in Leases : home'[k] \subseteq home[k] \cup seen'[k]
    BY <2>3
  <2>6. QED
    BY <2>2, <2>4, <2>5
<1>10. ASSUME NEW l \in Leases, DgRemove(l) PROVE Apart'
  BY <1>10 DEF DgRemove, cluster, ovVars
<1>11. CASE OvRestart \/ DgRestart \/ OvAdopt \/ OvSkips \/ LeasesExpire
  BY <1>11 DEF OvRestart, DgRestart, OvAdopt, OvSkips, LeasesExpire, cluster, members,
               ovVars, dgVars
<1>12. ASSUME NEW m \in Machines,
              Join(m) \/ Dies(m) \/ Flaps(m) \/ Recovers(m) \/ AppStarts(m)
       PROVE  Apart'
  BY <1>12 DEF Join, Dies, Flaps, Recovers, Goes, AppStarts, members, ovVars, dgVars
<1>13. CASE UNCHANGED vars
  BY <1>13 DEF vars, cluster, members, ovVars, dgVars
<1>14. QED
  BY <1>2, <1>3, <1>4, <1>5, <1>6, <1>8, <1>9, <1>10, <1>11, <1>12, <1>13
  DEF Next, OverseerStep, Fault

\* On any fleet, through restarts of both processes and the expiry of every lease, no
\* step deletes a machine that still exists and that a member was started on.
THEOREM MemberKeptAlways == Spec => MemberKept
<1>1. Init => KeptOff /\ Apart
  BY DEF Init, KeptOff, Apart, Leased
<1>2. TypeOK /\ KeptOff /\ Apart /\ [Next]_vars => KeptOff' /\ Apart'
  BY KeptOffStep, ApartStep
<1>3. TypeOK /\ Apart /\ [Next]_vars =>
        [\A l \in Leases : \A m \in home[l] :
           m \in Nodes \cap Servers => machine'[m] # "absent"]_vars
  <2> SUFFICES ASSUME TypeOK, Apart, Next, NEW l \in Leases, NEW m \in home[l],
                      m \in Nodes \cap Servers
               PROVE  machine'[m] # "absent"
    BY DEF vars
  <2> USE DEF TypeOK
  <2>1. m \in Machines /\ machine[m] \in {"ready", "down"}
    BY DEF Nodes, Servers, In
  <2>2. CASE OvReap
    BY <2>1, <2>2 DEF OvReap, Forget, Booting, In
  <2>3. CASE OvShrink
    <3>1. m \notin ovReady
      BY <2>1 DEF Apart
    <3>2. QED
      BY <2>1, <2>3, <3>1 DEF OvShrink, Forget
  <2>4. CASE OvBuyLeased
    BY <2>1, <2>4 DEF OvBuyLeased
  <2>5. CASE OvGrow
    BY <2>1, <2>5 DEF OvGrow
  <2>6. ASSUME NEW n \in Machines, Join(n) \/ Dies(n) \/ Flaps(n) \/ Recovers(n)
        PROVE  machine'[m] # "absent"
    BY <2>1, <2>6 DEF Join, Dies, Flaps, Recovers, Goes
  <2>7. CASE machine' = machine
    BY <2>1, <2>7
  <2>8. QED
    BY <2>2, <2>3, <2>4, <2>5, <2>6, <2>7
    DEF Next, OverseerStep, Fault, OvRead, OvSkips, OvAdopt, OvRestart, LeasesExpire,
        DgSync, DgRestart, DgProvision, DgRemove, AppStarts, cluster
<1>4. QED
  BY <1>1, <1>2, <1>3, TypeCorrect, PTL DEF Spec, MemberKept
=============================================================================
