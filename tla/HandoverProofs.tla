--------------------------- MODULE HandoverProofs ---------------------------
(***************************************************************************)
(* Proofs about Handover: type correctness, the safety of removing the     *)
(* last worker, and the worker budget.                                     *)
(***************************************************************************)
EXTENDS Handover, FiniteSetTheorems, TLAPS

\* Every value a step writes has its type.
THEOREM TypeCorrect == Spec => []TypeOK
<1>1. Init => TypeOK
  <2> SUFFICES ASSUME Init PROVE TypeOK
    OBVIOUS
  <2>1. PICK W \in SUBSET Workers :
          /\ node = [w \in Workers |-> IF w \in W THEN "ready" ELSE "absent"]
          /\ pin = [s \in Services |->
                      Mode[s] = "workers" \/ (Mode[s] = "auto" /\ W # {})]
    BY DEF Init
  <2>2. node \in [Workers -> {"absent", "booting", "orphan", "ready",
                              "drained", "down", "lost"}]
    BY <2>1
  <2>3. pin \in [Services -> BOOLEAN]
    BY <2>1
  <2>4. rolling \in [Services -> BOOLEAN] /\ at \in [Services -> Nodes \cup {NoNode}]
    BY DEF Init
  <2>5. unmoved \in [Services -> 0 .. StallLoops] /\ spent \in Nat
    BY ConstantsAssumption DEF Init, ConstantsAssumption
  <2>6. /\ young = {} /\ told = "none" /\ touched = {} /\ missed = {}
        /\ ovpc = "discover" /\ ovPin = {} /\ ovRoll = {} /\ ovOk = FALSE
        /\ ovReady = {} /\ ovHome = {} /\ ovWant = 0 /\ victim = NoNode
        /\ cooling = TRUE
        /\ aspc = "discover" /\ asPin = {} /\ asRoll = {} /\ asHome = {}
        /\ asTold = "none" /\ asTodo = {}
    BY DEF Init
  <2>7. QED
    BY <2>2, <2>3, <2>4, <2>5, <2>6 DEF TypeOK
<1>2. TypeOK /\ [Next]_vars => TypeOK'
  <2> SUFFICES ASSUME TypeOK, [Next]_vars PROVE TypeOK'
    OBVIOUS
  <2> USE ConstantsAssumption DEF ConstantsAssumption, TypeOK, Nodes
  <2>1. ASSUME NEW e \in Events, Spend(e) PROVE spent' \in Nat
    BY <2>1 DEF Spend
  <2>2. CASE OvDiscover
    BY <2>2 DEF OvDiscover, Pinned, Rolling, asVars
  <2>3. CASE OvReadNodes
    BY <2>3 DEF OvReadNodes, Ready, swarm, asVars
  <2>4. CASE OvReadTasks
    BY <2>4 DEF OvReadTasks, Home, Clamp, Lesser, Greater, swarm, asVars
  <2>5. CASE OvGrow
    BY <2>5, <2>1 DEF OvGrow, asVars, Events
  <2>7. CASE OvDrainFails
    BY <2>7, <2>1 DEF OvDrainFails, swarm, asVars, Events
  <2>8. ASSUME NEW w \in Workers, OvDrain(w) PROVE TypeOK'
    BY <2>8 DEF OvDrain, asVars
  <2>9. CASE OvDelete
    BY <2>9 DEF OvDelete, asVars
  <2>10. CASE OvDeleteFails
    <3>1. spent' \in Nat
      BY <2>10, <2>1 DEF OvDeleteFails, Events
    <3>2. node' \in [Workers -> {"absent", "booting", "orphan", "ready",
                                 "drained", "down", "lost"}]
      BY <2>10 DEF OvDeleteFails
    <3>3. cooling' \in BOOLEAN
      BY <2>10, Zenon DEF OvDeleteFails
    <3>4. QED
      BY <2>10, <3>1, <3>2, <3>3 DEF OvDeleteFails, asVars
  <2>11. CASE OvDispatch
    BY <2>11, <2>1 DEF OvDispatch, Verdict, swarm, asVars, Events
  <2>12. CASE OvInventoryFails \/ OvWaitFails \/ OvRestart
    <3>1. spent' \in Nat
      BY <2>12, <2>1 DEF OvInventoryFails, OvWaitFails, OvRestart, Events
    <3>2. CASE OvInventoryFails
      BY <3>1, <3>2 DEF OvInventoryFails, swarm, asVars
    <3>3. CASE OvWaitFails
      BY <3>1, <3>3 DEF OvWaitFails, swarm, asVars
    <3>4. CASE OvRestart
      <4>1. node' \in [Workers -> {"absent", "booting", "orphan", "ready",
                                   "drained", "down", "lost"}]
        BY <3>4 DEF OvRestart
      <4>2. QED
        BY <3>1, <3>4, <4>1 DEF OvRestart, asVars
    <3>5. QED
      BY <2>12, <3>2, <3>3, <3>4
  <2>13. CASE AsDiscover \/ AsRead
    BY <2>13 DEF AsDiscover, AsRead, Pinned, Rolling, Home, swarm, ovVars
  <2>14. ASSUME NEW s \in Services, AsPlace(s) PROVE TypeOK'
    BY <2>14 DEF AsPlace, Touch, ovVars
  <2>15. ASSUME NEW s \in Services, AsPlaceFails(s) PROVE TypeOK'
    BY <2>15, <2>1 DEF AsPlaceFails, swarm, ovVars, Events
  <2>16. CASE AsNudge
    BY <2>16, <2>1 DEF AsNudge, Touch, Stalled, Waiting, Lesser, ovVars, Events
  <2>17. CASE AsReadFails \/ AsRestart \/ VerdictExpires
    BY <2>17, <2>1 DEF AsReadFails, AsRestart, VerdictExpires, swarm, ovVars, asVars, Events
  <2>18. ASSUME NEW s \in Services, TaskStarts(s) PROVE TypeOK'
    BY <2>18 DEF TaskStarts, Best, Free, Eligible, ovVars, asVars
  <2>19. ASSUME NEW s \in Services, Deploy(s) PROVE TypeOK'
    BY <2>19, <2>1 DEF Deploy, Touch, ovVars, asVars, Events
  <2>20. ASSUME NEW w \in Workers, Join(w) \/ Matures(w) \/ Recovers(w) PROVE TypeOK'
    BY <2>20 DEF Join, Matures, Recovers, Missing, ovVars, asVars
  <2>21. ASSUME NEW w \in Workers, Dies(w) \/ Flaps(w) PROVE TypeOK'
    <3>1. CASE Dies(w)
      BY <2>21, <2>1, <3>1 DEF Dies, Goes, ovVars, asVars, Events
    <3>2. CASE Flaps(w)
      BY <2>21, <2>1, <3>2 DEF Flaps, Goes, ovVars, asVars, Events
    <3>3. QED
      BY <2>21, <3>1, <3>2
  <2>22. CASE CoolsDown
    BY <2>22 DEF CoolsDown, swarm, asVars
  <2>23. CASE UNCHANGED vars
    BY <2>23 DEF vars, swarm, ovVars, asVars
  <2>24. ASSUME NEW w \in Workers, BootsSlowly(w) PROVE TypeOK'
    <3>1. spent' \in Nat
      BY <2>24, <2>1 DEF BootsSlowly, Events
    <3>2. QED
      BY <2>24, <3>1 DEF BootsSlowly, Missing, ovVars, asVars
  <2>25. QED
    BY <2>2, <2>3, <2>4, <2>5, <2>7, <2>8, <2>9, <2>10, <2>11, <2>12, <2>13,
       <2>14, <2>15, <2>16, <2>17, <2>18, <2>19, <2>20, <2>21, <2>22, <2>23, <2>24
    DEF Next, OverseerStep, AutoscalerStep, SwarmStep, Fault
<1>3. QED
  BY <1>1, <1>2, PTL DEF Spec
-----------------------------------------------------------------------------
(* The last worker.  What the overseer read is still true of every service *)
(* that was not rolling then and whose spec nobody has written since: it is *)
(* not rolling now, and if it ran on the master it still does.             *)

Undisturbed == Services \ (ovRoll \cup touched)

SnapshotHolds ==
  /\ ovpc # "discover" => \A s \in Undisturbed : ~rolling[s]
  /\ ovpc \in {"grow", "shrink"} =>
       \A s \in Undisturbed \cap ovHome : at[s] = Master

\* One step of anybody keeps the overseer's snapshot true in that sense.
LEMMA SnapshotStep == TypeOK /\ SnapshotHolds /\ [Next]_vars => SnapshotHolds'
<1> SUFFICES ASSUME TypeOK, SnapshotHolds, [Next]_vars PROVE SnapshotHolds'
  OBVIOUS
<1> USE ConstantsAssumption DEF ConstantsAssumption, TypeOK, SnapshotHolds, Undisturbed, Nodes
<1>1. CASE OvDiscover
  BY <1>1 DEF OvDiscover, Rolling
<1>2. CASE OvReadNodes
  BY <1>2 DEF OvReadNodes, swarm
<1>3. CASE OvReadTasks
  BY <1>3 DEF OvReadTasks, Home, swarm
<1>4. CASE OvGrow
  BY <1>4 DEF OvGrow
<1>5. CASE OvDrainFails
  BY <1>5 DEF OvDrainFails, swarm
<1>6. ASSUME NEW w \in Workers, OvDrain(w) PROVE SnapshotHolds'
  BY <1>6 DEF OvDrain
<1>7. CASE OvDelete \/ OvDeleteFails
  BY <1>7 DEF OvDelete, OvDeleteFails
<1>8. CASE OvDispatch \/ OvRestart
  BY <1>8 DEF OvDispatch, OvRestart
<1>9. CASE OvInventoryFails \/ OvWaitFails
  BY <1>9 DEF OvInventoryFails, OvWaitFails, swarm
<1>10. CASE AsDiscover \/ AsRead \/ AsReadFails \/ AsRestart
  BY <1>10 DEF AsDiscover, AsRead, AsReadFails, AsRestart, swarm, ovVars
<1>11. CASE VerdictExpires
  BY <1>11 DEF VerdictExpires, swarm, ovVars
<1>12. ASSUME NEW s \in Services, AsPlace(s) PROVE SnapshotHolds'
  BY <1>12 DEF AsPlace, Touch, ovVars
<1>13. ASSUME NEW s \in Services, AsPlaceFails(s) PROVE SnapshotHolds'
  BY <1>13 DEF AsPlaceFails, swarm, ovVars
<1>14. CASE AsNudge
  <2>1. PICK N \in SUBSET Stalled :
          /\ rolling' = [s \in Services |-> rolling[s] \/ s \in N]
          /\ Touch(N)
    BY <1>14 DEF AsNudge
  <2>2. UNCHANGED <<at, ovpc, ovRoll, ovHome>>
    BY <1>14 DEF AsNudge, ovVars
  <2>3. ASSUME ovpc # "discover", NEW s \in Services, s \notin ovRoll, s \notin touched'
        PROVE  s \notin touched /\ ~rolling'[s]
    BY <2>1, <2>2, <2>3 DEF Touch
  <2>4. QED
    BY <2>2, <2>3
<1>15. ASSUME NEW s \in Services, TaskStarts(s) PROVE SnapshotHolds'
  BY <1>15 DEF TaskStarts, Best, Free, Eligible, ovVars
<1>16. ASSUME NEW s \in Services, Deploy(s) PROVE SnapshotHolds'
  BY <1>16 DEF Deploy, Touch, ovVars
<1>17. ASSUME NEW w \in Workers, Join(w) \/ Matures(w) \/ Recovers(w) \/ BootsSlowly(w)
       PROVE  SnapshotHolds'
  BY <1>17 DEF Join, Matures, Recovers, BootsSlowly, ovVars
<1>18. ASSUME NEW w \in Workers, Dies(w) \/ Flaps(w) PROVE SnapshotHolds'
  BY <1>18 DEF Dies, Flaps, Goes, ovVars
<1>19. CASE CoolsDown
  BY <1>19 DEF CoolsDown, swarm
<1>20. CASE UNCHANGED vars
  BY <1>20 DEF vars, swarm, ovVars
<1>21. QED
  BY <1>1, <1>2, <1>3, <1>4, <1>5, <1>6, <1>7, <1>8, <1>9, <1>10, <1>11, <1>12,
     <1>13, <1>14, <1>15, <1>16, <1>17, <1>18, <1>19, <1>20
  DEF Next, OverseerStep, AutoscalerStep, SwarmStep, Fault

THEOREM SnapshotInvariant == Spec => []SnapshotHolds
<1>1. Init => SnapshotHolds
  BY DEF Init, SnapshotHolds
<1>2. QED
  BY <1>1, TypeCorrect, SnapshotStep, PTL DEF Spec

\* Only remove_worker takes the loop from shrink into a removal.
LEMMA DrainsLastIsDrain ==
  ASSUME TypeOK, [Next]_vars, DrainsLast
  PROVE  \E w \in Workers : OvDrain(w)
<1> USE DEF DrainsLast
<1>1. ovpc' # ovpc /\ ovpc = "shrink" /\ ovpc' = "remove"
  OBVIOUS
<1>2. ~(OvDiscover \/ OvReadNodes \/ OvReadTasks \/ OvGrow \/ OvDelete \/ OvDispatch)
  BY <1>1 DEF OvDiscover, OvReadNodes, OvReadTasks, OvGrow, OvDelete, OvDispatch
<1>3. ~(OvDrainFails \/ OvInventoryFails \/ OvWaitFails \/ OvDeleteFails \/ OvRestart)
  BY <1>1 DEF OvDrainFails, OvInventoryFails, OvWaitFails, OvDeleteFails, OvRestart
<1>4. ~(AutoscalerStep \/ AsReadFails \/ AsRestart \/ VerdictExpires)
  BY <1>1 DEF AutoscalerStep, AsDiscover, AsRead, AsNudge, AsPlace,
     AsReadFails, AsRestart, VerdictExpires, ovVars
<1>5. ~SwarmStep
  BY <1>1 DEF SwarmStep, CoolsDown, TaskStarts, Join, Matures, ovVars
<1>6. ~(\E s \in Services : AsPlaceFails(s) \/ Deploy(s))
  BY <1>1 DEF AsPlaceFails, Deploy, ovVars
<1>7. ~(\E w \in Workers : Dies(w) \/ Flaps(w) \/ Recovers(w) \/ BootsSlowly(w))
  BY <1>1 DEF Dies, Flaps, Goes, Recovers, BootsSlowly, ovVars
<1>8. ~UNCHANGED vars
  BY <1>1 DEF vars, ovVars
<1>9. QED
  BY <1>2, <1>3, <1>4, <1>5, <1>6, <1>7, <1>8 DEF Next, OverseerStep, Fault

\* Draining the last worker leaves every service on the master, unless its spec
\* was written since the loop listed the services.
THEOREM LastDrainIsSafe == Spec => LastDrainServes
<1>1. TypeOK /\ SnapshotHolds /\ [Next]_vars =>
        (DrainsLast => \A s \in Services : at'[s] = Master \/ s \in touched)
  <2> SUFFICES ASSUME TypeOK, SnapshotHolds, [Next]_vars, DrainsLast,
                      NEW s \in Services, s \notin touched
               PROVE  at'[s] = Master
    OBVIOUS
  <2>1. PICK w \in Workers : OvDrain(w)
    BY DrainsLastIsDrain
  <2>2. ovRoll = {} /\ ovHome = Services
    BY <2>1 DEF OvDrain, MayRemove, DrainsLast
  <2>3. at[s] = Master
    BY <2>2 DEF SnapshotHolds, Undisturbed, DrainsLast
  <2>4. w # Master
    BY ConstantsAssumption DEF ConstantsAssumption
  <2>5. QED
    BY <2>1, <2>3, <2>4 DEF OvDrain
<1>2. QED
  BY <1>1, TypeCorrect, SnapshotInvariant, PTL DEF Spec, LastDrainServes
-----------------------------------------------------------------------------
(* The budget.  The overseer counts what it owns from two readings, and    *)
(* undercounts by exactly the workers that turned ready between them: those *)
(* are young, and the cooldown forbids the order, or they are missed.      *)

CountIsSafe ==
  /\ ovpc = "remove" => victim \in Workers /\ node[victim] = "drained"
  /\ ovpc \in {"tasks", "grow"} =>
       \A w \in Workers : node[w] = "ready" => w \in ovReady \cup young \cup missed
  /\ WithinBudget

\* Fewer servers are still within the budget, and no fewer were missed.
LEMMA FewerServers ==
  ASSUME WithinBudget, Servers' \subseteq Servers,
         missed \subseteq missed', missed' \subseteq Workers
  PROVE  WithinBudget'
<1>1. IsFiniteSet(Servers) /\ IsFiniteSet(missed')
  BY FS_Subset, ConstantsAssumption DEF ConstantsAssumption, Servers
<1>2. IsFiniteSet(missed) /\ Cardinality(missed) =< Cardinality(missed')
  BY <1>1, FS_Subset
<1>3. IsFiniteSet(Servers') /\ Cardinality(Servers') =< Cardinality(Servers)
  BY <1>1, FS_Subset
<1>4. /\ Cardinality(Servers) \in Nat /\ Cardinality(Servers') \in Nat
      /\ Cardinality(missed) \in Nat /\ Cardinality(missed') \in Nat
  BY <1>1, <1>2, <1>3, FS_CardinalityType
<1>5. QED
  BY <1>2, <1>3, <1>4, ConstantsAssumption DEF ConstantsAssumption, WithinBudget

\* Two sets hold at most what they hold together.
LEMMA UnionBound ==
  ASSUME NEW S, NEW T, IsFiniteSet(S), IsFiniteSet(T)
  PROVE  /\ IsFiniteSet(S \cup T)
         /\ Cardinality(S \cup T) =< Cardinality(S) + Cardinality(T)
<1>1. IsFiniteSet(S \cup T) /\ IsFiniteSet(S \cap T)
  BY FS_Union, FS_Subset
<1>2. Cardinality(S \cup T) = Cardinality(S) + Cardinality(T) - Cardinality(S \cap T)
  BY FS_Union
<1>3. Cardinality(S) \in Nat /\ Cardinality(T) \in Nat /\ Cardinality(S \cap T) \in Nat
  BY <1>1, FS_CardinalityType
<1>4. QED
  BY <1>1, <1>2, <1>3

\* What grow_or_buy orders on top of the servers there are stays within the budget.
LEMMA OrderFits ==
  ASSUME TypeOK, CountIsSafe, OvGrow
  PROVE  WithinBudget'
<1> USE ConstantsAssumption DEF ConstantsAssumption
<1>1. PICK B \in SUBSET {w \in Workers : node[w] = "absent"} :
        /\ Cardinality(B) =< Lesser(Order, Cardinality({w \in Workers : node[w] = "absent"}))
        /\ node' = [w \in Workers |-> IF w \in B THEN "booting" ELSE node[w]]
  <2>1. PICK B \in SUBSET {w \in Workers : node[w] = "absent"} :
          LET count == Lesser(Order, Cardinality({w \in Workers : node[w] = "absent"}))
          IN  /\ Cardinality(B) = count \/ Cardinality(B) < count
              /\ node' = [w \in Workers |-> IF w \in B THEN "booting" ELSE node[w]]
    BY DEF OvGrow
  <2>2. IsFiniteSet(B) /\ IsFiniteSet(Servers) /\ IsFiniteSet(ovReady)
        /\ IsFiniteSet(Provisioning) /\ IsFiniteSet({w \in Workers : node[w] = "absent"})
    BY FS_Subset DEF Servers, Provisioning, TypeOK
  <2>3. /\ Cardinality({w \in Workers : node[w] = "absent"}) \in Nat
        /\ Cardinality(B) \in Nat
        /\ Cardinality(ovReady) \in Nat /\ Cardinality(Provisioning) \in Nat
    BY <2>2, FS_CardinalityType
  <2>4. Owned \in Nat /\ ovWant \in Nat /\ MaxWorkers \in Nat
    BY <2>3 DEF Owned, TypeOK
  <2>5. Order \in Int
    BY <2>4 DEF Order, Lesser
  <2>6. Lesser(Order, Cardinality({w \in Workers : node[w] = "absent"})) \in Int
    BY <2>3, <2>5 DEF Lesser
  <2>7. Cardinality(B) =< Lesser(Order, Cardinality({w \in Workers : node[w] = "absent"}))
    BY <2>1, <2>3, <2>6
  <2>8. QED
    BY <2>1, <2>7
<1>2. IsFiniteSet(B) /\ IsFiniteSet(Servers) /\ IsFiniteSet(ovReady)
      /\ IsFiniteSet(Provisioning) /\ IsFiniteSet({w \in Workers : node[w] = "absent"})
  BY FS_Subset DEF Servers, Provisioning, TypeOK
<1>3. /\ Cardinality(B) \in Nat /\ Cardinality(Servers) \in Nat
      /\ Cardinality(ovReady) \in Nat /\ Cardinality(Provisioning) \in Nat
      /\ Cardinality({w \in Workers : node[w] = "absent"}) \in Nat
  BY <1>2, FS_CardinalityType
<1>4. Owned \in Nat /\ Order \in Int /\ Cardinality(B) =< Order
  BY <1>1, <1>3 DEF Owned, Order, Lesser, TypeOK
<1>5. CASE Order = 0
  <2>1. B = {}
    BY <1>2, <1>3, <1>4, <1>5, FS_EmptySet
  <2>2. Servers' \subseteq Servers
    BY <1>1, <2>1 DEF Servers
  <2>3. missed' = missed
    BY DEF OvGrow
  <2>4. QED
    BY <2>2, <2>3, FewerServers DEF CountIsSafe, TypeOK
<1>6. CASE Order # 0
  <2>1. young \cap Servers = {} /\ Order =< MaxWorkers - Owned
    BY <1>4, <1>6 DEF Order, Lesser, TypeOK
  <2>2. Servers \subseteq (ovReady \cup Provisioning) \cup missed
    BY <2>1 DEF CountIsSafe, Servers, Provisioning, Ready, OvGrow
  <2>3. IsFiniteSet(missed) /\ Cardinality(missed) \in Nat
    BY FS_Subset, FS_CardinalityType DEF TypeOK
  <2>4. Cardinality(Servers) =< Owned + Cardinality(missed)
    <3>1. /\ IsFiniteSet(ovReady \cup Provisioning)
          /\ Cardinality(ovReady \cup Provisioning) =< Owned
      BY <1>2, UnionBound DEF Owned
    <3>2. LET U == (ovReady \cup Provisioning) \cup missed
          IN  /\ IsFiniteSet(U)
              /\ Cardinality(U) =< Cardinality(ovReady \cup Provisioning) + Cardinality(missed)
      BY <2>3, <3>1, UnionBound
    <3>3. Cardinality(Servers) =< Cardinality((ovReady \cup Provisioning) \cup missed)
      BY <2>2, <3>2, FS_Subset
    <3>4. /\ Cardinality(ovReady \cup Provisioning) \in Nat
          /\ Cardinality((ovReady \cup Provisioning) \cup missed) \in Nat
      BY <3>1, <3>2, FS_CardinalityType
    <3>5. QED
      BY <1>3, <1>4, <2>3, <3>1, <3>2, <3>3, <3>4
  <2>5. Servers' \subseteq Servers \cup B
    BY <1>1 DEF Servers
  <2>6. /\ IsFiniteSet(Servers \cup B)
        /\ Cardinality(Servers \cup B) =< Cardinality(Servers) + Cardinality(B)
    BY <1>2, UnionBound
  <2>7. Cardinality(Servers') =< Cardinality(Servers \cup B)
        /\ Cardinality(Servers') \in Nat /\ Cardinality(Servers \cup B) \in Nat
    BY <2>5, <2>6, FS_Subset, FS_CardinalityType
  <2>8. missed' = missed
    BY DEF OvGrow
  <2>9. QED
    BY <1>3, <1>4, <2>1, <2>3, <2>4, <2>6, <2>7, <2>8 DEF WithinBudget
<1>7. QED
  BY <1>5, <1>6

\* One step keeps the count safe.
LEMMA CountStep ==
  ASSUME TypeOK, CountIsSafe, [Next]_vars
  PROVE  CountIsSafe'
<1> USE ConstantsAssumption DEF ConstantsAssumption, TypeOK, CountIsSafe
<1>1. CASE OvDiscover
  <2>1. Servers' \subseteq Servers /\ missed' = missed
    BY <1>1 DEF OvDiscover, Servers
  <2>2. QED
    BY <1>1, <2>1, FewerServers DEF OvDiscover
<1>2. CASE OvReadNodes
  <2>1. Servers' \subseteq Servers /\ missed' = missed
    BY <1>2 DEF OvReadNodes, Ready, Servers, swarm
  <2>2. QED
    BY <1>2, <2>1, FewerServers DEF OvReadNodes, Ready, swarm
<1>3. CASE OvReadTasks \/ OvDrainFails \/ OvInventoryFails \/ OvWaitFails \/ OvDispatch
  <2>1. Servers' \subseteq Servers /\ missed' = missed
    BY <1>3 DEF OvReadTasks, OvDrainFails, OvInventoryFails, OvWaitFails, OvDispatch, Servers, swarm
  <2>2. QED
    BY <1>3, <2>1, FewerServers DEF OvReadTasks, OvDrainFails, OvInventoryFails, OvWaitFails, OvDispatch, swarm
<1>4. CASE OvGrow
  BY <1>4, OrderFits DEF OvGrow
<1>5. ASSUME NEW w \in Workers, OvDrain(w) PROVE CountIsSafe'
  <2>1. Servers' \subseteq Servers /\ missed' = missed
    BY <1>5 DEF OvDrain, Servers
  <2>2. QED
    BY <1>5, <2>1, FewerServers DEF OvDrain
<1>6. CASE OvDelete
  <2>1. Servers' \subseteq Servers /\ missed' = missed
    BY <1>6 DEF OvDelete, Servers
  <2>2. QED
    BY <1>6, <2>1, FewerServers DEF OvDelete
<1>7. CASE OvDeleteFails \/ OvRestart
  <2>1. Servers' \subseteq Servers /\ missed' = missed
    BY <1>7 DEF OvDeleteFails, OvRestart, Servers
  <2>2. QED
    BY <1>7, <2>1, FewerServers DEF OvDeleteFails, OvRestart
<1>8. CASE AutoscalerStep \/ AsReadFails \/ AsRestart \/ VerdictExpires
  <2>1. UNCHANGED <<node, young, ovpc, ovReady, victim, missed>>
    BY <1>8 DEF AutoscalerStep, AsDiscover, AsRead, AsNudge, AsPlace,
       AsReadFails, AsRestart, VerdictExpires, swarm, ovVars
  <2>2. Servers' \subseteq Servers
    BY <2>1 DEF Servers
  <2>3. QED
    BY <2>1, <2>2, FewerServers
<1>9. ASSUME NEW s \in Services, AsPlaceFails(s) \/ Deploy(s) \/ TaskStarts(s)
      PROVE  CountIsSafe'
  <2>1. UNCHANGED <<node, young, ovpc, ovReady, victim, missed>>
    BY <1>9 DEF AsPlaceFails, Deploy, TaskStarts, swarm, ovVars
  <2>2. Servers' \subseteq Servers
    BY <2>1 DEF Servers
  <2>3. QED
    BY <2>1, <2>2, FewerServers
<1>10. ASSUME NEW w \in Workers,
              Join(w) \/ Matures(w) \/ BootsSlowly(w) \/ Recovers(w)
       PROVE  CountIsSafe'
  <2>1. Servers' \subseteq Servers /\ missed \subseteq missed' /\ missed' \subseteq Workers
    BY <1>10 DEF Join, Matures, BootsSlowly, Recovers, Missing, Servers
  <2>2. WithinBudget'
    BY <2>1, FewerServers
  <2>3. ovpc' = "remove" => victim' \in Workers /\ node'[victim'] = "drained"
    BY <1>10 DEF Join, Matures, BootsSlowly, Recovers, ovVars
  <2>4. ASSUME ovpc' \in {"tasks", "grow"}, NEW v \in Workers, node'[v] = "ready"
        PROVE  v \in ovReady' \cup young' \cup missed'
    BY <1>10, <2>4 DEF Join, Matures, BootsSlowly, Recovers, Missing, ovVars
  <2>5. QED
    BY <2>2, <2>3, <2>4
<1>11. ASSUME NEW w \in Workers, Dies(w) \/ Flaps(w) PROVE CountIsSafe'
  <2>1. Servers' \subseteq Servers /\ missed' = missed
    BY <1>11 DEF Dies, Flaps, Goes, Servers
  <2>2. QED
    BY <1>11, <2>1, FewerServers DEF Dies, Flaps, Goes, ovVars
<1>12. CASE CoolsDown \/ UNCHANGED vars
  <2>1. UNCHANGED <<node, young, ovpc, ovReady, victim, missed>>
    BY <1>12 DEF CoolsDown, vars, swarm, ovVars
  <2>2. Servers' \subseteq Servers
    BY <2>1 DEF Servers
  <2>3. QED
    BY <2>1, <2>2, FewerServers
<1>13. QED
  BY <1>1, <1>2, <1>3, <1>4, <1>5, <1>6, <1>7, <1>8, <1>9, <1>10, <1>11, <1>12
  DEF Next, OverseerStep, SwarmStep, Fault

\* The servers there are never exceed MAX_WORKERS by more than those some loop
\* counted in neither reading.
THEOREM BudgetKept == Spec => []WithinBudget
<1>1. Init => CountIsSafe
  <2> SUFFICES ASSUME Init PROVE CountIsSafe
    OBVIOUS
  <2>1. PICK W \in SUBSET Workers :
          /\ Cardinality(W) =< MaxWorkers
          /\ node = [w \in Workers |-> IF w \in W THEN "ready" ELSE "absent"]
    BY DEF Init
  <2>2. Servers = W
    BY <2>1 DEF Servers
  <2>3. ovpc = "discover" /\ missed = {}
    BY DEF Init
  <2>4. Cardinality(missed) = 0
    BY <2>3, FS_EmptySet
  <2>5. Cardinality(W) \in Nat
    BY FS_Subset, FS_CardinalityType, ConstantsAssumption DEF ConstantsAssumption
  <2>6. QED
    BY <2>1, <2>2, <2>3, <2>4, <2>5, ConstantsAssumption
    DEF CountIsSafe, WithinBudget, ConstantsAssumption
<1>2. TypeOK /\ CountIsSafe /\ [Next]_vars => CountIsSafe'
  BY CountStep
<1>3. CountIsSafe => WithinBudget
  BY DEF CountIsSafe
<1>4. QED
  BY <1>1, <1>2, <1>3, TypeCorrect, PTL DEF Spec
=============================================================================
