---------------------------- MODULE FleetProofs ----------------------------
(***************************************************************************)
(* The size of the fleet.  First what the resize of a worker may do to the *)
(* services, for every set of services, every ladder and any number of     *)
(* faults.  Then the packer and the loop that asks it, for any             *)
(* applications, costs, machines and budget: what first-fit places has a   *)
(* placement, what admission grants can be rolled, and no loop takes away  *)
(* what the replicas need.                                                 *)
(*                                                                         *)
(* The two share nothing, and are in one module to be read together: where *)
(* Sizing resizes a worker in one step, WorkerResize is that step.         *)
(***************************************************************************)
EXTENDS WorkerResize, Sizing, FiniteSetTheorems, SequenceTheorems, WellFoundedInduction, TLAPS

-----------------------------------------------------------------------------
(* WorkerResize.                                                           *)

\* From the moment the tasks have left, the node stays drained and empty.
Emptied == {"grace", "verifying", "powering_off", "changing", "powering_on",
            "rejoining"}

\* While a resize runs every service has a replica elsewhere or lost it since the
\* resize last looked; and an emptied node stays drained.
Spared  == phase # "none" => Services \ lost \subseteq there
Drained == phase \in Emptied => avail = "drain" /\ here = {}

\* A server ordered off is drained and empty until it is off, or the resize has ended.
OffIsEmpty == order = "off" /\ ~overdue => avail = "drain" /\ here = {}

ResizeInv == ResizeTypeOK /\ Spared /\ Drained

\* The steps that only end a resize, whatever the phase was.
LEMMA EndKeeps ==
  ASSUME ResizeInv, NEW e \in 0 .. 1, EndResize(e)
  PROVE  ResizeInv'
<1>1. PICK p \in 0 .. 1, a \in 0 .. 1 :
        /\ faults' = [faults EXCEPT !["error"] = @ + e, !["restore"] = @ + p + a]
        /\ order' = IF p = 0 /\ Status = "off" THEN "on" ELSE order
        /\ avail' = IF a = 0 /\ swarm # "removed" THEN "active" ELSE avail
        /\ phase' = "none" /\ late' = FALSE /\ rested' = FALSE
        /\ overdue' = Unfinished'
        /\ UNCHANGED <<target, swarm, power, moving, plan, apps>>
  BY DEF EndResize
<1>2. faults' \in [ResizeEvents -> Nat]
  BY <1>1 DEF ResizeInv, ResizeTypeOK, ResizeEvents
<1>3. overdue' \in BOOLEAN
  BY <1>1 DEF Unfinished
<1>4. ResizeTypeOK'
  BY <1>1, <1>2, <1>3 DEF ResizeInv, ResizeTypeOK, Phases, apps
<1> QED
  BY <1>1, <1>4 DEF ResizeInv, Spared, Drained, Emptied

\* A step of the overseer keeps the invariant.
LEMMA OverseerKeeps ==
  ASSUME ResizeInv, OverseerStep \/ NodeUnreadable \/ DrainFails \/ ServerUnreadable
  PROVE  ResizeInv'
<1> USE ResizeAssumption
        DEF Step, InDrain, AtHetzner, InHetzner, OrderFails, Goto, resize, machine, apps, history
<1>1. CASE DrainWaits
  BY <1>1 DEF DrainWaits, SetAvailability, ResizeInv, ResizeTypeOK, Spared, Drained, Emptied
<1>2. CASE DrainAbandoned
  BY <1>2, EndKeeps DEF DrainAbandoned
<1>3. CASE DrainDone
  <2>1. phase # "none" /\ here = {} /\ avail' = "drain" /\ phase' \in {"grace", "verifying"}
    BY <1>3 DEF DrainDone, SetAvailability
  <2>2. late' \in {late, FALSE}
        /\ UNCHANGED <<target, rested, swarm, power, order, moving, plan, apps, history>>
    BY <1>3 DEF DrainDone
  <2>3. phase' \in Phases /\ late' \in BOOLEAN
    BY <2>1, <2>2 DEF ResizeInv, ResizeTypeOK, Phases
  <2>4. ResizeTypeOK'
    BY <2>1, <2>2, <2>3 DEF ResizeInv, ResizeTypeOK
  <2>5. Spared' /\ Drained'
    BY <2>1, <2>2 DEF ResizeInv, Spared, Drained
  <2>6. QED
    BY <2>4, <2>5 DEF ResizeInv
<1>4. CASE Verified
  BY <1>4 DEF Verified, ServedElsewhere, ResizeInv, ResizeTypeOK, Spared, Drained, Emptied,
              Phases
<1>5. CASE VerifyAbandoned
  BY <1>5, EndKeeps DEF VerifyAbandoned
<1>6. CASE ServerGone
  BY <1>6, EndKeeps DEF ServerGone
<1>7. CASE PoweringOff
  <2>1. EndResize(0) \/ EndResize(1) \/
        (/\ phase = "powering_off" /\ phase' \in {"powering_off", "changing"}
         /\ late' \in BOOLEAN /\ order' \in {"change", "off"}
         /\ UNCHANGED <<target, rested, avail, swarm, power, moving, plan, apps, history>>)
    BY <1>7 DEF PoweringOff, ResizeInv, ResizeTypeOK
  <2> QED
    BY <2>1, EndKeeps DEF ResizeInv, ResizeTypeOK, Spared, Drained, Emptied, Phases
<1>8. CASE Changing
  <2>1. EndResize(0) \/ EndResize(1) \/
        (/\ phase = "changing" /\ phase' = "powering_on" /\ late' = FALSE
         /\ (order' = "on" \/ order' = order)
         /\ UNCHANGED <<target, rested, avail, swarm, power, moving, plan, apps, history>>)
    BY <1>8 DEF Changing
  <2>2. CASE EndResize(0) \/ EndResize(1)
    BY <2>2, EndKeeps
  <2>3. CASE /\ phase = "changing" /\ phase' = "powering_on" /\ late' = FALSE
             /\ (order' = "on" \/ order' = order)
             /\ UNCHANGED <<target, rested, avail, swarm, power, moving, plan, apps, history>>
    <3>1. ResizeTypeOK'
      BY <2>3 DEF ResizeInv, ResizeTypeOK, Phases
    <3>2. Spared' /\ Drained'
      BY <2>3 DEF ResizeInv, Spared, Drained, Emptied
    <3>3. QED
      BY <3>1, <3>2 DEF ResizeInv
  <2> QED
    BY <2>1, <2>2, <2>3
<1>9. CASE PoweringOn
  <2>1. EndResize(0) \/ EndResize(1) \/
        (/\ phase = "powering_on" /\ phase' \in {"powering_on", "rejoining"}
         /\ late' \in BOOLEAN /\ order' \in {"on", order}
         /\ UNCHANGED <<target, rested, avail, swarm, power, moving, plan, apps, history>>)
    BY <1>9 DEF PoweringOn, ResizeInv, ResizeTypeOK
  <2> QED
    BY <2>1, EndKeeps DEF ResizeInv, ResizeTypeOK, Spared, Drained, Emptied, Phases
<1>10. CASE Rejoining
  BY <1>10, EndKeeps DEF Rejoining
<1>11. CASE NodeUnreadable
  BY <1>11, EndKeeps DEF NodeUnreadable
<1>12. CASE DrainFails
  BY <1>12, EndKeeps DEF DrainFails
<1>13. CASE ServerUnreadable
  BY <1>13, EndKeeps DEF ServerUnreadable
<1> QED
  BY <1>1, <1>2, <1>3, <1>4, <1>5, <1>6, <1>7, <1>8, <1>9, <1>10, <1>11, <1>12, <1>13
  DEF OverseerStep

LEMMA SpendKeeps ==
  ASSUME ResizeTypeOK, NEW e \in ResizeEvents, Fault(e)
  PROVE  faults' \in [ResizeEvents -> Nat]
  BY DEF Fault, ResizeTypeOK

\* Any other step keeps it too.
LEMMA WorldKeeps ==
  ASSUME ResizeInv, Begin \/ Deadline \/ Rests \/ Restart \/ Reap \/ WorldStep
  PROVE  ResizeInv'
<1> USE ResizeAssumption DEF resize, machine, apps, history, InService
<1> USE DEF ResizeInv, Spared, Drained, Emptied
<1>0. {"restart", "loss", "deploy", "vanish"} \subseteq ResizeEvents
  BY DEF ResizeEvents
<1>1. CASE Begin
  BY <1>1 DEF Begin, BeginResize, ServedElsewhere, ResizeTypeOK, Phases
<1>2. CASE Deadline
  BY <1>2 DEF Deadline, ResizeTypeOK
<1>3. CASE Rests
  BY <1>3 DEF Rests, ResizeTypeOK
<1>4. CASE Restart
  <2>1. faults' \in [ResizeEvents -> Nat]
    BY <1>0, <1>4, SpendKeeps DEF Restart
  <2> QED
    BY <1>4, <2>1 DEF Restart, ResizeTypeOK, Phases
<1>5. CASE Reap \/ GoesDown \/ Rejoins
  BY <1>5 DEF Reap, GoesDown, Rejoins, ResizeTypeOK
<1>6. CASE OrderBegun
  BY <1>6 DEF OrderBegun, ResizeTypeOK
<1>7. CASE OrderDone
  <2>1. /\ order' = "none" /\ moving' = FALSE
        /\ power' \in {"off", "running", power} /\ plan' \in {target, plan}
        /\ here' \in {{}, here} /\ (order = "off" => here' = {}) /\ overdue' = FALSE
        /\ UNCHANGED <<resize, avail, swarm, there, rolling, lost, faults>>
    BY <1>7 DEF OrderDone
  <2>2. ResizeTypeOK'
    BY <2>1 DEF ResizeTypeOK
  <2> QED
    BY <2>1, <2>2
<1>8. CASE Vanishes
  <2>1. faults' \in [ResizeEvents -> Nat]
    BY <1>0, <1>8, SpendKeeps DEF Vanishes
  <2>2. /\ power' = "gone" /\ order' = "none" /\ moving' = FALSE /\ here' = {}
        /\ UNCHANGED <<resize, avail, swarm, plan, there, rolling, lost, overdue>>
    BY <1>8 DEF Vanishes
  <2>3. ResizeTypeOK'
    BY <2>1, <2>2 DEF ResizeTypeOK
  <2>4. Spared' /\ Drained'
    BY <2>2
  <2> QED
    BY <2>3, <2>4
<1>9. CASE RolloutStarts
  <2>1. faults' \in [ResizeEvents -> Nat]
    BY <1>0, <1>9, SpendKeeps DEF RolloutStarts
  <2>2. rolling' = TRUE /\ UNCHANGED <<resize, machine, here, there, lost, overdue>>
    BY <1>9 DEF RolloutStarts
  <2>3. ResizeTypeOK'
    BY <2>1, <2>2 DEF ResizeTypeOK
  <2>4. Spared' /\ Drained'
    BY <2>2
  <2> QED
    BY <2>3, <2>4
<1>10. CASE RolloutEnds
  <2>1. rolling' = FALSE /\ UNCHANGED <<resize, machine, here, there, lost, history>>
    BY <1>10 DEF RolloutEnds
  <2>2. ResizeTypeOK'
    BY <2>1 DEF ResizeTypeOK
  <2>3. Spared' /\ Drained'
    BY <2>1
  <2> QED
    BY <2>2, <2>3
<1>11. ASSUME NEW s \in Services, StartsHere(s) \/ LeavesHere(s) \/ StartsThere(s)
       PROVE  ResizeInv'
  <2>1. CASE StartsHere(s)
    <3>1. /\ avail = "active" /\ here' = here \cup {s}
          /\ UNCHANGED <<resize, machine, there, rolling, lost, history>>
      BY <2>1 DEF StartsHere
    <3>2. ResizeTypeOK'
      BY <3>1 DEF ResizeTypeOK
    <3>3. Spared' /\ Drained'
      BY <3>1
    <3> QED
      BY <3>2, <3>3
  <2>2. CASE LeavesHere(s)
    BY <2>2 DEF LeavesHere, ResizeTypeOK
  <2>3. CASE StartsThere(s)
    BY <2>3 DEF StartsThere, ResizeTypeOK
  <2> QED
    BY <1>11, <2>1, <2>2, <2>3
<1>12. ASSUME NEW s \in Services, LostThere(s)
       PROVE  ResizeInv'
  <2>1. faults' \in [ResizeEvents -> Nat]
    BY <1>0, <1>12, SpendKeeps DEF LostThere
  <2>2. /\ there' = there \ {s} /\ lost' = lost \cup {s}
        /\ UNCHANGED <<resize, machine, here, rolling, overdue>>
    BY <1>12 DEF LostThere
  <2>3. ResizeTypeOK'
    BY <2>1, <2>2 DEF ResizeTypeOK
  <2>4. Spared' /\ Drained'
    BY <2>2
  <2> QED
    BY <2>3, <2>4
<1> QED
  BY <1>1, <1>2, <1>3, <1>4, <1>5, <1>6, <1>7, <1>8, <1>9, <1>10, <1>11, <1>12
  DEF WorldStep

LEMMA ResizeStep == ResizeInv /\ [ResizeNext]_resizeVars => ResizeInv'
<1> SUFFICES ASSUME ResizeInv, [ResizeNext]_resizeVars PROVE ResizeInv'
  OBVIOUS
<1>1. CASE UNCHANGED resizeVars
  BY <1>1 DEF resizeVars, resize, machine, apps, history, ResizeInv, ResizeTypeOK, Spared, Drained
<1>2. CASE ResizeNext
  BY <1>2, OverseerKeeps, WorldKeeps DEF ResizeNext
<1> QED
  BY <1>1, <1>2

LEMMA ResizeInitially == ResizeInit => ResizeInv
<1> SUFFICES ASSUME ResizeInit PROVE ResizeInv
  OBVIOUS
<1>1. here \subseteq Services /\ there \subseteq Services /\ lost \subseteq Services
  BY DEF ResizeInit
<1>2. plan \in 1 .. Rungs /\ target \in 1 .. Rungs /\ faults \in [ResizeEvents -> Nat]
  BY DEF ResizeInit
<1>3. phase = "none"
  BY DEF ResizeInit
<1> QED
  BY <1>1, <1>2, <1>3
  DEF ResizeInit, ResizeInv, ResizeTypeOK, Spared, Drained, Emptied, Phases

THEOREM ResizeInvariant == ResizeSpec => []ResizeInv
  BY ResizeInitially, ResizeStep, PTL DEF ResizeSpec

\* The variables keep their types.
THEOREM ResizeTypes == ResizeSpec => []ResizeTypeOK
<1>1. ResizeInv => ResizeTypeOK
  BY DEF ResizeInv
<1> QED
  BY <1>1, ResizeInvariant, PTL

\* A step that drains the node is one of the two draining steps.
LEMMA WhoDrains ==
  ASSUME ResizeInv, [ResizeNext]_resizeVars, avail = "active", avail' = "drain"
  PROVE  phase \in {"draining", "grace"}
<1> USE DEF resize, machine, apps, history
<1>1. ASSUME NEW e \in 0 .. 1, EndResize(e) PROVE FALSE
  BY <1>1 DEF EndResize
<1>2. CASE UNCHANGED resizeVars
  BY <1>2 DEF resizeVars
<1>3. CASE OverseerStep \/ NodeUnreadable \/ DrainFails \/ ServerUnreadable
  <2> USE DEF OrderFails, Goto
  <2>1. CASE DrainWaits \/ DrainDone
    BY <2>1 DEF DrainWaits, DrainDone, InDrain, Step
  <2>2. CASE DrainAbandoned \/ VerifyAbandoned \/ ServerGone \/ Rejoining
             \/ NodeUnreadable \/ DrainFails \/ ServerUnreadable
    BY <1>1, <2>2 DEF DrainAbandoned, VerifyAbandoned, ServerGone,
                      Rejoining, NodeUnreadable, DrainFails, ServerUnreadable
  <2>3. CASE Verified
    BY <2>3 DEF Verified
  <2>4. CASE PoweringOff
    BY <1>1, <2>4 DEF PoweringOff
  <2>5. CASE Changing
    BY <1>1, <2>5 DEF Changing
  <2>6. CASE PoweringOn
    BY <1>1, <2>6 DEF PoweringOn
  <2> QED
    BY <1>3, <2>1, <2>2, <2>3, <2>4, <2>5, <2>6 DEF OverseerStep
<1>4. CASE Begin \/ Deadline \/ Rests \/ Restart \/ Reap \/ WorldStep
  BY <1>4 DEF Begin, Deadline, Rests, Restart, Reap,
              WorldStep, OrderBegun, OrderDone, Vanishes, GoesDown, Rejoins,
              RolloutStarts, RolloutEnds, StartsHere, LeavesHere, StartsThere, LostThere
<1> QED
  BY <1>2, <1>3, <1>4 DEF ResizeNext

\* A node is drained only when every service runs elsewhere, but for what was lost
\* after the decision: whatever fails, however slow Hetzner is.
THEOREM DrainsSpareAlways == ResizeSpec => DrainsSpare
<1>1. ResizeInv /\ [ResizeNext]_resizeVars =>
        (avail = "active" /\ avail' = "drain" => Services \ lost \subseteq there)
  BY WhoDrains DEF ResizeInv, Spared
<1> QED
  BY <1>1, ResizeInvariant, PTL DEF ResizeSpec, DrainsSpare

\* A step that orders the server off is the power-off phase's.
LEMMA WhoPowersOff ==
  ASSUME [ResizeNext]_resizeVars, order # "off", order' = "off"
  PROVE  phase = "powering_off" /\ UNCHANGED <<avail, here>>
<1> USE DEF resize, machine, apps, history
<1>1. ASSUME NEW e \in 0 .. 1, EndResize(e) PROVE FALSE
  BY <1>1 DEF EndResize
<1>2. CASE UNCHANGED resizeVars
  BY <1>2 DEF resizeVars
<1>3. CASE OverseerStep \/ NodeUnreadable \/ DrainFails \/ ServerUnreadable
  <2> USE DEF OrderFails, Goto
  <2>1. CASE DrainWaits \/ DrainDone
    BY <2>1 DEF DrainWaits, DrainDone
  <2>2. CASE DrainAbandoned \/ VerifyAbandoned \/ ServerGone \/ Rejoining
             \/ NodeUnreadable \/ DrainFails \/ ServerUnreadable
    BY <1>1, <2>2 DEF DrainAbandoned, VerifyAbandoned, ServerGone,
                      Rejoining, NodeUnreadable, DrainFails, ServerUnreadable
  <2>3. CASE Verified
    BY <2>3 DEF Verified
  <2>4. CASE PoweringOff
    BY <1>1, <2>4 DEF PoweringOff, AtHetzner, Step
  <2>5. CASE Changing
    BY <1>1, <2>5 DEF Changing
  <2>6. CASE PoweringOn
    BY <1>1, <2>6 DEF PoweringOn
  <2> QED
    BY <1>3, <2>1, <2>2, <2>3, <2>4, <2>5, <2>6 DEF OverseerStep
<1>4. CASE Begin \/ Deadline \/ Rests \/ Restart \/ Reap \/ WorldStep
  BY <1>4 DEF Begin, Deadline, Rests, Restart, Reap,
              WorldStep, OrderBegun, OrderDone, Vanishes, GoesDown, Rejoins,
              RolloutStarts, RolloutEnds, StartsHere, LeavesHere, StartsThere, LostThere
<1> QED
  BY <1>2, <1>3, <1>4 DEF ResizeNext

\* The server is ordered off only when drained, with every service elsewhere but for
\* what was lost after the resize had seen it there.
THEOREM PowersOffServedAlways == ResizeSpec => PowersOffServed
<1>1. ResizeInv /\ [ResizeNext]_resizeVars =>
        (order # "off" /\ order' = "off" =>
           avail = "drain" /\ Services \ lost \subseteq there)
  BY WhoPowersOff DEF ResizeInv, Spared, Drained, Emptied
<1> QED
  BY <1>1, ResizeInvariant, PTL DEF ResizeSpec, PowersOffServed

\* No step of a resize makes a node active with its power-off to come, but the one that
\* ends the resize.
LEMMA OffIsEmptyStep ==
  ASSUME ResizeInv, OffIsEmpty, [ResizeNext]_resizeVars
  PROVE  OffIsEmpty'
<1> USE DEF resize, machine, apps, history
<1> SUFFICES ASSUME order' = "off", ~overdue'
             PROVE  avail' = "drain" /\ here' = {}
  BY DEF OffIsEmpty
<1>1. ASSUME NEW e \in 0 .. 1, EndResize(e) PROVE FALSE
  BY <1>1 DEF EndResize, Unfinished
<1>2. CASE order # "off"
  BY <1>2, WhoPowersOff DEF ResizeInv, Drained, Emptied
<1>3. CASE order = "off" /\ ~overdue
  <2>1. avail = "drain" /\ here = {}
    BY <1>3 DEF OffIsEmpty
  <2>2. CASE UNCHANGED resizeVars
    BY <2>1, <2>2 DEF resizeVars
  <2>3. CASE OverseerStep \/ NodeUnreadable \/ DrainFails \/ ServerUnreadable
    BY <1>1, <2>1, <2>3
       DEF OverseerStep, NodeUnreadable, DrainFails, ServerUnreadable,
           DrainWaits, DrainAbandoned, DrainDone, SetAvailability, Verified,
           VerifyAbandoned, ServerGone, PoweringOff, Changing, PoweringOn, Rejoining,
           OrderFails, Goto
  <2>4. CASE Begin \/ Deadline \/ Rests \/ Restart \/ Reap \/ WorldStep
    BY <2>1, <2>4 DEF Begin, Deadline, Rests, Restart, Reap,
                      WorldStep, OrderBegun, OrderDone, Vanishes, GoesDown,
                      Rejoins, RolloutStarts, RolloutEnds, StartsHere, InService,
                      LeavesHere, StartsThere, LostThere
  <2> QED
    BY <2>2, <2>3, <2>4 DEF ResizeNext
<1>4. CASE order = "off" /\ overdue
  <2>1. CASE overdue' = overdue
    BY <1>4, <2>1
  <2>2. CASE OrderDone
    BY <2>2 DEF OrderDone
  <2>3. CASE UNCHANGED resizeVars
    BY <2>1, <2>3 DEF resizeVars
  <2>4. CASE OverseerStep \/ NodeUnreadable \/ DrainFails \/ ServerUnreadable
    BY <1>1, <2>1, <2>4
       DEF OverseerStep, NodeUnreadable, DrainFails, ServerUnreadable,
           DrainWaits, DrainAbandoned, DrainDone, Verified,
           VerifyAbandoned, ServerGone, PoweringOff, Changing, PoweringOn, Rejoining,
           OrderFails, Goto
  <2>5. CASE Begin \/ Deadline \/ Rests \/ Restart \/ Reap \/ (WorldStep /\ ~OrderDone)
    BY <2>1, <2>5 DEF Begin, BeginResize, Deadline, Rests, Restart, Reap,
                      WorldStep, OrderBegun, Vanishes, GoesDown,
                      Rejoins, RolloutStarts, RolloutEnds, StartsHere,
                      LeavesHere, StartsThere, LostThere
  <2> QED
    BY <2>2, <2>3, <2>4, <2>5 DEF ResizeNext
<1> QED
  BY <1>2, <1>3, <1>4

\* However long Hetzner takes, no machine is switched off under a running task but by
\* the order of a resize that had ended before it was carried out: whatever calls fail
\* and whenever the overseer restarts.
THEOREM CutsNothingAlways == ResizeSpec => CutsNothing
<1>1. ResizeInit => OffIsEmpty
  BY DEF ResizeInit, OffIsEmpty
<1>2. ResizeInv /\ OffIsEmpty /\ [ResizeNext]_resizeVars => OffIsEmpty'
  BY OffIsEmptyStep
<1>3. OffIsEmpty /\ [ResizeNext]_resizeVars =>
        (power = "running" /\ power' = "off" => here = {} \/ overdue)
  <2> SUFFICES ASSUME [ResizeNext]_resizeVars, power = "running", power' = "off"
               PROVE  order = "off"
    BY DEF OffIsEmpty
  <2> USE DEF resize, machine, apps, history
  <2>1. ASSUME NEW e \in 0 .. 1, EndResize(e) PROVE FALSE
    BY <2>1 DEF EndResize
  <2>2. CASE OrderDone
    BY <2>2 DEF OrderDone
  <2>3. CASE OverseerStep \/ NodeUnreadable \/ DrainFails \/ ServerUnreadable
    BY <2>1, <2>3 DEF OverseerStep, NodeUnreadable, DrainFails, ServerUnreadable,
                      DrainWaits, DrainAbandoned, DrainDone, Verified,
                      VerifyAbandoned, ServerGone, PoweringOff,
                      Changing, PoweringOn, Rejoining, OrderFails, Goto
  <2>4. CASE UNCHANGED resizeVars
    BY <2>4 DEF resizeVars
  <2>5. CASE Begin \/ Deadline \/ Rests \/ Restart \/ Reap \/ (WorldStep /\ ~OrderDone)
    BY <2>5 DEF Begin, Deadline, Rests, Restart, Reap,
                WorldStep, OrderBegun, Vanishes, GoesDown, Rejoins, RolloutStarts,
                RolloutEnds, StartsHere, LeavesHere, StartsThere, LostThere
  <2> QED
    BY <2>2, <2>3, <2>4, <2>5 DEF ResizeNext
<1> QED
  BY <1>1, <1>2, <1>3, ResizeInvariant, PTL DEF ResizeSpec, CutsNothing

-----------------------------------------------------------------------------
(* Packer: the operators it is built from.                                 *)

\* A set of numbers that has 0, and with each number up to n its successor, has all.
LEMMA Climb ==
  ASSUME NEW n \in Nat, NEW P, 0 \in P, \A k \in 1..n : k - 1 \in P => k \in P
  PROVE  \A k \in 0..n : k \in P
<1> DEFINE out == {k \in 0..n : k \notin P}
<1>1. SUFFICES ASSUME out # {} PROVE FALSE
  OBVIOUS
<1>2. out \in SUBSET Nat
  OBVIOUS
<1>3. PICK x \in out : \A y \in out : ~ (<<y, x>> \in OpToRel(<, Nat))
  BY <1>1, <1>2, WFMin, NatLessThanWellFounded
<1>4. \A y \in out : ~(y < x)
  BY <1>2, <1>3 DEF OpToRel
<1>5. x \in 1..n /\ x \notin P
  OBVIOUS
<1>6. x - 1 \in 0..n /\ x - 1 < x
  BY <1>5
<1>7. x - 1 \notin out
  BY <1>4, <1>6
<1>8. QED
  BY <1>5, <1>6, <1>7

\* The greatest element of a set of indices.
LEMMA MaxIsMaximum ==
  ASSUME NEW n \in Nat, NEW S \in SUBSET (0..n), S # {}
  PROVE  Max(S) \in S /\ \A y \in S : Max(S) >= y
<1> DEFINE D == {d \in Nat : n - d \in S}
<1>1. \A s \in S : n - s \in D /\ n - (n - s) = s
  OBVIOUS
<1>2. D \in SUBSET Nat /\ D # {}
  BY <1>1
<1>3. PICK d \in D : \A e \in D : ~ (<<e, d>> \in OpToRel(<, Nat))
  BY <1>2, WFMin, NatLessThanWellFounded
<1>4. \A e \in D : ~(e < d)
  BY <1>2, <1>3 DEF OpToRel
<1>5. n - d \in S /\ \A y \in S : n - d >= y
  <2>1. ASSUME NEW y \in S PROVE n - d >= y
    <3>1. n - y \in D /\ y \in 0..n
      BY <1>1
    <3>2. d \in Nat /\ d <= n - y
      BY <1>2, <1>4, <3>1
    <3>3. QED
      BY <3>1, <3>2
  <2>2. QED
    BY <2>1
<1>6. QED
  BY <1>5 DEF Max

\* What a fold over 1..n is, and what it comes by.
Folds(it, n, base, F) ==
  it = [s \in SUBSET (1..n) |-> IF s = {} THEN base ELSE F[Max(s)][it[s \ {Max(s)}]]]
Inside(it, n, S, base, F) ==
  /\ it[{}] = base
  /\ \A s \in SUBSET (1..n) : s # {} /\ it[s \ {Max(s)}] \in S
                               => it[s] = F[Max(s)][it[s \ {Max(s)}]]
Passes(h, n, base, F) == h[0] = base /\ \A k \in 1..n : h[k] = F[k][h[k - 1]]

\* A fold over 1..n is well defined: there is a function that satisfies its equation.
LEMMA FoldMade ==
  ASSUME NEW n \in Nat, NEW S, NEW base \in S, NEW F \in [1..n -> [S -> S]]
  PROVE  \E it \in [SUBSET (1..n) -> S] : Folds(it, n, base, F)
<1> USE DEF Folds
<1> DEFINE Eq(k, it) == \A s \in SUBSET (1..k) :
                          it[s] = IF s = {} THEN base ELSE F[Max(s)][it[s \ {Max(s)}]]
           P == {k \in 0..n : \E it \in [SUBSET (1..k) -> S] : Eq(k, it)}
<1>0. ASSUME NEW k \in 0..n, NEW s \in SUBSET (1..k), s # {}
      PROVE  Max(s) \in s /\ (\A y \in s : Max(s) >= y) /\ Max(s) \in 1..k
             /\ s \ {Max(s)} \in SUBSET (1..k)
  <2>1. s \in SUBSET (0..k) /\ k \in Nat
    OBVIOUS
  <2>2. QED
    BY <2>1, <1>0, MaxIsMaximum
<1>1. 0 \in P
  <2> DEFINE it == [s \in SUBSET (1..0) |-> base]
  <2>1. it \in [SUBSET (1..0) -> S]
    OBVIOUS
  <2>2. \A s \in SUBSET (1..0) : s = {}
    OBVIOUS
  <2>3. Eq(0, it)
    BY <2>2
  <2>4. \E f \in [SUBSET (1..0) -> S] : Eq(0, f)
    <3> HIDE DEF Eq, it
    <3> QED
      BY <2>1, <2>3
  <2> HIDE DEF Eq, it
  <2>5. 0 \in 0..n
    OBVIOUS
  <2>6. QED
    BY <2>4, <2>5
<1>2. ASSUME NEW k \in 1..n, k - 1 \in P PROVE k \in P
  <2>1. PICK it \in [SUBSET (1..(k - 1)) -> S] : Eq(k - 1, it)
    BY <1>2
  <2> DEFINE g == [s \in SUBSET (1..k) |-> IF k \in s THEN F[k][it[s \ {k}]] ELSE it[s]]
  <2>2. ASSUME NEW s \in SUBSET (1..k), k \in s
        PROVE  s \ {k} \in SUBSET (1..(k - 1)) /\ Max(s) = k
               /\ g[s] = F[k][it[s \ {k}]] /\ g[s \ {k}] = it[s \ {k}]
    <3>1. s \ {k} \in SUBSET (1..(k - 1)) /\ s \ {k} \in SUBSET (1..k)
      OBVIOUS
    <3>2. k \in 0..n
      OBVIOUS
    <3>3. Max(s) \in 1..k /\ Max(s) >= k
      BY <2>2, <3>2, <1>0
    <3>4. QED
      BY <2>2, <3>1, <3>3
  <2>3. ASSUME NEW s \in SUBSET (1..k), k \notin s
        PROVE  s \in SUBSET (1..(k - 1)) /\ g[s] = it[s]
    BY <2>3
  <2>4. g \in [SUBSET (1..k) -> S]
    <3>1. ASSUME NEW s \in SUBSET (1..k) PROVE g[s] \in S
      <4>1. CASE k \in s
        <5>1. it[s \ {k}] \in S
          BY <4>1, <2>2
        <5>2. F[k][it[s \ {k}]] \in S
          BY <5>1
        <5>3. QED
          BY <4>1, <2>2, <5>2
      <4>2. CASE k \notin s
        BY <4>2, <2>3
      <4>3. QED
        BY <4>1, <4>2
    <3>2. QED
      BY <3>1
  <2>5. Eq(k, g)
    <3>1. ASSUME NEW s \in SUBSET (1..k)
          PROVE  g[s] = IF s = {} THEN base ELSE F[Max(s)][g[s \ {Max(s)}]]
      <4>1. CASE k \in s
        BY <4>1, <2>2
      <4>2. CASE k \notin s /\ s # {}
        <5>1. s \in SUBSET (1..(k - 1)) /\ g[s] = it[s]
          BY <4>2, <2>3
        <5>2. Max(s) \in s /\ s \ {Max(s)} \in SUBSET (1..k) /\ k \notin s \ {Max(s)}
          BY <4>2, <1>0
        <5>3. g[s \ {Max(s)}] = it[s \ {Max(s)}]
          BY <5>2, <2>3
        <5>4. it[s] = F[Max(s)][it[s \ {Max(s)}]]
          BY <5>1, <4>2, <2>1
        <5>5. QED
          BY <4>2, <5>1, <5>3, <5>4
      <4>3. CASE k \notin s /\ s = {}
        BY <4>3, <2>3, <2>1
      <4>4. QED
        BY <4>1, <4>2, <4>3
    <3>2. QED
      BY <3>1
  <2>6. \E f \in [SUBSET (1..k) -> S] : Eq(k, f)
    <3> HIDE DEF Eq, g
    <3> QED
      BY <2>4, <2>5
  <2> HIDE DEF Eq
  <2>7. QED
    BY <2>6
<1>3. n \in P
  <2> HIDE DEF P
  <2>1. \A k \in 0..n : k \in P
    BY <1>1, <1>2, Climb
  <2>2. QED
    BY <2>1
<1>4. QED
  BY <1>3

\* The greatest of some indices is one of them.
LEMMA MaxIndex ==
  ASSUME NEW n \in Nat, NEW s \in SUBSET (1..n), s # {}
  PROVE  Max(s) \in 1..n
<1>1. s \in SUBSET (0..n)
  OBVIOUS
<1>2. QED
  BY <1>1, MaxIsMaximum

\* And it goes along the indices, from the first to the last.
LEMMA FoldSteps ==
  ASSUME NEW n \in Nat, NEW S, NEW base \in S, NEW F \in [1..n -> [S -> S]], NEW it,
         Inside(it, n, S, base, F)
  PROVE  \E h \in [0..n -> S] : h[n] = it[1..n] /\ Passes(h, n, base, F)
<1> DEFINE P == {k \in 0..n : it[1..k] \in S}
           h == [k \in 0..n |-> it[1..k]]
<1> USE DEF Inside
<1>1. ASSUME NEW k \in 1..n, it[1..(k - 1)] \in S
      PROVE  it[1..k] = F[k][it[1..(k - 1)]] /\ it[1..k] \in S
  <2>1. 1..k \in SUBSET (1..n) /\ 1..k # {} /\ 1..k \in SUBSET (0..n)
    OBVIOUS
  <2>2. Max(1..k) \in 1..k /\ \A y \in 1..k : Max(1..k) >= y
    BY <2>1, MaxIsMaximum
  <2>3. k \in 1..k
    OBVIOUS
  <2>4. Max(1..k) = k
    BY <2>2, <2>3
  <2>5. (1..k) \ {k} = 1..(k - 1)
    OBVIOUS
  <2>6. it[1..k] = F[k][it[1..(k - 1)]]
    BY <1>1, <2>1, <2>4, <2>5
  <2>7. F[k][it[1..(k - 1)]] \in S
    BY <1>1
  <2>8. QED
    BY <2>6, <2>7
<1>2. 1..0 = {}
  OBVIOUS
<1>3. 0 \in P
  BY <1>2
<1>4. ASSUME NEW k \in 1..n, k - 1 \in P PROVE k \in P
  <2>1. k \in 0..n /\ it[1..(k - 1)] \in S
    BY <1>4
  <2>2. QED
    BY <2>1, <1>1
<1>5. \A k \in 0..n : k \in P
  <2> HIDE DEF P
  <2> QED
    BY <1>3, <1>4, Climb
<1>6. h \in [0..n -> S]
  BY <1>5
<1>7. h[0] = base /\ h[n] = it[1..n]
  BY <1>2
<1>8. ASSUME NEW k \in 1..n PROVE h[k] = F[k][h[k - 1]]
  BY <1>5, <1>1
<1>9. QED
  BY <1>6, <1>7, <1>8 DEF Passes

-----------------------------------------------------------------------------
\* Room, and what is reserved of it.
Res == [cpu : Nat, mem : Nat]

\* So many replicas reserve a resource,
LEMMA ShareType ==
  ASSUME NEW n \in Nat, NEW r \in Res
  PROVE  Share(n, r) \in Res
<1>1. r.cpu \in Nat /\ r.mem \in Nat
  BY DEF Res
<1>2. n * r.cpu \in Nat /\ n * r.mem \in Nat
  BY <1>1
<1>3. QED
  BY <1>2 DEF Res, Share

\* One more of an application.
OneMore(x, a) == [x EXCEPT ![a] = @ + 1]

\* and a sum of resources is one.
LEMMA PlusType ==
  ASSUME NEW q \in Res, NEW r \in Res
  PROVE  Plus(q, r) \in Res
BY DEF Res, Plus

\* The loads of a count.
LEMMA LoadSteps ==
  ASSUME cost \in [Named -> Res], NEW x \in [Named -> Nat]
  PROVE  \E h \in [0..Len(Apps) -> Res] :
           /\ h[0] = Nothing /\ Load(x) = h[Len(Apps)]
           /\ \A k \in 1..Len(Apps) :
                h[k] = Plus(h[k - 1], Share(x[Apps[k]], cost[Apps[k]]))
<1> DEFINE n == Len(Apps)
           Op(r, k) == Plus(r, Share(x[Apps[k]], cost[Apps[k]]))
           F == [k \in 1..n |-> [r \in Res |-> Op(r, k)]]
           E(it) == it = [s \in SUBSET DOMAIN Apps |->
                            IF s = {} THEN Nothing ELSE Op(it[s \ {Max(s)}], Max(s))]
           it == CHOOSE it : E(it)
<1>1. Load(x) = it[DOMAIN Apps]
  BY DEF Load, FoldLeft, MapThenFoldSet
<1>2. n \in Nat /\ DOMAIN Apps = 1..n /\ \A k \in 1..n : Apps[k] \in Named
  BY PackerConstants DEF PackerConstants
<1>3. Nothing \in Res
  BY DEF Nothing, Res
<1>4. ASSUME NEW k \in 1..n, NEW r \in Res
      PROVE  Op(r, k) \in Res
  <2>1. x[Apps[k]] \in Nat /\ cost[Apps[k]] \in Res
    BY <1>2
  <2>2. Share(x[Apps[k]], cost[Apps[k]]) \in Res
    BY <2>1, ShareType
  <2>3. QED
    BY <2>2, PlusType
<1> HIDE DEF n, Op
<1>5. F \in [1..n -> [Res -> Res]] /\ \A k \in 1..n, r \in Res : F[k][r] = Op(r, k)
  BY <1>4
<1> HIDE DEF F
<1>6. \A s \in SUBSET (1..n) : s # {} => Max(s) \in 1..n
  BY <1>2, MaxIndex
<1>7. \E f : E(f)
  <2>1. PICK f \in [SUBSET (1..n) -> Res] : Folds(f, n, Nothing, F)
    BY <1>2, <1>3, <1>5, FoldMade
  <2>2. ASSUME NEW s \in SUBSET (1..n), s # {}
        PROVE  F[Max(s)][f[s \ {Max(s)}]] = Op(f[s \ {Max(s)}], Max(s))
    <3>1. s \ {Max(s)} \in SUBSET (1..n)
      OBVIOUS
    <3>2. QED
      BY <3>1, <2>2, <1>5, <1>6
  <2>3. E(f)
    BY <2>1, <2>2, <1>2 DEF Folds
  <2>4. QED
    BY <2>3
<1>8. E(it)
  <2> HIDE DEF E
  <2> QED
    BY <1>7
<1> HIDE DEF it
<1>9. it[{}] = Nothing
  BY <1>8
<1>10. ASSUME NEW s \in SUBSET (1..n), s # {}, it[s \ {Max(s)}] \in Res
       PROVE  it[s] = F[Max(s)][it[s \ {Max(s)}]]
  <2>1. it[s] = Op(it[s \ {Max(s)}], Max(s))
    BY <1>8, <1>10, <1>2
  <2>2. QED
    BY <2>1, <1>5, <1>6, <1>10
<1> HIDE DEF E
<1>11. PICK h \in [0..n -> Res] : h[n] = it[1..n] /\ Passes(h, n, Nothing, F)
  <2>1. Inside(it, n, Res, Nothing, F)
    BY <1>9, <1>10 DEF Inside
  <2>2. QED
    BY <1>2, <1>3, <1>5, <2>1, FoldSteps
<1>12. h[0] = Nothing /\ \A k \in 1..n : h[k] = Op(h[k - 1], k)
  BY <1>11, <1>5, <1>2 DEF Passes
<1>13. QED
  BY <1>1, <1>2, <1>11, <1>12 DEF Op, n

\* Every application has one index.
LEMMA AppsIndexed ==
  /\ Len(Apps) \in Nat /\ DOMAIN Apps = 1..Len(Apps)
  /\ \A k \in 1..Len(Apps) : Apps[k] \in Named
  /\ \A a \in Named : \E k \in 1..Len(Apps) : Apps[k] = a
  /\ \A j, k \in 1..Len(Apps) : Apps[j] = Apps[k] => j = k
<1>1. Apps \in Seq(Named) /\ IsInjective(Apps)
  BY PackerConstants DEF PackerConstants
<1>2. \A a \in Named : \E k \in DOMAIN Apps : Apps[k] = a
  BY DEF Named, Range
<1>3. QED
  BY <1>1, <1>2 DEF IsInjective

\* The load is a resource.
LEMMA LoadType ==
  ASSUME cost \in [Named -> Res], NEW x \in [Named -> Nat]
  PROVE  Load(x) \in Res
BY LoadSteps, AppsIndexed

\* A replica more reserves that much more.
LEMMA ShareMore ==
  ASSUME NEW m \in Nat, NEW r \in Res
  PROVE  Share(m + 1, r) = Plus(Share(m, r), r)
<1>1. r.cpu \in Nat /\ r.mem \in Nat
  BY DEF Res
<1>2. \A c \in Nat : (m + 1) * c = m * c + c
  OBVIOUS
<1>3. (m + 1) * r.cpu = m * r.cpu + r.cpu /\ (m + 1) * r.mem = m * r.mem + r.mem
  BY <1>1, <1>2
<1>4. QED
  BY <1>3 DEF Share, Plus

\* The order of a sum does not matter.
LEMMA PlusSwap ==
  ASSUME NEW p \in Res, NEW q \in Res, NEW r \in Res
  PROVE  /\ Plus(p, Plus(q, r)) = Plus(Plus(p, q), r)
         /\ Plus(Plus(p, q), r) = Plus(Plus(p, r), q)
BY DEF Plus, Res

\* One more of an application is its cost more.
LEMMA LoadMore ==
  ASSUME cost \in [Named -> Res], NEW x \in [Named -> Nat], NEW a \in Named
  PROVE  Load(OneMore(x, a)) = Plus(Load(x), cost[a])
<1> USE DEF OneMore
<1> DEFINE n == Len(Apps)
           y == [x EXCEPT ![a] = @ + 1]
<1>1. y \in [Named -> Nat]
  OBVIOUS
<1>2. PICK h \in [0..n -> Res] :
        /\ h[0] = Nothing /\ Load(x) = h[n]
        /\ \A k \in 1..n : h[k] = Plus(h[k - 1], Share(x[Apps[k]], cost[Apps[k]]))
  BY LoadSteps
<1>3. PICK g \in [0..n -> Res] :
        /\ g[0] = Nothing /\ Load(y) = g[n]
        /\ \A k \in 1..n : g[k] = Plus(g[k - 1], Share(y[Apps[k]], cost[Apps[k]]))
  BY <1>1, LoadSteps
<1>4. PICK m \in 1..n : Apps[m] = a
  BY AppsIndexed
<1> DEFINE P == {k \in 0..n : g[k] = IF k >= m THEN Plus(h[k], cost[a]) ELSE h[k]}
<1>5. 0 \in P
  BY <1>2, <1>3, AppsIndexed
<1>6. ASSUME NEW k \in 1..n, k - 1 \in P PROVE k \in P
  <2> DEFINE s == Share(x[Apps[k]], cost[Apps[k]])
  <2>1. k \in 0..n /\ k - 1 \in 0..n /\ Apps[k] \in Named
    BY AppsIndexed
  <2>2. s \in Res /\ h[k - 1] \in Res /\ cost[a] \in Res
    BY <2>1, ShareType
  <2>3. h[k] = Plus(h[k - 1], s)
    BY <1>2
  <2>4. CASE k = m
    <3>1. g[k - 1] = h[k - 1]
      BY <1>6, <2>4
    <3>2. Share(y[Apps[k]], cost[Apps[k]]) = Plus(s, cost[a])
      BY <2>4, <1>4, ShareMore
    <3>3. g[k] = Plus(h[k - 1], Plus(s, cost[a]))
      BY <1>3, <3>1, <3>2
    <3>4. g[k] = Plus(h[k], cost[a])
      <4> HIDE DEF s
      <4> QED
        BY <3>3, <2>2, <2>3, PlusSwap
    <3>5. QED
      BY <2>1, <2>4, <3>4
  <2>5. CASE k # m
    <3>1. Apps[k] # a
      BY <2>5, <1>4, AppsIndexed
    <3>2. y[Apps[k]] = x[Apps[k]]
      BY <3>1, <2>1
    <3>3. g[k] = Plus(g[k - 1], s)
      BY <1>3, <3>2
    <3>4. CASE k >= m
      <4>1. g[k - 1] = Plus(h[k - 1], cost[a])
        BY <1>6, <2>5, <3>4
      <4>2. g[k] = Plus(h[k], cost[a])
        <5> HIDE DEF s
        <5> QED
          BY <4>1, <3>3, <2>2, <2>3, PlusSwap
      <4>3. QED
        BY <2>1, <3>4, <4>2
    <3>5. CASE k < m
      BY <1>6, <2>1, <2>3, <3>3, <3>5
    <3>6. QED
      BY <3>4, <3>5, <2>1
  <2>6. QED
    BY <2>4, <2>5
<1>7. n \in P
  <2>1. \A k \in 0..n : k \in P
    <3> HIDE DEF P
    <3> QED
      BY <1>5, <1>6, AppsIndexed, Climb
  <2>2. QED
    BY <2>1, AppsIndexed
<1>8. QED
  BY <1>2, <1>3, <1>7, AppsIndexed

\* None of anything is no load.
LEMMA LoadNone ==
  ASSUME cost \in [Named -> Res]
  PROVE  Load([a \in Named |-> 0]) = Nothing
<1> DEFINE n == Len(Apps)
           x == [a \in Named |-> 0]
<1>1. PICK h \in [0..n -> Res] :
        /\ h[0] = Nothing /\ Load(x) = h[n]
        /\ \A k \in 1..n : h[k] = Plus(h[k - 1], Share(x[Apps[k]], cost[Apps[k]]))
  <2>1. x \in [Named -> Nat]
    OBVIOUS
  <2>2. QED
    BY <2>1, LoadSteps
<1> DEFINE P == {k \in 0..n : h[k] = Nothing}
<1>2. 0 \in P
  BY <1>1, AppsIndexed
<1>3. ASSUME NEW k \in 1..n, k - 1 \in P PROVE k \in P
  <2>1. Apps[k] \in Named /\ x[Apps[k]] = 0 /\ cost[Apps[k]] \in Res /\ k \in 0..n
    BY AppsIndexed
  <2>2. Share(0, cost[Apps[k]]) = Nothing
    BY <2>1 DEF Share, Nothing, Res
  <2>3. h[k] = Plus(Nothing, Nothing)
    BY <1>1, <1>3, <2>1, <2>2
  <2>4. QED
    BY <2>1, <2>3 DEF Plus, Nothing
<1>4. \A k \in 0..n : k \in P
  <2> HIDE DEF P
  <2> QED
    BY <1>2, <1>3, AppsIndexed, Climb
<1>5. QED
  BY <1>1, <1>4, AppsIndexed

-----------------------------------------------------------------------------
(* The order of the bins.                                                  *)

\* A bin, as Bin makes it.
Bins == [key : Int, free : Res, manager : BOOLEAN]

\* Bins that are told apart by their keys.
Distinct(bins) ==
  /\ bins \in Seq(Bins)
  /\ \A i, j \in DOMAIN bins : i # j => bins[i].key # bins[j].key

\* The parts of a bin.
LEMMA BinTypes ==
  ASSUME NEW bins, Distinct(bins)
  PROVE  /\ Len(bins) \in Nat /\ DOMAIN bins = 1..Len(bins)
         /\ \A i \in DOMAIN bins :
              /\ bins[i] \in Bins /\ bins[i].key \in Int /\ bins[i].free \in Res
              /\ bins[i].free.cpu \in Nat /\ bins[i].manager \in BOOLEAN
<1>1. bins \in Seq(Bins)
  BY DEF Distinct
<1>2. Len(bins) \in Nat /\ DOMAIN bins = 1..Len(bins) /\ \A i \in DOMAIN bins : bins[i] \in Bins
  BY <1>1
<1>3. \A b \in Bins : b.key \in Int /\ b.free \in Res /\ b.manager \in BOOLEAN
  BY DEF Bins
<1>4. \A r \in Res : r.cpu \in Nat
  BY DEF Res
<1>5. QED
  BY <1>2, <1>3, <1>4

\* Of two bins one comes first, and it is an order.
LEMMA BeforeOrders ==
  ASSUME NEW bins, Distinct(bins)
  PROVE  /\ \A i, j \in DOMAIN bins :
              i # j => Before(bins[i], bins[j]) \/ Before(bins[j], bins[i])
         /\ \A i, j, k \in DOMAIN bins :
              Before(bins[i], bins[j]) /\ Before(bins[j], bins[k]) => Before(bins[i], bins[k])
<1>1. \A i, j \in DOMAIN bins :
        i # j => Before(bins[i], bins[j]) \/ Before(bins[j], bins[i])
  <2>1. SUFFICES ASSUME NEW i \in DOMAIN bins, NEW j \in DOMAIN bins, i # j
                 PROVE  Before(bins[i], bins[j]) \/ Before(bins[j], bins[i])
    OBVIOUS
  <2>2. bins[i].key # bins[j].key
    BY <2>1 DEF Distinct
  <2>3. QED
    BY <2>2, BinTypes DEF Before
<1>2. \A i, j, k \in DOMAIN bins :
        Before(bins[i], bins[j]) /\ Before(bins[j], bins[k]) => Before(bins[i], bins[k])
  <2>1. SUFFICES ASSUME NEW i \in DOMAIN bins, NEW j \in DOMAIN bins, NEW k \in DOMAIN bins,
                        Before(bins[i], bins[j]), Before(bins[j], bins[k])
                 PROVE  Before(bins[i], bins[k])
    OBVIOUS
  <2>2. /\ bins[i].key \in Int /\ bins[j].key \in Int /\ bins[k].key \in Int
        /\ bins[i].free.cpu \in Nat /\ bins[j].free.cpu \in Nat /\ bins[k].free.cpu \in Nat
        /\ bins[i].manager \in BOOLEAN /\ bins[j].manager \in BOOLEAN
        /\ bins[k].manager \in BOOLEAN
    BY BinTypes
  <2>3. QED
    BY <2>1, <2>2 DEF Before
<1>3. QED
  BY <1>1, <1>2

\* Of some bins, one is before all the others.
LEMMA FirstExists ==
  ASSUME NEW bins, Distinct(bins), NEW S \in SUBSET DOMAIN bins, S # {}
  PROVE  \E i \in S : \A j \in S \ {i} : Before(bins[i], bins[j])
<1> DEFINE n == Len(bins)
           First(T) == \E i \in T : \A j \in T \ {i} : Before(bins[i], bins[j])
           P == {k \in 0..n : \A T \in SUBSET (1..k) : T # {} => First(T)}
<1>1. n \in Nat /\ DOMAIN bins = 1..n
  BY BinTypes
<1>2. 0 \in P
  <2>1. \A T \in SUBSET (1..0) : T = {}
    OBVIOUS
  <2>2. 0 \in 0..n
    BY <1>1
  <2> HIDE DEF First
  <2>3. QED
    BY <2>1, <2>2
<1>3. ASSUME NEW k \in 1..n, k - 1 \in P PROVE k \in P
  <2>1. ASSUME NEW T \in SUBSET (1..k), T # {} PROVE First(T)
    <3> DEFINE U == T \ {k}
    <3>1. U \in SUBSET (1..(k - 1))
      OBVIOUS
    <3>2. CASE U = {}
      <4>1. T = {k}
        BY <2>1, <3>2
      <4>2. QED
        BY <4>1
    <3>3. CASE U # {}
      <4>1. First(U)
        BY <3>1, <3>3, <1>3
      <4>2. PICK i \in U : \A j \in U \ {i} : Before(bins[i], bins[j])
        BY <4>1
      <4>3. CASE k \notin T
        BY <4>2, <4>3
      <4>4. CASE k \in T /\ Before(bins[i], bins[k])
        BY <4>2, <4>4
      <4>5. CASE k \in T /\ ~Before(bins[i], bins[k])
        <5>1. i # k /\ i \in DOMAIN bins /\ k \in DOMAIN bins /\ U \subseteq DOMAIN bins
          BY <1>1, <3>1
        <5>2. Before(bins[k], bins[i])
          BY <4>5, <5>1, BeforeOrders
        <5>3. \A j \in U : Before(bins[k], bins[j])
          BY <4>2, <5>1, <5>2, BeforeOrders
        <5>4. QED
          BY <4>5, <5>3
      <4>6. QED
        BY <4>3, <4>4, <4>5
    <3>4. QED
      BY <3>2, <3>3
  <2> HIDE DEF First
  <2>2. QED
    BY <2>1
<1>4. n \in P
  <2>1. \A k \in 0..n : k \in P
    <3> HIDE DEF P
    <3> QED
      BY <1>1, <1>2, <1>3, Climb
  <2>2. n \in 0..n
    BY <1>1
  <2>3. QED
    BY <2>1, <2>2
<1>5. QED
  BY <1>1, <1>4

\* First fit: a bin that takes the replica, when there is one.
LEMMA FirstFitIs ==
  ASSUME NEW bins, Distinct(bins), NEW a, NEW bound, NEW free
  PROVE  /\ Taking(a, bound, bins, free) = {} => FirstFit(a, bound, bins, free) = 0
         /\ Taking(a, bound, bins, free) # {}
              => /\ FirstFit(a, bound, bins, free) \in Taking(a, bound, bins, free)
                 /\ FirstFit(a, bound, bins, free) \in DOMAIN bins
                 /\ FirstFit(a, bound, bins, free) # 0
<1> DEFINE taking == Taking(a, bound, bins, free)
<1>1. taking \in SUBSET DOMAIN bins
  BY DEF Taking
<1>2. ASSUME taking # {} PROVE FirstFit(a, bound, bins, free) \in taking
  <2>1. \E i \in taking : \A j \in taking \ {i} : Before(bins[i], bins[j])
    <3> HIDE DEF taking
    <3> QED
      BY <1>1, <1>2, FirstExists
  <2>2. QED
    BY <1>2, <2>1 DEF FirstFit
<1>3. taking = {} => FirstFit(a, bound, bins, free) = 0
  BY DEF FirstFit
<1>4. \A i \in DOMAIN bins : i # 0
  BY BinTypes
<1>5. QED
  BY <1>1, <1>2, <1>3, <1>4

-----------------------------------------------------------------------------
(* What Holds asks for.                                                    *)

\* Some number is above every count, and the greatest count is one of them.
LEMMA CountsBounded ==
  ASSUME NEW c \in [Named -> Nat]
  PROVE  \E m \in Nat : \A a \in Named : c[a] <= m
<1> DEFINE n == Len(Apps)
           P == {k \in 0..n : \E m \in Nat : \A j \in 1..k : c[Apps[j]] <= m}
<1>1. 0 \in P
  <2>1. \A j \in 1..0 : c[Apps[j]] <= 0
    OBVIOUS
  <2>2. 0 \in 0..n
    BY AppsIndexed
  <2>3. QED
    BY <2>1, <2>2
<1>2. ASSUME NEW k \in 1..n, k - 1 \in P PROVE k \in P
  <2>1. PICK m \in Nat : \A j \in 1..(k - 1) : c[Apps[j]] <= m
    BY <1>2
  <2>2. c[Apps[k]] \in Nat /\ k \in 0..n
    BY AppsIndexed
  <2>3. m + c[Apps[k]] \in Nat
    BY <2>2
  <2>4. ASSUME NEW j \in 1..k PROVE c[Apps[j]] <= m + c[Apps[k]]
    <3>1. CASE j = k
      BY <2>2, <3>1
    <3>2. CASE j \in 1..(k - 1)
      <4>1. c[Apps[j]] <= m /\ c[Apps[j]] \in Nat
        BY <2>1, <3>2, AppsIndexed
      <4>2. QED
        BY <4>1, <2>2
    <3>3. QED
      BY <3>1, <3>2
  <2>5. QED
    BY <2>2, <2>3, <2>4
<1>3. \A k \in 0..n : k \in P
  <2> HIDE DEF P
  <2> QED
    BY <1>1, <1>2, AppsIndexed, Climb
<1>4. PICK m \in Nat : \A j \in 1..n : c[Apps[j]] <= m
  <2>1. n \in 0..n
    BY AppsIndexed
  <2>2. n \in P
    BY <1>3, <2>1
  <2>3. QED
    BY <2>2
<1>5. QED
  BY <1>4, AppsIndexed

\* The greatest of the counts bounds each of them.
LEMMA MaxCount ==
  ASSUME NEW c \in [Named -> Nat]
  PROVE  Max(Range(c)) \in Nat /\ \A a \in Named : c[a] \in 0..Max(Range(c))
<1>1. PICK m \in Nat : \A a \in Named : c[a] <= m
  BY CountsBounded
<1>2. \A a \in Named : c[a] \in Range(c)
  BY DEF Range
<1>3. Range(c) \in SUBSET (0..m)
  BY <1>1 DEF Range
<1>4. Range(c) # {}
  <2>1. Apps # << >> /\ Apps \in Seq(Named)
    BY PackerConstants DEF PackerConstants
  <2>2. Len(Apps) # 0
    BY <2>1
  <2>3. Apps[1] \in Named
    BY <2>2, AppsIndexed
  <2>4. QED
    BY <2>3, <1>2
<1>5. Max(Range(c)) \in Range(c) /\ \A y \in Range(c) : Max(Range(c)) >= y
  BY <1>3, <1>4, MaxIsMaximum
<1>6. Max(Range(c)) \in Nat
  BY <1>3, <1>5
<1>7. QED
  BY <1>2, <1>5, <1>6

\* What the bins take one after the other.
LEMMA StackSteps ==
  ASSUME NEW c \in [Named -> Nat], NEW bound, NEW bins, Distinct(bins)
  PROVE  \E h \in [0..Len(bins) -> SUBSET [Named -> Nat]] :
           /\ h[0] = {[a \in Named |-> 0]} /\ (Holds(c, bound, bins) <=> c \in h[Len(bins)])
           /\ \A k \in 1..Len(bins) : h[k] = Stacked(h[k - 1], c, bound, bins[k])
<1> DEFINE n == Len(bins)
           S == SUBSET [Named -> Nat]
           base == {[a \in Named |-> 0]}
           Op(r, k) == Stacked(r, c, bound, bins[k])
           F == [k \in 1..n |-> [r \in S |-> Op(r, k)]]
           E(it) == it = [s \in SUBSET DOMAIN bins |->
                            IF s = {} THEN base ELSE Op(it[s \ {Max(s)}], Max(s))]
           it == CHOOSE it : E(it)
<1>1. Holds(c, bound, bins) <=> c \in it[DOMAIN bins]
  BY DEF Holds, FoldLeft, MapThenFoldSet
<1>2. n \in Nat /\ DOMAIN bins = 1..n
  BY BinTypes
<1>3. base \in S
  OBVIOUS
<1>4. ASSUME NEW k \in 1..n, NEW r \in S
      PROVE  Op(r, k) \in S
  <2>1. ASSUME NEW u \in r, NEW x \in Fills(c, bound, bins[k])
        PROVE  [a \in Named |-> u[a] + x[a]] \in [Named -> Nat]
    <3>1. x \in [Named -> Nat]
      BY MaxCount DEF Fills, Below
    <3>2. u \in [Named -> Nat]
      OBVIOUS
    <3>3. QED
      BY <3>1, <3>2
  <2>2. QED
    BY <2>1 DEF Stacked
<1> HIDE DEF n, Op, base, S
<1>5. F \in [1..n -> [S -> S]] /\ \A k \in 1..n, r \in S : F[k][r] = Op(r, k)
  BY <1>4
<1> HIDE DEF F
<1>6. \A s \in SUBSET (1..n) : s # {} => Max(s) \in 1..n
  BY <1>2, MaxIndex
<1>7. \E f : E(f)
  <2>1. PICK f \in [SUBSET (1..n) -> S] : Folds(f, n, base, F)
    BY <1>2, <1>3, <1>5, FoldMade
  <2>2. ASSUME NEW s \in SUBSET (1..n), s # {}
        PROVE  F[Max(s)][f[s \ {Max(s)}]] = Op(f[s \ {Max(s)}], Max(s))
    <3>1. s \ {Max(s)} \in SUBSET (1..n)
      OBVIOUS
    <3>2. QED
      BY <3>1, <2>2, <1>5, <1>6
  <2>3. E(f)
    BY <2>1, <2>2, <1>2 DEF Folds
  <2>4. QED
    BY <2>3
<1>8. E(it)
  <2> HIDE DEF E
  <2> QED
    BY <1>7
<1> HIDE DEF it
<1>9. it[{}] = base
  BY <1>8
<1>10. ASSUME NEW s \in SUBSET (1..n), s # {}, it[s \ {Max(s)}] \in S
       PROVE  it[s] = F[Max(s)][it[s \ {Max(s)}]]
  <2>1. it[s] = Op(it[s \ {Max(s)}], Max(s))
    BY <1>8, <1>10, <1>2
  <2>2. QED
    BY <2>1, <1>5, <1>6, <1>10
<1> HIDE DEF E
<1>11. PICK h \in [0..n -> S] : h[n] = it[1..n] /\ Passes(h, n, base, F)
  <2>1. Inside(it, n, S, base, F)
    BY <1>9, <1>10 DEF Inside
  <2>2. QED
    BY <1>2, <1>3, <1>5, <2>1, FoldSteps
<1>12. h[0] = base /\ \A k \in 1..n : h[k] = Op(h[k - 1], k)
  <2>1. \A k \in 1..n : h[k - 1] \in S
    BY <1>2
  <2>2. QED
    BY <1>11, <1>5, <2>1 DEF Passes
<1>13. QED
  BY <1>1, <1>2, <1>11, <1>12 DEF Op, n, S, base

\* A placement: what each bin takes, x, which adds up, bin after bin, to the counts.
Placement(x, p, c, bound, bins) ==
  /\ p \in [0..Len(bins) -> [Named -> Nat]] /\ x \in [1..Len(bins) -> [Named -> Nat]]
  /\ p[0] = [a \in Named |-> 0] /\ p[Len(bins)] = c
  /\ \A k \in 1..Len(bins) : \A a \in Named : p[k][a] = p[k - 1][a] + x[k][a]
  /\ \A k \in 1..Len(bins) : \A a \in Named : p[k][a] <= c[a]
  /\ \A k \in 1..Len(bins) : FitsIn(Load(x[k]), bins[k].free)
  /\ \A k \in 1..Len(bins) : bins[k].manager => \A a \in bound : x[k][a] = 0

\* What is added to a count is at most what bounds their sum.
LEMMA AddendBounded ==
  ASSUME NEW m \in Nat, NEW n \in Nat, NEW most \in Nat, m + n <= most
  PROVE  n <= most
  OBVIOUS

\* Where there is a placement, the counts are held.
LEMMA PlacementHolds ==
  ASSUME NEW c \in [Named -> Nat], NEW bound, NEW bins, Distinct(bins),
         NEW x, NEW p, Placement(x, p, c, bound, bins)
  PROVE  Holds(c, bound, bins)
<1> DEFINE n == Len(bins)
<1>1. PICK h \in [0..n -> SUBSET [Named -> Nat]] :
           /\ h[0] = {[a \in Named |-> 0]} /\ (Holds(c, bound, bins) <=> c \in h[n])
           /\ \A k \in 1..n : h[k] = Stacked(h[k - 1], c, bound, bins[k])
  BY StackSteps
<1> DEFINE P == {k \in 0..n : p[k] \in h[k]}
<1>2. n \in Nat /\ n \in 0..n /\ 0 \in 0..n
  BY BinTypes
<1>3. 0 \in P
  BY <1>1, <1>2 DEF Placement
<1>4. ASSUME NEW k \in 1..n, k - 1 \in P PROVE k \in P
  <2>1. k \in 0..n /\ k - 1 \in 0..n
    BY <1>2
  <2>2. x[k] \in [Named -> Nat] /\ p[k] \in [Named -> Nat] /\ p[k - 1] \in [Named -> Nat]
    BY <2>1 DEF Placement
  <2>3. x[k] \in Fills(c, bound, bins[k])
    <3>1. ASSUME NEW a \in Named PROVE x[k][a] <= c[a] /\ x[k][a] \in 0..Max(Range(c))
      <4>1. p[k][a] = p[k - 1][a] + x[k][a] /\ p[k][a] <= c[a]
        BY DEF Placement
      <4>2. x[k][a] \in Nat /\ p[k][a] \in Nat /\ p[k - 1][a] \in Nat /\ c[a] \in Nat
        BY <2>2
      <4>3. x[k][a] <= c[a]
        <5>1. p[k - 1][a] + x[k][a] <= c[a]
          BY <4>1
        <5>2. QED
          BY <4>2, <5>1, AddendBounded
      <4>4. Max(Range(c)) \in Nat /\ c[a] <= Max(Range(c))
        <5>1. Max(Range(c)) \in Nat /\ \A b \in Named : c[b] \in 0..Max(Range(c))
          BY MaxCount
        <5>2. QED
          BY <5>1
      <4>5. QED
        BY <4>2, <4>3, <4>4
    <3>2. x[k] \in Below(c)
      BY <3>1, <2>2 DEF Below
    <3>3. QED
      BY <3>2 DEF Fills, Placement
  <2>4. p[k] = [a \in Named |-> p[k - 1][a] + x[k][a]]
    BY <2>2 DEF Placement
  <2>5. p[k] \in Stacked(h[k - 1], c, bound, bins[k])
    BY <2>3, <2>4, <1>4 DEF Stacked, Placement
  <2>6. QED
    BY <2>1, <2>5, <1>1
<1>5. \A k \in 0..n : k \in P
  <2> HIDE DEF P
  <2> QED
    BY <1>2, <1>3, <1>4, Climb
<1>6. p[n] \in h[n]
  BY <1>2, <1>5
<1>7. QED
  BY <1>1, <1>6 DEF Placement

-----------------------------------------------------------------------------
(* How often a sequence names one of some bins.                            *)

\* How many of a sequence are in T.
Tally(s, T) == Cardinality({k \in DOMAIN s : s[k] \in T})

\* There are n numbers from 1 to n.
LEMMA CountTo ==
  ASSUME NEW n \in Nat
  PROVE  IsFiniteSet(1..n) /\ Cardinality(1..n) = n
<1>1. IsFiniteSet(1..n) /\ Cardinality(1..n) = IF 1 > n THEN 0 ELSE n - 1 + 1
  BY FS_Interval
<1>2. (IF 1 > n THEN 0 ELSE n - 1 + 1) = n
  OBVIOUS
<1>3. QED
  BY <1>1, <1>2

\* A tally is a number, and no more than the length.
LEMMA TallyType ==
  ASSUME NEW S, NEW s \in Seq(S), NEW T
  PROVE  /\ IsFiniteSet({k \in DOMAIN s : s[k] \in T})
         /\ Tally(s, T) \in Nat /\ Tally(s, T) <= Len(s)
<1>1. Len(s) \in Nat /\ DOMAIN s = 1..Len(s)
  OBVIOUS
<1>2. IsFiniteSet(1..Len(s)) /\ Cardinality(1..Len(s)) = Len(s)
  BY <1>1, CountTo
<1>3. {k \in DOMAIN s : s[k] \in T} \in SUBSET (1..Len(s))
  BY <1>1
<1>4. QED
  BY <1>2, <1>3, FS_Subset, FS_CardinalityType DEF Tally

\* One more element is in T or it is not.
LEMMA TallyMore ==
  ASSUME NEW S, NEW s \in Seq(S), NEW i \in S, NEW T
  PROVE  Tally(Append(s, i), T) = IF i \in T THEN Tally(s, T) + 1 ELSE Tally(s, T)
<1> DEFINE t == Append(s, i)
           old == {k \in DOMAIN s : s[k] \in T}
           new == {k \in DOMAIN t : t[k] \in T}
<1>1. /\ Len(s) \in Nat /\ DOMAIN s = 1..Len(s) /\ DOMAIN t = 1..(Len(s) + 1)
      /\ t[Len(s) + 1] = i /\ \A k \in 1..Len(s) : t[k] = s[k]
  OBVIOUS
<1>2. IsFiniteSet(old) /\ Tally(s, T) = Cardinality(old)
  BY TallyType DEF Tally
<1>3. Len(s) + 1 \notin old
  BY <1>1
<1>4. new = IF i \in T THEN old \cup {Len(s) + 1} ELSE old
  <2>1. \A k : k \in 1..(Len(s) + 1) <=> k \in 1..Len(s) \/ k = Len(s) + 1
    BY <1>1
  <2>2. \A k \in 1..Len(s) : k \in 1..(Len(s) + 1)
    BY <1>1
  <2>3. CASE i \in T
    BY <1>1, <2>1, <2>3
  <2>4. CASE i \notin T
    BY <1>1, <2>1, <2>4
  <2>5. QED
    BY <2>3, <2>4
<1>5. Cardinality(old \cup {Len(s) + 1}) = Cardinality(old) + 1
  BY <1>2, <1>3, FS_AddElement
<1>6. QED
  BY <1>2, <1>4, <1>5 DEF Tally

\* Tallies of ranges add up.
LEMMA TallySum ==
  ASSUME NEW n \in Nat, NEW s \in Seq(1..n)
  PROVE  /\ Tally(s, 1..0) = 0 /\ Tally(s, 1..n) = Len(s)
         /\ \A k \in 1..n : Tally(s, 1..k) = Tally(s, 1..(k - 1)) + Tally(s, {k})
<1>1. Len(s) \in Nat /\ DOMAIN s = 1..Len(s) /\ \A k \in DOMAIN s : s[k] \in 1..n
  OBVIOUS
<1>2. Tally(s, 1..0) = 0
  <2>1. {k \in DOMAIN s : s[k] \in 1..0} = {}
    OBVIOUS
  <2>2. QED
    BY <2>1, FS_EmptySet DEF Tally
<1>3. Tally(s, 1..n) = Len(s)
  <2>1. {k \in DOMAIN s : s[k] \in 1..n} = 1..Len(s)
    BY <1>1
  <2>2. QED
    BY <2>1, <1>1, CountTo DEF Tally
<1>4. ASSUME NEW k \in 1..n
      PROVE  Tally(s, 1..k) = Tally(s, 1..(k - 1)) + Tally(s, {k})
  <2> DEFINE A == {j \in DOMAIN s : s[j] \in 1..(k - 1)}
             B == {j \in DOMAIN s : s[j] \in {k}}
             C == {j \in DOMAIN s : s[j] \in 1..k}
  <2>1. \A v : v \in 1..k <=> v \in 1..(k - 1) \/ v = k
    OBVIOUS
  <2>2. C = A \cup B
    BY <2>1
  <2>3. A \cap B = {}
    OBVIOUS
  <2>4. IsFiniteSet(A) /\ IsFiniteSet(B)
    BY TallyType
  <2>5. Cardinality(C) = Cardinality(A) + Cardinality(B)
    <3>1. Cardinality(A) \in Nat /\ Cardinality(B) \in Nat /\ Cardinality({}) = 0
      BY <2>4, FS_CardinalityType, FS_EmptySet
    <3> HIDE DEF A, B, C
    <3>2. Cardinality(A \cup B) = Cardinality(A) + Cardinality(B) - Cardinality(A \cap B)
      BY <2>4, FS_Union
    <3>3. Cardinality(A \cap B) = 0 /\ Cardinality(C) = Cardinality(A \cup B)
      BY <2>2, <2>3, <3>1
    <3>4. QED
      BY <3>1, <3>2, <3>3
  <2>6. QED
    BY <2>5 DEF Tally
<1>5. QED
  BY <1>2, <1>3, <1>4

-----------------------------------------------------------------------------
(* Admission.                                                              *)

\* How many of each run on a bin.
On(p, k) == [b \in Named |-> Tally(p[b], {k})]

\* An admission under way: what is granted stands on the bins, and nothing that only a
\* worker takes stands on the master.
Stands(bound, bins) ==
  {d \in [free : [DOMAIN bins -> Res], granted : [Named -> Nat],
          placed : [Named -> Seq(DOMAIN bins)], out : SUBSET Named] :
     /\ \A a \in Named : d.granted[a] = Len(d.placed[a])
     /\ \A i \in DOMAIN bins : Plus(d.free[i], Load(On(d.placed, i))) = bins[i].free
     /\ \A a \in bound, i \in DOMAIN bins :
          bins[i].manager => Tally(d.placed[a], {i}) = 0}

\* The parts of an admission,
LEMMA StandsType ==
  ASSUME NEW bound, NEW bins, Distinct(bins), NEW d \in Stands(bound, bins)
  PROVE  /\ d = [free |-> d.free, granted |-> d.granted, placed |-> d.placed, out |-> d.out]
         /\ d.free \in [DOMAIN bins -> Res] /\ d.granted \in [Named -> Nat]
         /\ d.placed \in [Named -> Seq(1..Len(bins))] /\ d.out \in SUBSET Named
BY BinTypes DEF Stands

\* and how they hang together.
LEMMA StandsFacts ==
  ASSUME NEW bound, NEW bins, NEW d \in Stands(bound, bins)
  PROVE  /\ \A a \in Named : d.granted[a] = Len(d.placed[a])
         /\ \A i \in DOMAIN bins : Plus(d.free[i], Load(On(d.placed, i))) = bins[i].free
         /\ \A a \in bound : \A i \in DOMAIN bins :
              bins[i].manager => Tally(d.placed[a], {i}) = 0
BY DEF Stands

\* What runs on a bin is a count of each application.
LEMMA OnType ==
  ASSUME NEW n \in Nat, NEW placed \in [Named -> Seq(1..n)], NEW i
  PROVE  On(placed, i) \in [Named -> Nat]
BY TallyType DEF On

\* A replica more on a bin.
Another(p, b, k) == [p EXCEPT ![b] = Append(@, k)]

\* Where the replicas of each application are, on n bins.
Places(n) == [Named -> Seq(1..n)]

\* A replica put on a bin is on that bin only.
LEMMA OnMore ==
  ASSUME NEW n \in Nat, NEW placed \in Places(n), NEW i \in 1..n, NEW a \in Named,
         NEW j \in 1..n
  PROVE  On(Another(placed, a, i), j) =
           IF i = j THEN OneMore(On(placed, j), a) ELSE On(placed, j)
<1> USE DEF Another, OneMore, Places
<1> DEFINE more == [placed EXCEPT ![a] = Append(@, i)]
<1>1. ASSUME NEW b \in Named
      PROVE  Tally(more[b], {j}) =
               IF b = a /\ i = j THEN Tally(placed[b], {j}) + 1 ELSE Tally(placed[b], {j})
  <2>1. CASE b = a
    <3>1. more[b] = Append(placed[b], i) /\ placed[b] \in Seq(1..n)
      BY <2>1
    <3>2. Tally(Append(placed[b], i), {j}) =
            IF i \in {j} THEN Tally(placed[b], {j}) + 1 ELSE Tally(placed[b], {j})
      <4> DEFINE s == placed[b]
                 S == 1..n
      <4>1. s \in Seq(S) /\ i \in S
        BY <3>1
      <4> HIDE DEF s, S
      <4>2. Tally(Append(s, i), {j}) =
              IF i \in {j} THEN Tally(s, {j}) + 1 ELSE Tally(s, {j})
        BY <4>1, TallyMore
      <4>3. QED
        BY <4>2 DEF s
    <3>3. QED
      BY <2>1, <3>1, <3>2
  <2>2. CASE b # a
    BY <2>2
  <2>3. QED
    BY <2>1, <2>2
<1>2. QED
  BY <1>1 DEF On

\* What fits can be taken off and put back.
LEMMA MinusPlus ==
  ASSUME NEW f \in Res, NEW r \in Res, FitsIn(r, f)
  PROVE  Minus(f, r) \in Res /\ Plus(Minus(f, r), r) = f
BY DEF Minus, Plus, FitsIn, Res, Larger

\* A state of an admission, given by its parts.
LEMMA StandsIs ==
  ASSUME NEW bound, NEW bins, Distinct(bins),
         NEW free \in [DOMAIN bins -> Res], NEW granted \in [Named -> Nat],
         NEW placed \in [Named -> Seq(1..Len(bins))], NEW out \in SUBSET Named,
         \A a \in Named : granted[a] = Len(placed[a]),
         \A i \in DOMAIN bins : Plus(free[i], Load(On(placed, i))) = bins[i].free,
         \A a \in bound, i \in DOMAIN bins : bins[i].manager => Tally(placed[a], {i}) = 0
  PROVE  [free |-> free, granted |-> granted, placed |-> placed, out |-> out]
           \in Stands(bound, bins)
BY BinTypes DEF Stands

\* A replica granted on a bin that takes it stands there.
LEMMA Granting ==
  ASSUME cost \in [Named -> Res], NEW bins, Distinct(bins), NEW bound \in SUBSET Named,
         NEW d \in Stands(bound, bins), NEW a \in Named,
         NEW i \in Taking(a, bound, bins, d.free), NEW e,
         e = [d EXCEPT !.free[i] = Minus(@, cost[a]), !.granted[a] = @ + 1,
                       !.placed[a] = Append(@, i)]
  PROVE  e \in Stands(bound, bins)
<1> DEFINE free == [d.free EXCEPT ![i] = Minus(@, cost[a])]
           granted == [d.granted EXCEPT ![a] = @ + 1]
           placed == Another(d.placed, a, i)
<1>1. /\ d.free \in [DOMAIN bins -> Res] /\ d.granted \in [Named -> Nat]
      /\ d.placed \in [Named -> Seq(1..Len(bins))] /\ d.out \in SUBSET Named
      /\ d = [free |-> d.free, granted |-> d.granted, placed |-> d.placed, out |-> d.out]
  BY StandsType
<1>2. /\ \A b \in Named : d.granted[b] = Len(d.placed[b])
      /\ \A j \in DOMAIN bins : Plus(d.free[j], Load(On(d.placed, j))) = bins[j].free
      /\ \A b \in bound : \A j \in DOMAIN bins :
            bins[j].manager => Tally(d.placed[b], {j}) = 0
  <2>1. \A b \in Named : d.granted[b] = Len(d.placed[b])
    BY StandsFacts
  <2>2. \A j \in DOMAIN bins : Plus(d.free[j], Load(On(d.placed, j))) = bins[j].free
    BY StandsFacts
  <2>3. \A b \in bound : \A j \in DOMAIN bins :
            bins[j].manager => Tally(d.placed[b], {j}) = 0
    BY DEF Stands
  <2>4. QED
    BY <2>1, <2>2, <2>3
<1>3. i \in 1..Len(bins) /\ i \in DOMAIN bins /\ DOMAIN bins = 1..Len(bins) /\ Len(bins) \in Nat
  BY BinTypes DEF Taking
<1>4. ~(a \in bound /\ bins[i].manager) /\ FitsIn(cost[a], d.free[i])
  BY DEF Taking
<1>5. Minus(d.free[i], cost[a]) \in Res /\ Plus(Minus(d.free[i], cost[a]), cost[a]) = d.free[i]
  BY <1>1, <1>3, <1>4, MinusPlus
<1>6. free \in [DOMAIN bins -> Res] /\ granted \in [Named -> Nat]
  <2>1. free \in [DOMAIN bins -> Res]
    BY <1>1, <1>5
  <2>2. granted \in [Named -> Nat]
    BY <1>1
  <2>3. QED
    BY <2>1, <2>2
<1>7. placed \in [Named -> Seq(1..Len(bins))] /\ \A b \in Named : granted[b] = Len(placed[b])
  BY <1>1, <1>2, <1>3 DEF Another
<1>8. ASSUME NEW j \in DOMAIN bins
      PROVE  Plus(free[j], Load(On(placed, j))) = bins[j].free
  <2>1. On(d.placed, j) \in [Named -> Nat]
    BY <1>1, <1>3, OnType
  <2>2. CASE j = i
    <3>1. On(placed, j) = OneMore(On(d.placed, j), a)
      BY <2>2, <1>1, <1>3, OnMore DEF Places
    <3>2. Load(On(placed, j)) = Plus(Load(On(d.placed, j)), cost[a])
      BY <3>1, <2>1, LoadMore
    <3>3. free[j] = Minus(d.free[i], cost[a])
      BY <2>2, <1>1
    <3>4. Load(On(d.placed, j)) \in Res /\ cost[a] \in Res
      BY <2>1, LoadType
    <3>5. Plus(free[j], Load(On(placed, j)))
            = Plus(Plus(free[j], cost[a]), Load(On(d.placed, j)))
      BY <3>2, <3>3, <3>4, <1>5, PlusSwap
    <3>6. QED
      BY <3>3, <3>5, <1>2, <1>5, <2>2
  <2>3. CASE j # i
    <3>1. On(placed, j) = On(d.placed, j)
      <4>1. On(placed, j) = IF i = j THEN OneMore(On(d.placed, j), a) ELSE On(d.placed, j)
        <5> DEFINE p == d.placed
                   n == Len(bins)
        <5>1. p \in Places(n) /\ j \in 1..n /\ i \in 1..n /\ n \in Nat
          BY <1>1, <1>3 DEF Places
        <5> HIDE DEF p, n
        <5>2. On(Another(p, a, i), j) = IF i = j THEN OneMore(On(p, j), a) ELSE On(p, j)
          BY <5>1, OnMore
        <5>3. QED
          BY <5>2 DEF p
      <4>2. QED
        BY <4>1, <2>3
    <3>2. free[j] = d.free[j]
      BY <2>3, <1>1
    <3>3. QED
      BY <3>1, <3>2, <1>2
  <2>4. QED
    BY <2>2, <2>3
<1>9. ASSUME NEW b \in bound, NEW j \in DOMAIN bins, bins[j].manager
      PROVE  Tally(placed[b], {j}) = 0
  <2>1. CASE b = a
    <3>1. i # j /\ i \notin {j}
      BY <1>4, <1>9, <2>1
    <3>2. placed[b] = Append(d.placed[a], i)
      BY <2>1, <1>1 DEF Another
    <3>3. d.placed[a] \in Seq(1..Len(bins))
      BY <1>1
    <3>4. Tally(placed[b], {j}) = Tally(d.placed[a], {j})
      BY <3>1, <3>2, <3>3, <1>3, TallyMore
    <3>5. QED
      BY <3>4, <2>1, <1>2, <1>9
  <2>2. CASE b # a
    BY <2>2, <1>1, <1>2, <1>9 DEF Another
  <2>3. QED
    BY <2>1, <2>2
<1>10. e = [free |-> free, granted |-> granted, placed |-> placed, out |-> d.out]
  BY <1>1 DEF Another
<1>11. [free |-> free, granted |-> granted, placed |-> placed, out |-> d.out]
         \in Stands(bound, bins)
  <2> HIDE DEF free, granted, placed
  <2> QED
    BY <1>1, <1>6, <1>7, <1>8, <1>9, StandsIs
<1>12. QED
  BY <1>10, <1>11

\* Giving keeps what is granted standing.
LEMMA GiveStands ==
  ASSUME cost \in [Named -> Res], NEW bins, Distinct(bins), NEW bound \in SUBSET Named,
         NEW d \in Stands(bound, bins), NEW a \in Named, NEW goal
  PROVE  Give(d, a, goal, bound, bins) \in Stands(bound, bins)
<1> DEFINE i == FirstFit(a, bound, bins, d.free)
<1>1. [d EXCEPT !.out = @ \cup {a}] \in Stands(bound, bins)
  BY DEF Stands
<1>2. i # 0 => i \in Taking(a, bound, bins, d.free)
  BY FirstFitIs
<1>3. i # 0 => [d EXCEPT !.free[i] = Minus(@, cost[a]), !.granted[a] = @ + 1,
                         !.placed[a] = Append(@, i)] \in Stands(bound, bins)
  BY <1>2, Granting
<1>4. QED
  BY <1>1, <1>3 DEF Give

\* A sequence is its front and its last.
LEMMA FrontLast ==
  ASSUME NEW S, NEW s \in Seq(S), Len(s) # 0
  PROVE  /\ Front(s) \in Seq(S) /\ Last(s) \in S
         /\ s = Append(Front(s), Last(s)) /\ Len(Front(s)) = Len(s) - 1
<1>1. Len(s) \in Nat /\ Len(s) >= 1 /\ DOMAIN s = 1..Len(s) /\ \A k \in 1..Len(s) : s[k] \in S
  OBVIOUS
<1>2. Front(s) = [k \in 1..(Len(s) - 1) |-> s[k]]
  BY <1>1 DEF Front
<1>3. Front(s) \in Seq(S) /\ Len(Front(s)) = Len(s) - 1
  BY <1>1, <1>2
<1>4. Last(s) = s[Len(s)] /\ Last(s) \in S
  BY <1>1 DEF Last
<1> DEFINE f == Front(s)
           l == Last(s)
<1> HIDE DEF f, l
<1>5. Append(f, l) \in Seq(S) /\ Len(Append(f, l)) = Len(s)
  <2>1. f \in Seq(S) /\ Len(f) = Len(s) - 1 /\ l \in S
    BY <1>3, <1>4 DEF f, l
  <2>2. QED
    BY <2>1, <1>1
<1>6. ASSUME NEW k \in 1..Len(s) PROVE Append(f, l)[k] = s[k]
  <2>1. f \in Seq(S) /\ Len(f) = Len(s) - 1 /\ l \in S /\ l = s[Len(s)]
    BY <1>3, <1>4 DEF f, l
  <2>2. \A j \in 1..(Len(s) - 1) : f[j] = s[j]
    BY <1>2 DEF f
  <2>3. CASE k = Len(s)
    BY <2>1, <2>3, <1>1
  <2>4. CASE k # Len(s)
    <3>1. \A n \in Nat : \A m \in 1..n : m # n => m \in 1..(n - 1)
      OBVIOUS
    <3>2. k \in 1..(Len(s) - 1)
      BY <2>4, <1>1, <3>1
    <3>3. QED
      BY <3>2, <2>1, <2>2, <1>1
  <2>5. QED
    BY <2>3, <2>4
<1>7. QED
  <2>1. Append(f, l) = s
    BY <1>5, <1>6, SeqEqual
  <2>2. QED
    BY <2>1, <1>3, <1>4 DEF f, l

\* So does yielding, which makes room for the replica it takes.
LEMMA YieldStands ==
  ASSUME cost \in [Named -> Res], NEW bins, Distinct(bins), NEW bound \in SUBSET Named,
         NEW d \in Stands(bound, bins), NEW a \in Named
  PROVE  /\ Yield(d, a, bound, bins) \in Stands(bound, bins)
         /\ \A b \in Named : Yield(d, a, bound, bins).granted[b] <= d.granted[b]
         /\ \A b \in Named : Taking(b, bound, bins, d.free)
                               \subseteq Taking(b, bound, bins, Yield(d, a, bound, bins).free)
         /\ \/ Yield(d, a, bound, bins).granted[a] <= Least[a]
            \/ Taking(a, bound, bins, Yield(d, a, bound, bins).free) # {}
<1> DEFINE e == Yield(d, a, bound, bins)
<1>1. /\ d.free \in [DOMAIN bins -> Res] /\ d.granted \in [Named -> Nat]
      /\ d.placed \in [Named -> Seq(1..Len(bins))] /\ d.out \in SUBSET Named
      /\ d = [free |-> d.free, granted |-> d.granted, placed |-> d.placed, out |-> d.out]
  BY StandsType
<1>2. /\ \A b \in Named : d.granted[b] = Len(d.placed[b])
      /\ \A j \in DOMAIN bins : Plus(d.free[j], Load(On(d.placed, j))) = bins[j].free
      /\ \A b \in bound : \A j \in DOMAIN bins :
            bins[j].manager => Tally(d.placed[b], {j}) = 0
  <2>1. \A b \in Named : d.granted[b] = Len(d.placed[b])
    BY StandsFacts
  <2>2. \A j \in DOMAIN bins : Plus(d.free[j], Load(On(d.placed, j))) = bins[j].free
    BY StandsFacts
  <2>3. \A b \in bound : \A j \in DOMAIN bins :
            bins[j].manager => Tally(d.placed[b], {j}) = 0
    BY DEF Stands
  <2>4. QED
    BY <2>1, <2>2, <2>3
<1>3. CASE d.granted[a] <= Least[a]
  <2>1. e = d
    BY <1>3 DEF Yield
  <2>2. QED
    BY <2>1, <1>1, <1>3
<1>4. CASE FirstFit(a, bound, bins, d.free) # 0
  <2>1. e = d
    BY <1>4 DEF Yield
  <2>2. Taking(a, bound, bins, d.free) # {}
    BY <1>4, FirstFitIs
  <2>3. QED
    BY <2>1, <2>2, <1>1
<1>5. CASE d.granted[a] > Least[a] /\ FirstFit(a, bound, bins, d.free) = 0
  <2> DEFINE s == d.placed[a]
             i == Last(s)
             free == [d.free EXCEPT ![i] = Plus(@, cost[a])]
             granted == [d.granted EXCEPT ![a] = @ - 1]
             placed == [d.placed EXCEPT ![a] = Front(s)]
  <2>1. Least[a] \in Nat /\ d.granted[a] \in Nat /\ cost[a] \in Res
    BY <1>1, PackerConstants DEF PackerConstants
  <2>2. ~(d.granted[a] <= Least[a])
    BY <2>1, <1>5
  <2>3. e = [free |-> free, granted |-> granted, placed |-> placed, out |-> d.out]
    BY <1>1, <1>5, <2>2 DEF Yield
  <2>4. s \in Seq(1..Len(bins)) /\ Len(s) \in Nat /\ Len(s) # 0 /\ d.granted[a] = Len(s)
    BY <1>1, <1>2, <2>1, <2>2
  <2>5. /\ Front(s) \in Seq(1..Len(bins)) /\ i \in 1..Len(bins)
        /\ s = Append(Front(s), i) /\ Len(Front(s)) = Len(s) - 1
    BY <2>4, FrontLast
  <2>6. /\ DOMAIN bins = 1..Len(bins) /\ Len(bins) \in Nat
    BY BinTypes
  <2> HIDE DEF i, s
  <2>7. free \in [DOMAIN bins -> Res] /\ granted \in [Named -> Nat]
        /\ free[i] = Plus(d.free[i], cost[a])
    <3>1. Plus(d.free[i], cost[a]) \in Res
      BY <1>1, <2>1, <2>5, <2>6, PlusType
    <3>2. d.granted[a] - 1 \in Nat
      BY <2>4
    <3>3. QED
      BY <1>1, <2>5, <2>6, <3>1, <3>2
  <2>8. /\ placed \in [Named -> Seq(1..Len(bins))]
        /\ d.placed = Another(placed, a, i)
        /\ \A b \in Named : granted[b] = Len(placed[b])
    BY <1>1, <1>2, <2>4, <2>5 DEF s, Another
  <2>9. ASSUME NEW j \in DOMAIN bins
        PROVE  Plus(free[j], Load(On(placed, j))) = bins[j].free
    <3>0. On(d.placed, j) = IF i = j THEN OneMore(On(placed, j), a) ELSE On(placed, j)
      <4> DEFINE p == placed
                 n == Len(bins)
      <4>1. p \in Places(n) /\ j \in 1..n /\ i \in 1..n /\ n \in Nat
        BY <2>5, <2>6, <2>8 DEF Places
      <4>2. d.placed = Another(p, a, i)
        BY <2>8
      <4> HIDE DEF p, n
      <4>3. On(Another(p, a, i), j) = IF i = j THEN OneMore(On(p, j), a) ELSE On(p, j)
        BY <4>1, OnMore
      <4>4. QED
        BY <4>2, <4>3 DEF p
    <3>1. On(placed, j) \in [Named -> Nat]
      BY <2>6, <2>8, OnType
    <3>2. Load(On(placed, j)) \in Res /\ d.free[j] \in Res
      BY <1>1, <3>1, LoadType
    <3>3. CASE j = i
      <4>1. On(d.placed, j) = OneMore(On(placed, j), a)
        BY <3>3, <3>0
      <4>2. Load(On(d.placed, j)) = Plus(Load(On(placed, j)), cost[a])
        BY <4>1, <3>1, LoadMore
      <4>3. Plus(free[j], Load(On(placed, j)))
              = Plus(d.free[j], Plus(Load(On(placed, j)), cost[a]))
        <5>1. Plus(Plus(d.free[j], cost[a]), Load(On(placed, j)))
                = Plus(d.free[j], Plus(Load(On(placed, j)), cost[a]))
          BY <3>2, <2>1, PlusSwap
        <5>2. QED
          BY <5>1, <2>7, <3>3
      <4>4. QED
        BY <4>2, <4>3, <1>2
    <3>4. CASE j # i
      <4>1. On(d.placed, j) = On(placed, j)
        BY <3>4, <3>0
      <4>2. free[j] = d.free[j]
        BY <3>4, <1>1
      <4>3. QED
        BY <4>1, <4>2, <1>2
    <3>5. QED
      BY <3>3, <3>4
  <2>10. ASSUME NEW b \in bound, NEW j \in DOMAIN bins, bins[j].manager
         PROVE  Tally(placed[b], {j}) = 0 /\ (b = a => j # i)
    <3>1. CASE b = a
      <4>1. placed[b] = Front(s) /\ d.placed[b] = Append(Front(s), i)
        BY <3>1, <2>5, <1>1 DEF s
      <4>2. Tally(Append(Front(s), i), {j}) = 0
        BY <4>1, <1>2, <2>10
      <4>3. Tally(Append(Front(s), i), {j}) =
              IF i \in {j} THEN Tally(Front(s), {j}) + 1 ELSE Tally(Front(s), {j})
        BY <2>5, <2>6, TallyMore
      <4>4. Tally(Front(s), {j}) \in Nat
        BY <2>5, <2>6, TallyType
      <4>5. QED
        BY <4>1, <4>2, <4>3, <4>4
    <3>2. CASE b # a
      BY <3>2, <1>1, <1>2, <2>10
    <3>3. QED
      BY <3>1, <3>2
  <2>11. e \in Stands(bound, bins)
    <3> HIDE DEF e, free, granted, placed
    <3>1. \A b \in bound, j \in DOMAIN bins : bins[j].manager => Tally(placed[b], {j}) = 0
      BY <2>10
    <3>2. [free |-> free, granted |-> granted, placed |-> placed, out |-> d.out]
            \in Stands(bound, bins)
      BY <1>1, <2>7, <2>8, <2>9, <3>1, StandsIs
    <3>3. QED
      BY <2>3, <3>2
  <2>12. \A b \in Named : e.granted[b] <= d.granted[b]
    BY <2>3, <1>1
  <2>13. ASSUME NEW b \in Named
         PROVE  Taking(b, bound, bins, d.free) \subseteq Taking(b, bound, bins, e.free)
    <3>1. ASSUME NEW j \in DOMAIN bins, FitsIn(cost[b], d.free[j])
          PROVE  FitsIn(cost[b], free[j])
      <4>1. d.free[j] \in Res /\ cost[b] \in Res /\ cost[a] \in Res
        BY <1>1
      <4>2. FitsIn(cost[b], Plus(d.free[j], cost[a]))
        BY <4>1, <3>1 DEF FitsIn, Plus, Res
      <4>3. QED
        BY <4>2, <3>1, <1>1
    <3>2. QED
      BY <3>1, <2>3 DEF Taking
  <2>14. i \in Taking(a, bound, bins, e.free)
    <3>1. FitsIn(cost[a], free[i])
      <4>1. d.free[i] \in Res /\ cost[a] \in Res
        BY <1>1, <2>5, <2>6
      <4>2. FitsIn(cost[a], Plus(d.free[i], cost[a]))
        BY <4>1 DEF FitsIn, Plus, Res
      <4>3. QED
        BY <4>2, <2>7
    <3>2. ~(a \in bound /\ bins[i].manager)
      BY <2>5, <2>6, <2>10
    <3>3. QED
      BY <3>1, <3>2, <2>3, <2>5, <2>6 DEF Taking
  <2>15. QED
    BY <2>11, <2>12, <2>13, <2>14
<1>6. QED
  <2>1. Least[a] \in Nat /\ d.granted[a] \in Nat
    BY <1>1, PackerConstants DEF PackerConstants
  <2>2. QED
    BY <1>3, <1>4, <1>5, <2>1

\* A round of giving, and the rounds.
LEMMA RoundStands ==
  ASSUME cost \in [Named -> Res], NEW bins, Distinct(bins), NEW bound \in SUBSET Named,
         NEW d \in Stands(bound, bins), NEW goal
  PROVE  Round(d, goal, bound, bins) \in Stands(bound, bins)
<1> DEFINE n == Len(Apps)
           S == Stands(bound, bins)
           Op(r, k) == Give(r, Apps[k], goal, bound, bins)
           F == [k \in 1..n |-> [r \in S |-> Op(r, k)]]
           E(it) == it = [s \in SUBSET DOMAIN Apps |->
                            IF s = {} THEN d ELSE Op(it[s \ {Max(s)}], Max(s))]
           it == CHOOSE it : E(it)
<1>1. Round(d, goal, bound, bins) = it[DOMAIN Apps]
  BY DEF Round, FoldLeft, MapThenFoldSet
<1>2. n \in Nat /\ DOMAIN Apps = 1..n
  BY AppsIndexed
<1>3. d \in S
  OBVIOUS
<1>4. ASSUME NEW k \in 1..n, NEW r \in S
      PROVE  Op(r, k) \in S
  BY AppsIndexed, GiveStands
<1> HIDE DEF n, Op, S
<1>5. F \in [1..n -> [S -> S]] /\ \A k \in 1..n, r \in S : F[k][r] = Op(r, k)
  BY <1>4
<1> HIDE DEF F
<1>6. \A s \in SUBSET (1..n) : s # {} => Max(s) \in 1..n
  BY <1>2, MaxIndex
<1>7. \E f : E(f)
  <2>1. PICK f \in [SUBSET (1..n) -> S] : Folds(f, n, d, F)
    BY <1>2, <1>3, <1>5, FoldMade
  <2>2. ASSUME NEW s \in SUBSET (1..n), s # {}
        PROVE  F[Max(s)][f[s \ {Max(s)}]] = Op(f[s \ {Max(s)}], Max(s))
    <3>1. s \ {Max(s)} \in SUBSET (1..n)
      OBVIOUS
    <3>2. QED
      BY <3>1, <2>2, <1>5, <1>6
  <2>3. E(f)
    BY <2>1, <2>2, <1>2 DEF Folds
  <2>4. QED
    BY <2>3
<1>8. E(it)
  <2> HIDE DEF E
  <2> QED
    BY <1>7
<1> HIDE DEF it
<1>9. it[{}] = d
  BY <1>8
<1>10. ASSUME NEW s \in SUBSET (1..n), s # {}, it[s \ {Max(s)}] \in S
       PROVE  it[s] = F[Max(s)][it[s \ {Max(s)}]]
  <2>1. it[s] = Op(it[s \ {Max(s)}], Max(s))
    BY <1>8, <1>10, <1>2
  <2>2. QED
    BY <2>1, <1>5, <1>6, <1>10
<1> HIDE DEF E
<1>11. PICK h \in [0..n -> S] : h[n] = it[1..n] /\ Passes(h, n, d, F)
  <2>1. Inside(it, n, S, d, F)
    BY <1>9, <1>10 DEF Inside
  <2>2. QED
    BY <1>2, <1>3, <1>5, <2>1, FoldSteps
<1>12. h[n] \in S
  BY <1>2
<1>13. QED
  BY <1>1, <1>2, <1>11, <1>12 DEF S

\* Rounds keep what is granted standing.
LEMMA RoundsStands ==
  ASSUME cost \in [Named -> Res], NEW bins, Distinct(bins), NEW bound \in SUBSET Named,
         NEW d \in Stands(bound, bins), NEW goal \in [Named -> Nat]
  PROVE  Rounds(d, goal, bound, bins) \in Stands(bound, bins)
<1> DEFINE n == Max({goal[a] : a \in Named} \cup {0}) + 1
           ks == [k \in 1..n |-> k]
           start == [d EXCEPT !.out = {}]
           S == Stands(bound, bins)
           Op(r, k) == Round(r, goal, bound, bins)
           F == [k \in 1..n |-> [r \in S |-> Op(r, k)]]
           E(it) == it = [s \in SUBSET DOMAIN ks |->
                            IF s = {} THEN start ELSE Op(it[s \ {Max(s)}], ks[Max(s)])]
           it == CHOOSE it : E(it)
<1>1. Rounds(d, goal, bound, bins) = it[DOMAIN ks]
  BY DEF Rounds, FoldLeft, MapThenFoldSet
<1>2. n \in Nat /\ DOMAIN ks = 1..n
  <2>1. PICK m \in Nat : \A a \in Named : goal[a] <= m
    BY CountsBounded
  <2>2. {goal[a] : a \in Named} \cup {0} \in SUBSET (0..m)
    BY <2>1
  <2>3. Max({goal[a] : a \in Named} \cup {0}) \in {goal[a] : a \in Named} \cup {0}
    BY <2>2, MaxIsMaximum
  <2>4. QED
    BY <2>3
<1>3. start \in S
  BY DEF Stands
<1>4. ASSUME NEW k \in 1..n, NEW r \in S
      PROVE  Op(r, k) \in S
  BY RoundStands
<1> HIDE DEF n, Op, S, start
<1>5. F \in [1..n -> [S -> S]] /\ \A k \in 1..n, r \in S : F[k][r] = Op(r, k)
  BY <1>4
<1> HIDE DEF F
<1>6. \A s \in SUBSET (1..n) : s # {} => Max(s) \in 1..n /\ ks[Max(s)] = Max(s)
  BY <1>2, MaxIndex
<1> HIDE DEF ks
<1>7. \E f : E(f)
  <2>1. PICK f \in [SUBSET (1..n) -> S] : Folds(f, n, start, F)
    BY <1>2, <1>3, <1>5, FoldMade
  <2>2. ASSUME NEW s \in SUBSET (1..n), s # {}
        PROVE  F[Max(s)][f[s \ {Max(s)}]] = Op(f[s \ {Max(s)}], ks[Max(s)])
    <3>1. s \ {Max(s)} \in SUBSET (1..n)
      OBVIOUS
    <3>2. QED
      BY <3>1, <2>2, <1>5, <1>6
  <2>3. E(f)
    BY <2>1, <2>2, <1>2 DEF Folds
  <2>4. QED
    BY <2>3
<1>8. E(it)
  <2> HIDE DEF E
  <2> QED
    BY <1>7
<1> HIDE DEF it
<1>9. it[{}] = start
  BY <1>8
<1>10. ASSUME NEW s \in SUBSET (1..n), s # {}, it[s \ {Max(s)}] \in S
       PROVE  it[s] = F[Max(s)][it[s \ {Max(s)}]]
  <2>1. it[s] = Op(it[s \ {Max(s)}], ks[Max(s)])
    BY <1>8, <1>10, <1>2
  <2>2. QED
    BY <2>1, <1>5, <1>6, <1>10
<1> HIDE DEF E
<1>11. PICK h \in [0..n -> S] : h[n] = it[1..n] /\ Passes(h, n, start, F)
  <2>1. Inside(it, n, S, start, F)
    BY <1>9, <1>10 DEF Inside
  <2>2. QED
    BY <1>2, <1>3, <1>5, <2>1, FoldSteps
<1>12. h[n] \in S
  BY <1>2
<1>13. QED
  BY <1>1, <1>2, <1>11, <1>12 DEF S

\* Nothing is granted at the start.
LEMMA StandsStart ==
  ASSUME cost \in [Named -> Res], NEW bins, Distinct(bins), NEW bound \in SUBSET Named
  PROVE  [free |-> Room(bins), granted |-> [a \in Named |-> 0],
          placed |-> [a \in Named |-> << >>], out |-> {}] \in Stands(bound, bins)
<1> DEFINE free == Room(bins)
           granted == [a \in Named |-> 0]
           placed == [a \in Named |-> << >>]
           out == {}
           start == [free |-> free, granted |-> granted, placed |-> placed, out |-> out]
<1>1. free \in [DOMAIN bins -> Res] /\ granted \in [Named -> Nat] /\ out \in SUBSET Named
      /\ \A i \in DOMAIN bins : free[i] = bins[i].free
  BY BinTypes DEF Room
<1>2. placed \in [Named -> Seq(1..Len(bins))] /\ \A a \in Named : granted[a] = Len(placed[a])
  OBVIOUS
<1>3. ASSUME NEW a \in Named, NEW i PROVE Tally(placed[a], {i}) = 0
  <2>1. {k \in DOMAIN placed[a] : placed[a][k] \in {i}} = {}
    OBVIOUS
  <2>2. QED
    BY <2>1, FS_EmptySet DEF Tally
<1>4. ASSUME NEW i \in DOMAIN bins
      PROVE  Plus(free[i], Load(On(placed, i))) = bins[i].free
  <2>1. On(placed, i) = [a \in Named |-> 0]
    BY <1>3 DEF On
  <2>2. Load(On(placed, i)) = Nothing
    BY <2>1, LoadNone
  <2>3. Plus(bins[i].free, Nothing) = bins[i].free
    <3>1. bins[i].free \in Res
      BY BinTypes
    <3>2. QED
      BY <3>1 DEF Plus, Nothing, Res
  <2>4. QED
    BY <2>2, <2>3, <1>1
<1>5. \A a \in bound, i \in DOMAIN bins : bins[i].manager => Tally(placed[a], {i}) = 0
  BY <1>3
<1>6. start \in Stands(bound, bins)
  <2> HIDE DEF free, granted, placed, out
  <2> QED
    BY <1>1, <1>2, <1>4, <1>5, StandsIs
<1>7. QED
  BY <1>6

\* Minimums and growth from nothing.
LEMMA FilledStands ==
  ASSUME cost \in [Named -> Res], NEW bins, Distinct(bins), NEW bound \in SUBSET Named,
         NEW wants \in [Named -> Nat]
  PROVE  Filled(wants, bound, bins) \in Stands(bound, bins)
<1> DEFINE start == [free |-> Room(bins), granted |-> [a \in Named |-> 0],
                     placed |-> [a \in Named |-> << >>], out |-> {}]
           most == [a \in Named |-> Larger(wants[a], Least[a])]
<1>1. start \in Stands(bound, bins)
  BY StandsStart
<1>2. Least \in [Named -> Nat] /\ most \in [Named -> Nat]
  BY PackerConstants DEF PackerConstants, Larger
<1>3. Filled(wants, bound, bins) =
        Rounds(Rounds(start, Least, bound, bins), most, bound, bins)
  BY DEF Filled
<1> HIDE DEF start, most
<1>4. QED
  BY <1>1, <1>2, <1>3, RoundsStands

\* The slot, one application after the other.
LEMMA SlottedSteps ==
  ASSUME cost \in [Named -> Res], NEW bins, Distinct(bins), NEW bound \in SUBSET Named,
         NEW d \in Stands(bound, bins)
  PROVE  \E h \in [0..Len(Apps) -> Stands(bound, bins)] :
           /\ h[0] = d /\ h[Len(Apps)] = Slotted(d, bound, bins)
           /\ \A k \in 1..Len(Apps) : h[k] = Yield(h[k - 1], Apps[k], bound, bins)
<1> DEFINE n == Len(Apps)
           S == Stands(bound, bins)
           Op(r, k) == Yield(r, Apps[k], bound, bins)
           F == [k \in 1..n |-> [r \in S |-> Op(r, k)]]
           E(it) == it = [s \in SUBSET DOMAIN Apps |->
                            IF s = {} THEN d ELSE Op(it[s \ {Max(s)}], Max(s))]
           it == CHOOSE it : E(it)
<1>1. Slotted(d, bound, bins) = it[DOMAIN Apps]
  BY DEF Slotted, FoldLeft, MapThenFoldSet
<1>2. n \in Nat /\ DOMAIN Apps = 1..n
  BY AppsIndexed
<1>3. d \in S
  OBVIOUS
<1>4. ASSUME NEW k \in 1..n, NEW r \in S
      PROVE  Op(r, k) \in S
  BY AppsIndexed, YieldStands
<1> HIDE DEF n, Op, S
<1>5. F \in [1..n -> [S -> S]] /\ \A k \in 1..n, r \in S : F[k][r] = Op(r, k)
  BY <1>4
<1> HIDE DEF F
<1>6. \A s \in SUBSET (1..n) : s # {} => Max(s) \in 1..n
  BY <1>2, MaxIndex
<1>7. \E f : E(f)
  <2>1. PICK f \in [SUBSET (1..n) -> S] : Folds(f, n, d, F)
    BY <1>2, <1>3, <1>5, FoldMade
  <2>2. ASSUME NEW s \in SUBSET (1..n), s # {}
        PROVE  F[Max(s)][f[s \ {Max(s)}]] = Op(f[s \ {Max(s)}], Max(s))
    <3>1. s \ {Max(s)} \in SUBSET (1..n)
      OBVIOUS
    <3>2. QED
      BY <3>1, <2>2, <1>5, <1>6
  <2>3. E(f)
    BY <2>1, <2>2, <1>2 DEF Folds
  <2>4. QED
    BY <2>3
<1>8. E(it)
  <2> HIDE DEF E
  <2> QED
    BY <1>7
<1> HIDE DEF it
<1>9. it[{}] = d
  BY <1>8
<1>10. ASSUME NEW s \in SUBSET (1..n), s # {}, it[s \ {Max(s)}] \in S
       PROVE  it[s] = F[Max(s)][it[s \ {Max(s)}]]
  <2>1. it[s] = Op(it[s \ {Max(s)}], Max(s))
    BY <1>8, <1>10, <1>2
  <2>2. QED
    BY <2>1, <1>5, <1>6, <1>10
<1> HIDE DEF E
<1>11. PICK h \in [0..n -> S] : h[n] = it[1..n] /\ Passes(h, n, d, F)
  <2>1. Inside(it, n, S, d, F)
    BY <1>9, <1>10 DEF Inside
  <2>2. QED
    BY <1>2, <1>3, <1>5, <2>1, FoldSteps
<1>12. h[0] = d /\ \A k \in 1..n : h[k] = Op(h[k - 1], k)
  <2>1. \A k \in 1..n : h[k - 1] \in S
    BY <1>2
  <2>2. QED
    BY <1>11, <1>5, <2>1 DEF Passes
<1>13. QED
  BY <1>1, <1>2, <1>11, <1>12 DEF Op, n, S

\* Whoever has more than its minimum after the slot finds room for one more.
LEMMA SlottedRolls ==
  ASSUME cost \in [Named -> Res], NEW bins, Distinct(bins), NEW bound \in SUBSET Named,
         NEW d \in Stands(bound, bins)
  PROVE  /\ Slotted(d, bound, bins) \in Stands(bound, bins)
         /\ \A a \in Named : \/ Slotted(d, bound, bins).granted[a] <= Least[a]
                             \/ Taking(a, bound, bins, Slotted(d, bound, bins).free) # {}
<1> DEFINE n == Len(Apps)
<1>1. PICK h \in [0..n -> Stands(bound, bins)] :
           /\ h[0] = d /\ h[n] = Slotted(d, bound, bins)
           /\ \A k \in 1..n : h[k] = Yield(h[k - 1], Apps[k], bound, bins)
  BY SlottedSteps
<1> DEFINE Rolls(e, a) == e.granted[a] <= Least[a] \/ Taking(a, bound, bins, e.free) # {}
           P == {k \in 0..n : \A j \in 1..k : Rolls(h[k], Apps[j])}
<1>2. n \in Nat /\ n \in 0..n /\ 0 \in 0..n
  BY AppsIndexed
<1>3. 0 \in P
  <2>1. \A j \in 1..0 : Rolls(h[0], Apps[j])
    OBVIOUS
  <2> HIDE DEF Rolls
  <2>2. QED
    BY <1>2, <2>1
<1>4. ASSUME NEW k \in 1..n, k - 1 \in P PROVE k \in P
  <2>1. k \in 0..n /\ k - 1 \in 0..n /\ Apps[k] \in Named
    BY <1>2, AppsIndexed
  <2>2. h[k - 1] \in Stands(bound, bins) /\ h[k] = Yield(h[k - 1], Apps[k], bound, bins)
    BY <2>1, <1>1
  <2>3. /\ \A b \in Named : h[k].granted[b] <= h[k - 1].granted[b]
        /\ \A b \in Named : Taking(b, bound, bins, h[k - 1].free)
                              \subseteq Taking(b, bound, bins, h[k].free)
        /\ Rolls(h[k], Apps[k])
    BY <2>1, <2>2, YieldStands
  <2>4. ASSUME NEW j \in 1..(k - 1) PROVE Rolls(h[k], Apps[j])
    <3>1. Apps[j] \in Named /\ Rolls(h[k - 1], Apps[j])
      BY <1>4, AppsIndexed
    <3>2. CASE h[k - 1].granted[Apps[j]] <= Least[Apps[j]]
      <4>1. h[k].granted[Apps[j]] <= h[k - 1].granted[Apps[j]]
        BY <2>3, <3>1
      <4>2. /\ h[k].granted[Apps[j]] \in Nat /\ h[k - 1].granted[Apps[j]] \in Nat
            /\ Least[Apps[j]] \in Nat
        <5>1. h[k].granted \in [Named -> Nat] /\ h[k - 1].granted \in [Named -> Nat]
          BY <2>1, StandsType
        <5>2. Least \in [Named -> Nat]
          BY PackerConstants DEF PackerConstants
        <5>3. QED
          BY <5>1, <5>2, <3>1
      <4>3. QED
        BY <4>1, <4>2, <3>2
    <3>3. CASE Taking(Apps[j], bound, bins, h[k - 1].free) # {}
      BY <2>3, <3>1, <3>3
    <3>4. QED
      BY <3>1, <3>2, <3>3
  <2>5. \A j \in 1..k : j \in 1..(k - 1) \/ j = k
    OBVIOUS
  <2> HIDE DEF Rolls
  <2>6. QED
    BY <2>1, <2>3, <2>4, <2>5
<1>5. n \in P
  <2> HIDE DEF P
  <2> QED
    BY <1>2, <1>3, <1>4, Climb
<1>6. \A j \in 1..n : Rolls(h[n], Apps[j])
  <2> HIDE DEF Rolls
  <2> QED
    BY <1>5
<1>7. \A a \in Named : Rolls(h[n], a)
  BY <1>6, AppsIndexed
<1>8. QED
  BY <1>1, <1>2, <1>7

\* A number of replicas reserves no more than a greater number.
LEMMA ShareLess ==
  ASSUME NEW m \in Nat, NEW n \in Nat, m <= n, NEW r \in Res
  PROVE  FitsIn(Share(m, r), Share(n, r))
<1>1. PICK k \in Nat : n = m + k
  <2>1. n - m \in Nat /\ n = m + (n - m)
    OBVIOUS
  <2>2. QED
    BY <2>1
<1>2. r.cpu \in Nat /\ r.mem \in Nat
  BY DEF Res
<1>3. \A u, v, w \in Nat : u * w <= (u + v) * w
  <2>1. ASSUME NEW u \in Nat, NEW v \in Nat, NEW w \in Nat
        PROVE  u * w <= (u + v) * w
    <3>1. (u + v) * w = u * w + v * w
      OBVIOUS
    <3>2. v * w \in Nat /\ u * w \in Nat
      OBVIOUS
    <3>3. QED
      BY <3>1, <3>2
  <2>2. QED
    BY <2>1
<1>4. m * r.cpu <= n * r.cpu /\ m * r.mem <= n * r.mem
  BY <1>1, <1>2, <1>3
<1>5. QED
  BY <1>4 DEF FitsIn, Share

\* What fits, with what fits, fits in the sum.
LEMMA FitsPlus ==
  ASSUME NEW p \in Res, NEW q \in Res, NEW r \in Res, NEW s \in Res,
         FitsIn(p, q), FitsIn(r, s)
  PROVE  FitsIn(Plus(p, r), Plus(q, s))
BY DEF FitsIn, Plus, Res

\* Fewer replicas are no greater a load.
LEMMA LoadLess ==
  ASSUME cost \in [Named -> Res], NEW x \in [Named -> Nat], NEW y \in [Named -> Nat],
         \A a \in Named : x[a] <= y[a]
  PROVE  FitsIn(Load(x), Load(y))
<1> DEFINE n == Len(Apps)
<1>1. PICK g \in [0..n -> Res] :
        /\ g[0] = Nothing /\ Load(x) = g[n]
        /\ \A k \in 1..n : g[k] = Plus(g[k - 1], Share(x[Apps[k]], cost[Apps[k]]))
  BY LoadSteps
<1>2. PICK h \in [0..n -> Res] :
        /\ h[0] = Nothing /\ Load(y) = h[n]
        /\ \A k \in 1..n : h[k] = Plus(h[k - 1], Share(y[Apps[k]], cost[Apps[k]]))
  BY LoadSteps
<1> DEFINE P == {k \in 0..n : FitsIn(g[k], h[k])}
<1>3. n \in Nat /\ \A k \in 1..n : Apps[k] \in Named
  BY AppsIndexed
<1> HIDE DEF n
<1>4. 0 \in P
  BY <1>1, <1>2, <1>3 DEF FitsIn, Nothing
<1>5. ASSUME NEW k \in 1..n, k - 1 \in P PROVE k \in P
  <2> DEFINE p == g[k - 1]
             q == h[k - 1]
             r == Share(x[Apps[k]], cost[Apps[k]])
             s == Share(y[Apps[k]], cost[Apps[k]])
  <2>1. g[k] = Plus(p, r) /\ h[k] = Plus(q, s)
    BY <1>1, <1>2
  <2>2. k \in 0..n /\ k - 1 \in 0..n
    BY <1>3
  <2>3. p \in Res /\ q \in Res /\ FitsIn(p, q)
    BY <1>1, <1>2, <1>5, <2>2
  <2>4. r \in Res /\ s \in Res /\ FitsIn(r, s)
    <3>1. Apps[k] \in Named
      BY <1>3
    <3>2. x[Apps[k]] \in Nat /\ y[Apps[k]] \in Nat /\ cost[Apps[k]] \in Res
          /\ x[Apps[k]] <= y[Apps[k]]
      BY <3>1
    <3>3. QED
      BY <3>2, ShareType, ShareLess
  <2> HIDE DEF p, q, r, s
  <2>5. FitsIn(Plus(p, r), Plus(q, s))
    BY <2>3, <2>4, FitsPlus
  <2>6. QED
    BY <2>1, <2>2, <2>5
<1>6. n \in P
  <2> HIDE DEF P
  <2>1. \A k \in 0..n : k \in P
    BY <1>3, <1>4, <1>5, Climb
  <2>2. QED
    BY <1>3, <2>1
<1>7. QED
  BY <1>1, <1>2, <1>6

\* What is reserved fits in itself and more.
LEMMA FitsMore ==
  ASSUME NEW p \in Res, NEW q \in Res
  PROVE  FitsIn(q, Plus(p, q)) /\ Plus(p, q) \in Res
  BY DEF FitsIn, Plus, Res

\* What fits in what fits, fits.
LEMMA FitsTrans ==
  ASSUME NEW p \in Res, NEW q \in Res, NEW r \in Res, FitsIn(p, q), FitsIn(q, r)
  PROVE  FitsIn(p, r)
BY DEF FitsIn, Res

\* What stands on the bins is held, and so is less of it.
LEMMA StandsHoldLess ==
  ASSUME cost \in [Named -> Res], NEW bins, Distinct(bins), NEW bound \in SUBSET Named,
         NEW d \in Stands(bound, bins), NEW c \in [Named -> Nat],
         \A a \in Named : c[a] <= d.granted[a]
  PROVE  Holds(c, bound, bins)
<1> DEFINE n == Len(bins)
           p == [k \in 0..n |-> [a \in Named |-> Smaller(Tally(d.placed[a], 1..k), c[a])]]
           x == [k \in 1..n |-> [a \in Named |-> p[k][a] - p[k - 1][a]]]
<1>1. n \in Nat /\ DOMAIN bins = 1..n
  BY BinTypes
<1>2. d.granted \in [Named -> Nat] /\ \A a \in Named : d.placed[a] \in Seq(1..n)
  BY StandsType
<1>3. \A a \in Named : d.granted[a] = Len(d.placed[a])
  BY StandsFacts
<1>4. p \in [0..n -> [Named -> Nat]]
  <2>1. ASSUME NEW k \in 0..n, NEW a \in Named
        PROVE  Smaller(Tally(d.placed[a], 1..k), c[a]) \in Nat
    <3>1. Tally(d.placed[a], 1..k) \in Nat
      BY <1>2, TallyType
    <3>2. QED
      BY <3>1 DEF Smaller
  <2>2. QED
    BY <2>1
<1>5. p[0] = [a \in Named |-> 0]
  <2>1. ASSUME NEW a \in Named PROVE Smaller(Tally(d.placed[a], 1..0), c[a]) = 0
    <3>1. Tally(d.placed[a], 1..0) = 0
      BY <1>1, <1>2, TallySum
    <3>2. c[a] \in Nat
      OBVIOUS
    <3>3. QED
      BY <3>1, <3>2 DEF Smaller
  <2>2. p[0] = [a \in Named |-> Smaller(Tally(d.placed[a], 1..0), c[a])]
    BY <1>1
  <2>3. QED
    BY <2>1, <2>2
<1>6. p[n] = c
  <2>1. ASSUME NEW a \in Named PROVE Smaller(Tally(d.placed[a], 1..n), c[a]) = c[a]
    <3>1. Tally(d.placed[a], 1..n) = d.granted[a]
      BY <1>1, <1>2, <1>3, TallySum
    <3>2. c[a] \in Nat /\ d.granted[a] \in Nat /\ c[a] <= d.granted[a]
      BY <1>2
    <3>3. QED
      BY <3>1, <3>2 DEF Smaller
  <2>2. p[n] = [a \in Named |-> Smaller(Tally(d.placed[a], 1..n), c[a])]
    BY <1>1
  <2>3. p[n] = [a \in Named |-> c[a]]
    BY <2>1, <2>2
  <2>4. QED
    BY <2>3
<1>7. ASSUME NEW k \in 1..n, NEW a \in Named
      PROVE  /\ x[k][a] \in Nat /\ x[k][a] <= On(d.placed, k)[a]
             /\ p[k][a] = p[k - 1][a] + x[k][a] /\ p[k][a] <= c[a]
  <2>1. k \in 0..n /\ k - 1 \in 0..n /\ d.placed[a] \in Seq(1..n) /\ c[a] \in Nat
    BY <1>1, <1>2
  <2>2. /\ p[k][a] = Smaller(Tally(d.placed[a], 1..k), c[a])
        /\ p[k - 1][a] = Smaller(Tally(d.placed[a], 1..(k - 1)), c[a])
        /\ x[k][a] = p[k][a] - p[k - 1][a]
    BY <2>1
  <2>3. On(d.placed, k)[a] = Tally(d.placed[a], {k})
    BY DEF On
  <2>4. Tally(d.placed[a], 1..k) = Tally(d.placed[a], 1..(k - 1)) + Tally(d.placed[a], {k})
    BY <1>1, <2>1, TallySum
  <2>5. /\ Tally(d.placed[a], 1..k) \in Nat /\ Tally(d.placed[a], 1..(k - 1)) \in Nat
        /\ Tally(d.placed[a], {k}) \in Nat
    BY <2>1, TallyType
  <2> HIDE DEF p, x
  <2>6. QED
    BY <2>1, <2>2, <2>3, <2>4, <2>5 DEF Smaller
<1>8. x \in [1..n -> [Named -> Nat]]
  <2>1. \A k \in 1..n : \A a \in Named : p[k][a] - p[k - 1][a] \in Nat
    BY <1>7
  <2> HIDE DEF p
  <2>2. QED
    BY <2>1
<1>9. ASSUME NEW k \in 1..n PROVE FitsIn(Load(x[k]), bins[k].free)
  <2> DEFINE w == x[k]
             y == On(d.placed, k)
  <2>1. k \in DOMAIN bins /\ w \in [Named -> Nat]
    BY <1>1, <1>8
  <2>2. y \in [Named -> Nat]
    <3>1. d.placed \in [Named -> Seq(1..n)]
      BY StandsType
    <3>2. QED
      BY <1>1, <3>1, OnType
  <2>3. \A a \in Named : w[a] <= y[a]
    BY <1>7
  <2>4. Plus(d.free[k], Load(y)) = bins[k].free
    BY <2>1, StandsFacts
  <2> HIDE DEF w, y
  <2>5. d.free[k] \in Res
    BY <2>1, StandsType
  <2>6. Load(w) \in Res /\ Load(y) \in Res /\ FitsIn(Load(w), Load(y))
    BY <2>1, <2>2, <2>3, LoadType, LoadLess
  <2>7. FitsIn(Load(y), Plus(d.free[k], Load(y))) /\ Plus(d.free[k], Load(y)) \in Res
    BY <2>5, <2>6, FitsMore
  <2>8. FitsIn(Load(w), Plus(d.free[k], Load(y)))
    BY <2>6, <2>7, FitsTrans
  <2>9. QED
    BY <2>4, <2>8 DEF w
<1>10. ASSUME NEW k \in 1..n, bins[k].manager, NEW a \in bound PROVE x[k][a] = 0
  <2>1. k \in DOMAIN bins /\ a \in Named
    BY <1>1
  <2>2. Tally(d.placed[a], {k}) = 0
    BY <2>1, <1>10 DEF Stands
  <2>3. On(d.placed, k)[a] = 0
    BY <2>1, <2>2 DEF On
  <2>4. x[k][a] \in Nat /\ x[k][a] <= On(d.placed, k)[a]
    BY <2>1, <1>7
  <2> HIDE DEF x
  <2>5. QED
    BY <2>3, <2>4
<1>11. Placement(x, p, c, bound, bins)
  <2> HIDE DEF x, p
  <2> QED
    BY <1>4, <1>5, <1>6, <1>7, <1>8, <1>9, <1>10 DEF Placement
<1>12. QED
  <2> HIDE DEF x, p
  <2> QED
    BY <1>11, PlacementHolds

\* What is granted can be placed.
LEMMA StandsHold ==
  ASSUME cost \in [Named -> Res], NEW bins, Distinct(bins), NEW bound \in SUBSET Named,
         NEW d \in Stands(bound, bins)
  PROVE  Holds(d.granted, bound, bins)
<1>1. d.granted \in [Named -> Nat] /\ \A a \in Named : d.granted[a] <= d.granted[a]
  BY StandsType
<1>2. QED
  BY <1>1, StandsHoldLess

\* What admission grants can be placed, for any wants on any nodes, and after the slot so
\* can one task more of whatever is above its minimum.  (admit.)
THEOREM GrantedRolls ==
  ASSUME cost \in [Named -> Res], NEW bins, Distinct(bins), NEW bound \in SUBSET Named,
         NEW wants \in [Named -> Nat]
  PROVE  /\ Granted(wants, bound, bins) \in [Named -> Nat]
         /\ Holds(Granted(wants, bound, bins), bound, bins)
         /\ \A a \in Named : Granted(wants, bound, bins)[a] > Least[a] =>
              Holds(OneMore(Granted(wants, bound, bins), a), bound, bins)
<1> DEFINE d == Slotted(Filled(wants, bound, bins), bound, bins)
<1>1. Granted(wants, bound, bins) = d.granted
  BY DEF Granted
<1>2. d \in Stands(bound, bins)
  BY FilledStands, SlottedRolls
<1>3. d.granted \in [Named -> Nat]
  BY <1>2, StandsType
<1>4. ASSUME NEW a \in Named, d.granted[a] > Least[a]
      PROVE  Holds(OneMore(d.granted, a), bound, bins)
  <2>1. d.granted[a] \in Nat /\ Least[a] \in Nat
    BY <1>3, PackerConstants DEF PackerConstants
  <2>2. ~(d.granted[a] <= Least[a])
    BY <1>4, <2>1
  <2>3. Taking(a, bound, bins, d.free) # {}
    BY <2>2, FilledStands, SlottedRolls
  <2>4. PICK i \in Taking(a, bound, bins, d.free) : TRUE
    BY <2>3
  <2> DEFINE e == [d EXCEPT !.free[i] = Minus(@, cost[a]), !.granted[a] = @ + 1,
                            !.placed[a] = Append(@, i)]
  <2> HIDE DEF d
  <2>5. e \in Stands(bound, bins)
    BY <1>2, Granting
  <2>6. e.granted = OneMore(d.granted, a)
    BY <1>2 DEF OneMore, Stands
  <2> HIDE DEF e
  <2>7. QED
    BY <2>5, <2>6, StandsHold
<1>5. Holds(d.granted, bound, bins)
  <2> HIDE DEF d
  <2> QED
    BY <1>2, StandsHold
<1>6. QED
  BY <1>1, <1>3, <1>4, <1>5

-----------------------------------------------------------------------------
(* The fleet.                                                              *)

\* What the parameters are.
LEMMA Parameters ==
  /\ Costs \subseteq [Named -> Res] /\ Plans \in Seq(Res) /\ Master \in Res
  /\ 1 \in DOMAIN Plans
  /\ Least \in [Named -> Nat \ {0}] /\ Most \in [Named -> Nat]
  /\ \A a \in Named : Least[a] <= Most[a]
  /\ MaxWorkers \in Nat /\ MinWorkers \in Nat /\ MinWorkers <= MaxWorkers
<1>1. Plans \in Seq(Res) /\ Plans # << >>
  BY SizingConstants DEF SizingConstants, Res
<1>2. 1 \in DOMAIN Plans
  BY <1>1
<1>3. /\ Costs \subseteq [Named -> Res] /\ Master \in Res
      /\ MinWorkers \in Nat /\ MinWorkers <= MaxWorkers
  BY SizingConstants DEF SizingConstants, Res
<1>4. /\ Least \in [Named -> Nat \ {0}] /\ Most \in [Named -> Nat]
      /\ \A a \in Named : Least[a] <= Most[a]
      /\ MaxWorkers \in Nat
  BY PackerConstants DEF PackerConstants
<1>5. QED
  BY <1>1, <1>2, <1>3, <1>4

\* The nodes applications may run on are bins with keys of their own.
LEMMA WorkersDistinct ==
  ASSUME NEW f \in Seq(DOMAIN Plans)
  PROVE  /\ Distinct(Workers(f)) /\ Len(Workers(f)) = Len(f)
         /\ \A i \in 1..Len(f) : Workers(f)[i] = Bin(i, Plans[f[i]], FALSE)
         /\ \A i \in 1..Len(f) : Workers(f)[i].key = i
<1>1. Len(f) \in Nat /\ DOMAIN f = 1..Len(f) /\ \A i \in 1..Len(f) : f[i] \in DOMAIN Plans
  OBVIOUS
<1>2. \A i \in 1..Len(f) : Plans[f[i]] \in Res
  BY <1>1, Parameters
<1>3. \A i \in 1..Len(f) : Bin(i, Plans[f[i]], FALSE) \in Bins
  BY <1>2 DEF Bin, Bins
<1>4. Workers(f) = [i \in 1..Len(f) |-> Bin(i, Plans[f[i]], FALSE)]
  BY <1>1 DEF Workers
<1>5. /\ Workers(f) \in Seq(Bins) /\ DOMAIN Workers(f) = 1..Len(f)
      /\ Len(Workers(f)) = Len(f)
      /\ \A i \in 1..Len(f) : Workers(f)[i] = Bin(i, Plans[f[i]], FALSE)
  <2>1. Workers(f) \in Seq(Bins)
    <3> DEFINE B == [i \in 1..Len(f) |-> Bin(i, Plans[f[i]], FALSE)]
    <3>1. B \in [1..Len(f) -> Bins]
      BY <1>3
    <3> HIDE DEF B
    <3>2. B \in Seq(Bins)
      BY <3>1, <1>1
    <3>3. QED
      BY <3>2, <1>4 DEF B
  <2>2. DOMAIN Workers(f) = 1..Len(f)
        /\ \A i \in 1..Len(f) : Workers(f)[i] = Bin(i, Plans[f[i]], FALSE)
    BY <1>4
  <2>3. Len(Workers(f)) = Len(f)
    BY <2>1, <2>2, <1>1
  <2>4. QED
    BY <2>1, <2>2, <2>3
<1>6. \A i \in 1..Len(f) : Workers(f)[i].key = i
  BY <1>5 DEF Bin
<1>7. QED
  BY <1>5, <1>6 DEF Distinct

\* And so are the workers with the master behind them.
LEMMA EligibleDistinct ==
  ASSUME NEW f \in Seq(DOMAIN Plans)
  PROVE  Distinct(Eligible(f))
<1>1. CASE pinned
  <2>1. Workers(f) \in Seq(Bins)
    BY WorkersDistinct DEF Distinct
  <2>2. Eligible(f) = Workers(f)
    BY <1>1, <2>1 DEF Eligible
  <2>3. QED
    BY <2>2, WorkersDistinct
<1>2. CASE ~pinned
  <2> DEFINE w == Workers(f)
             e == w \o <<MasterBin>>
  <2>1. Eligible(f) = e
    BY <1>2 DEF Eligible
  <2>2. /\ w \in Seq(Bins) /\ Len(w) \in Nat /\ Len(w) = Len(f)
        /\ \A i \in 1..Len(w) : w[i].key = i
    <3>1. w \in Seq(Bins) /\ Len(w) = Len(f)
      BY WorkersDistinct DEF Distinct
    <3>3. \A i \in 1..Len(f) : w[i].key = i
      BY WorkersDistinct
    <3> HIDE DEF w
    <3>4. Len(w) \in Nat
      BY <3>1
    <3>5. QED
      BY <3>1, <3>3, <3>4
  <2>3. MasterBin \in Bins /\ MasterBin.key = 0
    BY Parameters DEF MasterBin, Bin, Bins
  <2> HIDE DEF w
  <2>4. /\ e \in Seq(Bins) /\ DOMAIN e = 1..(Len(w) + 1)
        /\ \A i \in 1..Len(w) : e[i] = w[i]
        /\ e[Len(w) + 1] = MasterBin
    BY <2>2, <2>3
  <2> HIDE DEF e
  <2>5. ASSUME NEW i \in DOMAIN e
        PROVE  e[i].key = IF i = Len(w) + 1 THEN 0 ELSE i
    <3>1. CASE i = Len(w) + 1
      BY <3>1, <2>3, <2>4
    <3>2. CASE i # Len(w) + 1
      <4>1. \A n \in Nat : \A m \in 1..(n + 1) : m # n + 1 => m \in 1..n
        OBVIOUS
      <4>2. i \in 1..Len(w)
        BY <3>2, <4>1, <2>2, <2>4
      <4>3. QED
        BY <4>2, <3>2, <2>2, <2>4
    <3>3. QED
      BY <3>1, <3>2
  <2>6. ASSUME NEW i \in DOMAIN e, NEW j \in DOMAIN e, i # j
        PROVE  e[i].key # e[j].key
    <3>1. i \in 1..(Len(w) + 1) /\ j \in 1..(Len(w) + 1)
      BY <2>4
    <3>2. QED
      BY <3>1, <2>5, <2>6, <2>2
  <2>7. QED
    BY <2>1, <2>4, <2>6 DEF Distinct
<1>3. QED
  BY <1>1, <1>2

-----------------------------------------------------------------------------
\* With the types of the state, the ceilings leave room to roll.
LEMMA CeilingsRoll ==
  ASSUME TypeOK
  PROVE  CeilingRolls
<1> DEFINE bins == Eligible(fleet)
           granted == Granted(Most, Pinned, bins)
<1>1. cost \in [Named -> Res] /\ fleet \in Seq(DOMAIN Plans) /\ count \in Counts
  BY Parameters DEF TypeOK
<1>2. /\ count \in [Named -> Nat]
      /\ \A a \in Named : count[a] <= Most[a] /\ count[a] \in Nat /\ Most[a] \in Nat
  <2>1. count \in [Named -> 0..Max(Range(Most))]
    BY <1>1 DEF Counts
  <2>2. Max(Range(Most)) \in Nat
    BY Parameters, MaxCount
  <2>3. \A a \in Named : count[a] \in Least[a]..Most[a]
    BY <1>1 DEF Counts
  <2>4. QED
    BY <2>1, <2>2, <2>3, Parameters
<1>3. Distinct(bins)
  BY <1>1, EligibleDistinct
<1>4. Pinned \in SUBSET Named
  BY DEF Pinned
<1> HIDE DEF bins
<1>5. /\ granted \in [Named -> Nat]
      /\ \A a \in Named : granted[a] > Least[a] =>
           Holds(OneMore(granted, a), Pinned, bins)
  BY <1>1, <1>3, <1>4, Parameters, GrantedRolls
<1> HIDE DEF granted
<1>6. ASSUME \A a \in Named : count[a] <= granted[a]
      PROVE  Admit(Most, Pinned, bins, count) = granted
  <2>1. Admit(Most, Pinned, bins, count) =
          [a \in Named |-> Larger(Smaller(count[a], Most[a]), granted[a])]
    BY DEF Admit, granted
  <2>2. ASSUME NEW a \in Named
        PROVE  Larger(Smaller(count[a], Most[a]), granted[a]) = granted[a]
    <3>1. count[a] \in Nat /\ Most[a] \in Nat /\ granted[a] \in Nat
          /\ count[a] <= Most[a] /\ count[a] <= granted[a]
      BY <1>2, <1>5, <1>6
    <3>2. QED
      BY <3>1 DEF Larger, Smaller
  <2>3. Admit(Most, Pinned, bins, count) = [a \in Named |-> granted[a]]
    BY <2>1, <2>2
  <2>4. QED
    BY <2>3, <1>5
<1>7. Ceilings = Admit(Most, Pinned, bins, count)
  BY DEF Ceilings, bins
<1>8. ASSUME \A a \in Named : count[a] <= granted[a], NEW a \in Named,
             Ceilings[a] > Larger(count[a], Least[a])
      PROVE  Holds([Ceilings EXCEPT ![a] = @ + 1], Pinned, bins)
  <2>1. Ceilings = granted
    BY <1>6, <1>7, <1>8
  <2>2. granted[a] > Least[a]
    <3>1. granted[a] \in Nat /\ count[a] \in Nat /\ Least[a] \in Nat
      BY <1>2, <1>5, Parameters
    <3>2. QED
      BY <3>1, <2>1, <1>8 DEF Larger
  <2>3. Holds(OneMore(granted, a), Pinned, bins)
    BY <1>5, <2>2
  <2>4. QED
    BY <2>1, <2>3 DEF OneMore
<1>9. QED
  BY <1>8 DEF CeilingRolls, granted, bins

-----------------------------------------------------------------------------
(* The items.                                                              *)

\* n of the same application.
Some(n, a) == [j \in 1..n |-> a]

\* Some of one application add to its tally and to no other.
LEMMA JoinTally ==
  ASSUME NEW s \in Seq(Named), NEW n \in Nat, NEW b \in Named, NEW a \in Named
  PROVE  /\ s \o Some(n, b) \in Seq(Named)
         /\ Tally(s \o Some(n, b), {a}) = Tally(s, {a}) + (IF a = b THEN n ELSE 0)
<1> DEFINE P == {k \in 0..n : /\ s \o Some(k, b) \in Seq(Named)
                              /\ Tally(s \o Some(k, b), {a})
                                   = Tally(s, {a}) + (IF a = b THEN k ELSE 0)}
<1>1. 0 \in P
  <2>1. Some(0, b) = << >>
    BY DEF Some
  <2>2. s \o << >> = s
    OBVIOUS
  <2>3. Tally(s, {a}) \in Nat
    BY TallyType
  <2>4. s \o Some(0, b) = s
    BY <2>1, <2>2
  <2>5. Tally(s, {a}) = Tally(s, {a}) + (IF a = b THEN 0 ELSE 0)
    BY <2>3
  <2>6. 0 \in 0..n
    OBVIOUS
  <2>7. QED
    BY <2>4, <2>5, <2>6
<1>2. ASSUME NEW k \in 1..n, k - 1 \in P PROVE k \in P
  <2> DEFINE t == s \o Some(k - 1, b)
  <2>1. t \in Seq(Named) /\ Tally(t, {a}) = Tally(s, {a}) + (IF a = b THEN k - 1 ELSE 0)
    BY <1>2
  <2>2. s \o Some(k, b) = Append(t, b)
    <3>1. Some(k, b) = Append(Some(k - 1, b), b) /\ Some(k - 1, b) \in Seq(Named)
      BY DEF Some
    <3>2. QED
      BY <3>1
  <2> HIDE DEF t
  <2>3. Tally(Append(t, b), {a}) = IF b \in {a} THEN Tally(t, {a}) + 1 ELSE Tally(t, {a})
    BY <2>1, TallyMore
  <2>4. Append(t, b) \in Seq(Named) /\ Tally(s, {a}) \in Nat /\ k \in 0..n
    <3>1. Append(t, b) \in Seq(Named) /\ k \in 0..n
      BY <2>1
    <3>2. Tally(s, {a}) \in Nat
      BY TallyType
    <3>3. QED
      BY <3>1, <3>2
  <2>5. Tally(Append(t, b), {a}) = Tally(s, {a}) + (IF a = b THEN k ELSE 0)
    BY <2>1, <2>3, <2>4
  <2>6. QED
    BY <2>2, <2>4, <2>5
<1>3. n \in P
  <2> HIDE DEF P
  <2>1. \A k \in 0..n : k \in P
    BY <1>1, <1>2, Climb
  <2>2. QED
    BY <2>1
<1>4. QED
  BY <1>3

\* Dealing, one application after the other.
LEMMA DealtSteps ==
  ASSUME NEW from \in Seq(Named), NEW each \in [Named -> Nat]
  PROVE  \E h \in [0..Len(Apps) -> Seq(Named)] :
           /\ h[0] = from /\ h[Len(Apps)] = Dealt(from, each)
           /\ \A k \in 1..Len(Apps) : h[k] = h[k - 1] \o Some(each[Apps[k]], Apps[k])
<1> DEFINE n == Len(Apps)
           S == Seq(Named)
           base == from
           Op(r, k) == r \o Some(each[Apps[k]], Apps[k])
           F == [k \in 1..n |-> [r \in S |-> Op(r, k)]]
           E(it) == it = [s \in SUBSET DOMAIN Apps |->
                            IF s = {} THEN base ELSE Op(it[s \ {Max(s)}], Max(s))]
           it == CHOOSE it : E(it)
<1>1. Dealt(from, each) = it[DOMAIN Apps]
  BY DEF Dealt, Some, FoldLeft, MapThenFoldSet
<1>2. n \in Nat /\ DOMAIN Apps = 1..n
  BY AppsIndexed
<1>3. base \in S
  OBVIOUS
<1>4. ASSUME NEW k \in 1..n, NEW r \in S
      PROVE  Op(r, k) \in S
  BY AppsIndexed, JoinTally
<1> HIDE DEF n, Op, S, base
<1>5. F \in [1..n -> [S -> S]] /\ \A k \in 1..n, r \in S : F[k][r] = Op(r, k)
  BY <1>4
<1> HIDE DEF F
<1>6. \A s \in SUBSET (1..n) : s # {} => Max(s) \in 1..n
  BY <1>2, MaxIndex
<1>7. \E f : E(f)
  <2>1. PICK f \in [SUBSET (1..n) -> S] : Folds(f, n, base, F)
    BY <1>2, <1>3, <1>5, FoldMade
  <2>2. ASSUME NEW s \in SUBSET (1..n), s # {}
        PROVE  F[Max(s)][f[s \ {Max(s)}]] = Op(f[s \ {Max(s)}], Max(s))
    <3>1. s \ {Max(s)} \in SUBSET (1..n)
      OBVIOUS
    <3>2. QED
      BY <3>1, <2>2, <1>5, <1>6
  <2>3. E(f)
    BY <2>1, <2>2, <1>2 DEF Folds
  <2>4. QED
    BY <2>3
<1>8. E(it)
  <2> HIDE DEF E
  <2> QED
    BY <1>7
<1> HIDE DEF it
<1>9. it[{}] = base
  BY <1>8
<1>10. ASSUME NEW s \in SUBSET (1..n), s # {}, it[s \ {Max(s)}] \in S
       PROVE  it[s] = F[Max(s)][it[s \ {Max(s)}]]
  <2>1. it[s] = Op(it[s \ {Max(s)}], Max(s))
    BY <1>8, <1>10, <1>2
  <2>2. QED
    BY <2>1, <1>5, <1>6, <1>10
<1> HIDE DEF E
<1>11. PICK h \in [0..n -> S] : h[n] = it[1..n] /\ Passes(h, n, base, F)
  <2>1. Inside(it, n, S, base, F)
    BY <1>9, <1>10 DEF Inside
  <2>2. QED
    BY <1>2, <1>3, <1>5, <2>1, FoldSteps
<1>12. h[0] = base /\ \A k \in 1..n : h[k] = Op(h[k - 1], k)
  <2>1. \A k \in 1..n : h[k - 1] \in S
    BY <1>2
  <2>2. QED
    BY <1>11, <1>5, <2>1 DEF Passes
<1>13. QED
  BY <1>1, <1>2, <1>11, <1>12 DEF Op, n, S, base

\* Dealing gives every application what it is dealt, and keeps what there was.
LEMMA DealtTally ==
  ASSUME NEW s \in Seq(Named), NEW each \in [Named -> Nat]
  PROVE  /\ Dealt(s, each) \in Seq(Named)
         /\ \A a \in Named : Tally(Dealt(s, each), {a}) = Tally(s, {a}) + each[a]
<1> DEFINE n == Len(Apps)
<1>1. PICK h \in [0..n -> Seq(Named)] :
        /\ h[0] = s /\ h[n] = Dealt(s, each)
        /\ \A k \in 1..n : h[k] = h[k - 1] \o Some(each[Apps[k]], Apps[k])
  BY DealtSteps
<1>2. /\ n \in Nat /\ \A k \in 1..n : Apps[k] \in Named
      /\ \A j, k \in 1..n : Apps[j] = Apps[k] => j = k
  BY AppsIndexed
<1>3. ASSUME NEW a \in Named
      PROVE  Tally(Dealt(s, each), {a}) = Tally(s, {a}) + each[a]
  <2>1. PICK i \in 1..n : Apps[i] = a
    BY AppsIndexed
  <2> DEFINE P == {k \in 0..n : Tally(h[k], {a})
                                  = Tally(s, {a}) + (IF k >= i THEN each[a] ELSE 0)}
  <2>2. Tally(s, {a}) \in Nat /\ each[a] \in Nat
    BY TallyType
  <2> HIDE DEF n
  <2>3. 0 \in P
    BY <1>1, <1>2, <2>2
  <2>4. ASSUME NEW k \in 1..n, k - 1 \in P PROVE k \in P
    <3>1. h[k - 1] \in Seq(Named) /\ Apps[k] \in Named /\ each[Apps[k]] \in Nat
      BY <1>1, <1>2
    <3>2. Tally(h[k], {a})
            = Tally(h[k - 1], {a}) + (IF a = Apps[k] THEN each[Apps[k]] ELSE 0)
      <4> DEFINE t == h[k - 1]
                 m == each[Apps[k]]
                 b == Apps[k]
      <4>1. t \in Seq(Named) /\ m \in Nat /\ b \in Named /\ h[k] = t \o Some(m, b)
        BY <1>1, <3>1
      <4> HIDE DEF t, m, b
      <4>2. Tally(t \o Some(m, b), {a}) = Tally(t, {a}) + (IF a = b THEN m ELSE 0)
        BY <4>1, JoinTally
      <4>3. QED
        BY <4>1, <4>2 DEF t, m, b
    <3>3. a = Apps[k] <=> k = i
      BY <1>2, <2>1
    <3>4. Tally(h[k - 1], {a}) = Tally(s, {a}) + (IF k - 1 >= i THEN each[a] ELSE 0)
      BY <2>4
    <3>5. Tally(h[k], {a}) = Tally(s, {a}) + (IF k >= i THEN each[a] ELSE 0)
      <4>1. CASE k = i
        <5>1. a = Apps[k] /\ k >= i /\ ~(k - 1 >= i)
          BY <4>1, <2>1, <1>2
        <5>2. QED
          BY <5>1, <3>2, <3>4, <2>2
      <4>2. CASE k # i
        <5>1. a # Apps[k] /\ (k >= i <=> k - 1 >= i)
          BY <4>2, <3>3, <2>1, <1>2
        <5>2. QED
          BY <5>1, <3>2, <3>4, <2>2
      <4>3. QED
        BY <4>1, <4>2
    <3>6. QED
      BY <3>5, <1>2
  <2>5. \A k \in 0..n : k \in P
    <3> HIDE DEF P
    <3> QED
      BY <1>2, <2>3, <2>4, Climb
  <2>6. n \in 0..n /\ n >= i
    BY <1>2
  <2>7. QED
    BY <1>1, <2>5, <2>6
<1>4. QED
  BY <1>1, <1>2, <1>3

\* The least of the counts is no more than any.
LEMMA MinCount ==
  ASSUME NEW c \in [Named -> Nat]
  PROVE  /\ Min({c[a] : a \in Named}) \in Nat
         /\ \A a \in Named : Min({c[b] : b \in Named}) <= c[a]
<1> DEFINE S == {c[a] : a \in Named}
<1>1. S \in SUBSET Nat
  OBVIOUS
<1>2. S # {}
  <2>1. Apps # << >> /\ Apps \in Seq(Named)
    BY PackerConstants DEF PackerConstants
  <2>2. Apps[1] \in Named
    BY <2>1
  <2>3. c[Apps[1]] \in S
    BY <2>2
  <2>4. QED
    BY <2>3
<1>3. PICK x \in S : \A y \in S : ~ (<<y, x>> \in OpToRel(<, Nat))
  BY <1>1, <1>2, WFMin, NatLessThanWellFounded
<1>4. x \in Nat /\ \A y \in S : y \in Nat /\ ~(y < x)
  BY <1>1, <1>3 DEF OpToRel
<1>5. \A y \in S : x <= y
  BY <1>4
<1>6. Min(S) \in S /\ \A y \in S : Min(S) <= y
  <2> HIDE DEF S
  <2> QED
    BY <1>3, <1>5 DEF Min
<1>7. Min(S) \in Nat
  BY <1>1, <1>6
<1>8. QED
  BY <1>6, <1>7

\* Dealing the same again and again.
Deals(s, each, depth) ==
  FoldLeft(LAMBDA t, k : Dealt(t, each), s, [k \in 1..depth |-> k])

\* h is what each round comes to.
Dealing(h, from, each, depth) ==
  /\ h \in [0..depth -> Seq(Named)]
  /\ h[0] = from /\ h[depth] = Deals(from, each, depth)
  /\ \A k \in 1..depth : h[k] = Dealt(h[k - 1], each)

\* Round after round.
LEMMA DealsSteps ==
  ASSUME NEW from \in Seq(Named), NEW each \in [Named -> Nat], NEW depth \in Nat
  PROVE  \E h : Dealing(h, from, each, depth)
<1> DEFINE n == depth
           S == Seq(Named)
           base == from
           Op(r, k) == Dealt(r, each)
           F == [k \in 1..n |-> [r \in S |-> Op(r, k)]]
           E(it) == it = [s \in SUBSET DOMAIN [k \in 1..depth |-> k] |->
                            IF s = {} THEN base ELSE Op(it[s \ {Max(s)}], Max(s))]
           it == CHOOSE it : E(it)
<1>1. Deals(from, each, depth) = it[DOMAIN [k \in 1..depth |-> k]]
  BY DEF Deals, FoldLeft, MapThenFoldSet
<1>2. n \in Nat /\ DOMAIN [k \in 1..depth |-> k] = 1..n
  OBVIOUS
<1>3. base \in S
  OBVIOUS
<1>4. ASSUME NEW k \in 1..n, NEW r \in S
      PROVE  Op(r, k) \in S
  BY DealtTally
<1> HIDE DEF n, Op, S, base
<1>5. F \in [1..n -> [S -> S]] /\ \A k \in 1..n, r \in S : F[k][r] = Op(r, k)
  BY <1>4
<1> HIDE DEF F
<1>6. \A s \in SUBSET (1..n) : s # {} => Max(s) \in 1..n
  BY <1>2, MaxIndex
<1>7. \E f : E(f)
  <2>1. PICK f \in [SUBSET (1..n) -> S] : Folds(f, n, base, F)
    BY <1>2, <1>3, <1>5, FoldMade
  <2>2. ASSUME NEW s \in SUBSET (1..n), s # {}
        PROVE  F[Max(s)][f[s \ {Max(s)}]] = Op(f[s \ {Max(s)}], Max(s))
    <3>1. s \ {Max(s)} \in SUBSET (1..n)
      OBVIOUS
    <3>2. QED
      BY <3>1, <2>2, <1>5, <1>6
  <2>3. E(f)
    BY <2>1, <2>2, <1>2 DEF Folds
  <2>4. QED
    BY <2>3
<1>8. E(it)
  <2> HIDE DEF E
  <2> QED
    BY <1>7
<1> HIDE DEF it
<1>9. it[{}] = base
  BY <1>8
<1>10. ASSUME NEW s \in SUBSET (1..n), s # {}, it[s \ {Max(s)}] \in S
       PROVE  it[s] = F[Max(s)][it[s \ {Max(s)}]]
  <2>1. it[s] = Op(it[s \ {Max(s)}], Max(s))
    BY <1>8, <1>10, <1>2
  <2>2. QED
    BY <2>1, <1>5, <1>6, <1>10
<1> HIDE DEF E
<1>11. PICK h \in [0..n -> S] : h[n] = it[1..n] /\ Passes(h, n, base, F)
  <2>1. Inside(it, n, S, base, F)
    BY <1>9, <1>10 DEF Inside
  <2>2. QED
    BY <1>2, <1>3, <1>5, <2>1, FoldSteps
<1>12. h[0] = base /\ \A k \in 1..n : h[k] = Op(h[k - 1], k)
  <2>1. \A k \in 1..n : h[k - 1] \in S
    BY <1>2
  <2>2. QED
    BY <1>11, <1>5, <2>1 DEF Passes
<1>13. QED
  <2>1. Dealing(h, from, each, depth)
    BY <1>1, <1>2, <1>11, <1>12 DEF Op, n, S, base, Dealing
  <2>2. QED
    BY <2>1

\* As many rounds give as many items.
LEMMA DealsTally ==
  ASSUME NEW s \in Seq(Named), NEW A, NEW depth \in Nat,
         NEW each \in [Named -> Nat], each = [a \in Named |-> IF a \in A THEN 1 ELSE 0]
  PROVE  /\ Deals(s, each, depth) \in Seq(Named)
         /\ \A a \in Named : Tally(Deals(s, each, depth), {a})
                               = Tally(s, {a}) + (IF a \in A THEN depth ELSE 0)
<1>0. PICK h : Dealing(h, s, each, depth)
  BY DealsSteps
<1>1. /\ h \in [0..depth -> Seq(Named)]
      /\ h[0] = s /\ h[depth] = Deals(s, each, depth)
      /\ \A k \in 1..depth : h[k] = Dealt(h[k - 1], each)
  BY <1>0 DEF Dealing
<1>2. ASSUME NEW a \in Named
      PROVE  Tally(Deals(s, each, depth), {a})
               = Tally(s, {a}) + (IF a \in A THEN depth ELSE 0)
  <2> DEFINE P == {k \in 0..depth : Tally(h[k], {a})
                                      = Tally(s, {a}) + (IF a \in A THEN k ELSE 0)}
  <2>1. Tally(s, {a}) \in Nat
    BY TallyType
  <2>2. 0 \in P
    BY <1>1, <2>1
  <2>3. ASSUME NEW k \in 1..depth, k - 1 \in P PROVE k \in P
    <3>1. h[k - 1] \in Seq(Named) /\ h[k] = Dealt(h[k - 1], each) /\ k \in 0..depth
      BY <1>1
    <3>2. Tally(h[k], {a}) = Tally(h[k - 1], {a}) + each[a]
      <4> DEFINE t == h[k - 1]
      <4>1. t \in Seq(Named) /\ h[k] = Dealt(t, each)
        BY <3>1
      <4> HIDE DEF t
      <4>2. Tally(Dealt(t, each), {a}) = Tally(t, {a}) + each[a]
        BY <4>1, DealtTally
      <4>3. QED
        BY <4>1, <4>2 DEF t
    <3>3. Tally(h[k - 1], {a}) = Tally(s, {a}) + (IF a \in A THEN k - 1 ELSE 0)
      BY <2>3
    <3>4. each[a] = IF a \in A THEN 1 ELSE 0
      OBVIOUS
    <3>5. Tally(h[k], {a}) = Tally(s, {a}) + (IF a \in A THEN k ELSE 0)
      BY <3>2, <3>3, <3>4, <2>1
    <3>6. QED
      BY <3>1, <3>5
  <2>4. \A k \in 0..depth : k \in P
    <3> HIDE DEF P
    <3> QED
      BY <2>2, <2>3, Climb
  <2>5. depth \in 0..depth
    OBVIOUS
  <2>6. QED
    BY <1>1, <2>4, <2>5
<1>3. QED
  BY <1>1, <1>2

\* A stream has one item a replica, of every application of A.
LEMMA StreamTally ==
  ASSUME NEW s \in Seq(Named), NEW counts \in [Named -> Nat], NEW A
  PROVE  /\ Stream(s, counts, A) \in Seq(Named)
         /\ \A a \in Named : Tally(Stream(s, counts, A), {a})
                               = Tally(s, {a}) + (IF a \in A THEN counts[a] ELSE 0)
<1> DEFINE depth == Min({counts[a] : a \in Named})
           each  == [a \in Named |-> IF a \in A THEN 1 ELSE 0]
           rest  == [a \in Named |-> IF a \in A THEN counts[a] - depth ELSE 0]
           t     == Deals(s, each, depth)
<1>1. Stream(s, counts, A) = Dealt(t, rest)
  BY DEF Stream, Deals
<1>2. depth \in Nat /\ \A a \in Named : depth <= counts[a]
  BY MinCount
<1> HIDE DEF depth
<1>3. each \in [Named -> Nat] /\ rest \in [Named -> Nat]
  BY <1>2
<1>4. /\ t \in Seq(Named)
      /\ \A a \in Named : Tally(t, {a}) = Tally(s, {a}) + (IF a \in A THEN depth ELSE 0)
  <2> DEFINE e == each
  <2>1. e \in [Named -> Nat] /\ e = [a \in Named |-> IF a \in A THEN 1 ELSE 0]
    BY <1>3
  <2> HIDE DEF e
  <2>2. /\ Deals(s, e, depth) \in Seq(Named)
        /\ \A a \in Named : Tally(Deals(s, e, depth), {a})
                              = Tally(s, {a}) + (IF a \in A THEN depth ELSE 0)
    <3>1. Deals(s, e, depth) \in Seq(Named)
      BY <1>2, <2>1, DealsTally
    <3>2. ASSUME NEW a \in Named
          PROVE  Tally(Deals(s, e, depth), {a})
                   = Tally(s, {a}) + (IF a \in A THEN depth ELSE 0)
      BY <1>2, <2>1, DealsTally
    <3>3. QED
      BY <3>1, <3>2
  <2>3. QED
    BY <2>2 DEF e
<1> HIDE DEF t
<1>5. /\ Dealt(t, rest) \in Seq(Named)
      /\ \A a \in Named : Tally(Dealt(t, rest), {a}) = Tally(t, {a}) + rest[a]
  <2> HIDE DEF rest
  <2> QED
    BY <1>3, <1>4, DealtTally
<1>6. ASSUME NEW a \in Named
      PROVE  Tally(Dealt(t, rest), {a})
               = Tally(s, {a}) + (IF a \in A THEN counts[a] ELSE 0)
  <2>1. Tally(s, {a}) \in Nat
    BY TallyType
  <2>2. rest[a] = IF a \in A THEN counts[a] - depth ELSE 0
    OBVIOUS
  <2>3. counts[a] \in Nat /\ depth <= counts[a]
    BY <1>2
  <2> HIDE DEF rest
  <2>4. Tally(Dealt(t, rest), {a}) = Tally(t, {a}) + rest[a]
        /\ Tally(t, {a}) = Tally(s, {a}) + (IF a \in A THEN depth ELSE 0)
    BY <1>4, <1>5
  <2>5. CASE a \in A
    <3>1. /\ Tally(Dealt(t, rest), {a}) = Tally(t, {a}) + rest[a]
          /\ Tally(t, {a}) = Tally(s, {a}) + depth /\ rest[a] = counts[a] - depth
      BY <2>4, <2>5, <2>2
    <3>2. depth \in Nat
      BY <1>2
    <3>3. QED
      BY <2>5, <3>1, <3>2, <2>1, <2>3
  <2>6. CASE a \notin A
    BY <2>6, <2>4, <2>1, <2>2
  <2>7. QED
    BY <2>5, <2>6
<1>7. QED
  BY <1>1, <1>5, <1>6

\* The items are one a replica, whatever the order.
LEMMA ItemsTally ==
  ASSUME NEW counts \in [Named -> Nat], NEW bound \in SUBSET Named
  PROVE  /\ Items(counts, bound) \in Seq(Named)
         /\ \A a \in Named : Tally(Items(counts, bound), {a}) = counts[a]
<1> DEFINE first == Stream(<< >>, counts, bound)
<1>1. << >> \in Seq(Named) /\ \A a \in Named : Tally(<< >>, {a}) = 0
  <2>1. << >> \in Seq(Named)
    OBVIOUS
  <2>2. ASSUME NEW a \in Named PROVE Tally(<< >>, {a}) = 0
    <3>1. Tally(<< >>, {a}) \in Nat /\ Tally(<< >>, {a}) <= Len(<< >>)
      BY <2>1, TallyType
    <3>2. QED
      BY <3>1
  <2>3. QED
    BY <2>1, <2>2
<1>2. /\ first \in Seq(Named)
      /\ \A a \in Named : Tally(first, {a}) = 0 + (IF a \in bound THEN counts[a] ELSE 0)
  <2> DEFINE none == << >>
  <2>1. none \in Seq(Named) /\ \A a \in Named : Tally(none, {a}) = 0
    BY <1>1
  <2> HIDE DEF none
  <2>2. /\ Stream(none, counts, bound) \in Seq(Named)
        /\ \A a \in Named : Tally(Stream(none, counts, bound), {a})
                              = Tally(none, {a}) + (IF a \in bound THEN counts[a] ELSE 0)
    BY <2>1, StreamTally
  <2>3. QED
    BY <2>1, <2>2 DEF none
<1> HIDE DEF first
<1>3. /\ Stream(first, counts, Named \ bound) \in Seq(Named)
      /\ \A a \in Named : Tally(Stream(first, counts, Named \ bound), {a})
               = Tally(first, {a}) + (IF a \in Named \ bound THEN counts[a] ELSE 0)
  BY <1>2, StreamTally
<1>4. Items(counts, bound) = Stream(first, counts, Named \ bound)
  BY DEF Items, first
<1>5. ASSUME NEW a \in Named
      PROVE  Tally(Stream(first, counts, Named \ bound), {a}) = counts[a]
  <2>1. Tally(Stream(first, counts, Named \ bound), {a})
          = Tally(first, {a}) + (IF a \in Named \ bound THEN counts[a] ELSE 0)
    BY <1>3
  <2>2. Tally(first, {a}) = 0 + (IF a \in bound THEN counts[a] ELSE 0)
    BY <1>2
  <2>3. counts[a] \in Nat /\ (a \in Named \ bound <=> a \notin bound)
    OBVIOUS
  <2>4. QED
    BY <2>1, <2>2, <2>3
<1>6. QED
  BY <1>3, <1>4, <1>5

-----------------------------------------------------------------------------
(* Placing the items.                                                      *)

\* A placement under way.
Filling(bins) ==
  [free : [DOMAIN bins -> Res], used : SUBSET DOMAIN bins, left : Seq(Named)]

\* Room less what is reserved is room.
LEMMA MinusType ==
  ASSUME NEW f \in Res, NEW r \in Res
  PROVE  Minus(f, r) \in Res
BY DEF Minus, Res, Larger

\* What putting one item does: it is left over, or a bin takes it.
Takes(g, f, b, bound, bins) ==
  \/ g.free = f.free /\ g.left = Append(f.left, b)
  \/ \E i \in Taking(b, bound, bins, f.free) :
       /\ i \in DOMAIN bins
       /\ g.free = [f.free EXCEPT ![i] = Minus(@, cost[b])]
       /\ g.left = f.left

LEMMA PutIs ==
  ASSUME cost \in [Named -> Res], NEW bins, Distinct(bins), NEW bound,
         NEW f \in Filling(bins), NEW b \in Named
  PROVE  /\ Put(f, b, bound, bins) \in Filling(bins)
         /\ Takes(Put(f, b, bound, bins), f, b, bound, bins)
<1> DEFINE i == FirstFit(b, bound, bins, f.free)
           e == Put(f, b, bound, bins)
<1>1. /\ f.free \in [DOMAIN bins -> Res] /\ f.used \in SUBSET DOMAIN bins
      /\ f.left \in Seq(Named)
      /\ f = [free |-> f.free, used |-> f.used, left |-> f.left]
  BY DEF Filling
<1>2. CASE i = 0
  <2>1. e = [f EXCEPT !.left = Append(@, b)]
    BY <1>2 DEF Put
  <2> HIDE DEF e, i
  <2>2. e.free = f.free /\ e.used = f.used /\ e.left = Append(f.left, b)
        /\ e = [free |-> e.free, used |-> e.used, left |-> e.left]
    BY <2>1, <1>1
  <2>3. Append(f.left, b) \in Seq(Named)
    BY <1>1
  <2>4. e \in Filling(bins)
    BY <1>1, <2>2, <2>3 DEF Filling
  <2>5. Takes(e, f, b, bound, bins)
    BY <2>2 DEF Takes
  <2>6. QED
    BY <2>4, <2>5 DEF e
<1>3. CASE i # 0
  <2>1. i \in Taking(b, bound, bins, f.free) /\ i \in DOMAIN bins
    BY <1>3, FirstFitIs
  <2>2. e = [f EXCEPT !.free[i] = Minus(@, cost[b]), !.used = @ \cup {i}]
    BY <1>3 DEF Put
  <2> HIDE DEF e, i
  <2>3. /\ e.free = [f.free EXCEPT ![i] = Minus(@, cost[b])] /\ e.used = f.used \cup {i}
        /\ e.left = f.left
        /\ e = [free |-> e.free, used |-> e.used, left |-> e.left]
    BY <2>2, <1>1
  <2>4. Minus(f.free[i], cost[b]) \in Res
    BY <1>1, <2>1, MinusType
  <2>5. [f.free EXCEPT ![i] = Minus(@, cost[b])] \in [DOMAIN bins -> Res]
    BY <1>1, <2>4
  <2>6. f.used \cup {i} \in SUBSET DOMAIN bins
    BY <1>1, <2>1
  <2>7. e \in Filling(bins)
    BY <1>1, <2>3, <2>5, <2>6 DEF Filling
  <2>8. Takes(e, f, b, bound, bins)
    BY <2>1, <2>3 DEF Takes
  <2>9. QED
    BY <2>7, <2>8 DEF e
<1>4. QED
  BY <1>2, <1>3

\* Putting an item keeps the types.
LEMMA PutType ==
  ASSUME cost \in [Named -> Res], NEW bins, Distinct(bins), NEW bound,
         NEW f \in Filling(bins), NEW b \in Named
  PROVE  Put(f, b, bound, bins) \in Filling(bins)
BY PutIs

\* Nothing is placed yet.
Unfilled(bins) == [free |-> Room(bins), used |-> {}, left |-> << >>]

\* A placement begins with all the room there is.
LEMMA RoomType ==
  ASSUME NEW bins, Distinct(bins)
  PROVE  Room(bins) \in [DOMAIN bins -> Res] /\ Unfilled(bins) \in Filling(bins)
<1>1. \A i \in DOMAIN bins : bins[i].free \in Res
  BY BinTypes DEF Bins
<1>2. Room(bins) \in [DOMAIN bins -> Res]
  BY <1>1 DEF Room
<1>3. << >> \in Seq(Named)
  OBVIOUS
<1>4. QED
  BY <1>2, <1>3 DEF Filling, Unfilled

\* The items put one after the other.
Puts(h, items, bound, bins) ==
  \A k \in 1..Len(items) : h[k] = Put(h[k - 1], items[k], bound, bins)

\* Placing, one item after the other.
LEMMA PlaceSteps ==
  ASSUME cost \in [Named -> Res], NEW bins, Distinct(bins), NEW bound,
         NEW items \in Seq(Named)
  PROVE  \E h \in [0..Len(items) -> Filling(bins)] :
           /\ h[0] = Unfilled(bins) /\ h[Len(items)] = Place(items, bound, bins)
           /\ Puts(h, items, bound, bins)
<1> DEFINE n == Len(items)
           S == Filling(bins)
           base == Unfilled(bins)
           Op(r, k) == Put(r, items[k], bound, bins)
           F == [k \in 1..n |-> [r \in S |-> Op(r, k)]]
           E(it) == it = [s \in SUBSET DOMAIN items |->
                            IF s = {} THEN base ELSE Op(it[s \ {Max(s)}], Max(s))]
           it == CHOOSE it : E(it)
<1>1. Place(items, bound, bins) = it[DOMAIN items]
  BY DEF Place, Unfilled, FoldLeft, MapThenFoldSet
<1>2. n \in Nat /\ DOMAIN items = 1..n
  OBVIOUS
<1>3. base \in S
  BY RoomType
<1>4. ASSUME NEW k \in 1..n, NEW r \in S
      PROVE  Op(r, k) \in S
  <2>1. items[k] \in Named
    OBVIOUS
  <2>2. QED
    BY <2>1, PutType
<1> HIDE DEF n, Op, S, base
<1>5. F \in [1..n -> [S -> S]] /\ \A k \in 1..n, r \in S : F[k][r] = Op(r, k)
  BY <1>4
<1> HIDE DEF F
<1>6. \A s \in SUBSET (1..n) : s # {} => Max(s) \in 1..n
  BY <1>2, MaxIndex
<1>7. \E f : E(f)
  <2>1. PICK f \in [SUBSET (1..n) -> S] : Folds(f, n, base, F)
    BY <1>2, <1>3, <1>5, FoldMade
  <2>2. ASSUME NEW s \in SUBSET (1..n), s # {}
        PROVE  F[Max(s)][f[s \ {Max(s)}]] = Op(f[s \ {Max(s)}], Max(s))
    <3>1. s \ {Max(s)} \in SUBSET (1..n)
      OBVIOUS
    <3>2. QED
      BY <3>1, <2>2, <1>5, <1>6
  <2>3. E(f)
    BY <2>1, <2>2, <1>2 DEF Folds
  <2>4. QED
    BY <2>3
<1>8. E(it)
  <2> HIDE DEF E
  <2> QED
    BY <1>7
<1> HIDE DEF it
<1>9. it[{}] = base
  BY <1>8
<1>10. ASSUME NEW s \in SUBSET (1..n), s # {}, it[s \ {Max(s)}] \in S
       PROVE  it[s] = F[Max(s)][it[s \ {Max(s)}]]
  <2>1. it[s] = Op(it[s \ {Max(s)}], Max(s))
    BY <1>8, <1>10, <1>2
  <2>2. QED
    BY <2>1, <1>5, <1>6, <1>10
<1> HIDE DEF E
<1>11. PICK h \in [0..n -> S] : h[n] = it[1..n] /\ Passes(h, n, base, F)
  <2>1. Inside(it, n, S, base, F)
    BY <1>9, <1>10 DEF Inside
  <2>2. QED
    BY <1>2, <1>3, <1>5, <2>1, FoldSteps
<1>12. h[0] = base /\ \A k \in 1..n : h[k] = Op(h[k - 1], k)
  <2>1. \A k \in 1..n : h[k - 1] \in S
    BY <1>2
  <2>2. QED
    BY <1>11, <1>5, <2>1 DEF Passes
<1>13. QED
  BY <1>1, <1>2, <1>11, <1>12 DEF Op, n, S, base, Puts

\* A placement is one.
LEMMA PlaceType ==
  ASSUME cost \in [Named -> Res], NEW bins, Distinct(bins), NEW bound,
         NEW items \in Seq(Named)
  PROVE  Place(items, bound, bins) \in Filling(bins)
<1>1. PICK h \in [0..Len(items) -> Filling(bins)] :
        h[Len(items)] = Place(items, bound, bins)
  BY PlaceSteps
<1>2. Len(items) \in 0..Len(items)
  OBVIOUS
<1>3. QED
  BY <1>1, <1>2

\* What is placed and what is left over are together what there was to place.
Accounts(d, f, t) ==
  /\ d.free = f.free
  /\ \A a \in Named : d.granted[a] + Tally(f.left, {a}) = Tally(t, {a})

\* One item put: it is placed, or it is left.
LEMMA PutStands ==
  ASSUME cost \in [Named -> Res], NEW bins, Distinct(bins), NEW bound \in SUBSET Named,
         NEW f \in Filling(bins), NEW b \in Named, NEW t \in Seq(Named),
         NEW d \in Stands(bound, bins), Accounts(d, f, t)
  PROVE  \E e \in Stands(bound, bins) : Accounts(e, Put(f, b, bound, bins), Append(t, b))
<1> DEFINE g == Put(f, b, bound, bins)
<1>0. /\ d.free = f.free
      /\ \A a \in Named : d.granted[a] + Tally(f.left, {a}) = Tally(t, {a})
  BY DEF Accounts
<1>1. f.left \in Seq(Named) /\ d.granted \in [Named -> Nat]
  BY StandsType DEF Filling
<1>2. ASSUME NEW a \in Named
      PROVE  /\ Tally(Append(t, b), {a}) = Tally(t, {a}) + (IF a = b THEN 1 ELSE 0)
             /\ Tally(t, {a}) \in Nat
             /\ Tally(Append(f.left, b), {a}) = Tally(f.left, {a}) + (IF a = b THEN 1 ELSE 0)
             /\ Tally(f.left, {a}) \in Nat
  <2>1. Tally(t, {a}) \in Nat
    BY TallyType
  <2>2. Tally(f.left, {a}) \in Nat
    BY <1>1, TallyType
  <2>3. Tally(Append(t, b), {a}) = IF b \in {a} THEN Tally(t, {a}) + 1 ELSE Tally(t, {a})
    BY TallyMore
  <2>4. Tally(Append(f.left, b), {a})
          = IF b \in {a} THEN Tally(f.left, {a}) + 1 ELSE Tally(f.left, {a})
    BY <1>1, TallyMore
  <2>5. QED
    BY <2>1, <2>2, <2>3, <2>4
<1>3. CASE g.free = f.free /\ g.left = Append(f.left, b)
  <2>1. ASSUME NEW a \in Named
        PROVE  d.granted[a] + Tally(g.left, {a}) = Tally(Append(t, b), {a})
    <3>1. d.granted[a] \in Nat /\ d.granted[a] + Tally(f.left, {a}) = Tally(t, {a})
      BY <1>0, <1>1
    <3>2. Tally(g.left, {a}) = Tally(f.left, {a}) + (IF a = b THEN 1 ELSE 0)
      BY <1>2, <1>3
    <3> HIDE DEF g
    <3>3. QED
      BY <1>2, <3>1, <3>2
  <2> HIDE DEF g
  <2>2. d.free = g.free
    BY <1>0, <1>3
  <2>3. QED
    BY <2>1, <2>2 DEF g, Accounts
<1>4. CASE \E i \in Taking(b, bound, bins, f.free) :
             /\ i \in DOMAIN bins /\ g.free = [f.free EXCEPT ![i] = Minus(@, cost[b])]
             /\ g.left = f.left
  <2> HIDE DEF g
  <2>1. PICK i \in Taking(b, bound, bins, d.free) :
          /\ i \in DOMAIN bins /\ g.free = [f.free EXCEPT ![i] = Minus(@, cost[b])]
          /\ g.left = f.left
    BY <1>0, <1>4
  <2>2. PICK e : e = [d EXCEPT !.free[i] = Minus(@, cost[b]), !.granted[b] = @ + 1,
                               !.placed[b] = Append(@, i)]
    OBVIOUS
  <2>3. e \in Stands(bound, bins)
    BY <2>1, <2>2, Granting
  <2>4. d = [free |-> d.free, granted |-> d.granted, placed |-> d.placed, out |-> d.out]
    BY StandsType
  <2>5. e.free = [d.free EXCEPT ![i] = Minus(@, cost[b])]
        /\ e.granted = [d.granted EXCEPT ![b] = @ + 1]
    BY <2>2, <2>4
  <2>6. ASSUME NEW a \in Named
        PROVE  e.granted[a] + Tally(g.left, {a}) = Tally(Append(t, b), {a})
    <3>1. d.granted[a] \in Nat /\ d.granted[a] + Tally(f.left, {a}) = Tally(t, {a})
      BY <1>0, <1>1
    <3>2. e.granted[a] = d.granted[a] + (IF a = b THEN 1 ELSE 0)
      BY <1>1, <2>5
    <3>3. QED
      BY <1>2, <2>1, <3>1, <3>2
  <2>7. e.free = g.free
    BY <1>0, <2>1, <2>5
  <2>8. QED
    BY <2>3, <2>6, <2>7 DEF g, Accounts
<1>5. \/ g.free = f.free /\ g.left = Append(f.left, b)
      \/ \E i \in Taking(b, bound, bins, f.free) :
             /\ i \in DOMAIN bins /\ g.free = [f.free EXCEPT ![i] = Minus(@, cost[b])]
             /\ g.left = f.left
  <2>1. Takes(g, f, b, bound, bins)
    BY PutIs
  <2> HIDE DEF g
  <2>2. QED
    BY <2>1 DEF Takes
<1> HIDE DEF g
<1>6. QED
  BY <1>3, <1>4, <1>5

\* What is placed and what is left over are together what was asked for: a placement
\* that leaves nothing over stands on the bins.
LEMMA PlaceStands ==
  ASSUME cost \in [Named -> Res], NEW bins, Distinct(bins), NEW bound \in SUBSET Named,
         NEW items \in Seq(Named), AllPlaced(items, bound, bins)
  PROVE  \E d \in Stands(bound, bins) :
           \A a \in Named : d.granted[a] = Tally(items, {a})
<1> DEFINE n == Len(items)
           t == [k \in 0..n |-> [j \in 1..k |-> items[j]]]
<1>1. PICK h \in [0..n -> Filling(bins)] :
        h[0] = Unfilled(bins) /\ h[n] = Place(items, bound, bins) /\ Puts(h, items, bound, bins)
  BY PlaceSteps
<1> DEFINE Q(k, d) == Accounts(d, h[k], t[k])
           P == {k \in 0..n : \E d \in Stands(bound, bins) : Q(k, d)}
<1>2. /\ n \in Nat /\ t[0] = << >> /\ t[n] = items /\ \A k \in 0..n : t[k] \in Seq(Named)
      /\ \A k \in 1..n : items[k] \in Named
  <2>1. n \in Nat /\ \A k \in 1..n : items[k] \in Named
    OBVIOUS
  <2>2. t[0] = << >>
    BY <2>1
  <2>3. t[n] = items
    BY <2>1
  <2>4. ASSUME NEW k \in 0..n PROVE t[k] \in Seq(Named)
    <3>1. k \in Nat /\ \A j \in 1..k : items[j] \in Named
      BY <2>1
    <3>2. [j \in 1..k |-> items[j]] \in Seq(Named)
      BY <3>1
    <3>3. QED
      BY <3>2
  <2>5. QED
    BY <2>1, <2>2, <2>3, <2>4
<1>3. ASSUME NEW k \in 1..n PROVE t[k] = Append(t[k - 1], items[k])
  <2>1. k \in 0..n /\ k - 1 \in 0..n /\ k - 1 \in Nat
    BY <1>2
  <2>2. t[k - 1] \in Seq(Named) /\ t[k] \in Seq(Named)
    BY <1>2, <2>1
  <2>3. t[k] = [j \in 1..k |-> items[j]] /\ t[k - 1] = [j \in 1..(k - 1) |-> items[j]]
    BY <2>1
  <2>4. Len(t[k - 1]) = k - 1 /\ Len(t[k]) = k
    BY <2>1, <2>2, <2>3
  <2>5. QED
    BY <2>1, <2>2, <2>3, <2>4
<1> HIDE DEF t
<1>4. 0 \in P
  <2> DEFINE start == [free |-> Room(bins), granted |-> [a \in Named |-> 0],
                       placed |-> [a \in Named |-> << >>], out |-> {}]
  <2>1. start \in Stands(bound, bins)
    BY StandsStart
  <2>2. << >> \in Seq(Named)
    OBVIOUS
  <2>3. ASSUME NEW a \in Named PROVE Tally(<< >>, {a}) = 0
    <3>1. Tally(<< >>, {a}) \in Nat /\ Tally(<< >>, {a}) <= Len(<< >>)
      BY <2>2, TallyType
    <3>2. QED
      BY <3>1
  <2>4. Q(0, start)
    <3>1. h[0].free = Room(bins) /\ h[0].left = << >>
      BY <1>1 DEF Unfilled
    <3>2. start.free = Room(bins) /\ \A a \in Named : start.granted[a] = 0
      OBVIOUS
    <3>3. QED
      BY <3>1, <3>2, <2>3, <1>2 DEF Accounts
  <2> HIDE DEF start, Q, n
  <2>5. QED
    BY <2>1, <2>4, <1>2
<1>5. ASSUME NEW k \in 1..n, k - 1 \in P PROVE k \in P
  <2>1. PICK d \in Stands(bound, bins) : Q(k - 1, d)
    BY <1>5
  <2>2. /\ h[k - 1] \in Filling(bins) /\ items[k] \in Named /\ t[k - 1] \in Seq(Named)
        /\ h[k] = Put(h[k - 1], items[k], bound, bins) /\ t[k] = Append(t[k - 1], items[k])
        /\ k \in 0..n
    <3>1. k \in 0..n /\ k - 1 \in 0..n
      BY <1>2
    <3>2. h[k - 1] \in Filling(bins)
      BY <1>1, <3>1
    <3>3. items[k] \in Named /\ t[k - 1] \in Seq(Named)
      BY <1>2, <3>1
    <3>4. h[k] = Put(h[k - 1], items[k], bound, bins)
      BY <1>1 DEF Puts
    <3>5. t[k] = Append(t[k - 1], items[k])
      BY <1>3
    <3>6. QED
      BY <3>1, <3>2, <3>3, <3>4, <3>5
  <2>3. PICK f, b, s : f = h[k - 1] /\ b = items[k] /\ s = t[k - 1]
    OBVIOUS
  <2>4. /\ f \in Filling(bins) /\ b \in Named /\ s \in Seq(Named) /\ Accounts(d, f, s)
        /\ h[k] = Put(f, b, bound, bins) /\ t[k] = Append(s, b)
    BY <2>1, <2>2, <2>3
  <2>5. PICK e \in Stands(bound, bins) : Accounts(e, Put(f, b, bound, bins), Append(s, b))
    BY <2>4, PutStands
  <2>6. Q(k, e)
    BY <2>4, <2>5
  <2> HIDE DEF Q, n
  <2>7. QED
    BY <2>2, <2>6
<1>6. n \in P
  <2> HIDE DEF P, n
  <2>1. \A k \in 0..n : k \in P
    BY <1>2, <1>4, <1>5, Climb
  <2>2. QED
    BY <1>2, <2>1
<1>7. PICK d \in Stands(bound, bins) : Q(n, d)
  BY <1>6
<1>8. ASSUME NEW a \in Named PROVE d.granted[a] = Tally(items, {a})
  <2>1. h[n].left = << >>
    BY <1>1 DEF AllPlaced
  <2>2. << >> \in Seq(Named)
    OBVIOUS
  <2>3. Tally(<< >>, {a}) \in Nat /\ Tally(<< >>, {a}) <= Len(<< >>)
    BY <2>2, TallyType
  <2>4. d.granted[a] \in Nat
    BY StandsType
  <2>5. d.granted[a] + Tally(<< >>, {a}) = Tally(items, {a})
    BY <1>2, <1>7, <2>1 DEF Accounts
  <2>6. QED
    BY <2>3, <2>4, <2>5
<1>9. QED
  BY <1>8

\* The packer is sound: when first-fit places every item, the counts have a placement,
\* and so have any smaller counts.  (place, demand_items.)
THEOREM AllPlacedHolds ==
  ASSUME cost \in [Named -> Res], NEW bins, Distinct(bins), NEW bound \in SUBSET Named,
         NEW counts \in [Named -> Nat], AllPlaced(Items(counts, bound), bound, bins),
         NEW c \in [Named -> Nat], \A a \in Named : c[a] <= counts[a]
  PROVE  Holds(c, bound, bins)
<1> DEFINE items == Items(counts, bound)
<1>1. items \in Seq(Named) /\ \A a \in Named : Tally(items, {a}) = counts[a]
  BY ItemsTally
<1> HIDE DEF items
<1>2. PICK d \in Stands(bound, bins) : \A a \in Named : d.granted[a] = Tally(items, {a})
  <2>1. AllPlaced(items, bound, bins)
    BY DEF items
  <2>2. items \in Seq(Named)
    BY <1>1
  <2>3. QED
    BY <2>1, <2>2, PlaceStands
<1>3. \A a \in Named : c[a] <= d.granted[a]
  BY <1>1, <1>2
<1>4. QED
  BY <1>3, StandsHoldLess

-----------------------------------------------------------------------------
(* How many workers are needed is a number.                                *)

\* New servers being counted.
Opening == [left : Seq(Named), count : Nat, stop : BOOLEAN]

\* Opening a server keeps the types.
LEMMA OpenType ==
  ASSUME cost \in [Named -> Res], NEW d \in Opening, NEW k \in Int, NEW new \in Res
  PROVE  Open(d, k, new) \in Opening
<1> DEFINE bins == <<Bin(k, new, FALSE)>>
           still == Place(d.left, Named, bins).left
<1>1. /\ d.left \in Seq(Named) /\ d.count \in Nat /\ d.stop \in BOOLEAN
      /\ d = [left |-> d.left, count |-> d.count, stop |-> d.stop]
  BY DEF Opening
<1>2. Distinct(bins)
  <2> DEFINE b == Bin(k, new, FALSE)
  <2>1. b \in Bins
    BY DEF Bin, Bins
  <2> HIDE DEF b
  <2>2. <<b>> \in Seq(Bins) /\ DOMAIN <<b>> = {1}
    BY <2>1
  <2>3. Distinct(<<b>>)
    BY <2>2 DEF Distinct
  <2>4. QED
    BY <2>3 DEF b
<1> HIDE DEF bins
<1>3. Place(d.left, Named, bins) \in Filling(bins)
  BY <1>1, <1>2, PlaceType
<1>4. still \in Seq(Named)
  BY <1>3 DEF Filling
<1>5. Open(d, k, new) = IF d.left = << >> \/ d.stop THEN d
                        ELSE IF still = d.left THEN [d EXCEPT !.stop = TRUE]
                        ELSE [d EXCEPT !.left = still, !.count = @ + 1]
  BY DEF Open, bins
<1> HIDE DEF still
<1>6. [d EXCEPT !.stop = TRUE] \in Opening
  BY DEF Opening
<1>7. [d EXCEPT !.left = still, !.count = @ + 1] \in Opening
  <2>1. d.count + 1 \in Nat
    BY <1>1
  <2>2. PICK e : e = [d EXCEPT !.left = still, !.count = @ + 1]
    OBVIOUS
  <2>3. e.left = still /\ e.count = d.count + 1 /\ e.stop = d.stop
        /\ e = [left |-> e.left, count |-> e.count, stop |-> e.stop]
    BY <1>1, <2>2
  <2>4. e \in Opening
    BY <1>1, <1>4, <2>1, <2>3 DEF Opening
  <2>5. QED
    BY <2>2, <2>4
<1>8. QED
  BY <1>5, <1>6, <1>7

\* Opening one server after the other.
LEMMA OpenSteps ==
  ASSUME cost \in [Named -> Res], NEW left \in Seq(Named), NEW new \in Res, MaxWorkers \in Nat
  PROVE  \E h \in [0..(MaxWorkers + 3) -> Opening] :
           h[MaxWorkers + 3].count = NewServers(left, new)
<1> DEFINE n == MaxWorkers + 3
           S == Opening
           base == [left |-> left, count |-> 0, stop |-> FALSE]
           Op(r, k) == Open(r, [j \in 1..(MaxWorkers + 3) |-> j][k], new)
           F == [k \in 1..n |-> [r \in S |-> Op(r, k)]]
           E(it) == it = [s \in SUBSET DOMAIN [j \in 1..(MaxWorkers + 3) |-> j] |->
                            IF s = {} THEN base ELSE Op(it[s \ {Max(s)}], Max(s))]
           it == CHOOSE it : E(it)
<1>1. NewServers(left, new) = it[DOMAIN [j \in 1..(MaxWorkers + 3) |-> j]].count
  BY DEF NewServers, FoldLeft, MapThenFoldSet
<1>2. n \in Nat /\ DOMAIN [j \in 1..(MaxWorkers + 3) |-> j] = 1..n
  OBVIOUS
<1>3. base \in S
  BY DEF Opening
<1>4. ASSUME NEW k \in 1..n, NEW r \in S
      PROVE  Op(r, k) \in S
  <2>1. [j \in 1..(MaxWorkers + 3) |-> j][k] = k /\ k \in Int
    OBVIOUS
  <2>2. QED
    BY <2>1, OpenType
<1> HIDE DEF n, Op, S, base
<1>5. F \in [1..n -> [S -> S]] /\ \A k \in 1..n, r \in S : F[k][r] = Op(r, k)
  BY <1>4
<1> HIDE DEF F
<1>6. \A s \in SUBSET (1..n) : s # {} => Max(s) \in 1..n
  BY <1>2, MaxIndex
<1>7. \E f : E(f)
  <2>1. PICK f \in [SUBSET (1..n) -> S] : Folds(f, n, base, F)
    BY <1>2, <1>3, <1>5, FoldMade
  <2>2. ASSUME NEW s \in SUBSET (1..n), s # {}
        PROVE  F[Max(s)][f[s \ {Max(s)}]] = Op(f[s \ {Max(s)}], Max(s))
    <3>1. s \ {Max(s)} \in SUBSET (1..n)
      OBVIOUS
    <3>2. QED
      BY <3>1, <2>2, <1>5, <1>6
  <2>3. E(f)
    BY <2>1, <2>2, <1>2 DEF Folds
  <2>4. QED
    BY <2>3
<1>8. E(it)
  <2> HIDE DEF E
  <2> QED
    BY <1>7
<1> HIDE DEF it
<1>9. it[{}] = base
  BY <1>8
<1>10. ASSUME NEW s \in SUBSET (1..n), s # {}, it[s \ {Max(s)}] \in S
       PROVE  it[s] = F[Max(s)][it[s \ {Max(s)}]]
  <2>1. it[s] = Op(it[s \ {Max(s)}], Max(s))
    BY <1>8, <1>10, <1>2
  <2>2. QED
    BY <2>1, <1>5, <1>6, <1>10
<1> HIDE DEF E
<1>11. PICK h \in [0..n -> S] : h[n] = it[1..n] /\ Passes(h, n, base, F)
  <2>1. Inside(it, n, S, base, F)
    BY <1>9, <1>10 DEF Inside
  <2>2. QED
    BY <1>2, <1>3, <1>5, <2>1, FoldSteps
<1>12. h[0] = base /\ \A k \in 1..n : h[k] = Op(h[k - 1], k)
  <2>1. \A k \in 1..n : h[k - 1] \in S
    BY <1>2
  <2>2. QED
    BY <1>11, <1>5, <2>1 DEF Passes
<1>13. QED
  BY <1>1, <1>2, <1>11, <1>12 DEF Op, n, S, base

\* So many workers are needed, whether the catalogue can be read or not.
LEMMA NeededType ==
  ASSUME cost \in [Named -> Res], NEW wants \in [Named -> Nat], NEW pressed \in BOOLEAN,
         NEW master, NEW bins, Distinct(bins), NEW new, new = NoSize \/ new \in Res
  PROVE  WorkersNeeded(wants, pressed, master, bins, new) \in Nat
<1> DEFINE items == Items(wants, Named)
           placed == Place(items, Named, bins)
           used == Cardinality(placed.used)
<1>1. items \in Seq(Named)
  <2>1. Named \in SUBSET Named
    OBVIOUS
  <2>2. QED
    BY <2>1, ItemsTally
<1> HIDE DEF items
<1>2. placed \in Filling(bins)
  BY <1>1, PlaceType
<1>3. placed.left \in Seq(Named) /\ placed.used \in SUBSET DOMAIN bins
  BY <1>2 DEF Filling
<1>4. used \in Nat
  <2>1. Len(bins) \in Nat /\ DOMAIN bins = 1..Len(bins)
    BY BinTypes
  <2>2. IsFiniteSet(1..Len(bins))
    BY <2>1, CountTo
  <2>3. IsFiniteSet(placed.used)
    BY <1>3, <2>1, <2>2, FS_Subset
  <2>4. QED
    BY <2>3, FS_CardinalityType
<1>5. Len(bins) \in Nat
  BY BinTypes
<1>6. new \in Res => NewServers(placed.left, new) \in Nat
  <2>1. SUFFICES ASSUME new \in Res PROVE NewServers(placed.left, new) \in Nat
    OBVIOUS
  <2>2. MaxWorkers \in Nat
    BY PackerConstants DEF PackerConstants
  <2>3. PICK h \in [0..(MaxWorkers + 3) -> Opening] :
          h[MaxWorkers + 3].count = NewServers(placed.left, new)
    BY <1>3, <2>1, <2>2, OpenSteps
  <2>4. h[MaxWorkers + 3] \in Opening
    BY <2>2
  <2>5. QED
    BY <2>3, <2>4 DEF Opening
<1>7. ServersNeeded(items, bins, new, pressed) =
        IF placed.left = << >> THEN used + (IF pressed THEN 1 ELSE 0)
        ELSE IF new = NoSize THEN Len(bins)
        ELSE used + NewServers(placed.left, new) + (IF pressed THEN 1 ELSE 0)
  BY DEF ServersNeeded
<1> HIDE DEF placed, used
<1>8. ServersNeeded(items, bins, new, pressed) \in Nat
  BY <1>4, <1>5, <1>6, <1>7
<1>9. QED
  BY <1>8 DEF WorkersNeeded, items

-----------------------------------------------------------------------------
(* The types of the state.                                                 *)

\* Counts are within the bounds of the policies.
LEMMA CountsAre ==
  ASSUME NEW c
  PROVE  c \in Counts <=> /\ c \in [Named -> Nat]
                          /\ \A a \in Named : c[a] >= Least[a] /\ c[a] <= Most[a]
<1>1. Max(Range(Most)) \in Nat /\ \A a \in Named : Most[a] \in 0..Max(Range(Most))
  BY Parameters, MaxCount
<1>2. \A a \in Named : Least[a] \in Nat /\ Most[a] \in Nat
  BY Parameters
<1>3. ASSUME c \in Counts
      PROVE  /\ c \in [Named -> Nat]
             /\ \A a \in Named : c[a] >= Least[a] /\ c[a] <= Most[a]
  <2>1. c \in [Named -> 0..Max(Range(Most))] /\ \A a \in Named : c[a] \in Least[a]..Most[a]
    BY <1>3 DEF Counts
  <2>2. QED
    BY <2>1, <1>1, <1>2
<1>4. ASSUME c \in [Named -> Nat],
             \A a \in Named : c[a] >= Least[a] /\ c[a] <= Most[a]
      PROVE  c \in Counts
  <2>1. \A a \in Named : c[a] \in 0..Max(Range(Most)) /\ c[a] \in Least[a]..Most[a]
    BY <1>1, <1>2, <1>4
  <2>2. c \in [Named -> 0..Max(Range(Most))]
    BY <1>4, <2>1
  <2>3. QED
    BY <2>1, <2>2 DEF Counts
<1>5. QED
  BY <1>3, <1>4

\* A fleet with a worker less is a fleet, one shorter.
LEMMA RemoveAtType ==
  ASSUME NEW S, NEW s \in Seq(S), NEW i \in DOMAIN s
  PROVE  RemoveAt(s, i) \in Seq(S) /\ Len(RemoveAt(s, i)) = Len(s) - 1
<1>1. Len(s) \in Nat /\ i \in 1..Len(s) /\ \A k \in 1..Len(s) : s[k] \in S
  OBVIOUS
<1>2. SubSeq(s, 1, i - 1) \in Seq(S) /\ Len(SubSeq(s, 1, i - 1)) = i - 1
  <2>1. SubSeq(s, 1, i - 1) \in Seq(S)
    BY <1>1
  <2>2. QED
    BY <1>1, <2>1
<1>3. SubSeq(s, i + 1, Len(s)) \in Seq(S) /\ Len(SubSeq(s, i + 1, Len(s))) = Len(s) - i
  <2>1. SubSeq(s, i + 1, Len(s)) \in Seq(S)
    BY <1>1
  <2>2. QED
    BY <1>1, <2>1
<1> DEFINE u == SubSeq(s, 1, i - 1)
           v == SubSeq(s, i + 1, Len(s))
<1> HIDE DEF u, v
<1>4. u \in Seq(S) /\ v \in Seq(S) /\ Len(u) = i - 1 /\ Len(v) = Len(s) - i
  BY <1>2, <1>3 DEF u, v
<1>5. RemoveAt(s, i) = u \o v
  BY DEF RemoveAt, u, v
<1>6. QED
  BY <1>1, <1>4, <1>5

\* The fleet and what is said of it.
FleetOK ==
  /\ fleet \in Seq(DOMAIN Plans) /\ booting \in Nat
  /\ Len(fleet) + booting <= MaxWorkers
  /\ young \in BOOLEAN /\ resting \in BOOLEAN /\ settling \in BOOLEAN

\* TypeOK by its parts, of this state
LEMMA TypeParts ==
  TypeOK <=> /\ cost \in Costs /\ want \in Counts /\ count \in Counts
             /\ pinned \in BOOLEAN /\ home \in BOOLEAN /\ pressured \in BOOLEAN
             /\ FleetOK
             /\ told = Idle \/ told \in [pin : BOOLEAN, ceiling : [Named -> Nat \cup {-1}]]
BY DEF TypeOK, FleetOK

\* and of the next.
LEMMA TypePartsNext ==
  TypeOK' <=> /\ cost' \in Costs /\ want' \in Counts /\ count' \in Counts
              /\ pinned' \in BOOLEAN /\ home' \in BOOLEAN /\ pressured' \in BOOLEAN
              /\ FleetOK'
              /\ told' = Idle \/ told' \in [pin : BOOLEAN, ceiling : [Named -> Nat \cup {-1}]]
BY DEF TypeOK, FleetOK, Counts, Idle

\* The types hold at first.
LEMMA TypeInit ==
  ASSUME Init
  PROVE  TypeOK
<1>1. Least \in Counts
  <2>1. Least \in [Named -> Nat] /\ \A a \in Named : Least[a] >= Least[a] /\ Least[a] <= Most[a]
    BY Parameters
  <2>2. QED
    BY <2>1, CountsAre
<1>2. FleetOK
  <2>1. fleet = << >> /\ booting = 0 /\ young = FALSE /\ resting = FALSE /\ settling = FALSE
    BY DEF Init
  <2>2. << >> \in Seq(DOMAIN Plans) /\ Len(<< >>) = 0
    OBVIOUS
  <2>3. MaxWorkers \in Nat
    BY Parameters
  <2>4. fleet \in Seq(DOMAIN Plans)
    BY <2>1, <2>2
  <2>5. booting \in Nat /\ Len(fleet) + booting <= MaxWorkers
    BY <2>1, <2>2, <2>3
  <2>6. young \in BOOLEAN /\ resting \in BOOLEAN /\ settling \in BOOLEAN
    BY <2>1
  <2>7. QED
    BY <2>4, <2>5, <2>6 DEF FleetOK
<1>3. cost \in Costs /\ want \in Counts /\ count = Least /\ pinned = FALSE /\ home = TRUE
      /\ pressured = FALSE /\ told = Idle
  BY DEF Init
<1>4. QED
  BY <1>1, <1>2, <1>3, TypeParts

\* What a loop works with is typed.
LEMMA LoopTypes ==
  ASSUME TypeOK, NEW new \in {Smallest, NoSize}
  PROVE  /\ cost \in [Named -> Res] /\ Pinned \in SUBSET Named
         /\ Distinct(Eligible(fleet)) /\ Distinct(Workers(fleet))
         /\ want \in [Named -> Nat] /\ count \in [Named -> Nat]
         /\ Ceilings \in [Named -> Nat] /\ \A a \in Named : count[a] <= Ceilings[a]
         /\ Wanted(new) \in Nat /\ Wanted(new) <= MaxWorkers
<1>1. cost \in [Named -> Res] /\ fleet \in Seq(DOMAIN Plans)
  BY Parameters, TypeParts DEF FleetOK
<1>2. Pinned \in SUBSET Named
  BY DEF Pinned
<1>3. Distinct(Eligible(fleet)) /\ Distinct(Workers(fleet))
  BY <1>1, EligibleDistinct, WorkersDistinct
<1>4. want \in [Named -> Nat]
  BY TypeParts, CountsAre
<1>5. count \in [Named -> Nat] /\ \A a \in Named : count[a] <= Most[a]
  BY TypeParts, CountsAre
<1>6. Ceilings \in [Named -> Nat] /\ \A a \in Named : count[a] <= Ceilings[a]
  <2> DEFINE granted == Granted(Most, Pinned, Eligible(fleet))
  <2>1. granted \in [Named -> Nat]
    BY <1>1, <1>2, <1>3, Parameters, GrantedRolls
  <2>2. Ceilings = [a \in Named |-> Larger(Smaller(count[a], Most[a]), granted[a])]
    BY DEF Ceilings, Admit
  <2> HIDE DEF granted
  <2>3. ASSUME NEW a \in Named
        PROVE  /\ Larger(Smaller(count[a], Most[a]), granted[a]) \in Nat
               /\ count[a] <= Larger(Smaller(count[a], Most[a]), granted[a])
    <3>1. count[a] \in Nat /\ Most[a] \in Nat /\ granted[a] \in Nat /\ count[a] <= Most[a]
      BY <1>5, <2>1, Parameters
    <3>2. QED
      BY <3>1 DEF Larger, Smaller
  <2>4. QED
    BY <2>2, <2>3
<1>7. Wanted(new) \in Nat /\ Wanted(new) <= MaxWorkers
  <2>1. new = NoSize \/ new \in Res
    <3>1. Plans \in Seq(Res) /\ 1 \in DOMAIN Plans
      BY Parameters
    <3>2. Plans[1] \in Res
      BY <3>1
    <3>3. QED
      BY <3>2 DEF Smallest
  <2>2. pressured \in BOOLEAN
    BY TypeParts
  <2>3. WorkersNeeded(want, pressured, Master, Workers(fleet), new) \in Nat
    BY <1>1, <1>3, <1>4, <2>1, <2>2, NeededType
  <2>4. MinWorkers \in Nat /\ MaxWorkers \in Nat /\ MinWorkers <= MaxWorkers
    BY Parameters
  <2>5. QED
    BY <2>3, <2>4 DEF Wanted, Clamp, Larger, Smaller
<1>8. QED
  BY <1>1, <1>2, <1>3, <1>4, <1>5, <1>6, <1>7

\* A resized worker is still one worker.
LEMMA ResizedType ==
  ASSUME FleetOK, NEW i \in DOMAIN fleet, NEW rung \in DOMAIN Plans
  PROVE  /\ Resized(i, rung) \in Seq(DOMAIN Plans) /\ Len(Resized(i, rung)) = Len(fleet)
         /\ DOMAIN Resized(i, rung) = DOMAIN fleet
         /\ \A j \in DOMAIN fleet : j # i => Resized(i, rung)[j] = fleet[j]
         /\ Resized(i, rung)[i] = rung
BY DEF Resized, FleetOK

\* Growing a worker keeps the fleet typed,
LEMMA GrowsType ==
  ASSUME FleetOK, NEW need, NEW sole, NEW live, Grows(need, sole, live)
  PROVE  FleetOK'
<1>1. PICK i \in Growing(sole, live) : fleet' = Resized(i, fleet[i] + 1)
  BY DEF Grows
<1>2. i \in DOMAIN fleet /\ fleet[i] + 1 \in DOMAIN Plans
  BY DEF Growing, MayGrow, Ladder
<1>3. fleet' \in Seq(DOMAIN Plans) /\ Len(fleet') = Len(fleet)
  BY <1>1, <1>2, ResizedType
<1>4. settling' = TRUE /\ booting' = booting /\ young' = young /\ resting' = resting
  BY DEF Grows
<1>5. QED
  BY <1>3, <1>4 DEF FleetOK

\* so does cutting one,
LEMMA CutsType ==
  ASSUME FleetOK, NEW need, NEW sole, NEW live, Cuts(need, sole, live)
  PROVE  FleetOK'
<1>1. CASE NoFleetChange
  BY <1>1 DEF NoFleetChange, FleetOK
<1>2. CASE ~NoFleetChange
  <2>1. PICK i \in Cutting(sole, live) : fleet' = Resized(i, fleet[i] - 1)
    BY <1>2 DEF Cuts
  <2>2. i \in DOMAIN fleet /\ fleet[i] - 1 \in DOMAIN Plans
    BY DEF Cutting, MayCut, Ladder
  <2>3. fleet' \in Seq(DOMAIN Plans) /\ Len(fleet') = Len(fleet)
    BY <2>1, <2>2, ResizedType
  <2>4. settling' = TRUE /\ booting' = booting /\ young' = young /\ resting' = resting
    BY <1>2 DEF Cuts
  <2>5. QED
    BY <2>3, <2>4 DEF FleetOK
<1>3. QED
  BY <1>1, <1>2

\* and buying: never more than the budget, whatever is needed.
LEMMA BuysType ==
  ASSUME FleetOK, NEW need \in Nat, NEW sole, NEW live, Buys(need, sole, live)
  PROVE  FleetOK'
<1>1. CASE NoFleetChange
  BY <1>1 DEF NoFleetChange, FleetOK
<1>2. CASE ~NoFleetChange
  <2>1. /\ need > Owned /\ Owned < MaxWorkers /\ young' = TRUE
        /\ booting' = booting + Smaller(need - Owned, MaxWorkers - Owned)
        /\ fleet' = fleet /\ resting' = resting /\ settling' = settling
    BY <1>2 DEF Buys
  <2>2. /\ Len(fleet) \in Nat /\ booting \in Nat /\ MaxWorkers \in Nat
        /\ Owned = Len(fleet) + booting
    BY Parameters DEF FleetOK, Owned
  <2>3. booting' \in Nat /\ Len(fleet) + booting' <= MaxWorkers
    BY <2>1, <2>2 DEF Smaller
  <2>4. QED
    BY <2>1, <2>3 DEF FleetOK
<1>3. QED
  BY <1>1, <1>2

\* The worker that is removed is one that may go.
LEMMA RemovedMayGo ==
  ASSUME FleetOK, NEW live, Removable(live) # {}
  PROVE  Max(Removable(live)) \in DOMAIN fleet /\ Max(Removable(live)) \in Removable(live)
<1>1. Len(fleet) \in Nat /\ DOMAIN fleet = 1..Len(fleet)
  BY DEF FleetOK
<1>2. Removable(live) \in SUBSET (0..Len(fleet)) /\ Removable(live) \subseteq DOMAIN fleet
  BY <1>1 DEF Removable
<1>3. Max(Removable(live)) \in Removable(live)
  <2> DEFINE S == Removable(live)
  <2> HIDE DEF S
  <2>1. S \in SUBSET (0..Len(fleet)) /\ S # {}
    BY <1>2 DEF S
  <2>2. Max(S) \in S
    BY <1>1, <2>1, MaxIsMaximum
  <2>3. QED
    BY <2>2 DEF S
<1>4. QED
  BY <1>2, <1>3

\* Removing a worker keeps the fleet typed.
LEMMA RemovesType ==
  ASSUME FleetOK, NEW need, NEW live, Removes(need, live)
  PROVE  FleetOK'
<1>1. CASE NoFleetChange
  BY <1>1 DEF NoFleetChange, FleetOK
<1>2. CASE ~NoFleetChange
  <2>1. /\ Removable(live) # {} /\ fleet' = RemoveAt(fleet, Max(Removable(live)))
        /\ resting' = TRUE /\ booting' = booting /\ young' = young /\ settling' = settling
    BY <1>2 DEF Removes
  <2>2. Max(Removable(live)) \in DOMAIN fleet
    BY <2>1, RemovedMayGo
  <2>3. fleet' \in Seq(DOMAIN Plans) /\ Len(fleet') = Len(fleet) - 1
    BY <2>1, <2>2, RemoveAtType DEF FleetOK
  <2>4. Len(fleet) \in Nat /\ MaxWorkers \in Nat
    BY Parameters DEF FleetOK
  <2>5. QED
    BY <2>1, <2>3, <2>4 DEF FleetOK
<1>3. QED
  BY <1>1, <1>2

\* What is applied stays within the policy.
LEMMA CappedType ==
  ASSUME TypeOK, told # Idle, NEW c, c = [a \in Named |-> Capped(a)]
  PROVE  c \in Counts
<1>1. /\ want \in [Named -> Nat] /\ count \in [Named -> Nat]
      /\ \A a \in Named : /\ want[a] >= Least[a] /\ want[a] <= Most[a]
                          /\ count[a] >= Least[a] /\ count[a] <= Most[a]
  BY TypeParts, CountsAre
<1>2. told \in [pin : BOOLEAN, ceiling : [Named -> Nat \cup {-1}]]
  BY TypeParts
<1>3. ASSUME NEW a \in Named
      PROVE  Capped(a) \in Nat /\ Capped(a) >= Least[a] /\ Capped(a) <= Most[a]
  <2>1. /\ want[a] \in Nat /\ count[a] \in Nat /\ Least[a] \in Nat /\ Most[a] \in Nat
        /\ told.ceiling[a] \in Nat \cup {-1}
    BY <1>1, <1>2, Parameters
  <2>2. QED
    BY <2>1, <1>1 DEF Capped, Larger, Smaller
<1>4. QED
  BY <1>3, CountsAre

\* A loop keeps the types,
LEMMA TypeSizes ==
  ASSUME TypeOK, Sizes
  PROVE  TypeOK'
<1>0. PICK new \in {Smallest, NoSize}, sole \in SUBSET DOMAIN fleet :
        \E need \in {Wanted(new)}, ceilings \in {Ceilings}, live \in {Live} :
          /\ \/ Grows(need, sole, live) \/ Buys(need, sole, live)
             \/ Removes(need, live) \/ Cuts(need, sole, live)
          /\ \E hold \in {CanHold(ceilings)} :
               told' = [pin |-> need >= 1 /\ hold, ceiling |-> ceilings]
  BY DEF Sizes
<1>1. PICK need \in {Wanted(new)}, ceilings \in {Ceilings}, live \in {Live} :
        /\ \/ Grows(need, sole, live) \/ Buys(need, sole, live)
           \/ Removes(need, live) \/ Cuts(need, sole, live)
        /\ \E hold \in {CanHold(ceilings)} :
             told' = [pin |-> need >= 1 /\ hold, ceiling |-> ceilings]
  BY <1>0
<1>2. need \in Nat /\ ceilings \in [Named -> Nat]
  <2>1. Wanted(new) \in Nat /\ Ceilings \in [Named -> Nat]
    BY LoopTypes
  <2>2. QED
    BY <2>1
<1>3. FleetOK'
  <2>1. FleetOK
    BY TypeParts
  <2>2. QED
    BY <1>1, <1>2, <2>1, GrowsType, BuysType, RemovesType, CutsType
<1>4. told' \in [pin : BOOLEAN, ceiling : [Named -> Nat \cup {-1}]]
  <2>1. PICK hold \in {CanHold(ceilings)} :
          told' = [pin |-> need >= 1 /\ hold, ceiling |-> ceilings]
    BY <1>1
  <2>2. hold \in BOOLEAN
    BY <2>1 DEF CanHold
  <2>3. (need >= 1 /\ hold) \in BOOLEAN
    OBVIOUS
  <2>4. ceilings \in [Named -> Nat \cup {-1}]
    BY <1>2
  <2>5. QED
    BY <2>1, <2>3, <2>4
<1>5. /\ cost' = cost /\ want' = want /\ count' = count /\ pinned' = pinned /\ home' = home
      /\ pressured' = pressured
  BY DEF Sizes
<1>6. /\ cost \in Costs /\ want \in Counts /\ count \in Counts
      /\ pinned \in BOOLEAN /\ home \in BOOLEAN /\ pressured \in BOOLEAN
  BY TypeParts
<1>7. QED
  BY <1>3, <1>4, <1>5, <1>6, TypePartsNext

\* so does the emergency,
LEMMA TypeEmergency ==
  ASSUME TypeOK, Emergency
  PROVE  TypeOK'
<1>1. /\ cost \in Costs /\ want \in Counts /\ count \in Counts
      /\ pinned \in BOOLEAN /\ home \in BOOLEAN /\ pressured \in BOOLEAN /\ FleetOK
  BY TypeParts
<1>2. told' = [pin |-> FALSE, ceiling |-> NoLimit]
  BY DEF Emergency
<1>3. told' \in [pin : BOOLEAN, ceiling : [Named -> Nat \cup {-1}]]
  BY <1>2 DEF NoLimit
<1>4. /\ cost' = cost /\ want' = want /\ count' = count /\ pinned' = pinned /\ home' = home
      /\ pressured' = pressured
  BY DEF Emergency
<1>5. FleetOK'
  BY <1>1 DEF Emergency, NoFleetChange, FleetOK
<1>6. QED
  BY <1>1, <1>3, <1>4, <1>5, TypePartsNext

\* the autoscaler applying what it is told,
LEMMA TypeApplies ==
  ASSUME TypeOK, Applies
  PROVE  TypeOK'
<1>1. /\ cost \in Costs /\ want \in Counts /\ pressured \in BOOLEAN /\ home \in BOOLEAN
      /\ FleetOK
      /\ told = Idle \/ told \in [pin : BOOLEAN, ceiling : [Named -> Nat \cup {-1}]]
  BY TypeParts
<1>2. told # Idle /\ told' = Idle /\ count' = [a \in Named |-> Capped(a)]
      /\ pinned' = told.pin /\ home' = (home /\ ~told.pin)
      /\ cost' = cost /\ want' = want /\ pressured' = pressured
  BY DEF Applies
<1>3. count' \in Counts
  BY <1>2, CappedType
<1>4. FleetOK'
  BY <1>1 DEF Applies, FleetOK
<1>5. pinned' \in BOOLEAN
  BY <1>1, <1>2
<1>6. home' \in BOOLEAN
  BY <1>2
<1>7. QED
  BY <1>1, <1>2, <1>3, <1>4, <1>5, <1>6, TypePartsNext

\* and whatever happens between two loops.
LEMMA TypeWorld ==
  ASSUME TypeOK, World
  PROVE  TypeOK'
<1>1. /\ cost \in Costs /\ want \in Counts /\ count \in Counts
      /\ pinned \in BOOLEAN /\ home \in BOOLEAN /\ pressured \in BOOLEAN /\ FleetOK
      /\ told = Idle \/ told \in [pin : BOOLEAN, ceiling : [Named -> Nat \cup {-1}]]
  BY TypeParts
<1>2. CASE Joins
  <2>1. FleetOK'
    <3>1. /\ booting > 0 /\ booting' = booting - 1 /\ fleet' = Append(fleet, 1)
          /\ young' = young /\ resting' = resting /\ settling' = settling
      BY <1>2 DEF Joins
    <3>2. fleet \in Seq(DOMAIN Plans) /\ Len(fleet) \in Nat /\ booting \in Nat
          /\ Len(fleet) + booting <= MaxWorkers /\ MaxWorkers \in Nat
      BY <1>1, Parameters DEF FleetOK
    <3>3. 1 \in DOMAIN Plans
      BY Parameters
    <3>4. fleet' \in Seq(DOMAIN Plans) /\ Len(fleet') = Len(fleet) + 1
      BY <3>1, <3>2, <3>3
    <3>5. booting' \in Nat /\ Len(fleet') + booting' <= MaxWorkers
      BY <3>1, <3>2, <3>4
    <3>6. QED
      BY <1>1, <3>1, <3>4, <3>5 DEF FleetOK
  <2>2. /\ cost' = cost /\ want' = want /\ count' = count /\ pinned' = pinned
        /\ home' = home /\ pressured' = pressured /\ told' = told
    BY <1>2 DEF Joins, world
  <2>3. QED
    BY <1>1, <2>1, <2>2, TypePartsNext DEF Idle
<1>3. CASE Matures
  <2>1. FleetOK'
    BY <1>1, <1>3 DEF Matures, FleetOK
  <2>2. /\ cost' = cost /\ want' = want /\ count' = count /\ pinned' = pinned
        /\ home' = home /\ pressured' = pressured /\ told' = told
    BY <1>3 DEF Matures, world
  <2>3. QED
    BY <1>1, <2>1, <2>2, TypePartsNext DEF Idle
<1>4. CASE MovesHome
  <2>1. FleetOK'
    BY <1>1, <1>4 DEF MovesHome, FleetOK
  <2>2. /\ cost' = cost /\ want' = want /\ count' = count /\ pinned' = pinned
        /\ home' = TRUE /\ pressured' = pressured /\ told' = told
    BY <1>4 DEF MovesHome, world
  <2>3. QED
    BY <1>1, <2>1, <2>2, TypePartsNext DEF Idle
<1>5. CASE WantChanges
  <2>1. FleetOK'
    BY <1>1, <1>5 DEF WantChanges, FleetOK
  <2>2. /\ cost' = cost /\ want' \in Counts /\ count' = count /\ pinned' = pinned
        /\ home' = home /\ pressured' = pressured /\ told' = told
    BY <1>5 DEF WantChanges
  <2>3. QED
    BY <1>1, <2>1, <2>2, TypePartsNext DEF Idle
<1>6. CASE CostChanges
  <2>1. FleetOK'
    BY <1>1, <1>6 DEF CostChanges, FleetOK
  <2>2. /\ cost' \in Costs /\ want' = want /\ count' = count /\ pinned' = pinned
        /\ home' = home /\ pressured' = pressured /\ told' = told
    BY <1>6 DEF CostChanges
  <2>3. QED
    BY <1>1, <2>1, <2>2, TypePartsNext DEF Idle
<1>7. CASE PressureChanges
  <2>1. FleetOK'
    BY <1>1, <1>7 DEF PressureChanges, FleetOK
  <2>2. /\ cost' = cost /\ want' = want /\ count' = count /\ pinned' = pinned
        /\ home' = home /\ told' = told
    BY <1>7 DEF PressureChanges
  <2>3. pressured' \in BOOLEAN
    BY <1>7 DEF PressureChanges
  <2>4. QED
    BY <1>1, <2>1, <2>2, <2>3, TypePartsNext DEF Idle
<1>8. CASE WorkerLost
  <2>1. FleetOK'
    <3>1. PICK i \in DOMAIN fleet : fleet' = RemoveAt(fleet, i)
      BY <1>8 DEF WorkerLost
    <3>2. fleet' \in Seq(DOMAIN Plans) /\ Len(fleet') = Len(fleet) - 1
      BY <1>1, <3>1, RemoveAtType DEF FleetOK
    <3>3. booting' = booting /\ young' = young /\ resting' = resting
          /\ settling' = settling
      BY <1>8 DEF WorkerLost
    <3>4. Len(fleet) \in Nat /\ MaxWorkers \in Nat
      BY <1>1, Parameters DEF FleetOK
    <3>5. QED
      BY <1>1, <3>2, <3>3, <3>4 DEF FleetOK
  <2>2. /\ cost' = cost /\ want' = want /\ count' = count /\ pinned' = pinned
        /\ home' = home /\ pressured' = pressured /\ told' = told
    BY <1>8 DEF WorkerLost
  <2>3. QED
    BY <1>1, <2>1, <2>2, TypePartsNext DEF Idle
<1>9. QED
  BY <1>2, <1>3, <1>4, <1>5, <1>6, <1>7, <1>8 DEF World

\* Every step keeps the types.
LEMMA TypeStep ==
  ASSUME TypeOK, [Next]_vars
  PROVE  TypeOK'
<1>1. CASE UNCHANGED vars
  BY <1>1, TypeParts, TypePartsNext DEF vars, FleetOK, Idle
<1>2. QED
  BY <1>1, TypeSizes, TypeEmergency, TypeApplies, TypeWorld DEF Next

\* The state keeps its types: the fleet stays within the budget, servers that boot
\* included, and the counts within the policies.
THEOREM TypeCorrect == Spec => []TypeOK
<1>1. Init => TypeOK
  BY TypeInit
<1>2. TypeOK /\ [Next]_vars => TypeOK'
  BY TypeStep
<1>3. QED
  BY <1>1, <1>2, PTL DEF Spec

\* In every state, an application at its ceiling can be rolled: there is room for the
\* new task before the old one goes.
THEOREM CeilingsAlwaysRoll == Spec => []CeilingRolls
<1>1. TypeOK => CeilingRolls
  BY CeilingsRoll
<1>2. QED
  BY <1>1, TypeCorrect, PTL

\* What a loop removes or resizes, the replicas can do without.
LEMMA StepKeepsRoom ==
  ASSUME TypeOK, Sizes, \E i \in DOMAIN fleet : i \notin DOMAIN fleet' \/ fleet'[i] # fleet[i]
  PROVE  Holds(count, Pinned, Eligible(IF Len(fleet') < Len(fleet) THEN fleet'
            ELSE RemoveAt(fleet, CHOOSE i \in DOMAIN fleet : fleet'[i] # fleet[i])))
<1>0. PICK new \in {Smallest, NoSize}, sole \in SUBSET DOMAIN fleet :
        \E need \in {Wanted(new)}, ceilings \in {Ceilings}, live \in {Live} :
          \/ Grows(need, sole, live) \/ Buys(need, sole, live)
          \/ Removes(need, live) \/ Cuts(need, sole, live)
  BY DEF Sizes
<1>1. PICK need \in {Wanted(new)}, live \in {Live} :
        \/ Grows(need, sole, live) \/ Buys(need, sole, live)
        \/ Removes(need, live) \/ Cuts(need, sole, live)
  BY <1>0
<1>2. FleetOK /\ fleet \in Seq(DOMAIN Plans) /\ Len(fleet) \in Nat
  BY TypeParts DEF FleetOK
<1>3. live = Items(Ceilings, Pinned)
  BY DEF Live
<1>4. ASSUME NEW i \in DOMAIN fleet, FitsWithout(i, live)
      PROVE  Holds(count, Pinned, Eligible(RemoveAt(fleet, i)))
  <2> DEFINE bins == Eligible(RemoveAt(fleet, i))
  <2>1. Distinct(bins)
    BY <1>2, RemoveAtType, EligibleDistinct
  <2>2. AllPlaced(Items(Ceilings, Pinned), Pinned, bins)
    BY <1>3, <1>4 DEF FitsWithout
  <2>3. /\ cost \in [Named -> Res] /\ Pinned \in SUBSET Named /\ count \in [Named -> Nat]
        /\ Ceilings \in [Named -> Nat] /\ \A a \in Named : count[a] <= Ceilings[a]
    BY LoopTypes
  <2> HIDE DEF bins
  <2>4. Holds(count, Pinned, bins)
    BY <2>1, <2>2, <2>3, AllPlacedHolds
  <2>5. QED
    BY <2>4 DEF bins
<1>5. ASSUME NEW i \in DOMAIN fleet, NEW rung \in DOMAIN Plans, rung # fleet[i],
             fleet' = Resized(i, rung), FitsWithout(i, live)
      PROVE  Holds(count, Pinned, Eligible(IF Len(fleet') < Len(fleet) THEN fleet'
               ELSE RemoveAt(fleet, CHOOSE j \in DOMAIN fleet : fleet'[j] # fleet[j])))
  <2>1. /\ Len(fleet') = Len(fleet) /\ fleet'[i] = rung
        /\ \A j \in DOMAIN fleet : j # i => fleet'[j] = fleet[j]
    BY <1>2, <1>5, ResizedType
  <2>2. (CHOOSE j \in DOMAIN fleet : fleet'[j] # fleet[j]) = i
    BY <1>5, <2>1
  <2>3. ~(Len(fleet') < Len(fleet))
    BY <1>2, <2>1
  <2>4. QED
    BY <1>4, <1>5, <2>2, <2>3
<1>6. CASE Grows(need, sole, live)
  <2>1. PICK i \in Growing(sole, live) : fleet' = Resized(i, fleet[i] + 1)
    BY <1>6 DEF Grows
  <2>2. i \in DOMAIN fleet /\ fleet[i] + 1 \in DOMAIN Plans /\ FitsWithout(i, live)
    BY DEF Growing, MayGrow, Ladder
  <2>3. fleet[i] + 1 # fleet[i]
    BY <1>2, <2>2, Parameters
  <2>4. QED
    BY <1>5, <2>1, <2>2, <2>3
<1>7. CASE Cuts(need, sole, live)
  <2>1. ~NoFleetChange
    BY DEF NoFleetChange
  <2>2. PICK i \in Cutting(sole, live) : fleet' = Resized(i, fleet[i] - 1)
    BY <1>7, <2>1 DEF Cuts
  <2>3. i \in DOMAIN fleet /\ fleet[i] - 1 \in DOMAIN Plans /\ FitsWithout(i, live)
    BY DEF Cutting, MayCut, Ladder
  <2>4. fleet[i] - 1 # fleet[i]
    BY <1>2, <2>3, Parameters
  <2>5. QED
    BY <1>5, <2>2, <2>3, <2>4
<1>8. CASE Removes(need, live)
  <2>1. ~NoFleetChange
    BY DEF NoFleetChange
  <2>2. Removable(live) # {} /\ fleet' = RemoveAt(fleet, Max(Removable(live)))
    BY <1>8, <2>1 DEF Removes
  <2>3. Max(Removable(live)) \in DOMAIN fleet /\ FitsWithout(Max(Removable(live)), live)
    BY <1>2, <2>2, RemovedMayGo DEF Removable
  <2>4. Len(fleet') < Len(fleet)
    BY <1>2, <2>2, <2>3, RemoveAtType
  <2>5. Holds(count, Pinned, Eligible(fleet'))
    BY <1>4, <2>2, <2>3
  <2>6. QED
    BY <2>4, <2>5
<1>9. CASE Buys(need, sole, live)
  BY <1>9 DEF Buys, NoFleetChange
<1>10. QED
  BY <1>1, <1>6, <1>7, <1>8, <1>9

\* No loop takes away, nor takes off for a resize, a worker the replicas cannot do
\* without.
THEOREM RoomAlwaysKept == Spec => KeepsRoom
<1>1. TypeOK /\ [Next]_vars =>
        [Sizes /\ (\E i \in DOMAIN fleet : i \notin DOMAIN fleet' \/ fleet'[i] # fleet[i])
           => Holds(count, Pinned, Eligible(IF Len(fleet') < Len(fleet) THEN fleet'
                ELSE RemoveAt(fleet, CHOOSE i \in DOMAIN fleet : fleet'[i] # fleet[i])))]_vars
  BY StepKeepsRoom
<1>2. QED
  BY <1>1, TypeCorrect, PTL DEF Spec, KeepsRoom
=============================================================================
