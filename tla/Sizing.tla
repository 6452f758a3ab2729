------------------------------- MODULE Sizing -------------------------------
(***************************************************************************)
(* How many machines, of what size, and how many replicas on them: the     *)
(* overseer's loop with the packer's arithmetic, and the autoscaler        *)
(* applying what it is told.  Packing decides admission, purchases,        *)
(* growth, removal and the placement, each from a different set of counts. *)
(*                                                                         *)
(* Abstracted: what a loop decides is applied before the fleet changes      *)
(* again (Handover is where it is not), a resize is one step (WorkerResize *)
(* is where it is not), what the signals ask for is any count within the    *)
(* policy (Scaling computes it), and Swarm finds a placement when there is  *)
(* one.  All applications follow the dispatched placement.                  *)
(***************************************************************************)
EXTENDS Packer, FiniteSets

CONSTANTS Costs,              \* what one replica of each may come to reserve
          Plans,              \* the ladder, as room for applications, smallest first
          Master,             \* the master's room
          MinWorkers,         \* the floor
          \* Bounds: changes of what is wanted; of a replica's cost; of the pressure on the
          \* nodes; workers lost; loops without a catalogue.
          MaxChanges, MaxCosts, MaxPressure, MaxLosses, MaxBlind,
          MaxEvents           \* bound: of all these together

ASSUME SizingConstants ==
  /\ Costs \subseteq [Named -> [cpu : Nat, mem : Nat]]
  /\ Plans \in Seq([cpu : Nat, mem : Nat]) /\ Plans # << >>
  /\ Master \in [cpu : Nat, mem : Nat]
  /\ {MinWorkers, MaxChanges, MaxCosts, MaxPressure, MaxLosses, MaxBlind, MaxEvents}
       \subseteq Nat
  /\ MinWorkers <= MaxWorkers

VARIABLES want,       \* what the signals ask for
          count,      \* replicas in the services' specs
          pinned,     \* the services carry the worker constraint
          home,       \* a task of every application runs on the master
          fleet,      \* the rung of each ready worker, oldest first
          booting,    \* servers bought that have not joined
          young,      \* one is younger than COOLDOWN_UP
          resting,    \* COOLDOWN_DOWN since the last removal
          settling,   \* NODE_RESIZE_COOLDOWN since the last resize
          pressured,  \* a node is above NODE_PRESSURE_PCT
          told,       \* what was dispatched and not yet applied
          spent
vars == <<cost, want, count, pinned, home, fleet, booting, young, resting, settling,
          pressured, told, spent>>

Idle     == [pin |-> FALSE, ceiling |-> << >>]       \* nothing to apply
NoLimit  == [a \in Named |-> -1]                     \* replica_ceiling: None
Events   == {"change", "cost", "pressure", "loss", "blind"}
Bound    == [change |-> MaxChanges, cost |-> MaxCosts, pressure |-> MaxPressure,
             loss |-> MaxLosses, blind |-> MaxBlind]
Spend(e) ==
  /\ spent[e] < Bound[e] /\ FoldFunction(+, 0, spent) < MaxEvents
  /\ spent' = [spent EXCEPT ![e] = @ + 1]

Counts == {c \in [Named -> 0..Max(Range(Most))] : \A a \in Named : c[a] \in Least[a]..Most[a]}

TypeOK ==
  /\ cost \in Costs /\ {want, count} \subseteq Counts
  /\ {pinned, home, young, resting, settling, pressured} \subseteq BOOLEAN
  /\ fleet \in Seq(DOMAIN Plans) /\ booting \in Nat
  /\ Len(fleet) + booting <= MaxWorkers
  /\ told = Idle \/ told \in [pin : BOOLEAN, ceiling : [Named -> Nat \cup {-1}]]

Init ==
  /\ cost \in Costs /\ want \in Counts /\ count = Least
  /\ pinned = FALSE /\ home = TRUE /\ fleet = << >> /\ booting = 0
  /\ young = FALSE /\ resting = FALSE /\ settling = FALSE /\ pressured = FALSE
  /\ told = Idle /\ spent = [e \in Events |-> 0]

-----------------------------------------------------------------------------
(* What the loop works with.                                               *)

\* What is sold here and big enough, smallest first, and what is bought of it.
Ladder   == DOMAIN Plans
Smallest == Plans[1]

\* The floor, of scheduled_floor when there is no schedule, and the budget.
Clamp(n) == Larger(MinWorkers, Smaller(MaxWorkers, n))

\* The master has the room its own services leave.
MasterBin == Bin(0, Master, TRUE)

Pinned  == IF pinned THEN Named ELSE {}
Workers(f)  == [i \in DOMAIN f |-> Bin(i, Plans[f[i]], FALSE)]
Eligible(f) == Workers(f) \o (IF pinned THEN << >> ELSE <<MasterBin>>)

Ceilings == Admit(Most, Pinned, Eligible(fleet), count)

\* Step 9's clamp.
Wanted(new) == Clamp(WorkersNeeded(want, pressured, Master, Workers(fleet), new))

\* Mutant of CanHold: asked of the machines that exist, the master among them.
CanHoldAnywhere(ceilings) ==
  LET counts == [a \in Named |-> Larger(ceilings[a], count[a])]
  IN fleet # << >> /\ AllPlaced(Items(counts, {}), {}, Eligible(fleet))

\* workers_can_hold.
CanHold(ceilings) ==
  LET counts == [a \in Named |-> Larger(ceilings[a], count[a])]
  IN fleet # << >> /\ AllPlaced(Items(counts, Named), Named, Workers(fleet))

\* Mutant of FitsWithout: a sum.
FitsWithoutSum(i, items) ==
  LET bins == Eligible(RemoveAt(fleet, i))
      room == FoldLeft(LAMBDA s, b : Plus(s, b.free), Nothing, bins)
      need == FoldLeft(LAMBDA s, a : Plus(s, cost[a]), Nothing, items)
  IN FitsIn(need, room)

\* Mutant of FitsWithout: the master is never counted.
FitsWithoutMaster(i, items) == AllPlaced(items, Pinned, Workers(RemoveAt(fleet, i)))

\* Would every replica of items still be placed if this worker vanished?
FitsWithout(i, items) == AllPlaced(items, Pinned, Eligible(RemoveAt(fleet, i)))

\* What removal and resizing are asked to keep running.
Live == Items(Ceilings, Pinned)

Owned == Len(fleet) + booting

-----------------------------------------------------------------------------
(* grow_or_buy and shrink.  "Sole" is the workers without which something has no   *)
(* running replica: its replicas may all be on one, or none be running yet. *)

Resized(i, rung) == [fleet EXCEPT ![i] = rung]

MayGrow(i, sole, live) ==
  /\ Len(fleet) >= 2 /\ fleet[i] + 1 \in Ladder /\ FitsWithout(i, live) /\ i \notin sole
  /\ AllPlaced(Items(want, Named), Named, Workers(Resized(i, fleet[i] + 1)))
MayCut(i, sole, live) ==
  /\ Len(fleet) >= 2 /\ fleet[i] - 1 \in Ladder /\ FitsWithout(i, live) /\ i \notin sole
  /\ AllPlaced(live, Pinned, Workers(Resized(i, fleet[i] - 1)))

\* The smallest worker grows first, the largest is cut first, an older one before a newer.
Growing(sole, live) ==
  LET may == {i \in DOMAIN fleet : MayGrow(i, sole, live)}
  IN {i \in may : \A j \in may \ {i} : fleet[i] < fleet[j] \/ (fleet[i] = fleet[j] /\ i < j)}
Cutting(sole, live) ==
  LET may == {i \in DOMAIN fleet : MayCut(i, sole, live)}
  IN {i \in may : \A j \in may \ {i} : fleet[i] > fleet[j] \/ (fleet[i] = fleet[j] /\ i < j)}

\* The newest worker that may go.
Removable(live) == {i \in DOMAIN fleet : FitsWithout(i, live)}

NoFleetChange == UNCHANGED <<fleet, booting, young, resting, settling>>

\* More is needed than there is: one worker grows, if that is enough, or else servers are
\* bought.
Grows(need, sole, live) ==
  /\ need > Owned /\ ~settling
  /\ \E i \in Growing(sole, live) : fleet' = Resized(i, fleet[i] + 1)
  /\ settling' = TRUE
  /\ UNCHANGED <<booting, young, resting>>
Buys(need, sole, live) ==
  /\ need > Owned /\ (settling \/ Growing(sole, live) = {})
  /\ IF ~young /\ Owned < MaxWorkers
     THEN /\ booting' = booting + Smaller(need - Owned, MaxWorkers - Owned)
          /\ young' = TRUE
          /\ UNCHANGED <<fleet, resting, settling>>
     ELSE NoFleetChange

\* The last worker goes only when nothing is pinned and the master serves everything.
Removes(need, live) ==
  /\ need < Len(fleet)
  /\ IF /\ ~resting /\ Len(fleet) > MinWorkers /\ Removable(live) # {}
        /\ Len(fleet) = 1 => ~pinned /\ home
     THEN /\ fleet' = RemoveAt(fleet, Max(Removable(live))) /\ resting' = TRUE
          /\ UNCHANGED <<booting, young, settling>>
     ELSE NoFleetChange

Cuts(need, sole, live) ==
  /\ need \in Len(fleet)..Owned
  /\ IF need = Len(fleet) /\ ~settling /\ Cutting(sole, live) # {}
     THEN /\ \E i \in Cutting(sole, live) : fleet' = Resized(i, fleet[i] - 1)
          /\ settling' = TRUE
          /\ UNCHANGED <<booting, young, resting>>
     ELSE NoFleetChange

\* One loop.  Pinned applications and no worker is the emergency: a release is
\* dispatched and nothing else is attempted.
Emergency ==
  /\ told = Idle /\ pinned /\ fleet = << >>
  /\ told' = [pin |-> FALSE, ceiling |-> NoLimit]
  /\ NoFleetChange /\ UNCHANGED <<cost, want, count, pinned, home, pressured, spent>>
Sizes ==
  /\ told = Idle /\ ~(pinned /\ fleet = << >>)
  /\ \E new \in {Smallest, NoSize}, sole \in SUBSET DOMAIN fleet :
       /\ IF new = NoSize THEN Spend("blind") ELSE UNCHANGED spent
       /\ \E need \in {Wanted(new)}, ceilings \in {Ceilings}, live \in {Live} :
            /\ \/ Grows(need, sole, live) \/ Buys(need, sole, live)
               \/ Removes(need, live) \/ Cuts(need, sole, live)
            /\ \E hold \in {CanHold(ceilings)} :
                 told' = [pin |-> need >= 1 /\ hold, ceiling |-> ceilings]
  /\ UNCHANGED <<cost, want, count, pinned, home, pressured>>

\* target_replicas, then reconcile_placement.
Capped(a) ==
  IF told.ceiling[a] = -1 THEN want[a]
  ELSE Larger(Smaller(want[a], told.ceiling[a]), Smaller(count[a], want[a]))
Applies ==
  /\ told # Idle /\ told' = Idle
  /\ count' = [a \in Named |-> Capped(a)]
  /\ pinned' = told.pin /\ home' = (home /\ ~told.pin)
  /\ UNCHANGED <<cost, want, fleet, booting, young, resting, settling, pressured, spent>>

-----------------------------------------------------------------------------
(* The world, between two loops.                                           *)

world == <<cost, want, pressured, spent>>

Joins ==
  /\ told = Idle /\ booting > 0 /\ booting' = booting - 1 /\ fleet' = Append(fleet, 1)
  /\ UNCHANGED <<world, count, pinned, home, young, resting, settling, told>>
Matures ==
  /\ told = Idle /\ ((young /\ booting = 0) \/ resting \/ settling)
  /\ young' = (young /\ booting > 0) /\ resting' = FALSE /\ settling' = FALSE
  /\ UNCHANGED <<world, count, pinned, home, fleet, booting, told>>
MovesHome ==
  /\ told = Idle /\ ~pinned /\ ~home /\ home' = TRUE
  /\ UNCHANGED <<world, count, pinned, fleet, booting, young, resting, settling, told>>
WantChanges ==
  /\ told = Idle /\ Spend("change") /\ \E c \in Counts \ {want} : want' = c
  /\ UNCHANGED <<cost, count, pinned, home, fleet, booting, young, resting, settling,
                 pressured, told>>
CostChanges ==
  /\ told = Idle /\ Spend("cost") /\ \E c \in Costs \ {cost} : cost' = c
  /\ UNCHANGED <<want, count, pinned, home, fleet, booting, young, resting, settling,
                 pressured, told>>
PressureChanges ==
  /\ told = Idle /\ Spend("pressure") /\ pressured' = ~pressured
  /\ UNCHANGED <<cost, want, count, pinned, home, fleet, booting, young, resting, settling,
                 told>>
WorkerLost ==
  /\ told = Idle /\ Spend("loss")
  /\ \E i \in DOMAIN fleet : fleet' = RemoveAt(fleet, i)
  /\ UNCHANGED <<cost, want, count, pinned, home, booting, young, resting, settling,
                 pressured, told>>

World == \/ Joins \/ Matures \/ MovesHome
         \/ WantChanges \/ CostChanges \/ PressureChanges \/ WorkerLost
Next == Emergency \/ Sizes \/ Applies \/ World

Spec == Init /\ [][Next]_vars

\* Both loops go on, servers join, time passes, and Swarm moves the tasks.  The overseer's
\* next loop is always possible, so that it goes on is said of its dispatch.
FairSpec == /\ Spec /\ []<>(told # Idle) /\ WF_vars(Applies)
            /\ SF_vars(Joins) /\ SF_vars(Matures) /\ SF_vars(MovesHome)

-----------------------------------------------------------------------------
\* A loop never takes away, nor takes off for a resize, a worker that the replicas cannot
\* do without: what runs can be placed on what is left.  (fits_without.)
KeepsRoom ==
  [][Sizes /\ (\E i \in DOMAIN fleet : i \notin DOMAIN fleet' \/ fleet'[i] # fleet[i])
       => Holds(count, Pinned, Eligible(IF Len(fleet') < Len(fleet) THEN fleet'
            ELSE RemoveAt(fleet, CHOOSE i \in DOMAIN fleet : fleet'[i] # fleet[i])))]_vars

\* A ceiling leaves room to roll whatever it lets grow: with every application at its
\* ceiling, one task more of it can still be started; unless more runs than is granted,
\* as when a worker was lost.  (admit: the rollout slot.)
CeilingRolls ==
  LET granted  == Granted(Most, Pinned, Eligible(fleet))
      ceilings == Ceilings
  IN (\A a \in Named : count[a] <= granted[a]) =>
       \A a \in Named : ceilings[a] > Larger(count[a], Least[a]) =>
         Holds([ceilings EXCEPT ![a] = @ + 1], Pinned, Eligible(fleet))

\* `pinned: true` is only ever dispatched once the ready workers can hold every replica:
\* those that are ready when it is applied hold every replica there will be.
\* (HANDOVER 2; broken by a loop that removes a worker and pins to the ones it counted
\* before: workers_can_hold.)
PinsWhatFits ==
  [][Applies /\ ~pinned /\ told.pin => Holds(count', Named, Workers(fleet))]_vars

\* Under a demand that no longer changes, fleet, counts and placement come to rest: no
\* machine is bought to be deleted, and none grown to be cut.  (servers_needed.)
Settles == <>[][UNCHANGED <<fleet, booting, count, pinned>>]_vars

\* A worker above what is needed is given back, if the rest could hold what the
\* applications may grow to.
GivesBack ==
  <>[](\/ Len(fleet) <= Larger(MinWorkers, WorkersNeeded(want, pressured, Master, Workers(fleet), Smallest))
       \/ \A i \in DOMAIN fleet : ~Holds(Ceilings, Pinned, Eligible(RemoveAt(fleet, i))))
=============================================================================
