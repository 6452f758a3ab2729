---------------------------- MODULE WorkerResize ----------------------------
(***************************************************************************)
(* The overseer changing the plan of one worker: drain it, see that every  *)
(* service runs elsewhere, power it off, change the plan, power it on, wait *)
(* until it is back in the swarm.  One step per loop of the overseer, kept  *)
(* in its memory only; one resize at a time, so one worker is modelled and  *)
(* the rest of the fleet is "there".                                        *)
(*                                                                         *)
(* Hetzner carries an order out some time after it is given, and reports   *)
(* the old status, or a passing one, until then.                           *)
(*                                                                         *)
(* Abstracted: which worker and whether it is worth it (plan_resize's      *)
(* ladder, disk and packing: any resize may begin that its safety guards   *)
(* allow); a call that fails has no effect.                                *)
(***************************************************************************)
EXTENDS Integers, FiniteSets

CONSTANTS
  Services,     \* the application services, each wanting at least one replica
  Rungs,        \* plans on the ladder, smallest first: 1 .. Rungs
  MaxErrors,    \* bound: calls that fail in a step
  MaxRestores,  \* bound: calls that fail in end_resize
  MaxRestarts,  \* bound: restarts of the overseer
  MaxLost,      \* bound: services that lose their replicas elsewhere
  MaxDeploys,   \* bound: rollouts
  MaxVanished   \* bound: servers deleted by somebody else (0 or 1)

ASSUME ResizeAssumption ==
  /\ IsFiniteSet(Services)
  /\ Rungs \in Nat /\ Rungs >= 2
  /\ {MaxErrors, MaxRestores, MaxRestarts, MaxLost, MaxDeploys, MaxVanished}
       \subseteq Nat

VARIABLES
  \* The overseer's _resize: "none" when there is none, and "grace" for a draining
  \* that has set grace_until.
  phase, late, target, rested,
  \* The node in the swarm and its server at Hetzner.
  avail,      \* "active" or "drain"
  swarm,      \* "ready", "down" or "removed"
  power,      \* "running", "off" or "gone"
  order,      \* what Hetzner was last told: "none" once done, "off", "change", "on"
  moving,     \* has it begun to carry that out, and says so?
  plan,
  \* The services: with a task running on this node, and on another one.
  here, there, rolling,
  \* History: services that lost their replicas elsewhere since the last time the
  \* resize saw every service there.
  lost,
  \* History: when the last resize ended, was an order still in hand that leaves the
  \* server off?
  overdue,
  faults      \* how often each of the bounded events has happened

resize     == <<phase, late, target, rested>>
machine    == <<avail, swarm, power, order, moving, plan>>
apps       == <<here, there, rolling, lost>>
history    == <<overdue, faults>>
resizeVars == <<resize, machine, apps, history>>

ResizeEvents == {"error", "restore", "restart", "loss", "deploy", "vanish"}
ResizeBound == [e \in ResizeEvents |->
            CASE e = "error"   -> MaxErrors
              [] e = "restore" -> MaxRestores
              [] e = "restart" -> MaxRestarts
              [] e = "loss"    -> MaxLost
              [] e = "deploy"  -> MaxDeploys
              [] e = "vanish"  -> MaxVanished]
Fault(e) == faults[e] < ResizeBound[e] /\ faults' = [faults EXCEPT ![e] = @ + 1]

Phases == {"none", "draining", "grace", "verifying", "powering_off", "changing",
           "powering_on", "rejoining"}

ResizeTypeOK ==
  /\ phase \in Phases /\ late \in BOOLEAN /\ rested \in BOOLEAN
  /\ plan \in 1 .. Rungs /\ target \in 1 .. Rungs
  /\ avail \in {"active", "drain"} /\ swarm \in {"ready", "down", "removed"}
  /\ power \in {"running", "off", "gone"}
  /\ order \in {"none", "off", "change", "on"} /\ moving \in BOOLEAN
  /\ here \subseteq Services /\ there \subseteq Services /\ lost \subseteq Services
  /\ rolling \in BOOLEAN /\ overdue \in BOOLEAN
  /\ faults \in [ResizeEvents -> Nat]

InService == avail = "active" /\ swarm = "ready" /\ power = "running"

ResizeInit ==
  /\ phase = "none" /\ late = FALSE /\ rested = TRUE
  /\ plan \in 1 .. Rungs /\ target = plan
  /\ avail = "active" /\ swarm = "ready" /\ power = "running" /\ order = "none"
  /\ moving = FALSE
  /\ here \in SUBSET Services /\ there \in {T \in SUBSET Services : here \cup T = Services}
  /\ rolling = FALSE /\ lost = {} /\ overdue = FALSE
  /\ faults = [e \in ResizeEvents |-> 0]

\* What Hetzner reports of the server: the old state, then a passing one ("stopping",
\* "starting", "migrating"), then the new state.
Status == IF moving THEN "moving" ELSE power

-----------------------------------------------------------------------------
(* Beginning and ending.                                                   *)

\* Mutant of Begin: the last running replica is not looked at.
BeginBlind ==
  /\ phase = "none" /\ rested /\ InService /\ ~rolling
  /\ \E t \in {plan - 1, plan + 1} : t \in 1 .. Rungs /\ target' = t
  /\ phase' = "draining" /\ late' = FALSE /\ lost' = {}
  /\ UNCHANGED <<rested, machine, here, there, rolling, history>>

\* Docker replaces a node's spec, so the rest of it is stated again.
SetAvailability(value) == avail' = value

\* running_elsewhere: tasks that run, and not room for them, is what is asked.
ServedElsewhere == there = Services

\* The services it will look for are those there are now.
BeginResize == phase' = "draining" /\ late' = FALSE /\ lost' = {}

\* plan_resize chose this worker: it is ready and running, nothing is rolling, and
\* no service has its only running replica here.
Begin ==
  /\ phase = "none" /\ rested
  /\ InService
  /\ ~rolling
  /\ ServedElsewhere
  /\ \E t \in {plan - 1, plan + 1} : t \in 1 .. Rungs /\ target' = t
  /\ BeginResize
  /\ UNCHANGED <<rested, machine, here, there, rolling, history>>

\* Hetzner has still to carry out, or to finish, an order that leaves the server off.
Unfinished == order \in {"off", "change"}

\* Mutant of EndResize: the node is not made active again.
EndResizeDrained(errors) ==
  \E p \in 0 .. 1 :
    /\ faults["error"] + errors =< MaxErrors /\ faults["restore"] + p =< MaxRestores
    /\ faults' = [faults EXCEPT !["error"] = @ + errors, !["restore"] = @ + p]
    /\ order' = IF p = 0 /\ Status = "off" THEN "on" ELSE order
    /\ phase' = "none" /\ late' = FALSE /\ rested' = FALSE /\ overdue' = Unfinished'
    /\ UNCHANGED <<target, avail, swarm, power, moving, plan, apps>>

\* end_resize: whatever happened, a server that is off is powered on and the node is
\* made active.  Either call may fail; the resize is over all the same.
EndResize(errors) ==
  \E p, a \in 0 .. 1 :
    /\ faults["error"] + errors =< MaxErrors
    /\ faults["restore"] + p + a =< MaxRestores
    /\ faults' = [faults EXCEPT !["error"] = @ + errors, !["restore"] = @ + p + a]
    /\ order' = IF p = 0 /\ Status = "off" THEN "on" ELSE order
    /\ avail' = IF a = 0 /\ swarm # "removed" THEN "active" ELSE avail
    /\ phase' = "none" /\ late' = FALSE /\ rested' = FALSE /\ overdue' = Unfinished'
    /\ UNCHANGED <<target, swarm, power, moving, plan, apps>>

Goto(p) == phase' = p /\ late' = FALSE /\ UNCHANGED <<target, rested>>

-----------------------------------------------------------------------------
(* advance_resize, one phase at a time.                                    *)

\* A step of the resize in phase p, with the last order done or not.
Step(p) == phase = p

\* Every step reads the swarm node first: it cannot be read, or it is gone.
NodeUnreadable ==
  /\ \E p \in Phases \ {"none"} : Step(p)
  /\ EndResize(IF swarm = "removed" THEN 0 ELSE 1)

\* Draining, with the tasks still here: wait, or give up when late.  With them gone,
\* POST_DRAIN_GRACE passes first.
InDrain == (Step("draining") \/ Step("grace")) /\ swarm # "removed"

DrainWaits ==
  /\ InDrain
  /\ here # {} /\ ~late
  /\ SetAvailability("drain")
  /\ UNCHANGED <<resize, swarm, power, order, moving, plan, apps, history>>

\* Mutant of DrainAbandoned: a late drain goes on, as remove_worker does.
DrainForced ==
  /\ InDrain
  /\ here # {} /\ late
  /\ Goto("verifying")
  /\ UNCHANGED <<machine, apps, history>>

DrainAbandoned ==
  /\ InDrain
  /\ here # {} /\ late
  /\ EndResize(0)

DrainDone ==
  /\ InDrain
  /\ here = {}
  /\ SetAvailability("drain")
  /\ IF phase = "draining"
       THEN phase' = "grace" /\ UNCHANGED <<late, target, rested>>
       ELSE Goto("verifying")
  /\ UNCHANGED <<swarm, power, order, moving, plan, apps, history>>

\* Draining the node or listing its tasks fails: only a late drain gives up.
DrainFails ==
  /\ InDrain
  /\ late
  /\ EndResize(1)

\* Mutant of Verified: it is enough that the tasks have left.
VerifiedByAbsence ==
  /\ Step("verifying") /\ swarm # "removed"
  /\ Goto("powering_off")
  /\ lost' = {}
  /\ UNCHANGED <<machine, here, there, rolling, history>>

\* Every service runs on another node.
Verified ==
  /\ Step("verifying") /\ swarm # "removed"
  /\ ServedElsewhere
  /\ Goto("powering_off")
  /\ lost' = {}
  /\ UNCHANGED <<machine, here, there, rolling, history>>

\* Some do not, or the tasks cannot be read, until the deadline.
VerifyAbandoned ==
  /\ Step("verifying") /\ swarm # "removed"
  /\ late
  /\ \/ ~ServedElsewhere /\ EndResize(0)
     \/ EndResize(1)

\* The phases from here on read the server next.
AtHetzner(p) == Step(p) /\ swarm # "removed"
InHetzner    == \E p \in {"powering_off", "changing", "powering_on", "rejoining"} :
                  AtHetzner(p)

ServerGone ==
  /\ InHetzner
  /\ power = "gone"
  /\ EndResize(0)

ServerUnreadable ==
  /\ InHetzner
  /\ late
  /\ EndResize(1)

\* An order given before the last one was begun replaces it.  A call that fails is
\* caught by the loop, which ends the resize.
OrderFails == EndResize(1)

PoweringOff ==
  /\ AtHetzner("powering_off")
  /\ \/ /\ Status = "off"
        /\ \/ /\ order' = "change" /\ Goto("changing")
              /\ UNCHANGED <<avail, swarm, power, moving, plan, apps, history>>
           \/ OrderFails
     \/ Status \in {"running", "moving"} /\ late /\ EndResize(0)
     \/ /\ Status = "running" /\ ~late
        /\ \/ /\ order' = "off"
              /\ UNCHANGED <<resize, avail, swarm, power, moving, plan, apps, history>>
           \/ OrderFails

Changing ==
  /\ AtHetzner("changing") /\ power # "gone"
  /\ \/ /\ plan = target /\ Status = "off"
        /\ \/ /\ order' = "on" /\ Goto("powering_on")
              /\ UNCHANGED <<avail, swarm, power, moving, plan, apps, history>>
           \/ OrderFails
     \/ /\ plan = target /\ Status # "off" /\ Goto("powering_on")
        /\ UNCHANGED <<machine, apps, history>>
     \/ plan # target /\ late /\ EndResize(0)

PoweringOn ==
  /\ AtHetzner("powering_on")
  /\ \/ /\ Status = "running" /\ Goto("rejoining")
        /\ UNCHANGED <<machine, apps, history>>
     \/ /\ Status = "off"
        /\ \/ /\ order' = "on"
              /\ UNCHANGED <<resize, avail, swarm, power, moving, plan, apps, history>>
           \/ OrderFails
     \/ Status = "moving" /\ late /\ EndResize(0)

Rejoining ==
  /\ AtHetzner("rejoining") /\ power # "gone"
  /\ swarm = "ready" \/ late
  /\ EndResize(0)

\* One phase's deadline passes.  A drain is ordered well before its own does.
Deadline ==
  /\ phase # "none" /\ ~late
  /\ phase = "draining" => avail = "drain"
  /\ late' = TRUE
  /\ UNCHANGED <<phase, target, rested, machine, apps, history>>

\* NODE_RESIZE_COOLDOWN passes.
Rests ==
  /\ ~rested
  /\ rested' = TRUE
  /\ UNCHANGED <<phase, late, target, machine, apps, history>>

\* A restart forgets the resize and its cooldown.
Restart ==
  /\ Fault("restart")
  /\ phase' = "none" /\ late' = FALSE /\ rested' = TRUE
  /\ UNCHANGED <<target, machine, apps, overdue>>

\* The reaper, at the top of every loop: a node that is down and whose server is gone
\* leaves the swarm.
Reap ==
  /\ swarm = "down" /\ power = "gone"
  /\ swarm' = "removed"
  /\ UNCHANGED <<resize, avail, power, order, moving, plan, apps, history>>

OverseerStep ==
  \/ DrainWaits \/ DrainAbandoned \/ DrainDone \/ Verified \/ VerifyAbandoned
  \/ ServerGone \/ PoweringOff \/ Changing \/ PoweringOn \/ Rejoining
  \/ (swarm = "removed" /\ NodeUnreadable)

-----------------------------------------------------------------------------
(* Hetzner, the swarm and the services.                                    *)

\* The order in hand is begun, and carried out; powering off cuts what runs here.
OrderBegun ==
  /\ order # "none" /\ ~moving
  /\ moving' = TRUE
  /\ UNCHANGED <<resize, avail, swarm, power, order, plan, apps, history>>

OrderDone ==
  /\ order # "none"
  /\ order' = "none" /\ moving' = FALSE
  /\ power' = CASE order = "off"   -> "off"
                [] order = "on"    -> "running"
                [] OTHER           -> power
  /\ plan' = IF order = "change" THEN target ELSE plan
  /\ here' = IF order = "off" THEN {} ELSE here
  /\ overdue' = FALSE
  /\ UNCHANGED <<resize, avail, swarm, there, rolling, lost, faults>>

Vanishes ==
  /\ Fault("vanish")
  /\ power # "gone"
  /\ power' = "gone" /\ order' = "none" /\ moving' = FALSE /\ here' = {}
  /\ UNCHANGED <<resize, avail, swarm, plan, there, rolling, lost, overdue>>

GoesDown ==
  /\ swarm = "ready" /\ power # "running"
  /\ swarm' = "down"
  /\ UNCHANGED <<resize, avail, power, order, moving, plan, apps, history>>

Rejoins ==
  /\ swarm = "down" /\ power = "running"
  /\ swarm' = "ready"
  /\ UNCHANGED <<resize, avail, power, order, moving, plan, apps, history>>

StartsHere(s) ==
  /\ InService /\ s \notin here
  /\ here' = here \cup {s}
  /\ UNCHANGED <<resize, machine, there, rolling, lost, history>>

LeavesHere(s) ==
  /\ avail = "drain" /\ s \in here
  /\ here' = here \ {s}
  /\ UNCHANGED <<resize, machine, there, rolling, lost, history>>

StartsThere(s) ==
  /\ s \notin there
  /\ there' = there \cup {s}
  /\ UNCHANGED <<resize, machine, here, rolling, lost, history>>

LostThere(s) ==
  /\ Fault("loss")
  /\ s \in there
  /\ there' = there \ {s} /\ lost' = lost \cup {s}
  /\ UNCHANGED <<resize, machine, here, rolling, overdue>>

RolloutStarts ==
  /\ Fault("deploy")
  /\ ~rolling /\ rolling' = TRUE
  /\ UNCHANGED <<resize, machine, here, there, lost, overdue>>

RolloutEnds ==
  /\ rolling /\ rolling' = FALSE
  /\ UNCHANGED <<resize, machine, here, there, lost, history>>

WorldStep ==
  \/ OrderBegun \/ OrderDone \/ Vanishes \/ GoesDown \/ Rejoins
  \/ RolloutStarts \/ RolloutEnds
  \/ \E s \in Services : StartsHere(s) \/ LeavesHere(s) \/ StartsThere(s) \/ LostThere(s)

ResizeNext ==
  \/ Begin \/ OverseerStep \/ NodeUnreadable \/ DrainFails \/ ServerUnreadable
  \/ Deadline \/ Rests \/ Restart \/ Reap \/ WorldStep

ResizeSpec == ResizeInit /\ [][ResizeNext]_resizeVars

\* The overseer looks again every minute, clocks run and a server that is on joins
\* again.  Whether Hetzner ever carries an order out is ResizeFairSpec's assumption alone.
LoopFairness ==
  /\ WF_resizeVars(OverseerStep) /\ WF_resizeVars(Deadline) /\ WF_resizeVars(Reap)
  /\ WF_resizeVars(Rejoins) /\ WF_resizeVars(GoesDown)

ResizeFairSpec == ResizeSpec /\ LoopFairness /\ WF_resizeVars(OrderDone)

-----------------------------------------------------------------------------
(* Properties.                                                             *)

\* The node is drained only while every service has a running replica elsewhere, or
\* lost it after the resize was decided.  (would_lose_last_replica.)
DrainsSpare ==
  [][avail = "active" /\ avail' = "drain" => Services \ lost \subseteq there]_resizeVars

\* The server is ordered off only when every service was seen running elsewhere after
\* the drain, or lost its replicas since.  (running_elsewhere, phase verifying.)
PowersOffServed ==
  [][order # "off" /\ order' = "off" =>
       avail = "drain" /\ Services \ lost \subseteq there]_resizeVars

\* The server is never switched off under a running task, but by an order that was
\* still in hand when end_resize put the node back: whatever calls fail, and whenever
\* the overseer restarts.  (drain, the power-off phase and end_resize together.)
CutsNothing ==
  [][power = "running" /\ power' = "off" => here = {} \/ overdue]_resizeVars

\* Back in the swarm, active and running; or nothing is left to put back.
PutBack == phase = "none" /\ (InService \/ power = "gone")

\* What end_resize does not promise: the overseer restarted, or a call that would have
\* put the node back failed.
Excused == faults["restart"] + faults["restore"] > 0

\* The node of a resize, whether the resize worked or not, is in the end put back;
\* unless Hetzner had an order in hand when the resize ended.  (end_resize.)
BackInService == (phase # "none") ~> PutBack \/ Excused \/ (phase = "none" /\ overdue)
=============================================================================
