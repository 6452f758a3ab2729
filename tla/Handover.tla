------------------------------ MODULE Handover ------------------------------
(***************************************************************************)
(* The overseer's fleet loop and the autoscaler's placement loop, the two  *)
(* processes that move the applications between the master and a fleet of  *)
(* bought workers that may shrink to nothing.                              *)
(*                                                                         *)
(* Neither process calls the other to ask: the overseer pushes an order    *)
(* ("pinned" true or false), the autoscaler writes it into the service     *)
(* specs, Swarm moves the tasks, and the overseer reads the result back    *)
(* from Swarm.  Both act on a snapshot taken earlier in their loop.        *)
(*                                                                         *)
(* Abstracted: one replica per service and all of one size; latency and    *)
(* CPU signals (the number of workers the demand asks for is any member of *)
(* Demand); vertical resizing (off, as with WORKER_MAX_CORES = 0) and node *)
(* leases (none held).                                                     *)
(***************************************************************************)
EXTENDS Integers, FiniteSets

CONSTANTS
  Services,     \* the application services
  Workers,      \* every server the fleet may ever own at once (the bound)
  Master,       \* the manager node
  NoNode,       \* "not running anywhere"
  Mode,         \* placement_mode of each service: "auto", "workers", "master"
  WorkerRoom,   \* how many replicas one worker holds
  MasterRoom,   \* how many replicas the master holds
  Demand,       \* the worker counts the load may ask for, before the clamp
  MinWorkers,   \* the floor
  MaxWorkers,   \* the budget cap
  StallLoops,   \* HANDOVER_STALL_SECONDS, in autoscaler loops
  Faults,       \* the kinds of fault that happen
  MaxFaults     \* bound: how many faults, of whatever kinds

Nodes == Workers \cup {Master}

\* A worker that dies for good, or goes down and may come back; a server that outlasts
\* COOLDOWN_UP before a loop sees it joined; a call or a delivery that fails; a restart
\* of either process; a rollout that CI starts.
Events == {"loss", "flap", "slow", "error", "restart", "deploy"}

ASSUME ConstantsAssumption ==
  /\ IsFiniteSet(Services) /\ Services # {}
  /\ IsFiniteSet(Workers)
  /\ Master \notin Workers /\ NoNode \notin Nodes
  /\ Mode \in [Services -> {"auto", "workers", "master"}]
  /\ WorkerRoom \in Nat /\ MasterRoom \in Nat
  /\ Demand \subseteq Nat
  /\ MinWorkers \in Nat /\ MaxWorkers \in Nat /\ MinWorkers =< MaxWorkers
  /\ StallLoops \in Nat \ {0}
  /\ Faults \subseteq Events /\ MaxFaults \in Nat

VARIABLES
  \* What Swarm and Hetzner hold.
  node,       \* per worker: "absent", "booting", "orphan", "ready", "drained",
              \* "down" (its server still exists) or "lost" (its server is gone)
  young,      \* servers created less than COOLDOWN_UP ago
  pin,        \* per service: does its spec carry node.role == worker
  rolling,    \* per service: is UpdateStatus "updating"
  at,         \* per service: the node its running task is on, or NoNode
  \* The dispatch: what the autoscaler last received and still believes.
  told,       \* "none", "workers" (pinned: true) or "master" (pinned: false)
  \* The overseer: where its loop is and what the loop has read and decided.
  ovpc, ovPin, ovRoll, ovOk, ovReady, ovHome, ovWant, victim, cooling,
  \* The autoscaler: the same.
  aspc, asPin, asRoll, asHome, asTold, asTodo, unmoved,
  \* History: services whose spec was written since the overseer listed them.
  touched,
  \* History: servers that a loop counted in neither of its two readings.
  missed,
  \* How many faults have happened.
  spent

swarm == <<node, young, pin, rolling, at>>
ovVars == <<ovpc, ovPin, ovRoll, ovOk, ovReady, ovHome, ovWant, victim, cooling>>
asVars == <<aspc, asPin, asRoll, asHome, asTold, asTodo, unmoved>>
vars == <<swarm, told, ovVars, asVars, touched, missed, spent>>

Spend(e) == e \in Faults /\ spent < MaxFaults /\ spent' = spent + 1

TypeOK ==
  /\ node \in [Workers -> {"absent", "booting", "orphan", "ready",
                           "drained", "down", "lost"}]
  /\ young \subseteq Workers
  /\ pin \in [Services -> BOOLEAN]
  /\ rolling \in [Services -> BOOLEAN]
  /\ at \in [Services -> Nodes \cup {NoNode}]
  /\ told \in {"none", "workers", "master"}
  /\ ovpc \in {"discover", "nodes", "tasks", "grow", "shrink", "remove", "dispatch"}
  /\ ovPin \subseteq Services /\ ovRoll \subseteq Services
  /\ ovOk \in BOOLEAN /\ ovReady \subseteq Workers /\ ovHome \subseteq Services
  /\ ovWant \in Nat /\ victim \in Workers \cup {NoNode} /\ cooling \in BOOLEAN
  /\ aspc \in {"discover", "read", "place"}
  /\ asPin \subseteq Services /\ asRoll \subseteq Services
  /\ asHome \subseteq Services /\ asTodo \subseteq Services
  /\ asTold \in {"none", "workers", "master"}
  /\ unmoved \in [Services -> 0 .. StallLoops]
  /\ touched \subseteq Services /\ missed \subseteq Workers
  /\ spent \in Nat

-----------------------------------------------------------------------------
(* What the two processes can see of the cluster.                          *)

Ready        == {w \in Workers : node[w] = "ready"}
Servers      == {w \in Workers : node[w] \in {"booting", "orphan", "ready",
                                              "drained", "down"}}
InSwarm      == {w \in Workers : node[w] \in {"ready", "drained", "down", "lost"}}
Provisioning == Servers \ Ready
Pinned       == {s \in Services : pin[s]}
Rolling      == {s \in Services : rolling[s]}
Home         == {s \in Services : at[s] = Master}   \* running on the master

Lesser(a, b)  == IF a =< b THEN a ELSE b
Greater(a, b) == IF a =< b THEN b ELSE a

\* Step 9's clamp of the demand for workers between the floor and the cap.
Clamp(d) == Greater(MinWorkers, Lesser(MaxWorkers, d))

\* Could the workers R hold every replica, all of them pinned?
WorkersCanHold(R) ==
  R # {} /\ Cardinality(Services) =< WorkerRoom * Cardinality(R)

\* Would everything still be placeable without one of the workers R?  The
\* master counts only when every application is unpinned.
FitsWithoutOne(R, pinned) ==
  Cardinality(Services) =< WorkerRoom * (Cardinality(R) - 1)
                           + (IF pinned = {} THEN MasterRoom ELSE 0)

-----------------------------------------------------------------------------
(* Either the idle cluster, everything on the master and no worker bought, *)
(* or a fleet that holds the applications.                                 *)

Resting(s, W) == IF W = {}
                   THEN IF Mode[s] = "workers" THEN {NoNode} ELSE {Master}
                   ELSE IF Mode[s] = "master" THEN {Master} ELSE W

Init ==
  \E W \in {V \in SUBSET Workers : /\ Cardinality(V) =< MaxWorkers
                                   /\ V = {} \/ WorkersCanHold(V)} :
    /\ node = [w \in Workers |-> IF w \in W THEN "ready" ELSE "absent"]
    /\ young = {}
    /\ pin = [s \in Services |->
                Mode[s] = "workers" \/ (Mode[s] = "auto" /\ W # {})]
    /\ rolling = [s \in Services |-> FALSE]
    /\ at \in [Services -> Nodes \cup {NoNode}]
    /\ \A s \in Services : at[s] \in Resting(s, W)
    /\ \A w \in Workers : Cardinality({s \in Services : at[s] = w}) =< WorkerRoom
    /\ told = "none" /\ touched = {} /\ missed = {}
    /\ ovpc = "discover" /\ ovPin = {} /\ ovRoll = {} /\ ovOk = FALSE
    /\ ovReady = {} /\ ovHome = {} /\ ovWant = 0 /\ victim = NoNode
    /\ cooling = TRUE
    /\ aspc = "discover" /\ asPin = {} /\ asRoll = {} /\ asHome = {}
    /\ asTold = "none" /\ asTodo = {} /\ unmoved = [s \in Services |-> 0]
    /\ spent = 0

-----------------------------------------------------------------------------
(* The overseer's loop.                                                    *)

\* Step 1: servers past ORPHAN_GRACE that are not in the swarm are deleted, and
\* swarm nodes that are down and whose server is gone are removed.  Step 2: the
\* service list is read.
OvDiscover ==
  /\ ovpc = "discover"
  /\ \E old \in SUBSET ((Servers \ InSwarm) \ young) :
       node' = [w \in Workers |-> IF w \in old \/ node[w] = "lost"
                                    THEN "absent" ELSE node[w]]
  /\ young' = young
  /\ ovpc' = "nodes"
  /\ ovPin' = Pinned /\ ovRoll' = Rolling
  /\ touched' = {}
  /\ UNCHANGED <<pin, rolling, at, told, ovOk, ovReady, ovHome, ovWant, victim,
                 cooling, asVars, spent, missed>>

\* Step 4: the ready workers, then (in OvReadTasks) the task index.
OvReadNodes ==
  /\ ovpc = "nodes"
  /\ ovpc' = "tasks"
  /\ ovOk' = TRUE /\ ovReady' = Ready
  /\ UNCHANGED <<swarm, told, ovPin, ovRoll, ovHome, ovWant, victim, cooling,
                 asVars, touched, spent, missed>>

\* Step 5 decides first: with applications pinned and no worker left nothing else
\* is attempted and the release is dispatched.  Otherwise the fleet is sized for
\* some demand; a demand for no worker means the master could hold everything.
OvReadTasks ==
  /\ ovpc = "tasks"
  /\ ovHome' = Home
  /\ IF ovPin # {} /\ ovReady = {}
       THEN ovpc' = "dispatch" /\ ovWant' = 0
       ELSE /\ ovpc' = "grow"
            /\ \E d \in Demand :
                 /\ d = 0 => Cardinality(Services) =< MasterRoom
                 /\ ovWant' = Clamp(d)
  /\ UNCHANGED <<swarm, told, ovPin, ovRoll, ovOk, ovReady, victim, cooling,
                 asVars, touched, spent, missed>>

\* Any part of the inventory is unreadable: the fleet half of the loop is skipped.
OvInventoryFails ==
  /\ ovpc \in {"nodes", "tasks"}
  /\ Spend("error")
  /\ ovpc' = "dispatch"
  /\ ovOk' = FALSE /\ ovReady' = {} /\ ovHome' = {} /\ ovWant' = 0
  /\ UNCHANGED <<swarm, told, ovPin, ovRoll, victim, cooling, asVars, touched, missed>>

\* Mutant of Owned: the servers that are not ready are not counted.
OwnedReadyOnly == Cardinality(ovReady)

\* The servers grow_or_buy may order now.  What is owned is the snapshot of the
\* ready workers plus the servers that, read again here, are not ready.
Owned == Cardinality(ovReady) + Cardinality(Provisioning)
Order == IF ovWant > Owned /\ young \cap Servers = {} /\ Owned < MaxWorkers
           THEN Lesser(ovWant - Owned, MaxWorkers - Owned)
           ELSE 0

OvGrow ==
  /\ ovpc = "grow"
  /\ LET absent == {w \in Workers : node[w] = "absent"}
         count  == Lesser(Order, Cardinality(absent))
     IN \E B \in SUBSET absent :
          /\ \/ Cardinality(B) = count /\ spent' = spent
             \/ Cardinality(B) < count /\ Spend("error")   \* create failed: break
          /\ node' = [w \in Workers |-> IF w \in B THEN "booting" ELSE node[w]]
          /\ young' = young \cup B
  /\ ovpc' = "shrink"
  /\ UNCHANGED <<pin, rolling, at, told, ovPin, ovRoll, ovOk, ovReady, ovHome,
                 ovWant, victim, cooling, asVars, touched, missed>>

\* The guards of shrink, every one of them on the loop's snapshot.
LastOne == Cardinality(ovReady) = 1
\* Mutant of MayRemove: the last worker goes without looking where the tasks are.
MayRemoveBlind ==
  /\ ovWant < Cardinality(ovReady)
  /\ ovRoll = {}
  /\ ~cooling
  /\ Cardinality(ovReady) > MinWorkers
  /\ FitsWithoutOne(ovReady, ovPin)
  /\ LastOne => ovPin = {}
MayRemove ==
  /\ ovWant < Cardinality(ovReady)
  /\ ovRoll = {}
  /\ ~cooling
  /\ Cardinality(ovReady) > MinWorkers
  /\ FitsWithoutOne(ovReady, ovPin)
  /\ LastOne => ovPin = {} /\ ovHome = Services

\* remove_worker, up to the wait: the node is drained and Swarm stops its tasks.
OvDrain(w) ==
  /\ ovpc = "shrink"
  /\ MayRemove
  /\ w \in ovReady /\ node[w] = "ready"
  /\ node' = [node EXCEPT ![w] = "drained"]
  /\ at' = [s \in Services |-> IF at[s] = w THEN NoNode ELSE at[s]]
  /\ victim' = w
  /\ ovpc' = "remove"
  /\ UNCHANGED <<young, pin, rolling, told, ovPin, ovRoll, ovOk, ovReady, ovHome,
                 ovWant, cooling, asVars, touched, spent, missed>>

\* The node changed under the snapshot (Docker refuses a stale spec) or the call
\* fails: the error is logged and the loop goes on.
OvDrainFails ==
  /\ ovpc = "shrink"
  /\ MayRemove
  /\ \/ (\E w \in ovReady : node[w] # "ready") /\ spent' = spent
     \/ Spend("error")
  /\ ovpc' = "dispatch"
  /\ UNCHANGED <<swarm, told, ovPin, ovRoll, ovOk, ovReady, ovHome, ovWant,
                 victim, cooling, asVars, touched, missed>>

\* The wait is over (or timed out, "removing anyway"): the swarm node goes, then
\* its server.
OvDelete ==
  /\ ovpc = "remove"
  /\ node' = [node EXCEPT ![victim] = "absent"]
  /\ young' = young \ {victim}
  /\ cooling' = TRUE
  /\ victim' = NoNode
  /\ ovpc' = "dispatch"
  /\ UNCHANGED <<pin, rolling, at, told, ovPin, ovRoll, ovOk, ovReady, ovHome,
                 ovWant, asVars, touched, spent, missed>>

\* Listing the tasks that are left fails: the error leaves remove_worker after the
\* drain, the loop goes on, and nobody sets the node active again.
OvWaitFails ==
  /\ ovpc = "remove"
  /\ Spend("error")
  /\ victim' = NoNode
  /\ ovpc' = "dispatch"
  /\ UNCHANGED <<swarm, told, ovPin, ovRoll, ovOk, ovReady, ovHome, ovWant, cooling,
                 asVars, touched, missed>>

\* Removing the node is allowed to fail (the server is deleted all the same);
\* deleting the server is not, and leaves a server outside the swarm.  Both
\* failing leave what OvWaitFails leaves.
OvDeleteFails ==
  /\ ovpc = "remove"
  /\ Spend("error")
  /\ \/ node' = [node EXCEPT ![victim] = "lost"] /\ cooling' = TRUE
     \/ node' = [node EXCEPT ![victim] = "orphan"] /\ cooling' = cooling
  /\ victim' = NoNode
  /\ ovpc' = "dispatch"
  /\ UNCHANGED <<young, pin, rolling, at, told, ovPin, ovRoll, ovOk, ovReady,
                 ovHome, ovWant, asVars, touched, missed>>

\* Mutant of WantPinned: off by one.
WantPinnedByTwo == IF ovOk THEN ovWant > 1 ELSE ovPin # {}

\* Step 12: HANDOVER 2's gate.  Without an inventory the loop keeps the pins it
\* saw, but asks the gate about an empty list of workers.
WantPinned == IF ovOk THEN ovWant >= 1 ELSE ovPin # {}
Verdict    == IF WantPinned /\ WorkersCanHold(ovReady) THEN "workers" ELSE "master"

OvDispatch ==
  /\ ovpc = "dispatch" \/ (ovpc = "shrink" /\ ~MayRemove)
  /\ \/ told' = Verdict /\ spent' = spent
     \/ told' = told /\ Spend("error")        \* the POST failed; nothing is queued
  /\ ovpc' = "discover"
  /\ ovPin' = {} /\ ovRoll' = {} /\ ovOk' = FALSE /\ ovReady' = {}
  /\ ovHome' = {} /\ ovWant' = 0 /\ touched' = {}
  /\ UNCHANGED <<swarm, victim, cooling, asVars, missed>>

\* A restart forgets everything but the scale-down clock, which starts again.  In a
\* removal the node is drained, or out of the swarm with its server still there.
OvRestart ==
  /\ Spend("restart")
  /\ \/ node' = node
     \/ ovpc = "remove" /\ node' = [node EXCEPT ![victim] = "orphan"]
  /\ ovpc' = "discover"
  /\ ovPin' = {} /\ ovRoll' = {} /\ ovOk' = FALSE /\ ovReady' = {}
  /\ ovHome' = {} /\ ovWant' = 0 /\ victim' = NoNode /\ touched' = {}
  /\ cooling' = TRUE
  /\ UNCHANGED <<young, pin, rolling, at, told, asVars, missed>>

OverseerStep ==
  \/ OvDiscover \/ OvReadNodes \/ OvReadTasks \/ OvGrow
  \/ OvDrainFails \/ (\E w \in Workers : OvDrain(w))
  \/ OvDelete \/ OvDispatch

-----------------------------------------------------------------------------
(* The autoscaler's loop.                                                  *)

Touch(S) == touched' = IF ovpc = "discover" THEN touched ELSE touched \cup S

AsDiscover ==
  /\ aspc = "discover"
  /\ aspc' = "read"
  /\ asPin' = Pinned /\ asRoll' = Rolling
  /\ UNCHANGED <<swarm, told, ovVars, asHome, asTold, asTodo, unmoved, touched,
                 spent, missed>>

\* Mutant of AsRead: an order to release is never carried out.
AsReadPinsOnly ==
  /\ aspc = "read"
  /\ aspc' = "place"
  /\ asHome' = Home /\ asTold' = told
  /\ asTodo' = {s \in Services : /\ told = "workers" /\ Mode[s] = "auto"
                                 /\ s \notin asPin /\ s \notin asRoll}
  /\ UNCHANGED <<swarm, told, ovVars, asPin, asRoll, unmoved, touched, spent, missed>>

\* The task index and the order, read once; the services it will be applied to.
AsRead ==
  /\ aspc = "read"
  /\ aspc' = "place"
  /\ asHome' = Home /\ asTold' = told
  /\ asTodo' = {s \in Services : /\ told # "none"
                                 /\ Mode[s] = "auto"
                                 /\ (s \in asPin) # (told = "workers")
                                 /\ s \notin asRoll}
  /\ UNCHANGED <<swarm, told, ovVars, asPin, asRoll, unmoved, touched, spent, missed>>

\* `docker service update` on one service.  Swarm re-creates a task only when the
\* node it runs on no longer satisfies the spec: adding the pin moves a task off
\* the master by a start-first rollout, releasing it moves nothing.  The release
\* re-reads the live constraint and does nothing when there is none.
AsPlace(s) ==
  /\ aspc = "place" /\ s \in asTodo
  /\ asTodo' = asTodo \ {s}
  /\ pin' = [pin EXCEPT ![s] = (asTold = "workers")]
  /\ rolling' = [rolling EXCEPT ![s] = @ \/ (asTold = "workers" /\ at[s] = Master)]
  /\ IF asTold = "workers" \/ pin[s] THEN Touch({s}) ELSE touched' = touched
  /\ UNCHANGED <<node, young, at, told, ovVars, aspc, asPin, asRoll, asHome,
                 asTold, unmoved, spent, missed>>

AsPlaceFails(s) ==
  /\ aspc = "place" /\ s \in asTodo
  /\ Spend("error")
  /\ asTodo' = asTodo \ {s}
  /\ UNCHANGED <<swarm, told, ovVars, aspc, asPin, asRoll, asHome, asTold,
                 unmoved, touched, missed>>

\* Mutant of Stalled: nothing is ever nudged.
StalledNever == {}

\* Services seen unpinned, settled and not on the master; those that have been so
\* for HANDOVER_STALL_SECONDS are forced through a rolling re-placement.  A nudge
\* starts that clock again, so HANDOVER_NUDGE_COOLDOWN, which is shorter, refuses none;
\* its own look at the rollout is at the list that Waiting already excludes.
Waiting == Services \ (asPin \cup asRoll \cup asHome)
Stalled == {s \in Waiting : unmoved[s] = StallLoops}

AsNudge ==
  /\ aspc = "place" /\ asTodo = {}
  /\ \E N \in SUBSET Stalled :
       /\ \/ N = Stalled /\ spent' = spent
          \/ N # Stalled /\ Spend("error")
       /\ rolling' = [s \in Services |-> rolling[s] \/ s \in N]
       /\ unmoved' = [s \in Services |->
                        IF s \in N THEN 0
                        ELSE IF s \in Waiting THEN Lesser(unmoved[s] + 1, StallLoops)
                        ELSE 0]
       /\ Touch(N)
  /\ aspc' = "discover"
  /\ asPin' = {} /\ asRoll' = {} /\ asHome' = {} /\ asTold' = "none"
  /\ UNCHANGED <<node, young, pin, at, told, ovVars, asTodo, missed>>

\* An unreadable service list or task index: the loop holds.
AsReadFails ==
  /\ aspc = "read"
  /\ Spend("error")
  /\ aspc' = "discover" /\ asPin' = {} /\ asRoll' = {}
  /\ UNCHANGED <<swarm, told, ovVars, asHome, asTold, asTodo, unmoved, touched, missed>>

AsRestart ==
  /\ Spend("restart")
  /\ told' = "none"
  /\ aspc' = "discover" /\ asPin' = {} /\ asRoll' = {} /\ asHome' = {}
  /\ asTold' = "none" /\ asTodo' = {} /\ unmoved' = [s \in Services |-> 0]
  /\ UNCHANGED <<swarm, ovVars, touched, missed>>

\* SIGNAL_TTL_SECONDS: three loops without a delivery, which a long removal or
\* lost deliveries cause.
VerdictExpires ==
  /\ told # "none"
  /\ \/ ovpc = "remove" /\ spent' = spent
     \/ Spend("error")
  /\ told' = "none"
  /\ UNCHANGED <<swarm, ovVars, asVars, touched, missed>>

AutoscalerStep ==
  \/ AsDiscover \/ AsRead \/ AsNudge
  \/ \E s \in Services : AsPlace(s)

-----------------------------------------------------------------------------
(* Swarm's scheduler and the machines.                                     *)

Eligible(s) ==
  {n \in Nodes : IF n = Master THEN ~pin[s]
                               ELSE node[n] = "ready" /\ Mode[s] # "master"}
Load(n)     == Cardinality({s \in Services : at[s] = n})
Free(s)     == {n \in Eligible(s) :
                  Load(n) < (IF n = Master THEN MasterRoom ELSE WorkerRoom)}

\* The spread preference: the node with the fewest tasks of the service first, so
\* a replacement started before its predecessor stops goes to another node.
Best(s) == IF Free(s) \ {at[s]} # {} THEN Free(s) \ {at[s]} ELSE Free(s)

\* A pending or a replacement task starts; a rollout ends with it (start-first:
\* the old task runs until then).
TaskStarts(s) ==
  /\ at[s] = NoNode \/ rolling[s]
  /\ \E n \in Best(s) : at' = [at EXCEPT ![s] = n]
  /\ rolling' = [rolling EXCEPT ![s] = FALSE]
  /\ UNCHANGED <<node, young, pin, told, ovVars, asVars, touched, spent, missed>>

\* CI ships an image.
Deploy(s) ==
  /\ Spend("deploy")
  /\ ~rolling[s]
  /\ rolling' = [rolling EXCEPT ![s] = TRUE]
  /\ Touch({s})
  /\ UNCHANGED <<node, young, pin, at, told, ovVars, asVars, missed>>

\* History: w turns ready when the loop has listed the nodes and not yet the servers.
Missing(w) == IF ovpc \in {"tasks", "grow"} THEN missed \cup {w} ELSE missed

Join(w) ==
  /\ node[w] = "booting"
  /\ node' = [node EXCEPT ![w] = "ready"]
  /\ missed' = IF w \in young THEN missed ELSE Missing(w)
  /\ UNCHANGED <<young, pin, rolling, at, told, ovVars, asVars, touched, spent>>

\* COOLDOWN_UP passes for one server, which had joined before the overseer's loop
\* under way listed the nodes.
Matures(w) ==
  /\ w \in young
  /\ node[w] # "booting" /\ ovpc \in {"discover", "nodes"}
  /\ young' = young \ {w}
  /\ UNCHANGED <<node, pin, rolling, at, told, ovVars, asVars, touched, missed, spent>>

\* COOLDOWN_UP passes for one that has not.
BootsSlowly(w) ==
  /\ w \in young
  /\ node[w] = "booting" \/ ovpc \notin {"discover", "nodes"}
  /\ Spend("slow")
  /\ young' = young \ {w}
  /\ missed' = IF node[w] = "ready" THEN Missing(w) ELSE missed
  /\ UNCHANGED <<node, pin, rolling, at, told, ovVars, asVars, touched>>

\* A worker dies for good, or goes down and may come back.
Goes(w, state) ==
  /\ node[w] = "ready"
  /\ node' = [node EXCEPT ![w] = state]
  /\ at' = [s \in Services |-> IF at[s] = w THEN NoNode ELSE at[s]]
  /\ UNCHANGED <<young, pin, rolling, told, ovVars, asVars, touched, missed>>

Dies(w)  == Spend("loss") /\ Goes(w, "lost")
Flaps(w) == Spend("flap") /\ Goes(w, "down")

Recovers(w) ==
  /\ node[w] = "down"
  /\ node' = [node EXCEPT ![w] = "ready"]
  /\ missed' = Missing(w)
  /\ UNCHANGED <<young, pin, rolling, at, told, ovVars, asVars, touched, spent>>

\* COOLDOWN_DOWN passes.
CoolsDown ==
  /\ cooling
  /\ cooling' = FALSE
  /\ UNCHANGED <<swarm, told, ovpc, ovPin, ovRoll, ovOk, ovReady, ovHome, ovWant,
                 victim, asVars, touched, spent, missed>>

SwarmStep ==
  \/ CoolsDown
  \/ \E s \in Services : TaskStarts(s)
  \/ \E w \in Workers : Join(w) \/ Matures(w)

Fault ==
  \/ OvInventoryFails \/ OvWaitFails \/ OvDeleteFails \/ OvRestart
  \/ AsReadFails \/ AsRestart \/ VerdictExpires
  \/ \E s \in Services : AsPlaceFails(s) \/ Deploy(s)
  \/ \E w \in Workers : Dies(w) \/ Flaps(w) \/ Recovers(w) \/ BootsSlowly(w)

Next == OverseerStep \/ AutoscalerStep \/ SwarmStep \/ Fault

Spec == Init /\ [][Next]_vars

\* The reaper deletes a server that is not in the swarm.
OvReaps(w) == OvDiscover /\ node[w] = "orphan" /\ node'[w] = "absent"

(* Each process runs its loop every minute for ever, Swarm starts what it  *)
(* can place, machines boot and clocks run: a cooldown ends, and a server  *)
(* that stays outside the swarm passes ORPHAN_GRACE.                       *)
Fairness ==
  /\ WF_vars(OverseerStep)
  /\ WF_vars(AutoscalerStep)
  /\ WF_vars(CoolsDown)
  /\ \A s \in Services : WF_vars(TaskStarts(s))
  /\ \A w \in Workers : /\ WF_vars(Join(w)) /\ SF_vars(Matures(w))
                        /\ SF_vars(OvReaps(w))

FairSpec == Spec /\ Fairness

-----------------------------------------------------------------------------
(* Properties.                                                             *)

\* The overseer starts draining the last worker.
DrainsLast == ovpc = "shrink" /\ ovpc' = "remove" /\ LastOne

\* Handover in: when the last worker starts to drain, every service is still on
\* the master, unless somebody wrote its spec (a pin applied late, a nudge, a
\* deploy) after this loop listed the services.  (shrink's guards on all_unpinned,
\* missing and rolling.)
LastDrainServes ==
  [][DrainsLast => \A s \in Services : at'[s] = Master \/ s \in touched]_vars

\* The servers that exist, those still booting, draining or waiting to be reaped
\* included, are at most MAX_WORKERS and those that some loop counted in neither
\* reading, since they turned ready between the two.  (grow_or_buy,
\* provisioning_workers.)
WithinBudget == Cardinality(Servers) =< MaxWorkers + Cardinality(missed)

\* Rollouts always end: none stays in flight for ever.
RolloutsEnd == \A s \in Services : []<>(~rolling[s])

\* As long as rollouts end, a service that lost its worker runs again.  (emergency
\* release, reconcile_placement, Swarm.)
ServiceComesBack ==
  RolloutsEnd => \A s \in Services : (at[s] = NoNode) ~> (at[s] # NoNode)

\* No worker stays down for ever with its server up: such a one keeps its place in
\* the budget and is never removed.
NobodyStaysDown == \A w \in Workers : []<>(node[w] # "down")

\* No removal stops between the drain and the deletion (RemovalCompletes).
NobodyStaysDrained == \A w \in Workers : []<>(node[w] # "drained")

\* From some loop on the load asks for no worker, or always for one at least.
Idle   == <>[](ovpc = "grow" => ovWant = 0)
Loaded == <>[](ovpc = "grow" => ovWant >= 1)

\* Once the load asks for no worker, and rollouts and removals end, in the end no server is billed
\* and every service is on the master.  (release, nudge, last-worker removal.)
ScalesToZero ==
  RolloutsEnd /\ NobodyStaysDown /\ NobodyStaysDrained /\ Idle => <>[](Servers = {} /\ Home = Services)

\* Once the load asks for workers, and rollouts and removals end, in the end every service is
\* pinned and runs on one.  (purchase, boot, the handover-out gate, placement.)
MovesToWorkers ==
  RolloutsEnd /\ NobodyStaysDown /\ NobodyStaysDrained /\ Loaded =>
    <>[](\A s \in Services : pin[s] /\ at[s] \in Workers)
=============================================================================
