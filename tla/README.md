# Verification of hetzner-infra

TLA+ models of the control plane in this repository, the TLC runs that check
them on small instances, and theorems about them checked by TLAPS.

The control plane is a few single-threaded daemons, each a loop of about a
minute, that never share memory, and a panel whose requests run beside them.
They act on Docker Swarm, Hetzner and databases, which change under them, and
talk to each other with HTTP posts that are repeated whole every loop and never
queued. Nearly every hazard comes from there: a loop reads the cluster, decides,
and acts seconds or minutes later on what it read. `PROJECT.json` lists the
hazards with their lines and the properties that are about each.

## Inventory

| component | state | operations | interacts with | what makes it correct | in |
|---|---|---|---|---|---|
| **Fleet loop** (`overseer.loop`, `reap`, `shrink`, `grow_or_buy`, `remove_worker`) | scale-down clock, verdicts; all else is re-read | reap, inventory, emergency, size, buy, drain and delete, dispatch | Hetzner, Swarm; posts to the autoscaler and dataguard | never past `MAX_WORKERS`; the last worker goes only when the master serves everything; grows when asked, to zero when idle | `Handover` |
| **Placement loop** (`autoscaler.reconcile_placement`, `reconcile_handover`) | last verdict (TTL), unpinned-since clocks | receive, pin, release, nudge | Swarm service specs | pins follow the order; a deploy is never disturbed; a released service gets to the master | `Handover` |
| **Worker resize** (`overseer.begin_resize`, `advance_resize`, `end_resize`) | one `_resize` record, in memory | six phases, each with a deadline | Hetzner power and plan, Swarm availability | never cuts a task; the node comes back | `WorkerResize` |
| **Node leases** (overseer `record_leases`, `adopt_leases`, `reconcile_leases`; dataguard `hold_lease`, `sync_leases`) | the lease set on both sides, labels on servers and nodes | hold, release, post, buy, label, activate | fleet loop, replica sets | no application on a database's machine; one machine per lease | `NodeLeases` |
| **Packing and sizing** (`place`, `admit`, `servers_needed`, `workers_needed`) | none | first fit, minimums before growth, a slot for rollouts | the fleet loop | what is admitted can run and be rolled out; the fleet comes to rest | `Packer`, `Sizing` |
| **Replica decisions** (`classify.decide`, `desired_replicas`, `Stabilizer`, `right_size`) | stabilisation history, cooldown stamps | classify, stabilise, cap, scale, resize | metrics, Swarm specs | acts on what lasted; no flapping | `Scaling` |
| **Replica sets** (`plan.py`, `engines.py`, `dataguard.apply`) | the set's configuration; leases and the token of the initial sync | initiate, provision, enfranchise, hide, promote, step down, remove | Mongo, leases | a majority at every step; voters hold data; one sync at a time | `ReplicaSet`, `Membership` |
| **Dataguard maintenance** | stamps, snapshots, secrets, what was backed up | renew certificates, put consoles away, reap migrations, back up and prune | the panel, Swarm, disk | what is due reaches every member; nothing in use is taken away, nothing else is left | `Upkeep` and its four parts |
| **Signals and attribution** (`classify.attribute`, `verdict`, `publish`, `dispatch`, `read_pressure`) | the discovery cache, the last verdict of each application, pressure clocks | discover, attribute, alert or dispatch, time out | metrics; overseer to dataguard | slowness is heard of by somebody; a verdict is not believed past its time | `Attribution`, `Scaling` |
| **Admin deploys and store** (`base.deploy`, `state.py`, `store.py`) | spec, stack file, deploy history | save, render, deploy, push, stop, roll back, settle | Swarm, CI, the autoscaler | what others own is not put back; what is saved is deployed; "done" was seen | `Deploys` |
| **Renderers** (`components/*.py`) | none | compose documents, secrets | Swarm | only what they read back from live services matters to others | parts of `Deploys`, `Certificates`, `Migrations` |
| **Admin panel** (`admin/app.py`, `swarm.py`, `shape.py`) | none of its own | pages, consoles, requests | all | presentation, but for the requests above | parts of `Viewers`, `Deploys` |
| **Host operations** (`bin/*`) | a lock, a version file | fetch, copy, deploy | git, docker, ufw | repeatable | not modelled |
| **PKI** (`pki/__init__.py`) | CA files | issue, when due | openssl | a certificate names its hosts and is in date | a part of `Certificates` |

## Plan

Done: the handover of placement with the fleet; a worker's resize; leases; the
replica set and the abstract membership it implements; maintenance; packing,
sizing and replica decisions; deploys and their history; attribution. Proved:
the types of all of them, every safety property the runs check, and the refinement.

Left, in this order:

1. composition on one fleet: a resize or a lease in flight while `Handover` buys
   and removes (today each is a nondeterministic neighbour in the other's model);
2. Redis with Sentinel, whose members always vote; memory in `Scaling`.

Modules with theorems avoid RECURSIVE operators, and every constant carries a
named assumption.

## Modules

| module | models | checked by |
|---|---|---|
| `Handover`, `MCHandover` | fleet loop and placement loop, with Swarm and Hetzner | `HandoverSafety`, `HandoverSettles` |
| `HandoverProofs` | inductive invariants and theorems | TLAPS |
| `WorkerResize` | the resize of one worker, its tasks and Hetzner's orders | `Resize` |
| `NodeLeases` | leases held by dataguard, bought and labelled by the overseer | `LeasesServed` |
| `NodeLeasesProofs` | inductive invariants and theorems | TLAPS |
| `Membership` | what a replica set may be asked to become: the abstract specification | through `ReplicaSet` |
| `ReplicaSet` | plan, verbs, elections and failures of one set | `ReplicaSets` |
| `ReplicaSetProofs` | inductive invariants and theorems, the refinement among them | TLAPS |
| `Certificates`, `Viewers`, `Migrations`, `Backups` | one chore of dataguard each, with the panel's side | through `Upkeep` |
| `Upkeep` | a behaviour of one of the four | `Upkeep` |
| `UpkeepProofs` | inductive invariants and theorems | TLAPS |
| `Deploys` | one application's saves, deploys, rollouts and history | `Deploys` |
| `DeploysProofs` | inductive invariants and theorems | TLAPS |
| `Scaling` | one application's verdicts, counts, pin and resources | `Scaling` |
| `ScalingProofs` | inductive invariants and theorems | TLAPS |
| `Packer` | the packer's arithmetic, no behaviour of its own | through `Sizing` |
| `Sizing`, `MCSizing` | the fleet, its sizes and the replicas on it | `Sizing`; `SizingPins` |
| `FleetProofs` | invariants and theorems of `WorkerResize` and of `Packer` with `Sizing` | TLAPS |
| `Attribution`, `MCAttribution` | who hears of a slow application | `Attribution`; `AttributionHosts` |
| `AttributionProofs` | inductive invariants and theorems | TLAPS |

The two runs after a semicolon are expected to find a violation (below).

In all of them, faults and other events are actions that `Spend` from a budget
(`Fault` in `WorkerResize`, whose names do not clash with those of `Sizing`, so that
one module can prove both): one bound per kind (`MaxLosses`, `MaxErrors`...) and one
for all of them together (`MaxFaults`, `MaxEvents`). `Handover` has the set of the
kinds that occur (`Faults`) and the one bound (`MaxFaults`).

### Handover

`node`, `young`, `pin`, `rolling` and `at` are the cluster as Swarm and Hetzner
hold it. The overseer is a program counter (`ovpc`) through `loop`: *discover*
(reap, list services), *nodes* and *tasks* (inventory), *grow*, *shrink*,
*remove*, *dispatch*; what it read is kept in `ovPin`, `ovRoll`, `ovReady`,
`ovHome`, and every guard after that looks at those, as the code does. The
autoscaler is a second program counter (`aspc`: *discover*, *read*, *place*) with
its own snapshot and the order it had when it read it; the nudge ends its loop.
Between any two of these steps Swarm may start a task, a machine may join, a
clock may pass; the bounded faults are a worker that dies, one that goes down and
may come back, a server that joins after `COOLDOWN_UP` (`BootsSlowly`), a call that
fails, a process that restarts, a deploy by CI. The calls of `remove_worker` fail
one by one: the drain (`OvDrainFails`), the reading of the tasks after it
(`OvWaitFails`, which leaves the worker drained), the deletions (`OvDeleteFails`).
`missed` is a history: the workers that neither reading of a loop under way shows.
`handover_nudge`'s own cooldown and its second look at the rollout refuse nothing that
`reconcile_handover` lets through (its clock, which a nudge restarts, runs for 900
seconds against 600; the list is the same), so `AsNudge` has neither.

Abstracted: one replica per service, all of one size; the number of workers that
load asks for is any member of `Demand`; the removal candidate is any worker
(the code prefers the newest); resizing and leases are off; the mode `any` of a
component is not among the modes; a dead node is always one the overseer has
stamped. Listing nodes, or servers, is one step. An unreadable service list ends
the loop with nothing done, a stutter. `Sizing` has what is left out of counts.

Fairness: each process runs its loop every minute for ever, so its step is
weakly fair; Swarm starts what it can place; machines boot; cooldowns pass. Two
are strongly fair, because a loop may find them just out of reach again and
again: an orphan is reaped (it is only deleted past its grace, in the reaping
step), and a server matures (only between two listings of the nodes, unless
`BootsSlowly`). Faults are never fair.

### WorkerResize

One worker, the services on it and what Hetzner is doing to its server. `Begin`
is the decision at the end of `grow_or_buy`, with the services then running on
the node; each later action is one pass of `advance_resize` in one phase, the
branch of the code it takes as its guard. Hetzner carries an order out when it
likes, before the next loop looks or long after the resize gave up; `overdue` records
that one was unfinished when it ended. The faults: a failed
call, a failed call of `end_resize`, a replica lost elsewhere, the node or server
vanishing, a restart, a rollout. The clock of a phase is `late`, which becomes
true at any moment: deadlines are minutes and each loop may be delayed.

Fairness: the loop goes on, deadlines pass, a server that is on joins; that
Hetzner carries orders out at all is said of `OrderDone` in `ResizeFairSpec`
alone.

### NodeLeases

A machine is a name with the Hetzner label of its server (`tag`), the Swarm labels
and availability of its node (`dedicated`, `paused`, `stamped`) and what it is
doing (`machine`). The overseer's loop is *reap*, *read*, *adopt*, *buy*, *fleet*;
`known` is the set it was last posted, read again in each step as `live_leases`
does, while the posts arrive in another thread at any moment. Dataguard has `held`,
the answer `seen`, and per slot what it did to the member's service (`home`,
`member`); both `known` and `held` are lost with their process. `DgProvision` is a
whole pass of the verb, up to the call that fails.

Abstracted: why dataguard adds or removes a member (`ReplicaSet`), plans and
sizes, and the guards of `shrink`, which here holds back or removes one worker it
read, in one step: `Handover` has that part. A server is younger than
`COOLDOWN_UP` until a loop has found it joined. Names are times of day in the
code, never used twice; here a name is used again once nobody holds it.

Fairness: both loops run for ever and machines boot. Nothing says that dataguard
ever adds or removes a member.

### Membership and ReplicaSet

`inset`, `votes`, `hidden`, `prio` and `primary` are what mongod holds; `run`,
`down`, `data`, `lag` the member services and their volumes; `size` the rung of
the machine under each. A pass of dataguard is two steps, because up to half an
hour of backup lies between them: `DgRead` takes the topology into `seen` through
the primary, and `DgActs` asks `Refusals` and `NextAction` of it and applies one
verb to the set as it has become. `NextAction` is a set: where the code takes the
first of a list whose order is mongod's, any may be first. A verb that is refused,
by a gate, by mongod or by `would_break_majority`, changes nothing (`DgHolds`);
`DgProvision` and `DgRemove` may fail between their calls and leave the rest
undone. mongod's part is elections, takeovers by priority, stepdowns that wait for
a successor that has caught up, initial syncs and catching up.

`Membership` knows learners and voters: one joins or leaves at a time, a member
votes only after it has been one without, and the last voter stays.
`ImplementsMembership` maps `inset \ votes` and `votes` to them.

Abstracted: slot 1 is the master's member; the other components are one process
that takes and returns the token; a machine comes for a held lease without the
overseer's part in it; pressure changes at will (`Attribution` computes it);
component switches are on; Redis, whose members always vote and are never hidden.

Fairness: the loop goes on; members that answer sync and catch up (strongly: the
primary may go and come); elections end; machines are bought; other components
get their turn. Members that stop answering need not come back.

### Upkeep

The chores share no state and one thread does them in turn, so a behaviour of
`Upkeep` follows one of them (`chore`) and the state space is their sum.

- `Certificates`: each certificate exists three times: the file that dataguard and
  the panel both write, the newest Swarm secret and the version the service
  mounts. Dataguard's renewal is three steps (`DgWrites`, `DgMakesSecret`,
  `DgSwaps`), any of which may be the last; the panel renders and deploys in two. The restart
  of the member is left out: nobody waits until it is back.
- `Viewers`: a console's replicas, task and stamp; requests of the panel, the page
  that waits and polls, Swarm, and dataguard's two steps of finding one idle and
  stopping it. A request is forwarded, and stamped, only if the console has a replica
  wanted and running (Grafana is tried whatever it wants); otherwise it is woken.
- `Migrations`: the job and the secrets of its runs; the panel's calls of
  `start_migration`, each secret made by its own, and the reaper's, interleaved.
- `Backups`: numbered snapshots; the backup that is due, the list, the deletions
  one by one, snapshots the panel takes meanwhile, restarts that forget.

Fairness: every pass of the loop gets to each chore; what the panel has begun it
ends; Swarm and the clocks go on. Nobody has to open, save or migrate anything.

### Deploys

`saved` is the number of the last save, `file` the stack file, `svc` and `prev`
Swarm's spec and previous spec, `roll` the number and state of the last rollout.
The form goes *check*, *write*, *apply*, and *read*, *record* for the history; the
webhook and the page that settles the history have their own steps. The history is
a JSON file read, changed and written by three threads without a lock, so reading
and writing are separate steps. A service's spec is the save it was rendered from
and the three things others own: image, count, pin.

Swarm begins a rollout for anything that replaces tasks; a mere count, or what is
there already, leaves the status of the last one or clears it. A rollout outlasts
the request that began it, since it monitors for half a minute (`Unattended`). A
rollout may complete, be reverted, or stick for lack of room. `completed` and `dropped` are histories: which
images rolled out to the end, and which the service was told to leave.
`state._write` goes through one temporary file that threads share; the model takes
each write for atomic.

Fairness: requests are answered, somebody looks at the page, an entry gets old, and
a rollout that moves ends or is found stuck; what is stuck may stay so.

### Scaling

A round is one loop of each process: the overseer judges the windows of samples
and dispatches; the autoscaler scales, places and resizes by what it read at its
start; the store gets a sample or a gap. `svc` is replicas, reserve, limit and
pin; `samples` what was measured while they were in force, so what a decision
changes is measured by the next. Utilisation is against the limit, and what is
above the limit is only seen as throttling. `memory` is the stabilizer's history, as a
set of raw answers with their ages, since the code takes nothing but its maximum.
A crash of the autoscaler, a lost delivery, a deploy and a rollout that Swarm
reverts are events.

Abstracted: memory, which is judged and sized as CPU is; services that may go to
zero; latency is slow or not, by a timer compared with the past; windows are a few
samples long and the quantile of so few is their maximum.

Fairness: both loops go on, samples come, rollouts end (strongly: a loop may begin
the next one).

### Packer and Sizing

`Packer` is the code's arithmetic as folds: items in the order of `demand_items`,
bins in the order of `place`, first fit; `Admit` in its three passes (minimums,
growth, the rollout slot) and the floor of what runs; `ServersNeeded` with the
bound of its loop. What a loop of the code does with one replica, one application or
one server is an operator of its own (`Put`, `Give`, `Yield`, `Open`), which the folds
repeat and the proofs speak of. Resources are pairs of CPU and memory. `Holds` is the reference:
whether *any* placement exists, whatever finds it.

`Sizing` is the loop with these operators: `Emergency`, or `Sizes`, which is one of
grow, buy, remove or cut in the code's order and the dispatch of pin and
ceilings; then `Applies`, the autoscaler's part. Workers join, mature, are lost;
costs, wants and pressure change.

Abstracted: a loop's decision is applied before the fleet changes again; a resize is
one step; what is wanted is any count within the policy; Swarm finds a placement
where there is one; disk, prices and hand-made pins are left out.

Fairness: the overseer dispatches again and again, and the autoscaler applies;
servers join, clocks pass, tasks move (strongly: the loops come between).

### Attribution

`waits` is what makes each application slow. The overseer's loop is `OvJudges`
(discovery from the cache or anew, verdicts, gauges) and `OvDispatches`, with
deliveries that may be lost; dataguard's is `DgLoops`: the targets heard of within
the TTL and the clocks of `_sustained`, of those databases that it could read in this
loop (an unreadable list, certificate or topology, a set just created, or a backup
skips some or all: `unread`). Both loops run once a round in either order; a round is the unit of every window. Installing, removing and restarting
dataguard are events, as are the overseer's restart and a loop that ends early.

`Label` gives the name that the timer of each application has for each database: the
component's, as dataguard takes it to be, or a host's, as most client libraries do.
Abstracted: what the readings are computed from (`Scaling` has the windows).
Fairness: rounds go on.

## What the runs show

| run | shows |
|---|---|
| `HandoverSafety` | the last worker is drained only when each service is on the master or had its spec written after the loop read it; the cap is passed by no more than the servers no reading showed |
| `HandoverSettles` | once the load is idle nothing is billed in the end; once it lasts, everything ends pinned and on workers; a dead worker's services run again; all on the conditions below |
| `Resize` | a resize drains and powers off only what is served elsewhere; it cuts no task and puts the node back, but for an order of Hetzner's that outlasts it |
| `LeasesServed` | applications keep off leased machines; one machine per lease; a member's machine is never deleted; a lease that stays held ends with a machine |
| `ReplicaSets` | no verb leaves a set that cannot elect, no voter is without data, members run on held machines, one initial sync at a time in the cluster, and every step is one of `Membership`; lasting pressure takes the set off the master, lasting quiet brings it back |
| `Upkeep` | certificates reach every member if no call fails and no deploy overtakes; consoles that were used are put away; a running migration keeps its job and strings, which go when it is over; retention keeps what it says; a backup is taken again whatever was forgotten |
| `Deploys` | a deploy changes no image, count or pin but one written after its render; what is saved is deployed, unless that failed or was reverted; an entry is done only if its image rolled out or was taken off since; each entry with a rollout is settled |
| `Scaling` | replicas go only after a whole quiet window and come only for a busy one; under a steady load the loops come to rest; a limit that throttles is raised |
| `Sizing` | ceilings leave room for a rollout; a worker goes only when what runs fits on the rest; fleet, counts and placement come to rest, with no worker kept that the ceilings do not need |
| `Attribution` | a slow application is alerted on, or presses on its database at dataguard if its timer bears the component's name; a database is not taken for slow longer than a verdict lives and readings fail |

Two find the violation they expect, each of what a comment says:

| run | finds |
|---|---|
| `SizingPins` | a loop pins applications to workers of which it has just removed one |
| `AttributionHosts` | a claim silences an alert on the word of a timer that names a host, for which dataguard never looks, and nobody acts |

### What the properties are conditional on

What a property excepts, the model has, and TLC finds the property violated without the
exception; the list after the next section says what happens in the code then.

- `HandoverSettles` and `LeasesServed`: rollouts must end (`RolloutsEnd`; Swarm needs a
  node for that), no machine may stay down for ever with its server up
  (`NobodyStaysDown`: such a one is neither removed nor replaced) or drained
  (`NobodyStaysDrained`), and no dead node may stay unstamped (`NoGhosts`).
- `LastDrainServes`: the services in `touched`, written after the loop listed them (a
  pin applied late, a nudge, a deploy). `WithinBudget`: the servers in `missed`.
- `CutsNothing` and `BackInService`: an order still open when the resize ended
  (`overdue`); `BackInService` restarts and failed calls of `end_resize` too.
- `QuorumKept`: a member that stopped answering after the topology was read;
  `OneSyncAtATime`: restarts and such members; `MembersAreHeld`: the leases a restart
  forgot; `LadderUp` and `LadderDown`: a member that stops answering or falls behind
  (`AllWell`), since a member hidden once is never electable again; `LadderUp` allows
  the pair of slots 1 and 3 as a resting place, `LadderDown` excepts takeovers that go
  on for ever.
- `CertificatesRenewed`: a failed call, and a deploy rendered before a renewal;
  `CredentialsGo`: a failed call, and a pair torn while it is made; `PutAway`: a
  console without a stamp.
- `SavedIsDeployed`: a deploy that failed or was reverted; `KeepsLive`: a field written
  after the render, and a render that could not read the service; `DoneIsObserved`: an
  image taken off since, and a service that Swarm reports no rollout of.
- `SlownessHeard`: timers that do not bear the component's name (`AttributionHosts` is
  without the exception); `ForgetsInTime` adds the loops that read nothing.
- `CeilingRolls` excepts replicas that outlived a worker.

### Bounds

- `Handover`: one service, since every guard of the fleet step asks the same of all
  services and the theorems hold for any number; two workers under a cap of one
  where the budget matters (a server past the cap, an orphan beside a booting
  one), one worker for liveness; two faults of any kind for safety and one of any kind for
  liveness (a death, a worker down and back, a slow boot, a failed call, a restart, a
  deploy). With two workers and a stall of one loop, nudges move a replica between the
  workers for ever: `HANDOVER_STALL_SECONDS` is several loops, so liveness is checked
  with one.
- `WorkerResize`: two services, so that one may be served elsewhere and the other
  not, and one of each fault together.
- `NodeLeases`: one lease and three names, which is an ordinary worker beside a
  machine and its replacement; two leases in the theorems only.
- `ReplicaSet`: five slots are all the renderer can use before the ceiling of four
  members bites; two rungs make an upgrade. One change of pressure (to capacity, to
  reads or to quiet) and one event, a fault of any kind or a sync of another component,
  for safety and liveness together. `LadderDown`'s exception of takeovers needs more
  changes of pressure than that; the theorems hold for any number.
- `Upkeep`: two members, so that one's renewal waits for the other's; two runs of a
  migration for one to meet the leavings of the other; five snapshots of which two
  are kept; one failing call in each and one restart.
- `Deploys`: one save, one redeploy, two pushes, three events in all: a deploy
  overtaken while it retries, with an entry of the webhook in between. Two attempts
  stand for `DEPLOY_ATTEMPTS`.
- `Scaling`: three loads (idle, what one replica throttles on, more than one node),
  counts 1 to 3 under a ceiling of 2, windows of one and three samples; two events.
- `Sizing`: two applications that do not pack evenly, two rungs, a budget of three,
  two costs, two events: enough for a cut that leaves a hole and for a purchase in
  the same loop.
- `Attribution`: two applications, one of them muted for its vendor, one database;
  windows of 2, 3 and 5 rounds; two events.

`CHECK_DEADLOCK FALSE` stands in the runs of `WorkerResize`, `Scaling`, `Sizing`,
`Deploys`, `Upkeep` and `Attribution`: their worlds stop, either because the server
is gone or the bounded events are spent and nobody saves, pushes or ages any more.

What the bounds leave out on purpose:

- no hand-made pins: a service pinned by hand keeps the overseer in its emergency
  branch (overseer.py:3142), the autoscaler leaves it alone, and no worker is bought;
- after a restart `BackInService` promises nothing: the resize in flight is only in
  memory (overseer.py:2284) and a node drained by it stays drained;
- `Resize` promises nothing of rollouts: the drain does not look at them again
  (overseer.py:2450); nor of an end to `powering_on`, whose deadline is not looked
  at while the server is off (overseer.py:2544).

## What the code does and its comments do not

Found while modelling, and reproduced by the models. Two have a run that expects the
violation: the table above, and `findings` in `PROJECT.json` with the lines. The others
are in no run, but for the properties that except them.

Against what a comment, a document or a test says:

- handover: a late pin, a nudge or a deploy after the loop read the tasks moves a
  replica onto the last worker, which is drained under it (overseer.py:3561, against
  README.md:296); a worker down at the first reading and ready at the second is in
  neither, and one server past the cap is bought (overseer.py:3467, against
  README.md:241); a failed reading of the tasks after the drain leaves a worker
  drained and billed, no candidate and no orphan (overseer.py:2225, against 2461); a
  rollout in flight when the last worker dies has no node to end on, and the release
  of the pin waits for it (autoscaler.py:389, against README.md:299);
- resize: a power-off that timed out while Hetzner had it in hand lands on a node put
  back to work (overseer.py:2384, against 2463); one that gives up during the change of
  plan powers on nothing, as the server does not say "off" (overseer.py:2384, against
  2371);
- replica set: the pair of slots 1 and 3 is asked for slot 3 in every loop and stays a
  pair (plan.py:242, against 137 and test_plan.py:247);
- certificates: the file is written first and alone says what is due, so a failure
  after it is never made good (dataguard.py:992, against 937); the panel's deploy puts
  back the version it rendered before a renewal (base.py:606, against dataguard.py:1023);
  the next loop restarts another member without a look at the last
  (dataguard.py:996, against 994);
- consoles: one woken and left before it ran has no stamp and stays up
  (dataguard.py:1647, against swarm.py:1501);
- migrations: a purge between the two secrets of a run leaves the second with no job
  that names it (mongo.py:1606, against 1595);
- deploys: after a pushed image was reverted, a change of placement that rolls the old
  one out marks the push done (state.py:226, against 200); a retry applies the file
  rendered before the write that overtook it (base.py:885, against 870); a deploy that
  failed leaves its file, and the same save then finds nothing to do (base.py:885,
  against 708);
- attribution: slowness that ended and came back between two readings that failed
  counts as one (dataguard.py:840, against 830).

And beside them:

- handover: a loop without an inventory orders the release of every pin
  (overseer.py:3222 and 3294, against 3115); a service pinned by hand holds the
  emergency branch;
- resize: the deadline of `powering_on` is not looked at while the server is off;
- leases: a leased machine that boots is counted as a worker the applications asked
  for (overseer.py:1282, against test_fleet.py:1303); a machine labelled but never
  stamped answers for its lease after its death (overseer.py:3027, against 2704); a
  released machine never becomes an ordinary worker (overseer.py:3042, against
  3038), and a bigger member that takes the slot again gets the small machine;
  dataguard holds a lease before its machine exists and gives it up only when the
  member is removed (dataguard.py:1296);
- replica set: the cooldown refuses nothing, because each loop builds its components
  anew (dataguard.py:451 and 1529); a promotion leaves its priority of 2 for good, so
  that the member takes the primary back after each stepdown, and a member hidden once is never electable again (engines.py:379); the token of the initial sync is
  only returned by an enfranchise (dataguard.py:1314); the machine just bought
  counts for the top of the ladder before the member on it is in the set
  (overseer.py:2874);
- deploys: a service created anew has no rollout to wait for and is judged by its
  tasks, so its entry may be done for the tasks of the deploy before (state.py:226);
  a service stopped and deployed again returns with the image its form was created
  with; two threads that record at once lose an entry;
- replicas: a resize goes by what the loop read at its start, so it is stacked on the
  rollout that the same loop's placement began (autoscaler.py:848, against 838); a
  smaller count is answered with the largest of the window, which may be above what
  runs, so that a shrink grows (workloads.py:690, against 648);
  ceilings are what fits when everything is at its maximum, and keep workers nobody
  wants (overseer.py:3255, against 1822); admission is not monotone: let
  replicas of two applications take 2 CPU and 1 CPU, three of each be wanted, and the
  master have 6 CPU; with a worker of 1 CPU the small application is granted three
  replicas, with one of 2 CPU two, since the large one then gets in more often
  (overseer.py:1736, against 1706; `Granted` in TLC);
- attribution: dataguard is never told of an end (overseer.py:3445, against 3288), only
  the TTL ends it; a failed lookup is cached for its whole time and looks like a quiet
  service.

## What is proved

`HandoverProofs`: for any services, workers, capacities and fault bounds,

- `TypeCorrect`;
- `LastDrainIsSafe`. The invariant is `SnapshotHolds`: between listing the services
  and draining, a service nobody touched still has the pin, rollout and place the
  loop saw. It is needed because the guard speaks of the snapshot and the property
  of the cluster;
- `BudgetKept`, with no assumption on when workers come back or servers join. The
  invariant is `CountIsSafe`: what is ready was counted, is young and holds the
  cooldown, or is in `missed`. Without `missed` the property is false.

`FleetProofs`, of `WorkerResize`: `ResizeTypes`, `DrainsSpareAlways` and
`PowersOffServedAlways` for any services, faults and delays, by `ResizeInv`;
`CutsNothingAlways`, by `OffIsEmpty`: an order to switch off that is open and not
`overdue` is of a node that is drained and empty.

`FleetProofs`, of `Packer` and `Sizing`: for any applications, policies, costs, plans,
budget and numbers of events,

- `TypeCorrect`: what exists and what boots never exceed the budget, whatever the
  packer asks for; counts stay within the policies. The ceilings and the number of
  machines needed are of the right types because every fold keeps the type of what it
  folds (`PlaceType`, `OpenSteps`, `FilledStands`);
- `GrantedRolls`: what admission grants has a placement, and so has one replica more of
  any application granted more than its minimum. The invariant of admission is
  `Stands`: on every bin, what is free and what the granted replicas there reserve are
  the room it began with, and nothing of a pinned application is on the master.
  `GiveStands` and `YieldStands` keep it replica by replica; a yield leaves the very
  room that the rest of the pass only adds to (`SlottedRolls`). Hence
- `CeilingsAlwaysRoll`, since a ceiling above what runs and above the minimum is what
  was granted;
- `AllPlacedHolds`: where first fit leaves nothing over, a placement exists, for the
  counts and for any smaller ones. The items are one a replica, in whatever order
  (`ItemsTally`), what is placed and what is left over are together what was asked for
  (`PlaceStands`), and what stands on bins is held, as is less of it
  (`StandsHoldLess`). Hence
- `RoomAlwaysKept`, since what is asked of the rest covers what runs.

The converse, that first fit finds a placement when there is one, is not true of it.
The packer is folds, and a fold is a recursive function; that it steps as its operator
says is proved once (`FoldMade`, `FoldSteps`, the least index at which it would not is
none), and each lemma after that walks the indices with an invariant of the code's
loop. `Holds` speaks of the sets of sums that bins can take, so a placement is turned
into one, bin after bin, by `PlacementHolds`.

`NodeLeasesProofs`: for any machines, leases, demand and faults,

- `TypeCorrect`;
- `AppsKeepOffAlways`, by `KeptOff`: a leased machine is labelled or still paused.
  The property says where tasks are; the invariant why none can start there, from
  the purchase to the label;
- `OnePerLeaseAlways`, by `OneOwner`: at most one machine answers for a lease, as a
  server or as a labelled node. The two readings of `reconcile_leases` cover both
  forms, which is why a death between them buys nothing twice;
- `MemberKeptAlways`, by `Apart`: the workers a loop has read were never bought for
  a lease, and the machines members are pinned to always were.

`ReplicaSetProofs`: for any pool of at least three slots, any ladder and any faults,

- `TypeCorrect`, with `Snapshot`: between reading and acting the configuration is the
  one that was read, as only dataguard changes it. Everything below needs it, because
  a verb is decided on `seen` and applied to the set;
- `MembersStayHeld`: the order of `provision` and `remove` is itself inductive;
- `VotersKeepData`, by `Copies`: whoever *may be given* a vote in this pass has a copy
  too, and the volumes that go are those of machines no member runs on;
- `QuorumStays`, by `Fresh`: whom the pass counts on still answers, unless a member
  stopped since the reading (`shaken`), which is what the property excepts;
- `OneSyncStays`, by `SyncsAlone`: whoever syncs has the token of the cluster. It says
  nothing after a restart, which forgets the token, or after a member stopped;
- `StepsAreMembership`: the refinement, step by step. It needs `PrimaryVotes`, since
  the last voter stays only because the primary is one.

`UpkeepProofs`: for any members, runs, snapshots and failing calls, `TypeCorrect`;
`RunningStays`, by `RunsInOrder`: jobs begin one after the other, what the reaper found is
the job there is or one before it, and a job's secrets are there as long as it is;
`RetentionHolds`, by `DoomedAreOld`: what is
still to be deleted is older than all the rest, of which enough is left. The panel may
add snapshots in between, which are newer, and other steps only take away what is
doomed.

`DeploysProofs`: for any numbers of saves, pushes, attempts and events,

- `TypeCorrect`, with `SavesCounted`: what is rendered or told was saved;
- `LiveStays`, by `FreshRender`: what nobody wrote since the render is in the file as it
  is in the service, field by field; the theorem says nothing of a field that was
  written, which a retry does put back;
- `SavesReachTheService`, by `Told`: a form that is done has told the service;
- `DoneStaysObserved`, by `Dated`: each thread's copy of the history, and the page's
  verdict, are true of what completed, so that any order of writing them back is. The
  image of an entry that is done completed a rollout begun no earlier than the deploy,
  or was taken off the service since, which the code cannot tell apart.

`AttributionProofs`: `TypeCorrect` and `ForgetsItself`, for any applications,
databases, windows and losses, by three facts in a chain: what this loop judged is of
this round (`Judged`), what dataguard believes is no younger than the judgement
(`Recalled`), a clock that runs was last fed by a belief in date, as many loops ago as
its database was not read (`Running`). It assumes `OwnLabels`: a timer that bears a component's name is that component's.

`ScalingProofs`: for any labels, even out of range or crossed, any windows, ceilings
and faults,

- `TypeCorrect`: counts stay within the policy, reservations and limits between the
  floor and the node;
- `ShrinksWhenQuiet`, by `Heard`: a verdict still in date has its whole window among
  the samples (`WindowMoves` shifts it with them), and nothing in `target_replicas` but
  a direction of "down" makes the answer smaller: not the bounds, not the
  stabilizer, not the ceiling;
- `GrowsOnlyWhenBusy`, by `Remembered`, assuming `ForgetsFirst`: a larger answer that
  the stabilizer still holds was asked for by a busy window since, which cannot lie
  inside the quiet window the shrink rests on. `StabilizeDown + SustainUp + Ttl <=
  SustainDown` holds of the defaults (300 + 90 + 180 against 900 seconds) and of the
  run. The proof does not go through without it, and TLC shows why: with a
  stabilizer of three loops and a window of three, an application that a ceiling kept
  from growing is quiet for a whole window and then grows on the remembered answer
  (workloads.py:690). The labels allow it (`autoscale.stabilize_down_seconds` up to
  3600, `sustain_down_seconds` from 60); Kubernetes bounds what it remembers by what
  runs, and docs/autoscaler-vs-kubernetes.md:281 takes this for its rule.

The assumptions are the named ones on constants (`ResizeAssumption` and the like):
bounds are natural numbers and the sets are finite where the proof counts; a pool has
three slots at least, since slot 1 is the master's and a set is three members; the
node of `Scaling` holds the limit that an application starts with.

The packer's constants (`PackerConstants`, `SizingConstants`) say that applications are
distinct and minimums are between one and the maximum, and that costs and plans are
natural numbers: reservations and room are whole bytes and nanocores, and room is
clamped at zero where overhead is taken off (workloads.py:74).

Only model-checked: every liveness property, since fairness and ENABLED are beyond the
prover (`Settles`, `Relieved`, `LadderUp` and `LadderDown`, `BackupsTaken` and the like),
and the two that are false, which the runs show. That the packer is good enough for the fleet to
come to rest (`Settles`, `GivesBack`) is checked on the run's two applications only.

## Not modelled

- The host's shell scripts (`bin/`): each step is a call of git, docker or ufw that
  can be repeated.
- Redis with Sentinel, and the configuration of sentinels by dataguard.
- The layout of compose documents, pages and charts, and the text of queries: the
  results are inputs of the models.
- The issuing of certificates, which is openssl's; disk space and prices in the
  choice of a plan.
- The loops together on one fleet: each module has its neighbours as
  nondeterministic events, which allows more than they do, and no property is
  stated across `Handover`, `NodeLeases` and `WorkerResize`.
