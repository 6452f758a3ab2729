----------------------------- MODULE NodeLeases -----------------------------
(***************************************************************************)
(* Node leases: how dataguard gets machines for database members out of    *)
(* the overseer, beside the fleet of ordinary workers.                     *)
(*                                                                         *)
(* Dataguard posts its whole set of leases every loop and reads back which *)
(* machine each one has.  The overseer buys a machine for a lease without  *)
(* one, lets it join paused, labels it, and only then lets it schedule.    *)
(* Neither keeps the set on disk: Hetzner's labels and Swarm's are what    *)
(* survives a restart.                                                     *)
(*                                                                         *)
(* Abstracted: plans and sizes; the removal guards of shrink (module       *)
(* Handover); why dataguard adds or removes a member (plan.py); a server   *)
(* is younger than COOLDOWN_UP until a loop has found it joined.           *)
(***************************************************************************)
EXTENDS Integers, FiniteSets

CONSTANTS
  Machines,     \* names of servers; one is used again only when nothing holds it
  Leases,       \* one per member slot a component may fill with a machine
  NoLease,      \* the tag of an ordinary worker
  Demand,       \* the worker counts the applications may ask for
  MaxWorkers,   \* the budget cap
  MaxLosses,    \* bound: machines that die for good
  MaxFlaps,     \* bound: machines that go down and may come back
  MaxErrors,    \* bound: failed calls, lost deliveries, loops without leases
  MaxRestarts,  \* bound: restarts of the overseer or of dataguard
  MaxSlow,      \* bound: servers that outlive ORPHAN_GRACE before they join
  MaxFaults     \* bound: all of these together

ASSUME LeaseConstants ==
  /\ IsFiniteSet(Machines) /\ IsFiniteSet(Leases)
  /\ NoLease \notin Leases
  /\ Demand \subseteq Nat /\ MaxWorkers \in Nat
  /\ {MaxLosses, MaxFlaps, MaxErrors, MaxRestarts, MaxSlow, MaxFaults} \subseteq Nat

VARIABLES
  \* What Swarm and Hetzner hold.
  machine,    \* "absent", "booting", "ready", "down" (its server still exists) or
              \* "lost" (a swarm node whose server is gone)
  tag,        \* the lease in the server's Hetzner label, or NoLease
  dedicated,  \* nodes labelled dedicated, with the lease of their tag
  paused,     \* nodes that take no new task
  stamped,    \* nodes labelled as managed by the overseer
  app,        \* nodes that run application tasks
  home,       \* per lease: the machines its member service is constrained to
  member,     \* per lease: "off", "started" (one replica, not in the set), "member"
  \* The overseer.
  known,      \* the live leases it has received
  ovpc, ovReady, ovWant,
  \* Dataguard.
  held,       \* the leases it holds
  seen,       \* per lease: the schedulable machines of the last answer
  \* How many of each bounded event have happened.
  spent

cluster == <<machine, tag, dedicated, paused, stamped, app>>
members == <<home, member>>
ovVars  == <<known, ovpc, ovReady, ovWant>>
dgVars  == <<held, seen>>
vars    == <<cluster, members, ovVars, dgVars, spent>>

Events == {"loss", "flap", "error", "restart", "slow"}
Bound == [e \in Events |->
            CASE e = "loss"    -> MaxLosses
              [] e = "flap"    -> MaxFlaps
              [] e = "error"   -> MaxErrors
              [] e = "restart" -> MaxRestarts
              [] e = "slow"    -> MaxSlow]
Faults == spent["loss"] + spent["flap"] + spent["error"] + spent["restart"]
            + spent["slow"]
Spend(e) == /\ spent[e] < Bound[e] /\ Faults < MaxFaults
            /\ spent' = [spent EXCEPT ![e] = @ + 1]

TypeOK ==
  /\ machine \in [Machines -> {"absent", "booting", "ready", "down", "lost"}]
  /\ tag \in [Machines -> Leases \cup {NoLease}]
  /\ dedicated \subseteq Machines /\ paused \subseteq Machines
  /\ stamped \subseteq Machines /\ app \subseteq Machines
  /\ home \in [Leases -> SUBSET Machines]
  /\ member \in [Leases -> {"off", "started", "member"}]
  /\ known \subseteq Leases
  /\ ovpc \in {"reap", "read", "adopt", "buy", "fleet"}
  /\ ovReady \subseteq Machines /\ ovWant \in Nat
  /\ held \subseteq Leases
  /\ seen \in [Leases -> SUBSET Machines]
  /\ spent \in [Events -> Nat]

-----------------------------------------------------------------------------
(* What can be read of the cluster.                                        *)

In(states) == {m \in Machines : machine[m] \in states}
Servers    == In({"booting", "ready", "down"})
Nodes      == In({"ready", "down", "lost"})
Booting    == In({"booting"})
Leased     == {m \in Machines : tag[m] # NoLease}
Marked(l)  == {m \in Nodes \cap dedicated : tag[m] = l}

\* Mutant of Ready: the test on the label is forgotten.
ReadyOrDedicated == In({"ready"}) \ paused

\* The workers available to applications.
Ready == In({"ready"}) \ (paused \cup dedicated)

\* Names for new servers.
Fresh == In({"absent"}) \ (ovReady \cup UNION {home[l] \cup seen[l] : l \in Leases})

\* The answer to a post of the lease set: what Swarm says each lease has.
Answer == [l \in Leases |-> {m \in Marked(l) : machine[m] = "ready" /\ m \notin paused}]

Init ==
  /\ machine = [m \in Machines |-> "absent"]
  /\ tag = [m \in Machines |-> NoLease]
  /\ dedicated = {} /\ paused = {} /\ stamped = {} /\ app = {}
  /\ home = [l \in Leases |-> {}] /\ member = [l \in Leases |-> "off"]
  /\ known = {} /\ ovpc = "reap" /\ ovReady = {} /\ ovWant = 0
  /\ held = {} /\ seen = [l \in Leases |-> {}]
  /\ spent = [e \in Events |-> 0]

-----------------------------------------------------------------------------
(* The overseer's loop.                                                    *)

\* The nodes and servers of S are gone, with every label they had.
Forget(S) ==
  /\ machine' = [m \in Machines |-> IF m \in S THEN "absent" ELSE machine[m]]
  /\ tag' = [m \in Machines |-> IF m \in S THEN NoLease ELSE tag[m]]
  /\ dedicated' = dedicated \ S /\ paused' = paused \ S /\ app' = app \ S

\* adopt_workers: a node with one of our servers is stamped as ours, once.
Unstamped == (Nodes \cap Servers) \ stamped

\* reap_orphans: nodes whose server is ours are stamped first; then servers past
\* ORPHAN_GRACE outside the swarm are deleted, and stamped nodes that are down with
\* no server are removed.
OvReap ==
  /\ ovpc = "reap"
  /\ \E missed \in SUBSET Unstamped, old \in SUBSET Booting :
       /\ \/ missed = {} /\ old = {} /\ spent' = spent
          \/ Cardinality(missed) = 1 /\ old = {} /\ Spend("error")
          \/ missed = {} /\ Cardinality(old) = 1 /\ Spend("slow")
       /\ Forget(old \cup (In({"lost"}) \cap stamped))
       /\ stamped' = (stamped \cup (Unstamped \ missed)) \ In({"lost"})
  /\ ovpc' = "read"
  /\ UNCHANGED <<members, known, ovReady, ovWant, dgVars>>

\* The demand of the applications, under the cap.
Wanted(d) == IF d < MaxWorkers THEN d ELSE MaxWorkers

\* The inventory and the demand.
OvRead ==
  /\ ovpc = "read"
  /\ ovpc' = "adopt"
  /\ ovReady' = Ready
  /\ \E d \in Demand : ovWant' = Wanted(d)
  /\ UNCHANGED <<cluster, members, known, dgVars, spent>>

\* Reaping fails and is left for the next loop; or the inventory is unreadable, or the
\* emergency path is taken, and this loop does not get to leases.
OvSkips ==
  /\ Spend("error")
  /\ \/ ovpc = "reap" /\ ovpc' = "read"
     \/ ovpc = "read" /\ ovpc' = "reap"
  /\ UNCHANGED <<cluster, members, known, ovReady, ovWant, dgVars>>

\* adopt_leases: labels and availability are written in one update of the node.
ToAdopt == {m \in Nodes \cap Servers : /\ tag[m] \in known
                                       /\ m \notin dedicated \/ m \in paused}

OvAdopt ==
  /\ ovpc = "adopt"
  /\ \E A \in SUBSET ToAdopt :
       /\ \/ A = ToAdopt /\ spent' = spent
          \/ A # ToAdopt /\ Spend("error")
       /\ dedicated' = dedicated \cup A
       /\ paused' = paused \ A
  /\ ovpc' = "buy"
  /\ UNCHANGED <<machine, tag, stamped, app, members, known, ovReady, ovWant, dgVars>>

\* Mutants of Missing: servers still booting are not looked at; a lease that once
\* had a machine is not bought for again.
MissingNoBooting == {l \in known : Marked(l) = {}}
MissingOnce ==
  {l \in known : Marked(l) = {} /\ (\A m \in Servers : tag[m] # l) /\ home[l] = {}}

\* The leases with no labelled node and no server bought for them.
Missing == {l \in known : Marked(l) = {} /\ (\A m \in Servers : tag[m] # l)}

\* Mutant of JoinsPaused: every machine joins active.
JoinsActive(B) == {}

\* create_worker: which of the servers B, bought for a lease, join paused.
JoinsPaused(B) == B

\* reconcile_leases: one server for each missing lease, until a create fails.
OvBuyLeased ==
  /\ ovpc = "buy"
  /\ \E buy \in [Fresh -> Missing \cup {NoLease}] :
       LET B == {m \in Fresh : buy[m] # NoLease}
           done == {buy[m] : m \in B} IN
       /\ \A m, n \in B : buy[m] = buy[n] => m = n
       /\ \/ (done = Missing \/ B = Fresh) /\ spent' = spent
          \/ done # Missing /\ B # Fresh /\ Spend("error")
       /\ machine' = [m \in Machines |-> IF m \in B THEN "booting" ELSE machine[m]]
       /\ tag' = [m \in Machines |-> IF m \in B THEN buy[m] ELSE tag[m]]
       /\ paused' = paused \cup JoinsPaused(B)
  /\ ovpc' = "fleet"
  /\ UNCHANGED <<dedicated, stamped, app, members, known, ovReady, ovWant, dgVars>>

\* The ordinary workers grow_or_buy may order.  A server that is not among the ready
\* workers counts as one that is booting, leased or not.
Young == Booting \cup (Ready \ ovReady)
Owned == Cardinality(ovReady) + Cardinality(Servers \ Ready)
Order == IF ovWant > Owned /\ Young = {} /\ Owned < MaxWorkers
           THEN ovWant - Owned
           ELSE 0

OvGrow ==
  /\ ovpc = "fleet" /\ ovWant >= Cardinality(ovReady)
  /\ \E B \in SUBSET Fresh :
       /\ \/ (Cardinality(B) = Order \/ (B = Fresh /\ Cardinality(B) < Order))
             /\ spent' = spent
          \/ Cardinality(B) < Order /\ B # Fresh /\ Spend("error")
       /\ machine' = [m \in Machines |-> IF m \in B THEN "booting" ELSE machine[m]]
  /\ ovpc' = "reap"
  /\ UNCHANGED <<tag, dedicated, paused, stamped, app, members, known, ovReady,
                 ovWant, dgVars>>

\* shrink: one of the workers this loop read is drained and deleted, or the guards
\* of Handover hold it back.
OvShrink ==
  /\ ovpc = "fleet" /\ ovWant < Cardinality(ovReady)
  /\ \E gone \in {{}} \cup {{w} : w \in ovReady \cap In({"ready", "down"})} :
       Forget(gone) /\ stamped' = stamped \ gone
  /\ ovpc' = "reap"
  /\ UNCHANGED <<members, known, ovReady, ovWant, dgVars, spent>>

OvRestart ==
  /\ Spend("restart")
  /\ known' = {} /\ ovpc' = "reap" /\ ovReady' = {} /\ ovWant' = 0
  /\ UNCHANGED <<cluster, members, dgVars>>

\* LEASE_TTL_SECONDS: fifteen minutes without a post.
LeasesExpire ==
  /\ known # {}
  /\ Spend("error")
  /\ known' = {}
  /\ UNCHANGED <<cluster, members, ovpc, ovReady, ovWant, dgVars>>

OverseerStep ==
  OvReap \/ OvRead \/ OvAdopt \/ OvBuyLeased \/ OvGrow \/ OvShrink

-----------------------------------------------------------------------------
(* Dataguard's loop.                                                       *)

\* record_leases: the whole set of a manager replaces what was known of it.
RecordLeases(leases) == known' = leases

\* sync_leases: the whole set goes out and the answer comes back.
DgSync ==
  /\ RecordLeases(held)
  /\ seen' = Answer
  /\ UNCHANGED <<cluster, members, ovpc, ovReady, ovWant, held, spent>>

\* lease_ready: the last answer has a machine for it that is ready and not paused.
LeaseReady(l, answer) == answer[l] # {}

\* start_member: the pin first, and a pin is never taken off.
StartMember(l, machines, reached) ==
  /\ home' = [home EXCEPT ![l] = @ \cup machines]
  /\ member' = [member EXCEPT ![l] = IF reached = "pinned" THEN @ ELSE reached]

\* stop_member: its volume and its pin stay.
StopMember(l) == member' = [member EXCEPT ![l] = "off"]

\* apply, verb provision, for a slot that is not in the set: hold the lease, post
\* it (or fail to, and go by the last answer), wait until the machine is ready and
\* schedulable, pin the member to it, start it, add it to the set.
DgProvision(l) ==
  /\ member[l] # "member"
  /\ held' = held \cup {l}
  /\ \E posted \in BOOLEAN, reached \in {"held", "pinned", "started", "member"} :
       /\ IF posted THEN RecordLeases(held') /\ seen' = Answer
                    ELSE UNCHANGED <<known, seen>>
       /\ IF posted /\ reached = "member" THEN spent' = spent ELSE Spend("error")
       /\ IF LeaseReady(l, seen') /\ reached # "held"
            THEN StartMember(l, seen'[l], reached)
            ELSE UNCHANGED members
  /\ UNCHANGED <<cluster, ovpc, ovReady, ovWant>>

\* apply, verb remove: out of the set, stopped, released.
DgRemove(l) ==
  /\ member[l] = "member"
  /\ \/ /\ StopMember(l)
        /\ held' = held \ {l} /\ spent' = spent
     \/ /\ member' = [member EXCEPT ![l] = "started"]     \* the stop failed
        /\ held' = held /\ Spend("error")
  /\ UNCHANGED <<cluster, home, ovVars, seen>>

\* A restart forgets the leases and the last answer.
DgRestart ==
  /\ Spend("restart")
  /\ held' = {} /\ seen' = [l \in Leases |-> {}]
  /\ UNCHANGED <<cluster, members, ovVars>>

-----------------------------------------------------------------------------
(* Swarm's scheduler and the machines.                                     *)

Join(m) ==
  /\ machine[m] = "booting"
  /\ machine' = [machine EXCEPT ![m] = "ready"]
  /\ UNCHANGED <<tag, dedicated, paused, stamped, app, members, ovVars, dgVars, spent>>

\* Every application service carries node.labels.dedicated != true.
AppStarts(m) ==
  /\ m \in In({"ready"}) \ (paused \cup dedicated \cup app)
  /\ app' = app \cup {m}
  /\ UNCHANGED <<machine, tag, dedicated, paused, stamped, members, ovVars, dgVars,
                 spent>>

\* A machine dies for good, or goes down and may come back.
Goes(m, state) ==
  /\ machine[m] = "ready"
  /\ machine' = [machine EXCEPT ![m] = state]
  /\ app' = app \ {m}
  /\ UNCHANGED <<tag, dedicated, paused, stamped, members, ovVars, dgVars>>

Dies(m)  == Spend("loss") /\ Goes(m, "lost")
Flaps(m) == Spend("flap") /\ Goes(m, "down")

Recovers(m) ==
  /\ machine[m] = "down"
  /\ machine' = [machine EXCEPT ![m] = "ready"]
  /\ UNCHANGED <<tag, dedicated, paused, stamped, app, members, ovVars, dgVars, spent>>

Fault ==
  \/ OvSkips \/ OvRestart \/ LeasesExpire \/ DgRestart
  \/ \E m \in Machines : Dies(m) \/ Flaps(m) \/ Recovers(m)

Next ==
  \/ OverseerStep \/ DgSync \/ Fault
  \/ \E l \in Leases : DgProvision(l) \/ DgRemove(l)
  \/ \E m \in Machines : Join(m) \/ AppStarts(m)

Spec == Init /\ [][Next]_vars

(* Both processes loop every minute for ever, and machines boot.  What     *)
(* dataguard decides about members is not fair.                            *)
Fairness ==
  /\ WF_vars(OverseerStep)
  /\ WF_vars(DgSync)
  /\ \A m \in Machines : WF_vars(Join(m))

FairSpec == Spec /\ Fairness

-----------------------------------------------------------------------------
(* Properties.                                                             *)

\* No application task is ever placed on a machine bought for a database, in the
\* seconds between its join and its label or at any other time.  (create_worker's
\* join availability, adopt_leases, the renderer's constraint.)
AppsKeepOff == app \cap Leased = {}

\* However restarts, expiries and slow boots fall, a lease never has two machines:
\* neither two servers on the bill nor two nodes that answer to its name.
\* (reconcile_leases.)
OnePerLease ==
  \A m, n \in Leased :
    /\ tag[m] = tag[n] /\ m # n
    => /\ ~(m \in Servers /\ n \in Servers)
       /\ ~(m \in Marked(tag[m]) /\ n \in Marked(tag[m]))

\* A lease is a promise not to delete: the overseer never takes the machine a
\* member was started on, whatever became of the lease since.  (is_dedicated,
\* shrink, reap_orphans.)
MemberKept ==
  [][\A l \in Leases : \A m \in home[l] :
       m \in Nodes \cap Servers => machine'[m] # "absent"]_vars

\* No machine stays down for ever with its server up, and no dead node stays in the
\* swarm unstamped, where reap_orphans may not touch it.
NobodyStaysDown == \A m \in Machines : []<>(machine[m] # "down")
NoGhosts        == \A m \in Machines : []<>~(machine[m] = "lost" /\ m \notin stamped)

\* The lease has a machine a member can be started on.
Served(l) == \E m \in Marked(l) : machine[m] = "ready" /\ m \notin paused

\* As long as dataguard holds a lease, it ends up with a machine that is labelled,
\* ready and schedulable, and keeps it.  (level-triggered posts, reconcile_leases,
\* adopt_leases, the reaping of dead nodes.)
LeaseServed ==
  NobodyStaysDown /\ NoGhosts =>
    \A l \in Leases : <>[](l \in held) => <>[]Served(l)
=============================================================================
