----------------------------- MODULE ReplicaSet -----------------------------
(***************************************************************************)
(* The shape of one replica set, as dataguard changes it: from one member  *)
(* on the master, to a pair, to a set on machines of its own, and back.    *)
(*                                                                         *)
(* A pass of the loop reads the topology, takes the backup that is due     *)
(* (which may take half an hour), asks plan.refusals and plan.next_action, *)
(* and applies one verb to a set that may have changed since.  Nothing is  *)
(* remembered but the leases and the token of the initial sync.            *)
(*                                                                         *)
(* Slot 1 is the member on the master.  The other components are one       *)
(* process that takes and returns the token.  A database that has no       *)
(* primary cannot be read: the pass then does nothing but create a set     *)
(* that was never created.                                                 *)
(*                                                                         *)
(* Abstracted: certificates and backups (module Upkeep); how a machine is  *)
(* bought for a lease (module NodeLeases); pressure is what read_pressure  *)
(* makes of it; component.enabled holds and dry_run does not; Redis, whose *)
(* members always vote and are never hidden.                               *)
(***************************************************************************)
EXTENDS Integers, FiniteSetsExt

CONSTANTS
  Pool,            \* how many member slots the renderer emits: never fewer than the
                   \* three the ladder asks for
  Top,             \* the rungs of the plan ladder a database may use
  SecondaryReads,  \* the component's switch
  Moods,           \* the sustained pressures that occur
  MaxMoods,        \* bound: changes of pressure
  MaxFails,        \* bound: members that stop answering
  MaxLags,         \* bound: members that fall behind
  MaxErrors,       \* bound: calls that are refused, backups that fail
  MaxRestarts,     \* bound: restarts of dataguard
  MaxOthers,       \* bound: initial syncs of other components
  MaxEvents        \* bound: all of these together, but for the changes of pressure

ASSUME ReplicaConstants ==
  /\ Pool \in Nat /\ Pool >= 3 /\ Top \in Nat /\ Top >= 1
  /\ SecondaryReads \in BOOLEAN
  /\ Moods \subseteq {"none", "quiet", "capacity", "read", "write", "slow"}
  /\ {MaxMoods, MaxFails, MaxLags, MaxErrors, MaxRestarts, MaxOthers,
      MaxEvents} \subseteq Nat

Slots      == 1..Pool
MaxMembers == Pool - 1     \* dataguard.max_members
Nobody     == 0

VARIABLES
  \* The set, as mongod holds it.
  inset,      \* slots in the configuration
  votes,      \* those that vote
  hidden,     \* those out of read rotation
  prio,       \* per slot: 0 cannot be elected, 2 takes over
  primary,    \* a slot, or Nobody
  resting,    \* the slot that stepped down and may not stand yet, or Nobody
  \* The members and the machines under them.
  run,        \* member services scaled to one
  down,       \* members that do not answer
  data,       \* slots whose volume holds a finished copy
  lag,        \* slots further behind than the lag budget
  size,       \* per slot: the rung of its leased machine, 0 for none
  \* Dataguard.
  dgpc,       \* "read" or "act"
  seen,       \* the topology of this pass
  held,       \* leases it holds
  bigger,     \* leases asked for as a bigger machine
  token,      \* the component allowed an initial sync: "none", "this" or "other"
  \* Around it.
  other,      \* the initial sync of another component: "no", "sync" or "caught"
  mood,       \* the sustained pressure
  shaken,     \* history: a member stopped answering since the topology was read
  spent       \* how many of each bounded event have happened

config  == <<inset, votes, hidden, prio>>
members == <<run, down, data, lag>>
process == <<dgpc, seen>>
asked   == <<held, bigger>>
outside == <<other, mood, shaken, spent>>
vars == <<config, primary, resting, members, size, process, asked, token, outside>>

Events == {"mood", "fail", "lag", "error", "restart", "other"}
Bound == [e \in Events |->
            CASE e = "mood"    -> MaxMoods
              [] e = "fail"    -> MaxFails
              [] e = "lag"     -> MaxLags
              [] e = "error"   -> MaxErrors
              [] e = "restart" -> MaxRestarts
              [] e = "other"   -> MaxOthers]
Happened == spent["fail"] + spent["lag"] + spent["error"] + spent["restart"] + spent["other"]
Spend(e) == /\ spent[e] < Bound[e]
            /\ e = "mood" \/ Happened < MaxEvents
            /\ spent' = [spent EXCEPT ![e] = @ + 1]

-----------------------------------------------------------------------------
(* The set as it is, and as it is read.                                    *)

Up      == (inset \cap run) \ down
Healthy == Up \cap data
Syncing == Up \ data

\* What mongod needs to elect a primary and to take a configuration.
CanElect(voting, healthy) ==
  2 * Cardinality(voting \cap healthy) > Cardinality(voting)

Unread == [inset |-> {}, votes |-> {}, hidden |-> {}, healthy |-> {},
           syncing |-> {}, lag |-> {}, primary |-> Nobody]

\* Mutant of Topology: a member that does not answer still counts.
TopologyOfConfig == [Unread EXCEPT !.inset = inset, !.votes = votes, !.hidden = hidden,
                                   !.healthy = inset \cap data, !.primary = primary]
Topology == [inset |-> inset, votes |-> votes, hidden |-> hidden,
             healthy |-> Healthy, syncing |-> Syncing,
             lag |-> lag \cap Healthy, primary |-> primary]

TypeOK ==
  /\ inset \subseteq Slots /\ votes \subseteq inset /\ hidden \subseteq inset
  /\ prio \in [Slots -> 0..2]
  /\ primary \in Slots \cup {Nobody} /\ resting \in Slots \cup {Nobody}
  /\ run \subseteq Slots /\ down \subseteq Slots
  /\ data \subseteq Slots /\ lag \subseteq Slots
  /\ size \in [Slots -> 0..Top]
  /\ dgpc \in {"read", "act"}
  /\ seen \in [inset : SUBSET Slots, votes : SUBSET Slots, hidden : SUBSET Slots,
               healthy : SUBSET Slots, syncing : SUBSET Slots,
               lag : SUBSET Slots, primary : Slots \cup {Nobody}]
  /\ held \subseteq Slots /\ bigger \subseteq Slots
  /\ token \in {"none", "this", "other"}
  /\ other \in {"no", "sync", "caught"}
  /\ mood \in Moods
  /\ shaken \in BOOLEAN
  /\ spent \in [Events -> Nat]

\* A component just deployed: the member on the master runs and has no configuration.
Init ==
  /\ inset = {} /\ votes = {} /\ hidden = {} /\ prio = [s \in Slots |-> 0]
  /\ primary = Nobody /\ resting = Nobody
  /\ run = {1} /\ down = {} /\ data = {1} /\ lag = {}
  /\ size = [s \in Slots |-> 0]
  /\ dgpc = "read" /\ seen = Unread
  /\ held = {} /\ bigger = {} /\ token = "none"
  /\ other = "no" /\ mood \in Moods
  /\ shaken = FALSE
  /\ spent = [e \in Events |-> 0]

-----------------------------------------------------------------------------
(* plan.refusals and plan.next_action, over the topology of this pass.     *)

Secondaries == seen.healthy \ {seen.primary}
Voters      == seen.votes
HealthyVoters == seen.votes \cap seen.healthy

HasMajority == 2 * Cardinality(HealthyVoters) > Cardinality(Voters)

State == IF seen.inset \ {1} = {} THEN "master"
         ELSE IF 1 \in seen.inset THEN "paired"
         ELSE "dedicated"

\* The machine that leases have, and whether a bigger one can be had.  The member on
\* the master has no size.
Size(s)   == IF s = 1 THEN 0 ELSE size[s]
AtMaxPlan == \E s \in Slots : size[s] = Top

\* The lowest slot not in the set; never the one on the master.
FreeIndex == {i \in 2..Pool : /\ i \notin seen.inset
                              /\ \A j \in 2..(i - 1) : j \in seen.inset}

Verb(v, S) == [verb : {v}, slot : S]
Hold       == Verb("hold", {Nobody})
Ceiling    == Verb("at_ceiling", {Nobody})

\* One member more, under both ceilings.
OneMore(v) ==
  IF Cardinality(Voters) + 1 > MaxMembers \/ FreeIndex = {} THEN Ceiling
  ELSE Verb(v, FreeIndex)

Enfranchisable == (Secondaries \ Voters) \ seen.lag
OutOfRotation  ==
  IF SecondaryReads THEN Verb("hide", (Secondaries \cap seen.lag) \ seen.hidden)
                           \cup Verb("unhide", (Secondaries \cap seen.hidden) \ seen.lag)
  ELSE {}

\* An upgrade half done: a caught-up member on a bigger machine takes over, and then
\* the smallest machine goes.
OnPrimary == IF State = "dedicated" THEN Size(seen.primary) ELSE 0
Successors ==
  LET ready == {m \in (Secondaries \cap Voters) \ (seen.hidden \cup seen.lag) :
                  Size(m) > OnPrimary}
  IN {m \in ready : OnPrimary > 0 /\ \A n \in ready : Size(n) <= Size(m)}
Outgrown ==
  LET spare == {m \in Voters \ {seen.primary} : 0 < Size(m) /\ Size(m) < OnPrimary}
  IN {m \in spare : /\ Cardinality(HealthyVoters) - 1 >= 3
                    /\ \A n \in spare : Size(m) <= Size(n)}

\* Mutant of GrowFromPaired: the ceiling is looked at before the master's member.
GrowFromPairedCapped ==
  IF Cardinality(seen.inset) < 3 THEN Verb("provision", {3})
  ELSE IF OneMore("provision") = Ceiling THEN Ceiling
  ELSE IF Cardinality(HealthyVoters \ {1}) >= 3 THEN Verb("remove", {1})
  ELSE OneMore("provision")

\* A set of two asks for slot 3, whichever slot the second member has.
GrowFromPaired ==
  IF Cardinality(seen.inset) < 3 THEN Verb("provision", {3})
  ELSE IF Cardinality(HealthyVoters \ {1}) >= 3 THEN Verb("remove", {1})
  ELSE OneMore("provision")

GrowDedicated ==
  CASE mood \in {"write", "capacity"} ->
         IF AtMaxPlan THEN Ceiling ELSE OneMore("provision_bigger")
    [] mood = "read" ->
         IF ~SecondaryReads THEN Verb("cannot_help", {Nobody})
         ELSE IF Cardinality(seen.inset) >= MaxMembers THEN Ceiling
         ELSE OneMore("provision")
    [] OTHER -> Hold

Grow == CASE State = "master"    -> Verb("provision", {2})
          [] State = "paired"    -> GrowFromPaired
          [] State = "dedicated" -> GrowDedicated

\* Never the primary, never the last healthy secondary, the laggiest first.
Victims ==
  LET candidates == Secondaries \ {1}
      behind == candidates \cap seen.lag
  IN IF Cardinality(seen.healthy) - 1 < 2 THEN {}
     ELSE IF behind # {} THEN behind ELSE candidates

\* Mutant of Shrink: a pair is left to itself when it has more than two members.
ShrinkByLadder ==
  LET others == seen.inset \ {1} IN
  IF State = "dedicated" THEN
       IF Cardinality(Voters) > 3 THEN Verb("remove", Victims) ELSE Verb("provision", {1})
  ELSE IF State = "paired" /\ Cardinality(Voters) = 2 THEN
       IF seen.primary \in others THEN Verb("stepdown", {seen.primary})
       ELSE Verb("remove", others)
  ELSE Hold

Shrink ==
  LET floor == IF State = "dedicated" THEN 3 ELSE 2
      others == seen.inset \ {1}
  IN IF Cardinality(Voters) > floor
       THEN IF Victims = {} THEN Hold ELSE Verb("remove", Victims)
     ELSE IF State = "dedicated" THEN Verb("provision", {1})
     ELSE IF State = "master" THEN Hold
     ELSE IF seen.primary \in others THEN Verb("stepdown", {seen.primary})
     ELSE Verb("remove", others)

\* The next step, or the next steps the order of the members decides between.
NextAction ==
  IF Enfranchisable # {} THEN Verb("enfranchise", Enfranchisable)
  ELSE IF OutOfRotation # {} THEN OutOfRotation
  ELSE IF Successors # {} THEN Verb("promote", Successors)
  ELSE IF Outgrown # {} THEN Verb("remove", Outgrown)
  ELSE IF mood \in {"capacity", "read", "write", "slow"} THEN Grow
  ELSE IF mood = "quiet" THEN Shrink
  ELSE Hold

\* A component is built anew each loop, so its last_change_at is 0 whatever was
\* changed: the cooldown refuses nothing.
CoolingDown == FALSE

\* Mutant of Refusals: the token is not looked at.
RefusalsOfOwnSet ==
  {r \in {"no_primary", "no_majority", "member_syncing"} :
     CASE r = "no_primary"     -> seen.primary = Nobody
       [] r = "no_majority"    -> ~HasMajority
       [] r = "member_syncing" -> seen.syncing # {}}

Refusals ==
  {r \in {"no_primary", "no_majority", "member_syncing", "another_sync_in_flight",
          "cooldown"} :
     CASE r = "no_primary"             -> seen.primary = Nobody
       [] r = "no_majority"            -> ~HasMajority
       [] r = "member_syncing"         -> seen.syncing # {}
       [] r = "another_sync_in_flight" -> token = "other"
       [] r = "cooldown"               -> CoolingDown}

WouldBreakMajority(s) ==
  /\ s \in seen.inset
  /\ 2 * Cardinality(HealthyVoters \ {s}) <= Cardinality(Voters \ {s})

-----------------------------------------------------------------------------
(* mongod: elections, and what a reconfiguration may do.                   *)

\* The primary after a change of the configuration or of who answers.
Still(voting, healthy) ==
  IF primary \in healthy /\ CanElect(voting, healthy) THEN primary ELSE Nobody

Electable(s) ==
  /\ s \in votes \cap Healthy /\ prio[s] > 0 /\ s # resting
  /\ s \notin lag \/ votes \cap Healthy \subseteq lag

Elect(s) ==
  /\ primary = Nobody /\ Electable(s) /\ CanElect(votes, Healthy)
  /\ primary' = s /\ lag' = lag \ {s}
  /\ UNCHANGED <<config, resting, run, down, data, size, process, asked, token,
                 outside>>

\* A caught-up member of higher priority calls an election itself.
TakeOver(s) ==
  /\ primary # Nobody /\ Electable(s) /\ s \notin lag /\ prio[s] > prio[primary]
  /\ primary' = s
  /\ UNCHANGED <<config, resting, members, size, process, asked, token, outside>>

\* Sixty seconds after a stepdown; an election takes ten.
Rested ==
  /\ resting # Nobody /\ resting' = Nobody
  /\ primary # Nobody \/ \A s \in Slots : ~Electable(s)
  /\ UNCHANGED <<config, primary, members, size, process, asked, token, outside>>

\* The initial sync of a member ends.
Synced(s) ==
  /\ s \in Syncing /\ primary # Nobody
  /\ data' = data \cup {s}
  /\ UNCHANGED <<config, primary, resting, run, down, lag, size, process, asked,
                 token, outside>>

\* It copies what it missed from the primary, or from a member ahead of it.
CatchesUp(s) ==
  /\ s \in lag \cap Healthy
  /\ primary # Nobody \/ Healthy \ lag # {}
  /\ lag' = lag \ {s}
  /\ UNCHANGED <<config, primary, resting, run, down, data, size, process, asked,
                 token, outside>>

FallsBehind(s) ==
  /\ s \in Healthy \ (lag \cup {primary})
  /\ Spend("lag") /\ lag' = lag \cup {s}
  /\ UNCHANGED <<config, primary, resting, run, down, data, size, process, asked,
                 token, other, mood, shaken>>

Fails(s) ==
  /\ s \in Up
  /\ Spend("fail") /\ down' = down \cup {s}
  /\ primary' = Still(votes, Healthy \ {s})
  /\ shaken' = (dgpc = "act")
  /\ UNCHANGED <<config, resting, run, data, lag, size, process, asked, token, other,
                 mood>>

Recovers(s) ==
  /\ s \in down /\ down' = down \ {s} /\ lag' = lag \cup ({s} \cap data)
  /\ UNCHANGED <<config, primary, resting, run, data, size, process, asked, token,
                 outside>>

\* The overseer: a machine for a held lease, the next rung of what the component has
\* if a bigger one was asked for; a machine nobody holds may go once it is empty.
HeldPlan == Max({1} \cup {size[s] : s \in Slots})
MachineJoins(s) ==
  /\ s \in held /\ size[s] = 0
  /\ size' = [size EXCEPT ![s] = IF s \in bigger
                                   THEN IF HeldPlan < Top THEN HeldPlan + 1 ELSE Top
                                   ELSE 1]
  /\ UNCHANGED <<config, primary, resting, members, process, asked, token, outside>>

MachineGoes(s) ==
  /\ size[s] > 0 /\ s \notin held \cup run
  /\ size' = [size EXCEPT ![s] = 0] /\ data' = data \ {s} /\ lag' = lag \ {s}
  /\ UNCHANGED <<config, primary, resting, run, down, process, asked, token, outside>>

-----------------------------------------------------------------------------
(* A pass of dataguard's loop.                                             *)

\* engine.initiate: a set that was never created gets one member.
DgInitiate ==
  /\ dgpc = "read" /\ inset = {} /\ 1 \in run \ down
  /\ inset' = {1} /\ votes' = {1} /\ hidden' = {} /\ prio' = [prio EXCEPT ![1] = 1]
  /\ UNCHANGED <<primary, resting, members, size, process, asked, token, outside>>

\* engine.topology: read through the primary.
DgRead ==
  /\ dgpc = "read" /\ primary # Nobody
  /\ dgpc' = "act" /\ seen' = Topology /\ shaken' = FALSE
  /\ UNCHANGED <<config, primary, resting, members, size, asked, token, other, mood,
                 spent>>

\* A reconfiguration goes through the primary.
CanReconfig == primary # Nobody

\* What is refused: by mongod, or by would_break_majority.
Rejected(a) ==
  \/ a.verb \in {"enfranchise", "hide", "unhide", "promote"} /\ ~CanReconfig
  \/ a.verb = "hide" /\ a.slot = primary
  \/ a.verb = "promote" /\ a.slot \notin votes \ hidden
  \/ /\ a.verb = "remove"
     /\ \/ WouldBreakMajority(a.slot)
        \/ a.slot # seen.primary /\ (~CanReconfig \/ a.slot \notin inset \ {primary})

\* Nothing to do, a gate that holds it, a backup that failed, or a call refused.
DgHolds(a) ==
  /\ \/ /\ \/ a.verb \in {"hold", "at_ceiling", "cannot_help"}
           \/ a.verb \notin {"hide", "unhide"} /\ Refusals # {}
           \/ Rejected(a)
        /\ spent' = spent
     \/ Spend("error")
  /\ UNCHANGED <<config, primary, resting, members, size, asked, token, other, mood,
                 shaken>>

DgEnfranchise(s) ==
  /\ CanReconfig
  /\ votes' = votes \cup {s} /\ prio' = [prio EXCEPT ![s] = 1]
  /\ primary' = Still(votes', Healthy)
  /\ token' = "none"
  /\ UNCHANGED <<inset, hidden, resting, members, size, asked, outside>>

\* Mutant of DgHide: a member out of rotation also loses its vote.
DgHideAndMute(s) ==
  /\ CanReconfig /\ s # primary
  /\ hidden' = hidden \cup {s} /\ votes' = votes \ {s} /\ prio' = [prio EXCEPT ![s] = 0]
  /\ UNCHANGED <<inset, primary, resting, members, size, asked, token, outside>>

\* mongod refuses to hide its primary.
DgHide(s) ==
  /\ CanReconfig /\ s # primary
  /\ hidden' = hidden \cup {s} /\ prio' = [prio EXCEPT ![s] = 0]
  /\ UNCHANGED <<inset, votes, primary, resting, members, size, asked, token, outside>>

\* The priority that hiding took away is not given back.
DgUnhide(s) ==
  /\ CanReconfig /\ hidden' = hidden \ {s}
  /\ UNCHANGED <<inset, votes, prio, primary, resting, members, size, asked, token,
                 outside>>

\* A stepdown waits for a successor that has caught up, or does not happen.
StepDown ==
  IF \E s \in votes \ {primary} : Electable(s) /\ s \notin lag
    THEN primary' = Nobody /\ resting' = primary
    ELSE UNCHANGED <<primary, resting>>

DgStepDown ==
  StepDown /\ UNCHANGED <<config, members, size, asked, token, outside>>

DgPromote(s) ==
  /\ CanReconfig /\ s \in votes \ hidden
  /\ prio' = [m \in Slots |-> IF m = s THEN 2 ELSE IF prio[m] > 0 THEN 1 ELSE 0]
  /\ UNCHANGED <<inset, votes, hidden, primary, resting, members, size, asked, token,
                 outside>>

\* Mutant of VotesWith: the member joins with its vote.
VotesWithIt(s) == votes \cup {s}

\* A member joins without a vote.
VotesWith(s) == votes

\* Hold the lease and wait for its machine; start the member there; take the token;
\* add the member without a vote.  `reached` is the call that failed, if one did.
DgProvision(s, wants) ==
  /\ bigger' = IF wants THEN bigger \cup {s} ELSE bigger \ {s}
  /\ held' = IF s = 1 THEN held ELSE held \cup {s}
  /\ \E reached \in {"start", "add", "end"} :
       LET waits   == s # 1 /\ size[s] = 0
           started == ~waits /\ reached # "start"
           added   == started /\ reached = "end" /\ CanReconfig /\ s \notin inset IN
       /\ IF waits \/ reached = "end" THEN spent' = spent ELSE Spend("error")
       /\ run' = IF started THEN run \cup {s} ELSE run
       /\ token' = IF started THEN "this" ELSE token
       /\ inset' = IF added THEN inset \cup {s} ELSE inset
       /\ votes' = IF added THEN VotesWith(s) ELSE votes
       /\ prio' = IF added THEN [prio EXCEPT ![s] = 0] ELSE prio
       /\ lag' = IF added THEN lag \cup ({s} \cap data) ELSE lag
  /\ UNCHANGED <<hidden, primary, resting, down, data, size, other, mood, shaken>>

\* Mutant of DgRemove: the member is stopped and its lease released first.
DgRemoveStopped(s) ==
  /\ ~WouldBreakMajority(s)
  /\ \/ s = seen.primary /\ StepDown /\ UNCHANGED <<inset, votes, run, held, bigger>>
     \/ /\ s # seen.primary /\ s \in inset
        /\ run' = run \ {s} /\ held' = held \ {s} /\ bigger' = bigger \ {s}
        /\ \/ CanReconfig /\ s # primary /\ inset' = inset \ {s} /\ votes' = votes \ {s}
           \/ ~CanReconfig /\ UNCHANGED <<inset, votes>>
        /\ UNCHANGED <<primary, resting>>
  /\ UNCHANGED <<hidden, prio, down, data, lag, size, token, outside>>

\* Never the primary: it steps down first.  Then out of the set, stopped, its lease
\* released; the stop may fail.
DgRemove(s) ==
  /\ ~WouldBreakMajority(s)
  /\ IF s = seen.primary
       THEN StepDown /\ UNCHANGED <<config, members, asked, spent>>
       ELSE /\ CanReconfig /\ s \in inset \ {primary}
            /\ inset' = inset \ {s} /\ votes' = votes \ {s} /\ hidden' = hidden \ {s}
            /\ prio' = [prio EXCEPT ![s] = 0]
            /\ primary' = Still(votes', Healthy \ {s})
            /\ \/ /\ run' = run \ {s} /\ held' = held \ {s} /\ bigger' = bigger \ {s}
                  /\ spent' = spent
               \/ Spend("error") /\ UNCHANGED <<run, held, bigger>>
            /\ UNCHANGED <<resting, down, data, lag>>
  /\ UNCHANGED <<size, token, other, mood, shaken>>

\* Taking a member out of rotation and putting it back are corrections: no gate holds
\* them.
Apply(a) ==
  \/ a.verb = "hide" /\ DgHide(a.slot)
  \/ a.verb = "unhide" /\ DgUnhide(a.slot)
  \/ /\ Refusals = {}
     /\ \/ a.verb = "enfranchise" /\ DgEnfranchise(a.slot)
        \/ a.verb = "stepdown" /\ DgStepDown
        \/ a.verb = "promote" /\ DgPromote(a.slot)
        \/ a.verb = "provision" /\ DgProvision(a.slot, FALSE)
        \/ a.verb = "provision_bigger" /\ DgProvision(a.slot, TRUE)
        \/ a.verb = "remove" /\ DgRemove(a.slot)

DgActs == /\ dgpc = "act" /\ \E a \in NextAction : DgHolds(a) \/ Apply(a)
          /\ dgpc' = "read" /\ seen' = Unread

DgRestart ==
  /\ Spend("restart") /\ dgpc' = "read" /\ seen' = Unread
  /\ held' = {} /\ bigger' = {} /\ token' = "none"
  /\ UNCHANGED <<config, primary, resting, members, size, other, mood, shaken>>

-----------------------------------------------------------------------------
(* The other components, in the same loop, and what the load does.         *)

OtherProvisions ==
  /\ dgpc = "read" /\ other = "no" /\ token # "this"
  /\ Spend("other") /\ other' = "sync" /\ token' = "other"
  /\ UNCHANGED <<config, primary, resting, members, size, process, asked, mood,
                 shaken>>

OtherSynced ==
  /\ other = "sync" /\ other' = "caught"
  /\ UNCHANGED <<config, primary, resting, members, size, process, asked, token, mood,
                 shaken, spent>>

OtherEnfranchises ==
  /\ dgpc = "read" /\ other = "caught" /\ token # "this"
  /\ other' = "no" /\ token' = "none"
  /\ UNCHANGED <<config, primary, resting, members, size, process, asked, mood,
                 shaken, spent>>

MoodChanges ==
  /\ Spend("mood") /\ mood' \in Moods \ {mood}
  /\ UNCHANGED <<config, primary, resting, members, size, process, asked, token,
                 other, shaken>>

-----------------------------------------------------------------------------
Election(s) == Elect(s) \/ TakeOver(s)
Copying(s)  == Synced(s) \/ CatchesUp(s)

Next ==
  \/ DgInitiate \/ DgRead \/ DgActs \/ DgRestart \/ Rested
  \/ OtherProvisions \/ OtherSynced \/ OtherEnfranchises \/ MoodChanges
  \/ \E s \in Slots : \/ Election(s) \/ Copying(s)
                      \/ FallsBehind(s) \/ Fails(s) \/ Recovers(s)
                      \/ MachineJoins(s) \/ MachineGoes(s)

Spec == Init /\ [][Next]_vars

(* The loop runs for ever; members that answer sync and catch up whenever  *)
(* there is a primary, elections end, machines are bought, and the other   *)
(* components get their turn.                                              *)
Fairness ==
  /\ WF_vars(DgInitiate) /\ WF_vars(DgRead) /\ WF_vars(DgActs)
  /\ WF_vars(Rested) /\ WF_vars(OtherSynced) /\ SF_vars(OtherEnfranchises)
  /\ WF_vars(\E s \in Slots : Election(s)) /\ WF_vars(\E s \in Slots : MachineJoins(s))
  /\ \A s \in Slots : SF_vars(Copying(s))

FairSpec == Spec /\ Fairness

-----------------------------------------------------------------------------
(* Properties.                                                             *)

\* A reconfiguration that dataguard decides on leaves a set that can elect, unless a
\* member stopped answering after the topology was read.  (plan.has_majority,
\* would_break_majority, one member at a time.)
QuorumKept ==
  [][DgActs /\ votes' # votes /\ ~shaken => CanElect(votes', Healthy')]_vars

\* Whoever votes holds a finished copy of the data: an election never hands the
\* primary to an empty member.  (add_member, enfranchise.)
VotersHoldData == votes \subseteq data

\* Every member of the set beyond the master's runs on a machine dataguard holds, and
\* was started before it was added.  (apply: the order of provision and of remove.)
MembersAreHeld ==
  /\ inset \subseteq run
  /\ spent["restart"] = 0 => inset \ {1} \subseteq held

\* One initial sync at a time in the cluster, as long as dataguard is not restarted
\* and no member stops answering in the middle of one.  (_syncing, refusals.)
OneSyncAtATime ==
  spent["restart"] = 0 /\ spent["fail"] = 0 =>
    /\ Cardinality(Syncing) <= 1
    /\ other = "sync" => Syncing = {}

\* No member stops answering or falls behind: such a one is hidden and loses its
\* priority, and showing it again gives it back its vote alone.
AllWell == spent["fail"] + spent["lag"] = 0

\* Under lasting pressure the database ends up on machines of its own, with enough
\* members to lose one, or rests as the pair of slots 1 and 3; whichever calls fail,
\* whoever is restarted or elected, and with copies made elsewhere.
\* (next_action's way up, where each loop derives its step from what it reads.)
Dedicated == 1 \notin inset /\ Cardinality(votes) >= 3
LadderUp  ==
  <>[](mood = "capacity") /\ []AllWell => <>[](Dedicated \/ inset = {1, 3})

\* A member of higher priority takes the primary back.
NoTakeOver == \A s \in Slots : ~TakeOver(s)

\* Once it is quiet for good it comes back to the master alone, from wherever the faults
\* left it, unless the primary is taken back after each stepdown.  (next_action: "one
\* rule, two states"; set_priority of a promotion.)
LadderDown ==
  <>[](mood = "quiet") /\ []AllWell /\ <>[][NoTakeOver]_vars => <>[](inset = {1})

\* Every step is one member added or one member removed, a member votes only after it
\* has been one without, and the last voter stays.  (plan.py, engines.py.)
Steps == INSTANCE Membership WITH Members <- Slots, First <- 1,
                                  learners <- inset \ votes, voters <- votes
ImplementsMembership == Steps!Spec
=============================================================================
