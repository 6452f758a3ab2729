---------------------------- MODULE Attribution ----------------------------
(***************************************************************************)
(* Who hears of a slow application: the overseer's verdict on what it      *)
(* waits for, the alert or the dispatch that follows, and the clocks by    *)
(* which dataguard takes a database to be under lasting pressure.          *)
(*                                                                         *)
(* Time goes in rounds of one loop of each process, in either order.  The  *)
(* windows of the readings are in module Scaling; here an application      *)
(* waits for something or it does not.  What dataguard then does is module *)
(* ReplicaSet.                                                             *)
(***************************************************************************)
EXTENDS Integers, FiniteSets

CONSTANTS Apps,
          Dbs,          \* the components dataguard manages
          Label,        \* what each application's timer calls each of them
          Muted,        \* per application, the causes and targets it is muted for
          Ttl,          \* SIGNAL_TTL_SECONDS
          Fresh,        \* TTL_SECONDS of the discovery
          Sustain, Long, \* PRESSURE_SUSTAIN_SECONDS, and QUIET_SUSTAIN_MULTIPLE of it
          \* Bounds: changes of what is waited for and of a node's usage; loops of the
          \* overseer that end early; failed lookups, deliveries and readings; restarts
          \* of either process; and of all these together.
          MaxChanges, MaxHolds, MaxErrors, MaxRestarts, MaxEvents

ASSUME AttributionConstants ==
  /\ Apps \cap Dbs = {} /\ DOMAIN Muted = Apps /\ DOMAIN Label = Apps
  /\ \A a \in Apps : DOMAIN Label[a] = Dbs
  /\ {Ttl, Fresh, Sustain, Long, MaxChanges, MaxHolds, MaxErrors, MaxRestarts,
      MaxEvents} \subseteq Nat

VARIABLES
  waits,     \* what makes each slow: a database, "vendor", "unseen", "busy"; "fine"
  tight,     \* databases whose node is at 80 % of something
  installed, \* dataguard's service, with its claim, is in the swarm
  \* The overseer.
  timers,    \* what discovery has cached, and for how many rounds
  decided,   \* this loop's verdicts, until they are dispatched
  alert,     \* per application: slow, and nothing owns the cause
  \* Dataguard.
  heard,     \* per application: the last database blamed, and how many rounds ago
  since,     \* per database and kind: rounds since the condition was first read, and one
  looped,    \* who has been through its loop in this round
  spent,
  \* History of the behaviour, read by properties alone:
  ago,       \* per database: rounds since an application was judged to wait for it
  unread     \* per database: loops of dataguard, since it last read its pressure
vars == <<waits, tight, installed, timers, decided, alert, heard, since, looped,
          spent, ago, unread>>

Culprits == Dbs \cup {"vendor", "unseen"}
Kinds    == {"capacity", "latency", "quiet"}
Labels   == UNION {{Label[a][d] : d \in Dbs} : a \in Apps}
Window(k) == IF k = "quiet" THEN Long ELSE Sustain
Verdicts == [cause : {"local", "unknown"}, target : {"none"}]
              \cup [cause : {"upstream"}, target : {"vendor"}]
              \cup [cause : {"database"}, target : Labels]
Silence  == [target |-> "none", age |-> Ttl + 1]
Stale    == [age |-> Fresh, latency |-> FALSE, outbound |-> FALSE]
NoClocks == [d \in Dbs |-> [k \in Kinds |-> 0]]
LongAgo  == Ttl + MaxErrors + 2

Events == {"change", "hold", "error", "restart"}
Bound  == [change |-> MaxChanges, hold |-> MaxHolds, error |-> MaxErrors,
           restart |-> MaxRestarts]
Spend(e) ==
  /\ spent[e] < Bound[e]
  /\ spent["change"] + spent["hold"] + spent["error"] + spent["restart"] < MaxEvents
  /\ spent' = [spent EXCEPT ![e] = @ + 1]

Init ==
  /\ waits \in [Apps -> {"fine"} \cup Dbs] /\ tight = {} /\ installed = TRUE
  /\ timers = Stale /\ decided = << >> /\ alert = [a \in Apps |-> FALSE]
  /\ heard = [a \in Apps |-> Silence] /\ since = NoClocks
  /\ looped = {} /\ spent = [e \in Events |-> 0] /\ ago = [d \in Dbs |-> LongAgo]
  /\ unread = [d \in Dbs |-> 0]

-----------------------------------------------------------------------------
(* The overseer.                                                           *)

\* measure and decide: slow while its replicas are idle, from the timers t that discovery
\* knows.  Without a timer of its own a service is not seen to be slow.
Slow(a, t) == t.latency /\ waits[a] \notin {"fine", "busy"}

\* discover_dependencies: whether there is a timer for what a waits for, of those known.
Timed(a, t) == t.outbound /\ waits[a] # "unseen"

\* dependency_readings: what the timer of something outside is called: by its host, or
\* by whatever else its library says of it.
Timer(a, w) == IF w = "vendor" THEN [cause |-> "upstream", target |-> "vendor"]
               ELSE [cause |-> "database", target |-> Label[a][w]]

\* attribute: busy replicas are the cause; else a timer names it; else it is unknown.
Verdict(a, t) ==
  IF ~Slow(a, t) THEN [cause |-> "local", target |-> "none"]
  ELSE IF Timed(a, t) THEN Timer(a, waits[a])
  ELSE [cause |-> "unknown", target |-> "none"]

\* Mutant of Claims: whoever claims one cause is taken to own them all.
ClaimsAny == {"local", "database", "upstream", "unknown"}

\* claimed_causes: the autoscaler's claim and dataguard's.
Claims == {"local"} \cup (IF installed THEN {"database"} ELSE {})

\* classify.verdict: neither muted nor claimed.
Unowned(a, v) == /\ v.cause \notin Claims \cup Muted[a]
                 /\ v.target \notin Muted[a]

\* publish and quiet: the gauge the alert is raised from.
Publish(verdicts) == alert' = [a \in Apps |-> Unowned(a, verdicts[a])]

\* A failed lookup finds nothing, and is cached like any other.
Discovered ==
  IF timers.age < Fresh THEN {timers}
  ELSE {[age |-> 0, latency |-> l, outbound |-> o] : l, o \in BOOLEAN}
Failed(t) == timers.age >= Fresh /\ ~(t.latency /\ t.outbound)

OvJudges ==
  /\ "overseer" \notin looped /\ decided = << >>
  /\ \E t \in Discovered :
       /\ IF Failed(t) THEN Spend("error") ELSE UNCHANGED spent
       /\ timers' = t
       /\ decided' = [a \in Apps |-> Verdict(a, t)]
  /\ Publish(decided')
  /\ ago' = [d \in Dbs |-> IF \E a \in Apps : decided'[a].target = Label[a][d]
                             THEN 0 ELSE ago[d]]
  /\ UNCHANGED <<waits, tight, installed, heard, since, looped, unread>>

\* Mutant of Targets: a verdict is believed for as long as no other replaces it.
TargetsEver == {heard[a].target : a \in Apps}

\* dispatched_targets.
Targets == {heard[a].target : a \in {b \in Apps : heard[b].age <= Ttl}}

\* record_dispatch: the last verdict of each application it was sent.
RecordDispatch(blamed) ==
  heard' = [a \in Apps |-> IF a \in blamed THEN [target |-> decided[a].target, age |-> 0]
                           ELSE heard[a]]

\* deliver: one attempt, and the next loop's is of a newer world.
Deliver(blamed) == \/ RecordDispatch(blamed) /\ UNCHANGED spent
                   \/ Spend("error") /\ UNCHANGED heard

\* dispatch: to whoever claims the cause at that time, and nothing to a manager that
\* claims none of them.
OvDispatches ==
  /\ decided # << >> /\ decided' = << >> /\ looped' = looped \cup {"overseer"}
  /\ LET blamed == {a \in Apps : decided[a].cause = "database"}
     IN IF installed /\ blamed # {} THEN Deliver(blamed) ELSE UNCHANGED <<heard, spent>>
  /\ UNCHANGED <<waits, tight, installed, timers, alert, since, ago, unread>>

\* The list of services cannot be read, or anything else ends the loop.
OvHolds ==
  /\ "overseer" \notin looped /\ Spend("hold")
  /\ decided' = << >> /\ looped' = looped \cup {"overseer"}
  /\ UNCHANGED <<waits, tight, installed, timers, alert, heard, since, ago, unread>>

OvRestarts ==
  /\ Spend("restart") /\ timers' = Stale /\ decided' = << >>
  /\ alert' = [a \in Apps |-> FALSE]
  /\ UNCHANGED <<waits, tight, installed, heard, since, looped, ago, unread>>

-----------------------------------------------------------------------------
(* Dataguard.                                                              *)

\* _sustained: when it was first read, as long as every reading since has found it.  The
\* clock runs on by itself.
Held(n, present)  == IF ~present THEN 0 ELSE IF n = 0 THEN 1 ELSE n
Lasts(clocks, k)  == clocks[k] > Window(k)

\* read_pressure: the components are looked up by their names.  Quiet is the absence of
\* the sustained, not of the raw.
Read(d) ==
  LET raw == [since[d] EXCEPT !["capacity"] = Held(@, d \in tight),
                              !["latency"]  = Held(@, d \in Targets)]
  IN [raw EXCEPT !["quiet"] =
        Held(@, ~Lasts(raw, "capacity") /\ ~Lasts(raw, "latency"))]

\* A loop reads the pressure of the databases whose certificates and topology it could
\* read, and that it did not just create; of none, where the services cannot be listed or
\* a backup keeps it for a round.
DgLoops ==
  /\ installed /\ "dataguard" \notin looped /\ looped' = looped \cup {"dataguard"}
  /\ \E read \in SUBSET Dbs :
       /\ IF read = Dbs THEN UNCHANGED spent ELSE Spend("error")
       /\ since'  = [d \in Dbs |-> IF d \in read THEN Read(d) ELSE since[d]]
       /\ unread' = [d \in Dbs |-> IF d \in read THEN 0 ELSE unread[d] + 1]
  /\ UNCHANGED <<waits, tight, installed, timers, decided, alert, heard, ago>>

\* The service is removed, redeployed or restarted: all it knew was in memory.
DgRestarts ==
  /\ Spend("restart") /\ installed' \in BOOLEAN /\ (installed \/ installed')
  /\ heard' = [a \in Apps |-> Silence] /\ since' = NoClocks
  /\ UNCHANGED <<waits, tight, timers, decided, alert, looped, ago, unread>>

-----------------------------------------------------------------------------
(* The world.                                                              *)

Older(n, most) == IF n < most THEN n + 1 ELSE n
RoundEnds ==
  /\ "overseer" \in looped /\ (installed => "dataguard" \in looped) /\ looped' = {}
  /\ timers' = [timers EXCEPT !.age = Older(@, Fresh)]
  /\ heard' = [a \in Apps |-> [heard[a] EXCEPT !.age = Older(@, Ttl + 1)]]
  /\ since' = [d \in Dbs |-> [k \in Kinds |->
                 IF since[d][k] = 0 THEN 0 ELSE Older(since[d][k], Window(k) + 1)]]
  /\ ago' = [d \in Dbs |-> Older(ago[d], LongAgo)]
  /\ UNCHANGED <<waits, tight, installed, decided, alert, spent, unread>>

WaitChanges(a) ==
  /\ Spend("change")
  /\ \E w \in (Culprits \cup {"fine", "busy"}) \ {waits[a]} : waits' = [waits EXCEPT ![a] = w]
  /\ UNCHANGED <<tight, installed, timers, decided, alert, heard, since, looped, ago,
                 unread>>

UsageChanges(d) ==
  /\ Spend("change") /\ tight' = (tight \ {d}) \cup ({d} \ tight)
  /\ UNCHANGED <<waits, installed, timers, decided, alert, heard, since, looped, ago,
                 unread>>

Loops == OvJudges \/ OvDispatches \/ DgLoops \/ RoundEnds
Next  == Loops \/ OvHolds \/ OvRestarts \/ DgRestarts
           \/ (\E a \in Apps : WaitChanges(a)) \/ (\E d \in Dbs : UsageChanges(d))

Spec == Init /\ [][Next]_vars

\* Both loops run for ever.
FairSpec == Spec /\ WF_vars(Loops)

TypeOK ==
  /\ waits \in [Apps -> Culprits \cup {"fine", "busy"}] /\ tight \subseteq Dbs
  /\ installed \in BOOLEAN /\ alert \in [Apps -> BOOLEAN]
  /\ timers \in [age : 0..Fresh, latency : BOOLEAN, outbound : BOOLEAN]
  /\ heard \in [Apps -> [target : {"none"} \cup Labels, age : 0..(Ttl + 1)]]
  /\ since \in [Dbs -> [Kinds -> Nat]]
  /\ \A d \in Dbs : \A k \in Kinds : since[d][k] <= Window(k) + 1
  /\ looped \subseteq {"overseer", "dataguard"} /\ spent \in [Events -> Nat]
  /\ decided = << >> \/ decided \in [Apps -> Verdicts]
  /\ ago \in [Dbs -> 0..LongAgo] /\ unread \in [Dbs -> Nat]

-----------------------------------------------------------------------------
\* A database is taken to be waited for only as long as some application was judged to
\* wait for it within a verdict's life of its last reading: nothing tells dataguard that
\* it no longer does, and a reading may fail.  (dispatch routes by cause;
\* dispatched_targets, loop.)
ForgetsInTime ==
  \A d \in Dbs : since[d]["latency"] > 0 => ago[d] <= Ttl + 1 + unread[d]

\* An application that stays slow is heard of for as long as it is: it has an alert,
\* unless it is muted, or the database it waits for is under lasting pressure at
\* dataguard, where the claim silenced the alert.  (classify.verdict: "silent HERE; that
\* manager reports".)  Of a database, if the timer calls it by its component's name.
Muting(a, v)    == {v.cause, v.target} \cap Muted[a] # {}
HeardOf(a, d)   == \/ alert[a] \/ Muting(a, Timer(a, d))
                   \/ installed /\ Lasts(since[d], "latency")
SlownessHeard ==
  \A a \in Apps :
    /\ \A d \in Dbs : Label[a][d] = d => (<>[](waits[a] = d) => <>[]HeardOf(a, d))
    /\ <>[](waits[a] = "vendor") => <>[](alert[a] \/ Muting(a, Timer(a, "vendor")))
    /\ <>[](waits[a] = "unseen") => <>[](alert[a] \/ "unknown" \in Muted[a])

\* The same of every database, whatever its timer says: the target is the component that
\* is busy.  (dispatched_targets: "already the right key".)  A timer that names the host
\* names what dataguard never looks up, and the claim has silenced the alert.
BlameArrives ==
  \A a \in Apps : \A d \in Dbs : <>[](waits[a] = d) => <>[]HeardOf(a, d)
=============================================================================
