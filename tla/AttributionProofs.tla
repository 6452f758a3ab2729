------------------------- MODULE AttributionProofs -------------------------
(***************************************************************************)
(* Proofs about Attribution: type correctness, and that dataguard takes a  *)
(* database to be waited for no longer than a verdict lives, and the loops *)
(* that have not read it since.                                            *)
(***************************************************************************)
EXTENDS Attribution, TLAPS

LEMMA Parameters ==
  /\ Ttl \in Nat /\ Fresh \in Nat /\ Sustain \in Nat /\ Long \in Nat
  /\ LongAgo \in Nat /\ LongAgo >= Ttl + 2
BY AttributionConstants DEF AttributionConstants, LongAgo

LEMMA SpendType ==
  ASSUME NEW e \in Events, spent \in [Events -> Nat], Spend(e)
  PROVE  spent' \in [Events -> Nat]
BY DEF Spend

LEMMA VerdictType ==
  ASSUME TypeOK, NEW a \in Apps, NEW t \in [age : 0..Fresh, latency : BOOLEAN, outbound : BOOLEAN]
  PROVE  Verdict(a, t) \in Verdicts
<1>1. CASE Slow(a, t) /\ Timed(a, t)
  <2>1. waits[a] \in Dbs \cup {"vendor"}
    BY <1>1 DEF Slow, Timed, TypeOK, Culprits
  <2>2. Timer(a, waits[a]) \in Verdicts
    BY <2>1 DEF Timer, Verdicts, Labels
  <2>3. QED
    BY <1>1, <2>2 DEF Verdict
<1>2. CASE ~(Slow(a, t) /\ Timed(a, t))
  BY <1>2 DEF Verdict, Verdicts
<1>3. QED
  BY <1>1, <1>2

\* A clock is kept, starts, or starts again.
LEMMA HeldType ==
  ASSUME NEW n \in Nat, NEW k \in Kinds, n <= Window(k) + 1, NEW present
  PROVE  Held(n, present) \in Nat /\ Held(n, present) <= Window(k) + 1
<1>1. Window(k) \in Nat
  BY Parameters DEF Window
<1>2. QED
  BY <1>1 DEF Held

\* The clocks of a component, and which of them tell what.
LEMMA ReadType ==
  ASSUME TypeOK, NEW d \in Dbs
  PROVE  /\ Read(d) \in [Kinds -> Nat]
         /\ \A k \in Kinds : Read(d)[k] <= Window(k) + 1
         /\ Read(d)["latency"] > 0 => d \in Targets
<1> DEFINE cap == Held(since[d]["capacity"], d \in tight)
           lat == Held(since[d]["latency"], d \in Targets)
           raw == [since[d] EXCEPT !["capacity"] = cap, !["latency"] = lat]
           qui == Held(raw["quiet"], ~Lasts(raw, "capacity") /\ ~Lasts(raw, "latency"))
<1>1. since[d] \in [Kinds -> Nat] /\ \A k \in Kinds : since[d][k] <= Window(k) + 1
  BY DEF TypeOK
<1>2. Kinds = {"capacity", "latency", "quiet"}
  BY DEF Kinds
<1>3. cap \in Nat /\ cap <= Window("capacity") + 1
  <2>1. /\ since[d]["capacity"] \in Nat /\ since[d]["capacity"] <= Window("capacity") + 1
        /\ "capacity" \in Kinds
    BY <1>1, <1>2
  <2>2. QED
    BY <2>1, HeldType
<1>4. lat \in Nat /\ lat <= Window("latency") + 1
  <2>1. /\ since[d]["latency"] \in Nat /\ since[d]["latency"] <= Window("latency") + 1
        /\ "latency" \in Kinds
    BY <1>1, <1>2
  <2>2. QED
    BY <2>1, HeldType
<1>5. lat > 0 => d \in Targets
  BY DEF Held
<1> HIDE DEF cap, lat
<1>6. raw \in [Kinds -> Nat] /\ raw["quiet"] = since[d]["quiet"] /\ raw["capacity"] = cap
      /\ raw["latency"] = lat
  BY <1>1, <1>2, <1>3, <1>4
<1>7. qui \in Nat /\ qui <= Window("quiet") + 1
  <2>1. raw["quiet"] \in Nat /\ raw["quiet"] <= Window("quiet") + 1 /\ "quiet" \in Kinds
    BY <1>1, <1>2, <1>6
  <2> HIDE DEF raw
  <2>2. QED
    BY <2>1, HeldType
<1>8. Read(d) = [raw EXCEPT !["quiet"] = qui]
  BY DEF Read, cap, lat
<1> HIDE DEF raw, qui
<1>9. /\ Read(d) \in [Kinds -> Nat] /\ Read(d)["quiet"] = qui
      /\ Read(d)["capacity"] = cap /\ Read(d)["latency"] = lat
  BY <1>2, <1>6, <1>7, <1>8
<1>10. QED
  BY <1>2, <1>3, <1>4, <1>5, <1>7, <1>9

LEMMA TypeInit == Init => TypeOK
<1> SUFFICES ASSUME Init PROVE TypeOK
  OBVIOUS
<1> USE Parameters DEF Init
<1>1. Ttl + 1 \in 0..(Ttl + 1) /\ LongAgo \in 0..LongAgo /\ Fresh \in 0..Fresh
  OBVIOUS
<1>2. waits \in [Apps -> Culprits \cup {"fine", "busy"}]
  BY DEF Culprits
<1>3. timers \in [age : 0..Fresh, latency : BOOLEAN, outbound : BOOLEAN]
  BY <1>1 DEF Stale
<1>4. Silence \in [target : {"none"} \cup Labels, age : 0..(Ttl + 1)]
  BY <1>1 DEF Silence
<1>5. since \in [Dbs -> [Kinds -> Nat]] /\ \A d \in Dbs, k \in Kinds : since[d][k] = 0
  BY DEF NoClocks
<1>6. \A k \in Kinds : Window(k) \in Nat
  BY DEF Window
<1>7. QED
  BY <1>1, <1>2, <1>3, <1>4, <1>5, <1>6 DEF TypeOK

LEMMA TypeStep == TypeOK /\ [Next]_vars => TypeOK'
<1> SUFFICES ASSUME TypeOK, [Next]_vars PROVE TypeOK'
  OBVIOUS
<1> DEFINE Timers == [age : 0..Fresh, latency : BOOLEAN, outbound : BOOLEAN]
           Beliefs == [target : {"none"} \cup Labels, age : 0..(Ttl + 1)]
<1> USE Parameters
<1>1. CASE UNCHANGED vars
  BY <1>1 DEF vars, TypeOK
<1>2. CASE OvJudges
  <2>1. PICK t \in Discovered :
          /\ IF Failed(t) THEN Spend("error") ELSE UNCHANGED spent
          /\ timers' = t /\ decided' = [a \in Apps |-> Verdict(a, t)]
    BY <1>2 DEF OvJudges
  <2>2. t \in Timers
    BY DEF Discovered, TypeOK
  <2>3. decided' \in [Apps -> Verdicts]
    BY <2>1, <2>2, VerdictType
  <2>4. spent' \in [Events -> Nat]
    BY <2>1, SpendType DEF TypeOK, Events
  <2>5. ago' \in [Dbs -> 0..LongAgo]
    BY <1>2 DEF OvJudges, TypeOK
  <2>6. alert' \in [Apps -> BOOLEAN]
    BY <1>2 DEF OvJudges, Publish, Unowned
  <2>7. QED
    BY <1>2, <2>1, <2>2, <2>3, <2>4, <2>5, <2>6 DEF OvJudges, TypeOK
<1>3. CASE OvDispatches
  <2>1. spent' \in [Events -> Nat]
    BY <1>3, SpendType DEF OvDispatches, Deliver, TypeOK, Events
  <2>2. heard' \in [Apps -> Beliefs]
    <3>1. ASSUME NEW a \in Apps, decided[a].cause = "database"
          PROVE  [target |-> decided[a].target, age |-> 0] \in Beliefs
      <4>1. decided[a] \in Verdicts
        BY <1>3 DEF OvDispatches, TypeOK
      <4>2. QED
        BY <3>1, <4>1 DEF Verdicts
    <3>2. \/ heard' = heard
          \/ heard' = [a \in Apps |-> IF decided[a].cause = "database"
                                      THEN [target |-> decided[a].target, age |-> 0]
                                      ELSE heard[a]]
      BY <1>3 DEF OvDispatches, Deliver, RecordDispatch
    <3>3. heard \in [Apps -> Beliefs]
      BY DEF TypeOK
    <3>4. QED
      BY <3>1, <3>2, <3>3
  <2>3. QED
    BY <1>3, <2>1, <2>2 DEF OvDispatches, TypeOK
<1>4. CASE OvHolds
  <2>1. spent' \in [Events -> Nat]
    BY <1>4, SpendType DEF OvHolds, TypeOK, Events
  <2>2. QED
    BY <1>4, <2>1 DEF OvHolds, TypeOK
<1>5. CASE OvRestarts
  <2>1. spent' \in [Events -> Nat]
    BY <1>5, SpendType DEF OvRestarts, TypeOK, Events
  <2>2. Stale \in Timers
    BY DEF Stale
  <2>3. QED
    BY <1>5, <2>1, <2>2 DEF OvRestarts, TypeOK
<1>6. CASE DgLoops
  <2>1. PICK read \in SUBSET Dbs :
          /\ IF read = Dbs THEN UNCHANGED spent ELSE Spend("error")
          /\ since'  = [d \in Dbs |-> IF d \in read THEN Read(d) ELSE since[d]]
          /\ unread' = [d \in Dbs |-> IF d \in read THEN 0 ELSE unread[d] + 1]
    BY <1>6 DEF DgLoops
  <2>2. since' \in [Dbs -> [Kinds -> Nat]]
        /\ \A d \in Dbs : \A k \in Kinds : since'[d][k] <= Window(k) + 1
    BY <2>1, ReadType DEF TypeOK
  <2>3. spent' \in [Events -> Nat]
    BY <2>1, SpendType DEF TypeOK, Events
  <2>4. unread' \in [Dbs -> Nat]
    BY <2>1 DEF TypeOK
  <2>5. QED
    BY <1>6, <2>2, <2>3, <2>4 DEF DgLoops, TypeOK
<1>7. CASE DgRestarts
  <2>1. spent' \in [Events -> Nat]
    BY <1>7, SpendType DEF DgRestarts, TypeOK, Events
  <2>2. \A k \in Kinds : Window(k) \in Nat
    BY DEF Window
  <2>3. since' \in [Dbs -> [Kinds -> Nat]]
        /\ \A d \in Dbs, k \in Kinds : since'[d][k] <= Window(k) + 1
    BY <1>7, <2>2 DEF DgRestarts, NoClocks
  <2>4. heard' \in [Apps -> Beliefs]
    BY <1>7 DEF DgRestarts, Silence
  <2>5. QED
    BY <1>7, <2>1, <2>3, <2>4 DEF DgRestarts, TypeOK
<1>8. CASE RoundEnds
  <2>1. \A n, most \in Nat : n <= most => Older(n, most) \in 0..most
    BY DEF Older
  <2>2. timers' \in Timers
    <3>1. timers \in Timers
      BY DEF TypeOK
    <3>2. Older(timers.age, Fresh) \in 0..Fresh
      BY <2>1, <3>1
    <3>3. QED
      BY <1>8, <3>1, <3>2 DEF RoundEnds
  <2>3. heard' \in [Apps -> Beliefs]
    <3>1. ASSUME NEW b \in Beliefs PROVE [b EXCEPT !.age = Older(@, Ttl + 1)] \in Beliefs
      <4>1. Older(b.age, Ttl + 1) \in 0..(Ttl + 1)
        BY <2>1, <3>1
      <4>2. QED
        BY <4>1
    <3>2. \A a \in Apps : heard[a] \in Beliefs
      BY DEF TypeOK
    <3>3. heard' = [a \in Apps |-> [heard[a] EXCEPT !.age = Older(@, Ttl + 1)]]
      BY <1>8 DEF RoundEnds
    <3>4. QED
      BY <3>1, <3>2, <3>3
  <2>4. ago' \in [Dbs -> 0..LongAgo]
    BY <1>8, <2>1 DEF RoundEnds, TypeOK
  <2>5. since' \in [Dbs -> [Kinds -> Nat]]
        /\ \A d \in Dbs : \A k \in Kinds : since'[d][k] <= Window(k) + 1
    <3>1. \A k \in Kinds : Window(k) + 1 \in Nat
      BY DEF Window
    <3>2. ASSUME NEW d \in Dbs, NEW k \in Kinds
          PROVE  Older(since[d][k], Window(k) + 1) \in 0..(Window(k) + 1)
      <4> DEFINE n    == since[d][k]
                 most == Window(k) + 1
      <4>1. n \in Nat /\ n <= most /\ most \in Nat
        BY <3>1, <3>2 DEF TypeOK
      <4> HIDE DEF n, most
      <4>2. Older(n, most) \in 0..most
        BY <2>1, <4>1
      <4>3. QED
        BY <4>2 DEF n, most
    <3>3. ASSUME NEW d \in Dbs, NEW k \in Kinds
          PROVE  since'[d][k] \in 0..(Window(k) + 1)
      <4>1. since'[d][k] = IF since[d][k] = 0 THEN 0 ELSE Older(since[d][k], Window(k) + 1)
        BY <1>8 DEF RoundEnds
      <4>2. QED
        BY <3>1, <3>2, <4>1
    <3>4. since' \in [Dbs -> [Kinds -> Nat]]
      <4>1. since' = [d \in Dbs |-> [k \in Kinds |-> since'[d][k]]]
        BY <1>8 DEF RoundEnds
      <4>2. \A d \in Dbs : \A k \in Kinds : since'[d][k] \in Nat
        BY <3>1, <3>3
      <4>3. QED
        BY <4>1, <4>2
    <3>5. QED
      BY <3>1, <3>3, <3>4
  <2>6. QED
    BY <1>8, <2>2, <2>3, <2>4, <2>5 DEF RoundEnds, TypeOK
<1>9. ASSUME NEW a \in Apps, WaitChanges(a) PROVE TypeOK'
  <2>1. spent' \in [Events -> Nat]
    BY <1>9, SpendType DEF WaitChanges, TypeOK, Events
  <2>2. QED
    BY <1>9, <2>1 DEF WaitChanges, TypeOK
<1>10. ASSUME NEW d \in Dbs, UsageChanges(d) PROVE TypeOK'
  <2>1. spent' \in [Events -> Nat]
    BY <1>10, SpendType DEF UsageChanges, TypeOK, Events
  <2>2. QED
    BY <1>10, <2>1 DEF UsageChanges, TypeOK
<1>11. QED
  BY <1>1, <1>2, <1>3, <1>4, <1>5, <1>6, <1>7, <1>8, <1>9, <1>10 DEF Next, Loops

\* Verdicts are verdicts, clocks stop at their windows, and what dataguard heard is of a
\* database.  (attribute, _sustained, record_dispatch.)
THEOREM TypeCorrect == Spec => []TypeOK
BY TypeInit, TypeStep, PTL DEF Spec

-----------------------------------------------------------------------------
(* How long a database is taken to be waited for.                          *)

\* What this loop judged is of this round, and the loop is not over.
Judged ==
  decided # << >> =>
    /\ "overseer" \notin looped
    /\ \A a \in Apps :
         decided[a].cause = "database" =>
           /\ decided[a].target \in {Label[a][d] : d \in Dbs}
           /\ \A d \in Dbs : Label[a][d] = decided[a].target => ago[d] = 0

\* What dataguard still believes of an application is no younger than the judgement.
Recalled ==
  \A a \in Apps :
    heard[a].age <= Ttl =>
      /\ heard[a].target \in {Label[a][d] : d \in Dbs}
      /\ \A d \in Dbs : Label[a][d] = heard[a].target => ago[d] <= heard[a].age

\* A clock that runs was fed at its last reading by a belief that had not expired.
Running ==
  \A d \in Dbs :
    since[d]["latency"] > 0 =>
      /\ installed /\ ago[d] <= Ttl + 1 + unread[d]
      /\ "dataguard" \in looped => ago[d] <= Ttl + unread[d]

\* A timer that bears a component's name is that component's: what dataguard looks up by
\* the name of a component was not judged of another.
OwnLabels == \A a \in Apps : \A d, e \in Dbs : Label[a][e] = d => Label[a][d] = d

LEMMA JudgedStep == TypeOK /\ Judged /\ [Next]_vars => Judged'
<1> SUFFICES ASSUME TypeOK, Judged, [Next]_vars PROVE Judged'
  OBVIOUS
<1> USE DEF Judged
<1>1. CASE OvJudges
  <2>1. PICK t : decided' = [a \in Apps |-> Verdict(a, t)]
    BY <1>1 DEF OvJudges
  <2>2. \A d \in Dbs : (\E a \in Apps : decided'[a].target = Label[a][d]) => ago'[d] = 0
    BY <1>1 DEF OvJudges
  <2>3. "overseer" \notin looped'
    BY <1>1 DEF OvJudges
  <2>4. ASSUME NEW a \in Apps, decided'[a].cause = "database"
        PROVE  decided'[a].target \in {Label[a][d] : d \in Dbs}
    <3>1. decided'[a] = Verdict(a, t)
      BY <2>1
    <3>2. Slow(a, t) /\ Timed(a, t) /\ decided'[a] = Timer(a, waits[a])
      BY <2>4, <3>1 DEF Verdict
    <3>3. waits[a] \in Dbs \cup {"vendor"}
      BY <3>2 DEF Slow, Timed, TypeOK, Culprits
    <3>4. waits[a] # "vendor"
      BY <2>4, <3>2 DEF Timer
    <3>5. decided'[a].target = Label[a][waits[a]]
      BY <3>2, <3>4 DEF Timer
    <3>6. QED
      BY <3>3, <3>4, <3>5
  <2>5. QED
    BY <2>2, <2>3, <2>4
<1>2. CASE OvDispatches \/ OvHolds \/ OvRestarts
  BY <1>2 DEF OvDispatches, OvHolds, OvRestarts
<1>3. CASE DgLoops \/ DgRestarts
  BY <1>3 DEF DgLoops, DgRestarts
<1>4. CASE RoundEnds
  BY <1>4 DEF RoundEnds
<1>5. ASSUME NEW a \in Apps, WaitChanges(a) PROVE Judged'
  BY <1>5 DEF WaitChanges
<1>6. ASSUME NEW d \in Dbs, UsageChanges(d) PROVE Judged'
  BY <1>6 DEF UsageChanges
<1>7. CASE UNCHANGED vars
  BY <1>7 DEF vars
<1>8. QED
  BY <1>1, <1>2, <1>3, <1>4, <1>5, <1>6, <1>7 DEF Next, Loops

LEMMA RecalledStep == TypeOK /\ Judged /\ Recalled /\ [Next]_vars => Recalled'
<1> SUFFICES ASSUME TypeOK, Judged, Recalled, [Next]_vars,
                    NEW a \in Apps, heard'[a].age <= Ttl
             PROVE  /\ heard'[a].target \in {Label[a][d] : d \in Dbs}
                    /\ \A d \in Dbs : Label[a][d] = heard'[a].target => ago'[d] <= heard'[a].age
  BY DEF Recalled
<1> USE Parameters
<1>0. /\ heard[a].age \in 0..(Ttl + 1) /\ \A d \in Dbs : ago[d] \in 0..LongAgo
      /\ heard[a] \in [target : {"none"} \cup Labels, age : 0..(Ttl + 1)]
  BY DEF TypeOK
<1>1. CASE OvJudges
  <2>1. heard' = heard /\ \A d \in Dbs : ago'[d] <= ago[d]
    BY <1>0, <1>1 DEF OvJudges
  <2>2. \A d \in Dbs : ago'[d] \in 0..LongAgo
    BY <1>0, <1>1 DEF OvJudges
  <2>3. QED
    BY <1>0, <2>1, <2>2 DEF Recalled
<1>2. CASE OvDispatches
  <2>1. ago' = ago
    BY <1>2 DEF OvDispatches
  <2>2. CASE heard'[a] = heard[a]
    BY <2>1, <2>2 DEF Recalled
  <2>3. CASE /\ heard'[a] = [target |-> decided[a].target, age |-> 0]
             /\ decided[a].cause = "database"
    <3>1. decided # << >>
      BY <1>2 DEF OvDispatches
    <3>2. decided[a].target \in {Label[a][d] : d \in Dbs}
      BY <2>3, <3>1 DEF Judged
    <3>3. \A d \in Dbs : Label[a][d] = decided[a].target => ago[d] = 0
      BY <2>3, <3>1 DEF Judged
    <3>4. heard'[a].target = decided[a].target /\ heard'[a].age = 0
      BY <2>3
    <3>5. QED
      BY <2>1, <3>2, <3>3, <3>4
  <2>4. QED
    BY <1>2, <2>2, <2>3 DEF OvDispatches, Deliver, RecordDispatch
<1>3. CASE RoundEnds
  <2>1. heard'[a] = [heard[a] EXCEPT !.age = Older(@, Ttl + 1)]
        /\ \A d \in Dbs : ago'[d] = Older(ago[d], LongAgo)
    BY <1>3 DEF RoundEnds
  <2>2. heard'[a].target = heard[a].target /\ heard'[a].age = Older(heard[a].age, Ttl + 1)
    BY <1>0, <2>1
  <2>3. heard[a].age <= Ttl /\ heard'[a].age = heard[a].age + 1
    BY <1>0, <2>2 DEF Older
  <2>4. \A d \in Dbs : ago'[d] <= ago[d] + 1 /\ ago'[d] \in Nat
    BY <1>0, <2>1 DEF Older
  <2>5. QED
    BY <1>0, <2>2, <2>3, <2>4 DEF Recalled
<1>4. CASE DgRestarts
  BY <1>4 DEF DgRestarts, Silence
<1>5. CASE \/ OvHolds \/ OvRestarts \/ DgLoops \/ UNCHANGED vars
           \/ (\E b \in Apps : WaitChanges(b)) \/ \E d \in Dbs : UsageChanges(d)
  <2>1. heard' = heard /\ ago' = ago
    BY <1>5 DEF OvHolds, OvRestarts, DgLoops, vars, WaitChanges, UsageChanges
  <2>2. QED
    BY <2>1 DEF Recalled
<1>6. QED
  BY <1>1, <1>2, <1>3, <1>4, <1>5 DEF Next, Loops

LEMMA RunningStep ==
  ASSUME OwnLabels, TypeOK, Recalled, Running, [Next]_vars
  PROVE  Running'
<1> SUFFICES ASSUME NEW d \in Dbs, since'[d]["latency"] > 0
             PROVE  /\ installed' /\ ago'[d] <= Ttl + 1 + unread'[d]
                    /\ "dataguard" \in looped' => ago'[d] <= Ttl + unread'[d]
  BY DEF Running
<1> USE Parameters
<1>0. ago[d] \in 0..LongAgo /\ unread[d] \in Nat /\ since[d]["latency"] \in Nat
  BY DEF TypeOK, Kinds
<1>1. CASE DgLoops
  <2>1. PICK read \in SUBSET Dbs :
          /\ since'  = [e \in Dbs |-> IF e \in read THEN Read(e) ELSE since[e]]
          /\ unread' = [e \in Dbs |-> IF e \in read THEN 0 ELSE unread[e] + 1]
    BY <1>1 DEF DgLoops
  <2>2. ago' = ago /\ installed' /\ installed
    BY <1>1 DEF DgLoops
  <2>3. CASE d \in read
    <3>1. since'[d] = Read(d) /\ unread'[d] = 0
      BY <2>1, <2>3
    <3>2. d \in Targets
      BY <3>1, ReadType
    <3>3. PICK a \in Apps : heard[a].age <= Ttl /\ heard[a].target = d
      BY <3>2 DEF Targets
    <3>4. PICK e \in Dbs : Label[a][e] = d
      BY <3>3 DEF Recalled
    <3>5. Label[a][d] = d
      BY <3>4 DEF OwnLabels
    <3>6. ago[d] <= heard[a].age /\ heard[a].age \in Nat
      BY <3>3, <3>5 DEF Recalled, TypeOK
    <3>7. QED
      BY <1>0, <2>2, <3>1, <3>3, <3>6
  <2>4. CASE d \notin read
    <3>1. since'[d] = since[d] /\ unread'[d] = unread[d] + 1
      BY <2>1, <2>4
    <3>2. ago[d] <= Ttl + 1 + unread[d]
      BY <3>1 DEF Running
    <3>3. QED
      BY <1>0, <2>2, <3>1, <3>2
  <2>5. QED
    BY <2>3, <2>4
<1>2. CASE DgRestarts
  BY <1>2 DEF DgRestarts, NoClocks, Kinds
<1>3. CASE RoundEnds
  <2>1. installed' = installed /\ looped' = {} /\ unread' = unread
        /\ ago'[d] = Older(ago[d], LongAgo)
    BY <1>3 DEF RoundEnds
  <2>2. since[d]["latency"] > 0
    <3>1. since'[d]["latency"] = IF since[d]["latency"] = 0 THEN 0
                                 ELSE Older(since[d]["latency"], Window("latency") + 1)
      BY <1>3 DEF RoundEnds, Kinds
    <3>2. QED
      BY <1>0, <3>1
  <2>3. installed /\ ago[d] <= Ttl + unread[d]
    BY <1>3, <2>2 DEF RoundEnds, Running
  <2>4. ago'[d] <= Ttl + 1 + unread[d]
    BY <1>0, <2>1, <2>3 DEF Older
  <2>5. QED
    BY <2>1, <2>3, <2>4
<1>4. CASE OvJudges
  <2>1. /\ since' = since /\ installed' = installed /\ looped' = looped /\ unread' = unread
        /\ ago'[d] \in {0, ago[d]}
    BY <1>4 DEF OvJudges
  <2>2. QED
    BY <1>0, <2>1 DEF Running
<1>5. CASE OvDispatches \/ OvHolds
  <2>1. /\ since' = since /\ installed' = installed /\ ago' = ago /\ unread' = unread
        /\ looped' = looped \cup {"overseer"}
    BY <1>5 DEF OvDispatches, OvHolds
  <2>2. QED
    BY <2>1 DEF Running
<1>6. CASE \/ OvRestarts \/ UNCHANGED vars
           \/ (\E b \in Apps : WaitChanges(b)) \/ \E e \in Dbs : UsageChanges(e)
  <2>1. /\ since' = since /\ installed' = installed /\ ago' = ago /\ unread' = unread
        /\ looped' = looped
    BY <1>6 DEF OvRestarts, vars, WaitChanges, UsageChanges
  <2>2. QED
    BY <2>1 DEF Running
<1>7. QED
  BY <1>1, <1>2, <1>3, <1>4, <1>5, <1>6 DEF Next, Loops

\* Nothing tells dataguard that a wait is over: a round after the verdict's life it has
\* forgotten, but for the loops that could not read the database in the meantime.
\* (dispatch, dispatched_targets, loop.)
THEOREM ForgetsItself ==
  ASSUME OwnLabels
  PROVE  Spec => []ForgetsInTime
<1>1. Init => Judged /\ Recalled /\ Running
  BY Parameters DEF Init, Judged, Recalled, Running, Silence, NoClocks, Kinds
<1>2. Running => ForgetsInTime
  BY DEF Running, ForgetsInTime
<1>3. TypeOK /\ Recalled /\ Running /\ [Next]_vars => Running'
  BY RunningStep
<1>4. QED
  BY <1>1, <1>2, <1>3, TypeInit, TypeStep, JudgedStep, RecalledStep, PTL DEF Spec
=============================================================================
