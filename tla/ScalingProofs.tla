--------------------------- MODULE ScalingProofs ---------------------------
(***************************************************************************)
(* Proofs about Scaling: type correctness; that replicas go only after a   *)
(* quiet window; and that they come only for a busy one, if the stabilizer *)
(* forgets before such a window can have passed.                           *)
(***************************************************************************)
EXTENDS Scaling, SequenceTheorems, WellFoundedInduction, TLAPS

\* What the assumptions say of each parameter.
LEMMA Parameters ==
  /\ Loads \subseteq Nat /\ Ceilings \subseteq Nat
  /\ MinLabel \in Int /\ MaxLabel \in Int
  /\ UpLabel \in Int /\ DownLabel \in Int /\ BusyLabel \in Int
  /\ SustainUp \in Nat \ {0} /\ SustainDown \in Nat \ {0}
  /\ Node \in Nat /\ Node >= 8
  /\ StabilizeDown \in Nat /\ Cooldown \in Nat /\ Ttl \in Nat /\ ResizeCooldown \in Nat
  /\ Settled \in Nat
BY ScalingConstants DEF ScalingConstants

\* The policy is in order, whatever the labels say.
LEMMA Policy ==
  /\ MinReplicas \in Nat \ {0} /\ MaxReplicas \in Nat /\ MinReplicas <= MaxReplicas
  /\ UpCpu \in Nat /\ DownCpu \in Nat \ {0} /\ BusyCpu \in Nat
  /\ DownCpu < UpCpu /\ BusyCpu <= UpCpu
<1>1. ASSUME NEW v \in Int, NEW low \in Int, NEW high \in Int, NEW default \in Int
      PROVE  Label(v, low, high, default) \in (low..high) \cup {default}
  BY DEF Label
<1>2. MinReplicas \in Nat \ {0} /\ MaxReplicas \in Nat /\ MinReplicas <= MaxReplicas
  <2>1. Label(MinLabel, 1, 100, 1) \in Nat \ {0}
    BY Parameters DEF Label
  <2>2. Label(MaxLabel, 0, 100, MinReplicas) \in Nat
    BY <2>1, Parameters DEF Label, MinReplicas
  <2>3. QED
    BY <2>1, <2>2 DEF MinReplicas, MaxReplicas
<1>3. Label(UpLabel, 1, 200, 70) \in Nat \ {0} /\ Label(DownLabel, 1, 200, 30) \in Nat \ {0}
  BY Parameters DEF Label
<1>4. UpCpu \in Nat /\ DownCpu \in Nat \ {0} /\ DownCpu < UpCpu
  BY <1>3 DEF UpCpu, DownCpu, Crossed
<1>5. Label(BusyLabel, 0, 200, 25) \in Nat
  BY Parameters DEF Label
<1>6. BusyCpu \in Nat /\ BusyCpu <= UpCpu
  BY <1>4, <1>5 DEF BusyCpu
<1>7. QED
  BY <1>2, <1>4, <1>6

\* Quotients of naturals.
LEMMA Quotient ==
  ASSUME NEW a \in Nat, NEW b \in Nat \ {0}
  PROVE  a \div b \in Nat /\ a \div b <= a
OBVIOUS

LEMMA Share ==
  ASSUME NEW u \in Nat, NEW l \in Nat \ {0}, u <= l
  PROVE  (u * 100) \div l \in 0..100
<1>1. (u * 100) \div l \in Nat /\ l * ((u * 100) \div l) <= u * 100
  OBVIOUS
<1> DEFINE q == (u * 100) \div l
<1>2. q >= 101 => l * q >= l * 101
  OBVIOUS
<1>3. QED
  BY <1>1, <1>2

\* A non-empty set of naturals has a least element, and with a bound a greatest.
LEMMA MinIsMinimum ==
  ASSUME NEW S \in SUBSET Nat, S # {}
  PROVE  Min(S) \in S /\ \A y \in S : Min(S) <= y
<1>1. PICK x \in S : \A y \in S : ~ (<<y, x>> \in OpToRel(<, Nat))
  BY WFMin, NatLessThanWellFounded
<1>2. \A y \in S : ~(y < x)
  BY <1>1 DEF OpToRel
<1>3. \A y \in S : x <= y
  BY <1>2
<1>4. QED
  BY <1>3 DEF Min

LEMMA MaxIsMaximum ==
  ASSUME NEW n \in Nat, NEW S \in SUBSET (0..n), S # {}
  PROVE  Max(S) \in S /\ \A y \in S : Max(S) >= y
<1> DEFINE D == {d \in Nat : n - d \in S}
<1>1. \A s \in S : n - s \in D /\ n - (n - s) = s
  OBVIOUS
<1>2. D \in SUBSET Nat /\ D # {}
  BY <1>1
<1>3. PICK d \in D : \A e \in D : ~ (<<e, d>> \in OpToRel(<, Nat))
  BY <1>2, WFMin, NatLessThanWellFounded
<1>4. \A e \in D : ~(e < d)
  BY <1>2, <1>3 DEF OpToRel
<1>5. n - d \in S /\ \A y \in S : n - d >= y
  <2>1. ASSUME NEW y \in S PROVE n - d >= y
    <3>1. n - y \in D /\ y \in 0..n
      BY <1>1
    <3>2. d \in Nat /\ d <= n - y
      BY <1>2, <1>4, <3>1
    <3>3. QED
      BY <3>1, <3>2
  <2>2. QED
    BY <2>1
<1>6. QED
  BY <1>5 DEF Max

-----------------------------------------------------------------------------
(* What is measured.                                                       *)

LEMMA CeilType ==
  ASSUME NEW a \in Nat, NEW b \in Nat \ {0}
  PROVE  Ceil(a, b) \in Nat
<1>1. a + b - 1 \in Nat
  OBVIOUS
<1>2. QED
  BY <1>1, Quotient DEF Ceil

\* A sample is a percentage of the limit, or a gap.
LEMMA SampleType ==
  ASSUME load \in Nat, slow \in BOOLEAN, NEW s \in Services
  PROVE  /\ Sample(s) \in [cpu : Percents, slow : BOOLEAN]
         /\ Unanswered(s) \in [cpu : Percents, slow : BOOLEAN]
<1>1. s.replicas \in Nat \ {0} /\ s.limit \in Nat \ {0}
  BY Policy, Parameters DEF Services, Floor
<1>2. Demand(s) \in Nat
  BY <1>1, CeilType DEF Demand
<1>3. Usage(s) \in Nat /\ Usage(s) <= s.limit
  BY <1>1, <1>2 DEF Usage, Lesser
<1>4. (Usage(s) * 100) \div s.limit \in 0..100
  BY <1>1, <1>3, Share
<1>5. Sample(s) \in [cpu : Percents, slow : BOOLEAN]
  BY <1>4 DEF Sample, Percents
<1>6. Unanswered(s) = [Sample(s) EXCEPT !.cpu = Unknown] /\ Unknown \in Percents
  BY DEF Unanswered, Percents
<1>7. QED
  BY <1>5, <1>6

\* A new sample pushes the others back, and the oldest out.
LEMMA Pushed ==
  ASSUME TypeOK, NEW new \in [cpu : Percents, slow : BOOLEAN],
         samples' = <<new>> \o SubSeq(samples, 1, History - 1)
  PROVE  /\ samples' \in [1..History -> [cpu : Percents, slow : BOOLEAN]]
         /\ samples'[1] = new
         /\ \A i \in 2..History : samples'[i] = samples[i - 1]
<1> DEFINE Sam == [cpu : Percents, slow : BOOLEAN]
           old == SubSeq(samples, 1, History - 1)
<1>1. History \in Nat /\ History >= 1
  BY Parameters DEF History, Greater
<1>0. samples \in [1..History -> Sam]
  BY DEF TypeOK
<1> HIDE DEF Sam
<1>2. \A i \in 1..(History - 1) : samples[i] \in Sam
  BY <1>0, <1>1
<1>3. /\ old \in Seq(Sam) /\ Len(old) = History - 1
      /\ \A i \in 1..(History - 1) : old[i] = samples[i]
  <2>1. History - 1 \in Int /\ (1 <= History - 1 => (History - 1) - 1 + 1 = History - 1)
    BY <1>1
  <2>2. /\ old \in Seq(Sam)
        /\ Len(old) = IF 1 <= History - 1 THEN (History - 1) - 1 + 1 ELSE 0
        /\ \A i \in 1..((History - 1) - 1 + 1) : old[i] = samples[1 + i - 1]
    BY <1>2, <2>1, SubSeqProperties
  <2>3. \A i \in 1..(History - 1) : 1 + i - 1 = i
    BY <1>1
  <2>4. QED
    BY <1>1, <2>2, <2>3
<1> HIDE DEF old
<1>4. <<new>> \in Seq(Sam) /\ Len(<<new>>) = 1 /\ <<new>>[1] = new
  BY DEF Sam
<1> DEFINE all == <<new>> \o old
<1>5. /\ all \in Seq(Sam) /\ Len(all) = 1 + (History - 1)
      /\ \A i \in 1..(1 + (History - 1)) :
           all[i] = IF i <= 1 THEN <<new>>[i] ELSE old[i - 1]
  BY <1>3, <1>4, ConcatProperties
<1>6. all \in [1..Len(all) -> Sam]
  BY <1>5, LenProperties
<1>7. samples' = all
  BY DEF old
<1> HIDE DEF all
<1>8. samples' \in [1..History -> Sam] /\ samples'[1] = new
  <2>1. Len(all) = History /\ 1 \in 1..(1 + (History - 1))
    BY <1>1, <1>5
  <2>2. all[1] = new
    BY <1>4, <1>5, <2>1
  <2>3. QED
    BY <1>6, <1>7, <2>1, <2>2
<1>9. ASSUME NEW i \in 2..History PROVE samples'[i] = samples[i - 1]
  <2>1. i \in 1..(1 + (History - 1)) /\ ~(i <= 1) /\ i - 1 \in 1..(History - 1)
    BY <1>1
  <2>2. QED
    BY <1>3, <1>5, <1>7, <2>1
<1>10. QED
  BY <1>8, <1>9 DEF Sam

\* What a window knows are percentages.
LEMMA KnownType ==
  ASSUME TypeOK, NEW low \in Nat \ {0}, NEW high \in Nat, high <= History
  PROVE  Known(low..high) \in SUBSET (0..100)
<1>1. \A i \in low..high : samples[i].cpu \in Percents
  <2> SUFFICES ASSUME NEW i \in low..high PROVE samples[i].cpu \in Percents
    OBVIOUS
  <2>1. History \in Nat
    BY Parameters DEF History, Greater
  <2>2. i \in 1..History
    BY <2>1
  <2>3. samples[i] \in [cpu : Percents, slow : BOOLEAN]
    BY <2>2 DEF TypeOK
  <2>4. QED
    BY <2>3
<1>2. QED
  BY <1>1 DEF Known, Percents

LEMMA ReadingTypes ==
  ASSUME TypeOK, NEW o \in Nat
  PROVE  /\ o + SustainUp <= History => Held(o) \in Percents
         /\ o + SustainDown <= History => Peak(o) \in Percents
<1>1. ASSUME o + SustainUp <= History PROVE Held(o) \in Percents
  <2> DEFINE known == Known((o + 1)..(o + SustainUp))
  <2>1. known \in SUBSET (0..100)
    <3>1. o + 1 \in Nat \ {0} /\ o + SustainUp \in Nat
      BY Parameters
    <3>2. QED
      BY <1>1, <3>1, KnownType
  <2> HIDE DEF known
  <2>2. known # {} => Min(known) \in known
    BY <2>1, MinIsMinimum
  <2>3. QED
    BY <2>1, <2>2 DEF Held, Percents, known
<1>2. ASSUME o + SustainDown <= History PROVE Peak(o) \in Percents
  <2> DEFINE known == Known((o + 1)..(o + SustainDown))
  <2>1. known \in SUBSET (0..100)
    <3>1. o + 1 \in Nat \ {0} /\ o + SustainDown \in Nat
      BY Parameters
    <3>2. QED
      BY <1>2, <3>1, KnownType
  <2> HIDE DEF known
  <2>2. known # {} => Max(known) \in known
    BY <2>1, MaxIsMaximum
  <2>3. QED
    BY <2>1, <2>2 DEF Peak, Percents, known
<1>3. QED
  BY <1>1, <1>2

-----------------------------------------------------------------------------
(* A direction, turned into a count.                                       *)

Counts == MinReplicas..MaxReplicas

\* More only for "up", fewer only for "down".
LEMMA DesiredSays ==
  ASSUME NEW direction \in {"up", "down", "hold"}, NEW current \in Counts,
         NEW held \in Percents, NEW peak \in Percents,
         NEW raw, raw = Bounded(Desired(direction, current, held, peak))
  PROVE  /\ raw \in Counts
         /\ raw > current => direction = "up"
         /\ raw < current => direction = "down"
<1> DEFINE want == Desired(direction, current, held, peak)
<1>0. /\ MinReplicas \in Nat \ {0} /\ MaxReplicas \in Nat /\ MinReplicas <= MaxReplicas
      /\ current \in Nat /\ MinReplicas <= current /\ current <= MaxReplicas
  BY Policy DEF Counts
<1>1. Aim \in Nat \ {0}
  <2>1. DownCpu + UpCpu >= 2 /\ DownCpu + UpCpu \in Nat
    BY Policy
  <2>2. QED
    BY <2>1 DEF Aim
<1>2. \A c \in 0..100 : ByRatio(current, c) \in Nat
  <2> TAKE c \in 0..100
  <2>1. current * c \in Nat
    BY <1>0
  <2>2. QED
    BY <1>1, <2>1, CeilType DEF ByRatio
<1>3. held = Unknown \/ held \in 0..100
  BY DEF Percents
<1>4. peak = Unknown \/ peak \in 0..100
  BY DEF Percents
<1>5. current \div 2 \in Nat
  BY <1>0
<1>6. CASE direction = "up"
  <2> DEFINE most == current + Greater(1, current \div 2)
             step == IF held = Unknown THEN most
                     ELSE Greater(current + 1, Lesser(most, ByRatio(current, held)))
  <2>1. most \in Nat /\ most >= current + 1
    BY <1>0, <1>5 DEF Greater
  <2>2. want = Lesser(MaxReplicas, step)
    BY <1>6 DEF Desired
  <2>3. held # Unknown => ByRatio(current, held) \in Nat
    BY <1>2, <1>3
  <2> HIDE DEF most
  <2>4. step \in Nat /\ step >= current
    BY <1>0, <2>1, <2>3 DEF Greater, Lesser
  <2> HIDE DEF step, want
  <2>5. want \in Nat /\ want >= current
    BY <1>0, <2>2, <2>4 DEF Lesser
  <2>6. QED
    BY <1>0, <1>6, <2>5 DEF Bounded, Greater, Lesser, Counts, want
<1>7. CASE direction = "down" /\ current > MinReplicas
  <2> DEFINE least == current - Greater(1, current \div 2)
             step == IF peak = Unknown THEN current - 1
                     ELSE Lesser(current - 1, Greater(least, ByRatio(current, peak)))
  <2>1. least \in Int
    BY <1>0, <1>5 DEF Greater
  <2>2. want = Greater(MinReplicas, step)
    BY <1>7 DEF Desired
  <2>3. peak # Unknown => ByRatio(current, peak) \in Nat
    BY <1>2, <1>4
  <2> HIDE DEF least
  <2>4. step \in Int /\ step <= current - 1
    BY <1>0, <2>1, <2>3 DEF Greater, Lesser
  <2> HIDE DEF step, want
  <2>5. want \in Nat /\ want <= current
    BY <1>0, <1>7, <2>2, <2>4 DEF Greater
  <2>6. QED
    BY <1>0, <1>7, <2>5 DEF Bounded, Greater, Lesser, Counts, want
<1>8. CASE direction # "up" /\ ~(direction = "down" /\ current > MinReplicas)
  <2>1. want = current
    BY <1>8 DEF Desired
  <2> HIDE DEF want
  <2>2. QED
    BY <1>0, <2>1 DEF Bounded, Greater, Lesser, Counts, want
<1>9. QED
  BY <1>6, <1>7, <1>8

\* What is remembered stands against a smaller count, and nothing else.
LEMMA StabilisedSays ==
  ASSUME NEW raw \in Counts, NEW current \in Counts,
         NEW history \in SUBSET [age : Nat, raw : Counts],
         [age |-> 0, raw |-> raw] \in history,
         NEW want, want = Stabilised(raw, current, history)
  PROVE  /\ want \in Counts
         /\ want < current => raw < current /\ \A m \in history : m.raw <= want
         /\ want > current =>
              raw > current \/ (raw < current /\ \E m \in history : m.raw = want)
<1> DEFINE raws == {m.raw : m \in history}
<1>0. MinReplicas \in Nat /\ MaxReplicas \in Nat /\ raw \in Nat /\ current \in Nat
  BY Policy DEF Counts
<1>1. CASE raw >= current
  BY <1>0, <1>1 DEF Stabilised
<1>2. CASE raw < current
  <2>1. raws \in SUBSET Counts /\ raws # {}
    OBVIOUS
  <2>2. raws \in SUBSET (0..MaxReplicas)
    BY <1>0, <2>1 DEF Counts
  <2>3. want = Max(raws)
    BY <1>0, <1>2 DEF Stabilised
  <2> HIDE DEF raws
  <2>4. Max(raws) \in raws /\ \A y \in raws : Max(raws) >= y
    BY <1>0, <2>1, <2>2, MaxIsMaximum
  <2>5. \E m \in history : m.raw = want
    BY <2>3, <2>4 DEF raws
  <2>6. \A m \in history : m.raw <= want
    BY <1>0, <2>2, <2>3, <2>4 DEF raws
  <2>7. want \in Counts
    BY <2>1, <2>3, <2>4
  <2>8. QED
    BY <1>2, <2>5, <2>6, <2>7
<1>3. QED
  BY <1>0, <1>1, <1>2

\* The ceiling takes nothing from what runs.
LEMMA CappedSays ==
  ASSUME NEW want \in Counts, NEW current \in Counts, NEW ceiling \in Nat \cup {Unknown},
         NEW target, target = Capped(want, current, ceiling)
  PROVE  /\ target \in Counts
         /\ want <= current => target = want
         /\ want > current => target >= current /\ target <= want
<1>1. MinReplicas \in Nat /\ MaxReplicas \in Nat
  BY Policy
<1>2. QED
  BY <1>1 DEF Capped, Greater, Lesser, Counts

-----------------------------------------------------------------------------
(* Type correctness.                                                       *)

\* What one replica gets is never nothing, and never more than a node.
LEMMA ShapeTypes ==
  ASSUME NEW usage \in Nat, NEW replicas \in Nat, NEW now \in Floor..Node,
         NEW throttled \in BOOLEAN
  PROVE  /\ Reserve(usage, replicas) \in Floor..Node
         /\ Limit(usage, replicas, now, throttled) \in Floor..Node
<1>1. Node \in Nat /\ Node >= 8 /\ Floor = 2
  BY Parameters DEF Floor
<1> DEFINE share == Node \div (2 * (replicas + 1))
<1>2. share \in Nat /\ share <= Node
  <2>1. 2 * (replicas + 1) \in Nat \ {0}
    OBVIOUS
  <2>2. QED
    BY <1>1, <2>1, Quotient
<1>3. Reserve(usage, replicas) = Lesser(Greater(Floor, usage * 2), Greater(Floor, share))
  BY DEF Reserve
<1> HIDE DEF share
<1>4. Reserve(usage, replicas) \in Floor..Node
  BY <1>1, <1>2, <1>3 DEF Lesser, Greater
<1> DEFINE r == Reserve(usage, replicas)
           wanted == IF throttled THEN Greater(Greater(r * 4, now * 4), 50)
                                  ELSE Greater(r * 4, now)
<1>5. Limit(usage, replicas, now, throttled) = Lesser(wanted, Node)
  BY DEF Limit
<1>6. wanted \in Nat /\ wanted >= Floor
  BY <1>1, <1>4 DEF Greater
<1> HIDE DEF wanted
<1>7. Limit(usage, replicas, now, throttled) \in Floor..Node
  BY <1>1, <1>5, <1>6 DEF Lesser
<1>8. QED
  BY <1>4, <1>7

LEMMA SpendType ==
  ASSUME NEW e \in Events, spent \in [Events -> Nat], Spend(e)
  PROVE  spent' \in [Events -> Nat]
<1>1. spent' = [spent EXCEPT ![e] = @ + 1]
  BY DEF Spend
<1>2. QED
  BY <1>1

LEMMA HistoryFits ==
  /\ History \in Nat \ {0}
  /\ \A o \in 0..Ttl : o + SustainUp <= History /\ o + SustainDown <= History
BY Parameters DEF History, Greater

LEMMA NoVerdictType == NoVerdict \in Verdicts
BY Parameters DEF NoVerdict, Verdicts, Percents

LEMMA TypeInit == Init => TypeOK
<1> SUFFICES ASSUME Init PROVE TypeOK
  OBVIOUS
<1> USE DEF Init
<1>1. svc \in Services
  <2>1. MinReplicas \in MinReplicas..MaxReplicas
    BY ONLY Policy
  <2>2. Floor \in Floor..Node /\ 4 * Floor \in Floor..Node
    <3>1. Node \in Nat /\ Node >= 8
      BY ONLY Parameters
    <3>2. QED
      BY ONLY <3>1 DEF Floor
  <2>3. QED
    BY <2>1, <2>2 DEF Services
<1>2. prev \in [reserve : Floor..Node, limit : Floor..Node, pin : BOOLEAN]
  BY <1>1 DEF Services, Tasks
<1>3. samples \in [1..History -> [cpu : Percents, slow : BOOLEAN]]
  BY <1>1, SampleType, Parameters
<1>4. /\ warm \in 0..Settled
      /\ sinceScale \in Nat /\ sinceResize \in Nat
  <2>1. Settled \in 0..Settled /\ Cooldown \in Nat /\ ResizeCooldown \in Nat
    <3>1. Settled \in Nat /\ Cooldown \in Nat /\ ResizeCooldown \in Nat
      BY ONLY Parameters
    <3>2. QED
      BY ONLY <3>1
  <2>2. QED
    BY <2>1
<1>5. spent \in [Events -> Nat]
  OBVIOUS
<1>6. QED
  BY <1>1, <1>2, <1>3, <1>4, <1>5, NoVerdictType DEF TypeOK

LEMMA TypeWorld == TypeOK /\ World => TypeOK'
<1> SUFFICES ASSUME TypeOK, World PROVE TypeOK'
  OBVIOUS
<1>0. Tasks(svc) \in [reserve : Floor..Node, limit : Floor..Node, pin : BOOLEAN]
      /\ {"change", "gap", "pin", "deploy", "bad", "fault"} = Events
  BY DEF TypeOK, Services, Tasks, Events
<1>1. CASE LoadChanges
  <2>1. spent' \in [Events -> Nat]
    BY <1>0, <1>1, SpendType DEF LoadChanges, TypeOK
  <2>2. QED
    BY <1>1, <2>1 DEF LoadChanges, loops, TypeOK
<1>2. CASE UpstreamSlows
  <2>1. spent' \in [Events -> Nat]
    BY <1>0, <1>2, SpendType DEF UpstreamSlows, TypeOK
  <2>2. QED
    BY <1>2, <2>1 DEF UpstreamSlows, loops, TypeOK
<1>3. CASE Deploys
  <2>1. spent' \in [Events -> Nat]
    BY <1>0, <1>3, SpendType DEF Deploys, TypeOK
  <2>2. QED
    BY <1>0, <1>3, <2>1 DEF Deploys, loops, TypeOK
<1>4. CASE RollEnds
  <2>1. 0 \in 0..Settled
    BY Parameters
  <2>2. QED
    BY <1>0, <1>4, <2>1 DEF RollEnds, loops, world, TypeOK
<1>5. CASE RollReverts
  <2>1. spent' \in [Events -> Nat]
    BY <1>0, <1>5, SpendType DEF RollReverts, TypeOK
  <2>2. 0 \in 0..Settled
    BY Parameters
  <2>3. svc' \in Services
    BY <1>5 DEF RollReverts, TypeOK, Services
  <2>4. QED
    BY <1>5, <2>1, <2>2, <2>3 DEF RollReverts, loops, TypeOK
<1>6. CASE Tick
  <2>1. \A n, most \in Nat : Older(n, most) \in 0..most
    BY DEF Older, Lesser
  <2>2. PICK new \in {Sample(svc), Unanswered(svc)} :
          samples' = <<new>> \o SubSeq(samples, 1, History - 1)
    BY <1>6 DEF Tick
  <2>3. new \in [cpu : Percents, slow : BOOLEAN]
    <3>1. load \in Loads /\ slow \in BOOLEAN /\ svc \in Services
      BY DEF TypeOK
    <3>2. load \in Nat
      BY <3>1, Parameters
    <3>3. QED
      BY <3>1, <3>2, SampleType
  <2>4. samples' \in [1..History -> [cpu : Percents, slow : BOOLEAN]]
    BY <2>2, <2>3, Pushed
  <2>5. spent' \in [Events -> Nat]
    BY <1>0, <1>6, SpendType DEF Tick, TypeOK
  <2>6. warm' \in 0..Settled
    <3>1. Settled \in Nat /\ 0 \in 0..Settled
      BY Parameters
    <3>2. warm \in 0..Settled
      BY DEF TypeOK
    <3>3. Older(warm, Settled) \in 0..Settled
      BY <2>1, <3>1, <3>2
    <3>4. QED
      BY <1>6, <3>1, <3>3 DEF Tick
  <2>7. verdict' \in Verdicts
    <3>1. verdict \in Verdicts
      BY DEF TypeOK
    <3>2. Older(verdict.age, Ttl + 1) \in 0..(Ttl + 1)
      <4>1. Ttl + 1 \in Nat
        BY Parameters
      <4>2. verdict.age \in 0..(Ttl + 1)
        BY <3>1 DEF Verdicts
      <4>3. verdict.age \in Nat
        BY <4>1, <4>2
      <4>4. QED
        BY <2>1, <4>1, <4>3
    <3>3. verdict' = [verdict EXCEPT !.age = Older(@, Ttl + 1)]
      BY <1>6 DEF Tick
    <3>4. QED
      BY <3>1, <3>2, <3>3 DEF Verdicts
  <2>8. memory' \subseteq [age : 0..(StabilizeDown + 1), raw : MinReplicas..MaxReplicas]
    <3>1. memory' = {[m EXCEPT !.age = Older(@, StabilizeDown + 1)] : m \in memory}
      BY <1>6 DEF Tick
    <3>2. ASSUME NEW m \in memory
          PROVE  [m EXCEPT !.age = Older(@, StabilizeDown + 1)]
                   \in [age : 0..(StabilizeDown + 1), raw : MinReplicas..MaxReplicas]
      <4>1. m \in [age : 0..(StabilizeDown + 1), raw : MinReplicas..MaxReplicas]
        BY DEF TypeOK
      <4>2. m.age \in Nat /\ StabilizeDown + 1 \in Nat
        BY <4>1, Parameters
      <4>3. Older(m.age, StabilizeDown + 1) \in 0..(StabilizeDown + 1)
        BY <2>1, <4>2
      <4>4. QED
        BY <4>1, <4>3
    <3>3. QED
      BY <3>1, <3>2
  <2>9. {sinceScale', sinceResize'} \subseteq Nat
    <3>1. sinceScale \in Nat /\ sinceResize \in Nat
      BY DEF TypeOK
    <3>2. Cooldown \in Nat /\ ResizeCooldown \in Nat
      BY Parameters
    <3>3. Older(sinceScale, Cooldown) \in 0..Cooldown
      BY <2>1, <3>1, <3>2
    <3>4. Older(sinceResize, ResizeCooldown) \in 0..ResizeCooldown
      BY <2>1, <3>1, <3>2
    <3>5. sinceScale' = Older(sinceScale, Cooldown)
          /\ sinceResize' = Older(sinceResize, ResizeCooldown)
      BY <1>6 DEF Tick
    <3>6. QED
      BY <3>2, <3>3, <3>4, <3>5
  <2>10. at' = "judge" /\ UNCHANGED <<load, slow, svc, rolling, prev, seen>>
    BY <1>6 DEF Tick
  <2>11. QED
    BY <2>4, <2>5, <2>6, <2>7, <2>8, <2>9, <2>10 DEF TypeOK
<1>7. QED
  BY <1>1, <1>2, <1>3, <1>4, <1>5, <1>6 DEF World

LEMMA ToldType ==
  ASSUME TypeOK, NEW ceiling \in Ceilings \cup {Unknown}, NEW pin \in BOOLEAN
  PROVE  Told(ceiling, pin) \in Verdicts
<1>1. Held(0) \in Percents /\ Peak(0) \in Percents
  <2>1. 0 \in Nat /\ 0 + SustainUp <= History /\ 0 + SustainDown <= History
    BY HistoryFits, Parameters
  <2>2. QED
    BY <2>1, ReadingTypes
<1>2. Direction \in {"up", "down", "hold"}
  BY DEF Direction
<1>3. 0 \in 0..(Ttl + 1)
  BY Parameters
<1>4. QED
  BY <1>1, <1>2, <1>3 DEF Told, Verdicts

\* What the autoscaler makes of a verdict: more for "up", or for what it remembers; fewer
\* for "down", and no fewer than what it remembers.
LEMMA ScalesSays ==
  ASSUME TypeOK, AsScales
  PROVE  /\ svc' = [svc EXCEPT !.replicas = svc'.replicas] /\ svc'.replicas \in Counts
         /\ \/ svc'.replicas = svc.replicas /\ memory' = memory
            \/ \E raw \in Counts :
                 /\ verdict.age <= Ttl /\ memory' = Remember(raw)
                 /\ raw > svc.replicas => verdict.direction = "up"
                 /\ raw < svc.replicas => verdict.direction = "down"
                 /\ svc'.replicas < svc.replicas =>
                      raw < svc.replicas /\ \A m \in Remember(raw) : m.raw <= svc'.replicas
                 /\ svc'.replicas > svc.replicas =>
                      \/ raw > svc.replicas
                      \/ raw < svc.replicas /\ \E m \in Remember(raw) : m.raw > svc.replicas
<1> DEFINE heard == IF Fresh(verdict) THEN verdict ELSE NoVerdict
           current == svc.replicas
           raw == Bounded(Desired(heard.direction, current, heard.held, heard.peak))
           want == Stabilised(raw, current, Remember(raw))
           target == Capped(want, current, heard.ceiling)
<1>1. svc \in Services /\ current \in Counts
  BY DEF TypeOK, Services, Counts
<1>2. heard \in Verdicts
  BY NoVerdictType DEF TypeOK
<1>3. /\ heard.direction \in {"up", "down", "hold"} /\ heard.held \in Percents
      /\ heard.peak \in Percents /\ heard.ceiling \in Nat \cup {Unknown}
  BY <1>2, Parameters DEF Verdicts
<1>4. /\ memory' = IF heard = NoVerdict THEN memory ELSE Remember(raw)
      /\ \/ heard # NoVerdict /\ svc' = [svc EXCEPT !.replicas = target]
         \/ svc' = svc
  BY DEF AsScales, SetReplicas
<1>5. heard # NoVerdict => heard = verdict /\ verdict.age <= Ttl
  BY DEF Fresh
<1> HIDE DEF heard, current
<1>6. /\ raw \in Counts
      /\ raw > current => heard.direction = "up"
      /\ raw < current => heard.direction = "down"
  BY <1>1, <1>3, DesiredSays
<1> HIDE DEF raw
<1>7. /\ Remember(raw) \in SUBSET [age : Nat, raw : Counts]
      /\ [age |-> 0, raw |-> raw] \in Remember(raw)
  <2>1. memory \subseteq [age : 0..(StabilizeDown + 1), raw : Counts]
    BY DEF TypeOK, Counts
  <2>2. memory \subseteq [age : Nat, raw : Counts]
    BY <2>1, Parameters
  <2>3. QED
    BY <1>6, <2>2 DEF Remember
<1>8. /\ want \in Counts
      /\ want < current => raw < current /\ \A m \in Remember(raw) : m.raw <= want
      /\ want > current =>
           raw > current \/ (raw < current /\ \E m \in Remember(raw) : m.raw = want)
  BY <1>1, <1>6, <1>7, StabilisedSays
<1> HIDE DEF want
<1>9. /\ target \in Counts
      /\ want <= current => target = want
      /\ want > current => target >= current /\ target <= want
  <2>1. want \in Counts /\ current \in Counts /\ heard.ceiling \in Nat \cup {Unknown}
    BY <1>1, <1>3, <1>8
  <2>2. target = Capped(want, current, heard.ceiling)
    OBVIOUS
  <2> HIDE DEF target
  <2>3. ASSUME NEW c \in Nat \cup {Unknown}
        PROVE  /\ Capped(want, current, c) \in Counts
               /\ want <= current => Capped(want, current, c) = want
               /\ want > current =>
                    Capped(want, current, c) >= current /\ Capped(want, current, c) <= want
    BY <2>1, CappedSays
  <2>4. QED
    BY <2>1, <2>2, <2>3
<1> HIDE DEF target
<1>10. /\ MinReplicas \in Nat /\ MaxReplicas \in Nat
       /\ current \in Int /\ want \in Int /\ target \in Int
  BY <1>1, <1>8, <1>9, Policy DEF Counts
<1>11. target < current => raw < current /\ \A m \in Remember(raw) : m.raw <= target
  BY <1>8, <1>9, <1>10
<1>12. target > current =>
         raw > current \/ (raw < current /\ \E m \in Remember(raw) : m.raw > current)
  BY <1>8, <1>9, <1>10
<1>13. CASE heard = NoVerdict
  BY <1>1, <1>4, <1>13 DEF Services, Counts, current
<1>14. CASE heard # NoVerdict
  <2>1. verdict.age <= Ttl /\ memory' = Remember(raw) /\ heard = verdict
    BY <1>4, <1>5, <1>14
  <2>2. /\ svc' = [svc EXCEPT !.replicas = svc'.replicas]
        /\ svc'.replicas \in {target, current}
    BY <1>1, <1>4 DEF Services, current
  <2>3. svc'.replicas \in Counts
    BY <1>1, <1>9, <2>2
  <2>4. /\ svc'.replicas < current =>
             raw < current /\ \A m \in Remember(raw) : m.raw <= svc'.replicas
        /\ svc'.replicas > current =>
             raw > current \/ (raw < current /\ \E m \in Remember(raw) : m.raw > current)
    BY <1>10, <1>11, <1>12, <2>2
  <2>5. QED
    BY <1>6, <2>1, <2>2, <2>3, <2>4 DEF current
<1>15. QED
  BY <1>13, <1>14

LEMMA TypeDispatch == TypeOK /\ OverseerDispatches => TypeOK'
<1> SUFFICES ASSUME TypeOK, OverseerDispatches PROVE TypeOK'
  OBVIOUS
<1>1. PICK ceiling \in Ceilings \cup {Unknown}, pin \in BOOLEAN, lost \in BOOLEAN :
        /\ IF lost THEN Spend("fault")
           ELSE IF pin # svc.pin THEN Spend("pin") ELSE spent' = spent
        /\ IF lost THEN UNCHANGED verdict ELSE Receives(Told(ceiling, pin))
  BY DEF OverseerDispatches
<1>2. verdict' \in Verdicts
  <2>1. verdict \in Verdicts
    BY DEF TypeOK
  <2>2. Told(ceiling, pin) \in Verdicts
    BY ToldType
  <2>3. QED
    BY <1>1, <2>1, <2>2 DEF Receives
<1>3. spent' \in [Events -> Nat]
  <2>1. "fault" \in Events /\ "pin" \in Events /\ spent \in [Events -> Nat]
    BY DEF TypeOK, Events
  <2>2. QED
    BY <1>1, <2>1, SpendType
<1>4. QED
  BY <1>2, <1>3 DEF OverseerDispatches, TypeOK

LEMMA TypeScales == TypeOK /\ AsScales => TypeOK'
<1> SUFFICES ASSUME TypeOK, AsScales PROVE TypeOK'
  OBVIOUS
<1>1. svc' \in Services
  <2>1. svc' = [svc EXCEPT !.replicas = svc'.replicas] /\ svc'.replicas \in Counts
    BY ScalesSays
  <2>2. svc \in Services
    BY DEF TypeOK
  <2>3. QED
    BY <2>1, <2>2 DEF Services, Counts
<1>2. memory' \subseteq [age : 0..(StabilizeDown + 1), raw : MinReplicas..MaxReplicas]
  <2>1. memory' = memory \/ \E raw \in Counts : memory' = Remember(raw)
    BY ScalesSays
  <2>2. 0 \in 0..(StabilizeDown + 1)
    BY Parameters
  <2>3. memory \subseteq [age : 0..(StabilizeDown + 1), raw : MinReplicas..MaxReplicas]
    BY DEF TypeOK
  <2>4. QED
    BY <2>1, <2>2, <2>3 DEF Remember, Counts
<1>3. seen' \in [svc : Services, rolling : BOOLEAN, verdict : Verdicts] /\ seen' # NoRead
  <2>1. PICK heard \in Verdicts : seen' = Discovered(heard)
    BY NoVerdictType DEF AsScales, TypeOK
  <2>2. Discovered(heard) \in [svc : Services, rolling : BOOLEAN, verdict : Verdicts]
    BY DEF Discovered, Rolling, TypeOK
  <2>3. Discovered(heard) # NoRead
    <3>1. Discovered(heard).svc \in Services /\ NoRead.svc = Unknown
      BY DEF Discovered, NoRead, TypeOK
    <3>2. Discovered(heard) = NoRead => Unknown \in Services
      BY <3>1
    <3>3. Discovered(heard) = [svc |-> svc, rolling |-> Rolling, verdict |-> heard]
      BY DEF Discovered
    <3>4. NoRead = [svc |-> Unknown]
      BY DEF NoRead
    <3>5. DOMAIN Discovered(heard) # DOMAIN NoRead
      BY <3>3, <3>4
    <3>6. QED
      BY <3>5
  <2>4. QED
    BY <2>1, <2>2, <2>3
<1>4. sinceScale' \in Nat
  <2>1. sinceScale \in Nat
    BY DEF TypeOK
  <2>2. sinceScale' = 0 \/ sinceScale' = sinceScale
    BY DEF AsScales, SetReplicas
  <2>3. QED
    BY <2>1, <2>2
<1>5. QED
  BY <1>1, <1>2, <1>3, <1>4 DEF AsScales, world, TypeOK

LEMMA TypeRest == TypeOK /\ (AsPlaces \/ AsResizes \/ AsRestarts) => TypeOK'
<1> SUFFICES ASSUME TypeOK, AsPlaces \/ AsResizes \/ AsRestarts PROVE TypeOK'
  OBVIOUS
<1>0. Tasks(svc) \in [reserve : Floor..Node, limit : Floor..Node, pin : BOOLEAN]
  BY DEF TypeOK, Services, Tasks
<1>1. CASE AsPlaces
  <2>1. seen \in [svc : Services, rolling : BOOLEAN, verdict : Verdicts] /\ seen # NoRead
    BY <1>1 DEF AsPlaces, TypeOK
  <2>2. seen.verdict.pin \in BOOLEAN
    BY <2>1 DEF Verdicts
  <2>3. svc' \in Services
    BY <1>1, <2>2 DEF AsPlaces, TypeOK, Services
  <2>4. rolling' \in {"", "deploy", "pin", "resize"}
        /\ prev' \in [reserve : Floor..Node, limit : Floor..Node, pin : BOOLEAN]
    BY <1>0, <1>1 DEF AsPlaces, TypeOK
  <2>5. QED
    BY <1>1, <2>1, <2>3, <2>4 DEF AsPlaces, world, TypeOK
<1>2. CASE AsResizes
  <2>1. seen \in [svc : Services, rolling : BOOLEAN, verdict : Verdicts]
    BY <1>2 DEF AsResizes, TypeOK
  <2>2. seen.svc.replicas \in Nat /\ seen.svc.limit \in Floor..Node
    BY <2>1, Policy DEF Services
  <2>3. Throttled(svc) \in BOOLEAN
    BY DEF Throttled
  <2> DEFINE reserve == Reserve(Measured, seen.svc.replicas)
             limit   == Limit(Measured, seen.svc.replicas, seen.svc.limit, Throttled(svc))
  <2>4. Peak(0) # Unknown => reserve \in Floor..Node /\ limit \in Floor..Node
    <3> SUFFICES ASSUME Peak(0) # Unknown
                 PROVE  reserve \in Floor..Node /\ limit \in Floor..Node
      OBVIOUS
    <3>1. Peak(0) \in Nat
      <4>1. 0 \in Nat /\ 0 + SustainDown <= History
        BY HistoryFits, Parameters
      <4>2. Peak(0) \in Percents
        BY <4>1, ReadingTypes
      <4>3. QED
        BY <4>2 DEF Percents
    <3>2. Measured \in Nat
      <4>1. seen.svc.limit \in Nat
        BY <2>2, Parameters DEF Floor
      <4>2. Peak(0) * seen.svc.limit \in Nat
        BY <3>1, <4>1
      <4>3. QED
        BY <4>2, Quotient DEF Measured
    <3>3. QED
      BY <2>2, <2>3, <3>2, ShapeTypes
  <2>5. /\ seen' = NoRead /\ at' = "done"
        /\ \/ /\ Peak(0) # Unknown
              /\ svc' = [svc EXCEPT !.reserve = reserve, !.limit = limit]
              /\ rolling' = "resize" /\ prev' = Tasks(svc) /\ sinceResize' = 0
           \/ UNCHANGED <<svc, rolling, prev, sinceResize>>
        /\ UNCHANGED <<world, samples, warm, verdict, memory, sinceScale>>
    BY <1>2 DEF AsResizes
  <2> HIDE DEF reserve, limit
  <2>6. svc' \in Services
    BY <2>4, <2>5 DEF TypeOK, Services
  <2>7. /\ rolling' \in {"", "deploy", "pin", "resize"}
        /\ prev' \in [reserve : Floor..Node, limit : Floor..Node, pin : BOOLEAN]
        /\ sinceResize' \in Nat
    <3>1. /\ rolling \in {"", "deploy", "pin", "resize"} /\ sinceResize \in Nat
          /\ prev \in [reserve : Floor..Node, limit : Floor..Node, pin : BOOLEAN]
      BY DEF TypeOK
    <3>2. CASE UNCHANGED <<svc, rolling, prev, sinceResize>>
      BY <3>1, <3>2
    <3>3. CASE rolling' = "resize" /\ prev' = Tasks(svc) /\ sinceResize' = 0
      BY <1>0, <3>3
    <3>4. QED
      BY <2>5, <3>2, <3>3
  <2>8. QED
    BY <2>5, <2>6, <2>7 DEF world, TypeOK
<1>3. CASE AsRestarts
  <2>1. spent' \in [Events -> Nat]
    BY <1>3, SpendType DEF AsRestarts, TypeOK, Events
  <2>2. Cooldown \in Nat /\ ResizeCooldown \in Nat
    BY Parameters
  <2>3. QED
    BY <1>3, <2>1, <2>2, NoVerdictType DEF AsRestarts, TypeOK
<1>4. QED
  BY <1>1, <1>2, <1>3

LEMMA TypeStep == TypeOK /\ [Next]_vars => TypeOK'
<1>1. TypeOK /\ UNCHANGED vars => TypeOK'
  BY DEF vars, TypeOK
<1>2. QED
  BY <1>1, TypeWorld, TypeDispatch, TypeScales, TypeRest DEF Next, Autoscaler

\* The service always has a count within its policy, and a reservation and a limit between
\* the floor and the smallest node; the samples, the verdict and the stabilizer's memory
\* are what their readers take them for.
THEOREM TypeCorrect == Spec => []TypeOK
<1>1. QED
  BY TypeInit, TypeStep, PTL DEF Spec

-----------------------------------------------------------------------------
(* What a verdict rests on.                                                *)

\* A whole window, o samples ago, that called for more, or for fewer.
Urged(o) ==
  /\ Held(o) # Unknown /\ Held(o) >= BusyCpu
  /\ Held(o) > UpCpu \/ FALSE \notin Slow((o + 1)..(o + SustainUp))
Quiet(o) ==
  /\ Peak(o) # Unknown /\ Peak(o) < DownCpu
  /\ TRUE \notin Slow((o + 1)..(o + SustainDown))

\* A fresh verdict still has its window among the samples.
Heard ==
  verdict.age <= Ttl =>
    /\ verdict.direction = "up" => Urged(verdict.age)
    /\ verdict.direction = "down" => Quiet(verdict.age)

\* A window of samples that has only moved says what it said.
LEMMA WindowMoves ==
  ASSUME NEW low \in Nat \ {0}, NEW high \in Nat, high + 1 <= History, History \in Nat,
         \A i \in 2..History : samples'[i] = samples[i - 1]
  PROVE  /\ Known((low + 1)..(high + 1))' = Known(low..high)
         /\ Slow((low + 1)..(high + 1))' = Slow(low..high)
<1>1. \A i \in low..high : i + 1 \in (low + 1)..(high + 1) /\ samples'[i + 1] = samples[i]
  <2> TAKE i \in low..high
  <2>1. i + 1 \in 2..History /\ (i + 1) - 1 = i /\ i + 1 \in (low + 1)..(high + 1)
    OBVIOUS
  <2>2. QED
    BY <2>1
<1>2. \A j \in (low + 1)..(high + 1) : j - 1 \in low..high /\ samples'[j] = samples[j - 1]
  <2> TAKE j \in (low + 1)..(high + 1)
  <2>1. j \in 2..History /\ j - 1 \in low..high
    OBVIOUS
  <2>2. QED
    BY <2>1
<1> DEFINE W == low..high
           V == (low + 1)..(high + 1)
<1>3. \A i \in W : \E j \in V : samples'[j] = samples[i]
  BY <1>1
<1>4. \A j \in V : \E i \in W : samples'[j] = samples[i]
  BY <1>2
<1> HIDE DEF W, V
<1>5. {samples'[j].cpu : j \in V} = {samples[i].cpu : i \in W}
  BY <1>3, <1>4
<1>6. {samples'[j].slow : j \in V} = {samples[i].slow : i \in W}
  BY <1>3, <1>4
<1>7. QED
  BY <1>5, <1>6 DEF Known, Slow, W, V

LEMMA UrgedMoves ==
  ASSUME NEW o \in Nat, o + 1 + SustainUp <= History,
         \A i \in 2..History : samples'[i] = samples[i - 1], Urged(o)
  PROVE  Urged(o + 1)'
<1> DEFINE low == o + 1
           high == o + SustainUp
<1>1. /\ low \in Nat \ {0} /\ high \in Nat /\ high + 1 <= History /\ History \in Nat
      /\ low + 1 = o + 1 + 1 /\ high + 1 = o + 1 + SustainUp
  BY Parameters, HistoryFits
<1>2. /\ Known((low + 1)..(high + 1))' = Known(low..high)
      /\ Slow((low + 1)..(high + 1))' = Slow(low..high)
  BY <1>1, WindowMoves
<1>3. /\ Known((o + 1 + 1)..(o + 1 + SustainUp))' = Known((o + 1)..(o + SustainUp))
      /\ Slow((o + 1 + 1)..(o + 1 + SustainUp))' = Slow((o + 1)..(o + SustainUp))
  BY <1>1, <1>2
<1>4. Held(o + 1)' = Held(o)
  BY <1>3 DEF Held
<1>5. QED
  BY <1>3, <1>4 DEF Urged

LEMMA QuietMoves ==
  ASSUME NEW o \in Nat, o + 1 + SustainDown <= History,
         \A i \in 2..History : samples'[i] = samples[i - 1], Quiet(o)
  PROVE  Quiet(o + 1)'
<1> DEFINE low == o + 1
           high == o + SustainDown
<1>1. /\ low \in Nat \ {0} /\ high \in Nat /\ high + 1 <= History /\ History \in Nat
      /\ low + 1 = o + 1 + 1 /\ high + 1 = o + 1 + SustainDown
  BY Parameters, HistoryFits
<1>2. /\ Known((low + 1)..(high + 1))' = Known(low..high)
      /\ Slow((low + 1)..(high + 1))' = Slow(low..high)
  BY <1>1, WindowMoves
<1>3. /\ Known((o + 1 + 1)..(o + 1 + SustainDown))' = Known((o + 1)..(o + SustainDown))
      /\ Slow((o + 1 + 1)..(o + 1 + SustainDown))' = Slow((o + 1)..(o + SustainDown))
  BY <1>1, <1>2
<1>4. Peak(o + 1)' = Peak(o)
  BY <1>3 DEF Peak
<1>5. QED
  BY <1>3, <1>4 DEF Quiet

\* What the overseer says is what its windows said.
LEMMA DirectionSays ==
  ASSUME TypeOK
  PROVE  /\ Direction = "up" => Urged(0)
         /\ Direction = "down" => Quiet(0)
<1>1. Held(0) \in Percents /\ Peak(0) \in Percents
  <2>1. 0 \in Nat /\ 0 + SustainUp <= History /\ 0 + SustainDown <= History
    BY HistoryFits, Parameters
  <2>2. QED
    BY <2>1, ReadingTypes
<1>2. (0 + 1)..(0 + SustainUp) = 1..SustainUp /\ (0 + 1)..(0 + SustainDown) = 1..SustainDown
  BY Parameters
<1>3. UpCpu \in Nat /\ BusyCpu \in Nat /\ BusyCpu <= UpCpu /\ DownCpu \in Nat
  BY Policy
<1>4. ASSUME Direction = "up" PROVE Urged(0)
  <2>1. \/ SlowHeld /\ Saturated(Held(0))
        \/ Held(0) # Unknown /\ Held(0) > UpCpu
    BY <1>4 DEF Direction
  <2>2. CASE SlowHeld /\ Saturated(Held(0))
    BY <1>2, <2>2 DEF Urged, SlowHeld, Saturated
  <2>3. CASE Held(0) # Unknown /\ Held(0) > UpCpu
    <3>1. Held(0) >= BusyCpu
      BY <1>1, <1>3, <2>3 DEF Percents
    <3>2. QED
      BY <2>3, <3>1 DEF Urged
  <2>4. QED
    BY <2>1, <2>2, <2>3
<1>5. ASSUME Direction = "down" PROVE Quiet(0)
  <2>1. ~SlowPeak /\ Peak(0) # Unknown /\ Peak(0) < DownCpu
    BY <1>5 DEF Direction
  <2>2. QED
    BY <1>2, <2>1 DEF Quiet, SlowPeak
<1>6. QED
  BY <1>4, <1>5

\* A busy window is no part of a quiet one.
LEMMA BusyIsNotQuiet ==
  ASSUME TypeOK, NEW a \in 0..Ttl, NEW o \in Nat, a <= o, o + SustainUp <= a + SustainDown,
         Urged(o), Quiet(a)
  PROVE  FALSE
<1> DEFINE W == (o + 1)..(o + SustainUp)
           V == (a + 1)..(a + SustainDown)
<1>1. /\ SustainUp \in Nat \ {0} /\ SustainDown \in Nat /\ Ttl \in Nat /\ a \in Nat
      /\ a + SustainDown <= History /\ History \in Nat
  BY Parameters, HistoryFits
<1>2. W \subseteq V /\ o + 1 \in W /\ o + SustainUp <= History
  BY <1>1
<1>3. Known(V) \in SUBSET (0..100) /\ Known(W) \in SUBSET (0..100)
  <2>1. a + 1 \in Nat \ {0} /\ a + SustainDown \in Nat
    BY <1>1
  <2>2. o + 1 \in Nat \ {0} /\ o + SustainUp \in Nat
    BY <1>1
  <2>3. QED
    BY <1>1, <1>2, <2>1, <2>2, KnownType
<1>4. Held(o) = IF Known(W) = {} THEN Unknown ELSE Min(Known(W))
  BY DEF Held
<1>5. Peak(a) = IF Known(V) = {} THEN Unknown ELSE Max(Known(V))
  BY DEF Peak
<1>6. /\ Held(o) # Unknown /\ Held(o) >= BusyCpu
      /\ Held(o) > UpCpu \/ FALSE \notin Slow(W)
  BY DEF Urged
<1>7. Peak(a) # Unknown /\ Peak(a) < DownCpu /\ TRUE \notin Slow(V)
  BY DEF Quiet
<1> HIDE DEF W, V
<1>8. /\ samples[o + 1].slow \in BOOLEAN
      /\ samples[o + 1].slow \in Slow(W) /\ samples[o + 1].slow \in Slow(V)
  <2>1. o + 1 \in 1..History
    BY <1>1, <1>2
  <2>2. samples[o + 1] \in [cpu : Percents, slow : BOOLEAN]
    BY <2>1 DEF TypeOK
  <2>3. QED
    BY <1>2, <2>2 DEF Slow
<1>9. Held(o) > UpCpu
  BY <1>6, <1>7, <1>8
<1>10. Held(o) \in Known(W) /\ Known(W) \subseteq Known(V)
  <2>1. Known(W) # {} /\ Known(W) \in SUBSET Nat
    BY <1>3, <1>4, <1>6
  <2>2. Min(Known(W)) \in Known(W)
    BY <2>1, MinIsMinimum
  <2>3. Known(W) \subseteq Known(V)
    BY <1>2 DEF Known
  <2>4. QED
    BY <1>4, <2>1, <2>2, <2>3
<1>11. Peak(a) >= Held(o) /\ Peak(a) \in 0..100 /\ Held(o) \in 0..100
  <2>1. Known(V) # {}
    BY <1>10
  <2>2. Max(Known(V)) \in Known(V) /\ \A y \in Known(V) : Max(Known(V)) >= y
    <3>1. 100 \in Nat
      OBVIOUS
    <3>2. QED
      BY <1>3, <2>1, <3>1, MaxIsMaximum
  <2>3. QED
    BY <1>3, <1>5, <1>10, <2>1, <2>2
<1>12. DownCpu \in Nat /\ UpCpu \in Nat /\ DownCpu < UpCpu
  BY Policy
<1>13. QED
  BY <1>7, <1>9, <1>11, <1>12

\* Every other step leaves the samples, and the windows, alone.
LEMMA WindowsStay ==
  ASSUME UNCHANGED samples, NEW o
  PROVE  (Urged(o)' <=> Urged(o)) /\ (Quiet(o)' <=> Quiet(o))
<1>1. Held(o)' = Held(o) /\ Peak(o)' = Peak(o)
  BY DEF Held, Peak, Known
<1>2. /\ Slow((o + 1)..(o + SustainUp))' = Slow((o + 1)..(o + SustainUp))
      /\ Slow((o + 1)..(o + SustainDown))' = Slow((o + 1)..(o + SustainDown))
  BY DEF Slow
<1>3. QED
  BY <1>1, <1>2 DEF Urged, Quiet

\* What a loop that passes does to what was measured, heard and remembered.
LEMMA TickSays ==
  ASSUME TypeOK, Tick
  PROVE  /\ \A i \in 2..History : samples'[i] = samples[i - 1]
         /\ verdict.age \in Nat /\ verdict'.direction = verdict.direction
         /\ verdict'.age = Lesser(verdict.age + 1, Ttl + 1)
<1>1. PICK new \in {Sample(svc), Unanswered(svc)} :
        samples' = <<new>> \o SubSeq(samples, 1, History - 1)
  BY DEF Tick
<1>2. new \in [cpu : Percents, slow : BOOLEAN]
  <2>1. load \in Loads /\ slow \in BOOLEAN /\ svc \in Services
    BY DEF TypeOK
  <2>2. load \in Nat
    BY <2>1, Parameters
  <2>3. QED
    BY <2>1, <2>2, SampleType
<1>3. \A i \in 2..History : samples'[i] = samples[i - 1]
  BY <1>1, <1>2, Pushed
<1>4. verdict \in Verdicts
  BY DEF TypeOK
<1>5. verdict.age \in Nat
  BY <1>4, Parameters DEF Verdicts
<1>6. verdict' = [verdict EXCEPT !.age = Older(@, Ttl + 1)]
  BY DEF Tick
<1>7. verdict'.direction = verdict.direction /\ verdict'.age = Older(verdict.age, Ttl + 1)
  BY <1>4, <1>6 DEF Verdicts
<1>8. QED
  BY <1>3, <1>5, <1>7 DEF Older

LEMMA HeardInit == Init => Heard
<1>1. Init => verdict = NoVerdict
  BY DEF Init
<1>2. NoVerdict.age = Ttl + 1 /\ Ttl \in Nat
  BY Parameters DEF NoVerdict
<1>3. QED
  BY <1>1, <1>2 DEF Heard

LEMMA HeardStep == TypeOK /\ Heard /\ [Next]_vars => Heard'
<1> SUFFICES ASSUME TypeOK, Heard, [Next]_vars PROVE Heard'
  OBVIOUS
<1>1. CASE UNCHANGED <<samples, verdict>>
  <2>1. \A o : (Urged(o)' <=> Urged(o)) /\ (Quiet(o)' <=> Quiet(o))
    BY <1>1, WindowsStay
  <2> DEFINE a == verdict.age
  <2>2. a' = a /\ verdict'.direction = verdict.direction
    BY <1>1
  <2>3. QED
    BY <2>1, <2>2 DEF Heard
<1>2. CASE Tick
  <2>1. Ttl \in Nat
    BY Parameters
  <2>2. /\ \A i \in 2..History : samples'[i] = samples[i - 1]
        /\ verdict.age \in Nat /\ verdict'.direction = verdict.direction
        /\ verdict'.age = Lesser(verdict.age + 1, Ttl + 1)
    BY <1>2, TickSays
  <2>3. SUFFICES ASSUME verdict'.age <= Ttl
                 PROVE  /\ verdict'.direction = "up" => Urged(verdict.age)'
                        /\ verdict'.direction = "down" => Quiet(verdict.age)'
    BY DEF Heard
  <2>4. verdict'.age = verdict.age + 1 /\ verdict.age + 1 \in 0..Ttl /\ verdict.age <= Ttl
    BY <2>1, <2>2, <2>3 DEF Lesser
  <2>5. /\ verdict.age + 1 + SustainUp <= History
        /\ verdict.age + 1 + SustainDown <= History
    BY <2>4, HistoryFits
  <2>6. PICK a \in Nat : a = verdict.age
    BY <2>2
  <2>7. /\ verdict.direction = "up" => Urged(a + 1)'
        /\ verdict.direction = "down" => Quiet(a + 1)'
    <3>1. /\ verdict.direction = "up" => Urged(a)
          /\ verdict.direction = "down" => Quiet(a)
      BY <2>4, <2>6 DEF Heard
    <3>2. /\ Urged(a) => Urged(a + 1)'
          /\ Quiet(a) => Quiet(a + 1)'
      BY <2>2, <2>5, <2>6, UrgedMoves, QuietMoves
    <3>3. QED
      BY <3>1, <3>2
  <2>8. QED
    BY <2>2, <2>4, <2>6, <2>7
<1>3. CASE OverseerDispatches
  <2>1. \A o : (Urged(o)' <=> Urged(o)) /\ (Quiet(o)' <=> Quiet(o))
    BY <1>3, WindowsStay DEF OverseerDispatches
  <2>2. /\ Direction = "up" => Urged(0)
        /\ Direction = "down" => Quiet(0)
    BY DirectionSays
  <2>3. \/ verdict' = verdict
        \/ verdict'.age = 0 /\ verdict'.direction = Direction
    BY <1>3 DEF OverseerDispatches, Receives, Told
  <2>4. QED
    BY <2>1, <2>2, <2>3 DEF Heard
<1>4. CASE AsRestarts
  <2>1. Ttl \in Nat
    BY Parameters
  <2>2. verdict'.age = Ttl + 1
    BY <1>4 DEF AsRestarts, NoVerdict
  <2>3. QED
    BY <2>1, <2>2 DEF Heard
<1>5. Next => \/ UNCHANGED <<samples, verdict>>
              \/ Tick \/ OverseerDispatches \/ AsRestarts
  BY DEF Next, World, Autoscaler, LoadChanges, UpstreamSlows, Deploys, RollEnds,
         RollReverts,
         AsScales, AsPlaces, AsResizes, loops
<1>6. QED
  BY <1>1, <1>2, <1>3, <1>4, <1>5 DEF vars

\* Nothing but target_replicas changes the count.
LEMMA OnlyScales ==
  ASSUME TypeOK, [Next]_vars
  PROVE  AsScales \/ svc'.replicas = svc.replicas
<1>0. svc \in Services
  BY DEF TypeOK
<1>1. CASE RollReverts
  BY <1>0, <1>1 DEF RollReverts, Services
<1>2. CASE AsPlaces
  BY <1>0, <1>2 DEF AsPlaces, Services
<1>3. CASE AsResizes
  BY <1>0, <1>3 DEF AsResizes, Services
<1>4. CASE UNCHANGED svc
  BY <1>4
<1>5. Next => \/ AsScales \/ RollReverts \/ AsPlaces \/ AsResizes \/ UNCHANGED svc
  BY DEF Next, World, Autoscaler, LoadChanges, UpstreamSlows, Deploys, RollEnds, Tick,
         OverseerDispatches, AsRestarts
<1>6. UNCHANGED vars => UNCHANGED svc
  BY DEF vars
<1>7. QED
  BY <1>1, <1>2, <1>3, <1>4, <1>5, <1>6

\* Replicas are only taken away after a whole quiet window that ended no more than a
\* verdict's life ago, whatever the labels, the windows, the cooldowns and the ceilings:
\* the rest of target_replicas never makes fewer of what "down" did not ask for.
THEOREM ShrinksWhenQuiet == Spec => ShrinksAfterQuiet
<1> DEFINE Shrinks ==
      svc'.replicas < svc.replicas =>
        \E age \in 0..Ttl :
          /\ Peak(age) # Unknown /\ Peak(age) < DownCpu
          /\ TRUE \notin Slow((age + 1)..(age + SustainDown))
<1>1. Init => Heard
  BY HeardInit
<1>2. TypeOK /\ Heard /\ [Next]_vars => Shrinks
  <2> SUFFICES ASSUME TypeOK, Heard, [Next]_vars, svc'.replicas < svc.replicas
               PROVE  \E age \in 0..Ttl : Quiet(age)
    BY DEF Quiet
  <2>1. svc.replicas \in Nat
    <3>1. svc \in Services
      BY DEF TypeOK
    <3>2. QED
      BY <3>1, Policy DEF Services
  <2>2. AsScales
    BY <2>1, OnlyScales
  <2>3. verdict.age <= Ttl /\ verdict.direction = "down"
    BY <2>1, <2>2, ScalesSays
  <2>4. verdict.age \in 0..Ttl
    <3>1. verdict \in Verdicts /\ Ttl \in Nat
      BY Parameters DEF TypeOK
    <3>2. verdict.age \in Nat
      BY <3>1 DEF Verdicts
    <3>3. QED
      BY <2>3, <3>1, <3>2
  <2>5. QED
    BY <2>3, <2>4 DEF Heard
<1>3. QED
  BY <1>1, <1>2, TypeInit, TypeStep, HeardStep, PTL DEF Spec, ShrinksAfterQuiet

\* What the stabilizer still holds against a smaller count was asked for by a busy window
\* that ended since the verdict in hand did.
Remembered ==
  \A m \in memory :
    m.age <= StabilizeDown /\ m.raw > svc.replicas =>
      \E o \in Nat : verdict.age <= o /\ o <= m.age + Ttl /\ Urged(o)

\* The stabilizer forgets within the window of the way down: by default 300 s, 90 s and
\* 180 s against 900 s.
ForgetsFirst == StabilizeDown + SustainUp + Ttl <= SustainDown

LEMMA RememberedStep ==
  ASSUME ForgetsFirst
  PROVE  TypeOK /\ Heard /\ Remembered /\ [Next]_vars => Remembered'
<1> SUFFICES ASSUME TypeOK, Heard, Remembered, [Next]_vars PROVE Remembered'
  OBVIOUS
<1>0. /\ Ttl \in Nat /\ StabilizeDown \in Nat /\ SustainUp \in Nat /\ SustainDown \in Nat
      /\ History \in Nat /\ SustainDown <= History
      /\ svc.replicas \in Nat /\ verdict.age \in Nat
      /\ \A m \in memory : m.age \in Nat /\ m.raw \in Nat
  <2>1. /\ Ttl \in Nat /\ StabilizeDown \in Nat /\ SustainUp \in Nat /\ SustainDown \in Nat
    BY Parameters
  <2>2. History \in Nat /\ SustainDown <= History
    BY <2>1, Parameters DEF History, Greater
  <2>3. svc \in Services /\ verdict \in Verdicts
        /\ memory \subseteq [age : 0..(StabilizeDown + 1), raw : MinReplicas..MaxReplicas]
    BY DEF TypeOK
  <2>4. svc.replicas \in Nat /\ verdict.age \in Nat
    BY <2>1, <2>3, Policy DEF Services, Verdicts
  <2>5. \A m \in memory : m.age \in Nat /\ m.raw \in Nat
    BY <2>1, <2>3, Policy
  <2>6. QED
    BY <2>1, <2>2, <2>4, <2>5
<1>1. CASE UNCHANGED <<samples, verdict, memory>> /\ svc'.replicas = svc.replicas
  <2>1. \A o : Urged(o)' <=> Urged(o)
    BY <1>1, WindowsStay
  <2>2. QED
    BY <1>1, <2>1 DEF Remembered
<1>2. CASE Tick
  <2>1. /\ \A i \in 2..History : samples'[i] = samples[i - 1]
        /\ verdict'.age = Lesser(verdict.age + 1, Ttl + 1)
    BY <1>2, TickSays
  <2>2. /\ svc' = svc
        /\ memory' = {[m EXCEPT !.age = Older(@, StabilizeDown + 1)] : m \in memory}
    BY <1>2 DEF Tick
  <2>3. SUFFICES ASSUME NEW n \in memory',
                        n.age <= StabilizeDown /\ n.raw > svc.replicas
                 PROVE  \E o \in Nat : verdict'.age <= o /\ o <= n.age + Ttl /\ Urged(o)'
    BY <2>2 DEF Remembered
  <2>4. PICK m \in memory : n = [m EXCEPT !.age = Older(@, StabilizeDown + 1)]
    BY <2>2
  <2>5. n.age = Older(m.age, StabilizeDown + 1) /\ n.raw = m.raw
    <3>1. m \in [age : 0..(StabilizeDown + 1), raw : MinReplicas..MaxReplicas]
      BY DEF TypeOK
    <3>2. QED
      BY <2>4, <3>1
  <2>6. n.age = m.age + 1 /\ m.age + 1 <= StabilizeDown
    BY <1>0, <2>3, <2>5 DEF Older, Lesser
  <2>7. PICK o \in Nat : verdict.age <= o /\ o <= m.age + Ttl /\ Urged(o)
    BY <1>0, <2>3, <2>5, <2>6 DEF Remembered
  <2>8. o + 1 + SustainUp <= History
    BY <1>0, <2>6, <2>7 DEF ForgetsFirst
  <2>9. Urged(o + 1)'
    BY <2>1, <2>7, <2>8, UrgedMoves
  <2>10. o + 1 \in Nat /\ verdict'.age <= o + 1 /\ o + 1 <= n.age + Ttl
    BY <1>0, <2>1, <2>6, <2>7 DEF Lesser
  <2>11. QED
    BY <2>9, <2>10
<1>3. CASE OverseerDispatches
  <2>1. \A o : Urged(o)' <=> Urged(o)
    BY <1>3, WindowsStay DEF OverseerDispatches
  <2>2. memory' = memory /\ svc' = svc
    BY <1>3 DEF OverseerDispatches
  <2>3. verdict'.age <= verdict.age /\ verdict'.age \in Nat
    <3>1. verdict' = verdict \/ verdict'.age = 0
      BY <1>3 DEF OverseerDispatches, Receives, Told
    <3>2. QED
      BY <1>0, <3>1
  <2>4. \A o \in Nat : verdict.age <= o => verdict'.age <= o
    BY <1>0, <2>3
  <2>5. QED
    BY <2>1, <2>2, <2>4 DEF Remembered
<1>4. CASE AsScales
  <2>1. samples' = samples /\ verdict' = verdict
    BY <1>4 DEF AsScales
  <2>2. \A o : Urged(o)' <=> Urged(o)
    BY <2>1, WindowsStay
  <2>3. CASE svc'.replicas = svc.replicas /\ memory' = memory
    BY <2>1, <2>2, <2>3 DEF Remembered
  <2>4. CASE \E raw \in Counts :
               /\ verdict.age <= Ttl /\ memory' = Remember(raw)
               /\ raw > svc.replicas => verdict.direction = "up"
               /\ svc'.replicas < svc.replicas =>
                    \A m \in Remember(raw) : m.raw <= svc'.replicas
    <3>1. PICK raw \in Counts :
            /\ verdict.age <= Ttl /\ memory' = Remember(raw)
            /\ raw > svc.replicas => verdict.direction = "up"
            /\ svc'.replicas < svc.replicas =>
                 \A m \in Remember(raw) : m.raw <= svc'.replicas
      BY <2>4
    <3>2. raw \in Nat /\ svc'.replicas \in Nat
      <4>1. svc'.replicas \in Counts
        BY <1>4, ScalesSays
      <4>2. QED
        BY <4>1, Policy DEF Counts
    <3>3. SUFFICES ASSUME NEW n \in Remember(raw),
                          n.age <= StabilizeDown /\ n.raw > svc'.replicas
                   PROVE  \E o \in Nat : verdict.age <= o /\ o <= n.age + Ttl /\ Urged(o)
      BY <2>1, <2>2, <3>1 DEF Remembered
    <3>4. n.raw \in Nat
      BY <1>0, <3>2 DEF Remember
    <3>5. n.raw > svc.replicas
      BY <1>0, <3>1, <3>2, <3>3, <3>4
    <3>6. CASE n \in memory
      BY <3>3, <3>5, <3>6 DEF Remembered
    <3>7. CASE n = [age |-> 0, raw |-> raw]
      <4>1. Urged(verdict.age)
        BY <3>1, <3>5, <3>7 DEF Heard
      <4>2. verdict.age <= verdict.age /\ verdict.age <= n.age + Ttl
        BY <1>0, <3>1, <3>7
      <4>3. QED
        BY <1>0, <4>1, <4>2
    <3>8. QED
      BY <3>6, <3>7 DEF Remember
  <2>5. QED
    BY <1>4, <2>3, <2>4, ScalesSays
<1>5. CASE AsRestarts
  BY <1>5 DEF AsRestarts, Remembered
<1>6. svc' = svc => svc'.replicas = svc.replicas
  OBVIOUS
<1>7. Next => \/ UNCHANGED <<samples, verdict, memory>>
              \/ Tick \/ OverseerDispatches \/ AsScales \/ AsRestarts
  BY DEF Next, World, Autoscaler, LoadChanges, UpstreamSlows, Deploys, RollEnds,
         RollReverts,
         AsPlaces, AsResizes, loops
<1>8. UNCHANGED vars => UNCHANGED <<samples, verdict, memory>>
  BY DEF vars
<1>9. QED
  BY <1>1, <1>2, <1>3, <1>4, <1>5, <1>7, <1>8, OnlyScales

\* Replicas only come when a whole window, no more than a verdict's life ago, showed the
\* replicas themselves at work, if the stabilizer forgets before a whole window of the
\* way down can have passed: an answer it still holds was then not only asked for but
\* asked for inside the window that is quiet now, which is impossible.
THEOREM GrowsOnlyWhenBusy ==
  ASSUME ForgetsFirst
  PROVE  Spec => GrowsWhenBusy
<1> DEFINE Grows ==
      svc'.replicas > svc.replicas =>
        \E age \in 0..Ttl : Held(age) # Unknown /\ Held(age) >= BusyCpu
<1>1. Init => Heard /\ Remembered
  BY HeardInit DEF Init, Remembered
<1>2. TypeOK /\ Heard /\ Remembered /\ [Next]_vars => Grows
  <2> SUFFICES ASSUME TypeOK, Heard, Remembered, [Next]_vars, svc'.replicas > svc.replicas
               PROVE  \E age \in 0..Ttl : Urged(age)
    BY DEF Urged
  <2>0. svc.replicas \in Nat /\ verdict.age \in Nat /\ Ttl \in Nat /\ StabilizeDown \in Nat
        /\ SustainUp \in Nat /\ SustainDown \in Nat
    <3>1. svc \in Services /\ verdict \in Verdicts
      BY DEF TypeOK
    <3>2. QED
      BY <3>1, Policy, Parameters DEF Services, Verdicts
  <2>1. AsScales
    BY <2>0, OnlyScales
  <2>2. PICK raw \in Counts :
          /\ verdict.age <= Ttl
          /\ raw > svc.replicas => verdict.direction = "up"
          /\ raw < svc.replicas => verdict.direction = "down"
          /\ \/ raw > svc.replicas
             \/ raw < svc.replicas /\ \E m \in Remember(raw) : m.raw > svc.replicas
    BY <2>0, <2>1, ScalesSays
  <2>3. CASE raw > svc.replicas
    BY <2>0, <2>2, <2>3 DEF Heard
  <2>4. CASE raw < svc.replicas /\ \E m \in Remember(raw) : m.raw > svc.replicas
    <3>1. PICK m \in Remember(raw) : m.raw > svc.replicas
      BY <2>4
    <3>2. m \in memory /\ m.age <= StabilizeDown
      <4>1. raw \in Nat
        BY Policy DEF Counts
      <4>2. m # [age |-> 0, raw |-> raw]
        BY <2>0, <2>4, <3>1, <4>1
      <4>3. QED
        BY <4>2 DEF Remember
    <3>3. PICK o \in Nat : verdict.age <= o /\ o <= m.age + Ttl /\ Urged(o)
      BY <3>1, <3>2 DEF Remembered
    <3>4. m.age \in Nat
      <4>1. m \in [age : 0..(StabilizeDown + 1), raw : MinReplicas..MaxReplicas]
        BY <3>2 DEF TypeOK
      <4>2. m.age \in 0..(StabilizeDown + 1)
        BY <4>1
      <4>3. QED
        BY <2>0, <4>2
    <3>5. o + SustainUp <= verdict.age + SustainDown
      BY <2>0, <3>2, <3>3, <3>4 DEF ForgetsFirst
    <3>6. Quiet(verdict.age)
      BY <2>2, <2>4 DEF Heard
    <3>7. FALSE
      <4>1. verdict.age \in 0..Ttl
        BY <2>0, <2>2
      <4>2. PICK a \in 0..Ttl : a = verdict.age
        BY <4>1
      <4>3. QED
        BY <3>3, <3>5, <3>6, <4>2, BusyIsNotQuiet
    <3>8. QED
      BY <3>7
  <2>5. QED
    BY <2>2, <2>3, <2>4
<1>3. TypeOK /\ Heard /\ Remembered /\ [Next]_vars => Remembered'
  BY RememberedStep
<1>4. QED
  BY <1>1, <1>2, <1>3, TypeInit, TypeStep, HeardStep, PTL DEF Spec, GrowsWhenBusy
=============================================================================
