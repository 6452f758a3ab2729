------------------------------ MODULE Scaling ------------------------------
(***************************************************************************)
(* The two loops that size one application.  The overseer measures, decides *)
(* a direction and dispatches it; the autoscaler turns the last direction  *)
(* it heard into a replica count, applies the placement it was told, and   *)
(* resizes what one replica reserves and may use.  The second changes what *)
(* the first measures.                                                     *)
(*                                                                         *)
(* CPU is in hundredths of a core, and utilisation in percent of the limit. *)
(* Memory is sized and judged as CPU is, with thresholds of its own, and   *)
(* is left out.  Time is counted in loops of the autoscaler.               *)
(***************************************************************************)
EXTENDS Integers, Sequences, FiniteSetsExt, Functions

CONSTANTS Loads,                     \* what all replicas together would use
          MinLabel, MaxLabel,        \* autoscale.* of the service: the policy's bounds
          UpLabel, DownLabel, BusyLabel,    \* and its thresholds
          Node,                             \* the smallest node's CPU
          SustainUp, SustainDown,           \* its windows, in loops
          StabilizeDown, Cooldown,
          Ttl, ResizeCooldown,              \* SIGNAL_TTL, RESIZE_COOLDOWN, in loops
          Settled,                          \* RESIZE_MIN_SETTLED, in loops
          Ceilings,                         \* replica_ceiling: what admission may say
          \* Bounds: changes of the load or the latency; samples that are missing;
          \* flips of the placement; deploys; rollouts that fail; restarts of either loop
          \* and deliveries that are lost.
          MaxChanges, MaxGaps, MaxPins, MaxDeploys, MaxBad, MaxFaults,
          MaxEvents          \* bound: of all these together

ASSUME ScalingConstants ==
  /\ Loads \subseteq Nat /\ Ceilings \subseteq Nat
  /\ {MinLabel, MaxLabel, UpLabel, DownLabel, BusyLabel} \subseteq Int
  /\ {SustainUp, SustainDown} \subseteq Nat \ {0}
  /\ Node \in Nat /\ Node >= 8        \* room for what a service starts with
  /\ {StabilizeDown, Cooldown, Ttl, ResizeCooldown, Settled, MaxChanges,
      MaxGaps, MaxPins, MaxDeploys, MaxBad, MaxFaults, MaxEvents} \subseteq Nat

\* A label that is no number in its range is its default.
Label(value, low, high, default) == IF value \in low..high THEN value ELSE default

\* policy_from_labels: crossed bounds are one bound; this model runs no service at zero.
MinReplicas == Label(MinLabel, 1, 100, 1)
MaxReplicas == LET high == Label(MaxLabel, 0, 100, MinReplicas)
               IN IF high < MinReplicas THEN MinReplicas ELSE high

\* _thresholds_from_labels: a crossed pair is the default for both, and a busy floor
\* above the trigger is the trigger.
Crossed == Label(DownLabel, 1, 200, 30) >= Label(UpLabel, 1, 200, 70)
UpCpu   == IF Crossed THEN 70 ELSE Label(UpLabel, 1, 200, 70)
DownCpu == IF Crossed THEN 30 ELSE Label(DownLabel, 1, 200, 30)
BusyCpu == LET busy == Label(BusyLabel, 0, 200, 25) IN IF busy < UpCpu THEN busy ELSE UpCpu

VARIABLES load, slow,     \* the demand; requests are slow
          svc,            \* the service: replicas, reserve, limit, pin
          rolling, prev,  \* its rollout: "" or who began it; what it would go back to
          samples,        \* what the metrics store has, newest first
          warm,           \* loops since its containers started
          verdict,        \* the autoscaler's: the last one delivered
          at, seen,       \* the step of the loops, and what the autoscaler read
          memory,         \* its stabilizer: raw counts with their age
          sinceScale, sinceResize,
          spent
vars == <<load, slow, svc, rolling, prev, samples, warm, verdict, at, seen,
          memory, sinceScale, sinceResize, spent>>

Unknown   == -1
NoRead    == [svc |-> Unknown]
NoVerdict == [age |-> Ttl + 1, direction |-> "hold", held |-> Unknown, peak |-> Unknown,
              ceiling |-> Unknown, pin |-> FALSE]
Events == {"change", "gap", "pin", "deploy", "bad", "fault"}
Bound  == [change |-> MaxChanges, gap |-> MaxGaps, pin |-> MaxPins,
           deploy |-> MaxDeploys, bad |-> MaxBad, fault |-> MaxFaults]
Spend(e) ==
  /\ spent[e] < Bound[e] /\ FoldFunction(+, 0, spent) < MaxEvents
  /\ spent' = [spent EXCEPT ![e] = @ + 1]

\* update_in_progress: a rollout that Swarm has not ended, forwards or backwards.
Rolling == rolling # ""

\* What a rollout replaces: the count is not part of it.
Tasks(s) == [reserve |-> s.reserve, limit |-> s.limit, pin |-> s.pin]

Lesser(a, b)  == IF a <= b THEN a ELSE b
Greater(a, b) == IF a >= b THEN a ELSE b
Ceil(a, b)    == (a + b - 1) \div b
Distance(a, b) == Greater(a, b) - Lesser(a, b)

-----------------------------------------------------------------------------
(* What is measured.                                                       *)

\* What a replica would use, and uses: the limit hides the rest.
Demand(s)    == Ceil(load, s.replicas)
Usage(s)     == Lesser(Demand(s), s.limit)
Throttled(s) == Demand(s) > s.limit
Sample(s)    == [cpu |-> (Usage(s) * 100) \div s.limit, slow |-> slow]

\* A query that fails, or that finds no series, has no answer; whoever asks goes on.
Unanswered(s) == [Sample(s) EXCEPT !.cpu = Unknown]

History == Greater(SustainUp, SustainDown) + Ttl
Known(window) == {samples[i].cpu : i \in window} \ {Unknown}

\* mean_expr: requests, by a timer that is compared with the service's own past.
Slow(window)  == {samples[i].slow : i \in window}

\* measure: the minimum over the window of the way up, the maximum over the other one;
\* of the samples there are.
Held(offset) ==
  LET known == Known((offset + 1)..(offset + SustainUp))
  IN IF known = {} THEN Unknown ELSE Min(known)
Peak(offset) ==
  LET known == Known((offset + 1)..(offset + SustainDown))
  IN IF known = {} THEN Unknown ELSE Max(known)
SlowHeld == FALSE \notin Slow(1..SustainUp)
SlowPeak == TRUE \in Slow(1..SustainDown)

\* Mutant of Saturated: latency is enough.
SaturatedAlways(cpu) == cpu = cpu

\* The replicas themselves are the delay.
Saturated(cpu) == cpu # Unknown /\ cpu >= BusyCpu

\* classify.decide.
Direction ==
  LET held == Held(0) peak == Peak(0)
  IN IF \/ SlowHeld /\ Saturated(held)
        \/ held # Unknown /\ held > UpCpu
     THEN "up"
     ELSE IF ~SlowPeak /\ peak # Unknown /\ peak < DownCpu THEN "down" ELSE "hold"

-----------------------------------------------------------------------------
(* A direction, turned into a count.                                       *)

Aim == (DownCpu + UpCpu) \div 2

ByRatio(current, cpu) == Ceil(current * cpu, Aim)

Bounded(count) == Greater(MinReplicas, Lesser(MaxReplicas, count))

\* desired_replicas, with the default factors of one half.
Desired(direction, current, held, peak) ==
  LET most  == current + Greater(1, current \div 2)
      least == current - Greater(1, current \div 2)
  IN CASE direction = "up" ->
            Lesser(MaxReplicas,
                   IF held = Unknown THEN most
                   ELSE Greater(current + 1, Lesser(most, ByRatio(current, held))))
       [] direction = "down" /\ current > MinReplicas ->
            Greater(MinReplicas,
                    IF peak = Unknown THEN current - 1
                    ELSE Lesser(current - 1, Greater(least, ByRatio(current, peak))))
       [] OTHER -> current

\* Stabilizer: a smaller count has to have been the answer for a whole window.
Remember(raw) ==
  {m \in memory : StabilizeDown > 0 /\ m.age <= StabilizeDown}
    \cup {[age |-> 0, raw |-> raw]}
Stabilised(raw, current, history) ==
  IF raw >= current THEN raw ELSE Max({m.raw : m \in history})

\* Mutant of Capped: the ceiling is the law.
CappedHard(want, current, ceiling) ==
  IF ceiling = Unknown THEN want ELSE Lesser(want, ceiling)

\* The ceiling caps growth, and never cuts what runs.
Capped(want, current, ceiling) ==
  IF ceiling = Unknown THEN want
  ELSE Greater(Lesser(want, ceiling), Lesser(current, want))

-----------------------------------------------------------------------------
(* What one replica gets.                                                  *)

Floor == 2                                   \* CPU_RESERVE_FLOOR
Reserve(usage, replicas) ==
  Lesser(Greater(Floor, usage * 2), Greater(Floor, Node \div (2 * (replicas + 1))))

\* Mutant of Limit: the ceiling is clamped as a reservation is.
LimitByShare(usage, replicas, now, throttled) ==
  LET reserve == Reserve(usage, replicas)
      wanted  == IF throttled THEN Greater(Greater(reserve * 4, now * 4), 50)
                              ELSE Greater(reserve * 4, now)
  IN Lesser(wanted, Greater(Floor, Node \div (2 * (replicas + 1))) * 2)

\* Mutant of Limit: it is walked back when nothing throttles.
LimitWalksBack(usage, replicas, now, throttled) ==
  LET reserve == Reserve(usage, replicas)
      wanted  == IF throttled THEN Greater(Greater(reserve * 4, now * 4), 50)
                              ELSE reserve * 4
  IN Lesser(wanted, Node)

\* right_size: throttling raises it at once and far, and nothing but a smaller node
\* lowers it.
Limit(usage, replicas, now, throttled) ==
  LET reserve == Reserve(usage, replicas)
      wanted  == IF throttled THEN Greater(Greater(reserve * 4, now * 4), 50)
                              ELSE Greater(reserve * 4, now)
  IN Lesser(wanted, Node)

\* _changed_enough: in its own right and as a share of what it was.
ChangedEnough(old, new) == Distance(new, old) >= 5 /\ Distance(new, old) * 4 >= old

-----------------------------------------------------------------------------
Services == [replicas : MinReplicas..MaxReplicas, reserve : Floor..Node,
             limit : Floor..Node, pin : BOOLEAN]
Percents == 0..100 \cup {Unknown}
Verdicts == [age : 0..(Ttl + 1), direction : {"up", "down", "hold"}, held : Percents,
             peak : Percents, ceiling : Ceilings \cup {Unknown}, pin : BOOLEAN]

TypeOK ==
  /\ load \in Loads /\ slow \in BOOLEAN /\ svc \in Services
  /\ prev \in [reserve : Floor..Node, limit : Floor..Node, pin : BOOLEAN]
  /\ rolling \in {"", "deploy", "pin", "resize"}
  /\ samples \in [1..History -> [cpu : Percents, slow : BOOLEAN]]
  /\ warm \in 0..Settled /\ at \in {"judge", "scale", "place", "resize", "done"}
  /\ verdict \in Verdicts
  /\ seen \in {NoRead} \cup [svc : Services, rolling : BOOLEAN, verdict : Verdicts]
  /\ at \in {"place", "resize"} => seen # NoRead
  /\ memory \subseteq [age : 0..(StabilizeDown + 1), raw : MinReplicas..MaxReplicas]
  /\ {sinceScale, sinceResize} \subseteq Nat /\ spent \in [Events -> Nat]

Init ==
  /\ load \in Loads /\ slow \in BOOLEAN
  /\ svc = [replicas |-> MinReplicas, reserve |-> Floor, limit |-> 4 * Floor, pin |-> FALSE]
  /\ rolling = "" /\ prev = Tasks(svc)
  /\ samples = [i \in 1..History |-> Sample(svc)]
  /\ warm = Settled /\ verdict = NoVerdict
  /\ at = "judge" /\ seen = NoRead
  /\ memory = {} /\ sinceScale = Cooldown /\ sinceResize = ResizeCooldown
  /\ spent = [e \in Events |-> 0]

world == <<load, slow, spent>>
loops == <<verdict, at, seen, memory, sinceScale, sinceResize>>

-----------------------------------------------------------------------------
(* The world.  What a loop does not look at between its steps does not change there: *)
(* a change is one before it or after it.                                  *)

LoadChanges ==
  /\ at = "done" /\ Spend("change") /\ \E l \in Loads \ {load} : load' = l
  /\ UNCHANGED <<slow, svc, rolling, prev, samples, warm, loops>>
UpstreamSlows ==
  /\ at = "done" /\ Spend("change") /\ slow' = ~slow
  /\ UNCHANGED <<load, svc, rolling, prev, samples, warm, loops>>

\* CI's push.  It never waits for a rollout that is under way.
Deploys ==
  /\ at = "done" /\ Spend("deploy") /\ rolling' = "deploy" /\ prev' = Tasks(svc)
  /\ UNCHANGED <<load, slow, svc, samples, warm, loops>>
RollEnds ==
  /\ at = "done" /\ Rolling /\ rolling' = "" /\ warm' = 0 /\ prev' = Tasks(svc)
  /\ UNCHANGED <<world, svc, samples, loops>>
\* Swarm puts back what the rollout replaced.
RollReverts ==
  /\ at = "done" /\ Rolling /\ Spend("bad") /\ rolling' = "" /\ warm' = 0
  /\ svc' = [svc EXCEPT !.reserve = prev.reserve, !.limit = prev.limit, !.pin = prev.pin]
  /\ UNCHANGED <<load, slow, prev, samples, loops>>

\* A loop has passed: the metrics store has a sample more, or a gap.
Older(age, most) == Lesser(age + 1, most)
Tick ==
  /\ at = "done" /\ at' = "judge"
  /\ \/ samples' = <<Sample(svc)>> \o SubSeq(samples, 1, History - 1) /\ UNCHANGED spent
     \/ /\ Spend("gap")
        /\ samples' = <<Unanswered(svc)>> \o SubSeq(samples, 1, History - 1)
  /\ warm' = IF Rolling THEN 0 ELSE Older(warm, Settled)
  /\ verdict' = [verdict EXCEPT !.age = Older(@, Ttl + 1)]
  /\ memory' = {[m EXCEPT !.age = Older(@, StabilizeDown + 1)] : m \in memory}
  /\ sinceScale' = Older(sinceScale, Cooldown)
  /\ sinceResize' = Older(sinceResize, ResizeCooldown)
  /\ UNCHANGED <<load, slow, svc, rolling, prev, seen>>

-----------------------------------------------------------------------------
(* The overseer: judge and dispatch.                                       *)

Told(ceiling, pin) ==
  [age |-> 0, direction |-> Direction, held |-> Held(0), peak |-> Peak(0),
   ceiling |-> ceiling, pin |-> pin]

\* record_dispatch: the last delivery replaces the one before.
Receives(v) == verdict' = v

\* Told to everybody, whatever it says, before the autoscaler's loop: after it is as good
\* as not in time for it.  A delivery may be lost, and a ceiling is missing
\* while the fleet cannot be read.
OverseerDispatches ==
  /\ at = "judge" /\ at' = "scale"
  /\ \E ceiling \in Ceilings \cup {Unknown}, pin \in BOOLEAN, lost \in BOOLEAN :
       /\ IF lost THEN Spend("fault")
          ELSE IF pin # svc.pin THEN Spend("pin") ELSE spent' = spent
       /\ IF lost THEN UNCHANGED verdict ELSE Receives(Told(ceiling, pin))
  /\ UNCHANGED <<load, slow, svc, rolling, prev, samples, warm, seen, memory,
                 sinceScale, sinceResize>>

-----------------------------------------------------------------------------
(* The autoscaler's loop.                                                  *)

\* dispatched_for.
Fresh(v) == v.age <= Ttl

\* discover_workloads: what the loop goes by until its end.
Discovered(heard) == [svc |-> svc, rolling |-> Rolling, verdict |-> heard]

SetReplicas(n) == svc' = [svc EXCEPT !.replicas = n] /\ sinceScale' = 0

\* Discovery, the verdicts, and target_replicas; a service with no fresh verdict holds.
AsScales ==
  /\ at = "scale" /\ at' = "place"
  /\ LET heard   == IF Fresh(verdict) THEN verdict ELSE NoVerdict
         current == svc.replicas
         raw     == Bounded(Desired(heard.direction, current, heard.held, heard.peak))
         target  == Capped(Stabilised(raw, current, Remember(raw)), current, heard.ceiling)
     IN /\ seen' = Discovered(heard)
        /\ memory' = IF heard = NoVerdict THEN memory ELSE Remember(raw)
        /\ \/ /\ heard # NoVerdict /\ target # current /\ sinceScale >= Cooldown
              /\ SetReplicas(target)
           \/ /\ heard = NoVerdict \/ target = current \/ sinceScale < Cooldown
              /\ UNCHANGED <<svc, sinceScale>>
  /\ UNCHANGED <<world, rolling, prev, samples, warm, verdict, sinceResize>>

\* reconcile_placement: not of a service that was rolling when the loop began.
AsPlaces ==
  /\ at = "place" /\ at' = "resize"
  /\ IF seen.verdict # NoVerdict /\ seen.verdict.pin # seen.svc.pin /\ ~seen.rolling
     THEN /\ svc' = [svc EXCEPT !.pin = seen.verdict.pin]
          /\ rolling' = "pin" /\ prev' = Tasks(svc)
     ELSE UNCHANGED <<svc, rolling, prev>>
  /\ UNCHANGED <<world, samples, warm, verdict, seen, memory,
                 sinceScale, sinceResize>>

\* What a settled container used, in hundredths of a core; the quantile of a window as
\* short as these is its maximum.
Measured == (Peak(0) * seen.svc.limit) \div 100

\* Not before its containers have run long enough for that to mean something.
SettledIn == warm >= Settled

\* apply_right_sizing, by what the loop read at its start.
AsResizes ==
  /\ at = "resize" /\ at' = "done"
  /\ LET reserve == Reserve(Measured, seen.svc.replicas)
         limit   == Limit(Measured, seen.svc.replicas, seen.svc.limit, Throttled(svc))
     IN IF /\ ~seen.rolling /\ SettledIn /\ Peak(0) # Unknown
           /\ sinceResize >= ResizeCooldown
           /\ \/ ChangedEnough(seen.svc.reserve, reserve)
              \/ ChangedEnough(seen.svc.limit, limit)
        THEN /\ svc' = [svc EXCEPT !.reserve = reserve, !.limit = limit]
             /\ rolling' = "resize" /\ prev' = Tasks(svc) /\ sinceResize' = 0
        ELSE UNCHANGED <<svc, rolling, prev, sinceResize>>
  /\ seen' = NoRead
  /\ UNCHANGED <<world, samples, warm, verdict, memory, sinceScale>>

\* A crash forgets the verdict, the memory of the stabilizer and both cooldowns.
AsRestarts ==
  /\ at \in {"scale", "place", "resize"} /\ Spend("fault") /\ at' = "done"
  /\ verdict' = NoVerdict /\ memory' = {}
  /\ sinceScale' = Cooldown /\ sinceResize' = ResizeCooldown /\ seen' = NoRead
  /\ UNCHANGED <<load, slow, svc, rolling, prev, samples, warm>>

-----------------------------------------------------------------------------
Autoscaler == AsScales \/ AsPlaces \/ AsResizes
World == LoadChanges \/ UpstreamSlows \/ Deploys \/ RollEnds \/ RollReverts \/ Tick
Next == World \/ OverseerDispatches \/ Autoscaler \/ AsRestarts

Spec == Init /\ [][Next]_vars

\* Both loops go on, in time, and rollouts end.
FairSpec == /\ Spec /\ WF_vars(Autoscaler) /\ WF_vars(Tick) /\ SF_vars(RollEnds)
            /\ WF_vars(OverseerDispatches)

-----------------------------------------------------------------------------
\* Replicas are only taken away when, for a whole scale-down window that ended no more
\* than a verdict's life ago, nothing was slow and no sample showed a busy replica: not
\* because nodes went away, nor because readings did.  (classify.decide, target_replicas.)
ShrinksAfterQuiet ==
  [][svc'.replicas < svc.replicas =>
       \E age \in 0..Ttl :
         /\ Peak(age) # Unknown /\ Peak(age) < DownCpu
         /\ TRUE \notin Slow((age + 1)..(age + SustainDown))]_vars

\* Replicas are only added when, for a whole scale-up window that ended no more than a
\* verdict's life ago, every sample showed the replicas themselves at work: however slow
\* requests are.  (classify.decide.)  With labels that let the stabilizer remember for
\* longer than the window of the way down, a larger answer that a ceiling once held back
\* makes a service grow when it is quiet: see ForgetsFirst of ScalingProofs.
GrowsWhenBusy ==
  [][svc'.replicas > svc.replicas =>
       \E age \in 0..Ttl : Held(age) # Unknown /\ Held(age) >= BusyCpu]_vars

\* Under a load that no longer changes, the two loops come to rest.  (aim: "the only
\* resting point is between them".)
Settles == <>[][UNCHANGED <<svc.replicas, svc.reserve, svc.limit>>]_vars

\* The limit a service strangles itself against is raised until it does not, or until it
\* is the node.  (THROTTLE_TARGET_PCT.)
Relieved == <>[](~Throttled(svc) \/ svc.limit = Node)
=============================================================================
