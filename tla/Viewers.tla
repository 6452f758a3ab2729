------------------------------ MODULE Viewers -------------------------------
(***************************************************************************)
(* The consoles the panel wakes on demand and dataguard puts away: a       *)
(* component's visualiser and Grafana, by the same stamp file.  A request  *)
(* for Grafana is stamped, and forwarded as long as something answers; one *)
(* for a visualiser is forwarded, and stamped, only if the service wants a *)
(* replica and has it running.  The page that waits for a console asks     *)
(* whether it runs, and nothing else.                                      *)
(***************************************************************************)
EXTENDS Integers

CONSTANTS Consoles,      \* of which "grafana" is one
          MaxOpens,      \* bound: times a console is opened
          MaxViewErrors  \* bound: service updates that fail

ASSUME ViewConstants == {MaxOpens, MaxViewErrors} \subseteq Nat

VARIABLES reps,       \* per console: replicas asked for, 0 or 1
          up,         \* consoles with a running task
          stamp,      \* per console: "none", "fresh", or "idle" past its window
          page,       \* what the operator has: "closed", "waiting" or "open"
          stopping,   \* dataguard: the console it has found idle, or "none"
          viewSpent
viewVars == <<reps, up, stamp, page, stopping, viewSpent>>

ViewBound == [open |-> MaxOpens, error |-> MaxViewErrors]
ViewSpend(e) == /\ viewSpent[e] < ViewBound[e]
                /\ viewSpent' = [viewSpent EXCEPT ![e] = @ + 1]

ViewTypeOK ==
  /\ reps \in [Consoles -> 0..1] /\ up \subseteq Consoles
  /\ stamp \in [Consoles -> {"none", "fresh", "idle"}]
  /\ page \in [Consoles -> {"closed", "waiting", "open"}]
  /\ stopping \in Consoles \cup {"none"}
  /\ viewSpent \in [open : Nat, error : Nat]

\* A console used some time ago, or never.
ViewInit ==
  /\ reps = [v \in Consoles |-> 0] /\ up = {}
  /\ stamp \in [Consoles -> {"none", "idle"}]
  /\ page = [v \in Consoles |-> "closed"] /\ stopping = "none"
  /\ viewSpent = [e \in {"open", "error"} |-> 0]

-----------------------------------------------------------------------------
(* The panel: one request for a console.                                   *)

StampsFirst(v) == v = "grafana"

\* Grafana is tried first, whatever its replicas.
Forwarded(v) == v \in up /\ (StampsFirst(v) \/ reps[v] = 1)

\* What is not forwarded waits; a console of no replicas is woken, which may fail, even
\* while its last task is still there.
Requests(v, opening) ==
  \E failed \in BOOLEAN :
    /\ failed => ~Forwarded(v) /\ reps[v] = 0 /\ viewSpent.error < MaxViewErrors
    /\ viewSpent' = [open  |-> viewSpent.open + opening,
                     error |-> viewSpent.error + IF failed THEN 1 ELSE 0]
    /\ stamp' = IF Forwarded(v) \/ StampsFirst(v) THEN [stamp EXCEPT ![v] = "fresh"]
                ELSE stamp
    /\ reps' = IF Forwarded(v) \/ failed THEN reps ELSE [reps EXCEPT ![v] = 1]
    /\ page' = [page EXCEPT ![v] = IF Forwarded(v) THEN "open"
                                   ELSE IF failed /\ StampsFirst(v) THEN "closed"
                                   ELSE "waiting"]
    /\ UNCHANGED <<up, stopping>>

Opens(v) == page[v] = "closed" /\ viewSpent.open < MaxOpens /\ Requests(v, 1)
Uses(v)  == page[v] = "open" /\ Requests(v, 0)

\* The waiting page asks whether the console runs, and goes there once it does.
Polls(v) == page[v] = "waiting" /\ v \in up /\ Requests(v, 0)

Leaves(v) == /\ page[v] # "closed" /\ page' = [page EXCEPT ![v] = "closed"]
             /\ UNCHANGED <<reps, up, stamp, stopping, viewSpent>>

-----------------------------------------------------------------------------
(* Swarm, and the clock.                                                   *)

Starts(v) == /\ reps[v] = 1 /\ v \notin up /\ up' = up \cup {v}
             /\ UNCHANGED <<reps, stamp, page, stopping, viewSpent>>
Stops(v)  == /\ reps[v] = 0 /\ v \in up /\ up' = up \ {v}
             /\ UNCHANGED <<reps, stamp, page, stopping, viewSpent>>

\* Nobody asked for a quarter of an hour: longer than a start takes, and longer than a
\* waiting page takes to see it.
Idles(v) == /\ stamp[v] = "fresh" /\ (reps[v] = 1) = (v \in up)
            /\ ~(page[v] = "waiting" /\ v \in up)
            /\ stamp' = [stamp EXCEPT ![v] = "idle"]
            /\ UNCHANGED <<reps, up, page, stopping, viewSpent>>

-----------------------------------------------------------------------------
(* dataguard._scale_down_if_idle: no stamp, nothing to do.                 *)

\* Mutant of IsIdle: a console that was used lately is idle.
IsIdleInverted(v) == stamp[v] = "fresh"

IsIdle(v) == stamp[v] = "idle"

DgFindsIdle(v) ==
  /\ stopping = "none" /\ IsIdle(v) /\ reps[v] = 1 /\ stopping' = v
  /\ UNCHANGED <<reps, up, stamp, page, viewSpent>>

DgStops(v) ==
  /\ stopping = v /\ stopping' = "none"
  /\ \/ reps' = [reps EXCEPT ![v] = 0] /\ viewSpent' = viewSpent
     \/ /\ viewSpent.error < MaxViewErrors /\ reps' = reps
        /\ viewSpent' = [viewSpent EXCEPT !.error = @ + 1]
  /\ UNCHANGED <<up, stamp, page>>

ViewNext ==
  \E v \in Consoles : \/ Opens(v) \/ Uses(v) \/ Polls(v) \/ Leaves(v) \/ Starts(v)
                      \/ Stops(v) \/ Idles(v) \/ DgFindsIdle(v) \/ DgStops(v)

\* Swarm goes on, a waiting page keeps asking, the clock runs, and each pass of the loop
\* looks at every console.
ViewFairness ==
  \A v \in Consoles : /\ WF_viewVars(Polls(v)) /\ WF_viewVars(Starts(v))
                      /\ WF_viewVars(Stops(v)) /\ WF_viewVars(Idles(v))
                      /\ SF_viewVars(DgFindsIdle(v)) /\ WF_viewVars(DgStops(v))

-----------------------------------------------------------------------------
\* A console nobody looks at is put away, once it has a stamp.
\* (_stop_idle_viewers, _stop_idle_grafana.)
PutAway ==
  \A v \in Consoles : <>[](page[v] = "closed" /\ stamp[v] # "none") => <>[](reps[v] = 0)
=============================================================================
