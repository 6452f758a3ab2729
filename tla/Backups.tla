------------------------------ MODULE Backups -------------------------------
(***************************************************************************)
(* Scheduled snapshots of one component and their retention: dataguard     *)
(* asks the component's backup controller, and deletes the oldest once a   *)
(* backup has been made.  Snapshots are numbered as they are taken.  The   *)
(* panel takes snapshots too, at any moment.                               *)
(***************************************************************************)
EXTENDS Integers, FiniteSets

CONSTANTS Keep,         \* the component's max_snapshots
          MaxSnapshots  \* bound: snapshots ever taken
\* Bounds: failing calls, restarts, snapshots made by the panel.
CONSTANTS MaxBackupErrors, MaxForgets, MaxManual

ASSUME BackupConstants ==
  {Keep, MaxSnapshots, MaxBackupErrors, MaxForgets, MaxManual} \subseteq Nat

VARIABLES snapshots,  \* those in the target
          taken,      \* how many were ever taken
          last,       \* dataguard's memory: "none", "recent" or "stale"
          backup,     \* dataguard: "idle", "list" or "delete"
          doomed,     \* the snapshots it is deleting, oldest first
          bakSpent
bakVars == <<snapshots, taken, last, backup, doomed, bakSpent>>

BakEvents == {"error", "forget", "manual"}
BakBound == [error |-> MaxBackupErrors, forget |-> MaxForgets, manual |-> MaxManual]
BakSpend(e) == /\ bakSpent[e] < BakBound[e]
               /\ bakSpent' = [bakSpent EXCEPT ![e] = @ + 1]

BakTypeOK ==
  /\ taken \in 0..MaxSnapshots /\ snapshots \subseteq 1..taken
  /\ last \in {"none", "recent", "stale"} /\ backup \in {"idle", "list", "delete"}
  /\ doomed \subseteq 1..taken
  /\ bakSpent \in [BakEvents -> Nat]

BakInit == /\ snapshots = {} /\ taken = 0 /\ last = "none" /\ backup = "idle"
           /\ doomed = {} /\ bakSpent = [e \in BakEvents |-> 0]

Oldest(set, n) == {s \in set : Cardinality({t \in set : t <= s}) <= n}

GrowsOld == /\ last = "recent" /\ taken < MaxSnapshots /\ last' = "stale"
            /\ UNCHANGED <<snapshots, taken, backup, doomed, bakSpent>>

\* Mutant of Due: what was never taken is not overdue.
DueKnown == last = "stale"

\* A component of which no backup is remembered is due.
Due == last # "recent"

\* run_backup: what follows it runs only once it has succeeded.
DgBacksUp ==
  /\ backup = "idle" /\ Due
  /\ \/ /\ taken < MaxSnapshots /\ taken' = taken + 1
        /\ snapshots' = snapshots \cup {taken'}
        /\ last' = "recent" /\ backup' = "list" /\ bakSpent' = bakSpent
     \/ /\ BakSpend("error") /\ UNCHANGED <<snapshots, taken, last, backup>>
  /\ UNCHANGED doomed

\* Mutant of Excess: one too many.
ExcessByOne == IF Keep = 0 THEN {} ELSE Oldest(snapshots, Cardinality(snapshots) - Keep + 1)

\* Beyond the limit, the oldest; without a limit, none.
Excess == IF Keep = 0 THEN {} ELSE Oldest(snapshots, Cardinality(snapshots) - Keep)

\* A list that cannot be read dooms nothing.
DgLists ==
  /\ backup = "list"
  /\ \/ /\ doomed' = Excess /\ bakSpent' = bakSpent
        /\ backup' = IF doomed' = {} THEN "idle" ELSE "delete"
     \/ BakSpend("error") /\ doomed' = {} /\ backup' = "idle"
  /\ UNCHANGED <<snapshots, taken, last>>

\* One after the other; the first that fails ends it.
DgDeletes ==
  /\ backup = "delete"
  /\ \/ \E s \in Oldest(doomed, 1) :
          /\ snapshots' = snapshots \ {s} /\ doomed' = doomed \ {s}
          /\ bakSpent' = bakSpent
     \/ BakSpend("error") /\ doomed' = {} /\ snapshots' = snapshots
  /\ backup' = IF doomed' = {} THEN "idle" ELSE "delete"
  /\ UNCHANGED <<taken, last>>

PanelBacksUp ==
  /\ BakSpend("manual") /\ taken < MaxSnapshots /\ taken' = taken + 1
  /\ snapshots' = snapshots \cup {taken'}
  /\ UNCHANGED <<last, backup, doomed>>

DgForgets ==
  /\ BakSpend("forget") /\ taken < MaxSnapshots
  /\ last' = "none" /\ backup' = "idle" /\ doomed' = {}
  /\ UNCHANGED <<snapshots, taken>>

BakNext == \/ GrowsOld \/ DgBacksUp \/ DgLists \/ DgDeletes \/ PanelBacksUp \/ DgForgets

BakFairness == /\ WF_bakVars(DgBacksUp) /\ WF_bakVars(DgLists) /\ WF_bakVars(DgDeletes)

-----------------------------------------------------------------------------
\* A snapshot is deleted only while as many newer ones as are to be kept remain.
\* (prune_snapshots: "every step refuses rather than guesses".)
RetentionKeeps ==
  [][\A s \in snapshots \ snapshots' :
       Cardinality({t \in snapshots' : t > s}) >= Keep]_bakVars

\* Whatever was taken, and whatever was forgotten, there is a recent backup again.
SomeBackupTaken ==
  taken < MaxSnapshots ~> (last = "recent" \/ taken = MaxSnapshots)
=============================================================================
