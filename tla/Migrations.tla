----------------------------- MODULE Migrations -----------------------------
(***************************************************************************)
(* One component's migration to or from Atlas: a Swarm job the panel       *)
(* starts, with two connection strings as secrets made one after the       *)
(* other, and the reaper in dataguard's loop that takes job and secrets    *)
(* away afterwards.  Swarm refuses to remove a secret that a service names.*)
(***************************************************************************)
EXTENDS Integers, FiniteSetsExt

CONSTANTS MaxRuns,      \* bound: migrations started
          MaxMigErrors  \* bound: Docker calls that fail

ASSUME MigConstants == {MaxRuns, MaxMigErrors} \subseteq Nat

\* A version of this cluster's connection string, or of Atlas's.
Ends     == {"here", "there"}
Secrets  == Ends \X (1..MaxRuns)
NoSecret == <<"none", 0>>

NoJob  == [id |-> 0, state |-> "none", held |-> {}]
States == {"running", "done", "old"}  \* old: finished MIGRATE_KEEP_SECONDS ago
Jobs   == {NoJob} \cup [id : 1..MaxRuns, state : States, held : SUBSET Secrets]

VARIABLES job,      \* the service, or NoJob
          secrets,  \* its secrets that exist
          start,    \* the panel: "idle", or what it does next for a run
          made,     \* the secrets it has made for the run
          reap,     \* the reaper: "idle", "sweep", "remove" or "purge"
          found,    \* the job it found
          migSpent
migVars == <<job, secrets, start, made, reap, found, migSpent>>

MigTypeOK ==
  /\ job \in Jobs /\ found \in Jobs /\ secrets \subseteq Secrets
  /\ start \in {"idle", "drop", "here", "there", "create"} /\ made \subseteq Secrets
  /\ reap \in {"idle", "sweep", "remove", "purge"}
  /\ migSpent \in [run : Nat, error : Nat]

MigInit ==
  /\ job = NoJob /\ secrets = {} /\ start = "idle" /\ made = {}
  /\ reap = "idle" /\ found = NoJob /\ migSpent = [run |-> 0, error |-> 0]

Errs == migSpent.error < MaxMigErrors /\ migSpent' = [migSpent EXCEPT !.error = @ + 1]

\* What removing these secrets leaves.
Without(gone) == secrets \ (gone \ job.held)

JobEnds == /\ job.state = "running" /\ job' = [job EXCEPT !.state = "done"]
           /\ UNCHANGED <<secrets, start, made, reap, found, migSpent>>
JobAges == /\ job.state = "done" /\ job' = [job EXCEPT !.state = "old"]
           /\ UNCHANGED <<secrets, start, made, reap, found, migSpent>>

-----------------------------------------------------------------------------
(* MongoComponent.start_migration.                                         *)

\* The old job goes first, unless it runs; that it could not be removed is not looked at.
PanelChecks ==
  /\ start = "idle" /\ job.state # "running" /\ migSpent.run < MaxRuns
  /\ start' = "drop"
  /\ \/ job' = NoJob /\ migSpent' = [migSpent EXCEPT !.run = @ + 1]
     \/ /\ job # NoJob /\ migSpent.error < MaxMigErrors /\ job' = job
        /\ migSpent' = [run |-> migSpent.run + 1, error |-> migSpent.error + 1]
  /\ UNCHANGED <<secrets, made, reap, found>>

PanelDrops ==
  /\ start = "drop" /\ start' = "here" /\ secrets' = Without(secrets)
  /\ UNCHANGED <<job, made, reap, found, migSpent>>

\* The version after the newest there is.
Version(end) == Max({0} \cup {s[2] : s \in {t \in secrets : t[1] = end}}) + 1

\* This cluster's string, then the one of Atlas.
PanelMakes(end) ==
  /\ start = end
  /\ \/ LET new == <<end, Version(end)>>
        IN /\ made' = made \cup {new} /\ secrets' = secrets \cup {new}
           /\ start' = (IF end = "here" THEN "there" ELSE "create")
           /\ migSpent' = migSpent
     \/ Errs /\ start' = "idle" /\ made' = {} /\ secrets' = secrets
  /\ UNCHANGED <<job, reap, found>>

\* Refused when a job of the name, or not both secrets exist.
PanelCreates ==
  /\ start = "create" /\ start' = "idle" /\ made' = {}
  /\ \/ /\ job = NoJob /\ made \subseteq secrets
        /\ job' = [id |-> migSpent.run, state |-> "running", held |-> made]
        /\ migSpent' = migSpent
     \/ /\ job # NoJob \/ ~(made \subseteq secrets)
        /\ UNCHANGED <<job, migSpent>>
     \/ Errs /\ job' = job
  /\ UNCHANGED <<secrets, reap, found>>

-----------------------------------------------------------------------------
(* dataguard._reap_finished_migrations.                                    *)

ReapFinds ==
  /\ reap = "idle" /\ job # NoJob /\ found' = job /\ reap' = "sweep"
  /\ UNCHANGED <<job, secrets, start, made, migSpent>>

\* Secrets the job found does not name.
ReapSweeps ==
  /\ reap = "sweep" /\ secrets' = Without(secrets \ found.held)
  /\ IF found.state = "old" THEN reap' = "remove" /\ found' = found
                            ELSE reap' = "idle" /\ found' = NoJob
  /\ UNCHANGED <<job, start, made, migSpent>>

\* Mutant of Target: by its name.
TargetByName == job # NoJob

\* The service is removed by its id.
Target == job # NoJob /\ job.id = found.id

ReapRemoves ==
  /\ reap = "remove"
  /\ \/ Target /\ job' = NoJob /\ reap' = "purge" /\ UNCHANGED <<found, migSpent>>
     \/ /\ ~Target \/ migSpent.error < MaxMigErrors
        /\ migSpent' = [migSpent EXCEPT !.error = @ + IF Target THEN 1 ELSE 0]
        /\ job' = job /\ reap' = "idle" /\ found' = NoJob
  /\ UNCHANGED <<secrets, start, made>>

\* Mutant of ReapPurges: the secrets were swept already.
ReapPurgesNone ==
  /\ reap = "purge" /\ reap' = "idle" /\ found' = NoJob
  /\ UNCHANGED <<job, secrets, start, made, migSpent>>

ReapPurges ==
  /\ reap = "purge" /\ reap' = "idle" /\ found' = NoJob
  /\ secrets' = Without(secrets)
  /\ UNCHANGED <<job, start, made, migSpent>>

MigNext ==
  \/ JobEnds \/ JobAges \/ PanelChecks \/ PanelDrops \/ PanelCreates
  \/ \E end \in Ends : PanelMakes(end)
  \/ ReapFinds \/ ReapSweeps \/ ReapRemoves \/ ReapPurges

\* Jobs end, requests are answered, and the loop runs for ever.
MigFairness ==
  /\ WF_migVars(JobEnds) /\ WF_migVars(JobAges)
  /\ WF_migVars(PanelDrops \/ PanelCreates \/ \E end \in Ends : PanelMakes(end))
  /\ WF_migVars(ReapFinds \/ ReapSweeps \/ ReapRemoves \/ ReapPurges)

-----------------------------------------------------------------------------
\* Once the last migration is over no connection string is left, unless a call failed or
\* the reaper took the first secret of a run before the second was made.
FirstIsGone == start = "there" /\ ~(made \subseteq secrets)
CredentialsGo == [](migSpent.error = 0 /\ ~FirstIsGone) => <>[](secrets = {})

\* A running migration is left alone by the panel and by the reaper, with the secrets it
\* uses, whatever job the reaper had found.  (_reap_finished_migrations.)
RunningUntouched ==
  [][job.state = "running" =>
       /\ job' \in {job, [job EXCEPT !.state = "done"]}
       /\ job.held \subseteq secrets /\ job.held \subseteq secrets']_migVars
=============================================================================
