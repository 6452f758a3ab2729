---------------------------- MODULE UpkeepProofs ----------------------------
(***************************************************************************)
(* Proofs about Upkeep: type correctness of the four chores, the migration *)
(* that nobody touches while it runs, and the snapshots a retention must   *)
(* not touch.                                                              *)
(***************************************************************************)
EXTENDS Upkeep, FiniteSetTheorems, WellFoundedInduction, TLAPS

\* A non-empty set of naturals with a bound has a greatest element.
LEMMA GreatestExists ==
  ASSUME NEW n \in Nat, NEW S \in SUBSET (0..n), S # {}
  PROVE  \E x \in S : \A y \in S : x >= y
<1> DEFINE D == {d \in Nat : n - d \in S}
<1>1. PICK s \in S : TRUE
  OBVIOUS
<1>2. n - s \in Nat /\ n - (n - s) = s
  OBVIOUS
<1>3. D \subseteq Nat /\ D # {}
  BY <1>1, <1>2
<1>4. PICK d \in D : \A y \in D : ~ (<<y, d>> \in OpToRel(<, Nat))
  BY <1>3, WFMin, NatLessThanWellFounded
<1>5. \A y \in D : ~(y < d)
  BY <1>3, <1>4 DEF OpToRel
<1>6. n - d \in S
  OBVIOUS
<1>7. \A y \in S : n - d >= y
  <2> SUFFICES ASSUME NEW y \in S PROVE n - d >= y
    OBVIOUS
  <2>1. n - y \in Nat /\ n - (n - y) = y
    OBVIOUS
  <2>2. n - y \in D
    BY <2>1
  <2>3. QED
    BY <1>3, <1>5, <2>1, <2>2
<1>8. QED
  BY <1>6, <1>7

-----------------------------------------------------------------------------
(* Types of the four chores.                                               *)

\* Certificates hold what they can, and are counted.
LEMMA CertTypes == CertTypeOK /\ CertNext => CertTypeOK'
<1> SUFFICES ASSUME CertTypeOK, CertNext PROVE CertTypeOK'
  OBVIOUS
<1> USE DEF CertTypeOK, Contents, Idle
<1>1. ASSUME NEW e \in CertEvents, CertSpend(e) PROVE certSpent' \in [CertEvents -> Nat]
  BY <1>1 DEF CertSpend
<1>2. CASE DgFails
  BY <1>1, <1>2 DEF DgFails, CertEvents
<1>3. CASE PanelRenders
  <2>1. newest' \in [CertMembers -> Contents]
    BY <1>3 DEF PanelRenders, Issued
  <2>2. QED
    BY <1>1, <1>3, <2>1 DEF PanelRenders, CertEvents
<1>4. CASE PanelFails
  <2>1. certSpent' \in [CertEvents -> Nat]
    <3>1. /\ certSpent["save"] + 1 \in Nat /\ certSpent["error"] + 1 \in Nat
          /\ {"save", "error"} \subseteq CertEvents
      BY DEF CertEvents
    <3>2. certSpent' = [certSpent EXCEPT !["save"] = @ + 1, !["error"] = @ + 1]
      BY <1>4 DEF PanelFails
    <3>3. QED
      BY <3>1, <3>2
  <2>2. QED
    BY <1>4, <2>1 DEF PanelFails, Issued
<1>5. CASE PanelDeploys
  BY <1>5 DEF PanelDeploys
<1>6. ASSUME NEW m \in CertMembers, BecomesDue(m) PROVE CertTypeOK'
  BY <1>1, <1>6 DEF BecomesDue, Aged, CertEvents
<1>7. ASSUME NEW m \in CertMembers,
             DgWrites(m) \/ DgMakesSecret(m) \/ DgSwaps(m)
      PROVE  CertTypeOK'
  BY <1>7 DEF DgWrites, DgMakesSecret, DgSwaps
<1>8. QED
  BY <1>2, <1>3, <1>4, <1>5, <1>6, <1>7 DEF CertNext

\* Consoles, their stamps and their pages.
LEMMA ViewTypes == ViewTypeOK /\ ViewNext => ViewTypeOK'
<1> SUFFICES ASSUME ViewTypeOK, NEW v \in Consoles,
                    \/ Opens(v) \/ Uses(v) \/ Polls(v) \/ Leaves(v) \/ Starts(v)
                    \/ Stops(v) \/ Idles(v) \/ DgFindsIdle(v) \/ DgStops(v)
             PROVE  ViewTypeOK'
  BY DEF ViewNext
<1> USE DEF ViewTypeOK
<1>1. ASSUME NEW opening \in {0, 1}, Requests(v, opening) PROVE ViewTypeOK'
  <2>1. viewSpent' \in [open : Nat, error : Nat]
    BY <1>1 DEF Requests
  <2>2. QED
    BY <1>1, <2>1 DEF Requests
<1>2. CASE Opens(v) \/ Uses(v) \/ Polls(v)
  BY <1>1, <1>2 DEF Opens, Uses, Polls
<1>3. CASE Leaves(v) \/ Starts(v) \/ Stops(v) \/ Idles(v) \/ DgFindsIdle(v) \/ DgStops(v)
  BY <1>3 DEF Leaves, Starts, Stops, Idles, DgFindsIdle, DgStops
<1>4. QED
  BY <1>2, <1>3

\* Snapshots are among those taken, and those being deleted too.
LEMMA BakTypes == BakTypeOK /\ BakNext => BakTypeOK'
<1> SUFFICES ASSUME BakTypeOK, BakNext PROVE BakTypeOK'
  OBVIOUS
<1> USE BackupConstants DEF BackupConstants, BakTypeOK
<1>1. ASSUME NEW e \in BakEvents, BakSpend(e) PROVE bakSpent' \in [BakEvents -> Nat]
  BY <1>1 DEF BakSpend
<1>2. CASE GrowsOld \/ DgForgets
  BY <1>1, <1>2 DEF GrowsOld, DgForgets, BakEvents
<1>3. CASE DgBacksUp \/ PanelBacksUp
  <2>1. bakSpent' \in [BakEvents -> Nat]
    BY <1>1, <1>3 DEF DgBacksUp, PanelBacksUp, BakEvents
  <2>2. CASE UNCHANGED <<taken, snapshots>>
    BY <1>3, <2>1, <2>2 DEF DgBacksUp, PanelBacksUp
  <2>3. CASE taken < MaxSnapshots /\ taken' = taken + 1 /\ snapshots' = snapshots \cup {taken'}
    <3>1. taken' \in 0..MaxSnapshots /\ 1..taken \subseteq 1..taken' /\ taken' \in 1..taken'
      BY <2>3
    <3>2. QED
      BY <1>3, <2>1, <2>3, <3>1 DEF DgBacksUp, PanelBacksUp
  <2>4. QED
    BY <1>3, <2>2, <2>3 DEF DgBacksUp, PanelBacksUp
<1>4. CASE DgLists
  <2>1. Excess \subseteq snapshots
    BY DEF Excess, Oldest
  <2>2. bakSpent' \in [BakEvents -> Nat]
    BY <1>1, <1>4 DEF DgLists, BakEvents
  <2>3. doomed' \subseteq snapshots /\ UNCHANGED <<snapshots, taken, last>>
    BY <1>4, <2>1 DEF DgLists
  <2>4. backup' \in {"idle", "list", "delete"}
    BY <1>4 DEF DgLists
  <2>5. QED
    BY <2>2, <2>3, <2>4
<1>5. CASE DgDeletes
  <2>1. Oldest(doomed, 1) \subseteq doomed
    BY DEF Oldest
  <2>2. bakSpent' \in [BakEvents -> Nat]
    BY <1>1, <1>5 DEF DgDeletes, BakEvents
  <2>3. doomed' \subseteq doomed /\ snapshots' \subseteq snapshots /\ UNCHANGED <<taken, last>>
    BY <1>5, <2>1 DEF DgDeletes
  <2>4. backup' \in {"idle", "list", "delete"}
    BY <1>5 DEF DgDeletes
  <2>5. QED
    BY <2>2, <2>3, <2>4
<1>6. QED
  BY <1>2, <1>3, <1>4, <1>5 DEF BakNext

-----------------------------------------------------------------------------
(* A migration's secrets.                                                  *)

\* A run makes at most one version of each string, so none is numbered beyond the runs
\* begun.
Begun(end) == migSpent.run - IF start \in {"drop", "here", end} THEN 1 ELSE 0
VersionsCounted ==
  /\ \A s \in secrets : s[2] <= Begun(s[1])
  /\ migSpent.run <= MaxRuns /\ (start # "idle" => migSpent.run >= 1)

\* The next version is one that a run may make.
LEMMA VersionFollows ==
  ASSUME MigTypeOK, VersionsCounted, NEW end \in Ends, start = end
  PROVE  Version(end) \in 1..migSpent.run
<1> DEFINE S == {0} \cup {s[2] : s \in {t \in secrets : t[1] = end}}
<1>1. MaxRuns \in Nat /\ migSpent.run \in Nat
  BY MigConstants DEF MigConstants, MigTypeOK
<1>2. \A s \in secrets : s[2] \in 1..MaxRuns
  BY DEF MigTypeOK, Secrets
<1>3. S \in SUBSET (0..MaxRuns) /\ S # {}
  BY <1>1, <1>2
<1>4. \E x \in S : \A y \in S : x >= y
  BY <1>1, <1>3, GreatestExists
<1>5. Max(S) \in S
  BY <1>4 DEF Max
<1>6. Begun(end) = migSpent.run - 1 /\ migSpent.run >= 1
  BY DEF Begun, VersionsCounted, Ends
<1>7. \A v \in S : v <= migSpent.run - 1
  BY <1>1, <1>6 DEF VersionsCounted
<1>8. Version(end) = Max(S) + 1
  BY DEF Version
<1>9. Max(S) \in Nat /\ Max(S) <= migSpent.run - 1
  BY <1>1, <1>3, <1>5, <1>7
<1>10. QED
  BY <1>1, <1>8, <1>9

\* Jobs, secrets and the reaper: the count bounds the versions.
LEMMA MigTypes ==
  MigTypeOK /\ VersionsCounted /\ MigNext => MigTypeOK' /\ VersionsCounted'
<1> SUFFICES ASSUME MigTypeOK, VersionsCounted, MigNext PROVE MigTypeOK' /\ VersionsCounted'
  OBVIOUS
<1> USE MigConstants DEF MigConstants, MigTypeOK, VersionsCounted
<1>0. \A s \in secrets : s[1] \in Ends /\ s[2] \in Nat
  BY DEF Secrets
<1>1. CASE JobEnds \/ JobAges
  <2>1. job' \in Jobs
    BY <1>1 DEF JobEnds, JobAges, Jobs, NoJob, States
  <2>2. UNCHANGED <<secrets, start, made, reap, found, migSpent>>
    BY <1>1 DEF JobEnds, JobAges
  <2>3. \A e \in Ends : Begun(e)' = Begun(e)
    BY <2>2 DEF Begun
  <2>4. \A s \in secrets' : s[2] <= Begun(s[1])'
    BY <1>0, <2>2, <2>3
  <2>5. VersionsCounted'
    <3>1. migSpent'.run <= MaxRuns /\ (start' # "idle" => migSpent'.run >= 1)
      BY <2>2
    <3>2. QED
      BY <2>4, <3>1
  <2>6. MigTypeOK'
    BY <2>1, <2>2
  <2>7. QED
    BY <2>5, <2>6
<1>2. CASE PanelChecks
  <2>1. /\ UNCHANGED <<secrets, made, reap, found>> /\ start = "idle" /\ start' = "drop"
        /\ job' \in {NoJob, job} /\ migSpent.run < MaxRuns
        /\ migSpent' \in [run : Nat, error : Nat] /\ migSpent'.run = migSpent.run + 1
    BY <1>2 DEF PanelChecks
  <2>2. \A e \in Ends : Begun(e)' = Begun(e)
    BY <2>1 DEF Begun, Ends
  <2>3. \A s \in secrets' : s[2] <= Begun(s[1])'
    BY <1>0, <2>1, <2>2
  <2>4. job' \in Jobs
    BY <2>1 DEF Jobs
  <2>5. QED
    BY <2>1, <2>3, <2>4
<1>3. CASE PanelDrops
  <2>1. /\ UNCHANGED <<job, made, reap, found, migSpent>> /\ secrets' \subseteq secrets
        /\ start = "drop" /\ start' = "here"
    BY <1>3 DEF PanelDrops, Without
  <2>2. \A e \in Ends : Begun(e)' = Begun(e)
    BY <2>1 DEF Begun, Ends
  <2>3. \A s \in secrets' : s[2] <= Begun(s[1])'
    BY <1>0, <2>1, <2>2
  <2>4. QED
    BY <2>1, <2>3
<1>4. ASSUME NEW end \in Ends, PanelMakes(end) PROVE MigTypeOK' /\ VersionsCounted'
  <2>1. CASE Errs /\ start' = "idle" /\ made' = {} /\ secrets' = secrets
    <3>1. migSpent' \in [run : Nat, error : Nat] /\ migSpent'.run = migSpent.run
      BY <2>1 DEF Errs
    <3>2. \A e \in Ends : Begun(e)' = migSpent.run /\ Begun(e) <= migSpent.run
      BY <2>1, <3>1 DEF Begun, Ends
    <3>3. \A e \in Ends : Begun(e) \in Int
      BY DEF Begun
    <3>4. \A s \in secrets' : s[2] <= Begun(s[1])'
      BY <1>0, <2>1, <3>2, <3>3
    <3>5. VersionsCounted'
      BY <2>1, <3>1, <3>4
    <3>6. MigTypeOK'
      BY <1>4, <2>1, <3>1 DEF PanelMakes
    <3>7. QED
      BY <3>5, <3>6
  <2>2. ASSUME NEW new, new = <<end, Version(end)>>, made' = made \cup {new},
               secrets' = secrets \cup {new}, migSpent' = migSpent,
               start' = IF end = "here" THEN "there" ELSE "create"
        PROVE  MigTypeOK' /\ VersionsCounted'
    <3>1. Version(end) \in 1..migSpent.run
      BY <1>4, VersionFollows DEF PanelMakes
    <3>2. new \in Secrets /\ new[1] = end /\ new[2] <= migSpent.run
      BY <2>2, <3>1 DEF Secrets
    <3>3. Begun(end)' = migSpent.run
      BY <2>2, <1>4 DEF Begun, Ends
    <3>4. \A e \in Ends : Begun(e) <= Begun(e)' /\ Begun(e) \in Int /\ Begun(e)' \in Int
      BY <2>2, <1>4 DEF Begun, Ends, PanelMakes
    <3>5. \A s \in secrets' : s[2] <= Begun(s[1])'
      BY <1>0, <2>2, <3>2, <3>3, <3>4
    <3>6. start' \in {"idle", "drop", "here", "there", "create"}
      BY <2>2
    <3>7. UNCHANGED <<job, reap, found>>
      BY <1>4 DEF PanelMakes
    <3>8. migSpent.run >= 1
      BY <1>4 DEF PanelMakes, Ends
    <3>9. QED
      BY <2>2, <3>2, <3>5, <3>6, <3>7, <3>8
  <2>3. QED
    BY <1>4, <2>1, <2>2 DEF PanelMakes
<1>5. CASE PanelCreates
  <2>1. /\ migSpent' \in [run : Nat, error : Nat] /\ migSpent'.run = migSpent.run
        /\ start = "create" /\ start' = "idle"
    BY <1>5 DEF PanelCreates, Errs
  <2>2. \A e \in Ends : Begun(e)' = Begun(e)
    BY <2>1 DEF Begun, Ends
  <2>3. \A s \in secrets' : s[2] <= Begun(s[1])'
    BY <1>0, <1>5, <2>2 DEF PanelCreates
  <2>4. job' \in Jobs
    BY <1>5 DEF PanelCreates, Jobs, States
  <2>5. QED
    BY <1>5, <2>1, <2>3, <2>4 DEF PanelCreates
<1>6. CASE ReapFinds \/ ReapSweeps \/ ReapPurges
  BY <1>6 DEF ReapFinds, ReapSweeps, ReapPurges, Without, Jobs, Begun
<1>7. CASE ReapRemoves
  BY <1>7 DEF ReapRemoves, Jobs, Begun
<1>8. QED
  BY <1>1, <1>2, <1>3, <1>4, <1>5, <1>6, <1>7 DEF MigNext

-----------------------------------------------------------------------------
\* A chore works on its own state and leaves the others alone; each keeps its types.
UpkeepInv == TypeOK /\ VersionsCounted

LEMMA UpkeepInvStep == UpkeepInv /\ [Next]_upkeepVars => UpkeepInv'
<1> SUFFICES ASSUME UpkeepInv, [Next]_upkeepVars PROVE UpkeepInv'
  OBVIOUS
<1> USE DEF UpkeepInv, TypeOK
<1>1. UNCHANGED certVars => CertTypeOK'
  BY DEF certVars, CertTypeOK
<1>2. UNCHANGED viewVars => ViewTypeOK'
  BY DEF viewVars, ViewTypeOK
<1>3. UNCHANGED bakVars => BakTypeOK'
  BY DEF bakVars, BakTypeOK
<1>4. UNCHANGED migVars => MigTypeOK' /\ VersionsCounted'
  BY DEF migVars, MigTypeOK, VersionsCounted, Begun
<1>5. CASE UNCHANGED upkeepVars
  BY <1>1, <1>2, <1>3, <1>4, <1>5 DEF upkeepVars
<1>6. CASE Next
  BY <1>1, <1>2, <1>3, <1>4, <1>6, CertTypes, ViewTypes, BakTypes, MigTypes DEF Next
<1>7. QED
  BY <1>5, <1>6

\* Where each chore starts.
LEMMA UpkeepInvInit == Init => UpkeepInv
<1> SUFFICES ASSUME Init PROVE UpkeepInv
  OBVIOUS
<1>1. CertTypeOK
  BY DEF Init, CertInit, CertTypeOK, Contents, Idle
<1>2. ViewTypeOK
  <2>1. viewSpent \in [open : Nat, error : Nat]
    BY DEF Init, ViewInit
  <2>2. QED
    BY <2>1 DEF Init, ViewInit, ViewTypeOK
<1>3. BakTypeOK
  <2>1. MaxSnapshots \in Nat
    BY BackupConstants DEF BackupConstants
  <2>2. QED
    BY <2>1 DEF Init, BakInit, BakTypeOK
<1>4. MigTypeOK /\ VersionsCounted
  <2>1. MaxRuns \in Nat
    BY MigConstants DEF MigConstants
  <2>2. QED
    BY <2>1 DEF Init, MigInit, MigTypeOK, VersionsCounted, Jobs, Begun
<1>5. QED
  BY <1>1, <1>2, <1>3, <1>4 DEF UpkeepInv, TypeOK, Init

\* Every value a chore writes has its type: no snapshot beyond those taken, and no
\* version of a secret beyond the runs begun.
THEOREM TypeCorrect == Spec => []TypeOK
<1>1. UpkeepInv => TypeOK
  BY DEF UpkeepInv
<1>2. QED
  BY <1>1, UpkeepInvInit, UpkeepInvStep, PTL DEF Spec

-----------------------------------------------------------------------------
(* Migrations: what is left alone while it runs.                           *)

\* Jobs are numbered in the order they begin, the reaper has found the one there is at
\* an earlier time, or one before it, and a job's secrets are there as long as it is.
RunsInOrder ==
  /\ job.id <= migSpent.run /\ found.id <= migSpent.run
  /\ start # "idle" => job.id < migSpent.run /\ found.id < migSpent.run
  /\ job.id = found.id /\ found.state = "old" => job.state = "old"
  /\ reap = "remove" => found.state = "old"
  /\ job.held \subseteq secrets

\* What a step may do to a job that runs.
LeftAlone == job.state = "running" =>
               /\ job' \in {job, [job EXCEPT !.state = "done"]}
               /\ job.held \subseteq secrets /\ job.held \subseteq secrets'

\* A step touches no running job: the panel does not start, and what the reaper removes
\* has long ended.
LEMMA RunsStep ==
  MigTypeOK /\ RunsInOrder /\ MigNext => RunsInOrder' /\ LeftAlone
<1> SUFFICES ASSUME MigTypeOK, RunsInOrder, MigNext PROVE RunsInOrder' /\ LeftAlone
  OBVIOUS
<1> USE DEF MigTypeOK, RunsInOrder, LeftAlone
<1>1. /\ job.id \in Nat /\ found.id \in Nat /\ migSpent.run \in Nat
      /\ NoJob.id = 0 /\ NoJob.state = "none" /\ NoJob.held = {}
      /\ job.id = 0 => job = NoJob
  BY MigConstants DEF MigConstants, Jobs, NoJob
<1>2. CASE JobEnds \/ JobAges
  <2>1. /\ job'.id = job.id /\ job'.held = job.held /\ job'.state \in {"done", "old"}
        /\ job.state = "running" => job' = [job EXCEPT !.state = "done"]
        /\ job.state = "done" => job'.state = "old"
        /\ job.state \in {"running", "done"}
    BY <1>2 DEF JobEnds, JobAges, Jobs, NoJob
  <2>2. UNCHANGED <<secrets, start, made, reap, found, migSpent>>
    BY <1>2 DEF JobEnds, JobAges
  <2>3. QED
    BY <2>1, <2>2
<1>3. CASE PanelChecks
  <2>1. migSpent'.run = migSpent.run + 1 /\ job' \in {NoJob, job} /\ job.state # "running"
    BY <1>3 DEF PanelChecks
  <2>2. UNCHANGED <<secrets, made, reap, found>>
    BY <1>3 DEF PanelChecks
  <2>3. found.state = "old" => found.id # 0
    BY DEF Jobs, NoJob
  <2>4. QED
    BY <1>1, <2>1, <2>2, <2>3
<1>4. CASE PanelDrops
  BY <1>1, <1>4 DEF PanelDrops, Without
<1>5. ASSUME NEW end \in Ends, PanelMakes(end) PROVE RunsInOrder' /\ LeftAlone
  <2>1. UNCHANGED <<job, reap, found>> /\ migSpent'.run = migSpent.run /\ start # "idle"
    BY <1>5 DEF PanelMakes, Errs, Ends
  <2>2. secrets \subseteq secrets'
    BY <1>5 DEF PanelMakes
  <2>3. QED
    BY <1>1, <2>1, <2>2
<1>6. CASE PanelCreates
  <2>1. /\ UNCHANGED <<secrets, reap, found>> /\ migSpent'.run = migSpent.run
        /\ start = "create" /\ start' = "idle"
    BY <1>6 DEF PanelCreates, Errs
  <2>2. CASE job' = job
    BY <1>1, <2>1, <2>2
  <2>3. CASE /\ job = NoJob /\ made \subseteq secrets
             /\ job' = [id |-> migSpent.run, state |-> "running", held |-> made]
    BY <1>1, <2>1, <2>3
  <2>4. QED
    BY <1>6, <2>2, <2>3 DEF PanelCreates
<1>7. CASE ReapFinds
  BY <1>1, <1>7 DEF ReapFinds
<1>8. CASE ReapSweeps \/ ReapPurges
  <2>1. /\ UNCHANGED <<job, start, migSpent>> /\ found' \in {found, NoJob}
        /\ reap' = "remove" => found' = found /\ found.state = "old"
    BY <1>8 DEF ReapSweeps, ReapPurges
  <2>2. job.held \subseteq secrets'
    BY <1>8 DEF ReapSweeps, ReapPurges, Without
  <2>3. QED
    BY <1>1, <2>1, <2>2
<1>9. CASE ReapRemoves
  <2>1. UNCHANGED <<secrets, start>> /\ migSpent'.run = migSpent.run /\ reap' # "remove"
    BY <1>9 DEF ReapRemoves
  <2>2. \/ job' = job /\ found' = NoJob
        \/ Target /\ job' = NoJob /\ found' = found /\ found.state = "old"
    BY <1>9 DEF ReapRemoves
  <2>3. CASE job' = job /\ found' = NoJob
    BY <1>1, <2>1, <2>3
  <2>4. CASE Target /\ job' = NoJob /\ found' = found /\ found.state = "old"
    <3>1. job.state = "old" /\ found.id # 0
      BY <1>1, <2>4 DEF Target
    <3>2. QED
      BY <1>1, <2>1, <2>4, <3>1
  <2>5. QED
    BY <2>2, <2>3, <2>4
<1>10. QED
  BY <1>2, <1>3, <1>4, <1>5, <1>6, <1>7, <1>8, <1>9 DEF MigNext

\* A running migration is left alone by the panel and by the reaper, with the secrets it
\* uses, whatever job the reaper had found.  (_reap_finished_migrations.)
THEOREM RunningStays == Spec => RunningUntouched
<1> DEFINE I == UpkeepInv /\ RunsInOrder
<1>1. Init => I
  <2>1. Init => RunsInOrder
    BY DEF Init, MigInit, RunsInOrder, NoJob
  <2>2. QED
    BY <2>1, UpkeepInvInit
<1>2. I /\ [Next]_upkeepVars => I' /\ [LeftAlone]_migVars
  <2> SUFFICES ASSUME I, [Next]_upkeepVars PROVE RunsInOrder' /\ [LeftAlone]_migVars
    BY UpkeepInvStep
  <2>1. CASE MigNext
    BY <2>1, RunsStep DEF UpkeepInv, TypeOK
  <2>2. CASE UNCHANGED migVars
    BY <2>2 DEF migVars, RunsInOrder
  <2>3. QED
    BY <2>1, <2>2 DEF Next, upkeepVars
<1>3. QED
  BY <1>1, <1>2, PTL DEF Spec, RunningUntouched, LeftAlone

-----------------------------------------------------------------------------
(* Backups: what a retention deletes.                                      *)

\* What is being deleted is older than everything else, of which enough is left.
DoomedAreOld ==
  /\ backup # "delete" => doomed = {}
  /\ doomed \subseteq snapshots
  /\ doomed # {} => Cardinality(snapshots \ doomed) >= Keep
  /\ \A d \in doomed, s \in snapshots \ doomed : d < s

\* There are finitely many snapshots.
LEMMA FiniteSnapshots ==
  ASSUME NEW n \in Nat, NEW S \in SUBSET (1..n)
  PROVE  IsFiniteSet(S) /\ Cardinality(S) \in Nat
<1>1. IsFiniteSet(1..n)
  BY FS_Interval
<1>2. QED
  BY <1>1, FS_Subset, FS_CardinalityType

\* What exceeds the limit is the oldest, and as many as are to be kept are left.
LEMMA ExcessIsOld ==
  ASSUME BakTypeOK, Excess # {}
  PROVE  /\ Excess \subseteq snapshots
         /\ Cardinality(snapshots \ Excess) >= Keep
         /\ \A d \in Excess, s \in snapshots \ Excess : d < s
<1> DEFINE n == Cardinality(snapshots) - Keep
           UpTo(s) == {t \in snapshots : t <= s}
<1>1. Excess = {s \in snapshots : Cardinality(UpTo(s)) <= n}
  BY DEF Excess, Oldest
<1>2. /\ MaxSnapshots \in Nat /\ Keep \in Nat /\ taken \in 0..MaxSnapshots
      /\ snapshots \subseteq 1..taken
  BY BackupConstants DEF BackupConstants, BakTypeOK
<1>3. \A S \in SUBSET snapshots : IsFiniteSet(S) /\ Cardinality(S) \in Nat
  <2>1. taken \in Nat
    BY <1>2
  <2>2. QED
    BY <1>2, <2>1, FiniteSnapshots
<1>4. Excess \in SUBSET (0..MaxSnapshots) /\ Excess \subseteq snapshots
  <2>1. Excess \subseteq snapshots
    BY <1>1
  <2>2. 1..taken \subseteq 0..MaxSnapshots
    BY <1>2
  <2>3. QED
    BY <1>2, <2>1, <2>2
<1>5. PICK g \in Excess : \A s \in Excess : g >= s
  BY <1>2, <1>4, GreatestExists
<1>6. Cardinality(Excess) <= n
  <2>1. Excess \subseteq UpTo(g)
    BY <1>4, <1>5
  <2>2. IsFiniteSet(UpTo(g)) /\ Cardinality(UpTo(g)) \in Nat /\ Cardinality(Excess) \in Nat
    BY <1>3, <1>4
  <2>3. Cardinality(Excess) <= Cardinality(UpTo(g))
    BY <2>1, <2>2, FS_Subset
  <2>4. Cardinality(UpTo(g)) <= n
    BY <1>1, <1>5
  <2>5. n \in Int
    BY <1>2, <1>3
  <2> HIDE DEF n, UpTo
  <2>6. QED
    BY <2>2, <2>3, <2>4, <2>5
<1>7. Cardinality(snapshots \ Excess) >= Keep
  <2>1. snapshots \cap Excess = Excess
    BY <1>4
  <2>2. Cardinality(snapshots \ Excess) = Cardinality(snapshots) - Cardinality(Excess)
    <3>1. IsFiniteSet(snapshots)
      BY <1>3
    <3>2. Cardinality(snapshots \ Excess)
            = Cardinality(snapshots) - Cardinality(snapshots \cap Excess)
      BY <3>1, FS_Difference
    <3>3. QED
      BY <2>1, <3>2
  <2>3. Cardinality(Excess) \in Nat
    BY <1>3, <1>4
  <2>4. QED
    BY <1>2, <1>3, <1>6, <2>2, <2>3
<1>8. ASSUME NEW d \in Excess, NEW s \in snapshots \ Excess PROVE d < s
  <2>1. d \in Nat /\ s \in Nat
    BY <1>2, <1>4
  <2>2. SUFFICES ASSUME s <= d PROVE FALSE
    BY <2>1
  <2>3. UpTo(s) \subseteq UpTo(d)
    <3>1. \A t \in snapshots : t \in Nat
      BY <1>2
    <3>2. \A t \in snapshots : t <= s => t <= d
      BY <2>1, <2>2, <3>1
    <3>3. QED
      BY <3>2
  <2>4. Cardinality(UpTo(s)) <= Cardinality(UpTo(d))
    BY <1>3, <2>3, FS_Subset
  <2>5. Cardinality(UpTo(s)) \in Nat /\ Cardinality(UpTo(d)) \in Nat
    BY <1>3
  <2>6. Cardinality(UpTo(s)) <= n
    BY <1>1, <1>2, <1>3, <2>4, <2>5
  <2>7. QED
    BY <1>1, <2>6
<1>9. QED
  BY <1>4, <1>7, <1>8

\* What a step of the backups does to the snapshots it may not touch.
Untouched == \A s \in snapshots \ snapshots' :
               Cardinality({t \in snapshots' : t > s}) >= Keep

\* Each step keeps what is deleted old, and deletes nothing that is to be kept.
LEMMA RetentionStep ==
  BakTypeOK /\ DoomedAreOld /\ BakNext => DoomedAreOld' /\ Untouched
<1> SUFFICES ASSUME BakTypeOK, DoomedAreOld, BakNext PROVE DoomedAreOld' /\ Untouched
  OBVIOUS
<1> USE DEF DoomedAreOld, Untouched
<1>1. taken' \in Nat /\ snapshots' \subseteq 1..taken'
  BY BakTypes, BackupConstants DEF BackupConstants, BakTypeOK
<1>2. \A S \in SUBSET snapshots' : IsFiniteSet(S) /\ Cardinality(S) \in Nat
  BY <1>1, FiniteSnapshots
<1>3. Keep \in Nat /\ taken \in Nat /\ snapshots \subseteq 1..taken
  BY BackupConstants DEF BackupConstants, BakTypeOK
<1>4. \A S \in SUBSET snapshots : IsFiniteSet(S) /\ Cardinality(S) \in Nat
  BY <1>3, FiniteSnapshots
<1>5. CASE GrowsOld \/ DgForgets
  BY <1>5 DEF GrowsOld, DgForgets
<1>6. CASE DgBacksUp
  BY <1>6 DEF DgBacksUp
<1>7. CASE DgLists
  BY <1>7, ExcessIsOld DEF DgLists
<1>8. CASE PanelBacksUp
  <2>1. /\ taken' = taken + 1 /\ snapshots' = snapshots \cup {taken'}
        /\ UNCHANGED <<backup, doomed>>
    BY <1>8 DEF PanelBacksUp
  <2>2. taken' \notin snapshots /\ snapshots \ doomed \subseteq snapshots' \ doomed
        /\ \A d \in doomed : d < taken'
    BY <1>3, <2>1
  <2>3. Cardinality(snapshots \ doomed) <= Cardinality(snapshots' \ doomed)
    BY <1>2, <2>2, FS_Subset
  <2>4. /\ Cardinality(snapshots \ doomed) \in Nat
        /\ Cardinality(snapshots' \ doomed) \in Nat
    BY <1>2, <1>4
  <2>5. doomed # {} => Cardinality(snapshots' \ doomed) >= Keep
    BY <1>3, <2>3, <2>4
  <2>6. QED
    BY <2>1, <2>2, <2>5
<1>9. CASE DgDeletes
  <2>1. CASE doomed' = {} /\ snapshots' = snapshots
    BY <1>9, <2>1 DEF DgDeletes
  <2>2. ASSUME NEW s \in doomed, snapshots' = snapshots \ {s}, doomed' = doomed \ {s}
        PROVE  DoomedAreOld' /\ Untouched
    <3>1. snapshots' \ doomed' = snapshots \ doomed
      BY <2>2
    <3>2. snapshots \ doomed \subseteq {t \in snapshots' : t > s}
      BY <1>3, <2>2
    <3>3. Cardinality(snapshots \ doomed) <= Cardinality({t \in snapshots' : t > s})
      BY <1>2, <3>2, FS_Subset
    <3>4. /\ Cardinality(snapshots \ doomed) \in Nat
          /\ Cardinality({t \in snapshots' : t > s}) \in Nat
      BY <1>2, <1>4
    <3>5. Cardinality({t \in snapshots' : t > s}) >= Keep
      BY <1>3, <3>3, <3>4
    <3>6. Untouched
      BY <2>2, <3>5
    <3>7. backup' # "delete" => doomed' = {}
      BY <1>9 DEF DgDeletes
    <3>8. QED
      BY <2>2, <3>1, <3>6, <3>7
  <2>3. Oldest(doomed, 1) \subseteq doomed
    BY DEF Oldest
  <2>4. QED
    BY <1>9, <2>1, <2>2, <2>3 DEF DgDeletes
<1>10. QED
  BY <1>5, <1>6, <1>7, <1>8, <1>9 DEF BakNext

\* A snapshot is deleted only while as many newer ones as are to be kept remain, though
\* the panel adds snapshots and calls fail in between.  (prune_snapshots.)
THEOREM RetentionHolds == Spec => RetentionKeeps
<1> DEFINE I == UpkeepInv /\ DoomedAreOld
<1>1. Init => I
  BY UpkeepInvInit DEF Init, BakInit, DoomedAreOld
<1>2. I /\ [Next]_upkeepVars => I' /\ [Untouched]_bakVars
  <2> SUFFICES ASSUME I, [Next]_upkeepVars PROVE DoomedAreOld' /\ [Untouched]_bakVars
    BY UpkeepInvStep
  <2>1. CASE BakNext
    BY <2>1, RetentionStep DEF UpkeepInv, TypeOK
  <2>2. CASE UNCHANGED bakVars
    BY <2>2 DEF bakVars, DoomedAreOld
  <2>3. QED
    BY <2>1, <2>2 DEF Next, upkeepVars
<1>3. QED
  BY <1>1, <1>2, PTL DEF Spec, RetentionKeeps, Untouched
=============================================================================
