------------------------------ MODULE Deploys -------------------------------
(***************************************************************************)
(* One application component and what is done to it: an operator saves and *)
(* deploys it from the panel, CI pushes images at the webhook, the         *)
(* autoscaler changes its replicas and its pin, Swarm rolls updates out or *)
(* back, and the panel settles its history from what Swarm reports.  The   *)
(* panel has one process of four threads: here one for the operator's      *)
(* form, one for the webhook and one for the page that shows the history.  *)
(*                                                                         *)
(* A save is its number; image, replicas and pin are what others own while *)
(* the service runs, and what a render reads back from it.                 *)
(***************************************************************************)
EXTENDS Integers, Sequences, Functions

CONSTANTS Images, FirstImage,   \* what can be deployed; what the form was created with
          MaxCount,             \* bound: replicas
          Attempts,             \* DEPLOY_ATTEMPTS
          \* Bounds: saves, redeploys, stops; images pushed; the autoscaler's writes;
          \* rollbacks by hand; rollouts that fail or stick; calls that fail.
          MaxSaves, MaxRedeploys, MaxStops, MaxPushes, MaxNudges, MaxUndos,
          MaxBadRollouts, MaxCallErrors,
          MaxEvents              \* bound: of all these together

ASSUME DeployConstants ==
  /\ FirstImage \in Images /\ MaxCount \in Nat \ {0} /\ Attempts \in Nat \ {0}
  /\ {MaxSaves, MaxRedeploys, MaxStops, MaxPushes, MaxNudges, MaxUndos,
      MaxBadRollouts, MaxCallErrors, MaxEvents} \subseteq Nat

Events == {"save", "redeploy", "stop", "push", "nudge", "undo", "bad", "error"}
Bound == [save |-> MaxSaves, redeploy |-> MaxRedeploys, stop |-> MaxStops,
          push |-> MaxPushes, nudge |-> MaxNudges, undo |-> MaxUndos,
          bad |-> MaxBadRollouts, error |-> MaxCallErrors]

VARIABLES saved,      \* component.json and env: the number of the last save
          file,       \* stack.yml
          svc,        \* the service's spec, or Absent
          prev,       \* Swarm's PreviousSpec of it, or Absent
          roll,       \* its last rollout: number and state
          form,       \* the operator's request
          hook,       \* CI's request
          page,       \* the page's request
          history,    \* deployments.json, newest first
          aged,       \* entries older than PENDING_GRACE_SECONDS
          spent,
          \* History of the behaviour, read by properties alone:
          completed,  \* images whose rollout completed, with its number
          dropped,    \* images the service was told to leave, with the last rollout's number
          overtaken,  \* what others wrote to the service since the form's last render
          blind,      \* that render could not read the service
          undated,    \* the service was once without the status of a rollout
          astray      \* the last deploy failed, or a rollout was reverted
vars == <<saved, file, svc, prev, roll, form, hook, page, history, aged, spent,
          completed, dropped, overtaken, blind, undated, astray>>
ghosts == <<completed, astray>>

Absent   == [save |-> -1, image |-> FirstImage, count |-> 1, pin |-> FALSE]
Specs    == [save : 0..MaxSaves, image : Images, count : 1..MaxCount, pin : BOOLEAN]
Owned    == {"image", "count", "pin"}    \* by others than the panel's form
States   == {"creating", "created", "updating", "stuck", "completed", "reverted"}
Statuses == {"pending", "done", "failed", "stalled", "superseded"}
NoEntry  == [image |-> FirstImage, ok |-> TRUE, since |-> 0]
Entries  == [id : Nat, image : Images, status : Statuses, since : Nat, real : BOOLEAN]
Requests == [image : Images, ok : BOOLEAN, since : Nat]
Undated  == -1               \* update_status without a start

TypeOK ==
  /\ saved \in 0..MaxSaves /\ file \in Specs \cup {Absent}
  /\ {svc, prev} \subseteq Specs \cup {Absent}
  /\ roll \in [n : Nat, state : States]
  /\ form \in [at : {"idle", "check", "write", "apply", "read", "record"},
              for : {"save", "env", "settings", "redeploy"}, tries : 1..Attempts,
              entry : Requests, copy : Seq(Entries)]
  /\ hook \in [at : {"idle", "read", "record"}, entry : Requests, copy : Seq(Entries)]
  /\ page \in [at : {"idle", "read", "settle"}, started : Nat \cup {Undated},
              verdict : {"none", "done", "failed", "stalled"}, copy : Seq(Entries)]
  /\ history \in Seq(Entries) /\ spent \in [Events -> Nat]
  /\ aged \subseteq 1..(MaxPushes + MaxSaves)
  /\ completed \subseteq Nat \X Images /\ dropped \subseteq Nat \X Images
  /\ overtaken \subseteq Owned /\ {blind, undated, astray} \subseteq BOOLEAN

Init ==
  /\ saved = 0 /\ file = [Absent EXCEPT !.save = 0]
  /\ svc = file /\ prev = file /\ roll = [n |-> 0, state |-> "completed"]
  /\ form = [at |-> "idle", for |-> "save", tries |-> 1, entry |-> NoEntry, copy |-> << >>]
  /\ hook = [at |-> "idle", entry |-> NoEntry, copy |-> << >>]
  /\ page = [at |-> "idle", verdict |-> "none", started |-> 0, copy |-> << >>]
  /\ history = << >> /\ aged = {} /\ spent = [e \in Events |-> 0]
  /\ completed = {<<0, FirstImage>>} /\ dropped = {} /\ overtaken = {} /\ blind = FALSE
  /\ undated = FALSE /\ astray = FALSE

Exists == svc # Absent
SpendAll(es) ==
  /\ spent' = [e \in Events |-> spent[e] + IF e \in es THEN 1 ELSE 0]
  /\ \A e \in es : spent'[e] <= Bound[e]
  /\ FoldFunction(+, 0, spent') <= MaxEvents
Spend(e) == SpendAll({e})

-----------------------------------------------------------------------------
(* Swarm.                                                                  *)

\* What a service leaves that is told another image, or removed.
Drops == dropped' = IF svc'.image # svc.image \/ svc' = Absent
                    THEN dropped \cup {<<roll.n, svc.image>>} ELSE dropped

\* The service is told a new spec.  What changes its tasks begins a rollout, and so does
\* anything during one; a count, or what it has already, replaces nothing: the status of
\* the last rollout stays or is gone.
SwarmUpdates(new) ==
  /\ svc' = new /\ prev' = svc /\ Drops
  /\ IF [new EXCEPT !.count = svc.count] # svc \/ roll.state \in {"updating", "stuck"}
     THEN roll' = [n |-> roll.n + 1, state |-> "updating"] /\ undated' = undated
     ELSE \/ UNCHANGED <<roll, undated>>
          \/ roll' = [roll EXCEPT !.state = "creating"] /\ undated' = TRUE

\* A rollout outlasts the request that began it: it monitors for half a minute.
Unattended == form.at \notin {"read", "record"} /\ hook.at = "idle"

RollCompletes ==
  /\ Exists /\ roll.state \in {"creating", "updating", "stuck"} /\ Unattended
  /\ roll' = [roll EXCEPT !.state = IF @ = "creating" THEN "created" ELSE "completed"]
  /\ completed' = completed \cup {<<roll.n, svc.image>>}
  /\ UNCHANGED <<saved, file, svc, prev, form, hook, page, history, aged, spent,
                 overtaken, blind, dropped, undated, astray>>

\* failure_action: rollback.
RollReverts ==
  /\ Exists /\ roll.state = "updating" /\ Unattended /\ Spend("bad")
  /\ svc' = prev /\ Drops /\ roll' = [roll EXCEPT !.state = "reverted"]
  /\ astray' = TRUE /\ overtaken' = Owned
  /\ UNCHANGED <<saved, file, prev, form, hook, page, history, aged,
                 completed, blind, undated>>

\* No node has room, or the image will not pull, for longer than the grace.
RollSticks ==
  /\ Exists /\ roll.state = "updating" /\ Unattended /\ Spend("bad")
  /\ roll' = [roll EXCEPT !.state = "stuck"]
  /\ UNCHANGED <<saved, file, svc, prev, form, hook, page, history, aged,
                 completed, overtaken, blind, dropped, undated, astray>>

-----------------------------------------------------------------------------
(* The autoscaler's writes, between loops of its own.                      *)

Scales(count) ==
  /\ Exists /\ count # svc.count /\ Spend("nudge")
  /\ SwarmUpdates([svc EXCEPT !.count = count]) /\ overtaken' = overtaken \cup {"count"}
  /\ UNCHANGED <<saved, file, form, hook, page, history, aged, blind, ghosts>>

\* It leaves a service that is rolling alone.
Pins ==
  /\ Exists /\ roll.state \notin {"creating", "updating", "stuck"} /\ Spend("nudge")
  /\ SwarmUpdates([svc EXCEPT !.pin = ~@]) /\ overtaken' = overtaken \cup {"pin"}
  /\ UNCHANGED <<saved, file, form, hook, page, history, aged, blind, ghosts>>

-----------------------------------------------------------------------------
(* The operator's form.                                                    *)

FormAt(at) == form' = [form EXCEPT !.at = at]

\* Mutant of Render: the file's idea of what others own.
RenderOfSpec(readable) == [Absent EXCEPT !.save = saved]

\* AppComponent.render: image, count and pin are read back from the service; what
\* cannot be read is what the form was created with.
Render(readable) ==
  IF Exists /\ readable THEN [svc EXCEPT !.save = saved]
  ELSE [Absent EXCEPT !.save = saved]

\* write_spec, and the environment alike: by a temporary file and a rename, so that no
\* reader ever sees half of one.  What is saved may be what was there, or was before.
Writes == saved' \in 0..(saved + 1)

\* A save writes the environment or the settings; then _deploy_if_needed.
FormSaves(for) ==
  /\ form.at = "idle" /\ Spend("save") /\ Writes
  /\ form' = [form EXCEPT !.at = "check", !.for = for]
  /\ UNCHANGED <<file, svc, prev, roll, hook, page, history, aged, overtaken, blind,
                 dropped, undated, ghosts>>

\* Mutant of NothingToDo: the image is looked at and nothing else.
NothingToDoButImage == file # Absent /\ file.image = Render(TRUE).image

\* pending_changes: the render is the one on disk.
NothingToDo == file = Render(TRUE)

FormChecks ==
  /\ form.at = "check" /\ FormAt(IF ~Exists \/ NothingToDo THEN "idle" ELSE "write")
  /\ UNCHANGED <<saved, file, svc, prev, roll, hook, page, history, aged, spent,
                 overtaken, blind, dropped, undated, ghosts>>

\* The Deploy and Redeploy buttons, and a change of credentials: no check, no record.
FormRedeploys ==
  /\ form.at = "idle" /\ Spend("redeploy")
  /\ form' = [form EXCEPT !.at = "write", !.for = "redeploy"]
  /\ UNCHANGED <<saved, file, svc, prev, roll, hook, page, history, aged,
                 overtaken, blind, dropped, undated, ghosts>>

\* write_stack: rendered once, for every attempt there will be.
FormWrites ==
  /\ form.at = "write"
  /\ \E readable \in BOOLEAN :
       /\ IF readable \/ ~Exists THEN spent' = spent ELSE Spend("error")
       /\ file' = Render(readable) /\ blind' = ~readable
  /\ form' = [form EXCEPT !.at = "apply", !.tries = 1] /\ overtaken' = {}
  /\ UNCHANGED <<saved, svc, prev, roll, hook, page, history, aged, dropped, undated, ghosts>>

\* Only an environment save is recorded.
Ended(ok) ==
  form' = [form EXCEPT !.at = IF form.for = "env" THEN "read" ELSE "idle", !.tries = 1,
                       !.entry = [image |-> svc'.image, ok |-> ok, since |-> roll.n + 1]]

FormApplies ==
  /\ form.at = "apply"
  /\ IF Exists
     THEN SwarmUpdates(file)
     ELSE /\ svc' = file /\ prev' = Absent /\ undated' = TRUE /\ dropped' = dropped
          /\ roll' = [n |-> roll.n + 1, state |-> "creating"]
  /\ Ended(TRUE) /\ astray' = FALSE
  /\ UNCHANGED <<saved, file, hook, page, history, aged, spent, completed,
                 overtaken, blind>>

MayRetry == form.tries < Attempts

\* "update out of sequence": the same file again.
FormRetries ==
  /\ form.at = "apply" /\ overtaken # {} /\ Exists /\ MayRetry
  /\ form' = [form EXCEPT !.tries = @ + 1]
  /\ UNCHANGED <<saved, file, svc, prev, roll, hook, page, history, aged, spent,
                 overtaken, blind, dropped, undated, ghosts>>

\* Refused, out of attempts, or out of time; the file stays as it was written.
FormFails ==
  /\ form.at = "apply" /\ svc' = svc /\ Ended(FALSE) /\ astray' = TRUE
  /\ IF overtaken # {} /\ ~MayRetry THEN spent' = spent ELSE Spend("error")
  /\ UNCHANGED <<saved, file, prev, roll, hook, page, history, aged,
                 completed, overtaken, blind, dropped, undated>>

FormStops ==
  /\ form.at = "idle" /\ Exists /\ Spend("stop")
  /\ svc' = Absent /\ Drops /\ prev' = Absent /\ overtaken' = Owned
  /\ UNCHANGED <<saved, file, roll, form, hook, page, history, aged, blind,
                 completed, undated, astray>>

FormRollsBack ==
  /\ form.at = "idle" /\ Exists /\ prev # Absent /\ Spend("undo")
  /\ svc' = prev /\ Drops /\ prev' = svc /\ roll' = [n |-> roll.n + 1, state |-> "reverted"]
  /\ overtaken' = Owned /\ astray' = TRUE
  /\ UNCHANGED <<saved, file, form, hook, page, history, aged, blind,
                 completed, undated>>

-----------------------------------------------------------------------------
(* The webhook, and the panel's own field for an image.                    *)

\* deploy_image_async: taken by Swarm, refused, or taken and not heard of in time.
HookPushes(image) ==
  /\ hook.at = "idle"
  /\ \E ok, taken \in BOOLEAN :
       /\ ok => taken
       /\ taken => Exists
       /\ SpendAll({"push"} \cup IF ~ok /\ Exists THEN {"error"} ELSE {})
       /\ IF taken THEN /\ SwarmUpdates([svc EXCEPT !.image = image])
                          /\ overtaken' = overtaken \cup {"image"}
                   ELSE UNCHANGED <<svc, prev, roll, overtaken, dropped, undated>>
       /\ hook' = [hook EXCEPT !.at = "read",
                     !.entry = [image |-> image, ok |-> ok, since |-> roll.n + 1]]
  /\ UNCHANGED <<saved, file, form, page, history, aged, blind, ghosts>>

-----------------------------------------------------------------------------
(* The history: read, changed and written back, without a lock.            *)

\* A new entry is pending, or failed.  `real`: a rollout was begun for it.
Recorded(req, copy) ==
  <<[id     |-> IF copy = << >> THEN 1 ELSE copy[1].id + 1,
     image  |-> req.image,
     status |-> IF req.ok THEN "pending" ELSE "failed",
     since  |-> req.since,
     real   |-> roll.n >= req.since]>> \o copy

HookReads ==
  /\ hook.at = "read" /\ hook' = [hook EXCEPT !.at = "record", !.copy = history]
  /\ UNCHANGED <<saved, file, svc, prev, roll, form, page, history, aged, spent,
                 overtaken, blind, dropped, undated, ghosts>>
HookRecords ==
  /\ hook.at = "record" /\ history' = Recorded(hook.entry, hook.copy)
  /\ hook' = [hook EXCEPT !.at = "idle", !.copy = << >>, !.entry = NoEntry]
  /\ UNCHANGED <<saved, file, svc, prev, roll, form, page, aged, spent,
                 overtaken, blind, dropped, undated, ghosts>>
FormReads ==
  /\ form.at = "read" /\ form' = [form EXCEPT !.at = "record", !.copy = history]
  /\ UNCHANGED <<saved, file, svc, prev, roll, hook, page, history, aged, spent,
                 overtaken, blind, dropped, undated, ghosts>>
FormRecords ==
  /\ form.at = "record" /\ history' = Recorded(form.entry, form.copy)
  /\ form' = [form EXCEPT !.at = "idle", !.copy = << >>, !.entry = NoEntry]
  /\ UNCHANGED <<saved, file, svc, prev, roll, hook, page, aged, spent,
                 overtaken, blind, dropped, undated, ghosts>>

\* update_status: the last rollout, whatever caused it; a service that was only ever
\* created has none, and is judged by its tasks.
Verdict ==
  IF ~Exists THEN "none"
  ELSE [creating |-> "none", created |-> "done", updating |-> "none",
        stuck |-> "stalled", completed |-> "done", reverted |-> "failed"][roll.state]
Started == IF roll.state \in {"creating", "created"} THEN Undated ELSE roll.n

PageAsks ==
  /\ page.at = "idle" /\ \E i \in DOMAIN history : history[i].status = "pending"
  /\ page' = [page EXCEPT !.at = "read", !.verdict = Verdict, !.started = Started]
  /\ UNCHANGED <<saved, file, svc, prev, roll, form, hook, history, aged, spent,
                 overtaken, blind, dropped, undated, ghosts>>
PageReads ==
  /\ page.at = "read" /\ page' = [page EXCEPT !.at = "settle", !.copy = history]
  /\ UNCHANGED <<saved, file, svc, prev, roll, form, hook, history, aged, spent,
                 overtaken, blind, dropped, undated, ghosts>>

Pending(entries) == {i \in DOMAIN entries : entries[i].status = "pending"}
Newest(entries)  == CHOOSE i \in Pending(entries) : \A j \in Pending(entries) : i <= j

\* Mutant of BeganSince: any verdict will do.
BeganSinceAny(entry) == entry.since >= 0

\* The guard against a verdict on the deploy before: no rollout that began earlier.
BeganSince(entry) == page.started = Undated \/ page.started >= entry.since

\* Mutant of Settling: what was never placed is no verdict.
SettlingTwo == {"done", "failed"}

Settling == {"done", "failed", "stalled"}

\* reconcile: the newest takes the verdict, the others were overtaken.
Reconciled(entries) ==
  [i \in DOMAIN entries |->
     IF i \notin Pending(entries) THEN entries[i]
     ELSE IF i # Newest(entries) THEN [entries[i] EXCEPT !.status = "superseded"]
     ELSE IF page.verdict \in Settling /\ BeganSince(entries[i])
          THEN [entries[i] EXCEPT !.status = page.verdict]
     ELSE entries[i]]

\* expire_pending, where there is no verdict.
Expired(entries) ==
  [i \in DOMAIN entries |->
     IF i \in Pending(entries) /\ entries[i].id \in aged
     THEN [entries[i] EXCEPT !.status = "stalled"] ELSE entries[i]]

PageSettles ==
  /\ page.at = "settle"
  /\ LET after == IF page.verdict # "none" THEN Reconciled(page.copy)
                                           ELSE Expired(page.copy)
     IN history' = IF after # page.copy THEN after ELSE history
  /\ page' = [page EXCEPT !.at = "idle", !.verdict = "none", !.started = 0, !.copy = << >>]
  /\ UNCHANGED <<saved, file, svc, prev, roll, form, hook, aged, spent,
                 overtaken, blind, dropped, undated, ghosts>>

\* An entry outlives the grace; a rollout that is still "updating" does so with it.
Ages(id) ==
  /\ \E i \in Pending(history) : history[i].id = id
  /\ (Exists => roll.state # "updating") /\ id \notin aged /\ aged' = aged \cup {id}
  /\ UNCHANGED <<saved, file, svc, prev, roll, form, hook, page, history, spent,
                 overtaken, blind, dropped, undated, ghosts>>

-----------------------------------------------------------------------------
Swarm == RollCompletes \/ RollReverts \/ RollSticks
Autoscaler == Pins \/ \E count \in 1..MaxCount : Scales(count)
Form == \/ \E for \in {"env", "settings"} : FormSaves(for)
        \/ FormChecks \/ FormRedeploys \/ FormWrites \/ FormApplies \/ FormRetries
        \/ FormFails \/ FormStops \/ FormRollsBack \/ FormReads \/ FormRecords
Hook == HookReads \/ HookRecords \/ \E image \in Images : HookPushes(image)
Page == PageAsks \/ PageReads \/ PageSettles

Next == \/ Swarm \/ Autoscaler \/ Form \/ Hook \/ Page
        \/ \E id \in 1..(MaxPushes + MaxSaves) : Ages(id)

Spec == Init /\ [][Next]_vars

\* Requests are answered, somebody looks at the page, time passes, and a rollout ends or is
\* found stuck; what is stuck may stay so, and a new service may never run.
FairSpec ==
  /\ Spec /\ WF_vars(roll.state = "updating" /\ Swarm) /\ WF_vars(Page)
  /\ WF_vars(FormChecks \/ FormWrites \/ FormApplies \/ FormReads \/ FormRecords)
  /\ WF_vars(HookReads \/ HookRecords)
  /\ \A id \in 1..(MaxPushes + MaxSaves) : WF_vars(Ages(id))

-----------------------------------------------------------------------------
\* A deploy leaves the image, the count and the pin to those who own them: it changes
\* none of them, unless it could not read the service, or that one was written between
\* the render and the update.  (deploy; docker/cli#2235.)
KeepsLive ==
  [][FormApplies /\ Exists /\ ~blind =>
       \A owned \in Owned \ overtaken : svc'[owned] = svc[owned]]_vars

\* What was saved is what the service was told, once the form is idle: unless the last
\* deploy failed or was reverted.  (_deploy_if_needed, pending_changes.)
SavedIsDeployed == form.at = "idle" /\ Exists /\ ~astray => svc.save = saved

\* "done" is observed: the image completed a rollout begun no earlier than the deploy,
\* or the service was told to leave it since: Swarm reverted it, or somebody deployed
\* another.  Not so for a service created anew, whose tasks are all there is to see.
\* (reconcile.)
Observed(entry) == \E c \in completed : c[1] >= entry.since /\ c[2] = entry.image
TakenOff(entry) == \E d \in dropped : d[1] + 1 >= entry.since /\ d[2] = entry.image
DoneIsObserved ==
  ~undated =>
    \A i \in DOMAIN history :
      history[i].status = "done" => Observed(history[i]) \/ TakenOff(history[i])

\* An entry for which a rollout was begun does not stay "deploying".  (reconcile,
\* expire_pending.)
RealSettles ==
  \A id \in 1..(MaxPushes + MaxSaves) :
    (\E i \in Pending(history) : history[i].id = id /\ history[i].real) ~>
      ~ \E i \in Pending(history) : history[i].id = id /\ history[i].real
=============================================================================
