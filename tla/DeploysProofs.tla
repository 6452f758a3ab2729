--------------------------- MODULE DeploysProofs ---------------------------
(***************************************************************************)
(* Proofs about Deploys: type correctness; that a deploy keeps what others *)
(* own; that what was saved reaches the service; and that "done" was       *)
(* observed.                                                               *)
(***************************************************************************)
EXTENDS Deploys, TLAPS

\* Counting events keeps them counted, and saves within their bound.
LEMMA Counted ==
  ASSUME NEW es \in SUBSET Events, spent \in [Events -> Nat], SpendAll(es)
  PROVE  /\ spent' \in [Events -> Nat]
         /\ "save" \in es => spent'["save"] = spent["save"] + 1 /\ spent'["save"] <= MaxSaves
         /\ "save" \notin es => spent'["save"] = spent["save"]
<1>1. spent' = [e \in Events |-> spent[e] + IF e \in es THEN 1 ELSE 0]
  BY DEF SpendAll
<1>2. \A e \in es : spent'[e] <= Bound[e]
  BY DEF SpendAll
<1>3. "save" \in Events /\ Bound["save"] = MaxSaves
  BY DEF Events, Bound
<1>4. QED
  BY <1>1, <1>2, <1>3

\* What is rendered is a spec of the last save; it differs from the service in nothing
\* else, where that could be read.
LEMMA Rendered ==
  ASSUME NEW readable \in BOOLEAN, svc \in Specs \cup {Absent}, saved \in 0..MaxSaves
  PROVE  Render(readable) \in Specs /\ Render(readable).save = saved
<1>1. 1 \in 1..MaxCount /\ FirstImage \in Images
  BY DeployConstants DEF DeployConstants
<1>2. [Absent EXCEPT !.save = saved] \in Specs /\ [Absent EXCEPT !.save = saved].save = saved
  BY <1>1 DEF Absent, Specs
<1>3. ASSUME Exists
      PROVE  [svc EXCEPT !.save = saved] \in Specs /\ [svc EXCEPT !.save = saved].save = saved
  BY <1>3 DEF Exists, Specs
<1>4. QED
  BY <1>2, <1>3 DEF Render

\* An entry is put before those that were read.
LEMMA RecordedType ==
  ASSUME NEW req \in Requests, NEW copy \in Seq(Entries), roll.n \in Nat
  PROVE  Recorded(req, copy) \in Seq(Entries)
<1> DEFINE new == [id     |-> IF copy = << >> THEN 1 ELSE copy[1].id + 1,
                   image  |-> req.image,
                   status |-> IF req.ok THEN "pending" ELSE "failed",
                   since  |-> req.since,
                   real   |-> roll.n >= req.since]
<1>1. (IF copy = << >> THEN 1 ELSE copy[1].id + 1) \in Nat
  <2>1. ASSUME copy # << >> PROVE copy[1] \in Entries
    BY <2>1
  <2>2. QED
    BY <2>1 DEF Entries
<1>2. new.status \in Statuses
  BY DEF Statuses
<1>3. new \in Entries
  BY <1>1, <1>2 DEF Entries, Requests
<1>4. Recorded(req, copy) = <<new>> \o copy
  BY DEF Recorded
<1> HIDE DEF new
<1>5. QED
  BY <1>3, <1>4

\* The page changes the statuses of entries, and nothing else of them.
LEMMA SettledType ==
  ASSUME NEW entries \in Seq(Entries)
  PROVE  Reconciled(entries) \in Seq(Entries) /\ Expired(entries) \in Seq(Entries)
<1>1. ASSUME NEW i \in DOMAIN entries, NEW s \in Statuses
      PROVE  [entries[i] EXCEPT !.status = s] \in Entries
  <2>1. entries[i] \in Entries
    OBVIOUS
  <2>2. QED
    BY <2>1 DEF Entries
<1>2. DOMAIN entries = 1..Len(entries) /\ Len(entries) \in Nat
  OBVIOUS
<1>3. {"superseded", "stalled"} \cup Settling \subseteq Statuses
  BY DEF Statuses, Settling
<1>4. \A i \in DOMAIN entries : entries[i] \in Entries
  OBVIOUS
<1>5. \A i \in DOMAIN entries : Reconciled(entries)[i] \in Entries
  BY <1>1, <1>3, <1>4 DEF Reconciled
<1>6. \A i \in DOMAIN entries : Expired(entries)[i] \in Entries
  BY <1>1, <1>3, <1>4 DEF Expired
<1>7. Reconciled(entries) \in [1..Len(entries) -> Entries]
  BY <1>2, <1>5 DEF Reconciled
<1>8. Expired(entries) \in [1..Len(entries) -> Entries]
  BY <1>2, <1>6 DEF Expired
<1>9. ASSUME NEW f \in [1..Len(entries) -> Entries]
      PROVE  f \in Seq(Entries)
  BY <1>2
<1>10. QED
  BY <1>7, <1>8, <1>9

\* What is dropped is an image, with the number of a rollout.
LEMMA DropsType ==
  ASSUME svc \in Specs \cup {Absent}, roll \in [n : Nat, state : States],
         dropped \subseteq Nat \X Images, Drops
  PROVE  dropped' \subseteq Nat \X Images
<1>1. svc.image \in Images
  BY DeployConstants DEF DeployConstants, Specs, Absent
<1>2. <<roll.n, svc.image>> \in Nat \X Images
  BY <1>1
<1>3. dropped' \subseteq dropped \cup {<<roll.n, svc.image>>}
  BY DEF Drops
<1>4. QED
  BY <1>2, <1>3

\* An update leaves a spec, a rollout and its predecessor.
LEMMA SwarmTypes ==
  ASSUME NEW new \in Specs, svc \in Specs \cup {Absent}, roll \in [n : Nat, state : States],
         undated \in BOOLEAN, dropped \subseteq Nat \X Images, SwarmUpdates(new)
  PROVE  /\ {svc', prev'} \subseteq Specs \cup {Absent}
         /\ roll' \in [n : Nat, state : States]
         /\ undated' \in BOOLEAN /\ dropped' \subseteq Nat \X Images
<1>1. roll' \in [n : Nat, state : States]
  BY DEF SwarmUpdates, States
<1>2. dropped' \subseteq Nat \X Images
  BY DropsType DEF SwarmUpdates
<1>3. QED
  BY <1>1, <1>2 DEF SwarmUpdates

-----------------------------------------------------------------------------
(* Type correctness: with the number of the last save, of which there were *)
(* as many, and the file's, which is that while it is applied.             *)

SavesCounted ==
  /\ saved <= spent["save"]
  /\ form.at = "apply" => file.save = saved

Typed == TypeOK /\ SavesCounted

LEMMA TypeInit == Init => Typed
<1> SUFFICES ASSUME Init PROVE Typed
  OBVIOUS
<1> USE DeployConstants DEF DeployConstants, Init
<1>1. 1 \in 1..MaxCount /\ 0 \in 0..MaxSaves /\ 1 \in 1..Attempts
  OBVIOUS
<1>2. [Absent EXCEPT !.save = 0] \in Specs
  BY <1>1 DEF Absent, Specs
<1>3. NoEntry \in Requests
  BY DEF NoEntry, Requests
<1>4. << >> \in Seq(Entries)
  OBVIOUS
<1>5. roll \in [n : Nat, state : States]
  BY DEF States
<1>6. form \in [at : {"idle", "check", "write", "apply", "read", "record"},
                for : {"save", "env", "settings", "redeploy"}, tries : 1..Attempts,
                entry : Requests, copy : Seq(Entries)]
  BY <1>1, <1>3, <1>4
<1>7. hook \in [at : {"idle", "read", "record"}, entry : Requests, copy : Seq(Entries)]
  BY <1>3, <1>4
<1>8. page \in [at : {"idle", "read", "settle"}, started : Nat \cup {Undated},
                verdict : {"none", "done", "failed", "stalled"}, copy : Seq(Entries)]
  BY <1>4 DEF Undated
<1>9. spent \in [Events -> Nat] /\ "save" \in Events
  BY DEF Events
<1>10. completed \subseteq Nat \X Images /\ dropped \subseteq Nat \X Images
        /\ overtaken \subseteq Owned
  OBVIOUS
<1>11. spent["save"] = 0 /\ saved = 0 /\ form.at = "idle"
  BY <1>9
<1>12. SavesCounted
  BY <1>11 DEF SavesCounted
<1>13. QED
  BY <1>1, <1>2, <1>4, <1>5, <1>6, <1>7, <1>8, <1>9, <1>10, <1>12 DEF Typed, TypeOK

\* Swarm's steps, and the autoscaler's.
LEMMA TypeOthers == Typed /\ (Swarm \/ Autoscaler) => Typed'
<1> SUFFICES ASSUME Typed, Swarm \/ Autoscaler PROVE Typed'
  OBVIOUS
<1> USE DEF Typed, TypeOK, SavesCounted
<1>1. {"bad"} \in SUBSET Events /\ {"nudge"} \in SUBSET Events
  BY DEF Events
<1>2. CASE RollCompletes
  <2>1. roll' \in [n : Nat, state : States]
    BY <1>2 DEF RollCompletes, States
  <2>2. completed' \subseteq Nat \X Images
    BY <1>2 DEF RollCompletes, Exists, Specs
  <2>3. QED
    BY <1>2, <2>1, <2>2 DEF RollCompletes
<1>3. CASE RollReverts
  <2>1. roll' \in [n : Nat, state : States]
    BY <1>3 DEF RollReverts, States
  <2>2. spent' \in [Events -> Nat] /\ spent'["save"] = spent["save"]
    BY <1>1, <1>3, Counted DEF RollReverts, Spend
  <2>3. dropped' \subseteq Nat \X Images
    BY <1>3, DropsType DEF RollReverts
  <2>4. QED
    BY <1>3, <2>1, <2>2, <2>3 DEF RollReverts
<1>4. CASE RollSticks
  <2>1. roll' \in [n : Nat, state : States]
    BY <1>4 DEF RollSticks, States
  <2>2. spent' \in [Events -> Nat] /\ spent'["save"] = spent["save"]
    BY <1>1, <1>4, Counted DEF RollSticks, Spend
  <2>3. QED
    BY <1>4, <2>1, <2>2 DEF RollSticks
<1>5. ASSUME NEW count \in 1..MaxCount, Scales(count) PROVE Typed'
  <2>1. [svc EXCEPT !.count = count] \in Specs
    BY <1>5 DEF Scales, Exists, Specs
  <2>2. {svc', prev'} \subseteq Specs \cup {Absent} /\ roll' \in [n : Nat, state : States]
        /\ undated' \in BOOLEAN /\ dropped' \subseteq Nat \X Images
    BY <1>5, <2>1, SwarmTypes DEF Scales
  <2>3. spent' \in [Events -> Nat] /\ spent'["save"] = spent["save"]
    BY <1>1, <1>5, Counted DEF Scales, Spend
  <2>4. QED
    BY <1>5, <2>2, <2>3 DEF Scales, Owned, ghosts
<1>6. CASE Pins
  <2>1. [svc EXCEPT !.pin = ~@] \in Specs
    BY <1>6 DEF Pins, Exists, Specs
  <2>2. {svc', prev'} \subseteq Specs \cup {Absent} /\ roll' \in [n : Nat, state : States]
        /\ undated' \in BOOLEAN /\ dropped' \subseteq Nat \X Images
    BY <1>6, <2>1, SwarmTypes DEF Pins
  <2>3. spent' \in [Events -> Nat] /\ spent'["save"] = spent["save"]
    BY <1>1, <1>6, Counted DEF Pins, Spend
  <2>4. QED
    BY <1>6, <2>2, <2>3 DEF Pins, Owned, ghosts
<1>7. QED
  BY <1>2, <1>3, <1>4, <1>5, <1>6 DEF Swarm, Autoscaler

\* What the operator's form holds.
FormType ==
  [at : {"idle", "check", "write", "apply", "read", "record"},
   for : {"save", "env", "settings", "redeploy"}, tries : 1..Attempts,
   entry : Requests, copy : Seq(Entries)]

\* Asking leaves everything but the form and what it asked for: the checks, the writes.
LEMMA TypeAsks ==
  ASSUME Typed,
         \/ \E for \in {"env", "settings"} : FormSaves(for)
         \/ FormChecks \/ FormRedeploys \/ FormWrites \/ FormRetries
  PROVE  Typed'
<1> USE DEF Typed, TypeOK, SavesCounted
<1>1. {"save"} \in SUBSET Events /\ {"redeploy"} \in SUBSET Events
      /\ {"error"} \in SUBSET Events
  BY DEF Events
<1>2. ASSUME NEW for \in {"env", "settings"}, FormSaves(for) PROVE Typed'
  <2>1. /\ spent' \in [Events -> Nat] /\ spent'["save"] = spent["save"] + 1
        /\ spent'["save"] <= MaxSaves
    BY <1>1, <1>2, Counted DEF FormSaves, Spend
  <2>2. saved' \in 0..MaxSaves /\ saved' <= spent'["save"]
    <3>1. saved \in 0..MaxSaves /\ saved <= spent["save"] /\ spent["save"] \in Nat
      BY DEF Events
    <3>2. saved' \in 0..(saved + 1)
      BY <1>2 DEF FormSaves, Writes
    <3> HIDE DEF Typed
    <3>3. MaxSaves \in Nat
      BY DeployConstants DEF DeployConstants
    <3>4. QED
      BY <2>1, <3>1, <3>2, <3>3
  <2>3. form' \in FormType /\ form'.at = "check"
    BY <1>2 DEF FormSaves, FormType
  <2>4. SavesCounted'
    BY <2>2, <2>3
  <2>5. QED
    BY <1>2, <2>1, <2>2, <2>3, <2>4 DEF FormSaves, ghosts, FormType
<1>3. CASE FormChecks
  <2>1. form' \in FormType /\ form'.at \in {"idle", "write"}
    BY <1>3 DEF FormChecks, FormAt, FormType
  <2>2. QED
    BY <1>3, <2>1 DEF FormChecks, ghosts, FormType
<1>4. CASE FormRedeploys
  <2>1. form' \in FormType /\ form'.at = "write"
    BY <1>4 DEF FormRedeploys, FormType
  <2>2. spent' \in [Events -> Nat] /\ spent'["save"] = spent["save"]
    BY <1>1, <1>4, Counted DEF FormRedeploys, Spend
  <2>3. QED
    BY <1>4, <2>1, <2>2 DEF FormRedeploys, ghosts, FormType
<1>5. CASE FormWrites
  <2>1. 1 \in 1..Attempts
    BY DeployConstants DEF DeployConstants
  <2>2. form' \in FormType /\ form'.at = "apply"
    BY <1>5, <2>1 DEF FormWrites, FormType
  <2>3. file' \in Specs /\ file'.save = saved /\ blind' \in BOOLEAN
    BY <1>5, Rendered DEF FormWrites
  <2>4. spent' \in [Events -> Nat] /\ spent'["save"] = spent["save"]
    BY <1>1, <1>5, Counted DEF FormWrites, Spend
  <2>5. saved' = saved /\ overtaken' = {}
        /\ UNCHANGED <<svc, prev, roll, hook, page, history, aged, dropped, undated, ghosts>>
    BY <1>5 DEF FormWrites
  <2>6. SavesCounted'
    BY <2>2, <2>3, <2>4, <2>5
  <2>7. QED
    BY <2>2, <2>3, <2>4, <2>5, <2>6 DEF ghosts, FormType
<1>6. CASE FormRetries
  <2>1. form.tries + 1 \in 1..Attempts
    <3>1. form.tries \in 1..Attempts /\ Attempts \in Nat
      BY DeployConstants DEF DeployConstants
    <3>2. form.tries < Attempts
      BY <1>6 DEF FormRetries, MayRetry
    <3> HIDE DEF Typed
    <3>3. QED
      BY <3>1, <3>2
  <2>2. form' = [form EXCEPT !.tries = form.tries + 1] /\ form.at = "apply"
    BY <1>6 DEF FormRetries
  <2>3. form' \in FormType /\ form'.at = "apply"
    BY <2>1, <2>2 DEF FormType
  <2>4. QED
    BY <1>6, <2>2, <2>3 DEF FormRetries, ghosts, FormType
<1>7. QED
  BY <1>2, <1>3, <1>4, <1>5, <1>6

\* An answer: the form is idle again, or goes on to record.
LEMMA EndedType ==
  ASSUME Typed, NEW ok \in BOOLEAN, Ended(ok), svc' \in Specs \cup {Absent}
  PROVE  form' \in FormType /\ form'.at \in {"idle", "read"}
<1>1. 1 \in 1..Attempts /\ FirstImage \in Images
  BY DeployConstants DEF DeployConstants
<1>2. svc'.image \in Images
  BY <1>1 DEF Specs, Absent
<1>3. [image |-> svc'.image, ok |-> ok, since |-> roll.n + 1] \in Requests
  BY <1>2 DEF Typed, TypeOK, Requests
<1>4. form \in FormType
  BY DEF Typed, TypeOK, FormType
<1>5. QED
  BY <1>1, <1>3, <1>4 DEF Ended, FormType

LEMMA TypeAnswers ==
  ASSUME Typed,
         FormApplies \/ FormFails \/ FormStops \/ FormRollsBack \/ FormReads \/ FormRecords
  PROVE  Typed'
<1> USE DEF Typed, TypeOK, SavesCounted
<1>1. {"stop"} \in SUBSET Events /\ {"undo"} \in SUBSET Events /\ {"error"} \in SUBSET Events
  BY DEF Events
<1>2. CASE FormApplies
  <2>1. file \in Specs
    BY <1>2 DEF FormApplies, Specs, Absent
  <2>2. {svc', prev'} \subseteq Specs \cup {Absent} /\ roll' \in [n : Nat, state : States]
        /\ undated' \in BOOLEAN /\ dropped' \subseteq Nat \X Images
    <3>1. CASE Exists
      BY <1>2, <2>1, <3>1, SwarmTypes DEF FormApplies
    <3>2. CASE ~Exists
      <4>1. roll' \in [n : Nat, state : States]
        BY <1>2, <3>2 DEF FormApplies, States
      <4>2. QED
        BY <1>2, <2>1, <3>2, <4>1 DEF FormApplies
    <3>3. QED
      BY <3>1, <3>2
  <2>3. form' \in FormType /\ form'.at \in {"idle", "read"}
    BY <1>2, <2>2, EndedType DEF FormApplies
  <2>4. /\ form' \in FormType /\ form'.at \in {"idle", "read"} /\ astray' = FALSE
        /\ UNCHANGED <<saved, file, hook, page, history, aged, spent, completed,
                       overtaken, blind>>
    BY <1>2, <2>3 DEF FormApplies
  <2>5. TypeOK'
    BY <2>2, <2>4 DEF FormType
  <2>6. SavesCounted'
    BY <2>4
  <2>7. QED
    BY <2>5, <2>6
<1>3. CASE FormFails
  <2>1. form' \in FormType /\ form'.at \in {"idle", "read"}
    BY <1>3, EndedType DEF FormFails
  <2>2. spent' \in [Events -> Nat] /\ spent'["save"] = spent["save"]
    BY <1>1, <1>3, Counted DEF FormFails, Spend
  <2>3. QED
    BY <1>3, <2>1, <2>2 DEF FormFails, FormType
<1>4. CASE FormStops
  <2>1. spent' \in [Events -> Nat] /\ spent'["save"] = spent["save"]
    BY <1>1, <1>4, Counted DEF FormStops, Spend
  <2>2. dropped' \subseteq Nat \X Images
    BY <1>4, DropsType DEF FormStops
  <2>3. QED
    BY <1>4, <2>1, <2>2 DEF FormStops
<1>5. CASE FormRollsBack
  <2>1. spent' \in [Events -> Nat] /\ spent'["save"] = spent["save"]
    BY <1>1, <1>5, Counted DEF FormRollsBack, Spend
  <2>2. roll' \in [n : Nat, state : States]
    BY <1>5 DEF FormRollsBack, States
  <2>3. dropped' \subseteq Nat \X Images
    BY <1>5, DropsType DEF FormRollsBack
  <2>4. QED
    BY <1>5, <2>1, <2>2, <2>3 DEF FormRollsBack
<1>6. CASE FormReads
  <2>1. form' \in FormType /\ form'.at = "record"
    BY <1>6 DEF FormReads, FormType
  <2>2. QED
    BY <1>6, <2>1 DEF FormReads, ghosts, FormType
<1>7. CASE FormRecords
  <2>1. NoEntry \in Requests /\ << >> \in Seq(Entries)
    BY DeployConstants DEF NoEntry, Requests, DeployConstants
  <2>2. form' \in FormType /\ form'.at = "idle"
    <3>1. form' = [form EXCEPT !.at = "idle", !.copy = << >>, !.entry = NoEntry]
      BY <1>7 DEF FormRecords
    <3>2. QED
      BY <2>1, <3>1 DEF FormType
  <2>3. history' \in Seq(Entries)
    BY <1>7, RecordedType DEF FormRecords
  <2>4. QED
    BY <1>7, <2>2, <2>3 DEF FormRecords, ghosts, FormType
<1>8. QED
  BY <1>2, <1>3, <1>4, <1>5, <1>6, <1>7

\* CI's request, the page's, and time.
LEMMA TypeRest ==
  ASSUME Typed, Hook \/ Page \/ \E id \in 1..(MaxPushes + MaxSaves) : Ages(id)
  PROVE  Typed'
<1> DEFINE HookType == [at : {"idle", "read", "record"}, entry : Requests, copy : Seq(Entries)]
           PageType == [at : {"idle", "read", "settle"}, started : Nat \cup {Undated},
                        verdict : {"none", "done", "failed", "stalled"}, copy : Seq(Entries)]
<1> USE DEF Typed, TypeOK, SavesCounted
<1>1. ASSUME NEW image \in Images, HookPushes(image) PROVE Typed'
  <2>1. PICK ok \in BOOLEAN, taken \in BOOLEAN :
          /\ ok => taken
          /\ taken => Exists
          /\ SpendAll({"push"} \cup IF ~ok /\ Exists THEN {"error"} ELSE {})
          /\ IF taken THEN /\ SwarmUpdates([svc EXCEPT !.image = image])
                            /\ overtaken' = overtaken \cup {"image"}
                      ELSE UNCHANGED <<svc, prev, roll, overtaken, dropped, undated>>
          /\ hook' = [hook EXCEPT !.at = "read",
                        !.entry = [image |-> image, ok |-> ok, since |-> roll.n + 1]]
    BY <1>1 DEF HookPushes
  <2>2. spent' \in [Events -> Nat] /\ spent'["save"] = spent["save"]
    <3>1. PICK es \in SUBSET {"push", "error"} : SpendAll(es)
      BY <2>1
    <3>2. es \in SUBSET Events /\ "save" \notin es
      BY DEF Events
    <3>3. QED
      BY <3>1, <3>2, Counted
  <2>3. [image |-> image, ok |-> ok, since |-> roll.n + 1] \in Requests
    BY DEF Requests
  <2>4. hook' \in HookType
    BY <2>1, <2>3
  <2>5. /\ {svc', prev'} \subseteq Specs \cup {Absent} /\ roll' \in [n : Nat, state : States]
        /\ undated' \in BOOLEAN /\ dropped' \subseteq Nat \X Images
        /\ overtaken' \subseteq Owned
    <3>1. CASE taken
      <4>1. [svc EXCEPT !.image = image] \in Specs
        BY <2>1, <3>1 DEF Exists, Specs
      <4>2. overtaken' \subseteq Owned
        BY <2>1, <3>1 DEF Owned
      <4>3. QED
        BY <2>1, <3>1, <4>1, <4>2, SwarmTypes
    <3>2. QED
      BY <2>1, <3>1
  <2>6. QED
    BY <1>1, <2>2, <2>4, <2>5 DEF HookPushes, ghosts
<1>2. CASE HookReads
  <2>1. hook' \in HookType
    BY <1>2 DEF HookReads
  <2>2. QED
    BY <1>2, <2>1 DEF HookReads, ghosts
<1>3. CASE HookRecords
  <2>1. NoEntry \in Requests /\ << >> \in Seq(Entries)
    BY DeployConstants DEF NoEntry, Requests, DeployConstants
  <2>2. hook' \in HookType
    BY <1>3, <2>1 DEF HookRecords
  <2>3. history' \in Seq(Entries)
    BY <1>3, RecordedType DEF HookRecords
  <2>4. QED
    BY <1>3, <2>2, <2>3 DEF HookRecords, ghosts
<1>4. CASE PageAsks
  <2>1. Verdict \in {"none", "done", "failed", "stalled"} /\ Started \in Nat \cup {Undated}
    BY DEF Verdict, Started, States
  <2>2. page' \in PageType
    BY <1>4, <2>1 DEF PageAsks
  <2>3. QED
    BY <1>4, <2>2 DEF PageAsks, ghosts
<1>5. CASE PageReads
  <2>1. page' \in PageType
    BY <1>5 DEF PageReads
  <2>2. QED
    BY <1>5, <2>1 DEF PageReads, ghosts
<1>6. CASE PageSettles
  <2>1. page' \in PageType
    <3>1. << >> \in Seq(Entries)
      OBVIOUS
    <3>2. page' = [page EXCEPT !.at = "idle", !.verdict = "none", !.started = 0,
                               !.copy = << >>]
      BY <1>6 DEF PageSettles
    <3>3. QED
      BY <3>1, <3>2
  <2>2. history' \in Seq(Entries)
    BY <1>6, SettledType DEF PageSettles
  <2>3. QED
    BY <1>6, <2>1, <2>2 DEF PageSettles, ghosts
<1>7. ASSUME NEW id \in 1..(MaxPushes + MaxSaves), Ages(id) PROVE Typed'
  BY <1>7 DEF Ages, ghosts
<1>8. QED
  BY <1>1, <1>2, <1>3, <1>4, <1>5, <1>6, <1>7 DEF Hook, Page

LEMMA TypeStep == Typed /\ [Next]_vars => Typed'
<1>1. CASE UNCHANGED vars
  BY <1>1 DEF vars, Typed, TypeOK, SavesCounted
<1>2. CASE Next /\ Typed
  BY <1>2, TypeOthers, TypeAsks, TypeAnswers, TypeRest DEF Next, Form
<1>3. QED
  BY <1>1, <1>2

\* Every state is one the definitions speak of; a render is of the last save.  (_deploy,
\* record_deployment, reconcile.)
THEOREM TypeCorrect == Spec => [](TypeOK /\ SavesCounted)
<1>1. Typed <=> TypeOK /\ SavesCounted
  BY DEF Typed
<1>2. QED
  BY <1>1, TypeInit, TypeStep, PTL DEF Spec

-----------------------------------------------------------------------------
(* What a deploy keeps of what others own.                                 *)

\* What nobody wrote since the render is in the file as it is in the service.
FreshRender ==
  form.at = "apply" /\ ~blind /\ Exists =>
    \A owned \in Owned \ overtaken : file[owned] = svc[owned]

\* A step that writes one thing to a service leaves the render fresh in the others.
LEMMA FreshWrites ==
  ASSUME FreshRender, NEW owned \in Owned, NEW new, svc \in Specs,
         \A other \in Owned \ {owned} : new[other] = svc[other],
         svc' = new, overtaken' = overtaken \cup {owned}, UNCHANGED <<file, form, blind>>
  PROVE  FreshRender'
<1> SUFFICES ASSUME form'.at = "apply", ~blind', Exists', NEW other \in Owned \ overtaken'
             PROVE  file'[other] = svc'[other]
  BY DEF FreshRender
<1>1. Exists
  BY DeployConstants DEF Exists, Specs, Absent, DeployConstants
<1>2. other \in Owned \ overtaken /\ other # owned
  OBVIOUS
<1>3. file[other] = svc[other]
  BY <1>1, <1>2 DEF FreshRender
<1>4. QED
  BY <1>2, <1>3

LEMMA FreshStep == Typed /\ FreshRender /\ [Next]_vars => FreshRender'
<1> SUFFICES ASSUME Typed, FreshRender, [Next]_vars PROVE FreshRender'
  OBVIOUS
<1>0. Exists => svc \in Specs
  BY DEF Typed, TypeOK, Exists
<1>1. CASE UNCHANGED vars
  BY <1>1 DEF vars, FreshRender, Exists
<1>2. CASE RollCompletes \/ RollSticks
  BY <1>2 DEF RollCompletes, RollSticks, FreshRender, Exists
<1>3. CASE RollReverts \/ FormStops \/ FormRollsBack
  BY <1>3 DEF RollReverts, FormStops, FormRollsBack, FreshRender
<1>4. ASSUME NEW count \in 1..MaxCount, Scales(count) PROVE FreshRender'
  <2> DEFINE new == [svc EXCEPT !.count = count]
  <2>1. /\ svc' = new /\ overtaken' = overtaken \cup {"count"}
        /\ svc \in Specs /\ UNCHANGED <<file, form, blind>>
    BY <1>0, <1>4 DEF Scales, SwarmUpdates
  <2>2. "count" \in Owned /\ \A other \in Owned \ {"count"} : new[other] = svc[other]
    BY <2>1 DEF Owned, Specs
  <2>3. QED
    BY <2>1, <2>2, FreshWrites
<1>5. CASE Pins
  <2> DEFINE new == [svc EXCEPT !.pin = ~@]
  <2>1. /\ svc' = new /\ overtaken' = overtaken \cup {"pin"}
        /\ svc \in Specs /\ UNCHANGED <<file, form, blind>>
    BY <1>0, <1>5 DEF Pins, SwarmUpdates
  <2>2. "pin" \in Owned /\ \A other \in Owned \ {"pin"} : new[other] = svc[other]
    BY <2>1 DEF Owned, Specs
  <2>3. QED
    BY <2>1, <2>2, FreshWrites
<1>6. CASE FormWrites
  <2>1. svc' = svc /\ (~blind' => file' = Render(TRUE))
    BY <1>6 DEF FormWrites
  <2>2. Exists => \A owned \in Owned : Render(TRUE)[owned] = svc[owned]
    <3> SUFFICES ASSUME Exists PROVE \A owned \in Owned : Render(TRUE)[owned] = svc[owned]
      OBVIOUS
    <3>1. Render(TRUE) = [svc EXCEPT !.save = saved]
      BY DEF Render
    <3>2. QED
      BY <1>0, <3>1 DEF Specs, Owned
  <2>3. QED
    BY <2>1, <2>2 DEF FreshRender, Exists
<1>7. CASE \/ \E for \in {"env", "settings"} : FormSaves(for)
           \/ FormChecks \/ FormRedeploys
  <2>1. form'.at # "apply"
    BY <1>7 DEF FormSaves, FormChecks, FormAt, FormRedeploys, Typed, TypeOK
  <2>2. QED
    BY <2>1 DEF FreshRender
<1>8. CASE FormRetries
  BY <1>8 DEF FormRetries, FreshRender, Exists
<1>9. CASE FormApplies \/ FormFails \/ FormReads \/ FormRecords
  <2>1. form'.at # "apply"
    BY <1>9 DEF FormApplies, FormFails, Ended, FormReads, FormRecords, Typed, TypeOK
  <2>2. QED
    BY <2>1 DEF FreshRender
<1>10. ASSUME NEW image \in Images, HookPushes(image) PROVE FreshRender'
  <2> DEFINE new == [svc EXCEPT !.image = image]
  <2>1. UNCHANGED <<file, form, blind>>
    BY <1>10 DEF HookPushes
  <2>2. \/ svc' = new /\ overtaken' = overtaken \cup {"image"} /\ svc \in Specs
        \/ UNCHANGED <<svc, overtaken>>
    BY <1>0, <1>10 DEF HookPushes, SwarmUpdates
  <2>3. svc \in Specs =>
          "image" \in Owned /\ \A other \in Owned \ {"image"} : new[other] = svc[other]
    BY DEF Owned, Specs
  <2>4. CASE UNCHANGED <<svc, overtaken>>
    BY <2>1, <2>4 DEF FreshRender, Exists
  <2>5. QED
    BY <2>1, <2>2, <2>3, <2>4, FreshWrites
<1>11. CASE HookReads \/ HookRecords \/ Page
  BY <1>11 DEF HookReads, HookRecords, Page, PageAsks, PageReads, PageSettles, FreshRender,
               Exists
<1>12. ASSUME NEW id \in 1..(MaxPushes + MaxSaves), Ages(id) PROVE FreshRender'
  BY <1>12 DEF Ages, FreshRender, Exists
<1>13. QED
  BY <1>1, <1>2, <1>3, <1>4, <1>5, <1>6, <1>7, <1>8, <1>9, <1>10, <1>11, <1>12
     DEF Next, Swarm, Autoscaler, Form, Hook

\* A deploy changes the image, the count and the pin only where somebody wrote that one
\* since the render, or the service could not be read for it.  (deploy.)
THEOREM LiveStays == Spec => KeepsLive
<1>1. Init => FreshRender
  BY DEF Init, FreshRender
<1>2. ASSUME FreshRender, [Next]_vars
      PROVE  [FormApplies /\ Exists /\ ~blind =>
                \A owned \in Owned \ overtaken : svc'[owned] = svc[owned]]_vars
  BY <1>2 DEF FreshRender, FormApplies, SwarmUpdates
<1>3. QED
  BY <1>1, <1>2, TypeInit, TypeStep, FreshStep, PTL DEF Spec, KeepsLive

-----------------------------------------------------------------------------
(* That what was saved reaches the service.                                *)

\* A form that is done, or only has its record to write, has told the service; and what
\* the service was told last is the file, as long as no deploy failed or was reverted.
Told ==
  Exists /\ ~astray =>
    /\ form.at \in {"idle", "read", "record"} => svc.save = saved
    /\ form.at \in {"idle", "check", "read", "record"} => svc.save = file.save

LEMMA ToldStep == Typed /\ Told /\ [Next]_vars => Told'
<1> SUFFICES ASSUME Typed, Told, [Next]_vars PROVE Told'
  OBVIOUS
<1> USE DEF Told, Exists
<1>1. CASE UNCHANGED vars
  BY <1>1 DEF vars
<1>2. CASE Swarm
  BY <1>2 DEF Swarm, RollCompletes, RollReverts, RollSticks
<1>3. ASSUME NEW new \in Specs, SwarmUpdates(new), new.save = svc.save, svc # Absent,
             UNCHANGED <<saved, file, form, ghosts>>
      PROVE  Told'
  BY <1>3 DEF SwarmUpdates, ghosts
<1>4. ASSUME NEW count \in 1..MaxCount, Scales(count) PROVE Told'
  <2>1. [svc EXCEPT !.count = count] \in Specs
        /\ [svc EXCEPT !.count = count].save = svc.save
    BY <1>4 DEF Scales, Typed, TypeOK, Specs
  <2>2. QED
    BY <1>3, <1>4, <2>1 DEF Scales
<1>5. CASE Pins
  <2>1. [svc EXCEPT !.pin = ~@] \in Specs /\ [svc EXCEPT !.pin = ~@].save = svc.save
    BY <1>5 DEF Pins, Typed, TypeOK, Specs
  <2>2. QED
    BY <1>3, <1>5, <2>1 DEF Pins
<1>6. ASSUME NEW for \in {"env", "settings"}, FormSaves(for) PROVE Told'
  BY <1>6 DEF FormSaves, ghosts, Typed, TypeOK
<1>7. CASE FormChecks
  <2>1. Render(TRUE).save = saved
    <3>1. svc \in Specs \cup {Absent} /\ saved \in 0..MaxSaves /\ TRUE \in BOOLEAN
      BY DEF Typed, TypeOK
    <3>2. QED
      BY <3>1, Rendered
  <2>2. NothingToDo => file.save = saved
    BY <2>1 DEF NothingToDo
  <2>3. form'.at = "write" \/ svc = Absent \/ NothingToDo
    BY <1>7 DEF FormChecks, FormAt, Typed, TypeOK
  <2>4. UNCHANGED <<saved, file, svc, astray>> /\ form.at = "check"
    BY <1>7 DEF FormChecks, ghosts
  <2>5. QED
    BY <2>2, <2>3, <2>4
<1>8. CASE FormRedeploys \/ FormWrites \/ FormRetries
  <2>1. form'.at \in {"write", "apply"}
    BY <1>8 DEF FormRedeploys, FormWrites, FormRetries, Typed, TypeOK
  <2>2. QED
    BY <2>1
<1>9. CASE FormApplies
  <2>1. svc' = file /\ file' = file /\ saved' = saved
    BY <1>9 DEF FormApplies, SwarmUpdates
  <2>2. QED
    BY <1>9, <2>1 DEF FormApplies, Typed, SavesCounted
<1>10. CASE FormFails \/ FormStops \/ FormRollsBack
  BY <1>10 DEF FormFails, FormStops, FormRollsBack
<1>11. CASE FormReads \/ FormRecords
  BY <1>11 DEF FormReads, FormRecords, ghosts
<1>12. ASSUME NEW image \in Images, HookPushes(image) PROVE Told'
  <2>1. /\ \/ SwarmUpdates([svc EXCEPT !.image = image]) /\ svc # Absent
           \/ svc' = svc
        /\ UNCHANGED <<saved, file, form, ghosts>>
    BY <1>12 DEF HookPushes
  <2>2. svc # Absent => /\ [svc EXCEPT !.image = image] \in Specs
                        /\ [svc EXCEPT !.image = image].save = svc.save
    BY DEF Typed, TypeOK, Specs
  <2>3. CASE svc' = svc
    BY <2>1, <2>3 DEF ghosts
  <2>4. QED
    BY <1>3, <2>1, <2>2, <2>3
<1>13. CASE HookReads \/ HookRecords \/ Page
  BY <1>13 DEF HookReads, HookRecords, Page, PageAsks, PageReads, PageSettles, ghosts
<1>14. ASSUME NEW id \in 1..(MaxPushes + MaxSaves), Ages(id) PROVE Told'
  BY <1>14 DEF Ages, ghosts
<1>15. QED
  BY <1>1, <1>2, <1>4, <1>5, <1>6, <1>7, <1>8, <1>9, <1>10, <1>11, <1>12, <1>13, <1>14
     DEF Next, Form, Hook, Autoscaler

\* What was saved is what the service was told, once the form is idle.
\* (_deploy_if_needed, pending_changes.)
THEOREM SavesReachTheService == Spec => []SavedIsDeployed
<1>1. Init => Told
  BY DEF Init, Told, Absent
<1>2. Told => SavedIsDeployed
  BY DEF Told, SavedIsDeployed
<1>3. QED
  BY <1>1, <1>2, TypeInit, TypeStep, ToldStep, PTL DEF Spec

-----------------------------------------------------------------------------
(* That "done" was observed.  Requests hold copies of the history, and the *)
(* page a verdict, across other steps: all of them must be true of what    *)
(* completed and of what the service was told to leave.                    *)

\* What entries say of images, each with the rollout it was deployed for.
Claims(entries, status) ==
  {w \in Images \X Nat : \E i \in DOMAIN entries :
     entries[i].status = status /\ entries[i].image = w[1] /\ entries[i].since = w[2]}

\* What a request that Swarm took has still to record.
Asked(request) ==
  {w \in Images \X Nat :
     /\ request.at \in {"read", "record"} /\ request.entry.ok
     /\ request.entry.image = w[1] /\ request.entry.since = w[2]}

ClaimedAs(status) ==
  Claims(history, status) \cup Claims(form.copy, status) \cup Claims(hook.copy, status)
  \cup Claims(page.copy, status)
Waiting == ClaimedAs("pending") \cup Asked(form) \cup Asked(hook)
Done    == ClaimedAs("done")

Ran(w)  == \E c \in completed : c[1] >= w[2] /\ c[2] = w[1]
Left(w) == \E d \in dropped : d[1] + 1 >= w[2] /\ d[2] = w[1]

\* What is awaited is what the service was told last, or it was told to leave it since.
Current(w) == w[2] <= roll.n + 1 /\ ((Exists /\ svc.image = w[1]) \/ Left(w))

\* While every rollout has had a status: the one that is complete has completed, with the
\* image there is; a verdict is of one that completed, and what was awaited then was its
\* image or was left since; what is done ran, or was left.
Dated ==
  /\ \A c \in completed : c[1] <= roll.n
  /\ \A w \in Waiting : Current(w)
  /\ ~undated =>
       /\ roll.state \notin {"creating", "created"}
       /\ roll.state = "completed" /\ Exists => <<roll.n, svc.image>> \in completed
       /\ page.verdict = "done" =>
            \E c \in completed : /\ c[1] = page.started
                                 /\ \A w \in Waiting : w[2] <= c[1] => w[1] = c[2] \/ Left(w)
       /\ \A w \in Done : Ran(w) \/ Left(w)

\* Rollouts are numbered in order, and nothing of the history of the behaviour is lost.
Moves ==
  /\ roll'.n >= roll.n /\ completed \subseteq completed' /\ dropped \subseteq dropped'
  /\ Exists => (Exists' /\ svc'.image = svc.image) \/ <<roll.n, svc.image>> \in dropped'
  /\ undated => undated'

\* What is awaited anew is what the service was told in this step.
Asks ==
  \A w \in Waiting' :
    w \in Waiting \/ (w[2] = roll.n + 1 /\ Exists' /\ svc'.image = w[1])

LEMMA CurrentStays ==
  ASSUME Typed, Typed', Moves, NEW w \in Images \X Nat
  PROVE  /\ Ran(w) => Ran(w)'
         /\ Left(w) => Left(w)'
         /\ Current(w) => Current(w)'
<1>1. roll.n \in Nat /\ roll'.n \in Nat /\ w[2] \in Nat
  BY DEF Typed, TypeOK
<1>2. Ran(w) => Ran(w)'
  BY DEF Ran, Moves
<1>3. Left(w) => Left(w)'
  BY DEF Left, Moves
<1>4. ASSUME Current(w) PROVE Current(w)'
  <2>1. w[2] <= roll'.n + 1
    BY <1>1, <1>4 DEF Current, Moves
  <2>2. CASE Left(w)
    BY <1>3, <2>1, <2>2 DEF Current
  <2>3. CASE Exists /\ svc.image = w[1]
    <3>1. CASE Exists' /\ svc'.image = svc.image
      BY <2>1, <2>3, <3>1 DEF Current
    <3>2. CASE <<roll.n, svc.image>> \in dropped'
      <4>1. Left(w)'
        <5> DEFINE d == <<roll.n, svc.image>>
        <5>1. d \in dropped' /\ d[1] + 1 >= w[2] /\ d[2] = w[1]
          BY <1>1, <1>4, <2>3, <3>2 DEF Current
        <5> HIDE DEF d
        <5>2. QED
          BY <5>1 DEF Left
      <4>2. QED
        BY <2>1, <4>1 DEF Current
    <3>3. QED
      BY <2>3, <3>1, <3>2 DEF Moves
  <2>4. QED
    BY <1>4, <2>2, <2>3 DEF Current
<1>5. QED
  BY <1>2, <1>3, <1>4

\* The invariant lasts through any step that gives no new verdict.
LEMMA DatedLasts ==
  ASSUME Typed, Typed', Dated, Moves, Asks,
         \A c \in completed' : c[1] <= roll'.n,
         ~undated' => roll'.state \notin {"creating", "created"},
         ~undated' /\ roll'.state = "completed" /\ Exists' =>
           <<roll'.n, svc'.image>> \in completed',
         page'.verdict = "done" => page.verdict = "done" /\ page'.started = page.started,
         ~undated => \A w \in Done' : w \in Done \/ Ran(w) \/ Left(w)
  PROVE  Dated'
<1>1. \A w \in Waiting' \cup Waiting \cup Done' : w \in Images \X Nat
  BY DEF Waiting, Done, ClaimedAs, Claims, Asked
<1>2. ASSUME NEW w \in Waiting' PROVE Current(w)'
  <2>1. CASE w \in Waiting
    BY <1>1, <2>1, CurrentStays DEF Dated
  <2>2. CASE w[2] = roll.n + 1 /\ Exists' /\ svc'.image = w[1]
    <3>1. roll.n \in Nat /\ roll'.n \in Nat
      BY DEF Typed, TypeOK
    <3>2. QED
      BY <2>2, <3>1 DEF Current, Moves
  <2>3. QED
    BY <1>2, <2>1, <2>2 DEF Asks
<1>3. ASSUME ~undated', page'.verdict = "done"
      PROVE  \E c \in completed' : /\ c[1] = page'.started
                                   /\ \A w \in Waiting' : w[2] <= c[1] => w[1] = c[2] \/ Left(w)'
  <2>1. ~undated /\ page.verdict = "done" /\ page'.started = page.started
    BY <1>3 DEF Moves
  <2>2. PICK c \in completed :
          /\ c[1] = page.started
          /\ \A w \in Waiting : w[2] <= c[1] => w[1] = c[2] \/ Left(w)
    BY <2>1 DEF Dated
  <2>3. c \in completed' /\ c[1] <= roll.n /\ c[1] \in Nat /\ roll.n \in Nat
    BY <2>2 DEF Dated, Moves, Typed, TypeOK
  <2>4. ASSUME NEW w \in Waiting', w[2] <= c[1] PROVE w[1] = c[2] \/ Left(w)'
    <3>1. w \in Waiting
      BY <2>3, <2>4 DEF Asks
    <3>2. w[1] = c[2] \/ Left(w)
      BY <2>2, <2>4, <3>1
    <3>3. QED
      BY <1>1, <3>1, <3>2, CurrentStays
  <2>5. QED
    BY <2>1, <2>2, <2>3, <2>4
<1>4. ASSUME ~undated', NEW w \in Done' PROVE Ran(w)' \/ Left(w)'
  <2>1. ~undated
    BY <1>4 DEF Moves
  <2>2. Ran(w) \/ Left(w)
    BY <1>4, <2>1 DEF Dated
  <2>3. QED
    BY <1>1, <1>4, <2>2, CurrentStays
<1>5. QED
  BY <1>2, <1>3, <1>4 DEF Dated

\* Bookkeeping: the service, its rollouts and the history of the behaviour are as before.
LEMMA DatedKept ==
  ASSUME Typed, Typed', Dated, Asks,
         UNCHANGED <<roll, svc, completed, dropped, undated>>,
         page'.verdict = "done" => page.verdict = "done" /\ page'.started = page.started,
         ~undated => \A w \in Done' : w \in Done \/ Ran(w) \/ Left(w)
  PROVE  Dated'
<1>1. Moves
  BY DEF Moves, Exists, Typed, TypeOK
<1>2. \A c \in completed' : c[1] <= roll'.n
  BY DEF Dated
<1>3. ~undated' => roll'.state \notin {"creating", "created"}
  BY DEF Dated
<1>4. ~undated' /\ roll'.state = "completed" /\ Exists' => <<roll'.n, svc'.image>> \in completed'
  BY DEF Dated, Exists
<1>5. QED
  BY <1>1, <1>2, <1>3, <1>4, DatedLasts

\* What is done of the service leaves every request and the history as they are.
LEMMA NothingAsked ==
  ASSUME UNCHANGED <<history, page, hook>>, form'.copy = form.copy,
         form' = form \/ form'.at \notin {"read", "record"}
  PROVE  Asks /\ Done' \subseteq Done
<1>1. ClaimedAs("pending")' = ClaimedAs("pending") /\ Done' = Done
  BY DEF ClaimedAs, Done
<1>2. Asked(form)' \subseteq Asked(form) /\ Asked(hook)' = Asked(hook)
  BY DEF Asked
<1>3. QED
  BY <1>1, <1>2 DEF Asks, Waiting

\* A new entry claims what was asked for; it is not done.
LEMMA RecordedClaims ==
  ASSUME NEW req \in Requests, NEW copy \in Seq(Entries), NEW status \in {"pending", "done"},
         NEW w \in Claims(Recorded(req, copy), status)
  PROVE  \/ w \in Claims(copy, status)
         \/ status = "pending" /\ req.ok /\ req.image = w[1] /\ req.since = w[2]
<1> DEFINE new == [id     |-> IF copy = << >> THEN 1 ELSE copy[1].id + 1,
                   image  |-> req.image,
                   status |-> IF req.ok THEN "pending" ELSE "failed",
                   since  |-> req.since,
                   real   |-> roll.n >= req.since]
           all == <<new>> \o copy
<1>1. /\ new.status = status => status = "pending" /\ req.ok
      /\ new.image = req.image /\ new.since = req.since
  BY DEF Requests
<1>2. Recorded(req, copy) = all
  BY DEF Recorded
<1> HIDE DEF new
<1>3. /\ DOMAIN all = 1..(Len(copy) + 1) /\ all[1] = new
      /\ \A i \in 2..(Len(copy) + 1) : all[i] = copy[i - 1]
  OBVIOUS
<1>4. w \in Images \X Nat
  BY DEF Claims
<1>5. PICK i \in DOMAIN all :
        all[i].status = status /\ all[i].image = w[1] /\ all[i].since = w[2]
  BY <1>2 DEF Claims
<1>6. CASE i = 1
  BY <1>1, <1>3, <1>5, <1>6
<1>7. CASE i # 1
  <2>1. i - 1 \in DOMAIN copy /\ all[i] = copy[i - 1]
    BY <1>3, <1>7
  <2>2. QED
    BY <1>4, <1>5, <2>1 DEF Claims
<1>8. QED
  BY <1>6, <1>7

\* Settling awaits nothing new, and says done of what was awaited, of a rollout that began
\* no earlier; expiring says it of nothing.
LEMMA SettledClaims ==
  ASSUME NEW copy \in Seq(Entries), NEW status \in {"pending", "done"}, NEW w,
         w \in Claims(Reconciled(copy), status) \cup Claims(Expired(copy), status)
  PROVE  \/ w \in Claims(copy, status)
         \/ /\ status = "done" /\ page.verdict = "done" /\ w \in Claims(copy, "pending")
            /\ page.started = Undated \/ page.started >= w[2]
<1>1. ASSUME NEW i \in DOMAIN copy
      PROVE  \A s : /\ [copy[i] EXCEPT !.status = s].status = s
                    /\ [copy[i] EXCEPT !.status = s].since = copy[i].since
                    /\ [copy[i] EXCEPT !.status = s].image = copy[i].image
  <2>1. copy[i] \in Entries
    OBVIOUS
  <2>2. QED
    BY <2>1 DEF Entries
<1>2. DOMAIN Reconciled(copy) = DOMAIN copy /\ DOMAIN Expired(copy) = DOMAIN copy
  BY DEF Reconciled, Expired
<1>3. w \in Images \X Nat
  BY DEF Claims
<1>4. CASE w \in Claims(Expired(copy), status)
  <2>1. PICK i \in DOMAIN copy : /\ Expired(copy)[i].status = status
                                 /\ Expired(copy)[i].image = w[1]
                                 /\ Expired(copy)[i].since = w[2]
    BY <1>2, <1>4 DEF Claims
  <2>2. Expired(copy)[i] = copy[i] \/ Expired(copy)[i] = [copy[i] EXCEPT !.status = "stalled"]
    BY DEF Expired
  <2>3. Expired(copy)[i] = copy[i]
    <3>1. [copy[i] EXCEPT !.status = "stalled"].status = "stalled"
      BY <1>1
    <3>2. QED
      BY <2>1, <2>2, <3>1
  <2>4. copy[i].status = status /\ copy[i].image = w[1] /\ copy[i].since = w[2]
    BY <2>1, <2>3
  <2>5. w \in Claims(copy, status)
    BY <1>3, <2>4 DEF Claims
  <2>6. QED
    BY <2>5
<1>5. CASE w \in Claims(Reconciled(copy), status)
  <2>1. PICK i \in DOMAIN copy : /\ Reconciled(copy)[i].status = status
                                 /\ Reconciled(copy)[i].image = w[1]
                                 /\ Reconciled(copy)[i].since = w[2]
    BY <1>2, <1>5 DEF Claims
  <2> DEFINE now == Reconciled(copy)[i]
  <2>2. \/ now = copy[i]
        \/ now = [copy[i] EXCEPT !.status = "superseded"]
        \/ /\ now = [copy[i] EXCEPT !.status = page.verdict] /\ BeganSince(copy[i])
           /\ copy[i].status = "pending" /\ page.verdict \in Settling
    BY DEF Reconciled, Pending
  <2>3. now.status = status /\ now.image = w[1] /\ now.since = w[2]
    BY <2>1
  <2> HIDE DEF now
  <2>4. CASE now = copy[i]
    <3>1. copy[i].status = status /\ copy[i].image = w[1] /\ copy[i].since = w[2]
      BY <2>3, <2>4
    <3>2. w \in Claims(copy, status)
      BY <1>3, <3>1 DEF Claims
    <3>3. QED
      BY <3>2
  <2>5. now # [copy[i] EXCEPT !.status = "superseded"]
    <3>1. [copy[i] EXCEPT !.status = "superseded"].status = "superseded"
      BY <1>1
    <3>2. QED
      BY <2>3, <3>1
  <2>6. CASE /\ now = [copy[i] EXCEPT !.status = page.verdict] /\ BeganSince(copy[i])
             /\ copy[i].status = "pending" /\ page.verdict \in Settling
    <3>1. now.status = page.verdict /\ now.image = copy[i].image /\ now.since = copy[i].since
      BY <1>1, <2>6
    <3>2. status = "done" /\ page.verdict = "done"
      BY <2>3, <2>6, <3>1 DEF Settling
    <3>3. w \in Claims(copy, "pending")
      BY <1>3, <2>3, <2>6, <3>1 DEF Claims
    <3>4. page.started = Undated \/ page.started >= w[2]
      BY <2>3, <2>6, <3>1 DEF BeganSince
    <3>5. QED
      BY <3>2, <3>3, <3>4
  <2>7. QED
    BY <2>2, <2>4, <2>5, <2>6
<1>6. QED
  BY <1>4, <1>5

\* Updates, and what Swarm does of itself, number their rollouts in order; a status says
\* that a rollout is complete only where it was said already.
LEMMA UpdateMoves ==
  ASSUME Typed, Dated, NEW new \in Specs, SwarmUpdates(new), Exists, completed' = completed
  PROVE  /\ Moves /\ Exists' /\ svc' = new
         /\ \A c \in completed' : c[1] <= roll'.n
         /\ ~undated' => roll'.state \notin {"creating", "created"}
         /\ ~undated' /\ roll'.state = "completed" /\ Exists' =>
              <<roll'.n, svc'.image>> \in completed'
<1>1. roll \in [n : Nat, state : States] /\ svc \in Specs /\ completed \subseteq Nat \X Images
  BY DEF Typed, TypeOK, Exists
<1>2. svc' = new /\ Exists'
  BY DeployConstants DEF SwarmUpdates, Exists, Specs, Absent, DeployConstants
<1>3. dropped \subseteq dropped' /\ (svc'.image = svc.image \/ <<roll.n, svc.image>> \in dropped')
  BY DEF SwarmUpdates, Drops
<1>4. \/ roll' = [n |-> roll.n + 1, state |-> "updating"] /\ undated' = undated
      \/ /\ [new EXCEPT !.count = svc.count] = svc
         /\ \/ UNCHANGED <<roll, undated>>
            \/ roll'.n = roll.n /\ undated' = TRUE
  BY <1>1 DEF SwarmUpdates
<1>5. [new EXCEPT !.count = svc.count] = svc => new.image = svc.image
  BY <1>1 DEF Specs
<1>6. roll'.n >= roll.n /\ (undated => undated')
  BY <1>1, <1>4
<1>7. Moves
  BY <1>2, <1>3, <1>6 DEF Moves
<1>8. \A c \in completed' : c[1] <= roll'.n
  <2> SUFFICES ASSUME NEW c \in completed PROVE c[1] <= roll'.n
    OBVIOUS
  <2>1. c[1] <= roll.n /\ c[1] \in Nat
    BY <1>1 DEF Dated
  <2>2. roll'.n \in Nat
    BY <1>1, <1>4
  <2>3. QED
    BY <1>1, <1>6, <2>1, <2>2
<1>9. ~undated' => roll'.state \notin {"creating", "created"}
  BY <1>4 DEF Dated
<1>10. ~undated' /\ roll'.state = "completed" => <<roll'.n, svc'.image>> \in completed'
  BY <1>2, <1>4, <1>5 DEF Dated
<1>11. QED
  BY <1>2, <1>7, <1>8, <1>9, <1>10

\* Swarm's steps, the autoscaler's, and the form's orders to stop and to go back.
LEMMA DatedOthers ==
  ASSUME Typed, Typed', Dated,
         Swarm \/ Autoscaler \/ FormStops \/ FormRollsBack
  PROVE  Dated'
<1>0. /\ roll \in [n : Nat, state : States] /\ svc \in Specs \cup {Absent}
      /\ completed \subseteq Nat \X Images
  BY DEF Typed, TypeOK
<1>1. UNCHANGED <<history, page, hook, form>>
  BY DEF Swarm, Autoscaler, RollCompletes, RollReverts, RollSticks, Scales, Pins, FormStops,
         FormRollsBack
<1>2. Asks /\ Done' \subseteq Done
  BY <1>1, NothingAsked
<1>3. ASSUME Moves,
             \A c \in completed' : c[1] <= roll'.n,
             ~undated' => roll'.state \notin {"creating", "created"},
             ~undated' /\ roll'.state = "completed" /\ Exists' =>
               <<roll'.n, svc'.image>> \in completed'
      PROVE  Dated'
  BY <1>1, <1>2, <1>3, DatedLasts
<1>4. CASE RollCompletes
  <2>1. /\ roll'.n = roll.n /\ UNCHANGED <<svc, dropped, undated>> /\ Exists
        /\ completed' = completed \cup {<<roll.n, svc.image>>}
        /\ roll.state \in {"creating", "created"} \/ roll'.state = "completed"
    BY <1>0, <1>4 DEF RollCompletes
  <2>2. Moves
    BY <1>0, <2>1 DEF Moves, Exists
  <2>3. \A c \in completed' : c[1] <= roll'.n
    <3>1. <<roll.n, svc.image>>[1] = roll.n
      OBVIOUS
    <3>2. QED
      BY <1>0, <2>1, <3>1 DEF Dated
  <2>4. QED
    BY <1>3, <2>1, <2>2, <2>3 DEF Dated
<1>5. CASE RollSticks
  <2>1. /\ roll'.n = roll.n /\ roll'.state = "stuck"
        /\ UNCHANGED <<svc, dropped, undated, completed>>
    BY <1>0, <1>5 DEF RollSticks
  <2>2. Moves
    BY <1>0, <2>1 DEF Moves, Exists
  <2>3. QED
    BY <1>3, <2>1, <2>2 DEF Dated
<1>6. CASE RollReverts \/ FormStops \/ FormRollsBack
  <2>1. Drops /\ UNCHANGED <<completed, undated>>
    BY <1>6 DEF RollReverts, FormStops, FormRollsBack
  <2>2. /\ roll'.n = roll.n \/ roll'.n = roll.n + 1
        /\ \/ roll'.state = "reverted"
           \/ roll' = roll /\ ~Exists'
    BY <1>0, <1>6 DEF RollReverts, FormStops, FormRollsBack, Exists
  <2>3. dropped \subseteq dropped'
    BY <2>1 DEF Drops
  <2>4. (Exists' /\ svc'.image = svc.image) \/ <<roll.n, svc.image>> \in dropped'
    BY <2>1 DEF Drops, Exists
  <2>5. roll'.n >= roll.n
    BY <1>0, <2>2
  <2>6. Moves
    BY <2>1, <2>3, <2>4, <2>5 DEF Moves
  <2>7. \A c \in completed' : c[1] <= roll'.n
    <3> SUFFICES ASSUME NEW c \in completed PROVE c[1] <= roll'.n
      BY <2>1
    <3>1. c[1] <= roll.n /\ c[1] \in Nat /\ roll'.n \in Nat
      BY <1>0, <2>2 DEF Dated
    <3>2. QED
      BY <1>0, <2>5, <3>1
  <2>8. ~undated' => roll'.state \notin {"creating", "created"}
    BY <2>1, <2>2 DEF Dated
  <2>9. ~undated' /\ roll'.state = "completed" /\ Exists' =>
          <<roll'.n, svc'.image>> \in completed'
    BY <2>2
  <2>10. QED
    BY <1>3, <2>6, <2>7, <2>8, <2>9
<1>7. CASE Autoscaler
  <2>1. PICK new \in Specs : SwarmUpdates(new)
    <3>1. ASSUME NEW count \in 1..MaxCount, Scales(count)
          PROVE  [svc EXCEPT !.count = count] \in Specs
                 /\ SwarmUpdates([svc EXCEPT !.count = count])
      BY <1>0, <3>1 DEF Scales, Exists, Specs
    <3>2. CASE Pins
      <4>1. [svc EXCEPT !.pin = ~@] \in Specs /\ SwarmUpdates([svc EXCEPT !.pin = ~@])
        BY <1>0, <3>2 DEF Pins, Exists, Specs
      <4>2. QED
        BY <4>1
    <3>3. QED
      BY <1>7, <3>1, <3>2 DEF Autoscaler
  <2>2. Exists /\ completed' = completed
    BY <1>7 DEF Autoscaler, Scales, Pins, ghosts
  <2>3. QED
    BY <1>3, <2>1, <2>2, UpdateMoves
<1>8. QED
  BY <1>4, <1>5, <1>6, <1>7 DEF Swarm

\* The form's other steps, up to what it asks of Swarm.
LEMMA DatedForm ==
  ASSUME Typed, Typed', Dated,
         \/ \E for \in {"env", "settings"} : FormSaves(for)
         \/ FormChecks \/ FormRedeploys \/ FormWrites \/ FormRetries
         \/ FormApplies \/ FormFails
  PROVE  Dated'
<1>0. /\ roll \in [n : Nat, state : States] /\ svc \in Specs \cup {Absent}
      /\ completed \subseteq Nat \X Images
  BY DEF Typed, TypeOK
<1>1. UNCHANGED <<history, page, hook, completed>> /\ form'.copy = form.copy
  <2>1. ASSUME NEW for \in {"env", "settings"}, FormSaves(for)
        PROVE  UNCHANGED <<history, page, hook, completed>> /\ form'.copy = form.copy
    BY <2>1 DEF FormSaves, ghosts, Typed, TypeOK
  <2>2. CASE FormChecks \/ FormRedeploys \/ FormWrites \/ FormRetries
    BY <2>2 DEF FormChecks, FormAt, FormRedeploys, FormWrites, FormRetries, ghosts, Typed,
                TypeOK
  <2>3. CASE FormApplies \/ FormFails
    BY <2>3 DEF FormApplies, FormFails, Ended, Typed, TypeOK
  <2>4. QED
    BY <2>1, <2>2, <2>3
<1>2. CASE \/ \E for \in {"env", "settings"} : FormSaves(for)
           \/ FormChecks \/ FormRedeploys \/ FormWrites \/ FormRetries
  <2>1. form'.at \notin {"read", "record"} /\ UNCHANGED <<roll, svc, dropped, undated>>
    <3>1. ASSUME NEW for \in {"env", "settings"}, FormSaves(for)
          PROVE  form'.at \notin {"read", "record"} /\ UNCHANGED <<roll, svc, dropped, undated>>
      BY <3>1 DEF FormSaves, Typed, TypeOK
    <3>2. CASE FormChecks \/ FormRedeploys \/ FormWrites \/ FormRetries
      BY <3>2 DEF FormChecks, FormAt, FormRedeploys, FormWrites, FormRetries, Typed, TypeOK
    <3>3. QED
      BY <1>2, <3>1, <3>2
  <2>2. QED
    BY <1>1, <2>1, NothingAsked, DatedKept
<1>3. CASE FormApplies \/ FormFails
  <2>1. Done' = Done /\ ClaimedAs("pending")' = ClaimedAs("pending") /\ Asked(hook)' = Asked(hook)
    BY <1>1 DEF Done, ClaimedAs, Asked
  <2>2. /\ form'.entry.since = roll.n + 1 /\ form'.entry.image = svc'.image
        /\ form'.entry.ok => FormApplies
    <3>1. \E ok \in BOOLEAN : Ended(ok) /\ (ok => FormApplies)
      BY <1>3 DEF FormApplies, FormFails
    <3>2. QED
      BY <3>1 DEF Ended, Typed, TypeOK
  <2>3. FormApplies => Exists' /\ file \in Specs /\ svc' = file
    <3> SUFFICES ASSUME FormApplies PROVE Exists' /\ file \in Specs /\ svc' = file
      OBVIOUS
    <3>1. svc' = file /\ file.save = saved /\ saved \in 0..MaxSaves /\ file \in Specs \cup {Absent}
      BY DEF FormApplies, SwarmUpdates, Typed, TypeOK, SavesCounted
    <3>2. file # Absent
      BY <3>1, DeployConstants DEF Absent, DeployConstants
    <3>3. QED
      BY <3>1, <3>2 DEF Exists
  <2>4. Asks
    BY <2>1, <2>2, <2>3 DEF Asks, Waiting, Asked
  <2>5. CASE FormFails
    <3>1. UNCHANGED <<roll, svc, dropped, undated>>
      BY <2>5 DEF FormFails
    <3>2. QED
      BY <1>1, <2>1, <2>4, <3>1, DatedKept
  <2>6. CASE FormApplies /\ Exists
    <3>1. SwarmUpdates(file)
      BY <2>6 DEF FormApplies
    <3>2. QED
      BY <1>1, <2>1, <2>3, <2>4, <2>6, <3>1, UpdateMoves, DatedLasts
  <2>7. CASE FormApplies /\ ~Exists
    <3>1. undated' = TRUE /\ dropped' = dropped /\ roll'.n = roll.n + 1
      BY <2>7 DEF FormApplies
    <3>2. Moves
      BY <1>0, <1>1, <2>7, <3>1 DEF Moves
    <3>3. \A c \in completed' : c[1] <= roll'.n
      <4> SUFFICES ASSUME NEW c \in completed PROVE c[1] <= roll.n + 1
        BY <1>1, <3>1
      <4>1. c[1] <= roll.n /\ c[1] \in Nat
        BY <1>0 DEF Dated
      <4>2. QED
        BY <1>0, <4>1
    <3>4. QED
      BY <1>1, <2>1, <2>4, <3>1, <3>2, <3>3, DatedLasts
  <2>8. QED
    BY <1>3, <2>5, <2>6, <2>7
<1>4. QED
  BY <1>2, <1>3

\* A push is awaited only where Swarm took it.
LEMMA DatedPushes ==
  ASSUME Typed, Typed', Dated, NEW image \in Images, HookPushes(image)
  PROVE  Dated'
<1>1. UNCHANGED <<history, page, form, completed>> /\ hook'.copy = hook.copy
  BY DEF HookPushes, ghosts, Typed, TypeOK
<1>2. PICK taken \in BOOLEAN :
        /\ taken => Exists
        /\ IF taken THEN SwarmUpdates([svc EXCEPT !.image = image])
                    ELSE UNCHANGED <<svc, prev, roll, overtaken, dropped, undated>>
        /\ hook'.entry.ok => taken
        /\ hook'.entry.image = image /\ hook'.entry.since = roll.n + 1
  BY DEF HookPushes, Typed, TypeOK
<1>3. Done' = Done /\ ClaimedAs("pending")' = ClaimedAs("pending") /\ Asked(form)' = Asked(form)
  BY <1>1 DEF Done, ClaimedAs, Asked
<1>4. Exists => /\ [svc EXCEPT !.image = image] \in Specs
                /\ [svc EXCEPT !.image = image].image = image
  BY DEF Typed, TypeOK, Exists, Specs
<1>5. CASE taken
  <2>1. Exists' /\ svc'.image = image
    BY <1>1, <1>2, <1>4, <1>5, UpdateMoves
  <2>2. Asks
    BY <1>2, <1>3, <2>1 DEF Asks, Waiting, Asked
  <2>3. QED
    BY <1>1, <1>2, <1>3, <1>4, <1>5, <2>2, UpdateMoves, DatedLasts
<1>6. CASE ~taken
  <2>1. Asked(hook)' = {}
    BY <1>2, <1>6 DEF Asked
  <2>2. Asks
    BY <1>3, <2>1 DEF Asks, Waiting
  <2>3. QED
    BY <1>1, <1>2, <1>3, <1>6, <2>2, DatedKept
<1>7. QED
  BY <1>5, <1>6

\* The history is read and written: what is claimed moves from one copy to another.
LEMMA DatedRecords ==
  ASSUME Typed, Typed', Dated, FormReads \/ FormRecords \/ HookReads \/ HookRecords
  PROVE  Dated'
<1>0. /\ form.copy \in Seq(Entries) /\ form.entry \in Requests
      /\ hook.copy \in Seq(Entries) /\ hook.entry \in Requests
  BY DEF Typed, TypeOK
<1>1. UNCHANGED <<page, roll, svc, completed, dropped, undated>>
  BY DEF FormReads, FormRecords, HookReads, HookRecords, ghosts
<1>2. \A status : Claims(<< >>, status) = {}
  BY DEF Claims
<1>3. ASSUME Waiting' \subseteq Waiting, Done' \subseteq Done PROVE Dated'
  BY <1>1, <1>3, DatedKept DEF Asks
<1>4. CASE FormReads
  <2>1. /\ UNCHANGED <<history, hook, page>> /\ form'.copy = history
        /\ form'.entry = form.entry /\ form.at = "read"
    BY <1>4 DEF FormReads, Typed, TypeOK
  <2>2. \A status : ClaimedAs(status)' \subseteq ClaimedAs(status)
    BY <2>1 DEF ClaimedAs
  <2>3. Asked(form)' \subseteq Asked(form) /\ Asked(hook)' = Asked(hook)
    BY <2>1 DEF Asked
  <2>4. QED
    BY <1>3, <2>2, <2>3 DEF Waiting, Done
<1>5. CASE HookReads
  <2>1. /\ UNCHANGED <<history, form, page>> /\ hook'.copy = history
        /\ hook'.entry = hook.entry /\ hook.at = "read"
    BY <1>5 DEF HookReads, ghosts, Typed, TypeOK
  <2>2. \A status : ClaimedAs(status)' \subseteq ClaimedAs(status)
    BY <2>1 DEF ClaimedAs
  <2>3. Asked(hook)' \subseteq Asked(hook) /\ Asked(form)' = Asked(form)
    BY <2>1 DEF Asked
  <2>4. QED
    BY <1>3, <2>2, <2>3 DEF Waiting, Done
<1>6. CASE FormRecords
  <2>1. /\ UNCHANGED <<hook, page>> /\ form'.copy = << >> /\ form'.at = "idle"
        /\ history' = Recorded(form.entry, form.copy) /\ form.at = "record"
    BY <1>6 DEF FormRecords, Typed, TypeOK
  <2>2. Claims(history', "pending") \subseteq Claims(form.copy, "pending") \cup Asked(form)
        /\ Claims(history', "done") \subseteq Claims(form.copy, "done")
    <3>1. \A status : \A w \in Claims(history', status) : w \in Images \X Nat
      BY DEF Claims
    <3>2. QED
      BY <1>0, <2>1, <3>1, RecordedClaims DEF Asked
  <2>3. Asked(form)' = {} /\ Asked(hook)' = Asked(hook)
    BY <2>1 DEF Asked
  <2>4. QED
    BY <1>2, <1>3, <2>1, <2>2, <2>3 DEF Waiting, Done, ClaimedAs
<1>7. CASE HookRecords
  <2>1. /\ UNCHANGED <<form, page>> /\ hook'.copy = << >> /\ hook'.at = "idle"
        /\ history' = Recorded(hook.entry, hook.copy) /\ hook.at = "record"
    BY <1>7 DEF HookRecords, ghosts, Typed, TypeOK
  <2>2. Claims(history', "pending") \subseteq Claims(hook.copy, "pending") \cup Asked(hook)
        /\ Claims(history', "done") \subseteq Claims(hook.copy, "done")
    <3>1. \A status : \A w \in Claims(history', status) : w \in Images \X Nat
      BY DEF Claims
    <3>2. QED
      BY <1>0, <2>1, <3>1, RecordedClaims DEF Asked
  <2>3. Asked(hook)' = {} /\ Asked(form)' = Asked(form)
    BY <2>1 DEF Asked
  <2>4. QED
    BY <1>2, <1>3, <2>1, <2>2, <2>3 DEF Waiting, Done, ClaimedAs
<1>8. QED
  BY <1>4, <1>5, <1>6, <1>7

\* The page takes a verdict on what is awaited now; it settles what was awaited then.
LEMMA DatedPage ==
  ASSUME Typed, Typed', Dated, Page
  PROVE  Dated'
<1>0. /\ roll \in [n : Nat, state : States] /\ page.copy \in Seq(Entries)
      /\ completed \subseteq Nat \X Images
  BY DEF Typed, TypeOK
<1>1. UNCHANGED <<form, hook, roll, svc, completed, dropped, undated>>
  BY DEF Page, PageAsks, PageReads, PageSettles, ghosts
<1>2. Asked(form)' = Asked(form) /\ Asked(hook)' = Asked(hook)
  BY <1>1 DEF Asked
<1>3. CASE PageAsks
  <2>1. /\ UNCHANGED history /\ page'.copy = page.copy
        /\ page'.verdict = Verdict /\ page'.started = Started
    BY <1>3 DEF PageAsks, Typed, TypeOK
  <2>2. Waiting' = Waiting /\ Done' = Done
    BY <1>1, <1>2, <2>1 DEF Waiting, Done, ClaimedAs
  <2>3. ASSUME ~undated, Verdict = "done"
        PROVE  \E c \in completed : /\ c[1] = Started
                                    /\ \A w \in Waiting : w[2] <= c[1] => w[1] = c[2] \/ Left(w)
    <3>1. Exists /\ roll.state = "completed"
      BY <1>0, <2>3 DEF Verdict, States, Dated
    <3>2. <<roll.n, svc.image>> \in completed /\ Started = roll.n
      BY <2>3, <3>1 DEF Dated, Started
    <3>3. \A w \in Waiting : w[1] = svc.image \/ Left(w)
      BY DEF Dated, Current
    <3>4. QED
      BY <3>2, <3>3
  <2>4. \A w \in Waiting : Current(w)' = Current(w) /\ Left(w)' = Left(w)
    BY <1>1 DEF Current, Left, Exists
  <2>5. \A w \in Done : Ran(w)' = Ran(w) /\ Left(w)' = Left(w)
    BY <1>1 DEF Ran, Left
  <2>6. QED
    BY <1>1, <2>1, <2>2, <2>3, <2>4, <2>5 DEF Dated, Exists
<1>4. CASE PageReads
  <2>1. /\ UNCHANGED history /\ page'.copy = history
        /\ page'.verdict = page.verdict /\ page'.started = page.started
    BY <1>4 DEF PageReads, ghosts, Typed, TypeOK
  <2>2. \A status : ClaimedAs(status)' \subseteq ClaimedAs(status)
    BY <1>1, <2>1 DEF ClaimedAs
  <2>3. QED
    BY <1>1, <1>2, <2>1, <2>2, DatedKept DEF Asks, Waiting, Done
<1>5. CASE PageSettles
  <2>1. /\ page'.copy = << >> /\ page'.verdict = "none"
        /\ history' \in {Reconciled(page.copy), Expired(page.copy), history}
    BY <1>5 DEF PageSettles, Typed, TypeOK
  <2>2. \A status : Claims(<< >>, status) = {}
    BY DEF Claims
  <2>3. Claims(history', "pending") \subseteq ClaimedAs("pending")
    BY <1>0, <2>1, SettledClaims DEF ClaimedAs
  <2>4. ASSUME ~undated, NEW w \in Claims(history', "done")
        PROVE  w \in Done \/ Ran(w) \/ Left(w)
    <3>1. CASE w \in Claims(page.copy, "done") \cup Claims(history, "done")
      BY <3>1 DEF Done, ClaimedAs
    <3>2. CASE /\ page.verdict = "done" /\ w \in Claims(page.copy, "pending")
               /\ page.started = Undated \/ page.started >= w[2]
      <4>1. PICK c \in completed :
              /\ c[1] = page.started
              /\ \A v \in Waiting : v[2] <= c[1] => v[1] = c[2] \/ Left(v)
        BY <2>4, <3>2 DEF Dated
      <4>2. w \in Waiting /\ w[2] \in Nat /\ c[1] \in Nat
        BY <1>0, <3>2 DEF Waiting, ClaimedAs, Claims
      <4>3. c[1] >= w[2]
        BY <3>2, <4>1, <4>2 DEF Undated
      <4>4. w[1] = c[2] \/ Left(w)
        BY <4>1, <4>2, <4>3
      <4>5. QED
        BY <4>3, <4>4 DEF Ran
    <3>3. QED
      BY <1>0, <2>1, <2>4, <3>1, <3>2, SettledClaims
  <2>5. Waiting' \subseteq Waiting
    BY <1>1, <1>2, <2>1, <2>2, <2>3 DEF Waiting, ClaimedAs
  <2>6. ~undated => \A w \in Done' : w \in Done \/ Ran(w) \/ Left(w)
    BY <1>1, <2>1, <2>2, <2>4 DEF Done, ClaimedAs
  <2>7. QED
    BY <1>1, <2>1, <2>5, <2>6, DatedKept DEF Asks
<1>6. QED
  BY <1>3, <1>4, <1>5 DEF Page

LEMMA DatedStep == Typed /\ Dated /\ [Next]_vars => Dated'
<1> SUFFICES ASSUME Typed, Dated, [Next]_vars PROVE Dated'
  OBVIOUS
<1>1. Typed'
  BY TypeStep
<1>2. ASSUME UNCHANGED <<form, hook, page, history, roll, svc, completed, dropped, undated>>
      PROVE  Dated'
  <2>1. Asks /\ Done' \subseteq Done
    BY <1>2, NothingAsked
  <2>2. QED
    BY <1>1, <1>2, <2>1, DatedKept
<1>3. CASE UNCHANGED vars
  BY <1>2, <1>3 DEF vars
<1>4. ASSUME NEW id \in 1..(MaxPushes + MaxSaves), Ages(id) PROVE Dated'
  BY <1>2, <1>4 DEF Ages, ghosts
<1>5. CASE Next
  BY <1>1, <1>4, <1>5, DatedOthers, DatedForm, DatedPushes, DatedRecords, DatedPage
     DEF Next, Form, Hook
<1>6. QED
  BY <1>3, <1>5

LEMMA DatedInit == Init => Dated
<1> SUFFICES ASSUME Init PROVE Dated
  OBVIOUS
<1>1. completed = {<<0, FirstImage>>} /\ roll.n = 0 /\ roll.state = "completed"
      /\ svc.image = FirstImage /\ page.verdict = "none"
  BY DEF Init, Absent
<1>2. Waiting = {} /\ Done = {}
  BY DEF Init, Waiting, Done, ClaimedAs, Claims, Asked
<1>3. <<0, FirstImage>>[1] = 0
  OBVIOUS
<1>4. QED
  BY <1>1, <1>2, <1>3 DEF Dated

\* "done" is observed: the image completed a rollout begun no earlier than the deploy, or
\* the service was told to leave it since, whoever wrote the history in between.
\* (reconcile.)
THEOREM DoneStaysObserved == Spec => []DoneIsObserved
<1>1. Typed /\ Dated => DoneIsObserved
  <2> SUFFICES ASSUME Typed, Dated, ~undated, NEW i \in DOMAIN history,
                      history[i].status = "done"
               PROVE  Observed(history[i]) \/ TakenOff(history[i])
    BY DEF DoneIsObserved
  <2> DEFINE w == <<history[i].image, history[i].since>>
  <2>1. w \in Images \X Nat /\ w[1] = history[i].image /\ w[2] = history[i].since
    <3>1. history[i] \in Entries
      BY DEF Typed, TypeOK
    <3>2. QED
      BY <3>1 DEF Entries
  <2> HIDE DEF w
  <2>2. w \in Done
    BY <2>1 DEF Done, ClaimedAs, Claims
  <2>3. QED
    BY <2>1, <2>2 DEF Dated, Ran, Left, Observed, TakenOff
<1>2. QED
  BY <1>1, DatedInit, TypeInit, TypeStep, DatedStep, PTL DEF Spec
=============================================================================
