---------------------------- MODULE Certificates ----------------------------
(***************************************************************************)
(* The member certificates of one replica set. The panel issues them when  *)
(* it deploys the component; dataguard renews them, one member a pass,     *)
(* because a renewal restarts the member; nothing waits for the end of     *)
(* that restart, and it is left out. Each certificate exists three times:  *)
(* the file both write, the newest version of the Swarm secret, and the    *)
(* version the member's service mounts.                                    *)
(*                                                                         *)
(* A certificate is "due" when it is about to expire or does not name      *)
(* every host; the two are told apart by nobody.  Certificates of a member *)
(* become due together, and a set is rendered again whole.                 *)
(***************************************************************************)
EXTENDS Integers, FiniteSets

CONSTANTS CertMembers,    \* member indexes
          MaxDue,         \* bound: times a member's certificates become due
          MaxSaves,       \* bound: deploys from the panel
          MaxCertErrors   \* bound: calls to Docker that fail

ASSUME CertConstants == /\ CertMembers \subseteq Nat \ {0}
                        /\ {MaxDue, MaxSaves, MaxCertErrors} \subseteq Nat

VARIABLES file,      \* per member: "due" or "good"
          newest,    \* the newest version of its secret, likewise
          mount,     \* the version its service mounts, likewise
          renewing,  \* dataguard: <<what it does next, for which member>>
          rendered,  \* the panel: the versions its stack file names, or << >>
          certSpent
certVars == <<file, newest, mount, renewing, rendered, certSpent>>

CertEvents == {"due", "save", "error"}
CertBound == [due |-> MaxDue, save |-> MaxSaves, error |-> MaxCertErrors]
CertSpend(e) == /\ certSpent[e] < CertBound[e]
                /\ certSpent' = [certSpent EXCEPT ![e] = @ + 1]
Idle == <<"idle", 0>>
Contents == {"due", "good"}

CertTypeOK ==
  /\ file \in [CertMembers -> Contents] /\ newest \in [CertMembers -> Contents]
  /\ mount \in [CertMembers -> Contents]
  /\ renewing \in {Idle} \cup ({"secret", "swap"} \X CertMembers)
  /\ rendered = << >> \/ rendered \in [CertMembers -> Contents]
  /\ certSpent \in [CertEvents -> Nat]

\* A component that was deployed, all of it in order.
CertInit ==
  /\ file = [m \in CertMembers |-> "good"]
  /\ newest = file /\ mount = file
  /\ renewing = Idle /\ rendered = << >>
  /\ certSpent = [e \in CertEvents |-> 0]

-----------------------------------------------------------------------------
Aged(c) == IF c = "good" THEN "due" ELSE c
BecomesDue(m) ==
  /\ file[m] = "good" /\ CertSpend("due")
  /\ file' = [file EXCEPT ![m] = Aged(@)]
  /\ newest' = [newest EXCEPT ![m] = Aged(@)]
  /\ mount' = [mount EXCEPT ![m] = Aged(@)]
  /\ rendered' = IF rendered = << >> THEN rendered
                 ELSE [rendered EXCEPT ![m] = Aged(@)]
  /\ UNCHANGED renewing

-----------------------------------------------------------------------------
(* dataguard.ensure_tls.                                                   *)

\* The first member whose file is due; the next pass sees to the next.
FirstDue == {m \in CertMembers : file[m] = "due" /\ \A n \in CertMembers :
                                                        n < m => file[n] # "due"}

\* One renewal a pass.  The file comes first, and is what a later pass decides by.
DgWrites(m) ==
  /\ renewing = Idle /\ m \in FirstDue
  /\ file' = [file EXCEPT ![m] = "good"] /\ renewing' = <<"secret", m>>
  /\ UNCHANGED <<newest, mount, rendered, certSpent>>

\* A call that fails ends the pass for this component.
DgFails ==
  /\ renewing # Idle /\ CertSpend("error") /\ renewing' = Idle
  /\ UNCHANGED <<file, newest, mount, rendered>>

DgMakesSecret(m) ==
  /\ renewing = <<"secret", m>>
  /\ newest' = [newest EXCEPT ![m] = "good"] /\ renewing' = <<"swap", m>>
  /\ UNCHANGED <<file, mount, rendered, certSpent>>

\* Mutant of DgSwaps: the new secret is made, and the service not told.
DgSwapsNothing(m) ==
  /\ renewing = <<"swap", m>> /\ renewing' = Idle
  /\ UNCHANGED <<file, newest, mount, rendered, certSpent>>

DgSwaps(m) ==
  /\ renewing = <<"swap", m>>
  /\ mount' = [mount EXCEPT ![m] = newest[m]]
  /\ renewing' = Idle
  /\ UNCHANGED <<file, newest, rendered, certSpent>>

-----------------------------------------------------------------------------
(* MongoComponent.ensure_tls, and the deploy.                              *)

\* What is due is issued anew; a file that is good keeps the secret there is.
Issued(m) == IF file[m] = "good" THEN newest[m] ELSE "good"

PanelRenders ==
  /\ rendered = << >> /\ CertSpend("save")
  /\ file' = [m \in CertMembers |-> "good"]
  /\ newest' = [m \in CertMembers |-> Issued(m)]
  /\ rendered' = newest'
  /\ UNCHANGED <<mount, renewing>>

\* The secret of one member cannot be created: its file is written, nothing is deployed.
PanelFails ==
  /\ rendered = << >> /\ certSpent.error < MaxCertErrors /\ certSpent.save < MaxSaves
  /\ certSpent' = [certSpent EXCEPT !.save = @ + 1, !.error = @ + 1]
  /\ \E m \in CertMembers :
       /\ file[m] # "good"
       /\ file' = [n \in CertMembers |-> IF n <= m THEN "good" ELSE file[n]]
       /\ newest' = [n \in CertMembers |-> IF n < m THEN Issued(n) ELSE newest[n]]
  /\ UNCHANGED <<mount, renewing, rendered>>

\* Every member whose secret changed is told, all at once.
PanelDeploys ==
  /\ rendered # << >>
  /\ mount' = rendered
  /\ rendered' = << >>
  /\ UNCHANGED <<file, newest, renewing, certSpent>>

CertNext ==
  \/ DgFails \/ PanelRenders \/ PanelFails \/ PanelDeploys
  \/ \E m \in CertMembers :
       BecomesDue(m) \/ DgWrites(m) \/ DgMakesSecret(m) \/ DgSwaps(m)

CertFairness ==
  /\ WF_certVars(PanelDeploys)
  /\ \A m \in CertMembers : /\ WF_certVars(DgWrites(m)) /\ WF_certVars(DgMakesSecret(m))
                            /\ WF_certVars(DgSwaps(m))

-----------------------------------------------------------------------------
\* A member ends up with a certificate that is good, when no call fails and no renewal
\* lands between the panel's rendering and its deploy.  (ensure_tls.)
Overtaken == rendered # << >> /\ \E m \in CertMembers : rendered[m] # newest[m]
CertificatesRenewed ==
  [](certSpent["error"] = 0 /\ ~Overtaken) =>
    \A m \in CertMembers : <>[](mount[m] = "good")
=============================================================================
