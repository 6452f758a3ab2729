------------------------------- MODULE Upkeep -------------------------------
(***************************************************************************)
(* The housekeeping of dataguard's loop and the panel's side of it.  The   *)
(* four chores share no state and are done one after the other by the one  *)
(* thread that runs the loop; here each behaviour follows one of them.     *)
(***************************************************************************)
EXTENDS Certificates, Viewers, Migrations, Backups

VARIABLE chore
upkeepVars == <<chore, certVars, viewVars, migVars, bakVars>>

TypeOK == /\ CertTypeOK /\ ViewTypeOK /\ MigTypeOK /\ BakTypeOK
          /\ chore \in {"certificates", "viewers", "migrations", "backups"}

Init == /\ CertInit /\ ViewInit /\ MigInit /\ BakInit
        /\ chore \in {"certificates", "viewers", "migrations", "backups"}

Next ==
  /\ chore' = chore
  /\ \/ /\ chore = "certificates" /\ CertNext
        /\ UNCHANGED <<viewVars, migVars, bakVars>>
     \/ /\ chore = "viewers" /\ ViewNext
        /\ UNCHANGED <<certVars, migVars, bakVars>>
     \/ /\ chore = "migrations" /\ MigNext
        /\ UNCHANGED <<certVars, viewVars, bakVars>>
     \/ /\ chore = "backups" /\ BakNext
        /\ UNCHANGED <<certVars, viewVars, migVars>>

Spec == Init /\ [][Next]_upkeepVars

FairSpec == /\ Spec
            /\ chore = "certificates" => CertFairness
            /\ chore = "viewers" => ViewFairness
            /\ chore = "migrations" => MigFairness
            /\ chore = "backups" => BakFairness

\* A component with a target gets a backup again and again, whatever was forgotten.
\* (take_scheduled_backup; refusals hold every change of shape until it has.)
BackupsTaken == chore = "backups" => SomeBackupTaken
=============================================================================
