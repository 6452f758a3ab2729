SPECIFICATION FairSpec
CONSTANTS
  CertMembers = {1, 2}
  MaxDue = 2
  MaxSaves = 1
  MaxCertErrors = 1
  Consoles = {"viewer", "grafana"}
  MaxOpens = 2
  MaxViewErrors = 1
  MaxRuns = 2
  MaxMigErrors = 1
  Keep = 2
  MaxSnapshots = 5
  MaxBackupErrors = 1
  MaxForgets = 1
  MaxManual = 1
PROPERTIES
  CertificatesRenewed
  PutAway
  CredentialsGo
  
  RetentionKeeps
  BackupsTaken
CHECK_DEADLOCK FALSE
