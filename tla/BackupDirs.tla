----------------------------- MODULE BackupDirs -----------------------------
(***************************************************************************)
(* Where the files of a backup are (gpbckpconfig/utils.go, cmd/wrappers.go  *)
(* and GetReportFilePathPlugin of gpbckpconfig/struct.go).  A home is a    *)
(* pair <<dir, prefix>>:                                                   *)
(*   <<dir, "">>      the layout of --single-backup-dir: dir/backups        *)
(*   <<dir, prefix>>  dir/<prefix><content id>/backups, for each segment    *)
(* and content -1 is the coordinator.                                      *)
(***************************************************************************)
EXTENDS FiniteSets

NoHome == <<"", "">>

\* What the calls on files may answer where homes exist.  failed: Stat gives an
\* error other than that nothing is there, or Glob gives one.  Glob passes over
\* what it cannot read, so that it may miss homes that have a prefix.
FileAnswer(homes) ==
  [failed : BOOLEAN,
   seen   : {seen \in SUBSET homes : {home \in homes : home[2] = ""} \subseteq seen}]

\* The answer when no call fails and all can be read.
TrueAnswer(homes) == [failed |-> FALSE, seen |-> homes]

\* Wrong: only directories with a prefix are looked for.
CheckMasterBackupDirMutant(backupDir, files) ==
  LET found == {home \in files.seen : home[1] = backupDir /\ home[2] # ""} IN
  IF files.failed \/ Cardinality(found) # 1 THEN NoHome
  ELSE CHOOSE home \in found : TRUE

\* The single layout is tried first; of the other there must be one prefix.
CheckMasterBackupDir(backupDir, files) ==
  LET found == {home \in files.seen : home[1] = backupDir} IN
  IF files.failed THEN NoHome
  ELSE IF <<backupDir, "">> \in found THEN <<backupDir, "">>
  ELSE IF Cardinality(found) # 1 THEN NoHome
  ELSE CHOOSE home \in found : TRUE

\* --backup-dir, else the directory in the history, else the coordinator's data
\* directory, NoHome when the cluster does not answer.  The segments' paths
\* (getBackupSegmentDir) are of the same home.
getBackupMasterDir(backupDir, backupDataBackupDir, cluster, files) ==
  CASE backupDir # "" -> CheckMasterBackupDir(backupDir, files)
    [] backupDir = "" /\ backupDataBackupDir # "" ->
         CheckMasterBackupDir(backupDataBackupDir, files)
    [] OTHER -> cluster

BackupS3Plugin == "gpbackup_s3_plugin"

\* For gpbackup_s3_plugin the report lies under its option folder, if it has one.
backupS3PluginReportPath(folder) == IF folder THEN "s3" ELSE "error"

\* GetReportFilePathPlugin: the path that --plugin-report-file-path gives, or the
\* one of the only plugin that is known.
GetReportFilePathPlugin(custom, plugin, folder) ==
  CASE custom -> "custom"
    [] ~custom /\ plugin = BackupS3Plugin -> backupS3PluginReportPath(folder)
    [] OTHER -> "error"
=============================================================================
