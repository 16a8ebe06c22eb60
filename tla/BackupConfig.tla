---------------------------- MODULE BackupConfig ----------------------------
(***************************************************************************)
(* One row of the history database as gpbackman reads it, and the          *)
(* decisions taken on it: methods of BackupConfig (gpbckpconfig/struct.go), *)
(* gpbckpconfig/utils.go and cmd/wrappers.go.                              *)
(*                                                                         *)
(* A row is a record [status, plugin, dateDeleted, incremental, dataOnly,  *)
(* metadataOnly].  Only the class of date_deleted is kept: a deletion date *)
(* is "date", a text that is neither a date nor a known status "invalid".  *)
(***************************************************************************)

DateDeletedActive       == ""
DateDeletedInProgress   == "In progress"
DateDeletedPluginFailed == "Plugin Backup Delete Failed"
DateDeletedLocalFailed  == "Local Delete Failed"

DateDeletedKnown == {DateDeletedActive, DateDeletedInProgress,
                     DateDeletedPluginFailed, DateDeletedLocalFailed}
DateDeleted == DateDeletedKnown \cup {"date", "invalid"}

BackupStatusSuccess    == "Success"
BackupStatusFailure    == "Failure"
BackupStatusInProgress == "In Progress"

BackupStatus == {BackupStatusSuccess, BackupStatusFailure,
                 BackupStatusInProgress}

\* plugin is "" for a backup in local storage.
Row == [status : BackupStatus, plugin : {"", "plugin"},
        dateDeleted : DateDeleted, incremental : BOOLEAN, dataOnly : BOOLEAN,
        metadataOnly : BOOLEAN]

IsLocal(row) == row.plugin = ""

IsInProgress(row) == row.status = BackupStatusInProgress

\* GetBackupDateDeleted returns a known status as it is, and an error for a
\* text that does not parse as a timestamp.
DateDeletedIsError(row) ==
  row.dateDeleted \notin DateDeletedKnown /\ row.dateDeleted # "date"

\* An attempt to delete that failed leaves the backup active.
IsBackupActive(dateDeleted) ==
  dateDeleted \in {DateDeletedActive, DateDeletedPluginFailed,
                   DateDeletedLocalFailed}

\* GetBackupType; "" stands for its error.
GetBackupType(row) ==
  CASE ~row.metadataOnly /\ ~row.dataOnly /\ ~row.incremental -> "full"
    [] ~row.metadataOnly /\ ~row.dataOnly /\ row.incremental -> "incremental"
    [] ~row.metadataOnly /\ row.dataOnly /\ ~row.incremental -> "data-only"
    [] row.metadataOnly /\ ~(row.incremental /\ row.dataOnly) -> "metadata-only"
    [] OTHER -> ""

\* checkLocalBackupStatus fails when a plugin command (skipLocalBackup) meets a
\* local backup or a local command a plugin one.
LocalStatusIsError(skipLocalBackup, row) == skipLocalBackup = IsLocal(row)

\* Wrong: the deletion date is not looked at.
CheckBackupCanBeUsedMutant(deleteForce, skipLocalBackup, row) ==
  IF LocalStatusIsError(skipLocalBackup, row) THEN "error"
  ELSE IF deleteForce \/ ~IsInProgress(row) THEN "use"
  ELSE "skip"

\* checkBackupCanBeUsed: "use", "skip" or "error".
CheckBackupCanBeUsed(deleteForce, skipLocalBackup, row) ==
  IF LocalStatusIsError(skipLocalBackup, row) THEN "error"
  ELSE IF deleteForce THEN "use"
  ELSE IF /\ ~IsInProgress(row)
          /\ IsBackupActive(row.dateDeleted) \/ DateDeletedIsError(row)
       THEN "use"
  ELSE "skip"
-----------------------------------------------------------------------------
(* Object filtering.  flags are the filters that gpbackup was given, the four   *)
(* ...Filtered columns; names are the lists of the four auxiliary tables, by    *)
(* filter.                                                                     *)

ObjectFilter ==
  {"include-schema", "exclude-schema", "include-table", "exclude-table"}

\* GetObjectFilteringInfo; more than one filter is its error, also "".
GetObjectFilteringInfo(flags) ==
  IF \E f \in ObjectFilter : flags = {f} THEN CHOOSE f \in flags : TRUE ELSE ""

\* GetObjectFilteringDetails
GetObjectFilteringDetails(flags, names) ==
  IF GetObjectFilteringInfo(flags) = "" THEN {}
  ELSE names[GetObjectFilteringInfo(flags)]

\* The lists that --table or --schema, and --exclude, are about.
AskedFilter(table, exclude) ==
  CASE table # "" /\ ~exclude -> "include-table"
    [] table # "" /\ exclude  -> "exclude-table"
    [] table = "" /\ ~exclude -> "include-schema"
    [] OTHER                    -> "exclude-schema"

\* Wrong: the filters of the backup are not looked at, only its lists.
CheckObjectFilteringExistsMutant(table, schema, exclude, flags, names) ==
  \/ table = "" /\ schema = ""
  \/ (IF table = "" THEN schema ELSE table)
       \in names[AskedFilter(table, exclude)]

\* CheckObjectFilteringExists: the filter asked for is the one of the backup,
\* and has the table or schema in its list; or nothing is asked for.
CheckObjectFilteringExists(table, schema, exclude, flags, names) ==
  \/ table = "" /\ schema = ""
  \/ /\ GetObjectFilteringInfo(flags) = AskedFilter(table, exclude)
     /\ (IF table = "" THEN schema ELSE table)
          \in names[AskedFilter(table, exclude)]
=============================================================================
