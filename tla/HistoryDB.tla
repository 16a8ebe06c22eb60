----------------------------- MODULE HistoryDB -----------------------------
(***************************************************************************)
(* The statements gpbackman sends to gpbackup_history.db                   *)
(* (gpbckpconfig/utils_db.go), as operators on the tables:                 *)
(*   backups        a function from the timestamps in the table to rows    *)
(*   restorePlans   a set of <<timestamp, restore_plan_timestamp>> rows    *)
(* Timestamps are numbers: their 14-digit texts have the same order.  Every *)
(* query returns its timestamps in descending order.                       *)
(***************************************************************************)
EXTENDS BackupConfig, FiniteSets, Integers, Sequences

\* ORDER BY timestamp DESC: the k-th name has k that are not older.
OrderByTimestampDesc(S) ==
  [k \in 1..Cardinality(S) |->
     CHOOSE t \in S : Cardinality({u \in S : u >= t}) = k]

\* The backups whose restore plan needs backupName, itself excepted.  Neither
\* their rows in backups nor their deletion state is looked at.
Dependents(backupName, restorePlans) ==
  {t \in {plan[1] : plan \in restorePlans} :
     t # backupName /\ <<t, backupName>> \in restorePlans}

GetBackupDependencies(backupName, restorePlans) ==
  OrderByTimestampDesc(Dependents(backupName, restorePlans))

\* The condition that getBackupNameBeforeTimestampQuery and ...After... share.
ForDeletion(row) ==
  row.status # BackupStatusInProgress /\ IsBackupActive(row.dateDeleted)

GetBackupNamesBeforeTimestamp(timestamp, backups) ==
  OrderByTimestampDesc({t \in DOMAIN backups :
                          t < timestamp /\ ForDeletion(backups[t])})

GetBackupNamesAfterTimestamp(timestamp, backups) ==
  OrderByTimestampDesc({t \in DOMAIN backups :
                          t > timestamp /\ ForDeletion(backups[t])})

\* Wrong: a deletion that is in progress counts as done.
GetBackupNamesForCleanBeforeTimestampMutant(timestamp, backups) ==
  OrderByTimestampDesc({t \in DOMAIN backups :
    t < timestamp /\ ~IsBackupActive(backups[t].dateDeleted)})

\* For history-clean: rows with a deletion date, or any unknown text.
GetBackupNamesForCleanBeforeTimestamp(timestamp, backups) ==
  OrderByTimestampDesc({t \in DOMAIN backups :
    t < timestamp /\ backups[t].dateDeleted \notin DateDeletedKnown})

\* Wrong: a deletion in progress counts as done.
ListedMutant(showD, showF, row) ==
  /\ showF \/ row.status # BackupStatusFailure
  /\ showD \/ IsBackupActive(row.dateDeleted)

\* The condition of getBackupNameQuery, by --deleted and --failed.
Listed(showD, showF, row) ==
  CASE showD /\ showF  -> TRUE
    [] showD /\ ~showF -> row.status # BackupStatusFailure
    [] ~showD /\ showF -> row.dateDeleted \in DateDeletedKnown
    [] OTHER -> /\ row.status # BackupStatusFailure
                /\ row.dateDeleted \in DateDeletedKnown

GetBackupNamesDB(showD, showF, backups) ==
  OrderByTimestampDesc({t \in DOMAIN backups : Listed(showD, showF, backups[t])})

\* CheckBackupCanBeDisplayed, the same question for a YAML history file.
CheckBackupCanBeDisplayed(showD, showF, row) ==
  \/ showD /\ showF
  \/ showD /\ ~showF /\ row.status # BackupStatusFailure
  \/ ~showD /\ showF /\ IsBackupActive(row.dateDeleted)
  \/ /\ ~showD /\ ~showF /\ row.status # BackupStatusFailure
     /\ IsBackupActive(row.dateDeleted) \/ row.dateDeleted = DateDeletedInProgress

\* updateDeleteStatusQuery: an UPDATE of no row is no error.
UpdateDeleteStatus(backupName, dateDeleted, backups) ==
  [t \in DOMAIN backups |->
     IF t = backupName THEN [backups[t] EXCEPT !.dateDeleted = dateDeleted]
     ELSE backups[t]]
=============================================================================
