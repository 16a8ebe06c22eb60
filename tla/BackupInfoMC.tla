---------------------------- MODULE BackupInfoMC ----------------------------
(***************************************************************************)
(* Small instances of HistoryClean and BackupInfo: five backups, up to     *)
(* four of them deleted, batches of two; and, for backup-info, two         *)
(* backups and one that arrives.                                           *)
(***************************************************************************)
EXTENDS BackupInfo, TLC

RowOf(status, dateDeleted, incremental) ==
  [status |-> status, plugin |-> "", dateDeleted |-> dateDeleted,
   incremental |-> incremental, dataOnly |-> FALSE, metadataOnly |-> FALSE]

\* 1 full, 2 and 3 its incrementals; 4 and 5 full.
Database(date) ==
  [t \in 1..5 |-> RowOf("Success", date[t], t \in {2, 3})]

CleanDatabases ==
  {Database(<<"date", "date", "date", "date", "">>),
   Database(<<"date", "Local Delete Failed", "date", "", "date">>),
   Database(<<"date", "date", "", "In progress", "date">>)}

\* 1 full and 2 its incremental; 5 failed.
InfoDatabases ==
  {1 :> RowOf("Success", "", FALSE) @@ 5 :> RowOf("Failure", "date", FALSE),
   1 :> RowOf("Success", "", FALSE) @@ 2 :> RowOf("Success", "date", TRUE),
   4 :> RowOf("Success", "date", FALSE) @@ 5 :> RowOf("Failure", "", FALSE)}

MCInitially == CleanDatabases \cup InfoDatabases

\* 6, which arrives, is an incremental of 1 too.
MCPlans == {<<2, 1>>, <<2, 2>>, <<3, 1>>, <<3, 2>>, <<3, 3>>, <<6, 1>>, <<6, 6>>}
MCArrives == 6 :> RowOf("In Progress", "", TRUE)

\* 1, 2 and 6 are of one table, 5 excludes a schema, 4 has two filters.
MCListing ==
  [d \in {"include_relations", "restore_plan_tables"} \X {1, 2, 6} |-> {"a"}]
    @@ [d \in {<<"exclude_schemas", 5>>, <<"include_schemas", 4>>,
               <<"exclude_relations", 4>>} |-> {"b"}]
MCDetails == DOMAIN MCListing

List(deleted, failed) ==
  [NoAsk EXCEPT !.deleted = deleted, !.failed = failed]

MCAsk ==
  {List(deleted, failed) : deleted, failed \in BOOLEAN}
    \cup {[List(TRUE, TRUE) EXCEPT !.type = "incremental"],
          [List(TRUE, TRUE) EXCEPT !.table = "a"],
          [List(TRUE, TRUE) EXCEPT !.schema = "b"],
          [List(TRUE, TRUE) EXCEPT !.schema = "b", !.exclude = TRUE],
          [NoAsk EXCEPT !.timestamp = 1]}

\* backup-info reads the small databases, and history-clean is given once there.
BoundedInit ==
  /\ InfoInit
  /\ info.pc = "idle" <=> Cardinality(DOMAIN backups) = 2
  /\ runs = IF info.pc = "idle" THEN MaxRuns - 1 ELSE 0

BoundedSpec == BoundedInit /\ [][InfoNext]_<<vars, infoVars>> /\ Fairness
=============================================================================
