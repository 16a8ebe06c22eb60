---------------------------- MODULE HistoryClean ----------------------------
(***************************************************************************)
(* history-clean (cmd/history_clean.go, CleanBackupsDB of                  *)
(* gpbckpconfig/utils_db.go): the rows of deleted backups leave the seven  *)
(* tables of the history database, in batches, one transaction for each    *)
(* table of a batch.  The command may fail or be killed between two        *)
(* transactions and be given again; backup-delete runs beside it.          *)
(***************************************************************************)
EXTENDS HistoryDB

CONSTANTS
  Backup,     \* timestamps
  Cutoff,     \* values of --before-timestamp
  BatchSize,  \* sqliteDeleteBatchSize
  MaxRuns,    \* bound: how often the command is given
  Initially,  \* initial tables backups
  Plans,      \* rows that restore_plans has for the backups
  Details,    \* rows that the other tables have for the backups
  Faults,     \* may a statement fail, or the process be killed?
  Forced      \* does a backup-delete --force run beside it?

\* The tables besides backups and restore_plans.
DetailTable == {"restore_plan_tables", "exclude_relations", "exclude_schemas",
                "include_relations", "include_schemas"}
\* Wrong: table backups goes last.
TableMutant == <<"restore_plans", "restore_plan_tables", "exclude_relations",
                 "exclude_schemas", "include_relations", "include_schemas",
                 "backups">>

\* All of them, in the order of the code.
Table == <<"backups", "restore_plans", "restore_plan_tables",
           "exclude_relations", "exclude_schemas", "include_relations",
           "include_schemas">>

ASSUME CleanAssumption ==
  /\ Backup \subseteq Nat /\ IsFiniteSet(Backup) /\ Cutoff \subseteq Nat
  /\ BatchSize \in Nat \ {0} /\ MaxRuns \in Nat
  /\ Faults \in BOOLEAN /\ Forced \in BOOLEAN
  /\ \A b \in Initially : /\ DOMAIN b \subseteq Backup
                          /\ \A t \in DOMAIN b : b[t] \in Row
  /\ Plans \subseteq Backup \X Backup
  /\ Details \subseteq DetailTable \X Backup

VARIABLES
  backups,       \* table backups
  restorePlans,  \* table restore_plans
  details,       \* <<table, timestamp>>: the timestamp has rows in the table
  pc,            \* "idle", "running", "exit0", "exit1" or "killed"
  cutoff,        \* beforeTimestamp
  list,          \* the names that the query returned
  first,         \* i: the index in list of the batch's first name, from 1
  stmt,          \* the index in Table of the next statement of the batch
  runs           \* how often the command has been given

db   == <<backups, restorePlans, details>>
vars == <<backups, restorePlans, details, pc, cutoff, list, first, stmt, runs>>

Init ==
  /\ backups \in Initially
  /\ restorePlans = {plan \in Plans : plan[1] \in DOMAIN backups}
  /\ details = {row \in Details : row[2] \in DOMAIN backups}
  /\ pc = "idle" /\ cutoff = 0 /\ list = <<>> /\ first = 1 /\ stmt = 1
  /\ runs \in 0..MaxRuns

\* Wrong: the index is not local to the call.
StartMutant ==
  /\ pc # "running" /\ runs < MaxRuns
  /\ runs' = runs + 1
  /\ cutoff' \in Cutoff
  /\ list' = GetBackupNamesForCleanBeforeTimestamp(cutoff', backups)
  /\ pc' = "running"
  /\ UNCHANGED <<db, first, stmt>>

\* historyCleanDB: the query.  No name is returned: nothing to do.
Start ==
  /\ pc # "running" /\ runs < MaxRuns
  /\ runs' = runs + 1
  /\ cutoff' \in Cutoff
  /\ list' = GetBackupNamesForCleanBeforeTimestamp(cutoff', backups)
  /\ first' = 1 /\ stmt' = 1 /\ pc' = "running"
  /\ UNCHANGED db

StartFails ==
  /\ Faults /\ pc # "running" /\ runs < MaxRuns
  /\ runs' = runs + 1 /\ pc' = "exit1"
  /\ list' = <<>> /\ first' = 1 /\ stmt' = 1
  /\ UNCHANGED <<db, cutoff>>

\* batchIDs: list[i:end], end cut to the length of the list.
Batch == {list[k] : k \in first..(first + BatchSize - 1) \cap DOMAIN list}

\* Wrong: the last table is forgotten.
LastStatementMutant == Len(Table) - 1

LastStatement == Len(Table)

\* Wrong: the loop does not advance.
NextBatchMutant == first

NextBatch == first + BatchSize

\* deleteBackupsFormTableQuery: the rows of the batch's timestamps in one table.
DeleteFromTable ==
  /\ pc = "running" /\ first <= Len(list)
  /\ CASE Table[stmt] = "backups" ->
            /\ backups' = [t \in DOMAIN backups \ Batch |-> backups[t]]
            /\ UNCHANGED <<restorePlans, details>>
       [] Table[stmt] = "restore_plans" ->
            /\ restorePlans' = {plan \in restorePlans : plan[1] \notin Batch}
            /\ UNCHANGED <<backups, details>>
       [] OTHER ->
            /\ details' = details \ ({Table[stmt]} \X Batch)
            /\ UNCHANGED <<backups, restorePlans>>
  /\ IF stmt < LastStatement
     THEN stmt' = stmt + 1 /\ UNCHANGED first
     ELSE stmt' = 1 /\ first' = NextBatch
  /\ UNCHANGED <<pc, cutoff, list, runs>>

Return ==
  /\ pc = "running" /\ first > Len(list)
  /\ pc' = "exit0"
  /\ UNCHANGED <<db, cutoff, list, first, stmt, runs>>

\* A statement fails: its transaction is rolled back and the command returns.
\* What the transactions before it removed stays removed.
StatementFails ==
  /\ Faults /\ pc = "running" /\ first <= Len(list)
  /\ pc' = "exit1"
  /\ UNCHANGED <<db, cutoff, list, first, stmt, runs>>

Killed ==
  /\ Faults /\ pc = "running"
  /\ pc' = "killed"
  /\ UNCHANGED <<db, cutoff, list, first, stmt, runs>>

Clean == DeleteFromTable \/ Return
-----------------------------------------------------------------------------
\* backup-delete beside it, one command at a time, as BackupDelete implements it.
Deleter == INSTANCE DeletionStatus WITH forced <- Forced

DeleteElsewhere ==
  /\ Deleter!Next
  /\ UNCHANGED <<restorePlans, details, pc, cutoff, list, first, stmt, runs>>

Terminated == pc # "running" /\ runs = MaxRuns /\ UNCHANGED vars

Next == Start \/ StartFails \/ Clean \/ StatementFails \/ Killed
          \/ DeleteElsewhere \/ Terminated

Spec == Init /\ [][Next]_vars

\* SQLite returns from each statement and the process goes on.
FairSpec == Spec /\ WF_vars(Clean)
-----------------------------------------------------------------------------
(* Properties *)

\* The rows that timestamp t has outside table backups.
Children(t) ==
  {<<"restore_plans", plan[2]>> : plan \in {q \in restorePlans : q[1] = t}}
    \cup {row \in details : row[2] = t}

\* Type correctness of the tables and of CleanBackupsDB's indices.
TypeOK ==
  /\ DOMAIN backups \subseteq Backup
  /\ \A t \in DOMAIN backups : backups[t] \in Row
  /\ restorePlans \subseteq Backup \X Backup
  /\ details \subseteq DetailTable \X Backup
  /\ pc \in {"idle", "running", "exit0", "exit1", "killed"}
  /\ list \in Seq(Backup)
  /\ first \in 1..(Len(list) + BatchSize) /\ stmt \in 1..LastStatement
  /\ runs \in 0..MaxRuns

\* Exit code 0 means that every listed backup has left all seven tables,
\* whatever the length of the list is modulo the batch size.
CleanedEverywhere ==
  pc = "exit0" => \A k \in DOMAIN list : /\ list[k] \notin DOMAIN backups
                                         /\ Children(list[k]) = {}

\* A backup that was not deleted, or is not older than the cutoff, keeps its
\* rows in every table.
OnlyDeletedCleaned ==
  [][\A t \in DOMAIN backups :
       \/ t \in DOMAIN backups' /\ Children(t)' = Children(t)
       \/ t < cutoff /\ backups[t].dateDeleted \notin DateDeletedKnown]_vars

\* The command ends.
Termination == pc = "running" ~> pc # "running"
-----------------------------------------------------------------------------
(* The inductive invariant of the proofs in HistoryClean_proofs *)

\* A table has rows of timestamp t.
Has(table, t) ==
  \/ table = "backups" /\ t \in DOMAIN backups
  \/ table = "restore_plans" /\ \E plan \in restorePlans : plan[1] = t
  \/ <<table, t>> \in details

\* What the statements so far have removed does not come back.
RemovedInv ==
  \A k \in DOMAIN list, s \in DOMAIN Table :
    k < first \/ (k < first + BatchSize /\ s < stmt) => ~Has(Table[s], list[k])

ListInv ==
  /\ list # <<>> => cutoff \in Cutoff
  /\ \A k \in DOMAIN list : list[k] < cutoff
  /\ pc = "exit0" => first > Len(list)

IInv == TypeOK /\ RemovedInv /\ ListInv

\* A backup that is listed and not yet removed has its date.
DatesInv ==
  /\ \A t \in DOMAIN backups : backups[t].dateDeleted # "invalid"
  /\ \A k \in DOMAIN list :
       list[k] \in DOMAIN backups => backups[list[k]].dateDeleted = "date"
=============================================================================
