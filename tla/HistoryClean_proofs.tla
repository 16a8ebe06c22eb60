------------------------- MODULE HistoryClean_proofs -------------------------
(***************************************************************************)
(* Proofs about HistoryClean, for any contents of the tables, any size of  *)
(* a batch, any number of runs, with or without failures and kills, beside *)
(* a backup-delete.                                                        *)
(***************************************************************************)
EXTENDS HistoryClean, HistoryDB_proofs

\* The seven tables.
LEMMA Tables ==
  /\ Len(Table) = 7 /\ DOMAIN Table = 1..7
  /\ Table[1] = "backups" /\ Table[2] = "restore_plans"
  /\ \A s \in 3..7 : Table[s] \notin {"backups", "restore_plans"}
  /\ DetailTable = {Table[s] : s \in 3..7}
BY DEF Table, DetailTable

\* The query returns old backups whose row has a date, or an unknown text.
LEMMA CleanList ==
  ASSUME TypeOK, NEW c \in Nat
  PROVE  LET names == GetBackupNamesForCleanBeforeTimestamp(c, backups)
         IN  /\ names \in Seq(Backup) /\ DOMAIN names = 1..Len(names)
             /\ \A k \in DOMAIN names :
                  /\ names[k] < c
                  /\ backups[names[k]].dateDeleted \notin DateDeletedKnown
<1> DEFINE S == {t \in DOMAIN backups :
                   t < c /\ backups[t].dateDeleted \notin DateDeletedKnown}
<1>1. S \in SUBSET Backup /\ (\A t \in S : t \in Nat) /\ IsFiniteSet(S)
  BY CleanAssumption, FS_Subset DEF TypeOK
<1>2. GetBackupNamesForCleanBeforeTimestamp(c, backups)
        = OrderByTimestampDesc(S)
  BY DEF GetBackupNamesForCleanBeforeTimestamp
<1> HIDE DEF S
<1> DEFINE names == OrderByTimestampDesc(S)
<1>3. names \in Seq(S) /\ DOMAIN names = 1..Len(names)
  BY <1>1, QueryResult
<1> HIDE DEF names
<1>4. \A k \in DOMAIN names : names[k] \in S
  BY <1>3
<1>5. names \in Seq(Backup)
  BY <1>1, <1>3
<1> QED
  BY <1>2, <1>3, <1>4, <1>5 DEF S, names
-----------------------------------------------------------------------------
(* What each step keeps *)

LEMMA InitIInv == Init => IInv
<1>1. SUFFICES ASSUME Init PROVE IInv
  OBVIOUS
<1>2. TypeOK
  BY <1>1, CleanAssumption, Tables DEF Init, TypeOK, LastStatement
<1> QED
  BY <1>1, <1>2 DEF Init, IInv, RemovedInv, ListInv

\* A new run starts with a list of its own, and nothing removed.
LEMMA StartIInv ==
  ASSUME IInv, Start
  PROVE  IInv'
<1>1. cutoff' \in Nat /\ cutoff' \in Cutoff
  BY CleanAssumption DEF Start
<1>2. /\ list' \in Seq(Backup) /\ DOMAIN list' = 1..Len(list')
      /\ \A k \in DOMAIN list' : list'[k] < cutoff'
  BY <1>1, CleanList DEF Start, IInv
<1>3. TypeOK'
  BY <1>2, Tables, CleanAssumption DEF Start, IInv, TypeOK, db, LastStatement
<1>4. RemovedInv'
  BY <1>2, Tables DEF Start, RemovedInv
<1>5. ListInv'
  BY <1>1, <1>2 DEF Start, ListInv
<1> QED
  BY <1>3, <1>4, <1>5 DEF IInv

\* A statement only takes rows away, and those of the batch from its table.
LEMMA DeleteRemoves ==
  ASSUME IInv, DeleteFromTable
  PROVE  /\ \A table, t : Has(table, t)' => Has(table, t)
         /\ \A table, t : table = Table[stmt] /\ t \in Batch => ~Has(table, t)'
         /\ DOMAIN backups' \subseteq DOMAIN backups
         /\ \A t \in DOMAIN backups' : backups'[t] = backups[t]
         /\ restorePlans' \subseteq restorePlans /\ details' \subseteq details
<1>1. /\ stmt \in 1..7
      /\ details \subseteq {Table[s] : s \in 3..7} \X Backup
  BY Tables DEF IInv, TypeOK, LastStatement
<1>2. \/ /\ Table[stmt] = "backups"
         /\ backups' = [t \in DOMAIN backups \ Batch |-> backups[t]]
         /\ UNCHANGED <<restorePlans, details>>
      \/ /\ Table[stmt] = "restore_plans"
         /\ restorePlans' = {plan \in restorePlans : plan[1] \notin Batch}
         /\ UNCHANGED <<backups, details>>
      \/ /\ Table[stmt] \notin {"backups", "restore_plans"}
         /\ details' = details \ ({Table[stmt]} \X Batch)
         /\ UNCHANGED <<backups, restorePlans>>
  BY DEF DeleteFromTable
<1>3. /\ DOMAIN backups' \subseteq DOMAIN backups
      /\ \A t \in DOMAIN backups' : backups'[t] = backups[t]
      /\ restorePlans' \subseteq restorePlans /\ details' \subseteq details
  BY <1>2
<1>4. ASSUME NEW table, NEW t, Has(table, t)' PROVE Has(table, t)
  BY <1>3, <1>4 DEF Has
<1>5. ASSUME NEW table, NEW t \in Batch, table = Table[stmt]
      PROVE  ~Has(table, t)'
  <2>1. table \in {"backups", "restore_plans"} => <<table, t>> \notin details
    BY <1>1, <1>5, Tables
  <2>2. CASE table = "backups"
    <3>1. /\ backups' = [u \in DOMAIN backups \ Batch |-> backups[u]]
          /\ details' = details
      BY <1>2, <1>5, <2>2
    <3>2. t \notin DOMAIN backups'
      BY <3>1
    <3> QED
      BY <2>1, <2>2, <3>1, <3>2 DEF Has
  <2>3. CASE table = "restore_plans"
    BY <1>2, <1>5, <2>1, <2>3 DEF Has
  <2>4. CASE table \notin {"backups", "restore_plans"}
    BY <1>2, <1>5, <2>4 DEF Has
  <2> QED
    BY <2>2, <2>3, <2>4
<1> QED
  BY <1>3, <1>4, <1>5

\* A statement that succeeds.
LEMMA DeleteIInv ==
  ASSUME IInv, DeleteFromTable
  PROVE  IInv'
<1>1. /\ list \in Seq(Backup) /\ list' = list
      /\ first \in Int /\ first > 0 /\ first <= Len(list)
      /\ stmt \in 1..7 /\ BatchSize \in Nat /\ BatchSize > 0
  BY Tables, CleanAssumption
     DEF IInv, TypeOK, LastStatement, DeleteFromTable
<1>2. \/ stmt < 7 /\ stmt' = stmt + 1 /\ first' = first
      \/ stmt = 7 /\ stmt' = 1 /\ first' = first + BatchSize
  BY <1>1, Tables DEF DeleteFromTable, LastStatement, NextBatch
<1>3. TypeOK'
  <2>1. /\ DOMAIN backups' \subseteq Backup
        /\ \A t \in DOMAIN backups' : backups'[t] \in Row
        /\ restorePlans' \subseteq Backup \X Backup
        /\ details' \subseteq
             DetailTable \X Backup
    BY DeleteRemoves DEF IInv, TypeOK
  <2>2. first' \in 1..(Len(list') + BatchSize) /\ stmt' \in 1..LastStatement
    BY <1>1, <1>2, Tables DEF LastStatement
  <2>3. /\ pc' \in {"idle", "running", "exit0", "exit1", "killed"}
        /\ list' \in Seq(Backup) /\ runs' \in 0..MaxRuns
    BY DEF IInv, TypeOK, DeleteFromTable
  <2> QED
    BY <2>1, <2>2, <2>3 DEF TypeOK
<1>4. RemovedInv'
  <2>1. SUFFICES ASSUME NEW k \in DOMAIN list, NEW s \in DOMAIN Table,
                        \/ k < first'
                        \/ k < first' + BatchSize /\ s < stmt'
                 PROVE  ~Has(Table[s], list[k])'
    BY <1>1 DEF RemovedInv
  <2>2. k \in 1..Len(list) /\ s \in 1..7
    BY <1>1, <2>1, Tables
  <2>3. CASE k < first \/ (k < first + BatchSize /\ s < stmt)
    BY <1>1, <2>3, DeleteRemoves DEF IInv, RemovedInv
  <2>4. CASE k >= first /\ k < first + BatchSize /\ s = stmt
    <3>1. list[k] \in Batch
      BY <1>1, <2>2, <2>4 DEF Batch
    <3> QED
      BY <1>1, <2>4, <3>1, DeleteRemoves
  <2> QED
    BY <1>1, <1>2, <2>1, <2>2, <2>3, <2>4
<1>5. ListInv'
  BY DEF IInv, ListInv, DeleteFromTable
<1> QED
  BY <1>3, <1>4, <1>5 DEF IInv

\* Every other step leaves the list and the tables alone, or the list empty.
LEMMA EndIInv ==
  ASSUME IInv, StartFails \/ Return \/ StatementFails \/ Killed
  PROVE  IInv'
<1>1. CASE StartFails
  <2>1. /\ list' = <<>> /\ first' = 1 /\ stmt' = 1 /\ pc' = "exit1"
        /\ runs' = runs + 1 /\ runs < MaxRuns /\ UNCHANGED db
    BY <1>1 DEF StartFails
  <2>2. TypeOK'
    BY <2>1, Tables, CleanAssumption DEF IInv, TypeOK, db, LastStatement
  <2> QED
    BY <2>1, <2>2 DEF IInv, RemovedInv, ListInv
<1>2. CASE Return \/ StatementFails \/ Killed
  <2>1. /\ UNCHANGED <<db, cutoff, list, first, stmt, runs>>
        /\ pc' \in {"exit0", "exit1", "killed"}
        /\ pc' = "exit0" => first > Len(list)
    BY <1>2 DEF Return, StatementFails, Killed
  <2>2. TypeOK'
    BY <2>1 DEF IInv, TypeOK, db, LastStatement
  <2>3. RemovedInv' /\ ListInv'
    BY <2>1 DEF IInv, RemovedInv, ListInv, Has, db
  <2> QED
    BY <2>2, <2>3 DEF IInv
<1> QED
  BY <1>1, <1>2

\* A step of DeletionStatus: the status of one row, a deleted one only with --force.
LEMMA DeleterStep ==
  ASSUME Deleter!Next
  PROVE  \E t \in DOMAIN backups, d \in DateDeleted \ {"invalid"} :
           /\ backups' = UpdateDeleteStatus(t, d, backups)
           /\ Forced \/ backups[t].dateDeleted # "date"
<1>1. PICK t \in DOMAIN backups :
        Deleter!Begin(t) \/ Deleter!Fail(t) \/ Deleter!Finish(t)
  BY DEF Deleter!Next
<1>2. \A d : Deleter!Set(t, d) <=> backups' = UpdateDeleteStatus(t, d, backups)
  BY DEF Deleter!Set, Deleter!UpdateDeleteStatus, UpdateDeleteStatus
<1>3. {Deleter!DateDeletedInProgress, Deleter!DateDeletedPluginFailed,
       Deleter!DateDeletedLocalFailed, "date"} \subseteq DateDeleted \ {"invalid"}
  BY DEF DateDeleted, DateDeletedKnown,
     Deleter!DateDeletedInProgress, DateDeletedInProgress,
     Deleter!DateDeletedPluginFailed, DateDeletedPluginFailed,
     Deleter!DateDeletedLocalFailed, DateDeletedLocalFailed
<1>4. Forced \/ backups[t].dateDeleted # "date"
  <2>1. CASE Deleter!Begin(t)
    BY <2>1, CleanAssumption
       DEF Deleter!Begin, Deleter!CheckBackupCanBeUsed, Deleter!IsBackupActive,
           Deleter!DateDeletedIsError, Deleter!DateDeletedActive,
           Deleter!DateDeletedPluginFailed, Deleter!DateDeletedLocalFailed
  <2>2. CASE Deleter!Fail(t) \/ Deleter!Finish(t)
    BY <2>2 DEF Deleter!Fail, Deleter!Finish, Deleter!Begun,
       Deleter!DateDeletedInProgress, Deleter!DateDeletedPluginFailed,
       Deleter!DateDeletedLocalFailed
  <2> QED
    BY <1>1, <2>1, <2>2
<1> QED
  BY <1>1, <1>2, <1>3, <1>4
     DEF Deleter!Begin, Deleter!Fail, Deleter!Finish

\* backup-delete only changes the status of a row.
LEMMA ElsewhereIInv ==
  ASSUME IInv, DeleteElsewhere
  PROVE  /\ IInv'
         /\ DOMAIN backups' = DOMAIN backups
         /\ \A t \in DOMAIN backups :
              GetBackupType(backups'[t]) = GetBackupType(backups[t])
         /\ \A t \in DOMAIN backups :
              \/ backups'[t] = backups[t]
              \/ /\ backups'[t].dateDeleted # "invalid"
                 /\ Forced \/ backups[t].dateDeleted # "date"
<1>1. PICK t \in DOMAIN backups, d \in DateDeleted \ {"invalid"} :
        /\ backups' = UpdateDeleteStatus(t, d, backups)
        /\ Forced \/ backups[t].dateDeleted # "date"
  BY DeleterStep DEF DeleteElsewhere
<1>2. UNCHANGED <<restorePlans, details, pc, cutoff, list, first, stmt, runs>>
  BY DEF DeleteElsewhere
<1>3. d \in DateDeleted /\ d # "invalid"
  OBVIOUS
<1>4. /\ DOMAIN backups' = DOMAIN backups
      /\ \A u \in DOMAIN backups \ {t} : backups'[u] = backups[u]
      /\ backups'[t] = [backups[t] EXCEPT !.dateDeleted = d]
  BY <1>1 DEF UpdateDeleteStatus
<1>5. /\ backups'[t] \in Row /\ backups'[t].dateDeleted = d
      /\ GetBackupType(backups'[t]) = GetBackupType(backups[t])
  BY <1>3, <1>4 DEF IInv, TypeOK, Row, GetBackupType
<1>6. TypeOK'
  BY <1>2, <1>4, <1>5 DEF IInv, TypeOK, LastStatement
<1>7. RemovedInv' /\ ListInv'
  BY <1>2, <1>4 DEF IInv, RemovedInv, ListInv, Has
<1> QED
  BY <1>1, <1>3, <1>4, <1>5, <1>6, <1>7 DEF IInv

LEMMA NextIInv == IInv /\ [Next]_vars => IInv'
<1>1. SUFFICES ASSUME IInv, [Next]_vars PROVE IInv'
  OBVIOUS
<1>2. CASE UNCHANGED vars
  BY <1>1, <1>2 DEF vars, IInv, TypeOK, RemovedInv, ListInv, Has, LastStatement
<1> QED
  BY <1>1, <1>2, StartIInv, DeleteIInv, EndIInv, ElsewhereIInv
     DEF Next, Clean, Terminated
-----------------------------------------------------------------------------
(* Theorems *)

\* The inductive invariant of history-clean holds in every reachable state.
THEOREM Invariance == Spec => []IInv
BY InitIInv, NextIInv, PTL DEF Spec

\* The tables and CleanBackupsDB's indices keep their types.
THEOREM TypeCorrect == Spec => []TypeOK
BY Invariance, PTL DEF IInv

\* A list that has been gone through has left all seven tables.
LEMMA ListRemoved ==
  ASSUME IInv
  PROVE  CleanedEverywhere
<1>1. SUFFICES ASSUME pc = "exit0", NEW k \in DOMAIN list
               PROVE  list[k] \notin DOMAIN backups /\ Children(list[k]) = {}
  BY DEF CleanedEverywhere
<1>2. k < first
  BY <1>1 DEF IInv, TypeOK, ListInv
<1>3. \A s \in 1..7 : ~Has(Table[s], list[k])
  BY <1>1, <1>2, Tables DEF IInv, RemovedInv
<1>4. /\ list[k] \notin DOMAIN backups
      /\ \A plan \in restorePlans : plan[1] # list[k]
  BY <1>3, Tables DEF Has
<1>5. \A row \in details : row[2] # list[k]
  <2>1. details \subseteq {Table[s] : s \in 3..7} \X Backup
    BY Tables DEF IInv, TypeOK
  <2> QED
    BY <1>3, <2>1 DEF Has
<1> QED
  BY <1>4, <1>5 DEF Children

\* Exit code 0 means that every listed backup has left the seven tables, for
\* any batch size and length of the list.
THEOREM Cleaned == Spec => []CleanedEverywhere
BY Invariance, ListRemoved, PTL
-----------------------------------------------------------------------------
(* What is cleaned *)

\* No row has a text in place of its date that gpbackman could not have written.
ValidDates ==
  \A b \in Initially : \A t \in DOMAIN b : b[t].dateDeleted # "invalid"

\* A listed backup keeps its date until it is removed: backup-delete does not
\* take it back without --force.
LEMMA NextDatesInv ==
  ASSUME ~Forced, IInv, DatesInv, [Next]_vars
  PROVE  DatesInv'
<1>1. CASE Start
  <2>1. backups' = backups
    BY <1>1 DEF Start, db
  <2>2. PICK c \in Cutoff :
          list' = GetBackupNamesForCleanBeforeTimestamp(c, backups)
    BY <1>1 DEF Start
  <2>3. \A k \in DOMAIN list' :
          backups[list'[k]].dateDeleted \notin DateDeletedKnown
    BY <2>2, CleanList, CleanAssumption DEF IInv
  <2>4. \A t \in DOMAIN backups : backups[t].dateDeleted \in DateDeleted
    BY DEF IInv, TypeOK, Row
  <2> QED
    BY <2>1, <2>3, <2>4 DEF DatesInv, DateDeleted
<1>2. CASE StartFails
  BY <1>2 DEF StartFails, DatesInv, db
<1>3. CASE DeleteFromTable
  BY <1>3, DeleteRemoves DEF DatesInv, DeleteFromTable
<1>4. CASE Return \/ StatementFails \/ Killed \/ UNCHANGED vars
  BY <1>4 DEF Return, StatementFails, Killed, vars, db, DatesInv
<1>5. CASE DeleteElsewhere
  BY <1>5, ElsewhereIInv DEF DatesInv, DeleteElsewhere
<1> QED
  BY <1>1, <1>2, <1>3, <1>4, <1>5 DEF Next, Clean, Terminated

\* A statement takes rows of the batch only, which are old and deleted.
LEMMA OnlyBatch ==
  ASSUME IInv, DatesInv, DeleteFromTable, NEW t \in DOMAIN backups
  PROVE  \/ t \in DOMAIN backups' /\ Children(t)' = Children(t)
         \/ t < cutoff /\ backups[t].dateDeleted \notin DateDeletedKnown
<1>1. CASE t \in Batch
  <2>1. PICK k \in DOMAIN list : list[k] = t
    BY <1>1 DEF Batch
  <2> QED
    BY <2>1 DEF IInv, ListInv, DatesInv, DateDeletedKnown, DateDeletedActive,
       DateDeletedInProgress, DateDeletedPluginFailed, DateDeletedLocalFailed
<1>2. CASE t \notin Batch
  <2>1. \/ /\ backups' = [u \in DOMAIN backups \ Batch |-> backups[u]]
           /\ UNCHANGED <<restorePlans, details>>
        \/ /\ restorePlans' = {plan \in restorePlans : plan[1] \notin Batch}
           /\ UNCHANGED <<backups, details>>
        \/ /\ details' = details \ ({Table[stmt]} \X Batch)
           /\ UNCHANGED <<backups, restorePlans>>
    BY DEF DeleteFromTable
  <2>2. t \in DOMAIN backups'
    BY <1>2, <2>1
  <2>3. {q \in restorePlans' : q[1] = t} = {q \in restorePlans : q[1] = t}
    BY <1>2, <2>1
  <2>4. {row \in details' : row[2] = t} = {row \in details : row[2] = t}
    BY <1>2, <2>1
  <2> QED
    BY <2>2, <2>3, <2>4 DEF Children
<1> QED
  BY <1>1, <1>2

\* A backup that was not deleted, or is not older than the cutoff, keeps its rows
\* in every table, beside any backup-delete without --force.
THEOREM OnlyDeleted ==
  ASSUME ~Forced, ValidDates
  PROVE  Spec => OnlyDeletedCleaned
<1> DEFINE Kept == \A t \in DOMAIN backups :
       \/ t \in DOMAIN backups' /\ Children(t)' = Children(t)
       \/ t < cutoff /\ backups[t].dateDeleted \notin DateDeletedKnown
<1>1. Init => DatesInv
  BY DEF ValidDates, Init, DatesInv
<1>2. IInv /\ DatesInv /\ [Next]_vars => DatesInv'
  BY NextDatesInv
<1>3. ASSUME IInv, DatesInv, [Next]_vars PROVE [Kept]_vars
  <2>1. CASE DeleteFromTable
    BY <1>3, <2>1, OnlyBatch
  <2>2. CASE Start \/ StartFails \/ Return \/ StatementFails \/ Killed
    BY <2>2 DEF Start, StartFails, Return, StatementFails, Killed, db, Children
  <2>3. CASE DeleteElsewhere
    BY <1>3, <2>3, ElsewhereIInv DEF DeleteElsewhere, Children
  <2> QED
    BY <1>3, <2>1, <2>2, <2>3 DEF Next, Clean, Terminated
<1>4. Spec => [][Kept]_vars
  <2>1. IInv /\ DatesInv /\ [Next]_vars => [Kept]_vars
    BY <1>3
  <2> HIDE DEF Kept
  <2> QED
    BY <1>1, <1>2, <2>1, Invariance, PTL DEF Spec
<1> QED
  BY <1>4, PTL DEF OnlyDeletedCleaned
=============================================================================
