----------------------------- MODULE BackupInfo -----------------------------
(***************************************************************************)
(* backup-info (cmd/backup_info.go) beside history-clean, backup-delete    *)
(* and gpbackup.  It reads a list of names and then, by separate           *)
(* statements, the row of each backup and its rows in the other tables     *)
(* (GetBackupConfig of the vendored gpbackup); the table that it shows is  *)
(* written at the end only.                                                *)
(***************************************************************************)
EXTENDS HistoryClean

CONSTANTS
  Name,     \* names of tables and schemas that filters list
  Listing,  \* [Details -> SUBSET Name]: the names of those rows
  Ask,      \* command lines: [timestamp, deleted, failed, type, table,
            \* schema, exclude], timestamp 0 when it is not given
  Arrives   \* the rows of backups that gpbackup may store meanwhile

\* The auxiliary tables in the order in which GetBackupConfig reads them.
AuxTable == <<"exclude_schemas", "exclude_relations",
              "include_schemas", "include_relations">>

FilterOf == [exclude_schemas   |-> "exclude-schema",
             exclude_relations |-> "exclude-table",
             include_schemas   |-> "include-schema",
             include_relations |-> "include-table"]

\* COMMANDS.md and checkCompatibleFlags: a table or a schema, not both.  gpbackup
\* stores no backup that is older than a cutoff, which lies in the past; so what
\* was cleaned does not arrive again.
ASSUME InfoAssumption ==
  /\ 0 \notin Backup /\ "" \notin Name
  /\ Listing \in [Details -> SUBSET Name]
  /\ Ask \subseteq [timestamp : Backup \cup {0}, deleted : BOOLEAN,
                    failed : BOOLEAN, type : STRING, table : Name \cup {""},
                    schema : Name \cup {""}, exclude : BOOLEAN]
  /\ \A ask \in Ask : ask.table = "" \/ ask.schema = ""
  /\ DOMAIN Arrives \subseteq Backup
  /\ \A t \in DOMAIN Arrives : /\ Arrives[t] \in Row
                               /\ \A c \in Cutoff : t >= c

VARIABLES
  info,  \* the command and its locals:
         \*   pc     "none" if it is never given, "idle" before it is, then "row",
         \*          "aux", "plans", "dependents", and "exit0" or "exit1"
         \*   ask    its flags
         \*   list   the names that are left, with the one that is being read
         \*   row    the row of backups that was read
         \*   names  the lists that were read with it, by filter
         \*   aux    the index in AuxTable of the next list
         \*   shown  the rows of the table: timestamps, with all their details?
  seen   \* for the properties, since the command was given:
         \*   asked  the backups that the user asked for
         \*   quiet  no table has changed
         \*   fault  a statement has failed, or the process was killed
         \*   short  the backups of which a list was cut short

infoVars == <<info, seen>>

NoNames == [f \in ObjectFilter |-> {}]
NoRow == [status |-> "Success", plugin |-> "", dateDeleted |-> "",
          incremental |-> FALSE, dataOnly |-> FALSE, metadataOnly |-> FALSE]
NoAsk == [timestamp |-> 0, deleted |-> FALSE, failed |-> FALSE, type |-> "",
          table |-> "", schema |-> "", exclude |-> FALSE]

\* The ...Filtered columns of t's row, as gpbackup set them; nothing changes them.
Filters ==
  [t \in Backup |-> {FilterOf[table] : table \in
     {u \in DOMAIN FilterOf : <<u, t>> \in Details}}]

\* The names that gpbackup stored for t.
NamesOf ==
  [t \in Backup |-> [f \in ObjectFilter |->
     UNION {Listing[row] : row \in
       Details \cap ({u \in DOMAIN FilterOf : FilterOf[u] = f} \X {t})}]]

\* The details that the table shows for t, when nothing is missing.
FullDetails ==
  [t \in Backup |-> GetObjectFilteringDetails(Filters[t], NamesOf[t])]

\* What the documentation says --type and the filters ask for, ...
Matches(ask, t, type) ==
  /\ ask.type \in {"", type}
  /\ \/ ask.table = "" /\ ask.schema = ""
     \/ \E f \in ObjectFilter :
          /\ Filters[t] = {f}
          /\ ask.exclude <=> f \in {"exclude-table", "exclude-schema"}
          /\ (IF f \in {"include-table", "exclude-table"} THEN ask.table
              ELSE ask.schema) \in NamesOf[t][f]

\* ... and the same with --deleted and --failed.
AskedFor(ask, t) ==
  /\ ask.failed \/ backups[t].status # "Failure"
  /\ ask.deleted \/ backups[t].dateDeleted \in DateDeletedKnown
  /\ Matches(ask, t, GetBackupType(backups[t]))
-----------------------------------------------------------------------------
InfoInit ==
  /\ Init
  /\ \E given \in {"idle", "none"} :
       info = [pc |-> given, ask |-> NoAsk, list |-> <<>>, row |-> NoRow,
               names |-> NoNames, aux |-> 1, shown |-> {}]
  /\ seen = [asked |-> {}, quiet |-> TRUE, fault |-> FALSE,
             short |-> {}]

\* An error leaves nothing of the table.
Exit1 == [info EXCEPT !.pc = "exit1", !.list = <<>>, !.row = NoRow,
                      !.names = NoNames, !.aux = 1, !.shown = {}]

Reading == {"row", "aux", "plans", "dependents"}

\* backupInfoDB: the names, or the one that --timestamp gives.
StartInfo ==
  /\ info.pc = "idle"
  /\ \E ask \in Ask :
       /\ info' = [info EXCEPT
            !.pc = "row", !.ask = ask,
            !.list = IF ask.timestamp # 0 THEN <<ask.timestamp>>
                     ELSE GetBackupNamesDB(ask.deleted, ask.failed, backups)]
       /\ seen' = [seen EXCEPT !.asked = {t \in DOMAIN backups :
                                            AskedFor(ask, t)}]

\* GetMainBackupInfo: no row is an error, and the command ends.
ReadRow ==
  /\ info.pc = "row" /\ info.list # <<>>
  /\ IF Head(info.list) \in DOMAIN backups
     THEN info' = [info EXCEPT !.pc = "aux", !.row = backups[Head(info.list)]]
     ELSE info' = Exit1
  /\ UNCHANGED seen

\* Wrong: a table without rows of the backup is an error.
ReadAuxMutant ==
  /\ info.pc = "aux"
  /\ LET row == <<AuxTable[info.aux], Head(info.list)>> IN
     info' = IF row \notin details THEN Exit1
             ELSE [info EXCEPT
               !.names[FilterOf[row[1]]] = Listing[row],
               !.aux = IF @ < Len(AuxTable) THEN @ + 1 ELSE 1,
               !.pc = IF info.aux < Len(AuxTable) THEN "aux" ELSE "plans"]
  /\ UNCHANGED seen

\* getAuxTable: no rows are an empty list.  It never asks rows.Err(), so that a
\* fault of SQLite within the rows only cuts the list short, and the command
\* goes on; InfoFails has the faults that the code sees.
ReadAux ==
  /\ info.pc = "aux"
  /\ LET t == Head(info.list)
         row == <<AuxTable[info.aux], t>>
         stored == IF row \in details THEN Listing[row] ELSE {} IN
     \E read \in SUBSET stored :
       /\ Faults \/ read = stored
       /\ info' = [info EXCEPT
            !.names[FilterOf[row[1]]] = read,
            !.aux = IF @ < Len(AuxTable) THEN @ + 1 ELSE 1,
            !.pc = IF info.aux < Len(AuxTable) THEN "aux" ELSE "plans"]
       /\ seen' = [seen EXCEPT !.short = IF read = stored THEN @ ELSE @ \cup {t}]

\* addBackupToTable, with the filters of the command line; --timestamp excludes
\* them.  A value that cannot be read is shown empty.
Shown(t) ==
  LET ask == info.ask IN
  /\ ask.type \in {"", GetBackupType(info.row)}
  /\ CheckObjectFilteringExists(ask.table, ask.schema, ask.exclude,
                                Filters[t], info.names)

\* Wrong: the dependents of each dependent are asked for too.
AfterAddingMutant(t) == IF info.ask.timestamp # 0 THEN "dependents" ELSE "row"

AfterAdding(t) == IF t = info.ask.timestamp THEN "dependents" ELSE "row"

\* The restore plan, which the table does not show; then addBackupToTable.
AddBackupToTable ==
  /\ info.pc = "plans"
  /\ LET t == Head(info.list) IN
     info' = [info EXCEPT
       !.shown = IF ~Shown(t) THEN @
                 ELSE @ \cup {[timestamp |-> t,
                               details |-> GetObjectFilteringDetails(
                                             Filters[t], info.names)]},
       !.list = Tail(@), !.row = NoRow, !.names = NoNames,
       !.pc = AfterAdding(t)]
  /\ UNCHANGED seen

\* GetBackupDependencies, after the base has been read.
QueryDependents ==
  /\ info.pc = "dependents"
  /\ info' = [info EXCEPT
       !.pc = "row",
       !.list = GetBackupDependencies(info.ask.timestamp, restorePlans)]
  /\ UNCHANGED seen

Render ==
  /\ info.pc = "row" /\ info.list = <<>>
  /\ info' = [info EXCEPT !.pc = "exit0"]
  /\ UNCHANGED seen

ReadStep == ReadRow \/ ReadAux \/ AddBackupToTable \/ QueryDependents \/ Render

\* A statement returns an error, or the process is killed: nothing is shown.
InfoFails ==
  /\ Faults /\ info.pc \in Reading
  /\ info' = Exit1
  /\ seen' = [seen EXCEPT !.fault = TRUE]

\* gpbackup stores a backup, later than every other, in one transaction.
StoreElsewhere ==
  /\ \E t \in DOMAIN Arrives :
       /\ \A u \in DOMAIN backups : u < t
       /\ backups' = [u \in DOMAIN backups \cup {t} |->
                        IF u = t THEN Arrives[t] ELSE backups[u]]
       /\ restorePlans' = restorePlans \cup {plan \in Plans : plan[1] = t}
       /\ details' = details \cup {row \in Details : row[2] = t}
  /\ UNCHANGED <<pc, cutoff, list, first, stmt, runs>>

InfoNext ==
  \/ (StartInfo \/ ReadStep \/ InfoFails) /\ UNCHANGED vars
  \/ /\ Next \/ StoreElsewhere
     /\ seen' = [seen EXCEPT !.quiet = @ /\ (info.pc \notin Reading \/ db' = db)]
     /\ UNCHANGED info

InfoSpec == InfoInit /\ [][InfoNext]_<<vars, infoVars>>

\* SQLite returns from each statement and both processes go on.
Fairness == WF_vars(Clean) /\ WF_infoVars(ReadStep)

FairInfoSpec == InfoSpec /\ Fairness
-----------------------------------------------------------------------------
(* Properties *)

\* Type correctness of all that the two commands keep.
InfoTypeOK ==
  /\ TypeOK
  /\ info \in [pc : {"none", "idle", "exit0", "exit1"} \cup Reading,
               ask : Ask \cup {NoAsk}, list : Seq(Backup), row : Row,
               names : [ObjectFilter -> SUBSET Name], aux : DOMAIN AuxTable,
               shown : SUBSET [timestamp : Backup, details : SUBSET Name]]
  /\ seen \in [asked : SUBSET Backup, quiet : BOOLEAN, fault : BOOLEAN,
             short : SUBSET Backup]

\* A list that is shown is complete: every backup that the flags asked for when
\* the command was given, and that is still there, is in it with all its
\* details, whatever was cleaned, deleted or added while it was read.  Only
\* those are excepted of which SQLite cut a list short, an error that
\* getAuxTable does not look for.
CompleteList ==
  info.pc = "exit0" /\ info.ask.timestamp = 0 =>
    \A t \in (seen.asked \cap DOMAIN backups) \ seen.short :
      [timestamp |-> t, details |-> FullDetails[t]] \in info.shown

\* Nothing is shown that was not asked for, even where a list was cut short.
OnlyAsked ==
  info.ask.timestamp = 0 =>
    \A entry \in info.shown : entry.timestamp \in seen.asked

\* Details may be shown in part for two causes only: history-clean has already
\* removed some, and then the backup has left table backups before, so that it
\* can no longer be found; or SQLite cut one of its lists short.
TornForCause ==
  \A entry \in info.shown :
    \/ entry.timestamp \in seen.short
    \/ entry.timestamp \notin DOMAIN backups
    \/ entry.details = FullDetails[entry.timestamp]

\* The command fails, but no statement does.
GivesUp == info.pc \in Reading /\ info'.pc = "exit1" /\ ~seen'.fault

\* Without an error of SQLite the command fails only because tables changed
\* while it read them, or because the timestamp it was given, or one that a
\* plan names as its dependent, has no row.
FailsForCause ==
  [][GivesUp /\ seen.quiet =>
       /\ info.ask.timestamp # 0
       /\ \E t \in {info.ask.timestamp}
                     \cup Dependents(info.ask.timestamp, restorePlans) :
            t \notin DOMAIN backups]_infoVars

\* The two tests for --deleted and --failed, of the database and of a YAML
\* file, agree on every row, but for a deletion in progress with --failed alone.
DisplayAgrees ==
  \A t \in DOMAIN backups, showD \in BOOLEAN, showF \in BOOLEAN :
    Listed(showD, showF, backups[t])
      = \/ CheckBackupCanBeDisplayed(showD, showF, backups[t])
        \/ showF /\ backups[t].dateDeleted = DateDeletedInProgress

\* backup-info ends, whatever runs beside it.
InfoTermination == info.pc \in Reading ~> info.pc \in {"exit0", "exit1"}

\* COMMANDS.md:298: with --timestamp, "the backup with the specified timestamp
\* and all of its dependent backups will be displayed".  A backup that is there
\* is shown, when nothing else runs and no statement fails.
TimestampShown ==
  [][GivesUp /\ seen.quiet /\ pc # "running"
       => info.ask.timestamp \notin DOMAIN backups]_infoVars
-----------------------------------------------------------------------------
(* The inductive invariant of the proofs in BackupInfo_proofs *)

\* The other tables lose the rows of a backup after table backups has.
DetailsInv ==
  /\ details \subseteq Details
  /\ \A row \in Details : row[2] \in DOMAIN backups => row \in details

\* t has been in table backups: it still is, or it is old enough to be cleaned.
Known(t) == t \in DOMAIN backups \/ \E c \in Cutoff : t < c

\* The lists that have been read.
Done == IF info.pc = "plans" THEN ObjectFilter
        ELSE {FilterOf[AuxTable[k]] : k \in 1..(info.aux - 1)}

\* What has been read of the backup at the head of the list.
ReadInv ==
  /\ info.pc # "aux" => info.aux = 1
  /\ info.pc \notin {"aux", "plans"} => info.names = NoNames
  /\ info.pc \in {"none", "idle", "exit1"} => info.shown = {}
  /\ info.pc = "exit0" => info.list = <<>>
  /\ info.pc \in {"aux", "plans"} =>
       LET t == Head(info.list) IN
       /\ info.list # <<>> /\ Known(t)
       /\ \A f \in ObjectFilter : info.names[f] \subseteq NamesOf[t][f]
       /\ t \in DOMAIN backups =>
            /\ GetBackupType(info.row) = GetBackupType(backups[t])
            /\ t \notin seen.short =>
                 \A f \in Done : info.names[f] = NamesOf[t][f]

\* What is in the table, and what is still to come.
ListedInv ==
  /\ \A entry \in info.shown : Known(entry.timestamp)
  /\ info.ask.timestamp = 0 /\ info.pc \in Reading \cup {"exit0"} =>
       /\ info.pc # "dependents"
       /\ \A k \in DOMAIN info.list :
            LET t == info.list[k] IN
            /\ Known(t)
            /\ t \in DOMAIN backups =>
                 (t \in seen.asked
                    <=> Matches(info.ask, t, GetBackupType(backups[t])))
       /\ info.pc \in {"aux", "plans"} =>
            LET t == Head(info.list) IN
            t \in seen.asked <=> Matches(info.ask, t, GetBackupType(info.row))
       /\ \A t \in seen.asked :
            /\ Known(t)
            /\ \/ t \notin DOMAIN backups \/ t \in seen.short
               \/ \E k \in DOMAIN info.list : info.list[k] = t
               \/ [timestamp |-> t, details |-> FullDetails[t]] \in info.shown

\* The names that backup-info reads: those of table backups, or the timestamp that
\* was given and the names that plans have for its dependents.
Expected ==
  IF info.ask.timestamp = 0 THEN DOMAIN backups
  ELSE {info.ask.timestamp} \cup Dependents(info.ask.timestamp, restorePlans)

QuietInv == seen.quiet /\ info.pc \in Reading =>
              \A k \in DOMAIN info.list : info.list[k] \in Expected

\* A plan without its backup is one that the next DELETE of history-clean takes.
PlansInv ==
  \A plan \in restorePlans :
    \/ plan[1] \in DOMAIN backups
    \/ pc = "running" /\ stmt = 2 /\ plan[1] \in Batch

InfoIInv == /\ IInv /\ InfoTypeOK /\ DetailsInv /\ ReadInv /\ ListedInv
            /\ OnlyAsked /\ TornForCause
=============================================================================
