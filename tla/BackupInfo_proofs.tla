-------------------------- MODULE BackupInfo_proofs --------------------------
(***************************************************************************)
(* Proofs about BackupInfo, for any tables and command lines, beside any   *)
(* runs of history-clean and backup-delete and any backups that gpbackup   *)
(* stores.                                                                 *)
(***************************************************************************)
EXTENDS BackupInfo, HistoryClean_proofs
-----------------------------------------------------------------------------
(* Filters and names, which nothing changes *)

\* Each auxiliary table has the names of one filter.
LEMMA Aux ==
  /\ DOMAIN AuxTable = 1..4 /\ Len(AuxTable) = 4
  /\ \A k \in 1..4 : AuxTable[k] \in DOMAIN FilterOf
  /\ \A u \in DOMAIN FilterOf : FilterOf[u] \in ObjectFilter
  /\ \A u, v \in DOMAIN FilterOf : FilterOf[u] = FilterOf[v] => u = v
  /\ ObjectFilter = {FilterOf[AuxTable[k]] : k \in 1..4}
BY DEF AuxTable, FilterOf, ObjectFilter

\* The names of a filter are those of the rows of its table.
LEMMA NamesOfTable ==
  ASSUME NEW t \in Backup, NEW u \in DOMAIN FilterOf
  PROVE  /\ NamesOf[t] \in [ObjectFilter -> SUBSET Name]
         /\ NamesOf[t][FilterOf[u]] =
              IF <<u, t>> \in Details THEN Listing[<<u, t>>] ELSE {}
<1>1. NamesOf[t] = [f \in ObjectFilter |->
        UNION {Listing[row] : row \in
          Details \cap ({v \in DOMAIN FilterOf : FilterOf[v] = f} \X {t})}]
  BY DEF NamesOf
<1>2. NamesOf[t] \in [ObjectFilter -> SUBSET Name]
  <2>1. \A row \in Details : Listing[row] \subseteq Name
    BY InfoAssumption
  <2>2. ASSUME NEW f \in ObjectFilter
        PROVE  UNION {Listing[row] : row \in
                 Details \cap ({v \in DOMAIN FilterOf : FilterOf[v] = f} \X {t})}
                 \in SUBSET Name
    BY <2>1
  <2> QED
    BY <1>1, <2>2
<1>3. {v \in DOMAIN FilterOf : FilterOf[v] = FilterOf[u]} = {u}
  BY Aux
<1>4. NamesOf[t][FilterOf[u]] =
        UNION {Listing[row] : row \in Details \cap ({u} \X {t})}
  BY <1>1, <1>3, Aux
<1>5. CASE <<u, t>> \in Details
  <2>1. Details \cap ({u} \X {t}) = {<<u, t>>}
    BY <1>5
  <2> QED
    BY <1>2, <1>4, <1>5, <2>1
<1>6. CASE <<u, t>> \notin Details
  <2>1. Details \cap ({u} \X {t}) = {}
    BY <1>6
  <2> QED
    BY <1>2, <1>4, <1>6, <2>1
<1> QED
  BY <1>5, <1>6

\* GetObjectFilteringInfo returns the one filter of a backup.
LEMMA OneFilter ==
  ASSUME NEW flags
  PROVE  /\ GetObjectFilteringInfo(flags) \in ObjectFilter \cup {""}
         /\ \A f \in ObjectFilter :
              GetObjectFilteringInfo(flags) = f <=> flags = {f}
<1>1. CASE \E f \in ObjectFilter : flags = {f}
  <2>1. PICK f \in ObjectFilter : flags = {f}
    BY <1>1
  <2>2. (CHOOSE g \in flags : TRUE) = f
    BY <2>1
  <2> QED
    BY <1>1, <2>1, <2>2 DEF GetObjectFilteringInfo
<1>2. CASE ~\E f \in ObjectFilter : flags = {f}
  BY <1>2 DEF GetObjectFilteringInfo, ObjectFilter
<1> QED
  BY <1>1, <1>2

\* What the table shows are names.
LEMMA DetailsAreNames ==
  ASSUME NEW flags, NEW names \in [ObjectFilter -> SUBSET Name]
  PROVE  GetObjectFilteringDetails(flags, names) \in SUBSET Name
BY OneFilter DEF GetObjectFilteringDetails

\* CheckObjectFilteringExists is what the documentation says of the filters:
\* a list that is read in part finds no more, the whole list no less.
LEMMA Filtering ==
  ASSUME NEW ask \in Ask, NEW t \in Backup,
         NEW names \in [ObjectFilter -> SUBSET Name],
         \A f \in ObjectFilter : names[f] \subseteq NamesOf[t][f]
  PROVE  LET found == CheckObjectFilteringExists(ask.table, ask.schema,
                        ask.exclude, Filters[t], names)
             asked == \/ ask.table = "" /\ ask.schema = ""
                      \/ \E f \in ObjectFilter :
                           /\ Filters[t] = {f}
                           /\ (ask.exclude <=> f \in {"exclude-table", "exclude-schema"})
                           /\ (IF f \in {"include-table", "exclude-table"}
                               THEN ask.table ELSE ask.schema)
                                \in NamesOf[t][f]
         IN  /\ found => asked
             /\ names = NamesOf[t] => (asked => found)
<1> DEFINE filter == AskedFilter(ask.table, ask.exclude)
<1>1. /\ ask.exclude \in BOOLEAN
      /\ ask.table = "" \/ ask.schema = ""
      /\ "" \notin Name
  BY InfoAssumption
<1>2. /\ filter \in ObjectFilter
      /\ (ask.exclude <=> filter \in {"exclude-table", "exclude-schema"})
      /\ filter \in {"include-table", "exclude-table"} <=> ask.table # ""
  <2>1. CASE ask.table # "" /\ ~ask.exclude
    BY <1>1, <2>1 DEF AskedFilter, ObjectFilter
  <2>2. CASE ask.table # "" /\ ask.exclude
    BY <1>1, <2>2 DEF AskedFilter, ObjectFilter
  <2>3. CASE ask.table = "" /\ ~ask.exclude
    BY <1>1, <2>3 DEF AskedFilter, ObjectFilter
  <2>4. CASE ask.table = "" /\ ask.exclude
    BY <1>1, <2>4 DEF AskedFilter, ObjectFilter
  <2> QED
    BY <1>1, <2>1, <2>2, <2>3, <2>4
<1>3. NamesOf[t] \in [ObjectFilter -> SUBSET Name]
  <2>1. AuxTable[1] \in DOMAIN FilterOf
    BY Aux
  <2> QED
    BY <2>1, NamesOfTable
<1>4. \A f \in ObjectFilter :
        /\ (ask.exclude <=> f \in {"exclude-table", "exclude-schema"})
        /\ f \in {"include-table", "exclude-table"} <=> ask.table # ""
        => f = filter
  <2> HIDE DEF filter
  <2> SUFFICES ASSUME NEW f \in ObjectFilter,
                      ask.exclude <=> f \in {"exclude-table", "exclude-schema"},
                      f \in {"include-table", "exclude-table"}
                        <=> ask.table # ""
               PROVE  f = filter
    OBVIOUS
  <2>1. /\ f \in {"exclude-table", "exclude-schema"}
             <=> filter \in {"exclude-table", "exclude-schema"}
        /\ f \in {"include-table", "exclude-table"}
             <=> filter \in {"include-table", "exclude-table"}
    BY <1>2
  <2>2. \A g \in ObjectFilter : g \in {"include-schema", "exclude-schema",
                                      "include-table", "exclude-table"}
    BY DEF ObjectFilter
  <2>3. CASE f = "include-schema"
    BY <1>2, <2>1, <2>2, <2>3
  <2>4. CASE f = "exclude-schema"
    BY <1>2, <2>1, <2>2, <2>4
  <2>5. CASE f = "include-table"
    BY <1>2, <2>1, <2>2, <2>5
  <2>6. CASE f = "exclude-table"
    BY <1>2, <2>1, <2>2, <2>6
  <2> QED
    BY <2>2, <2>3, <2>4, <2>5, <2>6
<1>5. GetObjectFilteringInfo(Filters[t]) = filter <=> Filters[t] = {filter}
  BY <1>2, OneFilter
<1> HIDE DEF filter
<1>6. ASSUME GetObjectFilteringInfo(Filters[t]) = filter,
             (IF ask.table = "" THEN ask.schema ELSE ask.table) \in names[filter]
      PROVE  \E f \in ObjectFilter :
               /\ Filters[t] = {f}
               /\ (ask.exclude <=> f \in {"exclude-table", "exclude-schema"})
               /\ (IF f \in {"include-table", "exclude-table"}
                   THEN ask.table ELSE ask.schema) \in NamesOf[t][f]
  BY <1>2, <1>5, <1>6
<1>7. ASSUME NEW f \in ObjectFilter, Filters[t] = {f},
             (ask.exclude <=> f \in {"exclude-table", "exclude-schema"}),
             (IF f \in {"include-table", "exclude-table"}
              THEN ask.table ELSE ask.schema) \in NamesOf[t][f],
             ~(ask.table = "" /\ ask.schema = "")
      PROVE  /\ GetObjectFilteringInfo(Filters[t]) = filter
             /\ (IF ask.table = "" THEN ask.schema ELSE ask.table)
                  \in NamesOf[t][filter]
  <2>1. f \in {"include-table", "exclude-table"} <=> ask.table # ""
    BY <1>1, <1>3, <1>7
  <2>2. f = filter
    BY <1>4, <1>7, <2>1
  <2> QED
    BY <1>5, <1>7, <2>1, <2>2
<1> QED
  BY <1>6, <1>7 DEF CheckObjectFilteringExists, filter
-----------------------------------------------------------------------------
(* What the other commands do *)

\* The type of what the properties remember.
SeenType == [asked : SUBSET Backup, quiet : BOOLEAN, fault : BOOLEAN,
             short : SUBSET Backup]
USE DEF SeenType

\* A step of theirs keeps what is known of a backup: it changes no column but the
\* deletion status, and no backup that has been cleaned comes back.
Beside ==
  /\ IInv' /\ DetailsInv'
  /\ \A t : Known(t) => Known(t)'
  /\ \A t : Known(t) /\ t \in DOMAIN backups' =>
       /\ t \in DOMAIN backups
       /\ GetBackupType(backups'[t]) = GetBackupType(backups[t])

\* Table backups is the first that a batch leaves, so a backup that is there has
\* all its rows.
LEMMA DeleteBeside ==
  ASSUME IInv, DetailsInv, DeleteFromTable
  PROVE  Beside
<1>1. IInv'
  BY DeleteIInv
<1>2. /\ details' \subseteq details /\ DOMAIN backups' \subseteq DOMAIN backups
      /\ \A t \in DOMAIN backups' : backups'[t] = backups[t]
  BY DeleteRemoves
<1>3. DetailsInv'
  <2>1. SUFFICES ASSUME NEW row \in Details, row[2] \in DOMAIN backups',
                        row \notin details'
                 PROVE  FALSE
    BY <1>2 DEF DetailsInv
  <2>2. row \in details /\ row[2] \in DOMAIN backups
    BY <1>2, <2>1 DEF DetailsInv
  <2>3. details' = details \ ({Table[stmt]} \X Batch)
    BY <2>1, <2>2 DEF DeleteFromTable
  <2>4. row[1] = Table[stmt] /\ row[2] \in Batch /\ row[1] \in DetailTable
    BY <2>1, <2>2, <2>3, CleanAssumption
  <2>5. stmt \in 3..7
    BY <2>4, Tables DEF IInv, TypeOK, LastStatement, DetailTable
  <2>6. PICK k \in DOMAIN list : list[k] = row[2] /\ k < first + BatchSize
    BY <2>4, CleanAssumption DEF Batch, IInv, TypeOK
  <2>7. ~Has(Table[1], list[k])
    BY <2>5, <2>6, Tables DEF IInv, RemovedInv
  <2> QED
    BY <2>2, <2>6, <2>7, Tables DEF Has
<1>4. \A t : Known(t) => Known(t)'
  <2>1. SUFFICES ASSUME NEW t \in DOMAIN backups, t \notin DOMAIN backups'
                 PROVE  \E c \in Cutoff : t < c
    BY DEF Known
  <2>2. t \in Batch
    BY <2>1 DEF DeleteFromTable
  <2>3. PICK k \in DOMAIN list : list[k] = t
    BY <2>2 DEF Batch
  <2> QED
    BY <2>3 DEF IInv, TypeOK, ListInv
<1> QED
  BY <1>1, <1>2, <1>3, <1>4 DEF Beside

LEMMA NextBeside ==
  ASSUME IInv, DetailsInv, Next
  PROVE  Beside
<1>1. IInv'
  BY NextIInv
<1>2. CASE DeleteFromTable
  BY <1>2, DeleteBeside
<1>3. CASE Start \/ StartFails \/ Return \/ StatementFails \/ Killed
             \/ Terminated
  BY <1>1, <1>3 DEF Start, StartFails, Return, StatementFails, Killed,
     Terminated, vars, db, Beside, DetailsInv, Known
<1>4. CASE DeleteElsewhere
  BY <1>1, <1>4, ElsewhereIInv DEF DeleteElsewhere, Beside, DetailsInv, Known
<1> QED
  BY <1>2, <1>3, <1>4 DEF Next, Clean

\* What gpbackup stores is new and complete.
LEMMA StoreBeside ==
  ASSUME IInv, DetailsInv, StoreElsewhere
  PROVE  Beside
<1>1. PICK new \in DOMAIN Arrives :
        /\ \A u \in DOMAIN backups : u < new
        /\ backups' = [u \in DOMAIN backups \cup {new} |->
                         IF u = new THEN Arrives[new] ELSE backups[u]]
        /\ restorePlans' = restorePlans \cup {plan \in Plans : plan[1] = new}
        /\ details' = details \cup {row \in Details : row[2] = new}
        /\ UNCHANGED <<pc, cutoff, list, first, stmt, runs>>
  BY DEF StoreElsewhere
<1>2. /\ new \in Nat /\ new \in Backup /\ Arrives[new] \in Row
      /\ \A c \in Cutoff : c \in Nat /\ ~(new < c)
  <2>1. /\ new \in Backup /\ Arrives[new] \in Row
        /\ \A c \in Cutoff : new >= c
    BY InfoAssumption
  <2>2. new \in Nat /\ \A c \in Cutoff : c \in Nat
    BY <2>1, CleanAssumption
  <2> QED
    BY <2>1, <2>2
<1>3. new \notin DOMAIN backups
  BY <1>1, <1>2
<1>4. ~Known(new)
  BY <1>2, <1>3 DEF Known
<1>5. /\ DOMAIN backups' = DOMAIN backups \cup {new}
      /\ \A t \in DOMAIN backups : backups'[t] = backups[t]
      /\ backups'[new] = Arrives[new]
  BY <1>1, <1>3
<1>6. TypeOK'
  BY <1>1, <1>2, <1>5, CleanAssumption DEF IInv, TypeOK, LastStatement
<1>7. RemovedInv'
  <2>1. SUFFICES ASSUME NEW k \in DOMAIN list, NEW s \in DOMAIN Table,
                        Has(Table[s], list[k])', ~Has(Table[s], list[k])
                 PROVE  FALSE
    BY <1>1 DEF IInv, RemovedInv
  <2>2. list[k] # new
    BY <1>2 DEF IInv, ListInv
  <2> QED
    BY <1>1, <1>5, <2>1, <2>2 DEF Has
<1>8. ListInv'
  BY <1>1 DEF IInv, ListInv
<1>9. DetailsInv'
  BY <1>1, <1>5 DEF DetailsInv
<1> QED
  BY <1>4, <1>5, <1>6, <1>7, <1>8, <1>9 DEF Beside, IInv, Known

\* backup-info keeps its invariant while they work.
LEMMA BesideInfoIInv ==
  ASSUME InfoIInv, Beside, UNCHANGED info, seen' \in SeenType,
         seen'.asked = seen.asked, seen'.short = seen.short
  PROVE  InfoIInv'
<1>1. IInv' /\ DetailsInv'
  BY DEF Beside
<1>2. \A t : Known(t) => Known(t)'
  BY DEF Beside
<1>3. \A t : Known(t) /\ t \in DOMAIN backups' =>
        /\ t \in DOMAIN backups
        /\ GetBackupType(backups'[t]) = GetBackupType(backups[t])
  BY DEF Beside
<1>4. InfoTypeOK'
  BY <1>1 DEF IInv, InfoIInv, InfoTypeOK
<1>5. ReadInv'
  BY <1>2, <1>3 DEF InfoIInv, ReadInv, Done
<1>6. ListedInv'
  <2>1. ListedInv
    BY DEF InfoIInv
  <2>2. \A t \in seen.asked \cap DOMAIN backups' :
          Known(t) => t \in DOMAIN backups
    BY <1>3
  <2> QED
    BY <1>2, <1>3, <2>1, <2>2 DEF ListedInv
<1>7. OnlyAsked'
  BY DEF InfoIInv, OnlyAsked
<1>8. TornForCause'
  BY <1>3 DEF InfoIInv, ListedInv, TornForCause
<1> QED
  BY <1>1, <1>4, <1>5, <1>6, <1>7, <1>8 DEF InfoIInv
-----------------------------------------------------------------------------
(* The steps of backup-info *)

\* The type of its locals.
LocalsOK ==
  info \in [pc : {"none", "idle", "exit0", "exit1"} \cup Reading,
            ask : Ask \cup {NoAsk}, list : Seq(Backup), row : Row,
            names : [ObjectFilter -> SUBSET Name], aux : 1..4,
            shown : SUBSET [timestamp : Backup, details : SUBSET Name]]

\* They leave the tables alone.
LEMMA InfoKeeps ==
  ASSUME InfoIInv, UNCHANGED vars, LocalsOK',
         seen' \in SeenType,
         ReadInv', ListedInv', OnlyAsked', TornForCause'
  PROVE  InfoIInv'
<1>1. IInv'
  BY DEF InfoIInv, vars, IInv, TypeOK, RemovedInv, ListInv, Has, LastStatement
<1>2. DetailsInv'
  BY DEF InfoIInv, vars, DetailsInv
<1>3. InfoTypeOK'
  BY <1>1, Aux DEF IInv, InfoTypeOK, LocalsOK
<1> QED
  BY <1>1, <1>2, <1>3 DEF InfoIInv

LEMMA Empty ==
  /\ NoNames \in [ObjectFilter -> SUBSET Name] /\ NoRow \in Row
  /\ \A f \in ObjectFilter : NoNames[f] = {}
  /\ NoAsk.timestamp = 0 /\ NoAsk.table = "" /\ NoAsk.schema = ""
BY DEF NoNames, NoRow, NoAsk, Row, BackupStatus, BackupStatusSuccess,
       DateDeleted, DateDeletedKnown, DateDeletedActive

LEMMA InfoLocals ==
  ASSUME InfoIInv
  PROVE  /\ LocalsOK
         /\ seen \in SeenType
BY Aux DEF InfoIInv, InfoTypeOK, LocalsOK

\* An error leaves an empty table.
LEMMA Exit1InfoIInv ==
  ASSUME InfoIInv, UNCHANGED vars, info' = Exit1, seen'.asked = seen.asked,
         seen' \in SeenType
  PROVE  InfoIInv'
<1>1. LocalsOK /\ <<>> \in Seq(Backup)
  BY InfoLocals
<1>2. /\ info'.pc = "exit1" /\ info'.list = <<>> /\ info'.aux = 1
      /\ info'.shown = {} /\ info'.names = NoNames
  BY <1>1 DEF LocalsOK, Exit1
<1>3. LocalsOK'
  <2> DEFINE none == <<>>
  <2>1. none \in Seq(Backup) /\ info.ask \in Ask \cup {NoAsk}
    BY <1>1 DEF LocalsOK
  <2>2. info' = [pc |-> "exit1", ask |-> info.ask, list |-> none,
                 row |-> NoRow, names |-> NoNames, aux |-> 1, shown |-> {}]
    BY <1>1 DEF LocalsOK, Exit1
  <2>3. NoNames \in [ObjectFilter -> SUBSET Name] /\ NoRow \in Row
    BY Empty
  <2> HIDE DEF none
  <2> QED
    BY <2>1, <2>2, <2>3 DEF LocalsOK
<1>4. ReadInv'
  BY <1>2 DEF ReadInv
<1>5. ListedInv' /\ OnlyAsked' /\ TornForCause'
  BY <1>2 DEF ListedInv, OnlyAsked, TornForCause, Reading
<1> QED
  BY <1>3, <1>4, <1>5, InfoKeeps

\* backupInfoDB asks for the names that the flags stand for.
LEMMA StartInfoIInv ==
  ASSUME InfoIInv, StartInfo, UNCHANGED vars
  PROVE  InfoIInv'
<1>1. PICK ask \in Ask :
        /\ info.pc = "idle"
        /\ info' = [info EXCEPT
             !.pc = "row", !.ask = ask,
             !.list = IF ask.timestamp # 0 THEN <<ask.timestamp>>
                      ELSE GetBackupNamesDB(ask.deleted, ask.failed, backups)]
        /\ seen' = [seen EXCEPT !.asked = {t \in DOMAIN backups :
                                             AskedFor(ask, t)}]
  BY DEF StartInfo
<1>2. /\ ask.timestamp \in Backup \cup {0}
      /\ ask.deleted \in BOOLEAN /\ ask.failed \in BOOLEAN
  BY InfoAssumption
<1>3. /\ LocalsOK /\ info.aux = 1 /\ info.shown = {} /\ info.names = NoNames
      /\ seen \in SeenType
  BY <1>1, InfoLocals DEF InfoIInv, ReadInv
<1> DEFINE S == {t \in DOMAIN backups :
                   Listed(ask.deleted, ask.failed, backups[t])}
           names == OrderByTimestampDesc(S)
<1>4. /\ S \in SUBSET Backup /\ IsFiniteSet(S) /\ \A t \in S : t \in Nat
  BY CleanAssumption, FS_Subset DEF InfoIInv, IInv, TypeOK
<1> HIDE DEF S
<1>5. /\ names \in Seq(S)
      /\ \A k \in DOMAIN names : names[k] \in S
      /\ \A t \in S : \E k \in DOMAIN names : names[k] = t
  BY <1>4, QueryResult
<1>6. names \in Seq(Backup)
  <2> HIDE DEF names
  <2>1. \A k \in 1..Len(names) : names[k] \in Backup
    BY <1>4, <1>5
  <2> QED
    BY <1>5, <2>1
<1> HIDE DEF names
<1>7. /\ info'.pc = "row" /\ info'.ask = ask /\ info'.aux = 1
      /\ info'.shown = {} /\ info'.names = NoNames
      /\ info'.list = IF ask.timestamp # 0 THEN <<ask.timestamp>> ELSE names
  BY <1>1, <1>3 DEF LocalsOK, names, S, GetBackupNamesDB
<1>8. info'.list \in Seq(Backup)
  BY <1>2, <1>6, <1>7
<1>9. LocalsOK'
  BY <1>1, <1>3, <1>7, <1>8 DEF LocalsOK, Reading
<1>10. \A t \in DOMAIN backups :
         AskedFor(ask, t) <=>
           t \in S /\ Matches(ask, t, GetBackupType(backups[t]))
  BY <1>2 DEF AskedFor, S, Listed, BackupStatusFailure
<1>11. seen'.asked = {t \in DOMAIN backups : AskedFor(ask, t)}
  BY <1>1, <1>3
<1>12. ListedInv'
  <2>1. SUFFICES ASSUME ask.timestamp = 0 PROVE ListedInv'
    BY <1>7 DEF ListedInv
  <2>2. info'.list = names /\ UNCHANGED backups
    BY <1>7, <2>1 DEF vars
  <2>3. \A t \in S : t \in DOMAIN backups
    BY DEF S
  <2>4. \A t \in seen'.asked : t \in S /\ t \in DOMAIN backups
    BY <1>10, <1>11
  <2>5. \A k \in DOMAIN names :
          names[k] \in seen'.asked
            <=> Matches(ask, names[k], GetBackupType(backups[names[k]]))
    BY <1>5, <1>10, <1>11, <2>3
  <2> QED
    BY <1>5, <1>7, <2>2, <2>3, <2>4, <2>5 DEF ListedInv, Known
<1>13. ReadInv' /\ OnlyAsked' /\ TornForCause'
  BY <1>7 DEF ReadInv, OnlyAsked, TornForCause
<1>14. seen' \in SeenType
  BY <1>1, <1>3 DEF InfoIInv, IInv, TypeOK
<1> QED
  BY <1>9, <1>12, <1>13, <1>14, InfoKeeps

\* GetMainBackupInfo finds a row of a backup that is still there.
LEMMA ReadRowInfoIInv ==
  ASSUME InfoIInv, ReadRow, UNCHANGED vars
  PROVE  InfoIInv'
<1> DEFINE t == Head(info.list)
<1>1. /\ LocalsOK
      /\ seen' \in SeenType
  BY InfoLocals DEF ReadRow
<1>2. CASE info' = Exit1
  BY <1>1, <1>2, Exit1InfoIInv DEF ReadRow
<1>3. CASE /\ t \in DOMAIN backups
           /\ info' = [info EXCEPT !.pc = "aux", !.row = backups[t]]
  <2>1. /\ info.pc = "row" /\ info.list # <<>> /\ info.aux = 1
        /\ info.names = NoNames
    BY DEF ReadRow, InfoIInv, ReadInv
  <2>2. backups[t] \in Row /\ t \in Backup
    BY <1>3 DEF InfoIInv, IInv, TypeOK
  <2>3. /\ info'.pc = "aux" /\ info'.row = backups[t]
        /\ info'.list = info.list /\ info'.aux = 1 /\ info'.names = NoNames
        /\ info'.ask = info.ask /\ info'.shown = info.shown
    BY <1>1, <1>3, <2>1 DEF LocalsOK
  <2>4. LocalsOK'
    BY <1>1, <1>3, <2>2 DEF LocalsOK, Reading
  <2>5. UNCHANGED backups /\ seen' = seen /\ Known(t)'
    BY <1>3 DEF vars, ReadRow, Known
  <2>6. ReadInv'
    <3>1. Done' = {}
      BY <2>3 DEF Done
    <3>2. \A g \in ObjectFilter : info'.names[g] = {}
      BY <2>3, Empty
    <3>3. GetBackupType(info'.row) = GetBackupType(backups[t])
      BY <2>3
    <3> QED
      BY <2>1, <2>3, <2>5, <3>1, <3>2, <3>3 DEF ReadInv
  <2>7. 1 \in DOMAIN info.list /\ info.list[1] = t
    BY <1>1, <2>1 DEF LocalsOK
  <2>8. ListedInv'
    <3>1. ListedInv /\ info.pc \in Reading
      BY <2>1 DEF InfoIInv, Reading
    <3>2. info.ask.timestamp = 0 =>
            (t \in seen.asked
               <=> Matches(info.ask, t, GetBackupType(backups[t])))
      BY <1>3, <2>7, <3>1 DEF ListedInv
    <3> QED
      BY <2>3, <2>5, <3>1, <3>2 DEF ListedInv, Known, vars
  <2>9. OnlyAsked' /\ TornForCause'
    BY <2>3, <2>5 DEF InfoIInv, OnlyAsked, TornForCause
  <2> QED
    BY <1>1, <2>4, <2>6, <2>8, <2>9, InfoKeeps
<1> QED
  BY <1>2, <1>3 DEF ReadRow

\* A list that is read is the one that gpbackup stored, or a part of it when it
\* was cut short or the backup has left table backups.
LEMMA ReadAuxInfoIInv ==
  ASSUME InfoIInv, ReadAux, UNCHANGED vars
  PROVE  InfoIInv'
<1> DEFINE t == Head(info.list)
           u == AuxTable[info.aux]
           f == FilterOf[u]
           stored == IF <<u, t>> \in details THEN Listing[<<u, t>>] ELSE {}
<1>1. PICK X \in SUBSET stored :
        /\ info' = [info EXCEPT
             !.names[f] = X,
             !.aux = IF info.aux < Len(AuxTable) THEN info.aux + 1 ELSE 1,
             !.pc = IF info.aux < Len(AuxTable) THEN "aux" ELSE "plans"]
        /\ seen' = [seen EXCEPT !.short = IF X = stored THEN seen.short
                                          ELSE seen.short \cup {t}]
  BY DEF ReadAux
<1>2. LocalsOK /\ seen \in SeenType /\ UNCHANGED <<backups, details>>
  BY InfoLocals DEF vars
<1>3. /\ info.pc = "aux" /\ info.list # <<>> /\ t \in Backup
      /\ info.aux \in 1..4
  BY <1>2 DEF ReadAux, InfoIInv, ReadInv, LocalsOK
<1>4. u \in DOMAIN FilterOf /\ f \in ObjectFilter
  BY <1>3, Aux
<1>5. /\ seen' \in SeenType /\ seen'.asked = seen.asked
      /\ seen.short \subseteq seen'.short
      /\ t \notin seen'.short => t \notin seen.short /\ X = stored
  BY <1>1, <1>2, <1>3
<1>6. /\ X \subseteq NamesOf[t][f] /\ X \subseteq Name
      /\ t \in DOMAIN backups /\ t \notin seen'.short => X = NamesOf[t][f]
  <2>1. NamesOf[t][f] = IF <<u, t>> \in Details THEN Listing[<<u, t>>] ELSE {}
    BY <1>3, <1>4, NamesOfTable
  <2>2. /\ details \subseteq Details
        /\ t \in DOMAIN backups /\ <<u, t>> \in Details => <<u, t>> \in details
    BY DEF InfoIInv, DetailsInv
  <2>3. \A row \in Details : Listing[row] \subseteq Name
    BY InfoAssumption
  <2> QED
    BY <1>1, <1>5, <2>1, <2>2, <2>3
<1>7. info' = [info EXCEPT
        !.names[f] = X,
        !.aux = IF info.aux < 4 THEN info.aux + 1 ELSE 1,
        !.pc = IF info.aux < 4 THEN "aux" ELSE "plans"]
  BY <1>1, Aux
<1> HIDE DEF stored, f, u
<1>8. /\ info'.list = info.list /\ info'.row = info.row
      /\ info'.ask = info.ask /\ info'.shown = info.shown
      /\ info'.names = [info.names EXCEPT ![f] = X]
      /\ info'.aux = IF info.aux < 4 THEN info.aux + 1 ELSE 1
      /\ info'.pc = IF info.aux < 4 THEN "aux" ELSE "plans"
  BY <1>2, <1>7 DEF LocalsOK
<1>9. info'.names \in [ObjectFilter -> SUBSET Name]
  BY <1>2, <1>6, <1>8 DEF LocalsOK
<1>10. LocalsOK'
  <2>1. info'.aux \in 1..4 /\ info'.pc \in Reading
    BY <1>3, <1>8 DEF Reading
  <2>2. info' = [pc |-> info'.pc, ask |-> info.ask, list |-> info.list,
                 row |-> info.row, names |-> info'.names, aux |-> info'.aux,
                 shown |-> info.shown]
    BY <1>2, <1>7, <1>8 DEF LocalsOK
  <2> QED
    BY <1>2, <1>9, <2>1, <2>2 DEF LocalsOK
<1>11. /\ \A g \in ObjectFilter \ {f} : info'.names[g] = info.names[g]
      /\ info'.names[f] = X
  BY <1>2, <1>4, <1>8 DEF LocalsOK
<1>12. Done' \subseteq Done \cup {f}
  <2>1. Done = {FilterOf[AuxTable[k]] : k \in 1..(info.aux - 1)}
    BY <1>3 DEF Done
  <2>2. CASE info.aux < 4
    <3>1. Done' = {FilterOf[AuxTable[k]] : k \in 1..info.aux}
      BY <1>3, <1>8, <2>2 DEF Done
    <3> QED
      BY <1>3, <2>1, <3>1 DEF f, u
  <2>3. CASE info.aux = 4
    <3>1. Done' = {FilterOf[AuxTable[k]] : k \in 1..4}
      BY <1>8, <2>3, Aux DEF Done
    <3> QED
      BY <2>1, <2>3, <3>1 DEF f, u
  <2> QED
    BY <1>3, <2>2, <2>3
<1>13. Done' \subseteq ObjectFilter
  <2>1. CASE info.aux < 4
    BY <1>3, <1>8, <2>1, Aux DEF Done
  <2>2. CASE info.aux = 4
    BY <1>8, <2>2 DEF Done
  <2> QED
    BY <1>3, <2>1, <2>2
<1>14. ReadInv'
  <2>1. /\ info'.pc \in {"aux", "plans"} /\ info'.pc = "plans" => info'.aux = 1
    BY <1>3, <1>8
  <2>2. /\ Known(t) /\ \A g \in ObjectFilter : info.names[g] \subseteq NamesOf[t][g]
        /\ t \in DOMAIN backups =>
             /\ GetBackupType(info.row) = GetBackupType(backups[t])
             /\ t \notin seen.short =>
                  \A g \in Done : info.names[g] = NamesOf[t][g]
    BY <1>3 DEF InfoIInv, ReadInv
  <2>3. /\ \A g \in ObjectFilter : info'.names[g] \subseteq NamesOf[t][g]
        /\ t \in DOMAIN backups /\ t \notin seen'.short =>
             \A g \in Done' : info'.names[g] = NamesOf[t][g]
    BY <1>5, <1>6, <1>11, <1>12, <1>13, <2>2
  <2>4. Known(t)' /\ Head(info'.list) = t /\ info'.list # <<>>
    BY <1>2, <1>3, <1>8, <2>2 DEF Known
  <2> QED
    BY <1>2, <1>8, <2>1, <2>2, <2>3, <2>4 DEF ReadInv
<1>15. ListedInv'
  <2>1. ListedInv /\ info.pc \in Reading
    BY <1>3 DEF InfoIInv, Reading
  <2>2. info'.pc \in {"aux", "plans"}
    BY <1>8
  <2> QED
    BY <1>2, <1>3, <1>5, <1>8, <2>1, <2>2 DEF ListedInv, Known
<1>16. OnlyAsked' /\ TornForCause'
  BY <1>2, <1>5, <1>8 DEF InfoIInv, OnlyAsked, TornForCause
<1> QED
  BY <1>2, <1>5, <1>10, <1>14, <1>15, <1>16, InfoKeeps

\* addBackupToTable shows what was asked for: no more, though its lists may have
\* been read in part, and no less when they are whole.
LEMMA ShownMatches ==
  ASSUME LocalsOK, NEW t \in Backup,
         \A f \in ObjectFilter : info.names[f] \subseteq NamesOf[t][f]
  PROVE  LET type == GetBackupType(info.row)
         IN  /\ Shown(t) => Matches(info.ask, t, type)
             /\ info.names = NamesOf[t] =>
                  (Matches(info.ask, t, type) => Shown(t))
<1>1. /\ info.ask \in Ask \cup {NoAsk}
      /\ info.names \in [ObjectFilter -> SUBSET Name]
  BY DEF LocalsOK
<1>2. CASE info.ask \in Ask
  BY <1>1, <1>2, Filtering DEF Shown, Matches
<1>3. CASE info.ask = NoAsk
  BY <1>3, Empty DEF Shown, Matches, CheckObjectFilteringExists
<1> QED
  BY <1>1, <1>2, <1>3

LEMMA AddInfoIInv ==
  ASSUME InfoIInv, AddBackupToTable, UNCHANGED vars
  PROVE  InfoIInv'
<1> DEFINE t == Head(info.list)
           entry == [timestamp |-> t,
                     details |-> GetObjectFilteringDetails(Filters[t],
                                                           info.names)]
           pcNext == AfterAdding(t)
           shown == IF ~Shown(t) THEN info.shown ELSE info.shown \cup {entry}
<1>1. /\ LocalsOK
      /\ seen' \in SeenType
      /\ UNCHANGED <<seen, backups>>
  BY InfoLocals DEF AddBackupToTable, vars
<1>2. /\ info.pc = "plans" /\ info.list # <<>> /\ info.aux = 1
      /\ info.list \in Seq(Backup)
  BY <1>1 DEF AddBackupToTable, InfoIInv, ReadInv, LocalsOK
<1>3. /\ t \in Backup /\ t # 0 /\ Tail(info.list) \in Seq(Backup)
      /\ DOMAIN Tail(info.list) = 1..(Len(info.list) - 1)
      /\ \A k \in DOMAIN Tail(info.list) :
           /\ k + 1 \in DOMAIN info.list
           /\ Tail(info.list)[k] = info.list[k + 1]
      /\ \A k \in DOMAIN info.list :
           \/ info.list[k] = t
           \/ \E j \in DOMAIN Tail(info.list) : Tail(info.list)[j] = info.list[k]
  <2>1. t \in Backup /\ t # 0 /\ Tail(info.list) \in Seq(Backup)
    <3>1. t \in Backup /\ Tail(info.list) \in Seq(Backup)
      BY <1>2
    <3>2. 0 \notin Backup
      BY InfoAssumption
    <3> QED
      BY <3>1, <3>2
  <2>2. /\ DOMAIN Tail(info.list) = 1..(Len(info.list) - 1)
        /\ \A k \in 1..(Len(info.list) - 1) :
             Tail(info.list)[k] = info.list[k + 1]
        /\ DOMAIN info.list = 1..Len(info.list) /\ Len(info.list) \in Nat
        /\ t = info.list[1]
    BY <1>2
  <2>3. ASSUME NEW k \in DOMAIN info.list, info.list[k] # t
        PROVE  k - 1 \in DOMAIN Tail(info.list)
                 /\ Tail(info.list)[k - 1] = info.list[k]
    BY <2>2, <2>3
  <2> QED
    BY <2>1, <2>2, <2>3
<1>4. /\ Known(t)
      /\ \A f \in ObjectFilter : info.names[f] \subseteq NamesOf[t][f]
      /\ t \in DOMAIN backups =>
           /\ GetBackupType(info.row) = GetBackupType(backups[t])
           /\ t \notin seen.short =>
                \A f \in ObjectFilter : info.names[f] = NamesOf[t][f]
  BY <1>2 DEF InfoIInv, ReadInv, Done
<1>5. t \in DOMAIN backups \ seen.short => info.names = NamesOf[t]
  <2>1. AuxTable[1] \in DOMAIN FilterOf
    BY Aux
  <2>2. /\ NamesOf[t] \in [ObjectFilter -> SUBSET Name]
        /\ info.names \in [ObjectFilter -> SUBSET Name]
    BY <1>1, <1>3, <2>1, NamesOfTable DEF LocalsOK
  <2> QED
    BY <1>4, <2>2
<1>6. /\ Shown(t) => Matches(info.ask, t, GetBackupType(info.row))
      /\ t \in DOMAIN backups \ seen.short =>
           (Matches(info.ask, t, GetBackupType(info.row)) => Shown(t))
  BY <1>1, <1>3, <1>4, <1>5, ShownMatches
<1>7. /\ entry.timestamp = t
      /\ entry \in [timestamp : Backup, details : SUBSET Name]
      /\ t \in DOMAIN backups \ seen.short => entry.details = FullDetails[t]
  <2>1. GetObjectFilteringDetails(Filters[t], info.names) \in SUBSET Name
    BY <1>1, DetailsAreNames DEF LocalsOK
  <2>2. FullDetails[t] = GetObjectFilteringDetails(Filters[t], NamesOf[t])
    BY <1>3 DEF FullDetails
  <2> QED
    BY <1>3, <1>5, <2>1, <2>2
<1>8. t \in DOMAIN backups \ seen.short =>
        entry = [timestamp |-> t, details |-> FullDetails[t]]
  BY <1>7
<1>9. info' = [info EXCEPT !.shown = shown, !.list = Tail(info.list),
                           !.row = NoRow, !.names = NoNames, !.pc = pcNext]
  BY DEF AddBackupToTable
<1>10. pcNext \in {"row", "dependents"}
       /\ (info.ask.timestamp = 0 => pcNext = "row")
  BY <1>3 DEF AfterAdding
<1>11. shown \in SUBSET [timestamp : Backup, details : SUBSET Name]
  BY <1>1, <1>7 DEF LocalsOK
<1>12. /\ \A e \in shown : e \in info.shown \/ (e = entry /\ Shown(t))
       /\ info.shown \subseteq shown /\ (Shown(t) => entry \in shown)
  OBVIOUS
<1> HIDE DEF shown, entry, pcNext
<1>13. info' = [pc |-> pcNext, ask |-> info.ask, list |-> Tail(info.list),
                row |-> NoRow, names |-> NoNames, aux |-> 1, shown |-> shown]
  BY <1>1, <1>2, <1>9 DEF LocalsOK
<1>14. LocalsOK'
  <2>1. NoNames \in [ObjectFilter -> SUBSET Name] /\ NoRow \in Row
    BY Empty
  <2>2. pcNext \in Reading /\ info.ask \in Ask \cup {NoAsk}
    BY <1>1, <1>10 DEF Reading, LocalsOK
  <2> QED
    BY <1>3, <1>11, <1>13, <2>1, <2>2 DEF LocalsOK
<1>15. ReadInv'
  BY <1>10, <1>13 DEF ReadInv
<1>16. ListedInv /\ info.pc \in Reading
  BY <1>2 DEF InfoIInv, Reading
<1>17. \A e \in shown : Known(e.timestamp)'
  BY <1>1, <1>4, <1>7, <1>12, <1>16 DEF ListedInv, Known, vars
<1>18. ASSUME info.ask.timestamp = 0
       PROVE  /\ \A k \in DOMAIN Tail(info.list) :
                   LET u == Tail(info.list)[k] IN
                   /\ Known(u)
                   /\ u \in DOMAIN backups =>
                        (u \in seen.asked
                           <=> Matches(info.ask, u, GetBackupType(backups[u])))
              /\ \A u \in seen.asked :
                   /\ Known(u)
                   /\ \/ u \notin DOMAIN backups \/ u \in seen.short
                      \/ \E k \in DOMAIN Tail(info.list) : Tail(info.list)[k] = u
                      \/ [timestamp |-> u, details |-> FullDetails[u]] \in shown
              /\ Shown(t) => t \in seen.asked
  <2>1. /\ \A k \in DOMAIN info.list :
             LET u == info.list[k] IN
             /\ Known(u)
             /\ u \in DOMAIN backups =>
                  (u \in seen.asked
                     <=> Matches(info.ask, u, GetBackupType(backups[u])))
        /\ t \in seen.asked <=> Matches(info.ask, t, GetBackupType(info.row))
        /\ \A u \in seen.asked :
             /\ Known(u)
             /\ \/ u \notin DOMAIN backups \/ u \in seen.short
                \/ \E k \in DOMAIN info.list : info.list[k] = u
                \/ [timestamp |-> u, details |-> FullDetails[u]] \in info.shown
    BY <1>2, <1>16, <1>18 DEF ListedInv
  <2>2. ASSUME NEW u \in (seen.asked \cap DOMAIN backups) \ seen.short
        PROVE  \/ \E k \in DOMAIN Tail(info.list) : Tail(info.list)[k] = u
               \/ [timestamp |-> u, details |-> FullDetails[u]] \in shown
    <3>1. CASE u = t
      BY <1>6, <1>8, <1>12, <2>1, <3>1
    <3>2. CASE \E k \in DOMAIN info.list : info.list[k] = u /\ u # t
      BY <1>3, <3>2
    <3>3. CASE [timestamp |-> u, details |-> FullDetails[u]] \in info.shown
      BY <1>12, <3>3
    <3> QED
      BY <2>1, <3>1, <3>2, <3>3
  <2>3. ASSUME NEW k \in DOMAIN Tail(info.list)
        PROVE  LET u == Tail(info.list)[k] IN
               /\ Known(u)
               /\ u \in DOMAIN backups =>
                    (u \in seen.asked
                       <=> Matches(info.ask, u, GetBackupType(backups[u])))
    BY <1>3, <2>1
  <2> QED
    BY <1>6, <2>1, <2>2, <2>3
<1>19. ListedInv'
  BY <1>1, <1>10, <1>13, <1>17, <1>18 DEF ListedInv, Known, vars
<1>20. OnlyAsked'
  BY <1>1, <1>7, <1>12, <1>13, <1>18 DEF InfoIInv, OnlyAsked
<1>21. TornForCause'
  BY <1>1, <1>7, <1>12, <1>13 DEF InfoIInv, TornForCause
<1> QED
  BY <1>1, <1>14, <1>15, <1>19, <1>20, <1>21, InfoKeeps

\* The dependents of the backup that --timestamp gives.
LEMMA QueryDependentsInfoIInv ==
  ASSUME InfoIInv, QueryDependents, UNCHANGED vars
  PROVE  InfoIInv'
<1> DEFINE S == Dependents(info.ask.timestamp, restorePlans)
           deps == OrderByTimestampDesc(S)
<1>1. /\ LocalsOK
      /\ seen' \in SeenType
      /\ UNCHANGED <<seen, backups>>
  BY InfoLocals DEF QueryDependents, vars
<1>2. /\ info.pc = "dependents" /\ info.aux = 1 /\ info.names = NoNames
      /\ info.ask.timestamp # 0
  BY DEF QueryDependents, InfoIInv, ReadInv, ListedInv, Reading
<1>3. /\ S \in SUBSET Backup /\ IsFiniteSet(S) /\ \A t \in S : t \in Nat
  <2>1. restorePlans \subseteq Backup \X Backup
    BY DEF InfoIInv, IInv, TypeOK
  <2>2. S \in SUBSET Backup
    BY <2>1 DEF Dependents
  <2> HIDE DEF S
  <2> QED
    BY <2>2, CleanAssumption, FS_Subset
<1> HIDE DEF S
<1>4. deps \in Seq(S)
  BY <1>3, QueryResult
<1>5. deps \in Seq(Backup)
  <2> HIDE DEF deps
  <2>1. \A k \in 1..Len(deps) : deps[k] \in Backup
    BY <1>3, <1>4
  <2> QED
    BY <1>4, <2>1
<1>6. info' = [info EXCEPT !.pc = "row", !.list = deps]
  BY DEF QueryDependents, GetBackupDependencies, S
<1> HIDE DEF deps
<1>7. /\ info'.pc = "row" /\ info'.aux = 1 /\ info'.names = NoNames
      /\ info'.ask = info.ask /\ info'.shown = info.shown
  BY <1>1, <1>2, <1>6 DEF LocalsOK
<1>8. LocalsOK'
  BY <1>1, <1>5, <1>6 DEF LocalsOK, Reading
<1>9. ReadInv' /\ ListedInv' /\ OnlyAsked' /\ TornForCause'
  BY <1>1, <1>2, <1>7 DEF InfoIInv, ReadInv, ListedInv, OnlyAsked,
     TornForCause, Known
<1> QED
  BY <1>1, <1>8, <1>9, InfoKeeps

\* The table is written when the list is empty.
LEMMA RenderInfoIInv ==
  ASSUME InfoIInv, Render, UNCHANGED vars
  PROVE  InfoIInv'
<1>1. /\ LocalsOK
      /\ seen' \in SeenType
      /\ UNCHANGED <<seen, backups>>
  BY InfoLocals DEF Render, vars
<1>2. /\ info.pc = "row" /\ info.list = <<>>
      /\ info' = [info EXCEPT !.pc = "exit0"]
  BY DEF Render
<1>3. /\ info'.pc = "exit0" /\ info'.list = <<>> /\ info'.aux = info.aux
      /\ info'.names = info.names /\ info'.ask = info.ask
      /\ info'.shown = info.shown
  BY <1>1, <1>2 DEF LocalsOK
<1>4. LocalsOK'
  BY <1>1, <1>2 DEF LocalsOK
<1>5. ReadInv' /\ ListedInv' /\ OnlyAsked' /\ TornForCause'
  BY <1>1, <1>2, <1>3 DEF InfoIInv, ReadInv, ListedInv, OnlyAsked,
     TornForCause, Known, Reading
<1> QED
  BY <1>1, <1>4, <1>5, InfoKeeps
-----------------------------------------------------------------------------
(* The invariant *)

LEMMA InitInfoIInv == InfoInit => InfoIInv
<1>1. SUFFICES ASSUME InfoInit PROVE InfoIInv
  OBVIOUS
<1>2. IInv
  BY <1>1, InitIInv DEF InfoInit
<1>3. DetailsInv
  BY <1>1, CleanAssumption DEF InfoInit, Init, DetailsInv
<1>4. PICK given \in {"idle", "none"} :
        info = [pc |-> given, ask |-> NoAsk, list |-> <<>>, row |-> NoRow,
                names |-> NoNames, aux |-> 1, shown |-> {}]
  BY <1>1 DEF InfoInit
<1>5. seen = [asked |-> {}, quiet |-> TRUE, fault |-> FALSE, short |-> {}]
  BY <1>1 DEF InfoInit
<1>6. LocalsOK
  <2> DEFINE none == <<>>
  <2>1. none \in Seq(Backup)
    OBVIOUS
  <2>2. NoNames \in [ObjectFilter -> SUBSET Name] /\ NoRow \in Row
    BY Empty
  <2> HIDE DEF none
  <2>3. info = [pc |-> given, ask |-> NoAsk, list |-> none, row |-> NoRow,
                names |-> NoNames, aux |-> 1, shown |-> {}]
    BY <1>4 DEF none
  <2> QED
    BY <2>1, <2>2, <2>3 DEF LocalsOK
<1>7. InfoTypeOK
  BY <1>2, <1>5, <1>6, Aux DEF IInv, InfoTypeOK, LocalsOK
<1>8. ReadInv /\ ListedInv /\ OnlyAsked /\ TornForCause
  BY <1>4 DEF ReadInv, ListedInv, OnlyAsked, TornForCause, Reading
<1> QED
  BY <1>2, <1>3, <1>7, <1>8 DEF InfoIInv

LEMMA NextInfoIInv == InfoIInv /\ [InfoNext]_<<vars, infoVars>> => InfoIInv'
<1>1. SUFFICES ASSUME InfoIInv, [InfoNext]_<<vars, infoVars>> PROVE InfoIInv'
  OBVIOUS
<1>2. CASE StartInfo /\ UNCHANGED vars
  BY <1>1, <1>2, StartInfoIInv
<1>3. CASE ReadStep /\ UNCHANGED vars
  BY <1>1, <1>3, ReadRowInfoIInv, ReadAuxInfoIInv, AddInfoIInv,
     QueryDependentsInfoIInv, RenderInfoIInv DEF ReadStep
<1>4. CASE InfoFails /\ UNCHANGED vars
  <2>1. /\ info' = Exit1 /\ seen'.asked = seen.asked
        /\ seen' \in SeenType
    BY <1>1, <1>4, InfoLocals DEF InfoFails
  <2> QED
    BY <1>1, <1>4, <2>1, Exit1InfoIInv
<1>5. CASE /\ Next \/ StoreElsewhere
           /\ seen' = [seen EXCEPT
                         !.quiet = @ /\ (info.pc \notin Reading \/ db' = db)]
           /\ UNCHANGED info
  <2>1. Beside
    BY <1>1, <1>5, NextBeside, StoreBeside DEF InfoIInv
  <2>2. /\ seen'.asked = seen.asked /\ seen'.short = seen.short
        /\ seen' \in SeenType
    BY <1>1, <1>5, InfoLocals
  <2> QED
    BY <1>1, <1>5, <2>1, <2>2, BesideInfoIInv
<1>6. CASE UNCHANGED <<vars, infoVars>>
  <2>1. UNCHANGED vars /\ info' = info /\ seen' = seen
    BY <1>6 DEF infoVars
  <2>2. LocalsOK' /\ seen' \in SeenType
    BY <1>1, <2>1, InfoLocals DEF LocalsOK
  <2>3. ReadInv' /\ ListedInv' /\ OnlyAsked' /\ TornForCause'
    BY <1>1, <2>1 DEF InfoIInv, ReadInv, ListedInv, OnlyAsked,
       TornForCause, Known, Done, vars
  <2> QED
    BY <1>1, <2>1, <2>2, <2>3, InfoKeeps
<1> QED
  BY <1>1, <1>2, <1>3, <1>4, <1>5, <1>6 DEF InfoNext

\* The inductive invariant of backup-info and what runs beside it holds in every
\* reachable state.
THEOREM InfoInvariance == InfoSpec => []InfoIInv
BY InitInfoIInv, NextInfoIInv, PTL DEF InfoSpec

\* backup-info's locals and the tables beside it keep their types.
THEOREM InfoTypeCorrect == InfoSpec => []InfoTypeOK
BY InfoInvariance, PTL DEF InfoIInv

\* Whatever is cleaned, deleted or stored while the table is built, it has all
\* the backups that the flags ask for and that are still there, with all details,
\* except those of which an unseen error of SQLite cut a list short.
THEOREM ListComplete == InfoSpec => []CompleteList
<1>1. InfoIInv => CompleteList
  <2>1. SUFFICES ASSUME InfoIInv, info.pc = "exit0", info.ask.timestamp = 0,
                        NEW t \in (seen.asked \cap DOMAIN backups) \ seen.short
                 PROVE  [timestamp |-> t, details |-> FullDetails[t]]
                          \in info.shown
    BY DEF CompleteList
  <2>2. info.list = <<>>
    BY <2>1 DEF InfoIInv, ReadInv
  <2>3. DOMAIN info.list = {}
    BY <2>2
  <2> QED
    BY <2>1, <2>3 DEF InfoIInv, ListedInv
<1> QED
  BY <1>1, InfoInvariance, PTL

\* Nothing is in the table that the flags did not ask for, even where lists were
\* cut short.
THEOREM NoneUnasked == InfoSpec => []OnlyAsked
BY InfoInvariance, PTL DEF InfoIInv

\* Only a backup that has left table backups, or one of whose lists was cut short
\* by an unseen error of SQLite, can be shown in part.
THEOREM TornCaused == InfoSpec => []TornForCause
BY InfoInvariance, PTL DEF InfoIInv
-----------------------------------------------------------------------------
(* Why backup-info fails *)

\* What the steps keep of the list and of the flags.
LEMMA InfoQuiet ==
  ASSUME InfoIInv, QuietInv, StartInfo \/ ReadStep, UNCHANGED vars
  PROVE  QuietInv'
<1>1. /\ LocalsOK /\ info.list \in Seq(Backup)
      /\ seen \in SeenType
  BY InfoLocals DEF LocalsOK
<1>2. UNCHANGED <<backups, restorePlans>>
  BY DEF vars
<1>3. CASE StartInfo
  <2>1. PICK ask \in Ask :
          info' = [info EXCEPT
            !.pc = "row", !.ask = ask,
            !.list = IF ask.timestamp # 0 THEN <<ask.timestamp>>
                     ELSE GetBackupNamesDB(ask.deleted, ask.failed, backups)]
    BY <1>3 DEF StartInfo
  <2> DEFINE S == {t \in DOMAIN backups :
                     Listed(ask.deleted, ask.failed, backups[t])}
             names == OrderByTimestampDesc(S)
  <2>2. IsFiniteSet(S) /\ S \subseteq DOMAIN backups /\ \A t \in S : t \in Nat
    BY CleanAssumption, FS_Subset DEF InfoIInv, IInv, TypeOK
  <2> HIDE DEF S
  <2>3. \A k \in DOMAIN names : names[k] \in DOMAIN backups
    BY <2>2, QueryResult
  <2>4. /\ info'.ask = ask
        /\ info'.list = IF ask.timestamp # 0 THEN <<ask.timestamp>> ELSE names
    BY <1>1, <2>1 DEF LocalsOK, S, GetBackupNamesDB
  <2> QED
    BY <1>2, <2>3, <2>4 DEF QuietInv, Expected
<1>4. ASSUME seen'.quiet = seen.quiet, info'.ask = info.ask, info.pc \in Reading,
             seen.quiet => \A k \in DOMAIN info'.list : info'.list[k] \in Expected
      PROVE  QuietInv'
  BY <1>2, <1>4 DEF QuietInv, Expected
<1>5. CASE ReadRow \/ ReadAux \/ Render
  <2>1. /\ seen'.quiet = seen.quiet /\ info'.ask = info.ask
        /\ info.pc \in Reading /\ info'.list \in {info.list, <<>>}
    BY <1>1, <1>5 DEF LocalsOK, ReadRow, ReadAux, Render, Exit1, Reading
  <2> QED
    BY <1>4, <2>1 DEF QuietInv
<1>6. CASE AddBackupToTable
  <2>1. /\ UNCHANGED seen /\ info'.ask = info.ask /\ info.pc \in Reading
        /\ info'.list = Tail(info.list) /\ info.list # <<>>
    BY <1>1, <1>6 DEF LocalsOK, AddBackupToTable, Reading, InfoIInv, ReadInv
  <2>2. \A k \in DOMAIN Tail(info.list) :
          k + 1 \in DOMAIN info.list /\ Tail(info.list)[k] = info.list[k + 1]
    BY <1>1, <2>1
  <2> QED
    BY <1>4, <2>1, <2>2 DEF QuietInv
<1>7. CASE QueryDependents
  <2> DEFINE S == Dependents(info.ask.timestamp, restorePlans)
             deps == OrderByTimestampDesc(S)
  <2>1. /\ UNCHANGED seen /\ info'.ask = info.ask /\ info.pc = "dependents"
        /\ info'.list = deps
    BY <1>1, <1>7 DEF LocalsOK, QueryDependents, GetBackupDependencies
  <2>2. info.ask.timestamp # 0 /\ info.pc \in Reading
    BY <2>1 DEF InfoIInv, ListedInv, Reading
  <2>3. S \subseteq Expected
    BY <2>2 DEF Expected
  <2>4. IsFiniteSet(S) /\ \A t \in S : t \in Nat
    <3>1. restorePlans \subseteq Backup \X Backup
      BY DEF InfoIInv, IInv, TypeOK
    <3>2. S \subseteq Backup
      BY <3>1 DEF Dependents
    <3> HIDE DEF S
    <3> QED
      BY <3>2, CleanAssumption, FS_Subset
  <2> HIDE DEF S
  <2>5. \A k \in DOMAIN deps : deps[k] \in S
    BY <2>4, QueryResult
  <2> QED
    BY <1>4, <2>1, <2>2, <2>3, <2>5
<1> QED
  BY <1>3, <1>5, <1>6, <1>7 DEF ReadStep

LEMMA NextQuiet ==
  ASSUME InfoIInv, QuietInv, [InfoNext]_<<vars, infoVars>>
  PROVE  QuietInv'
<1>1. /\ LocalsOK
      /\ seen \in SeenType
  BY InfoLocals
<1>2. CASE (StartInfo \/ ReadStep) /\ UNCHANGED vars
  BY <1>2, InfoQuiet
<1>3. CASE InfoFails /\ UNCHANGED vars
  <2>1. info'.pc = "exit1"
    BY <1>1, <1>3 DEF InfoFails, Exit1, LocalsOK
  <2> QED
    BY <2>1 DEF QuietInv, Reading
<1>4. CASE /\ seen' = [seen EXCEPT
                         !.quiet = @ /\ (info.pc \notin Reading \/ db' = db)]
           /\ UNCHANGED info
  <2>1. seen'.quiet => seen.quiet /\ (info.pc \notin Reading \/ db' = db)
    BY <1>1, <1>4
  <2> QED
    BY <1>4, <2>1 DEF QuietInv, Expected, db
<1>5. CASE UNCHANGED <<vars, infoVars>>
  BY <1>5 DEF vars, infoVars, QuietInv, Expected
<1> QED
  BY <1>2, <1>3, <1>4, <1>5 DEF InfoNext

\* backup-info gives up only where GetMainBackupInfo finds no row.
LEMMA GivesUpAtRow ==
  ASSUME InfoIInv, [InfoNext]_<<vars, infoVars>>, GivesUp
  PROVE  /\ info.list \in Seq(Backup) /\ info.list # <<>>
         /\ Head(info.list) \notin DOMAIN backups
<1>1. /\ LocalsOK /\ info.list \in Seq(Backup)
      /\ seen \in SeenType
  BY InfoLocals DEF LocalsOK
<1>2. info.pc \in Reading /\ info'.pc = "exit1" /\ info'.pc # info.pc
  BY DEF GivesUp, Reading
<1>3. ~(InfoFails /\ UNCHANGED vars)
  BY <1>1 DEF InfoFails, GivesUp
<1>4. ~(ReadAux \/ AddBackupToTable \/ QueryDependents \/ Render \/ StartInfo)
  BY <1>1, <1>2 DEF LocalsOK, ReadAux, AddBackupToTable, AfterAdding,
     QueryDependents, Render, StartInfo
<1>5. ReadRow
  BY <1>2, <1>3, <1>4 DEF InfoNext, ReadStep, infoVars
<1> QED
  BY <1>1, <1>2, <1>5 DEF ReadRow, LocalsOK

\* Without an error of SQLite backup-info fails only because tables changed while
\* it read them, or because the timestamp it was given, or one that a plan names
\* as its dependent, has no row.
THEOREM FailureHasCause == InfoSpec => FailsForCause
<1> DEFINE Cause ==
  GivesUp /\ seen.quiet =>
    /\ info.ask.timestamp # 0
    /\ \E t \in {info.ask.timestamp}
                  \cup Dependents(info.ask.timestamp, restorePlans) :
         t \notin DOMAIN backups
<1>1. InfoInit => QuietInv
  BY DEF InfoInit, QuietInv, Reading
<1>2. InfoIInv /\ QuietInv /\ [InfoNext]_<<vars, infoVars>> => QuietInv'
  BY NextQuiet
<1>3. ASSUME InfoIInv, QuietInv, [InfoNext]_<<vars, infoVars>>
      PROVE  [Cause]_infoVars
  <2>1. SUFFICES ASSUME GivesUp, seen.quiet PROVE Cause
    OBVIOUS
  <2>2. /\ info.list \in Seq(Backup) /\ info.list # <<>>
        /\ Head(info.list) \notin DOMAIN backups
    BY <1>3, <2>1, GivesUpAtRow
  <2>3. 1 \in DOMAIN info.list /\ Head(info.list) = info.list[1]
    BY <2>2
  <2>4. Head(info.list) \in Expected
    BY <1>3, <2>1, <2>3 DEF QuietInv, GivesUp
  <2> QED
    BY <2>2, <2>4 DEF Expected
<1>4. InfoIInv /\ QuietInv /\ [InfoNext]_<<vars, infoVars>> => [Cause]_infoVars
  BY <1>3
<1> HIDE DEF Cause
<1>5. InfoSpec => [][Cause]_infoVars
  BY <1>1, <1>2, <1>4, InfoInvariance, PTL DEF InfoSpec
<1> QED
  BY <1>5 DEF Cause, FailsForCause

\* Beside a history-clean that is not interrupted no plan is left without its backup.
LEMMA CleanPlans ==
  ASSUME IInv, PlansInv, DeleteFromTable
  PROVE  PlansInv'
<1>1. /\ pc = "running" /\ pc' = "running" /\ stmt \in 1..7
      /\ UNCHANGED list
  BY Tables DEF DeleteFromTable, IInv, TypeOK, LastStatement
<1>2. CASE stmt = 1
  <2>1. /\ DOMAIN backups' = DOMAIN backups \ Batch /\ UNCHANGED restorePlans
        /\ stmt' = 2 /\ first' = first
    BY <1>2, Tables DEF DeleteFromTable, LastStatement
  <2>2. Batch' = Batch
    BY <1>1, <2>1 DEF Batch
  <2> QED
    BY <1>1, <1>2, <2>1, <2>2 DEF PlansInv
<1>3. CASE stmt = 2
  <2>1. /\ restorePlans' = {plan \in restorePlans : plan[1] \notin Batch}
        /\ UNCHANGED backups
    BY <1>3, Tables DEF DeleteFromTable
  <2> QED
    BY <2>1 DEF PlansInv
<1>4. CASE stmt \in 3..7
  <2>1. UNCHANGED <<backups, restorePlans>> /\ stmt # 2
    BY <1>4, Tables DEF DeleteFromTable
  <2> QED
    BY <2>1 DEF PlansInv
<1> QED
  BY <1>1, <1>2, <1>3, <1>4

LEMMA NextPlans ==
  ASSUME ~Faults, InfoIInv, PlansInv, [InfoNext]_<<vars, infoVars>>
  PROVE  PlansInv'
<1>1. IInv
  BY DEF InfoIInv
<1>2. ASSUME pc # "running", UNCHANGED <<backups, restorePlans>>
      PROVE  PlansInv'
  BY <1>2 DEF PlansInv
<1>3. CASE Start
  BY <1>2, <1>3 DEF Start, db
<1>4. CASE DeleteFromTable
  BY <1>1, <1>4, CleanPlans
<1>5. CASE Return
  <2>1. /\ first > Len(list) /\ UNCHANGED <<backups, restorePlans>>
    BY <1>5 DEF Return, db
  <2>2. list \in Seq(Backup) /\ first \in Nat
    BY <1>1, CleanAssumption DEF IInv, TypeOK
  <2>3. Batch = {}
    BY <2>1, <2>2, CleanAssumption DEF Batch
  <2> QED
    BY <2>1, <2>3 DEF PlansInv
<1>6. CASE DeleteElsewhere
  <2>1. DOMAIN backups' = DOMAIN backups
    BY <1>6, DeleterStep DEF DeleteElsewhere, UpdateDeleteStatus
  <2> QED
    BY <1>6, <2>1 DEF DeleteElsewhere, PlansInv, Batch
<1>7. CASE StoreElsewhere
  <2>1. PICK t \in DOMAIN Arrives :
          /\ backups' = [u \in DOMAIN backups \cup {t} |->
                           IF u = t THEN Arrives[t] ELSE backups[u]]
          /\ restorePlans' = restorePlans \cup {plan \in Plans : plan[1] = t}
    BY <1>7 DEF StoreElsewhere
  <2>2. DOMAIN backups' = DOMAIN backups \cup {t}
    BY <2>1
  <2> QED
    BY <1>7, <2>1, <2>2 DEF StoreElsewhere, PlansInv, Batch
<1>8. CASE UNCHANGED vars
  BY <1>8 DEF vars, PlansInv, Batch
<1> QED
  BY <1>3, <1>4, <1>5, <1>6, <1>7, <1>8
     DEF InfoNext, Next, Clean, StartFails, StatementFails, Killed, Terminated

\* What backup-info --timestamp promises holds unless a statement fails or a
\* history-clean is killed half way: a backup that is there is shown.
THEOREM ShownWithoutFaults ==
  ASSUME ~Faults
  PROVE  InfoSpec => TimestampShown
<1> DEFINE Cause ==
  GivesUp /\ seen.quiet =>
    /\ info.ask.timestamp # 0
    /\ \E t \in {info.ask.timestamp}
                  \cup Dependents(info.ask.timestamp, restorePlans) :
         t \notin DOMAIN backups
           Gone ==
  GivesUp /\ seen.quiet /\ pc # "running"
    => info.ask.timestamp \notin DOMAIN backups
<1>1. InfoInit => PlansInv
  BY DEF InfoInit, Init, PlansInv
<1>2. InfoIInv /\ PlansInv /\ [InfoNext]_<<vars, infoVars>> => PlansInv'
  BY NextPlans
<1>3. ASSUME PlansInv, [Cause]_infoVars PROVE [Gone]_infoVars
  <2>1. SUFFICES ASSUME Cause, GivesUp, seen.quiet, pc # "running"
                 PROVE  info.ask.timestamp \notin DOMAIN backups
    BY <1>3
  <2>2. PICK t \in {info.ask.timestamp}
                     \cup Dependents(info.ask.timestamp, restorePlans) :
          t \notin DOMAIN backups
    BY <2>1
  <2>3. CASE t \in Dependents(info.ask.timestamp, restorePlans)
    <3>1. PICK plan \in restorePlans : plan[1] = t
      BY <2>3 DEF Dependents
    <3> QED
      BY <1>3, <2>1, <2>2, <3>1 DEF PlansInv
  <2> QED
    BY <2>2, <2>3
<1>4. PlansInv /\ [Cause]_infoVars => [Gone]_infoVars
  BY <1>3
<1>5. InfoSpec => [][Cause]_infoVars
  BY FailureHasCause DEF FailsForCause
<1> HIDE DEF Cause, Gone
<1>6. InfoSpec => [][Gone]_infoVars
  BY <1>1, <1>2, <1>4, <1>5, InfoInvariance, PTL DEF InfoSpec
<1> QED
  BY <1>6 DEF Gone, TimestampShown
-----------------------------------------------------------------------------
(* The database and a YAML file *)

\* --deleted and --failed show the same rows of a database and of a YAML file, but
\* for a deletion in progress with --failed alone.
THEOREM DisplaysAgree == InfoSpec => []DisplayAgrees
<1>1. InfoIInv => DisplayAgrees
  <2>1. SUFFICES ASSUME NEW row \in Row, NEW showD \in BOOLEAN,
                        NEW showF \in BOOLEAN
                 PROVE  Listed(showD, showF, row)
                          = \/ CheckBackupCanBeDisplayed(showD, showF, row)
                            \/ showF /\ row.dateDeleted = DateDeletedInProgress
    BY DEF InfoIInv, IInv, TypeOK, DisplayAgrees
  <2>2. row.dateDeleted \in DateDeletedKnown
          <=> \/ IsBackupActive(row.dateDeleted)
              \/ row.dateDeleted = DateDeletedInProgress
    BY DEF DateDeletedKnown, IsBackupActive
  <2>3. /\ Listed(TRUE, TRUE, row) = TRUE
        /\ Listed(TRUE, FALSE, row) = (row.status # BackupStatusFailure)
        /\ Listed(FALSE, TRUE, row) = (row.dateDeleted \in DateDeletedKnown)
        /\ Listed(FALSE, FALSE, row) = (/\ row.status # BackupStatusFailure
                                        /\ row.dateDeleted \in DateDeletedKnown)
    BY Zenon DEF Listed
  <2>4. CASE showD = TRUE /\ showF = TRUE
    BY <2>3, <2>4 DEF CheckBackupCanBeDisplayed
  <2>5. CASE showD = TRUE /\ showF = FALSE
    BY <2>3, <2>5 DEF CheckBackupCanBeDisplayed
  <2>6. CASE showD = FALSE /\ showF = TRUE
    <3>1. CASE row.dateDeleted \in DateDeletedKnown
      <4>1. Listed(FALSE, TRUE, row) = TRUE
        BY <2>3, <3>1
      <4>2. \/ CheckBackupCanBeDisplayed(FALSE, TRUE, row)
            \/ row.dateDeleted = DateDeletedInProgress
        BY <2>2, <3>1 DEF CheckBackupCanBeDisplayed
      <4> QED
        BY <2>6, <4>1, <4>2
    <3>2. CASE row.dateDeleted \notin DateDeletedKnown
      <4>1. Listed(FALSE, TRUE, row) = FALSE
        <5>1. (row.dateDeleted \in DateDeletedKnown) = FALSE
          BY <3>2
        <5>2. Listed(FALSE, TRUE, row) = (row.dateDeleted \in DateDeletedKnown)
          BY <2>3
        <5> QED
          BY <5>1, <5>2
      <4>2. /\ ~CheckBackupCanBeDisplayed(FALSE, TRUE, row)
            /\ row.dateDeleted # DateDeletedInProgress
        BY <2>2, <3>2 DEF CheckBackupCanBeDisplayed
      <4> QED
        BY <2>6, <4>1, <4>2
    <3> QED
      BY <3>1, <3>2
  <2>7. CASE showD = FALSE /\ showF = FALSE
    BY <2>2, <2>3, <2>7 DEF CheckBackupCanBeDisplayed
  <2> QED
    BY <2>4, <2>5, <2>6, <2>7
<1> QED
  BY <1>1, InfoInvariance, PTL
=============================================================================
