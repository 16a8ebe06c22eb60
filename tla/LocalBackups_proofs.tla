------------------------ MODULE LocalBackups_proofs ------------------------
(***************************************************************************)
(* Proofs about LocalBackups, for any number of processes, command lines   *)
(* and backups.                                                            *)
(***************************************************************************)
EXTENDS LocalBackups, FiniteSetTheorems, TLAPS

-----------------------------------------------------------------------------
(* Flags *)

\* Of two flags that are not compatible one is given at most.
LEMMA NotBoth ==
  ASSUME NEW line, NEW flags, IsFiniteSet(flags),
         checkCompatibleFlags(line, flags),
         NEW a \in flags, NEW b \in flags, a # b,
         a \in Given(line), b \in Given(line)
  PROVE  FALSE
<1>1. IsFiniteSet(Given(line) \cap flags)
  BY FS_Intersection
<1>2. {a, b} \in SUBSET (Given(line) \cap flags)
  OBVIOUS
<1>3. Cardinality({a, b}) <= Cardinality(Given(line) \cap flags)
  BY <1>1, <1>2, FS_Subset
<1>4. Cardinality({a} \cup {b}) = Cardinality({a}) + 1
  BY FS_Singleton, FS_AddElement
<1>5. Cardinality({a, b}) = 2
  <2>1. {a} \cup {b} = {a, b}
    OBVIOUS
  <2>2. Cardinality({a}) = 1
    BY FS_Singleton
  <2> QED BY <2>1, <2>2, <1>4
<1>6. Cardinality(Given(line) \cap flags) \in Nat
  BY <1>1, FS_CardinalityType
<1> QED BY <1>3, <1>5, <1>6 DEF checkCompatibleFlags

LEMMA FinitePair ==
  ASSUME NEW a, NEW b
  PROVE  IsFiniteSet({a, b})
<1>1. IsFiniteSet({a} \cup {b})
  BY FS_Singleton, FS_AddElement
<1>2. {a} \cup {b} = {a, b}
  OBVIOUS
<1> QED BY <1>1, <1>2

\* The flags that a line of each command can have.
LEMMA FlagsParsed ==
  ASSUME NEW line, Parses(line)
  PROVE  Given(line) \subseteq FlagsOf(line.cmd) \cup RootFlag
BY DEF Parses

\* The checks of storage, for the four commands that have them.
LEMMA StorageFits ==
  ASSUME NEW line,
         checkCompatibleFlags(line, {"backup-dir", "plugin-config"}),
         "plugin-config" \in Given(line)
  PROVE  "backup-dir" \notin Given(line)
<1>1. IsFiniteSet({"backup-dir", "plugin-config"})
  BY FinitePair
<1> QED BY <1>1, NotBoth

LEMMA ParallelFits ==
  ASSUME NEW line,
         checkCompatibleFlags(line, {"parallel-processes", "plugin-config"}),
         "plugin-config" \in Given(line)
  PROVE  "parallel-processes" \notin Given(line)
<1>1. IsFiniteSet({"parallel-processes", "plugin-config"})
  BY FinitePair
<1> QED BY <1>1, NotBoth

\* What backup-info accepts.
LEMMA InfoFits ==
  ASSUME NEW line, line.cmd = "backup-info", Parses(line),
         doBackupInfoFlagValidation(line)
  PROVE  FitsModels(line)
<1>1. Given(line) \subseteq {"timestamp", "deleted", "failed", "type", "table",
                            "schema", "exclude", "detail"} \cup RootFlag
  BY FlagsParsed DEF FlagsOf, BackupInfoFlag
<1> DEFINE filters == {"timestamp", "type", "table", "schema", "exclude",
                       "failed", "deleted"}
<1>2. IsFiniteSet(filters)
  <2>1. IsFiniteSet({"timestamp", "type"} \cup {"table", "schema"})
    BY FinitePair, FS_Union
  <2>2. IsFiniteSet({"exclude", "failed"} \cup {"deleted", "deleted"})
    BY FinitePair, FS_Union
  <2>3. IsFiniteSet(({"timestamp", "type"} \cup {"table", "schema"})
                      \cup ({"exclude", "failed"} \cup {"deleted", "deleted"}))
    BY <2>1, <2>2, FS_Union
  <2>4. ({"timestamp", "type"} \cup {"table", "schema"})
           \cup ({"exclude", "failed"} \cup {"deleted", "deleted"}) = filters
    OBVIOUS
  <2> QED BY <2>3, <2>4
<1>3. ASSUME "timestamp" \in Given(line), NEW f \in Given(line),
             f \notin {"timestamp", "detail"} \cup RootFlag
      PROVE  FALSE
  <2>1. f \in filters /\ "timestamp" \in filters /\ f # "timestamp"
    BY <1>1, <1>3
  <2>2. checkCompatibleFlags(line, filters)
    BY <1>3 DEF doBackupInfoFlagValidation
  <2> QED BY <1>2, <1>3, <2>1, <2>2, NotBoth
<1>4. ASSUME "exclude" \in Given(line)
      PROVE  Cardinality(Given(line) \cap {"table", "schema"}) = 1
  <2>1. Given(line) \cap {"table", "schema"} # {}
    BY <1>4 DEF doBackupInfoFlagValidation
  <2>2. ~("table" \in Given(line) /\ "schema" \in Given(line))
    <3>1. IsFiniteSet({"table", "schema"})
      BY FinitePair
    <3>2. checkCompatibleFlags(line, {"table", "schema"})
      BY DEF doBackupInfoFlagValidation
    <3> QED BY <3>1, <3>2, NotBoth
  <2>3. \E f : Given(line) \cap {"table", "schema"} = {f}
    BY <2>1, <2>2
  <2> QED BY <2>3, FS_Singleton
<1>5. Given(line) \cap Cutoffs = {}
  BY <1>1 DEF Cutoffs, RootFlag
<1>6. Cardinality(Given(line) \cap Cutoffs) <= 1
  BY <1>5, FS_EmptySet
<1>7. /\ "plugin-config" \notin Given(line) /\ "ignore-errors" \notin Given(line)
      /\ "parallel-processes" \notin Given(line)
      /\ "plugin-report-file-path" \notin Given(line)
  BY <1>1 DEF RootFlag
<1> QED BY <1>3, <1>4, <1>5, <1>6, <1>7 DEF FitsModels, Has, On

\* What the commands without a limit and without filters accept.
LEMMA OthersFit ==
  ASSUME NEW line, Parses(line),
         \/ line.cmd = "backup-delete" /\ doDeleteBackupFlagValidation(line)
         \/ line.cmd = "report-info" /\ doReportInfoFlagValidation(line)
         \/ line.cmd = "history-migrate"
  PROVE  FitsModels(line)
<1>1. Given(line) \subseteq
        {"timestamp", "plugin-config", "cascade", "force", "backup-dir",
         "parallel-processes", "ignore-errors", "plugin-report-file-path",
         "history-file"} \cup RootFlag
  BY FlagsParsed DEF FlagsOf, BackupDeleteFlag, ReportInfoFlag, HistoryMigrateFlag
<1>2. /\ Given(line) \cap Cutoffs = {}
      /\ "exclude" \notin Given(line)
  BY <1>1 DEF Cutoffs, RootFlag
<1>3. Cardinality(Given(line) \cap Cutoffs) <= 1
  BY <1>2, FS_EmptySet
<1>4. CASE line.cmd = "backup-delete"
  <2>1. "plugin-report-file-path" \notin Given(line)
    BY <1>4, FlagsParsed DEF FlagsOf, BackupDeleteFlag, RootFlag
  <2>2. "plugin-config" \in Given(line) =>
          Given(line) \cap {"backup-dir", "parallel-processes"} = {}
    BY <1>4, StorageFits, ParallelFits
    DEF doDeleteBackupFlagValidation, StorageFlagValidation
  <2>3. ~Has(line, "parallel-processes", {"zero"})
    BY <1>4 DEF doDeleteBackupFlagValidation, StorageFlagValidation,
                WellFormed, Has
  <2>4. On(line, "ignore-errors") => "force" \in Given(line)
    BY <1>4 DEF doDeleteBackupFlagValidation, On, Has
  <2> QED BY <1>2, <1>3, <1>4, <2>1, <2>2, <2>3, <2>4 DEF FitsModels
<1>5. CASE line.cmd = "report-info"
  <2>1. /\ "parallel-processes" \notin Given(line)
        /\ "ignore-errors" \notin Given(line)
    BY <1>5, FlagsParsed DEF FlagsOf, ReportInfoFlag, RootFlag
  <2>2. "plugin-config" \in Given(line) => "backup-dir" \notin Given(line)
    BY <1>5, StorageFits DEF doReportInfoFlagValidation
  <2>3. "plugin-report-file-path" \in Given(line)
          => "plugin-config" \in Given(line)
    BY <1>5 DEF doReportInfoFlagValidation
  <2> QED BY <1>2, <1>3, <1>5, <2>1, <2>2, <2>3 DEF FitsModels, Has, On
<1>6. CASE line.cmd = "history-migrate"
  <2>1. Given(line) \subseteq {"history-file"} \cup RootFlag
    BY <1>6, FlagsParsed DEF FlagsOf, HistoryMigrateFlag
  <2>2. /\ "plugin-config" \notin Given(line) /\ "ignore-errors" \notin Given(line)
        /\ "parallel-processes" \notin Given(line)
        /\ "plugin-report-file-path" \notin Given(line)
    BY <2>1 DEF RootFlag
  <2> QED BY <1>2, <1>3, <1>6, <2>2 DEF FitsModels, Has, On
<1> QED BY <1>4, <1>5, <1>6

\* What the two commands that clean accept: one limit.
LEMMA CleanFits ==
  ASSUME NEW line, Parses(line),
         \/ line.cmd = "backup-clean" /\ doCleanBackupFlagValidation(line)
         \/ line.cmd = "history-clean" /\ doCleanHistoryFlagValidation(line)
  PROVE  FitsModels(line)
<1>1. Given(line) \subseteq
        {"plugin-config", "cascade", "backup-dir", "parallel-processes"}
          \cup Cutoffs \cup RootFlag
  BY FlagsParsed DEF FlagsOf, BackupCleanFlag, HistoryCleanFlag, Cutoffs
<1>2. /\ "exclude" \notin Given(line) /\ "ignore-errors" \notin Given(line)
      /\ "plugin-report-file-path" \notin Given(line)
  BY <1>1 DEF Cutoffs, RootFlag
<1>3. Given(line) \cap Cutoffs # {}
  BY DEF doCleanBackupFlagValidation, doCleanHistoryFlagValidation
<1>4. Cardinality(Given(line) \cap Cutoffs) <= 1
  BY DEF Parses, ExclusiveOf, checkCompatibleFlags
<1>5. CASE line.cmd = "backup-clean"
  <2>1. "plugin-config" \in Given(line) =>
          Given(line) \cap {"backup-dir", "parallel-processes"} = {}
    BY <1>5, StorageFits, ParallelFits
    DEF doCleanBackupFlagValidation, StorageFlagValidation
  <2>2. ~Has(line, "parallel-processes", {"zero"})
    BY <1>5 DEF doCleanBackupFlagValidation, StorageFlagValidation,
                WellFormed, Has
  <2> QED BY <1>2, <1>3, <1>4, <1>5, <2>1, <2>2 DEF FitsModels, On, Has
<1>6. CASE line.cmd = "history-clean"
  <2>1. "plugin-config" \notin Given(line)
        /\ "parallel-processes" \notin Given(line)
    BY <1>6, FlagsParsed DEF FlagsOf, HistoryCleanFlag, RootFlag
  <2> QED BY <1>2, <1>3, <1>4, <1>6, <2>1 DEF FitsModels, On, Has
<1> QED BY <1>5, <1>6

LEMMA AcceptedFits ==
  ASSUME NEW line, line.cmd \in Command, Accepted(line)
  PROVE  FitsModels(line)
<1>1. Parses(line)
  BY DEF Accepted
<1>2. CASE line.cmd = "backup-info"
  BY <1>1, <1>2, InfoFits DEF Accepted
<1>3. CASE line.cmd = "backup-delete"
  BY <1>1, <1>3, OthersFit DEF Accepted
<1>4. CASE line.cmd = "report-info"
  BY <1>1, <1>4, OthersFit DEF Accepted
<1>5. CASE line.cmd = "history-migrate"
  BY <1>1, <1>5, OthersFit DEF Accepted
<1>6. CASE line.cmd = "backup-clean"
  BY <1>1, <1>6, CleanFits DEF Accepted
<1>7. CASE line.cmd = "history-clean"
  BY <1>1, <1>7, CleanFits DEF Accepted
<1> QED BY <1>2, <1>3, <1>4, <1>5, <1>6, <1>7 DEF Command
-----------------------------------------------------------------------------
(* The inductive invariant *)

Home == {Cluster, NoHome} \cup {<<b.dir, b.prefix>> : b \in Planned}

Label == {"given", "report", "locate", "read", "delete"} \cup Ended

GivenLine == UNION {{given[p] : p \in Proc} : given \in Lines}

ProcState == [pc : Label, line : GivenLine, home : Home, fault : BOOLEAN]

StoredRow == [status : {"Success"}, plugin : {"", "plugin", BackupS3Plugin},
              dateDeleted : {"", "date", DateDeletedLocalFailed},
              incremental : {FALSE}, dataOnly : {FALSE},
              metadataOnly : BOOLEAN, backupDir : STRING]

FormInv ==
  /\ toMake \in Seq(Planned)
  /\ backups \in Seq(StoredRow)
  /\ placed \in Seq(Home)
  /\ Len(placed) = Len(backups)
  /\ homes \subseteq Home
  /\ Cluster \in homes
  /\ proc \in [Proc -> ProcState]

StoredInv ==
  /\ stored \subseteq homes \X {-1, 0} \X (1..Len(backups))
  /\ \A d \in stored : d[1] = placed[d[3]]

ProcInv(p) ==
  /\ proc[p].pc = "read" => proc[p].home \in homes
  /\ proc[p].pc \notin {"given", "rejected"} => Accepted(proc[p].line)

IInv ==
  /\ FormInv /\ StoredInv /\ DatedMeansGone
  /\ \A p \in Proc : ProcInv(p)

LEMMA LineCommand ==
  ASSUME NEW line \in GivenLine
  PROVE  line.cmd \in Command
<1>1. PICK given \in Lines, p \in Proc : line = given[p]
  BY DEF GivenLine
<1> QED BY <1>1, LocalAssumption

\* What is found is a home that exists.
LEMMA MasterDir ==
  ASSUME NEW backupDir, NEW backupDataBackupDir, NEW cluster \in ClusterHome,
         NEW files \in FileAnswer(homes), FormInv
  PROVE  getBackupMasterDir(backupDir, backupDataBackupDir, cluster, files)
           \in homes \cup {NoHome}
<1>1. ASSUME NEW dir
      PROVE  CheckMasterBackupDir(dir, files) \in homes \cup {NoHome}
  <2> DEFINE found == {home \in files.seen : home[1] = dir}
  <2>0. found \subseteq homes
    BY DEF FileAnswer
  <2>1. CASE files.failed \/ <<dir, "">> \in found
    BY <2>0, <2>1 DEF CheckMasterBackupDir
  <2>2. CASE <<dir, "">> \notin found /\ Cardinality(found) # 1
    BY <2>2 DEF CheckMasterBackupDir
  <2>3. CASE ~files.failed /\ <<dir, "">> \notin found /\ Cardinality(found) = 1
    <3>1. found # {}
      <4>1. SUFFICES ASSUME found = {} PROVE FALSE
        OBVIOUS
      <4>2. Cardinality(found) = 1
        BY <2>3
      <4> HIDE DEF found
      <4>3. Cardinality(found) = 0
        BY <4>1, FS_EmptySet
      <4> QED BY <4>2, <4>3
    <3>2. (CHOOSE home \in found : TRUE) \in found
      BY <3>1
    <3>3. CheckMasterBackupDir(dir, files) = CHOOSE home \in found : TRUE
      BY <2>3 DEF CheckMasterBackupDir
    <3> QED BY <2>0, <3>2, <3>3
  <2> QED BY <2>1, <2>2, <2>3
<1>2. cluster \in homes \cup {NoHome}
  BY DEF ClusterHome, FormInv
<1>3. CASE backupDir # ""
  BY <1>1, <1>3 DEF getBackupMasterDir
<1>4. CASE backupDir = "" /\ backupDataBackupDir # ""
  BY <1>1, <1>4 DEF getBackupMasterDir
<1>5. CASE backupDir = "" /\ backupDataBackupDir = ""
  BY <1>2, <1>5 DEF getBackupMasterDir
<1> QED BY <1>3, <1>4, <1>5

\* Process p alone goes on.
Moved(p) ==
  /\ proc' \in [Proc -> ProcState]
  /\ \A q \in Proc \ {p} : proc'[q] = proc[q]
  /\ proc'[p].line = proc[p].line

LEMMA GotoMoves ==
  ASSUME FormInv, NEW p \in Proc, NEW label \in Label, Goto(p, label)
  PROVE  Moved(p) /\ proc'[p].pc = label /\ proc'[p].home = proc[p].home
<1>1. proc[p] \in ProcState /\ DOMAIN proc = Proc
  BY DEF FormInv
<1>2. [proc[p] EXCEPT !.pc = label] \in ProcState
  BY <1>1 DEF ProcState
<1>3. proc' = [proc EXCEPT ![p] = [proc[p] EXCEPT !.pc = label]]
  BY DEF Goto
<1>4. proc'[p] = [proc[p] EXCEPT !.pc = label]
  BY <1>1, <1>3
<1>5. proc' \in [Proc -> ProcState]
  BY <1>2, <1>3 DEF FormInv
<1>6. \A q \in Proc \ {p} : proc'[q] = proc[q]
  BY <1>1, <1>3
<1>7. /\ proc'[p].pc = label /\ proc'[p].home = proc[p].home
      /\ proc'[p].line = proc[p].line
  BY <1>1, <1>4 DEF ProcState
<1> QED BY <1>5, <1>6, <1>7 DEF Moved

\* A step of report-info on files.
LEMMA ReportMoves ==
  ASSUME FormInv, NEW p \in Proc, NEW label \in Label, NEW home \in Home,
         NEW fault \in BOOLEAN,
         proc' = [proc EXCEPT ![p].home = home, ![p].fault = fault,
                    ![p].pc = label]
  PROVE  /\ Moved(p) /\ proc'[p].home = home /\ proc'[p].fault = fault
         /\ proc'[p].pc = label
<1> DEFINE state == [proc[p] EXCEPT !.home = home, !.fault = fault, !.pc = label]
<1>1. proc[p] \in ProcState /\ DOMAIN proc = Proc
  BY DEF FormInv
<1>2. proc' = [proc EXCEPT ![p] = state]
  BY <1>1 DEF ProcState
<1>3. /\ state \in ProcState /\ state.line = proc[p].line
      /\ state.home = home /\ state.fault = fault /\ state.pc = label
  BY <1>1 DEF ProcState
<1> HIDE DEF state
<1>4. /\ proc' \in [Proc -> ProcState] /\ proc'[p] = state
      /\ \A q \in Proc \ {p} : proc'[q] = proc[q]
  <2>1. proc' \in [Proc -> ProcState]
    BY <1>2, <1>3 DEF FormInv
  <2>2. proc'[p] = state /\ \A q \in Proc \ {p} : proc'[q] = proc[q]
    BY <1>1, <1>2
  <2> QED BY <2>1, <2>2
<1>5. Moved(p)
  BY <1>3, <1>4 DEF Moved
<1> QED BY <1>3, <1>4, <1>5, Zenon

\* Which removal is careless is in the command lines.
LEMMA SameCareless ==
  ASSUME NEW p \in Proc, Moved(p), NEW t
  PROVE  Careless(t)' <=> Careless(t)
<1>1. \A q \in Proc : proc'[q].line = proc[q].line
  BY DEF Moved
<1> QED BY <1>1 DEF Careless

\* A step of p that leaves files and rows alone.
LEMMA MovePreserves ==
  ASSUME IInv, NEW p \in Proc, Moved(p),
         UNCHANGED <<toMake, backups, placed, homes, stored>>,
         proc'[p].pc = "read" => proc'[p].home \in homes,
         proc'[p].pc \notin {"given", "rejected"} => Accepted(proc[p].line)
  PROVE  IInv'
<1>1. FormInv'
  BY DEF IInv, FormInv, Moved
<1>2. StoredInv'
  BY DEF IInv, StoredInv
<1>3. DatedMeansGone'
  BY SameCareless DEF IInv, DatedMeansGone
<1>4. ASSUME NEW q \in Proc
      PROVE  ProcInv(q)'
  BY DEF IInv, ProcInv, Moved
<1> QED BY <1>1, <1>2, <1>3, <1>4 DEF IInv

-----------------------------------------------------------------------------
(* The steps *)

LEMMA InitInv == Init => IInv
<1> SUFFICES ASSUME Init PROVE IInv
  OBVIOUS
<1>1. PICK given \in Lines :
        proc = [p \in Proc |-> [pc |-> "given", line |-> given[p],
                                home |-> NoHome, fault |-> FALSE]]
  BY DEF Init
<1>2. proc \in [Proc -> ProcState]
  <2>1. \A p \in Proc : given[p] \in GivenLine
    BY DEF GivenLine
  <2>2. NoHome \in Home /\ "given" \in Label
    BY DEF Home, Label
  <2> QED BY <1>1, <2>1, <2>2 DEF ProcState
<1>3. /\ toMake \in Seq(Planned) /\ backups = <<>> /\ placed = <<>>
      /\ homes = {Cluster} /\ stored = {}
  BY LocalAssumption DEF Init
<1>4. FormInv
  <2>1. Cluster \in Home
    BY DEF Home
  <2> QED BY <1>2, <1>3, <2>1 DEF FormInv
<1>5. StoredInv /\ DatedMeansGone
  BY <1>3 DEF StoredInv, DatedMeansGone
<1>6. ASSUME NEW p \in Proc
      PROVE  ProcInv(p)
  BY <1>1 DEF ProcInv
<1> QED BY <1>4, <1>5, <1>6 DEF IInv

LEMMA MakeBackupPreserves ==
  ASSUME IInv, MakeBackup
  PROVE  IInv'
<1> DEFINE b    == Head(toMake)
           t    == Len(backups) + 1
           home == IF b.dir = "" THEN Cluster ELSE <<b.dir, b.prefix>>
           row  == [status |-> "Success", plugin |-> b.plugin,
                    dateDeleted |-> "", incremental |-> FALSE,
                    dataOnly |-> FALSE, metadataOnly |-> b.metadataOnly,
                    backupDir |-> b.dir]
<1>1. b \in Planned /\ Tail(toMake) \in Seq(Planned)
  <2>1. toMake # <<>> /\ toMake \in Seq(Planned)
    BY DEF MakeBackup, IInv, FormInv
  <2> QED BY <2>1
<1>2. row \in StoredRow /\ home \in Home
  <2>1. home \in Home
    BY <1>1 DEF Home
  <2>2. row \in StoredRow
    BY <1>1 DEF Planned, StoredRow
  <2> QED BY <2>1, <2>2
<1>3. /\ toMake' = Tail(toMake)
      /\ backups' = Append(backups, row) /\ placed' = Append(placed, home)
      /\ proc' = proc
  BY DEF MakeBackup
<1>4. PICK contents \in SUBSET {-1, 0} :
        /\ homes' = IF contents = {} THEN homes ELSE homes \cup {home}
        /\ stored' = stored \cup {<<home, c, t>> : c \in contents}
  <2> DEFINE made == CASE b.plugin # "" -> {}
                       [] b.plugin = "" /\ b.metadataOnly -> {-1}
                       [] OTHER -> {-1, 0}
  <2>1. /\ homes' = IF made = {} THEN homes ELSE homes \cup {home}
        /\ stored' = stored \cup {<<home, c, t>> : c \in made}
    BY DEF MakeBackup
  <2>2. made \in SUBSET {-1, 0}
    <3>1. CASE b.plugin # ""
      BY <3>1
    <3>2. CASE b.plugin = "" /\ b.metadataOnly
      BY <3>2
    <3>3. CASE b.plugin = "" /\ ~b.metadataOnly
      BY <3>3
    <3> QED BY <3>1, <3>2, <3>3
  <2> HIDE DEF made
  <2> QED BY <2>1, <2>2
<1> HIDE DEF b, home, row
<1>5. /\ backups' \in Seq(StoredRow) /\ placed' \in Seq(Home)
      /\ Len(backups') = t /\ Len(placed') = t
      /\ \A u \in 1..Len(backups) : /\ backups'[u] = backups[u]
                                    /\ placed'[u] = placed[u]
      /\ backups'[t] = row /\ placed'[t] = home
  BY <1>2, <1>3 DEF IInv, FormInv
<1>6. FormInv'
  BY <1>1, <1>2, <1>3, <1>4, <1>5 DEF IInv, FormInv
<1>7. StoredInv'
  <2>1. ASSUME NEW d \in stored'
        PROVE  /\ d \in homes' \X {-1, 0} \X (1..Len(backups'))
               /\ d[1] = placed'[d[3]]
    <3>1. CASE d \in stored
      <4>1. d \in homes \X {-1, 0} \X (1..Len(backups)) /\ d[1] = placed[d[3]]
        BY <3>1 DEF IInv, StoredInv
      <4>2. homes \subseteq homes' /\ 1..Len(backups) \subseteq 1..Len(backups')
        BY <1>4, <1>5 DEF IInv, FormInv
      <4> QED BY <4>1, <4>2, <1>5
    <3>2. CASE d \notin stored
      <4>1. PICK c \in contents : d = <<home, c, t>>
        BY <2>1, <3>2, <1>4
      <4>2. home \in homes' /\ t \in 1..Len(backups')
        BY <4>1, <1>4, <1>5 DEF IInv, FormInv
      <4> QED BY <4>1, <4>2, <1>4, <1>5
    <3> QED BY <3>1, <3>2
  <2> QED BY <2>1 DEF StoredInv
<1>8. DatedMeansGone'
  <2>1. SUFFICES ASSUME NEW u \in DOMAIN backups',
                        backups'[u].dateDeleted = "date",
                        ~backups'[u].metadataOnly, ~Careless(u)',
                        NEW d \in stored', d[3] = u
                 PROVE  FALSE
    BY DEF DatedMeansGone
  <2>2. u # t
    <3>1. row.dateDeleted = ""
      BY DEF row
    <3> QED BY <2>1, <3>1, <1>5
  <2>3. u \in 1..Len(backups) /\ u \in DOMAIN backups
    BY <2>1, <2>2, <1>5 DEF IInv, FormInv
  <2>4. backups'[u] = backups[u] /\ ~Careless(u)
    BY <2>1, <2>3, <1>3, <1>5 DEF Careless
  <2>5. d \in stored
    BY <2>1, <2>2, <1>4
  <2> QED BY <2>1, <2>3, <2>4, <2>5 DEF IInv, DatedMeansGone
<1>9. ASSUME NEW p \in Proc
      PROVE  ProcInv(p)'
  <2>1. homes \subseteq homes'
    BY <1>4
  <2> QED BY <2>1, <1>3 DEF IInv, ProcInv
<1> QED BY <1>6, <1>7, <1>8, <1>9 DEF IInv

LEMMA ValidatePreserves ==
  ASSUME IInv, NEW p \in Proc, Validate(p)
  PROVE  IInv'
<1> DEFINE line == proc[p].line
<1>1. PICK label \in Label \ {"read"} :
        /\ Goto(p, label)
        /\ label # "rejected" => Accepted(line)
  <2>1. CASE ~Accepted(line)
    BY <2>1 DEF Validate, Label, Ended
  <2>2. CASE Accepted(line) /\ line.cmd = "report-info"
    BY <2>2 DEF Validate, Label, Ended
  <2>3. CASE /\ Accepted(line) /\ line.cmd # "report-info"
             /\ line.cmd = "backup-delete" /\ ~UsesPlugin(p)
    BY <2>3 DEF Validate, Label, Ended
  <2>4. CASE /\ Accepted(line) /\ line.cmd # "report-info"
             /\ ~(line.cmd = "backup-delete" /\ ~UsesPlugin(p))
    BY <2>4 DEF Validate, Label, Ended
  <2> QED BY <2>1, <2>2, <2>3, <2>4
<1>2. Moved(p) /\ proc'[p].pc = label
  BY <1>1, GotoMoves DEF IInv
<1>3. UNCHANGED <<toMake, backups, placed, homes, stored>>
  BY DEF Validate
<1> QED BY <1>1, <1>2, <1>3, MovePreserves

\* A step of p that ends in label and leaves its home alone.
LEMMA GotoPreserves ==
  ASSUME IInv, NEW p \in Proc, NEW label \in Label \ {"read"}, Goto(p, label),
         proc[p].pc \notin {"given", "rejected"},
         UNCHANGED <<toMake, backups, placed, homes, stored>>
  PROVE  IInv'
<1>1. Moved(p) /\ proc'[p].pc = label
  BY GotoMoves DEF IInv
<1>2. Accepted(proc[p].line)
  BY DEF IInv, ProcInv
<1> QED BY <1>1, <1>2, MovePreserves

LEMMA JudgeReportPreserves ==
  ASSUME IInv, NEW p \in Proc, JudgeReport(p)
  PROVE  IInv'
<1> DEFINE t == proc[p].line.timestamp
<1>1. \E label \in {"locate", "exit0", "exit1"} : Goto(p, label)
  <2>1. PICK readable \in BOOLEAN :
          LET verdict == IF ~readable \/ t \notin DOMAIN backups THEN "error"
                    ELSE CheckBackupCanBeUsed(FALSE, UsesPlugin(p), backups[t])
          IN  Goto(p, CASE verdict = "use"   -> "locate"
                        [] verdict = "skip"  -> "exit0"
                        [] verdict = "error" -> "exit1")
    BY DEF JudgeReport
  <2> DEFINE verdict == IF ~readable \/ t \notin DOMAIN backups THEN "error"
                    ELSE CheckBackupCanBeUsed(FALSE, UsesPlugin(p), backups[t])
             label == CASE verdict = "use"   -> "locate"
                        [] verdict = "skip"  -> "exit0"
                        [] verdict = "error" -> "exit1"
  <2>2. verdict \in {"use", "skip", "error"}
    BY DEF CheckBackupCanBeUsed
  <2>3. Goto(p, label)
    BY <2>1
  <2> HIDE DEF verdict
  <2>4. CASE verdict = "use"
    <3>1. label = "locate"
      BY <2>4
    <3> QED BY <2>3, <3>1
  <2>5. CASE verdict = "skip"
    <3>1. label = "exit0"
      BY <2>5
    <3> QED BY <2>3, <3>1
  <2>6. CASE verdict = "error"
    <3>1. label = "exit1"
      BY <2>6
    <3> QED BY <2>3, <3>1
  <2> QED BY <2>2, <2>4, <2>5, <2>6
<1>2. /\ proc[p].pc \notin {"given", "rejected"}
      /\ UNCHANGED <<toMake, backups, placed, homes, stored>>
  BY DEF JudgeReport
<1>3. {"locate", "exit0", "exit1"} \subseteq Label \ {"read"}
  BY DEF Label, Ended
<1> QED BY <1>1, <1>2, <1>3, GotoPreserves

\* What LocateReport finds.
LEMMA Located ==
  ASSUME IInv, NEW p \in Proc, LocateReport(p)
  PROVE  \E cluster \in ClusterHome, files \in FileAnswer(homes) :
           LET home == getBackupMasterDir(proc[p].line.dir, RowFor(p).backupDir,
                                          cluster, files)
           IN  /\ Moved(p) /\ proc'[p].home = home
               /\ proc'[p].fault = (files # TrueAnswer(homes))
               /\ proc'[p].pc = IF home = NoHome THEN "exit1" ELSE "read"
<1>1. PICK cluster \in ClusterHome, files \in FileAnswer(homes) :
        LET home == getBackupMasterDir(proc[p].line.dir, RowFor(p).backupDir,
                                       cluster, files)
        IN  proc' = [proc EXCEPT ![p].home = home,
                       ![p].fault = files # TrueAnswer(homes),
                       ![p].pc = IF home = NoHome THEN "exit1" ELSE "read"]
  BY DEF LocateReport
<1> DEFINE home == getBackupMasterDir(proc[p].line.dir, RowFor(p).backupDir,
                                      cluster, files)
           fault == files # TrueAnswer(homes)
           label == IF home = NoHome THEN "exit1" ELSE "read"
<1>2. home \in homes \cup {NoHome}
  BY MasterDir DEF IInv
<1>3. proc' = [proc EXCEPT ![p].home = home, ![p].fault = fault, ![p].pc = label]
  BY <1>1
<1> HIDE DEF home
<1>4. label \in Label /\ home \in Home
  BY <1>2 DEF Label, Ended, IInv, FormInv, Home
<1>5. fault \in BOOLEAN
  OBVIOUS
<1> HIDE DEF fault, label
<1>6. /\ Moved(p) /\ proc'[p].home = home /\ proc'[p].fault = fault
      /\ proc'[p].pc = label
  BY <1>3, <1>4, <1>5, ReportMoves DEF IInv
<1> QED BY <1>6 DEF home, fault, label

LEMMA LocateReportPreserves ==
  ASSUME IInv, NEW p \in Proc, LocateReport(p)
  PROVE  IInv'
<1>1. PICK cluster \in ClusterHome, files \in FileAnswer(homes) :
        LET home == getBackupMasterDir(proc[p].line.dir, RowFor(p).backupDir,
                                       cluster, files)
        IN  /\ Moved(p) /\ proc'[p].home = home
            /\ proc'[p].fault = (files # TrueAnswer(homes))
            /\ proc'[p].pc = IF home = NoHome THEN "exit1" ELSE "read"
  BY Located
<1> DEFINE home == getBackupMasterDir(proc[p].line.dir, RowFor(p).backupDir,
                                      cluster, files)
<1>2. home \in homes \cup {NoHome}
  BY MasterDir DEF IInv
<1>3. proc'[p].pc = "read" => proc'[p].home \in homes
  BY <1>1, <1>2
<1>4. /\ Accepted(proc[p].line)
      /\ UNCHANGED <<toMake, backups, placed, homes, stored>>
  BY DEF LocateReport, IInv, ProcInv
<1> QED BY <1>1, <1>3, <1>4, MovePreserves

\* How the command ends when it reads the file.
LEMMA ReportRead ==
  ASSUME IInv, NEW p \in Proc, ReadReport(p)
  PROVE  /\ Moved(p) /\ proc'[p].pc \in {"shown", "exit1"}
         /\ proc'[p].pc = "exit1" =>
              \/ proc'[p].fault
              \/ <<proc[p].home, -1, proc[p].line.timestamp>> \notin stored
<1> DEFINE there == <<proc[p].home, -1, proc[p].line.timestamp>> \in stored
<1>1. PICK failed \in BOOLEAN :
        proc' = [proc EXCEPT ![p].fault = failed,
                   ![p].pc = IF there /\ ~failed THEN "shown" ELSE "exit1"]
  BY DEF ReadReport
<1> DEFINE home == proc[p].home
           label == IF there /\ ~failed THEN "shown" ELSE "exit1"
<1>2. proc[p] \in ProcState /\ DOMAIN proc = Proc
  BY DEF IInv, FormInv
<1>3. label \in Label /\ home \in Home
  BY <1>2 DEF Label, Ended, ProcState
<1>4. proc' = [proc EXCEPT ![p].home = home, ![p].fault = failed, ![p].pc = label]
  BY <1>1, <1>2 DEF ProcState
<1>5. label \in {"shown", "exit1"} /\ (label = "exit1" => failed \/ ~there)
  OBVIOUS
<1> HIDE DEF label, home, there
<1>6. Moved(p) /\ proc'[p].fault = failed /\ proc'[p].pc = label
  BY <1>3, <1>4, ReportMoves DEF IInv
<1> QED BY <1>5, <1>6 DEF there

LEMMA ReadReportPreserves ==
  ASSUME IInv, NEW p \in Proc, ReadReport(p)
  PROVE  IInv'
<1>1. Moved(p) /\ proc'[p].pc \in {"shown", "exit1"}
  BY ReportRead
<1>2. /\ proc[p].pc = "read"
      /\ UNCHANGED <<toMake, backups, placed, homes, stored>>
  BY DEF ReadReport
<1>3. Accepted(proc[p].line)
  BY <1>2 DEF IInv, ProcInv
<1> QED BY <1>1, <1>2, <1>3, MovePreserves

LEMMA FetchReportPreserves ==
  ASSUME IInv, NEW p \in Proc, FetchReport(p)
  PROVE  IInv'
<1>1. \E label \in {"shown", "exit1"} : Goto(p, label)
  BY DEF FetchReport
<1>2. /\ proc[p].pc \notin {"given", "rejected"}
      /\ UNCHANGED <<toMake, backups, placed, homes, stored>>
  BY DEF FetchReport
<1>3. {"shown", "exit1"} \subseteq Label \ {"read"}
  BY DEF Label, Ended
<1> QED BY <1>1, <1>2, <1>3, GotoPreserves

\* What the removal of backup t by p does to files and rows: it fails, or it
\* removes from a home that the segments confirm, or errors are ignored.
Removal(p, t, home, gone) ==
  LET fails == gone = {} IN
  /\ Goto(p, IF fails THEN "exit1" ELSE "exit0")
  /\ backups' = [backups EXCEPT ![t].dateDeleted =
       IF fails THEN DateDeletedLocalFailed ELSE "date"]
  /\ stored' = stored \ {<<home, c, t>> : c \in gone}
  /\ ~fails /\ ~backups[t].metadataOnly =>
       \/ On(proc[p].line, "ignore-errors")
       \/ gone = {-1, 0} /\ SegmentsHave(home, t)

LEMMA DeleteLocalCases ==
  ASSUME NEW p \in Proc, DeleteLocal(p)
  PROVE  LET t == proc[p].line.timestamp IN
         \/ /\ \E label \in {"exit0", "exit1"} : Goto(p, label)
            /\ UNCHANGED <<backups, stored>>
         \/ /\ t \in DOMAIN backups
            /\ \E home, gone : Removal(p, t, home, gone)
<1> DEFINE t == proc[p].line.timestamp
           verdict == IF t \notin DOMAIN backups THEN "error"
                      ELSE CheckBackupCanBeUsed(On(proc[p].line, "force"),
                                                FALSE, backups[t])
<1>1. CASE verdict # "use"
  BY <1>1 DEF DeleteLocal
<1>2. CASE verdict = "use"
  <2>1. t \in DOMAIN backups
    BY <1>2
  <2> DEFINE
    Found(cluster, files) ==
      getBackupMasterDir(proc[p].line.dir, backups[t].backupDir, cluster, files)
    Fails(cluster, files, segments) ==
      \/ Found(cluster, files) = NoHome
      \/ /\ ~backups[t].metadataOnly
         /\ ~segments \/ ~SegmentsHave(Found(cluster, files), t)
         /\ ~On(proc[p].line, "ignore-errors")
    Gone(cluster, files, segments) ==
      CASE Fails(cluster, files, segments) -> {}
        [] ~Fails(cluster, files, segments) /\ segments
             /\ ~backups[t].metadataOnly -> {-1, 0}
        [] OTHER -> {-1}
  <2>2. PICK cluster \in ClusterHome, files \in FileAnswer(homes),
          segments \in BOOLEAN :
          /\ Goto(p, IF Fails(cluster, files, segments) THEN "exit1" ELSE "exit0")
          /\ backups' = [backups EXCEPT ![t].dateDeleted =
               IF Fails(cluster, files, segments) THEN DateDeletedLocalFailed
               ELSE "date"]
          /\ stored' = stored \ {<<Found(cluster, files), c, t>> :
                                   c \in Gone(cluster, files, segments)}
    BY <1>2 DEF DeleteLocal
  <2>3. Removal(p, t, Found(cluster, files), Gone(cluster, files, segments))
    <3>1. CASE Fails(cluster, files, segments)
      <4>1. Gone(cluster, files, segments) = {}
        BY <3>1
      <4> HIDE DEF Gone
      <4> QED BY <2>2, <3>1, <4>1 DEF Removal
    <3>2. CASE /\ ~Fails(cluster, files, segments) /\ segments
               /\ ~backups[t].metadataOnly
      <4>1. Gone(cluster, files, segments) = {-1, 0}
        BY <3>2
      <4>2. SegmentsHave(Found(cluster, files), t) \/ On(proc[p].line, "ignore-errors")
        BY <3>2
      <4> HIDE DEF Gone, Found, Fails
      <4> QED BY <2>2, <3>2, <4>1, <4>2 DEF Removal
    <3>3. CASE /\ ~Fails(cluster, files, segments)
               /\ ~(segments /\ ~backups[t].metadataOnly)
      <4>1. Gone(cluster, files, segments) = {-1}
        BY <3>3
      <4>2. backups[t].metadataOnly \/ On(proc[p].line, "ignore-errors")
        BY <3>3
      <4> HIDE DEF Gone, Found, Fails
      <4> QED BY <2>2, <3>3, <4>1, <4>2 DEF Removal
    <3> QED BY <3>1, <3>2, <3>3
  <2> HIDE DEF Found, Gone
  <2> QED BY <2>1, <2>3
<1> QED BY <1>1, <1>2

LEMMA RemovalPreserves ==
  ASSUME IInv, NEW p \in Proc, NEW home, NEW gone, proc[p].pc = "delete",
         proc[p].line.timestamp \in DOMAIN backups,
         Removal(p, proc[p].line.timestamp, home, gone),
         UNCHANGED <<toMake, placed, homes>>
  PROVE  IInv'
<1> DEFINE t == proc[p].line.timestamp
           date == IF gone = {} THEN DateDeletedLocalFailed ELSE "date"
<1>1. \E label \in {"exit0", "exit1"} : Goto(p, label)
  BY DEF Removal
<1>2. Moved(p) /\ proc'[p].pc \in {"exit0", "exit1"}
  <2>1. {"exit0", "exit1"} \subseteq Label
    BY DEF Label, Ended
  <2> QED BY <1>1, <2>1, GotoMoves DEF IInv
<1>3. /\ backups \in Seq(StoredRow) /\ t \in 1..Len(backups)
      /\ backups[t] \in StoredRow
  BY DEF IInv, FormInv
<1> DEFINE row == [backups[t] EXCEPT !.dateDeleted = date]
<1>4. backups' = [backups EXCEPT ![t] = row]
  BY DEF Removal
<1>5. /\ row \in StoredRow /\ row.dateDeleted = date
      /\ row.metadataOnly = backups[t].metadataOnly
  BY <1>3 DEF StoredRow
<1> HIDE DEF row
<1>6. /\ backups' \in Seq(StoredRow) /\ Len(backups') = Len(backups)
      /\ backups'[t] = row
      /\ \A u \in 1..Len(backups) : u # t => backups'[u] = backups[u]
  BY <1>3, <1>4, <1>5
<1>7. stored' = stored \ {<<home, c, t>> : c \in gone}
  BY DEF Removal
<1>8. FormInv'
  BY <1>2, <1>6 DEF IInv, FormInv, Moved
<1>9. StoredInv'
  BY <1>6, <1>7 DEF IInv, StoredInv
<1>10. DatedMeansGone'
  <2>1. SUFFICES ASSUME NEW u \in DOMAIN backups',
                        backups'[u].dateDeleted = "date",
                        ~backups'[u].metadataOnly, ~Careless(u)',
                        NEW d \in stored', d[3] = u
                 PROVE  FALSE
    BY DEF DatedMeansGone
  <2>2. u \in 1..Len(backups) /\ u \in DOMAIN backups /\ d \in stored
    BY <2>1, <1>3, <1>6, <1>7
  <2>3. ~Careless(u)
    BY <2>1, <1>2, SameCareless
  <2>4. CASE u # t
    BY <2>1, <2>2, <2>3, <2>4, <1>6 DEF IInv, DatedMeansGone
  <2>5. CASE u = t
    <3>1. ~On(proc[p].line, "ignore-errors")
      BY <2>3, <2>5 DEF Careless
    <3>2. date = "date" /\ ~backups[t].metadataOnly
      BY <2>1, <2>5, <1>5, <1>6
    <3>3. gone # {}
      BY <3>2 DEF DateDeletedLocalFailed
    <3>4. gone = {-1, 0} /\ <<home, 0, t>> \in stored
      BY <3>1, <3>2, <3>3 DEF Removal, SegmentsHave
    <3>5. home = placed[t]
      <4>1. <<home, 0, t>>[1] = placed[<<home, 0, t>>[3]]
        BY <3>4 DEF IInv, StoredInv
      <4> QED BY <4>1
    <3>6. /\ d \in homes \X {-1, 0} \X (1..Len(backups)) /\ d[1] = placed[d[3]]
      BY <2>2 DEF IInv, StoredInv
    <3>7. PICK c \in {-1, 0} : d = <<home, c, t>>
      BY <3>5, <3>6, <2>1, <2>5
    <3> QED BY <3>4, <3>7, <1>7, <2>1
  <2> QED BY <2>4, <2>5
<1>11. ASSUME NEW q \in Proc
       PROVE  ProcInv(q)'
  BY <1>2 DEF IInv, ProcInv, Moved
<1> QED BY <1>8, <1>9, <1>10, <1>11 DEF IInv

LEMMA DeleteLocalPreserves ==
  ASSUME IInv, NEW p \in Proc, DeleteLocal(p)
  PROVE  IInv'
<1>1. proc[p].pc = "delete" /\ UNCHANGED <<toMake, placed, homes>>
  BY DEF DeleteLocal
<1>2. CASE /\ \E label \in {"exit0", "exit1"} : Goto(p, label)
           /\ UNCHANGED <<backups, stored>>
  <2>1. {"exit0", "exit1"} \subseteq Label \ {"read"}
    BY DEF Label, Ended
  <2> QED BY <1>1, <1>2, <2>1, GotoPreserves
<1>3. CASE /\ proc[p].line.timestamp \in DOMAIN backups
           /\ \E home, gone : Removal(p, proc[p].line.timestamp, home, gone)
  BY <1>1, <1>3, RemovalPreserves
<1> QED BY <1>2, <1>3, DeleteLocalCases

LEMMA NextInv == IInv /\ [Next]_vars => IInv'
<1> SUFFICES ASSUME IInv, [Next]_vars PROVE IInv'
  OBVIOUS
<1>1. CASE MakeBackup
  BY <1>1, MakeBackupPreserves
<1>2. CASE UNCHANGED vars
  BY <1>2 DEF vars, IInv, FormInv, StoredInv, DatedMeansGone, Careless, ProcInv
<1>3. ASSUME NEW p \in Proc, Step(p)
      PROVE  IInv'
  BY <1>3, ValidatePreserves, DeleteLocalPreserves, JudgeReportPreserves,
     LocateReportPreserves, ReadReportPreserves, FetchReportPreserves DEF Step
<1> QED BY <1>1, <1>2, <1>3 DEF Next, Terminated

LEMMA Inductive == Spec => []IInv
BY InitInv, NextInv, PTL DEF Spec

-----------------------------------------------------------------------------
(* Theorems *)

\* Reports are read from directories that were found, and each directory of a
\* backup is in the home where gpbackup put it.
THEOREM TypeCorrect == Spec => []TypeOK
<1>1. IInv => TypeOK
  <2> SUFFICES ASSUME IInv PROVE TypeOK
    OBVIOUS
  <2>1. DOMAIN placed = DOMAIN backups /\ DOMAIN backups = 1..Len(backups)
    BY DEF IInv, FormInv
  <2>2. \A t \in DOMAIN backups :
          backups[t].dateDeleted \in {"", "date", DateDeletedLocalFailed}
    <3>1. \A t \in DOMAIN backups : backups[t] \in StoredRow
      BY <2>1 DEF IInv, FormInv
    <3> QED BY <3>1 DEF StoredRow
  <2>3. /\ stored \subseteq homes \X {-1, 0} \X DOMAIN backups
        /\ \A d \in stored : d[1] = placed[d[3]]
    BY <2>1 DEF IInv, StoredInv
  <2>4. \A p \in Proc : /\ proc[p].pc \in Label
                        /\ proc[p].pc = "read" => proc[p].home \in homes
                        /\ proc[p].fault \in BOOLEAN
    BY DEF IInv, FormInv, ProcState, ProcInv
  <2> QED BY <2>1, <2>2, <2>3, <2>4 DEF TypeOK, Label
<1> QED BY <1>1, Inductive, PTL

\* Whatever flags a command accepts, what they leave open is what the models of
\* the commands start from.
THEOREM AcceptedFit == Spec => []AcceptedFitsModels
<1>1. IInv => AcceptedFitsModels
  <2> SUFFICES ASSUME IInv, NEW p \in Proc,
                      proc[p].pc \notin {"given", "rejected"}
               PROVE  FitsModels(proc[p].line)
    BY DEF AcceptedFitsModels
  <2>1. Accepted(proc[p].line)
    BY DEF IInv, ProcInv
  <2>2. proc[p].line.cmd \in Command
    BY LineCommand DEF IInv, FormInv, ProcState
  <2> QED BY <2>1, <2>2, AcceptedFits
<1> QED BY <1>1, Inductive, PTL

\* However many backups share a directory in whatever layouts, and whatever
\* --backup-dir names, a backup with data that has a date has no directory left,
\* unless its errors were ignored.
THEOREM DatedGone == Spec => []DatedMeansGone
<1>1. IInv => DatedMeansGone
  BY DEF IInv
<1> QED BY <1>1, Inductive, PTL

-----------------------------------------------------------------------------
(* Why a report is not found *)

LookInv(p) ==
  proc[p].pc \in {"locate", "read"} =>
    /\ proc[p].line.timestamp \in DOMAIN backups
    /\ proc[p].pc = "read" =>
         IF DirFor(p) = "" THEN proc[p].home = Cluster
         ELSE proc[p].home[1] = DirFor(p)

CauseInv ==
  /\ IsFiniteSet(homes) /\ NoHome \notin homes
  /\ \A t \in DOMAIN backups : backups[t].backupDir = "" => placed[t] = Cluster
  /\ \A p \in Proc : LookInv(p)

\* What is found in a directory is a home there.
LEMMA FoundThere ==
  ASSUME NEW dir, NEW files, CheckMasterBackupDir(dir, files) # NoHome
  PROVE  CheckMasterBackupDir(dir, files)[1] = dir
<1> DEFINE found == {home \in files.seen : home[1] = dir}
<1>0. ~files.failed
  BY DEF CheckMasterBackupDir
<1>1. CASE <<dir, "">> \in found
  BY <1>0, <1>1 DEF CheckMasterBackupDir
<1>2. CASE <<dir, "">> \notin found /\ Cardinality(found) = 1
  <2>1. found # {}
    <3>1. SUFFICES ASSUME found = {} PROVE FALSE
      OBVIOUS
    <3>2. Cardinality(found) = 1
      BY <1>2
    <3> HIDE DEF found
    <3>3. Cardinality(found) = 0
      BY <3>1, FS_EmptySet
    <3> QED BY <3>2, <3>3
  <2>2. (CHOOSE home \in found : TRUE) \in found
    BY <2>1
  <2>3. CheckMasterBackupDir(dir, files) = CHOOSE home \in found : TRUE
    BY <1>0, <1>2 DEF CheckMasterBackupDir
  <2> QED BY <2>2, <2>3
<1> QED BY <1>1, <1>2 DEF CheckMasterBackupDir

\* Two homes in a directory, or one that is not found, make it mixed.
LEMMA TwoMakeMixed ==
  ASSUME NEW dir, CauseInv, NEW a \in homes, NEW b \in homes, a # b,
         a[1] = dir, b[1] = dir
  PROVE  Mixed(dir)
<1> DEFINE found == {home \in homes : home[1] = dir}
<1>1. IsFiniteSet(found)
  BY FS_Subset DEF CauseInv
<1>2. {a, b} \in SUBSET found
  OBVIOUS
<1>3. Cardinality({a, b}) <= Cardinality(found)
  BY <1>1, <1>2, FS_Subset
<1>4. Cardinality({a, b}) = 2
  <2>1. {a} \cup {b} = {a, b}
    OBVIOUS
  <2>2. Cardinality({a}) = 1 /\ IsFiniteSet({a})
    BY FS_Singleton
  <2>3. Cardinality({a} \cup {b}) = Cardinality({a}) + 1
    BY <2>2, FS_AddElement
  <2> QED BY <2>1, <2>2, <2>3
<1>5. Cardinality(found) \in Nat
  BY <1>1, FS_CardinalityType
<1> QED BY <1>3, <1>4, <1>5 DEF Mixed

LEMMA NotFoundMixed ==
  ASSUME NEW dir, CauseInv, NEW a \in homes, a[1] = dir,
         CheckMasterBackupDir(dir, TrueAnswer(homes)) = NoHome
  PROVE  Mixed(dir)
<1> DEFINE found == {home \in homes : home[1] = dir}
<1>1. IsFiniteSet(found)
  BY FS_Subset DEF CauseInv
<1>2. Cardinality(found) \in Nat /\ Cardinality(found) # 0
  <2>1. found # {}
    OBVIOUS
  <2> HIDE DEF found
  <2> QED BY <1>1, <2>1, FS_CardinalityType, FS_EmptySet
<1>3. Cardinality(found) # 1
  <2>1. SUFFICES ASSUME Cardinality(found) = 1 PROVE FALSE
    OBVIOUS
  <2>2. CheckMasterBackupDir(dir, TrueAnswer(homes)) \in found
    <3>1. (CHOOSE home \in found : TRUE) \in found
      OBVIOUS
    <3>2. CASE <<dir, "">> \in found
      BY <3>2 DEF CheckMasterBackupDir, TrueAnswer
    <3>3. CASE <<dir, "">> \notin found
      <4>1. CheckMasterBackupDir(dir, TrueAnswer(homes)) = CHOOSE home \in found : TRUE
        BY <2>1, <3>3 DEF CheckMasterBackupDir, TrueAnswer
      <4> QED BY <3>1, <4>1
    <3> QED BY <3>2, <3>3
  <2> QED BY <2>2 DEF CauseInv
<1> HIDE DEF found
<1>4. Cardinality(found) > 1
  BY <1>2, <1>3
<1> QED BY <1>4 DEF Mixed, found

LEMMA ClusterIsHome == Cluster # NoHome
<1>1. Cluster[2] # "" /\ NoHome[2] = ""
  BY LocalAssumption DEF NoHome
<1> QED BY <1>1

LEMMA Appended ==
  ASSUME NEW S, NEW s \in Seq(S), NEW e
  PROVE  /\ DOMAIN s = 1..Len(s) /\ Len(s) \in Nat
         /\ DOMAIN Append(s, e) = 1..(Len(s) + 1)
         /\ \A i \in 1..Len(s) : Append(s, e)[i] = s[i]
         /\ Append(s, e)[Len(s) + 1] = e
<1>1. s \in Seq(S \cup {e})
  OBVIOUS
<1> QED BY <1>1

LEMMA InitCause == Init => CauseInv
<1> SUFFICES ASSUME Init PROVE CauseInv
  OBVIOUS
<1>1. homes = {Cluster} /\ backups = <<>>
  BY DEF Init
<1>2. IsFiniteSet(homes)
  BY <1>1, FS_Singleton
<1>3. NoHome \notin homes
  BY <1>1, ClusterIsHome
<1>4. \A p \in Proc : proc[p].pc = "given"
  BY DEF Init
<1> QED BY <1>1, <1>2, <1>3, <1>4 DEF CauseInv, LookInv

LEMMA MakeBackupCause ==
  ASSUME IInv, CauseInv, MakeBackup
  PROVE  CauseInv'
<1> DEFINE b    == Head(toMake)
           home == IF b.dir = "" THEN Cluster ELSE <<b.dir, b.prefix>>
<1>1. PICK row : /\ backups' = Append(backups, row) /\ row.backupDir = b.dir
                 /\ placed' = Append(placed, home)
  BY DEF MakeBackup
<1>2. homes' = homes \/ homes' = homes \cup {home}
  BY DEF MakeBackup
<1>3. IsFiniteSet(homes')
  BY <1>2, FS_AddElement DEF CauseInv
<1>4. NoHome \notin homes'
  <2>1. NoHome # home
    <3>1. CASE b.dir = ""
      BY <3>1, ClusterIsHome
    <3>2. CASE b.dir # ""
      BY <3>2 DEF NoHome
    <3> QED BY <3>1, <3>2
  <2> QED BY <1>2, <2>1 DEF CauseInv
<1> DEFINE t == Len(backups) + 1
<1>5. /\ DOMAIN backups' = 1..t /\ DOMAIN backups = 1..Len(backups)
      /\ Len(backups) \in Nat
      /\ \A u \in DOMAIN backups : /\ backups'[u] = backups[u]
                                   /\ placed'[u] = placed[u]
      /\ backups'[t] = row /\ placed'[t] = home
  <2>1. /\ backups \in Seq(StoredRow) /\ placed \in Seq(Home)
        /\ Len(placed) = Len(backups)
    BY DEF IInv, FormInv
  <2> HIDE DEF home
  <2> QED BY <1>1, <2>1, Appended
<1> HIDE DEF home
<1>6. ASSUME NEW u \in DOMAIN backups', backups'[u].backupDir = ""
      PROVE  placed'[u] = Cluster
  <2>1. CASE u \in DOMAIN backups
    BY <2>1, <1>5, <1>6 DEF CauseInv
  <2>2. CASE u = t
    BY <2>2, <1>1, <1>5, <1>6 DEF home
  <2> QED BY <2>1, <2>2, <1>5
<1>7. ASSUME NEW p \in Proc
      PROVE  LookInv(p)'
  <2>1. proc' = proc
    BY DEF MakeBackup
  <2>2. DOMAIN backups \subseteq DOMAIN backups'
    BY <1>5
  <2>3. proc[p].line.timestamp \in DOMAIN backups => DirFor(p)' = DirFor(p)
    BY <2>1, <1>5 DEF DirFor, RowFor
  <2> QED BY <2>1, <2>2, <2>3 DEF CauseInv, LookInv
<1> QED BY <1>3, <1>4, <1>6, <1>7 DEF CauseInv

\* A step of p that changes dates at most.
LEMMA MoveCause ==
  ASSUME IInv, CauseInv, NEW p \in Proc, Moved(p), UNCHANGED <<placed, homes>>,
         DOMAIN backups' = DOMAIN backups,
         \A t \in DOMAIN backups : backups'[t].backupDir = backups[t].backupDir,
         LookInv(p)'
  PROVE  CauseInv'
<1>1. ASSUME NEW q \in Proc
      PROVE  LookInv(q)'
  <2>1. CASE q = p
    BY <2>1
  <2>2. CASE q # p
    <3>1. proc'[q] = proc[q]
      BY <2>2 DEF Moved
    <3>2. proc[q].line.timestamp \in DOMAIN backups => DirFor(q)' = DirFor(q)
      BY <3>1 DEF DirFor, RowFor
    <3> QED BY <3>1, <3>2 DEF CauseInv, LookInv
  <2> QED BY <2>1, <2>2
<1> QED BY <1>1 DEF CauseInv

\* A step of p to a label where it looks for no report.
LEMMA GotoCause ==
  ASSUME IInv, CauseInv, NEW p \in Proc,
         NEW label \in Label \ {"locate", "read"}, Goto(p, label),
         UNCHANGED <<backups, placed, homes>>
  PROVE  CauseInv'
<1>1. Moved(p) /\ proc'[p].pc = label
  BY GotoMoves DEF IInv
<1>2. LookInv(p)'
  BY <1>1 DEF LookInv
<1> QED BY <1>1, <1>2, MoveCause

LEMMA ValidateCause ==
  ASSUME IInv, CauseInv, NEW p \in Proc, Validate(p)
  PROVE  CauseInv'
<1>1. \E label \in {"rejected", "report", "delete", "accepted"} : Goto(p, label)
  BY DEF Validate
<1>2. {"rejected", "report", "delete", "accepted"}
        \subseteq Label \ {"locate", "read"}
  BY DEF Label, Ended
<1>3. UNCHANGED <<backups, placed, homes>>
  BY DEF Validate
<1> QED BY <1>1, <1>2, <1>3, GotoCause

LEMMA JudgeReportCause ==
  ASSUME IInv, CauseInv, NEW p \in Proc, JudgeReport(p)
  PROVE  CauseInv'
<1> DEFINE t == proc[p].line.timestamp
<1>1. PICK readable \in BOOLEAN :
        LET verdict == IF ~readable \/ t \notin DOMAIN backups THEN "error"
                  ELSE CheckBackupCanBeUsed(FALSE, UsesPlugin(p), backups[t])
        IN  Goto(p, CASE verdict = "use"   -> "locate"
                      [] verdict = "skip"  -> "exit0"
                      [] verdict = "error" -> "exit1")
  BY DEF JudgeReport
<1> DEFINE verdict == IF ~readable \/ t \notin DOMAIN backups THEN "error"
                  ELSE CheckBackupCanBeUsed(FALSE, UsesPlugin(p), backups[t])
           label == CASE verdict = "use"   -> "locate"
                      [] verdict = "skip"  -> "exit0"
                      [] verdict = "error" -> "exit1"
<1>2. /\ verdict \in {"use", "skip", "error"}
      /\ verdict = "use" => t \in DOMAIN backups
  BY DEF CheckBackupCanBeUsed
<1>3. Goto(p, label) /\ UNCHANGED <<backups, placed, homes>>
  BY <1>1 DEF JudgeReport
<1> HIDE DEF verdict
<1>4. CASE verdict = "use"
  <2>1. label = "locate" /\ "locate" \in Label
    BY <1>4 DEF Label
  <2>2. Moved(p) /\ proc'[p].pc = "locate"
    BY <1>3, <2>1, GotoMoves DEF IInv
  <2>3. LookInv(p)'
    BY <1>2, <1>3, <1>4, <2>2 DEF LookInv, Moved
  <2> QED BY <1>3, <2>2, <2>3, MoveCause
<1>5. CASE verdict = "skip"
  <2>1. label = "exit0" /\ "exit0" \in Label \ {"locate", "read"}
    BY <1>5 DEF Label, Ended
  <2> QED BY <1>3, <2>1, GotoCause
<1>6. CASE verdict = "error"
  <2>1. label = "exit1" /\ "exit1" \in Label \ {"locate", "read"}
    BY <1>6 DEF Label, Ended
  <2> QED BY <1>3, <2>1, GotoCause
<1> QED BY <1>2, <1>4, <1>5, <1>6

LEMMA LocateReportCause ==
  ASSUME IInv, CauseInv, NEW p \in Proc, LocateReport(p)
  PROVE  CauseInv'
<1>1. PICK cluster \in ClusterHome, files \in FileAnswer(homes) :
        LET home == getBackupMasterDir(proc[p].line.dir, RowFor(p).backupDir,
                                       cluster, files)
        IN  /\ Moved(p) /\ proc'[p].home = home
            /\ proc'[p].fault = (files # TrueAnswer(homes))
            /\ proc'[p].pc = IF home = NoHome THEN "exit1" ELSE "read"
  BY Located
<1>2. UNCHANGED <<backups, placed, homes>> /\ proc[p].pc = "locate"
  BY DEF LocateReport
<1>3. proc[p].line.timestamp \in DOMAIN backups
  BY <1>2 DEF CauseInv, LookInv
<1>4. proc'[p].line = proc[p].line /\ DirFor(p)' = DirFor(p)
  BY <1>1, <1>2 DEF Moved, DirFor, RowFor
<1>5. ASSUME proc'[p].pc = "read"
      PROVE  IF DirFor(p) = "" THEN proc'[p].home = Cluster
             ELSE proc'[p].home[1] = DirFor(p)
  <2> DEFINE home == getBackupMasterDir(proc[p].line.dir, RowFor(p).backupDir,
                                        cluster, files)
  <2>1. home # NoHome
    BY <1>1, <1>5
  <2>2. CASE DirFor(p) = ""
    <3>1. home = cluster
      BY <2>2 DEF DirFor, getBackupMasterDir
    <3> QED BY <1>1, <2>1, <2>2, <3>1 DEF ClusterHome
  <2>3. CASE DirFor(p) # ""
    <3>1. home = CheckMasterBackupDir(DirFor(p), files)
      <4>1. CASE proc[p].line.dir # ""
        BY <4>1 DEF DirFor, getBackupMasterDir
      <4>2. CASE proc[p].line.dir = "" /\ RowFor(p).backupDir # ""
        BY <4>2 DEF DirFor, getBackupMasterDir
      <4> QED BY <2>3, <4>1, <4>2 DEF DirFor
    <3> QED BY <1>1, <2>1, <2>3, <3>1, FoundThere
  <2> QED BY <2>2, <2>3
<1>6. LookInv(p)'
  BY <1>2, <1>3, <1>4, <1>5 DEF LookInv
<1> QED BY <1>1, <1>2, <1>6, MoveCause

LEMMA ReadReportCause ==
  ASSUME IInv, CauseInv, NEW p \in Proc, ReadReport(p)
  PROVE  CauseInv'
<1>1. Moved(p) /\ LookInv(p)'
  BY ReportRead DEF LookInv
<1>2. UNCHANGED <<backups, placed, homes>>
  BY DEF ReadReport
<1> QED BY <1>1, <1>2, MoveCause

LEMMA FetchReportCause ==
  ASSUME IInv, CauseInv, NEW p \in Proc, FetchReport(p)
  PROVE  CauseInv'
<1>1. \E label \in {"shown", "exit1"} : Goto(p, label)
  BY DEF FetchReport
<1>2. {"shown", "exit1"} \subseteq Label \ {"locate", "read"}
  BY DEF Label, Ended
<1>3. UNCHANGED <<backups, placed, homes>>
  BY DEF FetchReport
<1> QED BY <1>1, <1>2, <1>3, GotoCause

LEMMA DeleteLocalCause ==
  ASSUME IInv, CauseInv, NEW p \in Proc, DeleteLocal(p)
  PROVE  CauseInv'
<1> DEFINE t == proc[p].line.timestamp
<1>1. UNCHANGED <<placed, homes>>
  BY DEF DeleteLocal
<1>2. {"exit0", "exit1"} \subseteq Label \ {"locate", "read"}
  BY DEF Label, Ended
<1>3. CASE /\ \E label \in {"exit0", "exit1"} : Goto(p, label)
           /\ UNCHANGED <<backups, stored>>
  BY <1>1, <1>2, <1>3, GotoCause
<1>4. CASE /\ t \in DOMAIN backups
           /\ \E home, gone : Removal(p, t, home, gone)
  <2>1. PICK home, gone : Removal(p, t, home, gone)
    BY <1>4
  <2>2. PICK label \in {"exit0", "exit1"} : Goto(p, label)
    BY <2>1 DEF Removal
  <2>3. Moved(p) /\ proc'[p].pc = label
    BY <1>2, <2>2, GotoMoves DEF IInv
  <2> DEFINE date == IF gone = {} THEN DateDeletedLocalFailed ELSE "date"
             row  == [backups[t] EXCEPT !.dateDeleted = date]
  <2>4. backups' = [backups EXCEPT ![t] = row]
    BY <2>1 DEF Removal
  <2>5. row.backupDir = backups[t].backupDir
    <3>1. backups[t] \in StoredRow
      BY <1>4 DEF IInv, FormInv
    <3> QED BY <3>1 DEF StoredRow
  <2> HIDE DEF row
  <2>6. /\ DOMAIN backups' = DOMAIN backups
        /\ \A u \in DOMAIN backups :
             backups'[u].backupDir = backups[u].backupDir
    BY <2>4, <2>5 DEF IInv, FormInv
  <2>7. LookInv(p)'
    BY <2>3 DEF LookInv
  <2> QED BY <1>1, <2>3, <2>6, <2>7, MoveCause
<1> QED BY <1>3, <1>4, DeleteLocalCases

LEMMA NextCause == IInv /\ CauseInv /\ [Next]_vars => CauseInv'
<1> SUFFICES ASSUME IInv, CauseInv, [Next]_vars PROVE CauseInv'
  OBVIOUS
<1>1. CASE MakeBackup
  BY <1>1, MakeBackupCause
<1>2. CASE UNCHANGED vars
  BY <1>2 DEF vars, CauseInv, LookInv, DirFor, RowFor
<1>3. ASSUME NEW p \in Proc, Step(p)
      PROVE  CauseInv'
  BY <1>3, ValidateCause, DeleteLocalCause, JudgeReportCause,
     LocateReportCause, ReadReportCause, FetchReportCause DEF Step
<1> QED BY <1>1, <1>2, <1>3 DEF Next, Terminated

LEMMA CauseInductive == Spec => []CauseInv
<1>1. IInv /\ CauseInv /\ [Next]_vars => CauseInv'
  BY NextCause
<1> QED BY <1>1, InitCause, Inductive, PTL DEF Spec

\* Only the process that takes a step moves.
LEMMA StepMoves ==
  ASSUME IInv, NEW p \in Proc, Step(p)
  PROVE  \A q \in Proc \ {p} : proc'[q] = proc[q]
<1>1. CASE LocateReport(p) \/ ReadReport(p)
  BY <1>1, Located, ReportRead DEF Moved
<1>2. CASE ~(LocateReport(p) \/ ReadReport(p))
  <2>1. \E label : Goto(p, label)
    <3>1. CASE DeleteLocal(p)
      BY <3>1, DeleteLocalCases DEF Removal
    <3> QED BY <1>2, <3>1
            DEF Step, Validate, JudgeReport, FetchReport
  <2> QED BY <2>1 DEF Goto, IInv, FormInv
<1> QED BY <1>1, <1>2

LEMMA LocateFails ==
  ASSUME IInv, CauseInv, NEW p \in Proc, LocateReport(p), ReportFails(p)
  PROVE  ReportCause(p)
<1> DEFINE t == proc[p].line.timestamp
<1>1. SUFFICES ASSUME ~proc'[p].fault, DirFor(p) # "",
                      DirFor(p) = placed[t][1],
                      <<placed[t], -1, t>> \in stored
               PROVE  Mixed(DirFor(p))
  BY DEF ReportCause, LocateReport
<1>2. PICK cluster \in ClusterHome, files \in FileAnswer(homes) :
        LET home == getBackupMasterDir(proc[p].line.dir, RowFor(p).backupDir,
                                       cluster, files)
        IN  /\ Moved(p) /\ proc'[p].home = home
            /\ proc'[p].fault = (files # TrueAnswer(homes))
            /\ proc'[p].pc = IF home = NoHome THEN "exit1" ELSE "read"
  BY Located
<1>3. getBackupMasterDir(proc[p].line.dir, RowFor(p).backupDir, cluster,
                         TrueAnswer(homes)) = NoHome
  BY <1>1, <1>2 DEF ReportFails
<1>4. CheckMasterBackupDir(DirFor(p), TrueAnswer(homes)) = NoHome
  <2>1. CASE proc[p].line.dir # ""
    BY <2>1, <1>3 DEF DirFor, getBackupMasterDir
  <2>2. CASE proc[p].line.dir = "" /\ RowFor(p).backupDir # ""
    BY <2>2, <1>3 DEF DirFor, getBackupMasterDir
  <2> QED BY <1>1, <2>1, <2>2 DEF DirFor
<1>5. placed[t] \in homes
  <2>1. <<placed[t], -1, t>> \in homes \X {-1, 0} \X (1..Len(backups))
    BY <1>1 DEF IInv, StoredInv
  <2> QED BY <2>1
<1> QED BY <1>1, <1>4, <1>5, NotFoundMixed

LEMMA ReadFails ==
  ASSUME IInv, CauseInv, NEW p \in Proc, ReadReport(p), ReportFails(p)
  PROVE  ReportCause(p)
<1> DEFINE t == proc[p].line.timestamp
<1>1. SUFFICES ASSUME ~proc'[p].fault, <<placed[t], -1, t>> \in stored
               PROVE  /\ DirFor(p) # ""
                      /\ \/ DirFor(p) # placed[t][1]
                         \/ Mixed(DirFor(p))
  BY DEF ReportCause
<1>2. /\ proc[p].pc = "read" /\ proc[p].home \in homes
      /\ t \in DOMAIN backups
      /\ IF DirFor(p) = "" THEN proc[p].home = Cluster
         ELSE proc[p].home[1] = DirFor(p)
  BY DEF ReadReport, IInv, ProcInv, CauseInv, LookInv
<1>3. <<proc[p].home, -1, t>> \notin stored
  BY <1>1, ReportRead DEF ReportFails
<1>4. proc[p].home # placed[t]
  BY <1>1, <1>3
<1>5. DirFor(p) # ""
  <2>1. SUFFICES ASSUME DirFor(p) = "" PROVE FALSE
    OBVIOUS
  <2>2. backups[t].backupDir = ""
    BY <2>1 DEF DirFor, RowFor
  <2>3. placed[t] = Cluster
    BY <1>2, <2>2 DEF CauseInv
  <2> QED BY <1>2, <1>4, <2>1, <2>3
<1>6. placed[t] \in homes
  <2>1. <<placed[t], -1, t>> \in homes \X {-1, 0} \X (1..Len(backups))
    BY <1>1 DEF IInv, StoredInv
  <2> QED BY <2>1
<1> QED BY <1>2, <1>4, <1>5, <1>6, TwoMakeMixed

\* However many backups and processes there are, the report of a local backup
\* whose directory is there is not shown only for the causes that
\* ReportFailsForCause lists.
THEOREM ReportsFound == Spec => ReportFailsForCause
<1>1. IInv /\ CauseInv /\ [Next]_vars =>
        [\A p \in Proc : ReportFails(p) => ReportCause(p)]_vars
  <2> SUFFICES ASSUME IInv, CauseInv, Next, NEW p \in Proc, ReportFails(p)
               PROVE  ReportCause(p)
    OBVIOUS
  <2>1. proc' # proc
    BY DEF ReportFails
  <2>2. PICK q \in Proc : Step(q)
    BY <2>1 DEF Next, MakeBackup, Terminated, vars
  <2>3. CASE q = p
    <3>1. LocateReport(p) \/ ReadReport(p)
      BY <2>2, <2>3 DEF Step, ReportFails, Validate, DeleteLocal, JudgeReport,
                        FetchReport
    <3> QED BY <3>1, LocateFails, ReadFails
  <2>4. CASE q # p
    BY <2>2, <2>4, StepMoves DEF ReportFails
  <2> QED BY <2>3, <2>4
<1> QED BY <1>1, Inductive, CauseInductive, PTL DEF Spec, ReportFailsForCause
=============================================================================
