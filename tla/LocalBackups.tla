---------------------------- MODULE LocalBackups ----------------------------
(***************************************************************************)
(* Command lines from their flags to the files they name: report-info      *)
(* (cmd/report_info.go) and the local backup-delete find a backup that     *)
(* gpbackup wrote, in one of its layouts, under --backup-dir, the          *)
(* directory in the history or the data directories.  The other commands   *)
(* are followed until their flags are accepted.                            *)
(*                                                                         *)
(* backup-delete is one step here, and no backup has dependents: its       *)
(* steps, failures and cascades are those of BackupDelete.                 *)
(***************************************************************************)
EXTENDS BackupConfig, BackupDirs, CommandLine, Integers, Sequences

CONSTANTS
  Proc,      \* processes, each with one command line
  Lines,     \* what they are given: functions from Proc to command lines
             \* [cmd, flags, timestamp, dir], dir the value of --backup-dir
  Cluster,   \* the home of the coordinator's data directory
  Scenario   \* sequences of backups that gpbackup makes

\* dir "" stands for the data directories, prefix "" for --single-backup-dir.
Planned == [dir : STRING, prefix : STRING, metadataOnly : BOOLEAN,
            plugin : {"", "plugin", BackupS3Plugin}]

ASSUME LocalAssumption ==
  /\ \A given \in Lines : \A p \in Proc :
       /\ given[p].cmd \in Command /\ given[p].timestamp \in Nat \ {0}
       /\ given[p].dir # "" <=> "backup-dir" \in Given(given[p])
  /\ Cluster \in STRING \X (STRING \ {""})
  /\ Scenario \subseteq Seq(Planned)
  /\ \A s \in Scenario : \A k \in DOMAIN s :
       s[k].dir = "" => s[k].prefix = Cluster[2]

VARIABLES
  toMake,   \* the backups that gpbackup will make, the next first
  backups,  \* table backups: rows with backup_dir, in the order of timestamps
  placed,   \* the homes that gpbackup put them in
  homes,    \* the homes that exist; an empty one stays
  stored,   \* the directories that exist: <<home, content, timestamp>>
  proc      \* processes: [pc, line, home, fault], fault whether the last call on
            \* files for a report failed or hid a home

vars == <<toMake, backups, placed, homes, stored, proc>>

Init ==
  /\ toMake \in Scenario
  /\ backups = <<>> /\ placed = <<>> /\ homes = {Cluster} /\ stored = {}
  /\ \E given \in Lines :
       proc = [p \in Proc |-> [pc |-> "given", line |-> given[p],
                               home |-> NoHome, fault |-> FALSE]]

\* gpbackup: a full or metadata-only backup, in local storage or on a plugin.
MakeBackup ==
  /\ toMake # <<>>
  /\ LET b    == Head(toMake)
         t    == Len(backups) + 1
         home == IF b.dir = "" THEN Cluster ELSE <<b.dir, b.prefix>>
         row  == [status |-> "Success", plugin |-> b.plugin, dateDeleted |-> "",
                  incremental |-> FALSE, dataOnly |-> FALSE,
                  metadataOnly |-> b.metadataOnly, backupDir |-> b.dir]
         contents == CASE b.plugin # "" -> {}
                       [] b.plugin = "" /\ b.metadataOnly -> {-1}
                       [] OTHER -> {-1, 0}
     IN  /\ toMake' = Tail(toMake)
         /\ backups' = Append(backups, row) /\ placed' = Append(placed, home)
         /\ homes' = IF contents = {} THEN homes ELSE homes \cup {home}
         /\ stored' = stored \cup {<<home, c, t>> : c \in contents}
  /\ UNCHANGED proc

Goto(p, label) == proc' = [proc EXCEPT ![p].pc = label]

RowFor(p) == backups[proc[p].line.timestamp]
UsesPlugin(p) == "plugin-config" \in Given(proc[p].line)

\* The commands whose work is modelled elsewhere stop at "accepted".
Validate(p) ==
  /\ proc[p].pc = "given"
  /\ LET line == proc[p].line IN
     Goto(p, IF ~Accepted(line) THEN "rejected"
             ELSE IF line.cmd = "report-info" THEN "report"
             ELSE IF line.cmd = "backup-delete" /\ ~UsesPlugin(p) THEN "delete"
             ELSE "accepted")
  /\ UNCHANGED <<toMake, backups, placed, homes, stored>>

\* reportInfo up to checkBackupCanBeUsed: the plugin's configuration and the row
\* are read.  A backup that is deleted has no report, and that is no error.
JudgeReport(p) ==
  /\ proc[p].pc = "report"
  /\ LET t == proc[p].line.timestamp IN
     \E readable \in BOOLEAN :
       LET verdict == IF ~readable \/ t \notin DOMAIN backups THEN "error"
                      ELSE CheckBackupCanBeUsed(FALSE, UsesPlugin(p), backups[t])
       IN  Goto(p, CASE verdict = "use"   -> "locate"
                     [] verdict = "skip"  -> "exit0"
                     [] verdict = "error" -> "exit1")
  /\ UNCHANGED <<toMake, backups, placed, homes, stored>>

\* The answers of the cluster: there may be none.
ClusterHome == {Cluster, NoHome}

\* Wrong: the error of getBackupMasterDir is not looked at.
LocateReportMutant(p) ==
  /\ proc[p].pc = "locate" /\ ~UsesPlugin(p)
  /\ \E cluster \in ClusterHome, files \in FileAnswer(homes) :
       proc' = [proc EXCEPT ![p].pc = "read",
                  ![p].fault = files # TrueAnswer(homes),
                  ![p].home = getBackupMasterDir(proc[p].line.dir,
                                RowFor(p).backupDir, cluster, files)]
  /\ UNCHANGED <<toMake, backups, placed, homes, stored>>

\* reportInfoFileLocalFunc: the directory of the coordinator.
LocateReport(p) ==
  /\ proc[p].pc = "locate" /\ ~UsesPlugin(p)
  /\ \E cluster \in ClusterHome, files \in FileAnswer(homes) :
       LET home == getBackupMasterDir(proc[p].line.dir, RowFor(p).backupDir,
                                      cluster, files)
       IN  proc' = [proc EXCEPT ![p].home = home,
                      ![p].fault = files # TrueAnswer(homes),
                      ![p].pc = IF home = NoHome THEN "exit1" ELSE "read"]
  /\ UNCHANGED <<toMake, backups, placed, homes, stored>>

\* os.ReadFile: an error when the file is not there, and it may fail when it is.
ReadReport(p) ==
  /\ proc[p].pc = "read"
  /\ LET there == <<proc[p].home, -1, proc[p].line.timestamp>> \in stored IN
     \E failed \in BOOLEAN :
       proc' = [proc EXCEPT ![p].fault = failed,
                  ![p].pc = IF there /\ ~failed THEN "shown" ELSE "exit1"]
  /\ UNCHANGED <<toMake, backups, placed, homes, stored>>

\* reportInfoPluginFunc: the plugin fetches the file or fails.
FetchReport(p) ==
  /\ proc[p].pc = "locate" /\ UsesPlugin(p)
  /\ \E folder \in BOOLEAN, label \in {"shown", "exit1"} :
       /\ GetReportFilePathPlugin(
            "plugin-report-file-path" \in Given(proc[p].line),
            RowFor(p).plugin, folder)
            = "error" => label = "exit1"
       /\ Goto(p, label)
  /\ UNCHANGED <<toMake, backups, placed, homes, stored>>

\* Wrong: that the segments have the backup is not checked.
SegmentsHaveMutant(home, t) == TRUE

\* executeDeleteBackupOnSegments goes on only when they have.
SegmentsHave(home, t) == <<home, 0, t>> \in stored

\* backupDeleteDB for one name and backupDeleteDBLocalFunc, which connects to the
\* cluster for its own directory and again for the segments.  Nobody asks
\* whether the coordinator has the backup: removing nothing is no error.
DeleteLocal(p) ==
  /\ proc[p].pc = "delete"
  /\ LET t   == proc[p].line.timestamp
         row == backups[t]
         verdict == IF t \notin DOMAIN backups THEN "error"
                    ELSE CheckBackupCanBeUsed(On(proc[p].line, "force"),
                                              FALSE, row)
     IN  IF verdict # "use"
         THEN /\ Goto(p, IF verdict = "skip" THEN "exit0" ELSE "exit1")
              /\ UNCHANGED <<backups, stored>>
         ELSE \E cluster \in ClusterHome, files \in FileAnswer(homes),
                segments \in BOOLEAN :
              LET home == getBackupMasterDir(proc[p].line.dir, row.backupDir,
                                             cluster, files)
                  fails == \/ home = NoHome
                           \/ /\ ~row.metadataOnly
                              /\ ~segments \/ ~SegmentsHave(home, t)
                              /\ ~On(proc[p].line, "ignore-errors")
                  gone == CASE fails -> {}
                            [] ~fails /\ segments /\ ~row.metadataOnly -> {-1, 0}
                            [] OTHER -> {-1}
              IN  /\ Goto(p, IF fails THEN "exit1" ELSE "exit0")
                  /\ backups' = [backups EXCEPT ![t].dateDeleted =
                       IF fails THEN DateDeletedLocalFailed ELSE "date"]
                  /\ stored' = stored \ {<<home, c, t>> : c \in gone}
  /\ UNCHANGED <<toMake, placed, homes>>

Step(p) == \/ Validate(p) \/ DeleteLocal(p)
           \/ JudgeReport(p) \/ LocateReport(p) \/ ReadReport(p) \/ FetchReport(p)

Ended == {"rejected", "accepted", "shown", "exit0", "exit1"}

Terminated == /\ toMake = <<>> /\ \A p \in Proc : proc[p].pc \in Ended
              /\ UNCHANGED vars

Next == MakeBackup \/ (\E p \in Proc : Step(p)) \/ Terminated

Spec == Init /\ [][Next]_vars
-----------------------------------------------------------------------------
(* Properties *)

\* Type correctness.  A report is read from a directory that was found, and a
\* directory of a backup is in the home where gpbackup put it.
TypeOK ==
  /\ DOMAIN placed = DOMAIN backups
  /\ \A t \in DOMAIN backups : backups[t].dateDeleted \in
       {"", "date", DateDeletedLocalFailed}
  /\ stored \subseteq homes \X {-1, 0} \X DOMAIN backups
  /\ \A d \in stored : d[1] = placed[d[3]]
  /\ \A p \in Proc :
       /\ proc[p].pc \in {"given", "report", "locate", "read", "delete"} \cup Ended
       /\ proc[p].pc = "read" => proc[p].home \in homes
       /\ proc[p].fault \in BOOLEAN

\* What the models of the commands start from: local storage or a plugin, one
\* limit at most and for a cleaning exactly one, a dependency tree without filters,
\* filters by tables or by schemas, at least one parallel process.
FitsModels(line) ==
  /\ "plugin-config" \in Given(line) =>
       Given(line) \cap {"backup-dir", "parallel-processes"} = {}
  /\ "plugin-report-file-path" \in Given(line) => "plugin-config" \in Given(line)
  /\ ~Has(line, "parallel-processes", {"zero"})
  /\ line.cmd \in {"backup-clean", "history-clean"} <=>
       Given(line) \cap Cutoffs # {}
  /\ Cardinality(Given(line) \cap Cutoffs) <= 1
  /\ line.cmd = "backup-info" /\ "timestamp" \in Given(line) =>
       Given(line) \subseteq {"timestamp", "detail"} \cup RootFlag
  /\ "exclude" \in Given(line) =>
       Cardinality(Given(line) \cap {"table", "schema"}) = 1
  /\ On(line, "ignore-errors") => "force" \in Given(line)

\* What the flags that a command accepts leave open is what the models of the
\* commands start from.
AcceptedFitsModels ==
  \A p \in Proc : proc[p].pc \notin {"given", "rejected"} =>
    FitsModels(proc[p].line)

\* Is t removed with its failures ignored?
Careless(t) ==
  \E p \in Proc : /\ proc[p].line.timestamp = t
                  /\ On(proc[p].line, "ignore-errors")

\* Whatever the layouts in its directory, whatever --backup-dir names and whatever
\* homes cannot be read, a backup with data gets its date only when its
\* directories are gone: the check on the segments tells that the wrong home was
\* found.
DatedMeansGone ==
  \A t \in DOMAIN backups :
    /\ backups[t].dateDeleted = "date"
    /\ ~backups[t].metadataOnly /\ ~Careless(t)
    => \A d \in stored : d[3] # t

\* The directory under which p looks for its backup.
DirFor(p) == IF proc[p].line.dir # "" THEN proc[p].line.dir
             ELSE RowFor(p).backupDir

Mixed(dir) == Cardinality({home \in homes : home[1] = dir}) > 1

ReportFails(p) ==
  /\ proc[p].pc \in {"locate", "read"} /\ ~UsesPlugin(p)
  /\ proc'[p].pc = "exit1"

\* The call on files fails or hides a home, the cluster gives no answer,
\* --backup-dir names another directory, backups of several layouts were put into
\* one directory, or the backup's is gone.
ReportCause(p) ==
  LET t == proc[p].line.timestamp IN
  \/ proc'[p].fault
  \/ DirFor(p) = "" /\ proc[p].pc = "locate"
  \/ DirFor(p) # "" /\ (DirFor(p) # placed[t][1] \/ Mixed(DirFor(p)))
  \/ <<placed[t], -1, t>> \notin stored

\* The report of a local backup is found and read, but for these causes: the home
\* that is found before the file is read is still the right one then.
ReportFailsForCause ==
  [][\A p \in Proc : ReportFails(p) => ReportCause(p)]_vars
=============================================================================
