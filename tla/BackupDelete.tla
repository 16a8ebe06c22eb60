---------------------------- MODULE BackupDelete ----------------------------
(***************************************************************************)
(* backup-delete and backup-clean (cmd/backup_delete.go and                *)
(* cmd/backup_clean.go): gpbackman processes that share one history        *)
(* database and the storage of the backups.  Every access to either is a   *)
(* step of its own, and the process may be killed between any two.         *)
(*                                                                         *)
(* executeDeleteBackupOnSegments appears as SegmentDelete refines it: one  *)
(* step per host it checks or removes, goroutines left out.                *)
(***************************************************************************)
EXTENDS HistoryDB

CONSTANTS
  Proc,       \* gpbackman processes; each runs one command
  Backup,     \* timestamps
  SegDir,     \* the segments' directories of a backup
  Command,    \* the command lines that may be given
  Scenario,   \* initial contents [backups, restorePlans] of the database
  Overlap,    \* may a command start while another is running?
  DBFaults,   \* may a statement to the database fail?
  MayCrash    \* may a process be killed?

ASSUME DeleteAssumption ==
  /\ Backup \subseteq Nat /\ IsFiniteSet(Backup)
  /\ SegDir # {}
  /\ Overlap \in BOOLEAN /\ DBFaults \in BOOLEAN /\ MayCrash \in BOOLEAN
  /\ \A c \in Command :
       /\ c.list \in Seq(Backup)
       /\ c.clean => ~c.force /\ ~c.ignoreErrors
       /\ {c.cascade, c.force, c.ignoreErrors, c.plugin, c.clean}
            \subseteq BOOLEAN
  /\ \A s \in Scenario :
       /\ DOMAIN s.backups \subseteq Backup
       /\ s.backups \in [DOMAIN s.backups -> Row]
       /\ s.restorePlans \subseteq Backup \X Backup

VARIABLES
  backups,       \* table backups
  restorePlans,  \* table restore_plans
  coordDir,      \* backups that have a directory on the coordinator
  segDir,        \* <<backup, d>>: the directories that exist on the segments
  object,        \* backups that have objects in the plugin's storage
  proc           \* proc[p]: the state of process p

db      == <<backups, restorePlans>>
storage == <<coordDir, segDir, object>>
vars    == <<backups, restorePlans, coordDir, segDir, object, proc>>

\* What deleting a backup removes.  Only the coordinator has files of a
\* metadata-only backup; plugin backups have none on the segments.
Segments(row) == IF IsLocal(row) /\ GetBackupType(row) # "metadata-only"
                 THEN SegDir ELSE {}
SegDirOf(b, row) == {b} \X Segments(row)

Running == {"next", "dependencies", "cascade", "begin", "plugin", "locate",
            "segments", "checking", "removing", "coordinator", "finish",
            "recordFailure"}
\* From the mark "In progress" to the status that replaces it.
Deleting == {"plugin", "locate", "segments", "checking", "removing",
             "coordinator", "finish", "recordFailure"}
Ended == {"exit0", "exit1", "killed"}

Active(p) == proc[p].pc \in Running

Init ==
  /\ \E s \in Scenario :
       /\ backups = s.backups
       /\ restorePlans = s.restorePlans
       /\ LET whole == {t \in DOMAIN s.backups :
                          s.backups[t].dateDeleted # "date"}
          IN /\ coordDir = whole
             /\ segDir = UNION {SegDirOf(t, s.backups[t]) : t \in whole}
             /\ object = {t \in whole : ~IsLocal(s.backups[t])}
  /\ \E c \in [Proc -> Command] :
       proc = [p \in Proc |->
                 [pc |-> "idle", cmd |-> c[p], todo |-> <<>>, name |-> 0,
                  deps |-> <<>>, cur |-> 0, seen |-> {}, located |-> FALSE,
                  strayed |-> FALSE, doomed |-> FALSE, after |-> "exit1"]]

Goto(p, label) == proc' = [proc EXCEPT ![p].pc = label]

\* A statement to the database may fail, and then changes nothing.
DBError(p, label) ==
  DBFaults /\ Goto(p, label) /\ UNCHANGED <<db, storage>>
-----------------------------------------------------------------------------
(* The list of names *)

\* fetchBackupNamesForDeletion: an after-timestamp replaces the list that the
\* before-timestamp gave.  0 stands for an option that is not set.
FetchBackupNamesForDeletion(c) ==
  IF c.after # 0 THEN GetBackupNamesAfterTimestamp(c.after, backups)
  ELSE GetBackupNamesBeforeTimestamp(c.before, backups)

\* deleteBackup and cleanBackup, up to the loop.
Start(p) ==
  /\ proc[p].pc = "idle"
  /\ Overlap \/ \A q \in Proc : ~Active(q)
  /\ LET c == proc[p].cmd
     IN proc' = [proc EXCEPT ![p].pc = "next",
                   ![p].todo = IF c.clean THEN FetchBackupNamesForDeletion(c)
                               ELSE c.list]
  /\ UNCHANGED <<db, storage>>

StartFails(p) ==
  /\ proc[p].pc = "idle" /\ proc[p].cmd.clean
  /\ Overlap \/ \A q \in Proc : ~Active(q)
  /\ DBError(p, "exit1")

NoMoreNames(p) ==
  /\ proc[p].pc = "next" /\ proc[p].todo = <<>>
  /\ Goto(p, "exit0")
  /\ UNCHANGED <<db, storage>>

\* GetBackupDataDB and checkBackupCanBeUsed: "error" also for a name that has
\* no row.
Verdict(p, b) ==
  IF b \in DOMAIN backups
  THEN CheckBackupCanBeUsed(proc[p].cmd.force, proc[p].cmd.plugin, backups[b])
  ELSE "error"

\* One turn of backupDeleteDB's loop, up to the dependencies.
ConsiderName(p) ==
  /\ proc[p].pc = "next" /\ proc[p].todo # <<>>
  /\ \/ LET b == Head(proc[p].todo)
            label == [use |-> "dependencies", skip |-> "next",
                      error |-> "exit1"]
        IN /\ proc' = [proc EXCEPT ![p].pc = label[Verdict(p, b)],
                         ![p].name = b, ![p].todo = Tail(@)]
           /\ UNCHANGED <<db, storage>>
     \/ DBError(p, "exit1")

\* Wrong: the dependents are logged and the backup is deleted all the same.
QueryDependenciesMutant(p) ==
  /\ proc[p].pc = "dependencies"
  /\ \/ /\ proc' = [proc EXCEPT
                ![p].deps = IF proc[p].cmd.cascade
                            THEN GetBackupDependencies(proc[p].name,
                                                       restorePlans)
                            ELSE <<>>,
                ![p].pc = "cascade"]
        /\ UNCHANGED <<db, storage>>
     \/ DBError(p, "exit1")

\* GetBackupDependencies: none, or a cascade, or an error.
QueryDependencies(p) ==
  /\ proc[p].pc = "dependencies"
  /\ \/ LET deps == GetBackupDependencies(proc[p].name, restorePlans)
        IN /\ proc' = [proc EXCEPT
                ![p].deps = deps,
                ![p].pc = IF deps = <<>> \/ proc[p].cmd.cascade THEN "cascade"
                          ELSE "exit1"]
           /\ UNCHANGED <<db, storage>>
     \/ DBError(p, "exit1")

\* Wrong: a dependent that is skipped stays at the head of the list.
ConsiderDependentMutant(p) ==
  /\ proc[p].pc = "cascade" /\ proc[p].deps # <<>>
  /\ \/ LET b == Head(proc[p].deps)
            label == [use |-> "begin", skip |-> "cascade", error |-> "exit1"]
        IN /\ proc' = [proc EXCEPT ![p].pc = label[Verdict(p, b)],
                ![p].cur = b,
                ![p].deps = IF Verdict(p, b) = "skip" THEN @ ELSE Tail(@)]
           /\ UNCHANGED <<db, storage>>
     \/ DBError(p, "exit1")

\* One turn of backupDeleteDBCascade's loop.
ConsiderDependent(p) ==
  /\ proc[p].pc = "cascade" /\ proc[p].deps # <<>>
  /\ \/ LET b == Head(proc[p].deps)
            label == [use |-> "begin", skip |-> "cascade", error |-> "exit1"]
        IN /\ proc' = [proc EXCEPT ![p].pc = label[Verdict(p, b)],
                         ![p].cur = b, ![p].deps = Tail(@)]
           /\ UNCHANGED <<db, storage>>
     \/ DBError(p, "exit1")

\* Wrong: the backup itself may go before its dependents.
EndCascadeMutant(p) ==
  /\ proc[p].pc = "cascade"
  /\ proc' = [proc EXCEPT ![p].pc = "begin", ![p].cur = proc[p].name]
  /\ UNCHANGED <<db, storage>>

\* No dependent is left: the backup itself.
EndCascade(p) ==
  /\ proc[p].pc = "cascade" /\ proc[p].deps = <<>>
  /\ proc' = [proc EXCEPT ![p].pc = "begin", ![p].cur = proc[p].name]
  /\ UNCHANGED <<db, storage>>
-----------------------------------------------------------------------------
(* The deleters: backupDeleteDBPluginFunc and backupDeleteDBLocalFunc *)

\* UpdateDeleteStatus of the backup being deleted, then label.
SetStatus(p, dateDeleted, label) ==
  /\ backups' = UpdateDeleteStatus(proc[p].cur, dateDeleted, backups)
  /\ Goto(p, label)
  /\ UNCHANGED <<restorePlans, storage>>

\* Wrong: the error is returned but not recorded.
FailMutant(p, label) == Goto(p, label)

\* An error: handleErrorDB records it next, and then the deleter either
\* returns it or goes on at `label`.
Fail(p, label) ==
  proc' = [proc EXCEPT ![p].pc = "recordFailure", ![p].after = label]

\* Wrong: the error is recorded but never returned.
IgnorableMutant(p, label) == Fail(p, label)

\* The errors that --ignore-errors lets the deleter go on from.
Ignorable(p, label) ==
  Fail(p, IF proc[p].cmd.ignoreErrors THEN label ELSE "exit1")

\* Wrong: no mark before the deletion.
MarkInProgressMutant(p) ==
  /\ proc[p].pc = "begin"
  /\ Goto(p, IF proc[p].cmd.plugin THEN "plugin" ELSE "locate")
  /\ UNCHANGED <<db, storage>>

\* UPDATE ... 'In progress'; its error is returned with nothing changed.
MarkInProgress(p) ==
  /\ proc[p].pc = "begin"
  /\ \/ SetStatus(p, DateDeletedInProgress,
                  IF proc[p].cmd.plugin THEN "plugin" ELSE "locate")
     \/ DBError(p, "exit1")

\* Wrong: the status of a backup goes where that of its deletion belongs.
RecordFailureMutant(p) ==
  /\ proc[p].pc = "recordFailure"
  /\ SetStatus(p, BackupStatusFailure, proc[p].after)

\* handleErrorDB: an error of the UPDATE itself is only logged.
RecordFailure(p) ==
  /\ proc[p].pc = "recordFailure"
  /\ \/ SetStatus(p, IF proc[p].cmd.plugin THEN DateDeletedPluginFailed
                     ELSE DateDeletedLocalFailed, proc[p].after)
     \/ DBError(p, proc[p].after)

\* execDeleteBackupPlugin: a plugin that fails may have removed the objects.
RunPlugin(p) ==
  /\ proc[p].pc = "plugin"
  /\ \/ object' = object \ {proc[p].cur} /\ Goto(p, "locate")
     \/ object' \in {object, object \ {proc[p].cur}} /\ Ignorable(p, "locate")
  /\ UNCHANGED <<db, coordDir, segDir>>

\* getBackupMasterDir without an error.  By --backup-dir, the row or the layouts
\* that lie there, it may be a directory where the backup is not (LocalBackups).
Locate(p, label) ==
  \/ proc' = [proc EXCEPT ![p].pc = label, ![p].located = TRUE]
  \/ proc' = [proc EXCEPT ![p].pc = label, ![p].located = FALSE,
                          ![p].strayed = TRUE]

\* The plugin deleter reads the row again and looks for the coordinator's
\* directory.  After an error that is ignored the path may be the wrong one.
LocatePlugin(p) ==
  /\ proc[p].pc = "locate" /\ proc[p].cmd.plugin
  /\ \/ proc[p].cur \in DOMAIN backups /\ Locate(p, "coordinator")
     \/ \E found \in BOOLEAN :
          proc' = [proc EXCEPT ![p].pc = "recordFailure",
            ![p].after = IF proc[p].cmd.ignoreErrors THEN "coordinator"
                         ELSE "exit1",
            ![p].located = found]
  /\ UNCHANGED <<db, storage>>

\* The local deleter: no row, no directory and no type are errors that
\* --ignore-errors does not cover.
LocateLocal(p) ==
  /\ proc[p].pc = "locate" /\ ~proc[p].cmd.plugin
  /\ \/ /\ proc[p].cur \in DOMAIN backups
        /\ LET type == GetBackupType(backups[proc[p].cur])
           IN /\ type # ""
              /\ Locate(p, IF type = "metadata-only" THEN "coordinator"
                           ELSE "segments")
     \/ Fail(p, "exit1")
  /\ UNCHANGED <<db, storage>>

\* getSegmentConfigurationClusterInfo; when its error is ignored the list of
\* segments is empty.
ReadSegments(p) ==
  /\ proc[p].pc = "segments"
  /\ \/ proc' = [proc EXCEPT ![p].pc = "checking", ![p].seen = {}]
     \/ Ignorable(p, "coordinator")
  /\ UNCHANGED <<db, storage>>

\* executeDeleteBackupOnSegments: a check finds a directory, as it does only
\* under the home of the backup, ...
CheckSegment(p) ==
  /\ proc[p].pc = "checking" /\ proc[p].located
  /\ \E d \in SegDir \ proc[p].seen :
       /\ <<proc[p].cur, d>> \in segDir
       /\ proc' = [proc EXCEPT ![p].seen = @ \cup {d}]
  /\ UNCHANGED <<db, storage>>

\* ... the checks are over and all right (or their errors are ignored), ...
AcceptSegments(p) ==
  /\ proc[p].pc = "checking"
  /\ proc[p].seen = SegDir \/ proc[p].cmd.ignoreErrors
  /\ proc' = [proc EXCEPT ![p].pc = "removing", ![p].seen = {}]
  /\ UNCHANGED <<db, storage>>

\* ... or the function returns an error before it has removed anything.
RefuseSegments(p) ==
  /\ proc[p].pc = "checking"
  /\ Ignorable(p, "coordinator")
  /\ UNCHANGED <<db, storage>>

\* rm -rf, which is content with a directory that does not exist.
RemoveSegment(p) ==
  /\ proc[p].pc = "removing"
  /\ \E d \in SegDir \ proc[p].seen :
       /\ segDir' = IF proc[p].located THEN segDir \ {<<proc[p].cur, d>>}
                    ELSE segDir
       /\ proc' = [proc EXCEPT ![p].seen = @ \cup {d}]
  /\ UNCHANGED <<db, coordDir, object>>

\* A removal fails: the send on the closed errCh panics.  The goroutine's
\* deferred wg.Done still counts it as done, and until the runtime ends the
\* process (Die) the main goroutine goes on as if nothing had happened.
FailSegment(p) ==
  /\ proc[p].pc = "removing"
  /\ \E d \in SegDir \ proc[p].seen :
       proc' = [proc EXCEPT ![p].seen = @ \cup {d}, ![p].doomed = TRUE]
  /\ UNCHANGED <<db, storage>>

Die(p) ==
  /\ proc[p].doomed /\ Active(p)
  /\ Goto(p, "killed")
  /\ UNCHANGED <<db, storage>>

\* Wrong: no wait for the removals.
EndSegmentsMutant(p) ==
  /\ proc[p].pc = "removing"
  /\ proc' = [proc EXCEPT ![p].pc = "coordinator", ![p].seen = {}]
  /\ UNCHANGED <<db, storage>>

\* All goroutines of the second group are done.
EndSegments(p) ==
  /\ proc[p].pc = "removing" /\ proc[p].seen = SegDir
  /\ proc' = [proc EXCEPT ![p].pc = "coordinator", ![p].seen = {}]
  /\ UNCHANGED <<db, storage>>

\* os.RemoveAll of the directory on the coordinator: no error if there is none.
RemoveCoordinatorDir(p) ==
  /\ proc[p].pc = "coordinator"
  /\ \/ /\ coordDir' = IF proc[p].located THEN coordDir \ {proc[p].cur}
                       ELSE coordDir
        /\ Goto(p, "finish")
     \/ Ignorable(p, "finish") /\ UNCHANGED coordDir
  /\ UNCHANGED <<db, segDir, object>>

\* Wrong: an error of the last UPDATE is logged and the command goes on.
MarkDeletedMutant(p) ==
  /\ proc[p].pc = "finish"
  /\ LET label == IF proc[p].cur = proc[p].name THEN "next" ELSE "cascade"
     IN  SetStatus(p, "date", label) \/ DBError(p, label)

\* The deletion date; then the loop that called the deleter goes on.
MarkDeleted(p) ==
  /\ proc[p].pc = "finish"
  /\ \/ SetStatus(p, "date", IF proc[p].cur = proc[p].name THEN "next"
                             ELSE "cascade")
     \/ DBError(p, "exit1")

\* kill -9, a reboot, an ssh session of the administrator that is lost.
Crash(p) ==
  /\ MayCrash /\ Active(p)
  /\ Goto(p, "killed")
  /\ UNCHANGED <<db, storage>>
-----------------------------------------------------------------------------
Step(p) ==
  \/ NoMoreNames(p) \/ ConsiderName(p) \/ QueryDependencies(p)
  \/ ConsiderDependent(p) \/ EndCascade(p) \/ MarkInProgress(p)
  \/ RecordFailure(p) \/ RunPlugin(p) \/ LocatePlugin(p) \/ LocateLocal(p)
  \/ ReadSegments(p) \/ CheckSegment(p) \/ AcceptSegments(p)
  \/ RefuseSegments(p) \/ RemoveSegment(p) \/ FailSegment(p) \/ Die(p)
  \/ EndSegments(p) \/ RemoveCoordinatorDir(p) \/ MarkDeleted(p)

\* A command line need not be given at all; once all have ended nothing is left.
Terminated == (\A p \in Proc : proc[p].pc \in Ended) /\ UNCHANGED vars

Next == (\E p \in Proc : Start(p) \/ StartFails(p) \/ Step(p) \/ Crash(p))
          \/ Terminated

Spec == Init /\ [][Next]_vars

\* The operating system runs a process that can run, and every external call
\* (ssh, the plugin, SQLite) returns.
FairSpec == Spec /\ \A p \in Proc : WF_vars(Step(p))
-----------------------------------------------------------------------------
(* Properties *)

ProcState ==
  [pc : Running \cup Ended \cup {"idle"}, cmd : Command, todo : Seq(Backup),
   name : Backup \cup {0}, deps : Seq(Backup), cur : Backup \cup {0},
   seen : SUBSET SegDir, located : BOOLEAN, strayed : BOOLEAN,
   doomed : BOOLEAN,
   after : {"exit1", "locate", "coordinator", "finish"}]

\* Type correctness of the tables, the storage and the locals of
\* backupDeleteDB, its cascade and the two deleters.
TypeOK ==
  /\ DOMAIN backups \subseteq Backup
  /\ \A t \in DOMAIN backups : backups[t] \in Row
  /\ restorePlans \subseteq Backup \X Backup
  /\ coordDir \subseteq Backup
  /\ segDir \subseteq Backup \X SegDir
  /\ object \subseteq Backup
  /\ proc \in [Proc -> ProcState]

\* Everything of backup b is in storage.
Whole(b) ==
  /\ b \in coordDir
  /\ SegDirOf(b, backups[b]) \subseteq segDir
  /\ ~IsLocal(backups[b]) => b \in object

\* No process has looked for a backup where it is not.
NoneStrayed == \A p \in Proc : ~proc[p].strayed

\* Nothing of backup b is in storage.  A deleter that strayed notices it on the
\* segments only: it can miss the directory on the coordinator of a backup that
\* has none there.
Gone(b) ==
  /\ SegDirOf(b, backups[b]) \cap segDir = {}
  /\ b \notin object
  /\ Segments(backups[b]) # {} \/ NoneStrayed => b \notin coordDir

\* No error on the way to a date is lost: none is ignored on demand, and no
\* goroutine is panicking.
NoErrorLost == \A p \in Proc : ~proc[p].cmd.ignoreErrors /\ ~proc[p].doomed

\* A row with a deletion date has no data left: whatever order the steps of the
\* deleters, their errors and kills come in, the date is written last.  Only
\* --ignore-errors or a panic may leave data behind a date and, of a
\* metadata-only backup or one on a plugin, a search that found another directory
\* than the backup's: removing what is not there is no error.  A local backup with
\* data is protected from that by the check on its segments.
DeletedMeansGone ==
  \A b \in DOMAIN backups :
    backups[b].dateDeleted = "date" /\ NoErrorLost => Gone(b)

\* A row with no deletion status has all its data, so it can be restored: the
\* mark "In progress" is in the database before anything is removed, and no
\* error, kill or second process ever takes the row back to "".
ActiveMeansWhole ==
  \A b \in DOMAIN backups :
    backups[b].dateDeleted = DateDeletedActive => Whole(b)

\* "In progress" is the work of a process that is deleting the backup now or was
\* killed while it did; or, where statements may fail, of one that failed: every
\* other exit of the deleters replaces the mark, so that no backup is left that
\* only --force can delete.
InProgressHasOwner ==
  \A b \in DOMAIN backups :
    backups[b].dateDeleted = DateDeletedInProgress =>
      \E p \in Proc : /\ proc[p].cur = b
                      /\ proc[p].pc \in Deleting \cup {"killed"}
                           \cup (IF DBFaults THEN {"exit1"} ELSE {})

\* checkBackupCanBeUsed skips b, asked for without --force.
Skipped(b) ==
  CheckBackupCanBeUsed(FALSE, ~IsLocal(backups[b]), backups[b]) = "skip"

\* A backup is deleted after its dependents: a row that got its date without
\* --force leaves no row that needs it and that checkBackupCanBeUsed still
\* takes, a failed deletion of a dependent included (the comment at
\* cmd/backup_delete.go:258).  Commands one at a time.
DependentsFirst ==
  \A b \in DOMAIN backups :
    /\ backups[b].dateDeleted = "date"
    /\ \A p \in Proc : ~proc[p].cmd.force
    => \A t \in Dependents(b, restorePlans) \cap DOMAIN backups : Skipped(t)

\* Without --force a deleted backup is never deleted again, directly, by a
\* cascade or by a name given twice: its date stays.  Commands one at a time.
DeletedOnce ==
  [][\A b \in DOMAIN backups :
       /\ backups[b].dateDeleted = "date"
       /\ \A p \in Proc : Active(p) => ~proc[p].cmd.force
       => backups'[b].dateDeleted = "date"]_vars

\* What is read of the rows by other commands: deletions, one at a time, take
\* table backups through the statuses of DeletionStatus and no others.
Status == INSTANCE DeletionStatus
            WITH forced <- \E p \in Proc : Active(p) /\ proc[p].cmd.force
ImplementsDeletionStatus == Status!Spec

\* Every command that is given ends, whatever fails on the way.
Termination == \A p \in Proc : Active(p) ~> proc[p].pc \in Ended
-----------------------------------------------------------------------------
(* The inductive invariant of the proofs in BackupDelete_proofs *)

\* proc and backups are made of records of the right form.
FormInv ==
  /\ proc = [p \in Proc |-> proc[p]]
  /\ \A p \in Proc :
       DOMAIN proc[p] = {"pc", "cmd", "todo", "name", "deps", "cur", "seen",
                         "located", "strayed", "doomed", "after"}
  /\ \A p \in Proc : proc[p].cmd.plugin \in BOOLEAN
  /\ backups = [t \in DOMAIN backups |-> backups[t]]
  /\ \A t \in DOMAIN backups : backups[t] \in Row

\* A backup that checkBackupCanBeUsed has let through for process p.
Picked(p, b) == b \in DOMAIN backups
                  /\ ~LocalStatusIsError(proc[p].cmd.plugin, backups[b])

PickedInv(p) ==
  /\ proc[p].pc \in Deleting \cup {"dependencies", "cascade", "begin"}
       => Picked(p, proc[p].name)
  /\ proc[p].pc \in Deleting \cup {"begin"} => Picked(p, proc[p].cur)
  /\ proc[p].pc \in {"segments", "checking", "removing"}
       => ~proc[p].cmd.plugin
  /\ proc[p].pc = "recordFailure"
       => /\ proc[p].after \in {"exit1", "locate", "coordinator", "finish"}
          /\ proc[p].after = "exit1" \/ proc[p].cmd.ignoreErrors

\* The mark is in the database as long as a deleter works.
MarkInv(p) ==
  proc[p].pc \in Deleting
    => backups[proc[p].cur].dateDeleted # DateDeletedActive

\* What a deleter that has met no error has found and removed so far.
RemovedInv(p) ==
  NoErrorLost =>
    /\ proc[p].pc \in {"coordinator", "finish"} => proc[p].located \/ proc[p].strayed
    /\ proc[p].pc = "checking" /\ proc[p].seen # {} => proc[p].located
    /\ proc[p].pc = "removing" =>
         /\ proc[p].located
         /\ \A d \in proc[p].seen : <<proc[p].cur, d>> \notin segDir
    /\ proc[p].pc \in {"coordinator", "finish"} =>
         /\ SegDirOf(proc[p].cur, backups[proc[p].cur]) \cap segDir = {}
         /\ Segments(backups[proc[p].cur]) # {} => proc[p].located
    /\ proc[p].cmd.plugin /\ proc[p].pc \in {"locate", "coordinator", "finish"}
         => proc[p].cur \notin object
    /\ proc[p].pc = "finish" /\ proc[p].located => proc[p].cur \notin coordDir

\* A plugin's storage has objects of its own backups only.
ObjectInv == \A b \in DOMAIN backups : b \in object => ~IsLocal(backups[b])

ProcInv(p) == PickedInv(p) /\ MarkInv(p) /\ RemovedInv(p)

IInv == /\ FormInv /\ ObjectInv /\ ActiveMeansWhole /\ DeletedMeansGone
        /\ \A p \in Proc : ProcInv(p)
-----------------------------------------------------------------------------
(* Commands one at a time: the invariants of BackupDeleteSequential_proofs *)

OneActive == \A p, q \in Proc : Active(p) /\ Active(q) => p = q

\* From the verdict on a backup to the mark, and from the mark to the date, no
\* other command comes between.
StatusInv(p) ==
  LET state == proc[p] IN
  /\ \/ state.pc \in {"dependencies", "cascade"}
     \/ state.pc \in Deleting \cup {"begin"} /\ state.cur # state.name
     => Verdict(p, state.name) = "use"
  /\ state.pc = "begin" => Verdict(p, state.cur) = "use"
  /\ state.pc \in Deleting => backups[state.cur].dateDeleted \in
       {DateDeletedInProgress, DateDeletedPluginFailed, DateDeletedLocalFailed}

\* A backup with a date depends on b.
Outlived(b) == \E u \in DOMAIN backups : /\ backups[u].dateDeleted = "date"
                                         /\ b \in Dependents(u, restorePlans)

\* The cascade goes from the newest dependent to the oldest: those before cur are
\* dealt with, and those of cur are among them.
CascadeInv(p) ==
  LET state == proc[p]
      needing == Dependents(state.name, restorePlans)
  IN
  /\ state.pc \in Deleting \cup {"dependencies", "cascade", "begin"}
       => ~Outlived(state.name)
  /\ state.pc \in Deleting \cup {"begin"} =>
       /\ ~Outlived(state.cur)
       /\ \/ state.cur = state.name /\ state.deps = <<>>
          \/ /\ state.cur \in needing
             /\ \A k \in DOMAIN state.deps : state.deps[k] < state.cur
  /\ state.pc \in Deleting \cup {"cascade", "begin"} =>
       /\ \A k \in DOMAIN state.deps : state.deps[k] \in needing
       /\ \A j, k \in DOMAIN state.deps :
            j < k => state.deps[j] > state.deps[k]
       /\ \A t \in needing \cap DOMAIN backups :
            \/ Skipped(t)
            \/ \E k \in DOMAIN state.deps : state.deps[k] = t
            \/ state.pc # "cascade" /\ t = state.cur

NoForce == \A p \in Proc : ~proc[p].cmd.force

SequentialInv == OneActive /\ \A p \in Proc : StatusInv(p)
OrderInv == DependentsFirst /\ (NoForce => \A p \in Proc : CascadeInv(p))

\* gpbackup's plan of an incremental names the whole chain behind it, also the
\* backups that it needs no table of (e2e_tests/src_data/
\* gpbackup_history_incremental_plugin.yaml), and no later one.
PlansClosed(plans) ==
  /\ \A plan \in plans : plan[2] <= plan[1]
  /\ \A p, q \in plans : p[2] = q[1] => <<p[1], q[2]>> \in plans
=============================================================================
