------------------------ MODULE BackupDelete_proofs ------------------------
(***************************************************************************)
(* Proofs about BackupDelete, for any number of processes and backups, any *)
(* command lines, any contents of the database, with or without            *)
(* overlapping commands, statements that fail and kills.                   *)
(***************************************************************************)
EXTENDS BackupDelete, HistoryDB_proofs

\* UPDATE changes the deletion status of one row and no other column.
LEMMA UpdateKeeps ==
  ASSUME FormInv, NEW b, NEW d \in DateDeleted,
         backups' = UpdateDeleteStatus(b, d, backups)
  PROVE  /\ DOMAIN backups' = DOMAIN backups
         /\ backups' = [t \in DOMAIN backups' |-> backups'[t]]
         /\ \A t \in DOMAIN backups :
              /\ backups'[t] \in Row
              /\ backups'[t].plugin = backups[t].plugin
              /\ Segments(backups'[t]) = Segments(backups[t])
              /\ SegDirOf(t, backups'[t]) = SegDirOf(t, backups[t])
              /\ backups'[t].dateDeleted =
                   IF t = b THEN d ELSE backups[t].dateDeleted
<1>1. /\ DOMAIN backups' = DOMAIN backups
      /\ backups' = [t \in DOMAIN backups' |-> backups'[t]]
  BY DEF UpdateDeleteStatus
<1>2. ASSUME NEW t \in DOMAIN backups
      PROVE  /\ backups'[t] \in Row
             /\ backups'[t].plugin = backups[t].plugin
             /\ backups'[t].incremental = backups[t].incremental
             /\ backups'[t].dataOnly = backups[t].dataOnly
             /\ backups'[t].metadataOnly = backups[t].metadataOnly
             /\ backups'[t].dateDeleted =
                  IF t = b THEN d ELSE backups[t].dateDeleted
  BY DEF UpdateDeleteStatus, FormInv, Row
<1>3. ASSUME NEW t \in DOMAIN backups
      PROVE  /\ Segments(backups'[t]) = Segments(backups[t])
             /\ SegDirOf(t, backups'[t]) = SegDirOf(t, backups[t])
  BY <1>2 DEF IsLocal, SegDirOf, Segments, GetBackupType
<1> QED
  BY <1>1, <1>2, <1>3

\* A step of p leaves the other processes and its own command line alone.
Moved(p) ==
  /\ proc' = [q \in Proc |-> proc'[q]]
  /\ \A q \in Proc \ {p} : proc'[q] = proc[q]
  /\ DOMAIN proc'[p] = DOMAIN proc[p]
  /\ proc'[p].cmd = proc[p].cmd
  /\ proc[p].doomed => proc'[p].doomed
  /\ proc[p].strayed => proc'[p].strayed

\* The rows keep what the deleters look at, and none becomes active.
RowsKept ==
  /\ DOMAIN backups' = DOMAIN backups
  /\ backups' = [t \in DOMAIN backups' |-> backups'[t]]
  /\ \A t \in DOMAIN backups :
       /\ backups'[t] \in Row
       /\ backups'[t].plugin = backups[t].plugin
       /\ Segments(backups'[t]) = Segments(backups[t])
       /\ SegDirOf(t, backups'[t]) = SegDirOf(t, backups[t])
       /\ backups'[t].dateDeleted = DateDeletedActive
            => backups[t].dateDeleted = DateDeletedActive

\* Every step only takes away from storage, and a step that is right for its own
\* process and for the row it changes keeps the invariant.
LEMMA StepKeeps ==
  ASSUME IInv, NEW p \in Proc, Moved(p), RowsKept, ProcInv(p)',
         coordDir' \subseteq coordDir, segDir' \subseteq segDir,
         object' \subseteq object,
         \A b \in DOMAIN backups :
           /\ backups'[b].dateDeleted = DateDeletedActive /\ Whole(b)
                => Whole(b)'
           /\ backups'[b].dateDeleted = "date" /\ NoErrorLost
                => backups[b].dateDeleted = "date" \/ Gone(b)
  PROVE  IInv'
<1>1. FormInv'
  BY DEF IInv, FormInv, Moved, RowsKept
<1>2. \A q \in Proc : /\ proc'[q].cmd = proc[q].cmd
                      /\ proc[q].doomed => proc'[q].doomed
  BY DEF Moved
<1>3. /\ NoErrorLost' => NoErrorLost
      /\ NoneStrayed' => NoneStrayed
  BY <1>2 DEF NoErrorLost, NoneStrayed, Moved
<1>4. ObjectInv'
  BY DEF IInv, ObjectInv, RowsKept, IsLocal
<1>5. ActiveMeansWhole'
  BY DEF IInv, ActiveMeansWhole, RowsKept
<1>6. DeletedMeansGone'
  <2>1. SUFFICES ASSUME NoErrorLost, NEW b \in DOMAIN backups,
                        backups'[b].dateDeleted = "date"
                 PROVE  Gone(b)'
    BY <1>3 DEF DeletedMeansGone, NoErrorLost, RowsKept
  <2>2. Gone(b)
    BY <2>1 DEF IInv, DeletedMeansGone, NoErrorLost
  <2> QED
    BY <1>3, <2>1, <2>2 DEF Gone, RowsKept
<1>7. ASSUME NEW q \in Proc \ {p} PROVE ProcInv(q)'
  <2>1. proc'[q] = proc[q] /\ ProcInv(q)
    BY DEF IInv, Moved
  <2>2. PickedInv(q)'
    <3>1. ASSUME NEW b \in DOMAIN backups, Picked(q, b)
          PROVE  /\ b \in DOMAIN backups'
                 /\ ~LocalStatusIsError(proc'[q].cmd.plugin, backups'[b])
      BY <2>1, <3>1 DEF Picked, RowsKept, LocalStatusIsError, IsLocal
    <3> QED
      BY <2>1, <3>1 DEF ProcInv, PickedInv, Picked
  <2>3. MarkInv(q)'
    BY <2>1 DEF ProcInv, MarkInv, PickedInv, Picked, RowsKept
  <2>4. RemovedInv(q)'
    BY <1>3, <2>1 DEF ProcInv, RemovedInv, PickedInv, Picked, RowsKept,
                      Deleting
  <2> QED
    BY <2>2, <2>3, <2>4 DEF ProcInv
<1> QED
  BY <1>1, <1>4, <1>5, <1>6, <1>7 DEF IInv

\* A step that changes only the process.
LEMMA ControlKeeps ==
  ASSUME IInv, NEW p \in Proc, Moved(p), ProcInv(p)', UNCHANGED <<db, storage>>
  PROVE  IInv'
<1>1. RowsKept
  BY DEF IInv, FormInv, RowsKept, db
<1>2. \A b \in DOMAIN backups :
        /\ backups'[b].dateDeleted = DateDeletedActive /\ Whole(b) => Whole(b)'
        /\ backups'[b].dateDeleted = "date" /\ NoErrorLost
             => backups[b].dateDeleted = "date" \/ Gone(b)
  BY DEF Whole, db, storage
<1> QED
  BY <1>1, <1>2, StepKeeps DEF storage

\* A process that has ended, or is between two names, owes nothing.
LEMMA IdleKeeps ==
  ASSUME IInv, NEW p \in Proc, Moved(p), UNCHANGED <<db, storage>>,
         proc'[p].pc \in Ended \cup {"next"}
  PROVE  IInv'
<1>1. PickedInv(p)' /\ MarkInv(p)' /\ RemovedInv(p)'
  BY DEF PickedInv, MarkInv, RemovedInv, Deleting, Ended
<1> QED
  BY <1>1, ControlKeeps DEF ProcInv

\* A command starts.
LEMMA StartIInv ==
  ASSUME IInv, NEW p \in Proc, Start(p)
  PROVE  IInv'
<1>1. FormInv
  BY DEF IInv
<1>2. /\ Moved(p) /\ UNCHANGED <<db, storage>>
      /\ proc'[p].pc \in Ended \cup {"next"}
  BY <1>1 DEF FormInv, Moved, Ended, Start
<1> QED
  BY <1>2, IdleKeeps

\* The list of names cannot be read.
LEMMA StartFailsIInv ==
  ASSUME IInv, NEW p \in Proc, StartFails(p)
  PROVE  IInv'
<1>1. FormInv
  BY DEF IInv
<1>2. /\ Moved(p) /\ UNCHANGED <<db, storage>>
      /\ proc'[p].pc \in Ended \cup {"next"}
  BY <1>1 DEF FormInv, Moved, Ended, StartFails, DBError, Goto
<1> QED
  BY <1>2, IdleKeeps

\* The list of names is done.
LEMMA NoMoreNamesIInv ==
  ASSUME IInv, NEW p \in Proc, NoMoreNames(p)
  PROVE  IInv'
<1>1. FormInv
  BY DEF IInv
<1>2. /\ Moved(p) /\ UNCHANGED <<db, storage>>
      /\ proc'[p].pc \in Ended \cup {"next"}
  BY <1>1 DEF FormInv, Moved, Ended, NoMoreNames, Goto
<1> QED
  BY <1>2, IdleKeeps

\* A panic ends the process, sooner or later.
LEMMA DieIInv ==
  ASSUME IInv, NEW p \in Proc, Die(p)
  PROVE  IInv'
<1>1. FormInv
  BY DEF IInv
<1>2. /\ Moved(p) /\ UNCHANGED <<db, storage>>
      /\ proc'[p].pc \in Ended \cup {"next"}
  BY <1>1 DEF FormInv, Moved, Ended, Die, Goto
<1> QED
  BY <1>2, IdleKeeps

\* A panic loses an error: no more is claimed of what has been removed.
LEMMA FailSegmentIInv ==
  ASSUME IInv, NEW p \in Proc, FailSegment(p)
  PROVE  IInv'
<1>1. FormInv /\ PickedInv(p) /\ MarkInv(p)
  BY DEF IInv, ProcInv
<1>2. UNCHANGED <<db, storage>>
  BY DEF FailSegment
<1>3. /\ Moved(p)
      /\ proc'[p].cur = proc[p].cur /\ proc'[p].name = proc[p].name
      /\ proc'[p].pc = proc[p].pc /\ proc'[p].located = proc[p].located
      /\ proc'[p].after = proc[p].after /\ proc'[p].doomed
  <2>1. PICK d \in SegDir \ proc[p].seen :
          proc' = [proc EXCEPT ![p].seen = @ \cup {d}, ![p].doomed = TRUE]
    BY DEF FailSegment
  <2> QED
    BY <1>1, <2>1 DEF FormInv, Moved
<1>4. PickedInv(p)'
  <2>1. backups' = backups /\ proc'[p].cmd = proc[p].cmd
    BY <1>2, <1>3 DEF Moved, db
  <2> QED
    BY <1>1, <1>3, <2>1 DEF PickedInv, Picked
<1>5. RemovedInv(p)'
  BY <1>3 DEF RemovedInv, NoErrorLost
<1>6. MarkInv(p)'
  BY <1>1, <1>2, <1>3 DEF MarkInv, db
<1>7. ProcInv(p)'
  BY <1>4, <1>5, <1>6 DEF ProcInv
<1> QED
  BY <1>2, <1>3, <1>7, ControlKeeps

\* So does a kill.
LEMMA CrashIInv ==
  ASSUME IInv, NEW p \in Proc, Crash(p)
  PROVE  IInv'
<1>1. FormInv
  BY DEF IInv
<1>2. /\ Moved(p) /\ UNCHANGED <<db, storage>>
      /\ proc'[p].pc \in Ended \cup {"next"}
  BY <1>1 DEF FormInv, Moved, Ended, Crash, Goto
<1> QED
  BY <1>2, IdleKeeps

\* The dependents are those of a backup that was let through.
LEMMA QueryDependenciesIInv ==
  ASSUME IInv, NEW p \in Proc, QueryDependencies(p)
  PROVE  IInv'
<1>1. FormInv /\ PickedInv(p) /\ MarkInv(p) /\ RemovedInv(p)
  BY DEF IInv, ProcInv
<1>2. UNCHANGED <<db, storage>>
  BY DEF QueryDependencies, DBError
<1>3. Moved(p)
  BY <1>1 DEF FormInv, Moved, QueryDependencies, DBError, Goto
<1>4. PickedInv(p)'
  BY <1>1, <1>2 DEF FormInv, PickedInv, Picked, Deleting, db,
                    QueryDependencies, DBError, Goto
<1>5. MarkInv(p)'
  BY <1>1, <1>2 DEF FormInv, MarkInv, Deleting, db,
                    QueryDependencies, DBError, Goto
<1>6. RemovedInv(p)'
  BY <1>1 DEF FormInv, RemovedInv, QueryDependencies, DBError, Goto
<1> QED
  BY <1>2, <1>3, <1>4, <1>5, <1>6, ControlKeeps DEF ProcInv

\* The backup whose dependents are done was let through before them.
LEMMA EndCascadeIInv ==
  ASSUME IInv, NEW p \in Proc, EndCascade(p)
  PROVE  IInv'
<1>1. FormInv /\ PickedInv(p) /\ MarkInv(p) /\ RemovedInv(p)
  BY DEF IInv, ProcInv
<1>2. UNCHANGED <<db, storage>>
  BY DEF EndCascade
<1>3. Moved(p)
  BY <1>1 DEF FormInv, Moved, EndCascade
<1>4. PickedInv(p)'
  BY <1>1, <1>2 DEF FormInv, PickedInv, Picked, Deleting, db, EndCascade
<1>5. MarkInv(p)'
  BY <1>1, <1>2 DEF FormInv, MarkInv, Deleting, db, EndCascade
<1>6. RemovedInv(p)'
  BY <1>1 DEF FormInv, RemovedInv, EndCascade
<1> QED
  BY <1>2, <1>3, <1>4, <1>5, <1>6, ControlKeeps DEF ProcInv

\* A check changes no more than what has been checked.
LEMMA CheckSegmentIInv ==
  ASSUME IInv, NEW p \in Proc, CheckSegment(p)
  PROVE  IInv'
<1>1. FormInv /\ PickedInv(p) /\ MarkInv(p) /\ RemovedInv(p)
  BY DEF IInv, ProcInv
<1>2. UNCHANGED <<db, storage>>
  BY DEF CheckSegment
<1>3. Moved(p)
  BY <1>1 DEF FormInv, Moved, CheckSegment
<1>4. PickedInv(p)'
  BY <1>1, <1>2 DEF FormInv, PickedInv, Picked, Deleting, db, CheckSegment
<1>5. MarkInv(p)'
  BY <1>1, <1>2 DEF FormInv, MarkInv, Deleting, db, CheckSegment
<1>6. RemovedInv(p)'
  BY <1>1 DEF FormInv, RemovedInv, CheckSegment
<1> QED
  BY <1>2, <1>3, <1>4, <1>5, <1>6, ControlKeeps DEF ProcInv

\* checkBackupCanBeUsed lets through a backup of the command's kind of storage.
LEMMA VerdictPicks ==
  ASSUME NEW p \in Proc, NEW b
  PROVE  /\ Verdict(p, b) \in {"use", "skip", "error"}
         /\ Verdict(p, b) = "use" => Picked(p, b)
  BY DEF Verdict, CheckBackupCanBeUsed, Picked

\* Where the files of a backup on the segments are; plugin and metadata-only
\* backups have none.
LEMMA SegDirOfIn ==
  ASSUME NEW b, NEW row
  PROVE  /\ SegDirOf(b, row) \subseteq {b} \X SegDir
         /\ ~IsLocal(row) \/ GetBackupType(row) = "metadata-only"
              => Segments(row) = {} /\ SegDirOf(b, row) = {}
  BY DEF SegDirOf, Segments

\* A name that is let through is the name picked.
LEMMA ConsiderNameIInv ==
  ASSUME IInv, NEW p \in Proc, ConsiderName(p)
  PROVE  IInv'
<1>0. FormInv /\ PickedInv(p) /\ MarkInv(p) /\ RemovedInv(p)
  BY DEF IInv, ProcInv
<1>1. UNCHANGED <<db, storage>>
  BY DEF ConsiderName, DBError
<1>2. Moved(p)
  BY <1>0 DEF FormInv, Moved, ConsiderName, DBError, Goto
<1> DEFINE b == Head(proc[p].todo)
<1>3. CASE proc'[p].pc = "dependencies" /\ proc'[p].name = b /\ Picked(p, b)
  <2>1. PickedInv(p)' /\ MarkInv(p)' /\ RemovedInv(p)'
    BY <1>1, <1>2, <1>3 DEF PickedInv, Picked, MarkInv, RemovedInv, Deleting,
                            Moved, db
  <2> QED
    BY <1>1, <1>2, <2>1, ControlKeeps DEF ProcInv
<1>4. CASE proc'[p].pc \in {"next", "exit1"}
  <2>1. PickedInv(p)' /\ MarkInv(p)' /\ RemovedInv(p)'
    BY <1>4, <1>2 DEF PickedInv, MarkInv, RemovedInv, Deleting, Moved
  <2> QED
    BY <1>1, <1>2, <2>1, ControlKeeps DEF ProcInv
<1>5. CASE proc' = [proc EXCEPT
                  ![p].pc = [use |-> "dependencies", skip |-> "next",
                             error |-> "exit1"][Verdict(p, b)],
                  ![p].name = b, ![p].todo = Tail(@)]
  BY <1>0, <1>3, <1>4, <1>5, VerdictPicks DEF FormInv
<1>6. CASE DBError(p, "exit1")
  BY <1>0, <1>4, <1>6 DEF DBError, Goto, FormInv
<1> QED
  BY <1>5, <1>6 DEF ConsiderName

\* A dependent that is let through is the backup to delete.
LEMMA ConsiderDependentIInv ==
  ASSUME IInv, NEW p \in Proc, ConsiderDependent(p)
  PROVE  IInv'
<1>0. FormInv /\ PickedInv(p) /\ MarkInv(p) /\ RemovedInv(p)
  BY DEF IInv, ProcInv
<1>1. UNCHANGED <<db, storage>>
  BY DEF ConsiderDependent, DBError
<1>2. Moved(p) /\ proc'[p].name = proc[p].name
  BY <1>0 DEF FormInv, Moved, ConsiderDependent, DBError, Goto
<1>3. Picked(p, proc[p].name)
  BY <1>0 DEF PickedInv, ConsiderDependent
<1> DEFINE b == Head(proc[p].deps)
<1>4. CASE proc'[p].pc = "begin" /\ proc'[p].cur = b /\ Picked(p, b)
  <2>1. PickedInv(p)' /\ MarkInv(p)' /\ RemovedInv(p)'
    BY <1>1, <1>2, <1>3, <1>4 DEF PickedInv, Picked, MarkInv, RemovedInv,
                                  Deleting, Moved, db
  <2> QED
    BY <1>1, <1>2, <2>1, ControlKeeps DEF ProcInv
<1>5. CASE proc'[p].pc \in {"cascade", "exit1"}
  <2>1. PickedInv(p)' /\ MarkInv(p)' /\ RemovedInv(p)'
    BY <1>1, <1>2, <1>3, <1>5 DEF PickedInv, Picked, MarkInv, RemovedInv,
                                  Deleting, Moved, db
  <2> QED
    BY <1>1, <1>2, <2>1, ControlKeeps DEF ProcInv
<1>6. CASE proc' = [proc EXCEPT
                  ![p].pc = [use |-> "begin", skip |-> "cascade",
                             error |-> "exit1"][Verdict(p, b)],
                  ![p].cur = b, ![p].deps = Tail(@)]
  BY <1>0, <1>4, <1>5, <1>6, VerdictPicks DEF FormInv
<1>7. CASE DBError(p, "exit1")
  BY <1>0, <1>5, <1>7 DEF DBError, Goto, FormInv
<1> QED
  BY <1>6, <1>7 DEF ConsiderDependent

\* An error on the way: handleErrorDB comes next, and then the process ends or,
\* with --ignore-errors, goes on.
LEMMA IgnorableMoves ==
  ASSUME FormInv, NEW p \in Proc, PickedInv(p), MarkInv(p), UNCHANGED db,
         proc[p].pc \in Deleting,
         NEW label \in {"locate", "coordinator", "finish"},
         Ignorable(p, label)
  PROVE  Moved(p) /\ ProcInv(p)'
<1>1. /\ Picked(p, proc[p].cur) /\ Picked(p, proc[p].name)
      /\ backups[proc[p].cur].dateDeleted # DateDeletedActive
  BY DEF PickedInv, MarkInv, Deleting
<1>2. /\ Moved(p)
      /\ proc'[p].cur = proc[p].cur /\ proc'[p].name = proc[p].name
      /\ proc'[p].pc = "recordFailure"
      /\ proc'[p].after = IF proc[p].cmd.ignoreErrors THEN label ELSE "exit1"
  BY DEF FormInv, Moved, Ignorable, Fail
<1>3. PickedInv(p)' /\ MarkInv(p)' /\ RemovedInv(p)'
  BY <1>1, <1>2 DEF PickedInv, Picked, MarkInv, RemovedInv, Moved, db
<1> QED
  BY <1>2, <1>3 DEF ProcInv

\* A step of a deleter that takes away data of the backup it deletes.
LEMMA StorageKeeps ==
  ASSUME IInv, NEW p \in Proc, Moved(p), ProcInv(p)', UNCHANGED db,
         proc[p].pc \in Deleting,
         coordDir' \subseteq coordDir, segDir' \subseteq segDir,
         object' \subseteq object,
         coordDir \ coordDir' \subseteq {proc[p].cur},
         segDir \ segDir' \subseteq {proc[p].cur} \X SegDir,
         object \ object' \subseteq {proc[p].cur}
  PROVE  IInv'
<1>1. RowsKept
  BY DEF IInv, FormInv, RowsKept, db
<1>2. backups[proc[p].cur].dateDeleted # DateDeletedActive
  BY DEF IInv, ProcInv, MarkInv
<1>3. ASSUME NEW b \in DOMAIN backups,
             backups'[b].dateDeleted = DateDeletedActive, Whole(b)
      PROVE  Whole(b)'
  <2>1. b # proc[p].cur
    BY <1>2, <1>3 DEF db
  <2>2. SegDirOf(b, backups[b]) \subseteq {b} \X SegDir
    BY SegDirOfIn
  <2> QED
    BY <1>3, <2>1, <2>2 DEF Whole, db
<1> QED
  BY <1>1, <1>3, StepKeeps DEF db

\* UpdateDeleteStatus by a deleter, and what it leaves alone.
LEMMA StatusMoves ==
  ASSUME FormInv, NEW p \in Proc, NEW d \in DateDeleted \ {DateDeletedActive},
         NEW label, SetStatus(p, d, label)
  PROVE  /\ Moved(p) /\ RowsKept
         /\ proc'[p].cur = proc[p].cur /\ proc'[p].name = proc[p].name
         /\ proc'[p].pc = label
         /\ \A t \in DOMAIN backups :
              backups'[t].dateDeleted =
                IF t = proc[p].cur THEN d ELSE backups[t].dateDeleted
<1>1. backups' = UpdateDeleteStatus(proc[p].cur, d, backups)
  BY DEF SetStatus
<1>2. Moved(p) /\ proc'[p].cur = proc[p].cur /\ proc'[p].name = proc[p].name
        /\ proc'[p].pc = label
  BY DEF SetStatus, Goto, FormInv, Moved
<1> QED
  BY <1>1, <1>2, UpdateKeeps DEF RowsKept

\* A status may replace another, and a date when nothing is left.
LEMMA StatusKeeps ==
  ASSUME IInv, NEW p \in Proc, NEW d \in DateDeleted \ {DateDeletedActive},
         NEW label, SetStatus(p, d, label), ProcInv(p)',
         d = "date" /\ NoErrorLost => Gone(proc[p].cur)
  PROVE  IInv'
<1>1. FormInv
  BY DEF IInv
<1>2. UNCHANGED storage
  BY DEF SetStatus
<1>3. \A b \in DOMAIN backups :
        /\ backups'[b].dateDeleted = DateDeletedActive /\ Whole(b) => Whole(b)'
        /\ backups'[b].dateDeleted = "date" /\ NoErrorLost
             => backups[b].dateDeleted = "date" \/ Gone(b)
  <2>1. RowsKept /\ \A t \in DOMAIN backups :
                      backups'[t].dateDeleted =
                        IF t = proc[p].cur THEN d ELSE backups[t].dateDeleted
    BY <1>1, StatusMoves
  <2> TAKE b \in DOMAIN backups
  <2>2. Whole(b) => Whole(b)'
    BY <1>2, <2>1 DEF RowsKept, Whole, IsLocal, storage
  <2> QED
    BY <2>1, <2>2
<1> QED
  BY <1>1, <1>2, <1>3, StatusMoves, StepKeeps DEF storage

\* The right directory or, and then the process has strayed, another.
LEMMA LocateMoves ==
  ASSUME FormInv, NEW p \in Proc, NEW label, Locate(p, label)
  PROVE  /\ Moved(p)
         /\ proc'[p].cur = proc[p].cur /\ proc'[p].name = proc[p].name
         /\ proc'[p].pc = label
         /\ proc'[p].located \/ proc'[p].strayed
<1>1. CASE proc' = [proc EXCEPT ![p].pc = label, ![p].located = TRUE]
  BY <1>1 DEF FormInv, Moved
<1>2. CASE proc' = [proc EXCEPT ![p].pc = label, ![p].located = FALSE,
                                ![p].strayed = TRUE]
  <2>1. proc'[p].strayed
    BY <1>2 DEF FormInv
  <2>2. /\ proc'[p].cur = proc[p].cur /\ proc'[p].name = proc[p].name
        /\ proc'[p].pc = label
        /\ proc'[p].cmd = proc[p].cmd
        /\ DOMAIN proc'[p] = DOMAIN proc[p]
        /\ proc' = [q \in Proc |-> proc'[q]]
        /\ \A q \in Proc \ {p} : proc'[q] = proc[q]
    BY <1>2 DEF FormInv
  <2>3. proc[p].doomed => proc'[p].doomed
    BY <1>2 DEF FormInv
  <2> QED
    BY <2>1, <2>2, <2>3 DEF Moved
<1> QED
  BY <1>1, <1>2 DEF Locate

\* A plugin backup has nothing on the segments, and its objects are gone.
LEMMA LocatePluginIInv ==
  ASSUME IInv, NEW p \in Proc, LocatePlugin(p)
  PROVE  IInv'
<1>0. FormInv /\ PickedInv(p) /\ MarkInv(p) /\ RemovedInv(p)
  BY DEF IInv, ProcInv
<1>1. UNCHANGED <<db, storage>>
  BY DEF LocatePlugin
<1>2. /\ Picked(p, proc[p].cur) /\ Picked(p, proc[p].name)
      /\ backups[proc[p].cur].dateDeleted # DateDeletedActive
      /\ proc[p].cmd.plugin
  BY <1>0 DEF PickedInv, MarkInv, LocatePlugin, Deleting
<1>3. /\ SegDirOf(proc[p].cur, backups[proc[p].cur]) = {}
      /\ Segments(backups[proc[p].cur]) = {}
  BY <1>0, <1>2, SegDirOfIn DEF FormInv, Picked, LocalStatusIsError, IsLocal
<1>4. NoErrorLost => proc[p].cur \notin object
  BY <1>0, <1>2 DEF RemovedInv, LocatePlugin
<1>5. CASE Locate(p, "coordinator")
  <2>1. /\ Moved(p)
        /\ proc'[p].cur = proc[p].cur /\ proc'[p].name = proc[p].name
        /\ proc'[p].pc = "coordinator"
        /\ proc'[p].located \/ proc'[p].strayed
    BY <1>0, <1>5, LocateMoves
  <2>2. PickedInv(p)' /\ MarkInv(p)'
    BY <1>1, <1>2, <2>1 DEF PickedInv, Picked, MarkInv, Moved, db
  <2>3. NoErrorLost' => NoErrorLost
    BY <2>1 DEF NoErrorLost, Moved
  <2>4. RemovedInv(p)'
    BY <1>1, <1>3, <1>4, <2>1, <2>3 DEF RemovedInv, db, storage
  <2> QED
    BY <1>1, <2>1, <2>2, <2>4, ControlKeeps DEF ProcInv
<1>6. ASSUME NEW found \in BOOLEAN,
             proc' = [proc EXCEPT ![p].pc = "recordFailure",
               ![p].after = IF proc[p].cmd.ignoreErrors THEN "coordinator"
                            ELSE "exit1",
               ![p].located = found]
      PROVE  IInv'
  <2>1. /\ Moved(p)
        /\ proc'[p].cur = proc[p].cur /\ proc'[p].name = proc[p].name
        /\ proc'[p].pc = "recordFailure"
        /\ proc'[p].after = IF proc[p].cmd.ignoreErrors THEN "coordinator"
                            ELSE "exit1"
    BY <1>0, <1>6 DEF FormInv, Moved
  <2>2. PickedInv(p)' /\ MarkInv(p)' /\ RemovedInv(p)'
    BY <1>1, <1>2, <2>1 DEF PickedInv, Picked, MarkInv, RemovedInv, Moved, db
  <2> QED
    BY <1>1, <2>1, <2>2, ControlKeeps DEF ProcInv
<1> QED
  BY <1>5, <1>6 DEF LocatePlugin

\* Only metadata-only backups skip the segments.
LEMMA LocateLocalIInv ==
  ASSUME IInv, NEW p \in Proc, LocateLocal(p)
  PROVE  IInv'
<1>0. FormInv /\ PickedInv(p) /\ MarkInv(p) /\ RemovedInv(p)
  BY DEF IInv, ProcInv
<1>1. UNCHANGED <<db, storage>>
  BY DEF LocateLocal
<1>2. /\ Picked(p, proc[p].cur) /\ Picked(p, proc[p].name)
      /\ backups[proc[p].cur].dateDeleted # DateDeletedActive
      /\ ~proc[p].cmd.plugin
  BY <1>0 DEF PickedInv, MarkInv, LocateLocal, Deleting
<1> DEFINE type == GetBackupType(backups[proc[p].cur])
<1>3. CASE Locate(p, IF type = "metadata-only" THEN "coordinator"
                     ELSE "segments")
  <2>1. /\ Moved(p)
        /\ proc'[p].cur = proc[p].cur /\ proc'[p].name = proc[p].name
        /\ proc'[p].located \/ proc'[p].strayed
        /\ \/ proc'[p].pc = "segments"
           \/ proc'[p].pc = "coordinator" /\ type = "metadata-only"
    BY <1>0, <1>3, LocateMoves
  <2>2. PickedInv(p)' /\ MarkInv(p)'
    BY <1>1, <1>2, <2>1 DEF PickedInv, Picked, MarkInv, Moved, db
  <2>3. type = "metadata-only"
          => /\ SegDirOf(proc[p].cur, backups[proc[p].cur]) = {}
             /\ Segments(backups[proc[p].cur]) = {}
    BY SegDirOfIn
  <2>4. RemovedInv(p)'
    BY <1>1, <1>2, <2>1, <2>3 DEF RemovedInv, Moved, db, storage
  <2> QED
    BY <1>1, <2>1, <2>2, <2>4, ControlKeeps DEF ProcInv
<1>4. CASE Fail(p, "exit1")
  <2>1. /\ Moved(p)
        /\ proc'[p].cur = proc[p].cur /\ proc'[p].name = proc[p].name
        /\ proc'[p].pc = "recordFailure" /\ proc'[p].after = "exit1"
    BY <1>0, <1>4 DEF FormInv, Moved, Fail
  <2>2. PickedInv(p)' /\ MarkInv(p)' /\ RemovedInv(p)'
    BY <1>1, <1>2, <2>1 DEF PickedInv, Picked, MarkInv, RemovedInv, Moved, db
  <2> QED
    BY <1>1, <2>1, <2>2, ControlKeeps DEF ProcInv
<1> QED
  BY <1>3, <1>4 DEF LocateLocal

\* Nothing is removed yet.
LEMMA ReadSegmentsIInv ==
  ASSUME IInv, NEW p \in Proc, ReadSegments(p)
  PROVE  IInv'
<1>0. FormInv /\ PickedInv(p) /\ MarkInv(p)
  BY DEF IInv, ProcInv
<1>1. UNCHANGED <<db, storage>>
  BY DEF ReadSegments
<1>2. /\ Picked(p, proc[p].cur) /\ Picked(p, proc[p].name)
      /\ backups[proc[p].cur].dateDeleted # DateDeletedActive
  BY <1>0 DEF PickedInv, MarkInv, ReadSegments, Deleting
<1>3. ~proc[p].cmd.plugin
  BY <1>0 DEF PickedInv, ReadSegments
<1>4. CASE proc' = [proc EXCEPT ![p].pc = "checking", ![p].seen = {}]
  <2>1. /\ Moved(p)
        /\ proc'[p].cur = proc[p].cur /\ proc'[p].name = proc[p].name
        /\ proc'[p].pc = "checking" /\ proc'[p].seen = {}
    BY <1>0, <1>4 DEF FormInv, Moved
  <2>2. PickedInv(p)' /\ MarkInv(p)' /\ RemovedInv(p)'
    BY <1>1, <1>2, <1>3, <2>1 DEF PickedInv, Picked, MarkInv, RemovedInv,
                                  Moved, db
  <2> QED
    BY <1>1, <2>1, <2>2, ControlKeeps DEF ProcInv
<1>5. CASE Ignorable(p, "coordinator")
  BY <1>0, <1>1, <1>5, IgnorableMoves, ControlKeeps DEF ReadSegments, Deleting
<1> QED
  BY <1>4, <1>5 DEF ReadSegments

\* Still nothing: `seen` starts again from empty.
LEMMA AcceptSegmentsIInv ==
  ASSUME IInv, NEW p \in Proc, AcceptSegments(p)
  PROVE  IInv'
<1>0. FormInv /\ PickedInv(p) /\ MarkInv(p) /\ RemovedInv(p)
  BY DEF IInv, ProcInv
<1>1. UNCHANGED <<db, storage>>
  BY DEF AcceptSegments
<1>2. /\ Picked(p, proc[p].cur) /\ Picked(p, proc[p].name)
      /\ backups[proc[p].cur].dateDeleted # DateDeletedActive
      /\ ~proc[p].cmd.plugin
  BY <1>0 DEF PickedInv, MarkInv, AcceptSegments, Deleting
<1>3. /\ Moved(p)
      /\ proc'[p].cur = proc[p].cur /\ proc'[p].name = proc[p].name
      /\ proc'[p].pc = "removing" /\ proc'[p].seen = {}
      /\ proc'[p].located = proc[p].located
  BY <1>0 DEF FormInv, Moved, AcceptSegments
<1>4. PickedInv(p)' /\ MarkInv(p)'
  BY <1>1, <1>2, <1>3 DEF PickedInv, Picked, MarkInv, Moved, db
<1>5. NoErrorLost => proc[p].located
  BY <1>0, DeleteAssumption DEF RemovedInv, AcceptSegments, NoErrorLost
<1>6. RemovedInv(p)'
  BY <1>2, <1>3, <1>5 DEF RemovedInv, NoErrorLost, Moved
<1> QED
  BY <1>1, <1>3, <1>4, <1>6, ControlKeeps DEF ProcInv

\* All directories on the segments have been removed.
LEMMA EndSegmentsIInv ==
  ASSUME IInv, NEW p \in Proc, EndSegments(p)
  PROVE  IInv'
<1>0. FormInv /\ PickedInv(p) /\ MarkInv(p) /\ RemovedInv(p)
  BY DEF IInv, ProcInv
<1>1. UNCHANGED <<db, storage>>
  BY DEF EndSegments
<1>2. /\ Picked(p, proc[p].cur) /\ Picked(p, proc[p].name)
      /\ backups[proc[p].cur].dateDeleted # DateDeletedActive
      /\ ~proc[p].cmd.plugin
  BY <1>0 DEF PickedInv, MarkInv, EndSegments, Deleting
<1>3. /\ Moved(p)
      /\ proc'[p].cur = proc[p].cur /\ proc'[p].name = proc[p].name
      /\ proc'[p].pc = "coordinator" /\ proc'[p].located = proc[p].located
  BY <1>0 DEF FormInv, Moved, EndSegments
<1>4. PickedInv(p)' /\ MarkInv(p)'
  BY <1>1, <1>2, <1>3 DEF PickedInv, Picked, MarkInv, Moved, db
<1>5. NoErrorLost
        => /\ SegDirOf(proc[p].cur, backups[proc[p].cur]) \cap segDir = {}
           /\ proc[p].located
  BY <1>0, SegDirOfIn DEF RemovedInv, EndSegments
<1>6. NoErrorLost' => NoErrorLost
  BY <1>3 DEF NoErrorLost, Moved
<1>7. RemovedInv(p)'
  BY <1>1, <1>2, <1>3, <1>5, <1>6 DEF RemovedInv, Moved, db, storage
<1> QED
  BY <1>1, <1>3, <1>4, <1>7, ControlKeeps DEF ProcInv

\* The checks fail: an error like any other.
LEMMA RefuseSegmentsIInv ==
  ASSUME IInv, NEW p \in Proc, RefuseSegments(p)
  PROVE  IInv'
<1>1. FormInv /\ PickedInv(p) /\ MarkInv(p)
  BY DEF IInv, ProcInv
<1>2. UNCHANGED <<db, storage>> /\ Ignorable(p, "coordinator")
        /\ proc[p].pc \in Deleting
  BY DEF RefuseSegments, Deleting
<1> QED
  BY <1>1, <1>2, IgnorableMoves, ControlKeeps

\* The plugin takes away the objects of a backup that is marked.
LEMMA RunPluginIInv ==
  ASSUME IInv, NEW p \in Proc, RunPlugin(p)
  PROVE  IInv'
<1>0. FormInv /\ PickedInv(p) /\ MarkInv(p)
  BY DEF IInv, ProcInv
<1>1. UNCHANGED <<db, coordDir, segDir>> /\ proc[p].pc \in Deleting
  BY DEF RunPlugin, Deleting
<1>2. CASE object' = object \ {proc[p].cur} /\ Goto(p, "locate")
  <2>1. /\ Picked(p, proc[p].cur) /\ Picked(p, proc[p].name)
        /\ backups[proc[p].cur].dateDeleted # DateDeletedActive
    BY <1>0, <1>1 DEF PickedInv, MarkInv
  <2>2. /\ Moved(p)
        /\ proc'[p].cur = proc[p].cur /\ proc'[p].name = proc[p].name
        /\ proc'[p].pc = "locate"
    BY <1>0, <1>2 DEF FormInv, Moved, Goto
  <2>3. PickedInv(p)' /\ MarkInv(p)' /\ RemovedInv(p)'
    BY <1>1, <1>2, <2>1, <2>2 DEF PickedInv, Picked, MarkInv, RemovedInv,
                                  Moved,
                                  db
  <2> QED
    BY <1>1, <1>2, <2>2, <2>3, StorageKeeps DEF ProcInv
<1>3. CASE /\ object' \in {object, object \ {proc[p].cur}}
           /\ Ignorable(p, "locate")
  <2>1. Moved(p) /\ ProcInv(p)'
    BY <1>0, <1>1, <1>3, IgnorableMoves
  <2> QED
    BY <1>1, <1>3, <2>1, StorageKeeps
<1> QED
  BY <1>2, <1>3 DEF RunPlugin

\* A removal takes away a directory of a backup that is marked.
LEMMA RemoveSegmentIInv ==
  ASSUME IInv, NEW p \in Proc, RemoveSegment(p)
  PROVE  IInv'
<1>0. FormInv /\ PickedInv(p) /\ MarkInv(p) /\ RemovedInv(p)
  BY DEF IInv, ProcInv
<1>1. UNCHANGED <<db, coordDir, object>> /\ proc[p].pc = "removing"
  BY DEF RemoveSegment
<1>2. /\ Picked(p, proc[p].cur) /\ Picked(p, proc[p].name)
      /\ backups[proc[p].cur].dateDeleted # DateDeletedActive
      /\ ~proc[p].cmd.plugin
  BY <1>0, <1>1 DEF PickedInv, MarkInv, Deleting
<1>3. PICK d \in SegDir :
        /\ segDir' = IF proc[p].located THEN segDir \ {<<proc[p].cur, d>>}
                     ELSE segDir
        /\ proc' = [proc EXCEPT ![p].seen = @ \cup {d}]
  BY DEF RemoveSegment
<1>4. /\ Moved(p)
      /\ proc'[p].cur = proc[p].cur /\ proc'[p].name = proc[p].name
      /\ proc'[p].pc = "removing" /\ proc'[p].located = proc[p].located
      /\ proc'[p].seen = proc[p].seen \cup {d}
  BY <1>0, <1>1, <1>3 DEF FormInv, Moved
<1>5. PickedInv(p)' /\ MarkInv(p)'
  BY <1>1, <1>2, <1>4 DEF PickedInv, Picked, MarkInv, Moved, db
<1>6. NoErrorLost' => NoErrorLost
  BY <1>4 DEF NoErrorLost, Moved
<1>7. RemovedInv(p)'
  BY <1>0, <1>1, <1>3, <1>4, <1>6 DEF RemovedInv
<1>8. /\ segDir' \subseteq segDir
      /\ segDir \ segDir' \subseteq {proc[p].cur} \X SegDir
  BY <1>3
<1> QED
  BY <1>1, <1>4, <1>5, <1>7, <1>8, StorageKeeps DEF ProcInv, Deleting

\* The last data of a backup that is marked.
LEMMA RemoveCoordinatorDirIInv ==
  ASSUME IInv, NEW p \in Proc, RemoveCoordinatorDir(p)
  PROVE  IInv'
<1>0. FormInv /\ PickedInv(p) /\ MarkInv(p) /\ RemovedInv(p)
  BY DEF IInv, ProcInv
<1>1. /\ UNCHANGED <<db, segDir, object>>
      /\ proc[p].pc = "coordinator" /\ proc[p].pc \in Deleting
  BY DEF RemoveCoordinatorDir, Deleting
<1>2. CASE /\ coordDir' = IF proc[p].located THEN coordDir \ {proc[p].cur}
                          ELSE coordDir
           /\ Goto(p, "finish")
  <2>1. /\ Picked(p, proc[p].cur) /\ Picked(p, proc[p].name)
        /\ backups[proc[p].cur].dateDeleted # DateDeletedActive
    BY <1>0, <1>1 DEF PickedInv, MarkInv
  <2>2. /\ Moved(p)
        /\ proc'[p].cur = proc[p].cur /\ proc'[p].name = proc[p].name
        /\ proc'[p].pc = "finish" /\ proc'[p].located = proc[p].located
        /\ proc'[p].strayed = proc[p].strayed
    BY <1>0, <1>2 DEF FormInv, Moved, Goto
  <2>3. PickedInv(p)' /\ MarkInv(p)'
    BY <1>1, <2>1, <2>2 DEF PickedInv, Picked, MarkInv, Moved, db
  <2>4. NoErrorLost' => NoErrorLost
    BY <2>2 DEF NoErrorLost, Moved
  <2>5. RemovedInv(p)'
    BY <1>0, <1>1, <1>2, <2>2, <2>4 DEF RemovedInv, Moved, db
  <2> QED
    BY <1>1, <1>2, <2>2, <2>3, <2>5, StorageKeeps DEF ProcInv
<1>3. CASE Ignorable(p, "finish") /\ UNCHANGED coordDir
  <2>1. Moved(p) /\ ProcInv(p)'
    BY <1>0, <1>1, <1>3, IgnorableMoves
  <2> QED
    BY <1>1, <1>3, <2>1, StorageKeeps
<1> QED
  BY <1>2, <1>3 DEF RemoveCoordinatorDir

\* A backup that p has picked stays picked.
LEMMA PickedAfter ==
  ASSUME NEW p \in Proc, Moved(p), RowsKept,
         proc'[p].cur = proc[p].cur, proc'[p].name = proc[p].name,
         Picked(p, proc[p].cur), Picked(p, proc[p].name)
  PROVE  Picked(p, proc[p].cur)' /\ Picked(p, proc[p].name)'
<1>1. proc'[p].cmd = proc[p].cmd
  BY DEF Moved
<1>2. ASSUME NEW b \in DOMAIN backups
      PROVE  b \in DOMAIN backups' /\ IsLocal(backups'[b]) = IsLocal(backups[b])
  BY DEF RowsKept, IsLocal
<1> QED
  BY <1>1, <1>2 DEF Picked, LocalStatusIsError

\* The mark: from here on the backup is not active.
LEMMA MarkInProgressIInv ==
  ASSUME IInv, NEW p \in Proc, MarkInProgress(p)
  PROVE  IInv'
<1>0. FormInv /\ PickedInv(p)
  BY DEF IInv, ProcInv
<1>1. CASE SetStatus(p, DateDeletedInProgress,
                     IF proc[p].cmd.plugin THEN "plugin" ELSE "locate")
  <2>1. DateDeletedInProgress \in DateDeleted \ {DateDeletedActive}
          /\ DateDeletedInProgress # "date"
    BY DEF DateDeleted, DateDeletedKnown, DateDeletedInProgress,
           DateDeletedActive
  <2>2. Picked(p, proc[p].cur) /\ Picked(p, proc[p].name)
    BY <1>0 DEF PickedInv, MarkInProgress
  <2>3. /\ Moved(p) /\ RowsKept
        /\ proc'[p].cur = proc[p].cur /\ proc'[p].name = proc[p].name
        /\ proc'[p].pc = IF proc[p].cmd.plugin THEN "plugin" ELSE "locate"
        /\ backups'[proc[p].cur].dateDeleted = DateDeletedInProgress
    BY <1>0, <1>1, <2>1, <2>2, StatusMoves DEF Picked
  <2>4. PickedInv(p)'
    <3>1. Picked(p, proc[p].cur)' /\ Picked(p, proc[p].name)'
      BY <2>2, <2>3, PickedAfter
    <3> QED
      BY <2>3, <3>1 DEF PickedInv
  <2>5. MarkInv(p)'
    BY <2>1, <2>3 DEF MarkInv
  <2>6. RemovedInv(p)'
    BY <2>3 DEF RemovedInv, Moved
  <2> QED
    BY <1>1, <2>1, <2>4, <2>5, <2>6, StatusKeeps DEF ProcInv
<1>2. CASE DBError(p, "exit1")
  <2>1. Moved(p) /\ UNCHANGED <<db, storage>> /\ proc'[p].pc = "exit1"
    BY <1>0, <1>2 DEF FormInv, Moved, DBError, Goto
  <2>2. PickedInv(p)' /\ MarkInv(p)' /\ RemovedInv(p)'
    BY <2>1 DEF PickedInv, MarkInv, RemovedInv, Moved, Deleting
  <2> QED
    BY <2>1, <2>2, ControlKeeps DEF ProcInv
<1> QED
  BY <1>1, <1>2 DEF MarkInProgress

\* A failed deletion is never followed by a date without --ignore-errors.
LEMMA RecordFailureIInv ==
  ASSUME IInv, NEW p \in Proc, RecordFailure(p)
  PROVE  IInv'
<1> DEFINE d == IF proc[p].cmd.plugin THEN DateDeletedPluginFailed
                ELSE DateDeletedLocalFailed
<1>0. FormInv /\ PickedInv(p) /\ MarkInv(p)
  BY DEF IInv, ProcInv
<1>1. /\ Picked(p, proc[p].cur) /\ Picked(p, proc[p].name)
      /\ backups[proc[p].cur].dateDeleted # DateDeletedActive
      /\ proc[p].after \in {"exit1", "locate", "coordinator", "finish"}
      /\ proc[p].after = "exit1" \/ proc[p].cmd.ignoreErrors
  BY <1>0 DEF PickedInv, MarkInv, RecordFailure, Deleting
<1>2. CASE SetStatus(p, d, proc[p].after)
  <2>1. d \in DateDeleted \ {DateDeletedActive} /\ d # "date"
    BY DEF DateDeleted, DateDeletedKnown, DateDeletedPluginFailed,
           DateDeletedLocalFailed, DateDeletedActive
  <2> HIDE DEF d
  <2>2. /\ Moved(p) /\ RowsKept
        /\ proc'[p].cur = proc[p].cur /\ proc'[p].name = proc[p].name
        /\ proc'[p].pc = proc[p].after
        /\ backups'[proc[p].cur].dateDeleted = d
    BY <1>0, <1>1, <1>2, <2>1, StatusMoves DEF Picked
  <2>3. PickedInv(p)'
    <3>1. Picked(p, proc[p].cur)' /\ Picked(p, proc[p].name)'
      BY <1>1, <2>2, PickedAfter
    <3> QED
      BY <1>1, <2>2, <3>1 DEF PickedInv
  <2>4. MarkInv(p)'
    BY <2>1, <2>2 DEF MarkInv
  <2>5. RemovedInv(p)'
    <3>1. CASE proc[p].after = "exit1"
      BY <2>2, <3>1 DEF RemovedInv
    <3>2. CASE proc[p].cmd.ignoreErrors
      BY <2>2, <3>2 DEF RemovedInv, NoErrorLost, Moved
    <3> QED
      BY <1>1, <3>1, <3>2
  <2> QED
    BY <1>2, <2>1, <2>3, <2>4, <2>5, StatusKeeps DEF ProcInv
<1>3. CASE DBError(p, proc[p].after)
  <2>1. /\ Moved(p) /\ UNCHANGED <<db, storage>>
        /\ proc'[p].cur = proc[p].cur /\ proc'[p].name = proc[p].name
        /\ proc'[p].pc = proc[p].after
    BY <1>0, <1>3 DEF FormInv, Moved, DBError, Goto
  <2>2. PickedInv(p)' /\ MarkInv(p)' /\ RemovedInv(p)'
    BY <1>1, <2>1 DEF PickedInv, Picked, MarkInv, RemovedInv, NoErrorLost,
                      Moved, Deleting, db
  <2> QED
    BY <2>1, <2>2, ControlKeeps DEF ProcInv
<1> QED
  BY <1>2, <1>3 DEF RecordFailure

\* The date: nothing is left, since no error has been met.
LEMMA MarkDeletedIInv ==
  ASSUME IInv, NEW p \in Proc, MarkDeleted(p)
  PROVE  IInv'
<1> DEFINE label == IF proc[p].cur = proc[p].name THEN "next" ELSE "cascade"
<1>0. FormInv /\ ObjectInv /\ PickedInv(p) /\ RemovedInv(p)
  BY DEF IInv, ProcInv
<1>1. Picked(p, proc[p].cur) /\ Picked(p, proc[p].name)
  BY <1>0 DEF PickedInv, MarkDeleted, Deleting
<1>2. CASE SetStatus(p, "date", label)
  <2>1. "date" \in DateDeleted \ {DateDeletedActive}
    BY DEF DateDeleted, DateDeletedActive
  <2>2. ASSUME NoErrorLost PROVE Gone(proc[p].cur)
    <3>1. proc[p].cur \notin object
      BY <1>0, <1>1, <2>2 DEF RemovedInv, MarkDeleted, FormInv, ObjectInv,
                              Picked,
                              LocalStatusIsError, IsLocal
    <3>2. ASSUME Segments(backups[proc[p].cur]) # {} \/ NoneStrayed
          PROVE  proc[p].cur \notin coordDir
      BY <1>0, <2>2, <3>2 DEF RemovedInv, MarkDeleted, NoneStrayed
    <3> QED
      BY <1>0, <2>2, <3>1, <3>2 DEF RemovedInv, MarkDeleted, Gone
  <2>3. /\ Moved(p) /\ RowsKept
        /\ proc'[p].name = proc[p].name
        /\ proc'[p].pc \in {"next", "cascade"}
        /\ proc'[p].cur = proc[p].cur
    BY <1>0, <1>2, <2>1, StatusMoves
  <2>4. PickedInv(p)' /\ MarkInv(p)' /\ RemovedInv(p)'
    <3>1. Picked(p, proc[p].cur)' /\ Picked(p, proc[p].name)'
      BY <1>1, <2>3, PickedAfter
    <3> QED
      BY <2>3, <3>1 DEF PickedInv, MarkInv, RemovedInv, Deleting
  <2> QED
    BY <1>2, <2>1, <2>2, <2>4, StatusKeeps DEF ProcInv
<1>3. CASE DBError(p, "exit1")
  <2>1. Moved(p) /\ UNCHANGED <<db, storage>> /\ proc'[p].pc = "exit1"
    BY <1>0, <1>3 DEF FormInv, Moved, DBError, Goto
  <2>2. PickedInv(p)' /\ MarkInv(p)' /\ RemovedInv(p)'
    BY <2>1 DEF PickedInv, MarkInv, RemovedInv, Moved, Deleting
  <2> QED
    BY <2>1, <2>2, ControlKeeps DEF ProcInv
<1> QED
  BY <1>2, <1>3 DEF MarkDeleted
-----------------------------------------------------------------------------
\* The initial states satisfy the invariant.
LEMMA InitIInv == Init => IInv
<1>1. SUFFICES ASSUME Init PROVE IInv
  OBVIOUS
<1>2. PICK s \in Scenario :
        /\ backups = s.backups
        /\ LET whole == {t \in DOMAIN s.backups :
                           s.backups[t].dateDeleted # "date"}
           IN /\ coordDir = whole
              /\ segDir = UNION {SegDirOf(t, s.backups[t]) : t \in whole}
              /\ object = {t \in whole : ~IsLocal(s.backups[t])}
  BY <1>1 DEF Init
<1>3. PICK c \in [Proc -> Command] :
        proc = [p \in Proc |->
                  [pc |-> "idle", cmd |-> c[p], todo |-> <<>>, name |-> 0,
                   deps |-> <<>>, cur |-> 0, seen |-> {}, located |-> FALSE,
                   strayed |-> FALSE, doomed |-> FALSE, after |-> "exit1"]]
  BY <1>1 DEF Init
<1>4. backups \in [DOMAIN backups -> Row]
  BY <1>2, DeleteAssumption
<1>5. FormInv
  <2>1. \A p \in Proc : c[p].plugin \in BOOLEAN
    BY <1>3, DeleteAssumption
  <2> QED
    BY <1>3, <1>4, <2>1 DEF FormInv
<1>6. ObjectInv
  BY <1>2 DEF ObjectInv
<1>7. ActiveMeansWhole
  BY <1>2 DEF ActiveMeansWhole, Whole, DateDeletedActive
<1>8. DeletedMeansGone
  <2>1. SUFFICES ASSUME NEW b \in DOMAIN backups,
                        backups[b].dateDeleted = "date"
                 PROVE  Gone(b)
    BY DEF DeletedMeansGone
  <2>2. \A t \in DOMAIN backups :
          SegDirOf(t, backups[t]) \subseteq {t} \X SegDir
    BY SegDirOfIn
  <2> QED
    BY <1>2, <2>1, <2>2 DEF Gone
<1>9. \A p \in Proc : ProcInv(p)
  BY <1>3 DEF ProcInv, PickedInv, MarkInv, RemovedInv, Deleting
<1> QED
  BY <1>5, <1>6, <1>7, <1>8, <1>9 DEF IInv

\* Every step keeps it.
LEMMA NextIInv == IInv /\ [Next]_vars => IInv'
<1>1. SUFFICES ASSUME IInv, [Next]_vars PROVE IInv'
  OBVIOUS
<1>2. CASE UNCHANGED vars
  BY <1>1, <1>2 DEF vars, IInv, FormInv, ObjectInv, ActiveMeansWhole,
     DeletedMeansGone, Whole, Gone, NoneStrayed, ProcInv, PickedInv, Picked, MarkInv,
     RemovedInv, NoErrorLost
<1>3. ASSUME NEW p \in Proc, Start(p) \/ StartFails(p) \/ Step(p) \/ Crash(p)
      PROVE  IInv'
  BY <1>1, <1>3, StartIInv, StartFailsIInv, NoMoreNamesIInv, ConsiderNameIInv,
     QueryDependenciesIInv, ConsiderDependentIInv, EndCascadeIInv,
     MarkInProgressIInv, RecordFailureIInv, RunPluginIInv, LocatePluginIInv,
     LocateLocalIInv, ReadSegmentsIInv, CheckSegmentIInv, AcceptSegmentsIInv,
     RefuseSegmentsIInv, RemoveSegmentIInv, FailSegmentIInv, DieIInv,
     EndSegmentsIInv, RemoveCoordinatorDirIInv, MarkDeletedIInv, CrashIInv
     DEF Step
<1> QED
  BY <1>1, <1>2, <1>3 DEF Next, Terminated

-----------------------------------------------------------------------------
(* Types *)

\* UPDATE keeps the type of the table.
LEMMA UpdateType ==
  ASSUME TypeOK, NEW b, NEW d \in DateDeleted,
         backups' = UpdateDeleteStatus(b, d, backups)
  PROVE  /\ DOMAIN backups' \subseteq Backup
         /\ \A t \in DOMAIN backups' : backups'[t] \in Row
BY DEF UpdateDeleteStatus, TypeOK, Row

\* A list of names is one of backups.
LEMMA ListType ==
  ASSUME NEW S \in SUBSET Backup
  PROVE  OrderByTimestampDesc(S) \in Seq(Backup)
<1> DEFINE names == OrderByTimestampDesc(S)
<1>1. IsFiniteSet(S) /\ \A t \in S : t \in Nat
  BY DeleteAssumption, FS_Subset
<1>2. names \in Seq(S)
  BY <1>1, QueryResult
<1> HIDE DEF names
<1>3. \A k \in 1..Len(names) : names[k] \in Backup
  BY <1>2
<1> QED
  BY <1>2, <1>3 DEF names

\* The tables and the storage.
LEMMA TablesType ==
  ASSUME TypeOK, NEW p \in Proc,
         Start(p) \/ StartFails(p) \/ Step(p) \/ Crash(p)
  PROVE  /\ DOMAIN backups' \subseteq Backup
         /\ \A t \in DOMAIN backups' : backups'[t] \in Row
         /\ restorePlans' = restorePlans /\ coordDir' \subseteq coordDir
         /\ segDir' \subseteq segDir /\ object' \subseteq object
<1>1. \/ backups' = backups
      \/ \E d \in {DateDeletedInProgress, DateDeletedPluginFailed,
                   DateDeletedLocalFailed, "date"} :
           backups' = UpdateDeleteStatus(proc[p].cur, d, backups)
  BY DEF Start, StartFails, Step, Crash, NoMoreNames, ConsiderName,
     QueryDependencies, ConsiderDependent, EndCascade, MarkInProgress,
     RecordFailure, RunPlugin, LocatePlugin, LocateLocal, ReadSegments,
     CheckSegment, AcceptSegments, RefuseSegments, RemoveSegment, FailSegment,
     Die, EndSegments, RemoveCoordinatorDir, MarkDeleted, SetStatus, DBError, db
<1>2. /\ restorePlans' = restorePlans /\ coordDir' \subseteq coordDir
      /\ segDir' \subseteq segDir /\ object' \subseteq object
  BY DEF Start, StartFails, Step, Crash, NoMoreNames, ConsiderName,
     QueryDependencies, ConsiderDependent, EndCascade, MarkInProgress,
     RecordFailure, RunPlugin, LocatePlugin, LocateLocal, ReadSegments,
     CheckSegment, AcceptSegments, RefuseSegments, RemoveSegment, FailSegment,
     Die, EndSegments, RemoveCoordinatorDir, MarkDeleted, SetStatus, DBError, db,
     storage
<1>3. {DateDeletedInProgress, DateDeletedPluginFailed, DateDeletedLocalFailed,
       "date"} \subseteq DateDeleted
  BY DEF DateDeleted, DateDeletedKnown
<1> QED
  BY <1>1, <1>2, <1>3, UpdateType DEF TypeOK

\* Changing the state of one process, and its label.
LEMMA PutType ==
  ASSUME TypeOK, NEW p \in Proc, NEW r \in ProcState,
         proc' = [proc EXCEPT ![p] = r]
  PROVE  proc' \in [Proc -> ProcState]
BY DEF TypeOK

LEMMA LabelType ==
  ASSUME TypeOK, NEW p \in Proc, NEW label \in Running \cup Ended,
         Goto(p, label)
  PROVE  proc' \in [Proc -> ProcState]
<1>1. proc[p] \in ProcState
  BY DEF TypeOK
<1>2. [proc[p] EXCEPT !.pc = label] \in ProcState
  BY <1>1 DEF ProcState
<1>3. proc' = [proc EXCEPT ![p] = [proc[p] EXCEPT !.pc = label]]
  BY DEF Goto
<1> QED
  BY <1>2, <1>3, PutType

LEMMA FailType ==
  ASSUME TypeOK, NEW p \in Proc,
         NEW label \in {"exit1", "locate", "coordinator", "finish"},
         Fail(p, label)
  PROVE  proc' \in [Proc -> ProcState]
<1> DEFINE r == [proc[p] EXCEPT !.pc = "recordFailure", !.after = label]
<1>1. proc[p] \in ProcState
  BY DEF TypeOK
<1>2. r \in ProcState
  BY <1>1 DEF ProcState, Running
<1>3. proc' = [proc EXCEPT ![p] = r]
  BY DEF Fail
<1> QED
  BY <1>2, <1>3, PutType

LEMMA LocateType ==
  ASSUME TypeOK, NEW p \in Proc, NEW label \in {"coordinator", "segments"},
         Locate(p, label)
  PROVE  proc' \in [Proc -> ProcState]
<1> DEFINE right == [proc[p] EXCEPT !.pc = label, !.located = TRUE]
           wrong == [proc[p] EXCEPT !.pc = label, !.located = FALSE,
                                    !.strayed = TRUE]
<1>1. proc[p] \in ProcState
  BY DEF TypeOK
<1>2. right \in ProcState /\ wrong \in ProcState
  BY <1>1 DEF ProcState, Running
<1>3. \/ proc' = [proc EXCEPT ![p] = right]
      \/ proc' = [proc EXCEPT ![p] = wrong]
  BY DEF Locate
<1> QED
  BY <1>2, <1>3, PutType

\* The locals, up to the deleters.
LEMMA ListingType ==
  ASSUME TypeOK, NEW p \in Proc,
         \/ Start(p) \/ StartFails(p) \/ NoMoreNames(p) \/ ConsiderName(p)
         \/ QueryDependencies(p) \/ ConsiderDependent(p) \/ EndCascade(p)
  PROVE  proc' \in [Proc -> ProcState]
<1>1. proc[p] \in ProcState
  BY DEF TypeOK
<1>2. {"exit0", "exit1"} \subseteq Running \cup Ended
  BY DEF Ended
<1>3. \A b : Verdict(p, b) \in {"use", "skip", "error"}
  BY DEF Verdict, CheckBackupCanBeUsed
<1>4. CASE Start(p)
  <2> DEFINE todo == IF proc[p].cmd.clean
                     THEN FetchBackupNamesForDeletion(proc[p].cmd)
                     ELSE proc[p].cmd.list
             r == [proc[p] EXCEPT !.pc = "next", !.todo = todo]
  <2>1. proc[p].cmd \in Command
    BY <1>1 DEF ProcState
  <2>2. todo \in Seq(Backup)
    BY <2>1, DeleteAssumption, ListType
       DEF FetchBackupNamesForDeletion, TypeOK,
           GetBackupNamesAfterTimestamp, GetBackupNamesBeforeTimestamp
  <2>3. r \in ProcState
    BY <1>1, <2>2 DEF ProcState, Running
  <2>4. proc' = [proc EXCEPT ![p] = r]
    BY <1>4 DEF Start
  <2> QED
    BY <2>3, <2>4, PutType
<1>5. CASE StartFails(p) \/ NoMoreNames(p)
  BY <1>2, <1>5, LabelType DEF StartFails, NoMoreNames, DBError
<1>6. CASE ConsiderName(p)
  <2> DEFINE b == Head(proc[p].todo)
             r(label) == [proc[p] EXCEPT !.pc = label, !.name = b,
                                         !.todo = Tail(@)]
  <2>1. proc[p].todo # <<>>
    BY <1>6 DEF ConsiderName
  <2>2. b \in Backup /\ Tail(proc[p].todo) \in Seq(Backup)
    BY <1>1, <2>1 DEF ProcState
  <2>3. \A label \in {"dependencies", "next", "exit1"} : r(label) \in ProcState
    BY <1>1, <2>2 DEF ProcState, Running, Ended
  <2> DEFINE label == [use |-> "dependencies", skip |-> "next",
                       error |-> "exit1"][Verdict(p, b)]
  <2>4. label \in {"dependencies", "next", "exit1"}
    BY <1>3
  <2>5. proc' = [proc EXCEPT ![p] = r(label)] \/ DBError(p, "exit1")
    BY <1>6 DEF ConsiderName
  <2>6. r(label) \in ProcState
    BY <2>3, <2>4
  <2> HIDE DEF label
  <2> QED
    BY <1>2, <2>5, <2>6, PutType, LabelType DEF DBError
<1>7. CASE QueryDependencies(p)
  <2> DEFINE deps == GetBackupDependencies(proc[p].name, restorePlans)
             r(label) == [proc[p] EXCEPT !.deps = deps, !.pc = label]
  <2>1. deps \in Seq(Backup)
    BY ListType DEF GetBackupDependencies, Dependents, TypeOK
  <2>2. \A label \in {"cascade", "exit1"} : r(label) \in ProcState
    BY <1>1, <2>1 DEF ProcState, Running, Ended
  <2>3. \/ \E label \in {"cascade", "exit1"} :
             proc' = [proc EXCEPT ![p] = r(label)]
        \/ DBError(p, "exit1")
    BY <1>7 DEF QueryDependencies
  <2> QED
    BY <1>2, <2>2, <2>3, PutType, LabelType DEF DBError
<1>8. CASE ConsiderDependent(p)
  <2> DEFINE b == Head(proc[p].deps)
             r(label) == [proc[p] EXCEPT !.pc = label, !.cur = b,
                                         !.deps = Tail(@)]
  <2>1. proc[p].deps # <<>>
    BY <1>8 DEF ConsiderDependent
  <2>2. b \in Backup /\ Tail(proc[p].deps) \in Seq(Backup)
    BY <1>1, <2>1 DEF ProcState
  <2>3. \A label \in {"begin", "cascade", "exit1"} : r(label) \in ProcState
    BY <1>1, <2>2 DEF ProcState, Running, Ended
  <2> DEFINE label == [use |-> "begin", skip |-> "cascade",
                       error |-> "exit1"][Verdict(p, b)]
  <2>4. label \in {"begin", "cascade", "exit1"}
    BY <1>3
  <2>5. proc' = [proc EXCEPT ![p] = r(label)] \/ DBError(p, "exit1")
    BY <1>8 DEF ConsiderDependent
  <2>6. r(label) \in ProcState
    BY <2>3, <2>4
  <2> HIDE DEF label
  <2> QED
    BY <1>2, <2>5, <2>6, PutType, LabelType DEF DBError
<1>9. CASE EndCascade(p)
  <2> DEFINE r == [proc[p] EXCEPT !.pc = "begin", !.cur = proc[p].name]
  <2>1. r \in ProcState
    BY <1>1 DEF ProcState, Running
  <2>2. proc' = [proc EXCEPT ![p] = r]
    BY <1>9 DEF EndCascade
  <2> QED
    BY <2>1, <2>2, PutType
<1> QED
  BY <1>4, <1>5, <1>6, <1>7, <1>8, <1>9

\* The locals of the deleters.
LEMMA DeletersType ==
  ASSUME TypeOK, NEW p \in Proc,
         \/ MarkInProgress(p) \/ RecordFailure(p) \/ RunPlugin(p)
         \/ LocatePlugin(p) \/ LocateLocal(p) \/ ReadSegments(p)
         \/ CheckSegment(p) \/ AcceptSegments(p) \/ RefuseSegments(p)
         \/ RemoveSegment(p) \/ FailSegment(p) \/ Die(p) \/ EndSegments(p)
         \/ RemoveCoordinatorDir(p) \/ MarkDeleted(p) \/ Crash(p)
  PROVE  proc' \in [Proc -> ProcState]
<1>1. proc[p] \in ProcState
  BY DEF TypeOK
<1>2. CASE MarkInProgress(p) \/ RecordFailure(p) \/ MarkDeleted(p)
           \/ Die(p) \/ Crash(p)
  <2>1. PICK label : Goto(p, label) /\ label \in {"plugin", "locate", "exit1",
               proc[p].after, "next", "cascade", "killed"}
    BY <1>2 DEF MarkInProgress, RecordFailure, MarkDeleted, Die, Crash,
       SetStatus, DBError
  <2>2. label \in Running \cup Ended
    BY <1>1, <2>1 DEF ProcState, Running, Ended
  <2> QED
    BY <2>1, <2>2, LabelType
<1>3. \A label \in {"locate", "coordinator", "finish"} :
        Ignorable(p, label) => proc' \in [Proc -> ProcState]
  BY FailType DEF Ignorable
<1>4. CASE RunPlugin(p) \/ RemoveCoordinatorDir(p)
  <2>1. {"locate", "finish"} \subseteq Running
    BY DEF Running
  <2> QED
    BY <1>3, <1>4, <2>1, LabelType DEF RunPlugin, RemoveCoordinatorDir
<1>5. CASE LocatePlugin(p)
  <2>1. \A label \in {"coordinator", "segments"} :
          Locate(p, label) => proc' \in [Proc -> ProcState]
    BY LocateType
  <2>2. \A found \in BOOLEAN, after \in {"coordinator", "exit1"} :
          [proc[p] EXCEPT !.pc = "recordFailure", !.after = after,
                          !.located = found] \in ProcState
    BY <1>1 DEF ProcState, Running
  <2>3. \/ Locate(p, "coordinator")
        \/ \E found \in BOOLEAN, after \in {"coordinator", "exit1"} :
             proc' = [proc EXCEPT ![p] =
               [proc[p] EXCEPT !.pc = "recordFailure", !.after = after,
                               !.located = found]]
    BY <1>5 DEF LocatePlugin
  <2> QED
    BY <2>1, <2>2, <2>3, PutType
<1>6. CASE LocateLocal(p)
  <2>1. \/ \E label \in {"coordinator", "segments"} : Locate(p, label)
        \/ Fail(p, "exit1")
    BY <1>6 DEF LocateLocal
  <2> QED
    BY <2>1, LocateType, FailType
<1>7. CASE ReadSegments(p) \/ RefuseSegments(p) \/ AcceptSegments(p)
           \/ EndSegments(p)
  <2>1. \A label \in {"checking", "removing", "coordinator"} :
          [proc[p] EXCEPT !.pc = label, !.seen = {}] \in ProcState
    BY <1>1 DEF ProcState, Running
  <2>2. \/ \E label \in {"checking", "removing", "coordinator"} :
             proc' = [proc EXCEPT ![p] =
               [proc[p] EXCEPT !.pc = label, !.seen = {}]]
        \/ Ignorable(p, "coordinator")
    BY <1>7 DEF ReadSegments, RefuseSegments, AcceptSegments, EndSegments
  <2> QED
    BY <1>3, <2>1, <2>2, PutType
<1>8. CASE CheckSegment(p) \/ RemoveSegment(p) \/ FailSegment(p)
  <2>1. \A d \in SegDir :
          /\ [proc[p] EXCEPT !.seen = @ \cup {d}] \in ProcState
          /\ [proc[p] EXCEPT !.seen = @ \cup {d}, !.doomed = TRUE]
               \in ProcState
    BY <1>1 DEF ProcState
  <2>2. \E d \in SegDir :
          \/ proc' = [proc EXCEPT ![p] = [proc[p] EXCEPT !.seen = @ \cup {d}]]
          \/ proc' = [proc EXCEPT ![p] =
               [proc[p] EXCEPT !.seen = @ \cup {d}, !.doomed = TRUE]]
    BY <1>8 DEF CheckSegment, RemoveSegment, FailSegment
  <2> QED
    BY <2>1, <2>2, PutType
<1> QED
  BY <1>2, <1>4, <1>5, <1>6, <1>7, <1>8

LEMMA InitTypeOK == Init => TypeOK
<1>1. SUFFICES ASSUME Init PROVE TypeOK
  OBVIOUS
<1>2. PICK s \in Scenario :
        LET whole == {t \in DOMAIN s.backups :
                        s.backups[t].dateDeleted # "date"}
        IN /\ backups = s.backups /\ restorePlans = s.restorePlans
           /\ coordDir = whole
           /\ segDir = UNION {SegDirOf(t, s.backups[t]) : t \in whole}
           /\ object = {t \in whole : ~IsLocal(s.backups[t])}
  BY <1>1 DEF Init
<1>3. /\ DOMAIN s.backups \subseteq Backup
      /\ s.backups \in [DOMAIN s.backups -> Row]
      /\ s.restorePlans \subseteq Backup \X Backup
  BY DeleteAssumption
<1>4. segDir \subseteq Backup \X SegDir
  BY <1>2, <1>3 DEF SegDirOf, Segments
<1>5. proc \in [Proc -> ProcState]
  <2>1. PICK c \in [Proc -> Command] :
          proc = [p \in Proc |->
            [pc |-> "idle", cmd |-> c[p], todo |-> <<>>, name |-> 0,
             deps |-> <<>>, cur |-> 0, seen |-> {}, located |-> FALSE,
             strayed |-> FALSE, doomed |-> FALSE, after |-> "exit1"]]
    BY <1>1 DEF Init
  <2> QED
    BY <2>1 DEF ProcState
<1> QED
  BY <1>2, <1>3, <1>4, <1>5 DEF TypeOK

\* IInv holds in every reachable state.
THEOREM Invariance == Spec => []IInv
BY InitIInv, NextIInv, PTL DEF Spec

\* The tables, the storage and the locals of all processes keep their types.
THEOREM TypeCorrect == Spec => []TypeOK
<1>1. TypeOK /\ [Next]_vars => TypeOK'
  <2>1. SUFFICES ASSUME TypeOK, [Next]_vars PROVE TypeOK'
    OBVIOUS
  <2>2. CASE UNCHANGED vars
    BY <2>1, <2>2 DEF vars, TypeOK
  <2>3. ASSUME NEW p \in Proc, Start(p) \/ StartFails(p) \/ Step(p) \/ Crash(p)
        PROVE  TypeOK'
    <3>1. proc' \in [Proc -> ProcState]
      BY <2>1, <2>3, ListingType, DeletersType DEF Step
    <3> QED
      BY <2>1, <2>3, <3>1, TablesType DEF TypeOK
  <2> QED
    BY <2>1, <2>2, <2>3 DEF Next, Terminated
<1> QED
  BY <1>1, InitTypeOK, PTL DEF Spec

\* Whatever processes overlap, fail or are killed, a row with no deletion status
\* has all its data: the deleters write "In progress" before they remove.
THEOREM ActiveWhole == Spec => []ActiveMeansWhole
BY Invariance, PTL DEF IInv

\* A row with a deletion date has no data left, unless --ignore-errors is given
\* or a goroutine panics: the deleters write the date last, and the check on the
\* segments stops one that looks in a wrong place.  A backup with nothing on the
\* segments has no such check: its directory on the coordinator is gone if no
\* process has strayed.
THEOREM DeletedGone == Spec => []DeletedMeansGone
BY Invariance, PTL DEF IInv
-----------------------------------------------------------------------------
(* Who owns a mark "In progress" *)

\* The process that answers for the mark of b.
Owns(p, b) == /\ proc[p].cur = b
              /\ proc[p].pc \in Deleting \cup {"killed"}
                   \cup (IF DBFaults THEN {"exit1"} ELSE {})

Marked(b) == backups[b].dateDeleted = DateDeletedInProgress

\* No deletion was in progress when gpbackman was first called.
NoneInProgress ==
  \A s \in Scenario : \A t \in DOMAIN s.backups :
    s.backups[t].dateDeleted # DateDeletedInProgress

\* A process that answers for a mark goes on answering for it or replaces it, and
\* a new mark has a process that answers for it.
Kept(p) == \A b \in DOMAIN backups :
  /\ Owns(p, b) => Owns(p, b)' \/ ~Marked(b)'
  /\ Marked(b)' => Marked(b) \/ Owns(p, b)'

LEMMA UpdateMarks ==
  ASSUME TypeOK, NEW b, NEW d, backups' = UpdateDeleteStatus(b, d, backups)
  PROVE  \A t \in DOMAIN backups :
           Marked(t)' <=> IF t = b THEN d = DateDeletedInProgress ELSE Marked(t)
<1> SUFFICES ASSUME NEW t \in DOMAIN backups
             PROVE  Marked(t)' <=> IF t = b THEN d = DateDeletedInProgress
                                   ELSE Marked(t)
  OBVIOUS
<1>1. backups[t] \in Row
  BY DEF TypeOK
<1>2. backups'[t] = IF t = b THEN [backups[t] EXCEPT !.dateDeleted = d]
                    ELSE backups[t]
  BY DEF UpdateDeleteStatus
<1> QED
  BY <1>1, <1>2 DEF Marked, Row

\* Before the mark.
LEMMA ListingKept ==
  ASSUME TypeOK, NEW p \in Proc,
         \/ Start(p) \/ StartFails(p) \/ NoMoreNames(p) \/ ConsiderName(p)
         \/ QueryDependencies(p) \/ ConsiderDependent(p) \/ EndCascade(p)
  PROVE  Kept(p)
<1>1. proc[p].pc \notin Deleting \cup {"killed", "exit1"}
  BY DEF Start, StartFails, NoMoreNames, ConsiderName, QueryDependencies,
     ConsiderDependent, EndCascade, Deleting
<1>2. backups' = backups
  BY DEF Start, StartFails, NoMoreNames, ConsiderName, QueryDependencies,
     ConsiderDependent, EndCascade, DBError, db
<1> QED
  BY <1>1, <1>2 DEF Kept, Owns, Marked

LEMMA MarkKept ==
  ASSUME TypeOK, NEW p \in Proc,
         MarkInProgress(p) \/ RecordFailure(p) \/ MarkDeleted(p)
  PROVE  Kept(p)
<1> DEFINE c == proc[p].cur
<1>1. proc \in [Proc -> ProcState] /\ proc[p] \in ProcState
  BY DEF TypeOK
<1>2. \A label : Goto(p, label) => proc'[p].cur = c /\ proc'[p].pc = label
  BY <1>1 DEF Goto, ProcState
<1>3. CASE MarkInProgress(p)
  <2>1. proc[p].pc = "begin"
    BY <1>3 DEF MarkInProgress
  <2>2. CASE DBError(p, "exit1")
    BY <2>1, <2>2 DEF DBError, db, Kept, Owns, Marked, Deleting
  <2>3. CASE SetStatus(p, DateDeletedInProgress,
                       IF proc[p].cmd.plugin THEN "plugin" ELSE "locate")
    <3>1. proc'[p].cur = c /\ proc'[p].pc \in {"plugin", "locate"}
      BY <1>2, <2>3 DEF SetStatus
    <3>2. \A b \in DOMAIN backups : Marked(b)' => Marked(b) \/ b = c
      BY <2>3, UpdateMarks DEF SetStatus
    <3> QED
      BY <2>1, <3>1, <3>2 DEF Kept, Owns, Deleting
  <2> QED
    BY <1>3, <2>2, <2>3 DEF MarkInProgress
<1>4. ASSUME NEW d \in {"date", DateDeletedPluginFailed, DateDeletedLocalFailed},
             backups' = UpdateDeleteStatus(c, d, backups)
      PROVE  Kept(p)
  <2>1. d # DateDeletedInProgress
    BY DEF DateDeletedInProgress, DateDeletedPluginFailed,
       DateDeletedLocalFailed
  <2>2. \A b \in DOMAIN backups : Marked(b)' => Marked(b) /\ b # c
    BY <1>4, <2>1, UpdateMarks
  <2> QED
    BY <2>2 DEF Kept, Owns
<1>5. ASSUME NEW label \in Deleting \cup {"exit1"}, DBError(p, label)
      PROVE  Kept(p)
  BY <1>2, <1>5 DEF DBError, db, Kept, Owns, Marked
<1>6. CASE RecordFailure(p)
  <2>1. proc[p].after \in Deleting \cup {"exit1"}
    BY <1>1 DEF ProcState, Deleting
  <2> QED
    BY <1>4, <1>5, <1>6, <2>1 DEF RecordFailure, SetStatus
<1>7. CASE MarkDeleted(p)
  BY <1>4, <1>5, <1>7 DEF MarkDeleted, SetStatus
<1> QED
  BY <1>3, <1>6, <1>7

\* Between the mark and what replaces it, and when the process is killed.
LEMMA DeletingKept ==
  ASSUME TypeOK, NEW p \in Proc,
         \/ RunPlugin(p) \/ LocatePlugin(p) \/ LocateLocal(p)
         \/ ReadSegments(p) \/ CheckSegment(p) \/ AcceptSegments(p)
         \/ RefuseSegments(p) \/ RemoveSegment(p) \/ FailSegment(p)
         \/ EndSegments(p) \/ RemoveCoordinatorDir(p) \/ Die(p) \/ Crash(p)
  PROVE  Kept(p)
<1>1. proc \in [Proc -> ProcState] /\ proc[p] \in ProcState
  BY DEF TypeOK
<1>2. backups' = backups
  BY DEF RunPlugin, LocatePlugin, LocateLocal, ReadSegments, CheckSegment,
     AcceptSegments, RefuseSegments, RemoveSegment, FailSegment, EndSegments,
     RemoveCoordinatorDir, Die, Crash, db
<1>3. /\ proc'[p].cur = proc[p].cur
      /\ proc'[p].pc \in Deleting \cup {"killed"}
  <2>1. CASE Die(p) \/ Crash(p)
    BY <1>1, <2>1 DEF Die, Crash, Goto, ProcState
  <2>2. CASE RunPlugin(p) \/ RemoveCoordinatorDir(p)
    BY <1>1, <2>2 DEF RunPlugin, RemoveCoordinatorDir, Ignorable, Fail, Goto,
       ProcState, Deleting
  <2>3. CASE LocatePlugin(p)
    BY <1>1, <2>3 DEF LocatePlugin, Locate, ProcState, Deleting
  <2>4. CASE LocateLocal(p)
    <3>1. \/ Fail(p, "exit1")
          \/ \E label \in {"coordinator", "segments"} : Locate(p, label)
      BY <2>4 DEF LocateLocal
    <3> QED
      BY <1>1, <3>1 DEF Locate, Fail, ProcState, Deleting
  <2>5. CASE ReadSegments(p) \/ AcceptSegments(p) \/ RefuseSegments(p)
             \/ EndSegments(p)
    BY <1>1, <2>5 DEF ReadSegments, AcceptSegments, RefuseSegments,
       EndSegments, Ignorable, Fail, ProcState, Deleting
  <2>6. CASE CheckSegment(p) \/ RemoveSegment(p)
    <3>1. proc[p].pc \in Deleting
      BY <2>6 DEF CheckSegment, RemoveSegment, Deleting
    <3>2. PICK d : proc' = [proc EXCEPT ![p].seen = @ \cup {d}]
      BY <2>6 DEF CheckSegment, RemoveSegment
    <3> QED
      BY <1>1, <3>1, <3>2 DEF ProcState
  <2>7. CASE FailSegment(p)
    <3>1. proc[p].pc \in Deleting
      BY <2>7 DEF FailSegment, Deleting
    <3>2. PICK d : proc' = [proc EXCEPT ![p].seen = @ \cup {d},
                                        ![p].doomed = TRUE]
      BY <2>7 DEF FailSegment
    <3> QED
      BY <1>1, <3>1, <3>2 DEF ProcState
  <2> QED
    BY <2>1, <2>2, <2>3, <2>4, <2>5, <2>6, <2>7
<1> QED
  BY <1>2, <1>3 DEF Kept, Owns, Marked

\* Every step is one process's, and it changes no other's state.
LEMMA OthersSame ==
  ASSUME TypeOK, NEW p \in Proc,
         Start(p) \/ StartFails(p) \/ Step(p) \/ Crash(p)
  PROVE  \A q \in Proc \ {p} : proc'[q] = proc[q]
BY DEF TypeOK, Start, StartFails, Step, Crash, NoMoreNames, ConsiderName,
   QueryDependencies, ConsiderDependent, EndCascade, MarkInProgress,
   RecordFailure, RunPlugin, LocatePlugin, LocateLocal, ReadSegments,
   CheckSegment, AcceptSegments, RefuseSegments, RemoveSegment, FailSegment,
   Die, EndSegments, RemoveCoordinatorDir, MarkDeleted, SetStatus, DBError,
   Goto, Fail, Ignorable, Locate

LEMMA NextOwner ==
  ASSUME TypeOK, InProgressHasOwner, [Next]_vars
  PROVE  InProgressHasOwner'
<1>1. \A b \in DOMAIN backups : Marked(b) => \E q \in Proc : Owns(q, b)
  BY DEF InProgressHasOwner, Marked, Owns
<1>2. CASE UNCHANGED vars
  BY <1>2 DEF vars, InProgressHasOwner
<1>3. ASSUME NEW p \in Proc, Start(p) \/ StartFails(p) \/ Step(p) \/ Crash(p)
      PROVE  InProgressHasOwner'
  <2>1. Kept(p)
    BY <1>3, ListingKept, MarkKept, DeletingKept DEF Step
  <2>2. \A q \in Proc \ {p} : proc'[q] = proc[q]
    BY <1>3, OthersSame
  <2>3. DOMAIN backups' = DOMAIN backups
    BY <1>3 DEF UpdateDeleteStatus, Start, StartFails, Step, Crash, NoMoreNames,
       ConsiderName, QueryDependencies, ConsiderDependent, EndCascade,
       MarkInProgress, RecordFailure, RunPlugin, LocatePlugin, LocateLocal,
       ReadSegments, CheckSegment, AcceptSegments, RefuseSegments,
       RemoveSegment, FailSegment, Die, EndSegments, RemoveCoordinatorDir,
       MarkDeleted, SetStatus, DBError, db
  <2>4. ASSUME NEW b \in DOMAIN backups, Marked(b)'
        PROVE  \E q \in Proc : Owns(q, b)'
    <3>1. CASE Owns(p, b)'
      BY <3>1
    <3>2. CASE ~Owns(p, b)'
      <4>1. PICK q \in Proc : Owns(q, b)
        BY <1>1, <2>1, <2>4, <3>2 DEF Kept
      <4>2. q # p
        BY <2>1, <2>4, <3>2, <4>1 DEF Kept
      <4> QED
        BY <2>2, <4>1, <4>2 DEF Owns
    <3> QED
      BY <3>1, <3>2
  <2> QED
    BY <2>3, <2>4 DEF InProgressHasOwner, Marked, Owns
<1> QED
  BY <1>2, <1>3 DEF Next, Terminated

\* A mark "In progress" is the work of a process that is deleting the backup or
\* was killed while it did; or that failed, where statements may fail.
THEOREM InProgressOwned ==
  ASSUME NoneInProgress
  PROVE  Spec => []InProgressHasOwner
<1>1. Init => InProgressHasOwner
  BY DEF NoneInProgress, Init, InProgressHasOwner
<1>2. TypeOK /\ InProgressHasOwner /\ [Next]_vars => InProgressHasOwner'
  BY NextOwner
<1> QED
  BY <1>1, <1>2, TypeCorrect, PTL DEF Spec
=============================================================================
