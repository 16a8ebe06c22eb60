-------------------- MODULE BackupDeleteSequential_proofs --------------------
(***************************************************************************)
(* Proofs about BackupDelete when commands run one at a time (~Overlap),   *)
(* for any processes, command lines and rows, with kills, failed           *)
(* statements and panics: the statuses that a row goes through, and the    *)
(* order in which a cascade deletes.                                       *)
(***************************************************************************)
EXTENDS BackupDelete_proofs

\* The step of p.
Steps(p) == Start(p) \/ StartFails(p) \/ Step(p) \/ Crash(p)

\* The steps between two accesses to table backups.
DeleterSteps(p) ==
  \/ RunPlugin(p) \/ LocatePlugin(p) \/ LocateLocal(p) \/ ReadSegments(p)
  \/ CheckSegment(p) \/ AcceptSegments(p) \/ RefuseSegments(p)
  \/ RemoveSegment(p) \/ FailSegment(p) \/ EndSegments(p)
  \/ RemoveCoordinatorDir(p)
-----------------------------------------------------------------------------
(* Rows and plans *)

\* A dependent's plan names the backup.
LEMMA DependentIff ==
  ASSUME NEW t, NEW u, NEW plans
  PROVE  t \in Dependents(u, plans) <=> t # u /\ <<t, u>> \in plans
<1>1. <<t, u>>[1] = t
  OBVIOUS
<1> QED
  BY <1>1 DEF Dependents

\* With plans that name the whole chain, a dependent of a dependent is a dependent
\* and newer than both.
LEMMA DependentsClosed ==
  ASSUME NEW plans, plans \subseteq Nat \X Nat, PlansClosed(plans),
         NEW b, NEW c \in Dependents(b, plans)
  PROVE  /\ b \in Nat /\ c \in Nat /\ c > b
         /\ b \notin Dependents(c, plans)
         /\ \A e \in Dependents(c, plans) :
              e \in Dependents(b, plans) /\ e \in Nat /\ e > c
<1>1. \A t, u : <<t, u>> \in plans => t \in Nat /\ u \in Nat /\ u <= t
  <2>1. ASSUME NEW t, NEW u, <<t, u>> \in plans
        PROVE  t \in Nat /\ u \in Nat /\ u <= t
    <3>1. <<t, u>>[2] <= <<t, u>>[1]
      BY <2>1 DEF PlansClosed
    <3> QED
      BY <2>1, <3>1
  <2> QED
    BY <2>1
<1>2. c # b /\ <<c, b>> \in plans
  BY DependentIff
<1>3. b \in Nat /\ c \in Nat /\ c > b
  BY <1>1, <1>2
<1>4. ASSUME b \in Dependents(c, plans) PROVE FALSE
  <2>1. <<b, c>> \in plans
    BY <1>4, DependentIff
  <2>2. c <= b
    BY <1>1, <2>1
  <2> QED
    BY <1>3, <2>2
<1>5. ASSUME NEW e \in Dependents(c, plans)
      PROVE  e \in Dependents(b, plans) /\ e \in Nat /\ e > c
  <2>1. e # c /\ <<e, c>> \in plans
    BY DependentIff
  <2>2. e \in Nat /\ e > c
    BY <1>1, <1>3, <2>1
  <2>3. <<e, b>> \in plans
    <3>1. <<e, c>>[2] = <<c, b>>[1] /\ <<e, c>>[1] = e /\ <<c, b>>[2] = b
      OBVIOUS
    <3> QED
      BY <1>2, <2>1, <3>1 DEF PlansClosed
  <2> QED
    BY <1>3, <2>2, <2>3, DependentIff
<1> QED
  BY <1>3, <1>4, <1>5

\* What checkBackupCanBeUsed takes without --force it does not skip, whichever
\* storage is asked for.
LEMMA UsedOrSkipped ==
  ASSUME NEW row, NEW plugin
  PROVE  /\ CheckBackupCanBeUsed(FALSE, plugin, row) = "use"
              => CheckBackupCanBeUsed(FALSE, ~IsLocal(row), row) # "skip"
         /\ CheckBackupCanBeUsed(FALSE, plugin, row) = "skip"
              => CheckBackupCanBeUsed(FALSE, ~IsLocal(row), row) = "skip"
BY DEF CheckBackupCanBeUsed, LocalStatusIsError, IsLocal

\* A deletion in progress, and a date, are skipped.
LEMMA StatusSkips ==
  ASSUME NEW b
  PROVE  /\ backups[b].dateDeleted \in {DateDeletedInProgress, "date"}
              => Skipped(b)
         /\ backups'[b].dateDeleted \in {DateDeletedInProgress, "date"}
              => Skipped(b)'
BY DEF Skipped, CheckBackupCanBeUsed, LocalStatusIsError, IsLocal,
       IsBackupActive, DateDeletedIsError, DateDeletedKnown, DateDeletedActive,
       DateDeletedInProgress, DateDeletedPluginFailed, DateDeletedLocalFailed
-----------------------------------------------------------------------------
(* Control *)

\* One command at a time: the others have ended or are still to come.
LEMMA OthersIdle ==
  ASSUME TypeOK, OneActive, ~Overlap, NEW p \in Proc, Steps(p)
  PROVE  /\ \A q \in Proc \ {p} : /\ proc'[q] = proc[q]
                                  /\ ~Active(q) /\ ~Active(q)'
         /\ OneActive'
<1>1. \A q \in Proc \ {p} : proc'[q] = proc[q]
  BY OthersSame DEF Steps
<1>2. CASE Start(p) \/ StartFails(p)
  BY <1>1, <1>2 DEF Start, StartFails, Active, OneActive
<1>3. CASE Step(p) \/ Crash(p)
  <2>1. Active(p)
    BY <1>3 DEF Step, Crash, Active, Running, NoMoreNames, ConsiderName,
       QueryDependencies, ConsiderDependent, EndCascade, MarkInProgress,
       RecordFailure, RunPlugin, LocatePlugin, LocateLocal, ReadSegments,
       CheckSegment, AcceptSegments, RefuseSegments, RemoveSegment, FailSegment,
       Die, EndSegments, RemoveCoordinatorDir, MarkDeleted
  <2> QED
    BY <1>1, <2>1 DEF OneActive, Active
<1> QED
  BY <1>2, <1>3 DEF Steps

\* A process keeps its flags.
LEMMA CommandKept ==
  ASSUME TypeOK, NEW p \in Proc, Steps(p)
  PROVE  proc'[p].cmd = proc[p].cmd
<1>1. proc \in [Proc -> ProcState] /\ proc[p] \in ProcState
  BY DEF TypeOK
<1>2. \A label : Goto(p, label) \/ Fail(p, label)
        => proc'[p].cmd = proc[p].cmd
  BY <1>1 DEF Goto, Fail, ProcState
<1>3. CASE Start(p) \/ StartFails(p) \/ NoMoreNames(p) \/ ConsiderName(p)
             \/ Crash(p)
  BY <1>1, <1>2, <1>3
     DEF Start, StartFails, NoMoreNames, ConsiderName, Crash, DBError, ProcState
<1>4. CASE QueryDependencies(p) \/ ConsiderDependent(p) \/ EndCascade(p)
  BY <1>1, <1>2, <1>4
     DEF QueryDependencies, ConsiderDependent, EndCascade, DBError, ProcState
<1>5. CASE MarkInProgress(p) \/ RecordFailure(p) \/ MarkDeleted(p)
  BY <1>2, <1>5 DEF MarkInProgress, RecordFailure, MarkDeleted, SetStatus, DBError
<1>6. CASE RunPlugin(p) \/ RemoveCoordinatorDir(p) \/ RefuseSegments(p) \/ Die(p)
  BY <1>2, <1>6
     DEF RunPlugin, RemoveCoordinatorDir, RefuseSegments, Die, Ignorable
<1>7. CASE LocatePlugin(p) \/ LocateLocal(p)
  <2>1. \/ Fail(p, "exit1")
        \/ \E label : Locate(p, label)
        \/ \E found, after : proc' = [proc EXCEPT ![p].pc = "recordFailure",
              ![p].after = after, ![p].located = found]
    BY <1>7 DEF LocatePlugin, LocateLocal
  <2>2. \A label, found, after :
          \/ Locate(p, label)
          \/ proc' = [proc EXCEPT ![p].pc = "recordFailure",
                ![p].after = after, ![p].located = found]
          => proc'[p].cmd = proc[p].cmd
    BY <1>1 DEF Locate, ProcState
  <2> QED
    BY <1>2, <2>1, <2>2
<1>8. CASE ReadSegments(p) \/ AcceptSegments(p) \/ EndSegments(p)
  BY <1>1, <1>2, <1>8
     DEF ReadSegments, AcceptSegments, EndSegments, Ignorable, ProcState
<1>9. CASE CheckSegment(p) \/ RemoveSegment(p)
  <2>1. PICK d : proc' = [proc EXCEPT ![p].seen = @ \cup {d}]
    BY <1>9 DEF CheckSegment, RemoveSegment
  <2> QED
    BY <1>1, <2>1 DEF ProcState
<1>10. CASE FailSegment(p)
  <2>1. PICK d : proc' = [proc EXCEPT ![p].seen = @ \cup {d},
                                      ![p].doomed = TRUE]
    BY <1>10 DEF FailSegment
  <2> QED
    BY <1>1, <2>1 DEF ProcState
<1> QED
  BY <1>3, <1>4, <1>5, <1>6, <1>7, <1>8, <1>9, <1>10 DEF Steps, Step

\* An UPDATE of the row of c.
LEMMA UpdateRow ==
  ASSUME TypeOK, NEW c, NEW d, backups' = UpdateDeleteStatus(c, d, backups)
  PROVE  /\ DOMAIN backups' = DOMAIN backups
         /\ \A t \in DOMAIN backups :
              /\ t # c => backups'[t] = backups[t]
              /\ t = c => /\ backups'[t].dateDeleted = d
                          /\ backups'[t].plugin = backups[t].plugin
<1>1. \A t \in DOMAIN backups : backups[t] \in Row
  BY DEF TypeOK
<1> QED
  BY <1>1 DEF UpdateDeleteStatus, Row
-----------------------------------------------------------------------------
(* The ways a step of p can go, by what StatusInv and CascadeInv look at *)

SameLoop(p) == /\ proc'[p].name = proc[p].name
               /\ proc'[p].deps = proc[p].deps
SameDeletion(p) == SameLoop(p) /\ proc'[p].cur = proc[p].cur
Moves(p, from, to) == proc[p].pc \in from /\ proc'[p].pc \in to
Updates(p, d) == /\ backups' = UpdateDeleteStatus(proc[p].cur, d, backups)
                 /\ restorePlans' = restorePlans

TurnIdle(p) == UNCHANGED db /\ proc'[p].pc \in Ended \cup {"next"}

TurnName(p) == /\ UNCHANGED db /\ Moves(p, {"next"}, {"dependencies"})
               /\ Verdict(p, proc'[p].name) = "use"

TurnQuery(p) ==
  /\ UNCHANGED db /\ Moves(p, {"dependencies"}, {"cascade"})
  /\ proc'[p].name = proc[p].name
  /\ proc'[p].deps = GetBackupDependencies(proc[p].name, restorePlans)

TurnDependent(p) ==
  /\ UNCHANGED db /\ Moves(p, {"cascade"}, {"begin", "cascade"})
  /\ proc[p].deps # <<>>
  /\ proc'[p].name = proc[p].name /\ proc'[p].deps = Tail(proc[p].deps)
  /\ proc'[p].cur = Head(proc[p].deps)
  /\ Verdict(p, Head(proc[p].deps)) =
       IF proc'[p].pc = "begin" THEN "use" ELSE "skip"

TurnLast(p) ==
  /\ UNCHANGED db /\ Moves(p, {"cascade"}, {"begin"})
  /\ proc[p].deps = <<>> /\ SameLoop(p) /\ proc'[p].cur = proc[p].name

TurnMark(p) ==
  /\ Updates(p, DateDeletedInProgress) /\ SameDeletion(p)
  /\ Moves(p, {"begin"}, {"plugin", "locate"})

TurnDelete(p) ==
  UNCHANGED db /\ SameDeletion(p) /\ Moves(p, Deleting, Deleting)

TurnFail(p) ==
  /\ Updates(p, IF proc[p].cmd.plugin THEN DateDeletedPluginFailed
                ELSE DateDeletedLocalFailed)
  /\ SameDeletion(p)
  /\ Moves(p, {"recordFailure"}, Deleting \cup {"exit1"})

TurnFinish(p) ==
  /\ Updates(p, "date") /\ SameDeletion(p)
  /\ Moves(p, {"finish"}, {IF proc[p].cur = proc[p].name THEN "next"
                           ELSE "cascade"})

Turn(p) == \/ TurnIdle(p) \/ TurnName(p) \/ TurnQuery(p) \/ TurnDependent(p)
           \/ TurnLast(p) \/ TurnMark(p) \/ TurnDelete(p) \/ TurnFail(p)
           \/ TurnFinish(p)

\* What Goto leaves alone.
LEMMA GotoTurn ==
  ASSUME TypeOK, NEW p \in Proc, NEW label, Goto(p, label)
  PROVE  SameDeletion(p) /\ proc'[p].pc = label
<1>1. proc \in [Proc -> ProcState] /\ proc[p] \in ProcState
  BY DEF TypeOK
<1> QED
  BY <1>1 DEF Goto, SameDeletion, SameLoop, ProcState

LEMMA FailTurn ==
  ASSUME TypeOK, NEW p \in Proc, NEW label, Fail(p, label)
  PROVE  SameDeletion(p) /\ proc'[p].pc = "recordFailure"
<1>1. proc \in [Proc -> ProcState] /\ proc[p] \in ProcState
  BY DEF TypeOK
<1> QED
  BY <1>1 DEF Fail, SameDeletion, SameLoop, ProcState

\* The loops' part.
LEMMA ListingTurn ==
  ASSUME TypeOK, NEW p \in Proc,
         \/ Start(p) \/ StartFails(p) \/ NoMoreNames(p) \/ ConsiderName(p)
         \/ QueryDependencies(p) \/ ConsiderDependent(p) \/ EndCascade(p)
         \/ Die(p) \/ Crash(p)
  PROVE  Turn(p)
<1>1. proc \in [Proc -> ProcState] /\ proc[p] \in ProcState
  BY DEF TypeOK
<1>2. \A label : Goto(p, label) => proc'[p].pc = label
  BY GotoTurn
<1>3. DBError(p, "exit1") => TurnIdle(p)
  BY <1>2 DEF DBError, TurnIdle, Ended
<1>4. CASE Start(p) \/ StartFails(p) \/ NoMoreNames(p) \/ Die(p) \/ Crash(p)
  <2>1. CASE Start(p)
    BY <1>1, <2>1 DEF Start, Turn, TurnIdle, ProcState
  <2> QED
    BY <1>2, <1>3, <1>4, <2>1
       DEF StartFails, NoMoreNames, Die, Crash, Turn, TurnIdle, Ended
<1>5. CASE ConsiderName(p)
  <2> DEFINE b == Head(proc[p].todo)
             label == [use |-> "dependencies", skip |-> "next",
                       error |-> "exit1"]
  <2>1. CASE proc' = [proc EXCEPT ![p].pc = label[Verdict(p, b)],
                        ![p].name = b, ![p].todo = Tail(@)]
    <3>1. proc'[p].pc = label[Verdict(p, b)] /\ proc'[p].name = b
      BY <1>1, <2>1 DEF ProcState
    <3>2. Verdict(p, b) \in {"use", "skip", "error"}
      BY VerdictPicks
    <3>3. UNCHANGED db /\ proc[p].pc = "next"
      BY <1>5 DEF ConsiderName, DBError
    <3> QED
      BY <3>1, <3>2, <3>3 DEF Turn, TurnIdle, TurnName, Moves, Ended
  <2> QED
    BY <1>3, <1>5, <2>1 DEF ConsiderName, Turn
<1>6. CASE QueryDependencies(p)
  BY <1>1, <1>3, <1>6
     DEF QueryDependencies, Turn, TurnIdle, TurnQuery, Moves, Ended, ProcState
<1>7. CASE ConsiderDependent(p)
  <2> DEFINE b == Head(proc[p].deps)
             label == [use |-> "begin", skip |-> "cascade", error |-> "exit1"]
  <2>1. CASE proc' = [proc EXCEPT ![p].pc = label[Verdict(p, b)],
                        ![p].cur = b, ![p].deps = Tail(@)]
    <3>1. /\ proc'[p].pc = label[Verdict(p, b)] /\ proc'[p].cur = b
          /\ proc'[p].deps = Tail(proc[p].deps)
          /\ proc'[p].name = proc[p].name
      BY <1>1, <2>1 DEF ProcState
    <3>2. Verdict(p, b) \in {"use", "skip", "error"}
      BY VerdictPicks
    <3>3. UNCHANGED db /\ proc[p].pc = "cascade" /\ proc[p].deps # <<>>
      BY <1>7 DEF ConsiderDependent, DBError
    <3> QED
      BY <3>1, <3>2, <3>3 DEF Turn, TurnIdle, TurnDependent, Moves, Ended
  <2> QED
    BY <1>3, <1>7, <2>1 DEF ConsiderDependent, Turn
<1>8. CASE EndCascade(p)
  BY <1>1, <1>8 DEF EndCascade, Turn, TurnLast, Moves, SameLoop, ProcState
<1> QED
  BY <1>4, <1>5, <1>6, <1>7, <1>8

\* The deleters' part, between the UPDATEs.
LEMMA DeleterTurn ==
  ASSUME TypeOK, NEW p \in Proc, DeleterSteps(p)
  PROVE  TurnDelete(p)
<1>1. proc \in [Proc -> ProcState] /\ proc[p] \in ProcState
  BY DEF TypeOK
<1>2. UNCHANGED db
  BY DEF DeleterSteps, RunPlugin, LocatePlugin, LocateLocal, ReadSegments,
     CheckSegment, AcceptSegments, RefuseSegments, RemoveSegment, FailSegment,
     EndSegments, RemoveCoordinatorDir
<1>3. proc[p].pc \in Deleting
  BY DEF DeleterSteps, RunPlugin, LocatePlugin, LocateLocal, ReadSegments,
     CheckSegment, AcceptSegments, RefuseSegments, RemoveSegment, FailSegment,
     EndSegments, RemoveCoordinatorDir, Deleting
<1> SUFFICES SameDeletion(p) /\ proc'[p].pc \in Deleting
  BY <1>2, <1>3 DEF TurnDelete, Moves
<1>4. \A label : (Goto(p, label) /\ label \in Deleting) \/ Fail(p, label)
                   => SameDeletion(p) /\ proc'[p].pc \in Deleting
  BY GotoTurn, FailTurn DEF Deleting
<1>5. CASE RunPlugin(p) \/ RemoveCoordinatorDir(p) \/ RefuseSegments(p)
  BY <1>4, <1>5
     DEF RunPlugin, RemoveCoordinatorDir, RefuseSegments, Ignorable, Deleting
<1>6. CASE LocatePlugin(p)
  <2>1. \/ Locate(p, "coordinator")
        \/ \E found, after : proc' = [proc EXCEPT ![p].pc = "recordFailure",
             ![p].after = after, ![p].located = found]
    BY <1>6 DEF LocatePlugin
  <2>2. ASSUME NEW found, NEW after,
               proc' = [proc EXCEPT ![p].pc = "recordFailure",
                          ![p].after = after, ![p].located = found]
        PROVE  SameDeletion(p) /\ proc'[p].pc \in Deleting
    BY <1>1, <2>2 DEF SameDeletion, SameLoop, ProcState, Deleting
  <2>3. CASE Locate(p, "coordinator")
    BY <1>1, <2>3 DEF Locate, SameDeletion, SameLoop, ProcState, Deleting
  <2> QED
    BY <2>1, <2>2, <2>3
<1>7. CASE LocateLocal(p)
  <2>1. \/ Fail(p, "exit1")
        \/ \E label \in {"coordinator", "segments"} : Locate(p, label)
    BY <1>7 DEF LocateLocal
  <2>2. ASSUME NEW label \in {"coordinator", "segments"}, Locate(p, label)
        PROVE  SameDeletion(p) /\ proc'[p].pc \in Deleting
    BY <1>1, <2>2 DEF Locate, SameDeletion, SameLoop, ProcState, Deleting
  <2> QED
    BY <1>4, <2>1, <2>2
<1>8. CASE ReadSegments(p) \/ AcceptSegments(p) \/ EndSegments(p)
  <2>1. \/ Ignorable(p, "coordinator")
        \/ \E label \in {"checking", "removing", "coordinator"} :
             proc' = [proc EXCEPT ![p].pc = label, ![p].seen = {}]
    BY <1>8 DEF ReadSegments, AcceptSegments, EndSegments
  <2>2. ASSUME NEW label \in {"checking", "removing", "coordinator"},
               proc' = [proc EXCEPT ![p].pc = label, ![p].seen = {}]
        PROVE  SameDeletion(p) /\ proc'[p].pc \in Deleting
    BY <1>1, <2>2 DEF SameDeletion, SameLoop, ProcState, Deleting
  <2> QED
    BY <1>4, <2>1, <2>2 DEF Ignorable
<1>9. CASE CheckSegment(p) \/ RemoveSegment(p)
  <2>1. PICK d : proc' = [proc EXCEPT ![p].seen = @ \cup {d}]
    BY <1>9 DEF CheckSegment, RemoveSegment
  <2> QED
    BY <1>1, <1>3, <2>1 DEF SameDeletion, SameLoop, ProcState
<1>10. CASE FailSegment(p)
  <2>1. PICK d : proc' = [proc EXCEPT ![p].seen = @ \cup {d},
                                      ![p].doomed = TRUE]
    BY <1>10 DEF FailSegment
  <2> QED
    BY <1>1, <1>3, <2>1 DEF SameDeletion, SameLoop, ProcState
<1> QED
  BY <1>5, <1>6, <1>7, <1>8, <1>9, <1>10 DEF DeleterSteps

\* The UPDATEs.
LEMMA StatusTurn ==
  ASSUME TypeOK, IInv, NEW p \in Proc,
         MarkInProgress(p) \/ RecordFailure(p) \/ MarkDeleted(p)
  PROVE  Turn(p)
<1>1. \A label : Goto(p, label) => SameDeletion(p) /\ proc'[p].pc = label
  BY GotoTurn
<1>2. CASE MarkInProgress(p)
  BY <1>1, <1>2 DEF MarkInProgress, SetStatus, DBError, Turn, TurnMark, TurnIdle,
     Updates, Moves, Ended
<1>3. CASE RecordFailure(p)
  <2>1. PickedInv(p) /\ proc[p].pc = "recordFailure"
    BY <1>3 DEF IInv, ProcInv, RecordFailure
  <2>2. proc[p].after \in Deleting \cup {"exit1"}
    BY <2>1 DEF PickedInv, Deleting
  <2>3. CASE DBError(p, proc[p].after)
    <3>1. UNCHANGED db /\ SameDeletion(p) /\ proc'[p].pc = proc[p].after
      BY <1>1, <2>3 DEF DBError
    <3> QED
      BY <2>1, <2>2, <3>1
         DEF Turn, TurnDelete, TurnIdle, Moves, Deleting, Ended
  <2> QED
    BY <1>1, <1>3, <2>1, <2>2, <2>3
       DEF RecordFailure, SetStatus, Turn, TurnFail, Updates, Moves
<1>4. CASE MarkDeleted(p)
  BY <1>1, <1>4 DEF MarkDeleted, SetStatus, DBError, Turn, TurnFinish, TurnIdle,
     Updates, Moves, Ended
<1> QED
  BY <1>2, <1>3, <1>4

LEMMA StepTurn ==
  ASSUME TypeOK, IInv, NEW p \in Proc, Steps(p)
  PROVE  Turn(p)
BY ListingTurn, DeleterTurn, StatusTurn DEF Steps, Step, DeleterSteps, Turn
-----------------------------------------------------------------------------
(* The statuses *)

-----------------------------------------------------------------------------
(* The statuses *)

\* checkBackupCanBeUsed says the same of a row that stays.
LEMMA VerdictKept ==
  ASSUME NEW p \in Proc, proc'[p].cmd = proc[p].cmd, NEW b,
         DOMAIN backups' = DOMAIN backups,
         b \in DOMAIN backups => backups'[b] = backups[b]
  PROVE  Verdict(p, b)' = Verdict(p, b)
BY DEF Verdict

\* What StatusInv says of p after its step.
LEMMA TurnStatus ==
  ASSUME TypeOK, IInv, NEW p \in Proc, StatusInv(p), Turn(p),
         proc'[p].cmd = proc[p].cmd
  PROVE  StatusInv(p)'
<1> DEFINE cur == proc[p].cur
           name == proc[p].name
<1>1. /\ "next" \notin Deleting /\ "dependencies" \notin Deleting
      /\ "cascade" \notin Deleting /\ "begin" \notin Deleting
      /\ "exit1" \notin Deleting /\ Deleting \cap Ended = {}
      /\ {"plugin", "locate", "recordFailure", "finish"} \subseteq Deleting
  BY DEF Deleting, Ended
<1>2. ASSUME UNCHANGED db, NEW b
      PROVE  Verdict(p, b)' = Verdict(p, b)
  BY <1>2, VerdictKept DEF db
<1>3. CASE TurnIdle(p)
  BY <1>1, <1>3 DEF TurnIdle, StatusInv, Ended
<1>4. CASE TurnName(p) \/ TurnQuery(p)
  BY <1>1, <1>2, <1>4 DEF TurnName, TurnQuery, Moves, StatusInv
<1>5. CASE TurnDependent(p) \/ TurnLast(p)
  BY <1>1, <1>2, <1>5
     DEF TurnDependent, TurnLast, SameLoop, Moves, StatusInv
<1>6. CASE TurnDelete(p)
  BY <1>1, <1>2, <1>6 
     DEF TurnDelete, SameDeletion, SameLoop, Moves, StatusInv, db
<1>7. ASSUME NEW d, Updates(p, d), SameDeletion(p),
             proc[p].pc \in Deleting \cup {"begin"},
             \/ /\ proc'[p].pc \in Deleting
                /\ d \in {DateDeletedInProgress, DateDeletedPluginFailed,
                          DateDeletedLocalFailed}
             \/ proc'[p].pc \in {"next", "exit1"}
             \/ proc'[p].pc = "cascade" /\ cur # name
      PROVE  StatusInv(p)'
  <2>1. cur \in DOMAIN backups
    BY <1>7 DEF IInv, ProcInv, PickedInv, Picked
  <2>2. /\ backups'[cur].dateDeleted = d
        /\ \A b : b # cur => Verdict(p, b)' = Verdict(p, b)
    <3>1. /\ DOMAIN backups' = DOMAIN backups
          /\ backups'[cur].dateDeleted = d
          /\ \A b \in DOMAIN backups : b # cur => backups'[b] = backups[b]
      BY <1>7, <2>1, UpdateRow DEF Updates
    <3> QED
      BY <3>1, VerdictKept
  <2>3. cur # name => Verdict(p, name) = "use"
    BY <1>7 DEF StatusInv
  <2>4. proc'[p].cur = cur /\ proc'[p].name = name
    BY <1>7 DEF SameDeletion, SameLoop
  <2>5. CASE proc'[p].pc \in {"next", "exit1"}
    BY <1>1, <2>5 DEF StatusInv
  <2>6. CASE proc'[p].pc = "cascade" /\ cur # name
    BY <1>1, <2>2, <2>3, <2>4, <2>6 DEF StatusInv
  <2>7. CASE proc'[p].pc \in Deleting
    <3>1. cur # name => Verdict(p, name)' = "use"
      BY <2>2, <2>3, <2>4
    <3>2. backups'[cur].dateDeleted \in
            {DateDeletedInProgress, DateDeletedPluginFailed,
             DateDeletedLocalFailed}
      BY <1>1, <1>7, <2>2, <2>7
    <3> QED
      BY <1>1, <2>4, <2>7, <3>1, <3>2 DEF StatusInv
  <2> QED
    BY <1>7, <2>5, <2>6, <2>7
<1>8. CASE TurnMark(p)
  BY <1>1, <1>7, <1>8 DEF TurnMark, Moves
<1>9. CASE TurnFail(p)
  BY <1>1, <1>7, <1>9 DEF TurnFail, Moves
<1>10. CASE TurnFinish(p)
  BY <1>1, <1>7, <1>10 DEF TurnFinish, Moves
<1> QED
  BY <1>3, <1>4, <1>5, <1>6, <1>8, <1>9, <1>10 DEF Turn

\* A process that is not at work has nothing to answer for.
LEMMA IdleStatus ==
  ASSUME NEW q \in Proc
  PROVE  /\ ~Active(q) => StatusInv(q) /\ CascadeInv(q)
         /\ ~Active(q)' => StatusInv(q)' /\ CascadeInv(q)'
BY DEF Active, Running, StatusInv, CascadeInv, Deleting

LEMMA NextStatus ==
  ASSUME ~Overlap, TypeOK, IInv, SequentialInv, [Next]_vars
  PROVE  SequentialInv'
<1>1. CASE UNCHANGED vars
  BY <1>1 DEF vars, SequentialInv, OneActive, Active, StatusInv, Verdict
<1>2. ASSUME NEW p \in Proc, Steps(p)
      PROVE  SequentialInv'
  <2>1. /\ \A q \in Proc \ {p} : ~Active(q)'
        /\ OneActive'
    BY <1>2, OthersIdle DEF SequentialInv
  <2>2. StatusInv(p)'
    BY <1>2, StepTurn, CommandKept, TurnStatus DEF SequentialInv
  <2>3. \A q \in Proc \ {p} : StatusInv(q)'
    BY <2>1, IdleStatus
  <2> QED
    BY <2>1, <2>2, <2>3 DEF SequentialInv
<1> QED
  BY <1>1, <1>2 DEF Next, Terminated, Steps

\* No process is at work at first.
LEMMA InitIdle == Init => \A p \in Proc : ~Active(p)
BY DEF Init, Active, Running

\* One command at a time: what checkBackupCanBeUsed let through is as it was when
\* the deleter marks it, and the deleter then finds its own statuses in the row.
THEOREM OneAtATime ==
  ASSUME ~Overlap
  PROVE  Spec => []SequentialInv
<1>1. Init => SequentialInv
  BY InitIdle, IdleStatus DEF SequentialInv, OneActive
<1>2. TypeOK /\ IInv /\ SequentialInv /\ [Next]_vars => SequentialInv'
  BY NextStatus
<1> QED
  BY <1>1, <1>2, TypeCorrect, Invariance, PTL DEF Spec
-----------------------------------------------------------------------------
(* DeletionStatus *)

\* Is the command at work one with --force?
Forced == \E p \in Proc : Active(p) /\ proc[p].cmd.force

\* The operators of DeletionStatus are those of HistoryDB.
LEMMA SameOperators ==
  /\ \A force, plugin, row : Status!CheckBackupCanBeUsed(force, plugin, row)
                               = CheckBackupCanBeUsed(force, plugin, row)
  /\ \A row : Status!IsLocal(row) = IsLocal(row)
  /\ \A b, d, rows :
       Status!UpdateDeleteStatus(b, d, rows) = UpdateDeleteStatus(b, d, rows)
  /\ Status!DateDeletedInProgress = DateDeletedInProgress
  /\ Status!DateDeletedPluginFailed = DateDeletedPluginFailed
  /\ Status!DateDeletedLocalFailed = DateDeletedLocalFailed
  /\ Status!Row = Row
<1>1. \A force, plugin, row : Status!CheckBackupCanBeUsed(force, plugin, row)
                                = CheckBackupCanBeUsed(force, plugin, row)
  BY DEF Status!CheckBackupCanBeUsed, CheckBackupCanBeUsed,
     Status!LocalStatusIsError, LocalStatusIsError, Status!IsLocal, IsLocal,
     Status!IsInProgress, IsInProgress, Status!IsBackupActive, IsBackupActive,
     Status!DateDeletedIsError, DateDeletedIsError, Status!DateDeletedKnown,
     DateDeletedKnown, Status!BackupStatusInProgress, BackupStatusInProgress,
     Status!DateDeletedActive, DateDeletedActive,
     Status!DateDeletedInProgress, DateDeletedInProgress,
     Status!DateDeletedPluginFailed, DateDeletedPluginFailed,
     Status!DateDeletedLocalFailed, DateDeletedLocalFailed
<1>2. \A b, d, rows :
        Status!UpdateDeleteStatus(b, d, rows) = UpdateDeleteStatus(b, d, rows)
  BY DEF Status!UpdateDeleteStatus, UpdateDeleteStatus
<1>3. Status!Row = Row
  BY DEF Status!Row, Row, Status!BackupStatus, BackupStatus,
     Status!BackupStatusSuccess, BackupStatusSuccess,
     Status!BackupStatusFailure, BackupStatusFailure,
     Status!BackupStatusInProgress, BackupStatusInProgress,
     Status!DateDeleted, DateDeleted, Status!DateDeletedKnown, DateDeletedKnown,
     Status!DateDeletedActive, DateDeletedActive,
     Status!DateDeletedInProgress, DateDeletedInProgress,
     Status!DateDeletedPluginFailed, DateDeletedPluginFailed,
     Status!DateDeletedLocalFailed, DateDeletedLocalFailed
<1> QED
  BY <1>1, <1>2, <1>3 DEF Status!IsLocal, IsLocal,
     Status!DateDeletedInProgress, DateDeletedInProgress,
     Status!DateDeletedPluginFailed, DateDeletedPluginFailed,
     Status!DateDeletedLocalFailed, DateDeletedLocalFailed

\* A step of p is a step of DeletionStatus, or leaves table backups alone.
LEMMA TurnImplements ==
  ASSUME TypeOK, IInv, OneActive, NEW p \in Proc, StatusInv(p), Turn(p)
  PROVE  Status!Next \/ UNCHANGED backups
<1> DEFINE cur == proc[p].cur
           row == backups[cur]
<1>1. proc[p].pc \in Deleting \cup {"begin"}
        => cur \in DOMAIN backups /\ proc[p].cmd.plugin = ~IsLocal(row)
  <2>1. proc[p].cmd.plugin \in BOOLEAN
    BY DEF IInv, FormInv
  <2> QED
    BY <2>1 DEF IInv, ProcInv, PickedInv, Picked, LocalStatusIsError, IsLocal
<1>2. CASE TurnMark(p)
  <2>1. proc[p].pc = "begin"
    BY <1>2 DEF TurnMark, Moves
  <2>2. Forced = proc[p].cmd.force
    <3>1. Active(p)
      BY <2>1 DEF Active, Running
    <3>2. proc[p].cmd.force \in BOOLEAN
      BY DeleteAssumption DEF TypeOK, ProcState
    <3> QED
      BY <3>1, <3>2 DEF OneActive, Forced
  <2>3. CheckBackupCanBeUsed(Forced, ~IsLocal(row), row) = "use"
    BY <1>1, <2>1, <2>2 DEF StatusInv, Verdict
  <2>4. backups' = UpdateDeleteStatus(cur, DateDeletedInProgress, backups)
    BY <1>2 DEF TurnMark, Updates
  <2>5. Status!Begin(cur)
    BY <2>3, <2>4, SameOperators DEF Status!Begin, Status!Set, Forced
  <2> QED
    BY <1>1, <2>1, <2>5 DEF Status!Next
<1>3. proc[p].pc \in Deleting => row.dateDeleted \in Status!Begun
  BY SameOperators DEF StatusInv, Status!Begun
<1>4. CASE TurnFail(p)
  <2>1. proc[p].pc \in Deleting
    BY <1>4 DEF TurnFail, Moves, Deleting
  <2>2. backups' = UpdateDeleteStatus(cur,
                     IF IsLocal(row) THEN DateDeletedLocalFailed
                     ELSE DateDeletedPluginFailed, backups)
    BY <1>1, <1>4, <2>1 DEF TurnFail, Updates
  <2>3. Status!Fail(cur)
    BY <1>3, <2>1, <2>2, SameOperators DEF Status!Fail, Status!Set
  <2> QED
    BY <1>1, <2>1, <2>3 DEF Status!Next
<1>5. CASE TurnFinish(p)
  <2>1. proc[p].pc \in Deleting
    BY <1>5 DEF TurnFinish, Moves, Deleting
  <2>2. backups' = UpdateDeleteStatus(cur, "date", backups)
    BY <1>5 DEF TurnFinish, Updates
  <2>3. Status!Finish(cur)
    BY <1>3, <2>1, <2>2, SameOperators DEF Status!Finish, Status!Set
  <2> QED
    BY <1>1, <2>1, <2>3 DEF Status!Next
<1> QED
  BY <1>2, <1>4, <1>5 DEF Turn, TurnIdle, TurnName, TurnQuery, TurnDependent,
     TurnLast, TurnDelete, db

\* Commands one at a time take table backups through the statuses of
\* DeletionStatus and no others, whatever fails, panics or is killed.
THEOREM StatusImplementation ==
  ASSUME ~Overlap
  PROVE  Spec => ImplementsDeletionStatus
<1>1. Init => Status!Init
  BY InitTypeOK, SameOperators DEF TypeOK, Status!Init
<1>2. ASSUME TypeOK, IInv, SequentialInv, [Next]_vars
      PROVE  [Status!Next]_backups
  <2>1. ASSUME NEW p \in Proc, Steps(p)
        PROVE  Status!Next \/ UNCHANGED backups
    BY <1>2, <2>1, StepTurn, TurnImplements DEF SequentialInv
  <2> QED
    BY <1>2, <2>1 DEF Next, Terminated, Steps, vars
<1> QED
  BY <1>1, <1>2, TypeCorrect, Invariance, OneAtATime, PTL
     DEF Spec, ImplementsDeletionStatus, Status!Spec

\* A step of DeletionStatus takes no date away without --force.
LEMMA StatusKeepsDates ==
  ASSUME TypeOK, Status!Next, ~Forced,
         NEW b \in DOMAIN backups, backups[b].dateDeleted = "date"
  PROVE  backups'[b].dateDeleted = "date"
<1>1. PICK t \in DOMAIN backups :
        Status!Begin(t) \/ Status!Fail(t) \/ Status!Finish(t)
  BY DEF Status!Next
<1>2. t # b
  <2>1. "date" \notin Status!Begun
    BY SameOperators DEF Status!Begun, DateDeletedInProgress,
       DateDeletedPluginFailed, DateDeletedLocalFailed
  <2>2. CheckBackupCanBeUsed(Forced, ~IsLocal(backups[b]), backups[b]) # "use"
    BY StatusSkips DEF Skipped, CheckBackupCanBeUsed
  <2>3. Status!Begin(t) =>
          CheckBackupCanBeUsed(Forced, ~IsLocal(backups[t]), backups[t]) = "use"
    BY SameOperators DEF Status!Begin, Forced
  <2> QED
    BY <1>1, <2>1, <2>2, <2>3 DEF Status!Fail, Status!Finish
<1>3. PICK d : backups' = UpdateDeleteStatus(t, d, backups)
  BY <1>1, SameOperators
     DEF Status!Begin, Status!Fail, Status!Finish, Status!Set
<1> QED
  BY <1>2, <1>3, UpdateRow

\* Without --force a deleted backup is never deleted again: not by a name given
\* twice, not by a cascade and not after a kill.
THEOREM DatesStay ==
  ASSUME ~Overlap
  PROVE  Spec => DeletedOnce
<1> DEFINE Stay == \A b \in DOMAIN backups :
             /\ backups[b].dateDeleted = "date"
             /\ \A p \in Proc : Active(p) => ~proc[p].cmd.force
             => backups'[b].dateDeleted = "date"
<1>1. ASSUME TypeOK, [Status!Next]_backups PROVE [Stay]_vars
  BY <1>1, StatusKeepsDates DEF Forced
<1>2. TypeOK /\ [Status!Next]_backups => [Stay]_vars
  BY <1>1
<1>3. Spec => [][Status!Next]_backups
  BY StatusImplementation DEF ImplementsDeletionStatus, Status!Spec
<1> QED
  BY <1>2, <1>3, TypeCorrect, PTL DEF DeletedOnce
-----------------------------------------------------------------------------
(* The order of a cascade *)

\* Plans relate timestamps, and a backup has finitely many dependents.
LEMMA PlansType ==
  ASSUME TypeOK
  PROVE  /\ restorePlans \subseteq Nat \X Nat
         /\ \A b : LET needing == Dependents(b, restorePlans)
                   IN  IsFiniteSet(needing) /\ \A t \in needing : t \in Nat
<1>1. restorePlans \subseteq Backup \X Backup /\ Backup \subseteq Nat
      /\ IsFiniteSet(Backup)
  BY DeleteAssumption DEF TypeOK
<1>2. \A b : Dependents(b, restorePlans) \subseteq Backup
  <2>1. \A b, t : t \in Dependents(b, restorePlans) => <<t, b>> \in Backup \X Backup
    BY <1>1, DependentIff
  <2> QED
    BY <2>1
<1>3. \A b : IsFiniteSet(Dependents(b, restorePlans))
  BY <1>1, <1>2, FS_Subset
<1> QED
  BY <1>1, <1>2, <1>3

\* What checkBackupCanBeUsed lets through has outlived no dependent of its own.
LEMMA UsedIsNeeded ==
  ASSUME TypeOK, DependentsFirst, NoForce, NEW p \in Proc, NEW b
  PROVE  /\ Verdict(p, b) = "use" => ~Outlived(b) /\ ~Skipped(b)
         /\ Verdict(p, b) = "skip" => Skipped(b)
<1>1. proc[p].cmd.force = FALSE
  BY DeleteAssumption DEF TypeOK, ProcState, NoForce
<1>2. Verdict(p, b) \in {"use", "skip"} => b \in DOMAIN backups
  BY DEF Verdict
<1>3. /\ Verdict(p, b) = "use" => ~Skipped(b)
      /\ Verdict(p, b) = "skip" => Skipped(b)
  BY <1>1, <1>2 DEF Verdict, Skipped, CheckBackupCanBeUsed, LocalStatusIsError,
     IsLocal
<1>4. b \in DOMAIN backups /\ Outlived(b) => Skipped(b)
  BY DEF NoForce, DependentsFirst, Outlived
<1> QED
  BY <1>2, <1>3, <1>4

\* An UPDATE by a deleter: the rows it leaves alone, and what a date changes.
LEMMA UpdateOrder ==
  ASSUME TypeOK, NEW p \in Proc, NEW d, Updates(p, d)
  PROVE  /\ DOMAIN backups' = DOMAIN backups
         /\ \A t \in DOMAIN backups :
              /\ t # proc[p].cur => Skipped(t)' = Skipped(t)
              /\ t = proc[p].cur /\ d \in {DateDeletedInProgress, "date"}
                   => Skipped(t)'
         /\ \A b : Outlived(b)' =>
              \/ Outlived(b)
              \/ d = "date" /\ b \in Dependents(proc[p].cur, restorePlans)
<1> DEFINE c == proc[p].cur
<1>1. /\ DOMAIN backups' = DOMAIN backups
      /\ \A t \in DOMAIN backups :
           /\ t # c => backups'[t] = backups[t]
           /\ t = c => backups'[t].dateDeleted = d
      /\ restorePlans' = restorePlans
  BY UpdateRow DEF Updates
<1>2. \A t \in DOMAIN backups : t # c => Skipped(t)' = Skipped(t)
  BY <1>1 DEF Skipped
<1>3. \A b : backups'[b].dateDeleted \in {DateDeletedInProgress, "date"}
               => Skipped(b)'
  BY StatusSkips
<1>4. \A t \in DOMAIN backups :
        t = c /\ d \in {DateDeletedInProgress, "date"} => Skipped(t)'
  BY <1>1, <1>3
<1>5. ASSUME NEW b, Outlived(b)'
      PROVE  \/ Outlived(b)
             \/ d = "date" /\ b \in Dependents(c, restorePlans)
  <2>1. PICK u \in DOMAIN backups : /\ backups'[u].dateDeleted = "date"
                                    /\ b \in Dependents(u, restorePlans)
    BY <1>1, <1>5 DEF Outlived
  <2> QED
    BY <1>1, <2>1 DEF Outlived
<1> QED
  BY <1>1, <1>2, <1>4, <1>5

\* What is needed of the backup being deleted before it gets its date.
LEMMA DependentsGone ==
  ASSUME TypeOK, PlansClosed(restorePlans), NEW p \in Proc, CascadeInv(p),
         proc[p].pc \in Deleting
  PROVE  \A t \in Dependents(proc[p].cur, restorePlans) \cap DOMAIN backups :
           Skipped(t) /\ t # proc[p].cur
<1> DEFINE cur == proc[p].cur
           name == proc[p].name
           deps == proc[p].deps
           needing == Dependents(name, restorePlans)
<1> SUFFICES ASSUME NEW t \in Dependents(cur, restorePlans), t \in DOMAIN backups
             PROVE  Skipped(t) /\ t # cur
  OBVIOUS
<1>1. "cascade" \notin Deleting
  BY DEF Deleting
<1>2. t # cur
  BY DependentIff
<1>3. \A u \in needing \cap DOMAIN backups :
        Skipped(u) \/ u = cur \/ \E k \in DOMAIN deps : deps[k] = u
  BY <1>1 DEF CascadeInv
<1>4. CASE cur = name /\ deps = <<>>
  BY <1>2, <1>3, <1>4
<1>5. CASE cur \in needing /\ \A k \in DOMAIN deps : deps[k] < cur
  <2>1. t \in needing /\ t \in Nat /\ t > cur /\ cur \in Nat
    BY <1>5, PlansType, DependentsClosed
  <2>2. \A k \in DOMAIN deps : deps[k] # t
    BY <1>5, <2>1
  <2> QED
    BY <1>2, <1>3, <2>1, <2>2
<1> QED
  BY <1>4, <1>5 DEF CascadeInv

LEMMA SameOrder ==
  ASSUME UNCHANGED db
  PROVE  \A b : (Outlived(b)' <=> Outlived(b)) /\ (Skipped(b)' <=> Skipped(b))
BY DEF db, Outlived, Skipped

\* A date is written when the dependents are gone, and no step makes a dependent of
\* a backup with a date one that can be deleted again.
LEMMA TurnFirst ==
  ASSUME TypeOK, IInv, NoForce, DependentsFirst, PlansClosed(restorePlans),
         NEW p \in Proc, StatusInv(p), CascadeInv(p), Turn(p)
  PROVE  DependentsFirst'
<1> DEFINE cur == proc[p].cur
<1>1. ASSUME UNCHANGED db PROVE DependentsFirst'
  BY <1>1, SameOrder DEF NoForce, DependentsFirst, db
<1>2. ASSUME NEW d, Updates(p, d), proc[p].pc \in Deleting \cup {"begin"},
             d = "date" => proc[p].pc \in Deleting
      PROVE  DependentsFirst'
  <2>1. SUFFICES ASSUME NEW b \in DOMAIN backups,
                        backups'[b].dateDeleted = "date",
                        NEW t \in Dependents(b, restorePlans),
                        t \in DOMAIN backups
                 PROVE  Skipped(t)'
    BY <1>2, UpdateOrder DEF DependentsFirst, Updates
  <2>2. /\ \A u \in DOMAIN backups :
             /\ u # cur => backups'[u] = backups[u]
             /\ u = cur => backups'[u].dateDeleted = d
        /\ t # cur => Skipped(t)' = Skipped(t)
        /\ t = cur /\ d \in {DateDeletedInProgress, "date"} => Skipped(t)'
    BY <1>2, <2>1, UpdateOrder, UpdateRow DEF Updates
  <2>3. ~Outlived(cur)
    BY <1>2 DEF CascadeInv
  <2>4. CASE b = cur
    <3>1. d = "date"
      BY <2>1, <2>2, <2>4
    <3>2. Skipped(t) /\ t # cur
      BY <1>2, <2>1, <2>4, <3>1, DependentsGone
    <3> QED
      BY <2>2, <3>2
  <2>5. CASE b # cur
    <3>1. backups[b].dateDeleted = "date"
      BY <2>1, <2>2, <2>5
    <3>2. t # cur
      BY <2>1, <2>3, <3>1 DEF Outlived
    <3>3. Skipped(t)
      BY <2>1, <3>1 DEF NoForce, DependentsFirst
    <3> QED
      BY <2>2, <3>2, <3>3
  <2> QED
    BY <2>4, <2>5
<1>3. CASE TurnMark(p) \/ TurnFail(p)
  <2>1. /\ DateDeletedInProgress # "date"
        /\ (IF proc[p].cmd.plugin THEN DateDeletedPluginFailed
            ELSE DateDeletedLocalFailed) # "date"
    BY DEF DateDeletedInProgress, DateDeletedPluginFailed,
       DateDeletedLocalFailed
  <2> QED
    BY <1>2, <1>3, <2>1 DEF TurnMark, TurnFail, Moves, Deleting
<1>4. CASE TurnFinish(p)
  BY <1>2, <1>4 DEF TurnFinish, Moves, Deleting
<1> QED
  BY <1>1, <1>3, <1>4 DEF Turn, TurnIdle, TurnName, TurnQuery, TurnDependent,
     TurnLast, TurnDelete

\* The dependents as the query returns them.
LEMMA QueryCascade ==
  ASSUME TypeOK, NoForce, NEW p \in Proc, CascadeInv(p), TurnQuery(p)
  PROVE  CascadeInv(p)'
<1> DEFINE needing == Dependents(proc[p].name, restorePlans)
           list == OrderByTimestampDesc(needing)
<1>1. /\ list \in Seq(needing)
      /\ \A t \in needing : \E k \in DOMAIN list : list[k] = t
      /\ \A j, k \in DOMAIN list : j < k => list[j] > list[k]
  BY PlansType, QueryResult
<1>2. \A k \in DOMAIN list : list[k] \in needing
  BY <1>1
<1>3. /\ proc'[p].pc = "cascade" /\ proc'[p].name = proc[p].name
      /\ proc'[p].deps = list /\ restorePlans' = restorePlans
  BY DEF TurnQuery, Moves, GetBackupDependencies, db
<1>4. ~Outlived(proc[p].name)
  BY DEF TurnQuery, Moves, CascadeInv
<1>5. \A b : Outlived(b)' <=> Outlived(b)
  BY SameOrder DEF TurnQuery
<1> QED
  BY <1>1, <1>2, <1>3, <1>4, <1>5 DEF CascadeInv, Deleting

\* The next dependent, the newest of those left.
LEMMA DependentCascade ==
  ASSUME TypeOK, NoForce, DependentsFirst, NEW p \in Proc, CascadeInv(p),
         TurnDependent(p)
  PROVE  CascadeInv(p)'
<1> DEFINE name == proc[p].name
           deps == proc[p].deps
           rest == Tail(deps)
           needing == Dependents(name, restorePlans)
<1>0. PICK first : first = deps[1]
  OBVIOUS
<1>1. deps \in Seq(Backup) /\ deps # <<>>
  BY DEF TypeOK, ProcState, TurnDependent
<1>2. /\ 1 \in DOMAIN deps /\ Head(deps) = deps[1]
      /\ \A k \in DOMAIN rest : /\ k + 1 \in DOMAIN deps /\ k \in Nat \ {0}
                                /\ rest[k] = deps[k + 1]
      /\ \A k \in DOMAIN deps : k # 1 => /\ k - 1 \in DOMAIN rest
                                         /\ rest[k - 1] = deps[k]
  BY <1>1
<1>3. /\ proc[p].pc = "cascade" /\ proc'[p].pc \in {"begin", "cascade"}
      /\ proc'[p].name = name /\ proc'[p].cur = first
      /\ proc'[p].deps = rest /\ restorePlans' = restorePlans
      /\ DOMAIN backups' = DOMAIN backups
  BY <1>0, <1>2 DEF TurnDependent, Moves, db
<1>4. /\ ~Outlived(name)
      /\ \A k \in DOMAIN deps : deps[k] \in needing
      /\ \A j, k \in DOMAIN deps : j < k => deps[j] > deps[k]
      /\ \A t \in needing \cap DOMAIN backups :
           Skipped(t) \/ \E k \in DOMAIN deps : deps[k] = t
  BY <1>3 DEF CascadeInv
<1>5. /\ \A b : (Outlived(b)' <=> Outlived(b)) /\ (Skipped(b)' <=> Skipped(b))
      /\ IF proc'[p].pc = "begin" THEN ~Outlived(first) ELSE Skipped(first)
  <2>1. UNCHANGED db /\ Verdict(p, deps[1]) =
          IF proc'[p].pc = "begin" THEN "use" ELSE "skip"
    BY <1>2 DEF TurnDependent
  <2> QED
    BY <1>0, <2>1, SameOrder, UsedIsNeeded
<1>6. /\ \A k \in DOMAIN rest : rest[k] \in needing /\ rest[k] < first
      /\ \A j, k \in DOMAIN rest : j < k => rest[j] > rest[k]
  <2>1. \A k \in DOMAIN rest :
          rest[k] \in needing /\ rest[k] \in Nat /\ deps[1] \in Nat
    BY <1>2, <1>4, PlansType
  <2>2. \A k \in DOMAIN rest : deps[1] > rest[k]
    <3> TAKE k \in DOMAIN rest
    <3>1. k + 1 \in DOMAIN deps /\ 1 < k + 1 /\ rest[k] = deps[k + 1]
      BY <1>2
    <3> QED
      BY <1>2, <1>4, <3>1
  <2>3. \A j, k \in DOMAIN rest : j < k => rest[j] > rest[k]
    <3> TAKE j, k \in DOMAIN rest
    <3>1. j < k => j + 1 < k + 1
      BY <1>2
    <3> QED
      BY <1>2, <1>4, <3>1
  <2> QED
    BY <1>0, <2>1, <2>2, <2>3
<1>7. ASSUME NEW t \in needing \cap DOMAIN backups
      PROVE  \/ Skipped(t)
             \/ \E k \in DOMAIN rest : rest[k] = t
             \/ proc'[p].pc # "cascade" /\ t = first
  <2>1. CASE \E k \in DOMAIN deps : deps[k] = t
    <3>1. PICK k \in DOMAIN deps : deps[k] = t
      BY <2>1
    <3>2. CASE k = 1
      BY <1>0, <1>3, <1>5, <3>1, <3>2
    <3>3. CASE k # 1
      BY <1>2, <3>1, <3>3
    <3> QED
      BY <3>2, <3>3
  <2> QED
    BY <1>4, <2>1
<1>8. first \in needing
  BY <1>0, <1>2, <1>4
<1>9. \A t \in needing \cap DOMAIN backups :
        \/ Skipped(t)'
        \/ \E k \in DOMAIN rest : rest[k] = t
        \/ proc'[p].pc # "cascade" /\ t = first
  BY <1>5, <1>7
<1>10. CASE proc'[p].pc = "begin"
  <2>1. ~Outlived(name)' /\ ~Outlived(first)'
    BY <1>3, <1>4, <1>5, <1>10
  <2> QED
    BY <1>3, <1>6, <1>8, <1>9, <1>10, <2>1 DEF CascadeInv, Deleting
<1>11. CASE proc'[p].pc = "cascade"
  <2>1. ~Outlived(name)'
    BY <1>3, <1>4, <1>5
  <2> QED
    BY <1>3, <1>6, <1>9, <1>11, <2>1 DEF CascadeInv, Deleting
<1> QED
  BY <1>3, <1>10, <1>11

\* A name that is let through, the backup itself after its dependents, and the
\* steps that leave the database alone.
LEMMA ControlCascade ==
  ASSUME TypeOK, NoForce, DependentsFirst, NEW p \in Proc, CascadeInv(p),
         TurnIdle(p) \/ TurnName(p) \/ TurnLast(p) \/ TurnDelete(p)
  PROVE  CascadeInv(p)'
<1>1. /\ \A b : (Outlived(b)' <=> Outlived(b)) /\ (Skipped(b)' <=> Skipped(b))
      /\ restorePlans' = restorePlans /\ DOMAIN backups' = DOMAIN backups
  BY SameOrder DEF TurnIdle, TurnName, TurnLast, TurnDelete, db
<1>2. "cascade" \notin Deleting /\ "begin" \notin Deleting
        /\ "dependencies" \notin Deleting /\ "next" \notin Deleting
        /\ Deleting \cap Ended = {}
  BY DEF Deleting, Ended
<1>3. CASE TurnIdle(p)
  BY <1>2, <1>3 DEF TurnIdle, CascadeInv, Ended
<1>4. CASE TurnName(p)
  <2>1. PICK b : b = proc'[p].name
    OBVIOUS
  <2>2. ~Outlived(b)' /\ proc'[p].pc = "dependencies"
    BY <1>1, <1>4, <2>1, UsedIsNeeded DEF TurnName, Moves
  <2> QED
    BY <1>2, <2>1, <2>2 DEF CascadeInv
<1>5. CASE TurnLast(p)
  <2>1. /\ proc[p].pc = "cascade" /\ proc'[p].pc = "begin"
        /\ proc'[p].name = proc[p].name /\ proc'[p].cur = proc[p].name
        /\ proc'[p].deps = <<>> /\ proc[p].deps = <<>>
    BY <1>5 DEF TurnLast, Moves, SameLoop
  <2>2. /\ ~Outlived(proc[p].name)
        /\ \A t \in Dependents(proc[p].name, restorePlans) \cap DOMAIN backups :
             Skipped(t)
    BY <1>2, <2>1 DEF CascadeInv
  <2> QED
    BY <1>1, <1>2, <2>1, <2>2 DEF CascadeInv
<1>6. CASE TurnDelete(p)
  <2>1. /\ proc[p].pc \in Deleting /\ proc'[p].pc \in Deleting
        /\ proc'[p].name = proc[p].name /\ proc'[p].cur = proc[p].cur
        /\ proc'[p].deps = proc[p].deps
    BY <1>6 DEF TurnDelete, Moves, SameDeletion, SameLoop
  <2> QED
    BY <1>1, <1>2, <2>1 DEF CascadeInv
<1> QED
  BY <1>3, <1>4, <1>5, <1>6

\* The statuses of a deletion.
LEMMA UpdateCascade ==
  ASSUME TypeOK, IInv, PlansClosed(restorePlans), NEW p \in Proc,
         CascadeInv(p), TurnMark(p) \/ TurnFail(p) \/ TurnFinish(p)
  PROVE  CascadeInv(p)'
<1> DEFINE cur == proc[p].cur
           name == proc[p].name
           deps == proc[p].deps
           needing == Dependents(name, restorePlans)
<1>1. /\ "cascade" \notin Deleting /\ "begin" \notin Deleting
      /\ "dependencies" \notin Deleting /\ "next" \notin Deleting
      /\ "exit1" \notin Deleting
  BY DEF Deleting
<1>2. PICK d : /\ Updates(p, d)
               /\ d = "date" => TurnFinish(p)
               /\ TurnFinish(p) => d = "date"
  BY DEF TurnMark, TurnFail, TurnFinish, DateDeletedInProgress,
     DateDeletedPluginFailed, DateDeletedLocalFailed
<1>3. /\ proc[p].pc \in Deleting \cup {"begin"}
      /\ proc'[p].name = name /\ proc'[p].cur = cur /\ proc'[p].deps = deps
      /\ restorePlans' = restorePlans
  BY <1>2 DEF TurnMark, TurnFail, TurnFinish, Moves, SameDeletion, SameLoop,
     Deleting, Updates
<1>4. PICK c, n : c = cur /\ n = name
  OBVIOUS
<1>5. /\ ~Outlived(n) /\ ~Outlived(c)
      /\ \/ c = n /\ deps = <<>>
         \/ c \in needing /\ \A k \in DOMAIN deps : deps[k] < c
      /\ \A k \in DOMAIN deps : deps[k] \in needing
      /\ \A j, k \in DOMAIN deps : j < k => deps[j] > deps[k]
      /\ \A t \in needing \cap DOMAIN backups :
           Skipped(t) \/ t = c \/ \E k \in DOMAIN deps : deps[k] = t
  BY <1>1, <1>3, <1>4 DEF CascadeInv
<1>6. /\ DOMAIN backups' = DOMAIN backups
      /\ \A t \in DOMAIN backups :
           /\ t # c => (Skipped(t)' <=> Skipped(t))
           /\ t = c /\ d \in {DateDeletedInProgress, "date"} => Skipped(t)'
      /\ \A b : Outlived(b)' => \/ Outlived(b)
                                \/ d = "date" /\ b \in Dependents(c, restorePlans)
  BY <1>2, <1>4, UpdateOrder
<1>7. CASE TurnMark(p) \/ TurnFail(p)
  <2>1. proc'[p].pc \in Deleting \cup {"exit1"}
    BY <1>7 DEF TurnMark, TurnFail, Moves, Deleting
  <2>2. d # "date"
    BY <1>1, <1>2, <1>7 DEF TurnMark, TurnFail, TurnFinish, Moves, Deleting
  <2>3. /\ ~Outlived(n)' /\ ~Outlived(c)'
        /\ \A t \in needing \cap DOMAIN backups :
             Skipped(t)' \/ t = c \/ \E k \in DOMAIN deps : deps[k] = t
    BY <1>5, <1>6, <2>2
  <2> QED
    BY <1>1, <1>3, <1>4, <1>5, <1>6, <2>1, <2>3 DEF CascadeInv
<1>8. CASE TurnFinish(p)
  <2>1. proc'[p].pc = IF c = n THEN "next" ELSE "cascade"
    BY <1>4, <1>8 DEF TurnFinish, Moves
  <2>2. CASE c = n
    BY <1>1, <2>1, <2>2 DEF CascadeInv
  <2>3. CASE c # n
    <3>1. n \notin Dependents(c, restorePlans)
      BY <1>4, <1>5, <2>3, PlansType, DependentsClosed
    <3>2. ~Outlived(n)'
      BY <1>5, <1>6, <3>1
    <3>3. \A t \in needing \cap DOMAIN backups :
            Skipped(t)' \/ \E k \in DOMAIN deps : deps[k] = t
      BY <1>2, <1>5, <1>6, <1>8
    <3> QED
      BY <1>1, <1>3, <1>4, <1>5, <1>6, <2>1, <2>3, <3>2, <3>3 DEF CascadeInv
  <2> QED
    BY <2>2, <2>3
<1> QED
  BY <1>7, <1>8

LEMMA NextOrder ==
  ASSUME ~Overlap, TypeOK, IInv, SequentialInv, OrderInv,
         PlansClosed(restorePlans), [Next]_vars
  PROVE  OrderInv' /\ PlansClosed(restorePlans)'
<1>1. CASE UNCHANGED vars
  <2>1. UNCHANGED db /\ \A p \in Proc : CascadeInv(p)' <=> CascadeInv(p)
    BY <1>1 DEF vars, db, CascadeInv, Outlived, Skipped
  <2>2. DependentsFirst' <=> DependentsFirst
    BY <1>1, <2>1, SameOrder DEF vars, DependentsFirst
  <2> QED
    BY <1>1, <2>1, <2>2 DEF vars, OrderInv, NoForce
<1>2. ASSUME NEW p \in Proc, Steps(p)
      PROVE  OrderInv' /\ PlansClosed(restorePlans)'
  <2>1. Turn(p) /\ StatusInv(p)
    BY <1>2, StepTurn DEF SequentialInv
  <2>2. restorePlans' = restorePlans
    BY <2>1 DEF Turn, TurnIdle, TurnName, TurnQuery, TurnDependent, TurnLast,
       TurnMark, TurnDelete, TurnFail, TurnFinish, Updates, db
  <2>3. NoForce' => NoForce
    BY <1>2, OthersSame, CommandKept DEF NoForce, Steps
  <2>4. ASSUME NoForce
        PROVE  DependentsFirst' /\ \A q \in Proc : CascadeInv(q)'
    <3>1. DependentsFirst /\ CascadeInv(p)
      BY <2>4 DEF OrderInv
    <3>2. CascadeInv(p)'
      BY <2>1, <2>4, <3>1, ControlCascade, QueryCascade, DependentCascade,
         UpdateCascade DEF Turn
    <3>3. \A q \in Proc \ {p} : CascadeInv(q)'
      BY <1>2, OthersIdle, IdleStatus DEF SequentialInv
    <3> QED
      BY <2>1, <2>4, <3>1, <3>2, <3>3, TurnFirst
  <2>5. ~NoForce' => DependentsFirst'
    BY DEF NoForce, DependentsFirst
  <2> QED
    BY <2>2, <2>3, <2>4, <2>5 DEF OrderInv
<1> QED
  BY <1>1, <1>2 DEF Next, Terminated, Steps

\* A backup is deleted after its dependents, when plans name the whole chain and
\* it was so at first: without --force, a row with a deletion date never leaves a
\* row that needs it and can still be deleted.
THEOREM DependentsGoFirst ==
  ASSUME ~Overlap
  PROVE  Spec /\ PlansClosed(restorePlans) /\ DependentsFirst
           => []DependentsFirst
<1>1. Init /\ DependentsFirst => OrderInv
  BY InitIdle, IdleStatus DEF OrderInv
<1>2. /\ TypeOK /\ IInv /\ SequentialInv
      /\ OrderInv /\ PlansClosed(restorePlans) /\ [Next]_vars
      => OrderInv' /\ PlansClosed(restorePlans)'
  BY NextOrder
<1>3. OrderInv => DependentsFirst
  BY DEF OrderInv
<1> QED
  BY <1>1, <1>2, <1>3, TypeCorrect, Invariance, OneAtATime, PTL DEF Spec
=============================================================================
