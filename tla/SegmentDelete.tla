---------------------------- MODULE SegmentDelete ----------------------------
(***************************************************************************)
(* The removal of one backup's directories on the segment hosts:           *)
(* executeDeleteBackupOnSegments of cmd/backup_delete.go, with the two     *)
(* goroutine bodies it starts.  Its main goroutine fans out one "check"    *)
(* goroutine per segment (test -d over ssh), waits for them, closes errCh  *)
(* and reads it, then fans out one "remove" goroutine per segment (rm -rf  *)
(* over ssh), waits for them and reads errCh again.                        *)
(*                                                                         *)
(* A WaitGroup is the set of workers whose Done is outstanding, the limit  *)
(* channel the set of workers that hold a token, errCh the set of segments *)
(* whose error is queued: a worker adds itself to each at most once.       *)
(***************************************************************************)
EXTENDS Integers, FiniteSets

CONSTANTS
  N,            \* number of primary segments: len(configs)
  MaxParallel,  \* maxParallelProcesses, --parallel-processes
  Dir,          \* the backup directories on the hosts
  DirOf         \* DirOf[s]: getBackupSegmentDir and BackupDirPath of segment s

Seg == 1..N

\* --parallel-processes is validated to be positive (cmd/backup_delete.go:164).
\* Segments of one host share a directory under a single backup dir, so DirOf
\* need not be injective.
ASSUME SegmentAssumption ==
  /\ N \in Nat
  /\ MaxParallel \in Nat \ {0}
  /\ DirOf \in [Seg -> Dir]

VARIABLES
  ignoreErrors, \* --ignore-errors, fixed for the run
  initial,      \* the directories that exist when the function is called
  present,      \* the directories that exist now
  pc,           \* the main goroutine
  next,         \* the next index of configs the main goroutine's loop visits
  check,        \* check[s]: the goroutine of segment s started by the first loop
  remove,       \* remove[s]: the goroutine of segment s started by the second
  errCh,        \* segments whose error is queued in errCh
  closed,       \* errCh has been closed
  crashed       \* the process has died of an unrecovered panic

vars == <<ignoreErrors, initial, present, pc, next, check, remove, errCh,
          closed, crashed>>

main == <<pc, next>>
env  == <<ignoreErrors, initial>>

\* The life of a goroutine: it runs its ssh command, may have to send an
\* error, and its two deferred calls release the WaitGroup and then limit.
\* "panic..." are the same deferred calls, run while it unwinds.
WorkerState == {"none", "ssh", "send", "wgDone", "release", "exited",
                "panicDone", "panicRelease", "unwound"}
InWg    == {"ssh", "send", "wgDone", "panicDone"}
InLimit == InWg \cup {"release", "panicRelease"}
Unwinding == {"panicDone", "panicRelease", "unwound"}

MainState == {"sshConfig", "checkLoop", "checkWait", "checkRead",
              "removeLoop", "removeWait", "removeRead", "nil", "err"}
Returned == {"nil", "err"}

\* Wrong: as many slots as there can be goroutines at a time.
ErrChCapMutant == MaxParallel

\* The capacity of errCh: one slot per segment.
ErrChCap == N

Outstanding(worker) == {s \in Seg : worker[s] \in InWg}
\* Goroutines of either loop, by their state.
Goroutines(states) == {s \in Seg : check[s] \in states} \X {"check"}
                        \cup {s \in Seg : remove[s] \in states} \X {"remove"}
Tokens == Goroutines(InLimit)

Init ==
  /\ ignoreErrors \in BOOLEAN
  /\ initial \in SUBSET Dir
  /\ present = initial
  /\ pc = "sshConfig"
  /\ next = 1
  /\ check = [s \in Seg |-> "none"]
  /\ remove = [s \in Seg |-> "none"]
  /\ errCh = {}
  /\ closed = FALSE
  /\ crashed = FALSE
-----------------------------------------------------------------------------
(* The main goroutine *)

\* getSSHConfig fails before anything has been started.
ReadSSHConfig ==
  /\ pc = "sshConfig"
  /\ pc' \in {"checkLoop", "err"}
  /\ UNCHANGED <<env, present, next, check, remove, errCh, closed, crashed>>

\* Wrong: the loop visits one index too many.
StartCheckMutant ==
  /\ pc = "checkLoop"
  /\ next \in 1..(N + 1)
  /\ Cardinality(Tokens) < MaxParallel
  /\ check' = [check EXCEPT ![next] = "ssh"]
  /\ next' = next + 1
  /\ UNCHANGED <<env, present, pc, remove, errCh, closed, crashed>>

\* One turn of the first loop: wg.Add, then limit <- true (it blocks while
\* MaxParallel tokens are out), then the goroutine.
StartCheck ==
  /\ pc = "checkLoop"
  /\ next \in Seg
  /\ Cardinality(Tokens) < MaxParallel
  /\ check' = [check EXCEPT ![next] = "ssh"]
  /\ next' = next + 1
  /\ UNCHANGED <<env, present, pc, remove, errCh, closed, crashed>>

\* The same turn when getBackupSegmentDir has no directory for the segment: the
\* function returns and leaves the goroutines it started running.  (The second
\* loop computes the same paths, so its copy of this return is dead code.)
NoSegmentDir ==
  /\ pc = "checkLoop"
  /\ next \in Seg
  /\ Cardinality(Tokens) < MaxParallel
  /\ pc' = "err"
  /\ UNCHANGED <<env, present, next, check, remove, errCh, closed, crashed>>

EndCheckLoop ==
  /\ pc = "checkLoop"
  /\ next = N + 1
  /\ pc' = "checkWait"
  /\ UNCHANGED <<env, present, next, check, remove, errCh, closed, crashed>>

\* Wrong: the wait is left to a goroutine of its own, the form that the comment
\* at cmd/backup_delete.go:458 warns against.
WaitChecksMutant ==
  /\ pc = "checkWait"
  /\ closed' = TRUE
  /\ pc' = "checkRead"
  /\ UNCHANGED <<env, present, next, check, remove, errCh, crashed>>

\* wg.Wait, then once.Do(close(errCh)).
WaitChecks ==
  /\ pc = "checkWait"
  /\ Outstanding(check) = {}
  /\ closed' = TRUE
  /\ pc' = "checkRead"
  /\ UNCHANGED <<env, present, next, check, remove, errCh, crashed>>

\* Wrong: the errors of the checks are drained but never returned.
ReadCheckErrorsMutant ==
  /\ pc = "checkRead"
  /\ pc' = "removeLoop"
  /\ errCh' = {}
  /\ next' = 1
  /\ UNCHANGED <<env, present, check, remove, closed, crashed>>

\* range errCh: the first error returns unless errors are ignored.
ReadCheckErrors ==
  /\ pc = "checkRead"
  /\ \/ /\ errCh # {} /\ ~ignoreErrors
        /\ pc' = "err"
        /\ \E s \in errCh : errCh' = errCh \ {s}
        /\ UNCHANGED next
     \/ /\ errCh = {} \/ ignoreErrors
        /\ pc' = "removeLoop"
        /\ errCh' = {}
        /\ next' = 1
  /\ UNCHANGED <<env, present, check, remove, closed, crashed>>

\* Wrong: the second loop does not acquire limit.
StartRemoveMutant ==
  /\ pc = "removeLoop"
  /\ next \in Seg
  /\ remove' = [remove EXCEPT ![next] = "ssh"]
  /\ next' = next + 1
  /\ UNCHANGED <<env, present, pc, check, errCh, closed, crashed>>

\* One turn of the second loop.
StartRemove ==
  /\ pc = "removeLoop"
  /\ next \in Seg
  /\ Cardinality(Tokens) < MaxParallel
  /\ remove' = [remove EXCEPT ![next] = "ssh"]
  /\ next' = next + 1
  /\ UNCHANGED <<env, present, pc, check, errCh, closed, crashed>>

EndRemoveLoop ==
  /\ pc = "removeLoop"
  /\ next = N + 1
  /\ pc' = "removeWait"
  /\ UNCHANGED <<env, present, next, check, remove, errCh, closed, crashed>>

\* Wrong: no wait for the second group.
WaitRemovesMutant ==
  /\ pc = "removeWait"
  /\ pc' = "removeRead"
  /\ UNCHANGED <<env, present, next, check, remove, errCh, closed, crashed>>

\* wg.Wait on the second WaitGroup; once has already run, so this closes nothing.
WaitRemoves ==
  /\ pc = "removeWait"
  /\ Outstanding(remove) = {}
  /\ pc' = "removeRead"
  /\ UNCHANGED <<env, present, next, check, remove, errCh, closed, crashed>>

ReadRemoveErrors ==
  /\ pc = "removeRead"
  /\ \/ errCh # {} /\ ~ignoreErrors /\ pc' = "err"
     \/ (errCh = {} \/ ignoreErrors) /\ pc' = "nil"
  /\ UNCHANGED <<env, present, next, check, remove, errCh, closed, crashed>>

Main == /\ ~crashed
        /\ \/ ReadSSHConfig \/ StartCheck \/ NoSegmentDir \/ EndCheckLoop
           \/ WaitChecks \/ ReadCheckErrors \/ StartRemove \/ EndRemoveLoop
           \/ WaitRemoves \/ ReadRemoveErrors
-----------------------------------------------------------------------------
(* The goroutines *)

\* checkBackupDirExistsOnSegments: the dial, the session or test -d may fail;
\* a directory that is not there always fails.
RunCheck(s) ==
  /\ check[s] = "ssh"
  /\ \/ check' = [check EXCEPT ![s] = "send"]
     \/ /\ DirOf[s] \in present
        /\ check' = [check EXCEPT ![s] = "wgDone"]
  /\ UNCHANGED <<env, main, present, remove, errCh, closed, crashed>>

\* errCh <- err: a send on a closed channel panics, one on a full channel blocks.
SendCheckError(s) ==
  /\ check[s] = "send"
  /\ IF closed
     THEN check' = [check EXCEPT ![s] = "panicDone"] /\ UNCHANGED errCh
     ELSE /\ Cardinality(errCh) < ErrChCap
          /\ errCh' = errCh \cup {s}
          /\ check' = [check EXCEPT ![s] = "wgDone"]
  /\ UNCHANGED <<env, main, present, remove, closed, crashed>>

\* deleteBackupDirOnSegments: rm -rf removes the directory, present or not, or
\* fails (dial, session, rm) and leaves it.
RunRemove(s) ==
  /\ remove[s] = "ssh"
  /\ \/ remove' = [remove EXCEPT ![s] = "send"] /\ UNCHANGED present
     \/ /\ remove' = [remove EXCEPT ![s] = "wgDone"]
        /\ present' = present \ {DirOf[s]}
  /\ UNCHANGED <<env, main, check, errCh, closed, crashed>>

SendRemoveError(s) ==
  /\ remove[s] = "send"
  /\ IF closed
     THEN remove' = [remove EXCEPT ![s] = "panicDone"] /\ UNCHANGED errCh
     ELSE /\ Cardinality(errCh) < ErrChCap
          /\ errCh' = errCh \cup {s}
          /\ remove' = [remove EXCEPT ![s] = "wgDone"]
  /\ UNCHANGED <<env, main, present, check, closed, crashed>>

\* Wrong: the token of limit is never given back.
AfterDeferMutant(state) ==
  CASE state = "wgDone" -> "release"
    [] state = "release" -> "release"
    [] state = "panicDone" -> "panicRelease"
    [] state = "panicRelease" -> "unwound"

\* The deferred calls, last one first: wg.Done, then <-limit.
AfterDefer(state) ==
  CASE state = "wgDone" -> "release"
    [] state = "release" -> "exited"
    [] state = "panicDone" -> "panicRelease"
    [] state = "panicRelease" -> "unwound"

Deferring == {"wgDone", "release", "panicDone", "panicRelease"}

DeferCheck(s) ==
  /\ check[s] \in Deferring
  /\ check' = [check EXCEPT ![s] = AfterDefer(@)]
  /\ UNCHANGED <<env, main, present, remove, errCh, closed, crashed>>

DeferRemove(s) ==
  /\ remove[s] \in Deferring
  /\ remove' = [remove EXCEPT ![s] = AfterDefer(@)]
  /\ UNCHANGED <<env, main, present, check, errCh, closed, crashed>>

\* The last deferred call of a panicking goroutine returns: the runtime kills
\* the process.  Until then the other goroutines go on.
Die(s) ==
  /\ "unwound" \in {check[s], remove[s]}
  /\ crashed' = TRUE
  /\ UNCHANGED <<env, main, present, check, remove, errCh, closed>>

Worker(s) == /\ ~crashed
             /\ \/ RunCheck(s) \/ SendCheckError(s) \/ DeferCheck(s)
                \/ RunRemove(s) \/ SendRemoveError(s) \/ DeferRemove(s)
                \/ Die(s)

Idle(worker) == \A s \in Seg : worker[s] \in {"none", "exited"}

\* The function has returned and no goroutine is left, or the process is dead.
Terminated ==
  /\ crashed \/ (pc \in Returned /\ Idle(check) /\ Idle(remove))
  /\ UNCHANGED vars

Next == Main \/ (\E s \in Seg : Worker(s)) \/ Terminated

Spec == Init /\ [][Next]_vars

\* Go schedules every runnable goroutine; ssh.Dial has a timeout, and a remote
\* test or rm is taken to end.
FairSpec == Spec /\ WF_vars(Main) /\ \A s \in Seg : WF_vars(Worker(s))
-----------------------------------------------------------------------------
(* Properties *)

\* Type correctness: the channels, groups and goroutines of
\* executeDeleteBackupOnSegments keep their declared ranges.
TypeOK ==
  /\ ignoreErrors \in BOOLEAN
  /\ initial \in SUBSET Dir
  /\ present \in SUBSET Dir
  /\ pc \in MainState
  /\ next \in 1..(N + 1)
  /\ check \in [Seg -> WorkerState]
  /\ remove \in [Seg -> WorkerState]
  /\ errCh \in SUBSET Seg
  /\ closed \in BOOLEAN
  /\ crashed \in BOOLEAN

\* The barrier of the comment at cmd/backup_delete.go:451: while a directory
\* can be removed, no check is still looking at one.  Otherwise a check would
\* report as missing a directory (shared by two segments) that this very call
\* has just removed.
NoRemoveDuringChecks ==
  (\E s \in Seg : remove[s] # "none") => Outstanding(check) = {}

\* "If all checks passed, delete": without --ignore-errors nothing is removed on
\* any host unless the directory was found on every host.
CheckedBeforeRemoved ==
  ~ignoreErrors /\ present # initial
    => \A s \in Seg : DirOf[s] \in initial

\* The buffer of errCh (one slot per segment) is large enough: no goroutine is
\* ever blocked on its send, which would keep wg.Wait waiting for ever.
SendNeverBlocks ==
  \A s \in Seg :
    "send" \in {check[s], remove[s]} => closed \/ Cardinality(errCh) < ErrChCap

\* At most MaxParallel ssh connections are open at any time, the two phases
\* taken together.
LimitRespected ==
  Cardinality(Goroutines({"ssh"})) <= MaxParallel

\* The caller marks the backup as deleted after a nil return: then, without
\* --ignore-errors, no segment directory is left, unless a goroutine is already
\* taking the process down.
SuccessMeansGone ==
  pc = "nil" /\ ~ignoreErrors
    => \/ \A s \in Seg : DirOf[s] \notin present
       \/ crashed
       \/ \E s \in Seg : remove[s] \in Unwinding

\* The two phases and their goroutines do what SegmentRemoval promises: refuse
\* with every directory in place, or go through all removals, and return nil
\* only with all directories gone or the process about to die.
Target == {DirOf[s] : s \in Seg}

phase == IF crashed THEN "died"
         ELSE IF pc \in Returned THEN pc
         ELSE IF pc \in {"removeLoop", "removeWait", "removeRead"}
              THEN "removing"
         ELSE "checking"

doomed == \E s \in Seg : remove[s] \in Unwinding

Removal ==
  INSTANCE SegmentRemoval WITH
    Dir <- Dir, Target <- Target, ignoreErrors <- ignoreErrors,
    present <- present, phase <- phase, doomed <- doomed

ImplementsSegmentRemoval == Removal!Spec

\* The call always ends: the semaphore, the WaitGroups and errCh never leave
\* the goroutines waiting for one another.
Termination == <>(crashed \/ (pc \in Returned /\ Idle(check) /\ Idle(remove)))

\* COMMANDS.md:167 lets --ignore-errors complete a deletion in spite of errors:
\* with it the process should never die of one.
IgnoreErrorsSurvives == ignoreErrors => ~crashed
-----------------------------------------------------------------------------
(* The inductive invariant of the proofs in SegmentDelete_proofs *)

RemovePhase == {"removeLoop", "removeWait", "removeRead", "nil"}

\* The goroutines that the main goroutine has started so far.
StartedInv ==
  /\ pc = "sshConfig" => next = 1 /\ \A s \in Seg : check[s] = "none"
  /\ pc = "checkLoop" => \A s \in Seg : check[s] = "none" <=> s >= next
  /\ pc \in RemovePhase \cup {"checkWait", "checkRead"}
       => \A s \in Seg : check[s] # "none"
  /\ pc \notin RemovePhase => \A s \in Seg : remove[s] = "none"
  /\ pc = "removeLoop" => \A s \in Seg : remove[s] = "none" <=> s >= next
  /\ pc \in {"removeWait", "removeRead", "nil"}
       => \A s \in Seg : remove[s] # "none"
  /\ pc \in {"removeRead", "nil"} => Outstanding(remove) = {}

\* errCh is closed after the last check; only a removal can panic on it.
ChannelInv ==
  /\ pc \in {"sshConfig", "checkLoop", "checkWait"} => ~closed
  /\ pc \in RemovePhase \cup {"checkRead"} => closed
  /\ closed => Outstanding(check) = {}
  /\ pc \in RemovePhase => errCh = {}
  /\ \A s \in Seg : check[s] \notin Unwinding
  /\ \A s \in errCh : check[s] \in {"wgDone", "release", "exited"}

\* What a goroutine that is through has found or done.
StorageInv ==
  /\ pc \notin RemovePhase =>
       /\ present = initial
       /\ pc # "err" => \A s \in Seg :
            check[s] \in {"wgDone", "release", "exited"}
              => s \in errCh \/ DirOf[s] \in initial
  /\ pc \in RemovePhase /\ ~ignoreErrors
       => \A s \in Seg : DirOf[s] \in initial
  /\ \A s \in Seg : remove[s] \in {"wgDone", "release", "exited"}
                    => DirOf[s] \notin present

TokenInv == Cardinality(Tokens) <= MaxParallel

IInv == TypeOK /\ StartedInv /\ ChannelInv /\ StorageInv /\ TokenInv
=============================================================================
