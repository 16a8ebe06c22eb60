------------------------ MODULE SegmentDelete_proofs ------------------------
(***************************************************************************)
(* Proofs about SegmentDelete, for any number of segments, any limit and   *)
(* any assignment of directories.  IInv of SegmentDelete is inductive; the *)
(* safety properties follow from it, and with it every step is a step of   *)
(* SegmentRemoval or a stutter.                                            *)
(***************************************************************************)
EXTENDS SegmentDelete, FiniteSetTheorems, TLAPS

\* Tokens and errCh are finite: their capacities can be compared.
LEMMA GoroutinesFinite ==
  ASSUME TypeOK, NEW states
  PROVE  IsFiniteSet(Goroutines(states))
<1>1. IsFiniteSet(Seg)
  BY SegmentAssumption, FS_Interval
     DEF SegmentAssumption, Seg
<1>2. IsFiniteSet(Seg \X {"check"}) /\ IsFiniteSet(Seg \X {"remove"})
  BY <1>1, FS_Product, FS_Singleton
<1>3. IsFiniteSet((Seg \X {"check"}) \cup (Seg \X {"remove"}))
  BY <1>2, FS_Union
<1>4. Goroutines(states) \subseteq (Seg \X {"check"}) \cup (Seg \X {"remove"})
  BY DEF Goroutines
<1> QED
  BY <1>3, <1>4, FS_Subset

\* Fewer goroutines hold no more tokens.
LEMMA TokensShrink ==
  ASSUME TypeOK, TypeOK', TokenInv, Tokens' \subseteq Tokens
  PROVE  TokenInv'
<1>1. IsFiniteSet(Tokens)
  BY GoroutinesFinite DEF Tokens
<1>2. /\ IsFiniteSet(Tokens')
      /\ Cardinality(Tokens') <= Cardinality(Tokens)
  BY <1>1, FS_Subset
<1>3. Cardinality(Tokens) \in Nat /\ Cardinality(Tokens') \in Nat
  BY <1>1, <1>2, FS_CardinalityType
<1> QED
  BY SegmentAssumption, <1>2, <1>3
     DEF SegmentAssumption, TokenInv

\* A goroutine started under the guard of limit takes the last free token.
LEMMA TokenAdded ==
  ASSUME TypeOK, NEW t, Tokens' = Tokens \cup {t},
         Cardinality(Tokens) < MaxParallel
  PROVE  TokenInv'
<1>1. IsFiniteSet(Tokens)
  BY GoroutinesFinite DEF Tokens
<1>2. Cardinality(Tokens) \in Nat
  BY <1>1, FS_CardinalityType
<1>3. \/ Cardinality(Tokens') = Cardinality(Tokens)
      \/ Cardinality(Tokens') = Cardinality(Tokens) + 1
  BY <1>1, FS_AddElement
<1> QED
  BY SegmentAssumption, <1>2, <1>3
     DEF SegmentAssumption, TokenInv

-----------------------------------------------------------------------------
\* The initial states satisfy the invariant.
LEMMA InitIInv == Init => IInv
<1> SUFFICES ASSUME Init PROVE IInv
  OBVIOUS
<1>1. TypeOK
  <2>1. 1 \in 1..(N + 1)
    BY SegmentAssumption DEF SegmentAssumption
  <2> QED
    BY <2>1 DEF Init, TypeOK, MainState, WorkerState
<1>2. StartedInv
  BY DEF Init, StartedInv, RemovePhase
<1>3. ChannelInv
  BY DEF Init, ChannelInv, RemovePhase, Unwinding
<1>4. StorageInv
  BY DEF Init, StorageInv, RemovePhase
<1>5. TokenInv
  <2>1. Tokens = {}
    BY DEF Init, Tokens, Goroutines, InLimit, InWg
  <2> QED
    BY SegmentAssumption, <2>1, FS_EmptySet
       DEF SegmentAssumption, TokenInv
<1> QED
  BY <1>1, <1>2, <1>3, <1>4, <1>5 DEF IInv

\* getSSHConfig starts nothing.
LEMMA ReadSSHConfigIInv ==
  ASSUME IInv, ReadSSHConfig
  PROVE  IInv'
<1>1. TypeOK'
  BY DEF ReadSSHConfig, IInv, MainState, TypeOK, env
<1>2. StartedInv'
  BY DEF ReadSSHConfig, IInv, Seg, StartedInv, RemovePhase
<1>3. ChannelInv'
  BY DEF ReadSSHConfig, IInv, ChannelInv, RemovePhase
<1>4. StorageInv'
  BY DEF ReadSSHConfig, IInv, RemovePhase, env, StorageInv
<1>5. TokenInv'
  <2>1. Tokens' \subseteq Tokens
    BY DEF ReadSSHConfig, IInv, Tokens, Goroutines
  <2> QED
    BY <1>1, <2>1, TokensShrink DEF IInv
<1> QED
  BY <1>1, <1>2, <1>3, <1>4, <1>5 DEF IInv

\* The first loop starts the goroutine of segment `next` and takes a token.
LEMMA StartCheckIInv ==
  ASSUME IInv, StartCheck
  PROVE  IInv'
<1>1. TypeOK'
  BY SegmentAssumption
     DEF SegmentAssumption, StartCheck, IInv, WorkerState, Seg, TypeOK, env
<1>2. StartedInv'
  BY DEF StartCheck, IInv, StartedInv, TypeOK
<1>3. ChannelInv'
  BY DEF StartCheck, IInv, Unwinding, StartedInv, ChannelInv, TypeOK
<1>4. StorageInv'
  BY DEF StartCheck, IInv, env, StorageInv
<1>5. TokenInv'
  <2>1. Tokens' = Tokens \cup {<<next, "check">>}
    BY DEF IInv, TypeOK, StartCheck, Tokens, Goroutines, InLimit, InWg
  <2>2. Cardinality(Tokens) < MaxParallel
    BY DEF StartCheck
  <2> QED
    BY <2>1, <2>2, TokenAdded DEF IInv
<1> QED
  BY <1>1, <1>2, <1>3, <1>4, <1>5 DEF IInv

\* The early return touches nothing.
LEMMA NoSegmentDirIInv ==
  ASSUME IInv, NoSegmentDir
  PROVE  IInv'
<1>1. TypeOK'
  BY DEF NoSegmentDir, IInv, MainState, TypeOK, env
<1>2. StartedInv'
  BY DEF NoSegmentDir, IInv, StartedInv, RemovePhase
<1>3. ChannelInv'
  BY DEF NoSegmentDir, IInv, ChannelInv, RemovePhase
<1>4. StorageInv'
  BY DEF NoSegmentDir, IInv, RemovePhase, env, StorageInv
<1>5. TokenInv'
  <2>1. Tokens' \subseteq Tokens
    BY DEF NoSegmentDir, IInv, Tokens, Goroutines
  <2> QED
    BY <1>1, <2>1, TokensShrink DEF IInv
<1> QED
  BY <1>1, <1>2, <1>3, <1>4, <1>5 DEF IInv

\* All checks have been started.
LEMMA EndCheckLoopIInv ==
  ASSUME IInv, EndCheckLoop
  PROVE  IInv'
<1>1. TypeOK'
  BY DEF EndCheckLoop, IInv, MainState, TypeOK, env
<1>2. StartedInv'
  BY SegmentAssumption
     DEF SegmentAssumption, EndCheckLoop, IInv, Seg, StartedInv, RemovePhase
<1>3. ChannelInv'
  BY DEF EndCheckLoop, IInv, ChannelInv, RemovePhase
<1>4. StorageInv'
  BY DEF EndCheckLoop, IInv, RemovePhase, env, StorageInv
<1>5. TokenInv'
  <2>1. Tokens' \subseteq Tokens
    BY DEF EndCheckLoop, IInv, Tokens, Goroutines
  <2> QED
    BY <1>1, <2>1, TokensShrink DEF IInv
<1> QED
  BY <1>1, <1>2, <1>3, <1>4, <1>5 DEF IInv

\* errCh is closed when no check is left that could send on it.
LEMMA WaitChecksIInv ==
  ASSUME IInv, WaitChecks
  PROVE  IInv'
<1>1. TypeOK'
  BY DEF WaitChecks, IInv, MainState, TypeOK, env
<1>2. StartedInv'
  BY DEF WaitChecks, IInv, StartedInv, RemovePhase
<1>3. ChannelInv'
  BY DEF WaitChecks, IInv, ChannelInv, RemovePhase
<1>4. StorageInv'
  BY DEF WaitChecks, IInv, RemovePhase, env, StorageInv
<1>5. TokenInv'
  <2>1. Tokens' \subseteq Tokens
    BY DEF WaitChecks, IInv, Tokens, Goroutines
  <2> QED
    BY <1>1, <2>1, TokensShrink DEF IInv
<1> QED
  BY <1>1, <1>2, <1>3, <1>4, <1>5 DEF IInv

\* With errCh empty, or its errors ignored, the removals may start.
LEMMA ReadCheckErrorsIInv ==
  ASSUME IInv, ReadCheckErrors
  PROVE  IInv'
<1>1. TypeOK'
  <2>1. 1 \in 1..(N + 1)
    BY SegmentAssumption DEF SegmentAssumption
  <2>2. errCh' \subseteq Seg /\ next' \in 1..(N + 1) /\ pc' \in MainState
    BY <2>1 DEF ReadCheckErrors, IInv, TypeOK, MainState
  <2> QED
    BY <2>2 DEF ReadCheckErrors, env, IInv, TypeOK
<1>2. StartedInv'
  BY DEF ReadCheckErrors, IInv, Seg, StartedInv, RemovePhase
<1>3. ChannelInv'
  BY DEF ReadCheckErrors, IInv, ChannelInv, RemovePhase
<1>4. StorageInv'
  BY DEF ReadCheckErrors, IInv, WorkerState, Unwinding, InWg, Outstanding,
         StartedInv, ChannelInv, TypeOK, RemovePhase, env, StorageInv
<1>5. TokenInv'
  <2>1. Tokens' \subseteq Tokens
    BY DEF ReadCheckErrors, IInv, Tokens, Goroutines
  <2> QED
    BY <1>1, <2>1, TokensShrink DEF IInv
<1> QED
  BY <1>1, <1>2, <1>3, <1>4, <1>5 DEF IInv

\* The second loop starts the goroutine of segment `next` and takes a token.
LEMMA StartRemoveIInv ==
  ASSUME IInv, StartRemove
  PROVE  IInv'
<1>1. TypeOK'
  BY SegmentAssumption
     DEF SegmentAssumption, StartRemove, IInv, WorkerState, Seg, TypeOK, env
<1>2. StartedInv'
  BY DEF StartRemove, IInv, StartedInv, TypeOK, RemovePhase
<1>3. ChannelInv'
  BY DEF StartRemove, IInv, ChannelInv
<1>4. StorageInv'
  BY DEF StartRemove, IInv, env, StorageInv
<1>5. TokenInv'
  <2>1. Tokens' = Tokens \cup {<<next, "remove">>}
    BY DEF IInv, TypeOK, StartRemove, Tokens, Goroutines, InLimit, InWg
  <2>2. Cardinality(Tokens) < MaxParallel
    BY DEF StartRemove
  <2> QED
    BY <2>1, <2>2, TokenAdded DEF IInv
<1> QED
  BY <1>1, <1>2, <1>3, <1>4, <1>5 DEF IInv

\* All removals have been started.
LEMMA EndRemoveLoopIInv ==
  ASSUME IInv, EndRemoveLoop
  PROVE  IInv'
<1>1. TypeOK'
  BY DEF EndRemoveLoop, IInv, MainState, TypeOK, env
<1>2. StartedInv'
  BY SegmentAssumption
     DEF SegmentAssumption, EndRemoveLoop, IInv, Seg, StartedInv, RemovePhase
<1>3. ChannelInv'
  BY DEF EndRemoveLoop, IInv, ChannelInv, RemovePhase
<1>4. StorageInv'
  BY DEF EndRemoveLoop, IInv, RemovePhase, env, StorageInv
<1>5. TokenInv'
  <2>1. Tokens' \subseteq Tokens
    BY DEF EndRemoveLoop, IInv, Tokens, Goroutines
  <2> QED
    BY <1>1, <2>1, TokensShrink DEF IInv
<1> QED
  BY <1>1, <1>2, <1>3, <1>4, <1>5 DEF IInv

\* All removals are through.
LEMMA WaitRemovesIInv ==
  ASSUME IInv, WaitRemoves
  PROVE  IInv'
<1>1. TypeOK'
  BY DEF WaitRemoves, IInv, MainState, TypeOK, env
<1>2. StartedInv'
  BY DEF WaitRemoves, IInv, StartedInv, RemovePhase
<1>3. ChannelInv'
  BY DEF WaitRemoves, IInv, ChannelInv, RemovePhase
<1>4. StorageInv'
  BY DEF WaitRemoves, IInv, RemovePhase, env, StorageInv
<1>5. TokenInv'
  <2>1. Tokens' \subseteq Tokens
    BY DEF WaitRemoves, IInv, Tokens, Goroutines
  <2> QED
    BY <1>1, <2>1, TokensShrink DEF IInv
<1> QED
  BY <1>1, <1>2, <1>3, <1>4, <1>5 DEF IInv

\* errCh was emptied before the removals, and stays so.
LEMMA ReadRemoveErrorsIInv ==
  ASSUME IInv, ReadRemoveErrors
  PROVE  IInv'
<1>1. TypeOK'
  BY DEF ReadRemoveErrors, IInv, MainState, TypeOK, env
<1>2. StartedInv'
  BY DEF ReadRemoveErrors, IInv, StartedInv, ChannelInv, RemovePhase
<1>3. ChannelInv'
  BY DEF ReadRemoveErrors, IInv, ChannelInv, RemovePhase
<1>4. StorageInv'
  BY DEF ReadRemoveErrors, IInv, ChannelInv, RemovePhase, env, StorageInv
<1>5. TokenInv'
  <2>1. Tokens' \subseteq Tokens
    BY DEF ReadRemoveErrors, IInv, Tokens, Goroutines
  <2> QED
    BY <1>1, <2>1, TokensShrink DEF IInv
<1> QED
  BY <1>1, <1>2, <1>3, <1>4, <1>5 DEF IInv

\* A check that finds its directory found it in the initial state.
LEMMA RunCheckIInv ==
  ASSUME IInv, NEW s \in Seg, RunCheck(s)
  PROVE  IInv'
<1>1. TypeOK'
  BY DEF RunCheck, IInv, WorkerState, TypeOK, env, main
<1>2. StartedInv'
  BY DEF RunCheck, IInv, StartedInv, TypeOK, main
<1>3. ChannelInv'
  BY DEF RunCheck, IInv, Unwinding, InWg, Outstanding, ChannelInv, TypeOK,
         main
<1>4. StorageInv'
  BY DEF RunCheck, IInv, TypeOK, env, StorageInv, main
<1>5. TokenInv'
  <2>1. Tokens' \subseteq Tokens
    BY DEF RunCheck, IInv, Tokens, Goroutines, InWg, TypeOK, InLimit
  <2> QED
    BY <1>1, <2>1, TokensShrink DEF IInv
<1> QED
  BY <1>1, <1>2, <1>3, <1>4, <1>5 DEF IInv

\* errCh is open while a check sends, so no check panics.
LEMMA SendCheckErrorIInv ==
  ASSUME IInv, NEW s \in Seg, SendCheckError(s)
  PROVE  IInv'
<1>1. TypeOK'
  BY DEF SendCheckError, IInv, WorkerState, TypeOK, env, main
<1>2. StartedInv'
  BY DEF SendCheckError, IInv, StartedInv, TypeOK, main
<1>3. ChannelInv'
  <2>1. ~closed
    BY DEF SendCheckError, IInv, ChannelInv, Outstanding, InWg
  <2>2. /\ check' = [check EXCEPT ![s] = "wgDone"]
        /\ errCh' = errCh \cup {s}
    BY <2>1 DEF SendCheckError
  <2> QED
    BY <2>1, <2>2 DEF SendCheckError, main, IInv, TypeOK, ChannelInv,
                      Outstanding, InWg, Unwinding, RemovePhase
<1>4. StorageInv'
  BY DEF SendCheckError, IInv, TypeOK, env, StorageInv, main
<1>5. TokenInv'
  <2>1. Tokens' \subseteq Tokens
    BY DEF SendCheckError, IInv, Tokens, Goroutines, InWg, TypeOK, InLimit
  <2> QED
    BY <1>1, <2>1, TokensShrink DEF IInv
<1> QED
  BY <1>1, <1>2, <1>3, <1>4, <1>5 DEF IInv

\* The deferred calls of a check.
LEMMA DeferCheckIInv ==
  ASSUME IInv, NEW s \in Seg, DeferCheck(s)
  PROVE  IInv'
<1>1. TypeOK'
  BY DEF DeferCheck, IInv, AfterDefer, Deferring, WorkerState, TypeOK, env,
         main
<1>2. StartedInv'
  BY DEF DeferCheck, IInv, AfterDefer, Deferring, StartedInv, main
<1>3. ChannelInv'
  BY DEF DeferCheck, IInv, AfterDefer, Deferring, Unwinding, InWg,
         Outstanding, ChannelInv, main
<1>4. StorageInv'
  BY DEF DeferCheck, IInv, AfterDefer, Deferring, env, StorageInv, main
<1>5. TokenInv'
  <2>1. Tokens' \subseteq Tokens
    BY DEF DeferCheck, IInv, Tokens, Goroutines, AfterDefer, Deferring,
           InWg, InLimit
  <2> QED
    BY <1>1, <2>1, TokensShrink DEF IInv
<1> QED
  BY <1>1, <1>2, <1>3, <1>4, <1>5 DEF IInv

\* A removal that succeeds leaves no directory.
LEMMA RunRemoveIInv ==
  ASSUME IInv, NEW s \in Seg, RunRemove(s)
  PROVE  IInv'
<1>1. TypeOK'
  BY DEF RunRemove, IInv, WorkerState, TypeOK, env, main
<1>2. StartedInv'
  BY DEF RunRemove, IInv, InWg, Outstanding, StartedInv, TypeOK, main
<1>3. ChannelInv'
  BY DEF RunRemove, IInv, ChannelInv, main
<1>4. StorageInv'
  BY DEF RunRemove, IInv, StartedInv, TypeOK, env, StorageInv, main
<1>5. TokenInv'
  <2>1. Tokens' \subseteq Tokens
    BY DEF RunRemove, IInv, Tokens, Goroutines, InWg, TypeOK, InLimit
  <2> QED
    BY <1>1, <2>1, TokensShrink DEF IInv
<1> QED
  BY <1>1, <1>2, <1>3, <1>4, <1>5 DEF IInv

\* errCh is closed when a removal sends: the goroutine panics.
LEMMA SendRemoveErrorIInv ==
  ASSUME IInv, NEW s \in Seg, SendRemoveError(s)
  PROVE  IInv'
<1>1. TypeOK'
  BY DEF SendRemoveError, IInv, WorkerState, TypeOK, env, main
<1>2. StartedInv'
  BY DEF SendRemoveError, IInv, InWg, Outstanding, StartedInv, TypeOK, main
<1>3. ChannelInv'
  BY DEF SendRemoveError, IInv, StartedInv, ChannelInv, main
<1>4. StorageInv'
  BY DEF SendRemoveError, IInv, StartedInv, ChannelInv, TypeOK, env,
         StorageInv, main
<1>5. TokenInv'
  <2>1. Tokens' \subseteq Tokens
    BY DEF SendRemoveError, IInv, Tokens, Goroutines, InWg, TypeOK, InLimit
  <2> QED
    BY <1>1, <2>1, TokensShrink DEF IInv
<1> QED
  BY <1>1, <1>2, <1>3, <1>4, <1>5 DEF IInv

\* The deferred calls of a removal.
LEMMA DeferRemoveIInv ==
  ASSUME IInv, NEW s \in Seg, DeferRemove(s)
  PROVE  IInv'
<1>1. TypeOK'
  BY DEF DeferRemove, IInv, AfterDefer, Deferring, WorkerState, TypeOK, env,
         main
<1>2. StartedInv'
  BY DEF DeferRemove, IInv, AfterDefer, Deferring, InWg, Outstanding,
         StartedInv, main
<1>3. ChannelInv'
  BY DEF DeferRemove, IInv, AfterDefer, Deferring, ChannelInv, main
<1>4. StorageInv'
  BY DEF DeferRemove, IInv, AfterDefer, Deferring, env, StorageInv, main
<1>5. TokenInv'
  <2>1. Tokens' \subseteq Tokens
    BY DEF DeferRemove, IInv, Tokens, Goroutines, AfterDefer, Deferring,
           InWg, InLimit
  <2> QED
    BY <1>1, <2>1, TokensShrink DEF IInv
<1> QED
  BY <1>1, <1>2, <1>3, <1>4, <1>5 DEF IInv

\* The death of the process changes nothing else.
LEMMA DieIInv ==
  ASSUME IInv, NEW s \in Seg, Die(s)
  PROVE  IInv'
<1>1. TypeOK'
  BY DEF Die, IInv, TypeOK, env, main
<1>2. StartedInv'
  BY DEF Die, IInv, StartedInv, main
<1>3. ChannelInv'
  BY DEF Die, IInv, ChannelInv, main
<1>4. StorageInv'
  BY DEF Die, IInv, env, StorageInv, main
<1>5. TokenInv'
  <2>1. Tokens' \subseteq Tokens
    BY DEF Die, IInv, Tokens, Goroutines
  <2> QED
    BY <1>1, <2>1, TokensShrink DEF IInv
<1> QED
  BY <1>1, <1>2, <1>3, <1>4, <1>5 DEF IInv

-----------------------------------------------------------------------------
\* A stuttering step, and that of a process that has ended, keep the invariant.
LEMMA StutterIInv ==
  ASSUME IInv, UNCHANGED vars
  PROVE  IInv'
<1>1. TypeOK' /\ StartedInv' /\ ChannelInv' /\ StorageInv'
  BY DEF IInv, vars, TypeOK, StartedInv, ChannelInv, StorageInv, Outstanding
<1>2. TokenInv'
  BY DEF IInv, vars, TokenInv, Tokens, Goroutines
<1> QED
  BY <1>1, <1>2 DEF IInv

\* Every step keeps the invariant, one case per action.
LEMMA NextIInv == IInv /\ [Next]_vars => IInv'
<1> SUFFICES ASSUME IInv, [Next]_vars PROVE IInv'
  OBVIOUS
<1>1. CASE Main
  BY <1>1, ReadSSHConfigIInv, StartCheckIInv, NoSegmentDirIInv,
     EndCheckLoopIInv, WaitChecksIInv, ReadCheckErrorsIInv,
     StartRemoveIInv, EndRemoveLoopIInv, WaitRemovesIInv,
     ReadRemoveErrorsIInv
     DEF Main
<1>2. ASSUME NEW s \in Seg, Worker(s) PROVE IInv'
  BY <1>2, RunCheckIInv, SendCheckErrorIInv, DeferCheckIInv,
     RunRemoveIInv, SendRemoveErrorIInv, DeferRemoveIInv,
     DieIInv
     DEF Worker
<1>3. CASE UNCHANGED vars
  BY <1>3, StutterIInv
<1> QED
  BY <1>1, <1>2, <1>3 DEF Next, Terminated

\* The invariant holds in every reachable state.
THEOREM Invariance == Spec => []IInv
  BY InitIInv, NextIInv, PTL DEF Spec

\* Type correctness of executeDeleteBackupOnSegments and its goroutines.
THEOREM TypeCorrect == Spec => []TypeOK
<1>1. IInv => TypeOK
  BY DEF IInv
<1> QED
  BY <1>1, Invariance, PTL

\* The barrier between the two phases: for any number of segments and any limit
\* no check is outstanding once a removal has been started.
THEOREM Barrier == Spec => []NoRemoveDuringChecks
<1>1. IInv => NoRemoveDuringChecks
  BY DEF IInv, StartedInv, ChannelInv, RemovePhase, NoRemoveDuringChecks
<1> QED
  BY <1>1, Invariance, PTL

\* "If all checks passed, delete": no removal on any host without
\* --ignore-errors unless every directory was there.
THEOREM AllChecked == Spec => []CheckedBeforeRemoved
<1>1. IInv => CheckedBeforeRemoved
  BY DEF IInv, StorageInv, CheckedBeforeRemoved
<1> QED
  BY <1>1, Invariance, PTL

\* One slot per segment is enough: errCh never makes a goroutine wait.
THEOREM NeverBlocked == Spec => []SendNeverBlocks
<1>1. ASSUME IInv, NEW s \in Seg, "send" \in {check[s], remove[s]}, ~closed
      PROVE  Cardinality(errCh) < ErrChCap
  <2>1. check[s] = "send"
    BY <1>1 DEF IInv, StartedInv, ChannelInv
  <2>2. s \notin errCh
    BY <1>1, <2>1 DEF IInv, ChannelInv
  <2>3. errCh \subseteq Seg \ {s}
    BY <1>1, <2>2 DEF IInv, TypeOK
  <2>4. IsFiniteSet(Seg) /\ Cardinality(Seg) = N
    BY SegmentAssumption, FS_Interval DEF Seg, SegmentAssumption
  <2>5. IsFiniteSet(Seg \ {s}) /\ Cardinality(Seg \ {s}) = N - 1
    BY <2>4, FS_RemoveElement
  <2>6. Cardinality(errCh) <= N - 1 /\ IsFiniteSet(errCh)
    BY <2>3, <2>5, FS_Subset
  <2> QED
    BY <2>6, FS_CardinalityType, SegmentAssumption
       DEF ErrChCap, SegmentAssumption
<1>2. IInv => SendNeverBlocks
  BY <1>1 DEF SendNeverBlocks
<1> QED
  BY <1>2, Invariance, PTL

\* --parallel-processes bounds the ssh connections of both loops together.
THEOREM Limited == Spec => []LimitRespected
<1>1. ASSUME IInv PROVE LimitRespected
  <2>1. Goroutines({"ssh"}) \subseteq Tokens
    BY DEF Tokens, Goroutines, InLimit, InWg
  <2>2. IsFiniteSet(Tokens) /\ IsFiniteSet(Goroutines({"ssh"}))
    BY <1>1, GoroutinesFinite DEF IInv, Tokens
  <2>3. Cardinality(Goroutines({"ssh"})) <= Cardinality(Tokens)
    BY <2>1, <2>2, FS_Subset
  <2>4. /\ Cardinality(Goroutines({"ssh"})) \in Nat
        /\ Cardinality(Tokens) \in Nat
    BY <2>2, FS_CardinalityType
  <2> QED
    BY <1>1, <2>3, <2>4, SegmentAssumption
       DEF IInv, TokenInv, LimitRespected, SegmentAssumption
<1> QED
  BY <1>1, Invariance, PTL

\* A nil return means that no segment directory is left, unless the process is
\* about to die of a failed removal.
THEOREM NilMeansGone == Spec => []SuccessMeansGone
<1>1. ASSUME IInv, pc = "nil", NEW s \in Seg, remove[s] \notin Unwinding
      PROVE  DirOf[s] \notin present
  <2>1. remove[s] \in {"release", "exited"}
    BY <1>1 DEF IInv, TypeOK, StartedInv, Outstanding, InWg, Unwinding,
                WorkerState
  <2> QED
    BY <1>1, <2>1 DEF IInv, StorageInv
<1>2. IInv => SuccessMeansGone
  BY <1>1 DEF SuccessMeansGone
<1> QED
  BY <1>2, Invariance, PTL

-----------------------------------------------------------------------------
(* SegmentDelete implements SegmentRemoval *)

\* The main goroutine accepts, refuses and finishes as SegmentRemoval does.
LEMMA MainImplements ==
  ASSUME IInv, IInv', Main
  PROVE  [Removal!Next]_<<ignoreErrors, present, phase, doomed>>
<1> USE DEF Main, env
<1>1. CASE ReadSSHConfig
  <2>1. CASE pc' = "err"
    <3>1. Removal!Refuse
      BY <1>1, <2>1 DEF ReadSSHConfig, Removal!Refuse, phase, doomed, Returned
    <3> QED
      BY <3>1 DEF Removal!Next
  <2>2. CASE pc' = "checkLoop"
    BY <1>1, <2>2 DEF ReadSSHConfig, phase, doomed, Returned
  <2> QED
    BY <1>1, <2>1, <2>2 DEF ReadSSHConfig
<1>2. CASE StartCheck
  BY <1>2 DEF StartCheck, phase, doomed
<1>3. CASE NoSegmentDir
  <2>1. Removal!Refuse
    BY <1>3 DEF NoSegmentDir, Removal!Refuse, phase, doomed, Returned
  <2> QED
    BY <2>1 DEF Removal!Next
<1>4. CASE EndCheckLoop
  BY <1>4 DEF EndCheckLoop, phase, doomed, Returned
<1>5. CASE WaitChecks
  BY <1>5 DEF WaitChecks, phase, doomed, Returned
<1>6. CASE ReadCheckErrors
  <2>1. CASE pc' = "err"
    <3>1. Removal!Refuse
      BY <1>6, <2>1 DEF ReadCheckErrors, Removal!Refuse, phase, doomed, Returned
    <3> QED
      BY <3>1 DEF Removal!Next
  <2>2. CASE pc' = "removeLoop"
    <3>1. ignoreErrors \/ Target \subseteq present
      <4>1. SUFFICES ASSUME ~ignoreErrors, NEW s \in Seg
                     PROVE  DirOf[s] \in present
        BY DEF Target
      <4>2. DirOf[s] \in initial
        BY <1>6, <2>2, <4>1
           DEF IInv, StorageInv, RemovePhase, ReadCheckErrors
      <4>3. present = initial
        BY <1>6 DEF IInv, StorageInv, RemovePhase, ReadCheckErrors
      <4> QED
        BY <4>2, <4>3
    <3>2. Removal!Accept
      BY <1>6, <2>2, <3>1
         DEF ReadCheckErrors, Removal!Accept, phase, doomed, Returned
    <3> QED
      BY <3>2 DEF Removal!Next
  <2> QED
    BY <1>6, <2>1, <2>2 DEF ReadCheckErrors
<1>7. CASE StartRemove
  <2>1. doomed' = doomed
    BY <1>7 DEF StartRemove, doomed, Unwinding, IInv, TypeOK, StartedInv
  <2> QED
    BY <1>7, <2>1 DEF StartRemove, phase
<1>8. CASE EndRemoveLoop
  BY <1>8 DEF EndRemoveLoop, phase, doomed, Returned
<1>9. CASE WaitRemoves
  BY <1>9 DEF WaitRemoves, phase, doomed, Returned
<1>10. CASE ReadRemoveErrors
  <2>1. pc' = "nil"
    BY <1>10 DEF ReadRemoveErrors, IInv, ChannelInv, RemovePhase
  <2>2. Target \cap present = {} \/ doomed
    <3>1. SUFFICES ASSUME ~doomed, NEW s \in Seg
                   PROVE  DirOf[s] \notin present
      BY DEF Target
    <3>2. remove[s] \in {"release", "exited"}
      BY <1>10, <3>1
         DEF ReadRemoveErrors, doomed, IInv, TypeOK, StartedInv, Outstanding,
             InWg, Unwinding, WorkerState
    <3> QED
      BY <3>2 DEF IInv, StorageInv
  <2>3. Removal!Finish
    BY <1>10, <2>1, <2>2
       DEF ReadRemoveErrors, Removal!Finish, phase, doomed, Returned
  <2> QED
    BY <2>3 DEF Removal!Next
<1> QED
  BY <1>1, <1>2, <1>3, <1>4, <1>5, <1>6, <1>7, <1>8, <1>9, <1>10

\* The goroutines remove directories, fail and die as SegmentRemoval does.
LEMMA WorkerImplements ==
  ASSUME IInv, IInv', NEW s \in Seg, Worker(s)
  PROVE  [Removal!Next]_<<ignoreErrors, present, phase, doomed>>
<1> USE DEF Worker, env, main
<1>1. CASE RunCheck(s)
  BY <1>1 DEF RunCheck, phase, doomed
<1>2. CASE SendCheckError(s)
  BY <1>2 DEF SendCheckError, phase, doomed
<1>3. CASE DeferCheck(s)
  BY <1>3 DEF DeferCheck, phase, doomed
<1>4. CASE RunRemove(s)
  <2>1. pc \in {"removeLoop", "removeWait"}
    BY <1>4 DEF RunRemove, IInv, StartedInv, RemovePhase, Outstanding, InWg
  <2>2. doomed' = doomed
    BY <1>4 DEF RunRemove, doomed, Unwinding, IInv, TypeOK
  <2>3. CASE present' = present
    BY <1>4, <2>2, <2>3 DEF RunRemove, phase
  <2>4. CASE present' = present \ {DirOf[s]}
    <3>1. Removal!RemoveDir
      BY <1>4, <2>1, <2>2, <2>4
         DEF RunRemove, Removal!RemoveDir, phase, Target, Returned
    <3> QED
      BY <3>1 DEF Removal!Next
  <2> QED
    BY <1>4, <2>3, <2>4 DEF RunRemove
<1>5. CASE SendRemoveError(s)
  <2>1. pc \in {"removeLoop", "removeWait"}
    BY <1>5 DEF SendRemoveError, IInv, StartedInv, RemovePhase, Outstanding,
                InWg
  <2>2. remove' = [remove EXCEPT ![s] = "panicDone"]
    BY <1>5, <2>1 DEF SendRemoveError, IInv, ChannelInv, RemovePhase
  <2>3. doomed' = TRUE
    BY <2>2 DEF doomed, Unwinding, IInv, TypeOK
  <2>4. Removal!FailRemoval
    BY <1>5, <2>1, <2>3
       DEF SendRemoveError, Removal!FailRemoval, phase, Returned
  <2> QED
    BY <2>4 DEF Removal!Next
<1>6. CASE DeferRemove(s)
  <2>1. doomed' = doomed
    BY <1>6 DEF DeferRemove, doomed, Unwinding, Deferring, AfterDefer, IInv,
                TypeOK
  <2> QED
    BY <1>6, <2>1 DEF DeferRemove, phase
<1>7. CASE Die(s)
  <2>1. doomed
    BY <1>7 DEF Die, doomed, Unwinding, IInv, ChannelInv
  <2>2. Removal!Die
    BY <1>7, <2>1 DEF Die, Removal!Die, phase, doomed
  <2> QED
    BY <2>2 DEF Removal!Next
<1> QED
  BY <1>1, <1>2, <1>3, <1>4, <1>5, <1>6, <1>7

\* executeDeleteBackupOnSegments, with all its goroutines, keeps the promise that
\* its callers rely on.
THEOREM Implementation == Spec => ImplementsSegmentRemoval
<1>1. Init => Removal!Init
  BY DEF Init, Removal!Init, phase, doomed, Returned, Unwinding
<1>2. IInv /\ IInv' /\ [Next]_vars
        => [Removal!Next]_<<ignoreErrors, present, phase, doomed>>
  <2> SUFFICES ASSUME IInv, IInv', [Next]_vars
      PROVE [Removal!Next]_<<ignoreErrors, present, phase, doomed>>
    OBVIOUS
  <2>1. CASE Main
    BY <2>1, MainImplements
  <2>2. ASSUME NEW s \in Seg, Worker(s)
        PROVE  [Removal!Next]_<<ignoreErrors, present, phase, doomed>>
    BY <2>2, WorkerImplements
  <2>3. CASE UNCHANGED vars
    BY <2>3 DEF vars, phase, doomed
  <2> QED
    BY <2>1, <2>2, <2>3 DEF Next, Terminated
<1> QED
  BY <1>1, <1>2, Invariance, PTL
     DEF Spec, ImplementsSegmentRemoval, Removal!Spec, Removal!rvars
=============================================================================
