----------------------- MODULE HistoryMigrate_proofs -----------------------
(***************************************************************************)
(* Proofs about HistoryMigrate, for any number of processes and files.     *)
(***************************************************************************)
EXTENDS HistoryMigrate, TLAPS

\* The elements of a sequence are its head and those of its tail.
LEMMA HeadOrTail ==
  ASSUME NEW S, NEW s \in Seq(S), s # <<>>
  PROVE  /\ Head(s) \in S
         /\ Tail(s) \in Seq(S)
         /\ ToSet(s) = {Head(s)} \cup ToSet(Tail(s))
<1>1. Head(s) \in S /\ Tail(s) \in Seq(S)
  OBVIOUS
<1>2. ToSet(s) \subseteq {Head(s)} \cup ToSet(Tail(s))
  <2>1. SUFFICES ASSUME NEW i \in DOMAIN s, i # 1
                 PROVE  s[i] \in ToSet(Tail(s))
    BY DEF ToSet
  <2>2. i \in 2..Len(s) /\ Len(Tail(s)) = Len(s) - 1
    BY <2>1
  <2>3. i - 1 \in DOMAIN Tail(s)
    BY <2>2
  <2>4. Tail(s)[i - 1] = s[i]
    BY <2>2
  <2> QED BY <2>3, <2>4 DEF ToSet
<1>3. {Head(s)} \cup ToSet(Tail(s)) \subseteq ToSet(s)
  <2>1. Head(s) \in ToSet(s)
    BY DEF ToSet
  <2>2. ASSUME NEW i \in DOMAIN Tail(s)
        PROVE  Tail(s)[i] \in ToSet(s)
    <3>1. i + 1 \in DOMAIN s /\ Tail(s)[i] = s[i + 1]
      OBVIOUS
    <3> QED BY <3>1 DEF ToSet
  <2> QED BY <2>1, <2>2 DEF ToSet
<1> QED BY <1>1, <1>2, <1>3

\* A process that has a file before it has its path.
LEMMA HistoryFileType ==
  ASSUME TypeOK, NEW p \in Proc, proc[p].next \in DOMAIN proc[p].args
  PROVE  HistoryFile(p) \in File
<1>1. proc[p].args \in Seq(File)
  BY DEF TypeOK, ProcState
<1>2. proc[p].args[proc[p].next] \in File
  BY <1>1
<1> QED BY <1>2 DEF HistoryFile

LEMMA InitTypeOK == Init => TypeOK
<1> SUFFICES ASSUME Init PROVE TypeOK
  OBVIOUS
<1>1. DOMAIN yaml \subseteq File /\ \A f \in DOMAIN yaml : yaml[f] \in Contents
  BY MigrateAssumption DEF Init
<1>2. DOMAIN migrated = {}
  BY DEF Init
<1>3. DOMAIN backups \subseteq Backup
      /\ \A t \in DOMAIN backups : backups[t] \in StoredRow
  <2>1. PICK E \in Existing :
          backups = [t \in E |-> [endTime |-> "then", from |-> "",
                                  fields |-> DOMAIN GpbackupKey]]
    BY DEF Init
  <2>2. E \subseteq Backup
    BY MigrateAssumption
  <2>3. [endTime |-> "then", from |-> "", fields |-> DOMAIN GpbackupKey]
          \in StoredRow
    BY DEF StoredRow
  <2> QED BY <2>1, <2>2, <2>3
<1>4. proc \in [Proc -> ProcState]
  <2>1. [pc |-> "idle", args |-> <<>>, next |-> 1, data |-> <<>>, error |-> ""]
          \in ProcState
    BY DEF ProcState
  <2> QED BY <2>1 DEF Init
<1>5. \A p \in Proc : proc[p].pc = "idle"
  BY DEF Init
<1> QED BY <1>1, <1>2, <1>3, <1>4, <1>5 DEF TypeOK

\* The database after an entry has been stored.
LEMMA StoredRowType ==
  ASSUME TypeOK, NEW e \in Entry, NEW f \in File
  PROVE  LET b == StoreBackupHistory(Converted(e), f)
         IN /\ DOMAIN b = DOMAIN backups \cup {e.timestamp}
            /\ \A t \in DOMAIN b : b[t] \in StoredRow
<1> DEFINE h == Converted(e)
           row == [endTime |-> IF h.endTime = "" THEN "now" ELSE h.endTime,
                   fields |-> h.fields, from |-> f]
<1>1. h.timestamp = e.timestamp /\ h.endTime = e.endTime
  BY DEF Converted
<1>2. h.fields \subseteq DOMAIN GpbackupKey
  BY DEF Converted, YamlTag, GpbackupKey
<1>3. row \in StoredRow
  BY <1>1, <1>2 DEF StoredRow, Entry
<1>4. StoreBackupHistory(h, f) = Put(backups, e.timestamp, row)
  BY <1>1 DEF StoreBackupHistory
<1> HIDE DEF h, row
<1>5. DOMAIN StoreBackupHistory(h, f) = DOMAIN backups \cup {e.timestamp}
  BY <1>4 DEF Put
<1>6. \A t \in DOMAIN StoreBackupHistory(h, f) :
        StoreBackupHistory(h, f)[t] \in StoredRow
  BY <1>3, <1>4 DEF TypeOK, Put
<1> QED BY <1>5, <1>6 DEF h

\* A process goes on: only its own state changes, to one of the right type.
LEMMA ProcType ==
  ASSUME TypeOK, NEW p \in Proc, NEW r \in ProcState,
         proc' = [proc EXCEPT ![p] = r],
         r.pc = "store" => r.next \in DOMAIN r.args
  PROVE  /\ proc' \in [Proc -> ProcState]
         /\ \A q \in Proc :
              proc'[q].pc = "store" => proc'[q].next \in DOMAIN proc'[q].args
BY DEF TypeOK

LEMMA StepTypeOK == TypeOK /\ [Next]_vars => TypeOK'
<1> SUFFICES ASSUME TypeOK, [Next]_vars PROVE TypeOK'
  OBVIOUS
<1>1. ASSUME NEW p \in Proc, NEW error \in {"io", "missing", "parse", "duplicate"},
             Exit1(p, error)
      PROVE  TypeOK'
  <2> DEFINE r == [proc[p] EXCEPT !.pc = "exit1", !.error = error]
  <2>1. r \in ProcState /\ r.pc = "exit1"
    BY DEF TypeOK, ProcState
  <2>2. proc' = [proc EXCEPT ![p] = r] /\ UNCHANGED <<yaml, migrated, backups>>
    BY <1>1 DEF Exit1, TypeOK
  <2> QED BY <2>1, <2>2, ProcType DEF TypeOK
<1>2. ASSUME NEW p \in Proc, Start(p) PROVE TypeOK'
  <2>1. PICK args \in Args :
          \/ /\ proc' = [proc EXCEPT ![p].pc = "read", ![p].args = args]
             /\ UNCHANGED <<yaml, migrated, backups>>
          \/ Exit1(p, "missing")
    BY <1>2 DEF Start
  <2> DEFINE r == [proc[p] EXCEPT !.pc = "read", !.args = args]
  <2>2. r \in ProcState /\ r.pc = "read"
    BY MigrateAssumption DEF TypeOK, ProcState
  <2>3. CASE /\ proc' = [proc EXCEPT ![p].pc = "read", ![p].args = args]
             /\ UNCHANGED <<yaml, migrated, backups>>
    <3>1. proc' = [proc EXCEPT ![p] = r]
      BY <2>3 DEF TypeOK
    <3> QED BY <2>2, <2>3, <3>1, ProcType DEF TypeOK
  <2> QED BY <1>1, <2>1, <2>3
<1>3. ASSUME NEW p \in Proc, ReadHistoryFile(p) PROVE TypeOK'
  <2> DEFINE f == HistoryFile(p)
             r == [proc[p] EXCEPT !.pc = "store", !.data = yaml[f].entries]
  <2>1. CASE f \in DOMAIN yaml /\ ~yaml[f].damaged
    <3>1. yaml[f].entries \in Seq(Entry)
      BY <2>1 DEF TypeOK, Contents
    <3>2. proc[p].next \in DOMAIN proc[p].args
      <4>1. proc[p].args \in Seq(File) /\ proc[p].next \in Nat \ {0}
        BY DEF TypeOK, ProcState
      <4> QED BY <1>3, <4>1 DEF ReadHistoryFile
    <3>3. r \in ProcState /\ r.next \in DOMAIN r.args
      BY <3>1, <3>2 DEF TypeOK, ProcState
    <3>4. proc' = [proc EXCEPT ![p] = r] /\ UNCHANGED <<yaml, migrated, backups>>
      BY <1>3, <2>1 DEF ReadHistoryFile, TypeOK
    <3> QED BY <3>3, <3>4, ProcType DEF TypeOK
  <2> QED BY <1>1, <1>3, <2>1 DEF ReadHistoryFile
<1>4. ASSUME NEW p \in Proc, Store(p) PROVE TypeOK'
  <2> DEFINE e == Head(proc[p].data)
             r == [proc[p] EXCEPT !.data = Tail(proc[p].data)]
  <2>1. e \in Entry /\ Tail(proc[p].data) \in Seq(Entry)
    <3>1. proc[p].data \in Seq(Entry) /\ proc[p].data # <<>>
      BY <1>4 DEF Store, TypeOK, ProcState
    <3> QED BY <3>1, HeadOrTail
  <2>2. proc[p].next \in DOMAIN proc[p].args /\ HistoryFile(p) \in File
    BY <1>4, HistoryFileType DEF Store, TypeOK
  <2>3. CASE /\ backups' = StoreBackupHistory(Converted(e), HistoryFile(p))
             /\ proc' = [proc EXCEPT ![p].data = Tail(@)]
             /\ UNCHANGED <<yaml, migrated>>
    <3>1. DOMAIN backups' \subseteq Backup
          /\ \A t \in DOMAIN backups' : backups'[t] \in StoredRow
      <4>1. e.timestamp \in Backup
        BY <2>1 DEF Entry
      <4> QED BY <2>1, <2>2, <2>3, <4>1, StoredRowType DEF TypeOK
    <3>2. r \in ProcState /\ r.next \in DOMAIN r.args
      BY <2>1, <2>2 DEF TypeOK, ProcState
    <3>3. proc' = [proc EXCEPT ![p] = r]
      BY <2>3 DEF TypeOK
    <3> QED BY <2>3, <3>1, <3>2, <3>3, ProcType DEF TypeOK
  <2> QED BY <1>1, <1>4, <2>3 DEF Store
<1>5. ASSUME NEW p \in Proc, RenameHistoryFile(p) PROVE TypeOK'
  <2> DEFINE f == HistoryFile(p)
             r == [proc[p] EXCEPT !.pc = "read", !.next = proc[p].next + 1]
  <2>1. CASE f \notin DOMAIN yaml
    BY <1>1, <1>5, <2>1 DEF RenameHistoryFile
  <2>2. CASE f \in DOMAIN yaml
    <3>1. /\ migrated' = Put(migrated, f, yaml[f])
          /\ yaml' = [g \in DOMAIN yaml \ {f} |-> yaml[g]]
          /\ proc' = [proc EXCEPT ![p].pc = "read", ![p].next = @ + 1]
          /\ UNCHANGED backups
      BY <1>5, <2>2 DEF RenameHistoryFile, Exit1
    <3>2. DOMAIN migrated' \subseteq File
          /\ \A g \in DOMAIN migrated' : migrated'[g] \in Contents
      BY <2>2, <3>1 DEF TypeOK, Put
    <3>3. DOMAIN yaml' \subseteq File
          /\ \A g \in DOMAIN yaml' : yaml'[g] \in Contents
      BY <3>1 DEF TypeOK
    <3>4. r \in ProcState /\ r.pc = "read"
      <4>0. proc[p].next \in Nat \ {0}
        BY DEF TypeOK, ProcState
      <4>1. proc[p].next + 1 \in Nat \ {0}
        BY <4>0
      <4> QED BY <4>1 DEF TypeOK, ProcState
    <3>5. proc' = [proc EXCEPT ![p] = r]
      BY <3>1 DEF TypeOK
    <3> QED BY <3>1, <3>2, <3>3, <3>4, <3>5, ProcType DEF TypeOK
  <2> QED BY <2>1, <2>2
<1>6. ASSUME NEW p \in Proc, Return(p) \/ Killed(p) PROVE TypeOK'
  <2>1. PICK l \in {"exit0", "killed"} : proc' = [proc EXCEPT ![p].pc = l]
    BY <1>6 DEF Return, Killed
  <2> DEFINE r == [proc[p] EXCEPT !.pc = l]
  <2>2. r \in ProcState /\ r.pc # "store"
    BY DEF TypeOK, ProcState
  <2>3. proc' = [proc EXCEPT ![p] = r] /\ UNCHANGED <<yaml, migrated, backups>>
    BY <1>6, <2>1 DEF Return, Killed, TypeOK
  <2> QED BY <2>2, <2>3, ProcType DEF TypeOK
<1>7. ASSUME WriteHistory PROVE TypeOK'
  <2>1. PICK f \in File, c \in Written : yaml' = Put(yaml, f, c)
    BY <1>7 DEF WriteHistory
  <2>2. c \in Contents
    BY MigrateAssumption
  <2>3. DOMAIN yaml' \subseteq File
        /\ \A g \in DOMAIN yaml' : yaml'[g] \in Contents
    BY <2>1, <2>2 DEF TypeOK, Put
  <2> QED BY <1>7, <2>3 DEF WriteHistory, TypeOK
<1>8. CASE UNCHANGED vars
  BY <1>8 DEF vars, TypeOK
<1> QED BY <1>1, <1>2, <1>3, <1>4, <1>5, <1>6, <1>7, <1>8
     DEF Next, Migrate, IOError, Terminated
-----------------------------------------------------------------------------
(* The suffix ".migrated" *)

LEMMA InitIInv == Init => IInv
<1> SUFFICES ASSUME Init PROVE IInv
  OBVIOUS
<1>1. TypeOK
  BY InitTypeOK
<1>2. StoreInv
  BY DEF Init, StoreInv
<1>3. MigratedMeansStored
  BY DEF Init, MigratedMeansStored
<1> QED BY <1>1, <1>2, <1>3 DEF IInv

\* A process that stops, or goes on to its next file, disturbs nothing.
LEMMA LeavesStore ==
  ASSUME IInv, NEW p \in Proc,
         \A q \in Proc \ {p} : proc'[q] = proc[q], proc'[p].pc # "store",
         UNCHANGED <<yaml, migrated, backups>>
  PROVE  StoreInv' /\ MigratedMeansStored'
<1>1. \A q \in Proc : proc'[q].pc = "store" => proc'[q] = proc[q]
  OBVIOUS
<1> QED BY <1>1
     DEF IInv, StoreInv, MigratedMeansStored, HistoryFile, Pending

LEMMA StepIInv == IInv /\ [Next]_vars => IInv'
<1> SUFFICES ASSUME IInv, [Next]_vars PROVE IInv'
  OBVIOUS
<1>0. TypeOK /\ TypeOK'
  BY StepTypeOK DEF IInv
<1>f. proc \in [Proc -> ProcState]
  BY <1>0 DEF TypeOK
<1>1. ASSUME NEW p \in Proc, NEW error, Exit1(p, error)
      PROVE  StoreInv' /\ MigratedMeansStored'
  <2>1. proc'[p].pc = "exit1" /\ \A q \in Proc \ {p} : proc'[q] = proc[q]
    BY <1>1, <1>f DEF Exit1, ProcState
  <2>2. UNCHANGED <<yaml, migrated, backups>>
    BY <1>1 DEF Exit1
  <2> QED BY <2>1, <2>2, LeavesStore
<1>2. ASSUME NEW p \in Proc, Start(p)
      PROVE  StoreInv' /\ MigratedMeansStored'
  <2>1. CASE Exit1(p, "missing")
    BY <1>1, <2>1
  <2>2. CASE ~Exit1(p, "missing")
    <3>1. PICK args \in Args :
            /\ proc' = [proc EXCEPT ![p].pc = "read", ![p].args = args]
            /\ UNCHANGED <<yaml, migrated, backups>>
      BY <1>2, <2>2 DEF Start
    <3>2. proc'[p].pc = "read" /\ \A q \in Proc \ {p} : proc'[q] = proc[q]
      BY <3>1, <1>f DEF ProcState
    <3> QED BY <3>1, <3>2, LeavesStore
  <2> QED BY <2>1, <2>2
<1>3. ASSUME NEW p \in Proc, ReadHistoryFile(p)
      PROVE  StoreInv' /\ MigratedMeansStored'
  <2> DEFINE f == HistoryFile(p)
  <2>1. CASE f \in DOMAIN yaml /\ ~yaml[f].damaged
    <3>1. /\ proc' = [proc EXCEPT ![p].pc = "store",
                                  ![p].data = yaml[f].entries]
          /\ UNCHANGED <<yaml, migrated, backups>>
      BY <1>3, <2>1 DEF ReadHistoryFile
    <3>2. /\ proc'[p].data = yaml[f].entries /\ proc'[p].args = proc[p].args
          /\ proc'[p].next = proc[p].next
          /\ \A q \in Proc \ {p} : proc'[q] = proc[q]
      BY <3>1, <1>f DEF ProcState
    <3>3. TimestampsOf(yaml[f])' \subseteq Pending(p)'
      BY <3>1, <3>2 DEF TimestampsOf, Pending, HistoryFile
    <3>4. HistoryFile(p)' = f
      BY <3>2 DEF HistoryFile
    <3>5. ASSUME NEW q \in Proc, proc'[q].pc = "store",
                 HistoryFile(q)' \in DOMAIN yaml'
          PROVE  TimestampsOf(yaml[HistoryFile(q)])'
                   \subseteq (DOMAIN backups \cup Pending(q))'
      <4>1. CASE q = p
        BY <3>1, <3>3, <3>4, <4>1 DEF TimestampsOf
      <4>2. CASE q # p
        BY <3>1, <3>2, <3>5, <4>2
        DEF IInv, StoreInv, HistoryFile, Pending, TimestampsOf
      <4> QED BY <4>1, <4>2
    <3>6. MigratedMeansStored'
      BY <3>1 DEF IInv, MigratedMeansStored, TimestampsOf
    <3> QED BY <3>5, <3>6 DEF StoreInv
  <2>2. CASE ~(f \in DOMAIN yaml /\ ~yaml[f].damaged)
    BY <1>1, <1>3, <2>2 DEF ReadHistoryFile
  <2> QED BY <2>1, <2>2
<1>4. ASSUME NEW p \in Proc, Store(p)
      PROVE  StoreInv' /\ MigratedMeansStored'
  <2> DEFINE e == Head(proc[p].data)
  <2>0. /\ e \in Entry /\ ToSet(proc[p].data) = {e} \cup ToSet(Tail(proc[p].data))
        /\ HistoryFile(p) \in File
    <3>1. proc[p].data \in Seq(Entry) /\ proc[p].data # <<>>
      BY <1>4, <1>f DEF Store, ProcState
    <3>2. HistoryFile(p) \in File
      BY <1>0, <1>4, HistoryFileType DEF Store, TypeOK
    <3> QED BY <3>1, <3>2, HeadOrTail
  <2>1. CASE /\ backups' = StoreBackupHistory(Converted(e), HistoryFile(p))
             /\ proc' = [proc EXCEPT ![p].data = Tail(@)]
             /\ UNCHANGED <<yaml, migrated>>
    <3>1. DOMAIN backups' = DOMAIN backups \cup {e.timestamp}
      BY <1>0, <2>0, <2>1, StoredRowType
    <3>2. /\ proc'[p].data = Tail(proc[p].data) /\ proc'[p].args = proc[p].args
          /\ proc'[p].next = proc[p].next /\ proc'[p].pc = proc[p].pc
          /\ \A q \in Proc \ {p} : proc'[q] = proc[q]
      BY <2>1, <1>f DEF ProcState
    <3>3. Pending(p) \subseteq {e.timestamp} \cup Pending(p)'
      BY <2>0, <3>2 DEF Pending
    <3>4. ASSUME NEW q \in Proc, proc'[q].pc = "store",
                 HistoryFile(q)' \in DOMAIN yaml'
          PROVE  TimestampsOf(yaml[HistoryFile(q)])'
                   \subseteq (DOMAIN backups \cup Pending(q))'
      <4>1. HistoryFile(q)' = HistoryFile(q) /\ proc[q].pc = "store"
        BY <3>2, <3>4 DEF HistoryFile
      <4>2. TimestampsOf(yaml[HistoryFile(q)])
              \subseteq DOMAIN backups \cup Pending(q)
        BY <2>1, <3>4, <4>1 DEF IInv, StoreInv
      <4>3. Pending(q) \subseteq {e.timestamp} \cup Pending(q)'
        BY <3>2, <3>3 DEF Pending
      <4>4. TimestampsOf(yaml[HistoryFile(q)])'
              = TimestampsOf(yaml[HistoryFile(q)])
        BY <2>1, <4>1 DEF TimestampsOf
      <4> QED BY <3>1, <4>2, <4>3, <4>4
    <3>5. MigratedMeansStored'
      BY <2>1, <3>1 DEF IInv, MigratedMeansStored, TimestampsOf
    <3> QED BY <3>4, <3>5 DEF StoreInv
  <2> QED BY <1>1, <1>4, <2>1 DEF Store
<1>5. ASSUME NEW p \in Proc, RenameHistoryFile(p)
      PROVE  StoreInv' /\ MigratedMeansStored'
  <2> DEFINE f == HistoryFile(p)
  <2>1. CASE f \notin DOMAIN yaml
    BY <1>1, <1>5, <2>1 DEF RenameHistoryFile
  <2>2. CASE f \in DOMAIN yaml
    <3>1. /\ migrated' = Put(migrated, f, yaml[f])
          /\ yaml' = [g \in DOMAIN yaml \ {f} |-> yaml[g]]
          /\ proc' = [proc EXCEPT ![p].pc = "read", ![p].next = @ + 1]
          /\ UNCHANGED backups
          /\ proc[p].pc = "store" /\ proc[p].data = <<>>
      BY <1>5, <2>2 DEF RenameHistoryFile, Exit1
    <3>2. proc'[p].pc = "read" /\ \A q \in Proc \ {p} : proc'[q] = proc[q]
      BY <3>1, <1>f DEF ProcState
    <3>3. TimestampsOf(yaml[f]) \subseteq DOMAIN backups
      <4>1. Pending(p) = {}
        BY <3>1 DEF Pending, ToSet
      <4> QED BY <2>2, <3>1, <4>1 DEF IInv, StoreInv
    <3>4. ASSUME NEW g \in DOMAIN migrated'
          PROVE  TimestampsOf(migrated[g])' \subseteq DOMAIN backups'
      BY <3>1, <3>3 DEF IInv, MigratedMeansStored, TimestampsOf, Put
    <3>5. ASSUME NEW q \in Proc, proc'[q].pc = "store",
                 HistoryFile(q)' \in DOMAIN yaml'
          PROVE  TimestampsOf(yaml[HistoryFile(q)])'
                   \subseteq (DOMAIN backups \cup Pending(q))'
      <4>1. proc'[q] = proc[q]
        BY <3>2, <3>5
      <4>2. HistoryFile(q)' = HistoryFile(q) /\ Pending(q)' = Pending(q)
        BY <4>1 DEF HistoryFile, Pending
      <4>3. /\ HistoryFile(q) \in DOMAIN yaml
            /\ TimestampsOf(yaml[HistoryFile(q)])'
                 = TimestampsOf(yaml[HistoryFile(q)])
        BY <3>1, <3>5, <4>2 DEF TimestampsOf
      <4>4. TimestampsOf(yaml[HistoryFile(q)])
              \subseteq DOMAIN backups \cup Pending(q)
        BY <3>5, <4>1, <4>3 DEF IInv, StoreInv
      <4> QED BY <3>1, <4>2, <4>3, <4>4
    <3> QED BY <3>4, <3>5 DEF MigratedMeansStored, StoreInv
  <2> QED BY <2>1, <2>2
<1>6. ASSUME NEW p \in Proc, Return(p) \/ Killed(p)
      PROVE  StoreInv' /\ MigratedMeansStored'
  <2>1. PICK l \in {"exit0", "killed"} : proc' = [proc EXCEPT ![p].pc = l]
    BY <1>6 DEF Return, Killed
  <2>2. proc'[p].pc # "store" /\ \A q \in Proc \ {p} : proc'[q] = proc[q]
    BY <2>1, <1>f DEF ProcState
  <2>3. UNCHANGED <<yaml, migrated, backups>>
    BY <1>6 DEF Return, Killed
  <2> QED BY <2>2, <2>3, LeavesStore
<1>7. ASSUME WriteHistory PROVE StoreInv' /\ MigratedMeansStored'
  <2>1. \A p \in Proc : proc'[p].pc # "store"
    BY <1>7 DEF WriteHistory, Active
  <2>2. UNCHANGED <<migrated, backups>>
    BY <1>7 DEF WriteHistory
  <2> QED BY <2>1, <2>2 DEF IInv, StoreInv, MigratedMeansStored, TimestampsOf
<1>8. ASSUME UNCHANGED vars PROVE StoreInv' /\ MigratedMeansStored'
  BY <1>8 DEF vars, IInv, StoreInv, MigratedMeansStored, TimestampsOf,
              HistoryFile, Pending
<1>9. StoreInv' /\ MigratedMeansStored'
  BY <1>1, <1>2, <1>3, <1>4, <1>5, <1>6, <1>7, <1>8
  DEF Next, Migrate, IOError, Terminated
<1> QED BY <1>0, <1>9 DEF IInv

\* The invariant of the proofs holds in every reachable state.
THEOREM Invariance == Spec => []IInv
<1>1. Init => IInv
  BY InitIInv
<1>2. IInv /\ [Next]_vars => IInv'
  BY StepIInv
<1> QED BY <1>1, <1>2, PTL DEF Spec

\* Rows, files and processes keep their types; every row has an end time.
THEOREM TypeCorrect == Spec => []TypeOK
<1>1. IInv => TypeOK
  BY DEF IInv
<1> QED BY <1>1, Invariance, PTL

\* A file with the suffix ".migrated" has all its backups in the database
\* (cmd/history_migrate.go:100-108), whatever fails, is killed or overlaps.
THEOREM MigratedStored == Spec => []MigratedMeansStored
<1>1. IInv => MigratedMeansStored
  BY DEF IInv
<1> QED BY <1>1, Invariance, PTL
-----------------------------------------------------------------------------
(* No record is lost *)

LEMMA StepKeepsKnown == IInv /\ [Next]_vars => Known \subseteq Known'
<1> SUFFICES ASSUME IInv, [Next]_vars, NEW t \in Known PROVE t \in Known'
  OBVIOUS
<1>1. ASSUME UNCHANGED <<yaml, migrated>>, DOMAIN backups \subseteq DOMAIN backups'
      PROVE  t \in Known'
  BY <1>1 DEF Known, TimestampsOf
<1>2. ASSUME NEW p \in Proc, NEW error, Exit1(p, error) PROVE t \in Known'
  BY <1>1, <1>2 DEF Exit1
<1>3. ASSUME NEW p \in Proc, Store(p) PROVE t \in Known'
  <2>1. CASE /\ backups' = StoreBackupHistory(Converted(Head(proc[p].data)),
                                              HistoryFile(p))
             /\ UNCHANGED <<yaml, migrated>>
    <3>1. DOMAIN backups \subseteq DOMAIN backups'
      BY <2>1 DEF StoreBackupHistory, Put
    <3> QED BY <1>1, <2>1, <3>1
  <2> QED BY <1>2, <1>3, <2>1 DEF Store
<1>4. ASSUME NEW p \in Proc, RenameHistoryFile(p) PROVE t \in Known'
  <2> DEFINE f == HistoryFile(p)
  <2>1. CASE f \notin DOMAIN yaml
    BY <1>2, <1>4, <2>1 DEF RenameHistoryFile
  <2>2. CASE f \in DOMAIN yaml
    <3>1. /\ migrated' = Put(migrated, f, yaml[f])
          /\ yaml' = [g \in DOMAIN yaml \ {f} |-> yaml[g]]
          /\ UNCHANGED backups
      BY <1>4, <2>2 DEF RenameHistoryFile, Exit1
    <3>2. CASE t \in DOMAIN backups
      BY <3>1, <3>2 DEF Known
    <3>3. ASSUME NEW g \in DOMAIN yaml, t \in TimestampsOf(yaml[g])
          PROVE  t \in Known'
      <4>1. CASE g = f
        <5>1. f \in DOMAIN migrated' /\ migrated'[f] = yaml[g]
          BY <3>1, <4>1 DEF Put
        <5>2. t \in TimestampsOf(migrated'[f])
          BY <3>3, <5>1
        <5> QED BY <5>1, <5>2 DEF Known, TimestampsOf
      <4>2. CASE g # f
        <5>1. g \in DOMAIN yaml' /\ yaml'[g] = yaml[g]
          BY <3>1, <4>2
        <5>2. t \in TimestampsOf(yaml[g])'
          BY <3>3, <5>1 DEF TimestampsOf
        <5> QED BY <5>1, <5>2 DEF Known
      <4> QED BY <4>1, <4>2
    \* A file that is replaced has all its backups in the database.
    <3>4. ASSUME NEW g \in DOMAIN migrated, t \in TimestampsOf(migrated[g])
          PROVE  t \in Known'
      <4>1. t \in DOMAIN backups
        BY <3>4 DEF IInv, MigratedMeansStored
      <4> QED BY <3>2, <4>1
    <3> QED BY <3>2, <3>3, <3>4 DEF Known
  <2> QED BY <2>1, <2>2
<1>5. ASSUME WriteHistory PROVE t \in Known'
  <2>1. PICK f \in File \ DOMAIN yaml, c \in Written : yaml' = Put(yaml, f, c)
    BY <1>5 DEF WriteHistory
  <2>2. UNCHANGED <<migrated, backups>>
    BY <1>5 DEF WriteHistory
  <2>3. ASSUME NEW g \in DOMAIN yaml, t \in TimestampsOf(yaml[g])
        PROVE  t \in Known'
    <3>1. g \in DOMAIN yaml' /\ yaml'[g] = yaml[g]
      BY <2>1 DEF Put
    <3>2. t \in TimestampsOf(yaml[g])'
      BY <2>3, <3>1 DEF TimestampsOf
    <3> QED BY <3>1, <3>2 DEF Known
  <2>4. ASSUME t \in DOMAIN backups \/ \E g \in DOMAIN migrated :
                                         t \in TimestampsOf(migrated[g])
        PROVE  t \in Known'
    BY <2>2, <2>4 DEF Known, TimestampsOf
  <2> QED BY <2>3, <2>4 DEF Known
<1>6. ASSUME NEW p \in Proc, Start(p) \/ ReadHistoryFile(p) PROVE t \in Known'
  <2>1. UNCHANGED <<yaml, migrated, backups>>
    BY <1>6 DEF Start, ReadHistoryFile, Exit1
  <2> QED BY <1>1, <2>1
<1>7. ASSUME NEW p \in Proc, Return(p) \/ Killed(p) PROVE t \in Known'
  BY <1>1, <1>7 DEF Return, Killed
<1>8. ASSUME UNCHANGED vars PROVE t \in Known'
  BY <1>1, <1>8 DEF vars
<1> QED BY <1>2, <1>3, <1>4, <1>5, <1>6, <1>7, <1>8
     DEF Next, Migrate, IOError, Terminated

\* No step, not even a rename that replaces the file of an earlier migration
\* (cmd/wrappers.go:85), loses the last record of a backup.
THEOREM RecordsKept == Spec => NothingLost
<1>1. IInv /\ [Next]_vars => [Known \subseteq Known']_vars
  BY StepKeepsKnown
<1> QED BY <1>1, Invariance, PTL DEF Spec, NothingLost
-----------------------------------------------------------------------------
(* Exit code 0 *)

\* No file comes back, and a process goes on with the same files or ends.
LEMMA KeepsDone ==
  ASSUME TypeOK, DoneInv, DOMAIN yaml' \subseteq DOMAIN yaml, NEW p \in Proc,
         \A q \in Proc \ {p} : proc'[q] = proc[q],
         proc'[p].pc # "idle",
         Active(p)' => /\ Active(p) /\ proc'[p].args = proc[p].args
                       /\ \/ proc'[p].next = proc[p].next
                          \/ /\ proc'[p].next = proc[p].next + 1
                             /\ HistoryFile(p) \notin DOMAIN yaml'
  PROVE  DoneInv'
<1>1. ASSUME NEW q \in Proc, q # p
      PROVE  /\ proc'[q].pc = "idle" => proc'[q].next = 1
             /\ Active(q)' =>
                  \A i \in DOMAIN proc'[q].args :
                    i < proc'[q].next => proc'[q].args[i] \notin DOMAIN yaml'
  BY <1>1 DEF DoneInv, Active
<1>2. ASSUME Active(p)', NEW i \in DOMAIN proc'[p].args, i < proc'[p].next
      PROVE  proc'[p].args[i] \notin DOMAIN yaml'
  <2>1. proc'[p].args = proc[p].args /\ i \in Nat /\ proc[p].next \in Nat
    <3>1. proc[p].args \in Seq(File) /\ proc[p].next \in Nat
      BY DEF TypeOK, ProcState
    <3> QED BY <1>2, <3>1
  <2>2. CASE i < proc[p].next
    BY <1>2, <2>1, <2>2 DEF DoneInv
  <2>3. CASE ~(i < proc[p].next)
    <3>1. i = proc[p].next /\ HistoryFile(p) \notin DOMAIN yaml'
      BY <1>2, <2>1, <2>3
    <3> QED BY <2>1, <3>1 DEF HistoryFile
  <2> QED BY <2>2, <2>3
<1> QED BY <1>1, <1>2 DEF DoneInv

LEMMA StepDoneInv == TypeOK /\ DoneInv /\ [Next]_vars => DoneInv'
<1> SUFFICES ASSUME TypeOK, DoneInv, [Next]_vars PROVE DoneInv'
  OBVIOUS
<1>f. proc \in [Proc -> ProcState]
  BY DEF TypeOK
<1>1. ASSUME NEW p \in Proc, NEW error, Exit1(p, error) PROVE DoneInv'
  <2>1. /\ proc'[p].pc = "exit1" /\ \A q \in Proc \ {p} : proc'[q] = proc[q]
        /\ UNCHANGED yaml
    BY <1>1, <1>f DEF Exit1, ProcState
  <2> QED BY <2>1, KeepsDone DEF Active
<1>2. ASSUME NEW p \in Proc, Start(p) PROVE DoneInv'
  <2>1. CASE Exit1(p, "missing")
    BY <1>1, <2>1
  <2>2. CASE ~Exit1(p, "missing")
    <3>1. PICK args \in Args :
            /\ proc' = [proc EXCEPT ![p].pc = "read", ![p].args = args]
            /\ UNCHANGED <<yaml, migrated, backups>>
      BY <1>2, <2>2 DEF Start
    <3>2. /\ proc'[p].pc = "read" /\ proc'[p].next = proc[p].next
          /\ proc'[p].args = args
          /\ \A q \in Proc \ {p} : proc'[q] = proc[q]
      BY <3>1, <1>f DEF ProcState
    <3>3. proc'[p].next = 1 /\ args \in Seq(File)
      BY <1>2, <3>2, MigrateAssumption DEF Start, DoneInv
    <3>4. \A i \in DOMAIN proc'[p].args : ~(i < proc'[p].next)
      BY <3>2, <3>3
    <3>5. ASSUME NEW q \in Proc, q # p
          PROVE  /\ proc'[q].pc = "idle" => proc'[q].next = 1
                 /\ Active(q)' =>
                      \A i \in DOMAIN proc'[q].args :
                        i < proc'[q].next => proc'[q].args[i] \notin DOMAIN yaml'
      BY <3>1, <3>2, <3>5 DEF DoneInv, Active
    <3> QED BY <3>2, <3>4, <3>5 DEF DoneInv
  <2> QED BY <2>1, <2>2
<1>3. ASSUME NEW p \in Proc, ReadHistoryFile(p) PROVE DoneInv'
  <2> DEFINE f == HistoryFile(p)
  <2>1. CASE f \in DOMAIN yaml /\ ~yaml[f].damaged
    <3>1. /\ proc' = [proc EXCEPT ![p].pc = "store",
                                  ![p].data = yaml[f].entries]
          /\ UNCHANGED yaml /\ proc[p].pc = "read"
      BY <1>3, <2>1 DEF ReadHistoryFile
    <3>2. /\ proc'[p].pc = "store" /\ proc'[p].args = proc[p].args
          /\ proc'[p].next = proc[p].next
          /\ \A q \in Proc \ {p} : proc'[q] = proc[q]
      BY <3>1, <1>f DEF ProcState
    <3> QED BY <3>1, <3>2, KeepsDone DEF Active
  <2> QED BY <1>1, <1>3, <2>1 DEF ReadHistoryFile
<1>4. ASSUME NEW p \in Proc, Store(p) PROVE DoneInv'
  <2>1. CASE /\ proc' = [proc EXCEPT ![p].data = Tail(@)]
             /\ UNCHANGED <<yaml, migrated>>
    <3>1. /\ proc'[p].pc = "store" /\ proc'[p].args = proc[p].args
          /\ proc'[p].next = proc[p].next /\ proc[p].pc = "store"
          /\ \A q \in Proc \ {p} : proc'[q] = proc[q]
      BY <1>4, <2>1, <1>f DEF ProcState, Store
    <3> QED BY <2>1, <3>1, KeepsDone DEF Active
  <2> QED BY <1>1, <1>4, <2>1 DEF Store
<1>5. ASSUME NEW p \in Proc, RenameHistoryFile(p) PROVE DoneInv'
  <2> DEFINE f == HistoryFile(p)
  <2>1. CASE f \notin DOMAIN yaml
    BY <1>1, <1>5, <2>1 DEF RenameHistoryFile
  <2>2. CASE f \in DOMAIN yaml
    <3>1. /\ yaml' = [g \in DOMAIN yaml \ {f} |-> yaml[g]]
          /\ proc' = [proc EXCEPT ![p].pc = "read", ![p].next = @ + 1]
          /\ proc[p].pc = "store"
      BY <1>5, <2>2 DEF RenameHistoryFile, Exit1
    <3>2. /\ proc'[p].pc = "read" /\ proc'[p].args = proc[p].args
          /\ proc'[p].next = proc[p].next + 1
          /\ \A q \in Proc \ {p} : proc'[q] = proc[q]
      BY <3>1, <1>f DEF ProcState
    <3>3. DOMAIN yaml' = DOMAIN yaml \ {f}
      BY <3>1
    <3> QED BY <3>1, <3>2, <3>3, KeepsDone DEF Active
  <2> QED BY <2>1, <2>2
<1>6. ASSUME NEW p \in Proc, Return(p) \/ Killed(p) PROVE DoneInv'
  <2>1. PICK l \in {"exit0", "killed"} :
          proc' = [proc EXCEPT ![p].pc = l] /\ UNCHANGED yaml
    BY <1>6 DEF Return, Killed
  <2>2. proc'[p].pc = l /\ \A q \in Proc \ {p} : proc'[q] = proc[q]
    BY <2>1, <1>f DEF ProcState
  <2> QED BY <2>1, <2>2, KeepsDone DEF Active
\* gpbackup writes a file only while no command is at work.
<1>7. ASSUME WriteHistory PROVE DoneInv'
  BY <1>7 DEF WriteHistory, DoneInv, Active
<1>8. ASSUME UNCHANGED vars PROVE DoneInv'
  BY <1>8 DEF vars, DoneInv, Active
<1> QED BY <1>1, <1>2, <1>3, <1>4, <1>5, <1>6, <1>7, <1>8
     DEF Next, Migrate, IOError, Terminated

\* A process returns only from the loop's end (cmd/history_migrate.go:95-110).
LEMMA ReturnsAtEnd ==
  ASSUME TypeOK, [Next]_vars, NEW p \in Proc,
         proc[p].pc = "read", proc'[p].pc = "exit0"
  PROVE  proc[p].next > Len(proc[p].args)
<1>f. proc \in [Proc -> ProcState]
  BY DEF TypeOK
<1>1. ASSUME NEW q \in Proc, NEW error, Exit1(q, error) PROVE FALSE
  BY <1>1, <1>f DEF Exit1, ProcState
<1>2. ASSUME NEW q \in Proc, Start(q) \/ ReadHistoryFile(q) PROVE FALSE
  <2>1. PICK l \in {"read", "store"} :
          proc'[q].pc = l /\ \A r \in Proc \ {q} : proc'[r] = proc[r]
    BY <1>1, <1>2, <1>f DEF Start, ReadHistoryFile, ProcState
  <2> QED BY <2>1
<1>3. ASSUME NEW q \in Proc, NEW r, proc' = [proc EXCEPT ![q] = r],
             r.pc # "exit0"
      PROVE  FALSE
  BY <1>3, <1>f
<1>4. ASSUME NEW q \in Proc, Store(q) PROVE FALSE
  <2> DEFINE r == [proc[q] EXCEPT !.data = Tail(proc[q].data)]
  <2>1. proc' = [proc EXCEPT ![q] = r] /\ r.pc = "store"
    BY <1>1, <1>4, <1>f DEF Store, ProcState
  <2> QED BY <1>3, <2>1
<1>5. ASSUME NEW q \in Proc, RenameHistoryFile(q) PROVE FALSE
  <2> DEFINE r == [proc[q] EXCEPT !.pc = "read", !.next = proc[q].next + 1]
  <2>1. proc' = [proc EXCEPT ![q].pc = "read", ![q].next = @ + 1]
    BY <1>1, <1>5 DEF RenameHistoryFile
  <2>2. proc' = [proc EXCEPT ![q] = r] /\ r.pc = "read"
    BY <2>1, <1>f DEF ProcState
  <2> QED BY <1>3, <2>2
<1>6. ASSUME NEW q \in Proc, Killed(q) PROVE FALSE
  <2> DEFINE r == [proc[q] EXCEPT !.pc = "killed"]
  <2>1. proc' = [proc EXCEPT ![q] = r] /\ r.pc = "killed"
    BY <1>6, <1>f DEF Killed, ProcState
  <2> QED BY <1>3, <2>1
<1>7. ASSUME NEW q \in Proc, Return(q)
      PROVE  proc[p].next > Len(proc[p].args)
  <2>1. \A r \in Proc \ {q} : proc'[r] = proc[r]
    BY <1>7 DEF Return
  <2> QED BY <1>7, <2>1 DEF Return
<1>8. ~(WriteHistory \/ UNCHANGED vars)
  BY DEF WriteHistory, vars
<1> QED BY <1>1, <1>2, <1>4, <1>5, <1>6, <1>7, <1>8
     DEF Next, Migrate, IOError, Terminated

\* Exit code 0 means that each of the files given is gone from its name.
THEOREM Exit0IsComplete == Spec => Exit0MeansMigrated
<1> DEFINE Complete ==
  \A p \in Proc : proc[p].pc = "read" /\ proc'[p].pc = "exit0" =>
                    ToSet(proc[p].args) \cap DOMAIN yaml = {}
<1>1. Init => DoneInv
  <2>1. SUFFICES ASSUME Init, NEW p \in Proc
                 PROVE  proc[p].pc = "idle" /\ proc[p].next = 1
    BY DEF DoneInv, Active
  <2> QED BY <2>1 DEF Init
<1>2. TypeOK /\ DoneInv /\ [Next]_vars => DoneInv'
  BY StepDoneInv
<1>3. ASSUME TypeOK, DoneInv, [Next]_vars PROVE [Complete]_vars
  <2>1. SUFFICES ASSUME NEW p \in Proc, proc[p].pc = "read",
                        proc'[p].pc = "exit0"
                 PROVE  ToSet(proc[p].args) \cap DOMAIN yaml = {}
    OBVIOUS
  <2>2. proc[p].next > Len(proc[p].args)
    BY <1>3, <2>1, ReturnsAtEnd
  <2>3. proc[p].args \in Seq(File) /\ proc[p].next \in Nat
    BY <1>3 DEF TypeOK, ProcState
  <2>4. \A i \in DOMAIN proc[p].args : i < proc[p].next
    BY <2>2, <2>3
  <2>5. \A i \in DOMAIN proc[p].args : proc[p].args[i] \notin DOMAIN yaml
    BY <1>3, <2>1, <2>4 DEF DoneInv, Active
  <2> QED BY <2>5 DEF ToSet
<1>4. TypeOK /\ DoneInv /\ [Next]_vars => [Complete]_vars
  BY <1>3
<1> HIDE DEF Complete
<1>5. Spec => [][Complete]_vars
  BY <1>1, <1>2, <1>4, TypeCorrect, PTL DEF Spec
<1> QED BY <1>5 DEF Complete, Exit0MeansMigrated
-----------------------------------------------------------------------------
(* The fields of a record *)

\* A process that stops, or goes on to its next file, disturbs nothing.
LEMMA LeavesFields ==
  ASSUME FieldsInv, NEW p \in Proc,
         \A q \in Proc \ {p} : proc'[q] = proc[q], proc'[p].pc # "store",
         UNCHANGED <<yaml, migrated, backups>>
  PROVE  FieldsInv'
<1>1. \A q \in Proc : proc'[q].pc = "store" => proc'[q] = proc[q]
  OBVIOUS
<1>2. \A e : StoredWhole(e)' = StoredWhole(e)
  BY DEF StoredWhole
<1> QED BY <1>1, <1>2 DEF FieldsInv, HistoryFile

\* An element that is stored is stored whole, and the rows before it stay.
LEMMA StoresWhole ==
  ASSUME NEW e \in Entry, TagsAgree(e), NEW f,
         e.timestamp \notin DOMAIN backups,
         backups' = StoreBackupHistory(Converted(e), f)
  PROVE  /\ StoredWhole(e)'
         /\ \A d : StoredWhole(d) => StoredWhole(d)'
<1> DEFINE h == Converted(e)
           row == [endTime |-> IF h.endTime = "" THEN "now" ELSE h.endTime,
                   fields |-> h.fields, from |-> f]
<1>1. /\ h.timestamp = e.timestamp
      /\ h.fields = {x \in DOMAIN YamlTag : YamlTag[x] \in e.keys}
  BY DEF Converted
<1>2. row.fields = h.fields /\ backups' = Put(backups, e.timestamp, row)
  BY <1>1 DEF StoreBackupHistory
<1> HIDE DEF h, row
<1>3. /\ e.timestamp \in DOMAIN backups' /\ backups'[e.timestamp] = row
      /\ \A t \in DOMAIN backups : t \in DOMAIN backups' /\ backups'[t] = backups[t]
  BY <1>2 DEF Put
<1>4. {x \in DOMAIN GpbackupKey : GpbackupKey[x] \in e.keys} \subseteq row.fields
  BY <1>1, <1>2 DEF TagsAgree
<1> QED BY <1>3, <1>4 DEF StoredWhole

LEMMA StepFieldsInv ==
  ASSUME \A c \in Written : \A e \in ToSet(c.entries) : TagsAgree(e),
         IInv, FieldsInv, [Next]_vars
  PROVE  FieldsInv'
<1>f. proc \in [Proc -> ProcState]
  BY DEF IInv, TypeOK
<1>1. ASSUME NEW p \in Proc, NEW error, Exit1(p, error) PROVE FieldsInv'
  <2>1. proc'[p].pc = "exit1" /\ \A q \in Proc \ {p} : proc'[q] = proc[q]
    BY <1>1, <1>f DEF Exit1, ProcState
  <2>2. UNCHANGED <<yaml, migrated, backups>>
    BY <1>1 DEF Exit1
  <2> QED BY <2>1, <2>2, LeavesFields
<1>2. ASSUME NEW p \in Proc, Start(p) PROVE FieldsInv'
  <2>1. CASE Exit1(p, "missing")
    BY <1>1, <2>1
  <2>2. CASE ~Exit1(p, "missing")
    <3>1. PICK args \in Args :
            /\ proc' = [proc EXCEPT ![p].pc = "read", ![p].args = args]
            /\ UNCHANGED <<yaml, migrated, backups>>
      BY <1>2, <2>2 DEF Start
    <3>2. proc'[p].pc = "read" /\ \A q \in Proc \ {p} : proc'[q] = proc[q]
      BY <3>1, <1>f DEF ProcState
    <3> QED BY <3>1, <3>2, LeavesFields
  <2> QED BY <2>1, <2>2
<1>3. ASSUME NEW p \in Proc, ReadHistoryFile(p) PROVE FieldsInv'
  <2> DEFINE f == HistoryFile(p)
  <2>1. CASE f \in DOMAIN yaml /\ ~yaml[f].damaged
    <3>1. /\ proc' = [proc EXCEPT ![p].pc = "store",
                                  ![p].data = yaml[f].entries]
          /\ UNCHANGED <<yaml, migrated, backups>>
      BY <1>3, <2>1 DEF ReadHistoryFile
    <3>2. /\ proc'[p].data = yaml[f].entries /\ proc'[p].args = proc[p].args
          /\ proc'[p].next = proc[p].next
          /\ \A q \in Proc \ {p} : proc'[q] = proc[q]
      BY <3>1, <1>f DEF ProcState
    <3>3. \A e : StoredWhole(e)' = StoredWhole(e)
      BY <3>1 DEF StoredWhole
    <3>4. \A q \in Proc : HistoryFile(q)' = HistoryFile(q)
      BY <3>2 DEF HistoryFile
    <3>5. ASSUME NEW q \in Proc, proc'[q].pc = "store"
          PROVE  /\ \A e \in ToSet(proc'[q].data) : TagsAgree(e)
                 /\ HistoryFile(q)' \in DOMAIN yaml' =>
                      \A e \in ToSet(yaml'[HistoryFile(q)'].entries) :
                        e \in ToSet(proc'[q].data) \/ StoredWhole(e)'
      <4>1. CASE q = p
        BY <2>1, <3>1, <3>2, <3>4, <4>1 DEF FieldsInv
      <4>2. CASE q # p
        BY <3>1, <3>2, <3>3, <3>4, <3>5, <4>2 DEF FieldsInv
      <4> QED BY <4>1, <4>2
    <3> QED BY <3>1, <3>3, <3>5 DEF FieldsInv
  <2> QED BY <1>1, <1>3, <2>1 DEF ReadHistoryFile
<1>4. ASSUME NEW p \in Proc, Store(p) PROVE FieldsInv'
  <2>0. PICK e \in Entry :
          /\ e = Head(proc[p].data)
          /\ ToSet(proc[p].data) = {e} \cup ToSet(Tail(proc[p].data))
    <3>1. proc[p].data \in Seq(Entry) /\ proc[p].data # <<>>
      BY <1>4, <1>f DEF Store, ProcState
    <3> QED BY <3>1, HeadOrTail
  <2>1. CASE /\ e.timestamp \notin DOMAIN backups
             /\ backups' = StoreBackupHistory(Converted(e), HistoryFile(p))
             /\ proc' = [proc EXCEPT ![p].data = Tail(@)]
             /\ UNCHANGED <<yaml, migrated>>
    <3>1. TagsAgree(e) /\ proc[p].pc = "store"
      BY <1>4, <2>0 DEF Store, FieldsInv
    <3>2. StoredWhole(e)' /\ \A d : StoredWhole(d) => StoredWhole(d)'
      BY <2>0, <2>1, <3>1, StoresWhole
    <3>3. /\ proc'[p].data = Tail(proc[p].data) /\ proc'[p].args = proc[p].args
          /\ proc'[p].next = proc[p].next /\ proc'[p].pc = proc[p].pc
          /\ \A q \in Proc \ {p} : proc'[q] = proc[q]
      BY <2>1, <1>f DEF ProcState
    <3>4. \A q \in Proc : /\ HistoryFile(q)' = HistoryFile(q)
                          /\ proc'[q].pc = proc[q].pc
      BY <3>3 DEF HistoryFile
    <3>5. ASSUME NEW q \in Proc
          PROVE  /\ ToSet(proc'[q].data) \subseteq ToSet(proc[q].data)
                 /\ ToSet(proc[q].data) \subseteq ToSet(proc'[q].data) \cup {e}
      BY <2>0, <3>3
    <3>6. ASSUME NEW q \in Proc, proc'[q].pc = "store"
          PROVE  /\ \A d \in ToSet(proc'[q].data) : TagsAgree(d)
                 /\ HistoryFile(q)' \in DOMAIN yaml' =>
                      \A d \in ToSet(yaml'[HistoryFile(q)'].entries) :
                        d \in ToSet(proc'[q].data) \/ StoredWhole(d)'
      BY <2>1, <3>2, <3>4, <3>5, <3>6 DEF FieldsInv
    <3> QED BY <2>1, <3>2, <3>6 DEF FieldsInv
  <2>2. Converted(e).timestamp = e.timestamp
    BY DEF Converted
  <2> QED BY <1>1, <1>4, <2>0, <2>1, <2>2 DEF Store
<1>5. ASSUME NEW p \in Proc, RenameHistoryFile(p) PROVE FieldsInv'
  <2> DEFINE f == HistoryFile(p)
  <2>1. CASE f \notin DOMAIN yaml
    BY <1>1, <1>5, <2>1 DEF RenameHistoryFile
  <2>2. CASE f \in DOMAIN yaml
    <3>1. /\ migrated' = Put(migrated, f, yaml[f])
          /\ yaml' = [g \in DOMAIN yaml \ {f} |-> yaml[g]]
          /\ proc' = [proc EXCEPT ![p].pc = "read", ![p].next = @ + 1]
          /\ UNCHANGED backups
          /\ proc[p].pc = "store" /\ proc[p].data = <<>>
      BY <1>5, <2>2 DEF RenameHistoryFile, Exit1
    <3>2. proc'[p].pc = "read" /\ \A q \in Proc \ {p} : proc'[q] = proc[q]
      BY <3>1, <1>f DEF ProcState
    <3>3. \A e : StoredWhole(e)' = StoredWhole(e)
      BY <3>1 DEF StoredWhole
    <3>4. ToSet(proc[p].data) = {}
      BY <3>1 DEF ToSet
    <3>5. \A e \in ToSet(yaml[f].entries) : StoredWhole(e)
      BY <2>2, <3>1, <3>4 DEF FieldsInv
    <3>6. \A g \in DOMAIN migrated' : \A e \in ToSet(migrated'[g].entries) :
            StoredWhole(e)'
      BY <3>1, <3>3, <3>5 DEF FieldsInv, Put
    <3>7. ASSUME NEW q \in Proc, proc'[q].pc = "store"
          PROVE  /\ \A e \in ToSet(proc'[q].data) : TagsAgree(e)
                 /\ HistoryFile(q)' \in DOMAIN yaml' =>
                      \A e \in ToSet(yaml'[HistoryFile(q)'].entries) :
                        e \in ToSet(proc'[q].data) \/ StoredWhole(e)'
      <4>1. proc'[q] = proc[q]
        BY <3>2, <3>7
      <4>2. HistoryFile(q)' = HistoryFile(q)
        BY <4>1 DEF HistoryFile
      <4> QED BY <3>1, <3>3, <3>7, <4>1, <4>2 DEF FieldsInv
    <3>8. \A g \in DOMAIN yaml' : \A e \in ToSet(yaml'[g].entries) : TagsAgree(e)
      BY <3>1 DEF FieldsInv
    <3> QED BY <3>6, <3>7, <3>8 DEF FieldsInv
  <2> QED BY <2>1, <2>2
<1>6. ASSUME NEW p \in Proc, Return(p) \/ Killed(p) PROVE FieldsInv'
  <2>1. PICK l \in {"exit0", "killed"} : proc' = [proc EXCEPT ![p].pc = l]
    BY <1>6 DEF Return, Killed
  <2>2. proc'[p].pc # "store" /\ \A q \in Proc \ {p} : proc'[q] = proc[q]
    BY <2>1, <1>f DEF ProcState
  <2>3. UNCHANGED <<yaml, migrated, backups>>
    BY <1>6 DEF Return, Killed
  <2> QED BY <2>2, <2>3, LeavesFields
<1>7. ASSUME WriteHistory PROVE FieldsInv'
  <2>1. PICK f \in File \ DOMAIN yaml, c \in Written : yaml' = Put(yaml, f, c)
    BY <1>7 DEF WriteHistory
  <2>2. \A g \in DOMAIN yaml' : \A e \in ToSet(yaml'[g].entries) : TagsAgree(e)
    BY <2>1 DEF FieldsInv, Put
  <2>3. UNCHANGED <<migrated, backups>> /\ \A p \in Proc : proc'[p].pc # "store"
    BY <1>7 DEF WriteHistory, Active
  <2> QED BY <2>2, <2>3 DEF FieldsInv, StoredWhole
<1>8. ASSUME UNCHANGED vars PROVE FieldsInv'
  BY <1>8 DEF vars, FieldsInv, HistoryFile, StoredWhole
<1> QED BY <1>1, <1>2, <1>3, <1>4, <1>5, <1>6, <1>7, <1>8
     DEF Next, Migrate, IOError, Terminated

\* The tags are all that history-migrate loses by: where gpbackman knows the key of
\* each field that a file has, every field of a migrated file is in the database.
THEOREM FieldsKeptByTags ==
  ASSUME \A i \in Initial : \A f \in DOMAIN i :
           \A e \in ToSet(i[f].entries) : TagsAgree(e),
         \A c \in Written : \A e \in ToSet(c.entries) : TagsAgree(e)
  PROVE  Spec => []FieldsKept
<1>1. Init => FieldsInv
  <2>1. SUFFICES ASSUME Init PROVE FieldsInv
    OBVIOUS
  <2>2. \A f \in DOMAIN yaml : \A e \in ToSet(yaml[f].entries) : TagsAgree(e)
    BY <2>1 DEF Init
  <2>3. DOMAIN migrated = {} /\ \A p \in Proc : proc[p].pc = "idle"
    BY <2>1 DEF Init
  <2> QED BY <2>2, <2>3 DEF FieldsInv
<1>2. IInv /\ FieldsInv /\ [Next]_vars => FieldsInv'
  BY StepFieldsInv
<1>3. FieldsInv => FieldsKept
  BY DEF FieldsInv, FieldsKept, StoredWhole
<1> QED BY <1>1, <1>2, <1>3, Invariance, PTL DEF Spec
=============================================================================
