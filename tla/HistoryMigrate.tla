--------------------------- MODULE HistoryMigrate ---------------------------
(***************************************************************************)
(* history-migrate (cmd/history_migrate.go): the backups of each given     *)
(* gpbackup_history.yaml are stored in the history database, a transaction *)
(* each, and the file is renamed to gpbackup_history.yaml.migrated.        *)
(* Several commands may run, one after the other or at once, fail or be    *)
(* killed; gpbackup may write a new history file between them.             *)
(***************************************************************************)
EXTENDS Naturals, Sequences, SequencesExt

CONSTANTS
  Proc,       \* the processes, one command each
  File,       \* paths of history files, without the suffix ".migrated"
  Backup,     \* timestamps
  Initial,    \* initial files: functions from paths to contents
  Existing,   \* initial sets of timestamps in the database
  Args,       \* values of --history-file, in order
  Written,    \* contents of the files that gpbackup writes later
  Overlap,    \* may a command be given while another one runs?
  Faults,     \* may a system call or a statement fail?
  MayCrash    \* may a process be killed?

\* The fields that the conversion does not treat alike, with their keys in the
\* YAML that gpbackman reads (the tags of its BackupConfig) ...
YamlTag == [plugin |-> "plugin", withoutGlobals |-> "withoutgoals",
            tableFQNs |-> "tablefqdn"]

\* ... and in the YAML that gpbackup writes: the names in lower case.
GpbackupKey == [plugin |-> "plugin", withoutGlobals |-> "withoutglobals",
                tableFQNs |-> "tablefqns", segmentCount |-> "segmentcount"]

Key == {YamlTag[f] : f \in DOMAIN YamlTag}
         \cup {GpbackupKey[f] : f \in DOMAIN GpbackupKey}

\* One element of backupconfigs; keys are those with a value that is not zero.
Entry == [timestamp : Backup, endTime : {"", "then"}, keys : SUBSET Key]

\* What yaml.Unmarshal makes of a file: entries, or an error.
Contents == [damaged : BOOLEAN, entries : Seq(Entry)]

\* A row of backups with its rows in the other tables.  from is the path of the
\* file it came from, "" if from none; the database has no such column.
StoredRow == [endTime : {"then", "now"}, fields : SUBSET DOMAIN GpbackupKey,
              from : File \cup {""}]

ASSUME MigrateAssumption ==
  /\ \A i \in Initial : /\ DOMAIN i \subseteq File
                        /\ \A f \in DOMAIN i : i[f] \in Contents
  /\ Existing \subseteq SUBSET Backup /\ Args \subseteq Seq(File)
  /\ Written \subseteq Contents
  /\ "" \notin File
  /\ Overlap \in BOOLEAN /\ Faults \in BOOLEAN /\ MayCrash \in BOOLEAN

VARIABLES
  yaml,      \* the history files, by path
  migrated,  \* the files with suffix ".migrated", by path without it
  backups,   \* the database, by timestamp
  proc       \* the processes: see ProcState

vars == <<yaml, migrated, backups, proc>>

\* args: historyMigrateHistoryFiles; next: the index of historyFile; data: the
\* elements of parseHData.BackupConfigs from backupConfig on; error: what is
\* logged.
ProcState ==
  [pc : {"idle", "read", "store", "exit0", "exit1", "killed"},
   args : Seq(File), next : Nat \ {0}, data : Seq(Entry),
   error : {"", "io", "missing", "parse", "duplicate"}]

Active(p) == proc[p].pc \in {"read", "store"}

\* Function f with value v for key x.
Put(f, x, v) == [y \in DOMAIN f \cup {x} |-> IF y = x THEN v ELSE f[y]]

HistoryFile(p) == proc[p].args[proc[p].next]

Init ==
  /\ yaml \in Initial
  /\ migrated = [f \in {} |-> f]
  /\ \E E \in Existing :
       backups = [t \in E |-> [endTime |-> "then", from |-> "",
                               fields |-> DOMAIN GpbackupKey]]
  /\ proc = [p \in Proc |-> [pc |-> "idle", args |-> <<>>, next |-> 1,
                             data |-> <<>>, error |-> ""]]
-----------------------------------------------------------------------------
(* Conversions *)

\* Wrong: the keys of the file are taken for the fields.
ConvertedMutant(e) ==
  [timestamp |-> e.timestamp, endTime |-> e.endTime, fields |-> e.keys]

\* ParseResult and ConvertToHistoryBackupConfig: fields without their tag in the
\* file are zero.
Converted(e) ==
  [timestamp |-> e.timestamp, endTime |-> e.endTime,
   fields |-> {f \in DOMAIN YamlTag : YamlTag[f] \in e.keys}]

\* StoreBackupHistory's INSERT, with an end time filled in if it is missing.
StoreBackupHistory(h, file) ==
  Put(backups, h.timestamp,
      [endTime |-> IF h.endTime = "" THEN "now" ELSE h.endTime,
       fields |-> h.fields, from |-> file])
-----------------------------------------------------------------------------
(* Steps of one process *)

\* The command logs an error and exits with code 1.
Exit1(p, error) ==
  /\ proc' = [proc EXCEPT ![p].pc = "exit1", ![p].error = error]
  /\ UNCHANGED <<yaml, migrated, backups>>

\* The database cannot be opened; a file cannot be read or renamed; a
\* transaction fails.
IOError(p) ==
  /\ Faults
  /\ \/ proc[p].pc \in {"idle", "store"}
     \/ proc[p].pc = "read" /\ proc[p].next <= Len(proc[p].args)
  /\ Exit1(p, "io")

\* doHistoryMigrateFlagValidation: every file must exist; then the database is
\* opened, and created if it does not exist.
Start(p) ==
  /\ proc[p].pc = "idle"
  /\ Overlap \/ \A q \in Proc : ~Active(q)
  /\ \E args \in Args :
       \/ /\ ToSet(args) \subseteq DOMAIN yaml
          /\ proc' = [proc EXCEPT ![p].pc = "read", ![p].args = args]
          /\ UNCHANGED <<yaml, migrated, backups>>
       \/ ~(ToSet(args) \subseteq DOMAIN yaml) /\ Exit1(p, "missing")

\* Wrong: a file that cannot be parsed is passed over.
ReadHistoryFileMutant(p) ==
  /\ proc[p].pc = "read" /\ proc[p].next <= Len(proc[p].args)
  /\ LET f == HistoryFile(p)
     IN \/ /\ f \in DOMAIN yaml /\ ~yaml[f].damaged
           /\ proc' = [proc EXCEPT ![p].pc = "store",
                                   ![p].data = yaml[f].entries]
           /\ UNCHANGED <<yaml, migrated, backups>>
        \/ /\ f \in DOMAIN yaml /\ yaml[f].damaged
           /\ proc' = [proc EXCEPT ![p].next = @ + 1]
           /\ UNCHANGED <<yaml, migrated, backups>>
        \/ f \notin DOMAIN yaml /\ Exit1(p, "missing")

\* ReadHistoryFile and ParseResult of the next file, which may be gone by now.
ReadHistoryFile(p) ==
  /\ proc[p].pc = "read" /\ proc[p].next <= Len(proc[p].args)
  /\ LET f == HistoryFile(p)
     IN \/ /\ f \in DOMAIN yaml /\ ~yaml[f].damaged
           /\ proc' = [proc EXCEPT ![p].pc = "store",
                                   ![p].data = yaml[f].entries]
           /\ UNCHANGED <<yaml, migrated, backups>>
        \/ f \in DOMAIN yaml /\ yaml[f].damaged /\ Exit1(p, "parse")
        \/ f \notin DOMAIN yaml /\ Exit1(p, "missing")

\* Wrong: a backup that is in the database already is tried again and again.
StoreMutant(p) ==
  /\ proc[p].pc = "store" /\ proc[p].data # <<>>
  /\ LET h == Converted(Head(proc[p].data))
     IN \/ /\ h.timestamp \notin DOMAIN backups
           /\ backups' = StoreBackupHistory(h, HistoryFile(p))
           /\ proc' = [proc EXCEPT ![p].data = Tail(@)]
           /\ UNCHANGED <<yaml, migrated>>
        \/ h.timestamp \in DOMAIN backups /\ UNCHANGED vars

\* One backup in one transaction, rolled back when its timestamp, the primary
\* key, is there already.
Store(p) ==
  /\ proc[p].pc = "store" /\ proc[p].data # <<>>
  /\ LET h == Converted(Head(proc[p].data))
     IN \/ /\ h.timestamp \notin DOMAIN backups
           /\ backups' = StoreBackupHistory(h, HistoryFile(p))
           /\ proc' = [proc EXCEPT ![p].data = Tail(@)]
           /\ UNCHANGED <<yaml, migrated>>
        \/ h.timestamp \in DOMAIN backups /\ Exit1(p, "duplicate")

\* Wrong: the file is renamed before all its backups are stored.
RenameHistoryFileMutant(p) ==
  /\ proc[p].pc = "store"
  /\ LET f == HistoryFile(p)
     IN \/ /\ f \in DOMAIN yaml
           /\ migrated' = Put(migrated, f, yaml[f])
           /\ yaml' = [g \in DOMAIN yaml \ {f} |-> yaml[g]]
           /\ proc' = [proc EXCEPT ![p].pc = "read", ![p].next = @ + 1]
           /\ UNCHANGED backups
        \/ f \notin DOMAIN yaml /\ Exit1(p, "missing")

\* renameHistoryFile: os.Rename replaces a file of that name.
RenameHistoryFile(p) ==
  /\ proc[p].pc = "store" /\ proc[p].data = <<>>
  /\ LET f == HistoryFile(p)
     IN \/ /\ f \in DOMAIN yaml
           /\ migrated' = Put(migrated, f, yaml[f])
           /\ yaml' = [g \in DOMAIN yaml \ {f} |-> yaml[g]]
           /\ proc' = [proc EXCEPT ![p].pc = "read", ![p].next = @ + 1]
           /\ UNCHANGED backups
        \/ f \notin DOMAIN yaml /\ Exit1(p, "missing")

Return(p) ==
  /\ proc[p].pc = "read" /\ proc[p].next > Len(proc[p].args)
  /\ proc' = [proc EXCEPT ![p].pc = "exit0"]
  /\ UNCHANGED <<yaml, migrated, backups>>

Migrate(p) ==
  ReadHistoryFile(p) \/ Store(p) \/ RenameHistoryFile(p) \/ Return(p)

Killed(p) ==
  /\ MayCrash /\ Active(p)
  /\ proc' = [proc EXCEPT ![p].pc = "killed"]
  /\ UNCHANGED <<yaml, migrated, backups>>
-----------------------------------------------------------------------------
TimestampsOf(contents) == {e.timestamp : e \in ToSet(contents.entries)}

\* The backups of which there is a record anywhere.
Known ==
  {t \in Backup : \/ t \in DOMAIN backups
                  \/ \E f \in DOMAIN yaml : t \in TimestampsOf(yaml[f])
                  \/ \E f \in DOMAIN migrated : t \in TimestampsOf(migrated[f])}

\* gpbackup makes new backups while no migration runs, and keeps their records
\* in a new file.
WriteHistory ==
  /\ \A p \in Proc : ~Active(p)
  /\ \E f \in File \ DOMAIN yaml, c \in Written :
       /\ TimestampsOf(c) \cap Known = {}
       /\ yaml' = Put(yaml, f, c)
  /\ UNCHANGED <<migrated, backups, proc>>

Terminated ==
  (\A p \in Proc : proc[p].pc \in {"exit0", "exit1", "killed"}) /\ UNCHANGED vars

Next ==
  \/ \E p \in Proc : Start(p) \/ Migrate(p) \/ IOError(p) \/ Killed(p)
  \/ WriteHistory
  \/ Terminated

Spec == Init /\ [][Next]_vars

\* System calls and statements return, and each process goes on; no error or
\* kill has to happen.
FairSpec == Spec /\ \A p \in Proc : WF_vars(Migrate(p))
-----------------------------------------------------------------------------
(* Properties *)

\* Files hold entries and rows are whole: in particular every row has an end
\* time, which gpbackup's records may lack.
TypeOK ==
  /\ DOMAIN yaml \subseteq File /\ \A f \in DOMAIN yaml : yaml[f] \in Contents
  /\ DOMAIN migrated \subseteq File
  /\ \A f \in DOMAIN migrated : migrated[f] \in Contents
  /\ DOMAIN backups \subseteq Backup
  /\ \A t \in DOMAIN backups : backups[t] \in StoredRow
  /\ proc \in [Proc -> ProcState]
  /\ \A p \in Proc : proc[p].pc = "store" => proc[p].next \in DOMAIN proc[p].args

\* The suffix ".migrated" can be trusted: every backup of such a file is in the
\* database, whatever commands failed, were killed or overlapped before.
MigratedMeansStored ==
  \A f \in DOMAIN migrated : TimestampsOf(migrated[f]) \subseteq DOMAIN backups

\* No step loses the last record of a backup, though a rename replaces the file
\* of an earlier migration.
NothingLost == [][Known \subseteq Known']_vars

\* Exit code 0 means that the given files were migrated, each of them: none is
\* left under its name.
Exit0MeansMigrated ==
  [][\A p \in Proc :
       proc[p].pc = "read" /\ proc'[p].pc = "exit0" =>
         ToSet(proc[p].args) \cap DOMAIN yaml = {}]_vars

\* Each command ends, even if another one takes its files away.
Termination == \A p \in Proc : Active(p) ~> ~Active(p)

\* COMMANDS.md:574 says that the data from the file will be uploaded: a command
\* fails on a duplicate only if it came from elsewhere, so one that was
\* interrupted can be given again.
InterruptedCanResume ==
  \A p \in Proc :
    proc[p].error = "duplicate" =>
      backups[Head(proc[p].data).timestamp].from # HistoryFile(p)

\* The same line says so of all the data: every field that gpbackup wrote.
FieldsKept ==
  \A f \in DOMAIN migrated : \A e \in ToSet(migrated[f].entries) :
    e.timestamp \in DOMAIN backups =>
      {x \in DOMAIN GpbackupKey : GpbackupKey[x] \in e.keys}
        \subseteq backups[e.timestamp].fields
-----------------------------------------------------------------------------
(* The inductive invariant of the proofs in HistoryMigrate_proofs *)

\* The backups that process p has read and not stored yet.
Pending(p) == {e.timestamp : e \in ToSet(proc[p].data)}

\* What p has read is in the database or still before it, as long as the file
\* is there: it cannot be another one by then.
StoreInv ==
  \A p \in Proc :
    proc[p].pc = "store" /\ HistoryFile(p) \in DOMAIN yaml =>
      TimestampsOf(yaml[HistoryFile(p)]) \subseteq DOMAIN backups \cup Pending(p)

IInv == TypeOK /\ StoreInv /\ MigratedMeansStored

\* The files that a running command is done with are gone, and no new one has
\* taken the name of one: gpbackup writes while no command runs.
DoneInv ==
  \A p \in Proc :
    /\ proc[p].pc = "idle" => proc[p].next = 1
    /\ Active(p) =>
         \A i \in DOMAIN proc[p].args :
           i < proc[p].next => proc[p].args[i] \notin DOMAIN yaml

\* gpbackman knows the key of each field that e has.
TagsAgree(e) ==
  \A x \in DOMAIN GpbackupKey :
    GpbackupKey[x] \in e.keys => x \in DOMAIN YamlTag /\ YamlTag[x] \in e.keys

\* The row of e has what gpbackup wrote of it.
StoredWhole(e) ==
  /\ e.timestamp \in DOMAIN backups
  /\ {x \in DOMAIN GpbackupKey : GpbackupKey[x] \in e.keys}
       \subseteq backups[e.timestamp].fields

\* With tags that agree, what p has read is stored whole or still before it.
FieldsInv ==
  /\ \A f \in DOMAIN yaml : \A e \in ToSet(yaml[f].entries) : TagsAgree(e)
  /\ \A f \in DOMAIN migrated : \A e \in ToSet(migrated[f].entries) : StoredWhole(e)
  /\ \A p \in Proc : proc[p].pc = "store" =>
       /\ \A e \in ToSet(proc[p].data) : TagsAgree(e)
       /\ HistoryFile(p) \in DOMAIN yaml =>
            \A e \in ToSet(yaml[HistoryFile(p)].entries) :
              e \in ToSet(proc[p].data) \/ StoredWhole(e)
=============================================================================
