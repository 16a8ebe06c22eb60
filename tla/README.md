# A TLA+ model of gpbackman

gpbackman manages the backups that `gpbackup` makes of a Greenplum cluster: it
shows them, deletes them from local or plugin storage, and cleans and migrates
the history database. Its database, its storage and its ssh connections are
shared by whoever runs it, and each command is a sequence of small steps that
may fail, be killed, or meet another command. This directory models those steps
in TLA+, checks them with TLC on small instances, and proves the invariants
that matter most with TLAPS.

Sources are cited relative to the repository (`cmd/backup_delete.go:461`).

## The system

| Component | State it keeps | Operations | What makes it correct |
|---|---|---|---|
| backup-delete, backup-clean (`cmd/backup_delete.go`, `cmd/backup_clean.go`) | the list of names, the row of each name, the marks it writes into `backups.date_deleted` | take a list; judge a row; find dependents; cascade; mark, delete, mark again | database and storage agree at every step; dependents go first; nothing is deleted twice |
| Segment fan-out (`executeDeleteBackupOnSegments`) | goroutines, two WaitGroups, `limit`, `errCh` | check on every host, then remove on every host | checks before removals; no error lost; nobody blocks; limit respected |
| History database access (`gpbckpconfig/utils_db.go`) | the seven tables of `gpbackup_history.db` | six queries, one UPDATE, one DELETE per table | the right rows, in the right order; one transaction per statement |
| history-clean (`cmd/history_clean.go`, `CleanBackupsDB`) | a list of names, a batch index | query, then seven DELETEs per batch | only deleted backups, all tables |
| Row predicates (`gpbckpconfig/struct.go`, `utils.go`, `cmd/wrappers.go`) | none | type, status, locality, filters, `checkBackupCanBeUsed` | one meaning of "active", "deleted", "local" everywhere |
| history-migrate (`cmd/history_migrate.go`) | files, the database | parse, store each backup, rename the file | every backup stored once, also after a kill |
| backup-info (`cmd/backup_info.go`) | a list of names, the row being read, the table to show | query the names or the dependents; read each backup by five queries and more; filter; show | complete, not torn, nothing that was not asked for |
| report-info (`cmd/report_info.go`) | none | read a row, find the directory or the plugin's path, show the file | finds the report where gpbackup put it |
| Flag validation (`cmd/root.go`, each `do...FlagValidation`) | none | refuse a command line, or go on | what it accepts is what the commands can work with |
| Backup directories (`gpbckpconfig/utils.go`, `cmd/wrappers.go`) | none | from `--backup-dir`, the history or the cluster to a path, in two layouts | the right directory or an error |
| Cluster connection, messages, command line wiring | none | I/O and wording | |

How they interact: `backupDeleteDB` (shared by backup-delete and backup-clean)
calls a deleter through `backupDeleteInterface`; the local deleter calls the
segment fan-out; every command reads and writes the history database through
`utils_db.go`, one statement per transaction and no lock across statements. So
two commands, or a command and a crash, meet between any two statements. The
plugin, the segment hosts (ssh), SQLite and gpbackup are external. The functions of
gpbackup's package `history`, and cobra's checks of flags, are vendored and modelled
from their source.

What is hard here, and listed line by line under `hazards` in `PROJECT.json`:
a fan-out with a shared error channel; a check-then-act on a row; a status
protocol whose marks must agree with storage through failures and kills;
seven DELETEs that are not one transaction, and the queries that meet them half
done; lists of names that grow stale; directories of two layouts under one name;
six sets of flags that exclude and need each other.

## Modules

| Module | Models |
|---|---|
| `SegmentRemoval` | the promise of the segment fan-out to its caller, without goroutines |
| `SegmentDelete` | the fan-out: main goroutine, checks, removals, channels, panics |
| `SegmentDelete_proofs` | its invariants, and that it implements `SegmentRemoval` |
| `BackupConfig` | one row of `backups`, and the predicates on it |
| `HistoryDB` | the queries and the UPDATE, as operators on the tables |
| `HistoryDB_proofs` | what an ORDER BY returns |
| `DeletionStatus` | what deletions, one at a time, do to table `backups`: the statuses of a row |
| `BackupDelete` | backup-delete and backup-clean processes, database and storage |
| `BackupDelete_proofs` | that active rows have all their data and deleted ones none, and who owns a mark |
| `BackupDeleteSequential_proofs` | commands one at a time: they implement `DeletionStatus`, keep dates, and delete dependents first |
| `HistoryClean` | history-clean, beside `DeletionStatus` |
| `HistoryClean_proofs` | that it cleans all of its list, and only deleted backups |
| `BackupInfo` | backup-info, beside the two and gpbackup |
| `BackupInfo_proofs` | that what it shows is complete, whole and asked for, and why it may fail |
| `HistoryMigrate` | history-migrate, with files that gpbackup wrote |
| `HistoryMigrate_proofs` | that `.migrated` and exit code 0 can be trusted and no record is lost |
| `CommandLine` | flags and their validation, as operators |
| `BackupDirs` | the layouts, and where the commands look, as operators |
| `LocalBackups` | from command lines to files: report-info and the local backup-delete |
| `LocalBackups_proofs` | what is accepted, dated and found, for all flags and layouts |
| `*MC` | instances for TLC |

`BackupDelete` and `HistoryClean` extend `HistoryDB`, which extends
`BackupConfig`; `BackupInfo` extends `HistoryClean` and shares its tables, so that
the two commands interleave on one database. `LocalBackups` extends
`BackupConfig`, `BackupDirs` and `CommandLine`. `SegmentDelete` implements
`SegmentRemoval` (`Removal == INSTANCE SegmentRemoval WITH ...`).

Two components are composed through what they promise. `BackupDelete` uses the
steps of `SegmentRemoval` for the fan-out that `SegmentDelete` models in full; and
`HistoryClean`, with `BackupInfo` on top of it, runs beside `DeletionStatus`, not
beside the whole of `BackupDelete`, which implements it as far as table `backups`
goes (`ImplementsDeletionStatus`, checked and proved for commands one at a time).
Two commands that overlap do not: the second deletes again what has its date,
which is the finding of `BackupDeleteRace`.

### SegmentDelete

`pc` and `next` are the main goroutine of `executeDeleteBackupOnSegments`;
`check[s]` and `remove[s]` the goroutines it starts for segment `s` in its two
loops. A WaitGroup is the set of goroutines that have not called `Done`, the
`limit` channel the set that hold a token, `errCh` the set of segments whose
error is queued. The deferred calls are steps of their own, last one first
(`wg.Done`, then `<-limit`), because in between the main goroutine may already
go on. A send on the closed `errCh` panics: the goroutine unwinds through its
deferred calls while the others still run, and then the process dies (`Die`).
`DirOf` need not be injective: segments of one host share a directory when a
single backup directory is used. The second loop's copy of the "no directory"
return is left out: it computes the same paths as the first and cannot fail
where that did not.

### BackupDelete

A process is a record `proc[p]` with the locals of `backupDeleteDB`, its cascade
and the two deleters; `pc` names the next step. Each statement to the database
and each external call is one action. The tables are `backups` (a function from
timestamps to rows) and `restorePlans`; storage is `coordDir`, `segDir` and
`object` (the plugin's). Date texts are kept by class: `""`, the three statuses,
`"date"`, or `"invalid"` for what does not parse.

- `Verdict` is `GetBackupDataDB` followed by `checkBackupCanBeUsed`.
- `Fail` and `Ignorable` are `handleErrorDB` followed by the return, or, with
  `--ignore-errors`, by the next statement of the deleter: `RecordFailure` writes
  the status and goes to `after`.
- The fan-out is one step per host (`CheckSegment`, `AcceptSegments`,
  `RefuseSegments`, `RemoveSegment`, `FailSegment`, `Die`, `EndSegments`), which
  is `SegmentRemoval` with its caller's state. That the real fan-out implements
  `SegmentRemoval` is checked by `SegmentDelete.cfg` and proved.
- `FailSegment` leaves a process that is about to die (`doomed`) and may go on
  for a while; `Die` ends it.
- A plugin that returns an error may have removed the objects or not.
- `Locate` is `getBackupMasterDir` without an error: it finds the directory of the
  backup (`located`), or, by `--backup-dir`, a layout that hides another, or a row
  that is not local, a directory where the backup is not (`strayed`). `LocalBackups`
  models how that comes about. The checks on the segments fail there. On the
  coordinator nobody checks: `os.RemoveAll` of nothing is no error. So a backup that
  has nothing on segments, a metadata-only one, gets its date with its directory
  left, and `DeletedMeansGone` leaves such backups out when a process strayed. A local
  backup with data it does not.
- `Crash` ends the process between any two steps. A transaction is atomic.

### HistoryClean

`list` is what the query returned, `first` the index `i` of `CleanBackupsDB`,
`stmt` the table of the next DELETE. `details` holds, for the five tables that
only this command touches, which timestamps have rows. `DeleteElsewhere` is a
step of `DeletionStatus`: a backup-delete beside it begins a deletion that
`checkBackupCanBeUsed` allows, fails, goes on after a failure that is ignored, or
writes the date. `Forced` says whether that command has `--force`.

### BackupInfo

`info` is the command: its flags, the names that are left, and what it has read of
the first of them. `ReadRow` is `GetMainBackupInfo` and `ReadAux` one
`getAuxTable` of gpbackup's `GetBackupConfig`, each a statement of its own: the
steps of history-clean, of a backup-delete and of gpbackup (`StoreElsewhere`) come
between any two. `getAuxTable` never asks `rows.Err()` (`history.go:356`), so an SQLite
error within the rows only cuts its list short, and the command goes on: `ReadAux`
may read any part of what is stored, and notes the backup in `seen.short`. An error
that the code looks at is `InfoFails`. The restore plan is read with
`AddBackupToTable`, since nothing that is shown depends on it. `Listed` is the condition of `getBackupNameQuery`,
`CheckBackupCanBeDisplayed` its twin for YAML files, `Shown` the filters. `details`
says which tables have rows of a backup, and `Listing` the names in them. What the
user asked for (`AskedFor`) is stated from the documentation and not from the
code's operators, and noted in `seen` when the command is given.

### CommandLine, BackupDirs and LocalBackups

A command line maps the flags that are given to the class of their value: well
formed, malformed, a file that is missing, 0, false. `Parses` is what cobra and
pflag refuse (unknown flags, required ones, exclusive ones, texts that are no
numbers); each `do...FlagValidation` is a conjunction of its checks, since every
failed check ends the process before anything happened. That `--force=false`
counts as given is kept (`On` against `Given`).

A home is a pair of a directory and a prefix: `<<dir, "">>` is the layout of
`--single-backup-dir`, `<<dir, prefix>>` the one with a directory per segment.
`CheckMasterBackupDir` chooses among the homes that its calls on files answer with;
its error is `NoHome`. `FileAnswer` has the possible answers: a call fails (`Stat`, with
another error than that nothing is there), or `Glob` passes over homes that cannot be
read. `os.ReadFile` may fail on a report that is there; `fault` notes such an answer. `LocalBackups` puts backups into homes (`MakeBackup`, gpbackup) and runs
command lines from validation on: report-info up to the file, backup-delete as one
step that finds, checks and removes directories. That step leaves the statuses on
the way, the dependents and the kills to `BackupDelete`. The other commands stop
when their flags are accepted.

### HistoryMigrate

`proc[p]` holds the locals of `migrateHistory`: the arguments, the index of the
file, the backups of it that are left; `error` is what the command logs before
exit code 1. `yaml` and `migrated` are the files without and with the suffix, by
path. Reading and parsing a file is one step, and so is the transaction of
`StoreBackupHistory`, which fails on a timestamp that is the primary key of a row
already. `Converted` is the way of a record through the yaml tags: it keeps a
field only if the file has it under the tag's key. `WriteHistory` is gpbackup
between two migrations: it is what makes a second `.migrated` replace the first.
`from` is no column; it tells where a row came from.

## Runs

Runs that pass:

| Run | Instance | Shows |
|---|---|---|
| `SegmentDelete` | 3 segments, 2 directories, 2 tokens | barrier, all-or-nothing check, capacity of `errCh`, limit, promise to the caller, termination |
| `BackupDeleteSequential` | 2 processes one after the other, chains of 2 and 3, all kinds of rows and flags, kills, statements that fail | database and storage agree, also when a status is not written; dependents first; nothing deleted twice; `DeletionStatus` implemented |
| `BackupDeleteOverlap` | 2 commands of local, plugin or metadata-only backups, any interleaving, kills, a plugin that fails half way | database and storage agree; both end |
| `BackupInfo` | history-clean: 5 backups, batches of 2, 2 runs; and backup-info on 2 backups with a third that arrives, beside a cleaning; kills, errors | exit 0 of a cleaning means clean; only deleted rows are; a list is as asked and, but for lists that an SQLite error cut short, complete and not torn; backup-info fails for named causes only; both end |
| `HistoryMigrate` | 2 commands, 2 files, any interleaving, kills, errors, a file that gpbackup writes later | `.migrated` can be trusted; no last record is lost; exit 0 means migrated; both end |
| `LocalBackups` | every set of flags of every command with one bad value at most; 2 commands on up to 2 backups in 4 places, file calls that fail or miss a directory | accepted lines fit the other models; a dated backup is gone; reports are found |

Runs that show a disagreement between the code and what is said of it (each is
a finding in `PROJECT.json`, with the line quoted):

| Run | Violates | What happens |
|---|---|---|
| `SegmentDeletePanic` | `IgnoreErrorsSurvives` | a failed removal panics on the closed `errCh`, with `--ignore-errors` too |
| `BackupDeleteRace` | `DeletedOnce` | two commands: the second deletes again what the first has deleted |
| `HistoryCleanStale` | `OnlyDeletedCleaned` | the list is stale: a row that is no longer deleted is cleaned |
| `HistoryMigrateRetry` | `InterruptedCanResume` | after a kill half way, every retry fails on what is stored already |
| `BackupInfoTimestamp` | `TimestampShown` | a cleaning killed half way leaves a plan without a backup: `backup-info --timestamp` of its base fails from then on |
| `HistoryMigrateFields` | `FieldsKept` | `withoutglobals`, `tablefqns` and `segmentcount` are dropped |

More that no run shows:

- A removal that panics releases its WaitGroup first, so the main goroutine may
  write the deletion date before the process ends, with data left (`Die` may come
  after any other step, and `DeletedMeansGone` is stated for processes that are not
  `doomed`).
- `getBackupNameBeforeTimestampQuery` takes failed backups, which its comment
  (`gpbckpconfig/utils_db.go:80`) says are hidden, and
  `getBackupNameForCleanBeforeTimestampQuery` takes deleted backups only, where
  `COMMANDS.md:553` also speaks of failed ones.
- `--ignore-errors --force=false` is accepted: only that `--force` is given is
  checked. `DeleteAssumption` therefore does not ask for `force`.
- A metadata-only backup is dated although its directory remains, when
  `--backup-dir` names another directory or another layout hides it: no segment is
  asked, and `os.RemoveAll` of nothing is no error. `DatedMeansGone` leaves these
  backups out, `DeletedMeansGone` when a directory was sought in another place.
- backup-info shows a backup without some of its details, or filters it out, and exits
  with 0, when SQLite fails within the rows of an auxiliary table: `getAuxTable` does not
  look for that error. `CompleteList` and `TornForCause` except such backups.
- `CheckBackupCanBeDisplayed` with `--failed` alone hides a backup whose deletion is
  in progress, which `getBackupNameQuery` lists. Only its tests call it.
- An empty `backups` directory of one layout, left when its backups are deleted,
  hides the backups of the other layout in the same directory.

### Bounds, and why they are enough

- Three segments with two tokens make the main goroutine block on `limit` in
  both loops; two of the segments share a directory.
- Two processes are enough for a check and an act of one to enclose any steps of
  another. Two directories per backup make a partial removal possible; a third
  would only repeat it.
- A chain of two has a base and a dependent; a chain of three has a dependent
  that has one itself, and a cascade list of two.
- The commands cover: a cascade, a list with a name given twice, a clean before
  and a clean after a timestamp, force, force with ignored errors. `LocalScenarios`
  gives the incremental each kind of row that the code treats apart, and no row.
- The chain of three takes three of the commands only (`SequentialInit`): a cascade
  from its end and from its middle, and a list after a timestamp.
- Five backups, up to four of them deleted, in batches of two give lists of up to
  four names: a short batch, a full one, a full and a short one, two full ones.
  `MaxRuns` is 2: a retry after a failure, in the databases that backup-info does
  not read. Where it does, history-clean runs once and every backup has a part to
  play: a base with a dependent that is deleted and may be cleaned, a failed one,
  one with two filters, one that arrives as a new dependent (`BoundedInit`).
- A step of history-clean between any two queries of one row needs one deleted
  backup and one cleaning; a second list would only repeat it.
- Every subset of a command's own flags, the root's and the foreign ones one at a
  time, one bad value at most: a check looks at one value, or at two flags' presence.
- Two backups make two layouts, or two prefixes, meet in one directory; two
  commands make a deletion meet a report, or two deletions the same backup.
- Two history files, with backups of their own, in common, none, and one that
  cannot be parsed, given in either order or twice; two commands, so that the
  second meets what the first left or does; one file written in between.

`BackupDeleteSequential` checks no liveness and uses the symmetry of the two processes
and of the two directories on segments. Its `VIEW` leaves out the locals of a process that
has ended, which no step and no property reads any more. `BackupDeleteOverlap` checks
liveness and uses neither; its initial states have the two commands in one order only, and
the forced command, with ignored errors, once at most (`OverlapInit`).

No counter is unbounded except by these constants. Deadlock is checked in every
run: `Terminated` is the only step of a system whose commands have all ended.

### Fairness

`SegmentDelete`: weak fairness of the main goroutine and of each worker. Go
schedules every runnable goroutine; `ssh.Dial` has a 30 s timeout (line 569), and
a remote `test` or `rm` is assumed to return. `BackupDelete`: weak fairness of the
steps of each process that has started, never of starting one or of a kill.
`HistoryClean` and `BackupInfo`: weak fairness of the next DELETE or return, and of
the next query of backup-info (SQLite returns), not of what runs beside them. `HistoryMigrate`: weak
fairness of the steps of a process that has started.

## Proofs

`tlapm` on the eight `*_proofs.tla` modules checks every theorem for all values of
the constants that satisfy the named assumptions (`SegmentAssumption`: `N` natural, a
positive limit, a directory for each segment; `DeleteAssumption`: the form of
commands and initial rows, at least one segment, and that backup-clean has neither `--force` nor
`--ignore-errors`; `MigrateAssumption`: the form of files and arguments;
`CleanAssumption`: a positive batch size and the form of the tables;
`InfoAssumption`: the form of flags and names, and that a backup which gpbackup
stores meanwhile is not older than a cutoff of history-clean;
`LocalAssumption`: the form of command lines and backups, and that the data
directories have one prefix).

- **SegmentDelete.** `IInv` joins type correctness with: which goroutines exist
  for which `next` (`StartedInv`), what `errCh` and `closed` say at each `pc`
  (`ChannelInv`: in the removal phase `errCh` is closed and empty), what is on disk
  (`StorageInv`), and that the tokens fit (`TokenInv`). The barrier alone is not
  inductive: it needs to know that no check is outstanding once `checkRead` is
  reached, and that needs `StartedInv`. One lemma per action shows that `IInv` is
  kept; the five invariants follow. The refinement has one lemma for the main
  goroutine and one for the workers: each step is a step of `SegmentRemoval` or
  leaves its variables alone.
- **BackupDelete.** `IInv` holds for any number of overlapping processes. Its
  heart is `MarkInv` (while a deleter works, its backup's row is not active,
  whatever other processes write) and `RemovedInv` (what a deleter that has met no
  error has found and removed so far; nothing ever comes back). It is `RemovedInv` that
  keeps a strayed deleter from the date: past the segments of a backup that has some,
  the directory has been `located`. Since steps only take away
  from storage and no UPDATE makes a row active, a step of `p` can disturb only
  what is said of `p` and of the row it updates: `StepKeeps` says so once, and
  each action's lemma shows those two things. `ActiveWhole` and `DeletedGone` follow.
  `TypeCorrect` needs the type of a sorted list, see `QueryResult` below.
  `InProgressOwned` has a premise, `NoneInProgress`: no deletion is in progress at
  first. Its steps are sorted by what they do to marks: those before the mark, the
  mark and what replaces it, and the deleter in between, which keeps `cur`.

- **BackupDelete, commands one at a time** (`BackupDeleteSequential_proofs`, for
  `~Overlap`). `SequentialInv` is that one process is active, and that the verdict
  it read on a row still holds when it marks the row (`StatusInv`): that is the
  check-then-act which the race breaks. Each action is first shown to be what the
  active process does to its own record and to the row it updates, if any
  (`StepTurn`); the invariants are then argued on those. `StatusImplementation`
  maps every UPDATE to a step of `DeletionStatus` and every other step to a
  stutter, and `DatesStay` follows from it alone: no step of `DeletionStatus`
  without `--force` takes a date away.
  `DependentsGoFirst` needs more than its statement: `CascadeInv` keeps that the
  list of a cascade is what is left of the dependents, from the newest to the
  oldest, that every other dependent is dealt with, and that no backup which is
  about to be deleted has been outlived (`Outlived`: a backup it needs is gone
  already). It has two premises. `DependentsFirst` holds at first: an earlier
  `--force` may have broken it. And `PlansClosed`: the plan of an incremental names
  all the backups behind it and none after it, since `getBackupDependenciesQuery` goes
  one level and the cascade relies on it. gpbackup writes such plans, down to
  entries without tables (`e2e_tests/src_data/gpbackup_history_incremental_plugin.yaml`);
  every plan in the runs is of this form.

- **HistoryDB.** `OrderByTimestampDesc` says of each position which timestamp is
  there: the one that as many timestamps as the position's number are not smaller
  than. `QueryResult` is that the list has every timestamp once and in
  order: the numbers of not smaller timestamps are a bijection to `1..Cardinality`,
  which needs no induction. The definition is by rank and not by the community
  modules' `SortSeq`, because `tlapm` does not look into that one.
- **HistoryClean.** `ListInv` keeps of the query that all names are older than the
  cutoff, and that exit code 0 means the index is past the list. `RemovedInv` says what has left which table: whole
  batches have left all seven, the batch at work those whose statement is done.
  `Cleaned` follows when the index has passed the end. `OnlyDeleted` has two premises.
  `~Forced` is the finding `HistoryCleanStale`. `ValidDates` excludes a date that does
  not parse: the query counts it as deleted, the deleters do not, and take the row
  again. With both, a listed backup keeps its date (`DatesInv`). Of the deletion beside it the proofs use the steps of
  `DeletionStatus` only.
- **BackupInfo.** `DetailsInv`: a backup in `backups` still has its rows in the
  five tables of `details`, because the first DELETE of a batch is the one from `backups`. So
  what has been read of a backup that is still there is whole, unless a list was cut
  short (`ReadInv`), and every name taken from the list is in the table, was not asked
  for, has left `backups` or was cut short (`ListedInv`). A list that is cut short can only
  make a filter match less, so `NoneUnasked` needs no exception. `ListComplete`, `NoneUnasked` and `TornCaused` are corollaries. They use
  `HistoryClean_proofs` for the tables, and `QueryResult` for the list.
  `FailureHasCause` is about the last step of a command that gives up: `QuietInv` says
  that as long as nothing else has happened, each name still to be read is one of
  `Expected`: it has a row, or is the timestamp or a dependent; a command without SQLite
  errors can only fail at reading a row that is not there (`GivesUpAtRow`).
  `ShownWithoutFaults` delimits the finding `BackupInfoTimestamp`: with `~Faults` a
  plan has no backup only between the first two DELETEs of a batch (`PlansInv`), so
  `TimestampShown` follows from `FailureHasCause`.
  `DisplaysAgree` compares the two conditions on every row.

- **HistoryMigrate.** `IInv` adds `StoreInv` to `MigratedMeansStored`: what a process
  has read from a file is stored or still before it, as long as the file is there.
  The rename is the only step that needs it, and only gpbackup, which waits,
  could put another file in its place. `NothingLost` follows step by step: the one
  file that a rename replaces had the suffix, so its backups are stored.
  `Exit0IsComplete` needs `DoneInv`: the files before the index of a process at work
  are gone, and do not come back, because gpbackup writes between commands only.
  `FieldsKeptByTags` delimits the finding `HistoryMigrateFields`: if each key of the
  files is one that gpbackman's tags have for the same field (`TagsAgree`), nothing of
  a migrated record is lost, whatever fails or overlaps. `FieldsInv` is `StoreInv`
  with fields: what a process has read is still before it or stored whole.

- **LocalBackups.** `IInv` joins the form of the tables (`FormInv`), where
  directories can be (`StoredInv`: each in the home where gpbackup put its backup),
  `DatedMeansGone`, and what each process may rely on (`ProcInv`: a report is read
  from a home that exists, and whoever is past validation has an accepted line).
  The date needs
  `StoredInv`: if the segments have the backup in the home that was found, then that
  is its home, whatever the layouts around it. `ReportsFound` adds `CauseInv`,
  that the home found for a report is the right one until the file is read, or a
  cause is there already: when all calls on files answer truly and no other cause
  holds, the home of the backup is the only one to choose. `AcceptedFit` is a case split over the commands, for any
  flags and values.

The `IInv` of each module, and the invariants that later proofs add to it, were
checked by TLC on the instances above first.

Only model-checked: the four `Termination` properties and `InfoTermination`
(liveness and fairness are out of the prover's reach). Every other property of a run
that passes is a theorem. Of the properties that the code violates, four are
theorems under the premise that the finding is about: `DeletedOnce` (`~Overlap`),
`OnlyDeletedCleaned` (`~Forced`, valid dates), `TimestampShown` (`~Faults`) and
`FieldsKept` (`TagsAgree`).

## Not modelled

Left out: messages and logging (wording only), the command line wiring, the
cluster connection (queries that succeed or fail), containers and test scripts;
dates and durations, which are formatted and never decided on;
`FindBackupConfig`, `FindBackupConfigDependencies` and
`UpdateBackupConfigDateDeleted`, which no command calls; a coordinator whose data
directory does not end in `-1`, on which `GetSegPrefix` cuts the wrong text; a
gpbackup that adds an incremental between the dependency query and the deletion of
its base, where no property could hold; several files of one backup's directory.

What could be proved next: that the one step of backup-delete in `LocalBackups` is
what a run of `BackupDelete` amounts to, and that `BackupDelete` allows every
step of `SegmentRemoval` (it has its steps with other state; both are read side by
side so far).

Abstracted: the contents of directories (a directory exists or not), partial
removals within one directory, the text of dates, the errors' texts. An ssh key
that cannot be read after the segment list could not be read either, with
`--ignore-errors`, writes the same failure status twice in the code and once here.
A backup-delete command line that cannot start at all (no database file, no plugin
configuration) changes nothing and is not a step.
