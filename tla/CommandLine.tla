---------------------------- MODULE CommandLine ----------------------------
(***************************************************************************)
(* The flag validation of the six commands (cmd/root.go and the            *)
(* do...FlagValidation functions), as operators on a command line.  A line *)
(* is [cmd, flags, ...]: flags is a function from the flags that are given *)
(* to the class of their value,                                            *)
(*   "ok"         well formed, positive, an existing full path, or true    *)
(*   "malformed"  not of the flag's form; for a path: not a full path      *)
(*   "missing"    the full path of a file that does not exist              *)
(*   "zero"       a number that is not positive                            *)
(*   "off"        a Boolean flag given as false                            *)
(* Every refusal ends the process before it opens the database, so the     *)
(* order of the checks does not matter.                                    *)
(***************************************************************************)
EXTENDS FiniteSets, Naturals

Command == {"backup-info", "backup-delete", "backup-clean", "report-info",
            "history-clean", "history-migrate"}

RootFlag == {"history-db", "log-file", "log-level-console", "log-level-file"}
PathFlag == {"history-db", "plugin-config", "backup-dir", "history-file",
             "plugin-report-file-path"}
BoolFlag == {"cascade", "force", "ignore-errors", "deleted", "failed",
             "exclude", "detail"}

\* The flags that the init of each command declares, besides the root's.
BackupInfoFlag == {"timestamp", "deleted", "failed", "type", "table", "schema",
                   "exclude", "detail"}
BackupDeleteFlag == {"timestamp", "plugin-config", "cascade", "force",
                     "backup-dir", "parallel-processes", "ignore-errors"}
BackupCleanFlag == {"plugin-config", "cascade", "older-than-days",
                    "before-timestamp", "after-timestamp", "backup-dir",
                    "parallel-processes"}
ReportInfoFlag == {"timestamp", "plugin-config", "plugin-report-file-path",
                   "backup-dir"}
HistoryCleanFlag == {"older-than-days", "before-timestamp"}
HistoryMigrateFlag == {"history-file"}

FlagsOf(cmd) ==
  CASE cmd = "backup-info"     -> BackupInfoFlag
    [] cmd = "backup-delete"   -> BackupDeleteFlag
    [] cmd = "backup-clean"    -> BackupCleanFlag
    [] cmd = "report-info"     -> ReportInfoFlag
    [] cmd = "history-clean"   -> HistoryCleanFlag
    [] cmd = "history-migrate" -> HistoryMigrateFlag

\* MarkPersistentFlagRequired
RequiredOf(cmd) ==
  CASE cmd \in {"backup-delete", "report-info"} -> {"timestamp"}
    [] cmd = "history-migrate" -> {"history-file"}
    [] OTHER -> {}

Cutoffs == {"before-timestamp", "older-than-days", "after-timestamp"}

\* MarkFlagsMutuallyExclusive
ExclusiveOf(cmd) ==
  IF cmd \in {"backup-clean", "history-clean"} THEN Cutoffs ELSE {}

Given(line) == DOMAIN line.flags
Has(line, flag, classes) == flag \in Given(line) /\ line.flags[flag] \in classes

\* What flags.Changed tells of several flags.
checkCompatibleFlags(line, flags) == Cardinality(Given(line) \cap flags) <= 1

\* CheckTimestamp, CheckTableFQN and IsPositiveValue, of a flag that is given.
WellFormed(line, flag) == ~Has(line, flag, {"malformed", "zero"})

checkBackupType(line) == ~Has(line, "type", {"malformed"})

\* setLogLevelConsole and setLogLevelFile; the defaults are levels.
setLogLevel(line, flag) == ~Has(line, flag, {"malformed"})

CheckFullPath(line, flag, checkFileExists) ==
  ~Has(line, flag, {"malformed"} \cup IF checkFileExists THEN {"missing"} ELSE {})

\* cobra and pflag, before any check of gpbackman: numbers that do not parse are
\* refused, 0 is not.
Parses(line) ==
  /\ Given(line) \subseteq FlagsOf(line.cmd) \cup RootFlag
  /\ RequiredOf(line.cmd) \subseteq Given(line)
  /\ checkCompatibleFlags(line, ExclusiveOf(line.cmd))
  /\ \A flag \in {"older-than-days", "parallel-processes"} :
       ~Has(line, flag, {"malformed"})

\* history-migrate creates the database that is not there.
doRootFlagValidation(line) ==
  /\ CheckFullPath(line, "history-db", line.cmd # "history-migrate")
  /\ setLogLevel(line, "log-level-console") /\ setLogLevel(line, "log-level-file")

doBackupInfoFlagValidation(line) ==
  /\ WellFormed(line, "timestamp") /\ checkBackupType(line)
  /\ "timestamp" \in Given(line) =>
       checkCompatibleFlags(line, {"timestamp", "type", "table", "schema",
                                   "exclude", "failed", "deleted"})
  /\ checkCompatibleFlags(line, {"table", "schema"}) /\ WellFormed(line, "table")
  /\ "exclude" \in Given(line) => Given(line) \cap {"table", "schema"} # {}

\* The checks that backup-delete and backup-clean share.
StorageFlagValidation(line) ==
  /\ checkCompatibleFlags(line, {"backup-dir", "plugin-config"})
  /\ WellFormed(line, "parallel-processes")
  /\ checkCompatibleFlags(line, {"parallel-processes", "plugin-config"})
  /\ CheckFullPath(line, "backup-dir", TRUE)
  /\ CheckFullPath(line, "plugin-config", TRUE)

\* That --force is given is all that is asked, even as false.
doDeleteBackupFlagValidation(line) ==
  /\ WellFormed(line, "timestamp") /\ StorageFlagValidation(line)
  /\ "ignore-errors" \in Given(line) => "force" \in Given(line)

\* Wrong: that one of the limits is given is not checked.
doCleanBackupFlagValidationMutant(line) ==
  /\ \A flag \in Cutoffs \ {"older-than-days"} : WellFormed(line, flag)
  /\ StorageFlagValidation(line)

\* 0 days, or no number of days at all, is a limit: now.
doCleanBackupFlagValidation(line) ==
  /\ \A flag \in Cutoffs \ {"older-than-days"} : WellFormed(line, flag)
  /\ StorageFlagValidation(line)
  /\ Given(line) \cap Cutoffs # {}

doReportInfoFlagValidation(line) ==
  /\ WellFormed(line, "timestamp")
  /\ checkCompatibleFlags(line, {"backup-dir", "plugin-config"})
  /\ CheckFullPath(line, "backup-dir", TRUE)
  /\ CheckFullPath(line, "plugin-config", TRUE)
  /\ "plugin-report-file-path" \in Given(line) =>
       /\ "plugin-config" \in Given(line)
       /\ CheckFullPath(line, "plugin-report-file-path", FALSE)

doCleanHistoryFlagValidation(line) ==
  /\ WellFormed(line, "before-timestamp")
  /\ Given(line) \cap Cutoffs # {}

doHistoryMigrateFlagValidation(line) == CheckFullPath(line, "history-file", TRUE)

Accepted(line) ==
  /\ Parses(line) /\ doRootFlagValidation(line)
  /\ CASE line.cmd = "backup-info"     -> doBackupInfoFlagValidation(line)
       [] line.cmd = "backup-delete"   -> doDeleteBackupFlagValidation(line)
       [] line.cmd = "backup-clean"    -> doCleanBackupFlagValidation(line)
       [] line.cmd = "report-info"     -> doReportInfoFlagValidation(line)
       [] line.cmd = "history-clean"   -> doCleanHistoryFlagValidation(line)
       [] line.cmd = "history-migrate" -> doHistoryMigrateFlagValidation(line)

\* Whether a Boolean flag is set: it may be given as false.
On(line, flag) == Has(line, flag, {"ok"})
=============================================================================
