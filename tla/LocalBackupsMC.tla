--------------------------- MODULE LocalBackupsMC ---------------------------
(***************************************************************************)
(* A small instance of LocalBackups: two processes and up to two backups.  *)
(* While there is no backup, the first process is given every set of its   *)
(* command's flags, with one value that is not well formed at most.        *)
(***************************************************************************)
EXTENDS LocalBackups, TLC

MCCluster == <<"data", "gpseg">>

\* The values of flag that are not "ok".
BadValues(flag) ==
  CASE flag \in PathFlag -> {"malformed", "missing"}
    [] flag \in BoolFlag -> {"off"}
    [] flag \in {"older-than-days", "parallel-processes"} -> {"malformed", "zero"}
    [] OTHER -> {"malformed"}

Values(given) ==
  LET ok == [flag \in given |-> "ok"] IN
  {ok} \cup {[ok EXCEPT ![bad[1]] = bad[2]] :
              bad \in UNION {{flag} \X BadValues(flag) : flag \in given}}

Line(cmd, flags, timestamp, dir) ==
  [cmd |-> cmd, flags |-> flags, timestamp |-> timestamp, dir |-> dir]

\* With one flag of the root, or one that the command may not have, beside the
\* required ones and with any subset of its own.
FlagSets(cmd) ==
  SUBSET FlagsOf(cmd)
    \cup {RequiredOf(cmd) \cup {flag} : flag \in RootFlag \cup Cutoffs}

ParsedLines ==
  UNION {{Line(cmd, flags, 1, IF "backup-dir" \in DOMAIN flags THEN "a" ELSE "") :
            flags \in UNION {Values(given) : given \in FlagSets(cmd)}} :
         cmd \in Command}

\* A command line whose flags are all well formed.
Work(cmd, given, timestamp, dir) ==
  Line(cmd, [flag \in given \cup {"timestamp"}
               \cup (IF dir = "" THEN {} ELSE {"backup-dir"}) |-> "ok"],
       timestamp, dir)

MCDir == {"", "a", "data"}

Reports ==
  {Work("report-info", {}, t, dir) : t \in 1..2, dir \in MCDir}
    \cup {Work("report-info", given, 1, "") :
            given \in {{"plugin-config"},
                       {"plugin-config", "plugin-report-file-path"}}}

Deletes ==
  {Work("backup-delete", given, t, dir) : t \in 1..2, dir \in MCDir,
     given \in {{}, {"force"}, {"force", "ignore-errors"}}}

MCLines == {<<line, Work("report-info", {}, 1, "")>> : line \in ParsedLines}
             \cup (Deletes \X (Reports \cup Deletes))

Place == {<<"", "gpseg">>, <<"a", "">>, <<"a", "gpseg">>, <<"a", "seg">>}

Backups ==
  {[dir |-> place[1], prefix |-> place[2], metadataOnly |-> m, plugin |-> ""] :
     place \in Place, m \in BOOLEAN}
    \cup {[dir |-> "", prefix |-> "gpseg", metadataOnly |-> FALSE,
           plugin |-> name] : name \in {"plugin", BackupS3Plugin}}

MCScenario == {<<>>} \cup {<<b>> \o s : b \in Backups,
                             s \in {<<>>} \cup {<<c>> : c \in Backups}}

BoundedInit == Init /\ (toMake # <<>> => proc[1].line \in Deletes)

BoundedSpec == BoundedInit /\ [][Next]_vars
=============================================================================
