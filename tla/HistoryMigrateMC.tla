-------------------------- MODULE HistoryMigrateMC --------------------------
(***************************************************************************)
(* Small instances of HistoryMigrate: two history files with backups of    *)
(* their own and in common, one that cannot be parsed, and a file that     *)
(* gpbackup writes when the first has been renamed.                        *)
(***************************************************************************)
EXTENDS HistoryMigrate, TLC

\* A record that gpbackman itself rewrote, when it kept backups in YAML.
Ours(t, endTime) ==
  [timestamp |-> t, endTime |-> endTime,
   keys |-> {"plugin", "withoutgoals", "tablefqdn"}]

\* A record that gpbackup wrote.
Theirs(t) ==
  [timestamp |-> t, endTime |-> "then",
   keys |-> {"plugin", "withoutglobals", "tablefqns", "segmentcount"}]

FileOf(entries) == [damaged |-> FALSE, entries |-> entries]
Damaged(entries) == [damaged |-> TRUE, entries |-> entries]

MCInitial ==
  {"a" :> FileOf(<<Ours(2, "then"), Ours(1, "")>>) @@ "b" :> FileOf(<<Ours(3, "")>>),
   "a" :> FileOf(<<Ours(2, "then"), Ours(1, "then")>>)
     @@ "b" :> FileOf(<<Ours(1, "then")>>),
   "a" :> FileOf(<<>>) @@ "b" :> Damaged(<<Theirs(1)>>),
   "a" :> FileOf(<<Ours(1, "then")>>)}

MCArgs == {<<"a">>, <<"a", "b">>, <<"b", "a">>, <<"a", "a">>}

MCWritten == {FileOf(<<Ours(4, "then")>>)}

TwoBackups == {"a" :> FileOf(<<Ours(2, "then"), Ours(1, "then")>>)}
FromGpbackup == {"a" :> FileOf(<<Theirs(1)>>)}
=============================================================================
