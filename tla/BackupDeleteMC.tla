--------------------------- MODULE BackupDeleteMC ---------------------------
(***************************************************************************)
(* Small instances of BackupDelete: chains of a full backup and its        *)
(* incrementals, and the command lines given to two processes.             *)
(***************************************************************************)
EXTENDS BackupDelete, TLC

RowOf(plugin, status, dateDeleted, incremental, metadataOnly) ==
  [status |-> status, plugin |-> plugin, dateDeleted |-> dateDeleted,
   incremental |-> incremental, dataOnly |-> FALSE,
   metadataOnly |-> metadataOnly]

Full(plugin) == RowOf(plugin, "Success", "", FALSE, FALSE)
Incremental(plugin) == RowOf(plugin, "Success", "", TRUE, FALSE)

\* A full backup and n - 1 incrementals.  gpbackup writes for each incremental
\* a plan that names every backup it needs, itself included.
Chain(n, plugin) ==
  [backups |-> [t \in 1..n |-> IF t = 1 THEN Full(plugin)
                               ELSE Incremental(plugin)],
   restorePlans |-> {<<t, u>> \in (2..n) \X (1..n) : u <= t}]

With(s, t, row) == [s EXCEPT !.backups[t] = row]

LocalChain == {Chain(2, "")}

\* The rows of the incremental that the code treats apart: gpbackup still
\* running, a damaged deletion date, deleted, metadata-only, on a plugin; and
\* no row at all, though a plan is left.
LocalScenarios ==
  LocalChain
    \cup {With(Chain(2, ""), 2, row) : row \in
            {RowOf("", "In Progress", "", TRUE, FALSE),
             RowOf("", "Success", "invalid", TRUE, FALSE),
             RowOf("", "Success", "date", TRUE, FALSE),
             RowOf("", "Success", "", FALSE, TRUE),
             Incremental("plugin")}}
    \cup {[Chain(2, "") EXCEPT !.backups = 1 :> Full("")]}

AllScenarios == LocalScenarios \cup {Chain(3, "")}

PluginScenarios ==
  {Chain(2, "plugin"), With(Chain(2, "plugin"), 2, Full(""))}

Cmd(list, cascade, force, ignoreErrors, plugin) ==
  [clean |-> FALSE, list |-> list, before |-> 0, after |-> 0,
   cascade |-> cascade, force |-> force, ignoreErrors |-> ignoreErrors,
   plugin |-> plugin]

CleanCmd(before, after, cascade, plugin) ==
  [clean |-> TRUE, list |-> <<>>, before |-> before, after |-> after,
   cascade |-> cascade, force |-> FALSE, ignoreErrors |-> FALSE,
   plugin |-> plugin]

Commands(plugin) ==
  {Cmd(<<1>>, TRUE, FALSE, FALSE, plugin),
   Cmd(<<2, 2, 1>>, FALSE, FALSE, FALSE, plugin),
   CleanCmd(3, 0, TRUE, plugin)}

\* The last is --ignore-errors with --force=false: the flag validation accepts it.
ForcedCommands(plugin) ==
  {Cmd(<<1>>, TRUE, TRUE, FALSE, plugin),
   Cmd(<<2, 1>>, TRUE, TRUE, TRUE, plugin),
   Cmd(<<1>>, TRUE, FALSE, TRUE, plugin)}

LocalCommands == Commands(FALSE)

\* What only a chain of three tells apart: a cascade from its middle, and a list
\* of two taken after a timestamp.
CascadeCommands ==
  {Cmd(<<1>>, TRUE, FALSE, FALSE, FALSE), Cmd(<<2>>, TRUE, FALSE, FALSE, FALSE),
   CleanCmd(0, 1, FALSE, FALSE)}

SequentialCommands ==
  Commands(FALSE) \cup CascadeCommands \cup ForcedCommands(FALSE)

\* The chain of three is for the commands that it tells apart.
SequentialInit ==
  /\ Init
  /\ Cardinality(DOMAIN backups) = 3 =>
       \A p \in Proc : proc[p].cmd \in CascadeCommands

SequentialSpec == SequentialInit /\ [][Next]_vars

\* For commands that overlap, on local and on plugin backups.
OverlapCommand ==
  <<Cmd(<<1>>, TRUE, FALSE, FALSE, FALSE), CleanCmd(3, 0, TRUE, FALSE),
    CleanCmd(3, 0, TRUE, TRUE), Cmd(<<2, 1>>, TRUE, TRUE, TRUE, TRUE)>>

OverlapCommands == {OverlapCommand[i] : i \in 1..4}

OverlapScenarios ==
  LocalChain \cup PluginScenarios
    \cup {With(Chain(2, ""), 2, RowOf("", "Success", "", FALSE, TRUE))}

\* The processes differ in name only: which of them has which of two commands
\* does not matter.  One of them at most is the forced one.
OverlapInit ==
  /\ Init
  /\ LET one == CHOOSE p \in Proc : TRUE
         rank(p) == CHOOSE i \in 1..4 : OverlapCommand[i] = proc[p].cmd IN
     rank(one) < 4 /\ \A p \in Proc : rank(one) <= rank(p)

OverlapSpec == OverlapInit /\ [][Next]_vars /\ \A p \in Proc : WF_vars(Step(p))

\* The processes differ in name only, and so do the segments.
Symmetry == Permutations(Proc) \cup Permutations(SegDir)

\* A process that has ended reads none of its locals any more.
View ==
  <<db, storage,
    [p \in Proc |->
       IF proc[p].pc \in Ended
       THEN [proc[p] EXCEPT !.todo = <<>>, !.name = 0, !.deps = <<>>,
                            !.seen = {}, !.located = FALSE, !.after = "exit1"]
       ELSE proc[p]]>>
=============================================================================
