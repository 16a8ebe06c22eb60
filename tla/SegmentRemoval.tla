--------------------------- MODULE SegmentRemoval ---------------------------
(***************************************************************************)
(* What executeDeleteBackupOnSegments (cmd/backup_delete.go) promises its  *)
(* caller, goroutines and channels left out: it first checks, and refuses  *)
(* with everything in place; once it has accepted, directories go one by   *)
(* one; it returns nil when all of them are gone.  A failed removal dooms  *)
(* the process (the send on the closed errCh panics).                      *)
(***************************************************************************)
CONSTANTS
  Dir,      \* backup directories on the segment hosts
  Target    \* those of the backup being deleted

VARIABLES
  ignoreErrors,  \* --ignore-errors
  present,       \* the directories that exist
  phase,         \* "checking", "removing", "nil", "err" or "died"
  doomed         \* a removal has failed and its goroutine is panicking

rvars == <<ignoreErrors, present, phase, doomed>>

Init ==
  /\ ignoreErrors \in BOOLEAN
  /\ present \in SUBSET Dir
  /\ phase = "checking"
  /\ doomed = FALSE

\* No ssh key, no path for a segment, or a check failed.
Refuse ==
  /\ phase = "checking"
  /\ phase' = "err"
  /\ UNCHANGED <<ignoreErrors, present, doomed>>

\* Without --ignore-errors every directory must have been found.
Accept ==
  /\ phase = "checking"
  /\ ignoreErrors \/ Target \subseteq present
  /\ phase' = "removing"
  /\ UNCHANGED <<ignoreErrors, present, doomed>>

RemoveDir ==
  /\ phase = "removing"
  /\ \E d \in Target : present' = present \ {d}
  /\ UNCHANGED <<ignoreErrors, phase, doomed>>

FailRemoval ==
  /\ phase = "removing"
  /\ doomed' = TRUE
  /\ UNCHANGED <<ignoreErrors, present, phase>>

Finish ==
  /\ phase = "removing"
  /\ Target \cap present = {} \/ doomed
  /\ phase' = "nil"
  /\ UNCHANGED <<ignoreErrors, present, doomed>>

Die ==
  /\ doomed
  /\ phase' = "died"
  /\ UNCHANGED <<ignoreErrors, present, doomed>>

Next == Refuse \/ Accept \/ RemoveDir \/ FailRemoval \/ Finish \/ Die

Spec == Init /\ [][Next]_rvars
=============================================================================
