--------------------------- MODULE SegmentDeleteMC ---------------------------
(***************************************************************************)
(* Small instances of SegmentDelete: three segments, the first two of which *)
(* share a directory (one host, one single backup directory).              *)
(***************************************************************************)
EXTENDS SegmentDelete

CONSTANTS d1, d2

MCDirOf == [s \in 1..3 |-> IF s = 3 THEN d2 ELSE d1]
=============================================================================
