------------------------------ MODULE MCFat32 ------------------------------
(***************************************************************************)
(* Small volumes for TLC.  The root directory has one cluster of DirSlots  *)
(* entries, a new subdirectory is full ("." and ".."), so that the first   *)
(* file made in one makes the directory grow.                              *)
(***************************************************************************)
EXTENDS Fat32, TLC

CONSTANTS a, b

MCNames == {a, b}
Symmetry == Permutations(MCNames)

\* The calls that only ever add to the volume or edit one entry.
BuildingOps == {"create", "write", "close", "rename", "mkdir"}
FileOps == {"create", "write", "close", "unlink"}
TruncateOps == {"create", "write", "close", "truncate"}
RenameOps == {"create", "close", "rename"}
DirOps == {"create", "close", "mkdir", "rmdir"}

\* Power and writes fail in the building calls, reads in all, but for those with
\* which a file that has been emptied is looked up again.
SomeFaults ==
  ({"power", "write"} \X BuildingOps) \cup ({"chain"} \X Calls)
  \cup ({"entry"} \X (Calls \ {"truncate"}))
PowerFaults == {"power"} \X Calls
ChainFaults == {"chain", "entry"} \X Calls
EntryFaults == {<<"entry", "truncate">>}

=============================================================================
