---------------------------- MODULE MCFileCursor ----------------------------
(***************************************************************************)
(* Two sectors of two units make a cluster; a file that exists has up to   *)
(* two clusters of the three, in any order; a new one may grow around the  *)
(* cluster in the middle, which another file owns.                         *)
(***************************************************************************)
EXTENDS FileCursor

Existing ==
  {<<c>> : c \in Clusters} \cup {<<c, d>> : c \in Clusters, d \in Clusters}
New == {<<>>}
OldFiles == {s \in Existing : IsInjective(s)}
AllFiles == New \cup OldFiles
\* Every unit different, and different from what is written.
Distinct == {[u \in Units |-> u]}
SomeLengths == {1, 3, 4, 9}

\* A handle is read or written; a handle being written is only ever sought
\* back to its beginning.
ReaderOps == {"r"} \X {"read", "far", "rewind", "forward"}
PlainReaderOps == ReaderOps \ {<<"r", "far">>}
WriterOps == {"w"} \X {"write", "rewind"}
ReaderAndWriterOps == ReaderOps \cup WriterOps
WriterSeeks == WriterOps \cup {<<"w", "forward">>}
\* All but a failed read of a link in the middle of a file being written.
AllFaults == ({"r"} \X {"data", "chain"}) \cup ({"w"} \X {"data", "scan", "alloc"})
ChainFaults == {<<"r", "chain">>}
LinkFaults == {<<"w", "cut">>}
AllocFaults == {<<"w", "alloc">>}

=============================================================================
