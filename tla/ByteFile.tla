------------------------------ MODULE ByteFile ------------------------------
(***************************************************************************)
(* What an open file is to the caller of FS_READ, FS_WRITE and FS_SEEK: a  *)
(* sequence of bytes and a position in it.  A transfer moves some bytes at *)
(* a time; nothing is said of sectors, clusters or chains.  After a device *)
(* failure a file may be lost: its reads come up short until a seek starts *)
(* over.                                                                   *)
(***************************************************************************)
EXTENDS Integers, Sequences, FiniteSets

CONSTANTS
  Values,      \* byte values
  Written,     \* the ones callers write
  Lengths,     \* transfer lengths callers use
  Grain        \* whole-cluster transfers move multiples of this

VARIABLES
  content,     \* the bytes of the file
  pos,         \* the position
  lost,        \* a device failure has cost the place in the file: "no",
               \* "new" until a call has reported it, then "told"
  job,         \* the call in progress: op, bytes left, value written, bytes got
  res          \* result of the last call: op, count asked and moved, I/O error

vars == <<content, pos, lost, job, res>>

Idle == job.op = "none"
NoResult == [op |-> "none", want |-> 0, count |-> 0, io |-> FALSE]
NoJob == [op |-> "none", left |-> 0, v |-> 0, got |-> <<>>, want |-> 0]
Eof == pos >= Len(content)

Start(op, n, v) ==
  /\ Idle
  /\ job' = [op |-> op, left |-> n, v |-> v, got |-> <<>>, want |-> n]
  /\ res' = NoResult
  /\ UNCHANGED <<content, pos, lost>>

\* A seek may name any position up to the end; going back starts from zero.
StartSeek(target) ==
  /\ Idle
  /\ target <= Len(content)
  /\ pos' = IF target < pos THEN 0 ELSE pos
  /\ IF target < pos \/ lost = "no" THEN lost' = "no" ELSE lost' \in {lost, "new"}
  /\ job' = [NoJob EXCEPT !.op = "seek", !.left = target - pos', !.want = target - pos']
  /\ res' = NoResult
  /\ UNCHANGED content

Take(n) ==
  /\ job.op \in {"read", "far", "seek"}
  /\ lost = "no" /\ n <= job.left /\ pos + n <= Len(content)
  /\ pos' = pos + n
  /\ lost' \in {"no", "new"}
  /\ job' = [job EXCEPT !.left = @ - n,
               !.got = IF job.op = "seek" THEN <<>>
                       ELSE @ \o SubSeq(content, pos + 1, pos + n)]
  /\ UNCHANGED <<content, res>>

Put(n) ==
  /\ job.op = "write"
  /\ n <= job.left
  /\ content' = [i \in 1 .. (IF pos + n > Len(content) THEN pos + n ELSE Len(content))
                   |-> IF i \in (pos + 1) .. (pos + n) THEN job.v ELSE content[i]]
  /\ pos' = pos + n
  /\ job' = [job EXCEPT !.left = @ - n]
  /\ UNCHANGED <<lost, res>>

\* A call that saw no device failure stops only where it should: a write when
\* all is written or the volume is full, a whole-cluster read in front of what
\* it cannot take whole, any other when done or at the end of the file.
Finish(io) ==
  /\ ~ Idle
  /\ lost = "new" => io
  /\ \/ io
     \/ lost = "told" /\ job.op # "write"
     \/ job.left = 0
     \/ job.op = "write"
     \/ job.op = "far" /\ (job.left < Grain \/ pos + Grain > Len(content))
     \/ job.op = "far" /\ pos % Grain # 0
     \/ job.op = "read" /\ Eof
  /\ res' = [op |-> job.op, want |-> job.want, count |-> job.want - job.left, io |-> io]
  /\ job' = NoJob
  /\ lost' = IF lost = "new" THEN "told" ELSE lost
  /\ UNCHANGED <<content, pos>>

Init ==
  /\ content \in Seq(Values)
  /\ pos = 0
  /\ lost = "no"
  /\ job = NoJob
  /\ res = NoResult

Next ==
  \/ \E n \in Lengths, op \in {"read", "far"} : Start(op, n, 0)
  \/ \E n \in Lengths, v \in Written : Start("write", n, v)
  \/ \E target \in 0 .. Len(content) : StartSeek(target)
  \/ \E n \in 1 .. job.left : Take(n) \/ Put(n)
  \/ \E io \in BOOLEAN : Finish(io)

Spec == Init /\ [][Next]_vars

=============================================================================
