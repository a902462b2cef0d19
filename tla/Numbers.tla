------------------------------- MODULE Numbers -------------------------------
(***************************************************************************)
(* Facts about numbers, and about parts of sequences, that the proofs of   *)
(* the components use.                                                     *)
(***************************************************************************)
EXTENDS Integers, Sequences, SequencesExt, WellFoundedInduction, SequenceTheorems, TLAPS

LessThan == {p \in Nat \X Nat : p[1] < p[2]}

\* A set of naturals that is not empty has a least element.
LEMMA LeastElement ==
  ASSUME NEW T \in SUBSET Nat, T # {}
  PROVE  \E m \in T : \A n \in T : m <= n
<1>1. IsWellFoundedOn(LessThan, Nat)
  BY NatLessThanWellFounded DEF OpToRel, LessThan
<1>2. PICK m \in T : \A n \in T : <<n, m>> \notin LessThan
  BY <1>1, WFMin
<1>3. \A n \in T : ~ (n < m)
  BY <1>2 DEF LessThan
<1> QED
  BY <1>3

-----------------------------------------------------------------------------
(* A number cut in pieces of F: whole ones and what is left. *)

\* Quotient and remainder of a number that is given in pieces
LEMMA CutIsUnique ==
  ASSUME NEW F \in Nat \ {0}, NEW k \in Nat, NEW r \in 0 .. F - 1
  PROVE  (k * F + r) \div F = k /\ (k * F + r) % F = r
OBVIOUS

LEMMA OneMore ==
  ASSUME NEW F \in Nat \ {0}, NEW k \in Nat
  PROVE  (k + 1) * F = k * F + F /\ k * F \in Nat
OBVIOUS

LEMMA FewerFit ==
  ASSUME NEW F \in Nat \ {0}, NEW j \in Nat, NEW k \in Nat
  PROVE  /\ j < k => j * F + F <= k * F
         /\ j * F < k * F => j < k
OBVIOUS

\* Every number can be cut.
LEMMA CutExists ==
  ASSUME NEW F \in Nat \ {0}, NEW n \in Nat
  PROVE  /\ n \div F \in Nat /\ n % F \in 0 .. F - 1
         /\ n = (n \div F) * F + (n % F)
OBVIOUS

\* Up to the end of a piece is not beyond the end of a piece of pieces.
LEMMA PieceFits ==
  ASSUME NEW F \in Nat \ {0}, NEW m \in Nat \ {0}, NEW off \in 0 .. m * F - 1
  PROVE  off % F \in 0 .. F - 1 /\ off + (F - (off % F)) <= m * F
<1>1. /\ off \in Nat /\ off \div F \in Nat /\ off % F \in 0 .. F - 1
      /\ off = (off \div F) * F + (off % F)
  BY CutExists
<1>2. (off \div F) * F < m * F
  BY <1>1
<1>3. (off \div F) * F + F <= m * F
  BY <1>1, <1>2, FewerFit
<1> QED
  BY <1>1, <1>3

-----------------------------------------------------------------------------
(* Parts of a sequence. *)

\* An element of a part, whatever the sequence holds
LEMMA PartElement ==
  ASSUME NEW c, NEW from \in Int, NEW to \in Int, NEW i \in 1 .. to - from + 1
  PROVE  SubSeq(c, from, to)[i] = c[from + i - 1]
OBVIOUS

\* A part of a sequence, given by what comes before it and how long it is
LEMMA PartIs ==
  ASSUME NEW S, NEW c \in Seq(S), NEW x \in Nat, NEW n \in Nat, x + n <= Len(c),
         NEW from, from = x + 1, NEW to, to = x + n
  PROVE  LET part == SubSeq(c, from, to)
         IN  /\ part \in Seq(S) /\ Len(part) = n
             /\ \A i \in 1 .. n : part[i] = c[x + i]
<1> DEFINE part == SubSeq(c, from, to)
<1>1. from \in Int /\ to \in Int /\ to - from + 1 = n /\ (from <= to <=> n # 0)
      /\ \A i \in 1 .. n : from + i - 1 = x + i
  OBVIOUS
<1>2. from \in Int /\ to \in Int /\ \A i \in from .. to : c[i] \in S
  OBVIOUS
<1>3. /\ part \in Seq(S) /\ Len(part) = IF from <= to THEN to - from + 1 ELSE 0
      /\ \A i \in 1 .. to - from + 1 : part[i] = c[from + i - 1]
  <2>1. SubSeq(c, from, to) \in Seq(S)
    BY <1>2, SubSeqProperties
  <2>2. Len(SubSeq(c, from, to)) = IF from <= to THEN to - from + 1 ELSE 0
    BY <1>2, SubSeqProperties
  <2>3. \A i \in 1 .. to - from + 1 : SubSeq(c, from, to)[i] = c[from + i - 1]
    BY <1>1, PartElement
  <2> QED BY <2>1, <2>2, <2>3
<1> HIDE DEF part
<1>4. Len(part) = n
  BY <1>1, <1>3
<1>5. \A i \in 1 .. n : part[i] = c[x + i]
  BY <1>1, <1>3
<1> QED
  BY <1>3, <1>4, <1>5 DEF part

\* What was moved before and what comes next are together one part of the file.
LEMMA PartsJoin ==
  ASSUME NEW S, NEW c \in Seq(S), NEW l \in Nat, NEW p \in Nat, NEW n \in Nat, l <= p,
         p + n <= Len(c)
  PROVE  LET g == SubSeq(c, p - l + 1, p) \o SubSeq(c, p + 1, p + n)
         IN  Len(g) = l + n /\ g = SubSeq(c, (p + n) - Len(g) + 1, p + n)
<1> DEFINE x == p - l
           a == SubSeq(c, p - l + 1, p)
           b == SubSeq(c, p + 1, p + n)
           w == SubSeq(c, (p + n) - (l + n) + 1, p + n)
           g == a \o b
<1>1. /\ x \in Nat /\ x + l = p /\ x + (l + n) = p + n /\ l + n \in Nat
      /\ p - l + 1 = x + 1 /\ (p + n) - (l + n) + 1 = x + 1
      /\ p <= Len(c)
  OBVIOUS
<1>2. a \in Seq(S) /\ Len(a) = l /\ \A i \in 1 .. l : a[i] = c[x + i]
  <2> HIDE DEF x
  <2> QED BY <1>1, PartIs
<1>3. b \in Seq(S) /\ Len(b) = n /\ \A i \in 1 .. n : b[i] = c[p + i]
  BY PartIs
<1>4. w \in Seq(S) /\ Len(w) = l + n /\ \A i \in 1 .. l + n : w[i] = c[x + i]
  <2> HIDE DEF x
  <2> QED BY <1>1, PartIs
<1> HIDE DEF a, b, w
<1>5. /\ g \in Seq(S) /\ Len(g) = l + n
      /\ \A i \in 1 .. l + n : g[i] = IF i <= l THEN a[i] ELSE b[i - l]
  <2>1. a \in Seq(S) /\ b \in Seq(S) /\ Len(a) = l /\ Len(b) = n
    BY <1>2, <1>3
  <2>2. /\ g \in Seq(S) /\ Len(g) = Len(a) + Len(b)
        /\ \A i \in 1 .. Len(a) + Len(b) : g[i] = IF i <= Len(a) THEN a[i] ELSE b[i - Len(a)]
    BY <2>1, ConcatProperties
  <2> HIDE DEF g
  <2> QED BY <2>1, <2>2
<1> HIDE DEF g, x
<1>6. \A i \in 1 .. l + n : g[i] = w[i]
  <2>1. TAKE i \in 1 .. l + n
  <2>2. CASE i <= l
    <3>1. i \in 1 .. l
      BY <2>2
    <3> QED BY <1>2, <1>4, <1>5, <2>2, <3>1
  <2>3. CASE ~ (i <= l)
    <3>1. i - l \in 1 .. n /\ p + (i - l) = x + i
      BY <1>1, <2>3
    <3> QED BY <1>3, <1>4, <1>5, <2>3, <3>1
  <2> QED BY <2>2, <2>3
<1>7. g = w
  BY <1>4, <1>5, <1>6
<1> QED
  BY <1>5, <1>7 DEF g, w, a, b

-----------------------------------------------------------------------------
(* Sequences joined one after the other. *)

JoinedTo(seqs, f, i) == IF i = 1 THEN seqs[i] ELSE f[i - 1] \o seqs[i]
Joins(n, seqs, f) == f = [i \in 1 .. n |-> JoinedTo(seqs, f, i)]

\* The recursion that joins sequences has a solution: the least number of sequences
\* for which it had none would be one more than a number for which it has.
LEMMA JoinsExist ==
  ASSUME NEW n \in Nat, NEW seqs
  PROVE  \E f : Joins(n, seqs, f)
<1> DEFINE T == {k \in Nat : ~ \E f : Joins(k, seqs, f)}
<1>1. T = {}
  <2> SUFFICES ASSUME T # {} PROVE FALSE
    OBVIOUS
  <2>1. PICK m \in T : \A k \in T : m <= k
    <3>1. T \in SUBSET Nat
      OBVIOUS
    <3> HIDE DEF T
    <3> QED BY <3>1, LeastElement
  <2>2. m \in Nat /\ ~ \E f : Joins(m, seqs, f)
    OBVIOUS
  <2>3. CASE m = 0
    <3>1. Joins(m, seqs, [i \in 1 .. 0 |-> 0])
      BY <2>3 DEF Joins
    <3> QED BY <3>1, <2>2
  <2>4. CASE m # 0
    <3>1. m - 1 \in Nat /\ ~ (m <= m - 1)
      BY <2>2, <2>4
    <3>2. m - 1 \notin T
      BY <2>1, <3>1
    <3>3. PICK g : Joins(m - 1, seqs, g)
      BY <3>1, <3>2
    <3> DEFINE f == [i \in 1 .. m |-> JoinedTo(seqs, g, i)]
    <3>4. \A i \in 1 .. m - 1 : f[i] = g[i]
      BY <2>2, <3>1, <3>3 DEF Joins
    <3>5. ASSUME NEW i \in 1 .. m
          PROVE  JoinedTo(seqs, f, i) = JoinedTo(seqs, g, i)
      <4> HIDE DEF f
      <4>1. i = 1 \/ i - 1 \in 1 .. m - 1
        BY <2>2
      <4> QED BY <3>4, <4>1 DEF JoinedTo
    <3>6. Joins(m, seqs, f)
      BY <3>5 DEF Joins
    <3> QED BY <3>6, <2>2
  <2> QED BY <2>3, <2>4
<1> QED
  BY <1>1

\* FlattenSeq is that recursion: what it returns is reached by joining one sequence
\* after the other.
LEMMA FlattenJoins ==
  ASSUME NEW S, NEW seqs \in Seq(Seq(S))
  PROVE  \E f : /\ f[0] = <<>> /\ f[Len(seqs)] = FlattenSeq(seqs)
                /\ \A i \in 1 .. Len(seqs) : f[i] = f[i - 1] \o seqs[i]
<1> DEFINE n == Len(seqs)
           g == CHOOSE f : Joins(n, seqs, f)
           f == [i \in 0 .. n |-> IF i = 0 THEN <<>> ELSE g[i]]
<1>1. n \in Nat
  OBVIOUS
<1>2. Joins(n, seqs, g)
  BY <1>1, JoinsExist
<1>3. f[n] = FlattenSeq(seqs)
  <2>1. CASE n = 0
    BY <2>1 DEF FlattenSeq
  <2>2. CASE n # 0
    <3>1. FlattenSeq(seqs) = g[n]
      BY <2>2 DEF FlattenSeq, Joins, JoinedTo
    <3> QED BY <1>1, <2>2, <3>1
  <2> QED BY <2>1, <2>2
<1>4. ASSUME NEW i \in 1 .. n
      PROVE  f[i] = f[i - 1] \o seqs[i]
  <2>1. f[i] = g[i]
    BY <1>1
  <2>2. g[i] = JoinedTo(seqs, g, i)
    <3> HIDE DEF g
    <3> QED BY <1>1, <1>2 DEF Joins
  <2>3. CASE i = 1
    <3>1. f[i - 1] = <<>>
      BY <1>1, <2>3
    <3>2. seqs[i] \in Seq(S)
      OBVIOUS
    <3>3. seqs[i] = <<>> \o seqs[i]
      BY <3>2, ConcatEmptySeq
    <3> QED BY <2>1, <2>2, <2>3, <3>1, <3>3 DEF JoinedTo
  <2>4. CASE i # 1
    <3>1. f[i - 1] = g[i - 1]
      BY <1>1, <2>4
    <3> QED BY <2>1, <2>2, <2>4, <3>1 DEF JoinedTo
  <2> QED BY <2>3, <2>4
<1>5. f[0] = <<>>
  BY <1>1
<1> HIDE DEF f
<1> QED
  BY <1>3, <1>4, <1>5

=============================================================================
