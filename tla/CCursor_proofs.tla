--------------------------- MODULE CCursor_proofs ---------------------------
(***************************************************************************)
(* Proofs about the console and its blinking cursor, for every size of the *)
(* screen, every set of pens and every interleaving of the VSYNC interrupt *)
(* with the accesses of a console call.                                    *)
(*                                                                         *)
(* What a call still has to do is a sequence of accesses, and none of them *)
(* says where VERA's addresses will be when it is made.  The invariant says*)
(* that what is left of the call has a course: a machine for every access  *)
(* left, the first one the machine of the moment, each one what the access *)
(* before it makes of the machine before, and every access in place where  *)
(* it is made (Fits).  A step of the call takes the first access off, and  *)
(* the interrupt, which leaves no trace in the machine, takes nothing; so  *)
(* the work is in showing that every call has a course when it is made.    *)
(***************************************************************************)
EXTENDS CCursor, Numbers, TLAPS

-----------------------------------------------------------------------------
(* The course of a call. *)

\* What a register, a variable or a cell may be given.
Fitting(a) == IF IsAttr(a) THEN Pens ELSE Glyphs \cup {Space}

Settings ==
  [do : {"ctrl", "slot", "armed"}, v : {0, 1}] \cup [do : {"low"}, v : 0 .. (RowBytes - 1)]
    \cup [do : {"row", "cury"}, v : 0 .. (Rows - 1)] \cup [do : {"curx"}, v : 0 .. Cols]
    \cup [do : {"pen"}, v : Pens] \cup [do : {"hide", "shown", "tick"}, v : {0}]
    \cup [do : {"lastx"}, v : {NoColumn}]
Stores ==
  {st \in [do : {"data0"}, v : Pens \cup Glyphs \cup {Space}, at : Addresses] :
     st.v \in Fitting(st.at)}
Copies ==
  {st \in [do : {"copy"}, from : Addresses, to : Addresses] :
     IsAttr(st.from) <=> IsAttr(st.to)}
Accesses == Settings \cup Stores \cup Copies

\* What the accesses of a call can tell of the machine.  `hid` says that the call has
\* taken the cursor off the screen, with the handler disarmed.
Machines ==
  [a0 : Addresses, a1 : Addresses, ctrl : {0, 1}, curx : 0 .. Cols,
   slot : {0, 1}, armed : {0, 1}, hid : {0, 1}]

After(q, st) ==
  [a0    |-> CASE st.do = "low" /\ q.ctrl = 0 -> LowSet(q.a0, st.v)
               [] st.do = "row" /\ q.ctrl = 0 -> RowSet(q.a0, st.v)
               [] st.do \in {"data0", "copy"} -> Next1(q.a0)
               [] OTHER -> q.a0,
   a1    |-> CASE st.do = "low" /\ q.ctrl = 1 -> LowSet(q.a1, st.v)
               [] st.do = "row" /\ q.ctrl = 1 -> RowSet(q.a1, st.v)
               [] st.do = "copy" -> Next1(q.a1)
               [] OTHER -> q.a1,
   ctrl  |-> Assigned(st, "ctrl", q.ctrl),
   curx  |-> Assigned(st, "curx", q.curx),
   slot  |-> Assigned(st, "slot", q.slot),
   armed |-> Assigned(st, "armed", q.armed),
   hid   |-> CASE st.do = "hide" -> 1 [] st.do = "armed" -> 0 [] OTHER -> q.hid]

\* The access is in place: the port is at the address the console means, rows are
\* copied with the cursor off the screen, the cursor is undrawn with the handler
\* disarmed, and what it shows is forgotten only when it shows nothing.
Fits(q, st) ==
  /\ st.do = "data0" => st.at = q.a0
  /\ st.do = "copy" => st.from = q.a0 /\ st.to = q.a1 /\ q.hid = 1
  /\ st.do = "hide" => q.armed = 0
  /\ st.do \in {"shown", "lastx"} => ArmTwice \/ q.hid = 1

Course(p, Q) ==
  \A i \in 1 .. Len(p) : Fits(Q[i], p[i]) /\ Q[i + 1] = After(Q[i], p[i])

\* The accesses p take the machine q to the machine r.
Runs(p, q, r) ==
  /\ p \in Seq(Accesses)
  /\ \E Q \in [1 .. Len(p) + 1 -> Machines] :
       Q[1] = q /\ Q[Len(p) + 1] = r /\ Course(p, Q)

LEMMA NothingRuns ==
  ASSUME NEW q \in Machines
  PROVE  Runs(<<>>, q, q)
<1> DEFINE p == <<>>
           Q == [i \in 1 .. 1 |-> q]
<1>1. p \in Seq(Accesses) /\ Len(p) = 0
  OBVIOUS
<1>2. Q \in [1 .. 1 -> Machines] /\ Q[1] = q
  OBVIOUS
<1> HIDE DEF p, Q
<1>3. Runs(p, q, q)
  BY <1>1, <1>2 DEF Runs, Course
<1> QED
  BY <1>3 DEF p

LEMMA NothingChanges ==
  ASSUME NEW q, NEW r, Runs(<<>>, q, r)
  PROVE  q = r /\ q \in Machines
BY DEF Runs

LEMMA OneRuns ==
  ASSUME NEW q \in Machines, NEW st \in Accesses, Fits(q, st), After(q, st) \in Machines
  PROVE  Runs(<<st>>, q, After(q, st))
<1> DEFINE p == <<st>>
           Q == [i \in 1 .. 2 |-> IF i = 1 THEN q ELSE After(q, st)]
<1>1. p \in Seq(Accesses) /\ Len(p) = 1 /\ p[1] = st
  OBVIOUS
<1>2. Q \in [1 .. 2 -> Machines] /\ Q[1] = q /\ Q[2] = After(q, st)
  OBVIOUS
<1> HIDE DEF p, Q
<1>3. Course(p, Q)
  BY <1>1, <1>2 DEF Course
<1>4. Runs(p, q, After(q, st))
  BY <1>1, <1>2, <1>3 DEF Runs
<1> QED
  BY <1>4 DEF p

\* One run after another
LEMMA RunsCompose ==
  ASSUME NEW p1, NEW p2, NEW q, NEW m, NEW r, Runs(p1, q, m), Runs(p2, m, r)
  PROVE  Runs(p1 \o p2, q, r)
<1>1. p1 \in Seq(Accesses) /\ p2 \in Seq(Accesses)
  BY DEF Runs
<1> DEFINE n1 == Len(p1)
           n2 == Len(p2)
           p == p1 \o p2
<1>2. PICK Q1 \in [1 .. n1 + 1 -> Machines] : Q1[1] = q /\ Q1[n1 + 1] = m /\ Course(p1, Q1)
  BY DEF Runs
<1>3. PICK Q2 \in [1 .. n2 + 1 -> Machines] : Q2[1] = m /\ Q2[n2 + 1] = r /\ Course(p2, Q2)
  BY DEF Runs
<1> DEFINE Q == [i \in 1 .. n1 + n2 + 1 |-> IF i <= n1 THEN Q1[i] ELSE Q2[i - n1]]
<1>4. n1 \in Nat /\ n2 \in Nat
  BY <1>1
<1>5. p \in Seq(Accesses) /\ Len(p) = n1 + n2
      /\ \A i \in 1 .. n1 + n2 : p[i] = IF i <= n1 THEN p1[i] ELSE p2[i - n1]
  BY <1>1, ConcatProperties
<1> HIDE DEF n1, n2, p
<1>6. Q \in [1 .. n1 + n2 + 1 -> Machines]
  <2> SUFFICES ASSUME NEW i \in 1 .. n1 + n2 + 1
               PROVE  (IF i <= n1 THEN Q1[i] ELSE Q2[i - n1]) \in Machines
    OBVIOUS
  <2>1. (i <= n1 => i \in 1 .. n1 + 1) /\ (~ (i <= n1) => i - n1 \in 1 .. n2 + 1)
    BY <1>4
  <2> QED BY <2>1
<1>7. \A i \in 1 .. n1 + 1 : Q[i] = Q1[i]
  BY <1>2, <1>3, <1>4
<1>8. \A i \in n1 + 1 .. n1 + n2 + 1 : Q[i] = Q2[i - n1]
  BY <1>4
<1>9. Q[1] = q /\ Q[n1 + n2 + 1] = r
  BY <1>2, <1>3, <1>4, <1>7, <1>8
<1> HIDE DEF Q
<1>10. ASSUME NEW i \in 1 .. n1 + n2
       PROVE  Fits(Q[i], p[i]) /\ Q[i + 1] = After(Q[i], p[i])
  <2>1. CASE i <= n1
    <3>1. i \in 1 .. n1 /\ i \in 1 .. n1 + 1 /\ i + 1 \in 1 .. n1 + 1
      BY <1>4, <2>1
    <3>2. Q[i] = Q1[i] /\ Q[i + 1] = Q1[i + 1] /\ p[i] = p1[i]
      BY <1>5, <1>7, <2>1, <3>1
    <3> QED BY <1>2, <3>1, <3>2 DEF Course, n1
  <2>2. CASE ~ (i <= n1)
    <3>1. /\ i - n1 \in 1 .. n2 /\ (i + 1) - n1 = (i - n1) + 1
          /\ i \in n1 + 1 .. n1 + n2 + 1 /\ i + 1 \in n1 + 1 .. n1 + n2 + 1
      BY <1>4, <2>2
    <3>2. Q[i] = Q2[i - n1] /\ Q[i + 1] = Q2[(i - n1) + 1] /\ p[i] = p2[i - n1]
      BY <1>5, <1>8, <2>2, <3>1
    <3> QED BY <1>3, <3>1, <3>2 DEF Course, n2
  <2> QED BY <2>1, <2>2
<1>11. Course(p, Q)
  BY <1>5, <1>10 DEF Course
<1>12. Runs(p, q, r)
  BY <1>5, <1>6, <1>9, <1>11 DEF Runs
<1> QED
  BY <1>12 DEF p

\* The first access of a run, and what is left after it
LEMMA RunsOn ==
  ASSUME NEW p, NEW q, NEW r, Runs(p, q, r), p # <<>>
  PROVE  /\ Head(p) \in Accesses /\ q \in Machines /\ After(q, Head(p)) \in Machines
         /\ Fits(q, Head(p)) /\ Runs(Tail(p), After(q, Head(p)), r)
<1> DEFINE n == Len(p)
           t == Tail(p)
<1>1. /\ p \in Seq(Accesses) /\ n \in Nat \ {0} /\ Head(p) = p[1] /\ p[1] \in Accesses
      /\ t \in Seq(Accesses) /\ Len(t) = n - 1
      /\ \A i \in 1 .. n - 1 : t[i] = p[i + 1]
  <2>1. p \in Seq(Accesses)
    BY DEF Runs
  <2> QED BY <2>1
<1>2. PICK Q \in [1 .. n + 1 -> Machines] : Q[1] = q /\ Q[n + 1] = r /\ Course(p, Q)
  BY DEF Runs
<1> DEFINE R == [i \in 1 .. n |-> Q[i + 1]]
<1> HIDE DEF t
<1>3. Fits(q, p[1]) /\ Q[2] = After(q, p[1]) /\ q \in Machines /\ Q[2] \in Machines
  <2>1. 1 \in 1 .. Len(p) /\ 1 + 1 = 2 /\ 1 \in 1 .. n + 1 /\ 2 \in 1 .. n + 1
    BY <1>1
  <2> QED BY <1>2, <2>1 DEF Course
<1>4. R \in [1 .. (n - 1) + 1 -> Machines] /\ R[1] = Q[2] /\ R[(n - 1) + 1] = r
  BY <1>1, <1>2
<1>5. ASSUME NEW i \in 1 .. n - 1
      PROVE  Fits(R[i], t[i]) /\ R[i + 1] = After(R[i], t[i])
  <2>1. i + 1 \in 1 .. Len(p) /\ R[i] = Q[i + 1] /\ R[i + 1] = Q[(i + 1) + 1] /\ t[i] = p[i + 1]
    BY <1>1
  <2> HIDE DEF R
  <2> QED BY <1>2, <2>1 DEF Course
<1> HIDE DEF R
<1>6. Runs(t, After(q, p[1]), r)
  BY <1>1, <1>3, <1>4, <1>5 DEF Runs, Course
<1> QED
  BY <1>1, <1>3, <1>6 DEF t

\* Rounds that lead from one machine to the next lead from the first to the last.
LEMMA RoundsRun ==
  ASSUME NEW n \in Nat, NEW seqs, seqs = [i \in 1 .. n |-> seqs[i]],
         NEW M, M[0] \in Machines, \A i \in 1 .. n : Runs(seqs[i], M[i - 1], M[i])
  PROVE  Runs(FlattenSeq(seqs), M[0], M[n])
<1>0. seqs \in Seq(Seq(Accesses)) /\ Len(seqs) = n
  <2>1. \A i \in 1 .. n : seqs[i] \in Seq(Accesses)
    BY DEF Runs
  <2> DEFINE S == Seq(Accesses)
  <2> HIDE DEF S
  <2>2. seqs \in [1 .. n -> S]
    BY <2>1 DEF S
  <2>3. seqs \in Seq(S) /\ Len(seqs) = n
    BY <2>2
  <2> QED BY <2>3 DEF S
<1>1. PICK f : /\ f[0] = <<>> /\ f[Len(seqs)] = FlattenSeq(seqs)
               /\ \A i \in 1 .. Len(seqs) : f[i] = f[i - 1] \o seqs[i]
  BY <1>0, FlattenJoins
<1> DEFINE T == {k \in 0 .. n : ~ Runs(f[k], M[0], M[k])}
<1>2. T = {}
  <2> SUFFICES ASSUME T # {} PROVE FALSE
    OBVIOUS
  <2>1. PICK m \in T : \A k \in T : m <= k
    <3>1. T \in SUBSET Nat
      OBVIOUS
    <3> HIDE DEF T
    <3> QED BY <3>1, LeastElement
  <2>2. m \in 0 .. n /\ ~ Runs(f[m], M[0], M[m])
    OBVIOUS
  <2>3. CASE m = 0
    BY <1>1, <2>2, <2>3, NothingRuns
  <2>4. CASE m # 0
    <3>1. m - 1 \in 0 .. n /\ ~ (m <= m - 1) /\ m \in 1 .. n
      BY <2>2, <2>4
    <3>2. m - 1 \notin T
      BY <2>1, <3>1
    <3>3. Runs(f[m - 1], M[0], M[m - 1])
      BY <3>1, <3>2
    <3> HIDE DEF T
    <3>4. Runs(f[m - 1] \o seqs[m], M[0], M[m])
      BY <3>1, <3>3, RunsCompose
    <3> QED BY <1>0, <1>1, <2>2, <3>1, <3>4
  <2> QED BY <2>3, <2>4
<1>3. n \in 0 .. n /\ n \notin T
  BY <1>2
<1>4. Runs(f[n], M[0], M[n])
  BY <1>3
<1> QED
  BY <1>0, <1>1, <1>4

-----------------------------------------------------------------------------
(* Addresses of the tile map. *)

\* The sizes of the screen, and what a whole number of rows takes
LEMMA Sizes ==
  /\ Cols \in Nat \ {0} /\ Rows \in Nat \ {0, 1} /\ Cols < 255
  /\ RowBytes \in Nat \ {0} /\ RowBytes = 2 * Cols + 2
  /\ \A y \in 0 .. Rows - 1 : y * RowBytes \in Nat /\ y * RowBytes + RowBytes <= Rows * RowBytes
  /\ \A y \in Nat : y * RowBytes = 2 * (y * (Cols + 1)) /\ y * (Cols + 1) \in Nat
<1>1. Cols \in Nat \ {0} /\ Rows \in Nat \ {0, 1} /\ Cols < 255
  BY ConsoleAssumption DEF NoColumn
<1>2. RowBytes \in Nat \ {0} /\ RowBytes = 2 * Cols + 2
  BY <1>1 DEF RowBytes
<1>3. ASSUME NEW y \in 0 .. Rows - 1
      PROVE  y * RowBytes \in Nat /\ y * RowBytes + RowBytes <= Rows * RowBytes
  <2>1. y \in Nat /\ Rows \in Nat /\ y < Rows
    BY <1>1
  <2> QED BY <1>2, <2>1, OneMore, FewerFit
<1>4. ASSUME NEW y \in Nat
      PROVE  y * RowBytes = 2 * (y * (Cols + 1)) /\ y * (Cols + 1) \in Nat
  BY <1>1 DEF RowBytes
<1> QED
  BY <1>1, <1>2, <1>3, <1>4

\* Even addresses hold glyphs and odd ones attributes.
LEMMA Parity ==
  ASSUME NEW m \in Nat
  PROVE  ~ IsAttr(2 * m) /\ IsAttr(2 * m + 1)
<1>1. (m * 2 + 0) % 2 = 0 /\ (m * 2 + 1) % 2 = 1
  BY CutIsUnique
<1> QED
  BY <1>1 DEF IsAttr

\* A cell is a glyph and then an attribute, and the cells of a row follow each other.
LEMMA CellPlaces ==
  ASSUME NEW x \in 0 .. Cols, NEW y \in 0 .. Rows - 1
  PROVE  /\ GlyphOf(x, y) \in Addresses /\ ~ IsAttr(GlyphOf(x, y))
         /\ AttrOf(x, y) \in Addresses /\ IsAttr(AttrOf(x, y))
         /\ Next1(GlyphOf(x, y)) = AttrOf(x, y)
         /\ x < Cols => Next1(AttrOf(x, y)) = GlyphOf(x + 1, y)
<1> DEFINE R == y * RowBytes
           B == Rows * RowBytes
           k == y * (Cols + 1)
<1>1. Cols \in Nat \ {0} /\ x \in Nat /\ y \in Nat
  BY Sizes
<1>2. R \in Nat /\ R + (2 * Cols + 2) <= B /\ R = 2 * k /\ k \in Nat /\ B \in Nat
  BY <1>1, Sizes
<1>3. GlyphOf(x, y) = R + 2 * x /\ AttrOf(x, y) = R + 2 * x + 1
      /\ GlyphOf(x + 1, y) = R + 2 * (x + 1)
  BY DEF GlyphOf, AttrOf
<1>4. Addresses = 0 .. B - 1
  BY DEF Addresses
<1> HIDE DEF R, B, k
<1>5. R + 2 * x \in Addresses /\ R + 2 * x + 1 \in Addresses
      /\ (x < Cols => R + 2 * (x + 1) \in Addresses)
  BY <1>1, <1>2, <1>4
<1>6. ~ IsAttr(R + 2 * x) /\ IsAttr(R + 2 * x + 1)
  <2>1. k + x \in Nat /\ R + 2 * x = 2 * (k + x)
    BY <1>1, <1>2
  <2> QED BY <2>1, Parity
<1>7. R + 2 * x + 2 = R + 2 * (x + 1) /\ (R + 2 * x + 1) + 1 = R + 2 * (x + 1)
  BY <1>1, <1>2
<1> QED
  BY <1>3, <1>5, <1>6, <1>7 DEF Next1

\* Setting the two halves of an address, in the order console.c does
LEMMA AddressesSet ==
  ASSUME NEW a \in Addresses, NEW low \in 0 .. RowBytes - 1, NEW row \in 0 .. Rows - 1
  PROVE  /\ LowSet(a, low) \in Addresses /\ RowSet(a, row) \in Addresses
         /\ RowSet(LowSet(a, low), row) = row * RowBytes + low
<1> DEFINE W == RowBytes
           k == a \div W
<1>1. W \in Nat \ {0} /\ Rows \in Nat /\ a \in Nat /\ a < Rows * W
      /\ low \in Nat /\ low < W /\ row \in Nat
  BY Sizes DEF Addresses
<1>2. row * W \in Nat /\ row * W + W <= Rows * W
  BY Sizes
<1> HIDE DEF W
<1>3. k \in Nat /\ a % W \in 0 .. W - 1 /\ a = k * W + (a % W)
  BY <1>1, CutExists
<1> HIDE DEF k
<1>4. k * W \in Nat /\ k * W < Rows * W
  BY <1>1, <1>3, OneMore
<1>5. k * W + W <= Rows * W
  BY <1>1, <1>3, <1>4, FewerFit
<1>6. LowSet(a, low) = k * W + low /\ RowSet(a, row) = row * W + (a % W)
  <2>1. \A m, n, z \in Nat : z = m + n => (z - n) + low = m + low
    BY <1>1
  <2>2. (a - (a % W)) + low = k * W + low
    BY <1>1, <1>3, <1>4, <2>1
  <2> QED BY <2>2 DEF LowSet, RowSet, W
<1>7. (k * W + low) % W = low
  <2>1. low \in 0 .. W - 1
    BY <1>1
  <2> QED BY <1>1, <1>3, <2>1, CutIsUnique
<1>8. RowSet(LowSet(a, low), row) = row * W + low
  BY <1>6, <1>7 DEF RowSet, W
<1>9. k * W + low \in Addresses /\ row * W + (a % W) \in Addresses
  <2>1. Addresses = 0 .. Rows * W - 1
    BY DEF Addresses, W
  <2> QED BY SMTT(30), <1>1, <1>2, <1>3, <1>4, <1>5, <2>1
<1> QED
  BY <1>6, <1>8, <1>9 DEF W

\* An access that fits takes a machine to a machine.
LEMMA AfterIsMachine ==
  ASSUME NEW q \in Machines, NEW st \in Accesses
  PROVE  After(q, st) \in Machines
<1>1. q.a0 \in Addresses /\ q.a1 \in Addresses /\ q.ctrl \in {0, 1} /\ q.curx \in 0 .. Cols
      /\ q.slot \in {0, 1} /\ q.armed \in {0, 1} /\ q.hid \in {0, 1}
  BY DEF Machines
<1>2. \A a \in Addresses : Next1(a) \in Addresses
  BY Sizes, CellPlaces DEF Next1, Addresses
<1>3. /\ st.do \in {"ctrl", "slot", "armed"} => st.v \in {0, 1}
      /\ st.do = "low" => st.v \in 0 .. RowBytes - 1
      /\ st.do = "row" => st.v \in 0 .. Rows - 1
      /\ st.do = "curx" => st.v \in 0 .. Cols
  BY DEF Accesses, Settings, Stores, Copies
<1>4. st.do = "low" => LowSet(q.a0, st.v) \in Addresses /\ LowSet(q.a1, st.v) \in Addresses
  <2>1. 0 \in 0 .. Rows - 1
    BY Sizes
  <2> QED BY <1>1, <1>3, <2>1, AddressesSet
<1>5. st.do = "row" => RowSet(q.a0, st.v) \in Addresses /\ RowSet(q.a1, st.v) \in Addresses
  <2>1. 0 \in 0 .. RowBytes - 1
    BY Sizes
  <2> QED BY <1>1, <1>3, <2>1, AddressesSet
<1> DEFINE r == After(q, st)
<1>6. r.a0 \in Addresses
  BY <1>1, <1>2, <1>4, <1>5 DEF After
<1>7. r.a1 \in Addresses
  BY <1>1, <1>2, <1>4, <1>5 DEF After
<1>8. r.ctrl \in {0, 1} /\ r.curx \in 0 .. Cols
  BY <1>1, <1>3 DEF After, Assigned
<1>9. r.slot \in {0, 1} /\ r.armed \in {0, 1} /\ r.hid \in {0, 1}
  BY <1>1, <1>3 DEF After, Assigned
<1>10. r = [a0 |-> r.a0, a1 |-> r.a1, ctrl |-> r.ctrl, curx |-> r.curx,
            slot |-> r.slot, armed |-> r.armed, hid |-> r.hid]
  BY DEF After
<1> HIDE DEF r
<1>11. r \in Machines
  BY <1>6, <1>7, <1>8, <1>9, <1>10 DEF Machines
<1> QED
  BY <1>11 DEF r

-----------------------------------------------------------------------------
(* What the pieces of a call do to the machine. *)

Aimed(q, a, b, c) ==
  [a0 |-> a, a1 |-> b, ctrl |-> c, curx |-> q.curx,
   slot |-> q.slot, armed |-> q.armed, hid |-> q.hid]
At(q, x) ==
  [a0 |-> q.a0, a1 |-> q.a1, ctrl |-> q.ctrl, curx |-> x,
   slot |-> q.slot, armed |-> q.armed, hid |-> q.hid]
Flagged(q, s, r, h) ==
  [a0 |-> q.a0, a1 |-> q.a1, ctrl |-> q.ctrl, curx |-> q.curx,
   slot |-> s, armed |-> r, hid |-> h]
Slotted(q, s) == Flagged(q, s, q.armed, q.hid)
Armed(q, r) == Flagged(q, q.slot, r, 0)
Suspended(q) == Flagged(q, q.slot, 0, 1)

LEMMA MachineIs ==
  ASSUME NEW q \in Machines
  PROVE  /\ q.a0 \in Addresses /\ q.a1 \in Addresses /\ q.ctrl \in {0, 1}
         /\ q.curx \in 0 .. Cols /\ q.slot \in {0, 1} /\ q.armed \in {0, 1}
         /\ q.hid \in {0, 1}
         /\ q = [a0 |-> q.a0, a1 |-> q.a1, ctrl |-> q.ctrl, curx |-> q.curx,
                 slot |-> q.slot, armed |-> q.armed, hid |-> q.hid]
BY DEF Machines

LEMMA ChangedIs ==
  ASSUME NEW q \in Machines
  PROVE  /\ \A a, b \in Addresses, c \in {0, 1} : Aimed(q, a, b, c) \in Machines
         /\ \A x \in 0 .. Cols : At(q, x) \in Machines
         /\ \A s, r, h \in {0, 1} : Flagged(q, s, r, h) \in Machines
BY DEF Machines, Aimed, At, Flagged

\* One assignment or register write
LEMMA DoRuns ==
  ASSUME NEW q \in Machines, NEW what, NEW v,
         [do |-> what, v |-> v] \in Settings, Fits(q, [do |-> what, v |-> v])
  PROVE  Runs(Do(what, v), q, After(q, [do |-> what, v |-> v]))
<1> DEFINE st == [do |-> what, v |-> v]
<1>1. st \in Accesses
  BY DEF Accesses
<1> HIDE DEF st
<1>2. Runs(<<st>>, q, After(q, st))
  BY <1>1, AfterIsMachine, OneRuns DEF st
<1> QED
  BY <1>2 DEF st, Do

LEMMA AssignmentsRun ==
  ASSUME NEW q \in Machines
  PROVE  /\ \A x \in 0 .. Cols : Runs(Do("curx", x), q, At(q, x))
         /\ \A y \in 0 .. Rows - 1 : Runs(Do("cury", y), q, q)
         /\ \A p \in Pens : Runs(Do("pen", p), q, q)
         /\ Runs(Do("tick", 0), q, q)
<1>1. ASSUME NEW x \in 0 .. Cols
      PROVE  Runs(Do("curx", x), q, At(q, x))
  <2> DEFINE st == [do |-> "curx", v |-> x]
  <2>1. st \in Settings /\ Fits(q, st)
    BY DEF Settings, Fits
  <2>2. After(q, st) = At(q, x)
    BY MachineIs DEF After, Assigned, At, Flagged, Slotted, Armed
  <2> QED BY <2>1, <2>2, DoRuns
<1>2. ASSUME NEW y \in 0 .. Rows - 1
      PROVE  Runs(Do("cury", y), q, q)
  <2> DEFINE st == [do |-> "cury", v |-> y]
  <2>1. st \in Settings /\ Fits(q, st)
    BY DEF Settings, Fits
  <2>2. After(q, st) = q
    BY MachineIs DEF After, Assigned
  <2> QED BY <2>1, <2>2, DoRuns
<1>3. ASSUME NEW p \in Pens
      PROVE  Runs(Do("pen", p), q, q)
  <2> DEFINE st == [do |-> "pen", v |-> p]
  <2>1. st \in Settings /\ Fits(q, st)
    BY DEF Settings, Fits
  <2>2. After(q, st) = q
    BY MachineIs DEF After, Assigned
  <2> QED BY <2>1, <2>2, DoRuns
<1>4. Runs(Do("tick", 0), q, q)
  <2> DEFINE st == [do |-> "tick", v |-> 0]
  <2>1. st \in Settings /\ Fits(q, st)
    BY DEF Settings, Fits
  <2>2. After(q, st) = q
    BY MachineIs DEF After, Assigned
  <2> QED BY <2>1, <2>2, DoRuns
<1> QED
  BY <1>1, <1>2, <1>3, <1>4

LEMMA FlagsRun ==
  ASSUME NEW q \in Machines
  PROVE  /\ \A v \in {0, 1} : Runs(Do("armed", v), q, Armed(q, v))
         /\ \A v \in {0, 1} : Runs(Do("slot", v), q, Slotted(q, v))
         /\ q.armed = 0 => Runs(Do("hide", 0), q, Suspended(q))
         /\ ArmTwice \/ q.hid = 1 => Runs(Forget, q, q)
<1>1. ASSUME NEW v \in {0, 1}
      PROVE  Runs(Do("armed", v), q, Armed(q, v))
  <2> DEFINE st == [do |-> "armed", v |-> v]
  <2>1. st \in Settings /\ Fits(q, st)
    BY DEF Settings, Fits
  <2>2. After(q, st) = Armed(q, v)
    BY MachineIs DEF After, Assigned, At, Flagged, Slotted, Armed
  <2> QED BY <2>1, <2>2, DoRuns
<1>2. ASSUME NEW v \in {0, 1}
      PROVE  Runs(Do("slot", v), q, Slotted(q, v))
  <2> DEFINE st == [do |-> "slot", v |-> v]
  <2>1. st \in Settings /\ Fits(q, st)
    BY DEF Settings, Fits
  <2>2. After(q, st) = Slotted(q, v)
    BY MachineIs DEF After, Assigned, At, Flagged, Slotted, Armed
  <2> QED BY <2>1, <2>2, DoRuns
<1>3. ASSUME q.armed = 0
      PROVE  Runs(Do("hide", 0), q, Suspended(q))
  <2> DEFINE st == [do |-> "hide", v |-> 0]
  <2>1. st \in Settings /\ Fits(q, st)
    BY <1>3 DEF Settings, Fits
  <2>2. After(q, st) = Suspended(q)
    BY <1>3, MachineIs DEF After, Assigned, Flagged, Suspended
  <2> QED BY <2>1, <2>2, DoRuns
<1>4. ASSUME ArmTwice \/ q.hid = 1
      PROVE  Runs(Forget, q, q)
  <2>1. Runs(Do("shown", 0), q, q)
    <3> DEFINE st == [do |-> "shown", v |-> 0]
    <3>1. st \in Settings /\ Fits(q, st)
      BY <1>4 DEF Settings, Fits
    <3>2. After(q, st) = q
      BY MachineIs DEF After, Assigned
    <3> QED BY <3>1, <3>2, DoRuns
  <2>2. Runs(Do("lastx", NoColumn), q, q)
    <3> DEFINE st == [do |-> "lastx", v |-> NoColumn]
    <3>1. st \in Settings /\ Fits(q, st)
      BY <1>4 DEF Settings, Fits
    <3>2. After(q, st) = q
      BY MachineIs DEF After, Assigned
    <3> QED BY <3>1, <3>2, DoRuns
  <2>3. Runs(Do("shown", 0) \o Do("tick", 0), q, q)
    BY <2>1, AssignmentsRun, RunsCompose
  <2> QED BY <2>2, <2>3, RunsCompose DEF Forget
<1> QED
  BY <1>1, <1>2, <1>3, <1>4

\* Disarming the handler and undrawing the cursor
LEMMA SuspendRuns ==
  ASSUME NEW q \in Machines
  PROVE  Runs(DisarmThenUndraw, q, Suspended(q)) /\ Suspended(q) \in Machines
<1> DEFINE m == Armed(q, 0)
<1>1. m \in Machines /\ m.armed = 0 /\ Suspended(m) = Suspended(q)
      /\ Suspended(q) \in Machines
  <2>1. q.slot \in {0, 1}
    BY MachineIs
  <2> QED BY <2>1, ChangedIs DEF Armed, Flagged, Suspended
<1>2. Runs(Do("armed", 0), q, m)
  BY FlagsRun
<1> HIDE DEF m
<1>3. Runs(Do("hide", 0), m, Suspended(m))
  BY <1>1, FlagsRun
<1> QED
  BY <1>1, <1>2, <1>3, RunsCompose DEF DisarmThenUndraw

\* The three register writes that point a port at a place
LEMMA AddressRuns ==
  ASSUME NEW q \in Machines, NEW port \in {0, 1}, NEW low \in 0 .. RowBytes - 1,
         NEW row \in 0 .. Rows - 1
  PROVE  LET a == row * RowBytes + low
         IN  a \in Addresses
             /\ Runs(Address(port, low, row), q,
                     IF port = 0 THEN Aimed(q, a, q.a1, 0) ELSE Aimed(q, q.a0, a, 1))
<1> DEFINE a == row * RowBytes + low
           Low == [do |-> "low", v |-> low]
           Row == [do |-> "row", v |-> row]
           Port == [do |-> "ctrl", v |-> port]
           m1 == Aimed(q, q.a0, q.a1, port)
           old == IF port = 0 THEN q.a0 ELSE q.a1
           mid == LowSet(old, low)
           m2 == IF port = 0 THEN Aimed(q, mid, q.a1, 0) ELSE Aimed(q, q.a0, mid, 1)
           m3 == IF port = 0 THEN Aimed(q, a, q.a1, 0) ELSE Aimed(q, q.a0, a, 1)
<1>1. old \in Addresses
  BY MachineIs
<1>2. mid \in Addresses /\ RowSet(mid, row) = a /\ a \in Addresses
  <2> HIDE DEF old
  <2>1. mid \in Addresses /\ RowSet(mid, row) = a
    BY <1>1, AddressesSet
  <2> HIDE DEF mid
  <2>2. RowSet(mid, row) \in Addresses
    BY <1>1, <2>1, AddressesSet
  <2> QED BY <2>1, <2>2
<1>3. m1 \in Machines /\ m2 \in Machines
  <2> HIDE DEF mid
  <2> QED BY <1>2, MachineIs, ChangedIs
<1>4. Low \in Settings /\ Row \in Settings /\ Port \in Settings
      /\ \A m \in Machines : Fits(m, Low) /\ Fits(m, Row) /\ Fits(m, Port)
  BY DEF Settings, Fits
<1>5. Runs(Do("ctrl", port), q, m1)
  <2>1. After(q, Port) = m1
    BY MachineIs DEF After, Assigned, Aimed
  <2> QED BY <1>4, <2>1, DoRuns
<1>6. Runs(Do("low", low), m1, m2)
  <2>1. After(m1, Low) = m2
    BY MachineIs DEF After, Assigned, Aimed
  <2> HIDE DEF m1, m2
  <2> QED BY <1>3, <1>4, <2>1, DoRuns
<1>7. Runs(Do("row", row), m2, m3)
  <2>1. After(m2, Row) = m3
    <3> HIDE DEF mid, a
    <3> QED BY <1>2, MachineIs DEF After, Assigned, Aimed
  <2> HIDE DEF m2, m3
  <2> QED BY <1>3, <1>4, <2>1, DoRuns
<1> HIDE DEF m1, m2, m3
<1>8. Runs(Do("ctrl", port) \o Do("low", low), q, m2)
  BY <1>5, <1>6, RunsCompose
<1>9. Runs(Address(port, low, row), q, m3)
  BY <1>7, <1>8, RunsCompose DEF Address
<1> QED
  BY <1>2, <1>9 DEF m3

\* Port 0 at the start of a cell
LEMMA CellAddressed ==
  ASSUME NEW q \in Machines, NEW x \in 0 .. Cols, NEW y \in 0 .. Rows - 1
  PROVE  /\ Aimed(q, GlyphOf(x, y), q.a1, 0) \in Machines
         /\ Runs(Address(0, 2 * x, y), q, Aimed(q, GlyphOf(x, y), q.a1, 0))
<1>1. 2 * x \in 0 .. RowBytes - 1
  BY Sizes
<1>2. y * RowBytes + 2 * x = GlyphOf(x, y)
  BY DEF GlyphOf
<1>3. Aimed(q, GlyphOf(x, y), q.a1, 0) \in Machines
  <2>1. GlyphOf(x, y) \in Addresses /\ q.a1 \in Addresses /\ 0 \in {0, 1}
    BY MachineIs, CellPlaces
  <2> QED BY <2>1, ChangedIs
<1>4. Runs(Address(0, 2 * x, y), q, Aimed(q, y * RowBytes + 2 * x, q.a1, 0))
  BY <1>1, AddressRuns
<1> QED
  BY <1>2, <1>3, <1>4

\* A byte stored through port 0
LEMMA DataRuns ==
  ASSUME NEW q \in Machines, NEW a \in Addresses, q.a0 = a, NEW v \in Fitting(a)
  PROVE  /\ Next1(a) \in Addresses /\ Aimed(q, Next1(a), q.a1, q.ctrl) \in Machines
         /\ Runs(Data(v, a), q, Aimed(q, Next1(a), q.a1, q.ctrl))
<1> DEFINE st == [do |-> "data0", v |-> v, at |-> a]
           m == Aimed(q, Next1(a), q.a1, q.ctrl)
<1>1. v \in Pens \cup Glyphs \cup {Space}
  BY DEF Fitting
<1>2. st \in Accesses /\ Fits(q, st)
  <2>1. st \in Stores
    BY <1>1 DEF Stores
  <2> QED BY <2>1 DEF Accesses, Fits
<1>3. After(q, st) = m
  BY MachineIs DEF After, Assigned, Aimed
<1> HIDE DEF st
<1>4. m \in Machines
  BY <1>2, <1>3, AfterIsMachine
<1>5. Runs(<<st>>, q, m)
  <2> HIDE DEF m
  <2> QED BY <1>2, <1>3, <1>4, OneRuns
<1>6. m.a0 \in Addresses
  <2> HIDE DEF m
  <2> QED BY <1>4, MachineIs
<1> QED
  BY <1>4, <1>5, <1>6 DEF st, Data, Aimed

\* A cell written at the place port 0 is at
LEMMA WriteCellRuns ==
  ASSUME NEW q \in Machines, NEW b \in Addresses, NEW c \in {0, 1},
         NEW x \in 0 .. Cols, NEW y \in 0 .. Rows - 1,
         NEW ch \in Glyphs \cup {Space}, pen \in Pens
  PROVE  LET m == Aimed(q, Next1(AttrOf(x, y)), b, c)
         IN  m \in Machines
             /\ Runs(WriteCell(ch, x, y), Aimed(q, GlyphOf(x, y), b, c), m)
<1> DEFINE g == GlyphOf(x, y)
           a == AttrOf(x, y)
           m0 == Aimed(q, g, b, c)
           m1 == Aimed(q, a, b, c)
           m2 == Aimed(q, Next1(a), b, c)
<1>1. g \in Addresses /\ a \in Addresses /\ Next1(g) = a /\ ch \in Fitting(g) /\ pen \in Fitting(a)
  BY CellPlaces DEF Fitting
<1> HIDE DEF g, a
<1>2. m0 \in Machines /\ m1 \in Machines
  BY <1>1, ChangedIs
<1>3. Runs(Data(ch, g), m0, m1)
  <2>1. m0.a0 = g /\ Aimed(m0, Next1(g), m0.a1, m0.ctrl) = m1
    BY <1>1 DEF Aimed
  <2> HIDE DEF m0, m1
  <2> QED BY <1>1, <1>2, <2>1, DataRuns
<1>4. Runs(Data(pen, a), m1, m2) /\ m2 \in Machines
  <2>1. m1.a0 = a /\ Aimed(m1, Next1(a), m1.a1, m1.ctrl) = m2
    BY DEF Aimed
  <2> HIDE DEF m1, m2
  <2> QED BY <1>1, <1>2, <2>1, DataRuns
<1> HIDE DEF m0, m1, m2
<1>5. Runs(Data(ch, g) \o Data(pen, a), m0, m2)
  BY <1>3, <1>4, RunsCompose
<1> QED
  BY <1>4, <1>5 DEF WriteCell, g, a, m0, m2

\* A run of cells that ends in its row at the latest
LEMMA WriteRunRuns ==
  ASSUME NEW q \in Machines, NEW b \in Addresses, NEW c \in {0, 1},
         NEW x \in 0 .. Cols, NEW y \in 0 .. Rows - 1,
         NEW s \in Seq(Glyphs \cup {Space}), x + Len(s) <= Cols, pen \in Pens
  PROVE  /\ Aimed(q, GlyphOf(x + Len(s), y), b, c) \in Machines
         /\ Runs(WriteRun(s, x, y), Aimed(q, GlyphOf(x, y), b, c),
                 Aimed(q, GlyphOf(x + Len(s), y), b, c))
<1> DEFINE n == Len(s)
           seqs == [i \in 1 .. n |-> WriteCell(s[(i - 1) + 1], x + (i - 1), y)]
           M == [i \in 0 .. n |-> Aimed(q, GlyphOf(x + i, y), b, c)]
<1>1. n \in Nat /\ x \in Nat /\ Cols \in Nat
      /\ \A i \in 1 .. n : s[(i - 1) + 1] \in Glyphs \cup {Space}
  BY Sizes
<1>2. ASSUME NEW i \in 0 .. n
      PROVE  M[i] = Aimed(q, GlyphOf(x + i, y), b, c) /\ M[i] \in Machines
  <2>1. x + i \in 0 .. Cols
    BY <1>1
  <2>2. GlyphOf(x + i, y) \in Addresses
    BY <2>1, CellPlaces
  <2>3. Aimed(q, GlyphOf(x + i, y), b, c) \in Machines
    BY <2>2, ChangedIs
  <2> QED BY <2>3
<1>3. ASSUME NEW i \in 1 .. n
      PROVE  Runs(seqs[i], M[i - 1], M[i])
  <2> DEFINE u == x + (i - 1)
  <2>1. u \in 0 .. Cols /\ u < Cols /\ u + 1 = x + i /\ i - 1 \in 0 .. n /\ i \in 0 .. n
    BY <1>1
  <2>2. Next1(AttrOf(u, y)) = GlyphOf(x + i, y)
    <3> HIDE DEF u
    <3>1. Next1(AttrOf(u, y)) = GlyphOf(u + 1, y)
      BY <2>1, CellPlaces
    <3> QED BY <2>1, <3>1
  <2>3. Runs(WriteCell(s[(i - 1) + 1], u, y), Aimed(q, GlyphOf(u, y), b, c),
             Aimed(q, Next1(AttrOf(u, y)), b, c))
    <3> HIDE DEF u
    <3> QED BY <1>1, <2>1, WriteCellRuns
  <2>4. seqs[i] = WriteCell(s[(i - 1) + 1], u, y)
    OBVIOUS
  <2>5. M[i - 1] = Aimed(q, GlyphOf(u, y), b, c) /\ M[i] = Aimed(q, GlyphOf(x + i, y), b, c)
    BY <1>2, <2>1
  <2> HIDE DEF seqs, M, u
  <2> QED BY <2>2, <2>3, <2>4, <2>5
<1>4. seqs = [i \in 1 .. n |-> seqs[i]]
  OBVIOUS
<1>5. WriteRun(s, x, y) = FlattenSeq(seqs)
  BY DEF WriteRun, Each
<1>6. 0 \in 0 .. n /\ n \in 0 .. n
  BY <1>1
<1>7. M[0] \in Machines /\ M[n] \in Machines
  BY <1>2, <1>6
<1>8. M[0] = Aimed(q, GlyphOf(x, y), b, c) /\ M[n] = Aimed(q, GlyphOf(x + n, y), b, c)
  <2>1. x + 0 = x
    BY <1>1
  <2> QED BY <1>2, <1>6, <2>1
<1> HIDE DEF M, seqs
<1>9. Runs(FlattenSeq(seqs), M[0], M[n])
  <2> HIDE DEF n
  <2> QED BY <1>1, <1>3, <1>4, <1>7, RoundsRun
<1> QED
  BY <1>5, <1>7, <1>8, <1>9

-----------------------------------------------------------------------------
(* Scrolling. *)

\* The bytes of a row, one after the other
LEMMA RowBytesFollow ==
  ASSUME NEW y \in 0 .. Rows - 1, NEW i \in 0 .. 2 * Cols
  PROVE  /\ GlyphOf(0, y) + i \in Addresses
         /\ i < 2 * Cols => Next1(GlyphOf(0, y) + i) = GlyphOf(0, y) + (i + 1)
         /\ IsAttr(GlyphOf(0, y) + i) <=> IsAttr(i)
         /\ GlyphOf(0, y) + 0 = GlyphOf(0, y) /\ GlyphOf(0, y) + 2 * Cols = GlyphOf(Cols, y)
<1> DEFINE R == y * RowBytes
           B == Rows * RowBytes
           k == y * (Cols + 1)
<1>1. Cols \in Nat \ {0} /\ i \in Nat /\ y \in Nat
  BY Sizes
<1>2. R \in Nat /\ R + (2 * Cols + 2) <= B /\ R = 2 * k /\ k \in Nat /\ B \in Nat
  BY <1>1, Sizes
<1>3. GlyphOf(0, y) = R /\ GlyphOf(Cols, y) = R + 2 * Cols
  <2>1. GlyphOf(0, y) = R + 2 * 0 /\ GlyphOf(Cols, y) = R + 2 * Cols
    BY DEF GlyphOf
  <2> HIDE DEF R
  <2> QED BY <1>2, <2>1
<1>4. Addresses = 0 .. B - 1
  BY DEF Addresses
<1> HIDE DEF R, B, k
<1>5. R + i \in Addresses /\ (i < 2 * Cols => R + (i + 1) \in Addresses /\ (R + i) + 1 = R + (i + 1))
  BY <1>1, <1>2, <1>4
<1>6. IsAttr(R + i) <=> IsAttr(i)
  <2>1. (2 * k + i) % 2 = i % 2
    BY <1>1, <1>2
  <2> QED BY <1>2, <2>1 DEF IsAttr
<1> QED
  BY <1>1, <1>2, <1>3, <1>5, <1>6 DEF Next1

\* A byte copied from one port to the other, with no cursor on the screen
LEMMA CopyByteRuns ==
  ASSUME NEW q \in Machines, q.hid = 1, NEW from \in Addresses, NEW to \in Addresses,
         IsAttr(from) <=> IsAttr(to), NEW c \in {0, 1}
  PROVE  Runs(CopyByte(from, to), Aimed(q, from, to, c), Aimed(q, Next1(from), Next1(to), c))
<1> DEFINE st == [do |-> "copy", from |-> from, to |-> to]
           m == Aimed(q, from, to, c)
           r == Aimed(q, Next1(from), Next1(to), c)
<1>1. st \in Accesses
  <2>1. st \in Copies
    BY DEF Copies
  <2> QED BY <2>1 DEF Accesses
<1>2. Fits(m, st)
  BY DEF Fits, Aimed
<1>3. After(m, st) = r
  BY DEF After, Assigned, Aimed
<1>4. m \in Machines
  BY ChangedIs
<1> HIDE DEF m, r, st
<1>5. Runs(<<st>>, m, r)
  BY <1>1, <1>2, <1>3, <1>4, AfterIsMachine, OneRuns
<1> QED
  BY <1>5 DEF st, m, r, CopyByte

\* One row copied to the one above, wherever the ports were
LEMMA CopyRowRuns ==
  ASSUME NEW q \in Machines, q.hid = 1, NEW a \in Addresses, NEW b \in Addresses,
         NEW c \in {0, 1}, NEW row \in 0 .. Rows - 2
  PROVE  LET r == Aimed(q, GlyphOf(Cols, row + 1), GlyphOf(Cols, row), 0)
         IN  r \in Machines /\ Runs(CopyRow(row), Aimed(q, a, b, c), r)
<1> DEFINE g0 == GlyphOf(0, row + 1)
           g1 == GlyphOf(0, row)
           n == 2 * Cols
           m0 == Aimed(q, a, b, c)
           m1 == Aimed(q, g0, b, 0)
           m2 == Aimed(q, g0, g1, 1)
           m3 == Aimed(q, g0, g1, 0)
           seqs == [i \in 1 .. n |-> CopyByte(g0 + (i - 1), g1 + (i - 1))]
           M == [i \in 0 .. n |-> Aimed(q, g0 + i, g1 + i, 0)]
<1>1. row \in 0 .. Rows - 1 /\ row + 1 \in 0 .. Rows - 1 /\ n \in Nat /\ 0 \in 0 .. RowBytes - 1
      /\ 0 \in 0 .. Cols
  BY Sizes
<1>2. g0 \in Addresses /\ g1 \in Addresses
  BY <1>1, CellPlaces
<1>3. (row + 1) * RowBytes + 0 = g0 /\ row * RowBytes + 0 = g1
  <2>1. 2 * 0 = 0
    OBVIOUS
  <2> QED BY <2>1 DEF GlyphOf
<1>4. ASSUME NEW i \in 0 .. n
      PROVE  /\ g0 + i \in Addresses /\ g1 + i \in Addresses
             /\ IsAttr(g0 + i) <=> IsAttr(g1 + i)
             /\ i < n => Next1(g0 + i) = g0 + (i + 1) /\ Next1(g1 + i) = g1 + (i + 1)
  BY <1>1, RowBytesFollow
<1>5. g0 + 0 = g0 /\ g1 + 0 = g1 /\ g0 + n = GlyphOf(Cols, row + 1) /\ g1 + n = GlyphOf(Cols, row)
  <2>1. 0 \in 0 .. 2 * Cols
    BY Sizes
  <2> QED BY <1>1, <2>1, RowBytesFollow
<1> HIDE DEF g0, g1
<1>6. m0 \in Machines /\ m1 \in Machines /\ m2 \in Machines /\ m3 \in Machines
  BY <1>2, ChangedIs
<1>7. Runs(Address(0, 0, row + 1), m0, m1)
  <2>1. Aimed(m0, g0, m0.a1, 0) = m1
    BY DEF Aimed
  <2> HIDE DEF m0, m1
  <2>2. Runs(Address(0, 0, row + 1), m0, Aimed(m0, (row + 1) * RowBytes + 0, m0.a1, 0))
    BY <1>1, <1>6, AddressRuns
  <2> QED BY <1>3, <2>1, <2>2
<1>8. Runs(Address(1, 0, row), m1, m2)
  <2>1. Aimed(m1, m1.a0, g1, 1) = m2
    BY DEF Aimed
  <2> HIDE DEF m1, m2
  <2>2. Runs(Address(1, 0, row), m1, Aimed(m1, m1.a0, row * RowBytes + 0, 1))
    BY <1>1, <1>6, AddressRuns
  <2> QED BY <1>3, <2>1, <2>2
<1>9. Runs(Do("ctrl", 0), m2, m3)
  <2> DEFINE st == [do |-> "ctrl", v |-> 0]
  <2>1. st \in Settings /\ Fits(m2, st)
    BY DEF Settings, Fits
  <2>2. After(m2, st) = m3
    BY DEF After, Assigned, Aimed
  <2> HIDE DEF m2, m3
  <2> QED BY <1>6, <2>1, <2>2, DoRuns
<1>10. ASSUME NEW i \in 1 .. n
       PROVE  Runs(seqs[i], M[i - 1], M[i])
  <2>1. i - 1 \in 0 .. n /\ i - 1 < n /\ i \in 0 .. n /\ (i - 1) + 1 = i
    BY <1>1
  <2>2. Next1(g0 + (i - 1)) = g0 + i /\ Next1(g1 + (i - 1)) = g1 + i
    BY <1>4, <2>1
  <2>3. Runs(CopyByte(g0 + (i - 1), g1 + (i - 1)), Aimed(q, g0 + (i - 1), g1 + (i - 1), 0),
             Aimed(q, Next1(g0 + (i - 1)), Next1(g1 + (i - 1)), 0))
    BY <1>4, <2>1, CopyByteRuns
  <2>4. /\ seqs[i] = CopyByte(g0 + (i - 1), g1 + (i - 1))
        /\ M[i - 1] = Aimed(q, g0 + (i - 1), g1 + (i - 1), 0)
        /\ M[i] = Aimed(q, g0 + i, g1 + i, 0)
    BY <2>1
  <2> HIDE DEF seqs, M
  <2> QED BY <2>2, <2>3, <2>4
<1>11. seqs = [i \in 1 .. n |-> seqs[i]]
  OBVIOUS
<1>12. M[0] = m3 /\ M[n] = Aimed(q, g0 + n, g1 + n, 0)
  BY <1>1, <1>5
<1>13. Runs(FlattenSeq(seqs), m3, M[n])
  <2> HIDE DEF n, m3, seqs, M
  <2> QED BY <1>1, <1>6, <1>10, <1>11, <1>12, RoundsRun
<1>14. FlattenSeq(seqs) = Each(2 * Cols, LAMBDA i : CopyByte(GlyphOf(0, row + 1) + i, GlyphOf(0, row) + i))
  BY DEF Each, g0, g1
<1> HIDE DEF m0, m1, m2, m3, seqs, M
<1>15. Runs(Address(0, 0, row + 1) \o Address(1, 0, row) \o Do("ctrl", 0) \o FlattenSeq(seqs), m0, M[n])
  <2>1. Runs(Address(0, 0, row + 1) \o Address(1, 0, row), m0, m2)
    BY <1>7, <1>8, RunsCompose
  <2>2. Runs(Address(0, 0, row + 1) \o Address(1, 0, row) \o Do("ctrl", 0), m0, m3)
    BY <1>9, <2>1, RunsCompose
  <2> QED BY <1>13, <2>2, RunsCompose
<1>16. M[n] = Aimed(q, GlyphOf(Cols, row + 1), GlyphOf(Cols, row), 0)
  BY <1>5, <1>12
<1>17. Aimed(q, GlyphOf(Cols, row + 1), GlyphOf(Cols, row), 0) \in Machines
  <2>1. Cols \in 0 .. Cols /\ 0 \in {0, 1}
    BY Sizes
  <2> QED BY <1>1, <2>1, CellPlaces, ChangedIs
<1> QED
  BY <1>14, <1>15, <1>16, <1>17 DEF CopyRow, m0

\* Every row but the last gets the one below it.
LEMMA CopyRowsRun ==
  ASSUME NEW q \in Machines, q.hid = 1
  PROVE  LET r == Aimed(q, GlyphOf(Cols, Rows - 1), GlyphOf(Cols, Rows - 2), 0)
         IN  r \in Machines /\ Runs(Each(Rows - 1, CopyRow), q, r)
<1> DEFINE n == Rows - 1
           seqs == [i \in 1 .. n |-> CopyRow(i - 1)]
           M == [i \in 0 .. n |-> IF i = 0 THEN q
                                  ELSE Aimed(q, GlyphOf(Cols, i), GlyphOf(Cols, i - 1), 0)]
<1>1. n \in Nat \ {0} /\ Rows \in Nat
  BY Sizes
<1>2. q = Aimed(q, q.a0, q.a1, q.ctrl) /\ q.a0 \in Addresses /\ q.a1 \in Addresses
      /\ q.ctrl \in {0, 1}
  BY MachineIs DEF Aimed
<1>3. ASSUME NEW i \in 1 .. n
      PROVE  /\ GlyphOf(Cols, i) \in Addresses /\ GlyphOf(Cols, i - 1) \in Addresses
             /\ M[i] = Aimed(q, GlyphOf(Cols, i), GlyphOf(Cols, i - 1), 0)
             /\ M[i] \in Machines
  <2>1. Cols \in 0 .. Cols /\ i \in 0 .. Rows - 1 /\ i - 1 \in 0 .. Rows - 1 /\ 0 \in {0, 1}
    BY <1>1, Sizes
  <2>2. GlyphOf(Cols, i) \in Addresses /\ GlyphOf(Cols, i - 1) \in Addresses
    BY <2>1, CellPlaces
  <2>3. Aimed(q, GlyphOf(Cols, i), GlyphOf(Cols, i - 1), 0) \in Machines
    BY <2>1, <2>2, ChangedIs
  <2> QED BY <1>1, <2>2, <2>3
<1>4. M[0] = q
  BY <1>1
<1>5. ASSUME NEW i \in 1 .. n
      PROVE  Runs(seqs[i], M[i - 1], M[i])
  <2> DEFINE row == i - 1
  <2>1. row \in 0 .. Rows - 2 /\ row + 1 = i /\ (i # 1 => row \in 1 .. n)
    BY <1>1
  <2>2. \E a, b \in Addresses, c \in {0, 1} : M[row] = Aimed(q, a, b, c)
    <3>1. CASE i = 1
      <4>1. M[row] = q
        <5>1. row = 0
          BY <3>1
        <5> HIDE DEF M, row
        <5> QED BY <1>4, <5>1
      <4> HIDE DEF M, row
      <4> QED BY <1>2, <4>1
    <3>2. CASE i # 1
      <4>1. row \in 1 .. n /\ 0 \in {0, 1}
        BY <2>1, <3>2
      <4> HIDE DEF M, row
      <4> QED BY <1>3, <4>1
    <3> QED BY <3>1, <3>2
  <2>3. PICK a \in Addresses, b \in Addresses, c \in {0, 1} : M[row] = Aimed(q, a, b, c)
    BY <2>2
  <2>4. seqs[i] = CopyRow(row)
    OBVIOUS
  <2> HIDE DEF row, M, seqs
  <2>5. Runs(CopyRow(row), Aimed(q, a, b, c),
             Aimed(q, GlyphOf(Cols, row + 1), GlyphOf(Cols, row), 0))
    BY <2>1, CopyRowRuns
  <2>6. M[i] = Aimed(q, GlyphOf(Cols, i), GlyphOf(Cols, i - 1), 0)
    BY <1>3
  <2> QED BY <2>1, <2>3, <2>4, <2>5, <2>6 DEF row
<1>6. seqs = [i \in 1 .. n |-> seqs[i]]
  OBVIOUS
<1>7. FlattenSeq(seqs) = Each(Rows - 1, CopyRow)
  BY DEF Each
<1>8. n \in 1 .. n /\ n - 1 = Rows - 2
  BY <1>1
<1>9. M[n] = Aimed(q, GlyphOf(Cols, Rows - 1), GlyphOf(Cols, Rows - 2), 0) /\ M[n] \in Machines
  <2> HIDE DEF M
  <2> QED BY <1>3, <1>8
<1> HIDE DEF M, seqs
<1>10. Runs(FlattenSeq(seqs), q, M[n])
  <2> HIDE DEF n
  <2> QED BY <1>1, <1>4, <1>5, <1>6, RoundsRun
<1> QED
  BY <1>7, <1>9, <1>10

-----------------------------------------------------------------------------
(* Every call has a course that ends at rest. *)

\* The cursor is either on, with its handler, or off the screen.
Steady(q) == q.slot = q.armed /\ (q.armed = 1 \/ q.hid = 1)
AtRest(q) == Steady(q) /\ q.curx < Cols

Leads(p, q) == \E r \in Machines : AtRest(r) /\ Runs(p, q, r)

\* The machine inside a call that has not touched the cursor
Calling(q) ==
  /\ q \in Machines /\ Steady(q) /\ (armed <=> q.armed = 1)
  /\ pen \in Pens /\ cury \in 0 .. Rows - 1

LEMMA LeadsOn ==
  ASSUME NEW p1, NEW p2, NEW q, NEW m, Runs(p1, q, m), Leads(p2, m)
  PROVE  Leads(p1 \o p2, q)
BY RunsCompose DEF Leads

LEMMA LeadsNowhere ==
  ASSUME NEW q \in Machines, AtRest(q)
  PROVE  Leads(<<>>, q)
BY NothingRuns DEF Leads

\* The last row is cleared and the cursor comes back as it was.
LEMMA ScrollLeads ==
  ASSUME NEW q, Calling(q), q.curx < Cols
  PROVE  Leads(Scroll, q)
<1> DEFINE y == Rows - 1
           m1 == Suspended(q)
           m2 == Aimed(m1, GlyphOf(Cols, y), GlyphOf(Cols, Rows - 2), 0)
           m3 == Aimed(m2, GlyphOf(0, y), m2.a1, 0)
           m4 == Aimed(m2, GlyphOf(Cols, y), m2.a1, 0)
<1>1. q \in Machines /\ pen \in Pens
  BY DEF Calling
<1>2. Runs(Suspend, q, m1) /\ m1 \in Machines /\ m1.hid = 1
      /\ m1.slot = q.slot /\ m1.armed = 0 /\ m1.curx = q.curx
  BY <1>1, SuspendRuns DEF Suspend, Suspended, Flagged
<1> HIDE DEF m1
<1>3. Runs(Each(Rows - 1, CopyRow), m1, m2) /\ m2 \in Machines
  BY <1>2, CopyRowsRun
<1>4. m2.hid = 1 /\ m2.slot = q.slot /\ m2.armed = 0 /\ m2.curx = q.curx
  BY <1>2 DEF Aimed
<1> HIDE DEF m2
<1>5. y \in 0 .. Rows - 1 /\ 0 \in 0 .. Cols /\ Cols \in Nat /\ m2.a1 \in Addresses /\ 0 \in {0, 1}
  <2>1. m2.a1 \in Addresses
    BY <1>3, MachineIs
  <2> QED BY <2>1, Sizes
<1>6. Runs(Address(0, 0, y), m2, m3) /\ m3 \in Machines
  <2>1. 2 * 0 = 0
    OBVIOUS
  <2> HIDE DEF y
  <2>2. Runs(Address(0, 2 * 0, y), m2, m3) /\ m3 \in Machines
    BY <1>3, <1>5, CellAddressed
  <2> QED BY <2>1, <2>2
<1>7. Runs(WriteRun(BlankLine, 0, y), m3, m4) /\ m4 \in Machines
  <2>1. BlankLine \in Seq(Glyphs \cup {Space}) /\ Len(BlankLine) = Cols
    BY <1>5 DEF BlankLine
  <2>2. 0 + Cols = Cols
    BY <1>5
  <2> HIDE DEF y
  <2> QED BY <1>1, <1>3, <1>5, <2>1, <2>2, WriteRunRuns
<1>8. m4.hid = 1 /\ m4.slot = q.slot /\ m4.armed = 0 /\ m4.curx = q.curx
  BY <1>4 DEF Aimed
<1> HIDE DEF m3, m4
<1>9. Leads(Resume, m4)
  <2>1. CASE armed
    <3> DEFINE r == Armed(m4, 1)
    <3>1. r \in Machines
      <4>1. m4.slot \in {0, 1} /\ 1 \in {0, 1} /\ 0 \in {0, 1}
        BY <1>7, MachineIs
      <4> QED BY <1>7, <4>1, ChangedIs DEF Armed
    <3>2. Runs(Forget \o Do("armed", 1), m4, r)
      <4>1. Runs(Forget, m4, m4) /\ Runs(Do("armed", 1), m4, r)
        BY <1>7, <1>8, FlagsRun
      <4> QED BY <4>1, RunsCompose
    <3>3. AtRest(r)
      <4>1. q.slot = 1
        BY <2>1 DEF Calling, Steady
      <4> QED BY <1>8, <4>1 DEF AtRest, Steady, Armed, Flagged
    <3> HIDE DEF r
    <3> QED BY <2>1, <3>1, <3>2, <3>3 DEF Leads, Resume
  <2>2. CASE ~ armed
    <3>1. AtRest(m4)
      <4>1. q.slot = 0
        BY <1>1, <2>2, MachineIs DEF Calling, Steady
      <4> QED BY <1>8, <4>1 DEF AtRest, Steady
    <3>2. Resume = <<>>
      BY <2>2 DEF Resume
    <3> QED BY <1>7, <3>1, <3>2, LeadsNowhere
  <2> QED BY <2>1, <2>2
<1>10. Runs(Suspend \o Each(Rows - 1, CopyRow), q, m2)
  BY <1>2, <1>3, RunsCompose
<1>11. Runs(Suspend \o Each(Rows - 1, CopyRow) \o Address(0, 0, y), q, m3)
  BY <1>6, <1>10, RunsCompose
<1>12. Runs(Suspend \o Each(Rows - 1, CopyRow) \o Address(0, 0, y)
              \o WriteRun(BlankLine, 0, y), q, m4)
  BY <1>7, <1>11, RunsCompose
<1> QED
  BY <1>9, <1>12, LeadsOn DEF Scroll

LEMMA NewlineLeads ==
  ASSUME NEW q, Calling(q)
  PROVE  Leads(Newline, q)
<1> DEFINE m == At(q, 0)
<1>1. q \in Machines /\ 0 \in 0 .. Cols /\ 0 < Cols
  BY Sizes DEF Calling
<1>2. m \in Machines /\ Runs(Do("curx", 0), q, m)
  BY <1>1, ChangedIs, AssignmentsRun
<1>3. Calling(m) /\ m.curx < Cols
  BY <1>1, <1>2 DEF Calling, Steady, At
<1> HIDE DEF m
<1>4. CASE cury + 1 >= Rows
  <2>1. Leads(Scroll, m)
    BY <1>3, ScrollLeads
  <2> QED BY <1>2, <1>4, <2>1, LeadsOn DEF Newline
<1>5. CASE ~ (cury + 1 >= Rows)
  <2>1. cury + 1 \in 0 .. Rows - 1
    BY <1>5, Sizes DEF Calling
  <2>2. Runs(Do("cury", cury + 1), m, m)
    BY <1>2, <2>1, AssignmentsRun
  <2>3. Leads(Do("cury", cury + 1), m)
    BY <1>2, <1>3, <2>2 DEF Leads, AtRest, Calling
  <2> QED BY <1>2, <1>5, <2>3, LeadsOn DEF Newline
<1> QED
  BY <1>4, <1>5

LEMMA PutCLeads ==
  ASSUME NEW q, Calling(q), q.curx = curx, curx < Cols, NEW ch \in Glyphs
  PROVE  Leads(PutC(ch), q)
<1> DEFINE m1 == Aimed(q, GlyphOf(curx, cury), q.a1, 0)
           m2 == Aimed(q, Next1(AttrOf(curx, cury)), q.a1, 0)
           m3 == At(m2, curx + 1)
           rest == IF curx + 1 >= Cols THEN Newline ELSE <<>>
<1>1. q \in Machines /\ pen \in Pens /\ cury \in 0 .. Rows - 1 /\ curx \in 0 .. Cols
      /\ curx + 1 \in 0 .. Cols /\ 0 \in {0, 1}
  <2>1. q \in Machines /\ pen \in Pens /\ cury \in 0 .. Rows - 1
    BY DEF Calling
  <2> QED BY <2>1, MachineIs, Sizes
<1>2. q.a1 \in Addresses
  BY <1>1, MachineIs
<1>3. Runs(Address(0, 2 * curx, cury), q, m1)
  BY <1>1, CellAddressed
<1>4. Runs(WriteCell(ch, curx, cury), m1, m2) /\ m2 \in Machines
  BY <1>1, <1>2, WriteCellRuns
<1>5. m2.slot = q.slot /\ m2.armed = q.armed /\ m2.hid = q.hid
  BY DEF Aimed
<1> HIDE DEF m1, m2
<1>6. Runs(Do("curx", curx + 1), m2, m3) /\ m3 \in Machines
  BY <1>1, <1>4, AssignmentsRun, ChangedIs
<1>7. Calling(m3) /\ m3.curx = curx + 1
  BY <1>5, <1>6 DEF Calling, Steady, At
<1> HIDE DEF m3
<1>8. Leads(rest, m3)
  <2>1. CASE curx + 1 >= Cols
    BY <1>7, <2>1, NewlineLeads
  <2>2. CASE ~ (curx + 1 >= Cols)
    <3>1. AtRest(m3)
      <4>1. curx + 1 < Cols
        BY <1>1, <2>2, Sizes
      <4> QED BY <1>7, <4>1 DEF AtRest, Calling
    <3> QED BY <1>6, <2>2, <3>1, LeadsNowhere
  <2> QED BY <2>1, <2>2
<1> HIDE DEF rest
<1>9. Runs(Address(0, 2 * curx, cury) \o WriteCell(ch, curx, cury), q, m2)
  BY <1>3, <1>4, RunsCompose
<1>10. Runs(Address(0, 2 * curx, cury) \o WriteCell(ch, curx, cury) \o Do("curx", curx + 1), q, m3)
  BY <1>6, <1>9, RunsCompose
<1> QED
  BY <1>8, <1>10, LeadsOn DEF PutC, rest

LEMMA PlacingLeads ==
  ASSUME NEW q, Calling(q), q.curx = curx, curx < Cols
  PROVE  /\ Leads(Backspace, q) /\ Leads(CarriageReturn, q)
         /\ \A x \in 0 .. Cols - 1, y \in 0 .. Rows - 1 : Leads(GotoXY(x, y), q)
         /\ \A p \in Pens : Leads(Do("pen", p), q)
<1>1. q \in Machines /\ curx \in 0 .. Cols /\ Cols \in Nat \ {0} /\ AtRest(q)
  BY MachineIs, Sizes DEF Calling, AtRest
<1>2. ASSUME NEW x \in 0 .. Cols, x < Cols
      PROVE  At(q, x) \in Machines /\ AtRest(At(q, x)) /\ Runs(Do("curx", x), q, At(q, x))
  BY <1>1, <1>2, ChangedIs, AssignmentsRun DEF AtRest, Steady, At
<1>3. \A x \in 0 .. Cols : x < Cols => Leads(Do("curx", x), q)
  BY <1>2 DEF Leads
<1>4. Leads(Backspace, q)
  <2>1. CASE curx > 0
    <3>1. curx - 1 \in 0 .. Cols /\ curx - 1 < Cols
      BY <1>1, <2>1
    <3> QED BY <1>3, <2>1, <3>1 DEF Backspace
  <2>2. CASE ~ (curx > 0)
    BY <1>1, <2>2, LeadsNowhere DEF Backspace
  <2> QED BY <2>1, <2>2
<1>5. Leads(CarriageReturn, q)
  <2>1. 0 \in 0 .. Cols /\ 0 < Cols
    BY <1>1
  <2> QED BY <1>3, <2>1 DEF CarriageReturn
<1>6. ASSUME NEW x \in 0 .. Cols - 1, NEW y \in 0 .. Rows - 1
      PROVE  Leads(GotoXY(x, y), q)
  <2>1. x \in 0 .. Cols /\ x < Cols /\ y < Rows
    BY <1>1, Sizes
  <2>2. Runs(Do("cury", y), At(q, x), At(q, x))
    BY <1>2, <2>1, AssignmentsRun
  <2>3. Leads(Do("cury", y), At(q, x))
    BY <1>2, <2>1, <2>2 DEF Leads
  <2>4. Leads(Do("curx", x) \o Do("cury", y), q)
    BY <1>2, <2>1, <2>3, LeadsOn
  <2>5. GotoXY(x, y) = Do("curx", x) \o Do("cury", y)
    BY <2>1 DEF GotoXY
  <2> QED BY <2>4, <2>5
<1>7. ASSUME NEW p \in Pens
      PROVE  Leads(Do("pen", p), q)
  BY <1>1, AssignmentsRun DEF Leads
<1> QED
  BY <1>4, <1>5, <1>6, <1>7

LEMMA PutRunLeads ==
  ASSUME NEW q, Calling(q), q.curx = curx, curx < Cols, NEW s \in Seq(Glyphs),
         NEW x \in 0 .. Cols - 1, NEW y \in 0 .. Rows - 1
  PROVE  Leads(PutRun(s, x, y), q)
<1> DEFINE fits == IF x + Len(s) > Cols THEN SubSeq(s, 1, Cols - x) ELSE s
           m1 == Aimed(q, GlyphOf(x, y), q.a1, 0)
           m2 == Aimed(q, GlyphOf(x + Len(fits), y), q.a1, 0)
<1>1. /\ q \in Machines /\ pen \in Pens /\ Cols \in Nat /\ x \in 0 .. Cols /\ x < Cols
      /\ 0 \in {0, 1} /\ AtRest(q)
  BY Sizes DEF Calling, AtRest
<1>2. y < Rows
  BY Sizes
<1>3. fits \in Seq(Glyphs \cup {Space}) /\ x + Len(fits) <= Cols
  <2>1. s \in Seq(Glyphs \cup {Space}) /\ Len(s) \in Nat
    OBVIOUS
  <2>2. CASE x + Len(s) > Cols
    <3> DEFINE n == Cols - x
    <3>1. n \in Int /\ n \in Nat /\ \A i \in 1 .. n : s[i] \in Glyphs \cup {Space}
      BY <1>1, <2>1, <2>2
    <3>2. 1 \in Int /\ (1 <= n => n - 1 + 1 = n)
      BY <3>1
    <3>3. SubSeq(s, 1, n) \in Seq(Glyphs \cup {Space})
          /\ Len(SubSeq(s, 1, n)) = IF 1 <= n THEN n - 1 + 1 ELSE 0
      BY <3>1, <3>2, SubSeqProperties
    <3>4. fits = SubSeq(s, 1, n)
      BY <2>2
    <3> HIDE DEF fits, n
    <3>5. Len(fits) = n
      BY <3>1, <3>2, <3>3, <3>4
    <3> QED BY <1>1, <3>3, <3>4, <3>5 DEF n
  <2>3. CASE ~ (x + Len(s) > Cols)
    BY <1>1, <2>1, <2>3
  <2> QED BY <2>2, <2>3
<1> HIDE DEF fits
<1>4. q.a1 \in Addresses
  BY <1>1, MachineIs
<1>5. Runs(Address(0, 2 * x, y), q, m1)
  BY <1>1, CellAddressed
<1>6. Runs(WriteRun(fits, x, y), m1, m2) /\ m2 \in Machines
  BY <1>1, <1>3, <1>4, WriteRunRuns
<1>7. AtRest(m2)
  BY <1>1 DEF AtRest, Steady, Aimed
<1> HIDE DEF m1, m2
<1>8. Leads(WriteRun(fits, x, y), m1)
  BY <1>6, <1>7 DEF Leads
<1>9. Leads(Address(0, 2 * x, y) \o WriteRun(fits, x, y), q)
  BY <1>5, <1>8, LeadsOn
<1>10. PutRun(s, x, y) = Address(0, 2 * x, y) \o WriteRun(fits, x, y)
  <2>1. ~ (x >= Cols \/ y >= Rows)
    BY <1>1, <1>2, Sizes
  <2> QED BY <2>1 DEF PutRun, fits
<1> QED
  BY <1>9, <1>10

\* The whole map, the column beyond the screen included; the address wraps at its end.
LEMMA ClsLeads ==
  ASSUME NEW q, Calling(q)
  PROVE  Leads(Cls, q)
<1> DEFINE n == Rows * (Cols + 1)
           seqs == [i \in 1 .. n |-> Data(Space, 2 * (i - 1)) \o Data(pen, 2 * (i - 1) + 1)]
           a == [i \in 0 .. n |-> IF i = n THEN 0 ELSE 2 * i]
           M == [i \in 0 .. n |-> Aimed(q, a[i], q.a1, 0)]
           m == At(M[n], 0)
<1>1. q \in Machines /\ pen \in Pens /\ Steady(q) /\ 0 \in {0, 1}
  BY DEF Calling
<1>2. n \in Nat \ {0} /\ Addresses = 0 .. 2 * n - 1
  <2>1. Rows * RowBytes = 2 * n /\ n \in Nat
    BY Sizes
  <2>2. 2 * n # 0
    <3>1. 0 \in 0 .. Rows - 1 /\ RowBytes > 0
      BY Sizes
    <3>2. 0 * RowBytes + RowBytes <= Rows * RowBytes
      BY <3>1, Sizes
    <3> HIDE DEF n
    <3> QED BY <2>1, <3>1, <3>2, Sizes
  <2>3. n # 0
    <3> HIDE DEF n
    <3> QED BY <2>2
  <2> QED BY <2>1, <2>3 DEF Addresses
<1>3. q.a1 \in Addresses
  BY <1>1, MachineIs
<1> HIDE DEF n
<1>4. ASSUME NEW i \in 0 .. n
      PROVE  a[i] \in Addresses /\ M[i] \in Machines
  <2>1. a[i] \in Addresses
    BY <1>2
  <2> HIDE DEF a
  <2> QED BY <1>1, <1>3, <2>1, ChangedIs
<1>5. a[0] = 0 /\ a[n] = 0 /\ 0 \in 0 .. n /\ n \in 0 .. n
  BY <1>2
<1>6. ASSUME NEW i \in 1 .. n
      PROVE  Runs(seqs[i], M[i - 1], M[i])
  <2> DEFINE g == 2 * (i - 1)
             m1 == Aimed(q, g, q.a1, 0)
             m2 == Aimed(q, g + 1, q.a1, 0)
             m3 == Aimed(q, a[i], q.a1, 0)
  <2>1. g \in Addresses /\ g + 1 \in Addresses /\ Next1(g) = g + 1 /\ i - 1 \in 0 .. n
        /\ i \in 0 .. n
    BY <1>2 DEF Next1
  <2>2. Next1(g + 1) = a[i]
    <3>1. CASE i = n
      <4>1. (g + 1) + 1 \notin Addresses
        BY <1>2, <3>1
      <4> QED BY <1>2, <3>1, <4>1 DEF Next1
    <3>2. CASE i # n
      <4>1. (g + 1) + 1 = 2 * i /\ 2 * i \in Addresses
        BY <1>2, <3>2
      <4> QED BY <2>1, <3>2, <4>1 DEF Next1
    <3> QED BY <3>1, <3>2
  <2>3. ~ IsAttr(g) /\ IsAttr(g + 1)
    <3>1. i - 1 \in Nat
      OBVIOUS
    <3> QED BY <3>1, Parity
  <2>4. Space \in Fitting(g) /\ pen \in Fitting(g + 1)
    BY <1>1, <2>3 DEF Fitting
  <2>5. M[i - 1] = m1 /\ M[i] = m3 /\ seqs[i] = Data(Space, g) \o Data(pen, g + 1)
    BY <1>2, <2>1
  <2> HIDE DEF g, a, seqs, M
  <2>6. m1 \in Machines /\ m2 \in Machines
    BY <1>1, <1>3, <2>1, ChangedIs
  <2>7. Runs(Data(Space, g), m1, m2)
    <3>1. m1.a0 = g /\ Aimed(m1, Next1(g), m1.a1, m1.ctrl) = m2
      BY <2>1 DEF Aimed
    <3> HIDE DEF m1, m2
    <3> QED BY <2>1, <2>4, <2>6, <3>1, DataRuns
  <2>8. Runs(Data(pen, g + 1), m2, m3)
    <3>1. m2.a0 = g + 1 /\ Aimed(m2, Next1(g + 1), m2.a1, m2.ctrl) = m3
      BY <2>2 DEF Aimed
    <3> HIDE DEF m2, m3
    <3> QED BY <2>1, <2>4, <2>6, <3>1, DataRuns
  <2> HIDE DEF m1, m2, m3
  <2> QED BY <2>5, <2>7, <2>8, RunsCompose
<1>7. seqs = [i \in 1 .. n |-> seqs[i]]
  OBVIOUS
<1>8. M[0] = Aimed(q, 0, q.a1, 0) /\ M[n] = Aimed(q, 0, q.a1, 0)
  BY <1>5
<1>9. M[0] \in Machines /\ M[n] \in Machines
  <2> HIDE DEF M
  <2> QED BY <1>4, <1>5
<1>10. FlattenSeq(seqs) =
         Each(Rows * (Cols + 1), LAMBDA i : Data(Space, 2 * i) \o Data(pen, 2 * i + 1))
  BY DEF Each, n
<1> HIDE DEF seqs, M, a
<1>11. Runs(FlattenSeq(seqs), M[0], M[n])
  BY <1>2, <1>6, <1>7, <1>9, RoundsRun
<1>12. Runs(Address(0, 0, 0), q, M[0])
  <2>1. 0 * RowBytes + 0 = 0 /\ 0 \in 0 .. RowBytes - 1 /\ 0 \in 0 .. Rows - 1
    BY Sizes
  <2>2. Runs(Address(0, 0, 0), q, Aimed(q, 0 * RowBytes + 0, q.a1, 0))
    BY <1>1, <2>1, AddressRuns
  <2> QED BY <1>8, <2>1, <2>2
<1>13. Runs(Do("curx", 0), M[n], m) /\ m \in Machines /\ Runs(Do("cury", 0), m, m)
  <2>1. 0 \in 0 .. Cols /\ 0 \in 0 .. Rows - 1
    BY Sizes
  <2>2. Runs(Do("curx", 0), M[n], m) /\ m \in Machines
    BY <1>9, <2>1, AssignmentsRun, ChangedIs
  <2> HIDE DEF m
  <2> QED BY <2>1, <2>2, AssignmentsRun
<1>14. AtRest(m)
  BY <1>1, <1>8, Sizes DEF AtRest, Steady, At, Aimed
<1> HIDE DEF m
<1>15. Leads(Do("cury", 0), m)
  BY <1>13, <1>14 DEF Leads
<1>16. Runs(Address(0, 0, 0) \o FlattenSeq(seqs), q, M[n])
  BY <1>11, <1>12, RunsCompose
<1>17. Runs(Address(0, 0, 0) \o FlattenSeq(seqs) \o Do("curx", 0), q, m)
  BY <1>13, <1>16, RunsCompose
<1> QED
  BY <1>10, <1>15, <1>17, LeadsOn DEF Cls

\* ccur_on() while the cursor is off, or at any time where that is allowed, and ccur_off()
LEMMA CursorLeads ==
  ASSUME NEW q, Calling(q), q.curx = curx, curx < Cols
  PROVE  /\ ArmTwice \/ ~ armed => Leads(CursorOn, q)
         /\ Leads(CursorOff, q)
<1>1. q \in Machines /\ AtRest(q) /\ 0 \in {0, 1} /\ 1 \in {0, 1}
  BY DEF Calling, AtRest
<1>2. q.slot \in {0, 1} /\ q.armed \in {0, 1} /\ q.hid \in {0, 1}
  BY <1>1, MachineIs
<1>3. ASSUME ArmTwice \/ ~ armed
      PROVE  Leads(CursorOn, q)
  <2> DEFINE m == Slotted(q, 1)
             r == Armed(m, 1)
  <2>1. Runs(Do("slot", 1), q, m) /\ m \in Machines
    BY <1>1, <1>2, FlagsRun, ChangedIs DEF Slotted
  <2>2. m.hid = q.hid /\ m.slot = 1 /\ m.curx = q.curx
    BY DEF Slotted, Flagged
  <2>3. ArmTwice \/ m.hid = 1
    BY <1>2, <1>3, <2>2 DEF Calling, Steady
  <2> HIDE DEF m
  <2>4. Runs(Forget, m, m) /\ Runs(Do("armed", 1), m, r)
    BY <1>1, <2>1, <2>3, FlagsRun
  <2>5. r \in Machines
    BY <1>1, <2>1, <2>2, ChangedIs DEF Armed
  <2>6. AtRest(r)
    BY <2>2 DEF AtRest, Steady, Armed, Flagged
  <2> HIDE DEF r
  <2>7. Leads(Do("armed", 1), m)
    BY <2>4, <2>5, <2>6 DEF Leads
  <2>8. Runs(Do("slot", 1) \o Forget, q, m)
    BY <2>1, <2>4, RunsCompose
  <2> QED BY <2>7, <2>8, LeadsOn DEF CursorOn
<1>4. Leads(CursorOff, q)
  <2> DEFINE m == Suspended(q)
             r == Slotted(m, 0)
  <2>1. Runs(DisarmThenUndraw, q, m) /\ m \in Machines
    BY <1>1, SuspendRuns
  <2>2. m.armed = 0 /\ m.hid = 1 /\ m.curx = q.curx
    BY DEF Suspended, Flagged
  <2> HIDE DEF m
  <2>3. Runs(Do("slot", 0), m, r) /\ r \in Machines
    BY <1>1, <2>1, <2>2, FlagsRun, ChangedIs DEF Slotted
  <2>4. AtRest(r)
    BY <2>2 DEF AtRest, Steady, Slotted, Flagged
  <2> HIDE DEF r
  <2>5. Leads(Do("slot", 0), m)
    BY <2>3, <2>4 DEF Leads
  <2> QED BY <2>1, <2>5, LeadsOn DEF CursorOff
<1> QED
  BY <1>3, <1>4

-----------------------------------------------------------------------------
(* The invariant. *)

Bit(b) == IF b THEN 1 ELSE 0
Now(h) ==
  [a0 |-> addr[0], a1 |-> addr[1], ctrl |-> ctrl, curx |-> curx,
   slot |-> Bit(slot), armed |-> Bit(armed), hid |-> h]

\* What is left of the call leads from here to rest.  Only what the call knows counts:
\* it may not know that the cursor shows nothing.
OnCourse ==
  \E h \in {0, 1} : (h = 1 => ~ armed /\ ~ shown) /\ Leads(todo, Now(h))

Maps ==
  /\ vram = [a \in Addresses |-> vram[a]] /\ text = [a \in Addresses |-> text[a]]
  /\ slot \in BOOLEAN /\ armed \in BOOLEAN /\ shown \in BOOLEAN

CInv == TypeOK /\ Maps /\ OnCourse /\ Transparent /\ (ArmTwice \/ NoTrail)

\* What a cell may be given, and what the cursor may make of it
Shades == Pens \cup {Reversed(p) : p \in Pens}
Holds(a) == IF IsAttr(a) THEN Shades ELSE Glyphs \cup {Space}

LEMMA NowIsMachine ==
  ASSUME TypeOK, slot \in BOOLEAN, armed \in BOOLEAN, NEW h \in {0, 1}
  PROVE  Now(h) \in Machines
BY DEF TypeOK, Now, Bit, Machines

LEMMA InitInv == Init => CInv
<1> SUFFICES ASSUME Init PROVE CInv
  OBVIOUS
<1>1. \A a \in Addresses : vram[a] = (IF IsAttr(a) THEN AttrDefault ELSE Space) /\ text[a] = vram[a]
  BY DEF Init, Blank
<1>2. AttrDefault \in Pens /\ 0 \in Addresses /\ 0 \in 0 .. Cols /\ 0 \in 0 .. Rows - 1
      /\ 0 \in 0 .. Blink - 1 /\ 0 < Cols
  <2>1. 0 \in 0 .. Cols /\ 0 \in 0 .. Rows - 1 /\ 0 < Cols
    BY Sizes
  <2>2. GlyphOf(0, 0) \in Addresses /\ GlyphOf(0, 0) = 0
    <3>1. GlyphOf(0, 0) = 0 * RowBytes + 2 * 0
      BY DEF GlyphOf
    <3> QED BY <2>1, <3>1, CellPlaces, Sizes
  <2>3. AttrDefault \in Pens /\ 0 \in 0 .. Blink - 1
    BY ConsoleAssumption
  <2> QED BY <2>1, <2>2, <2>3
<1>3. TypeOK
  <2>1. addr \in [{0, 1} -> Addresses]
    BY <1>2 DEF Init
  <2>2. \A a \in Addresses : vram[a] \in (IF IsAttr(a) THEN Pens \cup {Reversed(p) : p \in Pens}
                                          ELSE Glyphs \cup {Space})
    BY <1>1, <1>2
  <2> QED BY <1>2, <2>1, <2>2 DEF Init, TypeOK
<1>4. Maps
  BY DEF Init, Maps, Blank
<1>5. Transparent /\ NoTrail
  BY <1>1, <1>2 DEF Transparent, NoTrail
<1>6. OnCourse
  <2>1. Now(1) \in Machines
    BY <1>3, <1>4, NowIsMachine DEF Maps
  <2>2. AtRest(Now(1))
    BY <1>2 DEF Init, AtRest, Steady, Now, Bit
  <2>3. Leads(<<>>, Now(1))
    BY <2>1, <2>2, LeadsNowhere
  <2> QED BY <2>3 DEF OnCourse, Init
<1> QED
  BY <1>3, <1>4, <1>5, <1>6 DEF CInv

\* Between calls the machine is at rest.
LEMMA IdleIsCalling ==
  ASSUME CInv, Idle
  PROVE  /\ curx < Cols /\ (slot <=> armed) /\ (~ armed => ~ shown)
         /\ \E h \in {0, 1} : (h = 1 => ~ armed /\ ~ shown) /\ Calling(Now(h)) /\ Now(h).curx = curx
<1>1. PICK h \in {0, 1} : (h = 1 => ~ armed /\ ~ shown) /\ Leads(todo, Now(h))
  BY DEF CInv, OnCourse
<1>2. Leads(<<>>, Now(h))
  BY <1>1 DEF Idle
<1>3. AtRest(Now(h)) /\ Now(h) \in Machines
  BY <1>2, NothingChanges DEF Leads
<1>4. Now(h).curx = curx /\ Now(h).slot = Bit(slot) /\ Now(h).armed = Bit(armed) /\ Now(h).hid = h
  BY DEF Now
<1>5. curx < Cols /\ Bit(slot) = Bit(armed) /\ (Bit(armed) = 1 \/ h = 1)
  BY <1>3, <1>4 DEF AtRest, Steady
<1>6. slot \in BOOLEAN /\ armed \in BOOLEAN
  BY DEF CInv, Maps
<1>7. (slot <=> armed) /\ (armed <=> Bit(armed) = 1)
  BY <1>5, <1>6 DEF Bit
<1>8. Calling(Now(h))
  <2>1. pen \in Pens /\ cury \in 0 .. Rows - 1
    BY DEF CInv, TypeOK
  <2> QED BY <1>3, <1>4, <1>7, <2>1 DEF Calling, AtRest
<1> QED
  BY <1>1, <1>4, <1>5, <1>7, <1>8

\* A call that has a course when it is made
LEMMA CallInv ==
  ASSUME CInv, NEW name, NEW steps, Call(name, steps),
         \A q : Calling(q) /\ q.curx = curx /\ curx < Cols => Leads(steps, q)
  PROVE  CInv'
<1>1. Idle /\ todo' = steps /\ UNCHANGED <<vera, place, cursor, text>>
  BY DEF Call
<1>2. PICK h \in {0, 1} : (h = 1 => ~ armed /\ ~ shown) /\ Calling(Now(h)) /\ Now(h).curx = curx
  BY <1>1, IdleIsCalling
<1>3. Leads(steps, Now(h))
  BY <1>1, <1>2, IdleIsCalling
<1>4. /\ UNCHANGED <<vram, addr, ctrl, curx, cury, pen, text>>
      /\ UNCHANGED <<slot, armed, shown, tick, lastx, lasty>>
  BY <1>1 DEF vera, place, cursor
<1>5. Now(h)' = Now(h)
  BY <1>4 DEF Now, Bit
<1>6. OnCourse'
  <2>1. Leads(todo', Now(h)')
    BY <1>1, <1>3, <1>5
  <2> QED BY <1>2, <1>4, <2>1 DEF OnCourse
<1>7. TypeOK' /\ Maps' /\ Transparent' /\ (ArmTwice \/ NoTrail')
  BY <1>4 DEF CInv, TypeOK, Maps, Transparent, NoTrail, Here
<1> QED
  BY <1>6, <1>7 DEF CInv

\* Where the cursor would draw is an attribute.
LEMMA HereIsAttr ==
  ASSUME TypeOK
  PROVE  IsAttr(Here) /\ AttrOf(curx, cury) \in Addresses /\ IsAttr(AttrOf(curx, cury))
<1>1. lastx \in Nat /\ lasty \in Nat
  BY Sizes DEF TypeOK, NoColumn
<1>2. lasty * RowBytes = 2 * (lasty * (Cols + 1)) /\ lasty * (Cols + 1) \in Nat
  BY <1>1, Sizes
<1> DEFINE k == lasty * (Cols + 1)
<1>3. Here = 2 * (k + lastx) + 1 /\ k + lastx \in Nat
  <2>1. Here = lasty * RowBytes + 2 * lastx + 1
    BY DEF Here, AttrOf, GlyphOf
  <2> HIDE DEF k
  <2>2. Here = 2 * k + 2 * lastx + 1 /\ k \in Nat
    BY <1>2, <2>1 DEF k
  <2> QED BY <1>1, <2>2
<1>4. IsAttr(Here)
  BY <1>3, Parity
<1> QED
  BY <1>4, CellPlaces DEF TypeOK

\* One access, with the machine it is made on
LEMMA StepGoesOn ==
  ASSUME CInv, Step
  PROVE  \E st \in Accesses, h \in {0, 1} :
           /\ (h = 1 => ~ armed /\ ~ shown) /\ Fits(Now(h), st) /\ st = Head(todo)
           /\ Leads(Tail(todo), After(Now(h), st))
<1>1. PICK h \in {0, 1} : (h = 1 => ~ armed /\ ~ shown) /\ Leads(todo, Now(h))
  BY DEF CInv, OnCourse
<1>2. PICK r \in Machines : AtRest(r) /\ Runs(todo, Now(h), r)
  BY <1>1 DEF Leads
<1>3. todo # <<>>
  BY DEF Step, Idle
<1>4. Head(todo) \in Accesses /\ Fits(Now(h), Head(todo))
      /\ Runs(Tail(todo), After(Now(h), Head(todo)), r)
  BY <1>2, <1>3, RunsOn
<1> QED
  BY <1>1, <1>2, <1>4 DEF Leads

\* The machine of the next moment is the one the access makes of this one.
LEMMA StepKeepsCourse ==
  ASSUME CInv, Step
  PROVE  OnCourse' /\ slot' \in BOOLEAN /\ armed' \in BOOLEAN /\ shown' \in BOOLEAN
<1>1. PICK st \in Accesses, h \in {0, 1} :
        /\ (h = 1 => ~ armed /\ ~ shown) /\ Fits(Now(h), st) /\ st = Head(todo)
        /\ Leads(Tail(todo), After(Now(h), st))
  BY StepGoesOn
<1> DEFINE m == After(Now(h), st)
<1>2. /\ Registers(st) /\ curx' = Assigned(st, "curx", curx)
      /\ slot' = Flag(st, "slot", slot) /\ armed' = Flag(st, "armed", armed)
      /\ shown' = IF st.do = "hide" THEN FALSE ELSE Flag(st, "shown", shown)
      /\ todo' = Tail(todo)
  BY <1>1 DEF Step
<1>3. /\ addr \in [{0, 1} -> Addresses] /\ ctrl \in {0, 1}
      /\ slot \in BOOLEAN /\ armed \in BOOLEAN /\ shown \in BOOLEAN
  BY DEF CInv, TypeOK, Maps
<1>4. /\ st.do \in {"ctrl", "slot", "armed"} => st.v \in {0, 1}
      /\ st.do = "shown" => st.v = 0
  BY DEF Accesses, Settings, Stores, Copies
<1>5. slot' \in BOOLEAN /\ armed' \in BOOLEAN /\ shown' \in BOOLEAN
  BY <1>2, <1>3 DEF Flag
<1>6. m.slot = Bit(slot')
  BY <1>2, <1>3, <1>4 DEF After, Now, Assigned, Flag, Bit
<1>7. m.armed = Bit(armed')
  BY <1>2, <1>3, <1>4 DEF After, Now, Assigned, Flag, Bit
<1>8. m.ctrl = ctrl' /\ m.curx = curx'
  BY <1>2 DEF After, Now, Assigned, Registers
<1>9. m.a0 = addr'[0] /\ m.a1 = addr'[1]
  <2>1. /\ Now(h).a0 = addr[0] /\ Now(h).a1 = addr[1] /\ Now(h).ctrl = ctrl
    BY DEF Now
  <2>2. addr' = CASE st.do = "low"   -> [addr EXCEPT ![ctrl] = LowSet(@, st.v)]
                  [] st.do = "row"   -> [addr EXCEPT ![ctrl] = RowSet(@, st.v)]
                  [] st.do = "data0" -> [addr EXCEPT ![0] = Next1(@)]
                  [] st.do = "copy"  -> [port \in {0, 1} |-> Next1(addr[port])]
                  [] OTHER           -> addr
    BY <1>2 DEF Registers
  <2>3. CASE st.do = "low"
    <3>1. addr' = [addr EXCEPT ![ctrl] = LowSet(addr[ctrl], st.v)]
      BY <2>2, <2>3
    <3> QED BY <1>3, <2>1, <2>3, <3>1 DEF After
  <2>4. CASE st.do = "row"
    <3>1. addr' = [addr EXCEPT ![ctrl] = RowSet(addr[ctrl], st.v)]
      BY <2>2, <2>4
    <3> QED BY <1>3, <2>1, <2>4, <3>1 DEF After
  <2>5. CASE st.do = "data0"
    <3>1. addr' = [addr EXCEPT ![0] = Next1(addr[0])]
      BY <2>2, <2>5
    <3> QED BY <1>3, <2>1, <2>5, <3>1 DEF After
  <2>6. CASE st.do = "copy"
    <3>1. addr' = [port \in {0, 1} |-> Next1(addr[port])]
      BY <2>2, <2>6
    <3> QED BY <1>3, <2>1, <2>6, <3>1 DEF After
  <2>7. CASE st.do \notin {"low", "row", "data0", "copy"}
    <3>1. addr' = addr
      BY <2>2, <2>7
    <3> QED BY <2>1, <2>7, <3>1 DEF After
  <2> QED BY <2>3, <2>4, <2>5, <2>6, <2>7
<1>10. m.hid \in {0, 1} /\ (m.hid = 1 => ~ armed' /\ ~ shown')
  <2>1. Now(h).hid = h /\ Now(h).armed = Bit(armed)
    BY DEF Now
  <2>2. CASE st.do = "hide"
    <3>1. Bit(armed) = 0
      BY <1>1, <2>1, <2>2 DEF Fits
    <3>2. ~ armed
      BY <1>3, <3>1 DEF Bit
    <3>3. ~ armed' /\ ~ shown'
      BY <1>2, <2>2, <3>2 DEF Flag
    <3>4. m.hid = 1
      BY <2>2 DEF After
    <3> QED BY <3>3, <3>4
  <2>3. CASE st.do = "armed"
    <3>1. m.hid = 0
      BY <2>3 DEF After
    <3> QED BY <3>1
  <2>4. CASE st.do \notin {"hide", "armed"}
    <3>1. m.hid = h
      BY <2>1, <2>4 DEF After
    <3>2. h = 1 => ~ armed' /\ ~ shown'
      <4>1. armed' = armed
        BY <1>2, <2>4 DEF Flag
      <4>2. ~ shown => ~ shown'
        <5>1. shown' = Flag(st, "shown", shown)
          BY <1>2, <2>4
        <5>2. CASE st.do = "shown"
          <6>1. shown' = (st.v = 1) /\ ~ (st.v = 1)
            BY <1>4, <5>1, <5>2 DEF Flag
          <6> QED BY <6>1
        <5>3. CASE st.do # "shown"
          BY <5>1, <5>3 DEF Flag
        <5> QED BY <5>2, <5>3
      <4> QED BY <1>1, <4>1, <4>2
    <3> QED BY <3>1, <3>2
  <2> QED BY <2>2, <2>3, <2>4
<1>11. m = [a0 |-> m.a0, a1 |-> m.a1, ctrl |-> m.ctrl, curx |-> m.curx,
            slot |-> m.slot, armed |-> m.armed, hid |-> m.hid]
  BY DEF After
<1> HIDE DEF m
<1>12. PICK h2 : h2 = m.hid
  OBVIOUS
<1>13. m = [a0 |-> addr'[0], a1 |-> addr'[1], ctrl |-> ctrl', curx |-> curx',
            slot |-> Bit(slot'), armed |-> Bit(armed'), hid |-> h2]
  BY <1>6, <1>7, <1>8, <1>9, <1>11, <1>12
<1>14. Leads(todo', [a0 |-> addr'[0], a1 |-> addr'[1], ctrl |-> ctrl', curx |-> curx',
                     slot |-> Bit(slot'), armed |-> Bit(armed'), hid |-> h2])
  BY <1>1, <1>2, <1>13 DEF m
<1>15. OnCourse'
  <2>1. \E g \in {0, 1} :
          /\ g = 1 => ~ armed' /\ ~ shown'
          /\ Leads(todo', [a0 |-> addr'[0], a1 |-> addr'[1], ctrl |-> ctrl', curx |-> curx',
                           slot |-> Bit(slot'), armed |-> Bit(armed'), hid |-> g])
    BY <1>10, <1>12, <1>14
  <2> QED BY <2>1 DEF OnCourse, Now, Bit
<1> QED
  BY <1>5, <1>15

\* What an access stores, where, and what the history stores beside it
LEMMA StepStores ==
  ASSUME CInv, Step
  PROVE  /\ Maps' /\ (\A a \in Addresses : vram'[a] \in Holds(a)) /\ Transparent'
         /\ ArmTwice \/ NoTrail'
<1>1. PICK st \in Accesses, h \in {0, 1} :
        /\ (h = 1 => ~ armed /\ ~ shown) /\ Fits(Now(h), st) /\ st = Head(todo)
  BY StepGoesOn
<1>2. /\ Screen(st) /\ Intended(st)
      /\ shown' = IF st.do = "hide" THEN FALSE ELSE Flag(st, "shown", shown)
      /\ lastx' = Assigned(st, "lastx", lastx) /\ lasty' = lasty
  BY <1>1 DEF Step
<1>3. /\ vram = [a \in Addresses |-> vram[a]] /\ text = [a \in Addresses |-> text[a]]
      /\ \A a \in Addresses : vram[a] \in Holds(a)
      /\ \A a \in Addresses : IsAttr(a) \/ vram[a] = text[a]
      /\ addr[0] \in Addresses /\ addr[1] \in Addresses /\ pen \in Pens
  BY DEF CInv, Maps, TypeOK, Holds, Shades, Transparent
<1>4. ArmTwice \/ \A a \in Addresses : IsAttr(a) /\ vram[a] \notin Pens => shown /\ a = Here
  BY DEF CInv, NoTrail
<1>5. slot' \in BOOLEAN /\ armed' \in BOOLEAN /\ shown' \in BOOLEAN
  BY StepKeepsCourse
<1>6. Now(h).a0 = addr[0] /\ Now(h).a1 = addr[1] /\ Now(h).hid = h
  BY DEF Now
<1>7. /\ vram' = CASE st.do = "data0" -> [vram EXCEPT ![addr[0]] = st.v]
                   [] st.do = "copy"  -> [vram EXCEPT ![addr[1]] = vram[addr[0]]]
                   [] st.do = "hide" /\ shown -> [vram EXCEPT ![AttrOf(lastx, lasty)] = pen]
                   [] OTHER           -> vram
      /\ text' = CASE st.do = "data0" -> [text EXCEPT ![st.at] = st.v]
                   [] st.do = "copy"  -> [text EXCEPT ![st.to] = text[st.from]]
                   [] OTHER           -> text
  BY <1>2 DEF Screen, Intended
<1>8. CASE st.do = "data0"
  <2> DEFINE b == addr[0]
  <2>1. st.at = b /\ st.v \in Fitting(b)
    <3>1. st \in Stores
      BY <1>8 DEF Accesses, Settings, Copies
    <3>2. st.at = b
      BY <1>1, <1>6, <1>8 DEF Fits
    <3> QED BY <3>1, <3>2 DEF Stores
  <2>2. vram' = [vram EXCEPT ![b] = st.v] /\ text' = [text EXCEPT ![b] = st.v]
    BY <1>7, <1>8, <2>1
  <2> HIDE DEF b
  <2>3. \A a \in Addresses : vram'[a] = (IF a = b THEN st.v ELSE vram[a])
                             /\ text'[a] = (IF a = b THEN st.v ELSE text[a])
    BY <1>3, <2>2
  <2>4. vram' = [a \in Addresses |-> vram'[a]] /\ text' = [a \in Addresses |-> text'[a]]
    BY <1>3, <2>2
  <2>5. \A a \in Addresses : vram'[a] \in Holds(a)
    BY <1>3, <2>1, <2>3 DEF Fitting, Holds, Shades
  <2>6. Transparent'
    BY <1>3, <2>3 DEF Transparent
  <2>7. ArmTwice \/ NoTrail'
    <3>1. lastx' = lastx /\ lasty' = lasty /\ shown' = shown
      BY <1>2, <1>8 DEF Assigned, Flag
    <3>2. Here' = Here
      BY <3>1 DEF Here, AttrOf, GlyphOf
    <3>3. IsAttr(b) => st.v \in Pens
      BY <2>1 DEF Fitting
    <3>4. \A a \in Addresses : IsAttr(a) /\ vram'[a] \notin Pens => vram'[a] = vram[a]
      BY <2>3, <3>3
    <3> QED BY <1>4, <3>1, <3>2, <3>4 DEF NoTrail
  <2> QED BY <1>5, <2>4, <2>5, <2>6, <2>7 DEF Maps
<1>9. CASE st.do = "copy"
  <2> DEFINE b == addr[0]
             c == addr[1]
  <2>1. st.from = b /\ st.to = c /\ (IsAttr(b) <=> IsAttr(c)) /\ ~ shown
    <3>1. st \in Copies
      BY <1>9 DEF Accesses, Settings, Stores
    <3>2. st.from = b /\ st.to = c /\ h = 1
      BY <1>1, <1>6, <1>9 DEF Fits
    <3>3. ~ shown
      BY <1>1, <3>2
    <3> QED BY <3>1, <3>2, <3>3 DEF Copies
  <2>2. vram' = [vram EXCEPT ![c] = vram[b]] /\ text' = [text EXCEPT ![c] = text[b]]
    BY <1>7, <1>9, <2>1
  <2>3. b \in Addresses /\ c \in Addresses
    BY <1>3
  <2> HIDE DEF b, c
  <2>4. \A a \in Addresses : vram'[a] = (IF a = c THEN vram[b] ELSE vram[a])
                             /\ text'[a] = (IF a = c THEN text[b] ELSE text[a])
    BY <1>3, <2>2
  <2>5. vram' = [a \in Addresses |-> vram'[a]] /\ text' = [a \in Addresses |-> text'[a]]
    BY <1>3, <2>2
  <2>6. \A a \in Addresses : vram'[a] \in Holds(a)
    <3>1. vram[b] \in Holds(c)
      BY <1>3, <2>1, <2>3 DEF Holds
    <3> QED BY <1>3, <2>4, <3>1
  <2>7. Transparent'
    BY <1>3, <2>1, <2>3, <2>4 DEF Transparent
  <2>8. ArmTwice \/ NoTrail'
    <3>1. ArmTwice \/ \A a \in Addresses : IsAttr(a) => vram[a] \in Pens
      BY <1>4, <2>1
    <3>2. ArmTwice \/ \A a \in Addresses : IsAttr(a) => vram'[a] \in Pens
      BY <2>1, <2>3, <2>4, <3>1
    <3> QED BY <3>2 DEF NoTrail
  <2> QED BY <1>5, <2>5, <2>6, <2>7, <2>8 DEF Maps
<1>10. CASE st.do = "hide" /\ shown
  <2> DEFINE b == AttrOf(lastx, lasty)
  <2>1. IsAttr(b) /\ b = Here
    BY HereIsAttr DEF CInv, Here
  <2>2. vram' = [vram EXCEPT ![b] = pen] /\ text' = text
    BY <1>7, <1>10
  <2> HIDE DEF b
  <2>3. \A a \in Addresses : vram'[a] = (IF a = b THEN pen ELSE vram[a]) /\ text'[a] = text[a]
    BY <1>3, <2>2
  <2>4. vram' = [a \in Addresses |-> vram'[a]] /\ text' = [a \in Addresses |-> text'[a]]
    BY <1>3, <2>2
  <2>5. \A a \in Addresses : vram'[a] \in Holds(a)
    BY <1>3, <2>1, <2>3 DEF Holds, Shades
  <2>6. Transparent'
    BY <1>3, <2>1, <2>3 DEF Transparent
  <2>7. ArmTwice \/ NoTrail'
    <3>1. ArmTwice \/ \A a \in Addresses : IsAttr(a) => vram'[a] \in Pens
      BY <1>3, <1>4, <2>1, <2>3
    <3> QED BY <3>1 DEF NoTrail
  <2> QED BY <1>5, <2>4, <2>5, <2>6, <2>7 DEF Maps
<1>11. CASE st.do \notin {"data0", "copy"} /\ ~ (st.do = "hide" /\ shown)
  <2>1. vram' = vram /\ text' = text
    BY <1>7, <1>11
  <2>2. ArmTwice \/ NoTrail'
    <3>1. CASE ArmTwice
      BY <3>1
    <3>2. CASE ~ ArmTwice /\ (st.do \in {"shown", "lastx"} \/ ~ shown)
      <4>1. ~ shown
        <5>1. st.do \in {"shown", "lastx"} => h = 1
          BY <1>1, <1>6, <3>2 DEF Fits
        <5> QED BY <1>1, <3>2, <5>1
      <4>2. \A a \in Addresses : IsAttr(a) => vram'[a] \in Pens
        BY <1>4, <2>1, <3>2, <4>1
      <4> QED BY <4>2 DEF NoTrail
    <3>3. CASE st.do \notin {"shown", "lastx"} /\ shown
      <4>1. lastx' = lastx /\ lasty' = lasty /\ shown' = shown
        BY <1>2, <1>11, <3>3 DEF Assigned, Flag
      <4>2. Here' = Here
        BY <4>1 DEF Here, AttrOf, GlyphOf
      <4> QED BY <1>4, <2>1, <4>1, <4>2 DEF NoTrail
    <3> QED BY <3>1, <3>2, <3>3
  <2>3. Transparent'
    BY <1>3, <2>1 DEF Transparent
  <2> QED BY <1>3, <1>5, <2>1, <2>2, <2>3 DEF Maps
<1> QED
  BY <1>8, <1>9, <1>10, <1>11

\* Registers and variables keep their ranges.
LEMMA StepTypes ==
  ASSUME CInv, Step
  PROVE  TypeOK'
<1>1. PICK st \in Accesses, h \in {0, 1} :
        Fits(Now(h), st) /\ st = Head(todo) /\ Leads(Tail(todo), After(Now(h), st))
  BY StepGoesOn
<1>2. /\ Registers(st) /\ curx' = Assigned(st, "curx", curx)
      /\ cury' = Assigned(st, "cury", cury) /\ pen' = Assigned(st, "pen", pen)
      /\ tick' = Assigned(st, "tick", tick) /\ lastx' = Assigned(st, "lastx", lastx)
      /\ lasty' = lasty
  BY <1>1 DEF Step
<1>3. /\ addr \in [{0, 1} -> Addresses] /\ ctrl \in {0, 1}
      /\ curx \in 0 .. Cols /\ cury \in 0 .. (Rows - 1) /\ pen \in Pens
      /\ lastx \in (0 .. Cols) \cup {NoColumn} /\ lasty \in 0 .. (Rows - 1)
      /\ tick \in 0 .. (Blink - 1)
  BY DEF CInv, TypeOK
<1>4. /\ st.do = "ctrl" => st.v \in {0, 1}
      /\ st.do = "low" => st.v \in 0 .. RowBytes - 1
      /\ st.do = "row" => st.v \in 0 .. Rows - 1
      /\ st.do = "cury" => st.v \in 0 .. Rows - 1
      /\ st.do = "curx" => st.v \in 0 .. Cols
      /\ st.do = "pen" => st.v \in Pens
      /\ st.do = "tick" => st.v = 0
      /\ st.do = "lastx" => st.v = NoColumn
  BY DEF Accesses, Settings, Stores, Copies
<1>5. \A a \in Addresses : Next1(a) \in Addresses
  BY Sizes, CellPlaces DEF Next1, Addresses
<1>6. addr' \in [{0, 1} -> Addresses]
  <2>1. addr' = CASE st.do = "low"   -> [addr EXCEPT ![ctrl] = LowSet(@, st.v)]
                  [] st.do = "row"   -> [addr EXCEPT ![ctrl] = RowSet(@, st.v)]
                  [] st.do = "data0" -> [addr EXCEPT ![0] = Next1(@)]
                  [] st.do = "copy"  -> [port \in {0, 1} |-> Next1(addr[port])]
                  [] OTHER           -> addr
    BY <1>2 DEF Registers
  <2>2. CASE st.do = "low"
    <3>1. 0 \in 0 .. Rows - 1
      BY Sizes
    <3>2. LowSet(addr[ctrl], st.v) \in Addresses
      BY <1>3, <1>4, <2>2, <3>1, AddressesSet
    <3>3. addr' = [addr EXCEPT ![ctrl] = LowSet(addr[ctrl], st.v)]
      BY <2>1, <2>2
    <3> QED BY <1>3, <3>2, <3>3
  <2>3. CASE st.do = "row"
    <3>1. 0 \in 0 .. RowBytes - 1
      BY Sizes
    <3>2. RowSet(addr[ctrl], st.v) \in Addresses
      BY <1>3, <1>4, <2>3, <3>1, AddressesSet
    <3>3. addr' = [addr EXCEPT ![ctrl] = RowSet(addr[ctrl], st.v)]
      BY <2>1, <2>3
    <3> QED BY <1>3, <3>2, <3>3
  <2>4. CASE st.do = "data0"
    <3>1. addr' = [addr EXCEPT ![0] = Next1(addr[0])]
      BY <2>1, <2>4
    <3> QED BY <1>3, <1>5, <3>1
  <2>5. CASE st.do = "copy"
    <3>1. addr' = [port \in {0, 1} |-> Next1(addr[port])]
      BY <2>1, <2>5
    <3> QED BY <1>3, <1>5, <3>1
  <2>6. CASE st.do \notin {"low", "row", "data0", "copy"}
    <3>1. addr' = addr
      BY <2>1, <2>6
    <3> QED BY <1>3, <3>1
  <2> QED BY <2>2, <2>3, <2>4, <2>5, <2>6
<1>7. ctrl' \in {0, 1} /\ curx' \in 0 .. Cols /\ cury' \in 0 .. (Rows - 1) /\ pen' \in Pens
  BY <1>2, <1>3, <1>4 DEF Registers, Assigned
<1>8. /\ lastx' \in (0 .. Cols) \cup {NoColumn} /\ lasty' \in 0 .. (Rows - 1)
      /\ tick' \in 0 .. (Blink - 1)
  <2>1. 0 \in 0 .. (Blink - 1)
    BY ConsoleAssumption
  <2> QED BY <1>2, <1>3, <1>4, <2>1 DEF Assigned
<1>9. \A a \in Addresses : vram'[a] \in (IF IsAttr(a) THEN Pens \cup {Reversed(p) : p \in Pens}
                                         ELSE Glyphs \cup {Space})
  BY StepStores DEF Holds, Shades
<1> QED
  BY <1>6, <1>7, <1>8, <1>9 DEF TypeOK

LEMMA StepInv == CInv /\ Step => CInv'
BY StepTypes, StepKeepsCourse, StepStores DEF CInv

\* The interrupt draws with the handler armed, so no call counts on the screen being
\* clear; and it leaves the registers as they were.
LEMMA VsyncKeepsCourse ==
  ASSUME CInv, Vsync
  PROVE  OnCourse' /\ UNCHANGED <<addr, ctrl, curx, cury, pen, todo, slot, armed, text>> /\ armed
<1>1. UNCHANGED <<addr, ctrl, curx, cury, pen, todo, slot, armed, text>> /\ armed
  BY DEF Vsync, Follow, Wait, Toggle, Put, place, vera
<1>2. PICK h \in {0, 1} : (h = 1 => ~ armed /\ ~ shown) /\ Leads(todo, Now(h))
  BY DEF CInv, OnCourse
<1>3. h # 1
  BY <1>1, <1>2
<1>4. Now(h)' = Now(h)
  BY <1>1 DEF Now, Bit
<1>5. Leads(todo', Now(h)')
  BY <1>1, <1>2, <1>4
<1>6. OnCourse'
  BY <1>3, <1>5 DEF OnCourse
<1> QED
  BY <1>1, <1>6

\* Drawing at an attribute, in a shade, shows nothing at the glyphs.
LEMMA DrawnIs ==
  ASSUME NEW screen, screen = [a \in Addresses |-> screen[a]],
         NEW b, IsAttr(b), NEW v \in Shades, \A a \in Addresses : screen[a] \in Holds(a)
  PROVE  LET s == Drawn(screen, b, v)
         IN  /\ s = [a \in Addresses |-> s[a]]
             /\ \A a \in Addresses : s[a] = (IF a = b THEN v ELSE screen[a]) /\ s[a] \in Holds(a)
<1> DEFINE s == Drawn(screen, b, v)
<1>1. s = [screen EXCEPT ![b] = v]
  BY DEF Drawn
<1> HIDE DEF s
<1>2. \A a \in Addresses : s[a] = IF a = b THEN v ELSE screen[a]
  BY <1>1
<1>3. s = [a \in Addresses |-> s[a]]
  BY <1>1
<1>4. \A a \in Addresses : s[a] \in Holds(a)
  BY <1>2 DEF Holds
<1> QED
  BY <1>2, <1>3, <1>4 DEF s

LEMMA VsyncInv ==
  ASSUME CInv, Vsync
  PROVE  CInv'
<1>1. OnCourse' /\ UNCHANGED <<addr, ctrl, curx, cury, pen, todo, slot, armed, text>> /\ armed
  BY VsyncKeepsCourse
<1>2. /\ vram = [a \in Addresses |-> vram[a]] /\ text = [a \in Addresses |-> text[a]]
      /\ \A a \in Addresses : vram[a] \in Holds(a)
      /\ \A a \in Addresses : IsAttr(a) \/ vram[a] = text[a]
      /\ pen \in Pens /\ pen \in Shades /\ Reversed(pen) \in Shades
      /\ slot \in BOOLEAN /\ armed \in BOOLEAN /\ shown \in BOOLEAN
  BY DEF CInv, Maps, TypeOK, Holds, Shades, Transparent
<1>3. ArmTwice \/ \A a \in Addresses : IsAttr(a) /\ vram[a] \notin Pens => shown /\ a = Here
  BY DEF CInv, NoTrail
<1>4. IsAttr(Here) /\ AttrOf(curx, cury) \in Addresses /\ IsAttr(AttrOf(curx, cury))
  BY HereIsAttr DEF CInv
<1>5. /\ curx \in 0 .. Cols /\ cury \in 0 .. (Rows - 1) /\ tick \in 0 .. (Blink - 1)
      /\ lastx \in (0 .. Cols) \cup {NoColumn} /\ lasty \in 0 .. (Rows - 1)
      /\ addr \in [{0, 1} -> Addresses] /\ ctrl \in {0, 1}
  BY DEF CInv, TypeOK
<1>6. Blink \in Nat \ {0}
  BY ConsoleAssumption
<1>7. ASSUME vram' = [a \in Addresses |-> vram'[a]], \A a \in Addresses : vram'[a] \in Holds(a),
             \A a \in Addresses : ~ IsAttr(a) => vram'[a] = vram[a],
             shown' \in BOOLEAN, tick' \in 0 .. (Blink - 1),
             lastx' \in (0 .. Cols) \cup {NoColumn}, lasty' \in 0 .. (Rows - 1),
             ArmTwice \/ NoTrail'
      PROVE  CInv'
  <2>1. TypeOK'
    BY <1>1, <1>2, <1>5, <1>7 DEF TypeOK, Holds, Shades
  <2>2. Maps'
    BY <1>1, <1>2, <1>7 DEF Maps
  <2>3. Transparent'
    BY <1>1, <1>2, <1>7 DEF Transparent
  <2> QED BY <1>1, <1>7, <2>1, <2>2, <2>3 DEF CInv
<1>8. CASE Follow
  <2> DEFINE old == OldCellUndrawn
             b == AttrOf(curx, cury)
  <2>1. /\ vram' = Drawn(old, b, Reversed(pen)) /\ lastx' = curx /\ lasty' = cury
        /\ shown' = TRUE /\ tick' = 0
    BY <1>8 DEF Follow, Put
  <2>2. /\ old = [a \in Addresses |-> old[a]]
        /\ \A a \in Addresses : old[a] \in Holds(a)
        /\ \A a \in Addresses : old[a] = IF shown /\ a = Here THEN pen ELSE vram[a]
    <3>1. CASE shown
      <4>1. old = Drawn(vram, Here, pen)
        BY <3>1 DEF OldCellUndrawn
      <4> HIDE DEF old
      <4> QED BY <1>2, <1>4, <3>1, <4>1, DrawnIs
    <3>2. CASE ~ shown
      <4>1. old = vram
        BY <3>2 DEF OldCellUndrawn
      <4> HIDE DEF old
      <4> QED BY <1>2, <3>2, <4>1
    <3> QED BY <3>1, <3>2
  <2>3. ArmTwice \/ \A a \in Addresses : IsAttr(a) => old[a] \in Pens
    <3> HIDE DEF old
    <3> QED BY <1>2, <1>3, <2>2
  <2> HIDE DEF old, b
  <2>4. /\ vram' = [a \in Addresses |-> vram'[a]]
        /\ \A a \in Addresses : vram'[a] = (IF a = b THEN Reversed(pen) ELSE old[a])
                                /\ vram'[a] \in Holds(a)
    BY <1>2, <1>4, <2>1, <2>2, DrawnIs DEF b
  <2>5. \A a \in Addresses : ~ IsAttr(a) => vram'[a] = vram[a]
    BY <1>4, <2>2, <2>4 DEF b
  <2>6. ArmTwice \/ NoTrail'
    <3>1. Here' = b
      BY <1>1, <2>1 DEF Here, AttrOf, GlyphOf, b
    <3> QED BY <2>1, <2>3, <2>4, <3>1 DEF NoTrail
  <2>7. lastx' \in (0 .. Cols) \cup {NoColumn} /\ lasty' \in 0 .. (Rows - 1)
        /\ shown' \in BOOLEAN /\ tick' \in 0 .. (Blink - 1)
    BY <1>5, <1>6, <2>1
  <2> QED BY <1>7, <2>4, <2>5, <2>6, <2>7
<1>9. CASE Wait
  <2>1. vram' = vram /\ shown' = shown /\ lastx' = lastx /\ lasty' = lasty
        /\ tick' = NextTick
    BY <1>9 DEF Wait, vera
  <2>2. tick' \in 0 .. (Blink - 1)
    BY <1>5, <1>6, <2>1 DEF NextTick
  <2>3. ArmTwice \/ NoTrail'
    <3>1. Here' = Here
      BY <2>1 DEF Here, AttrOf, GlyphOf
    <3> QED BY <1>3, <2>1, <3>1 DEF NoTrail
  <2> QED BY <1>2, <1>5, <1>7, <2>1, <2>2, <2>3
<1>10. CASE Toggle
  <2> DEFINE v == IF shown THEN pen ELSE Reversed(pen)
  <2>1. /\ vram' = Drawn(vram, Here, v) /\ shown' = ~ shown /\ lastx' = lastx /\ lasty' = lasty
        /\ tick' = NextTick
    BY <1>10 DEF Toggle, Put
  <2>2. tick' \in 0 .. (Blink - 1) /\ shown' \in BOOLEAN
    BY <1>2, <1>5, <1>6, <2>1 DEF NextTick
  <2>3. v \in Shades
    BY <1>2
  <2>4. /\ vram' = [a \in Addresses |-> vram'[a]]
        /\ \A a \in Addresses : vram'[a] = (IF a = Here THEN v ELSE vram[a])
                                /\ vram'[a] \in Holds(a)
    <3> HIDE DEF v
    <3> QED BY <1>2, <1>4, <2>1, <2>3, DrawnIs
  <2>5. \A a \in Addresses : ~ IsAttr(a) => vram'[a] = vram[a]
    BY <1>4, <2>4
  <2>6. ArmTwice \/ NoTrail'
    <3>1. Here' = Here
      BY <2>1 DEF Here, AttrOf, GlyphOf
    <3>2. CASE shown
      <4>1. v \in Pens
        BY <1>2, <3>2
      <4> QED BY <1>3, <2>4, <3>2, <4>1 DEF NoTrail
    <3>3. CASE ~ shown
      BY <1>3, <2>1, <2>4, <3>1, <3>3 DEF NoTrail
    <3> QED BY <3>2, <3>3
  <2> QED BY <1>5, <1>7, <2>1, <2>2, <2>4, <2>5, <2>6
<1> QED
  BY <1>8, <1>9, <1>10 DEF Vsync

-----------------------------------------------------------------------------
LEMMA NextInv == CInv /\ [Next]_vars => CInv'
<1> SUFFICES ASSUME CInv, [Next]_vars PROVE CInv'
  OBVIOUS
<1> DEFINE Ready(steps) == \A q : Calling(q) /\ q.curx = curx /\ curx < Cols => Leads(steps, q)
<1>1. ASSUME NEW ch \in Glyphs, Call("putc", PutC(ch)) PROVE CInv'
  <2>1. Ready(PutC(ch))
    BY PutCLeads
  <2> QED BY <1>1, <2>1, CallInv
<1>2. ASSUME Call("newline", Newline) PROVE CInv'
  <2>1. Ready(Newline)
    BY NewlineLeads
  <2> QED BY <1>2, <2>1, CallInv
<1>3. ASSUME Call("backspace", Backspace) PROVE CInv'
  <2>1. Ready(Backspace)
    BY PlacingLeads
  <2> QED BY <1>3, <2>1, CallInv
<1>4. ASSUME Call("return", CarriageReturn) PROVE CInv'
  <2>1. Ready(CarriageReturn)
    BY PlacingLeads
  <2> QED BY <1>4, <2>1, CallInv
<1>5. ASSUME NEW ch \in Glyphs, NEW x \in 0 .. (Cols - 1), NEW y \in 0 .. (Rows - 1),
             Call("run", PutRun(<<ch, ch>>, x, y))
      PROVE  CInv'
  <2>1. <<ch, ch>> \in Seq(Glyphs)
    OBVIOUS
  <2>2. Ready(PutRun(<<ch, ch>>, x, y))
    BY <2>1, PutRunLeads
  <2> QED BY <1>5, <2>2, CallInv
<1>6. ASSUME Call("cls", Cls) PROVE CInv'
  <2>1. Ready(Cls)
    BY ClsLeads
  <2> QED BY <1>6, <2>1, CallInv
<1>7. ASSUME NEW x \in 0 .. (Cols - 1), NEW y \in 0 .. (Rows - 1), Call("goto", GotoXY(x, y))
      PROVE  CInv'
  <2>1. Ready(GotoXY(x, y))
    BY PlacingLeads
  <2> QED BY <1>7, <2>1, CallInv
<1>8. ASSUME NEW p \in Pens, Call("color", Do("pen", p)) PROVE CInv'
  <2>1. Ready(Do("pen", p))
    BY PlacingLeads
  <2> QED BY <1>8, <2>1, CallInv
<1>9. ASSUME ArmTwice \/ ~ slot, Call("on", CursorOn) PROVE CInv'
  <2>1. ArmTwice \/ ~ armed
    <3>1. Idle
      BY <1>9 DEF Call
    <3> QED BY <1>9, <3>1, IdleIsCalling
  <2>2. Ready(CursorOn)
    BY <2>1, CursorLeads
  <2> QED BY <1>9, <2>2, CallInv
<1>10. ASSUME Call("off", CursorOff) PROVE CInv'
  <2>1. Ready(CursorOff)
    BY CursorLeads
  <2> QED BY <1>10, <2>1, CallInv
<1>11. ASSUME Step PROVE CInv'
  BY <1>11, StepInv
<1>12. ASSUME Vsync PROVE CInv'
  BY <1>12, VsyncInv
<1>13. ASSUME UNCHANGED vars PROVE CInv'
  <2>1. /\ UNCHANGED <<vram, addr, ctrl, curx, cury, pen, todo, text>>
        /\ UNCHANGED <<slot, armed, shown, tick, lastx, lasty>>
    BY <1>13 DEF vars, vera, place, cursor
  <2>2. OnCourse'
    <3>1. PICK h \in {0, 1} : (h = 1 => ~ armed /\ ~ shown) /\ Leads(todo, Now(h))
      BY DEF CInv, OnCourse
    <3>2. Now(h)' = Now(h)
      BY <2>1 DEF Now, Bit
    <3>3. Leads(todo', Now(h)')
      BY <2>1, <3>1, <3>2
    <3> QED BY <2>1, <3>1, <3>3 DEF OnCourse
  <2>3. TypeOK' /\ Maps' /\ Transparent' /\ (ArmTwice \/ NoTrail')
    BY <2>1 DEF CInv, TypeOK, Maps, Transparent, NoTrail, Here
  <2> QED BY <2>2, <2>3 DEF CInv
<1> QED
  BY <1>1, <1>2, <1>3, <1>4, <1>5, <1>6, <1>7, <1>8, <1>9, <1>10, <1>11, <1>12, <1>13 DEF Next

LEMMA InvHolds == Spec => []CInv
<1>1. CInv /\ [Next]_vars => CInv'
  BY NextInv
<1> QED
  BY <1>1, InitInv, PTL DEF Spec

\* Registers, flags and cells keep their ranges, wherever an interrupt falls: no access
\* of the console ends outside the map, and no byte of the wrong kind in it.
THEOREM TypesHold == Spec => []TypeOK
<1>1. CInv => TypeOK
  BY DEF CInv
<1> QED
  BY <1>1, InvHolds, PTL

\* Every glyph on the screen is the one the console printed there: the interrupt may come
\* between any two accesses of any call (ccursor.s saves and restores what it uses).
THEOREM CursorIsTransparent == Spec => []Transparent
<1>1. CInv => Transparent
  BY DEF CInv
<1> QED
  BY <1>1, InvHolds, PTL

\* The only reversed cell is the one the cursor shows at: no scroll carries one along and
\* no move leaves one behind.  A second ccur_on() with no ccur_off() between would.
THEOREM NothingTrails ==
  ASSUME ~ ArmTwice
  PROVE  Spec => []NoTrail
<1>1. CInv => NoTrail
  BY DEF CInv
<1> QED
  BY <1>1, InvHolds, PTL

\* Between calls a cursor that is off shows nothing.
THEOREM OffIsOff == Spec => []OffMeansOff
<1>1. CInv => OffMeansOff
  BY IdleIsCalling DEF OffMeansOff
<1> QED
  BY <1>1, InvHolds, PTL

=============================================================================
