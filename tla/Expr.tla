-------------------------------- MODULE Expr --------------------------------
(***************************************************************************)
(* The formula evaluator (programs/kalk/expr.c): recursive descent over    *)
(* the lexemes of a formula, with the accumulator of the float package as  *)
(* the value of the last thing evaluated.                                  *)
(*                                                                         *)
(* A context holds what is left of the text, the status, the accumulator   *)
(* and the nesting depth.  The float package is outside this repository's  *)
(* C code; integers stand for its numbers.                                 *)
(***************************************************************************)
EXTENDS CellStore, SequencesExt

CONSTANTS
  MaxDepth     \* MAX_DEPTH

ASSUME ExprAssumption == MaxDepth \in Nat \ {0}

-----------------------------------------------------------------------------
(* The float package, as the evaluator uses it. *)

FpAdd(a, b) == a + b
FpSub(a, b) == a - b
FpMul(a, b) == a * b
FpDiv(a, b) ==                            \* zero for a division by zero
  IF b = 0 THEN 0 ELSE IF b < 0 THEN (-a) \div (-b) ELSE a \div b

Total == {"ABS", "INT", "EXP", "SIN", "COS", "TAN", "ATAN"}
Fp(f, v) ==                               \* some other number, or the same
  CASE f = "ABS" -> IF v < 0 THEN -v ELSE v
    [] f = "INT" -> v
    [] OTHER     -> 2 * v + 1

-----------------------------------------------------------------------------
(* Contexts. *)

Start(s) == [p |-> s, status |-> "OK", fac |-> 0, depth |-> 0]

\* ERROR replaces NA; nothing replaces ERROR.
Fail(x, how) ==
  [x EXCEPT !.status = IF @ = "OK" \/ how = "ERROR" THEN how ELSE @]

Skip(x) ==
  LET firsts == NonBlank(x.p) IN
  [x EXCEPT !.p = IF firsts = {} THEN <<>> ELSE SubSeq(@, Min(firsts), Len(@))]

At(x, S) == x.p # <<>> /\ IsSym(Head(x.p), S)
Past(x, n) == [x EXCEPT !.p = SubSeq(@, n + 1, Len(@))]
Deeper(x) == [x EXCEPT !.depth = @ + 1]
Back(x, d) == [x EXCEPT !.depth = d]
Gives(x, v) == [x EXCEPT !.fac = v]

-----------------------------------------------------------------------------
(* Cells and ranges. *)

IsValue(cl) == cl.type \in {"number", "formula"}
Worth(cl) == IF IsValue(cl) THEN cl.value ELSE 0

\* A flagged cell passes its flag on, ERROR before NA.
Flagged(x, cl) == Fail(x, IF "ERROR" \in cl.flags THEN "ERROR" ELSE "NA")

LoadCell(st, x, r, c) ==
  LET cl == CellGet(st, r, c) IN
  IF r \notin Rows \/ c \notin Cols THEN Fail(x, "ERROR")
  ELSE IF cl.flags # {} THEN Flagged(x, cl)
  ELSE Gives(x, Worth(cl))

\* The range a context is at: reference, three dots, reference, no blanks.
\* Typed either way round it is the same rectangle.
AtRange(x) == Len(x.p) >= 2 /\ IsRef(x.p[1]) /\ IsSym(x.p[2], {"..."})
WholeRange(x) == AtRange(x) /\ Len(x.p) >= 3 /\ IsRef(x.p[3])
RangeOf(x) ==
  LET f == x.p[1] t == x.p[3] IN
  [r1 |-> Min({f.row, t.row}), c1 |-> Min({f.col, t.col}),
   r2 |-> Max({f.row, t.row}), c2 |-> Max({f.col, t.col})]

\* The cells of a range in the order the walks visit them.
CellsOf(st, g) ==
  LET w == g.c2 - g.c1 + 1 IN
  [i \in 1 .. (g.r2 - g.r1 + 1) * w |->
     CellGet(st, g.r1 + ((i - 1) \div w), g.c1 + ((i - 1) % w))]

FirstFlagged(cs) == SelectInSeq(cs, LAMBDA cl : cl.flags # {})
ValuesIn(cs) ==
  LET vs == SelectSeq(cs, IsValue) IN [i \in DOMAIN vs |-> vs[i].value]
Sum(vs) == FoldLeft(FpAdd, 0, vs)

Aggregate(st, x, what, g) ==
  LET cs == CellsOf(st, g)
      vs == ValuesIn(cs)
  IN IF FirstFlagged(cs) # 0 THEN Flagged(x, cs[FirstFlagged(cs)])
     ELSE CASE what = "SUM"   -> Gives(x, Sum(vs))
            [] what = "COUNT" -> Gives(x, Len(vs))
            [] what = "MIN"   -> Gives(x, IF vs = <<>> THEN 0 ELSE Min(ToSet(vs)))
            [] what = "MAX"   -> Gives(x, IF vs = <<>> THEN 0 ELSE Max(ToSet(vs)))
            [] OTHER          -> IF vs = <<>> THEN Fail(x, "ERROR")
                                 ELSE Gives(x, FpDiv(Sum(vs), Len(vs)))

\* Each flow is divided by one more factor of 1 + rate than the one before.
Npv(st, x, g) ==
  LET cs   == CellsOf(st, g)
      step == FpAdd(x.fac, 1)
      Next(a, v) == [acc |-> FpAdd(FpDiv(v, a.div), a.acc), div |-> FpMul(a.div, step)]
  IN IF step = 0 THEN Fail(x, "ERROR")
     ELSE IF FirstFlagged(cs) # 0 THEN Flagged(x, cs[FirstFlagged(cs)])
     ELSE Gives(x, FoldLeft(Next, [acc |-> 0, div |-> step], ValuesIn(cs)).acc)

AtOrBeyond(cl, want) == IsValue(cl) /\ cl.value >= want             \* mutant
Beyond(cl, want) == IsValue(cl) /\ cl.value > want

\* The keys are the first column, or the first row of a wider range; the
\* flags of the keys are not looked at.  The last key not above the value
\* answers, from the cell beside it.
Lookup(st, x, g) ==
  LET vertical == g.c1 = g.c2
      n == IF vertical THEN g.r2 - g.r1 + 1 ELSE g.c2 - g.c1 + 1
      r(i) == IF vertical THEN g.r1 + i ELSE g.r1
      c(i) == IF vertical THEN g.c1 ELSE g.c1 + i
      key(i) == CellGet(st, r(i), c(i))
      Above == {i \in 0 .. n - 1 : Beyond(key(i), x.fac)}
      stop == IF Above = {} THEN n ELSE Min(Above)
      hits == {i \in 0 .. stop - 1 : IsValue(key(i))}
      ar == r(Max(hits)) + (IF vertical THEN 0 ELSE 1)
      ac == c(Max(hits)) + (IF vertical THEN 1 ELSE 0)
  IN IF hits = {} \/ ar \notin Rows \/ ac \notin Cols THEN Fail(x, "NA")
     ELSE LoadCell(st, x, ar, ac)

-----------------------------------------------------------------------------
(* The grammar. *)

Aggregates == {"SUM", "MIN", "MAX", "COUNT", "AVERAGE", "AVG"}
FnNames == Aggregates \cup Total \cup
  {"NPV", "LOOKUP", "SQRT", "LN", "LOG10", "ASIN", "ACOS", "PI", "ERROR", "NA"}

\* fn_asin: beyond one there is no angle.
Sines == -1 .. 1

\* Domain errors are caught before the call; the package would answer zero.
Apply(x, f) ==
  CASE f \in Total                                 -> Gives(x, Fp(f, x.fac))
    [] f \in {"ASIN", "ACOS"} /\ x.fac \in Sines  -> Gives(x, Fp(f, x.fac))
    [] f = "SQRT" /\ x.fac >= 0                    -> Gives(x, Fp(f, x.fac))
    [] f \in {"LN", "LOG10"} /\ x.fac > 0          -> Gives(x, Fp(f, x.fac))
    [] f = "COUNT"                                 -> Gives(x, 1)
    [] f \in Aggregates \ {"COUNT"}                -> x
    [] OTHER                                       -> Fail(x, "ERROR")

\* The closing parenthesis of what was just read.
Closed(x) ==
  LET y == Skip(x) IN IF At(y, {")"}) THEN Past(y, 1) ELSE Fail(y, "ERROR")

\* The three that stand alone; empty parentheses are accepted after them.
Alone(x, f) ==
  LET y == Skip(x)
      z == IF At(y, {"("}) THEN Skip(Past(y, 1)) ELSE y
      w == IF At(y, {"("}) /\ At(z, {")"}) THEN Past(z, 1) ELSE z
  IN IF f = "PI" THEN Gives(w, 3) ELSE Fail(w, f)

RECURSIVE PExpr(_, _), ExprRest(_, _), PTerm(_, _), TermRest(_, _), PPrimary(_, _)

\* @NPV and @LOOKUP, once their value is read.
ValueAndRange(st, v, f) ==
  LET y == Skip(v)
      g == Skip(Past(y, 1))
      e == Closed(Past(g, 3))
  IN IF v.status # "OK" THEN v
     ELSE IF ~ At(y, {"comma"}) THEN Fail(y, "ERROR")
     ELSE IF ~ WholeRange(g) THEN Fail(g, "ERROR")
     ELSE IF e.status # "OK" THEN e
     ELSE IF f = "NPV" THEN Npv(st, e, RangeOf(g)) ELSE Lookup(st, e, RangeOf(g))

RangeArgument(st, x, f) ==
  LET e == Closed(Past(x, 3)) IN
  IF ~ WholeRange(x) THEN Fail(x, "ERROR")
  ELSE IF e.status # "OK" THEN e
  ELSE IF f \in Aggregates THEN Aggregate(st, e, f, RangeOf(x)) ELSE Fail(e, "ERROR")

ValueArgument(e, f) == IF e.status # "OK" THEN e ELSE Apply(e, f)

PFunction(st, x) ==
  LET f == Head(x.p).fn
      y == Skip(Past(x, 1))
      a == Skip(Past(y, 1))
  IN IF f \notin FnNames THEN Fail(x, "ERROR")
     ELSE IF f \in {"PI", "ERROR", "NA"} THEN Alone(Past(x, 1), f)
     ELSE IF ~ At(y, {"("}) THEN Fail(y, "ERROR")
     ELSE IF f \in {"NPV", "LOOKUP"} THEN ValueAndRange(st, PExpr(st, a), f)
     ELSE IF AtRange(a) THEN RangeArgument(st, a, f)
     ELSE ValueArgument(Closed(PExpr(st, a)), f)

Negated(x) == IF x.status = "OK" THEN Gives(x, -x.fac) ELSE x

PrimaryAt(st, x) ==
  LET in == Deeper(x) IN
  CASE x.depth >= MaxDepth \/ x.p = <<>> -> Fail(x, "ERROR")
    [] At(x, {"-"}) -> Negated(Back(PPrimary(st, Past(in, 1)), x.depth))
    [] At(x, {"+"}) -> Back(PPrimary(st, Past(in, 1)), x.depth)
    [] At(x, {"("}) -> Closed(Back(PExpr(st, Past(in, 1)), x.depth))
    [] IsFn(Head(x.p))  -> Back(PFunction(st, in), x.depth)
    [] IsRef(Head(x.p)) -> LoadCell(st, Past(x, 1), Head(x.p).row, Head(x.p).col)
    [] IsNum(Head(x.p)) \/ IsExp(Head(x.p)) -> Gives(Past(x, 1), ValueOf(Head(x.p)))
    [] OTHER -> Fail(x, "ERROR")

PPrimary(st, x) == PrimaryAt(st, Skip(x))

\* x is at the operator, r is its right operand.
MulDiv(x, r) ==
  IF r.status # "OK" THEN r
  ELSE IF At(x, {"*"}) THEN Gives(r, FpMul(x.fac, r.fac))
  ELSE IF r.fac = 0 THEN Fail(r, "ERROR")
  ELSE Gives(r, FpDiv(x.fac, r.fac))

AddSub(x, r) ==
  IF r.status # "OK" THEN r
  ELSE Gives(r, IF At(x, {"+"}) THEN FpAdd(x.fac, r.fac) ELSE FpSub(x.fac, r.fac))

\* The loops over the operators, with what has been read before them.
TermRest(st, l) ==
  LET x == Skip(l) IN
  IF l.status # "OK" THEN l
  ELSE IF ~ At(x, {"*", "/"}) THEN x
  ELSE TermRest(st, MulDiv(x, PPrimary(st, Past(x, 1))))

PTerm(st, x) == TermRest(st, PPrimary(st, x))

ExprRest(st, l) ==
  LET x == Skip(l) IN
  IF l.status # "OK" THEN l
  ELSE IF ~ At(x, {"+", "-"}) THEN x
  ELSE ExprRest(st, AddSub(x, PTerm(st, Past(x, 1))))

PExpr(st, x) == ExprRest(st, PTerm(st, x))

EvalPrefix(st, s) ==                                              \* mutant
  LET x == PExpr(st, Start(s)) IN [status |-> x.status, value |-> x.fac]

\* Anything left over is a mistake.
Verdict(x) ==
  [status |-> IF x.status = "OK" /\ x.p # <<>> THEN "ERROR" ELSE x.status,
   value  |-> x.fac]

\* expr_eval
Eval(st, s) == Verdict(Skip(PExpr(st, Start(s))))

=============================================================================
