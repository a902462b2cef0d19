-------------------------------- MODULE Calc --------------------------------
(***************************************************************************)
(* What the evaluator of Expr promises, stated over the grammar of         *)
(* programs/kalk/expr.h instead of over the parser: a formula is a sum of  *)
(* terms, a term a product of primaries, both read from the left, and a    *)
(* text that is not a formula is never given a number.                     *)
(***************************************************************************)
EXTENDS Expr

CONSTANTS
  Pieces,      \* the runs of lexemes a typed formula is made of
  MaxPieces,   \* and how many of them
  Sheets       \* the stores a formula is evaluated against

VARIABLES
  sheet,       \* the store
  text,        \* the formula
  result       \* what expr_eval answered, or "typed" before it ran

vars == <<sheet, text, result>>

-----------------------------------------------------------------------------
(* The grammar, by where a formula can be cut. *)

\* What a primary that reads a cell or a range is worth.
Flags(cs) == UNION {cs[i].flags : i \in DOMAIN cs}
Known(v) == [status |-> "OK", value |-> v]
Bad(how) == [status |-> how, value |-> 0]
Worse(a, b) ==                      \* ERROR wins over NA
  IF "ERROR" \in {a, b} THEN "ERROR" ELSE IF "NA" \in {a, b} THEN "NA" ELSE "OK"

Both(l, r, v) ==
  [status |-> Worse(l.status, r.status), value |-> IF Worse(l.status, r.status) = "OK" THEN v ELSE 0]

Combined(l, op, r) ==
  CASE op = "+" -> Both(l, r, l.value + r.value)
    [] op = "-" -> Both(l, r, l.value - r.value)
    [] op = "*" -> Both(l, r, l.value * r.value)
    [] OTHER    -> IF l.status = "OK" /\ r = Known(0) THEN Bad("ERROR")
                   ELSE Both(l, r, FpDiv(l.value, r.value))

CellsIn(st, f, t) ==
  CellsOf(st, [r1 |-> Min({f.row, t.row}), c1 |-> Min({f.col, t.col}),
               r2 |-> Max({f.row, t.row}), c2 |-> Max({f.col, t.col})])

TotalOf(cs, f) ==
  LET vs == ValuesIn(cs) n == Len(vs) sum == MapThenSumSet(LAMBDA i : vs[i], DOMAIN vs) IN
  IF Flags(cs) # {} THEN Bad(IF "ERROR" \in Flags(cs) THEN "ERROR" ELSE "NA")
  ELSE CASE f = "SUM"   -> Known(sum)
         [] f = "COUNT" -> Known(n)
         [] f = "MIN"   -> Known(IF n = 0 THEN 0 ELSE CHOOSE v \in ToSet(vs) : \A w \in ToSet(vs) : v <= w)
         [] f = "MAX"   -> Known(IF n = 0 THEN 0 ELSE CHOOSE v \in ToSet(vs) : \A w \in ToSet(vs) : v >= w)
         [] f \in Aggregates -> IF n = 0 THEN Bad("ERROR") ELSE Known(FpDiv(sum, n))
         [] OTHER       -> Bad("ERROR")

\* @NPV: the first flow is one period away.
PresentValue(cs, rate) ==
  LET vs == ValuesIn(cs) IN
  IF rate = -1 THEN Bad("ERROR")
  ELSE IF Flags(cs) # {} THEN Bad(IF "ERROR" \in Flags(cs) THEN "ERROR" ELSE "NA")
  ELSE Known(MapThenSumSet(LAMBDA i : FpDiv(vs[i], (1 + rate) ^ i), DOMAIN vs))

\* @LOOKUP in a column of keys: beside the last key of those, from the top,
\* that are at or below the value.
Answer(st, f, t, want) ==
  LET key(r) == CellGet(st, r, f.col)
      Under == {r \in f.row .. t.row :
                  /\ IsValue(key(r))
                  /\ \A q \in f.row .. r : IsValue(key(q)) => key(q).value <= want}
      cl == CellGet(st, Max(Under), f.col + 1)
  IN IF Under = {} \/ f.col + 1 \notin Cols THEN Bad("NA")
     ELSE IF cl.flags # {} THEN Bad(IF "ERROR" \in cl.flags THEN "ERROR" ELSE "NA")
     ELSE Known(Worth(cl))

\* The meaning of a text as an expression, a term or a primary: a set with
\* one element, or none when the text is not one.
RECURSIVE AsExpr(_, _), AsTerm(_, _), AsPrimary(_, _)

Cut(s, i) == <<SubSeq(s, 1, i - 1), SubSeq(s, i + 1, Len(s))>>
LastOf(S) == IF S = {} THEN {} ELSE {Max(S)}

AsExpr(st, s) ==
  LET cuts == {i \in 2 .. Len(s) - 1 :
                 /\ IsSym(s[i], {"+", "-"})
                 /\ AsExpr(st, Cut(s, i)[1]) # {} /\ AsTerm(st, Cut(s, i)[2]) # {}}
  IN AsTerm(st, s) \cup
     {Combined(l, s[i].sym, r) : <<i, l, r>> \in
        UNION {{i} \X AsExpr(st, Cut(s, i)[1]) \X AsTerm(st, Cut(s, i)[2]) : i \in LastOf(cuts)}}

AsTerm(st, s) ==
  LET cuts == {i \in 2 .. Len(s) - 1 :
                 /\ IsSym(s[i], {"*", "/"})
                 /\ AsTerm(st, Cut(s, i)[1]) # {} /\ AsPrimary(st, Cut(s, i)[2]) # {}}
  IN AsPrimary(st, s) \cup
     {Combined(l, s[i].sym, r) : <<i, l, r>> \in
        UNION {{i} \X AsTerm(st, Cut(s, i)[1]) \X AsPrimary(st, Cut(s, i)[2]) : i \in LastOf(cuts)}}

Inner(s) == SubSeq(s, 3, Len(s) - 1)          \* between f( and )
Bracketed(s) == Len(s) >= 4 /\ IsSym(s[2], {"("}) /\ IsSym(s[Len(s)], {")"})

AsPrimary(st, s) ==
  CASE s = <<>> -> {}
    [] Len(s) = 1 /\ (IsNum(s[1]) \/ IsExp(s[1])) -> {Known(ValueOf(s[1]))}
    [] Len(s) = 1 /\ IsRef(s[1]) ->
         LET cl == CellGet(st, s[1].row, s[1].col) IN
         {IF cl.flags = {} THEN Known(Worth(cl))
          ELSE Bad(IF "ERROR" \in cl.flags THEN "ERROR" ELSE "NA")}
    [] Len(s) > 1 /\ IsSym(s[1], {"-"}) -> {Both(v, v, -v.value) : v \in AsPrimary(st, Tail(s))}
    [] Len(s) > 1 /\ IsSym(s[1], {"+"}) -> AsPrimary(st, Tail(s))
    [] Len(s) > 2 /\ IsSym(s[1], {"("}) /\ IsSym(s[Len(s)], {")"}) ->
         AsExpr(st, SubSeq(s, 2, Len(s) - 1))
    [] Len(s) = 1 /\ IsFn(s[1]) ->
         {v \in {IF s[1].fn = "PI" THEN Known(3) ELSE Bad(s[1].fn)} : s[1].fn \in {"PI", "ERROR", "NA"}}
    [] IsFn(s[1]) /\ Bracketed(s) /\ s[1].fn \in FnNames \ {"PI", "ERROR", "NA", "NPV", "LOOKUP"} ->
         LET a == Inner(s) f == s[1].fn IN
         IF Len(a) = 3 /\ IsRef(a[1]) /\ IsSym(a[2], {"..."}) /\ IsRef(a[3])
         THEN {TotalOf(CellsIn(st, a[1], a[3]), f)}
         ELSE {IF v.status # "OK" THEN v
               ELSE IF Apply(Gives(Start(<<>>), v.value), f).status # "OK" THEN Bad("ERROR")
               ELSE Known(Apply(Gives(Start(<<>>), v.value), f).fac) : v \in AsExpr(st, a)}
    [] IsFn(s[1]) /\ Bracketed(s) /\ s[1].fn \in {"NPV", "LOOKUP"} ->
         LET n == Len(s)
             f == s[n - 3]
             g == s[n - 1]
             values == IF n < 8 THEN {} ELSE AsExpr(st, SubSeq(s, 3, n - 5))
         IN IF values = {} \/ ~ (IsSym(s[n - 4], {"comma"}) /\ IsRef(f) /\ IsRef(g)
                                 /\ IsSym(s[n - 2], {"..."})) THEN {}
            ELSE {IF v.status # "OK" THEN v
                  ELSE IF s[1].fn = "NPV" THEN PresentValue(CellsIn(st, f, g), v.value)
                  ELSE Answer(st, f, g, v.value) : v \in values}
    [] OTHER -> {}

-----------------------------------------------------------------------------

Init ==
  /\ sheet \in Sheets
  /\ \E ps \in BoundedSeq(Pieces, MaxPieces) : text = FlattenSeq(ps)
  /\ result = [status |-> "typed", value |-> 0]

Evaluate ==
  /\ result.status = "typed"
  /\ result' = Eval(sheet, text)
  /\ UNCHANGED <<sheet, text>>

Next == Evaluate

Spec == Init /\ [][Next]_vars

Done == result.status # "typed"

\* Blanks may stand anywhere but beside the dots of a range.
AtDots(i) == i \in DOMAIN text /\ IsSym(text[i], {"..."})
Dense ==
  LET Kept(i) == ~ IsSym(text[i], {" "}) \/ AtDots(i - 1) \/ AtDots(i + 1)
      kept == SelectSeq([i \in DOMAIN text |-> i], Kept)
  IN [j \in DOMAIN kept |-> text[kept[j]]]
Meaning == AsExpr(sheet, Dense)

\* How deep the text can nest: every sign, parenthesis and function.
Shallow ==
  Cardinality({i \in DOMAIN text : IsSym(text[i], {"+", "-", "("}) \/ IsFn(text[i])}) < MaxDepth

\* A text that is not a formula of the grammar never gets a number, and a
\* formula has one meaning.
NoPlausibleNumber ==
  Done /\ result.status = "OK" => Meaning = {[status |-> "OK", value |-> result.value]}

\* Precedence, left associativity, ranges and the domain checks agree with
\* the grammar: whatever has a value gets that value, up to the nesting limit.
ValuesRight ==
  Done /\ Shallow => \A m \in Meaning : m.status = "OK" => result = m

\* exprtest.c:22: "ERROR BEATS NA. A formula that reads both must report ERROR."
ErrorBeatsNa ==
  Done /\ Shallow => \A m \in Meaning : m.status = "ERROR" => result.status = "ERROR"

=============================================================================
