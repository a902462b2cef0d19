------------------------------ MODULE CellText ------------------------------
(***************************************************************************)
(* The text of a cell, as a sequence of lexemes.  A lexeme is a reference, *)
(* a number, a number written with an exponent, a function name or one     *)
(* other run of characters.  How long a lexeme is in characters matters to *)
(* the limits of sheet.c and cell.c, so every lexeme has a width.          *)
(***************************************************************************)
EXTENDS Integers, Sequences, FiniteSetsExt

CONSTANTS
  NRows,       \* KALK_ROWS
  NCols,       \* KALK_COLS
  ExpCol       \* the column named by the letter an exponent is written with

ASSUME CellTextAssumption ==
  /\ NRows \in Nat \ {0}
  /\ NCols \in Nat \ {0}
  /\ ExpCol \in Nat

Rows == 0 .. (NRows - 1)
Cols == 0 .. (NCols - 1)

Ref(r, c, ac, ar) == [row |-> r, col |-> c, ac |-> ac, ar |-> ar]
Num(n) == [num |-> n]
Exp(m, e) == [man |-> m, exp |-> e]
Fn(f) == [fn |-> f]
Sym(s) == [sym |-> s]

IsRef(t) == "row" \in DOMAIN t
IsNum(t) == "num" \in DOMAIN t
IsExp(t) == "man" \in DOMAIN t
IsFn(t) == "fn" \in DOMAIN t
IsSym(t, S) == "sym" \in DOMAIN t /\ t.sym \in S

Quote == Sym("quote")
Comma == Sym("comma")

\* One letter, one digit and the dollars: the sheets checked are that small.
Width(t) ==
  IF IsRef(t) THEN 2 + (IF t.ac THEN 1 ELSE 0) + (IF t.ar THEN 1 ELSE 0)
  ELSE IF IsExp(t) THEN 3
  ELSE IF IsFn(t) THEN 4
  ELSE IF IsSym(t, {"..."}) THEN 3
  ELSE 1

Length(s) == MapThenSumSet(LAMBDA i : Width(s[i]), DOMAIN s)

\* The first character decides: blanks, then + - ( or the @ of a function.
NonBlank(s) == {i \in DOMAIN s : ~ IsSym(s[i], {" "})}
IsFormula(s) ==
  /\ NonBlank(s) # {}
  /\ LET t == s[Min(NonBlank(s))] IN IsSym(t, {"+", "-", "("}) \/ IsFn(t)

\* What the float package accepts whole as a number.
IsNumber(s) == Len(s) = 1 /\ (IsNum(s[1]) \/ IsExp(s[1]))
ValueOf(t) == IF IsNum(t) THEN t.num ELSE t.man * 10 ^ t.exp

\* expr_parse_ref at a lexeme, as the walker of sheet.c meets it character
\* by character: it also finds a reference in the tail of an exponent.
RefIn(t) ==
  IF IsRef(t) THEN {t}
  ELSE IF IsExp(t) /\ ExpCol < NCols /\ t.exp \in 1 .. NRows
       THEN {Ref(t.exp - 1, ExpCol, FALSE, FALSE)}
  ELSE {}

=============================================================================
