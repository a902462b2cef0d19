------------------------------- MODULE MCCalc -------------------------------
EXTENDS Calc

A1 == Ref(0, 0, FALSE, FALSE)
A3 == Ref(2, 0, FALSE, FALSE)
B2 == Ref(1, 1, TRUE, FALSE)
Dots == Sym("...")

\* Four of these make a + b * c and f(x, range), the longest forms that matter.
MCPieces ==
  {<<Sym(s)>> : s \in {"+", "-", "/", "(", ")", " "}} \cup
  {<<Fn(f), Sym("(")>> : f \in {"SUM", "AVG", "SQRT", "NPV", "LOOKUP"}} \cup
  {<<Fn("NA")>>, <<Num(2)>>, <<Sym("-"), Num(2)>>, <<Sym("*"), Num(3)>>, <<A1>>,
   <<A1, Dots, B2>>, <<Dots, B2>>, <<Comma, A1, Dots, A3, Sym(")")>>}

Filled(st, r, c, v) == CellPut(st, r, c, [ZeroCell EXCEPT !.type = "number", !.value = v])
Failed(st, r, c, f) == CellPut(st, r, c, [ZeroCell EXCEPT !.type = "formula", !.flags = {f}])

\* A column of keys with one answer beside it; a sheet with both flags; a
\* sheet nothing was written to.
MCSheets ==
  {Filled(Filled(Filled(FreshStore, 0, 0, 1), 2, 0, 4), 1, 1, -3),
   Failed(Failed(Filled(FreshStore, 2, 0, 2), 0, 0, "NA"), 1, 1, "ERROR"),
   FreshStore}

=============================================================================
