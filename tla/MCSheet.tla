------------------------------ MODULE MCSheet ------------------------------
EXTENDS Sheet

Cel(r, c) == Ref(r, c, FALSE, FALSE)
Line(ss) == FlattenSeq(ss)

\* A sheet typed cell by cell: a sequence of <<row, column, line>>.
Entered(es) == FoldLeft(LAMBDA s, e : SetText(s, e[1], e[2], e[3]), FreshStore, es)

Plus(r, c) == <<Sym("+"), Ref(r, c, FALSE, FALSE)>>

\* Labels that look like something else, a number, formulas both ways.
Texts == Entered(<<
  <<0, 0, <<Num(7)>>>>, <<0, 1, <<Quote, Num(7)>>>>, <<0, 2, <<Quote>>>>,
  <<1, 0, Plus(0, 0)>>, <<1, 1, <<Quote, Sym("w"), Comma>>>>, <<1, 2, Plus(2, 0)>>,
  <<2, 0, <<Sym("+"), Ref(0, 0, TRUE, TRUE)>>>>>>)

\* A chain that runs against the sweep, with a format.
Chain ==
  LET st == Entered(<<<<0, 0, Plus(1, 0)>>, <<1, 0, Plus(2, 0)>>, <<2, 0, <<Num(3)>>>>,
                      <<0, 1, <<Fn("SUM"), Sym("("), Cel(0, 0), Sym("..."), Cel(2, 0), Sym(")")>>>>>>)
  IN CellPut(st, 2, 0, [CellGet(st, 2, 0) EXCEPT !.fmt = "money"])

\* An exponent, and a formula with a reference at the end of the line.
Odd == Entered(<<<<0, 0, <<Sym("+"), Exp(1, 1)>>>>,
                 <<1, 0, FlattenSeq([i \in 1 .. 5 |-> <<Sym("+"), Num(1)>>]) \o Plus(0, 0)>>>>)

\* As long as a line can be, and to be quoted in a file.
LongLabel == [i \in 1 .. TextMax - 1 |-> IF i = 2 THEN Comma ELSE Sym("w")]

\* What a file has to quote: a formula with a comma, a label that reads as
\* one, a label with a quote in it and one with a comma, of full length.
Quoted == Entered(<<
  <<0, 0, <<Num(2)>>>>,
  <<0, 1, <<Fn("NPV"), Sym("("), Num(0), Comma, Cel(0, 0), Sym("..."), Cel(1, 0), Sym(")")>>>>,
  <<1, 0, <<Quote>> \o Plus(0, 0)>>, <<1, 1, <<Quote, Sym("w"), Quote>>>>, <<2, 2, LongLabel>>>>)

MCSessions ==
  ({Texts, Chain, Odd, Quoted} \X {EmptyFile}) \cup
  ({FreshStore} \X
   {[lines |-> <<<<Field(<<Num(1)>>, FALSE), Field(<<Num(2)>>, TRUE)>>>>, newline |-> FALSE],
    [lines |-> <<<<NoField, NoField, NoField, NoField>>>>, newline |-> TRUE]})

MCTypedAt == {<<0, 0>>, <<1, 1>>, <<2, 0>>, <<3, 2>>}

MCTyped ==
  {<<Num(5)>>, Plus(2, 1), <<Fn("SUM"), Sym("("), Cel(0, 0), Sym("..."), Cel(1, 0), Sym(")")>>,
   LongLabel}

Block(r1, c1, r2, c2) == [r1 |-> r1, c1 |-> c1, r2 |-> r2, c2 |-> c2]
MCBlocks == {Block(0, 0, 0, 0), Block(1, 0, 2, 0), Block(0, 0, 0, 1), Block(1, 1, 1, 1),
             Block(0, 1, 1, 2), Block(0, 0, 2, 0)}

=============================================================================
