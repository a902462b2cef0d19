------------------------------ MODULE MCSystem ------------------------------
EXTENDS System

A == <<"A", "">>
P == <<"P", "BIN">>
D == <<"D", "">>
X == <<"X", "BIN">>
T == <<"T", "">>
MCOrder == <<A, P, D, X, T>>
MCDesktopPath == <<D, X>>

MCCard ==
  {(Root :> Dir) @@ (<<A>> :> Dir) @@ (<<A, P>> :> File(<<"app">>))
     @@ (<<D>> :> Dir) @@ (<<D, X>> :> File(<<"desk">>)) @@ (<<T>> :> File(<<"text", "text", "text">>))}

Abs(segs) == [abs |-> TRUE, segs |-> segs]
Rel(segs) == [abs |-> FALSE, segs |-> segs]
Line(word, args) == [word |-> word, args |-> args, name |-> Here]

MCLines ==
  { Line("cd", <<Rel(<<A>>)>>), Line("cd", <<Rel(<<Above>>)>>),
    Line("ls", <<>>), Line("type", <<Rel(<<P>>)>>),
    Line("x", <<>>), Line("go", <<>>), Line("run", <<Rel(<<P>>)>>), Line("run", <<Abs(<<T>>)>>),
    [word |-> "a program", args |-> <<>>, name |-> <<"P", "">>],
    Line("copy", <<Abs(<<A, P>>), Abs(<<T>>)>>), Line("rename", <<Abs(<<A, P>>), T>>),
    Line("save", <<Abs(<<T>>), 1, 1>>), Line("load", <<Abs(<<A, P>>)>>),
    Line("poke", <<1, "app">>), Line("fill", <<1, 3, "zero">>), Line("move", <<2, 1, 2>>) }

\* A copy of a file onto itself
CopyLines == {Line("copy", <<Abs(<<T>>), Rel(<<T>>)>>)}

\* A file, and a directory with a file and a name to be taken in it
CommandCard ==
  {(Root :> Dir) @@ (<<A>> :> Dir) @@ (<<A, P>> :> File(<<"app">>))
     @@ (<<A, T>> :> File(<<"app">>)) @@ (<<T>> :> File(<<"app">>))}

\* The commands on the card, on names that are free, taken, full and empty
CommandLines ==
  { Line("ls", <<Abs(<<A>>)>>), Line("type", <<Abs(<<T>>)>>),
    Line("copy", <<Abs(<<A, P>>), Abs(<<T>>)>>), Line("save", <<Abs(<<T>>), 0, 1>>),
    Line("del", <<Abs(<<T>>)>>), Line("mkdir", <<Abs(<<T>>)>>), Line("mkdir", <<Abs(<<A>>)>>),
    Line("rmdir", <<Abs(<<T>>)>>), Line("rmdir", <<Abs(<<A>>)>>),
    Line("rename", <<Abs(<<A, P>>), T>>), Line("rename", <<Abs(<<T>>), A>>) }

MCCalls ==
  { [call |-> "open", mode |-> 0, arg |-> Rel(<<P>>)],
    [call |-> "open", mode |-> 0, arg |-> Rel(<<A, P>>)],
    [call |-> "open", mode |-> 1, arg |-> Abs(<<T>>)],
    [call |-> "close", h |-> 1],
    [call |-> "close", h |-> 2],
    [call |-> "write", h |-> 1],
    [call |-> "delete", arg |-> Abs(<<T>>)],
    [call |-> "rename", arg |-> Abs(<<A, T>>), name |-> P],
    [call |-> "mkdir", arg |-> Abs(<<T>>)],
    [call |-> "rmdir", arg |-> Abs(<<T>>)],
    [call |-> "diropen", arg |-> Abs(<<A>>)],
    [call |-> "dirnext", h |-> 3],
    [call |-> "dirclose", h |-> 3],
    [call |-> "chdir", arg |-> Abs(<<A>>)],
    [call |-> "exec", arg |-> Abs(<<A, P>>)],
    [call |-> "exec", arg |-> Abs(<<D, X>>)] }

\* What the next steps depend on: the last answer is for the properties only.
Seen == <<inserted, tree, mounted, cwd, files, dirs, carry, held, lost,
          runs, base, ram, osd, home, from, desk>>
MCTiles == <<<<A, P>>, Root, Root>>
=============================================================================
