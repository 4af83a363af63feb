--------------------------- MODULE MCRubyUnwind ---------------------------
(***************************************************************************)
(* Small programs, run by RubyUnwind on the code RubySource gives them,    *)
(* and compared with their meaning.                                        *)
(***************************************************************************)
EXTENDS RubySource, RubyUnwind

(***************************************************************************)
(* Programs.  p is the path of a statement, which labels its leaves.       *)
(***************************************************************************)
Sub(p, x) == Append(p, x)
A == <<"A">>
B == <<"B">>
Leaf(p) == {Tick(p), Raise(p, A), Raise(p, Nil), Break(p), NextIt(p), Return(p)}
Quit(p) == {Tick(p), Raise(p, B), Return(p)}

Inner(p) == {Tick(p), Raise(p, A), Break(p), Return(p)}

\* A leaf, or one construct around leaves; Leaving adds a return that leaves
\* an inner loop.
RaisingCalls(p) == {Call(Ensure(Raise(Sub(p, "c"), B), b)) : b \in Quit(Sub(p, "d")) \ {Return(Sub(p, "d"))}}
Small(p) ==
  Leaf(p) \cup {Ensure(a, b) : a \in Inner(Sub(p, "b")), b \in Leaf(Sub(p, "e"))}
          \cup {Rescue(a, <<Standard>>, b) : a \in Inner(Sub(p, "b")), b \in Leaf(Sub(p, "r"))}
          \cup {Arg(a) : a \in Leaf(Sub(p, "o"))}
          \cup {While(a) : a \in Inner(Sub(p, "w")) \ {Return(Sub(p, "w"))}}
          \cup {Call(Ensure(a, b)) : a \in Quit(Sub(p, "c")), b \in Quit(Sub(p, "d"))}
Leaving(p) == {While(Return(p))}

InLoop(s) == Then(While(Then(s, Tick(<<"t">>))), Tick(<<"z">>))

\* An ensure body left by every kind of transfer, entered by every kind.
EnsurePrograms == {InLoop(Ensure(a, b)) : a \in Small(<<"b">>), b \in Small(<<"e">>) \cup Leaving(<<"e">>)}
\* Rescue clauses for two classes, with an ensure around.
RescuePrograms ==
  {InLoop(Begin(a, <<Clause(<<A, B>>, b)>>, c)) :
     a \in Leaf(<<"b">>) \cup {Raise(<<"b">>, Carrier)}, b \in Small(<<"r">>), c \in Quit(<<"e">>) \cup {None, Break(<<"e">>)}}
\* A return that a break or next of an ensure body cancels.
Cancelled == {Ensure(Return(<<"c">>), Break(<<"d">>)), Ensure(Return(<<"c">>), NextIt(<<"d">>))}
\* Ensure bodies three deep, the innermost in a loop of its own.
DeepPrograms ==
  {InLoop(Ensure(a, Ensure(b, While(c)))) : a \in Inner(<<"a">>), b \in Leaf(<<"b">>),
     c \in {Ensure(x, y) : x \in Leaf(<<"c">>), y \in Leaf(<<"d">>)} \ Cancelled}
\* retry from a clause, from a loop in it, under an ensure that encloses the begin.
RetryPrograms ==
  {Ensure(x, Begin(a, <<Clause(<<A, B>>, b)>>, c)) :
     x \in {Return(<<"x">>), Raise(<<"x">>, B)},
     a \in {Raise(<<"b">>, A), Rescue(Raise(<<"b">>, A), <<B>>, Tick(<<"q">>))},
     b \in {Retry(<<"r">>), While(Retry(<<"r">>)), Then(Retry(<<"r">>), Raise(<<"s">>, Nil))},
     c \in Quit(<<"e">>) \cup {None}}
\* A callee whose ensure body raises on into an ensure body of the caller.
CalleePrograms == {InLoop(Ensure(a, b)) : a \in RaisingCalls(<<"b">>), b \in Small(<<"e">>) \cup Leaving(<<"e">>)}
AllPrograms == EnsurePrograms \cup RescuePrograms \cup DeepPrograms \cup RetryPrograms

\* A return that leaves an inner loop through an ensure body with a break of
\* its own inside another ensure.
LoopLeavingPrograms == {InLoop(Ensure(a, Ensure(Break(<<"e">>), b))) :
                          a \in Leaving(<<"b">>), b \in Leaf(<<"d">>)}
\* A cancelled return, contained in a loop of an ensure body that a return,
\* break or next is parked in.
ContainedPrograms ==
  {InLoop(Ensure(a, While(c))) : a \in Leaf(<<"a">>), c \in Cancelled}
\* A transfer of an ensure body, cancelled by an exception that is rescued in the
\* ensure body around it, where another transfer is parked.
SweptPrograms ==
  {InLoop(Ensure(a, Rescue(Ensure(b, Raise(<<"d">>, A)), <<A>>, Tick(<<"r">>)))) :
     a \in Leaf(<<"a">>), b \in Leaf(<<"b">>)}
\* retry out of the body of a begin/rescue inside the rescue clause.
NestedRetryPrograms ==
  {Then(Rescue(Raise(<<"b">>, A), <<A>>, Rescue(Retry(<<"r">>), <<B>>, Tick(<<"q">>))), a) :
     a \in Leaf(<<"z">>) \ {Break(<<"z">>), NextIt(<<"z">>)}}

(***************************************************************************)
(* Properties.                                                             *)
(***************************************************************************)
Expected == Meaning(prog, Iterations)
Labels(t) == [i \in DOMAIN t |-> t[i][1]]

\* Whatever the mix of raise, break, next, return and retry, a program does
\* what its text says: every ensure body the transfer crosses runs once and in
\* order, nothing else runs, the last transfer wins, and the method ends with
\* that transfer's value or exception (raise.rs: the handler walk and the two
\* ensure walks).
RunsAsWritten ==
  status # "running" =>
    /\ Labels(trace) = Labels(Expected.tr)
    /\ status = "uncaught" <=> Expected.out = "raise"
    /\ stack = <<Expected.val>>

\* `$!` is the exception being handled or unwound, and goes back to what the
\* enclosing scope had when the region is left, by whichever transfer
\* (BeginBaseline::saved_dollar_bang and the synthetic baselines).  Programs
\* that retry keep `$!` in the repeated body, and CalleePrograms leak it (README,
\* section 5); neither is compared here.
BangScoped ==
  status # "running" =>
    trace = Expected.tr /\ (status = "done" => bang = Nil)
BangIsScoped == prog \notin RetryPrograms \cup CalleePrograms => BangScoped

(***************************************************************************)
(* The compiler's output is well nested: the assumption of the theorems on *)
(* the two invariants of RubyUnwind, with the nesting computed from the    *)
(* code in one pass (a jump backwards meets what it left).                 *)
(***************************************************************************)
Root(i) == Point(i, <<>>, <<>>, <<>>, <<>>, 0)
Successors(c, N, i) ==
  LET n == N[i]
      op == c[i].op
      On(r, l, b, d) == (i + 1) :> Point(n.entry, r, l, n.bodies, b, d)
      To(p) == Goal(c, i) :> p
      Same == On(n.rescues, n.loops, n.begins, n.depth)
      Land(a, d) == To(Point(n.entry, N[a].rescues, n.loops, N[a].bodies, N[a].begins, N[a].depth + d))
  IN CASE op \in {"Load", "Tick"} -> On(n.rescues, n.loops, n.begins, n.depth + 1)
       [] op = "Pop"        -> On(n.rescues, n.loops, n.begins, n.depth - 1)
       [] op = "Jump"       -> To(n)
       [] op = "JumpUnless" -> Same @@ To(n)
       [] op = "Call"       -> On(n.rescues, n.loops, n.begins, n.depth + 1) @@ To(Root(Goal(c, i)))
       [] op = "PushRescue" -> On(Append(n.rescues, i), n.loops, n.begins, n.depth) @@ To(n)
       [] op = "PushEnsure" -> On(Append(n.rescues, i), n.loops, n.begins, n.depth)
                               @@ To(Point(n.entry, n.rescues, n.loops, Append(n.bodies, i), <<>>, 0))
       [] op \in Pops       -> On(Front(n.rescues), n.loops, n.begins, n.depth)
       [] op = "EnterBegin" -> On(n.rescues, n.loops, Append(n.begins, i), n.depth)
       [] op = "ExitBegin"  -> On(n.rescues, n.loops, Front(n.begins), n.depth)
       [] op = Unnests      -> LET a == Last(n.begins) IN On(N[a].rescues, N[a].loops, n.begins, n.depth)
       [] op = "EnterLoop"  -> On(n.rescues, Append(n.loops, i), n.begins, n.depth)
       [] op = "ExitLoop"   -> On(n.rescues, Front(n.loops), n.begins, n.depth)
       [] op = "BreakLoop"  -> Land(Last(n.loops), 1)
       [] op = "NextLoop"   -> Land(Last(n.loops), 0)
       [] OTHER             -> <<>>
NestOf(c) ==
  LET upto[i \in 0 .. Len(c)] ==
        IF i = 0 THEN 1 :> Root(1)
        ELSE LET N == upto[i - 1] IN IF i \in DOMAIN N THEN N @@ Successors(c, N, i) ELSE N
  IN upto[Len(c)]
ASSUME CompiledIsWellNested ==
  \A p \in AllPrograms : \E c \in {Compile(p)} : \E N \in {NestOf(c)} : WellNested(c, N)
=============================================================================
