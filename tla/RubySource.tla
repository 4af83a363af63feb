---------------------------- MODULE RubySource ----------------------------
(***************************************************************************)
(* The control statements of a Ruby method body, the compiler's lowering   *)
(* of them to bytecode (compiler.rs), and what they mean: a structural     *)
(* evaluator that knows nothing of handler stacks, suspended walks or      *)
(* saved depths.  RubyUnwind runs the bytecode; MCRubyUnwind compares.     *)
(*                                                                         *)
(* A leaf first records its label n, so a trace shows what ran, how often  *)
(* and in which order.  Loop conditions and `retry if` read one counter,   *)
(* as `(n -= 1) >= 0` would.                                               *)
(***************************************************************************)
EXTENDS Naturals, Integers, Sequences, SequencesExt

\* Labels, exceptions and nil are sequences of strings, so they compare: a label
\* is the leaf's path in the program, an exception is <<its class>>.
Nil == <<>>
Standard == <<"StandardError">>
Runtime  == <<"RuntimeError">>
Carrier  == <<"RubyrsThrowSignal">>

(***************************************************************************)
(* Syntax.                                                                 *)
(***************************************************************************)
None        == [k |-> "none"]
Tick(n)     == [k |-> "tick", n |-> n]
Raise(n, e) == [k |-> "raise", n |-> n, e |-> e]   \* e = Nil: a bare raise
Break(n)    == [k |-> "break", n |-> n]
NextIt(n)   == [k |-> "next", n |-> n]
Return(n)   == [k |-> "return", n |-> n]
Retry(n)    == [k |-> "retry", n |-> n]            \* retry if the counter lasts
Then(a, b)  == [k |-> "seq", a |-> a, b |-> b]
While(a)    == [k |-> "while", a |-> a]
Call(a)     == [k |-> "call", a |-> a]             \* a method with body a
Arg(a)      == [k |-> "arg", a |-> a]              \* a as the second operand of a call
Begin(a, res, ens) == [k |-> "begin", a |-> a, res |-> res, ens |-> ens]
Ensure(a, b)    == Begin(a, <<>>, b)
Clause(cls, b)  == [cls |-> cls, b |-> b]
Rescue(a, cls, b) == Begin(a, <<Clause(cls, b)>>, None)

\* Does a rescue clause for class f take exception e?  The carrier of `throw` is
\* taken only by a clause that names it.
Takes(f, e) == e = f \/ (f = Standard /\ e # Carrier)

(***************************************************************************)
(* Lowering.  Offsets are relative; a name ending in ? is a placeholder    *)
(* the enclosing construct patches.                                        *)
(***************************************************************************)
Op(name, x, v) == [op |-> name, x |-> x, v |-> v]
Op0(name)      == Op(name, 0, Nil)

Patch(c, name, as, target) ==
  [i \in DOMAIN c |-> IF c[i].op = name THEN [c[i] EXCEPT !.op = as, !.x = target - i]
                                        ELSE c[i]]

Mark(n) == <<Op("Tick", 0, n), Op0("Pop")>>

WhileArm(body) ==
  LET n == Len(body)
      c == <<Op0("EnterLoop"), Op("JumpUnless", n + 3, Nil)>> \o body
           \o <<Op0("Pop"), Op("Jump", - n - 2, Nil), Op("Load", 0, Nil), Op0("ExitLoop")>>
  IN Patch(Patch(c, "break?", "BreakLoop", n + 6), "next?", "NextLoop", 2)

RescueArm(body, clauses) ==
  LET rev     == Reverse(clauses)
      pushes  == FlattenSeq([j \in DOMAIN rev |->
                   LET cs == Reverse(rev[j].cls)
                   IN [i \in DOMAIN cs |-> Op("rescue?", j, cs[i])]])
      head    == <<Op0("EnterBegin")>> \o pushes \o body
                 \o [i \in DOMAIN pushes |-> Op0("PopRescue")]
                 \o <<Op0("ExitBegin"), Op0("end?")>>
      Handler(c) == <<Op0("TruncateRescuesToBeginBaseline")>> \o c.code
                    \o <<Op0("TruncateRescuesToBeginBaseline"), Op0("ExitBegin"), Op0("end?")>>
      start   == FoldLeft(LAMBDA acc, c: Append(acc, acc[Len(acc)] + Len(Handler(c))),
                          <<Len(head) + 1>>, rev)
      handlers == [j \in DOMAIN rev |->
                    Patch(Handler(rev[j]), "retry?", "Jump", 3 - start[j])]
      code    == head \o FlattenSeq(handlers)
  IN Patch([i \in DOMAIN code |->
              IF code[i].op = "rescue?" /\ i <= Len(pushes) + 1
              THEN [code[i] EXCEPT !.op = "PushRescue", !.x = start[code[i].x] - i]
              ELSE code[i]],
           "end?", "Jump", Len(code) + 1)

EnsureArm(mid, ens) ==
  LET n == Len(ens)
  IN <<Op("PushEnsure", Len(mid) + n + 4, Nil)>> \o mid
     \o <<Op0("PopEnsure")>> \o ens \o <<Op0("Pop"), Op("Jump", n + 3, Nil)>>
     \o ens \o <<Op0("Pop"), Op0("EndEnsure")>>

\* Every expression leaves one value.
RECURSIVE Lower(_)
Lower(s) ==
  CASE s.k = "none"   -> <<Op("Load", 0, Nil)>>
    [] s.k = "tick"   -> <<Op("Tick", 0, s.n)>>
    [] s.k = "raise"  -> Mark(s.n) \o <<Op("Load", 0, s.e), Op0("Raise"), Op("Load", 0, Nil)>>
    [] s.k = "break"  -> Mark(s.n) \o <<Op("Load", 0, s.n), Op0("break?"), Op("Load", 0, Nil)>>
    [] s.k = "next"   -> Mark(s.n) \o <<Op0("next?"), Op("Load", 0, Nil)>>
    [] s.k = "return" -> Mark(s.n) \o <<Op("Load", 0, s.n), Op0("Return"), Op("Load", 0, Nil)>>
    [] s.k = "retry"  -> Mark(s.n) \o <<Op("JumpUnless", 3, Nil),
                           Op0("TruncateRescuesToBeginBaseline"), Op0("retry?"), Op("Load", 0, Nil)>>
    [] s.k = "seq"    -> Lower(s.a) \o <<Op0("Pop")>> \o Lower(s.b)
    [] s.k = "while"  -> WhileArm(Lower(s.a))
    [] s.k = "arg"    -> <<Op("Load", 0, Nil)>> \o Lower(s.a) \o <<Op0("Pop")>>
    [] s.k = "call"   -> LET c == Lower(s.a)
                         IN <<Op("Call", 2, Nil), Op("Jump", Len(c) + 2, Nil)>> \o c \o <<Op0("Return")>>
    [] s.k = "begin"  ->
         LET body == Lower(s.a)
             mid  == IF s.res = <<>> THEN body
                     ELSE RescueArm(body, [i \in DOMAIN s.res |->
                            [cls |-> s.res[i].cls, code |-> Lower(s.res[i].b)]])
         IN IF s.ens = None THEN mid ELSE EnsureArm(mid, Lower(s.ens))

\* The program calls a method whose body is s and stops.
Compile(s) == Lower(Call(s)) \o <<Op0("Halt")>>

(***************************************************************************)
(* Meaning.  A state is the trace so far, `$!` and the counter; an outcome *)
(* adds how the statement ended (out) and the value or exception (val).    *)
(***************************************************************************)
End(st, out, val) == [tr |-> st.tr, bang |-> st.bang, left |-> st.left, out |-> out, val |-> val]
Seen(st, n)       == [st EXCEPT !.tr = Append(@, <<n, st.bang>>)]
WithBang(r, b)    == [r EXCEPT !.bang = b]

RECURSIVE Eval(_, _), Loop(_, _, _), Guarded(_, _, _)

\* `while`: leaving an iteration by break or next puts `$!` back.
Loop(a, st, b) ==
  IF st.left = 0 THEN End(WithBang(st, b), "ok", Nil)
  ELSE LET r == Eval(a, [st EXCEPT !.left = @ - 1])
       IN CASE r.out \in {"ok", "next"} -> Loop(a, WithBang(r, b), b)
            [] r.out = "break"          -> End(WithBang(r, b), "ok", r.val)
            [] OTHER                    -> r

\* begin ... rescue: the first clause that takes the exception runs with `$!`
\* set to it; `$!` is put back when the clause ends and when it retries.
Guarded(s, st, b) ==
  LET r    == Eval(s.a, st)
      fits == {i \in DOMAIN s.res : \E j \in DOMAIN s.res[i].cls : Takes(s.res[i].cls[j], r.val)}
      i    == CHOOSE x \in fits : \A y \in fits : x <= y
      h    == Eval(s.res[i].b, WithBang(r, r.val))
  IN IF r.out # "raise" \/ fits = {} THEN r
     ELSE CASE h.out = "ok"    -> WithBang(h, b)
            [] h.out = "retry" -> Guarded(s, WithBang(h, b), b)
            [] OTHER           -> h

\* The ensure body runs once however the rest ended; ending abruptly itself,
\* it replaces that ending.
Eval(s, st) ==
  CASE s.k = "none"   -> End(st, "ok", Nil)
    [] s.k = "tick"   -> End(Seen(st, s.n), "ok", Nil)
    [] s.k = "raise"  -> End(Seen(st, s.n), "raise",
                             IF s.e # Nil THEN s.e ELSE IF st.bang # Nil THEN st.bang ELSE Runtime)
    [] s.k \in {"break", "next", "return"} -> End(Seen(st, s.n), s.k, s.n)
    [] s.k = "retry"  -> LET t == Seen(st, s.n)
                         IN IF t.left = 0 THEN End(t, "ok", Nil)
                            ELSE End([t EXCEPT !.left = @ - 1], "retry", Nil)
    [] s.k = "seq"    -> LET r == Eval(s.a, st) IN IF r.out = "ok" THEN Eval(s.b, r) ELSE r
    [] s.k = "arg"    -> LET r == Eval(s.a, st) IN IF r.out = "ok" THEN [r EXCEPT !.val = Nil] ELSE r
    [] s.k = "while"  -> Loop(s.a, st, st.bang)
    [] s.k = "call"   -> LET r == Eval(s.a, st)
                         IN IF r.out = "return" THEN End(WithBang(r, st.bang), "ok", r.val) ELSE r
    [] s.k = "begin"  ->
         LET r == Guarded(s, st, st.bang)
             e == Eval(s.ens, IF r.out = "raise" THEN WithBang(r, r.val) ELSE r)
         IN IF s.ens = None THEN r
            ELSE IF e.out = "ok" THEN End(WithBang(e, r.bang), r.out, r.val)
            ELSE e

\* What running a program should record and end with, given the counter.
Meaning(s, left) == Eval(Call(s), [tr |-> <<>>, bang |-> Nil, left |-> left])
=============================================================================
