---------------------------- MODULE RubyNesting ----------------------------
(***************************************************************************)
(* What the compiler leaves implicit in its bytecode: which handlers,      *)
(* loops, begins and ensure bodies enclose each instruction, and how many  *)
(* operands are on the stack there.  N maps the reachable addresses of the *)
(* code c to a record                                                      *)
(*   entry    the address its method starts at                             *)
(*   rescues  the pushes of the handlers installed there, outermost first  *)
(*   loops    the EnterLoops of the open loops                             *)
(*   bodies   the PushEnsures of the exceptional ensure bodies around it   *)
(*   begins   the EnterBegins open in the innermost of those bodies        *)
(*   depth    the operands pushed since that body (or method) was entered  *)
(* WellNested says that each instruction agrees with its successors.       *)
(***************************************************************************)
EXTENDS Naturals, Integers, Sequences, FiniteSets, SequencesExt

Pushes  == {"PushRescue", "PushEnsure"}
Pops    == {"PopRescue", "PopEnsure"}
Leaps   == {"BreakLoop", "NextLoop"}
Unnests == "TruncateRescuesToBeginBaseline"

Count(c, ops, lo, hi) == Cardinality({i \in lo .. hi : c[i].op \in ops})
Nesting(c, in, out, lo, hi) == Count(c, in, lo, hi) - Count(c, out, lo, hi)

\* The EndEnsure that closes the ensure body that starts at b.
BodyEnd(c, b) == CHOOSE j \in b .. Len(c) :
                   /\ Count(c, {"EndEnsure"}, b, j) > Count(c, {"PushEnsure"}, b, j)
                   /\ \A i \in b .. j - 1 : Count(c, {"EndEnsure"}, b, i) <= Count(c, {"PushEnsure"}, b, i)

Point(e, r, l, s, b, d) ==
  [entry |-> e, rescues |-> r, loops |-> l, bodies |-> s, begins |-> b, depth |-> d]
PointT(c) == [entry : 1 .. Len(c), rescues : Seq(1 .. Len(c)), loops : Seq(1 .. Len(c)),
              bodies : Seq(1 .. Len(c)), begins : Seq(1 .. Len(c)), depth : Nat]
OpT(V)    == [op : STRING, x : Int, v : V]

Goal(c, i)  == i + c[i].x
Ens(c, a)   == c[a].op = "PushEnsure"
Level(N, i) == Len(N[i].bodies)

(***************************************************************************)
(* The scopes recorded at i, each by the address a that opens it, enclose  *)
(* i: what is open at a is open at i, and the body that a is in holds no   *)
(* fewer begins and operands at i, or where the next body was protected.   *)
(***************************************************************************)
Over(N, a, i) == Len(N[a].begins) <= Len(N[i].begins) /\ N[a].depth <= N[i].depth

Around(N, a, i) ==
  /\ a \in DOMAIN N
  /\ N[a].entry = N[i].entry
  /\ IsPrefix(N[a].rescues, N[i].rescues)
  /\ IsPrefix(N[a].loops, N[i].loops)
  /\ IsPrefix(N[a].bodies, N[i].bodies)
  /\ IF Level(N, a) = Level(N, i) THEN Over(N, a, i)
     ELSE Over(N, a, N[i].bodies[Level(N, a) + 1])

\* Scopes are opened in some order: the handlers of i above those of a loop or a
\* body were pushed inside it, and so were the loops above those of a body.
HandlersInLoops(N, i) ==
  \A j \in DOMAIN N[i].loops, k \in DOMAIN N[i].rescues :
    k > Len(N[N[i].loops[j]].rescues) => Len(N[N[i].rescues[k]].loops) >= j
HandlersInBodies(N, i) ==
  \A j \in DOMAIN N[i].bodies, k \in DOMAIN N[i].rescues :
    k > Len(N[N[i].bodies[j]].rescues) => Level(N, N[i].rescues[k]) >= j
LoopsInBodies(N, i) ==
  \A j \in DOMAIN N[i].bodies, k \in DOMAIN N[i].loops :
    k > Len(N[N[i].bodies[j]].loops) => Level(N, N[i].loops[k]) >= j

Scoped(c, N, i) ==
  LET n == N[i]
  IN /\ \A j \in DOMAIN n.rescues : /\ Around(N, n.rescues[j], i)
                                    /\ c[n.rescues[j]].op \in Pushes
                                    /\ Len(N[n.rescues[j]].rescues) = j - 1
     /\ \A j \in DOMAIN n.loops :   /\ Around(N, n.loops[j], i)
                                    /\ c[n.loops[j]].op = "EnterLoop"
                                    /\ Len(N[n.loops[j]].loops) = j - 1
     /\ \A j \in DOMAIN n.bodies :  /\ Around(N, n.bodies[j], i)
                                    /\ Ens(c, n.bodies[j]) /\ Level(N, n.bodies[j]) = j - 1
                                    /\ i \in Goal(c, n.bodies[j]) .. BodyEnd(c, Goal(c, n.bodies[j]))
     /\ \A j \in DOMAIN n.begins :  /\ Around(N, n.begins[j], i)
                                    /\ c[n.begins[j]].op = "EnterBegin"
                                    /\ Level(N, n.begins[j]) = Level(N, i)
     /\ HandlersInLoops(N, i) /\ HandlersInBodies(N, i) /\ LoopsInBodies(N, i)

(***************************************************************************)
(* Transfers.  A break or next goes to the innermost loop, a return leaves *)
(* the method.                                                             *)
(***************************************************************************)
\* The operand that i pops lies above those of the handlers and loops of its body.
Popping(N, i) ==
  /\ N[i].depth >= 1
  /\ \A j \in DOMAIN N[i].rescues :
       Level(N, N[i].rescues[j]) = Level(N, i) => N[N[i].rescues[j]].depth < N[i].depth
  /\ \A j \in DOMAIN N[i].loops :
       Level(N, N[i].loops[j]) = Level(N, i) => N[N[i].loops[j]].depth < N[i].depth

\* Between an ensure region that i leaves and level l, no rescue clause in an
\* ensure body that i leaves too: rescuing there what the region's own body raised
\* would go on in a body whose walk is gone (README, section 5).
NoRescueWithin(c, N, i, lo, l) ==
  \A p, q \in lo .. Len(N[i].rescues) :
    p < q /\ ~ Ens(c, N[i].rescues[p]) /\ Ens(c, N[i].rescues[q]) => Level(N, N[i].rescues[p]) <= l

\* Some return leaves through the ensure region that a protects.
Crossed(c, N, a) ==
  \E i \in DOMAIN N : c[i].op = "Return" /\ \E j \in DOMAIN N[i].rescues : N[i].rescues[j] = a

\* The loop is not in an ensure body that holds another such region around i.
Leaves(c, N, i) ==
  LET a == Last(N[i].loops)
  IN /\ N[i].loops # <<>>
     /\ c[i].op = "BreakLoop" => Popping(N, i)
     /\ NoRescueWithin(c, N, i, Len(N[a].rescues) + 1, Level(N, a))
     /\ Level(N, a) # 0 =>
          \A j \in Level(N, a) + 1 .. Level(N, i) : ~ Crossed(c, N, N[i].bodies[j])

\* The loops that are open at a return are those around each ensure region that
\* it leaves (README, section 5).
Returns(c, N, i) ==
  /\ N[i].entry # 1
  /\ Popping(N, i)
  /\ NoRescueWithin(c, N, i, 1, 0)
  /\ \A j \in DOMAIN N[i].rescues :
       Ens(c, N[i].rescues[j]) => Len(N[N[i].rescues[j]].loops) = Len(N[i].loops)

(***************************************************************************)
(* Successors.                                                             *)
(***************************************************************************)
Is(N, i, p) == i \in DOMAIN N /\ N[i] = p

Goes(c, N, i) ==
  LET n  == N[i]
      op == c[i].op
      On(r, l, b, d) == Is(N, i + 1, Point(n.entry, r, l, n.bodies, b, d))
  IN /\ op \in {"Load", "Tick", "Call"} => On(n.rescues, n.loops, n.begins, n.depth + 1)
     /\ op = "Pop" => n.depth >= 1 /\ On(n.rescues, n.loops, n.begins, n.depth - 1)
     /\ op = "JumpUnless" => On(n.rescues, n.loops, n.begins, n.depth)
     /\ op \in Pushes => On(Append(n.rescues, i), n.loops, n.begins, n.depth)
     /\ op \in Pops => n.rescues # <<>> /\ On(Front(n.rescues), n.loops, n.begins, n.depth)
     /\ op = "EnterBegin" => On(n.rescues, n.loops, Append(n.begins, i), n.depth)
     /\ op = "ExitBegin" => n.begins # <<>> /\ On(n.rescues, n.loops, Front(n.begins), n.depth)
     /\ op = Unnests => /\ n.begins # <<>>
                        /\ On(N[Last(n.begins)].rescues, N[Last(n.begins)].loops, n.begins, n.depth)
     /\ op = "EnterLoop" => On(n.rescues, Append(n.loops, i), n.begins, n.depth)
     /\ op = "ExitLoop" => /\ n.loops # <<>> /\ On(n.rescues, Front(n.loops), n.begins, n.depth)
                           /\ Level(N, Last(n.loops)) = Level(N, i)
                           /\ Len(N[Last(n.loops)].begins) = Len(n.begins)

Jumps(c, N, i) ==
  LET n  == N[i]
      op == c[i].op
      a  == Last(n.loops)
      To(p) == Is(N, Goal(c, i), p)
  IN /\ op \in {"Jump", "JumpUnless"} => To(n)
     /\ op = "Call" => /\ Goal(c, i) # 1 /\ To(Point(Goal(c, i), <<>>, <<>>, <<>>, <<>>, 0))
                       /\ c[i + 1].op # Unnests
     /\ op = "PushRescue" =>
          LET r == N[Goal(c, i)].rescues
          IN /\ To(Point(n.entry, r, n.loops, n.bodies, n.begins, n.depth))
             /\ IsPrefix(r, n.rescues) /\ c[Goal(c, i)].op = Unnests
     /\ op = "PushEnsure" => To(Point(n.entry, n.rescues, n.loops, Append(n.bodies, i), <<>>, 0))
     /\ op \in Leaps => LET d == IF op = "BreakLoop" THEN 1 ELSE 0
                        IN To(Point(n.entry, N[a].rescues, n.loops, N[a].bodies, N[a].begins, N[a].depth + d))
     /\ op \in Leaps => Leaves(c, N, i)
     /\ op = "Raise" => Popping(N, i)
     /\ op = "EndEnsure" => n.bodies # <<>> /\ N[i] = N[Goal(c, Last(n.bodies))]
     /\ op = "Return" => Returns(c, N, i)

\* The nesting recorded at a leaf is the nesting in the text.
Marked(c, N, i) ==
  c[i].op = "Tick" =>
    /\ Len(N[i].rescues) = Nesting(c, Pushes, Pops, N[i].entry, i)
    /\ Len(N[i].loops) = Nesting(c, {"EnterLoop"}, {"ExitLoop"}, N[i].entry, i)

WellNested(c, N) ==
  /\ c \in Seq(OpT({c[i].v : i \in DOMAIN c}))
  /\ DOMAIN N \subseteq DOMAIN c /\ \A i \in DOMAIN N : N[i] \in PointT(c)
  /\ Is(N, 1, Point(1, <<>>, <<>>, <<>>, <<>>, 0))
  /\ \A i \in DOMAIN N : Scoped(c, N, i) /\ Goes(c, N, i) /\ Jumps(c, N, i) /\ Marked(c, N, i)
=============================================================================
