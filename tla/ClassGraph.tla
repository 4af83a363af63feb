---------------------------- MODULE ClassGraph ----------------------------
(***************************************************************************)
(* The mutable class tables of the interpreter and the walks over them:    *)
(* what a method name, a `super` and a class variable resolve to.  The     *)
(* tables are one record t in Tables:                                      *)
(*   own       Class::methods                                              *)
(*   pre, inc  Class::prepends, Class::includes                            *)
(*   dead      Class::undefed                                              *)
(*   sup       Class::superclass                                           *)
(* and the set of classes that own the class variable `@@v`.               *)
(***************************************************************************)
EXTENDS Naturals, Sequences, SequencesExt, FiniteSets

CONSTANTS Classes, Modules, Names, Bodies, None

Nodes == Classes \cup Modules

Tables == [own : [Nodes -> [Names -> Bodies \cup {None}]],
           pre : [Nodes -> Seq(Modules)], inc : [Nodes -> Seq(Modules)],
           dead : [Nodes -> SUBSET Names], sup : [Nodes -> Classes \cup {None}]]

\* A node in dispatch order: its prepends, itself, its includes, transitively.
Flat(t) ==
  LET top == Cardinality(Modules) + 1
      F[d \in 0 .. top, x \in Nodes] ==
        IF d = 0 THEN <<>>
        ELSE LET Cat(s) == FlattenSeq([i \in DOMAIN s |-> F[d - 1, s[i]]])
             IN Cat(t.pre[x]) \o <<x>> \o Cat(t.inc[x])
  IN [x \in Nodes |-> F[top, x]]

\* A node and its superclasses; a module has none.
Chain(sup, c) ==
  LET top == Cardinality(Classes) + 1
      F[d \in 0 .. top, x \in Nodes \cup {None}] ==
        IF d = 0 \/ x = None THEN <<>> ELSE <<x>> \o F[d - 1, sup[x]]
  IN F[top, c]

\* The first body in s for n.
FirstOf(t, s, n) ==
  LET i == SelectInSeq(s, LAMBDA x: t.own[x][n] # None)
  IN IF i = 0 THEN None ELSE t.own[s[i]][n]

\* walk_method: class by class; a tombstone stops the walk after its class.
Resolve(t, c, n) ==
  LET chain == Chain(t.sup, c)
      flat  == Flat(t)
      Here(x) == FirstOf(t, flat[x], n)
      i == SelectInSeq(chain, LAMBDA x: Here(x) # None \/ n \in t.dead[x])
  IN IF i = 0 THEN None ELSE Here(chain[i])

\* flatten_ancestors: a module reached twice keeps its first place.
Ancestors(t, c) ==
  LET chain == Chain(t.sup, c)
      flat  == Flat(t)
      all   == FlattenSeq([i \in DOMAIN chain |-> flat[chain[i]]])
      First(i) == \A j \in 1 .. i - 1 : all[j] # all[i]
  IN FoldLeft(LAMBDA s, i: IF First(i) THEN Append(s, all[i]) ELSE s,
              <<>>, [i \in DOMAIN all |-> i])

\* super_lookup: the next body after class d among ancestors a.
NextAfter(t, a, d, n) ==
  LET i == SelectInSeq(a, LAMBDA x: x = d)
  IN IF i = 0 THEN None ELSE FirstOf(t, SubSeq(a, i + 1, Len(a)), n)

\* cvar_owner_class: the class itself, or the first superclass among the owners.
CvarOwner(sup, owners, c) ==
  LET chain == Chain(sup, c)
      i == SelectInSeq(chain, LAMBDA x: x \in owners)
  IN IF c \in owners THEN c ELSE IF i = 0 THEN None ELSE chain[i]

\* class_reaches_via_chain: what x's own chain of that kind, or a superclass's,
\* already reaches.
Reaches(t, x, m, kind) ==
  \E y \in ToSet(Chain(t.sup, x)) :
     \/ y = m
     \/ \E z \in ToSet(t[kind][y]) : m \in ToSet(Flat(t)[z])
=============================================================================
