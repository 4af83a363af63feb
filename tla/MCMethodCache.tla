--------------------------- MODULE MCMethodCache ---------------------------
(* Two classes, related or to be related by a reopening, one module;       *)
(* the first has a method_missing.                                         *)
EXTENDS MethodCache, TLC
CONSTANTS C, D, M, f, mm, b1, b2
Empty == [own |-> [x \in Nodes |-> [n \in Names |-> None]], pre |-> [x \in Nodes |-> <<>>],
          inc |-> [x \in Nodes |-> <<>>], dead |-> [x \in Nodes |-> {}],
          sup |-> [x \in Nodes |-> None]]
Own(p) == [tab |-> [Empty EXCEPT !.own[C][mm] = b1, !.own[D][f] = b1, !.sup[D] = p], cvars |-> {}]
Snapshots == {Own(None), Own(C)}
Program == {<<C, f, b2>>, <<D, f, b2>>, <<M, f, b2>>}
Undefs == {<<f>>}
Includes == {<<M>>, <<NotAModule, M>>}
\* The sites share the tables and read nothing of each other's, so one of them
\* is exercised at a time.
CvarFamily == cvs # NoCv \/ cvars # {}
OneSite ==
  /\ Cardinality({s \in Sites : sites[s] # EmptySite} \cup {s \in SuperSites : sup[s] # NoSup})
     + (IF CvarFamily THEN 1 ELSE 0) <= 1
  \* Modules go into C when D inherits from it at first, and into D otherwise; super
  \* is called on D; only superclasses matter to owners.
  /\ LET other == IF base.tab.sup[D] = C THEN D ELSE C
     IN tab.inc[other] = <<>> /\ tab.pre[other] = <<>> /\ (op.kind \in {"inc", "pre"} => op.on # other)
  /\ memo[C].gen = 0 /\ op.on # M
  /\ CvarFamily => op = Idle /\ tab = [base.tab EXCEPT !.sup = tab.sup]
=============================================================================
