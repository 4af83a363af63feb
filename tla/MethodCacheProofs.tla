------------------------- MODULE MethodCacheProofs -------------------------
(***************************************************************************)
(* For any classes, names, call sites, cache sizes and snapshots: an entry *)
(* that counts holds what the walk over the tables of now would find.      *)
(*                                                                         *)
(* That alone is not inductive.  Every entry also carries a generation     *)
(* that method_gen (cvar_gen) has already passed or is at, so that a bump  *)
(* retires all of them; and the current ones are right unless an           *)
(* undef_method or include is behind.  A reset sets method_gen back: what  *)
(* it does not clear is either older than the new value or kept.  The      *)
(* walks themselves are never expanded.                                    *)
(***************************************************************************)
EXTENDS MethodCache, NatLemmas

\* What the walks may return; their definitions are not expanded.
Found == {Resolve(t, c, n) : t \in Tables, c \in Nodes, n \in Names} \cup {None}
Mros  == {Ancestors(t, c) : t \in Tables, c \in Classes} \cup {<<>>}

Supers  == [recv : Classes \cup {None}, after : Nodes \cup {None}, gen : Nat,
            body : {NextAfter(t, a, d, Called) : t \in Tables, a \in Mros, d \in Nodes} \cup {None}]
Entries == [key : Classes \cup {None}, mm : BOOLEAN, gen : Nat, body : Found]
Maps    == UNION {[K -> Found] : K \in SUBSET (Nodes \X Names)}
Args    == Seq(Names) \cup Seq(Modules \cup {NotAModule})

TypeOK ==
  /\ base \in Baselines /\ tab \in Tables
  /\ mgen \in Nat /\ mgen >= 1 /\ cgen \in Nat /\ behind \in BOOLEAN
  /\ sites \in [Sites -> [ways : [1 .. Ways -> Entries], next : 1 .. Ways]]
  /\ global \in [gen : Nat, map : Maps]
  /\ memo \in [Classes -> [gen : Nat, mro : Mros]]
  /\ sup \in [SuperSites -> Supers] /\ cvs.gen \in Nat
  /\ op \in [kind : {"none", "undef", "inc", "pre"}, on : Nodes \cup {None}, rest : Args, hook : BOOLEAN]
  /\ op.kind = "undef" => op.on \in Nodes /\ op.rest \in Seq(Names)
  /\ op.kind \in {"inc", "pre"} => op.on \in Nodes /\ op.rest \in Seq(Modules \cup {NotAModule})

\* What an entry of a call site says, and what the walk says.
Right(e) ==
  e.key # None =>
    IF e.mm THEN Resolve(tab, e.key, Called) = None /\ e.body = Resolve(tab, e.key, Missing)
    ELSE e.body = Resolve(tab, e.key, Called)

Current(e) == e.gen <= mgen /\ (e.gen = mgen /\ ~ behind => Right(e))

SitesInv == \A s \in Sites \ kept : \A i \in 1 .. Ways : Current(sites[s].ways[i])

\* A map from a later generation, which a reset leaves, is empty.
GlobalInv ==
  /\ global.gen > mgen => DOMAIN global.map = {}
  /\ global.gen = mgen /\ ~ behind =>
       \A k \in DOMAIN global.map : global.map[k] = Resolve(tab, k[1], k[2])

MemoInv ==
  \A c \in Classes \ kept :
    /\ memo[c].gen <= mgen
    /\ memo[c].gen = mgen /\ ~ behind => memo[c].mro = Ancestors(tab, c)

SuperInv ==
  \A s \in SuperSites \ kept :
    /\ sup[s].gen <= mgen
    /\ sup[s].recv \notin kept \cup {None} /\ sup[s].gen = mgen /\ ~ behind =>
         sup[s].body = NextAfter(tab, Ancestors(tab, sup[s].recv), sup[s].after, Called)

CvarsInv == cvs.gen <= cgen /\ CvarsExact

IInv == TypeOK /\ SitesInv /\ GlobalInv /\ MemoInv /\ SuperInv /\ CvarsInv

(***************************************************************************)
(* What a step does to the tables and generations, and who writes a cache. *)
(***************************************************************************)
\* The tables move only behind method_gen's back or with it.
Keeps == /\ mgen' = mgen /\ kept' = kept
         /\ (tab' = tab /\ behind' = behind) \/ behind' = TRUE
Bumps == mgen' = mgen + 1 /\ kept' = kept /\ UNCHANGED caches

\* Every step keeps method_gen (and owns up to a change of the tables), bumps it, or
\* is a reset.
LEMMA NextTables == TypeOK /\ [Next]_vars => Keeps \/ Bumps \/ Reset
<1> SUFFICES ASSUME TypeOK, [Next]_vars PROVE Keeps \/ Bumps \/ Reset
  OBVIOUS
<1>1. ASSUME behind' = (behind \/ tab' # tab), mgen' = mgen, kept' = kept PROVE Keeps
  <2>1. CASE tab' = tab
    BY <1>1, <2>1 DEF Keeps, TypeOK
  <2>2. CASE tab' # tab
    BY <1>1, <2>2 DEF Keeps
  <2> QED BY <2>1, <2>2
<1>2. UndefNext \/ IncludeNext => Keeps
  BY <1>1 DEF UndefNext, IncludeNext
<1> QED BY <1>2, ZenonT(30) DEF Next, vars, caches, Keeps, Bumps, Lookup, FillMissing, SuperLookup, CvarLoad,
     CvarStore, CvarSet, DefMethod, RemoveMethod, Reopen, AppendFeatures, Begin, HookReturns, HookRaises,
     Finish, Bump


\* The caches each have few writers.
LEMMA Writers ==
  ASSUME [Next]_vars
  PROVE  /\ \/ UNCHANGED sites \/ Reset
            \/ \E s \in Sites, c \in Classes : Lookup(s, c) \/ FillMissing(s, c)
         /\ \/ UNCHANGED global \/ Reset \/ UndefNext
            \/ \E s \in Sites, c \in Classes : Lookup(s, c) \/ FillMissing(s, c)
         /\ \/ UNCHANGED <<memo, sup>> \/ Reset
            \/ \E s \in SuperSites, c \in Classes, d \in Nodes : SuperLookup(s, c, d)
         /\ UNCHANGED cvs \/ Reset \/ \E c \in Classes : CvarLoad(c) \/ CvarStore(c)
BY Zenon DEF Next, vars, caches, SuperLookup, CvarLoad, CvarStore, CvarSet, DefMethod, RemoveMethod, Reopen,
     AppendFeatures, Begin, IncludeNext, UndefNext, Lookup, FillMissing, HookReturns, HookRaises, Finish

(***************************************************************************)
(* Types.                                                                  *)
(***************************************************************************)
\* A fill writes one way of one site.
LEMMA FilledSite ==
  ASSUME TypeOK, NEW s \in Sites, NEW e \in Entries
  PROVE  /\ Filled(s, e) \in [Sites -> [ways : [1 .. Ways -> Entries], next : 1 .. Ways]]
         /\ \A t \in Sites \ {s} : Filled(s, e)[t] = sites[t]
         /\ \A i \in 1 .. Ways : Filled(s, e)[s].ways[i] \in {e, sites[s].ways[i]}
<1> USE CacheAssumption DEF TypeOK
<1> DEFINE x  == sites[s]
           n  == IF x.next = Ways THEN 1 ELSE x.next + 1
           y  == [ways |-> [x.ways EXCEPT ![x.next] = e], next |-> n]
<1>1. x \in [ways : [1 .. Ways -> Entries], next : 1 .. Ways]
  OBVIOUS
<1>2. Filled(s, e) = [sites EXCEPT ![s] = y]
  BY <1>1 DEF Filled
<1>3. n \in 1 .. Ways
  BY <1>1
<1> HIDE DEF x, n
<1>4. y \in [ways : [1 .. Ways -> Entries], next : 1 .. Ways]
  BY <1>1, <1>3
<1>5. \A i \in 1 .. Ways : y.ways[i] \in {e, x.ways[i]}
  BY <1>1
<1> HIDE DEF y
<1> QED BY <1>2, <1>4, <1>5 DEF x

\* The types hold after the snapshot.
LEMMA InitType == Init => TypeOK
<1> SUFFICES ASSUME Init PROVE TypeOK
  OBVIOUS
<1> USE DEF Init
<1>1. tab \in Tables
  BY TablesAssumption
<1>2. sites \in [Sites -> [ways : [1 .. Ways -> Entries], next : 1 .. Ways]]
  <2>1. Unset \in Entries
    BY DEF Unset, Entries, Found
  <2> QED BY <2>1, CacheAssumption DEF EmptySite
<1>3. op \in [kind : {"none", "undef", "inc", "pre"}, on : Nodes \cup {None}, rest : Args, hook : BOOLEAN]
  BY DEF Idle, Args
<1>4. global \in [gen : Nat, map : Maps]
  <2>1. EmptyMap \in [{} -> Found]
    BY DEF EmptyMap
  <2> QED BY <2>1 DEF Maps
<1>5. memo \in [Classes -> [gen : Nat, mro : Mros]]
  BY DEF Mros
<1>6. op.kind = "none" /\ NoSup \in Supers /\ sup \in [SuperSites -> Supers] /\ cvs.gen = 0
  BY DEF Idle, NoSup, Supers, NoCv
<1>7. base \in Baselines /\ mgen \in Nat /\ mgen >= 1 /\ cgen \in Nat
  OBVIOUS
<1>8. behind \in BOOLEAN
  BY Zenon
<1> QED BY <1>1, <1>2, <1>3, <1>4, <1>5, <1>6, <1>7, <1>8, Zenon DEF TypeOK

\* A lookup returns something a walk may return, and the walk of now unless the
\* tables are ahead of method_gen.
LEMMA UncachedFound ==
  ASSUME TypeOK, NEW c \in Nodes, NEW n \in Names
  PROVE  Uncached(c, n) \in Found /\ (GlobalInv /\ ~ behind => Uncached(c, n) = Resolve(tab, c, n))
<1>1. Resolve(tab, c, n) \in Found
  BY DEF TypeOK, Found
<1>2. CASE GlobalHit(c, n)
  <2>1. global.map \in Maps
    BY DEF TypeOK
  <2>2. PICK K \in SUBSET (Nodes \X Names) : global.map \in [K -> Found]
    BY <2>1 DEF Maps
  <2>3. <<c, n>>[1] = c /\ <<c, n>>[2] = n
    OBVIOUS
  <2> QED BY <1>2, <2>2, <2>3 DEF Uncached, GlobalHit, GlobalInv
<1>3. CASE ~ GlobalHit(c, n)
  BY <1>1, <1>3 DEF Uncached
<1> QED BY <1>2, <1>3

\* The global cache after a lookup: of this generation, with the old entries of
\* this generation or fewer, and what was found.
LEMMA AfterLookup ==
  ASSUME TypeOK, NEW c \in Nodes, NEW n \in Names
  PROVE  /\ AfterUncached(c, n) \in [gen : Nat, map : Maps]
         /\ AfterUncached(c, n) = global \/ AfterUncached(c, n).gen = mgen
         /\ GlobalInv /\ ~ behind =>
              \A k \in DOMAIN AfterUncached(c, n).map :
                 AfterUncached(c, n).gen = mgen => AfterUncached(c, n).map[k] = Resolve(tab, k[1], k[2])
<1>1. CASE GlobalHit(c, n)
  BY <1>1 DEF AfterUncached, GlobalInv, TypeOK
<1>2. CASE ~ GlobalHit(c, n)
  <2> DEFINE m == IF global.gen # mgen \/ Cardinality(DOMAIN global.map) >= Cap THEN EmptyMap ELSE global.map
             u == Uncached(c, n)
             p == [k \in DOMAIN m \cup {<<c, n>>} |-> IF k = <<c, n>> THEN u ELSE m[k]]
  <2>1. AfterUncached(c, n) = [gen |-> mgen, map |-> p]
    BY <1>2 DEF AfterUncached, Put
  <2>2. EmptyMap \in [{} -> Found] /\ global.map \in Maps
    BY DEF EmptyMap, TypeOK
  <2>3. PICK K \in SUBSET (Nodes \X Names) : m \in [K -> Found]
    BY <2>2 DEF Maps
  <2>4. u \in Found /\ (GlobalInv /\ ~ behind => u = Resolve(tab, c, n))
    BY UncachedFound
  <2>5. GlobalInv /\ ~ behind => \A k \in DOMAIN m : m[k] = Resolve(tab, k[1], k[2])
    BY DEF GlobalInv, EmptyMap
  <2>6. <<c, n>> \in Nodes \X Names /\ <<c, n>>[1] = c /\ <<c, n>>[2] = n
    OBVIOUS
  <2> HIDE DEF m, u
  <2>7. p \in [K \cup {<<c, n>>} -> Found]
    BY <2>3, <2>4
  <2>8. p \in Maps
    BY <2>6, <2>7 DEF Maps
  <2>9. GlobalInv /\ ~ behind => \A k \in DOMAIN p : p[k] = Resolve(tab, k[1], k[2])
    BY <2>4, <2>5, <2>6
  <2> HIDE DEF p
  <2> QED BY <2>1, <2>8, <2>9 DEF TypeOK
<1> QED BY <1>1, <1>2

MissingEntry(c) == [key |-> c, mm |-> TRUE, gen |-> mgen, body |-> Uncached(c, Missing)]

\* fill_method_missing_site writes only the ways of one site.
LEMMA MissingSite ==
  ASSUME TypeOK, NEW s \in Sites, NEW c \in Classes, FillMissing(s, c)
  PROVE  /\ sites' \in [Sites -> [ways : [1 .. Ways -> Entries], next : 1 .. Ways]]
         /\ \A t \in Sites \ {s} : sites'[t] = sites[t]
         /\ \A i \in 1 .. Ways : sites'[s].ways[i] \in {MissingEntry(c), Unset, sites[s].ways[i]}
<1> DEFINE w == sites[s].ways
           first == CHOOSE i \in 1 .. Ways : Negative(w[i], c) /\ \A j \in 1 .. i - 1 : ~ Negative(w[j], c)
           v == [i \in 1 .. Ways |-> IF i = first THEN MissingEntry(c)
                                     ELSE IF w[i].key = c /\ w[i].mm THEN Unset ELSE w[i]]
           n == sites[s].next
<1>1. sites' = [sites EXCEPT ![s] = [ways |-> v, next |-> n]]
  BY DEF FillMissing, MissingEntry
<1>2. MissingEntry(c) \in Entries /\ Unset \in Entries
  <2>1. c \in Nodes /\ Missing \in Names
    BY CacheAssumption DEF Nodes
  <2>2. Uncached(c, Missing) \in Found
    BY <2>1, UncachedFound
  <2> QED BY <2>2 DEF MissingEntry, Unset, Entries, Found, TypeOK
<1>3. w \in [1 .. Ways -> Entries] /\ n \in 1 .. Ways
  BY DEF TypeOK
<1> HIDE DEF w, first, n
<1>4. v \in [1 .. Ways -> Entries] /\ \A i \in 1 .. Ways : v[i] \in {MissingEntry(c), Unset, w[i]}
  BY <1>2, <1>3
<1> HIDE DEF v
<1> QED BY <1>1, <1>3, <1>4 DEF TypeOK, w

\* The call-site caches keep their type.
LEMMA NextSites == TypeOK /\ [Next]_vars => sites' \in [Sites -> [ways : [1 .. Ways -> Entries], next : 1 .. Ways]]
<1> SUFFICES ASSUME TypeOK, [Next]_vars
             PROVE  sites' \in [Sites -> [ways : [1 .. Ways -> Entries], next : 1 .. Ways]]
  OBVIOUS
<1>1. CASE UNCHANGED sites
  BY <1>1 DEF TypeOK
<1>2. CASE Reset
  <2>1. Unset \in Entries
    BY DEF Unset, Entries, Found
  <2>2. EmptySite \in [ways : [1 .. Ways -> Entries], next : 1 .. Ways]
    BY <2>1, CacheAssumption DEF EmptySite
  <2> QED BY <1>2, <2>2 DEF Reset, TypeOK
<1>3. ASSUME NEW s \in Sites, NEW c \in Classes, Lookup(s, c)
      PROVE  sites' \in [Sites -> [ways : [1 .. Ways -> Entries], next : 1 .. Ways]]
  <2>1. c \in Nodes /\ Called \in Names
    BY CacheAssumption DEF Nodes
  <2>2. Uncached(c, Called) \in Found
    BY <2>1, UncachedFound
  <2>3. [key |-> c, mm |-> FALSE, gen |-> mgen, body |-> Uncached(c, Called)] \in Entries
    BY <2>2 DEF Entries, TypeOK
  <2> QED BY <1>3, <2>3, FilledSite DEF Lookup
<1>4. ASSUME NEW s \in Sites, NEW c \in Classes, FillMissing(s, c)
      PROVE  sites' \in [Sites -> [ways : [1 .. Ways -> Entries], next : 1 .. Ways]]
  BY <1>4, MissingSite
<1> QED BY <1>1, <1>2, <1>3, <1>4, Writers

\* The global cache keeps its type.
LEMMA NextGlobal == TypeOK /\ [Next]_vars => global' \in [gen : Nat, map : Maps]
<1> SUFFICES ASSUME TypeOK, [Next]_vars PROVE global' \in [gen : Nat, map : Maps]
  OBVIOUS
<1>1. CASE UNCHANGED global
  BY <1>1 DEF TypeOK
<1>2. CASE Reset
  <2>1. EmptyMap \in [{} -> Found]
    BY DEF EmptyMap
  <2>2. EmptyMap \in Maps
    BY <2>1 DEF Maps
  <2> QED BY <1>2, <2>2 DEF Reset, TypeOK
<1>3. CASE UndefNext
  <2>1. op.on \in Nodes /\ Head(op.rest) \in Names
    BY <1>3 DEF UndefNext, TypeOK
  <2> QED BY <1>3, <2>1, AfterLookup DEF UndefNext
<1>4. ASSUME NEW s \in Sites, NEW c \in Classes, Lookup(s, c) \/ FillMissing(s, c)
      PROVE  global' \in [gen : Nat, map : Maps]
  <2>1. c \in Nodes /\ Called \in Names /\ Missing \in Names
    BY CacheAssumption DEF Nodes
  <2> QED BY <1>4, <2>1, AfterLookup DEF Lookup, FillMissing
<1> QED BY <1>1, <1>2, <1>3, <1>4, Writers

\* A change of the tables keeps their shape, and the superclasses too unless
\* cvar_gen moves or a reset forgets the owner cache.
LEMMA NextTab ==
  ASSUME TypeOK, [Next]_vars
  PROVE  tab' \in Tables /\ ((tab'.sup = tab.sup /\ cvars' = cvars) \/ cgen' = cgen + 1 \/ Reset)
<1> DEFINE Same  == tab' \in Tables /\ tab'.sup = tab.sup /\ cvars' = cvars
           Moved == tab' \in Tables /\ (cgen' = cgen + 1 \/ Reset)
<1> USE DEF TypeOK, Tables
<1>1. ASSUME NEW d \in Defs, DefMethod(d[1], d[2], d[3]) PROVE Same
  <2>1. d[1] \in Nodes /\ d[2] \in Names /\ d[3] \in Bodies
    BY TablesAssumption
  <2> QED BY <1>1, <2>1 DEF DefMethod
<1>2. ASSUME NEW x \in Nodes, NEW n \in Names, RemoveMethod(x, n) PROVE Same
  BY <1>2 DEF RemoveMethod
<1>3. ASSUME NEW c \in Classes, NEW p \in Classes, Reopen(c, p) PROVE Moved
  BY <1>3 DEF Reopen, Nodes
<1>4. ASSUME UndefNext PROVE Same
  <2> DEFINE n == Head(op.rest)
             t == [tab EXCEPT !.own[op.on][n] = None]
  <2>1. op.on \in Nodes /\ n \in Names
    BY <1>4 DEF UndefNext
  <2>2. cvars' = cvars /\ (tab' = tab \/ tab' = [t EXCEPT !.dead[op.on] = @ \cup {n}])
    BY <1>4 DEF UndefNext
  <2>3. t \in Tables /\ t.sup = tab.sup
    BY <2>1
  <2> DEFINE d == t.dead[op.on] \cup {n}
  <2> HIDE DEF n, t
  <2>4. d \in SUBSET Names
    BY <2>1, <2>3
  <2>5. tab' = tab \/ tab' = [t EXCEPT !.dead[op.on] = d]
    BY <2>2
  <2> HIDE DEF d
  <2>6. [t EXCEPT !.dead[op.on] = d] \in Tables /\ [t EXCEPT !.dead[op.on] = d].sup = t.sup
    BY <2>1, <2>3, <2>4
  <2> QED BY <2>2, <2>3, <2>5, <2>6
<1>i. ASSUME NEW x \in Nodes, NEW m \in Modules, NEW k \in {"inc", "pre"}
      PROVE  Inserted(x, m, k) \in Tables /\ Inserted(x, m, k).sup = tab.sup
  <2> DEFINE q(h) == <<m>> \o tab[h][x]
  <2>1. Inserted(x, m, k) = tab \/ Inserted(x, m, k) = [tab EXCEPT ![k][x] = q(k)]
    BY DEF Inserted
  <2>2. q("inc") \in Seq(Modules) /\ q("pre") \in Seq(Modules)
    OBVIOUS
  <2> HIDE DEF q
  <2>3. LET t == [tab EXCEPT !.inc[x] = q("inc")] IN t \in Tables /\ t.sup = tab.sup
    BY <2>2
  <2>4. LET t == [tab EXCEPT !.pre[x] = q("pre")] IN t \in Tables /\ t.sup = tab.sup
    BY <2>2
  <2> QED BY <2>1, <2>3, <2>4
<1>5. ASSUME IncludeNext PROVE Same
  <2> DEFINE m == op.rest[Len(op.rest)]
  <2>1. op.on \in Nodes /\ op.kind \in {"inc", "pre"}
    BY <1>5 DEF IncludeNext
  <2>2. m \in Modules \cup {NotAModule}
    BY <1>5, <2>1 DEF IncludeNext
  <2>3. cvars' = cvars /\ (tab' = tab \/ (m # NotAModule /\ tab' = Inserted(op.on, m, op.kind)))
    BY <1>5, Zenon DEF IncludeNext
  <2> HIDE DEF m, TypeOK, Tables
  <2>4. ASSUME m # NotAModule
        PROVE  Inserted(op.on, m, op.kind) \in Tables /\ Inserted(op.on, m, op.kind).sup = tab.sup
    BY <1>i, <2>1, <2>2, <2>4
  <2>5. tab \in Tables
    BY DEF TypeOK
  <2> QED BY <2>3, <2>4, <2>5
<1>a. ASSUME NEW m \in Modules, NEW x \in Nodes, NEW k \in {"inc", "pre"}, AppendFeatures(m, x, k) PROVE Same
  BY <1>a, <1>i DEF AppendFeatures
<1>6. ASSUME Reset PROVE Moved
  <2>1. base.tab \in Tables
    BY TablesAssumption
  <2> QED BY <1>6, <2>1 DEF Reset
<1>7. ASSUME NEW c \in Classes, CvarStore(c) \/ CvarSet(c) PROVE Moved
  BY <1>7 DEF CvarStore, CvarSet
<1>8. UNCHANGED <<tab, cvars>> => Same
  OBVIOUS
<1> HIDE DEF Same, Moved, TypeOK, Tables
<1>9. \/ UNCHANGED <<tab, cvars>> \/ UndefNext \/ IncludeNext \/ Reset
      \/ \E d \in Defs : DefMethod(d[1], d[2], d[3])
      \/ \E x \in Nodes, n \in Names : RemoveMethod(x, n)
      \/ \E c, p \in Classes : Reopen(c, p)
      \/ \E c \in Classes : CvarStore(c) \/ CvarSet(c)
      \/ \E m \in Modules, x \in Nodes, k \in {"inc", "pre"} : AppendFeatures(m, x, k)
  BY Zenon DEF Next, vars, caches, Lookup, FillMissing, SuperLookup, CvarLoad, Begin, HookReturns,
     HookRaises, Finish
<1>10. Same \/ Moved
  BY <1>1, <1>2, <1>3, <1>4, <1>5, <1>a, <1>6, <1>7, <1>8, <1>9, Zenon
<1> QED BY <1>10 DEF Same, Moved

\* The operation under way keeps its type.
LEMMA NextOp ==
  ASSUME TypeOK, [Next]_vars
  PROVE  /\ op' \in [kind : {"none", "undef", "inc", "pre"}, on : Nodes \cup {None}, rest : Args, hook : BOOLEAN]
         /\ op'.kind = "undef" => op'.on \in Nodes /\ op'.rest \in Seq(Names)
         /\ op'.kind \in {"inc", "pre"} => op'.on \in Nodes /\ op'.rest \in Seq(Modules \cup {NotAModule})
<1> DEFINE Typed ==
             /\ op' \in [kind : {"none", "undef", "inc", "pre"}, on : Nodes \cup {None}, rest : Args, hook : BOOLEAN]
             /\ op'.kind = "undef" => op'.on \in Nodes /\ op'.rest \in Seq(Names)
             /\ op'.kind \in {"inc", "pre"} => op'.on \in Nodes /\ op'.rest \in Seq(Modules \cup {NotAModule})
<1> USE DEF TypeOK, Args
<1>1. op' = op => Typed
  OBVIOUS
<1>2. op' = Idle => Typed
  BY DEF Idle
<1>3. ASSUME NEW x \in Nodes, NEW a \in UndefArgs, Begin("undef", x, a) PROVE Typed
  BY <1>3, CacheAssumption DEF Begin
<1>4. ASSUME NEW x \in Nodes, NEW a \in IncludeArgs, NEW k \in {"inc", "pre"}, Begin(k, x, a) PROVE Typed
  BY <1>4, CacheAssumption DEF Begin
<1>5. ASSUME UndefNext PROVE Typed
  <2>1. Hooks \in BOOLEAN
    BY CacheAssumption
  <2>2. op.on \in Nodes /\ Tail(op.rest) \in Seq(Names)
    BY <1>5 DEF UndefNext
  <2>3. op' = Idle \/ op' = [kind |-> "undef", on |-> op.on, rest |-> Tail(op.rest), hook |-> Hooks]
    BY <1>5 DEF UndefNext
  <2> DEFINE r == Tail(op.rest)
  <2> HIDE DEF r
  <2>4. [kind |-> "undef", on |-> op.on, rest |-> r, hook |-> Hooks]
           \in [kind : {"none", "undef", "inc", "pre"}, on : Nodes \cup {None}, rest : Args, hook : BOOLEAN]
    BY <2>1, <2>2, Zenon DEF r
  <2>5. ASSUME op' # Idle PROVE op'.kind = "undef" /\ op'.on \in Nodes /\ op'.rest \in Seq(Names)
    <3> DEFINE u == [kind |-> "undef", on |-> op.on, rest |-> r, hook |-> Hooks]
    <3> HIDE DEF TypeOK, Args
    <3>1. u.kind = "undef" /\ u.on = op.on /\ u.rest = r
      OBVIOUS
    <3>2. op' = u
      BY <2>3, <2>5 DEF r
    <3> HIDE DEF u
    <3> QED BY <2>2, <3>1, <3>2 DEF r
  <2>6. ASSUME op' # Idle PROVE Typed
    BY <2>3, <2>4, <2>5, <2>6, Zenon DEF r
  <2> QED BY <1>2, <2>6
<1>6. ASSUME IncludeNext PROVE Typed
  <2>1. op.on \in Nodes /\ Front(op.rest) \in Seq(Modules \cup {NotAModule}) /\ op.kind \in {"inc", "pre"}
    BY <1>6 DEF IncludeNext, Front
  <2>2. op' = Idle \/ op' = [op EXCEPT !.rest = Front(@)] \/ op' = [op EXCEPT !.rest = Front(@), !.hook = TRUE]
    BY <1>6, Zenon DEF IncludeNext
  <2> QED BY <1>2, <2>1, <2>2
<1>7. ASSUME HookReturns PROVE Typed
  BY <1>7 DEF HookReturns
<1> HIDE DEF Typed, TypeOK, Args
<1>8. \/ op' = op \/ op' = Idle \/ UndefNext \/ IncludeNext \/ HookReturns
      \/ \E x \in Nodes, a \in UndefArgs : Begin("undef", x, a)
      \/ \E x \in Nodes, a \in IncludeArgs, k \in {"inc", "pre"} : Begin(k, x, a)
  BY Zenon DEF Next, vars, caches, Lookup, FillMissing, SuperLookup, CvarLoad, CvarStore, CvarSet, DefMethod,
     RemoveMethod, Reopen, AppendFeatures, HookRaises, Finish, Reset
<1>9. Typed
  BY <1>1, <1>2, <1>3, <1>4, <1>5, <1>6, <1>7, <1>8, Zenon
<1> QED BY <1>9 DEF Typed

\* Every step keeps the types.
LEMMA NextType == TypeOK /\ [Next]_vars => TypeOK'
<1> SUFFICES ASSUME TypeOK, [Next]_vars PROVE TypeOK'
  OBVIOUS
<1>1. /\ sites' \in [Sites -> [ways : [1 .. Ways -> Entries], next : 1 .. Ways]]
      /\ global' \in [gen : Nat, map : Maps] /\ tab' \in Tables
  BY NextSites, NextGlobal, NextTab
<1>2. base' \in Baselines
  BY DEF TypeOK, Next, vars, Lookup, FillMissing, SuperLookup, CvarLoad, CvarStore, CvarSet, DefMethod,
     RemoveMethod, Reopen, AppendFeatures, Begin, UndefNext, IncludeNext, HookReturns, HookRaises, Finish, Reset
<1>3. mgen' \in Nat /\ mgen' >= 1
  BY NextTables DEF TypeOK, Keeps, Bumps, Reset
<1>4. cgen' = cgen \/ cgen' = cgen + 1
  BY Zenon DEF Next, vars, Lookup, FillMissing, SuperLookup, CvarLoad, CvarStore, CvarSet, DefMethod,
     RemoveMethod, Reopen, AppendFeatures, Begin, UndefNext, IncludeNext, HookReturns, HookRaises, Finish, Reset
<1>5. behind' \in BOOLEAN
  BY Zenon DEF TypeOK, Next, vars, Lookup, FillMissing, SuperLookup, CvarLoad, CvarStore, CvarSet, DefMethod,
     RemoveMethod, Reopen, AppendFeatures, Bump, Begin, UndefNext, IncludeNext, HookReturns, HookRaises, Finish, Reset
<1>6. memo' \in [Classes -> [gen : Nat, mro : Mros]] /\ sup' \in [SuperSites -> Supers]
  <2>1. ASSUME NEW s \in SuperSites, NEW c \in Classes, NEW d \in Nodes, SuperLookup(s, c, d)
        PROVE  memo' \in [Classes -> [gen : Nat, mro : Mros]] /\ sup' \in [SuperSites -> Supers]
    <3> DEFINE e == [recv |-> c, after |-> d, gen |-> mgen, body |-> NextAfter(tab, Mro(c), d, Called)]
    <3>1. Mro(c) \in Mros
      BY DEF Mro, Mros, TypeOK
    <3>2. e \in Supers
      BY <3>1 DEF Supers, TypeOK
    <3>3. sup' = [sup EXCEPT ![s] = e] /\ memo' = [memo EXCEPT ![c] = [gen |-> mgen, mro |-> Mro(c)]]
      BY <2>1 DEF SuperLookup
    <3> HIDE DEF e
    <3> QED BY <3>1, <3>2, <3>3 DEF TypeOK
  <2>2. CASE UNCHANGED <<memo, sup>>
    BY <2>2 DEF TypeOK
  <2>3. CASE Reset
    <3>1. NoSup \in Supers
      BY DEF NoSup, Supers
    <3> QED BY <2>3, <3>1 DEF Reset, TypeOK
  <2> QED BY <2>1, <2>2, <2>3, Writers
<1>7. cvs'.gen \in Nat
  <2>1. ASSUME NEW c \in Classes, CvarLoad(c) \/ CvarStore(c) PROVE cvs'.gen \in Nat
    BY <2>1 DEF CvarLoad, CvarStore, TypeOK
  <2>2. CASE UNCHANGED cvs
    BY <2>2 DEF TypeOK
  <2>3. CASE Reset
    BY <2>3 DEF Reset, NoCv
  <2> QED BY <2>1, <2>2, <2>3, Writers
<1>8. cgen' \in Nat
  BY <1>4 DEF TypeOK
<1> QED BY <1>1, <1>2, <1>3, <1>5, <1>6, <1>7, <1>8, NextOp, Zenon DEF TypeOK

(***************************************************************************)
(* Each cache.                                                             *)
(***************************************************************************)
LEMMA InitInv == Init => IInv
<1> SUFFICES ASSUME Init PROVE IInv
  OBVIOUS
<1>1. TypeOK
  BY InitType
<1>2. SitesInv
  <2>1. \A s \in Sites, i \in 1 .. Ways : sites[s].ways[i] = Unset
    BY DEF Init, EmptySite
  <2>2. Unset.gen = 0 /\ mgen = 1
    BY DEF Unset, Init
  <2>3. Current(Unset)
    BY <2>2 DEF Current
  <2> QED BY <2>1, <2>3 DEF SitesInv
<1>3. GlobalInv
  BY DEF Init, GlobalInv
<1>4. MemoInv /\ SuperInv
  <2>1. NoSup.gen = 0 /\ NoSup.recv = None
    BY DEF NoSup
  <2> QED BY <2>1 DEF Init, MemoInv, SuperInv
<1>5. CvarsInv
  BY DEF Init, CvarsInv, CvarsExact, NoCv
<1> QED BY <1>1, <1>2, <1>3, <1>4, <1>5 DEF IInv

\* One way of one site.
LEMMA WayTyped ==
  ASSUME TypeOK, NEW s \in Sites, NEW i \in 1 .. Ways
  PROVE  sites[s].ways[i].gen \in Nat /\ sites[s].ways[i].mm \in BOOLEAN
<1>1. sites[s] \in [ways : [1 .. Ways -> Entries], next : 1 .. Ways]
  BY DEF TypeOK
<1>2. sites[s].ways[i] \in Entries
  BY <1>1
<1> QED BY <1>2 DEF Entries

\* A call site is filled with what the walk finds now, and a bump or a reset makes
\* older entries count no more.
LEMMA NextSitesInv == IInv /\ [Next]_vars => SitesInv'
<1> SUFFICES ASSUME IInv, [Next]_vars, NEW s \in Sites \ kept', NEW i \in 1 .. Ways
             PROVE  Current(sites[s].ways[i])'
  BY DEF SitesInv
<1> DEFINE w == sites[s].ways[i]
<1>t. TypeOK /\ SitesInv /\ GlobalInv /\ mgen \in Nat /\ mgen' \in Nat /\ mgen >= 1
  BY NextType DEF IInv, TypeOK
<1>w. w.gen \in Nat /\ (s \notin kept => Current(w))
  BY <1>t, WayTyped DEF SitesInv
<1>u. Unset.gen = 0 /\ Unset.key = None
  BY DEF Unset
<1>1. CASE Reset
  <2>1. w'.gen \in {0, 1}
    <3>1. CASE s \in PreambleSites
      <4>1. sites'[s] = sites[s] /\ ~ (w.gen >= 2)
        BY <1>1, <3>1 DEF Reset
      <4> QED BY <4>1, <1>w
    <3>2. CASE s \notin PreambleSites
      BY <1>1, <3>2, <1>u DEF Reset, EmptySite
    <3> QED BY <3>1, <3>2
  <2>2. mgen' = 2
    BY <1>1 DEF Reset
  <2> HIDE DEF w
  <2>3. Current(w)'
    BY <2>1, <2>2 DEF Current
  <2> QED BY <2>3 DEF w
<1>2. CASE w' = w /\ kept' = kept /\ mgen' = mgen + 1
  <2> HIDE DEF w
  <2>1. Current(w)'
    BY <1>2, <1>w, <1>t DEF Current
  <2> QED BY <2>1 DEF w
<1>3. CASE w' = w /\ Keeps
  <2> HIDE DEF w
  <2>1. Current(w)'
    BY <1>3, <1>w, <1>t DEF Current, Keeps, Right
  <2> QED BY <2>1 DEF w
<1>4. ASSUME NEW t \in Sites, NEW c \in Classes, Lookup(t, c), w' # w PROVE Current(w)'
  <2> DEFINE e == [key |-> c, mm |-> FALSE, gen |-> mgen, body |-> Uncached(c, Called)]
  <2>1. c \in Nodes /\ Called \in Names
    BY CacheAssumption DEF Nodes
  <2>2. Uncached(c, Called) \in Found /\ (~ behind => Uncached(c, Called) = Resolve(tab, c, Called))
    BY <1>t, <2>1, UncachedFound
  <2>3. e \in Entries /\ Current(e)
    BY <2>2, <1>t DEF Entries, Right, Current
  <2>4. sites' = Filled(t, e) /\ UNCHANGED <<mgen, behind, tab>>
    BY <1>4 DEF Lookup
  <2> HIDE DEF e
  <2>5. w' = e
    <3>1. /\ \A v \in Sites \ {t} : sites'[v] = sites[v]
          /\ \A j \in 1 .. Ways : sites'[t].ways[j] \in {e, sites[t].ways[j]}
      BY <1>t, <2>3, <2>4, FilledSite
    <3> QED BY <1>4, <3>1
  <2> HIDE DEF w
  <2> QED BY <2>3, <2>4, <2>5 DEF Current, Right
<1>5. ASSUME NEW t \in Sites, NEW c \in Classes, FillMissing(t, c), w' # w PROVE Current(w)'
  <2> DEFINE e == MissingEntry(c)
  <2>1. c \in Nodes /\ c # None /\ Missing \in Names
    BY CacheAssumption DEF Nodes
  <2>2. Uncached(c, Missing) \in Found /\ (~ behind => Uncached(c, Missing) = Resolve(tab, c, Missing))
    BY <1>t, <2>1, UncachedFound
  <2>3. UNCHANGED <<mgen, behind, kept, tab>>
    BY <1>5 DEF FillMissing
  <2>4. t = s /\ w' \in {e, Unset}
    BY <1>5, <1>t, MissingSite
  <2>5. ~ behind => Resolve(tab, c, Called) = None
    <3>1. PICK j \in 1 .. Ways : Negative(sites[s].ways[j], c)
      BY <1>5, <2>4 DEF FillMissing
    <3>2. Current(sites[s].ways[j])
      BY <1>t, <2>3 DEF SitesInv
    <3> QED BY <2>1, <3>1, <3>2 DEF Negative, Current, Right
  <2>6. Current(e) /\ Current(Unset)
    BY <2>2, <2>5, <1>u, <1>t DEF MissingEntry, Right, Current
  <2> HIDE DEF w, e
  <2> QED BY <2>3, <2>4, <2>6 DEF Current, Right
<1>6. UNCHANGED sites \/ Reset \/ \E t \in Sites, c \in Classes : Lookup(t, c) \/ FillMissing(t, c)
  BY Writers
<1>7. Keeps \/ Bumps \/ Reset
  BY <1>t, NextTables
<1>8. (\E t \in Sites, c \in Classes : Lookup(t, c) \/ FillMissing(t, c)) => Keeps
  BY DEF Lookup, FillMissing, Keeps
<1> QED BY <1>1, <1>2, <1>3, <1>4, <1>5, <1>6, <1>7, <1>8 DEF Bumps

\* The same for the global cache.
LEMMA NextGlobalInv == IInv /\ [Next]_vars => GlobalInv'
<1> SUFFICES ASSUME IInv, [Next]_vars PROVE GlobalInv'
  OBVIOUS
<1>t. TypeOK /\ GlobalInv /\ mgen \in Nat /\ mgen' \in Nat /\ global.gen \in Nat
  BY NextType DEF IInv, TypeOK
<1>1. CASE Reset
  <2>1. DOMAIN global'.map = {}
    BY <1>1, <1>t DEF Reset, EmptyMap, TypeOK
  <2> QED BY <2>1 DEF GlobalInv
<1>2. CASE UNCHANGED global /\ Bumps
  <2>1. global.gen >= mgen' => DOMAIN global.map = {}
    BY <1>2, <1>t DEF GlobalInv, Bumps
  <2> QED BY <1>2, <1>t, <2>1 DEF GlobalInv
<1>3. CASE UNCHANGED global /\ Keeps
  BY <1>3, <1>t DEF GlobalInv, Keeps
<1>4. ASSUME NEW c \in Nodes, NEW n \in Names, global' = AfterUncached(c, n), mgen' = mgen,
             (tab' = tab /\ behind' = behind) \/ behind' = TRUE
      PROVE  GlobalInv'
  <2>1. global' = global \/ global'.gen = mgen
    BY <1>4, <1>t, AfterLookup
  <2>2. ~ behind => \A k \in DOMAIN global'.map : global'.gen = mgen => global'.map[k] = Resolve(tab, k[1], k[2])
    BY <1>4, <1>t, AfterLookup
  <2> QED BY <1>4, <1>t, <2>1, <2>2 DEF GlobalInv
<1>5. CASE UndefNext
  <2>1. op.on \in Nodes /\ Head(op.rest) \in Names
    BY <1>5, <1>t DEF UndefNext, TypeOK
  <2>2. global' = AfterUncached(op.on, Head(op.rest)) /\ mgen' = mgen
    BY <1>5 DEF UndefNext
  <2>3. behind' = (behind \/ tab' # tab) /\ behind \in BOOLEAN
    BY <1>5, <1>t, Zenon DEF UndefNext, TypeOK
  <2>4. (tab' = tab /\ behind' = behind) \/ behind' = TRUE
    BY <2>3, Zenon
  <2> QED BY <1>4, <2>1, <2>2, <2>4
<1>6. ASSUME NEW s \in Sites, NEW c \in Classes, Lookup(s, c) \/ FillMissing(s, c) PROVE GlobalInv'
  <2>1. c \in Nodes /\ Called \in Names /\ Missing \in Names
    BY CacheAssumption DEF Nodes
  <2> QED BY <1>4, <1>6, <2>1 DEF Lookup, FillMissing
<1>7. UNCHANGED global \/ Reset \/ UndefNext \/ \E s \in Sites, c \in Classes : Lookup(s, c) \/ FillMissing(s, c)
  BY Writers
<1>8. Keeps \/ Bumps \/ Reset
  BY <1>t, NextTables
<1> QED BY <1>1, <1>2, <1>3, <1>5, <1>6, <1>7, <1>8

\* The same for the `super` sites and the memo of ancestors under them.  Of the entries
\* that a reset leaves, the ones it would make current are kept.
LEMMA NextSuperInv == IInv /\ [Next]_vars => MemoInv' /\ SuperInv'
<1> SUFFICES ASSUME IInv, [Next]_vars PROVE MemoInv' /\ SuperInv'
  OBVIOUS
<1>t. /\ TypeOK /\ MemoInv /\ SuperInv /\ mgen \in Nat /\ mgen' \in Nat
      /\ \A s \in SuperSites : sup[s].gen \in Nat
      /\ \A c \in Classes : memo[c].gen \in Nat
  BY NextType DEF IInv, TypeOK, Supers
<1>1. CASE Reset
  <2>1. /\ mgen' = 2 /\ memo' = memo /\ \A c \in Classes \ kept' : ~ (memo[c].gen >= 2)
        /\ sup' = [s \in SuperSites |-> IF s \in PreambleSites THEN sup[s] ELSE NoSup]
        /\ \A s \in SuperSites \ kept' : s \in PreambleSites => ~ (sup[s].gen >= 2)
    BY <1>1 DEF Reset
  <2>2. \A c \in Classes \ kept' : memo'[c].gen < mgen'
    BY <2>1, <1>t
  <2>3. NoSup.gen = 0
    BY DEF NoSup
  <2>4. \A s \in SuperSites \ kept' : sup'[s].gen < mgen' /\ sup'[s].gen \in Nat
    BY <2>1, <2>3, <1>t
  <2> QED BY <2>1, <2>2, <2>4, <1>t DEF MemoInv, SuperInv
<1>2. CASE UNCHANGED <<memo, sup>> /\ Bumps
  <2>1. /\ \A s \in SuperSites \ kept' : sup'[s].gen < mgen'
        /\ \A c \in Classes \ kept' : memo'[c].gen < mgen'
    BY <1>2, <1>t DEF MemoInv, SuperInv, Bumps
  <2> QED BY <1>2, <1>t, <2>1 DEF MemoInv, SuperInv
<1>3. CASE UNCHANGED <<memo, sup>> /\ Keeps
  BY <1>3, <1>t DEF MemoInv, SuperInv, Keeps
<1>4. ASSUME NEW s \in SuperSites, NEW c \in Classes, NEW d \in Nodes, SuperLookup(s, c, d)
      PROVE  MemoInv' /\ SuperInv'
  <2>1. UNCHANGED <<mgen, behind, kept, tab>>
    BY <1>4 DEF SuperLookup
  <2>2. c \notin kept /\ ~ behind => Mro(c) = Ancestors(tab, c)
    BY <1>t DEF Mro, MemoInv
  <2>3. /\ memo'[c].gen = mgen /\ memo'[c].mro = Mro(c)
        /\ \A x \in Classes \ {c} : memo'[x] = memo[x]
    BY <1>4, <1>t DEF SuperLookup, TypeOK
  <2>4. /\ sup'[s].recv = c /\ sup'[s].after = d /\ sup'[s].gen = mgen
        /\ sup'[s].body = NextAfter(tab, Mro(c), d, Called)
        /\ \A x \in SuperSites \ {s} : sup'[x] = sup[x]
    BY <1>4, <1>t DEF SuperLookup, TypeOK
  <2>5. MemoInv'
    BY <1>t, <2>1, <2>2, <2>3 DEF MemoInv
  <2>6. SuperInv'
    BY <1>t, <2>1, <2>2, <2>4 DEF SuperInv
  <2> QED BY <2>5, <2>6
<1>5. UNCHANGED <<memo, sup>> \/ Reset \/ \E s \in SuperSites, c \in Classes, d \in Nodes : SuperLookup(s, c, d)
  BY Writers
<1>6. Keeps \/ Bumps \/ Reset
  BY <1>t, NextTables
<1> QED BY <1>1, <1>2, <1>3, <1>4, <1>5, <1>6

\* The same for the class-variable site.
LEMMA NextCvarsInv == IInv /\ [Next]_vars => CvarsInv'
<1> SUFFICES ASSUME IInv, [Next]_vars PROVE CvarsInv'
  OBVIOUS
<1>t. TypeOK /\ CvarsInv /\ cgen \in Nat /\ cvs.gen \in Nat
  BY DEF IInv, TypeOK
<1>1. CASE Reset
  BY <1>1, <1>t DEF Reset, CvarsInv, CvarsExact, NoCv
<1>2. ASSUME NEW c \in Classes, CvarLoad(c) PROVE CvarsInv'
  <2>1. OwnerOf(c) = CvarOwner(tab.sup, cvars, c)
    BY <1>t, CacheAssumption DEF OwnerOf, CvarsInv, CvarsExact, Nodes
  <2> QED BY <1>2, <1>t, <2>1 DEF CvarLoad, CvarsInv, CvarsExact
<1>3. ASSUME NEW c \in Classes, CvarStore(c) PROVE CvarsInv'
  <2>1. c \in cvars' /\ cvs'.gen = cgen' /\ cvs'.key = c /\ cvs'.owner = c /\ cgen' \in Nat
    BY <1>3, <1>t DEF CvarStore
  <2>2. CvarOwner(tab'.sup, cvars', c) = c
    BY <2>1 DEF CvarOwner
  <2> QED BY <2>1, <2>2 DEF CvarsInv, CvarsExact
<1>4. CASE UNCHANGED cvs /\ cgen' = cgen + 1
  BY <1>4, <1>t DEF CvarsInv, CvarsExact
<1>5. CASE UNCHANGED cvs /\ tab'.sup = tab.sup /\ cvars' = cvars /\ cgen' = cgen
  BY <1>5, <1>t DEF CvarsInv, CvarsExact
<1>6. UNCHANGED cvs \/ Reset \/ \E c \in Classes : CvarLoad(c) \/ CvarStore(c)
  BY Writers
<1>7. (tab'.sup = tab.sup /\ cvars' = cvars) \/ cgen' = cgen + 1 \/ Reset
  BY <1>t, NextTab
<1>8. cgen' = cgen \/ cgen' = cgen + 1
  BY Zenon DEF Next, vars, Lookup, FillMissing, SuperLookup, CvarLoad, CvarStore, CvarSet, DefMethod,
     RemoveMethod, Reopen, AppendFeatures, Begin, UndefNext, IncludeNext, HookReturns, HookRaises, Finish, Reset
<1> QED BY <1>1, <1>2, <1>3, <1>4, <1>5, <1>6, <1>7, <1>8

(***************************************************************************)
(* Theorems.                                                               *)
(***************************************************************************)
\* The inductive invariant of the caches: no entry is of a future generation, and one of
\* the current generation is what the tables say.
THEOREM CachesInvariant == Spec => []IInv
<1>1. IInv /\ [Next]_vars => IInv'
  BY NextType, NextSitesInv, NextGlobalInv, NextSuperInv, NextCvarsInv DEF IInv
<1> QED BY InitInv, <1>1, PTL DEF Spec

\* The shape of the tables and caches: fills, evictions and the two multi-step
\* operations keep it (CallCache, GlobalMethodCache, Class).
THEOREM TypeCorrect == Spec => []TypeOK
<1>1. IInv => TypeOK
  BY DEF IInv
<1> QED BY CachesInvariant, <1>1, PTL

\* No call site answers with a method that was redefined, removed, undefined or
\* shadowed since (lookup_method_cached), for any number of sites and ways.
THEOREM CallSitesAreExact == Spec => []CallSitesExact
<1>1. IInv => CallSitesExact
  <2> SUFFICES ASSUME IInv, ~ behind, NEW s \in Sites \ kept, NEW c \in Classes
               PROVE  /\ Answer(s, c) = Resolve(tab, c, Called)
                      /\ \A i \in Hits(s, c) : sites[s].ways[i].mm =>
                           sites[s].ways[i].body = Resolve(tab, c, Missing)
    BY DEF CallSitesExact
  <2>1. c \in Nodes /\ c # None /\ Called \in Names /\ TypeOK /\ GlobalInv
    BY CacheAssumption DEF Nodes, IInv
  <2>2. ASSUME NEW i \in Hits(s, c)
        PROVE  /\ sites[s].ways[i].mm => /\ Resolve(tab, c, Called) = None
                                         /\ sites[s].ways[i].body = Resolve(tab, c, Missing)
               /\ ~ sites[s].ways[i].mm => sites[s].ways[i].body = Resolve(tab, c, Called)
    <3>1. i \in 1 .. Ways /\ Fresh(sites[s].ways[i], c)
      BY DEF Hits
    <3>2. Current(sites[s].ways[i])
      BY <3>1 DEF IInv, SitesInv
    <3> QED BY <2>1, <3>1, <3>2 DEF Fresh, Current, Right
  <2>3. CASE Hits(s, c) = {}
    BY <2>1, <2>3, UncachedFound DEF Answer, Hits
  <2>4. CASE Hits(s, c) # {}
    <3>1. Hits(s, c) \subseteq Nat
      BY CacheAssumption DEF Hits
    <3>2. Min(Hits(s, c)) \in Hits(s, c)
      BY <2>4, <3>1, MinIsLeast
    <3> QED BY <2>2, <2>4, <3>2 DEF Answer
  <2> QED BY <2>2, <2>3, <2>4
<1> QED BY CachesInvariant, <1>1, PTL

\* The global method cache answers what the walk would, across its clears,
\* resets and fills in the middle of an undef (GlobalMethodCache).
THEOREM GlobalIsExact == Spec => []GlobalExact
<1>1. IInv => GlobalExact
  BY DEF IInv, GlobalInv, GlobalExact
<1> QED BY CachesInvariant, <1>1, PTL

\* `super` reaches the next method in the ancestors of now (super_lookup), at every
\* site, for defining classes and modules, and also after resets, which leave the entries
\* of the preamble's sites in place: only those that a reset made current again are out.
THEOREM SuperIsExact == Spec => []SuperExact
<1>1. IInv => SuperExact
  BY DEF IInv, SuperInv, SuperExact
<1> QED BY CachesInvariant, <1>1, PTL

\* The class-variable owner cache names the owner (cvar_owner_cached).
THEOREM CvarsAreExact == Spec => []CvarsExact
<1>1. IInv => CvarsExact
  BY DEF IInv, CvarsInv
<1> QED BY CachesInvariant, <1>1, PTL
=============================================================================
