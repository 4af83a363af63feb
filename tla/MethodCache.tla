---------------------------- MODULE MethodCache ----------------------------
(***************************************************************************)
(* Method lookup and its caches (vm/lookup.rs): the per-call-site inline   *)
(* cache with its ways, the global method cache, the `super` site caches   *)
(* over the ancestors memo, and the class-variable owner cache, with the   *)
(* operations that change the class tables (vm/step.rs, vm/dispatch.rs)    *)
(* and Runtime::reset (lib.rs).  method_gen and cvar_gen are the only      *)
(* invalidation: an entry counts when its generation is the current one.   *)
(* They are u32 in the code and bounded by MaxGen here, so a wrap, which   *)
(* takes 2^32 definitions, is not modelled.                                *)
(***************************************************************************)
EXTENDS ClassGraph

CONSTANTS
  Sites,           \* call sites, all calling Called
  SuperSites,      \* `super` sites, all in bodies of Called
  PreambleSites,   \* the sites compiled with the preamble; reset keeps their slots
  Ways,            \* IC_WAYS
  Cap,             \* GLOBAL_METHOD_CACHE_CAP
  Called, Missing, \* the name called, and `method_missing`
  Hooks,           \* is there a user method_undefined hook?
  Overriding,      \* modules that may have an append_features, prepend_features of their own
  UndefArgs, IncludeArgs,   \* the argument lists tried
  NotAModule,      \* an argument include rejects
  MaxGen,          \* bound on the generations
  MaxResets

ASSUME CacheAssumption ==
  /\ Sites \cap SuperSites = {} /\ PreambleSites \subseteq Sites \cup SuperSites
  /\ Overriding \subseteq Modules
  /\ Ways \in Nat \ {0} /\ Cap \in Nat \ {0}
  /\ {Called, Missing} \subseteq Names /\ Called # Missing
  /\ Hooks \in BOOLEAN /\ UndefArgs \subseteq Seq(Names)
  /\ IncludeArgs \subseteq Seq(Modules \cup {NotAModule}) /\ MaxGen \in Nat /\ MaxResets \in Nat
  /\ None \notin Bodies /\ None \notin Nodes /\ NotAModule \notin Nodes

VARIABLES
  base,    \* the tables the post-preamble snapshot holds
  tab,     \* the tables now
  cvars,   \* the classes that own `@@v` now
  mgen, cgen,
  sites,   \* call_caches: per site its ways and the next one to evict
  global,  \* method_cache: a generation and a map
  memo,    \* ancestors_cached: thread-local, per class
  sup,     \* super_caches: per `super` site one entry
  cvs,     \* cvar_caches: one site
  op,      \* an undef_method or include under way, or Idle
  behind,  \* history: the tables changed and method_gen has not moved since
  kept,    \* history: preamble sites and memos that took user-program
           \* generations across a reset, which counts through them again
  resets

vars   == <<base, tab, cvars, mgen, cgen, sites, global, memo, sup, cvs, op, behind, kept, resets>>
caches == <<sites, global, memo, sup, cvs>>

Idle  == [kind |-> "none", on |-> None, rest |-> <<>>, hook |-> FALSE]
Unset == [key |-> None, mm |-> FALSE, gen |-> 0, body |-> None]
NoSup == [recv |-> None, after |-> None, gen |-> 0, body |-> None]
NoCv  == [key |-> None, gen |-> 0, owner |-> None]
EmptyMap == [k \in {} |-> None]
EmptySite == [ways |-> [i \in 1 .. Ways |-> Unset], next |-> 1]

\* Ruby code runs, and looks methods up, between operations and inside a hook.
RubyRuns == op = Idle \/ op.hook
MayBump  == mgen < MaxGen
Bump     == MayBump /\ mgen' = mgen + 1 /\ behind' = FALSE /\ UNCHANGED kept

CONSTANTS Baselines,  \* the tables a snapshot may hold
          Defs        \* the definitions the program makes: node, name, body

ASSUME TablesAssumption ==
  Baselines \subseteq [tab : Tables, cvars : SUBSET Classes] /\ Defs \subseteq Nodes \X Names \X Bodies

Init ==
  /\ base \in Baselines /\ tab = base.tab /\ cvars = base.cvars
  /\ mgen = 1 /\ cgen = 1 /\ resets = 0 /\ op = Idle /\ behind = FALSE /\ kept = {}
  /\ sites = [s \in Sites |-> EmptySite]
  /\ global = [gen |-> 0, map |-> EmptyMap]
  /\ memo = [c \in Classes |-> [gen |-> 0, mro |-> <<>>]]
  /\ sup = [s \in SuperSites |-> NoSup] /\ cvs = NoCv

(***************************************************************************)
(* The global cache: GlobalMethodCache::get and put, and the lookup over   *)
(* them (lookup_method_uncached).                                          *)
(***************************************************************************)
GlobalHit(c, n)  == global.gen = mgen /\ <<c, n>> \in DOMAIN global.map
Uncached(c, n)   == IF GlobalHit(c, n) THEN global.map[<<c, n>>] ELSE Resolve(tab, c, n)

\* Mutant: a full map is cleared, an old one is not.
PutAnyGen(g, c, n) ==
  LET m == IF Cardinality(DOMAIN g.map) >= Cap THEN EmptyMap ELSE g.map
  IN [gen |-> mgen, map |-> [k \in DOMAIN m \cup {<<c, n>>} |->
                              IF k = <<c, n>> THEN Uncached(c, n) ELSE m[k]]]
Put(g, c, n) ==
  LET m == IF g.gen # mgen \/ Cardinality(DOMAIN g.map) >= Cap THEN EmptyMap ELSE g.map
  IN [gen |-> mgen, map |-> [k \in DOMAIN m \cup {<<c, n>>} |->
                              IF k = <<c, n>> THEN Uncached(c, n) ELSE m[k]]]
AfterUncached(c, n) == IF GlobalHit(c, n) THEN global ELSE Put(global, c, n)

(***************************************************************************)
(* Call sites.                                                             *)
(***************************************************************************)
\* Mutant: the generation is not compared for a method_missing entry.
FreshClass(e, c) == e.key = c /\ (e.mm \/ e.gen = mgen)
Fresh(e, c)      == e.key = c /\ e.gen = mgen
Hits(s, c)       == {i \in 1 .. Ways : Fresh(sites[s].ways[i], c)}

\* What the site answers: a method_missing entry is a negative one.
Answer(s, c) ==
  IF Hits(s, c) = {} THEN Uncached(c, Called)
  ELSE LET e == sites[s].ways[Min(Hits(s, c))] IN IF e.mm THEN None ELSE e.body

Filled(s, e) ==
  LET x == sites[s]
  IN [sites EXCEPT ![s] = [ways |-> [x.ways EXCEPT ![x.next] = e],
                           next |-> IF x.next = Ways THEN 1 ELSE x.next + 1]]

\* lookup_method_cached on a receiver of class c: a hit changes nothing.
Lookup(s, c) ==
  /\ RubyRuns /\ Hits(s, c) = {}
  /\ global' = AfterUncached(c, Called)
  /\ sites' = Filled(s, [key |-> c, mm |-> FALSE, gen |-> mgen, body |-> Uncached(c, Called)])
  /\ UNCHANGED <<base, tab, cvars, mgen, cgen, memo, sup, cvs, op, behind, kept, resets>>

\* fill_method_missing_site: the dispatch declined the name, so the negative
\* entries of the site become one method_missing entry and stale ones go.
Negative(e, c) == e.key = c /\ ~ e.mm /\ e.gen = mgen /\ e.body = None
FillMissing(s, c) ==
  /\ RubyRuns
  /\ \E i \in 1 .. Ways : Negative(sites[s].ways[i], c)
  /\ Uncached(c, Missing) # None
  /\ global' = AfterUncached(c, Missing)
  /\ LET w == sites[s].ways
         first == CHOOSE i \in 1 .. Ways :
                    Negative(w[i], c) /\ \A j \in 1 .. i - 1 : ~ Negative(w[j], c)
         ways == [i \in 1 .. Ways |->
                    IF i = first THEN [key |-> c, mm |-> TRUE, gen |-> mgen, body |-> Uncached(c, Missing)]
                    ELSE IF w[i].key = c /\ w[i].mm THEN Unset ELSE w[i]]
     IN sites' = [sites EXCEPT ![s] = [ways |-> ways, next |-> sites[s].next]]
  /\ UNCHANGED <<base, tab, cvars, mgen, cgen, memo, sup, cvs, op, behind, kept, resets>>

(***************************************************************************)
(* `super` and class variables.                                            *)
(***************************************************************************)
\* Mutant: the memo is not checked against the generation.
MroAnyGen(c) == IF memo[c].gen > 0 THEN memo[c].mro ELSE Ancestors(tab, c)
Mro(c) == IF memo[c].gen = mgen THEN memo[c].mro ELSE Ancestors(tab, c)

\* The body that calls super may be a module's, and a miss is cached too.
SuperLookup(s, c, d) ==
  /\ RubyRuns
  /\ ~ (sup[s].recv = c /\ sup[s].after = d /\ sup[s].gen = mgen)
  /\ memo' = [memo EXCEPT ![c] = [gen |-> mgen, mro |-> Mro(c)]]
  /\ sup' = [sup EXCEPT ![s] = [recv |-> c, after |-> d, gen |-> mgen,
                                body |-> NextAfter(tab, Mro(c), d, Called)]]
  /\ UNCHANGED <<base, tab, cvars, mgen, cgen, sites, global, cvs, op, behind, kept, resets>>

OwnerOf(c) == IF cvs.key = c /\ cvs.gen = cgen THEN cvs.owner ELSE CvarOwner(tab.sup, cvars, c)

CvarLoad(c) ==
  /\ RubyRuns
  /\ cvs' = [key |-> c, gen |-> cgen, owner |-> OwnerOf(c)]
  /\ UNCHANGED <<base, tab, cvars, mgen, cgen, sites, global, memo, sup, op, behind, kept, resets>>

\* cvar_store: a write to the owner changes no ownership.
CvarStore(c) ==
  /\ RubyRuns /\ OwnerOf(c) = None /\ cgen < MaxGen
  /\ cvars' = cvars \cup {c}
  /\ cgen' = cgen + 1
  /\ cvs' = [key |-> c, gen |-> cgen + 1, owner |-> c]
  /\ UNCHANGED <<base, tab, mgen, sites, global, memo, sup, op, behind, kept, resets>>

\* class_variable_set on c, from outside a site.
CvarSet(c) ==
  /\ RubyRuns /\ CvarOwner(tab.sup, cvars, c) = None /\ cgen < MaxGen
  /\ cvars' = cvars \cup {c}
  /\ cgen' = cgen + 1
  /\ UNCHANGED <<base, tab, mgen, caches, op, behind, kept, resets>>

(***************************************************************************)
(* Changing the tables.                                                    *)
(***************************************************************************)
DefMethod(x, n, b) ==
  /\ RubyRuns /\ Bump
  /\ tab' = [tab EXCEPT !.own[x][n] = b]
  /\ UNCHANGED <<base, cvars, cgen, caches, op, resets>>

\* remove_method, one argument: it bumps before its hook runs.
RemoveMethod(x, n) ==
  /\ RubyRuns /\ tab.own[x][n] # None /\ Bump
  /\ tab' = [tab EXCEPT !.own[x][n] = None]
  /\ UNCHANGED <<base, cvars, cgen, caches, op, resets>>

\* `class C < P` on a class that had no parent.
\* Mutant: the owner caches are not told.
ReopenMethodsOnly(c, p) ==
  /\ RubyRuns /\ tab.sup[c] = None /\ c \notin ToSet(Chain(tab.sup, p)) /\ Bump
  /\ tab' = [tab EXCEPT !.sup[c] = p]
  /\ UNCHANGED <<base, cvars, cgen, caches, op, resets>>
Reopen(c, p) ==
  /\ RubyRuns /\ tab.sup[c] = None /\ c \notin ToSet(Chain(tab.sup, p))
  /\ Bump /\ cgen < MaxGen /\ cgen' = cgen + 1
  /\ tab' = [tab EXCEPT !.sup[c] = p]
  /\ UNCHANGED <<base, cvars, caches, op, resets>>

(***************************************************************************)
(* undef_method and include take several arguments and bump at the end.    *)
(***************************************************************************)
Begin(kind, x, args) ==
  /\ op = Idle /\ MayBump
  /\ op' = [kind |-> kind, on |-> x, rest |-> args, hook |-> FALSE]
  /\ UNCHANGED <<base, tab, cvars, mgen, cgen, caches, behind, kept, resets>>

\* An unknown name raises; a known one leaves the table, gets a tombstone, and
\* the hook runs.
UndefNext ==
  /\ op.kind = "undef" /\ ~ op.hook /\ op.rest # <<>>
  /\ LET n == Head(op.rest)
     IN /\ global' = AfterUncached(op.on, n)
        /\ IF Uncached(op.on, n) = None
           THEN op' = Idle /\ UNCHANGED tab
           ELSE /\ op' = [kind |-> "undef", on |-> op.on, rest |-> Tail(op.rest), hook |-> Hooks]
                /\ tab' = [tab EXCEPT !.own[op.on][n] = None, !.dead[op.on] = @ \cup {n}]
  /\ behind' = (behind \/ tab' # tab)
  /\ UNCHANGED <<base, cvars, mgen, cgen, sites, memo, sup, cvs, kept, resets>>

Inserted(x, m, kind) ==
  IF Reaches(tab, x, m, kind) THEN tab ELSE [tab EXCEPT ![kind][x] = <<m>> \o @]

\* The arguments are taken from the right.  A module's own append_features or
\* prepend_features runs in place of the insertion.
IncludeNext ==
  /\ op.kind \in {"inc", "pre"} /\ ~ op.hook /\ op.rest # <<>>
  /\ LET m == op.rest[Len(op.rest)]
     IN \/ m = NotAModule /\ op' = Idle /\ UNCHANGED tab
        \/ /\ m # NotAModule
           /\ op' = [op EXCEPT !.rest = Front(@)]
           /\ tab' = Inserted(op.on, m, op.kind)
        \/ /\ m \in Overriding
           /\ op' = [op EXCEPT !.rest = Front(@), !.hook = TRUE]
           /\ UNCHANGED tab
  /\ behind' = (behind \/ tab' # tab)
  /\ UNCHANGED <<base, cvars, mgen, cgen, caches, kept, resets>>

\* Module#append_features, prepend_features: what such an override calls with
\* super, and any program by name.
AppendFeatures(m, x, kind) ==
  /\ RubyRuns /\ Bump
  /\ tab' = Inserted(x, m, kind)
  /\ UNCHANGED <<base, cvars, cgen, caches, op, resets>>

HookReturns ==
  /\ op.hook /\ op' = [op EXCEPT !.hook = FALSE]
  /\ UNCHANGED <<base, tab, cvars, mgen, cgen, caches, behind, kept, resets>>
HookRaises ==
  /\ op.hook /\ op' = Idle
  /\ UNCHANGED <<base, tab, cvars, mgen, cgen, caches, behind, kept, resets>>

Finish ==
  /\ op # Idle /\ op.rest = <<>> /\ ~ op.hook
  /\ op' = Idle /\ mgen' = mgen + 1 /\ behind' = FALSE
  /\ UNCHANGED <<base, tab, cvars, cgen, caches, kept, resets>>

(***************************************************************************)
(* Runtime::reset: the tables go back to the snapshot, which has no        *)
(* Class::undefed; user sites are truncated, call and `super` sites of the *)
(* preamble stay; method_gen goes to one past the snapshot's.              *)
(***************************************************************************)
Reset ==
  /\ op = Idle /\ resets < MaxResets
  /\ resets' = resets + 1
  /\ tab' = [base.tab EXCEPT !.dead = tab.dead] /\ cvars' = base.cvars
  /\ mgen' = 2 /\ behind' = FALSE
  /\ kept' = {s \in Sites \cap PreambleSites : \E i \in 1 .. Ways : sites[s].ways[i].gen >= 2}
             \cup {s \in SuperSites \cap PreambleSites : sup[s].gen >= 2}
             \cup {c \in Classes : memo[c].gen >= 2}
  /\ sites' = [s \in Sites |-> IF s \in PreambleSites THEN sites[s] ELSE EmptySite]
  /\ global' = [global EXCEPT !.map = EmptyMap]
  /\ sup' = [s \in SuperSites |-> IF s \in PreambleSites THEN sup[s] ELSE NoSup]
  /\ cvs' = NoCv
  /\ UNCHANGED <<base, cgen, memo, op>>

Next ==
  \/ \E s \in Sites, c \in Classes : Lookup(s, c) \/ FillMissing(s, c)
  \/ \E s \in SuperSites, c \in Classes, d \in Nodes : SuperLookup(s, c, d)
  \/ \E c \in Classes : CvarLoad(c) \/ CvarStore(c) \/ CvarSet(c)
  \/ \E d \in Defs : DefMethod(d[1], d[2], d[3])
  \/ \E x \in Nodes, n \in Names : RemoveMethod(x, n)
  \/ \E c, p \in Classes : Reopen(c, p)
  \/ \E x \in Nodes, a \in UndefArgs : Begin("undef", x, a)
  \/ \E x \in Nodes, a \in IncludeArgs, k \in {"inc", "pre"} : Begin(k, x, a)
  \/ \E m \in Modules, x \in Nodes, k \in {"inc", "pre"} : AppendFeatures(m, x, k)
  \/ UndefNext \/ IncludeNext \/ HookReturns \/ HookRaises \/ Finish
  \/ Reset

Spec == Init /\ [][Next]_vars

(***************************************************************************)
(* Properties.                                                             *)
(***************************************************************************)
\* A call site answers what the walk over the tables would answer now, and its
\* method_missing entry is current only for a name that does not resolve, so no
\* call reaches a method that was redefined, removed, undefined or shadowed
\* (lookup_method_cached, lookup_method_missing_cache_hit).  Here and below a
\* half-done undef_method or include, after which method_gen lags, is left out,
\* and so are entries that a reset can make current again (kept).
CallSitesExact ==
  RubyRuns /\ ~ behind =>
    \A s \in Sites \ kept, c \in Classes :
      /\ Answer(s, c) = Resolve(tab, c, Called)
      /\ \A i \in Hits(s, c) : sites[s].ways[i].mm =>
           sites[s].ways[i].body = Resolve(tab, c, Missing)

\* The same of the global method cache, across its clears, resets and fills in
\* the middle of an undef (GlobalMethodCache).
GlobalExact ==
  RubyRuns /\ ~ behind /\ global.gen = mgen =>
    \A k \in DOMAIN global.map : global.map[k] = Resolve(tab, k[1], k[2])

\* A current entry of a `super` site is the next method after the defining class
\* or module in the receiver's ancestors of now, at the preamble's sites too, whose
\* entries a reset leaves (super_lookup, ancestors_cached).
SuperExact ==
  RubyRuns /\ ~ behind =>
    \A s \in SuperSites \ kept :
      sup[s].recv \notin kept \cup {None} /\ sup[s].gen = mgen =>
        sup[s].body = NextAfter(tab, Ancestors(tab, sup[s].recv), sup[s].after, Called)

\* A current owner entry names the class that owns the variable, so a read
\* never misses a variable an ancestor has and a write never splits one
\* (cvar_owner_cached).
CvarsExact == cvs.key # None /\ cvs.gen = cgen => cvs.owner = CvarOwner(tab.sup, cvars, cvs.key)
=============================================================================
