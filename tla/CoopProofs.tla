----------------------------- MODULE CoopProofs -----------------------------
(***************************************************************************)
(* Proofs about the cooperative scheduler and the mutexes of CoopThreads.  *)
(***************************************************************************)
EXTENDS CoopThreads, NatLemmas, FiniteSetTheorems, SequenceTheorems

-----------------------------------------------------------------------------
(* Types.                                                                  *)

Entries == Threads \cup {Main, Stale}
Kinds == {"timed", "forever"}
Outcomes == {"ok", "raise", "kill"}

Sch == [runq : Seq(Threads), waiters : [Lists -> Seq(Entries)],
        park : [Threads -> Lists \cup {None}], nap : [Threads -> {"no"} \cup Kinds],
        sleepers : SUBSET (Threads \X Kinds), fds : SUBSET Fds]

Calls == [op : {"none", "sleep", "fd", "join", "pass", "yield", "lock", "pop", "wait"},
          on : Lists \cup {None}, mx : Mutexes \cup {None}, timed : BOOLEAN,
          inl : BOOLEAN, res : Outcomes, pend : Outcomes]

Statuses == {"unborn", "fresh", "run", "woken", "parked", "drive", "dead"}

\* What a blocking call waits on.
CallFits(c) ==
    /\ c.op \in {"none", "sleep", "pass", "yield"} => c.on = None
    /\ c.op = "lock" => c.on \in Mutexes
    /\ c.op = "pop" => c.on \in Queues
    /\ c.op = "wait" => c.on \in CVs
    /\ c.op = "join" => c.on \in Threads
    /\ c.op = "fd" => c.on \in Fds

CoreTypeOK ==
    /\ sch \in Sch
    /\ stack \in Seq(Procs)
    /\ status \in [Procs -> Statuses]
    /\ call \in [Procs -> Calls] /\ \A p \in Procs : CallFits(call[p])
    /\ killed \subseteq Threads /\ dying \subseteq Procs
    /\ live \in Int /\ slice \in 0..Slice

ObjectTypeOK ==
    /\ owner \in [Mutexes -> Procs \cup {None}]
    /\ depth \in [Mutexes -> 0..MaxDepth]
    /\ holds \in [Procs -> [Mutexes -> Int]]
    /\ items \in [Queues -> 0..MaxItems] /\ closed \subseteq Queues

TypeOK == CoreTypeOK /\ ObjectTypeOK

-----------------------------------------------------------------------------
(* The inductive invariant, in parts.                                      *)

\* MAIN is at the bottom of stack k; all but the last drive; a thread is on the
\* stack, once, when it executes or drives.
StackInv(k, st) ==
    /\ k # <<>> /\ k[1] = Main
    /\ \A i, j \in 1..Len(k) : k[i] = k[j] => i = j
    /\ \A i \in 1..(Len(k) - 1) : st[k[i]] = "drive"
    /\ \A t \in Threads :
         st[t] \in {"run", "woken", "drive"} <=> \E i \in 1..Len(k) : k[i] = t
    /\ st[Main] \in {"run", "woken", "drive", "dead"}

\* Tables s name no thread that was never made.
Born(s, st) ==
    \A t \in Threads :
        \/ Queued(s, t)
        \/ \E l \in Lists : Contains(s.waiters[l], t)
        \/ \E k \in Kinds : <<t, k>> \in s.sleepers
      => st[t] # "unborn"

\* A living thread is where its own references say it is.
LinkedAt(s, t) ==
    /\ s.park[t] # None => /\ Contains(s.waiters[s.park[t]], t)
                           /\ s.park[t] \in Fds => s.park[t] \in s.fds
    /\ s.nap[t] # "no" => <<t, s.nap[t]>> \in s.sleepers
Linked(s, st) == \A t \in Threads : st[t] # "dead" => LinkedAt(s, t)

\* A suspended thread is queued or has a reference.
Findable(s, st) ==
    \A t \in Threads : st[t] \in {"parked", "drive"} =>
        Queued(s, t) \/ s.park[t] # None \/ s.nap[t] # "no"

Pending(s, st, K) == \A t \in K : st[t] \in {"parked", "drive"} /\ Queued(s, t)

CoreInv ==
    /\ TypeOK /\ StackInv(stack, status)
    /\ Born(sch, status) /\ Linked(sch, status) /\ Findable(sch, status)
    /\ Pending(sch, status, killed)
    /\ ~call[Main].inl

\* Without inline parks the tables are exact.
Exact(s, st) ==
    /\ \A i, j \in 1..Len(s.runq) : s.runq[i] = s.runq[j] => i = j
    /\ \A t \in Threads :
        /\ st[t] # "drive"
        /\ Queued(s, t) => /\ st[t] \in {"fresh", "parked", "dead"}
                           /\ s.park[t] = None /\ s.nap[t] = "no"
        /\ \A l \in Lists : Contains(s.waiters[l], t) => st[t] = "parked" /\ s.park[t] = l
        /\ \A k \in Kinds : <<t, k>> \in s.sleepers => st[t] = "parked" /\ s.nap[t] = k
        /\ st[t] # "parked" => s.park[t] = None /\ s.nap[t] = "no"

NoInline == \A t \in Threads : ~call[t].inl

\* A thread in Thread#join without a limit is queued only by its target's end or a kill.
Joining(s, st, c, K) ==
    \A t \in Threads : st[t] = "parked" /\ c[t].op = "join" /\ ~c[t].timed =>
        /\ s.park[t] \in {None, c[t].on} /\ s.nap[t] = "no"
        /\ Queued(s, t) => t \in K \/ st[c[t].on] = "dead"

ExactInv == Exact(sch, status) /\ NoInline /\ DeadlockIsReal
JoinInv == Joining(sch, status, call, killed) /\ JoinMeansDone

\* A process that is in no blocking call has none on record.
CallsIdle(st, c) ==
    \A p \in Procs : st[p] \in {"unborn", "fresh", "run", "dead"} => c[p] = Idle

\* Nobody is blocked in Mutex#lock by itself; a free mutex has no depth.
LockInv ==
    /\ CallsIdle(status, call)
    /\ \A p \in Procs : call[p].op = "lock" => owner[call[p].on] # p
    /\ \A m \in Mutexes : owner[m] = None => depth[m] = 0
    /\ MutualExclusion

-----------------------------------------------------------------------------
(* The operators on sequences and on tables.                               *)

\* MAIN has at most one token in list w.  List v has no token that w has not.
Once(w) == \A i, j \in 1..Len(w) : w[i] = Main /\ w[j] = Main => i = j
Shorter(w, v) ==
    /\ \A e \in {Main, Stale} : Contains(v, e) => Contains(w, e)
    /\ Once(w) => Once(v)
Fewer(s, r) == \A l \in Lists : Shorter(s.waiters[l], r.waiters[l])

\* Another entry at the end.
LEMMA AppendOnce ==
  ASSUME NEW X, NEW w, w \in Seq(X), Once(w), NEW e, e \in X, ~(e = Main /\ Contains(w, Main))
  PROVE  Once(Append(w, e))
<1>1. PICK v : v = Append(w, e)
  OBVIOUS
<1>2. /\ Len(w) \in Nat /\ Len(v) = Len(w) + 1 /\ v[Len(w) + 1] = e
      /\ \A i \in 1..Len(w) : v[i] = w[i]
  BY <1>1
<1>3. \A i \in 1..Len(v) : i \in 1..Len(w) \/ i = Len(w) + 1
  BY <1>2
<1>4. \A i \in 1..Len(w) : w[i] = Main => e # Main
  BY DEF Contains
<1> QED BY <1>1, <1>2, <1>3, <1>4 DEF Once

\* Array#delete keeps the other entries and no others.
LEMMA DeleteFacts ==
  ASSUME NEW X, NEW w, w \in Seq(X), NEW e
  PROVE  /\ Delete(w, e) \in Seq(X)
         /\ \A x : Contains(Delete(w, e), x) <=> x # e /\ Contains(w, x)
         /\ Shorter(w, Delete(w, e))
<1> DEFINE n == Len(w)
           kept[i \in 0..n] ==
             IF i = 0 THEN <<>> ELSE IF w[i] = e THEN kept[i - 1] ELSE Append(kept[i - 1], w[i])
           S(f, i) == IF i = 0 THEN <<>>
                      ELSE IF w[i] = e THEN f[i - 1] ELSE Append(f[i - 1], w[i])
           P == {k \in Nat : \E f : f = [i \in 0..k |-> S(f, i)]}
<1>1. Delete(w, e) = kept[n]
  BY DEF Delete
<1>2. n \in Nat
  OBVIOUS
<1>3. 0 \in P
  <2> [i \in 0..0 |-> <<>>] = [i \in 0..0 |-> S([j \in 0..0 |-> <<>>], i)]
    OBVIOUS
  <2> QED OBVIOUS
<1>4. ASSUME NEW k \in Nat, k \in P PROVE k + 1 \in P
  <2>1. PICK f : f = [i \in 0..k |-> S(f, i)]
    BY <1>4
  <2> DEFINE g == [i \in 0..(k + 1) |-> IF i <= k THEN f[i] ELSE S(f, i)]
  <2>2. ASSUME NEW i \in 0..(k + 1) PROVE g[i] = S(g, i)
    <3>1. S(f, i) = S(g, i)
      OBVIOUS
    <3> HIDE DEF S
    <3>2. g[i] = S(f, i)
      BY <2>1
    <3> QED BY <3>1, <3>2
  <2> HIDE DEF S
  <2>3. g = [i \in 0..(k + 1) |-> S(g, i)]
    BY <2>2
  <2> HIDE DEF g
  <2> QED BY <2>3
<1>5. kept = [i \in 0..n |-> IF i = 0 THEN <<>> ELSE IF w[i] = e THEN kept[i - 1]
                                ELSE Append(kept[i - 1], w[i])]
  <2> HIDE DEF P
  <2>1. n \in P
    BY <1>2, <1>3, <1>4, NatInduct
  <2> QED BY <2>1 DEF P
<1> HIDE DEF kept, n
<1>6. \A i \in 0..n : kept[i] = IF i = 0 THEN <<>> ELSE IF w[i] = e THEN kept[i - 1]
                                ELSE Append(kept[i - 1], w[i])
  BY <1>5
<1> DEFINE G(k) == /\ kept[k] \in Seq(X)
                   /\ \A x : Contains(kept[k], x) <=> x # e /\ \E j \in 1..k : w[j] = x
                   /\ Once(w) => Once(kept[k])
           Q == {k \in Nat : k <= n => G(k)}
<1>7. 0 \in Q
  <2>1. kept[0] = <<>>
    BY <1>2, <1>6
  <2>2. \A x : ~Contains(<<>>, x)
    BY DEF Contains
  <2>3. Once(<<>>)
    BY DEF Once
  <2>4. G(0)
    BY <2>1, <2>2, <2>3
  <2> QED BY <2>4
<1>8. ASSUME NEW k \in Nat, k \in Q PROVE k + 1 \in Q
  <2> SUFFICES ASSUME k + 1 <= n PROVE G(k + 1)
    OBVIOUS
  <2>1. G(k) /\ k + 1 \in 1..n
    BY <1>2, <1>8
  <2>2. w[k + 1] \in X /\ n = Len(w)
    BY <2>1 DEF n
  <2>3. CASE w[k + 1] = e
    <3>1. kept[k + 1] = kept[k]
      BY <1>6, <2>1, <2>3
    <3>2. \A x : x # e => ((\E j \in 1..(k + 1) : w[j] = x) <=> (\E j \in 1..k : w[j] = x))
      BY <2>3
    <3> QED BY <2>1, <3>1, <3>2
  <2>4. CASE w[k + 1] # e
    <3>1. kept[k + 1] = Append(kept[k], w[k + 1])
      <4>1. k + 1 \in 0..n /\ k + 1 # 0 /\ (k + 1) - 1 = k
        BY <2>1
      <4> QED BY <1>6, <2>4, <4>1
    <3>2. \A x : Contains(kept[k + 1], x) <=> Contains(kept[k], x) \/ x = w[k + 1]
      BY <2>1, <2>2, <3>1 DEF Contains
    <3>3. ASSUME Once(w) PROVE Once(kept[k + 1])
      <4>1. kept[k] \in Seq(X) /\ Once(kept[k])
        BY <2>1, <3>3
      <4>2. ASSUME w[k + 1] = Main, Contains(kept[k], Main) PROVE FALSE
        <5>1. PICK j \in 1..k : w[j] = Main
          BY <2>1, <4>2
        <5> QED BY <2>1, <2>2, <3>3, <4>2, <5>1 DEF Once
      <4> QED BY <2>2, <3>1, <4>1, <4>2, AppendOnce
    <3> QED BY <2>1, <2>2, <2>4, <3>1, <3>2, <3>3
  <2> QED BY <2>3, <2>4
<1> HIDE DEF G
<1>9. n \in Q
  BY <1>2, <1>7, <1>8, NatInduct
<1>10. G(n)
  BY <1>2, <1>9
<1>11. /\ Delete(w, e) \in Seq(X) /\ (Once(w) => Once(Delete(w, e)))
       /\ \A x : Contains(Delete(w, e), x) <=> x # e /\ Contains(w, x)
  BY <1>1, <1>10 DEF G, n, Contains
<1> QED BY <1>11 DEF Shorter

Distinct(q) == \A i, j \in 1..Len(q) : q[i] = q[j] => i = j

\* What every wake does to the tables: the living threads W are queued and
\* leave their park, nothing else about the other living threads changes.
Woke(s, r, W) ==
    /\ r \in Sch /\ W \subseteq Threads /\ \A t \in W : ~Dead(t)
    /\ \A t \in Threads : Queued(r, t) <=> Queued(s, t) \/ t \in W
    /\ Distinct(s.runq) => Distinct(r.runq)
    /\ \A t \in W : r.park[t] = None /\ r.nap[t] = "no"
    /\ \A t \in Threads \ W : r.park[t] = s.park[t] /\ r.nap[t] = s.nap[t]
    /\ \A l \in Lists, t \in Threads : Contains(r.waiters[l], t) =>
         Contains(s.waiters[l], t) /\ ~(t \in W /\ s.park[t] = l)
    /\ \A l \in Lists, t \in Threads \ W :
         ~Dead(t) /\ Contains(s.waiters[l], t) => Contains(r.waiters[l], t)
    /\ \A t \in Threads, k \in Kinds : <<t, k>> \in r.sleepers =>
         <<t, k>> \in s.sleepers /\ ~(t \in W /\ s.nap[t] = k)
    /\ \A t \in Threads \ W, k \in Kinds : <<t, k>> \in s.sleepers => <<t, k>> \in r.sleepers
    /\ r.fds \subseteq s.fds
    /\ \A f \in s.fds \ r.fds, t \in Threads :
         ~Dead(t) /\ Contains(s.waiters[f], t) => t \in W
    /\ Fewer(s, r)

\* No list gains a token, in any number of steps.
LEMMA FewerFacts ==
  ASSUME NEW s
  PROVE  /\ \A r : (\A l \in Lists : r.waiters[l] = s.waiters[l]) => Fewer(s, r)
         /\ \A r, q : Fewer(s, r) /\ Fewer(r, q) => Fewer(s, q)
<1>1. \A r : (\A l \in Lists : r.waiters[l] = s.waiters[l]) => Fewer(s, r)
  BY DEF Fewer, Shorter
<1>2. \A w, v, u : Shorter(w, v) /\ Shorter(v, u) => Shorter(w, u)
  BY DEF Shorter
<1> QED BY <1>1, <1>2 DEF Fewer

\* Nobody is woken.
LEMMA WokeNone ==
  ASSUME NEW s \in Sch
  PROVE  Woke(s, s, {})
BY FewerFacts DEF Woke

\* One wake after another.
LEMMA WokeThen ==
  ASSUME NEW s \in Sch, NEW r \in Sch, NEW q \in Sch, NEW W, NEW V,
         Woke(s, r, W), Woke(r, q, V)
  PROVE  Woke(s, q, W \cup V)
<1> DEFINE U == W \cup V
<1>1. q \in Sch /\ U \subseteq Threads /\ \A t \in U : ~Dead(t)
  BY DEF Woke
<1>2. \A t \in Threads : Queued(q, t) <=> Queued(s, t) \/ t \in U
  BY DEF Woke
<1>3. Distinct(s.runq) => Distinct(q.runq)
  BY DEF Woke
<1>4. \A t \in U : q.park[t] = None /\ q.nap[t] = "no"
  BY DEF Woke
<1>5. \A t \in Threads \ U : q.park[t] = s.park[t] /\ q.nap[t] = s.nap[t]
  BY DEF Woke
<1>6. \A l \in Lists, t \in Threads : Contains(q.waiters[l], t) =>
        Contains(s.waiters[l], t) /\ ~(t \in U /\ s.park[t] = l)
  <2> TAKE l \in Lists, t \in Threads
  <2> HAVE Contains(q.waiters[l], t)
  <2>1. Contains(r.waiters[l], t) /\ ~(t \in V /\ r.park[t] = l)
    BY DEF Woke
  <2>2. Contains(s.waiters[l], t) /\ ~(t \in W /\ s.park[t] = l)
    BY <2>1 DEF Woke
  <2>3. t \notin W => r.park[t] = s.park[t]
    BY DEF Woke
  <2> QED BY <2>1, <2>2, <2>3
<1>7. \A l \in Lists, t \in Threads \ U :
        ~Dead(t) /\ Contains(s.waiters[l], t) => Contains(q.waiters[l], t)
  BY DEF Woke
<1>8. \A t \in Threads, k \in Kinds : <<t, k>> \in q.sleepers =>
        <<t, k>> \in s.sleepers /\ ~(t \in U /\ s.nap[t] = k)
  <2> TAKE t \in Threads, k \in Kinds
  <2> HAVE <<t, k>> \in q.sleepers
  <2>1. <<t, k>> \in r.sleepers /\ ~(t \in V /\ r.nap[t] = k)
    BY DEF Woke
  <2>2. <<t, k>> \in s.sleepers /\ ~(t \in W /\ s.nap[t] = k)
    BY <2>1 DEF Woke
  <2>3. t \notin W => r.nap[t] = s.nap[t]
    BY DEF Woke
  <2> QED BY <2>1, <2>2, <2>3
<1>9. \A t \in Threads \ U, k \in Kinds : <<t, k>> \in s.sleepers => <<t, k>> \in q.sleepers
  BY DEF Woke
<1>10. q.fds \subseteq s.fds
  BY DEF Woke
<1>11. \A f \in s.fds \ q.fds, t \in Threads :
         ~Dead(t) /\ Contains(s.waiters[f], t) => t \in U
  <2> TAKE f \in s.fds \ q.fds, t \in Threads
  <2> HAVE ~Dead(t) /\ Contains(s.waiters[f], t)
  <2>1. CASE f \in r.fds
    <3>1. f \in Lists
      BY DEF Sch, Lists
    <3>2. t \in W \/ Contains(r.waiters[f], t)
      BY <3>1 DEF Woke
    <3> QED BY <2>1, <3>2 DEF Woke
  <2>2. CASE f \notin r.fds
    BY <2>2 DEF Woke
  <2> QED BY <2>1, <2>2
<1>12. Fewer(s, q)
  BY FewerFacts DEF Woke
<1> QED BY <1>1, <1>2, <1>3, <1>4, <1>5, <1>6, <1>7, <1>8, <1>9, <1>10, <1>11, <1>12 DEF Woke

\* The tables keep their type.
LEMMA TableTypes ==
  ASSUME NEW s \in Sch
  PROVE  /\ \A q \in Seq(Threads) : WithRunq(s, q) \in Sch
         /\ \A l \in Lists, w \in Seq(Entries) : WithList(s, l, w) \in Sch
         /\ \A t \in Threads, l \in Lists \cup {None}, k \in {"no"} \cup Kinds,
               z \in SUBSET (Threads \X Kinds) : WithPark(s, t, l, k, z) \in Sch
         /\ \A F \in SUBSET Fds : WithFds(s, F) \in Sch
<1>1. \A q \in Seq(Threads) : WithRunq(s, q) \in Sch
  BY DEF Sch, WithRunq
<1>2. \A l \in Lists, w \in Seq(Entries) : WithList(s, l, w) \in Sch
  BY DEF Sch, WithList
<1>3. \A t \in Threads, l \in Lists \cup {None}, k \in {"no"} \cup Kinds,
         z \in SUBSET (Threads \X Kinds) : WithPark(s, t, l, k, z) \in Sch
  BY DEF Sch, WithPark
<1>4. \A F \in SUBSET Fds : WithFds(s, F) \in Sch
  BY DEF Sch, WithFds
<1> QED BY <1>1, <1>2, <1>3, <1>4

\* Appending to the run queue.
LEMMA EnqueueFacts ==
  ASSUME NEW s \in Sch, NEW t \in Threads
  PROVE  /\ Enqueue(s, t) \in Sch
         /\ \A x : Queued(Enqueue(s, t), x) <=> Queued(s, x) \/ x = t
         /\ Distinct(s.runq) /\ ~Queued(s, t) => Distinct(Enqueue(s, t).runq)
         /\ Enqueue(s, t).waiters = s.waiters /\ Enqueue(s, t).park = s.park
         /\ Enqueue(s, t).nap = s.nap /\ Enqueue(s, t).sleepers = s.sleepers
         /\ Enqueue(s, t).fds = s.fds
<1>1. s.runq \in Seq(Threads)
  BY DEF Sch
<1>2. PICK q : q = Append(s.runq, t)
  OBVIOUS
<1>2a. q \in Seq(Threads)
  BY <1>1, <1>2
<1>3. Enqueue(s, t) = WithRunq(s, q)
  BY <1>2 DEF Enqueue
<1>4. /\ Enqueue(s, t) \in Sch /\ Enqueue(s, t).runq = q
      /\ Enqueue(s, t).waiters = s.waiters /\ Enqueue(s, t).park = s.park
      /\ Enqueue(s, t).nap = s.nap /\ Enqueue(s, t).sleepers = s.sleepers
      /\ Enqueue(s, t).fds = s.fds
  BY <1>2a, <1>3, TableTypes DEF WithRunq
<1>5. \A x : Contains(q, x) <=> Contains(s.runq, x) \/ x = t
  BY <1>1, <1>2 DEF Contains
<1>6. Distinct(s.runq) /\ ~Contains(s.runq, t) => Distinct(q)
  BY <1>1, <1>2 DEF Contains, Distinct
<1> QED BY <1>4, <1>5, <1>6 DEF Queued

\* c is s with t out of its list and of the sleepers.
Cleared(s, t, c) ==
    /\ c \in Sch /\ c.runq = s.runq /\ c.fds = s.fds
    /\ c.park[t] = None /\ c.nap[t] = "no"
    /\ \A x \in Threads \ {t} : c.park[x] = s.park[x] /\ c.nap[x] = s.nap[x]
    /\ \A l \in Lists, x \in Entries : Contains(c.waiters[l], x) <=>
         Contains(s.waiters[l], x) /\ ~(x = t /\ s.park[t] = l)
    /\ c.sleepers = s.sleepers \ {<<t, s.nap[t]>>}
    /\ Fewer(s, c)

\* That is what __coop_clear_park does.
LEMMA ClearParkFacts ==
  ASSUME NEW s \in Sch, NEW t \in Threads
  PROVE  Cleared(s, t, ClearPark(s, t))
<1> PICK c : c = ClearPark(s, t)
  OBVIOUS
<1> DEFINE l == s.park[t]
           z == s.sleepers \ {<<t, s.nap[t]>>}
<1>1. PICK u : u = Unlisted(s, t)
  OBVIOUS
<1>2. /\ u \in Sch /\ u.runq = s.runq /\ u.fds = s.fds /\ u.park = s.park /\ u.nap = s.nap
      /\ \A k \in Lists : \A x : Contains(u.waiters[k], x) <=>
           Contains(s.waiters[k], x) /\ ~(x = t /\ l = k)
      /\ Fewer(s, u)
  <2>1. CASE l = None
    <3>1. None \notin Lists
      BY ObjectAssumption DEF Lists
    <3> QED BY <1>1, <2>1, <3>1, FewerFacts DEF Unlisted
  <2>2. CASE l # None
    <3>1. l \in Lists /\ s.waiters[l] \in Seq(Entries)
      BY <2>2 DEF Sch
    <3>2. PICK w : w = Delete(s.waiters[l], t)
      OBVIOUS
    <3>3. /\ w \in Seq(Entries)
          /\ \A x : Contains(w, x) <=> x # t /\ Contains(s.waiters[l], x)
          /\ Shorter(s.waiters[l], w)
      BY <3>1, <3>2, DeleteFacts
    <3>4. u = WithList(s, l, w)
      BY <1>1, <2>2, <3>2 DEF Unlisted
    <3>5. /\ u \in Sch /\ u.runq = s.runq /\ u.fds = s.fds /\ u.park = s.park /\ u.nap = s.nap
          /\ u.waiters = [s.waiters EXCEPT ![l] = w]
      BY <3>1, <3>3, <3>4, TableTypes DEF WithList
    <3>6. \A k \in Lists : u.waiters[k] = IF k = l THEN w ELSE s.waiters[k]
      BY <3>5 DEF Sch
    <3>7. Fewer(s, u)
      BY <3>3, <3>6 DEF Fewer, Shorter
    <3> QED BY <3>3, <3>5, <3>6, <3>7
  <2> QED BY <2>1, <2>2
<1>3. c = WithPark(u, t, None, "no", z)
  BY <1>1 DEF ClearPark
<1>4. z \in SUBSET (Threads \X Kinds)
  BY DEF Sch
<1>5. c \in Sch
  <2>1. u \in Sch
    BY <1>2
  <2>2. \A y \in Threads, k \in Lists \cup {None}, m \in {"no"} \cup Kinds,
           v \in SUBSET (Threads \X Kinds) : WithPark(u, y, k, m, v) \in Sch
    BY ONLY <2>1, TableTypes
  <2> HIDE DEF z
  <2> QED BY <1>3, <1>4, <2>2
<1> HIDE DEF l, z
<1>6. /\ c.runq = u.runq /\ c.fds = u.fds /\ c.waiters = u.waiters
      /\ c.park = [u.park EXCEPT ![t] = None] /\ c.nap = [u.nap EXCEPT ![t] = "no"]
      /\ c.sleepers = z
  BY <1>3 DEF WithPark
<1>7. /\ c.park[t] = None /\ c.nap[t] = "no"
      /\ \A x \in Threads \ {t} : c.park[x] = s.park[x] /\ c.nap[x] = s.nap[x]
  BY <1>2, <1>6 DEF Sch
<1>8. Fewer(s, c)
  <2>1. Fewer(u, c)
    BY <1>6, FewerFacts
  <2> QED BY <1>2, <2>1, FewerFacts
<1> QED BY <1>2, <1>5, <1>6, <1>7, <1>8 DEF Cleared, l, z

\* __coop_make_runnable wakes a living thread and leaves a dead one.
LEMMA MakeRunnableWakes ==
  ASSUME NEW s \in Sch, NEW t \in Threads
  PROVE  Woke(s, MakeRunnable(s, t), IF Dead(t) THEN {} ELSE {t})
<1>1. CASE Dead(t)
  BY <1>1, WokeNone DEF MakeRunnable
<1>2. CASE ~Dead(t)
  <2>1. PICK c : c = ClearPark(s, t)
    OBVIOUS
  <2>2. PICK r : r = MakeRunnable(s, t)
    OBVIOUS
  <2>3. Cleared(s, t, c)
    BY <2>1, ClearParkFacts
  <2>4. r = IF Queued(c, t) THEN c ELSE Enqueue(c, t)
    BY <1>2, <2>1, <2>2 DEF MakeRunnable
  <2>5. /\ r \in Sch /\ r.waiters = c.waiters /\ r.park = c.park /\ r.nap = c.nap
        /\ r.sleepers = c.sleepers /\ r.fds = c.fds
        /\ \A x : Queued(r, x) <=> Queued(c, x) \/ x = t
        /\ Distinct(c.runq) => Distinct(r.runq)
    <3>1. CASE Queued(c, t)
      BY <2>3, <2>4, <3>1 DEF Cleared
    <3>2. CASE ~Queued(c, t)
      BY <2>3, <2>4, <3>2, EnqueueFacts DEF Cleared
    <3> QED BY <3>1, <3>2
  <2>6. \A x : Queued(c, x) <=> Queued(s, x)
    BY <2>3 DEF Cleared, Queued
  <2>7. Woke(s, r, {t})
    <3>1. \A x \in Threads, k \in Kinds : <<x, k>> \in r.sleepers <=>
            <<x, k>> \in s.sleepers /\ ~(x = t /\ s.nap[t] = k)
      BY <2>3, <2>5 DEF Cleared
    <3>2. Fewer(s, r)
      <4>1. Fewer(s, c) /\ Fewer(c, r)
        BY <2>3, <2>5, FewerFacts DEF Cleared
      <4> QED BY <4>1, FewerFacts
    <3> QED BY <1>2, <2>3, <2>5, <2>6, <3>1, <3>2 DEF Woke, Cleared, Entries
  <2> QED BY <1>2, <2>2, <2>7
<1> QED BY <1>1, <1>2

\* The living threads of list l.
Living(s, l) == {t \in Threads : ~Dead(t) /\ Contains(s.waiters[l], t)}

\* Another list l that has lost no living thread but those of W, of whom the
\* tables r that follow take care.
LEMMA ListThenWoke ==
  ASSUME NEW s \in Sch, NEW l \in Lists, NEW w \in Seq(Entries), NEW W, NEW r,
         \A t \in Threads : Contains(w, t) => Contains(s.waiters[l], t),
         \A t \in Threads \ W : ~Dead(t) /\ Contains(s.waiters[l], t) => Contains(w, t),
         Shorter(s.waiters[l], w),
         Woke(WithList(s, l, w), r, W)
  PROVE  Woke(s, r, W)
<1>1. PICK u : u = WithList(s, l, w)
  OBVIOUS
<1>2. /\ u \in Sch /\ u.runq = s.runq /\ u.park = s.park /\ u.nap = s.nap
      /\ u.sleepers = s.sleepers /\ u.fds = s.fds
      /\ u.waiters = [s.waiters EXCEPT ![l] = w]
  BY <1>1, TableTypes DEF WithList
<1>3. \A k \in Lists : u.waiters[k] = IF k = l THEN w ELSE s.waiters[k]
  BY <1>2 DEF Sch
<1>4. \A t \in Threads : Queued(u, t) <=> Queued(s, t)
  BY <1>2 DEF Queued
<1>5. Woke(u, r, W)
  BY <1>1
<1>6. \A k \in Lists, t \in Threads : Contains(u.waiters[k], t) => Contains(s.waiters[k], t)
  BY <1>3
<1>7. \A k \in Lists, t \in Threads \ W :
        ~Dead(t) /\ Contains(s.waiters[k], t) => Contains(u.waiters[k], t)
  BY <1>3
<1>8. s.fds \subseteq Lists
  BY DEF Sch, Lists
<1>9. /\ r \in Sch /\ W \subseteq Threads /\ \A t \in W : ~Dead(t)
      /\ \A t \in Threads : Queued(r, t) <=> Queued(s, t) \/ t \in W
      /\ Distinct(s.runq) => Distinct(r.runq)
      /\ \A t \in W : r.park[t] = None /\ r.nap[t] = "no"
      /\ \A t \in Threads \ W : r.park[t] = s.park[t] /\ r.nap[t] = s.nap[t]
  BY <1>2, <1>4, <1>5 DEF Woke
<1>10. \A k \in Lists, t \in Threads : Contains(r.waiters[k], t) =>
         Contains(s.waiters[k], t) /\ ~(t \in W /\ s.park[t] = k)
  BY <1>2, <1>5, <1>6 DEF Woke
<1>11. \A k \in Lists, t \in Threads \ W :
         ~Dead(t) /\ Contains(s.waiters[k], t) => Contains(r.waiters[k], t)
  BY <1>5, <1>7 DEF Woke
<1>12. /\ \A t \in Threads, k \in Kinds : <<t, k>> \in r.sleepers =>
            <<t, k>> \in s.sleepers /\ ~(t \in W /\ s.nap[t] = k)
       /\ \A t \in Threads \ W, k \in Kinds : <<t, k>> \in s.sleepers => <<t, k>> \in r.sleepers
       /\ r.fds \subseteq s.fds
  BY <1>2, <1>5 DEF Woke
<1>13. \A f \in s.fds \ r.fds, t \in Threads : ~Dead(t) /\ Contains(s.waiters[f], t) => t \in W
  <2> TAKE f \in s.fds \ r.fds, t \in Threads
  <2> SUFFICES ASSUME ~Dead(t), Contains(s.waiters[f], t), t \notin W PROVE FALSE
    OBVIOUS
  <2>1. Contains(u.waiters[f], t)
    BY <1>7, <1>8
  <2> QED BY <1>2, <1>5, <2>1 DEF Woke
<1>14. Fewer(s, r)
  <2>1. Fewer(s, u)
    BY <1>3 DEF Fewer, Shorter
  <2> QED BY <1>5, <2>1, FewerFacts DEF Woke
<1> QED BY <1>9, <1>10, <1>11, <1>12, <1>13, <1>14 DEF Woke

\* __coop_wake_one wakes at most one living thread of the list.
LEMMA WakeOneWakes ==
  ASSUME NEW s \in Sch, NEW l \in Lists
  PROVE  \E W : Woke(s, WakeOne(s, l), W) /\ W \subseteq Living(s, l)
<1>1. PICK w : w = s.waiters[l]
  OBVIOUS
<1>2. w \in Seq(Entries)
  BY <1>1 DEF Sch
<1> DEFINE I == {i \in 1..Len(w) : w[i] \notin Threads \/ ~Dead(w[i])}
<1>3. PICK i : i = SelectInSeq(w, LAMBDA e : e \notin Threads \/ ~Dead(e))
  OBVIOUS
<1>4. i = IF I # {} THEN Min(I) ELSE 0
  BY <1>3 DEF SelectInSeq
<1>5. PICK v : v = IF i = 0 THEN <<>> ELSE SubSeq(w, i + 1, Len(w))
  OBVIOUS
<1>6. WakeOne(s, l) = IF i = 0 \/ w[i] \notin Threads THEN WithList(s, l, v)
                      ELSE MakeRunnable(WithList(s, l, v), w[i])
  BY <1>1, <1>3, <1>5 DEF WakeOne
<1>7. CASE I = {}
  <2>1. i = 0 /\ v = <<>>
    BY <1>4, <1>5, <1>7
  <2>2. v \in Seq(Entries) /\ (\A t : ~Contains(v, t)) /\ Shorter(w, v)
    BY <2>1 DEF Contains, Shorter, Once
  <2>3. \A t \in Threads : Contains(w, t) => Dead(t)
    BY <1>7 DEF Contains
  <2>4. Woke(WithList(s, l, v), WithList(s, l, v), {})
    BY <2>2, TableTypes, WokeNone
  <2>5. Woke(s, WithList(s, l, v), {})
    BY <1>1, <2>2, <2>3, <2>4, ListThenWoke
  <2> QED BY <1>6, <2>1, <2>5
<1>8. CASE I # {}
  <2>1. i \in I /\ \A j \in I : i <= j
    <3>1. I \subseteq Nat
      OBVIOUS
    <3> HIDE DEF I
    <3>2. Min(I) \in I /\ \A j \in I : Min(I) <= j
      BY <1>8, <3>1, MinIsLeast
    <3> QED BY <1>4, <1>8, <3>2
  <2>2. v \in Seq(Entries) /\ i \in 1..Len(w) /\ i # 0 /\ v = SubSeq(w, i + 1, Len(w))
    BY <1>2, <1>5, <2>1
  <2>3. \A t : Contains(v, t) => Contains(w, t)
    BY <1>2, <2>2 DEF Contains
  <2>4. \A j \in (i + 1)..Len(w) : w[j] = v[j - i] /\ j - i \in 1..Len(v)
    BY <1>2, <2>2
  <2>5. \A t \in Threads : ~Dead(t) /\ Contains(w, t) /\ t # w[i] => Contains(v, t)
    <3> TAKE t \in Threads
    <3> HAVE ~Dead(t) /\ Contains(w, t) /\ t # w[i]
    <3>1. PICK j \in 1..Len(w) : w[j] = t
      BY DEF Contains
    <3>2. j \in I /\ i <= j /\ i # j
      BY <2>1, <3>1
    <3>3. j \in (i + 1)..Len(w)
      BY <2>2, <3>2
    <3> QED BY <2>4, <3>1, <3>3 DEF Contains
  <2>6. WithList(s, l, v) \in Sch
    BY <2>2, TableTypes
  <2>7. Shorter(s.waiters[l], v)
    <3>1. \A j \in 1..Len(v) : v[j] = w[i + j] /\ i + j \in 1..Len(w)
      BY <1>2, <2>2
    <3>2. ASSUME Once(w) PROVE Once(v)
      <4> SUFFICES ASSUME NEW j \in 1..Len(v), NEW k \in 1..Len(v), v[j] = Main, v[k] = Main
                   PROVE  j = k
        BY DEF Once
      <4>1. i + j = i + k
        BY <3>1, <3>2 DEF Once
      <4> QED BY <2>2, <4>1
    <3> QED BY <1>1, <2>3, <3>2 DEF Shorter
  <2>8. CASE w[i] \notin Threads
    <3>1. Woke(WithList(s, l, v), WithList(s, l, v), {})
      BY <2>6, WokeNone
    <3>2. \A t \in Threads \ {} : ~Dead(t) /\ Contains(s.waiters[l], t) => Contains(v, t)
      BY <1>1, <2>5, <2>8
    <3>3. \A t \in Threads : Contains(v, t) => Contains(s.waiters[l], t)
      BY <1>1, <2>3
    <3>4. Woke(s, WithList(s, l, v), {})
      BY <2>2, <2>7, <3>1, <3>2, <3>3, ListThenWoke
    <3> QED BY <1>6, <2>8, <3>4
  <2>9. CASE w[i] \in Threads
    <3>1. ~Dead(w[i])
      BY <2>1, <2>9
    <3>2. Woke(WithList(s, l, v), MakeRunnable(WithList(s, l, v), w[i]), {w[i]})
      BY <2>6, <2>9, <3>1, MakeRunnableWakes
    <3>3. \A t \in Threads \ {w[i]} : ~Dead(t) /\ Contains(s.waiters[l], t) => Contains(v, t)
      BY <1>1, <2>5
    <3>4. \A t \in Threads : Contains(v, t) => Contains(s.waiters[l], t)
      BY <1>1, <2>3
    <3>5. Woke(s, MakeRunnable(WithList(s, l, v), w[i]), {w[i]})
      BY <2>2, <2>7, <3>2, <3>3, <3>4, ListThenWoke
    <3>6. {w[i]} \subseteq Living(s, l)
      BY <1>1, <2>2, <2>9, <3>1 DEF Living, Contains
    <3> QED BY <1>6, <2>2, <2>9, <3>5, <3>6
  <2> QED BY <2>8, <2>9
<1> QED BY <1>7, <1>8

\* __coop_wake_all and __coop_wake_joiners wake every living thread of the list.
LEMMA WakeAllWakes ==
  ASSUME NEW s \in Sch, NEW l \in Lists
  PROVE  Woke(s, WakeAll(s, l), Living(s, l))
<1>1. PICK w : w = s.waiters[l]
  OBVIOUS
<1>2. PICK n : n = Len(w)
  OBVIOUS
<1>3. w \in Seq(Entries) /\ n \in Nat
  BY <1>1, <1>2 DEF Sch
<1> DEFINE woken[i \in 0..n] == IF i = 0 THEN s ELSE WakeEntry(woken[i - 1], w[i])
           S(f, i) == IF i = 0 THEN s ELSE WakeEntry(f[i - 1], w[i])
           P == {k \in Nat : \E f : f = [i \in 0..k |-> S(f, i)]}
<1>4. WakeAll(s, l) = WithList(woken[n], l, <<>>)
  BY <1>1, <1>2 DEF WakeAll
<1>5. 0 \in P
  <2> [i \in 0..0 |-> s] = [i \in 0..0 |-> S([j \in 0..0 |-> s], i)]
    OBVIOUS
  <2> QED OBVIOUS
<1>6. ASSUME NEW k \in Nat, k \in P PROVE k + 1 \in P
  <2>1. PICK f : f = [i \in 0..k |-> S(f, i)]
    BY <1>6
  <2> DEFINE g == [i \in 0..(k + 1) |-> IF i <= k THEN f[i] ELSE S(f, i)]
  <2>2. ASSUME NEW i \in 0..(k + 1) PROVE g[i] = S(g, i)
    <3>1. S(f, i) = S(g, i)
      OBVIOUS
    <3> HIDE DEF S
    <3>2. g[i] = S(f, i)
      BY <2>1
    <3> QED BY <3>1, <3>2
  <2> HIDE DEF S
  <2>3. g = [i \in 0..(k + 1) |-> S(g, i)]
    BY <2>2
  <2> HIDE DEF g
  <2> QED BY <2>3
<1>7. woken = [i \in 0..n |-> IF i = 0 THEN s ELSE WakeEntry(woken[i - 1], w[i])]
  <2> HIDE DEF P
  <2>1. n \in P
    BY <1>3, <1>5, <1>6, NatInduct
  <2> QED BY <2>1 DEF P
<1> HIDE DEF woken
<1>8. woken[0] = s /\ \A i \in 1..n : woken[i] = WakeEntry(woken[i - 1], w[i])
  BY <1>3, <1>7
<1> DEFINE V(k) == {t \in Threads : ~Dead(t) /\ \E j \in 1..k : w[j] = t}
           Q == {k \in Nat : k <= n => Woke(s, woken[k], V(k))}
<1>9. 0 \in Q
  <2>1. V(0) = {}
    OBVIOUS
  <2> HIDE DEF V
  <2> QED BY <1>8, <2>1, WokeNone
<1>10. ASSUME NEW k \in Nat, k \in Q PROVE k + 1 \in Q
  <2> SUFFICES ASSUME k + 1 <= n PROVE Woke(s, woken[k + 1], V(k + 1))
    OBVIOUS
  <2>1. Woke(s, woken[k], V(k)) /\ woken[k] \in Sch
    <3> HIDE DEF V
    <3> QED BY <1>3, <1>10 DEF Woke
  <2>2. woken[k + 1] = WakeEntry(woken[k], w[k + 1])
    BY <1>3, <1>8
  <2>3. CASE w[k + 1] \in Threads /\ ~Dead(w[k + 1])
    <3>1. Woke(woken[k], woken[k + 1], {w[k + 1]})
      BY <2>1, <2>2, <2>3, MakeRunnableWakes DEF WakeEntry
    <3>2. V(k + 1) = V(k) \cup {w[k + 1]}
      BY <2>3
    <3>3. woken[k + 1] \in Sch
      BY <3>1 DEF Woke
    <3> HIDE DEF V
    <3> QED BY <2>1, <3>1, <3>2, <3>3, WokeThen
  <2>4. CASE ~(w[k + 1] \in Threads /\ ~Dead(w[k + 1]))
    <3>1. woken[k + 1] = woken[k]
      BY <2>2, <2>4 DEF WakeEntry, MakeRunnable
    <3>2. V(k + 1) = V(k)
      BY <2>4
    <3> HIDE DEF V
    <3> QED BY <2>1, <3>1, <3>2
  <2> QED BY <2>3, <2>4
<1>11. Woke(s, woken[n], V(n))
  <2> HIDE DEF Q
  <2>1. n \in Q
    BY <1>3, <1>9, <1>10, NatInduct
  <2> QED BY <1>3, <2>1 DEF Q
<1>12. V(n) = Living(s, l)
  BY <1>1, <1>2 DEF Living, Contains
<1> HIDE DEF V
<1>13. PICK u : u = woken[n]
  OBVIOUS
<1>14. Woke(s, u, Living(s, l)) /\ u \in Sch
  BY <1>11, <1>12, <1>13 DEF Woke
<1>15. PICK r : r = WithList(u, l, <<>>)
  OBVIOUS
<1>16. /\ r \in Sch /\ r.runq = u.runq /\ r.park = u.park /\ r.nap = u.nap
       /\ r.sleepers = u.sleepers /\ r.fds = u.fds
       /\ r.waiters = [u.waiters EXCEPT ![l] = <<>>]
  <2> <<>> \in Seq(Entries)
    OBVIOUS
  <2> QED BY <1>14, <1>15, TableTypes DEF WithList
<1>17. \A k \in Lists : \A t : Contains(r.waiters[k], t) <=> k # l /\ Contains(u.waiters[k], t)
  <2>1. \A k \in Lists : r.waiters[k] = IF k = l THEN <<>> ELSE u.waiters[k]
    BY <1>14, <1>16 DEF Sch
  <2>2. \A t : ~Contains(<<>>, t)
    BY DEF Contains
  <2> QED BY <2>1, <2>2
<1>18. \A t \in Threads : Queued(r, t) <=> Queued(u, t)
  BY <1>16 DEF Queued
<1>19. \A t \in Threads \ Living(s, l) : ~(~Dead(t) /\ Contains(s.waiters[l], t))
  BY DEF Living
<1>20. Fewer(s, r)
  <2>1. \A k \in Lists : r.waiters[k] = IF k = l THEN <<>> ELSE u.waiters[k]
    BY <1>14, <1>16 DEF Sch
  <2>2. Fewer(u, r)
    BY <2>1 DEF Fewer, Shorter, Once, Contains
  <2> QED BY <1>14, <2>2, FewerFacts DEF Woke
<1>21. Woke(s, r, Living(s, l))
  BY <1>14, <1>16, <1>17, <1>18, <1>19, <1>20 DEF Woke
<1> QED BY <1>4, <1>13, <1>15, <1>21

\* A ready descriptor wakes the living threads that wait for it.
LEMMA FdReadyWakes ==
  ASSUME NEW s \in Sch, NEW f \in Fds
  PROVE  Woke(s, FdReady(s, f), Living(s, f))
<1>1. PICK u : u = WithFds(s, s.fds \ {f})
  OBVIOUS
<1>2. u \in Sch /\ f \in Lists
  BY <1>1, TableTypes DEF Sch, Lists
<1>3. /\ u.runq = s.runq /\ u.park = s.park /\ u.nap = s.nap /\ u.waiters = s.waiters
      /\ u.sleepers = s.sleepers /\ u.fds = s.fds \ {f}
  BY <1>1 DEF WithFds
<1>4. Living(u, f) = Living(s, f)
  BY <1>3 DEF Living
<1>5. PICK r : r = WakeAll(u, f)
  OBVIOUS
<1>6. Woke(u, r, Living(s, f))
  BY <1>2, <1>4, <1>5, WakeAllWakes
<1>7. \A t \in Threads : Queued(u, t) <=> Queued(s, t)
  BY <1>3 DEF Queued
<1>8. \A t \in Threads : ~Dead(t) /\ Contains(s.waiters[f], t) => t \in Living(s, f)
  BY DEF Living
<1>9. r.fds \subseteq s.fds
  BY <1>3, <1>6 DEF Woke
<1>10. \A g \in s.fds \ r.fds, t \in Threads :
         ~Dead(t) /\ Contains(s.waiters[g], t) => t \in Living(s, f)
  BY <1>3, <1>6, <1>8 DEF Woke
<1>11. Fewer(s, r)
  <2>1. Fewer(s, u)
    BY <1>3, FewerFacts
  <2> QED BY <1>6, <2>1, FewerFacts DEF Woke
<1>12. Woke(s, r, Living(s, f))
  BY <1>3, <1>6, <1>7, <1>9, <1>10, <1>11 DEF Woke
<1> QED BY <1>1, <1>5, <1>12 DEF FdReady

\* The ready descriptors wake threads that wait for one of them.
LEMMA AllReadyWakes ==
  ASSUME NEW s \in Sch, NEW fs, fs \in Seq(Fds)
  PROVE  \E W : /\ Woke(s, AllReady(s, fs), W)
                /\ \A t \in W : \E f \in Fds : Contains(s.waiters[f], t)
<1>2. PICK n : n = Len(fs)
  OBVIOUS
<1>3. n \in Nat
  BY <1>2
<1> DEFINE ready[i \in 0..n] == IF i = 0 THEN s ELSE FdReady(ready[i - 1], fs[i])
           S(f, i) == IF i = 0 THEN s ELSE FdReady(f[i - 1], fs[i])
           P == {k \in Nat : \E f : f = [i \in 0..k |-> S(f, i)]}
<1>4. AllReady(s, fs) = ready[n]
  BY <1>2 DEF AllReady
<1>5. 0 \in P
  <2> [i \in 0..0 |-> s] = [i \in 0..0 |-> S([j \in 0..0 |-> s], i)]
    OBVIOUS
  <2> QED OBVIOUS
<1>6. ASSUME NEW k \in Nat, k \in P PROVE k + 1 \in P
  <2>1. PICK f : f = [i \in 0..k |-> S(f, i)]
    BY <1>6
  <2> DEFINE g == [i \in 0..(k + 1) |-> IF i <= k THEN f[i] ELSE S(f, i)]
  <2>2. ASSUME NEW i \in 0..(k + 1) PROVE g[i] = S(g, i)
    <3>1. S(f, i) = S(g, i)
      OBVIOUS
    <3> HIDE DEF S
    <3>2. g[i] = S(f, i)
      BY <2>1
    <3> QED BY <3>1, <3>2
  <2> HIDE DEF S
  <2>3. g = [i \in 0..(k + 1) |-> S(g, i)]
    BY <2>2
  <2> HIDE DEF g
  <2> QED BY <2>3
<1>7. ready = [i \in 0..n |-> IF i = 0 THEN s ELSE FdReady(ready[i - 1], fs[i])]
  <2> HIDE DEF P
  <2>1. n \in P
    BY <1>3, <1>5, <1>6, NatInduct
  <2> QED BY <2>1 DEF P
<1> HIDE DEF ready
<1>8. ready[0] = s /\ \A i \in 1..n : ready[i] = FdReady(ready[i - 1], fs[i])
  BY <1>3, <1>7
<1> DEFINE G(k, W) == /\ Woke(s, ready[k], W)
                      /\ \A t \in W : \E f \in Fds : Contains(s.waiters[f], t)
           Q == {k \in Nat : k <= n => \E W : G(k, W)}
<1>9. 0 \in Q
  <2> G(0, {})
    BY <1>8, WokeNone
  <2> QED OBVIOUS
<1>10. ASSUME NEW k \in Nat, k \in Q PROVE k + 1 \in Q
  <2> SUFFICES ASSUME k + 1 <= n PROVE \E W : G(k + 1, W)
    OBVIOUS
  <2>1. PICK W : G(k, W)
    BY <1>3, <1>10
  <2>2. PICK u : u = ready[k]
    OBVIOUS
  <2>3. Woke(s, u, W) /\ u \in Sch
    BY <2>1, <2>2 DEF Woke
  <2>4. PICK f \in Fds : ready[k + 1] = FdReady(u, f)
    <3> k + 1 \in 1..n /\ (k + 1) - 1 = k /\ fs[k + 1] \in Fds
      BY <1>2, <1>3
    <3> QED BY <1>8, <2>2
  <2>5. PICK r : r = ready[k + 1]
    OBVIOUS
  <2>6. Woke(u, r, Living(u, f)) /\ r \in Sch
    <3>1. Woke(u, r, Living(u, f))
      BY <2>3, <2>4, <2>5, FdReadyWakes
    <3> QED BY <3>1 DEF Woke
  <2>7. Woke(s, r, W \cup Living(u, f))
    BY <2>3, <2>6, WokeThen
  <2>8. \A t \in Living(u, f) : Contains(s.waiters[f], t)
    BY <2>3 DEF Woke, Living, Lists
  <2>9. G(k + 1, W \cup Living(u, f))
    BY <2>1, <2>5, <2>7, <2>8
  <2> QED BY <2>9
<1>11. \E W : G(n, W)
  <2> HIDE DEF Q
  <2>1. n \in Q
    BY <1>3, <1>9, <1>10, NatInduct
  <2> QED BY <1>3, <2>1 DEF Q
<1> QED BY <1>4, <1>11

\* The expired sleepers wake.
LEMMA AllExpiredWakes ==
  ASSUME NEW s \in Sch, NEW ts, ts \in Seq(Threads)
  PROVE  \E W : /\ Woke(s, AllExpired(s, ts), W)
                /\ \A t \in W : \E j \in 1..Len(ts) : ts[j] = t
<1>2. PICK n : n = Len(ts)
  OBVIOUS
<1>3. n \in Nat
  BY <1>2
<1> DEFINE expired[i \in 0..n] == IF i = 0 THEN s ELSE MakeRunnable(expired[i - 1], ts[i])
           S(f, i) == IF i = 0 THEN s ELSE MakeRunnable(f[i - 1], ts[i])
           P == {k \in Nat : \E f : f = [i \in 0..k |-> S(f, i)]}
<1>4. AllExpired(s, ts) = expired[n]
  BY <1>2 DEF AllExpired
<1>5. 0 \in P
  <2> [i \in 0..0 |-> s] = [i \in 0..0 |-> S([j \in 0..0 |-> s], i)]
    OBVIOUS
  <2> QED OBVIOUS
<1>6. ASSUME NEW k \in Nat, k \in P PROVE k + 1 \in P
  <2>1. PICK f : f = [i \in 0..k |-> S(f, i)]
    BY <1>6
  <2> DEFINE g == [i \in 0..(k + 1) |-> IF i <= k THEN f[i] ELSE S(f, i)]
  <2>2. ASSUME NEW i \in 0..(k + 1) PROVE g[i] = S(g, i)
    <3>1. S(f, i) = S(g, i)
      OBVIOUS
    <3> HIDE DEF S
    <3>2. g[i] = S(f, i)
      BY <2>1
    <3> QED BY <3>1, <3>2
  <2> HIDE DEF S
  <2>3. g = [i \in 0..(k + 1) |-> S(g, i)]
    BY <2>2
  <2> HIDE DEF g
  <2> QED BY <2>3
<1>7. expired = [i \in 0..n |-> IF i = 0 THEN s ELSE MakeRunnable(expired[i - 1], ts[i])]
  <2> HIDE DEF P
  <2>1. n \in P
    BY <1>3, <1>5, <1>6, NatInduct
  <2> QED BY <2>1 DEF P
<1> HIDE DEF expired
<1>8. expired[0] = s /\ \A i \in 1..n : expired[i] = MakeRunnable(expired[i - 1], ts[i])
  BY <1>3, <1>7
<1> DEFINE G(k, W) == /\ Woke(s, expired[k], W)
                      /\ \A t \in W : \E j \in 1..n : ts[j] = t
           Q == {k \in Nat : k <= n => \E W : G(k, W)}
<1>9. 0 \in Q
  <2> G(0, {})
    BY <1>8, WokeNone
  <2> QED OBVIOUS
<1>10. ASSUME NEW k \in Nat, k \in Q PROVE k + 1 \in Q
  <2> SUFFICES ASSUME k + 1 <= n PROVE \E W : G(k + 1, W)
    OBVIOUS
  <2>1. PICK W : G(k, W)
    BY <1>3, <1>10
  <2>2. PICK u : u = expired[k]
    OBVIOUS
  <2>3. Woke(s, u, W) /\ u \in Sch
    BY <2>1, <2>2 DEF Woke
  <2>4. PICK t \in Threads : expired[k + 1] = MakeRunnable(u, t) /\ t = ts[k + 1]
    <3> k + 1 \in 1..n /\ (k + 1) - 1 = k /\ ts[k + 1] \in Threads
      BY <1>2, <1>3
    <3> QED BY <1>8, <2>2
  <2>5. PICK r, V : r = expired[k + 1] /\ V = IF Dead(t) THEN {} ELSE {t}
    OBVIOUS
  <2>6. Woke(u, r, V) /\ r \in Sch
    <3>1. Woke(u, r, V)
      BY <2>3, <2>4, <2>5, MakeRunnableWakes
    <3> QED BY <3>1 DEF Woke
  <2>7. Woke(s, r, W \cup V)
    BY <2>3, <2>6, WokeThen
  <2>8. \A x \in V : \E j \in 1..n : ts[j] = x
    <3> k + 1 \in 1..n
      BY <1>3
    <3> QED BY <2>4, <2>5
  <2>9. G(k + 1, W \cup V)
    BY <2>1, <2>5, <2>7, <2>8
  <2> QED BY <2>9
<1>11. \E W : G(n, W)
  <2> HIDE DEF Q
  <2>1. n \in Q
    BY <1>3, <1>9, <1>10, NatInduct
  <2> QED BY <1>3, <2>1 DEF Q
<1> QED BY <1>2, <1>4, <1>11

\* The threads that poll(2) or a signal on an object may wake: those on a list
\* that is not a list of joiners, and the timed sleepers.
Rousable(s) ==
    {t \in Threads : \/ \E l \in Lists \ Threads : Contains(s.waiters[l], t)
                     \/ <<t, "timed">> \in s.sleepers}

\* __coop_poll wakes only such threads.
LEMMA PollWakes ==
  ASSUME NEW s \in Sch, NEW p, Poll(p, s)
  PROVE  \E W : Woke(s, sch', W) /\ W \subseteq Rousable(s)
<1>1. PICK R \in SUBSET s.fds, E \in SUBSET TimedSleepers(s) :
        \E fs \in SetToSeqs(R), ts \in SetToSeqs(E) : sch' = AllExpired(AllReady(s, fs), ts)
  BY DEF Poll
<1>2. PICK fs \in SetToSeqs(R), ts \in SetToSeqs(E) : sch' = AllExpired(AllReady(s, fs), ts)
  BY <1>1
<1>3. R \subseteq Fds /\ E \subseteq Threads
  BY DEF Sch, TimedSleepers
<1>4. Cardinality(R) \in Nat /\ Cardinality(E) \in Nat
  BY <1>3, ObjectAssumption, FS_Subset, FS_CardinalityType
<1>5. fs \in Seq(Fds) /\ ts \in Seq(Threads)
  <2>1. fs \in [1..Cardinality(R) -> R] /\ ts \in [1..Cardinality(E) -> E]
    BY DEF SetToSeqs
  <2> QED BY <1>3, <1>4, <2>1
<1>6. \A j \in 1..Len(ts) : <<ts[j], "timed">> \in s.sleepers
  <2>1. ts \in [1..Cardinality(E) -> E]
    BY DEF SetToSeqs
  <2>2. Len(ts) = Cardinality(E)
    BY <1>4, <2>1
  <2> QED BY <2>1, <2>2 DEF TimedSleepers
<1>7. PICK r : r = AllReady(s, fs)
  OBVIOUS
<1>8. PICK W : Woke(s, r, W) /\ \A t \in W : \E f \in Fds : Contains(s.waiters[f], t)
  BY <1>5, <1>7, AllReadyWakes
<1>9. r \in Sch
  BY <1>8 DEF Woke
<1>10. PICK V : Woke(r, sch', V) /\ \A t \in V : \E j \in 1..Len(ts) : ts[j] = t
  <2>1. \E V : /\ Woke(r, AllExpired(r, ts), V)
              /\ \A t \in V : \E j \in 1..Len(ts) : ts[j] = t
    <3>1. ts \in Seq(Threads)
      BY <1>5
    <3> QED BY ONLY <1>9, <3>1, AllExpiredWakes, ZenonT(30)
  <2>2. sch' = AllExpired(r, ts)
    BY <1>2, <1>7
  <2> QED BY <2>1, <2>2
<1>11. sch' \in Sch
  BY <1>10 DEF Woke
<1>12. Woke(s, sch', W \cup V)
  BY <1>8, <1>9, <1>10, <1>11, WokeThen
<1>13. Fds \subseteq Lists \ Threads
  BY ObjectAssumption DEF Lists
<1>14. W \cup V \subseteq Threads
  BY <1>12 DEF Woke
<1>15. W \cup V \subseteq Rousable(s)
  BY <1>6, <1>8, <1>10, <1>13, <1>14 DEF Rousable
<1> QED BY <1>12, <1>15

-----------------------------------------------------------------------------
(* What a process does to the tables when it parks.                        *)

\* Only MAIN leaves a token, and one more at most.
Marked(s, r, p) ==
    \A l \in Lists :
        /\ Contains(r.waiters[l], Stale) => Contains(s.waiters[l], Stale)
        /\ Contains(r.waiters[l], Main) => Contains(s.waiters[l], Main) \/ p = Main
        /\ Once(s.waiters[l]) /\ (p = Main => ~Contains(s.waiters[l], Main)) => Once(r.waiters[l])

\* Tables r are s after p registered itself somewhere.
Parks(s, r, p) ==
    /\ r \in Sch /\ Marked(s, r, p)
    /\ \A t \in Threads \ {p} : /\ Queued(r, t) <=> Queued(s, t)
                                /\ r.park[t] = s.park[t] /\ r.nap[t] = s.nap[t]
    /\ \A l \in Lists, t \in Threads \ {p} : Contains(r.waiters[l], t) <=> Contains(s.waiters[l], t)
    /\ \A t \in Threads \ {p}, k \in Kinds : <<t, k>> \in r.sleepers <=> <<t, k>> \in s.sleepers
    /\ s.fds \subseteq r.fds
    /\ p \notin Threads => r.runq = s.runq
    /\ p \in Threads =>
         /\ Distinct(s.runq) /\ ~Queued(s, p) => Distinct(r.runq)
         /\ \A l \in Lists : Contains(r.waiters[l], p) => Contains(s.waiters[l], p) \/ r.park[p] = l
         /\ \A k \in Kinds : <<p, k>> \in r.sleepers => <<p, k>> \in s.sleepers \/ r.nap[p] = k
         /\ LinkedAt(r, p)

Parked(s, t) == s.park[t] # None \/ s.nap[t] # "no"
Anchored(s, t) == Queued(s, t) \/ Parked(s, t)

\* r is s with e at the end of list l.
Appended(s, l, e, r) ==
    /\ r \in Sch
    /\ \A k \in Lists : Once(s.waiters[k]) /\ (e = Main => ~Contains(s.waiters[k], Main)) => Once(r.waiters[k])
    /\ \A k \in Lists : \A x :
         Contains(r.waiters[k], x) <=> Contains(s.waiters[k], x) \/ (k = l /\ x = e)

\* Appending to a waiter list.
LEMMA ListAppend ==
  ASSUME NEW s \in Sch, NEW l \in Lists, NEW e \in Entries
  PROVE  Appended(s, l, e, WithList(s, l, Append(s.waiters[l], e)))
<1>1. PICK w : w = s.waiters[l]
  OBVIOUS
<1>2. w \in Seq(Entries)
  BY <1>1 DEF Sch
<1>3. PICK v : v = Append(w, e)
  OBVIOUS
<1>4. v \in Seq(Entries) /\ \A x : Contains(v, x) <=> Contains(w, x) \/ x = e
  BY <1>2, <1>3 DEF Contains
<1>5. Once(w) /\ (e = Main => ~Contains(w, Main)) => Once(v)
  BY <1>2, <1>3, AppendOnce
<1>6. PICK r : r = WithList(s, l, v)
  OBVIOUS
<1>7. r \in Sch /\ r.waiters = [s.waiters EXCEPT ![l] = v]
  BY <1>4, <1>6, TableTypes DEF WithList
<1>8. \A k \in Lists : r.waiters[k] = IF k = l THEN v ELSE s.waiters[k]
  BY <1>7 DEF Sch
<1>9. \A k \in Lists : \A x : Contains(r.waiters[k], x)
              <=> Contains(s.waiters[k], x) \/ (k = l /\ x = e)
  BY <1>1, <1>4, <1>8
<1> QED BY <1>1, <1>3, <1>5, <1>6, <1>7, <1>8, <1>9 DEF Appended

\* __coop_block and its kin: a green thread is on the list it names, MAIN
\* only leaves a token.
LEMMA RegisterParks ==
  ASSUME NEW s \in Sch, NEW p \in Procs, NEW l \in Lists, NEW timed \in BOOLEAN
  PROVE  /\ Parks(s, Register(s, p, l, timed), p)
         /\ \A k \in Lists : Contains(Register(s, p, l, timed).waiters[k], p) =>
              Contains(s.waiters[k], p) \/ k = l
         /\ p \in Threads => /\ Register(s, p, l, timed).runq = s.runq
                             /\ Register(s, p, l, timed).park[p] = l
                             /\ Register(s, p, l, timed).nap[p] = IF timed THEN "timed" ELSE "no"
<1>0. None \notin Lists /\ Main \notin Threads /\ Stale \notin Threads \cup {Main}
  BY ObjectAssumption DEF Lists
<1>1. CASE p = Main
  <2>1. CASE l \in Threads \cup Fds
    BY <1>0, <1>1, <2>1 DEF Register, Parks, Marked
  <2>2. CASE l \notin Threads \cup Fds
    <3>1. PICK r : r = WithList(s, l, Append(s.waiters[l], Main))
      OBVIOUS
    <3>2. Appended(s, l, Main, r)
      BY <3>1, ListAppend DEF Entries
    <3>3. /\ r.runq = s.runq /\ r.park = s.park /\ r.nap = s.nap
          /\ r.sleepers = s.sleepers /\ r.fds = s.fds
      BY <3>1 DEF WithList
    <3>4. Register(s, p, l, timed) = r
      BY <1>1, <2>2, <3>1 DEF Register
    <3>5. Marked(s, r, p)
      BY <1>0, <1>1, <3>2 DEF Marked, Appended
    <3>6. Parks(s, r, p)
      BY <1>0, <1>1, <3>2, <3>3, <3>5 DEF Parks, Queued, Appended
    <3>7. \A k \in Lists : Contains(r.waiters[k], p) => Contains(s.waiters[k], p) \/ k = l
      BY <3>2 DEF Appended
    <3> QED BY <1>0, <1>1, <3>4, <3>6, <3>7
  <2> QED BY <2>1, <2>2
<1>2. CASE p \in Threads
  <2>1. PICK u : u = WithList(s, l, Append(s.waiters[l], p))
    OBVIOUS
  <2>2. Appended(s, l, p, u) /\ u \in Sch
    <3>1. Appended(s, l, p, u)
      BY <1>2, <2>1, ListAppend DEF Entries
    <3> QED BY <3>1 DEF Appended
  <2>3. /\ u.runq = s.runq /\ u.park = s.park /\ u.nap = s.nap
        /\ u.sleepers = s.sleepers /\ u.fds = s.fds
    BY <2>1 DEF WithList
  <2>4. PICK k, z : /\ k = IF timed THEN "timed" ELSE "no"
                    /\ z = IF timed THEN s.sleepers \cup {<<p, "timed">>} ELSE s.sleepers
    OBVIOUS
  <2>5. k \in {"no"} \cup Kinds /\ z \in SUBSET (Threads \X Kinds)
    BY <1>2, <2>4 DEF Sch, Kinds
  <2>6. PICK v : v = WithPark(u, p, l, k, z)
    OBVIOUS
  <2>7. v \in Sch
    BY <1>2, <2>2, <2>5, <2>6, TableTypes
  <2>8. /\ v.runq = u.runq /\ v.waiters = u.waiters /\ v.fds = u.fds /\ v.sleepers = z
        /\ v.park = [u.park EXCEPT ![p] = l] /\ v.nap = [u.nap EXCEPT ![p] = k]
    BY <2>6 DEF WithPark
  <2>9. PICK F : F = IF l \in Fds THEN s.fds \cup {l} ELSE s.fds
    OBVIOUS
  <2>10. F \in SUBSET Fds
    BY <2>9 DEF Sch
  <2>11. PICK r : r = Register(s, p, l, timed)
    OBVIOUS
  <2>12. r = IF l \in Fds THEN WithFds(v, F) ELSE v
    BY <1>0, <1>2, <2>1, <2>3, <2>4, <2>6, <2>9, <2>11 DEF Register
  <2>13. r \in Sch
    BY <2>7, <2>10, <2>12, TableTypes
  <2>14. /\ r.runq = v.runq /\ r.waiters = v.waiters /\ r.fds = F /\ r.sleepers = v.sleepers
         /\ r.park = v.park /\ r.nap = v.nap
    <3>1. CASE l \in Fds
      BY <2>12, <3>1 DEF WithFds
    <3>2. CASE l \notin Fds
      BY <2>3, <2>8, <2>9, <2>12, <3>2
    <3> QED BY <3>1, <3>2
  <2>15. /\ r.park[p] = l /\ r.nap[p] = k
         /\ \A t \in Threads \ {p} : r.park[t] = s.park[t] /\ r.nap[t] = s.nap[t]
    BY <1>2, <2>3, <2>8, <2>14 DEF Sch
  <2>16. r.runq = s.runq /\ r.sleepers = z /\ s.fds \subseteq r.fds /\ (l \in Fds => l \in r.fds)
    BY <2>3, <2>8, <2>9, <2>14
  <2>17. \A j \in Lists : \A x : Contains(r.waiters[j], x)
            <=> Contains(s.waiters[j], x) \/ (j = l /\ x = p)
    BY <2>2, <2>8, <2>14 DEF Appended
  <2>18. /\ \A t \in Threads \ {p}, j \in Kinds : <<t, j>> \in r.sleepers <=> <<t, j>> \in s.sleepers
         /\ \A j \in Kinds : <<p, j>> \in r.sleepers => <<p, j>> \in s.sleepers \/ k = j
         /\ k # "no" => <<p, k>> \in r.sleepers
    BY <2>4, <2>16
  <2>19. Marked(s, r, p)
    BY <1>0, <1>2, <2>2, <2>8, <2>14 DEF Marked, Appended
  <2>20. Parks(s, r, p)
    BY <1>2, <2>13, <2>15, <2>16, <2>17, <2>18, <2>19 DEF Parks, Queued, LinkedAt
  <2> QED BY <2>4, <2>11, <2>15, <2>16, <2>17, <2>20
<1> QED BY <1>1, <1>2 DEF Procs

\* A green thread among the sleepers, in the run queue, or where it is.
LEMMA OtherParks ==
  ASSUME NEW s \in Sch, NEW p \in Threads
  PROVE  /\ LinkedAt(s, p) => Parks(s, Enqueue(s, p), p) /\ Parks(s, s, p)
         /\ \A k \in Kinds :
              LET r == WithPark(s, p, None, k, s.sleepers \cup {<<p, k>>})
              IN  Parks(s, r, p) /\ r.nap[p] = k
<1>1. ASSUME LinkedAt(s, p) PROVE Parks(s, s, p)
  BY <1>1 DEF Parks, Marked
<1>2. ASSUME LinkedAt(s, p) PROVE Parks(s, Enqueue(s, p), p)
  BY <1>2, EnqueueFacts DEF Parks, LinkedAt, Marked
<1>3. ASSUME NEW k \in Kinds, NEW r, r = WithPark(s, p, None, k, s.sleepers \cup {<<p, k>>})
      PROVE  Parks(s, r, p) /\ r.nap[p] = k
  <2>1. s.sleepers \cup {<<p, k>>} \in SUBSET (Threads \X Kinds)
    BY <1>3 DEF Sch
  <2>2. r \in Sch
    BY <1>3, <2>1, TableTypes
  <2>3. /\ r.runq = s.runq /\ r.waiters = s.waiters /\ r.fds = s.fds
        /\ r.sleepers = s.sleepers \cup {<<p, k>>}
        /\ r.park = [s.park EXCEPT ![p] = None] /\ r.nap = [s.nap EXCEPT ![p] = k]
    BY <1>3 DEF WithPark
  <2>4. /\ r.park[p] = None /\ r.nap[p] = k
        /\ \A t \in Threads \ {p} : r.park[t] = s.park[t] /\ r.nap[t] = s.nap[t]
    BY <1>3, <2>3 DEF Sch
  <2>5. /\ \A t \in Threads \ {p}, j \in Kinds : <<t, j>> \in r.sleepers <=> <<t, j>> \in s.sleepers
        /\ \A j \in Kinds : <<p, j>> \in r.sleepers => <<p, j>> \in s.sleepers \/ k = j
        /\ <<p, k>> \in r.sleepers
    BY <2>3
  <2> QED BY <1>3, <2>2, <2>3, <2>4, <2>5 DEF Parks, Queued, LinkedAt, Marked
<1> QED BY <1>1, <1>2, <1>3

\* The tail of __coop_run leaves the thread queued or registered.
LEMMA RequeueParks ==
  ASSUME NEW s \in Sch, NEW r \in Sch, NEW p \in Threads, Parks(s, r, p)
  PROVE  Parks(s, Requeue(r, p), p) /\ Anchored(Requeue(r, p), p)
<1>1. CASE r.park[p] = None /\ r.nap[p] = "no" /\ ~Queued(r, p)
  <2>1. PICK q : q = Enqueue(r, p)
    OBVIOUS
  <2>2. /\ q \in Sch /\ \A x : Queued(q, x) <=> Queued(r, x) \/ x = p
        /\ Distinct(r.runq) /\ ~Queued(r, p) => Distinct(q.runq)
        /\ q.waiters = r.waiters /\ q.park = r.park
        /\ q.nap = r.nap /\ q.sleepers = r.sleepers /\ q.fds = r.fds
    BY <2>1, EnqueueFacts
  <2>3. Parks(s, q, p)
    BY <1>1, <2>2 DEF Parks, LinkedAt, Marked
  <2>4. Requeue(r, p) = q
    BY <1>1, <2>1 DEF Requeue
  <2> QED BY <2>2, <2>3, <2>4 DEF Anchored
<1>2. CASE ~(r.park[p] = None /\ r.nap[p] = "no" /\ ~Queued(r, p))
  BY <1>2 DEF Requeue, Anchored, Parked
<1> QED BY <1>1, <1>2

-----------------------------------------------------------------------------
(* The invariants of the tables under wakes, parks and changes of status.  *)

TabInv(s, st, K) ==
    Born(s, st) /\ Linked(s, st) /\ Findable(s, st) /\ Pending(s, st, K)

\* A thread that a table names.
Named(s, t) ==
    \/ Queued(s, t)
    \/ \E l \in Lists : Contains(s.waiters[l], t)
    \/ \E k \in Kinds : <<t, k>> \in s.sleepers

\* A wake of threads that exist.
LEMMA WokeTab ==
  ASSUME NEW s \in Sch, NEW r, NEW W, NEW K, K \subseteq Threads, Woke(s, r, W),
         TabInv(s, status, K), \A t \in W : status[t] # "unborn"
  PROVE  TabInv(r, status, K)
<1>1. Born(r, status)
  <2> SUFFICES ASSUME NEW t \in Threads, Named(r, t) PROVE status[t] # "unborn"
    BY DEF Born, Named
  <2>1. t \in W \/ Named(s, t)
    BY DEF Woke, Named
  <2> QED BY <2>1 DEF TabInv, Born, Named
<1>2. Linked(r, status)
  <2> SUFFICES ASSUME NEW t \in Threads, status[t] # "dead" PROVE LinkedAt(r, t)
    BY DEF Linked
  <2>1. CASE t \in W
    BY <2>1 DEF Woke, LinkedAt
  <2>2. CASE t \notin W
    <3>1. LinkedAt(s, t) /\ ~Dead(t)
      BY DEF TabInv, Linked, Dead
    <3>2. r.park[t] = s.park[t] /\ r.nap[t] = s.nap[t] /\ s.park[t] \in Lists \cup {None}
          /\ s.nap[t] \in {"no"} \cup Kinds
      BY <2>2 DEF Woke, Sch
    <3>3. ASSUME r.park[t] # None PROVE Contains(r.waiters[r.park[t]], t)
      BY <2>2, <3>1, <3>2, <3>3 DEF Woke, LinkedAt
    <3>4. ASSUME r.park[t] # None, r.park[t] \in Fds PROVE r.park[t] \in r.fds
      BY <2>2, <3>1, <3>2, <3>4 DEF Woke, LinkedAt
    <3>5. ASSUME r.nap[t] # "no" PROVE <<t, r.nap[t]>> \in r.sleepers
      BY <2>2, <3>1, <3>2, <3>5 DEF Woke, LinkedAt
    <3> QED BY <3>3, <3>4, <3>5 DEF LinkedAt
  <2> QED BY <2>1, <2>2
<1>3. Findable(r, status)
  BY DEF Woke, TabInv, Findable
<1>4. Pending(r, status, K)
  BY DEF Woke, TabInv, Pending
<1> QED BY <1>1, <1>2, <1>3, <1>4 DEF TabInv

\* A park of the executing process p.
LEMMA ParkTab ==
  ASSUME NEW s \in Sch, NEW r, NEW K, K \subseteq Threads, NEW p \in Procs, NEW x, NEW st,
         status \in [Procs -> Statuses], status[p] \in {"run", "woken"},
         st = [status EXCEPT ![p] = x], x \in {"parked", "drive"},
         Parks(s, r, p), p \in Threads => Anchored(r, p), TabInv(s, status, K)
  PROVE  TabInv(r, st, K)
<1>1. /\ \A t \in Threads \ {p} : st[t] = status[t]
      /\ p \in Threads => st[p] = x /\ p \notin K
  BY DEF TabInv, Pending, Procs
<1>2. Born(r, st)
  <2> SUFFICES ASSUME NEW t \in Threads \ {p}, Named(r, t) PROVE st[t] # "unborn"
    BY <1>1 DEF Born, Named
  <2>1. Named(s, t)
    BY DEF Parks, Named
  <2> QED BY <1>1, <2>1 DEF TabInv, Born, Named
<1>3. Linked(r, st)
  <2> SUFFICES ASSUME NEW t \in Threads \ {p}, st[t] # "dead" PROVE LinkedAt(r, t)
    BY DEF Linked, Parks
  <2>1. LinkedAt(s, t) /\ s.park[t] \in Lists \cup {None} /\ s.nap[t] \in {"no"} \cup Kinds
    BY <1>1 DEF TabInv, Linked, Sch
  <2> QED BY <2>1 DEF Parks, LinkedAt
<1>4. Findable(r, st)
  BY <1>1 DEF TabInv, Findable, Parks, Anchored, Parked
<1>5. Pending(r, st, K)
  BY <1>1 DEF TabInv, Pending, Parks
<1> QED BY <1>2, <1>3, <1>4, <1>5 DEF TabInv

\* A process that does not park changes its status.
LEMMA StatusTab ==
  ASSUME NEW s \in Sch, NEW st, NEW su, NEW K, NEW J, NEW p \in Procs, NEW x,
         K \subseteq Threads, J \subseteq K, p \notin J,
         st \in [Procs -> Statuses], st[p] # "dead",
         su = [st EXCEPT ![p] = x], x \in {"fresh", "run", "woken", "dead"} \/ p \notin Threads,
         TabInv(s, st, K)
  PROVE  TabInv(s, su, J)
<1>1. /\ \A t \in Threads \ {p} : su[t] = st[t]
      /\ p \in Threads => su[p] = x
  BY DEF Procs
<1>2. Born(s, su)
  BY <1>1 DEF TabInv, Born
<1>3. Linked(s, su)
  BY <1>1 DEF TabInv, Linked
<1>4. Findable(s, su)
  BY <1>1 DEF TabInv, Findable
<1>5. Pending(s, su, J)
  BY <1>1 DEF TabInv, Pending
<1> QED BY <1>2, <1>3, <1>4, <1>5 DEF TabInv

\* r is s without the head t of the run queue.
Popped(s, r, t) ==
    /\ r \in Sch /\ t \in Threads /\ Queued(s, t)
    /\ \A x \in Threads : /\ Queued(r, x) => Queued(s, x)
                          /\ Queued(s, x) => Queued(r, x) \/ x = t
    /\ Distinct(s.runq) => Distinct(r.runq) /\ ~Queued(r, t)
    /\ r.waiters = s.waiters /\ r.park = s.park /\ r.nap = s.nap
    /\ r.sleepers = s.sleepers /\ r.fds = s.fds

\* r is s with the run queue in another order.
Reordered(s, r) ==
    /\ r \in Sch
    /\ \A x \in Threads : Queued(r, x) <=> Queued(s, x)
    /\ r.waiters = s.waiters /\ r.park = s.park /\ r.nap = s.nap
    /\ r.sleepers = s.sleepers /\ r.fds = s.fds

\* @coop_runq.shift, and the rotation of a pinned head.
LEMMA ShiftFacts ==
  ASSUME sch \in Sch, sch.runq # <<>>
  PROVE  Popped(sch, Shifted, Head(sch.runq)) /\ Reordered(sch, Rotated)
<1>1. PICK q : q = sch.runq
  OBVIOUS
<1>2. q \in Seq(Threads) /\ q # <<>>
  BY <1>1 DEF Sch
<1>3. PICK t, v, w : t = Head(q) /\ v = Tail(q) /\ w = Append(v, t)
  OBVIOUS
<1>4. /\ t \in Threads /\ v \in Seq(Threads) /\ w \in Seq(Threads)
      /\ t = q[1] /\ Len(q) \in Nat /\ Len(q) >= 1 /\ Len(v) = Len(q) - 1
      /\ \A i \in 1..Len(v) : v[i] = q[i + 1]
  BY <1>2, <1>3
<1>5. \A x : /\ Contains(v, x) => Contains(q, x)
             /\ Contains(q, x) => Contains(v, x) \/ x = t
  <2> TAKE x
  <2>1. ASSUME Contains(v, x) PROVE Contains(q, x)
    BY <1>4, <2>1 DEF Contains
  <2>2. ASSUME Contains(q, x), x # t PROVE Contains(v, x)
    <3>1. PICK i \in 1..Len(q) : q[i] = x
      BY <2>2 DEF Contains
    <3>2. i - 1 \in 1..Len(v) /\ v[i - 1] = x
      BY <1>4, <2>2, <3>1
    <3> QED BY <3>2 DEF Contains
  <2> QED BY <2>1, <2>2
<1>6. Contains(q, t)
  BY <1>4 DEF Contains
<1>7. ASSUME Distinct(q) PROVE Distinct(v) /\ ~Contains(v, t)
  <2>1. \A i \in 1..Len(v) : i + 1 \in 1..Len(q) /\ i + 1 # 1 /\ v[i] = q[i + 1]
    BY <1>4
  <2>2. 1 \in 1..Len(q) /\ q[1] = t
    BY <1>4
  <2>3. ~Contains(v, t)
    BY <1>7, <2>1, <2>2 DEF Distinct, Contains
  <2>4. ASSUME NEW i \in 1..Len(v), NEW j \in 1..Len(v), v[i] = v[j] PROVE i = j
    <3>1. i + 1 = j + 1
      BY <1>7, <2>1, <2>4 DEF Distinct
    <3> QED BY <1>4, <3>1
  <2> QED BY <2>3, <2>4 DEF Distinct
<1>8. \A x : Contains(w, x) <=> Contains(v, x) \/ x = t
  <2>1. /\ Len(v) \in Nat /\ Len(w) = Len(v) + 1 /\ w[Len(v) + 1] = t
        /\ \A i \in 1..Len(v) : w[i] = v[i]
    BY <1>3, <1>4
  <2>2. \A i \in 1..Len(w) : i \in 1..Len(v) \/ i = Len(v) + 1
    BY <2>1
  <2> QED BY <2>1, <2>2 DEF Contains
<1>9. PICK r, o : r = Shifted /\ o = Rotated
  OBVIOUS
<1>10. /\ r.runq = v /\ r.waiters = sch.waiters /\ r.park = sch.park /\ r.nap = sch.nap
       /\ r.sleepers = sch.sleepers /\ r.fds = sch.fds
  BY <1>1, <1>3, <1>9 DEF Shifted, WithRunq
<1>11. /\ o.runq = w /\ o.waiters = sch.waiters /\ o.park = sch.park /\ o.nap = sch.nap
       /\ o.sleepers = sch.sleepers /\ o.fds = sch.fds
  BY <1>1, <1>3, <1>9 DEF Rotated, WithRunq
<1>12. r \in Sch /\ o \in Sch
  BY <1>1, <1>3, <1>4, <1>9, TableTypes DEF Shifted, Rotated
<1>13. Popped(sch, r, t)
  BY <1>1, <1>4, <1>5, <1>6, <1>7, <1>10, <1>12 DEF Popped, Queued
<1>14. Reordered(sch, o)
  BY <1>1, <1>5, <1>6, <1>8, <1>11, <1>12 DEF Reordered, Queued
<1> QED BY <1>1, <1>3, <1>9, <1>13, <1>14

\* A thread that is not suspended leaves the run queue.
LEMMA PoppedTab ==
  ASSUME NEW s \in Sch, NEW r, NEW t, NEW st, NEW K, K \subseteq Threads, t \notin K,
         Popped(s, r, t), st[t] \notin {"parked", "drive"}, TabInv(s, st, K)
  PROVE  TabInv(r, st, K)
<1>1. Born(r, st)
  BY DEF Popped, TabInv, Born
<1>2. Linked(r, st)
  BY DEF Popped, TabInv, Linked, LinkedAt
<1>3. Findable(r, st)
  BY DEF Popped, TabInv, Findable
<1>4. Pending(r, st, K)
  BY DEF Popped, TabInv, Pending
<1> QED BY <1>1, <1>2, <1>3, <1>4 DEF TabInv

\* The order of the run queue does not matter here.
LEMMA ReorderedTab ==
  ASSUME NEW s \in Sch, NEW r, NEW st, NEW K, K \subseteq Threads,
         Reordered(s, r), TabInv(s, st, K)
  PROVE  TabInv(r, st, K)
<1>1. Born(r, st)
  BY DEF Reordered, TabInv, Born
<1>2. Linked(r, st)
  BY DEF Reordered, TabInv, Linked, LinkedAt
<1>3. Findable(r, st)
  BY DEF Reordered, TabInv, Findable
<1>4. Pending(r, st, K)
  BY DEF Reordered, TabInv, Pending
<1> QED BY <1>1, <1>2, <1>3, <1>4 DEF TabInv

\* A new thread is queued.
LEMMA EnqueueTab ==
  ASSUME NEW s \in Sch, NEW t \in Threads, NEW st, NEW K, K \subseteq Threads,
         st[t] # "unborn", TabInv(s, st, K)
  PROVE  TabInv(Enqueue(s, t), st, K)
<1>1. PICK r : r = Enqueue(s, t)
  OBVIOUS
<1>2. /\ r \in Sch /\ \A x : Queued(r, x) <=> Queued(s, x) \/ x = t
      /\ r.waiters = s.waiters /\ r.park = s.park
      /\ r.nap = s.nap /\ r.sleepers = s.sleepers /\ r.fds = s.fds
  BY <1>1, EnqueueFacts
<1>3. Born(r, st)
  BY <1>2 DEF TabInv, Born
<1>4. Linked(r, st)
  BY <1>2 DEF TabInv, Linked, LinkedAt
<1>5. Findable(r, st)
  BY <1>2 DEF TabInv, Findable
<1>6. Pending(r, st, K)
  BY <1>2 DEF TabInv, Pending
<1> QED BY <1>1, <1>3, <1>4, <1>5, <1>6 DEF TabInv

\* The same for the exact tables of a program without inline parks.
LEMMA WokeExact ==
  ASSUME NEW s \in Sch, NEW r, NEW W, Woke(s, r, W), Exact(s, status),
         \A t \in W : status[t] = "parked"
  PROVE  Exact(r, status)
<1>1. Distinct(r.runq)
  BY DEF Woke, Exact, Distinct
<1>2. ASSUME NEW t \in Threads
      PROVE  /\ status[t] # "drive"
             /\ Queued(r, t) => /\ status[t] \in {"fresh", "parked", "dead"}
                                /\ r.park[t] = None /\ r.nap[t] = "no"
  BY DEF Woke, Exact
<1>3. ASSUME NEW t \in Threads, NEW l \in Lists, Contains(r.waiters[l], t)
      PROVE  status[t] = "parked" /\ r.park[t] = l
  BY <1>3 DEF Woke, Exact
<1>4. ASSUME NEW t \in Threads, NEW k \in Kinds, <<t, k>> \in r.sleepers
      PROVE  status[t] = "parked" /\ r.nap[t] = k
  BY <1>4 DEF Woke, Exact
<1>5. ASSUME NEW t \in Threads, status[t] # "parked"
      PROVE  r.park[t] = None /\ r.nap[t] = "no"
  BY <1>5 DEF Woke, Exact
<1> QED BY <1>1, <1>2, <1>3, <1>4, <1>5 DEF Exact, Distinct

\* A process that parks leaves exact tables exact.
LEMMA ParkExact ==
  ASSUME NEW s \in Sch, NEW r, NEW p \in Procs, NEW x, NEW st,
         status \in [Procs -> Statuses], status[p] \in {"run", "woken"},
         st = [status EXCEPT ![p] = x], p \in Threads => x = "parked",
         Parks(s, r, p), Exact(s, status),
         p \in Threads => (Queued(r, p) => ~Parked(r, p))
  PROVE  Exact(r, st)
<1>1. /\ \A t \in Threads \ {p} : st[t] = status[t]
      /\ p \in Threads => st[p] = "parked"
  BY DEF Procs
<1>2. p \in Threads => ~Queued(s, p)
  BY DEF Exact
<1>3. Distinct(r.runq)
  BY <1>2 DEF Exact, Parks, Distinct
<1>4. ASSUME NEW t \in Threads
      PROVE  /\ st[t] # "drive"
             /\ Queued(r, t) => /\ st[t] \in {"fresh", "parked", "dead"}
                                /\ r.park[t] = None /\ r.nap[t] = "no"
  BY <1>1 DEF Parks, Exact, Parked
<1>5. ASSUME NEW t \in Threads, NEW l \in Lists, Contains(r.waiters[l], t)
      PROVE  st[t] = "parked" /\ r.park[t] = l
  <2>1. CASE t = p
    BY <1>1, <1>5, <2>1 DEF Parks, Exact
  <2>2. CASE t # p
    BY <1>1, <1>5, <2>2 DEF Parks, Exact
  <2> QED BY <2>1, <2>2
<1>6. ASSUME NEW t \in Threads, NEW k \in Kinds, <<t, k>> \in r.sleepers
      PROVE  st[t] = "parked" /\ r.nap[t] = k
  <2>1. CASE t = p
    BY <1>1, <1>6, <2>1 DEF Parks, Exact
  <2>2. CASE t # p
    BY <1>1, <1>6, <2>2 DEF Parks, Exact
  <2> QED BY <2>1, <2>2
<1>7. ASSUME NEW t \in Threads, st[t] # "parked"
      PROVE  r.park[t] = None /\ r.nap[t] = "no"
  BY <1>1, <1>7 DEF Parks, Exact
<1> QED BY <1>3, <1>4, <1>5, <1>6, <1>7 DEF Exact, Distinct

\* So does a change of status of a thread that no table names.
LEMMA StatusExact ==
  ASSUME NEW s \in Sch, NEW st, NEW su, NEW p \in Procs, NEW x,
         st \in [Procs -> Statuses], su = [st EXCEPT ![p] = x],
         p \in Threads => /\ x \in {"fresh", "run", "woken", "dead"} /\ ~Parked(s, p)
                          /\ Queued(s, p) => x \in {"fresh", "dead"},
         Exact(s, st)
  PROVE  Exact(s, su)
<1>1. /\ \A t \in Threads \ {p} : su[t] = st[t]
      /\ p \in Threads => su[p] = x
  BY DEF Procs
<1>2. Distinct(s.runq)
  BY DEF Exact, Distinct
<1>3. None \notin Lists /\ "no" \notin Kinds
  BY ObjectAssumption DEF Lists, Kinds
<1>4. p \in Threads => /\ \A l \in Lists : ~Contains(s.waiters[l], p)
                       /\ \A k \in Kinds : <<p, k>> \notin s.sleepers
  BY <1>3 DEF Exact, Parked
<1> QED BY <1>1, <1>2, <1>4 DEF Exact, Distinct, Parked

\* So does taking the head off the run queue, which then no longer has it.
LEMMA PoppedExact ==
  ASSUME NEW s \in Sch, NEW r, NEW t, NEW st, Popped(s, r, t), Exact(s, st)
  PROVE  Exact(r, st) /\ ~Queued(r, t) /\ ~Parked(r, t)
<1>1. Distinct(s.runq)
  BY DEF Exact, Distinct
<1>2. Distinct(r.runq) /\ ~Queued(r, t) /\ ~Parked(r, t)
  BY <1>1 DEF Popped, Exact, Parked
<1> QED BY <1>2 DEF Popped, Exact, Distinct

\* So does queueing a fresh thread.
LEMMA EnqueueExact ==
  ASSUME NEW s \in Sch, NEW t \in Threads, NEW st, Exact(s, st), ~Queued(s, t),
         st[t] = "fresh"
  PROVE  Exact(Enqueue(s, t), st)
<1>1. PICK r : r = Enqueue(s, t)
  OBVIOUS
<1>2. /\ r \in Sch /\ \A x : Queued(r, x) <=> Queued(s, x) \/ x = t
      /\ Distinct(s.runq) /\ ~Queued(s, t) => Distinct(r.runq)
      /\ r.waiters = s.waiters /\ r.park = s.park
      /\ r.nap = s.nap /\ r.sleepers = s.sleepers /\ r.fds = s.fds
  BY <1>1, EnqueueFacts
<1>3. Distinct(r.runq)
  BY <1>2 DEF Exact, Distinct
<1>4. Exact(r, st)
  BY <1>2, <1>3 DEF Exact, Distinct
<1> QED BY <1>1, <1>4

-----------------------------------------------------------------------------
(* The steps of the specification, by what they do to the scheduler.       *)

Runs(p) == p \in Procs /\ p = Current /\ status[p] \in {"run", "woken"}

\* The executing process or a loop wakes threads, and nothing else happens.
RouseStep ==
    /\ status[Current] # "woken"
    /\ \E W : Woke(sch, sch', W) /\ W \subseteq Rousable(sch)
    /\ UNCHANGED <<stack, status, call, killed>>

\* p, going from tables s to r with call c, is queued only where it does not
\* park, and in a join without a limit it is where its target will look.
Quiet(s, r, p, c) ==
    /\ Queued(r, p) => Queued(s, p) \/ Parked(s, p) \/ ~Parked(r, p)
    /\ c.op = "join" /\ ~c.timed =>
         /\ r.park[p] = c.on /\ r.nap[p] = "no"
         /\ Queued(r, p) => Queued(s, p)

\* p, going from tables s to r with call c, is listed where the call waits, and
\* waits for a mutex or a queue without a limit.
Lands(s, r, p, c) ==
    /\ \A l \in Lists : Contains(r.waiters[l], p) => Contains(s.waiters[l], p) \/ l = c.on
    /\ c.op \in {"lock", "pop"} => ~c.timed
    /\ p \in Threads => /\ r.park[p] \in {s.park[p], c.on}
                        /\ c.op \in {"lock", "pop"} => r.nap[p] = "no"

CallOK(p, c) ==
    /\ c \in Calls /\ CallFits(c) /\ c.res = "ok"
    /\ c.inl => TRUE \in Inline \/ call[p].inl
    /\ p = Main => ~c.inl

\* p wakes threads, registers and suspends.
ParkStep(p) ==
    /\ Runs(p) /\ UNCHANGED killed
    /\ \E s, W, c :
         /\ s \in Sch /\ Woke(sch, s, W) /\ W \subseteq Rousable(sch)
         /\ Parks(s, sch', p) /\ CallOK(p, c) /\ Lands(s, sch', p, c)
         /\ p \in Threads => Anchored(sch', p) /\ Quiet(s, sch', p, c)
         /\ call' = [call EXCEPT ![p] = c]
         /\ IF p = Main \/ c.inl
            THEN status' = [status EXCEPT ![p] = "drive"] /\ UNCHANGED stack
            ELSE status' = [status EXCEPT ![p] = "parked"] /\ stack' = Front(stack)

\* p's call is over, or was over at once.
ReturnStep(p) ==
    /\ Runs(p)
    /\ status' = [status EXCEPT ![p] = "run"]
    /\ call' = [call EXCEPT ![p] = Idle]
    /\ UNCHANGED <<sch, stack, killed>>

OtherStep ==
    \/ \E p \in Procs, t \in Threads : Spawn(p, t) \/ Kill(p, t) \/ Wakeup(p, t)
    \/ MainWakes \/ ScheduleStep \/ DeadlockError \/ MainPass \/ MainExits
    \/ \E p \in Threads : \/ InlineWakes(p) \/ InlineDropsDead(p) \/ InlineRotates(p)
                          \/ InlineRuns(p) \/ InlineError(p)
    \/ \E t \in Threads : Finish(t)
    \/ UNCHANGED <<sch, stack, status, call, killed>>

\* Suspending with tables r in which p is registered is such a step.
LEMMA SuspendParks ==
  ASSUME sch \in Sch, NEW p, Runs(p), NEW s \in Sch, NEW W, NEW r, NEW c,
         Woke(sch, s, W), W \subseteq Rousable(sch), Parks(s, r, p), CallOK(p, c), Lands(s, r, p, c),
         p \in Threads => Quiet(s, r, p, c) /\ (c.inl => Anchored(r, p)),
         Suspend(p, r, c), UNCHANGED killed
  PROVE  ParkStep(p)
<1>1. p \in Procs /\ Main \notin Threads /\ r \in Sch
  BY ObjectAssumption DEF Runs, Parks
<1>2. CASE p = Main \/ c.inl
  <2>1. /\ sch' = r /\ call' = [call EXCEPT ![p] = c]
        /\ status' = [status EXCEPT ![p] = "drive"] /\ UNCHANGED stack
    BY <1>2 DEF Suspend
  <2>2. /\ Parks(s, sch', p) /\ Lands(s, sch', p, c)
        /\ p \in Threads => Anchored(sch', p) /\ Quiet(s, sch', p, c)
    BY <1>1, <1>2, <2>1
  <2> QED BY <1>2, <2>1, <2>2 DEF ParkStep
<1>3. CASE ~(p = Main \/ c.inl)
  <2>1. p \in Threads
    BY <1>1, <1>3 DEF Procs
  <2>2. /\ sch' = Requeue(r, p) /\ call' = [call EXCEPT ![p] = c]
        /\ status' = [status EXCEPT ![p] = "parked"] /\ stack' = Front(stack)
    BY <1>3 DEF Suspend
  <2>3. PICK q : q = Requeue(r, p)
    OBVIOUS
  <2>4. Parks(s, q, p) /\ Anchored(q, p)
    BY <1>1, <2>1, <2>3, RequeueParks
  <2>5. Quiet(s, q, p, c)
    <3>1. CASE r.park[p] = None /\ r.nap[p] = "no" /\ ~Queued(r, p)
      <4>1. q = Enqueue(r, p)
        BY <2>3, <3>1 DEF Requeue
      <4>2. q.park = r.park /\ q.nap = r.nap
        BY <4>1 DEF Enqueue, WithRunq
      <4>3. c.op = "join" => c.on # None
        BY ObjectAssumption DEF CallOK, CallFits
      <4> QED BY <2>1, <3>1, <4>2, <4>3 DEF Quiet, Parked
    <3>2. CASE ~(r.park[p] = None /\ r.nap[p] = "no" /\ ~Queued(r, p))
      BY <2>1, <2>3, <3>2 DEF Requeue
    <3> QED BY <3>1, <3>2
  <2>6. q.waiters = r.waiters /\ q.park = r.park /\ q.nap = r.nap
    BY <2>3 DEF Requeue, Enqueue, WithRunq
  <2>7. Lands(s, q, p, c)
    BY <2>6 DEF Lands
  <2>8. Parks(s, sch', p) /\ Lands(s, sch', p, c) /\ Anchored(sch', p) /\ Quiet(s, sch', p, c)
    BY <2>2, <2>3, <2>4, <2>5, <2>7
  <2> QED BY <1>3, <2>2, <2>8 DEF ParkStep
<1> QED BY <1>2, <1>3

\* In particular __coop_block, __coop_wait_fd and __coop_join.
LEMMA RegisterStep ==
  ASSUME sch \in Sch, NEW p, Runs(p), NEW s \in Sch, NEW W, NEW op, NEW l \in Lists, NEW mx,
         NEW timed \in BOOLEAN, NEW inl, NEW pend,
         Woke(sch, s, W), W \subseteq Rousable(sch),
         CallOK(p, Calling(op, l, mx, timed, inl, pend)), op \in {"lock", "pop"} => ~timed,
         Suspend(p, Register(s, p, l, timed), Calling(op, l, mx, timed, inl, pend)),
         UNCHANGED killed
  PROVE  ParkStep(p)
<1>1. PICK c : c = Calling(op, l, mx, timed, inl, pend)
  OBVIOUS
<1>2. c.op = op /\ c.on = l /\ c.timed = timed /\ c.inl = inl
  BY <1>1 DEF Calling
<1>3. PICK r : r = Register(s, p, l, timed)
  OBVIOUS
<1>4. /\ Parks(s, r, p)
      /\ \A k \in Lists : Contains(r.waiters[k], p) => Contains(s.waiters[k], p) \/ k = l
      /\ p \in Threads => /\ r.runq = s.runq /\ r.park[p] = l
                          /\ r.nap[p] = IF timed THEN "timed" ELSE "no"
  BY <1>3, RegisterParks DEF Runs
<1>5. None \notin Lists
  BY ObjectAssumption DEF Lists
<1>6. p \in Threads => Quiet(s, r, p, c) /\ (c.inl => Anchored(r, p))
  BY <1>2, <1>4, <1>5 DEF Quiet, Anchored, Parked, Queued
<1>7. Lands(s, r, p, c)
  BY <1>2, <1>4 DEF Lands
<1> QED BY <1>1, <1>3, <1>4, <1>6, <1>7, SuspendParks

\* A blocking call is well formed.
LEMMA CallingOK ==
  ASSUME NEW p, NEW op, NEW on, NEW mx \in Mutexes \cup {None}, NEW timed \in BOOLEAN,
         NEW inl \in BOOLEAN, NEW pend \in Outcomes,
         \/ op \in {"none", "sleep", "pass", "yield"} /\ on = None
         \/ op = "lock" /\ on \in Mutexes
         \/ op = "pop" /\ on \in Queues
         \/ op = "wait" /\ on \in CVs
         \/ op = "join" /\ on \in Threads
         \/ op = "fd" /\ on \in Fds,
         inl => TRUE \in Inline \/ call[p].inl,
         p = Main => ~inl
  PROVE  CallOK(p, Calling(op, on, mx, timed, inl, pend))
<1>1. PICK c : c = Calling(op, on, mx, timed, inl, pend)
  OBVIOUS
<1>2. /\ c \in Calls /\ c.op = op /\ c.on = on /\ c.mx = mx /\ c.timed = timed /\ c.inl = inl
      /\ c.res = "ok"
  BY <1>1 DEF Calling, Calls, Lists, Outcomes
<1>3. CallFits(c)
  BY <1>2 DEF CallFits
<1> QED BY <1>1, <1>2, <1>3 DEF CallOK

\* An operation of the program executes; where it may be beneath a native frame.
LEMMA ActsRuns ==
  ASSUME NEW p \in Procs, NEW op, Acts(p, op)
  PROVE  /\ Runs(p)
         /\ \A inl \in MayInline(p) : /\ inl \in BOOLEAN
                                      /\ inl => TRUE \in Inline \/ call[p].inl
                                      /\ p = Main => ~inl
<1>1. Runs(p)
  BY DEF Acts, Runs
<1>2. \A inl \in MayInline(p) : /\ inl \in BOOLEAN
                                /\ inl => TRUE \in Inline \/ call[p].inl
                                /\ p = Main => ~inl
  BY ObjectAssumption DEF MayInline
<1> QED BY <1>1, <1>2

\* The parks of the scheduler's own operations.
LEMMA CoreParks ==
  ASSUME CoreInv, NEW p \in Procs,
         \/ \E t \in Threads, timed \in BOOLEAN : Join(p, t, timed)
         \/ \E timed \in BOOLEAN : SleepOp(p, timed)
         \/ \E f \in Fds : WaitFd(p, f)
         \/ Pass(p) \/ BareYield(p)
  PROVE  ParkStep(p)
<1>1. sch \in Sch /\ Woke(sch, sch, {}) /\ {} \subseteq Rousable(sch) /\ Main \notin Threads
  BY WokeNone, ObjectAssumption DEF CoreInv, TypeOK, CoreTypeOK
<1>2. ASSUME p \in Threads, Runs(p) PROVE LinkedAt(sch, p)
  BY <1>2 DEF CoreInv, Linked, Runs
<1>3. "ok" \in Outcomes /\ "timed" \in Kinds /\ "forever" \in Kinds /\ "no" \notin Kinds
  BY DEF Outcomes, Kinds
<1>4. ASSUME NEW t \in Threads, NEW timed \in BOOLEAN, Join(p, t, timed) PROVE ParkStep(p)
  <2>1. Acts(p, IF timed THEN "joinfor" ELSE "join") /\ UNCHANGED killed
    BY <1>4 DEF Join
  <2>2. PICK inl \in MayInline(p) :
          Suspend(p, Register(sch, p, t, timed), Calling("join", t, None, timed, inl, "ok"))
    BY <1>4 DEF Join
  <2>3. Runs(p) /\ CallOK(p, Calling("join", t, None, timed, inl, "ok")) /\ t \in Lists
    BY <1>3, <2>1, ActsRuns, CallingOK DEF Lists
  <2>4. UNCHANGED killed
    BY <2>1
  <2> QED BY ONLY <1>1, <2>2, <2>3, <2>4, RegisterStep, timed \in BOOLEAN
<1>5. ASSUME NEW f \in Fds, WaitFd(p, f) PROVE ParkStep(p)
  <2>1. Acts(p, "fd") /\ UNCHANGED killed
    BY <1>5 DEF WaitFd
  <2>2. PICK timed \in BOOLEAN : timed = FALSE
    OBVIOUS
  <2>3. PICK inl \in MayInline(p) :
          Suspend(p, Register(sch, p, f, timed), Calling("fd", f, None, timed, inl, "ok"))
    BY <1>5, <2>2 DEF WaitFd
  <2>4. Runs(p) /\ CallOK(p, Calling("fd", f, None, timed, inl, "ok")) /\ f \in Lists
    BY <1>3, <2>1, ActsRuns, CallingOK DEF Lists
  <2>5. UNCHANGED killed
    BY <2>1
  <2> QED BY ONLY <1>1, <2>3, <2>4, <2>5, RegisterStep, timed \in BOOLEAN
<1>6. ASSUME NEW timed \in BOOLEAN, SleepOp(p, timed) PROVE ParkStep(p)
  <2>1. Acts(p, IF timed THEN "sleepfor" ELSE "sleep") /\ UNCHANGED killed
    BY <1>6 DEF SleepOp
  <2>2. PICK k \in Kinds : k = IF timed THEN "timed" ELSE "forever"
    BY <1>3
  <2>3. PICK r : r = IF p = Main THEN sch
                     ELSE WithPark(sch, p, None, k, sch.sleepers \cup {<<p, k>>})
    OBVIOUS
  <2>4. PICK inl \in MayInline(p) : Suspend(p, r, Calling("sleep", None, None, timed, inl, "ok"))
    BY <1>6, <2>2, <2>3 DEF SleepOp
  <2>5. Runs(p) /\ CallOK(p, Calling("sleep", None, None, timed, inl, "ok"))
    BY <1>3, <2>1, ActsRuns, CallingOK
  <2>6. PICK c : c = Calling("sleep", None, None, timed, inl, "ok")
    OBVIOUS
  <2>7. c.op = "sleep" /\ c.on = None
    BY <2>6 DEF Calling
  <2>8. CASE p = Main
    <3>1. r = sch /\ Parks(sch, sch, p)
      BY <1>1, <2>3, <2>8 DEF Parks, Marked
    <3>2. Lands(sch, sch, p, c)
      BY <1>1, <2>7, <2>8 DEF Lands
    <3> QED BY <1>1, <2>1, <2>4, <2>5, <2>6, <2>8, <3>1, <3>2, SuspendParks
  <2>9. CASE p # Main
    <3>1. p \in Threads
      BY <2>9 DEF Procs
    <3>2. /\ Parks(sch, r, p) /\ r.nap[p] = k /\ r.runq = sch.runq /\ r.waiters = sch.waiters
          /\ r.park = [sch.park EXCEPT ![p] = None]
      BY <1>1, <2>3, <2>9, <3>1, OtherParks DEF WithPark
    <3>3. Quiet(sch, r, p, c) /\ Anchored(r, p)
      BY <1>3, <2>7, <3>2 DEF Quiet, Anchored, Parked, Queued
    <3>4. Lands(sch, r, p, c)
      BY <1>1, <2>7, <3>1, <3>2 DEF Lands, Sch
    <3> QED BY <1>1, <2>1, <2>4, <2>5, <2>6, <3>2, <3>3, <3>4, SuspendParks
  <2> QED BY <2>8, <2>9
<1>7. ASSUME Pass(p) PROVE ParkStep(p)
  <2>1. Acts(p, "pass") /\ UNCHANGED killed /\ p \in Threads
    BY <1>7 DEF Pass, Procs
  <2>2. PICK inl \in MayInline(p) :
          Suspend(p, Enqueue(sch, p), Calling("pass", None, None, FALSE, inl, "ok"))
    BY <1>7 DEF Pass
  <2>3. Runs(p) /\ CallOK(p, Calling("pass", None, None, FALSE, inl, "ok"))
    BY <1>3, <2>1, ActsRuns, CallingOK
  <2>4. PICK c, r : c = Calling("pass", None, None, FALSE, inl, "ok") /\ r = Enqueue(sch, p)
    OBVIOUS
  <2>5. c.op = "pass"
    BY <2>4 DEF Calling
  <2>6. Parks(sch, r, p)
    BY <1>1, <1>2, <2>1, <2>3, <2>4, OtherParks
  <2>7. r.park = sch.park /\ r.nap = sch.nap /\ r.waiters = sch.waiters /\ Queued(r, p)
    BY <1>1, <2>1, <2>4, EnqueueFacts
  <2>8. Quiet(sch, r, p, c) /\ Anchored(r, p) /\ Lands(sch, r, p, c)
    BY <2>5, <2>7 DEF Quiet, Anchored, Parked, Lands
  <2>9. Suspend(p, r, c) /\ CallOK(p, c) /\ Runs(p)
    BY <2>2, <2>3, <2>4
  <2> QED BY <1>1, <2>1, <2>6, <2>8, <2>9, SuspendParks
<1>8. ASSUME BareYield(p) PROVE ParkStep(p)
  <2>1. Acts(p, "yield") /\ UNCHANGED killed /\ p \in Threads
    BY <1>8 DEF BareYield, Procs
  <2>2. PICK c : c = Calling("yield", None, None, FALSE, FALSE, "ok")
    OBVIOUS
  <2>3. Suspend(p, sch, c)
    BY <1>8, <2>2 DEF BareYield
  <2>4. Runs(p) /\ CallOK(p, c)
    BY <1>3, <2>1, <2>2, ActsRuns, CallingOK
  <2>5. c.op = "yield" /\ c.inl = FALSE
    BY <2>2 DEF Calling
  <2>6. Parks(sch, sch, p)
    BY <1>1, <1>2, <2>1, <2>4, OtherParks
  <2>7. Quiet(sch, sch, p, c) /\ Lands(sch, sch, p, c)
    BY <2>5 DEF Quiet, Lands
  <2> QED BY <1>1, <2>1, <2>3, <2>4, <2>5, <2>6, <2>7, SuspendParks
<1> QED BY <1>4, <1>5, <1>6, <1>7, <1>8

\* A park with no limit on an object, from tables in which others were woken.
LEMMA BlockStep ==
  ASSUME CoreInv, NEW p, Runs(p), NEW op, NEW l, NEW mx \in Mutexes \cup {None},
         NEW inl \in BOOLEAN, NEW pend \in Outcomes,
         (op = "lock" /\ l \in Mutexes) \/ (op = "pop" /\ l \in Queues),
         inl => TRUE \in Inline \/ call[p].inl,
         p = Main => ~inl,
         Block(p, op, l, mx, FALSE, inl, pend)
  PROVE  ParkStep(p)
<1>1. sch \in Sch /\ Woke(sch, sch, {}) /\ {} \subseteq Rousable(sch)
  BY WokeNone DEF CoreInv, TypeOK, CoreTypeOK
<1>2. PICK timed \in BOOLEAN : timed = FALSE
  OBVIOUS
<1>3. Suspend(p, Register(sch, p, l, timed), Calling(op, l, mx, timed, inl, pend))
  BY <1>2 DEF Block
<1>4. UNCHANGED killed
  BY DEF Block
<1>5. CallOK(p, Calling(op, l, mx, timed, inl, pend))
  BY CallingOK
<1>6. l \in Lists /\ ~timed
  BY <1>2 DEF Lists
<1> QED BY ONLY <1>1, <1>3, <1>4, <1>5, <1>6, RegisterStep, Runs(p), timed \in BOOLEAN

\* Waking one or all of the waiters of an object rouses.
LEMMA ObjectWakes ==
  ASSUME NEW s \in Sch, NEW l \in Mutexes \cup Queues \cup CVs
  PROVE  /\ \E W : Woke(s, WakeOne(s, l), W) /\ W \subseteq Rousable(s)
         /\ \E W : Woke(s, WakeAll(s, l), W) /\ W \subseteq Rousable(s)
<1>1. l \in Lists \ Threads
  BY ObjectAssumption DEF Lists
<1>2. Living(s, l) \subseteq Rousable(s)
  BY <1>1 DEF Living, Rousable
<1>3. \E W : Woke(s, WakeOne(s, l), W) /\ W \subseteq Living(s, l)
  BY <1>1, WakeOneWakes
<1>4. Woke(s, WakeAll(s, l), Living(s, l))
  BY <1>1, WakeAllWakes
<1> QED BY <1>2, <1>3, <1>4

\* So does Mutex#unlock, when it wakes anybody.
LEMMA UnlockWakes ==
  ASSUME sch \in Sch, NEW p, NEW m \in Mutexes
  PROVE  \E W : Woke(sch, Unlocked(p, m), W) /\ W \subseteq Rousable(sch)
<1>1. Woke(sch, sch, {})
  BY WokeNone
<1>2. Unlocked(p, m) = WakeOne(sch, m) \/ Unlocked(p, m) = sch
  BY DEF Unlocked
<1>3. \E W : Woke(sch, WakeOne(sch, m), W) /\ W \subseteq Rousable(sch)
  BY ObjectWakes
<1> QED BY <1>1, <1>2, <1>3

\* Mutex#lock takes the mutex and returns, or parks.
LEMMA AcquireStep ==
  ASSUME CoreInv, NEW p, Runs(p), NEW m \in Mutexes, NEW inl \in BOOLEAN, NEW out \in Outcomes,
         inl => TRUE \in Inline \/ call[p].inl,
         p = Main => ~inl,
         Acquire(p, m, inl, out)
  PROVE  ParkStep(p) \/ ReturnStep(p)
<1>1. ASSUME Returns(p, out) PROVE ReturnStep(p)
  BY <1>1 DEF Returns, ReturnStep
<1>2. ASSUME Block(p, "lock", m, None, FALSE, inl, out) PROVE ParkStep(p)
  BY <1>2, BlockStep
<1> QED BY <1>1, <1>2 DEF Acquire

\* The parks of ConditionVariable#wait, after it unlocked the mutex.
LEMMA WaitStep ==
  ASSUME CoreInv, NEW p \in Procs, NEW cv \in CVs, NEW mx \in Mutexes \cup {None},
         NEW timed \in BOOLEAN, Wait(p, cv, mx, timed)
  PROVE  ParkStep(p)
<1>1. sch \in Sch /\ Woke(sch, sch, {}) /\ {} \subseteq Rousable(sch)
  BY WokeNone DEF CoreInv, TypeOK, CoreTypeOK
<1>2. PICK s : s = IF mx = None THEN sch ELSE Unlocked(p, mx)
  OBVIOUS
<1>3. \E W : Woke(sch, s, W) /\ W \subseteq Rousable(sch)
  BY <1>1, <1>2, UnlockWakes
<1>4. PICK W : Woke(sch, s, W) /\ W \subseteq Rousable(sch)
  BY <1>3
<1>5. s \in Sch
  BY <1>4 DEF Woke
<1>6. PICK op : op = IF timed THEN "waitfor" ELSE "wait"
  OBVIOUS
<1>7. Acts(p, op)
  BY <1>6 DEF Wait
<1>8. UNCHANGED killed
  BY DEF Wait
<1>9. PICK inl \in MayInline(p) :
        Suspend(p, Register(s, p, cv, timed), Calling("wait", cv, mx, timed, inl, "ok"))
  BY <1>2 DEF Wait
<1>10. Runs(p) /\ CallOK(p, Calling("wait", cv, mx, timed, inl, "ok")) /\ cv \in Lists
  <2>1. "ok" \in Outcomes /\ cv \in Lists
    BY DEF Outcomes, Lists
  <2>2. /\ Runs(p) /\ inl \in BOOLEAN /\ (inl => TRUE \in Inline \/ call[p].inl)
        /\ p = Main => ~inl
    BY <1>7, ActsRuns
  <2> QED BY <2>1, <2>2, CallingOK
<1> QED BY ONLY <1>1, <1>4, <1>5, <1>8, <1>9, <1>10, RegisterStep, timed \in BOOLEAN

\* The operations on mutexes, queues and condition variables park, return or
\* rouse; some leave the scheduler alone.
LEMMA SyncSteps ==
  ASSUME CoreInv, NEW p \in Procs, SyncOps(p)
  PROVE  RouseStep \/ ParkStep(p) \/ ReturnStep(p) \/ UNCHANGED <<sch, stack, status, call, killed>>
<1>1. sch \in Sch /\ "ok" \in Outcomes
  BY DEF CoreInv, TypeOK, CoreTypeOK, Outcomes
<1>2. ASSUME NEW m \in Mutexes, Lock(p, m) PROVE ParkStep(p) \/ ReturnStep(p)
  <2>1. Acts(p, "lock")
    BY <1>2 DEF Lock
  <2>2. PICK inl \in MayInline(p) : Acquire(p, m, inl, "ok")
    BY <1>2 DEF Lock
  <2>3. /\ Runs(p) /\ inl \in BOOLEAN /\ (inl => TRUE \in Inline \/ call[p].inl)
        /\ p = Main => ~inl
    BY <2>1, ActsRuns
  <2> QED BY <1>1, <2>2, <2>3, AcquireStep
<1>3. ASSUME NEW m \in Mutexes, TryLock(p, m) PROVE UNCHANGED <<sch, stack, status, call, killed>>
  BY <1>3 DEF TryLock
<1>4. ASSUME NEW m \in Mutexes, Unlock(p, m) PROVE RouseStep
  <2>1. sch' = Unlocked(p, m) /\ UNCHANGED <<stack, status, call, killed>> /\ status[Current] = "run"
    BY <1>4 DEF Unlock
  <2> QED BY <1>1, <2>1, UnlockWakes DEF RouseStep
<1>5. ASSUME NEW q \in Queues, Push(p, q) PROVE RouseStep
  <2>1. sch' = WakeOne(sch, q) /\ UNCHANGED <<stack, status, call, killed>> /\ status[Current] = "run"
    BY <1>5 DEF Push, Acts
  <2> QED BY <1>1, <2>1, ObjectWakes DEF RouseStep
<1>6. ASSUME NEW q \in Queues, Pop(p, q)
      PROVE  ParkStep(p) \/ UNCHANGED <<sch, stack, status, call, killed>>
  <2>1. Acts(p, "pop")
    BY <1>6 DEF Pop
  <2>2. CASE \E inl \in MayInline(p) : Block(p, "pop", q, None, FALSE, inl, "ok")
    <3>1. PICK inl \in MayInline(p) : Block(p, "pop", q, None, FALSE, inl, "ok")
      BY <2>2
    <3>2. /\ Runs(p) /\ inl \in BOOLEAN /\ (inl => TRUE \in Inline \/ call[p].inl)
          /\ p = Main => ~inl
      BY <2>1, ActsRuns
    <3> QED BY <1>1, <3>1, <3>2, BlockStep
  <2>3. CASE UNCHANGED <<sch, stack, status, call, killed>>
    BY <2>3
  <2> QED BY <1>6, <2>2, <2>3 DEF Pop
<1>7. ASSUME NEW q \in Queues, Clear(p, q) PROVE UNCHANGED <<sch, stack, status, call, killed>>
  BY <1>7 DEF Clear
<1>8. ASSUME NEW q \in Queues, Close(p, q) PROVE RouseStep
  <2>1. sch' = WakeAll(sch, q) /\ UNCHANGED <<stack, status, call, killed>> /\ status[Current] = "run"
    BY <1>8 DEF Close, Acts
  <2> QED BY <1>1, <2>1, ObjectWakes DEF RouseStep
<1>9. ASSUME NEW cv \in CVs, Signal(p, cv) PROVE RouseStep
  <2>1. sch' = WakeOne(sch, cv) /\ UNCHANGED <<stack, status, call, killed>> /\ status[Current] = "run"
    BY <1>9 DEF Signal, Acts
  <2> QED BY <1>1, <2>1, ObjectWakes DEF RouseStep
<1>10. ASSUME NEW cv \in CVs, Broadcast(p, cv) PROVE RouseStep
  <2>1. sch' = WakeAll(sch, cv) /\ UNCHANGED <<stack, status, call, killed>> /\ status[Current] = "run"
    BY <1>10 DEF Broadcast, Acts
  <2> QED BY <1>1, <2>1, ObjectWakes DEF RouseStep
<1> QED BY <1>2, <1>3, <1>4, <1>5, <1>6, <1>7, <1>8, <1>9, <1>10, WaitStep DEF SyncOps

\* The code after a park returns or parks again.
LEMMA ContinueSteps ==
  ASSUME CoreInv, NEW p \in Procs,
         Continue(p) \/ ContinueLock(p) \/ ContinuePop(p) \/ ContinueWait(p)
  PROVE  ParkStep(p) \/ ReturnStep(p)
<1>1. Runs(p)
  BY DEF Continue, ContinueLock, ContinuePop, ContinueWait, Woken, Runs
<1>2. ASSUME NEW out, Returns(p, out) PROVE ReturnStep(p)
  BY <1>1, <1>2 DEF Returns, ReturnStep
<1>3. PICK c : c = call[p]
  OBVIOUS
<1>4. c \in Calls /\ CallFits(c) /\ (p = Main => ~c.inl)
  BY <1>3 DEF CoreInv, TypeOK, CoreTypeOK
<1>5. c.inl \in BOOLEAN /\ c.res \in Outcomes /\ c.pend \in Outcomes /\ c.mx \in Mutexes \cup {None}
  BY <1>4 DEF Calls
<1>6. c.inl => TRUE \in Inline \/ call[p].inl
  BY <1>3
<1>7. "ok" \in Outcomes
  BY DEF Outcomes
<1>8. ASSUME ContinueLock(p) PROVE ParkStep(p) \/ ReturnStep(p)
  <2>1. c.op = "lock" /\ c.on \in Mutexes
    BY <1>3, <1>4, <1>8 DEF ContinueLock, Woken, CallFits
  <2>2. \/ Returns(p, c.res) \/ Returns(p, c.pend)
        \/ Block(p, "lock", c.on, None, FALSE, c.inl, c.pend)
    BY <1>3, <1>8 DEF ContinueLock
  <2> QED BY <1>1, <1>2, <1>4, <1>5, <1>6, <2>1, <2>2, BlockStep
<1>9. ASSUME ContinuePop(p) PROVE ParkStep(p) \/ ReturnStep(p)
  <2>1. c.op = "pop" /\ c.on \in Queues
    BY <1>3, <1>4, <1>9 DEF ContinuePop, Woken, CallFits
  <2>2. \/ Returns(p, c.res) \/ Returns(p, "ok")
        \/ Block(p, "pop", c.on, None, FALSE, c.inl, "ok")
    BY <1>3, <1>9 DEF ContinuePop
  <2> QED BY <1>1, <1>2, <1>4, <1>5, <1>6, <1>7, <2>1, <2>2, BlockStep
<1>10. ASSUME ContinueWait(p) PROVE ParkStep(p) \/ ReturnStep(p)
  <2>1. Returns(p, c.res) \/ (c.mx # None /\ Acquire(p, c.mx, c.inl, c.res))
    BY <1>3, <1>10 DEF ContinueWait
  <2> QED BY <1>1, <1>2, <1>4, <1>5, <1>6, <2>1, AcquireStep
<1>11. ASSUME Continue(p) PROVE ReturnStep(p)
  BY <1>2, <1>11 DEF Continue
<1> QED BY <1>8, <1>9, <1>10, <1>11

\* Every step is of one of these kinds.
LEMMA StepKinds ==
  ASSUME CoreInv, [Next]_vars
  PROVE  RouseStep \/ (\E p \in Procs : ParkStep(p) \/ ReturnStep(p)) \/ OtherStep
<1>1. sch \in Sch
  BY DEF CoreInv, TypeOK, CoreTypeOK
<1>2. ASSUME NEW p, Poll(p, sch), Drives(p) PROVE RouseStep
  <2>1. \E W : Woke(sch, sch', W) /\ W \subseteq Rousable(sch)
    BY <1>1, <1>2, PollWakes
  <2>2. UNCHANGED <<stack, status, call, killed>> /\ status[Current] = "drive"
    BY <1>2 DEF Poll, Drives
  <2> QED BY <2>1, <2>2 DEF RouseStep
<1>3. ASSUME NEW p \in Procs, CoreOps(p) PROVE ParkStep(p) \/ OtherStep
  BY <1>3, CoreParks DEF CoreOps, OtherStep
<1>4. ASSUME Scheduler PROVE RouseStep \/ OtherStep
  BY <1>2, <1>4 DEF Scheduler, SchedulePoll, InlinePoll, OtherStep
<1>5. ASSUME NEW t \in Threads, ThreadEnds(t) PROVE OtherStep
  BY <1>5 DEF ThreadEnds, OtherStep
<1>6. ASSUME UNCHANGED vars PROVE OtherStep
  BY <1>6 DEF vars, coreVars, OtherStep
<1>7. ASSUME MainPass \/ MainExits PROVE OtherStep
  BY <1>7 DEF OtherStep
<1>8. ASSUME NEW p \in Procs, SyncOps(p) PROVE RouseStep \/ ParkStep(p) \/ ReturnStep(p) \/ OtherStep
  BY <1>8, SyncSteps DEF OtherStep
<1>9. ASSUME Next
      PROVE  RouseStep \/ (\E p \in Procs : ParkStep(p) \/ ReturnStep(p)) \/ OtherStep
  BY <1>3, <1>4, <1>5, <1>6, <1>7, <1>8, <1>9, ContinueSteps DEF Next, Exited
<1> QED BY <1>6, <1>9

-----------------------------------------------------------------------------
(* The stack of scheduler loops.                                           *)

\* The executing process changes its status and stays where it is.
LEMMA StackStays ==
  ASSUME NEW k, k \in Seq(Procs), NEW st, NEW su, st \in [Procs -> Statuses], NEW p \in Procs, NEW x,
         StackInv(k, st), p = Last(k), su = [st EXCEPT ![p] = x],
         x \in {"run", "woken", "drive"} \/ (p = Main /\ x = "dead")
  PROVE  StackInv(k, su)
<1>1. Len(k) \in Nat /\ Len(k) >= 1 /\ p = k[Len(k)] /\ Main \notin Threads
  BY ObjectAssumption DEF Last, StackInv
<1>2. su[p] = x /\ \A t \in Procs \ {p} : su[t] = st[t]
  OBVIOUS
<1>3. \A i \in 1..(Len(k) - 1) : k[i] # p /\ k[i] \in Procs
  BY <1>1 DEF StackInv
<1>4. \A t \in Threads :
        su[t] \in {"run", "woken", "drive"} <=> \E i \in 1..Len(k) : k[i] = t
  <2> TAKE t \in Threads
  <2>1. CASE t = p
    <3> Len(k) \in 1..Len(k)
      BY <1>1
    <3> QED BY <1>1, <1>2, <2>1
  <2>2. CASE t # p
    BY <1>2, <2>2 DEF StackInv, Procs
  <2> QED BY <2>1, <2>2
<1>5. su[Main] \in {"run", "woken", "drive", "dead"}
  BY <1>2 DEF StackInv, Procs
<1> QED BY <1>2, <1>3, <1>4, <1>5 DEF StackInv

\* A thread that does not run yet is made or ends.
LEMMA StackOutside ==
  ASSUME NEW k, k \in Seq(Procs), NEW st, NEW su, st \in [Procs -> Statuses], NEW t \in Threads, NEW x,
         StackInv(k, st), st[t] \in {"unborn", "fresh"}, su = [st EXCEPT ![t] = x],
         x \in {"fresh", "dead"}
  PROVE  StackInv(k, su)
<1>1. Main \notin Threads /\ t \in Procs /\ Main \in Procs
  BY ObjectAssumption DEF Procs
<1>2. su[t] = x /\ \A u \in Procs \ {t} : su[u] = st[u]
  BY <1>1
<1>3. \A i \in 1..Len(k) : k[i] # t /\ k[i] \in Procs
  BY DEF StackInv
<1>4. \A u \in Threads :
        su[u] \in {"run", "woken", "drive"} <=> \E i \in 1..Len(k) : k[i] = u
  BY <1>2, <1>3 DEF StackInv, Procs
<1>5. su[Main] \in {"run", "woken", "drive", "dead"}
  BY <1>1, <1>2 DEF StackInv
<1>6. \A i \in 1..(Len(k) - 1) : i \in 1..Len(k)
  OBVIOUS
<1> QED BY <1>2, <1>3, <1>4, <1>5, <1>6 DEF StackInv

\* The executing thread parks or ends: its loop below goes on.
LEMMA StackPops ==
  ASSUME NEW k, k \in Seq(Procs), NEW st, NEW su, st \in [Procs -> Statuses], NEW p \in Threads, NEW x,
         StackInv(k, st), p = Last(k), su = [st EXCEPT ![p] = x], x \in {"parked", "dead"}
  PROVE  StackInv(Front(k), su) /\ Front(k) \in Seq(Procs) /\ Len(Front(k)) < Len(k)
<1>1. Len(k) \in Nat /\ Len(k) >= 1 /\ p = k[Len(k)] /\ Main \notin Threads /\ k[1] = Main
  BY ObjectAssumption DEF Last, StackInv
<1>2. Len(k) >= 2 /\ p \in Procs /\ Main \in Procs
  BY <1>1 DEF Procs
<1>3. PICK f : f = Front(k)
  OBVIOUS
<1>4. f \in Seq(Procs) /\ Len(f) = Len(k) - 1 /\ \A i \in 1..Len(f) : f[i] = k[i]
  BY <1>1, <1>2, <1>3 DEF Front
<1>5. su[p] = x /\ \A t \in Procs \ {p} : su[t] = st[t]
  BY <1>2
<1>6. \A i \in 1..Len(f) : i \in 1..Len(k) /\ k[i] # p /\ k[i] \in Procs
  BY <1>1, <1>4 DEF StackInv
<1>7. f # <<>> /\ f[1] = Main
  BY <1>1, <1>2, <1>4
<1>8. \A i, j \in 1..Len(f) : f[i] = f[j] => i = j
  BY <1>4, <1>6 DEF StackInv
<1>9. \A i \in 1..(Len(f) - 1) : su[f[i]] = "drive"
  <2> TAKE i \in 1..(Len(f) - 1)
  <2>1. i \in 1..Len(f) /\ i \in 1..(Len(k) - 1)
    BY <1>1, <1>4
  <2> QED BY <1>4, <1>5, <1>6, <2>1 DEF StackInv
<1>10. \A t \in Threads : su[t] \in {"run", "woken", "drive"} <=> \E i \in 1..Len(f) : f[i] = t
  <2> TAKE t \in Threads
  <2>1. CASE t = p
    BY <1>4, <1>5, <1>6, <2>1
  <2>2. CASE t # p
    <3>1. su[t] = st[t]
      BY <1>5, <2>2 DEF Procs
    <3>2. (\E i \in 1..Len(f) : f[i] = t) <=> (\E i \in 1..Len(k) : k[i] = t)
      <4>1. ASSUME NEW i \in 1..Len(k), k[i] = t PROVE i \in 1..Len(f)
        BY <1>1, <1>4, <2>2, <4>1
      <4> QED BY <1>4, <1>6, <4>1
    <3> QED BY <3>1, <3>2 DEF StackInv
  <2> QED BY <2>1, <2>2
<1>11. su[Main] \in {"run", "woken", "drive", "dead"}
  BY <1>1, <1>2, <1>5 DEF StackInv
<1>12. StackInv(f, su)
  BY <1>7, <1>8, <1>9, <1>10, <1>11 DEF StackInv
<1> QED BY <1>1, <1>3, <1>4, <1>12

\* A fresh or parked thread is resumed by a loop.
LEMMA StackPushes ==
  ASSUME NEW k, k \in Seq(Procs), NEW st, NEW su, st \in [Procs -> Statuses], NEW t \in Threads,
         StackInv(k, st), st[Last(k)] = "drive", st[t] \in {"fresh", "parked"},
         su = [st EXCEPT ![t] = "woken"]
  PROVE  StackInv(Append(k, t), su) /\ Append(k, t) \in Seq(Procs)
<1>1. Len(k) \in Nat /\ Len(k) >= 1 /\ Main \notin Threads /\ t \in Procs /\ Main \in Procs
  BY ObjectAssumption DEF StackInv, Procs
<1>2. PICK g : g = Append(k, t)
  OBVIOUS
<1>3. g \in Seq(Procs) /\ Len(g) = Len(k) + 1 /\ g[Len(k) + 1] = t /\ \A i \in 1..Len(k) : g[i] = k[i]
  BY <1>1, <1>2
<1>4. su[t] = "woken" /\ \A p \in Procs \ {t} : su[p] = st[p]
  BY <1>1
<1>5. \A i \in 1..Len(k) : k[i] # t /\ k[i] \in Procs
  BY DEF StackInv
<1>6. \A i \in 1..Len(g) : i \in 1..Len(k) \/ i = Len(k) + 1
  BY <1>1, <1>3
<1>7. g # <<>> /\ g[1] = Main
  BY <1>1, <1>3 DEF StackInv
<1>8. \A i, j \in 1..Len(g) : g[i] = g[j] => i = j
  BY <1>3, <1>5, <1>6 DEF StackInv
<1>9. \A i \in 1..(Len(g) - 1) : su[g[i]] = "drive"
  <2> TAKE i \in 1..(Len(g) - 1)
  <2>1. i \in 1..Len(k) /\ (i \in 1..(Len(k) - 1) \/ i = Len(k))
    BY <1>1, <1>3
  <2> QED BY <1>3, <1>4, <1>5, <2>1 DEF StackInv, Last
<1>10. \A p \in Threads : su[p] \in {"run", "woken", "drive"} <=> \E i \in 1..Len(g) : g[i] = p
  <2> TAKE p \in Threads
  <2>1. CASE p = t
    <3> Len(k) + 1 \in 1..Len(g)
      BY <1>1, <1>3
    <3> QED BY <1>3, <1>4, <2>1
  <2>2. CASE p # t
    <3>1. su[p] = st[p]
      BY <1>4, <2>2 DEF Procs
    <3>2. (\E i \in 1..Len(g) : g[i] = p) <=> (\E i \in 1..Len(k) : k[i] = p)
      <4>1. ASSUME NEW i \in 1..Len(g), g[i] = p PROVE i \in 1..Len(k)
        BY <1>3, <1>6, <2>2, <4>1
      <4>2. \A i \in 1..Len(k) : i \in 1..Len(g)
        BY <1>1, <1>3
      <4> QED BY <1>3, <4>1, <4>2
    <3> QED BY <3>1, <3>2 DEF StackInv
  <2> QED BY <2>1, <2>2
<1>11. su[Main] \in {"run", "woken", "drive", "dead"}
  BY <1>1, <1>4 DEF StackInv
<1>12. StackInv(g, su)
  BY <1>7, <1>8, <1>9, <1>10, <1>11 DEF StackInv
<1> QED BY <1>2, <1>3, <1>12

-----------------------------------------------------------------------------
(* Every step keeps the invariant of the scheduler.                        *)

\* The part of the invariant about the scheduler's own variables.
SchedOK(s, k, st, c, K) ==
    /\ s \in Sch /\ k \in Seq(Procs) /\ st \in [Procs -> Statuses]
    /\ c \in [Procs -> Calls] /\ \A p \in Procs : CallFits(c[p])
    /\ K \subseteq Threads
    /\ StackInv(k, st) /\ TabInv(s, st, K)
    /\ ~c[Main].inl

SchedInv == SchedOK(sch, stack, status, call, killed)

\* It is what CoreInv says of them.
LEMMA CoreSched ==
  ASSUME CoreInv
  PROVE  SchedInv
BY DEF CoreInv, TypeOK, CoreTypeOK, SchedInv, SchedOK, TabInv

\* One call changes.
LEMMA CallKeeps ==
  ASSUME NEW c, c \in [Procs -> Calls], \A q \in Procs : CallFits(c[q]), ~c[Main].inl,
         NEW p \in Procs, NEW e \in Calls, CallFits(e), p = Main => ~e.inl, NEW d,
         d = [c EXCEPT ![p] = e]
  PROVE  d \in [Procs -> Calls] /\ (\A q \in Procs : CallFits(d[q])) /\ ~d[Main].inl
<1>1. d \in [Procs -> Calls] /\ Main \in Procs
  BY DEF Procs
<1>2. \A q \in Procs : d[q] = IF q = p THEN e ELSE c[q]
  OBVIOUS
<1>3. \A q \in Procs : CallFits(d[q])
  BY <1>2
<1>4. ~d[Main].inl
  BY <1>1, <1>2
<1> QED BY <1>1, <1>3, <1>4

\* The idle call, and a call whose park has ended, are well formed.
LEMMA EndedOK ==
  /\ Idle \in Calls /\ CallFits(Idle) /\ ~Idle.inl
  /\ \A c \in Calls, res \in Outcomes :
       /\ Ended(c, res) \in Calls /\ (CallFits(c) => CallFits(Ended(c, res)))
       /\ Ended(c, res).inl = c.inl /\ Ended(c, res).op = c.op /\ Ended(c, res).on = c.on
       /\ Ended(c, res).timed = c.timed /\ Ended(c, res).res = res
<1>1. Idle \in Calls /\ CallFits(Idle) /\ ~Idle.inl
  BY DEF Idle, Calling, Calls, CallFits, Outcomes
<1>2. ASSUME NEW c \in Calls, NEW res \in Outcomes, NEW e, e = Ended(c, res)
      PROVE  /\ e \in Calls /\ (CallFits(c) => CallFits(e))
             /\ e.inl = c.inl /\ e.op = c.op /\ e.on = c.on /\ e.timed = c.timed /\ e.res = res
  <2>1. /\ e.inl = c.inl /\ e.op = c.op /\ e.on = c.on /\ e.timed = c.timed /\ e.res = res
        /\ e \in Calls
    BY <1>2 DEF Ended, Calls
  <2>2. CallFits(c) => CallFits(e)
    BY <2>1 DEF CallFits
  <2> QED BY <2>1, <2>2
<1> QED BY <1>1, <1>2

\* Only living threads that exist can be roused.
LEMMA RousableBorn ==
  ASSUME NEW s, NEW st, NEW K, TabInv(s, st, K)
  PROVE  \A t \in Rousable(s) : st[t] # "unborn"
BY DEF Rousable, TabInv, Born, Kinds

\* A wake keeps the invariant.
LEMMA RouseKeeps ==
  ASSUME SchedInv, RouseStep
  PROVE  SchedInv'
<1>1. PICK W : Woke(sch, sch', W) /\ W \subseteq Rousable(sch)
  BY DEF RouseStep
<1>2. \A t \in W : status[t] # "unborn"
  BY <1>1, RousableBorn DEF SchedInv, SchedOK
<1>3. TabInv(sch', status, killed)
  BY <1>1, <1>2, WokeTab DEF SchedInv, SchedOK
<1>4. sch' \in Sch
  BY <1>1 DEF Woke
<1>5. SchedOK(sch', stack, status, call, killed)
  BY <1>3, <1>4 DEF SchedInv, SchedOK
<1> QED BY <1>5 DEF RouseStep, SchedInv

\* A park keeps the invariant.
LEMMA ParkKeeps ==
  ASSUME SchedInv, NEW p, ParkStep(p)
  PROVE  SchedInv'
<1>1. Runs(p) /\ p \in Procs /\ p = Last(stack) /\ status[p] \in {"run", "woken"} /\ UNCHANGED killed
  BY DEF ParkStep, Runs, Current
<1>2. PICK s, W, c :
         /\ s \in Sch /\ Woke(sch, s, W) /\ W \subseteq Rousable(sch)
         /\ Parks(s, sch', p) /\ CallOK(p, c)
         /\ p \in Threads => Anchored(sch', p) /\ Quiet(s, sch', p, c)
         /\ call' = [call EXCEPT ![p] = c]
         /\ IF p = Main \/ c.inl
            THEN status' = [status EXCEPT ![p] = "drive"] /\ UNCHANGED stack
            ELSE status' = [status EXCEPT ![p] = "parked"] /\ stack' = Front(stack)
  BY DEF ParkStep
<1>3. TabInv(s, status, killed)
  <2> \A t \in W : status[t] # "unborn"
    BY <1>2, RousableBorn DEF SchedInv, SchedOK
  <2> QED BY <1>2, WokeTab DEF SchedInv, SchedOK
<1>4. sch' \in Sch
  BY <1>2 DEF Parks
<1>5. call' \in [Procs -> Calls] /\ (\A q \in Procs : CallFits(call'[q])) /\ ~call'[Main].inl
  <2> c \in Calls /\ CallFits(c) /\ (p = Main => ~c.inl) /\ call' = [call EXCEPT ![p] = c]
    BY <1>2 DEF CallOK
  <2> QED BY <1>1, CallKeeps DEF SchedInv, SchedOK
<1>6. PICK x \in {"drive", "parked"} :
        /\ status' = [status EXCEPT ![p] = x]
        /\ x = "drive" => UNCHANGED stack
        /\ x = "parked" => p # Main /\ stack' = Front(stack)
  BY <1>2
<1>7. TabInv(sch', status', killed)
  <2>1. sch' = sch' /\ status' = [status EXCEPT ![p] = x] /\ Parks(s, sch', p) /\ s \in Sch
    BY <1>2, <1>6
  <2>2. p \in Threads => Anchored(sch', p)
    BY <1>2
  <2>3. status \in [Procs -> Statuses] /\ killed \subseteq Threads
    BY DEF SchedInv, SchedOK
  <2> QED BY <1>1, <1>3, <1>6, <2>1, <2>2, <2>3, ParkTab
<1>8. status' \in [Procs -> Statuses]
  BY <1>1, <1>6 DEF SchedInv, SchedOK, Statuses
<1>9. StackInv(stack', status') /\ stack' \in Seq(Procs)
  <2>1. stack \in Seq(Procs) /\ status \in [Procs -> Statuses] /\ StackInv(stack, status)
    BY DEF SchedInv, SchedOK
  <2>2. CASE x = "drive"
    <3>1. PICK su : su = [status EXCEPT ![p] = "drive"]
      OBVIOUS
    <3>2. StackInv(stack, su)
      BY <1>1, <2>1, <3>1, StackStays
    <3> QED BY <1>6, <2>1, <2>2, <3>1, <3>2
  <2>3. CASE x = "parked"
    <3>1. p \in Threads /\ stack' = Front(stack) /\ status' = [status EXCEPT ![p] = "parked"]
      BY <1>1, <1>6, <2>3 DEF Procs
    <3> QED BY <1>1, <2>1, <3>1, StackPops
  <2> QED BY <2>2, <2>3
<1> QED BY <1>1, <1>4, <1>5, <1>7, <1>8, <1>9 DEF SchedInv, SchedOK

\* A return keeps the invariant.
LEMMA ReturnKeeps ==
  ASSUME SchedInv, NEW p, ReturnStep(p)
  PROVE  SchedInv'
<1>1. p \in Procs /\ p = Last(stack) /\ status[p] \in {"run", "woken"}
  BY DEF ReturnStep, Runs, Current
<1>2. status' = [status EXCEPT ![p] = "run"] /\ call' = [call EXCEPT ![p] = Idle]
      /\ UNCHANGED <<sch, stack, killed>>
  BY DEF ReturnStep
<1>3. /\ sch \in Sch /\ stack \in Seq(Procs) /\ status \in [Procs -> Statuses]
      /\ call \in [Procs -> Calls] /\ (\A q \in Procs : CallFits(call[q])) /\ ~call[Main].inl
      /\ killed \subseteq Threads /\ StackInv(stack, status) /\ TabInv(sch, status, killed)
  BY DEF SchedInv, SchedOK
<1>4. p \notin killed
  BY <1>1, <1>3 DEF TabInv, Pending
<1>5. TabInv(sch, status', killed)
  BY <1>1, <1>2, <1>3, <1>4, StatusTab
<1>6. StackInv(stack, status')
  BY <1>1, <1>2, <1>3, StackStays
<1>7. call' \in [Procs -> Calls] /\ (\A q \in Procs : CallFits(call'[q])) /\ ~call'[Main].inl
  BY <1>1, <1>2, <1>3, EndedOK, CallKeeps
<1>8. status' \in [Procs -> Statuses]
  BY <1>1, <1>2, <1>3 DEF Statuses
<1> QED BY <1>2, <1>3, <1>5, <1>6, <1>7, <1>8 DEF SchedInv, SchedOK

\* A thread that executes is the last of the stack.
LEMMA RunnerIsLast ==
  ASSUME NEW k, k \in Seq(Procs), NEW st, StackInv(k, st), NEW t \in Threads,
         st[t] \in {"run", "woken"}
  PROVE  t = Last(k)
<1>1. PICK i \in 1..Len(k) : k[i] = t
  BY DEF StackInv
<1>2. Len(k) \in Nat /\ (i \in 1..(Len(k) - 1) \/ i = Len(k))
  OBVIOUS
<1> QED BY <1>1, <1>2 DEF StackInv, Last

\* While MAIN is the last of the stack no green thread is on it.
LEMMA MainAlone ==
  ASSUME NEW k, k \in Seq(Procs), NEW st, StackInv(k, st), Last(k) = Main, NEW t \in Threads
  PROVE  st[t] \notin {"run", "woken", "drive"}
<1>1. Len(k) \in Nat /\ Len(k) >= 1 /\ Main \notin Threads
  BY ObjectAssumption DEF StackInv
<1>2. Len(k) = 1
  <2>1. 1 \in 1..Len(k) /\ Len(k) \in 1..Len(k) /\ k[1] = Main /\ k[Len(k)] = Main
    BY <1>1 DEF StackInv, Last
  <2>2. \A i, j \in 1..Len(k) : k[i] = k[j] => i = j
    BY DEF StackInv
  <2> QED BY ONLY <2>1, <2>2
<1> QED BY <1>1, <1>2 DEF StackInv

\* Tables r differ from s in the tokens of MAIN only.
Tokens(s, r) ==
    /\ r \in Sch /\ r.runq = s.runq /\ r.park = s.park /\ r.nap = s.nap
    /\ r.sleepers = s.sleepers /\ r.fds = s.fds
    /\ \A l \in Lists, t \in Threads : Contains(r.waiters[l], t) <=> Contains(s.waiters[l], t)

\* MAIN takes its token back, or leaves it behind as a stale one.
LEMMA TokenFacts ==
  ASSUME NEW s \in Sch, NEW l \in Lists
  PROVE  /\ Tokens(s, s)
         /\ Tokens(s, WithList(s, l, Delete(s.waiters[l], Main)))
         /\ Tokens(s, WithList(s, l, ReplaceAll(s.waiters[l], Main, Stale)))
<1>1. PICK w : w = s.waiters[l]
  OBVIOUS
<1>2. w \in Seq(Entries) /\ Main \notin Threads /\ Stale \notin Threads /\ Stale \in Entries
  BY <1>1, ObjectAssumption DEF Sch, Entries
<1>3. ASSUME NEW v, v \in Seq(Entries), \A t \in Threads : Contains(v, t) <=> Contains(w, t)
      PROVE  Tokens(s, WithList(s, l, v))
  <2>1. PICK r : r = WithList(s, l, v)
    OBVIOUS
  <2>2. r \in Sch
    BY <1>3, <2>1, TableTypes
  <2>3. /\ r.runq = s.runq /\ r.park = s.park /\ r.nap = s.nap
        /\ r.sleepers = s.sleepers /\ r.fds = s.fds /\ r.waiters = [s.waiters EXCEPT ![l] = v]
    BY <2>1 DEF WithList
  <2>4. \A j \in Lists : r.waiters[j] = IF j = l THEN v ELSE s.waiters[j]
    BY <2>3 DEF Sch
  <2> QED BY <1>1, <1>3, <2>1, <2>2, <2>3, <2>4 DEF Tokens
<1>4. PICK v : v = Delete(w, Main)
  OBVIOUS
<1>5. v \in Seq(Entries) /\ \A t \in Threads : Contains(v, t) <=> Contains(w, t)
  BY <1>2, <1>4, DeleteFacts
<1>6. PICK u : u = ReplaceAll(w, Main, Stale)
  OBVIOUS
<1>7. u \in Seq(Entries) /\ Len(u) = Len(w)
      /\ \A i \in 1..Len(w) : u[i] = IF w[i] = Main THEN Stale ELSE w[i]
  BY <1>2, <1>6 DEF ReplaceAll
<1>8. \A t \in Threads : Contains(u, t) <=> Contains(w, t)
  BY <1>2, <1>7 DEF Contains
<1>9. Tokens(s, s)
  BY DEF Tokens
<1> QED BY <1>1, <1>3, <1>4, <1>5, <1>6, <1>7, <1>8, <1>9

\* The scheduler's invariant does not look at the tokens.
LEMMA TokenTab ==
  ASSUME NEW s \in Sch, NEW r, NEW st, NEW K, K \subseteq Threads, Tokens(s, r), TabInv(s, st, K)
  PROVE  TabInv(r, st, K)
<1>1. Born(r, st)
  BY DEF Tokens, TabInv, Born, Queued
<1>2. Linked(r, st)
  BY DEF Tokens, TabInv, Linked, LinkedAt, Sch
<1>3. Findable(r, st)
  BY DEF Tokens, TabInv, Findable, Queued
<1>4. Pending(r, st, K)
  BY DEF Tokens, TabInv, Pending, Queued
<1> QED BY <1>1, <1>2, <1>3, <1>4 DEF TabInv

\* MAIN's loop ends and MAIN goes on with outcome res.
MainGoesOn(res) ==
    /\ Drives(Main) /\ Tokens(sch, sch') /\ Wakes(Main, res)
    /\ UNCHANGED <<stack, killed>>

\* Either its wait is over or nobody is left to end it.
LEMMA MainGoes ==
  ASSUME SchedInv, MainWakes \/ DeadlockError
  PROVE  /\ MainWakes => MainGoesOn("ok")
         /\ DeadlockError => MainGoesOn("raise")
<1>1. sch \in Sch /\ call[Main] \in Calls /\ CallFits(call[Main])
  BY DEF SchedInv, SchedOK, Procs
<1>2. \A l \in Lists : /\ Tokens(sch, sch)
                       /\ Tokens(sch, WithList(sch, l, Delete(sch.waiters[l], Main)))
                       /\ Tokens(sch, WithList(sch, l, ReplaceAll(sch.waiters[l], Main, Stale)))
  BY <1>1, TokenFacts
<1>3. call[Main].op \in {"lock", "pop", "wait"} => call[Main].on \in Lists
  BY <1>1 DEF CallFits, Lists
<1>4. Tokens(sch, sch)
  BY <1>1 DEF Tokens
<1>5. ASSUME MainWakes PROVE MainGoesOn("ok")
  <2>1. Drives(Main) /\ Wakes(Main, "ok") /\ UNCHANGED <<stack, killed>>
    BY <1>5 DEF MainWakes
  <2>2. Tokens(sch, sch')
    BY <1>2, <1>3, <1>4, <1>5 DEF MainWakes
  <2> QED BY <2>1, <2>2 DEF MainGoesOn
<1>6. ASSUME DeadlockError PROVE MainGoesOn("raise")
  <2>1. Drives(Main) /\ Wakes(Main, "raise") /\ UNCHANGED <<stack, killed>>
    BY <1>6 DEF DeadlockError
  <2>2. Tokens(sch, sch')
    BY <1>2, <1>3, <1>4, <1>6 DEF DeadlockError
  <2> QED BY <2>1, <2>2 DEF MainGoesOn
<1> QED BY <1>5, <1>6

\* What a wake-up does to the calls and to the types.
LEMMA WakesTypes ==
  ASSUME SchedInv, NEW p \in Procs, NEW res \in Outcomes, Wakes(p, res)
  PROVE  /\ call' \in [Procs -> Calls] /\ (\A q \in Procs : CallFits(call'[q])) /\ ~call'[Main].inl
         /\ status' \in [Procs -> Statuses] /\ status' = [status EXCEPT ![p] = "woken"]
<1>1. /\ status \in [Procs -> Statuses] /\ call \in [Procs -> Calls]
      /\ (\A q \in Procs : CallFits(call[q])) /\ ~call[Main].inl
  BY DEF SchedInv, SchedOK
<1>2. PICK c, e : c = call[p] /\ e = Ended(c, res)
  OBVIOUS
<1>3. e \in Calls /\ CallFits(e) /\ e.inl = c.inl
  BY <1>1, <1>2, EndedOK
<1>4. call' = [call EXCEPT ![p] = e] /\ status' = [status EXCEPT ![p] = "woken"]
  BY <1>2 DEF Wakes
<1>5. p = Main => ~e.inl
  BY <1>1, <1>2, <1>3
<1>6. call' \in [Procs -> Calls] /\ (\A q \in Procs : CallFits(call'[q])) /\ ~call'[Main].inl
  BY <1>1, <1>3, <1>4, <1>5, CallKeeps
<1>7. status' \in [Procs -> Statuses]
  BY <1>1, <1>4 DEF Statuses
<1> QED BY <1>4, <1>6, <1>7

\* Then the invariant is kept.
LEMMA MainGoesKeeps ==
  ASSUME SchedInv, NEW res \in Outcomes, MainGoesOn(res)
  PROVE  SchedInv'
<1>1. /\ sch \in Sch /\ stack \in Seq(Procs) /\ status \in [Procs -> Statuses]
      /\ killed \subseteq Threads /\ StackInv(stack, status) /\ TabInv(sch, status, killed)
  BY DEF SchedInv, SchedOK
<1>2. Main \in Procs /\ Main \notin Threads /\ Main = Last(stack) /\ status[Main] = "drive"
  BY ObjectAssumption DEF MainGoesOn, Drives, Current, Procs
<1>3. Wakes(Main, res) /\ Tokens(sch, sch') /\ UNCHANGED <<stack, killed>>
  BY DEF MainGoesOn
<1>4. /\ call' \in [Procs -> Calls] /\ (\A q \in Procs : CallFits(call'[q])) /\ ~call'[Main].inl
      /\ status' \in [Procs -> Statuses] /\ status' = [status EXCEPT ![Main] = "woken"]
  BY <1>2, <1>3, WakesTypes
<1>5. sch' \in Sch /\ TabInv(sch', status, killed)
  BY <1>1, <1>3, TokenTab DEF Tokens
<1>6. TabInv(sch', status', killed)
  BY <1>1, <1>2, <1>4, <1>5, StatusTab
<1>7. StackInv(stack, status')
  BY <1>1, <1>2, <1>4, StackStays
<1> QED BY <1>1, <1>3, <1>4, <1>5, <1>6, <1>7 DEF SchedInv, SchedOK

\* A loop resumes the head t of the run queue.
ResumeStep(t) ==
    /\ t \in Threads /\ status[t] \in {"fresh", "parked"}
    /\ status[Last(stack)] = "drive"
    /\ Popped(sch, sch', t) /\ stack' = Append(stack, t) /\ killed' = killed \ {t}
    /\ Wakes(t, IF t \in killed THEN "kill" ELSE "ok")

\* That is what a loop does with a head that it does not drop.
LEMMA Resumes ==
  ASSUME SchedInv
  PROVE  /\ ScheduleStep => \E t : IF Dead(t) THEN Popped(sch, sch', t) /\ UNCHANGED <<stack, status, call, killed>>
                                   ELSE ResumeStep(t)
         /\ \A p \in Threads : InlineRuns(p) => \E t : ResumeStep(t)
<1>1. /\ sch \in Sch /\ stack \in Seq(Procs) /\ status \in [Procs -> Statuses]
      /\ StackInv(stack, status) /\ TabInv(sch, status, killed)
  BY DEF SchedInv, SchedOK
<1>2. ASSUME sch.runq # <<>>, NEW t, t = Head(sch.runq)
      PROVE  t \in Threads /\ Popped(sch, Shifted, t) /\ status[t] # "unborn" /\ status[t] \in Statuses
  <2>1. Popped(sch, Shifted, t)
    BY <1>1, <1>2, ShiftFacts
  <2>2. t \in Threads /\ Queued(sch, t)
    BY <2>1 DEF Popped
  <2> QED BY <1>1, <2>1, <2>2 DEF TabInv, Born, Procs
<1>3. ASSUME ScheduleStep
      PROVE  \E t : IF Dead(t) THEN Popped(sch, sch', t) /\ UNCHANGED <<stack, status, call, killed>>
                    ELSE ResumeStep(t)
  <2>1. PICK t : t = Head(sch.runq)
    OBVIOUS
  <2>2. /\ t \in Threads /\ Popped(sch, Shifted, t) /\ status[t] # "unborn" /\ status[t] \in Statuses
        /\ Main = Last(stack) /\ status[Main] = "drive"
    BY <1>2, <1>3, <2>1 DEF ScheduleStep, Drives, Current
  <2>3. CASE Dead(t)
    BY <1>3, <2>1, <2>2, <2>3 DEF ScheduleStep, Skips
  <2>4. CASE ~Dead(t)
    <3>1. status[t] \in {"fresh", "parked"}
      BY <1>1, <2>2, <2>4, MainAlone DEF Statuses, Dead
    <3>2. Resume(t, Shifted)
      BY <1>3, <2>1, <2>4 DEF ScheduleStep, Skips
    <3>3. ResumeStep(t)
      BY <2>2, <3>1, <3>2 DEF Resume, ResumeStep
    <3> QED BY <2>4, <3>3
  <2> QED BY <2>3, <2>4
<1>4. ASSUME NEW p \in Threads, InlineRuns(p) PROVE \E t : ResumeStep(t)
  <2>1. PICK t : t = Head(sch.runq)
    OBVIOUS
  <2>2. /\ t \in Threads /\ Popped(sch, Shifted, t) /\ status[t] # "unborn" /\ status[t] \in Statuses
        /\ p = Last(stack) /\ status[p] = "drive"
    BY <1>2, <1>4, <2>1 DEF InlineRuns, InlineHead, Drives, Current
  <2>3. t # p /\ ~Dead(t) /\ ~Pinned(t) /\ Resume(t, Shifted)
    BY <1>4, <2>1 DEF InlineRuns
  <2>4. status[t] \notin {"run", "woken"}
    BY <1>1, <2>2, <2>3, RunnerIsLast
  <2>5. status[t] \in {"fresh", "parked"}
    BY <2>2, <2>3, <2>4 DEF Statuses, Dead, Pinned
  <2>6. ResumeStep(t)
    BY <2>2, <2>3, <2>5 DEF Resume, ResumeStep
  <2> QED BY <2>6
<1> QED BY <1>3, <1>4

\* A resume keeps the invariant.
LEMMA ResumeKeeps ==
  ASSUME SchedInv, NEW t, ResumeStep(t)
  PROVE  SchedInv'
<1>1. /\ sch \in Sch /\ stack \in Seq(Procs) /\ status \in [Procs -> Statuses]
      /\ killed \subseteq Threads /\ StackInv(stack, status) /\ TabInv(sch, status, killed)
  BY DEF SchedInv, SchedOK
<1>2. /\ t \in Threads /\ t \in Procs /\ status[t] \in {"fresh", "parked"}
      /\ status[Last(stack)] = "drive" /\ Popped(sch, sch', t)
      /\ stack' = Append(stack, t) /\ killed' = killed \ {t}
  BY DEF ResumeStep, Procs
<1>3. PICK res \in Outcomes : Wakes(t, res)
  BY DEF ResumeStep, Outcomes
<1>4. /\ call' \in [Procs -> Calls] /\ (\A q \in Procs : CallFits(call'[q])) /\ ~call'[Main].inl
      /\ status' \in [Procs -> Statuses] /\ status' = [status EXCEPT ![t] = "woken"]
  BY <1>2, <1>3, WakesTypes
<1>5. StackInv(stack', status') /\ stack' \in Seq(Procs)
  BY <1>1, <1>2, <1>4, StackPushes
<1>6. TabInv(sch, status', killed')
  BY <1>1, <1>2, <1>4, StatusTab
<1>7. sch' \in Sch /\ TabInv(sch', status', killed')
  <2>1. status'[t] = "woken" /\ t \notin killed' /\ killed' \subseteq Threads /\ sch' \in Sch
    BY <1>1, <1>2, <1>4 DEF Popped
  <2> QED BY <1>1, <1>2, <1>6, <2>1, PoppedTab
<1> QED BY <1>1, <1>2, <1>4, <1>5, <1>7 DEF SchedInv, SchedOK

\* A dead head is dropped.
LEMMA DropKeeps ==
  ASSUME SchedInv, NEW t, Dead(t), Popped(sch, sch', t), UNCHANGED <<stack, status, call, killed>>
  PROVE  SchedInv'
<1>1. sch \in Sch /\ killed \subseteq Threads /\ TabInv(sch, status, killed)
  BY DEF SchedInv, SchedOK
<1>2. t \notin killed /\ status[t] \notin {"parked", "drive"}
  BY <1>1 DEF Dead, TabInv, Pending
<1>3. sch' \in Sch /\ TabInv(sch', status, killed)
  BY <1>1, <1>2, PoppedTab DEF Popped
<1> QED BY <1>3 DEF SchedInv, SchedOK

\* Thread.pass of MAIN is such a step, or resumes the head from a loop that it
\* enters for that.
PassStep(t) ==
    /\ t \in Threads /\ status[t] \in {"fresh", "parked"}
    /\ Main = Last(stack) /\ status[Main] = "run"
    /\ Popped(sch, sch', t) /\ stack' = Append(stack, t) /\ killed' = killed \ {t}
    /\ \E res \in Outcomes :
         call' = [call EXCEPT ![t] = Ended(call[t], res),
                              ![Main] = Calling("pass", None, None, FALSE, FALSE, "ok")]
    /\ call'[t].res = IF t \in killed THEN "kill" ELSE "ok"
    /\ status' = [status EXCEPT ![t] = "woken", ![Main] = "drive"]

\* A pass keeps the invariant.
LEMMA PassKeeps ==
  ASSUME SchedInv, NEW t, PassStep(t)
  PROVE  SchedInv'
<1>1. /\ sch \in Sch /\ stack \in Seq(Procs) /\ status \in [Procs -> Statuses]
      /\ killed \subseteq Threads /\ StackInv(stack, status) /\ TabInv(sch, status, killed)
      /\ call \in [Procs -> Calls] /\ (\A q \in Procs : CallFits(call[q])) /\ ~call[Main].inl
  BY DEF SchedInv, SchedOK
<1>2. /\ t \in Threads /\ t \in Procs /\ Main \in Procs /\ Main \notin Threads
      /\ status[t] \in {"fresh", "parked"} /\ status[Main] = "run"
      /\ Main = Last(stack) /\ Popped(sch, sch', t)
      /\ stack' = Append(stack, t) /\ killed' = killed \ {t}
  BY ObjectAssumption DEF PassStep, Procs
<1>3. PICK st : st = [status EXCEPT ![Main] = "drive"]
  OBVIOUS
<1>4. /\ st \in [Procs -> Statuses] /\ StackInv(stack, st) /\ TabInv(sch, st, killed)
      /\ st[Last(stack)] = "drive" /\ st[t] = status[t]
  BY <1>1, <1>2, <1>3, StackStays, StatusTab DEF Statuses
<1>5. status' = [st EXCEPT ![t] = "woken"]
  BY <1>1, <1>2, <1>3 DEF PassStep
<1>6. StackInv(stack', status') /\ stack' \in Seq(Procs)
  BY <1>1, <1>2, <1>4, <1>5, StackPushes
<1>7. TabInv(sch, status', killed')
  <2>1. killed' \subseteq killed /\ t \notin killed' /\ st[t] # "dead" /\ t \in Procs
    BY <1>2, <1>4
  <2>2. killed \subseteq Threads /\ sch \in Sch /\ st \in [Procs -> Statuses] /\ TabInv(sch, st, killed)
    BY <1>1, <1>4
  <2> QED BY ONLY <1>5, <2>1, <2>2, StatusTab
<1>8. sch' \in Sch /\ TabInv(sch', status', killed')
  <2>1. status'[t] = "woken" /\ t \notin killed' /\ killed' \subseteq Threads /\ sch' \in Sch
    BY <1>1, <1>2, <1>4, <1>5 DEF Popped
  <2> QED BY <1>1, <1>2, <1>7, <2>1, PoppedTab
<1>9. status' \in [Procs -> Statuses]
  BY <1>2, <1>4, <1>5 DEF Statuses
<1>10. call' \in [Procs -> Calls] /\ (\A q \in Procs : CallFits(call'[q])) /\ ~call'[Main].inl
  <2>1. PICK res \in Outcomes :
         call' = [call EXCEPT ![t] = Ended(call[t], res),
                              ![Main] = Calling("pass", None, None, FALSE, FALSE, "ok")]
    BY DEF PassStep
  <2>2. PICK e, m : e = Ended(call[t], res) /\ m = Calling("pass", None, None, FALSE, FALSE, "ok")
    OBVIOUS
  <2>3. e \in Calls /\ CallFits(e)
    BY <1>1, <1>2, <2>2, EndedOK
  <2>4. m \in Calls /\ CallFits(m) /\ ~m.inl
    BY <2>2 DEF Calling, Calls, CallFits, Outcomes
  <2>5. PICK d : d = [call EXCEPT ![t] = e]
    OBVIOUS
  <2>6. d \in [Procs -> Calls] /\ (\A q \in Procs : CallFits(d[q])) /\ ~d[Main].inl
    BY <1>1, <1>2, <2>3, <2>5, CallKeeps
  <2>7. call' = [d EXCEPT ![Main] = m]
    BY <1>1, <1>2, <2>1, <2>2, <2>5
  <2> QED BY <1>2, <2>4, <2>6, <2>7, CallKeeps
<1> QED BY <1>1, <1>2, <1>6, <1>8, <1>9, <1>10 DEF SchedInv, SchedOK

\* Thread.pass of MAIN.
LEMMA Passes ==
  ASSUME SchedInv, MainPass
  PROVE  \E t : IF Dead(t) THEN Popped(sch, sch', t) /\ UNCHANGED <<stack, status, call, killed>>
                ELSE PassStep(t)
<1>1. /\ sch \in Sch /\ stack \in Seq(Procs) /\ status \in [Procs -> Statuses]
      /\ StackInv(stack, status) /\ TabInv(sch, status, killed) /\ call \in [Procs -> Calls]
  BY DEF SchedInv, SchedOK
<1>2. PICK t : t = Head(sch.runq)
  OBVIOUS
<1>3. Popped(sch, Shifted, t)
  BY <1>1, <1>2, ShiftFacts DEF MainPass
<1>4. t \in Threads /\ Queued(sch, t)
  BY <1>3 DEF Popped
<1>5. status[t] # "unborn" /\ status[t] \in Statuses /\ Main = Last(stack) /\ status[Main] = "run"
  BY <1>1, <1>4 DEF TabInv, Born, Procs, MainPass, Acts, Current
<1>6. CASE Dead(t)
  BY <1>2, <1>3, <1>6 DEF MainPass, Skips
<1>7. CASE ~Dead(t)
  <2>1. status[t] \in {"fresh", "parked"}
    BY <1>1, <1>4, <1>5, <1>7, MainAlone DEF Statuses, Dead
  <2>2. PICK res \in Outcomes : res = IF t \in killed THEN "kill" ELSE "ok"
    BY DEF Outcomes
  <2>3. /\ sch' = Shifted /\ stack' = Append(stack, t) /\ killed' = killed \ {t}
        /\ status' = [status EXCEPT ![t] = "woken", ![Main] = "drive"]
        /\ call' = [call EXCEPT ![t] = Ended(call[t], res),
                                ![Main] = Calling("pass", None, None, FALSE, FALSE, "ok")]
    BY <1>2, <1>7, <2>2 DEF MainPass, Skips
  <2>4. call'[t].res = res
    <3>1. t \in Procs /\ Main \in Procs /\ t # Main /\ call[t] \in Calls
      BY <1>1, <1>4, ObjectAssumption DEF Procs
    <3>2. call'[t] = Ended(call[t], res)
      BY <1>1, <2>3, <3>1
    <3> QED BY <3>1, <3>2, EndedOK
  <2>5. PassStep(t)
    BY <1>3, <1>4, <1>5, <2>1, <2>2, <2>3, <2>4 DEF PassStep
  <2> QED BY <1>7, <2>5
<1> QED BY <1>6, <1>7

\* Thread.new keeps the invariant.
LEMMA SpawnKeeps ==
  ASSUME SchedInv, NEW p \in Procs, NEW t \in Threads, Spawn(p, t)
  PROVE  SchedInv'
<1>1. /\ sch \in Sch /\ stack \in Seq(Procs) /\ status \in [Procs -> Statuses]
      /\ killed \subseteq Threads /\ StackInv(stack, status) /\ TabInv(sch, status, killed)
  BY DEF SchedInv, SchedOK
<1>2. /\ status[t] = "unborn" /\ status' = [status EXCEPT ![t] = "fresh"]
      /\ sch' = Enqueue(sch, t) /\ UNCHANGED <<stack, call, killed>> /\ t \in Procs
  BY DEF Spawn, Procs
<1>3. t \notin killed /\ status'[t] = "fresh" /\ status' \in [Procs -> Statuses]
  BY <1>1, <1>2 DEF TabInv, Pending, Statuses
<1>4. TabInv(sch, status', killed)
  BY <1>1, <1>2, <1>3, StatusTab
<1>5. TabInv(sch', status', killed) /\ sch' \in Sch
  BY <1>1, <1>2, <1>3, <1>4, EnqueueTab, EnqueueFacts
<1>6. StackInv(stack, status')
  BY <1>1, <1>2, StackOutside
<1> QED BY <1>1, <1>2, <1>3, <1>5, <1>6 DEF SchedInv, SchedOK

\* The joiners of a thread exist.
LEMMA JoinersBorn ==
  ASSUME SchedInv, NEW t \in Threads
  PROVE  /\ Woke(sch, WakeAll(sch, t), Living(sch, t))
         /\ WakeAll(sch, t) \in Sch /\ TabInv(WakeAll(sch, t), status, killed)
<1>1. t \in Lists /\ sch \in Sch /\ TabInv(sch, status, killed) /\ killed \subseteq Threads
  BY DEF SchedInv, SchedOK, Lists
<1>2. Woke(sch, WakeAll(sch, t), Living(sch, t))
  BY <1>1, WakeAllWakes
<1>3. \A x \in Living(sch, t) : status[x] # "unborn"
  BY <1>1 DEF Living, TabInv, Born
<1>4. TabInv(WakeAll(sch, t), status, killed)
  BY <1>1, <1>2, <1>3, WokeTab
<1> QED BY <1>2, <1>4 DEF Woke

\* The end of a thread keeps the invariant.
LEMMA EndsKeep ==
  ASSUME SchedInv, NEW t \in Threads, Ends(t), UNCHANGED <<call, killed>>,
         \/ status[t] = "fresh" /\ UNCHANGED stack
         \/ status[t] = "run" /\ t = Last(stack) /\ stack' = Front(stack)
  PROVE  SchedInv'
<1>1. /\ sch \in Sch /\ stack \in Seq(Procs) /\ status \in [Procs -> Statuses]
      /\ killed \subseteq Threads /\ StackInv(stack, status) /\ TabInv(sch, status, killed)
  BY DEF SchedInv, SchedOK
<1>2. status' = [status EXCEPT ![t] = "dead"] /\ sch' = WakeAll(sch, t) /\ t \in Procs
  BY DEF Ends, FinishThread, Procs
<1>3. t \notin killed /\ status' \in [Procs -> Statuses]
  BY <1>1, <1>2 DEF TabInv, Pending, Statuses
<1>4. sch' \in Sch /\ TabInv(sch', status, killed)
  BY <1>2, JoinersBorn
<1>5. TabInv(sch', status', killed)
  <2>1. killed \subseteq killed /\ status[t] # "dead"
    OBVIOUS
  <2> QED BY <1>1, <1>2, <1>3, <1>4, <2>1, StatusTab
<1>6. StackInv(stack', status') /\ stack' \in Seq(Procs)
  <2>1. CASE status[t] = "fresh" /\ UNCHANGED stack
    BY <1>1, <1>2, <2>1, StackOutside
  <2>2. CASE status[t] = "run" /\ t = Last(stack) /\ stack' = Front(stack)
    BY <1>1, <1>2, <2>2, StackPops
  <2> QED BY <2>1, <2>2
<1> QED BY <1>1, <1>3, <1>4, <1>5, <1>6 DEF SchedInv, SchedOK

\* The executing process wakes one suspended thread.
Nudge(t) ==
    /\ status[Current] = "run"
    /\ t \in Threads /\ status[t] \in {"parked", "drive"} /\ Woke(sch, sch', {t})
    /\ UNCHANGED <<stack, status, call>>

\* Thread#kill ends a fresh thread, tells the executing one, or nudges;
\* Thread#wakeup nudges.
LEMMA Nudges ==
  ASSUME SchedInv, NEW p \in Procs, NEW t \in Threads
  PROVE  /\ Kill(p, t) => /\ status[Current] = "run"
                          /\ \/ status[t] = "fresh" /\ Ends(t) /\ UNCHANGED <<stack, call, killed>>
                             \/ UNCHANGED <<sch, stack, status, call, killed>>
                             \/ Nudge(t) /\ killed' = killed \cup {t}
         /\ Wakeup(p, t) => Nudge(t) /\ UNCHANGED killed
<1>1. /\ sch \in Sch /\ stack \in Seq(Procs) /\ status \in [Procs -> Statuses]
      /\ StackInv(stack, status) /\ t \in Procs
  BY DEF SchedInv, SchedOK, Procs
<1>2. ASSUME p = Current, status[p] = "run", t # p, status[t] \notin {"unborn", "fresh", "dead"},
             sch' = MakeRunnable(sch, t), UNCHANGED <<stack, status, call>>
      PROVE  Nudge(t)
  <2>1. Woke(sch, sch', {t})
    BY <1>1, <1>2, MakeRunnableWakes DEF Dead
  <2>2. status[t] \notin {"run", "woken"}
    BY <1>1, <1>2, RunnerIsLast DEF Current
  <2> QED BY <1>1, <1>2, <2>1, <2>2 DEF Nudge, Statuses
<1>3. ASSUME Kill(p, t)
      PROVE  \/ status[t] = "fresh" /\ Ends(t) /\ UNCHANGED <<stack, call, killed>>
             \/ UNCHANGED <<sch, stack, status, call, killed>>
             \/ Nudge(t) /\ killed' = killed \cup {t}
  BY <1>2, <1>3 DEF Kill, KillParked, Acts
<1>4. ASSUME Kill(p, t) PROVE status[Current] = "run"
  BY <1>4 DEF Kill, Acts
<1>5. ASSUME Wakeup(p, t) PROVE Nudge(t) /\ UNCHANGED killed
  BY <1>2, <1>5 DEF Wakeup, Acts
<1> QED BY <1>3, <1>4, <1>5

\* A nudge keeps the invariant, and a kill is then pending.
LEMMA NudgeKeeps ==
  ASSUME SchedInv, NEW t, Nudge(t), killed' = killed \/ killed' = killed \cup {t}
  PROVE  SchedInv'
<1>1. /\ sch \in Sch /\ stack \in Seq(Procs) /\ status \in [Procs -> Statuses]
      /\ killed \subseteq Threads /\ StackInv(stack, status) /\ TabInv(sch, status, killed)
  BY DEF SchedInv, SchedOK
<1>2. t \in Threads /\ Woke(sch, sch', {t}) /\ status[t] \in {"parked", "drive"}
  BY DEF Nudge
<1>3. sch' \in Sch /\ Queued(sch', t)
  BY <1>2 DEF Woke
<1>4. TabInv(sch', status, killed)
  BY <1>1, <1>2, WokeTab
<1>5. TabInv(sch', status, killed') /\ killed' \subseteq Threads
  BY <1>1, <1>2, <1>3, <1>4 DEF TabInv, Pending
<1> QED BY <1>3, <1>5 DEF SchedInv, SchedOK, Nudge

\* An inline park ends, for its own thread.
LEMMA InlineWakesKeeps ==
  ASSUME SchedInv, NEW p \in Threads, InlineWakes(p)
  PROVE  SchedInv'
<1>1. /\ sch \in Sch /\ stack \in Seq(Procs) /\ status \in [Procs -> Statuses]
      /\ killed \subseteq Threads /\ StackInv(stack, status) /\ TabInv(sch, status, killed)
  BY DEF SchedInv, SchedOK
<1>2. /\ p = Last(stack) /\ status[p] = "drive" /\ p \in Procs
      /\ killed' = killed \ {p} /\ UNCHANGED stack /\ Popped(sch, sch', p)
  BY <1>1, ShiftFacts DEF InlineWakes, InlineHead, Drives, Current, Procs
<1>3. PICK res \in Outcomes : Wakes(p, res)
  BY DEF InlineWakes, Outcomes
<1>4. /\ call' \in [Procs -> Calls] /\ (\A q \in Procs : CallFits(call'[q])) /\ ~call'[Main].inl
      /\ status' \in [Procs -> Statuses] /\ status' = [status EXCEPT ![p] = "woken"]
  BY <1>2, <1>3, WakesTypes
<1>5. StackInv(stack, status')
  BY <1>1, <1>2, <1>4, StackStays
<1>6. TabInv(sch, status', killed')
  <2>1. PICK su, K : su = status' /\ K = killed'
    OBVIOUS
  <2>2. su = [status EXCEPT ![p] = "woken"] /\ K \subseteq killed /\ p \notin K
    BY <1>2, <1>4, <2>1
  <2>3. TabInv(sch, su, K)
    BY <1>1, <1>2, <2>2, StatusTab
  <2> QED BY <2>1, <2>3
<1>7. sch' \in Sch /\ TabInv(sch', status', killed')
  <2>1. status'[p] = "woken" /\ p \notin killed' /\ killed' \subseteq Threads /\ sch' \in Sch
    BY <1>1, <1>2, <1>4 DEF Popped
  <2> QED BY <1>1, <1>2, <1>6, <2>1, PoppedTab
<1> QED BY <1>1, <1>2, <1>4, <1>5, <1>7 DEF SchedInv, SchedOK

\* A loop with nothing but pinned threads turns the queue round, and polls.
LEMMA InlineRotatesKeeps ==
  ASSUME SchedInv, NEW p \in Threads, InlineRotates(p)
  PROVE  SchedInv'
<1>1. sch \in Sch /\ killed \subseteq Threads /\ TabInv(sch, status, killed)
  BY DEF SchedInv, SchedOK
<1>2. Reordered(sch, Rotated)
  BY <1>1, ShiftFacts DEF InlineRotates, InlineHead
<1>3. PICK r : r = Rotated
  OBVIOUS
<1>4. r \in Sch /\ TabInv(r, status, killed)
  BY <1>1, <1>2, <1>3, ReorderedTab DEF Reordered
<1>5. (sch' = r \/ Poll(p, r)) /\ UNCHANGED <<stack, status, call, killed>>
  BY <1>3 DEF InlineRotates, Poll
<1>6. ASSUME Poll(p, r) PROVE sch' \in Sch /\ TabInv(sch', status, killed)
  <2>1. PICK W : Woke(r, sch', W) /\ W \subseteq Rousable(r)
    BY <1>4, <1>6, PollWakes
  <2>2. \A t \in W : status[t] # "unborn"
    BY <1>4, <2>1, RousableBorn
  <2>3. TabInv(sch', status, killed)
    BY <1>1, <1>4, <2>1, <2>2, WokeTab
  <2> QED BY <2>1, <2>3 DEF Woke
<1> QED BY <1>4, <1>5, <1>6 DEF SchedInv, SchedOK

\* An inline park that nobody can end raises.
LEMMA InlineErrorKeeps ==
  ASSUME SchedInv, NEW p \in Threads, InlineError(p)
  PROVE  SchedInv'
<1>1. /\ sch \in Sch /\ stack \in Seq(Procs) /\ status \in [Procs -> Statuses]
      /\ killed \subseteq Threads /\ StackInv(stack, status) /\ TabInv(sch, status, killed)
  BY DEF SchedInv, SchedOK
<1>2. /\ p = Last(stack) /\ status[p] = "drive" /\ p \in Procs
      /\ UNCHANGED <<stack, killed>> /\ Wakes(p, "raise") /\ "raise" \in Outcomes
  BY DEF InlineError, Drives, Current, Procs, Outcomes
<1>3. ~Queued(sch, p)
  BY <1>1 DEF InlineError, OnlyPinned, Queued, Contains, Sch
<1>4. p \notin killed
  BY <1>1, <1>3 DEF TabInv, Pending
<1>5. sch' \in Sch /\ TabInv(sch', status, killed)
  <2>1. CASE sch.runq = <<>> /\ UNCHANGED sch
    BY <1>1, <2>1
  <2>2. CASE sch.runq # <<>> /\ sch' = Rotated
    <3>1. Reordered(sch, sch')
      BY <1>1, <2>2, ShiftFacts
    <3> QED BY <1>1, <3>1, ReorderedTab DEF Reordered
  <2> QED BY <2>1, <2>2 DEF InlineError
<1>6. /\ call' \in [Procs -> Calls] /\ (\A q \in Procs : CallFits(call'[q])) /\ ~call'[Main].inl
      /\ status' \in [Procs -> Statuses] /\ status' = [status EXCEPT ![p] = "woken"]
  BY <1>2, WakesTypes
<1>7. TabInv(sch', status', killed)
  <2>1. killed \subseteq killed /\ status[p] # "dead"
    BY <1>2
  <2> QED BY <1>1, <1>2, <1>4, <1>5, <1>6, <2>1, StatusTab
<1>8. StackInv(stack, status')
  BY <1>1, <1>2, <1>6, StackStays
<1> QED BY <1>1, <1>2, <1>5, <1>6, <1>7, <1>8 DEF SchedInv, SchedOK

\* The end of the main program.
LEMMA ExitKeeps ==
  ASSUME SchedInv, MainExits
  PROVE  SchedInv'
<1>1. /\ sch \in Sch /\ stack \in Seq(Procs) /\ status \in [Procs -> Statuses]
      /\ killed \subseteq Threads /\ StackInv(stack, status) /\ TabInv(sch, status, killed)
  BY DEF SchedInv, SchedOK
<1>2. /\ Main = Last(stack) /\ status[Main] = "run" /\ Main \in Procs /\ Main \notin Threads
      /\ UNCHANGED <<sch, stack, call, killed>> /\ status' = [status EXCEPT ![Main] = "dead"]
  BY ObjectAssumption DEF MainExits, Current, Procs
<1>3. StackInv(stack, status')
  BY <1>1, <1>2, StackStays
<1>4. TabInv(sch, status', killed)
  <2>1. killed \subseteq killed /\ Main \notin killed /\ status[Main] # "dead"
    BY <1>1, <1>2
  <2> QED BY <1>1, <1>2, <2>1, StatusTab
<1>5. status' \in [Procs -> Statuses]
  BY <1>1, <1>2 DEF Statuses
<1> QED BY <1>1, <1>2, <1>3, <1>4, <1>5 DEF SchedInv, SchedOK

\* Every step keeps it.
LEMMA StepKeepsSched ==
  ASSUME CoreInv, [Next]_vars
  PROVE  SchedInv'
<1>1. SchedInv
  BY CoreSched
<1>2. ASSUME NEW t, IF Dead(t) THEN Popped(sch, sch', t) /\ UNCHANGED <<stack, status, call, killed>>
                    ELSE ResumeStep(t) \/ PassStep(t)
      PROVE  SchedInv'
  BY <1>1, <1>2, DropKeeps, ResumeKeeps, PassKeeps
<1>3. ASSUME UNCHANGED <<sch, stack, status, call, killed>> PROVE SchedInv'
  BY <1>1, <1>3 DEF SchedInv
<1>4. ASSUME NEW p \in Procs, NEW t \in Threads, Kill(p, t) PROVE SchedInv'
  <2>1. CASE status[t] = "fresh" /\ Ends(t) /\ UNCHANGED <<stack, call, killed>>
    BY <1>1, <2>1, EndsKeep
  <2>2. CASE Nudge(t) /\ killed' = killed \cup {t}
    BY <1>1, <2>2, NudgeKeeps
  <2> QED BY <1>1, <1>3, <1>4, <2>1, <2>2, Nudges
<1>5. ASSUME NEW p \in Procs, NEW t \in Threads, Wakeup(p, t) PROVE SchedInv'
  BY <1>1, <1>5, Nudges, NudgeKeeps
<1>6. ASSUME NEW t \in Threads, Finish(t) PROVE SchedInv'
  BY <1>1, <1>6, EndsKeep DEF Finish, Current
<1>7. ASSUME NEW p \in Threads, InlineDropsDead(p) PROVE SchedInv'
  <2>1. sch \in Sch /\ sch.runq # <<>> /\ sch' = Shifted
    BY <1>1, <1>7 DEF InlineDropsDead, InlineHead, SchedInv, SchedOK
  <2>2. Popped(sch, sch', Head(sch.runq))
    BY <2>1, ShiftFacts
  <2> QED BY <1>2, <1>7, <2>2 DEF InlineDropsDead
<1>8. ASSUME MainWakes \/ DeadlockError PROVE SchedInv'
  <2>1. "ok" \in Outcomes /\ "raise" \in Outcomes
    BY DEF Outcomes
  <2> QED BY <1>1, <1>8, <2>1, MainGoes, MainGoesKeeps
<1>9. ASSUME ScheduleStep PROVE SchedInv'
  BY <1>1, <1>2, <1>9, Resumes
<1>10. ASSUME MainPass PROVE SchedInv'
  BY <1>1, <1>2, <1>10, Passes
<1>11. ASSUME NEW p \in Threads, InlineRuns(p) PROVE SchedInv'
  BY <1>1, <1>11, Resumes, ResumeKeeps
<1>12. ASSUME OtherStep PROVE SchedInv'
  BY <1>1, <1>3, <1>4, <1>5, <1>6, <1>7, <1>8, <1>9, <1>10, <1>11, <1>12, SpawnKeeps,
     InlineWakesKeeps, InlineRotatesKeeps, InlineErrorKeeps, ExitKeeps DEF OtherStep
<1> QED BY <1>1, <1>12, StepKinds, RouseKeeps, ParkKeeps, ReturnKeeps

-----------------------------------------------------------------------------
(* The remaining variables.                                                *)

\* Unwinding, live threads and the slice.
RestOK == dying \subseteq Procs /\ live \in Int /\ slice \in 0..Slice

\* Their types under the building blocks of the actions.
LEMMA RestBlocks ==
  ASSUME RestOK
  PROVE  /\ \A p \in Procs : \A op : Acts(p, op) /\ Step => slice' \in 0..Slice
         /\ \A p \in Procs : \A res : Wakes(p, res) => slice' \in 0..Slice
         /\ \A p \in Procs : \A out : Returns(p, out) => dying' \subseteq Procs /\ live' \in Int
         /\ \A p, op, l, mx, timed, inl, pend :
              Block(p, op, l, mx, timed, inl, pend) => dying' \subseteq Procs /\ live' \in Int
         /\ \A t \in Threads : Ends(t) => live' \in Int
<1>1. Slice \in Nat
  BY ObjectAssumption
<1>2. ASSUME NEW p \in Procs, NEW op, Acts(p, op), Step PROVE slice' \in 0..Slice
  BY <1>1, <1>2 DEF Acts, Step, RestOK
<1>3. ASSUME NEW p \in Procs, NEW res, Wakes(p, res) PROVE slice' \in 0..Slice
  BY <1>1, <1>3 DEF Wakes
<1>4. ASSUME NEW p \in Procs, NEW out, Returns(p, out) PROVE dying' \subseteq Procs /\ live' \in Int
  BY <1>4 DEF Returns, RestOK
<1>5. ASSUME NEW p, NEW op, NEW l, NEW mx, NEW timed, NEW inl, NEW pend,
             Block(p, op, l, mx, timed, inl, pend)
      PROVE  dying' \subseteq Procs /\ live' \in Int
  BY <1>5 DEF Block, RestOK
<1>6. ASSUME NEW t \in Threads, Ends(t) PROVE live' \in Int
  BY <1>6 DEF Ends, RestOK
<1> QED BY <1>2, <1>3, <1>4, <1>5, <1>6

\* Every step keeps them.
LEMMA StepKeepsRest ==
  ASSUME RestOK, [Next]_vars
  PROVE  RestOK'
<1>1. Main \in Procs /\ Threads \subseteq Procs /\ dying \subseteq Procs /\ live \in Int /\ slice \in 0..Slice
      /\ Slice \in Nat
  BY ObjectAssumption DEF Procs, RestOK
<1>2. ASSUME NEW p \in Procs, CoreOps(p) PROVE RestOK'
  <2>1. ASSUME NEW t \in Threads, Spawn(p, t) PROVE RestOK'
    BY <1>1, <2>1 DEF Spawn, RestOK
  <2>2. ASSUME NEW t \in Threads, Kill(p, t) PROVE RestOK'
    <3>1. slice' \in 0..Slice
      BY <2>2, RestBlocks DEF Kill
    <3>2. dying' \subseteq Procs /\ live' \in Int
      BY <1>1, <2>2, RestBlocks DEF Kill
    <3> QED BY <3>1, <3>2 DEF RestOK
  <2>3. ASSUME NEW t \in Threads, Wakeup(p, t) PROVE RestOK'
    BY <1>1, <2>3, RestBlocks DEF Wakeup, RestOK
  <2>4. ASSUME NEW t \in Threads, NEW timed \in BOOLEAN, Join(p, t, timed) PROVE RestOK'
    <3>1. slice' \in 0..Slice
      BY <2>4, RestBlocks DEF Join
    <3> QED BY <1>1, <2>4, <3>1 DEF Join, RestOK
  <2>5. ASSUME NEW timed \in BOOLEAN, SleepOp(p, timed) PROVE RestOK'
    <3>1. slice' \in 0..Slice
      BY <2>5, RestBlocks DEF SleepOp
    <3> QED BY <1>1, <2>5, <3>1 DEF SleepOp, RestOK
  <2>6. ASSUME NEW f \in Fds, WaitFd(p, f) PROVE RestOK'
    BY <1>1, <2>6, RestBlocks DEF WaitFd, RestOK
  <2>7. ASSUME Pass(p) PROVE RestOK'
    BY <1>1, <2>7, RestBlocks DEF Pass, RestOK
  <2>8. ASSUME BareYield(p) PROVE RestOK'
    BY <1>1, <2>8, RestBlocks DEF BareYield, RestOK
  <2> QED BY <1>2, <2>1, <2>2, <2>3, <2>4, <2>5, <2>6, <2>7, <2>8 DEF CoreOps
<1>3. ASSUME NEW p \in Procs, SyncOps(p) PROVE RestOK'
  <2>1. ASSUME NEW m \in Mutexes, Lock(p, m) PROVE RestOK'
    <3>1. slice' \in 0..Slice
      BY <2>1, RestBlocks DEF Lock
    <3>2. dying' \subseteq Procs /\ live' \in Int
      BY <2>1, RestBlocks DEF Lock, Acquire
    <3> QED BY <3>1, <3>2 DEF RestOK
  <2>2. ASSUME NEW m \in Mutexes, TryLock(p, m) PROVE RestOK'
    BY <1>1, <2>2, RestBlocks DEF TryLock, RestOK
  <2>3. ASSUME NEW m \in Mutexes, Unlock(p, m) PROVE RestOK'
    BY <1>1, <2>3 DEF Unlock, RestOK
  <2>4. ASSUME NEW q \in Queues, Push(p, q) PROVE RestOK'
    BY <1>1, <2>4, RestBlocks DEF Push, RestOK
  <2>5. ASSUME NEW q \in Queues, Pop(p, q) PROVE RestOK'
    <3>1. slice' \in 0..Slice
      BY <2>5, RestBlocks DEF Pop
    <3>2. dying' \subseteq Procs /\ live' \in Int
      BY <1>1, <2>5, RestBlocks DEF Pop
    <3> QED BY <3>1, <3>2 DEF RestOK
  <2>6. ASSUME NEW q \in Queues, Clear(p, q) PROVE RestOK'
    BY <1>1, <2>6, RestBlocks DEF Clear, RestOK
  <2>7. ASSUME NEW q \in Queues, Close(p, q) PROVE RestOK'
    BY <1>1, <2>7, RestBlocks DEF Close, RestOK
  <2>8. ASSUME NEW cv \in CVs, Signal(p, cv) PROVE RestOK'
    BY <1>1, <2>8, RestBlocks DEF Signal, RestOK
  <2>9. ASSUME NEW cv \in CVs, Broadcast(p, cv) PROVE RestOK'
    BY <1>1, <2>9, RestBlocks DEF Broadcast, RestOK
  <2>10. ASSUME NEW cv \in CVs, NEW mx, NEW timed, Wait(p, cv, mx, timed) PROVE RestOK'
    <3>1. slice' \in 0..Slice
      BY <2>10, RestBlocks DEF Wait
    <3>2. UNCHANGED <<dying, live>>
      BY <2>10 DEF Wait
    <3> QED BY <1>1, <3>1, <3>2 DEF RestOK
  <2> QED BY <1>3, <2>1, <2>2, <2>3, <2>4, <2>5, <2>6, <2>7, <2>8, <2>9, <2>10 DEF SyncOps
<1>4. ASSUME NEW p \in Procs, Continue(p) \/ ContinueLock(p) \/ ContinuePop(p) \/ ContinueWait(p)
      PROVE  RestOK'
  <2>1. UNCHANGED slice
    BY <1>4 DEF Continue, ContinueLock, ContinuePop, ContinueWait
  <2>2. dying' \subseteq Procs /\ live' \in Int
    BY <1>4, RestBlocks DEF Continue, ContinueLock, ContinuePop, ContinueWait, Acquire
  <2> QED BY <1>1, <2>1, <2>2 DEF RestOK
<1>5. ASSUME Scheduler PROVE RestOK'
  <2>1. UNCHANGED <<dying, live>>
    BY <1>5 DEF Scheduler, MainWakes, ScheduleStep, SchedulePoll, DeadlockError, InlineWakes,
       InlineDropsDead, InlineRotates, InlineRuns, InlinePoll, InlineError, Poll, Resume
  <2>2. slice' = slice \/ slice' = Slice
    <3>1. ASSUME NEW t, NEW s, Resume(t, s) PROVE slice' = Slice
      BY <3>1 DEF Resume, Wakes
    <3>2. ASSUME NEW p, NEW res, Wakes(p, res) PROVE slice' = Slice
      BY <3>2 DEF Wakes
    <3>3. ASSUME NEW p, NEW s, Poll(p, s) PROVE slice' = slice
      BY <3>3 DEF Poll
    <3>4. ASSUME ScheduleStep PROVE slice' = slice \/ slice' = Slice
      BY <3>1, <3>4 DEF ScheduleStep
    <3>5. ASSUME MainWakes \/ DeadlockError PROVE slice' = Slice
      BY <3>2, <3>5 DEF MainWakes, DeadlockError
    <3>6. ASSUME NEW p, InlineWakes(p) \/ InlineError(p) PROVE slice' = Slice
      <4>1. \E res : Wakes(p, res)
        BY <3>6 DEF InlineWakes, InlineError
      <4> QED BY <3>2, <4>1
    <3>7. ASSUME NEW p, InlineDropsDead(p) \/ InlineRotates(p) \/ InlinePoll(p) PROVE slice' = slice
      BY <3>3, <3>7 DEF InlineDropsDead, InlineRotates, InlinePoll
    <3>8. ASSUME NEW p, InlineRuns(p) PROVE slice' = Slice
      BY <3>1, <3>8 DEF InlineRuns
    <3> QED BY <1>5, <3>3, <3>4, <3>5, <3>6, <3>7, <3>8 DEF Scheduler, SchedulePoll
  <2> QED BY <1>1, <2>1, <2>2 DEF RestOK
<1>6. ASSUME MainPass PROVE RestOK'
  <2>1. UNCHANGED <<dying, live>>
    BY <1>6 DEF MainPass
  <2>2. (Acts(Main, "pass") /\ Step) \/ slice' = Slice
    BY <1>6 DEF MainPass
  <2>3. slice' \in 0..Slice
    BY <1>1, <2>2, RestBlocks
  <2> QED BY <1>1, <2>1, <2>3 DEF RestOK
<1>7. ASSUME NEW t \in Threads, ThreadEnds(t) PROVE RestOK'
  <2>1. Finish(t)
    BY <1>7 DEF ThreadEnds
  <2> QED BY <1>1, <2>1, RestBlocks DEF Finish, RestOK
<1>8. ASSUME MainExits PROVE RestOK'
  BY <1>1, <1>8 DEF MainExits, RestOK
<1>9. ASSUME UNCHANGED vars PROVE RestOK'
  BY <1>1, <1>9 DEF vars, coreVars, RestOK
<1> QED BY <1>2, <1>3, <1>4, <1>5, <1>6, <1>7, <1>8, <1>9 DEF Next, Exited

-----------------------------------------------------------------------------
(* Mutexes and queues.                                                     *)

\* A process without a blocking call stays without one, or parks.
LEMMA StepKeepsIdle ==
  ASSUME CoreInv, CallsIdle(status, call), [Next]_vars
  PROVE  CallsIdle(status', call')
<1>1. /\ SchedInv /\ status \in [Procs -> Statuses] /\ call \in [Procs -> Calls]
      /\ Main \in Procs /\ Threads \subseteq Procs /\ Main \notin Threads
  BY CoreSched, ObjectAssumption DEF SchedInv, SchedOK, Procs
<1>2. ASSUME UNCHANGED <<status, call>> PROVE CallsIdle(status', call')
  BY <1>2
<1>3. ASSUME NEW p \in Procs, NEW x, NEW c, status' = [status EXCEPT ![p] = x],
             call' = [call EXCEPT ![p] = c],
             x \in {"parked", "drive", "woken"} \/ c = Idle
      PROVE  CallsIdle(status', call')
  BY <1>1, <1>3 DEF CallsIdle
<1>4. ASSUME NEW p \in Procs, NEW x, status' = [status EXCEPT ![p] = x], UNCHANGED call,
             status[p] \in {"unborn", "fresh", "run"}
      PROVE  CallsIdle(status', call')
  BY <1>1, <1>4 DEF CallsIdle
<1>5. ASSUME NEW p \in Procs, NEW res, Wakes(p, res) PROVE CallsIdle(status', call')
  <2>1. status' = [status EXCEPT ![p] = "woken"] /\ call' = [call EXCEPT ![p] = Ended(call[p], res)]
    BY <1>5 DEF Wakes
  <2> QED BY <1>3, <2>1
<1>6. ASSUME NEW p \in Procs, ParkStep(p) PROVE CallsIdle(status', call')
  <2>1. \E x \in {"drive", "parked"}, c \in Calls :
           status' = [status EXCEPT ![p] = x] /\ call' = [call EXCEPT ![p] = c]
    BY <1>6 DEF ParkStep, CallOK
  <2> QED BY <1>3, <2>1
<1>7. ASSUME NEW p \in Procs, ReturnStep(p) PROVE CallsIdle(status', call')
  BY <1>3, <1>7 DEF ReturnStep
<1>8. ASSUME NEW p \in Procs, NEW t \in Threads, Spawn(p, t) \/ Kill(p, t) \/ Wakeup(p, t)
      PROVE  CallsIdle(status', call')
  BY <1>1, <1>2, <1>4, <1>8 DEF Spawn, Kill, Wakeup, Ends
<1>9. ASSUME NEW t \in Threads, Finish(t) PROVE CallsIdle(status', call')
  BY <1>1, <1>4, <1>9 DEF Finish, Ends
<1>10. ASSUME MainExits PROVE CallsIdle(status', call')
  BY <1>1, <1>4, <1>10 DEF MainExits
<1>11. ASSUME NEW t, PassStep(t) PROVE CallsIdle(status', call')
  <2>1. PICK e, m : /\ call' = [call EXCEPT ![t] = e, ![Main] = m]
                    /\ status' = [status EXCEPT ![t] = "woken", ![Main] = "drive"] /\ t \in Threads
    BY <1>11 DEF PassStep
  <2> QED BY <1>1, <2>1 DEF CallsIdle
<1>12. ASSUME MainPass PROVE CallsIdle(status', call')
  BY <1>1, <1>2, <1>11, <1>12, Passes
<1>13. ASSUME NEW t, ResumeStep(t) PROVE CallsIdle(status', call')
  BY <1>1, <1>5, <1>13 DEF ResumeStep
<1>14. ASSUME ScheduleStep PROVE CallsIdle(status', call')
  BY <1>1, <1>2, <1>13, <1>14, Resumes
<1>15. ASSUME MainWakes \/ DeadlockError PROVE CallsIdle(status', call')
  BY <1>1, <1>5, <1>15 DEF MainWakes, DeadlockError
<1>16. ASSUME NEW p \in Threads,
              InlineWakes(p) \/ InlineDropsDead(p) \/ InlineRotates(p) \/ InlineError(p)
       PROVE  CallsIdle(status', call')
  BY <1>1, <1>2, <1>5, <1>16 DEF InlineWakes, InlineDropsDead, InlineRotates, InlineError, Poll
<1>17. ASSUME NEW p \in Threads, InlineRuns(p) PROVE CallsIdle(status', call')
  BY <1>1, <1>13, <1>17, Resumes
<1>18. ASSUME OtherStep PROVE CallsIdle(status', call')
  BY <1>2, <1>8, <1>9, <1>10, <1>12, <1>14, <1>15, <1>16, <1>17, <1>18 DEF OtherStep
<1>19. ASSUME RouseStep PROVE CallsIdle(status', call')
  BY <1>2, <1>19 DEF RouseStep
<1> QED BY <1>6, <1>7, <1>18, <1>19, StepKinds

\* What one process does to one mutex.
LockStep(p, m) ==
    \/ owner[m] = None /\ Take(p, m)
    \/ /\ owner[m] = p /\ depth[m] < MaxDepth
       /\ depth' = [depth EXCEPT ![m] = @ + 1]
       /\ holds' = [holds EXCEPT ![p][m] = @ + 1]
       /\ UNCHANGED owner
    \/ ReleaseLock(p, m)

LockTypeOK ==
    /\ owner \in [Mutexes -> Procs \cup {None}]
    /\ depth \in [Mutexes -> 0..MaxDepth]
    /\ holds \in [Procs -> [Mutexes -> Int]]

\* That keeps the books of lock and unlock calls.
LEMMA LockStepKeeps ==
  ASSUME LockTypeOK, MutualExclusion, \A n \in Mutexes : owner[n] = None => depth[n] = 0,
         NEW p \in Procs, NEW m \in Mutexes, LockStep(p, m)
  PROVE  /\ LockTypeOK' /\ MutualExclusion'
         /\ \A n \in Mutexes : owner'[n] = None => depth'[n] = 0
         /\ \A n \in Mutexes : owner'[n] \in {owner[n], p, None}
<1>0. None \notin Procs /\ MaxDepth \in Nat
  BY ObjectAssumption, BoundAssumption DEF Procs
<1>1. ASSUME owner[m] = None, Take(p, m)
      PROVE  /\ LockTypeOK' /\ MutualExclusion'
             /\ \A n \in Mutexes : owner'[n] = None => depth'[n] = 0
             /\ \A n \in Mutexes : owner'[n] \in {owner[n], p, None}
  <2>1. /\ owner' = [owner EXCEPT ![m] = p] /\ depth' = depth
        /\ holds' = [holds EXCEPT ![p][m] = holds[p][m] + 1]
    BY <1>1 DEF Take
  <2>2. LockTypeOK'
    BY <2>1 DEF LockTypeOK
  <2>3. /\ \A n \in Mutexes : owner'[n] = IF n = m THEN p ELSE owner[n]
        /\ \A q \in Procs, n \in Mutexes :
             holds'[q][n] = IF q = p /\ n = m THEN holds[q][n] + 1 ELSE holds[q][n]
    BY <2>1 DEF LockTypeOK
  <2>4. MutualExclusion'
    BY <1>0, <1>1, <2>1, <2>3 DEF MutualExclusion, LockTypeOK
  <2> QED BY <1>0, <2>1, <2>2, <2>3, <2>4
<1>2. ASSUME owner[m] = p, depth[m] < MaxDepth, depth' = [depth EXCEPT ![m] = depth[m] + 1],
             holds' = [holds EXCEPT ![p][m] = holds[p][m] + 1], UNCHANGED owner
      PROVE  /\ LockTypeOK' /\ MutualExclusion'
             /\ \A n \in Mutexes : owner'[n] = None => depth'[n] = 0
             /\ \A n \in Mutexes : owner'[n] \in {owner[n], p, None}
  <2>1. LockTypeOK'
    BY <1>0, <1>2 DEF LockTypeOK
  <2>2. /\ \A n \in Mutexes : depth'[n] = IF n = m THEN depth[n] + 1 ELSE depth[n]
        /\ \A q \in Procs, n \in Mutexes :
             holds'[q][n] = IF q = p /\ n = m THEN holds[q][n] + 1 ELSE holds[q][n]
    BY <1>2 DEF LockTypeOK
  <2>3. MutualExclusion'
    BY <1>0, <1>2, <2>2 DEF MutualExclusion, LockTypeOK
  <2> QED BY <1>0, <1>2, <2>1, <2>2, <2>3
<1>3. ASSUME ReleaseLock(p, m)
      PROVE  /\ LockTypeOK' /\ MutualExclusion'
             /\ \A n \in Mutexes : owner'[n] = None => depth'[n] = 0
             /\ \A n \in Mutexes : owner'[n] \in {owner[n], p, None}
  <2>1. CASE owner[m] # p
    <3> UNCHANGED <<owner, depth, holds>>
      BY <1>3, <2>1 DEF ReleaseLock
    <3> QED BY DEF LockTypeOK, MutualExclusion
  <2>2. CASE owner[m] = p /\ depth[m] = 0
    <3>1. /\ owner' = [owner EXCEPT ![m] = None] /\ depth' = depth
          /\ holds' = [holds EXCEPT ![p][m] = holds[p][m] - 1]
      BY <1>3, <2>2 DEF ReleaseLock
    <3>2. LockTypeOK'
      BY <3>1 DEF LockTypeOK
    <3>3. /\ \A n \in Mutexes : owner'[n] = IF n = m THEN None ELSE owner[n]
          /\ \A q \in Procs, n \in Mutexes :
               holds'[q][n] = IF q = p /\ n = m THEN holds[q][n] - 1 ELSE holds[q][n]
      BY <3>1 DEF LockTypeOK
    <3>4. MutualExclusion'
      <4> SUFFICES ASSUME NEW n \in Mutexes, NEW q \in Procs
                   PROVE  holds'[q][n] = IF owner'[n] = q THEN depth'[n] + 1 ELSE 0
        BY DEF MutualExclusion
      <4>1. holds[q][n] = IF owner[n] = q THEN depth[n] + 1 ELSE 0
        BY DEF MutualExclusion
      <4>2. CASE n = m
        BY <1>0, <2>2, <3>3, <4>1, <4>2
      <4>3. CASE n # m
        BY <3>1, <3>3, <4>1, <4>3
      <4> QED BY <4>2, <4>3
    <3> QED BY <1>0, <2>2, <3>1, <3>2, <3>3, <3>4
  <2>3. CASE owner[m] = p /\ depth[m] > 0
    <3>1. /\ owner' = owner /\ depth' = [depth EXCEPT ![m] = depth[m] - 1]
          /\ holds' = [holds EXCEPT ![p][m] = holds[p][m] - 1]
      BY <1>3, <2>3 DEF ReleaseLock
    <3>2. LockTypeOK'
      BY <1>0, <2>3, <3>1 DEF LockTypeOK
    <3>3. /\ \A n \in Mutexes : depth'[n] = IF n = m THEN depth[n] - 1 ELSE depth[n]
          /\ \A q \in Procs, n \in Mutexes :
               holds'[q][n] = IF q = p /\ n = m THEN holds[q][n] - 1 ELSE holds[q][n]
      BY <3>1 DEF LockTypeOK
    <3>4. MutualExclusion'
      BY <1>0, <2>3, <3>1, <3>3 DEF MutualExclusion, LockTypeOK
    <3> QED BY <1>0, <2>3, <3>1, <3>2, <3>3, <3>4
  <2> QED BY <1>0, <2>1, <2>2, <2>3 DEF LockTypeOK
<1> QED BY <1>1, <1>2, <1>3 DEF LockStep

\* q's call is what it was, or is no call of Mutex#lock.
Calm(q) == call'[q].op = "lock" => call[q].op = "lock" /\ call'[q].on = call[q].on

\* A step of the mutexes: nothing, a process blocked by another one, or a
\* change of one mutex by a process that is then not in Mutex#lock.
LockKind ==
    \/ UNCHANGED lockVars /\ \A q \in Procs : Calm(q)
    \/ \E p \in Procs : /\ UNCHANGED lockVars /\ \A q \in Procs \ {p} : Calm(q)
                        /\ owner[call'[p].on] # p
    \/ \E p \in Procs, m \in Mutexes :
         LockStep(p, m) /\ call'[p].op # "lock" /\ \A q \in Procs \ {p} : Calm(q)

\* Suspending and returning, as far as the calls go.
LEMMA CallChanges ==
  ASSUME CoreInv, NEW p \in Procs
  PROVE  /\ \A s, op, on, mx, timed, inl, pend :
              Suspend(p, s, Calling(op, on, mx, timed, inl, pend)) =>
                /\ call'[p].op = op /\ call'[p].on = on /\ \A q \in Procs \ {p} : Calm(q)
         /\ \A out : Returns(p, out) => call'[p].op = "none" /\ \A q \in Procs \ {p} : Calm(q)
         /\ \A res : Wakes(p, res) => \A q \in Procs : Calm(q)
<1>1. call \in [Procs -> Calls]
  BY DEF CoreInv, TypeOK, CoreTypeOK
<1>2. ASSUME NEW s, NEW op, NEW on, NEW mx, NEW timed, NEW inl, NEW pend,
             Suspend(p, s, Calling(op, on, mx, timed, inl, pend))
      PROVE  call'[p].op = op /\ call'[p].on = on /\ \A q \in Procs \ {p} : Calm(q)
  <2>1. PICK c : c = Calling(op, on, mx, timed, inl, pend)
    OBVIOUS
  <2>2. call' = [call EXCEPT ![p] = c]
    BY <1>2, <2>1 DEF Suspend
  <2>3. c.op = op /\ c.on = on
    BY <2>1 DEF Calling
  <2> QED BY <1>1, <2>2, <2>3 DEF Calm
<1>3. ASSUME NEW out, Returns(p, out) PROVE call'[p].op = "none" /\ \A q \in Procs \ {p} : Calm(q)
  <2>1. call' = [call EXCEPT ![p] = Idle]
    BY <1>3 DEF Returns
  <2>2. Idle.op = "none"
    BY DEF Idle, Calling
  <2> QED BY <1>1, <2>1, <2>2 DEF Calm
<1>4. ASSUME NEW res, Wakes(p, res) PROVE \A q \in Procs : Calm(q)
  <2>1. PICK c : c = Ended(call[p], res)
    OBVIOUS
  <2>2. call' = [call EXCEPT ![p] = c] /\ c.op = call[p].op /\ c.on = call[p].on
    BY <1>4, <2>1 DEF Wakes, Ended
  <2> QED BY <1>1, <2>2 DEF Calm
<1> QED BY <1>2, <1>3, <1>4

\* Mutex#lock is such a step.
LEMMA AcquireLocks ==
  ASSUME CoreInv, NEW p \in Procs, NEW m \in Mutexes, NEW inl, NEW out, Acquire(p, m, inl, out)
  PROVE  LockKind
<1>1. ASSUME Returns(p, out), LockStep(p, m) PROVE LockKind
  BY <1>1, CallChanges DEF LockKind
<1>2. ASSUME Block(p, "lock", m, None, FALSE, inl, out), owner[m] # p, UNCHANGED lockVars PROVE LockKind
  <2>1. Suspend(p, Register(sch, p, m, FALSE), Calling("lock", m, None, FALSE, inl, out))
    BY <1>2 DEF Block
  <2>2. call'[p].on = m /\ \A q \in Procs \ {p} : Calm(q)
    BY <2>1, CallChanges
  <2> QED BY <1>2, <2>2 DEF LockKind
<1> QED BY <1>1, <1>2 DEF Acquire, LockStep

\* Every step is a step of the mutexes.
LEMMA StepLocks ==
  ASSUME CoreInv, LockInv, [Next]_vars
  PROVE  LockKind
<1>1. /\ SchedInv /\ status \in [Procs -> Statuses] /\ call \in [Procs -> Calls]
      /\ Main \in Procs /\ Threads \subseteq Procs /\ Main \notin Threads
      /\ \A p \in Procs : CallFits(call[p])
  BY CoreSched, ObjectAssumption DEF SchedInv, SchedOK, Procs
<1>2. ASSUME UNCHANGED lockVars, UNCHANGED call PROVE LockKind
  BY <1>2 DEF LockKind, Calm
<1>3. ASSUME NEW p \in Procs, NEW s, NEW op, NEW on, NEW mx, NEW timed, NEW inl, NEW pend,
             Suspend(p, s, Calling(op, on, mx, timed, inl, pend)), op # "lock", UNCHANGED lockVars
      PROVE  LockKind
  <2>1. \A q \in Procs : Calm(q)
    BY <1>3, CallChanges DEF Calm
  <2> QED BY <1>3, <2>1 DEF LockKind
<1>4. ASSUME NEW p \in Procs, NEW out, Returns(p, out), UNCHANGED lockVars PROVE LockKind
  <2>1. \A q \in Procs : Calm(q)
    BY <1>4, CallChanges DEF Calm
  <2> QED BY <1>4, <2>1 DEF LockKind
<1>5. ASSUME NEW p \in Procs, NEW res, Wakes(p, res), UNCHANGED lockVars PROVE LockKind
  BY <1>5, CallChanges DEF LockKind
<1>6. ASSUME NEW p \in Procs, status[p] = "run" PROVE call[p].op # "lock"
  <2>1. call[p] = Idle
    BY <1>6 DEF LockInv, CallsIdle
  <2> QED BY <2>1 DEF Idle, Calling
<1>7. ASSUME NEW p \in Procs, CoreOps(p), UNCHANGED lockVars PROVE LockKind
  <2>1. ASSUME NEW t \in Threads, Spawn(p, t) \/ Kill(p, t) \/ Wakeup(p, t) PROVE LockKind
    BY <1>2, <1>7, <2>1 DEF Spawn, Kill, Wakeup
  <2>2. ASSUME NEW t \in Threads, NEW timed \in BOOLEAN, Join(p, t, timed) PROVE LockKind
    BY <1>3, <1>7, <2>2 DEF Join
  <2>3. ASSUME NEW timed \in BOOLEAN, SleepOp(p, timed) PROVE LockKind
    BY <1>3, <1>7, <2>3 DEF SleepOp
  <2>4. ASSUME NEW f \in Fds, WaitFd(p, f) PROVE LockKind
    BY <1>3, <1>7, <2>4 DEF WaitFd
  <2>5. ASSUME Pass(p) \/ BareYield(p) PROVE LockKind
    BY <1>3, <1>7, <2>5 DEF Pass, BareYield
  <2> QED BY <1>7, <2>1, <2>2, <2>3, <2>4, <2>5 DEF CoreOps
<1>8. ASSUME NEW p \in Procs, SyncOps(p) PROVE LockKind
  <2>1. ASSUME NEW m \in Mutexes, Lock(p, m) PROVE LockKind
    BY <2>1, AcquireLocks DEF Lock
  <2>2. ASSUME NEW m \in Mutexes, TryLock(p, m) PROVE LockKind
    <3>1. status[p] = "run" /\ LockStep(p, m) /\ UNCHANGED call
      BY <2>2 DEF TryLock, LockStep, Acts
    <3> QED BY <1>6, <3>1 DEF LockKind, Calm
  <2>3. ASSUME NEW m \in Mutexes, Unlock(p, m) PROVE LockKind
    <3>1. status[p] = "run" /\ LockStep(p, m) /\ UNCHANGED call
      BY <2>3 DEF Unlock, LockStep
    <3> QED BY <1>6, <3>1 DEF LockKind, Calm
  <2>4. ASSUME NEW q \in Queues, Push(p, q) \/ Clear(p, q) \/ Close(p, q) PROVE LockKind
    BY <1>2, <2>4 DEF Push, Clear, Close
  <2>5. ASSUME NEW q \in Queues, Pop(p, q) PROVE LockKind
    <3>1. UNCHANGED lockVars
      BY <2>5 DEF Pop
    <3>2. UNCHANGED call \/ \E inl : Block(p, "pop", q, None, FALSE, inl, "ok")
      BY <2>5 DEF Pop
    <3> QED BY <1>2, <1>3, <3>1, <3>2 DEF Block
  <2>6. ASSUME NEW cv \in CVs, Signal(p, cv) \/ Broadcast(p, cv) PROVE LockKind
    BY <1>2, <2>6 DEF Signal, Broadcast
  <2>7. ASSUME NEW cv \in CVs, NEW mx \in Mutexes \cup {None}, NEW timed \in BOOLEAN,
               Wait(p, cv, mx, timed)
        PROVE  LockKind
    <3>1. PICK s, inl : Suspend(p, s, Calling("wait", cv, mx, timed, inl, "ok"))
      BY <2>7 DEF Wait
    <3>2. CASE mx = None
      BY <1>3, <2>7, <3>1, <3>2 DEF Wait
    <3>3. CASE mx # None
      <4>1. LockStep(p, mx) /\ mx \in Mutexes
        BY <2>7, <3>3 DEF Wait, LockStep
      <4>2. call'[p].op = "wait" /\ \A q \in Procs \ {p} : Calm(q)
        BY <3>1, CallChanges
      <4> QED BY <4>1, <4>2 DEF LockKind
    <3> QED BY <3>2, <3>3
  <2> QED BY <1>8, <2>1, <2>2, <2>3, <2>4, <2>5, <2>6, <2>7 DEF SyncOps
<1>9. ASSUME NEW p \in Procs, Continue(p) PROVE LockKind
  BY <1>4, <1>9 DEF Continue
<1>10. ASSUME NEW p \in Procs, ContinueLock(p) PROVE LockKind
  <2>1. PICK c : c = call[p]
    OBVIOUS
  <2>2. c.on \in Mutexes /\ owner[c.on] # p
    BY <1>1, <1>10, <2>1 DEF ContinueLock, Woken, CallFits, LockInv
  <2>3. CASE \E out : Returns(p, out) /\ UNCHANGED lockVars
    BY <1>4, <2>3
  <2>4. CASE MayTake(p, c.on) /\ Take(p, c.on) /\ Returns(p, c.pend)
    <3>1. LockStep(p, c.on)
      BY <2>2, <2>4 DEF MayTake, LockStep
    <3>2. call'[p].op = "none" /\ \A q \in Procs \ {p} : Calm(q)
      BY <2>4, CallChanges
    <3> QED BY <2>2, <3>1, <3>2 DEF LockKind
  <2>5. CASE Block(p, "lock", c.on, None, FALSE, c.inl, c.pend) /\ UNCHANGED lockVars
    <3>1. PICK s, on, mx, timed, inl, pend :
            Suspend(p, s, Calling("lock", on, mx, timed, inl, pend)) /\ on = c.on
      BY <2>5 DEF Block
    <3>2. call'[p].on = c.on /\ \A q \in Procs \ {p} : Calm(q)
      BY <3>1, CallChanges
    <3> QED BY <2>2, <2>5, <3>2 DEF LockKind
  <2> QED BY <1>10, <2>1, <2>3, <2>4, <2>5 DEF ContinueLock
<1>11. ASSUME NEW p \in Procs, ContinuePop(p) PROVE LockKind
  <2>1. UNCHANGED lockVars
    BY <1>11 DEF ContinuePop
  <2>2. (\E out : Returns(p, out)) \/ \E on, inl : Block(p, "pop", on, None, FALSE, inl, "ok")
    BY <1>11 DEF ContinuePop
  <2> QED BY <1>3, <1>4, <2>1, <2>2 DEF Block
<1>12. ASSUME NEW p \in Procs, ContinueWait(p) PROVE LockKind
  <2>1. PICK c : c = call[p]
    OBVIOUS
  <2>2. c.mx \in Mutexes \cup {None}
    BY <1>1, <2>1 DEF Calls
  <2>3. CASE c.mx = None
    BY <1>4, <1>12, <2>1, <2>3 DEF ContinueWait
  <2>4. CASE c.mx # None
    <3>1. Acquire(p, c.mx, c.inl, c.res)
      BY <1>12, <2>1, <2>4 DEF ContinueWait
    <3> QED BY <2>2, <2>4, <3>1, AcquireLocks
  <2> QED BY <2>3, <2>4
<1>13. ASSUME Scheduler, UNCHANGED lockVars PROVE LockKind
  <2>1. ASSUME NEW t, NEW s, t \in Procs, Resume(t, s) PROVE LockKind
    BY <1>5, <1>13, <2>1 DEF Resume
  <2>2. ASSUME NEW p, NEW s, Poll(p, s) PROVE LockKind
    BY <1>2, <1>13, <2>2 DEF Poll
  <2>3. ASSUME ScheduleStep PROVE LockKind
    <3>1. PICK t : IF Dead(t) THEN UNCHANGED call ELSE ResumeStep(t)
      BY <1>1, <2>3, Resumes
    <3> QED BY <1>1, <1>2, <1>5, <1>13, <3>1 DEF ResumeStep
  <2>4. ASSUME MainWakes \/ DeadlockError PROVE LockKind
    BY <1>1, <1>5, <1>13, <2>4 DEF MainWakes, DeadlockError
  <2>5. ASSUME NEW p \in Threads,
               InlineWakes(p) \/ InlineDropsDead(p) \/ InlineRotates(p) \/ InlinePoll(p) \/ InlineError(p)
        PROVE  LockKind
    BY <1>1, <1>2, <1>5, <1>13, <2>2, <2>5
       DEF InlineWakes, InlineDropsDead, InlineRotates, InlineError, InlinePoll
  <2>6. ASSUME NEW p \in Threads, InlineRuns(p) PROVE LockKind
    BY <1>1, <1>5, <1>13, <2>6, Resumes DEF ResumeStep
  <2> QED BY <1>13, <2>2, <2>3, <2>4, <2>5, <2>6 DEF Scheduler, SchedulePoll
<1>14. ASSUME MainPass, UNCHANGED lockVars PROVE LockKind
  <2>1. PICK t : IF Dead(t) THEN UNCHANGED call ELSE PassStep(t)
    BY <1>1, <1>14, Passes
  <2>2. CASE Dead(t)
    BY <1>2, <1>14, <2>1, <2>2
  <2>3. CASE PassStep(t)
    <3>0. PICK res \in Outcomes :
            call' = [call EXCEPT ![t] = Ended(call[t], res),
                                 ![Main] = Calling("pass", None, None, FALSE, FALSE, "ok")]
      BY <2>3 DEF PassStep
    <3>1. PICK e, m :
            /\ call' = [call EXCEPT ![t] = e, ![Main] = m] /\ t \in Threads
            /\ e = Ended(call[t], res) /\ m = Calling("pass", None, None, FALSE, FALSE, "ok")
      BY <2>3, <3>0 DEF PassStep
    <3>2. e.op = call[t].op /\ e.on = call[t].on /\ m.op = "pass"
      BY <3>1 DEF Ended, Calling
    <3>3. \A q \in Procs : Calm(q)
      BY <1>1, <3>1, <3>2 DEF Calm
    <3> QED BY <1>14, <3>3 DEF LockKind
  <2> QED BY <2>1, <2>2, <2>3
<1>15. ASSUME NEW t \in Threads, ThreadEnds(t) PROVE LockKind
  BY <1>2, <1>15 DEF ThreadEnds, Finish
<1>16. ASSUME MainExits PROVE LockKind
  BY <1>2, <1>16 DEF MainExits
<1>17. ASSUME UNCHANGED vars PROVE LockKind
  BY <1>2, <1>17 DEF vars, coreVars
<1> QED BY <1>7, <1>8, <1>9, <1>10, <1>11, <1>12, <1>13, <1>14, <1>15, <1>16, <1>17
       DEF Next, Exited

QueueTypeOK == items \in [Queues -> 0..MaxItems] /\ closed \subseteq Queues

\* Every step keeps the types of the queues.
LEMMA StepKeepsQueues ==
  ASSUME CoreInv, [Next]_vars
  PROVE  QueueTypeOK'
<1>1. QueueTypeOK /\ MaxItems \in Nat /\ call \in [Procs -> Calls] /\ \A p \in Procs : CallFits(call[p])
  BY BoundAssumption DEF CoreInv, TypeOK, CoreTypeOK, ObjectTypeOK, QueueTypeOK
<1>2. ASSUME UNCHANGED queueVars PROVE QueueTypeOK'
  BY <1>1, <1>2 DEF queueVars, QueueTypeOK
<1>3. ASSUME NEW q \in Queues, Shift(q) PROVE items' \in [Queues -> 0..MaxItems]
  BY <1>1, <1>3 DEF Shift, QueueTypeOK
<1>4. ASSUME NEW p \in Procs, SyncOps(p) PROVE QueueTypeOK'
  <2>1. ASSUME NEW m \in Mutexes, Lock(p, m) \/ TryLock(p, m) \/ Unlock(p, m) PROVE QueueTypeOK'
    BY <1>2, <2>1 DEF Lock, TryLock, Unlock
  <2>2. ASSUME NEW q \in Queues, Push(p, q) PROVE QueueTypeOK'
    BY <1>1, <2>2 DEF Push, QueueTypeOK
  <2>3. ASSUME NEW q \in Queues, Pop(p, q) PROVE QueueTypeOK'
    <3>1. closed' = closed /\ (items' = items \/ Shift(q))
      BY <2>3 DEF Pop
    <3> QED BY <1>1, <1>3, <3>1 DEF QueueTypeOK
  <2>4. ASSUME NEW q \in Queues, Clear(p, q) PROVE QueueTypeOK'
    BY <1>1, <2>4 DEF Clear, QueueTypeOK
  <2>5. ASSUME NEW q \in Queues, Close(p, q) PROVE QueueTypeOK'
    BY <1>1, <2>5 DEF Close, QueueTypeOK
  <2>6. ASSUME NEW cv \in CVs, Signal(p, cv) \/ Broadcast(p, cv) PROVE QueueTypeOK'
    BY <1>2, <2>6 DEF Signal, Broadcast
  <2>7. ASSUME NEW cv \in CVs, NEW mx, NEW timed, Wait(p, cv, mx, timed) PROVE QueueTypeOK'
    BY <1>2, <2>7 DEF Wait
  <2> QED BY <1>4, <2>1, <2>2, <2>3, <2>4, <2>5, <2>6, <2>7 DEF SyncOps
<1>5. ASSUME NEW p \in Procs, ContinuePop(p) PROVE QueueTypeOK'
  <2>1. call[p].on \in Queues
    BY <1>1, <1>5 DEF ContinuePop, Woken, CallFits
  <2>2. closed' = closed /\ (items' = items \/ Shift(call[p].on))
    BY <1>5 DEF ContinuePop
  <2> QED BY <1>1, <1>3, <2>1, <2>2 DEF QueueTypeOK
<1>6. ASSUME NEW p \in Procs, Continue(p) \/ ContinueLock(p) \/ ContinueWait(p) PROVE QueueTypeOK'
  BY <1>2, <1>6 DEF Continue, ContinueLock, ContinueWait
<1>7. ASSUME NEW t \in Threads, ThreadEnds(t) PROVE QueueTypeOK'
  BY <1>2, <1>7 DEF ThreadEnds
<1>8. ASSUME MainExits \/ UNCHANGED vars PROVE QueueTypeOK'
  BY <1>2, <1>8 DEF MainExits, vars
<1> QED BY <1>2, <1>4, <1>5, <1>6, <1>7, <1>8 DEF Next, Exited

\* Every step keeps the invariant of the mutexes.
LEMMA StepKeepsLocks ==
  ASSUME CoreInv, LockInv, [Next]_vars
  PROVE  LockInv' /\ LockTypeOK'
<1>1. LockTypeOK /\ call \in [Procs -> Calls] /\ \A p \in Procs : CallFits(call[p])
  BY DEF CoreInv, TypeOK, CoreTypeOK, ObjectTypeOK, LockTypeOK
<1>2. call' \in [Procs -> Calls] /\ \A p \in Procs : CallFits(call'[p])
  BY StepKeepsSched DEF SchedInv, SchedOK
<1>3. CallsIdle(status', call')
  BY StepKeepsIdle DEF LockInv
<1>4. \A p \in Procs : call[p].op = "lock" => owner[call[p].on] # p
  BY DEF LockInv
<1>5. None \notin Procs
  BY ObjectAssumption DEF Procs
<1>6. ASSUME UNCHANGED lockVars, \A p \in Procs : call'[p].op = "lock" => owner[call'[p].on] # p
      PROVE  LockInv' /\ LockTypeOK'
  BY <1>1, <1>3, <1>6 DEF lockVars, LockInv, LockTypeOK, MutualExclusion
<1>7. ASSUME UNCHANGED lockVars, \A q \in Procs : Calm(q) PROVE LockInv' /\ LockTypeOK'
  BY <1>4, <1>6, <1>7 DEF Calm
<1>8. ASSUME NEW p \in Procs, UNCHANGED lockVars, \A q \in Procs \ {p} : Calm(q),
             owner[call'[p].on] # p
      PROVE  LockInv' /\ LockTypeOK'
  BY <1>4, <1>6, <1>8 DEF Calm
<1>9. ASSUME NEW p \in Procs, NEW m \in Mutexes, LockStep(p, m), call'[p].op # "lock",
             \A q \in Procs \ {p} : Calm(q)
      PROVE  LockInv' /\ LockTypeOK'
  <2>1. /\ LockTypeOK' /\ MutualExclusion'
        /\ \A n \in Mutexes : owner'[n] = None => depth'[n] = 0
        /\ \A n \in Mutexes : owner'[n] \in {owner[n], p, None}
    BY <1>1, <1>9, LockStepKeeps DEF LockInv
  <2>2. ASSUME NEW q \in Procs, call'[q].op = "lock" PROVE owner'[call'[q].on] # q
    <3>1. q # p /\ call[q].op = "lock" /\ call'[q].on = call[q].on /\ call[q].on \in Mutexes
      BY <1>1, <1>9, <2>2 DEF Calm, CallFits
    <3> QED BY <1>4, <1>5, <2>1, <3>1
  <2> QED BY <1>3, <2>1, <2>2 DEF LockInv
<1> QED BY <1>7, <1>8, <1>9, StepLocks DEF LockKind

-----------------------------------------------------------------------------
(* What holds for every program, inline parks or not.                      *)

\* The whole invariant.
Inv == CoreInv /\ LockInv

\* It holds when the program starts.
LEMMA InitInv ==
  ASSUME Init
  PROVE  Inv
<1>1. Main \in Procs /\ Main \notin Threads /\ Threads \subseteq Procs
  BY ObjectAssumption DEF Procs
<1>2. /\ sch = [runq |-> <<>>, waiters |-> [l \in Lists |-> <<>>],
                park |-> [t \in Threads |-> None], nap |-> [t \in Threads |-> "no"],
                sleepers |-> {}, fds |-> {}]
      /\ stack = <<Main>> /\ status = [p \in Procs |-> IF p = Main THEN "run" ELSE "unborn"]
      /\ call = [p \in Procs |-> Idle] /\ killed = {} /\ dying = {} /\ live = 0 /\ slice = Slice
  BY DEF Init, CoreInit
<1>3. sch \in Sch
  BY <1>2 DEF Sch
<1>4. status \in [Procs -> Statuses] /\ stack \in Seq(Procs)
  BY <1>1, <1>2 DEF Statuses
<1>5. call \in [Procs -> Calls] /\ (\A p \in Procs : CallFits(call[p])) /\ ~call[Main].inl
  BY <1>1, <1>2, EndedOK
<1>6. CoreTypeOK
  BY <1>2, <1>3, <1>4, <1>5, ObjectAssumption DEF CoreTypeOK
<1>7. ObjectTypeOK
  BY BoundAssumption DEF Init, ObjectTypeOK
<1>8. StackInv(stack, status)
  <2>1. Len(stack) = 1 /\ stack[1] = Main /\ stack # <<>>
    BY <1>2
  <2>2. \A t \in Threads : status[t] = "unborn"
    BY <1>1, <1>2
  <2> QED BY <1>1, <1>2, <2>1, <2>2 DEF StackInv
<1>9. TabInv(sch, status, killed)
  <2>1. /\ \A t \in Threads : ~Queued(sch, t) /\ sch.park[t] = None /\ sch.nap[t] = "no"
        /\ \A l \in Lists, t \in Threads : ~Contains(sch.waiters[l], t)
        /\ sch.sleepers = {}
    BY <1>2 DEF Queued, Contains
  <2>2. \A t \in Threads : status[t] = "unborn"
    BY <1>1, <1>2
  <2> QED BY <1>2, <2>1, <2>2 DEF TabInv, Born, Linked, LinkedAt, Findable, Pending
<1>10. CoreInv
  BY <1>5, <1>6, <1>7, <1>8, <1>9 DEF CoreInv, TypeOK, TabInv
<1>11. LockInv
  <2>1. Idle.op = "none" /\ None \notin Procs
    BY ObjectAssumption DEF Idle, Calling, Procs
  <2> QED BY <1>2, <2>1 DEF Init, LockInv, CallsIdle, MutualExclusion
<1> QED BY <1>10, <1>11 DEF Inv

\* Every step keeps it.
LEMMA NextInv ==
  ASSUME Inv, [Next]_vars
  PROVE  Inv'
<1>1. SchedInv'
  BY StepKeepsSched DEF Inv
<1>2. RestOK'
  BY StepKeepsRest DEF Inv, CoreInv, TypeOK, CoreTypeOK, RestOK
<1>3. LockInv' /\ LockTypeOK' /\ QueueTypeOK'
  BY StepKeepsLocks, StepKeepsQueues DEF Inv
<1>4. TypeOK'
  BY <1>1, <1>2, <1>3 DEF TypeOK, CoreTypeOK, ObjectTypeOK, SchedInv, SchedOK, RestOK, LockTypeOK,
     QueueTypeOK
<1>5. CoreInv'
  BY <1>1, <1>4 DEF CoreInv, SchedInv, SchedOK, TabInv
<1> QED BY <1>3, <1>5 DEF Inv

\* The invariant of the scheduler and of the mutexes: who is on the stack of
\* loops, where a suspended thread can be found, who owns what.
THEOREM ThreadsInvariant == Spec => []Inv
<1>1. Init => Inv
  BY InitInv
<1>2. Inv /\ [Next]_vars => Inv'
  BY NextInv
<1> QED BY <1>1, <1>2, PTL DEF Spec

\* Every variable of the green-thread runtime keeps its type.
THEOREM TypeCorrect == Spec => []TypeOK
<1>1. Inv => TypeOK
  BY DEF Inv, CoreInv
<1> QED BY <1>1, ThreadsInvariant, PTL

\* A suspended thread can be found by whoever must wake it, whatever the
\* program parks on, with inline parks, kills and wakeups in any order.
THEOREM NoThreadIsLost == Spec => []NoLostThread
<1>1. Inv => NoLostThread
  BY DEF Inv, CoreInv, Linked, LinkedAt, Findable, NoLostThread, Suspended
<1> QED BY <1>1, ThreadsInvariant, PTL

\* A thread told to die while suspended is queued, so its CoopKill arrives.
THEOREM KillsArePending == Spec => []KillIsPending
<1>1. Inv => KillIsPending
  BY DEF Inv, CoreInv, Pending, KillIsPending, Suspended
<1> QED BY <1>1, ThreadsInvariant, PTL

\* Whoever got through Mutex#lock is the owner, with that depth, and alone.
THEOREM MutexesExclude == Spec => []MutualExclusion
<1>1. Inv => MutualExclusion
  BY DEF Inv, LockInv
<1> QED BY <1>1, ThreadsInvariant, PTL

\* Every step, by kind, without what only inline parks do.
PlainStep ==
    \/ RouseStep
    \/ \E p \in Procs : ParkStep(p) \/ ReturnStep(p)
    \/ \E t \in Threads : \/ status[Current] = "run" /\ status[t] = "unborn"
                             /\ status' = [status EXCEPT ![t] = "fresh"]
                             /\ sch' = Enqueue(sch, t) /\ UNCHANGED <<stack, call, killed>>
                          \/ /\ status[Current] = "run" /\ Ends(t) /\ UNCHANGED <<call, killed>>
                             /\ \/ status[t] = "fresh" /\ UNCHANGED stack
                                \/ status[t] = "run" /\ t = Last(stack) /\ stack' = Front(stack)
                          \/ Nudge(t) /\ killed' = killed \cup {t}
    \/ \E p \in Procs, t \in Threads : Acts(p, "wakeup") /\ Nudge(t) /\ UNCHANGED killed
    \/ MainWakes /\ MainGoesOn("ok")
    \/ DeadlockError /\ MainGoesOn("raise")
    \/ \E t \in Threads : /\ Dead(t) /\ Popped(sch, sch', t) /\ UNCHANGED <<stack, status, call, killed>>
                          /\ status[Current] # "woken"
    \/ \E t \in Threads : ResumeStep(t) \/ PassStep(t)
    \/ MainExits
    \/ UNCHANGED <<sch, stack, status, call, killed>>

InlineStep(p) ==
    /\ status[p] = "drive" /\ p = Last(stack)
    /\ UNCHANGED stack \/ \E t \in Threads : ResumeStep(t)

\* A step is plain, or the loop of an inline park takes it.
LEMMA PlainKinds ==
  ASSUME CoreInv, [Next]_vars
  PROVE  PlainStep \/ \E p \in Threads : InlineStep(p)
<1>1. SchedInv
  BY CoreSched
<1>2. ASSUME NEW p \in Procs, NEW t \in Threads, Spawn(p, t) \/ Kill(p, t) \/ Wakeup(p, t)
      PROVE  PlainStep
  <2>1. CASE Spawn(p, t)
    BY <2>1 DEF Spawn, Acts, PlainStep
  <2>2. CASE Kill(p, t)
    BY <1>1, <2>2, Nudges DEF PlainStep
  <2>3. CASE Wakeup(p, t)
    <3>1. Nudge(t) /\ UNCHANGED killed /\ Acts(p, "wakeup")
      BY <1>1, <2>3, Nudges DEF Wakeup
    <3> QED BY <3>1 DEF PlainStep
  <2> QED BY <1>2, <2>1, <2>2, <2>3
<1>3. ASSUME MainWakes \/ DeadlockError PROVE PlainStep
  BY <1>1, <1>3, MainGoes DEF PlainStep
<1>4. ASSUME ScheduleStep PROVE PlainStep
  <2>1. PICK t : IF Dead(t) THEN Popped(sch, sch', t) /\ UNCHANGED <<stack, status, call, killed>>
                 ELSE ResumeStep(t)
    BY <1>1, <1>4, Resumes
  <2>2. t \in Threads /\ status[Current] = "drive"
    BY <1>4, <2>1 DEF Popped, ResumeStep, ScheduleStep, Drives
  <2> QED BY <2>1, <2>2 DEF PlainStep
<1>5. ASSUME MainPass PROVE PlainStep
  <2>1. PICK t : IF Dead(t) THEN Popped(sch, sch', t) /\ UNCHANGED <<stack, status, call, killed>>
                 ELSE PassStep(t)
    BY <1>1, <1>5, Passes
  <2>2. t \in Threads /\ status[Current] = "run"
    BY <1>5, <2>1 DEF Popped, PassStep, MainPass, Acts
  <2> QED BY <2>1, <2>2 DEF PlainStep
<1>6. ASSUME NEW p \in Threads,
             \/ InlineWakes(p) \/ InlineDropsDead(p) \/ InlineRotates(p) \/ InlineError(p)
      PROVE  InlineStep(p)
  BY <1>6 DEF InlineWakes, InlineDropsDead, InlineRotates, InlineError, InlineHead, Drives, Current,
     Poll, InlineStep
<1>7. ASSUME NEW p \in Threads, InlineRuns(p) PROVE InlineStep(p)
  <2>1. PICK t : ResumeStep(t)
    BY <1>1, <1>7, Resumes
  <2>2. t \in Threads
    BY <2>1 DEF ResumeStep
  <2> QED BY <1>7, <2>1, <2>2 DEF InlineRuns, InlineHead, Drives, Current, InlineStep
<1>8. ASSUME NEW t \in Threads, Finish(t) PROVE PlainStep
  <2>1. /\ status[Current] = "run" /\ Ends(t) /\ UNCHANGED <<call, killed>>
        /\ status[t] = "run" /\ t = Last(stack) /\ stack' = Front(stack)
    BY <1>8 DEF Finish, Current
  <2> QED BY <2>1 DEF PlainStep
<1>9. ASSUME MainExits \/ UNCHANGED <<sch, stack, status, call, killed>> PROVE PlainStep
  BY <1>9 DEF PlainStep
<1>10. ASSUME OtherStep PROVE PlainStep \/ \E p \in Threads : InlineStep(p)
  BY <1>2, <1>3, <1>4, <1>5, <1>6, <1>7, <1>8, <1>9, <1>10 DEF OtherStep
<1>11. ASSUME RouseStep \/ \E p \in Procs : ParkStep(p) \/ ReturnStep(p) PROVE PlainStep
  BY <1>11 DEF PlainStep
<1> QED BY <1>10, <1>11, StepKinds

\* A loop resumes a fiber only when it is fresh or suspended at a park point,
\* never one that drives a loop lower on the stack and never one that is done.
THEOREM ResumesAreSafe == Spec => ResumesOnlySuspended
<1> DEFINE A == Len(stack') > Len(stack) => status[Last(stack')] \in {"fresh", "parked"}
<1>1. ASSUME Inv, [Next]_vars PROVE A
  <2>1. stack \in Seq(Procs) /\ status \in [Procs -> Statuses] /\ StackInv(stack, status)
        /\ stack # <<>> /\ Len(stack) \in Nat
    BY <1>1, CoreSched DEF Inv, SchedInv, SchedOK, StackInv
  <2>2. ASSUME UNCHANGED stack PROVE A
    BY <2>1, <2>2
  <2>3. ASSUME stack' = Front(stack) PROVE A
    BY <2>1, <2>3 DEF Front
  <2>4. ASSUME NEW t \in Threads, ResumeStep(t) \/ PassStep(t) PROVE A
    <3>1. t \in Procs /\ stack' = Append(stack, t) /\ status[t] \in {"fresh", "parked"}
      BY <2>4 DEF ResumeStep, PassStep, Procs
    <3>2. Last(stack') = t
      BY <2>1, <3>1 DEF Last
    <3> QED BY <3>1, <3>2
  <2>5. ASSUME NEW p \in Procs, ParkStep(p) \/ ReturnStep(p) PROVE A
    <3>1. UNCHANGED stack \/ stack' = Front(stack)
      BY <2>5 DEF ParkStep, ReturnStep
    <3> QED BY <2>2, <2>3, <3>1
  <2>6. ASSUME PlainStep PROVE A
    <3>1. \/ UNCHANGED stack \/ stack' = Front(stack)
          \/ \E t \in Threads : ResumeStep(t) \/ PassStep(t)
          \/ \E p \in Procs : ParkStep(p) \/ ReturnStep(p)
      BY <2>6 DEF PlainStep, RouseStep, Nudge, MainGoesOn, MainExits
    <3> QED BY <2>2, <2>3, <2>4, <2>5, <3>1
  <2>7. ASSUME NEW p \in Threads, InlineStep(p) PROVE A
    BY <2>2, <2>4, <2>7 DEF InlineStep
  <2> QED BY <1>1, <2>6, <2>7, PlainKinds DEF Inv
<1> QED BY <1>1, ThreadsInvariant, PTL DEF Spec, ResumesOnlySuspended

-----------------------------------------------------------------------------
(* Without inline parks the tables are exact.                              *)

\* The tokens of MAIN do not matter.
LEMMA TokenExact ==
  ASSUME NEW s \in Sch, NEW r, NEW st, Tokens(s, r), Exact(s, st)
  PROVE  Exact(r, st)
BY DEF Tokens, Exact, Queued

\* No step makes an inline park of a thread.
LEMMA StepKeepsOutline ==
  ASSUME CoreInv, TRUE \notin Inline, NoInline, PlainStep
  PROVE  NoInline'
<1>1. call \in [Procs -> Calls] /\ Threads \subseteq Procs /\ Main \in Procs /\ Main \notin Threads
      /\ ~call[Main].inl
  BY ObjectAssumption DEF CoreInv, TypeOK, CoreTypeOK, Procs
<1>2. ASSUME UNCHANGED call PROVE NoInline'
  BY <1>2 DEF NoInline
<1>3. ASSUME NEW p \in Procs, NEW c, ~c.inl, call' = [call EXCEPT ![p] = c] PROVE NoInline'
  BY <1>1, <1>3 DEF NoInline
<1>4. ASSUME NEW p \in Procs, NEW res, Wakes(p, res) PROVE NoInline'
  <2>1. PICK c : c = Ended(call[p], res)
    OBVIOUS
  <2>2. call' = [call EXCEPT ![p] = c] /\ c.inl = call[p].inl
    BY <1>4, <2>1 DEF Wakes, Ended
  <2>3. ~call[p].inl
    BY <1>1 DEF NoInline, Procs
  <2> QED BY <1>3, <2>2, <2>3
<1>5. ASSUME NEW p \in Procs, ParkStep(p) PROVE NoInline'
  <2>1. PICK c : CallOK(p, c) /\ call' = [call EXCEPT ![p] = c]
    BY <1>5 DEF ParkStep
  <2>2. ~call[p].inl
    BY <1>1 DEF NoInline, Procs
  <2>3. ~c.inl
    BY <2>1, <2>2 DEF CallOK
  <2> QED BY <1>3, <2>1, <2>3
<1>6. ASSUME NEW p \in Procs, ReturnStep(p) PROVE NoInline'
  BY <1>3, <1>6, EndedOK DEF ReturnStep
<1>7. ASSUME NEW t \in Threads, PassStep(t) PROVE NoInline'
  <2>1. PICK res \in Outcomes :
         call' = [call EXCEPT ![t] = Ended(call[t], res),
                              ![Main] = Calling("pass", None, None, FALSE, FALSE, "ok")]
    BY <1>7 DEF PassStep
  <2>2. PICK c, m : c = Ended(call[t], res) /\ m = Calling("pass", None, None, FALSE, FALSE, "ok")
    OBVIOUS
  <2>3. c.inl = call[t].inl
    BY <2>2 DEF Ended
  <2>4. call' = [call EXCEPT ![t] = c, ![Main] = m]
    BY <2>1, <2>2
  <2> QED BY <1>1, <2>3, <2>4 DEF NoInline
<1>8. ASSUME NEW t \in Threads, ResumeStep(t) PROVE NoInline'
  BY <1>1, <1>4, <1>8 DEF ResumeStep
<1>9. ASSUME MainGoesOn("ok") \/ MainGoesOn("raise") PROVE NoInline'
  BY <1>1, <1>4, <1>9 DEF MainGoesOn
<1> QED BY <1>2, <1>5, <1>6, <1>7, <1>8, <1>9 DEF PlainStep, RouseStep, Nudge, MainExits

\* Plain steps keep the tables exact.
LEMMA StepKeepsExact ==
  ASSUME CoreInv, TRUE \notin Inline, NoInline, Exact(sch, status), PlainStep
  PROVE  Exact(sch', status')
<1>1. /\ SchedInv /\ sch \in Sch /\ status \in [Procs -> Statuses] /\ stack \in Seq(Procs)
      /\ TabInv(sch, status, killed) /\ call \in [Procs -> Calls]
      /\ Main \in Procs /\ Threads \subseteq Procs /\ Main \notin Threads /\ ~call[Main].inl
  BY CoreSched, ObjectAssumption DEF SchedInv, SchedOK, Procs
<1>2. ASSUME NEW t \in Threads, status[t] # "parked"
      PROVE  ~Parked(sch, t) /\ (Queued(sch, t) => status[t] \in {"fresh", "dead"})
  BY <1>2 DEF Exact, Parked
<1>3. \A t \in Rousable(sch) : status[t] = "parked"
  BY DEF Rousable, Exact, Kinds
<1>4. ASSUME RouseStep PROVE Exact(sch', status')
  <2>1. PICK W : Woke(sch, sch', W) /\ W \subseteq Rousable(sch)
    BY <1>4 DEF RouseStep
  <2>2. Exact(sch', status)
    BY <1>1, <1>3, <2>1, WokeExact
  <2> QED BY <1>4, <2>2 DEF RouseStep
<1>5. ASSUME NEW p \in Procs, ParkStep(p) PROVE Exact(sch', status')
  <2>1. p \in Procs /\ status[p] \in {"run", "woken"}
    BY <1>5 DEF ParkStep, Runs
  <2>2. PICK s, W, c :
         /\ s \in Sch /\ Woke(sch, s, W) /\ W \subseteq Rousable(sch)
         /\ Parks(s, sch', p) /\ CallOK(p, c)
         /\ p \in Threads => Anchored(sch', p) /\ Quiet(s, sch', p, c)
         /\ IF p = Main \/ c.inl
            THEN status' = [status EXCEPT ![p] = "drive"] /\ UNCHANGED stack
            ELSE status' = [status EXCEPT ![p] = "parked"] /\ stack' = Front(stack)
    BY <1>5 DEF ParkStep
  <2>3. ~c.inl
    BY <1>1, <2>2 DEF CallOK, NoInline, Procs
  <2>4. PICK x : status' = [status EXCEPT ![p] = x] /\ (p \in Threads => x = "parked")
    BY <1>1, <2>2, <2>3
  <2>5. Exact(s, status)
    BY <1>1, <1>3, <2>2, WokeExact
  <2>6. p \in Threads => (Queued(sch', p) => ~Parked(sch', p))
    BY <2>1, <2>2, <2>5 DEF Quiet, Exact, Parked
  <2>7. PICK r, st : r = sch' /\ st = status'
    OBVIOUS
  <2>8. Exact(r, st)
    BY <1>1, <2>1, <2>2, <2>4, <2>5, <2>6, <2>7, ParkExact
  <2> QED BY <2>7, <2>8
<1>6. ASSUME NEW p \in Procs, ReturnStep(p) PROVE Exact(sch', status')
  <2>1. status[p] \in {"run", "woken"} /\ status' = [status EXCEPT ![p] = "run"] /\ sch' = sch
    BY <1>6 DEF ReturnStep, Runs
  <2>2. p \in Threads => ~Parked(sch, p) /\ ~Queued(sch, p)
    BY <1>2, <2>1
  <2>3. PICK st : st = status'
    OBVIOUS
  <2>4. Exact(sch, st)
    BY <1>1, <2>1, <2>2, <2>3, StatusExact
  <2> QED BY <2>1, <2>3, <2>4
<1>7. ASSUME NEW t \in Threads, status[t] = "unborn", status' = [status EXCEPT ![t] = "fresh"],
             sch' = Enqueue(sch, t)
      PROVE  Exact(sch', status')
  <2>1. ~Parked(sch, t) /\ ~Queued(sch, t)
    BY <1>2, <1>7
  <2>2. PICK st : st = status'
    OBVIOUS
  <2>3. Exact(sch, st) /\ st[t] = "fresh"
    BY <1>1, <1>7, <2>1, <2>2, StatusExact
  <2> QED BY <1>1, <1>7, <2>1, <2>2, <2>3, EnqueueExact
<1>8. ASSUME NEW t \in Threads, Ends(t), status[t] \in {"fresh", "run"} PROVE Exact(sch', status')
  <2>1. status' = [status EXCEPT ![t] = "dead"] /\ sch' = WakeAll(sch, t)
    BY <1>8 DEF Ends, FinishThread
  <2>2. Woke(sch, sch', Living(sch, t)) /\ sch' \in Sch
    BY <1>1, <2>1, JoinersBorn
  <2>3. \A x \in Living(sch, t) : status[x] = "parked"
    BY DEF Living, Exact, Lists
  <2>4. PICK r, st : r = sch' /\ st = status'
    OBVIOUS
  <2>5. Exact(r, status) /\ r \in Sch
    BY <1>1, <2>2, <2>3, <2>4, WokeExact
  <2>6. ~Parked(r, t)
    BY <1>8, <2>5 DEF Exact, Parked
  <2>7. Exact(r, st)
    BY <1>1, <1>8, <2>1, <2>4, <2>5, <2>6, StatusExact
  <2> QED BY <2>4, <2>7
<1>9. ASSUME NEW t \in Threads, Nudge(t) PROVE Exact(sch', status')
  <2>1. Woke(sch, sch', {t}) /\ status[t] = "parked" /\ status' = status
    BY <1>9 DEF Nudge, Exact
  <2>2. Exact(sch', status)
    BY <1>1, <2>1, WokeExact
  <2> QED BY <2>1, <2>2
<1>10. ASSUME NEW res, MainGoesOn(res) PROVE Exact(sch', status')
  <2>1. Tokens(sch, sch') /\ status' = [status EXCEPT ![Main] = "woken"]
    BY <1>10 DEF MainGoesOn, Wakes
  <2>2. PICK r, st : r = sch' /\ st = status'
    OBVIOUS
  <2>3. Exact(r, status) /\ r \in Sch
    BY <1>1, <2>1, <2>2, TokenExact DEF Tokens
  <2>4. Exact(r, st)
    BY <1>1, <2>1, <2>2, <2>3, StatusExact
  <2> QED BY <2>2, <2>4
<1>11. ASSUME NEW t \in Threads, Popped(sch, sch', t), UNCHANGED status PROVE Exact(sch', status')
  <2>1. Exact(sch', status)
    BY <1>1, <1>11, PoppedExact
  <2> QED BY <1>11, <2>1
<1>12. ASSUME NEW t \in Threads, ResumeStep(t) \/ PassStep(t) PROVE Exact(sch', status')
  <2>1. Popped(sch, sch', t)
    BY <1>12 DEF ResumeStep, PassStep
  <2>2. PICK r, st : r = sch' /\ st = status'
    OBVIOUS
  <2>3. Exact(r, status) /\ ~Queued(r, t) /\ ~Parked(r, t) /\ r \in Sch
    BY <1>1, <2>1, <2>2, PoppedExact DEF Popped
  <2>4. PICK su : su = [status EXCEPT ![t] = "woken"]
    OBVIOUS
  <2>5. su \in [Procs -> Statuses] /\ Exact(r, su)
    BY <1>1, <2>3, <2>4, StatusExact DEF Statuses
  <2>6. st = su \/ st = [su EXCEPT ![Main] = "drive"]
    BY <1>1, <1>12, <2>2, <2>4 DEF ResumeStep, PassStep, Wakes
  <2>7. Exact(r, st)
    BY <1>1, <2>3, <2>5, <2>6, StatusExact
  <2> QED BY <2>2, <2>7
<1>13. ASSUME MainExits PROVE Exact(sch', status')
  <2>1. sch' = sch /\ status' = [status EXCEPT ![Main] = "dead"]
    BY <1>13 DEF MainExits
  <2>2. PICK st : st = status'
    OBVIOUS
  <2>3. Exact(sch, st)
    BY <1>1, <2>1, <2>2, StatusExact
  <2> QED BY <2>1, <2>2, <2>3
<1>14. ASSUME UNCHANGED <<sch, status>> PROVE Exact(sch', status')
  BY <1>14
<1> QED BY <1>4, <1>5, <1>6, <1>7, <1>8, <1>9, <1>10, <1>11, <1>12, <1>13, <1>14 DEF PlainStep

\* Then no thread drives a loop.
LEMMA ExactIsPlain ==
  ASSUME CoreInv, Exact(sch, status), [Next]_vars
  PROVE  PlainStep
<1>1. ASSUME NEW p \in Threads, InlineStep(p) PROVE FALSE
  BY <1>1 DEF InlineStep, Exact
<1> QED BY <1>1, PlainKinds

\* While MAIN has just been woken it is the one that executes.
LEMMA MainWokenIsLast ==
  ASSUME CoreInv, status[Main] = "woken"
  PROVE  Main = Last(stack)
<1>1. stack \in Seq(Procs) /\ StackInv(stack, status)
  BY DEF CoreInv, TypeOK, CoreTypeOK
<1>2. Len(stack) \in Nat /\ Len(stack) >= 1 /\ stack[1] = Main
  BY <1>1 DEF StackInv
<1>3. Len(stack) = 1
  <2>1. ASSUME Len(stack) # 1 PROVE FALSE
    <3>1. 1 \in 1..(Len(stack) - 1)
      BY <1>2, <2>1
    <3>2. \A i \in 1..(Len(stack) - 1) : status[stack[i]] = "drive"
      BY <1>1 DEF StackInv
    <3> QED BY <1>2, <3>1, <3>2
  <2> QED BY <2>1
<1> QED BY <1>2, <1>3 DEF Last

\* Plain steps keep the meaning of a raised ThreadError.
LEMMA StepKeepsDeadlock ==
  ASSUME CoreInv, Exact(sch, status), DeadlockIsReal, PlainStep
  PROVE  DeadlockIsReal'
<1>1. /\ SchedInv /\ sch \in Sch /\ status \in [Procs -> Statuses] /\ call \in [Procs -> Calls]
      /\ TabInv(sch, status, killed)
      /\ Main \in Procs /\ Threads \subseteq Procs /\ Main \notin Threads
  BY CoreSched, ObjectAssumption DEF SchedInv, SchedOK, Procs
<1>2. ASSUME DeadlockError, MainGoesOn("raise") PROVE DeadlockIsReal'
  <2>1. /\ sch'.runq = <<>> /\ sch'.nap = sch.nap /\ sch'.park = sch.park
        /\ sch.fds = {} /\ \A t \in Threads : <<t, "timed">> \notin sch.sleepers
    BY <1>2 DEF DeadlockError, MainGoesOn, Tokens, PollWouldRaise, PollFds, TimedSleepers
  <2>2. \A t \in Threads : sch.nap[t] # "timed" /\ sch.park[t] \notin Fds
    <3> TAKE t \in Threads
    <3>1. CASE status[t] = "dead"
      BY <3>1, ObjectAssumption DEF Exact
    <3>2. CASE status[t] # "dead"
      <4>1. LinkedAt(sch, t)
        BY <1>1, <3>2 DEF TabInv, Linked
      <4> QED BY <2>1, <4>1, ObjectAssumption DEF LinkedAt
    <3> QED BY <3>1, <3>2
  <2>3. \A t \in Threads : ~Queued(sch', t)
    BY <2>1 DEF Queued, Contains
  <2> QED BY <2>1, <2>2, <2>3 DEF DeadlockIsReal
<1>3. ASSUME status'[Main] # "woken" PROVE DeadlockIsReal'
  BY <1>3 DEF DeadlockIsReal
<1>4. ASSUME call'[Main].res = "ok" PROVE DeadlockIsReal'
  BY <1>4 DEF DeadlockIsReal
<1>5. ASSUME status[Main] # "woken", UNCHANGED status PROVE DeadlockIsReal'
  BY <1>3, <1>5
<1>6. ASSUME NEW p \in Procs, ParkStep(p) \/ ReturnStep(p) PROVE DeadlockIsReal'
  <2>1. p = Last(stack) /\ \E x \in {"run", "drive", "parked"} : status' = [status EXCEPT ![p] = x]
    BY <1>6 DEF ParkStep, ReturnStep, Runs, Current
  <2>2. CASE status[Main] = "woken"
    <3>1. p = Main
      BY <2>1, <2>2, MainWokenIsLast
    <3> QED BY <1>1, <1>3, <2>1, <3>1
  <2>3. CASE status[Main] # "woken"
    BY <1>1, <1>3, <2>1, <2>3
  <2> QED BY <2>2, <2>3
<1>7. ASSUME MainGoesOn("ok") PROVE DeadlockIsReal'
  <2>1. call' = [call EXCEPT ![Main] = Ended(call[Main], "ok")]
    BY <1>7 DEF MainGoesOn, Wakes
  <2>2. call'[Main].res = "ok"
    BY <1>1, <2>1, EndedOK DEF Outcomes
  <2> QED BY <1>4, <2>2
<1>8. ASSUME status[Current] \in {"run", "drive"} PROVE status[Main] # "woken"
  BY <1>8, MainWokenIsLast DEF Current
<1>9. ASSUME NEW t \in Threads, NEW x, status' = [status EXCEPT ![t] = x], status[Main] # "woken"
      PROVE  DeadlockIsReal'
  BY <1>1, <1>3, <1>9
<1>10. ASSUME NEW t \in Threads, ResumeStep(t) PROVE DeadlockIsReal'
  <2>1. status[Current] = "drive" /\ status' = [status EXCEPT ![t] = "woken"]
    BY <1>10 DEF ResumeStep, Wakes, Current
  <2> QED BY <1>8, <1>9, <2>1
<1>11. ASSUME NEW t \in Threads, PassStep(t) PROVE DeadlockIsReal'
  BY <1>1, <1>3, <1>11 DEF PassStep
<1>12. ASSUME RouseStep PROVE DeadlockIsReal'
  BY <1>5, <1>12, MainWokenIsLast DEF RouseStep, Current
<1>13. ASSUME MainExits PROVE DeadlockIsReal'
  BY <1>1, <1>3, <1>13 DEF MainExits
<1>14. ASSUME UNCHANGED <<sch, status, call>> PROVE DeadlockIsReal'
  BY <1>14 DEF DeadlockIsReal, Queued
<1>15. ASSUME NEW t \in Threads, Nudge(t) PROVE DeadlockIsReal'
  BY <1>5, <1>8, <1>15 DEF Nudge
<1>16. ASSUME status[Current] # "woken", UNCHANGED status PROVE DeadlockIsReal'
  BY <1>5, <1>16, MainWokenIsLast DEF Current
<1>17. ASSUME NEW t \in Threads, status[Current] = "run",
              Ends(t) \/ status' = [status EXCEPT ![t] = "fresh"]
       PROVE  DeadlockIsReal'
  BY <1>8, <1>9, <1>17 DEF Ends
<1> QED BY <1>2, <1>6, <1>7, <1>10, <1>11, <1>12, <1>13, <1>14, <1>15, <1>16, <1>17 DEF PlainStep

\* The tables of a program without inline parks are exact, and MAIN is told of
\* a deadlock only when there is one.
LEMMA ExactInvariant ==
  ASSUME TRUE \notin Inline
  PROVE  Spec => []ExactInv
<1>1. ASSUME Init PROVE ExactInv
  <2>1. Main \in Procs /\ Main \notin Threads /\ Threads \subseteq Procs
    BY ObjectAssumption DEF Procs
  <2>2. \A t \in Threads : ~Queued(sch, t) /\ sch.park[t] = None /\ sch.nap[t] = "no"
    BY <1>1 DEF Init, CoreInit, Queued, Contains
  <2>3. (\A l \in Lists, t \in Threads : ~Contains(sch.waiters[l], t)) /\ sch.sleepers = {}
    BY <1>1 DEF Init, CoreInit, Contains
  <2>4. \A t \in Threads : status[t] = "unborn"
    BY <1>1, <2>1 DEF Init, CoreInit
  <2>5. sch.runq = <<>> /\ status[Main] = "run"
    BY <1>1, <2>1 DEF Init, CoreInit
  <2>6. Exact(sch, status)
    BY <2>2, <2>3, <2>4, <2>5 DEF Exact
  <2>7. NoInline
    BY <1>1, <2>1 DEF Init, CoreInit, NoInline, Idle, Calling
  <2> QED BY <2>5, <2>6, <2>7 DEF ExactInv, DeadlockIsReal
<1>2. ASSUME Inv, ExactInv, [Next]_vars PROVE ExactInv'
  <2>1. PlainStep
    BY <1>2, ExactIsPlain DEF Inv, ExactInv
  <2>2. Exact(sch', status') /\ NoInline' /\ DeadlockIsReal'
    BY <1>2, <2>1, StepKeepsOutline, StepKeepsExact, StepKeepsDeadlock DEF Inv, ExactInv
  <2> QED BY <2>2 DEF ExactInv
<1> QED BY <1>1, <1>2, ThreadsInvariant, PTL DEF Spec

\* "A thread is parked on exactly one waiter LIST and/or one timed SLEEPER
\* entry", for every program that parks in its fibers: no list and no sleeper
\* entry names a thread that is not parked there.
THEOREM ParksAreExact ==
  ASSUME TRUE \notin Inline
  PROVE  Spec => []ParkedOnOneList
<1>1. ASSUME ExactInv PROVE ParkedOnOneList
  <2>1. \A t \in Threads, l \in Lists :
          Contains(sch.waiters[l], t) => status[t] = "parked" /\ sch.park[t] = l
    BY <1>1 DEF ExactInv, Exact
  <2>2. \A t \in Threads, k \in {"timed", "forever"} :
          <<t, k>> \in sch.sleepers => status[t] = "parked" /\ sch.nap[t] = k
    BY <1>1 DEF ExactInv, Exact, Kinds
  <2> QED BY <2>1, <2>2 DEF ParkedOnOneList, Suspended
<1> QED BY <1>1, ExactInvariant, PTL

\* A thread is in the run queue at most once, and never while it executes.
THEOREM QueueIsExact ==
  ASSUME TRUE \notin Inline
  PROVE  Spec => []RunqExact
<1>1. ASSUME CoreInv, ExactInv PROVE RunqExact
  <2>1. sch.runq \in Seq(Threads)
    BY <1>1 DEF CoreInv, TypeOK, CoreTypeOK, Sch
  <2>2. DOMAIN sch.runq = 1..Len(sch.runq) /\ \A i \in DOMAIN sch.runq : sch.runq[i] \in Threads
    BY <2>1
  <2>3. \A i \in DOMAIN sch.runq : Queued(sch, sch.runq[i])
    BY <2>2 DEF Queued, Contains
  <2> QED BY <1>1, <2>2, <2>3 DEF ExactInv, Exact, RunqExact
<1>2. Inv => CoreInv
  BY DEF Inv
<1> QED BY <1>1, <1>2, ExactInvariant, ThreadsInvariant, PTL

\* The ThreadError "No live threads left. Deadlock?" reaches MAIN only when no
\* green thread is runnable, sleeps with a deadline or waits for a descriptor.
THEOREM ErrorsAreDeadlocks ==
  ASSUME TRUE \notin Inline
  PROVE  Spec => []DeadlockIsReal
<1>1. ExactInv => DeadlockIsReal
  BY DEF ExactInv
<1> QED BY <1>1, ExactInvariant, PTL

\* Of a program without descriptors, MAIN never blocks in poll(2) for ever: when
\* nobody can wake anybody, its scheduler step raises.
THEOREM DeadlocksAreDetected ==
  ASSUME TRUE \notin Inline, Fds = {}
  PROVE  Spec => []DeadlockIsDetected
<1>1. ASSUME CoreInv, ExactInv PROVE DeadlockIsDetected
  <2>1. sch.fds = {}
    BY <1>1 DEF CoreInv, TypeOK, CoreTypeOK, Sch
  <2>2. ASSUME NobodyWakes PROVE TimedSleepers(sch) = {}
    <3>1. \A t \in Threads : status[t] = "parked" => sch.nap[t] # "timed"
      BY <2>2 DEF NobodyWakes, Suspended
    <3> QED BY <1>1, <3>1 DEF TimedSleepers, ExactInv, Exact, Kinds
  <2> QED BY <2>1, <2>2 DEF DeadlockIsDetected, NobodyWakes, MainMayGiveUp, PollWouldRaise, PollFds
<1>2. Inv => CoreInv
  BY DEF Inv
<1> QED BY <1>1, <1>2, ExactInvariant, ThreadsInvariant, PTL

-----------------------------------------------------------------------------
(* Thread#join of a program without Thread#wakeup.                         *)

\* Call c is a Thread#join without a limit.
Joins(c) == c.op = "join" /\ ~c.timed

\* Thread t stays parked, and in a join it is queued only for a good reason.
StaysParked(t) ==
    /\ status[t] = "parked" /\ call'[t] = call[t]
    /\ sch'.park[t] \in {None, sch.park[t]} /\ sch'.nap[t] \in {"no", sch.nap[t]}
    /\ t \in killed => t \in killed'
    /\ Joins(call[t]) /\ Queued(sch', t) =>
         Queued(sch, t) \/ t \in killed' \/ status'[call[t].on] = "dead"

\* Thread t parks now.
GoesParked(t) ==
    Joins(call'[t]) => sch'.park[t] = call'[t].on /\ sch'.nap[t] = "no" /\ ~Queued(sch', t)

\* p stays woken, or its call ends now.
StaysWoken(p) == status[p] = "woken" /\ call'[p] = call[p]
GoesOn(p) == Joins(call'[p]) /\ call'[p].res = "ok" => status'[call'[p].on] = "dead"

\* Such steps keep the invariant of the joins.
LEMMA JoinsFollow ==
  ASSUME CoreInv, JoinInv,
         \A t \in Threads : status[t] = "dead" => status'[t] = "dead",
         \A t \in Threads : status'[t] = "parked" => StaysParked(t) \/ GoesParked(t),
         \A p \in Procs : status'[p] = "woken" => StaysWoken(p) \/ GoesOn(p)
  PROVE  JoinInv'
<1>1. \A p \in Procs : Joins(call[p]) => call[p].on \in Threads
  BY DEF CoreInv, TypeOK, CoreTypeOK, CallFits, Joins
<1>2. Threads \subseteq Procs
  BY DEF Procs
<1>3. ASSUME NEW t \in Threads, status'[t] = "parked", Joins(call'[t])
      PROVE  /\ sch'.park[t] \in {None, call'[t].on} /\ sch'.nap[t] = "no"
             /\ Queued(sch', t) => t \in killed' \/ status'[call'[t].on] = "dead"
  <2>1. CASE GoesParked(t)
    BY <1>3, <2>1 DEF GoesParked
  <2>2. CASE StaysParked(t)
    <3>1. /\ status[t] = "parked" /\ call'[t] = call[t] /\ Joins(call[t]) /\ call[t].on \in Threads
      BY <1>1, <1>2, <1>3, <2>2 DEF StaysParked
    <3>2. /\ sch.park[t] \in {None, call[t].on} /\ sch.nap[t] = "no"
          /\ Queued(sch, t) => t \in killed \/ status[call[t].on] = "dead"
      BY <3>1 DEF JoinInv, Joining, Joins
    <3> QED BY <2>2, <3>1, <3>2 DEF StaysParked
  <2> QED BY <1>3, <2>1, <2>2
<1>4. ASSUME NEW p \in Procs, status'[p] = "woken", Joins(call'[p]), call'[p].res = "ok"
      PROVE  status'[call'[p].on] = "dead"
  <2>1. CASE GoesOn(p)
    BY <1>4, <2>1 DEF GoesOn
  <2>2. CASE StaysWoken(p)
    <3>1. status[p] = "woken" /\ call'[p] = call[p] /\ Joins(call[p]) /\ call[p].on \in Threads
      BY <1>1, <1>4, <2>2 DEF StaysWoken
    <3>2. status[call[p].on] = "dead"
      BY <1>4, <3>1 DEF JoinInv, JoinMeansDone, Joins, Dead
    <3> QED BY <3>1, <3>2
  <2> QED BY <1>4, <2>1, <2>2
<1>5. Joining(sch, status, call, killed)'
  BY <1>3 DEF Joining, Joins
<1>6. JoinMeansDone'
  BY <1>4 DEF JoinMeansDone, Joins, Dead
<1> QED BY <1>5, <1>6 DEF JoinInv

\* Neither poll nor an object wakes a thread that joins without a limit.
LEMMA JoinersAreDeaf ==
  ASSUME CoreInv, JoinInv, Exact(sch, status), NEW t \in Threads, status[t] = "parked", Joins(call[t])
  PROVE  t \notin Rousable(sch)
<1>1. call[t].on \in Threads /\ None \notin Lists
  BY ObjectAssumption DEF CoreInv, TypeOK, CoreTypeOK, CallFits, Joins, Procs, Lists
<1>2. sch.park[t] \in {None, call[t].on} /\ sch.nap[t] = "no"
  BY DEF JoinInv, Joining, Joins
<1>3. ASSUME NEW l \in Lists \ Threads, Contains(sch.waiters[l], t) PROVE FALSE
  BY <1>1, <1>2, <1>3 DEF Exact
<1>4. <<t, "timed">> \notin sch.sleepers
  BY <1>2 DEF Exact, Kinds
<1> QED BY <1>3, <1>4 DEF Rousable

\* A wake of threads that do not join leaves a parked thread parked.
LEMMA WokeStaysParked ==
  ASSUME NEW s \in Sch, NEW r, NEW W, Woke(s, r, W), NEW t \in Threads
  PROVE  /\ r.park[t] \in {None, s.park[t]} /\ r.nap[t] \in {"no", s.nap[t]}
         /\ Queued(r, t) => Queued(s, t) \/ t \in W
BY DEF Woke

\* Plain steps, none of them a wakeup, keep the invariant of the joins.
LEMMA StepKeepsJoins ==
  ASSUME CoreInv, CallsIdle(status, call), JoinInv, Exact(sch, status), TRUE \notin Inline, NoInline,
         "wakeup" \notin MainOps \cup ThreadOps, PlainStep
  PROVE  JoinInv'
<1>1. /\ SchedInv /\ sch \in Sch /\ status \in [Procs -> Statuses] /\ call \in [Procs -> Calls]
      /\ Main \in Procs /\ Threads \subseteq Procs /\ Main \notin Threads
      /\ \A p \in Procs : Joins(call[p]) => call[p].on \in Threads
  BY CoreSched, ObjectAssumption DEF SchedInv, SchedOK, Procs, CallFits, Joins
<1>2. \A t \in Rousable(sch) : status[t] = "parked"
  BY DEF Rousable, Exact, Kinds
<1>3. \A t \in Threads : status[t] = "parked" /\ Joins(call[t]) => t \notin Rousable(sch)
  BY JoinersAreDeaf
<1>4. ASSUME UNCHANGED <<status, call>>, \A t \in Threads : status[t] = "parked" => StaysParked(t)
      PROVE  JoinInv'
  BY <1>4, JoinsFollow DEF StaysWoken
<1>5. ASSUME RouseStep PROVE JoinInv'
  <2>1. PICK W : Woke(sch, sch', W) /\ W \subseteq Rousable(sch)
    BY <1>5 DEF RouseStep
  <2>2. ASSUME NEW t \in Threads, status[t] = "parked" PROVE StaysParked(t)
    <3>1. /\ sch'.park[t] \in {None, sch.park[t]} /\ sch'.nap[t] \in {"no", sch.nap[t]}
          /\ Queued(sch', t) => Queued(sch, t) \/ t \in W
      BY <1>1, <2>1, WokeStaysParked
    <3> QED BY <1>3, <1>5, <2>1, <2>2, <3>1 DEF RouseStep, StaysParked
  <2> QED BY <1>4, <1>5, <2>2 DEF RouseStep
<1>6. ASSUME NEW p \in Procs, ParkStep(p) PROVE JoinInv'
  <2>1. p \in Procs /\ status[p] \in {"run", "woken"} /\ UNCHANGED killed
    BY <1>6 DEF ParkStep, Runs
  <2>2. PICK s, W, c :
         /\ s \in Sch /\ Woke(sch, s, W) /\ W \subseteq Rousable(sch)
         /\ Parks(s, sch', p) /\ CallOK(p, c)
         /\ p \in Threads => Anchored(sch', p) /\ Quiet(s, sch', p, c)
         /\ call' = [call EXCEPT ![p] = c]
         /\ \E x \in {"parked", "drive"} : status' = [status EXCEPT ![p] = x]
    BY <1>6 DEF ParkStep
  <2>3. PICK x \in {"parked", "drive"} : status' = [status EXCEPT ![p] = x]
    BY <2>2
  <2>4. \A q \in Procs \ {p} : status'[q] = status[q] /\ call'[q] = call[q]
    BY <1>1, <2>2, <2>3
  <2>5. status'[p] = x /\ call'[p] = c
    BY <1>1, <2>1, <2>2, <2>3
  <2>6. ASSUME NEW t \in Threads, t # p, status'[t] = "parked" PROVE StaysParked(t)
    <3>1. status[t] = "parked" /\ call'[t] = call[t]
      BY <1>1, <2>4, <2>6
    <3>2. /\ s.park[t] \in {None, sch.park[t]} /\ s.nap[t] \in {"no", sch.nap[t]}
          /\ Queued(s, t) => Queued(sch, t) \/ t \in W
      BY <1>1, <2>2, WokeStaysParked
    <3>3. (Queued(sch', t) <=> Queued(s, t)) /\ sch'.park[t] = s.park[t] /\ sch'.nap[t] = s.nap[t]
      BY <2>2, <2>6 DEF Parks
    <3>4. Joins(call[t]) => t \notin W
      BY <1>3, <2>2, <3>1
    <3> QED BY <2>1, <3>1, <3>2, <3>3, <3>4 DEF StaysParked
  <2>7. ASSUME p \in Threads PROVE GoesParked(p)
    <3>1. ~Queued(sch, p) /\ p \notin W
      BY <1>2, <2>1, <2>2, <2>7 DEF Exact
    <3>2. ~Queued(s, p)
      BY <2>2, <2>7, <3>1 DEF Woke
    <3> QED BY <2>2, <2>5, <2>7, <3>2 DEF Quiet, GoesParked, Joins
  <2>8. \A q \in Procs : status'[q] = "woken" => StaysWoken(q)
    BY <2>4, <2>5 DEF StaysWoken
  <2>9. \A t \in Threads : status[t] = "dead" => status'[t] = "dead"
    BY <1>1, <2>1, <2>4
  <2> QED BY <2>6, <2>7, <2>8, <2>9, JoinsFollow
<1>7. ASSUME NEW p \in Procs, NEW x, status[p] # "dead", x \notin {"woken", "parked"},
             status' = [status EXCEPT ![p] = x], \A q \in Procs \ {p} : call'[q] = call[q],
             \A t \in Threads \ {p} : status[t] = "parked" => StaysParked(t)
      PROVE  JoinInv'
  <2>1. status'[p] = x /\ \A q \in Procs \ {p} : status'[q] = status[q]
    BY <1>1, <1>7
  <2>2. \A t \in Threads : status'[t] = "parked" => StaysParked(t)
    BY <1>1, <1>7, <2>1
  <2>3. \A q \in Procs : status'[q] = "woken" => StaysWoken(q)
    BY <1>7, <2>1 DEF StaysWoken
  <2>4. \A t \in Threads : status[t] = "dead" => status'[t] = "dead"
    BY <1>1, <1>7, <2>1
  <2> QED BY <2>2, <2>3, <2>4, JoinsFollow
<1>8. ASSUME NEW p \in Procs, ReturnStep(p) PROVE JoinInv'
  <2>1. status[p] \in {"run", "woken"} /\ status' = [status EXCEPT ![p] = "run"]
        /\ call' = [call EXCEPT ![p] = Idle] /\ sch' = sch /\ killed' = killed
    BY <1>8 DEF ReturnStep, Runs
  <2>2. \A q \in Procs \ {p} : call'[q] = call[q]
    BY <1>1, <2>1
  <2>3. \A t \in Threads \ {p} : status[t] = "parked" => StaysParked(t)
    BY <1>1, <2>1, <2>2 DEF StaysParked, Queued
  <2> QED BY <1>7, <2>1, <2>2, <2>3
<1>9. ASSUME NEW t \in Threads, status[t] = "unborn", status' = [status EXCEPT ![t] = "fresh"],
             sch' = Enqueue(sch, t), UNCHANGED <<call, killed>>
      PROVE  JoinInv'
  <2>1. /\ \A x : Queued(sch', x) <=> Queued(sch, x) \/ x = t
        /\ sch'.park = sch.park /\ sch'.nap = sch.nap
    BY <1>1, <1>9, EnqueueFacts
  <2>2. \A u \in Threads \ {t} : status[u] = "parked" => StaysParked(u)
    BY <1>9, <2>1 DEF StaysParked
  <2> QED BY <1>1, <1>7, <1>9, <2>2
<1>10. ASSUME NEW t \in Threads, Ends(t), status[t] \in {"fresh", "run"}, UNCHANGED <<call, killed>>
       PROVE  JoinInv'
  <2>1. status' = [status EXCEPT ![t] = "dead"] /\ sch' = WakeAll(sch, t)
    BY <1>10 DEF Ends, FinishThread
  <2>2. Woke(sch, sch', Living(sch, t)) /\ status'[t] = "dead"
    BY <1>1, <2>1, JoinersBorn
  <2>3. ASSUME NEW u \in Threads \ {t}, status[u] = "parked" PROVE StaysParked(u)
    <3>1. /\ sch'.park[u] \in {None, sch.park[u]} /\ sch'.nap[u] \in {"no", sch.nap[u]}
          /\ Queued(sch', u) => Queued(sch, u) \/ u \in Living(sch, t)
      BY <1>1, <2>2, WokeStaysParked
    <3>2. ASSUME u \in Living(sch, t), Joins(call[u]) PROVE call[u].on = t
      <4>1. sch.park[u] = t
        BY <3>2 DEF Living, Exact, Lists
      <4>2. sch.park[u] \in {None, call[u].on}
        BY <2>3, <3>2 DEF JoinInv, Joining, Joins
      <4> QED BY <4>1, <4>2, ObjectAssumption
    <3> QED BY <1>10, <2>2, <2>3, <3>1, <3>2 DEF StaysParked
  <2> QED BY <1>1, <1>7, <1>10, <2>1, <2>3
<1>11. ASSUME NEW t \in Threads, Nudge(t), killed' = killed \cup {t} PROVE JoinInv'
  <2>1. Woke(sch, sch', {t}) /\ UNCHANGED <<status, call>>
    BY <1>11 DEF Nudge
  <2>2. ASSUME NEW u \in Threads, status[u] = "parked" PROVE StaysParked(u)
    <3>1. /\ sch'.park[u] \in {None, sch.park[u]} /\ sch'.nap[u] \in {"no", sch.nap[u]}
          /\ Queued(sch', u) => Queued(sch, u) \/ u \in {t}
      BY <1>1, <2>1, WokeStaysParked
    <3> QED BY <1>11, <2>1, <2>2, <3>1 DEF StaysParked
  <2> QED BY <1>4, <2>1, <2>2
<1>12. ASSUME NEW p \in Procs, Acts(p, "wakeup") PROVE FALSE
  BY <1>12 DEF Acts
<1>13. ASSUME NEW res \in {"ok", "raise"}, MainGoesOn(res),
              res = "ok" /\ Joins(call[Main]) => Dead(call[Main].on)
       PROVE  JoinInv'
  <2>1. Tokens(sch, sch') /\ status' = [status EXCEPT ![Main] = "woken"] /\ killed' = killed
        /\ call' = [call EXCEPT ![Main] = Ended(call[Main], res)] /\ status[Main] = "drive"
    BY <1>13 DEF MainGoesOn, Wakes, Drives
  <2>2. PICK c : c = Ended(call[Main], res)
    OBVIOUS
  <2>3. c.op = call[Main].op /\ c.on = call[Main].on /\ c.timed = call[Main].timed /\ c.res = res
    BY <2>2 DEF Ended
  <2>4. /\ \A q \in Procs \ {Main} : status'[q] = status[q] /\ call'[q] = call[q]
        /\ status'[Main] = "woken" /\ call'[Main] = c
    BY <1>1, <2>1, <2>2
  <2>5. \A t \in Threads : status'[t] = "parked" => StaysParked(t)
    BY <1>1, <2>1, <2>4 DEF StaysParked, Tokens, Queued
  <2>6. GoesOn(Main)
    <3>1. ASSUME Joins(c), c.res = "ok" PROVE status'[c.on] = "dead"
      <4>1. Joins(call[Main]) /\ res = "ok"
        BY <2>3, <3>1 DEF Joins
      <4>2. call[Main].on \in Threads /\ status[call[Main].on] = "dead"
        BY <1>1, <1>13, <4>1 DEF Dead
      <4> QED BY <1>1, <2>3, <2>4, <4>2
    <3> QED BY <2>4, <3>1 DEF GoesOn
  <2>7. \A q \in Procs : status'[q] = "woken" => StaysWoken(q) \/ GoesOn(q)
    BY <2>4, <2>6 DEF StaysWoken
  <2>8. \A t \in Threads : status[t] = "dead" => status'[t] = "dead"
    BY <1>1, <2>4
  <2> QED BY <2>5, <2>7, <2>8, JoinsFollow
<1>14. ASSUME MainWakes, Joins(call[Main]) PROVE Dead(call[Main].on)
  BY <1>14 DEF MainWakes, MainWoken, MainMayGiveUp, Joins
<1>15. ASSUME NEW t \in Threads, Popped(sch, sch', t), UNCHANGED <<status, call, killed>> PROVE JoinInv'
  <2>1. \A u \in Threads : status[u] = "parked" => StaysParked(u)
    BY <1>15 DEF Popped, StaysParked
  <2> QED BY <1>4, <1>15, <2>1
<1>16. ASSUME NEW t \in Threads, ResumeStep(t) \/ PassStep(t) PROVE JoinInv'
  <2>1. /\ status[t] \in {"fresh", "parked"} /\ Popped(sch, sch', t) /\ killed' = killed \ {t}
    BY <1>16 DEF ResumeStep, PassStep
  <2>2. PICK res \in Outcomes :
         /\ call'[t] = Ended(call[t], res) /\ (t \in killed => res # "ok")
         /\ \A q \in Threads \ {t} : call'[q] = call[q] /\ status'[q] = status[q]
         /\ status'[t] = "woken"
         /\ \/ status'[Main] = status[Main] /\ call'[Main] = call[Main]
            \/ status'[Main] = "drive"
    <3>1. CASE ResumeStep(t)
      BY <1>1, <3>1 DEF ResumeStep, Wakes, Outcomes
    <3>2. CASE PassStep(t)
      <4>1. PICK res \in Outcomes :
              call' = [call EXCEPT ![t] = Ended(call[t], res),
                              ![Main] = Calling("pass", None, None, FALSE, FALSE, "ok")]
        BY <3>2 DEF PassStep
      <4>2. call'[t] = Ended(call[t], res) /\ Ended(call[t], res).res = res
        BY <1>1, <4>1 DEF Ended
      <4>3. t \in killed => res = "kill"
        BY <3>2, <4>2 DEF PassStep
      <4>4. status' = [status EXCEPT ![t] = "woken", ![Main] = "drive"]
        BY <3>2 DEF PassStep
      <4>5. \A q \in Threads \ {t} : call'[q] = call[q] /\ status'[q] = status[q]
        BY <1>1, <4>1, <4>4
      <4> QED BY <1>1, <4>2, <4>3, <4>4, <4>5
    <3> QED BY <1>16, <3>1, <3>2
  <2>3. \A u \in Threads : status'[u] = "parked" => StaysParked(u)
    BY <2>1, <2>2 DEF StaysParked, Popped
  <2>4. GoesOn(t)
    <3>1. PICK c : c = call'[t]
      OBVIOUS
    <3>2. c.op = call[t].op /\ c.on = call[t].on /\ c.timed = call[t].timed /\ c.res = res
      BY <2>2, <3>1 DEF Ended
    <3>3. ASSUME Joins(c), c.res = "ok" PROVE status'[c.on] = "dead"
      <4>1. Joins(call[t]) /\ t \notin killed /\ call[t].on \in Threads
        BY <1>1, <2>2, <3>2, <3>3 DEF Joins
      <4>2. status[t] = "parked"
        BY <1>1, <2>1, <4>1 DEF CallsIdle, Joins, Idle, Calling
      <4>3. Queued(sch, t)
        BY <2>1 DEF Popped
      <4>4. status[call[t].on] = "dead"
        BY <4>1, <4>2, <4>3 DEF JoinInv, Joining, Joins
      <4> QED BY <2>1, <2>2, <3>2, <4>1, <4>4
    <3> QED BY <3>1, <3>3 DEF GoesOn
  <2>5. \A q \in Procs : status'[q] = "woken" => StaysWoken(q) \/ GoesOn(q)
    BY <1>1, <2>2, <2>4 DEF StaysWoken, Procs
  <2>6. \A u \in Threads : status[u] = "dead" => status'[u] = "dead"
    BY <2>1, <2>2
  <2> QED BY <2>3, <2>5, <2>6, JoinsFollow
<1>17. ASSUME MainExits PROVE JoinInv'
  <2>1. status[Main] = "run" /\ status' = [status EXCEPT ![Main] = "dead"]
        /\ UNCHANGED <<sch, call, killed>>
    BY <1>17 DEF MainExits
  <2>2. \A t \in Threads : status[t] = "parked" => StaysParked(t)
    BY <2>1 DEF StaysParked, Queued
  <2> QED BY <1>1, <1>7, <2>1, <2>2
<1>18. ASSUME UNCHANGED <<sch, stack, status, call, killed>> PROVE JoinInv'
  <2>1. \A t \in Threads : status[t] = "parked" => StaysParked(t)
    BY <1>18 DEF StaysParked, Queued
  <2> QED BY <1>4, <1>18, <2>1
<1>19. MainWakes /\ MainGoesOn("ok") => JoinInv'
  BY <1>13, <1>14
<1>20. DeadlockError /\ MainGoesOn("raise") => JoinInv'
  BY <1>13
<1> QED BY <1>5, <1>6, <1>8, <1>9, <1>10, <1>11, <1>12, <1>15, <1>16, <1>17, <1>18, <1>19, <1>20
        DEF PlainStep

\* Thread#join without a limit returns normally only when the thread is done,
\* in every program without inline parks and without Thread#wakeup, which may
\* end anybody's park.
THEOREM JoinsWait ==
  ASSUME TRUE \notin Inline, "wakeup" \notin MainOps \cup ThreadOps
  PROVE  Spec => []JoinMeansDone
<1>1. ASSUME Init PROVE JoinInv
  <2>1. Main \in Procs /\ \A p \in Procs : status[p] \notin {"parked", "woken"}
    BY <1>1 DEF Init, CoreInit, Procs
  <2> QED BY <2>1 DEF JoinInv, Joining, JoinMeansDone, Procs
<1>2. ASSUME Inv, ExactInv, JoinInv, [Next]_vars PROVE JoinInv'
  <2>1. PlainStep
    BY <1>2, ExactIsPlain DEF Inv, ExactInv
  <2> QED BY <1>2, <2>1, StepKeepsJoins DEF Inv, LockInv, ExactInv
<1>3. JoinInv => JoinMeansDone
  BY DEF JoinInv
<1> QED BY <1>1, <1>2, <1>3, ThreadsInvariant, ExactInvariant, PTL DEF Spec
=============================================================================
