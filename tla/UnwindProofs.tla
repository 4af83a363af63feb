---------------------------- MODULE UnwindProofs ----------------------------
(***************************************************************************)
(* Well-nested code keeps its stacks: for every program whose bytecode is  *)
(* WellNested (RubyNesting), the interpreter of RubyUnwind has at each     *)
(* instruction the handlers and loops that enclose it in the text, what it *)
(* pops is there, a parked walk waits in an ensure body that control is    *)
(* in, and EndEnsure always finds what it has to resume.  The theorems     *)
(* are at the end.                                                         *)
(***************************************************************************)
EXTENDS RubyUnwind, NatLemmas, SequenceTheorems

(***************************************************************************)
(* Sequences.                                                              *)
(***************************************************************************)
\* A stack cut to n entries (Vec::truncate).
LEMMA UptoSeq ==
  ASSUME NEW S, NEW s \in Seq(S), NEW n \in Nat
  PROVE  /\ Upto(s, n) \in Seq(S)
         /\ Len(Upto(s, n)) = IF n < Len(s) THEN n ELSE Len(s)
         /\ Len(Upto(s, n)) \in Nat
         /\ \A j \in 1 .. Len(Upto(s, n)) : j \in 1 .. Len(s) /\ Upto(s, n)[j] = s[j]
<1> DEFINE k == IF n < Len(s) THEN n ELSE Len(s)
<1>1. k \in Nat /\ k <= Len(s) /\ Len(s) \in Nat
  BY LenProperties
<1>2. /\ SubSeq(s, 1, k) \in Seq(S) /\ Len(SubSeq(s, 1, k)) = k
      /\ \A j \in 1 .. k : SubSeq(s, 1, k)[j] = s[j]
  BY <1>1
<1> QED BY <1>1, <1>2 DEF Upto

\* A stack without its top entry.
LEMMA FrontSeq ==
  ASSUME NEW S, NEW s \in Seq(S), s # <<>>
  PROVE  /\ Front(s) \in Seq(S)
         /\ Len(Front(s)) = Len(s) - 1
         /\ Len(Front(s)) \in Nat /\ Len(s) \in Nat \ {0}
         /\ \A j \in 1 .. Len(s) - 1 : j \in 1 .. Len(s) /\ Front(s)[j] = s[j]
         /\ Peek(s) = s[Len(s)] /\ Last(s) = s[Len(s)] /\ s[Len(s)] \in S /\ Len(s) \in DOMAIN s
<1>1. Len(s) \in Nat \ {0} /\ DOMAIN s = 1 .. Len(s)
  BY LenProperties, EmptySeq
<1> QED BY <1>1 DEF Front, Peek, Last

\* A stack with an entry on top.
LEMMA AppendSeq ==
  ASSUME NEW S, NEW s \in Seq(S), NEW x \in S
  PROVE  /\ Append(s, x) \in Seq(S)
         /\ Len(Append(s, x)) = Len(s) + 1 /\ Len(s) \in Nat
         /\ \A j \in 1 .. Len(s) : Append(s, x)[j] = s[j]
         /\ Append(s, x)[Len(s) + 1] = x
         /\ DOMAIN Append(s, x) = 1 .. Len(s) + 1
         /\ Append(s, x) # <<>> /\ Peek(Append(s, x)) = x
<1>1. Append(s, x) \in Seq(S) /\ Len(Append(s, x)) = Len(s) + 1 /\ Len(s) \in Nat
  BY AppendProperties, LenProperties
<1>2. \A j \in 1 .. Len(s) + 1 : Append(s, x)[j] = IF j <= Len(s) THEN s[j] ELSE x
  BY AppendProperties, LenProperties
<1>3. Append(s, x) # <<>>
  BY <1>1, EmptySeq
<1>4. Peek(Append(s, x)) = x
  BY <1>1, <1>2 DEF Peek
<1> QED BY <1>1, <1>2, <1>3, <1>4, LenProperties

\* What a prefix shares with the whole.
LEMMA PrefixSeq ==
  ASSUME NEW S, NEW s \in Seq(S), NEW t \in Seq(S), IsPrefix(s, t)
  PROVE  /\ Len(s) \in Nat /\ Len(t) \in Nat /\ Len(s) <= Len(t)
         /\ \A j \in 1 .. Len(s) : j \in 1 .. Len(t) /\ s[j] = t[j]
<1>1. Len(s) \in Nat /\ Len(t) \in Nat /\ Len(s) <= Len(t) /\ SubSeq(s, 1, Len(s)) = SubSeq(t, 1, Len(s))
  BY LenProperties DEF IsPrefix
<1> SUFFICES ASSUME NEW j \in 1 .. Len(s) PROVE j \in 1 .. Len(t) /\ s[j] = t[j]
  BY <1>1
<1>2. SubSeq(s, 1, Len(s))[j] = s[j]
  BY <1>1
<1>3. SubSeq(t, 1, Len(s))[j] = t[j]
  BY <1>1
<1> QED BY <1>1, <1>2, <1>3

\* Sequences with the same length and entries.
LEMMA SameSeq ==
  ASSUME NEW S, NEW s \in Seq(S), NEW t \in Seq(S), Len(s) = Len(t), \A j \in 1 .. Len(s) : s[j] = t[j]
  PROVE  s = t
BY SeqEqual

\* Every two entries of s, in order, are related.
Chain(s, Q) == \A i, j \in 1 .. Len(s) : i < j => <<s[i], s[j]>> \in Q

\* What Vec::retain leaves: the entries in K, in the order they had.
LEMMA KeptSeq ==
  ASSUME NEW S, NEW s \in Seq(S), NEW K, NEW Q
  PROVE  /\ Kept(s, K) \in Seq(S)
         /\ \A x : x \in Range(Kept(s, K)) <=> x \in Range(s) /\ x \in K
         /\ Chain(s, Q) => Chain(Kept(s, K), Q)
<1> DEFINE n == Len(s)
           kept[i \in 0..n] ==
             IF i = 0 THEN <<>> ELSE IF s[i] \in K THEN Append(kept[i - 1], s[i]) ELSE kept[i - 1]
           F(f, i) == IF i = 0 THEN <<>>
                      ELSE IF s[i] \in K THEN Append(f[i - 1], s[i]) ELSE f[i - 1]
           P == {k \in Nat : \E f : f = [i \in 0..k |-> F(f, i)]}
<1>1. Kept(s, K) = kept[n]
  BY DEF Kept
<1>2. n \in Nat
  OBVIOUS
<1>3. 0 \in P
  <2> [i \in 0..0 |-> <<>>] = [i \in 0..0 |-> F([j \in 0..0 |-> <<>>], i)]
    OBVIOUS
  <2> QED OBVIOUS
<1>4. ASSUME NEW k \in Nat, k \in P PROVE k + 1 \in P
  <2>1. PICK f : f = [i \in 0..k |-> F(f, i)]
    BY <1>4
  <2> DEFINE g == [i \in 0..(k + 1) |-> IF i <= k THEN f[i] ELSE F(f, i)]
  <2>2. ASSUME NEW i \in 0..(k + 1) PROVE g[i] = F(g, i)
    <3>1. F(f, i) = F(g, i)
      OBVIOUS
    <3> HIDE DEF F
    <3>2. g[i] = F(f, i)
      BY <2>1
    <3> QED BY <3>1, <3>2
  <2> HIDE DEF F
  <2>3. g = [i \in 0..(k + 1) |-> F(g, i)]
    BY <2>2
  <2> HIDE DEF g
  <2> QED BY <2>3
<1>5. kept = [i \in 0..n |-> IF i = 0 THEN <<>> ELSE IF s[i] \in K THEN Append(kept[i - 1], s[i])
                                ELSE kept[i - 1]]
  <2> HIDE DEF P
  <2>1. n \in P
    BY <1>2, <1>3, <1>4, NatInduct
  <2> QED BY <2>1, ZenonT(30) DEF P
<1> HIDE DEF kept, n
<1>6. \A i \in 0..n : kept[i] = IF i = 0 THEN <<>> ELSE IF s[i] \in K THEN Append(kept[i - 1], s[i])
                                ELSE kept[i - 1]
  BY <1>5
<1> DEFINE G(k) == /\ kept[k] \in Seq(S)
                   /\ \A x : (\E j \in 1..Len(kept[k]) : kept[k][j] = x)
                               <=> x \in K /\ \E j \in 1..k : s[j] = x
                   /\ Chain(s, Q) => Chain(kept[k], Q)
           I == {k \in Nat : k <= n => G(k)}
<1>7. 0 \in I
  <2>1. kept[0] = <<>>
    BY <1>2, <1>6
  <2>2. kept[0] \in Seq(S) /\ Len(kept[0]) = 0
    BY <2>1
  <2>3. Chain(kept[0], Q)
    BY ONLY <2>2 DEF Chain
  <2>4. \A x : (\E j \in 1..Len(kept[0]) : kept[0][j] = x) <=> x \in K /\ \E j \in 1..0 : s[j] = x
    BY ONLY <2>2
  <2>5. G(0)
    BY <2>2, <2>3, <2>4
  <2> QED BY <2>5
<1>8. ASSUME NEW k \in Nat, k \in I PROVE k + 1 \in I
  <2> SUFFICES ASSUME k + 1 <= n PROVE G(k + 1)
    OBVIOUS
  <2> HIDE DEF G
  <2>1. G(k) /\ k + 1 \in 1..n /\ k \in 0..n
    BY <1>2, <1>8
  <2> USE DEF G
  <2>2. s[k + 1] \in S /\ n = Len(s)
    BY <2>1 DEF n
  <2>3. k + 1 \in 0..n /\ k + 1 # 0 /\ (k + 1) - 1 = k
    BY <2>1
  <2>4. CASE s[k + 1] \notin K
    <3>1. kept[k + 1] = kept[k]
      BY <1>6, <2>3, <2>4
    <3>2. \A x : x \in K => ((\E j \in 1..(k + 1) : s[j] = x) <=> (\E j \in 1..k : s[j] = x))
      BY <2>4
    <3> QED BY <2>1, <3>1, <3>2
  <2>5. CASE s[k + 1] \in K
    <3> DEFINE w == kept[k]
    <3>1. kept[k + 1] = Append(w, s[k + 1])
      BY <1>6, <2>3, <2>5
    <3>2. w \in Seq(S)
      BY <2>1
    <3>3. \A x : (\E j \in 1..Len(w) : w[j] = x) <=> x \in K /\ \E j \in 1..k : s[j] = x
      BY <2>1
    <3>4. ASSUME Chain(s, Q) PROVE Chain(w, Q) /\ \A j \in 1..Len(w) : <<w[j], s[k + 1]>> \in Q
      <4> SUFFICES ASSUME NEW j \in 1..Len(w) PROVE <<w[j], s[k + 1]>> \in Q
        BY <2>1, <3>4
      <4>1. PICK i \in 1..k : s[i] = w[j]
        BY <3>3
      <4> QED BY <2>1, <2>2, <3>4, <4>1 DEF Chain
    <3> HIDE DEF w
    <3>5. PICK v : v = Append(w, s[k + 1])
      OBVIOUS
    <3>6. /\ v \in Seq(S) /\ Len(v) = Len(w) + 1 /\ Len(w) \in Nat
          /\ \A j \in 1..Len(w) : v[j] = w[j]
          /\ v[Len(w) + 1] = s[k + 1]
      BY <2>2, <3>2, <3>5, AppendSeq
    <3> HIDE DEF G
    <3>7. \A x : (\E j \in 1..Len(v) : v[j] = x) <=> (\E j \in 1..Len(w) : w[j] = x) \/ x = s[k + 1]
      BY <3>6, SMTT(30)
    <3>8. \A x : (\E j \in 1..(k + 1) : s[j] = x) <=> (\E j \in 1..k : s[j] = x) \/ x = s[k + 1]
      BY <2>1
    <3>9. \A x : (\E j \in 1..Len(v) : v[j] = x) <=> x \in K /\ \E j \in 1..(k + 1) : s[j] = x
      BY ONLY <2>5, <3>3, <3>7, <3>8
    <3>10. ASSUME Chain(s, Q) PROVE Chain(v, Q)
      <4>1. Chain(w, Q) /\ \A j \in 1..Len(w) : <<w[j], s[k + 1]>> \in Q
        BY <3>4, <3>10
      <4>2. ASSUME NEW i \in 1..Len(v), NEW j \in 1..Len(v), i < j PROVE <<v[i], v[j]>> \in Q
        <5>1. i \in 1..Len(w) /\ v[i] = w[i]
          BY ONLY <3>6, <4>2
        <5>2. CASE j \in 1..Len(w)
          BY ONLY <3>6, <4>1, <4>2, <5>1, <5>2 DEF Chain
        <5>3. CASE j = Len(w) + 1
          BY ONLY <3>6, <4>1, <5>1, <5>3
        <5> QED BY ONLY <3>6, <4>2, <5>2, <5>3
      <4> QED BY ONLY <4>2 DEF Chain
    <3> USE DEF G
    <3>11. kept[k + 1] = v
      BY <3>1, <3>5
    <3> HIDE DEF w
    <3> QED BY <3>6, <3>9, <3>10, <3>11
  <2> QED BY <2>4, <2>5
<1> HIDE DEF G
<1>9. n \in I
  BY <1>2, <1>7, <1>8, NatInduct
<1>10. G(n)
  BY <1>2, <1>9
<1>11. \A x : \A w \in Seq(S) : x \in Range(w) <=> \E j \in 1..Len(w) : w[j] = x
  BY DEF Range
<1>12. /\ kept[n] \in Seq(S)
       /\ \A x : (\E j \in 1..Len(kept[n]) : kept[n][j] = x) <=> x \in K /\ \E j \in 1..Len(s) : s[j] = x
       /\ Chain(s, Q) => Chain(kept[n], Q)
  BY <1>10 DEF G, n
<1> QED BY ONLY s \in Seq(S), <1>1, <1>11, <1>12

(***************************************************************************)
(* Searches.                                                               *)
(***************************************************************************)
\* The largest of a bounded set of numbers.
LEMMA LargestIs ==
  ASSUME NEW T, T \subseteq Nat, T # {}, NEW b \in Nat, \A y \in T : y <= b
  PROVE  Largest(T) \in T /\ \A y \in T : y <= Largest(T)
<1>1. Max(T) \in T /\ \A y \in T : y <= Max(T)
  BY MaxIsGreatest
<1>2. \E x \in T : \A y \in T : y <= x
  BY <1>1
<1> QED BY <1>2 DEF Largest

\* The least element of a set of numbers, as BangAfterPop takes it.
LEMMA SmallestIs ==
  ASSUME NEW T, T \subseteq Nat, T # {}
  PROVE  (CHOOSE j \in T : \A m \in T : j <= m) \in T
<1>1. \E j \in T : \A m \in T : j <= m
  BY LeastNat
<1> QED BY <1>1

\* The innermost of some handlers: the last in the last frame that has one.
LEMMA InnermostIs ==
  ASSUME NEW n \in Nat, NEW b \in [1 .. n -> Nat], NEW H, H # {},
         \A q \in H : \E k \in 1 .. n : \E j \in 1 .. b[k] : q = <<k, j>>
  PROVE  \E k \in 1 .. n : \E j \in 1 .. b[k] :
           /\ Innermost(H) = <<k, j>> /\ <<k, j>> \in H
           /\ \A i, m \in Nat : <<i, m>> \in H => i < k \/ (i = k /\ m <= j)
<1> DEFINE T == {q[1] : q \in H}
<1>1. T \subseteq Nat /\ T # {} /\ \A y \in T : y <= n
  OBVIOUS
<1> HIDE DEF T
<1>2. PICK k \in T : \A y \in T : y <= k
  <2>1. Max(T) \in T /\ \A y \in T : y <= Max(T)
    BY <1>1, MaxIsGreatest
  <2> QED BY <2>1
<1>3. k \in 1 .. n
  BY <1>1, <1>2 DEF T
<1> DEFINE U == {j \in 1 .. b[k] : <<k, j>> \in H}
<1>4. U \subseteq Nat /\ U # {} /\ b[k] \in Nat /\ \A y \in U : y <= b[k]
  <2>1. PICK q \in H : q[1] = k
    BY <1>2 DEF T
  <2>2. PICK i \in 1 .. n : \E j \in 1 .. b[i] : q = <<i, j>>
    OBVIOUS
  <2>4. PICK j \in 1 .. b[i] : q = <<i, j>>
    BY <2>2
  <2>3. i = k /\ j \in U
    BY <2>1, <2>4 DEF U
  <2>5. b[k] \in Nat
    BY <1>3
  <2>6. \A y \in U : y \in Nat /\ y <= b[k]
    BY <2>5 DEF U
  <2> HIDE DEF U
  <2> QED BY <2>3, <2>5, <2>6
<1> HIDE DEF U
<1>5. PICK j \in U : \A y \in U : y <= j
  <2>1. Max(U) \in U /\ \A y \in U : y <= Max(U)
    BY <1>4, MaxIsGreatest
  <2> QED BY <2>1
<1>6. j \in 1 .. b[k] /\ <<k, j>> \in H
  BY <1>5 DEF U
<1>7. \A q \in H : q[1] < k \/ (q[1] = k /\ q[2] <= j)
  <2> SUFFICES ASSUME NEW q \in H PROVE q[1] < k \/ (q[1] = k /\ q[2] <= j)
    OBVIOUS
  <2>4. PICK i \in 1 .. n : \E m \in 1 .. b[i] : q = <<i, m>>
    OBVIOUS
  <2>1. PICK m \in 1 .. b[i] : q = <<i, m>>
    BY <2>4
  <2>2. i \in T
    BY <2>1 DEF T
  <2>3. i = k => m \in U
    BY <2>1 DEF U
  <2> QED BY <1>2, <1>3, <1>5, <2>1, <2>2, <2>3
<1> DEFINE Best(p) == \A q \in H : q[1] < p[1] \/ (q[1] = p[1] /\ q[2] <= p[2])
<1>8. Best(<<k, j>>)
  BY <1>7
<1>9. Innermost(H) = CHOOSE p \in H : Best(p)
  BY DEF Innermost
<1> HIDE DEF Best
<1>10. Innermost(H) \in H /\ Best(Innermost(H))
  BY <1>6, <1>8, <1>9
<1>13. PICK i \in 1 .. n : \E m \in 1 .. b[i] : Innermost(H) = <<i, m>>
  BY <1>10
<1>11. PICK m \in 1 .. b[i] : Innermost(H) = <<i, m>>
  BY <1>13
<1>12. i = k /\ m = j
  <2>1. k < i \/ (k = i /\ j <= m)
    BY <1>6, <1>10, <1>11, SMTT(30) DEF Best
  <2>2. i < k \/ (i = k /\ m <= j)
    <3>1. <<i, m>> \in H
      BY <1>10, <1>11
    <3> QED BY ONLY <1>7, <3>1
  <2> QED BY <1>3, <1>6, <1>11, <2>1, <2>2
<1> QED BY <1>3, <1>6, <1>7, <1>11, <1>12

(***************************************************************************)
(* Points of well-nested code.                                             *)
(***************************************************************************)
Addr(c)   == 1 .. Len(c)
ValueT(c) == {c[i].v : i \in DOMAIN c}

\* Each entry of s is the entry of t at its index.
Sub(s, t) == Len(s) <= Len(t) /\ \A j \in 1 .. Len(s) : j \in 1 .. Len(t) /\ s[j] = t[j]

\* The shape of code and of its points.
LEMMA PointIs ==
  ASSUME NEW c, NEW N, WellNested(c, N), NEW i \in DOMAIN N
  PROVE  /\ i \in Addr(c) /\ i \in Nat /\ Len(c) \in Nat
         /\ c[i].op \in STRING /\ c[i].x \in Int /\ c[i].v \in ValueT(c) /\ Goal(c, i) \in Int
         /\ N[i] \in PointT(c)
         /\ N[i].entry \in Nat /\ N[i].depth \in Nat
         /\ N[i].rescues \in Seq(Addr(c)) /\ N[i].loops \in Seq(Addr(c))
         /\ N[i].bodies \in Seq(Addr(c)) /\ N[i].begins \in Seq(Addr(c))
         /\ Len(N[i].rescues) \in Nat /\ Len(N[i].loops) \in Nat
         /\ Len(N[i].bodies) \in Nat /\ Len(N[i].begins) \in Nat /\ Level(N, i) \in Nat
         /\ DOMAIN N[i].rescues = 1 .. Len(N[i].rescues) /\ DOMAIN N[i].loops = 1 .. Len(N[i].loops)
         /\ DOMAIN N[i].bodies = 1 .. Len(N[i].bodies) /\ DOMAIN N[i].begins = 1 .. Len(N[i].begins)
<1>1. c \in Seq(OpT({c[k].v : k \in DOMAIN c})) /\ DOMAIN N \subseteq DOMAIN c /\ N[i] \in PointT(c)
  BY DEF WellNested
<1>2. Len(c) \in Nat /\ DOMAIN c = 1 .. Len(c)
  BY <1>1, LenProperties
<1>3. i \in DOMAIN c /\ i \in Addr(c) /\ i \in Nat
  BY <1>1, <1>2 DEF Addr
<1>4. c[i] \in OpT({c[k].v : k \in DOMAIN c})
  BY <1>1, <1>2, <1>3, ElementOfSeq DEF Addr
<1>5. c[i].op \in STRING /\ c[i].x \in Int /\ c[i].v \in ValueT(c)
  BY <1>4 DEF OpT, ValueT
<1>6. Goal(c, i) \in Int
  BY <1>3, <1>5 DEF Goal
<1>7. /\ N[i].rescues \in Seq(Addr(c)) /\ N[i].loops \in Seq(Addr(c))
      /\ N[i].bodies \in Seq(Addr(c)) /\ N[i].begins \in Seq(Addr(c)) /\ N[i].depth \in Nat
      /\ N[i].entry \in 1 .. Len(c)
  BY <1>1 DEF PointT, Addr
<1>8. \A s \in Seq(Addr(c)) : Len(s) \in Nat /\ DOMAIN s = 1 .. Len(s)
  BY LenProperties
<1> QED BY <1>1, <1>2, <1>3, <1>5, <1>6, <1>7, <1>8 DEF Level

\* A point is told by its fields.
LEMMA PointFields ==
  ASSUME NEW N, NEW i, NEW e, NEW r, NEW l, NEW s, NEW b, NEW d, Is(N, i, Point(e, r, l, s, b, d))
  PROVE  /\ i \in DOMAIN N /\ N[i].entry = e /\ N[i].rescues = r /\ N[i].loops = l
         /\ N[i].bodies = s /\ N[i].begins = b /\ N[i].depth = d
BY DEF Is, Point

\* An address whose scope i is in.
LEMMA AroundIs ==
  ASSUME NEW c, NEW N, WellNested(c, N), NEW i \in DOMAIN N, NEW a, Around(N, a, i)
  PROVE  /\ a \in DOMAIN N /\ N[a].entry = N[i].entry
         /\ Sub(N[a].rescues, N[i].rescues) /\ Sub(N[a].loops, N[i].loops)
         /\ Sub(N[a].bodies, N[i].bodies)
         /\ Level(N, a) \in Nat /\ Level(N, a) <= Level(N, i)
         /\ Level(N, a) = Level(N, i) => /\ N[a].bodies = N[i].bodies
                                         /\ Len(N[a].begins) <= Len(N[i].begins)
                                         /\ N[a].depth <= N[i].depth
         /\ Level(N, a) < Level(N, i) =>
              /\ Level(N, a) + 1 \in 1 .. Len(N[i].bodies)
              /\ Len(N[a].begins) <= Len(N[N[i].bodies[Level(N, a) + 1]].begins)
              /\ N[a].depth <= N[N[i].bodies[Level(N, a) + 1]].depth
<1>1. a \in DOMAIN N
  BY DEF Around
<1>2. PICK n, m : n = N[i] /\ m = N[a]
  OBVIOUS
<1>3. /\ n.rescues \in Seq(Addr(c)) /\ n.loops \in Seq(Addr(c)) /\ n.bodies \in Seq(Addr(c))
      /\ m.rescues \in Seq(Addr(c)) /\ m.loops \in Seq(Addr(c)) /\ m.bodies \in Seq(Addr(c))
  BY <1>1, <1>2, PointIs
<1>4. IsPrefix(m.rescues, n.rescues) /\ IsPrefix(m.loops, n.loops) /\ IsPrefix(m.bodies, n.bodies)
  BY <1>2 DEF Around
<1>5. Sub(m.rescues, n.rescues)
  BY <1>3, <1>4, PrefixSeq DEF Sub
<1>6. Sub(m.loops, n.loops)
  BY <1>3, <1>4, PrefixSeq DEF Sub
<1>7. Sub(m.bodies, n.bodies) /\ Len(m.bodies) \in Nat /\ Len(n.bodies) \in Nat
  BY <1>3, <1>4, PrefixSeq DEF Sub
<1>8. Len(m.bodies) = Len(n.bodies) => m.bodies = n.bodies
  BY <1>3, <1>7, SameSeq DEF Sub
<1>9. Len(m.bodies) = Len(n.bodies) => Over(N, a, i)
  BY <1>2 DEF Around, Level
<1>10. Len(m.bodies) < Len(n.bodies) =>
         Len(m.bodies) + 1 \in 1 .. Len(n.bodies) /\ Over(N, a, n.bodies[Len(m.bodies) + 1])
  BY <1>2, <1>7 DEF Around, Level
<1>11. N[a].entry = N[i].entry
  BY DEF Around
<1> QED BY <1>1, <1>2, <1>5, <1>6, <1>7, <1>8, <1>9, <1>10, <1>11 DEF Level, Over, Sub

\* The handlers, loops, bodies and begins recorded at a point.
LEMMA HandlerIs ==
  ASSUME NEW c, NEW N, WellNested(c, N), NEW i \in DOMAIN N, NEW j \in 1 .. Len(N[i].rescues)
  PROVE  /\ Around(N, N[i].rescues[j], i) /\ N[i].rescues[j] \in DOMAIN N
         /\ c[N[i].rescues[j]].op \in Pushes
         /\ Len(N[N[i].rescues[j]].rescues) = j - 1
<1>1. j \in DOMAIN N[i].rescues /\ Scoped(c, N, i)
  BY PointIs DEF WellNested
<1> QED BY <1>1 DEF Scoped, Around

\* An open loop.
LEMMA LoopIs ==
  ASSUME NEW c, NEW N, WellNested(c, N), NEW i \in DOMAIN N, NEW j \in 1 .. Len(N[i].loops)
  PROVE  /\ Around(N, N[i].loops[j], i) /\ N[i].loops[j] \in DOMAIN N
         /\ c[N[i].loops[j]].op = "EnterLoop"
         /\ Len(N[N[i].loops[j]].loops) = j - 1
<1>1. j \in DOMAIN N[i].loops /\ Scoped(c, N, i)
  BY PointIs DEF WellNested
<1> QED BY <1>1 DEF Scoped, Around

\* An ensure body around a point holds it.
LEMMA BodyIs ==
  ASSUME NEW c, NEW N, WellNested(c, N), NEW i \in DOMAIN N, NEW j \in 1 .. Len(N[i].bodies)
  PROVE  /\ Around(N, N[i].bodies[j], i) /\ N[i].bodies[j] \in DOMAIN N
         /\ Ens(c, N[i].bodies[j]) /\ Level(N, N[i].bodies[j]) = j - 1
         /\ i \in Goal(c, N[i].bodies[j]) .. BodyEnd(c, Goal(c, N[i].bodies[j]))
<1>1. j \in DOMAIN N[i].bodies /\ Scoped(c, N, i)
  BY PointIs DEF WellNested
<1> QED BY <1>1 DEF Scoped, Around

\* An open begin.
LEMMA BeginIs ==
  ASSUME NEW c, NEW N, WellNested(c, N), NEW i \in DOMAIN N, NEW j \in 1 .. Len(N[i].begins)
  PROVE  /\ Around(N, N[i].begins[j], i) /\ N[i].begins[j] \in DOMAIN N
         /\ Level(N, N[i].begins[j]) = Level(N, i)
<1>1. j \in DOMAIN N[i].begins /\ Scoped(c, N, i)
  BY PointIs DEF WellNested
<1> QED BY <1>1 DEF Scoped, Around

\* The order in which scopes were opened.
LEMMA OrderIs ==
  ASSUME NEW c, NEW N, WellNested(c, N), NEW i \in DOMAIN N
  PROVE  /\ \A j \in 1 .. Len(N[i].loops), k \in 1 .. Len(N[i].rescues) :
              k > Len(N[N[i].loops[j]].rescues) => Len(N[N[i].rescues[k]].loops) >= j
         /\ \A j \in 1 .. Len(N[i].bodies), k \in 1 .. Len(N[i].rescues) :
              k > Len(N[N[i].bodies[j]].rescues) => Level(N, N[i].rescues[k]) >= j
         /\ \A j \in 1 .. Len(N[i].bodies), k \in 1 .. Len(N[i].loops) :
              k > Len(N[N[i].bodies[j]].loops) => Level(N, N[i].loops[k]) >= j
<1>1. HandlersInLoops(N, i) /\ HandlersInBodies(N, i) /\ LoopsInBodies(N, i)
  BY DEF WellNested, Scoped
<1>2. /\ DOMAIN N[i].rescues = 1 .. Len(N[i].rescues) /\ DOMAIN N[i].loops = 1 .. Len(N[i].loops)
      /\ DOMAIN N[i].bodies = 1 .. Len(N[i].bodies)
  BY PointIs
<1> QED BY <1>1, <1>2 DEF HandlersInLoops, HandlersInBodies, LoopsInBodies

(***************************************************************************)
(* Heights.  gd[l] and gn[l] are the operands and begins that the frame had *)
(* when it entered its l-th ensure body (gd[0], gn[0]: when it was called). *)
(***************************************************************************)
Ghost == [Nat -> Nat]
Dp(N, gd, a) == gd[Level(N, a)] + N[a].depth
Nb(N, gn, a) == gn[Level(N, a)] + Len(N[a].begins)

Puts(g, n, x, h) == h = [g EXCEPT ![n] = x]

\* Heights are numbers.
LEMMA GhostIs ==
  ASSUME NEW gd \in Ghost
  PROVE  \A x \in Nat : gd[x] \in Nat
BY DEF Ghost

\* Setting one of them.
LEMMA GhostPut ==
  ASSUME NEW gd \in Ghost, NEW n \in Nat, NEW x \in Nat, NEW hd, Puts(gd, n, x, hd)
  PROVE  /\ hd \in Ghost /\ hd[n] = x
         /\ \A l \in Nat : l # n => hd[l] = gd[l]
BY DEF Ghost, Puts

LevelsOK(N, s, base, gd, gn) ==
  /\ gd[0] = base /\ gn[0] = 0
  /\ \A l \in 1 .. Len(s) : /\ gd[l - 1] + N[s[l]].depth <= gd[l]
                            /\ gn[l - 1] + Len(N[s[l]].begins) <= gn[l]
  /\ \A l, k \in 0 .. Len(s) : l <= k => gd[l] <= gd[k] /\ gn[l] <= gn[k]

\* What was on the stacks where a scope was opened is still there inside it.
LEMMA Below ==
  ASSUME NEW c, NEW N, WellNested(c, N), NEW i \in DOMAIN N, NEW a, Around(N, a, i),
         NEW gd \in Ghost, NEW gn \in Ghost, NEW base, LevelsOK(N, N[i].bodies, base, gd, gn)
  PROVE  /\ Dp(N, gd, a) \in Nat /\ Nb(N, gn, a) \in Nat /\ Dp(N, gd, i) \in Nat /\ Nb(N, gn, i) \in Nat
         /\ Dp(N, gd, a) <= Dp(N, gd, i) /\ Nb(N, gn, a) <= Nb(N, gn, i)
         /\ base \in Nat /\ base <= Dp(N, gd, a)
         /\ Level(N, a) < Level(N, i) => /\ Dp(N, gd, a) <= gd[Level(N, i)]
                                         /\ Nb(N, gn, a) <= gn[Level(N, i)]
<1>1. PICK l, k, s : l = Level(N, a) /\ k = Level(N, i) /\ s = N[i].bodies
  OBVIOUS
<1>2. /\ a \in DOMAIN N /\ l \in Nat /\ k \in Nat /\ l <= k /\ k = Len(s)
      /\ l = k => Len(N[a].begins) <= Len(N[i].begins) /\ N[a].depth <= N[i].depth
      /\ l < k => /\ l + 1 \in 1 .. Len(s)
                  /\ Len(N[a].begins) <= Len(N[s[l + 1]].begins)
                  /\ N[a].depth <= N[s[l + 1]].depth
  BY <1>1, AroundIs, PointIs DEF Level
<1>3. /\ N[a].depth \in Nat /\ N[i].depth \in Nat /\ Len(N[a].begins) \in Nat /\ Len(N[i].begins) \in Nat
  BY <1>2, PointIs
<1>4. gd[0] \in Nat /\ gd[l] \in Nat /\ gn[l] \in Nat /\ gd[k] \in Nat /\ gn[k] \in Nat
  BY <1>2, GhostIs
<1>5. /\ Dp(N, gd, a) = gd[l] + N[a].depth /\ Nb(N, gn, a) = gn[l] + Len(N[a].begins)
      /\ Dp(N, gd, i) = gd[k] + N[i].depth /\ Nb(N, gn, i) = gn[k] + Len(N[i].begins)
  BY <1>1 DEF Dp, Nb
<1>6. gd[0] <= gd[l] /\ gd[0] = base
  BY <1>1, <1>2 DEF LevelsOK
<1>9. PICK da, di, ba, bi, ga, gi, na, ni :
        /\ da = N[a].depth /\ di = N[i].depth /\ ba = Len(N[a].begins) /\ bi = Len(N[i].begins)
        /\ ga = gd[l] /\ gi = gd[k] /\ na = gn[l] /\ ni = gn[k]
  OBVIOUS
<1>10. /\ da \in Nat /\ di \in Nat /\ ba \in Nat /\ bi \in Nat
       /\ ga \in Nat /\ gi \in Nat /\ na \in Nat /\ ni \in Nat
       /\ base \in Nat /\ base <= ga
  BY <1>3, <1>4, <1>6, <1>9
<1>11. SUFFICES /\ ga + da <= gi + di /\ na + ba <= ni + bi
                /\ l < k => ga + da <= gi /\ na + ba <= ni
  <2>1. /\ ga + da \in Nat /\ gi + di \in Nat /\ na + ba \in Nat /\ ni + bi \in Nat
        /\ base <= ga + da
    BY ONLY <1>10
  <2> QED BY ONLY <1>1, <1>5, <1>9, <1>10, <1>11, <2>1
<1>7. CASE l = k
  <2>1. ga = gi /\ na = ni /\ da <= di /\ ba <= bi /\ ~ (l < k)
    BY <1>2, <1>7, <1>9
  <2> QED BY ONLY <1>10, <2>1
<1>8. CASE l < k
  <2>1. l + 1 \in 1 .. Len(s) /\ l + 1 \in 0 .. Len(s) /\ k \in 0 .. Len(s) /\ l + 1 <= k /\ (l + 1) - 1 = l
    BY <1>2, <1>8
  <2>2. gd[l] + N[s[l + 1]].depth <= gd[l + 1] /\ gn[l] + Len(N[s[l + 1]].begins) <= gn[l + 1]
    BY <1>1, <2>1 DEF LevelsOK
  <2>3. gd[l + 1] <= gd[k] /\ gn[l + 1] <= gn[k]
    BY <1>1, <2>1 DEF LevelsOK
  <2>4. s[l + 1] \in DOMAIN N
    BY <1>1, <2>1, BodyIs
  <2>5. N[s[l + 1]].depth \in Nat /\ Len(N[s[l + 1]].begins) \in Nat
    BY <2>4, PointIs
  <2>6. PICK e, f, g, h : /\ e = N[s[l + 1]].depth /\ f = Len(N[s[l + 1]].begins)
                          /\ g = gd[l + 1] /\ h = gn[l + 1]
    OBVIOUS
  <2>7. e \in Nat /\ f \in Nat /\ g \in Nat /\ h \in Nat
    BY <1>2, <2>5, <2>6, GhostIs
  <2>8. ga + e <= g /\ na + f <= h /\ g <= gi /\ h <= ni
    BY ONLY <1>9, <2>2, <2>3, <2>6
  <2>9. ba <= f /\ da <= e
    BY ONLY <1>2, <1>8, <1>9, <2>6
  <2> QED BY ONLY <1>10, <2>7, <2>8, <2>9
<1> QED BY <1>2, <1>7, <1>8

\* Leaving some bodies keeps the heights of the others.
LEMMA LevelsPrefix ==
  ASSUME NEW N, NEW s, NEW t, NEW base, NEW gd, NEW gn, LevelsOK(N, s, base, gd, gn),
         Sub(t, s), Len(t) \in Nat, Len(s) \in Nat
  PROVE  LevelsOK(N, t, base, gd, gn)
<1>1. Len(t) <= Len(s) /\ \A l \in 1 .. Len(t) : l \in 1 .. Len(s) /\ t[l] = s[l]
  BY DEF Sub
<1>2. \A l \in 0 .. Len(t) : l \in 0 .. Len(s)
  BY <1>1
<1> QED BY <1>1, <1>2 DEF LevelsOK

\* Entering the ensure body that a protects.
LEMMA LevelsGrow ==
  ASSUME NEW c, NEW N, WellNested(c, N), NEW a \in DOMAIN N,
         NEW gd \in Ghost, NEW gn \in Ghost, NEW base, LevelsOK(N, N[a].bodies, base, gd, gn),
         NEW x \in Nat, NEW y \in Nat, Dp(N, gd, a) <= x, Nb(N, gn, a) <= y,
         NEW hd, NEW hn, Puts(gd, Level(N, a) + 1, x, hd), Puts(gn, Level(N, a) + 1, y, hn)
  PROVE  /\ hd \in Ghost /\ hn \in Ghost
         /\ \A l \in 0 .. Level(N, a) : hd[l] = gd[l] /\ hn[l] = gn[l]
         /\ hd[Level(N, a) + 1] = x /\ hn[Level(N, a) + 1] = y
         /\ LevelsOK(N, Append(N[a].bodies, a), base, hd, hn)
<1>1. PICK L, s : L = Level(N, a) /\ s = N[a].bodies
  OBVIOUS
<1>2. L \in Nat /\ L = Len(s) /\ s \in Seq(Addr(c)) /\ a \in Addr(c)
  BY <1>1, PointIs DEF Level
<1>3. hd \in Ghost /\ hn \in Ghost /\ hd[L + 1] = x /\ hn[L + 1] = y
  <2>1. Puts(gd, L + 1, x, hd) /\ Puts(gn, L + 1, y, hn) /\ L + 1 \in Nat
    BY <1>1, <1>2
  <2>2. PICK n : n = L + 1
    OBVIOUS
  <2>3. n \in Nat /\ Puts(gd, n, x, hd) /\ Puts(gn, n, y, hn)
    BY <2>1, <2>2
  <2>4. hd \in Ghost /\ hd[n] = x
    BY ONLY gd \in Ghost, x \in Nat, <2>3, GhostPut
  <2>5. hn \in Ghost /\ hn[n] = y
    BY ONLY gn \in Ghost, y \in Nat, <2>3, GhostPut
  <2> QED BY ONLY <2>2, <2>4, <2>5
<1>4. \A l \in 0 .. L : hd[l] = gd[l] /\ hn[l] = gn[l]
  <2>1. Puts(gd, L + 1, x, hd) /\ Puts(gn, L + 1, y, hn) /\ L + 1 \in Nat
    BY <1>1, <1>2
  <2>2. \A l \in Nat : l # L + 1 => hd[l] = gd[l] /\ hn[l] = gn[l]
    BY <2>1, GhostPut
  <2>3. \A l \in 0 .. L : l \in Nat /\ l # L + 1
    BY <1>2
  <2> QED BY ONLY <2>2, <2>3
<1>5. PICK t : t = Append(s, a)
  OBVIOUS
<1>6. Len(t) = L + 1 /\ (\A j \in 1 .. L : t[j] = s[j]) /\ t[L + 1] = a
  BY <1>2, <1>5, AppendSeq
<1>7. gd[L] + N[a].depth <= x /\ gn[L] + Len(N[a].begins) <= y
  BY <1>1 DEF Dp, Nb
<1>8. \A l \in 1 .. L + 1 : hd[l - 1] + N[t[l]].depth <= hd[l] /\ hn[l - 1] + Len(N[t[l]].begins) <= hn[l]
  <2> SUFFICES ASSUME NEW l \in 1 .. L + 1
               PROVE hd[l - 1] + N[t[l]].depth <= hd[l] /\ hn[l - 1] + Len(N[t[l]].begins) <= hn[l]
    OBVIOUS
  <2>1. CASE l = L + 1
    <3>1. l - 1 = L /\ hd[L] = gd[L] /\ hn[L] = gn[L]
      BY <1>2, <1>4, <2>1
    <3> QED BY <1>3, <1>6, <1>7, <2>1, <3>1
  <2>2. CASE l \in 1 .. L
    <3>1. l - 1 \in 0 .. L /\ l \in 0 .. L
      BY <1>2, <2>2
    <3>2. gd[l - 1] + N[s[l]].depth <= gd[l] /\ gn[l - 1] + Len(N[s[l]].begins) <= gn[l]
      BY <1>1, <1>2, <2>2 DEF LevelsOK
    <3> QED BY <1>4, <1>6, <2>2, <3>1, <3>2
  <2> QED BY <1>2, <2>1, <2>2
<1>9. gd[L] <= x /\ gn[L] <= y
  <2>1. N[a].depth \in Nat /\ Len(N[a].begins) \in Nat
    BY PointIs
  <2>2. gd[L] \in Nat /\ gn[L] \in Nat
    BY <1>2, GhostIs
  <2> QED BY ONLY <1>7, <2>1, <2>2, x \in Nat, y \in Nat
<1>10. \A l, k \in 0 .. L + 1 : l <= k => hd[l] <= hd[k] /\ hn[l] <= hn[k]
  <2> SUFFICES ASSUME NEW l \in 0 .. L + 1, NEW k \in 0 .. L + 1, l <= k
               PROVE hd[l] <= hd[k] /\ hn[l] <= hn[k]
    OBVIOUS
  <2>1. \A h, k1 \in 0 .. L : h <= k1 => gd[h] <= gd[k1] /\ gn[h] <= gn[k1]
    BY <1>1, <1>2 DEF LevelsOK
  <2>2. CASE k = L + 1 /\ l = L + 1
    BY <1>3, <2>2
  <2>3. CASE k = L + 1 /\ l \in 0 .. L
    <3>1. gd[l] <= gd[L] /\ gn[l] <= gn[L] /\ gd[l] \in Nat /\ gd[L] \in Nat /\ gn[l] \in Nat /\ gn[L] \in Nat
      <4>1. L \in 0 .. L /\ l <= L /\ l \in Nat
        BY <1>2, <2>3
      <4> QED BY <1>2, <2>1, <2>3, <4>1, GhostIs
    <3> QED BY <1>3, <1>4, <1>9, <2>3, <3>1
  <2>4. CASE k \in 0 .. L /\ l \in 0 .. L
    BY <1>4, <2>1, <2>4
  <2> QED BY <1>2, <2>2, <2>3, <2>4
<1>11. hd[0] = base /\ hn[0] = 0
  BY <1>1, <1>2, <1>4 DEF LevelsOK
<1>12. LevelsOK(N, t, base, hd, hn)
  BY <1>6, <1>8, <1>10, <1>11 DEF LevelsOK
<1> QED BY <1>1, <1>3, <1>4, <1>5, <1>12

(***************************************************************************)
(* The stacks of a frame at i: its handlers R, loops Ls and begins B are   *)
(* those of the point, each with what it recorded when it was pushed.      *)
(***************************************************************************)
HandlerT(V) == [ip : Int, depth : Nat, ens : BOOLEAN, filter : V, loopAt : Nat, beginAt : Nat]
LoopT       == [rescues : Nat, stack : Nat]
BeginT(V)   == [rescues : Nat, loops : Nat, bang : V]

\* The last entries up to the n-th of B are those of the begins bs.
Held(N, B, n, bs) ==
  /\ Len(bs) <= n /\ n <= Len(B)
  /\ \A j \in 1 .. Len(bs) : /\ B[n - Len(bs) + j].rescues = Len(N[bs[j]].rescues)
                             /\ B[n - Len(bs) + j].loops = Len(N[bs[j]].loops)

HandlerOK(c, N, B, r, a, gd, gn) ==
  /\ r.ip = Goal(c, a) /\ (r.ens <=> Ens(c, a)) /\ r.loopAt = Len(N[a].loops)
  /\ r.depth = Dp(N, gd, a) /\ r.beginAt = Nb(N, gn, a)
  /\ Held(N, B, Nb(N, gn, a), N[a].begins)
  /\ \A k \in 1 .. Nb(N, gn, a) : B[k].loops <= Len(N[a].loops)

LoopOK(N, B, s, j, a, gd, gn) ==
  /\ s.rescues = Len(N[a].rescues) /\ s.stack = Dp(N, gd, a)
  /\ Held(N, B, Nb(N, gn, a), N[a].begins)
  /\ \A k \in 1 .. Len(B) : B[k].loops <= j - 1 <=> k <= Nb(N, gn, a)

HandlersOK(c, N, i, R, B, gd, gn) ==
  /\ Len(N[i].rescues) <= Len(R)
  /\ \A j \in 1 .. Len(N[i].rescues) : HandlerOK(c, N, B, R[j], N[i].rescues[j], gd, gn)
LoopsOK(N, i, Ls, B, gd, gn) ==
  /\ Len(Ls) = Len(N[i].loops)
  /\ \A j \in 1 .. Len(N[i].loops) : LoopOK(N, B, Ls[j], j, N[i].loops[j], gd, gn)
BeginsOK(N, i, Ls, B, gn) ==
  /\ Len(B) = Nb(N, gn, i)
  /\ Held(N, B, Len(B), N[i].begins)
  /\ \A k \in 1 .. Len(B) : B[k].loops <= Len(Ls)

\* Held looks at the first n entries only.
LEMMA HeldKept ==
  ASSUME NEW N, NEW B, NEW D, NEW n \in Nat, NEW bs, Len(bs) \in Nat, Held(N, B, n, bs),
         NEW M \in Nat, n <= M, M <= Len(D), Len(D) \in Nat, \A k \in 1 .. M : D[k] = B[k]
  PROVE  Held(N, D, n, bs)
<1>1. Len(bs) <= n /\ n <= Len(D)
  BY DEF Held
<1> SUFFICES ASSUME NEW j \in 1 .. Len(bs)
             PROVE  /\ D[n - Len(bs) + j].rescues = Len(N[bs[j]].rescues)
                    /\ D[n - Len(bs) + j].loops = Len(N[bs[j]].loops)
  BY <1>1 DEF Held
<1>2. n - Len(bs) + j \in 1 .. M
  BY <1>1
<1>3. D[n - Len(bs) + j] = B[n - Len(bs) + j]
  BY <1>2
<1> QED BY <1>3 DEF Held

\* A handler stays right while the begins under it do.
LEMMA HandlerKept ==
  ASSUME NEW c, NEW N, NEW a, Level(N, a) \in Nat, Len(N[a].begins) \in Nat, NEW r, NEW B, NEW D,
         NEW gd, NEW gn, NEW hd, NEW hn, HandlerOK(c, N, B, r, a, gd, gn),
         \A l \in 0 .. Level(N, a) : hd[l] = gd[l] /\ hn[l] = gn[l],
         NEW M \in Nat, Nb(N, gn, a) \in Nat, Nb(N, gn, a) <= M, M <= Len(D), Len(D) \in Nat,
         \A k \in 1 .. M : D[k] = B[k]
  PROVE  HandlerOK(c, N, D, r, a, hd, hn)
<1>1. Dp(N, hd, a) = Dp(N, gd, a) /\ Nb(N, hn, a) = Nb(N, gn, a)
  BY DEF Dp, Nb
<1>2. Held(N, B, Nb(N, gn, a), N[a].begins)
  BY DEF HandlerOK
<1>3. Held(N, D, Nb(N, gn, a), N[a].begins)
  BY <1>2, HeldKept
<1>4. \A k \in 1 .. Nb(N, gn, a) : D[k].loops <= Len(N[a].loops)
  BY DEF HandlerOK
<1> QED BY <1>1, <1>3, <1>4 DEF HandlerOK

\* So does a loop while the begins above it were entered inside it.
LEMMA LoopKept ==
  ASSUME NEW N, NEW a, Level(N, a) \in Nat, Len(N[a].begins) \in Nat, NEW s, NEW j \in Nat,
         NEW B, NEW D, NEW gd, NEW gn, NEW hd, NEW hn, LoopOK(N, B, s, j, a, gd, gn),
         \A l \in 0 .. Level(N, a) : hd[l] = gd[l] /\ hn[l] = gn[l],
         NEW M \in Nat, Nb(N, gn, a) \in Nat, Nb(N, gn, a) <= M, M <= Len(D), Len(D) \in Nat,
         Len(B) \in Nat, M <= Len(B),
         \A k \in 1 .. M : D[k] = B[k],
         \A k \in 1 .. Len(D) : (k \in 1 .. Len(B) /\ D[k] = B[k])
                                \/ (k > M /\ D[k].loops \in Nat /\ D[k].loops >= j)
  PROVE  LoopOK(N, D, s, j, a, hd, hn)
<1>1. Dp(N, hd, a) = Dp(N, gd, a) /\ Nb(N, hn, a) = Nb(N, gn, a)
  BY DEF Dp, Nb
<1>2. Held(N, B, Nb(N, gn, a), N[a].begins)
  BY DEF LoopOK
<1>3. Held(N, D, Nb(N, gn, a), N[a].begins)
  BY <1>2, HeldKept
<1>4. \A k \in 1 .. Len(B) : B[k].loops <= j - 1 <=> k <= Nb(N, gn, a)
  BY DEF LoopOK
<1>5. \A k \in 1 .. Len(D) : D[k].loops <= j - 1 <=> k <= Nb(N, gn, a)
  BY <1>4
<1> QED BY <1>1, <1>3, <1>5 DEF LoopOK

(***************************************************************************)
(* The handlers and loops of i that are also those of k stay right when    *)
(* the stacks are cut to them, and when begins are cut down to M or pushed *)
(* inside all of those loops.                                              *)
(***************************************************************************)
Restacked(N, i, k, R, Q, Ls, Ks, B, D, gd, gn, hd, hn, M, L) ==
  /\ Sub(N[k].rescues, N[i].rescues) /\ Sub(N[k].loops, N[i].loops)
  /\ Len(N[k].rescues) <= Len(Q) /\ \A j \in 1 .. Len(N[k].rescues) : Q[j] = R[j]
  /\ Len(Ks) = Len(N[k].loops) /\ \A j \in 1 .. Len(N[k].loops) : Ks[j] = Ls[j]
  /\ M \in Nat /\ M <= Len(D) /\ M <= Len(B) /\ \A x \in 1 .. M : D[x] = B[x]
  /\ L \in Nat /\ \A l \in 0 .. L : hd[l] = gd[l] /\ hn[l] = gn[l]
  /\ \A j \in 1 .. Len(N[k].rescues) :
       Level(N, N[k].rescues[j]) <= L /\ Nb(N, gn, N[k].rescues[j]) <= M
  /\ \A j \in 1 .. Len(N[k].loops) :
       Level(N, N[k].loops[j]) <= L /\ Nb(N, gn, N[k].loops[j]) <= M
  /\ \A x \in 1 .. Len(D) : (x \in 1 .. Len(B) /\ D[x] = B[x])
                             \/ (x > M /\ D[x].loops >= Len(N[k].loops))

\* Cut so, they stay right.
LEMMA Restack ==
  ASSUME NEW c, NEW N, WellNested(c, N), NEW i \in DOMAIN N, NEW k \in DOMAIN N,
         NEW V, NEW B \in Seq(BeginT(V)), NEW D \in Seq(BeginT(V)), NEW R, NEW Q, NEW Ls, NEW Ks,
         NEW gd \in Ghost, NEW gn \in Ghost, NEW hd, NEW hn,
         NEW base, LevelsOK(N, N[i].bodies, base, gd, gn),
         HandlersOK(c, N, i, R, B, gd, gn), LoopsOK(N, i, Ls, B, gd, gn),
         NEW M, NEW L, Restacked(N, i, k, R, Q, Ls, Ks, B, D, gd, gn, hd, hn, M, L)
  PROVE  HandlersOK(c, N, k, Q, D, hd, hn) /\ LoopsOK(N, k, Ks, D, hd, hn)
<1> USE DEF Restacked
<1>1. Len(B) \in Nat /\ Len(D) \in Nat /\ \A x \in 1 .. Len(D) : D[x].loops \in Nat
  <2>1. Len(D) \in Nat /\ Len(B) \in Nat /\ \A x \in 1 .. Len(D) : D[x] \in BeginT(V)
    BY LenProperties, ElementOfSeq
  <2>2. \A b \in BeginT(V) : b.loops \in Nat
    BY DEF BeginT
  <2> QED BY ONLY <2>1, <2>2
<1>2. Len(N[k].rescues) \in Nat /\ Len(N[k].loops) \in Nat
  BY PointIs
<1>3. ASSUME NEW j \in 1 .. Len(N[k].rescues)
      PROVE  HandlerOK(c, N, D, Q[j], N[k].rescues[j], hd, hn)
  <2>1. PICK a : a = N[k].rescues[j]
    OBVIOUS
  <2>2. j \in 1 .. Len(N[i].rescues) /\ a = N[i].rescues[j] /\ Q[j] = R[j]
    BY <2>1 DEF Sub
  <2>3. HandlerOK(c, N, B, Q[j], a, gd, gn)
    BY <2>2 DEF HandlersOK
  <2>4. a \in DOMAIN N /\ Around(N, a, i)
    BY <2>2, HandlerIs
  <2>5. Level(N, a) \in Nat /\ Len(N[a].begins) \in Nat
    BY <2>4, PointIs
  <2>6. Nb(N, gn, a) \in Nat
    BY <2>4, Below
  <2>7. Level(N, a) <= L /\ Nb(N, gn, a) <= M
    BY <2>1
  <2>8. \A l \in 0 .. Level(N, a) : hd[l] = gd[l] /\ hn[l] = gn[l]
    BY <2>5, <2>7
  <2>9. HandlerOK(c, N, D, Q[j], a, hd, hn)
    BY <1>1, <2>3, <2>5, <2>6, <2>7, <2>8, HandlerKept
  <2> QED BY <2>1, <2>9
<1>4. ASSUME NEW j \in 1 .. Len(N[k].loops)
      PROVE  LoopOK(N, D, Ks[j], j, N[k].loops[j], hd, hn)
  <2>1. PICK a : a = N[k].loops[j]
    OBVIOUS
  <2>2. j \in 1 .. Len(N[i].loops) /\ a = N[i].loops[j] /\ Ks[j] = Ls[j] /\ j \in Nat
    BY <1>2, <2>1 DEF Sub
  <2>3. LoopOK(N, B, Ks[j], j, a, gd, gn)
    BY <2>2 DEF LoopsOK
  <2>4. a \in DOMAIN N /\ Around(N, a, i)
    BY <2>2, LoopIs
  <2>5. Level(N, a) \in Nat /\ Len(N[a].begins) \in Nat
    BY <2>4, PointIs
  <2>6. Nb(N, gn, a) \in Nat
    BY <2>4, Below
  <2>7. Level(N, a) <= L /\ Nb(N, gn, a) <= M
    BY <2>1
  <2>8. \A l \in 0 .. Level(N, a) : hd[l] = gd[l] /\ hn[l] = gn[l]
    BY <2>5, <2>7
  <2>9. \A x \in 1 .. Len(D) : (x \in 1 .. Len(B) /\ D[x] = B[x])
                               \/ (x > M /\ D[x].loops \in Nat /\ D[x].loops >= j)
    BY <1>1, <1>2
  <2>10. LoopOK(N, D, Ks[j], j, a, hd, hn)
    <3>1. M \in Nat /\ M <= Len(D) /\ M <= Len(B) /\ (\A x \in 1 .. M : D[x] = B[x])
          /\ Len(B) \in Nat /\ Len(D) \in Nat /\ j \in Nat
      BY <1>1, <2>2
    <3> QED BY ONLY <2>3, <2>5, <2>6, <2>7, <2>8, <2>9, <3>1, LoopKept
  <2> QED BY <2>1, <2>10
<1> QED BY <1>3, <1>4 DEF HandlersOK, LoopsOK

Shape(c, N, i, base, d, R, Ls, B, gd, gn) ==
  /\ LevelsOK(N, N[i].bodies, base, gd, gn)
  /\ d = Dp(N, gd, i)
  /\ HandlersOK(c, N, i, R, B, gd, gn) /\ LoopsOK(N, i, Ls, B, gd, gn) /\ BeginsOK(N, i, Ls, B, gn)
  /\ c[i].op # Unnests => Len(R) = Len(N[i].rescues)

\* Landing at k, in the body that a is in, inside the scopes of a and, when a opens
\* a loop, inside that too.
LandsIn(N, i, a, k) ==
  /\ N[k].entry = N[a].entry /\ N[k].bodies = N[a].bodies /\ N[k].begins = N[a].begins
  /\ Sub(N[k].rescues, N[a].rescues) /\ Sub(N[k].loops, N[i].loops)
  /\ \A j \in 1 .. Len(N[k].loops) : N[k].loops[j] = a \/ Around(N, N[k].loops[j], a)

\* The stacks there are cut to those of k, the begins to those of a.
Landing(c, N, a, k, R, Q, Ls, Ks, B, D, gn) ==
  /\ Len(N[k].rescues) <= Len(Q) /\ \A j \in 1 .. Len(N[k].rescues) : Q[j] = R[j]
  /\ c[k].op # Unnests => Len(Q) = Len(N[k].rescues)
  /\ Len(Ks) = Len(N[k].loops) /\ \A j \in 1 .. Len(N[k].loops) : Ks[j] = Ls[j]
  /\ Len(D) = Nb(N, gn, a) /\ \A x \in 1 .. Len(D) : D[x] = B[x] /\ D[x].loops <= Len(Ks)
  /\ Held(N, B, Nb(N, gn, a), N[a].begins)

\* A transfer that lands leaves the stacks of the point where it lands.
LEMMA Land ==
  ASSUME NEW c, NEW N, WellNested(c, N), NEW i \in DOMAIN N, NEW k \in DOMAIN N, NEW a, Around(N, a, i),
         NEW V, NEW B \in Seq(BeginT(V)), NEW D \in Seq(BeginT(V)), NEW R, NEW Q, NEW Ls, NEW Ks,
         NEW gd \in Ghost, NEW gn \in Ghost, NEW base, NEW d, Shape(c, N, i, base, d, R, Ls, B, gd, gn),
         LandsIn(N, i, a, k), Landing(c, N, a, k, R, Q, Ls, Ks, B, D, gn)
  PROVE  Shape(c, N, k, base, Dp(N, gd, k), Q, Ks, D, gd, gn)
<1> USE DEF LandsIn, Landing
<1>1. LevelsOK(N, N[i].bodies, base, gd, gn)
  BY DEF Shape
<1>2. /\ a \in DOMAIN N /\ Sub(N[a].rescues, N[i].rescues) /\ Sub(N[a].bodies, N[i].bodies)
      /\ Level(N, a) \in Nat
  BY AroundIs
<1>3. LevelsOK(N, N[a].bodies, base, gd, gn)
  <2>1. Len(N[a].bodies) \in Nat /\ Len(N[i].bodies) \in Nat
    BY <1>2, PointIs
  <2> QED BY <1>1, <1>2, <2>1, LevelsPrefix
<1>4. Nb(N, gn, a) \in Nat /\ Nb(N, gn, a) <= Len(B) /\ Len(D) \in Nat /\ Len(B) \in Nat
  <2>1. Nb(N, gn, a) \in Nat /\ Nb(N, gn, a) <= Nb(N, gn, i)
    BY <1>1, Below
  <2>2. Len(B) = Nb(N, gn, i)
    BY DEF Shape, BeginsOK
  <2> QED BY <2>1, <2>2, LenProperties
<1>5. \A j \in 1 .. Len(N[k].rescues) :
        Level(N, N[k].rescues[j]) <= Level(N, a) /\ Nb(N, gn, N[k].rescues[j]) <= Nb(N, gn, a)
  <2> SUFFICES ASSUME NEW j \in 1 .. Len(N[k].rescues)
               PROVE  /\ Level(N, N[k].rescues[j]) <= Level(N, a)
                      /\ Nb(N, gn, N[k].rescues[j]) <= Nb(N, gn, a)
    OBVIOUS
  <2>1. j \in 1 .. Len(N[a].rescues) /\ N[k].rescues[j] = N[a].rescues[j]
    BY DEF Sub
  <2>2. Around(N, N[k].rescues[j], a)
    BY <1>2, <2>1, HandlerIs
  <2>3. Level(N, N[k].rescues[j]) <= Level(N, a)
    BY <1>2, <2>2, AroundIs
  <2>4. Nb(N, gn, N[k].rescues[j]) <= Nb(N, gn, a)
    BY <1>2, <1>3, <2>2, Below
  <2> QED BY <2>3, <2>4
<1>6. \A j \in 1 .. Len(N[k].loops) :
        Level(N, N[k].loops[j]) <= Level(N, a) /\ Nb(N, gn, N[k].loops[j]) <= Nb(N, gn, a)
  <2> SUFFICES ASSUME NEW j \in 1 .. Len(N[k].loops), N[k].loops[j] # a
               PROVE  /\ Level(N, N[k].loops[j]) <= Level(N, a)
                      /\ Nb(N, gn, N[k].loops[j]) <= Nb(N, gn, a)
    BY <1>2, <1>4
  <2>1. Around(N, N[k].loops[j], a)
    OBVIOUS
  <2>2. Level(N, N[k].loops[j]) <= Level(N, a)
    BY <1>2, <2>1, AroundIs
  <2>3. Nb(N, gn, N[k].loops[j]) <= Nb(N, gn, a)
    BY <1>2, <1>3, <2>1, Below
  <2> QED BY <2>2, <2>3
<1>7. Sub(N[k].rescues, N[i].rescues)
  BY <1>2 DEF Sub
<1>8. HandlersOK(c, N, i, R, B, gd, gn) /\ LoopsOK(N, i, Ls, B, gd, gn)
  BY DEF Shape
<1>9. HandlersOK(c, N, k, Q, D, gd, gn) /\ LoopsOK(N, k, Ks, D, gd, gn)
  <2>1. \A x \in 1 .. Len(D) : (x \in 1 .. Len(B) /\ D[x] = B[x])
                               \/ (x > Nb(N, gn, a) /\ D[x].loops >= Len(N[k].loops))
    BY <1>4
  <2>2. \A x \in 1 .. Nb(N, gn, a) : D[x] = B[x]
    OBVIOUS
  <2>3. \A l \in 0 .. Level(N, a) : gd[l] = gd[l] /\ gn[l] = gn[l]
    OBVIOUS
  <2>4. Nb(N, gn, a) <= Len(D)
    BY <1>4
  <2>5. Restacked(N, i, k, R, Q, Ls, Ks, B, D, gd, gn, gd, gn, Nb(N, gn, a), Level(N, a))
    BY <1>2, <1>4, <1>5, <1>6, <1>7, <2>1, <2>2, <2>3, <2>4 DEF Restacked
  <2> QED BY <1>1, <1>8, <2>5, Restack
<1>10. Nb(N, gn, k) = Nb(N, gn, a) /\ LevelsOK(N, N[k].bodies, base, gd, gn)
  BY <1>3 DEF Nb, Level
<1>11. Held(N, D, Len(D), N[k].begins)
  <2>1. Len(N[a].begins) \in Nat
    BY <1>2, PointIs
  <2> QED BY <1>4, <2>1, HeldKept
<1>12. BeginsOK(N, k, Ks, D, gn)
  BY <1>10, <1>11 DEF BeginsOK
<1> QED BY <1>9, <1>10, <1>12 DEF Shape

\* The ensure body k that a protects.
BodyOf(N, a, k) ==
  /\ N[k].bodies = Append(N[a].bodies, a) /\ N[k].begins = <<>> /\ N[k].depth = 0
  /\ N[k].rescues = N[a].rescues /\ N[k].loops = N[a].loops

\* The stacks there: a walk leaves the begins open, an exception cuts them to those
\* of a and puts one on top that keeps `$!`.
Entering(N, a, R, Q, Ls, Ks, B, D, gn) ==
  /\ Len(Q) = Len(N[a].rescues) /\ \A j \in 1 .. Len(N[a].rescues) : Q[j] = R[j]
  /\ Len(Ks) = Len(N[a].loops) /\ \A j \in 1 .. Len(N[a].loops) : Ks[j] = Ls[j]
  /\ Nb(N, gn, a) <= Len(D) /\ \A j \in 1 .. Nb(N, gn, a) : D[j] = B[j]
  /\ \A j \in 1 .. Len(D) : /\ D[j].loops <= Len(Ks)
                            /\ \/ j \in 1 .. Len(B) /\ D[j] = B[j]
                               \/ j > Nb(N, gn, a) /\ D[j].loops >= Len(Ks)

\* Entering it.
LEMMA EnterBody ==
  ASSUME NEW c, NEW N, WellNested(c, N), NEW i \in DOMAIN N, NEW k \in DOMAIN N, NEW a, Around(N, a, i),
         NEW V, NEW B \in Seq(BeginT(V)), NEW D \in Seq(BeginT(V)), NEW R, NEW Q, NEW Ls, NEW Ks,
         NEW gd \in Ghost, NEW gn \in Ghost, NEW base, NEW d, Shape(c, N, i, base, d, R, Ls, B, gd, gn),
         BodyOf(N, a, k), Entering(N, a, R, Q, Ls, Ks, B, D, gn),
         NEW x \in Nat, Dp(N, gd, a) <= x,
         NEW hd, NEW hn, Puts(gd, Level(N, a) + 1, x, hd),
         Puts(gn, Level(N, a) + 1, Len(D), hn)
  PROVE  Shape(c, N, k, base, x, Q, Ks, D, hd, hn) /\ hd \in Ghost /\ hn \in Ghost
<1> USE DEF BodyOf, Entering
<1>1. LevelsOK(N, N[i].bodies, base, gd, gn)
  BY DEF Shape
<1>2. /\ a \in DOMAIN N /\ Sub(N[a].rescues, N[i].rescues) /\ Sub(N[a].loops, N[i].loops)
      /\ Sub(N[a].bodies, N[i].bodies) /\ Level(N, a) \in Nat
  BY AroundIs
<1>3. LevelsOK(N, N[a].bodies, base, gd, gn)
  <2>1. Len(N[a].bodies) \in Nat /\ Len(N[i].bodies) \in Nat
    BY <1>2, PointIs
  <2> QED BY <1>1, <1>2, <2>1, LevelsPrefix
<1>4. Nb(N, gn, a) \in Nat /\ Nb(N, gn, a) <= Len(B) /\ Len(D) \in Nat /\ Len(B) \in Nat
  <2>1. Nb(N, gn, a) \in Nat /\ Nb(N, gn, a) <= Nb(N, gn, i)
    BY <1>1, Below
  <2>2. Len(B) = Nb(N, gn, i)
    BY DEF Shape, BeginsOK
  <2> QED BY <2>1, <2>2, LenProperties
<1>5. /\ hd \in Ghost /\ hn \in Ghost
      /\ \A l \in 0 .. Level(N, a) : hd[l] = gd[l] /\ hn[l] = gn[l]
      /\ hd[Level(N, a) + 1] = x /\ hn[Level(N, a) + 1] = Len(D)
      /\ LevelsOK(N, N[k].bodies, base, hd, hn)
  <2>1. PICK s : s = N[k].bodies
    OBVIOUS
  <2>2. PICK y : y = Len(D)
    OBVIOUS
  <2>3. y \in Nat /\ Puts(gn, Level(N, a) + 1, y, hn) /\ Nb(N, gn, a) <= y
    BY <1>4, <2>2
  <2>4. /\ hd \in Ghost /\ hn \in Ghost
        /\ \A l \in 0 .. Level(N, a) : hd[l] = gd[l] /\ hn[l] = gn[l]
        /\ hd[Level(N, a) + 1] = x /\ hn[Level(N, a) + 1] = y
        /\ LevelsOK(N, Append(N[a].bodies, a), base, hd, hn)
    BY <1>2, <1>3, <2>3, LevelsGrow
  <2> QED BY <2>2, <2>4
<1>6. Level(N, k) = Level(N, a) + 1
  <2>1. N[a].bodies \in Seq(Addr(c)) /\ a \in Addr(c)
    BY <1>2, PointIs
  <2>2. Len(Append(N[a].bodies, a)) = Len(N[a].bodies) + 1
    BY <2>1, AppendSeq
  <2> QED BY <2>2 DEF Level
<1>7. \A j \in 1 .. Len(N[k].rescues) :
        Level(N, N[k].rescues[j]) <= Level(N, a) /\ Nb(N, gn, N[k].rescues[j]) <= Nb(N, gn, a)
  <2> SUFFICES ASSUME NEW j \in 1 .. Len(N[k].rescues)
               PROVE  /\ Level(N, N[k].rescues[j]) <= Level(N, a)
                      /\ Nb(N, gn, N[k].rescues[j]) <= Nb(N, gn, a)
    OBVIOUS
  <2>1. Around(N, N[k].rescues[j], a)
    BY <1>2, HandlerIs
  <2> QED BY <1>2, <1>3, <2>1, AroundIs, Below
<1>8. \A j \in 1 .. Len(N[k].loops) :
        Level(N, N[k].loops[j]) <= Level(N, a) /\ Nb(N, gn, N[k].loops[j]) <= Nb(N, gn, a)
  <2> SUFFICES ASSUME NEW j \in 1 .. Len(N[k].loops)
               PROVE  /\ Level(N, N[k].loops[j]) <= Level(N, a)
                      /\ Nb(N, gn, N[k].loops[j]) <= Nb(N, gn, a)
    OBVIOUS
  <2>1. Around(N, N[k].loops[j], a)
    BY <1>2, LoopIs
  <2> QED BY <1>2, <1>3, <2>1, AroundIs, Below
<1>9. HandlersOK(c, N, i, R, B, gd, gn) /\ LoopsOK(N, i, Ls, B, gd, gn)
  BY DEF Shape
<1>10. HandlersOK(c, N, k, Q, D, hd, hn) /\ LoopsOK(N, k, Ks, D, hd, hn)
  <2>1. \A y \in 1 .. Len(D) : (y \in 1 .. Len(B) /\ D[y] = B[y])
                               \/ (y > Nb(N, gn, a) /\ D[y].loops >= Len(N[k].loops))
    OBVIOUS
  <2>2. Sub(N[k].rescues, N[i].rescues) /\ Sub(N[k].loops, N[i].loops)
    BY <1>2
  <2>3. Len(N[k].rescues) <= Len(Q)
    BY <1>2, PointIs
  <2>4. Restacked(N, i, k, R, Q, Ls, Ks, B, D, gd, gn, hd, hn, Nb(N, gn, a), Level(N, a))
    BY <1>2, <1>4, <1>5, <1>7, <1>8, <2>1, <2>2, <2>3 DEF Restacked
  <2> QED BY <1>1, <1>9, <2>4, Restack
<1>11. Nb(N, hn, k) = Len(D) /\ Dp(N, hd, k) = x
  BY <1>4, <1>5, <1>6, EmptySeq DEF Nb, Dp
<1>12. Held(N, D, Len(D), N[k].begins)
  BY <1>4, EmptySeq DEF Held
<1>13. BeginsOK(N, k, Ks, D, hn)
  BY <1>11, <1>12 DEF BeginsOK
<1> QED BY <1>5, <1>6, <1>10, <1>11, <1>13 DEF Shape

(***************************************************************************)
(* The bytecodes that push and pop one entry.                              *)
(***************************************************************************)
\* What the scopes of i have below them is at most what i has.
LEMMA InScope ==
  ASSUME NEW c, NEW N, WellNested(c, N), NEW i \in DOMAIN N,
         NEW gd \in Ghost, NEW gn \in Ghost, NEW base, LevelsOK(N, N[i].bodies, base, gd, gn)
  PROVE  /\ \A j \in 1 .. Len(N[i].rescues) :
              /\ Level(N, N[i].rescues[j]) <= Level(N, i) /\ Nb(N, gn, N[i].rescues[j]) <= Nb(N, gn, i)
              /\ Dp(N, gd, N[i].rescues[j]) \in Nat /\ Dp(N, gd, N[i].rescues[j]) <= Dp(N, gd, i)
         /\ \A j \in 1 .. Len(N[i].loops) :
              /\ Level(N, N[i].loops[j]) <= Level(N, i) /\ Nb(N, gn, N[i].loops[j]) <= Nb(N, gn, i)
              /\ Dp(N, gd, N[i].loops[j]) \in Nat /\ Dp(N, gd, N[i].loops[j]) <= Dp(N, gd, i)
<1>1. ASSUME NEW a, Around(N, a, i)
      PROVE  /\ Level(N, a) <= Level(N, i) /\ Nb(N, gn, a) <= Nb(N, gn, i)
             /\ Dp(N, gd, a) \in Nat /\ Dp(N, gd, a) <= Dp(N, gd, i)
  BY <1>1, AroundIs, Below
<1>2. \A j \in 1 .. Len(N[i].rescues) : Around(N, N[i].rescues[j], i)
  BY HandlerIs
<1>3. \A j \in 1 .. Len(N[i].loops) : Around(N, N[i].loops[j], i)
  BY LoopIs
<1> QED BY <1>1, <1>2, <1>3

\* Ops that touch neither handlers nor loops nor begins.
LEMMA StaySame ==
  ASSUME NEW c, NEW N, NEW i, NEW k, NEW base, NEW d, NEW R, NEW Ls, NEW B, NEW gd, NEW gn,
         Shape(c, N, i, base, d, R, Ls, B, gd, gn), c[i].op # Unnests,
         N[k].bodies = N[i].bodies, N[k].rescues = N[i].rescues,
         N[k].loops = N[i].loops, N[k].begins = N[i].begins
  PROVE  Shape(c, N, k, base, Dp(N, gd, k), R, Ls, B, gd, gn)
BY DEF Shape, HandlersOK, LoopsOK, BeginsOK, Nb, Level

\* PushRescue, PushEnsure.
LEMMA StayPush ==
  ASSUME NEW c, NEW N, WellNested(c, N), NEW i \in DOMAIN N, NEW k, NEW V, NEW R \in Seq(HandlerT(V)),
         NEW base, NEW d, NEW Ls, NEW B, NEW gd, NEW gn,
         Shape(c, N, i, base, d, R, Ls, B, gd, gn), c[i].op # Unnests,
         NEW h \in HandlerT(V), h.ip = Goal(c, i), h.ens <=> Ens(c, i), h.depth = d,
         h.loopAt = Len(Ls), h.beginAt = Len(B),
         N[k].bodies = N[i].bodies, N[k].rescues = Append(N[i].rescues, i),
         N[k].loops = N[i].loops, N[k].begins = N[i].begins
  PROVE  Shape(c, N, k, base, Dp(N, gd, k), Append(R, h), Ls, B, gd, gn)
<1>1. PICK n, r : n = Len(R) /\ r = N[i].rescues
  OBVIOUS
<1>2. n = Len(r) /\ n \in Nat /\ r \in Seq(Addr(c)) /\ i \in Addr(c)
  BY <1>1, PointIs DEF Shape
<1>3. PICK Q, q : Q = Append(R, h) /\ q = Append(r, i)
  OBVIOUS
<1>4. Len(Q) = n + 1 /\ Q[n + 1] = h /\ \A j \in 1 .. n : Q[j] = R[j]
  BY <1>1, <1>3, AppendSeq
<1>5. Len(q) = n + 1 /\ q[n + 1] = i /\ \A j \in 1 .. n : q[j] = r[j]
  BY <1>2, <1>3, AppendSeq
<1>6. \A j \in 1 .. n : HandlerOK(c, N, B, R[j], r[j], gd, gn)
  BY <1>1, <1>2 DEF Shape, HandlersOK
<1>7. HandlerOK(c, N, B, h, i, gd, gn)
  BY DEF HandlerOK, Shape, LoopsOK, BeginsOK
<1>8. \A j \in 1 .. n + 1 : HandlerOK(c, N, B, Q[j], q[j], gd, gn)
  <2> SUFFICES ASSUME NEW j \in 1 .. n + 1 PROVE HandlerOK(c, N, B, Q[j], q[j], gd, gn)
    OBVIOUS
  <2>1. CASE j = n + 1
    BY <1>4, <1>5, <1>7, <2>1
  <2>2. CASE j \in 1 .. n
    BY <1>4, <1>5, <1>6, <2>2
  <2> QED BY <1>2, <2>1, <2>2
<1>9. HandlersOK(c, N, k, Q, B, gd, gn)
  BY <1>1, <1>2, <1>3, <1>4, <1>5, <1>8 DEF HandlersOK
<1>10. LoopsOK(N, k, Ls, B, gd, gn) /\ BeginsOK(N, k, Ls, B, gn) /\ LevelsOK(N, N[k].bodies, base, gd, gn)
  BY DEF Shape, LoopsOK, BeginsOK, Nb, Level
<1> QED BY <1>1, <1>3, <1>4, <1>5, <1>9, <1>10 DEF Shape

\* PopRescue, PopEnsure.
LEMMA StayPop ==
  ASSUME NEW c, NEW N, WellNested(c, N), NEW i \in DOMAIN N, NEW k, NEW V, NEW R \in Seq(HandlerT(V)),
         NEW base, NEW d, NEW Ls, NEW B, NEW gd, NEW gn,
         Shape(c, N, i, base, d, R, Ls, B, gd, gn), c[i].op # Unnests, N[i].rescues # <<>>,
         N[k].bodies = N[i].bodies, N[k].rescues = Front(N[i].rescues),
         N[k].loops = N[i].loops, N[k].begins = N[i].begins
  PROVE  Shape(c, N, k, base, Dp(N, gd, k), Upto(R, Len(R) - 1), Ls, B, gd, gn)
<1>1. PICK n, r : n = Len(R) /\ r = N[i].rescues
  OBVIOUS
<1>2. n = Len(r) /\ n \in Nat \ {0} /\ r \in Seq(Addr(c)) /\ r # <<>>
  BY <1>1, PointIs, EmptySeq DEF Shape
<1>3. PICK Q, q : Q = Upto(R, n - 1) /\ q = Front(r)
  OBVIOUS
<1>4. Len(Q) = n - 1 /\ \A j \in 1 .. n - 1 : Q[j] = R[j]
  <2>1. PICK m : m = n - 1
    OBVIOUS
  <2>2. m \in Nat /\ m < n /\ Q = Upto(R, m)
    BY <1>2, <1>3, <2>1
  <2>3. Len(Q) = m /\ \A j \in 1 .. m : Q[j] = R[j]
    BY <1>1, <2>2, UptoSeq
  <2> QED BY <2>1, <2>3
<1>5. Len(q) = n - 1 /\ \A j \in 1 .. n - 1 : q[j] = r[j]
  BY <1>2, <1>3, FrontSeq
<1>6. \A j \in 1 .. n : HandlerOK(c, N, B, R[j], r[j], gd, gn)
  BY <1>1, <1>2 DEF Shape, HandlersOK
<1>7. HandlersOK(c, N, k, Q, B, gd, gn)
  BY <1>1, <1>2, <1>3, <1>4, <1>5, <1>6 DEF HandlersOK
<1>8. LoopsOK(N, k, Ls, B, gd, gn) /\ BeginsOK(N, k, Ls, B, gn) /\ LevelsOK(N, N[k].bodies, base, gd, gn)
  BY DEF Shape, LoopsOK, BeginsOK, Nb, Level
<1> QED BY <1>1, <1>3, <1>4, <1>5, <1>7, <1>8 DEF Shape

\* EnterBegin.
LEMMA StayEnter ==
  ASSUME NEW c, NEW N, WellNested(c, N), NEW i \in DOMAIN N, NEW k \in DOMAIN N, NEW V,
         NEW B \in Seq(BeginT(V)), NEW R, NEW Ls, NEW base, NEW d, NEW gd \in Ghost, NEW gn \in Ghost,
         Shape(c, N, i, base, d, R, Ls, B, gd, gn), c[i].op # Unnests,
         NEW b \in BeginT(V), b.rescues = Len(R), b.loops = Len(Ls),
         N[k].bodies = N[i].bodies, N[k].rescues = N[i].rescues,
         N[k].loops = N[i].loops, N[k].begins = Append(N[i].begins, i)
  PROVE  Shape(c, N, k, base, Dp(N, gd, k), R, Ls, Append(B, b), gd, gn)
<1>1. PICK n, D, bs, ds : n = Len(B) /\ D = Append(B, b) /\ bs = N[i].begins /\ ds = Append(bs, i)
  OBVIOUS
<1>2. /\ D \in Seq(BeginT(V)) /\ Len(D) = n + 1 /\ n \in Nat
      /\ D[n + 1] = b /\ \A j \in 1 .. n : D[j] = B[j]
  BY <1>1, AppendSeq
<1>3. /\ bs \in Seq(Addr(c)) /\ Len(bs) \in Nat /\ Len(ds) = Len(bs) + 1
      /\ ds[Len(bs) + 1] = i /\ \A j \in 1 .. Len(bs) : ds[j] = bs[j]
  BY <1>1, PointIs, AppendSeq, SMTT(30)
<1>4. LevelsOK(N, N[i].bodies, base, gd, gn) /\ HandlersOK(c, N, i, R, B, gd, gn) /\ LoopsOK(N, i, Ls, B, gd, gn)
  BY DEF Shape
<1>5. n = Nb(N, gn, i) /\ Held(N, B, n, bs) /\ \A x \in 1 .. n : B[x].loops <= Len(Ls)
  BY <1>1 DEF Shape, BeginsOK
<1>6. Len(R) = Len(N[i].rescues) /\ Len(Ls) = Len(N[i].loops) /\ Len(Ls) \in Nat
  BY PointIs DEF Shape, LoopsOK
<1>7. HandlersOK(c, N, k, R, D, gd, gn) /\ LoopsOK(N, k, Ls, D, gd, gn)
  <2>1. /\ Level(N, i) \in Nat /\ Len(N[i].rescues) \in Nat /\ Len(N[i].loops) \in Nat
    BY PointIs
  <2>2. Sub(N[k].rescues, N[i].rescues) /\ Sub(N[k].loops, N[i].loops)
    BY <2>1 DEF Sub
  <2>3. /\ \A j \in 1 .. Len(N[k].rescues) :
             Level(N, N[k].rescues[j]) <= Level(N, i) /\ Nb(N, gn, N[k].rescues[j]) <= n
        /\ \A j \in 1 .. Len(N[k].loops) :
             Level(N, N[k].loops[j]) <= Level(N, i) /\ Nb(N, gn, N[k].loops[j]) <= n
    BY <1>4, <1>5, InScope
  <2>4. \A x \in 1 .. Len(D) : (x \in 1 .. Len(B) /\ D[x] = B[x])
                               \/ (x > n /\ D[x].loops >= Len(N[k].loops))
    <3> SUFFICES ASSUME NEW x \in 1 .. n + 1, x \notin 1 .. n PROVE x > n /\ D[x].loops >= Len(N[k].loops)
      BY <1>1, <1>2
    <3>1. x = n + 1
      BY <1>2
    <3> QED BY <1>2, <1>6, <3>1
  <2>5. /\ n <= Len(D) /\ n <= Len(B) /\ \A x \in 1 .. n : D[x] = B[x]
        /\ Len(N[k].rescues) <= Len(R) /\ Len(Ls) = Len(N[k].loops)
        /\ \A l \in 0 .. Level(N, i) : gd[l] = gd[l] /\ gn[l] = gn[l]
        /\ \A j \in 1 .. Len(N[k].rescues) : R[j] = R[j]
        /\ \A j \in 1 .. Len(N[k].loops) : Ls[j] = Ls[j]
    BY <1>1, <1>2, <1>6, <2>1
  <2>6. Restacked(N, i, k, R, R, Ls, Ls, B, D, gd, gn, gd, gn, n, Level(N, i))
    BY <1>2, <2>1, <2>2, <2>3, <2>4, <2>5 DEF Restacked
  <2> QED BY <1>2, <1>4, <2>6, Restack
<1>8. Len(D) = Nb(N, gn, k)
  <2>1. gn[Level(N, i)] \in Nat
    BY PointIs DEF Ghost
  <2> QED BY <1>1, <1>2, <1>3, <1>5, <2>1 DEF Nb, Level
<1>9. Held(N, D, Len(D), ds)
  <2>1. Len(ds) <= Len(D)
    BY <1>2, <1>3, <1>5 DEF Held
  <2> SUFFICES ASSUME NEW j \in 1 .. Len(ds)
               PROVE  /\ D[Len(D) - Len(ds) + j].rescues = Len(N[ds[j]].rescues)
                      /\ D[Len(D) - Len(ds) + j].loops = Len(N[ds[j]].loops)
    BY <2>1 DEF Held
  <2>2. CASE j = Len(ds)
    <3>1. Len(D) - Len(ds) + j = n + 1 /\ ds[j] = i
      BY <1>2, <1>3, <2>2
    <3> QED BY <1>2, <1>6, <3>1
  <2>3. CASE j \in 1 .. Len(bs)
    <3>1. PICK x : x = n - Len(bs) + j
      OBVIOUS
    <3>2. x \in 1 .. n /\ Len(D) - Len(ds) + j = x /\ ds[j] = bs[j]
      <4>1. Len(bs) <= n
        BY <1>1, <1>5 DEF Held
      <4> QED BY ONLY <1>2, <1>3, <2>3, <3>1, <4>1
    <3> QED BY <1>2, <1>5, <2>3, <3>1, <3>2, ZenonT(30) DEF Held
  <2> QED BY <1>3, <2>2, <2>3
<1>10. \A x \in 1 .. Len(D) : D[x].loops <= Len(Ls)
  <2> SUFFICES ASSUME NEW x \in 1 .. n + 1 PROVE D[x].loops <= Len(Ls)
    BY <1>2
  <2>1. CASE x = n + 1
    BY <1>2, <1>6, <2>1
  <2>2. CASE x \in 1 .. n
    BY <1>2, <1>5, <2>2
  <2> QED BY <1>2, <2>1, <2>2
<1>11. BeginsOK(N, k, Ls, D, gn)
  BY <1>1, <1>8, <1>9, <1>10 DEF BeginsOK
<1> QED BY <1>1, <1>4, <1>6, <1>7, <1>11 DEF Shape

\* ExitBegin.
LEMMA StayExit ==
  ASSUME NEW c, NEW N, WellNested(c, N), NEW i \in DOMAIN N, NEW k \in DOMAIN N, NEW V,
         NEW B \in Seq(BeginT(V)), NEW R, NEW Ls, NEW base, NEW d, NEW gd \in Ghost, NEW gn \in Ghost,
         Shape(c, N, i, base, d, R, Ls, B, gd, gn), c[i].op # Unnests, N[i].begins # <<>>,
         N[k].bodies = N[i].bodies, N[k].rescues = N[i].rescues,
         N[k].loops = N[i].loops, N[k].begins = Front(N[i].begins)
  PROVE  /\ Shape(c, N, k, base, Dp(N, gd, k), R, Ls, Front(B), gd, gn)
         /\ B # <<>>
<1>1. PICK n, D, bs, ds : n = Len(B) /\ D = Front(B) /\ bs = N[i].begins /\ ds = Front(bs)
  OBVIOUS
<1>2. /\ bs \in Seq(Addr(c)) /\ Len(bs) \in Nat \ {0} /\ Len(ds) = Len(bs) - 1
      /\ \A j \in 1 .. Len(bs) - 1 : ds[j] = bs[j]
  <2>1. bs \in Seq(Addr(c)) /\ bs # <<>>
    BY <1>1, PointIs
  <2> QED BY <1>1, <2>1, FrontSeq
<1>3. LevelsOK(N, N[i].bodies, base, gd, gn) /\ HandlersOK(c, N, i, R, B, gd, gn) /\ LoopsOK(N, i, Ls, B, gd, gn)
  BY DEF Shape
<1>4. n = Nb(N, gn, i) /\ Held(N, B, n, bs) /\ \A x \in 1 .. n : B[x].loops <= Len(Ls)
  BY <1>1 DEF Shape, BeginsOK
<1>5. n \in Nat \ {0} /\ B # <<>>
  <2>1. n \in Nat /\ Len(bs) <= n
    BY <1>1, <1>4, LenProperties DEF Held
  <2> QED BY <1>1, <1>2, <2>1, EmptySeq
<1>6. D \in Seq(BeginT(V)) /\ Len(D) = n - 1 /\ \A j \in 1 .. n - 1 : D[j] = B[j]
  BY <1>1, <1>5, FrontSeq
<1>7. Len(R) = Len(N[i].rescues) /\ Len(Ls) = Len(N[i].loops)
  BY DEF Shape, LoopsOK
<1>8. Len(D) = Nb(N, gn, k)
  <2>1. gn[Level(N, i)] \in Nat
    BY PointIs DEF Ghost
  <2> QED BY <1>1, <1>2, <1>4, <1>6, <2>1 DEF Nb, Level
<1>9. HandlersOK(c, N, k, R, D, gd, gn) /\ LoopsOK(N, k, Ls, D, gd, gn)
  <2>1. /\ Level(N, i) \in Nat /\ Len(N[i].rescues) \in Nat /\ Len(N[i].loops) \in Nat /\ Level(N, k) = Level(N, i)
    BY PointIs DEF Level
  <2>2. Sub(N[k].rescues, N[i].rescues) /\ Sub(N[k].loops, N[i].loops)
    BY <2>1 DEF Sub
  <2>3. LevelsOK(N, N[k].bodies, base, gd, gn)
    BY <1>3
  <2>4. /\ \A j \in 1 .. Len(N[k].rescues) :
             Level(N, N[k].rescues[j]) <= Level(N, i) /\ Nb(N, gn, N[k].rescues[j]) <= Len(D)
        /\ \A j \in 1 .. Len(N[k].loops) :
             Level(N, N[k].loops[j]) <= Level(N, i) /\ Nb(N, gn, N[k].loops[j]) <= Len(D)
    BY <1>8, <2>1, <2>3, InScope
  <2>5. \A x \in 1 .. Len(D) : (x \in 1 .. Len(B) /\ D[x] = B[x])
                               \/ (x > Len(D) /\ D[x].loops >= Len(N[k].loops))
    BY <1>1, <1>5, <1>6
  <2>6. /\ Len(D) \in Nat /\ Len(D) <= Len(D) /\ Len(D) <= Len(B) /\ \A x \in 1 .. Len(D) : D[x] = B[x]
        /\ Len(N[k].rescues) <= Len(R) /\ Len(Ls) = Len(N[k].loops)
        /\ \A l \in 0 .. Level(N, i) : gd[l] = gd[l] /\ gn[l] = gn[l]
        /\ \A j \in 1 .. Len(N[k].rescues) : R[j] = R[j]
        /\ \A j \in 1 .. Len(N[k].loops) : Ls[j] = Ls[j]
    BY <1>1, <1>5, <1>6, <1>7, <2>1
  <2>7. Restacked(N, i, k, R, R, Ls, Ls, B, D, gd, gn, gd, gn, Len(D), Level(N, i))
    BY <2>1, <2>2, <2>4, <2>5, <2>6 DEF Restacked
  <2> QED BY <1>3, <1>6, <2>7, Restack
<1>10. Held(N, D, Len(D), ds)
  <2>1. Len(ds) <= Len(D)
    BY <1>2, <1>4, <1>5, <1>6 DEF Held
  <2> SUFFICES ASSUME NEW j \in 1 .. Len(ds)
               PROVE  /\ D[Len(D) - Len(ds) + j].rescues = Len(N[ds[j]].rescues)
                      /\ D[Len(D) - Len(ds) + j].loops = Len(N[ds[j]].loops)
    BY <2>1 DEF Held
  <2>2. PICK x : x = n - Len(bs) + j
    OBVIOUS
  <2>3. x \in 1 .. n - 1 /\ Len(D) - Len(ds) + j = x /\ ds[j] = bs[j] /\ j \in 1 .. Len(bs)
    <3>1. Len(bs) <= n
      BY <1>1, <1>4 DEF Held
    <3>2. j \in 1 .. Len(bs) - 1
      BY <1>2
    <3> QED BY ONLY <1>2, <1>5, <1>6, <2>2, <3>1, <3>2
  <2> QED BY <1>4, <1>6, <2>2, <2>3 DEF Held
<1>11. BeginsOK(N, k, Ls, D, gn)
  BY <1>1, <1>4, <1>5, <1>6, <1>8, <1>10 DEF BeginsOK
<1> QED BY <1>1, <1>3, <1>5, <1>7, <1>9, <1>11 DEF Shape

\* TruncateRescuesToBeginBaseline: no handler or loop of a begin's clauses is left.
LEMMA StayUnnest ==
  ASSUME NEW c, NEW N, WellNested(c, N), NEW i \in DOMAIN N, NEW k \in DOMAIN N, NEW V,
         NEW B \in Seq(BeginT(V)), NEW R \in Seq(HandlerT(V)), NEW Ls \in Seq(LoopT),
         NEW base, NEW d, NEW gd \in Ghost, NEW gn \in Ghost,
         Shape(c, N, i, base, d, R, Ls, B, gd, gn), N[i].begins # <<>>,
         N[k].bodies = N[i].bodies, N[k].rescues = N[Last(N[i].begins)].rescues,
         N[k].loops = N[Last(N[i].begins)].loops, N[k].begins = N[i].begins
  PROVE  /\ Shape(c, N, k, base, Dp(N, gd, k), Upto(R, Peek(B).rescues), Upto(Ls, Peek(B).loops), B, gd, gn)
         /\ Peek(B).rescues \in Nat /\ Peek(B).loops \in Nat
<1>1. PICK n, bs, a : n = Len(B) /\ bs = N[i].begins /\ a = Last(bs)
  OBVIOUS
<1>2. bs \in Seq(Addr(c)) /\ Len(bs) \in Nat \ {0} /\ a = bs[Len(bs)]
  BY <1>1, PointIs, FrontSeq
<1>3. LevelsOK(N, N[i].bodies, base, gd, gn) /\ HandlersOK(c, N, i, R, B, gd, gn) /\ LoopsOK(N, i, Ls, B, gd, gn)
  BY DEF Shape
<1>4. n = Nb(N, gn, i) /\ Held(N, B, n, bs) /\ \A x \in 1 .. n : B[x].loops <= Len(Ls)
  BY <1>1 DEF Shape, BeginsOK
<1>5. n \in Nat \ {0}
  <2>1. n \in Nat /\ Len(bs) <= n
    BY <1>1, <1>4, LenProperties DEF Held
  <2> QED BY <1>2, <2>1
<1>6. Around(N, a, i) /\ a \in DOMAIN N /\ Level(N, a) = Level(N, i)
  <2>1. PICK j : j = Len(N[i].begins)
    OBVIOUS
  <2>2. j \in 1 .. Len(N[i].begins) /\ a = N[i].begins[j]
    BY <1>1, <1>2, <2>1
  <2> QED BY <2>2, BeginIs
<1>7. Sub(N[a].rescues, N[i].rescues) /\ Sub(N[a].loops, N[i].loops)
  BY <1>6, AroundIs
<1>8. /\ Len(N[a].rescues) \in Nat /\ Len(N[a].loops) \in Nat
      /\ Len(N[i].rescues) \in Nat /\ Len(N[i].loops) \in Nat
  BY <1>6, PointIs
<1>9. Peek(B).rescues = Len(N[a].rescues) /\ Peek(B).loops = Len(N[a].loops)
  <2>1. n - Len(bs) + Len(bs) = n /\ Len(bs) \in 1 .. Len(bs)
    BY <1>2, <1>5
  <2>2. /\ B[n - Len(bs) + Len(bs)].rescues = Len(N[bs[Len(bs)]].rescues)
        /\ B[n - Len(bs) + Len(bs)].loops = Len(N[bs[Len(bs)]].loops)
    BY <1>4, <2>1 DEF Held
  <2> QED BY <1>1, <1>2, <2>1, <2>2 DEF Peek
<1>10. PICK Q, Ks : Q = Upto(R, Len(N[a].rescues)) /\ Ks = Upto(Ls, Len(N[a].loops))
  OBVIOUS
<1>11. Len(N[i].rescues) <= Len(R) /\ Len(Ls) = Len(N[i].loops)
  BY <1>3 DEF HandlersOK, LoopsOK
<1>12. Len(Q) = Len(N[a].rescues) /\ \A j \in 1 .. Len(N[a].rescues) : Q[j] = R[j]
  <2>1. Len(N[a].rescues) <= Len(R) /\ Len(R) \in Nat
    BY <1>7, <1>8, <1>11, LenProperties DEF Sub
  <2> QED BY <1>8, <1>10, <2>1, UptoSeq
<1>13. Len(Ks) = Len(N[a].loops) /\ \A j \in 1 .. Len(N[a].loops) : Ks[j] = Ls[j]
  <2>1. Len(N[a].loops) <= Len(Ls) /\ Len(Ls) \in Nat
    BY <1>7, <1>8, <1>11, LenProperties DEF Sub
  <2> QED BY <1>8, <1>10, <2>1, UptoSeq
<1>14. HandlersOK(c, N, k, Q, B, gd, gn) /\ LoopsOK(N, k, Ks, B, gd, gn)
  <2>1. Level(N, i) \in Nat
    BY PointIs
  <2>2. Sub(N[k].rescues, N[i].rescues) /\ Sub(N[k].loops, N[i].loops)
    BY <1>1, <1>7
  <2>3. /\ \A j \in 1 .. Len(N[i].rescues) :
             Level(N, N[i].rescues[j]) <= Level(N, i) /\ Nb(N, gn, N[i].rescues[j]) <= n
        /\ \A j \in 1 .. Len(N[i].loops) :
             Level(N, N[i].loops[j]) <= Level(N, i) /\ Nb(N, gn, N[i].loops[j]) <= n
    BY <1>3, <1>4, InScope
  <2>4. /\ \A j \in 1 .. Len(N[k].rescues) :
             Level(N, N[k].rescues[j]) <= Level(N, i) /\ Nb(N, gn, N[k].rescues[j]) <= n
        /\ \A j \in 1 .. Len(N[k].loops) :
             Level(N, N[k].loops[j]) <= Level(N, i) /\ Nb(N, gn, N[k].loops[j]) <= n
    BY <2>2, <2>3 DEF Sub
  <2>5. \A x \in 1 .. Len(B) : (x \in 1 .. Len(B) /\ B[x] = B[x])
                               \/ (x > n /\ B[x].loops >= Len(N[k].loops))
    OBVIOUS
  <2>6. /\ n \in Nat /\ n <= Len(B) /\ \A x \in 1 .. n : B[x] = B[x]
        /\ Len(N[k].rescues) <= Len(Q) /\ Len(Ks) = Len(N[k].loops)
        /\ \A l \in 0 .. Level(N, i) : gd[l] = gd[l] /\ gn[l] = gn[l]
        /\ \A j \in 1 .. Len(N[k].rescues) : Q[j] = R[j]
        /\ \A j \in 1 .. Len(N[k].loops) : Ks[j] = Ls[j]
    BY <1>1, <1>5, <1>8, <1>12, <1>13
  <2>7. Restacked(N, i, k, R, Q, Ls, Ks, B, B, gd, gn, gd, gn, n, Level(N, i))
    BY <2>1, <2>2, <2>4, <2>5, <2>6 DEF Restacked
  <2> QED BY <1>3, <2>7, Restack
<1>15. \A x \in 1 .. n : B[x].loops <= Len(N[a].loops)
  <2>1. CASE Len(N[a].loops) = Len(N[i].loops)
    BY <1>4, <1>11, <2>1
  <2>2. CASE Len(N[a].loops) # Len(N[i].loops)
    <3>1. PICK j : j = Len(N[a].loops) + 1
      OBVIOUS
    <3>2. j \in 1 .. Len(N[i].loops) /\ j - 1 = Len(N[a].loops)
      BY <1>7, <1>8, <2>2, <3>1 DEF Sub
    <3>3. LoopOK(N, B, Ls[j], j, N[i].loops[j], gd, gn)
      BY <1>3, <3>2 DEF LoopsOK
    <3>4. PICK m : m = Nb(N, gn, N[i].loops[j])
      OBVIOUS
    <3>5. \A x \in 1 .. n : B[x].loops <= Len(N[a].loops) <=> x <= m
      BY <1>1, <3>2, <3>3, <3>4 DEF LoopOK
    <3>6. m \in Nat
      <4>1. Around(N, N[i].loops[j], i)
        BY <3>2, LoopIs
      <4> QED BY <1>3, <3>4, <4>1, Below
    <3>7. B[n].loops = Len(N[a].loops)
      BY <1>1, <1>9 DEF Peek
    <3>8. n <= m
      BY <1>5, <1>8, <3>5, <3>7
    <3> QED BY <1>5, <3>5, <3>6, <3>8
  <2> QED BY <2>1, <2>2
<1>16. BeginsOK(N, k, Ks, B, gn)
  BY <1>1, <1>4, <1>13, <1>15 DEF BeginsOK, Nb, Level
<1>17. Len(Q) = Len(N[k].rescues)
  BY <1>1, <1>12
<1> QED BY <1>3, <1>8, <1>9, <1>10, <1>14, <1>16, <1>17 DEF Shape

\* EnterLoop.
LEMMA StayLoop ==
  ASSUME NEW c, NEW N, WellNested(c, N), NEW i \in DOMAIN N, NEW k \in DOMAIN N, NEW V,
         NEW B \in Seq(BeginT(V)), NEW Ls \in Seq(LoopT), NEW l \in LoopT, NEW R,
         NEW base, NEW d, NEW gd, NEW gn, Shape(c, N, i, base, d, R, Ls, B, gd, gn), c[i].op # Unnests,
         l.rescues = Len(R), l.stack = d,
         N[k].bodies = N[i].bodies, N[k].rescues = N[i].rescues,
         N[k].loops = Append(N[i].loops, i), N[k].begins = N[i].begins
  PROVE  Shape(c, N, k, base, Dp(N, gd, k), R, Append(Ls, l), B, gd, gn)
<1>1. PICK n, r : n = Len(Ls) /\ r = N[i].loops
  OBVIOUS
<1>2. n = Len(r) /\ n \in Nat /\ r \in Seq(Addr(c)) /\ i \in Addr(c)
  BY <1>1, PointIs DEF Shape, LoopsOK
<1>3. PICK Q, q : Q = Append(Ls, l) /\ q = Append(r, i)
  OBVIOUS
<1>4. Len(Q) = n + 1 /\ Q[n + 1] = l /\ \A j \in 1 .. n : Q[j] = Ls[j]
  BY <1>1, <1>3, AppendSeq
<1>5. Len(q) = n + 1 /\ q[n + 1] = i /\ \A j \in 1 .. n : q[j] = r[j]
  BY <1>2, <1>3, AppendSeq
<1>6. \A j \in 1 .. n : LoopOK(N, B, Ls[j], j, r[j], gd, gn)
  BY <1>1, <1>2 DEF Shape, LoopsOK
<1>7. Len(B) = Nb(N, gn, i) /\ Held(N, B, Len(B), N[i].begins) /\ \A x \in 1 .. Len(B) : B[x].loops <= n
  BY <1>1 DEF Shape, BeginsOK
<1>8. Len(R) = Len(N[i].rescues) /\ d = Dp(N, gd, i)
  BY DEF Shape
<1>9. Len(B) \in Nat /\ \A x \in 1 .. Len(B) : B[x].loops \in Nat
  <2>1. Len(B) \in Nat /\ \A x \in 1 .. Len(B) : B[x] \in BeginT(V)
    BY LenProperties, ElementOfSeq
  <2>2. \A b \in BeginT(V) : b.loops \in Nat
    BY DEF BeginT
  <2> QED BY ONLY <2>1, <2>2
<1>10. LoopOK(N, B, l, n + 1, i, gd, gn)
  <2>1. \A x \in 1 .. Len(B) : B[x].loops <= (n + 1) - 1 <=> x <= Len(B)
    BY <1>2, <1>7, <1>9
  <2> QED BY <1>7, <1>8, <2>1 DEF LoopOK
<1>11. \A j \in 1 .. n + 1 : LoopOK(N, B, Q[j], j, q[j], gd, gn)
  <2> SUFFICES ASSUME NEW j \in 1 .. n + 1 PROVE LoopOK(N, B, Q[j], j, q[j], gd, gn)
    OBVIOUS
  <2>1. CASE j = n + 1
    BY <1>4, <1>5, <1>10, <2>1
  <2>2. CASE j \in 1 .. n
    BY <1>4, <1>5, <1>6, <2>2
  <2>3. j = n + 1 \/ j \in 1 .. n
    BY <1>2
  <2> QED BY ONLY <2>1, <2>2, <2>3
<1>12. LoopsOK(N, k, Q, B, gd, gn)
  BY <1>1, <1>3, <1>4, <1>5, <1>11 DEF LoopsOK
<1>13. BeginsOK(N, k, Q, B, gn)
  <2>1. \A x \in 1 .. Len(B) : B[x].loops <= Len(Q)
    BY <1>2, <1>4, <1>7, <1>9
  <2> QED BY <1>7, <2>1 DEF BeginsOK, Nb, Level
<1>14. HandlersOK(c, N, k, R, B, gd, gn) /\ LevelsOK(N, N[k].bodies, base, gd, gn)
  BY DEF Shape, HandlersOK
<1> QED BY <1>3, <1>8, <1>12, <1>13, <1>14 DEF Shape

\* ExitLoop.
LEMMA StayUnloop ==
  ASSUME NEW c, NEW N, WellNested(c, N), NEW i \in DOMAIN N, NEW k \in DOMAIN N, NEW V,
         NEW B \in Seq(BeginT(V)), NEW Ls \in Seq(LoopT), NEW R,
         NEW base, NEW d, NEW gd, NEW gn, Shape(c, N, i, base, d, R, Ls, B, gd, gn), c[i].op # Unnests,
         N[i].loops # <<>>, Level(N, Last(N[i].loops)) = Level(N, i),
         Len(N[Last(N[i].loops)].begins) = Len(N[i].begins),
         N[k].bodies = N[i].bodies, N[k].rescues = N[i].rescues,
         N[k].loops = Front(N[i].loops), N[k].begins = N[i].begins
  PROVE  /\ Shape(c, N, k, base, Dp(N, gd, k), R, Front(Ls), B, gd, gn)
         /\ Ls # <<>>
<1>1. PICK n, r : n = Len(Ls) /\ r = N[i].loops
  OBVIOUS
<1>2. n = Len(r) /\ n \in Nat \ {0} /\ r \in Seq(Addr(c)) /\ r # <<>> /\ Ls # <<>>
  BY <1>1, PointIs, EmptySeq DEF Shape, LoopsOK
<1>3. PICK Q, q : Q = Front(Ls) /\ q = Front(r)
  OBVIOUS
<1>4. Len(Q) = n - 1 /\ \A j \in 1 .. n - 1 : Q[j] = Ls[j]
  BY <1>1, <1>2, <1>3, FrontSeq, ZenonT(30)
<1>5. Len(q) = n - 1 /\ (\A j \in 1 .. n - 1 : q[j] = r[j]) /\ Last(r) = r[n]
  BY <1>2, <1>3, FrontSeq
<1>6. \A j \in 1 .. n : LoopOK(N, B, Ls[j], j, r[j], gd, gn)
  BY <1>1, <1>2 DEF Shape, LoopsOK
<1>7. LoopsOK(N, k, Q, B, gd, gn)
  <2>1. Len(Q) = Len(N[k].loops)
    BY <1>1, <1>3, <1>4, <1>5
  <2>2. ASSUME NEW j \in 1 .. Len(N[k].loops) PROVE LoopOK(N, B, Q[j], j, N[k].loops[j], gd, gn)
    <3>1. j \in 1 .. n - 1 /\ j \in 1 .. n /\ N[k].loops[j] = r[j] /\ Q[j] = Ls[j]
      BY <1>1, <1>2, <1>3, <1>4, <1>5, <2>1
    <3> QED BY <1>6, <3>1
  <2> QED BY <2>1, <2>2 DEF LoopsOK
<1>8. Nb(N, gn, r[n]) = Nb(N, gn, i) /\ Len(B) = Nb(N, gn, i) /\ Held(N, B, Len(B), N[i].begins)
  BY <1>1, <1>5 DEF Shape, BeginsOK, Nb
<1>9. \A x \in 1 .. Len(B) : B[x].loops <= n - 1
  <2>1. LoopOK(N, B, Ls[n], n, r[n], gd, gn)
    BY <1>2, <1>6
  <2>2. \A x \in 1 .. Len(B) : B[x].loops <= n - 1 <=> x <= Len(B)
    BY <1>8, <2>1 DEF LoopOK
  <2> QED BY <2>2, LenProperties
<1>10. BeginsOK(N, k, Q, B, gn)
  BY <1>4, <1>8, <1>9 DEF BeginsOK, Nb, Level
<1>11. HandlersOK(c, N, k, R, B, gd, gn) /\ LevelsOK(N, N[k].bodies, base, gd, gn)
  BY DEF Shape, HandlersOK
<1>12. Len(R) = Len(N[i].rescues)
  BY DEF Shape
<1> QED BY <1>2, <1>3, <1>7, <1>10, <1>11, <1>12 DEF Shape

(***************************************************************************)
(* Walks.  X and W are the transfers and method walks that are parked in a *)
(* frame at i.  A level of its ensure bodies is live when one of them waits *)
(* for its EndEnsure, or an exception does on the operand stack; a return  *)
(* that leaves from a body sweeps the walks of levels 1 .. m, which then    *)
(* nothing but other returns goes back to.                                 *)
(***************************************************************************)
AtT == [on : BOOLEAN, frame : Nat, rescues : Nat, stack : Nat, loops : Nat, seq : Nat, body : Int]
XferT(V) == [value : Seq(V), ip : Int, rescues : Nat, loops : Nat, stack : Nat, at : AtT]
WalkT(V) == [value : V, target : Nat, at : AtT]

Ats(X) == {t.at : t \in X}
Parks(X, W, P) == P = Ats(X) \cup Ats(W)
AllAt(N, A, l) == \A at \in A : Level(N, at.body) = l
Agree(gd, hd, l) == \A x \in 0 .. l : hd[x] = gd[x]
Scope(N, i, p, a) == a = N[i].rescues[p]
Within(N, X, l) == {t \in X : Level(N, t.at.body) <= l}
Least(m, l) == IF m <= l THEN m ELSE l

Live(N, P, s, gd, l) ==
  \/ \E at \in P : Level(N, at.body) = l
  \/ gd[l] > gd[l - 1] + N[s[l]].depth

ParksOK(c, N, P, s, gd) ==
  \A at \in P :
    /\ at.on /\ at.body \in DOMAIN N
    /\ Level(N, at.body) \in 1 .. Len(s) /\ at.body = Goal(c, s[Level(N, at.body)])
    /\ at.rescues = Len(N[at.body].rescues) /\ at.loops = Len(N[at.body].loops)
    /\ at.stack = gd[Level(N, at.body)]

\* The transfer t, from i, goes to the innermost loop of i.
Aims(N, t, i, gd) ==
  LET a == Last(N[i].loops)
  IN /\ N[i].loops # <<>>
     /\ t.loops + 1 = Len(N[i].loops) /\ t.rescues = Len(N[a].rescues) /\ t.stack = Dp(N, gd, a)
     /\ Is(N, t.ip, Point(N[a].entry, N[a].rescues, N[i].loops, N[a].bodies, N[a].begins,
                          N[a].depth + Len(t.value)))

XferOK(N, t, P, gd, m) ==
  LET b == t.at.body  a == Last(N[b].loops)
  IN /\ Aims(N, t, b, gd)
     /\ \A o \in P : Level(N, o.body) < Level(N, b) => Level(N, o.body) <= Level(N, a)
     /\ Level(N, a) = 0 \/ Level(N, a) > m

\* A return's walk leaves the method through regions that returns leave through.
Exits(c, N, i) ==
  /\ N[i].entry # 1
  /\ \A j \in 1 .. Len(N[i].rescues) :
       Ens(c, N[i].rescues[j]) => /\ Len(N[N[i].rescues[j]].loops) = Len(N[i].loops)
                                  /\ Crossed(c, N, N[i].rescues[j])

WalkOK(c, N, w, P, k, m) ==
  LET b == w.at.body
  IN /\ w.target = k /\ Exits(c, N, b)
     /\ \A o \in P : Level(N, o.body) >= Level(N, b)
     /\ m >= Level(N, b) - 1

HandlerLive(c, N, P, s, gd, m, a) ==
  \/ Level(N, a) = 0
  \/ Ens(c, a) /\ (Level(N, a) > m \/ Crossed(c, N, a))
  \/ ~ Ens(c, a) /\ Level(N, a) > m /\ Live(N, P, s, gd, Level(N, a))
LoopLive(N, P, s, gd, m, a) ==
  Level(N, a) = 0 \/ Level(N, a) <= m \/ Live(N, P, s, gd, Level(N, a))

LiveOK(c, N, P, i, gd, m) ==
  /\ m = 0 \/ (m < Level(N, i) /\ Crossed(c, N, N[i].bodies[m + 1]))
  /\ Level(N, i) = 0 \/ Live(N, P, N[i].bodies, gd, Level(N, i))
  /\ \A j \in 1 .. Len(N[i].rescues) : HandlerLive(c, N, P, N[i].bodies, gd, m, N[i].rescues[j])
  /\ \A j \in 1 .. Len(N[i].loops) : LoopLive(N, P, N[i].bodies, gd, m, N[i].loops[j])

Life(c, N, i, gd, m, k, X, W) ==
  /\ ParksOK(c, N, Ats(X) \cup Ats(W), N[i].bodies, gd)
  /\ \A t \in X : XferOK(N, t, Ats(X) \cup Ats(W), gd, m)
  /\ \A w \in W : WalkOK(c, N, w, Ats(X) \cup Ats(W), k, m)
  /\ LiveOK(c, N, Ats(X) \cup Ats(W), i, gd, m)

\* The ops that stay in the same body.
LEMMA LifeStay ==
  ASSUME NEW c, NEW N, WellNested(c, N), NEW i \in DOMAIN N, NEW k \in DOMAIN N,
         NEW gd, NEW m \in Nat, NEW f, NEW X, NEW W, Life(c, N, i, gd, m, f, X, W),
         N[k].bodies = N[i].bodies,
         \A j \in 1 .. Len(N[k].rescues) :
           N[k].rescues[j] = i \/ \E h \in 1 .. Len(N[i].rescues) : N[k].rescues[j] = N[i].rescues[h],
         \A j \in 1 .. Len(N[k].loops) :
           N[k].loops[j] = i \/ \E h \in 1 .. Len(N[i].loops) : N[k].loops[j] = N[i].loops[h]
  PROVE  Life(c, N, k, gd, m, f, X, W)
<1>1. PICK P, s : P = Ats(X) \cup Ats(W) /\ s = N[i].bodies
  OBVIOUS
<1>2. LiveOK(c, N, P, i, gd, m) /\ Level(N, k) = Level(N, i) /\ Level(N, i) \in Nat
  BY <1>1, PointIs DEF Life, Level
<1>3. HandlerLive(c, N, P, s, gd, m, i) /\ LoopLive(N, P, s, gd, m, i)
  BY <1>1, <1>2 DEF LiveOK, HandlerLive, LoopLive
<1>4. \A j \in 1 .. Len(N[k].rescues) : HandlerLive(c, N, P, s, gd, m, N[k].rescues[j])
  BY <1>1, <1>2, <1>3 DEF LiveOK
<1>5. \A j \in 1 .. Len(N[k].loops) : LoopLive(N, P, s, gd, m, N[k].loops[j])
  BY <1>1, <1>2, <1>3 DEF LiveOK
<1>6. LiveOK(c, N, P, k, gd, m)
  BY <1>1, <1>2, <1>4, <1>5 DEF LiveOK
<1> QED BY <1>1, <1>6 DEF Life

\* The walks of the outer levels.
LEMMA WithinAts ==
  ASSUME NEW N, NEW X, NEW l
  PROVE  Ats(Within(N, X, l)) = {at \in Ats(X) : Level(N, at.body) <= l}
BY DEF Ats, Within

\* A live level stays live while its walk does.
LEMMA LiveKept ==
  ASSUME NEW N, NEW P, NEW Q, NEW s, NEW t, NEW gd, NEW hd, NEW l, Live(N, P, s, gd, l),
         hd[l] = gd[l], hd[l - 1] = gd[l - 1], t[l] = s[l],
         \A at \in P : Level(N, at.body) = l => at \in Q
  PROVE  Live(N, Q, t, hd, l)
BY DEF Live

\* What the walks of levels up to l promise once the others are gone and new ones
\* are parked in deeper levels.
LEMMA Survivors ==
  ASSUME NEW c, NEW N, WellNested(c, N), NEW i \in DOMAIN N, NEW a, Around(N, a, i),
         NEW gd, NEW m \in Nat, NEW f, NEW X, NEW W, Life(c, N, i, gd, m, f, X, W),
         NEW l \in Nat, l <= Level(N, a), NEW hd, Agree(gd, hd, Level(N, a)),
         NEW s, Len(s) \in Nat, Sub(N[a].bodies, s),
         NEW A, AllAt(N, A, Level(N, a) + 1),
         NEW P, Parks(Within(N, X, l), Within(N, W, l), P)
  PROVE  /\ ParksOK(c, N, P, s, hd)
         /\ \A t \in Within(N, X, l) : XferOK(N, t, P \cup A, hd, Least(m, Level(N, a)))
         /\ \A w \in Within(N, W, l) : WalkOK(c, N, w, P \cup A, f, Least(m, Level(N, a)))
<1> USE DEF AllAt, Agree
<1>1. PICK O : O = Ats(X) \cup Ats(W)
  OBVIOUS
<1>2. P = {at \in O : Level(N, at.body) <= l}
  <2>1. PICK Q, R : Q = Ats(Within(N, X, l)) /\ R = Ats(Within(N, W, l))
    OBVIOUS
  <2>2. Q = {at \in Ats(X) : Level(N, at.body) <= l} /\ R = {at \in Ats(W) : Level(N, at.body) <= l}
    BY <2>1, WithinAts
  <2>3. P = Q \cup R
    BY <2>1 DEF Parks
  <2> QED BY ONLY <1>1, <2>2, <2>3
<1>3. ParksOK(c, N, O, N[i].bodies, gd)
  BY <1>1 DEF Life
<1>4. /\ a \in DOMAIN N /\ Sub(N[a].bodies, N[i].bodies) /\ Level(N, a) \in Nat
      /\ Level(N, a) <= Level(N, i)
  BY AroundIs
<1>5. ASSUME NEW at \in P
      PROVE /\ at.on /\ at.body \in DOMAIN N
            /\ Level(N, at.body) \in 1 .. Level(N, a) /\ at.body = Goal(c, N[i].bodies[Level(N, at.body)])
            /\ at.rescues = Len(N[at.body].rescues) /\ at.loops = Len(N[at.body].loops)
            /\ at.stack = gd[Level(N, at.body)]
  BY <1>2, <1>3, <1>4 DEF ParksOK
<1>6. ParksOK(c, N, P, s, hd)
  <2> SUFFICES ASSUME NEW at \in P
      PROVE /\ at.on /\ at.body \in DOMAIN N
            /\ Level(N, at.body) \in 1 .. Len(s) /\ at.body = Goal(c, s[Level(N, at.body)])
            /\ at.rescues = Len(N[at.body].rescues) /\ at.loops = Len(N[at.body].loops)
            /\ at.stack = hd[Level(N, at.body)]
    BY DEF ParksOK
  <2>1. PICK v : v = Level(N, at.body)
    OBVIOUS
  <2>2. v \in 1 .. Level(N, a) /\ v \in 0 .. Level(N, a)
    BY <1>4, <1>5, <2>1
  <2>3. v \in 1 .. Len(s) /\ s[v] = N[i].bodies[v]
    BY <1>4, <2>2 DEF Sub, Level
  <2> QED BY <1>5, <2>1, <2>2, <2>3
<1>7. ASSUME NEW t \in Within(N, X, l) PROVE XferOK(N, t, P \cup A, hd, Least(m, Level(N, a)))
  <2>1. PICK b, e : b = t.at.body /\ e = Last(N[b].loops)
    OBVIOUS
  <2>2. XferOK(N, t, O, gd, m) /\ t.at \in P
    BY <1>1, <1>2 DEF Life, Within, Ats
  <2>3. b \in DOMAIN N /\ Level(N, b) \in 1 .. Level(N, a)
    BY <1>5, <2>1, <2>2
  <2>4. Around(N, e, b)
    <3>1. N[b].loops # <<>> /\ N[b].loops \in Seq(Addr(c))
      BY <2>1, <2>2, <2>3, PointIs DEF XferOK, Aims
    <3>2. e = N[b].loops[Len(N[b].loops)] /\ Len(N[b].loops) \in 1 .. Len(N[b].loops)
      BY <2>1, <3>1, FrontSeq
    <3> QED BY <2>3, <3>2, LoopIs
  <2>5. Level(N, e) \in 0 .. Level(N, a)
    BY <1>4, <2>3, <2>4, AroundIs
  <2>6. Dp(N, hd, e) = Dp(N, gd, e)
    BY <2>5 DEF Dp
  <2>7. Aims(N, t, b, hd)
    BY <2>1, <2>2, <2>6, ZenonT(30) DEF XferOK, Aims
  <2>8. \A o \in P \cup A : Level(N, o.body) < Level(N, b) => Level(N, o.body) <= Level(N, e)
    <3>1. \A o \in P : Level(N, o.body) < Level(N, b) => Level(N, o.body) <= Level(N, e)
      BY <1>2, <2>1, <2>2 DEF XferOK
    <3>2. \A o \in A : ~ (Level(N, o.body) < Level(N, b))
      BY <1>4, <2>3
    <3> QED BY <3>1, <3>2
  <2>9. Level(N, e) = 0 \/ Level(N, e) > Least(m, Level(N, a))
    BY <1>4, <2>1, <2>2, <2>5 DEF XferOK, Least
  <2> QED BY <2>1, <2>7, <2>8, <2>9 DEF XferOK
<1>8. ASSUME NEW w \in Within(N, W, l) PROVE WalkOK(c, N, w, P \cup A, f, Least(m, Level(N, a)))
  <2>1. PICK b : b = w.at.body
    OBVIOUS
  <2>2. WalkOK(c, N, w, O, f, m) /\ w.at \in P
    BY <1>1, <1>2 DEF Life, Within, Ats
  <2>3. Level(N, b) \in 1 .. Level(N, a)
    BY <1>5, <2>1, <2>2
  <2>4. \A o \in P \cup A : Level(N, o.body) >= Level(N, b)
    <3>1. \A o \in P : Level(N, o.body) >= Level(N, b)
      BY <1>2, <2>1, <2>2 DEF WalkOK
    <3>2. \A o \in A : Level(N, o.body) >= Level(N, b)
      BY <1>4, <2>3
    <3> QED BY <3>1, <3>2
  <2>5. Least(m, Level(N, a)) >= Level(N, b) - 1
    BY <1>4, <2>1, <2>2, <2>3 DEF WalkOK, Least
  <2> QED BY <2>1, <2>2, <2>4, <2>5 DEF WalkOK
<1> QED BY <1>6, <1>7, <1>8

\* The walks of P beyond level l are in no rescue clause and loop around the p-th
\* handler a of i.
Spared(c, N, i, p, a, P, l) ==
  \A at \in P : Level(N, at.body) <= l \/
    /\ \A j \in 1 .. p - 1 : Ens(c, N[i].rescues[j]) \/ Level(N, N[i].rescues[j]) # Level(N, at.body)
    /\ \A j \in 1 .. Len(N[a].loops) : Level(N, N[a].loops[j]) # Level(N, at.body)

\* What is entered in the body k that a protects: parked transfers Y, or an exception.
Parking(c, N, Y, k, a, gd, hd, m, P) ==
  /\ \A t \in Y : Level(N, t.at.body) = Level(N, a) + 1
  /\ ParksOK(c, N, Ats(Y), N[k].bodies, hd)
  /\ \A t \in Y : XferOK(N, t, P, hd, Least(m, Level(N, a)))
  /\ Y # {} \/ hd[Level(N, a) + 1] > Dp(N, gd, a)

\* Entering the ensure body k that the p-th handler of i protects, with the walks
\* of levels up to l and those of Y, parked in it.
LEMMA LifeEnter ==
  ASSUME NEW c, NEW N, WellNested(c, N), NEW i \in DOMAIN N, NEW p \in 1 .. Len(N[i].rescues),
         NEW a, Scope(N, i, p, a), Ens(c, a), NEW k \in DOMAIN N, BodyOf(N, a, k),
         NEW gd, NEW m \in Nat, NEW f, NEW X, NEW W, Life(c, N, i, gd, m, f, X, W),
         NEW l \in Nat, l <= Level(N, a), NEW hd, Agree(gd, hd, Level(N, a)),
         Spared(c, N, i, p, a, Ats(X) \cup Ats(W), l),
         NEW Y, NEW P, Parks(Within(N, X, l) \cup Y, Within(N, W, l), P),
         Parking(c, N, Y, k, a, gd, hd, m, P)
  PROVE  Life(c, N, k, hd, Least(m, Level(N, a)), f, Within(N, X, l) \cup Y, Within(N, W, l))
<1>0. WellNested(c, N) /\ i \in DOMAIN N /\ p \in 1 .. Len(N[i].rescues) /\ m \in Nat
  OBVIOUS
<1>a. /\ Life(c, N, i, gd, m, f, X, W) /\ l \in Nat /\ l <= Level(N, a)
      /\ Parks(Within(N, X, l) \cup Y, Within(N, W, l), P)
  OBVIOUS
<1>b. m \in Nat
  OBVIOUS
<1>1. PICK O, Q, L, s, t : /\ O = Ats(X) \cup Ats(W) /\ Q = Ats(Within(N, X, l)) \cup Ats(Within(N, W, l))
                           /\ L = Level(N, a) /\ s = N[i].bodies /\ t = N[k].bodies
  OBVIOUS
<1>2. /\ a = N[i].rescues[p] /\ Ens(c, a) /\ k \in DOMAIN N /\ t = Append(N[a].bodies, a)
      /\ N[k].rescues = N[a].rescues /\ N[k].loops = N[a].loops
      /\ \A x \in 0 .. L : hd[x] = gd[x]
  BY <1>1 DEF Scope, BodyOf, Agree
<1>3. \A at \in O : Level(N, at.body) <= l \/
        /\ \A j \in 1 .. p - 1 : Ens(c, N[i].rescues[j]) \/ Level(N, N[i].rescues[j]) # Level(N, at.body)
        /\ \A j \in 1 .. Len(N[a].loops) : Level(N, N[a].loops[j]) # Level(N, at.body)
  BY <1>1 DEF Spared
<1>4. /\ \A y \in Y : Level(N, y.at.body) = L + 1
      /\ ParksOK(c, N, Ats(Y), t, hd)
      /\ \A u \in Y : XferOK(N, u, P, hd, Least(m, L))
      /\ Y # {} \/ hd[L + 1] > Dp(N, gd, a)
  BY <1>1 DEF Parking
<1>5. P = Q \cup Ats(Y) /\ Q = {at \in O : Level(N, at.body) <= l}
  <2>1. PICK x, y, z : /\ x = Ats(Within(N, X, l)) /\ y = Ats(Within(N, W, l))
                       /\ z = Ats(Within(N, X, l) \cup Y)
    OBVIOUS
  <2>2. x = {at \in Ats(X) : Level(N, at.body) <= l} /\ y = {at \in Ats(W) : Level(N, at.body) <= l}
    BY ONLY <2>1, WithinAts
  <2>3. z = x \cup Ats(Y)
    BY ONLY <2>1 DEF Ats
  <2>4. P = z \cup y /\ Q = x \cup y /\ O = Ats(X) \cup Ats(W)
    BY ONLY <1>a, <1>1, <2>1 DEF Parks
  <2> QED BY ONLY <2>2, <2>3, <2>4
<1>6. /\ a \in DOMAIN N /\ Around(N, a, i) /\ Len(N[a].rescues) = p - 1
  <2>1. /\ N[i].rescues[p] \in DOMAIN N /\ Around(N, N[i].rescues[p], i)
        /\ Len(N[N[i].rescues[p]].rescues) = p - 1
    BY ONLY <1>0, HandlerIs
  <2> QED BY ONLY <1>2, <2>1
<1>7. /\ Sub(N[a].bodies, s) /\ L \in Nat /\ L <= Len(s) /\ L = Len(N[a].bodies)
      /\ Sub(N[a].rescues, N[i].rescues) /\ Sub(N[a].loops, N[i].loops)
  BY ONLY <1>0, <1>1, <1>6, AroundIs DEF Level, Sub
<1>8. /\ Len(t) = L + 1 /\ Len(t) \in Nat /\ t[L + 1] = a
      /\ Sub(N[a].bodies, t) /\ \A x \in 1 .. L : t[x] = s[x]
  <2>1. N[a].bodies \in Seq(Addr(c)) /\ a \in Addr(c)
    BY ONLY <1>0, <1>6, PointIs
  <2>2. PICK q : q = N[a].bodies
    OBVIOUS
  <2>3. t = Append(q, a) /\ q \in Seq(Addr(c)) /\ L = Len(q)
    BY ONLY <1>2, <1>7, <2>1, <2>2
  <2>4. Len(t) = L + 1 /\ t[L + 1] = a /\ \A x \in 1 .. L : t[x] = q[x]
    BY ONLY <2>1, <2>3, AppendSeq
  <2>5. \A x \in 1 .. L : q[x] = s[x]
    BY ONLY <1>7, <2>2 DEF Sub
  <2>6. Sub(q, t) /\ Len(t) \in Nat
    BY ONLY <1>7, <2>3, <2>4 DEF Sub
  <2> QED BY ONLY <2>2, <2>4, <2>5, <2>6
<1>9. /\ ParksOK(c, N, Q, t, hd)
      /\ \A u \in Within(N, X, l) : XferOK(N, u, P, hd, Least(m, L))
      /\ \A w \in Within(N, W, l) : WalkOK(c, N, w, P, f, Least(m, L))
  <2>1. PICK A : A = Ats(Y)
    OBVIOUS
  <2>2. AllAt(N, A, L + 1) /\ Agree(gd, hd, L)
    BY ONLY <1>2, <1>4, <2>1 DEF AllAt, Agree, Ats
  <2>3. Parks(Within(N, X, l), Within(N, W, l), Q) /\ P = Q \cup A
    BY ONLY <1>1, <1>5, <2>1 DEF Parks
  <2>4. /\ ParksOK(c, N, Q, t, hd)
        /\ \A u \in Within(N, X, l) : XferOK(N, u, Q \cup A, hd, Least(m, Level(N, a)))
        /\ \A w \in Within(N, W, l) : WalkOK(c, N, w, Q \cup A, f, Least(m, Level(N, a)))
    BY ONLY <1>0, <1>a, <1>1, <1>6, <1>8, <2>2, <2>3, Survivors, ZenonT(30)
  <2> QED BY ONLY <1>1, <2>3, <2>4
<1>10. ParksOK(c, N, P, t, hd)
  BY ONLY <1>4, <1>5, <1>9 DEF ParksOK
<1>11. LiveOK(c, N, O, i, gd, m) /\ ParksOK(c, N, O, s, gd)
  BY ONLY <1>a, <1>1 DEF Life
<1>12. Least(m, L) \in Nat /\ Least(m, L) <= m /\ Least(m, L) <= L
  BY ONLY <1>b, <1>7 DEF Least
<1>13. Level(N, k) = L + 1
  BY ONLY <1>1, <1>8 DEF Level
<1>14. Least(m, L) = 0 \/ Crossed(c, N, t[Least(m, L) + 1])
  <2>1. CASE m < L
    <3>1. m = 0 \/ Crossed(c, N, s[m + 1])
      BY ONLY <1>1, <1>11 DEF LiveOK
    <3>2. m + 1 \in 1 .. L
      BY ONLY <1>b, <1>7, <2>1
    <3>3. Least(m, L) = m
      BY ONLY <1>b, <1>7, <2>1 DEF Least
    <3> QED BY ONLY <1>8, <3>1, <3>2, <3>3
  <2>2. CASE ~ (m < L)
    <3>1. HandlerLive(c, N, O, s, gd, m, a)
      BY ONLY <1>0, <1>1, <1>2, <1>11 DEF LiveOK
    <3>2. L = 0 \/ L > m \/ Crossed(c, N, a)
      BY ONLY <1>1, <1>2, <3>1 DEF HandlerLive
    <3>3. Least(m, L) = L
      BY ONLY <1>b, <1>7, <2>2 DEF Least
    <3>4. ~ (L > m)
      BY ONLY <1>b, <1>7, <2>2
    <3> QED BY ONLY <1>8, <3>2, <3>3, <3>4
  <2> QED BY ONLY <2>1, <2>2
<1>15. Live(N, P, t, hd, L + 1)
  <2>1. CASE Y # {}
    <3>1. PICK y \in Y : TRUE
      BY ONLY <2>1
    <3>2. y.at \in P /\ Level(N, y.at.body) = L + 1
      BY ONLY <1>4, <1>5, <3>1 DEF Ats
    <3> QED BY ONLY <3>2 DEF Live
  <2>2. CASE hd[L + 1] > Dp(N, gd, a)
    <3>1. L \in 0 .. L /\ (L + 1) - 1 = L
      BY ONLY <1>7
    <3>2. Dp(N, gd, a) = hd[L] + N[a].depth
      BY ONLY <1>1, <1>2, <3>1 DEF Dp
    <3> QED BY ONLY <1>8, <2>2, <3>1, <3>2 DEF Live
  <2> QED BY ONLY <1>4, <2>1, <2>2
<1>16. ASSUME NEW v \in 1 .. L, Live(N, O, s, gd, v), \A at \in O : Level(N, at.body) = v => at \in P
       PROVE  Live(N, P, t, hd, v)
  <2>1. v \in 0 .. L /\ v - 1 \in 0 .. L
    BY ONLY <1>7, <1>16
  <2>2. hd[v] = gd[v] /\ hd[v - 1] = gd[v - 1] /\ t[v] = s[v]
    BY ONLY <1>2, <1>8, <1>16, <2>1
  <2> QED BY ONLY <1>16, <2>2, LiveKept
<1>17. ASSUME NEW j \in 1 .. Len(N[a].rescues)
       PROVE  HandlerLive(c, N, P, t, hd, Least(m, L), N[a].rescues[j])
  <2>1. PICK r : r = N[a].rescues[j]
    OBVIOUS
  <2>2. j \in 1 .. p - 1 /\ j \in 1 .. Len(N[i].rescues) /\ r = N[i].rescues[j]
    BY ONLY <1>6, <1>7, <1>17, <2>1 DEF Sub
  <2>3. HandlerLive(c, N, O, s, gd, m, r)
    BY ONLY <1>1, <1>11, <2>2 DEF LiveOK
  <2>4. Level(N, r) \in 0 .. L
    <3>1. Around(N, r, a)
      BY ONLY <1>0, <1>6, <1>17, <2>1, HandlerIs, SMTT(30)
    <3>2. Level(N, r) \in Nat /\ Level(N, r) <= Level(N, a)
      BY ONLY <1>0, <1>6, <3>1, AroundIs
    <3> QED BY ONLY <1>1, <1>7, <3>2
  <2>5. CASE Level(N, r) = 0
    BY ONLY <2>1, <2>5 DEF HandlerLive
  <2>6. CASE Ens(c, r)
    <3>1. Level(N, r) = 0 \/ Level(N, r) > m \/ Crossed(c, N, r)
      BY ONLY <2>3, <2>6 DEF HandlerLive
    <3>2. Level(N, r) > m => Level(N, r) > Least(m, L)
      BY ONLY <1>b, <1>12, <2>4
    <3> QED BY ONLY <2>1, <2>6, <3>1, <3>2 DEF HandlerLive
  <2>7. CASE Level(N, r) # 0 /\ ~ Ens(c, r)
    <3>1. Level(N, r) > m /\ Live(N, O, s, gd, Level(N, r))
      BY ONLY <2>3, <2>7 DEF HandlerLive
    <3>2. Level(N, r) > Least(m, L)
      BY ONLY <1>b, <1>12, <2>4, <3>1
    <3>3. \A at \in O : Level(N, at.body) = Level(N, r) => at \in P
      BY ONLY <1>3, <1>5, <2>2, <2>7
    <3>4. Level(N, r) \in 1 .. L
      BY ONLY <2>4, <2>7
    <3>5. Live(N, P, t, hd, Level(N, r))
      BY ONLY <1>16, <3>1, <3>3, <3>4
    <3> QED BY ONLY <2>1, <2>7, <3>2, <3>5 DEF HandlerLive
  <2> QED BY ONLY <2>5, <2>6, <2>7
<1>18. ASSUME NEW j \in 1 .. Len(N[a].loops)
       PROVE  LoopLive(N, P, t, hd, Least(m, L), N[a].loops[j])
  <2>1. PICK r : r = N[a].loops[j]
    OBVIOUS
  <2>2. j \in 1 .. Len(N[i].loops) /\ r = N[i].loops[j]
    BY ONLY <1>7, <1>18, <2>1 DEF Sub
  <2>3. LoopLive(N, O, s, gd, m, r)
    BY ONLY <1>1, <1>11, <2>2 DEF LiveOK
  <2>4. Level(N, r) \in 0 .. L
    <3>1. Around(N, r, a)
      BY ONLY <1>0, <1>6, <1>18, <2>1, LoopIs
    <3>2. Level(N, r) \in Nat /\ Level(N, r) <= Level(N, a)
      BY ONLY <1>0, <1>6, <3>1, AroundIs
    <3> QED BY ONLY <1>1, <1>7, <3>2
  <2>5. CASE Level(N, r) = 0 \/ Level(N, r) <= m
    <3>1. Level(N, r) = 0 \/ Level(N, r) <= Least(m, L)
      BY ONLY <1>b, <1>7, <2>4, <2>5 DEF Least
    <3> QED BY ONLY <2>1, <3>1 DEF LoopLive
  <2>6. CASE Level(N, r) # 0 /\ ~ (Level(N, r) <= m)
    <3>1. Live(N, O, s, gd, Level(N, r))
      BY ONLY <2>3, <2>6 DEF LoopLive
    <3>2. \A at \in O : Level(N, at.body) = Level(N, r) => at \in P
      BY ONLY <1>3, <1>5, <1>18, <2>1
    <3>3. Level(N, r) \in 1 .. L
      BY ONLY <2>4, <2>6
    <3>4. Live(N, P, t, hd, Level(N, r))
      BY ONLY <1>16, <3>1, <3>2, <3>3
    <3> QED BY ONLY <2>1, <3>4 DEF LoopLive
  <2> QED BY ONLY <2>5, <2>6
<1>19. LiveOK(c, N, P, k, hd, Least(m, L))
  <2>1. Least(m, L) < Level(N, k)
    BY ONLY <1>7, <1>12, <1>13
  <2>2. /\ Least(m, L) = 0 \/ Crossed(c, N, N[k].bodies[Least(m, L) + 1])
        /\ Live(N, P, N[k].bodies, hd, Level(N, k))
    BY ONLY <1>1, <1>13, <1>14, <1>15
  <2>3. t = N[k].bodies /\ N[k].rescues = N[a].rescues /\ N[k].loops = N[a].loops
    BY ONLY <1>1, <1>2
  <2>4. \A j \in 1 .. Len(N[k].rescues) : HandlerLive(c, N, P, N[k].bodies, hd, Least(m, L), N[k].rescues[j])
    BY ONLY <1>17, <2>3
  <2>5. \A j \in 1 .. Len(N[k].loops) : LoopLive(N, P, N[k].bodies, hd, Least(m, L), N[k].loops[j])
    BY ONLY <1>18, <2>3
  <2> QED BY ONLY <2>1, <2>2, <2>4, <2>5 DEF LiveOK
<1>20. \A u \in Within(N, X, l) \cup Y : XferOK(N, u, P, hd, Least(m, L))
  BY ONLY <1>4, <1>9
<1>21. PICK xs, ws, g : xs = Within(N, X, l) \cup Y /\ ws = Within(N, W, l) /\ g = Least(m, L)
  OBVIOUS
<1>22. P = Ats(xs) \cup Ats(ws)
  BY ONLY <1>a, <1>21 DEF Parks
<1>23. /\ ParksOK(c, N, P, N[k].bodies, hd) /\ LiveOK(c, N, P, k, hd, g)
       /\ \A u \in xs : XferOK(N, u, P, hd, g)
       /\ \A w \in ws : WalkOK(c, N, w, P, f, g)
  BY ONLY <1>1, <1>9, <1>10, <1>19, <1>20, <1>21
<1>24. Life(c, N, k, hd, g, f, xs, ws)
  BY ONLY <1>22, <1>23 DEF Life
<1> QED BY ONLY <1>1, <1>21, <1>24

\* Landing in the body that a is in.
LEMMA LifeLand ==
  ASSUME NEW c, NEW N, WellNested(c, N), NEW i \in DOMAIN N, NEW a, Around(N, a, i), NEW k \in DOMAIN N,
         NEW gd, NEW m \in Nat, NEW f, NEW X, NEW W, Life(c, N, i, gd, m, f, X, W),
         N[k].bodies = N[a].bodies, Sub(N[k].rescues, N[a].rescues),
         \A j \in 1 .. Len(N[k].loops) :
           N[k].loops[j] = a \/ \E h \in 1 .. Len(N[a].loops) : N[k].loops[j] = N[a].loops[h],
         \/ Level(N, a) = 0
         \/ Level(N, a) > m /\ Live(N, Ats(X) \cup Ats(W), N[i].bodies, gd, Level(N, a))
  PROVE  Life(c, N, k, gd, Least(m, Level(N, a)), f, Within(N, X, Level(N, a)), Within(N, W, Level(N, a)))
<1>1. PICK O, P, L, s, t : /\ O = Ats(X) \cup Ats(W) /\ P = Ats(Within(N, X, L)) \cup Ats(Within(N, W, L))
                           /\ L = Level(N, a) /\ s = N[i].bodies /\ t = N[k].bodies
  OBVIOUS
<1>2. P = {at \in O : Level(N, at.body) <= L}
  BY <1>1, WithinAts
<1>3. /\ a \in DOMAIN N /\ Sub(N[a].bodies, s) /\ L \in Nat /\ L = Len(t) /\ L <= Len(s)
      /\ Sub(N[a].rescues, N[i].rescues) /\ Sub(N[a].loops, N[i].loops)
  BY <1>1, AroundIs DEF Level
<1>4. \A x \in 1 .. L : t[x] = s[x]
  BY <1>1, <1>3 DEF Sub
<1>5. /\ ParksOK(c, N, P, t, gd)
      /\ \A u \in Within(N, X, L) : XferOK(N, u, P, gd, Least(m, L))
      /\ \A w \in Within(N, W, L) : WalkOK(c, N, w, P, f, Least(m, L))
  <2>1. PICK A : A = {}
    OBVIOUS
  <2>2. P \cup A = P /\ (\A at \in A : Level(N, at.body) = Level(N, a) + 1)
    BY <2>1
  <2>3. Sub(N[a].bodies, t) /\ Len(t) \in Nat /\ L <= L /\ \A x \in 0 .. L : gd[x] = gd[x]
    BY <1>1, <1>3 DEF Sub, Level
  <2>4. /\ ParksOK(c, N, P, t, gd)
        /\ \A u \in Within(N, X, L) : XferOK(N, u, P \cup A, gd, Least(m, L))
        /\ \A w \in Within(N, W, L) : WalkOK(c, N, w, P \cup A, f, Least(m, L))
    <3>1. Parks(Within(N, X, L), Within(N, W, L), P)
      BY <1>1 DEF Parks
    <3>2. /\ AllAt(N, A, Level(N, a) + 1) /\ Agree(gd, gd, Level(N, a))
          /\ L \in Nat /\ L <= Level(N, a) /\ Level(N, a) = L
      BY <1>1, <1>3, <2>2 DEF AllAt, Agree
    <3> QED BY <2>3, <3>1, <3>2, Survivors
  <2> QED BY <2>2, <2>4
<1>6. LiveOK(c, N, O, i, gd, m)
  BY <1>1 DEF Life
<1>7. Least(m, L) \in Nat /\ Least(m, L) <= m /\ Least(m, L) <= L /\ (L # 0 => Least(m, L) = m /\ m < L)
  BY <1>1, <1>3 DEF Least
<1>8. Level(N, k) = L
  BY <1>1, <1>3 DEF Level
<1>9. Least(m, L) = 0 \/ (Least(m, L) < L /\ Crossed(c, N, t[Least(m, L) + 1]))
  <2> SUFFICES ASSUME L # 0, m # 0 PROVE m < L /\ Crossed(c, N, t[m + 1])
    BY <1>3, <1>7
  <2>1. m + 1 \in 1 .. L
    BY <1>3, <1>7
  <2> QED BY <1>1, <1>4, <1>6, <1>7, <2>1 DEF LiveOK
<1>10. ASSUME NEW v \in 1 .. L, Live(N, O, s, gd, v) PROVE Live(N, P, t, gd, v)
  <2>1. \A at \in O : Level(N, at.body) = v => at \in P
    BY <1>2, <1>10
  <2> QED BY <1>4, <1>10, <2>1, LiveKept
<1>11. L = 0 \/ Live(N, P, t, gd, L)
  <2>1. L = 0 \/ (L \in 1 .. L /\ Live(N, O, s, gd, L))
    BY <1>1, <1>3
  <2> QED BY ONLY <1>10, <2>1
<1>12. ASSUME NEW j \in 1 .. Len(N[k].rescues)
       PROVE  HandlerLive(c, N, P, t, gd, Least(m, L), N[k].rescues[j])
  <2>1. PICK r : r = N[k].rescues[j]
    OBVIOUS
  <2>2. j \in 1 .. Len(N[a].rescues) /\ r = N[a].rescues[j] /\ j \in 1 .. Len(N[i].rescues) /\ r = N[i].rescues[j]
    BY <1>3, <2>1 DEF Sub
  <2>3. HandlerLive(c, N, O, s, gd, m, r)
    BY <1>1, <1>6, <2>2 DEF LiveOK
  <2>4. Level(N, r) \in 0 .. L
    <3>1. Around(N, N[a].rescues[j], a)
      BY <1>3, <2>2, HandlerIs
    <3>2. Level(N, r) \in Nat /\ Level(N, r) <= Level(N, a)
      BY <1>3, <2>2, <3>1, AroundIs
    <3> QED BY ONLY <1>1, <1>3, <3>2
  <2>5. CASE Level(N, r) = 0
    BY <2>1, <2>5 DEF HandlerLive
  <2>6. CASE Level(N, r) # 0
    <3>1. Level(N, r) \in 1 .. L /\ Least(m, L) = m
      BY <1>3, <1>7, <2>4, <2>6
    <3> QED BY <1>10, <2>1, <2>3, <3>1 DEF HandlerLive
  <2> QED BY <2>5, <2>6
<1>13. ASSUME NEW j \in 1 .. Len(N[k].loops)
       PROVE  LoopLive(N, P, t, gd, Least(m, L), N[k].loops[j])
  <2>1. PICK r : r = N[k].loops[j]
    OBVIOUS
  <2>2. CASE r = a
    BY <1>1, <1>11, <2>1, <2>2 DEF LoopLive
  <2>3. CASE r # a
    <3>1. PICK h \in 1 .. Len(N[a].loops) : r = N[a].loops[h]
      BY <2>1, <2>3
    <3>2. h \in 1 .. Len(N[i].loops) /\ r = N[i].loops[h]
      BY <1>3, <3>1 DEF Sub
    <3>3. LoopLive(N, O, s, gd, m, r)
      BY <1>1, <1>6, <3>2 DEF LiveOK
    <3>4. Level(N, r) \in 0 .. L
      <4>1. Around(N, r, a)
        BY <1>3, <3>1, LoopIs
      <4>2. Level(N, r) \in Nat /\ Level(N, r) <= Level(N, a)
        BY <1>3, <4>1, AroundIs
      <4> QED BY ONLY <1>1, <1>3, <4>2
    <3>5. CASE Level(N, r) = 0
      BY <2>1, <3>5 DEF LoopLive
    <3>6. CASE Level(N, r) # 0
      <4>1. Level(N, r) \in 1 .. L /\ Least(m, L) = m
        BY <1>3, <1>7, <3>4, <3>6
      <4> QED BY <1>10, <2>1, <3>3, <4>1 DEF LoopLive
    <3> QED BY <3>5, <3>6
  <2> QED BY <2>2, <2>3
<1>14. LiveOK(c, N, P, k, gd, Least(m, L))
  BY <1>1, <1>8, <1>9, <1>11, <1>12, <1>13, ZenonT(30) DEF LiveOK
<1> QED BY <1>1, <1>5, <1>14 DEF Life

\* A return's walk parks: it has swept the walks of the outer levels.
LEMMA LifeWalk ==
  ASSUME NEW c, NEW N, WellNested(c, N), NEW i \in DOMAIN N, NEW p \in 1 .. Len(N[i].rescues),
         NEW a, Scope(N, i, p, a), Ens(c, a), NEW k \in DOMAIN N, k = Goal(c, a),
         N[k].entry = N[a].entry,
         N[k].bodies = Append(N[a].bodies, a), N[k].rescues = N[a].rescues, N[k].loops = N[a].loops,
         Exits(c, N, i), \A j \in 1 .. p - 1 : Ens(c, N[i].rescues[j]) \/ Level(N, N[i].rescues[j]) = 0,
         NEW f, NEW hd, NEW w, w.target = f, w.at.on, w.at.body = k, w.at.rescues = Len(N[k].rescues),
         w.at.loops = Len(N[k].loops), w.at.stack = hd[Level(N, a) + 1]
  PROVE  Life(c, N, k, hd, Level(N, a), f, {}, {w})
<1>0. WellNested(c, N) /\ i \in DOMAIN N /\ p \in 1 .. Len(N[i].rescues) /\ k \in DOMAIN N
  OBVIOUS
<1>1. PICK P, L, t : P = Ats({}) \cup Ats({w}) /\ L = Level(N, a) /\ t = N[k].bodies
  BY ONLY <1>0
<1>2. P = {w.at}
  BY ONLY <1>1 DEF Ats
<1>3. /\ a = N[i].rescues[p] /\ Ens(c, a) /\ k = Goal(c, a) /\ t = Append(N[a].bodies, a)
      /\ N[k].entry = N[a].entry /\ N[k].rescues = N[a].rescues /\ N[k].loops = N[a].loops
  BY <1>1, ZenonT(30) DEF Scope
<1>4. /\ w.target = f /\ w.at.on /\ w.at.body = k /\ w.at.rescues = Len(N[k].rescues)
      /\ w.at.loops = Len(N[k].loops) /\ w.at.stack = hd[L + 1]
  BY <1>1, ZenonT(30)
<1>5. /\ a \in DOMAIN N /\ Around(N, a, i) /\ Len(N[a].rescues) = p - 1
  <2>1. /\ N[i].rescues[p] \in DOMAIN N /\ Around(N, N[i].rescues[p], i)
        /\ Len(N[N[i].rescues[p]].rescues) = p - 1
    BY ONLY <1>0, HandlerIs
  <2> QED BY ONLY <1>3, <2>1
<1>6. /\ L \in Nat /\ L = Len(N[a].bodies) /\ N[a].entry = N[i].entry
      /\ Sub(N[a].rescues, N[i].rescues)
  BY ONLY <1>0, <1>1, <1>5, AroundIs DEF Level
<1>7. Len(t) = L + 1 /\ t[L + 1] = a /\ Level(N, k) = L + 1
  <2>1. N[a].bodies \in Seq(Addr(c)) /\ a \in Addr(c)
    BY ONLY <1>0, <1>5, PointIs
  <2>2. PICK q : q = N[a].bodies
    OBVIOUS
  <2>3. t = Append(q, a) /\ q \in Seq(Addr(c)) /\ L = Len(q)
    BY ONLY <1>3, <1>6, <2>1, <2>2
  <2>4. Len(t) = L + 1 /\ t[L + 1] = a
    BY ONLY <2>1, <2>3, AppendSeq
  <2> QED BY ONLY <1>1, <2>4 DEF Level
<1>8. ParksOK(c, N, P, t, hd)
  <2>1. L + 1 \in 1 .. Len(t)
    BY ONLY <1>6, <1>7
  <2>2. PICK at : at = w.at
    OBVIOUS
  <2>3. /\ P = {at} /\ at.on /\ at.body = k /\ at.rescues = Len(N[k].rescues)
        /\ at.loops = Len(N[k].loops) /\ at.stack = hd[L + 1]
    BY ONLY <1>2, <1>4, <2>2
  <2> QED BY ONLY <1>0, <1>3, <1>7, <2>1, <2>3 DEF ParksOK
<1>9. ASSUME NEW j \in 1 .. Len(N[a].rescues)
      PROVE  /\ N[a].rescues[j] = N[i].rescues[j] /\ j \in 1 .. p - 1 /\ j \in 1 .. Len(N[i].rescues)
             /\ Around(N, N[a].rescues[j], a)
  <2>1. Around(N, N[a].rescues[j], a)
    BY ONLY <1>0, <1>5, <1>9, HandlerIs, ZenonT(30)
  <2> QED BY ONLY <1>5, <1>6, <1>9, <2>1 DEF Sub
<1>10. /\ Exits(c, N, k) /\ Crossed(c, N, a)
       /\ \A j \in 1 .. Len(N[a].rescues) : Ens(c, N[a].rescues[j]) => Crossed(c, N, N[a].rescues[j])
  <2>1. /\ N[i].entry # 1
        /\ \A j \in 1 .. Len(N[i].rescues) :
             Ens(c, N[i].rescues[j]) => /\ Len(N[N[i].rescues[j]].loops) = Len(N[i].loops)
                                        /\ Crossed(c, N, N[i].rescues[j])
    BY DEF Exits
  <2>2. Len(N[a].loops) = Len(N[i].loops) /\ Crossed(c, N, a)
    BY ONLY <1>0, <1>3, <2>1
  <2>3. \A j \in 1 .. Len(N[a].rescues) :
          Ens(c, N[a].rescues[j]) => /\ Len(N[N[a].rescues[j]].loops) = Len(N[a].loops)
                                     /\ Crossed(c, N, N[a].rescues[j])
    BY ONLY <1>9, <2>1, <2>2
  <2>4. N[k].entry # 1
    BY ONLY <1>3, <1>6, <2>1
  <2>5. Exits(c, N, k)
    BY ONLY <1>3, <2>3, <2>4, ZenonT(30) DEF Exits
  <2> QED BY ONLY <2>2, <2>3, <2>5
<1>11. WalkOK(c, N, w, P, f, L)
  <2>1. L >= (L + 1) - 1 /\ L + 1 >= L + 1
    BY ONLY <1>6
  <2> QED BY ONLY <1>2, <1>4, <1>7, <1>10, <2>1 DEF WalkOK
<1>12. Live(N, P, t, hd, L + 1)
  BY ONLY <1>2, <1>4, <1>7 DEF Live
<1>13. ASSUME NEW j \in 1 .. Len(N[a].rescues)
       PROVE  HandlerLive(c, N, P, t, hd, L, N[a].rescues[j])
  <2>1. Ens(c, N[a].rescues[j]) => Crossed(c, N, N[a].rescues[j])
    BY ONLY <1>10, <1>13
  <2>2. \A x \in 1 .. p - 1 : Ens(c, N[i].rescues[x]) \/ Level(N, N[i].rescues[x]) = 0
    OBVIOUS
  <2>3. Ens(c, N[a].rescues[j]) \/ Level(N, N[a].rescues[j]) = 0
    BY ONLY <1>9, <1>13, <2>2
  <2> QED BY ONLY <2>1, <2>3, ZenonT(30) DEF HandlerLive
<1>14. ASSUME NEW j \in 1 .. Len(N[a].loops) PROVE LoopLive(N, P, t, hd, L, N[a].loops[j])
  <2>1. Around(N, N[a].loops[j], a)
    BY ONLY <1>0, <1>5, <1>14, LoopIs
  <2>2. Level(N, N[a].loops[j]) <= L
    BY ONLY <1>0, <1>1, <1>5, <2>1, AroundIs
  <2> QED BY ONLY <2>2 DEF LoopLive
<1>15. LiveOK(c, N, P, k, hd, L)
  <2>1. L < L + 1
    BY ONLY <1>6
  <2>2. t = N[k].bodies /\ N[k].rescues = N[a].rescues /\ N[k].loops = N[a].loops
    BY ONLY <1>1, <1>3
  <2>3. \A j \in 1 .. Len(N[k].rescues) : HandlerLive(c, N, P, N[k].bodies, hd, L, N[k].rescues[j])
    BY ONLY <1>13, <2>2
  <2>4. \A j \in 1 .. Len(N[k].loops) : LoopLive(N, P, N[k].bodies, hd, L, N[k].loops[j])
    BY ONLY <1>14, <2>2
  <2>5. Crossed(c, N, N[k].bodies[L + 1]) /\ Live(N, P, N[k].bodies, hd, Level(N, k))
    BY ONLY <1>7, <1>10, <1>12, <2>2
  <2> QED BY ONLY <1>7, <2>1, <2>3, <2>4, <2>5 DEF LiveOK
<1>16. PICK xs, ws : xs = {} /\ ws = {w}
  OBVIOUS
<1>17. /\ P = Ats(xs) \cup Ats(ws) /\ ParksOK(c, N, P, N[k].bodies, hd) /\ LiveOK(c, N, P, k, hd, L)
       /\ \A u \in ws : WalkOK(c, N, u, P, f, L)
  BY ONLY <1>1, <1>8, <1>11, <1>15, <1>16
<1>18. Life(c, N, k, hd, L, f, xs, ws)
  BY ONLY <1>16, <1>17 DEF Life
<1> QED BY ONLY <1>1, <1>16, <1>18

(***************************************************************************)
(* The stack of frames.  The n frames fs hold st operands between them, d  *)
(* of which are below the k-th frame's callee, or all of them.             *)
(***************************************************************************)
FrameT(V) == [entry : Int, ip : Int, base : Nat, rescues : Seq(HandlerT(V)), loops : Seq(LoopT),
              begins : Seq(BeginT(V))]

In(X, k) == {t \in X : t.at.frame = k}
Height(fs, d, k) == IF k = Len(fs) THEN d ELSE fs[k + 1].base + 1

FrameOK(c, N, f, d, k, X, W) ==
  /\ f.ip \in DOMAIN N /\ f.entry = N[f.ip].entry
  /\ \E gd, gn \in Ghost : \E m \in Nat :
       /\ Shape(c, N, f.ip, f.base, d, f.rescues, f.loops, f.begins, gd, gn)
       /\ Life(c, N, f.ip, gd, m, k, X, W)

\* A frame below another has just made the call.
CallsOK(c, N, fs) ==
  /\ \A k \in 1 .. Len(fs) : fs[k].entry = 1 <=> k = 1
  /\ \A k \in 1 .. Len(fs) - 1 : fs[k].ip - 1 \in DOMAIN N /\ c[fs[k].ip - 1].op = "Call"
  /\ \A j, k \in 1 .. Len(fs) : j <= k => fs[j].base <= fs[k].base

\* Walks are parked in the order of the bodies that they wait in.
Outer(N, a, b) == a.frame < b.frame \/ (a.frame = b.frame /\ Level(N, a.body) < Level(N, b.body))
Earlier(S) == {p \in S \X S : p[1].at.seq < p[2].at.seq}

WalksOK(N, V, n, xs, ws, q) ==
  /\ xs \in Seq(XferT(V)) /\ ws \in Seq(WalkT(V)) /\ q \in Nat
  /\ Chain(xs, Earlier(XferT(V))) /\ Chain(ws, Earlier(WalkT(V)))
  /\ \A a \in Ats(Range(xs)) \cup Ats(Range(ws)) : a.frame \in 1 .. n /\ a.seq <= q
  /\ \A a, b \in Ats(Range(xs)) \cup Ats(Range(ws)) : Outer(N, a, b) <=> a.seq < b.seq
  /\ \A t \in Range(xs), w \in Range(ws) : t.at.seq # w.at.seq

Good(c, N, V, fs, st, xs, ws, q) ==
  /\ fs \in Seq(FrameT(V)) /\ st \in Seq(V) /\ fs # <<>>
  /\ \A k \in 1 .. Len(fs) :
       FrameOK(c, N, fs[k], Height(fs, Len(st), k), k, In(Range(xs), k), In(Range(ws), k))
  /\ CallsOK(c, N, fs)
  /\ WalksOK(N, V, Len(fs), xs, ws, q)

Topped(fs, k, g, gs)  == gs = Append(Upto(fs, k - 1), g)
InnerLoop(N, i, a)    == a = Last(N[i].loops)

\* CallsOK looks at what renewing the top frame, or popping it, leaves alone.
LEMMA CallsKept ==
  ASSUME NEW c, NEW N, NEW fs, NEW gs, CallsOK(c, N, fs), Len(fs) \in Nat, NEW k \in Nat,
         k <= Len(fs), Len(gs) = k, \A j \in 1 .. k : gs[j].entry = fs[j].entry /\ gs[j].base = fs[j].base,
         \A j \in 1 .. k - 1 : gs[j] = fs[j]
  PROVE  CallsOK(c, N, gs)
<1>1. \A j \in 1 .. k : j \in 1 .. Len(fs)
  OBVIOUS
<1>2. \A j \in 1 .. k - 1 : j \in 1 .. Len(fs) - 1
  OBVIOUS
<1>3. \A j \in 1 .. k : gs[j].entry = 1 <=> j = 1
  BY <1>1 DEF CallsOK
<1>4. \A j \in 1 .. k - 1 : gs[j].ip - 1 \in DOMAIN N /\ c[gs[j].ip - 1].op = "Call"
  BY <1>2 DEF CallsOK
<1>5. \A j, h \in 1 .. k : j <= h => gs[j].base <= gs[h].base
  BY <1>1 DEF CallsOK
<1> QED BY <1>3, <1>4, <1>5 DEF CallsOK

\* Replacing the top entry of a stack.
LEMMA SetIs ==
  ASSUME NEW S, NEW s \in Seq(S), s # <<>>, NEW x \in S
  PROVE  [s EXCEPT ![Len(s)] = x] = Append(Upto(s, Len(s) - 1), x)
<1>1. Len(s) \in Nat \ {0}
  BY EmptySeq, LenProperties
<1>2. PICK u : u = Upto(s, Len(s) - 1)
  OBVIOUS
<1>3. u \in Seq(S) /\ Len(u) = Len(s) - 1 /\ \A j \in 1 .. Len(s) - 1 : u[j] = s[j]
  BY <1>1, <1>2, UptoSeq
<1>4. PICK v, w : v = Append(u, x) /\ w = [s EXCEPT ![Len(s)] = x]
  OBVIOUS
<1>5. /\ v \in Seq(S) /\ Len(v) = Len(s) /\ v[Len(s)] = x
      /\ \A j \in 1 .. Len(s) - 1 : v[j] = s[j]
  BY <1>1, <1>3, <1>4, AppendSeq
<1>6. w \in Seq(S) /\ Len(w) = Len(s) /\ w[Len(s)] = x /\ \A j \in 1 .. Len(s) - 1 : w[j] = s[j]
  <2>1. w \in Seq(S) /\ Len(w) = Len(s)
    BY <1>1, <1>4, ExceptSeq
  <2>2. \A j \in 1 .. Len(s) : w[j] = IF j = Len(s) THEN x ELSE s[j]
    BY <1>4, LenProperties
  <2> QED BY <1>1, <2>1, <2>2
<1>7. \A j \in 1 .. Len(v) : v[j] = w[j]
  BY <1>1, <1>5, <1>6
<1> QED BY <1>2, <1>4, <1>5, <1>6, <1>7, SameSeq

\* Renewing the k-th frame, which becomes the top.
LEMMA Renew ==
  ASSUME NEW c, NEW N, NEW V, NEW fs, NEW st, NEW xs, NEW ws, NEW q, Good(c, N, V, fs, st, xs, ws, q),
         NEW k \in 1 .. Len(fs), NEW g \in FrameT(V), NEW gs, Topped(fs, k, g, gs),
         g.base = fs[k].base, g.entry = fs[k].entry,
         NEW ts \in Seq(V), NEW ys, NEW vs, NEW r, WalksOK(N, V, k, ys, vs, r),
         FrameOK(c, N, g, Len(ts), k, In(Range(ys), k), In(Range(vs), k)),
         \A j \in 1 .. k - 1 : /\ In(Range(ys), j) = In(Range(xs), j)
                               /\ In(Range(vs), j) = In(Range(ws), j)
  PROVE  Good(c, N, V, gs, ts, ys, vs, r)
<1>1. fs \in Seq(FrameT(V)) /\ Len(fs) \in Nat /\ k \in Nat /\ k <= Len(fs)
  BY LenProperties DEF Good
<1>2. /\ Upto(fs, k - 1) \in Seq(FrameT(V)) /\ Len(Upto(fs, k - 1)) = k - 1
      /\ \A j \in 1 .. k - 1 : Upto(fs, k - 1)[j] = fs[j]
  BY <1>1, UptoSeq
<1>3. /\ gs \in Seq(FrameT(V)) /\ Len(gs) = k /\ gs[k] = g /\ gs # <<>>
      /\ \A j \in 1 .. k - 1 : gs[j] = fs[j]
  BY <1>1, <1>2, AppendSeq DEF Topped
<1>4. ASSUME NEW j \in 1 .. k
      PROVE  FrameOK(c, N, gs[j], Height(gs, Len(ts), j), j, In(Range(ys), j), In(Range(vs), j))
  <2>1. CASE j = k
    <3>1. Height(gs, Len(ts), j) = Len(ts)
      BY <1>3, <2>1 DEF Height
    <3> QED BY <1>3, <2>1, <3>1
  <2>2. CASE j # k
    <3>1. j \in 1 .. k - 1 /\ j \in 1 .. Len(fs) /\ j # Len(fs) /\ j # Len(gs)
      BY <1>1, <1>3, <2>2
    <3>2. gs[j + 1].base = fs[j + 1].base
      BY <1>1, <1>3, <3>1
    <3>3. Height(gs, Len(ts), j) = Height(fs, Len(st), j)
      BY <3>1, <3>2 DEF Height
    <3>4. FrameOK(c, N, fs[j], Height(fs, Len(st), j), j, In(Range(xs), j), In(Range(ws), j))
      BY <3>1 DEF Good
    <3> QED BY <1>3, <3>1, <3>3, <3>4
  <2> QED BY <2>1, <2>2
<1>5. CallsOK(c, N, gs)
  <2>1. \A j \in 1 .. k : gs[j].entry = fs[j].entry /\ gs[j].base = fs[j].base
    BY <1>1, <1>3
  <2>2. CallsOK(c, N, fs)
    BY DEF Good
  <2> QED BY <1>1, <1>3, <2>1, <2>2, CallsKept
<1> QED BY <1>3, <1>4, <1>5 DEF Good

\* The frame that a call pushes.
LEMMA PushFrame ==
  ASSUME NEW c, NEW N, NEW V, NEW fs, NEW st, NEW xs, NEW ws, NEW q, Good(c, N, V, fs, st, xs, ws, q),
         NEW g \in FrameT(V), NEW ts \in Seq(V), Len(st) = Len(ts) + 1, g.base = Len(ts), g.entry # 1,
         fs[Len(fs)].ip - 1 \in DOMAIN N, c[fs[Len(fs)].ip - 1].op = "Call",
         fs[Len(fs)].base <= Len(ts),
         FrameOK(c, N, g, Len(ts), Len(fs) + 1, {}, {})
  PROVE  Good(c, N, V, Append(fs, g), ts, xs, ws, q)
<1>1. PICK n, gs : n = Len(fs) /\ gs = Append(fs, g)
  OBVIOUS
<1>2. fs \in Seq(FrameT(V)) /\ n \in Nat \ {0} /\ Len(ts) \in Nat
  BY <1>1, LenProperties, EmptySeq DEF Good
<1>3. /\ gs \in Seq(FrameT(V)) /\ Len(gs) = n + 1 /\ gs[n + 1] = g /\ gs # <<>>
      /\ \A j \in 1 .. n : gs[j] = fs[j]
  BY <1>1, <1>2, AppendSeq
<1>4. WalksOK(N, V, n, xs, ws, q) /\ CallsOK(c, N, fs)
  BY <1>1 DEF Good
<1>5. WalksOK(N, V, n + 1, xs, ws, q)
  BY <1>2, <1>4 DEF WalksOK
<1>6. In(Range(xs), n + 1) = {} /\ In(Range(ws), n + 1) = {}
  <2>1. \A a \in Ats(Range(xs)) \cup Ats(Range(ws)) : a.frame # n + 1
    BY <1>2, <1>4 DEF WalksOK
  <2> QED BY <2>1 DEF In, Ats
<1>7. ASSUME NEW j \in 1 .. n + 1
      PROVE  FrameOK(c, N, gs[j], Height(gs, Len(ts), j), j, In(Range(xs), j), In(Range(ws), j))
  <2>1. CASE j = n + 1
    BY <1>1, <1>3, <1>6, <2>1 DEF Height
  <2>2. CASE j \in 1 .. n
    <3>1. Height(gs, Len(ts), j) = Height(fs, Len(st), j)
      <4>1. CASE j = n
        BY <1>1, <1>2, <1>3, <4>1 DEF Height
      <4>2. CASE j # n
        <5>1. j + 1 \in 1 .. n /\ j # n + 1
          BY <1>2, <2>2, <4>2
        <5> QED BY <1>1, <1>3, <4>2, <5>1 DEF Height
      <4> QED BY <4>1, <4>2
    <3>2. FrameOK(c, N, fs[j], Height(fs, Len(st), j), j, In(Range(xs), j), In(Range(ws), j))
      BY <1>1, <2>2 DEF Good
    <3> QED BY <1>3, <2>2, <3>1, <3>2
  <2> QED BY <1>2, <2>1, <2>2
<1>8. CallsOK(c, N, gs)
  <2>1. \A j \in 1 .. n + 1 : gs[j].entry = 1 <=> j = 1
    BY <1>1, <1>2, <1>3, <1>4 DEF CallsOK
  <2>2. \A j \in 1 .. n : gs[j].ip - 1 \in DOMAIN N /\ c[gs[j].ip - 1].op = "Call"
    BY <1>1, <1>2, <1>3, <1>4 DEF CallsOK
  <2>3. \A j \in 1 .. n + 1 : gs[j].base \in Nat
    <3>1. \A j \in 1 .. n + 1 : gs[j] \in FrameT(V)
      BY <1>3, ElementOfSeq
    <3>2. \A f \in FrameT(V) : f.base \in Nat
      BY DEF FrameT
    <3> QED BY ONLY <3>1, <3>2
  <2>4. \A j, h \in 1 .. n + 1 : j <= h => gs[j].base <= gs[h].base
    <3> SUFFICES ASSUME NEW j \in 1 .. n + 1, NEW h \in 1 .. n + 1, j <= h PROVE gs[j].base <= gs[h].base
      OBVIOUS
    <3>1. CASE h \in 1 .. n
      BY <1>1, <1>2, <1>3, <1>4, <3>1 DEF CallsOK
    <3>2. CASE h = n + 1 /\ j \in 1 .. n
      <4>1. fs[j].base <= fs[n].base
        BY <1>1, <1>2, <1>4, <3>2 DEF CallsOK
      <4>2. gs[j].base <= gs[n].base /\ gs[n].base <= gs[n + 1].base
        BY <1>1, <1>2, <1>3, <3>2, <4>1
      <4> QED BY <1>2, <2>3, <3>2, <4>2
    <3>3. CASE h = n + 1 /\ j = n + 1
      BY <2>3, <3>3
    <3> QED BY <1>2, <3>1, <3>2, <3>3
  <2>5. (n + 1) - 1 = n
    BY <1>2
  <2> QED BY <1>3, <2>1, <2>2, <2>4, <2>5 DEF CallsOK
<1> QED BY <1>1, <1>3, <1>5, <1>7, <1>8 DEF Good

\* A return pops the top frame and gives its caller one operand.
LEMMA PopFrame ==
  ASSUME NEW c, NEW N, NEW V, NEW fs, NEW st, NEW xs, NEW ws, NEW q, Good(c, N, V, fs, st, xs, ws, q),
         Len(fs) # 1, NEW ts \in Seq(V), Len(ts) = fs[Len(fs)].base + 1,
         NEW ys, NEW vs, NEW r, WalksOK(N, V, Len(fs) - 1, ys, vs, r),
         \A j \in 1 .. Len(fs) - 1 : /\ In(Range(ys), j) = In(Range(xs), j)
                                     /\ In(Range(vs), j) = In(Range(ws), j)
  PROVE  Good(c, N, V, Upto(fs, Len(fs) - 1), ts, ys, vs, r)
<1>1. PICK n, gs : n = Len(fs) /\ gs = Upto(fs, n - 1)
  OBVIOUS
<1>2. fs \in Seq(FrameT(V)) /\ n \in Nat \ {0, 1}
  BY <1>1, LenProperties, EmptySeq DEF Good
<1>3. gs \in Seq(FrameT(V)) /\ Len(gs) = n - 1 /\ \A j \in 1 .. n - 1 : gs[j] = fs[j]
  <2>1. PICK m : m = n - 1
    OBVIOUS
  <2>2. m \in Nat /\ m < n /\ gs = Upto(fs, m)
    BY <1>1, <1>2, <2>1
  <2>3. gs \in Seq(FrameT(V)) /\ Len(gs) = m /\ \A j \in 1 .. m : gs[j] = fs[j]
    BY <1>1, <1>2, <2>2, UptoSeq
  <2> QED BY <2>1, <2>3
<1>4. gs # <<>>
  BY <1>2, <1>3, EmptySeq
<1>5. ASSUME NEW j \in 1 .. n - 1
      PROVE  FrameOK(c, N, gs[j], Height(gs, Len(ts), j), j, In(Range(ys), j), In(Range(vs), j))
  <2>1. Height(gs, Len(ts), j) = Height(fs, Len(st), j)
    <3>1. CASE j = n - 1
      BY <1>1, <1>2, <1>3, <3>1 DEF Height
    <3>2. CASE j # n - 1
      <4>1. j + 1 \in 1 .. n - 1 /\ j # n
        BY <1>2, <3>2
      <4> QED BY <1>1, <1>3, <3>2, <4>1 DEF Height
    <3> QED BY <3>1, <3>2
  <2>2. FrameOK(c, N, fs[j], Height(fs, Len(st), j), j, In(Range(xs), j), In(Range(ws), j))
    BY <1>1, <1>2 DEF Good
  <2> QED BY <1>1, <1>3, <2>1, <2>2
<1>6. CallsOK(c, N, gs)
  <2>1. CallsOK(c, N, fs)
    BY DEF Good
  <2>2. PICK m : m = n - 1
    OBVIOUS
  <2>3. m \in Nat /\ m <= n /\ Len(gs) = m /\ (\A j \in 1 .. m : gs[j] = fs[j]) /\ \A j \in 1 .. m - 1 : j \in 1 .. m
    BY <1>2, <1>3, <2>2
  <2> QED BY <1>1, <1>2, <2>1, <2>3, CallsKept
<1> QED BY <1>1, <1>3, <1>4, <1>5, <1>6 DEF Good

\* Fewer walks, in the order they had, in fewer frames.
LEMMA FewerWalks ==
  ASSUME NEW N, NEW V, NEW n, NEW xs, NEW ws, NEW q, WalksOK(N, V, n, xs, ws, q), NEW k,
         NEW ys \in Seq(XferT(V)), Range(ys) \subseteq Range(xs), Chain(ys, Earlier(XferT(V))),
         NEW vs \in Seq(WalkT(V)), Range(vs) \subseteq Range(ws), Chain(vs, Earlier(WalkT(V))),
         \A t \in Range(ys) \cup Range(vs) : t.at.frame <= k, k \in Nat
  PROVE  WalksOK(N, V, k, ys, vs, q)
<1>1. PICK A, B : A = Ats(Range(xs)) \cup Ats(Range(ws)) /\ B = Ats(Range(ys)) \cup Ats(Range(vs))
  OBVIOUS
<1>2. B \subseteq A
  BY <1>1 DEF Ats
<1>3. ASSUME NEW a \in B PROVE a.frame \in 1 .. k /\ a.seq <= q
  <2>1. a.frame \in 1 .. n /\ a.seq <= q
    BY <1>1, <1>2 DEF WalksOK
  <2>2. a.frame <= k
    BY <1>1 DEF Ats
  <2> QED BY <2>1, <2>2
<1>4. \A a, b \in B : Outer(N, a, b) <=> a.seq < b.seq
  BY <1>1, <1>2 DEF WalksOK
<1> QED BY <1>1, <1>3, <1>4 DEF WalksOK

\* What a stack holds after a push.
LEMMA RangeAppend ==
  ASSUME NEW S, NEW s \in Seq(S), NEW x \in S
  PROVE  Append(s, x) \in Seq(S) /\ Range(Append(s, x)) = Range(s) \cup {x}
<1>1. PICK u : u = Append(s, x)
  OBVIOUS
<1>2. /\ u \in Seq(S) /\ Len(u) = Len(s) + 1 /\ Len(s) \in Nat
      /\ u[Len(s) + 1] = x /\ \A j \in 1 .. Len(s) : u[j] = s[j]
  BY <1>1, AppendSeq
<1>3. \A y : \A w \in Seq(S) : y \in Range(w) <=> \E j \in 1 .. Len(w) : w[j] = y
  BY DEF Range
<1>4. \A y : (\E j \in 1 .. Len(u) : u[j] = y) <=> (\E j \in 1 .. Len(s) : s[j] = y) \/ y = x
  BY <1>2
<1>5. \A y : y \in Range(u) <=> y \in Range(s) \cup {x}
  BY <1>2, <1>3, <1>4
<1> QED BY <1>1, <1>2, <1>5

\* The last walk of a list is the latest; the others are before it.
LEMMA LastWalk ==
  ASSUME NEW S, \A x \in S : x.at.seq \in Nat, NEW s \in Seq(S), s # <<>>, Chain(s, Earlier(S))
  PROVE  /\ Front(s) \in Seq(S) /\ Chain(Front(s), Earlier(S))
         /\ Peek(s) \in Range(s) /\ Peek(s) \in S
         /\ Range(Front(s)) = Range(s) \ {Peek(s)}
         /\ \A x \in Range(s) : x = Peek(s) \/ x.at.seq < Peek(s).at.seq
<1>1. PICK n, u, p : n = Len(s) /\ u = Front(s) /\ p = Peek(s)
  OBVIOUS
<1>2. /\ u \in Seq(S) /\ Len(u) = n - 1 /\ n \in Nat \ {0} /\ p = s[n] /\ p \in S
      /\ \A j \in 1 .. n - 1 : u[j] = s[j]
  BY <1>1, FrontSeq
<1>3. \A y : \A w \in Seq(S) : y \in Range(w) <=> \E j \in 1 .. Len(w) : w[j] = y
  BY DEF Range
<1>4. \A i, j \in 1 .. n : i < j => s[i].at.seq < s[j].at.seq
  BY <1>1 DEF Chain, Earlier
<1>5. p \in Range(s)
  BY <1>1, <1>2, <1>3
<1>6. \A j \in 1 .. n - 1 : s[j].at.seq < p.at.seq /\ s[j] # p
  <2> SUFFICES ASSUME NEW j \in 1 .. n - 1 PROVE s[j].at.seq < p.at.seq /\ s[j] # p
    OBVIOUS
  <2>1. s[j].at.seq < p.at.seq
    BY <1>2, <1>4
  <2>2. p.at.seq \in Nat
    BY <1>2
  <2> QED BY <2>1, <2>2
<1>7. \A x \in Range(s) : x = p \/ \E j \in 1 .. n - 1 : s[j] = x
  <2> SUFFICES ASSUME NEW x \in Range(s), x # p PROVE \E j \in 1 .. n - 1 : s[j] = x
    OBVIOUS
  <2>1. PICK j \in 1 .. n : s[j] = x
    BY <1>1, <1>3
  <2>2. j # n
    BY <1>2, <2>1
  <2> QED BY <1>2, <2>1, <2>2
<1>8. \A y : y \in Range(u) <=> y \in Range(s) \ {p}
  <2>1. \A y : y \in Range(u) <=> \E j \in 1 .. n - 1 : s[j] = y
    BY <1>2, <1>3
  <2>2. \A j \in 1 .. n - 1 : s[j] \in Range(s)
    BY <1>1, <1>2, <1>3
  <2> QED BY <1>6, <1>7, <2>1, <2>2
<1>9. Chain(u, Earlier(S))
  BY <1>1, <1>2, SMTT(30) DEF Chain
<1> QED BY <1>1, <1>2, <1>5, <1>6, <1>7, <1>8, <1>9

\* Sequence numbers are numbers.
LEMMA SeqNat ==
  ASSUME NEW V
  PROVE  (\A t \in XferT(V) : t.at \in AtT /\ t.at.seq \in Nat) /\ (\A w \in WalkT(V) : w.at \in AtT /\ w.at.seq \in Nat)
BY DEF XferT, WalkT, AtT

\* A walk that parks is the innermost one.
LEMMA AddXfer ==
  ASSUME NEW N, NEW V, NEW k, NEW xs, NEW ws, NEW q, WalksOK(N, V, k, xs, ws, q), k \in Nat,
         NEW t \in XferT(V), t.at.seq = q + 1, t.at.frame = k, k # 0,
         \A a \in Ats(Range(xs)) \cup Ats(Range(ws)) : Outer(N, a, t.at) /\ ~ Outer(N, t.at, a),
         ~ Outer(N, t.at, t.at)
  PROVE  WalksOK(N, V, k, Append(xs, t), ws, q + 1) /\ Range(Append(xs, t)) = Range(xs) \cup {t}
<1>1. PICK A, ys, B : /\ A = Ats(Range(xs)) \cup Ats(Range(ws)) /\ ys = Append(xs, t)
                      /\ B = Ats(Range(ys)) \cup Ats(Range(ws))
  OBVIOUS
<1>2. xs \in Seq(XferT(V)) /\ ws \in Seq(WalkT(V)) /\ q \in Nat
  BY DEF WalksOK
<1>3. ys \in Seq(XferT(V)) /\ Range(ys) = Range(xs) \cup {t}
  BY <1>1, <1>2, RangeAppend
<1>4. B = A \cup {t.at}
  BY <1>1, <1>3 DEF Ats
<1>5. \A a \in A : a.frame \in 1 .. k /\ a.seq <= q /\ Outer(N, a, t.at) /\ ~ Outer(N, t.at, a) /\ a.seq \in Nat
  <2>1. \A a \in A : a.frame \in 1 .. k /\ a.seq <= q /\ Outer(N, a, t.at) /\ ~ Outer(N, t.at, a)
    BY <1>1 DEF WalksOK
  <2>2. Range(xs) \subseteq XferT(V) /\ Range(ws) \subseteq WalkT(V)
    BY <1>2, ElementOfSeq DEF Range
  <2>3. \A a \in A : a.seq \in Nat
    BY <1>1, <2>2, SeqNat DEF Ats
  <2> QED BY <2>1, <2>3
<1>6. \A a \in B : a.frame \in 1 .. k /\ a.seq <= q + 1
  BY <1>2, <1>4, <1>5
<1>7. \A a, b \in B : Outer(N, a, b) <=> a.seq < b.seq
  <2> SUFFICES ASSUME NEW a \in B, NEW b \in B PROVE Outer(N, a, b) <=> a.seq < b.seq
    OBVIOUS
  <2>1. CASE a \in A /\ b \in A
    BY <1>1, <2>1 DEF WalksOK
  <2>2. CASE a \in A /\ b = t.at
    BY <1>2, <1>5, <2>2
  <2>3. CASE a = t.at /\ b \in A
    BY <1>2, <1>5, <2>3
  <2>4. CASE a = t.at /\ b = t.at
    BY <1>2, <2>4
  <2> QED BY <1>4, <2>1, <2>2, <2>3, <2>4
<1>8. \A u \in Range(ys), w \in Range(ws) : u.at.seq # w.at.seq
  <2> SUFFICES ASSUME NEW u \in Range(ys), NEW w \in Range(ws) PROVE u.at.seq # w.at.seq
    OBVIOUS
  <2>1. CASE u \in Range(xs)
    BY <2>1 DEF WalksOK
  <2>2. CASE u = t
    <3>1. w.at \in A
      BY <1>1 DEF Ats
    <3> QED BY <1>2, <1>5, <2>2, <3>1
  <2> QED BY <1>3, <2>1, <2>2
<1>9. Chain(ys, Earlier(XferT(V)))
  <2>1. /\ Len(ys) = Len(xs) + 1 /\ Len(xs) \in Nat /\ ys[Len(xs) + 1] = t
        /\ \A j \in 1 .. Len(xs) : ys[j] = xs[j]
    BY <1>1, <1>2, AppendSeq
  <2> SUFFICES ASSUME NEW i \in 1 .. Len(ys), NEW j \in 1 .. Len(ys), i < j
               PROVE <<ys[i], ys[j]>> \in Earlier(XferT(V))
    BY DEF Chain
  <2>2. i \in 1 .. Len(xs)
    BY <2>1
  <2>3. CASE j \in 1 .. Len(xs)
    BY <2>1, <2>2, <2>3 DEF WalksOK, Chain
  <2>4. CASE j = Len(xs) + 1
    <3>1. xs[i] \in XferT(V) /\ xs[i] \in Range(xs)
      BY <1>2, <2>2, ElementOfSeq DEF Range
    <3>2. xs[i].at \in A
      BY <1>1, <3>1 DEF Ats
    <3>3. xs[i].at.seq < t.at.seq
      BY <1>2, <1>5, <3>2
    <3> QED BY <2>1, <2>2, <2>4, <3>1, <3>3 DEF Earlier
  <2> QED BY <2>1, <2>3, <2>4
<1>10. q + 1 \in Nat
  BY <1>2
<1>11. Chain(ws, Earlier(WalkT(V)))
  BY DEF WalksOK
<1> QED BY <1>1, <1>2, <1>3, <1>6, <1>7, <1>8, <1>9, <1>10, <1>11 DEF WalksOK

\* So is a return's walk.
LEMMA AddWalk ==
  ASSUME NEW N, NEW V, NEW k, NEW xs, NEW ws, NEW q, WalksOK(N, V, k, xs, ws, q), k \in Nat,
         NEW t \in WalkT(V), t.at.seq = q + 1, t.at.frame = k, k # 0,
         \A a \in Ats(Range(xs)) \cup Ats(Range(ws)) : Outer(N, a, t.at) /\ ~ Outer(N, t.at, a),
         ~ Outer(N, t.at, t.at)
  PROVE  WalksOK(N, V, k, xs, Append(ws, t), q + 1) /\ Range(Append(ws, t)) = Range(ws) \cup {t}
<1>1. PICK A, ys, B : /\ A = Ats(Range(xs)) \cup Ats(Range(ws)) /\ ys = Append(ws, t)
                      /\ B = Ats(Range(xs)) \cup Ats(Range(ys))
  OBVIOUS
<1>2. ws \in Seq(WalkT(V)) /\ xs \in Seq(XferT(V)) /\ q \in Nat
  BY DEF WalksOK
<1>3. ys \in Seq(WalkT(V)) /\ Range(ys) = Range(ws) \cup {t}
  BY <1>1, <1>2, RangeAppend
<1>4. B = A \cup {t.at}
  BY <1>1, <1>3 DEF Ats
<1>5. \A a \in A : a.frame \in 1 .. k /\ a.seq <= q /\ Outer(N, a, t.at) /\ ~ Outer(N, t.at, a) /\ a.seq \in Nat
  <2>1. \A a \in A : a.frame \in 1 .. k /\ a.seq <= q /\ Outer(N, a, t.at) /\ ~ Outer(N, t.at, a)
    BY <1>1 DEF WalksOK
  <2>2. Range(ws) \subseteq WalkT(V) /\ Range(xs) \subseteq XferT(V)
    BY <1>2, ElementOfSeq DEF Range
  <2>3. \A a \in A : a.seq \in Nat
    BY <1>1, <2>2, SeqNat DEF Ats
  <2> QED BY <2>1, <2>3
<1>6. \A a \in B : a.frame \in 1 .. k /\ a.seq <= q + 1
  BY <1>2, <1>4, <1>5
<1>7. \A a, b \in B : Outer(N, a, b) <=> a.seq < b.seq
  <2> SUFFICES ASSUME NEW a \in B, NEW b \in B PROVE Outer(N, a, b) <=> a.seq < b.seq
    OBVIOUS
  <2>1. CASE a \in A /\ b \in A
    BY <1>1, <2>1 DEF WalksOK
  <2>2. CASE a \in A /\ b = t.at
    BY <1>2, <1>5, <2>2
  <2>3. CASE a = t.at /\ b \in A
    BY <1>2, <1>5, <2>3
  <2>4. CASE a = t.at /\ b = t.at
    BY <1>2, <2>4
  <2> QED BY <1>4, <2>1, <2>2, <2>3, <2>4
<1>8. \A w \in Range(xs), u \in Range(ys) : w.at.seq # u.at.seq
  <2> SUFFICES ASSUME NEW u \in Range(ys), NEW w \in Range(xs) PROVE w.at.seq # u.at.seq
    OBVIOUS
  <2>1. CASE u \in Range(ws)
    BY <2>1 DEF WalksOK
  <2>2. CASE u = t
    <3>1. w.at \in A
      BY <1>1 DEF Ats
    <3> QED BY <1>2, <1>5, <2>2, <3>1
  <2> QED BY <1>3, <2>1, <2>2
<1>9. Chain(ys, Earlier(WalkT(V)))
  <2>1. /\ Len(ys) = Len(ws) + 1 /\ Len(ws) \in Nat /\ ys[Len(ws) + 1] = t
        /\ \A j \in 1 .. Len(ws) : ys[j] = ws[j]
    BY <1>1, <1>2, AppendSeq
  <2> SUFFICES ASSUME NEW i \in 1 .. Len(ys), NEW j \in 1 .. Len(ys), i < j
               PROVE <<ys[i], ys[j]>> \in Earlier(WalkT(V))
    BY DEF Chain
  <2>2. i \in 1 .. Len(ws)
    BY <2>1
  <2>3. CASE j \in 1 .. Len(ws)
    BY <2>1, <2>2, <2>3 DEF WalksOK, Chain
  <2>4. CASE j = Len(ws) + 1
    <3>1. ws[i] \in WalkT(V) /\ ws[i] \in Range(ws)
      BY <1>2, <2>2, ElementOfSeq DEF Range
    <3>2. ws[i].at \in A
      BY <1>1, <3>1 DEF Ats
    <3>3. ws[i].at.seq < t.at.seq
      BY <1>2, <1>5, <3>2
    <3> QED BY <2>1, <2>2, <2>4, <3>1, <3>3 DEF Earlier
  <2> QED BY <2>1, <2>3, <2>4
<1>10. q + 1 \in Nat
  BY <1>2
<1>11. Chain(xs, Earlier(XferT(V)))
  BY DEF WalksOK
<1> QED BY <1>1, <1>2, <1>3, <1>6, <1>7, <1>8, <1>9, <1>10, <1>11 DEF WalksOK

(***************************************************************************)
(* Sweeps.  xs and ws are the walks of xs0 and ws0 that are parked below   *)
(* the k-th frame, or in its ensure bodies of levels up to l.              *)
(***************************************************************************)
CutTo(N, V, xs0, ws0, k, l, xs, ws) ==
  /\ xs \in Seq(XferT(V)) /\ Chain(xs, Earlier(XferT(V)))
  /\ ws \in Seq(WalkT(V)) /\ Chain(ws, Earlier(WalkT(V)))
  /\ Range(xs) = {u \in Range(xs0) : u.at.frame < k \/ (u.at.frame = k /\ Level(N, u.at.body) <= l)}
  /\ Range(ws) = {u \in Range(ws0) : u.at.frame < k \/ (u.at.frame = k /\ Level(N, u.at.body) <= l)}

\* What a sweep leaves is in order, and untouched below the k-th frame.
LEMMA CutWalks ==
  ASSUME NEW N, NEW V, NEW n \in Nat, NEW xs0, NEW ws0, NEW q, WalksOK(N, V, n, xs0, ws0, q),
         NEW k \in 1 .. n, NEW l, NEW xs, NEW ws, CutTo(N, V, xs0, ws0, k, l, xs, ws)
  PROVE  /\ WalksOK(N, V, k, xs, ws, q)
         /\ In(Range(xs), k) = Within(N, In(Range(xs0), k), l)
         /\ In(Range(ws), k) = Within(N, In(Range(ws0), k), l)
         /\ \A j \in 1 .. k - 1 : /\ In(Range(xs), j) = In(Range(xs0), j)
                                  /\ In(Range(ws), j) = In(Range(ws0), j)
<1>1. WalksOK(N, V, k, xs, ws, q)
  <2>1. \A t \in Range(xs) \cup Range(ws) : t.at.frame <= k
    <3>1. \A t \in Range(xs0) \cup Range(ws0) : t.at.frame \in 1 .. n
      BY DEF WalksOK, Ats
    <3> QED BY <3>1 DEF CutTo
  <2>2. Range(xs) \subseteq Range(xs0) /\ Range(ws) \subseteq Range(ws0) /\ k \in Nat
    BY DEF CutTo
  <2> QED BY <2>1, <2>2, FewerWalks DEF CutTo
<1>2. \A j \in 1 .. k - 1 : j < k /\ j # k
  OBVIOUS
<1>3. ~ (k < k)
  OBVIOUS
<1> QED BY <1>1, <1>2, <1>3 DEF CutTo, In, Within

\* Vec::retain as a sweep.
LEMMA KeptWalks ==
  ASSUME NEW N, NEW V, NEW n, NEW xs0, NEW ws0, NEW q, WalksOK(N, V, n, xs0, ws0, q),
         NEW k, NEW l, NEW K, NEW J,
         \A u \in Range(xs0) : u \in K <=> u.at.frame < k \/ (u.at.frame = k /\ Level(N, u.at.body) <= l),
         \A u \in Range(ws0) : u \in J <=> u.at.frame < k \/ (u.at.frame = k /\ Level(N, u.at.body) <= l)
  PROVE  CutTo(N, V, xs0, ws0, k, l, Kept(xs0, K), Kept(ws0, J))
<1>1. /\ xs0 \in Seq(XferT(V)) /\ Chain(xs0, Earlier(XferT(V)))
      /\ ws0 \in Seq(WalkT(V)) /\ Chain(ws0, Earlier(WalkT(V)))
  BY DEF WalksOK
<1>2. PICK xs, ws : xs = Kept(xs0, K) /\ ws = Kept(ws0, J)
  OBVIOUS
<1>3. /\ xs \in Seq(XferT(V)) /\ Chain(xs, Earlier(XferT(V)))
      /\ \A u : u \in Range(xs) <=> u \in Range(xs0) /\ u \in K
  BY <1>1, <1>2, KeptSeq
<1>4. /\ ws \in Seq(WalkT(V)) /\ Chain(ws, Earlier(WalkT(V)))
      /\ \A u : u \in Range(ws) <=> u \in Range(ws0) /\ u \in J
  BY <1>1, <1>2, KeptSeq
<1>5. Range(xs) = {u \in Range(xs0) : u.at.frame < k \/ (u.at.frame = k /\ Level(N, u.at.body) <= l)}
  BY <1>3
<1>6. Range(ws) = {u \in Range(ws0) : u.at.frame < k \/ (u.at.frame = k /\ Level(N, u.at.body) <= l)}
  BY <1>4
<1> QED BY <1>2, <1>3, <1>4, <1>5, <1>6 DEF CutTo

(***************************************************************************)
(* Where handlers and loops lead.                                          *)
(***************************************************************************)
\* What an ensure region leads to: its body, with the stacks of the region's outside.
LEMMA EnsureGoal ==
  ASSUME NEW c, NEW N, WellNested(c, N), NEW a \in DOMAIN N, Ens(c, a)
  PROVE  /\ Goal(c, a) \in DOMAIN N /\ N[Goal(c, a)].entry = N[a].entry
         /\ N[Goal(c, a)].rescues = N[a].rescues /\ N[Goal(c, a)].loops = N[a].loops
         /\ N[Goal(c, a)].bodies = Append(N[a].bodies, a)
         /\ N[Goal(c, a)].begins = <<>> /\ N[Goal(c, a)].depth = 0
<1>1. c[a].op = "PushEnsure" /\ Jumps(c, N, a)
  BY DEF WellNested, Ens
<1>2. Is(N, Goal(c, a), Point(N[a].entry, N[a].rescues, N[a].loops, Append(N[a].bodies, a), <<>>, 0))
  BY <1>1 DEF Jumps
<1>3. PICK k, e, r, l, s, b : /\ k = Goal(c, a) /\ e = N[a].entry /\ r = N[a].rescues
                              /\ l = N[a].loops /\ s = Append(N[a].bodies, a) /\ b = <<>>
  OBVIOUS
<1>4. Is(N, k, Point(e, r, l, s, b, 0))
  BY <1>2, <1>3
<1>5. /\ k \in DOMAIN N /\ N[k].entry = e /\ N[k].rescues = r /\ N[k].loops = l
      /\ N[k].bodies = s /\ N[k].begins = b /\ N[k].depth = 0
  BY ONLY <1>4, PointFields
<1> QED BY ONLY <1>3, <1>5

\* What a rescue clause leads to: the handler code, in the same body.
LEMMA RescueGoal ==
  ASSUME NEW c, NEW N, WellNested(c, N), NEW a \in DOMAIN N, c[a].op \in Pushes, ~ Ens(c, a)
  PROVE  /\ Goal(c, a) \in DOMAIN N /\ N[Goal(c, a)].entry = N[a].entry
         /\ Sub(N[Goal(c, a)].rescues, N[a].rescues) /\ N[Goal(c, a)].loops = N[a].loops
         /\ N[Goal(c, a)].bodies = N[a].bodies
         /\ N[Goal(c, a)].begins = N[a].begins /\ N[Goal(c, a)].depth = N[a].depth
         /\ c[Goal(c, a)].op = Unnests
<1>1. c[a].op = "PushRescue" /\ Jumps(c, N, a)
  BY DEF WellNested, Ens, Pushes
<1>2. PICK r : r = N[Goal(c, a)].rescues
  OBVIOUS
<1>3. /\ Is(N, Goal(c, a), Point(N[a].entry, r, N[a].loops, N[a].bodies, N[a].begins, N[a].depth))
      /\ IsPrefix(r, N[a].rescues) /\ c[Goal(c, a)].op = Unnests
  BY <1>1, <1>2 DEF Jumps
<1>4. /\ Goal(c, a) \in DOMAIN N /\ N[Goal(c, a)].entry = N[a].entry
      /\ N[Goal(c, a)].loops = N[a].loops /\ N[Goal(c, a)].bodies = N[a].bodies
      /\ N[Goal(c, a)].begins = N[a].begins /\ N[Goal(c, a)].depth = N[a].depth
  BY <1>3, PointFields
<1>5. r \in Seq(Addr(c)) /\ N[a].rescues \in Seq(Addr(c))
  BY <1>2, <1>4, PointIs
<1>6. Sub(r, N[a].rescues)
  BY <1>3, <1>5, PrefixSeq DEF Sub
<1> QED BY <1>2, <1>3, <1>4, <1>6

\* The innermost loop.
LEMMA LastLoop ==
  ASSUME NEW c, NEW N, WellNested(c, N), NEW i \in DOMAIN N, N[i].loops # <<>>,
         NEW a, InnerLoop(N, i, a)
  PROVE  /\ a = N[i].loops[Len(N[i].loops)] /\ Len(N[i].loops) \in 1 .. Len(N[i].loops)
         /\ a \in DOMAIN N /\ Around(N, a, i) /\ Len(N[a].loops) = Len(N[i].loops) - 1
         /\ \A j \in 1 .. Len(N[i].loops) :
              N[i].loops[j] = a \/ (\E h \in 1 .. Len(N[a].loops) : N[i].loops[j] = N[a].loops[h])
         /\ \A p \in 1 .. Len(N[i].rescues) :
              p > Len(N[a].rescues) => N[N[i].rescues[p]].loops = N[i].loops
<1>1. N[i].loops \in Seq(Addr(c))
  BY PointIs
<1>2. a = N[i].loops[Len(N[i].loops)] /\ Len(N[i].loops) \in 1 .. Len(N[i].loops)
  BY <1>1, FrontSeq DEF InnerLoop
<1>3. a \in DOMAIN N /\ Around(N, a, i) /\ Len(N[a].loops) = Len(N[i].loops) - 1
  BY <1>2, LoopIs
<1>4. Sub(N[a].loops, N[i].loops)
  BY <1>3, AroundIs
<1>5. ASSUME NEW j \in 1 .. Len(N[i].loops), N[i].loops[j] # a
      PROVE  \E h \in 1 .. Len(N[a].loops) : N[i].loops[j] = N[a].loops[h]
  <2>1. j \in 1 .. Len(N[a].loops)
    BY <1>2, <1>3, <1>5
  <2> QED BY <1>4, <2>1 DEF Sub
<1>6. ASSUME NEW p \in 1 .. Len(N[i].rescues), p > Len(N[a].rescues)
      PROVE  N[N[i].rescues[p]].loops = N[i].loops
  <2>1. PICK r : r = N[i].rescues[p]
    OBVIOUS
  <2>2. r \in DOMAIN N /\ Around(N, r, i)
    BY <2>1, HandlerIs
  <2>3. Sub(N[r].loops, N[i].loops)
    BY <2>2, AroundIs
  <2>4. Len(N[r].loops) >= Len(N[i].loops)
    BY <1>2, <1>6, <2>1, OrderIs
  <2>5. N[r].loops \in Seq(Addr(c)) /\ Len(N[r].loops) \in Nat /\ Len(N[i].loops) \in Nat
    BY <2>2, PointIs
  <2>6. Len(N[r].loops) = Len(N[i].loops)
    BY <2>3, <2>4, <2>5 DEF Sub
  <2> QED BY <1>1, <2>1, <2>3, <2>5, <2>6, SameSeq DEF Sub
<1> QED BY <1>2, <1>3, <1>5, <1>6

\* The handlers under the p-th one are around the body that it protects, and the
\* walks that an exception it takes keeps are those of the bodies around it.
LEMMA KeptLevels ==
  ASSUME NEW c, NEW N, WellNested(c, N), NEW i \in DOMAIN N, NEW p \in 1 .. Len(N[i].rescues),
         NEW P, NEW gd, ParksOK(c, N, P, N[i].bodies, gd), NEW at \in P
  PROVE  at.rescues < p <=> Level(N, at.body) <= Level(N, N[i].rescues[p])
<1>1. PICK a, b, l, s : a = N[i].rescues[p] /\ b = at.body /\ l = Level(N, b) /\ s = N[i].bodies
  OBVIOUS
<1>2. /\ l \in 1 .. Len(s) /\ b = Goal(c, s[l]) /\ at.rescues = Len(N[b].rescues)
  BY <1>1 DEF ParksOK
<1>3. s[l] \in DOMAIN N /\ Ens(c, s[l]) /\ Level(N, s[l]) = l - 1
  BY <1>1, <1>2, BodyIs
<1>4. at.rescues = Len(N[s[l]].rescues)
  BY <1>2, <1>3, EnsureGoal
<1>5. a \in DOMAIN N /\ Around(N, a, i) /\ Len(N[a].rescues) = p - 1
  BY <1>1, HandlerIs
<1>6. Sub(N[a].bodies, s) /\ Level(N, a) \in Nat /\ Level(N, a) = Len(N[a].bodies)
  BY <1>1, <1>5, AroundIs DEF Level
<1>7. ASSUME at.rescues < p PROVE l <= Level(N, a)
  BY <1>1, <1>2, <1>4, <1>6, <1>7, OrderIs
<1>8. ASSUME l <= Level(N, a) PROVE at.rescues < p
  <2>1. l \in 1 .. Len(N[a].bodies) /\ N[a].bodies[l] = s[l]
    BY <1>2, <1>6, <1>8 DEF Sub
  <2>2. Around(N, s[l], a)
    BY <1>5, <2>1, BodyIs
  <2>3. Len(N[s[l]].rescues) <= Len(N[a].rescues)
    BY <1>5, <2>2, AroundIs DEF Sub
  <2>4. Len(N[s[l]].rescues) \in Nat
    BY <1>3, PointIs
  <2> QED BY <1>4, <1>5, <2>3, <2>4
<1> QED BY <1>1, <1>7, <1>8

\* Those that a transfer keeps are those of the bodies around its loop.
LEMMA KeptByLoop ==
  ASSUME NEW c, NEW N, WellNested(c, N), NEW i \in DOMAIN N, N[i].loops # <<>>,
         NEW a, InnerLoop(N, i, a),
         NEW P, NEW gd, ParksOK(c, N, P, N[i].bodies, gd), NEW at \in P
  PROVE  (at.rescues <= Len(N[a].rescues) /\ at.loops <= Len(N[a].loops)) <=> Level(N, at.body) <= Level(N, a)
<1>1. PICK b, l, s, j : b = at.body /\ l = Level(N, b) /\ s = N[i].bodies /\ j = Len(N[i].loops)
  OBVIOUS
<1>2. /\ l \in 1 .. Len(s) /\ b = Goal(c, s[l]) /\ at.rescues = Len(N[b].rescues) /\ at.loops = Len(N[b].loops)
  BY <1>1 DEF ParksOK
<1>3. s[l] \in DOMAIN N /\ Ens(c, s[l]) /\ Level(N, s[l]) = l - 1
  BY <1>1, <1>2, BodyIs
<1>4. at.rescues = Len(N[s[l]].rescues) /\ at.loops = Len(N[s[l]].loops)
  BY <1>2, <1>3, EnsureGoal
<1>5. /\ a = N[i].loops[j] /\ j \in 1 .. j
      /\ a \in DOMAIN N /\ Around(N, a, i) /\ Len(N[a].loops) = j - 1
  BY <1>1, LastLoop
<1>6. Sub(N[a].bodies, s) /\ Level(N, a) \in Nat /\ Level(N, a) = Len(N[a].bodies)
  BY <1>1, <1>5, AroundIs DEF Level
<1>7. ASSUME at.loops <= Len(N[a].loops) PROVE l <= Level(N, a)
  <2>1. Len(N[s[l]].loops) \in Nat
    BY <1>3, PointIs
  <2>2. j > Len(N[s[l]].loops)
    BY <1>4, <1>5, <1>7, <2>1
  <2> QED BY <1>1, <1>2, <1>5, <2>2, OrderIs
<1>8. ASSUME l <= Level(N, a) PROVE at.rescues <= Len(N[a].rescues) /\ at.loops <= Len(N[a].loops)
  <2>1. l \in 1 .. Len(N[a].bodies) /\ N[a].bodies[l] = s[l]
    BY <1>2, <1>6, <1>8 DEF Sub
  <2>2. Around(N, s[l], a)
    BY <1>5, <2>1, BodyIs
  <2> QED BY <1>4, <1>5, <2>2, AroundIs DEF Sub
<1> QED BY <1>1, <1>7, <1>8

(***************************************************************************)
(* One frame of a good state, with its heights and its swept levels.       *)
(***************************************************************************)
Cell(c, N, V, fs, st, xs, ws, q, k, i, gd, gn, m) ==
  /\ Good(c, N, V, fs, st, xs, ws, q) /\ k \in 1 .. Len(fs) /\ i = fs[k].ip
  /\ gd \in Ghost /\ gn \in Ghost /\ m \in Nat
  /\ Shape(c, N, i, fs[k].base, Height(fs, Len(st), k), fs[k].rescues, fs[k].loops, fs[k].begins, gd, gn)
  /\ Life(c, N, i, gd, m, k, In(Range(xs), k), In(Range(ws), k))

\* Every frame is one.
LEMMA CellIs ==
  ASSUME NEW c, NEW N, NEW V, NEW fs, NEW st, NEW xs, NEW ws, NEW q, Good(c, N, V, fs, st, xs, ws, q),
         NEW k \in 1 .. Len(fs)
  PROVE  \E gd, gn \in Ghost : \E m \in Nat : Cell(c, N, V, fs, st, xs, ws, q, k, fs[k].ip, gd, gn, m)
<1>1. FrameOK(c, N, fs[k], Height(fs, Len(st), k), k, In(Range(xs), k), In(Range(ws), k))
  BY DEF Good
<1>2. PICK gd \in Ghost, gn \in Ghost : \E m \in Nat :
        /\ Shape(c, N, fs[k].ip, fs[k].base, Height(fs, Len(st), k), fs[k].rescues, fs[k].loops, fs[k].begins, gd, gn)
        /\ Life(c, N, fs[k].ip, gd, m, k, In(Range(xs), k), In(Range(ws), k))
  BY <1>1 DEF FrameOK
<1>3. PICK m \in Nat :
        /\ Shape(c, N, fs[k].ip, fs[k].base, Height(fs, Len(st), k), fs[k].rescues, fs[k].loops, fs[k].begins, gd, gn)
        /\ Life(c, N, fs[k].ip, gd, m, k, In(Range(xs), k), In(Range(ws), k))
  BY <1>2
<1>4. Cell(c, N, V, fs, st, xs, ws, q, k, fs[k].ip, gd, gn, m)
  BY <1>3 DEF Cell
<1> QED BY <1>4

\* The fields of a frame.
LEMMA FrameFields ==
  ASSUME NEW V, NEW f \in FrameT(V)
  PROVE  /\ f.entry \in Int /\ f.ip \in Int /\ f.base \in Nat
         /\ f.rescues \in Seq(HandlerT(V)) /\ f.loops \in Seq(LoopT) /\ f.begins \in Seq(BeginT(V))
         /\ Len(f.rescues) \in Nat /\ Len(f.loops) \in Nat /\ Len(f.begins) \in Nat
BY LenProperties DEF FrameT

\* A cell is where its frame is.
LEMMA CellAt ==
  ASSUME NEW c, NEW N, NEW V, NEW fs, NEW st, NEW xs, NEW ws, NEW q, NEW k, NEW i, NEW gd, NEW gn, NEW m,
         Cell(c, N, V, fs, st, xs, ws, q, k, i, gd, gn, m)
  PROVE  i = fs[k].ip /\ fs[k].entry = N[i].entry
<1>1. FrameOK(c, N, fs[k], Height(fs, Len(st), k), k, In(Range(xs), k), In(Range(ws), k))
  BY DEF Cell, Good
<1>2. i = fs[k].ip
  BY DEF Cell
<1> QED BY <1>1, <1>2 DEF FrameOK

\* What a cell gives: the types of its frame and of its lists of walks.
LEMMA CellFields ==
  ASSUME NEW c, NEW N, NEW V, NEW fs, NEW st, NEW xs, NEW ws, NEW q, NEW k, NEW i, NEW gd, NEW gn, NEW m,
         Cell(c, N, V, fs, st, xs, ws, q, k, i, gd, gn, m)
  PROVE  /\ Good(c, N, V, fs, st, xs, ws, q) /\ fs \in Seq(FrameT(V)) /\ fs # <<>> /\ st \in Seq(V)
         /\ Len(st) \in Nat /\ Len(fs) \in Nat /\ k \in 1 .. Len(fs) /\ k \in Nat
         /\ gd \in Ghost /\ gn \in Ghost /\ m \in Nat
         /\ fs[k] \in FrameT(V) /\ i \in DOMAIN N
         /\ LevelsOK(N, N[i].bodies, fs[k].base, gd, gn)
         /\ WalksOK(N, V, Len(fs), xs, ws, q)
         /\ ParksOK(c, N, Ats(In(Range(xs), k)) \cup Ats(In(Range(ws), k)), N[i].bodies, gd)
<1>1. Good(c, N, V, fs, st, xs, ws, q) /\ k \in 1 .. Len(fs)
  BY DEF Cell
<1>2. fs \in Seq(FrameT(V)) /\ st \in Seq(V) /\ WalksOK(N, V, Len(fs), xs, ws, q) /\ fs # <<>>
  BY <1>1 DEF Good
<1>3. Len(fs) \in Nat /\ Len(st) \in Nat /\ fs[k] \in FrameT(V)
  BY <1>1, <1>2, LenProperties, ElementOfSeq
<1>4. FrameOK(c, N, fs[k], Height(fs, Len(st), k), k, In(Range(xs), k), In(Range(ws), k))
  BY <1>1 DEF Good
<1>5. i \in DOMAIN N
  BY <1>4, CellAt DEF FrameOK
<1>6. /\ gd \in Ghost /\ gn \in Ghost /\ m \in Nat /\ LevelsOK(N, N[i].bodies, fs[k].base, gd, gn)
      /\ ParksOK(c, N, Ats(In(Range(xs), k)) \cup Ats(In(Range(ws), k)), N[i].bodies, gd)
  BY DEF Cell, Shape, Life
<1> QED BY <1>1, <1>2, <1>3, <1>5, <1>6

\* A frame that goes on as g, with the lists of walks cut to level l of it.
Goes_on(c, N, V, f, g, d, hd, hn) ==
  /\ g \in FrameT(V) /\ g.base = f.base /\ g.entry = f.entry
  /\ g.ip \in DOMAIN N /\ g.entry = N[g.ip].entry
  /\ hd \in Ghost /\ hn \in Ghost
  /\ Shape(c, N, g.ip, g.base, d, g.rescues, g.loops, g.begins, hd, hn)

\* The k-th frame goes on as the top one.
LEMMA GoOn ==
  ASSUME NEW c, NEW N, NEW V, NEW fs, NEW st, NEW xs0, NEW ws0, NEW q, Good(c, N, V, fs, st, xs0, ws0, q),
         NEW k \in 1 .. Len(fs), NEW l, NEW xs, NEW ws, CutTo(N, V, xs0, ws0, k, l, xs, ws),
         NEW g, NEW ts \in Seq(V), NEW hd, NEW hn, Goes_on(c, N, V, fs[k], g, Len(ts), hd, hn),
         NEW m \in Nat,
         Life(c, N, g.ip, hd, m, k, Within(N, In(Range(xs0), k), l), Within(N, In(Range(ws0), k), l)),
         NEW gs, Topped(fs, k, g, gs)
  PROVE  Good(c, N, V, gs, ts, xs, ws, q)
<1>1. WalksOK(N, V, Len(fs), xs0, ws0, q) /\ Len(fs) \in Nat
  BY LenProperties DEF Good
<1>2. /\ WalksOK(N, V, k, xs, ws, q)
      /\ In(Range(xs), k) = Within(N, In(Range(xs0), k), l)
      /\ In(Range(ws), k) = Within(N, In(Range(ws0), k), l)
      /\ \A j \in 1 .. k - 1 : /\ In(Range(xs), j) = In(Range(xs0), j)
                               /\ In(Range(ws), j) = In(Range(ws0), j)
  BY <1>1, CutWalks
<1>3. FrameOK(c, N, g, Len(ts), k, In(Range(xs), k), In(Range(ws), k))
  BY <1>2 DEF FrameOK, Goes_on
<1>4. g \in FrameT(V) /\ g.base = fs[k].base /\ g.entry = fs[k].entry
  BY DEF Goes_on
<1> QED BY <1>2, <1>3, <1>4, Renew

\* The levels that walks are parked at.
LEMMA ParksLevels ==
  ASSUME NEW c, NEW N, NEW P, NEW s, Len(s) \in Nat, NEW gd, ParksOK(c, N, P, s, gd)
  PROVE  \A at \in P : Level(N, at.body) \in 1 .. Len(s) /\ Level(N, at.body) \in Nat
BY DEF ParksOK

\* A walk that parks deeper in the top frame than the others is innermost.
LEMMA ParksInnermost ==
  ASSUME NEW N, NEW V, NEW k \in Nat, NEW l \in Nat, NEW xs, NEW ws, NEW q,
         WalksOK(N, V, k, xs, ws, q),
         \A o \in Ats(In(Range(xs), k)) \cup Ats(In(Range(ws), k)) :
           Level(N, o.body) \in Nat /\ Level(N, o.body) <= l,
         NEW at, at.frame = k, Level(N, at.body) \in Nat, l < Level(N, at.body)
  PROVE  /\ \A a \in Ats(Range(xs)) \cup Ats(Range(ws)) : Outer(N, a, at) /\ ~ Outer(N, at, a)
         /\ ~ Outer(N, at, at)
<1>1. ASSUME NEW a \in Ats(Range(xs)) \cup Ats(Range(ws)) PROVE Outer(N, a, at) /\ ~ Outer(N, at, a)
  <2>1. a.frame \in 1 .. k
    BY DEF WalksOK
  <2>2. CASE a.frame = k
    <3>1. a \in Ats(In(Range(xs), k)) \cup Ats(In(Range(ws), k))
      BY <2>2 DEF Ats, In
    <3>2. Level(N, a.body) \in Nat /\ Level(N, a.body) <= l
      BY <3>1
    <3> QED BY <2>2, <3>2 DEF Outer
  <2>3. CASE a.frame # k
    BY <2>1, <2>3 DEF Outer
  <2> QED BY <2>2, <2>3
<1>2. ~ Outer(N, at, at)
  BY DEF Outer
<1> QED BY <1>1, <1>2

\* The k-th frame goes on as the top one in an ensure body, where a transfer parks.
LEMMA GoOnXfer ==
  ASSUME NEW c, NEW N, WellNested(c, N), NEW V, NEW fs, NEW st, NEW xs0, NEW ws0, NEW q, Good(c, N, V, fs, st, xs0, ws0, q),
         NEW k \in 1 .. Len(fs), NEW l \in Nat, NEW xs, NEW ws, CutTo(N, V, xs0, ws0, k, l, xs, ws),
         NEW g, NEW ts \in Seq(V), NEW hd, NEW hn, Goes_on(c, N, V, fs[k], g, Len(ts), hd, hn),
         NEW m \in Nat, NEW u \in XferT(V), u.at.frame = k, u.at.seq = q + 1, l < Level(N, u.at.body),
         Life(c, N, g.ip, hd, m, k, Within(N, In(Range(xs0), k), l) \cup {u}, Within(N, In(Range(ws0), k), l)),
         NEW gs, Topped(fs, k, g, gs)
  PROVE  Good(c, N, V, gs, ts, Append(xs, u), ws, q + 1)
<1>1. WalksOK(N, V, Len(fs), xs0, ws0, q) /\ Len(fs) \in Nat /\ k \in Nat /\ k # 0
  BY LenProperties DEF Good
<1>2. PICK X, W, A, B : /\ X = In(Range(xs0), k) /\ W = In(Range(ws0), k)
                        /\ A = Within(N, X, l) /\ B = Within(N, W, l)
  OBVIOUS
<1>3. /\ WalksOK(N, V, k, xs, ws, q) /\ In(Range(xs), k) = A /\ In(Range(ws), k) = B
      /\ \A j \in 1 .. k - 1 : /\ In(Range(xs), j) = In(Range(xs0), j)
                               /\ In(Range(ws), j) = In(Range(ws0), j)
  <2>1. /\ WalksOK(N, V, k, xs, ws, q)
        /\ In(Range(xs), k) = Within(N, In(Range(xs0), k), l)
        /\ In(Range(ws), k) = Within(N, In(Range(ws0), k), l)
        /\ \A j \in 1 .. k - 1 : /\ In(Range(xs), j) = In(Range(xs0), j)
                                 /\ In(Range(ws), j) = In(Range(ws0), j)
    BY <1>1, CutWalks
  <2> QED BY <1>2, <2>1
<1>4. /\ \A o \in Ats(A) \cup Ats(B) : Level(N, o.body) \in Nat /\ Level(N, o.body) <= l
      /\ Level(N, u.at.body) \in Nat
  <2>1. PICK P, s : P = Ats(A \cup {u}) \cup Ats(B) /\ s = N[g.ip].bodies
    OBVIOUS
  <2>2. ParksOK(c, N, P, s, hd)
    BY <1>2, <2>1 DEF Life
  <2>3. Len(s) \in Nat
    BY <2>1, PointIs DEF Goes_on
  <2>4. \A at \in P : Level(N, at.body) \in Nat
    BY <2>2, <2>3, ParksLevels
  <2>5. Ats(A) \subseteq P /\ Ats(B) \subseteq P /\ u.at \in P
    BY <2>1 DEF Ats
  <2>6. \A o \in Ats(A) \cup Ats(B) : Level(N, o.body) <= l
    BY <1>2 DEF Ats, Within
  <2> QED BY <2>4, <2>5, <2>6
<1>5. PICK at : at = u.at
  OBVIOUS
<1>6. \A o \in Ats(In(Range(xs), k)) \cup Ats(In(Range(ws), k)) :
        Level(N, o.body) \in Nat /\ Level(N, o.body) <= l
  BY <1>3, <1>4
<1>7. /\ \A a \in Ats(Range(xs)) \cup Ats(Range(ws)) : Outer(N, a, at) /\ ~ Outer(N, at, a)
      /\ ~ Outer(N, at, at)
  <2>1. /\ WalksOK(N, V, k, xs, ws, q) /\ k \in Nat /\ l \in Nat
        /\ at.frame = k /\ Level(N, at.body) \in Nat /\ l < Level(N, at.body)
    BY <1>1, <1>3, <1>4, <1>5
  <2> QED BY ONLY <1>6, <2>1, ParksInnermost
<1>8. /\ WalksOK(N, V, k, Append(xs, u), ws, q + 1)
      /\ Range(Append(xs, u)) = Range(xs) \cup {u}
  BY <1>1, <1>3, <1>5, <1>7, AddXfer
<1>9. PICK ys : ys = Append(xs, u)
  OBVIOUS
<1>10. /\ In(Range(ys), k) = A \cup {u}
       /\ \A j \in 1 .. k - 1 : In(Range(ys), j) = In(Range(xs), j)
  <2>1. Range(ys) = Range(xs) \cup {u}
    BY <1>8, <1>9
  <2>2. \A j \in 1 .. k - 1 : j # k
    BY <1>1
  <2> QED BY <1>3, <2>1, <2>2 DEF In
<1>11. FrameOK(c, N, g, Len(ts), k, In(Range(ys), k), In(Range(ws), k))
  <2>1. Life(c, N, g.ip, hd, m, k, In(Range(ys), k), In(Range(ws), k))
    BY <1>2, <1>3, <1>10
  <2> QED BY <2>1 DEF FrameOK, Goes_on
<1>12. g \in FrameT(V) /\ g.base = fs[k].base /\ g.entry = fs[k].entry
  BY DEF Goes_on
<1>13. WalksOK(N, V, k, ys, ws, q + 1)
  BY <1>8, <1>9
<1>14. \A j \in 1 .. k - 1 : /\ In(Range(ys), j) = In(Range(xs0), j)
                            /\ In(Range(ws), j) = In(Range(ws0), j)
  BY <1>3, <1>10
<1>15. Good(c, N, V, gs, ts, ys, ws, q + 1)
  BY <1>11, <1>12, <1>13, <1>14, Renew
<1> QED BY <1>9, <1>15

\* The k-th frame goes on as the top one in an ensure body, where a return's walk parks.
LEMMA GoOnWalk ==
  ASSUME NEW c, NEW N, WellNested(c, N), NEW V, NEW fs, NEW st, NEW xs0, NEW ws0, NEW q, Good(c, N, V, fs, st, xs0, ws0, q),
         NEW k \in 1 .. Len(fs), NEW l \in Nat, NEW xs, NEW ws, CutTo(N, V, xs0, ws0, k, l, xs, ws),
         NEW g, NEW ts \in Seq(V), NEW hd, NEW hn, Goes_on(c, N, V, fs[k], g, Len(ts), hd, hn),
         NEW m \in Nat, NEW u \in WalkT(V), u.at.frame = k, u.at.seq = q + 1, l < Level(N, u.at.body),
         Life(c, N, g.ip, hd, m, k, Within(N, In(Range(xs0), k), l), Within(N, In(Range(ws0), k), l) \cup {u}),
         NEW gs, Topped(fs, k, g, gs)
  PROVE  Good(c, N, V, gs, ts, xs, Append(ws, u), q + 1)
<1>1. WalksOK(N, V, Len(fs), xs0, ws0, q) /\ Len(fs) \in Nat /\ k \in Nat /\ k # 0
  BY LenProperties DEF Good
<1>2. PICK X, W, A, B : /\ X = In(Range(xs0), k) /\ W = In(Range(ws0), k)
                        /\ A = Within(N, X, l) /\ B = Within(N, W, l)
  OBVIOUS
<1>3. /\ WalksOK(N, V, k, xs, ws, q) /\ In(Range(xs), k) = A /\ In(Range(ws), k) = B
      /\ \A j \in 1 .. k - 1 : /\ In(Range(xs), j) = In(Range(xs0), j)
                               /\ In(Range(ws), j) = In(Range(ws0), j)
  <2>1. /\ WalksOK(N, V, k, xs, ws, q)
        /\ In(Range(xs), k) = Within(N, In(Range(xs0), k), l)
        /\ In(Range(ws), k) = Within(N, In(Range(ws0), k), l)
        /\ \A j \in 1 .. k - 1 : /\ In(Range(xs), j) = In(Range(xs0), j)
                                 /\ In(Range(ws), j) = In(Range(ws0), j)
    BY <1>1, CutWalks
  <2> QED BY <1>2, <2>1
<1>4. /\ \A o \in Ats(A) \cup Ats(B) : Level(N, o.body) \in Nat /\ Level(N, o.body) <= l
      /\ Level(N, u.at.body) \in Nat
  <2>1. PICK P, s : P = Ats(A) \cup Ats(B \cup {u}) /\ s = N[g.ip].bodies
    OBVIOUS
  <2>2. ParksOK(c, N, P, s, hd)
    BY <1>2, <2>1 DEF Life
  <2>3. Len(s) \in Nat
    BY <2>1, PointIs DEF Goes_on
  <2>4. \A at \in P : Level(N, at.body) \in Nat
    BY <2>2, <2>3, ParksLevels
  <2>5. Ats(A) \subseteq P /\ Ats(B) \subseteq P /\ u.at \in P
    BY <2>1 DEF Ats
  <2>6. \A o \in Ats(A) \cup Ats(B) : Level(N, o.body) <= l
    BY <1>2 DEF Ats, Within
  <2> QED BY <2>4, <2>5, <2>6
<1>5. PICK at : at = u.at
  OBVIOUS
<1>6. \A o \in Ats(In(Range(xs), k)) \cup Ats(In(Range(ws), k)) :
        Level(N, o.body) \in Nat /\ Level(N, o.body) <= l
  BY <1>3, <1>4
<1>7. /\ \A a \in Ats(Range(xs)) \cup Ats(Range(ws)) : Outer(N, a, at) /\ ~ Outer(N, at, a)
      /\ ~ Outer(N, at, at)
  <2>1. /\ WalksOK(N, V, k, xs, ws, q) /\ k \in Nat /\ l \in Nat
        /\ at.frame = k /\ Level(N, at.body) \in Nat /\ l < Level(N, at.body)
    BY <1>1, <1>3, <1>4, <1>5
  <2> QED BY ONLY <1>6, <2>1, ParksInnermost
<1>8. /\ WalksOK(N, V, k, xs, Append(ws, u), q + 1)
      /\ Range(Append(ws, u)) = Range(ws) \cup {u}
  BY <1>1, <1>3, <1>5, <1>7, AddWalk
<1>9. PICK ys : ys = Append(ws, u)
  OBVIOUS
<1>10. /\ In(Range(ys), k) = B \cup {u}
       /\ \A j \in 1 .. k - 1 : In(Range(ys), j) = In(Range(ws), j)
  <2>1. Range(ys) = Range(ws) \cup {u}
    BY <1>8, <1>9
  <2>2. \A j \in 1 .. k - 1 : j # k
    BY <1>1
  <2> QED BY <1>3, <2>1, <2>2 DEF In
<1>11. FrameOK(c, N, g, Len(ts), k, In(Range(xs), k), In(Range(ys), k))
  <2>1. Life(c, N, g.ip, hd, m, k, In(Range(xs), k), In(Range(ys), k))
    BY <1>2, <1>3, <1>10
  <2> QED BY <2>1 DEF FrameOK, Goes_on
<1>12. g \in FrameT(V) /\ g.base = fs[k].base /\ g.entry = fs[k].entry
  BY DEF Goes_on
<1>13. WalksOK(N, V, k, xs, ys, q + 1)
  BY <1>8, <1>9
<1>14. \A j \in 1 .. k - 1 : /\ In(Range(xs), j) = In(Range(xs0), j)
                            /\ In(Range(ys), j) = In(Range(ws0), j)
  BY <1>3, <1>10
<1>15. Good(c, N, V, gs, ts, xs, ys, q + 1)
  BY <1>11, <1>12, <1>13, <1>14, Renew
<1> QED BY <1>9, <1>15

(***************************************************************************)
(* Entering an ensure body.  g is the k-th frame as it goes on in the body *)
(* that r protects, with x operands.                                       *)
(***************************************************************************)
Entered(c, N, V, f, g, r, x, gd, hd, hn) ==
  /\ Goes_on(c, N, V, f, g, x, hd, hn)
  /\ g.ip = Goal(c, r) /\ Len(g.rescues) = Len(N[r].rescues) /\ Len(g.loops) = Len(N[r].loops)
  /\ \A l \in 0 .. Level(N, r) : hd[l] = gd[l]
  /\ hd[Level(N, r) + 1] = x

\* The stacks of g are those of r, with the begins left open above them.
Cuts(N, f, g, r, gn) ==
  /\ g.base = f.base /\ g.entry = f.entry
  /\ Len(g.rescues) = Len(N[r].rescues) /\ \A j \in 1 .. Len(N[r].rescues) : g.rescues[j] = f.rescues[j]
  /\ Len(g.loops) = Len(N[r].loops) /\ \A j \in 1 .. Len(N[r].loops) : g.loops[j] = f.loops[j]
  /\ Nb(N, gn, r) <= Len(g.begins) /\ \A j \in 1 .. Nb(N, gn, r) : g.begins[j] = f.begins[j]

\* The heights of the levels outside stay.
LEMMA EnterHeights ==
  ASSUME NEW gd \in Ghost, NEW l \in Nat, NEW x \in Nat, NEW hd, Puts(gd, l + 1, x, hd)
  PROVE  hd[l + 1] = x /\ \A j \in 0 .. l : hd[j] = gd[j]
BY GhostPut

\* The frame that enters.
LEMMA EnterFrame ==
  ASSUME NEW c, NEW N, WellNested(c, N), NEW V, NEW fs, NEW st, NEW xs, NEW ws, NEW q, NEW k, NEW i,
         NEW gd, NEW gn, NEW m, Cell(c, N, V, fs, st, xs, ws, q, k, i, gd, gn, m),
         NEW r, Around(N, r, i), Ens(c, r), NEW g \in FrameT(V), g.ip = Goal(c, r), Cuts(N, fs[k], g, r, gn),
         \A j \in 1 .. Len(g.begins) :
           /\ g.begins[j].loops <= Len(g.loops)
           /\ \/ j \in 1 .. Len(fs[k].begins) /\ g.begins[j] = fs[k].begins[j]
              \/ j > Nb(N, gn, r) /\ g.begins[j].loops >= Len(g.loops),
         NEW x \in Nat, Dp(N, gd, r) <= x
  PROVE  \E hd, hn : Entered(c, N, V, fs[k], g, r, x, gd, hd, hn)
<1>1. PICK f, b : f = fs[k] /\ b = g.ip
  OBVIOUS
<1>2. /\ f \in FrameT(V) /\ i \in DOMAIN N /\ gd \in Ghost /\ gn \in Ghost /\ f.entry = N[i].entry
      /\ Shape(c, N, i, f.base, Height(fs, Len(st), k), f.rescues, f.loops, f.begins, gd, gn)
  <2>1. fs[k] \in FrameT(V) /\ i \in DOMAIN N /\ gd \in Ghost /\ gn \in Ghost /\ fs[k].entry = N[i].entry
    <3>1. fs[k] \in FrameT(V) /\ i \in DOMAIN N /\ gd \in Ghost /\ gn \in Ghost
      BY CellFields
    <3>2. fs[k].entry = N[i].entry
      BY CellAt
    <3> QED BY <3>1, <3>2
  <2>2. Shape(c, N, i, fs[k].base, Height(fs, Len(st), k), fs[k].rescues, fs[k].loops, fs[k].begins, gd, gn)
    BY DEF Cell
  <2> QED BY <1>1, <2>1, <2>2
<1>3. r \in DOMAIN N /\ N[r].entry = N[i].entry /\ Level(N, r) \in Nat
  BY <1>2, AroundIs
<1>4. /\ b \in DOMAIN N /\ N[b].entry = N[r].entry
      /\ N[b].rescues = N[r].rescues /\ N[b].loops = N[r].loops
      /\ N[b].bodies = Append(N[r].bodies, r)
      /\ N[b].begins = <<>> /\ N[b].depth = 0
  BY <1>1, <1>3, EnsureGoal
<1>5. /\ g.base = f.base /\ g.entry = f.entry
      /\ Len(g.rescues) = Len(N[r].rescues) /\ (\A j \in 1 .. Len(N[r].rescues) : g.rescues[j] = f.rescues[j])
      /\ Len(g.loops) = Len(N[r].loops) /\ (\A j \in 1 .. Len(N[r].loops) : g.loops[j] = f.loops[j])
      /\ Nb(N, gn, r) <= Len(g.begins) /\ (\A j \in 1 .. Nb(N, gn, r) : g.begins[j] = f.begins[j])
  BY <1>1 DEF Cuts
<1>6. /\ f.begins \in Seq(BeginT(V)) /\ g.begins \in Seq(BeginT(V)) /\ Len(g.begins) \in Nat
  BY <1>2, FrameFields
<1>7. PICK hd, hn : Puts(gd, Level(N, r) + 1, x, hd) /\ Puts(gn, Level(N, r) + 1, Len(g.begins), hn)
  BY DEF Puts
<1>8. \A j \in 1 .. Len(g.begins) : /\ g.begins[j].loops <= Len(g.loops)
                                    /\ \/ j \in 1 .. Len(f.begins) /\ g.begins[j] = f.begins[j]
                                       \/ j > Nb(N, gn, r) /\ g.begins[j].loops >= Len(g.loops)
  BY <1>1
<1>9. /\ Shape(c, N, b, f.base, x, g.rescues, g.loops, g.begins, hd, hn) /\ hd \in Ghost /\ hn \in Ghost
      /\ \A l \in 0 .. Level(N, r) : hd[l] = gd[l]
      /\ hd[Level(N, r) + 1] = x
  <2>1. PICK R, Q, Ls, Ks, B, D, base, d :
          /\ R = f.rescues /\ Q = g.rescues /\ Ls = f.loops /\ Ks = g.loops
          /\ B = f.begins /\ D = g.begins /\ base = f.base /\ d = Height(fs, Len(st), k)
    OBVIOUS
  <2>2. /\ Shape(c, N, i, base, d, R, Ls, B, gd, gn)
        /\ B \in Seq(BeginT(V)) /\ D \in Seq(BeginT(V)) /\ gd \in Ghost /\ gn \in Ghost
        /\ WellNested(c, N) /\ i \in DOMAIN N /\ b \in DOMAIN N /\ Around(N, r, i)
        /\ x \in Nat /\ Dp(N, gd, r) <= x
        /\ Puts(gd, Level(N, r) + 1, x, hd) /\ Puts(gn, Level(N, r) + 1, Len(D), hn)
    BY <1>2, <1>4, <1>6, <1>7, <2>1
  <2>3. /\ Len(Q) = Len(N[r].rescues) /\ (\A j \in 1 .. Len(N[r].rescues) : Q[j] = R[j])
        /\ Len(Ks) = Len(N[r].loops) /\ (\A j \in 1 .. Len(N[r].loops) : Ks[j] = Ls[j])
        /\ Nb(N, gn, r) <= Len(D) /\ (\A j \in 1 .. Nb(N, gn, r) : D[j] = B[j])
    BY <1>5, <2>1
  <2>4. Entering(N, r, R, Q, Ls, Ks, B, D, gn) /\ BodyOf(N, r, b)
    BY <1>4, <1>8, <2>1, <2>3 DEF Entering, BodyOf
  <2>5. Shape(c, N, b, base, x, Q, Ks, D, hd, hn) /\ hd \in Ghost /\ hn \in Ghost
    BY ONLY <2>2, <2>4, EnterBody
  <2>6. hd[Level(N, r) + 1] = x /\ \A l \in 0 .. Level(N, r) : hd[l] = gd[l]
    BY <1>2, <1>3, <1>7, EnterHeights
  <2> QED BY <2>1, <2>5, <2>6
<1>10. Goes_on(c, N, V, f, g, x, hd, hn)
  BY <1>1, <1>2, <1>3, <1>4, <1>5, <1>9 DEF Goes_on
<1> QED BY <1>1, <1>5, <1>9, <1>10 DEF Entered

\* The frame f as g, in the ensure body of its p-th handler, where a walk parks.
Opens(c, f, g, p, r) ==
  /\ g.ip = Goal(c, r) /\ g.base = f.base /\ g.entry = f.entry
  /\ g.rescues = Upto(f.rescues, p - 1) /\ g.loops = f.loops /\ g.begins = f.begins

\* A walk that parks leaves the loops and begins open.
LEMMA EnterOpen ==
  ASSUME NEW c, NEW N, WellNested(c, N), NEW V, NEW fs, NEW st, NEW xs, NEW ws, NEW q, NEW k, NEW i,
         NEW gd, NEW gn, NEW m, Cell(c, N, V, fs, st, xs, ws, q, k, i, gd, gn, m),
         NEW p \in 1 .. Len(N[i].rescues), NEW r, Scope(N, i, p, r), Ens(c, r),
         Len(N[r].loops) = Len(N[i].loops), NEW g \in FrameT(V), Opens(c, fs[k], g, p, r)
  PROVE  \E hd, hn : Entered(c, N, V, fs[k], g, r, Dp(N, gd, r), gd, hd, hn)
<1>1. PICK f, R, Ls, B : f = fs[k] /\ R = f.rescues /\ Ls = f.loops /\ B = f.begins
  OBVIOUS
<1>2. /\ f \in FrameT(V) /\ i \in DOMAIN N /\ gd \in Ghost /\ gn \in Ghost
      /\ LevelsOK(N, N[i].bodies, f.base, gd, gn)
  BY <1>1, CellFields
<1>3. HandlersOK(c, N, i, R, B, gd, gn) /\ LoopsOK(N, i, Ls, B, gd, gn) /\ BeginsOK(N, i, Ls, B, gn)
  BY <1>1 DEF Cell, Shape
<1>4. R \in Seq(HandlerT(V)) /\ Len(R) \in Nat /\ Len(Ls) \in Nat /\ Len(B) \in Nat
  BY <1>1, <1>2, FrameFields
<1>5. r \in DOMAIN N /\ Around(N, r, i) /\ Len(N[r].rescues) = p - 1
  BY <1>2, HandlerIs DEF Scope
<1>6. Dp(N, gd, r) \in Nat /\ Nb(N, gn, r) \in Nat /\ Nb(N, gn, r) <= Nb(N, gn, i)
  BY <1>2, <1>5, Below
<1>7. p \in Nat \ {0} /\ p <= Len(R)
  <2>1. Len(N[i].rescues) \in Nat /\ Len(N[i].rescues) <= Len(R)
    BY <1>2, <1>3, PointIs DEF HandlersOK
  <2> QED BY <1>4, <2>1
<1>8. PICK y : y = p - 1
  OBVIOUS
<1>9. Len(Upto(R, y)) = y /\ \A j \in 1 .. y : Upto(R, y)[j] = R[j]
  <2>1. y \in Nat /\ y <= Len(R)
    BY <1>4, <1>7, <1>8
  <2> QED BY <1>4, <2>1, UptoSeq
<1>10. /\ g.base = f.base /\ g.entry = f.entry
       /\ g.rescues = Upto(R, y) /\ g.loops = Ls /\ g.begins = B
  BY <1>1, <1>8 DEF Opens
<1>11. Cuts(N, f, g, r, gn)
  <2>1. /\ Len(g.rescues) = Len(N[r].rescues)
        /\ \A j \in 1 .. Len(N[r].rescues) : g.rescues[j] = f.rescues[j]
    BY <1>1, <1>5, <1>8, <1>9, <1>10
  <2>2. /\ Len(g.loops) = Len(N[r].loops)
        /\ \A j \in 1 .. Len(N[r].loops) : g.loops[j] = f.loops[j]
    BY <1>1, <1>3, <1>10 DEF LoopsOK
  <2>3. /\ Nb(N, gn, r) <= Len(g.begins)
        /\ \A j \in 1 .. Nb(N, gn, r) : g.begins[j] = f.begins[j]
    BY <1>1, <1>3, <1>6, <1>10 DEF BeginsOK
  <2> QED BY <1>10, <2>1, <2>2, <2>3 DEF Cuts
<1>12. \A j \in 1 .. Len(g.begins) :
         /\ g.begins[j].loops <= Len(g.loops)
         /\ \/ j \in 1 .. Len(fs[k].begins) /\ g.begins[j] = fs[k].begins[j]
            \/ j > Nb(N, gn, r) /\ g.begins[j].loops >= Len(g.loops)
  BY <1>1, <1>3, <1>10 DEF BeginsOK
<1>13. g.ip = Goal(c, r)
  BY DEF Opens
<1> QED BY <1>1, <1>5, <1>6, <1>11, <1>12, <1>13, EnterFrame

\* The level of a body.
LEMMA EnterLevel ==
  ASSUME NEW c, NEW N, WellNested(c, N), NEW a \in DOMAIN N, Ens(c, a)
  PROVE  /\ Level(N, Goal(c, a)) = Level(N, a) + 1 /\ Len(N[Goal(c, a)].bodies) = Level(N, a) + 1
         /\ N[Goal(c, a)].bodies[Level(N, a) + 1] = a
<1>1. PICK s, t : s = N[a].bodies /\ t = N[Goal(c, a)].bodies
  OBVIOUS
<1>2. s \in Seq(Addr(c)) /\ a \in Addr(c)
  BY <1>1, PointIs
<1>3. t = Append(s, a)
  BY <1>1, EnsureGoal
<1>4. Len(t) = Len(s) + 1 /\ t[Len(s) + 1] = a
  BY <1>2, <1>3, AppendSeq
<1> QED BY <1>1, <1>4 DEF Level

\* A walk parks in g, the k-th frame, as the q+1-st.
Waits(g, k, x, q, at) ==
  /\ at.on /\ at.frame = k /\ at.rescues = Len(g.rescues) /\ at.stack = x
  /\ at.loops = Len(g.loops) /\ at.seq = q + 1 /\ at.body = g.ip

\* The p-th handler's body is outside no walk of a level beyond l that a rescue
\* clause below it is inside of.
Spares(c, N, i, p, P, l) ==
  \A at \in P : Level(N, at.body) <= l \/
    \A j \in 1 .. p - 1 : Ens(c, N[i].rescues[j]) \/ Level(N, N[i].rescues[j]) # Level(N, at.body)

\* What parks there is parked right.
LEMMA ParkedRight ==
  ASSUME NEW c, NEW N, WellNested(c, N), NEW V, NEW f, NEW g, NEW r \in DOMAIN N, Ens(c, r), NEW x, NEW gd, NEW hd, NEW hn,
         Entered(c, N, V, f, g, r, x, gd, hd, hn), NEW k, NEW q, NEW at, Waits(g, k, x, q, at)
  PROVE  ParksOK(c, N, {at}, N[g.ip].bodies, hd) /\ Level(N, at.body) = Level(N, r) + 1
<1>1. PICK b : b = g.ip
  OBVIOUS
<1>2. b = Goal(c, r) /\ at.body = b
  BY <1>1 DEF Entered, Waits
<1>3. /\ b \in DOMAIN N /\ N[b].rescues = N[r].rescues /\ N[b].loops = N[r].loops
      /\ Level(N, b) = Level(N, r) + 1 /\ Len(N[b].bodies) = Level(N, r) + 1
      /\ N[b].bodies[Level(N, r) + 1] = r /\ Level(N, r) \in Nat
  BY <1>2, EnsureGoal, EnterLevel, PointIs DEF Level
<1>4. at.on /\ at.rescues = Len(N[r].rescues) /\ at.loops = Len(N[r].loops) /\ at.stack = hd[Level(N, r) + 1]
  BY DEF Entered, Waits
<1> QED BY <1>1, <1>2, <1>3, <1>4 DEF ParksOK

(***************************************************************************)
(* Transfers.  t goes from i to its innermost loop a, in a body that no    *)
(* return has left.                                                        *)
(***************************************************************************)
Aiming(N, t, i, a, gd, m) ==
  /\ N[i].loops # <<>> /\ InnerLoop(N, i, a) /\ Aims(N, t, i, gd)
  /\ Level(N, a) = 0 \/ Level(N, a) > m

\* The scopes of a loop that i is in.
LEMMA AimingIs ==
  ASSUME NEW c, NEW N, WellNested(c, N), NEW i \in DOMAIN N, NEW t, NEW a, NEW gd, NEW m, Aiming(N, t, i, a, gd, m)
  PROVE  /\ a \in DOMAIN N /\ Around(N, a, i) /\ Level(N, a) \in Nat
         /\ Len(N[i].loops) \in 1 .. Len(N[i].loops) /\ Len(N[a].rescues) \in Nat
         /\ \A j \in 1 .. Len(N[i].loops) : Level(N, N[i].loops[j]) <= Level(N, a)
<1>1. N[i].loops # <<>> /\ InnerLoop(N, i, a)
  BY DEF Aiming
<1>2. /\ Len(N[i].loops) \in 1 .. Len(N[i].loops) /\ a \in DOMAIN N /\ Around(N, a, i)
      /\ \A j \in 1 .. Len(N[i].loops) :
           N[i].loops[j] = a \/ (\E h \in 1 .. Len(N[a].loops) : N[i].loops[j] = N[a].loops[h])
  BY <1>1, LastLoop
<1>3. Level(N, a) \in Nat /\ Len(N[a].rescues) \in Nat
  BY <1>2, PointIs DEF Level
<1>4. \A h \in 1 .. Len(N[a].loops) : Level(N, N[a].loops[h]) <= Level(N, a)
  <2> SUFFICES ASSUME NEW h \in 1 .. Len(N[a].loops) PROVE Level(N, N[a].loops[h]) <= Level(N, a)
    OBVIOUS
  <2>1. Around(N, N[a].loops[h], a)
    BY <1>2, LoopIs
  <2> QED BY <1>2, <2>1, AroundIs
<1> QED BY <1>2, <1>3, <1>4

\* So is an ensure region between i and that loop.
LEMMA AimingThrough ==
  ASSUME NEW c, NEW N, WellNested(c, N), NEW i \in DOMAIN N, NEW t, NEW a, NEW gd, NEW m, Aiming(N, t, i, a, gd, m),
         NEW p \in 1 .. Len(N[i].rescues), NEW r, Scope(N, i, p, r), p > Len(N[a].rescues)
  PROVE  /\ r \in DOMAIN N /\ Around(N, r, i) /\ Level(N, r) \in Nat /\ Level(N, a) <= Level(N, r)
         /\ N[r].loops = N[i].loops
<1>1. N[i].loops # <<>> /\ InnerLoop(N, i, a)
  BY DEF Aiming
<1>2. r \in DOMAIN N /\ Around(N, r, i) /\ Level(N, r) \in Nat
  BY HandlerIs, AroundIs DEF Scope
<1>3. N[r].loops = N[i].loops
  BY <1>1, LastLoop DEF Scope
<1>4. Around(N, a, r)
  <2>1. N[r].loops # <<>> /\ InnerLoop(N, r, a)
    BY <1>1, <1>3 DEF InnerLoop
  <2> QED BY <1>2, <2>1, LastLoop
<1> QED BY <1>2, <1>3, <1>4, AroundIs

\* A transfer parks in the body of that region.
LEMMA LifeTransfer ==
  ASSUME NEW c, NEW N, WellNested(c, N), NEW i \in DOMAIN N, NEW u, NEW a, NEW gd, NEW m \in Nat, Aiming(N, u, i, a, gd, m),
         NEW p \in 1 .. Len(N[i].rescues), NEW r, Scope(N, i, p, r), p > Len(N[a].rescues), Ens(c, r),
         NEW k, NEW X, NEW W, Life(c, N, i, gd, m, k, X, W), Spares(c, N, i, p, Ats(X) \cup Ats(W), Level(N, a)),
         NEW V, NEW f, NEW g, NEW x, NEW hd, NEW hn, Entered(c, N, V, f, g, r, x, gd, hd, hn),
         NEW h, NEW q, Waits(g, h, x, q, u.at)
  PROVE  /\ Life(c, N, g.ip, hd, Least(m, Level(N, r)), k, Within(N, X, Level(N, a)) \cup {u}, Within(N, W, Level(N, a)))
         /\ Level(N, a) < Level(N, u.at.body)
<1>1. PICK b, l, L : b = g.ip /\ l = Level(N, a) /\ L = Level(N, r)
  OBVIOUS
<1>2. /\ r \in DOMAIN N /\ Around(N, r, i) /\ L \in Nat /\ l \in Nat /\ l <= L /\ N[r].loops = N[i].loops
  BY <1>1, AimingIs, AimingThrough
<1>3. /\ b = Goal(c, r) /\ (\A j \in 0 .. L : hd[j] = gd[j])
      /\ u.at.body = b /\ hd[L + 1] = x
  BY <1>1 DEF Entered, Waits
<1>4. /\ b \in DOMAIN N /\ N[b].rescues = N[r].rescues /\ N[b].loops = N[i].loops
      /\ N[b].bodies = Append(N[r].bodies, r) /\ Level(N, b) = L + 1
  BY <1>1, <1>2, <1>3, EnsureGoal, EnterLevel
<1>5. ParksOK(c, N, {u.at}, N[b].bodies, hd)
  BY <1>1, <1>2, ParkedRight
<1>6. PICK P : Parks(Within(N, X, l) \cup {u}, Within(N, W, l), P)
  BY DEF Parks
<1>7. XferOK(N, u, P, hd, Least(m, L))
  <2>1. Aims(N, u, b, hd)
    <3>1. Dp(N, hd, a) = Dp(N, gd, a)
      BY <1>1, <1>2, <1>3 DEF Dp
    <3>2. a = Last(N[b].loops) /\ a = Last(N[i].loops) /\ Aims(N, u, i, gd)
      BY <1>4 DEF Aiming, InnerLoop
    <3> QED BY <1>4, <3>1, <3>2 DEF Aims
  <2>2. \A o \in P : Level(N, o.body) <= l \/ o = u.at
    BY <1>6 DEF Parks, Ats, Within
  <2>3. \A o \in P : Level(N, o.body) < Level(N, b) => Level(N, o.body) <= l
    BY <1>3, <1>4, <1>2, <2>2
  <2>4. l = 0 \/ l > Least(m, L)
    BY <1>1, <1>2 DEF Aiming, Least
  <2>5. a = Last(N[b].loops)
    BY <1>4 DEF Aiming, InnerLoop
  <2> QED BY <1>1, <1>3, <2>1, <2>3, <2>4, <2>5 DEF XferOK
<1>8. Spared(c, N, i, p, r, Ats(X) \cup Ats(W), l)
  <2>1. \A j \in 1 .. Len(N[r].loops) : Level(N, N[r].loops[j]) <= l
    BY <1>1, <1>2, AimingIs
  <2> QED BY <1>1, <2>1 DEF Spares, Spared
<1>9. PICK Y : Y = {u}
  OBVIOUS
<1>10. /\ \A t \in Y : Level(N, t.at.body) = L + 1 /\ XferOK(N, t, P, hd, Least(m, L))
       /\ ParksOK(c, N, Ats(Y), N[b].bodies, hd) /\ Y # {}
  <2>1. Ats(Y) = {u.at}
    BY <1>9 DEF Ats
  <2> QED BY <1>3, <1>4, <1>5, <1>7, <1>9, <2>1
<1>11. Parks(Within(N, X, l) \cup Y, Within(N, W, l), P)
  BY <1>6, <1>9
<1>12. Life(c, N, b, hd, Least(m, L), k, Within(N, X, l) \cup Y, Within(N, W, l))
  <2>1. /\ WellNested(c, N) /\ i \in DOMAIN N /\ p \in 1 .. Len(N[i].rescues) /\ Scope(N, i, p, r)
        /\ Ens(c, r) /\ b \in DOMAIN N /\ m \in Nat /\ Life(c, N, i, gd, m, k, X, W)
    BY <1>4
  <2>2. BodyOf(N, r, b) /\ l \in Nat /\ l <= Level(N, r) /\ Agree(gd, hd, Level(N, r))
    <3>1. N[b].begins = <<>> /\ N[b].depth = 0
      BY <1>1, <1>2, <1>3, EnsureGoal
    <3>2. /\ N[b].bodies = Append(N[r].bodies, r) /\ N[b].rescues = N[r].rescues /\ N[b].loops = N[r].loops
      BY <1>2, <1>4
    <3> QED BY <1>1, <1>2, <1>3, <3>1, <3>2 DEF BodyOf, Agree
  <2>3. Parking(c, N, Y, b, r, gd, hd, m, P)
    BY <1>1, <1>10 DEF Parking
  <2>4. Life(c, N, b, hd, Least(m, Level(N, r)), k, Within(N, X, l) \cup Y, Within(N, W, l))
    BY ONLY <1>8, <1>11, <2>1, <2>2, <2>3, LifeEnter
  <2> QED BY <1>1, <2>4
<1> QED BY <1>1, <1>2, <1>3, <1>4, <1>9, <1>12

\* The frame of a transfer that parks goes on in the body.
LEMMA TransferParks ==
  ASSUME NEW c, NEW N, WellNested(c, N), NEW V, NEW fs, NEW st, NEW xs0, NEW ws0, NEW q, NEW k, NEW i,
         NEW gd, NEW gn, NEW m, Cell(c, N, V, fs, st, xs0, ws0, q, k, i, gd, gn, m),
         NEW u \in XferT(V), NEW a, Aiming(N, u, i, a, gd, m),
         NEW p \in 1 .. Len(N[i].rescues), NEW r, Scope(N, i, p, r), p > Len(N[a].rescues), Ens(c, r),
         Spares(c, N, i, p, Ats(In(Range(xs0), k)) \cup Ats(In(Range(ws0), k)), Level(N, a)),
         NEW xs, NEW ws, CutTo(N, V, xs0, ws0, k, Level(N, a), xs, ws),
         NEW g \in FrameT(V), Opens(c, fs[k], g, p, r), Waits(g, k, Dp(N, gd, r), q, u.at),
         NEW ts \in Seq(V), Len(ts) = Dp(N, gd, r), NEW gs, Topped(fs, k, g, gs)
  PROVE  Good(c, N, V, gs, ts, Append(xs, u), ws, q + 1)
<1>1. PICK X, W, l, d : X = In(Range(xs0), k) /\ W = In(Range(ws0), k) /\ l = Level(N, a) /\ d = Dp(N, gd, r)
  OBVIOUS
<1>2. i \in DOMAIN N /\ m \in Nat /\ Good(c, N, V, fs, st, xs0, ws0, q) /\ k \in 1 .. Len(fs)
  BY CellFields
<1>3. Life(c, N, i, gd, m, k, X, W)
  BY <1>1 DEF Cell
<1>4. r \in DOMAIN N /\ Level(N, r) \in Nat /\ Len(N[r].loops) = Len(N[i].loops) /\ l \in Nat
  BY <1>1, <1>2, AimingIs, AimingThrough
<1>5. PICK hd, hn : Entered(c, N, V, fs[k], g, r, d, gd, hd, hn)
  BY <1>1, <1>4, EnterOpen
<1>6. /\ Life(c, N, g.ip, hd, Least(m, Level(N, r)), k, Within(N, X, l) \cup {u}, Within(N, W, l))
      /\ l < Level(N, u.at.body)
  <2>1. Spares(c, N, i, p, Ats(X) \cup Ats(W), l) /\ Waits(g, k, d, q, u.at)
    BY <1>1
  <2> QED BY <1>1, <1>2, <1>3, <1>5, <2>1, LifeTransfer
<1>7. Least(m, Level(N, r)) \in Nat
  BY <1>2, <1>4 DEF Least
<1>8. Goes_on(c, N, V, fs[k], g, Len(ts), hd, hn) /\ u.at.frame = k /\ u.at.seq = q + 1
  BY <1>1, <1>5 DEF Entered, Waits
<1>9. /\ CutTo(N, V, xs0, ws0, k, l, xs, ws)
      /\ Life(c, N, g.ip, hd, Least(m, Level(N, r)), k, Within(N, In(Range(xs0), k), l) \cup {u},
              Within(N, In(Range(ws0), k), l))
  BY <1>1, <1>6
<1> QED BY <1>2, <1>4, <1>6, <1>7, <1>8, <1>9, GoOnXfer

(***************************************************************************)
(* Landing.  g is the k-th frame as it goes on at b, in the body that a is *)
(* in.                                                                     *)
(***************************************************************************)
LEMMA LandFrame ==
  ASSUME NEW c, NEW N, WellNested(c, N), NEW V, NEW fs, NEW st, NEW xs, NEW ws, NEW q, NEW k, NEW i,
         NEW gd, NEW gn, NEW m, Cell(c, N, V, fs, st, xs, ws, q, k, i, gd, gn, m),
         NEW a, Around(N, a, i), NEW b \in DOMAIN N, LandsIn(N, i, a, b),
         NEW g \in FrameT(V), g.ip = b, g.base = fs[k].base, g.entry = fs[k].entry,
         Landing(c, N, a, b, fs[k].rescues, g.rescues, fs[k].loops, g.loops, fs[k].begins, g.begins, gn)
  PROVE  Goes_on(c, N, V, fs[k], g, Dp(N, gd, b), gd, gn)
<1>1. /\ fs[k] \in FrameT(V) /\ i \in DOMAIN N /\ gd \in Ghost /\ gn \in Ghost
  BY CellFields
<1>2. fs[k].entry = N[i].entry
  BY CellAt
<1>3. PICK R, Q, Ls, Ks, B, D, base, d :
        /\ R = fs[k].rescues /\ Q = g.rescues /\ Ls = fs[k].loops /\ Ks = g.loops
        /\ B = fs[k].begins /\ D = g.begins /\ base = fs[k].base /\ d = Height(fs, Len(st), k)
  OBVIOUS
<1>4. /\ Shape(c, N, i, base, d, R, Ls, B, gd, gn)
      /\ Landing(c, N, a, b, R, Q, Ls, Ks, B, D, gn)
  BY <1>3 DEF Cell
<1>5. /\ B \in Seq(BeginT(V)) /\ D \in Seq(BeginT(V))
  BY <1>1, <1>3, FrameFields
<1>6. Shape(c, N, b, base, Dp(N, gd, b), Q, Ks, D, gd, gn)
  BY <1>1, <1>4, <1>5, Land
<1>7. N[b].entry = N[i].entry
  BY <1>1, AroundIs DEF LandsIn
<1> QED BY <1>1, <1>2, <1>3, <1>6, <1>7 DEF Goes_on

\* A transfer lands inside its loop.
LEMMA LandsInLoop ==
  ASSUME NEW c, NEW N, WellNested(c, N), NEW i \in DOMAIN N, NEW t, NEW a, NEW gd, NEW m, Aiming(N, t, i, a, gd, m)
  PROVE  /\ t.ip \in DOMAIN N /\ LandsIn(N, i, a, t.ip)
         /\ N[t.ip].depth = N[a].depth + Len(t.value) /\ N[t.ip].loops = N[i].loops
         /\ N[t.ip].rescues = N[a].rescues
<1>1. N[i].loops # <<>> /\ InnerLoop(N, i, a) /\ a = Last(N[i].loops) /\ Aims(N, t, i, gd)
  BY DEF Aiming, InnerLoop
<1>2. Is(N, t.ip, Point(N[a].entry, N[a].rescues, N[i].loops, N[a].bodies, N[a].begins, N[a].depth + Len(t.value)))
  BY <1>1 DEF Aims
<1>3. PICK b, e, r, l, s, n, d :
        /\ b = t.ip /\ e = N[a].entry /\ r = N[a].rescues /\ l = N[i].loops
        /\ s = N[a].bodies /\ n = N[a].begins /\ d = N[a].depth + Len(t.value)
  OBVIOUS
<1>4. Is(N, b, Point(e, r, l, s, n, d))
  BY <1>2, <1>3
<1>5. /\ b \in DOMAIN N /\ N[b].entry = e /\ N[b].rescues = r /\ N[b].loops = l
      /\ N[b].bodies = s /\ N[b].begins = n /\ N[b].depth = d
  BY ONLY <1>4, PointFields
<1>6. \A j \in 1 .. Len(N[i].loops) : N[i].loops[j] = a \/ Around(N, N[i].loops[j], a)
  <2>1. /\ a \in DOMAIN N
        /\ \A j \in 1 .. Len(N[i].loops) :
             N[i].loops[j] = a \/ (\E h \in 1 .. Len(N[a].loops) : N[i].loops[j] = N[a].loops[h])
    BY <1>1, LastLoop
  <2>2. \A h \in 1 .. Len(N[a].loops) : Around(N, N[a].loops[h], a)
    BY <2>1, LoopIs
  <2> QED BY <2>1, <2>2
<1>7. Sub(N[a].rescues, N[a].rescues) /\ Sub(N[i].loops, N[i].loops)
  <2>1. a \in DOMAIN N
    BY <1>1, LastLoop
  <2>2. Len(N[a].rescues) \in Nat /\ Len(N[i].loops) \in Nat
    BY <2>1, PointIs
  <2> QED BY <2>2 DEF Sub
<1> QED BY <1>3, <1>5, <1>6, <1>7 DEF LandsIn

\* The begins that a landing keeps are those its loop was entered with.
LEMMA KeepIs ==
  ASSUME NEW N, NEW S, NEW B \in Seq(S), NEW s, NEW j, NEW a, NEW gd, NEW gn, LoopOK(N, B, s, j, a, gd, gn),
         NEW h \in Nat, h + 1 = j, Nb(N, gn, a) \in Nat, Nb(N, gn, a) <= Len(B)
  PROVE  Largest({0} \cup {x \in DOMAIN B : B[x].loops <= h}) = Nb(N, gn, a)
<1>1. PICK n, T : n = Nb(N, gn, a) /\ T = {0} \cup {x \in DOMAIN B : B[x].loops <= h}
  OBVIOUS
<1>2. DOMAIN B = 1 .. Len(B) /\ Len(B) \in Nat /\ n \in Nat /\ n <= Len(B) /\ j - 1 = h
  BY <1>1, LenProperties
<1>3. \A x \in 1 .. Len(B) : B[x].loops <= h <=> x <= n
  BY <1>1, <1>2 DEF LoopOK
<1>4. T = 0 .. n
  BY <1>1, <1>2, <1>3
<1>5. Largest(T) \in T /\ \A y \in T : y <= Largest(T)
  <2>1. n \in Nat /\ 0 \in T
    BY <1>1, <1>2
  <2>2. T \subseteq Nat /\ \A y \in T : y <= n
    BY ONLY <1>4, <2>1
  <2>3. T # {}
    BY <2>1
  <2> QED BY ONLY <2>1, <2>2, <2>3, LargestIs
<1>6. PICK x : x = Largest(T)
  OBVIOUS
<1>7. x \in 0 .. n /\ n <= x
  <2>1. n \in 0 .. n
    BY <1>2
  <2> QED BY <1>4, <1>5, <1>6, <2>1
<1>8. x = n
  BY <1>2, <1>7
<1> QED BY <1>1, <1>6, <1>8

\* The frame f as g, at the loop that t goes to.
Lands(f, g, t) ==
  /\ g.ip = t.ip /\ g.base = f.base /\ g.entry = f.entry
  /\ g.rescues = Upto(f.rescues, t.rescues) /\ g.loops = Upto(f.loops, t.loops + 1)
  /\ g.begins = Upto(f.begins, Largest({0} \cup {j \in DOMAIN f.begins : f.begins[j].loops <= t.loops}))

\* The loop's frame has the stacks of the point after the loop.
LEMMA TransferFrame ==
  ASSUME NEW c, NEW N, WellNested(c, N), NEW V, NEW fs, NEW st, NEW xs, NEW ws, NEW q, NEW k, NEW i,
         NEW gd, NEW gn, NEW m, Cell(c, N, V, fs, st, xs, ws, q, k, i, gd, gn, m),
         NEW t \in XferT(V), NEW a, Aiming(N, t, i, a, gd, m), NEW g \in FrameT(V), Lands(fs[k], g, t)
  PROVE  Goes_on(c, N, V, fs[k], g, Dp(N, gd, t.ip), gd, gn)
<1>1. PICK f, R, Ls, B, b, j, n :
        /\ f = fs[k] /\ R = f.rescues /\ Ls = f.loops /\ B = f.begins
        /\ b = t.ip /\ j = Len(N[i].loops) /\ n = Nb(N, gn, a)
  OBVIOUS
<1>2. /\ f \in FrameT(V) /\ i \in DOMAIN N /\ gd \in Ghost /\ gn \in Ghost
      /\ LevelsOK(N, N[i].bodies, f.base, gd, gn)
  BY <1>1, CellFields
<1>3. HandlersOK(c, N, i, R, B, gd, gn) /\ LoopsOK(N, i, Ls, B, gd, gn) /\ BeginsOK(N, i, Ls, B, gn)
  BY <1>1 DEF Cell, Shape
<1>4. /\ R \in Seq(HandlerT(V)) /\ Len(R) \in Nat /\ Ls \in Seq(LoopT) /\ Len(Ls) \in Nat
      /\ B \in Seq(BeginT(V)) /\ Len(B) \in Nat
  BY <1>1, <1>2, FrameFields
<1>5. /\ a \in DOMAIN N /\ Around(N, a, i) /\ Level(N, a) \in Nat
      /\ j \in 1 .. j /\ Len(N[a].rescues) \in Nat
  BY <1>1, <1>2, AimingIs
<1>6. /\ b \in DOMAIN N /\ LandsIn(N, i, a, b) /\ N[b].loops = N[i].loops /\ N[b].rescues = N[a].rescues
  BY <1>1, <1>2, LandsInLoop
<1>7. t.loops + 1 = j /\ t.rescues = Len(N[a].rescues) /\ t.loops \in Nat
  <2>1. t.loops + 1 = Len(N[i].loops) /\ t.rescues = Len(N[a].rescues)
    BY DEF Aiming, Aims, InnerLoop
  <2>2. t.loops \in Nat
    BY DEF XferT
  <2> QED BY <1>1, <2>1, <2>2
<1>8. N[i].loops[j] = a
  <2>1. N[i].loops # <<>> /\ InnerLoop(N, i, a)
    BY DEF Aiming
  <2> QED BY <1>1, <1>2, <2>1, LastLoop
<1>9. LoopOK(N, B, Ls[j], j, a, gd, gn) /\ Len(Ls) = j
  BY <1>1, <1>3, <1>5, <1>8 DEF LoopsOK
<1>10. n \in Nat /\ n <= Len(B)
  <2>1. n \in Nat
    BY <1>1, <1>2, <1>5, Below
  <2>2. Held(N, B, n, N[a].begins)
    BY <1>1, <1>9 DEF LoopOK
  <2> QED BY <2>1, <2>2 DEF Held
<1>11. Largest({0} \cup {x \in DOMAIN B : B[x].loops <= t.loops}) = n
  BY <1>1, <1>4, <1>7, <1>9, <1>10, KeepIs
<1>12. /\ g.rescues = Upto(R, Len(N[a].rescues)) /\ g.loops = Upto(Ls, j) /\ g.begins = Upto(B, n)
       /\ g.ip = b /\ g.base = f.base /\ g.entry = f.entry
  BY <1>1, <1>7, <1>11 DEF Lands
<1>13. PICK y : y = Len(N[a].rescues)
  OBVIOUS
<1>14. Len(g.rescues) = y /\ \A x \in 1 .. y : g.rescues[x] = R[x]
  <2>1. y \in Nat /\ y <= Len(R)
    <3>1. y <= Len(N[i].rescues) /\ Len(N[i].rescues) <= Len(R)
      BY <1>2, <1>3, <1>5, <1>13, AroundIs DEF Sub, HandlersOK
    <3>2. Len(N[i].rescues) \in Nat
      BY <1>2, PointIs
    <3> QED BY <1>4, <1>5, <1>13, <3>1, <3>2
  <2> QED BY <1>4, <1>12, <1>13, <2>1, UptoSeq
<1>15. Len(g.loops) = j /\ \A x \in 1 .. j : g.loops[x] = Ls[x]
  BY <1>4, <1>5, <1>9, <1>12, UptoSeq
<1>16. Len(g.begins) = n /\ \A x \in 1 .. n : g.begins[x] = B[x]
  <2>1. PICK D : D = Upto(B, n)
    OBVIOUS
  <2>2. Len(D) = n /\ \A x \in 1 .. n : D[x] = B[x]
    BY <1>4, <1>10, <2>1, UptoSeq
  <2> QED BY <1>12, <2>1, <2>2
<1>17. \A x \in 1 .. n : B[x].loops <= Len(g.loops)
  BY <1>3, <1>4, <1>9, <1>10, <1>15 DEF BeginsOK
<1>18. Held(N, B, n, N[a].begins)
  BY <1>1, <1>9 DEF LoopOK
<1>19. Landing(c, N, a, b, R, g.rescues, Ls, g.loops, B, g.begins, gn)
  BY <1>1, <1>6, <1>13, <1>14, <1>15, <1>16, <1>17, <1>18, <1>5 DEF Landing
<1> QED BY <1>1, <1>5, <1>6, <1>12, <1>19, LandFrame

\* The frame of a transfer that lands goes on in its loop.
LEMMA TransferLands ==
  ASSUME NEW c, NEW N, WellNested(c, N), NEW V, NEW fs, NEW st, NEW xs0, NEW ws0, NEW q, NEW k, NEW i,
         NEW gd, NEW gn, NEW m, Cell(c, N, V, fs, st, xs0, ws0, q, k, i, gd, gn, m),
         NEW t \in XferT(V), NEW a, Aiming(N, t, i, a, gd, m),
         NEW xs, NEW ws, CutTo(N, V, xs0, ws0, k, Level(N, a), xs, ws),
         NEW g \in FrameT(V), Lands(fs[k], g, t),
         NEW ts \in Seq(V), Len(ts) = Dp(N, gd, a) + Len(t.value), NEW gs, Topped(fs, k, g, gs)
  PROVE  Good(c, N, V, gs, ts, xs, ws, q)
<1>1. PICK X, W, l, b : X = In(Range(xs0), k) /\ W = In(Range(ws0), k) /\ l = Level(N, a) /\ b = t.ip
  OBVIOUS
<1>2. /\ i \in DOMAIN N /\ m \in Nat /\ Good(c, N, V, fs, st, xs0, ws0, q) /\ k \in 1 .. Len(fs)
      /\ gd \in Ghost /\ gn \in Ghost
  BY CellFields
<1>3. Life(c, N, i, gd, m, k, X, W)
  BY <1>1 DEF Cell
<1>4. /\ a \in DOMAIN N /\ Around(N, a, i) /\ l \in Nat
  BY <1>1, <1>2, AimingIs
<1>5. /\ b \in DOMAIN N /\ LandsIn(N, i, a, b)
      /\ N[b].depth = N[a].depth + Len(t.value) /\ N[b].loops = N[i].loops
  BY <1>1, <1>2, LandsInLoop
<1>6. Goes_on(c, N, V, fs[k], g, Dp(N, gd, b), gd, gn) /\ g.ip = b
  BY <1>1, TransferFrame DEF Lands
<1>7. Dp(N, gd, b) = Len(ts)
  <2>1. Level(N, b) = l
    BY <1>1, <1>5 DEF LandsIn, Level
  <2>2. gd[l] \in Nat /\ N[a].depth \in Nat
    BY <1>2, <1>4, GhostIs, PointIs
  <2>3. t.value \in Seq(V)
    BY DEF XferT
  <2>4. Len(t.value) \in Nat
    BY <2>3, LenProperties
  <2>5. Len(ts) = gd[l] + N[a].depth + Len(t.value)
    BY <1>1 DEF Dp
  <2> QED BY <1>5, <2>1, <2>2, <2>4, <2>5 DEF Dp
<1>8. /\ N[i].loops # <<>> /\ InnerLoop(N, i, a) /\ (l = 0 \/ l > m)
  BY <1>1 DEF Aiming
<1>9. /\ Len(N[i].loops) \in 1 .. Len(N[i].loops) /\ N[i].loops[Len(N[i].loops)] = a
      /\ \A j \in 1 .. Len(N[i].loops) :
           N[i].loops[j] = a \/ (\E h \in 1 .. Len(N[a].loops) : N[i].loops[j] = N[a].loops[h])
  BY <1>2, <1>8, LastLoop
<1>10. l = 0 \/ (l > m /\ Live(N, Ats(X) \cup Ats(W), N[i].bodies, gd, l))
  <2>1. LoopLive(N, Ats(X) \cup Ats(W), N[i].bodies, gd, m, a)
    BY <1>3, <1>9 DEF Life, LiveOK
  <2> QED BY <1>1, <1>2, <1>4, <1>8, <2>1 DEF LoopLive
<1>11. Life(c, N, b, gd, Least(m, l), k, Within(N, X, l), Within(N, W, l))
  <2>1. /\ N[b].bodies = N[a].bodies /\ Sub(N[b].rescues, N[a].rescues)
        /\ \A j \in 1 .. Len(N[b].loops) :
             N[b].loops[j] = a \/ \E h \in 1 .. Len(N[a].loops) : N[b].loops[j] = N[a].loops[h]
    BY <1>5, <1>9 DEF LandsIn
  <2>2. Level(N, a) = 0 \/ (Level(N, a) > m /\ Live(N, Ats(X) \cup Ats(W), N[i].bodies, gd, Level(N, a)))
    BY <1>1, <1>10
  <2>3. Life(c, N, b, gd, Least(m, Level(N, a)), k, Within(N, X, Level(N, a)), Within(N, W, Level(N, a)))
    BY <1>2, <1>3, <1>4, <1>5, <2>1, <2>2, LifeLand
  <2> QED BY <1>1, <2>3
<1>12. Least(m, l) \in Nat
  BY <1>2, <1>4 DEF Least
<1>13. /\ CutTo(N, V, xs0, ws0, k, l, xs, ws) /\ Goes_on(c, N, V, fs[k], g, Len(ts), gd, gn)
       /\ Life(c, N, g.ip, gd, Least(m, l), k, Within(N, In(Range(xs0), k), l), Within(N, In(Range(ws0), k), l))
  BY <1>1, <1>6, <1>7, <1>11
<1> QED BY <1>2, <1>12, <1>13, GoOn

(***************************************************************************)
(* The operations as the interpreter calls them.  hs are the frames once   *)
(* the op has been fetched: fs with the top one's ip moved on.             *)
(***************************************************************************)
SameStacks(f, g) ==
  /\ g.entry = f.entry /\ g.base = f.base
  /\ g.rescues = f.rescues /\ g.loops = f.loops /\ g.begins = f.begins

Handed(V, fs, hs) ==
  /\ hs \in Seq(FrameT(V)) /\ Len(hs) = Len(fs)
  /\ \A j \in 1 .. Len(fs) - 1 : hs[j] = fs[j]
  /\ SameStacks(fs[Len(fs)], hs[Len(fs)])

\* Cutting them cuts the frames.
LEMMA HandedTopped ==
  ASSUME NEW V, NEW fs \in Seq(FrameT(V)), fs # <<>>, NEW hs, Handed(V, fs, hs),
         NEW k \in 1 .. Len(fs), NEW g, NEW gs, Topped(hs, k, g, gs)
  PROVE  Topped(fs, k, g, gs)
<1>1. PICK y, u, v, n : y = k - 1 /\ u = Upto(fs, y) /\ v = Upto(hs, y) /\ n = Len(fs)
  OBVIOUS
<1>2. n \in Nat /\ y \in Nat /\ y < n /\ hs \in Seq(FrameT(V)) /\ Len(hs) = n
  BY <1>1, LenProperties DEF Handed
<1>3. /\ u \in Seq(FrameT(V)) /\ Len(u) = y /\ \A j \in 1 .. y : u[j] = fs[j]
  <2>1. y < Len(fs) /\ Len(fs) \in Nat
    BY <1>1, <1>2
  <2> QED BY <1>1, <1>2, <2>1, UptoSeq
<1>4. /\ v \in Seq(FrameT(V)) /\ Len(v) = y /\ \A j \in 1 .. y : v[j] = hs[j]
  BY <1>1, <1>2, UptoSeq
<1>5. \A j \in 1 .. n - 1 : hs[j] = fs[j]
  BY <1>1 DEF Handed
<1>6. \A j \in 1 .. Len(u) : v[j] = u[j]
  BY <1>2, <1>3, <1>4, <1>5
<1>7. u = v
  BY <1>3, <1>4, <1>6, SameSeq
<1> QED BY <1>1, <1>7 DEF Topped

\* The transfer t parked at at.
WaitsAt(t, at, u) == u = [t EXCEPT !.at = at]

\* What a transfer aims at does not depend on where it waits.
LEMMA AimSame ==
  ASSUME NEW V, NEW t \in XferT(V), NEW at \in AtT, NEW u, WaitsAt(t, at, u),
         NEW N, NEW i, NEW a, NEW gd, NEW m, Aiming(N, t, i, a, gd, m)
  PROVE  u \in XferT(V) /\ u.at = at /\ Aiming(N, u, i, a, gd, m)
<1>1. /\ u \in XferT(V) /\ u.at = at /\ u.value = t.value /\ u.ip = t.ip /\ u.rescues = t.rescues
      /\ u.loops = t.loops /\ u.stack = t.stack
  BY DEF XferT, WaitsAt
<1>2. Aims(N, u, i, gd)
  BY <1>1 DEF Aiming, Aims
<1> QED BY <1>1, <1>2 DEF Aiming

\* The operands under the handlers and the loop that a transfer goes through.
Room(N, i, a, gd, s) ==
  /\ Dp(N, gd, a) <= Len(s)
  /\ \A j \in 1 .. Len(N[i].rescues) : j > Len(N[a].rescues) => Dp(N, gd, N[i].rescues[j]) <= Len(s)

Passes(c, N, i, a, P) ==
  \A p \in 1 .. Len(N[i].rescues) :
    p > Len(N[a].rescues) /\ Ens(c, N[i].rescues[p]) => Spares(c, N, i, p, P, Level(N, a))

\* The top of the frames, as it is handed.
LEMMA HandedTop ==
  ASSUME NEW V, NEW fs \in Seq(FrameT(V)), fs # <<>>, NEW hs, Handed(V, fs, hs)
  PROVE  /\ Peek(hs) \in FrameT(V) /\ SameStacks(fs[Len(fs)], Peek(hs))
         /\ hs \in Seq(FrameT(V)) /\ Len(hs) = Len(fs)
<1>1. hs \in Seq(FrameT(V)) /\ Len(hs) = Len(fs) /\ Len(fs) \in Nat \ {0}
  BY LenProperties, EmptySeq DEF Handed
<1>2. Peek(hs) = hs[Len(fs)] /\ hs[Len(fs)] \in FrameT(V)
  BY <1>1, ElementOfSeq DEF Peek
<1> QED BY <1>1, <1>2 DEF Handed

\* ContinueTransfer with no ensure region in the way.
LEMMA TransferLanded ==
  ASSUME NEW N, WellNested(code, N), NEW V, NEW i, NEW gd, NEW gn, NEW m,
         Cell(code, N, V, frames, stack, xfers, walks, seq, Len(frames), i, gd, gn, m),
         NEW t \in XferT(V), NEW a, Aiming(N, t, i, a, gd, m),
         NEW xs, CutTo(N, V, xfers, walks, Len(frames), Level(N, a), xs, walks'),
         NEW hs, Handed(V, frames, hs), NEW ss \in Seq(V), Room(N, i, a, gd, ss),
         {j \in t.rescues + 1 .. Len(Peek(hs).rescues) : Peek(hs).rescues[j].ens} = {},
         ContinueTransfer(t, xs, hs, ss)
  PROVE  Good(code, N, V, frames', stack', xfers', walks', seq')
<1>1. /\ frames \in Seq(FrameT(V)) /\ frames # <<>> /\ Len(frames) \in Nat
      /\ frames[Len(frames)] \in FrameT(V) /\ i \in DOMAIN N /\ gd \in Ghost
  BY CellFields
<1>2. PICK f, e : f = frames[Len(frames)] /\ e = Peek(hs)
  OBVIOUS
<1>3. e \in FrameT(V) /\ SameStacks(f, e) /\ hs \in Seq(FrameT(V)) /\ Len(hs) = Len(frames)
  BY <1>1, <1>2, HandedTop
<1>4. PICK keep : keep = Largest({0} \cup {j \in DOMAIN e.begins : e.begins[j].loops <= t.loops})
  OBVIOUS
<1>5. PICK g : g = [e EXCEPT !.ip = t.ip, !.rescues = Upto(@, t.rescues),
                             !.loops = Upto(@, t.loops + 1), !.begins = Upto(@, keep)]
  OBVIOUS
<1>6. /\ frames' = Append(Upto(hs, Len(hs) - 1), g)
      /\ stack' = Upto(ss, t.stack) \o t.value
      /\ xfers' = xs /\ seq' = seq
  BY <1>2, <1>4, <1>5 DEF ContinueTransfer
<1>7. t.ip \in Int /\ t.rescues \in Nat /\ t.loops \in Nat /\ t.stack \in Nat /\ t.value \in Seq(V)
  BY DEF XferT
<1>8. keep \in Nat
  <2>1. e.begins \in Seq(BeginT(V)) /\ DOMAIN e.begins = 1 .. Len(e.begins) /\ Len(e.begins) \in Nat
    BY <1>3, FrameFields, LenProperties
  <2>2. PICK b, T : b = Len(e.begins) /\ T = {0} \cup {j \in DOMAIN e.begins : e.begins[j].loops <= t.loops}
    OBVIOUS
  <2>3. b \in Nat /\ T \subseteq Nat /\ (\A y \in T : y <= b) /\ 0 \in T
    BY <2>1, <2>2
  <2>4. T # {}
    BY <2>3
  <2>5. Largest(T) \in T
    BY ONLY <2>3, <2>4, LargestIs
  <2> QED BY <1>4, <2>2, <2>3, <2>5
<1>9. g \in FrameT(V) /\ Lands(f, g, t)
  <2>1. /\ e.rescues \in Seq(HandlerT(V)) /\ e.loops \in Seq(LoopT) /\ e.begins \in Seq(BeginT(V))
    BY <1>3, FrameFields
  <2>2. PICK R, Ls, B : R = Upto(e.rescues, t.rescues) /\ Ls = Upto(e.loops, t.loops + 1) /\ B = Upto(e.begins, keep)
    OBVIOUS
  <2>3. R \in Seq(HandlerT(V)) /\ Ls \in Seq(LoopT) /\ B \in Seq(BeginT(V))
    <3>1. t.loops + 1 \in Nat
      BY <1>7
    <3> QED BY <1>7, <1>8, <2>1, <2>2, <3>1, UptoSeq
  <2>4. g = [e EXCEPT !.ip = t.ip, !.rescues = R, !.loops = Ls, !.begins = B]
    BY <1>5, <2>2
  <2>5. /\ g \in FrameT(V) /\ g.ip = t.ip /\ g.rescues = R /\ g.loops = Ls /\ g.begins = B
        /\ g.base = e.base /\ g.entry = e.entry
    BY <1>3, <1>7, <2>3, <2>4 DEF FrameT
  <2> QED BY <1>3, <1>4, <2>2, <2>5 DEF Lands, SameStacks
<1>10. Topped(frames, Len(frames), g, frames')
  <2>1. Topped(hs, Len(frames), g, frames')
    BY <1>3, <1>6 DEF Topped
  <2>2. Len(frames) \in 1 .. Len(frames)
    BY <1>1, EmptySeq
  <2> QED BY <1>1, <2>1, <2>2, HandedTopped
<1>11. stack' \in Seq(V) /\ Len(stack') = Dp(N, gd, a) + Len(t.value)
  <2>1. t.stack = Dp(N, gd, a) /\ t.stack <= Len(ss)
    BY DEF Aiming, Aims, InnerLoop, Room
  <2>2. PICK u, d : u = Upto(ss, d) /\ d = t.stack
    OBVIOUS
  <2>3. u \in Seq(V) /\ Len(u) = d
    BY <1>7, <2>1, <2>2, LenProperties, UptoSeq
  <2>4. u \o t.value \in Seq(V) /\ Len(u \o t.value) = Len(u) + Len(t.value)
    BY <1>7, <2>3, ConcatProperties
  <2> QED BY <1>6, <2>1, <2>2, <2>3, <2>4
<1>12. Good(code, N, V, frames', stack', xs, walks', seq)
  BY <1>2, <1>9, <1>10, <1>11, TransferLands
<1> QED BY <1>6, <1>12

\* What waits in the frame g.
LEMMA ParkedIs ==
  ASSUME NEW V, NEW g \in FrameT(V), NEW k \in Nat, NEW x \in Nat, NEW h, g.ip = h.ip, seq \in Nat
  PROVE  Parked(g, k, x, h) \in AtT /\ Waits(g, k, x, seq, Parked(g, k, x, h))
<1>1. g.ip \in Int /\ Len(g.rescues) \in Nat /\ Len(g.loops) \in Nat
  BY FrameFields
<1> QED BY <1>1 DEF Parked, AtT, Waits

\* The frame of a walk that parks.
Leads(c, h, r) == h.ip = Goal(c, r) /\ h.ip \in Int
Opened(e, y, h, g) == g = [e EXCEPT !.ip = h.ip, !.rescues = Upto(@, y)]

\* It has the stacks of the region, and the loops and begins it had.
LEMMA OpenFrame ==
  ASSUME NEW c, NEW V, NEW f, NEW e \in FrameT(V), SameStacks(f, e), NEW y \in Nat,
         NEW r, NEW h, Leads(c, h, r), NEW g, Opened(e, y, h, g)
  PROVE  g \in FrameT(V) /\ Opens(c, f, g, y + 1, r)
<1>1. e.rescues \in Seq(HandlerT(V))
  BY FrameFields
<1>2. PICK R : R = Upto(e.rescues, y)
  OBVIOUS
<1>3. R \in Seq(HandlerT(V))
  BY <1>1, <1>2, UptoSeq
<1>4. g = [e EXCEPT !.ip = h.ip, !.rescues = R]
  BY <1>2 DEF Opened
<1>5. /\ g \in FrameT(V) /\ g.ip = h.ip /\ g.rescues = R /\ g.loops = e.loops /\ g.begins = e.begins
      /\ g.base = e.base /\ g.entry = e.entry
  BY <1>3, <1>4 DEF FrameT, Leads
<1>6. y = (y + 1) - 1
  OBVIOUS
<1> QED BY <1>2, <1>5, <1>6 DEF Opens, SameStacks, Leads

\* The p-th handler of a frame.
LEMMA HandlerAt ==
  ASSUME NEW c, NEW N, WellNested(c, N), NEW V, NEW fs, NEW st, NEW xs, NEW ws, NEW q, NEW k, NEW i,
         NEW gd, NEW gn, NEW m, Cell(c, N, V, fs, st, xs, ws, q, k, i, gd, gn, m),
         NEW p \in 1 .. Len(N[i].rescues), NEW r, Scope(N, i, p, r)
  PROVE  /\ HandlerOK(c, N, fs[k].begins, fs[k].rescues[p], r, gd, gn)
         /\ fs[k].rescues[p] \in HandlerT(V) /\ p <= Len(fs[k].rescues) /\ p \in Nat \ {0}
         /\ r \in DOMAIN N /\ Around(N, r, i) /\ Len(N[r].rescues) = p - 1
         /\ Dp(N, gd, r) \in Nat /\ Nb(N, gn, r) \in Nat /\ Nb(N, gn, r) <= Nb(N, gn, i)
<1>1. /\ fs[k] \in FrameT(V) /\ i \in DOMAIN N /\ gd \in Ghost /\ gn \in Ghost
      /\ LevelsOK(N, N[i].bodies, fs[k].base, gd, gn)
  BY CellFields
<1>2. HandlersOK(c, N, i, fs[k].rescues, fs[k].begins, gd, gn)
  BY DEF Cell, Shape
<1>3. HandlerOK(c, N, fs[k].begins, fs[k].rescues[p], r, gd, gn)
  BY <1>2 DEF HandlersOK, Scope
<1>4. r \in DOMAIN N /\ Around(N, r, i) /\ Len(N[r].rescues) = p - 1
  BY <1>1, HandlerIs DEF Scope
<1>5. /\ p <= Len(fs[k].rescues) /\ p \in Nat \ {0} /\ fs[k].rescues[p] \in HandlerT(V)
  <2>1. fs[k].rescues \in Seq(HandlerT(V)) /\ Len(fs[k].rescues) \in Nat /\ Len(N[i].rescues) \in Nat
    BY <1>1, FrameFields, PointIs
  <2>2. Len(N[i].rescues) <= Len(fs[k].rescues)
    BY <1>2 DEF HandlersOK
  <2>3. p \in 1 .. Len(fs[k].rescues)
    BY <2>1, <2>2
  <2> QED BY <2>1, <2>3, ElementOfSeq
<1>6. Dp(N, gd, r) \in Nat /\ Nb(N, gn, r) \in Nat /\ Nb(N, gn, r) <= Nb(N, gn, i)
  BY <1>1, <1>4, Below
<1> QED BY <1>3, <1>4, <1>5, <1>6

\* ContinueTransfer with one.
LEMMA TransferParked ==
  ASSUME NEW N, WellNested(code, N), NEW V, NEW i, NEW gd, NEW gn, NEW m,
         Cell(code, N, V, frames, stack, xfers, walks, seq, Len(frames), i, gd, gn, m), code[i].op # Unnests,
         NEW t \in XferT(V), NEW a, Aiming(N, t, i, a, gd, m),
         NEW xs, CutTo(N, V, xfers, walks, Len(frames), Level(N, a), xs, walks'),
         NEW hs, Handed(V, frames, hs), NEW ss \in Seq(V), Room(N, i, a, gd, ss),
         Passes(code, N, i, a, Ats(In(Range(xfers), Len(frames))) \cup Ats(In(Range(walks), Len(frames)))),
         {j \in t.rescues + 1 .. Len(Peek(hs).rescues) : Peek(hs).rescues[j].ens} # {},
         ContinueTransfer(t, xs, hs, ss)
  PROVE  Good(code, N, V, frames', stack', xfers', walks', seq')
<1>1. /\ frames \in Seq(FrameT(V)) /\ frames # <<>> /\ Len(frames) \in Nat
      /\ frames[Len(frames)] \in FrameT(V) /\ i \in DOMAIN N /\ gd \in Ghost
      /\ WalksOK(N, V, Len(frames), xfers, walks, seq)
  BY CellFields
<1>2. PICK f, e : f = frames[Len(frames)] /\ e = Peek(hs)
  OBVIOUS
<1>3. e \in FrameT(V) /\ SameStacks(f, e) /\ hs \in Seq(FrameT(V)) /\ Len(hs) = Len(frames)
  BY <1>1, <1>2, HandedTop
<1>4. PICK E, p, r : /\ E = {j \in t.rescues + 1 .. Len(e.rescues) : e.rescues[j].ens}
                     /\ p = Largest(E) /\ r = N[i].rescues[p]
  OBVIOUS
<1>5. Len(e.rescues) = Len(N[i].rescues) /\ e.rescues = f.rescues /\ Len(N[i].rescues) \in Nat
  <2>1. Len(f.rescues) = Len(N[i].rescues)
    BY <1>2 DEF Cell, Shape
  <2> QED BY <1>1, <1>3, <2>1, PointIs DEF SameStacks
<1>6. t.rescues = Len(N[a].rescues) /\ t.rescues \in Nat
  BY DEF Aiming, Aims, InnerLoop, XferT
<1>7. p \in E
  <2>1. E # {}
    BY <1>2, <1>4
  <2>2. E \subseteq Nat /\ \A y \in E : y <= Len(e.rescues)
    BY <1>4, <1>5, <1>6
  <2> QED BY <1>4, <1>5, <2>1, <2>2, LargestIs
<1>8. PICK h, y, d : h = e.rescues[p] /\ y = p - 1 /\ d = h.depth
  OBVIOUS
<1>9. /\ p \in 1 .. Len(N[i].rescues) /\ p > Len(N[a].rescues) /\ h.ens /\ p \in Nat
      /\ y \in Nat /\ y + 1 = p /\ Scope(N, i, p, r)
  <2>1. p \in t.rescues + 1 .. Len(N[i].rescues) /\ e.rescues[p].ens
    BY <1>4, <1>5, <1>7
  <2>2. p \in 1 .. Len(N[i].rescues) /\ p > Len(N[a].rescues) /\ p \in Nat /\ p - 1 \in Nat
    BY <1>5, <1>6, <2>1
  <2>3. y \in Nat /\ y + 1 = p
    BY <1>8, <2>2
  <2> QED BY <1>4, <1>8, <2>1, <2>2, <2>3 DEF Scope
<1>10. /\ HandlerOK(code, N, f.begins, h, r, gd, gn) /\ h \in HandlerT(V) /\ r \in DOMAIN N
       /\ Dp(N, gd, r) \in Nat
  BY <1>2, <1>5, <1>8, <1>9, HandlerAt
<1>11. h.ip = Goal(code, r) /\ h.ip \in Int /\ Ens(code, r) /\ d = Dp(N, gd, r) /\ d \in Nat
  BY <1>8, <1>9, <1>10 DEF HandlerOK, HandlerT
<1>12. PICK g : Opened(e, y, h, g)
  BY DEF Opened
<1>13. PICK at, u : at = Parked(g, Len(hs), d, h) /\ WaitsAt(t, at, u)
  BY ZenonT(30) DEF WaitsAt
<1>14. /\ frames' = Append(Upto(hs, Len(hs) - 1), g) /\ stack' = Upto(ss, d)
       /\ xfers' = Append(xs, u) /\ seq' = seq + 1
  BY <1>2, <1>4, <1>7, <1>8, <1>12, <1>13, ZenonT(30) DEF ContinueTransfer, Opened, WaitsAt
<1>15. g \in FrameT(V) /\ g.ip = h.ip /\ Opens(code, f, g, p, r)
  <2>1. Leads(code, h, r)
    BY <1>11 DEF Leads
  <2>2. g \in FrameT(V) /\ Opens(code, f, g, y + 1, r)
    BY <1>3, <1>9, <1>12, <2>1, OpenFrame
  <2>3. Opens(code, f, g, p, r)
    BY <1>9, <2>2
  <2> QED BY <1>11, <2>2, <2>3 DEF Opens
<1>16. seq \in Nat
  BY <1>1 DEF WalksOK
<1>17. at \in AtT /\ Waits(g, Len(frames), d, seq, at)
  BY <1>1, <1>3, <1>11, <1>13, <1>15, <1>16, ParkedIs
<1>18. u \in XferT(V) /\ u.at = at /\ Aiming(N, u, i, a, gd, m)
  BY <1>13, <1>17, AimSame
<1>19. Topped(frames, Len(frames), g, frames')
  <2>1. Topped(hs, Len(frames), g, frames')
    BY <1>3, <1>14 DEF Topped
  <2>2. Len(frames) \in 1 .. Len(frames)
    BY <1>1, EmptySeq
  <2> QED BY <1>1, <2>1, <2>2, HandedTopped
<1>20. stack' \in Seq(V) /\ Len(stack') = Dp(N, gd, r)
  <2>1. d <= Len(ss)
    BY <1>4, <1>9, <1>11, ZenonT(30) DEF Room
  <2>2. PICK v : v = Upto(ss, d)
    OBVIOUS
  <2>3. v \in Seq(V) /\ Len(v) = d
    BY <1>11, <2>1, <2>2, LenProperties, UptoSeq
  <2> QED BY <1>11, <1>14, <2>2, <2>3
<1>21. Spares(code, N, i, p, Ats(In(Range(xfers), Len(frames))) \cup Ats(In(Range(walks), Len(frames))), Level(N, a))
  BY <1>4, <1>9, <1>11, ZenonT(30) DEF Passes
<1>22. Opens(code, frames[Len(frames)], g, p, r) /\ Waits(g, Len(frames), Dp(N, gd, r), seq, u.at)
  BY <1>2, <1>11, <1>15, <1>17, <1>18
<1>23. Good(code, N, V, frames', stack', Append(xs, u), walks', seq + 1)
  BY <1>9, <1>11, <1>15, <1>18, <1>19, <1>20, <1>21, <1>22, TransferParks
<1> QED BY <1>14, <1>23

\* ContinueTransfer.
LEMMA TransferGood ==
  ASSUME NEW N, WellNested(code, N), NEW V, NEW i, NEW gd, NEW gn, NEW m,
         Cell(code, N, V, frames, stack, xfers, walks, seq, Len(frames), i, gd, gn, m), code[i].op # Unnests,
         NEW t \in XferT(V), NEW a, Aiming(N, t, i, a, gd, m),
         NEW xs, CutTo(N, V, xfers, walks, Len(frames), Level(N, a), xs, walks'),
         NEW hs, Handed(V, frames, hs), NEW ss \in Seq(V), Room(N, i, a, gd, ss),
         Passes(code, N, i, a, Ats(In(Range(xfers), Len(frames))) \cup Ats(In(Range(walks), Len(frames)))),
         ContinueTransfer(t, xs, hs, ss)
  PROVE  Good(code, N, V, frames', stack', xfers', walks', seq')
<1>1. CASE {j \in t.rescues + 1 .. Len(Peek(hs).rescues) : Peek(hs).rescues[j].ens} = {}
  BY <1>1, TransferLanded
<1>2. CASE {j \in t.rescues + 1 .. Len(Peek(hs).rescues) : Peek(hs).rescues[j].ens} # {}
  BY <1>2, TransferParked
<1> QED BY <1>1, <1>2

\* A parked walk is marked as such, in a frame that lives.
LEMMA AtsOn ==
  ASSUME NEW c, NEW N, NEW V, NEW fs, NEW st, NEW xs, NEW ws, NEW q, Good(c, N, V, fs, st, xs, ws, q)
  PROVE  \A u \in Range(xs) \cup Range(ws) : u.at.on /\ u.at.frame \in 1 .. Len(fs)
<1>1. ASSUME NEW u \in Range(xs) \cup Range(ws)
      PROVE  u.at.on /\ u.at.frame \in 1 .. Len(fs)
  <2>1. PICK k : k = u.at.frame
    OBVIOUS
  <2>2. u.at \in Ats(Range(xs)) \cup Ats(Range(ws))
    BY DEF Ats
  <2>3. k \in 1 .. Len(fs)
    BY <2>1, <2>2 DEF Good, WalksOK
  <2>4. u.at \in Ats(In(Range(xs), k)) \cup Ats(In(Range(ws), k))
    BY <2>1 DEF Ats, In
  <2>5. PICK gd, gn \in Ghost : \E m \in Nat : Cell(c, N, V, fs, st, xs, ws, q, k, fs[k].ip, gd, gn, m)
    BY <2>3, CellIs
  <2>6. ParksOK(c, N, Ats(In(Range(xs), k)) \cup Ats(In(Range(ws), k)), N[fs[k].ip].bodies, gd)
    BY <2>5, CellFields
  <2>7. u.at.on
    BY <2>4, <2>6 DEF ParksOK
  <2> QED BY <2>1, <2>3, <2>7
<1> QED BY <1>1

(***************************************************************************)
(* A break or next starts: t goes from i to the innermost loop.            *)
(***************************************************************************)
Starts(c, f, i, value, t) ==
  t = [value |-> value, ip |-> Goal(c, i), rescues |-> Peek(f.loops).rescues,
       loops |-> Len(f.loops) - 1, stack |-> Peek(f.loops).stack, at |-> Moving]

\* It aims at that loop, which is in a body that no return has left.
LEMMA StartAims ==
  ASSUME NEW c, NEW N, WellNested(c, N), NEW V, NEW fs, NEW st, NEW xs, NEW ws, NEW q, NEW k, NEW i,
         NEW gd, NEW gn, NEW m, Cell(c, N, V, fs, st, xs, ws, q, k, i, gd, gn, m),
         c[i].op \in Leaps, NEW value \in Seq(V), Len(value) = IF c[i].op = "BreakLoop" THEN 1 ELSE 0,
         NEW t, Starts(c, fs[k], i, value, t), NEW a, InnerLoop(N, i, a)
  PROVE  t \in XferT(V) /\ Aiming(N, t, i, a, gd, m)
<1>1. fs[k] \in FrameT(V) /\ i \in DOMAIN N /\ gd \in Ghost /\ gn \in Ghost /\ m \in Nat
  BY CellFields
<1>2. N[i].loops # <<>> /\ Leaves(c, N, i)
  BY <1>1 DEF WellNested, Jumps, Leaves
<1>3. /\ a = N[i].loops[Len(N[i].loops)] /\ Len(N[i].loops) \in 1 .. Len(N[i].loops)
      /\ a \in DOMAIN N /\ Around(N, a, i) /\ Len(N[a].loops) = Len(N[i].loops) - 1
      /\ Len(N[i].loops) \in Nat \ {0}
  BY <1>1, <1>2, LastLoop, PointIs
<1>4. /\ LoopsOK(N, i, fs[k].loops, fs[k].begins, gd, gn)
  BY DEF Cell, Shape
<1>5. PICK s, n : s = Peek(fs[k].loops) /\ n = Len(fs[k].loops)
  OBVIOUS
<1>6. n = Len(N[i].loops) /\ s = fs[k].loops[n] /\ s \in LoopT
  <2>1. n = Len(N[i].loops)
    BY <1>4, <1>5 DEF LoopsOK
  <2>2. fs[k].loops \in Seq(LoopT)
    BY <1>1, FrameFields
  <2> QED BY <1>3, <1>5, <2>1, <2>2, ElementOfSeq DEF Peek
<1>7. LoopOK(N, fs[k].begins, s, n, a, gd, gn)
  BY <1>3, <1>4, <1>6 DEF LoopsOK
<1>8. s.rescues = Len(N[a].rescues) /\ s.stack = Dp(N, gd, a) /\ s.rescues \in Nat /\ s.stack \in Nat
  BY <1>6, <1>7 DEF LoopOK, LoopT
<1>9. Goal(c, i) \in Int
  BY <1>1, PointIs
<1>10. t = [value |-> value, ip |-> Goal(c, i), rescues |-> s.rescues, loops |-> n - 1, stack |-> s.stack, at |-> Moving]
  BY <1>5 DEF Starts
<1>11. Moving \in AtT
  BY DEF Moving, AtT
<1>12. n - 1 \in Nat
  BY <1>3, <1>6
<1>13. /\ t \in XferT(V) /\ t.loops = n - 1 /\ t.rescues = s.rescues /\ t.stack = s.stack /\ t.ip = Goal(c, i)
       /\ t.value = value
  BY <1>8, <1>9, <1>10, <1>11, <1>12 DEF XferT
<1>14. Is(N, t.ip, Point(N[a].entry, N[a].rescues, N[i].loops, N[a].bodies, N[a].begins,
                         N[a].depth + Len(t.value)))
  <2>1. Is(N, Goal(c, i), Point(N[i].entry, N[a].rescues, N[i].loops, N[a].bodies, N[a].begins,
              N[a].depth + (IF c[i].op = "BreakLoop" THEN 1 ELSE 0)))
    BY <1>1 DEF WellNested, Jumps, InnerLoop
  <2>2. N[a].entry = N[i].entry
    BY <1>1, <1>3, AroundIs
  <2> QED BY <1>13, <2>1, <2>2
<1>15. Aims(N, t, i, gd)
  <2>1. t.loops + 1 = Len(N[i].loops)
    BY <1>3, <1>6, <1>13
  <2> QED BY <1>2, <1>8, <1>13, <1>14, <2>1 DEF Aims, InnerLoop
<1>16. Level(N, a) = 0 \/ Level(N, a) > m
  <2>1. m = 0 \/ (m < Level(N, i) /\ Crossed(c, N, N[i].bodies[m + 1]))
    BY DEF Cell, Life, LiveOK
  <2>2. Level(N, a) # 0 => \A j \in Level(N, a) + 1 .. Level(N, i) : ~ Crossed(c, N, N[i].bodies[j])
    BY <1>2 DEF Leaves, InnerLoop
  <2>3. Level(N, a) \in Nat /\ Level(N, i) \in Nat
    BY <1>1, <1>3, PointIs
  <2>4. SUFFICES ASSUME Level(N, a) # 0, ~ (Level(N, a) > m)
                 PROVE  FALSE
    OBVIOUS
  <2>5. m + 1 \in Level(N, a) + 1 .. Level(N, i)
    BY <1>1, <2>1, <2>3, <2>4
  <2> QED BY <1>1, <2>1, <2>2, <2>3, <2>4, <2>5
<1> QED BY <1>2, <1>13, <1>15, <1>16 DEF Aiming

\* The rescue clauses between i and its loop hold no walk that outlives it.
LEMMA StartPasses ==
  ASSUME NEW c, NEW N, WellNested(c, N), NEW i \in DOMAIN N, NEW a \in DOMAIN N, Around(N, a, i),
         NoRescueWithin(c, N, i, Len(N[a].rescues) + 1, Level(N, a)),
         NEW gd, NEW P, ParksOK(c, N, P, N[i].bodies, gd)
  PROVE  Passes(c, N, i, a, P)
<1>1. SUFFICES ASSUME NEW p \in 1 .. Len(N[i].rescues), p > Len(N[a].rescues), Ens(c, N[i].rescues[p]),
                      NEW at \in P, ~ (Level(N, at.body) <= Level(N, a)), NEW j \in 1 .. p - 1,
                      ~ Ens(c, N[i].rescues[j])
               PROVE  Level(N, N[i].rescues[j]) # Level(N, at.body)
  BY DEF Passes, Spares
<1>2. /\ Len(N[a].rescues) \in Nat /\ Len(N[i].rescues) \in Nat /\ Level(N, a) \in Nat
      /\ Len(N[i].bodies) \in Nat
  BY PointIs
<1>3. j \in 1 .. Len(N[i].rescues) /\ p \in Nat /\ j \in Nat /\ j < p
  BY <1>2
<1>4. Level(N, N[i].rescues[j]) \in Nat
  <2>1. N[i].rescues[j] \in DOMAIN N
    BY <1>3, HandlerIs
  <2> QED BY <2>1, PointIs
<1>5. Level(N, at.body) \in Nat
  BY <1>2, ParksLevels
<1>6. Level(N, N[i].rescues[j]) <= Level(N, a)
  <2>1. CASE j <= Len(N[a].rescues)
    <3>1. j \in 1 .. Len(N[a].rescues) /\ N[i].rescues[j] = N[a].rescues[j]
      BY <1>2, <1>3, <2>1, AroundIs DEF Sub
    <3>2. Around(N, N[a].rescues[j], a)
      BY <3>1, HandlerIs
    <3>3. Level(N, N[a].rescues[j]) <= Level(N, a)
      BY <3>2, AroundIs
    <3> QED BY <3>1, <3>3
  <2>2. CASE ~ (j <= Len(N[a].rescues))
    <3>1. j \in Len(N[a].rescues) + 1 .. Len(N[i].rescues) /\ p \in Len(N[a].rescues) + 1 .. Len(N[i].rescues)
      BY <1>1, <1>2, <1>3, <2>2
    <3> QED BY <1>1, <1>3, <3>1 DEF NoRescueWithin
  <2> QED BY <2>1, <2>2
<1> QED BY <1>1, <1>2, <1>4, <1>5, <1>6

\* The operand that i pops is above those of its handlers and loops.
LEMMA PoppingRoom ==
  ASSUME NEW c, NEW N, WellNested(c, N), NEW i \in DOMAIN N, Popping(N, i),
         NEW gd \in Ghost, NEW gn \in Ghost, NEW base, LevelsOK(N, N[i].bodies, base, gd, gn)
  PROVE  /\ Dp(N, gd, i) \in Nat \ {0}
         /\ \A j \in 1 .. Len(N[i].rescues) : Dp(N, gd, N[i].rescues[j]) < Dp(N, gd, i)
         /\ \A j \in 1 .. Len(N[i].loops) : Dp(N, gd, N[i].loops[j]) < Dp(N, gd, i)
<1>1. /\ N[i].depth \in Nat /\ N[i].depth >= 1 /\ Level(N, i) \in Nat
      /\ DOMAIN N[i].rescues = 1 .. Len(N[i].rescues) /\ DOMAIN N[i].loops = 1 .. Len(N[i].loops)
  BY PointIs DEF Popping
<1>2. gd[Level(N, i)] \in Nat /\ Dp(N, gd, i) = gd[Level(N, i)] + N[i].depth
  BY <1>1, GhostIs DEF Dp
<1>3. ASSUME NEW a, Around(N, a, i), Level(N, a) = Level(N, i) => N[a].depth < N[i].depth
      PROVE  Dp(N, gd, a) < Dp(N, gd, i)
  <2>1. /\ Level(N, a) \in Nat /\ Level(N, a) <= Level(N, i) /\ N[a].depth \in Nat
    <3>1. a \in DOMAIN N /\ Level(N, a) <= Level(N, i)
      BY <1>3, AroundIs
    <3> QED BY <3>1, PointIs
  <2>2. CASE Level(N, a) = Level(N, i)
    BY <1>1, <1>2, <1>3, <2>1, <2>2 DEF Dp
  <2>3. CASE Level(N, a) < Level(N, i)
    <3>1. Dp(N, gd, a) <= gd[Level(N, i)] /\ Dp(N, gd, a) \in Nat
      BY <1>3, <2>3, Below
    <3> QED BY <1>1, <1>2, <3>1
  <2> QED BY <1>1, <2>1, <2>2, <2>3
<1>4. ASSUME NEW j \in 1 .. Len(N[i].rescues)
      PROVE  Dp(N, gd, N[i].rescues[j]) < Dp(N, gd, i)
  <2>1. Around(N, N[i].rescues[j], i)
    BY HandlerIs
  <2>2. Level(N, N[i].rescues[j]) = Level(N, i) => N[N[i].rescues[j]].depth < N[i].depth
    BY <1>1 DEF Popping
  <2> QED BY <1>3, <2>1, <2>2
<1>5. ASSUME NEW j \in 1 .. Len(N[i].loops)
      PROVE  Dp(N, gd, N[i].loops[j]) < Dp(N, gd, i)
  <2>1. Around(N, N[i].loops[j], i)
    BY LoopIs
  <2>2. Level(N, N[i].loops[j]) = Level(N, i) => N[N[i].loops[j]].depth < N[i].depth
    BY <1>1 DEF Popping
  <2> QED BY <1>3, <2>1, <2>2
<1>6. Dp(N, gd, i) \in Nat \ {0}
  BY <1>1, <1>2
<1> QED BY <1>4, <1>5, <1>6

\* The sweep of a break or next: the walks of the bodies that the loop is in survive.
LEMMA StartSweeps ==
  ASSUME NEW N, WellNested(code, N), NEW V, NEW i, NEW gd, NEW gn, NEW m,
         Cell(code, N, V, frames, stack, xfers, walks, seq, Len(frames), i, gd, gn, m),
         NEW t \in XferT(V), NEW a, Aiming(N, t, i, a, gd, m)
  PROVE  CutTo(N, V, xfers, walks, Len(frames), Level(N, a),
               Kept(xfers, {w \in Range(xfers) : SurvivesTransfer(w, t)}),
               Kept(walks, {w \in Range(walks) : SurvivesTransfer(w, t)}))
<1>1. /\ Good(code, N, V, frames, stack, xfers, walks, seq) /\ Len(frames) \in Nat
      /\ i \in DOMAIN N /\ WalksOK(N, V, Len(frames), xfers, walks, seq)
      /\ ParksOK(code, N, Ats(In(Range(xfers), Len(frames))) \cup Ats(In(Range(walks), Len(frames))), N[i].bodies, gd)
  BY CellFields
<1>2. /\ N[i].loops # <<>> /\ InnerLoop(N, i, a)
      /\ t.loops + 1 = Len(N[i].loops) /\ t.rescues = Len(N[a].rescues)
  BY DEF Aiming, Aims, InnerLoop
<1>3. t.loops = Len(N[a].loops)
  <2>1. Len(N[a].loops) = Len(N[i].loops) - 1 /\ Len(N[i].loops) \in Nat
    BY <1>1, <1>2, LastLoop, PointIs
  <2>2. t.loops \in Nat
    BY DEF XferT
  <2> QED BY <1>2, <2>1, <2>2
<1>4. PICK n, l : n = Len(frames) /\ l = Level(N, a)
  OBVIOUS
<1>5. ASSUME NEW u \in Range(xfers) \cup Range(walks)
      PROVE  SurvivesTransfer(u, t) <=> u.at.frame < n \/ (u.at.frame = n /\ Level(N, u.at.body) <= l)
  <2>1. u.at.on /\ u.at.frame \in 1 .. n
    BY <1>1, <1>4, AtsOn
  <2>2. CASE u.at.frame # n
    BY <1>1, <1>4, <2>1, <2>2 DEF SurvivesTransfer
  <2>3. CASE u.at.frame = n
    <3>1. u.at \in Ats(In(Range(xfers), Len(frames))) \cup Ats(In(Range(walks), Len(frames)))
      BY <1>4, <2>3 DEF Ats, In
    <3>2. (u.at.rescues <= Len(N[a].rescues) /\ u.at.loops <= Len(N[a].loops)) <=> Level(N, u.at.body) <= Level(N, a)
      BY <1>1, <1>2, <3>1, KeptByLoop
    <3> QED BY <1>1, <1>2, <1>3, <1>4, <2>1, <2>3, <3>2 DEF SurvivesTransfer
  <2> QED BY <2>2, <2>3
<1>6. PICK K, J : /\ K = {w \in Range(xfers) : SurvivesTransfer(w, t)}
                  /\ J = {w \in Range(walks) : SurvivesTransfer(w, t)}
  OBVIOUS
<1>7. /\ \A u \in Range(xfers) : u \in K <=> u.at.frame < n \/ (u.at.frame = n /\ Level(N, u.at.body) <= l)
      /\ \A u \in Range(walks) : u \in J <=> u.at.frame < n \/ (u.at.frame = n /\ Level(N, u.at.body) <= l)
  BY <1>5, <1>6
<1>8. CutTo(N, V, xfers, walks, n, l, Kept(xfers, K), Kept(walks, J))
  BY <1>1, <1>7, KeptWalks
<1> QED BY <1>4, <1>6, <1>8

\* The frames once an op has been fetched.
LEMMA HandedPast ==
  ASSUME NEW c, NEW N, NEW V, NEW st, NEW xs, NEW ws, NEW q, Good(c, N, V, frames, st, xs, ws, q)
  PROVE  Handed(V, frames, Set(Past))
<1>1. frames \in Seq(FrameT(V)) /\ frames # <<>>
  BY DEF Good
<1>2. PICK n, f, g : n = Len(frames) /\ f = frames[n] /\ g = [f EXCEPT !.ip = @ + 1]
  OBVIOUS
<1>3. n \in Nat /\ n \in 1 .. n /\ f \in FrameT(V)
  BY <1>1, <1>2, EmptySeq, LenProperties, ElementOfSeq
<1>4. g \in FrameT(V) /\ SameStacks(f, g)
  <2>1. PICK z : z = f.ip + 1
    OBVIOUS
  <2>2. z \in Int
    BY <1>3, <2>1, FrameFields
  <2>3. g = [f EXCEPT !.ip = z]
    BY <1>2, <2>1
  <2>4. /\ g \in FrameT(V) /\ g.rescues = f.rescues /\ g.loops = f.loops /\ g.begins = f.begins
        /\ g.base = f.base /\ g.entry = f.entry
    BY <1>3, <2>2, <2>3 DEF FrameT
  <2> QED BY <2>4 DEF SameStacks
<1>5. PICK hs : hs = [frames EXCEPT ![n] = g]
  OBVIOUS
<1>6. /\ hs \in Seq(FrameT(V)) /\ Len(hs) = n /\ hs[n] = g
      /\ \A j \in 1 .. n - 1 : hs[j] = frames[j]
  <2>1. hs = [frames EXCEPT ![n] = g] /\ n \in 1 .. Len(frames)
    BY <1>2, <1>3, <1>5
  <2>2. hs \in Seq(FrameT(V)) /\ Len(hs) = Len(frames) /\ \A j \in 1 .. Len(frames) : hs[j] = IF j = n THEN g ELSE frames[j]
    BY <1>1, <1>4, <2>1, ExceptSeq
  <2> QED BY <1>2, <1>3, <2>2
<1>7. Handed(V, frames, hs)
  BY <1>2, <1>4, <1>6 DEF Handed
<1> QED BY <1>2, <1>5, <1>7 DEF Set, Past, Top, Peek

\* BreakLoop and NextLoop, with what they leave on the stack.
LEMMA BeginTransferGood ==
  ASSUME NEW N, WellNested(code, N), NEW V, Good(code, N, V, frames, stack, xfers, walks, seq),
         Instr.op \in Leaps, NEW value \in Seq(V), Len(value) = IF Instr.op = "BreakLoop" THEN 1 ELSE 0,
         NEW ss \in Seq(V), Len(ss) = IF Instr.op = "BreakLoop" THEN Len(stack) - 1 ELSE Len(stack),
         BeginTransfer(value, ss)
  PROVE  Good(code, N, V, frames', stack', xfers', walks', seq')
<1>1. PICK n, i : n = Len(frames) /\ i = frames[n].ip
  OBVIOUS
<1>2. n \in 1 .. Len(frames)
  BY <1>1, EmptySeq, LenProperties DEF Good
<1>3. PICK gd, gn \in Ghost : \E m \in Nat : Cell(code, N, V, frames, stack, xfers, walks, seq, n, i, gd, gn, m)
  BY <1>1, <1>2, CellIs
<1>4. PICK m \in Nat : Cell(code, N, V, frames, stack, xfers, walks, seq, n, i, gd, gn, m)
  BY <1>3
<1>5. /\ i \in DOMAIN N /\ LevelsOK(N, N[i].bodies, frames[n].base, gd, gn)
      /\ ParksOK(code, N, Ats(In(Range(xfers), n)) \cup Ats(In(Range(walks), n)), N[i].bodies, gd)
  BY <1>4, CellFields
<1>6. code[i].op = Instr.op /\ code[i].op \in Leaps /\ Target = Goal(code, i)
  BY <1>1 DEF Instr, Top, Peek, Target, Goal
<1>7. PICK a, f, t : InnerLoop(N, i, a) /\ f = Past /\ Starts(code, frames[n], i, value, t)
  BY DEF InnerLoop, Starts
<1>8. f.loops = frames[n].loops
  <2>1. frames[n] \in FrameT(V)
    BY <1>4, CellFields
  <2> QED BY <1>1, <1>7, <2>1 DEF Past, Top, Peek, FrameT
<1>9. t \in XferT(V) /\ Aiming(N, t, i, a, gd, m)
  BY <1>4, <1>6, <1>7, StartAims
<1>10. a \in DOMAIN N /\ Around(N, a, i) /\ Leaves(code, N, i) /\ N[i].loops # <<>>
  <2>1. Leaves(code, N, i) /\ N[i].loops # <<>>
    BY <1>5, <1>6 DEF WellNested, Jumps, Leaves
  <2> QED BY <1>5, <1>7, <2>1, LastLoop
<1>11. PICK xs, vs : /\ xs = Kept(xfers, {w \in Range(xfers) : SurvivesTransfer(w, t)})
                     /\ vs = Kept(walks, {w \in Range(walks) : SurvivesTransfer(w, t)})
  OBVIOUS
<1>12. walks' = vs /\ ContinueTransfer(t, xs, Set(f), ss)
  <2>1. t = [value |-> value, ip |-> Target, rescues |-> Peek(f.loops).rescues,
             loops |-> Len(f.loops) - 1, stack |-> Peek(f.loops).stack, at |-> Moving]
    BY <1>6, <1>7, <1>8 DEF Starts
  <2> QED BY <1>7, <1>11, <2>1 DEF BeginTransfer
<1>13. CutTo(N, V, xfers, walks, n, Level(N, a), xs, walks')
  <2>1. CutTo(N, V, xfers, walks, n, Level(N, a), xs, vs)
    BY <1>1, <1>4, <1>9, <1>11, StartSweeps
  <2> QED BY <1>12, <2>1
<1>14. Passes(code, N, i, a, Ats(In(Range(xfers), n)) \cup Ats(In(Range(walks), n)))
  BY <1>5, <1>7, <1>10, StartPasses DEF Leaves, InnerLoop
<1>15. Room(N, i, a, gd, ss)
  <2>1. Len(stack) = Dp(N, gd, i) /\ Len(stack) \in Nat
    <3>1. Height(frames, Len(stack), n) = Dp(N, gd, i)
      BY <1>4 DEF Cell, Shape
    <3> QED BY <1>1, <1>4, <3>1, CellFields DEF Height
  <2>2. Len(N[i].loops) \in 1 .. Len(N[i].loops) /\ a = N[i].loops[Len(N[i].loops)]
    BY <1>5, <1>7, <1>10, LastLoop
  <2>3. CASE Instr.op = "BreakLoop"
    <3>1. Popping(N, i)
      BY <1>6, <1>10, <2>3 DEF Leaves
    <3>2. /\ \A j \in 1 .. Len(N[i].rescues) : Dp(N, gd, N[i].rescues[j]) < Dp(N, gd, i)
          /\ Dp(N, gd, a) < Dp(N, gd, i)
      BY <1>5, <2>2, <3>1, PoppingRoom
    <3>3. /\ \A j \in 1 .. Len(N[i].rescues) : Dp(N, gd, N[i].rescues[j]) \in Nat
          /\ Dp(N, gd, a) \in Nat
      BY <1>5, <2>2, InScope
    <3> QED BY <2>1, <2>3, <3>2, <3>3 DEF Room
  <2>4. CASE Instr.op # "BreakLoop"
    <3>1. /\ \A j \in 1 .. Len(N[i].rescues) : Dp(N, gd, N[i].rescues[j]) <= Dp(N, gd, i)
          /\ Dp(N, gd, a) <= Dp(N, gd, i)
      BY <1>5, <2>2, InScope
    <3> QED BY <2>1, <2>4, <3>1 DEF Room
  <2> QED BY <2>3, <2>4
<1>16. Handed(V, frames, Set(f))
  BY <1>7, HandedPast
<1>17. code[i].op # Unnests
  BY <1>6 DEF Leaps, Unnests
<1> QED BY <1>1, <1>4, <1>9, <1>12, <1>13, <1>14, <1>15, <1>16, <1>17, TransferGood

\* BreakLoop: a break carries the operand that it pops.
LEMMA BreakGood ==
  ASSUME NEW N, WellNested(code, N), NEW V, Good(code, N, V, frames, stack, xfers, walks, seq), BreakLoop
  PROVE  Good(code, N, V, frames', stack', xfers', walks', seq')
<1>1. stack \in Seq(V) /\ Instr.op = "BreakLoop" /\ BeginTransfer(<<Peek(stack)>>, Front(stack))
  BY DEF Good, BreakLoop, At
<1>2. PICK n, i : n = Len(frames) /\ i = frames[n].ip
  OBVIOUS
<1>3. n \in 1 .. Len(frames)
  BY <1>2, EmptySeq, LenProperties DEF Good
<1>4. PICK gd, gn \in Ghost : \E m \in Nat : Cell(code, N, V, frames, stack, xfers, walks, seq, n, i, gd, gn, m)
  BY <1>2, <1>3, CellIs
<1>5. PICK m \in Nat : Cell(code, N, V, frames, stack, xfers, walks, seq, n, i, gd, gn, m)
  BY <1>4
<1>6. stack # <<>>
  <2>1. i \in DOMAIN N /\ LevelsOK(N, N[i].bodies, frames[n].base, gd, gn)
    BY <1>5, CellFields
  <2>2. code[i].op = "BreakLoop"
    BY <1>1, <1>2 DEF Instr, Top, Peek
  <2>3. Popping(N, i)
    BY <2>1, <2>2 DEF WellNested, Jumps, Leaves, Leaps
  <2>4. Dp(N, gd, i) \in Nat \ {0}
    BY <2>1, <2>3, PoppingRoom
  <2>5. Len(stack) = Dp(N, gd, i)
    <3>1. Height(frames, Len(stack), n) = Dp(N, gd, i)
      BY <1>5 DEF Cell, Shape
    <3> QED BY <1>2, <3>1 DEF Height
  <2> QED BY <1>1, <2>4, <2>5, EmptySeq
<1>7. Front(stack) \in Seq(V) /\ Len(Front(stack)) = Len(stack) - 1 /\ Peek(stack) \in V
  BY <1>1, <1>6, FrontSeq
<1>8. PICK v, ss : v = <<Peek(stack)>> /\ ss = Front(stack)
  OBVIOUS
<1>9. v \in Seq(V) /\ Len(v) = 1
  BY <1>7, <1>8
<1> QED BY <1>1, <1>7, <1>8, <1>9, BeginTransferGood DEF Leaps

\* NextLoop: a next carries nothing.
LEMMA NextGood ==
  ASSUME NEW N, WellNested(code, N), NEW V, Good(code, N, V, frames, stack, xfers, walks, seq), NextLoop
  PROVE  Good(code, N, V, frames', stack', xfers', walks', seq')
<1>1. stack \in Seq(V) /\ Instr.op = "NextLoop" /\ BeginTransfer(<<>>, stack)
  BY DEF Good, NextLoop, At
<1>2. PICK v : v = <<>>
  OBVIOUS
<1>3. v \in Seq(V) /\ Len(v) = 0
  BY <1>2
<1>4. /\ Instr.op \in Leaps /\ Len(v) = IF Instr.op = "BreakLoop" THEN 1 ELSE 0
      /\ Len(stack) = IF Instr.op = "BreakLoop" THEN Len(stack) - 1 ELSE Len(stack)
  BY <1>1, <1>3 DEF Leaps
<1>5. BeginTransfer(v, stack)
  BY <1>1, <1>2
<1> QED BY <1>1, <1>3, <1>4, <1>5, BeginTransferGood

(***************************************************************************)
(* The tail of an ensure body.  i is its EndEnsure and b the body.         *)
(***************************************************************************)
Closes(N, c, i, b, r) == r = Last(N[i].bodies) /\ b = Goal(c, r)

\* The tail is as deep as the body's start.
LEMMA TailIs ==
  ASSUME NEW c, NEW N, WellNested(c, N), NEW i \in DOMAIN N, c[i].op = "EndEnsure", NEW b, NEW r, Closes(N, c, i, b, r)
  PROVE  /\ Level(N, i) \in Nat \ {0} /\ r \in DOMAIN N /\ b \in DOMAIN N /\ Ens(c, r)
         /\ Level(N, r) = Level(N, i) - 1 /\ Level(N, b) = Level(N, i)
         /\ r = N[i].bodies[Level(N, i)] /\ N[i] = N[b] /\ N[i].depth = 0
         /\ N[i].rescues = N[r].rescues /\ N[i].loops = N[r].loops
<1>1. N[i].bodies # <<>> /\ N[i] = N[b]
  BY DEF WellNested, Jumps, Closes
<1>2. N[i].bodies \in Seq(Addr(c)) /\ Level(N, i) \in Nat
  BY PointIs
<1>3. r = N[i].bodies[Len(N[i].bodies)] /\ Level(N, i) \in Nat \ {0} /\ Level(N, i) = Len(N[i].bodies)
  BY <1>1, <1>2, FrontSeq, EmptySeq DEF Closes, Level
<1>4. Level(N, i) \in 1 .. Len(N[i].bodies)
  BY <1>3
<1>5. r \in DOMAIN N /\ Ens(c, r) /\ Level(N, r) = Level(N, i) - 1
  BY <1>3, <1>4, BodyIs
<1>6. /\ b \in DOMAIN N /\ N[b].rescues = N[r].rescues /\ N[b].loops = N[r].loops
      /\ N[b].depth = 0
  BY <1>5, EnsureGoal DEF Closes
<1>7. Level(N, b) = Level(N, i)
  BY <1>1 DEF Level
<1> QED BY <1>1, <1>3, <1>5, <1>6, <1>7

\* The scopes of a tail were opened outside its body.
LEMMA TailScopes ==
  ASSUME NEW c, NEW N, WellNested(c, N), NEW i \in DOMAIN N, c[i].op = "EndEnsure"
  PROVE  /\ \A j \in 1 .. Len(N[i].rescues) : /\ Level(N, N[i].rescues[j]) \in Nat
                                              /\ Level(N, N[i].rescues[j]) < Level(N, i)
         /\ \A j \in 1 .. Len(N[i].loops) : /\ Level(N, N[i].loops[j]) \in Nat
                                            /\ Level(N, N[i].loops[j]) < Level(N, i)
<1>1. PICK b, r : Closes(N, c, i, b, r)
  BY DEF Closes
<1>2. /\ Level(N, i) \in Nat \ {0} /\ r \in DOMAIN N /\ Level(N, r) = Level(N, i) - 1
      /\ N[i].rescues = N[r].rescues /\ N[i].loops = N[r].loops
  BY <1>1, TailIs
<1>3. \A j \in 1 .. Len(N[r].rescues) : Around(N, N[r].rescues[j], r)
  BY <1>2, HandlerIs
<1>4. \A j \in 1 .. Len(N[r].loops) : Around(N, N[r].loops[j], r)
  BY <1>2, LoopIs
<1>5. ASSUME NEW a, Around(N, a, r)
      PROVE  Level(N, a) \in Nat /\ Level(N, a) < Level(N, i)
  <2>1. Level(N, a) \in Nat /\ Level(N, a) <= Level(N, r)
    BY <1>2, <1>5, AroundIs
  <2> QED BY <1>2, <2>1
<1> QED BY <1>2, <1>3, <1>4, <1>5

\* The last walk of a list is at least as deep as any other.
LEMMA LatestXfer ==
  ASSUME NEW c, NEW N, WellNested(c, N), NEW V, NEW fs, NEW st, NEW xs, NEW ws, NEW q, NEW i,
         NEW gd, NEW gn, NEW m, Cell(c, N, V, fs, st, xs, ws, q, Len(fs), i, gd, gn, m),
         NEW u \in In(Range(xs), Len(fs)), Level(N, u.at.body) = Level(N, i)
  PROVE  xs # <<>> /\ Peek(xs) \in In(Range(xs), Len(fs)) /\ Level(N, Peek(xs).at.body) = Level(N, i)
<1>1. /\ WalksOK(N, V, Len(fs), xs, ws, q) /\ Len(fs) \in Nat /\ i \in DOMAIN N
      /\ ParksOK(c, N, Ats(In(Range(xs), Len(fs))) \cup Ats(In(Range(ws), Len(fs))), N[i].bodies, gd)
  BY CellFields
<1>2. u \in Range(xs) /\ u.at.frame = Len(fs)
  BY DEF In
<1>3. xs \in Seq(XferT(V)) /\ Chain(xs, Earlier(XferT(V))) /\ xs # <<>>
  <2>1. xs # <<>>
    BY <1>2 DEF Range
  <2> QED BY <1>1, <2>1 DEF WalksOK
<1>4. PICK x : x = Peek(xs)
  OBVIOUS
<1>5. x \in Range(xs) /\ (u = x \/ u.at.seq < x.at.seq)
  BY <1>2, <1>3, <1>4, LastWalk, SeqNat
<1>6. u = x \/ Outer(N, u.at, x.at)
  <2>1. u.at \in Ats(Range(xs)) /\ x.at \in Ats(Range(xs))
    BY <1>2, <1>5 DEF Ats
  <2> QED BY <1>1, <1>5, <2>1 DEF WalksOK
<1>7. x.at.frame \in 1 .. Len(fs)
  <2>1. x.at \in Ats(Range(xs))
    BY <1>5 DEF Ats
  <2> QED BY <1>1, <2>1 DEF WalksOK
<1>8. x.at.frame = Len(fs)
  BY <1>1, <1>2, <1>6, <1>7 DEF Outer
<1>9. x \in In(Range(xs), Len(fs))
  BY <1>5, <1>8 DEF In
<1>10. Level(N, x.at.body) \in Nat /\ Level(N, x.at.body) <= Level(N, i) /\ Level(N, i) \in Nat
  <2>1. x.at \in Ats(In(Range(xs), Len(fs))) \cup Ats(In(Range(ws), Len(fs)))
    BY <1>9 DEF Ats
  <2>2. Len(N[i].bodies) \in Nat
    BY <1>1, PointIs
  <2>3. Level(N, x.at.body) \in 1 .. Len(N[i].bodies)
    BY <1>1, <2>1, <2>2, ParksLevels
  <2> QED BY <2>2, <2>3 DEF Level
<1>11. Level(N, x.at.body) = Level(N, i)
  BY <1>1, <1>2, <1>6, <1>8, <1>10 DEF Outer
<1> QED BY <1>3, <1>4, <1>9, <1>11

\* So is the last return's walk.
LEMMA LatestWalk ==
  ASSUME NEW c, NEW N, WellNested(c, N), NEW V, NEW fs, NEW st, NEW xs, NEW ws, NEW q, NEW i,
         NEW gd, NEW gn, NEW m, Cell(c, N, V, fs, st, xs, ws, q, Len(fs), i, gd, gn, m),
         NEW u \in In(Range(ws), Len(fs)), Level(N, u.at.body) = Level(N, i)
  PROVE  ws # <<>> /\ Peek(ws) \in In(Range(ws), Len(fs)) /\ Level(N, Peek(ws).at.body) = Level(N, i)
<1>1. /\ WalksOK(N, V, Len(fs), xs, ws, q) /\ Len(fs) \in Nat /\ i \in DOMAIN N
      /\ ParksOK(c, N, Ats(In(Range(xs), Len(fs))) \cup Ats(In(Range(ws), Len(fs))), N[i].bodies, gd)
  BY CellFields
<1>2. u \in Range(ws) /\ u.at.frame = Len(fs)
  BY DEF In
<1>3. ws \in Seq(WalkT(V)) /\ Chain(ws, Earlier(WalkT(V))) /\ ws # <<>>
  <2>1. ws # <<>>
    BY <1>2 DEF Range
  <2> QED BY <1>1, <2>1 DEF WalksOK
<1>4. PICK x : x = Peek(ws)
  OBVIOUS
<1>5. x \in Range(ws) /\ (u = x \/ u.at.seq < x.at.seq)
  BY <1>2, <1>3, <1>4, LastWalk, SeqNat
<1>6. u = x \/ Outer(N, u.at, x.at)
  <2>1. u.at \in Ats(Range(ws)) /\ x.at \in Ats(Range(ws))
    BY <1>2, <1>5 DEF Ats
  <2> QED BY <1>1, <1>5, <2>1 DEF WalksOK
<1>7. x.at.frame \in 1 .. Len(fs)
  <2>1. x.at \in Ats(Range(ws))
    BY <1>5 DEF Ats
  <2> QED BY <1>1, <2>1 DEF WalksOK
<1>8. x.at.frame = Len(fs)
  BY <1>1, <1>2, <1>6, <1>7 DEF Outer
<1>9. x \in In(Range(ws), Len(fs))
  BY <1>5, <1>8 DEF In
<1>10. Level(N, x.at.body) \in Nat /\ Level(N, x.at.body) <= Level(N, i) /\ Level(N, i) \in Nat
  <2>1. x.at \in Ats(In(Range(xs), Len(fs))) \cup Ats(In(Range(ws), Len(fs)))
    BY <1>9 DEF Ats
  <2>2. Len(N[i].bodies) \in Nat
    BY <1>1, PointIs
  <2>3. Level(N, x.at.body) \in 1 .. Len(N[i].bodies)
    BY <1>1, <2>1, <2>2, ParksLevels
  <2> QED BY <2>2, <2>3 DEF Level
<1>11. Level(N, x.at.body) = Level(N, i)
  BY <1>1, <1>2, <1>6, <1>8, <1>10 DEF Outer
<1> QED BY <1>3, <1>4, <1>9, <1>11

\* The operands at the tail are those that the body was entered with.
AtTail(N, i, gd, f, st) == Len(st) = gd[Level(N, i)] /\ Len(f.rescues) = Len(N[i].rescues)

\* They are, and the body is live.
LEMMA TailCell ==
  ASSUME NEW c, NEW N, WellNested(c, N), NEW V, NEW fs, NEW st, NEW xs, NEW ws, NEW q, NEW i,
         NEW gd, NEW gn, NEW m, Cell(c, N, V, fs, st, xs, ws, q, Len(fs), i, gd, gn, m), c[i].op = "EndEnsure"
  PROVE  /\ Len(st) \in Nat /\ AtTail(N, i, gd, fs[Len(fs)], st)
         /\ Level(N, i) \in 1 .. Len(N[i].bodies)
         /\ Live(N, Ats(In(Range(xs), Len(fs))) \cup Ats(In(Range(ws), Len(fs))), N[i].bodies, gd, Level(N, i))
<1>1. i \in DOMAIN N /\ Len(st) \in Nat /\ Len(fs) \in Nat /\ gd \in Ghost
  BY CellFields
<1>2. PICK b, r : Closes(N, c, i, b, r)
  BY DEF Closes
<1>3. Level(N, i) \in Nat \ {0} /\ N[i].depth = 0
  BY <1>1, <1>2, TailIs
<1>4. gd[Level(N, i)] \in Nat
  BY <1>1, <1>3, GhostIs
<1>5. Height(fs, Len(st), Len(fs)) = Dp(N, gd, i)
  BY DEF Cell, Shape
<1>6. Len(st) = gd[Level(N, i)]
  BY <1>3, <1>4, <1>5 DEF Height, Dp
<1>7. Len(fs[Len(fs)].rescues) = Len(N[i].rescues)
  BY DEF Cell, Shape, Unnests
<1>8. Level(N, i) \in 1 .. Len(N[i].bodies)
  BY <1>3 DEF Level
<1>9. Live(N, Ats(In(Range(xs), Len(fs))) \cup Ats(In(Range(ws), Len(fs))), N[i].bodies, gd, Level(N, i))
  BY <1>3 DEF Cell, Life, LiveOK
<1> QED BY <1>1, <1>6, <1>7, <1>8, <1>9 DEF AtTail

\* A walk of the body whose tail it is waits here.
LEMMA HereIs ==
  ASSUME NEW c, NEW N, WellNested(c, N), NEW V, NEW fs, NEW st, NEW xs, NEW ws, NEW q, NEW i,
         NEW gd, NEW gn, NEW m, Cell(c, N, V, fs, st, xs, ws, q, Len(fs), i, gd, gn, m), c[i].op = "EndEnsure",
         NEW u \in In(Range(xs), Len(fs)) \cup In(Range(ws), Len(fs)), Level(N, u.at.body) = Level(N, i)
  PROVE  u.at.on /\ u.at.frame = Len(fs) /\ u.at.rescues = Len(fs[Len(fs)].rescues) /\ u.at.stack = Len(st)
<1>1. /\ i \in DOMAIN N
      /\ ParksOK(c, N, Ats(In(Range(xs), Len(fs))) \cup Ats(In(Range(ws), Len(fs))), N[i].bodies, gd)
  BY CellFields
<1>2. PICK b, r : Closes(N, c, i, b, r)
  BY DEF Closes
<1>3. r = N[i].bodies[Level(N, i)] /\ N[i] = N[b] /\ b = Goal(c, r)
  BY <1>1, <1>2, TailIs DEF Closes
<1>4. Len(st) = gd[Level(N, i)] /\ Len(fs[Len(fs)].rescues) = Len(N[i].rescues)
  <2>1. AtTail(N, i, gd, fs[Len(fs)], st)
    BY TailCell
  <2> QED BY <2>1 DEF AtTail
<1>5. u.at \in Ats(In(Range(xs), Len(fs))) \cup Ats(In(Range(ws), Len(fs)))
  BY DEF Ats
<1>6. /\ u.at.on /\ u.at.body = Goal(c, N[i].bodies[Level(N, i)])
      /\ u.at.rescues = Len(N[u.at.body].rescues) /\ u.at.stack = gd[Level(N, i)]
  BY <1>1, <1>5 DEF ParksOK
<1>7. u.at.frame = Len(fs)
  BY DEF In
<1> QED BY <1>3, <1>4, <1>6, <1>7

\* A walk of an outer body is only mistaken for it when one of that body waits too.
LEMMA HereOuter ==
  ASSUME NEW c, NEW N, WellNested(c, N), NEW V, NEW fs, NEW st, NEW xs, NEW ws, NEW q, NEW i,
         NEW gd, NEW gn, NEW m, Cell(c, N, V, fs, st, xs, ws, q, Len(fs), i, gd, gn, m), c[i].op = "EndEnsure",
         NEW u \in In(Range(xs), Len(fs)) \cup In(Range(ws), Len(fs)), u.at.stack = Len(st)
  PROVE  \E o \in In(Range(xs), Len(fs)) \cup In(Range(ws), Len(fs)) : Level(N, o.at.body) = Level(N, i)
<1>1. /\ i \in DOMAIN N /\ LevelsOK(N, N[i].bodies, fs[Len(fs)].base, gd, gn) /\ gd \in Ghost
      /\ ParksOK(c, N, Ats(In(Range(xs), Len(fs))) \cup Ats(In(Range(ws), Len(fs))), N[i].bodies, gd)
  BY CellFields
<1>2. PICK L : L = Level(N, i)
  OBVIOUS
<1>3. /\ Len(st) \in Nat /\ Len(st) = gd[L] /\ L \in 1 .. Len(N[i].bodies) /\ Len(N[i].bodies) = L
      /\ Live(N, Ats(In(Range(xs), Len(fs))) \cup Ats(In(Range(ws), Len(fs))), N[i].bodies, gd, L)
  <2>1. /\ Len(st) \in Nat /\ AtTail(N, i, gd, fs[Len(fs)], st) /\ Level(N, i) \in 1 .. Len(N[i].bodies)
        /\ Live(N, Ats(In(Range(xs), Len(fs))) \cup Ats(In(Range(ws), Len(fs))), N[i].bodies, gd, Level(N, i))
    BY TailCell
  <2> QED BY <1>2, <2>1 DEF Level, AtTail
<1>4. u.at \in Ats(In(Range(xs), Len(fs))) \cup Ats(In(Range(ws), Len(fs)))
  BY DEF Ats
<1>5. PICK l : l = Level(N, u.at.body)
  OBVIOUS
<1>6. l \in 1 .. L /\ u.at.stack = gd[l]
  BY <1>1, <1>3, <1>4, <1>5 DEF ParksOK
<1>7. CASE \E at \in Ats(In(Range(xs), Len(fs))) \cup Ats(In(Range(ws), Len(fs))) : Level(N, at.body) = L
  BY <1>2, <1>7 DEF Ats
<1>8. CASE gd[L] > gd[L - 1] + N[N[i].bodies[L]].depth
  <2>1. CASE l = L
    BY <1>2, <1>5, <2>1
  <2>2. CASE l # L
    <3>1. l \in 0 .. L /\ L - 1 \in 0 .. L /\ l <= L - 1
      BY <1>3, <1>6, <2>2
    <3>2. gd[l] <= gd[L - 1]
      BY <1>1, <1>3, <3>1 DEF LevelsOK
    <3>3. gd[l] \in Nat /\ gd[L - 1] \in Nat /\ gd[L] \in Nat
      BY <1>1, <1>3, <3>1, GhostIs
    <3>4. N[N[i].bodies[L]].depth \in Nat
      <4>1. N[i].bodies[L] \in DOMAIN N
        BY <1>1, <1>3, BodyIs
      <4> QED BY <4>1, PointIs
    <3>5. gd[l] = gd[L]
      BY <1>3, <1>6
    <3> QED BY <1>8, <3>2, <3>3, <3>4, <3>5
  <2> QED BY <2>1, <2>2
<1> QED BY <1>3, <1>7, <1>8 DEF Live

\* EndEnsure looks at the last walk of each list.
WaitsHere(s, n, f, st) ==
  /\ s # <<>> /\ Peek(s).at.on /\ Peek(s).at.frame = n
  /\ Peek(s).at.rescues = Len(f.rescues) /\ Peek(s).at.stack = Len(st)

\* What waits there is of the top frame.
LEMMA PeekIn ==
  ASSUME NEW S, NEW s \in Seq(S), NEW n, NEW f, NEW st, WaitsHere(s, n, f, st)
  PROVE  Peek(s) \in In(Range(s), n)
<1>1. s # <<>> /\ Peek(s).at.frame = n
  BY DEF WaitsHere
<1>2. Peek(s) = s[Len(s)] /\ Len(s) \in DOMAIN s
  BY <1>1, FrontSeq
<1>3. Peek(s) \in Range(s)
  BY <1>2 DEF Range
<1> QED BY <1>1, <1>3 DEF In

\* A walk of an outer body was parked before one of this body.
LEMMA OuterFirst ==
  ASSUME NEW c, NEW N, WellNested(c, N), NEW V, NEW fs, NEW st, NEW xs, NEW ws, NEW q, NEW i,
         NEW gd, NEW gn, NEW m, Cell(c, N, V, fs, st, xs, ws, q, Len(fs), i, gd, gn, m), c[i].op = "EndEnsure",
         NEW u \in In(Range(xs), Len(fs)) \cup In(Range(ws), Len(fs)), Level(N, u.at.body) # Level(N, i),
         NEW o \in In(Range(xs), Len(fs)) \cup In(Range(ws), Len(fs)), Level(N, o.at.body) = Level(N, i)
  PROVE  u.at.seq \in Nat /\ o.at.seq \in Nat /\ u.at.seq < o.at.seq
<1>1. /\ WalksOK(N, V, Len(fs), xs, ws, q) /\ Len(fs) \in Nat /\ i \in DOMAIN N
      /\ ParksOK(c, N, Ats(In(Range(xs), Len(fs))) \cup Ats(In(Range(ws), Len(fs))), N[i].bodies, gd)
  BY CellFields
<1>2. /\ u \in Range(xs) \cup Range(ws) /\ u.at.frame = Len(fs)
      /\ o \in Range(xs) \cup Range(ws) /\ o.at.frame = Len(fs)
  BY DEF In
<1>3. Level(N, u.at.body) \in Nat /\ Level(N, u.at.body) <= Level(N, i) /\ Level(N, i) \in Nat
  <2>1. u.at \in Ats(In(Range(xs), Len(fs))) \cup Ats(In(Range(ws), Len(fs)))
    BY DEF Ats
  <2>2. Len(N[i].bodies) \in Nat
    BY <1>1, PointIs
  <2>3. Level(N, u.at.body) \in 1 .. Len(N[i].bodies)
    BY <1>1, <2>1, <2>2, ParksLevels
  <2> QED BY <2>2, <2>3 DEF Level
<1>4. Outer(N, u.at, o.at)
  BY <1>2, <1>3 DEF Outer
<1>5. u.at \in Ats(Range(xs)) \cup Ats(Range(ws)) /\ o.at \in Ats(Range(xs)) \cup Ats(Range(ws))
  BY <1>2 DEF Ats
<1>6. u.at.seq < o.at.seq
  BY <1>1, <1>4, <1>5 DEF WalksOK
<1>7. xs \in Seq(XferT(V)) /\ ws \in Seq(WalkT(V))
  BY <1>1 DEF WalksOK
<1>8. u \in XferT(V) \cup WalkT(V) /\ o \in XferT(V) \cup WalkT(V)
  <2>1. Range(xs) \subseteq XferT(V) /\ Range(ws) \subseteq WalkT(V)
    BY <1>7, ElementOfSeq DEF Range
  <2> QED BY <1>2, <2>1
<1> QED BY <1>6, <1>8, SeqNat

\* The transfer that EndEnsure resumes waits in this body.
LEMMA ResumesXfer ==
  ASSUME NEW c, NEW N, WellNested(c, N), NEW V, NEW fs, NEW st, NEW xs, NEW ws, NEW q, NEW i,
         NEW gd, NEW gn, NEW m, Cell(c, N, V, fs, st, xs, ws, q, Len(fs), i, gd, gn, m), c[i].op = "EndEnsure",
         WaitsHere(xs, Len(fs), fs[Len(fs)], st),
         WaitsHere(ws, Len(fs), fs[Len(fs)], st) => Peek(xs).at.seq > Peek(ws).at.seq
  PROVE  Peek(xs) \in In(Range(xs), Len(fs)) /\ Level(N, Peek(xs).at.body) = Level(N, i)
<1>1. WalksOK(N, V, Len(fs), xs, ws, q)
  BY CellFields
<1>2. xs \in Seq(XferT(V)) /\ ws \in Seq(WalkT(V))
  BY <1>1 DEF WalksOK
<1>3. PICK x, w : x = Peek(xs) /\ w = Peek(ws)
  OBVIOUS
<1>4. x \in In(Range(xs), Len(fs)) /\ x.at.stack = Len(st)
  BY <1>2, <1>3, PeekIn DEF WaitsHere
<1>5. PICK o \in In(Range(xs), Len(fs)) \cup In(Range(ws), Len(fs)) : Level(N, o.at.body) = Level(N, i)
  BY <1>4, HereOuter
<1>6. CASE o \in In(Range(xs), Len(fs))
  BY <1>5, <1>6, LatestXfer
<1>7. CASE o \in In(Range(ws), Len(fs))
  <2>1. ws # <<>> /\ w \in In(Range(ws), Len(fs)) /\ Level(N, w.at.body) = Level(N, i)
    BY <1>3, <1>5, <1>7, LatestWalk
  <2>2. w.at.on /\ w.at.frame = Len(fs) /\ w.at.rescues = Len(fs[Len(fs)].rescues) /\ w.at.stack = Len(st)
    BY <2>1, HereIs
  <2>3. WaitsHere(ws, Len(fs), fs[Len(fs)], st)
    BY <1>3, <2>1, <2>2 DEF WaitsHere
  <2>4. x.at.seq > w.at.seq
    BY <1>3, <2>3
  <2>5. Level(N, x.at.body) # Level(N, i) => x.at.seq \in Nat /\ w.at.seq \in Nat /\ x.at.seq < w.at.seq
    BY <1>4, <2>1, OuterFirst
  <2>6. Level(N, x.at.body) = Level(N, i)
    BY <2>4, <2>5
  <2> QED BY <1>3, <1>4, <2>6
<1> QED BY <1>5, <1>6, <1>7

\* So does the return's walk.
LEMMA ResumesWalk ==
  ASSUME NEW c, NEW N, WellNested(c, N), NEW V, NEW fs, NEW st, NEW xs, NEW ws, NEW q, NEW i,
         NEW gd, NEW gn, NEW m, Cell(c, N, V, fs, st, xs, ws, q, Len(fs), i, gd, gn, m), c[i].op = "EndEnsure",
         WaitsHere(ws, Len(fs), fs[Len(fs)], st),
         WaitsHere(xs, Len(fs), fs[Len(fs)], st) => ~ (Peek(xs).at.seq > Peek(ws).at.seq)
  PROVE  Peek(ws) \in In(Range(ws), Len(fs)) /\ Level(N, Peek(ws).at.body) = Level(N, i)
<1>1. WalksOK(N, V, Len(fs), xs, ws, q)
  BY CellFields
<1>2. xs \in Seq(XferT(V)) /\ ws \in Seq(WalkT(V))
  BY <1>1 DEF WalksOK
<1>3. PICK x, w : x = Peek(xs) /\ w = Peek(ws)
  OBVIOUS
<1>4. w \in In(Range(ws), Len(fs)) /\ w.at.stack = Len(st)
  BY <1>2, <1>3, PeekIn DEF WaitsHere
<1>5. PICK o \in In(Range(xs), Len(fs)) \cup In(Range(ws), Len(fs)) : Level(N, o.at.body) = Level(N, i)
  BY <1>4, HereOuter
<1>6. CASE o \in In(Range(ws), Len(fs))
  BY <1>5, <1>6, LatestWalk
<1>7. CASE o \in In(Range(xs), Len(fs))
  <2>1. xs # <<>> /\ x \in In(Range(xs), Len(fs)) /\ Level(N, x.at.body) = Level(N, i)
    BY <1>3, <1>5, <1>7, LatestXfer
  <2>2. x.at.on /\ x.at.frame = Len(fs) /\ x.at.rescues = Len(fs[Len(fs)].rescues) /\ x.at.stack = Len(st)
    BY <2>1, HereIs
  <2>3. WaitsHere(xs, Len(fs), fs[Len(fs)], st)
    BY <1>3, <2>1, <2>2 DEF WaitsHere
  <2>4. ~ (x.at.seq > w.at.seq)
    BY <1>3, <2>3
  <2>5. Level(N, w.at.body) # Level(N, i) => w.at.seq \in Nat /\ x.at.seq \in Nat /\ w.at.seq < x.at.seq
    BY <1>4, <2>1, OuterFirst
  <2>6. Level(N, w.at.body) = Level(N, i)
    BY <2>4, <2>5
  <2> QED BY <1>3, <1>4, <2>6
<1> QED BY <1>5, <1>6, <1>7

\* Otherwise an exception is on the stack.
LEMMA ResumesNone ==
  ASSUME NEW c, NEW N, WellNested(c, N), NEW V, NEW fs, NEW st, NEW xs, NEW ws, NEW q, NEW i,
         NEW gd, NEW gn, NEW m, Cell(c, N, V, fs, st, xs, ws, q, Len(fs), i, gd, gn, m), c[i].op = "EndEnsure",
         ~ WaitsHere(xs, Len(fs), fs[Len(fs)], st), ~ WaitsHere(ws, Len(fs), fs[Len(fs)], st)
  PROVE  gd[Level(N, i)] > gd[Level(N, i) - 1] + N[N[i].bodies[Level(N, i)]].depth
<1>1. Live(N, Ats(In(Range(xs), Len(fs))) \cup Ats(In(Range(ws), Len(fs))), N[i].bodies, gd, Level(N, i))
  BY TailCell
<1>2. ASSUME NEW o \in In(Range(xs), Len(fs)), Level(N, o.at.body) = Level(N, i)
      PROVE  FALSE
  <2>1. PICK x : x = Peek(xs)
    OBVIOUS
  <2>2. xs # <<>> /\ x \in In(Range(xs), Len(fs)) /\ Level(N, x.at.body) = Level(N, i)
    BY <1>2, <2>1, LatestXfer
  <2>3. x.at.on /\ x.at.frame = Len(fs) /\ x.at.rescues = Len(fs[Len(fs)].rescues) /\ x.at.stack = Len(st)
    BY <2>2, HereIs
  <2> QED BY <2>1, <2>2, <2>3 DEF WaitsHere
<1>3. ASSUME NEW o \in In(Range(ws), Len(fs)), Level(N, o.at.body) = Level(N, i)
      PROVE  FALSE
  <2>1. PICK w : w = Peek(ws)
    OBVIOUS
  <2>2. ws # <<>> /\ w \in In(Range(ws), Len(fs)) /\ Level(N, w.at.body) = Level(N, i)
    BY <1>3, <2>1, LatestWalk
  <2>3. w.at.on /\ w.at.frame = Len(fs) /\ w.at.rescues = Len(fs[Len(fs)].rescues) /\ w.at.stack = Len(st)
    BY <2>2, HereIs
  <2> QED BY <2>1, <2>2, <2>3 DEF WaitsHere
<1> QED BY <1>1, <1>2, <1>3 DEF Live, Ats

(***************************************************************************)
(* EndEnsure resumes the transfer u, the last of the list.                 *)
(***************************************************************************)
Resumes(N, xs, n, i, u) == xs # <<>> /\ u = Peek(xs) /\ u \in In(Range(xs), n) /\ Level(N, u.at.body) = Level(N, i)

\* It aims at the loop around the tail.
LEMMA ResumeAims ==
  ASSUME NEW c, NEW N, WellNested(c, N), NEW V, NEW fs, NEW st, NEW xs, NEW ws, NEW q, NEW i,
         NEW gd, NEW gn, NEW m, Cell(c, N, V, fs, st, xs, ws, q, Len(fs), i, gd, gn, m), c[i].op = "EndEnsure",
         NEW u, Resumes(N, xs, Len(fs), i, u), NEW a, InnerLoop(N, i, a)
  PROVE  /\ Aiming(N, u, i, a, gd, m)
         /\ \A o \in Ats(In(Range(xs), Len(fs))) \cup Ats(In(Range(ws), Len(fs))) :
              Level(N, o.body) < Level(N, i) => Level(N, o.body) <= Level(N, a)
<1>1. /\ i \in DOMAIN N
      /\ ParksOK(c, N, Ats(In(Range(xs), Len(fs))) \cup Ats(In(Range(ws), Len(fs))), N[i].bodies, gd)
  BY CellFields
<1>2. PICK b, r : Closes(N, c, i, b, r)
  BY DEF Closes
<1>3. r = N[i].bodies[Level(N, i)] /\ N[i] = N[b] /\ b = Goal(c, r) /\ Level(N, b) = Level(N, i)
  BY <1>1, <1>2, TailIs DEF Closes
<1>4. u \in In(Range(xs), Len(fs)) /\ Level(N, u.at.body) = Level(N, i)
  BY DEF Resumes
<1>5. u.at \in Ats(In(Range(xs), Len(fs))) \cup Ats(In(Range(ws), Len(fs)))
  BY <1>4 DEF Ats
<1>6. u.at.body = Goal(c, N[i].bodies[Level(N, i)])
  BY <1>1, <1>4, <1>5 DEF ParksOK
<1>7. u.at.body = b
  BY <1>3, <1>6
<1>8. XferOK(N, u, Ats(In(Range(xs), Len(fs))) \cup Ats(In(Range(ws), Len(fs))), gd, m)
  BY <1>4 DEF Cell, Life
<1>9. a = Last(N[b].loops)
  BY <1>3 DEF InnerLoop
<1>10. /\ Aims(N, u, b, gd) /\ (Level(N, a) = 0 \/ Level(N, a) > m)
       /\ \A o \in Ats(In(Range(xs), Len(fs))) \cup Ats(In(Range(ws), Len(fs))) :
            Level(N, o.body) < Level(N, b) => Level(N, o.body) <= Level(N, a)
  BY <1>7, <1>8, <1>9 DEF XferOK
<1>11. Aims(N, u, i, gd) /\ N[i].loops # <<>>
  BY <1>3, <1>10, ZenonT(30) DEF Aims
<1> QED BY <1>3, <1>10, <1>11 DEF Aiming

\* No other walk of the top frame is as deep.
LEMMA ResumesAlone ==
  ASSUME NEW c, NEW N, WellNested(c, N), NEW V, NEW fs, NEW st, NEW xs, NEW ws, NEW q, NEW i,
         NEW gd, NEW gn, NEW m, Cell(c, N, V, fs, st, xs, ws, q, Len(fs), i, gd, gn, m), c[i].op = "EndEnsure",
         NEW u, Resumes(N, xs, Len(fs), i, u),
         NEW o \in In(Range(xs), Len(fs)) \cup In(Range(ws), Len(fs)), o # u
  PROVE  Level(N, o.at.body) < Level(N, i) /\ Level(N, o.at.body) \in Nat /\ Level(N, i) \in Nat
<1>1. /\ WalksOK(N, V, Len(fs), xs, ws, q) /\ Len(fs) \in Nat /\ i \in DOMAIN N
      /\ ParksOK(c, N, Ats(In(Range(xs), Len(fs))) \cup Ats(In(Range(ws), Len(fs))), N[i].bodies, gd)
  BY CellFields
<1>2. /\ u \in Range(xs) /\ u.at.frame = Len(fs) /\ u = Peek(xs) /\ xs # <<>>
      /\ o \in Range(xs) \cup Range(ws) /\ o.at.frame = Len(fs) /\ Level(N, u.at.body) = Level(N, i)
  BY DEF In, Resumes
<1>3. Level(N, o.at.body) \in Nat /\ Level(N, o.at.body) <= Level(N, i) /\ Level(N, i) \in Nat
  <2>1. o.at \in Ats(In(Range(xs), Len(fs))) \cup Ats(In(Range(ws), Len(fs)))
    BY DEF Ats
  <2>2. Len(N[i].bodies) \in Nat
    BY <1>1, PointIs
  <2>3. Level(N, o.at.body) \in 1 .. Len(N[i].bodies)
    BY <1>1, <2>1, <2>2, ParksLevels
  <2> QED BY <2>2, <2>3 DEF Level
<1>4. xs \in Seq(XferT(V)) /\ ws \in Seq(WalkT(V)) /\ Chain(xs, Earlier(XferT(V)))
  BY <1>1 DEF WalksOK
<1>5. Range(xs) \subseteq XferT(V) /\ Range(ws) \subseteq WalkT(V)
  BY <1>4, ElementOfSeq DEF Range
<1>6. u.at.seq \in Nat /\ o.at.seq \in Nat
  BY <1>2, <1>5, SeqNat
<1>7. u.at.seq # o.at.seq
  <2>1. CASE o \in Range(xs)
    <3>1. o.at.seq < u.at.seq
      BY <1>2, <1>4, <2>1, LastWalk, SeqNat
    <3> QED BY <1>6, <3>1
  <2>2. CASE o \in Range(ws)
    BY <1>1, <1>2, <2>2 DEF WalksOK
  <2> QED BY <1>2, <2>1, <2>2
<1>8. u.at \in Ats(Range(xs)) \cup Ats(Range(ws)) /\ o.at \in Ats(Range(xs)) \cup Ats(Range(ws))
  BY <1>2 DEF Ats
<1>9. Outer(N, u.at, o.at) \/ Outer(N, o.at, u.at)
  BY <1>1, <1>6, <1>7, <1>8 DEF WalksOK
<1>10. Level(N, o.at.body) # Level(N, i)
  BY <1>1, <1>2, <1>3, <1>9 DEF Outer
<1> QED BY <1>3, <1>10

\* Taking it off the list leaves the walks of the bodies that its loop is in.
LEMMA ResumeSweeps ==
  ASSUME NEW c, NEW N, WellNested(c, N), NEW V, NEW fs, NEW st, NEW xs, NEW ws, NEW q, NEW i,
         NEW gd, NEW gn, NEW m, Cell(c, N, V, fs, st, xs, ws, q, Len(fs), i, gd, gn, m), c[i].op = "EndEnsure",
         NEW u, Resumes(N, xs, Len(fs), i, u), NEW a, InnerLoop(N, i, a)
  PROVE  CutTo(N, V, xs, ws, Len(fs), Level(N, a), Front(xs), ws)
<1>1. /\ WalksOK(N, V, Len(fs), xs, ws, q) /\ Len(fs) \in Nat /\ i \in DOMAIN N
      /\ Good(c, N, V, fs, st, xs, ws, q)
  BY CellFields
<1>2. PICK n, l : n = Len(fs) /\ l = Level(N, a)
  OBVIOUS
<1>3. /\ u \in Range(xs) /\ u.at.frame = n /\ u = Peek(xs) /\ xs # <<>> /\ Level(N, u.at.body) = Level(N, i)
  BY <1>2 DEF In, Resumes
<1>4. /\ xs \in Seq(XferT(V)) /\ ws \in Seq(WalkT(V)) /\ Chain(xs, Earlier(XferT(V))) /\ Chain(ws, Earlier(WalkT(V)))
      /\ \A v \in Range(xs) : \A w \in Range(ws) : v.at.seq # w.at.seq
  BY <1>1 DEF WalksOK
<1>5. /\ Front(xs) \in Seq(XferT(V)) /\ Chain(Front(xs), Earlier(XferT(V)))
      /\ Range(Front(xs)) = Range(xs) \ {u}
  BY <1>3, <1>4, LastWalk, SeqNat
<1>6. l < Level(N, i) /\ l \in Nat /\ Level(N, i) \in Nat
  <2>1. N[i].loops # <<>>
    BY ResumeAims DEF Aiming
  <2>2. a = N[i].loops[Len(N[i].loops)] /\ Len(N[i].loops) \in 1 .. Len(N[i].loops)
    BY <1>1, <2>1, LastLoop
  <2>3. Level(N, i) \in Nat
    BY <1>1, PointIs
  <2> QED BY <1>1, <1>2, <2>2, <2>3, TailScopes
<1>7. \A o \in Range(xs) \cup Range(ws) : o.at.frame \in 1 .. n
  BY <1>1, <1>2, AtsOn
<1>8. \A o \in Range(xs) \cup Range(ws) : o.at.frame = n /\ o # u => Level(N, o.at.body) <= l
  <2>1. SUFFICES ASSUME NEW o \in Range(xs) \cup Range(ws), o.at.frame = n, o # u
                 PROVE  Level(N, o.at.body) <= l
    OBVIOUS
  <2>2. o \in In(Range(xs), Len(fs)) \cup In(Range(ws), Len(fs))
    BY <1>2, <2>1 DEF In
  <2>3. Level(N, o.at.body) < Level(N, i)
    BY <2>1, <2>2, ResumesAlone
  <2>4. o.at \in Ats(In(Range(xs), Len(fs))) \cup Ats(In(Range(ws), Len(fs)))
    BY <2>2 DEF Ats
  <2> QED BY <1>2, <2>3, <2>4, ResumeAims
<1>9. \A o \in Range(ws) : o # u
  BY <1>3, <1>4
<1>10. Range(Front(xs)) = {v \in Range(xs) : v.at.frame < n \/ (v.at.frame = n /\ Level(N, v.at.body) <= l)}
  <2>1. ASSUME NEW v \in Range(xs)
        PROVE  v # u <=> v.at.frame < n \/ (v.at.frame = n /\ Level(N, v.at.body) <= l)
    <3>1. v.at.frame \in 1 .. n
      BY <1>7
    <3>2. CASE v = u
      BY <1>1, <1>2, <1>3, <1>6, <3>2
    <3>3. CASE v # u
      BY <1>1, <1>2, <1>8, <3>1, <3>3
    <3> QED BY <3>2, <3>3
  <2> QED BY <1>5, <2>1
<1>11. Range(ws) = {v \in Range(ws) : v.at.frame < n \/ (v.at.frame = n /\ Level(N, v.at.body) <= l)}
  <2>1. ASSUME NEW v \in Range(ws)
        PROVE  v.at.frame < n \/ (v.at.frame = n /\ Level(N, v.at.body) <= l)
    BY <1>1, <1>2, <1>7, <1>8, <1>9
  <2> QED BY <2>1
<1> QED BY <1>2, <1>4, <1>5, <1>10, <1>11 DEF CutTo

\* EndEnsure goes on with a break or next.
LEMMA ResumeTransferGood ==
  ASSUME NEW N, WellNested(code, N), NEW V, NEW i, NEW gd, NEW gn, NEW m,
         Cell(code, N, V, frames, stack, xfers, walks, seq, Len(frames), i, gd, gn, m), code[i].op = "EndEnsure",
         Resumes(N, xfers, Len(frames), i, Peek(xfers)), walks' = walks,
         ContinueTransfer([Peek(xfers) EXCEPT !.at = Moving], Front(xfers), Set(Past), stack)
  PROVE  Good(code, N, V, frames', stack', xfers', walks', seq')
<1>1. /\ i \in DOMAIN N /\ Good(code, N, V, frames, stack, xfers, walks, seq) /\ stack \in Seq(V)
      /\ WalksOK(N, V, Len(frames), xfers, walks, seq) /\ gd \in Ghost /\ gn \in Ghost
      /\ LevelsOK(N, N[i].bodies, frames[Len(frames)].base, gd, gn)
      /\ ParksOK(code, N, Ats(In(Range(xfers), Len(frames))) \cup Ats(In(Range(walks), Len(frames))), N[i].bodies, gd)
  BY CellFields
<1>2. PICK u, a, at, t : u = Peek(xfers) /\ InnerLoop(N, i, a) /\ at = Moving /\ WaitsAt(u, at, t)
  BY DEF InnerLoop, WaitsAt
<1>3. /\ Aiming(N, u, i, a, gd, m)
      /\ \A o \in Ats(In(Range(xfers), Len(frames))) \cup Ats(In(Range(walks), Len(frames))) :
           Level(N, o.body) < Level(N, i) => Level(N, o.body) <= Level(N, a)
  BY <1>2, ResumeAims
<1>4. CutTo(N, V, xfers, walks, Len(frames), Level(N, a), Front(xfers), walks')
  BY <1>2, ResumeSweeps
<1>5. u \in XferT(V)
  <2>1. xfers \in Seq(XferT(V)) /\ u \in Range(xfers)
    BY <1>1, <1>2 DEF WalksOK, Resumes, In
  <2> QED BY <2>1, ElementOfSeq DEF Range
<1>6. at \in AtT
  BY <1>2 DEF Moving, AtT
<1>7. t \in XferT(V) /\ Aiming(N, t, i, a, gd, m)
  BY <1>2, <1>3, <1>5, <1>6, AimSame
<1>8. Passes(code, N, i, a, Ats(In(Range(xfers), Len(frames))) \cup Ats(In(Range(walks), Len(frames))))
  <2>1. SUFFICES ASSUME NEW p \in 1 .. Len(N[i].rescues),
                        NEW o \in Ats(In(Range(xfers), Len(frames))) \cup Ats(In(Range(walks), Len(frames))),
                        ~ (Level(N, o.body) <= Level(N, a)), NEW j \in 1 .. p - 1
                 PROVE  Level(N, N[i].rescues[j]) # Level(N, o.body)
    BY DEF Passes, Spares
  <2>2. ~ (Level(N, o.body) < Level(N, i))
    BY <1>3, <2>1
  <2>3. j \in 1 .. Len(N[i].rescues)
    <3>1. Len(N[i].rescues) \in Nat
      BY <1>1, PointIs
    <3> QED BY <3>1
  <2>4. Level(N, N[i].rescues[j]) < Level(N, i)
    BY <1>1, <2>3, TailScopes
  <2> QED BY <2>2, <2>4
<1>9. Room(N, i, a, gd, stack)
  <2>1. Len(stack) = Dp(N, gd, i) /\ Len(stack) \in Nat
    <3>1. Height(frames, Len(stack), Len(frames)) = Dp(N, gd, i)
      BY DEF Cell, Shape
    <3> QED BY <3>1, CellFields DEF Height
  <2>2. Len(N[i].loops) \in 1 .. Len(N[i].loops) /\ a = N[i].loops[Len(N[i].loops)]
    BY <1>1, <1>3, LastLoop DEF Aiming
  <2>3. /\ \A j \in 1 .. Len(N[i].rescues) : Dp(N, gd, N[i].rescues[j]) <= Dp(N, gd, i)
        /\ Dp(N, gd, a) <= Dp(N, gd, i)
    BY <1>1, <2>2, InScope
  <2> QED BY <2>1, <2>3 DEF Room
<1>10. Handed(V, frames, Set(Past))
  BY <1>1, HandedPast
<1>11. PICK xs : xs = Front(xfers)
  OBVIOUS
<1>12. ContinueTransfer(t, xs, Set(Past), stack)
  BY <1>2, <1>11 DEF WaitsAt
<1>13. code[i].op # Unnests
  BY DEF Unnests
<1>14. CutTo(N, V, xfers, walks, Len(frames), Level(N, a), xs, walks')
  BY <1>4, <1>11
<1> QED BY <1>1, <1>7, <1>8, <1>9, <1>10, <1>12, <1>13, <1>14, TransferGood

(***************************************************************************)
(* Walks of a return.                                                      *)
(***************************************************************************)
\* The innermost of some handlers.
LEMMA HandlersIn ==
  ASSUME NEW V, NEW hs \in Seq(FrameT(V)), NEW lo \in Nat \ {0}, NEW H, H # {}, H \subseteq HandlersOf(hs, lo)
  PROVE  \E k \in lo .. Len(hs) : \E j \in 1 .. Len(hs[k].rescues) :
           /\ Innermost(H) = <<k, j>> /\ <<k, j>> \in H
           /\ \A i, m \in Nat : <<i, m>> \in H => i < k \/ (i = k /\ m <= j)
<1>1. PICK n, b : n = Len(hs) /\ b = [k \in 1 .. n |-> Len(hs[k].rescues)]
  OBVIOUS
<1>2. n \in Nat
  BY <1>1, LenProperties
<1>3. \A k \in 1 .. n : hs[k] \in FrameT(V)
  BY <1>1, <1>2, ElementOfSeq
<1>4. \A k \in 1 .. n : Len(hs[k].rescues) \in Nat /\ DOMAIN hs[k].rescues = 1 .. Len(hs[k].rescues)
  BY <1>3, FrameFields, LenProperties
<1>5. b \in [1 .. n -> Nat]
  BY <1>1, <1>4
<1>6. \A q \in H : \E k \in lo .. n : \E j \in 1 .. b[k] : q = <<k, j>>
  <2>1. SUFFICES ASSUME NEW q \in H
                 PROVE  \E k \in lo .. n : \E j \in 1 .. b[k] : q = <<k, j>>
    OBVIOUS
  <2>2. PICK k \in lo .. n : q \in {k} \X DOMAIN hs[k].rescues
    BY <1>1 DEF HandlersOf
  <2>3. k \in 1 .. n
    BY <1>2
  <2>4. PICK j \in DOMAIN hs[k].rescues : q = <<k, j>>
    BY <2>2
  <2>5. j \in 1 .. b[k]
    BY <1>1, <1>4, <2>3, <2>4
  <2> QED BY <2>4, <2>5
<1>7. \A q \in H : \E k \in 1 .. n : \E j \in 1 .. b[k] : q = <<k, j>>
  <2>1. \A k \in lo .. n : k \in 1 .. n
    BY <1>2
  <2> QED BY <1>6, <2>1
<1>8. PICK k \in 1 .. n : \E j \in 1 .. b[k] :
        /\ Innermost(H) = <<k, j>> /\ <<k, j>> \in H
        /\ \A i, m \in Nat : <<i, m>> \in H => i < k \/ (i = k /\ m <= j)
  BY <1>2, <1>5, <1>7, InnermostIs
<1>9. PICK j \in 1 .. b[k] :
        /\ Innermost(H) = <<k, j>> /\ <<k, j>> \in H
        /\ \A i, m \in Nat : <<i, m>> \in H => i < k \/ (i = k /\ m <= j)
  BY <1>8
<1>10. k \in lo .. n
  <2>1. PICK x \in lo .. n : \E y \in 1 .. b[x] : <<k, j>> = <<x, y>>
    BY <1>6, <1>9
  <2> QED BY <2>1
<1>11. j \in 1 .. Len(hs[k].rescues)
  BY <1>1, <1>9
<1> QED BY <1>1, <1>9, <1>10, <1>11

\* Cutting the frames that an op was fetched from.
LEMMA HandedCut ==
  ASSUME NEW V, NEW fs \in Seq(FrameT(V)), fs # <<>>, NEW hs, Handed(V, fs, hs), NEW k \in 1 .. Len(fs)
  PROVE  Upto(hs, k - 1) = Upto(fs, k - 1)
<1>1. PICK y, u, v, n : y = k - 1 /\ u = Upto(fs, y) /\ v = Upto(hs, y) /\ n = Len(fs)
  OBVIOUS
<1>2. n \in Nat /\ y \in Nat /\ y < n /\ hs \in Seq(FrameT(V)) /\ Len(hs) = n
  BY <1>1, LenProperties DEF Handed
<1>3. /\ u \in Seq(FrameT(V)) /\ Len(u) = y /\ \A j \in 1 .. y : u[j] = fs[j]
  <2>1. y < Len(fs) /\ Len(fs) \in Nat
    BY <1>1, <1>2
  <2> QED BY <1>1, <1>2, <2>1, UptoSeq
<1>4. /\ v \in Seq(FrameT(V)) /\ Len(v) = y /\ \A j \in 1 .. y : v[j] = hs[j]
  BY <1>1, <1>2, UptoSeq
<1>5. \A j \in 1 .. n - 1 : hs[j] = fs[j]
  BY <1>1 DEF Handed
<1>6. \A j \in 1 .. Len(u) : v[j] = u[j]
  BY <1>2, <1>3, <1>4, <1>5
<1>7. u = v
  BY <1>3, <1>4, <1>6, SameSeq
<1> QED BY <1>1, <1>7

\* The regions that a return leaves through hold no rescue clause of their walks.
Clears(c, N, i) ==
  \A p \in 1 .. Len(N[i].rescues) : Ens(c, N[i].rescues[p]) =>
    \A j \in 1 .. p - 1 : Ens(c, N[i].rescues[j]) \/ Level(N, N[i].rescues[j]) = 0

\* No walk waits outside every ensure body.
LEMMA NoneWithin ==
  ASSUME NEW c, NEW N, NEW X, NEW W, NEW s, Len(s) \in Nat, NEW gd, ParksOK(c, N, Ats(X) \cup Ats(W), s, gd)
  PROVE  Within(N, X, 0) = {} /\ Within(N, W, 0) = {}
<1>1. \A at \in Ats(X) \cup Ats(W) : Level(N, at.body) \in Nat /\ Level(N, at.body) # 0
  <2>1. PICK P, n : P = Ats(X) \cup Ats(W) /\ n = Len(s)
    OBVIOUS
  <2>2. \A at \in P : Level(N, at.body) \in 1 .. Len(s) /\ Level(N, at.body) \in Nat
    BY <2>1, ParksLevels
  <2>3. \A at \in P : Level(N, at.body) \in 1 .. n
    BY <2>1, <2>2
  <2>4. n \in Nat
    BY <2>1
  <2> QED BY <2>1, <2>3, <2>4
<1>2. \A t \in X : t.at \in Ats(X)
  BY DEF Ats
<1>3. \A t \in W : t.at \in Ats(W)
  BY DEF Ats
<1> QED BY <1>1, <1>2, <1>3 DEF Within

\* The frame of a return's walk that parks goes on in the body.
LEMMA WalkParks ==
  ASSUME NEW c, NEW N, WellNested(c, N), NEW V, NEW fs, NEW st, NEW xs0, NEW ws0, NEW q, NEW k, NEW i,
         NEW gd, NEW gn, NEW m, Cell(c, N, V, fs, st, xs0, ws0, q, k, i, gd, gn, m),
         Exits(c, N, i), Clears(c, N, i),
         NEW u \in WalkT(V), u.target = k,
         NEW p \in 1 .. Len(N[i].rescues), NEW r, Scope(N, i, p, r), Ens(c, r),
         NEW xs, NEW ws, CutTo(N, V, xs0, ws0, k, 0, xs, ws),
         NEW g \in FrameT(V), Opens(c, fs[k], g, p, r), Waits(g, k, Dp(N, gd, r), q, u.at),
         NEW ts \in Seq(V), Len(ts) = Dp(N, gd, r), NEW gs, Topped(fs, k, g, gs)
  PROVE  Good(c, N, V, gs, ts, xs, Append(ws, u), q + 1)
<1>1. PICK X, W, d, b : X = In(Range(xs0), k) /\ W = In(Range(ws0), k) /\ d = Dp(N, gd, r) /\ b = Goal(c, r)
  OBVIOUS
<1>2. i \in DOMAIN N /\ m \in Nat /\ Good(c, N, V, fs, st, xs0, ws0, q) /\ k \in 1 .. Len(fs)
      /\ ParksOK(c, N, Ats(X) \cup Ats(W), N[i].bodies, gd)
  BY <1>1, CellFields
<1>3. r \in DOMAIN N /\ Len(N[r].loops) = Len(N[i].loops)
  BY <1>2, HandlerIs DEF Scope, Exits
<1>4. PICK hd, hn : Entered(c, N, V, fs[k], g, r, d, gd, hd, hn)
  BY <1>1, <1>3, EnterOpen
<1>5. /\ b \in DOMAIN N /\ N[b].entry = N[r].entry /\ N[b].bodies = Append(N[r].bodies, r)
      /\ N[b].rescues = N[r].rescues /\ N[b].loops = N[r].loops
  BY <1>1, <1>3, EnsureGoal
<1>6. Level(N, b) = Level(N, r) + 1 /\ Level(N, r) \in Nat
  BY <1>1, <1>3, EnterLevel, PointIs
<1>7. /\ g.ip = b /\ Len(g.rescues) = Len(N[r].rescues) /\ Len(g.loops) = Len(N[r].loops)
      /\ hd[Level(N, r) + 1] = d
  BY <1>1, <1>4 DEF Entered
<1>8. /\ u.at.on /\ u.at.frame = k /\ u.at.rescues = Len(N[b].rescues) /\ u.at.stack = hd[Level(N, r) + 1]
      /\ u.at.loops = Len(N[b].loops) /\ u.at.seq = q + 1 /\ u.at.body = b
  BY <1>1, <1>5, <1>7 DEF Waits
<1>9. \A j \in 1 .. p - 1 : Ens(c, N[i].rescues[j]) \/ Level(N, N[i].rescues[j]) = 0
  BY DEF Clears, Scope
<1>10. Life(c, N, b, hd, Level(N, r), k, {}, {u})
  BY <1>1, <1>2, <1>5, <1>8, <1>9, LifeWalk
<1>11. Within(N, X, 0) = {} /\ Within(N, W, 0) = {}
  <2>1. Len(N[i].bodies) \in Nat
    BY <1>2, PointIs
  <2> QED BY <1>2, <2>1, NoneWithin
<1>12. Goes_on(c, N, V, fs[k], g, Len(ts), hd, hn)
  BY <1>1, <1>4 DEF Entered
<1>13. Life(c, N, g.ip, hd, Level(N, r), k, Within(N, In(Range(xs0), k), 0), Within(N, In(Range(ws0), k), 0) \cup {u})
  BY <1>1, <1>7, <1>10, <1>11
<1>14. 0 < Level(N, u.at.body)
  BY <1>6, <1>8
<1>15. PICK l \in Nat : l = 0
  OBVIOUS
<1>16. /\ CutTo(N, V, xs0, ws0, k, l, xs, ws) /\ l < Level(N, u.at.body)
       /\ Life(c, N, g.ip, hd, Level(N, r), k, Within(N, In(Range(xs0), k), l), Within(N, In(Range(ws0), k), l) \cup {u})
  BY <1>13, <1>14, <1>15
<1> QED BY <1>2, <1>6, <1>8, <1>12, <1>16, GoOnWalk

\* The walks left once a return leaves the top frame are those of its callers.
LEMMA CutBelow ==
  ASSUME NEW c, NEW N, WellNested(c, N), NEW V, NEW fs, NEW st, NEW xs0, NEW ws0, NEW q, NEW i,
         NEW gd, NEW gn, NEW m, Cell(c, N, V, fs, st, xs0, ws0, q, Len(fs), i, gd, gn, m),
         NEW xs, NEW ws, CutTo(N, V, xs0, ws0, Len(fs), 0, xs, ws)
  PROVE  /\ WalksOK(N, V, Len(fs) - 1, xs, ws, q)
         /\ \A j \in 1 .. Len(fs) - 1 : /\ In(Range(xs), j) = In(Range(xs0), j)
                                        /\ In(Range(ws), j) = In(Range(ws0), j)
<1>1. PICK n, X, W : n = Len(fs) /\ X = In(Range(xs0), n) /\ W = In(Range(ws0), n)
  OBVIOUS
<1>2. /\ WalksOK(N, V, n, xs0, ws0, q) /\ n \in Nat /\ n \in 1 .. n /\ i \in DOMAIN N
      /\ ParksOK(c, N, Ats(X) \cup Ats(W), N[i].bodies, gd) /\ Good(c, N, V, fs, st, xs0, ws0, q)
  BY <1>1, CellFields
<1>3. /\ Within(N, X, 0) = {} /\ Within(N, W, 0) = {}
  <2>1. Len(N[i].bodies) \in Nat
    BY <1>2, PointIs
  <2> QED BY <1>2, <2>1, NoneWithin
<1>4. CutTo(N, V, xs0, ws0, n, 0, xs, ws)
  BY <1>1
<1>5. \A j \in 1 .. n - 1 : /\ In(Range(xs), j) = In(Range(xs0), j)
                            /\ In(Range(ws), j) = In(Range(ws0), j)
  BY <1>2, <1>4, CutWalks
<1>6. \A t \in Range(xs) \cup Range(ws) : t.at.frame <= n - 1
  <2>1. SUFFICES ASSUME NEW t \in Range(xs) \cup Range(ws)
                 PROVE  t.at.frame <= n - 1
    OBVIOUS
  <2>2. t \in Range(xs0) \cup Range(ws0) /\ (t.at.frame < n \/ (t.at.frame = n /\ Level(N, t.at.body) <= 0))
    BY <1>4 DEF CutTo
  <2>3. t.at.frame \in 1 .. n
    BY <1>1, <1>2, <2>2, AtsOn
  <2>4. t.at.frame # n
    BY <1>1, <1>3, <2>2 DEF Within, In
  <2> QED BY <1>2, <2>3, <2>4
<1>7. PICK k : k = n - 1
  OBVIOUS
<1>8. k \in Nat /\ \A t \in Range(xs) \cup Range(ws) : t.at.frame <= k
  BY <1>2, <1>6, <1>7
<1>9. /\ xs \in Seq(XferT(V)) /\ Range(xs) \subseteq Range(xs0) /\ Chain(xs, Earlier(XferT(V)))
      /\ ws \in Seq(WalkT(V)) /\ Range(ws) \subseteq Range(ws0) /\ Chain(ws, Earlier(WalkT(V)))
  BY <1>4 DEF CutTo
<1>10. WalksOK(N, V, k, xs, ws, q)
  BY <1>2, <1>8, <1>9, FewerWalks
<1> QED BY <1>1, <1>5, <1>7, <1>10

\* What a return's walk hands over does not depend on where it waits.
LEMMA WalkSame ==
  ASSUME NEW V, NEW w \in WalkT(V), NEW at \in AtT, NEW u, WaitsAt(w, at, u)
  PROVE  u \in WalkT(V) /\ u.at = at /\ u.target = w.target
<1>1. u = [w EXCEPT !.at = at]
  BY DEF WaitsAt
<1> QED BY <1>1 DEF WalkT

\* The operands under the handlers of i and under its frame.
Under(N, i, gd, base, s) ==
  base <= Len(s) /\ \A j \in 1 .. Len(N[i].rescues) : Dp(N, gd, N[i].rescues[j]) <= Len(s)

\* ContinueWalk with an ensure region in the way.
LEMMA WalkParked ==
  ASSUME NEW N, WellNested(code, N), NEW V, NEW i, NEW gd, NEW gn, NEW m,
         Cell(code, N, V, frames, stack, xfers, walks, seq, Len(frames), i, gd, gn, m), code[i].op # Unnests,
         Exits(code, N, i), Clears(code, N, i),
         NEW w \in WalkT(V), w.target = Len(frames),
         NEW others, CutTo(N, V, xfers, walks, Len(frames), 0, xfers', others),
         NEW hs, Handed(V, frames, hs), NEW ss \in Seq(V), Under(N, i, gd, frames[Len(frames)].base, ss),
         {q \in HandlersOf(hs, w.target) : hs[q[1]].rescues[q[2]].ens} # {},
         ContinueWalk(w, others, hs, ss)
  PROVE  Good(code, N, V, frames', stack', xfers', walks', seq')
<1>1. /\ frames \in Seq(FrameT(V)) /\ frames # <<>> /\ Len(frames) \in Nat
      /\ frames[Len(frames)] \in FrameT(V) /\ i \in DOMAIN N /\ gd \in Ghost
      /\ WalksOK(N, V, Len(frames), xfers, walks, seq)
  BY CellFields
<1>2. PICK n, f, e : n = Len(frames) /\ f = frames[n] /\ e = Peek(hs)
  OBVIOUS
<1>3. e \in FrameT(V) /\ SameStacks(f, e) /\ hs \in Seq(FrameT(V)) /\ Len(hs) = n
  BY <1>1, <1>2, HandedTop
<1>4. e = hs[n] /\ n \in Nat \ {0}
  BY <1>1, <1>2, <1>3, EmptySeq DEF Peek
<1>5. PICK H : H = {q \in HandlersOf(hs, w.target) : hs[q[1]].rescues[q[2]].ens}
  OBVIOUS
<1>6. H # {} /\ H \subseteq HandlersOf(hs, n)
  BY <1>2, <1>5
<1>7. PICK k \in n .. Len(hs) : \E j \in 1 .. Len(hs[k].rescues) : Innermost(H) = <<k, j>> /\ <<k, j>> \in H
  BY <1>3, <1>4, <1>6, HandlersIn
<1>8. k = n
  BY <1>3, <1>4, <1>7
<1>9. PICK p \in 1 .. Len(e.rescues) : Innermost(H) = <<n, p>> /\ <<n, p>> \in H
  BY <1>4, <1>7, <1>8
<1>10. e.rescues[p].ens
  BY <1>4, <1>5, <1>9
<1>11. Len(e.rescues) = Len(N[i].rescues) /\ e.rescues = f.rescues /\ Len(N[i].rescues) \in Nat
  <2>1. Len(f.rescues) = Len(N[i].rescues)
    BY <1>2 DEF Cell, Shape
  <2> QED BY <1>1, <1>3, <2>1, PointIs DEF SameStacks
<1>12. PICK h, y, d, r : h = e.rescues[p] /\ y = p - 1 /\ d = h.depth /\ r = N[i].rescues[p]
  OBVIOUS
<1>13. p \in 1 .. Len(N[i].rescues) /\ y \in Nat /\ y + 1 = p /\ Scope(N, i, p, r)
  BY <1>9, <1>11, <1>12 DEF Scope
<1>14. /\ HandlerOK(code, N, f.begins, h, r, gd, gn) /\ h \in HandlerT(V) /\ r \in DOMAIN N
       /\ Dp(N, gd, r) \in Nat
  <2>1. /\ HandlerOK(code, N, frames[Len(frames)].begins, frames[Len(frames)].rescues[p], r, gd, gn)
        /\ frames[Len(frames)].rescues[p] \in HandlerT(V) /\ r \in DOMAIN N /\ Dp(N, gd, r) \in Nat
    BY <1>13, HandlerAt
  <2>2. h = frames[Len(frames)].rescues[p] /\ f = frames[Len(frames)]
    BY <1>2, <1>11, <1>12
  <2> QED BY <2>1, <2>2
<1>15. h.ip = Goal(code, r) /\ h.ip \in Int /\ Ens(code, r) /\ d = Dp(N, gd, r) /\ d \in Nat
  BY <1>10, <1>12, <1>14 DEF HandlerOK, HandlerT
<1>16. PICK g, v : Opened(e, y, h, g) /\ v = Upto(ss, d)
  BY DEF Opened
<1>17. v \in Seq(V) /\ Len(v) = d
  <2>1. d <= Len(ss)
    BY <1>12, <1>13, <1>15 DEF Under
  <2> QED BY <1>15, <1>16, <2>1, LenProperties, UptoSeq
<1>18. PICK at, u : at = Parked(g, n, d, h) /\ WaitsAt(w, at, u)
  BY DEF WaitsAt
<1>19. /\ frames' = Append(Upto(hs, n - 1), g) /\ stack' = v
       /\ walks' = Append(others, u) /\ seq' = seq + 1
  <2>1. /\ frames' = Append(Upto(hs, n - 1), [hs[n] EXCEPT !.ip = h.ip, !.rescues = Upto(@, p - 1)])
        /\ stack' = Upto(ss, h.depth)
        /\ seq' = seq + 1
        /\ walks' = Append(others, [w EXCEPT !.at =
                      Parked([hs[n] EXCEPT !.ip = h.ip, !.rescues = Upto(@, p - 1)], n, Len(Upto(ss, h.depth)), h)])
    <3>1. ~ (n < Len(hs)) /\ w.target = n
      BY <1>1, <1>2, <1>3
    <3>2. Innermost(H)[1] = n /\ Innermost(H)[2] = p /\ h = hs[n].rescues[p]
      BY <1>4, <1>9, <1>12
    <3> QED BY <1>5, <1>6, <3>1, <3>2, ZenonT(30) DEF ContinueWalk
  <2>2. g = [hs[n] EXCEPT !.ip = h.ip, !.rescues = Upto(@, p - 1)]
    BY <1>4, <1>12, <1>16 DEF Opened
  <2>3. v = Upto(ss, h.depth) /\ Len(v) = d
    BY <1>12, <1>16, <1>17
  <2> QED BY <1>18, <2>1, <2>2, <2>3 DEF WaitsAt
<1>20. g \in FrameT(V) /\ g.ip = h.ip /\ Opens(code, f, g, p, r)
  <2>1. Leads(code, h, r)
    BY <1>15 DEF Leads
  <2>2. g \in FrameT(V) /\ Opens(code, f, g, y + 1, r)
    BY <1>3, <1>13, <1>16, <2>1, OpenFrame
  <2>3. Opens(code, f, g, p, r)
    BY <1>13, <2>2
  <2> QED BY <1>15, <2>2, <2>3 DEF Opens
<1>21. seq \in Nat
  BY <1>1 DEF WalksOK
<1>22. at \in AtT /\ Waits(g, n, d, seq, at)
  BY <1>4, <1>15, <1>18, <1>20, <1>21, ParkedIs
<1>23. u \in WalkT(V) /\ u.at = at /\ u.target = Len(frames)
  BY <1>18, <1>22, WalkSame
<1>24. Topped(frames, n, g, frames')
  <2>1. Topped(hs, n, g, frames')
    BY <1>19 DEF Topped
  <2>2. n \in 1 .. Len(frames)
    BY <1>2, <1>4
  <2> QED BY <1>1, <2>1, <2>2, HandedTopped
<1>25. Waits(g, n, Dp(N, gd, r), seq, u.at)
  BY <1>15, <1>22, <1>23
<1>26. stack' \in Seq(V) /\ Len(stack') = Dp(N, gd, r)
  BY <1>15, <1>17, <1>19
<1>27. Good(code, N, V, frames', stack', xfers', Append(others, u), seq + 1)
  <2>1. Opens(code, frames[Len(frames)], g, p, r) /\ Waits(g, Len(frames), Dp(N, gd, r), seq, u.at)
        /\ Topped(frames, Len(frames), g, frames')
    BY <1>2, <1>20, <1>24, <1>25
  <2> QED BY <1>13, <1>15, <1>20, <1>23, <1>26, <2>1, WalkParks
<1> QED BY <1>19, <1>27

\* ContinueWalk with none: the frame goes.
LEMMA WalkPopped ==
  ASSUME NEW N, WellNested(code, N), NEW V, NEW i, NEW gd, NEW gn, NEW m,
         Cell(code, N, V, frames, stack, xfers, walks, seq, Len(frames), i, gd, gn, m), N[i].entry # 1,
         NEW xs, NEW ws, CutTo(N, V, xfers, walks, Len(frames), 0, xs, ws),
         NEW hs, Handed(V, frames, hs), NEW ss \in Seq(V), Under(N, i, gd, frames[Len(frames)].base, ss),
         NEW v \in V
  PROVE  Good(code, N, V, Upto(hs, Len(frames) - 1), Append(Upto(ss, hs[Len(frames)].base), v), xs, ws, seq)
<1>1. /\ frames \in Seq(FrameT(V)) /\ frames # <<>> /\ Len(frames) \in Nat
      /\ frames[Len(frames)] \in FrameT(V) /\ Len(frames) \in 1 .. Len(frames)
      /\ Good(code, N, V, frames, stack, xfers, walks, seq)
  BY CellFields
<1>2. PICK n, x, b : n = Len(frames) /\ x = hs[n].base /\ b = frames[n].base
  OBVIOUS
<1>3. Upto(hs, n - 1) = Upto(frames, n - 1)
  BY <1>1, <1>2, HandedCut
<1>4. x = b /\ b \in Nat
  <2>1. x = b
    BY <1>2 DEF Handed, SameStacks
  <2>2. b \in Nat
    BY <1>1, <1>2, FrameFields
  <2> QED BY <2>1, <2>2
<1>5. n # 1
  <2>1. frames[n].entry = N[i].entry
    BY <1>2, CellAt
  <2>2. frames[n].entry = 1 <=> n = 1
    BY <1>1, <1>2 DEF Good, CallsOK
  <2> QED BY <2>1, <2>2
<1>6. PICK u : u = Upto(ss, b)
  OBVIOUS
<1>7. u \in Seq(V) /\ Len(u) = b
  <2>1. b <= Len(ss)
    BY <1>2 DEF Under
  <2> QED BY <1>4, <1>6, <2>1, LenProperties, UptoSeq
<1>8. PICK ts : ts = Append(u, v)
  OBVIOUS
<1>9. ts \in Seq(V) /\ Len(ts) = b + 1
  BY <1>7, <1>8, AppendSeq
<1>10. /\ WalksOK(N, V, Len(frames) - 1, xs, ws, seq)
       /\ \A j \in 1 .. Len(frames) - 1 : /\ In(Range(xs), j) = In(Range(xfers), j)
                                          /\ In(Range(ws), j) = In(Range(walks), j)
  BY CutBelow
<1>11. Len(ts) = frames[Len(frames)].base + 1 /\ Len(frames) # 1
  BY <1>2, <1>5, <1>9
<1>12. Good(code, N, V, Upto(frames, Len(frames) - 1), ts, xs, ws, seq)
  BY <1>1, <1>9, <1>10, <1>11, PopFrame
<1> QED BY <1>2, <1>3, <1>4, <1>6, <1>8, <1>12

\* ContinueWalk.
LEMMA WalkGood ==
  ASSUME NEW N, WellNested(code, N), NEW V, NEW i, NEW gd, NEW gn, NEW m,
         Cell(code, N, V, frames, stack, xfers, walks, seq, Len(frames), i, gd, gn, m), code[i].op # Unnests,
         Exits(code, N, i), Clears(code, N, i),
         NEW w \in WalkT(V), w.target = Len(frames),
         NEW others, CutTo(N, V, xfers, walks, Len(frames), 0, xfers', others),
         NEW hs, Handed(V, frames, hs), NEW ss \in Seq(V), Under(N, i, gd, frames[Len(frames)].base, ss),
         ContinueWalk(w, others, hs, ss)
  PROVE  Good(code, N, V, frames', stack', xfers', walks', seq')
<1>1. CASE {q \in HandlersOf(hs, w.target) : hs[q[1]].rescues[q[2]].ens} # {}
  BY <1>1, WalkParked
<1>2. CASE {q \in HandlersOf(hs, w.target) : hs[q[1]].rescues[q[2]].ens} = {}
  <2>1. /\ frames' = Upto(hs, w.target - 1) /\ stack' = Append(Upto(ss, hs[w.target].base), w.value)
        /\ walks' = others /\ seq' = seq
    BY <1>2, ZenonT(30) DEF ContinueWalk
  <2>2. w.value \in V
    BY DEF WalkT
  <2>3. N[i].entry # 1
    BY DEF Exits
  <2>4. PICK xs, v, ts, gs : /\ xs = xfers' /\ v = w.value /\ gs = Upto(hs, Len(frames) - 1)
                             /\ ts = Append(Upto(ss, hs[Len(frames)].base), v)
    OBVIOUS
  <2>5. CutTo(N, V, xfers, walks, Len(frames), 0, xs, others) /\ v \in V
    BY <2>2, <2>4
  <2>6. Good(code, N, V, Upto(hs, Len(frames) - 1), Append(Upto(ss, hs[Len(frames)].base), v), xs, others, seq)
    BY <2>3, <2>5, WalkPopped
  <2>7. Good(code, N, V, gs, ts, xs, others, seq)
    BY <2>4, <2>6
  <2>8. gs = frames' /\ ts = stack'
    BY <2>1, <2>4
  <2> QED BY <2>1, <2>4, <2>7, <2>8
<1> QED BY <1>1, <1>2

\* A return sweeps every walk of its frame.
LEMMA ReturnSweeps ==
  ASSUME NEW c, NEW N, WellNested(c, N), NEW V, NEW fs, NEW st, NEW xs, NEW ws, NEW q, NEW i,
         NEW gd, NEW gn, NEW m, Cell(c, N, V, fs, st, xs, ws, q, Len(fs), i, gd, gn, m),
         NEW K, \A u \in Range(xs) : u \in K <=> (u.at.on => u.at.frame < Len(fs)),
         NEW J, \A u \in Range(ws) : u \in J <=> (u.at.on => u.at.frame < Len(fs))
  PROVE  CutTo(N, V, xs, ws, Len(fs), 0, Kept(xs, K), Kept(ws, J))
<1>1. PICK n, X, W : n = Len(fs) /\ X = In(Range(xs), n) /\ W = In(Range(ws), n)
  OBVIOUS
<1>2. /\ WalksOK(N, V, n, xs, ws, q) /\ n \in Nat /\ i \in DOMAIN N
      /\ ParksOK(c, N, Ats(X) \cup Ats(W), N[i].bodies, gd) /\ Good(c, N, V, fs, st, xs, ws, q)
  BY <1>1, CellFields
<1>3. Within(N, X, 0) = {} /\ Within(N, W, 0) = {}
  <2>1. Len(N[i].bodies) \in Nat
    BY <1>2, PointIs
  <2> QED BY <1>2, <2>1, NoneWithin
<1>4. \A u \in Range(xs) \cup Range(ws) : u.at.on /\ u.at.frame \in 1 .. n
  BY <1>1, <1>2, AtsOn
<1>5. \A u \in Range(xs) \cup Range(ws) : ~ (u.at.frame = n /\ Level(N, u.at.body) <= 0)
  BY <1>1, <1>3 DEF Within, In
<1>6. /\ \A u \in Range(xs) : u \in K <=> u.at.frame < n \/ (u.at.frame = n /\ Level(N, u.at.body) <= 0)
      /\ \A u \in Range(ws) : u \in J <=> u.at.frame < n \/ (u.at.frame = n /\ Level(N, u.at.body) <= 0)
  BY <1>1, <1>4, <1>5
<1>7. PICK l : l = 0
  OBVIOUS
<1>8. /\ \A u \in Range(xs) : u \in K <=> u.at.frame < n \/ (u.at.frame = n /\ Level(N, u.at.body) <= l)
      /\ \A u \in Range(ws) : u \in J <=> u.at.frame < n \/ (u.at.frame = n /\ Level(N, u.at.body) <= l)
  BY <1>6, <1>7
<1>9. CutTo(N, V, xs, ws, n, l, Kept(xs, K), Kept(ws, J))
  BY <1>2, <1>8, KeptWalks
<1> QED BY <1>1, <1>7, <1>9

\* Where a method returns, its walk leaves through regions that returns leave through.
LEMMA ReturnExits ==
  ASSUME NEW c, NEW N, WellNested(c, N), NEW i \in DOMAIN N, c[i].op = "Return"
  PROVE  Exits(c, N, i) /\ Clears(c, N, i) /\ Popping(N, i)
<1>1. Returns(c, N, i)
  BY DEF WellNested, Jumps
<1>2. Len(N[i].rescues) \in Nat /\ DOMAIN N[i].rescues = 1 .. Len(N[i].rescues)
  BY PointIs
<1>3. Exits(c, N, i)
  <2>1. \A j \in 1 .. Len(N[i].rescues) : Crossed(c, N, N[i].rescues[j])
    BY <1>2 DEF Crossed
  <2> QED BY <1>1, <1>2, <2>1 DEF Exits, Returns
<1>4. Clears(c, N, i)
  <2>1. SUFFICES ASSUME NEW p \in 1 .. Len(N[i].rescues), Ens(c, N[i].rescues[p]), NEW j \in 1 .. p - 1,
                        ~ Ens(c, N[i].rescues[j])
                 PROVE  Level(N, N[i].rescues[j]) = 0
    BY DEF Clears
  <2>2. j \in 1 .. Len(N[i].rescues) /\ j < p
    BY <1>2
  <2>3. Level(N, N[i].rescues[j]) <= 0
    BY <1>1, <2>1, <2>2 DEF Returns, NoRescueWithin
  <2>4. Level(N, N[i].rescues[j]) \in Nat
    <3>1. N[i].rescues[j] \in DOMAIN N
      BY <2>2, HandlerIs
    <3> QED BY <3>1, PointIs
  <2> QED BY <2>3, <2>4
<1> QED BY <1>1, <1>3, <1>4 DEF Returns

\* The operand that i pops is above those of its handlers and of its frame.
LEMMA PoppingUnder ==
  ASSUME NEW c, NEW N, WellNested(c, N), NEW V, NEW fs, NEW st, NEW xs, NEW ws, NEW q, NEW i,
         NEW gd, NEW gn, NEW m, Cell(c, N, V, fs, st, xs, ws, q, Len(fs), i, gd, gn, m), Popping(N, i)
  PROVE  /\ st # <<>> /\ Front(st) \in Seq(V) /\ Peek(st) \in V
         /\ Under(N, i, gd, fs[Len(fs)].base, Front(st)) /\ Under(N, i, gd, fs[Len(fs)].base, st)
<1>1. PICK b, u : b = fs[Len(fs)].base /\ u = Front(st)
  OBVIOUS
<1>2. /\ i \in DOMAIN N /\ gd \in Ghost /\ gn \in Ghost /\ st \in Seq(V) /\ Len(st) \in Nat
      /\ LevelsOK(N, N[i].bodies, b, gd, gn)
  BY <1>1, CellFields
<1>3. Len(st) = Dp(N, gd, i)
  <2>1. Height(fs, Len(st), Len(fs)) = Dp(N, gd, i)
    BY DEF Cell, Shape
  <2> QED BY <2>1 DEF Height
<1>4. /\ Dp(N, gd, i) \in Nat \ {0}
      /\ \A j \in 1 .. Len(N[i].rescues) : Dp(N, gd, N[i].rescues[j]) < Dp(N, gd, i)
  BY <1>2, PoppingRoom
<1>5. \A j \in 1 .. Len(N[i].rescues) : Dp(N, gd, N[i].rescues[j]) \in Nat
  BY <1>2, InScope
<1>6. st # <<>>
  BY <1>2, <1>3, <1>4, EmptySeq
<1>7. u \in Seq(V) /\ Len(u) = Len(st) - 1 /\ Peek(st) \in V
  BY <1>1, <1>2, <1>6, FrontSeq
<1>8. b \in Nat /\ b < Len(st)
  <2>1. PICK L : L = Level(N, i)
    OBVIOUS
  <2>2. L \in Nat /\ N[i].depth \in Nat /\ N[i].depth >= 1 /\ L = Len(N[i].bodies)
    BY <1>2, <2>1, PointIs DEF Popping, Level
  <2>3. b = gd[0] /\ gd[0] <= gd[L] /\ gd[0] \in Nat /\ gd[L] \in Nat
    <3>1. 0 \in 0 .. L /\ L \in 0 .. L /\ 0 <= L
      BY <2>2
    <3> QED BY <1>2, <2>2, <3>1, GhostIs DEF LevelsOK
  <2>4. Len(st) = gd[L] + N[i].depth
    BY <1>3, <2>1 DEF Dp
  <2> QED BY <2>2, <2>3, <2>4
<1>9. b <= Len(u) /\ b <= Len(st)
  BY <1>2, <1>7, <1>8
<1>10. \A j \in 1 .. Len(N[i].rescues) : Dp(N, gd, N[i].rescues[j]) <= Len(u) /\ Dp(N, gd, N[i].rescues[j]) <= Len(st)
  BY <1>2, <1>3, <1>4, <1>5, <1>7
<1> QED BY <1>1, <1>6, <1>7, <1>9, <1>10 DEF Under

\* Return.
LEMMA ReturnGood ==
  ASSUME NEW N, WellNested(code, N), NEW V, Good(code, N, V, frames, stack, xfers, walks, seq), ReturnOp
  PROVE  Good(code, N, V, frames', stack', xfers', walks', seq')
<1>1. PICK n, i : n = Len(frames) /\ i = frames[n].ip
  OBVIOUS
<1>2. n \in 1 .. Len(frames)
  BY <1>1, EmptySeq, LenProperties DEF Good
<1>3. PICK gd, gn \in Ghost : \E m \in Nat : Cell(code, N, V, frames, stack, xfers, walks, seq, n, i, gd, gn, m)
  BY <1>1, <1>2, CellIs
<1>4. PICK m \in Nat : Cell(code, N, V, frames, stack, xfers, walks, seq, Len(frames), i, gd, gn, m)
  BY <1>1, <1>3
<1>5. i \in DOMAIN N /\ code[i].op = "Return" /\ stack \in Seq(V) /\ Len(frames) \in Nat /\ frames # <<>>
      /\ frames \in Seq(FrameT(V))
  BY <1>1, <1>4, CellFields DEF ReturnOp, At, Instr, Top, Peek
<1>6. Exits(code, N, i) /\ Clears(code, N, i) /\ Popping(N, i)
  BY <1>5, ReturnExits
<1>7. PICK v, ss : v = Peek(stack) /\ ss = Front(stack)
  OBVIOUS
<1>8. /\ stack # <<>> /\ ss \in Seq(V) /\ v \in V
      /\ Under(N, i, gd, frames[Len(frames)].base, ss) /\ Under(N, i, gd, frames[Len(frames)].base, stack)
  BY <1>4, <1>6, <1>7, PoppingUnder
<1>9. CASE PendingEnsure(Top)
  <2>1. BeginWalk(v, n, Set(Past), ss)
    BY <1>1, <1>7, <1>9 DEF ReturnOp
  <2>2. PICK w, K, J, others :
          /\ w = [value |-> v, target |-> n, at |-> Moving]
          /\ K = {u \in Range(xfers) : SurvivesWalk(u, n)} /\ J = {u \in Range(walks) : SurvivesWalk(u, n)}
          /\ others = Kept(walks, J)
    OBVIOUS
  <2>3. xfers' = Kept(xfers, K) /\ ContinueWalk(w, others, Set(Past), ss)
    BY <2>1, <2>2 DEF BeginWalk
  <2>4. w \in WalkT(V) /\ w.target = Len(frames)
    BY <1>1, <1>5, <1>8, <2>2 DEF WalkT, Moving, AtT
  <2>5. CutTo(N, V, xfers, walks, Len(frames), 0, xfers', others)
    <3>1. \A u \in Range(xfers) \cup Range(walks) : u.at.on
      BY AtsOn
    <3>2. /\ \A u \in Range(xfers) : u \in K <=> (u.at.on => u.at.frame < Len(frames))
          /\ \A u \in Range(walks) : u \in J <=> (u.at.on => u.at.frame < Len(frames))
      BY <1>1, <2>2, <3>1 DEF SurvivesWalk
    <3>3. CutTo(N, V, xfers, walks, Len(frames), 0, Kept(xfers, K), Kept(walks, J))
      BY <1>4, <3>2, ReturnSweeps
    <3> QED BY <2>2, <2>3, <3>3
  <2>6. Handed(V, frames, Set(Past))
    BY HandedPast
  <2>7. code[i].op # Unnests
    BY <1>5 DEF Unnests
  <2> QED BY <1>4, <1>6, <1>8, <2>3, <2>4, <2>5, <2>6, <2>7, WalkGood
<1>10. CASE ~ PendingEnsure(Top)
  <2>1. /\ frames' = Upto(frames, n - 1) /\ stack' = Append(Upto(stack, frames[n].base), v)
        /\ xfers' = cancel_transfers_in_dead_frames(xfers, n - 1)
        /\ walks' = cancel_transfers_in_dead_frames(walks, n - 1) /\ seq' = seq
    BY <1>1, <1>7, <1>10 DEF ReturnOp, Top, Peek
  <2>2. PICK K, J : /\ K = {u \in Range(xfers) : InLiveFrame(u, n - 1)}
                    /\ J = {u \in Range(walks) : InLiveFrame(u, n - 1)}
    OBVIOUS
  <2>3. xfers' = Kept(xfers, K) /\ walks' = Kept(walks, J)
    BY <2>1, <2>2 DEF cancel_transfers_in_dead_frames
  <2>4. CutTo(N, V, xfers, walks, Len(frames), 0, xfers', walks')
    <3>1. \A u \in Range(xfers) \cup Range(walks) : u.at.on /\ u.at.frame \in 1 .. Len(frames)
      BY AtsOn
    <3>2. /\ \A u \in Range(xfers) : u \in K <=> (u.at.on => u.at.frame < Len(frames))
          /\ \A u \in Range(walks) : u \in J <=> (u.at.on => u.at.frame < Len(frames))
      BY <1>1, <1>5, <2>2, <3>1 DEF InLiveFrame
    <3>3. CutTo(N, V, xfers, walks, Len(frames), 0, Kept(xfers, K), Kept(walks, J))
      BY <1>4, <3>2, ReturnSweeps
    <3> QED BY <2>3, <3>3
  <2>5. Handed(V, frames, frames)
    BY <1>5 DEF Handed, SameStacks
  <2>6. PICK xs, ws : xs = xfers' /\ ws = walks'
    OBVIOUS
  <2>7. CutTo(N, V, xfers, walks, Len(frames), 0, xs, ws) /\ N[i].entry # 1
    BY <1>6, <2>4, <2>6 DEF Exits
  <2>8. Good(code, N, V, Upto(frames, Len(frames) - 1), Append(Upto(stack, frames[Len(frames)].base), v), xs, ws, seq)
    BY <1>4, <1>5, <1>8, <2>5, <2>7, WalkPopped
  <2> QED BY <1>1, <2>1, <2>6, <2>8
<1> QED BY <1>9, <1>10

\* Nor is one when EndEnsure resumes a return's walk.
LEMMA ResumesOnly ==
  ASSUME NEW c, NEW N, WellNested(c, N), NEW V, NEW fs, NEW st, NEW xs, NEW ws, NEW q, NEW i,
         NEW gd, NEW gn, NEW m, Cell(c, N, V, fs, st, xs, ws, q, Len(fs), i, gd, gn, m), c[i].op = "EndEnsure",
         NEW u, Resumes(N, ws, Len(fs), i, u),
         NEW o \in In(Range(xs), Len(fs)) \cup In(Range(ws), Len(fs)), o # u
  PROVE  Level(N, o.at.body) < Level(N, i) /\ Level(N, o.at.body) \in Nat /\ Level(N, i) \in Nat
<1>1. /\ WalksOK(N, V, Len(fs), xs, ws, q) /\ Len(fs) \in Nat /\ i \in DOMAIN N
      /\ ParksOK(c, N, Ats(In(Range(xs), Len(fs))) \cup Ats(In(Range(ws), Len(fs))), N[i].bodies, gd)
  BY CellFields
<1>2. /\ u \in Range(ws) /\ u.at.frame = Len(fs) /\ u = Peek(ws) /\ ws # <<>>
      /\ o \in Range(xs) \cup Range(ws) /\ o.at.frame = Len(fs) /\ Level(N, u.at.body) = Level(N, i)
  BY DEF In, Resumes
<1>3. Level(N, o.at.body) \in Nat /\ Level(N, o.at.body) <= Level(N, i) /\ Level(N, i) \in Nat
  <2>1. o.at \in Ats(In(Range(xs), Len(fs))) \cup Ats(In(Range(ws), Len(fs)))
    BY DEF Ats
  <2>2. Len(N[i].bodies) \in Nat
    BY <1>1, PointIs
  <2>3. Level(N, o.at.body) \in 1 .. Len(N[i].bodies)
    BY <1>1, <2>1, <2>2, ParksLevels
  <2> QED BY <2>2, <2>3 DEF Level
<1>4. xs \in Seq(XferT(V)) /\ ws \in Seq(WalkT(V)) /\ Chain(ws, Earlier(WalkT(V)))
  BY <1>1 DEF WalksOK
<1>5. Range(xs) \subseteq XferT(V) /\ Range(ws) \subseteq WalkT(V)
  BY <1>4, ElementOfSeq DEF Range
<1>6. u.at.seq \in Nat /\ o.at.seq \in Nat
  BY <1>2, <1>5, SeqNat
<1>7. u.at.seq # o.at.seq
  <2>1. CASE o \in Range(ws)
    <3>1. o.at.seq < u.at.seq
      BY <1>2, <1>4, <2>1, LastWalk, SeqNat
    <3> QED BY <1>6, <3>1
  <2>2. CASE o \in Range(xs)
    BY <1>1, <1>2, <2>2 DEF WalksOK
  <2> QED BY <1>2, <2>1, <2>2
<1>8. u.at \in Ats(Range(xs)) \cup Ats(Range(ws)) /\ o.at \in Ats(Range(xs)) \cup Ats(Range(ws))
  BY <1>2 DEF Ats
<1>9. Outer(N, u.at, o.at) \/ Outer(N, o.at, u.at)
  BY <1>1, <1>6, <1>7, <1>8 DEF WalksOK
<1>10. Level(N, o.at.body) # Level(N, i)
  BY <1>1, <1>2, <1>3, <1>9 DEF Outer
<1> QED BY <1>3, <1>10

\* EndEnsure goes on with a return.
LEMMA ResumeWalkGood ==
  ASSUME NEW N, WellNested(code, N), NEW V, NEW i, NEW gd, NEW gn, NEW m,
         Cell(code, N, V, frames, stack, xfers, walks, seq, Len(frames), i, gd, gn, m), code[i].op = "EndEnsure",
         Resumes(N, walks, Len(frames), i, Peek(walks)), xfers' = xfers,
         ContinueWalk([Peek(walks) EXCEPT !.at = Moving], Front(walks), Set(Past), stack)
  PROVE  Good(code, N, V, frames', stack', xfers', walks', seq')
<1>1. PICK n, u, b, r, at, w, X, W, others, bs :
        /\ n = Len(frames) /\ u = Peek(walks) /\ Closes(N, code, i, b, r) /\ at = Moving /\ WaitsAt(u, at, w)
        /\ X = In(Range(xfers), n) /\ W = In(Range(walks), n) /\ others = Front(walks) /\ bs = frames[n].base
  BY DEF Closes, WaitsAt
<1>2. /\ i \in DOMAIN N /\ Good(code, N, V, frames, stack, xfers, walks, seq) /\ stack \in Seq(V)
      /\ WalksOK(N, V, n, xfers, walks, seq) /\ gd \in Ghost /\ gn \in Ghost /\ m \in Nat /\ n \in Nat
      /\ LevelsOK(N, N[i].bodies, bs, gd, gn) /\ Len(stack) \in Nat
      /\ ParksOK(code, N, Ats(X) \cup Ats(W), N[i].bodies, gd)
  BY <1>1, CellFields
<1>3. /\ r = N[i].bodies[Level(N, i)] /\ N[i] = N[b] /\ b = Goal(code, r) /\ Level(N, b) = Level(N, i)
      /\ Level(N, i) \in Nat \ {0} /\ N[i].depth = 0
  BY <1>1, <1>2, TailIs DEF Closes
<1>4. /\ u \in W /\ Level(N, u.at.body) = Level(N, i) /\ walks # <<>> /\ u \in Range(walks) /\ u.at.frame = n
      /\ Resumes(N, walks, n, i, u)
  BY <1>1 DEF Resumes, In
<1>5. u.at \in Ats(X) \cup Ats(W)
  BY <1>4 DEF Ats
<1>6. u.at.body = Goal(code, N[i].bodies[Level(N, i)])
  BY <1>2, <1>4, <1>5 DEF ParksOK
<1>7. u.at.body = b
  BY <1>3, <1>6
<1>8. WalkOK(code, N, u, Ats(X) \cup Ats(W), n, m)
  BY <1>1, <1>4 DEF Cell, Life
<1>9. /\ u.target = n /\ Exits(code, N, b) /\ m >= Level(N, b) - 1
      /\ \A o \in Ats(X) \cup Ats(W) : Level(N, o.body) >= Level(N, b)
  BY <1>7, <1>8 DEF WalkOK
<1>10. Exits(code, N, i)
  BY <1>3, <1>9, ZenonT(30) DEF Exits
<1>11. Clears(code, N, i)
  <2>1. SUFFICES ASSUME NEW p \in 1 .. Len(N[i].rescues), NEW j \in 1 .. p - 1, ~ Ens(code, N[i].rescues[j])
                 PROVE  Level(N, N[i].rescues[j]) = 0
    BY DEF Clears
  <2>2. j \in 1 .. Len(N[i].rescues)
    <3>1. Len(N[i].rescues) \in Nat
      BY <1>2, PointIs
    <3> QED BY <3>1
  <2>3. HandlerLive(code, N, Ats(X) \cup Ats(W), N[i].bodies, gd, m, N[i].rescues[j])
    BY <1>1, <2>2 DEF Cell, Life, LiveOK
  <2>4. Level(N, N[i].rescues[j]) = 0 \/ Level(N, N[i].rescues[j]) > m
    BY <2>1, <2>3 DEF HandlerLive
  <2>5. Level(N, N[i].rescues[j]) \in Nat /\ Level(N, N[i].rescues[j]) < Level(N, i)
    BY <1>2, <2>2, TailScopes
  <2> QED BY <1>2, <1>3, <1>9, <2>4, <2>5
<1>12. /\ walks \in Seq(WalkT(V)) /\ xfers \in Seq(XferT(V))
       /\ Chain(walks, Earlier(WalkT(V))) /\ Chain(xfers, Earlier(XferT(V)))
       /\ \A t \in Range(xfers) : \A v \in Range(walks) : t.at.seq # v.at.seq
  BY <1>2 DEF WalksOK
<1>13. u \in WalkT(V)
  BY <1>4, <1>12, ElementOfSeq DEF Range
<1>14. w \in WalkT(V) /\ w.target = Len(frames)
  <2>1. at \in AtT
    BY <1>1 DEF Moving, AtT
  <2> QED BY <1>1, <1>9, <1>13, <2>1, WalkSame
<1>15. CutTo(N, V, xfers, walks, Len(frames), 0, xfers', others)
  <2>1. /\ others \in Seq(WalkT(V)) /\ Chain(others, Earlier(WalkT(V)))
        /\ Range(others) = Range(walks) \ {u}
    BY <1>1, <1>4, <1>12, LastWalk, SeqNat
  <2>2. ASSUME NEW o \in Range(xfers) \cup Range(walks), o # u
        PROVE  o.at.frame < n
    <3>1. o.at.frame \in 1 .. n
      BY <1>1, <1>2, AtsOn
    <3>2. CASE o.at.frame = n
      <4>1. o \in X \cup W
        BY <1>1, <3>2 DEF In
      <4>2. Level(N, o.at.body) < Level(N, i) /\ Level(N, o.at.body) \in Nat /\ Level(N, i) \in Nat
        BY <1>1, <1>4, <2>2, <4>1, ResumesOnly
      <4>3. o.at \in Ats(X) \cup Ats(W)
        BY <4>1 DEF Ats
      <4>4. Level(N, o.at.body) >= Level(N, i)
        BY <1>3, <1>9, <4>3
      <4> QED BY <4>2, <4>4
    <3>3. CASE o.at.frame # n
      BY <1>2, <3>1, <3>3
    <3> QED BY <3>2, <3>3
  <2>3. \A o \in Range(xfers) : o # u
    BY <1>4, <1>12
  <2>4. Range(xfers) = {v \in Range(xfers) : v.at.frame < n \/ (v.at.frame = n /\ Level(N, v.at.body) <= 0)}
    BY <2>2, <2>3
  <2>5. Range(others) = {v \in Range(walks) : v.at.frame < n \/ (v.at.frame = n /\ Level(N, v.at.body) <= 0)}
    <3>1. ~ (u.at.frame < n \/ (u.at.frame = n /\ Level(N, u.at.body) <= 0))
      BY <1>2, <1>3, <1>4
    <3> QED BY <2>1, <2>2, <3>1
  <2> QED BY <1>1, <1>12, <2>1, <2>4, <2>5 DEF CutTo
<1>16. Under(N, i, gd, bs, stack)
  <2>1. Len(stack) = Dp(N, gd, i)
    <3>1. Height(frames, Len(stack), Len(frames)) = Dp(N, gd, i)
      BY DEF Cell, Shape
    <3> QED BY <3>1 DEF Height
  <2>2. \A j \in 1 .. Len(N[i].rescues) : Dp(N, gd, N[i].rescues[j]) <= Dp(N, gd, i)
    BY <1>2, InScope
  <2>3. bs <= Len(stack)
    <3>1. PICK L : L = Level(N, i)
      OBVIOUS
    <3>2. L \in Nat /\ 0 \in 0 .. L /\ L \in 0 .. L /\ 0 <= L /\ L = Len(N[i].bodies)
      BY <1>3, <3>1 DEF Level
    <3>3. bs = gd[0] /\ gd[0] <= gd[L] /\ gd[0] \in Nat /\ gd[L] \in Nat
      BY <1>2, <3>2, GhostIs DEF LevelsOK
    <3>4. Len(stack) = gd[L]
      BY <1>3, <2>1, <3>1, <3>3 DEF Dp
    <3> QED BY <3>3, <3>4
  <2> QED BY <2>1, <2>2, <2>3 DEF Under
<1>17. Handed(V, frames, Set(Past)) /\ code[i].op # Unnests
  BY <1>2, HandedPast DEF Unnests
<1>18. ContinueWalk(w, others, Set(Past), stack)
  BY <1>1 DEF WaitsAt
<1>19. Under(N, i, gd, frames[Len(frames)].base, stack)
  BY <1>1, <1>16
<1> QED BY <1>2, <1>10, <1>11, <1>14, <1>15, <1>17, <1>18, <1>19, WalkGood

(***************************************************************************)
(* An exception.  The frame f goes on as g in what its p-th handler h      *)
(* leads to, with the begins D on top of those that h was pushed in.       *)
(***************************************************************************)
Caught(f, g, h, p, D) ==
  /\ g.ip = h.ip /\ g.base = f.base /\ g.entry = f.entry
  /\ g.rescues = Upto(f.rescues, p - 1) /\ g.loops = Upto(f.loops, h.loopAt)
  /\ g.begins = Upto(f.begins, h.beginAt) \o D

\* The stacks it goes on with.
CaughtStacks(N, f, r, p, gn, Q, Ks, B) ==
  /\ Len(Q) = p - 1 /\ \A j \in 1 .. p - 1 : Q[j] = f.rescues[j]
  /\ Len(Ks) = Len(N[r].loops) /\ \A j \in 1 .. Len(N[r].loops) : Ks[j] = f.loops[j]
  /\ Len(B) = Nb(N, gn, r)
  /\ \A j \in 1 .. Len(B) : /\ j \in 1 .. Len(f.begins) /\ B[j] = f.begins[j]
                            /\ B[j].loops <= Len(N[r].loops)

\* They are those of the region's outside.
LEMMA CaughtCut ==
  ASSUME NEW c, NEW N, WellNested(c, N), NEW V, NEW fs, NEW st, NEW xs, NEW ws, NEW q, NEW k, NEW i,
         NEW gd, NEW gn, NEW m, Cell(c, N, V, fs, st, xs, ws, q, k, i, gd, gn, m),
         NEW p \in 1 .. Len(N[i].rescues), NEW r, Scope(N, i, p, r), NEW h, h = fs[k].rescues[p]
  PROVE  /\ CaughtStacks(N, fs[k], r, p, gn, Upto(fs[k].rescues, p - 1), Upto(fs[k].loops, h.loopAt),
                         Upto(fs[k].begins, h.beginAt))
         /\ Upto(fs[k].begins, h.beginAt) \in Seq(BeginT(V))
<1>1. PICK f, R, Ls, B : f = fs[k] /\ R = f.rescues /\ Ls = f.loops /\ B = f.begins
  OBVIOUS
<1>2. /\ f \in FrameT(V) /\ i \in DOMAIN N /\ gd \in Ghost /\ gn \in Ghost
      /\ LevelsOK(N, N[i].bodies, f.base, gd, gn)
  BY <1>1, CellFields
<1>3. HandlersOK(c, N, i, R, B, gd, gn) /\ LoopsOK(N, i, Ls, B, gd, gn) /\ BeginsOK(N, i, Ls, B, gn)
  BY <1>1 DEF Cell, Shape
<1>4. R \in Seq(HandlerT(V)) /\ Ls \in Seq(LoopT) /\ B \in Seq(BeginT(V))
      /\ Len(R) \in Nat /\ Len(Ls) \in Nat /\ Len(B) \in Nat
  BY <1>1, <1>2, FrameFields
<1>5. /\ HandlerOK(c, N, B, h, r, gd, gn) /\ p <= Len(R) /\ p \in Nat \ {0}
      /\ r \in DOMAIN N /\ Around(N, r, i)
      /\ Nb(N, gn, r) \in Nat /\ Nb(N, gn, r) <= Nb(N, gn, i)
  <2>1. /\ HandlerOK(c, N, fs[k].begins, fs[k].rescues[p], r, gd, gn) /\ p <= Len(fs[k].rescues)
        /\ p \in Nat \ {0}
        /\ r \in DOMAIN N /\ Around(N, r, i)
        /\ Nb(N, gn, r) \in Nat /\ Nb(N, gn, r) <= Nb(N, gn, i)
    BY HandlerAt
  <2> QED BY <1>1, <2>1
<1>6. /\ h.loopAt = Len(N[r].loops) /\ h.beginAt = Nb(N, gn, r)
      /\ \A j \in 1 .. Nb(N, gn, r) : B[j].loops <= Len(N[r].loops)
  BY <1>5 DEF HandlerOK
<1>7. Len(N[r].loops) \in Nat /\ Len(N[r].loops) <= Len(Ls)
  <2>1. Len(N[r].loops) <= Len(N[i].loops)
    BY <1>2, <1>5, AroundIs DEF Sub
  <2> QED BY <1>3, <1>5, <2>1, PointIs DEF LoopsOK
<1>8. Nb(N, gn, r) <= Len(B)
  BY <1>3, <1>5 DEF BeginsOK
<1>9. PICK y, z, x : y = p - 1 /\ z = Len(N[r].loops) /\ x = Nb(N, gn, r)
  OBVIOUS
<1>10. PICK Q, Ks, D : Q = Upto(R, y) /\ Ks = Upto(Ls, z) /\ D = Upto(B, x)
  OBVIOUS
<1>11. /\ y \in Nat /\ y <= Len(R) /\ z \in Nat /\ z <= Len(Ls) /\ x \in Nat /\ x <= Len(B)
  BY <1>4, <1>5, <1>7, <1>8, <1>9
<1>12. Len(Q) = y /\ \A j \in 1 .. y : Q[j] = R[j]
  BY <1>4, <1>10, <1>11, UptoSeq
<1>13. Len(Ks) = z /\ \A j \in 1 .. z : Ks[j] = Ls[j]
  <2>1. Ls \in Seq(LoopT) /\ Len(Ls) \in Nat /\ Ks = Upto(Ls, z) /\ z \in Nat /\ z <= Len(Ls)
    BY <1>4, <1>10, <1>11
  <2> QED BY ONLY <2>1, UptoSeq
<1>14. D \in Seq(BeginT(V)) /\ Len(D) = x /\ \A j \in 1 .. x : j \in 1 .. Len(B) /\ D[j] = B[j]
  BY <1>4, <1>10, <1>11, UptoSeq
<1>15. CaughtStacks(N, f, r, p, gn, Q, Ks, D)
  BY <1>1, <1>6, <1>9, <1>12, <1>13, <1>14 DEF CaughtStacks
<1> QED BY <1>1, <1>6, <1>9, <1>10, <1>14, <1>15

\* The k-th frame goes on in a rescue clause.
LEMMA Rescued ==
  ASSUME NEW c, NEW N, WellNested(c, N), NEW V, NEW fs, NEW st, NEW xs0, NEW ws0, NEW q, NEW k, NEW i,
         NEW gd, NEW gn, NEW m, Cell(c, N, V, fs, st, xs0, ws0, q, k, i, gd, gn, m),
         NEW p \in 1 .. Len(N[i].rescues), NEW r, Scope(N, i, p, r), ~ Ens(c, r),
         NEW xs, NEW ws, CutTo(N, V, xs0, ws0, k, Level(N, r), xs, ws),
         NEW g \in FrameT(V), Caught(fs[k], g, fs[k].rescues[p], p, <<>>),
         NEW ts \in Seq(V), Len(ts) = Dp(N, gd, r), NEW gs, Topped(fs, k, g, gs)
  PROVE  Good(c, N, V, gs, ts, xs, ws, q)
<1>1. PICK X, W, l, b, h : X = In(Range(xs0), k) /\ W = In(Range(ws0), k) /\ l = Level(N, r) /\ b = Goal(c, r)
                           /\ h = fs[k].rescues[p]
  OBVIOUS
<1>2. /\ i \in DOMAIN N /\ m \in Nat /\ Good(c, N, V, fs, st, xs0, ws0, q) /\ k \in 1 .. Len(fs)
      /\ gd \in Ghost /\ gn \in Ghost
  BY CellFields
<1>3. Life(c, N, i, gd, m, k, X, W)
  BY <1>1 DEF Cell
<1>4. /\ HandlerOK(c, N, fs[k].begins, h, r, gd, gn)
      /\ r \in DOMAIN N /\ Around(N, r, i) /\ Len(N[r].rescues) = p - 1 /\ p \in Nat \ {0}
  BY <1>1, HandlerAt
<1>5. c[r].op \in Pushes
  BY <1>2, HandlerIs DEF Scope
<1>6. /\ b \in DOMAIN N /\ N[b].entry = N[r].entry
      /\ Sub(N[b].rescues, N[r].rescues) /\ N[b].loops = N[r].loops
      /\ N[b].bodies = N[r].bodies
      /\ N[b].begins = N[r].begins /\ N[b].depth = N[r].depth
      /\ c[b].op = Unnests
  BY <1>1, <1>4, <1>5, RescueGoal
<1>7. LandsIn(N, i, r, b)
  <2>1. Sub(N[b].loops, N[i].loops)
    BY <1>2, <1>4, <1>6, AroundIs
  <2>2. \A j \in 1 .. Len(N[b].loops) : Around(N, N[b].loops[j], r)
    BY <1>4, <1>6, LoopIs
  <2> QED BY <1>6, <2>1, <2>2 DEF LandsIn
<1>8. /\ CaughtStacks(N, fs[k], r, p, gn, Upto(fs[k].rescues, p - 1), Upto(fs[k].loops, h.loopAt),
                      Upto(fs[k].begins, h.beginAt))
      /\ Upto(fs[k].begins, h.beginAt) \in Seq(BeginT(V))
  BY <1>1, CaughtCut
<1>9. g.begins = Upto(fs[k].begins, h.beginAt)
  <2>1. g.begins = Upto(fs[k].begins, h.beginAt) \o <<>>
    BY <1>1 DEF Caught
  <2>2. PICK D : D = Upto(fs[k].begins, h.beginAt)
    OBVIOUS
  <2>3. D \o <<>> = D
    BY <1>8, <2>2, ConcatEmptySeq
  <2> QED BY <2>1, <2>2, <2>3
<1>10. /\ g.ip = b /\ g.base = fs[k].base /\ g.entry = fs[k].entry
       /\ CaughtStacks(N, fs[k], r, p, gn, g.rescues, g.loops, g.begins)
  <2>1. g.ip = h.ip /\ h.ip = b /\ g.base = fs[k].base /\ g.entry = fs[k].entry
    BY <1>1, <1>4 DEF Caught, HandlerOK
  <2>2. g.rescues = Upto(fs[k].rescues, p - 1) /\ g.loops = Upto(fs[k].loops, h.loopAt)
    BY <1>1 DEF Caught
  <2> QED BY <1>8, <1>9, <2>1, <2>2
<1>11. Landing(c, N, r, b, fs[k].rescues, g.rescues, fs[k].loops, g.loops, fs[k].begins, g.begins, gn)
  <2>1. /\ Len(N[b].rescues) \in Nat /\ Len(N[b].rescues) <= p - 1
    BY <1>4, <1>6, PointIs DEF Sub
  <2>2. Held(N, fs[k].begins, Nb(N, gn, r), N[r].begins)
    BY <1>4 DEF HandlerOK
  <2> QED BY <1>4, <1>6, <1>10, <2>1, <2>2 DEF Landing, CaughtStacks
<1>12. Goes_on(c, N, V, fs[k], g, Dp(N, gd, b), gd, gn)
  BY <1>4, <1>6, <1>7, <1>10, <1>11, LandFrame
<1>13. Dp(N, gd, b) = Len(ts)
  BY <1>6 DEF Dp, Level
<1>14. Level(N, r) = 0 \/ (Level(N, r) > m /\ Live(N, Ats(X) \cup Ats(W), N[i].bodies, gd, Level(N, r)))
  <2>1. HandlerLive(c, N, Ats(X) \cup Ats(W), N[i].bodies, gd, m, r)
    BY <1>3 DEF Life, LiveOK, Scope
  <2> QED BY <2>1 DEF HandlerLive
<1>15. Life(c, N, b, gd, Least(m, Level(N, r)), k, Within(N, X, Level(N, r)), Within(N, W, Level(N, r)))
  <2>1. /\ N[b].bodies = N[r].bodies /\ Sub(N[b].rescues, N[r].rescues)
        /\ \A j \in 1 .. Len(N[b].loops) :
             N[b].loops[j] = r \/ \E y \in 1 .. Len(N[r].loops) : N[b].loops[j] = N[r].loops[y]
    BY <1>6
  <2> QED BY <1>2, <1>3, <1>4, <1>6, <1>14, <2>1, LifeLand
<1>16. Least(m, l) \in Nat
  <2>1. l \in Nat
    BY <1>1, <1>4, PointIs
  <2> QED BY <1>2, <2>1 DEF Least
<1>17. /\ CutTo(N, V, xs0, ws0, k, l, xs, ws) /\ Goes_on(c, N, V, fs[k], g, Len(ts), gd, gn)
       /\ Life(c, N, g.ip, gd, Least(m, l), k, Within(N, In(Range(xs0), k), l), Within(N, In(Range(ws0), k), l))
  BY <1>1, <1>10, <1>12, <1>13, <1>15
<1> QED BY <1>2, <1>16, <1>17, GoOn

\* A stack with one more entry, as the interpreter writes it.
LEMMA OneMore ==
  ASSUME NEW S, NEW s \in Seq(S), NEW x \in S
  PROVE  /\ s \o <<x>> \in Seq(S) /\ Len(s \o <<x>>) = Len(s) + 1 /\ Len(s) \in Nat
         /\ \A j \in 1 .. Len(s) : (s \o <<x>>)[j] = s[j]
         /\ (s \o <<x>>)[Len(s) + 1] = x
<1>1. <<x>> \in Seq(S) /\ Len(<<x>>) = 1 /\ <<x>>[1] = x
  OBVIOUS
<1>2. /\ s \o <<x>> \in Seq(S) /\ Len(s \o <<x>>) = Len(s) + Len(<<x>>)
      /\ \A j \in 1 .. Len(s) + Len(<<x>>) :
           (s \o <<x>>)[j] = IF j <= Len(s) THEN s[j] ELSE <<x>>[j - Len(s)]
  BY <1>1, ConcatProperties
<1>3. Len(s) \in Nat
  BY LenProperties
<1> QED BY <1>1, <1>2, <1>3

\* The k-th frame goes on in an ensure body, with the exception on the stack.
LEMMA Ensured ==
  ASSUME NEW c, NEW N, WellNested(c, N), NEW V, NEW fs, NEW st, NEW xs0, NEW ws0, NEW q, NEW k, NEW i,
         NEW gd, NEW gn, NEW m, Cell(c, N, V, fs, st, xs0, ws0, q, k, i, gd, gn, m),
         NEW p \in 1 .. Len(N[i].rescues), NEW r, Scope(N, i, p, r), Ens(c, r),
         NEW xs, NEW ws, CutTo(N, V, xs0, ws0, k, Level(N, r), xs, ws),
         NEW e \in BeginT(V), e.loops = fs[k].rescues[p].loopAt,
         NEW g \in FrameT(V), Caught(fs[k], g, fs[k].rescues[p], p, <<e>>),
         NEW ts \in Seq(V), Len(ts) = Dp(N, gd, r) + 1, NEW gs, Topped(fs, k, g, gs)
  PROVE  Good(c, N, V, gs, ts, xs, ws, q)
<1>1. PICK X, W, l, b, h : X = In(Range(xs0), k) /\ W = In(Range(ws0), k) /\ l = Level(N, r) /\ b = Goal(c, r)
                           /\ h = fs[k].rescues[p]
  OBVIOUS
<1>2. /\ i \in DOMAIN N /\ m \in Nat /\ Good(c, N, V, fs, st, xs0, ws0, q) /\ k \in 1 .. Len(fs)
      /\ gd \in Ghost /\ gn \in Ghost
  BY CellFields
<1>3. Life(c, N, i, gd, m, k, X, W)
  BY <1>1 DEF Cell
<1>4. /\ HandlerOK(c, N, fs[k].begins, h, r, gd, gn)
      /\ r \in DOMAIN N /\ Around(N, r, i) /\ Len(N[r].rescues) = p - 1 /\ p \in Nat \ {0}
      /\ Dp(N, gd, r) \in Nat /\ Nb(N, gn, r) \in Nat
  BY <1>1, HandlerAt
<1>5. l \in Nat /\ l <= Level(N, r)
  BY <1>1, <1>4, PointIs
<1>6. /\ CaughtStacks(N, fs[k], r, p, gn, Upto(fs[k].rescues, p - 1), Upto(fs[k].loops, h.loopAt),
                      Upto(fs[k].begins, h.beginAt))
      /\ Upto(fs[k].begins, h.beginAt) \in Seq(BeginT(V))
  BY <1>1, CaughtCut
<1>7. PICK Q, Ks, D, B : /\ Q = g.rescues /\ Ks = g.loops /\ D = Upto(fs[k].begins, h.beginAt)
                         /\ B = fs[k].begins
  OBVIOUS
<1>8. /\ g.ip = b /\ g.base = fs[k].base /\ g.entry = fs[k].entry
      /\ CaughtStacks(N, fs[k], r, p, gn, Q, Ks, D) /\ D \in Seq(BeginT(V))
      /\ g.begins = D \o <<e>> /\ e.loops = Len(N[r].loops)
  <2>1. g.ip = h.ip /\ h.ip = b /\ g.base = fs[k].base /\ g.entry = fs[k].entry
    BY <1>1, <1>4 DEF Caught, HandlerOK
  <2>2. /\ g.rescues = Upto(fs[k].rescues, p - 1) /\ g.loops = Upto(fs[k].loops, h.loopAt)
        /\ g.begins = Upto(fs[k].begins, h.beginAt) \o <<e>>
    BY <1>1 DEF Caught
  <2>3. e.loops = Len(N[r].loops)
    BY <1>1, <1>4 DEF HandlerOK
  <2> QED BY <1>6, <1>7, <2>1, <2>2, <2>3
<1>9. PICK E : E = g.begins
  OBVIOUS
<1>10. /\ Len(E) = Len(D) + 1 /\ Len(D) \in Nat /\ E[Len(D) + 1] = e
       /\ \A j \in 1 .. Len(D) : E[j] = D[j]
  <2>1. PICK y : y = D \o <<e>>
    OBVIOUS
  <2>2. Len(y) = Len(D) + 1 /\ Len(D) \in Nat /\ y[Len(D) + 1] = e /\ \A j \in 1 .. Len(D) : y[j] = D[j]
    BY <1>8, <2>1, OneMore
  <2> QED BY <1>8, <1>9, <2>1, <2>2
<1>11. /\ Len(Q) = p - 1 /\ (\A j \in 1 .. p - 1 : Q[j] = fs[k].rescues[j])
       /\ Len(Ks) = Len(N[r].loops) /\ (\A j \in 1 .. Len(N[r].loops) : Ks[j] = fs[k].loops[j])
       /\ Len(D) = Nb(N, gn, r)
       /\ \A j \in 1 .. Len(D) : /\ j \in 1 .. Len(B) /\ D[j] = B[j]
                                 /\ D[j].loops <= Len(N[r].loops)
  BY <1>7, <1>8 DEF CaughtStacks
<1>12. Cuts(N, fs[k], g, r, gn)
  <2>1. /\ Len(g.rescues) = Len(N[r].rescues)
        /\ \A j \in 1 .. Len(N[r].rescues) : g.rescues[j] = fs[k].rescues[j]
    BY <1>4, <1>7, <1>11
  <2>2. /\ Len(g.loops) = Len(N[r].loops)
        /\ \A j \in 1 .. Len(N[r].loops) : g.loops[j] = fs[k].loops[j]
    BY <1>7, <1>11
  <2>3. Nb(N, gn, r) <= Len(E) /\ \A j \in 1 .. Nb(N, gn, r) : E[j] = B[j]
    BY <1>10, <1>11
  <2>4. /\ Nb(N, gn, r) <= Len(g.begins)
        /\ \A j \in 1 .. Nb(N, gn, r) : g.begins[j] = fs[k].begins[j]
    BY <1>7, <1>9, <2>3
  <2> QED BY <1>8, <2>1, <2>2, <2>4 DEF Cuts
<1>13. Len(N[r].loops) \in Nat
  BY <1>4, PointIs
<1>14. \A j \in 1 .. Len(E) :
         /\ E[j].loops <= Len(Ks)
         /\ \/ j \in 1 .. Len(B) /\ E[j] = B[j]
            \/ j > Nb(N, gn, r) /\ E[j].loops >= Len(Ks)
  <2> SUFFICES ASSUME NEW j \in 1 .. Len(E)
               PROVE  /\ E[j].loops <= Len(Ks)
                      /\ \/ j \in 1 .. Len(B) /\ E[j] = B[j]
                         \/ j > Nb(N, gn, r) /\ E[j].loops >= Len(Ks)
    OBVIOUS
  <2>1. CASE j <= Len(D)
    BY <1>10, <1>11, <2>1
  <2>2. CASE j = Len(D) + 1
    BY <1>8, <1>10, <1>11, <1>13, <2>2
  <2> QED BY <1>10, <2>1, <2>2
<1>15. PICK x : x = Len(ts)
  OBVIOUS
<1>16. x \in Nat /\ Dp(N, gd, r) <= x /\ x > Dp(N, gd, r)
  BY <1>4, <1>15
<1>17. PICK hd, hn : Entered(c, N, V, fs[k], g, r, x, gd, hd, hn)
  <2>1. \A j \in 1 .. Len(g.begins) :
         /\ g.begins[j].loops <= Len(g.loops)
         /\ \/ j \in 1 .. Len(fs[k].begins) /\ g.begins[j] = fs[k].begins[j]
            \/ j > Nb(N, gn, r) /\ g.begins[j].loops >= Len(g.loops)
    BY <1>7, <1>9, <1>14
  <2>2. g.ip = Goal(c, r)
    BY <1>1, <1>8
  <2> QED BY <1>4, <1>12, <1>16, <2>1, <2>2, EnterFrame
<1>18. /\ Goes_on(c, N, V, fs[k], g, x, hd, hn) /\ hd[Level(N, r) + 1] = x
       /\ Agree(gd, hd, Level(N, r))
  BY <1>17 DEF Entered, Agree
<1>19. b \in DOMAIN N /\ BodyOf(N, r, b)
  BY <1>1, <1>4, EnsureGoal DEF BodyOf
<1>20. Spared(c, N, i, p, r, Ats(X) \cup Ats(W), l)
  <2>1. \A j \in 1 .. p - 1 : Level(N, N[i].rescues[j]) \in Nat /\ Level(N, N[i].rescues[j]) <= l
    <3> SUFFICES ASSUME NEW j \in 1 .. p - 1
                 PROVE  Level(N, N[i].rescues[j]) \in Nat /\ Level(N, N[i].rescues[j]) <= l
      OBVIOUS
    <3>1. j \in 1 .. Len(N[r].rescues) /\ N[r].rescues[j] = N[i].rescues[j]
      BY <1>2, <1>4, AroundIs DEF Sub
    <3>2. Around(N, N[r].rescues[j], r)
      BY <1>4, <3>1, HandlerIs
    <3>3. Level(N, N[r].rescues[j]) \in Nat /\ Level(N, N[r].rescues[j]) <= Level(N, r)
      BY <1>4, <3>2, AroundIs
    <3> QED BY <1>1, <3>1, <3>3
  <2>2. \A j \in 1 .. Len(N[r].loops) : Level(N, N[r].loops[j]) \in Nat /\ Level(N, N[r].loops[j]) <= l
    <3> SUFFICES ASSUME NEW j \in 1 .. Len(N[r].loops)
                 PROVE  Level(N, N[r].loops[j]) \in Nat /\ Level(N, N[r].loops[j]) <= l
      OBVIOUS
    <3>1. Around(N, N[r].loops[j], r)
      BY <1>4, LoopIs
    <3> QED BY <1>1, <1>4, <3>1, AroundIs
  <2> QED BY <1>5, <2>1, <2>2 DEF Spared
<1>21. PICK Y, P : Y = {} /\ P = Ats(Within(N, X, l) \cup Y) \cup Ats(Within(N, W, l))
  OBVIOUS
<1>22. Parks(Within(N, X, l) \cup Y, Within(N, W, l), P)
  BY <1>21 DEF Parks
<1>23. Parking(c, N, Y, b, r, gd, hd, m, P)
  <2>1. Ats(Y) = {}
    BY <1>21 DEF Ats
  <2>2. ParksOK(c, N, Ats(Y), N[b].bodies, hd)
    BY <2>1 DEF ParksOK
  <2>3. hd[Level(N, r) + 1] > Dp(N, gd, r)
    BY <1>16, <1>18
  <2> QED BY <1>21, <2>2, <2>3 DEF Parking
<1>24. Life(c, N, b, hd, Least(m, Level(N, r)), k, Within(N, X, l) \cup Y, Within(N, W, l))
  BY <1>2, <1>3, <1>4, <1>5, <1>18, <1>19, <1>20, <1>22, <1>23, LifeEnter
<1>25. Within(N, X, l) \cup Y = Within(N, X, l)
  BY <1>21
<1>26. Least(m, Level(N, r)) \in Nat
  BY <1>1, <1>2, <1>5 DEF Least
<1>27. hd \in Ghost /\ hn \in Ghost
  BY <1>18 DEF Goes_on
<1>28. /\ CutTo(N, V, xs0, ws0, k, l, xs, ws) /\ Goes_on(c, N, V, fs[k], g, Len(ts), hd, hn)
       /\ Life(c, N, g.ip, hd, Least(m, l), k, Within(N, In(Range(xs0), k), l), Within(N, In(Range(ws0), k), l))
  BY <1>1, <1>8, <1>15, <1>18, <1>24, <1>25
<1>29. Least(m, l) \in Nat
  BY <1>1, <1>26
<1> QED BY <1>2, <1>28, <1>29, GoOn

\* The walks that an exception leaves are those of the bodies around its handler's region.
LEMMA UnwindSweeps ==
  ASSUME NEW c, NEW N, WellNested(c, N), NEW V, NEW fs, NEW st, NEW xs, NEW ws, NEW q, NEW k, NEW i,
         NEW gd, NEW gn, NEW m, Cell(c, N, V, fs, st, xs, ws, q, k, i, gd, gn, m),
         NEW p \in 1 .. Len(N[i].rescues), NEW r, Scope(N, i, p, r),
         NEW K, \A u \in Range(xs) :
           u \in K <=> u.at.on /\ (u.at.frame < k \/ (u.at.frame = k /\ u.at.rescues < p)),
         NEW J, \A u \in Range(ws) :
           u \in J <=> u.at.on /\ (u.at.frame < k \/ (u.at.frame = k /\ u.at.rescues < p))
  PROVE  CutTo(N, V, xs, ws, k, Level(N, r), Kept(xs, K), Kept(ws, J))
<1>1. PICK X, W, l, P : X = In(Range(xs), k) /\ W = In(Range(ws), k) /\ l = Level(N, r) /\ P = Ats(X) \cup Ats(W)
  OBVIOUS
<1>2. /\ WalksOK(N, V, Len(fs), xs, ws, q) /\ i \in DOMAIN N
      /\ ParksOK(c, N, P, N[i].bodies, gd) /\ Good(c, N, V, fs, st, xs, ws, q)
  BY <1>1, CellFields
<1>3. \A u \in Range(xs) \cup Range(ws) : u.at.on
  BY <1>2, AtsOn
<1>4. \A at \in P : at.rescues < p <=> Level(N, at.body) <= l
  BY <1>1, <1>2, KeptLevels DEF Scope
<1>5. \A u \in X \cup W : u.at.rescues < p <=> Level(N, u.at.body) <= l
  BY <1>1, <1>4 DEF Ats
<1>6. /\ \A u \in Range(xs) : u \in K <=> u.at.frame < k \/ (u.at.frame = k /\ Level(N, u.at.body) <= l)
      /\ \A u \in Range(ws) : u \in J <=> u.at.frame < k \/ (u.at.frame = k /\ Level(N, u.at.body) <= l)
  BY <1>1, <1>3, <1>5 DEF In
<1>7. CutTo(N, V, xs, ws, k, l, Kept(xs, K), Kept(ws, J))
  BY <1>2, <1>6, KeptWalks
<1> QED BY <1>1, <1>7

\* A frame below another has its call behind it.
LEMMA CallerIs ==
  ASSUME NEW c, NEW N, WellNested(c, N), NEW V, NEW fs, NEW st, NEW xs, NEW ws, NEW q,
         Good(c, N, V, fs, st, xs, ws, q), NEW k \in 1 .. Len(fs) - 1, NEW i, i = fs[k].ip
  PROVE  /\ i - 1 \in DOMAIN N /\ i \in DOMAIN N /\ c[i].op # Unnests
         /\ N[i].rescues = N[i - 1].rescues /\ N[i].bodies = N[i - 1].bodies
         /\ N[i].depth = N[i - 1].depth + 1
<1>1. i - 1 \in DOMAIN N /\ c[i - 1].op = "Call"
  BY DEF Good, CallsOK
<1>2. PICK a : a = i - 1
  OBVIOUS
<1>3. a \in DOMAIN N /\ c[a].op = "Call" /\ a \in Nat
  BY <1>1, <1>2, PointIs
<1>4. Goes(c, N, a) /\ Jumps(c, N, a)
  BY <1>3 DEF WellNested
<1>5. Is(N, a + 1, Point(N[a].entry, N[a].rescues, N[a].loops, N[a].bodies, N[a].begins, N[a].depth + 1))
  BY <1>3, <1>4 DEF Goes
<1>6. c[a + 1].op # Unnests
  BY <1>3, <1>4 DEF Jumps
<1>7. a + 1 = i
  <2>1. k \in 1 .. Len(fs) /\ fs \in Seq(FrameT(V))
    BY DEF Good
  <2>2. fs[k] \in FrameT(V)
    BY <2>1
  <2>3. i \in Int
    BY <2>2, FrameFields
  <2> QED BY <1>2, <2>3
<1>8. /\ a + 1 \in DOMAIN N /\ N[a + 1].rescues = N[a].rescues /\ N[a + 1].bodies = N[a].bodies
      /\ N[a + 1].depth = N[a].depth + 1
  BY <1>5, PointFields
<1> QED BY <1>2, <1>3, <1>6, <1>7, <1>8

\* The operands under every handler of every frame.
Deep(fs, s) == \A k \in 1 .. Len(fs) : \A j \in 1 .. Len(fs[k].rescues) : fs[k].rescues[j].depth <= Len(s)

\* Those under the handlers of the top frame are enough.
LEMMA DeepIs ==
  ASSUME NEW c, NEW N, WellNested(c, N), NEW V, NEW fs, NEW st, NEW xs, NEW ws, NEW q, NEW i,
         NEW gd, NEW gn, NEW m, Cell(c, N, V, fs, st, xs, ws, q, Len(fs), i, gd, gn, m), c[i].op # Unnests,
         NEW s, Len(s) \in Nat, Under(N, i, gd, fs[Len(fs)].base, s)
  PROVE  Deep(fs, s)
<1>1. PICK n : n = Len(fs)
  OBVIOUS
<1>2. /\ Good(c, N, V, fs, st, xs, ws, q) /\ fs \in Seq(FrameT(V)) /\ n \in Nat /\ n \in 1 .. n
      /\ i \in DOMAIN N
  BY <1>1, CellFields
<1>3. \A j \in 1 .. Len(fs[n].rescues) : fs[n].rescues[j].depth <= Len(s)
  <2> SUFFICES ASSUME NEW j \in 1 .. Len(fs[n].rescues)
               PROVE  fs[n].rescues[j].depth <= Len(s)
    OBVIOUS
  <2>1. Len(fs[n].rescues) = Len(N[i].rescues)
    BY <1>1 DEF Cell, Shape
  <2>2. j \in 1 .. Len(N[i].rescues)
    BY <2>1
  <2>3. PICK r : Scope(N, i, j, r)
    BY DEF Scope
  <2>4. HandlerOK(c, N, fs[Len(fs)].begins, fs[Len(fs)].rescues[j], r, gd, gn)
    BY <2>2, <2>3, HandlerAt
  <2>5. fs[n].rescues[j].depth = Dp(N, gd, r)
    BY <1>1, <2>4 DEF HandlerOK
  <2> QED BY <2>2, <2>3, <2>5 DEF Under, Scope
<1>4. \A k \in 1 .. n - 1 : \A j \in 1 .. Len(fs[k].rescues) : fs[k].rescues[j].depth <= Len(s)
  <2> SUFFICES ASSUME NEW k \in 1 .. n - 1, NEW j \in 1 .. Len(fs[k].rescues)
               PROVE  fs[k].rescues[j].depth <= Len(s)
    OBVIOUS
  <2>1. PICK e, a : e = fs[k].ip /\ a = e - 1
    OBVIOUS
  <2>2. k \in 1 .. Len(fs) /\ k + 1 \in 1 .. Len(fs) /\ k # Len(fs) /\ k \in Nat
    BY <1>1, <1>2
  <2>3. PICK hd, hn \in Ghost : \E y \in Nat : Cell(c, N, V, fs, st, xs, ws, q, k, e, hd, hn, y)
    BY <1>2, <2>1, <2>2, CellIs
  <2>4. PICK y \in Nat : Cell(c, N, V, fs, st, xs, ws, q, k, e, hd, hn, y)
    BY <2>3
  <2>5. /\ a \in DOMAIN N /\ e \in DOMAIN N /\ c[e].op # Unnests
        /\ N[e].rescues = N[a].rescues /\ N[e].bodies = N[a].bodies
        /\ N[e].depth = N[a].depth + 1
    <3>1. k \in 1 .. Len(fs) - 1 /\ e = fs[k].ip
      BY <1>1, <2>1
    <3> QED BY <1>2, <2>1, <3>1, CallerIs
  <2>6. /\ Len(fs[k].rescues) = Len(N[e].rescues) /\ LevelsOK(N, N[e].bodies, fs[k].base, hd, hn)
        /\ fs[k + 1].base + 1 = Dp(N, hd, e)
    BY <2>2, <2>4, <2>5 DEF Cell, Shape, Height
  <2>7. j \in 1 .. Len(N[e].rescues)
    BY <2>6
  <2>8. PICK r : Scope(N, e, j, r)
    BY DEF Scope
  <2>9. HandlerOK(c, N, fs[k].begins, fs[k].rescues[j], r, hd, hn)
    BY <2>4, <2>7, <2>8, HandlerAt
  <2>10. fs[k].rescues[j].depth = Dp(N, hd, r)
    BY <2>9 DEF HandlerOK
  <2>11. Dp(N, hd, r) \in Nat /\ Dp(N, hd, r) <= Dp(N, hd, a)
    <3>1. LevelsOK(N, N[a].bodies, fs[k].base, hd, hn) /\ j \in 1 .. Len(N[a].rescues) /\ r = N[a].rescues[j]
      BY <2>5, <2>6, <2>7, <2>8 DEF Scope
    <3> QED BY <2>5, <3>1, InScope
  <2>12. Dp(N, hd, a) = fs[k + 1].base
    <3>1. fs[k + 1] \in FrameT(V)
      BY <1>2, <2>2
    <3>2. fs[k + 1].base \in Nat
      BY <3>1, FrameFields
    <3>3. hd[Level(N, a)] \in Nat /\ N[a].depth \in Nat /\ Level(N, a) = Level(N, e)
      <4>1. Level(N, a) \in Nat /\ N[a].depth \in Nat
        BY <2>5, PointIs
      <4> QED BY <2>5, <4>1, GhostIs DEF Level
    <3>4. PICK b, z, x : b = fs[k + 1].base /\ z = hd[Level(N, a)] /\ x = N[a].depth
      OBVIOUS
    <3>5. b + 1 = z + (x + 1) /\ b \in Nat /\ z \in Nat /\ x \in Nat
      BY <2>5, <2>6, <3>2, <3>3, <3>4 DEF Dp
    <3>6. b = z + x
      BY <3>5
    <3> QED BY <3>4, <3>6 DEF Dp
  <2>13. fs[k + 1].base <= fs[n].base
    <3>1. n \in 1 .. Len(fs) /\ k + 1 <= n
      BY <1>1, <1>2, <2>2
    <3> QED BY <1>2, <2>2, <3>1 DEF Good, CallsOK
  <2>14. fs[n].base <= Len(s)
    BY <1>1 DEF Under
  <2>15. fs[n].base \in Nat
    <3>1. fs[n] \in FrameT(V)
      BY <1>1, <1>2
    <3> QED BY <3>1, FrameFields
  <2>16. fs[k + 1].base \in Nat
    <3>1. fs[k + 1] \in FrameT(V)
      BY <1>2, <2>2
    <3> QED BY <3>1, FrameFields
  <2>17. PICK x, o, z : x = Dp(N, hd, r) /\ o = fs[k + 1].base /\ z = fs[n].base
    OBVIOUS
  <2>18. x \in Nat /\ x <= o /\ o <= z /\ z <= Len(s) /\ o \in Nat /\ z \in Nat
    BY <2>11, <2>12, <2>13, <2>14, <2>15, <2>16, <2>17
  <2>19. x <= Len(s)
    BY <2>18
  <2> QED BY <2>10, <2>17, <2>19
<1> QED BY <1>1, <1>2, <1>3, <1>4 DEF Deep

\* The frame e as g, where its handler leads.
Catches(e, g, h, p, D) ==
  g = [e EXCEPT !.ip = h.ip, !.rescues = Upto(@, p - 1), !.loops = Upto(@, h.loopAt),
                !.begins = Upto(@, h.beginAt) \o D]

\* It is a frame.
LEMMA CaughtFrame ==
  ASSUME NEW V, NEW f, NEW e \in FrameT(V), SameStacks(f, e), NEW p \in Nat \ {0}, NEW h \in HandlerT(V),
         NEW D \in Seq(BeginT(V)), NEW g, Catches(e, g, h, p, D)
  PROVE  g \in FrameT(V) /\ Caught(f, g, h, p, D)
<1>1. /\ e.rescues \in Seq(HandlerT(V)) /\ e.loops \in Seq(LoopT) /\ e.begins \in Seq(BeginT(V))
  BY FrameFields
<1>2. h.ip \in Int /\ h.loopAt \in Nat /\ h.beginAt \in Nat
  BY DEF HandlerT
<1>3. PICK y, a, R, Ls, B : /\ y = p - 1 /\ a = h.ip /\ R = Upto(e.rescues, y) /\ Ls = Upto(e.loops, h.loopAt)
                            /\ B = Upto(e.begins, h.beginAt) \o D
  OBVIOUS
<1>4. y \in Nat
  BY <1>3
<1>5. R \in Seq(HandlerT(V)) /\ Ls \in Seq(LoopT)
  BY <1>1, <1>2, <1>3, <1>4, UptoSeq
<1>6. B \in Seq(BeginT(V))
  <2>1. Upto(e.begins, h.beginAt) \in Seq(BeginT(V))
    BY <1>1, <1>2, UptoSeq
  <2> QED BY <1>3, <2>1, ConcatProperties
<1>7. g = [e EXCEPT !.ip = a, !.rescues = R, !.loops = Ls, !.begins = B]
  BY <1>3 DEF Catches
<1>8. g \in FrameT(V) /\ g.ip = a /\ g.rescues = R /\ g.loops = Ls /\ g.begins = B
      /\ g.base = e.base /\ g.entry = e.entry
  BY <1>2, <1>3, <1>5, <1>6, <1>7 DEF FrameT
<1> QED BY <1>3, <1>8 DEF Caught, SameStacks

\* unwind_with_exception finds the handler h: the p-th of the k-th frame.
Unwinds(hs, ss, k, p, h, e, exc) ==
  /\ h = hs[k].rescues[p] /\ e.loops = h.loopAt
  /\ frames' = Append(Upto(hs, k - 1),
       [hs[k] EXCEPT !.ip = h.ip, !.rescues = Upto(@, p - 1), !.loops = Upto(@, h.loopAt),
                     !.begins = Upto(@, h.beginAt) \o (IF h.ens THEN <<e>> ELSE <<>>)])
  /\ stack' = Upto(ss, h.depth) \o (IF h.ens THEN <<exc>> ELSE <<>>)
  /\ seq' = seq

\* It sweeps the walks that it leaves the bodies of.
Encloses(w, k, p) == w.at.on /\ (w.at.frame < k \/ (w.at.frame = k /\ w.at.rescues < p))
Sweeps(k, p) ==
  /\ xfers' = Kept(xfers, {w \in Range(xfers) : Encloses(w, k, p)})
  /\ walks' = Kept(walks, {w \in Range(walks) : Encloses(w, k, p)})

\* The frame goes on there.
LEMMA UnwindCaught ==
  ASSUME NEW N, WellNested(code, N), NEW V, NEW k, NEW i, NEW gd, NEW gn, NEW m,
         Cell(code, N, V, frames, stack, xfers, walks, seq, k, i, gd, gn, m),
         NEW hs, Handed(V, frames, hs), NEW ss \in Seq(V), Deep(frames, ss),
         NEW exc \in V, NEW p \in 1 .. Len(N[i].rescues), NEW h, NEW e \in BeginT(V),
         Unwinds(hs, ss, k, p, h, e, exc), Sweeps(k, p)
  PROVE  Good(code, N, V, frames', stack', xfers', walks', seq')
<1>0. /\ h = hs[k].rescues[p] /\ e.loops = h.loopAt
      /\ frames' = Append(Upto(hs, k - 1),
           [hs[k] EXCEPT !.ip = h.ip, !.rescues = Upto(@, p - 1), !.loops = Upto(@, h.loopAt),
                         !.begins = Upto(@, h.beginAt) \o (IF h.ens THEN <<e>> ELSE <<>>)])
      /\ stack' = Upto(ss, h.depth) \o (IF h.ens THEN <<exc>> ELSE <<>>)
      /\ seq' = seq
  BY DEF Unwinds
<1>1. PICK f, d, r : f = frames[k] /\ d = h.depth /\ Scope(N, i, p, r)
  BY DEF Scope
<1>2. /\ frames \in Seq(FrameT(V)) /\ frames # <<>> /\ k \in 1 .. Len(frames) /\ k \in Nat
      /\ frames[k] \in FrameT(V)
  BY CellFields
<1>3. hs \in Seq(FrameT(V)) /\ Len(hs) = Len(frames)
  BY DEF Handed
<1>4. hs[k] \in FrameT(V) /\ SameStacks(f, hs[k])
  <2>1. hs[k] \in FrameT(V)
    BY <1>2, <1>3
  <2>2. CASE k = Len(frames)
    BY <1>1, <2>1, <2>2 DEF Handed
  <2>3. CASE k # Len(frames)
    <3>1. k \in 1 .. Len(frames) - 1
      BY <1>2, <2>3
    <3>2. hs[k] = f
      BY <1>1, <3>1 DEF Handed
    <3> QED BY <2>1, <3>2 DEF SameStacks
  <2> QED BY <2>2, <2>3
<1>5. h = f.rescues[p]
  BY <1>0, <1>4 DEF SameStacks
<1>6. /\ HandlerOK(code, N, f.begins, h, r, gd, gn) /\ h \in HandlerT(V) /\ r \in DOMAIN N
      /\ Dp(N, gd, r) \in Nat /\ p <= Len(f.rescues) /\ p \in Nat \ {0}
  <2>1. /\ HandlerOK(code, N, frames[k].begins, frames[k].rescues[p], r, gd, gn)
        /\ frames[k].rescues[p] \in HandlerT(V) /\ r \in DOMAIN N
        /\ Dp(N, gd, r) \in Nat /\ p <= Len(frames[k].rescues) /\ p \in Nat \ {0}
    BY <1>1, HandlerAt
  <2> QED BY <1>1, <1>5, <2>1
<1>7. (h.ens <=> Ens(code, r)) /\ d = Dp(N, gd, r) /\ d \in Nat
  BY <1>1, <1>6 DEF HandlerOK
<1>8. PICK v : v = Upto(ss, d)
  OBVIOUS
<1>9. v \in Seq(V) /\ Len(v) = d
  <2>1. Len(f.rescues) \in Nat
    BY <1>1, <1>2, FrameFields
  <2>2. p \in 1 .. Len(frames[k].rescues)
    BY <1>1, <1>6, <2>1
  <2>3. frames[k].rescues[p].depth <= Len(ss)
    BY <1>2, <2>2 DEF Deep
  <2>4. d <= Len(ss)
    BY <1>1, <1>5, <2>3
  <2> QED BY <1>7, <1>8, <2>4, LenProperties, UptoSeq
<1>10. CutTo(N, V, xfers, walks, k, Level(N, r), xfers', walks')
  <2>1. PICK K, J : K = {w \in Range(xfers) : Encloses(w, k, p)} /\ J = {w \in Range(walks) : Encloses(w, k, p)}
    OBVIOUS
  <2>2. \A u \in Range(xfers) : u \in K <=> u.at.on /\ (u.at.frame < k \/ (u.at.frame = k /\ u.at.rescues < p))
    BY <2>1 DEF Encloses
  <2>3. \A u \in Range(walks) : u \in J <=> u.at.on /\ (u.at.frame < k \/ (u.at.frame = k /\ u.at.rescues < p))
    BY <2>1 DEF Encloses
  <2>4. CutTo(N, V, xfers, walks, k, Level(N, r), Kept(xfers, K), Kept(walks, J))
    BY <1>1, <2>2, <2>3, UnwindSweeps
  <2> QED BY <2>1, <2>4 DEF Sweeps
<1>11. PICK D, g : D = (IF h.ens THEN <<e>> ELSE <<>>) /\ Catches(hs[k], g, h, p, D)
  BY ZenonT(30) DEF Catches
<1>12. frames' = Append(Upto(hs, k - 1), g)
  BY <1>0, <1>11 DEF Catches
<1>13. Topped(frames, k, g, frames')
  <2>1. Topped(hs, k, g, frames')
    BY <1>12 DEF Topped
  <2> QED BY <1>2, <2>1, HandedTopped
<1>14. D \in Seq(BeginT(V))
  BY <1>11
<1>15. g \in FrameT(V) /\ Caught(f, g, h, p, D)
  BY <1>4, <1>6, <1>11, <1>14, CaughtFrame
<1>16. Caught(frames[k], g, frames[k].rescues[p], p, D)
  BY <1>1, <1>5, <1>15
<1>17. PICK xs, ws, gs, us : xs = xfers' /\ ws = walks' /\ gs = frames' /\ us = stack'
  OBVIOUS
<1>18. CutTo(N, V, xfers, walks, k, Level(N, r), xs, ws) /\ Topped(frames, k, g, gs)
  BY <1>10, <1>13, <1>17
<1>19. /\ WellNested(code, N) /\ Cell(code, N, V, frames, stack, xfers, walks, seq, k, i, gd, gn, m)
       /\ p \in 1 .. Len(N[i].rescues) /\ Scope(N, i, p, r) /\ g \in FrameT(V)
  BY <1>1, <1>15
<1>20. CASE h.ens
  <2>1. Ens(code, r) /\ D = <<e>>
    BY <1>7, <1>11, <1>20
  <2>2. stack' = v \o <<exc>>
    BY <1>0, <1>1, <1>8, <1>20, ZenonT(30)
  <2>3. PICK ts : ts = v \o <<exc>>
    OBVIOUS
  <2>4. ts \in Seq(V) /\ Len(ts) = Len(v) + 1
    BY <1>9, <2>3, OneMore
  <2>5. stack' \in Seq(V) /\ Len(stack') = Dp(N, gd, r) + 1
    BY <1>7, <1>9, <2>2, <2>3, <2>4, SMTT(30)
  <2>6. e.loops = frames[k].rescues[p].loopAt
    BY <1>0, <1>1, <1>5
  <2>7. Caught(frames[k], g, frames[k].rescues[p], p, <<e>>)
    BY <1>16, <2>1
  <2>8. us \in Seq(V) /\ Len(us) = Dp(N, gd, r) + 1 /\ Ens(code, r)
    BY <1>17, <2>1, <2>5
  <2>9. e \in BeginT(V)
    OBVIOUS
  <2>10. Good(code, N, V, gs, us, xs, ws, seq)
    BY ONLY <1>18, <1>19, <2>6, <2>7, <2>8, <2>9, Ensured
  <2> QED BY <1>0, <1>17, <2>10, ZenonT(30)
<1>21. CASE ~ h.ens
  <2>1. ~ Ens(code, r) /\ D = <<>>
    BY <1>7, <1>11, <1>21
  <2>2. stack' = v
    <3>1. stack' = v \o <<>>
      BY <1>0, <1>1, <1>8, <1>21
    <3> QED BY <1>9, <3>1, ConcatEmptySeq
  <2>3. stack' \in Seq(V) /\ Len(stack') = Dp(N, gd, r)
    BY <1>7, <1>9, <2>2
  <2>4. Caught(frames[k], g, frames[k].rescues[p], p, <<>>)
    BY <1>16, <2>1
  <2>5. us \in Seq(V) /\ Len(us) = Dp(N, gd, r) /\ ~ Ens(code, r)
    BY <1>17, <2>1, <2>3
  <2>6. Good(code, N, V, gs, us, xs, ws, seq)
    BY ONLY <1>18, <1>19, <2>4, <2>5, Rescued
  <2> QED BY <1>0, <1>17, <2>6
<1> QED BY <1>20, <1>21

\* What holds in every state: `$!` and, until an exception leaves the program, the frames are good.
Sound(N, V) ==
  /\ bang \in V
  /\ \/ status \in {"running", "done"} /\ Good(code, N, V, frames, stack, xfers, walks, seq)
     \/ status = "uncaught" /\ xfers = <<>> /\ walks = <<>>

\* unwind_with_exception.
LEMMA UnwindGood ==
  ASSUME NEW N, WellNested(code, N), NEW V, Good(code, N, V, frames, stack, xfers, walks, seq),
         Instr.op # Unnests, status = "running", bang \in V, NEW exc \in V,
         NEW hs, Handed(V, frames, hs), NEW ss \in Seq(V), Deep(frames, ss), Unwind(exc, hs, ss)
  PROVE  Sound(N, V)'
<1>1. PICK H : H = {q \in HandlersOf(hs, 1) : LET h == hs[q[1]].rescues[q[2]] IN h.ens \/ Matches(h.filter, exc)}
  BY ZenonT(30)
<1>2. CASE H = {}
  <2>1. status' = "uncaught" /\ xfers' = <<>> /\ walks' = <<>> /\ bang' = bang
    BY <1>1, <1>2, ZenonT(30) DEF Unwind
  <2> QED BY <2>1 DEF Sound
<1>3. CASE H # {}
  <2>1. H \subseteq HandlersOf(hs, 1)
    BY <1>1
  <2>2. /\ frames \in Seq(FrameT(V)) /\ frames # <<>> /\ Len(frames) \in Nat
        /\ hs \in Seq(FrameT(V)) /\ Len(hs) = Len(frames)
    <3>1. hs \in Seq(FrameT(V)) /\ Len(hs) = Len(frames)
      BY DEF Handed
    <3> QED BY <3>1, LenProperties DEF Good
  <2>3. PICK k \in 1 .. Len(hs) : \E j \in 1 .. Len(hs[k].rescues) : Innermost(H) = <<k, j>> /\ <<k, j>> \in H
    <3>1. PICK lo : lo = 1
      OBVIOUS
    <3>2. lo \in Nat \ {0} /\ H \subseteq HandlersOf(hs, lo)
      BY <2>1, <3>1
    <3>3. \E k \in lo .. Len(hs) : \E j \in 1 .. Len(hs[k].rescues) : Innermost(H) = <<k, j>> /\ <<k, j>> \in H
      BY <1>3, <2>2, <3>2, HandlersIn
    <3> QED BY <3>1, <3>3
  <2>4. PICK p \in 1 .. Len(hs[k].rescues) : Innermost(H) = <<k, p>> /\ <<k, p>> \in H
    BY <2>3
  <2>5. PICK i : i = frames[k].ip
    OBVIOUS
  <2>6. k \in 1 .. Len(frames) /\ k \in Nat
    BY <2>2, <2>3
  <2>7. PICK gd, gn \in Ghost : \E m \in Nat : Cell(code, N, V, frames, stack, xfers, walks, seq, k, i, gd, gn, m)
    BY <2>5, <2>6, CellIs
  <2>8. PICK m \in Nat : Cell(code, N, V, frames, stack, xfers, walks, seq, k, i, gd, gn, m)
    BY <2>7
  <2>9. code[i].op # Unnests
    <3>1. CASE k = Len(frames)
      BY <2>5, <3>1 DEF Instr, Top, Peek
    <3>2. CASE k # Len(frames)
      <4>1. k \in 1 .. Len(frames) - 1
        BY <2>2, <2>6, <3>2
      <4> QED BY <2>5, <4>1, CallerIs
    <3> QED BY <3>1, <3>2
  <2>10. hs[k].rescues = frames[k].rescues
    <3>1. CASE k = Len(frames)
      BY <3>1 DEF Handed, SameStacks
    <3>2. CASE k # Len(frames)
      <4>1. k \in 1 .. Len(frames) - 1
        BY <2>2, <2>6, <3>2
      <4>2. hs[k] = frames[k]
        BY <4>1 DEF Handed
      <4> QED BY <4>2
    <3> QED BY <3>1, <3>2
  <2>11. p \in 1 .. Len(N[i].rescues)
    <3>1. Len(frames[k].rescues) = Len(N[i].rescues)
      BY <2>8, <2>9 DEF Cell, Shape
    <3> QED BY <2>10, <3>1
  <2>12. PICK h, f, e : /\ h = hs[k].rescues[p] /\ f = hs[k]
                        /\ e = [rescues |-> p - 1, loops |-> h.loopAt,
                                bang |-> IF h.beginAt < Len(f.begins) THEN f.begins[h.beginAt + 1].bang ELSE bang]
    OBVIOUS
  <2>13. f \in FrameT(V) /\ h \in HandlerT(V)
    <3>1. f \in FrameT(V)
      BY <2>2, <2>3, <2>12
    <3>2. f.rescues \in Seq(HandlerT(V))
      BY <3>1, FrameFields
    <3> QED BY <2>4, <2>12, <3>1, <3>2
  <2>14. e \in BeginT(V) /\ e.loops = h.loopAt
    <3>1. h.loopAt \in Nat /\ h.beginAt \in Nat
      BY <2>13 DEF HandlerT
    <3>2. f.begins \in Seq(BeginT(V)) /\ Len(f.begins) \in Nat
      BY <2>13, FrameFields
    <3>3. ASSUME h.beginAt < Len(f.begins) PROVE f.begins[h.beginAt + 1].bang \in V
      <4>1. h.beginAt + 1 \in 1 .. Len(f.begins)
        BY <3>1, <3>2, <3>3
      <4>2. f.begins[h.beginAt + 1] \in BeginT(V)
        BY <3>2, <4>1
      <4> QED BY <4>2 DEF BeginT
    <3>4. PICK b : b = IF h.beginAt < Len(f.begins) THEN f.begins[h.beginAt + 1].bang ELSE bang
      OBVIOUS
    <3>5. b \in V
      BY <3>3, <3>4
    <3>6. PICK x, y : x = p - 1 /\ y = h.loopAt
      OBVIOUS
    <3>7. x \in Nat /\ y \in Nat
      BY <2>4, <3>1, <3>6
    <3>8. e = [rescues |-> x, loops |-> y, bang |-> b]
      BY <2>12, <3>4, <3>6
    <3> QED BY <3>5, <3>6, <3>7, <3>8 DEF BeginT
  <2>15. Innermost(H)[1] = k /\ Innermost(H)[2] = p
    BY <2>4
  <2>16. Unwinds(hs, ss, k, p, h, e, exc)
    BY <1>1, <1>3, <2>12, <2>14, <2>15, ZenonT(30) DEF Unwind, fixed, Unwinds
  <2>17. Sweeps(k, p)
    BY <1>1, <1>3, <2>15, ZenonT(30) DEF Unwind, Sweeps, Encloses
  <2>18. bang' = exc /\ status' = status /\ code' = code
    BY <1>1, <1>3, ZenonT(30) DEF Unwind, fixed
  <2>19. Good(code, N, V, frames', stack', xfers', walks', seq')
    BY <2>8, <2>11, <2>14, <2>16, <2>17, UnwindCaught
  <2> QED BY <2>18, <2>19 DEF Sound
<1> QED BY <1>2, <1>3

(***************************************************************************)
(* `$!` stays a value.                                                     *)
(***************************************************************************)
\* What a begin saved is one.
LEMMA SavedBang ==
  ASSUME NEW V, NEW f \in FrameT(V), NEW j \in 1 .. Len(f.begins)
  PROVE  f.begins[j].bang \in V
<1>1. f.begins \in Seq(BeginT(V))
  BY FrameFields
<1>2. f.begins[j] \in BeginT(V)
  BY <1>1
<1> QED BY <1>2 DEF BeginT

\* A transfer restores what a begin saved.
LEMMA TransferBang ==
  ASSUME NEW V, NEW hs \in Seq(FrameT(V)), hs # <<>>, bang \in V, NEW t, NEW others, NEW ss,
         ContinueTransfer(t, others, hs, ss)
  PROVE  bang' \in V
<1>1. PICK f, B : f = Peek(hs) /\ B = f.begins
  OBVIOUS
<1>2. f \in FrameT(V)
  BY <1>1, FrontSeq
<1>3. B \in Seq(BeginT(V)) /\ Len(B) \in Nat /\ DOMAIN B = 1 .. Len(B)
  BY <1>1, <1>2, FrameFields, LenProperties
<1>4. PICK T, y : T = {0} \cup {j \in DOMAIN B : B[j].loops <= t.loops} /\ y = Largest(T)
  OBVIOUS
<1>5. y \in Nat
  <2>1. T \subseteq Nat /\ T # {} /\ \A x \in T : x <= Len(B)
    BY <1>3, <1>4
  <2> QED BY <1>3, <1>4, <2>1, LargestIs
<1>6. bang' = bang \/ (y < Len(B) /\ bang' = B[y + 1].bang)
  BY <1>1, <1>4 DEF ContinueTransfer
<1>7. ASSUME y < Len(B) PROVE B[y + 1].bang \in V
  <2>1. y + 1 \in 1 .. Len(B)
    BY <1>3, <1>5, <1>7
  <2>2. B[y + 1] \in BeginT(V)
    BY <1>3, <2>1
  <2> QED BY <2>2 DEF BeginT
<1> QED BY <1>6, <1>7

\* So does popping frames.
LEMMA PopBang ==
  ASSUME NEW V, NEW hs \in Seq(FrameT(V)), bang \in V, NEW k \in Nat
  PROVE  BangAfterPop(hs, k) \in V
<1>1. PICK S : S = {j \in k + 1 .. Len(hs) : hs[j].begins # <<>>}
  OBVIOUS
<1>2. CASE S = {}
  BY <1>1, <1>2 DEF BangAfterPop
<1>3. CASE S # {}
  <2>1. PICK j : j = CHOOSE y \in S : \A x \in S : y <= x
    OBVIOUS
  <2>2. S \subseteq Nat
    BY <1>1, LenProperties
  <2>3. j \in S
    BY <1>3, <2>1, <2>2, SmallestIs
  <2>4. j \in 1 .. Len(hs) /\ hs[j].begins # <<>>
    BY <1>1, <2>3, LenProperties
  <2>5. hs[j] \in FrameT(V)
    BY <2>4
  <2>6. hs[j].begins \in Seq(BeginT(V))
    BY <2>5, FrameFields
  <2>7. 1 \in 1 .. Len(hs[j].begins)
    BY <2>4, <2>6, EmptySeq, LenProperties
  <2>8. hs[j].begins[1] \in BeginT(V)
    BY <2>6, <2>7
  <2>9. hs[j].begins[1].bang \in V
    BY <2>8 DEF BeginT
  <2> QED BY <1>1, <1>3, <2>1, <2>9 DEF BangAfterPop
<1> QED BY <1>2, <1>3

\* So does a return's walk.
LEMMA WalkBang ==
  ASSUME NEW V, NEW hs \in Seq(FrameT(V)), bang \in V, NEW w, w.target \in Nat \ {0}, NEW others, NEW ss,
         ContinueWalk(w, others, hs, ss)
  PROVE  bang' \in V
<1>1. PICK H : H = {q \in HandlersOf(hs, w.target) : hs[q[1]].rescues[q[2]].ens}
  OBVIOUS
<1>2. CASE H = {}
  <2>1. PICK k : k = w.target - 1
    OBVIOUS
  <2>2. k \in Nat
    BY <2>1
  <2>3. bang' = BangAfterPop(hs, k)
    BY <1>1, <1>2, <2>1, ZenonT(30) DEF ContinueWalk
  <2> QED BY <2>2, <2>3, PopBang
<1>3. CASE H # {}
  <2>1. PICK lo : lo = w.target
    OBVIOUS
  <2>2. lo \in Nat \ {0} /\ H \subseteq HandlersOf(hs, lo)
    BY <1>1, <2>1
  <2>3. PICK k \in lo .. Len(hs) : \E j \in 1 .. Len(hs[k].rescues) : Innermost(H) = <<k, j>> /\ <<k, j>> \in H
    BY <1>3, <2>2, HandlersIn, ZenonT(30)
  <2>4. Innermost(H)[1] = k
    BY <2>3
  <2>5. bang' = BangAfterPop(hs, k)
    BY <1>1, <1>3, <2>4, ZenonT(30) DEF ContinueWalk
  <2>6. k \in Nat
    BY <2>2, <2>3, LenProperties
  <2> QED BY <2>5, <2>6, PopBang
<1> QED BY <1>2, <1>3

(***************************************************************************)
(* The bytecodes keep the state sound.                                     *)
(***************************************************************************)
\* The instruction of the top frame.
LEMMA TopCell ==
  ASSUME NEW N, WellNested(code, N), NEW V, Good(code, N, V, frames, stack, xfers, walks, seq)
  PROVE  \E i \in DOMAIN N : \E gd, gn \in Ghost : \E m \in Nat :
           /\ Cell(code, N, V, frames, stack, xfers, walks, seq, Len(frames), i, gd, gn, m)
           /\ i = Top.ip /\ code[i] = Instr /\ Top = frames[Len(frames)]
<1>1. PICK n, i : n = Len(frames) /\ i = frames[n].ip
  OBVIOUS
<1>2. n \in 1 .. Len(frames)
  <2>1. frames \in Seq(FrameT(V)) /\ frames # <<>>
    BY DEF Good
  <2> QED BY <1>1, <2>1, EmptySeq, LenProperties
<1>3. PICK gd, gn \in Ghost : \E m \in Nat : Cell(code, N, V, frames, stack, xfers, walks, seq, n, i, gd, gn, m)
  BY <1>1, <1>2, CellIs
<1>4. PICK m \in Nat : Cell(code, N, V, frames, stack, xfers, walks, seq, n, i, gd, gn, m)
  BY <1>3
<1>5. i \in DOMAIN N
  BY <1>4, CellFields
<1>6. Top = frames[n] /\ code[i] = Instr /\ i = Top.ip
  BY <1>1 DEF Instr, Top, Peek
<1> QED BY <1>1, <1>4, <1>5, <1>6

\* Raise.
LEMMA RaiseGood ==
  ASSUME NEW N, WellNested(code, N), NEW V, RuntimeErr \in V,
         Good(code, N, V, frames, stack, xfers, walks, seq), bang \in V, RaiseOp
  PROVE  Sound(N, V)'
<1>1. PICK i \in DOMAIN N : \E gd, gn \in Ghost : \E m \in Nat :
        /\ Cell(code, N, V, frames, stack, xfers, walks, seq, Len(frames), i, gd, gn, m)
        /\ i = Top.ip /\ code[i] = Instr
  BY TopCell
<1>2. PICK gd, gn \in Ghost : \E m \in Nat :
        Cell(code, N, V, frames, stack, xfers, walks, seq, Len(frames), i, gd, gn, m) /\ code[i] = Instr
  BY <1>1
<1>3. PICK m \in Nat : Cell(code, N, V, frames, stack, xfers, walks, seq, Len(frames), i, gd, gn, m) /\ code[i] = Instr
  BY <1>2
<1>4. status = "running" /\ code[i].op = "Raise" /\ Instr.op # Unnests
  BY <1>3 DEF RaiseOp, At, Unnests
<1>5. Popping(N, i)
  BY <1>4 DEF WellNested, Jumps
<1>6. /\ Front(stack) \in Seq(V) /\ Peek(stack) \in V
      /\ Under(N, i, gd, frames[Len(frames)].base, Front(stack))
  BY <1>3, <1>5, PoppingUnder
<1>7. PICK ss, hs, e : /\ ss = Front(stack) /\ hs = Set(Past)
                       /\ e = IF Peek(stack) # NilValue THEN Peek(stack)
                              ELSE IF bang # NilValue THEN bang ELSE RuntimeErr
  OBVIOUS
<1>8. ss \in Seq(V) /\ e \in V /\ Len(ss) \in Nat
  BY <1>6, <1>7, LenProperties
<1>9. Handed(V, frames, hs)
  BY <1>7, HandedPast
<1>10. Deep(frames, ss)
  <2>1. code[i].op # Unnests /\ Under(N, i, gd, frames[Len(frames)].base, ss)
    BY <1>3, <1>4, <1>6, <1>7
  <2> QED BY <1>3, <1>8, <2>1, DeepIs
<1>11. Unwind(e, hs, ss)
  BY <1>7 DEF RaiseOp
<1> QED BY <1>4, <1>8, <1>9, <1>10, <1>11, UnwindGood

\* With an exception on the stack at the tail of a body, the handlers outside hold fewer operands.
LEMMA TailUnder ==
  ASSUME NEW c, NEW N, WellNested(c, N), NEW V, NEW fs, NEW st, NEW xs, NEW ws, NEW q, NEW i,
         NEW gd, NEW gn, NEW m, Cell(c, N, V, fs, st, xs, ws, q, Len(fs), i, gd, gn, m), c[i].op = "EndEnsure",
         gd[Level(N, i)] > gd[Level(N, i) - 1] + N[N[i].bodies[Level(N, i)]].depth
  PROVE  /\ st # <<>> /\ Front(st) \in Seq(V) /\ Peek(st) \in V
         /\ Under(N, i, gd, fs[Len(fs)].base, Front(st))
<1>1. /\ i \in DOMAIN N /\ gd \in Ghost /\ gn \in Ghost /\ LevelsOK(N, N[i].bodies, fs[Len(fs)].base, gd, gn)
      /\ st \in Seq(V) /\ Len(st) \in Nat
  BY CellFields
<1>2. PICK b, r, base : Closes(N, c, i, b, r) /\ base = fs[Len(fs)].base
  BY DEF Closes
<1>3. /\ Level(N, i) \in Nat \ {0} /\ r \in DOMAIN N
      /\ Level(N, r) = Level(N, i) - 1 /\ r = N[i].bodies[Level(N, i)]
      /\ N[i].rescues = N[r].rescues
  BY <1>1, <1>2, TailIs
<1>4. Level(N, i) \in 1 .. Len(N[i].bodies)
  BY <1>1, <1>3 DEF Level
<1>5. Around(N, r, i)
  BY <1>1, <1>3, <1>4, BodyIs
<1>6. PICK d, x, L : d = Dp(N, gd, r) /\ x = Len(st) /\ L = Level(N, i)
  OBVIOUS
<1>7. d \in Nat /\ base \in Nat /\ base <= d
  BY <1>1, <1>2, <1>5, <1>6, Below
<1>8. x = gd[L]
  <2>1. AtTail(N, i, gd, fs[Len(fs)], st)
    BY TailCell
  <2> QED BY <1>6, <2>1 DEF AtTail
<1>9. d < x
  <2>1. gd[L] > gd[L - 1] + N[r].depth
    BY <1>3, <1>6
  <2>2. d = gd[L - 1] + N[r].depth
    BY <1>3, <1>6 DEF Dp
  <2> QED BY <1>7, <1>8, <2>1, <2>2
<1>10. st # <<>>
  BY <1>1, <1>6, <1>7, <1>9
<1>11. /\ Front(st) \in Seq(V) /\ Len(Front(st)) = x - 1 /\ Peek(st) \in V
  BY <1>1, <1>6, <1>10, FrontSeq
<1>12. \A j \in 1 .. Len(N[i].rescues) : Dp(N, gd, N[i].rescues[j]) \in Nat /\ Dp(N, gd, N[i].rescues[j]) <= d
  <2>1. LevelsOK(N, N[r].bodies, base, gd, gn)
    <3>1. Sub(N[r].bodies, N[i].bodies) /\ Len(N[r].bodies) \in Nat /\ Len(N[i].bodies) \in Nat
      BY <1>1, <1>3, <1>5, AroundIs, PointIs
    <3> QED BY <1>1, <1>2, <3>1, LevelsPrefix
  <2>2. \A j \in 1 .. Len(N[r].rescues) :
          Dp(N, gd, N[r].rescues[j]) \in Nat /\ Dp(N, gd, N[r].rescues[j]) <= Dp(N, gd, r)
    BY <1>1, <1>3, <2>1, InScope
  <2> QED BY <1>3, <1>6, <2>2
<1>13. Under(N, i, gd, base, Front(st))
  <2>1. x \in Nat /\ base <= x - 1 /\ d <= x - 1
    BY <1>1, <1>6, <1>7, <1>9
  <2>2. \A j \in 1 .. Len(N[i].rescues) : Dp(N, gd, N[i].rescues[j]) <= x - 1
    BY <1>7, <1>12, <2>1
  <2> QED BY <1>11, <2>1, <2>2 DEF Under
<1> QED BY <1>2, <1>10, <1>11, <1>13

\* EndEnsure.
LEMMA EndEnsureGood ==
  ASSUME NEW N, WellNested(code, N), NEW V,
         Good(code, N, V, frames, stack, xfers, walks, seq), bang \in V, EndEnsure
  PROVE  Sound(N, V)'
<1>1. PICK i \in DOMAIN N : \E gd, gn \in Ghost : \E m \in Nat :
        /\ Cell(code, N, V, frames, stack, xfers, walks, seq, Len(frames), i, gd, gn, m)
        /\ i = Top.ip /\ code[i] = Instr
  BY TopCell
<1>2. PICK gd, gn \in Ghost : \E m \in Nat :
        Cell(code, N, V, frames, stack, xfers, walks, seq, Len(frames), i, gd, gn, m) /\ code[i] = Instr
  BY <1>1
<1>3. PICK m \in Nat : Cell(code, N, V, frames, stack, xfers, walks, seq, Len(frames), i, gd, gn, m) /\ code[i] = Instr
  BY <1>2
<1>4. status = "running" /\ code[i].op = "EndEnsure" /\ Instr.op # Unnests
  BY <1>3 DEF EndEnsure, At, Unnests
<1>5. PICK ox, ow : /\ ox \in BOOLEAN /\ (ox <=> WaitsHere(xfers, Len(frames), frames[Len(frames)], stack))
                    /\ ow \in BOOLEAN /\ (ow <=> WaitsHere(walks, Len(frames), frames[Len(frames)], stack))
  OBVIOUS
<1>6. IF ox /\ (ow => Peek(xfers).at.seq > Peek(walks).at.seq)
      THEN /\ ContinueTransfer([Peek(xfers) EXCEPT !.at = Moving], Front(xfers), Set(Past), stack)
           /\ UNCHANGED <<fixed, walks, trace, left, status>>
      ELSE IF ow
      THEN /\ ContinueWalk([Peek(walks) EXCEPT !.at = Moving], Front(walks), Set(Past), stack)
           /\ UNCHANGED <<fixed, xfers, trace, left, status>>
      ELSE IF stack # <<>> THEN Unwind(Peek(stack), Set(Past), Front(stack))
      ELSE status' = "ice" /\ Quiet /\ UNCHANGED <<frames, stack, bang, trace, left>>
  BY <1>5 DEF EndEnsure, WaitsHere, Top, Peek
<1>7. /\ Handed(V, frames, Set(Past)) /\ frames \in Seq(FrameT(V)) /\ frames # <<>> /\ Len(frames) \in Nat \ {0}
      /\ WalksOK(N, V, Len(frames), xfers, walks, seq)
  <2>1. Handed(V, frames, Set(Past))
    BY HandedPast
  <2>2. /\ frames \in Seq(FrameT(V)) /\ frames # <<>> /\ Len(frames) \in Nat /\ Len(frames) \in 1 .. Len(frames)
        /\ WalksOK(N, V, Len(frames), xfers, walks, seq)
    BY <1>3, CellFields
  <2> QED BY <2>1, <2>2
<1>8. Set(Past) \in Seq(FrameT(V)) /\ Set(Past) # <<>>
  <2>1. PICK hs : hs = Set(Past)
    OBVIOUS
  <2>2. hs \in Seq(FrameT(V)) /\ Len(hs) = Len(frames)
    BY <1>7, <2>1 DEF Handed
  <2>3. hs # <<>>
    BY <1>7, <2>2
  <2> QED BY <2>1, <2>2, <2>3
<1>9. CASE ox /\ (ow => Peek(xfers).at.seq > Peek(walks).at.seq)
  <2>1. /\ ContinueTransfer([Peek(xfers) EXCEPT !.at = Moving], Front(xfers), Set(Past), stack)
        /\ code' = code /\ walks' = walks /\ status' = status
    BY <1>6, <1>9 DEF fixed
  <2>2. WaitsHere(xfers, Len(frames), frames[Len(frames)], stack)
    BY <1>5, <1>9
  <2>3. WaitsHere(walks, Len(frames), frames[Len(frames)], stack) => Peek(xfers).at.seq > Peek(walks).at.seq
    BY <1>5, <1>9
  <2>4. Peek(xfers) \in In(Range(xfers), Len(frames)) /\ Level(N, Peek(xfers).at.body) = Level(N, i)
    BY <1>3, <1>4, <2>2, <2>3, ResumesXfer
  <2>5. Resumes(N, xfers, Len(frames), i, Peek(xfers))
    BY <2>2, <2>4 DEF Resumes, WaitsHere
  <2>6. Good(code, N, V, frames', stack', xfers', walks', seq')
    BY <1>3, <1>4, <2>1, <2>5, ResumeTransferGood
  <2>7. bang' \in V
    BY <1>8, <2>1, TransferBang
  <2> QED BY <1>4, <2>1, <2>6, <2>7 DEF Sound
<1>10. CASE ~ (ox /\ (ow => Peek(xfers).at.seq > Peek(walks).at.seq)) /\ ow
  <2>1. /\ ContinueWalk([Peek(walks) EXCEPT !.at = Moving], Front(walks), Set(Past), stack)
        /\ code' = code /\ xfers' = xfers /\ status' = status
    BY <1>6, <1>10 DEF fixed
  <2>2. WaitsHere(walks, Len(frames), frames[Len(frames)], stack)
    BY <1>5, <1>10
  <2>3. WaitsHere(xfers, Len(frames), frames[Len(frames)], stack) => ~ (Peek(xfers).at.seq > Peek(walks).at.seq)
    BY <1>5, <1>10
  <2>4. Peek(walks) \in In(Range(walks), Len(frames)) /\ Level(N, Peek(walks).at.body) = Level(N, i)
    BY <1>3, <1>4, <2>2, <2>3, ResumesWalk
  <2>5. Resumes(N, walks, Len(frames), i, Peek(walks))
    BY <2>2, <2>4 DEF Resumes, WaitsHere
  <2>6. Good(code, N, V, frames', stack', xfers', walks', seq')
    BY <1>3, <1>4, <2>1, <2>5, ResumeWalkGood
  <2>7. bang' \in V
    <3>1. PICK w : w = [Peek(walks) EXCEPT !.at = Moving]
      OBVIOUS
    <3>2. w.target = Len(frames)
      <4>1. Life(code, N, i, gd, m, Len(frames), In(Range(xfers), Len(frames)), In(Range(walks), Len(frames)))
        BY <1>3 DEF Cell
      <4>2. Peek(walks).target = Len(frames)
        BY <2>4, <4>1 DEF Life, WalkOK
      <4>3. Peek(walks) \in WalkT(V)
        <5>1. walks \in Seq(WalkT(V)) /\ walks # <<>>
          BY <1>7, <2>2 DEF WalksOK, WaitsHere
        <5> QED BY <5>1, FrontSeq
      <4> QED BY <3>1, <4>2, <4>3 DEF WalkT
    <3>3. ContinueWalk(w, Front(walks), Set(Past), stack) /\ w.target \in Nat \ {0}
      BY <1>7, <2>1, <3>1, <3>2
    <3> QED BY <1>8, <3>3, WalkBang
  <2> QED BY <1>4, <2>1, <2>6, <2>7 DEF Sound
<1>11. CASE ~ ox /\ ~ ow
  <2>1. gd[Level(N, i)] > gd[Level(N, i) - 1] + N[N[i].bodies[Level(N, i)]].depth
    BY <1>3, <1>4, <1>5, <1>11, ResumesNone
  <2>2. /\ stack # <<>> /\ Front(stack) \in Seq(V) /\ Peek(stack) \in V
        /\ Under(N, i, gd, frames[Len(frames)].base, Front(stack))
    BY <1>3, <1>4, <2>1, TailUnder
  <2>3. PICK ss, hs, e : ss = Front(stack) /\ hs = Set(Past) /\ e = Peek(stack)
    OBVIOUS
  <2>4. ss \in Seq(V) /\ e \in V /\ Len(ss) \in Nat /\ Handed(V, frames, hs)
    BY <1>7, <2>2, <2>3, LenProperties
  <2>5. Deep(frames, ss)
    <3>1. code[i].op # Unnests /\ Under(N, i, gd, frames[Len(frames)].base, ss)
      BY <1>3, <1>4, <2>2, <2>3
    <3> QED BY <1>3, <2>4, <3>1, DeepIs
  <2>6. Unwind(e, hs, ss)
    BY <1>6, <1>11, <2>2, <2>3
  <2> QED BY <1>4, <2>4, <2>5, <2>6, UnwindGood
<1> QED BY <1>9, <1>10, <1>11

(***************************************************************************)
(* Bytecodes that stay in the same body.                                   *)
(***************************************************************************)
Stays(N, i, k) ==
  /\ k \in DOMAIN N /\ N[k].entry = N[i].entry /\ N[k].bodies = N[i].bodies
  /\ \A j \in 1 .. Len(N[k].rescues) :
       N[k].rescues[j] = i \/ \E h \in 1 .. Len(N[i].rescues) : N[k].rescues[j] = N[i].rescues[h]
  /\ \A j \in 1 .. Len(N[k].loops) :
       N[k].loops[j] = i \/ \E h \in 1 .. Len(N[i].loops) : N[k].loops[j] = N[i].loops[h]

\* What is left of a stack, or has i on top.
Steps(i, s, t) == t = Append(s, i) \/ Sub(t, s)

\* Such a stack holds nothing else.
LEMMA StepsIs ==
  ASSUME NEW S, NEW s \in Seq(S), NEW i \in S, NEW t, Steps(i, s, t), NEW j \in 1 .. Len(t)
  PROVE  t[j] = i \/ \E h \in 1 .. Len(s) : t[j] = s[h]
<1>1. CASE t = Append(s, i)
  <2>1. /\ Len(t) = Len(s) + 1 /\ Len(s) \in Nat /\ t[Len(s) + 1] = i
        /\ \A h \in 1 .. Len(s) : t[h] = s[h]
    BY <1>1, AppendSeq
  <2>2. CASE j = Len(s) + 1
    BY <2>1, <2>2
  <2>3. CASE j # Len(s) + 1
    <3>1. j \in 1 .. Len(s)
      BY <2>1, <2>3
    <3> QED BY <2>1, <3>1
  <2> QED BY <2>2, <2>3
<1>2. CASE Sub(t, s)
  BY <1>2 DEF Sub
<1> QED BY <1>1, <1>2 DEF Steps

\* A whole stack is left of itself, and all but its top.
LEMMA SubIs ==
  ASSUME NEW S, NEW s \in Seq(S)
  PROVE  Sub(s, s) /\ (s # <<>> => Sub(Front(s), s))
<1>1. Sub(s, s)
  BY LenProperties DEF Sub
<1>2. ASSUME s # <<>> PROVE Sub(Front(s), s)
  <2>1. /\ Len(Front(s)) = Len(s) - 1 /\ Len(s) \in Nat
        /\ \A j \in 1 .. Len(s) - 1 : j \in 1 .. Len(s) /\ Front(s)[j] = s[j]
    BY <1>2, FrontSeq, LenProperties
  <2> QED BY <2>1 DEF Sub
<1> QED BY <1>1, <1>2

\* The successors that stay.
LEMMA StaysIs ==
  ASSUME NEW c, NEW N, WellNested(c, N), NEW i \in DOMAIN N, NEW k, NEW r, NEW l, NEW b, NEW d,
         Is(N, k, Point(N[i].entry, r, l, N[i].bodies, b, d)),
         Steps(i, N[i].rescues, r), Steps(i, N[i].loops, l)
  PROVE  Stays(N, i, k)
<1>1. /\ k \in DOMAIN N /\ N[k].entry = N[i].entry /\ N[k].rescues = r /\ N[k].loops = l
      /\ N[k].bodies = N[i].bodies
  BY PointFields
<1>2. i \in Addr(c) /\ N[i].rescues \in Seq(Addr(c)) /\ N[i].loops \in Seq(Addr(c))
  BY PointIs
<1>3. \A j \in 1 .. Len(r) : r[j] = i \/ \E h \in 1 .. Len(N[i].rescues) : r[j] = N[i].rescues[h]
  BY <1>2, StepsIs
<1>4. \A j \in 1 .. Len(l) : l[j] = i \/ \E h \in 1 .. Len(N[i].loops) : l[j] = N[i].loops[h]
  BY <1>2, StepsIs
<1> QED BY <1>1, <1>3, <1>4 DEF Stays

\* The operands there.
LEMMA StayDepth ==
  ASSUME NEW c, NEW N, WellNested(c, N), NEW V, NEW fs, NEW st, NEW xs, NEW ws, NEW q, NEW i,
         NEW gd, NEW gn, NEW m, Cell(c, N, V, fs, st, xs, ws, q, Len(fs), i, gd, gn, m), NEW k, Stays(N, i, k)
  PROVE  /\ Len(st) \in Nat /\ N[i].depth \in Nat /\ N[k].depth \in Nat /\ N[i].depth <= Len(st)
         /\ Dp(N, gd, k) = (Len(st) - N[i].depth) + N[k].depth
<1>1. /\ i \in DOMAIN N /\ gd \in Ghost /\ Len(st) \in Nat /\ k \in DOMAIN N /\ N[k].bodies = N[i].bodies
  BY CellFields DEF Stays
<1>2. N[i].depth \in Nat /\ N[k].depth \in Nat /\ Level(N, i) \in Nat /\ Level(N, k) = Level(N, i)
  BY <1>1, PointIs DEF Level
<1>3. gd[Level(N, i)] \in Nat
  BY <1>1, <1>2, GhostIs
<1>4. Len(st) = gd[Level(N, i)] + N[i].depth
  BY DEF Cell, Shape, Height, Dp
<1>5. Dp(N, gd, k) = gd[Level(N, i)] + N[k].depth
  BY <1>2 DEF Dp
<1> QED BY <1>1, <1>2, <1>3, <1>4, <1>5

\* The frame f as g, at k with the stacks R, Ls and B.
Becomes(f, g, k, R, Ls, B) ==
  g = [entry |-> f.entry, ip |-> k, base |-> f.base, rescues |-> R, loops |-> Ls, begins |-> B]

\* The top frame goes on at k.
LEMMA StayGood ==
  ASSUME NEW c, NEW N, WellNested(c, N), NEW V, NEW fs, NEW st, NEW xs, NEW ws, NEW q, NEW i,
         NEW gd, NEW gn, NEW m, Cell(c, N, V, fs, st, xs, ws, q, Len(fs), i, gd, gn, m), NEW k, Stays(N, i, k),
         NEW R \in Seq(HandlerT(V)), NEW Ls \in Seq(LoopT), NEW B \in Seq(BeginT(V)),
         Shape(c, N, k, fs[Len(fs)].base, Dp(N, gd, k), R, Ls, B, gd, gn),
         NEW g, Becomes(fs[Len(fs)], g, k, R, Ls, B), NEW ts \in Seq(V), Len(ts) = Dp(N, gd, k)
  PROVE  Good(c, N, V, [fs EXCEPT ![Len(fs)] = g], ts, xs, ws, q) /\ g \in FrameT(V)
<1>1. PICK n, f : n = Len(fs) /\ f = fs[n]
  OBVIOUS
<1>2. /\ Good(c, N, V, fs, st, xs, ws, q) /\ fs \in Seq(FrameT(V)) /\ fs # <<>> /\ n \in Nat /\ n \in 1 .. Len(fs)
      /\ gd \in Ghost /\ gn \in Ghost /\ m \in Nat /\ f \in FrameT(V) /\ i \in DOMAIN N
      /\ WalksOK(N, V, n, xs, ws, q)
  BY <1>1, CellFields
<1>3. f.entry = N[i].entry
  BY <1>1, CellAt
<1>4. k \in DOMAIN N /\ N[k].entry = N[i].entry
  BY DEF Stays
<1>5. k \in Int
  BY <1>4, PointIs
<1>6. f.entry \in Int /\ f.base \in Nat
  BY <1>2, FrameFields
<1>7. g \in FrameT(V) /\ g.ip = k /\ g.base = f.base /\ g.entry = f.entry /\ g.rescues = R /\ g.loops = Ls /\ g.begins = B
  BY <1>1, <1>5, <1>6 DEF Becomes, FrameT
<1>8. Life(c, N, k, gd, m, n, In(Range(xs), n), In(Range(ws), n))
  <2>1. Life(c, N, i, gd, m, n, In(Range(xs), n), In(Range(ws), n))
    BY <1>1 DEF Cell
  <2>2. /\ N[k].bodies = N[i].bodies
        /\ \A j \in 1 .. Len(N[k].rescues) :
             N[k].rescues[j] = i \/ \E h \in 1 .. Len(N[i].rescues) : N[k].rescues[j] = N[i].rescues[h]
        /\ \A j \in 1 .. Len(N[k].loops) :
             N[k].loops[j] = i \/ \E h \in 1 .. Len(N[i].loops) : N[k].loops[j] = N[i].loops[h]
    BY DEF Stays
  <2> QED BY <1>2, <1>4, <2>1, <2>2, LifeStay
<1>9. FrameOK(c, N, g, Len(ts), n, In(Range(xs), n), In(Range(ws), n))
  <2>1. Shape(c, N, g.ip, g.base, Len(ts), g.rescues, g.loops, g.begins, gd, gn)
    BY <1>1, <1>7
  <2> QED BY <1>2, <1>3, <1>4, <1>7, <1>8, <2>1 DEF FrameOK
<1>10. PICK gs : gs = [fs EXCEPT ![Len(fs)] = g]
  OBVIOUS
<1>11. Topped(fs, n, g, gs)
  BY <1>1, <1>2, <1>7, <1>10, SetIs DEF Topped
<1>12. g.base = fs[n].base /\ g.entry = fs[n].entry
  BY <1>1, <1>7
<1>13. Good(c, N, V, gs, ts, xs, ws, q)
  BY <1>2, <1>7, <1>9, <1>11, <1>12, Renew
<1> QED BY <1>7, <1>10, <1>13

\* The top frame and what its instruction leaves.
LEMMA StepGood ==
  ASSUME NEW N, WellNested(code, N), NEW V, NEW i, NEW gd, NEW gn, NEW m,
         Cell(code, N, V, frames, stack, xfers, walks, seq, Len(frames), i, gd, gn, m), NEW k, Stays(N, i, k),
         NEW R \in Seq(HandlerT(V)), NEW Ls \in Seq(LoopT), NEW B \in Seq(BeginT(V)),
         Shape(code, N, k, frames[Len(frames)].base, Dp(N, gd, k), R, Ls, B, gd, gn),
         NEW g, Becomes(Top, g, k, R, Ls, B), NEW ts \in Seq(V), Len(ts) = Dp(N, gd, k), Advance(g, ts)
  PROVE  Good(code, N, V, frames', stack', xfers', walks', seq') /\ code' = code
<1>1. Becomes(frames[Len(frames)], g, k, R, Ls, B)
  BY DEF Top, Peek
<1>2. Good(code, N, V, [frames EXCEPT ![Len(frames)] = g], ts, xfers, walks, seq)
  BY <1>1, StayGood
<1>3. /\ frames' = [frames EXCEPT ![Len(frames)] = g] /\ stack' = ts
      /\ xfers' = xfers /\ walks' = walks /\ seq' = seq /\ code' = code
  BY DEF Advance, Set, Quiet, fixed
<1> QED BY <1>2, <1>3

\* The top frame is about to run the instruction at i.
Running(N, V, i, gd, gn, m) ==
  /\ Cell(code, N, V, frames, stack, xfers, walks, seq, Len(frames), i, gd, gn, m)
  /\ i = Top.ip /\ code[i] = Instr /\ Top = frames[Len(frames)]
  /\ bang \in V /\ status = "running"

\* What that gives.
LEMMA RunningIs ==
  ASSUME NEW N, WellNested(code, N), NEW V, NEW i, NEW gd, NEW gn, NEW m, Running(N, V, i, gd, gn, m)
  PROVE  /\ Cell(code, N, V, frames, stack, xfers, walks, seq, Len(frames), i, gd, gn, m)
         /\ i \in DOMAIN N /\ i \in Nat /\ i \in Addr(code) /\ code[i].v \in ValueT(code)
         /\ Goal(code, i) = Target /\ Goes(code, N, i) /\ Jumps(code, N, i)
         /\ gd \in Ghost /\ gn \in Ghost /\ stack \in Seq(V) /\ Len(stack) \in Nat
         /\ Top \in FrameT(V)
         /\ Top.rescues \in Seq(HandlerT(V)) /\ Top.loops \in Seq(LoopT) /\ Top.begins \in Seq(BeginT(V))
         /\ Len(Top.rescues) \in Nat /\ Len(Top.loops) \in Nat /\ Len(Top.begins) \in Nat
         /\ Shape(code, N, i, frames[Len(frames)].base, Len(stack), Top.rescues, Top.loops, Top.begins, gd, gn)
         /\ Good(code, N, V, frames, stack, xfers, walks, seq)
<1>1. /\ Cell(code, N, V, frames, stack, xfers, walks, seq, Len(frames), i, gd, gn, m)
      /\ i = Top.ip /\ code[i] = Instr /\ Top = frames[Len(frames)]
  BY DEF Running
<1>2. /\ Good(code, N, V, frames, stack, xfers, walks, seq) /\ stack \in Seq(V) /\ Len(stack) \in Nat
      /\ gd \in Ghost /\ gn \in Ghost /\ frames[Len(frames)] \in FrameT(V) /\ i \in DOMAIN N
  BY <1>1, CellFields
<1>3. Top \in FrameT(V)
  BY <1>1, <1>2
<1>4. /\ Top.rescues \in Seq(HandlerT(V)) /\ Top.loops \in Seq(LoopT) /\ Top.begins \in Seq(BeginT(V))
      /\ Len(Top.rescues) \in Nat /\ Len(Top.loops) \in Nat /\ Len(Top.begins) \in Nat
  BY <1>3, FrameFields
<1>5. Shape(code, N, i, frames[Len(frames)].base, Len(stack), Top.rescues, Top.loops, Top.begins, gd, gn)
  <2>1. Height(frames, Len(stack), Len(frames)) = Len(stack)
    BY DEF Height
  <2> QED BY <1>1, <2>1 DEF Cell
<1>6. Goes(code, N, i) /\ Jumps(code, N, i)
  BY <1>2 DEF WellNested
<1>7. i \in Nat /\ i \in Addr(code) /\ code[i].v \in ValueT(code)
  BY <1>2, PointIs
<1>8. Goal(code, i) = Target
  BY <1>1 DEF Goal, Target
<1> QED BY <1>1, <1>2, <1>3, <1>4, <1>5, <1>6, <1>7, <1>8

\* The frame f with its ip at k.
Moves(f, g, k) == g = [f EXCEPT !.ip = k]

\* Its stacks are the same.
LEMMA MovesIs ==
  ASSUME NEW V, NEW f \in FrameT(V), NEW g, NEW k, Moves(f, g, k)
  PROVE  Becomes(f, g, k, f.rescues, f.loops, f.begins)
BY DEF Moves, Becomes, FrameT

\* Bytecodes that touch the operands only.
LEMMA SameGood ==
  ASSUME NEW N, WellNested(code, N), NEW V, NEW i, NEW gd, NEW gn, NEW m, Running(N, V, i, gd, gn, m),
         code[i].op # Unnests, NEW k, NEW d,
         Is(N, k, Point(N[i].entry, N[i].rescues, N[i].loops, N[i].bodies, N[i].begins, d)),
         NEW ts \in Seq(V), Len(ts) = (Len(stack) - N[i].depth) + d, NEW g, Moves(Top, g, k), Advance(g, ts)
  PROVE  Good(code, N, V, frames', stack', xfers', walks', seq') /\ code' = code
<1>1. /\ Cell(code, N, V, frames, stack, xfers, walks, seq, Len(frames), i, gd, gn, m)
      /\ i \in DOMAIN N /\ Top \in FrameT(V)
      /\ Top.rescues \in Seq(HandlerT(V)) /\ Top.loops \in Seq(LoopT) /\ Top.begins \in Seq(BeginT(V))
      /\ Shape(code, N, i, frames[Len(frames)].base, Len(stack), Top.rescues, Top.loops, Top.begins, gd, gn)
  BY RunningIs
<1>2. /\ N[k].rescues = N[i].rescues /\ N[k].loops = N[i].loops
      /\ N[k].bodies = N[i].bodies /\ N[k].begins = N[i].begins /\ N[k].depth = d
  BY PointFields
<1>3. Stays(N, i, k)
  <2>1. Sub(N[i].rescues, N[i].rescues) /\ Sub(N[i].loops, N[i].loops)
    <3>1. N[i].rescues \in Seq(Addr(code)) /\ N[i].loops \in Seq(Addr(code))
      BY <1>1, PointIs
    <3> QED BY <3>1, SubIs
  <2>2. Steps(i, N[i].rescues, N[i].rescues) /\ Steps(i, N[i].loops, N[i].loops)
    BY <2>1 DEF Steps
  <2> QED BY <1>1, <2>2, StaysIs
<1>4. Dp(N, gd, k) = Len(ts)
  <2>1. Dp(N, gd, k) = (Len(stack) - N[i].depth) + N[k].depth
    BY <1>1, <1>3, StayDepth
  <2> QED BY <1>2, <2>1
<1>5. Shape(code, N, k, frames[Len(frames)].base, Dp(N, gd, k), Top.rescues, Top.loops, Top.begins, gd, gn)
  <2>1. PICK b, s, R, Ls, B : b = frames[Len(frames)].base /\ s = Len(stack) /\ R = Top.rescues /\ Ls = Top.loops /\ B = Top.begins
    OBVIOUS
  <2>2. Shape(code, N, i, b, s, R, Ls, B, gd, gn)
    BY <1>1, <2>1
  <2>3. Shape(code, N, k, b, Dp(N, gd, k), R, Ls, B, gd, gn)
    BY <1>2, <2>2, StaySame
  <2> QED BY <2>1, <2>3
<1>6. Becomes(Top, g, k, Top.rescues, Top.loops, Top.begins)
  BY <1>1, MovesIs
<1> QED BY <1>1, <1>3, <1>4, <1>5, <1>6, StepGood

\* Load.
LEMMA LoadGood ==
  ASSUME NEW N, WellNested(code, N), NEW V, ValueT(code) \subseteq V,
         NEW i, NEW gd, NEW gn, NEW m, Running(N, V, i, gd, gn, m), Load
  PROVE  Sound(N, V)'
<1>1. code[i].op = "Load" /\ code[i] = Instr /\ Top.ip = i /\ bang \in V /\ status = "running"
  BY DEF Running, Load, At
<1>2. /\ i \in DOMAIN N /\ code[i].v \in V /\ Goes(code, N, i) /\ stack \in Seq(V) /\ Len(stack) \in Nat
      /\ N[i].depth \in Nat
  <2>1. /\ i \in DOMAIN N /\ code[i].v \in ValueT(code) /\ Goes(code, N, i) /\ stack \in Seq(V) /\ Len(stack) \in Nat
    BY RunningIs
  <2> QED BY <2>1, PointIs
<1>3. Is(N, i + 1, Point(N[i].entry, N[i].rescues, N[i].loops, N[i].bodies, N[i].begins, N[i].depth + 1))
  BY <1>1, <1>2 DEF Goes
<1>4. PICK k, d, g, ts : k = i + 1 /\ d = N[i].depth + 1 /\ g = Past /\ ts = Append(stack, Instr.v)
  OBVIOUS
<1>5. Moves(Top, g, k)
  BY <1>1, <1>4 DEF Moves, Past
<1>6. ts \in Seq(V) /\ Len(ts) = Len(stack) + 1
  BY <1>1, <1>2, <1>4, AppendSeq
<1>7. Len(ts) = (Len(stack) - N[i].depth) + d
  BY <1>2, <1>4, <1>6
<1>8. Advance(g, ts) /\ bang' = bang /\ status' = status
  BY <1>4 DEF Load
<1>9. Good(code, N, V, frames', stack', xfers', walks', seq') /\ code' = code
  <2>1. code[i].op # Unnests
    BY <1>1 DEF Unnests
  <2>2. Is(N, k, Point(N[i].entry, N[i].rescues, N[i].loops, N[i].bodies, N[i].begins, d))
    BY <1>3, <1>4
  <2> QED BY <1>5, <1>6, <1>7, <1>8, <2>1, <2>2, SameGood
<1> QED BY <1>1, <1>8, <1>9 DEF Sound

\* Pop.
LEMMA PopGood ==
  ASSUME NEW N, WellNested(code, N), NEW V,
         NEW i, NEW gd, NEW gn, NEW m, Running(N, V, i, gd, gn, m), Pop
  PROVE  Sound(N, V)'
<1>1. code[i].op = "Pop" /\ code[i] = Instr /\ Top.ip = i /\ bang \in V /\ status = "running"
  BY DEF Running, Pop, At
<1>2. /\ i \in DOMAIN N /\ Goes(code, N, i) /\ stack \in Seq(V) /\ Len(stack) \in Nat /\ gd \in Ghost
      /\ Shape(code, N, i, frames[Len(frames)].base, Len(stack), Top.rescues, Top.loops, Top.begins, gd, gn)
  BY RunningIs
<1>3. /\ N[i].depth >= 1
      /\ Is(N, i + 1, Point(N[i].entry, N[i].rescues, N[i].loops, N[i].bodies, N[i].begins, N[i].depth - 1))
  BY <1>1, <1>2 DEF Goes
<1>4. PICK k, d, g, ts : k = i + 1 /\ d = N[i].depth - 1 /\ g = Past /\ ts = Front(stack)
  OBVIOUS
<1>5. Moves(Top, g, k)
  BY <1>1, <1>4 DEF Moves, Past
<1>6. stack # <<>> /\ N[i].depth \in Nat
  <2>1. Len(stack) = gd[Level(N, i)] + N[i].depth
    BY <1>2 DEF Shape, Dp
  <2>2. N[i].depth \in Nat /\ Level(N, i) \in Nat
    BY <1>2, PointIs
  <2>3. gd[Level(N, i)] \in Nat
    BY <1>2, <2>2, GhostIs
  <2>4. Len(stack) # 0
    BY <1>3, <2>1, <2>2, <2>3
  <2> QED BY <1>2, <2>2, <2>4
<1>7. ts \in Seq(V) /\ Len(ts) = Len(stack) - 1
  BY <1>2, <1>4, <1>6, FrontSeq
<1>8. Len(ts) = (Len(stack) - N[i].depth) + d
  BY <1>2, <1>4, <1>6, <1>7
<1>9. Advance(g, ts) /\ bang' = bang /\ status' = status
  BY <1>4 DEF Pop
<1>10. Good(code, N, V, frames', stack', xfers', walks', seq') /\ code' = code
  <2>1. code[i].op # Unnests
    BY <1>1 DEF Unnests
  <2>2. Is(N, k, Point(N[i].entry, N[i].rescues, N[i].loops, N[i].bodies, N[i].begins, d))
    BY <1>3, <1>4
  <2> QED BY <1>5, <1>7, <1>8, <1>9, <2>1, <2>2, SameGood
<1> QED BY <1>1, <1>9, <1>10 DEF Sound

\* A marked call.
LEMMA TickGood ==
  ASSUME NEW N, WellNested(code, N), NEW V, NilValue \in V,
         NEW i, NEW gd, NEW gn, NEW m, Running(N, V, i, gd, gn, m), TickOp
  PROVE  Sound(N, V)'
<1>1. code[i].op = "Tick" /\ code[i] = Instr /\ Top.ip = i /\ bang \in V /\ status = "running"
  BY DEF Running, TickOp, At
<1>2. /\ i \in DOMAIN N /\ Goes(code, N, i) /\ stack \in Seq(V) /\ Len(stack) \in Nat /\ N[i].depth \in Nat
  <2>1. /\ i \in DOMAIN N /\ Goes(code, N, i) /\ stack \in Seq(V) /\ Len(stack) \in Nat
    BY RunningIs
  <2> QED BY <2>1, PointIs
<1>3. Is(N, i + 1, Point(N[i].entry, N[i].rescues, N[i].loops, N[i].bodies, N[i].begins, N[i].depth + 1))
  BY <1>1, <1>2 DEF Goes
<1>4. PICK k, d, g, ts : k = i + 1 /\ d = N[i].depth + 1 /\ g = Past /\ ts = Append(stack, NilValue)
  OBVIOUS
<1>5. Moves(Top, g, k)
  BY <1>1, <1>4 DEF Moves, Past
<1>6. ts \in Seq(V) /\ Len(ts) = Len(stack) + 1
  BY <1>2, <1>4, AppendSeq
<1>7. Len(ts) = (Len(stack) - N[i].depth) + d
  BY <1>2, <1>4, <1>6
<1>8. Advance(g, ts) /\ bang' = bang /\ status' = status
  BY <1>4 DEF TickOp
<1>9. Good(code, N, V, frames', stack', xfers', walks', seq') /\ code' = code
  <2>1. code[i].op # Unnests
    BY <1>1 DEF Unnests
  <2>2. Is(N, k, Point(N[i].entry, N[i].rescues, N[i].loops, N[i].bodies, N[i].begins, d))
    BY <1>3, <1>4
  <2> QED BY <1>5, <1>6, <1>7, <1>8, <2>1, <2>2, SameGood
<1> QED BY <1>1, <1>8, <1>9 DEF Sound

\* Where a jump leads.
LEMMA JumpIs ==
  ASSUME NEW c, NEW N, WellNested(c, N), NEW i \in DOMAIN N, c[i].op \in {"Jump", "JumpUnless"}
  PROVE  Is(N, Goal(c, i), Point(N[i].entry, N[i].rescues, N[i].loops, N[i].bodies, N[i].begins, N[i].depth))
<1>1. Is(N, Goal(c, i), N[i])
  BY DEF WellNested, Jumps
<1>2. N[i] = Point(N[i].entry, N[i].rescues, N[i].loops, N[i].bodies, N[i].begins, N[i].depth)
  <2>1. N[i] \in PointT(c)
    BY PointIs
  <2> QED BY <2>1 DEF PointT, Point
<1> QED BY <1>1, <1>2 DEF Is

\* Jump.
LEMMA JumpGood ==
  ASSUME NEW N, WellNested(code, N), NEW V,
         NEW i, NEW gd, NEW gn, NEW m, Running(N, V, i, gd, gn, m), Jump
  PROVE  Sound(N, V)'
<1>1. code[i].op = "Jump" /\ code[i] = Instr /\ Top.ip = i /\ bang \in V /\ status = "running"
  BY DEF Running, Jump, At
<1>2. /\ i \in DOMAIN N /\ Goal(code, i) = Target /\ stack \in Seq(V) /\ Len(stack) \in Nat /\ N[i].depth \in Nat
  <2>1. /\ i \in DOMAIN N /\ Goal(code, i) = Target /\ stack \in Seq(V) /\ Len(stack) \in Nat
    BY RunningIs
  <2> QED BY <2>1, PointIs
<1>3. PICK k, d, g, ts : k = Target /\ d = N[i].depth /\ g = [Top EXCEPT !.ip = Target] /\ ts = stack
  OBVIOUS
<1>4. Is(N, k, Point(N[i].entry, N[i].rescues, N[i].loops, N[i].bodies, N[i].begins, d))
  BY <1>1, <1>2, <1>3, JumpIs
<1>5. Moves(Top, g, k)
  BY <1>3 DEF Moves
<1>6. ts \in Seq(V) /\ Len(ts) = (Len(stack) - N[i].depth) + d
  BY <1>2, <1>3
<1>7. Advance(g, ts) /\ bang' = bang /\ status' = status
  BY <1>3 DEF Jump
<1>8. Good(code, N, V, frames', stack', xfers', walks', seq') /\ code' = code
  <2>1. code[i].op # Unnests
    BY <1>1 DEF Unnests
  <2> QED BY <1>4, <1>5, <1>6, <1>7, <2>1, SameGood
<1> QED BY <1>1, <1>7, <1>8 DEF Sound

\* A condition, taken or not.
LEMMA JumpUnlessGood ==
  ASSUME NEW N, WellNested(code, N), NEW V,
         NEW i, NEW gd, NEW gn, NEW m, Running(N, V, i, gd, gn, m), JumpUnless
  PROVE  Sound(N, V)'
<1>1. code[i].op = "JumpUnless" /\ code[i] = Instr /\ Top.ip = i /\ bang \in V /\ status = "running"
  BY DEF Running, JumpUnless, At
<1>2. /\ i \in DOMAIN N /\ Goal(code, i) = Target /\ stack \in Seq(V) /\ Len(stack) \in Nat /\ N[i].depth \in Nat
      /\ Goes(code, N, i)
  <2>1. /\ i \in DOMAIN N /\ Goal(code, i) = Target /\ stack \in Seq(V) /\ Len(stack) \in Nat /\ Goes(code, N, i)
    BY RunningIs
  <2> QED BY <2>1, PointIs
<1>3. PICK k, d, g, ts : /\ k = (IF left > 0 THEN i + 1 ELSE Target) /\ d = N[i].depth
                         /\ g = (IF left > 0 THEN Past ELSE [Top EXCEPT !.ip = Target]) /\ ts = stack
  OBVIOUS
<1>4. Is(N, k, Point(N[i].entry, N[i].rescues, N[i].loops, N[i].bodies, N[i].begins, d))
  <2>1. CASE left > 0
    BY <1>1, <1>2, <1>3, <2>1 DEF Goes
  <2>2. CASE ~ (left > 0)
    BY <1>1, <1>2, <1>3, <2>2, JumpIs
  <2> QED BY <2>1, <2>2
<1>5. Moves(Top, g, k)
  BY <1>1, <1>3 DEF Moves, Past
<1>6. ts \in Seq(V) /\ Len(ts) = (Len(stack) - N[i].depth) + d
  BY <1>2, <1>3
<1>7. Advance(g, ts) /\ bang' = bang /\ status' = status
  BY <1>3 DEF JumpUnless
<1>8. Good(code, N, V, frames', stack', xfers', walks', seq') /\ code' = code
  <2>1. code[i].op # Unnests
    BY <1>1 DEF Unnests
  <2> QED BY <1>4, <1>5, <1>6, <1>7, <2>1, SameGood
<1> QED BY <1>1, <1>7, <1>8 DEF Sound

\* Halt.
LEMMA HaltGood ==
  ASSUME NEW N, WellNested(code, N), NEW V,
         NEW i, NEW gd, NEW gn, NEW m, Running(N, V, i, gd, gn, m), Halt
  PROVE  Sound(N, V)'
<1>1. /\ frames' = frames /\ stack' = stack /\ xfers' = xfers /\ walks' = walks /\ seq' = seq
      /\ code' = code /\ bang' = bang /\ status' = "done"
  BY DEF Halt, Quiet, fixed
<1>2. Good(code, N, V, frames, stack, xfers, walks, seq)
  BY RunningIs
<1>3. bang \in V
  BY DEF Running
<1>4. Good(code, N, V, frames', stack', xfers', walks', seq')
  BY <1>1, <1>2
<1> QED BY <1>1, <1>3, <1>4 DEF Sound

\* Bytecodes that open or close a scope and leave the operands alone.
LEMMA ScopeGood ==
  ASSUME NEW N, WellNested(code, N), NEW V, NEW i, NEW gd, NEW gn, NEW m, Running(N, V, i, gd, gn, m),
         NEW k, NEW r, NEW l, NEW b, Is(N, k, Point(N[i].entry, r, l, N[i].bodies, b, N[i].depth)),
         Steps(i, N[i].rescues, r), Steps(i, N[i].loops, l),
         NEW R \in Seq(HandlerT(V)), NEW Ls \in Seq(LoopT), NEW B \in Seq(BeginT(V)),
         Shape(code, N, k, frames[Len(frames)].base, Dp(N, gd, k), R, Ls, B, gd, gn),
         NEW g, Becomes(Top, g, k, R, Ls, B), Advance(g, stack)
  PROVE  Good(code, N, V, frames', stack', xfers', walks', seq') /\ code' = code
<1>1. /\ Cell(code, N, V, frames, stack, xfers, walks, seq, Len(frames), i, gd, gn, m)
      /\ i \in DOMAIN N /\ stack \in Seq(V) /\ Len(stack) \in Nat
  BY RunningIs
<1>2. Stays(N, i, k)
  BY <1>1, StaysIs
<1>3. Dp(N, gd, k) = Len(stack)
  <2>1. N[k].depth = N[i].depth
    BY PointFields
  <2>2. /\ N[i].depth \in Nat /\ Dp(N, gd, k) = (Len(stack) - N[i].depth) + N[k].depth
    BY <1>1, <1>2, StayDepth
  <2> QED BY <1>1, <2>1, <2>2
<1> QED BY <1>1, <1>2, <1>3, StepGood

\* The same stacks.
LEMMA StepsSame ==
  ASSUME NEW N, WellNested(code, N), NEW i \in DOMAIN N
  PROVE  /\ Steps(i, N[i].rescues, N[i].rescues) /\ Steps(i, N[i].loops, N[i].loops)
         /\ N[i].rescues # <<>> => Steps(i, N[i].rescues, Front(N[i].rescues))
         /\ N[i].loops # <<>> => Steps(i, N[i].loops, Front(N[i].loops))
<1>1. N[i].rescues \in Seq(Addr(code)) /\ N[i].loops \in Seq(Addr(code))
  BY PointIs
<1>2. Sub(N[i].rescues, N[i].rescues) /\ (N[i].rescues # <<>> => Sub(Front(N[i].rescues), N[i].rescues))
  BY <1>1, SubIs
<1>3. Sub(N[i].loops, N[i].loops) /\ (N[i].loops # <<>> => Sub(Front(N[i].loops), N[i].loops))
  BY <1>1, SubIs
<1> QED BY <1>2, <1>3 DEF Steps

\* PushRescue and PushEnsure.
LEMMA PushHandlerGood ==
  ASSUME NEW N, WellNested(code, N), NEW V, ValueT(code) \subseteq V,
         NEW i, NEW gd, NEW gn, NEW m, Running(N, V, i, gd, gn, m), PushHandler
  PROVE  Sound(N, V)'
<1>1. code[i].op \in Pushes /\ code[i] = Instr /\ Top.ip = i /\ bang \in V /\ status = "running"
  BY DEF Running, PushHandler, At, Pushes
<1>2. /\ i \in DOMAIN N /\ code[i].v \in V /\ Goal(code, i) = Target /\ Goes(code, N, i)
      /\ Len(stack) \in Nat /\ Top \in FrameT(V)
      /\ Top.rescues \in Seq(HandlerT(V)) /\ Top.loops \in Seq(LoopT) /\ Top.begins \in Seq(BeginT(V))
      /\ Len(Top.loops) \in Nat /\ Len(Top.begins) \in Nat
      /\ Shape(code, N, i, frames[Len(frames)].base, Len(stack), Top.rescues, Top.loops, Top.begins, gd, gn)
  <2>1. code[i].v \in ValueT(code)
    BY RunningIs
  <2> QED BY <2>1, RunningIs
<1>3. Is(N, i + 1, Point(N[i].entry, Append(N[i].rescues, i), N[i].loops, N[i].bodies, N[i].begins, N[i].depth))
  BY <1>1, <1>2 DEF Goes
<1>4. PICK k, h, R, g : /\ k = i + 1 /\ h = Handler(Instr.op = "PushEnsure") /\ R = Append(Top.rescues, h)
                        /\ g = [Past EXCEPT !.rescues = Append(@, h)]
  OBVIOUS
<1>5. /\ h \in HandlerT(V) /\ h.ip = Goal(code, i) /\ (h.ens <=> Ens(code, i)) /\ h.depth = Len(stack)
      /\ h.loopAt = Len(Top.loops) /\ h.beginAt = Len(Top.begins)
  <2>1. Target \in Int /\ Instr.v \in V
    <3>1. Goal(code, i) \in Int
      BY <1>2, PointIs
    <3> QED BY <1>1, <1>2, <3>1
  <2>2. h \in HandlerT(V)
    BY <1>2, <1>4, <2>1 DEF Handler, HandlerT
  <2>3. h.ip = Target /\ (h.ens <=> Instr.op = "PushEnsure") /\ h.depth = Len(stack)
        /\ h.loopAt = Len(Top.loops) /\ h.beginAt = Len(Top.begins)
    BY <1>4 DEF Handler
  <2> QED BY <1>1, <1>2, <2>2, <2>3 DEF Ens
<1>6. /\ N[k].bodies = N[i].bodies /\ N[k].rescues = Append(N[i].rescues, i)
      /\ N[k].loops = N[i].loops /\ N[k].begins = N[i].begins
  <2>1. PICK r : r = Append(N[i].rescues, i)
    OBVIOUS
  <2>2. Is(N, k, Point(N[i].entry, r, N[i].loops, N[i].bodies, N[i].begins, N[i].depth))
    BY <1>3, <1>4, <2>1
  <2>3. N[k].bodies = N[i].bodies /\ N[k].rescues = r /\ N[k].loops = N[i].loops /\ N[k].begins = N[i].begins
    BY <2>2, PointFields
  <2> QED BY <2>1, <2>3
<1>7. Shape(code, N, k, frames[Len(frames)].base, Dp(N, gd, k), R, Top.loops, Top.begins, gd, gn)
  <2>1. PICK b, s, Q, Ls, B : /\ b = frames[Len(frames)].base /\ s = Len(stack) /\ Q = Top.rescues
                              /\ Ls = Top.loops /\ B = Top.begins
    OBVIOUS
  <2>2. Shape(code, N, i, b, s, Q, Ls, B, gd, gn) /\ Q \in Seq(HandlerT(V))
    BY <1>2, <2>1
  <2>3. h.depth = s /\ h.loopAt = Len(Ls) /\ h.beginAt = Len(B) /\ code[i].op # Unnests
    BY <1>1, <1>5, <2>1 DEF Pushes, Unnests
  <2>4. Shape(code, N, k, b, Dp(N, gd, k), Append(Q, h), Ls, B, gd, gn)
    BY <1>2, <1>5, <1>6, <2>2, <2>3, StayPush
  <2> QED BY <1>4, <2>1, <2>4
<1>8. R \in Seq(HandlerT(V))
  BY <1>2, <1>4, <1>5, AppendSeq
<1>9. Becomes(Top, g, k, R, Top.loops, Top.begins)
  BY <1>1, <1>2, <1>4 DEF Becomes, FrameT, Past
<1>10. Advance(g, stack) /\ bang' = bang /\ status' = status
  BY <1>4 DEF PushHandler
<1>11. Steps(i, N[i].rescues, Append(N[i].rescues, i)) /\ Steps(i, N[i].loops, N[i].loops)
  BY <1>2, StepsSame DEF Steps
<1>12. Good(code, N, V, frames', stack', xfers', walks', seq') /\ code' = code
  <2>1. Is(N, k, Point(N[i].entry, Append(N[i].rescues, i), N[i].loops, N[i].bodies, N[i].begins, N[i].depth))
    BY <1>3, <1>4
  <2> QED BY <1>2, <1>7, <1>8, <1>9, <1>10, <1>11, <2>1, ScopeGood
<1> QED BY <1>1, <1>10, <1>12 DEF Sound

\* PopRescue and PopEnsure.
LEMMA PopHandlerGood ==
  ASSUME NEW N, WellNested(code, N), NEW V,
         NEW i, NEW gd, NEW gn, NEW m, Running(N, V, i, gd, gn, m), PopHandler
  PROVE  Sound(N, V)'
<1>1. code[i].op \in Pops /\ code[i] = Instr /\ Top.ip = i /\ bang \in V /\ status = "running"
  BY DEF Running, PopHandler, At, Pops
<1>2. /\ i \in DOMAIN N /\ Goes(code, N, i) /\ Top \in FrameT(V) /\ Len(Top.rescues) \in Nat
      /\ Top.rescues \in Seq(HandlerT(V)) /\ Top.loops \in Seq(LoopT) /\ Top.begins \in Seq(BeginT(V))
      /\ Shape(code, N, i, frames[Len(frames)].base, Len(stack), Top.rescues, Top.loops, Top.begins, gd, gn)
  BY RunningIs
<1>3. /\ N[i].rescues # <<>>
      /\ Is(N, i + 1, Point(N[i].entry, Front(N[i].rescues), N[i].loops, N[i].bodies, N[i].begins, N[i].depth))
  BY <1>1, <1>2 DEF Goes
<1>4. PICK k, R, g : /\ k = i + 1 /\ R = Upto(Top.rescues, Len(Top.rescues) - 1)
                     /\ g = [Past EXCEPT !.rescues = Upto(@, Len(@) - 1)]
  OBVIOUS
<1>5. /\ N[k].bodies = N[i].bodies /\ N[k].rescues = Front(N[i].rescues)
      /\ N[k].loops = N[i].loops /\ N[k].begins = N[i].begins
  BY <1>3, <1>4, PointFields
<1>6. Shape(code, N, k, frames[Len(frames)].base, Dp(N, gd, k), R, Top.loops, Top.begins, gd, gn)
  <2>1. PICK b, s, Q, Ls, B : /\ b = frames[Len(frames)].base /\ s = Len(stack) /\ Q = Top.rescues
                              /\ Ls = Top.loops /\ B = Top.begins
    OBVIOUS
  <2>2. Shape(code, N, i, b, s, Q, Ls, B, gd, gn) /\ Q \in Seq(HandlerT(V)) /\ code[i].op # Unnests
    BY <1>1, <1>2, <2>1 DEF Pops, Unnests
  <2>3. Shape(code, N, k, b, Dp(N, gd, k), Upto(Q, Len(Q) - 1), Ls, B, gd, gn)
    BY <1>2, <1>3, <1>5, <2>2, StayPop
  <2> QED BY <1>4, <2>1, <2>3
<1>7. R \in Seq(HandlerT(V))
  <2>1. Len(Top.rescues) # 0
    <3>1. Len(N[i].rescues) \in Nat /\ Len(N[i].rescues) # 0
      <4>1. N[i].rescues \in Seq(Addr(code)) /\ Len(N[i].rescues) \in Nat
        BY <1>2, PointIs
      <4> QED BY <1>3, <4>1
    <3>2. Len(N[i].rescues) <= Len(Top.rescues)
      BY <1>2 DEF Shape, HandlersOK
    <3> QED BY <1>2, <3>1, <3>2
  <2>2. PICK y : y = Len(Top.rescues) - 1
    OBVIOUS
  <2>3. y \in Nat
    BY <1>2, <2>1, <2>2
  <2> QED BY <1>2, <1>4, <2>2, <2>3, UptoSeq
<1>8. Becomes(Top, g, k, R, Top.loops, Top.begins)
  BY <1>1, <1>2, <1>4 DEF Becomes, FrameT, Past
<1>9. Advance(g, stack) /\ bang' = bang /\ status' = status
  BY <1>4 DEF PopHandler
<1>10. Steps(i, N[i].rescues, Front(N[i].rescues)) /\ Steps(i, N[i].loops, N[i].loops)
  BY <1>2, <1>3, StepsSame
<1>11. Good(code, N, V, frames', stack', xfers', walks', seq') /\ code' = code
  <2>1. Is(N, k, Point(N[i].entry, Front(N[i].rescues), N[i].loops, N[i].bodies, N[i].begins, N[i].depth))
    BY <1>3, <1>4
  <2> QED BY <1>2, <1>6, <1>7, <1>8, <1>9, <1>10, <2>1, ScopeGood
<1> QED BY <1>1, <1>9, <1>11 DEF Sound

\* EnterBegin.
LEMMA EnterBeginGood ==
  ASSUME NEW N, WellNested(code, N), NEW V,
         NEW i, NEW gd, NEW gn, NEW m, Running(N, V, i, gd, gn, m), EnterBegin
  PROVE  Sound(N, V)'
<1>1. code[i].op = "EnterBegin" /\ code[i] = Instr /\ Top.ip = i /\ bang \in V /\ status = "running"
  BY DEF Running, EnterBegin, At
<1>2. /\ i \in DOMAIN N /\ i \in Addr(code) /\ Goes(code, N, i) /\ Top \in FrameT(V)
      /\ Len(Top.rescues) \in Nat /\ Len(Top.loops) \in Nat /\ gd \in Ghost /\ gn \in Ghost
      /\ Top.rescues \in Seq(HandlerT(V)) /\ Top.loops \in Seq(LoopT) /\ Top.begins \in Seq(BeginT(V))
      /\ Shape(code, N, i, frames[Len(frames)].base, Len(stack), Top.rescues, Top.loops, Top.begins, gd, gn)
  BY RunningIs
<1>3. Is(N, i + 1, Point(N[i].entry, N[i].rescues, N[i].loops, N[i].bodies, Append(N[i].begins, i), N[i].depth))
  BY <1>1, <1>2 DEF Goes
<1>4. PICK k, y, b, B, g : /\ k = i + 1 /\ y = Append(N[i].begins, i) /\ B = Append(Top.begins, b)
                           /\ b = [rescues |-> Len(Top.rescues), loops |-> Len(Top.loops), bang |-> bang]
                           /\ g = [Past EXCEPT !.begins = Append(@, b)]
  OBVIOUS
<1>5. Is(N, k, Point(N[i].entry, N[i].rescues, N[i].loops, N[i].bodies, y, N[i].depth))
  BY <1>3, <1>4
<1>6. /\ k \in DOMAIN N /\ N[k].bodies = N[i].bodies /\ N[k].rescues = N[i].rescues
      /\ N[k].loops = N[i].loops /\ N[k].begins = y
  BY <1>5, PointFields
<1>7. b \in BeginT(V) /\ b.rescues = Len(Top.rescues) /\ b.loops = Len(Top.loops)
  BY <1>1, <1>2, <1>4 DEF BeginT
<1>8. Shape(code, N, k, frames[Len(frames)].base, Dp(N, gd, k), Top.rescues, Top.loops, B, gd, gn)
  <2>1. PICK e, s, R, Ls, C : /\ e = frames[Len(frames)].base /\ s = Len(stack) /\ R = Top.rescues
                              /\ Ls = Top.loops /\ C = Top.begins
    OBVIOUS
  <2>2. Shape(code, N, i, e, s, R, Ls, C, gd, gn) /\ C \in Seq(BeginT(V))
    BY <1>2, <2>1
  <2>3. b.rescues = Len(R) /\ b.loops = Len(Ls) /\ code[i].op # Unnests /\ N[k].begins = Append(N[i].begins, i)
    BY <1>1, <1>4, <1>6, <1>7, <2>1 DEF Unnests
  <2>4. Shape(code, N, k, e, Dp(N, gd, k), R, Ls, Append(C, b), gd, gn)
    BY <1>2, <1>6, <1>7, <2>2, <2>3, StayEnter
  <2> QED BY <1>4, <2>1, <2>4
<1>9. B \in Seq(BeginT(V))
  BY <1>2, <1>4, <1>7, AppendSeq
<1>10. Becomes(Top, g, k, Top.rescues, Top.loops, B)
  BY <1>1, <1>2, <1>4 DEF Becomes, FrameT, Past
<1>11. Advance(g, stack) /\ bang' = bang /\ status' = status
  BY <1>4 DEF EnterBegin
<1>12. Steps(i, N[i].rescues, N[i].rescues) /\ Steps(i, N[i].loops, N[i].loops)
  BY <1>2, StepsSame
<1>13. Good(code, N, V, frames', stack', xfers', walks', seq') /\ code' = code
  BY <1>2, <1>5, <1>8, <1>9, <1>10, <1>11, <1>12, ScopeGood
<1> QED BY <1>1, <1>11, <1>13 DEF Sound

\* ExitBegin.
LEMMA ExitBeginGood ==
  ASSUME NEW N, WellNested(code, N), NEW V,
         NEW i, NEW gd, NEW gn, NEW m, Running(N, V, i, gd, gn, m), ExitBegin
  PROVE  Sound(N, V)'
<1>1. code[i].op = "ExitBegin" /\ code[i] = Instr /\ Top.ip = i /\ bang \in V /\ status = "running"
  BY DEF Running, ExitBegin, At
<1>2. /\ i \in DOMAIN N /\ Goes(code, N, i) /\ Top \in FrameT(V)
      /\ Len(Top.begins) \in Nat /\ gd \in Ghost /\ gn \in Ghost
      /\ Top.rescues \in Seq(HandlerT(V)) /\ Top.loops \in Seq(LoopT) /\ Top.begins \in Seq(BeginT(V))
      /\ Shape(code, N, i, frames[Len(frames)].base, Len(stack), Top.rescues, Top.loops, Top.begins, gd, gn)
  BY RunningIs
<1>3. /\ N[i].begins # <<>>
      /\ Is(N, i + 1, Point(N[i].entry, N[i].rescues, N[i].loops, N[i].bodies, Front(N[i].begins), N[i].depth))
  BY <1>1, <1>2 DEF Goes
<1>4. PICK k, y, B, g : /\ k = i + 1 /\ y = Front(N[i].begins) /\ B = Front(Top.begins)
                        /\ g = [Past EXCEPT !.begins = Front(@)]
  OBVIOUS
<1>5. Is(N, k, Point(N[i].entry, N[i].rescues, N[i].loops, N[i].bodies, y, N[i].depth))
  BY <1>3, <1>4
<1>6. /\ k \in DOMAIN N /\ N[k].bodies = N[i].bodies /\ N[k].rescues = N[i].rescues
      /\ N[k].loops = N[i].loops /\ N[k].begins = y
  BY <1>5, PointFields
<1>7. /\ Shape(code, N, k, frames[Len(frames)].base, Dp(N, gd, k), Top.rescues, Top.loops, B, gd, gn)
      /\ Top.begins # <<>>
  <2>1. PICK e, s, R, Ls, C : /\ e = frames[Len(frames)].base /\ s = Len(stack) /\ R = Top.rescues
                              /\ Ls = Top.loops /\ C = Top.begins
    OBVIOUS
  <2>2. Shape(code, N, i, e, s, R, Ls, C, gd, gn) /\ C \in Seq(BeginT(V))
    BY <1>2, <2>1
  <2>3. code[i].op # Unnests /\ N[k].begins = Front(N[i].begins)
    BY <1>1, <1>4, <1>6 DEF Unnests
  <2>4. Shape(code, N, k, e, Dp(N, gd, k), R, Ls, Front(C), gd, gn) /\ C # <<>>
    BY <1>2, <1>3, <1>6, <2>2, <2>3, StayExit
  <2> QED BY <1>4, <2>1, <2>4
<1>8. B \in Seq(BeginT(V))
  BY <1>2, <1>4, <1>7, FrontSeq
<1>9. Becomes(Top, g, k, Top.rescues, Top.loops, B)
  BY <1>1, <1>2, <1>4 DEF Becomes, FrameT, Past
<1>10. Advance(g, stack) /\ status' = status /\ bang' = Peek(Top.begins).bang
  BY <1>4 DEF ExitBegin
<1>11. bang' \in V
  <2>1. Len(Top.begins) \in 1 .. Len(Top.begins)
    BY <1>2, <1>7, FrontSeq
  <2>2. Top.begins[Len(Top.begins)].bang \in V
    BY <1>2, <2>1, SavedBang
  <2> QED BY <1>10, <2>2 DEF Peek
<1>12. Steps(i, N[i].rescues, N[i].rescues) /\ Steps(i, N[i].loops, N[i].loops)
  BY <1>2, StepsSame
<1>13. Good(code, N, V, frames', stack', xfers', walks', seq') /\ code' = code
  BY <1>2, <1>5, <1>7, <1>8, <1>9, <1>10, <1>12, ScopeGood
<1> QED BY <1>1, <1>10, <1>11, <1>13 DEF Sound

\* EnterLoop.
LEMMA EnterLoopGood ==
  ASSUME NEW N, WellNested(code, N), NEW V,
         NEW i, NEW gd, NEW gn, NEW m, Running(N, V, i, gd, gn, m), EnterLoop
  PROVE  Sound(N, V)'
<1>1. code[i].op = "EnterLoop" /\ code[i] = Instr /\ Top.ip = i /\ bang \in V /\ status = "running"
  BY DEF Running, EnterLoop, At
<1>2. /\ i \in DOMAIN N /\ Goes(code, N, i) /\ Top \in FrameT(V)
      /\ Len(Top.rescues) \in Nat /\ Len(stack) \in Nat
      /\ Top.rescues \in Seq(HandlerT(V)) /\ Top.loops \in Seq(LoopT) /\ Top.begins \in Seq(BeginT(V))
      /\ Shape(code, N, i, frames[Len(frames)].base, Len(stack), Top.rescues, Top.loops, Top.begins, gd, gn)
  BY RunningIs
<1>3. Is(N, i + 1, Point(N[i].entry, N[i].rescues, Append(N[i].loops, i), N[i].bodies, N[i].begins, N[i].depth))
  BY <1>1, <1>2 DEF Goes
<1>4. PICK k, y, l, Ls, g : /\ k = i + 1 /\ y = Append(N[i].loops, i) /\ Ls = Append(Top.loops, l)
                            /\ l = [rescues |-> Len(Top.rescues), stack |-> Len(stack)]
                            /\ g = [Past EXCEPT !.loops = Append(@, l)]
  OBVIOUS
<1>5. Is(N, k, Point(N[i].entry, N[i].rescues, y, N[i].bodies, N[i].begins, N[i].depth))
  BY <1>3, <1>4
<1>6. /\ k \in DOMAIN N /\ N[k].bodies = N[i].bodies /\ N[k].rescues = N[i].rescues
      /\ N[k].loops = y /\ N[k].begins = N[i].begins
  BY <1>5, PointFields
<1>7. l \in LoopT /\ l.rescues = Len(Top.rescues) /\ l.stack = Len(stack)
  BY <1>2, <1>4 DEF LoopT
<1>8. Shape(code, N, k, frames[Len(frames)].base, Dp(N, gd, k), Top.rescues, Ls, Top.begins, gd, gn)
  <2>1. PICK e, s, R, Ks, B : /\ e = frames[Len(frames)].base /\ s = Len(stack) /\ R = Top.rescues
                              /\ Ks = Top.loops /\ B = Top.begins
    OBVIOUS
  <2>2. Shape(code, N, i, e, s, R, Ks, B, gd, gn) /\ B \in Seq(BeginT(V)) /\ Ks \in Seq(LoopT)
    BY <1>2, <2>1
  <2>3. l.rescues = Len(R) /\ l.stack = s /\ code[i].op # Unnests /\ N[k].loops = Append(N[i].loops, i)
    BY <1>1, <1>4, <1>6, <1>7, <2>1 DEF Unnests
  <2>4. Shape(code, N, k, e, Dp(N, gd, k), R, Append(Ks, l), B, gd, gn)
    BY <1>2, <1>6, <1>7, <2>2, <2>3, StayLoop
  <2> QED BY <1>4, <2>1, <2>4
<1>9. Ls \in Seq(LoopT)
  BY <1>2, <1>4, <1>7, AppendSeq
<1>10. Becomes(Top, g, k, Top.rescues, Ls, Top.begins)
  BY <1>1, <1>2, <1>4 DEF Becomes, FrameT, Past
<1>11. Advance(g, stack) /\ bang' = bang /\ status' = status
  BY <1>4 DEF EnterLoop
<1>12. Steps(i, N[i].rescues, N[i].rescues) /\ Steps(i, N[i].loops, y)
  BY <1>2, <1>4, StepsSame DEF Steps
<1>13. Good(code, N, V, frames', stack', xfers', walks', seq') /\ code' = code
  BY <1>2, <1>5, <1>8, <1>9, <1>10, <1>11, <1>12, ScopeGood
<1> QED BY <1>1, <1>11, <1>13 DEF Sound

\* ExitLoop.
LEMMA ExitLoopGood ==
  ASSUME NEW N, WellNested(code, N), NEW V,
         NEW i, NEW gd, NEW gn, NEW m, Running(N, V, i, gd, gn, m), ExitLoop
  PROVE  Sound(N, V)'
<1>1. code[i].op = "ExitLoop" /\ code[i] = Instr /\ Top.ip = i /\ bang \in V /\ status = "running"
  BY DEF Running, ExitLoop, At
<1>2. /\ i \in DOMAIN N /\ Goes(code, N, i) /\ Top \in FrameT(V)
      /\ Top.rescues \in Seq(HandlerT(V)) /\ Top.loops \in Seq(LoopT) /\ Top.begins \in Seq(BeginT(V))
      /\ Shape(code, N, i, frames[Len(frames)].base, Len(stack), Top.rescues, Top.loops, Top.begins, gd, gn)
  BY RunningIs
<1>3. /\ N[i].loops # <<>>
      /\ Is(N, i + 1, Point(N[i].entry, N[i].rescues, Front(N[i].loops), N[i].bodies, N[i].begins, N[i].depth))
      /\ Level(N, Last(N[i].loops)) = Level(N, i)
      /\ Len(N[Last(N[i].loops)].begins) = Len(N[i].begins)
  BY <1>1, <1>2 DEF Goes
<1>4. PICK k, y, Ls, g : /\ k = i + 1 /\ y = Front(N[i].loops) /\ Ls = Front(Top.loops)
                         /\ g = [Past EXCEPT !.loops = Front(@)]
  OBVIOUS
<1>5. Is(N, k, Point(N[i].entry, N[i].rescues, y, N[i].bodies, N[i].begins, N[i].depth))
  BY <1>3, <1>4
<1>6. /\ k \in DOMAIN N /\ N[k].bodies = N[i].bodies /\ N[k].rescues = N[i].rescues
      /\ N[k].loops = y /\ N[k].begins = N[i].begins
  BY <1>5, PointFields
<1>7. /\ Shape(code, N, k, frames[Len(frames)].base, Dp(N, gd, k), Top.rescues, Ls, Top.begins, gd, gn)
      /\ Top.loops # <<>>
  <2>1. PICK e, s, R, Ks, B : /\ e = frames[Len(frames)].base /\ s = Len(stack) /\ R = Top.rescues
                              /\ Ks = Top.loops /\ B = Top.begins
    OBVIOUS
  <2>2. Shape(code, N, i, e, s, R, Ks, B, gd, gn) /\ B \in Seq(BeginT(V)) /\ Ks \in Seq(LoopT)
    BY <1>2, <2>1
  <2>3. code[i].op # Unnests /\ N[k].loops = Front(N[i].loops)
    BY <1>1, <1>4, <1>6 DEF Unnests
  <2>4. Shape(code, N, k, e, Dp(N, gd, k), R, Front(Ks), B, gd, gn) /\ Ks # <<>>
    BY <1>2, <1>3, <1>6, <2>2, <2>3, StayUnloop
  <2> QED BY <1>4, <2>1, <2>4
<1>8. Ls \in Seq(LoopT)
  BY <1>2, <1>4, <1>7, FrontSeq
<1>9. Becomes(Top, g, k, Top.rescues, Ls, Top.begins)
  BY <1>1, <1>2, <1>4 DEF Becomes, FrameT, Past
<1>10. Advance(g, stack) /\ bang' = bang /\ status' = status
  BY <1>4 DEF ExitLoop
<1>11. Steps(i, N[i].rescues, N[i].rescues) /\ Steps(i, N[i].loops, y)
  BY <1>2, <1>3, <1>4, StepsSame
<1>12. Good(code, N, V, frames', stack', xfers', walks', seq') /\ code' = code
  BY <1>2, <1>5, <1>7, <1>8, <1>9, <1>10, <1>11, ScopeGood
<1> QED BY <1>1, <1>10, <1>12 DEF Sound

\* TruncateRescuesToBeginBaseline.
LEMMA TruncateGood ==
  ASSUME NEW N, WellNested(code, N), NEW V,
         NEW i, NEW gd, NEW gn, NEW m, Running(N, V, i, gd, gn, m), TruncateRescuesToBeginBaseline
  PROVE  Sound(N, V)'
<1>1. /\ code[i].op = Unnests /\ code[i] = Instr /\ Top.ip = i /\ bang \in V /\ status = "running"
  BY DEF Running, TruncateRescuesToBeginBaseline, At, Unnests
<1>2. /\ i \in DOMAIN N /\ Goes(code, N, i) /\ Top \in FrameT(V) /\ gd \in Ghost /\ gn \in Ghost
      /\ Top.rescues \in Seq(HandlerT(V)) /\ Top.loops \in Seq(LoopT) /\ Top.begins \in Seq(BeginT(V))
      /\ Shape(code, N, i, frames[Len(frames)].base, Len(stack), Top.rescues, Top.loops, Top.begins, gd, gn)
  BY RunningIs
<1>3. PICK a : a = Last(N[i].begins)
  OBVIOUS
<1>4. /\ N[i].begins # <<>>
      /\ Is(N, i + 1, Point(N[i].entry, N[a].rescues, N[a].loops, N[i].bodies, N[i].begins, N[i].depth))
  BY <1>1, <1>2, <1>3 DEF Goes
<1>5. PICK k, R, Ls, g : /\ k = i + 1 /\ R = Upto(Top.rescues, Peek(Top.begins).rescues)
                         /\ Ls = Upto(Top.loops, Peek(Top.begins).loops)
                         /\ g = [Past EXCEPT !.rescues = R, !.loops = Ls]
  BY ZenonT(30)
<1>6. Is(N, k, Point(N[i].entry, N[a].rescues, N[a].loops, N[i].bodies, N[i].begins, N[i].depth))
  BY <1>4, <1>5
<1>7. /\ k \in DOMAIN N /\ N[k].bodies = N[i].bodies /\ N[k].rescues = N[a].rescues
      /\ N[k].loops = N[a].loops /\ N[k].begins = N[i].begins
  BY <1>6, PointFields
<1>8. /\ Shape(code, N, k, frames[Len(frames)].base, Dp(N, gd, k), R, Ls, Top.begins, gd, gn)
      /\ R \in Seq(HandlerT(V)) /\ Ls \in Seq(LoopT)
  <2>1. PICK e, s, Q, Ks, B : /\ e = frames[Len(frames)].base /\ s = Len(stack) /\ Q = Top.rescues
                              /\ Ks = Top.loops /\ B = Top.begins
    OBVIOUS
  <2>2. /\ Shape(code, N, i, e, s, Q, Ks, B, gd, gn) /\ B \in Seq(BeginT(V)) /\ Ks \in Seq(LoopT)
        /\ Q \in Seq(HandlerT(V))
    BY <1>2, <2>1
  <2>3. /\ N[k].rescues = N[Last(N[i].begins)].rescues /\ N[k].loops = N[Last(N[i].begins)].loops
    BY <1>3, <1>7
  <2>4. /\ Shape(code, N, k, e, Dp(N, gd, k), Upto(Q, Peek(B).rescues), Upto(Ks, Peek(B).loops), B, gd, gn)
        /\ Peek(B).rescues \in Nat /\ Peek(B).loops \in Nat
    BY <1>2, <1>4, <1>7, <2>2, <2>3, StayUnnest
  <2>5. Upto(Q, Peek(B).rescues) \in Seq(HandlerT(V)) /\ Upto(Ks, Peek(B).loops) \in Seq(LoopT)
    BY <2>2, <2>4, UptoSeq
  <2> QED BY <1>5, <2>1, <2>4, <2>5
<1>9. Becomes(Top, g, k, R, Ls, Top.begins)
  BY <1>1, <1>2, <1>5 DEF Becomes, FrameT, Past
<1>10. Advance(g, stack) /\ bang' = bang /\ status' = status
  <2>1. g = [Past EXCEPT !.rescues = Upto(@, Peek(Top.begins).rescues),
                         !.loops = Upto(@, Peek(Top.begins).loops)]
    BY <1>2, <1>5 DEF FrameT, Past
  <2> QED BY <2>1 DEF TruncateRescuesToBeginBaseline
<1>11. Steps(i, N[i].rescues, N[a].rescues) /\ Steps(i, N[i].loops, N[a].loops)
  <2>1. PICK n : n = Len(N[i].begins)
    OBVIOUS
  <2>2. N[i].begins \in Seq(Addr(code))
    BY <1>2, PointIs
  <2>3. n \in 1 .. Len(N[i].begins) /\ a = N[i].begins[n]
    BY <1>3, <1>4, <2>1, <2>2, FrontSeq
  <2>4. Around(N, N[i].begins[n], i)
    BY <1>2, <2>3, BeginIs
  <2>5. Around(N, a, i)
    BY <2>3, <2>4
  <2>6. Sub(N[a].rescues, N[i].rescues) /\ Sub(N[a].loops, N[i].loops)
    BY <1>2, <2>5, AroundIs
  <2> QED BY <2>6 DEF Steps
<1>12. Good(code, N, V, frames', stack', xfers', walks', seq') /\ code' = code
  BY <1>2, <1>6, <1>8, <1>9, <1>10, <1>11, ScopeGood
<1> QED BY <1>1, <1>10, <1>12 DEF Sound

\* The frame of a call: nothing is open in it.
LEMMA FreshFrame ==
  ASSUME NEW c, NEW N, NEW i \in Int, Is(N, i, Point(i, <<>>, <<>>, <<>>, <<>>, 0)), NEW b \in Nat, NEW V, NEW k,
         NEW g, g = Frame(i, b)
  PROVE  /\ FrameOK(c, N, g, b, k, {}, {}) /\ g \in FrameT(V)
         /\ g.ip = i /\ g.entry = i /\ g.base = b
<1>1. /\ g.ip = i /\ g.entry = i /\ g.base = b /\ g.rescues = <<>> /\ g.loops = <<>> /\ g.begins = <<>>
  BY DEF Frame
<1>2. g \in FrameT(V)
  BY DEF Frame, FrameT
<1>3. /\ i \in DOMAIN N /\ N[i].entry = i /\ N[i].rescues = <<>> /\ N[i].loops = <<>>
      /\ N[i].bodies = <<>> /\ N[i].begins = <<>> /\ N[i].depth = 0
  BY DEF Is, Point
<1>4. PICK gd, gn : gd = [x \in Nat |-> b] /\ gn = [x \in Nat |-> 0]
  OBVIOUS
<1>5. gd \in Ghost /\ gn \in Ghost /\ \A x \in Nat : gd[x] = b /\ gn[x] = 0
  BY <1>4 DEF Ghost
<1>6. Level(N, i) = 0 /\ Len(<<>>) = 0
  BY <1>3 DEF Level
<1>7. Shape(c, N, i, b, b, <<>>, <<>>, <<>>, gd, gn)
  <2>1. LevelsOK(N, <<>>, b, gd, gn)
    BY <1>5 DEF LevelsOK
  <2>2. Dp(N, gd, i) = b /\ Nb(N, gn, i) = 0
    BY <1>3, <1>5, <1>6 DEF Dp, Nb
  <2>3. HandlersOK(c, N, i, <<>>, <<>>, gd, gn) /\ LoopsOK(N, i, <<>>, <<>>, gd, gn)
    BY <1>3 DEF HandlersOK, LoopsOK
  <2>4. BeginsOK(N, i, <<>>, <<>>, gn)
    BY <1>3, <2>2 DEF BeginsOK, Held
  <2> QED BY <1>3, <2>1, <2>2, <2>3, <2>4 DEF Shape
<1>8. PICK m : m = 0
  OBVIOUS
<1>9. Life(c, N, i, gd, m, k, {}, {})
  <2>1. LiveOK(c, N, Ats({}) \cup Ats({}), i, gd, m)
    BY <1>3, <1>6, <1>8 DEF LiveOK
  <2>2. ParksOK(c, N, Ats({}) \cup Ats({}), N[i].bodies, gd)
    BY DEF ParksOK, Ats
  <2> QED BY <2>1, <2>2 DEF Life
<1>10. m \in Nat
  BY <1>8
<1>11. FrameOK(c, N, g, b, k, {}, {})
  <2>1. Shape(c, N, g.ip, g.base, b, g.rescues, g.loops, g.begins, gd, gn) /\ Life(c, N, g.ip, gd, m, k, {}, {})
    BY <1>1, <1>7, <1>9
  <2> QED BY <1>1, <1>3, <1>5, <1>10, <2>1 DEF FrameOK
<1> QED BY <1>1, <1>2, <1>11

\* A frame has its base under its operands.
LEMMA BaseUnder ==
  ASSUME NEW N, WellNested(code, N), NEW V, NEW i, NEW gd, NEW gn, NEW m, Running(N, V, i, gd, gn, m)
  PROVE  frames[Len(frames)].base <= Len(stack)
<1>1. /\ i \in DOMAIN N /\ gd \in Ghost
      /\ Shape(code, N, i, frames[Len(frames)].base, Len(stack), Top.rescues, Top.loops, Top.begins, gd, gn)
  BY RunningIs
<1>2. /\ gd[0] = frames[Len(frames)].base /\ Len(stack) = gd[Level(N, i)] + N[i].depth
      /\ \A l, k \in 0 .. Len(N[i].bodies) : l <= k => gd[l] <= gd[k]
  BY <1>1 DEF Shape, LevelsOK, Dp
<1>3. Level(N, i) \in Nat /\ Level(N, i) = Len(N[i].bodies) /\ N[i].depth \in Nat
  BY <1>1, PointIs DEF Level
<1>4. gd[0] \in Nat /\ gd[Level(N, i)] \in Nat
  BY <1>1, <1>3, GhostIs
<1>5. gd[0] <= gd[Level(N, i)]
  <2>1. PICK l, k : l = 0 /\ k = Level(N, i)
    OBVIOUS
  <2>2. l \in 0 .. Len(N[i].bodies) /\ k \in 0 .. Len(N[i].bodies) /\ l <= k
    BY <1>3, <2>1
  <2>3. gd[l] <= gd[k]
    BY <1>2, <2>2
  <2> QED BY <2>1, <2>3
<1> QED BY <1>2, <1>3, <1>4, <1>5

\* The caller, with the operand that its callee will leave.
LEMMA CallerGood ==
  ASSUME NEW N, WellNested(code, N), NEW V,
         NEW i, NEW gd, NEW gn, NEW m, Running(N, V, i, gd, gn, m), code[i].op = "Call",
         NEW v \in V, NEW ts, ts = Append(stack, v), NEW g, Moves(Top, g, i + 1)
  PROVE  Good(code, N, V, [frames EXCEPT ![Len(frames)] = g], ts, xfers, walks, seq) /\ g \in FrameT(V)
<1>1. /\ Cell(code, N, V, frames, stack, xfers, walks, seq, Len(frames), i, gd, gn, m)
      /\ i \in DOMAIN N /\ Goes(code, N, i) /\ stack \in Seq(V) /\ Len(stack) \in Nat /\ Top \in FrameT(V)
      /\ Top.rescues \in Seq(HandlerT(V)) /\ Top.loops \in Seq(LoopT) /\ Top.begins \in Seq(BeginT(V))
      /\ Shape(code, N, i, frames[Len(frames)].base, Len(stack), Top.rescues, Top.loops, Top.begins, gd, gn)
  BY RunningIs
<1>2. PICK k, d : k = i + 1 /\ d = N[i].depth + 1
  OBVIOUS
<1>3. Is(N, k, Point(N[i].entry, N[i].rescues, N[i].loops, N[i].bodies, N[i].begins, d))
  BY <1>1, <1>2 DEF Goes
<1>4. /\ N[k].rescues = N[i].rescues /\ N[k].loops = N[i].loops
      /\ N[k].bodies = N[i].bodies /\ N[k].begins = N[i].begins /\ N[k].depth = d
  BY <1>3, PointFields
<1>5. Steps(i, N[i].rescues, N[i].rescues) /\ Steps(i, N[i].loops, N[i].loops)
  BY <1>1, StepsSame
<1>6. Stays(N, i, k)
  BY <1>1, <1>3, <1>5, StaysIs
<1>7. ts \in Seq(V) /\ Len(ts) = Len(stack) + 1
  BY <1>1, AppendSeq
<1>8. Len(ts) = Dp(N, gd, k)
  <2>1. N[i].depth \in Nat /\ Dp(N, gd, k) = (Len(stack) - N[i].depth) + N[k].depth
    BY <1>1, <1>6, StayDepth
  <2> QED BY <1>1, <1>2, <1>4, <1>7, <2>1
<1>9. PICK f, e, R, Ls, B : /\ f = frames[Len(frames)] /\ e = f.base /\ R = f.rescues /\ Ls = f.loops /\ B = f.begins
  OBVIOUS
<1>10. f = Top
  BY <1>9 DEF Running
<1>11. /\ R \in Seq(HandlerT(V)) /\ Ls \in Seq(LoopT) /\ B \in Seq(BeginT(V))
       /\ Shape(code, N, k, e, Dp(N, gd, k), R, Ls, B, gd, gn)
  <2>1. PICK s : s = Len(stack)
    OBVIOUS
  <2>2. Shape(code, N, i, e, s, R, Ls, B, gd, gn) /\ code[i].op # Unnests
    BY <1>1, <1>9, <1>10, <2>1 DEF Unnests
  <2>3. Shape(code, N, k, e, Dp(N, gd, k), R, Ls, B, gd, gn)
    BY <1>4, <2>2, StaySame
  <2> QED BY <1>1, <1>9, <1>10, <2>3
<1>12. Becomes(f, g, k, R, Ls, B)
  <2>1. Moves(f, g, k) /\ f \in FrameT(V)
    BY <1>1, <1>2, <1>10
  <2> QED BY <1>9, <2>1, MovesIs
<1>13. /\ Becomes(frames[Len(frames)], g, k, R, Ls, B)
       /\ Shape(code, N, k, frames[Len(frames)].base, Dp(N, gd, k), R, Ls, B, gd, gn)
  BY <1>9, <1>11, <1>12
<1> QED BY <1>1, <1>6, <1>7, <1>8, <1>11, <1>13, StayGood

\* Call.
LEMMA CallGood ==
  ASSUME NEW N, WellNested(code, N), NEW V, ValueT(code) \subseteq V,
         NEW i, NEW gd, NEW gn, NEW m, Running(N, V, i, gd, gn, m), CallOp
  PROVE  Sound(N, V)'
<1>1. code[i].op = "Call" /\ code[i] = Instr /\ Top.ip = i /\ bang \in V /\ status = "running"
  BY DEF Running, CallOp, At
<1>2. /\ i \in DOMAIN N /\ i \in Nat /\ code[i].v \in V /\ Goal(code, i) = Target /\ Jumps(code, N, i)
      /\ stack \in Seq(V) /\ Len(stack) \in Nat /\ Top \in FrameT(V)
      /\ Good(code, N, V, frames, stack, xfers, walks, seq)
  <2>1. code[i].v \in ValueT(code)
    BY RunningIs
  <2> QED BY <2>1, RunningIs
<1>3. PICK v, ts, e, g, n, fs, b, j : /\ v = code[i].v /\ ts = Append(stack, v) /\ e = Past /\ n = Len(frames)
                                      /\ fs = Set(e) /\ b = Len(stack) /\ j = Target /\ g = Frame(j, b)
  OBVIOUS
<1>4. Moves(Top, e, i + 1)
  BY <1>1, <1>3 DEF Moves, Past
<1>5. Good(code, N, V, [frames EXCEPT ![Len(frames)] = e], ts, xfers, walks, seq) /\ e \in FrameT(V)
  BY <1>1, <1>2, <1>3, <1>4, CallerGood
<1>6. Good(code, N, V, fs, ts, xfers, walks, seq)
  BY <1>3, <1>5 DEF Set
<1>7. frames \in Seq(FrameT(V)) /\ frames # <<>> /\ n \in Nat /\ n \in 1 .. Len(frames)
  <2>1. frames \in Seq(FrameT(V)) /\ frames # <<>>
    BY <1>2 DEF Good
  <2> QED BY <1>3, <2>1, EmptySeq, LenProperties
<1>8. Len(fs) = n /\ fs[n] = e
  BY <1>3, <1>7 DEF Set
<1>9. e.ip = i + 1 /\ e.base = frames[n].base
  <2>1. Top = frames[n]
    BY <1>3 DEF Running
  <2> QED BY <1>2, <1>4, <2>1 DEF Moves, FrameT
<1>10. frames[n].base <= Len(stack)
  BY <1>3, BaseUnder
<1>11. Is(N, j, Point(j, <<>>, <<>>, <<>>, <<>>, 0)) /\ j # 1 /\ j \in Int
  <2>1. Goal(code, i) # 1 /\ Is(N, Goal(code, i), Point(Goal(code, i), <<>>, <<>>, <<>>, <<>>, 0))
    BY <1>1, <1>2 DEF Jumps
  <2>2. Goal(code, i) \in Int
    BY <1>2, PointIs
  <2> QED BY <1>2, <1>3, <2>1, <2>2
<1>12. /\ FrameOK(code, N, g, b, n + 1, {}, {}) /\ g \in FrameT(V)
       /\ g.ip = j /\ g.entry = j /\ g.base = b
  <2>1. b \in Nat /\ g = Frame(j, b)
    BY <1>2, <1>3
  <2>2. FrameOK(code, N, g, b, n + 1, {}, {})
    BY <1>11, <2>1, FreshFrame
  <2>3. g \in FrameT(V) /\ g.ip = j /\ g.entry = j /\ g.base = b
    BY <1>11, <2>1 DEF Frame, FrameT
  <2> QED BY <2>2, <2>3
<1>13. Good(code, N, V, Append(fs, g), stack, xfers, walks, seq)
  <2>1. Len(ts) = Len(stack) + 1
    BY <1>2, <1>3, AppendSeq
  <2>2. fs[Len(fs)].ip - 1 \in DOMAIN N /\ code[fs[Len(fs)].ip - 1].op = "Call"
    <3>1. fs[Len(fs)].ip = i + 1
      BY <1>8, <1>9
    <3>2. (i + 1) - 1 = i
      BY <1>2
    <3> QED BY <1>1, <1>2, <3>1, <3>2
  <2>3. fs[Len(fs)].base <= Len(stack)
    BY <1>8, <1>9, <1>10
  <2>4. FrameOK(code, N, g, Len(stack), Len(fs) + 1, {}, {}) /\ g.base = Len(stack) /\ g.entry # 1
    BY <1>3, <1>8, <1>11, <1>12
  <2> QED BY <1>2, <1>6, <1>12, <2>1, <2>2, <2>3, <2>4, PushFrame
<1>14. /\ frames' = Append(fs, g) /\ stack' = stack /\ xfers' = xfers /\ walks' = walks /\ seq' = seq
       /\ code' = code /\ bang' = bang /\ status' = status
  BY <1>3 DEF CallOp, Quiet, fixed
<1>15. Good(code, N, V, frames', stack', xfers', walks', seq')
  BY <1>13, <1>14
<1> QED BY <1>1, <1>14, <1>15 DEF Sound

\* BreakLoop and NextLoop.
LEMMA LeapSound ==
  ASSUME NEW N, WellNested(code, N), NEW V,
         NEW i, NEW gd, NEW gn, NEW m, Running(N, V, i, gd, gn, m), BreakLoop \/ NextLoop
  PROVE  Sound(N, V)'
<1>1. Good(code, N, V, frames, stack, xfers, walks, seq) /\ bang \in V /\ status = "running"
  BY RunningIs DEF Running
<1>2. Good(code, N, V, frames', stack', xfers', walks', seq')
  BY <1>1, BreakGood, NextGood
<1>3. PICK value, st : BeginTransfer(value, st)
  BY DEF BreakLoop, NextLoop
<1>4. code' = code /\ status' = status
  BY <1>3 DEF BeginTransfer, fixed
<1>5. bang' \in V
  <2>1. PICK t, others : ContinueTransfer(t, others, Set(Past), st)
    BY <1>3 DEF BeginTransfer
  <2>2. Handed(V, frames, Set(Past))
    BY <1>1, HandedPast
  <2>3. PICK hs : hs = Set(Past)
    OBVIOUS
  <2>4. hs \in Seq(FrameT(V)) /\ hs # <<>>
    <3>1. frames \in Seq(FrameT(V)) /\ frames # <<>>
      BY <1>1 DEF Good
    <3>2. hs \in Seq(FrameT(V)) /\ Len(hs) = Len(frames)
      BY <2>2, <2>3 DEF Handed
    <3> QED BY <3>1, <3>2, EmptySeq
  <2>5. ContinueTransfer(t, others, hs, st)
    BY <2>1, <2>3
  <2> QED BY <1>1, <2>4, <2>5, TransferBang
<1> QED BY <1>1, <1>2, <1>4, <1>5 DEF Sound

\* Return.
LEMMA ReturnSound ==
  ASSUME NEW N, WellNested(code, N), NEW V,
         NEW i, NEW gd, NEW gn, NEW m, Running(N, V, i, gd, gn, m), ReturnOp
  PROVE  Sound(N, V)'
<1>1. Good(code, N, V, frames, stack, xfers, walks, seq) /\ bang \in V /\ status = "running"
  BY RunningIs DEF Running
<1>2. Good(code, N, V, frames', stack', xfers', walks', seq')
  BY <1>1, ReturnGood
<1>3. frames \in Seq(FrameT(V)) /\ Len(frames) \in Nat \ {0}
  <2>1. frames \in Seq(FrameT(V)) /\ frames # <<>>
    BY <1>1 DEF Good
  <2> QED BY <2>1, EmptySeq, LenProperties
<1>4. CASE PendingEnsure(Top)
  <2>1. BeginWalk(Peek(stack), Len(frames), Set(Past), Front(stack))
    BY <1>4 DEF ReturnOp
  <2>2. PICK w, others : w.target = Len(frames) /\ ContinueWalk(w, others, Set(Past), Front(stack))
    <3>1. PICK w : w = [value |-> Peek(stack), target |-> Len(frames), at |-> Moving]
      OBVIOUS
    <3>2. w.target = Len(frames)
      BY <3>1
    <3> QED BY <2>1, <3>1, <3>2 DEF BeginWalk
  <2>3. code' = code /\ status' = status
    BY <2>1 DEF BeginWalk, fixed
  <2>4. PICK hs : hs = Set(Past)
    OBVIOUS
  <2>5. hs \in Seq(FrameT(V))
    <3>1. Handed(V, frames, Set(Past))
      BY <1>1, HandedPast
    <3> QED BY <2>4, <3>1 DEF Handed
  <2>6. ContinueWalk(w, others, hs, Front(stack)) /\ w.target \in Nat \ {0}
    BY <1>3, <2>2, <2>4
  <2>7. bang' \in V
    BY <1>1, <2>5, <2>6, WalkBang
  <2> QED BY <1>1, <1>2, <2>3, <2>7 DEF Sound
<1>5. CASE ~ PendingEnsure(Top)
  <2>1. code' = code /\ status' = status /\ bang' = BangAfterPop(frames, Len(frames) - 1)
    BY <1>5 DEF ReturnOp, fixed
  <2>2. PICK k : k = Len(frames) - 1
    OBVIOUS
  <2>3. k \in Nat
    BY <1>3, <2>2
  <2>4. BangAfterPop(frames, k) \in V
    BY <1>1, <1>3, <2>3, PopBang
  <2> QED BY <1>1, <1>2, <2>1, <2>2, <2>4 DEF Sound
<1> QED BY <1>4, <1>5

(***************************************************************************)
(* The invariant of the specification: the code is nested in some way, and *)
(* the frames, the operands and the walks agree with that nesting.         *)
(***************************************************************************)
Values == ValueT(code) \cup {NilValue, RuntimeErr}
IInv   == \E N : WellNested(code, N) /\ Sound(N, Values)

\* The programs are those a compiler that nests what it opens can emit.
WellNestedPrograms == \A p \in Programs : \E N : WellNested(CodeOf(p), N)

\* A program starts in a frame of its own.
LEMMA StartSound ==
  ASSUME NEW N, WellNested(code, N), NEW V, NilValue \in V, Init
  PROVE  Sound(N, V)
<1>1. /\ frames = <<Frame(1, 0)>> /\ stack = <<>> /\ xfers = <<>> /\ walks = <<>> /\ seq = 0
      /\ bang = NilValue /\ status = "running"
  BY DEF Init
<1>2. PICK i, b, n, g : i = 1 /\ b = 0 /\ n = 1 /\ g = Frame(i, b)
  OBVIOUS
<1>3. Is(N, i, Point(i, <<>>, <<>>, <<>>, <<>>, 0)) /\ i \in Int /\ b \in Nat
  BY <1>2 DEF WellNested
<1>4. FrameOK(code, N, g, b, n, {}, {})
  BY <1>2, <1>3, FreshFrame
<1>5. g \in FrameT(V) /\ g.entry = 1
  BY <1>2, <1>3 DEF Frame, FrameT
<1>6. PICK fs : fs = <<g>>
  OBVIOUS
<1>7. fs \in Seq(FrameT(V)) /\ Len(fs) = 1 /\ fs # <<>> /\ fs[1] = g
  BY <1>5, <1>6
<1>8. PICK xs, st : xs = <<>> /\ st = <<>>
  OBVIOUS
<1>9. /\ xs \in Seq(XferT(V)) /\ xs \in Seq(WalkT(V)) /\ st \in Seq(V) /\ Len(st) = 0
      /\ Range(xs) = {} /\ Len(xs) = 0
  BY <1>8 DEF Range
<1>10. \A k \in 1 .. Len(fs) :
         FrameOK(code, N, fs[k], Height(fs, Len(st), k), k, In(Range(xs), k), In(Range(xs), k))
  <2>1. In(Range(xs), n) = {}
    BY <1>9 DEF In
  <2>2. Height(fs, Len(st), n) = b
    BY <1>2, <1>7, <1>9 DEF Height
  <2>3. FrameOK(code, N, fs[n], Height(fs, Len(st), n), n, In(Range(xs), n), In(Range(xs), n))
    BY <1>2, <1>4, <1>7, <2>1, <2>2
  <2>4. \A k \in 1 .. Len(fs) : k = n
    BY <1>2, <1>7
  <2> QED BY <2>3, <2>4
<1>11. CallsOK(code, N, fs)
  <2>1. g.base \in Nat
    BY <1>5 DEF FrameT
  <2> QED BY <1>5, <1>7, <2>1 DEF CallsOK
<1>12. WalksOK(N, V, 1, xs, xs, 0)
  <2>1. Ats(Range(xs)) \cup Ats(Range(xs)) = {}
    BY <1>9 DEF Ats
  <2>2. Chain(xs, Earlier(XferT(V))) /\ Chain(xs, Earlier(WalkT(V)))
    BY <1>9 DEF Chain
  <2> QED BY <1>9, <2>1, <2>2 DEF WalksOK
<1>13. Good(code, N, V, fs, st, xs, xs, 0)
  <2>1. WalksOK(N, V, Len(fs), xs, xs, 0)
    BY <1>7, <1>12
  <2> QED BY <1>7, <1>9, <1>10, <1>11, <2>1 DEF Good
<1>14. Good(code, N, V, frames, stack, xfers, walks, seq)
  BY <1>1, <1>2, <1>6, <1>8, <1>13
<1> QED BY <1>1, <1>14 DEF Sound

\* No bytecode changes the code.
LEMMA CodeFixed ==
  ASSUME Next
  PROVE  code' = code
<1>1. ASSUME Load \/ Pop \/ TickOp \/ Jump \/ JumpUnless \/ PushHandler \/ PopHandler \/ EnterBegin
             \/ ExitBegin \/ TruncateRescuesToBeginBaseline \/ EnterLoop \/ ExitLoop
      PROVE  code' = code
  <2>1. PICK f, st : Advance(f, st)
    BY <1>1 DEF Load, Pop, TickOp, Jump, JumpUnless, PushHandler, PopHandler, EnterBegin,
                ExitBegin, TruncateRescuesToBeginBaseline, EnterLoop, ExitLoop
  <2> QED BY <2>1 DEF Advance, Quiet, fixed
<1>2. ASSUME CallOp \/ Halt PROVE code' = code
  BY <1>2 DEF CallOp, Halt, Quiet, fixed
<1>3. ASSUME BreakLoop \/ NextLoop PROVE code' = code
  <2>1. PICK value, st : BeginTransfer(value, st)
    BY <1>3 DEF BreakLoop, NextLoop
  <2> QED BY <2>1 DEF BeginTransfer, fixed
<1>4. ASSUME NEW exc, NEW fs, NEW st, Unwind(exc, fs, st) PROVE code' = code
  BY <1>4, ZenonT(30) DEF Unwind, fixed
<1>5. ASSUME RaiseOp PROVE code' = code
  BY <1>4, <1>5 DEF RaiseOp
<1>6. ASSUME EndEnsure PROVE code' = code
  BY <1>4, <1>6 DEF EndEnsure, Quiet, fixed
<1>7. ASSUME ReturnOp PROVE code' = code
  BY <1>7 DEF ReturnOp, BeginWalk, fixed
<1>8. ASSUME Stopped PROVE code' = code
  BY <1>8 DEF Stopped, vars
<1> QED BY <1>1, <1>2, <1>3, <1>5, <1>6, <1>7, <1>8 DEF Next

\* A step that changes nothing.
LEMMA SameSound ==
  ASSUME NEW N, NEW V, Sound(N, V), UNCHANGED vars
  PROVE  Sound(N, V)' /\ code' = code
<1>1. /\ code' = code /\ frames' = frames /\ stack' = stack /\ xfers' = xfers /\ walks' = walks
      /\ seq' = seq /\ bang' = bang /\ status' = status
  BY DEF vars
<1> QED BY <1>1 DEF Sound

\* Nothing runs once the program has stopped.
LEMMA OnlyRunning ==
  ASSUME Next, status # "running"
  PROVE  UNCHANGED vars
BY DEF Next, Load, Pop, TickOp, Jump, JumpUnless, CallOp, Halt, PushHandler, PopHandler, EnterBegin,
       ExitBegin, TruncateRescuesToBeginBaseline, EnterLoop, ExitLoop, BreakLoop, NextLoop, RaiseOp,
       EndEnsure, ReturnOp, Stopped, At

\* Every bytecode.
LEMMA RunSound ==
  ASSUME NEW N, WellNested(code, N), NEW V, ValueT(code) \subseteq V, NilValue \in V, RuntimeErr \in V,
         NEW i, NEW gd, NEW gn, NEW m, Running(N, V, i, gd, gn, m), Next
  PROVE  Sound(N, V)'
<1>1. Good(code, N, V, frames, stack, xfers, walks, seq) /\ bang \in V /\ status = "running"
  BY RunningIs DEF Running
<1>2. CASE Load
  BY <1>2, LoadGood
<1>3. CASE Pop
  BY <1>3, PopGood
<1>4. CASE TickOp
  BY <1>4, TickGood
<1>5. CASE Jump
  BY <1>5, JumpGood
<1>6. CASE JumpUnless
  BY <1>6, JumpUnlessGood
<1>7. CASE CallOp
  BY <1>7, CallGood
<1>8. CASE Halt
  BY <1>8, HaltGood
<1>9. CASE PushHandler
  BY <1>9, PushHandlerGood
<1>10. CASE PopHandler
  BY <1>10, PopHandlerGood
<1>11. CASE EnterBegin
  BY <1>11, EnterBeginGood
<1>12. CASE ExitBegin
  BY <1>12, ExitBeginGood
<1>13. CASE TruncateRescuesToBeginBaseline
  BY <1>13, TruncateGood
<1>14. CASE EnterLoop
  BY <1>14, EnterLoopGood
<1>15. CASE ExitLoop
  BY <1>15, ExitLoopGood
<1>16. CASE BreakLoop \/ NextLoop
  BY <1>16, LeapSound
<1>17. CASE RaiseOp
  BY <1>1, <1>17, RaiseGood
<1>18. CASE EndEnsure
  BY <1>1, <1>18, EndEnsureGood
<1>19. CASE ReturnOp
  BY <1>19, ReturnSound
<1>20. CASE Stopped
  BY <1>1, <1>20 DEF Stopped
<1> QED BY <1>2, <1>3, <1>4, <1>5, <1>6, <1>7, <1>8, <1>9, <1>10, <1>11, <1>12, <1>13, <1>14, <1>15,
           <1>16, <1>17, <1>18, <1>19, <1>20 DEF Next

\* Every step.
LEMMA StepSound ==
  ASSUME NEW N, WellNested(code, N), NEW V, ValueT(code) \subseteq V, NilValue \in V, RuntimeErr \in V,
         Sound(N, V), [Next]_vars
  PROVE  Sound(N, V)' /\ code' = code
<1>1. CASE UNCHANGED vars
  BY <1>1, SameSound
<1>2. CASE Next /\ status # "running"
  BY <1>2, OnlyRunning, SameSound
<1>3. CASE Next /\ status = "running"
  <2>1. Good(code, N, V, frames, stack, xfers, walks, seq) /\ bang \in V
    BY <1>3 DEF Sound
  <2>2. PICK i \in DOMAIN N : \E gd, gn \in Ghost : \E m \in Nat :
          /\ Cell(code, N, V, frames, stack, xfers, walks, seq, Len(frames), i, gd, gn, m)
          /\ i = Top.ip /\ code[i] = Instr /\ Top = frames[Len(frames)]
    BY <2>1, TopCell
  <2>3. PICK gd, gn \in Ghost, m \in Nat :
          /\ Cell(code, N, V, frames, stack, xfers, walks, seq, Len(frames), i, gd, gn, m)
          /\ i = Top.ip /\ code[i] = Instr /\ Top = frames[Len(frames)]
    BY <2>2
  <2>4. Running(N, V, i, gd, gn, m)
    BY <1>3, <2>1, <2>3 DEF Running
  <2>5. Sound(N, V)'
    BY <1>3, <2>4, RunSound
  <2>6. code' = code
    BY <1>3, CodeFixed
  <2> QED BY <2>5, <2>6
<1> QED BY <1>1, <1>2, <1>3

\* IInv holds at the start.
LEMMA InitInv ==
  ASSUME WellNestedPrograms, Init
  PROVE  IInv
<1>1. prog \in Programs /\ code = CodeOf(prog)
  BY DEF Init
<1>2. PICK N : WellNested(code, N)
  BY <1>1 DEF WellNestedPrograms
<1>3. PICK V : V = Values
  OBVIOUS
<1>4. NilValue \in V
  BY <1>3 DEF Values
<1>5. Sound(N, V)
  BY <1>2, <1>4, StartSound
<1> QED BY <1>2, <1>3, <1>5 DEF IInv

\* Every step keeps it.
LEMMA StepInv ==
  ASSUME IInv, [Next]_vars
  PROVE  IInv'
<1>1. PICK N : WellNested(code, N) /\ Sound(N, Values)
  BY DEF IInv
<1>2. PICK V : V = Values
  OBVIOUS
<1>3. ValueT(code) \subseteq V /\ NilValue \in V /\ RuntimeErr \in V
  BY <1>2 DEF Values
<1>4. Sound(N, V)
  BY <1>1, <1>2
<1>5. Sound(N, V)' /\ code' = code
  BY <1>1, <1>3, <1>4, StepSound
<1>6. Values' = V
  BY <1>2, <1>5 DEF Values
<1>7. Sound(N, Values)'
  BY <1>5, <1>6 DEF Sound
<1>8. WellNested(code', N)
  BY <1>1, <1>5
<1> QED BY <1>7, <1>8 DEF IInv

(***************************************************************************)
(* What the invariant gives.                                               *)
(***************************************************************************)
\* A walk is parked in the body that its frame is in.
LEMMA ParkedInBody ==
  ASSUME NEW c, NEW N, WellNested(c, N), NEW V, NEW fs, NEW st, NEW xs, NEW ws, NEW q,
         Good(c, N, V, fs, st, xs, ws, q), NEW w \in Range(xs) \cup Range(ws)
  PROVE  /\ w.at.frame \in 1 .. Len(fs)
         /\ fs[w.at.frame].ip \in w.at.body .. BodyEnd(c, w.at.body)
<1>1. w.at.frame \in 1 .. Len(fs)
  BY AtsOn
<1>2. PICK k, i, at : k = w.at.frame /\ i = fs[k].ip /\ at = w.at
  OBVIOUS
<1>3. PICK gd, gn \in Ghost : \E m \in Nat : Cell(c, N, V, fs, st, xs, ws, q, k, i, gd, gn, m)
  BY <1>1, <1>2, CellIs
<1>4. PICK m \in Nat : Cell(c, N, V, fs, st, xs, ws, q, k, i, gd, gn, m)
  BY <1>3
<1>5. /\ ParksOK(c, N, Ats(In(Range(xs), k)) \cup Ats(In(Range(ws), k)), N[i].bodies, gd)
      /\ i \in DOMAIN N
  BY <1>4, CellFields
<1>6. at \in Ats(In(Range(xs), k)) \cup Ats(In(Range(ws), k))
  BY <1>2 DEF Ats, In
<1>7. PICK l : l = Level(N, at.body)
  OBVIOUS
<1>8. l \in 1 .. Len(N[i].bodies) /\ at.body = Goal(c, N[i].bodies[l])
  BY <1>5, <1>6, <1>7 DEF ParksOK
<1>9. i \in Goal(c, N[i].bodies[l]) .. BodyEnd(c, Goal(c, N[i].bodies[l]))
  BY <1>5, <1>8, BodyIs
<1>10. fs[k].ip \in at.body .. BodyEnd(c, at.body)
  BY <1>2, <1>8, <1>9
<1> QED BY <1>1, <1>2, <1>10

\* So no walk is left parked in a body that control has left.
LEMMA InvNoStaleWalk ==
  ASSUME IInv
  PROVE  NoStaleWalk
<1>1. PICK N : WellNested(code, N) /\ Sound(N, Values)
  BY DEF IInv
<1>2. CASE xfers = <<>> /\ walks = <<>>
  <2>1. Range(xfers) \cup Range(walks) = {}
    BY <1>2 DEF Range
  <2> QED BY <2>1 DEF NoStaleWalk
<1>3. CASE Good(code, N, Values, frames, stack, xfers, walks, seq)
  <2> SUFFICES ASSUME NEW w \in Range(xfers) \cup Range(walks)
               PROVE  /\ w.at.frame <= Len(frames)
                      /\ frames[w.at.frame].ip \in w.at.body .. BodyEnd(code, w.at.body)
    BY DEF NoStaleWalk
  <2>1. /\ w.at.frame \in 1 .. Len(frames)
        /\ frames[w.at.frame].ip \in w.at.body .. BodyEnd(code, w.at.body)
    BY <1>1, <1>3, ParkedInBody
  <2>2. Len(frames) \in Nat
    BY <1>3, LenProperties DEF Good
  <2> QED BY <2>1, <2>2
<1> QED BY <1>1, <1>2, <1>3 DEF Sound

\* The top frame of a program that runs.
LEMMA InvRunning ==
  ASSUME IInv, status = "running"
  PROVE  \E N, V, i, gd, gn, m : WellNested(code, N) /\ Running(N, V, i, gd, gn, m)
<1>1. PICK N : WellNested(code, N) /\ Sound(N, Values)
  BY DEF IInv
<1>2. PICK V : V = Values
  OBVIOUS
<1>3. Good(code, N, V, frames, stack, xfers, walks, seq) /\ bang \in V
  BY <1>1, <1>2 DEF Sound
<1>4. PICK i \in DOMAIN N : \E gd, gn \in Ghost : \E m \in Nat :
        /\ Cell(code, N, V, frames, stack, xfers, walks, seq, Len(frames), i, gd, gn, m)
        /\ i = Top.ip /\ code[i] = Instr /\ Top = frames[Len(frames)]
  BY <1>1, <1>3, TopCell
<1>5. PICK gd, gn \in Ghost, m \in Nat :
        /\ Cell(code, N, V, frames, stack, xfers, walks, seq, Len(frames), i, gd, gn, m)
        /\ i = Top.ip /\ code[i] = Instr /\ Top = frames[Len(frames)]
  BY <1>4
<1>6. Running(N, V, i, gd, gn, m)
  BY <1>3, <1>5 DEF Running
<1> QED BY <1>1, <1>6

\* At a leaf the stacks are those of the text.
LEMMA InvStacksMatchNesting ==
  ASSUME IInv
  PROVE  StacksMatchNesting
<1> SUFFICES ASSUME status = "running", Instr.op = "Tick"
             PROVE  /\ Len(Top.rescues) = Nesting(code, Pushes, Pops, Top.entry, Top.ip)
                    /\ Len(Top.loops) = Nesting(code, {"EnterLoop"}, {"ExitLoop"}, Top.entry, Top.ip)
  BY DEF StacksMatchNesting
<1>1. PICK N, V, i, gd, gn, m : WellNested(code, N) /\ Running(N, V, i, gd, gn, m)
  BY InvRunning
<1>2. code[i].op = "Tick" /\ Top.ip = i /\ Top = frames[Len(frames)]
  BY <1>1 DEF Running
<1>3. /\ i \in DOMAIN N /\ Cell(code, N, V, frames, stack, xfers, walks, seq, Len(frames), i, gd, gn, m)
      /\ Shape(code, N, i, frames[Len(frames)].base, Len(stack), Top.rescues, Top.loops, Top.begins, gd, gn)
  BY <1>1, RunningIs
<1>4. Len(Top.rescues) = Len(N[i].rescues) /\ Len(Top.loops) = Len(N[i].loops)
  BY <1>2, <1>3 DEF Shape, LoopsOK, Unnests
<1>5. Top.entry = N[i].entry
  BY <1>2, <1>3, CellAt
<1>6. Marked(code, N, i)
  BY <1>1, <1>3 DEF WellNested
<1> QED BY <1>2, <1>4, <1>5, <1>6 DEF Marked

\* The operands, scopes and frames that the instruction at ip takes away are there:
\* no pop, no unwrap of a last entry and no index of the interpreter fails.
NoUnderflow ==
  status = "running" =>
    LET op == Instr.op
    IN /\ op \in {"Pop", "Raise", "BreakLoop", "Return"} => Len(stack) > Top.base
       /\ op \in Pops => Top.rescues # <<>>
       /\ op \in Leaps \cup {"ExitLoop"} => Top.loops # <<>>
       /\ op \in {"ExitBegin", Unnests} => Top.begins # <<>>
       /\ op = "Return" => Len(frames) > 1

\* What an instruction takes away is there.
LEMMA InvNoUnderflow ==
  ASSUME IInv
  PROVE  NoUnderflow
<1> SUFFICES ASSUME status = "running"
             PROVE  /\ Instr.op \in {"Pop", "Raise", "BreakLoop", "Return"} => Len(stack) > Top.base
                    /\ Instr.op \in Pops => Top.rescues # <<>>
                    /\ Instr.op \in Leaps \cup {"ExitLoop"} => Top.loops # <<>>
                    /\ Instr.op \in {"ExitBegin", Unnests} => Top.begins # <<>>
                    /\ Instr.op = "Return" => Len(frames) > 1
  BY DEF NoUnderflow
<1>1. PICK N, V, i, gd, gn, m : WellNested(code, N) /\ Running(N, V, i, gd, gn, m)
  BY InvRunning
<1>2. code[i] = Instr /\ Top.ip = i /\ Top = frames[Len(frames)]
  BY <1>1 DEF Running
<1>3. /\ i \in DOMAIN N /\ Cell(code, N, V, frames, stack, xfers, walks, seq, Len(frames), i, gd, gn, m)
      /\ gd \in Ghost /\ gn \in Ghost /\ Goes(code, N, i) /\ Jumps(code, N, i) /\ Len(stack) \in Nat
      /\ Len(Top.rescues) \in Nat /\ Len(Top.loops) \in Nat /\ Len(Top.begins) \in Nat
      /\ Shape(code, N, i, frames[Len(frames)].base, Len(stack), Top.rescues, Top.loops, Top.begins, gd, gn)
      /\ Good(code, N, V, frames, stack, xfers, walks, seq)
  BY <1>1, RunningIs
<1>4. /\ Len(N[i].rescues) <= Len(Top.rescues) /\ Len(Top.loops) = Len(N[i].loops)
      /\ Len(Top.begins) = gn[Level(N, i)] + Len(N[i].begins)
      /\ Len(stack) = gd[Level(N, i)] + N[i].depth
      /\ gd[0] = Top.base /\ \A l, k \in 0 .. Len(N[i].bodies) : l <= k => gd[l] <= gd[k]
  BY <1>2, <1>3 DEF Shape, HandlersOK, LoopsOK, BeginsOK, LevelsOK, Dp, Nb
<1>5. /\ N[i].depth \in Nat /\ Level(N, i) \in Nat /\ Level(N, i) = Len(N[i].bodies)
      /\ N[i].rescues \in Seq(Addr(code)) /\ N[i].loops \in Seq(Addr(code)) /\ N[i].begins \in Seq(Addr(code))
      /\ Len(N[i].rescues) \in Nat /\ Len(N[i].loops) \in Nat /\ Len(N[i].begins) \in Nat
  BY <1>1, <1>3, PointIs DEF Level
<1>6. gd[0] \in Nat /\ gd[Level(N, i)] \in Nat /\ gn[Level(N, i)] \in Nat
  BY <1>3, <1>5, GhostIs
<1>7. gd[0] <= gd[Level(N, i)]
  <2>1. PICK l, k : l = 0 /\ k = Level(N, i)
    OBVIOUS
  <2>2. l \in 0 .. Len(N[i].bodies) /\ k \in 0 .. Len(N[i].bodies) /\ l <= k
    BY <1>5, <2>1
  <2>3. gd[l] <= gd[k]
    BY <1>4, <2>2
  <2> QED BY <2>1, <2>3
<1>8. ASSUME Instr.op \in {"Pop", "Raise", "BreakLoop", "Return"} PROVE Len(stack) > Top.base
  <2>1. N[i].depth >= 1
    BY <1>2, <1>3, <1>8 DEF Goes, Jumps, Leaps, Leaves, Returns, Popping
  <2> QED BY <1>4, <1>5, <1>6, <1>7, <2>1
<1>9. ASSUME Instr.op \in Pops PROVE Top.rescues # <<>>
  <2>1. N[i].rescues # <<>>
    BY <1>2, <1>3, <1>9 DEF Goes
  <2>2. Len(N[i].rescues) # 0
    BY <1>5, <2>1, EmptySeq
  <2> QED BY <1>3, <1>4, <1>5, <2>2
<1>10. ASSUME Instr.op \in Leaps \cup {"ExitLoop"} PROVE Top.loops # <<>>
  <2>1. N[i].loops # <<>>
    BY <1>2, <1>3, <1>10 DEF Goes, Jumps, Leaves
  <2>2. Len(N[i].loops) # 0
    BY <1>5, <2>1, EmptySeq
  <2> QED BY <1>3, <1>4, <1>5, <2>2
<1>11. ASSUME Instr.op \in {"ExitBegin", Unnests} PROVE Top.begins # <<>>
  <2>1. N[i].begins # <<>>
    BY <1>2, <1>3, <1>11 DEF Goes
  <2>2. Len(N[i].begins) # 0
    BY <1>5, <2>1, EmptySeq
  <2>3. PICK x, y, z : x = gn[Level(N, i)] /\ y = Len(N[i].begins) /\ z = Len(Top.begins)
    OBVIOUS
  <2>4. x \in Nat /\ y \in Nat /\ y # 0 /\ z = x + y
    BY <1>4, <1>5, <1>6, <2>2, <2>3
  <2>5. Len(Top.begins) # 0
    BY ONLY <2>3, <2>4
  <2> QED BY <2>5
<1>12. ASSUME Instr.op = "Return" PROVE Len(frames) > 1
  <2>1. N[i].entry # 1
    BY <1>2, <1>3, <1>12 DEF Jumps, Returns
  <2>2. Top.entry = N[i].entry
    BY <1>2, <1>3, CellAt
  <2>3. Len(frames) \in Nat /\ Len(frames) \in 1 .. Len(frames) /\ CallsOK(code, N, frames)
    <3>1. Len(frames) \in Nat /\ Len(frames) \in 1 .. Len(frames)
      BY <1>3, CellFields
    <3> QED BY <1>3, <3>1 DEF Good
  <2>4. frames[Len(frames)].entry = 1 <=> Len(frames) = 1
    BY <2>3 DEF CallsOK
  <2>5. Len(frames) # 1
    BY <1>2, <2>1, <2>2, <2>4
  <2>6. PICK n : n = Len(frames)
    OBVIOUS
  <2>7. n \in Nat /\ n \in 1 .. n /\ n # 1
    BY <2>3, <2>5, <2>6
  <2>8. n > 1
    BY ONLY <2>7
  <2> QED BY <2>6, <2>8
<1> QED BY <1>8, <1>9, <1>10, <1>11, <1>12

(***************************************************************************)
(* The theorems.                                                           *)
(***************************************************************************)
\* IInv is an invariant of every program whose code is nested: whatever transfers,
\* returns and exceptions cross, each frame's stacks agree with the text around its ip.
THEOREM Invariance ==
  ASSUME WellNestedPrograms
  PROVE  Spec => []IInv
<1>1. Init => IInv
  BY InitInv
<1>2. IInv /\ [Next]_vars => IInv'
  BY StepInv
<1> QED BY <1>1, <1>2, PTL DEF Spec

\* A break, next or return is parked in an ensure body exactly while its frame is in
\* that body: none outlives the body, for a later EndEnsure to resume.
THEOREM NoWalkIsStale ==
  ASSUME WellNestedPrograms
  PROVE  Spec => []NoStaleWalk
<1>1. IInv => NoStaleWalk
  BY InvNoStaleWalk
<1> QED BY <1>1, Invariance, PTL

\* No handler or loop is left behind by a transfer, and none is lost: at every leaf
\* the stacks of the frame are as deep as the text nests.
THEOREM StacksAreNesting ==
  ASSUME WellNestedPrograms
  PROVE  Spec => []StacksMatchNesting
<1>1. IInv => StacksMatchNesting
  BY InvStacksMatchNesting
<1> QED BY <1>1, Invariance, PTL

\* EndEnsure always finds a walk to resume or an exception to raise again: the
\* interpreter's panic there is never reached.
THEOREM EnsureNeverPanics ==
  ASSUME WellNestedPrograms
  PROVE  Spec => [](status # "ice")
<1>1. IInv => status # "ice"
  BY DEF IInv, Sound
<1> QED BY <1>1, Invariance, PTL

\* Nothing is popped that is not there, and no operand of a caller is taken: a frame's
\* operands stay above its base, whatever its walks and exceptions cut.
THEOREM NothingUnderflows ==
  ASSUME WellNestedPrograms
  PROVE  Spec => []NoUnderflow
<1>1. IInv => NoUnderflow
  BY InvNoUnderflow
<1> QED BY <1>1, Invariance, PTL
=============================================================================
