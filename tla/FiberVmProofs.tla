--------------------------- MODULE FiberVmProofs ---------------------------
(***************************************************************************)
(* For any number of fibers, resumes and frames: the frames of the Vm and  *)
(* of the stash are those of the fibers whose resumes are under way,       *)
(* current_fiber_id and the iterator depths are put back as they were, and *)
(* the count of suspended fibers is exact.                                 *)
(*                                                                         *)
(* The induction needs every level of the nesting, not only the innermost: *)
(* what a resume put into the stash is what its end takes out.  The levels *)
(* are named by the places `pos` of the resumes on the Rust stack.         *)
(***************************************************************************)
EXTENDS FiberVm, NatLemmas, FiniteSetTheorems, SequenceTheorems

\* What the Rust stack, the stashed frames and a frame's owner are made of.
Kinds == {"resume", "poll", "iter", "yield"}
Calls == [fn : Kinds, fiber : Fiber \cup {NoFiber}, prev : Fiber \cup {NoFiber}, pre : Nat]
Code  == Fiber \cup {Main}

TypeOK ==
  /\ state \in [Fiber -> {"free", "Created", "Suspended", "Running", "Returned"}]
  /\ frames \in Seq(Code) /\ stash \in Seq(Seq(Code)) /\ snapshot \in [Fiber -> Seq(Code)]
  /\ current \in Fiber \cup {NoFiber} /\ pending \in BOOLEAN
  /\ depth \in Nat /\ entry \in [Fiber -> Nat] /\ suspended \in Nat
  /\ rust \in Seq(Calls)
  /\ handles \in SUBSET Fiber /\ bodies \in SUBSET Fiber /\ strayed \in SUBSET Nat

IsResume(r)     == r.fn \in {"resume", "poll"}
\* Whose code level k runs, and where its frames are: the innermost level's in
\* the Vm, another's in the stash of the resume above it.
OwnerAt(pos, k) == IF k = 0 THEN Main ELSE rust[pos[k]].fiber
FramesAt(k)     == IF k = Len(stash) THEN frames ELSE stash[k + 1]
\* Call i was made by level k.
In(pos, k, i)   == /\ ~ IsResume(rust[i])
                   /\ k > 0 => pos[k] < i
                   /\ k < Len(stash) => i < pos[k + 1]

\* pos: the places of the resumes on the Rust stack, outermost first.
Placed(pos) ==
  /\ pos \in [1 .. Len(stash) -> DOMAIN rust]
  /\ \A j, k \in 1 .. Len(stash) : j < k => pos[j] < pos[k]
  /\ \A k \in 1 .. Len(stash) : IsResume(rust[pos[k]]) /\ rust[pos[k]].fiber \in Fiber
  /\ \A i \in DOMAIN rust : IsResume(rust[i]) => \E k \in 1 .. Len(stash) : pos[k] = i

\* Each level has frames, all its own, and its native calls were made at
\* increasing depths of them.
Owned(pos) ==
  /\ \A k \in 0 .. Len(stash) :
       /\ FramesAt(k) # <<>> /\ AllOf(FramesAt(k), OwnerAt(pos, k))
       /\ \A i \in DOMAIN rust : In(pos, k, i) => rust[i].pre < Len(FramesAt(k))
       /\ \A i, j \in DOMAIN rust : In(pos, k, i) /\ In(pos, k, j) /\ i < j => rust[i].pre < rust[j].pre
  /\ \A f \in Fiber : AllOf(snapshot[f], f) /\ (state[f] = "Suspended" => snapshot[f] # <<>>)

\* No fiber is resumed twice; a level whose first resumes all started leaves
\* current_fiber_id as it must be, for itself and for the level above.
Current(pos) ==
  /\ \A j, k \in 1 .. Len(stash) : OwnerAt(pos, j) = OwnerAt(pos, k) => j = k
  /\ \A k \in 0 .. Len(stash) : k \notin strayed =>
       (IF k = Len(stash) THEN current ELSE rust[pos[k + 1]].prev)
         = (IF k = 0 THEN NoFiber ELSE OwnerAt(pos, k))

\* The iterators are counted, and each resume knows those below it.
UpTo(r, m) == Cardinality({i \in 1 .. m : r[i].fn = "iter"})
Counted(pos) ==
  /\ depth = UpTo(rust, Len(rust))
  /\ \A k \in 1 .. Len(stash) : entry[OwnerAt(pos, k)] = UpTo(rust, pos[k] - 1)

Nested(pos) == Placed(pos) /\ Owned(pos) /\ Current(pos) /\ Counted(pos)

RunningIsResumed(pos) ==
  \A f \in Fiber : state[f] = "Running" <=> \E k \in 1 .. Len(stash) : OwnerAt(pos, k) = f

\* The invariant where no slot has been lost; the specification only stutters
\* from the other states.
Good(pos) == TypeOK /\ SuspendedExact /\ Nested(pos) /\ RunningIsResumed(pos)

IInv ==
  /\ TypeOK /\ SuspendedExact
  /\ \E pos \in [1 .. Len(stash) -> DOMAIN rust] : Nested(pos) /\ (~ Lost => RunningIsResumed(pos))

(***************************************************************************)
(* Sequences and counting.                                                 *)
(***************************************************************************)
\* A prefix of a sequence.
LEMMA PrefixFacts ==
  ASSUME NEW S, NEW s \in Seq(S), NEW m \in 0 .. Len(s)
  PROVE  /\ SubSeq(s, 1, m) \in Seq(S) /\ Len(SubSeq(s, 1, m)) = m
         /\ \A i \in 1 .. m : SubSeq(s, 1, m)[i] = s[i]
<1>1. Len(s) \in Nat /\ \A i \in 1 .. m : s[i] \in S
  BY LenProperties, ElementOfSeq
<1>2. m \in Int /\ m - 1 + 1 = m /\ (IF 1 <= m THEN m - 1 + 1 ELSE 0) = m
  BY <1>1
<1>3. /\ SubSeq(s, 1, m) \in Seq(S) /\ Len(SubSeq(s, 1, m)) = m
      /\ \A i \in 1 .. m - 1 + 1 : SubSeq(s, 1, m)[i] = s[1 + i - 1]
  BY <1>1, <1>2, SubSeqProperties
<1> QED BY <1>2, <1>3

\* A part and the rest of a finite set add up.
LEMMA CountSplit ==
  ASSUME NEW T, IsFiniteSet(T), NEW U, U \subseteq T
  PROVE  /\ Cardinality(T) \in Nat /\ Cardinality(U) \in Nat /\ Cardinality(T \ U) \in Nat
         /\ Cardinality(T) = Cardinality(U) + Cardinality(T \ U)
         /\ IsFiniteSet(U)
<1>1. IsFiniteSet(U) /\ IsFiniteSet(T \ U)
  BY FS_Subset, FS_Difference
<1>2. T \cap U = U
  OBVIOUS
<1>3. Cardinality(T \ U) = Cardinality(T) - Cardinality(U)
  BY <1>2, FS_Difference
<1> QED BY <1>1, <1>3, FS_CardinalityType

\* Calls that stop together are the last ones: an upward closed part of an
\* interval is its end.
LEMMA TopPart ==
  ASSUME NEW b \in Nat, NEW l \in Nat, b <= l, NEW S, S \subseteq b + 1 .. l,
         \A i \in S : \A j \in b + 1 .. l : i < j => j \in S
  PROVE  \E m \in b .. l : S = m + 1 .. l /\ Cardinality(S) = l - m
<1>1. CASE S = {}
  <2>1. S = l + 1 .. l /\ Cardinality(S) = l - l
    BY <1>1, FS_EmptySet
  <2> QED BY <2>1
<1>2. CASE S # {}
  <2>0. S \subseteq Nat
    OBVIOUS
  <2>1. PICK x \in S : \A y \in S : x <= y
    BY <1>2, <2>0, LeastNat
  <2>2. x \in Nat /\ x - 1 \in b .. l /\ x - 1 + 1 = x /\ x <= l
    OBVIOUS
  <2>3. S = x .. l
    <3>1. \A y \in S : y \in x .. l
      BY <2>1, <2>2
    <3>2. \A y \in x .. l : y \in S
      BY <2>2
    <3> QED BY <3>1, <3>2
  <2>4. Cardinality(S) = l - (x - 1)
    BY <2>2, <2>3, FS_Interval
  <2> QED BY <2>2, <2>3, <2>4
<1> QED BY <1>1, <1>2

(***************************************************************************)
(* What the operators of the model are when the resumes are at `pos`.      *)
(***************************************************************************)
LEMMA Shape ==
  ASSUME TypeOK, NEW pos, Placed(pos)
  PROVE  /\ Level = Len(stash) /\ Len(stash) \in Nat
         /\ Base = (IF Len(stash) = 0 THEN 0 ELSE pos[Len(stash)]) /\ Base \in 0 .. Len(rust)
         /\ Innermost = OwnerAt(pos, Len(stash))
         /\ \A f : f \in OnStack <=> \E k \in 1 .. Len(stash) : OwnerAt(pos, k) = f
         /\ Above = Base + 1 .. Len(rust) /\ Len(rust) \in Nat
         /\ \A i \in Above : In(pos, Len(stash), i)
<1> DEFINE n == Len(stash)
           l == Len(rust)
<1>1. n \in Nat /\ l \in Nat /\ DOMAIN rust = 1 .. l
  BY LenProperties DEF TypeOK
<1>2. /\ pos \in [1 .. n -> 1 .. l]
      /\ \A j, k \in 1 .. n : j < k => pos[j] < pos[k]
      /\ \A k \in 1 .. n : pos[k] \in Resumes
      /\ \A i \in Resumes : \E k \in 1 .. n : pos[k] = i
  BY <1>1 DEF Placed, Resumes, IsResume
<1>3. Resumes \subseteq 1 .. l
  BY <1>1 DEF Resumes
<1>4. Level = n
  <2>1. pos \in Bijection(1 .. n, Resumes)
    BY <1>1, <1>2 DEF Bijection, Injection, Surjection, IsInjective
  <2> QED BY <1>1, <2>1, FS_CountingElements DEF Level, ExistsBijection
<1>5. Base \in Resumes \cup {0} /\ \A i \in Resumes \cup {0} : i <= Base
  <2>1. Resumes \cup {0} \subseteq Nat /\ \A i \in Resumes \cup {0} : i <= l
    BY <1>1, <1>3
  <2> QED BY <1>1, <2>1, MaxIsGreatest DEF Base
<1>6. Base = (IF n = 0 THEN 0 ELSE pos[n]) /\ Base \in 0 .. l
  BY <1>1, <1>2, <1>3, <1>5
<1>7. Innermost = OwnerAt(pos, n)
  BY <1>1, <1>2, <1>6 DEF Innermost, OwnerAt
<1>8. \A f : f \in OnStack <=> \E k \in 1 .. n : OwnerAt(pos, k) = f
  BY <1>1, <1>2 DEF OnStack, OwnerAt
<1>9. Above = Base + 1 .. l
  BY <1>1, <1>6 DEF Above
<1>10. \A i \in Above : In(pos, n, i)
  BY <1>1, <1>3, <1>5, <1>6, <1>9 DEF In, Resumes, IsResume
<1> QED BY <1>1, <1>4, <1>6, <1>7, <1>8, <1>9, <1>10

\* Counting the iterators of a part of the Rust stack.
LEMMA UpToAgree ==
  ASSUME NEW r, NEW s, NEW m \in Nat, \A i \in 1 .. m : r[i] = s[i]
  PROVE  UpTo(r, m) = UpTo(s, m)
<1>1. {i \in 1 .. m : r[i].fn = "iter"} = {i \in 1 .. m : s[i].fn = "iter"}
  OBVIOUS
<1> QED BY <1>1 DEF UpTo

\* The native iterations below a place, and those between it and a later one.
LEMMA UpToSplit ==
  ASSUME NEW r, NEW l \in Nat, NEW m \in 0 .. l
  PROVE  /\ UpTo(r, l) \in Nat /\ UpTo(r, m) \in Nat
         /\ Cardinality({i \in m + 1 .. l : r[i].fn = "iter"}) \in Nat
         /\ UpTo(r, l) = UpTo(r, m) + Cardinality({i \in m + 1 .. l : r[i].fn = "iter"})
<1> DEFINE T == {i \in 1 .. l : r[i].fn = "iter"}
           U == {i \in 1 .. m : r[i].fn = "iter"}
<1>1. IsFiniteSet(T)
  <2>1. IsFiniteSet(1 .. l) /\ T \subseteq 1 .. l
    BY FS_Interval
  <2> HIDE DEF T
  <2> QED BY <2>1, FS_Subset
<1>2. U \subseteq T /\ T \ U = {i \in m + 1 .. l : r[i].fn = "iter"}
  OBVIOUS
<1> QED BY <1>1, <1>2, CountSplit DEF UpTo

\* One more call on the Rust stack.
LEMMA UpToStep ==
  ASSUME NEW r, NEW m \in Nat
  PROVE  /\ UpTo(r, m) \in Nat
         /\ UpTo(r, m + 1) = UpTo(r, m) + (IF r[m + 1].fn = "iter" THEN 1 ELSE 0)
<1> DEFINE X == {i \in m + 1 .. m + 1 : r[i].fn = "iter"}
<1>1. UpTo(r, m) \in Nat /\ UpTo(r, m + 1) = UpTo(r, m) + Cardinality(X)
  <2>1. m + 1 \in Nat /\ m \in 0 .. m + 1
    OBVIOUS
  <2> QED BY <2>1, UpToSplit
<1>2. X = (IF r[m + 1].fn = "iter" THEN {m + 1} ELSE {})
  OBVIOUS
<1> HIDE DEF X
<1> QED BY <1>1, <1>2, FS_Singleton, FS_EmptySet

\* One fiber changes state, and the count is told when it was or gets suspended.
LEMMA Counting ==
  ASSUME TypeOK, SuspendedExact, NEW f \in Fiber, NEW st, state' = [state EXCEPT ![f] = st],
         \/ state[f] = "Suspended" /\ st # "Suspended" /\ suspended' = suspended - 1
         \/ state[f] # "Suspended" /\ st = "Suspended" /\ suspended' = suspended + 1
         \/ (state[f] = "Suspended" <=> st = "Suspended") /\ suspended' = suspended
  PROVE  suspended' \in Nat /\ SuspendedExact'
<1> DEFINE S == {g \in Fiber : state[g] = "Suspended"}
           T == {g \in Fiber : state'[g] = "Suspended"}
<1>1. \A g \in Fiber : state'[g] = IF g = f THEN st ELSE state[g]
  BY DEF TypeOK
<1>2. IsFiniteSet(S) /\ Cardinality(S) \in Nat
  BY FiberAssumption, FS_Subset, FS_CardinalityType
<1>3. suspended = Cardinality(S)
  BY DEF SuspendedExact
<1>4. CASE state[f] = "Suspended" /\ st # "Suspended" /\ suspended' = suspended - 1
  <2>1. T = S \ {f} /\ f \in S
    BY <1>1, <1>4
  <2>2. IsFiniteSet(T) /\ Cardinality(T) = Cardinality(S) - 1
    BY <1>2, <2>1, FS_RemoveElement
  <2> QED BY <1>3, <1>4, <2>2, FS_CardinalityType DEF SuspendedExact
<1>5. CASE state[f] # "Suspended" /\ st = "Suspended" /\ suspended' = suspended + 1
  <2>1. T = S \cup {f} /\ f \notin S
    BY <1>1, <1>5
  <2>2. IsFiniteSet(T) /\ Cardinality(T) = Cardinality(S) + 1
    BY <1>2, <2>1, FS_AddElement
  <2> QED BY <1>2, <1>3, <1>5, <2>2 DEF SuspendedExact
<1>6. CASE (state[f] = "Suspended" <=> st = "Suspended") /\ suspended' = suspended
  <2>1. T = S
    BY <1>1, <1>6
  <2> QED BY <1>2, <1>3, <1>6, <2>1 DEF SuspendedExact
<1> QED BY <1>4, <1>5, <1>6

\* Steps that leave the Rust stack and the frames alone.
LEMMA Quiet ==
  ASSUME NEW pos, Good(pos), TypeOK', SuspendedExact',
         UNCHANGED <<frames, stash, rust, entry, depth>>,
         \A f \in Fiber : snapshot'[f] = snapshot[f] \/ snapshot'[f] = <<>>,
         \A f \in Fiber : state'[f] = "Suspended" => state[f] = "Suspended" /\ snapshot'[f] = snapshot[f],
         UNCHANGED <<current, strayed>> \/ strayed' = strayed \cup {Level},
         ~ Lost' => \A f \in Fiber : state'[f] = "Running" <=> state[f] = "Running"
  PROVE  IInv'
<1>1. Placed(pos)'
  BY DEF Good, Nested, Placed, IsResume
<1>2. Owned(pos)'
  <2>1. \A f \in Fiber : AllOf(snapshot'[f], f) /\ (state'[f] = "Suspended" => snapshot'[f] # <<>>)
    BY DEF Good, Nested, Owned, AllOf
  <2>2. ASSUME NEW k \in 0 .. Len(stash)
        PROVE  /\ FramesAt(k)' # <<>> /\ AllOf(FramesAt(k)', OwnerAt(pos, k)')
               /\ \A i \in DOMAIN rust : In(pos, k, i)' => rust'[i].pre < Len(FramesAt(k)')
               /\ \A i, j \in DOMAIN rust : In(pos, k, i)' /\ In(pos, k, j)' /\ i < j => rust'[i].pre < rust'[j].pre
    BY DEF Good, Nested, Owned, FramesAt, OwnerAt, In, AllOf
  <2> QED BY <2>1, <2>2 DEF Owned
<1>3. Level = Len(stash)
  BY Shape DEF Good, Nested
<1>4. Current(pos)'
  BY <1>3 DEF Good, Nested, Current, OwnerAt
<1>5. Counted(pos)'
  BY DEF Good, Nested, Counted, OwnerAt
<1>6. ~ Lost' => RunningIsResumed(pos)'
  BY DEF Good, RunningIsResumed, OwnerAt
<1>7. pos \in [1 .. Len(stash') -> DOMAIN rust']
  BY DEF Good, Nested, Placed
<1> QED BY <1>1, <1>2, <1>4, <1>5, <1>6, <1>7 DEF IInv, Nested

\* The lengths of the stacks, and what is on them.
Stacks(pos, n, l, h) ==
  /\ n = Len(stash) /\ l = Len(rust) /\ h = Len(frames)
  /\ DOMAIN stash = 1 .. n /\ DOMAIN rust = 1 .. l /\ DOMAIN frames = 1 .. h /\ h > 0
  /\ \A i \in 1 .. l : rust[i] \in Calls
  /\ \A i \in 1 .. h : frames[i] = OwnerAt(pos, n)
  /\ \A k \in 1 .. n : stash[k] \in Seq(Code)
  /\ OwnerAt(pos, n) \in Code
  /\ pos \in [1 .. n -> 1 .. l] /\ \A j, k \in 1 .. n : j < k => pos[j] < pos[k]
  /\ \A k \in 1 .. n : IsResume(rust[pos[k]]) /\ rust[pos[k]].fiber \in Fiber
  /\ \A i \in 1 .. l : IsResume(rust[i]) => \E k \in 1 .. n : pos[k] = i

\* The lengths of the three stacks, as numbers with their bounds.
LEMMA Facts ==
  ASSUME NEW pos, Good(pos)
  PROVE  \E n, l, h \in Nat : Stacks(pos, n, l, h)
<1> DEFINE n == Len(stash)
           l == Len(rust)
           h == Len(frames)
<1>1. /\ n \in Nat /\ l \in Nat /\ h \in Nat
      /\ DOMAIN stash = 1 .. n /\ DOMAIN rust = 1 .. l /\ DOMAIN frames = 1 .. h
  BY LenProperties DEF Good, TypeOK
<1>2. (\A i \in 1 .. l : rust[i] \in Calls) /\ \A k \in 1 .. n : stash[k] \in Seq(Code)
  BY ElementOfSeq DEF Good, TypeOK
<1>3. frames # <<>> /\ AllOf(frames, OwnerAt(pos, n))
  <2>1. n \in 0 .. n /\ FramesAt(n) = frames
    BY <1>1 DEF FramesAt
  <2>2. FramesAt(n) # <<>> /\ AllOf(FramesAt(n), OwnerAt(pos, n))
    BY <2>1 DEF Good, Nested, Owned
  <2> QED BY <2>1, <2>2
<1>4. h > 0
  BY <1>1, <1>3, EmptySeq DEF Good, TypeOK
<1>5. \A i \in 1 .. h : frames[i] = OwnerAt(pos, n)
  BY <1>1, <1>3 DEF AllOf
<1>6. /\ pos \in [1 .. n -> 1 .. l] /\ \A j, k \in 1 .. n : j < k => pos[j] < pos[k]
      /\ \A k \in 1 .. n : IsResume(rust[pos[k]]) /\ rust[pos[k]].fiber \in Fiber
      /\ \A i \in 1 .. l : IsResume(rust[i]) => \E k \in 1 .. n : pos[k] = i
  BY <1>1 DEF Good, Nested, Placed
<1>7. OwnerAt(pos, n) \in Code
  BY <1>1, <1>6 DEF OwnerAt, Code
<1> HIDE DEF n, l, h
<1>8. n = Len(stash) /\ l = Len(rust) /\ h = Len(frames)
  BY DEF n, l, h
<1>9. Stacks(pos, n, l, h)
  BY <1>1, <1>2, <1>4, <1>5, <1>6, <1>7, <1>8 DEF Stacks
<1> QED BY <1>1, <1>9

\* A call by step_block or Op::Yield: a frame on top, and a Rust call unless a
\* yield is pending.
LEMMA Push ==
  ASSUME NEW pos, Good(pos), NEW r \in Calls, ~ IsResume(r), r.pre = Len(frames),
         frames' = Append(frames, Last(frames)),
         \/ rust' = Append(rust, r) /\ depth' = depth + (IF r.fn = "iter" THEN 1 ELSE 0)
         \/ rust' = rust /\ depth' = depth,
         UNCHANGED <<state, snapshot, stash, current, pending, entry, suspended, handles, bodies, strayed>>
  PROVE  IInv'
<1>1. PICK n, l, h \in Nat : Stacks(pos, n, l, h)
  BY Facts
<1> USE DEF Stacks
<1>2. Last(frames) = OwnerAt(pos, n) /\ Last(frames) \in Code /\ frames \in Seq(Code)
  BY <1>1 DEF Last, Good, TypeOK
<1>4. /\ frames' \in Seq(Code) /\ Len(frames') = h + 1 /\ frames' # <<>>
      /\ DOMAIN frames' = 1 .. h + 1
      /\ \A i \in 1 .. h : frames'[i] = frames[i]
      /\ frames'[h + 1] = OwnerAt(pos, n)
  BY <1>1, <1>2, AppendProperties, LenProperties
<1>5. AllOf(frames', OwnerAt(pos, n))
  BY <1>1, <1>4 DEF AllOf
<1>6. PICK m \in {l, l + 1} :
        /\ rust' \in Seq(Calls) /\ Len(rust') = m /\ DOMAIN rust' = 1 .. m
        /\ \A i \in 1 .. l : rust'[i] = rust[i]
        /\ m = l + 1 => rust'[l + 1] = r
        /\ depth' = UpTo(rust', m) /\ depth' \in Nat
  <2>1. CASE rust' = Append(rust, r) /\ depth' = depth + (IF r.fn = "iter" THEN 1 ELSE 0)
    <3>1. /\ rust' \in Seq(Calls) /\ Len(rust') = l + 1 /\ DOMAIN rust' = 1 .. l + 1
          /\ \A i \in 1 .. l : rust'[i] = rust[i]
          /\ rust'[l + 1] = r
      BY <1>1, <2>1, AppendProperties, LenProperties DEF Good, TypeOK
    <3>2. depth = UpTo(rust, l) /\ UpTo(rust', l) = UpTo(rust, l)
      BY <1>1, <3>1, UpToAgree, SMTT(30) DEF Good, Nested, Counted
    <3>3. UpTo(rust', l) \in Nat /\ UpTo(rust', l + 1) = UpTo(rust', l) + (IF r.fn = "iter" THEN 1 ELSE 0)
      <4>1. UpTo(rust', l + 1) = UpTo(rust', l) + (IF rust'[l + 1].fn = "iter" THEN 1 ELSE 0) /\ UpTo(rust', l) \in Nat
        BY UpToStep
      <4> QED BY <3>1, <4>1
    <3>4. depth' = UpTo(rust', l + 1) /\ depth' \in Nat
      BY <2>1, <3>1, <3>2, <3>3
    <3> QED BY <3>1, <3>4
  <2>2. CASE rust' = rust /\ depth' = depth
    <3>1. depth = UpTo(rust, l) /\ depth \in Nat /\ rust \in Seq(Calls)
      BY <1>1 DEF Good, TypeOK, Nested, Counted
    <3> QED BY <1>1, <2>2, <3>1
  <2> QED BY <2>1, <2>2
<1>7. /\ Len(stash') = n /\ pos \in [1 .. n -> 1 .. m] /\ l <= m
      /\ \A i \in 1 .. m : i \in 1 .. l \/ (i = l + 1 /\ rust'[i] = r)
  BY <1>1, <1>6
<1>8. Placed(pos)' /\ pos \in [1 .. Len(stash') -> DOMAIN rust']
  <2>1. \A k \in 1 .. n : IsResume(rust'[pos[k]]) /\ rust'[pos[k]].fiber \in Fiber
    BY <1>1, <1>6
  <2>2. \A i \in 1 .. m : IsResume(rust'[i]) => \E k \in 1 .. n : pos[k] = i
    BY <1>1, <1>6, <1>7
  <2> QED BY <1>1, <1>6, <1>7, <2>1, <2>2 DEF Placed
<1>9. \A k \in 1 .. n : OwnerAt(pos, k)' = OwnerAt(pos, k)
  BY <1>1, <1>6 DEF OwnerAt
<1>10. OwnerAt(pos, 0)' = Main /\ OwnerAt(pos, 0) = Main
  BY DEF OwnerAt
<1>11. \A k \in 0 .. n : FramesAt(k)' = (IF k = n THEN frames' ELSE FramesAt(k))
  BY <1>1 DEF FramesAt
<1>12. FramesAt(n) = frames
  BY <1>1 DEF FramesAt
<1>13. \A k \in 0 .. n, i \in 1 .. l : In(pos, k, i)' <=> In(pos, k, i)
  BY <1>1, <1>6 DEF In
<1>14. \A k \in 0 .. n : In(pos, k, l + 1)' => k = n
  <2> SUFFICES ASSUME NEW k \in 0 .. n, In(pos, k, l + 1)' PROVE k = n
    OBVIOUS
  <2>0. k < n => k + 1 \in 1 .. n
    OBVIOUS
  <2>1. k < n => pos[k + 1] \in 1 .. l
    BY <1>1, <2>0
  <2>2. k < n => l + 1 < pos[k + 1]
    BY <1>7 DEF In
  <2> QED BY <2>1, <2>2
<1>15. Owned(pos)'
  <2>1. \A f \in Fiber : AllOf(snapshot'[f], f) /\ (state'[f] = "Suspended" => snapshot'[f] # <<>>)
    BY DEF Good, Nested, Owned
  <2>2. ASSUME NEW k \in 0 .. n PROVE FramesAt(k)' # <<>> /\ AllOf(FramesAt(k)', OwnerAt(pos, k)')
    <3>1. FramesAt(k) # <<>> /\ AllOf(FramesAt(k), OwnerAt(pos, k)) /\ OwnerAt(pos, k)' = OwnerAt(pos, k)
      BY <1>1, <1>9, <1>10 DEF Good, Nested, Owned
    <3> QED BY <3>1, <1>4, <1>5, <1>11
  <2>3. ASSUME NEW k \in 0 .. n, NEW i \in DOMAIN rust', In(pos, k, i)'
        PROVE  rust'[i].pre < Len(FramesAt(k)')
    <3>1. CASE i \in 1 .. l
      <4>1. rust[i].pre < Len(FramesAt(k)) /\ rust'[i] = rust[i] /\ rust[i].pre \in Nat
        BY <3>1, <2>3, <1>1, <1>6, <1>13 DEF Good, Nested, Owned, Calls
      <4>2. CASE k = n
        BY <4>1, <4>2, <1>1, <1>4, <1>11, <1>12, SMTT(30)
      <4>3. CASE k # n
        BY <4>1, <4>3, <1>11
      <4> QED BY <4>2, <4>3
    <3>2. CASE i = l + 1 /\ rust'[i] = r
      BY <3>2, <2>3, <1>1, <1>4, <1>11, <1>14
    <3> QED BY <3>1, <3>2, <1>6, <1>7
  <2>4. ASSUME NEW k \in 0 .. n, NEW i \in DOMAIN rust', NEW j \in DOMAIN rust',
               In(pos, k, i)', In(pos, k, j)', i < j
        PROVE  rust'[i].pre < rust'[j].pre
    <3>0. i \in 1 .. m /\ j \in 1 .. m /\ m <= l + 1
      BY <2>4, <1>6
    <3>1. i \in 1 .. l /\ (j \in 1 .. l \/ (j = l + 1 /\ rust'[j] = r))
      BY <3>0, <2>4, <1>7
    <3>2. CASE j \in 1 .. l
      BY <3>1, <3>2, <2>4, <1>1, <1>6, <1>13 DEF Good, Nested, Owned
    <3>3. CASE j = l + 1 /\ rust'[j] = r
      <4>1. k = n /\ In(pos, n, i) /\ FramesAt(n) = frames
        BY <3>1, <3>3, <2>4, <1>12, <1>13, <1>14
      <4>2. rust[i].pre < h
        BY <4>1, <3>1, <1>1 DEF Good, Nested, Owned
      <4> QED BY <4>2, <3>1, <3>3, <1>1, <1>6
    <3> QED BY <3>1, <3>2, <3>3
  <2> QED BY <1>7, <2>1, <2>2, <2>3, <2>4 DEF Owned
<1>16. Current(pos)'
  <2>1. \A k \in 1 .. n : rust'[pos[k]] = rust[pos[k]]
    BY <1>1, <1>6
  <2>2. \A k \in 0 .. n : k # n => k + 1 \in 1 .. n
    BY <1>1
  <2>3. ASSUME NEW k \in 0 .. n, k \notin strayed
        PROVE  (IF k = n THEN current' ELSE rust'[pos[k + 1]].prev) = (IF k = 0 THEN NoFiber ELSE OwnerAt(pos, k)')
    <3>1. (IF k = n THEN current ELSE rust[pos[k + 1]].prev) = (IF k = 0 THEN NoFiber ELSE OwnerAt(pos, k))
      BY <1>1, <2>3 DEF Good, Nested, Current
    <3>2. k # 0 => OwnerAt(pos, k)' = OwnerAt(pos, k)
      BY <1>9
    <3>3. k # n => rust'[pos[k + 1]] = rust[pos[k + 1]]
      BY <2>1, <2>2
    <3> QED BY <3>1, <3>2, <3>3
  <2>4. \A j, k \in 1 .. n : OwnerAt(pos, j)' = OwnerAt(pos, k)' => j = k
    BY <1>1, <1>9 DEF Good, Nested, Current
  <2> QED BY <1>7, <2>3, <2>4 DEF Current
<1>17. Counted(pos)'
  <2>1. \A k \in 1 .. n : UpTo(rust', pos[k] - 1) = UpTo(rust, pos[k] - 1)
    <3> SUFFICES ASSUME NEW k \in 1 .. n PROVE UpTo(rust', pos[k] - 1) = UpTo(rust, pos[k] - 1)
      OBVIOUS
    <3>1. pos[k] - 1 \in Nat /\ \A i \in 1 .. pos[k] - 1 : rust'[i] = rust[i]
      <4>1. pos[k] \in 1 .. l
        BY <1>1
      <4> QED BY <4>1, <1>6
    <3> QED BY <3>1, UpToAgree
  <2> QED BY <2>1, <1>1, <1>6, <1>9 DEF Good, Nested, Counted
<1>18. RunningIsResumed(pos)'
  BY <1>1, <1>9 DEF Good, RunningIsResumed
<1>19. TypeOK' /\ SuspendedExact'
  BY <1>4, <1>6 DEF Good, TypeOK, SuspendedExact
<1> QED BY <1>8, <1>15, <1>16, <1>17, <1>18, <1>19 DEF IInv, Nested

\* A return, a rescue or a yield on its way out drops the last calls of the
\* innermost level and keeps at least one of its frames.
LEMMA Truncate ==
  ASSUME NEW pos, Good(pos), NEW m \in Base .. Len(rust), NEW t \in 1 .. Len(frames),
         rust' = SubSeq(rust, 1, m), frames' = SubSeq(frames, 1, t), depth' = UpTo(rust, m),
         \A i \in Base + 1 .. m : rust[i].pre < t,
         UNCHANGED <<state, snapshot, stash, current, pending, entry, suspended, handles, bodies, strayed>>
  PROVE  IInv'
<1>1. PICK n, l, h \in Nat : Stacks(pos, n, l, h)
  BY Facts
<1> USE DEF Stacks
<1>2. Base = (IF n = 0 THEN 0 ELSE pos[n]) /\ Base \in 0 .. l
  BY <1>1, Shape DEF Good, Nested
<1>3. m \in 0 .. l /\ m \in Nat /\ t \in 1 .. h
  BY <1>1, <1>2
<1>4. /\ frames' \in Seq(Code) /\ Len(frames') = t /\ frames' # <<>> /\ DOMAIN frames' = 1 .. t
      /\ \A i \in 1 .. t : frames'[i] = frames[i]
  <2>1. frames \in Seq(Code) /\ t \in 0 .. Len(frames)
    BY <1>1 DEF Good, TypeOK
  <2>2. frames' \in Seq(Code) /\ Len(frames') = t /\ \A i \in 1 .. t : frames'[i] = frames[i]
    BY <2>1, PrefixFacts
  <2>3. t # 0
    OBVIOUS
  <2> QED BY <2>2, <2>3, LenProperties, EmptySeq
<1>5. AllOf(frames', OwnerAt(pos, n))
  BY <1>1, <1>3, <1>4 DEF AllOf
<1>6. /\ rust' \in Seq(Calls) /\ Len(rust') = m /\ DOMAIN rust' = 1 .. m
      /\ \A i \in 1 .. m : rust'[i] = rust[i]
  <2>1. rust \in Seq(Calls) /\ m \in 0 .. Len(rust)
    BY <1>1, <1>3 DEF Good, TypeOK
  <2>2. rust' \in Seq(Calls) /\ Len(rust') = m /\ \A i \in 1 .. m : rust'[i] = rust[i]
    BY <2>1, PrefixFacts
  <2> QED BY <2>2, LenProperties
<1>7. Len(stash') = n /\ pos \in [1 .. n -> 1 .. m]
  <2>1. \A k \in 1 .. n : pos[k] <= Base
    <3> SUFFICES ASSUME NEW k \in 1 .. n PROVE pos[k] <= Base
      OBVIOUS
    <3>1. n \in 1 .. n /\ n # 0 /\ (k < n \/ k = n)
      OBVIOUS
    <3>2. pos[k] \in 1 .. l /\ pos[n] \in 1 .. l /\ (k < n => pos[k] < pos[n])
      BY <1>1, <3>1
    <3> QED BY <1>2, <3>1, <3>2
  <2>2. \A k \in 1 .. n : pos[k] \in 1 .. m
    <3>1. Base <= m /\ Base \in Nat
      BY <1>2
    <3>2. \A k \in 1 .. n : pos[k] \in 1 .. l
      BY <1>1
    <3> QED BY <1>3, <2>1, <3>1, <3>2, SMTT(30)
  <2> QED BY <1>1, <2>2
<1>8. Placed(pos)' /\ pos \in [1 .. Len(stash') -> DOMAIN rust']
  <2>1. \A k \in 1 .. n : IsResume(rust'[pos[k]]) /\ rust'[pos[k]].fiber \in Fiber
    BY <1>1, <1>6, <1>7
  <2>2. \A i \in 1 .. m : IsResume(rust'[i]) => \E k \in 1 .. n : pos[k] = i
    BY <1>1, <1>3, <1>6
  <2> QED BY <1>1, <1>6, <1>7, <2>1, <2>2 DEF Placed
<1>9. \A k \in 1 .. n : OwnerAt(pos, k)' = OwnerAt(pos, k)
  BY <1>6, <1>7 DEF OwnerAt
<1>10. OwnerAt(pos, 0)' = Main /\ OwnerAt(pos, 0) = Main
  BY DEF OwnerAt
<1>11. \A k \in 0 .. n : FramesAt(k)' = (IF k = n THEN frames' ELSE FramesAt(k))
  BY <1>1 DEF FramesAt
<1>13. \A k \in 0 .. n, i \in 1 .. m : In(pos, k, i)' <=> In(pos, k, i)
  BY <1>1, <1>6 DEF In
<1>14. \A i \in 1 .. m : In(pos, n, i) => i \in Base + 1 .. m
  BY <1>1, <1>2, <1>3 DEF In
<1>15. Owned(pos)'
  <2>1. \A f \in Fiber : AllOf(snapshot'[f], f) /\ (state'[f] = "Suspended" => snapshot'[f] # <<>>)
    BY DEF Good, Nested, Owned
  <2>2. ASSUME NEW k \in 0 .. n PROVE FramesAt(k)' # <<>> /\ AllOf(FramesAt(k)', OwnerAt(pos, k)')
    <3>1. FramesAt(k) # <<>> /\ AllOf(FramesAt(k), OwnerAt(pos, k)) /\ OwnerAt(pos, k)' = OwnerAt(pos, k)
      BY <1>1, <1>9, <1>10 DEF Good, Nested, Owned
    <3> QED BY <3>1, <1>4, <1>5, <1>11
  <2>3. ASSUME NEW k \in 0 .. n, NEW i \in DOMAIN rust', In(pos, k, i)'
        PROVE  rust'[i].pre < Len(FramesAt(k)')
    <3>1. i \in 1 .. m /\ i \in 1 .. l /\ In(pos, k, i) /\ rust'[i] = rust[i]
      BY <2>3, <1>3, <1>6, <1>13
    <3>2. CASE k = n
      BY <3>1, <3>2, <1>4, <1>11, <1>14
    <3>3. CASE k # n
      <4>1. rust[i].pre < Len(FramesAt(k))
        BY <1>1, <3>1 DEF Good, Nested, Owned
      <4> QED BY <4>1, <3>1, <3>3, <1>11
    <3> QED BY <3>2, <3>3
  <2>4. ASSUME NEW k \in 0 .. n, NEW i \in DOMAIN rust', NEW j \in DOMAIN rust',
               In(pos, k, i)', In(pos, k, j)', i < j
        PROVE  rust'[i].pre < rust'[j].pre
    <3>1. i \in 1 .. m /\ j \in 1 .. m /\ i \in 1 .. l /\ j \in 1 .. l
      BY <1>3, <1>6
    <3> QED BY <3>1, <2>4, <1>1, <1>6, <1>13 DEF Good, Nested, Owned
  <2> QED BY <1>7, <2>1, <2>2, <2>3, <2>4 DEF Owned
<1>16. Current(pos)'
  <2>1. \A k \in 1 .. n : rust'[pos[k]] = rust[pos[k]]
    BY <1>6, <1>7
  <2>2. \A k \in 0 .. n : k # n => k + 1 \in 1 .. n
    BY <1>1
  <2>3. ASSUME NEW k \in 0 .. n, k \notin strayed
        PROVE  (IF k = n THEN current' ELSE rust'[pos[k + 1]].prev) = (IF k = 0 THEN NoFiber ELSE OwnerAt(pos, k)')
    <3>1. (IF k = n THEN current ELSE rust[pos[k + 1]].prev) = (IF k = 0 THEN NoFiber ELSE OwnerAt(pos, k))
      BY <1>1, <2>3 DEF Good, Nested, Current
    <3>2. k # 0 => OwnerAt(pos, k)' = OwnerAt(pos, k)
      BY <1>9
    <3>3. k # n => rust'[pos[k + 1]] = rust[pos[k + 1]]
      BY <2>1, <2>2
    <3> QED BY <3>1, <3>2, <3>3
  <2>4. \A j, k \in 1 .. n : OwnerAt(pos, j)' = OwnerAt(pos, k)' => j = k
    BY <1>1, <1>9 DEF Good, Nested, Current
  <2> QED BY <1>7, <2>3, <2>4 DEF Current
<1>17. Counted(pos)' /\ depth' \in Nat
  <2>1. \A k \in 1 .. n : UpTo(rust', pos[k] - 1) = UpTo(rust, pos[k] - 1)
    <3> SUFFICES ASSUME NEW k \in 1 .. n PROVE UpTo(rust', pos[k] - 1) = UpTo(rust, pos[k] - 1)
      OBVIOUS
    <3>1. pos[k] - 1 \in Nat /\ \A i \in 1 .. pos[k] - 1 : rust'[i] = rust[i]
      <4>1. pos[k] \in 1 .. m
        BY <1>7
      <4> QED BY <4>1, <1>6
    <3> QED BY <3>1, UpToAgree
  <2>2. UpTo(rust', m) = UpTo(rust, m) /\ UpTo(rust, m) \in Nat
    BY <1>3, <1>6, UpToAgree, UpToStep
  <2> QED BY <2>1, <2>2, <1>1, <1>6, <1>9 DEF Good, Nested, Counted
<1>18. RunningIsResumed(pos)'
  <2>1. \A f \in Fiber : state[f] = "Running" <=> \E k \in 1 .. n : OwnerAt(pos, k) = f
    BY <1>1 DEF Good, RunningIsResumed
  <2>2. \A f \in Fiber : state'[f] = "Running" <=> \E k \in 1 .. n : OwnerAt(pos, k)' = f
    BY <2>1, <1>9
  <2> QED BY <2>2, <1>7 DEF RunningIsResumed
<1>19. TypeOK' /\ SuspendedExact'
  BY <1>4, <1>6, <1>17 DEF Good, TypeOK, SuspendedExact
<1> QED BY <1>8, <1>15, <1>16, <1>17, <1>18, <1>19 DEF IInv, Nested

\* A resume adds a level.
LEMMA Install ==
  ASSUME NEW pos, Good(pos), NEW f \in Fiber, NEW how \in {"resume", "poll"}, Resume(f, how)
  PROVE  IInv'
<1>1. PICK n, l, h \in Nat : Stacks(pos, n, l, h)
  BY Facts
<1> USE DEF Stacks
<1> DEFINE r == [fn |-> how, fiber |-> f, prev |-> current, pre |-> 0]
<1>2. r \in Calls /\ IsResume(r) /\ r.fiber = f /\ r.prev = current /\ r.fn # "iter"
  BY DEF Calls, Kinds, IsResume, Good, TypeOK
<1>3. /\ rust' = Append(rust, r) /\ stash' = Append(stash, frames)
      /\ frames' = (IF state[f] = "Created" THEN <<f>> ELSE snapshot[f])
      /\ snapshot' = [snapshot EXCEPT ![f] = <<>>] /\ state' = [state EXCEPT ![f] = "Running"]
      /\ current' = f /\ entry' = [entry EXCEPT ![f] = depth] /\ depth' = depth
      /\ UNCHANGED strayed
  BY DEF Resume, EntryDepth
<1> HIDE DEF r
<1>4. PICK q \in [1 .. n + 1 -> 1 .. l + 1] : q[n + 1] = l + 1 /\ \A k \in 1 .. n : q[k] = pos[k]
  <2> DEFINE q == [k \in 1 .. n + 1 |-> IF k = n + 1 THEN l + 1 ELSE pos[k]]
  <2>1. \A k \in 1 .. n : pos[k] \in 1 .. l + 1
    BY <1>1
  <2>2. \A k \in 1 .. n + 1 : k = n + 1 \/ k \in 1 .. n
    OBVIOUS
  <2>3. q \in [1 .. n + 1 -> 1 .. l + 1]
    BY <2>1, <2>2
  <2>4. q[n + 1] = l + 1 /\ \A k \in 1 .. n : q[k] = pos[k]
    OBVIOUS
  <2> QED BY <2>3, <2>4
<1>5. /\ rust' \in Seq(Calls) /\ Len(rust') = l + 1 /\ DOMAIN rust' = 1 .. l + 1
      /\ \A i \in 1 .. l : rust'[i] = rust[i]
      /\ rust'[l + 1] = r
  BY <1>1, <1>2, <1>3, AppendProperties, LenProperties DEF Good, TypeOK
<1>6. /\ stash' \in Seq(Seq(Code)) /\ Len(stash') = n + 1 /\ DOMAIN stash' = 1 .. n + 1
      /\ \A k \in 1 .. n : stash'[k] = stash[k]
      /\ stash'[n + 1] = frames
  <2>1. stash \in Seq(Seq(Code)) /\ frames \in Seq(Code)
    BY DEF Good, TypeOK
  <2> QED BY <1>1, <1>3, <2>1, AppendProperties, LenProperties
<1>7. frames' \in Seq(Code) /\ frames' # <<>> /\ AllOf(frames', f)
  <2>1. CASE state[f] = "Created"
    <3>1. frames' = <<f>> /\ f \in Code
      BY <1>3, <2>1 DEF Code
    <3> QED BY <3>1 DEF AllOf
  <2>2. CASE state[f] = "Suspended"
    <3>1. frames' = snapshot[f]
      BY <1>3, <2>2
    <3> QED BY <2>2, <3>1 DEF Good, TypeOK, Nested, Owned
  <2> QED BY <2>1, <2>2 DEF Resume, Resumable
<1>8. /\ \A k \in 0 .. n + 1 : k \in 0 .. n \/ k = n + 1
      /\ \A k \in 1 .. n + 1 : k \in 1 .. n \/ k = n + 1
      /\ \A i \in 1 .. l + 1 : i \in 1 .. l \/ i = l + 1
      /\ \A k \in 0 .. n : k # n => k + 1 \in 1 .. n
  OBVIOUS
<1>9. /\ \A k \in 1 .. n : OwnerAt(q, k)' = OwnerAt(pos, k) /\ rust'[q[k]] = rust[pos[k]]
      /\ OwnerAt(q, n + 1)' = f /\ rust'[q[n + 1]] = r
      /\ \A k \in 1 .. n : OwnerAt(pos, k) \in Fiber /\ OwnerAt(pos, k) # f
  <2>1. \A k \in 1 .. n : pos[k] \in 1 .. l /\ rust'[q[k]] = rust[pos[k]]
    BY <1>1, <1>4, <1>5
  <2>2. state[f] # "Running"
    BY DEF Resume, Resumable
  <2>3. \A k \in 1 .. n : OwnerAt(pos, k) \in Fiber /\ OwnerAt(pos, k) # f
    BY <1>1, <2>2 DEF Good, RunningIsResumed, OwnerAt
  <2>4. \A k \in 1 .. n : OwnerAt(q, k)' = OwnerAt(pos, k)
    BY <2>1 DEF OwnerAt
  <2>5. rust'[q[n + 1]] = r /\ n + 1 # 0
    BY <1>4, <1>5
  <2>6. OwnerAt(q, n + 1)' = f
    BY <1>2, <2>5 DEF OwnerAt
  <2> QED BY <2>1, <2>3, <2>4, <2>5, <2>6
<1>10. OwnerAt(q, 0)' = Main /\ OwnerAt(pos, 0) = Main
  BY DEF OwnerAt
<1>11. /\ \A k \in 0 .. n : FramesAt(k)' = FramesAt(k)
       /\ FramesAt(n + 1)' = frames'
  BY <1>1, <1>6, <1>8 DEF FramesAt
<1>12. \A k \in 0 .. n, i \in 1 .. l : In(q, k, i)' <=> In(pos, k, i)
  <2> SUFFICES ASSUME NEW k \in 0 .. n, NEW i \in 1 .. l PROVE In(q, k, i)' <=> In(pos, k, i)
    OBVIOUS
  <2>1. rust'[i] = rust[i] /\ (k > 0 => q[k] = pos[k]) /\ k < n + 1
    BY <1>4, <1>5
  <2>2. CASE k = n
    BY <1>1, <1>4, <1>6, <2>1, <2>2 DEF In
  <2>3. CASE k # n
    <3>1. k < n /\ q[k + 1] = pos[k + 1]
      BY <1>4, <1>8, <2>3
    <3> QED BY <1>1, <1>6, <2>1, <3>1 DEF In
  <2> QED BY <2>2, <2>3
<1>13. (\A k \in 0 .. n + 1 : ~ In(q, k, l + 1)') /\ \A i \in 1 .. l + 1 : ~ In(q, n + 1, i)'
  BY <1>2, <1>4, <1>5 DEF In
<1>14. Placed(q)' /\ q \in [1 .. Len(stash') -> DOMAIN rust']
  <2>1. \A k \in 1 .. n + 1 : IsResume(rust'[q[k]]) /\ rust'[q[k]].fiber \in Fiber
    BY <1>1, <1>2, <1>8, <1>9, ZenonT(30)
  <2>2. \A i \in 1 .. l + 1 : IsResume(rust'[i]) => \E k \in 1 .. n + 1 : q[k] = i
    <3>1. \A i \in 1 .. l : IsResume(rust'[i]) => \E k \in 1 .. n : q[k] = i
      BY <1>1, <1>4, <1>5
    <3>2. n + 1 \in 1 .. n + 1 /\ 1 .. n \subseteq 1 .. n + 1
      OBVIOUS
    <3> QED BY <1>4, <1>8, <3>1, <3>2
  <2>3. \A j, k \in 1 .. n + 1 : j < k => q[j] < q[k]
    <3> SUFFICES ASSUME NEW j \in 1 .. n + 1, NEW k \in 1 .. n + 1, j < k PROVE q[j] < q[k]
      OBVIOUS
    <3>0. j \in 1 .. n
      OBVIOUS
    <3>1. j \in 1 .. n /\ q[j] = pos[j] /\ pos[j] \in 1 .. l
      BY <1>1, <1>4, <3>0
    <3>2. CASE k = n + 1
      BY <1>4, <3>1, <3>2
    <3>3. CASE k \in 1 .. n
      BY <1>1, <1>4, <3>1, <3>3
    <3> QED BY <1>8, <3>2, <3>3
  <2> QED BY <1>4, <1>5, <1>6, <2>1, <2>2, <2>3 DEF Placed
<1>15. Owned(q)'
  <2>1. \A g \in Fiber : AllOf(snapshot'[g], g) /\ (state'[g] = "Suspended" => snapshot'[g] # <<>>)
    BY <1>3, SMTT(30) DEF Good, TypeOK, Nested, Owned, AllOf
  <2>2. ASSUME NEW k \in 0 .. n + 1 PROVE FramesAt(k)' # <<>> /\ AllOf(FramesAt(k)', OwnerAt(q, k)')
    <3>1. CASE k = n + 1
      BY <3>1, <1>7, <1>9, <1>11
    <3>2. CASE k \in 0 .. n
      <4>1. FramesAt(k) # <<>> /\ AllOf(FramesAt(k), OwnerAt(pos, k)) /\ OwnerAt(q, k)' = OwnerAt(pos, k)
        BY <3>2, <1>1, <1>9, <1>10 DEF Good, Nested, Owned
      <4> QED BY <4>1, <3>2, <1>11
    <3> QED BY <1>8, <3>1, <3>2
  <2>3. ASSUME NEW k \in 0 .. n + 1, NEW i \in DOMAIN rust', In(q, k, i)'
        PROVE  k \in 0 .. n /\ i \in 1 .. l /\ In(pos, k, i)
    <3>1. i \in 1 .. l + 1 /\ i # l + 1 /\ k # n + 1
      BY <2>3, <1>5, <1>13
    <3>2. i \in 1 .. l /\ k \in 0 .. n
      BY <3>1, <1>8
    <3> QED BY <3>2, <2>3, <1>12
  <2>4. ASSUME NEW k \in 0 .. n + 1, NEW i \in DOMAIN rust', In(q, k, i)'
        PROVE  rust'[i].pre < Len(FramesAt(k)')
    <3>1. k \in 0 .. n /\ i \in 1 .. l /\ In(pos, k, i)
      BY <2>3, <2>4
    <3>2. rust[i].pre < Len(FramesAt(k))
      BY <1>1, <3>1 DEF Good, Nested, Owned
    <3> QED BY <3>1, <3>2, <1>5, <1>11
  <2>5. ASSUME NEW k \in 0 .. n + 1, NEW i \in DOMAIN rust', NEW j \in DOMAIN rust',
               In(q, k, i)', In(q, k, j)', i < j
        PROVE  rust'[i].pre < rust'[j].pre
    <3>1. k \in 0 .. n /\ i \in 1 .. l /\ In(pos, k, i) /\ j \in 1 .. l /\ In(pos, k, j)
      BY <2>3, <2>5
    <3> QED BY <3>1, <2>5, <1>1, <1>5 DEF Good, Nested, Owned
  <2> QED BY <1>6, <2>1, <2>2, <2>4, <2>5 DEF Owned
<1>16. Current(q)'
  <2>1. ASSUME NEW k \in 0 .. n + 1, k \notin strayed
        PROVE  (IF k = n + 1 THEN current' ELSE rust'[q[k + 1]].prev) = (IF k = 0 THEN NoFiber ELSE OwnerAt(q, k)')
    <3>1. CASE k = n + 1
      BY <3>1, <1>3, <1>9
    <3>2. CASE k \in 0 .. n
      <4>1. (IF k = n THEN current ELSE rust[pos[k + 1]].prev) = (IF k = 0 THEN NoFiber ELSE OwnerAt(pos, k))
        BY <1>1, <2>1, <3>2 DEF Good, Nested, Current
      <4>2. k # 0 => OwnerAt(q, k)' = OwnerAt(pos, k)
        BY <1>9, <3>2
      <4>3. rust'[q[k + 1]].prev = (IF k = n THEN current ELSE rust[pos[k + 1]].prev)
        BY <1>2, <1>8, <1>9, <3>2
      <4>4. k # n + 1
        BY <3>2
      <4> QED BY <4>1, <4>2, <4>3, <4>4
    <3> QED BY <1>8, <3>1, <3>2
  <2>2. \A j, k \in 1 .. n + 1 : OwnerAt(q, j)' = OwnerAt(q, k)' => j = k
    <3>1. \A j, k \in 1 .. n : OwnerAt(pos, j) = OwnerAt(pos, k) => j = k
      BY <1>1 DEF Good, Nested, Current
    <3> QED BY <3>1, <1>8, <1>9
  <2> QED BY <1>3, <1>6, <2>1, <2>2 DEF Current
<1>17. Counted(q)'
  <2>1. UpTo(rust', l) = depth /\ UpTo(rust', l + 1) = depth /\ depth \in Nat
    <3>1. UpTo(rust', l) = UpTo(rust, l) /\ UpTo(rust, l) = depth
      BY <1>1, <1>5, UpToAgree, SMTT(30) DEF Good, Nested, Counted
    <3>2. UpTo(rust', l) \in Nat /\ UpTo(rust', l + 1) = UpTo(rust', l) + (IF rust'[l + 1].fn = "iter" THEN 1 ELSE 0)
      BY UpToStep
    <3> QED BY <3>1, <3>2, <1>2, <1>5
  <2>2. ASSUME NEW k \in 1 .. n PROVE entry'[OwnerAt(q, k)'] = UpTo(rust', q[k] - 1)
    <3>1. pos[k] \in 1 .. l /\ q[k] = pos[k]
      BY <1>1, <1>4
    <3>2. pos[k] - 1 \in Nat /\ \A i \in 1 .. pos[k] - 1 : rust'[i] = rust[i]
      BY <3>1, <1>5
    <3>3. UpTo(rust', pos[k] - 1) = UpTo(rust, pos[k] - 1)
      BY <3>2, UpToAgree
    <3>4. entry[OwnerAt(pos, k)] = UpTo(rust, pos[k] - 1)
      BY <1>1 DEF Good, Nested, Counted
    <3>5. entry'[OwnerAt(pos, k)] = entry[OwnerAt(pos, k)]
      BY <1>3, <1>9 DEF Good, TypeOK
    <3> QED BY <1>9, <3>1, <3>3, <3>4, <3>5
  <2>3. entry'[f] = depth /\ q[n + 1] - 1 = l
    BY <1>3, <1>4 DEF Good, TypeOK
  <2>4. \A k \in 1 .. n + 1 : entry'[OwnerAt(q, k)'] = UpTo(rust', q[k] - 1)
    BY <1>8, <1>9, <2>1, <2>2, <2>3
  <2> QED BY <1>3, <1>5, <1>6, <2>1, <2>4 DEF Counted
<1>18. RunningIsResumed(q)'
  <2> SUFFICES ASSUME NEW g \in Fiber
               PROVE  state'[g] = "Running" <=> \E k \in 1 .. n + 1 : OwnerAt(q, k)' = g
    BY <1>6 DEF RunningIsResumed
  <2>1. CASE g = f
    <3>1. state'[g] = "Running" /\ n + 1 \in 1 .. n + 1
      BY <2>1, <1>3 DEF Good, TypeOK
    <3> QED BY <3>1, <2>1, <1>9
  <2>2. CASE g # f
    <3>1. state'[g] = state[g]
      BY <2>2, <1>3 DEF Good, TypeOK
    <3>2. state[g] = "Running" <=> \E k \in 1 .. n : OwnerAt(pos, k) = g
      BY <1>1 DEF Good, RunningIsResumed
    <3> QED BY <3>1, <3>2, <2>2, <1>8, <1>9
  <2> QED BY <2>1, <2>2
<1>19. suspended' \in Nat /\ SuspendedExact'
  <2>1. \/ state[f] = "Suspended" /\ suspended' = suspended - 1
        \/ state[f] # "Suspended" /\ suspended' = suspended
    BY DEF Resume
  <2> QED BY <1>3, <2>1, Counting DEF Good
<1>20. TypeOK'
  <2>1. /\ state' \in [Fiber -> {"free", "Created", "Suspended", "Running", "Returned"}]
        /\ snapshot' \in [Fiber -> Seq(Code)] /\ entry' \in [Fiber -> Nat]
    <3>1. <<>> \in Seq(Code)
      BY EmptySeq
    <3> QED BY <1>3, <3>1 DEF Good, TypeOK
  <2>2. /\ current' \in Fiber \cup {NoFiber} /\ depth' \in Nat /\ pending' \in BOOLEAN
        /\ handles' \in SUBSET Fiber /\ bodies' \in SUBSET Fiber /\ strayed' \in SUBSET Nat
    BY DEF Good, TypeOK, Resume
  <2> QED BY <1>5, <1>6, <1>7, <1>19, <2>1, <2>2, Zenon DEF TypeOK
<1> QED BY <1>14, <1>15, <1>16, <1>17, <1>18, <1>19, <1>20 DEF IInv, Nested

\* The end of a resume takes its level away and uncovers the one below.
LEMMA Leave ==
  ASSUME NEW pos, Good(pos), Len(stash) # 0, NEW st \in {"Returned", "Suspended"}, NEW left \in Seq(Code),
         AllOf(left, OwnerAt(pos, Len(stash))), st = "Suspended" => left # <<>>, EndResume(st, left)
  PROVE  IInv'
<1>1. PICK n, l, h \in Nat : Stacks(pos, n, l, h)
  BY Facts
<1> USE DEF Stacks
<1>2. /\ n # 0 /\ n \in 1 .. n /\ n - 1 \in Nat /\ pos[n] \in 1 .. l /\ Base = pos[n]
      /\ Above = pos[n] + 1 .. l /\ Level = n
  <2>1. n # 0 /\ n \in 1 .. n /\ n - 1 \in Nat
    BY <1>1
  <2>2. pos[n] \in 1 .. l
    BY <1>1, <2>1
  <2> QED BY <1>1, <2>1, <2>2, Shape DEF Good, Nested
<1>3. PICK f \in Fiber : f = OwnerAt(pos, n) /\ rust[pos[n]].fiber = f
  BY <1>1, <1>2 DEF OwnerAt
<1>4. PICK m \in Nat : m = pos[n] - 1 /\ m \in 0 .. l /\ m + 1 = pos[n] /\ m < l
  BY <1>2
<1>5. /\ rust' = SubSeq(rust, 1, m) /\ stash' = SubSeq(stash, 1, n - 1) /\ frames' = stash[n]
      /\ snapshot' = [snapshot EXCEPT ![f] = left] /\ state' = [state EXCEPT ![f] = st]
      /\ current' = rust[pos[n]].prev /\ depth' = depth - Iters(Above) /\ strayed' = strayed \ {n}
      /\ entry' = entry
  BY <1>1, <1>2, <1>3, <1>4 DEF EndResume, Restored, Last, Front
<1>6. /\ rust' \in Seq(Calls) /\ Len(rust') = m /\ DOMAIN rust' = 1 .. m
      /\ \A i \in 1 .. m : rust'[i] = rust[i]
  <2>1. rust \in Seq(Calls) /\ m \in 0 .. Len(rust)
    BY <1>1, <1>4 DEF Good, TypeOK
  <2>2. rust' \in Seq(Calls) /\ Len(rust') = m /\ \A i \in 1 .. m : rust'[i] = rust[i]
    BY <1>5, <2>1, PrefixFacts
  <2> QED BY <2>2, LenProperties
<1>7. /\ stash' \in Seq(Seq(Code)) /\ Len(stash') = n - 1
      /\ \A k \in 1 .. n - 1 : stash'[k] = stash[k]
      /\ frames' \in Seq(Code)
  <2>1. stash \in Seq(Seq(Code)) /\ n - 1 \in 0 .. Len(stash)
    BY <1>1, <1>2 DEF Good, TypeOK
  <2>2. stash' \in Seq(Seq(Code)) /\ Len(stash') = n - 1 /\ \A k \in 1 .. n - 1 : stash'[k] = stash[k]
    BY <1>5, <2>1, PrefixFacts
  <2> QED BY <1>1, <1>2, <1>5, <2>2
<1>8. /\ \A k \in 1 .. n - 1 : k \in 1 .. n /\ k # n /\ k < n
      /\ \A k \in 0 .. n - 1 : k \in 0 .. n /\ k # n /\ k + 1 \in 1 .. n /\ k < n
      /\ \A k \in 0 .. n - 1 : k # n - 1 => k + 1 \in 1 .. n - 1 /\ k < n - 1
      /\ \A i \in 1 .. m : i \in 1 .. l /\ i < pos[n]
  BY <1>2, <1>4
<1>9. \A k \in 1 .. n - 1 : pos[k] \in 1 .. m
  <2> SUFFICES ASSUME NEW k \in 1 .. n - 1 PROVE pos[k] \in 1 .. m
    OBVIOUS
  <2>1. pos[k] \in 1 .. l /\ pos[k] < pos[n]
    BY <1>1, <1>2, <1>8
  <2> QED BY <1>2, <1>4, <2>1
<1>10. PICK q \in [1 .. n - 1 -> 1 .. m] : \A k \in 1 .. n - 1 : q[k] = pos[k]
  <2> DEFINE q == [k \in 1 .. n - 1 |-> pos[k]]
  <2>1. q \in [1 .. n - 1 -> 1 .. m] /\ \A k \in 1 .. n - 1 : q[k] = pos[k]
    BY <1>9
  <2> QED BY <2>1
<1>11. /\ \A k \in 1 .. n - 1 : rust'[q[k]] = rust[pos[k]] /\ OwnerAt(q, k)' = OwnerAt(pos, k)
       /\ OwnerAt(q, 0)' = Main /\ OwnerAt(pos, 0) = Main
  <2>1. \A k \in 1 .. n - 1 : rust'[q[k]] = rust[pos[k]]
    BY <1>6, <1>9, <1>10
  <2> QED BY <2>1 DEF OwnerAt
<1>12. \A k \in 1 .. n - 1 : OwnerAt(pos, k) \in Fiber /\ OwnerAt(pos, k) # f
  <2> SUFFICES ASSUME NEW k \in 1 .. n - 1 PROVE OwnerAt(pos, k) \in Fiber /\ OwnerAt(pos, k) # f
    OBVIOUS
  <2>1. k \in 1 .. n /\ k # n /\ k # 0
    BY <1>8
  <2>2. OwnerAt(pos, k) \in Fiber
    BY <1>1, <2>1 DEF OwnerAt
  <2>3. OwnerAt(pos, k) = OwnerAt(pos, n) => k = n
    BY <1>1, <1>2, <2>1 DEF Good, Nested, Current
  <2> QED BY <1>3, <2>1, <2>2, <2>3
<1>13. \A k \in 0 .. n - 1 : FramesAt(k)' = FramesAt(k)
  <2> SUFFICES ASSUME NEW k \in 0 .. n - 1 PROVE FramesAt(k)' = FramesAt(k)
    OBVIOUS
  <2>1. FramesAt(k) = stash[k + 1]
    BY <1>1, <1>8 DEF FramesAt
  <2>2. CASE k = n - 1
    BY <1>5, <1>7, <2>1, <2>2 DEF FramesAt
  <2>3. CASE k # n - 1
    BY <1>7, <1>8, <2>1, <2>3 DEF FramesAt
  <2> QED BY <2>2, <2>3
<1>14. \A k \in 0 .. n - 1, i \in 1 .. m : In(q, k, i)' <=> In(pos, k, i)
  <2> SUFFICES ASSUME NEW k \in 0 .. n - 1, NEW i \in 1 .. m PROVE In(q, k, i)' <=> In(pos, k, i)
    OBVIOUS
  <2>1. rust'[i] = rust[i] /\ (k > 0 => q[k] = pos[k])
    BY <1>6, <1>10
  <2>2. CASE k = n - 1
    <3>1. k < n /\ k + 1 = n /\ i < pos[k + 1] /\ ~ (k < n - 1)
      BY <1>2, <1>8, <2>2
    <3> QED BY <1>1, <1>7, <2>1, <3>1 DEF In
  <2>3. CASE k # n - 1
    <3>1. k < n /\ k < n - 1 /\ q[k + 1] = pos[k + 1]
      BY <1>8, <1>10, <2>3
    <3> QED BY <1>1, <1>7, <2>1, <3>1 DEF In
  <2> QED BY <2>2, <2>3
<1>15. Placed(q)' /\ q \in [1 .. Len(stash') -> DOMAIN rust']
  <2>1. \A k \in 1 .. n - 1 : IsResume(rust'[q[k]]) /\ rust'[q[k]].fiber \in Fiber
    BY <1>1, <1>8, <1>11
  <2>2. \A i \in 1 .. m : IsResume(rust'[i]) => \E k \in 1 .. n - 1 : q[k] = i
    <3> SUFFICES ASSUME NEW i \in 1 .. m, IsResume(rust'[i]) PROVE \E k \in 1 .. n - 1 : q[k] = i
      OBVIOUS
    <3>1. PICK k \in 1 .. n : pos[k] = i
      BY <1>1, <1>6, <1>8
    <3>2. k # n /\ k \in 1 .. n - 1
      BY <1>8, <3>1
    <3> QED BY <1>10, <3>1, <3>2
  <2>3. \A j, k \in 1 .. n - 1 : j < k => q[j] < q[k]
    BY <1>1, <1>8, <1>10
  <2> QED BY <1>6, <1>7, <1>10, <2>1, <2>2, <2>3 DEF Placed
<1>16. Owned(q)'
  <2>1. \A g \in Fiber : AllOf(snapshot'[g], g) /\ (state'[g] = "Suspended" => snapshot'[g] # <<>>)
    BY <1>1, <1>3, <1>5, SMTT(30) DEF Good, TypeOK, Nested, Owned
  <2>2. ASSUME NEW k \in 0 .. n - 1 PROVE FramesAt(k)' # <<>> /\ AllOf(FramesAt(k)', OwnerAt(q, k)')
    <3>1. FramesAt(k) # <<>> /\ AllOf(FramesAt(k), OwnerAt(pos, k)) /\ OwnerAt(q, k)' = OwnerAt(pos, k)
      <4>1. k \in 0 .. n /\ (k = 0 \/ k \in 1 .. n - 1)
        BY <1>8
      <4>2. FramesAt(k) # <<>> /\ AllOf(FramesAt(k), OwnerAt(pos, k))
        BY <1>1, <4>1 DEF Good, Nested, Owned
      <4> QED BY <4>1, <4>2, <1>11
    <3> QED BY <3>1, <1>13
  <2>3. ASSUME NEW k \in 0 .. n - 1, NEW i \in DOMAIN rust', In(q, k, i)'
        PROVE  k \in 0 .. n /\ i \in 1 .. l /\ In(pos, k, i) /\ rust'[i] = rust[i]
    BY <2>3, <1>6, <1>8, <1>14
  <2>4. ASSUME NEW k \in 0 .. n - 1, NEW i \in DOMAIN rust', In(q, k, i)'
        PROVE  rust'[i].pre < Len(FramesAt(k)')
    <3>1. k \in 0 .. n /\ i \in 1 .. l /\ In(pos, k, i) /\ rust'[i] = rust[i]
      BY <2>3, <2>4
    <3>2. rust[i].pre < Len(FramesAt(k))
      BY <1>1, <3>1 DEF Good, Nested, Owned
    <3> QED BY <3>1, <3>2, <1>13
  <2>5. ASSUME NEW k \in 0 .. n - 1, NEW i \in DOMAIN rust', NEW j \in DOMAIN rust',
               In(q, k, i)', In(q, k, j)', i < j
        PROVE  rust'[i].pre < rust'[j].pre
    <3>1. /\ k \in 0 .. n /\ i \in 1 .. l /\ In(pos, k, i) /\ rust'[i] = rust[i]
          /\ j \in 1 .. l /\ In(pos, k, j) /\ rust'[j] = rust[j]
      BY <2>3, <2>5
    <3> QED BY <3>1, <2>5, <1>1 DEF Good, Nested, Owned
  <2> QED BY <1>7, <2>1, <2>2, <2>4, <2>5 DEF Owned
<1>17. Current(q)'
  <2>1. ASSUME NEW k \in 0 .. n - 1, k \notin strayed'
        PROVE  (IF k = n - 1 THEN current' ELSE rust'[q[k + 1]].prev) = (IF k = 0 THEN NoFiber ELSE OwnerAt(q, k)')
    <3>1. k \notin strayed /\ k \in 0 .. n /\ k # n
      BY <1>5, <1>8, <2>1
    <3>2. rust[pos[k + 1]].prev = (IF k = 0 THEN NoFiber ELSE OwnerAt(pos, k))
      BY <1>1, <3>1 DEF Good, Nested, Current
    <3>3. k # 0 => OwnerAt(q, k)' = OwnerAt(pos, k)
      BY <1>11
    <3>4. (IF k = n - 1 THEN current' ELSE rust'[q[k + 1]].prev) = rust[pos[k + 1]].prev
      <4>1. k = n - 1 => k + 1 = n
        BY <1>2
      <4> QED BY <1>5, <1>8, <1>11, <4>1
    <3> QED BY <3>2, <3>3, <3>4
  <2>2. \A j, k \in 1 .. n - 1 : OwnerAt(q, j)' = OwnerAt(q, k)' => j = k
    BY <1>1, <1>8, <1>11 DEF Good, Nested, Current
  <2> QED BY <1>7, <2>1, <2>2 DEF Current
<1>18. Counted(q)' /\ depth' \in Nat
  <2>1. depth' = UpTo(rust, m) /\ UpTo(rust, m) \in Nat
    <3> DEFINE a == Cardinality({i \in m + 1 .. l : rust[i].fn = "iter"})
    <3>1. depth = UpTo(rust, l)
      BY <1>1 DEF Good, Nested, Counted
    <3>2. UpTo(rust, m) \in Nat /\ a \in Nat /\ UpTo(rust, l) = UpTo(rust, m) + a
      BY <1>4, UpToSplit, SMTT(30)
    <3>3. a = Iters(Above)
      <4>1. {i \in m + 1 .. l : rust[i].fn = "iter"} = {i \in pos[n] + 1 .. l : rust[i].fn = "iter"}
        <5>1. rust[pos[n]].fn # "iter"
          BY <1>1, <1>2 DEF IsResume
        <5>2. \A i \in m + 1 .. l : i = pos[n] \/ i \in pos[n] + 1 .. l
          BY <1>2, <1>4, SMTT(30)
        <5>3. pos[n] + 1 .. l \subseteq m + 1 .. l
          BY <1>2, <1>4
        <5> QED BY <5>1, <5>2, <5>3
      <4> QED BY <1>2, <4>1 DEF Iters
    <3> HIDE DEF a
    <3> QED BY <1>5, <3>1, <3>2, <3>3
  <2>2. UpTo(rust', m) = UpTo(rust, m)
    BY <1>6, UpToAgree
  <2>3. ASSUME NEW k \in 1 .. n - 1 PROVE entry'[OwnerAt(q, k)'] = UpTo(rust', q[k] - 1)
    <3>1. pos[k] \in 1 .. m /\ q[k] = pos[k]
      BY <1>9, <1>10
    <3>2. pos[k] - 1 \in Nat /\ \A i \in 1 .. pos[k] - 1 : rust'[i] = rust[i]
      BY <3>1, <1>6
    <3>3. UpTo(rust', pos[k] - 1) = UpTo(rust, pos[k] - 1)
      BY <3>2, UpToAgree
    <3>4. entry[OwnerAt(pos, k)] = UpTo(rust, pos[k] - 1)
      BY <1>1, <1>8 DEF Good, Nested, Counted
    <3> QED BY <1>5, <1>11, <3>1, <3>3, <3>4
  <2> QED BY <1>6, <1>7, <2>1, <2>2, <2>3 DEF Counted
<1>19. state[f] = "Running"
  BY <1>1, <1>2, <1>3 DEF Good, RunningIsResumed
<1>20. RunningIsResumed(q)'
  <2> SUFFICES ASSUME NEW g \in Fiber
               PROVE  state'[g] = "Running" <=> \E k \in 1 .. n - 1 : OwnerAt(q, k)' = g
    BY <1>7 DEF RunningIsResumed
  <2>1. CASE g = f
    <3>1. state'[g] # "Running"
      BY <2>1, <1>5 DEF Good, TypeOK
    <3> QED BY <3>1, <2>1, <1>11, <1>12
  <2>2. CASE g # f
    <3>1. state'[g] = state[g]
      BY <2>2, <1>5 DEF Good, TypeOK
    <3>2. state[g] = "Running" <=> \E k \in 1 .. n : OwnerAt(pos, k) = g
      BY <1>1 DEF Good, RunningIsResumed
    <3>3. \A k \in 1 .. n : k = n \/ k \in 1 .. n - 1
      OBVIOUS
    <3> QED BY <3>1, <3>2, <3>3, <2>2, <1>3, <1>8, <1>11
  <2> QED BY <2>1, <2>2
<1>21. suspended' \in Nat /\ SuspendedExact'
  <2>1. \/ st = "Suspended" /\ suspended' = suspended + 1
        \/ st # "Suspended" /\ suspended' = suspended
    BY DEF EndResume
  <2> QED BY <1>5, <1>19, <2>1, Counting DEF Good
<1>22. TypeOK'
  <2>1. /\ state' \in [Fiber -> {"free", "Created", "Suspended", "Running", "Returned"}]
        /\ snapshot' \in [Fiber -> Seq(Code)] /\ entry' \in [Fiber -> Nat]
    BY <1>5 DEF Good, TypeOK
  <2>2. current' \in Fiber \cup {NoFiber}
    <3>1. rust[pos[n]] \in Calls
      BY <1>1, <1>2
    <3> QED BY <1>5, <3>1 DEF Calls
  <2>3. /\ pending' \in BOOLEAN
        /\ handles' \in SUBSET Fiber /\ bodies' \in SUBSET Fiber /\ strayed' \in SUBSET Nat
    BY DEF Good, TypeOK, EndResume
  <2> QED BY <1>6, <1>7, <1>18, <1>21, <2>1, <2>2, <2>3, Zenon DEF TypeOK
<1> QED BY <1>15, <1>16, <1>17, <1>18, <1>20, <1>21, <1>22 DEF IInv, Nested

\* A return or a rescue at frame t: the calls made at or above it are the last.
LEMMA Cut ==
  ASSUME NEW pos, Good(pos), NEW t \in 1 .. Len(frames), NEW stops, stops = {i \in Above : rust[i].pre >= t},
         rust' = SubSeq(rust, 1, Len(rust) - Cardinality(stops)), frames' = SubSeq(frames, 1, t),
         depth' = depth - Iters(stops),
         UNCHANGED <<state, snapshot, stash, current, pending, entry, suspended, handles, bodies, strayed>>
  PROVE  IInv'
<1>1. PICK n, l, h \in Nat : Stacks(pos, n, l, h)
  BY Facts
<1>2. Base \in 0 .. l /\ Above = Base + 1 .. l /\ \A i \in Above : In(pos, n, i)
  BY <1>1, Shape DEF Good, Nested, Stacks
<1>3. PICK b \in Nat : b = Base /\ b <= l
  BY <1>2
<1>4. stops \subseteq b + 1 .. l
  BY <1>2, <1>3
<1>5. \A i \in 1 .. l : rust[i].pre \in Nat
  BY <1>1 DEF Stacks, Calls
<1>6. \A i \in stops : \A j \in b + 1 .. l : i < j => j \in stops
  <2> SUFFICES ASSUME NEW i \in stops, NEW j \in b + 1 .. l, i < j PROVE j \in stops
    OBVIOUS
  <2>1. i \in Above /\ j \in Above /\ i \in 1 .. l /\ j \in 1 .. l /\ rust[i].pre >= t
    BY <1>2, <1>3
  <2>2. rust[i].pre < rust[j].pre
    <3>1. In(pos, n, i) /\ In(pos, n, j) /\ n \in 0 .. n
      BY <1>2, <2>1
    <3> QED BY <1>1, <2>1, <3>1 DEF Stacks, Good, Nested, Owned
  <2>3. t \in Nat /\ rust[i].pre \in Nat /\ rust[j].pre \in Nat
    BY <1>5, <2>1
  <2> QED BY <2>1, <2>2, <2>3, SMTT(30)
<1>7. PICK m \in b .. l : stops = m + 1 .. l /\ Cardinality(stops) = l - m
  <2>1. b \in Nat /\ l \in Nat /\ b <= l
    BY <1>3
  <2> QED BY ONLY <2>1, <1>4, <1>6, TopPart, ZenonT(30)
<1>8. m \in Nat /\ m \in 0 .. l /\ l - (l - m) = m
  BY <1>3
<1>9. rust' = SubSeq(rust, 1, m)
  BY <1>1, <1>7, <1>8 DEF Stacks
<1>10. depth' = UpTo(rust, m)
  <2>1. depth = UpTo(rust, l)
    BY <1>1 DEF Good, Nested, Counted, Stacks
  <2>2. /\ UpTo(rust, m) \in Nat /\ UpTo(rust, l) = UpTo(rust, m) + Iters(stops)
        /\ Iters(stops) \in Nat
    <3>1. Iters(stops) = Cardinality({i \in m + 1 .. l : rust[i].fn = "iter"})
      BY <1>7 DEF Iters
    <3> QED BY <1>8, <3>1, UpToSplit
  <2> QED BY <2>1, <2>2
<1>11. \A i \in Base + 1 .. m : rust[i].pre < t
  <2> SUFFICES ASSUME NEW i \in b + 1 .. m PROVE rust[i].pre < t
    BY <1>3
  <2>1. i \in 1 .. l /\ i \in Above /\ i \notin stops
    <3>1. i \in 1 .. l /\ i \in b + 1 .. l /\ i \notin m + 1 .. l
      BY <1>3, <1>8
    <3> QED BY <1>2, <1>3, <1>7, <3>1
  <2>2. ~ (rust[i].pre >= t) /\ rust[i].pre \in Nat
    BY <1>5, <2>1
  <2> QED BY <2>2
<1>12. m \in Base .. Len(rust)
  BY <1>1, <1>3 DEF Stacks
<1> QED BY <1>9, <1>10, <1>11, <1>12, Truncate

\* A step that changes nothing keeps the invariant.
LEMMA Stutter == IInv /\ UNCHANGED vars => IInv'
<1> SUFFICES ASSUME IInv, UNCHANGED vars PROVE IInv'
  OBVIOUS
<1>1. PICK pos \in [1 .. Len(stash) -> DOMAIN rust] : Nested(pos) /\ (~ Lost => RunningIsResumed(pos))
  BY DEF IInv
<1>2. TypeOK' /\ SuspendedExact'
  BY DEF IInv, TypeOK, SuspendedExact, vars
<1>3. Lost' <=> Lost
  BY DEF Lost, OnStack, Resumes, vars
<1>4. Placed(pos)' /\ Current(pos)' /\ Counted(pos)'
  BY <1>1 DEF Nested, Placed, Current, Counted, OwnerAt, vars
<1>5. Owned(pos)'
  <2>1. UNCHANGED <<rust, stash, frames, snapshot, state>>
    BY DEF vars
  <2>2. ASSUME NEW k \in 0 .. Len(stash)
        PROVE  /\ FramesAt(k)' # <<>> /\ AllOf(FramesAt(k)', OwnerAt(pos, k)')
               /\ \A i \in DOMAIN rust : In(pos, k, i)' => rust'[i].pre < Len(FramesAt(k)')
               /\ \A i, j \in DOMAIN rust : In(pos, k, i)' /\ In(pos, k, j)' /\ i < j => rust'[i].pre < rust'[j].pre
    BY <1>1, <2>1 DEF Nested, Owned, FramesAt, OwnerAt, In
  <2> QED BY <1>1, <2>1, <2>2 DEF Nested, Owned
<1>6. ~ Lost' => RunningIsResumed(pos)'
  BY <1>1, <1>3 DEF RunningIsResumed, OwnerAt, vars
<1>7. pos \in [1 .. Len(stash') -> DOMAIN rust']
  BY <1>1 DEF vars
<1> QED BY <1>2, <1>4, <1>5, <1>6, <1>7 DEF IInv, Nested

\* Outside every fiber, at the start and after a reset.
Outside ==
  /\ TypeOK /\ SuspendedExact
  /\ rust = <<>> /\ stash = <<>> /\ frames = <<Main>> /\ depth = 0
  /\ \A f \in Fiber : snapshot[f] = <<>> /\ state[f] = "free"
  /\ 0 \notin strayed => current = NoFiber

\* Outside every fiber the invariant holds with no level.
LEMMA OutsideInv == Outside => IInv
<1> SUFFICES ASSUME Outside PROVE IInv
  OBVIOUS
<1>3. Len(stash) = 0 /\ Len(rust) = 0 /\ DOMAIN rust = {} /\ 1 .. Len(stash) = {}
  BY DEF Outside
<1>4. PICK pos \in [1 .. Len(stash) -> DOMAIN rust] : TRUE
  <2>1. [k \in 1 .. Len(stash) |-> 0] \in [1 .. Len(stash) -> DOMAIN rust]
    BY <1>3
  <2> QED BY <2>1
<1>5. Placed(pos)
  BY <1>3 DEF Placed
<1>6. Owned(pos)
  <2>1. \A k \in 0 .. Len(stash) : k = 0 /\ FramesAt(k) = <<Main>> /\ OwnerAt(pos, k) = Main
    BY <1>3 DEF FramesAt, OwnerAt, Outside
  <2>2. AllOf(<<Main>>, Main) /\ \A f : AllOf(<<>>, f)
    BY DEF AllOf
  <2>3. \A f \in Fiber : AllOf(snapshot[f], f) /\ state[f] # "Suspended"
    BY <2>2 DEF Outside
  <2>4. <<Main>> # <<>>
    OBVIOUS
  <2> QED BY <1>3, <2>1, <2>2, <2>3, <2>4 DEF Owned
<1>7. Current(pos)
  BY <1>3 DEF Current, Outside
<1>8. Counted(pos)
  <2>1. UpTo(rust, 0) = 0
    <3>1. {i \in 1 .. 0 : rust[i].fn = "iter"} = {}
      OBVIOUS
    <3> QED BY <3>1, FS_EmptySet DEF UpTo
  <2> QED BY <1>3, <2>1 DEF Counted, Outside
<1>9. RunningIsResumed(pos)
  BY <1>3 DEF RunningIsResumed, Outside
<1> QED BY <1>4, <1>5, <1>6, <1>7, <1>8, <1>9 DEF IInv, Nested, Outside

\* It holds when the VM starts.
LEMMA InitInv == Init => IInv
<1> SUFFICES ASSUME Init PROVE Outside
  BY OutsideInv
<1>1. TypeOK
  <2>1. <<>> \in Seq(Code) /\ <<>> \in Seq(Seq(Code)) /\ <<>> \in Seq(Calls) /\ <<Main>> \in Seq(Code)
    BY DEF Code
  <2> QED BY <2>1 DEF Init, TypeOK
<1>2. SuspendedExact
  <2>1. {f \in Fiber : state[f] = "Suspended"} = {}
    BY DEF Init
  <2> QED BY <2>1, FS_EmptySet DEF Init, SuspendedExact
<1> QED BY <1>1, <1>2 DEF Init, Outside

\* Runtime::reset brings the VM back outside every fiber.
LEMMA ResetInv == ASSUME NEW pos, Good(pos), Reset PROVE IInv'
<1>1. TypeOK'
  <2>1. <<>> \in Seq(Code) /\ <<>> \in Seq(Seq(Code)) /\ <<Main>> \in Seq(Code)
    BY DEF Code
  <2> QED BY <2>1 DEF Good, Reset, TypeOK
<1>2. SuspendedExact'
  <2>1. {f \in Fiber : state'[f] = "Suspended"} = {} /\ suspended' = 0
    BY DEF Reset
  <2> QED BY <2>1, FS_EmptySet DEF SuspendedExact
<1>3. Len(stash) = 0 /\ Len(rust) = 0
  <2>1. PICK n, l, h \in Nat : Stacks(pos, n, l, h)
    BY Facts
  <2>2. Len(rust) = 0
    BY DEF Reset
  <2>3. n = 0
    <3> SUFFICES ASSUME n # 0 PROVE FALSE
      OBVIOUS
    <3>1. 1 \in 1 .. n /\ l = 0
      BY <2>1, <2>2 DEF Stacks
    <3>2. pos[1] \in 1 .. l
      BY <2>1, <3>1 DEF Stacks
    <3> QED BY <3>1, <3>2
  <2> QED BY <2>1, <2>2, <2>3 DEF Stacks
<1>4. depth = 0
  <2>1. {i \in 1 .. 0 : rust[i].fn = "iter"} = {}
    OBVIOUS
  <2> QED BY <1>3, <2>1, FS_EmptySet DEF Good, Nested, Counted, UpTo
<1>5. 0 \notin strayed => current = NoFiber
  BY <1>3 DEF Good, Nested, Current
<1>6. Outside'
  BY <1>1, <1>2, <1>4, <1>5 DEF Reset, Outside
<1> QED BY <1>6, OutsideInv, PTL

\* The innermost level ends only inside a fiber, and a pending yield leaves its
\* calls one by one.
LEMMA UnwindInv == ASSUME NEW pos, Good(pos), Unwind PROVE IInv'
<1>1. PICK n, l, h \in Nat : Stacks(pos, n, l, h)
  BY Facts
<1>2. Base = (IF n = 0 THEN 0 ELSE pos[n]) /\ Base \in 0 .. l
  BY <1>1, Shape DEF Good, Nested, Stacks
<1>3. l # 0
  BY <1>1, EmptySeq DEF Unwind, Unwinding, Stacks, Good, TypeOK
<1>4. CASE Base = Len(rust)
  <2>1. EndResume("Suspended", frames) /\ Len(stash) # 0
    BY <1>1, <1>2, <1>3, <1>4 DEF Unwind, Stacks
  <2>2. frames \in Seq(Code) /\ frames # <<>> /\ AllOf(frames, OwnerAt(pos, Len(stash)))
    BY <1>1, EmptySeq DEF Good, TypeOK, Stacks, AllOf
  <2> QED BY <2>1, <2>2, Leave
<1>5. CASE Base # Len(rust)
  <2>1. /\ rust' = Front(rust) /\ depth' = (IF Last(rust).fn = "iter" THEN depth - 1 ELSE depth)
        /\ UNCHANGED <<state, frames, snapshot, stash, current, pending, entry, suspended, handles, bodies, strayed>>
    BY <1>5 DEF Unwind
  <2>2. PICK m \in Nat : m + 1 = l /\ m = l - 1 /\ m \in Base .. l /\ m \in Base .. Len(rust)
    <3>1. Base < l /\ Base \in Nat /\ l = Len(rust)
      BY <1>1, <1>2, <1>5 DEF Stacks
    <3> QED BY <3>1
  <2>3. rust' = SubSeq(rust, 1, m)
    BY <1>1, <2>1, <2>2 DEF Front, Stacks
  <2>4. depth' = UpTo(rust, m)
    <3>1. depth = UpTo(rust, l)
      BY <1>1 DEF Good, Nested, Counted, Stacks
    <3>2. UpTo(rust, m) \in Nat /\ UpTo(rust, m + 1) = UpTo(rust, m) + (IF rust[m + 1].fn = "iter" THEN 1 ELSE 0)
      BY UpToStep
    <3>3. Last(rust) = rust[m + 1]
      BY <1>1, <2>2 DEF Last, Stacks
    <3> QED BY <2>1, <2>2, <3>1, <3>2, <3>3
  <2>5. h \in 1 .. Len(frames) /\ frames' = SubSeq(frames, 1, h)
    <3>1. h \in 1 .. Len(frames) /\ h = Len(frames) /\ frames \in Seq(Code)
      BY <1>1 DEF Stacks, Good, TypeOK
    <3> QED BY <2>1, <3>1, SubSeqFull
  <2>6. \A i \in Base + 1 .. m : rust[i].pre < h
    <3>1. Above = Base + 1 .. l /\ \A i \in Above : In(pos, n, i)
      BY <1>1, Shape DEF Good, Nested, Stacks
    <3>2. \A i \in Base + 1 .. m : i \in 1 .. l /\ In(pos, n, i)
      BY <1>2, <2>2, <3>1
    <3>3. n \in 0 .. n /\ FramesAt(n) = frames
      BY <1>1 DEF FramesAt, Stacks
    <3> QED BY <1>1, <3>2, <3>3 DEF Good, Nested, Owned, Stacks
  <2> QED BY <2>1, <2>2, <2>3, <2>4, <2>5, <2>6, Truncate
<1> QED BY <1>4, <1>5

\* A return pops a frame of the executing fiber only.
LEMMA ReturnInv == ASSUME NEW pos, Good(pos), Return PROVE IInv'
<1>1. PICK n, l, h \in Nat : Stacks(pos, n, l, h)
  BY Facts
<1>2. Innermost = OwnerAt(pos, n)
  BY <1>1, Shape DEF Good, Nested, Stacks
<1>3. frames \in Seq(Code) /\ h - 1 \in 0 .. Len(frames) /\ Front(frames) = SubSeq(frames, 1, h - 1) /\ h - 1 \in Nat
  BY <1>1 DEF Good, TypeOK, Stacks, Front
<1>4. Front(frames) \in Seq(Code) /\ Len(Front(frames)) = h - 1
  BY <1>3, PrefixFacts
<1>5. CASE Front(frames) = <<>>
  <2>1. h = 1
    BY <1>4, <1>5, EmptySeq
  <2>2. n # 0
    BY <1>1, <1>2, <2>1 DEF Return, OwnerAt, Stacks
  <2>3. EndResume("Returned", <<>>)
    BY <1>5 DEF Return
  <2>4. <<>> \in Seq(Code) /\ AllOf(<<>>, OwnerAt(pos, n))
    BY DEF AllOf
  <2> QED BY <1>1, <2>2, <2>3, <2>4, Leave DEF Stacks
<1>6. CASE Front(frames) # <<>>
  <2>1. h - 1 \in 1 .. Len(frames)
    BY <1>1, <1>3, <1>4, <1>6, EmptySeq DEF Stacks
  <2> DEFINE stops == {i \in Above : rust[i].pre >= h - 1}
  <2>2. /\ frames' = SubSeq(frames, 1, h - 1)
        /\ rust' = SubSeq(rust, 1, Len(rust) - Cardinality(stops))
        /\ depth' = depth - Iters(stops)
        /\ UNCHANGED <<state, snapshot, stash, current, pending, entry, suspended, handles, bodies, strayed>>
    BY <1>3, <1>4, <1>6 DEF Return
  <2>3. \E T : T = stops
    OBVIOUS
  <2>4. PICK T : T = stops
    BY <2>3
  <2> QED BY <2>1, <2>2, <2>4, Cut
<1> QED BY <1>5, <1>6

\* An exception cuts frames and native calls of the executing fiber only.
LEMMA RaiseInv == ASSUME NEW pos, Good(pos), NEW t \in Nat, Raise(t) PROVE IInv'
<1>1. PICK n, l, h \in Nat : Stacks(pos, n, l, h)
  BY Facts
<1>2. Innermost = OwnerAt(pos, n)
  BY <1>1, Shape DEF Good, Nested, Stacks
<1>3. CASE t = 0
  <2>1. n # 0 /\ EndResume("Returned", <<>>)
    BY <1>2, <1>3 DEF Raise, OwnerAt
  <2>2. <<>> \in Seq(Code) /\ AllOf(<<>>, OwnerAt(pos, n))
    BY DEF AllOf
  <2> QED BY <1>1, <2>1, <2>2, Leave DEF Stacks
<1>4. CASE t # 0
  <2>1. t \in 1 .. Len(frames)
    BY <1>1, <1>4 DEF Raise, Stacks
  <2> DEFINE stops == {i \in Above : rust[i].pre >= t}
  <2>2. /\ frames' = SubSeq(frames, 1, t)
        /\ rust' = SubSeq(rust, 1, Len(rust) - Cardinality(stops))
        /\ depth' = depth - Iters(stops)
        /\ UNCHANGED <<state, snapshot, stash, current, pending, entry, suspended, handles, bodies, strayed>>
    BY <1>4 DEF Raise
  <2>3. \E T : T = stops
    OBVIOUS
  <2>4. PICK T : T = stops
    BY <2>3
  <2> QED BY <2>1, <2>2, <2>4, Cut
<1> QED BY <1>3, <1>4

\* Native iterators and yields to a block push a call of the executing fiber.
LEMMA CallsInv == ASSUME NEW pos, Good(pos), StepBlock \/ YieldToBlock PROVE IInv'
<1>1. Len(frames) \in Nat
  BY LenProperties DEF Good, TypeOK
<1>2. CASE StepBlock
  <2> DEFINE r == [fn |-> "iter", fiber |-> NoFiber, prev |-> NoFiber, pre |-> Len(frames)]
  <2>1. r \in Calls /\ ~ IsResume(r) /\ r.pre = Len(frames) /\ r.fn = "iter"
    BY <1>1 DEF Calls, Kinds, IsResume
  <2>2. /\ frames' = Append(frames, Last(frames)) /\ rust' = Append(rust, r) /\ depth' = depth + 1
        /\ UNCHANGED <<state, snapshot, stash, current, pending, entry, suspended, handles, bodies, strayed>>
    BY <1>2 DEF StepBlock
  <2> HIDE DEF r
  <2> QED BY <2>1, <2>2, Push
<1>3. CASE YieldToBlock
  <2> DEFINE r == [fn |-> "yield", fiber |-> NoFiber, prev |-> NoFiber, pre |-> Len(frames)]
  <2>1. r \in Calls /\ ~ IsResume(r) /\ r.pre = Len(frames) /\ r.fn # "iter"
    BY <1>1 DEF Calls, Kinds, IsResume
  <2>2. /\ frames' = Append(frames, Last(frames)) /\ (rust' = rust \/ rust' = Append(rust, r)) /\ depth' = depth
        /\ UNCHANGED <<state, snapshot, stash, current, pending, entry, suspended, handles, bodies, strayed>>
    BY <1>3 DEF YieldToBlock
  <2>3. depth' = depth + 0
    BY <2>2 DEF Good, TypeOK
  <2> HIDE DEF r
  <2> QED BY <2>1, <2>2, <2>3, Push
<1> QED BY <1>2, <1>3

\* The steps that touch neither stack.
LEMMA QuietSteps ==
  ASSUME NEW pos, Good(pos),
         \/ FiberYield \/ FiberCurrent
         \/ \E f \in Fiber : StartFails(f) \/ FiberNew(f) \/ DropHandle(f) \/ Sweep(f) \/ Stream(f) \/ ResponseEnds(f)
  PROVE  IInv'
<1>1. CASE FiberYield \/ FiberCurrent \/ \E f \in Fiber : DropHandle(f) \/ Stream(f) \/ ResponseEnds(f)
  <2>1. UNCHANGED <<state, frames, snapshot, stash, current, depth, entry, suspended, rust, strayed>>
    BY <1>1 DEF FiberYield, FiberCurrent, DropHandle, Stream, ResponseEnds
  <2>2. pending' \in BOOLEAN /\ handles' \in SUBSET Fiber /\ bodies' \in SUBSET Fiber
    BY <1>1 DEF Good, TypeOK, FiberYield, FiberCurrent, DropHandle, Stream, ResponseEnds
  <2>3. TypeOK' /\ SuspendedExact'
    BY <2>1, <2>2 DEF Good, TypeOK, SuspendedExact
  <2> QED BY <2>1, <2>3, Quiet
<1>2. ASSUME NEW f \in Fiber, StartFails(f) \/ FiberNew(f) \/ Sweep(f) PROVE IInv'
  <2>1. PICK st \in {"Returned", "Created", "free"} : state' = [state EXCEPT ![f] = st] /\ (~ Sweep(f) => st # "free")
    <3>1. CASE StartFails(f)
      BY <3>1 DEF StartFails, Sweep
    <3>2. CASE FiberNew(f)
      BY <3>2 DEF FiberNew, Sweep
    <3>3. CASE Sweep(f)
      BY <3>3 DEF Sweep
    <3> QED BY <1>2, <3>1, <3>2, <3>3
  <2>2. suspended' = (IF state[f] = "Suspended" THEN suspended - 1 ELSE suspended)
    BY <1>2 DEF StartFails, FiberNew, Sweep, ForgetSuspended
  <2>3. suspended' \in Nat /\ SuspendedExact'
    BY <2>1, <2>2, Counting DEF Good
  <2>4. UNCHANGED <<frames, stash, rust, entry, depth>>
    BY <1>2 DEF StartFails, FiberNew, Sweep
  <2>5. /\ snapshot' \in [Fiber -> Seq(Code)]
        /\ \A g \in Fiber : snapshot'[g] = snapshot[g] \/ (g = f /\ snapshot'[g] = <<>>)
    <3>1. <<>> \in Seq(Code)
      BY EmptySeq
    <3>2. UNCHANGED snapshot \/ snapshot' = [snapshot EXCEPT ![f] = <<>>]
      BY <1>2 DEF StartFails, FiberNew, Sweep
    <3> QED BY <3>1, <3>2 DEF Good, TypeOK
  <2>6. UNCHANGED <<current, strayed>> \/ (strayed' = strayed \cup {Level} /\ current' = f)
    BY <1>2 DEF StartFails, FiberNew, Sweep
  <2>7. Level \in Nat
    BY Shape DEF Good, Nested
  <2>8. TypeOK'
    <3>1. /\ state' \in [Fiber -> {"free", "Created", "Suspended", "Running", "Returned"}]
          /\ current' \in Fiber \cup {NoFiber} /\ strayed' \in SUBSET Nat
      BY <2>1, <2>6, <2>7 DEF Good, TypeOK
    <3>2. pending' \in BOOLEAN /\ handles' \in SUBSET Fiber /\ bodies' \in SUBSET Fiber
      BY <1>2 DEF Good, TypeOK, StartFails, FiberNew, Sweep
    <3>3. frames' \in Seq(Code) /\ stash' \in Seq(Seq(Code)) /\ depth' \in Nat /\ entry' \in [Fiber -> Nat] /\ rust' \in Seq(Calls)
      BY <2>4 DEF Good, TypeOK
    <3> QED BY <2>3, <2>5, <3>1, <3>2, <3>3, Zenon DEF TypeOK
  <2>9. \A g \in Fiber : state'[g] = (IF g = f THEN st ELSE state[g])
    BY <2>1 DEF Good, TypeOK
  <2>10. ~ Lost' => state[f] # "Running"
    <3>1. CASE Sweep(f)
      <4>1. Sweep(f) => (state[f] = "Running" => f \in OnStack)
        BY Shape DEF Good, Nested, RunningIsResumed
      <4>2. state'[f] = "free" /\ OnStack' = OnStack
        BY <3>1, <2>4 DEF Sweep, OnStack, Resumes, Good, TypeOK
      <4> QED BY <3>1, <4>1, <4>2 DEF Lost
    <3>2. CASE StartFails(f) \/ FiberNew(f)
      BY <3>2 DEF StartFails, FiberNew
    <3> QED BY <1>2, <3>1, <3>2
  <2>11. ~ Lost' => \A g \in Fiber : state'[g] = "Running" <=> state[g] = "Running"
    BY <2>1, <2>9, <2>10
  <2>12. \A g \in Fiber : state'[g] = "Suspended" => state[g] = "Suspended" /\ snapshot'[g] = snapshot[g]
    BY <2>1, <2>5, <2>9
  <2> QED BY <2>3, <2>4, <2>5, <2>6, <2>8, <2>11, <2>12, Quiet
<1> QED BY <1>1, <1>2

\* Every step keeps the invariant.
LEMMA NextInv == IInv /\ [Next]_vars => IInv'
<1> SUFFICES ASSUME IInv, Next, ~ Lost PROVE IInv'
  <2>1. Lost /\ Next => UNCHANGED vars
    BY DEF Next, RubyRuns, RubyResume, StartFails, FiberNew, DropHandle, Sweep, Stream, PollFrame, ResponseEnds,
           Raise, StepBlock, YieldToBlock, Return, FiberYield, Unwind, FiberCurrent, Reset
  <2> QED BY <2>1, Stutter
<1>1. PICK pos : Good(pos)
  BY DEF IInv, Good
<1>2. \A f \in Fiber : RubyResume(f) \/ PollFrame(f) => IInv'
  BY <1>1, Install DEF RubyResume, PollFrame
<1>3. \A k \in 0 .. MaxFrames : Raise(k) => IInv'
  BY <1>1, RaiseInv, FiberAssumption
<1> QED BY <1>1, <1>2, <1>3, CallsInv, ReturnInv, UnwindInv, ResetInv, QuietSteps DEF Next

\* The inductive invariant of the fiber machinery: every level of nested resumes
\* has its own frames, its own native calls and the fiber id to go back to.
THEOREM FibersInvariant == Spec => []IInv
<1> QED BY InitInv, NextInv, PTL DEF Spec

\* vm/fiber.rs: the stacks hold frames and calls, the depths and the count of
\* suspended fibers never go below zero.
THEOREM TypeCorrect == Spec => []TypeOK
<1>1. IInv => TypeOK
  BY DEF IInv
<1> QED BY <1>1, FibersInvariant, PTL

\* heap.suspended_fibers is exact through every resume, yield, end and sweep.
THEOREM SuspendedIsExact == Spec => []SuspendedExact
<1>1. IInv => SuspendedExact
  BY DEF IInv
<1> QED BY <1>1, FibersInvariant, PTL

\* FiberStashGuard: frames stay on their own fiber's stack, however deep resumes
\* nest and however they end, and Running means resumed.
THEOREM FramesAreHome == Spec => []FramesStayHome
<1>1. IInv => FramesStayHome
  <2> SUFFICES ASSUME IInv, ~ Lost PROVE FramesStayHome
    BY DEF FramesStayHome
  <2>1. PICK pos : Good(pos)
    BY DEF IInv, Good
  <2>2. PICK n, l, h \in Nat : Stacks(pos, n, l, h)
    BY <2>1, Facts
  <2>3. /\ Level = n /\ Innermost = OwnerAt(pos, n) /\ n \in Nat
        /\ \A f : f \in OnStack <=> \E k \in 1 .. n : OwnerAt(pos, k) = f
    BY <2>1, <2>2, Shape DEF Good, Nested, Stacks
  <2>4. AllOf(frames, Innermost)
    BY <2>2, <2>3 DEF AllOf, Stacks
  <2>5. \A f \in Fiber : AllOf(snapshot[f], f)
    BY <2>1 DEF Good, Nested, Owned
  <2>6. \A i, j \in Resumes : rust[i].fiber = rust[j].fiber => i = j
    <3> SUFFICES ASSUME NEW i \in Resumes, NEW j \in Resumes, rust[i].fiber = rust[j].fiber PROVE i = j
      OBVIOUS
    <3>1. PICK a \in 1 .. n : pos[a] = i
      BY <2>2 DEF Resumes, Stacks, IsResume
    <3>2. PICK b \in 1 .. n : pos[b] = j
      BY <2>2 DEF Resumes, Stacks, IsResume
    <3>3. OwnerAt(pos, a) = OwnerAt(pos, b)
      BY <3>1, <3>2 DEF OwnerAt
    <3>4. a = b
      BY <2>1, <2>2, <3>3 DEF Good, Nested, Current, Stacks
    <3> QED BY <3>1, <3>2, <3>4
  <2>7. \A f \in Fiber : state[f] = "Running" <=> f \in OnStack
    BY <2>1, <2>2, <2>3 DEF Good, RunningIsResumed, Stacks
  <2> QED BY <2>2, <2>3, <2>4, <2>5, <2>6, <2>7 DEF FramesStayHome, Stacks
<1> QED BY <1>1, FibersInvariant, PTL

\* resume_fiber: current_fiber_id names the fiber whose code runs at every level
\* where no first resume failed.
THEOREM CurrentIsTheExecuting == Spec => []CurrentIsExecuting
<1>1. IInv => CurrentIsExecuting
  <2> SUFFICES ASSUME IInv, ~ Lost, Level \notin strayed
               PROVE  current = (IF Innermost = Main THEN NoFiber ELSE Innermost)
    BY DEF CurrentIsExecuting
  <2>1. PICK pos : Good(pos)
    BY DEF IInv, Good
  <2>2. PICK n, l, h \in Nat : Stacks(pos, n, l, h)
    BY <2>1, Facts
  <2>3. Level = n /\ Innermost = OwnerAt(pos, n) /\ n \in 0 .. n
    BY <2>1, <2>2, Shape DEF Good, Nested, Stacks
  <2>4. current = (IF n = 0 THEN NoFiber ELSE OwnerAt(pos, n))
    BY <2>1, <2>2, <2>3 DEF Good, Nested, Current, Stacks
  <2>5. n # 0 => OwnerAt(pos, n) \in Fiber
    BY <2>2 DEF OwnerAt, Stacks
  <2> QED BY <2>3, <2>4, <2>5, FiberAssumption DEF OwnerAt
<1> QED BY <1>1, FibersInvariant, PTL

\* __rubyrs_fiber_can_yield answers yes exactly when no native iterator of the
\* running fiber would lose elements, whatever the other levels iterate over.
THEOREM CanYieldExactly == Spec => []CanYieldIsExact
<1>1. IInv => CanYieldIsExact
  <2> SUFFICES ASSUME IInv, RubyRuns, Level \notin strayed
               PROVE  CanYield <=> Innermost # Main /\ Iters(Above) = 0
    BY DEF CanYieldIsExact
  <2>1. PICK pos : Good(pos)
    BY DEF IInv, Good, RubyRuns
  <2>2. PICK n, l, h \in Nat : Stacks(pos, n, l, h)
    BY <2>1, Facts
  <2>3. /\ Level = n /\ Innermost = OwnerAt(pos, n) /\ n \in 0 .. n
        /\ Base = (IF n = 0 THEN 0 ELSE pos[n]) /\ Above = Base + 1 .. l
    BY <2>1, <2>2, Shape DEF Good, Nested, Stacks
  <2>4. current = (IF n = 0 THEN NoFiber ELSE OwnerAt(pos, n))
    BY <2>1, <2>2, <2>3 DEF Good, Nested, Current, Stacks
  <2>5. CASE n = 0
    BY <2>3, <2>4, <2>5 DEF CanYield, OwnerAt
  <2>6. CASE n # 0
    <3>1. PICK f \in Fiber : f = OwnerAt(pos, n) /\ pos[n] \in 1 .. l /\ rust[pos[n]].fn # "iter"
      BY <2>2, <2>6 DEF OwnerAt, Stacks, IsResume
    <3>2. f # Main /\ f # NoFiber
      BY FiberAssumption
    <3>3. PICK m \in Nat : m = pos[n] - 1 /\ m + 1 = pos[n] /\ pos[n] \in 0 .. l
      BY <3>1
    <3>4. depth = UpTo(rust, l) /\ entry[f] = UpTo(rust, m)
      <4>1. Counted(pos) /\ n = Len(stash) /\ l = Len(rust)
        BY <2>1, <2>2 DEF Good, Nested, Stacks
      <4>2. n \in 1 .. Len(stash) /\ m = pos[n] - 1
        BY <4>1, <2>6, <3>1, <3>3
      <4>3. entry[OwnerAt(pos, n)] = UpTo(rust, pos[n] - 1) /\ depth = UpTo(rust, Len(rust))
        BY <4>1, <4>2 DEF Counted
      <4> QED BY <3>1, <4>1, <4>2, <4>3
    <3>5. UpTo(rust, m) \in Nat /\ UpTo(rust, pos[n]) = UpTo(rust, m)
      BY <3>1, <3>3, UpToStep
    <3>6. /\ UpTo(rust, l) = UpTo(rust, pos[n]) + Iters(Above) /\ Iters(Above) \in Nat
      <4>1. Iters(Above) = Cardinality({i \in pos[n] + 1 .. l : rust[i].fn = "iter"})
        BY <2>3, <2>6 DEF Iters
      <4> QED BY <3>3, <4>1, UpToSplit
    <3>7. CanYield <=> depth = entry[f]
      BY <2>4, <2>6, <3>1, <3>2 DEF CanYield
    <3> QED BY <2>3, <3>1, <3>2, <3>4, <3>5, <3>6, <3>7
  <2> QED BY <2>5, <2>6
<1> QED BY <1>1, FibersInvariant, PTL
=============================================================================
