--------------------------- MODULE GenHeapProofs ---------------------------
(***************************************************************************)
(* Proofs about the generational heap, for every number of slots, cap,     *)
(* cadence of major collections and trigger.                               *)
(*                                                                         *)
(* SweepIsSafe is not inductive: a sweep is safe because of what the mark  *)
(* loop established (MarkLoop: a visited object is queued, or what it      *)
(* refers to in the region to be swept is marked), and because the barrier *)
(* made the queue of a minor complete (OldToYoungRecorded, and             *)
(* YoungIsLiveNotOld to know that the young list is that region).          *)
(***************************************************************************)
EXTENDS GenHeap, FiniteSetTheorems, TLAPS

\* The slots the running collection may sweep.
Region == IF minor THEN young ELSE Slot

\* The objects whose references the running collection must have visited
\* once they have left the worklist.
Visited == IF minor THEN (marks \cap young) \cup (remembered \cap live)
                    ELSE marks \cap live

MarkLoop ==
    phase = "mark" =>
        /\ roots \cap Region \subseteq marks
        /\ \A o \in Visited \ worklist : refs[o] \cap Region \subseteq marks

\* A major marks only what is reachable; a minor may keep old garbage.
MarkOnlyReachable ==
    phase = "mark" /\ ~minor => worklist \subseteq marks /\ marks \subseteq Reachable

\* Old objects keep their mark until the next major resets it.
MarksRetained == old \subseteq marks \/ (phase = "mark" /\ ~minor)

IInv ==
    /\ TypeOK
    /\ YoungIsLiveNotOld
    /\ LiveCountExact
    /\ OldToYoungRecorded
    /\ SweepIsSafe
    /\ MarkLoop
    /\ MarkOnlyReachable
    /\ MarksRetained
    /\ MinorSkipsOldGraph

\* What can be said of the finite sets that are counted.
LEMMA CountMinor ==
    ASSUME NEW L \in SUBSET Slot, NEW D \in SUBSET L
    PROVE  /\ Cardinality(L) \in Nat /\ Cardinality(D) \in Nat
           /\ Cardinality(L \ D) = Cardinality(L) - Cardinality(D)
           /\ Cardinality(L \ D) <= Cardinality(L)
<1>1. IsFiniteSet(L) /\ IsFiniteSet(D)
  BY FS_Subset, SlotAssumption
<1>2. Cardinality(L \ D) = Cardinality(L) - Cardinality(L \cap D)
  BY <1>1, FS_Difference
<1>3. L \cap D = D
  OBVIOUS
<1>4. Cardinality(L) \in Nat /\ Cardinality(D) \in Nat
  BY <1>1, FS_CardinalityType
<1>5. QED
  BY <1>2, <1>3, <1>4

\* Reachable has the roots, is closed, and is within every such set.
LEMMA ReachableLeast ==
    ASSUME TypeOK
    PROVE  /\ roots \subseteq Reachable
           /\ \A o \in Reachable \cap live : refs[o] \subseteq Reachable
           /\ \A M \in SUBSET Slot :
                roots \subseteq M /\ (\A o \in M \cap live : refs[o] \subseteq M)
                => Reachable \subseteq M
<1> DEFINE Closed(M) == roots \subseteq M /\ \A o \in M \cap live : refs[o] \subseteq M
<1>1. \A o : o \in Reachable <=> o \in Slot /\ \A M \in SUBSET Slot : Closed(M) => o \in M
  BY DEF Reachable
<1> HIDE DEF Closed
<1>2. roots \subseteq Reachable
  BY <1>1 DEF Closed, TypeOK
<1>3. ASSUME NEW o \in Reachable \cap live, NEW c \in refs[o]
      PROVE  c \in Reachable
  <2>1. c \in Slot /\ o \in Slot
    BY <1>1, <1>3 DEF TypeOK
  <2>2. ASSUME NEW M \in SUBSET Slot, Closed(M) PROVE c \in M
    BY <1>1, <1>3, <2>2 DEF Closed
  <2>3. QED
    BY <1>1, <2>1, <2>2
<1>4. ASSUME NEW M \in SUBSET Slot, Closed(M) PROVE Reachable \subseteq M
  BY <1>1, <1>4
<1>5. QED
  BY <1>2, <1>3, <1>4 DEF Closed

-----------------------------------------------------------------------------
\* Heap::new establishes the invariant.
LEMMA InitIInv == Init => IInv
<1> SUFFICES ASSUME Init PROVE IInv
  OBVIOUS
<1>1. TypeOK
  <2>1. minors \in 0 .. MajorEvery - 1
    BY MajorAssumption DEF Init
  <2>2. nextGc \in Nat /\ liveCount \in Nat
    BY TriggerAssumption DEF Init
  <2>3. refs \in [Slot -> SUBSET Slot]
    BY DEF Init
  <2>4. phase \in {"run", "mark", "alloc"}
    BY DEF Init
  <2>5. minor \in BOOLEAN /\ exposed \in BOOLEAN
    BY DEF Init
  <2>6. QED
  BY <2>1, <2>2, <2>3, <2>4, <2>5 DEF Init, TypeOK
<1>2. LiveCountExact
  BY FS_EmptySet, CapAssumption DEF Init, LiveCountExact
<1>3. QED
  BY <1>1, <1>2 DEF Init, IInv, YoungIsLiveNotOld, OldToYoungRecorded, SweepIsSafe,
     NoDangling, MarkLoop, MarkOnlyReachable, MarksRetained, MinorSkipsOldGraph

\* A step of the mutator outside a collection keeps the invariant if it keeps
\* the type, the barrier's record and the absence of dangling references, and
\* leaves the slots and the collector alone.
LEMMA MutatorStep ==
    ASSUME IInv, phase = "run",
           UNCHANGED <<live, old, young, liveCount, gcVars, phase>>,
           TypeOK', OldToYoungRecorded', SweepIsSafe'
    PROVE  IInv'
<1>1. YoungIsLiveNotOld' /\ LiveCountExact' /\ MarksRetained'
  BY DEF IInv, YoungIsLiveNotOld, LiveCountExact, MarksRetained, gcVars
<1>2. MarkLoop' /\ MarkOnlyReachable' /\ MinorSkipsOldGraph'
  BY DEF MarkLoop, MarkOnlyReachable, MinorSkipsOldGraph
<1>3. QED
  BY <1>1, <1>2 DEF IInv

\* Forgetting a root only removes obligations.
LEMMA DropRootStep ==
    ASSUME IInv, NEW o \in Slot, DropRoot(o) PROVE IInv'
<1> USE DEF DropRoot, heapVars, barrierVars, gcVars
<1>1. TypeOK'
  BY DEF IInv, TypeOK
<1>2. OldToYoungRecorded'
  BY DEF IInv, OldToYoungRecorded
<1>3. SweepIsSafe'
  BY DEF IInv, SweepIsSafe, NoDangling
<1>4. QED
  BY <1>1, <1>2, <1>3, MutatorStep

\* Heap::get roots something a live object refers to.
LEMMA GetStep ==
    ASSUME IInv, NEW o \in Slot, Get(o) PROVE IInv'
<1> USE DEF Get, heapVars, barrierVars, gcVars
<1>1. TypeOK'
  BY DEF IInv, TypeOK
<1>2. OldToYoungRecorded'
  BY DEF IInv, OldToYoungRecorded
<1>3. SweepIsSafe'
  BY DEF IInv, SweepIsSafe, NoDangling
<1>4. QED
  BY <1>1, <1>2, <1>3, MutatorStep

\* Heap::get_mut: a reference it adds to an old object is covered by the barrier.
LEMMA GetMutStep ==
    ASSUME IInv, NEW o \in Slot, GetMut(o) PROVE IInv'
<1> USE DEF GetMut, gcVars
<1>0. PICK S \in SUBSET (refs[o] \cup roots) : refs' = [refs EXCEPT ![o] = S]
  OBVIOUS
<1>1. TypeOK'
  BY <1>0 DEF IInv, TypeOK
<1>2. OldToYoungRecorded'
  BY <1>0 DEF IInv, OldToYoungRecorded, TypeOK
<1>3. SweepIsSafe'
  BY <1>0 DEF IInv, SweepIsSafe, NoDangling, TypeOK
<1>4. QED
  BY <1>1, <1>2, <1>3, MutatorStep

\* cell_store: a reference it adds to an old object is covered by the history.
LEMMA CellStoreStep ==
    ASSUME IInv, NEW o \in Slot, CellStore(o) PROVE IInv'
<1> USE DEF CellStore, gcVars
<1>0. PICK c \in roots :
        /\ refs' = [refs EXCEPT ![o] = @ \cup {c}]
        /\ unrecorded' = IF o \in old /\ c \in young /\ o \notin remembered
                         THEN unrecorded \cup {o} ELSE unrecorded
  OBVIOUS
<1>1. TypeOK'
  BY <1>0 DEF IInv, TypeOK
<1>2. OldToYoungRecorded'
  BY <1>0 DEF IInv, OldToYoungRecorded, TypeOK
<1>3. SweepIsSafe'
  BY <1>0 DEF IInv, SweepIsSafe, NoDangling, TypeOK
<1>4. QED
  BY <1>1, <1>2, <1>3, MutatorStep

-----------------------------------------------------------------------------
\* SkipGc and AllocTrap only change the phase, and not to or from "mark".
LEMMA PhaseStep ==
    ASSUME IInv, SkipGc \/ AllocTrap PROVE IInv'
<1> USE DEF SkipGc, AllocTrap, heapVars, barrierVars, gcVars
<1>1. TypeOK'
  BY DEF IInv, TypeOK
<1>2. OldToYoungRecorded' /\ YoungIsLiveNotOld' /\ LiveCountExact'
  BY DEF IInv, OldToYoungRecorded, YoungIsLiveNotOld, LiveCountExact
<1>3. SweepIsSafe'
  BY DEF IInv, SweepIsSafe, NoDangling
<1>4. MarksRetained'
  BY DEF IInv, MarksRetained
<1>5. MarkLoop' /\ MarkOnlyReachable' /\ MinorSkipsOldGraph'
  BY DEF MarkLoop, MarkOnlyReachable, MinorSkipsOldGraph
<1>6. QED
  BY <1>1, <1>2, <1>3, <1>4, <1>5 DEF IInv

\* The start of Heap::collect sets up the mark loop: the roots and, for a minor,
\* the remembered objects are queued.
LEMMA StartCollectStep ==
    ASSUME IInv, StartCollect PROVE IInv'
<1> USE DEF KeptMarks
<1>0. /\ phase = "run" /\ phase' = "mark" /\ minor' = IsMinor
      /\ minors' = (IF IsMinor THEN minors + 1 ELSE 0)
      /\ marks' = KeptMarks \cup roots
      /\ worklist' = (IF IsMinor THEN (roots \ KeptMarks) \cup remembered ELSE roots \ KeptMarks)
      /\ UNCHANGED <<live, refs, shared, old, young, liveCount, remembered,
                     unrecorded, nextGc, exposed, roots>>
  BY DEF StartCollect, VisitAll, heapVars, barrierVars
<1>a. IsMinor \in BOOLEAN
  BY DEF IsMinor
<1>1. TypeOK'
  <2>1. minors' \in 0 .. MajorEvery - 1
    BY <1>0, MajorAssumption DEF IInv, TypeOK, IsMinor
  <2>2. minor' \in BOOLEAN
    BY <1>0, <1>a
  <2>3. marks' \subseteq Slot /\ worklist' \subseteq Slot
    BY <1>0 DEF IInv, TypeOK
  <2>4. QED
    BY <1>0, <2>1, <2>2, <2>3 DEF IInv, TypeOK
<1>2. OldToYoungRecorded' /\ YoungIsLiveNotOld' /\ LiveCountExact'
  BY <1>0 DEF IInv, OldToYoungRecorded, YoungIsLiveNotOld, LiveCountExact
<1>3. SweepIsSafe'
  BY <1>0 DEF IInv, SweepIsSafe, NoDangling
<1>4. MarkLoop'
  <2>1. CASE IsMinor
    BY <1>0, <2>1 DEF MarkLoop, Region, Visited
  <2>2. CASE ~IsMinor
    BY <1>0, <2>2 DEF MarkLoop, Region, Visited
  <2>3. QED
    BY <2>1, <2>2
<1>5. MarkOnlyReachable'
  <2>1. Reachable' = Reachable
    BY <1>0 DEF Reachable
  <2>2. SUFFICES ASSUME ~IsMinor PROVE worklist' \subseteq marks' /\ marks' \subseteq Reachable
    BY <1>0, <2>1 DEF MarkOnlyReachable
  <2>3. QED
    BY <1>0, <2>2, ReachableLeast DEF IInv
<1>6. MarksRetained'
  BY <1>0 DEF IInv, MarksRetained, YoungIsLiveNotOld
<1>7. MinorSkipsOldGraph'
  BY <1>0 DEF IInv, MarksRetained, YoungIsLiveNotOld, MinorSkipsOldGraph
<1>8. QED
  BY <1>1, <1>2, <1>3, <1>4, <1>5, <1>6, <1>7 DEF IInv

\* One turn of the mark loop: the object leaves the queue with its references
\* visited.
LEMMA MarkStepStep ==
    ASSUME IInv, NEW o \in Slot, MarkStep(o) PROVE IInv'
<1> DEFINE kids == IF o \in live THEN refs[o] ELSE {}
<1>0. /\ phase = "mark" /\ phase' = "mark" /\ o \in worklist
      /\ marks' = marks \cup kids
      /\ worklist' = (worklist \ {o}) \cup (kids \ marks)
      /\ UNCHANGED <<live, refs, shared, old, young, liveCount, remembered,
                     unrecorded, minors, nextGc, minor, exposed, roots>>
  BY DEF MarkStep, VisitAll, heapVars, barrierVars
<1>1. TypeOK'
  BY <1>0 DEF IInv, TypeOK
<1>2. OldToYoungRecorded' /\ YoungIsLiveNotOld' /\ LiveCountExact'
  BY <1>0 DEF IInv, OldToYoungRecorded, YoungIsLiveNotOld, LiveCountExact
<1>3. SweepIsSafe'
  BY <1>0 DEF IInv, SweepIsSafe, NoDangling
<1>4. MarkLoop'
  <2>1. Region' = Region
    BY <1>0 DEF Region
  <2>2. roots' \cap Region' \subseteq marks'
    BY <1>0, <2>1 DEF IInv, MarkLoop
  <2>3. ASSUME NEW p \in Visited' \ worklist'
        PROVE  refs'[p] \cap Region' \subseteq marks'
    <3>1. CASE p = o
      BY <1>0, <2>1, <2>3, <3>1 DEF IInv, Visited, YoungIsLiveNotOld, TypeOK
    <3>2. CASE p # o
      <4>1. p \in Visited \ worklist
        BY <1>0, <2>3, <3>2 DEF Visited
      <4>2. QED
        BY <1>0, <2>1, <4>1 DEF IInv, MarkLoop
    <3>3. QED
      BY <3>1, <3>2
  <2>4. QED
    BY <2>2, <2>3 DEF MarkLoop
<1>5. MarkOnlyReachable'
  <2>1. Reachable' = Reachable
    BY <1>0 DEF Reachable
  <2>2. SUFFICES ASSUME ~minor PROVE worklist' \subseteq marks' /\ marks' \subseteq Reachable
    BY <1>0, <2>1 DEF MarkOnlyReachable
  <2>3. worklist \subseteq marks /\ marks \subseteq Reachable
    BY <1>0, <2>2 DEF IInv, MarkOnlyReachable
  <2>4. kids \subseteq Reachable
    BY <1>0, <2>3, ReachableLeast DEF IInv
  <2>5. QED
    BY <1>0, <2>3, <2>4
<1>6. MarksRetained'
  BY <1>0 DEF IInv, MarksRetained
<1>7. MinorSkipsOldGraph'
  BY <1>0 DEF IInv, MarksRetained, MinorSkipsOldGraph
<1>8. QED
  BY <1>1, <1>2, <1>3, <1>4, <1>5, <1>6, <1>7 DEF IInv

\* When the mark loop is done, nothing that survives refers to what is swept.
LEMMA SweepKeepsReferenced ==
    ASSUME IInv, phase = "mark", worklist = {}, ~exposed,
           minor => unrecorded \ remembered = {}
    PROVE  /\ roots \subseteq live \ Swept
           /\ \A o \in live \ Swept : refs[o] \subseteq live \ Swept
<1>1. NoDangling
  BY DEF IInv, SweepIsSafe
<1>2. CASE minor
  <2>1. Swept = young \ marks /\ Region = young
    BY <1>2 DEF Swept, Region
  <2>2. roots \subseteq live \ Swept
    BY <1>1, <2>1 DEF IInv, MarkLoop, NoDangling
  <2>3. ASSUME NEW o \in live \ Swept, NEW c \in refs[o], c \in young
        PROVE  c \in marks
    <3>1. CASE o \in young
      BY <1>2, <2>1, <2>3, <3>1 DEF IInv, MarkLoop, Visited
    <3>2. CASE o \in old
      <4>1. o \in remembered
        BY <1>2, <2>3, <3>2 DEF IInv, OldToYoungRecorded
      <4>2. QED
        BY <1>2, <2>1, <2>3, <4>1 DEF IInv, MarkLoop, Visited
    <3>3. QED
      BY <3>1, <3>2 DEF IInv, YoungIsLiveNotOld
  <2>4. QED
    BY <1>1, <2>1, <2>2, <2>3 DEF NoDangling
<1>3. CASE ~minor
  <2>1. Swept = live \ marks /\ Region = Slot /\ Visited = marks \cap live
    BY <1>3 DEF Swept, Region, Visited
  <2>2. roots \subseteq marks /\ \A o \in live \cap marks : refs[o] \subseteq marks
    BY <2>1 DEF IInv, MarkLoop, TypeOK
  <2>3. QED
    BY <1>1, <2>1, <2>2 DEF NoDangling
<1>4. QED
  BY <1>2, <1>3

\* The sweep: what remains refers only to what remains, all of it now old.
LEMMA SweepStep ==
    ASSUME IInv, Sweep PROVE IInv'
<1> USE DEF Sweep
<1>0. Swept \subseteq live /\ live \subseteq Slot
  BY DEF Swept, IInv, YoungIsLiveNotOld, TypeOK
<1>1. LiveCountExact' /\ CountAfterSweep \in Nat
  <2>1. /\ Cardinality(live \ Swept) \in Nat
        /\ Cardinality(live \ Swept) = Cardinality(live) - Cardinality(Swept)
        /\ Cardinality(live \ Swept) <= Cardinality(live)
    BY <1>0, CountMinor
  <2>2. CountAfterSweep = Cardinality(live \ Swept)
    <3>1. CASE minor
      BY <2>1, <3>1 DEF Swept, CountAfterSweep, IInv, LiveCountExact
    <3>2. CASE ~minor
      <4>1. live \ Swept = live \cap marks
        BY <3>2 DEF Swept
      <4>2. QED
        BY <3>2, <4>1 DEF CountAfterSweep
    <3>3. QED
      BY <3>1, <3>2
  <2>3. Cardinality(live) \in Nat /\ Cardinality(live) <= MaxLive
    BY <1>0, CountMinor DEF IInv, LiveCountExact
  <2>4. liveCount' = Cardinality(live') /\ liveCount' = Cardinality(live \ Swept)
    BY <2>2
  <2>5. liveCount' <= MaxLive
    BY <2>1, <2>3, <2>4, CapAssumption
  <2>6. QED
    BY <2>1, <2>2, <2>4, <2>5 DEF LiveCountExact
<1>2. TypeOK'
  <2>1. nextGc' \in Nat
    BY <1>1, TriggerAssumption DEF Max2
  <2>2. exposed' \in BOOLEAN
    BY DEF IInv, TypeOK
  <2>3. refs' \in [Slot -> SUBSET Slot]
    BY DEF IInv, TypeOK
  <2>4. QED
    BY <1>0, <1>1, <2>1, <2>2, <2>3 DEF IInv, TypeOK
<1>3. YoungIsLiveNotOld'
  BY DEF Swept, IInv, YoungIsLiveNotOld
<1>4. OldToYoungRecorded'
  BY DEF OldToYoungRecorded
<1>5. SweepIsSafe'
  <2> SUFFICES ASSUME ~exposed' PROVE NoDangling'
    BY DEF SweepIsSafe
  <2>1. ~exposed /\ (minor => unrecorded \ remembered = {})
    OBVIOUS
  <2>2. \A o \in live \ Swept : refs'[o] = refs[o]
    BY <1>0
  <2>3. QED
    BY <2>1, <2>2, SweepKeepsReferenced DEF NoDangling
<1>6. MarksRetained'
  BY DEF IInv, MarksRetained
<1>7. MarkLoop' /\ MarkOnlyReachable' /\ MinorSkipsOldGraph'
  BY DEF MarkLoop, MarkOnlyReachable, MinorSkipsOldGraph
<1>8. QED
  BY <1>1, <1>2, <1>3, <1>4, <1>5, <1>6, <1>7 DEF IInv

\* Heap::alloc: the new young object refers to rooted slots only.
LEMMA AllocStep ==
    ASSUME IInv, NEW o \in Slot, Alloc(o) PROVE IInv'
<1> USE DEF Alloc, barrierVars
<1>0. PICK S \in SUBSET roots : refs' = [refs EXCEPT ![o] = S]
  OBVIOUS
<1>1. TypeOK'
  BY <1>0 DEF IInv, TypeOK
<1>2. YoungIsLiveNotOld'
  BY DEF IInv, YoungIsLiveNotOld
<1>3. LiveCountExact'
  <2>1. IsFiniteSet(live) /\ o \notin live
    BY SlotAssumption, FS_Subset DEF IInv, TypeOK
  <2>2. Cardinality(live \cup {o}) = Cardinality(live) + 1
    BY <2>1, FS_AddElement
  <2>3. QED
    BY <2>2, CapAssumption DEF IInv, LiveCountExact, TypeOK
<1>4. OldToYoungRecorded'
  BY <1>0 DEF IInv, OldToYoungRecorded, SweepIsSafe, NoDangling, YoungIsLiveNotOld, TypeOK
<1>5. SweepIsSafe'
  BY <1>0 DEF IInv, SweepIsSafe, NoDangling, TypeOK
<1>6. MarksRetained'
  BY DEF IInv, MarksRetained
<1>7. MarkLoop' /\ MarkOnlyReachable' /\ MinorSkipsOldGraph'
  BY DEF MarkLoop, MarkOnlyReachable, MinorSkipsOldGraph
<1>8. QED
  BY <1>1, <1>2, <1>3, <1>4, <1>5, <1>6, <1>7 DEF IInv

\* Every step of the heap, or a stutter, keeps the invariant.
LEMMA NextIInv == IInv /\ [Next]_vars => IInv'
<1> SUFFICES ASSUME IInv, [Next]_vars PROVE IInv'
  OBVIOUS
<1>1. CASE Next
  BY <1>1, DropRootStep, GetStep, GetMutStep, CellStoreStep, PhaseStep, StartCollectStep,
     MarkStepStep, SweepStep, AllocStep DEF Next
<1>2. CASE UNCHANGED vars
  <2> USE <1>2 DEF vars, heapVars, barrierVars, gcVars
  <2>1. TypeOK'
    BY DEF IInv, TypeOK
  <2>2. OldToYoungRecorded' /\ YoungIsLiveNotOld' /\ LiveCountExact' /\ MarksRetained'
    BY DEF IInv, OldToYoungRecorded, YoungIsLiveNotOld, LiveCountExact, MarksRetained
  <2>3. SweepIsSafe' /\ MinorSkipsOldGraph'
    BY DEF IInv, SweepIsSafe, NoDangling, MinorSkipsOldGraph
  <2>4. MarkLoop'
    BY DEF IInv, MarkLoop, Region, Visited
  <2>5. MarkOnlyReachable'
    BY DEF IInv, MarkOnlyReachable, Reachable
  <2>6. QED
    BY <2>1, <2>2, <2>3, <2>4, <2>5 DEF IInv
<1>3. QED
  BY <1>1, <1>2

-----------------------------------------------------------------------------
\* The inductive invariant holds in every state the heap can reach.
THEOREM Invariance == Spec => []IInv
<1>1. QED
  BY InitIInv, NextIInv, PTL DEF Spec

\* Every state Heap can reach is well typed; minors_since_major stays below
\* MAJOR_EVERY.
THEOREM TypeCorrect == Spec => []TypeOK
<1>1. IInv => TypeOK
  BY DEF IInv
<1>2. QED
  BY <1>1, Invariance, PTL

\* Heap::collect never frees a slot that a root or a live object refers to,
\* as long as no minor collection followed a store around Heap::get_mut.
THEOREM CollectorIsSafe == Spec => []SweepIsSafe
<1>1. IInv => SweepIsSafe
  BY DEF IInv
<1>2. QED
  BY <1>1, Invariance, PTL

\* Heap::remembered misses no old-to-young reference made through get_mut.
THEOREM BarrierIsComplete == Spec => []OldToYoungRecorded
<1>1. IInv => OldToYoungRecorded
  BY DEF IInv
<1>2. QED
  BY <1>1, Invariance, PTL

\* Heap::live_count is exact and never passes the cap of check_alloc.
THEOREM CountIsExact == Spec => []LiveCountExact
<1>1. IInv => LiveCountExact
  BY DEF IInv
<1>2. QED
  BY <1>1, Invariance, PTL

\* Heap::young_slots is exactly the set of live slots that are not old, so a
\* minor sweeps every slot allocated since the last collection and no other.
THEOREM YoungListIsExact == Spec => []YoungIsLiveNotOld
<1>1. IInv => YoungIsLiveNotOld
  BY DEF IInv
<1>2. QED
  BY <1>1, Invariance, PTL

\* A minor collection does not walk the old graph.
THEOREM MinorIsLocal == Spec => []MinorSkipsOldGraph
<1>1. IInv => MinorSkipsOldGraph
  BY DEF IInv
<1>2. QED
  BY <1>1, Invariance, PTL

\* A major collection leaves exactly the reachable slots live.
THEOREM MajorIsPrecise == Spec => MajorFreesAllGarbage
<1>1. ASSUME IInv, [Next]_vars
      PROVE  [phase = "mark" /\ phase' = "alloc" /\ ~minor
                => live' = Reachable \cap live]_vars
  <2> SUFFICES ASSUME Next, phase = "mark", phase' = "alloc", ~minor
               PROVE  live' = Reachable \cap live
    BY <1>1
  <2>1. Sweep
    BY DEF Next, DropRoot, Get, GetMut, CellStore, MarkStep, Alloc, SkipGc, StartCollect, AllocTrap
  <2>2. marks \subseteq Reachable
    BY <1>1 DEF IInv, MarkOnlyReachable
  <2>3. roots \subseteq marks /\ \A o \in marks \cap live : refs[o] \subseteq marks
    BY <1>1, <2>1 DEF IInv, MarkLoop, Region, Visited, Sweep, TypeOK
  <2>4. Reachable \subseteq marks
    BY <1>1, <2>3, ReachableLeast DEF IInv, TypeOK
  <2>5. QED
    BY <2>1, <2>2, <2>4 DEF Sweep, Swept
<1>2. QED
  BY <1>1, Invariance, PTL DEF Spec, MajorFreesAllGarbage

-----------------------------------------------------------------------------
\* What a sweep frees is out of the program's reach.
LEMMA SweepReclaims ==
    ASSUME IInv, Sweep, exposed' # TRUE
    PROVE  Memory!Reclaim /\ exposed' = exposed
<1>0. exposed \in BOOLEAN /\ exposed' = (exposed \/ (minor /\ unrecorded \ remembered # {}))
  BY DEF IInv, TypeOK, Sweep
<1>1. ~exposed /\ (minor => unrecorded \ remembered = {})
  BY <1>0, Zenon
<1>2. exposed' = exposed
  BY <1>0, <1>1, Zenon
<1>3. /\ roots \subseteq live \ Swept
      /\ \A o \in live \ Swept : refs[o] \subseteq live \ Swept
  BY <1>1, SweepKeepsReferenced DEF Sweep
<1>4. Reachable \subseteq live \ Swept
  BY <1>3, ReachableLeast DEF IInv, TypeOK
<1>5. Memory!Reachable = Reachable
  BY DEF Memory!Reachable, Reachable
<1>6. Swept \subseteq live
  BY DEF IInv, YoungIsLiveNotOld, Swept
<1>7. live \ live' = Swept
  BY <1>6 DEF Sweep
<1>8. QED
  BY <1>2, <1>4, <1>5, <1>7 DEF Sweep, Memory!Reclaim

\* Every step of the heap is one of the program's memory or invisible.
LEMMA StepSimulation ==
    ASSUME IInv, [Next]_vars PROVE [Memory!Next]_(Memory!vars)
<1> USE DEF Memory!vars, heapVars, barrierVars, gcVars
<1>1. CASE UNCHANGED vars
  BY <1>1 DEF vars
<1>2. ASSUME NEW o \in Slot, DropRoot(o) PROVE Memory!Next
  BY <1>2 DEF DropRoot, Memory!Next, Memory!Drop
<1>3. ASSUME NEW o \in Slot, Get(o) PROVE Memory!Next
  BY <1>3 DEF Get, Memory!Next, Memory!Load
<1>4. ASSUME NEW o \in Slot, GetMut(o) PROVE Memory!Next
  BY <1>4 DEF GetMut, Memory!Next, Memory!Store
<1>5. ASSUME NEW o \in Slot, CellStore(o) PROVE Memory!Next
  <2>1. PICK c \in roots : refs' = [refs EXCEPT ![o] = refs[o] \cup {c}]
    BY <1>5 DEF CellStore, IInv, TypeOK
  <2>2. refs[o] \cup {c} \in SUBSET (refs[o] \cup roots)
    OBVIOUS
  <2>3. Memory!Store(o)
    BY <1>5, <2>1, <2>2 DEF CellStore, Memory!Store
  <2>4. QED
    BY <1>5, <2>3 DEF CellStore, Memory!Next
<1>6. ASSUME NEW o \in Slot, MarkStep(o) PROVE UNCHANGED Memory!vars
  BY <1>6 DEF MarkStep
<1>7. ASSUME NEW o \in Slot, Alloc(o) PROVE Memory!Next
  BY <1>7 DEF Alloc, Memory!Next, Memory!Create
<1>8. CASE SkipGc \/ StartCollect \/ AllocTrap
  BY <1>8 DEF SkipGc, StartCollect, AllocTrap
<1>9. CASE Sweep
  <2>1. CASE exposed' = TRUE
    BY <2>1 DEF Memory!Next
  <2>2. CASE exposed' # TRUE
    BY <1>9, <2>2, SweepReclaims DEF Memory!Next
  <2>3. QED
    BY <2>1, <2>2
<1>10. QED
  BY <1>1, <1>2, <1>3, <1>4, <1>5, <1>6, <1>7, <1>8, <1>9 DEF Next

\* The generational heap implements the memory of ObjectMemory: collecting,
\* promoting and recycling slots is invisible to the program, as long as no
\* minor collection ran with an unrecorded store (Heap, Vm::gc_now).
THEOREM HeapImplementsMemory == Spec => ImplementsMemory
<1>1. Init => Memory!Init
  BY DEF Init, Memory!Init
<1>2. QED
  BY <1>1, StepSimulation, Invariance, PTL DEF Spec, ImplementsMemory, Memory!Spec
=============================================================================
