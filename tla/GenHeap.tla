------------------------------ MODULE GenHeap ------------------------------
(***************************************************************************)
(* The object heap of the VM (heap.rs) and the allocation protocol that    *)
(* drives its generational mark-sweep collector (vm/gc.rs).                *)
(*                                                                         *)
(* A slot is Live or Dead; a live slot is young until it survives a        *)
(* collection and old afterwards.  A minor collection walks and sweeps the *)
(* young slots only; it relies on `remembered`, the old objects mutated    *)
(* through Heap::get_mut, to find young objects held only by an old one.   *)
(* Ruby code never runs during a collection: every mutator action requires *)
(* phase = "run".                                                          *)
(*                                                                         *)
(* Values are abstracted to the slots they refer to: refs[o] is the set of *)
(* slots named by o's fields, elements, captured cells or snapshot.        *)
(***************************************************************************)
EXTENDS Integers, FiniteSets

CONSTANTS
    Slot,           \* slot indices the heap may grow to (the bound on slots)
    MaxLive,        \* Heap::max_live, the embedder's cap on live objects
    MajorEvery,     \* Heap::MAJOR_EVERY
    Growth,         \* RUBYRS_GC_GROWTH, default 2
    Floors,         \* the values Heap::adaptive_floor may return
    StressGC        \* Vm::stress_gc: collect at every allocation

ASSUME SlotAssumption == IsFiniteSet(Slot)
ASSUME MajorAssumption == MajorEvery \in Nat \ {0}
ASSUME CapAssumption == MaxLive \in Nat
ASSUME TriggerAssumption == /\ Growth \in Nat \ {0}
                            /\ Floors \subseteq Nat /\ Floors # {}
                            /\ StressGC \in BOOLEAN

VARIABLES
    live,           \* slots that are Slot::Live
    refs,           \* refs[o]: slots that the object in o refers to
    shared,         \* live objects whose references sit in Rc cells
    old,            \* Heap::old
    marks,          \* Heap::marks
    young,          \* Heap::young_slots
    remembered,     \* Heap::remembered
    minors,         \* Heap::minors_since_major
    liveCount,      \* Heap::live_count
    nextGc,         \* Heap::next_gc
    roots,          \* slots named by the values gc_now gathers
    phase,          \* "run" | "mark" | "alloc"
    minor,          \* collect's local `minor`
    worklist,       \* collect's local `worklist`
    unrecorded,     \* history: old objects given a young one without a barrier
    exposed         \* history: a minor collection ran with unrecorded objects

heapVars == <<live, refs, shared, old, young, liveCount>>
barrierVars == <<remembered, unrecorded>>
gcVars == <<marks, minors, nextGc, minor, worklist, exposed>>
vars == <<heapVars, barrierVars, gcVars, roots, phase>>

Max2(a, b) == IF a >= b THEN a ELSE b

-----------------------------------------------------------------------------
(* Heap::new: no slot yet; the first trigger is the floor. *)
Init ==
    /\ live = {} /\ refs = [o \in Slot |-> {}] /\ shared = {}
    /\ old = {} /\ marks = {} /\ young = {} /\ remembered = {}
    /\ minors = 0 /\ liveCount = 0
    /\ nextGc \in Floors
    /\ roots = {} /\ phase = "run" /\ minor = FALSE /\ worklist = {}
    /\ unrecorded = {} /\ exposed = FALSE

-----------------------------------------------------------------------------
(* The mutator. *)

\* A value leaves the last frame, table or pin that gc_now would gather.
DropRoot(c) ==
    /\ phase = "run"
    /\ c \in roots
    /\ roots' = roots \ {c}
    /\ UNCHANGED <<heapVars, barrierVars, gcVars, phase>>

\* Mutant: get through an ObjId kept where gc_now does not look.
GetUnrooted(o) ==
    /\ phase = "run"
    /\ o \in live
    /\ \E c \in refs[o] : roots' = roots \cup {c}
    /\ UNCHANGED <<heapVars, barrierVars, gcVars, phase>>

\* Heap::get on a held object: a reference found in it is pushed on the
\* operand stack.
Get(o) ==
    /\ phase = "run"
    /\ o \in roots \cap live
    /\ \E c \in refs[o] : roots' = roots \cup {c}
    /\ UNCHANGED <<heapVars, barrierVars, gcVars, phase>>

\* Mutant: get_mut without its write barrier.
GetMutNoBarrier(o) ==
    /\ phase = "run"
    /\ o \in roots \cap live
    /\ \E S \in SUBSET (refs[o] \cup roots) : refs' = [refs EXCEPT ![o] = S]
    /\ UNCHANGED <<live, shared, old, young, liveCount, barrierVars, gcVars,
                   roots, phase>>

\* Heap::get_mut: the write barrier records an old object, then the caller
\* rewrites its references with values it holds.
GetMut(o) ==
    /\ phase = "run"
    /\ o \in roots \cap live
    /\ remembered' = IF o \in old THEN remembered \cup {o} ELSE remembered
    /\ \E S \in SUBSET (refs[o] \cup roots) : refs' = [refs EXCEPT ![o] = S]
    /\ UNCHANGED <<live, shared, old, young, liveCount, unrecorded, gcVars,
                   roots, phase>>

\* cell_store (a captured local of a block), the snapshot write-back of a
\* suspended fiber, an ivar of an anonymous class: references of a heap
\* object that are reached through an Rc, without Heap::get_mut.
CellStore(o) ==
    /\ phase = "run"
    /\ o \in roots \cap live \cap shared
    /\ \E c \in roots :
         /\ refs' = [refs EXCEPT ![o] = @ \cup {c}]
         /\ unrecorded' = IF o \in old /\ c \in young /\ o \notin remembered
                          THEN unrecorded \cup {o} ELSE unrecorded
    /\ UNCHANGED <<live, shared, old, young, liveCount, remembered, gcVars,
                   roots, phase>>

-----------------------------------------------------------------------------
(* The collector: Vm::maybe_gc, Vm::gc_now and Heap::collect. *)

ShouldGc == StressGC \/ liveCount >= nextGc

\* Mutant: one minor too many.
IsMinorOffByOne == minors + 1 <= MajorEvery

IsMinor == minors + 1 < MajorEvery

\* Mutants: marked but never walked; walked again although marked.
VisitAllMarkOnly(S, mk, wl) == <<mk \cup S, wl>>
VisitAllAgain(S, mk, wl) == <<mk \cup S, wl \cup S>>

\* visit_value on each value of S: mark what is unmarked and queue it.
VisitAll(S, mk, wl) == <<mk \cup S, wl \cup (S \ mk)>>

\* maybe_gc below the trigger: straight on to the allocation.
SkipGc ==
    /\ phase = "run"
    /\ ~ShouldGc
    /\ phase' = "alloc"
    /\ UNCHANGED <<heapVars, barrierVars, gcVars, roots>>

\* Mutant: a major keeps the marks of old objects.
KeptMarksAlways == marks \ young

\* The marks a collection starts from: a minor resets the young region only.
KeptMarks == IF IsMinor THEN marks \ young ELSE {}

\* gc_now up to the mark loop: choose minor or major, reset the marks of the
\* region to be swept, visit the roots, queue the remembered objects.
StartCollect ==
    LET seed == VisitAll(roots, KeptMarks, {})
    IN  /\ phase = "run"
        /\ ShouldGc
        /\ minor' = IsMinor
        /\ minors' = IF IsMinor THEN minors + 1 ELSE 0
        /\ marks' = seed[1]
        /\ worklist' = IF IsMinor THEN seed[2] \cup remembered ELSE seed[2]
        /\ phase' = "mark"
        /\ UNCHANGED <<heapVars, barrierVars, nextGc, exposed, roots>>

\* One turn of the mark loop; a Dead slot has nothing to walk.
MarkStep(o) ==
    LET kids == IF o \in live THEN refs[o] ELSE {}
        seen == VisitAll(kids, marks, worklist \ {o})
    IN  /\ phase = "mark"
        /\ o \in worklist
        /\ marks' = seen[1]
        /\ worklist' = seen[2]
        /\ UNCHANGED <<heapVars, barrierVars, minors, nextGc, minor, exposed,
                       roots, phase>>

\* The slots the sweep turns Dead: unmarked, young only for a minor.
Swept == IF minor THEN young \ marks ELSE live \ marks

\* Mutant: a minor forgets to subtract what it freed.
CountNotSubtracted == IF minor THEN liveCount ELSE Cardinality(live \cap marks)

\* live_count: a minor subtracts what it freed, a major recounts.
CountAfterSweep ==
    IF minor THEN liveCount - Cardinality(young \ marks)
             ELSE Cardinality(live \cap marks)

\* The sweep and the epilogue of collect; survivors are promoted, the young
\* region and the remembered set are consumed, the trigger is recomputed.
Sweep ==
    /\ phase = "mark"
    /\ worklist = {}
    /\ live' = live \ Swept
    /\ shared' = shared \ Swept
    /\ refs' = [o \in Slot |-> IF o \in Swept THEN {} ELSE refs[o]]
    /\ old' = IF minor THEN old \cup (young \cap marks) ELSE live \cap marks
    /\ liveCount' = CountAfterSweep
    /\ \E f \in Floors : nextGc' = Max2(CountAfterSweep * Growth, f)
    /\ young' = {} /\ remembered' = {} /\ unrecorded' = {}
    /\ exposed' = (exposed \/ (minor /\ unrecorded \ remembered # {}))
    /\ phase' = "alloc"
    /\ UNCHANGED <<marks, minors, minor, worklist, roots>>

-----------------------------------------------------------------------------
(* The rest of the allocation protocol. *)

\* check_alloc refuses: ResourceExhausted, nothing is allocated.
AllocTrap ==
    /\ phase = "alloc"
    /\ liveCount >= MaxLive
    /\ phase' = "run"
    /\ UNCHANGED <<heapVars, barrierVars, gcVars, roots>>

\* Heap::alloc into a free or a new slot; the contents are values the caller
\* keeps pinned, the result is pushed on its stack.
Alloc(o) ==
    /\ phase = "alloc"
    /\ liveCount < MaxLive
    /\ o \notin live
    /\ live' = live \cup {o}
    /\ liveCount' = liveCount + 1
    /\ marks' = marks \ {o}
    /\ old' = old \ {o}
    /\ young' = young \cup {o}
    /\ \E S \in SUBSET roots : refs' = [refs EXCEPT ![o] = S]
    /\ \E h \in {shared, shared \cup {o}} : shared' = h
    /\ roots' = roots \cup {o}
    /\ phase' = "run"
    /\ UNCHANGED <<barrierVars, minors, nextGc, minor, worklist, exposed>>

Next ==
    \/ \E o \in Slot : \/ DropRoot(o) \/ Get(o) \/ GetMut(o) \/ CellStore(o)
                       \/ MarkStep(o) \/ Alloc(o)
    \/ SkipGc \/ StartCollect \/ Sweep \/ AllocTrap

Spec == Init /\ [][Next]_vars

\* A collection that has started is driven to its end by the same call.
FairSpec == Spec /\ WF_vars((\E o \in Slot : MarkStep(o)) \/ Sweep)

-----------------------------------------------------------------------------
(* Properties. *)

TypeOK ==
    /\ live \subseteq Slot /\ refs \in [Slot -> SUBSET Slot]
    /\ shared \subseteq live
    /\ old \subseteq Slot /\ marks \subseteq Slot /\ young \subseteq Slot
    /\ remembered \subseteq Slot /\ unrecorded \subseteq Slot
    /\ minors \in 0 .. MajorEvery - 1
    /\ liveCount \in Nat /\ nextGc \in Nat
    /\ roots \subseteq Slot /\ worklist \subseteq Slot
    /\ phase \in {"run", "mark", "alloc"}
    /\ minor \in BOOLEAN /\ exposed \in BOOLEAN

NoDangling == roots \subseteq live /\ \A o \in live : refs[o] \subseteq live

\* No slot that a root or a live object refers to is ever Dead or recycled
\* (Heap::get would panic with "use-after-free"), unless an earlier minor
\* collection ran after a store that went around Heap::get_mut.
SweepIsSafe == ~exposed => NoDangling

\* The barrier's record is complete until a collection consumes it: an old object that
\* refers to a young one is in `remembered`, or was written through an Rc.
OldToYoungRecorded ==
    ~exposed =>
        \A o \in old : refs[o] \cap young # {} => o \in remembered \cup unrecorded

\* The young list is exactly the live slots that are not old: a slot missing
\* from it would never be swept by a minor, a slot wrongly in it could be.
YoungIsLiveNotOld == /\ old \subseteq live
                     /\ young = live \ old

\* live_count, which a minor adjusts and a major recounts, is the number of
\* live slots and stays within the cap that check_alloc enforces.
LiveCountExact == liveCount = Cardinality(live) /\ liveCount <= MaxLive

\* Slots that a program still reaches: the least set with the roots that is
\* closed under the references of live objects.
Reachable ==
    LET closed == {M \in SUBSET Slot :
                     roots \subseteq M /\ \A o \in M \cap live : refs[o] \subseteq M}
    IN  {o \in Slot : \A M \in closed : o \in M}

\* The heap is a memory from which only what the program cannot reach ever
\* disappears (ObjectMemory): collections, promotions, recycled slots and the
\* barrier are invisible, until a minor ran with an unrecorded store.
Memory == INSTANCE ObjectMemory
            WITH objects <- live, fields <- refs, held <- roots, broken <- exposed
ImplementsMemory == Memory!Spec

\* A minor walks no old object outside the remembered set: old objects keep
\* their mark from the collection that promoted them.
MinorSkipsOldGraph ==
    phase = "mark" /\ minor => worklist \cap old \subseteq remembered

\* A major collection frees all garbage, cycles and old objects included.
MajorFreesAllGarbage ==
    [][phase = "mark" /\ phase' = "alloc" /\ ~minor
         => live' = Reachable \cap live]_vars

\* Garbage is freed in the end if collections keep happening, because every
\* MAJOR_EVERY-th one is a major.
GarbageIsFreed ==
    ([]<>(phase = "mark")) =>
        \A o \in Slot : (o \in live \ Reachable) ~> (o \notin live)
=============================================================================
