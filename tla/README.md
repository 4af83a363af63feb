# TLA+ models of rubyrs

rubyrs is a Ruby interpreter in Rust. This directory holds TLA+ modules that
model its stateful core, TLC configurations that check them on small instances,
and TLAPS proofs, for every instance, about the heap, the green-thread scheduler and its
mutexes, exceptions and ensure bodies, the method caches, the fibers and the prefork server.

`PROJECT.json` lists the components, the runs, the source lines behind each
definition, the seeded bugs ("mutants") that show each property can fail, the
hazards the properties aim at, and the findings.

## 1. Inventory

Paths are under `crates/rubyrs/src/`.

| Component | State | Operations | What is hard | Correct means |
|---|---|---|---|---|
| Heap and collector (`heap.rs`, `vm/gc.rs`) | slots, marks, old flags, young list, remembered set, counters, trigger | alloc, get, get_mut, collect (minor/major), check_alloc | a minor skips the old graph and trusts the barrier; marks survive collections; stores that reach heap data through an `Rc` | nothing reachable is freed; everything unreachable is freed in the end; the live count is exact |
| Green-thread scheduler (`preamble/thread.rb`) | run queue, waiter lists, park references, sleepers, fd tables, live count, per-thread flags | spawn, park, wake, poll, join, kill, wakeup, pass, inline drive | interleavings at park points, kill and time-outs racing wake-ups, nested scheduler loops | no thread is lost, resumed twice or resumed dead; deadlocks are reported, and only deadlocks |
| Mutex, Queue, ConditionVariable (`preamble/mutex.rb`, `preamble/thread.rb`, fast paths in `vm/thread.rs`) | owner, depth, items, closed flag, waiter lists | lock, try_lock, unlock, push, pop, clear, close, wait, signal, broadcast | re-check loops, barging, an `ensure` that blocks | mutual exclusion, no lost wake-up |
| Fibers (`vm/fiber.rs`, `preamble/fiber.rb`) | fiber state, snapshot, stash stack, current fiber | new, resume, yield | nesting, errors during resume, snapshots as GC roots | LIFO nesting, current fiber always right |
| Runtime reset and snapshot (`lib.rs`, `snapshot.rs`, `preamble_cache.rs`) | baseline slots and tables | capture (forces a major), reset | slots recycled under the high-water mark | reset is indistinguishable from a new runtime |
| Exceptions (`vm/raise.rs`) | rescue handlers, pending signals | raise, ensure, break, return, throw | ensure that raises or returns | each ensure runs once, innermost first |
| Method lookup, caches (`vm/lookup.rs`), JIT guards (`jit_native.rs`, `jit_tier2.rs`) | generation counter, cached targets | define, remove, include, call | stale cache after redefinition | a cached call equals an uncached one |
| Resource limits (`vm/gc.rs`) | fuel, deadline, caps | check_fuel, check_alloc, check_frames | boundaries | the cap is never passed |
| HTTP server (`http_server.rs`) | listener, workers, connections, drain flag | accept, dispatch, stream, drain, restart | drain against in-flight requests, worker crashes | each request answered once, drain ends |
| Signals (`signals.rs`, `preamble/signal.rb`) | pending bits, handlers | deliver, drain at safe points | coalescing, re-entrancy | a delivered signal's handler runs |
| Processes (`preamble/process.rb`), sockets (`socket.rs`), SQLite (`sqlite.rs`) | OS handles | fork, wait, read, write, step | fork inside a green thread | child owns a fresh scheduler |
| Parser, compiler, dispatch, regexps, JSON/YAML, JIT back ends, C extensions | mostly none over time | pure translation | size, not order | left to the differential tests |

How they meet: every allocation runs the collector first (`maybe_gc`), so
any instruction may collect; green threads are fibers resumed by the scheduler,
which is Ruby code run by the main program or by a parked thread; blocking
operations of Mutex, Queue, ConditionVariable, IO and `sleep` enter the scheduler
only while `@coop_live > 0`; fork resets it in the child.

## 2. Modules

| Module | Models | Notes |
|---|---|---|
| `ObjectMemory` | the memory a Ruby program believes in | abstract specification that `GenHeap` implements |
| `GenHeap` | heap and collector | values are abstracted to the slots they refer to |
| `CoopCore` | scheduler of `preamble/thread.rb` | tables as one record `sch`; park bookkeeping as functions on it |
| `CoopThreads` | Mutex, Queue, ConditionVariable, the program | extends `CoopCore`; next-state relation and properties |
| `RubySource` | control statements, their lowering (`compiler.rs`) and their meaning | pure operators, no state |
| `RubyUnwind` | handler, loop and begin stacks, the raise and ensure walks (`vm/raise.rs`, `vm/step.rs`) | runs what `RubySource` compiles; extends `RubyNesting` |
| `RubyNesting` | what it is for bytecode to be well nested | pure operators; the properties of `RubyUnwind` and its proofs are stated with them |
| `ClassGraph` | class tables and the walks over them (`vm/lookup.rs`) | pure operators |
| `MethodCache` | method, `super` and class-variable caches, the operations that invalidate them, reset | extends `ClassGraph` |
| `FiberVm` | `vm/fiber.rs`, native iterators (`vm/iter.rs`), streaming bodies (`http_server.rs`) | the Rust call stack is a variable |
| `Prefork` | `http_serve_prefork` and its workers | signals are asynchronous, pids are recycled |
| `GenHeapProofs`, `CoopProofs`, `StrandProofs`, `UnwindProofs`, `MethodCacheProofs`, `FiberVmProofs`, `PreforkProofs` | | inductive invariants and theorems, checked by TLAPS |
| `NatLemmas` | | induction, minima and maxima of sets of naturals |
| `MCGenHeap`, `MCCoop`, `MCRubyUnwind`, `MCMethodCache`, `MCFiberVm` | | values of constants, programs, symmetry for TLC |

### GenHeap

`live`, `old`, `marks`, `young`, `remembered`, `minors`, `liveCount`, `nextGc`
are the fields of `Heap`; `phase`, `minor` and `worklist` are the locals of
`collect`, which is split into `StartCollect`, one `MarkStep` per worklist entry,
and `Sweep`. The mutator acts only when `phase = "run"`, since no Ruby code runs
during a collection. An allocation is `SkipGc` or a collection, then `Alloc`
or `AllocTrap`, as the callers of `maybe_gc`, `check_alloc`, `alloc` do. `roots`
abstracts what `gc_now` gathers (stack, frames, pins, tables).

`CellStore` is a store into heap data that does not pass `Heap::get_mut`: a
captured local written through its `Rc` cell (`cell_store`), the snapshot
write-back of a fiber. `shared` marks objects with such cells. Two history
variables tell what went around the barrier (`unrecorded`) and whether a minor
ran while something had (`exposed`). The safety properties are stated for
histories that are not exposed; `heap_bypass` shows what an exposed one leads to.

Left out: object kinds, `dfree` callbacks, the timing behind the adaptive floor
(any member of `Floors`), `RUBYRS_GC_DISABLE`, and `schedule_major` with the forced
collection of the snapshot capture.

### CoopCore and CoopThreads

There is one OS thread. `stack` says who executes (its last element) on top of
which scheduler loops: the main program at the bottom and, above it, green threads
that parked beneath a native iterator frame and drive the scheduler inline
(`__coop_wait_inline`). `status` of a process is `run` (executes Ruby code),
`woken` (its park ended, the code after it runs next), `parked` (fiber yielded),
`drive` (inside a scheduler loop), `fresh`, `unborn` or `dead`. `call[p]` is the blocking
call p is in and how its park ended: normally, with a `ThreadError`, or with
`CoopKill`. An action runs from one park point to the next operation, so what
Ruby code does between two parks is atomic with respect to other threads, as in
the code, and every order of operations of the executing thread is explored.

Waiter lists are sequences; the list named `t` is `@joiners` of thread t. A main
program blocked on a list leaves a token; a token it left when it raised is
`Stale`. A descriptor stands for an (fd, direction) pair. `Poll` makes any
non-empty set of watched descriptors ready and any set of timed sleepers
expire, in any order: more orders than the hash tables of the code give. The loops
of the code (`Array#delete`, wake all, expire all) are recursive functions over the
positions of a sequence, and the tables are rebuilt by `WithRunq`, `WithList`, `WithPark` and
`WithFds`, so that they can be proved about.

The program is any sequence of operations from `MainOps` and `ThreadOps`, with
three restrictions: a thread releases its mutexes before it ends (`synchronize`),
it waits on a condition variable with a mutex it owns or with none, and its own
ensure clauses only unlock.

### RubySource and RubyUnwind

`RubySource!Compile` is the compiler's lowering of begin/rescue/ensure, while, break,
next, return, retry and a call; `RubySource!Meaning` is a structural evaluator of the
same syntax that knows nothing of handler stacks. `RubyUnwind` is the interpreter's
loop over the bytecode: a frame has its rescue handlers, loops and begin baselines, and
`xfers` and `walks` are `pending_loop_transfers` and `pending_method_breaks`, the transfers
parked in an ensure body. `MCRubyUnwind` enumerates programs and compares the trace, the
result and `$!` of the run with the meaning. Leaves are labels; loop conditions and the
conditions of `retry` read one counter (`Iterations`). `NoStaleWalk` and `StacksMatchNesting` look at the
bytecode only, so they are stated in `RubyUnwind`, for any code, in terms of `RubyNesting`. Blocks, with their own return and
break, throw/catch and native iterators between frames are not part of it.

### ClassGraph and MethodCache

`tab` holds the tables of all classes: methods, prepends, includes, tombstones of
`undef_method`, superclass; `cvars` says which classes own the class variable. `method_gen` and `cvar_gen` (`mgen`, `cgen`) are the
only invalidation. Each cache has its fill and hit rule as an action; a cached answer is
compared with the walk over `tab`. `undef_method` and `include` take several arguments
and bump the generation once at the end, so they are several steps, with the user's hook
between them. A module in `Overriding` has an `append_features` or `prepend_features` of its own: `include`
calls it in place of the insertion, Ruby code runs, and its `super` is `AppendFeatures`, the native
insertion with a bump of its own. `sup` is the table of `super` sites, one entry each, filled and read
on behalf of a class's or a module's method (`SuperLookup`); a reset keeps the entries of `PreambleSites`,
as it keeps the call sites of the preamble.

Two history variables single out what the code does not keep: `behind`
(tables changed, generation not yet moved; a hook or a bad argument can leave it so) and
`kept` (entries that crossed a reset with a generation reset counts through again: of preamble call
sites, preamble `super` sites and the ancestors memo). The
properties hold outside of them: on the instance checked these are the only two ways.

### FiberVm

A resume is a Rust call that swaps the frames of the Vm with the fiber's snapshot and runs a nested
dispatch loop; a yield is a flag that makes every dispatch loop up to that resume return.
`rust` is that call stack: resumes by Ruby (`resume`) and by the server (`poll`), iterations of native
iterators (`iter`), and the nested loop of `Op::Yield` (`yield`), each with the frame depth
where it stops. `frames`, `snapshot` and `stash` record whose code each frame runs, which is
what `FramesStayHome` is about. `handles` is what Ruby code can reach, `bodies` what only a
streaming response holds. `Lost` states, in which Rust code will look up a slot that is gone, have
no further behaviour: the code panics there, or goes on with another object. `strayed` records the
resume levels at which a first resume failed. The dispatch loop the server runs around a
request handler, `body.close`, fiber locals and C extensions are left out.

### Prefork

`pc` is where the parent is in `http_serve_prefork`: `fork`/`publish` for the first workers, then
`loop`, `reap`, `clear`, `refork`/`republish` for a replacement, and `drain` or `abort` to the end.
Every system call is a step of its own, so a signal, a crash or the deadline can fall between
any two. `table` is `PREFORK_CHILD_PIDS` (what the handler forwards to), `alive` the pids the
parent will wait for, `log` the restarts within the window, `inherited` the copy of the table a child
got at its fork, which its inherited handler uses until `run_one_child_worker` resets the signals.

## 3. Runs

| Run | Bounds | Shows |
|---|---|---|
| `heap_safety` | 3 slots, cap 3, a major every 3rd collection | safety of the collector, exactness of the count, locality of minors, precision of majors, refinement of `ObjectMemory` |
| `heap_garbage` | 2 slots, a major every 2nd collection | unreachable objects are freed in the end |
| `heap_bypass` | 2 slots | violation: a store around the barrier dangles |
| `coop_sync` | main + 2 threads, 1 mutex, 1 queue of 2, 1 condition variable | exclusion, no lost wake-up, deadlocks detected |
| `coop_sched` | main + 3 threads, 1 descriptor | consistent tables, kills, joins, no false deadlock, no resume of a dead fiber |
| `coop_inline` | main + 3 threads, 1 mutex, 1 queue | nested drives: no double resume, no lost wake |
| `coop_fair` | main + 2 threads, 1 mutex, 1 queue | queued threads run, threads killed where they are parked end |
| `unwind` | programs of up to three nested constructs in a loop of 2 iterations | the machine does what the text says, `$!` is scoped, no parked transfer is stale, no handler or loop is left over |
| `method_cache` | 2 classes (the snapshot with or without a method), 1 module that overrides `append_features` or not, 1 two-way call site of the preamble, 2 `super` sites (one of the preamble), 1 owner site, global cache of 2, one definition, one reset | every current entry answers what the tables say |
| `fiber` | 3 fibers, 3 Rust calls deep, 2 frames per fiber | frames stay on their stack; current fiber, suspended count and can_yield exact |
| `fiber_stream` | the same | violation: a streaming fiber is swept while it is being resumed |
| `prefork` | 2 slots, 3 pids, 1 restart per window | table, wait list and processes agree; no orphan; replacement; termination |

Why the bounds are enough for the interesting cases. Three slots hold an old
object, a young one that only it refers to, and a third that keeps one of them
alive or is garbage; with a major every third collection a slot can be freed,
recycled, promoted and freed again between two majors. Three processes are a
holder, a woken waiter and a second waiter. `Slice` is the number of operations
between two parks (spawning and unlocking are free); `MaxItems` and `MaxDepth` bound
queues and re-entries. Two classes and a module are enough for a method to be inherited,
shadowed, included and tombstoned; the cache sites share only the tables and the memo, so
`OneSite` exercises one at a time; `MaxGen = 2` is one definition before and none after the reset.
Three calls deep a fiber can resume a fiber that resumes a third, or iterate inside a resume
inside an iteration. Three pids for two slots let a pid be reused for the other slot. Ensure bodies
nested three deep reach the case of two transfers parked at the same place.
Symmetry is over threads, slots or fibers, which the models only compare, and is used in
safety runs only. Deadlock checking is off for `method_cache`, whose bounds run out, and for
`prefork`, whose call ends.

The runs separate what the code keeps from what it does not. `kill` is out of
`coop_sync`, `wakeup` out of `coop_sched`, a rescued ThreadError out of
`coop_inline`, and the program sets `CalleePrograms`, `ContainedPrograms`, `SweptPrograms`,
`LoopLeavingPrograms` and `NestedRetryPrograms` out of `unwind`, because each breaks a property checked
there: section 5.

### Fairness

`GenHeap!FairSpec`: a collection that started goes on (`collect` is one call). That
collections keep happening is an antecedent of `GarbageIsFreed`, not an assumption of
fairness: a program that stops allocating never collects.

`CoopThreads!FairSpec`: weak fairness of the whole next-state relation. The
interpreter executes its next instruction and `poll(2)` returns when something is
ready. Nothing is assumed about which operation the program chooses; that code between
two parks is finite is the bound `Slice`, and without it the scheduler, which
never preempts, promises nothing.

`Prefork!FairSpec`: the parent takes its next step; a worker gets as far as resetting its signals,
a pending signal is delivered, and a worker exits, since it serves no longer than its own
duration; `waitpid(-1)` hands out exited children in turn, so it passes none over for ever (strong
fairness of `Reap`, which other children's exits enable and disable). Crashes, failing forks, signals
to the parent and the deadline need not happen.

## 4. Proofs

`GenHeapProofs` proves, for every finite set of slots and every cap, cadence and
trigger (assumptions `SlotAssumption`, `MajorAssumption`, `CapAssumption`,
`TriggerAssumption`): `TypeOK`, `SweepIsSafe`, `OldToYoungRecorded`, `LiveCountExact`,
`YoungIsLiveNotOld`, `MinorSkipsOldGraph` as invariants, and `MajorFreesAllGarbage` as an
action property.

The argument. `SweepIsSafe` is not inductive: nothing in it says why an unmarked slot may
go. The invariant `IInv` adds

* `MarkLoop`: during marking, the roots in the region to be swept are marked, and
  whatever has left the worklist has had its references into that region marked. For
  a minor the objects that must be visited are the marked young ones and the
  remembered ones;
* `OldToYoungRecorded`: an old object outside the remembered set has no young
  reference, so a minor need not visit it (in unexposed histories);
* `YoungIsLiveNotOld`: the young list is the region a minor sweeps;
* `MarksRetained`: old objects are marked except during the marking of a major,
  which is why a minor skips them;
* `MarkOnlyReachable`: a major marks nothing unreachable. With `MarkLoop` at an
  empty worklist the marks are exactly the least closed set, hence
  `MajorFreesAllGarbage`.

`NextIInv` has one lemma per action, and each lemma one step per conjunct the action can
disturb.

`HeapImplementsMemory` proves the refinement: with `objects <- live`, `fields <- refs`, `held <- roots`
and `broken <- exposed`, every step of the heap is a step of `ObjectMemory` or a stutter. The
mutator's actions map one to one; marking is invisible; for the sweep, `StepSimulation` uses that
`IInv` makes the marks cover what is reachable, so what goes is what the program could not reach.

`PreforkProofs` proves `TypeOK`, `PoolExact` and `NoOrphan` for every number of workers, pids and
restarts (`PreforkAssumption`). `PoolExact` alone is not inductive: it says nothing at the steps
where a pid is in the parent's hands and not yet, or no longer, in the table. `IInv` adds which
processes are known at each `pc` (`Known`), that the table and the wait list name the same
pids but for the one in hand (`Listed`), that the slot being filled is empty (`SlotFree`), and what
remains at the end (`Over`).

`MethodCacheProofs` proves `CallSitesExact`, `GlobalExact`, `SuperExact` and `CvarsExact` for any classes,
names, call sites and cache sizes (`CacheAssumption`, `TablesAssumption`). That the current entries are right is not
inductive: a bump must retire the others. `IInv` adds that no entry carries a generation the
counter has not reached, so that after a bump nothing is current; that entries of the present generation
are right unless an `undef_method` or `include` is `behind`; and which entries a reset leaves. The
walks (`Resolve`, `Ancestors`, `NextAfter`, `CvarOwner`) are never expanded: the theorems hold of
whatever they compute.

`FiberVmProofs` proves `FramesStayHome`, `CurrentIsExecuting`, `SuspendedExact` and `CanYieldIsExact` for any
number of fibers, calls and frames. The properties speak of the innermost resume; the
induction needs every level, because a resume's end puts back what its start saved. The
levels are named by `pos`, the places of the resumes on the Rust stack. `Placed` says that
they are exactly the resumes and match the stash; `Owned` that the frames of each level are
those of the fiber resumed there and that the depths at which native calls stop increase;
`Current` that no fiber is resumed twice and that each level saved the right
`current_fiber_id`; `Counted` that the iterators below each resume are what it noted.

`CoopProofs` is about every program: any operations, any number of threads, mutexes, queues, condition
variables and descriptors (`ObjectAssumption`, `BoundAssumption`). Without further hypotheses, inline drives,
kills and rescued errors included: `NoLostThread`, `KillIsPending`, `MutualExclusion` and
`ResumesOnlySuspended`. `CoreInv` is types and

* `StackInv`: the main program is at the bottom of `stack`, all but the last drive, and the threads
  on it are those that execute or drive, once each;
* `Born`, `Linked`: the tables name no thread that was never made, and a living thread is where its own
  references (`@park_ref`, `@sleep_ref`) say;
* `Findable`, `Pending`: a suspended thread is queued or has a reference, and one told to die is queued.

`LockInv` adds that nobody waits in `Mutex#lock` for what it owns, from which `MutualExclusion`
follows. The actions are sorted into a few kinds of step (`RouseStep`, `ParkStep`, `ReturnStep`, and those of the
scheduler loops), each described by what it does to the tables (`Woke`, `Parks`, `Popped`), and an
invariant is proved for the kinds.

For programs whose threads never park beneath a native iterator (hypothesis `TRUE \notin Inline`) the tables are
exact (`Exact`), which gives `ParkedOnOneList`, `RunqExact` and `DeadlockIsReal`; without descriptors
(`Fds = {}`) also `DeadlockIsDetected`, and without `Thread#wakeup` also `JoinMeansDone`. These hypotheses are
those of the runs, and section 5 names for each what breaks the property when it is
dropped.

`StrandProofs` extends `CoopProofs` and proves that no wake-up of a mutex or a queue is lost:
`NoStrandedLocker` and `NoStrandedPopper`, for programs that park in their fibers, kill no thread
(`"kill" \notin MainOps \cup ThreadOps`) and rescue no ThreadError (`Rescues = FALSE`). The properties say that a
woken process exists; the induction has to follow it until it looks again. `Steadfast`, which is kept as long
as MAIN lives, is

* `Seats`: a parked thread waits for what its call names, nobody waits for a mutex or a queue with a
  limit, and MAIN has at most one token, in the list of the object it waits for;
* `StaleSeat`: a token of a call that a ThreadError ended is in a list only while MAIN unwinds, and not in that
  of a mutex that MAIN owns;
* `Offered`: a free mutex that somebody waits for has a process that was woken for it and has yet to look again;
* `Fetched`: a queue that somebody waits at is open, and has no more items than processes that were woken for it
  and have yet to look again. (One such process would not do: two pushes and one pop leave an item.)

`StepKeepsPlaces`: a step leaves everybody's place at an object alone but for the executing process that
touches it; `TouchMeets`: whoever touches a mutex finds it taken or takes it, and whoever touches a queue finds it
empty and open, or takes an item. So only an unlock, a push or a close can spoil the invariant, and `WakeOneHits`
says that `__coop_wake_one` then takes a waiter off the list. Two of the hypotheses cannot be dropped: section 5 has
the counterexamples. That `Inline` is restricted to `FALSE` is due to the proof, which uses `Exact`; TLC
finds no violation in `coop_sync` with `Inline = {TRUE, FALSE}`.

`NatLemmas` has induction over a set of naturals, from the well-foundedness of `<`; stated for a set
rather than for an operator it can be instantiated, and makes the recursive functions of
`CoopCore` (`Delete`, `WakeAll`, `AllReady`, `AllExpired`) provable.

`UnwindProofs` proves `NoStaleWalk` and `StacksMatchNesting`, that `EndEnsure` never reaches its panic
(`EnsureNeverPanics`) and that no instruction takes away an operand, handler, loop, begin or frame that is not there
(`NothingUnderflows`), for bytecode of any length, nested and looping to any depth, with any number of calls. The
hypothesis is `WellNestedPrograms`: the code of each program has a nesting `N` with `WellNested(code, N)`. It is what
the compiler's lowering gives and never writes down. `N` maps each reachable address to the pushes, loops, ensure
bodies and begins that enclose it and to the number of operands there. `Goes` and `Jumps` say that every instruction
agrees with its successors, `Scoped` that what encloses an address also encloses the place where it was opened,
`Marked` that the nesting at a leaf is the one counted in the text. `MCRubyUnwind` computes `N` in one pass
(`NestOf`), and TLC evaluates `CompiledIsWellNested`, that it is a nesting, for every program of `unwind`; that
`Compile` yields nested code for every syntax tree would be an induction over data.

Three conditions of `WellNested` are about transfers and not about the lowering. Each keeps out programs on
which the machine goes wrong (section 5): `Returns` (the loops open at a return are those around each
ensure region that it leaves: `LoopLeavingPrograms`); `Crossed` in `Leaves` (a break or next does not leave the
ensure body of a region that a return crosses, unless its loop is in no ensure body at all: `ContainedPrograms`); and
`NoRescueWithin` (`SweptPrograms`). They are sufficient, not necessary: programs are left out on which nothing breaks.

The argument. A frame's stacks have no invariant of their own: an ensure body entered by an exception runs on
top of whatever was on the operand stack then, its handlers were cut to the depth at the push, while the loops
may still be those of the place that was left. `IInv` is `Sound` with some `N`: each frame has, for each ensure body
around its instruction, two heights that no variable records, where the operands (`gd`) and the begins (`gn`) of that
body start. With them

* `Shape` says what each entry on the frame's stacks is: the handlers and loops of `N`, with the depths they had when
  they were pushed, counted from the heights of the body they were pushed in;
* `Life` says which bodies have a walk parked in them or an exception to raise again (`Live`): the one that the
  instruction is in, and each that a handler or loop of the frame goes back to, but for the outermost `m`. Their walks
  were swept by a return from further in, and what goes back to them is ensure regions that returns cross;
* `CallsOK`: every frame but the top one has just made a call, and bases increase;
* `WalksOK`: of two parked walks the one with the higher `seq` waits further in, so the one that
  `EndEnsure` resumes is the one of the body that ends.

`StepSound` has one lemma per instruction. The long ones are the ways of leaving: `UnwindGood` (the search for a
handler through the frames), `LeapSound` and `ReturnSound` (the supersede sweep, then the walk to the next ensure
region or the landing), and `EndEnsureGood`, which goes on with one of them.

`NatLemmas` is used here for `Vec::retain` (`Kept`).

Only model-checked: liveness (`GarbageIsFreed`, `RunnableRuns`, `KilledDies`, `DownIsReplaced`,
`CallEnds`), which is out of the prover's reach; `RunsAsWritten` and `BangIsScoped`, which compare the
unwinding machine with `Meaning`, a recursive operator over the syntax of programs: what it
computes for every program cannot be proved here.

## 5. Findings

Two comments of the source are refuted by runs (`findings` in `PROJECT.json`):

* `heap_bypass`: `vm.rs:413` stores into a captured cell without the write barrier.
* `fiber_stream`: `vm/fiber.rs:542` looks up a fiber that nothing roots.

The following came up while modelling. The models contain the behaviour; the properties are stated so
that they leave exactly it out, or the configuration does. Each can be reproduced by the change named.

Scheduler:

* `preamble/mutex.rb:69`: `unlock` wakes one waiter; killed before it runs, that waiter takes the wake-up with
  it, and the others stay parked on a free mutex (`NoStrandedLocker` with `kill` in `coop_sync`).
* `preamble/thread.rb:1042`: a ThreadError raised to MAIN leaves its token in the list of the queue it waited at; when MAIN
  rescues it and pushes, `__coop_wake_one` takes the token for the wake, and a thread parked there sleeps on
  beside an item (`NoStrandedPopper` in `coop_sync` with `Rescues = TRUE`).
* `preamble/thread.rb:823`: a ThreadError raised out of an inline park leaves the registration in the
  waiter list (`ParkedOnOneList` with `Rescues = TRUE`), against the comment at 739-742.
* `preamble/thread.rb:1244`: `Thread#wakeup` ends an untimed join early (`JoinMeansDone` with `wakeup`).
* `preamble/thread.rb:1164`: killing a descriptor waiter leaves an empty list as a key, and a real deadlock
  blocks in poll (`DeadlockIsDetected` with `fd` and `kill`).
* `preamble/thread.rb:1213`: a kill that finds its thread in a bare `Fiber.yield` is handed to it as the value of the
  yield (`preamble/fiber.rb:35-38`), and the slot it was in is cleared; only `__coop_yield_parked` (783-784) raises
  CoopKill. The thread goes on, and need not die, against 760-763 (`KilledDies` in `coop_fair` without its
  `call[t].op # "yield"`).
* `preamble/thread.rb:843`: two threads that pass beneath native iterators starve the lower one, against
  794-797 (`RunnableRuns` with `Inline = {TRUE}`).

Unwinding:

* `vm/raise.rs:1151`: a return cancelled by a break or next inside a loop of an ensure body that
  another transfer is parked in ends in an internal error (`ContainedPrograms`).
* `vm/raise.rs:961`: so does a break, next or return of an ensure body that an exception cancels, when the exception is
  rescued in the ensure body around it and a transfer is parked there: the newer transfer has already swept the walk
  of the outer body, and at that body's end `EndEnsure` finds nothing (`RunsAsWritten` for `SweptPrograms`). This
  came up as the case in which the invariant of `UnwindProofs` is not inductive.
* `vm/raise.rs:715`: `$!` of a callee whose ensure body raises leaks into the caller's ensure body
  (`CalleePrograms`); a retry keeps `$!` in the repeated body (`RetryPrograms`).
* `vm/raise.rs:1235`: a return that leaves an inner loop parks without closing the loop, and a break of the
  ensure body lands by that loop's depth (`LoopLeavingPrograms`).
* `vm/step.rs:5910`: retry out of a begin nested in the rescue body restores the wrong baseline
  (`NestedRetryPrograms`).

Caches:

* `vm/dispatch.rs:6556`, `14046`: `undef_method` and `include` bump the generation after their last argument;
  a bad later argument or a raising hook leaves the caches current for changed tables (`behind`).
* `lib.rs:3170`: reset sets `method_gen` to the snapshot's plus one, the generation the program's first
  definition also had. A preamble call site, or the ancestors memo, filled after that definition is
  current again after the reset and answers with the program that was rewound, against 3152-3155
  (`kept`). So is an entry of a `super` site of the preamble, against 3104-3107: `super_caches` is cut to its
  length at the snapshot (3098), and that length has a slot for every preamble site (4645-4646), so nothing
  clears these.
* `lib.rs:1236`: the snapshot of a class has neither `undefed` nor `singleton_includes`, so an `undef_method`
  on a preamble class outlives the reset (`Reset` keeps `dead`).

Fibers:

* `vm/fiber.rs:649`: a first resume that fails returns without restoring `current_fiber_id`
  (`strayed`); it stays wrong until the enclosing resume ends, at top level for good.
* `vm/fiber.rs:802`: `Fiber.yield` outside every fiber leaves `fiber_yield_pending` set, and native iterators
  skip every element until the next resume; neither reset nor the reset between requests
  (`vm.rs:4822`) clears it, against `vm.rs:3057`.

Prefork:

* `http_server.rs:2811`: a signal between the fork and the store of the pid is not forwarded to the new
  worker; the parent waits for it although it was told nothing, against 2874-2879.
* `http_server.rs:219`: until then a worker runs the inherited handler on its copy of the table: it
  swallows its own signal and sends its elder siblings a second one, against 2756-2758.
* `http_server.rs:2887`: the pids stay in the table while and after the pool is drained, so a second signal
  goes to pids that may belong to others by then.
* `http_server.rs:2960`: a replacement whose fork fails is never tried again (`lost`).

## 6. Not modelled, and the plan

Not modelled because there is nothing for a model checker to find beyond what tests compare: parser, AST,
most of the compiler and of the builtin methods (one arm each, no state over time), regular expressions,
the interner, sockets (readiness is in `WaitFd`), the preamble cache (encoding and file I/O). Out of reach:
machine code of the JIT tiers, C extensions. These are the bulk of the source.

Left for later, in order:

1. Fork as an action of `CoopThreads` (`__coop_after_fork!`, `preamble/thread.rb:1080`): the child's scheduler is new
   while owners and waiter lists of mutexes are not. A clock, for `sleep 0` (1020) and timed waits that
   starve because `poll` runs only on an empty run queue (885).
2. Parks inside a Fiber that a green thread itself resumed (`preamble/thread.rb:784`): `FiberVm` composed with
   `CoopCore`.
3. Snapshot capture and reset over the heap's state (`lib.rs:2825`).
4. Blocks, throw/catch and native iterators in `RubyUnwind`; signals at safe points; the SQLite binding's
   statements and transactions; the server's requests, drain and `body.close`.
5. Proofs: `NoStrandedLocker` and `NoStrandedPopper` with inline parks, where a woken thread may drive a loop.
