------------------------------ MODULE FiberVm ------------------------------
(***************************************************************************)
(* Fibers of the interpreter (vm/fiber.rs).  A resume is a Rust call: it   *)
(* swaps the Vm's frames with the fiber's snapshot, runs dispatch_until    *)
(* inside it and swaps back when that returns, because the body ended,     *)
(* raised, or set fiber_yield_pending.  A yield takes effect only as every *)
(* dispatch_until between it and its resume returns, through the loops of  *)
(* native iterators (vm/iter.rs), which cannot be suspended.               *)
(*                                                                         *)
(* `rust` is the Rust call stack: resumes called by Ruby ("resume") and by *)
(* the streaming server of http_server.rs ("poll"), which holds fibers by  *)
(* id, step_block calls ("iter") and the nested dispatch of Op::Yield      *)
(* ("yield"), with the frame depth at which their dispatch_until stops.  A *)
(* frame records whose code it is.                                         *)
(***************************************************************************)
EXTENDS Naturals, FiniteSets, Sequences, FiniteSetsExt, SequencesExt

CONSTANTS
  Fiber,      \* heap slots that hold fibers
  Main,       \* the program outside every fiber
  NoFiber,    \* None
  MaxLive,    \* max_live_fibers
  MaxRust,    \* bound on the Rust stack
  MaxFrames   \* bound on the frames of one fiber

ASSUME FiberAssumption ==
  /\ IsFiniteSet(Fiber) /\ Main \notin Fiber /\ NoFiber \notin Fiber
  /\ MaxLive \in Nat /\ MaxRust \in Nat /\ MaxFrames \in Nat \ {0}

VARIABLES
  state,      \* per slot, FiberState, or "free"
  frames,     \* vm.frames: whose code each frame runs
  snapshot,   \* per fiber, FiberSnapshot::frames
  stash,      \* fiber_stash_stack
  current,    \* current_fiber_id
  pending,    \* fiber_yield_pending
  depth,      \* native_iter_depth
  entry,      \* per fiber, resume_native_iter_depth
  suspended,  \* heap.suspended_fibers
  rust,       \* the Rust call stack
  handles,    \* fibers Ruby code can reach
  bodies,     \* fibers held by a FiberResponseBody
  strayed     \* history: resume levels at which a first resume failed

vars == <<state, frames, snapshot, stash, current, pending, depth, entry, suspended,
          rust, handles, bodies, strayed>>

Init ==
  /\ state = [f \in Fiber |-> "free"] /\ frames = <<Main>>
  /\ snapshot = [f \in Fiber |-> <<>>] /\ stash = <<>>
  /\ current = NoFiber /\ pending = FALSE
  /\ depth = 0 /\ entry = [f \in Fiber |-> 0] /\ suspended = 0
  /\ rust = <<>> /\ handles = {} /\ bodies = {} /\ strayed = {}

Resumes   == {i \in DOMAIN rust : rust[i].fn \in {"resume", "poll"}}
Level     == Cardinality(Resumes)
Base      == Max(Resumes \cup {0})
Innermost == IF Base = 0 THEN Main ELSE rust[Base].fiber
OnStack   == {rust[i].fiber : i \in Resumes}
Above     == {i \in DOMAIN rust : i > Base}
Iters(S)  == Cardinality({i \in S : rust[i].fn = "iter"})

\* A fiber that Rust code will still look up has lost its slot.  Heap::fiber
\* panics, or finds what was allocated there since.
Lost == \E f \in OnStack \cup bodies : state[f] = "free"

\* dispatch_until returns at once while a yield is pending; the outermost loop,
\* dispatch, does not look.
Unwinding == pending /\ rust # <<>>
RubyRuns  == ~ Unwinding /\ ~ Lost

(***************************************************************************)
(* resume_fiber.                                                           *)
(***************************************************************************)
\* Mutant: a running fiber may be resumed.
ResumableRunning(f) == state[f] \in {"Created", "Suspended", "Running"}
Resumable(f) == state[f] \in {"Created", "Suspended"}

\* Mutant: the depth of the first resume is kept.
EntryKept(f) == IF state[f] = "Created" THEN depth ELSE entry[f]
EntryDepth(f) == depth

\* FiberStashGuard::install, and the body's frame on the first resume.
Resume(f, how) ==
  /\ Resumable(f) /\ Len(rust) < MaxRust
  /\ state' = [state EXCEPT ![f] = "Running"]
  /\ suspended' = IF state[f] = "Suspended" THEN suspended - 1 ELSE suspended
  /\ rust' = Append(rust, [fn |-> how, fiber |-> f, prev |-> current, pre |-> 0])
  /\ stash' = Append(stash, frames)
  /\ frames' = IF state[f] = "Created" THEN <<f>> ELSE snapshot[f]
  /\ snapshot' = [snapshot EXCEPT ![f] = <<>>]
  /\ current' = f /\ pending' = FALSE
  /\ entry' = [entry EXCEPT ![f] = EntryDepth(f)]
  /\ UNCHANGED <<depth, handles, bodies, strayed>>

RubyResume(f) == RubyRuns /\ f \in handles /\ Resume(f, "resume")

\* invoke_block refuses (a lambda's arity, the frame cap): the guard is dropped,
\* the early return does not put current_fiber_id back. Either Ruby resumed the
\* fiber, or poll_frame did, for which the body is then done.
StartFails(f) ==
  /\ RubyRuns /\ state[f] = "Created" /\ Len(rust) < MaxRust
  /\ \/ f \in handles /\ UNCHANGED bodies
     \/ rust = <<>> /\ f \in bodies /\ bodies' = bodies \ {f}
  /\ state' = [state EXCEPT ![f] = "Returned"]
  /\ current' = f /\ strayed' = strayed \cup {Level}
  /\ UNCHANGED <<frames, snapshot, stash, pending, depth, entry, suspended, rust, handles>>

\* Mutant: back to no fiber at all.
RestoredNone(a) == NoFiber
Restored(a) == a.prev

\* The end of resume_fiber: the guard's Drop takes the Vm's frames, left over,
\* into the snapshot and the stash back into the Vm.
EndResume(st, left) ==
  LET a == rust[Base]
  IN /\ state' = [state EXCEPT ![a.fiber] = st]
     /\ suspended' = IF st = "Suspended" THEN suspended + 1 ELSE suspended
     /\ snapshot' = [snapshot EXCEPT ![a.fiber] = left]
     /\ frames' = Last(stash) /\ stash' = Front(stash)
     /\ current' = Restored(a)
     /\ rust' = SubSeq(rust, 1, Base - 1)
     /\ depth' = depth - Iters(Above)
     /\ pending' = FALSE
     /\ strayed' = strayed \ {Level}
     /\ bodies' = IF st = "Returned" /\ a.fn = "poll" THEN bodies \ {a.fiber} ELSE bodies
     /\ UNCHANGED <<entry, handles>>

(***************************************************************************)
(* Ruby code: calls under a native iterator or a yield, returns, raises.   *)
(***************************************************************************)
\* step_block and its kin: with a yield pending the iteration is dropped.
StepBlock ==
  /\ RubyRuns /\ ~ pending /\ Len(rust) < MaxRust /\ Len(frames) < MaxFrames
  /\ rust' = Append(rust, [fn |-> "iter", fiber |-> NoFiber, prev |-> NoFiber, pre |-> Len(frames)])
  /\ frames' = Append(frames, Last(frames)) /\ depth' = depth + 1
  /\ UNCHANGED <<state, snapshot, stash, current, pending, entry, suspended, handles, bodies, strayed>>

\* Op::Yield: with a yield pending its dispatch_until is over before it starts
\* and the frame is left to the outer loop.
YieldToBlock ==
  /\ RubyRuns /\ Len(rust) < MaxRust /\ Len(frames) < MaxFrames
  /\ rust' = IF pending THEN rust
             ELSE Append(rust, [fn |-> "yield", fiber |-> NoFiber, prev |-> NoFiber, pre |-> Len(frames)])
  /\ frames' = Append(frames, Last(frames))
  /\ UNCHANGED <<state, snapshot, stash, current, pending, depth, entry, suspended, handles, bodies, strayed>>

\* Op::Return, and the dispatch_until calls that stop there.
Return ==
  /\ RubyRuns /\ (Innermost = Main => Len(frames) > 1)
  /\ LET fs == Front(frames)
         stops == {i \in Above : rust[i].pre >= Len(fs)}
     IN IF fs = <<>> THEN EndResume("Returned", fs)
        ELSE /\ frames' = fs
             /\ rust' = SubSeq(rust, 1, Len(rust) - Cardinality(stops))
             /\ depth' = depth - Iters(stops)
             /\ UNCHANGED <<state, snapshot, stash, current, pending, entry, suspended, handles, bodies, strayed>>

\* An exception: rescued in frame k, or by nobody in this fiber.
Raise(k) ==
  /\ RubyRuns /\ k < Len(frames) /\ (Innermost = Main => k > 0)
  /\ LET stops == {i \in Above : rust[i].pre >= k}
     IN IF k = 0 THEN EndResume("Returned", <<>>)
        ELSE /\ frames' = SubSeq(frames, 1, k)
             /\ rust' = SubSeq(rust, 1, Len(rust) - Cardinality(stops))
             /\ depth' = depth - Iters(stops)
             /\ UNCHANGED <<state, snapshot, stash, current, pending, entry, suspended, handles, bodies, strayed>>

(***************************************************************************)
(* Fiber.yield.                                                            *)
(***************************************************************************)
\* __rubyrs_fiber_yield; it does not ask whether a fiber is running.
FiberYield ==
  /\ RubyRuns /\ ~ pending /\ pending' = TRUE
  /\ UNCHANGED <<state, frames, snapshot, stash, current, depth, entry, suspended, rust, handles, bodies, strayed>>

\* A pending yield returns from the innermost Rust call: a native iterator
\* skips its other elements, a resume suspends its fiber.
Unwind ==
  /\ Unwinding /\ ~ Lost
  /\ IF Base = Len(rust) THEN EndResume("Suspended", frames)
     ELSE /\ rust' = Front(rust)
          /\ depth' = IF Last(rust).fn = "iter" THEN depth - 1 ELSE depth
          /\ UNCHANGED <<state, frames, snapshot, stash, current, pending, entry, suspended, handles, bodies, strayed>>

\* __rubyrs_fiber_can_yield, which the green threads ask before they park.
CanYield == current # NoFiber /\ depth = entry[current]

(***************************************************************************)
(* Creation, collection, streaming responses, reset.                       *)
(***************************************************************************)
FiberNew(f) ==
  /\ RubyRuns /\ state[f] = "free"
  /\ Cardinality({g \in Fiber : state[g] # "free"}) < MaxLive
  /\ state' = [state EXCEPT ![f] = "Created"]
  /\ handles' = handles \cup {f}
  /\ UNCHANGED <<frames, snapshot, stash, current, pending, depth, entry, suspended, rust, bodies, strayed>>

\* Fiber.current (of a stray id whose slot is gone: not followed further).
FiberCurrent ==
  /\ RubyRuns /\ current # NoFiber /\ state[current] # "free"
  /\ handles' = handles \cup {current}
  /\ UNCHANGED <<state, frames, snapshot, stash, current, pending, depth, entry, suspended, rust, bodies, strayed>>

\* The last reference from Ruby goes.  The receiver of a Ruby-level resume is
\* the self of a stashed frame; the receiver of the server's is not.
DropHandle(f) ==
  /\ RubyRuns /\ f \in handles /\ handles' = handles \ {f}
  /\ \A i \in Resumes : rust[i].fiber = f => rust[i].fn = "poll"
  /\ UNCHANGED <<state, frames, snapshot, stash, current, pending, depth, entry, suspended, rust, bodies, strayed>>

\* Mutant: the sweep does not look for suspended fibers.
ForgetNone(f) == suspended
ForgetSuspended(f) == IF state[f] = "Suspended" THEN suspended - 1 ELSE suspended

Sweep(f) ==
  /\ RubyRuns /\ f \notin handles /\ state[f] # "free"
  /\ suspended' = ForgetSuspended(f)
  /\ state' = [state EXCEPT ![f] = "free"]
  /\ snapshot' = [snapshot EXCEPT ![f] = <<>>]
  /\ UNCHANGED <<frames, stash, current, pending, depth, entry, rust, handles, bodies, strayed>>

\* marshal_rack_response: the handler's fiber is left with the response body.
Stream(f) ==
  /\ RubyRuns /\ rust = <<>> /\ f \in handles /\ state[f] = "Created" /\ f \notin bodies
  /\ bodies' = bodies \cup {f} /\ handles' = handles \ {f}
  /\ UNCHANGED <<state, frames, snapshot, stash, current, pending, depth, entry, suspended, rust, strayed>>

\* FiberResponseBody::poll_frame, between two requests.
PollFrame(f) == RubyRuns /\ rust = <<>> /\ f \in bodies /\ Resume(f, "poll")

\* The client goes, or the poll finds the fiber terminated by somebody else.
ResponseEnds(f) ==
  /\ RubyRuns /\ rust = <<>> /\ f \in bodies /\ bodies' = bodies \ {f}
  /\ UNCHANGED <<state, frames, snapshot, stash, current, pending, depth, entry, suspended, rust, handles, strayed>>

\* Runtime::reset between two programs: current_fiber_id and
\* fiber_yield_pending are left as they are.
Reset ==
  /\ RubyRuns /\ rust = <<>> /\ bodies = {}
  /\ state' = [f \in Fiber |-> "free"] /\ snapshot' = [f \in Fiber |-> <<>>]
  /\ frames' = <<Main>> /\ stash' = <<>> /\ suspended' = 0 /\ handles' = {}
  /\ UNCHANGED <<current, pending, depth, entry, rust, bodies, strayed>>

Next ==
  \/ \E f \in Fiber : \/ RubyResume(f) \/ StartFails(f) \/ FiberNew(f) \/ DropHandle(f)
                      \/ Sweep(f) \/ Stream(f) \/ PollFrame(f) \/ ResponseEnds(f)
  \/ \E k \in 0 .. MaxFrames : Raise(k)
  \/ StepBlock \/ YieldToBlock \/ Return \/ FiberYield \/ Unwind \/ FiberCurrent \/ Reset
  \/ (Lost /\ UNCHANGED vars)

Spec == Init /\ [][Next]_vars

(***************************************************************************)
(* Properties.                                                             *)
(***************************************************************************)
AllOf(s, p) == \A i \in DOMAIN s : s[i] = p

\* No frame ever runs, or waits, on another fiber's stack, and a fiber is
\* Running exactly while one resume of it is under way: the swaps of
\* FiberStashGuard nest, also across errors and resumes of resumes.
FramesStayHome ==
  ~ Lost =>
    /\ AllOf(frames, Innermost) /\ Len(stash) = Level
    /\ \A f \in Fiber : AllOf(snapshot[f], f)
    /\ \A i \in Resumes : \A j \in Resumes : rust[i].fiber = rust[j].fiber => i = j
    /\ \A f \in Fiber : state[f] = "Running" <=> f \in OnStack

\* current_fiber_id is the fiber whose code runs, so Fiber.current and the
\* fiber-local store are its own; at a level where a first resume failed it
\* names that dead fiber until the level ends (resume_fiber's early return).
CurrentIsExecuting ==
  ~ Lost /\ Level \notin strayed => current = (IF Innermost = Main THEN NoFiber ELSE Innermost)

\* suspended_fibers counts the suspended fibers: a block may run in its
\* creator's locals only when nobody else's frames are parked
\* (block_is_reentrant).
SuspendedExact == suspended = Cardinality({f \in Fiber : state[f] = "Suspended"})

\* A green thread is told it may yield exactly when no native iterator of its
\* own fiber would lose its remaining elements (native_iter_depth against
\* resume_native_iter_depth).
CanYieldIsExact ==
  RubyRuns /\ Level \notin strayed => (CanYield <=> Innermost # Main /\ Iters(Above) = 0)

\* A fiber keeps its heap slot while a resume of it is under way: the guard's
\* Drop looks it up by id (FiberStashGuard::fiber_id).
HeldFibersLive == \A f \in OnStack : state[f] # "free"
=============================================================================
