------------------------------ MODULE CoopCore ------------------------------
(***************************************************************************)
(* The cooperative green-thread scheduler of preamble/thread.rb.           *)
(*                                                                         *)
(* One OS thread runs everything.  A green thread runs inside a fiber until *)
(* it parks (Fiber.yield) or its body ends; the MAIN program has no fiber: *)
(* when it blocks it runs the scheduler loop itself until what it waits for *)
(* has happened.  A green thread that parks beneath a native iterator frame *)
(* cannot yield either and runs the same kind of loop on top of its own    *)
(* stack (an inline park).  `stack` is that nesting: its last element      *)
(* executes, every other one is inside a scheduler loop.                   *)
(*                                                                         *)
(* This module has the scheduler; CoopThreads adds Mutex, Queue and        *)
(* ConditionVariable and the next-state relation.                          *)
(***************************************************************************)
EXTENDS Integers, Sequences, FiniteSets, SequencesExt

CONSTANTS
    Threads, Mutexes, Queues, CVs, Fds,  \* the objects of the program
    Main,       \* the main program
    Stale,      \* a token that MAIN left in a waiter list when it raised
    None,
    MainOps, ThreadOps,  \* the operations MAIN and the green threads use
    Inline,     \* whether a park may sit beneath a native iterator frame
    Rescues,    \* whether a program rescues ThreadError and goes on
    Slice       \* operations between two park points (the bound on user code)

ASSUME ObjectAssumption ==
    /\ IsFiniteSet(Threads) /\ IsFiniteSet(Fds)
    /\ Main \notin Threads /\ Stale \notin Threads \cup {Main}
    /\ None \notin Mutexes \cup Queues \cup CVs \cup Fds \cup Threads \cup {Main}
    /\ Mutexes \cap (Queues \cup CVs \cup Fds \cup Threads) = {}
    /\ Queues \cap (CVs \cup Fds \cup Threads) = {}
    /\ CVs \cap (Fds \cup Threads) = {} /\ Fds \cap Threads = {}
    /\ Inline \subseteq BOOLEAN /\ Inline # {} /\ Rescues \in BOOLEAN
    /\ Slice \in Nat \ {0}

Procs == Threads \cup {Main}

\* Everything that has a waiter list; @joiners of t is the list named t.
Lists == Mutexes \cup Queues \cup CVs \cup Fds \cup Threads

VARIABLES
    sch,        \* the class-level tables of Thread, see CoreInit
    stack,      \* who is executing, on top of which scheduler loops
    status,     \* "unborn" | "fresh" | "run" | "woken" | "parked" | "drive" | "dead"
    call,       \* call[p]: the blocking call p is in
    killed,     \* threads whose @resume_arg is :__coop_kill
    dying,      \* unwinding a CoopKill, or a ThreadError nobody rescues
    live,       \* @coop_live
    slice       \* operations left before the executing code must park

coreVars == <<sch, stack, status, call, killed, dying, live, slice>>

\* op on object `on` (mx: the mutex of a ConditionVariable#wait), with a
\* deadline or not, beneath a native frame or not.  `res` is how the park ended:
\* "ok", "raise" (ThreadError) or "kill" (CoopKill); `pend` is the exception in
\* flight when the call is made by an `ensure` clause, "ok" if none.
Calling(op, on, mx, timed, inl, pend) ==
    [op |-> op, on |-> on, mx |-> mx, timed |-> timed, inl |-> inl,
     res |-> "ok", pend |-> pend]

Idle == Calling("none", None, None, FALSE, FALSE, "ok")

\* Call c with the outcome of its park.
Ended(c, res) ==
    [op |-> c.op, on |-> c.on, mx |-> c.mx, timed |-> c.timed, inl |-> c.inl,
     res |-> res, pend |-> c.pend]

\* sch: runq is @coop_runq, waiters the waiter lists, park and nap each thread's
\* @park_ref and @sleep_ref, sleepers @coop_sleepers, fds the keys of
\* @coop_fd_r and @coop_fd_w.
CoreInit ==
    /\ sch = [runq |-> <<>>, waiters |-> [l \in Lists |-> <<>>],
              park |-> [t \in Threads |-> None], nap |-> [t \in Threads |-> "no"],
              sleepers |-> {}, fds |-> {}]
    /\ stack = <<Main>>
    /\ status = [p \in Procs |-> IF p = Main THEN "run" ELSE "unborn"]
    /\ call = [p \in Procs |-> Idle]
    /\ killed = {} /\ dying = {} /\ live = 0 /\ slice = Slice

-----------------------------------------------------------------------------
(* Park bookkeeping: functions from scheduler tables to scheduler tables.  *)

Current == Last(stack)
Dead(t) == status[t] = "dead"
Queued(s, t) == Contains(s.runq, t)

\* Tables s with another run queue, another list l, another park of t, other
\* descriptors.
WithRunq(s, q) ==
    [runq |-> q, waiters |-> s.waiters, park |-> s.park, nap |-> s.nap,
     sleepers |-> s.sleepers, fds |-> s.fds]
WithList(s, l, w) ==
    [runq |-> s.runq, waiters |-> [s.waiters EXCEPT ![l] = w], park |-> s.park,
     nap |-> s.nap, sleepers |-> s.sleepers, fds |-> s.fds]
WithPark(s, t, l, kind, sleepers) ==
    [runq |-> s.runq, waiters |-> s.waiters, park |-> [s.park EXCEPT ![t] = l],
     nap |-> [s.nap EXCEPT ![t] = kind], sleepers |-> sleepers, fds |-> s.fds]
WithFds(s, F) ==
    [runq |-> s.runq, waiters |-> s.waiters, park |-> s.park, nap |-> s.nap,
     sleepers |-> s.sleepers, fds |-> F]

Enqueue(s, t) == WithRunq(s, Append(s.runq, t))

\* Array#delete: every entry that is e goes.
Delete(w, e) ==
    LET kept[i \in 0..Len(w)] ==
            IF i = 0 THEN <<>>
            ELSE IF w[i] = e THEN kept[i - 1] ELSE Append(kept[i - 1], w[i])
    IN  kept[Len(w)]

Unlisted(s, t) ==
    LET l == s.park[t]
    IN  IF l = None THEN s ELSE WithList(s, l, Delete(s.waiters[l], t))

\* Mutant: a wake leaves the sleeper entry behind.
ClearParkKeepsSleeper(s, t) == WithPark(Unlisted(s, t), t, None, "no", s.sleepers)

\* __coop_clear_park: leave the waiter list and the sleeper table.
ClearPark(s, t) ==
    WithPark(Unlisted(s, t), t, None, "no", s.sleepers \ {<<t, s.nap[t]>>})

\* Mutant: queued again without looking whether it is queued.
MakeRunnableTwice(s, t) ==
    IF Dead(t) THEN s ELSE Enqueue(ClearPark(s, t), t)

\* __coop_make_runnable
MakeRunnable(s, t) ==
    IF Dead(t) THEN s
    ELSE LET c == ClearPark(s, t)
         IN  IF Queued(c, t) THEN c ELSE Enqueue(c, t)

\* __coop_wake_one: drop dead threads off the front, wake the first entry left;
\* for a token of MAIN, being removed is the wake.
WakeOne(s, l) ==
    LET w == s.waiters[l]
        i == SelectInSeq(w, LAMBDA e : e \notin Threads \/ ~Dead(e))
        rest == WithList(s, l, IF i = 0 THEN <<>> ELSE SubSeq(w, i + 1, Len(w)))
    IN  IF i = 0 \/ w[i] \notin Threads THEN rest ELSE MakeRunnable(rest, w[i])

WakeEntry(s, e) == IF e \in Threads THEN MakeRunnable(s, e) ELSE s

\* Mutant: a wake of one instead of all.
WakeAllOnlyOne(s, l) == WakeOne(s, l)

\* __coop_wake_all and __coop_wake_joiners: every entry in order.
WakeAll(s, l) ==
    LET w == s.waiters[l]
        woken[i \in 0..Len(w)] == IF i = 0 THEN s ELSE WakeEntry(woken[i - 1], w[i])
    IN  WithList(woken[Len(w)], l, <<>>)

\* __coop_block, __coop_wait_fd, __coop_join: register on a list, and with a
\* deadline also as a sleeper; MAIN leaves a token instead (none when it joins
\* a thread or waits for an fd: its loop tests the condition itself).
Register(s, p, l, timed) ==
    IF p = Main
    THEN IF l \in Threads \cup Fds THEN s
         ELSE WithList(s, l, Append(s.waiters[l], Main))
    ELSE LET listed == WithList(s, l, Append(s.waiters[l], p))
             parked == IF timed
                       THEN WithPark(listed, p, l, "timed", s.sleepers \cup {<<p, "timed">>})
                       ELSE WithPark(listed, p, l, "no", s.sleepers)
         IN  IF l \in Fds THEN WithFds(parked, s.fds \cup {l}) ELSE parked

\* Mutants: a bare yield loses the thread; a parked thread is queued too; the
\* yielding thread goes first.
RequeueNever(s, t) == s
RequeueParked(s, t) ==
    IF ~Queued(s, t) THEN Enqueue(s, t) ELSE s
RequeueFirst(s, t) ==
    IF s.park[t] = None /\ s.nap[t] = "no" /\ ~Queued(s, t)
    THEN WithRunq(s, <<t>> \o s.runq) ELSE s

\* The tail of __coop_run after a yield: a thread that parked nowhere and is
\* not queued is queued again.
Requeue(s, t) ==
    IF s.park[t] = None /\ s.nap[t] = "no" /\ ~Queued(s, t)
    THEN Enqueue(s, t) ELSE s

\* __coop_yield_parked (or MAIN entering its loop) with tables s: an inline
\* park drives the scheduler from here, otherwise the fiber yields to the
\* loop below.
Suspend(p, s, c) ==
    /\ call' = [call EXCEPT ![p] = c]
    /\ IF p = Main \/ c.inl
       THEN /\ status' = [status EXCEPT ![p] = "drive"]
            /\ sch' = s
            /\ UNCHANGED stack
       ELSE /\ status' = [status EXCEPT ![p] = "parked"]
            /\ sch' = Requeue(s, p)
            /\ stack' = Front(stack)

\* The blocking call of p is over, with outcome res: "ok", "raise" for a
\* ThreadError, "kill" for a CoopKill.
Wakes(p, res) ==
    /\ status' = [status EXCEPT ![p] = "woken"]
    /\ call' = [call EXCEPT ![p] = Ended(call[p], res)]
    /\ slice' = Slice

-----------------------------------------------------------------------------
(* Operations of the executing code.                                       *)

\* p executes, may use operation `op` here, and has not been told to die.
Acts(p, op) ==
    /\ p = Current /\ status[p] = "run" /\ p \notin dying
    /\ slice > 0
    /\ op \in (IF p = Main THEN MainOps ELSE ThreadOps)

MayInline(p) == IF p = Main THEN {FALSE} ELSE Inline
Step == slice' = slice - 1

\* Thread.new: __coop_init and __coop_register.
Spawn(p, t) ==
    /\ Acts(p, "spawn")
    /\ status[t] = "unborn"
    /\ status' = [status EXCEPT ![t] = "fresh"]
    /\ live' = live + 1
    /\ sch' = Enqueue(sch, t)
    /\ UNCHANGED <<stack, call, killed, dying, slice>>

\* Kernel#sleep while green threads live: __coop_sleep.
SleepOp(p, timed) ==
    /\ Acts(p, IF timed THEN "sleepfor" ELSE "sleep") /\ Step
    /\ live > 0
    /\ p = Main => timed          \* MAIN's untimed sleep returns at once
    /\ \E inl \in MayInline(p) :
         LET kind == IF timed THEN "timed" ELSE "forever"
             s == IF p = Main THEN sch
                  ELSE WithPark(sch, p, None, kind, sch.sleepers \cup {<<p, kind>>})
         IN  Suspend(p, s, Calling("sleep", None, None, timed, inl, "ok"))
    /\ UNCHANGED <<killed, dying, live>>

\* IO on a descriptor that is not ready: __coop_wait_fd.
WaitFd(p, f) ==
    /\ Acts(p, "fd") /\ Step
    /\ live > 0
    /\ \E inl \in MayInline(p) :
         Suspend(p, Register(sch, p, f, FALSE), Calling("fd", f, None, FALSE, inl, "ok"))
    /\ UNCHANGED <<killed, dying, live>>

\* Thread#join and #value: __coop_join of a thread that is not done.
Join(p, t, timed) ==
    /\ Acts(p, IF timed THEN "joinfor" ELSE "join") /\ Step
    /\ t # p /\ status[t] \notin {"unborn", "dead"}
    /\ \E inl \in MayInline(p) :
         Suspend(p, Register(sch, p, t, timed), Calling("join", t, None, timed, inl, "ok"))
    /\ UNCHANGED <<killed, dying, live>>

\* Thread.pass of a green thread.
Pass(p) ==
    /\ Acts(p, "pass") /\ Step
    /\ p # Main
    /\ \E inl \in MayInline(p) :
         Suspend(p, Enqueue(sch, p), Calling("pass", None, None, FALSE, inl, "ok"))
    /\ UNCHANGED <<killed, dying, live>>

\* A bare Fiber.yield in the body of a green thread, outside any park.
BareYield(p) ==
    /\ Acts(p, "yield") /\ Step
    /\ p # Main
    /\ Suspend(p, sch, Calling("yield", None, None, FALSE, FALSE, "ok"))
    /\ UNCHANGED <<killed, dying, live>>

\* __coop_finish_thread: the joiners of t wake.
FinishThread(s, t) == WakeAll(s, t)

Ends(t) ==
    /\ status' = [status EXCEPT ![t] = "dead"]
    /\ live' = live - 1
    /\ sch' = FinishThread(sch, t)

\* The body of t is over (returned, raised, or a CoopKill unwound it).
Finish(t) ==
    /\ t = Current /\ t \in Threads /\ status[t] = "run"
    /\ Ends(t)
    /\ stack' = Front(stack)
    /\ dying' = dying \ {t}
    /\ UNCHANGED <<call, killed, slice>>

\* Mutant: the thread is told, but not woken.
KillParkedQuietly(t) == killed' = killed \cup {t} /\ UNCHANGED sch

\* Thread#kill of a thread that has started and does not execute.
KillParked(t) ==
    /\ killed' = killed \cup {t}
    /\ sch' = MakeRunnable(sch, t)

\* Thread#kill: __coop_kill.
Kill(p, t) ==
    /\ Acts(p, "kill") /\ Step
    /\ \/ /\ status[t] = "fresh"
          /\ Ends(t)
          /\ UNCHANGED <<killed, dying>>
       \/ /\ t = p
          /\ dying' = dying \cup {t}
          /\ UNCHANGED <<sch, status, killed, live>>
       \/ /\ t # p /\ status[t] \notin {"unborn", "fresh", "dead"}
          /\ KillParked(t)
          /\ UNCHANGED <<status, dying, live>>
    /\ UNCHANGED <<stack, call>>

\* Thread#wakeup and #run of a parked thread.
Wakeup(p, t) ==
    /\ Acts(p, "wakeup") /\ Step
    /\ t # p /\ status[t] \notin {"unborn", "fresh", "dead"}
    /\ sch.park[t] # None \/ sch.nap[t] # "no"
    /\ sch' = MakeRunnable(sch, t)
    /\ UNCHANGED <<stack, status, call, killed, dying, live>>

-----------------------------------------------------------------------------
(* The scheduler loops.                                                    *)

\* __coop_run of t, taken off the run queue (tables s): the fiber is resumed
\* with @resume_arg, whatever state it is in.
Resume(t, s) ==
    /\ sch' = s
    /\ stack' = Append(stack, t)
    /\ killed' = killed \ {t}
    /\ Wakes(t, IF t \in killed THEN "kill" ELSE "ok")
    /\ UNCHANGED <<dying, live>>

Shifted == WithRunq(sch, Tail(sch.runq))

\* __coop_poll with nothing runnable, called from p's loop with tables s:
\* descriptors in R become ready, sleepers in E expire.
PollFds(p, s) == s.fds \cup (IF p = Main /\ call[p].op = "fd" THEN {call[p].on} ELSE {})
TimedSleepers(s) == {t \in Threads : <<t, "timed">> \in s.sleepers}

\* Mutant: timed sleepers are not a reason to block.
PollWouldRaiseEarly(p, s) == PollFds(p, s) = {} /\ ~(p = Main /\ call[p].timed)

PollWouldRaise(p, s) ==
    PollFds(p, s) = {} /\ TimedSleepers(s) = {} /\ ~(p = Main /\ call[p].timed)
FdReady(s, f) == WakeAll(WithFds(s, s.fds \ {f}), f)

\* The descriptors fs, in the order of the answer, and then the sleepers ts.
AllReady(s, fs) ==
    LET ready[i \in 0..Len(fs)] == IF i = 0 THEN s ELSE FdReady(ready[i - 1], fs[i])
    IN  ready[Len(fs)]
AllExpired(s, ts) ==
    LET expired[i \in 0..Len(ts)] ==
            IF i = 0 THEN s ELSE MakeRunnable(expired[i - 1], ts[i])
    IN  expired[Len(ts)]

Poll(p, s) ==
    /\ \E R \in SUBSET s.fds, E \in SUBSET TimedSleepers(s) :
         /\ R \cup E # {}
         /\ \E fs \in SetToSeqs(R), ts \in SetToSeqs(E) :
              sch' = AllExpired(AllReady(s, fs), ts)
    /\ UNCHANGED <<stack, status, call, killed, dying, live, slice>>

\* The condition of MAIN's loop: its token is gone, the thread it joins is
\* done; Thread.pass takes one scheduler step.
MainWoken ==
    LET c == call[Main]
    IN  CASE c.op = "join" -> Dead(c.on)
          [] c.op \in {"lock", "pop", "wait"} -> ~Contains(sch.waiters[c.on], Main)
          [] c.op = "pass" -> TRUE
          [] OTHER -> FALSE

\* Time or the descriptor may also end MAIN's loop; a deadline takes MAIN's
\* token back.
MainMayGiveUp == call[Main].timed \/ call[Main].op = "fd"

Drives(p) == p = Current /\ status[p] = "drive"

MainWakes ==
    /\ Drives(Main)
    /\ \/ MainWoken /\ UNCHANGED sch
       \/ /\ ~MainWoken /\ MainMayGiveUp
          /\ sch' = IF call[Main].op = "wait"
                    THEN WithList(sch, call[Main].on, Delete(sch.waiters[call[Main].on], Main))
                    ELSE sch
    /\ Wakes(Main, "ok")
    /\ UNCHANGED <<stack, killed, dying, live>>

\* Mutant: a thread killed while queued is resumed.
SkipsNone(t) == FALSE

\* `return if t.__coop_done?`: killed while queued.
Skips(t) == Dead(t)

\* __coop_schedule_step with a runnable thread.
ScheduleStep ==
    /\ Drives(Main) /\ ~MainWoken
    /\ sch.runq # <<>>
    /\ IF Skips(Head(sch.runq))
       THEN sch' = Shifted /\ UNCHANGED <<stack, status, call, killed, dying, live, slice>>
       ELSE Resume(Head(sch.runq), Shifted)

\* __coop_schedule_step with none: block in poll.
SchedulePoll ==
    /\ Drives(Main) /\ ~MainWoken
    /\ sch.runq = <<>>
    /\ Poll(Main, sch)

\* "No live threads left. Deadlock?": MAIN's token stays in its list.
DeadlockError ==
    /\ Drives(Main) /\ ~MainWoken
    /\ sch.runq = <<>> /\ PollWouldRaise(Main, sch)
    /\ sch' = IF call[Main].op \in {"lock", "pop", "wait"}
              THEN WithList(sch, call[Main].on, ReplaceAll(sch.waiters[call[Main].on], Main, Stale))
              ELSE sch
    /\ Wakes(Main, "raise")
    /\ UNCHANGED <<stack, killed, dying, live>>

\* Thread.pass of MAIN: one scheduler step if something is runnable.
MainPass ==
    /\ Acts(Main, "pass")
    /\ sch.runq # <<>> /\ live > 0
    /\ IF Skips(Head(sch.runq))
       THEN /\ sch' = Shifted /\ Step
            /\ UNCHANGED <<stack, status, call, killed, dying, live>>
       ELSE /\ LET t == Head(sch.runq) IN
               /\ sch' = Shifted
               /\ stack' = Append(stack, t)
               /\ killed' = killed \ {t}
               /\ status' = [status EXCEPT ![t] = "woken", ![Main] = "drive"]
               /\ call' = [call EXCEPT
                             ![t] = Ended(call[t], IF t \in killed THEN "kill" ELSE "ok"),
                             ![Main] = Calling("pass", None, None, FALSE, FALSE, "ok")]
               /\ slice' = Slice
            /\ UNCHANGED <<dying, live>>

\* __coop_wait_inline(p), by the head of the run queue.
InlineHead(p) == Drives(p) /\ p # Main /\ sch.runq # <<>>

InlineWakes(p) ==       \* p itself: the park is over
    /\ InlineHead(p) /\ Head(sch.runq) = p
    /\ sch' = Shifted
    /\ killed' = killed \ {p}
    /\ Wakes(p, IF p \in killed THEN "kill" ELSE "ok")
    /\ UNCHANGED <<stack, dying, live>>

InlineDropsDead(p) ==
    /\ InlineHead(p) /\ Head(sch.runq) # p /\ Dead(Head(sch.runq))
    /\ sch' = Shifted
    /\ UNCHANGED <<stack, status, call, killed, dying, live, slice>>

\* Mutants: a driving thread is taken for a suspended one; its wake is dropped.
PinnedNever(t) == FALSE
RotatedAway == WithRunq(sch, Tail(sch.runq))

\* A thread that is itself driving, lower on the stack, must not be resumed.
Pinned(t) == status[t] = "drive"
Rotated == WithRunq(sch, Append(Tail(sch.runq), Head(sch.runq)))
OnlyPinned(p) == \A i \in DOMAIN sch.runq : sch.runq[i] # p /\ Pinned(sch.runq[i])

InlineRotates(p) ==
    /\ InlineHead(p) /\ Head(sch.runq) # p /\ Pinned(Head(sch.runq))
    /\ \/ /\ ~OnlyPinned(p)
          /\ sch' = Rotated
          /\ UNCHANGED <<stack, status, call, killed, dying, live, slice>>
       \/ OnlyPinned(p) /\ Poll(p, Rotated)

InlineRuns(p) ==
    /\ InlineHead(p)
    /\ LET t == Head(sch.runq) IN t # p /\ ~Dead(t) /\ ~Pinned(t) /\ Resume(t, Shifted)

InlinePoll(p) == Drives(p) /\ p # Main /\ sch.runq = <<>> /\ Poll(p, sch)

\* Nothing can wake p while its loop runs: ThreadError.  The park
\* registration of p stays as it is.
InlineError(p) ==
    /\ Drives(p) /\ p # Main
    /\ \/ sch.runq = <<>> /\ UNCHANGED sch
       \/ sch.runq # <<>> /\ OnlyPinned(p) /\ sch' = Rotated
    /\ PollWouldRaise(p, sch)
    /\ Wakes(p, "raise")
    /\ UNCHANGED <<stack, killed, dying, live>>

Scheduler ==
    \/ MainWakes \/ ScheduleStep \/ SchedulePoll \/ DeadlockError
    \/ \E p \in Threads : \/ InlineWakes(p) \/ InlineDropsDead(p) \/ InlineRotates(p)
                          \/ InlineRuns(p) \/ InlinePoll(p) \/ InlineError(p)
=============================================================================
