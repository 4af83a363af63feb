---------------------------- MODULE CoopThreads ----------------------------
(***************************************************************************)
(* Mutex (preamble/mutex.rb), Queue and ConditionVariable                  *)
(* (preamble/thread.rb) on top of the cooperative scheduler, and a main    *)
(* program and green threads that use them in every order.                 *)
(*                                                                         *)
(* The program is structured: a thread releases what it locked before its  *)
(* body ends (Mutex#synchronize), waits on a condition variable with a     *)
(* mutex it owns, and its ensure clauses only unlock.                      *)
(***************************************************************************)
EXTENDS CoopCore

CONSTANTS MaxItems,     \* bound on the length of a queue
          MaxDepth      \* bound on @depth, re-entries of a mutex

ASSUME BoundAssumption == MaxItems \in Nat \ {0} /\ MaxDepth \in Nat

VARIABLES
    owner,      \* Mutex @owner
    depth,      \* Mutex @depth
    items,      \* length of Queue @items
    closed,     \* queues whose @closed is set
    holds       \* history: holds[p][m], lock calls of p that returned and have
                \* not been undone by an unlock

lockVars == <<owner, depth, holds>>
queueVars == <<items, closed>>
vars == <<coreVars, lockVars, queueVars>>

Init ==
    /\ CoreInit
    /\ owner = [m \in Mutexes |-> None]
    /\ depth = [m \in Mutexes |-> 0]
    /\ holds = [p \in Procs |-> [m \in Mutexes |-> 0]]
    /\ items = [q \in Queues |-> 0]
    /\ closed = {}

-----------------------------------------------------------------------------
(* Blocking calls: how one parks and how it returns.                       *)

\* __coop_block (and a re-park of the loops around it).
Block(p, op, l, mx, timed, inl, pend) ==
    /\ Suspend(p, Register(sch, p, l, timed), Calling(op, l, mx, timed, inl, pend))
    /\ UNCHANGED <<killed, dying, live>>

\* Mutant: CoopKill is rescued like any other exception.
UnwindsNot(out) == out = "raise" /\ ~Rescues

\* The exception a park ended with is not rescued: CoopKill never is.
Unwinds(out) == out = "kill" \/ (out = "raise" /\ ~Rescues)

\* p's call is over with outcome `out`; an exception nobody rescues unwinds p.
Returns(p, out) ==
    /\ status' = [status EXCEPT ![p] = "run"]
    /\ call' = [call EXCEPT ![p] = Idle]
    /\ dying' = IF Unwinds(out) THEN dying \cup {p} ELSE dying
    /\ UNCHANGED <<sch, stack, killed, live>>

Take(p, m) ==
    /\ owner' = [owner EXCEPT ![m] = p]
    /\ holds' = [holds EXCEPT ![p][m] = @ + 1]
    /\ UNCHANGED depth

\* Mutex#lock, returning with the outcome `out` that is already in flight.
Acquire(p, m, inl, out) ==
    \/ owner[m] = None /\ Take(p, m) /\ Returns(p, out)
    \/ /\ owner[m] = p /\ depth[m] < MaxDepth
       /\ depth' = [depth EXCEPT ![m] = @ + 1]
       /\ holds' = [holds EXCEPT ![p][m] = @ + 1]
       /\ Returns(p, out)
       /\ UNCHANGED owner
    \/ /\ owner[m] \notin {None, p}
       /\ Block(p, "lock", m, None, FALSE, inl, out)
       /\ UNCHANGED lockVars

\* Mutants: unlock wakes nobody; a woken locker does not look again.
UnlockedQuietly(p, m) == sch
MayTakeUnchecked(p, m) == TRUE

\* `until @owner.nil? || @owner.equal?(cur)`
MayTake(p, m) == owner[m] \in {None, p}

\* The scheduler tables after Mutex#unlock: a no-op for a non-owner, a
\* re-entry is undone, otherwise the mutex is free and one waiter wakes.
Unlocked(p, m) == IF owner[m] = p /\ depth[m] = 0 THEN WakeOne(sch, m) ELSE sch

ReleaseLock(p, m) ==
    /\ owner' = IF owner[m] = p /\ depth[m] = 0 THEN [owner EXCEPT ![m] = None] ELSE owner
    /\ depth' = IF owner[m] = p /\ depth[m] > 0 THEN [depth EXCEPT ![m] = @ - 1] ELSE depth
    /\ holds' = IF owner[m] = p THEN [holds EXCEPT ![p][m] = @ - 1] ELSE holds

-----------------------------------------------------------------------------
(* Operations on mutexes, queues and condition variables.                  *)

Lock(p, m) ==
    /\ Acts(p, "lock") /\ Step
    /\ \E inl \in MayInline(p) : Acquire(p, m, inl, "ok")
    /\ UNCHANGED queueVars

TryLock(p, m) ==
    /\ Acts(p, "trylock") /\ Step
    /\ owner[m] = None
    /\ Take(p, m)
    /\ UNCHANGED <<sch, stack, status, call, killed, dying, live, queueVars>>

\* Also by the ensure clause of Mutex#synchronize, so while p unwinds.
Unlock(p, m) ==
    /\ p = Current /\ status[p] = "run"
    /\ owner[m] = p
    /\ ReleaseLock(p, m)
    /\ sch' = Unlocked(p, m)
    /\ UNCHANGED <<stack, status, call, killed, dying, live, slice, queueVars>>

\* Queue#push of an open queue (a closed one raises ClosedQueueError).
Push(p, q) ==
    /\ Acts(p, "push") /\ Step
    /\ q \notin closed /\ items[q] < MaxItems
    /\ items' = [items EXCEPT ![q] = @ + 1]
    /\ sch' = WakeOne(sch, q)
    /\ UNCHANGED <<stack, status, call, killed, dying, live, closed, lockVars>>

\* Queue#pop; without live green threads an empty queue yields nil.
PopParks(q) == items[q] = 0 /\ q \notin closed

Shift(q) == items' = [items EXCEPT ![q] = IF @ = 0 THEN 0 ELSE @ - 1]

Pop(p, q) ==
    /\ Acts(p, "pop") /\ Step
    /\ \/ /\ PopParks(q) /\ live > 0
          /\ \E inl \in MayInline(p) : Block(p, "pop", q, None, FALSE, inl, "ok")
          /\ UNCHANGED items
       \/ /\ ~(PopParks(q) /\ live > 0)
          /\ Shift(q)
          /\ UNCHANGED <<sch, stack, status, call, killed, dying, live>>
    /\ UNCHANGED <<closed, lockVars>>

Clear(p, q) ==
    /\ Acts(p, "clear") /\ Step
    /\ items[q] > 0
    /\ items' = [items EXCEPT ![q] = 0]
    /\ UNCHANGED <<sch, stack, status, call, killed, dying, live, closed, lockVars>>

Close(p, q) ==
    /\ Acts(p, "close") /\ Step
    /\ q \notin closed
    /\ closed' = closed \cup {q}
    /\ sch' = WakeAll(sch, q)
    /\ UNCHANGED <<stack, status, call, killed, dying, live, items, lockVars>>

\* ConditionVariable#wait(mutex, timeout): unlock, then park.  With no mutex
\* (wait_while, wait_until) only the park remains.
Wait(p, cv, mx, timed) ==
    /\ Acts(p, IF timed THEN "waitfor" ELSE "wait") /\ Step
    /\ live > 0
    /\ mx # None => owner[mx] = p
    /\ \E inl \in MayInline(p) :
         LET s == IF mx = None THEN sch ELSE Unlocked(p, mx)
         IN  Suspend(p, Register(s, p, cv, timed), Calling("wait", cv, mx, timed, inl, "ok"))
    /\ IF mx = None THEN UNCHANGED lockVars ELSE ReleaseLock(p, mx)
    /\ UNCHANGED <<killed, dying, live, queueVars>>

Signal(p, cv) ==
    /\ Acts(p, "signal") /\ Step
    /\ sch.waiters[cv] # <<>>
    /\ sch' = WakeOne(sch, cv)
    /\ UNCHANGED <<stack, status, call, killed, dying, live, lockVars, queueVars>>

Broadcast(p, cv) ==
    /\ Acts(p, "broadcast") /\ Step
    /\ sch.waiters[cv] # <<>>
    /\ sch' = WakeAll(sch, cv)
    /\ UNCHANGED <<stack, status, call, killed, dying, live, lockVars, queueVars>>

-----------------------------------------------------------------------------
(* The code after a park: what the woken process does next.                *)

Woken(p, op) == p = Current /\ status[p] = "woken" /\ call[p].op = op

\* A thread starts, or returns from sleep, join, pass or a wait for a
\* descriptor; none of them re-checks what it waited for.  A bare Fiber.yield
\* hands a kill to its caller as a value, and the thread goes on.
Continue(p) ==
    /\ \/ /\ \E op \in {"none", "sleep", "fd", "join", "pass"} : Woken(p, op)
          /\ Returns(p, call[p].res)
       \/ Woken(p, "yield") /\ Returns(p, "ok")
    /\ UNCHANGED <<slice, lockVars, queueVars>>

\* The loop of Mutex#lock: until the mutex is free or p's.
ContinueLock(p) ==
    /\ Woken(p, "lock")
    /\ LET c == call[p] IN
       \/ c.res # "ok" /\ Returns(p, c.res) /\ UNCHANGED lockVars
       \/ /\ c.res = "ok" /\ MayTake(p, c.on)
          /\ Take(p, c.on) /\ Returns(p, c.pend)
       \/ /\ c.res = "ok" /\ ~MayTake(p, c.on)
          /\ Block(p, "lock", c.on, None, FALSE, c.inl, c.pend)
          /\ UNCHANGED lockVars
    /\ UNCHANGED <<slice, queueVars>>

\* The loop of Queue#pop: while the queue is empty and open.
ContinuePop(p) ==
    /\ Woken(p, "pop")
    /\ LET c == call[p] IN
       \/ c.res # "ok" /\ Returns(p, c.res) /\ UNCHANGED items
       \/ c.res = "ok" /\ ~PopParks(c.on) /\ Shift(c.on) /\ Returns(p, "ok")
       \/ /\ c.res = "ok" /\ PopParks(c.on)
          /\ Block(p, "pop", c.on, None, FALSE, c.inl, "ok")
          /\ UNCHANGED items
    /\ UNCHANGED <<slice, closed, lockVars>>

\* The ensure clause of ConditionVariable#wait: re-acquire, even when an
\* exception ended the park.
ContinueWait(p) ==
    /\ Woken(p, "wait")
    /\ LET c == call[p] IN
       IF c.mx = None THEN Returns(p, c.res) /\ UNCHANGED lockVars
       ELSE Acquire(p, c.mx, c.inl, c.res)
    /\ UNCHANGED <<slice, queueVars>>

\* The body of a green thread ends; it holds no mutex.
ThreadEnds(t) ==
    /\ Finish(t)
    /\ \A m \in Mutexes : owner[m] # t
    /\ UNCHANGED <<lockVars, queueVars>>

\* The main program ends, and the process with it.
MainExits ==
    /\ Current = Main /\ status[Main] = "run"
    /\ status' = [status EXCEPT ![Main] = "dead"]
    /\ UNCHANGED <<sch, stack, call, killed, dying, live, slice, lockVars, queueVars>>

Exited == Dead(Main) /\ UNCHANGED vars

-----------------------------------------------------------------------------
CoreOps(p) ==
    \/ \E t \in Threads : Spawn(p, t) \/ Kill(p, t) \/ Wakeup(p, t)
    \/ \E t \in Threads, timed \in BOOLEAN : Join(p, t, timed)
    \/ \E timed \in BOOLEAN : SleepOp(p, timed)
    \/ \E f \in Fds : WaitFd(p, f)
    \/ Pass(p) \/ BareYield(p)

SyncOps(p) ==
    \/ \E m \in Mutexes : Lock(p, m) \/ TryLock(p, m) \/ Unlock(p, m)
    \/ \E q \in Queues : Push(p, q) \/ Pop(p, q) \/ Clear(p, q) \/ Close(p, q)
    \/ \E cv \in CVs : Signal(p, cv) \/ Broadcast(p, cv)
    \/ \E cv \in CVs, mx \in Mutexes \cup {None}, timed \in BOOLEAN : Wait(p, cv, mx, timed)

Next ==
    \/ \E p \in Procs : \/ CoreOps(p) /\ UNCHANGED <<lockVars, queueVars>>
                        \/ SyncOps(p)
                        \/ Continue(p) \/ ContinueLock(p) \/ ContinuePop(p) \/ ContinueWait(p)
    \/ (Scheduler \/ MainPass) /\ UNCHANGED <<lockVars, queueVars>>
    \/ \E t \in Threads : ThreadEnds(t)
    \/ MainExits
    \/ Exited

Spec == Init /\ [][Next]_vars

\* The interpreter always executes its next instruction, and poll(2) returns.
FairSpec == Spec /\ WF_vars(Next)

-----------------------------------------------------------------------------
(* Properties.                                                             *)

Suspended(t) == status[t] \in {"parked", "drive"}

\* A fiber is resumed only when it is fresh or suspended at a park point: never
\* one that is itself inside an inline drive lower on the stack (a FiberError
\* double resume), never one that is done.
ResumesOnlySuspended ==
    [][Len(stack') > Len(stack) => status[Last(stack')] \in {"fresh", "parked"}]_vars

\* A suspended green thread can still be found by whoever must wake it: it is
\* queued, on the waiter list it parked on (and, for a descriptor, in the table
\* that poll watches), or among the sleepers.
NoLostThread ==
    \A t \in Threads : Suspended(t) =>
        \/ Queued(sch, t)
        \/ sch.park[t] # None /\ Contains(sch.waiters[sch.park[t]], t)
           /\ (sch.park[t] \in Fds => sch.park[t] \in sch.fds)
        \/ sch.nap[t] # "no" /\ <<t, sch.nap[t]>> \in sch.sleepers

\* "A thread is parked on exactly one waiter LIST and/or one timed SLEEPER
\* entry": no list or sleeper table names a thread that is not parked there.
ParkedOnOneList ==
    \A t \in Threads :
        /\ \A l \in Lists : Contains(sch.waiters[l], t) => Suspended(t) /\ sch.park[t] = l
        /\ \A k \in {"timed", "forever"} :
               <<t, k>> \in sch.sleepers => Suspended(t) /\ sch.nap[t] = k

\* A thread is at most once in the run queue, and never while it executes: a
\* second entry would resume a later park that nobody woke.
RunqExact ==
    /\ \A i, j \in DOMAIN sch.runq : sch.runq[i] = sch.runq[j] => i = j
    /\ \A i \in DOMAIN sch.runq :
         LET t == sch.runq[i]
         IN  status[t] \in {"fresh", "parked", "drive", "dead"}

\* A kill of a suspended thread is not lost before the thread is resumed with it:
\* the thread is in the run queue, wherever it was parked.
KillIsPending == \A t \in killed : Suspended(t) /\ Queued(sch, t)

\* Mutual exclusion as the callers see it: whoever got through Mutex#lock more
\* often than it undid is the owner, with that depth, and nobody else is inside.
MutualExclusion ==
    \A m \in Mutexes, p \in Procs :
        holds[p][m] = IF owner[m] = p THEN depth[m] + 1 ELSE 0

\* p has been woken inside its call and has yet to re-check.
HasWake(p) == IF p = Main THEN ~Contains(sch.waiters[call[p].on], Main)
              ELSE Queued(sch, p) \/ status[p] = "woken"
Contender(p, op, l) ==
    /\ status[p] \in {"parked", "drive", "woken"} /\ p \notin killed
    /\ call[p].op = op /\ call[p].on = l /\ call[p].res = "ok" /\ HasWake(p)
WaitsOn(l) == \E p \in Procs : Suspended(p) /\ Contains(sch.waiters[l], p)

\* No lost wake-up on a mutex: while it is free and a process is parked in
\* Mutex#lock, some process woken for it has yet to re-check.
NoStrandedLocker ==
    ~Dead(Main) => \A m \in Mutexes :
        owner[m] = None /\ WaitsOn(m) => \E p \in Procs : Contender(p, "lock", m)

\* No lost wake-up on a queue: while it has items, or is closed, and a process
\* is parked in Queue#pop, some process woken for it has yet to re-check.
NoStrandedPopper ==
    ~Dead(Main) => \A q \in Queues :
        (items[q] > 0 \/ q \in closed) /\ WaitsOn(q) => \E p \in Procs : Contender(p, "pop", q)

\* Thread#join without a limit returns normally only when the thread is done.
JoinMeansDone ==
    \A p \in Procs :
        status[p] = "woken" /\ call[p].op = "join" /\ ~call[p].timed /\ call[p].res = "ok"
            => Dead(call[p].on)

\* "No live threads left. Deadlock?" is only raised to MAIN when it is one: no
\* green thread is runnable, sleeps with a deadline or waits for a descriptor.
DeadlockIsReal ==
    status[Main] = "woken" /\ call[Main].res = "raise" =>
        \A t \in Threads : ~Queued(sch, t) /\ sch.nap[t] # "timed" /\ sch.park[t] \notin Fds

\* When nobody can wake anybody any more, MAIN's scheduler step raises instead
\* of blocking in poll(2).
NobodyWakes ==
    /\ sch.runq = <<>> /\ ~MainMayGiveUp
    /\ \A t \in Threads : Suspended(t) => sch.park[t] \notin Fds /\ sch.nap[t] # "timed"
DeadlockIsDetected ==
    Drives(Main) /\ ~MainWoken /\ NobodyWakes => PollWouldRaise(Main, sch)

\* A queued green thread gets its turn, as long as the main program stays in
\* its scheduler loop.
RunnableRuns ==
    \A t \in Threads : Queued(sch, t) ~> (~Queued(sch, t) \/ Dead(Main))

\* Thread#kill of a thread parked in __coop_yield_parked ends it: its park point
\* raises, its ensure clauses run, and it finishes.  (One that is suspended in a bare
\* Fiber.yield gets the kill as the value of the call and may live on.)
KilledDies ==
    \A t \in Threads :
        t \in killed /\ call[t].op # "yield" ~> (Dead(t) \/ Dead(Main))
=============================================================================
