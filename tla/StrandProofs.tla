----------------------------- MODULE StrandProofs -----------------------------
(***************************************************************************)
(* No wake-up of a mutex or of a queue is lost.                            *)
(*                                                                         *)
(* For programs without inline parks and without Thread#kill, in which no  *)
(* ThreadError is rescued: a kill takes a woken thread away from what it   *)
(* was woken for, and a rescued ThreadError leaves the stale token of MAIN *)
(* in the list it waited on, which then takes a wake-up.                   *)
(***************************************************************************)
EXTENDS CoopProofs

Objects == Mutexes \cup Queues

\* p is in a call on object l, and no exception is to end it.
On(p, l) ==
    /\ status[p] \in {"parked", "drive", "woken"}
    /\ call[p].on = l /\ call[p].res = "ok"

Waits(p, l) == Contains(sch.waiters[l], p)
Waiting(l) == {p \in Procs : Waits(p, l)}

\* p has been woken for l and has yet to look again.
Contends(p, l) == On(p, l) /\ ~Waits(p, l)
Contending(l) == {p \in Procs : Contends(p, l)}

-----------------------------------------------------------------------------
(* The inductive invariant, in parts.                                      *)

\* A parked thread waits for what its call names.
ThreadSeats ==
    \A t \in Threads : status[t] = "parked" =>
        /\ sch.park[t] \in {None, call[t].on} /\ call[t].res = "ok"
        /\ call[t].op \in {"lock", "pop"} => sch.nap[t] = "no"

\* Nobody waits for a mutex or a queue with a limit.
NoLimit == \A p \in Procs : call[p].op \in {"lock", "pop"} => ~call[p].timed

\* MAIN has one token, in the list of the object it waits for.
MainSeat ==
    \A l \in Objects : /\ Waits(Main, l) => status[Main] = "drive" /\ On(Main, l)
                       /\ Once(sch.waiters[l])

Seats == ThreadSeats /\ NoLimit /\ MainSeat

\* MAIN was told of a deadlock and unwinds.
Gone ==
    \/ /\ status[Main] = "woken" /\ call[Main].res = "raise"
       /\ call[Main].op \in {"lock", "pop"}
    \/ status[Main] = "run" /\ Main \in dying

\* Only then is there a stale token, and not at a mutex of MAIN.
StaleSeat ==
    \A l \in Objects : Contains(sch.waiters[l], Stale) =>
        Gone /\ (l \in Mutexes => owner[l] # Main)

\* A free mutex that somebody waits for has been offered to somebody.
Offered(m) == owner[m] = None /\ Waiting(m) # {} => Contending(m) # {}

\* A queue that somebody waits at is open, and every item is for somebody.
Fetched(q) == Waiting(q) # {} => q \notin closed /\ items[q] <= Cardinality(Contending(q))

Steadfast ==
    /\ Seats /\ StaleSeat
    /\ \A m \in Mutexes : Offered(m)
    /\ \A q \in Queues : Fetched(q)

-----------------------------------------------------------------------------
(* What a step leaves alone.                                               *)

\* The invariant of CoopProofs, and nobody is told to die.
Base == Inv /\ Exact(sch, status) /\ NoInline /\ killed = {}

\* p does not start to wait for l and does not forget that it was woken.
Keeps(p, l) ==
    /\ Waits(p, l)' => Waits(p, l) /\ status'[p] = status[p]
    /\ On(p, l) => On(p, l)' \/ (Waits(p, l) /\ ~Waits(p, l)')

\* p, which executes, waits for l now or looks again.
Touches(p, l) ==
    /\ Runs(p)
    /\ On(p, l) \/ (status'[p] # "run" /\ call'[p].on = l)
    /\ Waits(p, l)' => On(p, l)' /\ (p = Main => status'[p] = "drive")

\* The types, and where the processes and the objects are.
LEMMA BaseFacts ==
  ASSUME Base
  PROVE  /\ SchedInv /\ sch \in Sch /\ status \in [Procs -> Statuses] /\ call \in [Procs -> Calls]
         /\ \A p \in Procs : CallFits(call[p])
         /\ Main \in Procs /\ Threads \subseteq Procs /\ Main \notin Threads
         /\ Stale \notin Procs /\ None \notin Lists /\ Objects \subseteq Lists \ Threads
         /\ \A p \in Procs : call[p].on \in Mutexes <=> call[p].op = "lock"
         /\ \A p \in Procs : call[p].on \in Queues <=> call[p].op = "pop"
<1>1. SchedInv
  BY CoreSched DEF Base, Inv
<1>2. /\ sch \in Sch /\ status \in [Procs -> Statuses] /\ call \in [Procs -> Calls]
      /\ \A p \in Procs : CallFits(call[p])
  BY <1>1 DEF SchedInv, SchedOK
<1>3. /\ Main \in Procs /\ Threads \subseteq Procs /\ Main \notin Threads /\ Stale \notin Procs
      /\ None \notin Lists /\ Objects \subseteq Lists \ Threads
  BY ObjectAssumption DEF Procs, Lists, Objects
<1>4. \A p \in Procs : /\ call[p].on \in Mutexes <=> call[p].op = "lock"
                       /\ call[p].on \in Queues <=> call[p].op = "pop"
  BY <1>2, ObjectAssumption DEF CallFits, Calls
<1> QED BY <1>1, <1>2, <1>3, <1>4

\* Whoever waits is parked there, and a thread that is not parked waits nowhere.
LEMMA WaitersSit ==
  ASSUME Base, Seats, NEW p \in Procs, NEW l \in Objects, Waits(p, l)
  PROVE  /\ On(p, l) /\ status[p] \in {"parked", "drive"}
         /\ p \in Threads => status[p] = "parked" /\ sch.park[p] = l /\ ~Queued(sch, p)
<1>1. CASE p = Main
  BY <1>1, BaseFacts DEF Seats, MainSeat
<1>2. CASE p \in Threads
  <2>1. l \in Lists /\ None \notin Lists
    BY BaseFacts
  <2>2. status[p] = "parked" /\ sch.park[p] = l
    BY <1>2, <2>1 DEF Base, Exact, Waits
  <2>3. ~Queued(sch, p)
    BY <1>2, <2>1, <2>2 DEF Base, Exact
  <2>4. call[p].on = l /\ call[p].res = "ok"
    BY <1>2, <2>1, <2>2 DEF Seats, ThreadSeats
  <2> QED BY <2>2, <2>3, <2>4 DEF On
<1> QED BY <1>1, <1>2 DEF Procs

\* A wake puts nobody on a list.
LEMMA WokeLists ==
  ASSUME NEW s, NEW r, NEW W, Woke(s, r, W), NEW l \in Lists, NEW p \in Procs
  PROVE  Contains(r.waiters[l], p) => Contains(s.waiters[l], p)
BY DEF Woke, Fewer, Shorter, Procs

\* Of the lists of mutexes and queues MAIN changes none, or puts a stale token
\* for its own where it waited.
LEMMA TokenMoves ==
  ASSUME Base
  PROVE  /\ MainWakes => \A l \in Objects : sch'.waiters[l] = sch.waiters[l]
         /\ DeadlockError => \A l \in Objects :
              \/ /\ sch'.waiters[l] = sch.waiters[l]
                 /\ call[Main].on # l
              \/ /\ call[Main].on = l /\ ~Contains(sch'.waiters[l], Main)
                 /\ \A t \in Threads : Contains(sch'.waiters[l], t) <=> Contains(sch.waiters[l], t)
<1>1. /\ sch \in Sch /\ CallFits(call[Main]) /\ Main \in Procs /\ Main \notin Threads
      /\ Stale # Main /\ Stale \notin Threads /\ Objects \subseteq Lists
      /\ call[Main].on \in Objects => call[Main].op \in {"lock", "pop"}
  BY BaseFacts DEF Procs, Objects
<1>2. CVs \cap Objects = {} /\ CVs \subseteq Lists
  BY ObjectAssumption DEF Objects, Lists
<1>3. ASSUME MainWakes, NEW l \in Objects PROVE sch'.waiters[l] = sch.waiters[l]
  <2>1. CASE sch' = sch
    BY <2>1
  <2>2. CASE sch' # sch
    <3>1. /\ call[Main].op = "wait"
          /\ sch' = WithList(sch, call[Main].on, Delete(sch.waiters[call[Main].on], Main))
      BY <1>3, <2>2 DEF MainWakes
    <3>2. call[Main].on \in CVs
      BY <1>1, <3>1 DEF CallFits
    <3>3. PICK k, w : k = call[Main].on /\ w = Delete(sch.waiters[call[Main].on], Main)
      OBVIOUS
    <3>4. sch'.waiters = [sch.waiters EXCEPT ![k] = w] /\ k # l
      BY <1>2, <3>1, <3>2, <3>3 DEF WithList
    <3> QED BY <1>1, <3>4 DEF Sch
  <2> QED BY <2>1, <2>2
<1>4. ASSUME DeadlockError, NEW l \in Objects
      PROVE  \/ /\ sch'.waiters[l] = sch.waiters[l]
                /\ call[Main].on # l
             \/ /\ call[Main].on = l /\ ~Contains(sch'.waiters[l], Main)
                /\ \A t \in Threads : Contains(sch'.waiters[l], t) <=> Contains(sch.waiters[l], t)
  <2>1. PICK k, w : k = call[Main].on /\ w = sch.waiters[k]
    OBVIOUS
  <2>2. CASE call[Main].op \in {"lock", "pop", "wait"}
    <3>1. k \in Lists /\ w \in Seq(Entries)
      BY <1>1, <2>1, <2>2 DEF CallFits, Lists, Sch
    <3>2. PICK u : u = ReplaceAll(w, Main, Stale)
      OBVIOUS
    <3>3. u \in Seq(Entries) /\ Len(u) = Len(w)
          /\ \A i \in 1..Len(w) : u[i] = IF w[i] = Main THEN Stale ELSE w[i]
      BY <3>1, <3>2 DEF ReplaceAll, Entries
    <3>4. ~Contains(u, Main) /\ \A t \in Threads : Contains(u, t) <=> Contains(w, t)
      BY <1>1, <3>1, <3>3 DEF Contains
    <3>5. sch' = WithList(sch, k, u)
      BY <1>4, <2>1, <2>2, <3>2 DEF DeadlockError
    <3>6. sch'.waiters = [sch.waiters EXCEPT ![k] = u]
      BY <3>5 DEF WithList
    <3>7. sch'.waiters[l] = IF k = l THEN u ELSE sch.waiters[l]
      BY <1>1, <3>6 DEF Sch
    <3> QED BY <2>1, <3>4, <3>7
  <2>3. CASE call[Main].op \notin {"lock", "pop", "wait"}
    BY <1>1, <1>4, <2>3 DEF DeadlockError
  <2> QED BY <2>2, <2>3
<1> QED BY <1>3, <1>4

\* Another process is where it was and waits for no more than it did.
Apart(q) ==
    /\ status'[q] = status[q] /\ call'[q] = call[q]
    /\ \A l \in Objects : Waits(q, l)' => Waits(q, l)

\* Then it keeps its place.
LEMMA ApartKeeps ==
  ASSUME NEW q \in Procs, Apart(q), NEW l \in Objects
  PROVE  Keeps(q, l)
BY DEF Apart, Keeps, On

\* A process keeps its place with respect to every object that it does not touch.
LEMMA StepKeepsPlaces ==
  ASSUME Base, Seats, PlainStep, NEW q \in Procs, NEW l \in Objects
  PROVE  Keeps(q, l) \/ Touches(q, l)
<1>1. /\ SchedInv /\ sch \in Sch /\ status \in [Procs -> Statuses] /\ call \in [Procs -> Calls]
      /\ Main \in Procs /\ Threads \subseteq Procs /\ Main \notin Threads
      /\ l \in Lists /\ l # None /\ l \notin Threads
  BY BaseFacts
<1>2. ASSUME \A k \in Lists, p \in Procs : Waits(p, k)' => Waits(p, k), UNCHANGED <<status, call>>
      PROVE  Keeps(q, l)
  BY <1>1, <1>2, ApartKeeps DEF Apart, Objects, Lists
<1>3. ASSUME NEW W, Woke(sch, sch', W) PROVE \A k \in Lists, p \in Procs : Waits(p, k)' => Waits(p, k)
  BY <1>3, WokeLists DEF Waits
<1>4. ASSUME NEW p \in Procs, Waits(p, l) PROVE On(p, l) /\ status[p] \in {"parked", "drive"}
  BY <1>4, WaitersSit
<1>5. ASSUME \A k \in Lists, p \in Procs : Waits(p, k)' => Waits(p, k),
             status[q] \notin {"parked", "drive", "woken"}
      PROVE  Keeps(q, l)
  BY <1>1, <1>4, <1>5 DEF Keeps, On
<1>6. ASSUME RouseStep PROVE Keeps(q, l)
  BY <1>2, <1>3, <1>6 DEF RouseStep
<1>7. ASSUME NEW p \in Procs, ParkStep(p) PROVE Keeps(q, l) \/ Touches(q, l)
  <2>1. PICK s, W, c, x :
         /\ s \in Sch /\ Woke(sch, s, W) /\ Parks(s, sch', p) /\ CallOK(p, c) /\ Lands(s, sch', p, c)
         /\ call' = [call EXCEPT ![p] = c] /\ status' = [status EXCEPT ![p] = x]
         /\ x \in {"parked", "drive"} /\ (p = Main => x = "drive")
    BY <1>7 DEF ParkStep
  <2>2. Runs(p)
    BY <1>7 DEF ParkStep
  <2>3. Contains(s.waiters[l], q) => Waits(q, l)
    BY <1>1, <2>1, WokeLists DEF Waits
  <2>4. CASE q = p
    <3>1. ~Waits(p, l) /\ status'[p] = x /\ call'[p] = c /\ c.res = "ok" /\ x # "run"
      BY <1>1, <1>4, <2>1, <2>2 DEF Runs, CallOK
    <3>2. Waits(p, l)' => c.on = l
      BY <1>1, <2>1, <2>3, <2>4, <3>1 DEF Lands, Waits
    <3>3. CASE On(p, l) \/ c.on = l
      <4>1. Waits(p, l)' => On(p, l)' /\ (p = Main => status'[p] = "drive")
        BY <2>1, <3>1, <3>2 DEF On
      <4> QED BY <2>2, <2>4, <3>1, <3>3, <4>1 DEF Touches
    <3>4. CASE ~On(p, l) /\ c.on # l
      BY <2>4, <3>2, <3>4 DEF Keeps
    <3> QED BY <3>3, <3>4
  <2>5. CASE q # p
    <3>1. Contains(sch'.waiters[l], q) => Contains(s.waiters[l], q)
      BY <1>1, <2>1, <2>5 DEF Parks, Marked, Procs
    <3>2. status'[q] = status[q] /\ call'[q] = call[q]
      BY <1>1, <2>1, <2>5
    <3> QED BY <2>3, <3>1, <3>2 DEF Keeps, On, Waits
  <2> QED BY <2>4, <2>5
<1>8. ASSUME NEW p \in Procs, ReturnStep(p) PROVE Keeps(q, l) \/ Touches(q, l)
  <2>1. Runs(p) /\ sch' = sch /\ status' = [status EXCEPT ![p] = "run"] /\ call' = [call EXCEPT ![p] = Idle]
    BY <1>8 DEF ReturnStep
  <2>2. Waits(q, l)' <=> Waits(q, l)
    BY <2>1 DEF Waits
  <2>3. CASE q = p
    <3>1. ~Waits(p, l) /\ Runs(p)
      BY <1>4, <2>1 DEF Runs
    <3> QED BY <2>2, <2>3, <3>1 DEF Keeps, Touches
  <2>4. CASE q # p
    BY <1>1, <2>1, <2>2, <2>4 DEF Keeps, On
  <2> QED BY <2>3, <2>4
<1>9. ASSUME NEW t \in Threads, NEW x, \A k \in Lists, p \in Procs : Waits(p, k)' => Waits(p, k),
             status[t] \in {"unborn", "fresh", "run"}, status' = [status EXCEPT ![t] = x],
             UNCHANGED call
      PROVE  Keeps(q, l)
  <2>1. CASE q = t
    BY <1>5, <1>9, <2>1
  <2>2. CASE q # t
    BY <1>1, <1>9, <2>2 DEF Keeps, On
  <2> QED BY <2>1, <2>2
<1>10. ASSUME NEW t \in Threads, sch' = Enqueue(sch, t)
       PROVE  \A k \in Lists, p \in Procs : Waits(p, k)' => Waits(p, k)
  <2>1. sch'.waiters = sch.waiters
    BY <1>10 DEF Enqueue, WithRunq
  <2> QED BY <2>1 DEF Waits
<1>11. ASSUME NEW t \in Threads, Ends(t)
       PROVE  \A k \in Lists, p \in Procs : Waits(p, k)' => Waits(p, k)
  <2>1. Woke(sch, sch', Living(sch, t))
    BY <1>1, <1>11, JoinersBorn DEF Ends, FinishThread
  <2> QED BY <1>3, <2>1
<1>12. ASSUME NEW t, Nudge(t) PROVE Keeps(q, l)
  BY <1>2, <1>3, <1>12 DEF Nudge
<1>13. ASSUME NEW res, MainGoesOn(res)
       PROVE  /\ q # Main => Keeps(q, l)
              /\ status[Main] = "drive" /\ status'[Main] = "woken"
              /\ call'[Main].on = call[Main].on /\ call'[Main].res = res
  <2>1. /\ Tokens(sch, sch') /\ status' = [status EXCEPT ![Main] = "woken"] /\ status[Main] = "drive"
        /\ call' = [call EXCEPT ![Main] = Ended(call[Main], res)]
    BY <1>13 DEF MainGoesOn, Wakes, Drives
  <2>2. PICK c : c = Ended(call[Main], res)
    OBVIOUS
  <2>3. c.on = call[Main].on /\ c.res = res /\ call'[Main] = c /\ status'[Main] = "woken"
    BY <1>1, <2>1, <2>2 DEF Ended
  <2>4. ASSUME q # Main PROVE Keeps(q, l)
    <3>1. status'[q] = status[q] /\ call'[q] = call[q]
      BY <1>1, <2>1, <2>4
    <3>2. Waits(q, l)' <=> Waits(q, l)
      BY <1>1, <2>1, <2>4 DEF Tokens, Waits, Procs
    <3> QED BY <3>1, <3>2 DEF Keeps, On
  <2> QED BY <2>1, <2>3, <2>4
<1>14. ASSUME MainWakes, MainGoesOn("ok") PROVE Keeps(q, l)
  <2>1. CASE q = Main
    <3>1. Waits(Main, l)' <=> Waits(Main, l)
      BY <1>14, TokenMoves DEF Waits
    <3>2. call[Main].on = l => ~Waits(Main, l)
      <4> SUFFICES ASSUME call[Main].on = l PROVE ~Waits(Main, l)
        OBVIOUS
      <4>1. call[Main].op \in {"lock", "pop"}
        BY BaseFacts DEF Objects
      <4>2. ~MainMayGiveUp
        BY <1>1, <4>1 DEF MainMayGiveUp, Seats, NoLimit
      <4>3. MainWoken
        BY <1>14, <4>2 DEF MainWakes
      <4> QED BY <4>1, <4>3 DEF MainWoken, Waits
    <3>3. ~Waits(Main, l)
      BY <1>1, <1>4, <3>2 DEF On
    <3>4. On(Main, l) => On(Main, l)'
      BY <1>13, <1>14 DEF On
    <3> QED BY <2>1, <3>1, <3>3, <3>4 DEF Keeps
  <2> QED BY <1>13, <1>14, <2>1
<1>15. ASSUME DeadlockError, MainGoesOn("raise") PROVE Keeps(q, l)
  <2>1. CASE q = Main
    <3>1. CASE sch'.waiters[l] = sch.waiters[l] /\ call[Main].on # l
      <4>1. ~Waits(Main, l) /\ ~On(Main, l)
        BY <1>1, <1>4, <3>1 DEF On
      <4> QED BY <2>1, <3>1, <4>1 DEF Keeps, Waits
    <3>2. CASE call[Main].on = l /\ ~Contains(sch'.waiters[l], Main)
      <4>1. call[Main].op \in {"lock", "pop"} /\ ~MainWoken
        BY <1>1, <1>15, <3>2, BaseFacts DEF DeadlockError, Objects
      <4>2. Waits(Main, l)
        BY <3>2, <4>1 DEF MainWoken, Waits
      <4> QED BY <2>1, <3>2, <4>2 DEF Keeps, Waits
    <3> QED BY <1>15, <3>1, <3>2, TokenMoves
  <2> QED BY <1>13, <1>15, <2>1
<1>16. ASSUME NEW t \in Threads, Popped(sch, sch', t)
       PROVE  /\ \A k \in Lists, p \in Procs : Waits(p, k)' <=> Waits(p, k)
              /\ ~Waits(t, l)
  <2>1. sch'.waiters = sch.waiters /\ Queued(sch, t)
    BY <1>16 DEF Popped
  <2> QED BY <1>1, <2>1, WaitersSit DEF Waits
<1>17. ASSUME NEW t \in Threads, ResumeStep(t) \/ PassStep(t) PROVE Keeps(q, l)
  <2>1. /\ Popped(sch, sch', t) /\ status[t] \in {"fresh", "parked"} /\ t \notin killed
    BY <1>17 DEF ResumeStep, PassStep, Base
  <2>2. /\ status'[t] = "woken" /\ call'[t].on = call[t].on /\ call'[t].res = "ok"
        /\ \A p \in Threads \ {t} : status'[p] = status[p] /\ call'[p] = call[p]
        /\ \/ status'[Main] = status[Main] /\ call'[Main] = call[Main]
           \/ status[Main] = "run"
    <3>1. CASE ResumeStep(t)
      <4>1. PICK c : c = Ended(call[t], "ok")
        OBVIOUS
      <4>2. c.on = call[t].on /\ c.res = "ok"
        BY <4>1 DEF Ended
      <4>3. status' = [status EXCEPT ![t] = "woken"] /\ call' = [call EXCEPT ![t] = c]
        BY <2>1, <3>1, <4>1 DEF ResumeStep, Wakes
      <4> QED BY <1>1, <4>2, <4>3
    <3>2. CASE PassStep(t)
      <4>1. PICK res \in Outcomes :
             call' = [call EXCEPT ![t] = Ended(call[t], res),
                                  ![Main] = Calling("pass", None, None, FALSE, FALSE, "ok")]
        BY <3>2 DEF PassStep
      <4>2. PICK c, m : c = Ended(call[t], res) /\ m = Calling("pass", None, None, FALSE, FALSE, "ok")
        OBVIOUS
      <4>3. c.on = call[t].on
        BY <4>2 DEF Ended
      <4>4. call' = [call EXCEPT ![t] = c, ![Main] = m]
        BY <4>1, <4>2
      <4>5. status' = [status EXCEPT ![t] = "woken", ![Main] = "drive"] /\ status[Main] = "run"
            /\ call'[t].res = "ok"
        BY <2>1, <3>2 DEF PassStep
      <4> QED BY <1>1, <4>3, <4>4, <4>5
    <3> QED BY <1>17, <3>1, <3>2
  <2>3. CASE q = t
    <3>1. ~Waits(t, l) /\ ~Waits(t, l)'
      BY <1>1, <1>16, <2>1
    <3>2. On(t, l) => On(t, l)'
      BY <2>2 DEF On
    <3> QED BY <2>3, <3>1, <3>2 DEF Keeps
  <2>4. CASE status'[q] = status[q] /\ call'[q] = call[q]
    <3>1. Waits(q, l)' <=> Waits(q, l)
      BY <1>1, <1>16, <2>1
    <3> QED BY <2>4, <3>1 DEF Keeps, On
  <2>5. CASE status[q] = "run"
    BY <1>5, <1>16, <2>1, <2>5
  <2> QED BY <2>2, <2>3, <2>4, <2>5 DEF Procs
<1>18. ASSUME NEW t \in Threads, Popped(sch, sch', t), UNCHANGED <<status, call>> PROVE Keeps(q, l)
  BY <1>2, <1>16, <1>18
<1>19. ASSUME MainExits PROVE Keeps(q, l)
  <2>1. sch' = sch /\ call' = call /\ status[Main] = "run" /\ status' = [status EXCEPT ![Main] = "dead"]
    BY <1>19 DEF MainExits
  <2>2. Waits(q, l)' <=> Waits(q, l)
    BY <2>1 DEF Waits
  <2>3. q = Main => ~Waits(q, l) /\ ~On(q, l)
    BY <1>4, <2>1 DEF On
  <2> QED BY <1>1, <2>1, <2>2, <2>3 DEF Keeps, On
<1>20. ASSUME UNCHANGED <<sch, status, call>> PROVE Keeps(q, l)
  BY <1>2, <1>20 DEF Waits
<1> QED BY <1>6, <1>7, <1>8, <1>9, <1>10, <1>11, <1>12, <1>14, <1>15, <1>17, <1>18, <1>19, <1>20
        DEF PlainStep, Ends

-----------------------------------------------------------------------------
(* Every plain step keeps the seats.                                       *)

\* MAIN never has two tokens in a list.
LEMMA StepKeepsOnce ==
  ASSUME Base, Seats, PlainStep, NEW l \in Objects
  PROVE  Once(sch'.waiters[l])
<1>1. /\ SchedInv /\ sch \in Sch /\ status \in [Procs -> Statuses] /\ l \in Lists
      /\ Main \in Procs /\ Once(sch.waiters[l])
  BY BaseFacts DEF Seats, MainSeat
<1>2. ASSUME NEW W, Woke(sch, sch', W) PROVE Once(sch'.waiters[l])
  BY <1>1, <1>2 DEF Woke, Fewer, Shorter
<1>3. ASSUME sch'.waiters = sch.waiters PROVE Once(sch'.waiters[l])
  BY <1>1, <1>3
<1>4. ASSUME NEW p \in Procs, ParkStep(p) PROVE Once(sch'.waiters[l])
  <2>1. PICK s, W : s \in Sch /\ Woke(sch, s, W) /\ Parks(s, sch', p)
    BY <1>4 DEF ParkStep
  <2>2. Once(s.waiters[l])
    BY <1>1, <2>1 DEF Woke, Fewer, Shorter
  <2>3. p = Main => ~Contains(s.waiters[l], Main)
    <3> SUFFICES ASSUME p = Main PROVE ~Contains(s.waiters[l], Main)
      OBVIOUS
    <3>1. ~Waits(Main, l)
      BY <1>4, WaitersSit DEF ParkStep, Runs
    <3> QED BY <1>1, <2>1, <3>1, WokeLists DEF Waits
  <2> QED BY <1>1, <2>1, <2>2, <2>3 DEF Parks, Marked
<1>5. ASSUME NEW t \in Threads, Ends(t) PROVE Once(sch'.waiters[l])
  BY <1>1, <1>2, <1>5, JoinersBorn DEF Ends, FinishThread
<1>6. ASSUME MainWakes PROVE Once(sch'.waiters[l])
  BY <1>1, <1>6, TokenMoves
<1>7. ASSUME DeadlockError PROVE Once(sch'.waiters[l])
  BY <1>1, <1>7, TokenMoves DEF Once, Contains
<1>8. ASSUME NEW t, ResumeStep(t) \/ PassStep(t) \/ Popped(sch, sch', t) PROVE Once(sch'.waiters[l])
  BY <1>3, <1>8 DEF ResumeStep, PassStep, Popped
<1>9. ASSUME NEW t \in Threads, sch' = Enqueue(sch, t) PROVE Once(sch'.waiters[l])
  BY <1>3, <1>9 DEF Enqueue, WithRunq
<1> QED BY <1>2, <1>3, <1>4, <1>5, <1>6, <1>7, <1>8, <1>9
        DEF PlainStep, RouseStep, ReturnStep, Nudge, MainExits

\* MAIN keeps its seat.
LEMMA StepKeepsMainSeat ==
  ASSUME Base, Seats, PlainStep
  PROVE  MainSeat'
<1>1. Main \in Procs
  BY BaseFacts
<1>2. ASSUME NEW l \in Objects, Waits(Main, l)' PROVE status'[Main] = "drive" /\ On(Main, l)'
  <2>1. CASE Keeps(Main, l)
    <3>1. Waits(Main, l) /\ status'[Main] = status[Main]
      BY <1>2, <2>1 DEF Keeps
    <3>2. status[Main] = "drive" /\ On(Main, l)
      BY <3>1 DEF Seats, MainSeat
    <3> QED BY <1>2, <2>1, <3>1, <3>2 DEF Keeps
  <2>2. CASE Touches(Main, l)
    BY <1>2, <2>2 DEF Touches
  <2> QED BY <1>1, <2>1, <2>2, StepKeepsPlaces
<1> QED BY <1>2, StepKeepsOnce DEF MainSeat

\* A parked thread stays where it is, or is woken.
Sits(t) ==
    /\ status[t] = "parked" /\ call'[t] = call[t]
    /\ sch'.park[t] \in {None, sch.park[t]} /\ sch'.nap[t] \in {"no", sch.nap[t]}

\* A thread parks for what its call names.
SitsDown(t) ==
    /\ sch'.park[t] \in {None, call'[t].on} /\ call'[t].res = "ok"
    /\ call'[t].op \in {"lock", "pop"} => sch'.nap[t] = "no"

\* Threads that only do that keep their seats.
LEMMA SeatsFollow ==
  ASSUME ThreadSeats, \A t \in Threads : status'[t] = "parked" => Sits(t) \/ SitsDown(t)
  PROVE  ThreadSeats'
<1>1. ASSUME NEW t \in Threads, status'[t] = "parked"
      PROVE  /\ sch'.park[t] \in {None, call'[t].on} /\ call'[t].res = "ok"
             /\ call'[t].op \in {"lock", "pop"} => sch'.nap[t] = "no"
  <2>1. CASE Sits(t)
    BY <2>1 DEF Sits, ThreadSeats
  <2>2. CASE SitsDown(t)
    BY <2>2 DEF SitsDown
  <2> QED BY <1>1, <2>1, <2>2
<1> QED BY <1>1 DEF ThreadSeats

\* And plain steps do no more.
LEMMA StepKeepsThreadSeats ==
  ASSUME Base, Seats, PlainStep
  PROVE  ThreadSeats'
<1>1. /\ SchedInv /\ sch \in Sch /\ status \in [Procs -> Statuses] /\ call \in [Procs -> Calls]
      /\ Main \in Procs /\ Threads \subseteq Procs /\ Main \notin Threads
  BY BaseFacts
<1>2. ASSUME \A t \in Threads : status'[t] = "parked" => Sits(t) \/ SitsDown(t) PROVE ThreadSeats'
  BY <1>2, SeatsFollow DEF Seats
<1>3. ASSUME NEW W, Woke(sch, sch', W), NEW t \in Threads
      PROVE  sch'.park[t] \in {None, sch.park[t]} /\ sch'.nap[t] \in {"no", sch.nap[t]}
  BY <1>1, <1>3, WokeStaysParked
<1>4. ASSUME NEW W, Woke(sch, sch', W), UNCHANGED <<status, call>> PROVE ThreadSeats'
  BY <1>2, <1>3, <1>4 DEF Sits
<1>5. ASSUME NEW p \in Procs, ParkStep(p) PROVE ThreadSeats'
  <2>1. PICK s, W, c, x :
         /\ s \in Sch /\ Woke(sch, s, W) /\ Parks(s, sch', p) /\ CallOK(p, c) /\ Lands(s, sch', p, c)
         /\ call' = [call EXCEPT ![p] = c] /\ status' = [status EXCEPT ![p] = x]
    BY <1>5 DEF ParkStep
  <2>2. ASSUME NEW t \in Threads, t # p, status'[t] = "parked" PROVE Sits(t)
    <3>1. status'[t] = status[t] /\ call'[t] = call[t]
      BY <1>1, <2>1, <2>2
    <3>2. sch'.park[t] = s.park[t] /\ sch'.nap[t] = s.nap[t]
      BY <2>1, <2>2 DEF Parks
    <3>3. s.park[t] \in {None, sch.park[t]} /\ s.nap[t] \in {"no", sch.nap[t]}
      BY <1>1, <2>1, <2>2, WokeStaysParked
    <3> QED BY <2>2, <3>1, <3>2, <3>3 DEF Sits
  <2>3. ASSUME p \in Threads PROVE SitsDown(p)
    <3>1. status[p] # "parked" /\ call'[p] = c /\ c.res = "ok"
      BY <1>1, <1>5, <2>1 DEF ParkStep, Runs, CallOK
    <3>2. sch.park[p] = None
      BY <2>3, <3>1 DEF Base, Exact
    <3>3. s.park[p] = None
      BY <1>1, <2>1, <2>3, <3>2, WokeStaysParked
    <3> QED BY <2>1, <2>3, <3>1, <3>3 DEF Lands, SitsDown
  <2> QED BY <1>2, <2>2, <2>3
<1>6. ASSUME NEW p \in Procs, NEW x, x # "parked", status' = [status EXCEPT ![p] = x],
             \A t \in Threads \ {p} : /\ call'[t] = call[t] /\ sch'.park[t] \in {None, sch.park[t]}
                                      /\ sch'.nap[t] \in {"no", sch.nap[t]}
      PROVE  ThreadSeats'
  BY <1>1, <1>2, <1>6 DEF Sits
<1>7. ASSUME NEW p \in Procs, ReturnStep(p) PROVE ThreadSeats'
  <2>1. sch' = sch /\ status' = [status EXCEPT ![p] = "run"] /\ call' = [call EXCEPT ![p] = Idle]
    BY <1>7 DEF ReturnStep
  <2> QED BY <1>1, <1>6, <2>1
<1>8. ASSUME NEW t \in Threads, status' = [status EXCEPT ![t] = "fresh"], sch' = Enqueue(sch, t),
             UNCHANGED call
      PROVE  ThreadSeats'
  <2>1. sch'.park = sch.park /\ sch'.nap = sch.nap
    BY <1>8 DEF Enqueue, WithRunq
  <2> QED BY <1>1, <1>6, <1>8, <2>1
<1>9. ASSUME NEW t \in Threads, Ends(t), UNCHANGED call PROVE ThreadSeats'
  <2>1. Woke(sch, sch', Living(sch, t)) /\ status' = [status EXCEPT ![t] = "dead"]
    BY <1>1, <1>9, JoinersBorn DEF Ends, FinishThread
  <2> QED BY <1>1, <1>3, <1>6, <1>9, <2>1
<1>10. ASSUME NEW res, MainGoesOn(res) PROVE ThreadSeats'
  <2>1. /\ sch'.park = sch.park /\ sch'.nap = sch.nap /\ status' = [status EXCEPT ![Main] = "woken"]
        /\ call' = [call EXCEPT ![Main] = Ended(call[Main], res)]
    BY <1>10 DEF MainGoesOn, Wakes, Tokens
  <2> QED BY <1>1, <1>6, <2>1
<1>11. ASSUME NEW t \in Threads, ResumeStep(t) \/ PassStep(t) PROVE ThreadSeats'
  <2>1. sch'.park = sch.park /\ sch'.nap = sch.nap
    BY <1>11 DEF ResumeStep, PassStep, Popped
  <2>2. \A u \in Threads \ {t} : call'[u] = call[u] /\ status'[u] = status[u]
    BY <1>1, <1>11 DEF ResumeStep, PassStep, Wakes
  <2>3. status'[t] = "woken"
    BY <1>1, <1>11 DEF ResumeStep, PassStep, Wakes
  <2> QED BY <1>2, <2>1, <2>2, <2>3 DEF Sits
<1>12. ASSUME NEW t \in Threads, Popped(sch, sch', t), UNCHANGED <<status, call>> PROVE ThreadSeats'
  BY <1>2, <1>12 DEF Sits, Popped
<1>13. ASSUME MainExits PROVE ThreadSeats'
  BY <1>1, <1>6, <1>13 DEF MainExits
<1>14. ASSUME UNCHANGED <<sch, status, call>> PROVE ThreadSeats'
  BY <1>2, <1>14 DEF Sits
<1> QED BY <1>4, <1>5, <1>7, <1>8, <1>9, <1>10, <1>11, <1>12, <1>13, <1>14
        DEF PlainStep, RouseStep, Nudge

\* Nobody starts to wait for a mutex or a queue with a limit.
LEMMA StepKeepsNoLimit ==
  ASSUME Base, Seats, PlainStep
  PROVE  NoLimit'
<1>1. /\ status \in [Procs -> Statuses] /\ call \in [Procs -> Calls]
      /\ Main \in Procs /\ Threads \subseteq Procs /\ Main \notin Threads /\ NoLimit
  BY BaseFacts DEF Seats
<1>2. ASSUME NEW p \in Procs, NEW c, c.op \in {"lock", "pop"} => ~c.timed,
             call' = [call EXCEPT ![p] = c]
      PROVE  NoLimit'
  BY <1>1, <1>2 DEF NoLimit
<1>3. ASSUME UNCHANGED call PROVE NoLimit'
  BY <1>1, <1>3 DEF NoLimit
<1>4. ASSUME NEW p \in Procs, NEW res, Wakes(p, res) PROVE NoLimit'
  <2>1. PICK c : c = Ended(call[p], res)
    OBVIOUS
  <2>2. c.op = call[p].op /\ c.timed = call[p].timed /\ call' = [call EXCEPT ![p] = c]
    BY <1>4, <2>1 DEF Ended, Wakes
  <2> QED BY <1>1, <1>2, <2>2 DEF NoLimit
<1>5. ASSUME NEW p \in Procs, ParkStep(p) PROVE NoLimit'
  <2>1. PICK c : (c.op \in {"lock", "pop"} => ~c.timed) /\ call' = [call EXCEPT ![p] = c]
    BY <1>5 DEF ParkStep, Lands
  <2> QED BY <1>2, <2>1
<1>6. ASSUME NEW p \in Procs, ReturnStep(p) PROVE NoLimit'
  <2>1. Idle.op = "none" /\ call' = [call EXCEPT ![p] = Idle]
    BY <1>6 DEF ReturnStep, Idle, Calling
  <2> QED BY <1>2, <2>1
<1>7. ASSUME NEW t \in Threads, PassStep(t) PROVE NoLimit'
  <2>1. PICK res \in Outcomes :
         call' = [call EXCEPT ![t] = Ended(call[t], res),
                              ![Main] = Calling("pass", None, None, FALSE, FALSE, "ok")]
    BY <1>7 DEF PassStep
  <2>2. PICK c, m : c = Ended(call[t], res) /\ m = Calling("pass", None, None, FALSE, FALSE, "ok")
    OBVIOUS
  <2>3. c.op = call[t].op /\ c.timed = call[t].timed /\ m.op = "pass"
    BY <2>2 DEF Ended, Calling
  <2>4. call' = [call EXCEPT ![t] = c, ![Main] = m]
    BY <2>1, <2>2
  <2> QED BY <1>1, <2>3, <2>4 DEF NoLimit
<1> QED BY <1>1, <1>3, <1>4, <1>5, <1>6, <1>7
        DEF PlainStep, RouseStep, Nudge, MainExits, MainGoesOn, ResumeStep

-----------------------------------------------------------------------------
(* The stale token of MAIN.                                                *)

\* A program that does not use Thread#kill tells nobody to die.
LEMMA NobodyIsKilled ==
  ASSUME "kill" \notin MainOps \cup ThreadOps, killed = {}, [Next]_vars
  PROVE  killed' = {}
<1>1. ASSUME NEW p, NEW t, Kill(p, t) PROVE FALSE
  BY <1>1 DEF Kill, Acts
<1>2. ASSUME NEW p \in Procs, CoreOps(p) PROVE killed' = {}
  BY <1>1, <1>2 DEF CoreOps, Spawn, Wakeup, Join, SleepOp, WaitFd, Pass, BareYield
<1>3. ASSUME NEW p, NEW m, NEW inl, NEW out, Acquire(p, m, inl, out) PROVE killed' = {}
  BY <1>3 DEF Acquire, Returns, Block
<1>4. ASSUME NEW p \in Procs, SyncOps(p) PROVE killed' = {}
  BY <1>3, <1>4 DEF SyncOps, Lock, TryLock, Unlock, Push, Pop, Block, Clear, Close, Signal, Broadcast,
     Wait
<1>5. ASSUME NEW p, Continue(p) \/ ContinueLock(p) \/ ContinuePop(p) \/ ContinueWait(p) PROVE killed' = {}
  BY <1>3, <1>5 DEF Continue, ContinueLock, ContinuePop, ContinueWait, Returns, Block
<1>6. ASSUME Scheduler PROVE killed' = {}
  BY <1>6 DEF Scheduler, MainWakes, ScheduleStep, SchedulePoll, DeadlockError, InlineWakes,
     InlineDropsDead, InlineRotates, InlineRuns, InlinePoll, InlineError, Resume, Poll
<1>7. ASSUME MainPass \/ MainExits PROVE killed' = {}
  BY <1>7 DEF MainPass, MainExits
<1>8. ASSUME NEW t, ThreadEnds(t) PROVE killed' = {}
  BY <1>8 DEF ThreadEnds, Finish
<1>9. ASSUME UNCHANGED vars PROVE killed' = {}
  BY <1>9 DEF vars, coreVars
<1> QED BY <1>2, <1>4, <1>5, <1>6, <1>7, <1>8, <1>9 DEF Next, Exited

\* While MAIN runs or has just been woken it is the one that executes.
LEMMA MainRunsAlone ==
  ASSUME CoreInv, status[Main] \in {"run", "woken"}
  PROVE  Main = Current
<1>1. stack \in Seq(Procs) /\ StackInv(stack, status)
  BY DEF CoreInv, TypeOK, CoreTypeOK
<1>2. Len(stack) \in Nat /\ Len(stack) >= 1 /\ stack[1] = Main
  BY <1>1 DEF StackInv
<1>3. Len(stack) = 1
  <2>1. ASSUME Len(stack) # 1 PROVE FALSE
    <3>1. 1 \in 1..(Len(stack) - 1)
      BY ONLY <1>2, <2>1
    <3>2. \A i \in 1..(Len(stack) - 1) : status[stack[i]] = "drive"
      BY <1>1 DEF StackInv
    <3> QED BY <1>2, <3>1, <3>2
  <2> QED BY <2>1
<1> QED BY <1>2, <1>3 DEF Last, Current

\* Once MAIN unwinds from a deadlock, it is only unwound further: it releases
\* what it holds and ends.
LEMMA GoneSteps ==
  ASSUME Base, Gone, Rescues = FALSE, [Next]_vars
  PROVE  /\ Gone' \/ Dead(Main)'
         /\ \A m \in Mutexes : owner'[m] \in {owner[m], None}
<1>1. /\ Main = Current /\ Main \in Procs /\ Main \notin Threads /\ status[Main] \in {"run", "woken"}
      /\ status \in [Procs -> Statuses] /\ owner \in [Mutexes -> Procs \cup {None}]
      /\ dying \subseteq Procs
  BY BaseFacts, MainRunsAlone DEF Gone, Base, Inv, CoreInv, TypeOK, ObjectTypeOK, CoreTypeOK
<1>2. ASSUME NEW p, NEW op, Acts(p, op) PROVE FALSE
  BY <1>1, <1>2 DEF Acts, Gone
<1>3. ASSUME UNCHANGED <<status, dying, call, owner>>
      PROVE  Gone' /\ \A m \in Mutexes : owner'[m] \in {owner[m], None}
  BY <1>3 DEF Gone
<1>4. ASSUME NEW p \in Procs, CoreOps(p) PROVE FALSE
  BY <1>2, <1>4 DEF CoreOps, Spawn, Kill, Wakeup, Join, SleepOp, WaitFd, Pass, BareYield
<1>5. ASSUME NEW p \in Procs, NEW m \in Mutexes, Unlock(p, m)
      PROVE  Gone' /\ \A n \in Mutexes : owner'[n] \in {owner[n], None}
  <2>1. UNCHANGED <<status, dying, call>>
    BY <1>5 DEF Unlock
  <2>2. owner' = owner \/ owner' = [owner EXCEPT ![m] = None]
    BY <1>5 DEF Unlock, ReleaseLock
  <2> QED BY <1>1, <2>1, <2>2 DEF Gone
<1>6. ASSUME NEW p \in Procs, SyncOps(p) PROVE \E m \in Mutexes : Unlock(p, m)
  BY <1>2, <1>6 DEF SyncOps, Lock, TryLock, Push, Pop, Clear, Close, Signal, Broadcast, Wait
<1>7. ASSUME NEW p \in Procs, NEW op, Woken(p, op)
      PROVE  p = Main /\ call[Main].res = "raise" /\ op = call[Main].op /\ op \in {"lock", "pop"}
  BY <1>1, <1>7 DEF Woken, Gone
<1>8. ASSUME Returns(Main, "raise"), UNCHANGED lockVars
      PROVE  Gone' /\ \A m \in Mutexes : owner'[m] \in {owner[m], None}
  <2>1. status'[Main] = "run" /\ Main \in dying' /\ owner' = owner
    BY <1>1, <1>8 DEF Returns, Unwinds, lockVars
  <2> QED BY <2>1 DEF Gone
<1>9. ASSUME NEW p \in Procs, Continue(p) \/ ContinueWait(p) PROVE FALSE
  BY <1>7, <1>9 DEF Continue, ContinueWait
<1>10. ASSUME NEW p \in Procs, ContinueLock(p)
       PROVE  Gone' /\ \A m \in Mutexes : owner'[m] \in {owner[m], None}
  <2>1. p = Main /\ call[p].res = "raise"
    BY <1>7, <1>10 DEF ContinueLock
  <2>2. Returns(p, call[p].res) /\ UNCHANGED lockVars
    BY <1>10, <2>1 DEF ContinueLock
  <2> QED BY <1>8, <2>1, <2>2
<1>11. ASSUME NEW p \in Procs, ContinuePop(p)
       PROVE  Gone' /\ \A m \in Mutexes : owner'[m] \in {owner[m], None}
  <2>1. p = Main /\ call[p].res = "raise"
    BY <1>7, <1>11 DEF ContinuePop
  <2>2. Returns(p, call[p].res) /\ UNCHANGED lockVars
    BY <1>11, <2>1 DEF ContinuePop
  <2> QED BY <1>8, <2>1, <2>2
<1>12. ASSUME NEW p \in Procs, Drives(p) PROVE FALSE
  BY <1>1, <1>12 DEF Drives
<1>13. ASSUME Scheduler \/ MainPass PROVE FALSE
  <2>1. \A p \in Threads : p \in Procs
    BY DEF Procs
  <2> QED BY <1>1, <1>2, <1>12, <1>13, <2>1 DEF Scheduler, MainWakes, ScheduleStep, SchedulePoll,
             DeadlockError, InlineWakes, InlineDropsDead, InlineRotates, InlineRuns, InlinePoll,
             InlineError, InlineHead, MainPass
<1>14. ASSUME NEW t \in Threads, ThreadEnds(t) PROVE FALSE
  BY <1>1, <1>14 DEF ThreadEnds, Finish
<1>15. ASSUME MainExits PROVE Dead(Main)' /\ \A m \in Mutexes : owner'[m] \in {owner[m], None}
  BY <1>1, <1>15 DEF MainExits, Dead, lockVars
<1>16. ASSUME UNCHANGED vars PROVE Gone' /\ \A m \in Mutexes : owner'[m] \in {owner[m], None}
  BY <1>3, <1>16 DEF vars, coreVars, lockVars
<1> QED BY <1>4, <1>5, <1>6, <1>9, <1>10, <1>11, <1>13, <1>14, <1>15, <1>16 DEF Next, Exited

\* Only a ThreadError in MAIN leaves a stale token, and where MAIN waited.
LEMMA StaleSteps ==
  ASSUME Base, PlainStep, NEW l \in Objects, Contains(sch'.waiters[l], Stale)
  PROVE  Contains(sch.waiters[l], Stale) \/ (DeadlockError /\ call[Main].on = l)
<1>1. SchedInv /\ sch \in Sch /\ l \in Lists
  BY BaseFacts
<1>2. ASSUME NEW W, Woke(sch, sch', W) PROVE Contains(sch.waiters[l], Stale)
  BY <1>1, <1>2 DEF Woke, Fewer, Shorter
<1>3. ASSUME sch'.waiters = sch.waiters PROVE Contains(sch.waiters[l], Stale)
  BY <1>3
<1>4. ASSUME NEW p, ParkStep(p) PROVE Contains(sch.waiters[l], Stale)
  <2>1. PICK s, W : Woke(sch, s, W) /\ Parks(s, sch', p)
    BY <1>4 DEF ParkStep
  <2>2. Contains(s.waiters[l], Stale)
    BY <1>1, <2>1 DEF Parks, Marked
  <2> QED BY <1>1, <2>1, <2>2 DEF Woke, Fewer, Shorter
<1>5. ASSUME NEW t \in Threads, Ends(t) PROVE Contains(sch.waiters[l], Stale)
  BY <1>1, <1>2, <1>5, JoinersBorn DEF Ends, FinishThread
<1>6. ASSUME MainWakes PROVE Contains(sch.waiters[l], Stale)
  BY <1>6, TokenMoves
<1>7. ASSUME DeadlockError
      PROVE  Contains(sch.waiters[l], Stale) \/ (DeadlockError /\ call[Main].on = l)
  BY <1>7, TokenMoves
<1>8. ASSUME NEW t, ResumeStep(t) \/ PassStep(t) \/ Popped(sch, sch', t)
      PROVE  Contains(sch.waiters[l], Stale)
  BY <1>3, <1>8 DEF ResumeStep, PassStep, Popped
<1>9. ASSUME NEW t \in Threads, sch' = Enqueue(sch, t) PROVE Contains(sch.waiters[l], Stale)
  BY <1>3, <1>9 DEF Enqueue, WithRunq
<1> QED BY <1>2, <1>3, <1>4, <1>5, <1>6, <1>7, <1>8, <1>9
        DEF PlainStep, RouseStep, ReturnStep, Nudge, MainExits

\* So a stale token stays in a list that nobody uses any more.
LEMMA StepKeepsStale ==
  ASSUME Base, Seats, StaleSeat, Rescues = FALSE, PlainStep, [Next]_vars
  PROVE  StaleSeat' \/ Dead(Main)'
<1>1. /\ Main \in Procs /\ Main # None /\ status \in [Procs -> Statuses] /\ call \in [Procs -> Calls]
      /\ \A p \in Procs : /\ call[p].on \in Mutexes <=> call[p].op = "lock"
                          /\ call[p].on \in Queues <=> call[p].op = "pop"
  BY BaseFacts, ObjectAssumption
<1>2. \A p \in Procs : call'[p].op = "lock" => owner'[call'[p].on] # p
  BY NextInv DEF Base, Inv, LockInv
<1>3. ASSUME NEW l \in Objects, Contains(sch'.waiters[l], Stale), ~Dead(Main)'
      PROVE  Gone' /\ (l \in Mutexes => owner'[l] # Main)
  <2>1. CASE Contains(sch.waiters[l], Stale)
    BY <1>1, <1>3, <2>1, GoneSteps DEF StaleSeat
  <2>2. CASE DeadlockError /\ call[Main].on = l
    <3>1. call[Main].op \in {"lock", "pop"} /\ (l \in Mutexes => call[Main].op = "lock")
      BY <1>1, <2>2 DEF Objects
    <3>2. PICK c : c = Ended(call[Main], "raise")
      OBVIOUS
    <3>3. c.on = call[Main].on /\ c.op = call[Main].op /\ c.res = "raise"
      BY <3>2 DEF Ended
    <3>4. status'[Main] = "woken" /\ call'[Main] = c
      BY <1>1, <2>2, <3>2 DEF DeadlockError, Wakes
    <3> QED BY <1>1, <1>2, <2>2, <3>1, <3>3, <3>4 DEF Gone
  <2> QED BY <1>3, <2>1, <2>2, StaleSteps
<1> QED BY <1>3 DEF StaleSeat

-----------------------------------------------------------------------------
(* Wakes reach those who wait.                                             *)

\* The list that tables with another list have there.
LEMMA ListReplaced ==
  ASSUME NEW s, NEW l \in Lists, NEW w, NEW r, r = WithList(s, l, w), r \in Sch
  PROVE  r.waiters[l] = w
<1>1. r.waiters = [s.waiters EXCEPT ![l] = w]
  BY DEF WithList
<1>2. DOMAIN r.waiters = Lists
  BY DEF Sch
<1> QED BY <1>1, <1>2

\* __coop_wake_one wakes somebody who waits, if anybody does.
LEMMA WakeOneHits ==
  ASSUME Base, Seats, NEW l \in Objects, ~Contains(sch.waiters[l], Stale), Waiting(l) # {},
         NEW r, r = WakeOne(sch, l)
  PROVE  \E x \in Procs : Waits(x, l) /\ ~Contains(r.waiters[l], x)
<1>1. sch \in Sch /\ l \in Lists /\ Main \notin Threads
  BY BaseFacts
<1>2. PICK w : w = sch.waiters[l]
  OBVIOUS
<1>3. w \in Seq(Entries) /\ Once(w) /\ ~Contains(w, Stale)
  BY <1>1, <1>2 DEF Sch, Seats, MainSeat
<1>4. \A x \in Threads : Contains(w, x) => ~Dead(x) /\ sch.park[x] = l
  BY <1>2, WaitersSit DEF Waits, Dead, Procs
<1> DEFINE I == {i \in 1..Len(w) : w[i] \notin Threads \/ ~Dead(w[i])}
<1>5. PICK i : i = SelectInSeq(w, LAMBDA e : e \notin Threads \/ ~Dead(e))
  OBVIOUS
<1>6. i = IF I # {} THEN Min(I) ELSE 0
  BY <1>5 DEF SelectInSeq
<1>7. i \in I
  <2>1. I \subseteq Nat
    OBVIOUS
  <2>2. I # {}
    <3>1. PICK x \in Procs : Contains(w, x)
      BY <1>2 DEF Waiting, Waits
    <3>2. PICK j \in 1..Len(w) : w[j] = x
      BY <3>1 DEF Contains
    <3> QED BY <1>4, <3>1, <3>2 DEF Contains
  <2> HIDE DEF I
  <2> QED BY <1>6, <2>1, <2>2, MinIsLeast
<1>8. i \in 1..Len(w) /\ i # 0
  BY <1>7
<1> HIDE DEF I
<1>9. PICK x : x = w[i]
  OBVIOUS
<1>10. x \in Procs /\ Contains(w, x)
  BY <1>3, <1>8, <1>9 DEF Entries, Contains, Procs
<1>11. PICK v : v = SubSeq(w, i + 1, Len(w))
  OBVIOUS
<1>12. v \in Seq(Entries) /\ \A j \in 1..Len(v) : v[j] = w[i + j] /\ i + j \in 1..Len(w)
  BY <1>3, <1>8, <1>11
<1>13. PICK u : u = WithList(sch, l, v)
  OBVIOUS
<1>14. u \in Sch /\ u.park = sch.park
  BY <1>1, <1>12, <1>13, TableTypes DEF WithList
<1>15. u.waiters[l] = v
  BY <1>1, <1>13, <1>14, ListReplaced
<1>16. r = IF x \notin Threads THEN u ELSE MakeRunnable(u, x)
  BY <1>2, <1>5, <1>8, <1>9, <1>11, <1>13 DEF WakeOne
<1>17. ~Contains(r.waiters[l], x)
  <2>1. CASE x \in Threads
    <3>1. Woke(u, r, {x})
      BY <1>4, <1>10, <1>14, <1>16, <2>1, MakeRunnableWakes
    <3> QED BY <1>1, <1>4, <1>10, <1>14, <2>1, <3>1 DEF Woke
  <2>2. CASE x \notin Threads
    <3>1. x = Main
      BY <1>10, <2>2 DEF Procs
    <3>2. ASSUME Contains(v, Main) PROVE FALSE
      <4>1. PICK j \in 1..Len(v) : v[j] = Main
        BY <3>2 DEF Contains
      <4>2. i + j = i
        BY <1>3, <1>8, <1>9, <1>12, <3>1, <4>1 DEF Once
      <4> QED BY <1>8, <4>1, <4>2
    <3> QED BY <1>15, <1>16, <2>2, <3>1, <3>2
  <2> QED BY <2>1, <2>2
<1> QED BY <1>2, <1>10, <1>17 DEF Waits

\* __coop_wake_all leaves nobody on the list.
LEMMA WakeAllEmpties ==
  ASSUME Base, NEW l \in Lists, NEW r, r = WakeAll(sch, l)
  PROVE  \A x : ~Contains(r.waiters[l], x)
<1>1. r \in Sch
  BY BaseFacts, WakeAllWakes DEF Woke
<1>2. \E s : r = WithList(s, l, <<>>)
  BY DEF WakeAll
<1>3. r.waiters[l] = <<>>
  BY <1>1, <1>2, ListReplaced
<1> QED BY <1>3 DEF Contains

\* Once MAIN has ended nothing happens.
LEMMA DeadStays ==
  ASSUME Base, Dead(Main), PlainStep
  PROVE  Dead(Main)'
<1>1. /\ status \in [Procs -> Statuses] /\ Main \in Procs /\ Main \notin Threads
      /\ status[Main] = "dead"
  BY BaseFacts DEF Dead
<1>2. ASSUME NEW p \in Procs, NEW x, status[p] # "dead", status' = [status EXCEPT ![p] = x]
      PROVE  status'[Main] = "dead"
  BY <1>1, <1>2
<1>3. ASSUME NEW t, ResumeStep(t) PROVE status'[Main] = "dead"
  BY <1>1, <1>2, <1>3 DEF ResumeStep, Wakes, Procs
<1>4. ASSUME UNCHANGED status PROVE status'[Main] = "dead"
  BY <1>1, <1>4
<1>5. ASSUME NEW t \in Threads, NEW x, status' = [status EXCEPT ![t] = x]
      PROVE  status'[Main] = "dead"
  BY <1>1, <1>5
<1>6. ASSUME NEW p \in Procs, ParkStep(p) \/ ReturnStep(p) PROVE status'[Main] = "dead"
  BY <1>2, <1>6 DEF ParkStep, ReturnStep, Runs
<1> QED BY <1>1, <1>3, <1>4, <1>5, <1>6
        DEF PlainStep, RouseStep, Nudge, MainGoesOn, Drives, PassStep, MainExits, Ends, Dead

-----------------------------------------------------------------------------
(* What a process finds where it waits.                                    *)

\* p finds mutex l taken or takes it; it finds queue l empty and open, or takes
\* an item, or is told that there are no more.
Meets(p, l) ==
    \/ l \in Mutexes /\ owner'[l] # None
    \/ l \in Queues /\ l \notin closed' /\ items'[l] = 0
    \/ /\ l \in Queues /\ closed' = closed /\ status'[p] = "run"
       /\ items'[l] = IF items[l] = 0 THEN 0 ELSE items[l] - 1

\* What a blocking call of p names.
LEMMA BlockNames ==
  ASSUME call \in [Procs -> Calls], NEW p \in Procs, NEW s, NEW op, NEW on, NEW mx, NEW timed,
         NEW inl, NEW pend, Suspend(p, s, Calling(op, on, mx, timed, inl, pend))
  PROVE  call'[p].on = on
<1>1. PICK c : c = Calling(op, on, mx, timed, inl, pend)
  OBVIOUS
<1>2. c.on = on /\ call' = [call EXCEPT ![p] = c]
  BY <1>1 DEF Calling, Suspend
<1> QED BY <1>2

\* Mutex#lock returns, or waits for a mutex that is not free.
LEMMA AcquireMeets ==
  ASSUME Base, NEW p \in Procs, NEW m \in Mutexes, NEW inl, NEW out, Acquire(p, m, inl, out)
  PROVE  \/ status'[p] = "run"
         \/ call'[p].on = m /\ owner'[m] # None
<1>1. status \in [Procs -> Statuses] /\ call \in [Procs -> Calls]
  BY BaseFacts
<1>2. ASSUME Returns(p, out) PROVE status'[p] = "run"
  BY <1>1, <1>2 DEF Returns
<1>3. ASSUME Block(p, "lock", m, None, FALSE, inl, out) PROVE call'[p].on = m
  BY <1>1, <1>3, BlockNames DEF Block
<1> QED BY <1>2, <1>3 DEF Acquire, lockVars

\* Whoever touches an object meets it.
LEMMA TouchMeets ==
  ASSUME Base, Next, ~Dead(Main), NEW p \in Procs, NEW l \in Objects, Touches(p, l)
  PROVE  Meets(p, l)
<1>1. /\ status \in [Procs -> Statuses] /\ call \in [Procs -> Calls]
      /\ Main \in Procs /\ Threads \subseteq Procs /\ Main \notin Threads
      /\ call[p].on \in Mutexes <=> call[p].op = "lock"
      /\ call[p].on \in Queues <=> call[p].op = "pop"
      /\ None \notin Procs
  BY BaseFacts, ObjectAssumption DEF Procs
<1>2. /\ owner \in [Mutexes -> Procs \cup {None}] /\ items \in [Queues -> 0..MaxItems]
  BY DEF Base, Inv, CoreInv, TypeOK, ObjectTypeOK
<1>3. /\ p = Current /\ status[p] \in {"run", "woken"}
      /\ \/ status[p] = "woken" /\ call[p].on = l /\ call[p].res = "ok"
         \/ status'[p] # "run" /\ call'[p].on = l
  BY DEF Touches, Runs, On
<1>4. l # None /\ l \notin CVs \cup Fds \cup Threads /\ ~(l \in Mutexes /\ l \in Queues)
  BY ObjectAssumption DEF Objects
<1>5. status[p] = "run" => call[p].on = None
  BY <1>3 DEF Base, Inv, LockInv, CallsIdle, Idle, Calling
<1>6. ASSUME status[p] = "run" PROVE status'[p] # "run" /\ call'[p].on = l /\ call' # call
  BY <1>3, <1>4, <1>5, <1>6
<1>7. ASSUME NEW r, NEW op, Acts(r, op) PROVE r = p /\ status[p] = "run"
  BY <1>3, <1>7 DEF Acts
<1>8. ASSUME NEW r, NEW op, Woken(r, op)
      PROVE  /\ r = p /\ status[p] = "woken" /\ call[p].op = op
             /\ status'[p] # "run" => call'[p].on = l \/ call[p].on = l
             /\ status'[p] = "run" => call[p].on = l /\ call[p].res = "ok"
  BY <1>3, <1>8 DEF Woken
<1>9. ASSUME NEW out, Returns(p, out) PROVE status'[p] = "run"
  BY <1>1, <1>9 DEF Returns
<1>10. ASSUME NEW r \in Procs, CoreOps(r) PROVE FALSE
  <2>1. ASSUME NEW t \in Threads, Spawn(r, t) \/ Kill(r, t) \/ Wakeup(r, t) PROVE FALSE
    BY <1>6, <1>7, <2>1 DEF Spawn, Kill, Wakeup
  <2>2. ASSUME NEW op, Acts(r, op), NEW s, NEW o, NEW on, NEW mx, NEW timed, NEW inl, NEW pend,
               Suspend(r, s, Calling(o, on, mx, timed, inl, pend))
        PROVE  on = l
    BY <1>1, <1>6, <1>7, <2>2, BlockNames
  <2>3. ASSUME NEW t \in Threads, NEW timed \in BOOLEAN, Join(r, t, timed) PROVE FALSE
    BY <1>4, <2>2, <2>3 DEF Join
  <2>4. ASSUME NEW timed \in BOOLEAN, SleepOp(r, timed) PROVE FALSE
    BY <1>4, <2>2, <2>4 DEF SleepOp
  <2>5. ASSUME NEW f \in Fds, WaitFd(r, f) PROVE FALSE
    BY <1>4, <2>2, <2>5 DEF WaitFd
  <2>6. ASSUME Pass(r) \/ BareYield(r) PROVE FALSE
    BY <1>4, <2>2, <2>6 DEF Pass, BareYield
  <2> QED BY <1>10, <2>1, <2>3, <2>4, <2>5, <2>6 DEF CoreOps
<1>11. ASSUME NEW r \in Procs, NEW m \in Mutexes, Lock(r, m) PROVE Meets(p, l)
  <2>1. r = p /\ status[p] = "run"
    BY <1>7, <1>11 DEF Lock
  <2>2. PICK inl : Acquire(p, m, inl, "ok")
    BY <1>11, <2>1 DEF Lock
  <2>3. m = l /\ owner'[m] # None
    BY <1>6, <2>1, <2>2, AcquireMeets
  <2> QED BY <2>3 DEF Meets
<1>12. ASSUME NEW r \in Procs, NEW q \in Queues, Pop(r, q) PROVE Meets(p, l)
  <2>1. r = p /\ status[p] = "run" /\ call' # call
    BY <1>6, <1>7, <1>12 DEF Pop
  <2>2. PICK inl : PopParks(q) /\ Block(p, "pop", q, None, FALSE, inl, "ok")
    BY <1>12, <2>1 DEF Pop
  <2>3. q = l
    BY <1>1, <1>6, <2>1, <2>2, BlockNames DEF Block
  <2>4. items' = items /\ closed' = closed
    BY <1>12, <2>1 DEF Pop
  <2> QED BY <2>2, <2>3, <2>4 DEF Meets, PopParks
<1>13. ASSUME NEW r \in Procs, NEW cv, NEW mx, NEW timed, Wait(r, cv, mx, timed), cv \in CVs PROVE FALSE
  <2>1. r = p /\ status[p] = "run"
    BY <1>7, <1>13 DEF Wait
  <2>2. PICK s, inl : Suspend(p, s, Calling("wait", cv, mx, timed, inl, "ok"))
    BY <1>13, <2>1 DEF Wait
  <2> QED BY <1>1, <1>4, <1>6, <1>13, <2>1, <2>2, BlockNames
<1>14. ASSUME NEW r \in Procs, SyncOps(r) PROVE Meets(p, l)
  <2>1. ASSUME UNCHANGED call, NEW op, Acts(r, op) PROVE FALSE
    BY <1>6, <1>7, <2>1
  <2>2. ASSUME NEW m \in Mutexes, Unlock(r, m) PROVE FALSE
    BY <1>3, <1>6, <2>2 DEF Unlock
  <2> QED BY <1>11, <1>12, <1>13, <1>14, <2>1, <2>2
          DEF SyncOps, TryLock, Push, Clear, Close, Signal, Broadcast
<1>15. ASSUME NEW r \in Procs, Continue(r) PROVE FALSE
  <2>1. PICK op \in {"none", "sleep", "fd", "join", "pass", "yield"} : Woken(r, op)
    BY <1>15 DEF Continue
  <2>2. PICK out : Returns(r, out)
    BY <1>15 DEF Continue
  <2> QED BY <1>1, <1>8, <1>9, <2>1, <2>2 DEF Objects
<1>16. ASSUME NEW r \in Procs, ContinueLock(r) PROVE Meets(p, l)
  <2>1. r = p /\ Woken(p, "lock") /\ call[p].on \in Mutexes
    BY <1>1, <1>8, <1>16 DEF ContinueLock
  <2>2. PICK c : c = call[p]
    OBVIOUS
  <2>3. CASE c.res # "ok" /\ Returns(p, c.res)
    BY <1>8, <1>9, <2>1, <2>2, <2>3
  <2>4. CASE Take(p, c.on) /\ Returns(p, c.pend)
    <3>1. c.on = l
      BY <1>8, <1>9, <2>1, <2>2, <2>4
    <3>2. owner' = [owner EXCEPT ![l] = p]
      BY <2>4, <3>1 DEF Take
    <3> QED BY <1>1, <1>2, <2>1, <2>2, <3>1, <3>2 DEF Meets
  <2>5. CASE ~MayTake(p, c.on) /\ Block(p, "lock", c.on, None, FALSE, c.inl, c.pend) /\ UNCHANGED lockVars
    <3>1. call'[p].on = c.on
      BY <1>1, <2>5, BlockNames DEF Block
    <3>2. c.on = l
      BY <1>3, <2>2, <3>1
    <3> QED BY <2>1, <2>2, <2>5, <3>2 DEF Meets, MayTake, lockVars
  <2> QED BY <1>16, <2>1, <2>2, <2>3, <2>4, <2>5 DEF ContinueLock
<1>17. ASSUME NEW r \in Procs, ContinuePop(r) PROVE Meets(p, l)
  <2>1. r = p /\ Woken(p, "pop") /\ call[p].on \in Queues /\ closed' = closed
    BY <1>1, <1>8, <1>17 DEF ContinuePop
  <2>2. PICK c : c = call[p]
    OBVIOUS
  <2>3. CASE c.res # "ok" /\ Returns(p, c.res)
    BY <1>8, <1>9, <2>1, <2>2, <2>3
  <2>4. CASE Shift(c.on) /\ Returns(p, "ok")
    <3>1. c.on = l /\ status'[p] = "run"
      BY <1>8, <1>9, <2>1, <2>2, <2>4
    <3>2. items'[l] = IF items[l] = 0 THEN 0 ELSE items[l] - 1
      BY <1>2, <2>1, <2>2, <2>4, <3>1 DEF Shift
    <3> QED BY <2>1, <2>2, <3>1, <3>2 DEF Meets
  <2>5. CASE PopParks(c.on) /\ Block(p, "pop", c.on, None, FALSE, c.inl, "ok") /\ UNCHANGED items
    <3>1. call'[p].on = c.on
      BY <1>1, <2>5, BlockNames DEF Block
    <3>2. c.on = l
      BY <1>3, <2>2, <3>1
    <3> QED BY <2>1, <2>2, <2>5, <3>2 DEF Meets, PopParks
  <2> QED BY <1>17, <2>1, <2>2, <2>3, <2>4, <2>5 DEF ContinuePop
<1>18. ASSUME NEW r \in Procs, ContinueWait(r) PROVE Meets(p, l)
  <2>1. r = p /\ Woken(p, "wait") /\ call[p].on # l
    BY <1>1, <1>8, <1>18 DEF ContinueWait, Objects
  <2>2. PICK c : c = call[p]
    OBVIOUS
  <2>3. c.mx \in Mutexes \cup {None} /\ status'[p] # "run" /\ call'[p].on = l
    BY <1>1, <1>3, <2>1, <2>2 DEF Calls
  <2>4. c.mx # None /\ Acquire(p, c.mx, c.inl, c.res)
    BY <1>9, <1>18, <2>1, <2>2, <2>3 DEF ContinueWait
  <2>5. c.mx = l /\ owner'[l] # None
    BY <2>3, <2>4, AcquireMeets
  <2> QED BY <2>3, <2>4, <2>5 DEF Meets
<1>19. ASSUME NEW r, Drives(r) PROVE FALSE
  BY <1>3, <1>19 DEF Drives
<1>20. ASSUME Scheduler PROVE FALSE
  BY <1>19, <1>20 DEF Scheduler, MainWakes, ScheduleStep, SchedulePoll, DeadlockError, InlineWakes,
     InlineDropsDead, InlineRotates, InlineRuns, InlinePoll, InlineError, InlineHead
<1>21. ASSUME MainPass PROVE FALSE
  <2>1. p = Main /\ status[p] = "run" /\ call' # call /\ call'[p].on = l
    BY <1>6, <1>7, <1>21 DEF MainPass
  <2>2. PICK c : c = Calling("pass", None, None, FALSE, FALSE, "ok")
    OBVIOUS
  <2>3. PICK t, d : call' = [call EXCEPT ![t] = d, ![Main] = c]
    BY <1>21, <2>1, <2>2 DEF MainPass
  <2>4. call'[Main] = c /\ c.on = None
    BY <1>1, <2>2, <2>3 DEF Calling
  <2> QED BY <1>4, <2>1, <2>4
<1>22. ASSUME NEW t \in Threads, ThreadEnds(t) PROVE FALSE
  BY <1>3, <1>6, <1>22 DEF ThreadEnds, Finish
<1>23. ASSUME MainExits PROVE FALSE
  BY <1>3, <1>6, <1>23 DEF MainExits
<1> QED BY <1>10, <1>14, <1>15, <1>16, <1>17, <1>18, <1>20, <1>21, <1>22, <1>23 DEF Next, Exited

-----------------------------------------------------------------------------
(* A mutex that becomes free and an item that is pushed reach a waiter.    *)

\* Somebody stops to wait for l and is to look again.
Reached(l) == \E x \in Procs : Waits(x, l) /\ ~Waits(x, l)' /\ On(x, l)'

\* The list of a mutex that the executing process owns, and of a queue that it
\* may push to, has no stale token.
LEMMA NoStaleToken ==
  ASSUME Base, StaleSeat, NEW l \in Objects, NEW p,
         \/ l \in Mutexes /\ owner[l] = p /\ p = Current
         \/ \E op : Acts(p, op)
  PROVE  ~Contains(sch.waiters[l], Stale)
<1> SUFFICES ASSUME Contains(sch.waiters[l], Stale) PROVE FALSE
  OBVIOUS
<1>1. Gone /\ (l \in Mutexes => owner[l] # Main)
  BY DEF StaleSeat
<1>2. Main = Current
  BY <1>1, MainRunsAlone DEF Gone, Base, Inv
<1> QED BY <1>1, <1>2 DEF Gone, Acts

\* After a wake, and nothing else, somebody is reached.
LEMMA WakeReaches ==
  ASSUME Base, Seats, NEW l \in Objects, ~Contains(sch.waiters[l], Stale), Waiting(l) # {},
         sch' = WakeOne(sch, l), UNCHANGED <<status, call>>
  PROVE  Reached(l)
<1>1. PICK x \in Procs : Waits(x, l) /\ ~Contains(sch'.waiters[l], x)
  BY WakeOneHits
<1>2. On(x, l)'
  BY <1>1, WaitersSit DEF On
<1> QED BY <1>1, <1>2 DEF Reached, Waits

\* And when the process that woke it goes to wait elsewhere.
LEMMA WakeAndPark ==
  ASSUME Base, Seats, NEW l \in Objects, ~Contains(sch.waiters[l], Stale), Waiting(l) # {},
         NEW p \in Procs, p = Current, status[p] = "run", NEW k \in Lists, NEW timed \in BOOLEAN,
         NEW c, Suspend(p, Register(WakeOne(sch, l), p, k, timed), c)
  PROVE  Reached(l)
<1>1. /\ status \in [Procs -> Statuses] /\ call \in [Procs -> Calls] /\ sch \in Sch /\ l \in Lists
  BY BaseFacts
<1>2. PICK s : s = WakeOne(sch, l)
  OBVIOUS
<1>3. s \in Sch
  BY <1>1, <1>2, WakeOneWakes DEF Woke
<1>4. PICK x \in Procs : Waits(x, l) /\ ~Contains(s.waiters[l], x)
  BY <1>2, WakeOneHits
<1>5. On(x, l) /\ x # p
  BY <1>4, WaitersSit
<1>6. PICK r : r = Register(s, p, k, timed)
  OBVIOUS
<1>7. Parks(s, r, p)
  BY <1>3, <1>6, RegisterParks
<1>8. ~Contains(r.waiters[l], x)
  BY <1>1, <1>4, <1>5, <1>7 DEF Parks, Marked, Procs
<1>9. Suspend(p, r, c)
  BY <1>2, <1>6
<1>10. sch' = r \/ sch' = Requeue(r, p)
  BY <1>9 DEF Suspend
<1>11. sch'.waiters = r.waiters
  BY <1>10 DEF Requeue, Enqueue, WithRunq
<1>12. status'[x] = status[x] /\ call'[x] = call[x]
  BY <1>1, <1>5, <1>9 DEF Suspend
<1> QED BY <1>4, <1>5, <1>8, <1>11, <1>12 DEF Reached, Waits, On

\* Only Mutex#unlock frees a mutex, by itself or in ConditionVariable#wait.
LEMMA FreedReaches ==
  ASSUME Base, Seats, StaleSeat, [Next]_vars, NEW m \in Mutexes, owner[m] # None, owner'[m] = None,
         Waiting(m) # {}
  PROVE  Reached(m)
<1>1. owner \in [Mutexes -> Procs \cup {None}] /\ None \notin Procs /\ m \in Objects /\ CVs \subseteq Lists
      /\ owner' # owner
  BY ObjectAssumption DEF Base, Inv, CoreInv, TypeOK, ObjectTypeOK, Procs, Objects, Lists
<1>2. ASSUME NEW p \in Procs, NEW n, Take(p, n) PROVE FALSE
  BY <1>1, <1>2 DEF Take
<1>3. ASSUME UNCHANGED lockVars PROVE FALSE
  BY <1>1, <1>3 DEF lockVars
<1>4. ASSUME NEW p \in Procs, NEW n, NEW inl, NEW out, Acquire(p, n, inl, out) PROVE FALSE
  BY <1>1, <1>2, <1>3, <1>4 DEF Acquire
<1>5. ASSUME NEW p, NEW n, ReleaseLock(p, n)
      PROVE  n = m /\ owner[m] = p /\ Unlocked(p, n) = WakeOne(sch, m)
  BY <1>1, <1>5 DEF ReleaseLock, Unlocked
<1>6. ASSUME NEW p \in Procs, NEW n \in Mutexes, Unlock(p, n) PROVE Reached(m)
  <2>1. /\ sch' = WakeOne(sch, m) /\ UNCHANGED <<status, call>> /\ owner[m] = p /\ p = Current
    BY <1>5, <1>6 DEF Unlock
  <2> QED BY <1>1, <2>1, NoStaleToken, WakeReaches
<1>7. ASSUME NEW p \in Procs, NEW cv \in CVs, NEW mx, NEW timed \in BOOLEAN, Wait(p, cv, mx, timed)
      PROVE  Reached(m)
  <2>1. mx # None /\ ReleaseLock(p, mx)
    BY <1>3, <1>7 DEF Wait
  <2>2. owner[m] = p /\ Unlocked(p, mx) = WakeOne(sch, m) /\ p = Current /\ status[p] = "run"
    BY <1>5, <1>7, <2>1 DEF Wait, Acts
  <2>3. PICK c : Suspend(p, Register(WakeOne(sch, m), p, cv, timed), c)
    BY <1>7, <2>1, <2>2 DEF Wait
  <2>4. cv \in Lists /\ ~Contains(sch.waiters[m], Stale)
    BY <1>1, <2>2, NoStaleToken
  <2> QED BY <1>1, <2>2, <2>3, <2>4, WakeAndPark
<1>8. ASSUME NEW p \in Procs, SyncOps(p) PROVE Reached(m)
  BY <1>2, <1>3, <1>4, <1>6, <1>7, <1>8 DEF SyncOps, Lock, TryLock, Push, Pop, Clear, Close, Signal,
     Broadcast
<1>9. ASSUME NEW p \in Procs, Continue(p) \/ ContinueLock(p) \/ ContinuePop(p) \/ ContinueWait(p) PROVE FALSE
  BY <1>2, <1>3, <1>4, <1>9 DEF Continue, ContinueLock, ContinuePop, ContinueWait
<1>10. ASSUME UNCHANGED vars PROVE FALSE
  BY <1>3, <1>10 DEF vars
<1> QED BY <1>3, <1>8, <1>9, <1>10 DEF Next, Exited, ThreadEnds, MainExits

\* Only Queue#push gives a queue an item, and only Queue#close closes it.
LEMMA FilledReaches ==
  ASSUME Base, Seats, StaleSeat, [Next]_vars, NEW q \in Queues, Waiting(q) # {}
  PROVE  \/ items'[q] <= items[q] /\ (q \in closed' => q \in closed)
         \/ items'[q] = items[q] + 1 /\ closed' = closed /\ Reached(q)
         \/ \A x : ~Contains(sch'.waiters[q], x)
<1>1. items \in [Queues -> Nat] /\ q \in Objects /\ q \in Lists
  BY BoundAssumption DEF Base, Inv, CoreInv, TypeOK, ObjectTypeOK, Objects, Lists
<1> DEFINE Less == items'[q] <= items[q] /\ (q \in closed' => q \in closed)
<1>2. ASSUME UNCHANGED queueVars PROVE Less
  BY <1>1, <1>2 DEF queueVars
<1>3. ASSUME NEW x, Shift(x), closed' = closed PROVE Less
  BY <1>1, <1>3 DEF Shift
<1>4. ASSUME UNCHANGED <<items, closed>> PROVE Less
  BY <1>1, <1>4
<1>5. ASSUME NEW p, NEW x, Clear(p, x) PROVE Less
  BY <1>1, <1>5 DEF Clear
<1>6. ASSUME NEW p \in Procs, NEW x, Push(p, x)
      PROVE  Less \/ (items'[q] = items[q] + 1 /\ closed' = closed /\ Reached(q))
  <2>1. CASE x = q
    <3>1. Acts(p, "push") /\ sch' = WakeOne(sch, q) /\ UNCHANGED <<status, call>>
          /\ items'[q] = items[q] + 1 /\ closed' = closed
      BY <1>1, <1>6, <2>1 DEF Push
    <3>2. Reached(q)
      BY <1>1, <3>1, NoStaleToken, WakeReaches
    <3> QED BY <3>1, <3>2
  <2>2. CASE x # q
    BY <1>1, <1>6, <2>2 DEF Push
  <2> QED BY <2>1, <2>2
<1>7. ASSUME NEW p, NEW x, Close(p, x) PROVE Less \/ \A y : ~Contains(sch'.waiters[q], y)
  <2>1. CASE x = q
    BY <1>1, <1>7, <2>1, WakeAllEmpties DEF Close
  <2>2. CASE x # q
    BY <1>1, <1>7, <2>2 DEF Close
  <2> QED BY <2>1, <2>2
<1>8. ASSUME NEW p, NEW x, Pop(p, x) PROVE Less
  BY <1>3, <1>4, <1>8 DEF Pop
<1>9. ASSUME NEW p, ContinuePop(p) PROVE Less
  BY <1>3, <1>4, <1>9 DEF ContinuePop
<1> HIDE DEF Less
<1>10. ASSUME NEW p \in Procs, SyncOps(p)
       PROVE  \/ Less \/ (items'[q] = items[q] + 1 /\ closed' = closed /\ Reached(q))
              \/ \A x : ~Contains(sch'.waiters[q], x)
  BY <1>2, <1>5, <1>6, <1>7, <1>8, <1>10
     DEF SyncOps, Lock, TryLock, Unlock, Signal, Broadcast, Wait
<1>11. ASSUME UNCHANGED vars PROVE Less
  BY <1>2, <1>11 DEF vars
<1>12. ASSUME NEW p, Continue(p) \/ ContinueLock(p) \/ ContinueWait(p) PROVE Less
  BY <1>2, <1>12 DEF Continue, ContinueLock, ContinueWait
<1>13. ASSUME NEW t, ThreadEnds(t) PROVE Less
  BY <1>2, <1>13 DEF ThreadEnds
<1>14. ASSUME MainExits PROVE Less
  BY <1>2, <1>14 DEF MainExits
<1>15. Less \/ (items'[q] = items[q] + 1 /\ closed' = closed /\ Reached(q))
       \/ \A x : ~Contains(sch'.waiters[q], x)
  BY <1>2, <1>9, <1>10, <1>11, <1>12, <1>13, <1>14 DEF Next, Exited
<1> QED BY <1>15 DEF Less

-----------------------------------------------------------------------------
(* Every step keeps the invariant.                                         *)

\* Whoever no longer waits, or looks again, keeps its place at what nobody
\* touches: the waiters become fewer and those who are to look again more.
LEMMA UntouchedKeeps ==
  ASSUME Base, Seats, PlainStep, NEW l \in Objects, NEW T, \A x \in Procs : Touches(x, l) => x \in T
  PROVE  /\ Waiting(l)' \ T \subseteq Waiting(l)
         /\ Contending(l) \ T \subseteq Contending(l)'
<1>1. ASSUME NEW x \in Procs, x \notin T PROVE Keeps(x, l)
  BY <1>1, StepKeepsPlaces
<1>2. ASSUME NEW x \in Procs, x \notin T, Waits(x, l)' PROVE Waits(x, l)
  BY <1>1, <1>2 DEF Keeps
<1>3. ASSUME NEW x \in Procs, x \notin T, Contends(x, l) PROVE Contends(x, l)'
  BY <1>1, <1>3 DEF Keeps, Contends
<1> QED BY <1>2, <1>3 DEF Waiting, Contending

\* Whoever is reached is to look again.
LEMMA ReachedContends ==
  ASSUME NEW l, Reached(l)
  PROVE  \E x \in Procs : x \in Contending(l)' /\ x \notin Contending(l)
BY DEF Reached, Contending, Contends

\* A free mutex stays offered.
LEMMA StepKeepsOffered ==
  ASSUME Base, Steadfast, PlainStep, Next, ~Dead(Main), NEW m \in Mutexes
  PROVE  Offered(m)'
<1>1. SUFFICES ASSUME owner'[m] = None, Waiting(m)' # {} PROVE Contending(m)' # {}
  BY DEF Offered
<1>2. m \in Objects /\ m \notin Queues /\ Seats /\ StaleSeat /\ Offered(m)
  BY ObjectAssumption DEF Objects, Steadfast
<1>3. ASSUME NEW x \in Procs, Touches(x, m) PROVE FALSE
  BY <1>1, <1>2, <1>3, TouchMeets DEF Meets
<1>4. Waiting(m) # {} /\ Contending(m) \subseteq Contending(m)'
  <2>1. \A x \in Procs : Touches(x, m) => x \in {}
    BY <1>3
  <2>2. Waiting(m)' \ {} \subseteq Waiting(m) /\ Contending(m) \ {} \subseteq Contending(m)'
    BY ONLY <1>2, <2>1, UntouchedKeeps, Base, PlainStep
  <2> QED BY <1>1, <2>2
<1>5. CASE owner[m] = None
  BY <1>2, <1>4, <1>5 DEF Offered
<1>6. CASE owner[m] # None
  <2>1. Reached(m)
    BY <1>1, <1>2, <1>4, <1>6, FreedReaches
  <2> QED BY <2>1, ReachedContends
<1> QED BY <1>5, <1>6

\* The processes that are to look again are finitely many.
LEMMA ContendersCount ==
  ASSUME NEW l
  PROVE  /\ IsFiniteSet(Contending(l)) /\ IsFiniteSet(Contending(l)')
         /\ Cardinality(Contending(l)) \in Nat /\ Cardinality(Contending(l)') \in Nat
<1>1. IsFiniteSet(Procs)
  BY ObjectAssumption, FS_AddElement DEF Procs
<1>2. Contending(l) \subseteq Procs /\ Contending(l)' \subseteq Procs
  BY DEF Contending
<1> QED BY <1>1, <1>2, FS_Subset, FS_CardinalityType

\* Every item of a queue that somebody waits at stays with somebody.
LEMMA StepKeepsFetched ==
  ASSUME Base, Steadfast, PlainStep, Next, ~Dead(Main), NEW q \in Queues
  PROVE  Fetched(q)'
<1>1. SUFFICES ASSUME Waiting(q)' # {}
               PROVE  q \notin closed' /\ items'[q] <= Cardinality(Contending(q)')
  BY DEF Fetched
<1>2. q \in Objects /\ q \notin Mutexes /\ Seats /\ StaleSeat /\ Fetched(q)
  BY ObjectAssumption DEF Objects, Steadfast
<1>3. items[q] \in Nat
  BY BoundAssumption DEF Base, Inv, CoreInv, TypeOK, ObjectTypeOK
<1>4. PICK A, B : A = Contending(q) /\ B = Contending(q)'
  OBVIOUS
<1>5. IsFiniteSet(A) /\ IsFiniteSet(B) /\ Cardinality(A) \in Nat /\ Cardinality(B) \in Nat
  BY <1>4, ContendersCount
<1>6. CASE \E p \in Procs : Touches(p, q)
  <2>1. PICK p \in Procs : Touches(p, q)
    BY <1>6
  <2>2. CASE q \notin closed' /\ items'[q] = 0
    BY <1>4, <1>5, <2>2
  <2>3. CASE /\ closed' = closed /\ status'[p] = "run"
             /\ items'[q] = IF items[q] = 0 THEN 0 ELSE items[q] - 1
    <3>1. p = Current /\ ~Waits(p, q)'
      BY <2>1, <2>3 DEF Touches, Runs, On
    <3>2. \A x \in Procs : Touches(x, q) => x \in {p}
      BY <3>1 DEF Touches, Runs
    <3>3. Waiting(q)' \ {p} \subseteq Waiting(q) /\ A \ {p} \subseteq B
      BY ONLY <1>2, <1>4, <3>2, UntouchedKeeps, Base, PlainStep
    <3>4. Waiting(q) # {}
      BY <1>1, <3>1, <3>3 DEF Waiting
    <3>5. q \notin closed /\ items[q] <= Cardinality(A)
      BY <1>2, <1>4, <3>4 DEF Fetched
    <3>6. Cardinality(A) - 1 <= Cardinality(B)
      <4>1. /\ IsFiniteSet(A \ {p}) /\ Cardinality(A \ {p}) \in Nat
            /\ Cardinality(A \ {p}) = IF p \in A THEN Cardinality(A) - 1 ELSE Cardinality(A)
        BY ONLY <1>5, FS_RemoveElement, FS_CardinalityType
      <4>2. Cardinality(A \ {p}) <= Cardinality(B)
        BY ONLY <1>5, <3>3, FS_Subset
      <4> QED BY ONLY <1>5, <4>1, <4>2
    <3> QED BY <1>3, <1>4, <1>5, <2>3, <3>5, <3>6
  <2> QED BY <1>2, <2>1, <2>2, <2>3, TouchMeets DEF Meets
<1>7. CASE ~\E p \in Procs : Touches(p, q)
  <2>1. \A x \in Procs : Touches(x, q) => x \in {}
    BY <1>7
  <2>2. Waiting(q)' \ {} \subseteq Waiting(q) /\ A \ {} \subseteq B
    BY ONLY <1>2, <1>4, <2>1, UntouchedKeeps, Base, PlainStep
  <2>3. Waiting(q) # {} /\ A \subseteq B
    BY <1>1, <2>2
  <2>4. q \notin closed /\ items[q] <= Cardinality(A)
    BY <1>2, <1>4, <2>3 DEF Fetched
  <2>5. Cardinality(A) <= Cardinality(B)
    BY ONLY <1>5, <2>3, FS_Subset
  <2>6. CASE items'[q] <= items[q] /\ (q \in closed' => q \in closed)
    <3>1. items'[q] \in Nat
      BY NextInv, BoundAssumption DEF Base, Inv, CoreInv, TypeOK, ObjectTypeOK
    <3> QED BY <1>3, <1>4, <1>5, <2>4, <2>5, <2>6, <3>1
  <2>7. CASE items'[q] = items[q] + 1 /\ closed' = closed /\ Reached(q)
    <3>1. PICK x : x \in B /\ x \notin A
      BY <1>4, <2>7, ReachedContends
    <3>2. Cardinality(A \cup {x}) = Cardinality(A) + 1 /\ IsFiniteSet(A \cup {x})
      BY ONLY <1>5, <3>1, FS_AddElement
    <3>3. A \cup {x} \subseteq B
      BY <2>3, <3>1
    <3>4. Cardinality(A) + 1 <= Cardinality(B)
      BY ONLY <1>5, <3>2, <3>3, FS_Subset
    <3> QED BY <1>3, <1>4, <1>5, <2>4, <2>7, <3>4
  <2>8. CASE \A x : ~Contains(sch'.waiters[q], x)
    BY <1>1, <2>8 DEF Waiting, Waits
  <2> QED BY <1>2, <2>3, <2>6, <2>7, <2>8, FilledReaches
<1> QED BY <1>6, <1>7

\* As long as MAIN lives the invariant is kept.
LEMMA StepKeepsSteadfast ==
  ASSUME Base, Steadfast, Rescues = FALSE, [Next]_vars, ~Dead(Main)
  PROVE  Steadfast' \/ Dead(Main)'
<1>1. PlainStep /\ Seats /\ StaleSeat
  BY ExactIsPlain DEF Base, Inv, Steadfast
<1>2. CASE UNCHANGED vars
  BY <1>2 DEF vars, coreVars, lockVars, queueVars, Steadfast, Seats, ThreadSeats, NoLimit, MainSeat, On,
     Waits, Waiting, Contends, Contending, StaleSeat, Gone, Offered, Fetched
<1>3. CASE Next
  <2>1. Seats'
    BY <1>1, StepKeepsThreadSeats, StepKeepsNoLimit, StepKeepsMainSeat DEF Seats
  <2>2. StaleSeat' \/ Dead(Main)'
    BY <1>1, StepKeepsStale
  <2>3. \A m \in Mutexes : Offered(m)'
    BY <1>1, <1>3, StepKeepsOffered
  <2>4. \A q \in Queues : Fetched(q)'
    BY <1>1, <1>3, StepKeepsFetched
  <2> QED BY <2>1, <2>2, <2>3, <2>4 DEF Steadfast
<1> QED BY <1>2, <1>3

-----------------------------------------------------------------------------
(* No wake-up is lost.                                                     *)

\* Nobody is told to die, and as long as MAIN lives nobody is stranded.
StrandInv == killed = {} /\ (Dead(Main) \/ Steadfast)

LEMMA StrandInvariant ==
  ASSUME TRUE \notin Inline, "kill" \notin MainOps \cup ThreadOps, Rescues = FALSE
  PROVE  Spec => []StrandInv
<1>1. ASSUME Init PROVE StrandInv
  <2>1. /\ Main \in Procs /\ Objects \subseteq Lists
    BY DEF Procs, Objects, Lists
  <2>2. \A l \in Objects : sch.waiters[l] = <<>>
    BY <1>1, <2>1 DEF Init, CoreInit
  <2>3. \A l \in Objects : \A x : ~Contains(sch.waiters[l], x)
    BY <2>2 DEF Contains
  <2>4. \A p \in Procs : status[p] \in {"run", "unborn"} /\ call[p].op = "none"
    BY <1>1 DEF Init, CoreInit, Idle, Calling
  <2>5. ThreadSeats /\ NoLimit
    BY <2>4 DEF ThreadSeats, NoLimit, Procs
  <2>6. MainSeat
    BY <2>2, <2>3 DEF MainSeat, Waits, Once
  <2>7. StaleSeat
    BY <2>3 DEF StaleSeat
  <2>8. \A l \in Objects : Waiting(l) = {}
    BY <2>3 DEF Waiting, Waits
  <2>9. (\A m \in Mutexes : Offered(m)) /\ (\A q \in Queues : Fetched(q))
    BY <2>8 DEF Offered, Fetched, Objects
  <2>10. killed = {}
    BY <1>1 DEF Init, CoreInit
  <2> QED BY <2>5, <2>6, <2>7, <2>9, <2>10 DEF StrandInv, Steadfast, Seats
<1>2. ASSUME Inv, ExactInv, StrandInv, [Next]_vars PROVE StrandInv'
  <2>1. Base
    BY <1>2 DEF Base, ExactInv, StrandInv
  <2>2. killed' = {}
    BY <1>2, NobodyIsKilled DEF StrandInv
  <2>3. PlainStep
    BY <1>2, ExactIsPlain DEF Inv, ExactInv
  <2>4. CASE Dead(Main)
    BY <2>1, <2>2, <2>3, <2>4, DeadStays DEF StrandInv
  <2>5. CASE ~Dead(Main)
    BY <1>2, <2>1, <2>2, <2>5, StepKeepsSteadfast DEF StrandInv
  <2> QED BY <2>4, <2>5
<1> QED BY <1>1, <1>2, ThreadsInvariant, ExactInvariant, PTL DEF Spec

\* Whoever is to look again has its wake-up.
LEMMA ContendersHaveWakes ==
  ASSUME Base, Seats, NEW l \in Objects, NEW op,
         (l \in Mutexes /\ op = "lock") \/ (l \in Queues /\ op = "pop"),
         NEW p \in Contending(l)
  PROVE  p \in Procs /\ Contender(p, op, l)
<1>1. p \in Procs /\ On(p, l) /\ ~Waits(p, l)
  BY DEF Contending, Contends
<1>2. call[p].op = op
  BY <1>1, BaseFacts DEF On
<1>3. HasWake(p)
  <2>1. CASE p = Main
    BY <1>1, <2>1 DEF HasWake, Waits, On
  <2>2. CASE p # Main
    <3>1. p \in Threads /\ status[p] \in {"parked", "woken"}
      BY <1>1, <2>2 DEF Procs, On, Base, Exact
    <3>2. CASE status[p] = "parked"
      <4>1. sch.park[p] \in {None, l} /\ sch.nap[p] = "no"
        BY <1>1, <1>2, <3>1, <3>2 DEF Seats, ThreadSeats, On
      <4>2. l # None
        BY BaseFacts
      <4>3. sch.park[p] = None
        BY <1>1, <3>1, <3>2, <4>1, <4>2 DEF Waits, Base, Inv, CoreInv, Linked, LinkedAt
      <4>4. Queued(sch, p)
        BY <3>1, <3>2, <4>1, <4>3 DEF Base, Inv, CoreInv, Findable
      <4> QED BY <2>2, <4>4 DEF HasWake
    <3>3. CASE status[p] = "woken"
      BY <2>2, <3>3 DEF HasWake
    <3> QED BY <3>1, <3>2, <3>3
  <2> QED BY <2>1, <2>2
<1> QED BY <1>1, <1>2, <1>3 DEF On, Contender, Base

\* No wake-up on a mutex is lost: while it is free and a process is parked in
\* Mutex#lock, some process woken for it has yet to look again.  For programs
\* that park in their fibers, kill no thread and rescue no ThreadError.
THEOREM NoLockerIsStranded ==
  ASSUME TRUE \notin Inline, "kill" \notin MainOps \cup ThreadOps, Rescues = FALSE
  PROVE  Spec => []NoStrandedLocker
<1>1. ASSUME Inv, ExactInv, StrandInv PROVE NoStrandedLocker
  <2>1. SUFFICES ASSUME ~Dead(Main), NEW m \in Mutexes, owner[m] = None, WaitsOn(m)
                 PROVE  \E p \in Procs : Contender(p, "lock", m)
    BY DEF NoStrandedLocker
  <2>2. Base /\ Seats /\ Offered(m) /\ m \in Objects
    BY <1>1, <2>1 DEF StrandInv, Steadfast, Base, ExactInv, Objects
  <2>3. Waiting(m) # {}
    BY <2>1 DEF WaitsOn, Waiting, Waits
  <2>4. PICK p : p \in Contending(m)
    BY <2>1, <2>2, <2>3 DEF Offered
  <2> QED BY <2>2, <2>4, ContendersHaveWakes
<1> QED BY <1>1, ThreadsInvariant, ExactInvariant, StrandInvariant, PTL

\* No wake-up on a queue is lost: while it has items, or is closed, and a
\* process is parked in Queue#pop, some process woken for it has yet to look
\* again.  For the same programs.
THEOREM NoPopperIsStranded ==
  ASSUME TRUE \notin Inline, "kill" \notin MainOps \cup ThreadOps, Rescues = FALSE
  PROVE  Spec => []NoStrandedPopper
<1>1. ASSUME Inv, ExactInv, StrandInv PROVE NoStrandedPopper
  <2>1. SUFFICES ASSUME ~Dead(Main), NEW q \in Queues, items[q] > 0 \/ q \in closed, WaitsOn(q)
                 PROVE  \E p \in Procs : Contender(p, "pop", q)
    BY DEF NoStrandedPopper
  <2>2. Base /\ Seats /\ Fetched(q) /\ q \in Objects
    BY <1>1, <2>1 DEF StrandInv, Steadfast, Base, ExactInv, Objects
  <2>3. Waiting(q) # {}
    BY <2>1 DEF WaitsOn, Waiting, Waits
  <2>4. items[q] \in Nat /\ items[q] > 0 /\ items[q] <= Cardinality(Contending(q))
    BY <1>1, <2>1, <2>2, <2>3, BoundAssumption DEF Fetched, Inv, CoreInv, TypeOK, ObjectTypeOK
  <2>5. Contending(q) # {}
    BY <2>4, FS_EmptySet
  <2>6. PICK p : p \in Contending(q)
    BY <2>5
  <2> QED BY <2>2, <2>6, ContendersHaveWakes
<1> QED BY <1>1, ThreadsInvariant, ExactInvariant, StrandInvariant, PTL
=============================================================================
