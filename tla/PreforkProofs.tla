--------------------------- MODULE PreforkProofs ---------------------------
(***************************************************************************)
(* For any number of workers and pids: the pid table, the list the parent  *)
(* waits on and the processes that exist agree between two steps of the    *)
(* supervisor, and when the call is over every worker has been reaped.     *)
(* Both need what holds inside a step: which process is forked and not yet *)
(* published, which pid is reaped and still in the table, and that the     *)
(* slot about to be filled is empty.                                       *)
(***************************************************************************)
EXTENDS Prefork, TLAPS

\* The child that fork(2) has returned and the parent has not recorded.
Unpublished == IF pc \in {"publish", "republish"} THEN {pid} ELSE {}

Injective == \A s, t \in Slots : table[s] = table[t] /\ table[s] # NoPid => s = t

\* The processes are the ones the parent knows of.
Known ==
  /\ Children = alive \cup Unpublished
  /\ pc \in {"publish", "republish"} => pid \in Pids /\ pid \notin alive

\* The table is what the parent waits for, but for a pid just reaped; it is left
\* behind by the final waits.
Listed ==
  /\ Injective
  /\ pc \in {"fork", "publish", "refork", "republish", "loop", "reap"} => Occupied(table) = alive
  /\ pc = "clear" => /\ pid \in Pids /\ pid \notin alive
                     /\ Occupied(table) = alive \cup {pid}

\* The slot about to be filled is empty and has a restart left.
SlotFree ==
  /\ pc \in {"fork", "publish"} => \A s \in Slots : s >= slot => table[s] = NoPid
  /\ pc \in {"refork", "republish"} => table[slot] = NoPid /\ log[slot] < MaxRestarts

Over == Ended => alive = {}

IInv == TypeOK /\ Known /\ Listed /\ SlotFree /\ Over

(***************************************************************************)
(* The table.                                                              *)
(***************************************************************************)
\* Storing a pid in an empty slot adds it to the pids the handler signals.
LEMMA OccupiedPut ==
  ASSUME NEW t \in [Slots -> Pids \cup {NoPid}], NEW u \in [Slots -> Pids \cup {NoPid}],
         NEW s \in Slots, t[s] = NoPid, u[s] # NoPid, \A x \in Slots \ {s} : u[x] = t[x]
  PROVE  Occupied(u) = Occupied(t) \cup {u[s]}
BY DEF Occupied

\* Clearing the one slot that holds a pid takes it out.
LEMMA OccupiedClear ==
  ASSUME NEW t \in [Slots -> Pids \cup {NoPid}], NEW s \in Slots, t[s] # NoPid,
         \A x, y \in Slots : t[x] = t[y] /\ t[x] # NoPid => x = y
  PROVE  Occupied([t EXCEPT ![s] = NoPid]) = Occupied(t) \ {t[s]}
<1> DEFINE u == [t EXCEPT ![s] = NoPid]
<1>1. u[s] = NoPid /\ \A x \in Slots \ {s} : u[x] = t[x]
  OBVIOUS
<1>2. \A x \in Slots \ {s} : t[x] # t[s]
  OBVIOUS
<1> QED BY <1>1, <1>2 DEF Occupied

(***************************************************************************)
(* The invariant.                                                          *)
(***************************************************************************)
LEMMA InitInv == Init => IInv
<1> SUFFICES ASSUME Init PROVE IInv
  OBVIOUS
<1> USE DEF Init
<1>a. slot \in Slots /\ log \in [Slots -> 0 .. MaxRestarts]
  BY PreforkAssumption DEF Slots
<1>b. NoTable \in [Slots -> Pids \cup {NoPid}]
  BY DEF NoTable
<1>1. TypeOK
  BY <1>a, <1>b DEF TypeOK
<1>2. Known
  BY DEF Known, Children, Unpublished
<1>3. Occupied(table) = {}
  BY DEF Occupied, NoTable
<1>4. Listed /\ SlotFree /\ Over
  BY <1>3 DEF Listed, Injective, SlotFree, Over, Ended, NoTable
<1> QED BY <1>1, <1>2, <1>4 DEF IInv

\* Every step keeps the types.
LEMMA NextType == IInv /\ [Next]_vars => TypeOK'
<1> SUFFICES ASSUME IInv, [Next]_vars PROVE TypeOK'
  OBVIOUS
<1> USE DEF IInv, TypeOK, parent, procs
<1>1. CASE UNCHANGED vars
  BY <1>1 DEF vars
<1>2. CASE Fork
  BY <1>2 DEF Fork, Children
<1>3. CASE Publish
  <2>1. slot' \in Slots
    BY <1>3, PreforkAssumption DEF Publish, Slots
  <2> QED BY <1>3, <2>1 DEF Publish, Known
<1>4. CASE ForkFails
  BY <1>4 DEF ForkFails, Killed, Running, Children, Zombies
<1>5. CASE Republish
  <2>1. log' \in [Slots -> 0 .. MaxRestarts]
    BY <1>5, PreforkAssumption DEF Republish, SlotFree
  <2> QED BY <1>5, <2>1 DEF Republish, Known
<1>6. CASE ReforkFails
  BY <1>6 DEF ReforkFails
<1>7. CASE LoopTop
  <2>1. pend' \subseteq Pids
    BY <1>7 DEF LoopTop, Killed, Running, Children, Zombies
  <2> QED BY <1>7, <2>1 DEF LoopTop
<1>8. ASSUME NEW p \in Pids, Reap(p) PROVE TypeOK'
  BY <1>8 DEF Reap, Reaped
<1>9. CASE ReapNone
  BY <1>9 DEF ReapNone
<1>10. CASE ClearSlot
  <2> PICK s \in Slots : /\ table' = Cleared(s) /\ slot' = s
                         /\ tripped' = IF Guarded(s) THEN tripped \cup {s} ELSE tripped
                         /\ pc' = IF Respawns(s) THEN "refork" ELSE "loop"
    BY <1>10 DEF ClearSlot
  <2> QED BY <1>10 DEF ClearSlot, Cleared
<1>11. CASE Drain
  BY <1>11 DEF Drain, Reaped
<1>12. CASE Drained
  BY <1>12 DEF Drained
<1>13. ASSUME NEW p \in Pids, Worker(p) PROVE TypeOK'
  <2>1. CASE ResetSignals(p)
    <3>1. NoTable \in [Slots -> Pids \cup {NoPid}]
      BY DEF NoTable
    <3> QED BY <2>1, <3>1 DEF ResetSignals
  <2>2. CASE Serve(p)
    BY <2>2 DEF Serve
  <2>3. CASE Exit(p)
    BY <2>3 DEF Exit
  <2>4. CASE Deliver(p)
    <3>1. pend' \subseteq Pids
      BY <2>4 DEF Deliver, Running, Children, Zombies
    <3> QED BY <2>4, <3>1 DEF Deliver
  <2> QED BY <1>13, <2>1, <2>2, <2>3, <2>4 DEF Worker
<1>14. CASE Signal
  BY <1>14 DEF Signal, Killed, Running, Children, Zombies
<1>15. CASE Deadline
  BY <1>15 DEF Deadline
<1>16. ASSUME NEW s \in Slots, WindowPasses(s) PROVE TypeOK'
  BY <1>16, PreforkAssumption DEF WindowPasses
<1> QED
  BY <1>1, <1>2, <1>3, <1>4, <1>5, <1>6, <1>7, <1>8, <1>9, <1>10, <1>11, <1>12, <1>13,
     <1>14, <1>15, <1>16 DEF Next, Parent

\* Every step keeps what the supervisor knows of its processes.
LEMMA NextKnown == IInv /\ [Next]_vars => Known' /\ Over'
<1> SUFFICES ASSUME IInv, [Next]_vars PROVE Known' /\ Over'
  OBVIOUS
<1> USE DEF IInv, TypeOK, Known, Over, Ended, Children, Unpublished, parent, procs
<1>1. CASE UNCHANGED vars
  BY <1>1 DEF vars
<1>2. CASE Fork
  BY <1>2 DEF Fork
<1>3. CASE Publish
  BY <1>3 DEF Publish
<1>4. CASE ForkFails
  BY <1>4 DEF ForkFails
<1>5. CASE Republish
  BY <1>5 DEF Republish
<1>6. CASE ReforkFails
  BY <1>6 DEF ReforkFails
<1>7. CASE LoopTop
  BY <1>7 DEF LoopTop
<1>8. ASSUME NEW p \in Pids, Reap(p) PROVE Known' /\ Over'
  BY <1>8 DEF Reap, Reaped
<1>9. CASE ReapNone
  BY <1>9 DEF ReapNone
<1>10. CASE ClearSlot
  BY <1>10 DEF ClearSlot
<1>11. CASE Drain
  BY <1>11 DEF Drain, Reaped
<1>12. CASE Drained
  BY <1>12 DEF Drained, AllWaitedFor
<1>13. ASSUME NEW p \in Pids, Worker(p) PROVE Known' /\ Over'
  BY <1>13 DEF Worker, ResetSignals, Serve, Exit, Deliver, Running
<1>14. CASE Signal
  BY <1>14 DEF Signal
<1>15. CASE Deadline
  BY <1>15 DEF Deadline
<1>16. ASSUME NEW s \in Slots, WindowPasses(s) PROVE Known' /\ Over'
  BY <1>16 DEF WindowPasses
<1> QED
  BY <1>1, <1>2, <1>3, <1>4, <1>5, <1>6, <1>7, <1>8, <1>9, <1>10, <1>11, <1>12, <1>13,
     <1>14, <1>15, <1>16 DEF Next, Parent

\* Every step keeps the table of slots exact.
LEMMA NextListed == IInv /\ [Next]_vars => Listed' /\ SlotFree'
<1> SUFFICES ASSUME IInv, [Next]_vars PROVE Listed' /\ SlotFree'
  OBVIOUS
<1> USE DEF IInv, Listed, SlotFree, parent, procs
<1>t. table \in [Slots -> Pids \cup {NoPid}] /\ log \in [Slots -> 0 .. MaxRestarts]
  BY DEF TypeOK
<1>1. CASE UNCHANGED vars
  BY <1>1 DEF vars, Injective, Occupied
<1>2. CASE Fork
  BY <1>2 DEF Fork, Injective, Occupied
<1>3. CASE Publish
  <2>1. slot \in Slots /\ table[slot] = NoPid /\ pid \in Pids /\ pid \notin alive
    BY <1>3, PreforkAssumption DEF Publish, Known, TypeOK, Slots
  <2>2. Occupied(table') = alive'
    <3>1. /\ table' \in [Slots -> Pids \cup {NoPid}] /\ table'[slot] = pid /\ pid # NoPid
          /\ \A x \in Slots \ {slot} : table'[x] = table[x]
      BY <1>3, <2>1, <1>t, PreforkAssumption DEF Publish
    <3>2. Occupied(table') = Occupied(table) \cup {pid}
      BY <2>1, <3>1, <1>t, OccupiedPut
    <3> QED BY <1>3, <3>2 DEF Publish
  <2>3. Injective'
    BY <1>3, <2>1, <1>t DEF Publish, Injective, Occupied
  <2>4. SlotFree'
    BY <1>3, <2>1, <1>t DEF Publish, Slots
  <2> QED BY <1>3, <2>2, <2>3, <2>4 DEF Publish
<1>4. CASE ForkFails
  BY <1>4 DEF ForkFails, Injective
<1>5. CASE Republish
  <2>1. slot \in Slots /\ table[slot] = NoPid /\ pid \in Pids /\ pid \notin alive
    BY <1>5 DEF Republish, Known, TypeOK
  <2>2. Occupied(table') = alive'
    <3>1. /\ table' \in [Slots -> Pids \cup {NoPid}] /\ table'[slot] = pid /\ pid # NoPid
          /\ \A x \in Slots \ {slot} : table'[x] = table[x]
      BY <1>5, <2>1, <1>t, PreforkAssumption DEF Republish
    <3>2. Occupied(table') = Occupied(table) \cup {pid}
      BY <2>1, <3>1, <1>t, OccupiedPut
    <3> QED BY <1>5, <3>2 DEF Republish
  <2>3. Injective'
    BY <1>5, <2>1, <1>t DEF Republish, Injective, Occupied
  <2> QED BY <1>5, <2>2, <2>3 DEF Republish
<1>6. CASE ReforkFails
  BY <1>6 DEF ReforkFails, Injective, Occupied
<1>7. CASE LoopTop
  BY <1>7 DEF LoopTop, Injective, Occupied
<1>8. ASSUME NEW p \in Pids, Reap(p) PROVE Listed' /\ SlotFree'
  <2>1. p \in alive
    BY <1>8 DEF Reap, Known, Children, Unpublished, Zombies
  <2> QED BY <1>8, <2>1 DEF Reap, Reaped, Injective, Occupied
<1>9. CASE ReapNone
  BY <1>9 DEF ReapNone, Injective, Occupied
<1>10. CASE ClearSlot
  <2> PICK s \in Slots : /\ table[s] = pid /\ table' = Cleared(s) /\ slot' = s
                         /\ pc' = IF Respawns(s) THEN "refork" ELSE "loop"
    BY <1>10 DEF ClearSlot
  <2>1. pc = "clear" /\ UNCHANGED <<alive, log, pid>>
    BY <1>10 DEF ClearSlot
  <2>2. pid \in Pids /\ pid # NoPid /\ pid \notin alive
    BY <2>1, PreforkAssumption
  <2>3. Occupied(table') = alive'
    <3>1. Occupied([table EXCEPT ![s] = NoPid]) = Occupied(table) \ {table[s]}
      BY <2>2, <1>t, OccupiedClear DEF Injective
    <3> QED BY <2>1, <2>2, <3>1 DEF Cleared
  <2>4. Injective'
    BY <1>t DEF Cleared, Injective
  <2>5. SlotFree'
    BY <2>1, <1>t, PreforkAssumption DEF Cleared, Respawns, Guarded
  <2> QED BY <2>3, <2>4, <2>5
<1>11. CASE Drain
  BY <1>11 DEF Drain, Injective
<1>12. CASE Drained
  BY <1>12 DEF Drained, Injective
<1>13. ASSUME NEW p \in Pids, Worker(p) PROVE Listed' /\ SlotFree'
  BY <1>13 DEF Worker, ResetSignals, Serve, Exit, Deliver, Injective, Occupied
<1>14. CASE Signal
  BY <1>14 DEF Signal, Injective, Occupied
<1>15. CASE Deadline
  BY <1>15 DEF Deadline, Injective, Occupied
<1>16. ASSUME NEW s \in Slots, WindowPasses(s) PROVE Listed' /\ SlotFree'
  <2>1. UNCHANGED <<pc, slot, pid, table, alive>>
    BY <1>16 DEF WindowPasses
  <2>2. \A x \in Slots : log'[x] <= log[x]
    BY <1>16, <1>t DEF WindowPasses
  <2>3. slot \in Slots
    BY DEF TypeOK
  <2>4. Listed'
    BY <2>1 DEF Injective, Occupied
  <2> QED BY <2>1, <2>2, <2>3, <2>4, <1>t, <1>16, PreforkAssumption DEF WindowPasses
<1> QED
  BY <1>1, <1>2, <1>3, <1>4, <1>5, <1>6, <1>7, <1>8, <1>9, <1>10, <1>11, <1>12, <1>13,
     <1>14, <1>15, <1>16 DEF Next, Parent

(***************************************************************************)
(* The theorems.                                                           *)
(***************************************************************************)
LEMMA Invariance == Spec => []IInv
<1>1. IInv /\ [Next]_vars => IInv'
  BY NextType, NextKnown, NextListed DEF IInv
<1> QED BY InitInv, <1>1, PTL DEF Spec

\* The supervisor's state keeps its type; no slot is restarted more often than
\* its guard allows.
THEOREM TypeCorrect == Spec => []TypeOK
<1>1. IInv => TypeOK
  BY DEF IInv
<1> QED BY Invariance, <1>1, PTL

\* Between two steps of the supervisor the table, the list it waits on and the
\* unreaped workers are one, each worker in one slot.
THEOREM PoolIsExact == Spec => []PoolExact
<1>1. IInv => PoolExact
  BY DEF IInv, PoolExact, Known, Listed, Injective, Unpublished
<1> QED BY Invariance, <1>1, PTL

\* When http_serve_prefork has returned or raised, every worker is reaped.
THEOREM NothingLeftBehind == Spec => []NoOrphan
<1>1. IInv => NoOrphan
  BY DEF IInv, NoOrphan, Known, Over, Unpublished, Ended
<1> QED BY Invariance, <1>1, PTL
=============================================================================
