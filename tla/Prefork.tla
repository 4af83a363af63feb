------------------------------ MODULE Prefork ------------------------------
(***************************************************************************)
(* http_serve_prefork with n_workers > 1 (http_server.rs): the parent      *)
(* forks one worker per slot, publishes each pid in PREFORK_CHILD_PIDS,    *)
(* and supervises: it reaps exited workers, forks replacements up to a     *)
(* crash-loop guard per slot, and drains the pool on a signal or at the    *)
(* deadline.  The SIGINT/SIGTERM handler forwards to the published pids.   *)
(* Signals are asynchronous: kill(2) makes one pending, Deliver lets it    *)
(* take effect.  A pid is free again once its process is reaped.           *)
(***************************************************************************)
EXTENDS Naturals

CONSTANTS
  N,            \* n_workers
  Pids,
  NoPid,        \* 0 in the table
  MaxRestarts   \* RUBYRS_PREFORK_MAX_RESTARTS

ASSUME PreforkAssumption ==
  /\ N \in Nat \ {0} /\ NoPid \notin Pids /\ MaxRestarts \in Nat \ {0}

Slots == 1 .. N

VARIABLES
  pc,         \* where the parent is
  slot, pid,  \* the slot and pid it is busy with
  table,      \* PREFORK_CHILD_PIDS
  alive,      \* child_pids, then alive: the pids it will wait for
  log,        \* per slot, the restarts within the window
  tripped,    \* slots the crash-loop guard has given up
  lost,       \* history: slots whose replacement could not be forked
  shutdown,   \* PREFORK_SHUTDOWN_REQUESTED
  late,       \* is the deadline past?
  proc,       \* per pid, the state of its process
  inherited,  \* per pid, the table its process got at the fork
  pend        \* pids with a signal pending

parent == <<pc, slot, pid, alive, log, tripped, lost>>
procs  == <<proc, inherited, pend>>
vars   == <<parent, table, shutdown, late, procs>>

NoTable  == [s \in Slots |-> NoPid]
Occupied(t) == {t[s] : s \in Slots} \ {NoPid}
Children == {p \in Pids : proc[p] # "free"}
Zombies  == {p \in Pids : proc[p] = "zombie"}
Running  == Children \ Zombies
Ended    == pc \in {"returned", "raised"}

Init ==
  /\ pc = "fork" /\ slot = 1 /\ pid = NoPid
  /\ table = NoTable /\ alive = {}
  /\ log = [s \in Slots |-> 0] /\ tripped = {} /\ lost = {}
  /\ shutdown = FALSE /\ late = FALSE
  /\ proc = [p \in Pids |-> "free"] /\ inherited = [p \in Pids |-> NoTable]
  /\ pend = {}

(***************************************************************************)
(* The parent.                                                             *)
(***************************************************************************)
\* kill(2): a process that has exited takes no signal.
Killed(S) == pend' = pend \cup (S \cap Running)

\* fork(2) for the initial pool and for a replacement: the child has the
\* parent's handlers and a copy of its table.
Fork ==
  /\ pc \in {"fork", "refork"}
  /\ \E p \in Pids \ Children :
       /\ pid' = p
       /\ proc' = [proc EXCEPT ![p] = "young"]
       /\ inherited' = [inherited EXCEPT ![p] = table]
  /\ pc' = IF pc = "fork" THEN "publish" ELSE "republish"
  /\ UNCHANGED <<slot, table, alive, log, tripped, lost, shutdown, late, pend>>

Publish ==
  /\ pc = "publish"
  /\ table' = [table EXCEPT ![slot] = pid]
  /\ alive' = alive \cup {pid}
  /\ IF slot < N THEN pc' = "fork" /\ slot' = slot + 1
                           ELSE pc' = "loop" /\ UNCHANGED slot
  /\ UNCHANGED <<pid, log, tripped, lost, shutdown, late, procs>>

\* The initial fork fails: the workers so far are terminated and reaped.
ForkFails ==
  /\ pc = "fork" /\ pc' = "abort"
  /\ Killed(alive)
  /\ UNCHANGED <<slot, pid, alive, log, tripped, lost, table, shutdown, late, proc, inherited>>

Republish ==
  /\ pc = "republish" /\ pc' = "loop"
  /\ table' = [table EXCEPT ![slot] = pid]
  /\ alive' = alive \cup {pid}
  /\ log' = [log EXCEPT ![slot] = @ + 1]
  /\ UNCHANGED <<slot, pid, tripped, lost, shutdown, late, procs>>

ReforkFails ==
  /\ pc = "refork" /\ pc' = "loop" /\ lost' = lost \cup {slot}
  /\ UNCHANGED <<slot, pid, alive, log, tripped, table, shutdown, late, procs>>

\* The top of the supervisor loop.
\* Mutant: only the deadline stops the restarts.
StoppingLate == late
Stopping == shutdown \/ late
LoopTop ==
  /\ pc = "loop"
  /\ pc' = IF alive = {} THEN "returned" ELSE IF Stopping THEN "drain" ELSE "reap"
  /\ IF late /\ ~ shutdown THEN Killed(alive) ELSE UNCHANGED pend
  /\ UNCHANGED <<slot, pid, alive, log, tripped, lost, table, shutdown, late, proc, inherited>>

\* waitpid(2) gives the pid back to the system.
Reaped(p) == proc' = [proc EXCEPT ![p] = "free"] /\ alive' = alive \ {p}

\* waitpid(-1, WNOHANG): any exited child, or none and a short sleep.
Reap(p) ==
  /\ pc = "reap" /\ p \in Zombies /\ Reaped(p)
  /\ pid' = p /\ pc' = "clear"
  /\ UNCHANGED <<slot, log, tripped, lost, table, shutdown, late, inherited, pend>>
ReapNone ==
  /\ pc = "reap" /\ Zombies = {} /\ pc' = "loop"
  /\ UNCHANGED <<slot, pid, alive, log, tripped, lost, table, shutdown, late, procs>>

\* The slot that held the pid is cleared, then the guards.  (The code skips a
\* pid no slot holds; by PoolExact there is none.)
\* Mutant: the guard lets one restart more through.
GuardedOffByOne(s) == log[s] > MaxRestarts
Guarded(s) == log[s] >= MaxRestarts
\* Mutant: one tripped slot stops every slot's restarts.
RespawnsPoolWide(s) == tripped = {} /\ ~ Guarded(s) /\ ~ late
Respawns(s) == s \notin tripped /\ ~ Guarded(s) /\ ~ late
\* Mutant: the slot keeps the pid of the exited worker.
ClearedNot(s) == table
Cleared(s) == [table EXCEPT ![s] = NoPid]
ClearSlot ==
  /\ pc = "clear"
  /\ \E s \in Slots :
       /\ table[s] = pid
       /\ table' = Cleared(s) /\ slot' = s
       /\ tripped' = IF Guarded(s) THEN tripped \cup {s} ELSE tripped
       /\ pc' = IF Respawns(s) THEN "refork" ELSE "loop"
  /\ UNCHANGED <<pid, alive, log, lost, shutdown, late, procs>>

\* Blocking waitpids, one per pid of the list.
Drain ==
  /\ pc \in {"drain", "abort"}
  /\ \E p \in alive \cap Zombies : Reaped(p)
  /\ UNCHANGED <<pc, slot, pid, log, tripped, lost, table, shutdown, late, inherited, pend>>
\* Mutant: an exited worker counts as reaped.
AllWaitedForExited == alive \subseteq Zombies
AllWaitedFor == alive = {}
Drained ==
  /\ pc \in {"drain", "abort"} /\ AllWaitedFor
  /\ pc' = IF pc = "drain" THEN "returned" ELSE "raised"
  /\ UNCHANGED <<slot, pid, alive, log, tripped, lost, table, shutdown, late, procs>>

(***************************************************************************)
(* Workers (run_one_child_worker).                                         *)
(***************************************************************************)
\* SIGINT and SIGTERM go back to their defaults.
ResetSignals(p) ==
  /\ proc[p] = "young"
  /\ proc' = [proc EXCEPT ![p] = "default"]
  /\ inherited' = [inherited EXCEPT ![p] = NoTable]
  /\ UNCHANGED <<parent, table, shutdown, late, pend>>

\* The listener is bound, on_worker_boot has run, the runtime's handler is in.
Serve(p) ==
  /\ proc[p] = "default"
  /\ proc' = [proc EXCEPT ![p] = "serving"]
  /\ UNCHANGED <<parent, table, shutdown, late, inherited, pend>>

\* A boot error, a crash, the worker's own duration, or the end of a stop.
Exit(p) ==
  /\ proc[p] \in {"default", "serving", "stopping"}
  /\ proc' = [proc EXCEPT ![p] = "zombie"]
  /\ pend' = pend \ {p}
  /\ UNCHANGED <<parent, table, shutdown, late, inherited>>

\* A signal: the inherited handler forwards it by the inherited table and the
\* worker goes on; the default action ends it; the runtime's stops serving.
Deliver(p) ==
  /\ p \in pend
  /\ \/ /\ proc[p] = "young"
        /\ pend' = (pend \ {p}) \cup (Occupied(inherited[p]) \cap Running)
        /\ UNCHANGED proc
     \/ /\ proc[p] = "default" /\ proc' = [proc EXCEPT ![p] = "zombie"]
        /\ pend' = pend \ {p}
     \/ /\ proc[p] \in {"serving", "stopping"} /\ proc' = [proc EXCEPT ![p] = "stopping"]
        /\ pend' = pend \ {p}
  /\ UNCHANGED <<parent, table, shutdown, late, inherited>>

(***************************************************************************)
(* The world: a signal to the parent (prefork_forward_signal), and time.   *)
(***************************************************************************)
Signal ==
  /\ ~ Ended
  /\ shutdown' = TRUE
  /\ Killed(Occupied(table))
  /\ UNCHANGED <<parent, table, late, proc, inherited>>

Deadline ==
  /\ ~ late /\ ~ Ended /\ pc \notin {"fork", "publish", "abort"}
  /\ late' = TRUE
  /\ UNCHANGED <<parent, table, shutdown, procs>>

WindowPasses(s) ==
  /\ log[s] > 0 /\ ~ Ended
  /\ log' = [log EXCEPT ![s] = @ - 1]
  /\ UNCHANGED <<pc, slot, pid, alive, tripped, lost, table, shutdown, late, procs>>

Parent ==
  \/ Fork \/ Publish \/ ForkFails \/ Republish \/ ReforkFails
  \/ LoopTop \/ (\E p \in Pids : Reap(p)) \/ ReapNone \/ ClearSlot \/ Drain \/ Drained
Worker(p) == ResetSignals(p) \/ Serve(p) \/ Exit(p) \/ Deliver(p)

Next ==
  \/ Parent
  \/ \E p \in Pids : Worker(p)
  \/ Signal \/ Deadline
  \/ \E s \in Slots : WindowPasses(s)

Spec == Init /\ [][Next]_vars

\* The parent and the workers run, signals are delivered, and a worker serves no
\* longer than its own duration; waitpid(-1) takes the oldest exited child, so it
\* passes none over for ever.  Neither a signal to the parent nor the deadline
\* has to come.
FairSpec ==
  /\ Spec /\ WF_vars(Parent)
  /\ \A p \in Pids : WF_vars(ResetSignals(p)) /\ WF_vars(Deliver(p)) /\ WF_vars(Exit(p)) /\ SF_vars(Reap(p))

(***************************************************************************)
(* Properties.                                                             *)
(***************************************************************************)
TypeOK ==
  /\ pc \in {"fork", "publish", "refork", "republish", "loop", "reap", "clear",
             "drain", "abort", "returned", "raised"}
  /\ slot \in Slots /\ pid \in Pids \cup {NoPid}
  /\ table \in [Slots -> Pids \cup {NoPid}]
  /\ alive \subseteq Pids
  /\ log \in [Slots -> 0 .. MaxRestarts]
  /\ tripped \subseteq Slots /\ lost \subseteq Slots
  /\ shutdown \in BOOLEAN /\ late \in BOOLEAN
  /\ proc \in [Pids -> {"free", "young", "default", "serving", "stopping", "zombie"}]
  /\ inherited \in [Pids -> [Slots -> Pids \cup {NoPid}]]
  /\ pend \subseteq Pids

\* Whenever the supervisor is between two steps the table names exactly its
\* unreaped workers, each in one slot: a signal reaches all of them, no slot has
\* two workers, no worker is forgotten (PREFORK_CHILD_PIDS against alive).
PoolExact ==
  pc \in {"loop", "reap"} =>
    /\ alive = Children /\ Occupied(table) = Children
    /\ \A s, t \in Slots : table[s] = table[t] /\ table[s] # NoPid => s = t

\* When http_serve_prefork is over, with an address or an error, every process
\* it forked has been reaped.
NoOrphan == Ended => Children = {}

\* A worker that is down is replaced, unless its slot has tripped the guard, its
\* replacement could not be forked, or the pool is on its way out (the
\* supervisor's comment: the pool stays at N workers across crash events).
Down(s) == pc \in {"loop", "reap", "clear"} /\ (table[s] = NoPid \/ table[s] \in Zombies)
Up(s)   == (pc = "republish" /\ slot = s) \/ table[s] \in Running
DownIsReplaced ==
  \A s \in Slots : Down(s) ~> (Up(s) \/ s \in tripped \/ s \in lost \/ late \/ shutdown)

\* After the deadline or a signal the call ends: no worker, no swallowed signal
\* and no restart keeps the parent waiting for ever (the blocking waitpids).
CallEnds == (late \/ shutdown) ~> Ended
=============================================================================
