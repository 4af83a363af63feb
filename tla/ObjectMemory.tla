--------------------------- MODULE ObjectMemory ---------------------------
(***************************************************************************)
(* The memory a Ruby program believes it runs on: objects with fields, of  *)
(* which it holds some.  It takes references out of what it holds, stores  *)
(* what it holds, creates objects and drops references; no action of the   *)
(* program removes an object.  What it can no longer reach may disappear   *)
(* at any time, and nothing else may.  The promise ends when `broken` is   *)
(* set.                                                                    *)
(***************************************************************************)
CONSTANT Slot
VARIABLES objects, fields, held, broken

vars == <<objects, fields, held, broken>>

\* The least set with what is held that is closed under fields.
Reachable ==
  LET closed == {M \in SUBSET Slot :
                   held \subseteq M /\ \A o \in M \cap objects : fields[o] \subseteq M}
  IN  {o \in Slot : \A M \in closed : o \in M}

Init == objects = {} /\ fields = [o \in Slot |-> {}] /\ held = {} /\ broken = FALSE

Drop(c) == c \in held /\ held' = held \ {c} /\ UNCHANGED <<objects, fields>>

Load(o) ==
  /\ o \in held \cap objects
  /\ \E c \in fields[o] : held' = held \cup {c}
  /\ UNCHANGED <<objects, fields>>

Store(o) ==
  /\ o \in held \cap objects
  /\ \E S \in SUBSET (fields[o] \cup held) : fields' = [fields EXCEPT ![o] = S]
  /\ UNCHANGED <<objects, held>>

Create(o) ==
  /\ o \notin objects /\ objects' = objects \cup {o}
  /\ \E S \in SUBSET held : fields' = [fields EXCEPT ![o] = S]
  /\ held' = held \cup {o}

Reclaim ==
  /\ objects' \subseteq objects /\ Reachable \cap objects \subseteq objects'
  /\ fields' = [o \in Slot |-> IF o \in objects \ objects' THEN {} ELSE fields[o]]
  /\ UNCHANGED held

Next ==
  \/ /\ \/ \E o \in Slot : Drop(o) \/ Load(o) \/ Store(o) \/ Create(o)
        \/ Reclaim
     /\ UNCHANGED broken
  \/ broken' = TRUE

Spec == Init /\ [][Next]_vars
=============================================================================
