----------------------------- MODULE EnactStore ------------------------------
(***************************************************************************)
(* What the runtime of ENACT promises to the program: a store of values    *)
(* without reference counts.  The store is the graph that is reachable     *)
(* from the open environments and from the locals of the caller; a cell    *)
(* that is no longer reachable is no longer there.  Only tables that the   *)
(* language lets a program extend are ever changed: environments, locals,  *)
(* the methods of a class, the attributes of an object and, for fix, the   *)
(* captured environment of a function.                                     *)
(***************************************************************************)
EXTENDS Naturals, FiniteSets

CONSTANTS Cell, Env, Session, Locals, Label, Name, Nil, Free, Mutable

VARIABLES
  kind,   \* kind[c]: the kind of a reachable cell, Free otherwise
  at,     \* at[o][l]: what o holds under l; nothing if o is not reachable
  open    \* the open environments

vars == <<kind, at, open>>

Owner == Cell \cup Env \cup {Locals}

Empty == [l \in Label |-> Nil]

\* The cells reachable in graph g from the environments in E and the locals:
\* what every set has that contains all that these and its cells refer to.
Reachable(g, E) ==
  Cell \ UNION {Cell \ T : T \in
    {T \in SUBSET Cell :
       \A o \in E \cup {Locals} \cup T : \A l \in Label : g[o][l] \in T \cup {Nil}}}

Here == LET k == kind IN {c \in Cell : k[c] # Free}

Init ==
  /\ kind = [c \in Cell |-> Free]
  /\ at = [o \in Owner |-> Empty]
  /\ open = {Session}

\* The store becomes graph g with kinds k, without what is not reachable.
Become(k, g, E) ==
  LET R == Reachable(g, E)
  IN /\ open' = E
     /\ kind' = [c \in Cell |-> IF c \in R THEN k[c] ELSE Free]
     /\ at' = [o \in Owner |->
                 IF o \in R \cup E \cup {Locals} THEN g[o] ELSE Empty]

\* Bind label l of o to a value at hand, or to none.
Bind(o, l, v) ==
  /\ LET k == kind IN o \in open \cup {Locals} \cup {c \in Cell : k[c] \in Mutable}
  /\ o # Locals => l \in Name
  /\ v \in Here \cup {Nil}
  /\ Become(kind, [at EXCEPT ![o][l] = v], open)

\* A new cell, made of values at hand, appears in an unused local.
Create(c, k, dst, g) ==
  /\ c \notin Here
  /\ \A l \in Label : g[l] \in Here \cup {Nil}
  /\ at[Locals][dst] = Nil
  /\ Become([kind EXCEPT ![c] = k], [at EXCEPT ![c] = g, ![Locals][dst] = c], open)

OpenEnv(e, g) ==
  /\ e \notin open
  /\ \A l \in Label : g[l] \in Here \cup {Nil}
  /\ Become(kind, [at EXCEPT ![e] = g], open \cup {e})

CloseEnv(e) ==
  /\ e \in open
  /\ e = Session => open = {Session}
  /\ Become(kind, at, open \ {e})

(***************************************************************************)
(* The new binding, cell and environment are read from the next state, so  *)
(* that their contents need not be enumerated; old, new, was and is are    *)
(* the two states, each of which is computed once.                         *)
(***************************************************************************)
Next ==
  \E old \in {at}, new \in {at'}, was \in {kind}, is \in {kind'} :
    \/ \E o \in Owner, l \in Label :
         old[o][l] # new[o][l] /\ Bind(o, l, new[o][l])
    \/ \E dst \in Name, c \in {d \in Cell : is[d] # Free /\ was[d] = Free} :
         Create(c, is[c], dst, new[c])
    \/ \E e \in Env : OpenEnv(e, new[e])
    \/ \E e \in Env : CloseEnv(e)

Spec == Init /\ [][Next]_vars

=============================================================================
