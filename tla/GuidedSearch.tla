----------------------------- MODULE GuidedSearch -----------------------------
(***************************************************************************)
(* What SymbolicExecutor promises to the page: a search the user guides.   *)
(* User and engine take turns.  In its turn the engine explores nodes it   *)
(* knows, each once and after its parent, and comes to know their children.*)
(* It gives the turn back only together with all it has explored: whenever *)
(* the user decides, his page shows the whole explored tree.               *)
(***************************************************************************)
EXTENDS Integers

VARIABLES
  parent,   \* the parent of each node known so far; -1 is the root's
  explored, \* the nodes explored so far
  page,     \* the nodes the user has been shown
  turn      \* "user" or "engine"

vars == <<parent, explored, page, turn>>

Known == DOMAIN parent

Init ==
  /\ parent = [n \in {0} |-> -1]
  /\ explored = {}
  /\ page = {}
  /\ turn = "user"

Instruct ==
  /\ turn = "user"
  /\ turn' = "engine"
  /\ UNCHANGED <<parent, explored, page>>

\* The engine keeps the turn or, when it needs the user's help, gives it back.
Explore(n) ==
  /\ turn = "engine"
  /\ n \notin explored
  /\ parent[n] \in explored \cup {-1}
  /\ explored' = explored \cup {n}
  /\ \A m \in Known : m \in Known' /\ parent'[m] = parent[m]
  /\ \A m \in Known' \ Known : parent'[m] = n
  /\ \/ turn' = "engine" /\ page' = page
     \/ turn' = "user" /\ page' = explored'

Reply ==
  /\ turn = "engine"
  /\ turn' = "user"
  /\ page' = explored
  /\ UNCHANGED <<parent, explored>>

Next == Instruct \/ Reply \/ \E n \in Known : Explore(n)

Spec == Init /\ [][Next]_vars
=============================================================================
