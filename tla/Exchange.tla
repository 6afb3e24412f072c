------------------------------- MODULE Exchange -------------------------------
(***************************************************************************)
(* What JsonReader promises to the executor and to the page: they take     *)
(* turns.  The executor sends its output, the user answers with one        *)
(* instruction, the executor takes that very instruction, and so on.       *)
(***************************************************************************)
EXTENDS Naturals

VARIABLES
  turn,    \* whose move it is: "engine" or "user"
  issued,  \* instructions the user has issued
  taken    \* the instruction the executor took last

vars == <<turn, issued, taken>>

Init ==
  /\ turn = "engine"
  /\ issued = 0
  /\ taken = 0

\* The output is sent once the instruction before it has been taken.
Reply ==
  /\ turn = "engine" /\ taken = issued
  /\ turn' = "user"
  /\ UNCHANGED <<issued, taken>>

Instruct ==
  /\ turn = "user"
  /\ turn' = "engine"
  /\ issued' = issued + 1
  /\ UNCHANGED taken

Take ==
  /\ turn = "engine" /\ taken < issued
  /\ taken' = issued
  /\ UNCHANGED <<turn, issued>>

Next == Reply \/ Instruct \/ Take

Spec == Init /\ [][Next]_vars
=============================================================================
