----------------------------- MODULE Interpreter -----------------------------
(***************************************************************************)
(* What the executor computes along one path: the values and constraints   *)
(* kept in ProgramState by executeNonBranchingInstruction, getNextBlocks,  *)
(* getReturnState and executeModel, next to what the machine computes for  *)
(* every input.  The program is any sequence of instructions: of a         *)
(* function with a parameter x, a variable a in memory, a register t for   *)
(* numbers, one (c) for conditions and one (k) for the results of calls,   *)
(* of itself and of an external function.                                  *)
(***************************************************************************)
EXTENDS ExpressionTree, SequencesExt

CONSTANTS
  BinaryOperators,  \* among "+", "-", "*", "/", "%", "<<", ">>"
  Predicates,       \* among ">", "<", "<=", ">=", "==", "!=", "u>"
  Constants,        \* the constant operands
  Models,           \* prefix expressions of the user for an external call
  MaxInstructions,  \* bound: instructions of a path
  MaxComputed,      \* bound: binary operations among them
  MaxCompared,      \* bound: comparisons among them
  MaxLost,          \* bound: instructions up to which a path is followed on which something is lost
  MaxDepth          \* bound: frames

ASSUME InterpreterAssumption ==
  /\ BinaryOperators \subseteq {"+", "-", "*", "/", "%", "<<", ">>"}
  /\ Predicates \subseteq {">", "<", "<=", ">=", "==", "!=", "u>"}
  /\ Constants \subseteq Int
  /\ Models \subseteq Seq(Tokens)
  /\ {"x", "a", "t", "c", "k"} \subseteq Names
  /\ {MaxInstructions, MaxComputed, MaxCompared, MaxLost, MaxDepth} \subseteq Nat

Inputs == (-Half)..(Half - 1)   \* the machine integers

VARIABLES
  frames,    \* the calls under way, the innermost last
  alive,     \* the inputs that take this path
  exact,     \* those for which Z3's integers agree with the machine's so far
  crashed,   \* the executor has died
  lost,      \* what it has not kept track of: see Reasons
  executed,  \* number of instructions, without loads and the prologue
  computed,  \* number of binary operations
  compared   \* number of comparisons

vars == <<frames, alive, exact, crashed, lost, executed, computed, compared>>

\* "argument": a constant passed to a call or returned, for which get finds no tree;
\* "fold": the constructor forgets an operand; "operator": one that is not
\* translated, or is translated wrongly; "model": a malformed model.
Reasons == {"argument", "fold", "operator", "model"}

\* ProgramState: map (a partial function, a value may be NULL) and z3Constraints,
\* trees with the side taken.  conc is what the machine has computed.
top == Last(frames)
map == top.map
conc == top.conc

Init ==
  /\ frames = <<[map |-> [v \in {"x"} |-> Sym("x")], z3Constraints |-> <<>>,
                 conc |-> [v \in {"x"} |-> [i \in Inputs |-> i]]]>>
  /\ alive = Inputs /\ exact = Inputs
  /\ crashed = FALSE /\ lost = {}
  /\ executed = 0 /\ computed = 0 /\ compared = 0

-----------------------------------------------------------------------------
(* ProgramState.                                                           *)

get(m, v) == IF v \in DOMAIN m THEN m[v] ELSE NULL

\* An operand is a constant <<"const", n>> or the value <<"val", v>> of a register.
Operands == {<<"const", n>> : n \in Constants} \cup {<<"val", v>> : v \in {"t", "k"} \cap DOMAIN conc}

getExpressionTree(operand) ==
  IF operand[1] = "const" THEN Const(operand[2])
  ELSE IF get(map, operand[2]) = NULL THEN Sym(operand[2]) ELSE map[operand[2]]

Computed(operand) == IF operand[1] = "const" THEN [i \in Inputs |-> operand[2]] ELSE conc[operand[2]]

add(f, v, new) == [w \in DOMAIN f \cup {v} |-> IF w = v THEN new ELSE f[w]]

\* Copying the map dereferences every tree.
CopyDies(m) == NULL \in Range(m)

\* toString, for the report of the node, which a split point ends.
ReportDies(m) == get(m, "a") # NULL /\ HasLost(m["a"])

\* Bounds: loads and the prologue do not count; a path on which something is lost
\* is followed for MaxLost instructions.
Follow == ~crashed /\ (lost = {} \/ executed <= MaxLost)

\* The compiler stores each parameter in memory before anything else.
Execute ==
  /\ Follow /\ executed < MaxInstructions
  /\ "a" \in DOMAIN conc
  /\ executed' = executed + 1

\* The only symbol there is while nothing is lost is the parameter of the first call.
Symbols(i) == [v \in {"x", "a", "t", "c", "k"} |-> i]

\* v gets a tree and what the machine computes.
Assign(v, tree, value) ==
  frames' = [frames EXCEPT ![Len(frames)].map = add(@, v, tree),
                           ![Len(frames)].conc = add(@, v, value)]

-----------------------------------------------------------------------------
(* executeNonBranchingInstruction.                                         *)

Compute(v, op, data, l, r) ==
  LET left == Computed(l)
      right == Computed(r)
  IN  /\ \A i \in alive : ~Undefined(op, left[i], right[i])
      /\ Assign(v, Construct(data, getExpressionTree(l), getExpressionTree(r)),
                [i \in Inputs |-> IF i \in alive THEN Machine(op, left[i], right[i]) ELSE 0])
      /\ exact' = {i \in exact :
                     i \in alive => Z3Result(op, left[i], right[i]) = Machine(op, left[i], right[i])}
      /\ lost' = lost
           \cup (IF Forgets(data, getExpressionTree(l), getExpressionTree(r)) THEN {"fold"} ELSE {})
           \cup (IF data # op THEN {"operator"} ELSE {})

BinaryOperator ==
  /\ Execute /\ computed < MaxComputed
  /\ \E op \in BinaryOperators : \E l, r \in Operands : Compute("t", op, op, l, r)
  /\ computed' = computed + 1
  /\ UNCHANGED <<alive, crashed, compared>>

\* getSignedPredicate; ICMP_SGE is not among the cases, so that op stays empty.
signed(predicate) ==
  CASE predicate = ">=" -> "" [] predicate = "u>" -> ">" [] OTHER -> predicate

ICmp ==
  /\ Execute /\ compared < MaxCompared
  /\ \E predicate \in Predicates : \E l, r \in Operands :
       Compute("c", predicate, signed(predicate), l, r)
  /\ compared' = compared + 1
  /\ UNCHANGED <<alive, crashed, computed>>

Put(operand) ==
  /\ Assign("a", getExpressionTree(operand), Computed(operand))
  /\ UNCHANGED <<alive, exact, crashed, lost, computed, compared>>

Store == Execute /\ \E operand \in Operands : Put(operand)

Prologue ==
  /\ Follow
  /\ "a" \notin DOMAIN conc
  /\ Put(<<"val", "x">>)
  /\ UNCHANGED executed

Load ==
  /\ Follow
  /\ "a" \in DOMAIN conc
  /\ Assign("t", getExpressionTree(<<"val", "a">>), conc["a"])
  /\ UNCHANGED <<alive, exact, crashed, lost, executed, computed, compared>>

-----------------------------------------------------------------------------
(* getNextBlocks.                                                          *)

\* A conditional branch, as seen from the child of one side.
TakeSide(condition, side) ==
  /\ alive' = {i \in alive : conc["c"][i] = Truth(side)}
  /\ alive' # {}
  /\ crashed' = \/ CopyDies(map) \/ ReportDies(map)
                \/ ~(Operators(condition) \subseteq Translated) \/ HasLost(condition)
  /\ frames' = [frames EXCEPT ![Len(frames)].z3Constraints = Append(@, <<condition, side>>)]
  /\ lost' = IF Operators(condition) \subseteq Translated THEN lost ELSE lost \cup {"operator"}
  /\ UNCHANGED <<exact, computed, compared>>

Branch == Execute /\ "c" \in DOMAIN conc /\ \E side \in BOOLEAN : TakeSide(map["c"], side)

\* The tree that get finds for what a call gets or returns: none for a constant.
Passed(operand) == IF operand[1] = "const" THEN NULL ELSE get(map, operand[2])
LostPassing(operand) == IF operand[1] = "const" THEN lost \cup {"argument"} ELSE lost

\* A call of the function itself: its map holds only the parameter.
Enter(argument) ==
  /\ frames' = Append(frames, [map |-> [v \in {"x"} |-> Passed(argument)],
                               z3Constraints |-> top.z3Constraints,
                               conc |-> [v \in {"x"} |-> Computed(argument)]])
  /\ crashed' = ReportDies(map)
  /\ lost' = LostPassing(argument)
  /\ UNCHANGED <<alive, exact, computed, compared>>

Call == Execute /\ Len(frames) < MaxDepth /\ \E argument \in Operands : Enter(argument)

\* getReturnState: the caller's map and the callee's constraints; the call's
\* register gets the value.
\* Slip: only the constraints of the caller are kept.
getReturnState_Caller(caller, constraints, tree, value) ==
  [caller EXCEPT !.map = add(@, "k", tree), !.conc = add(@, "k", value)]

getReturnState(caller, constraints, tree, value) ==
  [caller EXCEPT !.map = add(@, "k", tree),
                 !.z3Constraints = @ \o constraints,
                 !.conc = add(@, "k", value)]

Leave(caller, operand) ==
  /\ frames' = Append(SubSeq(frames, 1, Len(frames) - 2),
                      getReturnState(caller, top.z3Constraints, Passed(operand), Computed(operand)))
  /\ crashed' = (CopyDies(caller.map) \/ ReportDies(map))
  /\ lost' = LostPassing(operand)
  /\ UNCHANGED <<alive, exact, computed, compared>>

Return ==
  /\ Execute /\ Len(frames) > 1
  /\ \E operand \in Operands : Leave(frames[Len(frames) - 1], operand)

\* An external call, and the user's model of it: getModel reads the return value,
\* executeModel goes on behind the call. The external function returns an integer of
\* the machine: what the prefix expression says of the user variables.
Model(tree, value) ==
  /\ lost' = IF tree = NULL THEN lost \cup {"model"} ELSE lost
  /\ crashed' = (tree = NULL \/ CopyDies(map) \/ ReportDies(map))
  /\ frames' = [frames EXCEPT ![Len(frames)] = getReturnState(top, top.z3Constraints, tree, value)]
  /\ exact' = {i \in exact : i \in alive /\ tree # NULL => Z3Meaning(tree, Symbols(i)) = value[i]}
  /\ UNCHANGED <<alive, computed, compared>>

UserVariables == [v \in {"a"} |-> map["a"]]

ExternalCall ==
  /\ Execute
  /\ \E tokens \in Models :
       LET tree == constructTree(UserVariables)[tokens].tree
           value == [i \in Inputs |->
                       IF i \in alive /\ tree # NULL
                         THEN Meaning(tokens, [v \in {"a"} |-> conc["a"][i]]) ELSE 0]
       IN  value \in [Inputs -> Inputs] /\ Model(tree, value)

Next ==
  \/ Prologue
  \/ BinaryOperator \/ ICmp \/ Store \/ Load
  \/ Branch \/ Call \/ Return \/ ExternalCall

Spec == Init /\ [][Next]_vars

-----------------------------------------------------------------------------
(* Properties.                                                             *)

Locals == {"x", "a", "t", "c", "k"}

\* A frame has a tree, or NULL, and a value for the same names.
IsFrame(f) ==
  \E D \in SUBSET Locals :
    f \in [map : [D -> Seq(Tokens)], z3Constraints : Seq(Seq(Tokens) \X BOOLEAN),
           conc : [D -> [Inputs -> Int]]]

\* The types, whatever is lost.
TypeOK ==
  /\ frames # <<>> /\ \A k \in 1..Len(frames) : IsFrame(frames[k])
  /\ alive \subseteq Inputs /\ exact \subseteq Inputs
  /\ crashed \in BOOLEAN /\ lost \subseteq Reasons
  /\ {executed, computed, compared} \subseteq Nat

TreesKept ==
  \A f \in 1..Len(frames) :
    /\ DOMAIN frames[f].map = DOMAIN frames[f].conc
    /\ \A v \in DOMAIN frames[f].map : ~HasLost(frames[f].map[v]) /\ \A i \in alive :
         Meaning(frames[f].map[v], Symbols(i)) = frames[f].conc[v][i]

\* In every frame, the tree of a value means what the machine has computed, for
\* every input that takes the path, and the executor does not die: through sums
\* that are folded, memory, recursive calls and models.  Exempt is what Reasons
\* lists.
ValueKept == lost = {} => ~crashed /\ TreesKept

\* The constraints of the innermost frame are the path: while Z3's integers agree
\* with the machine's, an input satisfies all of them if and only if it takes the
\* path.  So no feasible branch is pruned and an input Z3 finds is one.
PathKept ==
  lost = {} => \A i \in exact :
    i \in alive <=> \A j \in 1..Len(top.z3Constraints) :
      Z3Meaning(top.z3Constraints[j][1], Symbols(i)) = Truth(top.z3Constraints[j][2])
=============================================================================
