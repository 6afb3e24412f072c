--------------------------- MODULE ExpressionTree ---------------------------
(***************************************************************************)
(* ExpressionTree (src/src/llvmExpressionTree.cpp): how values of the      *)
(* analysed program are written as expressions over its inputs, what they  *)
(* mean, what the translation to Z3 makes of them, and how the prefix      *)
(* expressions are read with which the user describes external calls.     *)
(***************************************************************************)
EXTENDS Integers, Sequences

CONSTANTS
  Width,  \* bits of a machine integer (32 in the code)
  Names   \* names of values

ASSUME WidthAssumption == Width \in Nat \ {0, 1}

\* A tree is written as the sequence of its nodes, each in front of its left and its
\* right subtree. A node is an operator or a leaf: a constant, a symbol (an LLVM
\* value) or a leaf whose value is NULL.
OperatorNames ==
  {"+", "-", "*", "/", "%", "<<", ">>", ">", "<", "<=", ">=", "==", "!=", "u>", ""}

Tokens == ({"op"} \X OperatorNames) \cup ({"sym"} \X Names) \cup ({"const"} \X Int)
            \cup ({"lost", "none"} \X {""})

Const(n) == <<<<"const", n>>>>
Sym(v) == <<<<"sym", v>>>>
Lost == <<<<"lost", "">>>>
NULL == <<<<"none", "">>>>   \* no tree
Node(op, l, r) == <<<<"op", op>>>> \o l \o r

IsLeaf(t) == Len(t) = 1

\* A machine integer: two's complement.
Half == 2^(Width - 1)
Wrap(n) == ((n + Half) % (2 * Half)) - Half

isConstant(t) == IsLeaf(t) /\ t[1][1] = "const"
IsConst(t, n) == isConstant(t) /\ t[1][2] = n

-----------------------------------------------------------------------------
(* The constructor ExpressionTree(op, lhs, rhs).                           *)

evaluate(l, r, op) ==
  Const(Wrap(IF op = "+" THEN l[1][2] + r[1][2] ELSE l[1][2] - r[1][2]))

\* top->value of an operand: NULL if it is not a leaf.
Value(t) == IF IsLeaf(t) THEN t ELSE Lost

\* Slip: a constant 0 is dropped on the left of a subtraction, too.
Construct_ZeroMinus(op, l, r) ==
  IF op \in {"+", "-"} /\ isConstant(l) /\ isConstant(r) THEN evaluate(l, r, op)
  ELSE IF op \in {"+", "-"} /\ IsConst(r, 0) THEN Value(l)
  ELSE IF op \in {"+", "-"} /\ IsConst(l, 0) THEN Value(r)
  ELSE Node(op, l, r)

\* Sums of constants are folded, and a constant 0 is dropped together with all
\* but the top of the other operand.
Construct(op, l, r) ==
  IF op \in {"+", "-"} /\ isConstant(l) /\ isConstant(r) THEN evaluate(l, r, op)
  ELSE IF op \in {"+", "-"} /\ IsConst(r, 0) THEN Value(l)
  ELSE IF op = "+" /\ IsConst(l, 0) THEN Value(r)
  ELSE Node(op, l, r)

\* The constructor forgets an operand.
Forgets(op, l, r) == Construct(op, l, r) = Lost /\ Lost \notin {l, r}

-----------------------------------------------------------------------------
(* What operators mean: for the machine, and for Z3, whose integers are    *)
(* unbounded and whose division leaves no negative remainder.              *)

Truth(b) == IF b THEN 1 ELSE 0

Abs(n) == IF n < 0 THEN -n ELSE n
Sign(n) == IF n < 0 THEN -1 ELSE 1

Truncated(l, r) == Sign(l) * Sign(r) * (Abs(l) \div Abs(r))
Euclidean(l, r) == IF r > 0 THEN l \div r ELSE IF r < 0 THEN -(l \div (-r)) ELSE 0

Unsigned(n) == n % (2 * Half)

\* The result of an operation before it is a machine integer; "u>" is a comparison of
\* unsigned numbers.
Unbounded(op, l, r) ==
  CASE op = "+"  -> l + r
    [] op = "-"  -> l - r
    [] op = "*"  -> l * r
    [] op = "/"  -> Truncated(l, r)
    [] op = "%"  -> l - (r * Truncated(l, r))
    [] op = "<<" -> l * 2^r
    [] op = ">>" -> l \div 2^r
    [] op = ">"  -> Truth(l > r)
    [] op = "<"  -> Truth(l < r)
    [] op = "<=" -> Truth(l <= r)
    [] op = ">=" -> Truth(l >= r)
    [] op = "==" -> Truth(l = r)
    [] op = "!=" -> Truth(l # r)
    [] op = "u>" -> Truth(Unsigned(l) > Unsigned(r))

Machine(op, l, r) == Wrap(Unbounded(op, l, r))

\* The program has no value for it.
Undefined(op, l, r) ==
  \/ op \in {"/", "%"} /\ r = 0
  \/ op \in {"<<", ">>"} /\ r \notin 0..(Width - 1)

\* What getZ3Expression translates; anything else stays an empty expression.
Translated == {"+", "-", "*", "/", ">", "<", ">=", "<=", "==", "!=", "%"}

Z3Result(op, l, r) ==
  CASE op = "/" -> Euclidean(l, r)
    [] op = "%" -> l - (r * Euclidean(l, r))
    [] OTHER -> Unbounded(op, l, r)

\* The values of the trees that a sequence of nodes starts with: of the machine, or of
\* the translation getZ3Expression, given values of the symbols.
Apply(by, op, l, r) == IF by = "machine" THEN Machine(op, l, r) ELSE Z3Result(op, l, r)

Push(token, values, env, by) ==
  CASE token[1] = "op" /\ Len(values) > 1 -> <<Apply(by, token[2], values[1], values[2])>> \o Tail(Tail(values))
    [] token[1] = "sym" -> <<env[token[2]]>> \o values
    [] token[1] = "const" -> <<token[2]>> \o values
    [] OTHER -> <<0>> \o values

Values(env, by) ==
  LET values[s \in Seq(Tokens)] ==
        IF s = <<>> THEN <<>> ELSE Push(Head(s), values[Tail(s)], env, by)
  IN  values

Meaning(t, env) == Values(env, "machine")[t][1]
Z3Meaning(t, env) == Values(env, "z3")[t][1]

Operators(t) == {t[k][2] : k \in {j \in DOMAIN t : t[j][1] = "op"}}
HasLost(t) == \E k \in DOMAIN t : t[k][1] = "lost"

-----------------------------------------------------------------------------
(* The prefix expressions of models: like trees, but their symbols are     *)
(* user variables. variables[v] is the tree of v.                          *)

ReadOperators == {"+", "-", "/", "*"}

\* constructTree: the tree read and the tokens left; NULL if the process dies, which
\* it does at the end of the text and at an unknown name.
Dies == [tree |-> NULL, rest |-> <<>>]

ReadVariable(v, rest, variables) ==
  IF v \in DOMAIN variables THEN [tree |-> variables[v], rest |-> rest] ELSE Dies

ReadNode(op, left, right) ==
  IF NULL \in {left.tree, right.tree} THEN Dies
  ELSE [tree |-> Node(op, left.tree, right.tree), rest |-> right.rest]

constructTree(variables) ==
  LET read[s \in Seq(Tokens)] ==
        IF s = <<>> THEN Dies
        ELSE IF s[1][1] = "const" THEN [tree |-> <<s[1]>>, rest |-> Tail(s)]
        ELSE IF s[1][1] = "sym" THEN ReadVariable(s[1][2], Tail(s), variables)
        ELSE IF s[1] \in {"op"} \X ReadOperators
          THEN ReadNode(s[1][2], read[Tail(s)], read[read[Tail(s)].rest])
        ELSE Dies
  IN  read
=============================================================================
