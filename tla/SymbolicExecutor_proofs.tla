----------------------- MODULE SymbolicExecutor_proofs -----------------------
(***************************************************************************)
(* Proofs about SymbolicExecutor, for every analysed program, every         *)
(* sequence of user instructions and all values of the bounds.              *)
(***************************************************************************)
EXTENDS SymbolicExecutor, TLAPS

-----------------------------------------------------------------------------
(* Sequences.                                                              *)

LEMMA ReverseType ==
  ASSUME NEW S, NEW s \in Seq(S)
  PROVE  Reverse(s) \in Seq(S)
<1>1. Reverse(s) \in [1..Len(s) -> S] /\ Len(s) \in Nat
  BY DEF Reverse
<1> QED BY <1>1

LEMMA AppendSet ==
  ASSUME NEW S, NEW s \in Seq(S), NEW e \in S
  PROVE  /\ Append(s, e) \in Seq(S)
         /\ ToSet(Append(s, e)) = ToSet(s) \cup {e}
         /\ IsInjective(s) /\ e \notin ToSet(s) => IsInjective(Append(s, e))
<1> DEFINE t == Append(s, e)
<1>1. /\ t \in Seq(S) /\ Len(t) = Len(s) + 1 /\ Len(s) \in Nat
      /\ DOMAIN t = 1..Len(t) /\ DOMAIN s = 1..Len(s)
  OBVIOUS
<1>2. t[Len(s) + 1] = e /\ \A k \in 1..Len(s) : t[k] = s[k]
  OBVIOUS
<1>3. 1..Len(t) = 1..Len(s) \cup {Len(s) + 1}
  BY <1>1
<1> HIDE DEF t
<1>4. ToSet(t) = ToSet(s) \cup {e}
  <2>1. \A x : x \in ToSet(t) <=> \E k \in 1..Len(t) : x = t[k]
    BY <1>1 DEF ToSet
  <2>2. \A x : x \in ToSet(s) <=> \E k \in 1..Len(s) : x = s[k]
    BY <1>1 DEF ToSet
  <2> QED BY <1>2, <1>3, <2>1, <2>2
<1>5. ASSUME IsInjective(s), e \notin ToSet(s) PROVE IsInjective(t)
  <2>1. \A k \in 1..Len(s) : s[k] # e
    BY <1>1, <1>5 DEF ToSet
  <2>2. \A j, k \in 1..Len(s) : s[j] = s[k] => j = k
    BY <1>1, <1>5 DEF IsInjective
  <2>3. \A j, k \in 1..Len(t) : t[j] = t[k] => j = k
    BY <1>2, <1>3, <2>1, <2>2
  <2> QED BY <1>1, <2>3 DEF IsInjective
<1> QED BY <1>1, <1>4, <1>5 DEF t

-----------------------------------------------------------------------------
(* The nodes of the tree.                                                  *)

Ref == Ids \cup {NoNode}

\* A node other than the root hangs below an executed, older node; a frame is
\* entered by a call in a block; only execution links children.
TreeInv ==
  /\ tree[0].prevId = NoNode
  /\ \A n \in Ids \ {0} :
       tree[n].prevId \in 0..(n-1) /\ tree[tree[n].prevId].isExecuted
  /\ \A n \in Ids :
       /\ tree[n].left \in Ref /\ tree[n].right \in Ref
       /\ tree[n].returnNode \in Ref
       /\ tree[n].returnNode # NoNode => tree[tree[n].returnNode].block # NULL
       /\ tree[n].block = NULL => tree[n].returnNode # NoNode
       /\ ~tree[n].isExecuted => tree[n].left = NoNode /\ tree[n].right = NoNode

\* A child as getNextBlocks and executeModel make it for node n.
Kid(n, x) ==
  /\ x \in Node
  /\ x.prevId = n /\ ~x.isExecuted
  /\ x.left = NoNode /\ x.right = NoNode /\ x.modelVals = 0
  /\ x.returnNode \in Ref
  /\ x.returnNode # NoNode => tree[x.returnNode].block # NULL
  /\ x.block = NULL => x.returnNode # NoNode

\* What executing n may leave in the node itself.
Same(n, x) ==
  /\ x \in Node
  /\ x.prevId = tree[n].prevId /\ x.returnNode = tree[n].returnNode
  /\ x.block = tree[n].block
  /\ x.cons = tree[n].cons /\ x.never = tree[n].never
  /\ x.left = tree[n].left /\ x.right = tree[n].right
  /\ x.modelVals = tree[n].modelVals

\* A second branch that cannot be taken is marked as such.
Marked(x) == x.never \/ x.cons = "unsat" => ~x.isSatisfiable

GoodOutcome(n, o) ==
  /\ o = Outcome(o.self, o.kids)
  /\ Same(n, o.self)
  /\ o.kids \in Seq(Node)
  /\ \A k \in 1..Len(o.kids) : Kid(n, o.kids[k])
  /\ Len(o.kids) <= IF tree[n].block = NULL THEN tree[n].modelVals ELSE 2
  /\ tree[n].block # NULL /\ Len(o.kids) = 2 => Marked(o.kids[2])

LEMMA ConstructorKid ==
  ASSUME TypeOK, NEW n \in Ids, NEW b \in Blocks \cup {NULL}, NEW ip \in Nat \ {0},
         NEW ret \in Ref, NEW cons \in Constraints,
         ret # NoNode => tree[ret].block # NULL,
         b = NULL => ret # NoNode
  PROVE  Kid(n, SymbolicTreeNode(b, n, ip, ret, cons))
BY DEF TypeOK, Kid, SymbolicTreeNode, Node, Ids, Ref, NoNode

LEMMA InheritKid ==
  ASSUME TypeOK, TreeInv, NEW n \in Ids, NEW b \in Blocks, NEW cons \in Constraints,
         NEW start \in Blocks \cup {NULL}, NEW num \in Nat, b # NULL
  PROVE  Kid(n, Successor(n, b, cons, start, num))
<1>1. Kid(n, SymbolicTreeNode(b, n, 1, tree[n].returnNode, cons))
  BY ConstructorKid DEF TreeInv
<1> QED BY <1>1 DEF Kid, Successor, Node

LEMMA NullIsNoBlock == NULL \notin Blocks
BY ProgramAssumption

LEMMA CodeType ==
  ASSUME NEW b \in Blocks
  PROVE  /\ Code[b] \in Seq(SplitPoint)
         /\ \A k \in 1..Len(Code[b]) :
              Code[b][k] \in SplitPoint /\ Len(Code[b][k].succ) = Arity[Code[b][k].op]
<1>1. Code[b] \in Seq(SplitPoint)
  BY ProgramAssumption
<1>2. \A k \in 1..Len(Code[b]) : Len(Code[b][k].succ) = Arity[Code[b][k].op]
  BY ProgramAssumption
<1> QED BY <1>1, <1>2

LEMMA KidFlags ==
  ASSUME NEW n \in Ids, NEW x, Kid(n, x), NEW v \in BOOLEAN, NEW w \in BOOLEAN
  PROVE  /\ Kid(n, [x EXCEPT !.never = v])
         /\ Kid(n, [x EXCEPT !.isSatisfiable = w, !.never = v])
<1>1. Kid(n, [x EXCEPT !.never = v])
  BY DEF Kid, Node
<1>2. [x EXCEPT !.isSatisfiable = w, !.never = v] \in Node
  BY ZenonT(40) DEF Kid, Node
<1> QED BY <1>1, <1>2 DEF Kid, Node

LEMMA SameIp ==
  ASSUME NEW n \in Ids, NEW x, Same(n, x)
  PROVE  Same(n, [x EXCEPT !.ip = @ + 1])
<1>1. x \in Node /\ x.ip + 1 \in Nat \ {0}
  BY DEF Same, Node
<1>2. \A p \in Nat \ {0} : [x EXCEPT !.ip = p] \in Node
  BY <1>1 DEF Node
<1> QED BY <1>1, <1>2 DEF Same, Node

LEMMA OneKid ==
  ASSUME NEW n \in Ids, NEW self, NEW x, Same(n, self), Kid(n, x), tree[n].block # NULL
  PROVE  GoodOutcome(n, Outcome(self, <<x>>))
<1>1. <<x>> \in Seq(Node) /\ Len(<<x>>) = 1 /\ <<x>>[1] = x
  BY DEF Kid
<1> QED BY <1>1 DEF GoodOutcome, Outcome

LEMMA TwoKids ==
  ASSUME NEW n \in Ids, NEW self, NEW x, NEW y, Same(n, self), Kid(n, x), Kid(n, y),
         tree[n].block # NULL, Marked(y)
  PROVE  GoodOutcome(n, Outcome(self, <<x, y>>))
<1>1. /\ <<x, y>> \in Seq(Node) /\ Len(<<x, y>>) = 2
      /\ <<x, y>>[1] = x /\ <<x, y>>[2] = y
  BY DEF Kid
<1> QED BY <1>1 DEF GoodOutcome, Outcome

LEMMA NoKid ==
  ASSUME TypeOK, NEW n \in Ids, NEW self, Same(n, self)
  PROVE  GoodOutcome(n, Outcome(self, <<>>))
<1>1. <<>> \in Seq(Node) /\ Len(<<>>) = 0 /\ tree[n].modelVals \in Nat
  BY DEF TypeOK, Node
<1> QED BY <1>1 DEF GoodOutcome, Outcome

LEMMA SameNode == ASSUME TypeOK, NEW n \in Ids PROVE tree[n] \in Node /\ Same(n, tree[n])
BY DEF TypeOK, Same

LEMMA BranchOutcome ==
  ASSUME TypeOK, TreeInv, NEW n \in Ids, tree[n].block # NULL,
         NEW succ \in Seq(Blocks), Len(succ) = 2,
         NEW t \in Truth(n)
  PROVE  GoodOutcome(n, conditionalBranch(n, succ, t))
<1>1. succ[1] \in Blocks /\ succ[2] \in Blocks /\ NULL \notin Blocks
  BY NullIsNoBlock, SMTT(40)
<1>2. tree[n] \in Node
  BY SameNode
<1>3. /\ tree[n].cons \in Constraints
      /\ tree[n].loopStartPoint \in Blocks \cup {NULL}
      /\ tree[n].numExecutions \in Nat
      /\ tree[n].isSatisfiable \in BOOLEAN
  BY <1>2 DEF Node
<1>4. \A c \in Split(tree[n].cons) : c[1] \in Constraints /\ c[2] \in Constraints
  BY <1>3 DEF Split, Constraints
<1>5. t.cons[1] \in Constraints /\ t.cons[2] \in Constraints
  BY <1>3, <1>4 DEF Truth
<1>6. /\ Kid(n, Inherit(n, succ[1], t.cons[1]))
      /\ Kid(n, Inherit(n, succ[2], t.cons[2]))
  BY <1>1, <1>3, <1>5, InheritKid DEF Inherit
<1>9. \A v \in BOOLEAN : Same(n, [tree[n] EXCEPT !.isSatisfiable = v])
  BY <1>2 DEF Same, Node
<1>10. t.const \in BOOLEAN /\ t.holds \in BOOLEAN
  <2>1. \/ \E h \in BOOLEAN : \E c : t = [const |-> TRUE, holds |-> h, cons |-> c]
        \/ \E c : t = [const |-> FALSE, holds |-> TRUE, cons |-> c]
    BY Zenon DEF Truth
  <2>2. ASSUME NEW h \in BOOLEAN, NEW c, t = [const |-> TRUE, holds |-> h, cons |-> c]
        PROVE  t.const = TRUE /\ t.holds = h
    BY <2>2
  <2>3. ASSUME NEW c, t = [const |-> FALSE, holds |-> TRUE, cons |-> c]
        PROVE  t.const = FALSE /\ t.holds = TRUE
    BY <2>3
  <2> QED BY <2>1, <2>2, <2>3, Zenon
<1> DEFINE toAddFirst == (t.const => t.holds) /\ Z3solver(t.cons[1])
           toAddSecond == /\ hasRunMaxExecs(n) \/ ~(t.const /\ t.holds)
                          /\ Z3solver(t.cons[2])
           first  == [Inherit(n, succ[1], t.cons[1])
                        EXCEPT !.never = (t.const /\ ~t.holds)]
           second == [Inherit(n, succ[2], t.cons[2])
                        EXCEPT !.isSatisfiable = toAddSecond,
                               !.never = (t.const /\ t.holds /\ ~hasRunMaxExecs(n))]
           after == [tree[n] EXCEPT !.isSatisfiable = @ /\ toAddFirst]
<1>11. toAddFirst \in BOOLEAN /\ toAddSecond \in BOOLEAN /\ hasRunMaxExecs(n) \in BOOLEAN
  BY DEF Z3solver, hasRunMaxExecs
<1>12. Kid(n, first)
  BY <1>6, <1>10, KidFlags
<1>13. Kid(n, second)
  BY <1>6, <1>10, <1>11, KidFlags
<1>16. Marked(second)
  <2>1. /\ second.cons = t.cons[2] /\ second.isSatisfiable = toAddSecond
        /\ second.never = (t.const /\ t.holds /\ ~hasRunMaxExecs(n))
    BY DEF Inherit, Successor, SymbolicTreeNode
  <2> QED BY <2>1 DEF Marked, Z3solver
<1>14. Same(n, after)
  BY <1>3, <1>9, <1>11
<1>15. conditionalBranch(n, succ, t) =
         IF hasRunMaxExecs(n) THEN Outcome(tree[n], <<second>>)
                              ELSE Outcome(after, <<first, second>>)
  BY DEF conditionalBranch
<1> HIDE DEF toAddFirst, toAddSecond, first, second, after
<1> QED BY <1>12, <1>13, <1>14, <1>15, <1>16, SameNode, OneKid, TwoKids

LEMMA JumpOutcome ==
  ASSUME TypeOK, TreeInv, NEW n \in Ids, tree[n].block # NULL, NEW b \in Blocks
  PROVE  GoodOutcome(n, unconditionalBranch(n, b))
<1>1. NULL \notin Blocks
  BY NullIsNoBlock
<1>2. /\ tree[n].cons \in Constraints
      /\ tree[n].loopStartPoint \in Blocks \cup {NULL}
      /\ tree[n].numExecutions \in Nat
  BY SameNode DEF Node
<1>3. /\ Kid(n, Inherit(n, b, tree[n].cons))
      /\ Kid(n, Successor(n, b, tree[n].cons, b, tree[n].numExecutions + 1))
  BY <1>1, <1>2, InheritKid DEF Inherit
<1> QED BY <1>3, SameNode, OneKid DEF unconditionalBranch

LEMMA CallOutcome ==
  ASSUME TypeOK, TreeInv, NEW n \in Ids, tree[n].block # NULL
  PROVE  /\ \A b \in Blocks : GoodOutcome(n, internalCall(n, b))
         /\ GoodOutcome(n, externalCall(n))
<1>1. NULL \notin Blocks
  BY NullIsNoBlock
<1>2. tree[n] \in Node /\ tree[n].cons \in Constraints /\ n \in Ref /\ n # NoNode
  BY SameNode DEF Node, Ref, Ids, NoNode
<1>3. \A b \in Blocks \cup {NULL} : Kid(n, SymbolicTreeNode(b, n, 1, n, tree[n].cons))
  BY <1>2, ConstructorKid
<1>4. Same(n, [tree[n] EXCEPT !.isModel = TRUE])
  BY <1>2 DEF Same, Node
<1> QED BY <1>3, <1>4, SameNode, OneKid DEF internalCall, externalCall

LEMMA ReturnKid ==
  ASSUME TypeOK, TreeInv, NEW n \in Ids, tree[n].returnNode # NoNode
  PROVE  Kid(n, returnTo(n))
<1> DEFINE r == tree[n].returnNode
<1>1. r \in Ids /\ tree[r] \in Node /\ tree[r].block # NULL
  BY SameNode DEF TreeInv, Ref
<1>2. tree[r].block \in Blocks \cup {NULL} /\ tree[r].ip \in Nat \ {0} /\ tree[n].cons \in Constraints
  BY <1>1, SameNode DEF Node
<1>3. /\ tree[r].returnNode \in Ref
      /\ tree[r].returnNode # NoNode => tree[tree[r].returnNode].block # NULL
  BY <1>1 DEF TreeInv
<1> QED BY <1>1, <1>2, <1>3, ConstructorKid DEF returnTo

\* Whatever the node and its split point, execution keeps the node's place in
\* the tree and makes well-formed children.
LEMMA ExecutionOutcome ==
  ASSUME TypeOK, TreeInv, NEW n \in Ids, NEW o \in executeBasicBlock(n)
  PROVE  GoodOutcome(n, o)
<1>1. CASE tree[n].block = NULL
  <2>1. Kid(n, returnTo(n)) /\ tree[n].modelVals \in Nat
    BY <1>1, ReturnKid, SameNode DEF TreeInv, Node
  <2> DEFINE kids == [k \in 1..tree[n].modelVals |-> returnTo(n)]
  <2>2. kids \in Seq(Node) /\ Len(kids) = tree[n].modelVals
    BY <2>1 DEF Kid
  <2>3. o = Outcome(tree[n], kids)
    BY <1>1 DEF executeBasicBlock, executeModel
  <2>4. \A k \in 1..Len(kids) : Kid(n, kids[k])
    BY <2>1, <2>2
  <2>5. Same(n, tree[n])
    BY SameNode
  <2> HIDE DEF kids
  <2>6. Len(kids) <= tree[n].modelVals
    BY <2>1, <2>2
  <2> QED BY <1>1, <2>2, <2>3, <2>4, <2>5, <2>6 DEF GoodOutcome, Outcome
<1>2. CASE tree[n].block # NULL /\ tree[n].ip > Len(Code[tree[n].block])
  BY <1>2, SameNode, NoKid DEF executeBasicBlock
<1>3. CASE tree[n].block # NULL /\ ~(tree[n].ip > Len(Code[tree[n].block]))
  <2> DEFINE b == tree[n].block
             s == Code[b][tree[n].ip]
  <2>1. PICK g \in getNextBlocks(n, s) : o = [g EXCEPT !.self.ip = @ + 1]
    BY <1>3 DEF executeBasicBlock
  <2>2. b \in Blocks /\ s \in SplitPoint /\ Len(s.succ) = Arity[s.op]
    <3>1. b \in Blocks /\ tree[n].ip \in Nat \ {0}
      BY <1>3, SameNode DEF Node
    <3>2. Code[b] \in Seq(SplitPoint) /\ tree[n].ip \in 1..Len(Code[b])
      BY <1>3, <3>1, CodeType
    <3> QED BY <3>1, <3>2, CodeType
  <2>3. GoodOutcome(n, g)
    <3>1. CASE s.op = "cond"
      <4>1. s.succ \in Seq(Blocks) /\ Len(s.succ) = 2
        BY <2>2, <3>1 DEF SplitPoint, Arity
      <4>2. \E t \in Truth(n) : g = conditionalBranch(n, s.succ, t)
        BY <2>1, <3>1 DEF getNextBlocks
      <4> QED BY <1>3, <4>1, <4>2, BranchOutcome
    <3>2. CASE s.op = "jump"
      <4>1. s.succ[1] \in Blocks
        BY <2>2, <3>2 DEF SplitPoint, Arity
      <4>2. g = unconditionalBranch(n, s.succ[1])
        BY <2>1, <3>2 DEF getNextBlocks
      <4> QED BY <1>3, <4>1, <4>2, JumpOutcome
    <3>3. CASE s.op = "call"
      <4>1. s.succ[1] \in Blocks
        BY <2>2, <3>3 DEF SplitPoint, Arity
      <4>2. g = internalCall(n, s.succ[1])
        BY <2>1, <3>3 DEF getNextBlocks
      <4> QED BY <1>3, <4>1, <4>2, CallOutcome
    <3>4. CASE s.op = "extern"
      <4>1. g = externalCall(n)
        BY <2>1, <3>4 DEF getNextBlocks
      <4> QED BY <1>3, <4>1, CallOutcome
    <3>5. CASE s.op = "ret"
      <4>1. g = returnInst(n)
        BY <2>1, <3>5 DEF getNextBlocks
      <4> QED BY <1>3, <4>1, ReturnKid, SameNode, OneKid, NoKid DEF returnInst
    <3>6. s.op \in {"cond", "jump", "call", "extern", "ret"}
      BY <2>2 DEF SplitPoint, Arity
    <3> QED BY <3>1, <3>2, <3>3, <3>4, <3>5, <3>6
  <2>4. Same(n, [g.self EXCEPT !.ip = @ + 1])
    BY <2>3, SameIp DEF GoodOutcome
  <2>5. o = Outcome([g.self EXCEPT !.ip = @ + 1], g.kids)
    <3>1. g = [self |-> g.self, kids |-> g.kids]
      BY <2>3 DEF GoodOutcome, Outcome
    <3> QED BY <2>1, <3>1 DEF Outcome
  <2> QED BY <2>3, <2>4, <2>5 DEF GoodOutcome, Outcome
<1> QED BY <1>1, <1>2, <1>3

-----------------------------------------------------------------------------
(* Growing the tree.                                                       *)

LEMMA LinkNode ==
  ASSUME TypeOK, TreeInv, NEW n \in Ids, NEW self, NEW kids, GoodOutcome(n, Outcome(self, kids))
  PROVE  LET x == Link(self, kids)
         IN  /\ x \in Node
             /\ x.isExecuted
             /\ x.prevId = tree[n].prevId /\ x.returnNode = tree[n].returnNode
             /\ x.block = tree[n].block /\ x.modelVals = tree[n].modelVals
             /\ x.cons = tree[n].cons /\ x.never = tree[n].never
             /\ x.isSatisfiable = self.isSatisfiable
             /\ x.left \in -1..(numNodes + Len(kids) - 1)
             /\ x.right \in -1..(numNodes + Len(kids) - 1)
<1>1. /\ Same(n, self) /\ self \in Node /\ kids \in Seq(Node)
      /\ Len(kids) \in Nat /\ numNodes \in Nat \ {0}
  BY DEF GoodOutcome, Outcome, Same, TypeOK
<1>2. self.left \in Ref /\ self.right \in Ref
  BY <1>1 DEF Same, TreeInv
<1> DEFINE ids == KidIds(kids)
           last == IF cmd.dir = 1 THEN 2 ELSE Len(kids)
           l == IF Len(kids) >= 1 THEN ids[1] ELSE self.left
           r == IF Len(kids) >= 2 THEN ids[last] ELSE self.right
<1>3. l \in -1..(numNodes + Len(kids) - 1) /\ r \in -1..(numNodes + Len(kids) - 1)
  BY <1>1, <1>2 DEF KidIds, Ref, Ids, NoNode
<1>4. l \in Nat \cup {NoNode} /\ r \in Nat \cup {NoNode}
  BY <1>1, <1>3 DEF NoNode
<1>5. Link(self, kids) = [self EXCEPT !.isExecuted = TRUE, !.left = l, !.right = r]
  BY DEF Link
<1> HIDE DEF l, r
<1>6. [self EXCEPT !.isExecuted = TRUE, !.left = l, !.right = r] \in Node
  BY <1>1, <1>4 DEF Node
<1> QED BY <1>1, <1>3, <1>5, <1>6, SMTT(40) DEF Same, Node

LEMMA Growth ==
  ASSUME TypeOK, TreeInv, NEW n \in Ids, NEW self, NEW kids,
         GoodOutcome(n, Outcome(self, kids)),
         numNodes' = numNodes + Len(kids),
         tree' = Grow(n, Link(self, kids), kids)
  PROVE  /\ numNodes' \in Nat \ {0}
         /\ Ids \subseteq Ids'
         /\ KidIds(kids) \in Seq(Ids')
         /\ tree' \in [Ids' -> Node]
         /\ tree'[n].isExecuted /\ tree'[n].prevId = tree[n].prevId
         /\ tree'[n] = Link(self, kids)
         /\ \A m \in Ids \ {n} : tree'[m] = tree[m]
         /\ \A m \in Ids' \ Ids : /\ m - numNodes + 1 \in 1..Len(kids)
                                  /\ tree'[m] = kids[m - numNodes + 1]
                                  /\ Kid(n, tree'[m])
         /\ TreeInv'
<1> DEFINE x == Link(self, kids)
<1>1. /\ kids \in Seq(Node) /\ Len(kids) \in Nat /\ numNodes \in Nat \ {0}
      /\ \A k \in 1..Len(kids) : kids[k] \in Node /\ Kid(n, kids[k])
      /\ n \in 0..(numNodes-1)
  <2>1. kids \in Seq(Node) /\ \A k \in 1..Len(kids) : Kid(n, kids[k])
    BY DEF GoodOutcome, Outcome
  <2>2. \A k \in 1..Len(kids) : kids[k] \in Node
    BY <2>1
  <2> QED BY <2>1, <2>2 DEF TypeOK, Ids
<1>2. /\ x \in Node /\ x.isExecuted
      /\ x.prevId = tree[n].prevId /\ x.returnNode = tree[n].returnNode
      /\ x.block = tree[n].block
      /\ x.left \in -1..(numNodes + Len(kids) - 1)
      /\ x.right \in -1..(numNodes + Len(kids) - 1)
  BY LinkNode
<1> HIDE DEF x
<1>3. /\ numNodes' \in Nat \ {0} /\ Ids' = 0..(numNodes + Len(kids) - 1)
      /\ Ids \subseteq Ids'
      /\ Ref' = Ids' \cup {NoNode}
  BY <1>1 DEF Ids, Ref, NoNode
<1>4. tree' = [m \in 0..(numNodes + Len(kids) - 1) |->
                 IF m = n THEN x ELSE IF m < numNodes THEN tree[m]
                 ELSE kids[m - numNodes + 1]]
  BY DEF Grow, x
<1>5. /\ tree'[n] = x
      /\ \A m \in Ids \ {n} : tree'[m] = tree[m]
      /\ \A m \in Ids' \ Ids : /\ m - numNodes + 1 \in 1..Len(kids)
                               /\ tree'[m] = kids[m - numNodes + 1]
  BY <1>1, <1>3, <1>4 DEF Ids
<1>6. \A m \in Ids : tree[m] \in Node
  BY SameNode
<1>7. \A m \in Ids' \ Ids : tree'[m] \in Node /\ Kid(n, tree'[m])
  BY <1>1, <1>5
<1>8. tree' \in [Ids' -> Node]
  BY <1>2, <1>3, <1>4, <1>5, <1>6, <1>7
<1>9. KidIds(kids) \in Seq(Ids')
  <2>1. \A k \in 1..Len(kids) : numNodes + k - 1 \in Ids'
    BY <1>1, <1>3
  <2> QED BY <1>1, <2>1 DEF KidIds
<1>10. \A m \in Ids : /\ tree'[m].block = tree[m].block
                      /\ tree'[m].prevId = tree[m].prevId
                      /\ tree'[m].returnNode = tree[m].returnNode
                      /\ tree[m].isExecuted => tree'[m].isExecuted
  BY <1>2, <1>5
<1>11. TreeInv'
  <2>1. 0 \in Ids /\ tree'[0].prevId = NoNode
    BY <1>1, <1>10 DEF TreeInv, Ids
  <2>2. ASSUME NEW m \in Ids' \ {0}
        PROVE  tree'[m].prevId \in 0..(m-1) /\ tree'[tree'[m].prevId].isExecuted
    <3>1. CASE m \in Ids
      <4>1. tree[m].prevId \in 0..(m-1) /\ tree[tree[m].prevId].isExecuted
        BY <3>1 DEF TreeInv
      <4>2. tree[m].prevId \in Ids
        BY <3>1, <4>1, <1>1 DEF Ids
      <4> QED BY <3>1, <4>1, <4>2, <1>10
    <3>2. CASE m \notin Ids
      <4>1. tree'[m].prevId = n
        BY <3>2, <1>7 DEF Kid
      <4>2. n \in 0..(m-1)
        BY <3>2, <1>1, <1>3 DEF Ids
      <4> QED BY <4>1, <4>2, <1>2, <1>5
    <3> QED BY <3>1, <3>2
  <2>3. ASSUME NEW m \in Ids'
        PROVE  /\ tree'[m].left \in Ref' /\ tree'[m].right \in Ref'
               /\ tree'[m].returnNode \in Ref'
               /\ tree'[m].returnNode # NoNode => tree'[tree'[m].returnNode].block # NULL
               /\ tree'[m].block = NULL => tree'[m].returnNode # NoNode
               /\ ~tree'[m].isExecuted => tree'[m].left = NoNode /\ tree'[m].right = NoNode
    <3>1. tree'[m].left \in Ref' /\ tree'[m].right \in Ref'
      <4>1. CASE m = n
        BY <4>1, <1>1, <1>2, <1>3, <1>5 DEF NoNode
      <4>2. CASE m \in Ids \ {n}
        BY <4>2, <1>3, <1>5 DEF TreeInv, Ref
      <4>3. CASE m \notin Ids
        BY <4>3, <1>3, <1>7 DEF Kid
      <4> QED BY <4>1, <4>2, <4>3
    <3>4. ~tree'[m].isExecuted => tree'[m].left = NoNode /\ tree'[m].right = NoNode
      <4>1. CASE m = n
        BY <4>1, <1>2, <1>5
      <4>2. CASE m \in Ids \ {n}
        BY <4>2, <1>5 DEF TreeInv
      <4>3. CASE m \notin Ids
        BY <4>3, <1>7 DEF Kid
      <4> QED BY <4>1, <4>2, <4>3
    <3>2. CASE m \in Ids
      <4>1. /\ tree[m].returnNode \in Ids \cup {NoNode}
            /\ tree[m].returnNode # NoNode => tree[tree[m].returnNode].block # NULL
            /\ tree[m].block = NULL => tree[m].returnNode # NoNode
        BY <3>2 DEF TreeInv, Ref
      <4> QED BY <3>1, <3>2, <3>4, <4>1, <1>3, <1>10, ZenonT(40)
    <3>3. CASE m \notin Ids
      <4>1. /\ tree'[m].returnNode \in Ids \cup {NoNode}
            /\ tree'[m].returnNode # NoNode => tree[tree'[m].returnNode].block # NULL
            /\ tree'[m].block = NULL => tree'[m].returnNode # NoNode
        BY <3>3, <1>7 DEF Kid, Ref
      <4> QED BY <3>1, <3>3, <3>4, <4>1, <1>3, <1>10
    <3> QED BY <3>2, <3>3
  <2> QED BY <2>1, <2>2, <2>3 DEF TreeInv
<1> QED BY <1>2, <1>3, <1>5, <1>7, <1>8, <1>9, <1>11 DEF x

-----------------------------------------------------------------------------
(* The work list and the reports.                                          *)

LEMMA ChildrenType == ASSUME TypeOK, TreeInv, NEW n \in Ids PROVE children(n) \in Seq(Ids)
<1>1. tree[n].left \in Ids \cup {NoNode} /\ tree[n].right \in Ids \cup {NoNode}
  BY DEF TreeInv, Ref
<1>2. child(tree[n].left) \in Seq(Ids)
  BY <1>1 DEF child
<1>3. child(tree[n].right) \in Seq(Ids)
  BY <1>1 DEF child
<1> QED BY <1>2, <1>3 DEF children

LEMMA PushType ==
  ASSUME NEW S, NEW ids \in Seq(S), NEW dq \in Seq(S)
  PROVE  Push(ids, dq) \in Seq(S)
<1>1. Ordered(ids) \in Seq(S)
  BY ReverseType DEF Ordered
<1>2. Reverse(Ordered(ids)) \in Seq(S)
  BY <1>1, ReverseType
<1>3. dq \o Ordered(ids) \in Seq(S)
  BY <1>1
<1>4. Reverse(Ordered(ids)) \o dq \in Seq(S)
  BY <1>2
<1> QED BY <1>3, <1>4 DEF Push

LEMMA SeqMonotone ==
  ASSUME NEW S, NEW T, S \subseteq T, NEW s \in Seq(S) PROVE s \in Seq(T)
OBVIOUS

\* The strengthening: the tree is well formed, the clicked node is one of its
\* nodes, and what has been reported is executed and reported once.
IInv ==
  /\ TypeOK
  /\ TreeInv
  /\ cmd.prevId \in Ids \cup {-1}
  /\ ReportedOnce

\* Commands whose prevId is taken from P.
CommandsTo(P) == [isBFS : {0, 1}, dir : {0, 1}, steps : StepCounts, prevId : P]

LEMMA CommandType ==
  ASSUME NEW P, P \subseteq Nat \cup {-1}, NEW c \in CommandsTo(P)
  PROVE  /\ c \in [isBFS : {0, 1}, dir : {0, 1}, steps : Nat \cup {-1}, prevId : Nat \cup {-1}]
         /\ c.prevId \in P
<1>1. StepCounts \subseteq Nat \cup {-1}
  BY BoundAssumption
<1> QED BY <1>1 DEF CommandsTo

LEMMA InitInv == Init => IInv
<1> SUFFICES ASSUME Init PROVE IInv
  OBVIOUS
<1>1. Ids = {0} /\ numNodes = 1
  BY DEF Init, Ids
<1>2. /\ Entry \in Blocks /\ NULL \notin Blocks
      /\ StepCounts \subseteq Nat \cup {-1}
  BY ProgramAssumption, BoundAssumption
<1>3. tree[0] = SymbolicTreeNode(Entry, NoNode, 1, NoNode, "valid")
  BY DEF Init
<1>4. tree[0] \in Node
  BY <1>2, <1>3 DEF SymbolicTreeNode, Node, Constraints, NoNode
<1>5. tree \in [Ids -> Node]
  BY <1>1, <1>4 DEF Init
<1>6. deque \in Seq(Ids) /\ nodes \in Seq(Ids) /\ shown = {} /\ nodes = <<>>
  BY DEF Init
<1>7. /\ cmd \in [isBFS : {0, 1}, dir : {0, 1}, steps : Nat \cup {-1}, prevId : Nat \cup {-1}]
      /\ cmd.prevId \in Ids \cup {-1}
  <2>1. cmd \in CommandsTo({-1, 0})
    BY DEF Init, Uninitialised, CommandsTo
  <2>2. {-1, 0} \subseteq Nat \cup {-1}
    OBVIOUS
  <2> QED BY <1>1, <2>1, <2>2, CommandType
<1>8. TypeOK
  BY <1>1, <1>5, <1>6, <1>7 DEF Init, TypeOK
<1>9. TreeInv
  BY <1>1, <1>2, <1>3 DEF TreeInv, SymbolicTreeNode, Ref, NoNode
<1>10. ReportedOnce
  BY <1>6 DEF ReportedOnce, IsInjective, ToSet
<1> QED BY <1>7, <1>8, <1>9, <1>10 DEF IInv

LEMMA ProceedStep ==
  ASSUME IInv, NEW c \in Commands, Proceed(c),
         UNCHANGED <<tree, numNodes, excludedNodes, deque, i, nodes, shown>>
  PROVE  IInv'
<1>1. Ids' = Ids /\ StepCounts \subseteq Nat \cup {-1}
  BY BoundAssumption DEF Ids
<1>2. c \in CommandsTo(shown \cup {-1}) /\ cmd' = c
  BY DEF Commands, CommandsTo, Proceed
<1>3. /\ cmd' \in [isBFS : {0, 1}, dir : {0, 1}, steps : Nat \cup {-1}, prevId : Nat \cup {-1}]
      /\ cmd'.prevId \in Ids' \cup {-1}
  <2>1. shown \subseteq Ids /\ numNodes \in Nat
    BY DEF IInv, TypeOK
  <2>2. shown \cup {-1} \subseteq Nat \cup {-1}
    BY <2>1 DEF Ids
  <2> QED BY <1>1, <1>2, <2>1, <2>2, CommandType
<1>4. TypeOK'
  <2>1. pc' = "round" /\ isExclude' = -1 /\ sent' = sent + 1
    BY DEF Proceed
  <2>2. TypeOK
    BY DEF IInv
  <2> QED BY <1>1, <1>3, <2>1, <2>2 DEF TypeOK
<1> QED BY <1>1, <1>3, <1>4 DEF IInv, TreeInv, Ref, ReportedOnce

LEMMA ExecuteStep ==
  ASSUME IInv, ExecuteNode
  PROVE  /\ IInv'
         /\ ~tree[Head(deque)].isExecuted
         /\ Head(deque) \in Ids
         /\ Ids \subseteq Ids'
         /\ \A m \in Ids \ {Head(deque)} : tree'[m] = tree[m]
         /\ tree'[Head(deque)].isExecuted
         /\ tree'[Head(deque)].prevId = tree[Head(deque)].prevId
<1> DEFINE n == Head(deque)
<1>1. /\ n \in Ids /\ Tail(deque) \in Seq(Ids) /\ ~tree[n].isExecuted
  <2>1. deque \in Seq(Ids) /\ deque # <<>>
    BY DEF IInv, TypeOK, ExecuteNode, MoreSteps
  <2>2. ~tree[n].isExecuted
    BY DEF ExecuteNode, isFresh
  <2> QED BY <2>1, <2>2
<1>2. PICK o \in IF tree[n].isSatisfiable THEN executeBasicBlock(n)
                                          ELSE {Outcome(tree[n], <<>>)} :
        /\ tree' = Grow(n, Link(o.self, o.kids), o.kids)
        /\ numNodes' = numNodes + Len(o.kids)
        /\ deque' = Push(KidIds(o.kids), Tail(deque))
        /\ pc' = IF o.self.isModel THEN "getModel" ELSE "step"
        /\ nodes' = IF o.self.isModel THEN <<>> ELSE Append(nodes, n)
        /\ shown' = IF o.self.isModel /\ isExclude = -1
                      THEN shown \cup ToSet(Append(nodes, n)) ELSE shown
  BY DEF ExecuteNode
<1>3. i' = i + 1 /\ UNCHANGED <<excludedNodes, cmd, isExclude, sent>>
  BY DEF ExecuteNode
<1>4. TypeOK /\ TreeInv /\ ReportedOnce /\ cmd.prevId \in Ids \cup {-1}
  BY DEF IInv
<1>5. GoodOutcome(n, o)
  BY <1>1, <1>2, <1>4, ExecutionOutcome, NoKid, SameNode
<1>6. GoodOutcome(n, Outcome(o.self, o.kids))
  BY <1>5 DEF GoodOutcome
<1>7. /\ numNodes' \in Nat \ {0}
      /\ Ids \subseteq Ids'
      /\ KidIds(o.kids) \in Seq(Ids')
      /\ tree' \in [Ids' -> Node]
      /\ tree'[n].isExecuted /\ tree'[n].prevId = tree[n].prevId
      /\ \A m \in Ids \ {n} : tree'[m] = tree[m]
      /\ TreeInv'
  BY <1>1, <1>2, <1>4, <1>6, Growth
<1>8. deque' \in Seq(Ids')
  BY <1>1, <1>2, <1>7, PushType, SeqMonotone
<1>9. /\ Append(nodes, n) \in Seq(Ids)
      /\ ToSet(Append(nodes, n)) = ToSet(nodes) \cup {n}
      /\ IsInjective(nodes) /\ n \notin ToSet(nodes) => IsInjective(Append(nodes, n))
  BY <1>1, <1>4, AppendSet DEF TypeOK
<1>10. n \notin ToSet(nodes) /\ n \notin shown
  BY <1>1, <1>4 DEF ReportedOnce
<1>11. IsInjective(<<>>) /\ ToSet(<<>>) = {}
  BY DEF IsInjective, ToSet
<1>12. /\ nodes' \in Seq(Ids') /\ shown' \subseteq Ids'
       /\ ToSet(nodes') \subseteq Ids /\ shown' \subseteq Ids
  <2>1. nodes' \in Seq(Ids)
    BY <1>2, <1>9
  <2>2. ToSet(nodes') \subseteq Ids
    BY <2>1 DEF ToSet
  <2>3. ToSet(Append(nodes, n)) \subseteq Ids
    BY <1>9 DEF ToSet
  <2>4. shown' \subseteq Ids
    BY <1>2, <1>4, <2>3 DEF TypeOK
  <2> QED BY <1>7, <2>1, <2>2, <2>4, SeqMonotone
<1>13. TypeOK'
  BY <1>2, <1>3, <1>4, <1>7, <1>8, <1>12 DEF TypeOK
<1>14. ReportedOnce'
  <2>1. IsInjective(nodes')
    BY <1>2, <1>4, <1>9, <1>10, <1>11 DEF ReportedOnce
  <2>2. ToSet(nodes') \cap shown' = {}
    BY <1>2, <1>4, <1>9, <1>10, <1>11 DEF ReportedOnce
  <2>3. \A m \in ToSet(nodes') \cup shown' : m = n \/ tree[m].isExecuted
    BY <1>2, <1>4, <1>9, <1>11 DEF ReportedOnce
  <2>4. \A m \in ToSet(nodes') \cup shown' : tree'[m].isExecuted
    BY <2>3, <1>7, <1>12
  <2> QED BY <2>1, <2>2, <2>4 DEF ReportedOnce
<1> QED BY <1>1, <1>3, <1>4, <1>7, <1>13, <1>14 DEF IInv

\* The steps that leave the tree, the clicked node and the reports alone.
LEMMA QuietStep ==
  ASSUME IInv, UNCHANGED <<tree, numNodes, cmd, isExclude, shown>>,
         excludedNodes' \subseteq Blocks, deque' \in Seq(Ids), i' \in Nat,
         pc' \in {"names", "round", "step", "getModel", "asleep", "crashed"},
         nodes' = nodes \/ nodes' = <<>>, sent' \in Nat
  PROVE  IInv'
<1>1. Ids' = Ids
  BY DEF Ids
<1>2. nodes' \in Seq(Ids)
  <2>1. nodes \in Seq(Ids) /\ <<>> \in Seq(Ids)
    BY DEF IInv, TypeOK
  <2> QED BY <2>1
<1>3. TypeOK'
  BY <1>1, <1>2 DEF IInv, TypeOK
<1>4. TreeInv'
  BY <1>1 DEF IInv, TreeInv, Ref
<1>5. ReportedOnce'
  <2>1. IsInjective(<<>>) /\ ToSet(<<>>) = {}
    BY DEF IsInjective, ToSet
  <2>2. ReportedOnce /\ UNCHANGED <<tree, shown>>
    BY DEF IInv
  <2> QED BY <2>1, <2>2 DEF ReportedOnce
<1> QED BY <1>1, <1>3, <1>4, <1>5 DEF IInv

LEMMA StartRoundStep == ASSUME IInv, StartRound PROVE IInv'
<1>1. TypeOK /\ TreeInv /\ numNodes \in Nat \ {0} /\ cmd.prevId \in Ids \cup {-1}
  BY DEF IInv, TypeOK
<1>2. deque' \in Seq(Ids)
  <2>1. CASE cmd.prevId = -1
    <3>1. 0 \in Ids
      BY <1>1 DEF Ids
    <3> QED BY <2>1, <3>1 DEF StartRound
  <2>2. CASE cmd.prevId # -1
    <3>1. children(cmd.prevId) \in Seq(Ids)
      BY <1>1, <2>2, ChildrenType
    <3>2. Reverse(children(cmd.prevId)) \in Seq(Ids)
      BY <3>1, ReverseType
    <3>3. \/ deque' = children(cmd.prevId)
          \/ deque' = Reverse(children(cmd.prevId))
          \/ deque' = <<>>
      BY <2>2, Zenon DEF StartRound
    <3>4. <<>> \in Seq(Ids)
      OBVIOUS
    <3> QED BY <3>1, <3>2, <3>3, <3>4
  <2> QED BY <2>1, <2>2
<1>3. /\ nodes' = <<>> /\ i' = 0 /\ pc' \in {"step", "crashed"}
      /\ UNCHANGED <<tree, numNodes, excludedNodes, cmd, isExclude, shown, sent>>
  BY DEF StartRound
<1>4. excludedNodes \subseteq Blocks /\ sent \in Nat
  BY DEF IInv, TypeOK
<1> QED BY <1>2, <1>3, <1>4, QuietStep

LEMMA WorkListStep == ASSUME IInv, SkipExcluded \/ Revisit PROVE IInv'
<1>1. /\ TypeOK /\ TreeInv /\ deque \in Seq(Ids) /\ excludedNodes \subseteq Blocks
      /\ i \in Nat /\ sent \in Nat
  BY DEF IInv, TypeOK
<1>2. /\ UNCHANGED <<tree, numNodes, excludedNodes, i, pc, cmd, isExclude, nodes, shown, sent>>
      /\ deque # <<>> /\ pc = "step"
  BY DEF SkipExcluded, Revisit, MoreSteps
<1>3. Head(deque) \in Ids /\ Tail(deque) \in Seq(Ids)
  BY <1>1, <1>2
<1>4. deque' \in Seq(Ids)
  <2>1. Push(children(Head(deque)), Tail(deque)) \in Seq(Ids)
    BY <1>1, <1>3, ChildrenType, PushType
  <2> QED BY <1>3, <2>1 DEF SkipExcluded, Revisit
<1> QED BY <1>1, <1>2, <1>4, QuietStep

LEMMA ModelAnswerStep ==
  ASSUME IInv, ModelAnswer
  PROVE  /\ IInv'
         /\ Ids' = Ids
         /\ \A n \in Ids : \E p \in 0..MaxPairs :
              tree'[n] = [tree[n] EXCEPT !.modelVals = p] \/ tree'[n] = tree[n]
<1>1. TypeOK /\ TreeInv /\ ReportedOnce /\ cmd.prevId \in Ids \cup {-1} /\ tree \in [Ids -> Node]
  BY DEF IInv, TypeOK
<1>2. PICK p \in 0..MaxPairs :
        /\ tree' = [tree EXCEPT ![numNodes - 1].modelVals = p]
        /\ cmd' = [cmd EXCEPT !.steps = IF @ = -1 THEN -1 ELSE @ + p]
  BY DEF ModelAnswer
<1>3. /\ pc' = "step" /\ sent' = sent + 1
      /\ UNCHANGED <<numNodes, excludedNodes, deque, i, isExclude, nodes, shown>>
  BY DEF ModelAnswer
<1>4. Ids' = Ids /\ p \in Nat
  BY <1>2, <1>3, BoundAssumption DEF Ids
<1>5. \A n \in Ids : tree[n] \in Node
  BY <1>1
<1>6. \A n \in Ids : \/ tree'[n] = [tree[n] EXCEPT !.modelVals = p]
                      \/ tree'[n] = tree[n]
  BY <1>1, <1>2
<1>7. \A n \in Ids : [tree[n] EXCEPT !.modelVals = p] \in Node
  BY <1>4, <1>5 DEF Node
<1>8. DOMAIN tree' = Ids /\ \A n \in Ids : tree'[n] \in Node
  BY <1>1, <1>2, <1>5, <1>6, <1>7
<1>9. tree' \in [Ids' -> Node]
  <2>1. tree' = [n \in Ids |-> tree'[n]]
    BY <1>1, <1>2
  <2> QED BY <1>4, <1>8, <2>1
<1>10. cmd' \in [isBFS : {0, 1}, dir : {0, 1}, steps : Nat \cup {-1}, prevId : Nat \cup {-1}]
       /\ cmd'.prevId = cmd.prevId
  <2>1. cmd \in [isBFS : {0, 1}, dir : {0, 1}, steps : Nat \cup {-1}, prevId : Nat \cup {-1}]
    BY <1>1 DEF TypeOK
  <2>2. (IF cmd.steps = -1 THEN -1 ELSE cmd.steps + p) \in Nat \cup {-1}
    BY <1>4, <2>1
  <2> QED BY <1>2, <2>1, <2>2
<1>11. TypeOK'
  BY <1>1, <1>3, <1>4, <1>9, <1>10 DEF TypeOK
<1>12. \A n \in Ids : /\ tree'[n].prevId = tree[n].prevId
                      /\ tree'[n].isExecuted = tree[n].isExecuted
                      /\ tree'[n].left = tree[n].left /\ tree'[n].right = tree[n].right
                      /\ tree'[n].returnNode = tree[n].returnNode
                      /\ tree'[n].block = tree[n].block
  BY <1>5, <1>6 DEF Node
<1>13. TreeInv'
  <2>1. 0 \in Ids /\ Ids = 0..(numNodes-1) /\ numNodes \in Nat
    BY <1>1 DEF TypeOK, Ids
  <2>2. \A n \in Ids \ {0} : tree[n].prevId \in Ids
    BY <1>1, <2>1 DEF TreeInv
  <2>3. \A n \in Ids : tree[n].returnNode \in Ids \cup {NoNode}
    BY <1>1 DEF TreeInv, Ref
  <2>4. Ref' = Ref
    BY <1>4 DEF Ref, NoNode
  <2>5. tree'[0].prevId = NoNode
    BY <1>1, <1>12, <2>1 DEF TreeInv
  <2>6. \A n \in Ids \ {0} :
          tree'[n].prevId \in 0..(n-1) /\ tree'[tree'[n].prevId].isExecuted
    BY <1>1, <1>12, <2>2 DEF TreeInv
  <2>7. \A n \in Ids :
          /\ tree'[n].left \in Ref /\ tree'[n].right \in Ref
          /\ tree'[n].returnNode \in Ref
          /\ tree'[n].block = NULL => tree'[n].returnNode # NoNode
          /\ ~tree'[n].isExecuted => tree'[n].left = NoNode /\ tree'[n].right = NoNode
    BY <1>1, <1>12 DEF TreeInv
  <2>8. \A n \in Ids : tree'[n].returnNode # NoNode =>
                         tree'[tree'[n].returnNode].block # NULL
    BY <1>1, <1>12, <2>3 DEF TreeInv
  <2> QED BY <1>4, <2>4, <2>5, <2>6, <2>7, <2>8 DEF TreeInv
<1>14. ReportedOnce'
  <2>1. \A n \in ToSet(nodes) \cup shown : n \in Ids
    BY <1>1 DEF TypeOK, ToSet
  <2> QED BY <1>1, <1>3, <1>12, <2>1 DEF ReportedOnce
<1> QED BY <1>1, <1>4, <1>6, <1>10, <1>11, <1>13, <1>14 DEF IInv

LEMMA EndRoundStep == ASSUME IInv, EndRound PROVE IInv'
<1>1. TypeOK /\ TreeInv /\ ReportedOnce /\ cmd.prevId \in Ids \cup {-1}
  BY DEF IInv
<1>2. /\ deque' = <<>> /\ nodes' = <<>> /\ pc' = "asleep"
      /\ shown' = IF isExclude = -1 THEN shown \cup ToSet(nodes) ELSE shown
      /\ UNCHANGED <<tree, numNodes, excludedNodes, i, cmd, isExclude, sent>>
  BY DEF EndRound
<1>3. Ids' = Ids
  BY <1>2 DEF Ids
<1>4. ToSet(nodes) \subseteq Ids
  BY <1>1 DEF TypeOK, ToSet
<1>5. TypeOK'
  BY <1>1, <1>2, <1>3, <1>4 DEF TypeOK
<1>6. TreeInv'
  BY <1>1, <1>2, <1>3 DEF TreeInv, Ref
<1>7. ReportedOnce'
  <2>1. IsInjective(<<>>) /\ ToSet(<<>>) = {}
    BY DEF IsInjective, ToSet
  <2> QED BY <1>1, <1>2, <2>1 DEF ReportedOnce
<1> QED BY <1>1, <1>2, <1>3, <1>5, <1>6, <1>7 DEF IInv

LEMMA ExcludeStep ==
  ASSUME IInv, NEW target \in {0, 1}, NEW blocks, blocks \subseteq Blocks \cup {NULL},
         WakeExclude(target, blocks)
  PROVE  IInv'
<1>1. TypeOK /\ TreeInv /\ ReportedOnce /\ cmd.prevId \in Ids \cup {-1}
  BY DEF IInv
<1>2. /\ isExclude' \in {-1, 0, 1} /\ sent' = sent + 1 /\ pc' \in {"asleep", "crashed"}
      /\ excludedNodes' \in {excludedNodes, excludedNodes \cup blocks}
      /\ NULL \in blocks => excludedNodes' = excludedNodes
      /\ UNCHANGED <<tree, numNodes, deque, i, cmd, nodes, shown>>
  BY DEF WakeExclude
<1>3. excludedNodes' \subseteq Blocks
  BY <1>1, <1>2 DEF TypeOK
<1>4. Ids' = Ids
  BY <1>2 DEF Ids
<1>5. TypeOK'
  BY <1>1, <1>2, <1>3, <1>4 DEF TypeOK
<1>6. TreeInv'
  BY <1>1, <1>2, <1>4 DEF TreeInv, Ref
<1>7. ReportedOnce'
  BY <1>1, <1>2 DEF ReportedOnce
<1> QED BY <1>1, <1>2, <1>4, <1>5, <1>6, <1>7 DEF IInv

LEMMA UserStep == ASSUME IInv, User PROVE IInv'
<1>1. ASSUME FirstProceed \/ WakeProceed PROVE IInv'
  <2>1. PICK c \in Commands : Proceed(c)
    BY <1>1 DEF FirstProceed, WakeProceed
  <2>2. UNCHANGED <<tree, numNodes, excludedNodes, deque, i, nodes, shown>>
    BY <1>1 DEF FirstProceed, WakeProceed
  <2> QED BY <2>1, <2>2, ProceedStep
<1>2. ASSUME FirstExclude PROVE IInv'
  <2>1. TypeOK /\ TreeInv /\ ReportedOnce /\ cmd.prevId \in Ids \cup {-1}
    BY DEF IInv
  <2>2. /\ isExclude' = 0 /\ sent' = sent + 1 /\ pc' = "round"
        /\ UNCHANGED <<tree, numNodes, excludedNodes, deque, i, cmd, nodes, shown>>
    BY <1>2 DEF FirstExclude
  <2>3. Ids' = Ids
    BY <2>2 DEF Ids
  <2>4. TypeOK'
    BY <2>1, <2>2, <2>3 DEF TypeOK
  <2>5. TreeInv' /\ ReportedOnce'
    BY <2>1, <2>2, <2>3 DEF TreeInv, Ref, ReportedOnce
  <2> QED BY <2>1, <2>2, <2>3, <2>4, <2>5 DEF IInv
<1>3. ASSUME ExcludeLine PROVE IInv'
  <2>1. PICK l \in Lines : WakeExclude(0, lineToBlock(l))
    BY <1>3 DEF ExcludeLine
  <2>2. lineToBlock(l) \subseteq Blocks \cup {NULL}
    BY ProgramAssumption DEF lineToBlock
  <2> QED BY <2>1, <2>2, ExcludeStep
<1>4. ASSUME ExcludeNode PROVE IInv'
  <2>1. PICK n \in shown : WakeExclude(1, {tree[n].block})
    BY <1>4 DEF ExcludeNode
  <2>2. TypeOK /\ n \in Ids
    BY DEF IInv, TypeOK
  <2>3. {tree[n].block} \subseteq Blocks \cup {NULL}
    BY <2>2, SameNode DEF Node
  <2> QED BY <2>1, <2>3, ExcludeStep
<1> QED BY <1>1, <1>2, <1>3, <1>4, ModelAnswerStep DEF User

LEMMA Inductive == IInv /\ [Next]_vars => IInv'
<1> SUFFICES ASSUME IInv, [Next]_vars PROVE IInv'
  OBVIOUS
<1>1. CASE Engine
  BY <1>1, StartRoundStep, WorkListStep, ExecuteStep, EndRoundStep DEF Engine
<1>2. CASE User
  BY <1>2, UserStep
<1>3. CASE UNCHANGED vars
  BY <1>3 DEF vars, IInv, TypeOK, TreeInv, ReportedOnce, Ref, Ids
<1> QED BY <1>1, <1>2, <1>3 DEF Next

LEMMA Invariance == Spec => []IInv
BY InitInv, Inductive, PTL DEF Spec

\* Every variable stays in its type, whatever the program and the user do: the
\* ids in the work list and in the reports always name nodes of the tree.
THEOREM TypeCorrect == Spec => []TypeOK
<1>1. IInv => TypeOK
  BY DEF IInv
<1> QED BY <1>1, Invariance, PTL

\* No node is executed or reported twice, however the rounds overlap.
THEOREM NoDoubleReport == Spec => []ReportedOnce
<1>1. IInv => ReportedOnce
  BY DEF IInv
<1> QED BY <1>1, Invariance, PTL

-----------------------------------------------------------------------------
(* What has been executed stays as it is.                                  *)

LEMMA FinalStep ==
  ASSUME IInv, [Next]_vars, NEW n \in Ids, tree[n].isExecuted
  PROVE  /\ n \in Ids'
         /\ tree'[n].isExecuted /\ tree'[n].prevId = tree[n].prevId
         /\ tree'[n].left = tree[n].left /\ tree'[n].right = tree[n].right
         /\ tree'[n].ip = tree[n].ip
<1>1. CASE ExecuteNode
  <2>1. tree'[n] = tree[n] /\ n \in Ids'
    BY <1>1, ExecuteStep
  <2> QED BY <2>1
<1>2. CASE ModelAnswer
  <2>1. tree[n] \in Node
    BY SameNode DEF IInv
  <2>2. n \in Ids'
    BY <1>2, ModelAnswerStep
  <2>3. PICK p \in 0..MaxPairs : tree'[n] = [tree[n] EXCEPT !.modelVals = p] \/ tree'[n] = tree[n]
    BY <1>2, ModelAnswerStep
  <2> QED BY <2>1, <2>2, <2>3 DEF Node
<1>3. CASE UNCHANGED <<tree, numNodes>>
  BY <1>3 DEF Ids
<1>4. ExecuteNode \/ ModelAnswer \/ UNCHANGED <<tree, numNodes>>
  BY DEF Next, Engine, User, StartRound, SkipExcluded, Revisit, EndRound, FirstProceed,
         FirstExclude, WakeProceed, ExcludeLine, ExcludeNode, WakeExclude, vars
<1> QED BY <1>1, <1>2, <1>3, <1>4

\* An executed node keeps its children and is never executed again.
THEOREM ExecutedStays == Spec => ExecutedIsFinal
<1>1. IInv /\ [Next]_vars =>
        [\A n \in Ids : tree[n].isExecuted =>
           /\ tree'[n].isExecuted
           /\ tree'[n].left = tree[n].left
           /\ tree'[n].right = tree[n].right
           /\ tree'[n].ip = tree[n].ip]_vars
  BY FinalStep
<1> QED BY <1>1, Invariance, PTL DEF Spec, ExecutedIsFinal

-----------------------------------------------------------------------------
(* What the page has seen, when the first instruction is not an exclusion.  *)

\* Every executed node has been sent or waits in nodes for the next reply, and
\* the replies that carry nodes are those of a round, which an instruction to
\* proceed started.
PageInv ==
  /\ pc \in {"round", "step", "getModel"} => isExclude = -1
  /\ pc # "step" => nodes = <<>>
  /\ \A n \in Ids : tree[n].isExecuted => n \in shown \cup ToSet(nodes)
  /\ ParentReportedFirst

LEMMA PageInit == Init => PageInv
BY DEF Init, PageInv, ParentReportedFirst, Ids, SymbolicTreeNode

\* The steps that execute nothing, and report all or nothing.
LEMMA PageQuiet ==
  ASSUME IInv, PageInv, UNCHANGED numNodes,
         \A n \in Ids : /\ tree'[n].isExecuted = tree[n].isExecuted
                        /\ tree'[n].prevId = tree[n].prevId,
         \/ nodes' = nodes /\ shown' = shown
         \/ nodes' = <<>> /\ shown' = shown \cup ToSet(nodes),
         pc' # "step" => nodes' = <<>>,
         pc' \in {"round", "step", "getModel"} => isExclude' = -1
  PROVE  PageInv'
<1>1. Ids' = Ids /\ nodes \in Seq(Ids) /\ ToSet(<<>>) = {}
  BY DEF Ids, IInv, TypeOK, ToSet
<1>2. \A n \in Ids' : tree'[n].isExecuted => n \in shown' \cup ToSet(nodes')
  BY <1>1 DEF PageInv
<1>3. ParentReportedFirst'
  <2>1. CASE nodes' = <<>>
    BY <2>1 DEF ParentReportedFirst
  <2>2. CASE nodes' = nodes /\ shown' = shown
    <3>1. \A k \in 1..Len(nodes) : nodes[k] \in Ids
      BY <1>1
    <3> QED BY <2>2, <3>1 DEF PageInv, ParentReportedFirst
  <2> QED BY <2>1, <2>2
<1> QED BY <1>2, <1>3 DEF PageInv

LEMMA PageExecute == ASSUME IInv, PageInv, ExecuteNode PROVE PageInv'
<1> DEFINE n == Head(deque)
<1>1. /\ n \in Ids /\ ~tree[n].isExecuted
      /\ \A m \in Ids \ {n} : tree'[m] = tree[m]
      /\ tree'[n].prevId = tree[n].prevId
      /\ IInv'
  BY ExecuteStep
<1>2. /\ nodes \in Seq(Ids) /\ shown \subseteq Ids /\ numNodes \in Nat
      /\ TreeInv /\ ReportedOnce /\ isExclude = -1 /\ isExclude' = -1
  BY DEF IInv, TypeOK, PageInv, ExecuteNode
<1>3. \/ /\ pc' = "getModel" /\ nodes' = <<>>
         /\ shown' = shown \cup ToSet(Append(nodes, n))
      \/ pc' = "step" /\ nodes' = Append(nodes, n) /\ shown' = shown
  BY <1>2 DEF ExecuteNode
<1>4. ToSet(Append(nodes, n)) = ToSet(nodes) \cup {n} /\ ToSet(<<>>) = {}
  <2>1. ToSet(<<>>) = {}
    BY DEF ToSet
  <2> QED BY <1>1, <1>2, <2>1, AppendSet
<1>5. shown' \cup ToSet(nodes') = shown \cup ToSet(nodes) \cup {n}
  BY <1>3, <1>4
<1>6. \A m \in Ids' : tree'[m].isExecuted => m \in Ids
  <2>1. PICK o \in IF tree[n].isSatisfiable THEN executeBasicBlock(n)
                                            ELSE {Outcome(tree[n], <<>>)} :
          /\ tree' = Grow(n, Link(o.self, o.kids), o.kids)
          /\ numNodes' = numNodes + Len(o.kids)
    BY DEF ExecuteNode
  <2>2. GoodOutcome(n, o)
    <3>1. TypeOK
      BY DEF IInv
    <3> QED BY <1>1, <1>2, <2>1, <3>1, ExecutionOutcome, NoKid, SameNode
  <2>3. /\ o.kids \in Seq(Node) /\ Len(o.kids) \in Nat
        /\ \A k \in 1..Len(o.kids) : ~o.kids[k].isExecuted
    BY <2>2 DEF GoodOutcome, Kid
  <2>4. ASSUME NEW m \in Ids', m \notin Ids PROVE ~tree'[m].isExecuted
    <3>1. /\ m \in 0..(numNodes + Len(o.kids) - 1) /\ ~(m < numNodes) /\ m # n
          /\ m - numNodes + 1 \in 1..Len(o.kids)
      BY <1>1, <1>2, <2>1, <2>3, <2>4 DEF Ids
    <3>2. tree'[m] = o.kids[m - numNodes + 1]
      BY <2>1, <3>1 DEF Grow
    <3> QED BY <2>3, <3>1, <3>2
  <2> QED BY <2>4
<1>7. \A m \in Ids' : tree'[m].isExecuted => m \in shown' \cup ToSet(nodes')
  BY <1>1, <1>5, <1>6 DEF PageInv
<1>8. ParentReportedFirst'
  <2>1. CASE nodes' = <<>>
    BY <2>1 DEF ParentReportedFirst
  <2>2. CASE nodes' = Append(nodes, n) /\ shown' = shown
    <3> SUFFICES ASSUME NEW k \in 1..Len(nodes')
                 PROVE  LET p == tree'[nodes'[k]].prevId
                        IN  p = NoNode \/ p \in shown \/ \E j \in 1..(k-1) : nodes'[j] = p
      BY <2>2 DEF ParentReportedFirst
    <3>1. /\ Len(nodes) \in Nat /\ Len(nodes') = Len(nodes) + 1
          /\ nodes'[Len(nodes) + 1] = n
          /\ \A j \in 1..Len(nodes) : nodes'[j] = nodes[j] /\ nodes[j] \in Ids
      BY <1>2, <2>2
    <3>2. \A x \in ToSet(nodes) : \E j \in 1..Len(nodes) : nodes[j] = x
      BY <1>2 DEF ToSet
    <3>3. \A j \in 1..Len(nodes) : nodes[j] \in ToSet(nodes)
      BY <1>2 DEF ToSet
    <3>4. CASE k = Len(nodes) + 1
      <4>1. tree[n].prevId = NoNode \/ tree[n].prevId \in shown \cup ToSet(nodes)
        <5>1. CASE n = 0
          BY <5>1, <1>2 DEF TreeInv
        <5>2. CASE n # 0
          <6>1. tree[n].prevId \in Ids /\ tree[tree[n].prevId].isExecuted
            BY <5>2, <1>1, <1>2, SMTT(40) DEF TreeInv, Ids
          <6> QED BY <6>1 DEF PageInv
        <5> QED BY <5>1, <5>2
      <4>2. 1..(k-1) = 1..Len(nodes)
        BY <3>1, <3>4
      <4> QED BY <1>1, <3>1, <3>2, <3>4, <4>1, <4>2
    <3>5. CASE k \in 1..Len(nodes)
      <4>1. nodes[k] # n
        BY <1>1, <1>2, <3>3, <3>5 DEF ReportedOnce
      <4>2. tree'[nodes'[k]].prevId = tree[nodes[k]].prevId
        BY <1>1, <3>1, <3>5, <4>1
      <4>3. LET p == tree[nodes[k]].prevId
            IN  p = NoNode \/ p \in shown \/ \E j \in 1..(k-1) : nodes[j] = p
        BY <3>5 DEF PageInv, ParentReportedFirst
      <4>4. \A j \in 1..(k-1) : nodes'[j] = nodes[j]
        BY <3>1, <3>5
      <4> QED BY <4>2, <4>3, <4>4
    <3> QED BY <3>1, <3>4, <3>5
  <2> QED BY <1>3, <2>1, <2>2
<1> QED BY <1>2, <1>3, <1>7, <1>8 DEF PageInv

LEMMA PageStep ==
  ASSUME "exclude" \notin FirstKinds, IInv, PageInv, [Next]_vars
  PROVE  PageInv'
<1>1. CASE ExecuteNode
  BY <1>1, PageExecute
<1>2. CASE ModelAnswer
  <2>1. \A n \in Ids : tree[n] \in Node
    BY SameNode DEF IInv
  <2>2. \A n \in Ids : /\ tree'[n].isExecuted = tree[n].isExecuted
                       /\ tree'[n].prevId = tree[n].prevId
    BY <1>2, <2>1, ModelAnswerStep DEF Node
  <2>3. /\ pc = "getModel" /\ pc' = "step"
        /\ UNCHANGED <<numNodes, isExclude, nodes, shown>>
    BY <1>2 DEF ModelAnswer
  <2> QED BY <2>2, <2>3, PageQuiet DEF PageInv
<1>3. CASE EndRound
  BY <1>3, PageQuiet DEF EndRound, PageInv
<1>4. CASE StartRound
  <2>1. pc = "round" /\ nodes' = <<>> /\ UNCHANGED <<tree, numNodes, isExclude, shown>>
    BY <1>4 DEF StartRound
  <2>2. nodes = <<>> /\ isExclude = -1
    BY <2>1 DEF PageInv
  <2> QED BY <2>1, <2>2, PageQuiet
<1>5. CASE SkipExcluded \/ Revisit \/ UNCHANGED vars
  BY <1>5, PageQuiet DEF SkipExcluded, Revisit, vars, PageInv
<1>6. CASE FirstProceed \/ WakeProceed
  <2>1. /\ pc \in {"names", "asleep"} /\ pc' = "round" /\ isExclude' = -1
        /\ UNCHANGED <<tree, numNodes, nodes, shown>>
    BY <1>6 DEF FirstProceed, WakeProceed, Proceed
  <2> QED BY <2>1, PageQuiet DEF PageInv
<1>7. CASE ExcludeLine \/ ExcludeNode
  <2>1. /\ pc = "asleep" /\ pc' \in {"asleep", "crashed"}
        /\ UNCHANGED <<tree, numNodes, nodes, shown>>
    BY <1>7 DEF ExcludeLine, ExcludeNode, WakeExclude
  <2> QED BY <2>1, PageQuiet DEF PageInv
<1>8. CASE FirstExclude
  BY <1>8 DEF FirstExclude
<1> QED BY <1>1, <1>2, <1>3, <1>4, <1>5, <1>6, <1>7, <1>8 DEF Next, Engine, User

\* Unless the first instruction is an exclusion, the page has every executed
\* node when the executor sleeps, and had the parent before the child.
THEOREM PageComplete ==
  ASSUME "exclude" \notin FirstKinds
  PROVE  Spec => [](OutputReachesUser /\ ParentReportedFirst)
<1>1. IInv /\ PageInv => OutputReachesUser /\ ParentReportedFirst
  BY DEF IInv, PageInv, OutputReachesUser, ToSet
<1>2. IInv /\ PageInv /\ [Next]_vars => PageInv'
  BY PageStep
<1> QED BY <1>1, <1>2, PageInit, Invariance, PTL DEF Spec

\* As to the order alone: addNode of the page knows the parent of what it is given.
COROLLARY ReportsInOrder ==
  ASSUME "exclude" \notin FirstKinds
  PROVE  Spec => []ParentReportedFirst
BY PageComplete, PTL

-----------------------------------------------------------------------------
(* The two children of a node.                                             *)

LEMMA Counts ==
  ASSUME NEW k \in Nat
  PROVE  /\ k = 0 \/ k = 1 \/ k >= 2
         /\ k >= 2 => k # 0 /\ k # 1
         /\ k >= 2 /\ k <= 2 => k = 2
OBVIOUS

LEMMA LinkChildren ==
  ASSUME TypeOK, NEW self \in Node, NEW kids \in Seq(Node)
  PROVE  LET x == Link(self, kids)
         IN  \/ Len(kids) = 0 /\ x.left = self.left /\ x.right = self.right
             \/ Len(kids) = 1 /\ x.left = numNodes /\ x.right = self.right
             \/ /\ Len(kids) >= 2 /\ x.left = numNodes
                /\ x.right \in (numNodes + 1)..(numNodes + Len(kids) - 1)
<1> DEFINE ids == KidIds(kids)
           last == IF cmd.dir = 1 THEN 2 ELSE Len(kids)
           l == IF Len(kids) >= 1 THEN ids[1] ELSE self.left
           r == IF Len(kids) >= 2 THEN ids[last] ELSE self.right
<1>1. Link(self, kids) = [self EXCEPT !.isExecuted = TRUE, !.left = l, !.right = r]
  BY DEF Link
<1>2. Len(kids) \in Nat /\ numNodes \in Nat
  BY DEF TypeOK
<1>3. CASE Len(kids) = 0
  <2>1. l = self.left /\ r = self.right
    BY <1>3
  <2> HIDE DEF l, r
  <2> QED BY <1>1, <1>3, <2>1 DEF Node
<1>4. CASE Len(kids) = 1
  <2>1. ids[1] = numNodes
    BY <1>2, <1>4 DEF KidIds
  <2> HIDE DEF ids
  <2>2. l = numNodes /\ r = self.right
    BY <1>4, <2>1
  <2> HIDE DEF l, r
  <2> QED BY <1>1, <1>4, <2>2 DEF Node
<1>5. CASE Len(kids) >= 2
  <2>1. last \in 2..Len(kids)
    BY <1>2, <1>5
  <2>2. ids[1] = numNodes /\ \A k \in 2..Len(kids) : ids[k] = numNodes + k - 1
    BY <1>2, <1>5 DEF KidIds
  <2> HIDE DEF ids, last
  <2>3. l = numNodes /\ r = numNodes + last - 1
    BY <1>5, <2>1, <2>2
  <2>4. r \in (numNodes + 1)..(numNodes + Len(kids) - 1)
    BY <1>2, <2>1, <2>3
  <2> HIDE DEF l, r
  <2> QED BY <1>1, <1>5, <2>3, <2>4 DEF Node
<1>6. Len(kids) = 0 \/ Len(kids) = 1 \/ Len(kids) >= 2
  BY <1>2, Counts, Zenon
<1> QED BY <1>3, <1>4, <1>5, <1>6, Zenon

\* Where execution puts the children of a node: the first is left, another one
\* right; an infeasible node gets none, and only the answers to an external call
\* can be more than two.
LEMMA Branching ==
  ASSUME IInv, ExecuteNode
  PROVE  LET n == Head(deque)
         IN  /\ tree'[n].block = tree[n].block /\ tree'[n].modelVals = tree[n].modelVals
             /\ tree'[n].cons = tree[n].cons /\ tree'[n].never = tree[n].never
             /\ ~tree[n].isSatisfiable => /\ ~tree'[n].isSatisfiable
                                          /\ tree'[n].left = NoNode /\ tree'[n].right = NoNode
             /\ \A m \in Ids' \ Ids :
                  /\ Kid(n, tree'[m])
                  /\ \/ m \in {tree'[n].left, tree'[n].right}
                     \/ /\ tree[n].block = NULL
                        /\ {tree'[n].left, tree'[n].right} \subseteq Ids' \ Ids
                        /\ tree'[n].left # tree'[n].right /\ tree'[n].left < m
                  /\ tree[n].block # NULL /\ tree'[n].right = m => Marked(tree'[m])
<1> DEFINE n == Head(deque)
<1>1. n \in Ids /\ ~tree[n].isExecuted /\ TypeOK /\ TreeInv
  BY ExecuteStep DEF IInv
<1>2. PICK o \in IF tree[n].isSatisfiable THEN executeBasicBlock(n)
                                          ELSE {Outcome(tree[n], <<>>)} :
        /\ tree' = Grow(n, Link(o.self, o.kids), o.kids)
        /\ numNodes' = numNodes + Len(o.kids)
  BY DEF ExecuteNode
<1>3. GoodOutcome(n, Outcome(o.self, o.kids))
  <2>1. GoodOutcome(n, o)
    BY <1>1, <1>2, ExecutionOutcome, NoKid, SameNode
  <2> QED BY <2>1 DEF GoodOutcome
<1>4. PICK self, kids : self = o.self /\ kids = o.kids
  OBVIOUS
<1>5. /\ GoodOutcome(n, Outcome(self, kids))
      /\ tree' = Grow(n, Link(self, kids), kids)
      /\ numNodes' = numNodes + Len(kids)
      /\ ~tree[n].isSatisfiable => self = tree[n] /\ kids = <<>>
  BY <1>2, <1>3, <1>4 DEF Outcome
<1> HIDE DEF n
<1>6. /\ kids \in Seq(Node) /\ numNodes \in Nat
      /\ Len(kids) <= (IF tree[n].block = NULL THEN tree[n].modelVals ELSE 2)
      /\ tree[n].block # NULL /\ Len(kids) = 2 => Marked(kids[2])
      /\ self.left = NoNode /\ self.right = NoNode
      /\ self \in Node
  BY <1>1, <1>5 DEF GoodOutcome, Outcome, Same, TreeInv, TypeOK
<1>7. /\ tree'[n] = Link(self, kids)
      /\ \A m \in Ids' \ Ids : /\ m - numNodes + 1 \in 1..Len(kids)
                               /\ tree'[m] = kids[m - numNodes + 1]
                               /\ Kid(n, tree'[m])
  BY <1>1, <1>5, Growth
<1>8. /\ tree'[n].block = tree[n].block /\ tree'[n].modelVals = tree[n].modelVals
      /\ tree'[n].cons = tree[n].cons /\ tree'[n].never = tree[n].never
      /\ tree'[n].isSatisfiable = self.isSatisfiable
  BY <1>1, <1>5, <1>7, LinkNode
<1>9. \/ Len(kids) = 0 /\ tree'[n].left = NoNode /\ tree'[n].right = NoNode
      \/ Len(kids) = 1 /\ tree'[n].left = numNodes /\ tree'[n].right = NoNode
      \/ /\ Len(kids) >= 2 /\ tree'[n].left = numNodes
         /\ tree'[n].right \in (numNodes + 1)..(numNodes + Len(kids) - 1)
  BY <1>1, <1>6, <1>7, LinkChildren
<1>10. Ids' = 0..(numNodes + Len(kids) - 1) /\ Ids = 0..(numNodes - 1) /\ Len(kids) \in Nat
  BY <1>5, <1>6 DEF Ids
<1>11. ASSUME NEW m \in Ids' \ Ids
       PROVE  /\ \/ m \in {tree'[n].left, tree'[n].right}
                 \/ /\ tree[n].block = NULL
                    /\ {tree'[n].left, tree'[n].right} \subseteq Ids' \ Ids
                    /\ tree'[n].left # tree'[n].right /\ tree'[n].left < m
              /\ tree[n].block # NULL /\ tree'[n].right = m => Marked(tree'[m])
  <2>1. m \in Int /\ m >= numNodes /\ m < numNodes + Len(kids)
    BY <1>6, <1>10
  <2>2. m - numNodes + 1 \in 1..Len(kids) /\ tree'[m] = kids[m - numNodes + 1]
    BY <1>7
  <2>3. CASE Len(kids) = 1
    <3>1. m = numNodes /\ m # NoNode
      BY <1>6, <2>1, <2>3 DEF NoNode
    <3> QED BY <1>9, <2>3, <3>1
  <2>4. CASE Len(kids) >= 2
    <3>1. /\ tree'[n].left = numNodes
          /\ tree'[n].right \in (numNodes + 1)..(numNodes + Len(kids) - 1)
      <4>1. Len(kids) # 0 /\ Len(kids) # 1
        BY <1>10, <2>4, Counts, Zenon
      <4> QED BY <1>9, <4>1, Zenon
    <3>2. /\ {tree'[n].left, tree'[n].right} \subseteq Ids' \ Ids
          /\ tree'[n].left # tree'[n].right
      BY <1>6, <1>10, <2>4, <3>1
    <3>3. CASE tree[n].block # NULL
      <4>1. Len(kids) = 2
        <5>1. Len(kids) <= 2
          BY <1>6, <3>3, Zenon
        <5> QED BY <1>10, <2>4, <5>1, Counts, Zenon
      <4>2. m = numNodes \/ m = numNodes + 1
        BY <1>6, <2>1, <4>1
      <4>3. tree'[n].right = numNodes + 1
        BY <1>6, <3>1, <4>1
      <4>4. m = numNodes + 1 => m - numNodes + 1 = 2
        BY <1>6
      <4>5. numNodes # numNodes + 1
        BY <1>6
      <4> QED BY <1>6, <2>2, <3>1, <3>3, <4>1, <4>2, <4>3, <4>4, <4>5
    <3>4. CASE tree[n].block = NULL
      <4>1. m # tree'[n].left => tree'[n].left < m
        BY <1>6, <2>1, <3>1
      <4> QED BY <3>2, <3>4, <4>1
    <3> QED BY <3>3, <3>4
  <2>5. Len(kids) # 0
    BY <1>6, <2>1
  <2> QED BY <1>9, <2>3, <2>4, <2>5
<1>12. ASSUME ~tree[n].isSatisfiable
       PROVE  ~tree'[n].isSatisfiable /\ tree'[n].left = NoNode /\ tree'[n].right = NoNode
  <2>1. self = tree[n] /\ Len(kids) = 0
    BY <1>5, <1>12
  <2> QED BY <1>8, <1>9, <1>12, <2>1
<1> QED BY <1>7, <1>8, <1>11, <1>12 DEF n

\* The steps that execute nothing change at most modelVals in the tree.
LEMMA TreeStep ==
  ASSUME IInv, [Next]_vars, ~ExecuteNode
  PROVE  /\ Ids' = Ids
         /\ \A n \in Ids :
              /\ tree'[n].prevId = tree[n].prevId /\ tree'[n].block = tree[n].block
              /\ tree'[n].left = tree[n].left /\ tree'[n].right = tree[n].right
              /\ tree'[n].cons = tree[n].cons /\ tree'[n].never = tree[n].never
              /\ tree'[n].isSatisfiable = tree[n].isSatisfiable
              /\ tree'[n].isExecuted = tree[n].isExecuted
              /\ tree'[n].modelVals \in {tree[n].modelVals} \cup 0..MaxPairs
<1>1. CASE ModelAnswer
  <2>1. \A n \in Ids : tree[n] \in Node
    BY SameNode DEF IInv
  <2>2. \A n \in Ids : \E p \in 0..MaxPairs :
          tree'[n] = [tree[n] EXCEPT !.modelVals = p] \/ tree'[n] = tree[n]
    BY <1>1, ModelAnswerStep
  <2>3. Ids' = Ids
    BY <1>1, ModelAnswerStep
  <2> QED BY <2>1, <2>2, <2>3, ZenonT(40) DEF Node
<1>2. CASE UNCHANGED <<tree, numNodes>>
  BY <1>2 DEF Ids
<1>3. ModelAnswer \/ UNCHANGED <<tree, numNodes>>
  BY DEF Next, Engine, User, StartRound, SkipExcluded, Revisit, EndRound, FirstProceed,
         FirstExclude, WakeProceed, ExcludeLine, ExcludeNode, WakeExclude, vars
<1> QED BY <1>1, <1>2, <1>3

LEMMA ParentNode ==
  ASSUME IInv, NEW n \in Ids \ {0}
  PROVE  tree[n].prevId \in Ids /\ tree[tree[n].prevId].isExecuted
BY DEF IInv, TypeOK, TreeInv, Ids

\* A second branch that cannot be taken is marked, and has no children.
DeadEnd(n) ==
  ~tree[n].isSatisfiable /\ tree[n].left = NoNode /\ tree[n].right = NoNode

PruneInv ==
  \A n \in Ids \ {0} :
    LET p == tree[tree[n].prevId]
    IN  /\ p.right = n
        /\ p.block # NULL
        /\ tree[n].never \/ tree[n].cons = "unsat"
        => DeadEnd(n)

LEMMA PruneStep == ASSUME IInv, PruneInv, [Next]_vars PROVE PruneInv'
<1> SUFFICES ASSUME NEW m \in (Ids \ {0})',
                    tree'[tree'[m].prevId].right = m,
                    tree'[tree'[m].prevId].block # NULL,
                    tree'[m].never \/ tree'[m].cons = "unsat"
             PROVE  DeadEnd(m)'
  BY DEF PruneInv
<1> DEFINE e == Head(deque)
           q == tree[m].prevId
<1>1. CASE m \in Ids \ {0}
  <2>1. q \in Ids /\ tree[q].isExecuted
    BY <1>1, ParentNode
  <2>2. CASE ~ExecuteNode
    <3>1. /\ tree'[m].prevId = q /\ tree'[q].right = tree[q].right
          /\ tree'[q].block = tree[q].block
          /\ tree'[m].never = tree[m].never /\ tree'[m].cons = tree[m].cons
          /\ tree'[m].left = tree[m].left /\ tree'[m].right = tree[m].right
          /\ tree'[m].isSatisfiable = tree[m].isSatisfiable
      BY <1>1, <2>1, <2>2, TreeStep
    <3>2. DeadEnd(m)
      BY <1>1, <3>1 DEF PruneInv
    <3> QED BY <3>1, <3>2 DEF DeadEnd
  <2>3. CASE ExecuteNode
    <3>1. /\ q # e /\ tree'[q] = tree[q] /\ tree'[m].prevId = q
          /\ m # e => tree'[m] = tree[m]
      BY <1>1, <2>1, <2>3, ExecuteStep
    <3>2. m = e => /\ tree'[m].never = tree[m].never /\ tree'[m].cons = tree[m].cons
                   /\ ~tree[m].isSatisfiable => DeadEnd(m)'
      BY <2>3, Branching DEF DeadEnd
    <3>3. DeadEnd(m)
      BY <1>1, <3>1, <3>2 DEF PruneInv
    <3> QED BY <3>1, <3>2, <3>3 DEF DeadEnd
  <2> QED BY <2>2, <2>3
<1>2. CASE m \notin Ids
  <2>1. ExecuteNode
    BY <1>2, TreeStep
  <2>2. m \in Ids' \ Ids
    BY <1>2
  <2>3. Kid(e, tree'[m])
    BY <2>1, <2>2, Branching
  <2>4. tree'[m].prevId = e /\ tree'[m].left = NoNode /\ tree'[m].right = NoNode
    BY <2>3 DEF Kid
  <2>5. tree[e].block # NULL /\ tree'[e].right = m => Marked(tree'[m])
    BY <2>1, <2>2, Branching
  <2>6. tree'[e].block = tree[e].block
    BY <2>1, Branching
  <2> HIDE DEF e
  <2>7. Marked(tree'[m])
    BY <2>4, <2>5, <2>6
  <2> QED BY <2>4, <2>7 DEF DeadEnd, Marked
<1> QED BY <1>1, <1>2

\* The second branch of a conditional branch gets no children, in whatever
\* round, when a constant condition or the solver rules it out.
THEOREM DeadBranchPruned == Spec => []SecondBranchPruned
<1>1. Init => PruneInv
  BY DEF Init, PruneInv, Ids
<1>2. PruneInv => SecondBranchPruned
  BY DEF PruneInv, DeadEnd, SecondBranchPruned
<1>3. IInv /\ PruneInv /\ [Next]_vars => PruneInv'
  BY PruneStep
<1> QED BY <1>1, <1>2, <1>3, Invariance, PTL DEF Spec

LEMMA AnswersStep ==
  ASSUME IInv, OnlyAnswersLost, [Next]_vars
  PROVE  OnlyAnswersLost'
<1> SUFFICES ASSUME NEW m \in Ids' PROVE (Linked(m) \/ Crowded(m))'
  BY DEF OnlyAnswersLost
<1> DEFINE e == Head(deque)
           q == tree[m].prevId
<1>1. CASE m \in Ids
  <2>1. \A n \in Ids : tree'[n].prevId = tree[n].prevId
    BY TreeStep, ExecuteStep, Branching
  <2>2. Ids \subseteq Ids'
    BY TreeStep, ExecuteStep
  <2>3. ASSUME m # 0
        PROVE  /\ tree'[q].left = tree[q].left /\ tree'[q].right = tree[q].right
               /\ tree'[q].block = tree[q].block
    <3>1. CASE ExecuteNode
      BY <1>1, <2>3, <3>1, ParentNode, ExecuteStep
    <3>2. CASE ~ExecuteNode
      BY <1>1, <2>3, <3>2, ParentNode, TreeStep
    <3> QED BY <3>1, <3>2
  <2>4. Linked(m) => Linked(m)'
    BY <1>1, <2>1, <2>3 DEF Linked
  <2>5. m # 0 /\ Crowded(m) => Crowded(m)'
    <3> SUFFICES ASSUME m # 0, Crowded(m) PROVE Crowded(m)'
      OBVIOUS
    <3>1. /\ tree[q].block = NULL
          /\ tree[q].left \in Ids /\ tree[q].right \in Ids
          /\ tree[q].left # tree[q].right /\ tree[q].left < m
          /\ tree[tree[q].left].prevId = q /\ tree[tree[q].right].prevId = q
      BY DEF Crowded
    <3>2. tree'[m].prevId = q
      BY <1>1, <2>1
    <3> HIDE DEF q
    <3> QED BY <2>1, <2>2, <2>3, <3>1, <3>2 DEF Crowded
  <2>6. 0 \in {m} => Linked(m)'
    BY DEF Linked
  <2> QED BY <1>1, <2>4, <2>5, <2>6 DEF OnlyAnswersLost
<1>2. CASE m \notin Ids
  <2>1. ExecuteNode
    BY <1>2, TreeStep
  <2>2. /\ \A k \in Ids' \ Ids : Kid(e, tree'[k])
        /\ tree'[e].block = tree[e].block
        /\ \/ m \in {tree'[e].left, tree'[e].right}
           \/ /\ tree[e].block = NULL
              /\ {tree'[e].left, tree'[e].right} \subseteq Ids' \ Ids
              /\ tree'[e].left # tree'[e].right /\ tree'[e].left < m
    BY <1>2, <2>1, Branching
  <2>3. \A k \in Ids' \ Ids : tree'[k].prevId = e
    BY <2>2 DEF Kid
  <2>4. tree'[m].prevId = e
    BY <1>2, <2>3
  <2> HIDE DEF e
  <2> QED BY <2>2, <2>3, <2>4 DEF Linked, Crowded
<1> QED BY <1>1, <1>2

\* Whatever models the user gives, a branch keeps its place in the tree, and of
\* the answers of a model only a third or later one can lose it.
THEOREM AlternativesKept == Spec => []OnlyAnswersLost
<1>1. Init => OnlyAnswersLost
  BY DEF Init, OnlyAnswersLost, Linked, Ids
<1>2. IInv /\ OnlyAnswersLost /\ [Next]_vars => OnlyAnswersLost'
  BY AnswersStep
<1> QED BY <1>1, <1>2, Invariance, PTL DEF Spec

-----------------------------------------------------------------------------
(* The exploration implements the guided search.                           *)

ParentOf == [n \in Ids |-> tree[n].prevId]
Explored == {n \in Ids : tree[n].isExecuted}
Turn == IF pc \in {"round", "step"} THEN "engine" ELSE "user"

\* The node a round starts from has been shown, so it has been executed.
RoundInv == pc = "round" => cmd.prevId \in shown \cup {-1}

LEMMA RoundStep ==
  ASSUME "exclude" \notin FirstKinds, RoundInv, [Next]_vars
  PROVE  RoundInv'
<1>1. CASE FirstProceed \/ WakeProceed
  BY <1>1 DEF FirstProceed, WakeProceed, Proceed, Commands, RoundInv
<1>2. CASE UNCHANGED vars
  BY <1>2 DEF vars, RoundInv
<1>3. CASE Engine \/ ModelAnswer \/ ExcludeLine \/ ExcludeNode
  <2>1. pc' # "round"
    BY <1>3 DEF Engine, StartRound, SkipExcluded, Revisit, ExecuteNode, EndRound,
                ModelAnswer, ExcludeLine, ExcludeNode, WakeExclude
  <2> QED BY <2>1 DEF RoundInv
<1>4. CASE FirstExclude
  BY <1>4 DEF FirstExclude
<1> QED BY <1>1, <1>2, <1>3, <1>4 DEF Next, User

\* What waits in nodes for the next reply is all the page lacks.
LEMMA PageLacks ==
  ASSUME IInv, PageInv
  PROVE  Explored = shown \cup ToSet(nodes)
<1>1. shown \subseteq Ids /\ ToSet(nodes) \subseteq Ids
  BY DEF IInv, TypeOK, ToSet
<1> QED BY <1>1 DEF IInv, ReportedOnce, PageInv, Explored

LEMMA SearchUser ==
  ASSUME IInv, [Next]_vars, ~ExecuteNode
  PROVE  ParentOf' = ParentOf /\ Explored' = Explored
BY TreeStep DEF ParentOf, Explored

LEMMA SearchExplore ==
  ASSUME IInv, PageInv, ExecuteNode
  PROVE  \E n \in Search!Known : Search!Explore(n)
<1>0. PICK n \in Ids : n = Head(deque)
  BY ExecuteStep
<1>1. /\ n \in Ids /\ ~tree[n].isExecuted /\ Ids \subseteq Ids'
      /\ \A m \in Ids \ {n} : tree'[m] = tree[m]
      /\ tree'[n].isExecuted /\ tree'[n].prevId = tree[n].prevId
      /\ IInv'
  BY <1>0, ExecuteStep
<1>2. \A m \in Ids' \ Ids : tree'[m].prevId = n /\ ~tree'[m].isExecuted
  BY <1>0, Branching DEF Kid
<1>3. Explored' = Explored \cup {n} /\ n \notin Explored
  BY <1>1, <1>2 DEF Explored
<1>4. ParentOf[n] \in Explored \cup {-1}
  <2>1. CASE n = 0
    BY <2>1, <1>1 DEF IInv, TreeInv, ParentOf, NoNode
  <2>2. CASE n # 0
    BY <2>2, <1>1, ParentNode DEF ParentOf, Explored
  <2> QED BY <2>1, <2>2
<1>5. /\ DOMAIN ParentOf = Ids /\ DOMAIN ParentOf' = Ids'
      /\ \A m \in Ids : m \in Ids' /\ ParentOf'[m] = ParentOf[m]
      /\ \A m \in Ids' \ Ids : ParentOf'[m] = n
  BY <1>1, <1>2 DEF ParentOf
<1>6. Turn = "engine"
  BY DEF ExecuteNode, Turn
<1>7. \/ Turn' = "engine" /\ shown' = shown
      \/ Turn' = "user" /\ shown' = Explored'
  <2>1. PageInv'
    BY PageExecute
  <2>2. pc = "step" /\ pc' \in {"step", "getModel"} /\ isExclude = -1
    BY DEF ExecuteNode, PageInv
  <2>3. CASE pc' = "step"
    BY <2>2, <2>3 DEF ExecuteNode, Turn
  <2>4. CASE pc' = "getModel"
    <3>1. nodes' = <<>>
      BY <2>1, <2>4 DEF PageInv
    <3>2. ToSet(nodes') = {}
      BY <3>1 DEF ToSet
    <3>3. \A m \in Ids' : tree'[m].isExecuted => m \in shown' \cup ToSet(nodes')
      BY <2>1 DEF PageInv
    <3>4. shown' \subseteq Ids' /\ \A m \in shown' : tree'[m].isExecuted
      BY <1>1 DEF IInv, TypeOK, ReportedOnce
    <3> QED BY <2>4, <3>2, <3>3, <3>4 DEF Turn, Explored
  <2> QED BY <2>2, <2>3, <2>4
<1>8. Search!Explore(n)
  BY <1>3, <1>4, <1>5, <1>6, <1>7
     DEF Search!Explore, Search!Known, ParentOf, Explored, Turn
<1>9. n \in Search!Known
  BY <1>1 DEF Search!Known
<1> QED BY <1>8, <1>9

LEMMA SearchStep ==
  ASSUME "exclude" \notin FirstKinds, IInv, PageInv, RoundInv, [Next]_vars
  PROVE  [Search!Next]_(Search!vars)
<1>1. CASE ExecuteNode
  BY <1>1, SearchExplore DEF Search!Next
<1>2. CASE FirstProceed \/ WakeProceed \/ ModelAnswer
  <2>1. /\ pc \in {"names", "asleep", "getModel"} /\ pc' \in {"round", "step"}
        /\ shown' = shown /\ ~ExecuteNode
    BY <1>2 DEF FirstProceed, WakeProceed, Proceed, ModelAnswer, ExecuteNode
  <2>2. /\ Turn = "user" /\ Turn' = "engine"
        /\ ParentOf' = ParentOf /\ Explored' = Explored
    BY <2>1, SearchUser DEF Turn
  <2>3. Search!Instruct
    BY <2>1, <2>2 DEF Search!Instruct, ParentOf, Explored, Turn
  <2> QED BY <2>3 DEF Search!Next
<1>3. CASE EndRound
  <2>1. /\ pc = "step" /\ pc' = "asleep" /\ isExclude = -1
        /\ shown' = shown \cup ToSet(nodes) /\ UNCHANGED <<tree, numNodes>>
    BY <1>3 DEF EndRound, PageInv
  <2>2. /\ Turn = "engine" /\ Turn' = "user"
        /\ ParentOf' = ParentOf /\ Explored' = Explored
    BY <2>1 DEF Turn, ParentOf, Explored, Ids
  <2>3. shown' = Explored
    BY <2>1, PageLacks
  <2>4. Search!Reply
    BY <2>2, <2>3 DEF Search!Reply, ParentOf, Explored, Turn
  <2> QED BY <2>4 DEF Search!Next
<1>4. CASE StartRound \/ SkipExcluded \/ Revisit \/ ExcludeLine \/ ExcludeNode
           \/ UNCHANGED vars
  <2>1. UNCHANGED <<tree, numNodes, shown>>
    BY <1>4 DEF StartRound, SkipExcluded, Revisit, ExcludeLine, ExcludeNode,
                WakeExclude, vars
  <2>2. Turn' = Turn
    <3>1. CASE StartRound
      <4>1. pc = "round" /\ cmd.prevId \in shown \cup {-1}
        BY <3>1 DEF StartRound, RoundInv
      <4>2. cmd.prevId = -1 \/ tree[cmd.prevId].isExecuted
        BY <4>1 DEF IInv, ReportedOnce
      <4>3. pc' = "step"
        BY <3>1, <4>2 DEF StartRound
      <4> QED BY <4>1, <4>3 DEF Turn
    <3>2. CASE ~StartRound
      BY <1>4, <3>2 DEF SkipExcluded, Revisit, ExcludeLine, ExcludeNode,
                        WakeExclude, vars, Turn
    <3> QED BY <3>1, <3>2
  <2>3. ParentOf' = ParentOf /\ Explored' = Explored
    BY <2>1 DEF ParentOf, Explored, Ids
  <2> QED BY <2>1, <2>2, <2>3 DEF Search!vars, ParentOf, Explored, Turn
<1>5. ~FirstExclude
  BY DEF FirstExclude
<1> QED BY <1>1, <1>2, <1>3, <1>4, <1>5 DEF Next, Engine, User

\* Unless the first instruction is an exclusion, the executor is a guided
\* search: it explores each node once, after its parent, only in its own turn,
\* and gives the turn back together with everything it has explored.
THEOREM ImplementsSearch ==
  ASSUME "exclude" \notin FirstKinds
  PROVE  Spec => GuidesSearch
<1>1. Init => Search!Init
  <2> SUFFICES ASSUME Init PROVE Search!Init
    OBVIOUS
  <2>1. Ids = {0} /\ shown = {} /\ pc = "names"
    BY DEF Init, Ids
  <2>2. ~tree[0].isExecuted /\ tree[0].prevId = -1
    BY DEF Init, SymbolicTreeNode, NoNode
  <2> QED BY <2>1, <2>2 DEF Search!Init
<1>2. Init => RoundInv
  BY DEF Init, RoundInv
<1>3. IInv /\ PageInv /\ [Next]_vars => PageInv'
  BY PageStep
<1>4. RoundInv /\ [Next]_vars => RoundInv'
  BY RoundStep
<1>5. IInv /\ PageInv /\ RoundInv /\ [Next]_vars => [Search!Next]_(Search!vars)
  BY SearchStep
<1> QED BY <1>1, <1>2, <1>3, <1>4, <1>5, PageInit, Invariance, PTL
        DEF Spec, GuidesSearch, Search!Spec
====
