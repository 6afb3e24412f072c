----------------------------- MODULE Frames_proofs -----------------------------
(***************************************************************************)
(* Proof that the frames of the analysed program nest (CallStackKept of    *)
(* module SymbolicExecutor): the node a node returns to is the last call   *)
(* on its path that has not returned.  The stack of calls is a recursive   *)
(* function on the tree; its equation is proved by descent, as for Path.   *)
(* From the frames follows the loop bound (LoopBounded) of every program   *)
(* whose control-flow graph is in order, and from that a bound on the      *)
(* length of every call.                                                   *)
(***************************************************************************)
EXTENDS Frontier_proofs

LEMMA StackFacts ==
  ASSUME NEW S, NEW s \in Seq(S)
  PROVE  /\ s # <<>> => Front(s) \in Seq(S) /\ Last(s) \in S
         /\ \A x \in S : /\ Append(s, x) \in Seq(S) /\ Append(s, x) # <<>>
                         /\ Last(Append(s, x)) = x
                         /\ Front(Append(s, x)) = s
<1>1. s # <<>> => Front(s) \in Seq(S) /\ Last(s) \in S
  BY DEF Front, Last
<1>2. ASSUME NEW x \in S
      PROVE  /\ Append(s, x) \in Seq(S) /\ Append(s, x) # <<>>
             /\ Last(Append(s, x)) = x
             /\ Front(Append(s, x)) = s
  <2>1. /\ Append(s, x) \in Seq(S) /\ Len(Append(s, x)) = Len(s) + 1
        /\ Append(s, x)[Len(s) + 1] = x /\ Append(s, x) # <<>>
    OBVIOUS
  <2>2. Last(Append(s, x)) = x
    BY <2>1 DEF Last
  <2>3. Front(Append(s, x)) = s
    BY <2>1 DEF Front
  <2> QED BY <2>1, <2>2, <2>3
<1> QED BY <1>1, <1>2

-----------------------------------------------------------------------------
(* The equation of CallStack.                                              *)

\* A function that maps each number below k to its stack: p gives the parents,
\* and a tells what leaving the parent does.
StacksTo(f, k, p, a) ==
  f = [n \in 0..(k-1) |->
         IF n = 0 THEN <<>>
         ELSE IF a[n] = "returns" THEN Front(f[p[n]])
         ELSE IF a[n] = "calls" THEN Append(f[p[n]], p[n])
         ELSE f[p[n]]]

LEMMA StacksExist ==
  ASSUME NEW N \in Nat, NEW p, NEW a, \A n \in 1..(N-1) : p[n] \in 0..(n-1)
  PROVE  \E f : StacksTo(f, N, p, a)
<1> DEFINE T == {k \in 0..N : ~ \E f : StacksTo(f, k, p, a)}
<1>1. CASE T = {}
  <2>1. N \in 0..N
    OBVIOUS
  <2> QED BY <1>1, <2>1
<1>2. CASE T # {}
  <2>1. T \subseteq Nat
    OBVIOUS
  <2>2. PICK k \in T : \A y \in T : k <= y
    BY <1>2, <2>1, Least
  <2>3. k # 0
    <3>1. StacksTo([n \in {} |-> {}], 0, p, a)
      BY DEF StacksTo
    <3> QED BY <3>1
  <2>4. k \in 0..N /\ k - 1 \in 0..N /\ ~(k <= k - 1)
    BY <2>3
  <2>5. PICK f : StacksTo(f, k - 1, p, a)
    BY <2>2, <2>4
  <2> DEFINE entry(h, n) == IF n = 0 THEN <<>>
                            ELSE IF a[n] = "returns" THEN Front(h[p[n]])
                            ELSE IF a[n] = "calls" THEN Append(h[p[n]], p[n])
                            ELSE h[p[n]]
             g == [n \in 0..(k-1) |-> IF n = k - 1 THEN entry(f, n) ELSE f[n]]
  <2>6. ASSUME NEW n \in 0..(k-1) PROVE g[n] = entry(g, n)
    <3>1. \A m \in 0..(n-1) : g[m] = f[m]
      BY <2>4
    <3>2. g[n] = entry(f, n)
      <4>1. CASE n = k - 1
        BY <4>1
      <4>2. CASE n # k - 1
        <5>1. n \in 0..(k-1-1)
          BY <2>4, <4>2
        <5> QED BY <2>5, <5>1, <4>2 DEF StacksTo
      <4> QED BY <4>1, <4>2
    <3>3. n # 0 => p[n] \in 0..(n-1)
      BY <2>4
    <3> HIDE DEF g
    <3> QED BY <3>1, <3>2, <3>3
  <2>7. StacksTo(g, k, p, a)
    <3>1. g = [n \in 0..(k-1) |-> g[n]]
      OBVIOUS
    <3> HIDE DEF g
    <3> QED BY <2>6, <3>1 DEF StacksTo
  <2> QED BY <2>2, <2>7
<1> QED BY <1>1, <1>2

StackEquation ==
  /\ CallStack[0] = <<>>
  /\ \A n \in Ids \ {0} :
       CallStack[n] = LET p == tree[n].prevId
                      IN  IF Returns(p) THEN Front(CallStack[p])
                          ELSE IF Calls(p) THEN Append(CallStack[p], p)
                          ELSE CallStack[p]

LEMMA StackEquationNow == TypeOK /\ TreeInv => StackEquation
<1> SUFFICES ASSUME TypeOK, TreeInv PROVE StackEquation
  OBVIOUS
<1> DEFINE p == [n \in Ids |-> tree[n].prevId]
           a == [n \in Ids |-> IF Returns(tree[n].prevId) THEN "returns"
                               ELSE IF Calls(tree[n].prevId) THEN "calls" ELSE "stays"]
           entry(h, n) == IF n = 0 THEN <<>>
                          ELSE IF Returns(tree[n].prevId) THEN Front(h[tree[n].prevId])
                          ELSE IF Calls(tree[n].prevId)
                            THEN Append(h[tree[n].prevId], tree[n].prevId)
                          ELSE h[tree[n].prevId]
<1>1. /\ numNodes \in Nat \ {0} /\ Ids = 0..(numNodes-1) /\ 0 \in Ids
      /\ \A n \in 1..(numNodes-1) : p[n] \in 0..(n-1)
  BY DEF TypeOK, TreeInv, Ids
<1>2. PICK f : StacksTo(f, numNodes, p, a)
  BY <1>1, StacksExist
<1>3. f = [n \in Ids |-> entry(f, n)]
  <2>1. f = [n \in Ids |->
               IF n = 0 THEN <<>>
               ELSE IF a[n] = "returns" THEN Front(f[p[n]])
               ELSE IF a[n] = "calls" THEN Append(f[p[n]], p[n])
               ELSE f[p[n]]]
    BY <1>1, <1>2 DEF StacksTo
  <2>2. \A n \in Ids : (a[n] = "returns" <=> Returns(tree[n].prevId))
                       /\ (~Returns(tree[n].prevId) =>
                             (a[n] = "calls" <=> Calls(tree[n].prevId)))
                       /\ p[n] = tree[n].prevId
    OBVIOUS
  <2> HIDE DEF a, p
  <2> QED BY <2>1, <2>2
<1>4. CallStack = CHOOSE g : g = [n \in Ids |-> entry(g, n)]
  BY DEF CallStack
<1>5. CallStack = [n \in Ids |-> entry(CallStack, n)]
  <2> HIDE DEF entry
  <2> QED BY <1>3, <1>4
<1> QED BY <1>1, <1>5 DEF StackEquation

LEMMA StackEquationNext == TypeOK' /\ TreeInv' => StackEquation'
BY StackEquationNow, PTL

-----------------------------------------------------------------------------
(* The frame of a child.                                                   *)

\* x resumes the frame of the caller of n.
Resumes(n, x) ==
  LET r == tree[n].returnNode
  IN  /\ r # NoNode /\ x.returnNode = tree[r].returnNode
      /\ x.block = tree[r].block /\ x.ip = tree[r].ip

\* x is entered by a branch of n.
ByCond(n, succ, x) ==
  /\ x.block \in {succ[1], succ[2]}
  /\ hasRunMaxExecs(n) => x.block = succ[2]

ByJump(n, b, x) ==
  /\ x.block = b /\ x.ip = 1
  /\ Backwards(tree[n].block, b) =>
       x.loopStartPoint = b /\ x.numExecutions = tree[n].numExecutions + 1

\* x is a child that the split point s of n makes.
Framed(n, s, x) ==
  \/ s.op = "ret" /\ Resumes(n, x)
  \/ s.op \in {"call", "extern"} /\ x.returnNode = n
  \/ /\ s.op \in {"cond", "jump"} /\ x.returnNode = tree[n].returnNode
     /\ s.op = "cond" => ByCond(n, s.succ, x)
     /\ s.op = "jump" => ByJump(n, s.succ[1], x)

LEMMA BranchFrame ==
  ASSUME NEW n \in Ids, NEW succ, NEW t, NEW k \in 1..Len(conditionalBranch(n, succ, t).kids)
  PROVE  /\ conditionalBranch(n, succ, t).kids[k].returnNode = tree[n].returnNode
         /\ ByCond(n, succ, conditionalBranch(n, succ, t).kids[k])
<1>1. \A b, c, start, num, v, w :
        /\ [Successor(n, b, c, start, num) EXCEPT !.never = v].returnNode = tree[n].returnNode
        /\ [Successor(n, b, c, start, num)
              EXCEPT !.isSatisfiable = w, !.never = v].returnNode = tree[n].returnNode
        /\ [Successor(n, b, c, start, num) EXCEPT !.never = v].block = b
        /\ [Successor(n, b, c, start, num)
              EXCEPT !.isSatisfiable = w, !.never = v].block = b
  BY DEF Successor, SymbolicTreeNode
<1> DEFINE toAddFirst  == (t.const => t.holds) /\ Z3solver(t.cons[1])
           toAddSecond == /\ hasRunMaxExecs(n) \/ ~(t.const /\ t.holds)
                          /\ Z3solver(t.cons[2])
           x == [Inherit(n, succ[1], t.cons[1])
                   EXCEPT !.never = (t.const /\ ~t.holds)]
           y == [Inherit(n, succ[2], t.cons[2])
                   EXCEPT !.isSatisfiable = toAddSecond,
                          !.never = (t.const /\ t.holds /\ ~hasRunMaxExecs(n))]
           after == [tree[n] EXCEPT !.isSatisfiable = @ /\ toAddFirst]
<1>2. /\ conditionalBranch(n, succ, t) = IF hasRunMaxExecs(n) THEN Outcome(tree[n], <<y>>)
                                                              ELSE Outcome(after, <<x, y>>)
      /\ x.returnNode = tree[n].returnNode /\ y.returnNode = tree[n].returnNode
      /\ x.block = succ[1] /\ y.block = succ[2]
  <2>1. conditionalBranch(n, succ, t) = IF hasRunMaxExecs(n) THEN Outcome(tree[n], <<y>>)
                                                             ELSE Outcome(after, <<x, y>>)
    BY DEF conditionalBranch
  <2>2. /\ x.returnNode = tree[n].returnNode /\ y.returnNode = tree[n].returnNode
        /\ x.block = succ[1] /\ y.block = succ[2]
    <3> HIDE DEF toAddSecond
    <3> QED BY <1>1 DEF Inherit
  <2> QED BY <2>1, <2>2
<1> HIDE DEF x, y, after, toAddFirst, toAddSecond
<1>3. CASE hasRunMaxExecs(n)
  <2>1. conditionalBranch(n, succ, t).kids = <<y>>
    BY <1>2, <1>3 DEF Outcome
  <2> QED BY <1>2, <2>1 DEF ByCond
<1>4. CASE ~hasRunMaxExecs(n)
  <2>1. conditionalBranch(n, succ, t).kids = <<x, y>>
    BY <1>2, <1>4 DEF Outcome
  <2>2. k = 1 \/ k = 2
    BY <2>1
  <2> QED BY <1>2, <1>4, <2>1, <2>2 DEF ByCond
<1> QED BY <1>3, <1>4

LEMMA JumpFrame ==
  ASSUME NEW n \in Ids, NEW b, NEW k \in 1..Len(unconditionalBranch(n, b).kids)
  PROVE  /\ unconditionalBranch(n, b).kids[k].returnNode = tree[n].returnNode
         /\ ByJump(n, b, unconditionalBranch(n, b).kids[k])
<1>1. \A c, start, num : LET x == Successor(n, b, c, start, num)
                         IN  /\ x.returnNode = tree[n].returnNode
                             /\ x.block = b /\ x.ip = 1
                             /\ x.loopStartPoint = start /\ x.numExecutions = num
  BY DEF Successor, SymbolicTreeNode
<1>2. PICK x : /\ unconditionalBranch(n, b).kids = <<x>>
               /\ x.returnNode = tree[n].returnNode /\ ByJump(n, b, x)
  <2>1. CASE Backwards(tree[n].block, b)
    BY <1>1, <2>1 DEF unconditionalBranch, Outcome, Backwards, ByJump
  <2>2. CASE ~Backwards(tree[n].block, b)
    BY <1>1, <2>2 DEF unconditionalBranch, Inherit, Outcome, Backwards, ByJump
  <2> QED BY <2>1, <2>2
<1> QED BY <1>2

LEMMA CallFrame ==
  ASSUME NEW n \in Ids
  PROVE  /\ \A b : \A k \in 1..Len(internalCall(n, b).kids) :
                internalCall(n, b).kids[k].returnNode = n
         /\ \A k \in 1..Len(externalCall(n).kids) : externalCall(n).kids[k].returnNode = n
<1>1. \A b, ip, c : SymbolicTreeNode(b, n, ip, n, c).returnNode = n
  BY DEF SymbolicTreeNode
<1>2. \A b : internalCall(n, b).kids = <<SymbolicTreeNode(b, n, 1, n, tree[n].cons)>>
  BY DEF internalCall, Outcome
<1>3. externalCall(n).kids = <<SymbolicTreeNode(NULL, n, 1, n, tree[n].cons)>>
  BY DEF externalCall, Outcome
<1> QED BY <1>1, <1>2, <1>3

LEMMA ReturnFrame ==
  ASSUME NEW n \in Ids, tree[n].returnNode # NoNode
  PROVE  Resumes(n, returnTo(n))
BY DEF Resumes, returnTo, SymbolicTreeNode

\* Every child of an executed node is framed by the split point it passed.
LEMMA KidFrame ==
  ASSUME TypeOK, TreeInv, NEW n \in Ids, NEW o \in executeBasicBlock(n),
         NEW k \in 1..Len(o.kids)
  PROVE  IF tree[n].block = NULL
           THEN Resumes(n, o.kids[k])
           ELSE /\ tree[n].ip \in 1..Len(Code[tree[n].block])
                /\ o.self.ip = tree[n].ip + 1
                /\ Framed(n, Code[tree[n].block][tree[n].ip], o.kids[k])
<1>1. CASE tree[n].block = NULL
  <2>1. o.kids = [j \in 1..tree[n].modelVals |-> returnTo(n)]
    BY <1>1 DEF executeBasicBlock, executeModel, Outcome
  <2>2. tree[n].modelVals \in Nat
    BY SameNode DEF Node
  <2>3. o.kids[k] = returnTo(n)
    BY <2>1, <2>2
  <2>4. tree[n].returnNode # NoNode
    BY <1>1 DEF TreeInv
  <2> QED BY <1>1, <2>3, <2>4, ReturnFrame
<1>2. CASE tree[n].block # NULL /\ tree[n].ip > Len(Code[tree[n].block])
  <2>1. o.kids = <<>>
    BY <1>2 DEF executeBasicBlock, Outcome
  <2> QED BY <2>1
<1>3. CASE tree[n].block # NULL /\ ~(tree[n].ip > Len(Code[tree[n].block]))
  <2>1. PICK b \in Blocks : b = tree[n].block
    BY <1>3, SameNode DEF Node
  <2>2. tree[n].ip \in Nat \ {0} /\ tree[n].ip \in 1..Len(Code[b])
    <3>1. tree[n].ip \in Nat \ {0}
      BY SameNode DEF Node
    <3> QED BY <1>3, <2>1, <3>1, CodeType
  <2>3. PICK s \in SplitPoint : s = Code[b][tree[n].ip]
    BY <2>2, CodeType
  <2>4. PICK g \in getNextBlocks(n, s) : o = [g EXCEPT !.self.ip = @ + 1]
    BY <1>3, <2>1, <2>3 DEF executeBasicBlock
  <2>5. PICK self, kids : g = Outcome(self, kids) /\ self.ip = tree[n].ip /\ self \in Node
    <3>1. tree[n] \in Node /\ tree[n].isSatisfiable \in BOOLEAN
      BY SameNode DEF Node
    <3>2. /\ \A v \in BOOLEAN : [tree[n] EXCEPT !.isSatisfiable = v].ip = tree[n].ip
                                /\ [tree[n] EXCEPT !.isSatisfiable = v] \in Node
          /\ [tree[n] EXCEPT !.isModel = TRUE].ip = tree[n].ip
          /\ [tree[n] EXCEPT !.isModel = TRUE] \in Node
      BY <3>1, ZenonT(40) DEF Node
    <3>3. CASE s.op = "cond"
      <4>1. PICK t \in Truth(n) : g = conditionalBranch(n, s.succ, t)
        BY <2>4, <3>3 DEF getNextBlocks
      <4>2. \E v \in BOOLEAN : \E y : \/ g = Outcome(tree[n], y)
                                      \/ g = Outcome([tree[n] EXCEPT !.isSatisfiable = v], y)
        BY <3>1, <4>1 DEF conditionalBranch
      <4> QED BY <3>1, <3>2, <4>2
    <3>4. CASE s.op = "jump"
      <4>1. g = unconditionalBranch(n, s.succ[1])
        BY <2>4, <3>4 DEF getNextBlocks
      <4> QED BY <3>1, <4>1 DEF unconditionalBranch
    <3>5. CASE s.op = "call"
      <4>1. g = internalCall(n, s.succ[1])
        BY <2>4, <3>5 DEF getNextBlocks
      <4> QED BY <3>1, <4>1 DEF internalCall
    <3>6. CASE s.op = "extern"
      <4>1. g = externalCall(n)
        BY <2>4, <3>6 DEF getNextBlocks
      <4> QED BY <3>2, <4>1 DEF externalCall
    <3>7. CASE s.op = "ret"
      <4>1. g = returnInst(n)
        BY <2>4, <3>7 DEF getNextBlocks
      <4> QED BY <3>1, <4>1 DEF returnInst
    <3> QED BY <3>3, <3>4, <3>5, <3>6, <3>7 DEF SplitPoint, Arity
  <2>6. o.self.ip = tree[n].ip + 1 /\ o.kids = kids /\ g.kids = kids
    <3>1. g = [self |-> self, kids |-> kids]
      BY <2>5 DEF Outcome
    <3>2. o = [self |-> [self EXCEPT !.ip = @ + 1], kids |-> kids]
      BY <2>4, <3>1
    <3> QED BY <2>5, <3>1, <3>2 DEF Node
  <2>7. /\ Code[tree[n].block][tree[n].ip] = s
        /\ tree[n].ip \in 1..Len(Code[tree[n].block])
    BY <2>1, <2>2, <2>3
  <2>8. k \in 1..Len(g.kids)
    BY <2>6
  <2>9. Framed(n, s, g.kids[k])
    <3>1. CASE s.op = "cond"
      <4>1. PICK t \in Truth(n) : g = conditionalBranch(n, s.succ, t)
        BY <2>4, <3>1 DEF getNextBlocks
      <4> QED BY <2>8, <3>1, <4>1, BranchFrame DEF Framed
    <3>2. CASE s.op = "jump"
      <4>1. g = unconditionalBranch(n, s.succ[1])
        BY <2>4, <3>2 DEF getNextBlocks
      <4> QED BY <2>8, <3>2, <4>1, JumpFrame DEF Framed
    <3>3. CASE s.op = "call"
      <4>1. g = internalCall(n, s.succ[1])
        BY <2>4, <3>3 DEF getNextBlocks
      <4> QED BY <2>8, <3>3, <4>1, CallFrame DEF Framed
    <3>4. CASE s.op = "extern"
      <4>1. g = externalCall(n)
        BY <2>4, <3>4 DEF getNextBlocks
      <4> QED BY <2>8, <3>4, <4>1, CallFrame DEF Framed
    <3>5. CASE s.op = "ret"
      <4>1. g = returnInst(n)
        BY <2>4, <3>5 DEF getNextBlocks
      <4>2. g.kids = IF tree[n].returnNode = NoNode THEN <<>> ELSE <<returnTo(n)>>
        BY <4>1 DEF returnInst, Outcome
      <4>3. tree[n].returnNode # NoNode /\ g.kids[k] = returnTo(n)
        BY <2>8, <4>2
      <4> QED BY <3>5, <4>3, ReturnFrame DEF Framed
    <3> QED BY <3>1, <3>2, <3>3, <3>4, <3>5 DEF SplitPoint, Arity
  <2> QED BY <1>3, <2>6, <2>7, <2>9
<1> QED BY <1>1, <1>2, <1>3

-----------------------------------------------------------------------------
(* The stack of calls.                                                     *)

\* A node returns to the last open call on its path; the open calls at that
\* call are those before it.
FrameOf(n) ==
  /\ CallStack[n] \in Seq(Ids)
  /\ tree[n].returnNode = IF CallStack[n] = <<>> THEN NoNode ELSE Last(CallStack[n])
  /\ CallStack[n] # <<>> => CallStack[Last(CallStack[n])] = Front(CallStack[n])

FrameInv == \A n \in Ids : FrameOf(n)

\* What leaving an executed node does to the frames does not change any more.
LEMMA LeavingKept ==
  ASSUME IInv, [Next]_vars, NEW n \in Ids, tree[n].isExecuted
  PROVE  Returns(n)' = Returns(n) /\ Calls(n)' = Calls(n)
<1>1. tree'[n].ip = tree[n].ip /\ tree'[n].block = tree[n].block
  BY FinalStep, Kept
<1> QED BY <1>1 DEF Returns, Calls, LastOp

LEMMA StackKept ==
  ASSUME IInv, [Next]_vars, NEW n \in Ids
  PROVE  CallStack'[n] = CallStack[n]
<1>0. /\ numNodes \in Nat /\ Ids = 0..(numNodes-1)
      /\ TypeOK /\ TreeInv /\ TypeOK' /\ TreeInv'
      /\ Ids \subseteq Ids' /\ \A m \in Ids : tree'[m].prevId = tree[m].prevId
  BY Inductive, Kept DEF IInv, TypeOK, Ids
<1>1. StackEquation /\ StackEquation'
  BY <1>0, StackEquationNow, StackEquationNext
<1> DEFINE T == {m \in Ids : CallStack'[m] # CallStack[m]}
<1>2. T = {}
  <2> SUFFICES ASSUME T # {} PROVE FALSE
    OBVIOUS
  <2>1. PICK k \in T : \A y \in T : k <= y
    <3>1. T \subseteq Nat
      BY <1>0
    <3> QED BY <3>1, Least
  <2>2. k # 0
    BY <1>1, <2>1 DEF StackEquation
  <2>3. PICK p \in Ids : p = tree[k].prevId
    BY <2>2, <2>1, ParentNode
  <2>4. p \in 0..(k-1) /\ tree[p].isExecuted
    BY <1>0, <2>1, <2>2, <2>3 DEF TreeInv
  <2>5. CallStack'[p] = CallStack[p]
    <3>1. ~(k <= p)
      BY <1>0, <2>4
    <3> QED BY <2>1, <3>1
  <2>6. Returns(p)' = Returns(p) /\ Calls(p)' = Calls(p)
    BY <2>4, LeavingKept
  <2>7. CallStack[k] = IF Returns(p) THEN Front(CallStack[p])
                       ELSE IF Calls(p) THEN Append(CallStack[p], p)
                       ELSE CallStack[p]
    BY <1>1, <2>1, <2>2, <2>3 DEF StackEquation
  <2>8. CallStack'[k] = IF Returns(p)' THEN Front(CallStack'[p])
                        ELSE IF Calls(p)' THEN Append(CallStack'[p], p)
                        ELSE CallStack'[p]
    <3>1. k \in Ids' \ {0} /\ tree'[k].prevId = p
      BY <1>0, <2>1, <2>2, <2>3
    <3> QED BY <1>1, <3>1 DEF StackEquation
  <2> QED BY <2>1, <2>5, <2>6, <2>7, <2>8
<1> QED BY <1>2

LEMMA FrameInit == Init => FrameInv
<1> SUFFICES ASSUME Init PROVE FrameInv
  OBVIOUS
<1>1. IInv
  BY InitInv
<1>2. CallStack[0] = <<>> /\ Ids = {0} /\ tree[0].returnNode = NoNode
  BY <1>1, StackEquationNow DEF IInv, StackEquation, Init, Ids, SymbolicTreeNode
<1>3. CallStack[0] \in Seq(Ids)
  <2>1. <<>> \in Seq(Ids)
    OBVIOUS
  <2> QED BY <1>2, <2>1
<1> QED BY <1>2, <1>3 DEF FrameInv, FrameOf

\* The frames of the nodes that execution adds.
LEMMA NewFrame ==
  ASSUME IInv, FrameInv, [Next]_vars, ExecuteNode, NEW m \in Ids' \ Ids,
         NEW n \in Ids, n = Head(deque)
  PROVE  /\ tree'[m].prevId = n
         /\ tree'[m].returnNode # NoNode => tree'[m].returnNode \in Ids
         /\ \/ Returns(n)' /\ Resumes(n, tree'[m])
            \/ ~Returns(n)' /\ Calls(n)' /\ tree'[m].returnNode = n
            \/ ~Returns(n)' /\ ~Calls(n)' /\ tree'[m].returnNode = tree[n].returnNode
         /\ tree[n].block # NULL =>
              /\ tree[n].ip \in 1..Len(Code[tree[n].block]) /\ tree'[n].ip = tree[n].ip + 1
              /\ Framed(n, Code[tree[n].block][tree[n].ip], tree'[m])
<1>1. TypeOK /\ TreeInv
  BY DEF IInv
<1>2. n = Head(deque)
  OBVIOUS
<1>3. PICK o \in IF tree[n].isSatisfiable THEN executeBasicBlock(n)
                                          ELSE {Outcome(tree[n], <<>>)} :
        /\ tree' = Grow(n, Link(o.self, o.kids), o.kids)
        /\ numNodes' = numNodes + Len(o.kids)
  BY <1>2 DEF ExecuteNode
<1>4. GoodOutcome(n, Outcome(o.self, o.kids))
  <2>1. GoodOutcome(n, o)
    BY <1>1, <1>2, <1>3, ExecutionOutcome, NoKid, SameNode
  <2> QED BY <2>1 DEF GoodOutcome
<1>5. /\ m - numNodes + 1 \in 1..Len(o.kids) /\ tree'[m] = o.kids[m - numNodes + 1]
      /\ Kid(n, tree'[m]) /\ tree'[n] = Link(o.self, o.kids)
  BY <1>1, <1>3, <1>4, Growth
<1>6. o \in executeBasicBlock(n)
  <2>1. CASE ~tree[n].isSatisfiable
    <3>1. o.kids = <<>>
      BY <1>3, <2>1 DEF Outcome
    <3> QED BY <1>5, <3>1
  <2> QED BY <1>3, <2>1
<1>7. IF tree[n].block = NULL
        THEN Resumes(n, tree'[m])
        ELSE /\ tree[n].ip \in 1..Len(Code[tree[n].block]) /\ o.self.ip = tree[n].ip + 1
             /\ Framed(n, Code[tree[n].block][tree[n].ip], tree'[m])
  BY <1>1, <1>5, <1>6, KidFrame
<1>8. tree'[n].block = tree[n].block /\ tree'[n].ip = o.self.ip
  <2>1. o.self \in Node
    BY <1>4 DEF GoodOutcome, Outcome, Same
  <2>2. Link(o.self, o.kids).ip = o.self.ip
    BY <2>1 DEF Link, Node
  <2> QED BY <1>2, <1>5, <2>2, Branching
<1>9. \/ Returns(n)' /\ Resumes(n, tree'[m])
      \/ ~Returns(n)' /\ Calls(n)' /\ tree'[m].returnNode = n
      \/ ~Returns(n)' /\ ~Calls(n)' /\ tree'[m].returnNode = tree[n].returnNode
  <2>1. tree[n].block # NULL =>
          LastOp(n)' = Code[tree[n].block][tree[n].ip].op
    <3>1. tree[n].ip \in Int
      BY <1>1, SameNode DEF Node
    <3>2. tree[n].block # NULL => tree'[n].ip - 1 = tree[n].ip
      BY <1>7, <1>8, <3>1
    <3> QED BY <1>8, <3>2 DEF LastOp
  <2> QED BY <1>7, <1>8, <2>1 DEF Returns, Calls, Framed
<1> QED BY <1>2, <1>5, <1>7, <1>8, <1>9 DEF Kid, Ref

LEMMA ExecuteReturn ==
  ASSUME IInv, ExecuteNode
  PROVE  tree'[Head(deque)].returnNode = tree[Head(deque)].returnNode
<1>1. TypeOK /\ TreeInv
  BY DEF IInv
<1>2. PICK n \in Ids : n = Head(deque)
  BY ExecuteStep
<1>3. PICK o \in IF tree[n].isSatisfiable THEN executeBasicBlock(n)
                                          ELSE {Outcome(tree[n], <<>>)} :
        /\ tree' = Grow(n, Link(o.self, o.kids), o.kids)
        /\ numNodes' = numNodes + Len(o.kids)
  BY <1>2 DEF ExecuteNode
<1>4. GoodOutcome(n, Outcome(o.self, o.kids))
  <2>1. GoodOutcome(n, o)
    BY <1>1, <1>2, <1>3, ExecutionOutcome, NoKid, SameNode
  <2> QED BY <2>1 DEF GoodOutcome
<1>5. tree'[n] = Link(o.self, o.kids)
  BY <1>1, <1>3, <1>4, Growth
<1> QED BY <1>1, <1>2, <1>4, <1>5, LinkNode

LEMMA QuietReturn ==
  ASSUME IInv, [Next]_vars, ~ExecuteNode, NEW n \in Ids
  PROVE  tree'[n].returnNode = tree[n].returnNode
<1>1. CASE ModelAnswer
  <2>1. tree[n] \in Node
    BY SameNode DEF IInv
  <2>2. \E p \in 0..MaxPairs : tree'[n] = [tree[n] EXCEPT !.modelVals = p] \/ tree'[n] = tree[n]
    BY <1>1, ModelAnswerStep
  <2> QED BY <2>1, <2>2 DEF Node
<1>2. ModelAnswer \/ UNCHANGED tree
  BY DEF Next, Engine, User, StartRound, SkipExcluded, Revisit, EndRound, FirstProceed,
         FirstExclude, WakeProceed, ExcludeLine, ExcludeNode, WakeExclude, vars
<1> QED BY <1>1, <1>2

LEMMA ReturnKept ==
  ASSUME IInv, [Next]_vars, NEW m \in Ids
  PROVE  tree'[m].returnNode = tree[m].returnNode
<1>1. CASE ExecuteNode
  <2>1. PICK n \in Ids : n = Head(deque)
    BY <1>1, ExecuteStep
  <2>2. \A k \in Ids \ {n} : tree'[k] = tree[k]
    BY <1>1, <2>1, ExecuteStep
  <2>3. tree'[n].returnNode = tree[n].returnNode
    BY <1>1, <2>1, ExecuteReturn
  <2> QED BY <2>2, <2>3
<1>2. CASE ~ExecuteNode
  BY <1>2, QuietReturn
<1> QED BY <1>1, <1>2

LEMMA FrameStep == ASSUME IInv, FrameInv, [Next]_vars PROVE FrameInv'
<1>0. /\ TypeOK /\ TreeInv /\ TypeOK' /\ TreeInv'
      /\ Ids \subseteq Ids' /\ \A m \in Ids : CallStack'[m] = CallStack[m]
  BY Inductive, Kept, StackKept DEF IInv
<1>1. \A m \in Ids : tree'[m].returnNode = tree[m].returnNode
  BY ReturnKept
<1>2. ASSUME NEW m \in Ids PROVE FrameOf(m)'
  <2>1. FrameOf(m) /\ CallStack'[m] = CallStack[m] /\ tree'[m].returnNode = tree[m].returnNode
    BY <1>0, <1>1 DEF FrameInv
  <2>2. CallStack[m] # <<>> => Last(CallStack[m]) \in Ids
    BY <2>1, StackFacts DEF FrameOf
  <2>3. CallStack[m] # <<>> => CallStack'[Last(CallStack[m])] = CallStack[Last(CallStack[m])]
    BY <1>0, <2>2
  <2>4. CallStack[m] \in Seq(Ids')
    BY <1>0, <2>1, SeqMonotone DEF FrameOf
  <2> QED BY <2>1, <2>3, <2>4 DEF FrameOf
<1>3. ASSUME NEW m \in Ids' \ Ids PROVE FrameOf(m)'
  <2>1. CASE ~ExecuteNode
    BY <1>3, <2>1, TreeStep
  <2>2. CASE ExecuteNode
    <3>1. PICK n \in Ids : n = Head(deque)
      BY <2>2, ExecuteStep
    <3>2. /\ tree'[m].prevId = n
          /\ tree'[m].returnNode # NoNode => tree'[m].returnNode \in Ids
          /\ \/ Returns(n)' /\ Resumes(n, tree'[m])
             \/ ~Returns(n)' /\ Calls(n)' /\ tree'[m].returnNode = n
             \/ ~Returns(n)' /\ ~Calls(n)' /\ tree'[m].returnNode = tree[n].returnNode
      BY <2>2, <3>1, NewFrame
    <3>3. /\ FrameOf(n) /\ CallStack'[n] = CallStack[n]
          /\ CallStack[n] # <<>> => Last(CallStack[n]) \in Ids
      BY <1>0, StackFacts DEF FrameInv, FrameOf
    <3>4. CallStack'[m] = IF Returns(n)' THEN Front(CallStack[n])
                          ELSE IF Calls(n)' THEN Append(CallStack[n], n)
                          ELSE CallStack[n]
      <4>1. StackEquation' /\ m \in Ids' \ {0}
        <5>1. StackEquation'
          BY <1>0, StackEquationNext
        <5>2. 0 \in Ids
          BY <1>0 DEF Ids, TypeOK
        <5> QED BY <5>1, <5>2
      <4> QED BY <3>2, <3>3, <4>1 DEF StackEquation
    <3>5. CASE Returns(n)' /\ Resumes(n, tree'[m])
      <4>1. PICK r \in Ids : r = tree[n].returnNode /\ CallStack[n] # <<>> /\ r = Last(CallStack[n])
        BY <3>3, <3>5 DEF Resumes, FrameOf
      <4>2. FrameOf(r) /\ CallStack'[m] = CallStack[r] /\ tree'[m].returnNode = tree[r].returnNode
        BY <3>3, <3>4, <3>5, <4>1 DEF FrameInv, FrameOf, Resumes
      <4>3. CallStack[r] \in Seq(Ids')
        BY <1>0, <4>2, SeqMonotone DEF FrameOf
      <4>4. CallStack[r] # <<>> => CallStack'[Last(CallStack[r])] = CallStack[Last(CallStack[r])]
        BY <1>0, <4>2, StackFacts DEF FrameOf
      <4> QED BY <4>2, <4>3, <4>4 DEF FrameOf
    <3>6. CASE ~Returns(n)' /\ Calls(n)' /\ tree'[m].returnNode = n
      <4>1. /\ CallStack'[m] = Append(CallStack[n], n) /\ CallStack[n] \in Seq(Ids)
        BY <3>3, <3>4, <3>6 DEF FrameOf
      <4>2. /\ Append(CallStack[n], n) \in Seq(Ids) /\ Append(CallStack[n], n) # <<>>
            /\ Last(Append(CallStack[n], n)) = n /\ Front(Append(CallStack[n], n)) = CallStack[n]
        BY <4>1, StackFacts
      <4>3. Append(CallStack[n], n) \in Seq(Ids')
        BY <1>0, <4>2, SeqMonotone
      <4> QED BY <3>3, <3>6, <4>1, <4>2, <4>3 DEF FrameOf
    <3>7. CASE ~Returns(n)' /\ ~Calls(n)' /\ tree'[m].returnNode = tree[n].returnNode
      <4>1. CallStack'[m] = CallStack[n]
        BY <3>4, <3>7
      <4>2. CallStack[n] \in Seq(Ids')
        BY <1>0, <3>3, SeqMonotone DEF FrameOf
      <4>3. CallStack[n] # <<>> => CallStack'[Last(CallStack[n])] = CallStack[Last(CallStack[n])]
        BY <1>0, <3>3
      <4> QED BY <3>3, <3>7, <4>1, <4>2, <4>3 DEF FrameOf
    <3> QED BY <3>2, <3>5, <3>6, <3>7
  <2> QED BY <2>1, <2>2
<1> QED BY <1>2, <1>3 DEF FrameInv

LEMMA FrameInvariance == Spec => []FrameInv
<1>1. IInv /\ FrameInv /\ [Next]_vars => FrameInv'
  BY FrameStep
<1> QED BY <1>1, FrameInit, Invariance, PTL DEF Spec

\* The frames of the analysed program nest, whatever functions call each other
\* and whatever models the user gives for the external calls.
THEOREM FramesNest == Spec => []CallStackKept
<1>1. FrameInv => CallStackKept
  BY DEF FrameInv, FrameOf, CallStackKept
<1> QED BY <1>1, FrameInvariance, PTL

-----------------------------------------------------------------------------
(* The loop bound.  The ids on a path grow, so do the ranks of the blocks   *)
(* that one call of a function enters, but for the jumps back: such a jump  *)
(* finds its loop at the limit, and can only leave it, to a block behind    *)
(* the one that jumped.                                                     *)

\* n was entered by a jump to an earlier line.
Jumped(n) ==
  /\ n # 0 /\ ByBranch(n)
  /\ LastOp(tree[n].prevId) = "jump"
  /\ Backwards(tree[tree[n].prevId].block, tree[n].block)

\* The place of n in the order: a jump back stays where it was made.
Place(rank, n) == rank[IF Jumped(n) THEN tree[tree[n].prevId].block ELSE tree[n].block]

Exit(head) == Code[head][1].succ[2]

SameCall(n) ==
  {m \in Path[n] : tree[m].block # NULL /\ tree[m].returnNode = tree[n].returnNode}

\* What m, above n in the same call, leaves to n.
Behind(rank, m, n) ==
  IF Jumped(m) THEN rank[Exit(tree[m].block)] <= Place(rank, n)
  ELSE /\ rank[tree[m].block] <= Place(rank, n)
       /\ ByBranch(n) /\ ~Jumped(n) => rank[tree[m].block] < Place(rank, n)

\* A jump back leads to a loop at its limit.
LoopClosed(rank, n) ==
  Jumped(n) =>
    /\ tree[n].block \in Blocks
    /\ ClosesLoop(rank, tree[tree[n].prevId].block, tree[n].block)
    /\ ~tree[n].isExecuted => tree[n].ip = 1 /\ hasRunMaxExecs(n)

\* The call of n is above it, every call below that is made from within.
CallAbove(n) ==
  /\ tree[n].returnNode \in (Path[n] \ {n}) \cup {NoNode}
  /\ \A m \in Path[n] :
       /\ m = tree[n].returnNode => ~Jumped(m)
       /\ m > tree[n].returnNode => tree[m].returnNode >= tree[n].returnNode

CallOrdered(rank, n) ==
  tree[n].block # NULL => \A m \in SameCall(n) \ {n} : Behind(rank, m, n)

LoopInv(rank) ==
  \A n \in Ids : LoopClosed(rank, n) /\ CallAbove(n) /\ CallOrdered(rank, n)

\* Two nodes on a path are on one path.
LEMMA PathBetween ==
  ASSUME TypeOK, TreeInv, NEW n \in Ids, NEW m \in Path[n], NEW r \in Path[n], m <= r
  PROVE  m \in Path[r]
<1>0. numNodes \in Nat /\ Ids = 0..(numNodes-1)
  BY DEF TypeOK, Ids
<1> DEFINE T == {k \in Ids : m \in Path[k] /\ r \in Path[k] /\ m \notin Path[r]}
<1>1. T = {}
  <2> SUFFICES ASSUME T # {} PROVE FALSE
    OBVIOUS
  <2>1. PICK k \in T : \A y \in T : k <= y
    <3>1. T \subseteq Nat
      BY <1>0
    <3> QED BY <3>1, Least
  <2>2. k \in Ids /\ m \in Path[k] /\ r \in Path[k] /\ m \notin Path[r]
    BY <2>1
  <2>3. k # r /\ m \in 0..k /\ r \in 0..k
    BY <2>2, PathBasic
  <2>4. k # 0
    BY <2>3
  <2>5. PICK p \in Ids : p \in 0..(k-1) /\ Path[k] = {k} \cup Path[p]
    BY <2>2, <2>4, PathDef
  <2>6. k # m
    BY <2>3
  <2>7. p \in T
    BY <2>2, <2>3, <2>5, <2>6
  <2>8. ~(k <= p)
    BY <1>0, <2>2, <2>5
  <2> QED BY <2>1, <2>7, <2>8
<1> QED BY <1>1

LEMMA JumpedKept ==
  ASSUME IInv, [Next]_vars, NEW n \in Ids
  PROVE  /\ Jumped(n)' <=> Jumped(n)
         /\ ByBranch(n)' <=> ByBranch(n)
         /\ n # 0 => tree[n].prevId \in Ids
                     /\ tree'[tree'[n].prevId].block = tree[tree[n].prevId].block
         /\ tree'[n].block = tree[n].block
<1>1. CASE n = 0
  BY <1>1, Kept DEF Jumped, ByBranch
<1>2. CASE n # 0
  <2>1. PICK p \in Ids : p = tree[n].prevId /\ tree[p].isExecuted
    BY <1>2, ParentNode
  <2>2. /\ tree'[n].prevId = p /\ tree'[n].block = tree[n].block
        /\ tree'[p].block = tree[p].block
    BY <2>1, Kept
  <2>3. tree'[n].returnNode = tree[n].returnNode /\ tree'[p].returnNode = tree[p].returnNode
    BY ReturnKept
  <2>4. tree'[p].ip = tree[p].ip
    BY <2>1, FinalStep
  <2>5. LastOp(p)' = LastOp(p)
    BY <2>2, <2>4 DEF LastOp
  <2>6. ByBranch(n)' <=> ByBranch(n)
    BY <2>1, <2>2, <2>3 DEF ByBranch
  <2>7. /\ Backwards(tree[p].block, tree[n].block)' <=> Backwards(tree[p].block, tree[n].block)
    BY <2>2 DEF Backwards
  <2>8. Jumped(n)' <=> Jumped(n)
    BY <2>1, <2>2, <2>5, <2>6, <2>7 DEF Jumped
  <2> QED BY <2>1, <2>2, <2>6, <2>8
<1> QED BY <1>1, <1>2

\* Nodes still to be executed keep their place and their count.
LEMMA WaitingKept ==
  ASSUME IInv, [Next]_vars, NEW n \in Ids, ~tree'[n].isExecuted
  PROVE  /\ ~tree[n].isExecuted
         /\ tree'[n].ip = tree[n].ip
         /\ hasRunMaxExecs(n)' <=> hasRunMaxExecs(n)
<1>1. ~tree[n].isExecuted
  BY FinalStep
<1>2. /\ tree'[n].ip = tree[n].ip /\ tree'[n].block = tree[n].block
      /\ tree'[n].loopStartPoint = tree[n].loopStartPoint
      /\ tree'[n].numExecutions = tree[n].numExecutions
  <2>1. CASE ExecuteNode
    BY <2>1, ExecuteStep
  <2>2. CASE ModelAnswer
    <3>1. tree[n] \in Node
      BY SameNode DEF IInv
    <3>2. \E p \in 0..MaxPairs : tree'[n] = [tree[n] EXCEPT !.modelVals = p] \/ tree'[n] = tree[n]
      BY <2>2, ModelAnswerStep
    <3> QED BY <3>1, <3>2 DEF Node
  <2>3. CASE UNCHANGED tree
    BY <2>3
  <2>4. ExecuteNode \/ ModelAnswer \/ UNCHANGED tree
    BY DEF Next, Engine, User, StartRound, SkipExcluded, Revisit, EndRound, FirstProceed,
           FirstExclude, WakeProceed, ExcludeLine, ExcludeNode, WakeExclude, vars
  <2> QED BY <2>1, <2>2, <2>3, <2>4
<1>3. hasRunMaxExecs(n)' <=> hasRunMaxExecs(n)
  BY <1>2 DEF hasRunMaxExecs
<1> QED BY <1>1, <1>2, <1>3

LEMMA BranchedType ==
  ASSUME IInv, NEW n \in Ids, n # 0, ByBranch(n)
  PROVE  tree[n].prevId \in Ids /\ tree[tree[n].prevId].block \in Blocks
<1>1. PICK p \in Ids : p = tree[n].prevId
  BY ParentNode
<1>2. tree[p].block \in Blocks \cup {NULL}
  BY <1>1, SameNode DEF IInv, Node
<1> QED BY <1>1, <1>2 DEF ByBranch

LEMMA PlaceType ==
  ASSUME IInv, NEW rank \in [Blocks -> Int], NEW n \in Ids, tree[n].block # NULL
  PROVE  /\ tree[n].block \in Blocks
         /\ Place(rank, n) \in Int
         /\ ~Jumped(n) => Place(rank, n) = rank[tree[n].block]
<1>1. tree[n].block \in Blocks
  BY SameNode DEF IInv, Node
<1>2. Jumped(n) => tree[tree[n].prevId].block \in Blocks
  BY BranchedType DEF Jumped
<1> QED BY <1>1, <1>2 DEF Place

LEMMA ExitType ==
  ASSUME NEW b \in Blocks, NEW rank, NEW a, ClosesLoop(rank, a, b)
  PROVE  Exit(b) \in Blocks /\ rank[a] < rank[Exit(b)]
<1>1. 1 \in 1..Len(Code[b]) /\ Code[b][1].op = "cond"
  BY CodeType DEF ClosesLoop
<1>2. Code[b][1] \in SplitPoint /\ Len(Code[b][1].succ) = 2
  <2>1. Code[b][1] \in SplitPoint /\ Len(Code[b][1].succ) = Arity[Code[b][1].op]
    BY <1>1, CodeType
  <2>2. Arity["cond"] = 2
    BY DEF Arity
  <2> QED BY <1>1, <2>1, <2>2
<1>3. Code[b][1].succ \in Seq(Blocks)
  BY <1>2 DEF SplitPoint
<1>4. Code[b][1].succ[2] \in Blocks
  BY <1>2, <1>3
<1> QED BY <1>4 DEF Exit, ClosesLoop

LEMMA PlaceKept ==
  ASSUME IInv, [Next]_vars, NEW rank, NEW n \in Ids
  PROVE  Place(rank, n)' = Place(rank, n)
<1>1. CASE n = 0
  BY <1>1, JumpedKept DEF Place, Jumped
<1>2. CASE n # 0
  BY <1>2, JumpedKept DEF Place
<1> QED BY <1>1, <1>2

LEMMA LoopInit == ASSUME Init, NEW rank \in [Blocks -> Int] PROVE LoopInv(rank)
<1>1. IInv
  BY InitInv
<1>2. Ids = {0} /\ tree[0].returnNode = NoNode
  BY DEF Init, Ids, SymbolicTreeNode
<1>3. Path[0] = {0}
  BY <1>1, PathDef DEF IInv
<1>4. ~Jumped(0)
  BY DEF Jumped
<1>5. LoopClosed(rank, 0)
  BY <1>4 DEF LoopClosed
<1>6. CallAbove(0)
  BY <1>2, <1>3 DEF CallAbove, NoNode
<1>7. CallOrdered(rank, 0)
  BY <1>3 DEF CallOrdered, SameCall
<1> QED BY <1>2, <1>5, <1>6, <1>7 DEF LoopInv

\* The nodes of the tree keep what the invariant says of them.
LEMMA OldLoops ==
  ASSUME IInv, [Next]_vars, NEW rank \in [Blocks -> Int], LoopInv(rank), NEW n \in Ids
  PROVE  LoopClosed(rank, n)' /\ CallAbove(n)' /\ CallOrdered(rank, n)'
<1>0. /\ LoopClosed(rank, n) /\ CallAbove(n) /\ CallOrdered(rank, n)
      /\ n \in Path[n] /\ Path[n] \subseteq Ids /\ Path'[n] = Path[n]
  BY PathBasic, Kept DEF LoopInv, IInv
<1>1. \A m \in Ids : /\ tree'[m].block = tree[m].block
                     /\ tree'[m].returnNode = tree[m].returnNode
                     /\ Jumped(m)' <=> Jumped(m)
                     /\ ByBranch(m)' <=> ByBranch(m)
                     /\ Place(rank, m)' = Place(rank, m)
  BY Kept, ReturnKept, JumpedKept, PlaceKept
<1>2. LoopClosed(rank, n)'
  <2> SUFFICES ASSUME Jumped(n)' PROVE
        /\ tree'[n].block \in Blocks
        /\ ClosesLoop(rank, tree'[tree'[n].prevId].block, tree'[n].block)
        /\ ~tree'[n].isExecuted => tree'[n].ip = 1 /\ hasRunMaxExecs(n)'
    BY DEF LoopClosed, ClosesLoop
  <2>1. Jumped(n) /\ n # 0
    BY <1>1 DEF Jumped
  <2>2. tree'[tree'[n].prevId].block = tree[tree[n].prevId].block
    BY <2>1, JumpedKept
  <2>3. tree'[n].block \in Blocks /\ ClosesLoop(rank, tree'[tree'[n].prevId].block, tree'[n].block)
    BY <1>0, <1>1, <2>1, <2>2 DEF LoopClosed
  <2>4. ~tree'[n].isExecuted => tree'[n].ip = 1 /\ hasRunMaxExecs(n)'
    BY <1>0, <2>1, WaitingKept DEF LoopClosed
  <2> QED BY <2>3, <2>4
<1>3. CallAbove(n)'
  BY <1>0, <1>1 DEF CallAbove
<1>4. CallOrdered(rank, n)'
  <2>1. SameCall(n)' = SameCall(n)
    BY <1>0, <1>1 DEF SameCall
  <2>2. \A m \in SameCall(n) : m \in Ids /\ (Behind(rank, m, n)' <=> Behind(rank, m, n))
    <3>1. \A m \in SameCall(n) : m \in Ids
      BY <1>0 DEF SameCall
    <3> QED BY <1>1, <3>1 DEF Behind
  <2> QED BY <1>0, <1>1, <2>1, <2>2 DEF CallOrdered
<1> QED BY <1>2, <1>3, <1>4

\* x is the node for a successor block of n.
Entered(n, x) ==
  LET s == Code[tree[n].block][tree[n].ip]
  IN  /\ tree[n].block \in Blocks /\ tree[n].ip \in 1..Len(Code[tree[n].block])
      /\ s.op \in {"cond", "jump"} /\ x.returnNode = tree[n].returnNode
      /\ s.op = "cond" => ByCond(n, s.succ, x)
      /\ s.op = "jump" => ByJump(n, s.succ[1], x)

\* x is the node of a call that n makes.
CalledFrom(n, x) ==
  /\ tree[n].block \in Blocks /\ tree[n].ip \in 1..Len(Code[tree[n].block])
  /\ Code[tree[n].block][tree[n].ip].op \in {"call", "extern"}
  /\ x.returnNode = n

LEMMA NewNode ==
  ASSUME IInv, FrameInv, [Next]_vars, ExecuteNode, NEW x \in Ids' \ Ids,
         NEW n \in Ids, n = Head(deque)
  PROVE  /\ ~tree[n].isExecuted
         /\ x # 0 /\ \A m \in Ids : m < x
         /\ tree'[x].prevId = n /\ tree'[x].block \in Blocks \cup {NULL}
         /\ Path'[x] = {x} \cup Path[n]
         /\ tree'[n].block = tree[n].block /\ tree'[n].returnNode = tree[n].returnNode
         /\ LastOp(n)' = Code[tree[n].block][tree[n].ip].op \/ tree[n].block = NULL
         /\ tree[n].block # NULL =>
              tree[n].ip \in 1..Len(Code[tree[n].block]) /\ tree'[n].ip = tree[n].ip + 1
         /\ Resumes(n, tree'[x]) \/ CalledFrom(n, tree'[x]) \/ Entered(n, tree'[x])
<1>1. /\ TypeOK /\ TreeInv /\ TypeOK' /\ TreeInv'
      /\ numNodes \in Nat /\ Ids = 0..(numNodes-1) /\ 0 \in Ids
      /\ numNodes' \in Nat /\ Ids' = 0..(numNodes'-1)
  <2>1. TypeOK /\ TreeInv /\ TypeOK' /\ TreeInv'
    BY Inductive DEF IInv
  <2>2. numNodes \in Nat \ {0} /\ numNodes' \in Nat \ {0}
    BY <2>1 DEF TypeOK
  <2>3. Ids = 0..(numNodes-1) /\ Ids' = 0..(numNodes'-1)
    BY DEF Ids
  <2> QED BY <2>1, <2>2, <2>3
<1>2. ~tree[n].isExecuted
  BY ExecuteStep
<1>3. x # 0 /\ \A m \in Ids : m < x
  BY <1>1
<1>4. /\ tree'[x].prevId = n
      /\ tree[n].block = NULL => Returns(n)'
      /\ \/ Returns(n)' /\ Resumes(n, tree'[x])
         \/ ~Returns(n)' /\ Calls(n)' /\ tree'[x].returnNode = n
         \/ ~Returns(n)' /\ ~Calls(n)' /\ tree'[x].returnNode = tree[n].returnNode
      /\ tree[n].block # NULL =>
           /\ tree[n].ip \in 1..Len(Code[tree[n].block]) /\ tree'[n].ip = tree[n].ip + 1
           /\ Framed(n, Code[tree[n].block][tree[n].ip], tree'[x])
  <2>1. tree[n].block = NULL => Returns(n)'
    BY Kept DEF Returns
  <2> QED BY <2>1, NewFrame
<1>5. tree'[x].block \in Blocks \cup {NULL}
  BY <1>1 DEF TypeOK, Node
<1>6. Path'[x] = {x} \cup Path[n]
  <2>1. Path'[x] = {x} \cup Path'[tree'[x].prevId]
    BY <1>1, <1>3, PathEquationNext DEF PathEquation
  <2>2. Path'[n] = Path[n]
    BY Kept
  <2> QED BY <1>4, <2>1, <2>2
<1>7. tree'[n].block = tree[n].block /\ tree'[n].returnNode = tree[n].returnNode
  BY Kept, ReturnKept
<1>8. CASE tree[n].block = NULL
  BY <1>2, <1>3, <1>4, <1>5, <1>6, <1>7, <1>8
<1>9. CASE tree[n].block # NULL
  <2>1. tree[n].block \in Blocks /\ tree[n].ip \in Int
    BY <1>1, <1>9, SameNode DEF Node
  <2>2. tree'[n].ip - 1 = tree[n].ip
    BY <1>4, <1>9, <2>1
  <2>3. LastOp(n)' = Code[tree[n].block][tree[n].ip].op
    BY <1>7, <2>2 DEF LastOp
  <2>4. Resumes(n, tree'[x]) \/ CalledFrom(n, tree'[x]) \/ Entered(n, tree'[x])
    BY <1>4, <1>9, <2>1 DEF Framed, CalledFrom, Entered
  <2> QED BY <1>2, <1>3, <1>4, <1>5, <1>6, <1>7, <2>3, <2>4
<1> QED BY <1>8, <1>9

\* A loop at its limit is left: its head is executed to the condition it begins
\* with.
LEMMA AtLimit ==
  ASSUME IInv, NEW rank, NEW n \in Ids, Jumped(n), LoopClosed(rank, n), ~tree[n].isExecuted
  PROVE  /\ Code[tree[n].block][tree[n].ip] = Code[tree[n].block][1]
         /\ Code[tree[n].block][1].op = "cond"
         /\ hasRunMaxExecs(n)
         /\ ClosesLoop(rank, tree[tree[n].prevId].block, tree[n].block)
BY DEF LoopClosed, ClosesLoop

\* After a return the call goes on where it was left.
LEMMA ResumedLoops ==
  ASSUME IInv, FrameInv, [Next]_vars, NEW rank \in [Blocks -> Int], LoopInv(rank),
         ExecuteNode, NEW x \in Ids' \ Ids, NEW n \in Ids, n = Head(deque),
         Resumes(n, tree'[x])
  PROVE  LoopClosed(rank, x)' /\ CallAbove(x)' /\ CallOrdered(rank, x)'
<1>1. /\ TypeOK /\ TreeInv /\ NoNode = -1 /\ Ids \subseteq Nat
      /\ x # 0 /\ \A m \in Ids : m < x
      /\ tree'[x].prevId = n /\ tree'[x].block \in Blocks \cup {NULL}
      /\ Path'[x] = {x} \cup Path[n]
      /\ tree'[n].returnNode = tree[n].returnNode
      /\ CallAbove(n)
  <2>1. TypeOK /\ TreeInv /\ Ids \subseteq Nat
    BY DEF IInv, TypeOK, Ids
  <2> QED BY <2>1, NewNode DEF LoopInv, NoNode
<1>2. \A m \in Ids : /\ tree'[m].block = tree[m].block
                     /\ tree'[m].returnNode = tree[m].returnNode
                     /\ Jumped(m)' <=> Jumped(m)
                     /\ tree[m].returnNode \in Ids \cup {-1}
  BY <1>1, Kept, ReturnKept, JumpedKept DEF TreeInv, Ref
<1>3. PICK r \in Ids : /\ r = tree[n].returnNode /\ r \in Path[n] /\ ~Jumped(r)
                       /\ tree'[x].block = tree[r].block
                       /\ tree'[x].returnNode = tree[r].returnNode
                       /\ CallAbove(r) /\ CallOrdered(rank, r)
  <2>1. tree[n].returnNode \in Ids
    BY <1>1, <1>2 DEF Resumes
  <2> QED BY <1>1, <2>1 DEF CallAbove, Resumes, LoopInv
<1>4. PICK q \in Ids \cup {-1} : /\ q = tree[r].returnNode /\ q < r
                                 /\ q # -1 => q \in Path[r]
  <2>1. tree[r].returnNode # -1 => tree[r].returnNode \in Path[r] \ {r}
    BY <1>1, <1>3 DEF CallAbove
  <2>2. Path[r] \subseteq 0..r
    BY <1>1, PathBasic
  <2>3. tree[r].returnNode < r
    <3>1. tree[r].returnNode \in Ids \cup {-1}
      BY <1>2
    <3> QED BY <1>1, <2>1, <2>2, <3>1
  <2> QED BY <1>2, <2>1, <2>3
<1>5. /\ Path[n] \subseteq Ids /\ Path[r] \subseteq Path[n] /\ r \in Path[r]
      /\ \A m \in Path[n] : m <= r => m \in Path[r]
  BY <1>1, <1>3, PathBasic, PathDown, PathBetween
<1>6. ~ByBranch(x)' /\ ~Jumped(x)'
  <2>1. tree'[x].returnNode # tree'[n].returnNode
    BY <1>1, <1>3, <1>4
  <2> QED BY <1>1, <2>1 DEF ByBranch, Jumped
<1>7. LoopClosed(rank, x)'
  BY <1>6 DEF LoopClosed
<1>8. \A m \in Path[n] : /\ m = q => ~Jumped(m)
                         /\ m > q => tree[m].returnNode >= q
                         /\ m > r => tree[m].returnNode # q
  <2> SUFFICES ASSUME NEW m \in Path[n]
               PROVE  /\ m = q => ~Jumped(m)
                      /\ m > q => tree[m].returnNode >= q
                      /\ m > r => tree[m].returnNode # q
    OBVIOUS
  <2>1. m \in Nat /\ tree[m].returnNode \in Nat \cup {-1}
    BY <1>1, <1>2, <1>5
  <2>2. CASE m > r
    <3>1. tree[m].returnNode >= r
      BY <1>1, <1>3, <2>2 DEF CallAbove
    <3> QED BY <1>1, <1>4, <2>1, <2>2, <3>1
  <2>3. CASE m <= r
    <3>1. m \in Path[r]
      BY <1>5, <2>3
    <3> QED BY <1>1, <1>3, <1>4, <2>1, <2>3, <3>1 DEF CallAbove
  <2> QED BY <1>1, <2>1, <2>2, <2>3
<1>9. CallAbove(x)'
  <2>1. tree'[x].returnNode \in (Path'[x] \ {x}) \cup {NoNode}
    BY <1>1, <1>3, <1>4, <1>5
  <2>2. ASSUME NEW m \in Path'[x]
        PROVE  /\ m = tree'[x].returnNode => ~Jumped(m)'
               /\ m > tree'[x].returnNode => tree'[m].returnNode >= tree'[x].returnNode
    <3>1. CASE m = x
      BY <1>1, <1>3, <1>4, <1>6, <3>1
    <3>2. CASE m \in Path[n]
      BY <1>2, <1>3, <1>4, <1>5, <1>8, <3>2
    <3> QED BY <1>1, <3>1, <3>2
  <2> QED BY <2>1, <2>2 DEF CallAbove
<1>10. CallOrdered(rank, x)'
  <2> SUFFICES ASSUME tree'[x].block # NULL, NEW m \in SameCall(x)' \ {x}
               PROVE  Behind(rank, m, x)'
    BY DEF CallOrdered
  <2>1. m \in Path[n] /\ m \in Ids /\ tree[m].block # NULL /\ tree[m].returnNode = q
    BY <1>1, <1>2, <1>3, <1>4, <1>5 DEF SameCall
  <2>2. m \in SameCall(r)
    <3>1. ~(m > r)
      BY <1>8, <2>1
    <3>2. m <= r
      BY <1>1, <2>1, <3>1
    <3> QED BY <1>4, <1>5, <2>1, <3>2 DEF SameCall
  <2>3. Place(rank, x)' = rank[tree[r].block] /\ Place(rank, r) = rank[tree[r].block]
    BY <1>3, <1>6 DEF Place
  <2>4. rank[tree[r].block] \in Int
    BY <1>1, <1>3
  <2>5. IF Jumped(m) THEN rank[Exit(tree[m].block)] <= Place(rank, r)
        ELSE rank[tree[m].block] <= Place(rank, r)
    <3>1. CASE m = r
      BY <1>3, <2>3, <2>4, <3>1
    <3>2. CASE m # r
      <4>1. Behind(rank, m, r)
        BY <1>3, <2>2, <3>2 DEF CallOrdered
      <4> QED BY <4>1 DEF Behind
    <3> QED BY <3>1, <3>2
  <2>6. tree'[m].block = tree[m].block /\ (Jumped(m)' <=> Jumped(m))
    BY <1>2, <2>1
  <2> QED BY <1>6, <2>3, <2>5, <2>6 DEF Behind
<1> QED BY <1>7, <1>9, <1>10

\* A call enters a new part of the tree, in which only its node belongs to it.
LEMMA CalledAlone ==
  ASSUME IInv, FrameInv, [Next]_vars, NEW rank, LoopInv(rank),
         ExecuteNode, NEW x \in Ids' \ Ids, NEW n \in Ids, n = Head(deque),
         CalledFrom(n, tree'[x])
  PROVE  SameCall(x)' \subseteq {x}
<1>1. /\ TypeOK /\ TreeInv /\ Ids \subseteq Nat
      /\ tree'[x].returnNode = n /\ Path'[x] = {x} \cup Path[n]
  <2>1. TypeOK /\ TreeInv /\ Ids \subseteq Nat
    BY DEF IInv, TypeOK, Ids
  <2> QED BY <2>1, NewNode DEF CalledFrom
<1> SUFFICES ASSUME NEW m \in Path[n], tree'[m].returnNode = n PROVE FALSE
  BY <1>1 DEF SameCall
<1>2. m \in Ids /\ m \in 0..n /\ Path[m] \subseteq 0..m
  BY <1>1, PathBasic
<1>3. tree[m].returnNode = n
  BY <1>2, ReturnKept
<1>4. n \in (Path[m] \ {m}) \cup {NoNode}
  BY <1>2, <1>3 DEF LoopInv, CallAbove
<1>5. n \in 0..m /\ m # n
  BY <1>1, <1>2, <1>4 DEF NoNode
<1> QED BY <1>1, <1>2, <1>5

LEMMA CalledLoops ==
  ASSUME IInv, FrameInv, [Next]_vars, NEW rank \in [Blocks -> Int], LoopInv(rank),
         ExecuteNode, NEW x \in Ids' \ Ids, NEW n \in Ids, n = Head(deque),
         CalledFrom(n, tree'[x])
  PROVE  LoopClosed(rank, x)' /\ CallAbove(x)' /\ CallOrdered(rank, x)'
<1>1. /\ TypeOK /\ TreeInv /\ NoNode = -1 /\ Ids \subseteq Nat
      /\ ~tree[n].isExecuted
      /\ x # 0 /\ \A m \in Ids : m < x
      /\ tree'[x].prevId = n /\ tree'[x].returnNode = n
      /\ Path'[x] = {x} \cup Path[n]
      /\ tree'[n].returnNode = tree[n].returnNode
      /\ CallAbove(n) /\ LoopClosed(rank, n)
  <2>1. TypeOK /\ TreeInv /\ Ids \subseteq Nat
    BY DEF IInv, TypeOK, Ids
  <2> QED BY <2>1, NewNode DEF LoopInv, NoNode, CalledFrom
<1>2. \A m \in Ids : /\ tree'[m].block = tree[m].block
                     /\ tree'[m].returnNode = tree[m].returnNode
                     /\ Jumped(m)' <=> Jumped(m)
  BY Kept, ReturnKept, JumpedKept
<1>3. /\ Path[n] \subseteq Ids /\ n \in Path[n]
      /\ \A m \in Path[n] : m <= n /\ Path[m] \subseteq 0..m
  <2>1. Path[n] \subseteq 0..n /\ Path[n] \subseteq Ids /\ n \in Path[n]
    BY <1>1, PathBasic
  <2>2. \A m \in Path[n] : Path[m] \subseteq 0..m
    BY <1>1, <2>1, PathBasic
  <2> QED BY <2>1, <2>2
<1>4. ~Jumped(n)
  BY <1>1, AtLimit DEF CalledFrom
<1>5. ~Jumped(x)'
  <2>1. tree'[x].returnNode # tree'[n].returnNode
    BY <1>1 DEF CallAbove
  <2> QED BY <1>1, <2>1 DEF ByBranch, Jumped
<1>6. LoopClosed(rank, x)'
  BY <1>5 DEF LoopClosed
<1>7. CallAbove(x)'
  <2>1. tree'[x].returnNode \in Path'[x] \ {x}
    BY <1>1, <1>3
  <2>2. ASSUME NEW m \in Path'[x]
        PROVE  /\ m = tree'[x].returnNode => ~Jumped(m)'
               /\ m > tree'[x].returnNode => tree'[m].returnNode >= tree'[x].returnNode
    <3>1. CASE m = x
      BY <1>1, <1>5, <3>1
    <3>2. CASE m \in Path[n]
      BY <1>1, <1>2, <1>3, <1>4, <3>2
    <3> QED BY <1>1, <3>1, <3>2
  <2> QED BY <2>1, <2>2 DEF CallAbove
<1>8. SameCall(x)' \subseteq {x}
  BY CalledAlone
<1>9. CallOrdered(rank, x)'
  BY <1>8 DEF CallOrdered
<1> QED BY <1>6, <1>7, <1>9

LEMMA OrderOf ==
  ASSUME NEW rank \in [Blocks -> Int], OrderedBy(rank),
         NEW b \in Blocks, NEW k \in 1..Len(Code[b])
  PROVE  LET s == Code[b][k]
         IN  /\ s.op = "cond" => \A c \in {s.succ[1], s.succ[2]} : c \in Blocks /\ rank[b] < rank[c]
             /\ s.op = "jump" =>
                  /\ s.succ[1] \in Blocks
                  /\ IF Backwards(b, s.succ[1]) THEN ClosesLoop(rank, b, s.succ[1])
                                                ELSE rank[b] < rank[s.succ[1]]
<1>1. PICK s \in SplitPoint : s = Code[b][k] /\ Len(s.succ) = Arity[s.op]
  BY CodeType
<1>2. s.succ \in Seq(Blocks)
  BY DEF SplitPoint
<1>3. s \in ToSet(Code[b])
  BY <1>1, CodeType DEF ToSet
<1>4. Arity["cond"] = 2 /\ Arity["jump"] = 1
  BY DEF Arity
<1>5. ASSUME s.op = "cond", NEW c \in {s.succ[1], s.succ[2]} PROVE c \in Blocks /\ rank[b] < rank[c]
  <2>1. Len(s.succ) = 2
    BY <1>1, <1>4, <1>5
  <2>2. c \in Blocks /\ c \in ToSet(s.succ)
    BY <1>2, <1>5, <2>1 DEF ToSet
  <2> QED BY <1>3, <1>5, <2>2 DEF OrderedBy
<1>6. ASSUME s.op = "jump"
      PROVE  /\ s.succ[1] \in Blocks
             /\ IF Backwards(b, s.succ[1]) THEN ClosesLoop(rank, b, s.succ[1])
                                           ELSE rank[b] < rank[s.succ[1]]
  <2>1. Len(s.succ) = 1
    BY <1>1, <1>4, <1>6
  <2>2. s.succ[1] \in Blocks
    BY <1>2, <2>1
  <2> QED BY <1>3, <1>6, <2>2 DEF OrderedBy
<1> QED BY <1>1, <1>5, <1>6

\* A branch goes forward, leaves a loop at its limit, or jumps back to one.
LEMMA EnteredLoops ==
  ASSUME IInv, FrameInv, [Next]_vars, NEW rank \in [Blocks -> Int], OrderedBy(rank), LoopInv(rank),
         ExecuteNode, NEW x \in Ids' \ Ids, NEW n \in Ids, n = Head(deque),
         Entered(n, tree'[x])
  PROVE  LoopClosed(rank, x)' /\ CallAbove(x)' /\ CallOrdered(rank, x)'
<1>1. /\ TypeOK /\ TreeInv /\ NoNode = -1 /\ Ids \subseteq Nat
      /\ ~tree[n].isExecuted
      /\ x # 0 /\ \A m \in Ids : m < x
      /\ tree'[x].prevId = n /\ tree'[x].returnNode = tree[n].returnNode
      /\ Path'[x] = {x} \cup Path[n]
      /\ tree'[n].block = tree[n].block /\ tree'[n].returnNode = tree[n].returnNode
      /\ tree[n].block \in Blocks /\ tree[n].block # NULL
      /\ LastOp(n)' = Code[tree[n].block][tree[n].ip].op
      /\ CallAbove(n) /\ LoopClosed(rank, n) /\ CallOrdered(rank, n)
  <2>1. TypeOK /\ TreeInv /\ Ids \subseteq Nat
    BY DEF IInv, TypeOK, Ids
  <2>2. tree[n].block \in Blocks /\ tree[n].block # NULL
    BY NullIsNoBlock DEF Entered
  <2> QED BY <2>1, <2>2, NewNode DEF LoopInv, NoNode, Entered
<1>2. \A m \in Ids : /\ tree'[m].block = tree[m].block
                     /\ tree'[m].returnNode = tree[m].returnNode
                     /\ Jumped(m)' <=> Jumped(m)
                     /\ tree[m].returnNode \in Ids \cup {-1}
  BY <1>1, Kept, ReturnKept, JumpedKept DEF TreeInv, Ref
<1>3. Path[n] \subseteq Ids /\ n \in Path[n]
  BY <1>1, PathBasic
<1>4. PICK b, s, c :
        /\ b \in Blocks /\ b = tree[n].block /\ s = Code[b][tree[n].ip] /\ c = tree'[x].block
        /\ tree[n].ip \in 1..Len(Code[b]) /\ s.op \in {"cond", "jump"}
        /\ s.op = "cond" => ByCond(n, s.succ, tree'[x])
        /\ s.op = "jump" => ByJump(n, s.succ[1], tree'[x])
  BY DEF Entered
<1>5. /\ s.op = "cond" => c \in Blocks /\ rank[b] < rank[c]
      /\ s.op = "jump" => /\ c \in Blocks
                          /\ IF Backwards(b, c) THEN ClosesLoop(rank, b, c)
                                                ELSE rank[b] < rank[c]
  BY <1>4, OrderOf DEF ByCond, ByJump
<1>6. ByBranch(x)' /\ (Jumped(x)' <=> s.op = "jump" /\ Backwards(b, c))
  <2>1. ByBranch(x)'
    BY <1>1 DEF ByBranch
  <2>2. Backwards(tree[n].block, tree[x].block)' <=> Backwards(b, c)
    BY <1>1, <1>4 DEF Backwards
  <2> QED BY <1>1, <1>4, <2>1, <2>2 DEF Jumped
<1>7. Jumped(n) => /\ ~Jumped(x)' /\ c = Exit(b)
                   /\ Place(rank, n) < rank[c]
  <2> SUFFICES ASSUME Jumped(n) PROVE ~Jumped(x)' /\ c = Exit(b) /\ Place(rank, n) < rank[c]
    OBVIOUS
  <2>1. /\ s = Code[b][1] /\ s.op = "cond" /\ hasRunMaxExecs(n)
        /\ ClosesLoop(rank, tree[tree[n].prevId].block, b)
    BY <1>1, <1>4, AtLimit
  <2>2. c = s.succ[2]
    BY <1>4, <2>1 DEF ByCond
  <2> QED BY <1>6, <2>1, <2>2 DEF Exit, ClosesLoop, Place
<1>8. /\ Jumped(x)' => Place(rank, x)' = rank[b]
      /\ ~Jumped(x)' => Place(rank, x)' = rank[c]
      /\ ~Jumped(n) => Place(rank, n) = rank[b]
      /\ c \in Blocks /\ rank[b] \in Int /\ rank[c] \in Int /\ Place(rank, n) \in Int
  BY <1>1, <1>4, <1>5, PlaceType DEF Place
<1>9. LoopClosed(rank, x)'
  <2> SUFFICES ASSUME Jumped(x)'
               PROVE  /\ c \in Blocks /\ ClosesLoop(rank, b, c)
                      /\ tree'[x].ip = 1 /\ hasRunMaxExecs(x)'
    BY <1>1, <1>4 DEF LoopClosed, ClosesLoop
  <2>1. s.op = "jump" /\ Backwards(b, c) /\ ByJump(n, c, tree'[x])
    BY <1>4, <1>6 DEF ByJump
  <2>2. /\ tree'[x].loopStartPoint = c /\ tree'[x].numExecutions = tree[n].numExecutions + 1
        /\ tree'[x].ip = 1
    BY <1>4, <2>1 DEF ByJump
  <2>3. tree[n].numExecutions \in Nat
    BY <1>1, SameNode DEF Node
  <2>4. hasRunMaxExecs(x)'
    BY <1>4, <2>2, <2>3 DEF hasRunMaxExecs, maxExecutions
  <2> QED BY <1>5, <2>1, <2>2, <2>4
<1>10. CallAbove(x)'
  <2>1. tree'[x].returnNode \in (Path'[x] \ {x}) \cup {NoNode}
    BY <1>1, <1>3 DEF CallAbove
  <2>2. ASSUME NEW m \in Path'[x]
        PROVE  /\ m = tree'[x].returnNode => ~Jumped(m)'
               /\ m > tree'[x].returnNode => tree'[m].returnNode >= tree'[x].returnNode
    <3>1. CASE m = x
      <4>1. tree'[x].returnNode # x /\ tree'[x].returnNode \in Nat \cup {-1}
        BY <1>1, <1>2, <1>3
      <4> QED BY <3>1, <4>1
    <3>2. CASE m \in Path[n]
      BY <1>1, <1>2, <1>3, <3>2 DEF CallAbove
    <3> QED BY <1>1, <3>1, <3>2
  <2> QED BY <2>1, <2>2 DEF CallAbove
<1>11. CallOrdered(rank, x)'
  <2> SUFFICES ASSUME NEW m \in SameCall(x)' \ {x} PROVE Behind(rank, m, x)'
    BY DEF CallOrdered
  <2>1. m \in Ids /\ m \in SameCall(n) /\ tree[m].block \in Blocks
    <3>1. m \in Path[n] /\ tree[m].block # NULL /\ tree[m].returnNode = tree[n].returnNode
      BY <1>1, <1>2, <1>3 DEF SameCall
    <3> QED BY <1>3, <3>1, PlaceType DEF SameCall
  <2>2. m # n => Behind(rank, m, n)
    BY <1>1, <2>1 DEF CallOrdered
  <2>3. Jumped(m) => rank[Exit(tree[m].block)] \in Int
    <3>1. Jumped(m) => ClosesLoop(rank, tree[tree[m].prevId].block, tree[m].block)
      BY <2>1 DEF LoopInv, LoopClosed
    <3> QED BY <2>1, <3>1, ExitType
  <2>4. rank[tree[m].block] \in Int
    BY <2>1
  <2>5. tree'[m].block = tree[m].block /\ (Jumped(m)' <=> Jumped(m))
    BY <1>2, <2>1
  <2>6. CASE Jumped(x)'
    <3>1. ~Jumped(n)
      BY <1>7, <2>6
    <3>2. IF Jumped(m) THEN rank[Exit(tree[m].block)] <= rank[b]
                       ELSE rank[tree[m].block] <= rank[b]
      <4>1. CASE m = n
        BY <1>4, <1>8, <3>1, <4>1
      <4>2. CASE m # n
        BY <1>8, <2>2, <3>1, <4>2 DEF Behind
      <4> QED BY <4>1, <4>2
    <3> QED BY <1>8, <2>5, <2>6, <3>2 DEF Behind
  <2>7. CASE ~Jumped(x)'
    <3>1. Place(rank, n) < rank[c]
      BY <1>4, <1>5, <1>6, <1>7, <1>8, <2>7
    <3>2. IF Jumped(m) THEN rank[Exit(tree[m].block)] <= rank[c]
                       ELSE rank[tree[m].block] < rank[c]
      <4>1. CASE m = n
        BY <1>4, <1>7, <1>8, <2>3, <3>1, <4>1
      <4>2. CASE m # n
        <5>1. IF Jumped(m) THEN rank[Exit(tree[m].block)] <= Place(rank, n)
                           ELSE rank[tree[m].block] <= Place(rank, n)
          BY <2>2, <4>2 DEF Behind
        <5> QED BY <1>8, <2>3, <2>4, <3>1, <5>1
      <4> QED BY <4>1, <4>2
    <3> QED BY <1>8, <2>3, <2>4, <2>5, <2>7, <3>2 DEF Behind
  <2> QED BY <2>6, <2>7
<1> QED BY <1>9, <1>10, <1>11

LEMMA LoopStep ==
  ASSUME IInv, FrameInv, [Next]_vars, NEW rank \in [Blocks -> Int], OrderedBy(rank), LoopInv(rank)
  PROVE  LoopInv(rank)'
<1>1. ASSUME NEW x \in Ids'
      PROVE  LoopClosed(rank, x)' /\ CallAbove(x)' /\ CallOrdered(rank, x)'
  <2>1. CASE x \in Ids
    BY <2>1, OldLoops
  <2>2. CASE x \notin Ids /\ ~ExecuteNode
    BY <1>1, <2>2, TreeStep
  <2>3. CASE x \notin Ids /\ ExecuteNode
    <3>1. PICK n \in Ids : n = Head(deque)
      BY <2>3, ExecuteStep
    <3>2. Resumes(n, tree'[x]) \/ CalledFrom(n, tree'[x]) \/ Entered(n, tree'[x])
      BY <2>3, <3>1, NewNode
    <3> QED BY <2>3, <3>1, <3>2, ResumedLoops, CalledLoops, EnteredLoops
  <2> QED BY <2>1, <2>2, <2>3
<1> QED BY <1>1 DEF LoopInv

LEMMA AtMostTwo ==
  ASSUME NEW S, NEW T \in SUBSET S,
         \A x, y \in T : x = y, \A x, y \in S \ T : x = y
  PROVE  Cardinality(S) <= 2
<1>1. PICK a, b : S \subseteq {a} \cup {b}
  <2>1. \E a : T \subseteq {a}
    OBVIOUS
  <2>2. \E b : S \ T \subseteq {b}
    OBVIOUS
  <2> QED BY <2>1, <2>2
<1>2. IsFiniteSet({a}) /\ Cardinality({a}) = 1
  BY FS_Singleton
<1>3. IsFiniteSet({a} \cup {b}) /\ Cardinality({a} \cup {b}) \in {1, 2}
  BY <1>2, FS_AddElement
<1>4. S \in SUBSET ({a} \cup {b})
  BY <1>1
<1>5. IsFiniteSet(S) /\ Cardinality(S) <= Cardinality({a} \cup {b})
  BY <1>3, <1>4, FS_Subset
<1>6. Cardinality(S) \in Nat
  BY <1>5, FS_CardinalityType
<1> QED BY <1>3, <1>5, <1>6

LEMMA LoopInvBounds ==
  ASSUME IInv, NEW rank \in [Blocks -> Int], LoopInv(rank)
  PROVE  LoopBounded
<1> SUFFICES ASSUME NEW n \in Ids, NEW b \in Blocks
             PROVE  Cardinality({m \in Path[n] : /\ tree[m].block = b /\ ByBranch(m)
                                                /\ tree[m].returnNode = tree[n].returnNode}) <= 2
  BY DEF LoopBounded, maxExecutions
<1> DEFINE S == {m \in Path[n] : /\ tree[m].block = b /\ ByBranch(m)
                                 /\ tree[m].returnNode = tree[n].returnNode}
           T == {m \in S : Jumped(m)}
<1>1. TypeOK /\ TreeInv /\ Ids \subseteq Nat /\ NULL \notin Blocks
  BY NullIsNoBlock DEF IInv, TypeOK, Ids
<1>2. \A m \in S : m \in Ids /\ m \in Path[n] /\ tree[m].block = b /\ ByBranch(m)
  BY <1>1, PathBasic
<1>3. ASSUME NEW l \in S, NEW m \in S, l < m PROVE l \in SameCall(m) \ {m}
  <2>1. l \in Nat /\ m \in Nat
    BY <1>1, <1>2
  <2>2. l <= m /\ l # m
    BY <1>3, <2>1
  <2>3. l \in Path[m]
    BY <1>1, <1>2, <2>2, PathBetween
  <2> QED BY <1>1, <1>2, <2>2, <2>3 DEF SameCall
<1>4. ASSUME NEW l \in S, NEW m \in S, l < m PROVE ~(Jumped(l) <=> Jumped(m))
  <2>1. Behind(rank, l, m)
    BY <1>1, <1>2, <1>3, <1>4 DEF LoopInv, CallOrdered
  <2>2. CASE Jumped(l) /\ Jumped(m)
    <3>1. rank[Exit(b)] <= Place(rank, m)
      BY <1>2, <2>1, <2>2 DEF Behind
    <3>2. ClosesLoop(rank, tree[tree[m].prevId].block, b)
      BY <1>2, <2>2 DEF LoopInv, LoopClosed
    <3>3. Exit(b) \in Blocks /\ Place(rank, m) < rank[Exit(b)]
      BY <2>2, <3>2, ExitType DEF Place
    <3>4. Place(rank, m) \in Int /\ rank[Exit(b)] \in Int
      BY <1>1, <1>2, <3>3, PlaceType
    <3> QED BY <3>1, <3>3, <3>4
  <2>3. CASE ~Jumped(l) /\ ~Jumped(m)
    <3>1. rank[b] < Place(rank, m)
      BY <1>2, <2>1, <2>3 DEF Behind
    <3>2. Place(rank, m) = rank[b] /\ rank[b] \in Int
      BY <1>1, <1>2, <2>3, PlaceType
    <3> QED BY <3>1, <3>2
  <2> QED BY <2>2, <2>3
<1>5. \A l, m \in S : (Jumped(l) <=> Jumped(m)) => l = m
  <2> SUFFICES ASSUME NEW l \in S, NEW m \in S, Jumped(l) <=> Jumped(m) PROVE l = m
    OBVIOUS
  <2>1. l \in Nat /\ m \in Nat
    BY <1>1, <1>2
  <2>2. ~(l < m) /\ ~(m < l)
    BY <1>4
  <2> QED BY <2>1, <2>2
<1>6. T \in SUBSET S /\ (\A l, m \in T : l = m) /\ (\A l, m \in S \ T : l = m)
  BY <1>5
<1> HIDE DEF S, T
<1>7. Cardinality(S) <= 2
  BY <1>6, AtMostTwo
<1> QED BY <1>7 DEF S

\* The loop limit works for every control-flow graph that is in order: whatever
\* functions call each other and whatever models the user gives, no call of a
\* function enters a block by a branch more than twice.
THEOREM LoopsBounded ==
  ASSUME NEW rank \in [Blocks -> Int], OrderedBy(rank)
  PROVE  Spec => []LoopBounded
<1>1. Init => LoopInv(rank)
  BY LoopInit
<1>2. IInv /\ FrameInv /\ LoopInv(rank) /\ [Next]_vars => LoopInv(rank)'
  BY LoopStep
<1>3. IInv /\ LoopInv(rank) => LoopBounded
  BY LoopInvBounds
<1> QED BY <1>1, <1>2, <1>3, Invariance, FrameInvariance, PTL DEF Spec

-----------------------------------------------------------------------------
(* The length of a call.  A node that a call is left at, and the node it    *)
(* goes on with, are of one block: the second is at a later split point.    *)

\* m, above n in a visit of n's block, stopped where n begins or before it.
GoesOn(m, n) ==
  tree[m].block = tree[n].block /\ ~Jumped(m) /\ ~Jumped(n) => tree[m].ip <= tree[n].ip

HasGoneOn(m, n) ==
  tree[m].block = tree[n].block /\ ~Jumped(m) /\ ~Jumped(n) => tree[m].ip < tree[n].ip

VisitOrdered(n) ==
  tree[n].block # NULL /\ ~tree[n].isExecuted => \A m \in SameCall(n) \ {n} : GoesOn(m, n)

\* n has passed a split point of its block.
Passed(n) ==
  tree[n].block # NULL =>
    /\ tree[n].ip - 1 \in 1..Len(Code[tree[n].block])
    /\ \A m \in SameCall(n) \ {n} : HasGoneOn(m, n)

VisitInv ==
  /\ \A n \in Ids : VisitOrdered(n)
  /\ \A n \in Ids \ {0} : \A p \in Ids : p = tree[n].prevId => Passed(p)

\* On a path no call of a function has more nodes than twice the split points
\* of all blocks, and one.
CallBounded(most) ==
  \A n \in Ids : Cardinality(SameCall(n)) <= 2 * Cardinality(Blocks) * most + 1

LEMMA VisitInit == Init => VisitInv
<1> SUFFICES ASSUME Init PROVE VisitInv
  OBVIOUS
<1>1. Path[0] = {0} /\ Ids = {0}
  BY InitInv, PathDef DEF IInv, Init, Ids
<1> QED BY <1>1 DEF VisitInv, VisitOrdered, SameCall

LEMMA SameCallKept ==
  ASSUME IInv, [Next]_vars, NEW n \in Ids
  PROVE  SameCall(n)' = SameCall(n) /\ SameCall(n) \subseteq Ids
<1>1. Path'[n] = Path[n] /\ Path[n] \subseteq Ids
  BY Kept, PathBasic DEF IInv
<1>2. \A m \in Ids : tree'[m].block = tree[m].block /\ tree'[m].returnNode = tree[m].returnNode
  BY Kept, ReturnKept
<1> QED BY <1>1, <1>2 DEF SameCall

\* The nodes of a call above n have stopped for good.
LEMMA AboveKept ==
  ASSUME IInv, [Next]_vars, NEW n \in Ids, NEW m \in SameCall(n) \ {n}
  PROVE  /\ m \in Ids /\ tree[m].isExecuted
         /\ tree'[m].ip = tree[m].ip /\ tree'[m].block = tree[m].block
         /\ Jumped(m)' <=> Jumped(m)
<1>1. m \in Path[n] \ {n}
  BY DEF SameCall
<1>2. m \in Ids /\ tree[m].isExecuted
  BY <1>1, PathExecuted DEF IInv
<1> QED BY <1>2, FinalStep, Kept, JumpedKept

LEMMA OldVisit ==
  ASSUME IInv, [Next]_vars, VisitInv, NEW n \in Ids
  PROVE  VisitOrdered(n)'
<1> SUFFICES ASSUME tree'[n].block # NULL, ~tree'[n].isExecuted, NEW m \in SameCall(n)' \ {n}
             PROVE  GoesOn(m, n)'
  BY DEF VisitOrdered
<1>1. m \in SameCall(n) \ {n}
  BY SameCallKept
<1>2. /\ ~tree[n].isExecuted /\ tree'[n].ip = tree[n].ip
      /\ tree'[n].block = tree[n].block /\ (Jumped(n)' <=> Jumped(n))
  BY WaitingKept, JumpedKept
<1>3. GoesOn(m, n)
  BY <1>1, <1>2 DEF VisitInv, VisitOrdered
<1> QED BY <1>1, <1>2, <1>3, AboveKept DEF GoesOn

LEMMA OldPassed ==
  ASSUME IInv, [Next]_vars, NEW n \in Ids, tree[n].isExecuted, Passed(n)
  PROVE  Passed(n)'
<1>1. /\ tree'[n].ip = tree[n].ip /\ tree'[n].block = tree[n].block
      /\ Jumped(n)' <=> Jumped(n)
      /\ SameCall(n)' = SameCall(n)
  BY FinalStep, Kept, JumpedKept, SameCallKept
<1>2. \A m \in SameCall(n) \ {n} : HasGoneOn(m, n)' <=> HasGoneOn(m, n)
  BY <1>1, AboveKept DEF HasGoneOn
<1> QED BY <1>1, <1>2 DEF Passed

\* The executed node has passed the split point it was at.
LEMMA NewPassed ==
  ASSUME IInv, FrameInv, [Next]_vars, VisitInv, ExecuteNode, NEW x \in Ids' \ Ids,
         NEW n \in Ids, n = Head(deque)
  PROVE  Passed(n)'
<1> SUFFICES ASSUME tree'[n].block # NULL
             PROVE  /\ tree'[n].ip - 1 \in 1..Len(Code[tree'[n].block])
                    /\ \A m \in SameCall(n)' \ {n} : HasGoneOn(m, n)'
  BY DEF Passed
<1>1. /\ ~tree[n].isExecuted /\ tree'[n].block = tree[n].block /\ tree[n].block # NULL
      /\ tree[n].ip \in 1..Len(Code[tree[n].block]) /\ tree'[n].ip = tree[n].ip + 1
  BY NewNode
<1>2. tree[n].ip \in Int
  BY SameNode DEF IInv, Node
<1>3. tree'[n].ip - 1 = tree[n].ip
  BY <1>1, <1>2
<1>4. ASSUME NEW m \in SameCall(n)' \ {n} PROVE HasGoneOn(m, n)'
  <2>1. m \in SameCall(n) \ {n}
    BY SameCallKept
  <2>2. /\ m \in Ids /\ tree'[m].ip = tree[m].ip /\ tree'[m].block = tree[m].block
        /\ Jumped(m)' <=> Jumped(m)
    BY <2>1, AboveKept
  <2>3. GoesOn(m, n) /\ (Jumped(n)' <=> Jumped(n))
    BY <1>1, <2>1, JumpedKept DEF VisitInv, VisitOrdered
  <2>4. tree[m].ip \in Int
    BY <2>2, SameNode DEF IInv, Node
  <2>5. tree[m].ip <= tree[n].ip => tree'[m].ip < tree'[n].ip
    BY <1>1, <1>2, <2>2, <2>4
  <2> QED BY <1>1, <2>2, <2>3, <2>5 DEF GoesOn, HasGoneOn
<1> QED BY <1>1, <1>3, <1>4

\* What a return finds of the call it resumes: the node r that was left.
LEMMA ResumedVisit ==
  ASSUME IInv, FrameInv, [Next]_vars, NEW rank \in [Blocks -> Int], LoopInv(rank), VisitInv,
         ExecuteNode, NEW x \in Ids' \ Ids, NEW n \in Ids, n = Head(deque),
         Resumes(n, tree'[x])
  PROVE  VisitOrdered(x)'
<1> SUFFICES ASSUME tree'[x].block # NULL, NEW m \in SameCall(x)' \ {x}
             PROVE  GoesOn(m, x)'
  BY DEF VisitOrdered
<1>1. /\ TypeOK /\ TreeInv /\ NoNode = -1 /\ Ids \subseteq Nat
      /\ x # 0 /\ \A l \in Ids : l < x
      /\ tree'[x].prevId = n /\ Path'[x] = {x} \cup Path[n]
      /\ CallAbove(n)
  <2>1. TypeOK /\ TreeInv /\ Ids \subseteq Nat
    BY DEF IInv, TypeOK, Ids
  <2> QED BY <2>1, NewNode DEF LoopInv, NoNode
<1>2. PICK r \in Ids : /\ r = tree[n].returnNode /\ r \in Path[n] \ {n} /\ ~Jumped(r)
                       /\ tree'[x].block = tree[r].block /\ tree'[x].ip = tree[r].ip
                       /\ tree'[x].returnNode = tree[r].returnNode
  <2>1. tree[n].returnNode \in Path[n] \ {n}
    BY <1>1 DEF CallAbove, Resumes
  <2>2. tree[n].returnNode \in Ids
    BY <1>1, <2>1, PathBasic
  <2> QED BY <1>1, <2>1, <2>2 DEF CallAbove, Resumes
<1>3. Passed(r)
  <2>1. \E c \in Path[n] \ {0} : c \in Ids /\ tree[c].prevId = r
    BY <1>1, <1>2, PathLink
  <2> QED BY <2>1 DEF VisitInv
<1>4. m \in Path[n] \ {n} \/ m = n
  BY <1>1 DEF SameCall
<1>5. /\ m \in Ids /\ tree'[m].block = tree[m].block /\ tree'[m].returnNode = tree[m].returnNode
      /\ Jumped(m)' <=> Jumped(m)
  <2>1. m \in Ids
    BY <1>1, <1>4, PathBasic
  <2> QED BY <2>1, Kept, ReturnKept, JumpedKept
<1>6. tree[m].returnNode = tree[r].returnNode /\ tree[m].block # NULL
  BY <1>2, <1>5 DEF SameCall
<1>7. m <= r
  <2>1. r \in Nat /\ m \in Nat
    BY <1>1, <1>2, <1>5
  <2>2. tree[r].returnNode < r
    <3>1. CallAbove(r) /\ Path[r] \subseteq 0..r
      BY <1>1, <1>2, PathBasic DEF LoopInv
    <3>2. tree[r].returnNode \in (0..r \ {r}) \cup {-1}
      BY <1>1, <3>1 DEF CallAbove
    <3> QED BY <2>1, <3>2
  <2>3. m > r => tree[m].returnNode >= r
    BY <1>1, <1>2, <1>4 DEF CallAbove
  <2>4. tree[r].returnNode \in Int
    <3>1. tree[r].returnNode \in Ids \cup {-1}
      BY <1>1, <1>2 DEF TreeInv, Ref
    <3>2. Ids \cup {-1} \subseteq Int
      BY <1>1
    <3> QED BY <3>1, <3>2
  <2> QED BY <1>6, <2>1, <2>2, <2>3, <2>4
<1>8. m \in SameCall(r)
  <2>1. m \in Path[n]
    BY <1>2, <1>4, <1>1, PathBasic
  <2>2. m \in Path[r]
    BY <1>1, <1>2, <1>7, <2>1, PathBetween
  <2> QED BY <1>6, <2>2 DEF SameCall
<1>9. tree'[m].ip = tree[m].ip
  <2>1. m \in Path[n] \ {n}
    <3>1. n \notin Path[r]
      <4>1. Path[r] \subseteq 0..r /\ Path[n] \subseteq 0..n
        BY <1>1, <1>2, PathBasic
      <4>2. r \in 0..n /\ r # n
        BY <1>2, <4>1
      <4>3. r \in Nat /\ n \in Nat
        BY <1>1, <1>2
      <4>4. n \notin 0..r
        BY <4>2, <4>3
      <4> QED BY <4>1, <4>4
    <3> QED BY <1>4, <1>8, <3>1 DEF SameCall
  <2> QED BY <1>1, <2>1, PathExecuted, FinalStep
<1>10. tree[m].ip \in Int /\ tree[r].ip \in Int
  BY <1>1, <1>2, <1>5, SameNode DEF Node
<1>11. m # r => HasGoneOn(m, r)
  BY <1>2, <1>3, <1>6, <1>8 DEF Passed, SameCall
<1>12. (tree[m].block = tree[r].block /\ ~Jumped(m)) => tree[m].ip <= tree[r].ip
  BY <1>2, <1>10, <1>11 DEF HasGoneOn
<1> QED BY <1>2, <1>5, <1>9, <1>12 DEF GoesOn

LEMMA VisitStep ==
  ASSUME IInv, FrameInv, [Next]_vars, NEW rank \in [Blocks -> Int], OrderedBy(rank),
         LoopInv(rank), LoopInv(rank)', VisitInv
  PROVE  VisitInv'
<1>1. ASSUME NEW x \in Ids' \ Ids
      PROVE  ExecuteNode /\ \E n \in Ids : n = Head(deque) /\ tree'[x].prevId = n
  <2>1. ExecuteNode
    BY <1>1, TreeStep
  <2>2. PICK n \in Ids : n = Head(deque)
    BY <2>1, ExecuteStep
  <2> QED BY <2>1, <2>2, NewNode
<1>2. ASSUME NEW x \in Ids' PROVE VisitOrdered(x)'
  <2>1. CASE x \in Ids
    BY <2>1, OldVisit
  <2>2. CASE x \notin Ids
    <3>1. PICK n \in Ids : n = Head(deque)
      BY <1>1, <2>2
    <3>2. ExecuteNode /\ x \in Ids' \ Ids
      BY <1>1, <2>2
    <3>3. CASE Resumes(n, tree'[x])
      BY <3>1, <3>2, <3>3, ResumedVisit
    <3>4. CASE CalledFrom(n, tree'[x])
      <4>1. SameCall(x)' \subseteq {x}
        BY <3>1, <3>2, <3>4, CalledAlone
      <4> QED BY <4>1 DEF VisitOrdered
    <3>5. CASE Entered(n, tree'[x])
      <4> SUFFICES ASSUME tree'[x].block # NULL, NEW m \in SameCall(x)' \ {x},
                          ~Jumped(m)', ~Jumped(x)'
                   PROVE  tree'[m].block # tree'[x].block
        BY DEF VisitOrdered, GoesOn
      <4>1. Behind(rank, m, x)'
        BY DEF LoopInv, CallOrdered
      <4>2. ByBranch(x)'
        <5>1. tree'[x].prevId = n /\ tree'[n].block = tree[n].block
              /\ tree'[n].returnNode = tree[n].returnNode
          BY <3>1, <3>2, NewNode
        <5> QED BY <3>5, <5>1, NullIsNoBlock DEF Entered, ByBranch
      <4>3. rank[tree'[m].block] < Place(rank, x)' /\ Place(rank, x)' = rank[tree'[x].block]
        BY <4>1, <4>2 DEF Behind, Place
      <4>4. rank[tree'[x].block] \in Int
        <5>1. tree'[x].block \in Blocks \cup {NULL}
          BY <3>1, <3>2, NewNode
        <5> QED BY <5>1
      <4> QED BY <4>3, <4>4
    <3> QED BY <3>1, <3>2, <3>3, <3>4, <3>5, NewNode
  <2> QED BY <2>1, <2>2
<1>3. ASSUME NEW x \in Ids' \ {0}, NEW p \in Ids', p = tree'[x].prevId PROVE Passed(p)'
  <2>1. CASE x \in Ids
    <3>1. p = tree[x].prevId /\ p \in Ids /\ tree[p].isExecuted
      BY <1>3, <2>1, Kept, ParentNode
    <3>2. Passed(p)
      BY <1>3, <2>1, <3>1 DEF VisitInv
    <3> QED BY <3>1, <3>2, OldPassed
  <2>2. CASE x \notin Ids
    BY <1>1, <1>3, <2>2, NewPassed
  <2> QED BY <2>1, <2>2
<1> QED BY <1>2, <1>3 DEF VisitInv

\* A call enters a block by a jump back only once.
LEMMA JumpsOnce ==
  ASSUME IInv, NEW rank \in [Blocks -> Int], LoopInv(rank),
         NEW m \in Ids, NEW l \in SameCall(m) \ {m},
         tree[l].block = tree[m].block, Jumped(l)
  PROVE  ~Jumped(m)
<1> SUFFICES ASSUME Jumped(m) PROVE FALSE
  OBVIOUS
<1>1. tree[l].block # NULL /\ tree[m].block # NULL
  BY DEF SameCall
<1>2. tree[m].block \in Blocks /\ Place(rank, m) \in Int
  BY <1>1, PlaceType
<1>3. rank[Exit(tree[m].block)] <= Place(rank, m)
  BY <1>1 DEF LoopInv, CallOrdered, Behind
<1>4. ClosesLoop(rank, tree[tree[m].prevId].block, tree[m].block)
  BY DEF LoopInv, LoopClosed
<1>5. Exit(tree[m].block) \in Blocks /\ Place(rank, m) < rank[Exit(tree[m].block)]
  BY <1>2, <1>4, ExitType DEF Place
<1>6. rank[Exit(tree[m].block)] \in Int
  BY <1>5
<1> QED BY <1>2, <1>3, <1>5, <1>6

\* Where m has stopped: a call has no two nodes above another at the same place.
Stopped(m) == << <<tree[m].block, Jumped(m)>>, tree[m].ip - 1 >>

LEMMA StoppedOnce ==
  ASSUME IInv, NEW rank \in [Blocks -> Int], LoopInv(rank), VisitInv, NEW n \in Ids,
         NEW m \in SameCall(n) \ {n}
  PROVE  /\ m \in Ids /\ tree[m].block \in Blocks
         /\ tree[m].ip - 1 \in 1..Len(Code[tree[m].block])
         /\ \A l \in SameCall(n) : l < m => Stopped(l) # Stopped(m)
<1>1. TypeOK /\ TreeInv /\ Ids \subseteq Nat
  BY DEF IInv, TypeOK, Ids
<1>2. m \in Path[n] \ {n} /\ tree[m].block # NULL /\ tree[m].returnNode = tree[n].returnNode
  BY DEF SameCall
<1>3. m \in Ids /\ tree[m].block \in Blocks
  <2>1. m \in Ids
    BY <1>1, <1>2, PathBasic
  <2> QED BY <1>1, <1>2, <2>1, SameNode DEF Node
<1>4. Passed(m)
  <2>1. \E c \in Path[n] \ {0} : c \in Ids /\ tree[c].prevId = m
    BY <1>1, <1>2, PathLink
  <2> QED BY <1>3, <2>1 DEF VisitInv
<1>5. tree[m].ip - 1 \in 1..Len(Code[tree[m].block])
  BY <1>2, <1>4 DEF Passed
<1>6. ASSUME NEW l \in SameCall(n), l < m, Stopped(l) = Stopped(m) PROVE FALSE
  <2>1. /\ tree[l].block = tree[m].block /\ (Jumped(l) <=> Jumped(m))
        /\ tree[l].ip - 1 = tree[m].ip - 1
    BY <1>6, Zenon DEF Stopped
  <2>2. l \in Path[n] /\ tree[l].returnNode = tree[n].returnNode
    BY DEF SameCall
  <2>3. l \in Ids
    BY <1>1, <2>2, PathBasic
  <2>4. l \in Nat /\ m \in Nat
    BY <1>1, <1>3, <2>3
  <2>5. l <= m /\ l # m
    BY <1>6, <2>4
  <2>6. l \in SameCall(m) \ {m}
    <3>1. l \in Path[m]
      BY <1>1, <1>2, <2>2, <2>5, PathBetween
    <3> QED BY <1>2, <2>1, <2>2, <2>5, <3>1 DEF SameCall
  <2>7. ~Jumped(l) /\ ~Jumped(m)
    BY <1>3, <2>1, <2>6, JumpsOnce
  <2>8. tree[l].ip < tree[m].ip
    BY <1>2, <1>4, <2>1, <2>6, <2>7 DEF Passed, HasGoneOn
  <2>9. tree[l].ip \in Int /\ tree[m].ip \in Int
    BY <1>1, <1>3, <2>3, SameNode DEF Node
  <2> QED BY <2>1, <2>8, <2>9
<1> QED BY <1>3, <1>5, <1>6

LEMMA PlacesCounted ==
  ASSUME IsFiniteSet(Blocks), NEW most \in Nat
  PROVE  LET P == (Blocks \X BOOLEAN) \X (1..most)
         IN  /\ IsFiniteSet(P) /\ Cardinality(P) = 2 * Cardinality(Blocks) * most
             /\ Cardinality(P) \in Nat
<1>1. IsFiniteSet(BOOLEAN) /\ Cardinality(BOOLEAN) = 2
  <2>1. IsFiniteSet({TRUE}) /\ Cardinality({TRUE}) = 1
    BY FS_Singleton
  <2>2. IsFiniteSet({TRUE} \cup {FALSE}) /\ Cardinality({TRUE} \cup {FALSE}) = 1 + 1
    BY <2>1, FS_AddElement
  <2>3. 1 + 1 = 2
    OBVIOUS
  <2>4. BOOLEAN = {TRUE} \cup {FALSE}
    BY Zenon
  <2> QED BY <2>2, <2>3, <2>4, Zenon
<1>2. Cardinality(Blocks) \in Nat
  BY FS_CardinalityType
<1>3. /\ IsFiniteSet(Blocks \X BOOLEAN)
      /\ Cardinality(Blocks \X BOOLEAN) = Cardinality(Blocks) * 2
  BY <1>1, FS_Product
<1>4. IsFiniteSet(1..most) /\ Cardinality(1..most) = most
  BY FS_Interval
<1>5. /\ IsFiniteSet((Blocks \X BOOLEAN) \X (1..most))
      /\ Cardinality((Blocks \X BOOLEAN) \X (1..most)) = (Cardinality(Blocks) * 2) * most
  <2>1. /\ IsFiniteSet((Blocks \X BOOLEAN) \X (1..most))
        /\ Cardinality((Blocks \X BOOLEAN) \X (1..most))
             = Cardinality(Blocks \X BOOLEAN) * Cardinality(1..most)
    BY <1>3, <1>4, FS_Product
  <2> QED BY <1>3, <1>4, <2>1
<1>6. \A k \in Nat : (k * 2) * most = 2 * k * most /\ 2 * k * most \in Nat
  OBVIOUS
<1>7. /\ (Cardinality(Blocks) * 2) * most = 2 * Cardinality(Blocks) * most
      /\ 2 * Cardinality(Blocks) * most \in Nat
  BY <1>2, <1>6
<1> QED BY <1>5, <1>7

LEMMA VisitInvBounds ==
  ASSUME IInv, NEW rank \in [Blocks -> Int], LoopInv(rank), VisitInv,
         IsFiniteSet(Blocks), NEW most \in Nat, \A b \in Blocks : Len(Code[b]) <= most
  PROVE  CallBounded(most)
<1> SUFFICES ASSUME NEW n \in Ids
             PROVE  Cardinality(SameCall(n)) <= 2 * Cardinality(Blocks) * most + 1
  BY DEF CallBounded
<1> DEFINE S == SameCall(n) \ {n}
           P == (Blocks \X BOOLEAN) \X (1..most)
           f == [m \in S |-> Stopped(m)]
<1>0. Ids \subseteq Nat
  BY DEF IInv, TypeOK, Ids
<1>1. ASSUME NEW m \in S
      PROVE  /\ m \in Ids /\ tree[m].block \in Blocks
             /\ tree[m].ip - 1 \in 1..Len(Code[tree[m].block])
             /\ \A l \in S : l < m => Stopped(l) # Stopped(m)
  BY <1>1, StoppedOnce
<1>2. ASSUME NEW m \in S PROVE Stopped(m) \in P
  <2>1. Len(Code[tree[m].block]) \in Nat /\ Len(Code[tree[m].block]) <= most
    BY <1>1, CodeType
  <2>2. tree[m].ip - 1 \in 1..most
    BY <1>1, <2>1
  <2>3. Jumped(m) \in BOOLEAN
    BY DEF Jumped
  <2> QED BY <1>1, <2>2, <2>3 DEF Stopped
<1>3. \A l, m \in S : l # m => Stopped(l) # Stopped(m)
  <2> SUFFICES ASSUME NEW l \in S, NEW m \in S, l # m PROVE Stopped(l) # Stopped(m)
    OBVIOUS
  <2>1. l \in Nat /\ m \in Nat
    BY <1>0, <1>1
  <2>2. l < m \/ m < l
    BY <2>1
  <2> HIDE DEF S
  <2> QED BY <1>1, <2>2
<1>4. IsFiniteSet(P) /\ Cardinality(P) = 2 * Cardinality(Blocks) * most /\ Cardinality(P) \in Nat
  BY PlacesCounted
<1>5. f \in Injection(S, P)
  <2>1. f \in [S -> P]
    BY <1>2
  <2>2. \A l, m \in S : f[l] = f[m] => l = m
    BY <1>3
  <2> HIDE DEF f, S, P
  <2> QED BY <2>1, <2>2 DEF Injection, IsInjective
<1> HIDE DEF f, P
<1>6. IsFiniteSet(S) /\ Cardinality(S) <= Cardinality(P)
  BY <1>4, <1>5, FS_Injection
<1>7. /\ Cardinality(S) \in Nat
      /\ IsFiniteSet(S \cup {n}) /\ Cardinality(S \cup {n}) = Cardinality(S) + 1
  BY <1>6, FS_CardinalityType, FS_AddElement
<1>8. SameCall(n) \in SUBSET (S \cup {n})
  OBVIOUS
<1>9. /\ Cardinality(SameCall(n)) <= Cardinality(S) + 1
      /\ Cardinality(SameCall(n)) \in Nat
  BY <1>7, <1>8, FS_Subset, FS_CardinalityType
<1> QED BY <1>4, <1>6, <1>7, <1>9

\* Every call ends: when the control-flow graph is in order, a path is endless
\* only by endless recursion, whatever models the user gives.
THEOREM CallsEnd ==
  ASSUME NEW rank \in [Blocks -> Int], OrderedBy(rank), IsFiniteSet(Blocks),
         NEW most \in Nat, \A b \in Blocks : Len(Code[b]) <= most
  PROVE  Spec => []CallBounded(most)
<1>1. Init => LoopInv(rank) /\ VisitInv
  BY LoopInit, VisitInit
<1>2. IInv /\ FrameInv /\ LoopInv(rank) /\ [Next]_vars => LoopInv(rank)'
  BY LoopStep
<1>3. IInv /\ FrameInv /\ LoopInv(rank) /\ LoopInv(rank)' /\ VisitInv /\ [Next]_vars => VisitInv'
  BY VisitStep
<1>4. IInv /\ LoopInv(rank) /\ VisitInv => CallBounded(most)
  BY VisitInvBounds
<1> QED BY <1>1, <1>2, <1>3, <1>4, Invariance, FrameInvariance, PTL DEF Spec
=============================================================================
