--------------------------- MODULE SymbolicExecutor ---------------------------
(***************************************************************************)
(* The exploration loop of class SymbolicExecutor: the thread that grows   *)
(* the symbolic execution tree of one analysed function round by round, as *)
(* the user of the web page directs (src/src/symbolicexecutor.cpp).        *)
(*                                                                         *)
(* The analysed program is a control-flow graph: every basic block is the  *)
(* sequence of its split points (isSplitPoint); the other instructions     *)
(* only change data and calls of se::unknown_error do nothing.  Data are   *)
(* abstracted to what branching depends on: is the branch condition a      *)
(* constant, and is the conjunction of the path's Z3 constraints valid,    *)
(* satisfiable or unsatisfiable.                                           *)
(* The sleep of JsonReader is one step here: pc is "asleep" from the reply *)
(* to the next instruction.  Module JsonReader opens it up.                *)
(***************************************************************************)
EXTENDS Integers, Sequences, FiniteSets, SequencesExt

CONSTANTS
  Blocks,          \* the basic blocks of the analysed program
  NULL,            \* the NULL block of a node that stands for an external call
  Entry,           \* entry block of the analysed function ("notmain")
  FunctionBlocks,  \* the blocks of that function, callees excluded
  Code,            \* Code[b]: the split points of block b, in order
  Span,            \* Span[b]: the line of b's first instruction, its least and last line
  Lines,           \* the source lines the page shows
  StepCounts,      \* step counts the user asks for; -1 is "all"
  FirstKinds,      \* the kinds of the instruction sent first
  MaxPairs,        \* bound: pairs in the model of one external call
  MaxNodes,        \* bound: nodes of the tree
  MaxInstructions  \* bound: instructions the user sends

NoNode == -1       \* a NULL SymbolicTreeNode*, and the prevId of the root
maxExecutions == 1

Arity == [cond |-> 2, jump |-> 1, call |-> 1, extern |-> 0, ret |-> 0]
SplitPoint == [op : DOMAIN Arity, succ : Seq(Blocks)]

ASSUME ProgramAssumption ==
  /\ NULL \notin Blocks
  /\ FunctionBlocks \subseteq Blocks
  /\ Entry \in FunctionBlocks
  /\ Code \in [Blocks -> Seq(SplitPoint)]
  /\ \A b \in Blocks : \A k \in 1..Len(Code[b]) :
        Len(Code[b][k].succ) = Arity[Code[b][k].op]
  /\ Span \in [Blocks -> [first : Nat, min : Nat, max : Nat]]
  /\ Lines \subseteq Nat

ASSUME BoundAssumption ==
  /\ StepCounts \subseteq Nat \cup {-1}
  /\ FirstKinds \subseteq {"proceed", "exclude"}
  /\ MaxPairs \in Nat
  /\ MaxNodes \in Nat \ {0}
  /\ MaxInstructions \in Nat

VARIABLES
  tree,          \* tree[n]: the SymbolicTreeNode with id n; ids are 0..numNodes-1
  numNodes,
  excludedNodes, \* blocks the user has excluded
  deque,         \* the work list of the current round
  i,             \* its step counter
  pc,            \* where the executor thread is
  cmd,           \* reader->isBFS, dir, steps, prevId
  isExclude,     \* reader->isExclude
  nodes,         \* reader->nodes: ids reported since the last reply
  shown,         \* ids whose report has been sent to the web page
  sent           \* bound counter: instructions sent so far

vars == <<tree, numNodes, excludedNodes, deque, i, pc, cmd, isExclude, nodes,
          shown, sent>>

Ids == 0..numNodes-1

-----------------------------------------------------------------------------
(* The tree.                                                               *)

Constraints == {"valid", "sat", "unsat"}

Node == [block : Blocks \cup {NULL}, prevId : Nat \cup {NoNode}, ip : Nat \ {0},
         returnNode : Nat \cup {NoNode}, cons : Constraints,
         loopStartPoint : Blocks \cup {NULL}, numExecutions : Nat,
         isSatisfiable : BOOLEAN, isExecuted : BOOLEAN, isModel : BOOLEAN,
         left : Nat \cup {NoNode}, right : Nat \cup {NoNode},
         modelVals : Nat, never : BOOLEAN]

\* The constructor.  "never" is kept for the properties: the branch into this
\* node was decided the other way by a constant condition.
SymbolicTreeNode(b, pid, ip, ret, cons) ==
  [block |-> b, prevId |-> pid, ip |-> ip, returnNode |-> ret, cons |-> cons,
   loopStartPoint |-> NULL, numExecutions |-> 0, isSatisfiable |-> TRUE,
   isExecuted |-> FALSE, isModel |-> FALSE, left |-> NoNode, right |-> NoNode,
   modelVals |-> 0, never |-> FALSE]

\* The node for successor block b of n's branch instruction.
Successor(n, b, cons, start, num) ==
  [SymbolicTreeNode(b, n, 1, tree[n].returnNode, cons)
     EXCEPT !.loopStartPoint = start, !.numExecutions = num]

Inherit(n, b, cons) ==
  Successor(n, b, cons, tree[n].loopStartPoint, tree[n].numExecutions)

hasRunMaxExecs(n) ==
  /\ tree[n].loopStartPoint = tree[n].block
  /\ tree[n].numExecutions >= maxExecutions

\* What adding a condition, resp. its negation, makes of the path's
\* constraints.  ProgramState::Z3solver returns a model, not "", iff "sat":
\* an empty set of constraints (or a valid one) has the empty model.
Split(cons) ==
  CASE cons = "valid" -> {<<"sat", "sat">>, <<"valid", "unsat">>, <<"unsat", "valid">>}
    [] cons = "sat"   -> {<<"sat", "sat">>, <<"sat", "unsat">>, <<"unsat", "sat">>}
    [] cons = "unsat" -> {<<"unsat", "unsat">>}

Z3solver_Bool(cons) == TRUE
Z3solver(cons) == cons = "sat"

\* The evaluation of the branch condition: a constant, or symbolic.
Truth(n) ==
  LET same == <<tree[n].cons, tree[n].cons>>
  IN  {[const |-> TRUE, holds |-> h, cons |-> same] : h \in BOOLEAN}
        \cup {[const |-> FALSE, holds |-> TRUE, cons |-> c] :
                c \in IF hasRunMaxExecs(n) THEN {same} ELSE Split(tree[n].cons)}

\* Executing a node yields the node afterwards and its children.
Outcome(self, kids) == [self |-> self, kids |-> kids]

\* getNextBlocks, conditional branch.  A loop that has run its executions is
\* left through the second successor.  Note that an infeasible first branch
\* marks the branching node, an infeasible second branch the child.
conditionalBranch(n, succ, t) ==
  LET toAddFirst  == (t.const => t.holds) /\ Z3solver(t.cons[1])
      toAddSecond == /\ hasRunMaxExecs(n) \/ ~(t.const /\ t.holds)
                     /\ Z3solver(t.cons[2])
      first  == [Inherit(n, succ[1], t.cons[1])
                   EXCEPT !.never = (t.const /\ ~t.holds)]
      second == [Inherit(n, succ[2], t.cons[2])
                   EXCEPT !.isSatisfiable = toAddSecond,
                          !.never = (t.const /\ t.holds /\ ~hasRunMaxExecs(n))]
  IN  IF hasRunMaxExecs(n)
        THEN Outcome(tree[n], <<second>>)
        ELSE Outcome([tree[n] EXCEPT !.isSatisfiable = @ /\ toAddFirst],
                     <<first, second>>)

getMinLineNumber(b) == Span[b].first

\* Is the jump from block b to block c one to an earlier line?
Backwards(b, c) == getMinLineNumber(c) < getMinLineNumber(b)

\* Slip: the executions of a loop are not counted.
unconditionalBranch_Uncounted(n, b) ==
  Outcome(tree[n], <<Inherit(n, b, tree[n].cons)>>)

\* getNextBlocks, unconditional branch: a jump to an earlier line is a loop.
unconditionalBranch(n, b) ==
  Outcome(tree[n],
          <<IF Backwards(tree[n].block, b)
              THEN Successor(n, b, tree[n].cons, b, tree[n].numExecutions + 1)
              ELSE Inherit(n, b, tree[n].cons)>>)

\* getNextBlocks, call of a function defined in the program or external.
internalCall(n, b) ==
  Outcome(tree[n], <<SymbolicTreeNode(b, n, 1, n, tree[n].cons)>>)

externalCall(n) ==
  Outcome([tree[n] EXCEPT !.isModel = TRUE],
          <<SymbolicTreeNode(NULL, n, 1, n, tree[n].cons)>>)

\* Slips: the resumed node hangs below the call, not below the return; it keeps
\* the frame of the call it returns from.
returnTo_BelowCall(n) ==
  LET r == tree[n].returnNode
  IN  SymbolicTreeNode(tree[r].block, r, tree[r].ip, tree[r].returnNode, tree[n].cons)

returnTo_SameFrame(n) ==
  LET r == tree[n].returnNode
  IN  SymbolicTreeNode(tree[r].block, n, tree[r].ip, r, tree[n].cons)

\* getReturnState: resume the caller's block after the call.
returnTo(n) ==
  LET r == tree[n].returnNode
  IN  SymbolicTreeNode(tree[r].block, n, tree[r].ip, tree[r].returnNode, tree[n].cons)

returnInst(n) ==
  Outcome(tree[n], IF tree[n].returnNode = NoNode THEN <<>> ELSE <<returnTo(n)>>)

getNextBlocks(n, s) ==
  CASE s.op = "cond"   -> {conditionalBranch(n, s.succ, t) : t \in Truth(n)}
    [] s.op = "jump"   -> {unconditionalBranch(n, s.succ[1])}
    [] s.op = "call"   -> {internalCall(n, s.succ[1])}
    [] s.op = "extern" -> {externalCall(n)}
    [] s.op = "ret"    -> {returnInst(n)}

\* One child per pair of the model the user gave for the external call.
executeModel(n) ==
  Outcome(tree[n], [k \in 1..tree[n].modelVals |-> returnTo(n)])

\* The possible outcomes of executing node n up to its next split point.
executeBasicBlock(n) ==
  LET b == tree[n].block
  IN  IF b = NULL THEN {executeModel(n)}
      ELSE IF tree[n].ip > Len(Code[b]) THEN {Outcome(tree[n], <<>>)}
      ELSE {[o EXCEPT !.self.ip = @ + 1] : o \in getNextBlocks(n, Code[b][tree[n].ip])}

-----------------------------------------------------------------------------
(* The work list.                                                          *)

child(c) == IF c = NoNode THEN <<>> ELSE <<c>>

\* Slip: the right child only when there is no left one.
children_ElseIf(n) ==
  IF tree[n].left = NoNode THEN child(tree[n].right) ELSE child(tree[n].left)

children(n) == child(tree[n].left) \o child(tree[n].right)

Ordered(ids) == IF cmd.dir = 1 THEN Reverse(ids) ELSE ids

\* Slip: the work list used as a stack in both modes.
Push_Front(ids, dq) == Reverse(Ordered(ids)) \o dq

\* push_back for breadth first, push_front for depth first, one id at a time.
Push(ids, dq) ==
  IF cmd.isBFS = 1 THEN dq \o Ordered(ids) ELSE Reverse(Ordered(ids)) \o dq

\* Slip: numNodes is incremented before its use.
KidIds_PreIncrement(kids) == [k \in 1..Len(kids) |-> numNodes + k]

\* The ids of the children of n, in the tree after its execution.
KidIds(kids) == [k \in 1..Len(kids) |-> numNodes + k - 1]

\* Slips: both pointers get the first child; isExecuted is not set; a lone
\* child or the last one is left.
Link_SameChild(self, kids) ==
  [self EXCEPT !.isExecuted = TRUE,
               !.left  = IF Len(kids) >= 1 THEN numNodes ELSE @,
               !.right = IF Len(kids) >= 2 THEN numNodes ELSE @]

Link_Unmarked(self, kids) ==
  [self EXCEPT !.left  = IF Len(kids) >= 1 THEN numNodes ELSE @,
               !.right = IF Len(kids) >= 2 THEN numNodes + 1 ELSE @]

Link_LeftOverwritten(self, kids) ==
  [self EXCEPT !.isExecuted = TRUE,
               !.left  = IF Len(kids) >= 1 THEN numNodes + Len(kids) - 1 ELSE @]

\* The loop over new_blocks: child 0 is left, every other one overwrites right.
Link(self, kids) ==
  LET ids  == KidIds(kids)
      last == IF cmd.dir = 1 THEN 2 ELSE Len(kids)
  IN  [self EXCEPT !.isExecuted = TRUE,
                   !.left  = IF Len(kids) >= 1 THEN ids[1] ELSE @,
                   !.right = IF Len(kids) >= 2 THEN ids[last] ELSE @]

Grow(n, self, kids) ==
  [m \in 0..(numNodes + Len(kids) - 1) |->
     IF m = n THEN self
     ELSE IF m < numNodes THEN tree[m]
     ELSE kids[m - numNodes + 1]]

-----------------------------------------------------------------------------
(* The user's instructions.                                                *)

\* reader->isBFS, dir, steps and prevId before the first instruction that sets
\* them: JsonReader's constructor does not.  The values tried are the root id,
\* which is not in BlockStates yet, and -1.
Uninitialised == [isBFS : {0, 1}, dir : {0, 1}, steps : StepCounts, prevId : {-1, 0}]

Commands == [isBFS : {0, 1}, dir : {0, 1}, steps : StepCounts, prevId : shown \cup {-1}]

Init ==
  /\ tree = [n \in {0} |-> SymbolicTreeNode(Entry, NoNode, 1, NoNode, "valid")]
  /\ numNodes = 1
  /\ excludedNodes = {}
  /\ deque = <<>>
  /\ i = 0
  /\ pc = "names"
  /\ cmd \in Uninitialised
  /\ isExclude \in {-1, 0, 1}
  /\ nodes = <<>>
  /\ shown = {}
  /\ sent = 0

\* Slip: isExclude keeps the value of an earlier exclusion.
Proceed_StaleExclude(c) ==
  /\ sent < MaxInstructions
  /\ sent' = sent + 1
  /\ isExclude' = isExclude
  /\ cmd' = c
  /\ pc' = "round"

\* setExecutionVars on an instruction to proceed.
Proceed(c) ==
  /\ sent < MaxInstructions
  /\ sent' = sent + 1
  /\ isExclude' = -1
  /\ cmd' = c
  /\ pc' = "round"

\* executeFunction: the function names have been sent, the first instruction
\* arrives.  An exclusion is only noted in isExclude; the round starts.
FirstProceed ==
  /\ pc = "names"
  /\ "proceed" \in FirstKinds
  /\ \E c \in Commands : Proceed(c)
  /\ UNCHANGED <<tree, numNodes, excludedNodes, deque, i, nodes, shown>>

FirstExclude ==
  /\ pc = "names"
  /\ "exclude" \in FirstKinds
  /\ sent < MaxInstructions
  /\ sent' = sent + 1
  /\ isExclude' = 0
  /\ pc' = "round"
  /\ UNCHANGED <<tree, numNodes, excludedNodes, deque, i, cmd, nodes, shown>>

\* Top of the while loop of symbolicExecute: the root, or the children of the
\* node the user clicked.  BlockStates holds the executed nodes; for any other
\* id operator[] yields NULL, which is dereferenced.
StartRound ==
  /\ pc = "round"
  /\ nodes' = <<>>
  /\ i' = 0
  /\ IF cmd.prevId = -1
       THEN deque' = <<0>> /\ pc' = "step"
     ELSE IF tree[cmd.prevId].isExecuted
       THEN /\ deque' = IF cmd.dir = 1 THEN children(cmd.prevId)
                                       ELSE Reverse(children(cmd.prevId))
            /\ pc' = "step"
     ELSE deque' = <<>> /\ pc' = "crashed"
  /\ UNCHANGED <<tree, numNodes, excludedNodes, cmd, isExclude, shown, sent>>

\* The tests at the head of the loop body.  The variants after a definition's
\* name and an underscore are plausible slips the properties must notice.
isExcluded_BeforeExecution(n) == tree[n].block \in excludedNodes /\ ~tree[n].isExecuted
isExcluded(n) == tree[n].block \in excludedNodes

isFresh_Always(n) == TRUE
isFresh(n) == ~tree[n].isExecuted

MoreSteps == deque # <<>> /\ (i < cmd.steps \/ cmd.steps = -1)

\* An excluded block is dropped from the work list and costs no step.
SkipExcluded ==
  /\ pc = "step" /\ MoreSteps
  /\ isExcluded(Head(deque))
  /\ deque' = Tail(deque)
  /\ UNCHANGED <<tree, numNodes, excludedNodes, i, pc, cmd, isExclude, nodes,
                 shown, sent>>

\* A node executed in an earlier round costs no step; its children are added.
Revisit ==
  /\ pc = "step" /\ MoreSteps
  /\ LET n == Head(deque)
     IN  /\ ~isExcluded(n)
         /\ ~isFresh(n)
         /\ deque' = IF tree[n].isSatisfiable
                       THEN Push(children(n), Tail(deque))
                       ELSE Tail(deque)
  /\ UNCHANGED <<tree, numNodes, excludedNodes, i, pc, cmd, isExclude, nodes,
                 shown, sent>>

\* Execute the node, report it, link and push its children.  After an external
\* call the reader sends what there is and sleeps for a model (getModel).
ExecuteNode ==
  /\ pc = "step" /\ MoreSteps
  /\ LET n == Head(deque)
     IN  /\ ~isExcluded(n)
         /\ isFresh(n)
         /\ \E o \in IF tree[n].isSatisfiable THEN executeBasicBlock(n)
                                              ELSE {Outcome(tree[n], <<>>)} :
              LET asks == o.self.isModel
              IN  /\ numNodes + Len(o.kids) <= MaxNodes
                  /\ tree' = Grow(n, Link(o.self, o.kids), o.kids)
                  /\ numNodes' = numNodes + Len(o.kids)
                  /\ deque' = Push(KidIds(o.kids), Tail(deque))
                  /\ pc' = IF asks THEN "getModel" ELSE "step"
                  /\ nodes' = IF asks THEN <<>> ELSE Append(nodes, n)
                  /\ shown' = IF asks /\ isExclude = -1
                                THEN shown \cup ToSet(Append(nodes, n)) ELSE shown
  /\ i' = i + 1
  /\ UNCHANGED <<excludedNodes, cmd, isExclude, sent>>

\* The answer to getModel.  It has no pairs when the user sends another kind
\* of instruction instead; each pair buys a step.
ModelAnswer ==
  /\ pc = "getModel"
  /\ sent < MaxInstructions
  /\ sent' = sent + 1
  /\ \E p \in 0..MaxPairs :
       /\ tree' = [tree EXCEPT ![numNodes - 1].modelVals = p]
       /\ cmd' = [cmd EXCEPT !.steps = IF @ = -1 THEN -1 ELSE @ + p]
  /\ pc' = "step"
  /\ UNCHANGED <<numNodes, excludedNodes, deque, i, isExclude, nodes, shown>>

\* The round is over: proceedSymbolicExecution sends the reports and sleeps.
\* sendMessageAndSleep drops them when the last instruction was an exclusion.
EndRound ==
  /\ pc = "step" /\ ~MoreSteps
  /\ deque' = <<>>
  /\ nodes' = <<>>
  /\ shown' = IF isExclude = -1 THEN shown \cup ToSet(nodes) ELSE shown
  /\ pc' = "asleep"
  /\ UNCHANGED <<tree, numNodes, excludedNodes, i, cmd, isExclude, sent>>

WakeProceed ==
  /\ pc = "asleep"
  /\ \E c \in Commands : Proceed(c)
  /\ UNCHANGED <<tree, numNodes, excludedNodes, deque, i, nodes, shown>>

lineToBlock(l) == {b \in FunctionBlocks : Span[b].min <= l /\ l <= Span[b].max}

\* exclude: by line, the blocks of that line; by node, the node's block.  A
\* node of an external call has no block: NULL is dereferenced.  The reply
\* carries no nodes, and the executor sleeps again.
WakeExclude(target, blocks) ==
  /\ pc = "asleep"
  /\ sent < MaxInstructions
  /\ sent' = sent + 1
  /\ isExclude' = target
  /\ IF NULL \in blocks
       THEN pc' = "crashed" /\ UNCHANGED excludedNodes
       ELSE pc' = "asleep" /\ excludedNodes' = excludedNodes \cup blocks
  /\ UNCHANGED <<tree, numNodes, deque, i, cmd, nodes, shown>>

ExcludeLine == \E l \in Lines : WakeExclude(0, lineToBlock(l))
ExcludeNode == \E n \in shown : WakeExclude(1, {tree[n].block})

Engine == StartRound \/ SkipExcluded \/ Revisit \/ ExecuteNode \/ EndRound
User == FirstProceed \/ FirstExclude \/ ModelAnswer \/ WakeProceed
          \/ ExcludeLine \/ ExcludeNode

Next == Engine \/ User

Spec == Init /\ [][Next]_vars
FairSpec == Spec /\ WF_vars(Engine)

-----------------------------------------------------------------------------
(* Properties.                                                             *)

\* Every variable stays in its type; numNodes is the next id, the ids in the
\* work list and in the reports are ids of the tree.
TypeOK ==
  /\ numNodes \in Nat \ {0}
  /\ tree \in [Ids -> Node]
  /\ excludedNodes \subseteq Blocks
  /\ deque \in Seq(Ids)
  /\ i \in Nat
  /\ pc \in {"names", "round", "step", "getModel", "asleep", "crashed"}
  /\ cmd \in [isBFS : {0, 1}, dir : {0, 1}, steps : Nat \cup {-1}, prevId : Nat \cup {-1}]
  /\ isExclude \in {-1, 0, 1}
  /\ nodes \in Seq(Ids)
  /\ shown \subseteq Ids
  /\ sent \in Nat

\* The path from n to the root.
Path ==
  LET up[n \in Ids] == {n} \cup IF tree[n].prevId = NoNode THEN {} ELSE up[tree[n].prevId]
  IN  up

Depth(n) == Cardinality(Path[n])

Linked(n) == n = 0 \/ n \in {tree[tree[n].prevId].left, tree[tree[n].prevId].right}

\* The nodes on the path to n below the node the round started from, n included.
BelowFocus(n) ==
  IF cmd.prevId = -1 THEN Path[n] ELSE Path[n] \ Path[cmd.prevId]

InFocus(n) == cmd.prevId = -1 \/ cmd.prevId \in Path[n] \ {n}

\* No node is executed or reported to the page twice, however the rounds of the
\* user overlap (symbolicExecute, the isExecuted branch and addObject).
ReportedOnce ==
  /\ IsInjective(nodes)
  /\ ToSet(nodes) \cap shown = {}
  /\ \A n \in ToSet(nodes) \cup shown : tree[n].isExecuted

\* A node is reported after its parent: graph.js attaches a report to the
\* parent it already has and drops it otherwise (addNode).
ParentReportedFirst ==
  \A k \in 1..Len(nodes) :
    LET p == tree[nodes[k]].prevId
    IN  p = NoNode \/ p \in shown \/ \E j \in 1..(k-1) : nodes[j] = p

\* Nothing executed is kept from the page: when the executor sleeps, the report
\* of every executed node has been sent (sendMessageAndSleep, "Sends the
\* current output").
OutputReachesUser ==
  pc = "asleep" => \A n \in Ids : tree[n].isExecuted => n \in shown

\* The work list always covers what the round still has to explore: a node
\* that is not executed and hangs below the clicked node on a path of executed,
\* satisfiable nodes outside the excluded blocks has itself or an ancestor in
\* the list.  So a round whose list runs empty has explored everything.
FrontierCovered ==
  pc \in {"step", "getModel"} =>
    \A n \in Ids :
      /\ ~tree[n].isExecuted
      /\ InFocus(n)
      /\ \A m \in BelowFocus(n) :
           /\ tree[m].block \notin excludedNodes
           /\ Linked(m)
           /\ m # n => tree[m].isExecuted /\ tree[m].isSatisfiable
      => \E d \in ToSet(deque) : d \in Path[n]

\* The work list never holds a node twice, nor a node together with one of its
\* ancestors: the parts of the tree still to visit do not overlap.
FrontierDisjoint ==
  /\ IsInjective(deque)
  /\ \A d, e \in ToSet(deque) : d \in Path[e] => d = e

\* Breadth first visits level by level; depth first finishes a subtree before
\* it returns to a sibling of one of its ancestors (push_back, push_front).
SearchOrder ==
  \A j, k \in 1..Len(deque) : j < k =>
    IF cmd.isBFS = 1
      THEN Depth(deque[j]) <= Depth(deque[k])
      ELSE tree[deque[k]].prevId \in Path[deque[j]] \cup {NoNode}

\* A node whose branch was taken in its parent's frame, not a call or a return.
ByBranch(n) ==
  n = 0 \/ /\ tree[tree[n].prevId].block # NULL
           /\ tree[n].returnNode = tree[tree[n].prevId].returnNode

\* What leaving node n does to the frames: the answer to an external call and a
\* return drop one, a call opens one.
LastOp(n) == Code[tree[n].block][tree[n].ip - 1].op
Returns(n) == tree[n].block = NULL \/ LastOp(n) = "ret"
Calls(n) == tree[n].block # NULL /\ LastOp(n) \in {"call", "extern"}

\* The calls on the path to n that have not returned, the last one last.
CallStack ==
  LET stack[n \in Ids] ==
        LET p == tree[n].prevId
        IN  IF n = 0 THEN <<>>
            ELSE IF Returns(p) THEN Front(stack[p])
            ELSE IF Calls(p) THEN Append(stack[p], p)
            ELSE stack[p]
  IN  stack

\* The frames of the analysed program nest: a node returns to the last call on
\* its path that has not returned yet (the returnNode of call, model and return).
CallStackKept ==
  LET stack == CallStack
  IN  \A n \in Ids :
        tree[n].returnNode = IF stack[n] = <<>> THEN NoNode ELSE Last(stack[n])

\* No alternative is lost: every node can be reached again from its parent in a
\* later round ("Executes all the possible paths"; left and right of a node).
NothingOrphaned == \A n \in Ids : Linked(n)

\* Two other answers to n's external call have taken both places below it, the
\* first answer among them.
Crowded(n) ==
  LET p == tree[n].prevId
      l == tree[p].left
      r == tree[p].right
  IN  /\ tree[p].block = NULL
      /\ {l, r} \subseteq Ids
      /\ l # r /\ l < n
      /\ tree[l].prevId = p /\ tree[r].prevId = p

\* What a node can lose is bounded: of the branches of a program none, of the
\* answers of a user's model only a third or later one, and never the first
\* (the loop over new_blocks, in which all but child 0 overwrite right).
OnlyAnswersLost == \A n \in Ids : Linked(n) \/ Crowded(n)

\* The loop bound: on a path, no call of a function enters a block by a branch more
\* than once per allowed execution and once more ("for constraining iterations of
\* loops").
LoopBounded ==
  \A n \in Ids : \A b \in Blocks :
    Cardinality({m \in Path[n] : /\ tree[m].block = b /\ ByBranch(m)
                                /\ tree[m].returnNode = tree[n].returnNode})
      <= maxExecutions + 1

\* Loops the bound works for: the block a jump from b goes back to begins with a
\* condition, and leaves the loop for a block that comes after b.
ClosesLoop(rank, b, head) ==
  /\ Code[head] # <<>>
  /\ Code[head][1].op = "cond"
  /\ rank[b] < rank[Code[head][1].succ[2]]

\* The blocks of the program are in the order rank, but for the jumps of such loops.
OrderedBy(rank) ==
  \A b \in Blocks : \A s \in ToSet(Code[b]) :
    /\ s.op = "cond" => \A c \in ToSet(s.succ) : rank[b] < rank[c]
    /\ s.op = "jump" => LET c == s.succ[1]
                       IN  IF Backwards(b, c) THEN ClosesLoop(rank, b, c) ELSE rank[b] < rank[c]

\* A second branch that cannot be taken is a dead end: it never gets children,
\* whatever rounds reach it (setSATInfo and the satInfo tests of the loop).
SecondBranchPruned ==
  \A n \in Ids \ {0} :
    LET p == tree[tree[n].prevId]
    IN  /\ p.right = n
        /\ p.block # NULL
        /\ tree[n].never \/ tree[n].cons = "unsat"
        => tree[n].left = NoNode /\ tree[n].right = NoNode

\* "if it can be determined that only the 'Then' block should be executed then
\* only the 'Then' block is returned.  Similarly for the else block": no block
\* is executed on a branch that a constant condition or the solver rules out.
OnlyDeterminedBlock ==
  \A n \in Ids :
    tree[n].never \/ tree[n].cons = "unsat" => tree[n].left = NoNode

\* What a node has become stays: an executed node keeps its children and is
\* never executed again, in whatever round the user comes back to it.
ExecutedIsFinal ==
  [][\A n \in Ids : tree[n].isExecuted =>
       /\ tree'[n].isExecuted
       /\ tree'[n].left = tree[n].left
       /\ tree'[n].right = tree[n].right
       /\ tree'[n].ip = tree[n].ip]_vars

Executes(n) == ~tree[n].isExecuted /\ tree'[n].isExecuted

\* A round executes only nodes below the one the user clicked, and none that
\* lies in or, on that path, behind an excluded block.
RoundStaysInside ==
  [][\A n \in Ids : Executes(n) =>
       /\ InFocus(n)
       /\ \A m \in BelowFocus(n) : tree[m].block \notin excludedNodes]_vars

\* A round comes to an end: the executor goes back to sleep (the loop bound
\* makes the trees of while-loops finite).
RoundEnds == (pc = "step") ~> (pc \in {"asleep", "getModel"})

\* The exploration implements the guided search ("Symbolically execute blocks
\* till its out of instructions on how to proceed and then waits").
Search == INSTANCE GuidedSearch
            WITH parent <- [n \in Ids |-> tree[n].prevId],
                 explored <- {n \in Ids : tree[n].isExecuted},
                 page <- shown,
                 turn <- IF pc \in {"round", "step"} THEN "engine" ELSE "user"
GuidesSearch == Search!Spec
=============================================================================
