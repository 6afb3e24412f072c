------------------------- MODULE MCSymbolicExecutor -------------------------
(* Instances of SymbolicExecutor: small control-flow graphs.               *)
EXTENDS SymbolicExecutor

split(op, succ) == [op |-> op, succ |-> succ]
lines(a, b) == [first |-> a, min |-> a, max |-> b]

Steps == {1, 2, -1}

\* SUT/hello.cpp in small: a branch whose "else" is a while loop; its body calls
\* another function of the program.
LoopBlocks == {"entry", "then", "head", "body", "end", "callee"}
LoopFunction == LoopBlocks \ {"callee"}
LoopCode ==
  [entry  |-> <<split("cond", <<"then", "head">>)>>,
   then   |-> <<split("jump", <<"end">>)>>,
   head   |-> <<split("cond", <<"body", "end">>)>>,
   body   |-> <<split("call", <<"callee">>), split("jump", <<"head">>)>>,
   end    |-> <<split("ret", <<>>)>>,
   callee |-> <<split("ret", <<>>)>>]
LoopSpan ==
  [entry |-> lines(1, 2), then |-> lines(3, 3), head |-> lines(4, 4),
   body |-> lines(5, 5), end |-> lines(6, 6), callee |-> lines(8, 8)]

\* External calls: one in the analysed function, one in a function it calls.
ModelBlocks == {"entry", "ask", "other", "callee"}
ModelFunction == ModelBlocks \ {"callee"}
ModelCode ==
  [entry  |-> <<split("cond", <<"ask", "other">>)>>,
   ask    |-> <<split("extern", <<>>), split("ret", <<>>)>>,
   other  |-> <<split("call", <<"callee">>), split("ret", <<>>)>>,
   callee |-> <<split("extern", <<>>), split("ret", <<>>)>>]
ModelSpan ==
  [entry |-> lines(1, 2), ask |-> lines(3, 3), other |-> lines(4, 4),
   callee |-> lines(8, 8)]

\* SUT/isPrime.cpp in small: clang gives the increment of a for loop the line
\* of its condition.
ForBlocks == {"entry", "cond", "body", "inc", "end"}
ForCode ==
  [entry |-> <<split("jump", <<"cond">>)>>,
   cond  |-> <<split("cond", <<"body", "end">>)>>,
   body  |-> <<split("jump", <<"inc">>)>>,
   inc   |-> <<split("jump", <<"cond">>)>>,
   end   |-> <<split("ret", <<>>)>>]
ForSpan ==
  [entry |-> lines(1, 3), cond |-> lines(3, 3), body |-> lines(5, 5),
   inc |-> lines(3, 3), end |-> lines(8, 8)]

\* The first two programs are in order, the one with the for loop is not: its
\* increment lies on the line of the condition.
ASSUME OrderAssumption ==
  (\E rank \in [Blocks -> 1..Cardinality(Blocks)] : OrderedBy(rank)) <=> Code # ForCode
=============================================================================
