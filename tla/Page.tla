-------------------------------- MODULE Page --------------------------------
(***************************************************************************)
(* The web page (src/src/webserver/public/scripts/graph.js) on top of the  *)
(* web server.  Every button sends a request; its callback draws what the  *)
(* response holds or asks again in a second.  Any number of such loops run *)
(* side by side, and nothing in a response says whose answer it is.        *)
(***************************************************************************)
EXTENDS WebServer

VARIABLES
  page,      \* "start" (choose a sample), "waiting" (for its source), "main"
  treeData,  \* the nodes the page has been given, in order
  drawn,     \* those attached to the root's tree, which have a circle
  excluded   \* nodes with excluded = true

pageVars == <<page, treeData, drawn, excluded>>

PageInit ==
  /\ page = "start"
  /\ treeData = <<>>
  /\ drawn = {}
  /\ excluded = {}

-----------------------------------------------------------------------------
(* What the user sees and can push.                                        *)

Asked(kind, arg) == \E r \in 1..Len(requests) : requests[r].kind = kind /\ requests[r].arg = arg

Quiet == \A r \in 1..Len(requests) : requests[r].at = "ended"

Shown == {treeData[i] : i \in {j \in 1..Len(treeData) : treeData[j].node \in drawn}}

\* checkForModel: the nodes whose alert still waits for a model.
Alerts == {n \in Shown : n.call /\ ~Asked("model", n.node)}

Send(kind, arg) ==
  /\ page = "main"
  /\ requests' = Append(requests, [kind |-> kind, arg |-> arg, ping |-> FALSE, at |-> "sent",
                                   response |-> Nothing])
  /\ UNCHANGED pageVars

\* uploadSample.
Submit ==
  /\ page = "start"
  /\ Upload(TRUE)
  /\ page' = "waiting"
  /\ UNCHANGED <<treeData, drawn, excluded, requests>>

\* Its callback: the source has come, /main is loaded, getFunctionNames asks.
Loaded ==
  /\ page = "waiting" /\ file # None
  /\ page' = "main"
  /\ requests' = Append(requests, [kind |-> "functions", arg |-> 0, ping |-> FALSE,
                                   at |-> "sent", response |-> Nothing])
  /\ UNCHANGED <<treeData, drawn, excluded>>

\* The button "Begin Symbolic Execution", which disappears: getNext().
Begin == ~Asked("next", -1) /\ Send("next", -1)

\* click: a double click on a circle; handleMenuOptions, with options of its own.
Click == \E n \in drawn \ excluded : Send("next", n)

\* excludeStatement: a double click on a line of the source.
ExcludeStatement == Send("lines", 0)

\* "Exclude" in the menu of a circle.
Exclude == \E n \in drawn \ excluded : Send("node", n)

\* "Add Model": getModelData, addModel.
AddModel == \E n \in Alerts : Send("model", n.node)

\* displayFunctionNames: a function's own "Add Model", whether or not the executor
\* asks for one.
AddModelForFunction ==
  /\ \E r \in 1..Len(requests) : requests[r].kind = "functions" /\ requests[r].at = "ended"
  /\ Send("model", -1)

-----------------------------------------------------------------------------
(* The callbacks.                                                          *)

\* addNode attaches a node to its parent if the page knows that one.
Attaches(nodes, j) ==
  \/ treeData = <<>> /\ j = 1
  \/ nodes[j].parent \in drawn \cup {nodes[i].node : i \in 1..(j - 1)}

\* Slips: the loop ends one node early; the circle is taken for the parent's.
AddNodes_ButLast(nodes) ==
  /\ treeData' = treeData \o SubSeq(nodes, 1, Len(nodes) - 1)
  /\ drawn' = drawn \cup {nodes[j].node : j \in 1..(Len(nodes) - 1)}

AddNodes_Parent(nodes) ==
  /\ treeData' = treeData \o nodes
  /\ drawn' = drawn \cup {nodes[j].parent : j \in 1..Len(nodes)}

\* A node without a circle breaks off the loop of addNodes: getElementById is null.
AddNodes(nodes) ==
  LET read == {j \in 1..Len(nodes) : \A i \in 1..(j - 1) : Attaches(nodes, i)}
  IN  /\ treeData' = treeData \o SubSeq(nodes, 1, Cardinality(read))
      /\ drawn' = drawn \cup {nodes[j].node : j \in {k \in read : Attaches(nodes, k)}}

Comes(r, kinds) == requests[r].at = "answered" /\ requests[r].kind \in kinds

Ends(r) == requests' = [requests EXCEPT ![r].at = "ended"]

AsksAgain(r) ==
  requests' = [requests EXCEPT ![r].at = "timer", ![r].ping = TRUE, ![r].response = Nothing]

\* Slip: they do not ask again.
DrawNodes_Once(r) ==
  /\ Comes(r, {"next", "model"})
  /\ AddNodes(requests[r].response.nodes) /\ Ends(r)
  /\ UNCHANGED <<page, excluded>>

\* getNext, addModel: they look for "completed".  Replies of other kinds are dropped.
DrawNodes(r) ==
  /\ Comes(r, {"next", "model"})
  /\ IF requests[r].response.kind = "nodes"
       THEN AddNodes(requests[r].response.nodes) /\ Ends(r)
       ELSE UNCHANGED <<treeData, drawn>> /\ AsksAgain(r)
  /\ UNCHANGED <<page, excluded>>

\* excludeStatement looks for minLine.
HighlightLines(r) ==
  /\ Comes(r, {"lines"})
  /\ IF requests[r].response.kind = "lines" THEN Ends(r) ELSE AsksAgain(r)
  /\ UNCHANGED pageVars

\* getFunctionNames looks for functions.
ListFunctions(r) ==
  /\ Comes(r, {"functions"})
  /\ IF requests[r].response.kind = "functions" THEN Ends(r) ELSE AsksAgain(r)
  /\ UNCHANGED pageVars

\* The drawn nodes at or below node n.
Below(n) ==
  LET parent(m) == (CHOOSE d \in Shown : d.node = m).parent
      below[m \in drawn] == m = n \/ (parent(m) \in drawn /\ parent(m) < m /\ below[parent(m)])
  IN  {m \in drawn : below[m]}

\* The menu's "Exclude" takes the first response and never asks again.
MarkExcluded(r) ==
  /\ Comes(r, {"node"})
  /\ excluded' = excluded \cup Below(requests[r].arg)
  /\ Ends(r)
  /\ UNCHANGED <<page, treeData, drawn>>

Callback(r) == DrawNodes(r) \/ HighlightLines(r) \/ ListFunctions(r) \/ MarkExcluded(r)

\* setTimeout: a second later.
Ping(r) ==
  /\ requests[r].at = "timer"
  /\ requests' = [requests EXCEPT ![r].at = "sent"]
  /\ UNCHANGED pageVars

PageTypeOK ==
  /\ page \in {"start", "waiting", "main"}
  /\ treeData \in Seq(Nodes)
  /\ drawn \subseteq Nat
  /\ excluded \subseteq drawn
=============================================================================
