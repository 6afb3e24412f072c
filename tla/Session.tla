------------------------------- MODULE Session -------------------------------
(***************************************************************************)
(* One session from the user to the executor and back: the page, the web   *)
(* server, and the executor of the session's file behind its connection.   *)
(* Of the executor only the turns are kept, which modules JsonReader and   *)
(* SymbolicExecutor describe: it takes an instruction when it sleeps,      *)
(* misses one when it does not, and answers each it takes once.            *)
(***************************************************************************)
EXTENDS Page

CONSTANTS
  MaxNodes,    \* bound: nodes of the executor's tree
  MaxRequests, \* bound: requests of the page, with a user who does not wait
  MaxPatient   \* the same with a patient user

ASSUME SessionAssumption ==
  MaxNodes \in Nat /\ MaxRequests \in Nat \ {0} /\ MaxPatient \in Nat \ {0}

VARIABLES
  patient,  \* the user waits for the page before the next request (see MayAsk)
  executor, \* "none", "computing", "replied" or "asks" (it has sent its reply and is
            \* about to wait, in getModel if it asks), "asleep", "model" (in getModel)
  doing,    \* the message it works on, or worked on last
  owed,     \* the kind of reply it owes
  started,  \* it has taken an instruction after the function names
  reported, \* the nodes it has reported, in order; the ids are 0, 1, ...
  missed,   \* history: the requests whose message it has not taken
  dead      \* the executor process has died

executorVars == <<executor, doing, owed, started, reported, missed, dead>>
vars == <<uploadVars, serverVars, requests, pageVars, patient, executorVars>>

NoMessage == [kind |-> "functions", request |-> 0, arg |-> 0]

Init ==
  /\ ServerInit /\ PageInit
  /\ patient \in BOOLEAN
  /\ executor = "none" /\ doing = NoMessage /\ owed = "functions"
  /\ started = FALSE /\ reported = <<>> /\ missed = {} /\ dead = FALSE

-----------------------------------------------------------------------------
(* The executor.                                                           *)

TakeMessage ==
  /\ ~dead
  /\ written # <<>>
  /\ written' = Tail(written)
  /\ UNCHANGED <<toSend, received, down, requests, uploadVars, pageVars, patient, reported>>

Compute(kind) ==
  executor' = "computing" /\ doing' = Head(written) /\ owed' = kind /\ UNCHANGED missed

\* The first message of a session starts its executor, which sends the functions.
StartExecutor ==
  /\ TakeMessage /\ executor = "none"
  /\ Compute("functions")
  /\ UNCHANGED <<started, dead>>

\* Slip: each instruction is taken for the first.
Explore_First ==
  /\ TakeMessage /\ executor = "asleep"
  /\ \/ Head(written).kind = "next" /\ Compute("nodes")
     \/ Head(written).kind \in {"lines", "node"} /\ ~started /\ Compute("broken")
  /\ UNCHANGED <<started, dead>>

\* A round.  It also follows the first instruction if that is an exclusion, but
\* then the reply has no nodes.
Explore ==
  /\ TakeMessage /\ executor = "asleep"
  /\ \/ Head(written).kind = "next" /\ Compute("nodes")
     \/ Head(written).kind \in {"lines", "node"} /\ ~started /\ Compute("broken")
  /\ started' = TRUE
  /\ UNCHANGED dead

IsCall(n) == \E i \in 1..Len(reported) : reported[i].node = n /\ reported[i].call

\* exclude.  The node of an external call has no block: the process dies.
ExcludeBlocks ==
  /\ TakeMessage /\ executor = "asleep" /\ started
  /\ Head(written).kind \in {"lines", "node"}
  /\ IF Head(written).kind = "node" /\ IsCall(Head(written).arg)
       THEN dead' = TRUE /\ UNCHANGED <<executor, doing, owed, missed>>
       ELSE Compute("lines") /\ UNCHANGED dead
  /\ UNCHANGED started

\* setExecutionVars on a model: stoi throws.
UnexpectedModel ==
  /\ TakeMessage /\ executor = "asleep" /\ Head(written).kind = "model"
  /\ dead' = TRUE
  /\ UNCHANGED <<executor, doing, owed, started, missed>>

\* getModel: whatever comes passes for a model, and the round goes on.
GoOn ==
  /\ TakeMessage /\ executor = "model"
  /\ Compute("nodes")
  /\ UNCHANGED <<started, dead>>

\* It notifies nobody, or the message after it replaces it before the executor
\* has read it.
Miss ==
  /\ TakeMessage
  /\ \/ executor \in {"computing", "replied", "asks"}
     \/ executor \in {"asleep", "model"} /\ Len(written) > 1
  /\ missed' = missed \cup {Head(written).request}
  /\ UNCHANGED <<executor, doing, owed, started, dead>>

Message == StartExecutor \/ Explore \/ ExcludeBlocks \/ UnexpectedModel \/ GoOn \/ Miss

\* sendMessageAndSleep: the reply goes out before the executor locks and waits.
Reply(nodes) ==
  /\ ~dead /\ executor = "computing"
  /\ received' = Append(received, [kind |-> owed, request |-> doing.request, nodes |-> nodes])
  /\ UNCHANGED <<toSend, written, down, requests, uploadVars, pageVars, patient, doing, owed,
                 started, missed, dead>>

\* A reply without nodes: the executor goes on to wait for another instruction.
ReplyPlain ==
  /\ owed # "nodes"
  /\ Reply(<<>>)
  /\ executor' = "replied"
  /\ UNCHANGED reported

\* What a round adds: any number of nodes.  An external call ends the report, and
\* the executor asks for the model.
NewNodes(k, parents, asks) ==
  [i \in 1..k |-> [node |-> Len(reported) + i - 1, parent |-> parents[i],
                   call |-> asks /\ i = k]]

\* The first node has no parent, each other one comes after its parent.
Parents(k) ==
  {parents \in [1..k -> -1..(MaxNodes - 1)] : \A i \in 1..k :
     LET id == Len(reported) + i - 1
     IN  IF id = 0 THEN parents[i] = -1 ELSE parents[i] \in 0..(id - 1)}

ReplyNodes ==
  /\ owed = "nodes"
  /\ \E k \in 0..(MaxNodes - Len(reported)), asks \in BOOLEAN :
       /\ reported = <<>> \/ asks => k > 0
       /\ \E parents \in Parents(k) :
            /\ Reply(NewNodes(k, parents, asks))
            /\ reported' = reported \o NewNodes(k, parents, asks)
       /\ executor' = IF asks THEN "asks" ELSE "replied"

\* cv.wait.
FallAsleep ==
  /\ ~dead /\ executor \in {"replied", "asks"}
  /\ executor' = IF executor = "asks" THEN "model" ELSE "asleep"
  /\ UNCHANGED <<serverVars, requests, uploadVars, pageVars, patient, doing, owed, started,
                 reported, missed, dead>>

-----------------------------------------------------------------------------
(* The whole.                                                              *)

\* A patient user begins first, waits until every loop of the page has ended, and
\* answers an alert with a model.  The loop that excludes a node ends at once, long
\* before the executor has dealt with it.
MayAsk(kind) ==
  /\ Len(requests) < IF patient THEN MaxPatient ELSE MaxRequests
  /\ patient => /\ Quiet
                /\ (kind = "model") <=> (Alerts # {})
                /\ kind = "lines" => Asked("next", -1)

User ==
  /\ \/ MayAsk("next") /\ (Begin \/ Click)
     \/ MayAsk("lines") /\ ExcludeStatement
     \/ MayAsk("node") /\ Exclude
     \/ MayAsk("model") /\ AddModel
     \/ ~patient /\ MayAsk("model") /\ AddModelForFunction
  /\ UNCHANGED <<uploadVars, serverVars, patient, executorVars>>

ChooseSample ==
  /\ Submit
  /\ UNCHANGED <<serverVars, patient, executorVars>>

\* Bound: a session is followed further if nobody else uploads; nothing it does
\* from here on reads what uploads change.
LoadPage ==
  /\ Loaded /\ Len(uploads) = 1
  /\ UNCHANGED <<uploadVars, serverVars, patient, executorVars>>

Compile ==
  /\ \E k \in 1..Len(uploads) : UploadStep(k)
  /\ UNCHANGED <<requests, pageVars, serverVars, patient, executorVars>>

OtherUpload ==
  /\ page # "main"
  /\ Upload(FALSE)
  /\ UNCHANGED <<requests, pageVars, serverVars, patient, executorVars>>

ServerHandles ==
  /\ \E r \in 1..Len(requests) : Handle(r)
  /\ UNCHANGED <<uploadVars, pageVars, patient, executorVars>>

ServerReceives ==
  /\ Data
  /\ UNCHANGED <<uploadVars, pageVars, patient, executorVars>>

PageStep(r) ==
  /\ Callback(r) \/ Ping(r)
  /\ UNCHANGED <<uploadVars, serverVars, patient, executorVars>>

PageSteps == \E r \in 1..Len(requests) : PageStep(r)

Next ==
  \/ User \/ ChooseSample \/ LoadPage \/ Compile \/ OtherUpload
  \/ ServerHandles \/ ServerReceives
  \/ PageSteps \/ Message \/ ReplyPlain \/ ReplyNodes \/ FallAsleep

Spec == Init /\ [][Next]_vars

\* The page's callbacks and timers run, the server serves what arrives, and the
\* executor reads, computes and waits; nothing makes the user act or a compiler end.
FairSpec ==
  /\ Spec
  /\ WF_vars(PageSteps)
  /\ WF_vars(ServerHandles)
  /\ WF_vars(ServerReceives)
  /\ WF_vars(Message)
  /\ WF_vars(ReplyPlain \/ ReplyNodes \/ FallAsleep)

-----------------------------------------------------------------------------
(* Properties.                                                             *)

\* Types of the variables.
TypeOK ==
  /\ ServerTypeOK /\ PageTypeOK
  /\ patient \in BOOLEAN
  /\ executor \in {"none", "computing", "replied", "asks", "asleep", "model"}
  /\ doing \in Messages
  /\ owed \in {"functions", "nodes", "lines", "broken"}
  /\ started \in BOOLEAN
  /\ reported \in Seq(Nodes)
  /\ missed \subseteq Nat
  /\ dead \in BOOLEAN

\* The replies that have not been dealt with: on the connection, in the slot, or
\* on their way to the page.
Pending ==
  {received[i] : i \in 1..Len(received)} \cup {toSend}
  \cup {requests[r].response : r \in {q \in 1..Len(requests) : requests[q].at = "answered"}}

\* Whatever the user does and however loops overtake each other, no report
\* reaches the page twice and the page invents nothing: a node the page has been
\* given is in no pending reply, and in treeData once, as the executor sent it.
NothingTwice ==
  /\ \A i, j \in 1..Len(treeData) : treeData[i].node = treeData[j].node => i = j
  /\ \A i \in 1..Len(treeData) : treeData[i] \in Range(reported)
  /\ \A reply \in Pending : \A i \in 1..Len(reply.nodes) :
       reply.nodes[i] \in Range(reported) \ Range(treeData)

\* With a patient user the page's tree follows the executor's: it is what has been
\* reported before the reply that is still on its way, in order, and every node of
\* it is drawn.
TreeFollows ==
  patient =>
    /\ drawn = {treeData[i].node : i \in 1..Len(treeData)}
    /\ \/ treeData = reported
       \/ \E reply \in Pending : treeData \o reply.nodes = reported

ExcludesBlocks(r) == requests[r].kind \in {"lines", "node"}

\* A loop that ends with a reply ends with the reply to its own request; only one
\* that looks for lines may take the reply to an exclusion asked for before.
EndsRightly(r) ==
  CASE ~ExcludesBlocks(r) -> requests[r].response.request = r
    [] requests[r].kind = "lines" ->
         requests[r].response.request \in {q \in 1..r : ExcludesBlocks(q)}
    [] OTHER -> requests[r].response = Nothing

\* Though nothing in a reply names the request, the loops of a patient user end
\* rightly.
OwnReply ==
  patient => \A r \in 1..Len(requests) : requests[r].at = "ended" => EndsRightly(r)

ExcludedCall ==
  \E r \in 1..Len(requests) : requests[r].kind = "node" /\ IsCall(requests[r].arg)

\* A patient user ends neither the server nor the executor process, unless by
\* excluding the node of an external call.
StaysUp ==
  patient => ~down /\ (dead => ExcludedCall)

\* The session gets a file that has been compiled: its own, or one whose upload was
\* under way together with its own.
OwnFile ==
  file # None => \E k \in 1..Len(uploads) :
    uploads[k].mine /\ uploads[k].at = "done" /\ file \in {k} \cup together

\* Every loop of a patient user ends, unless the executor has missed its message, or
\* has died.
LoopsEnd ==
  (patient /\ ~Quiet) ~>
    (Quiet \/ dead \/ \E r \in missed : requests[r].at # "ended")
=============================================================================
