------------------------------ MODULE WebServer ------------------------------
(***************************************************************************)
(* The web server (src/src/webserver/app.js) as one of its sessions sees   *)
(* it.  It compiles the sample the user chooses (makeBitCodeFile), passes  *)
(* the page's requests on to the executor process, and keeps the latest    *)
(* reply of the executor in a slot, toSend[fileId], until a request of the *)
(* page fetches it.  node.js runs one callback at a time: each is a step.  *)
(***************************************************************************)
EXTENDS Integers, Sequences, SequencesExt

CONSTANTS
  MaxUploads  \* bound: files compiled, for this session and for others

ASSUME UploadsAssumption == MaxUploads \in Nat

None == 0

VARIABLES
  uploads,   \* the calls of makeBitCodeFile; the position is the random file name
  bcFile,    \* the global bcFile
  file,      \* req.session.file, or None
  together,  \* history: the uploads under way together with the session's own
  toSend,    \* toSend[fileId], Nothing if null
  written,   \* messages on the connection to the executor process
  received,  \* replies on the connection from it
  requests,  \* the AJAX requests of the page; the position is their number
  down       \* an exception ended the server

uploadVars == <<uploads, bcFile, file, together>>
serverVars == <<toSend, written, received, down>>

\* node: its id; call: it is an external call that needs a model.
Nodes == [node : Nat, parent : Int, call : BOOLEAN]

\* request: the number of the request a reply answers (the code has no such
\* number).  "broken" is a reply of type 200 without nodes.
Replies == [kind : {"functions", "nodes", "lines", "broken"}, request : Nat, nodes : Seq(Nodes)]
Nothing == [kind |-> "nothing", request |-> 0, nodes |-> <<>>]

Messages == [kind : {"functions", "next", "lines", "node", "model"}, request : Nat, arg : Int]

\* at: "sent" (on its way to the server), "answered" (response on its way back),
\* "timer" (the page asks again in a second) or "ended".
Requests == [kind : {"functions", "next", "lines", "node", "model"}, arg : Int,
             ping : BOOLEAN, at : {"sent", "answered", "timer", "ended"},
             response : Replies \cup {Nothing}]

ServerInit ==
  /\ uploads = <<>> /\ bcFile = None /\ file = None /\ together = {}
  /\ toSend = Nothing /\ written = <<>> /\ received = <<>> /\ requests = <<>>
  /\ down = FALSE

-----------------------------------------------------------------------------
(* makeBitCodeFile: three callbacks, of which the last resolves the promise *)
(* with whatever the global names by then.                                  *)

UnderWay(k) == uploads[k].at \in {"reading", "writing", "compiling"}

Upload(mine) ==
  /\ Len(uploads) < MaxUploads
  /\ uploads' = Append(uploads, [mine |-> mine, at |-> "reading"])
  /\ together' = together \cup
       {k \in 1..Len(uploads) : mine /\ UnderWay(k)} \cup
       (IF \E k \in 1..Len(uploads) : uploads[k].mine /\ UnderWay(k)
          THEN {Len(uploads) + 1} ELSE {})
  /\ UNCHANGED <<bcFile, file>>

ReadSource(k) ==
  /\ uploads[k].at = "reading"
  /\ uploads' = [uploads EXCEPT ![k].at = "writing"]
  /\ UNCHANGED <<bcFile, file, together>>

\* Slip: the name is kept from the first upload.
SourceWritten_Once(k) ==
  /\ uploads[k].at = "writing"
  /\ uploads' = [uploads EXCEPT ![k].at = "compiling"]
  /\ bcFile' = IF bcFile = None THEN k ELSE bcFile
  /\ UNCHANGED <<file, together>>

SourceWritten(k) ==
  /\ uploads[k].at = "writing"
  /\ uploads' = [uploads EXCEPT ![k].at = "compiling"]
  /\ bcFile' = k
  /\ UNCHANGED <<file, together>>

\* The handler of /sample goes on: the session gets the file, the page the source.
Compiled(k) ==
  /\ uploads[k].at = "compiling"
  /\ uploads' = [uploads EXCEPT ![k].at = "done"]
  /\ file' = IF uploads[k].mine THEN bcFile ELSE file
  /\ UNCHANGED <<bcFile, together>>

\* The promise is rejected, which nobody handles: the page gets no response.
CompileFails(k) ==
  /\ uploads[k].at = "compiling"
  /\ uploads' = [uploads EXCEPT ![k].at = "failed"]
  /\ UNCHANGED <<bcFile, file, together>>

UploadStep(k) == ReadSource(k) \/ SourceWritten(k) \/ Compiled(k) \/ CompileFails(k)

-----------------------------------------------------------------------------
(* The handlers of the page's requests.                                    *)

Arrives(r, kinds) == ~down /\ requests[r].at = "sent" /\ requests[r].kind \in kinds

Respond(r, response) ==
  requests' = [requests EXCEPT ![r].at = "answered", ![r].response = response]

\* client.write, unless the page only asks again.
PassOn(r) ==
  written' = IF requests[r].ping THEN written
             ELSE Append(written, [kind |-> requests[r].kind, request |-> r,
                                   arg |-> requests[r].arg])

\* Slip: the slot keeps the reply.
Fetch_Keep(r) == Respond(r, toSend) /\ UNCHANGED toSend

\* Whoever asks first gets the reply, and the slot is null again.
Fetch(r) == Respond(r, toSend) /\ toSend' = Nothing

\* /next: an instruction, too, takes along what is in the slot.
HandleNext(r) ==
  /\ Arrives(r, {"next"})
  /\ PassOn(r) /\ Fetch(r)
  /\ UNCHANGED <<received, down>>

\* Slip: a ping, too, is answered with {}.
HandleMetadata_NoFetch(r) ==
  /\ Arrives(r, {"functions"})
  /\ PassOn(r) /\ Respond(r, Nothing)
  /\ UNCHANGED <<toSend, received, down>>

\* /metadata: a request for the function names (type 300).
HandleMetadata(r) ==
  /\ Arrives(r, {"functions"})
  /\ PassOn(r) /\ Fetch(r)
  /\ UNCHANGED <<received, down>>

\* /constraints: a model is answered with {} at once.
HandleConstraints(r) ==
  /\ Arrives(r, {"model"})
  /\ PassOn(r)
  /\ IF requests[r].ping THEN Fetch(r) ELSE Respond(r, Nothing) /\ UNCHANGED toSend
  /\ UNCHANGED <<received, down>>

\* /exclude: {} at once.  The second res.send throws, before the slot is cleared,
\* and express catches it.
HandleExclude(r) ==
  /\ Arrives(r, {"lines", "node"})
  /\ PassOn(r)
  /\ IF requests[r].ping THEN Fetch(r) ELSE Respond(r, Nothing) /\ UNCHANGED toSend
  /\ UNCHANGED <<received, down>>

Handle(r) == HandleNext(r) \/ HandleMetadata(r) \/ HandleConstraints(r) \/ HandleExclude(r)

\* The data event.  A reply replaces one that has not been fetched; data.length of
\* a reply of type 200 without nodes throws, and nothing catches that.
Data ==
  /\ ~down
  /\ received # <<>>
  /\ received' = Tail(received)
  /\ IF Head(received).kind = "broken"
       THEN down' = TRUE /\ UNCHANGED toSend
       ELSE toSend' = Head(received) /\ UNCHANGED down
  /\ UNCHANGED <<written, requests>>

ServerTypeOK ==
  /\ uploads \in Seq([mine : BOOLEAN, at : {"reading", "writing", "compiling", "done", "failed"}])
  /\ bcFile \in Nat /\ file \in Nat
  /\ together \subseteq Nat
  /\ toSend \in Replies \cup {Nothing}
  /\ written \in Seq(Messages)
  /\ received \in Seq(Replies)
  /\ requests \in Seq(Requests)
  /\ down \in BOOLEAN
=============================================================================
