---------------------------- MODULE Session_proofs ----------------------------
(***************************************************************************)
(* Proofs about Session, for any user, any number of requests and nodes.   *)
(***************************************************************************)
EXTENDS Session, FiniteSetTheorems, TLAPS

-----------------------------------------------------------------------------
(* Sequences.                                                              *)

LEMMA TailOf ==
  ASSUME NEW S, NEW q \in Seq(S), q # <<>>
  PROVE  /\ Tail(q) \in Seq(S) /\ Head(q) \in S /\ Head(q) = q[1]
         /\ Len(q) \in Nat \ {0} /\ Len(Tail(q)) = Len(q) - 1
         /\ \A k \in 1..(Len(q) - 1) : Tail(q)[k] = q[k + 1]
OBVIOUS

LEMMA AppendTo ==
  ASSUME NEW S, NEW q \in Seq(S), NEW x \in S
  PROVE  /\ Append(q, x) \in Seq(S)
         /\ Len(q) \in Nat /\ Len(Append(q, x)) = Len(q) + 1
         /\ \A k \in 1..Len(q) : Append(q, x)[k] = q[k]
         /\ Append(q, x)[Len(q) + 1] = x
OBVIOUS

LEMMA ChangeAt ==
  ASSUME NEW S, NEW q \in Seq(S), NEW i \in 1..Len(q), NEW x \in S
  PROVE  LET r == [q EXCEPT ![i] = x]
         IN  /\ r \in Seq(S) /\ Len(r) = Len(q)
             /\ r[i] = x /\ \A j \in 1..Len(q) : j # i => r[j] = q[j]
OBVIOUS

LEMMA Joined ==
  ASSUME NEW S, NEW s \in Seq(S), NEW t \in Seq(S)
  PROVE  /\ s \o t \in Seq(S)
         /\ Len(s) \in Nat /\ Len(t) \in Nat /\ Len(s \o t) = Len(s) + Len(t)
         /\ \A k \in 1..Len(s) : (s \o t)[k] = s[k]
         /\ \A k \in 1..Len(t) : (s \o t)[Len(s) + k] = t[k]
OBVIOUS

LEMMA FrontPart ==
  ASSUME NEW S, NEW s \in Seq(S), NEW n \in 0..Len(s)
  PROVE  /\ SubSeq(s, 1, n) \in Seq(S) /\ Len(SubSeq(s, 1, n)) = n
         /\ \A k \in 1..n : SubSeq(s, 1, n)[k] = s[k]
OBVIOUS

-----------------------------------------------------------------------------
(* The file of a session.                                                  *)

UploadType == [mine : BOOLEAN, at : {"reading", "writing", "compiling", "done", "failed"}]

\* What is under way together with the session's own upload is in together; the
\* global names it or the own upload once that is written, and so does the
\* session's file.
FileInv ==
  /\ uploads \in Seq(UploadType)
  /\ bcFile \in Nat /\ file \in Nat /\ together \subseteq Nat
  /\ \A j, k \in 1..Len(uploads) :
       uploads[k].mine /\ UnderWay(k) /\ UnderWay(j) => j \in {k} \cup together
  /\ \A k \in 1..Len(uploads) :
       uploads[k].mine /\ uploads[k].at = "compiling" => bcFile \in {k} \cup together
  /\ file # None => \E k \in 1..Len(uploads) :
       uploads[k].mine /\ uploads[k].at = "done" /\ file \in {k} \cup together

LEMMA UploadStarts ==
  ASSUME FileInv, NEW mine \in BOOLEAN, Upload(mine)
  PROVE  FileInv'
<1>1. PICK x : x = [mine |-> mine, at |-> "reading"]
  OBVIOUS
<1>2. x \in UploadType /\ uploads \in Seq(UploadType) /\ uploads' = Append(uploads, x)
  BY <1>1 DEF UploadType, FileInv, Upload
<1>3. PICK n : n = Len(uploads)
  OBVIOUS
<1>4. /\ uploads' \in Seq(UploadType) /\ n \in Nat /\ Len(uploads') = n + 1
      /\ \A k \in 1..n : uploads'[k] = uploads[k]
      /\ uploads'[n + 1] = x
  BY <1>2, <1>3, AppendTo
<1>5. \A k \in 1..(n + 1) : k \in 1..n \/ k = n + 1
  BY <1>4
<1>6. /\ bcFile' = bcFile /\ file' = file /\ together' \subseteq Nat /\ together \subseteq together'
      /\ \A k \in 1..n : mine /\ UnderWay(k) => k \in together'
      /\ \A k \in 1..n : uploads[k].mine /\ UnderWay(k) => n + 1 \in together'
  <2>1. PICK A, B : /\ A = {k \in 1..n : mine /\ UnderWay(k)}
                    /\ B = IF \E k \in 1..n : uploads[k].mine /\ UnderWay(k) THEN {n + 1} ELSE {}
    OBVIOUS
  <2>2. together' = together \cup A \cup B /\ bcFile' = bcFile /\ file' = file
    BY <1>3, <2>1 DEF Upload
  <2>3. A \subseteq Nat /\ B \subseteq Nat
    BY <1>4, <2>1
  <2>4. together \subseteq Nat
    BY DEF FileInv
  <2>5. \A k \in 1..n : mine /\ UnderWay(k) => k \in A
    BY <2>1
  <2>6. \A k \in 1..n : uploads[k].mine /\ UnderWay(k) => n + 1 \in B
    BY <2>1
  <2> QED BY <2>2, <2>3, <2>4, <2>5, <2>6
<1>7. /\ \A k \in 1..n : uploads'[k].mine = uploads[k].mine /\ (UnderWay(k)' <=> UnderWay(k))
      /\ uploads'[n + 1].mine = mine /\ uploads'[n + 1].at = "reading"
  BY <1>1, <1>4 DEF UnderWay
<1>8. \A j, k \in 1..(n + 1) :
        uploads'[k].mine /\ UnderWay(k)' /\ UnderWay(j)' => j \in {k} \cup together'
  BY <1>3, <1>5, <1>6, <1>7 DEF FileInv
<1>9. \A k \in 1..(n + 1) :
        uploads'[k].mine /\ uploads'[k].at = "compiling" => bcFile' \in {k} \cup together'
  BY <1>3, <1>4, <1>5, <1>6, <1>7 DEF FileInv
<1>10. ASSUME file' # None
       PROVE  \E k \in 1..(n + 1) :
                uploads'[k].mine /\ uploads'[k].at = "done" /\ file' \in {k} \cup together'
  <2>1. PICK k \in 1..n : uploads[k].mine /\ uploads[k].at = "done" /\ file \in {k} \cup together
    BY <1>3, <1>6, <1>10 DEF FileInv
  <2>2. k \in 1..(n + 1)
    BY <1>4
  <2> QED BY <1>4, <1>6, <2>1, <2>2
<1> QED BY <1>4, <1>6, <1>8, <1>9, <1>10 DEF FileInv

\* One callback of makeBitCodeFile: the upload moves on, and what it does to the
\* global and the session's file keeps them right.
LEMMA UploadMoves ==
  ASSUME FileInv, NEW k \in 1..Len(uploads), UploadStep(k)
  PROVE  FileInv'
<1>1. PICK state \in {"writing", "compiling", "done", "failed"} :
        /\ uploads' = [uploads EXCEPT ![k].at = state]
        /\ UnderWay(k) /\ together' = together
        /\ state = "compiling" => bcFile' = k
        /\ state # "compiling" => bcFile' = bcFile
        /\ state = "done" => uploads[k].at = "compiling"
        /\ file' = IF state = "done" /\ uploads[k].mine THEN bcFile ELSE file
  BY DEF UploadStep, ReadSource, SourceWritten, Compiled, CompileFails, UnderWay
<1>2. uploads \in Seq(UploadType) /\ uploads[k] \in UploadType
  BY DEF FileInv
<1>3. PICK x \in UploadType : x.mine = uploads[k].mine /\ x.at = state /\ x = [uploads[k] EXCEPT !.at = state]
  BY <1>2 DEF UploadType
<1>4. uploads' = [uploads EXCEPT ![k] = x]
  BY <1>1, <1>3
<1>5. /\ uploads' \in Seq(UploadType) /\ Len(uploads') = Len(uploads)
      /\ uploads'[k] = x /\ \A j \in 1..Len(uploads) : j # k => uploads'[j] = uploads[j]
  BY <1>2, <1>4, ChangeAt
<1>6. bcFile' \in Nat /\ file' \in Nat /\ together' \subseteq Nat
  <2>1. k \in Nat
    BY <1>2
  <2> QED BY <1>1, <2>1 DEF FileInv
<1>7. \A j \in 1..Len(uploads) :
        uploads'[j].mine = uploads[j].mine /\ (UnderWay(j)' => UnderWay(j))
  BY <1>1, <1>3, <1>5 DEF UnderWay
<1>8. \A i, j \in 1..Len(uploads) :
        uploads'[j].mine /\ UnderWay(j)' /\ UnderWay(i)' => i \in {j} \cup together'
  BY <1>1, <1>7 DEF FileInv
<1>9. ASSUME NEW j \in 1..Len(uploads), uploads'[j].mine, uploads'[j].at = "compiling"
      PROVE  bcFile' \in {j} \cup together'
  <2>1. CASE state = "compiling"
    <3>1. UnderWay(j)'
      BY <1>9 DEF UnderWay
    <3>2. k \in {j} \cup together
      BY <1>1, <1>7, <1>9, <3>1 DEF FileInv
    <3> QED BY <1>1, <2>1, <3>2
  <2>2. CASE state # "compiling"
    <3>1. j # k
      BY <1>3, <1>5, <1>9, <2>2
    <3>2. bcFile \in {j} \cup together
      BY <1>5, <1>9, <3>1 DEF FileInv
    <3> QED BY <1>1, <2>2, <3>2
  <2> QED BY <2>1, <2>2
<1>10. ASSUME file' # None
       PROVE  \E j \in 1..Len(uploads) :
                uploads'[j].mine /\ uploads'[j].at = "done" /\ file' \in {j} \cup together'
  <2>1. CASE state = "done" /\ uploads[k].mine
    <3>1. file' \in {k} \cup together'
      BY <1>1, <2>1 DEF FileInv
    <3> QED BY <1>3, <1>5, <2>1, <3>1
  <2>2. CASE ~(state = "done" /\ uploads[k].mine)
    <3>1. PICK j \in 1..Len(uploads) :
            uploads[j].mine /\ uploads[j].at = "done" /\ file \in {j} \cup together
      BY <1>1, <1>10, <2>2 DEF FileInv
    <3>2. j # k
      BY <1>1, <3>1 DEF UnderWay
    <3> QED BY <1>1, <1>5, <2>2, <3>1, <3>2
  <2> QED BY <2>1, <2>2
<1> QED BY <1>5, <1>6, <1>8, <1>9, <1>10 DEF FileInv

LEMMA FileStep == ASSUME FileInv, [Next]_vars PROVE FileInv'
<1>1. ASSUME UNCHANGED uploadVars PROVE FileInv'
  BY <1>1 DEF FileInv, UnderWay, uploadVars
<1>2. CASE ChooseSample \/ OtherUpload
  BY <1>2, UploadStarts DEF ChooseSample, Submit, OtherUpload
<1>3. CASE Compile
  BY <1>3, UploadMoves DEF Compile
<1>4. CASE ~(ChooseSample \/ OtherUpload \/ Compile)
  <2>1. UNCHANGED uploadVars
    BY <1>4 DEF Next, vars, User, LoadPage, ServerHandles, ServerReceives, PageSteps, PageStep,
         Message, StartExecutor, Explore, ExcludeBlocks, UnexpectedModel, GoOn, Miss, TakeMessage,
         ReplyPlain, ReplyNodes, Reply, FallAsleep, uploadVars
  <2> QED BY <1>1, <2>1
<1> QED BY <1>2, <1>3, <1>4

LEMMA FileInitially == Init => FileInv
<1> SUFFICES ASSUME Init PROVE FileInv
  OBVIOUS
<1>1. uploads = <<>> /\ bcFile = 0 /\ file = 0 /\ together = {}
  BY DEF Init, ServerInit, None
<1>2. <<>> \in Seq(UploadType) /\ Len(uploads) = 0
  BY <1>1
<1>3. \A k \in 1..Len(uploads) : FALSE
  BY <1>2
<1>4. bcFile \in Nat /\ file \in Nat /\ together \subseteq Nat /\ ~(file # None)
  BY <1>1 DEF None
<1> QED BY <1>1, <1>2, <1>3, <1>4, Zenon DEF FileInv

\* However the callbacks of any number of uploads interleave, the session gets a
\* file only when its own has been compiled, and then its own or one whose upload
\* was under way together with it: the global bcFile (makeBitCodeFile) goes astray
\* no further than that.
THEOREM FileIsOwn == Spec => []OwnFile
<1>1. FileInv => OwnFile
  BY DEF FileInv, OwnFile
<1> QED BY <1>1, FileInitially, FileStep, PTL DEF Spec

-----------------------------------------------------------------------------
(* Types.                                                                  *)

LEMMA NothingType == Nothing \notin Replies /\ Nothing.nodes = <<>> /\ <<>> \in Seq(Nodes)
<1>1. \A y \in Replies : y.kind \in {"functions", "nodes", "lines", "broken"}
  BY DEF Replies
<1>2. Nothing.kind = "nothing" /\ Nothing.nodes = <<>> /\ Nothing.request = 0
  BY DEF Nothing
<1> QED BY <1>1, <1>2

LEMMA SlotType ==
  ASSUME NEW y \in Replies \cup {Nothing}
  PROVE  y.nodes \in Seq(Nodes) /\ y.request \in Nat
<1>1. CASE y \in Replies
  BY <1>1 DEF Replies
<1>2. CASE y = Nothing
  <2>1. y.nodes = <<>> /\ y.request = 0
    BY <1>2 DEF Nothing
  <2> QED BY <2>1, NothingType
<1> QED BY <1>1, <1>2

\* What a handler does to the requests and to the slot.
LEMMA HandleShape ==
  ASSUME ServerTypeOK, NEW r \in 1..Len(requests), Handle(r)
  PROVE  \E x \in Requests :
           /\ requests' = [requests EXCEPT ![r] = x]
           /\ requests[r].at = "sent" /\ x.at = "answered"
           /\ \/ x.response = toSend /\ toSend' = Nothing
              \/ x.response = Nothing /\ toSend' = toSend
           /\ written' \in Seq(Messages)
           /\ UNCHANGED <<received, down>>
<1>1. PICK y \in {toSend, Nothing} :
        /\ Respond(r, y)
        /\ \/ y = toSend /\ toSend' = Nothing
           \/ y = Nothing /\ toSend' = toSend
        /\ PassOn(r) /\ requests[r].at = "sent" /\ UNCHANGED <<received, down>>
  <2>1. CASE HandleNext(r) \/ HandleMetadata(r)
    BY <2>1 DEF HandleNext, HandleMetadata, Fetch, Arrives
  <2>2. CASE HandleConstraints(r)
    BY <2>2 DEF HandleConstraints, Fetch, Arrives
  <2>3. CASE HandleExclude(r)
    BY <2>3 DEF HandleExclude, Fetch, Arrives
  <2> QED BY <2>1, <2>2, <2>3 DEF Handle
<1>2. requests \in Seq(Requests) /\ requests[r] \in Requests /\ y \in Replies \cup {Nothing}
  BY DEF ServerTypeOK
<1>3. PICK x : x = [requests[r] EXCEPT !.at = "answered", !.response = y]
  OBVIOUS
<1>4. x \in Requests /\ x.at = "answered" /\ x.response = y
  BY <1>2, <1>3 DEF Requests
<1>5. requests' = [requests EXCEPT ![r] = x]
  BY <1>1, <1>2, <1>3 DEF Respond
<1>6. written' \in Seq(Messages)
  <2>1. PICK m : m = [kind |-> requests[r].kind, request |-> r, arg |-> requests[r].arg]
    OBVIOUS
  <2>2. m \in Messages
    BY <1>2, <2>1 DEF Requests, Messages
  <2>3. written \in Seq(Messages) /\ (written' = written \/ written' = Append(written, m))
    BY <1>1, <2>1 DEF PassOn, ServerTypeOK
  <2> QED BY <2>2, <2>3, AppendTo
<1> QED BY <1>1, <1>4, <1>5, <1>6

\* What a callback or a timer of the page does: it may draw part of the response.
LEMMA PageShape ==
  ASSUME ServerTypeOK, PageTypeOK, NEW r \in 1..Len(requests), Callback(r) \/ Ping(r)
  PROVE  /\ \E x \in Requests :
              /\ requests' = [requests EXCEPT ![r] = x]
              /\ x.at # "answered"
              /\ \/ UNCHANGED treeData
                 \/ /\ requests[r].at = "answered"
                    /\ \E n \in 0..Len(requests[r].response.nodes) :
                         treeData' = treeData \o SubSeq(requests[r].response.nodes, 1, n)
         /\ PageTypeOK'
<1>1. requests \in Seq(Requests) /\ requests[r] \in Requests
  BY DEF ServerTypeOK
<1>2. PICK x \in Requests : x.at # "answered" /\ requests' = [requests EXCEPT ![r] = x]
  <2>1. \/ Ends(r) \/ AsksAgain(r) \/ requests' = [requests EXCEPT ![r].at = "sent"]
    BY DEF Callback, DrawNodes, HighlightLines, ListFunctions, MarkExcluded, Ping
  <2>2. CASE Ends(r)
    <3>1. PICK x : x = [requests[r] EXCEPT !.at = "ended"]
      OBVIOUS
    <3>2. x \in Requests /\ x.at = "ended"
      BY <1>1, <3>1 DEF Requests
    <3> QED BY <2>2, <3>1, <3>2 DEF Ends
  <2>3. CASE AsksAgain(r)
    <3>1. PICK x : x = [requests[r] EXCEPT !.at = "timer", !.ping = TRUE, !.response = Nothing]
      OBVIOUS
    <3>2. x \in Requests /\ x.at = "timer"
      BY <1>1, <3>1 DEF Requests
    <3>3. requests' = [requests EXCEPT ![r] = x]
      BY <1>1, <2>3, <3>1 DEF AsksAgain
    <3> QED BY <3>2, <3>3
  <2>4. CASE requests' = [requests EXCEPT ![r].at = "sent"]
    <3>1. PICK x : x = [requests[r] EXCEPT !.at = "sent"]
      OBVIOUS
    <3>2. x \in Requests /\ x.at = "sent"
      BY <1>1, <3>1 DEF Requests
    <3> QED BY <2>4, <3>1, <3>2
  <2> QED BY <2>1, <2>2, <2>3, <2>4
<1>5. PICK ns : ns = requests[r].response.nodes
  OBVIOUS
<1>6. ns \in Seq(Nodes) /\ Len(ns) \in Nat
  <2>1. requests[r].response \in Replies \cup {Nothing}
    BY <1>1 DEF Requests
  <2> QED BY <1>5, <2>1, SlotType
<1>7. ASSUME AddNodes(ns)
      PROVE  /\ \E n \in 0..Len(ns) : treeData' = treeData \o SubSeq(ns, 1, n)
             /\ drawn \subseteq drawn' /\ drawn' \subseteq Nat
  <2>1. PICK read : read = {j \in 1..Len(ns) : \A i \in 1..(j - 1) : Attaches(ns, i)}
    OBVIOUS
  <2>2. /\ treeData' = treeData \o SubSeq(ns, 1, Cardinality(read))
        /\ drawn' = drawn \cup {ns[j].node : j \in {k \in read : Attaches(ns, k)}}
    BY <1>7, <2>1 DEF AddNodes
  <2>3. Cardinality(read) \in 0..Len(ns)
    <3>1. IsFiniteSet(1..Len(ns)) /\ Cardinality(1..Len(ns)) = Len(ns)
      <4>1. PICK m : m = Len(ns)
        OBVIOUS
      <4>2. m \in Nat
        BY <1>6, <4>1
      <4>3. IsFiniteSet(1..m) /\ Cardinality(1..m) = IF 1 > m THEN 0 ELSE m - 1 + 1
        BY <4>2, FS_Interval
      <4> QED BY <4>1, <4>2, <4>3
    <3>2. read \subseteq 1..Len(ns)
      BY <2>1
    <3>3. IsFiniteSet(read) /\ Cardinality(read) <= Len(ns)
      BY <3>1, <3>2, FS_Subset
    <3>4. Cardinality(read) \in Nat
      BY <3>3, FS_CardinalityType
    <3> QED BY <1>6, <3>3, <3>4
  <2>4. \A j \in 1..Len(ns) : ns[j].node \in Nat
    <3>1. \A j \in 1..Len(ns) : ns[j] \in Nodes
      BY <1>6
    <3> QED BY <3>1 DEF Nodes
  <2>5. drawn \subseteq Nat
    BY DEF PageTypeOK
  <2> QED BY <2>1, <2>2, <2>3, <2>4, <2>5
<1>8. \/ UNCHANGED treeData
      \/ /\ requests[r].at = "answered"
         /\ \E n \in 0..Len(ns) : treeData' = treeData \o SubSeq(ns, 1, n)
  BY <1>5, <1>7 DEF Callback, DrawNodes, HighlightLines, ListFunctions, MarkExcluded, Ping,
       Comes, pageVars
<1>9. PageTypeOK'
  <2>1. treeData' \in Seq(Nodes)
    <3>1. treeData \in Seq(Nodes)
      BY DEF PageTypeOK
    <3>2. ASSUME NEW n \in 0..Len(ns) PROVE treeData \o SubSeq(ns, 1, n) \in Seq(Nodes)
      <4>1. SubSeq(ns, 1, n) \in Seq(Nodes)
        BY <1>6, FrontPart
      <4> QED BY <3>1, <4>1, Joined
    <3> QED BY <1>8, <3>1, <3>2
  <2>2. drawn \subseteq drawn' /\ drawn' \subseteq Nat /\ page' = page
    BY <1>5, <1>7 DEF Callback, DrawNodes, HighlightLines, ListFunctions, MarkExcluded, Ping,
         pageVars, PageTypeOK
  <2>3. excluded' \subseteq drawn'
    BY <2>2 DEF Callback, DrawNodes, HighlightLines, ListFunctions, MarkExcluded, Ping, pageVars,
         PageTypeOK, Below
  <2> QED BY <2>1, <2>2, <2>3 DEF PageTypeOK
<1> QED BY <1>2, <1>5, <1>8, <1>9

\* A request of the page is added; nothing else moves but the page's state.
LEMMA AddedType ==
  ASSUME TypeOK, NEW kind \in {"functions", "next", "lines", "node", "model"}, NEW arg \in Int,
         requests' = Append(requests, [kind |-> kind, arg |-> arg, ping |-> FALSE, at |-> "sent",
                                       response |-> Nothing])
  PROVE  requests' \in Seq(Requests)
<1>1. PICK x : x = [kind |-> kind, arg |-> arg, ping |-> FALSE, at |-> "sent", response |-> Nothing]
  OBVIOUS
<1>2. x \in Requests
  BY <1>1 DEF Requests
<1>3. requests \in Seq(Requests) /\ requests' = Append(requests, x)
  BY <1>1 DEF TypeOK, ServerTypeOK
<1> QED BY <1>2, <1>3, AppendTo

\* What the user pushes sends a request.
LEMMA AskedType ==
  ASSUME TypeOK, User
  PROVE  \E kind \in {"next", "lines", "node", "model"}, arg \in Int : Send(kind, arg)
<1>1. drawn \subseteq Int /\ -1 \in Int /\ 0 \in Int
  BY DEF TypeOK, PageTypeOK
<1>2. \A n \in Alerts : n.node \in Int
  <2>1. \A i \in 1..Len(treeData) : treeData[i] \in Nodes
    BY DEF TypeOK, PageTypeOK
  <2>2. \A n \in Nodes : n.node \in Int
    BY DEF Nodes
  <2> QED BY <2>1, <2>2 DEF Alerts, Shown
<1>3. \/ Begin \/ Click \/ ExcludeStatement \/ Exclude \/ AddModel \/ AddModelForFunction
  BY DEF User
<1> QED BY <1>1, <1>2, <1>3 DEF Begin, Click, ExcludeStatement, Exclude, AddModel,
     AddModelForFunction

LEMMA NewNodesType ==
  ASSUME NEW k \in 0..(MaxNodes - Len(reported)), NEW parents \in Parents(k),
         NEW asks \in BOOLEAN, reported \in Seq(Nodes)
  PROVE  LET nodes == NewNodes(k, parents, asks)
         IN  /\ nodes \in Seq(Nodes) /\ Len(nodes) = k /\ k \in Nat
             /\ \A i \in 1..k : /\ nodes[i].node = Len(reported) + i - 1
                               /\ nodes[i].parent = parents[i]
                               /\ nodes[i].call = (asks /\ i = k)
<1>1. PICK n : n = Len(reported)
  OBVIOUS
<1>2. n \in Nat /\ k \in Nat
  BY <1>1, SessionAssumption
<1>3. parents \in [1..k -> Int]
  BY SessionAssumption DEF Parents
<1>4. PICK nodes : nodes = NewNodes(k, parents, asks)
  OBVIOUS
<1>5. nodes = [i \in 1..k |-> [node |-> n + i - 1, parent |-> parents[i], call |-> asks /\ i = k]]
  BY <1>1, <1>4 DEF NewNodes
<1>6. \A i \in 1..k : n + i - 1 \in Nat /\ parents[i] \in Int /\ (asks /\ i = k) \in BOOLEAN
  BY <1>2, <1>3
<1>7. \A i \in 1..k : nodes[i] \in Nodes
  BY <1>5, <1>6 DEF Nodes
<1>8. nodes \in [1..k -> Nodes]
  BY <1>5, <1>7
<1>9. nodes \in Seq(Nodes) /\ Len(nodes) = k
  BY <1>2, <1>8
<1> QED BY <1>1, <1>2, <1>4, <1>5, <1>9

LEMMA ReplyShape ==
  ASSUME TypeOK, ReplyPlain \/ ReplyNodes
  PROVE  \E x \in Replies :
           /\ received' = Append(received, x)
           /\ reported' = reported \o x.nodes
           /\ \A i \in 1..Len(x.nodes) : x.nodes[i].node = Len(reported) + i - 1
<1>1. PICK nodes \in Seq(Nodes) :
        /\ Reply(nodes) /\ reported' = reported \o nodes
        /\ \A i \in 1..Len(nodes) : nodes[i].node = Len(reported) + i - 1
  <2>1. CASE ReplyPlain
    <3>1. <<>> \in Seq(Nodes) /\ Len(<<>>) = 0 /\ reported \in Seq(Nodes)
      BY DEF TypeOK
    <3>2. reported \o <<>> = reported
      BY <3>1
    <3>3. \A i \in 1..Len(<<>>) : <<>>[i].node = Len(reported) + i - 1
      BY <3>1
    <3> QED BY <2>1, <3>1, <3>2, <3>3 DEF ReplyPlain
  <2>2. CASE ReplyNodes
    <3>1. PICK k \in 0..(MaxNodes - Len(reported)), asks \in BOOLEAN :
            \E parents \in Parents(k) : /\ Reply(NewNodes(k, parents, asks))
                                       /\ reported' = reported \o NewNodes(k, parents, asks)
      BY <2>2 DEF ReplyNodes
    <3>2. PICK parents \in Parents(k) : /\ Reply(NewNodes(k, parents, asks))
                                        /\ reported' = reported \o NewNodes(k, parents, asks)
      BY <3>1
    <3>3. /\ NewNodes(k, parents, asks) \in Seq(Nodes)
          /\ Len(NewNodes(k, parents, asks)) = k
          /\ \A i \in 1..k : NewNodes(k, parents, asks)[i].node = Len(reported) + i - 1
      BY NewNodesType DEF TypeOK
    <3> QED BY <3>2, <3>3
  <2> QED BY <2>1, <2>2
<1>2. PICK x : x = [kind |-> owed, request |-> doing.request, nodes |-> nodes]
  OBVIOUS
<1>3. doing \in Messages /\ owed \in {"functions", "nodes", "lines", "broken"}
  BY DEF TypeOK
<1>4. doing.request \in Nat
  BY <1>3 DEF Messages
<1>5. x \in Replies /\ x.nodes = nodes
  BY <1>2, <1>3, <1>4 DEF Replies
<1>6. received' = Append(received, x)
  BY <1>1, <1>2 DEF Reply
<1> QED BY <1>1, <1>5, <1>6

LEMMA TypeStep == ASSUME TypeOK, FileInv', [Next]_vars PROVE TypeOK'
<1>1. uploads' \in Seq(UploadType) /\ bcFile' \in Nat /\ file' \in Nat /\ together' \subseteq Nat
  BY DEF FileInv
<1>2. CASE UNCHANGED vars
  BY <1>2 DEF vars, uploadVars, serverVars, pageVars, executorVars, TypeOK, ServerTypeOK, PageTypeOK
<1>3. CASE User
  <2>1. PICK kind \in {"next", "lines", "node", "model"}, arg \in Int : Send(kind, arg)
    BY <1>3, AskedType
  <2>2. requests' \in Seq(Requests)
    BY <2>1, AddedType DEF Send
  <2> QED BY <1>3, <2>1, <2>2 DEF User, Send, uploadVars, serverVars, pageVars, executorVars,
       TypeOK, ServerTypeOK, PageTypeOK
<1>4. CASE ChooseSample
  BY <1>1, <1>4 DEF ChooseSample, Submit, serverVars, executorVars, UploadType,
     TypeOK, ServerTypeOK, PageTypeOK
<1>5. CASE LoadPage
  <2>1. requests' \in Seq(Requests)
    <3>1. requests' = Append(requests, [kind |-> "functions", arg |-> 0, ping |-> FALSE,
                                        at |-> "sent", response |-> Nothing])
      BY <1>5 DEF LoadPage, Loaded
    <3>2. "functions" \in {"functions", "next", "lines", "node", "model"} /\ 0 \in Int
      OBVIOUS
    <3> QED BY <3>1, <3>2, AddedType
  <2> QED BY <1>5, <2>1 DEF LoadPage, Loaded, uploadVars, serverVars, executorVars,
       TypeOK, ServerTypeOK, PageTypeOK
<1>6. CASE Compile \/ OtherUpload
  <2>1. UNCHANGED <<requests, pageVars, serverVars, patient, executorVars>>
    BY <1>6 DEF Compile, OtherUpload
  <2> QED BY <1>1, <2>1 DEF pageVars, serverVars, executorVars, UploadType,
       TypeOK, ServerTypeOK, PageTypeOK
<1>7. CASE ServerHandles
  <2>1. PICK r \in 1..Len(requests), x \in Requests :
          /\ requests' = [requests EXCEPT ![r] = x]
          /\ toSend' \in {toSend, Nothing}
          /\ written' \in Seq(Messages)
          /\ UNCHANGED <<received, down>>
    BY <1>7, HandleShape DEF ServerHandles, TypeOK
  <2>2. requests \in Seq(Requests)
    BY DEF TypeOK, ServerTypeOK
  <2>3. requests' \in Seq(Requests)
    BY <2>1, <2>2, ChangeAt
  <2>4. toSend' \in Replies \cup {Nothing}
    BY <2>1 DEF TypeOK, ServerTypeOK
  <2> QED BY <1>7, <2>1, <2>3, <2>4 DEF ServerHandles, uploadVars, pageVars, executorVars,
       TypeOK, ServerTypeOK, PageTypeOK
<1>8. CASE ServerReceives
  <2>1. received \in Seq(Replies) /\ received # <<>> /\ received' = Tail(received)
    BY <1>8 DEF ServerReceives, Data, TypeOK, ServerTypeOK
  <2>2. received' \in Seq(Replies) /\ Head(received) \in Replies
    BY <2>1, TailOf
  <2>3. toSend' \in Replies \cup {Nothing} /\ down' \in BOOLEAN
    BY <1>8, <2>2 DEF ServerReceives, Data, TypeOK, ServerTypeOK
  <2> QED BY <1>8, <2>2, <2>3 DEF ServerReceives, Data, uploadVars, pageVars, executorVars,
       TypeOK, ServerTypeOK, PageTypeOK
<1>9. CASE PageSteps
  <2>1. PICK r \in 1..Len(requests) :
          /\ Callback(r) \/ Ping(r)
          /\ UNCHANGED <<uploadVars, serverVars, patient, executorVars>>
    BY <1>9 DEF PageSteps, PageStep
  <2>2. PageTypeOK' /\ \E x \in Requests : requests' = [requests EXCEPT ![r] = x]
    BY <2>1, PageShape DEF TypeOK
  <2>3. requests \in Seq(Requests)
    BY DEF TypeOK, ServerTypeOK
  <2>4. requests' \in Seq(Requests)
    BY <2>2, <2>3, ChangeAt
  <2> QED BY <2>1, <2>2, <2>4 DEF uploadVars, serverVars, executorVars, TypeOK, ServerTypeOK
<1>10. CASE Message
  <2>1. TakeMessage
    BY <1>10 DEF Message, StartExecutor, Explore, ExcludeBlocks, UnexpectedModel, GoOn, Miss
  <2>2. written \in Seq(Messages) /\ written # <<>> /\ written' = Tail(written)
    BY <2>1 DEF TakeMessage, TypeOK, ServerTypeOK
  <2>3. written' \in Seq(Messages) /\ Head(written) \in Messages
    BY <2>2, TailOf
  <2>4. /\ executor' \in {"none", "computing", "replied", "asks", "asleep", "model"}
        /\ doing' \in Messages /\ owed' \in {"functions", "nodes", "lines", "broken"}
        /\ started' \in BOOLEAN /\ dead' \in BOOLEAN /\ missed' \subseteq Nat
    <3>1. Head(written).request \in Nat
      BY <2>3 DEF Messages
    <3> QED BY <1>10, <2>3, <3>1 DEF Message, StartExecutor, Explore, ExcludeBlocks, UnexpectedModel, GoOn, Miss,
       Compute, TypeOK
  <2> QED BY <2>1, <2>3, <2>4 DEF TakeMessage, uploadVars, pageVars, TypeOK, ServerTypeOK, PageTypeOK
<1>11. CASE ReplyPlain \/ ReplyNodes
  <2>1. PICK x \in Replies : received' = Append(received, x) /\ reported' = reported \o x.nodes
    BY <1>11, ReplyShape
  <2>2. received \in Seq(Replies) /\ reported \in Seq(Nodes) /\ x.nodes \in Seq(Nodes)
    BY <2>1 DEF TypeOK, ServerTypeOK, Replies
  <2>3. received' \in Seq(Replies) /\ reported' \in Seq(Nodes)
    BY <2>1, <2>2, AppendTo, Joined
  <2>4. executor' \in {"replied", "asks"}
    BY <1>11 DEF ReplyPlain, ReplyNodes
  <2>5. UNCHANGED <<toSend, written, down, requests, uploadVars, pageVars, patient, doing, owed,
                    started, missed, dead>>
    BY <1>11 DEF ReplyPlain, ReplyNodes, Reply
  <2> QED BY <2>3, <2>4, <2>5 DEF uploadVars, pageVars, TypeOK, ServerTypeOK, PageTypeOK
<1>12. CASE FallAsleep
  BY <1>12 DEF FallAsleep, uploadVars, serverVars, pageVars, TypeOK, ServerTypeOK, PageTypeOK
<1> QED
  BY <1>2, <1>3, <1>4, <1>5, <1>6, <1>7, <1>8, <1>9, <1>10, <1>11, <1>12 DEF Next

\* The variables keep their types in every step of the user, the page, the server
\* and the executor.
THEOREM TypeCorrect == Spec => []TypeOK
<1>1. Init => TypeOK
  <2> SUFFICES ASSUME Init PROVE TypeOK
    OBVIOUS
  <2>1. ServerTypeOK
    <3>1. <<>> \in Seq(UploadType) /\ <<>> \in Seq(Messages) /\ <<>> \in Seq(Replies)
          /\ <<>> \in Seq(Requests)
      OBVIOUS
    <3> QED BY <3>1 DEF Init, ServerInit, ServerTypeOK, None, UploadType
  <2>2. PageTypeOK
    <3>1. <<>> \in Seq(Nodes)
      OBVIOUS
    <3> QED BY <3>1 DEF Init, PageInit, PageTypeOK
  <2>3. NoMessage \in Messages
    BY DEF NoMessage, Messages
  <2>4. reported \in Seq(Nodes)
    BY DEF Init
  <2> QED BY <2>1, <2>2, <2>3, <2>4 DEF Init, TypeOK
<1>2. Spec => []FileInv
  BY FileInitially, FileStep, PTL DEF Spec
<1> QED BY <1>1, <1>2, TypeStep, PTL DEF Spec

-----------------------------------------------------------------------------
(* Where a node is: on the connection, in the slot, in one response or in   *)
(* the page's tree, and nowhere twice.                                      *)

Ids(b) == {b[i].node : i \in 1..Len(b)}
Apart(a, b) == Ids(a) \cap Ids(b) = {}

\* The nodes b are reported ones, p, and none comes twice.
Own(b, p) ==
  /\ \A i \in 1..Len(b) : \E k \in 1..Len(p) : b[i] = p[k]
  /\ \A i, j \in 1..Len(b) : b[i].node = b[j].node => i = j

\* The nodes a request brings to the page.
Held(q) == IF q.at = "answered" THEN q.response.nodes ELSE <<>>

Sep(rc, ts, rq, td, rp) ==
  /\ \A i \in 1..Len(rc) : Own(rc[i].nodes, rp) /\ Apart(rc[i].nodes, ts.nodes)
                             /\ Apart(rc[i].nodes, td)
  /\ \A i, j \in 1..Len(rc) : i # j => Apart(rc[i].nodes, rc[j].nodes)
  /\ \A i \in 1..Len(rc), r \in 1..Len(rq) : Apart(rc[i].nodes, Held(rq[r]))
  /\ \A r \in 1..Len(rq) : Own(Held(rq[r]), rp) /\ Apart(Held(rq[r]), ts.nodes)
                             /\ Apart(Held(rq[r]), td)
  /\ \A r, s \in 1..Len(rq) : r # s => Apart(Held(rq[r]), Held(rq[s]))
  /\ Own(ts.nodes, rp) /\ Own(td, rp) /\ Apart(ts.nodes, td)

\* The executor numbers the nodes as it reports them.
Numbered(rp) == \A k \in 1..Len(rp) : rp[k].node = k - 1

OnceInv == Numbered(reported) /\ Sep(received, toSend, requests, treeData, reported)

LEMMA ApartFacts ==
  /\ \A a, b : Apart(a, b) => Apart(b, a)
  /\ \A b : Apart(<<>>, b) /\ Apart(b, <<>>)
  /\ \A p : Own(<<>>, p)
<1>1. Len(<<>>) = 0 /\ \A i \in 1..Len(<<>>) : FALSE
  OBVIOUS
<1>2. Ids(<<>>) = {}
  BY <1>1 DEF Ids
<1>3. \A a, b : Apart(a, b) => Apart(b, a)
  BY DEF Apart
<1>4. \A b : Apart(<<>>, b) /\ Apart(b, <<>>)
  BY <1>2 DEF Apart
<1>5. \A p : Own(<<>>, p)
  BY <1>1 DEF Own
<1> QED BY <1>3, <1>4, <1>5

\* The page takes a front part of what a response holds.
LEMMA Drawn ==
  ASSUME NEW td \in Seq(Nodes), NEW h \in Seq(Nodes), NEW n \in 0..Len(h), NEW p,
         Own(td, p), Own(h, p), Apart(h, td)
  PROVE  LET t == td \o SubSeq(h, 1, n)
         IN  Own(t, p) /\ \A b : Apart(b, td) /\ Apart(b, h) => Apart(b, t)
<1>1. PICK u : u = SubSeq(h, 1, n)
  OBVIOUS
<1>2. u \in Seq(Nodes) /\ Len(u) = n /\ \A k \in 1..n : u[k] = h[k]
  BY <1>1, FrontPart
<1>3. PICK t : t = td \o u
  OBVIOUS
<1>4. PICK m : m = Len(td)
  OBVIOUS
<1>5. /\ m \in Nat /\ n \in Nat /\ Len(t) = m + n
      /\ \A k \in 1..m : t[k] = td[k]
      /\ \A k \in 1..n : t[m + k] = h[k] /\ k \in 1..Len(h)
  <2>1. PICK l : l = Len(h)
    OBVIOUS
  <2>2. l \in Nat /\ n \in 0..l
    BY <2>1
  <2>3. n \in Nat /\ \A k \in 1..n : k \in 1..l
    BY <2>2
  <2>4. /\ m \in Nat /\ Len(t) = m + Len(u)
        /\ \A k \in 1..m : t[k] = td[k]
        /\ \A k \in 1..Len(u) : t[m + k] = u[k]
    <3>1. u \in Seq(Nodes)
      BY <1>2
    <3>2. /\ Len(td) \in Nat /\ Len(td \o u) = Len(td) + Len(u)
          /\ \A k \in 1..Len(td) : (td \o u)[k] = td[k]
          /\ \A k \in 1..Len(u) : (td \o u)[Len(td) + k] = u[k]
      BY <3>1, Joined
    <3> QED BY <1>3, <1>4, <3>2
  <2>5. Len(t) = m + n /\ \A k \in 1..n : t[m + k] = u[k]
    BY <1>2, <2>4
  <2>6. \A k \in 1..n : t[m + k] = h[k] /\ k \in 1..Len(h)
    BY <1>2, <2>1, <2>3, <2>5
  <2> QED BY <2>3, <2>4, <2>5, <2>6
<1>6. \A k \in 1..(m + n) : k \in 1..m \/ \E j \in 1..n : k = m + j
  <2>1. ASSUME NEW k \in 1..(m + n), k \notin 1..m PROVE k - m \in 1..n /\ k = m + (k - m)
    BY <1>5, <2>1
  <2> QED BY <2>1
<1>7. \A k \in 1..Len(t) : \/ \E i \in 1..Len(td) : t[k] = td[i]
                           \/ \E j \in 1..Len(h) : t[k] = h[j]
  <2> SUFFICES ASSUME NEW k \in 1..(m + n)
               PROVE  (\E i \in 1..m : t[k] = td[i]) \/ (\E j \in 1..Len(h) : t[k] = h[j])
    BY <1>4, <1>5
  <2>1. CASE k \in 1..m
    BY <1>5, <2>1
  <2>2. CASE \E j \in 1..n : k = m + j
    BY <1>5, <2>2
  <2> QED BY <1>6, <2>1, <2>2
<1>8. \A b : Apart(b, td) /\ Apart(b, h) => Apart(b, t)
  <2>1. Ids(t) \subseteq Ids(td) \cup Ids(h)
    BY <1>7, Zenon DEF Ids
  <2> QED BY <2>1 DEF Apart
<1>9. \A i \in 1..Len(t) : \E k \in 1..Len(p) : t[i] = p[k]
  <2>1. \A i \in 1..Len(td) : \E k \in 1..Len(p) : td[i] = p[k]
    BY Zenon DEF Own
  <2>2. \A i \in 1..Len(h) : \E k \in 1..Len(p) : h[i] = p[k]
    BY Zenon DEF Own
  <2> SUFFICES ASSUME NEW i \in 1..Len(t) PROVE \E k \in 1..Len(p) : t[i] = p[k]
    OBVIOUS
  <2>3. CASE \E j \in 1..Len(td) : t[i] = td[j]
    BY <2>1, <2>3
  <2>4. CASE \E j \in 1..Len(h) : t[i] = h[j]
    BY <2>2, <2>4
  <2> QED BY <1>7, <2>3, <2>4
<1>10. \A i \in 1..m, j \in 1..n : td[i].node # h[j].node
  <2> SUFFICES ASSUME NEW i \in 1..m, NEW j \in 1..n, td[i].node = h[j].node PROVE FALSE
    OBVIOUS
  <2>1. i \in 1..Len(td) /\ j \in 1..Len(h)
    BY <1>4, <1>5
  <2>2. td[i].node \in Ids(td) /\ h[j].node \in Ids(h)
    BY <2>1, Zenon DEF Ids
  <2> QED BY <2>2 DEF Apart
<1>11. \A i, j \in 1..Len(t) : t[i].node = t[j].node => i = j
  <2> SUFFICES ASSUME NEW i \in 1..(m + n), NEW j \in 1..(m + n), t[i].node = t[j].node
               PROVE  i = j
    BY <1>5
  <2>1. CASE i \in 1..m /\ j \in 1..m
    BY <1>4, <1>5, <2>1 DEF Own
  <2>2. CASE i \in 1..m /\ j \notin 1..m
    <3>1. PICK l \in 1..n : j = m + l
      BY <1>6, <2>2
    <3> QED BY <1>5, <1>10, <2>2, <3>1
  <2>3. CASE i \notin 1..m /\ j \in 1..m
    <3>1. PICK l \in 1..n : i = m + l
      BY <1>6, <2>3
    <3> QED BY <1>5, <1>10, <2>3, <3>1
  <2>4. CASE i \notin 1..m /\ j \notin 1..m
    <3>1. PICK l \in 1..n : i = m + l
      BY <1>6, <2>4
    <3>2. PICK o \in 1..n : j = m + o
      BY <1>6, <2>4
    <3>3. h[l].node = h[o].node /\ l \in 1..Len(h) /\ o \in 1..Len(h)
      BY <1>5, <3>1, <3>2
    <3> QED BY <3>1, <3>2, <3>3 DEF Own
  <2> QED BY <2>1, <2>2, <2>3, <2>4
<1> QED BY <1>1, <1>3, <1>8, <1>9, <1>11 DEF Own

\* The executor reports new nodes.
LEMMA Reported ==
  ASSUME NEW rp \in Seq(Nodes), NEW ns \in Seq(Nodes), Numbered(rp),
         \A i \in 1..Len(ns) : ns[i].node = Len(rp) + i - 1
  PROVE  LET q == rp \o ns
         IN  /\ Numbered(q) /\ Own(ns, q)
             /\ \A b : Own(b, rp) => Own(b, q) /\ Apart(b, ns)
<1>1. PICK q : q = rp \o ns
  OBVIOUS
<1>2. PICK m : m = Len(rp)
  OBVIOUS
<1>3. PICK n : n = Len(ns)
  OBVIOUS
<1>4. /\ m \in Nat /\ n \in Nat /\ Len(q) = m + n
      /\ \A k \in 1..m : q[k] = rp[k]
      /\ \A k \in 1..n : q[m + k] = ns[k]
  BY <1>1, <1>2, <1>3, Joined
<1>5. /\ \A k \in 1..(m + n) : k \in 1..m \/ \E j \in 1..n : k = m + j
      /\ \A k \in 1..m : k \in 1..(m + n)
      /\ \A k \in 1..n : m + k \in 1..(m + n)
  <2>1. ASSUME NEW k \in 1..(m + n), k \notin 1..m PROVE k - m \in 1..n /\ k = m + (k - m)
    BY <1>4, <2>1
  <2> QED BY <1>4, <2>1
<1>6. /\ \A k \in 1..m : rp[k].node = k - 1
      /\ \A k \in 1..n : ns[k].node = m + k - 1
  BY <1>2, <1>3 DEF Numbered
<1>7. Numbered(q)
  <2> SUFFICES ASSUME NEW k \in 1..(m + n) PROVE q[k].node = k - 1
    BY <1>4 DEF Numbered
  <2>1. CASE k \in 1..m
    BY <1>4, <1>6, <2>1
  <2>2. ASSUME NEW j \in 1..n, k = m + j PROVE q[k].node = k - 1
    <3>1. q[k] = ns[j]
      BY <1>4, <2>2
    <3>2. ns[j].node = m + j - 1
      BY <1>6
    <3>3. m \in Nat
      BY <1>4
    <3>4. k - 1 = m + j - 1
      BY <2>2, <3>3
    <3> QED BY <3>1, <3>2, <3>4
  <2> QED BY <1>5, <2>1, <2>2
<1>8. Own(ns, q)
  <2>1. \A i \in 1..n : \E k \in 1..(m + n) : ns[i] = q[k]
    BY <1>4, <1>5
  <2>2. \A i, j \in 1..n : ns[i].node = ns[j].node => i = j
    <3> SUFFICES ASSUME NEW i \in 1..n, NEW j \in 1..n, ns[i].node = ns[j].node PROVE i = j
      OBVIOUS
    <3>1. m + i - 1 = m + j - 1
      BY <1>6
    <3>2. m \in Nat /\ n \in Nat
      BY <1>4
    <3> QED BY <3>1, <3>2
  <2> QED BY <1>3, <1>4, <2>1, <2>2 DEF Own
<1>9. ASSUME NEW b, Own(b, rp) PROVE Own(b, q) /\ Apart(b, ns)
  <2>1. \A i \in 1..Len(b) : \E k \in 1..m : b[i] = rp[k]
    BY <1>2, <1>9 DEF Own
  <2>2. \A i \in 1..Len(b) : \E k \in 1..(m + n) : b[i] = q[k]
    BY <1>4, <1>5, <2>1
  <2>3. Own(b, q)
    BY <1>4, <1>9, <2>2 DEF Own
  <2>4. ASSUME NEW i \in 1..Len(b), NEW j \in 1..n PROVE b[i].node # ns[j].node
    <3>1. PICK k \in 1..m : b[i] = rp[k]
      BY <2>1
    <3>2. b[i].node = k - 1 /\ ns[j].node = m + j - 1
      BY <1>6, <3>1
    <3> QED BY <1>4, <3>2, SMTT(40)
  <2>5. Apart(b, ns)
    BY <1>3, <2>4 DEF Apart, Ids
  <2> QED BY <2>3, <2>5
<1> QED BY <1>1, <1>7, <1>8, <1>9

\* The slot receives a reply from the connection.
LEMMA DataKeeps ==
  ASSUME NEW rc \in Seq(Replies), NEW ts, NEW rq, NEW td, NEW rp, rc # <<>>, Sep(rc, ts, rq, td, rp)
  PROVE  Sep(Tail(rc), ts, rq, td, rp) /\ Sep(Tail(rc), Head(rc), rq, td, rp)
<1>1. PICK q : q = Tail(rc)
  OBVIOUS
<1>2. PICK n : n = Len(rc)
  OBVIOUS
<1>3. /\ n \in Nat \ {0} /\ Len(q) = n - 1 /\ Head(rc) = rc[1]
      /\ \A k \in 1..(n - 1) : q[k] = rc[k + 1]
  BY <1>1, <1>2, TailOf
<1>4. 1 \in 1..n /\ \A k \in 1..(n - 1) : k + 1 \in 1..n /\ k + 1 # 1
  BY <1>3
<1>5. \A i, j \in 1..(n - 1) : i # j => i + 1 # j + 1
  BY <1>3
<1>6. /\ \A i \in 1..n : Own(rc[i].nodes, rp) /\ Apart(rc[i].nodes, ts.nodes)
                         /\ Apart(rc[i].nodes, td)
      /\ \A i, j \in 1..n : i # j => Apart(rc[i].nodes, rc[j].nodes)
      /\ \A i \in 1..n, r \in 1..Len(rq) : Apart(rc[i].nodes, Held(rq[r]))
  BY <1>2 DEF Sep
<1>7. /\ \A i \in 1..(n - 1) : /\ Own(q[i].nodes, rp) /\ Apart(q[i].nodes, ts.nodes)
                               /\ Apart(q[i].nodes, td) /\ Apart(q[i].nodes, Head(rc).nodes)
      /\ \A i, j \in 1..(n - 1) : i # j => Apart(q[i].nodes, q[j].nodes)
      /\ \A i \in 1..(n - 1), r \in 1..Len(rq) : Apart(q[i].nodes, Held(rq[r]))
  BY <1>3, <1>4, <1>5, <1>6
<1>8. /\ Own(Head(rc).nodes, rp) /\ Apart(Head(rc).nodes, td)
      /\ \A r \in 1..Len(rq) : Apart(Held(rq[r]), Head(rc).nodes)
  BY <1>3, <1>4, <1>6, ApartFacts
<1>9. Sep(q, ts, rq, td, rp)
  BY <1>3, <1>7 DEF Sep
<1>10. Sep(q, Head(rc), rq, td, rp)
  BY <1>3, <1>7, <1>8 DEF Sep
<1> QED BY <1>1, <1>9, <1>10

\* A request changes; it holds nothing afterwards, or what was in the slot.
LEMMA RequestKeeps ==
  ASSUME NEW rc, NEW ts, NEW rq \in Seq(Requests), NEW td, NEW rp, Sep(rc, ts, rq, td, rp),
         NEW r \in 1..Len(rq), NEW x \in Requests, Held(rq[r]) = <<>> \/ Held(x) = <<>>
  PROVE  /\ Held(x) = <<>> => Sep(rc, ts, [rq EXCEPT ![r] = x], td, rp)
         /\ Held(x) = ts.nodes => Sep(rc, Nothing, [rq EXCEPT ![r] = x], td, rp)
<1>1. PICK q : q = [rq EXCEPT ![r] = x]
  OBVIOUS
<1>2. Len(q) = Len(rq) /\ q[r] = x /\ \A s \in 1..Len(rq) : s # r => q[s] = rq[s]
  BY <1>1, ChangeAt
<1>3. ASSUME Held(x) = <<>> PROVE Sep(rc, ts, q, td, rp)
  <2>1. \A s \in 1..Len(rq) : Held(q[s]) = Held(rq[s]) \/ Held(q[s]) = <<>>
    BY <1>2, <1>3
  <2>2. \A s \in 1..Len(rq) : /\ Own(Held(q[s]), rp) /\ Apart(Held(q[s]), ts.nodes)
                              /\ Apart(Held(q[s]), td)
    BY <2>1, ApartFacts DEF Sep
  <2>3. \A i \in 1..Len(rc), s \in 1..Len(rq) : Apart(rc[i].nodes, Held(q[s]))
    BY <2>1, ApartFacts DEF Sep
  <2>4. \A s, t \in 1..Len(rq) : s # t => Apart(Held(q[s]), Held(q[t]))
    BY <2>1, ApartFacts DEF Sep
  <2> QED BY <1>2, <2>2, <2>3, <2>4 DEF Sep
<1>4. ASSUME Held(x) = ts.nodes PROVE Sep(rc, Nothing, q, td, rp)
  <2>1. Nothing.nodes = <<>>
    BY NothingType
  <2>2. \A s \in 1..Len(rq) : \/ s # r /\ Held(q[s]) = Held(rq[s])
                              \/ s = r /\ Held(q[s]) = ts.nodes
    BY <1>2, <1>4
  <2>3. \A s \in 1..Len(rq) : /\ Own(Held(q[s]), rp) /\ Apart(Held(q[s]), Nothing.nodes)
                              /\ Apart(Held(q[s]), td)
    BY <2>1, <2>2, ApartFacts DEF Sep
  <2>4. \A i \in 1..Len(rc), s \in 1..Len(rq) : Apart(rc[i].nodes, Held(q[s]))
    BY <2>2 DEF Sep
  <2>5. \A s, t \in 1..Len(rq) : s # t => Apart(Held(q[s]), Held(q[t]))
    BY <2>2, ApartFacts DEF Sep
  <2>6. Own(Nothing.nodes, rp) /\ Apart(Nothing.nodes, td)
        /\ \A i \in 1..Len(rc) : Apart(rc[i].nodes, Nothing.nodes)
    BY <2>1, ApartFacts
  <2> QED BY <1>2, <2>3, <2>4, <2>5, <2>6 DEF Sep
<1> QED BY <1>1, <1>3, <1>4

\* The page draws what a request holds, which then holds nothing.
LEMMA DrawingKeeps ==
  ASSUME NEW rc, NEW ts, NEW rq \in Seq(Requests), NEW td \in Seq(Nodes), NEW rp,
         Sep(rc, ts, rq, td, rp), NEW r \in 1..Len(rq), NEW x \in Requests, Held(x) = <<>>,
         Held(rq[r]) \in Seq(Nodes), NEW n \in 0..Len(Held(rq[r]))
  PROVE  Sep(rc, ts, [rq EXCEPT ![r] = x], td \o SubSeq(Held(rq[r]), 1, n), rp)
<1>1. PICK q : q = [rq EXCEPT ![r] = x]
  OBVIOUS
<1>2. Len(q) = Len(rq) /\ q[r] = x /\ \A s \in 1..Len(rq) : s # r => q[s] = rq[s]
  BY <1>1, ChangeAt
<1>3. PICK t : t = td \o SubSeq(Held(rq[r]), 1, n)
  OBVIOUS
<1>4. Own(td, rp) /\ Own(Held(rq[r]), rp) /\ Apart(Held(rq[r]), td)
  BY DEF Sep
<1>5. Own(t, rp) /\ \A b : Apart(b, td) /\ Apart(b, Held(rq[r])) => Apart(b, t)
  BY <1>3, <1>4, Drawn
<1>6. Sep(rc, ts, q, td, rp)
  BY <1>1, RequestKeeps
<1>7. \A i \in 1..Len(rc) : Apart(rc[i].nodes, t)
  BY <1>5 DEF Sep
<1>8. Apart(ts.nodes, t)
  BY <1>5, ApartFacts DEF Sep
<1>9. \A s \in 1..Len(rq) : Apart(Held(q[s]), t)
  <2>1. \A s \in 1..Len(rq) : s # r => Apart(Held(rq[s]), td) /\ Apart(Held(rq[s]), Held(rq[r]))
    BY DEF Sep
  <2> QED BY <1>2, <1>5, <2>1, ApartFacts
<1>10. Sep(rc, ts, q, t, rp)
  BY <1>2, <1>5, <1>6, <1>7, <1>8, <1>9 DEF Sep
<1> QED BY <1>1, <1>3, <1>10

\* A request without a response comes along.
LEMMA AskingKeeps ==
  ASSUME NEW rc, NEW ts, NEW rq \in Seq(Requests), NEW td, NEW rp, Sep(rc, ts, rq, td, rp),
         NEW x \in Requests, Held(x) = <<>>
  PROVE  Sep(rc, ts, Append(rq, x), td, rp)
<1>1. PICK q : q = Append(rq, x)
  OBVIOUS
<1>2. PICK n : n = Len(rq)
  OBVIOUS
<1>3. n \in Nat /\ Len(q) = n + 1 /\ q[n + 1] = x /\ \A s \in 1..n : q[s] = rq[s]
  BY <1>1, <1>2, AppendTo
<1>4. \A s \in 1..(n + 1) : (s \in 1..n /\ Held(q[s]) = Held(rq[s])) \/ Held(q[s]) = <<>>
  BY <1>3
<1>5. \A s \in 1..(n + 1) : /\ Own(Held(q[s]), rp) /\ Apart(Held(q[s]), ts.nodes)
                           /\ Apart(Held(q[s]), td)
  BY <1>2, <1>4, ApartFacts DEF Sep
<1>6. \A i \in 1..Len(rc), s \in 1..(n + 1) : Apart(rc[i].nodes, Held(q[s]))
  BY <1>2, <1>4, ApartFacts DEF Sep
<1>7. \A s, t \in 1..(n + 1) : s # t => Apart(Held(q[s]), Held(q[t]))
  BY <1>2, <1>4, ApartFacts DEF Sep
<1>8. Sep(rc, ts, q, td, rp)
  BY <1>3, <1>5, <1>6, <1>7 DEF Sep
<1> QED BY <1>1, <1>8

\* The executor sends new nodes.
LEMMA ReplyKeeps ==
  ASSUME NEW rc \in Seq(Replies), NEW ts, NEW rq, NEW td, NEW rp \in Seq(Nodes), Numbered(rp),
         Sep(rc, ts, rq, td, rp), NEW x \in Replies,
         \A i \in 1..Len(x.nodes) : x.nodes[i].node = Len(rp) + i - 1
  PROVE  Numbered(rp \o x.nodes) /\ Sep(Append(rc, x), ts, rq, td, rp \o x.nodes)
<1>1. PICK p : p = rp \o x.nodes
  OBVIOUS
<1>2. x.nodes \in Seq(Nodes)
  BY DEF Replies
<1>3. Numbered(p) /\ Own(x.nodes, p) /\ \A b : Own(b, rp) => Own(b, p) /\ Apart(b, x.nodes)
  BY <1>1, <1>2, Reported
<1>4. PICK q : q = Append(rc, x)
  OBVIOUS
<1>5. PICK n : n = Len(rc)
  OBVIOUS
<1>6. n \in Nat /\ Len(q) = n + 1 /\ q[n + 1] = x /\ \A i \in 1..n : q[i] = rc[i]
  BY <1>4, <1>5, AppendTo
<1>7. \A i \in 1..(n + 1) : (i \in 1..n /\ q[i] = rc[i]) \/ (i = n + 1 /\ q[i] = x)
  BY <1>6
<1>8. /\ Own(ts.nodes, p) /\ Own(td, p) /\ Apart(ts.nodes, td)
      /\ Apart(x.nodes, ts.nodes) /\ Apart(x.nodes, td)
  BY <1>3, ApartFacts DEF Sep
<1>9. \A r \in 1..Len(rq) : /\ Own(Held(rq[r]), p) /\ Apart(Held(rq[r]), ts.nodes)
                           /\ Apart(Held(rq[r]), td) /\ Apart(x.nodes, Held(rq[r]))
  BY <1>3, ApartFacts DEF Sep
<1>10. \A i \in 1..n : /\ Own(rc[i].nodes, p) /\ Apart(rc[i].nodes, ts.nodes)
                      /\ Apart(rc[i].nodes, td) /\ Apart(rc[i].nodes, x.nodes)
                      /\ Apart(x.nodes, rc[i].nodes)
  BY <1>3, <1>5, ApartFacts DEF Sep
<1>11. \A i \in 1..(n + 1) : /\ Own(q[i].nodes, p) /\ Apart(q[i].nodes, ts.nodes)
                            /\ Apart(q[i].nodes, td)
  BY <1>3, <1>7, <1>8, <1>10
<1>12. \A i, j \in 1..(n + 1) : i # j => Apart(q[i].nodes, q[j].nodes)
  <2>1. \A i, j \in 1..n : i # j => Apart(rc[i].nodes, rc[j].nodes)
    BY <1>5 DEF Sep
  <2> QED BY <1>7, <1>10, <2>1
<1>13. \A i \in 1..(n + 1), r \in 1..Len(rq) : Apart(q[i].nodes, Held(rq[r]))
  <2>1. \A i \in 1..n, r \in 1..Len(rq) : Apart(rc[i].nodes, Held(rq[r]))
    BY <1>5 DEF Sep
  <2> QED BY <1>7, <1>9, <2>1
<1>14. \A r, s \in 1..Len(rq) : r # s => Apart(Held(rq[r]), Held(rq[s]))
  BY DEF Sep
<1>15. Sep(q, ts, rq, td, p)
  BY <1>6, <1>8, <1>9, <1>11, <1>12, <1>13, <1>14 DEF Sep
<1> QED BY <1>1, <1>3, <1>4, <1>15

LEMMA OnceStep == ASSUME TypeOK, OnceInv, [Next]_vars PROVE OnceInv'
<1>1. /\ received \in Seq(Replies) /\ requests \in Seq(Requests) /\ treeData \in Seq(Nodes)
      /\ reported \in Seq(Nodes) /\ toSend \in Replies \cup {Nothing}
      /\ Numbered(reported) /\ Sep(received, toSend, requests, treeData, reported)
  BY DEF TypeOK, ServerTypeOK, PageTypeOK, OnceInv
<1>2. ASSUME Numbered(reported'), Sep(received', toSend', requests', treeData', reported')
      PROVE  OnceInv'
  BY <1>2 DEF OnceInv
<1>3. ASSUME UNCHANGED <<received, toSend, requests, treeData, reported>> PROVE OnceInv'
  BY <1>1, <1>2, <1>3
<1>4. CASE UNCHANGED vars
  BY <1>3, <1>4 DEF vars, serverVars, pageVars, executorVars
<1>5. CASE User \/ LoadPage
  <2>1. PICK x : /\ requests' = Append(requests, x)
                 /\ x \in Requests /\ Held(x) = <<>>
    <3>1. PICK kind \in {"functions", "next", "lines", "node", "model"}, arg \in Int :
            requests' = Append(requests, [kind |-> kind, arg |-> arg, ping |-> FALSE,
                                          at |-> "sent", response |-> Nothing])
      <4>1. CASE User
        BY <4>1, AskedType DEF Send
      <4>2. CASE LoadPage
        <5>1. requests' = Append(requests, [kind |-> "functions", arg |-> 0, ping |-> FALSE,
                                            at |-> "sent", response |-> Nothing])
          BY <4>2 DEF LoadPage, Loaded
        <5>2. "functions" \in {"functions", "next", "lines", "node", "model"} /\ 0 \in Int
          OBVIOUS
        <5> QED BY <5>1, <5>2
      <4> QED BY <1>5, <4>1, <4>2
    <3>2. PICK x : x = [kind |-> kind, arg |-> arg, ping |-> FALSE, at |-> "sent",
                        response |-> Nothing]
      OBVIOUS
    <3>3. x \in Requests /\ x.at = "sent"
      BY <3>2 DEF Requests
    <3>4. Held(x) = <<>>
      BY <3>3 DEF Held
    <3> QED BY <3>1, <3>2, <3>3, <3>4
  <2>2. UNCHANGED <<received, toSend, treeData, reported>>
    BY <1>5 DEF User, Begin, Click, ExcludeStatement, Exclude, AddModel, AddModelForFunction, Send,
       LoadPage, Loaded, serverVars, pageVars, executorVars
  <2>3. Sep(received, toSend, Append(requests, x), treeData, reported)
    BY <1>1, <2>1, AskingKeeps
  <2> QED BY <1>1, <1>2, <2>1, <2>2, <2>3
<1>6. CASE ChooseSample \/ Compile \/ OtherUpload
  BY <1>3, <1>6 DEF ChooseSample, Submit, Compile, OtherUpload, serverVars, pageVars, executorVars
<1>7. CASE ServerHandles
  <2>1. PICK r \in 1..Len(requests) : Handle(r) /\ UNCHANGED <<pageVars, executorVars>>
    BY <1>7 DEF ServerHandles
  <2>2. PICK x \in Requests :
          /\ requests' = [requests EXCEPT ![r] = x]
          /\ requests[r].at = "sent" /\ x.at = "answered"
          /\ \/ x.response = toSend /\ toSend' = Nothing
             \/ x.response = Nothing /\ toSend' = toSend
          /\ UNCHANGED received
    BY <2>1, HandleShape DEF TypeOK
  <2>3. Held(requests[r]) = <<>> /\ Held(x) = x.response.nodes
    BY <2>2 DEF Held
  <2>4. UNCHANGED <<treeData, reported>>
    BY <2>1 DEF pageVars, executorVars
  <2>5. CASE x.response = toSend /\ toSend' = Nothing
    <3>1. Sep(received, Nothing, [requests EXCEPT ![r] = x], treeData, reported)
      BY <1>1, <2>3, <2>5, RequestKeeps
    <3> QED BY <1>1, <1>2, <2>2, <2>4, <2>5, <3>1
  <2>6. CASE x.response = Nothing /\ toSend' = toSend
    <3>1. Held(x) = <<>>
      BY <2>3, <2>6, NothingType
    <3>2. Sep(received, toSend, [requests EXCEPT ![r] = x], treeData, reported)
      BY <1>1, <3>1, RequestKeeps
    <3> QED BY <1>1, <1>2, <2>2, <2>4, <2>6, <3>2
  <2> QED BY <2>2, <2>5, <2>6
<1>8. CASE ServerReceives
  <2>1. /\ received # <<>> /\ received' = Tail(received)
        /\ toSend' = toSend \/ toSend' = Head(received)
        /\ UNCHANGED <<requests, treeData, reported>>
    BY <1>8 DEF ServerReceives, Data, pageVars, executorVars
  <2>2. /\ Sep(Tail(received), toSend, requests, treeData, reported)
        /\ Sep(Tail(received), Head(received), requests, treeData, reported)
    BY <1>1, <2>1, DataKeeps
  <2> QED BY <1>1, <1>2, <2>1, <2>2
<1>9. CASE PageSteps
  <2>1. PICK r \in 1..Len(requests) :
          (Callback(r) \/ Ping(r)) /\ UNCHANGED <<serverVars, executorVars>>
    BY <1>9 DEF PageSteps, PageStep
  <2>2. PICK x \in Requests :
          /\ requests' = [requests EXCEPT ![r] = x]
          /\ x.at # "answered"
          /\ \/ UNCHANGED treeData
             \/ /\ requests[r].at = "answered"
                /\ \E n \in 0..Len(requests[r].response.nodes) :
                     treeData' = treeData \o SubSeq(requests[r].response.nodes, 1, n)
    BY <2>1, PageShape DEF TypeOK
  <2>3. Held(x) = <<>> /\ UNCHANGED <<received, toSend, reported>>
    BY <2>1, <2>2 DEF Held, serverVars, executorVars
  <2>4. CASE UNCHANGED treeData
    <3>1. Sep(received, toSend, [requests EXCEPT ![r] = x], treeData, reported)
      BY <1>1, <2>3, RequestKeeps
    <3> QED BY <1>1, <1>2, <2>2, <2>3, <2>4, <3>1
  <2>5. CASE /\ requests[r].at = "answered"
             /\ \E n \in 0..Len(requests[r].response.nodes) :
                  treeData' = treeData \o SubSeq(requests[r].response.nodes, 1, n)
    <3>1. Held(requests[r]) = requests[r].response.nodes
      BY <2>5 DEF Held
    <3>2. PICK n \in 0..Len(Held(requests[r])) :
            treeData' = treeData \o SubSeq(Held(requests[r]), 1, n)
      BY <2>5, <3>1
    <3>3. Held(requests[r]) \in Seq(Nodes)
      <4>1. requests[r] \in Requests
        BY <1>1
      <4>2. requests[r].response \in Replies \cup {Nothing}
        BY <4>1 DEF Requests
      <4> QED BY <3>1, <4>2, SlotType
    <3>4. Sep(received, toSend, [requests EXCEPT ![r] = x],
              treeData \o SubSeq(Held(requests[r]), 1, n), reported)
      BY <1>1, <2>3, <3>3, DrawingKeeps
    <3> QED BY <1>1, <1>2, <2>2, <2>3, <3>2, <3>4
  <2> QED BY <2>2, <2>4, <2>5
<1>10. CASE Message
  BY <1>3, <1>10 DEF Message, StartExecutor, Explore, ExcludeBlocks, UnexpectedModel, GoOn, Miss,
     TakeMessage, pageVars
<1>11. CASE ReplyPlain \/ ReplyNodes
  <2>1. PICK x \in Replies :
          /\ received' = Append(received, x)
          /\ reported' = reported \o x.nodes
          /\ \A i \in 1..Len(x.nodes) : x.nodes[i].node = Len(reported) + i - 1
    BY <1>11, ReplyShape
  <2>2. /\ Numbered(reported \o x.nodes)
        /\ Sep(Append(received, x), toSend, requests, treeData, reported \o x.nodes)
    BY <1>1, <2>1, ReplyKeeps
  <2>3. UNCHANGED <<toSend, requests, treeData>>
    BY <1>11 DEF ReplyPlain, ReplyNodes, Reply, pageVars
  <2> QED BY <1>2, <2>1, <2>2, <2>3
<1>12. CASE FallAsleep
  BY <1>3, <1>12 DEF FallAsleep, serverVars, pageVars
<1> QED
  BY <1>4, <1>5, <1>6, <1>7, <1>8, <1>9, <1>10, <1>11, <1>12 DEF Next

LEMMA OnceAlways == Spec => []OnceInv
<1>1. Init => OnceInv
  <2> SUFFICES ASSUME Init PROVE OnceInv
    OBVIOUS
  <2>1. /\ received = <<>> /\ requests = <<>> /\ treeData = <<>> /\ reported = <<>>
        /\ toSend.nodes = <<>>
    BY NothingType DEF Init, ServerInit, PageInit
  <2>2. \A i \in 1..Len(<<>>) : FALSE
    OBVIOUS
  <2>3. \A p : Own(<<>>, p)
    BY ApartFacts
  <2>4. Apart(<<>>, <<>>)
    BY ApartFacts
  <2>5. Numbered(<<>>)
    BY <2>2 DEF Numbered
  <2>6. Sep(<<>>, toSend, <<>>, <<>>, <<>>)
    BY <2>1, <2>2, <2>3, <2>4, Zenon DEF Sep
  <2> QED BY <2>1, <2>5, <2>6 DEF OnceInv
<1> QED BY <1>1, TypeCorrect, OnceStep, PTL DEF Spec

\* Whatever the user does and however the page's loops overtake each other, no
\* node reaches the page twice (the slot of app.js, addNodes of graph.js).
THEOREM NothingComesTwice == Spec => []NothingTwice
<1>1. TypeOK /\ OnceInv => NothingTwice
  <2> SUFFICES ASSUME TypeOK, OnceInv PROVE NothingTwice
    OBVIOUS
  <2>1. Sep(received, toSend, requests, treeData, reported)
    BY DEF OnceInv
  <2>2. \A b : Own(b, reported) => \A i \in 1..Len(b) : b[i] \in Range(reported)
    <3>1. DOMAIN reported = 1..Len(reported)
      BY DEF TypeOK
    <3> QED BY <3>1 DEF Own, Range
  <2>3. \A b : Apart(b, treeData) => \A i \in 1..Len(b) : b[i] \notin Range(treeData)
    <3> SUFFICES ASSUME NEW b, Apart(b, treeData), NEW i \in 1..Len(b), b[i] \in Range(treeData)
                 PROVE  FALSE
      OBVIOUS
    <3>1. DOMAIN treeData = 1..Len(treeData)
      BY DEF TypeOK, PageTypeOK
    <3>2. PICK j \in 1..Len(treeData) : b[i] = treeData[j]
      BY <3>1 DEF Range
    <3>3. b[i].node \in Ids(b) /\ b[i].node \in Ids(treeData)
      BY <3>2, Zenon DEF Ids
    <3> QED BY <3>3 DEF Apart
  <2>4. ASSUME NEW reply \in Pending PROVE Own(reply.nodes, reported) /\ Apart(reply.nodes, treeData)
    <3>1. CASE reply \in {received[i] : i \in 1..Len(received)}
      BY <2>1, <3>1 DEF Sep
    <3>2. CASE reply = toSend
      BY <2>1, <3>2 DEF Sep
    <3>3. CASE \E r \in 1..Len(requests) : requests[r].at = "answered" /\ reply = requests[r].response
      <4>1. PICK r \in 1..Len(requests) :
              requests[r].at = "answered" /\ reply = requests[r].response
        BY <3>3
      <4>2. Held(requests[r]) = reply.nodes
        BY <4>1 DEF Held
      <4> QED BY <2>1, <4>2 DEF Sep
    <3> QED BY <3>1, <3>2, <3>3 DEF Pending
  <2>5. Own(treeData, reported)
    BY <2>1 DEF Sep
  <2>6. \A i, j \in 1..Len(treeData) : treeData[i].node = treeData[j].node => i = j
    BY <2>5 DEF Own
  <2> QED BY <2>2, <2>3, <2>4, <2>5, <2>6 DEF NothingTwice
<1> QED BY <1>1, TypeCorrect, OnceAlways, PTL
=============================================================================
