---------------------------- MODULE Patient_proofs ----------------------------
(***************************************************************************)
(* Proofs about Session with a user who waits for the page: one request is *)
(* under way at a time, and it takes a message to the executor and a reply *)
(* back, whatever the timers and the three programs do meanwhile.  Behind  *)
(* it go on the exclusions of earlier requests, whose loops have ended.    *)
(***************************************************************************)
EXTENDS Session_proofs

-----------------------------------------------------------------------------
(* The invariant.                                                          *)

Current == Len(requests)
Latest == requests[Len(requests)]

AsksModel == executor \in {"asks", "model"}

\* The positions of the external calls for which no model has been sent.
Open == {i \in 1..Len(reported) : reported[i].call /\ ~Asked("model", reported[i].node)}

Exclusion(q) == q \in 1..Len(requests) /\ ExcludesBlocks(q)

\* The latest request is none: its loop ends with a reply to itself.
Main == requests # <<>> /\ ~ExcludesBlocks(Len(requests))

\* The kind of reply that ends such a loop.
Wanted(kind) == IF kind \in {"next", "model"} THEN "nodes" ELSE kind

\* The message of an exclusion, and a response that brings at most the reply to one.
Aside(m) ==
  /\ Exclusion(m.request)
  /\ m.kind = requests[m.request].kind /\ m.arg = requests[m.request].arg

Idle(y) == y = Nothing \/ (y.kind = "lines" /\ y.nodes = <<>> /\ Exclusion(y.request))

\* y is the reply to the latest request, with the nodes the page has not got.
Answers(y) ==
  /\ y \in Replies
  /\ y.kind = Wanted(Latest.kind) /\ y.request = Current
  /\ y.kind = "nodes" => started
  /\ y.kind # "nodes" => y.nodes = <<>>
  /\ treeData \o y.nodes = reported

\* The page asks until the reply has come.
Waits ==
  \/ Latest.at = "answered" /\ Idle(Latest.response)
  \/ Latest.at \in {"timer", "sent"} /\ Latest.ping

\* What the exclusions leave behind.
Slack ==
  /\ executor = "computing" => owed = "lines" /\ Exclusion(doing.request)
  /\ \A i \in 1..Len(received) : Idle(received[i])
  /\ Idle(toSend)

\* Nothing is under way that brings nodes: the latest loop has ended, its request is
\* yet to be handled, or it waits for ever.
Free ==
  /\ treeData = reported /\ Slack
  /\ \A i \in 1..Len(written) : Aside(written[i])
  /\ requests # <<>> => Latest.at = "ended" \/ (Latest.at = "sent" /\ ~Latest.ping) \/ Waits
  /\ Open # {} => Latest.at = "ended"
  /\ AsksModel => written = <<>> /\ (Open # {} \/ (Latest.kind = "model" /\ Latest.at # "ended"))
  /\ (requests # <<>> /\ Latest.kind = "model" /\ Latest.at = "sent" /\ ~Latest.ping) => AsksModel

\* The message is on its way, behind those of exclusions.
Passing ==
  /\ Waits /\ treeData = reported /\ Slack
  /\ \E n \in Nat \ {0} :
       /\ Len(written) = n
       /\ \A i \in 1..(n - 1) : Aside(written[i])
       /\ written[n].kind = Latest.kind /\ written[n].request = Current
       /\ Latest.kind = "model" => n = 1
  /\ Open = {} /\ (AsksModel <=> Latest.kind = "model")

Computing ==
  /\ Waits /\ treeData = reported
  /\ written = <<>>
  /\ executor = "computing" /\ doing.request = Current /\ owed = Wanted(Latest.kind)
  /\ \A i \in 1..Len(received) : Idle(received[i])
  /\ Idle(toSend)
  /\ Open = {}

\* The executor has replied; it asks for a model if its last node is a call.
Settled ==
  /\ written = <<>>
  /\ executor \notin {"none", "computing"}
  /\ AsksModel <=> Open # {}

Arriving ==
  /\ Waits /\ Settled
  /\ \E n \in Nat \ {0} :
       /\ Len(received) = n
       /\ \A i \in 1..(n - 1) : Idle(received[i])
       /\ Answers(received[n])
  /\ Idle(toSend)

InSlot == Waits /\ Settled /\ received = <<>> /\ Answers(toSend)

Answering ==
  /\ Latest.at = "answered" /\ Settled
  /\ received = <<>> /\ toSend = Nothing
  /\ Answers(Latest.response)

Phase == Free \/ (Main /\ (Passing \/ Computing \/ Arriving \/ InSlot \/ Answering))

\* The executor reports a node after its parent.
Rooted(rp) ==
  \A k \in 1..Len(rp) : IF k = 1 THEN rp[k].parent = -1 ELSE rp[k].parent \in 0..(k - 2)

\* Nobody excludes anything before the executor has taken its first instruction.
Begun ==
  /\ started => executor # "none"
  /\ requests = <<>> => executor = "none"
  /\ AsksModel \/ owed = "nodes" \/ reported # <<>> => started
  /\ \A r \in 1..Len(requests) :
       ExcludesBlocks(r) \/ (requests[r].kind = "next" /\ requests[r].at = "ended") => started
  /\ (executor = "none" /\ requests # <<>>) => Latest.kind = "functions" /\ Latest.at # "ended"

Asks(r) ==
  /\ requests[r].kind = "model" => requests[r].arg \in 0..(Len(reported) - 1)
  /\ requests[r].kind = "node" => ~requests[r].ping /\ requests[r].response = Nothing
  /\ r < Current => requests[r].at = "ended"
  /\ requests[r].at = "ended" => EndsRightly(r)

PatientInv ==
  patient =>
    /\ ~down /\ (dead => ExcludedCall)
    /\ drawn = Ids(treeData)
    /\ Rooted(reported)
    /\ page = "main" <=> requests # <<>>
    /\ Begun
    /\ Open # {} => Open \subseteq {Len(reported)} /\ AsksModel
    /\ \A r \in 1..Len(requests) : Asks(r)
    /\ Phase

-----------------------------------------------------------------------------
(* Lemmas about requests and the tree.                                     *)

LEMMA LatestFacts ==
  ASSUME TypeOK, requests # <<>>
  PROVE  /\ Current = Len(requests) /\ Current \in Nat \ {0} /\ Current \in 1..Len(requests)
         /\ Latest = requests[Current] /\ Latest \in Requests
         /\ Latest.kind \in {"functions", "next", "lines", "node", "model"}
         /\ Main <=> Latest.kind \notin {"lines", "node"}
<1>1. requests \in Seq(Requests)
  BY DEF TypeOK, ServerTypeOK
<1>2. Len(requests) \in Nat \ {0} /\ Len(requests) \in 1..Len(requests)
  BY <1>1
<1>3. Latest \in Requests
  BY <1>1, <1>2 DEF Latest
<1>4. Latest.kind \in {"functions", "next", "lines", "node", "model"}
  BY <1>3 DEF Requests
<1> QED BY <1>2, <1>3, <1>4 DEF Current, Latest, Main, ExcludesBlocks

\* A request that has not ended is the latest.
LEMMA TheLatest ==
  ASSUME TypeOK, PatientInv, patient, NEW r \in 1..Len(requests), requests[r].at # "ended"
  PROVE  r = Len(requests) /\ requests # <<>> /\ Latest = requests[r] /\ Asks(r)
<1>1. Asks(r) /\ requests \in Seq(Requests)
  BY DEF PatientInv, TypeOK, ServerTypeOK
<1>2. Len(requests) \in Nat
  BY <1>1
<1>3. ~(r < Len(requests))
  BY <1>1 DEF Asks, Current
<1>4. r = Len(requests)
  BY <1>2, <1>3
<1>5. Len(requests) # 0
  BY <1>2
<1> QED BY <1>1, <1>4, <1>5 DEF Latest

\* The latest request moves on: the questions asked so far are the same.
LEMMA LatestMoves ==
  ASSUME TypeOK, requests # <<>>, NEW x \in Requests,
         requests' = [requests EXCEPT ![Len(requests)] = x],
         x.kind = Latest.kind, x.arg = Latest.arg, UNCHANGED reported
  PROVE  /\ Latest' = x /\ Current' = Current /\ requests' # <<>>
         /\ Len(requests') = Len(requests)
         /\ Open' = Open /\ (Main' <=> Main)
         /\ \A q : Exclusion(q)' <=> Exclusion(q)
         /\ \A y : Idle(y)' <=> Idle(y)
         /\ \A m : Aside(m)' <=> Aside(m)
         /\ ExcludedCall' <=> ExcludedCall
         /\ (\A r \in 1..Len(requests) : Asks(r)) /\ Asks(Current)'
              => \A r \in 1..Len(requests') : Asks(r)'
         /\ Begun /\ UNCHANGED <<executor, owed, started>> /\ (x.at = "ended" => executor # "none")
              /\ (x.kind = "next" /\ x.at = "ended" => started) => Begun'
<1>1. PICK n : n = Len(requests)
  OBVIOUS
<1>2. requests \in Seq(Requests) /\ n \in Nat /\ n # 0 /\ n \in 1..n
  BY <1>1 DEF TypeOK, ServerTypeOK
<1>3. /\ requests' \in Seq(Requests) /\ Len(requests') = n
      /\ requests'[n] = x /\ \A j \in 1..n : j # n => requests'[j] = requests[j]
  BY <1>1, <1>2, ChangeAt
<1>4. Latest' = x /\ Current' = Current /\ Current = n /\ requests' # <<>>
  BY <1>1, <1>2, <1>3 DEF Latest, Current
<1>5. \A j \in 1..n : requests'[j].kind = requests[j].kind /\ requests'[j].arg = requests[j].arg
  BY <1>1, <1>3 DEF Latest
<1>6. \A j \in 1..n : ExcludesBlocks(j)' <=> ExcludesBlocks(j)
  BY <1>5 DEF ExcludesBlocks
<1>7. \A q : Exclusion(q)' <=> Exclusion(q)
  BY <1>1, <1>3, <1>6 DEF Exclusion
<1>8. (\A y : Idle(y)' <=> Idle(y)) /\ (\A m : Aside(m)' <=> Aside(m))
  <2>1. \A y : Idle(y)' <=> Idle(y)
    BY <1>7 DEF Idle
  <2>2. \A m : Exclusion(m.request) => m.request \in 1..n
    BY <1>1 DEF Exclusion
  <2>3. \A m : Aside(m)' <=> Aside(m)
    BY <1>5, <1>7, <2>2 DEF Aside
  <2> QED BY <2>1, <2>3
<1>9. Main' <=> Main
  BY <1>1, <1>2, <1>3, <1>4, <1>6 DEF Main
<1>10. Open' = Open /\ (ExcludedCall' <=> ExcludedCall)
  <2>1. \A a : Asked("model", a)' <=> Asked("model", a)
    BY <1>1, <1>3, <1>5 DEF Asked
  <2>2. \A a : IsCall(a)' <=> IsCall(a)
    BY DEF IsCall
  <2>3. ExcludedCall' <=> ExcludedCall
    BY <1>1, <1>3, <1>5, <2>2 DEF ExcludedCall
  <2> QED BY <2>1, <2>3 DEF Open
<1>11. ASSUME \A r \in 1..n : Asks(r), Asks(Current)', NEW r \in 1..n PROVE Asks(r)'
  <2>1. CASE r = n
    BY <1>4, <1>11, <2>1 DEF Asks, EndsRightly, ExcludesBlocks
  <2>2. CASE r # n
    <3>1. Asks(r) /\ r < n /\ r \in Nat
      BY <1>2, <1>11, <2>2
    <3>2. requests'[r] = requests[r]
      BY <1>3, <2>2
    <3>3. {q \in 1..r : ExcludesBlocks(q)}' = {q \in 1..r : ExcludesBlocks(q)}
      <4>1. \A q \in 1..r : q \in 1..n
        BY <1>2, <3>1
      <4> QED BY <1>6, <4>1
    <3>4. EndsRightly(r)' <=> EndsRightly(r)
      BY <1>6, <3>2, <3>3 DEF EndsRightly
    <3> QED BY <1>4, <3>1, <3>2, <3>4 DEF Asks
  <2> QED BY <2>1, <2>2
<1>12. ASSUME Begun, UNCHANGED <<executor, owed, started>>, x.at = "ended" => executor # "none",
              x.kind = "next" /\ x.at = "ended" => started
       PROVE  Begun'
  <2>1. \A r \in 1..n : ExcludesBlocks(r)' \/ (requests'[r].kind = "next" /\ requests'[r].at = "ended")
                        => started'
    <3> SUFFICES ASSUME NEW r \in 1..n,
                        ExcludesBlocks(r)' \/ (requests'[r].kind = "next" /\ requests'[r].at = "ended")
                 PROVE  started
      BY <1>12
    <3>1. CASE ExcludesBlocks(r)'
      BY <1>1, <1>6, <1>12, <3>1 DEF Begun
    <3>2. CASE r = n /\ requests'[r].kind = "next" /\ requests'[r].at = "ended"
      BY <1>3, <1>12, <3>2
    <3>3. CASE r # n /\ requests'[r].kind = "next" /\ requests'[r].at = "ended"
      BY <1>1, <1>3, <1>12, <3>3 DEF Begun
    <3> QED BY <3>1, <3>2, <3>3
  <2>2. executor' = "none" => Latest'.kind = "functions" /\ Latest'.at # "ended"
    BY <1>4, <1>12 DEF Begun
  <2>3. /\ started' => executor' # "none"
        /\ AsksModel' \/ owed' = "nodes" \/ reported' # <<>> => started'
    BY <1>12 DEF Begun, AsksModel
  <2> QED BY <1>3, <2>1, <2>2, <2>3 DEF Begun
<1> QED BY <1>1, <1>3, <1>4, <1>7, <1>8, <1>9, <1>10, <1>11, <1>12

\* The requests are as before: so is what is known of them.
LEMMA SameRequests ==
  ASSUME UNCHANGED requests
  PROVE  /\ Latest' = Latest /\ Current' = Current /\ (Main' <=> Main) /\ (Waits' <=> Waits)
         /\ \A q : Exclusion(q)' <=> Exclusion(q)
         /\ \A y : Idle(y)' <=> Idle(y)
         /\ \A m : Aside(m)' <=> Aside(m)
         /\ \A n : Asked("model", n)' <=> Asked("model", n)
         /\ reported' = reported =>
              Open' = Open /\ (ExcludedCall' <=> ExcludedCall)
              /\ \A r \in 1..Len(requests) : Asks(r)' <=> Asks(r)
<1>1. Latest' = Latest /\ Current' = Current
  BY DEF Latest, Current
<1>2. \A q : ExcludesBlocks(q)' <=> ExcludesBlocks(q)
  BY DEF ExcludesBlocks
<1>3. \A q : Exclusion(q)' <=> Exclusion(q)
  BY <1>2 DEF Exclusion
<1>4. (\A y : Idle(y)' <=> Idle(y)) /\ (\A m : Aside(m)' <=> Aside(m))
  BY <1>3 DEF Idle, Aside
<1>5. (Main' <=> Main) /\ (Waits' <=> Waits)
  BY <1>1, <1>2, <1>4 DEF Main, Waits
<1>6. \A n : Asked("model", n)' <=> Asked("model", n)
  BY DEF Asked
<1>7. ASSUME reported' = reported
      PROVE  Open' = Open /\ (ExcludedCall' <=> ExcludedCall)
             /\ \A r \in 1..Len(requests) : Asks(r)' <=> Asks(r)
  <2>1. Open' = Open
    BY <1>6, <1>7 DEF Open
  <2>2. ExcludedCall' <=> ExcludedCall
    BY <1>7 DEF ExcludedCall, IsCall
  <2>3. \A r : EndsRightly(r)' <=> EndsRightly(r)
    BY <1>2 DEF EndsRightly
  <2>4. \A r \in 1..Len(requests) : Asks(r)' <=> Asks(r)
    BY <1>1, <1>7, <2>3 DEF Asks
  <2> QED BY <2>1, <2>2, <2>4
<1> QED BY <1>1, <1>3, <1>4, <1>5, <1>6, <1>7

LEMMA NothingIdle ==
  /\ Idle(Nothing)
  /\ \A y : Idle(y) => y.kind \in {"nothing", "lines"} /\ y.nodes = <<>>
<1> QED BY DEF Idle, Nothing

\* Every node finds its parent's circle: the page draws the whole reply.
LEMMA AllDrawn ==
  ASSUME NEW ns \in Seq(Nodes), treeData \in Seq(Nodes), reported \in Seq(Nodes),
         treeData \o ns = reported, Rooted(reported), Numbered(reported), drawn = Ids(treeData),
         AddNodes(ns)
  PROVE  treeData' = reported /\ drawn' = Ids(reported)
<1>1. PICK m : m = Len(treeData)
  OBVIOUS
<1>2. PICK n : n = Len(ns)
  OBVIOUS
<1>3. /\ m \in Nat /\ n \in Nat /\ Len(reported) = m + n
      /\ \A k \in 1..m : reported[k] = treeData[k]
      /\ \A k \in 1..n : reported[m + k] = ns[k]
  BY <1>1, <1>2, Joined
<1>4. ASSUME NEW j \in 1..n PROVE Attaches(ns, j)
  <2>1. m + j \in 1..(m + n)
    BY <1>3
  <2>2. CASE m + j = 1
    <3>1. m = 0 /\ j = 1
      BY <1>3, <2>2
    <3>2. treeData = <<>>
      <4>1. Len(treeData) = 0 /\ treeData \in Seq(Nodes)
        BY <1>1, <3>1
      <4> QED BY <4>1
    <3> QED BY <3>1, <3>2 DEF Attaches
  <2>3. CASE m + j # 1
    <3>1. ns[j] = reported[m + j] /\ ns[j].parent \in 0..(m + j - 2)
      BY <1>3, <2>1, <2>3 DEF Rooted
    <3>2. PICK p : p = ns[j].parent + 1
      OBVIOUS
    <3>3. p \in 1..(m + j - 1) /\ p - 1 = ns[j].parent
      <4>1. \A v \in 0..(m + j - 2) : v + 1 \in 1..(m + j - 1) /\ (v + 1) - 1 = v
        BY <1>3
      <4> QED BY <3>1, <3>2, <4>1
    <3>4. p \in 1..(m + n) /\ reported[p].node = ns[j].parent
      <4>1. p \in 1..(m + n)
        BY <1>3, <3>3
      <4>2. reported[p].node = p - 1
        BY <1>3, <4>1 DEF Numbered
      <4> QED BY <3>3, <4>1, <4>2
    <3>5. CASE p \in 1..m
      <4>1. treeData[p].node = ns[j].parent
        BY <1>3, <3>4, <3>5
      <4>2. ns[j].parent \in Ids(treeData)
        BY <1>1, <3>5, <4>1 DEF Ids
      <4> QED BY <4>2 DEF Attaches
    <3>6. CASE p \notin 1..m
      <4>1. PICK i : i = p - m
        OBVIOUS
      <4>2. i \in 1..(j - 1) /\ i \in 1..n /\ p = m + i
        BY <1>3, <3>3, <3>6, <4>1
      <4>3. ns[i].node = ns[j].parent
        BY <1>3, <3>4, <4>2
      <4> QED BY <4>2, <4>3 DEF Attaches
    <3> QED BY <3>5, <3>6
  <2> QED BY <2>2, <2>3
<1>5. PICK read : read = {j \in 1..Len(ns) : \A i \in 1..(j - 1) : Attaches(ns, i)}
  OBVIOUS
<1>6. read = 1..n
  BY <1>2, <1>3, <1>4, <1>5
<1>7. Cardinality(read) = n
  <2>1. Cardinality(1..n) = IF 1 > n THEN 0 ELSE n - 1 + 1
    BY <1>3, FS_Interval
  <2> QED BY <1>3, <1>6, <2>1
<1>8. SubSeq(ns, 1, n) = ns
  BY <1>2
<1>9. /\ treeData' = treeData \o SubSeq(ns, 1, Cardinality(read))
      /\ drawn' = drawn \cup {ns[j].node : j \in {k \in read : Attaches(ns, k)}}
  BY <1>5 DEF AddNodes
<1>10. drawn' = Ids(treeData) \cup Ids(ns)
  <2>1. {k \in read : Attaches(ns, k)} = 1..n
    BY <1>4, <1>6
  <2> QED BY <1>2, <1>9, <2>1 DEF Ids
<1>11. Ids(treeData) \cup Ids(ns) = Ids(reported)
  <2>1. ASSUME NEW k \in 1..(m + n), k \notin 1..m PROVE k - m \in 1..n /\ k = m + (k - m)
    BY <1>3, <2>1
  <2>2. /\ \A k \in 1..m : k \in 1..(m + n)
        /\ \A k \in 1..n : m + k \in 1..(m + n)
    BY <1>3
  <2>3. Ids(treeData) \subseteq Ids(reported)
    BY <1>1, <1>3, <2>2 DEF Ids
  <2>4. Ids(ns) \subseteq Ids(reported)
    BY <1>2, <1>3, <2>2 DEF Ids
  <2>5. Ids(reported) \subseteq Ids(treeData) \cup Ids(ns)
    <3> SUFFICES ASSUME NEW k \in 1..(m + n)
                 PROVE  reported[k].node \in Ids(treeData) \cup Ids(ns)
      BY <1>3, Zenon DEF Ids
    <3>1. CASE k \in 1..m
      <4>1. reported[k].node = treeData[k].node /\ k \in 1..Len(treeData)
        BY <1>1, <1>3, <3>1
      <4> QED BY <4>1, Zenon DEF Ids
    <3>2. CASE k \notin 1..m
      <4>1. PICK i \in 1..n : reported[k] = ns[i]
        BY <1>3, <2>1, <3>2
      <4>2. reported[k].node = ns[i].node /\ i \in 1..Len(ns)
        BY <1>2, <4>1
      <4> QED BY <4>2, Zenon DEF Ids
    <3> QED BY <3>1, <3>2
  <2> QED BY <2>3, <2>4, <2>5
<1> QED BY <1>7, <1>8, <1>9, <1>10, <1>11

-----------------------------------------------------------------------------
(* The server and the page.                                                *)

\* A handler answers the latest request: it passes a new one on, and fetches the
\* reply for one that asks again.
LEMMA HandleStep ==
  ASSUME TypeOK, PatientInv, patient, NEW r \in 1..Len(requests), Handle(r),
         UNCHANGED <<pageVars, patient, executorVars>>
  PROVE  PatientInv'
<1>1. /\ r = Len(requests) /\ requests # <<>> /\ Latest = requests[r] /\ Asks(r)
      /\ Latest.at = "sent"
  <2>1. requests[r].at = "sent"
    BY DEF Handle, HandleNext, HandleMetadata, HandleConstraints, HandleExclude, Arrives
  <2> QED BY <2>1, TheLatest
<1>2. /\ Current = r /\ Latest \in Requests
      /\ Latest.kind \in {"functions", "next", "lines", "node", "model"}
      /\ Main <=> Latest.kind \notin {"lines", "node"}
  BY <1>1, LatestFacts DEF Current
<1>3. PICK m : m = [kind |-> Latest.kind, request |-> r, arg |-> Latest.arg]
  OBVIOUS
<1>4. PICK y \in {toSend, Nothing} :
        /\ Respond(r, y)
        /\ written' = IF Latest.ping THEN written ELSE Append(written, m)
        /\ Latest.ping => y = toSend /\ toSend' = Nothing
        /\ toSend' \in {toSend, Nothing}
        /\ Latest.kind = "node" => ~Latest.ping /\ y = Nothing
        /\ UNCHANGED <<received, down>>
  <2>1. Latest.kind = "node" => ~Latest.ping
    BY <1>1 DEF Asks
  <2>2. PassOn(r) => written' = IF Latest.ping THEN written ELSE Append(written, m)
    BY <1>1, <1>3 DEF PassOn
  <2>3. CASE HandleNext(r) \/ HandleMetadata(r)
    BY <1>1, <2>2, <2>3 DEF HandleNext, HandleMetadata, Fetch, Arrives
  <2>4. CASE HandleConstraints(r) \/ HandleExclude(r)
    <3>1. CASE requests[r].ping
      BY <1>1, <2>1, <2>2, <2>4, <3>1 DEF HandleConstraints, HandleExclude, Fetch
    <3>2. CASE ~requests[r].ping
      BY <1>1, <2>1, <2>2, <2>4, <3>2 DEF HandleConstraints, HandleExclude
    <3> QED BY <3>1, <3>2
  <2> QED BY <2>3, <2>4 DEF Handle
<1>5. PICK x : x = [Latest EXCEPT !.at = "answered", !.response = y]
  OBVIOUS
<1>6. /\ x \in Requests /\ x.at = "answered" /\ x.response = y /\ x.ping = Latest.ping
      /\ x.kind = Latest.kind /\ x.arg = Latest.arg
  BY <1>2, <1>4, <1>5 DEF Requests, TypeOK, ServerTypeOK
<1>7. requests' = [requests EXCEPT ![Len(requests)] = x]
  BY <1>1, <1>4, <1>5 DEF Respond
<1>8. UNCHANGED <<reported, treeData, drawn, page, executor, doing, owed, started, dead>>
  BY DEF pageVars, executorVars
<1>9. /\ Latest' = x /\ Current' = Current /\ requests' # <<>>
      /\ Open' = Open /\ (Main' <=> Main)
      /\ \A q : Exclusion(q)' <=> Exclusion(q)
      /\ \A z : Idle(z)' <=> Idle(z)
      /\ \A z : Aside(z)' <=> Aside(z)
      /\ ExcludedCall' <=> ExcludedCall
  BY <1>1, <1>6, <1>7, <1>8, LatestMoves
<1>10. \A q \in 1..Len(requests') : Asks(q)'
  <2>1. Asks(Current)'
    <3>1. requests'[Current'] = x
      BY <1>9 DEF Latest, Current
    <3>2. ~(Current' < Current')
      BY <1>1, <1>9, LatestFacts
    <3> QED BY <1>1, <1>4, <1>6, <1>8, <1>9, <3>1, <3>2 DEF Asks
  <2>2. \A q \in 1..Len(requests) : Asks(q)
    BY DEF PatientInv
  <2> QED BY <1>1, <1>6, <1>7, <1>8, <2>1, <2>2, LatestMoves
<1>11. Begun'
  BY <1>1, <1>6, <1>7, <1>8, LatestMoves DEF PatientInv
<1>12. ASSUME Waits
       PROVE  Latest.ping /\ y = toSend /\ toSend' = Nothing /\ written' = written
              /\ (Idle(toSend) => Waits')
  <2>1. Latest.ping
    BY <1>1, <1>12 DEF Waits
  <2> QED BY <1>4, <1>6, <1>9, <2>1 DEF Waits
<1>13. Idle(toSend) => Idle(toSend)'
  BY <1>4, <1>9, NothingIdle
<1>14. (AsksModel' <=> AsksModel) /\ (Settled /\ written' = written => Settled')
  BY <1>8, <1>9 DEF AsksModel, Settled
<1>15. Slack => Slack'
  BY <1>4, <1>8, <1>9, <1>13 DEF Slack
<1>16. \A z : Answers(z) => Answers(z)'
  BY <1>6, <1>8, <1>9 DEF Answers
<1>17. ASSUME Free PROVE Phase'
  <2>1. Open = {} /\ (AsksModel => written = <<>> /\ Latest.kind = "model") /\ Idle(y)
    BY <1>1, <1>4, <1>17, NothingIdle DEF Free, Slack
  <2>2. CASE Latest.ping
    <3>1. written' = written /\ Waits'
      BY <1>4, <1>6, <1>9, <2>1, <2>2 DEF Waits
    <3> QED BY <1>6, <1>8, <1>9, <1>14, <1>15, <1>17, <2>1, <3>1 DEF Free, Phase
  <2>3. CASE ~Latest.ping
    <3>1. PICK n : n = Len(written)
      OBVIOUS
    <3>2. written \in Seq(Messages) /\ m \in Messages
      BY <1>2, <1>3 DEF TypeOK, ServerTypeOK, Requests, Messages
    <3>3. /\ n \in Nat /\ Len(written') = n + 1
          /\ \A i \in 1..n : written'[i] = written[i]
          /\ written'[n + 1] = m
      BY <1>4, <2>3, <3>1, <3>2, AppendTo
    <3>4. \A i \in 1..n : Aside(written[i])'
      BY <1>9, <1>17, <3>1, <3>3 DEF Free
    <3>5. Waits'
      BY <1>6, <1>9, <2>1 DEF Waits
    <3>6. CASE Main
      <4>1. n + 1 \in Nat \ {0} /\ (n + 1) - 1 = n
        BY <3>3
      <4>2. Latest.kind = "model" => AsksModel /\ n + 1 = 1
        <5>1. Latest.kind = "model" => AsksModel
          BY <1>1, <1>17, <2>3 DEF Free
        <5>2. AsksModel => n = 0
          BY <2>1, <3>1
        <5> QED BY <5>1, <5>2
      <4>3. \A i \in 1..((n + 1) - 1) : Aside(written[i])'
        BY <3>4, <4>1
      <4>4. written'[n + 1].kind = Latest'.kind /\ written'[n + 1].request = Current'
        BY <1>2, <1>3, <1>6, <1>9, <3>3
      <4>5. Passing'
        BY <1>6, <1>8, <1>9, <1>14, <1>15, <1>17, <2>1, <3>3, <3>5, <4>1, <4>2, <4>3, <4>4
           DEF Passing, Free
      <4> QED BY <1>9, <3>6, <4>5 DEF Phase
    <3>7. CASE ~Main
      <4>1. Aside(m)
        BY <1>1, <1>2, <1>3, <3>7 DEF Aside, Exclusion, ExcludesBlocks
      <4>2. \A i \in 1..(n + 1) : i \in 1..n \/ i = n + 1
        BY <3>3
      <4>3. \A i \in 1..Len(written') : Aside(written[i])'
        BY <1>9, <3>3, <3>4, <4>1, <4>2
      <4>4. ~AsksModel
        BY <1>2, <2>1, <3>7
      <4> QED BY <1>6, <1>8, <1>9, <1>14, <1>15, <1>17, <2>1, <3>5, <4>3, <4>4 DEF Free, Phase
    <3> QED BY <3>6, <3>7
  <2> QED BY <2>2, <2>3
<1>18. Passing => Passing'
  BY <1>6, <1>8, <1>9, <1>12, <1>14, <1>15 DEF Passing, Slack
<1>19. Computing => Computing'
  BY <1>4, <1>6, <1>8, <1>9, <1>12, <1>13 DEF Computing
<1>20. Arriving => Arriving'
  BY <1>4, <1>9, <1>12, <1>13, <1>14, <1>16 DEF Arriving
<1>21. InSlot => Answering'
  BY <1>4, <1>6, <1>9, <1>12, <1>14, <1>16 DEF InSlot, Answering
<1>22. ~Answering
  BY <1>1 DEF Answering
<1>23. Phase'
  BY <1>9, <1>17, <1>18, <1>19, <1>20, <1>21, <1>22 DEF PatientInv, Phase
<1> QED BY <1>4, <1>1, <1>8, <1>9, <1>10, <1>11, <1>14, <1>23 DEF PatientInv

\* The data event puts the next reply into the slot.
LEMMA DataStep ==
  ASSUME TypeOK, PatientInv, patient, Data, UNCHANGED <<pageVars, patient, executorVars>>
  PROVE  PatientInv'
<1>1. received # <<>> /\ received' = Tail(received) /\ UNCHANGED <<written, requests>>
  BY DEF Data
<1>2. UNCHANGED <<reported, treeData, drawn, page, executor, doing, owed, started, dead>>
  BY DEF pageVars, executorVars
<1>3. PICK n : n = Len(received)
  OBVIOUS
<1>4. /\ n \in Nat \ {0} /\ Len(received') = n - 1 /\ Head(received) = received[1]
      /\ \A k \in 1..(n - 1) : received'[k] = received[k + 1]
  BY <1>1, <1>3, TailOf DEF TypeOK, ServerTypeOK
<1>5. /\ Latest' = Latest /\ Current' = Current /\ Open' = Open /\ (Main' <=> Main)
      /\ (Waits' <=> Waits) /\ (ExcludedCall' <=> ExcludedCall)
      /\ \A q : Exclusion(q)' <=> Exclusion(q)
      /\ \A y : Idle(y)' <=> Idle(y)
      /\ \A m : Aside(m)' <=> Aside(m)
      /\ \A r \in 1..Len(requests') : Asks(r)'
  BY <1>1, <1>2, SameRequests DEF PatientInv
<1>6. /\ AsksModel' <=> AsksModel
      /\ Begun'
      /\ Settled => Settled'
      /\ \A y : Answers(y) => Answers(y)'
  BY <1>1, <1>2, <1>5 DEF AsksModel, Begun, ExcludesBlocks, Settled, Answers, PatientInv
<1>7. ASSUME Idle(received[1]) PROVE down' = down /\ toSend' = received[1] /\ Idle(toSend)'
  <2>1. Head(received).kind # "broken"
    BY <1>4, <1>7, NothingIdle
  <2> QED BY <1>4, <1>5, <1>7, <2>1 DEF Data
<1>8. ASSUME \A i \in 1..n : Idle(received[i])
      PROVE  down' = down /\ Idle(toSend)' /\ \A i \in 1..Len(received') : Idle(received[i])'
  <2>1. 1 \in 1..n /\ \A i \in 1..(n - 1) : i + 1 \in 1..n
    BY <1>4
  <2>2. \A i \in 1..(n - 1) : Idle(received'[i])
    BY <1>4, <1>8, <2>1
  <2> QED BY <1>4, <1>5, <1>7, <1>8, <2>1, <2>2
<1>9. Slack => Slack' /\ down' = down
  BY <1>2, <1>3, <1>5, <1>8 DEF Slack
<1>10. Free => Free' /\ down' = down
  BY <1>1, <1>2, <1>5, <1>6, <1>9 DEF Free
<1>11. Passing => Passing' /\ down' = down
  BY <1>1, <1>2, <1>5, <1>6, <1>9 DEF Passing
<1>12. Computing => Computing' /\ down' = down
  BY <1>1, <1>2, <1>3, <1>5, <1>8 DEF Computing
<1>13. ASSUME Arriving, Main PROVE (Arriving' \/ InSlot') /\ down' = down
  <2>1. (\A i \in 1..(n - 1) : Idle(received[i])) /\ Answers(received[n])
    BY <1>3, <1>13 DEF Arriving
  <2>2. CASE n = 1
    <3>1. received[1].kind # "broken"
      <4>1. requests # <<>> /\ Latest.kind \in {"functions", "next", "model"}
        BY <1>13, LatestFacts DEF Main
      <4> QED BY <2>1, <2>2, <4>1 DEF Answers, Wanted
    <3>2. toSend' = received[1] /\ down' = down
      BY <1>4, <3>1 DEF Data
    <3>3. received' = <<>>
      <4>1. received' \in Seq(Replies) /\ Len(received') = 0
        BY <1>1, <1>4, <2>2, TailOf DEF TypeOK, ServerTypeOK
      <4> QED BY <4>1
    <3> QED BY <1>5, <1>6, <1>13, <2>1, <2>2, <3>2, <3>3 DEF Arriving, InSlot
  <2>3. CASE n # 1
    <3>1. n - 1 \in Nat \ {0} /\ 1 \in 1..(n - 1) /\ (n - 1) + 1 = n /\ n - 1 \in 1..(n - 1)
      BY <1>4, <2>3
    <3>2. \A i \in 1..((n - 1) - 1) : i \in 1..(n - 1) /\ i + 1 \in 1..(n - 1)
      BY <1>4
    <3>3. \A i \in 1..((n - 1) - 1) : Idle(received[i])'
      BY <1>4, <1>5, <2>1, <3>2
    <3>4. Answers(received[n - 1])'
      BY <1>4, <1>6, <2>1, <3>1
    <3>5. down' = down /\ Idle(toSend)'
      BY <1>7, <2>1, <3>1
    <3> QED BY <1>4, <1>5, <1>6, <1>13, <3>1, <3>3, <3>4, <3>5 DEF Arriving
  <2> QED BY <2>2, <2>3
<1>14. ~InSlot /\ ~Answering
  BY <1>1 DEF InSlot, Answering
<1>15. Phase' /\ down' = down
  BY <1>5, <1>10, <1>11, <1>12, <1>13, <1>14 DEF PatientInv, Phase
<1> QED BY <1>1, <1>2, <1>5, <1>6, <1>15 DEF PatientInv

\* A callback of the page ends the loop with its reply, and asks again without.
LEMMA CallbackStep ==
  ASSUME TypeOK, OnceInv, PatientInv, patient, NEW r \in 1..Len(requests), Callback(r),
         UNCHANGED <<serverVars, patient, executorVars>>
  PROVE  PatientInv'
<1>1. requests[r].at = "answered"
  BY DEF Callback, DrawNodes, HighlightLines, ListFunctions, MarkExcluded, Comes
<1>2. r = Len(requests) /\ requests # <<>> /\ Latest = requests[r] /\ Asks(r)
  BY <1>1, TheLatest
<1>3. /\ Current = r /\ Current \in Nat \ {0} /\ r \in 1..r /\ Latest \in Requests
      /\ Latest.kind \in {"functions", "next", "lines", "node", "model"}
      /\ Main <=> Latest.kind \notin {"lines", "node"}
  BY <1>2, LatestFacts
<1>4. UNCHANGED <<reported, toSend, written, received, down, executor, doing, owed, started, dead>>
  BY DEF serverVars, executorVars
<1>5. page' = page /\ \A q \in 1..Len(requests) : Asks(q)
  BY DEF Callback, DrawNodes, HighlightLines, ListFunctions, MarkExcluded, pageVars, PatientInv
<1>6. AsksModel' <=> AsksModel
  BY <1>4 DEF AsksModel
<1>7. ASSUME Idle(Latest.response), AsksAgain(r), UNCHANGED <<treeData, drawn>>,
             Latest.kind # "node", ~Answering
      PROVE  PatientInv'
  <2>1. PICK x : x = [Latest EXCEPT !.at = "timer", !.ping = TRUE, !.response = Nothing]
    OBVIOUS
  <2>2. x \in Requests /\ x.at = "timer" /\ x.ping /\ x.kind = Latest.kind /\ x.arg = Latest.arg
    BY <1>3, <2>1 DEF Requests
  <2>3. requests' = [requests EXCEPT ![Len(requests)] = x]
    BY <1>2, <1>7, <2>1 DEF AsksAgain
  <2>4. /\ Latest' = x /\ Current' = Current /\ requests' # <<>>
        /\ Open' = Open /\ (Main' <=> Main)
        /\ \A q : Exclusion(q)' <=> Exclusion(q)
        /\ \A y : Idle(y)' <=> Idle(y)
        /\ \A m : Aside(m)' <=> Aside(m)
        /\ ExcludedCall' <=> ExcludedCall
    BY <1>2, <1>4, <2>2, <2>3, LatestMoves
  <2>5. Asks(Current)'
    <3>1. requests'[Current'] = x /\ ~(Current' < Current')
      BY <1>2, <1>3, <2>4 DEF Latest, Current
    <3> QED BY <1>2, <1>3, <1>4, <1>7, <2>2, <2>4, <3>1 DEF Asks
  <2>6. (\A q \in 1..Len(requests') : Asks(q)') /\ Begun'
    BY <1>2, <1>4, <1>5, <2>2, <2>3, <2>5, LatestMoves DEF PatientInv
  <2>7. Waits'
    BY <2>2, <2>4 DEF Waits
  <2>8. /\ Settled => Settled'
        /\ Slack => Slack'
        /\ \A y : Answers(y) => Answers(y)'
    BY <1>4, <1>6, <1>7, <2>2, <2>4 DEF Settled, Slack, Answers
  <2>9. /\ Free => Free'
        /\ Passing => Passing'
    BY <1>1, <1>2, <1>4, <1>6, <1>7, <2>2, <2>4, <2>7, <2>8 DEF Free, Passing
  <2>10. /\ Computing => Computing'
         /\ Arriving => Arriving'
         /\ InSlot => InSlot'
    BY <1>4, <1>7, <2>2, <2>4, <2>7, <2>8 DEF Computing, Arriving, InSlot
  <2>11. Phase'
    BY <1>7, <2>4, <2>9, <2>10 DEF PatientInv, Phase
  <2> QED BY <1>2, <1>4, <1>5, <1>6, <1>7, <2>4, <2>6, <2>11 DEF PatientInv
\* The loop ends.
<1>8. PICK x : x = [Latest EXCEPT !.at = "ended"]
  OBVIOUS
<1>9. /\ x \in Requests /\ x.at = "ended" /\ x.response = Latest.response /\ x.ping = Latest.ping
      /\ x.kind = Latest.kind /\ x.arg = Latest.arg
  BY <1>3, <1>8 DEF Requests
<1>10. ASSUME Ends(r)
       PROVE  /\ Latest' = x /\ Current' = Current /\ requests' # <<>> /\ requests'[r] = x
              /\ Open' = Open /\ (Main' <=> Main)
              /\ \A q : Exclusion(q)' <=> Exclusion(q)
              /\ \A y : Idle(y)' <=> Idle(y)
              /\ \A m : Aside(m)' <=> Aside(m)
              /\ ExcludedCall' <=> ExcludedCall
              /\ Asks(Current)' => \A q \in 1..Len(requests') : Asks(q)'
              /\ Begun /\ executor # "none" /\ (x.kind = "next" => started) => Begun'
  <2>1. requests' = [requests EXCEPT ![Len(requests)] = x]
    BY <1>2, <1>8, <1>10 DEF Ends
  <2>2. /\ Latest' = x /\ Current' = Current /\ requests' # <<>>
        /\ Open' = Open /\ (Main' <=> Main)
        /\ \A q : Exclusion(q)' <=> Exclusion(q)
        /\ \A y : Idle(y)' <=> Idle(y)
        /\ \A m : Aside(m)' <=> Aside(m)
        /\ ExcludedCall' <=> ExcludedCall
        /\ Asks(Current)' => \A q \in 1..Len(requests') : Asks(q)'
    BY <1>2, <1>4, <1>5, <1>9, <2>1, LatestMoves
  <2>3. Begun /\ executor # "none" /\ (x.kind = "next" => started) => Begun'
    BY <1>2, <1>4, <1>9, <2>1, LatestMoves
  <2>4. requests'[r] = x
    BY <1>2, <1>3, <2>2 DEF Latest, Current
  <2> QED BY <2>2, <2>3, <2>4
<1>11. ASSUME Idle(Latest.response), Ends(r), UNCHANGED <<treeData, drawn>>, ~Main, Free,
              Latest.kind = "lines" => Latest.response.kind = "lines"
       PROVE  PatientInv'
  <2>1. Waits /\ Open = {} /\ (AsksModel => Latest.kind = "model") /\ Slack /\ treeData = reported
        /\ \A i \in 1..Len(written) : Aside(written[i])
    BY <1>1, <1>2, <1>11 DEF Free
  <2>2. ~AsksModel
    BY <1>3, <1>11, <2>1
  <2>3. started /\ executor # "none"
    BY <1>2, <1>3, <1>11 DEF PatientInv, Begun, Main
  <2>4. EndsRightly(r)'
    <3>1. ExcludesBlocks(r)' /\ requests'[r].kind = Latest.kind
      BY <1>2, <1>3, <1>9, <1>10, <1>11 DEF ExcludesBlocks
    <3>2. CASE Latest.kind = "lines"
      <4>1. PICK q : q = Latest.response.request
        OBVIOUS
      <4>2. Exclusion(q)
        BY <1>11, <3>2, <4>1 DEF Idle, Nothing
      <4>3. q \in 1..r /\ ExcludesBlocks(q)'
        <5>1. q \in 1..r
          BY <1>2, <4>2 DEF Exclusion
        <5>2. Exclusion(q)'
          BY <1>10, <1>11, <4>2
        <5> QED BY <5>1, <5>2 DEF Exclusion
      <4>4. requests'[r].response.request \in {p \in 1..r : ExcludesBlocks(p)'}
        BY <1>9, <1>10, <1>11, <4>1, <4>3
      <4> QED BY <3>1, <3>2, <4>4 DEF EndsRightly
    <3>3. CASE Latest.kind = "node"
      <4>1. requests'[r].response = Nothing
        BY <1>2, <1>9, <1>10, <1>11, <3>3 DEF Asks
      <4> QED BY <3>1, <3>3, <4>1 DEF EndsRightly
    <3> QED BY <1>3, <1>11, <3>2, <3>3
  <2>5. Asks(Current)'
    <3>1. ~(Current' < Current') /\ requests'[Current'] = x /\ EndsRightly(Current)'
      <4>1. Current' = r
        BY <1>3, <1>10, <1>11
      <4> QED BY <1>3, <1>10, <1>11, <2>4, <4>1 DEF EndsRightly, ExcludesBlocks
    <3> QED BY <1>2, <1>3, <1>4, <1>9, <1>10, <1>11, <3>1 DEF Asks
  <2>6. Begun'
    BY <1>10, <1>11, <2>3 DEF PatientInv
  <2>7. Slack'
    BY <1>4, <1>10, <1>11, <2>1 DEF Slack
  <2>8. Free'
    BY <1>4, <1>6, <1>9, <1>10, <1>11, <2>1, <2>2, <2>7 DEF Free
  <2> QED BY <1>2, <1>4, <1>5, <1>6, <1>10, <1>11, <2>5, <2>6, <2>8 DEF PatientInv, Phase
<1>12. CASE ~Main
  <2>1. Free /\ Waits /\ Idle(Latest.response)
    BY <1>1, <1>2, <1>12 DEF PatientInv, Phase, Free, Waits
  <2>2. CASE Latest.kind = "lines" /\ Latest.response.kind = "lines"
    <3>1. Ends(r) /\ UNCHANGED <<treeData, drawn>>
      BY <1>2, <2>2 DEF Callback, DrawNodes, HighlightLines, ListFunctions, MarkExcluded, Comes, pageVars
    <3> QED BY <1>11, <1>12, <2>1, <2>2, <3>1
  <2>3. CASE Latest.kind = "lines" /\ Latest.response.kind # "lines"
    <3>1. AsksAgain(r) /\ UNCHANGED <<treeData, drawn>>
      BY <1>2, <2>3 DEF Callback, DrawNodes, HighlightLines, ListFunctions, MarkExcluded, Comes, pageVars
    <3>2. ~Answering
      <4>1. \A y : Answers(y) => y \in Replies /\ y.kind = "lines"
        BY <2>3 DEF Answers, Wanted
      <4> QED BY <2>3, <4>1 DEF Answering
    <3> QED BY <1>7, <2>1, <2>3, <3>1, <3>2
  <2>4. CASE Latest.kind = "node"
    <3>1. Ends(r) /\ UNCHANGED <<treeData, drawn>>
      BY <1>2, <2>4 DEF Callback, DrawNodes, HighlightLines, ListFunctions, MarkExcluded, Comes, pageVars
    <3> QED BY <1>11, <1>12, <2>1, <2>4, <3>1
  <2> QED BY <1>3, <1>12, <2>2, <2>3, <2>4
<1>13. CASE Main /\ ~Answering
  <2>1. Idle(Latest.response)
    BY <1>1, <1>2, <1>13 DEF PatientInv, Phase, Free, Passing, Computing, Arriving, InSlot, Waits
  <2>2. AsksAgain(r) /\ UNCHANGED <<treeData, drawn>>
    <3>1. Latest.response.kind \in {"nothing", "lines"}
      BY <2>1, NothingIdle
    <3> QED BY <1>2, <1>3, <1>13, <3>1 DEF Callback, DrawNodes, HighlightLines, ListFunctions,
           MarkExcluded, Comes, pageVars
  <2> QED BY <1>3, <1>7, <1>13, <2>1, <2>2
<1>14. CASE Main /\ Answering
  <2>1. PICK y : y = Latest.response
    OBVIOUS
  <2>2. /\ y \in Replies /\ y.kind = Wanted(Latest.kind) /\ y.request = Current
        /\ (y.kind = "nodes" => started) /\ (y.kind # "nodes" => y.nodes = <<>>)
        /\ treeData \o y.nodes = reported
    BY <1>14, <2>1 DEF Answering, Answers
  <2>3. Latest.kind \in {"functions", "next", "model"}
    BY <1>3, <1>14
  <2>4. Ends(r)
    BY <1>2, <2>1, <2>2, <2>3 DEF Callback, DrawNodes, HighlightLines, ListFunctions, MarkExcluded,
       Comes, Wanted
  <2>5. treeData' = reported /\ drawn' = Ids(reported)
    <3>1. CASE Latest.kind \in {"next", "model"}
      <4>1. AddNodes(y.nodes)
        BY <1>2, <2>1, <2>2, <3>1 DEF Callback, DrawNodes, HighlightLines, ListFunctions,
           MarkExcluded, Comes, Wanted
      <4>2. y.nodes \in Seq(Nodes) /\ treeData \in Seq(Nodes) /\ reported \in Seq(Nodes)
        BY <2>2 DEF Replies, TypeOK, PageTypeOK
      <4> QED BY <2>2, <4>1, <4>2, AllDrawn DEF PatientInv, OnceInv
    <3>2. CASE Latest.kind = "functions"
      <4>1. UNCHANGED <<treeData, drawn>>
        BY <1>2, <3>2 DEF Callback, DrawNodes, HighlightLines, ListFunctions, MarkExcluded, Comes,
           pageVars
      <4>2. treeData = reported
        <5>1. treeData \o <<>> = reported /\ treeData \in Seq(Nodes)
          BY <2>2, <3>2 DEF Wanted, TypeOK, PageTypeOK
        <5> QED BY <5>1
      <4> QED BY <4>1, <4>2 DEF PatientInv
    <3> QED BY <2>3, <3>1, <3>2
  <2>6. /\ received = <<>> /\ toSend = Nothing /\ written = <<>>
        /\ executor \notin {"none", "computing"} /\ (AsksModel <=> Open # {})
    BY <1>14 DEF Answering, Settled
  <2>7. Asks(Current)'
    <3>1. Current' = r /\ ~(Current' < Current') /\ requests'[Current'] = x
      BY <1>3, <1>10, <2>4
    <3>2. EndsRightly(Current)'
      <4>1. requests'[Current'].kind \notin {"lines", "node"}
        BY <1>9, <2>3, <3>1
      <4>2. requests'[Current'].response.request = Current'
        BY <1>3, <1>9, <2>1, <2>2, <3>1
      <4> QED BY <4>1, <4>2 DEF EndsRightly, ExcludesBlocks
    <3> QED BY <1>2, <1>3, <1>4, <1>9, <2>3, <3>1, <3>2 DEF Asks
  <2>8. Begun'
    <3>1. x.kind = "next" => started
      BY <1>9, <2>2 DEF Wanted
    <3> QED BY <1>10, <2>4, <2>6, <3>1 DEF PatientInv
  <2>9. Slack'
    BY <1>4, <1>10, <2>4, <2>6, NothingIdle DEF Slack
  <2>10. Free'
    BY <1>4, <1>6, <1>9, <1>10, <2>4, <2>5, <2>6, <2>9 DEF Free
  <2> QED BY <1>2, <1>4, <1>5, <1>6, <1>10, <2>4, <2>5, <2>7, <2>8, <2>10 DEF PatientInv, Phase
<1> QED BY <1>12, <1>13, <1>14

\* A timer of the page sends the latest request again.
LEMMA PingStep ==
  ASSUME TypeOK, PatientInv, patient, NEW r \in 1..Len(requests), Ping(r),
         UNCHANGED <<serverVars, patient, executorVars>>
  PROVE  PatientInv'
<1>1. requests[r].at = "timer" /\ requests' = [requests EXCEPT ![r].at = "sent"]
      /\ UNCHANGED <<page, treeData, drawn>>
  BY DEF Ping, pageVars
<1>2. r = Len(requests) /\ requests # <<>> /\ Latest = requests[r] /\ Asks(r)
  BY <1>1, TheLatest
<1>3. Current = r /\ Latest \in Requests /\ Current \in Nat \ {0} /\ r \in 1..r
  BY <1>2, LatestFacts
<1>4. UNCHANGED <<reported, toSend, written, received, down, executor, doing, owed, started, dead>>
  BY DEF serverVars, executorVars
<1>5. Waits /\ Latest.ping /\ ~Answering
  BY <1>1, <1>2 DEF PatientInv, Phase, Free, Passing, Computing, Arriving, InSlot, Answering, Waits
<1>6. PICK x : x = [Latest EXCEPT !.at = "sent"]
  OBVIOUS
<1>7. /\ x \in Requests /\ x.at = "sent" /\ x.ping /\ x.response = Latest.response
      /\ x.kind = Latest.kind /\ x.arg = Latest.arg
  BY <1>3, <1>5, <1>6 DEF Requests
<1>8. requests' = [requests EXCEPT ![Len(requests)] = x]
  BY <1>1, <1>2, <1>6
<1>9. /\ Latest' = x /\ Current' = Current /\ requests' # <<>>
      /\ Open' = Open /\ (Main' <=> Main)
      /\ \A q : Exclusion(q)' <=> Exclusion(q)
      /\ \A y : Idle(y)' <=> Idle(y)
      /\ \A m : Aside(m)' <=> Aside(m)
      /\ ExcludedCall' <=> ExcludedCall
  BY <1>2, <1>4, <1>7, <1>8, LatestMoves
<1>10. (\A q \in 1..Len(requests') : Asks(q)') /\ Begun'
  <2>1. requests'[Current'] = x /\ ~(Current' < Current')
    BY <1>2, <1>3, <1>9 DEF Latest, Current
  <2>2. Asks(Current)'
    BY <1>2, <1>4, <1>5, <1>7, <1>9, <2>1 DEF Asks
  <2>3. (\A q \in 1..Len(requests) : Asks(q)) /\ Begun
    BY DEF PatientInv
  <2> QED BY <1>2, <1>4, <1>7, <1>8, <2>2, <2>3, LatestMoves
<1>11. Waits' /\ (AsksModel' <=> AsksModel)
  BY <1>4, <1>7, <1>9 DEF Waits, AsksModel
<1>12. /\ Settled => Settled'
       /\ Slack => Slack'
       /\ \A y : Answers(y) => Answers(y)'
  BY <1>1, <1>4, <1>7, <1>9, <1>11 DEF Settled, Slack, Answers
<1>13. /\ Free => Free'
       /\ Passing => Passing'
  BY <1>1, <1>2, <1>4, <1>7, <1>9, <1>11, <1>12 DEF Free, Passing
<1>14. /\ Computing => Computing'
       /\ Arriving => Arriving'
       /\ InSlot => InSlot'
  BY <1>1, <1>4, <1>7, <1>9, <1>11, <1>12 DEF Computing, Arriving, InSlot
<1>15. Phase'
  BY <1>5, <1>9, <1>13, <1>14 DEF PatientInv, Phase
<1> QED BY <1>1, <1>2, <1>4, <1>9, <1>10, <1>11, <1>15 DEF PatientInv

-----------------------------------------------------------------------------
(* The executor.                                                           *)

\* The executor takes the message of an exclusion, misses it, or dies of it.
LEMMA AsideTaken ==
  ASSUME TypeOK, PatientInv, patient, Message, Aside(Head(written)), ~AsksModel, Slack
  PROVE  /\ executor' = executor \/ (executor' = "computing" /\ owed' = "lines"
                                       /\ doing'.request = Head(written).request)
         /\ executor' = executor => owed' = owed /\ doing' = doing
         /\ ~AsksModel' /\ executor' # "none" /\ started' = started /\ started
         /\ owed' = "nodes" => owed = "nodes"
         /\ dead' => ExcludedCall
<1>1. PICK h : h = Head(written)
  OBVIOUS
<1>2. /\ h.request \in 1..Len(requests) /\ h.kind \in {"lines", "node"}
      /\ h.kind = requests[h.request].kind /\ h.arg = requests[h.request].arg
      /\ ExcludesBlocks(h.request)
  BY <1>1 DEF Aside, Exclusion, ExcludesBlocks
<1>3. started /\ executor # "none" /\ executor \notin {"asks", "model"}
  BY <1>2 DEF PatientInv, Begun, AsksModel
<1>4. ExcludeBlocks \/ Miss
  BY <1>1, <1>2, <1>3 DEF Message, StartExecutor, Explore, UnexpectedModel, GoOn
<1>5. CASE Miss
  BY <1>3, <1>5 DEF Miss, TakeMessage, AsksModel, PatientInv
<1>6. CASE ExcludeBlocks /\ h.kind = "node" /\ IsCall(h.arg)
  <2>1. ExcludedCall
    BY <1>2, <1>6 DEF ExcludedCall
  <2> QED BY <1>1, <1>3, <1>6, <2>1 DEF ExcludeBlocks, AsksModel
<1>7. CASE ExcludeBlocks /\ ~(h.kind = "node" /\ IsCall(h.arg))
  <2>1. Compute("lines") /\ dead' = dead /\ started' = started /\ executor = "asleep" /\ ~dead
    BY <1>1, <1>7 DEF ExcludeBlocks, TakeMessage
  <2> QED BY <1>1, <1>3, <2>1 DEF Compute, AsksModel
<1> QED BY <1>4, <1>5, <1>6, <1>7

\* The executor takes or misses a message: it is asked for a model only if it wants
\* one, and none of its first instructions is an exclusion.
LEMMA MessageStep ==
  ASSUME TypeOK, PatientInv, patient, Message, patient' = patient
  PROVE  PatientInv'
<1>1. TakeMessage
  BY DEF Message, StartExecutor, Explore, ExcludeBlocks, UnexpectedModel, GoOn, Miss
<1>2. /\ written # <<>> /\ written' = Tail(written)
      /\ UNCHANGED <<toSend, received, down, requests, treeData, drawn, page, reported>>
  BY <1>1 DEF TakeMessage, pageVars
<1>3. PICK n : n = Len(written)
  OBVIOUS
<1>4. /\ n \in Nat \ {0} /\ Len(written') = n - 1 /\ Head(written) = written[1]
      /\ \A k \in 1..(n - 1) : written'[k] = written[k + 1]
      /\ written' \in Seq(Messages)
  BY <1>2, <1>3, TailOf DEF TypeOK, ServerTypeOK
<1>5. /\ Latest' = Latest /\ Current' = Current /\ Open' = Open /\ (Main' <=> Main)
      /\ (Waits' <=> Waits) /\ (ExcludedCall' <=> ExcludedCall)
      /\ \A q : Exclusion(q)' <=> Exclusion(q)
      /\ \A y : Idle(y)' <=> Idle(y)
      /\ \A m : Aside(m)' <=> Aside(m)
      /\ \A r \in 1..Len(requests') : Asks(r)'
  BY <1>2, SameRequests DEF PatientInv
<1>6. ASSUME Phase', Begun', dead' => ExcludedCall, Open # {} => AsksModel'
      PROVE  PatientInv'
  BY <1>2, <1>5, <1>6 DEF PatientInv
<1>7. ASSUME Aside(written[1]), ~AsksModel, Slack
      PROVE  /\ Slack' /\ Begun' /\ ~AsksModel' /\ (dead' => ExcludedCall)
  <2>1. /\ executor' = executor \/ (executor' = "computing" /\ owed' = "lines"
                                      /\ doing'.request = Head(written).request)
        /\ executor' = executor => owed' = owed /\ doing' = doing
        /\ ~AsksModel' /\ executor' # "none" /\ started' = started /\ started
        /\ owed' = "nodes" => owed = "nodes"
        /\ dead' => ExcludedCall
    BY <1>4, <1>7, AsideTaken
  <2>2. Begun'
    <3>1. requests # <<>>
      BY <1>7 DEF Aside, Exclusion
    <3> QED BY <1>2, <2>1, <3>1 DEF Begun
  <2>3. executor' = "computing" => owed' = "lines" /\ Exclusion(doing.request)'
    <3>1. CASE executor' = executor
      <4>1. PICK q : q = doing'.request
        OBVIOUS
      <4>2. executor = "computing" => Exclusion(q)
        BY <1>7, <2>1, <3>1, <4>1 DEF Slack
      <4>3. executor = "computing" => owed = "lines"
        BY <1>7 DEF Slack
      <4> QED BY <1>5, <2>1, <3>1, <4>1, <4>2, <4>3
    <3>2. CASE owed' = "lines" /\ doing'.request = Head(written).request
      <4>1. PICK q : q = Head(written).request
        OBVIOUS
      <4>2. Exclusion(q)
        BY <1>4, <1>7, <4>1 DEF Aside
      <4> QED BY <1>5, <3>2, <4>1, <4>2
    <3> QED BY <2>1, <3>1, <3>2
  <2>4. Slack'
    BY <1>2, <1>5, <1>7, <2>3 DEF Slack
  <2> QED BY <2>1, <2>2, <2>4
<1>8. ASSUME NEW k \in Nat, k <= n, \A i \in 1..k : Aside(written[i])
      PROVE  \A i \in 1..(k - 1) : Aside(written[i])'
  <2> SUFFICES ASSUME NEW i \in 1..(k - 1) PROVE Aside(written[i])'
    OBVIOUS
  <2>1. i + 1 \in 1..k /\ i \in 1..(n - 1)
    BY <1>4, <1>8
  <2>2. written'[i] = written[i + 1] /\ Aside(written[i + 1])
    BY <1>4, <1>8, <2>1
  <2> QED BY <1>5, <2>2
<1>9. CASE Free
  <2>1. /\ ~AsksModel /\ Slack /\ Aside(written[1])
        /\ \A i \in 1..n : Aside(written[i])
    <3>1. 1 \in 1..n
      BY <1>4
    <3> QED BY <1>2, <1>3, <1>9, <3>1 DEF Free
  <2>2. Slack' /\ Begun' /\ ~AsksModel' /\ (dead' => ExcludedCall)
    BY <1>7, <2>1
  <2>3. \A i \in 1..Len(written') : Aside(written[i])'
    <3>1. n \in Nat /\ n <= n
      BY <1>4
    <3> QED BY <1>4, <1>8, <2>1, <3>1
  <2>4. Open = {} \/ AsksModel
    BY DEF PatientInv
  <2>5. Free'
    BY <1>2, <1>5, <1>9, <2>1, <2>2, <2>3 DEF Free
  <2> QED BY <1>6, <2>1, <2>2, <2>4, <2>5 DEF Phase
<1>10. ASSUME Main, Passing PROVE PatientInv'
  <2>1. /\ Waits /\ treeData = reported /\ Slack /\ Open = {}
        /\ AsksModel <=> Latest.kind = "model"
        /\ \A i \in 1..(n - 1) : Aside(written[i])
        /\ written[n].kind = Latest.kind /\ written[n].request = Current
        /\ Latest.kind = "model" => n = 1
    BY <1>3, <1>10 DEF Passing
  <2>2. requests # <<>> /\ Latest.kind \in {"functions", "next", "model"}
    BY <1>10, LatestFacts DEF Main
  <2>3. CASE n # 1
    <3>1. n - 1 \in Nat \ {0} /\ 1 \in 1..(n - 1) /\ n - 1 <= n /\ (n - 1) + 1 = n
          /\ n - 1 \in 1..(n - 1)
      BY <1>4, <2>3
    <3>2. Aside(written[1]) /\ ~AsksModel
      BY <2>1, <2>3, <3>1
    <3>3. Slack' /\ Begun' /\ ~AsksModel' /\ (dead' => ExcludedCall)
      BY <1>7, <2>1, <3>2
    <3>4. \A i \in 1..((n - 1) - 1) : Aside(written[i])'
      BY <1>8, <2>1, <3>1
    <3>5. written'[n - 1].kind = Latest.kind /\ written'[n - 1].request = Current
      BY <1>4, <2>1, <3>1
    <3>6. Passing'
      BY <1>2, <1>4, <1>5, <2>1, <2>3, <3>1, <3>2, <3>3, <3>4, <3>5 DEF Passing
    <3> QED BY <1>5, <1>6, <1>10, <2>1, <3>3, <3>6 DEF Phase
  <2>4. CASE n = 1
    <3>1. PICK h : h = Head(written)
      OBVIOUS
    <3>2. h.kind = Latest.kind /\ h.request = Current /\ written' = <<>>
      <4>1. Len(written') = 0
        BY <1>4, <2>4
      <4> QED BY <1>4, <2>1, <2>4, <3>1, <4>1
    <3>3. ASSUME executor' = "computing", doing' = h, owed' = Wanted(Latest.kind), dead' = dead,
                 started' \/ (executor = "none" /\ ~started' /\ owed' # "nodes" /\ started' = started)
          PROVE  PatientInv'
      <4>1. Computing'
        BY <1>2, <1>5, <2>1, <3>2, <3>3 DEF Computing, Slack
      <4>2. Begun'
        <5>1. started => started'
          BY <3>3 DEF PatientInv, Begun
        <5>2. ~AsksModel'
          BY <3>3 DEF AsksModel
        <5> QED BY <1>2, <1>10, <3>3, <5>1, <5>2 DEF PatientInv, Begun, ExcludesBlocks, Main
      <4> QED BY <1>5, <1>6, <1>10, <2>1, <3>3, <4>1, <4>2 DEF Phase, PatientInv
    <3>4. CASE StartExecutor
      <4>1. Latest.kind = "functions" /\ ~started
        BY <2>2, <3>4 DEF PatientInv, Begun, StartExecutor
      <4> QED BY <3>1, <3>3, <3>4, <4>1 DEF StartExecutor, Compute, Wanted
    <3>5. CASE Explore
      <4>1. Latest.kind = "next" /\ Compute("nodes")
        BY <2>2, <3>1, <3>2, <3>5 DEF Explore
      <4> QED BY <3>1, <3>3, <3>5, <4>1 DEF Explore, Compute, Wanted
    <3>6. CASE GoOn
      <4>1. AsksModel /\ Latest.kind = "model" /\ started
        BY <2>1, <3>6 DEF GoOn, AsksModel, PatientInv, Begun
      <4> QED BY <3>1, <3>3, <3>6, <4>1 DEF GoOn, Compute, Wanted
    <3>7. CASE Miss
      <4>1. UNCHANGED <<executor, doing, owed, started, dead>>
        BY <3>7 DEF Miss
      <4>2. Slack' /\ Begun' /\ (AsksModel' <=> AsksModel)
        BY <1>2, <1>5, <2>1, <4>1 DEF Slack, Begun, AsksModel, PatientInv, ExcludesBlocks
      <4>3. Latest.at # "ended" /\ ~(Latest.at = "sent" /\ ~Latest.ping)
        BY <2>1 DEF Waits
      <4>4. \A i \in 1..Len(written') : Aside(written[i])'
        BY <1>4, <2>4
      <4>5. Free'
        BY <1>2, <1>5, <2>1, <3>2, <4>2, <4>3, <4>4 DEF Free
      <4> QED BY <1>6, <2>1, <4>1, <4>2, <4>5 DEF Phase, PatientInv
    <3>8. ~ExcludeBlocks /\ ~UnexpectedModel
      BY <2>1, <2>2, <3>1, <3>2 DEF ExcludeBlocks, UnexpectedModel, AsksModel
    <3> QED BY <3>4, <3>5, <3>6, <3>7, <3>8 DEF Message
  <2> QED BY <2>3, <2>4
<1>11. ~Computing /\ ~Arriving /\ ~InSlot /\ ~Answering
  BY <1>2 DEF Computing, Arriving, InSlot, Answering, Settled
<1> QED BY <1>9, <1>10, <1>11 DEF PatientInv, Phase

\* What a reply adds to the report.
LEMMA ReplyAdds ==
  ASSUME TypeOK, ReplyPlain \/ ReplyNodes
  PROVE  \E nodes \in Seq(Nodes) :
           /\ Reply(nodes) /\ reported' = reported \o nodes
           /\ owed # "nodes" => nodes = <<>>
           /\ executor' = IF nodes # <<>> /\ nodes[Len(nodes)].call THEN "asks" ELSE "replied"
           /\ \A i \in 1..Len(nodes) :
                /\ nodes[i].node = Len(reported) + i - 1
                /\ IF Len(reported) + i = 1 THEN nodes[i].parent = -1
                   ELSE nodes[i].parent \in 0..(Len(reported) + i - 2)
                /\ nodes[i].call => i = Len(nodes)
<1>1. CASE ReplyPlain
  <2>1. <<>> \in Seq(Nodes) /\ Len(<<>>) = 0 /\ reported \in Seq(Nodes)
    BY DEF TypeOK
  <2>2. reported \o <<>> = reported
    BY <2>1
  <2>3. Reply(<<>>) /\ reported' = reported /\ executor' = "replied"
    BY <1>1 DEF ReplyPlain
  <2>4. \A i \in 1..Len(<<>>) : FALSE
    BY <2>1
  <2> QED BY <2>1, <2>2, <2>3, <2>4
<1>2. CASE ReplyNodes
  <2>1. PICK k \in 0..(MaxNodes - Len(reported)), asks \in BOOLEAN :
          /\ asks => k > 0
          /\ \E parents \in Parents(k) :
               /\ Reply(NewNodes(k, parents, asks))
               /\ reported' = reported \o NewNodes(k, parents, asks)
          /\ executor' = IF asks THEN "asks" ELSE "replied"
    BY <1>2 DEF ReplyNodes
  <2>2. PICK parents \in Parents(k) :
          /\ Reply(NewNodes(k, parents, asks))
          /\ reported' = reported \o NewNodes(k, parents, asks)
    BY <2>1
  <2>3. PICK nodes : nodes = NewNodes(k, parents, asks)
    OBVIOUS
  <2>4. PICK m : m = Len(reported)
    OBVIOUS
  <2>5. /\ nodes \in Seq(Nodes) /\ Len(nodes) = k /\ k \in Nat /\ m \in Nat
        /\ \A i \in 1..k : /\ nodes[i].node = m + i - 1
                          /\ nodes[i].parent = parents[i]
                          /\ nodes[i].call = (asks /\ i = k)
    <3>1. reported \in Seq(Nodes) /\ m \in Nat
      BY <2>4 DEF TypeOK
    <3> QED BY <2>3, <2>4, <3>1, NewNodesType
  <2>6. ASSUME NEW i \in 1..k
        PROVE  IF m + i = 1 THEN nodes[i].parent = -1 ELSE nodes[i].parent \in 0..(m + i - 2)
    <3>1. IF m + i - 1 = 0 THEN parents[i] = -1 ELSE parents[i] \in 0..((m + i - 1) - 1)
      BY <2>4 DEF Parents
    <3>2. (m + i - 1 = 0 <=> m + i = 1) /\ (m + i - 1) - 1 = m + i - 2
      BY <2>5
    <3> QED BY <2>5, <3>1, <3>2
  <2>7. nodes # <<>> /\ nodes[k].call <=> asks
    <3>1. CASE k = 0
      <4>1. nodes = <<>> /\ ~asks
        BY <2>1, <2>5, <3>1
      <4> QED BY <4>1
    <3>2. CASE k # 0
      <4>1. k \in 1..k /\ nodes # <<>>
        BY <2>5, <3>2
      <4> QED BY <2>5, <4>1
    <3> QED BY <3>1, <3>2
  <2>8. owed = "nodes"
    BY <1>2 DEF ReplyNodes
  <2>9. /\ Reply(nodes) /\ reported' = reported \o nodes
        /\ executor' = IF nodes # <<>> /\ nodes[Len(nodes)].call THEN "asks" ELSE "replied"
    BY <2>1, <2>2, <2>3, <2>5, <2>7
  <2>10. \A i \in 1..Len(nodes) :
           /\ nodes[i].node = Len(reported) + i - 1
           /\ IF Len(reported) + i = 1 THEN nodes[i].parent = -1
              ELSE nodes[i].parent \in 0..(Len(reported) + i - 2)
           /\ nodes[i].call => i = Len(nodes)
    BY <2>4, <2>5, <2>6
  <2> QED BY <2>5, <2>8, <2>9, <2>10
<1> QED BY <1>1, <1>2

\* The executor replies once to the message it has taken, and asks for a model only
\* if the report ends with a call.
LEMMA ReplyStep ==
  ASSUME TypeOK, OnceInv, PatientInv, patient, ReplyPlain \/ ReplyNodes
  PROVE  PatientInv'
<1>1. PICK nodes \in Seq(Nodes) :
        /\ Reply(nodes) /\ reported' = reported \o nodes
        /\ owed # "nodes" => nodes = <<>>
        /\ executor' = IF nodes # <<>> /\ nodes[Len(nodes)].call THEN "asks" ELSE "replied"
        /\ \A i \in 1..Len(nodes) :
             /\ nodes[i].node = Len(reported) + i - 1
             /\ IF Len(reported) + i = 1 THEN nodes[i].parent = -1
                ELSE nodes[i].parent \in 0..(Len(reported) + i - 2)
             /\ nodes[i].call => i = Len(nodes)
  BY ReplyAdds
<1>2. /\ executor = "computing"
      /\ UNCHANGED <<toSend, written, down, requests, treeData, drawn, page, patient, doing, owed,
                     started, dead>>
  BY <1>1 DEF Reply, pageVars
<1>3. PICK y : y = [kind |-> owed, request |-> doing.request, nodes |-> nodes]
  OBVIOUS
<1>4. y \in Replies /\ y.kind = owed /\ y.request = doing.request /\ y.nodes = nodes
  <2>1. doing \in Messages /\ owed \in {"functions", "nodes", "lines", "broken"}
    BY DEF TypeOK
  <2> QED BY <1>3, <2>1 DEF Messages, Replies
<1>5. PICK l : l = Len(received)
  OBVIOUS
<1>6. /\ l \in Nat /\ Len(received') = l + 1 /\ received'[l + 1] = y
      /\ \A i \in 1..l : received'[i] = received[i]
  BY <1>1, <1>3, <1>4, <1>5, AppendTo DEF Reply, TypeOK, ServerTypeOK
<1>7. /\ Latest' = Latest /\ Current' = Current /\ (Main' <=> Main) /\ (Waits' <=> Waits)
      /\ \A q : Exclusion(q)' <=> Exclusion(q)
      /\ \A z : Idle(z)' <=> Idle(z)
      /\ \A m : Aside(m)' <=> Aside(m)
      /\ \A n : Asked("model", n)' <=> Asked("model", n)
  BY <1>2, SameRequests
<1>8. Begun'
  <2>1. nodes # <<>> => started
    BY <1>1 DEF PatientInv, Begun
  <2>2. reported' # <<>> => started
    <3>1. CASE nodes = <<>>
      <4>1. reported \o <<>> = reported
        BY DEF TypeOK
      <4> QED BY <1>1, <3>1, <4>1 DEF PatientInv, Begun
    <3> QED BY <2>1, <3>1
  <2>3. executor' # "none" /\ (AsksModel' => started)
    BY <1>1, <2>1 DEF AsksModel
  <2> QED BY <1>2, <2>2, <2>3 DEF PatientInv, Begun, ExcludesBlocks
<1>9. ASSUME dead PROVE FALSE
  BY <1>1, <1>9 DEF Reply
\* The reply to an exclusion.
<1>10. ASSUME Slack, Free \/ (Main /\ Passing) PROVE PatientInv'
  <2>1. owed = "lines" /\ Exclusion(doing.request) /\ nodes = <<>>
    BY <1>1, <1>2, <1>10 DEF Slack
  <2>2. reported' = reported /\ executor' = "replied" /\ ~AsksModel' /\ ~AsksModel
    <3>1. reported \o <<>> = reported
      BY DEF TypeOK
    <3> QED BY <1>1, <1>2, <2>1, <3>1 DEF AsksModel
  <2>3. Open' = Open /\ (\A r \in 1..Len(requests') : Asks(r)') /\ Open = {}
    BY <1>2, <2>2, SameRequests DEF PatientInv
  <2>4. Slack'
    <3>1. Idle(y)
      BY <1>4, <2>1 DEF Idle
    <3>2. \A i \in 1..(l + 1) : i \in 1..l \/ i = l + 1
      BY <1>6
    <3>3. \A i \in 1..l : Idle(received[i])
      BY <1>5, <1>10 DEF Slack
    <3>4. \A i \in 1..(l + 1) : Idle(received[i])'
      BY <1>6, <1>7, <3>1, <3>2, <3>3
    <3> QED BY <1>2, <1>6, <1>7, <1>10, <2>2, <3>4 DEF Slack
  <2>5. Free => Free'
    BY <1>2, <1>7, <2>2, <2>3, <2>4 DEF Free
  <2>6. Passing => Passing'
    BY <1>2, <1>7, <2>2, <2>3, <2>4 DEF Passing
  <2> QED BY <1>2, <1>7, <1>8, <1>9, <1>10, <2>2, <2>3, <2>5, <2>6 DEF PatientInv, Phase
\* The reply to the latest request.
<1>11. ASSUME Main, Computing PROVE PatientInv'
  <2>1. /\ Waits /\ treeData = reported /\ written = <<>> /\ doing.request = Current
        /\ owed = Wanted(Latest.kind) /\ Open = {} /\ Idle(toSend)
        /\ \A i \in 1..l : Idle(received[i])
    BY <1>5, <1>11 DEF Computing
  <2>2. PICK m : m = Len(reported)
    OBVIOUS
  <2>3. PICK k : k = Len(nodes)
    OBVIOUS
  <2>4. PICK p : p = reported'
    OBVIOUS
  <2>5. /\ m \in Nat /\ k \in Nat /\ Len(p) = m + k
        /\ \A i \in 1..m : p[i] = reported[i]
        /\ \A i \in 1..k : p[m + i] = nodes[i]
    BY <1>1, <2>2, <2>3, <2>4, Joined DEF TypeOK
  <2>6. /\ \A i \in 1..(m + k) : i \in 1..m \/ \E j \in 1..k : i = m + j
        /\ \A i \in 1..m : i \in 1..(m + k)
    <3>1. ASSUME NEW i \in 1..(m + k), i \notin 1..m PROVE i - m \in 1..k /\ i = m + (i - m)
      BY <2>5, <3>1
    <3> QED BY <2>5, <3>1
  <2>7. Open' = {i \in 1..(m + k) : p[i].call /\ ~Asked("model", p[i].node)'}
    BY <2>4, <2>5 DEF Open, Asked
  <2>8. Open' \subseteq {m + k} /\ \A i \in Open' : k # 0 /\ nodes[k].call
    <3> SUFFICES ASSUME NEW i \in Open' PROVE i = m + k /\ k # 0 /\ nodes[k].call
      OBVIOUS
    <3>1. i \in 1..(m + k) /\ p[i].call /\ ~Asked("model", p[i].node)
      BY <1>7, <2>7
    <3>2. i \notin 1..m
      <4>1. ASSUME i \in 1..m PROVE FALSE
        <5>1. i \in Open
          BY <2>2, <2>5, <3>1, <4>1 DEF Open
        <5> QED BY <2>1, <5>1
      <4> QED BY <4>1
    <3>3. PICK j \in 1..k : i = m + j
      BY <2>6, <3>1, <3>2
    <3>4. j = k
      BY <1>1, <2>3, <2>5, <3>1, <3>3
    <3> QED BY <2>5, <3>1, <3>3, <3>4
  <2>9. AsksModel' <=> Open' # {}
    <3>1. /\ nodes # <<>> => k \in 1..k
          /\ k # 0 => nodes # <<>>
      BY <2>3, <2>5
    <3>2. Open' # {} => AsksModel'
      BY <1>1, <2>3, <2>8, <3>1 DEF AsksModel
    <3>3. ASSUME nodes # <<>>, nodes[k].call PROVE m + k \in Open'
      <4>1. k \in 1..k /\ p[m + k] = nodes[k] /\ nodes[k].node = m + k - 1
        BY <1>1, <2>2, <2>3, <2>5, <3>1, <3>3
      <4>2. ~Asked("model", m + k - 1)
        <5> SUFFICES ASSUME NEW r \in 1..Len(requests), requests[r].kind = "model",
                            requests[r].arg = m + k - 1
                     PROVE  FALSE
          BY DEF Asked
        <5>1. requests[r].arg \in 0..(m - 1)
          BY <2>2 DEF PatientInv, Asks
        <5> QED BY <2>5, <4>1, <5>1
      <4>3. m + k \in 1..(m + k)
        BY <2>5, <4>1
      <4>4. ~Asked("model", p[m + k].node)'
        <5>1. ~Asked("model", m + k - 1)'
          BY <1>7, <4>2
        <5>2. p[m + k].node = m + k - 1
          BY <4>1
        <5> QED BY <5>1, <5>2
      <4> QED BY <2>7, <3>3, <4>1, <4>3, <4>4
    <3>4. AsksModel' => Open' # {}
      BY <1>1, <2>3, <3>1, <3>3 DEF AsksModel
    <3> QED BY <3>2, <3>4
  <2>10. Settled'
    <3>1. executor' \notin {"none", "computing"}
      BY <1>1
    <3> QED BY <1>2, <2>1, <2>9, <3>1 DEF Settled
  <2>11. Arriving'
    <3>1. l + 1 \in Nat \ {0} /\ (l + 1) - 1 = l
      BY <1>6
    <3>2. \A i \in 1..((l + 1) - 1) : Idle(received[i])'
      BY <1>6, <1>7, <2>1, <3>1
    <3>3. /\ y.kind = Wanted(Latest.kind) /\ y.request = Current
          /\ y.kind = "nodes" => started
          /\ y.kind # "nodes" => y.nodes = <<>>
          /\ treeData \o y.nodes = reported'
      BY <1>1, <1>4, <2>1 DEF PatientInv, Begun
    <3>4. Answers(received[l + 1])'
      BY <1>2, <1>4, <1>6, <1>7, <3>3 DEF Answers
    <3> QED BY <1>2, <1>6, <1>7, <2>1, <2>10, <3>1, <3>2, <3>4 DEF Arriving
  <2>12. Rooted(reported')
    <3> SUFFICES ASSUME NEW i \in 1..(m + k)
                 PROVE  IF i = 1 THEN p[i].parent = -1 ELSE p[i].parent \in 0..(i - 2)
      BY <2>4, <2>5 DEF Rooted
    <3>1. CASE i \in 1..m
      BY <2>2, <2>5, <3>1 DEF PatientInv, Rooted
    <3>2. ASSUME NEW j \in 1..k, i = m + j
          PROVE  IF i = 1 THEN p[i].parent = -1 ELSE p[i].parent \in 0..(i - 2)
      BY <1>1, <2>2, <2>3, <2>5, <3>2
    <3> QED BY <2>6, <3>1, <3>2
  <2>13. \A r \in 1..Len(requests) : Asks(r)'
    <3> SUFFICES ASSUME NEW r \in 1..Len(requests) PROVE Asks(r)'
      OBVIOUS
    <3>1. Asks(r)
      BY DEF PatientInv
    <3>2. requests[r].kind = "model" => requests[r].arg \in 0..(Len(reported') - 1)
      <4>1. \A a \in 0..(m - 1) : a \in 0..(m + k - 1)
        BY <2>5
      <4> QED BY <2>2, <2>4, <2>5, <3>1, <4>1, SMTT(40) DEF Asks
    <3>3. EndsRightly(r)' <=> EndsRightly(r)
      BY <1>2 DEF EndsRightly, ExcludesBlocks
    <3> QED BY <1>2, <1>7, <3>1, <3>2, <3>3 DEF Asks
  <2>14. Open' \subseteq {Len(reported')}
    BY <2>4, <2>5, <2>8
  <2> QED BY <1>2, <1>7, <1>8, <1>9, <1>11, <2>9, <2>11, <2>12, <2>13, <2>14 DEF PatientInv, Phase
<1>12. ~Arriving /\ ~InSlot /\ ~Answering
  BY <1>2 DEF Arriving, InSlot, Answering, Settled
<1> QED BY <1>10, <1>11, <1>12 DEF PatientInv, Phase, Free, Passing

\* The executor waits for what comes next.
LEMMA FallStep ==
  ASSUME TypeOK, PatientInv, patient, FallAsleep
  PROVE  PatientInv'
<1>1. /\ executor \in {"replied", "asks"} /\ executor' \in {"asleep", "model"}
      /\ AsksModel' <=> AsksModel
      /\ UNCHANGED <<toSend, written, received, down, requests, treeData, drawn, page, patient,
                     doing, owed, started, reported, dead>>
  BY DEF FallAsleep, serverVars, pageVars, AsksModel
<1>2. /\ Latest' = Latest /\ Current' = Current /\ Open' = Open /\ (Main' <=> Main)
      /\ (Waits' <=> Waits) /\ (ExcludedCall' <=> ExcludedCall)
      /\ \A q : Exclusion(q)' <=> Exclusion(q)
      /\ \A y : Idle(y)' <=> Idle(y)
      /\ \A m : Aside(m)' <=> Aside(m)
      /\ \A r \in 1..Len(requests') : Asks(r)'
  BY <1>1, SameRequests DEF PatientInv
<1>3. /\ Begun'
      /\ Slack => Slack'
      /\ Settled => Settled'
      /\ \A y : Answers(y) => Answers(y)'
  BY <1>1, <1>2 DEF Begun, ExcludesBlocks, Slack, Settled, Answers, PatientInv
<1>4. /\ Free => Free'
      /\ Passing => Passing'
  BY <1>1, <1>2, <1>3 DEF Free, Passing
<1>5. /\ Arriving => Arriving'
      /\ InSlot => InSlot'
      /\ Answering => Answering'
  BY <1>1, <1>2, <1>3 DEF Arriving, InSlot, Answering
<1>6. ~Computing
  BY <1>1 DEF Computing
<1> QED BY <1>1, <1>2, <1>3, <1>4, <1>5, <1>6 DEF PatientInv, Phase

-----------------------------------------------------------------------------
(* The user.                                                               *)

\* A request comes along; it is the latest.
LEMMA Appended ==
  ASSUME TypeOK, NEW x \in Requests, requests' = Append(requests, x), UNCHANGED reported
  PROVE  /\ Latest' = x /\ Current' = Current + 1 /\ requests' # <<>> /\ Current \in Nat
         /\ requests'[Current'] = x
         /\ Open' = {i \in Open : ~(x.kind = "model" /\ x.arg = reported[i].node)}
         /\ \A r \in 1..Len(requests') : r \in 1..Len(requests) \/ r = Current'
         /\ \A r \in 1..Len(requests) :
              requests'[r] = requests[r] /\ (EndsRightly(r) => EndsRightly(r)')
         /\ \A q : Exclusion(q) => Exclusion(q)'
         /\ \A y : Idle(y) => Idle(y)'
         /\ \A m : Aside(m) => Aside(m)'
         /\ ExcludedCall => ExcludedCall'
<1>1. PICK n : n = Len(requests)
  OBVIOUS
<1>2. requests \in Seq(Requests)
  BY DEF TypeOK, ServerTypeOK
<1>3. /\ n \in Nat /\ Len(requests') = n + 1 /\ requests' \in Seq(Requests)
      /\ requests'[n + 1] = x /\ \A r \in 1..n : requests'[r] = requests[r]
  BY <1>1, <1>2, AppendTo
<1>4. requests' # <<>>
  BY <1>3
<1>5. /\ \A r \in 1..(n + 1) : r \in 1..n \/ r = n + 1
      /\ \A r \in 1..n : r \in 1..(n + 1)
      /\ n + 1 \in 1..(n + 1)
  BY <1>3
<1>6. \A a : Asked("model", a)' <=> Asked("model", a) \/ (x.kind = "model" /\ x.arg = a)
  <2> SUFFICES ASSUME NEW a
               PROVE  (\E r \in 1..(n + 1) : requests'[r].kind = "model" /\ requests'[r].arg = a)
                      <=> \/ \E r \in 1..n : requests[r].kind = "model" /\ requests[r].arg = a
                          \/ x.kind = "model" /\ x.arg = a
    BY <1>1, <1>3 DEF Asked
  <2> QED BY <1>3, <1>5
<1>7. Open' = {i \in Open : ~(x.kind = "model" /\ x.arg = reported[i].node)}
  <2>1. Open' = {i \in 1..Len(reported) : reported[i].call /\ ~Asked("model", reported[i].node)'}
    BY DEF Open, Asked
  <2>2. ASSUME NEW i \in 1..Len(reported)
        PROVE  Asked("model", reported[i].node)'
               <=> Asked("model", reported[i].node) \/ (x.kind = "model" /\ x.arg = reported[i].node)
    <3>1. PICK a : a = reported[i].node
      OBVIOUS
    <3>2. Asked("model", a)' <=> Asked("model", a) \/ (x.kind = "model" /\ x.arg = a)
      BY <1>6
    <3>3. Asked("model", reported[i].node)' <=> Asked("model", a)'
      BY <3>1 DEF Asked
    <3>4. Asked("model", reported[i].node) <=> Asked("model", a)
      BY <3>1
    <3> QED BY <3>1, <3>2, <3>3, <3>4
  <2> QED BY <2>1, <2>2 DEF Open
<1>8. \A q \in 1..n : ExcludesBlocks(q)' <=> ExcludesBlocks(q)
  BY <1>3 DEF ExcludesBlocks
<1>9. \A q : Exclusion(q) => Exclusion(q)' /\ q \in 1..n
  BY <1>1, <1>3, <1>5, <1>8 DEF Exclusion
<1>10. \A y : Idle(y) => Idle(y)'
  BY <1>9 DEF Idle
<1>11. \A m : Aside(m) => Aside(m)'
  BY <1>3, <1>9 DEF Aside
<1>12. ExcludedCall => ExcludedCall'
  <2>1. \A a : IsCall(a)' <=> IsCall(a)
    BY DEF IsCall
  <2>2. ASSUME NEW r \in 1..n, requests[r].kind = "node", IsCall(requests[r].arg)
        PROVE  ExcludedCall'
    <3>1. r \in 1..Len(requests') /\ requests'[r] = requests[r]
      BY <1>3, <1>5
    <3>2. IsCall(requests[r].arg)'
      <4>1. PICK a : a = requests[r].arg
        OBVIOUS
      <4>2. IsCall(a)'
        BY <2>1, <2>2, <4>1
      <4>3. requests'[r].arg = a
        BY <3>1, <4>1
      <4> QED BY <3>1, <4>2, <4>3 DEF IsCall
    <3> QED BY <2>2, <3>1, <3>2 DEF ExcludedCall, IsCall
  <2> QED BY <1>1, <2>2 DEF ExcludedCall
<1>13. \A r \in 1..n : EndsRightly(r) => EndsRightly(r)'
  <2> SUFFICES ASSUME NEW r \in 1..n PROVE EndsRightly(r)' <=> EndsRightly(r)
    OBVIOUS
  <2>1. requests'[r] = requests[r] /\ (ExcludesBlocks(r)' <=> ExcludesBlocks(r))
    BY <1>3, <1>8
  <2>2. {q \in 1..r : ExcludesBlocks(q)}' = {q \in 1..r : ExcludesBlocks(q)}
    <3>1. \A q \in 1..r : q \in 1..n
      BY <1>3
    <3> QED BY <1>8, <3>1
  <2> QED BY <2>1, <2>2 DEF EndsRightly
<1> QED BY <1>1, <1>3, <1>4, <1>5, <1>7, <1>9, <1>10, <1>11, <1>12, <1>13 DEF Latest, Current

\* What the page shows to a patient user who sees nothing under way.
LEMMA AtRest ==
  ASSUME TypeOK, PatientInv, patient, Quiet, page = "main"
  PROVE  /\ requests # <<>> /\ Free /\ Latest.at = "ended" /\ executor # "none"
         /\ \A r \in 1..Len(requests) : Asks(r) /\ requests[r].at = "ended"
<1>1. requests # <<>>
  BY DEF PatientInv
<1>2. Latest.at = "ended"
  BY <1>1, LatestFacts DEF Quiet
<1>3. Free
  BY <1>2 DEF PatientInv, Phase, Passing, Computing, Arriving, InSlot, Answering, Waits
<1>4. executor # "none"
  BY <1>1, <1>2 DEF PatientInv, Begun
<1> QED BY <1>1, <1>2, <1>3, <1>4 DEF PatientInv, Quiet

\* The alerts are those of the calls for which no model has been sent.
LEMMA AlertsOpen ==
  ASSUME treeData = reported, drawn = Ids(treeData)
  PROVE  /\ \A n \in Alerts : \E i \in Open : n = reported[i]
         /\ \A i \in Open : reported[i] \in Alerts
<1>1. \A i \in 1..Len(treeData) : treeData[i].node \in drawn
  BY Zenon DEF Ids
<1>2. Shown = {treeData[i] : i \in 1..Len(treeData)}
  BY <1>1 DEF Shown
<1> QED BY <1>2 DEF Alerts, Open

LEMMA UserStep ==
  ASSUME TypeOK, OnceInv, PatientInv, patient, User
  PROVE  PatientInv'
<1>1. PICK kind \in {"next", "lines", "node", "model"}, arg \in Int :
        /\ Send(kind, arg) /\ Quiet
        /\ (kind = "model") <=> (Alerts # {})
        /\ kind = "lines" => Asked("next", -1)
        /\ kind = "node" => drawn # {}
        /\ kind = "model" => \E n \in Alerts : arg = n.node
  <2>1. drawn \subseteq Int /\ -1 \in Int /\ 0 \in Int
    BY DEF TypeOK, PageTypeOK
  <2>2. \A n \in Alerts : n.node \in Int
    <3>1. \A i \in 1..Len(treeData) : treeData[i] \in Nodes
      BY DEF TypeOK, PageTypeOK
    <3>2. \A n \in Nodes : n.node \in Int
      BY DEF Nodes
    <3> QED BY <3>1, <3>2 DEF Alerts, Shown
  <2>3. CASE MayAsk("next") /\ (Begin \/ Click)
    BY <2>1, <2>3 DEF MayAsk, Begin, Click
  <2>4. CASE MayAsk("lines") /\ ExcludeStatement
    BY <2>1, <2>4 DEF MayAsk, ExcludeStatement
  <2>5. CASE MayAsk("node") /\ Exclude
    BY <2>1, <2>5 DEF MayAsk, Exclude
  <2>6. CASE MayAsk("model") /\ AddModel
    BY <2>2, <2>6 DEF MayAsk, AddModel
  <2> QED BY <2>3, <2>4, <2>5, <2>6 DEF User
<1>2. /\ requests # <<>> /\ Free /\ Latest.at = "ended" /\ executor # "none"
      /\ \A r \in 1..Len(requests) : Asks(r) /\ requests[r].at = "ended"
  BY <1>1, AtRest DEF Send
<1>3. PICK x : x = [kind |-> kind, arg |-> arg, ping |-> FALSE, at |-> "sent", response |-> Nothing]
  OBVIOUS
<1>4. /\ x \in Requests /\ x.kind = kind /\ x.arg = arg /\ ~x.ping /\ x.at = "sent"
      /\ x.response = Nothing
  BY <1>3 DEF Requests
<1>5. requests' = Append(requests, x) /\ UNCHANGED pageVars
  BY <1>1, <1>3 DEF Send
<1>6. UNCHANGED <<serverVars, patient, executorVars>>
  BY DEF User
<1>7. UNCHANGED <<toSend, written, received, down, patient, executor, doing, owed, started, reported,
                  dead, page, treeData, drawn>>
  BY <1>5, <1>6 DEF serverVars, executorVars, pageVars
<1>8. /\ Latest' = x /\ Current' = Current + 1 /\ requests' # <<>> /\ Current \in Nat
      /\ requests'[Current'] = x
      /\ Open' = {i \in Open : ~(kind = "model" /\ arg = reported[i].node)}
      /\ \A r \in 1..Len(requests') : r \in 1..Len(requests) \/ r = Current'
      /\ \A r \in 1..Len(requests) :
           requests'[r] = requests[r] /\ (EndsRightly(r) => EndsRightly(r)')
      /\ \A q : Exclusion(q) => Exclusion(q)'
      /\ \A y : Idle(y) => Idle(y)'
      /\ \A m : Aside(m) => Aside(m)'
      /\ ExcludedCall => ExcludedCall'
  BY <1>4, <1>5, <1>7, Appended
<1>9. treeData = reported /\ (Open # {} => Open \subseteq {Len(reported)} /\ AsksModel)
  BY <1>2 DEF Free, PatientInv
<1>10. /\ \A n \in Alerts : \E i \in Open : n = reported[i]
       /\ \A i \in Open : reported[i] \in Alerts
  BY <1>9, AlertsOpen DEF PatientInv
<1>11. kind = "model" <=> Open # {}
  BY <1>1, <1>10
<1>12. kind = "model" => Open' = {} /\ arg \in 0..(Len(reported) - 1)
  <2> SUFFICES ASSUME kind = "model" PROVE Open' = {} /\ arg \in 0..(Len(reported) - 1)
    OBVIOUS
  <2>1. PICK i \in Open : arg = reported[i].node
    BY <1>1, <1>10
  <2>2. i = Len(reported) /\ i \in 1..Len(reported)
    BY <1>9, <2>1 DEF Open
  <2>3. arg = i - 1
    BY <2>1, <2>2 DEF OnceInv, Numbered
  <2>4. Len(reported) \in Nat
    BY DEF TypeOK
  <2>5. Open' = {}
    BY <1>8, <1>9, <2>1, <2>2
  <2> QED BY <2>2, <2>3, <2>4, <2>5
<1>13. Open' = {}
  BY <1>8, <1>11, <1>12
<1>14. AsksModel' <=> AsksModel
  BY <1>7 DEF AsksModel
<1>15. kind \in {"lines", "node"} => started
  <2>1. kind = "lines" => started
    BY <1>1, <1>2 DEF PatientInv, Begun, Asked
  <2>2. kind = "node" => started
    <3>1. drawn # {} => reported # <<>>
      <4>1. reported = <<>> => drawn = {}
        BY <1>9 DEF PatientInv, Ids
      <4> QED BY <4>1
    <3> QED BY <1>1, <3>1 DEF PatientInv, Begun
  <2> QED BY <2>1, <2>2
<1>16. Slack'
  BY <1>2, <1>7, <1>8 DEF Free, Slack
<1>17. Free'
  <2>1. \A i \in 1..Len(written) : Aside(written[i])'
    BY <1>2, <1>7, <1>8 DEF Free
  <2>2. AsksModel => written = <<>> /\ Open # {}
    BY <1>2 DEF Free
  <2> QED BY <1>4, <1>7, <1>8, <1>9, <1>11, <1>13, <1>14, <1>16, <2>1, <2>2 DEF Free
<1>18. Begun'
  <2>1. ASSUME NEW r \in 1..Len(requests'),
               ExcludesBlocks(r)' \/ (requests'[r].kind = "next" /\ requests'[r].at = "ended")
        PROVE  started
    <3>1. CASE r \in 1..Len(requests)
      BY <1>8, <2>1, <3>1 DEF PatientInv, Begun, ExcludesBlocks
    <3>2. CASE r = Current'
      BY <1>4, <1>8, <1>15, <2>1, <3>2 DEF ExcludesBlocks
    <3> QED BY <1>8, <3>1, <3>2
  <2> QED BY <1>2, <1>7, <1>8, <1>14, <2>1 DEF PatientInv, Begun
<1>19. ASSUME NEW r \in 1..Len(requests') PROVE Asks(r)'
  <2>1. CASE r \in 1..Len(requests)
    <3>1. Asks(r) /\ requests[r].at = "ended" /\ requests'[r] = requests[r] /\ EndsRightly(r)'
      BY <1>2, <1>8, <2>1 DEF Asks
    <3> QED BY <1>7, <3>1 DEF Asks
  <2>2. CASE r = Current'
    <3>1. requests'[r] = x
      BY <1>8, <2>2
    <3>2. ~(r < Current')
      BY <1>8, <2>2
    <3> QED BY <1>4, <1>7, <1>12, <3>1, <3>2 DEF Asks
  <2> QED BY <1>8, <2>1, <2>2
<1> QED BY <1>2, <1>7, <1>8, <1>13, <1>17, <1>18, <1>19 DEF PatientInv, Phase

LEMMA LoadStep ==
  ASSUME TypeOK, PatientInv, patient, LoadPage
  PROVE  PatientInv'
<1>1. PICK x : x = [kind |-> "functions", arg |-> 0, ping |-> FALSE, at |-> "sent",
                    response |-> Nothing]
  OBVIOUS
<1>2. x \in Requests /\ x.kind = "functions" /\ ~x.ping /\ x.at = "sent"
  BY <1>1 DEF Requests
<1>3. /\ page = "waiting" /\ page' = "main" /\ requests' = Append(requests, x)
      /\ UNCHANGED <<treeData, drawn, toSend, written, received, down, patient, executor, doing, owed,
                     started, reported, dead>>
  BY <1>1 DEF LoadPage, Loaded, serverVars, executorVars
<1>4. requests = <<>> /\ Len(requests) = 0
  BY <1>3 DEF PatientInv
<1>5. Free /\ Begun /\ executor = "none" /\ reported = <<>> /\ ~started /\ ~AsksModel
  BY <1>4 DEF PatientInv, Phase, Main, Begun, AsksModel
<1>6. /\ Latest' = x /\ Current' = Current + 1 /\ requests' # <<>> /\ Current \in Nat
      /\ requests'[Current'] = x
      /\ Open' = {i \in Open : ~(x.kind = "model" /\ x.arg = reported[i].node)}
      /\ \A r \in 1..Len(requests') : r \in 1..Len(requests) \/ r = Current'
      /\ \A q : Exclusion(q) => Exclusion(q)'
      /\ \A y : Idle(y) => Idle(y)'
      /\ \A m : Aside(m) => Aside(m)'
      /\ ExcludedCall => ExcludedCall'
  BY <1>2, <1>3, Appended
<1>7. ~AsksModel' /\ Open' = {}
  <2>1. Len(reported) = 0
    BY <1>5
  <2>2. Open = {}
    BY <2>1 DEF Open
  <2> QED BY <1>3, <1>5, <1>6, <2>2 DEF AsksModel
<1>8. \A r \in 1..Len(requests') : r = Current' /\ requests'[r] = x
  BY <1>4, <1>6
<1>9. Slack'
  BY <1>3, <1>5, <1>6 DEF Free, Slack
<1>10. Free'
  <2>1. \A i \in 1..Len(written) : Aside(written[i])'
    BY <1>3, <1>5, <1>6 DEF Free
  <2> QED BY <1>2, <1>3, <1>5, <1>6, <1>7, <1>9, <2>1 DEF Free
<1>11. Begun'
  <2>1. \A r \in 1..Len(requests') :
          ~(ExcludesBlocks(r)' \/ (requests'[r].kind = "next" /\ requests'[r].at = "ended"))
    BY <1>2, <1>8 DEF ExcludesBlocks
  <2>2. Latest'.kind = "functions" /\ Latest'.at # "ended"
    BY <1>2, <1>6
  <2> QED BY <1>3, <1>5, <1>6, <1>7, <2>1, <2>2 DEF Begun
<1>12. ASSUME NEW r \in 1..Len(requests') PROVE Asks(r)'
  <2>1. r = Current' /\ requests'[r] = x /\ ~(r < Current')
    BY <1>6, <1>8
  <2> QED BY <1>2, <2>1 DEF Asks
<1> QED BY <1>3, <1>6, <1>7, <1>10, <1>11, <1>12 DEF PatientInv, Phase

-----------------------------------------------------------------------------
(* The whole.                                                              *)

\* The programs that compile samples touch nothing the invariant speaks of.
LEMMA SameSession ==
  ASSUME PatientInv,
         UNCHANGED <<toSend, written, received, requests, down, treeData, drawn, patient, executor,
                     doing, owed, started, reported, dead>>,
         page' = "main" <=> page = "main"
  PROVE  PatientInv'
<1> SUFFICES ASSUME patient PROVE PatientInv'
  BY DEF PatientInv
<1>1. /\ Latest' = Latest /\ Current' = Current /\ (Main' <=> Main) /\ (Waits' <=> Waits)
      /\ Open' = Open /\ (ExcludedCall' <=> ExcludedCall)
      /\ \A q : Exclusion(q)' <=> Exclusion(q)
      /\ \A y : Idle(y)' <=> Idle(y)
      /\ \A m : Aside(m)' <=> Aside(m)
      /\ \A r \in 1..Len(requests) : Asks(r)'
  BY SameRequests DEF PatientInv
<1>2. (AsksModel' <=> AsksModel) /\ Begun'
  BY <1>1 DEF PatientInv, Begun, AsksModel, ExcludesBlocks
<1>3. /\ Slack => Slack'
      /\ Settled => Settled'
      /\ \A y : Answers(y) => Answers(y)'
  BY <1>1, <1>2 DEF Slack, Settled, Answers
<1>4. /\ Free => Free'
      /\ Passing => Passing'
      /\ Computing => Computing'
  BY <1>1, <1>2, <1>3 DEF Free, Passing, Computing
<1>5. /\ Arriving => Arriving'
      /\ InSlot => InSlot'
      /\ Answering => Answering'
  BY <1>1, <1>3 DEF Arriving, InSlot, Answering
<1> QED BY <1>1, <1>2, <1>4, <1>5 DEF PatientInv, Phase

LEMMA PatientStep == ASSUME TypeOK, OnceInv, PatientInv, [Next]_vars PROVE PatientInv'
<1>1. patient' = patient
  BY DEF Next, vars, User, ChooseSample, LoadPage, Compile, OtherUpload, ServerHandles,
     ServerReceives, PageSteps, PageStep, Message, StartExecutor, Explore, ExcludeBlocks,
     UnexpectedModel, GoOn, Miss, TakeMessage, ReplyPlain, ReplyNodes, Reply, FallAsleep
<1> SUFFICES ASSUME patient PROVE PatientInv'
  BY <1>1 DEF PatientInv
<1>2. CASE UNCHANGED vars \/ ChooseSample \/ Compile \/ OtherUpload
  <2>1. /\ UNCHANGED <<toSend, written, received, requests, down, treeData, drawn, patient, executor,
                       doing, owed, started, reported, dead>>
        /\ page' = "main" <=> page = "main"
    BY <1>1, <1>2 DEF vars, ChooseSample, Submit, Compile, OtherUpload, serverVars, pageVars, executorVars
  <2> QED BY <2>1, SameSession
<1>3. CASE User
  BY <1>3, UserStep
<1>4. CASE LoadPage
  BY <1>4, LoadStep
<1>5. CASE ServerHandles
  BY <1>5, HandleStep DEF ServerHandles
<1>6. CASE ServerReceives
  BY <1>6, DataStep DEF ServerReceives
<1>7. CASE PageSteps
  <2>1. PICK r \in 1..Len(requests) : PageStep(r)
    BY <1>7 DEF PageSteps
  <2> QED BY <2>1, CallbackStep, PingStep DEF PageStep
<1>8. CASE Message
  BY <1>1, <1>8, MessageStep
<1>9. CASE ReplyPlain \/ ReplyNodes
  BY <1>9, ReplyStep
<1>10. CASE FallAsleep
  BY <1>10, FallStep
<1> QED BY <1>2, <1>3, <1>4, <1>5, <1>6, <1>7, <1>8, <1>9, <1>10 DEF Next

LEMMA PatientInitially == Init => PatientInv
<1> SUFFICES ASSUME Init PROVE PatientInv
  OBVIOUS
<1>1. /\ toSend = Nothing /\ written = <<>> /\ received = <<>> /\ requests = <<>> /\ ~down
      /\ page = "start" /\ treeData = <<>> /\ drawn = {} /\ executor = "none"
      /\ owed = "functions" /\ ~started /\ reported = <<>> /\ ~dead
  BY DEF Init, ServerInit, PageInit
<1>2. /\ Len(requests) = 0 /\ Len(reported) = 0 /\ Len(treeData) = 0 /\ Len(received) = 0
      /\ Len(written) = 0
  BY <1>1
<1>3. Ids(treeData) = {} /\ Open = {}
  BY <1>2 DEF Ids, Open
<1>4. Rooted(reported)
  BY <1>2 DEF Rooted
<1>5. Begun /\ ~AsksModel
  BY <1>1, <1>2 DEF Begun, AsksModel
<1>6. Free
  <2>1. Slack
    BY <1>1, <1>2, NothingIdle DEF Slack
  <2> QED BY <1>1, <1>2, <1>3, <1>5, <2>1 DEF Free
<1> QED BY <1>1, <1>2, <1>3, <1>4, <1>5, <1>6 DEF PatientInv, Phase

LEMMA PatientAlways == Spec => [](TypeOK /\ PatientInv)
<1>1. Spec => []OnceInv
  BY OnceAlways
<1> QED BY <1>1, TypeCorrect, PatientInitially, PatientStep, PTL DEF Spec

\* A patient user may exclude statements and nodes, however many, and ask for rounds
\* of any size.  He ends neither the server (the exceptions of app.js) nor the executor
\* (setExecutionVars; exclude of a node without a block), unless he excludes the node
\* of an external call.
THEOREM PatientSurvives == Spec => []StaysUp
<1>1. PatientInv => StaysUp
  BY DEF PatientInv, StaysUp
<1> QED BY <1>1, PatientAlways, PTL

\* With a patient user a loop of graph.js that asks for nodes or names ends with the
\* reply to its own request, though nothing in a reply names the request and the
\* replies to any number of exclusions are on their way; one that asks for lines ends
\* with the reply to an exclusion that was not asked for later.
THEOREM RepliesMatch == Spec => []OwnReply
<1>1. PatientInv => OwnReply
  BY DEF PatientInv, OwnReply, Asks
<1> QED BY <1>1, PatientAlways, PTL

\* With a patient user the page's tree is the executor's, up to the one reply that
\* is on its way (addNodes of graph.js, toSend of app.js), whatever exclusions go on
\* besides.
THEOREM TreesAgree == Spec => []TreeFollows
<1>1. TypeOK /\ PatientInv => TreeFollows
  <2> SUFFICES ASSUME TypeOK, PatientInv, patient PROVE TreeFollows
    BY DEF TreeFollows
  <2>1. drawn = {treeData[i].node : i \in 1..Len(treeData)}
    BY DEF PatientInv, Ids
  <2>2. treeData = reported \/ \E reply \in Pending : treeData \o reply.nodes = reported
    <3>1. CASE Free \/ Passing \/ Computing
      BY <3>1 DEF Free, Passing, Computing
    <3>2. CASE Arriving
      <4>1. PICK n \in Nat \ {0} : Len(received) = n /\ Answers(received[n])
        BY <3>2 DEF Arriving
      <4>2. n \in 1..n
        BY <4>1
      <4>3. received[n] \in Pending
        BY <4>1, <4>2 DEF Pending
      <4> QED BY <4>1, <4>3 DEF Answers
    <3>3. CASE InSlot
      <4>1. toSend \in Pending
        BY DEF Pending
      <4> QED BY <3>3, <4>1 DEF InSlot, Answers
    <3>4. CASE requests # <<>> /\ Answering
      <4>1. Latest.at = "answered" /\ treeData \o Latest.response.nodes = reported
        BY <3>4 DEF Answering, Answers
      <4>2. Len(requests) \in 1..Len(requests)
        BY <3>4, LatestFacts
      <4>3. Latest.response \in Pending
        BY <4>1, <4>2 DEF Pending, Latest
      <4> QED BY <4>1, <4>3
    <3> QED BY <3>1, <3>2, <3>3, <3>4 DEF PatientInv, Phase, Main
  <2> QED BY <2>1, <2>2 DEF TreeFollows
<1> QED BY <1>1, PatientAlways, PTL
=============================================================================
