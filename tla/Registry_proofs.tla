---------------------------- MODULE Registry_proofs ----------------------------
(***************************************************************************)
(* Proofs about Registry, for every set of sessions and every sequence of   *)
(* messages.                                                               *)
(***************************************************************************)
EXTENDS Registry, TLAPS

\* The executor made last for each session: the registered one, but between the
\* making of a new one and its registration.
Making == at \in {"swap", "replace"}
latest == [s \in Sessions |-> IF Making /\ s = id THEN newest ELSE threads_sym[s]]

LatestInv ==
  /\ \A e \in DOMAIN executors : e <= latest[executors[e].session]
  /\ \A s \in Sessions : latest[s] # None => executors[latest[s]].session = s

\* Where the threads are: in the map with their executor, but for the replaced one,
\* which t1 holds until it is detached.
ThreadsInv ==
  /\ at # "recv" => newest # 0
  /\ at # "replace" => threads = threads_sym
  /\ at = "swap" => t1 = newest /\ threads_sym[id] # None
  /\ at = "replace" => t1 # None /\ threads = [threads_sym EXCEPT ![id] = newest]
  /\ at = "detach" => t1 # None
  /\ at \in {"recv", "leave"} => t1 = None

\* The epoch the executor process has reached in each session.
current ==
  [s \in Sessions |-> IF latest[s] = None THEN 0 ELSE executors[latest[s]].epoch]

\* An epoch ahead of the process is announced by a message of type 300 in the
\* queue q, and all messages of that epoch come after it.
Announced(q, s, t, limit) ==
  \E j \in 1..limit : q[j].session = s /\ q[j].type = "300" /\ q[j].epoch = t

InOrder(q, cur, ep) ==
  /\ \A k \in 1..Len(q) :
       /\ cur[q[k].session] <= q[k].epoch /\ q[k].epoch <= ep[q[k].session]
       /\ q[k].type = "instruction" /\ cur[q[k].session] < q[k].epoch
            => Announced(q, q[k].session, q[k].epoch, k - 1)
  /\ \A j, k \in 1..Len(q) :
       j < k /\ q[j].session = q[k].session => q[j].epoch <= q[k].epoch
  /\ \A s \in Sessions : /\ cur[s] <= ep[s]
                         /\ cur[s] < ep[s] => Announced(q, s, ep[s], Len(q))

EpochsInOrder == InOrder(inbox, current, epoch)

\* Who sent a late reply has been replaced and sleeps.
LateSleeps ==
  \A k \in DOMAIN outbox :
    LET e == outbox[k].executor
    IN  outbox[k].stale => /\ e \in DOMAIN executors
                           /\ e < threads_sym[executors[e].session]
                           /\ executors[e].state = "asleep"

IInv ==
  /\ TypeOK
  /\ LatestInv
  /\ ThreadsInv
  /\ EpochsInOrder
  /\ InstructionReachesItsTree
  /\ LateSleeps
  /\ LateReplyOnce
  /\ DiesOfConnection

-----------------------------------------------------------------------------
(* Sequences.                                                              *)

LEMMA TailOf ==
  ASSUME NEW S, NEW q \in Seq(S), q # <<>>
  PROVE  /\ Tail(q) \in Seq(S) /\ Head(q) \in S /\ Head(q) = q[1]
         /\ Len(q) \in Nat \ {0} /\ Len(Tail(q)) = Len(q) - 1
         /\ \A k \in 1..(Len(q) - 1) : Tail(q)[k] = q[k + 1]
OBVIOUS

LEMMA AppendTo ==
  ASSUME NEW S, NEW q \in Seq(S), NEW x \in S
  PROVE  /\ Append(q, x) \in Seq(S)
         /\ Len(q) \in Nat /\ Len(Append(q, x)) = Len(q) + 1
         /\ DOMAIN q = 1..Len(q) /\ DOMAIN Append(q, x) = 1..(Len(q) + 1)
         /\ \A k \in 1..Len(q) : Append(q, x)[k] = q[k]
         /\ Append(q, x)[Len(q) + 1] = x
OBVIOUS

-----------------------------------------------------------------------------
(* The queue of messages.                                                  *)

\* An instruction at the head is of the current epoch.
LEMMA HeadEpoch ==
  ASSUME NEW q \in Seq(Messages), q # <<>>,
         NEW cur \in [Sessions -> Nat], NEW ep \in [Sessions -> Nat], InOrder(q, cur, ep)
  PROVE  LET m == Head(q)
         IN  /\ m \in Messages /\ cur[m.session] <= m.epoch
             /\ m.type # "300" => m.epoch = cur[m.session]
<1>1. Head(q) \in Messages /\ Head(q) = q[1] /\ 1 \in 1..Len(q)
  BY TailOf
<1>2. PICK m : m = q[1]
  OBVIOUS
<1>3. /\ m.session \in Sessions /\ m.epoch \in Nat /\ cur[m.session] \in Nat
      /\ m.type # "300" => m.type = "instruction"
  BY <1>1, <1>2 DEF Messages, Types
<1>4. \A s \in Sessions, t \in Nat : ~Announced(q, s, t, 1 - 1)
  BY DEF Announced
<1>5. /\ cur[m.session] <= m.epoch
      /\ m.type = "instruction" /\ cur[m.session] < m.epoch
           => Announced(q, m.session, m.epoch, 1 - 1)
  <2>1. \A k \in 1..Len(q) :
          /\ cur[q[k].session] <= q[k].epoch
          /\ q[k].type = "instruction" /\ cur[q[k].session] < q[k].epoch
               => Announced(q, q[k].session, q[k].epoch, k - 1)
    BY Zenon DEF InOrder
  <2> QED BY <1>1, <1>2, <2>1, Zenon
<1>6. m.type = "instruction" => ~(cur[m.session] < m.epoch)
  BY <1>3, <1>4, <1>5, Zenon
<1> QED BY <1>1, <1>2, <1>3, <1>5, <1>6

\* Handling the head brings its session to its epoch.
LEMMA HandleHead ==
  ASSUME NEW q \in Seq(Messages), q # <<>>,
         NEW cur \in [Sessions -> Nat], NEW ep \in [Sessions -> Nat], InOrder(q, cur, ep)
  PROVE  InOrder(Tail(q), [cur EXCEPT ![Head(q).session] = Head(q).epoch], ep)
<1>1. PICK m, r, new : /\ m = Head(q) /\ r = Tail(q)
                       /\ new = [cur EXCEPT ![m.session] = m.epoch]
  OBVIOUS
<1>2. /\ Len(q) \in Nat \ {0} /\ Len(r) = Len(q) - 1 /\ m = q[1] /\ m \in Messages
      /\ \A k \in 1..Len(r) : k + 1 \in 1..Len(q) /\ r[k] = q[k + 1]
  BY <1>1, TailOf
<1>3. \A k \in 1..Len(q) : q[k].session \in Sessions /\ q[k].epoch \in Nat
  <2>1. \A k \in 1..Len(q) : q[k] \in Messages
    OBVIOUS
  <2>2. \A x \in Messages : x.session \in Sessions /\ x.epoch \in Nat
    BY DEF Messages
  <2> QED BY <2>1, <2>2
<1>4. /\ m.session \in Sessions /\ m.epoch \in Nat /\ cur[m.session] <= m.epoch
  BY <1>1, <1>2, HeadEpoch DEF Messages
<1>5. \A s \in Sessions : /\ cur[s] \in Nat /\ ep[s] \in Nat /\ new[s] \in Nat
                          /\ cur[s] <= new[s]
                          /\ new[s] = IF s = m.session THEN m.epoch ELSE cur[s]
  BY <1>1, <1>4
\* What was announced and is still ahead is announced by one of the others.
<1>6. ASSUME NEW s \in Sessions, NEW t \in Nat, NEW limit \in 0..Len(r),
             new[s] < t, Announced(q, s, t, limit + 1)
      PROVE  Announced(r, s, t, limit)
  <2>1. PICK j \in 1..(limit + 1) :
          q[j].session = s /\ q[j].type = "300" /\ q[j].epoch = t
    BY <1>6 DEF Announced
  <2>2. j # 1
    <3>1. m.session = s => new[s] = m.epoch
      BY <1>5
    <3> QED BY <1>2, <1>4, <1>6, <2>1, <3>1
  <2>3. j - 1 \in 1..limit /\ j - 1 \in 1..Len(r) /\ (j - 1) + 1 = j
    BY <1>2, <2>2
  <2>4. r[j - 1] = q[j]
    BY <1>2, <2>3
  <2> QED BY <2>1, <2>3, <2>4 DEF Announced
<1>7. ASSUME NEW k \in 1..Len(r)
      PROVE  /\ new[r[k].session] <= r[k].epoch /\ r[k].epoch <= ep[r[k].session]
             /\ r[k].type = "instruction" /\ new[r[k].session] < r[k].epoch
                  => Announced(r, r[k].session, r[k].epoch, k - 1)
  <2>1. PICK x : x = r[k]
    OBVIOUS
  <2>2. /\ k \in Nat /\ k + 1 \in 1..Len(q) /\ 1 \in 1..Len(q) /\ 1 < k + 1
        /\ k - 1 \in 0..Len(r) /\ (k + 1) - 1 = (k - 1) + 1 /\ q[k + 1] = x
    BY <1>2, <2>1
  <2>3. x.session \in Sessions /\ x.epoch \in Nat
    BY <1>3, <2>2
  <2>4. /\ cur[x.session] <= x.epoch /\ x.epoch <= ep[x.session]
        /\ x.type = "instruction" /\ cur[x.session] < x.epoch
             => Announced(q, x.session, x.epoch, (k + 1) - 1)
    BY <2>2 DEF InOrder
  <2>5. m.session = x.session => m.epoch <= x.epoch
    BY <1>2, <2>2 DEF InOrder
  <2>6. new[x.session] <= x.epoch
    BY <1>5, <2>3, <2>4, <2>5
  <2>7. ASSUME x.type = "instruction", new[x.session] < x.epoch
        PROVE  Announced(r, x.session, x.epoch, k - 1)
    <3>1. cur[x.session] < x.epoch
      BY <1>5, <2>3, <2>7
    <3>2. Announced(q, x.session, x.epoch, (k - 1) + 1)
      BY <2>2, <2>4, <2>7, <3>1
    <3> QED BY <1>6, <2>2, <2>3, <2>7, <3>2
  <2> QED BY <2>1, <2>4, <2>6, <2>7
<1>8. \A j, k \in 1..Len(r) :
        j < k /\ r[j].session = r[k].session => r[j].epoch <= r[k].epoch
  <2>1. \A j, k \in 1..Len(r) : j < k => j + 1 < k + 1
    OBVIOUS
  <2>2. \A j, k \in 1..Len(q) :
          j < k /\ q[j].session = q[k].session => q[j].epoch <= q[k].epoch
    BY DEF InOrder
  <2> QED BY <1>2, <2>1, <2>2
<1>9. ASSUME NEW s \in Sessions, new[s] < ep[s]
      PROVE  Announced(r, s, ep[s], Len(r))
  <2>1. Announced(q, s, ep[s], Len(q))
    BY <1>5, <1>9 DEF InOrder
  <2>2. Len(r) \in 0..Len(r) /\ Len(r) + 1 = Len(q)
    BY <1>2
  <2> QED BY <1>5, <1>6, <1>9, <2>1, <2>2
<1>10. \A s \in Sessions : new[s] <= ep[s]
  <2>1. 1 \in 1..Len(q) /\ \A s \in Sessions : cur[s] <= ep[s]
    BY <1>2 DEF InOrder
  <2>2. \A k \in 1..Len(q) : q[k].epoch <= ep[q[k].session]
    BY DEF InOrder
  <2>3. m.epoch <= ep[m.session]
    BY <1>2, <2>1, <2>2
  <2> QED BY <1>5, <2>1, <2>3
<1> QED BY <1>1, <1>7, <1>8, <1>9, <1>10 DEF InOrder

\* An instruction carries the epoch of its session, a start the next one.
LEMMA AppendMessage ==
  ASSUME NEW q \in Seq(Messages), NEW cur \in [Sessions -> Nat],
         NEW ep \in [Sessions -> Nat], NEW next \in [Sessions -> Nat],
         InOrder(q, cur, ep),
         NEW x \in Messages, x.epoch = next[x.session],
         \/ x.type = "instruction" /\ next = ep
         \/ x.type = "300" /\ next = [ep EXCEPT ![x.session] = @ + 1]
  PROVE  InOrder(Append(q, x), cur, next)
<1>1. PICK r, n : r = Append(q, x) /\ n = Len(q)
  OBVIOUS
<1>2. /\ n \in Nat /\ Len(r) = n + 1 /\ r[n + 1] = x
      /\ \A k \in 1..n : k \in Nat /\ k <= n /\ q[k] \in Messages /\ r[k] = q[k]
  BY <1>1
<1>3. /\ x.session \in Sessions /\ x.epoch \in Nat
      /\ \A k \in 1..n : q[k].session \in Sessions /\ q[k].epoch \in Nat
  BY <1>2 DEF Messages
<1>4. \A s \in Sessions : /\ cur[s] \in Nat /\ ep[s] \in Nat /\ next[s] \in Nat
                          /\ ep[s] <= next[s] /\ cur[s] <= ep[s]
                          /\ s # x.session => next[s] = ep[s]
  <2>1. \A s \in Sessions : cur[s] <= ep[s]
    BY DEF InOrder
  <2>2. \A s \in Sessions : ep[s] <= next[s] /\ (s # x.session => next[s] = ep[s])
    <3>1. CASE next = ep BY <3>1
    <3>2. CASE next = [ep EXCEPT ![x.session] = @ + 1] BY <3>2
    <3> QED BY <3>1, <3>2
  <2> QED BY <2>1, <2>2
<1>5. \A k \in 1..n : /\ cur[q[k].session] <= q[k].epoch
                      /\ q[k].epoch <= ep[q[k].session]
                      /\ q[k].type = "instruction" /\ cur[q[k].session] < q[k].epoch
                           => Announced(q, q[k].session, q[k].epoch, k - 1)
  BY <1>1, Zenon DEF InOrder
\* Announcements stay, and a start announces its own epoch.
<1>6. ASSUME NEW s, NEW t, NEW limit \in 0..n, Announced(q, s, t, limit)
      PROVE  Announced(r, s, t, limit)
  <2>1. PICK j \in 1..limit : q[j].session = s /\ q[j].type = "300" /\ q[j].epoch = t
    BY <1>6 DEF Announced
  <2>2. j \in 1..n
    BY <1>2
  <2> QED BY <1>2, <2>1, <2>2 DEF Announced
<1>7. ASSUME NEW s, NEW t, Announced(q, s, t, n)
      PROVE  Announced(r, s, t, n) /\ Announced(r, s, t, n + 1)
  <2>1. Announced(r, s, t, n)
    BY <1>2, <1>6, <1>7
  <2>2. \A j \in 1..n : j \in 1..(n + 1)
    BY <1>2
  <2> QED BY <2>1, <2>2 DEF Announced
<1>8. \A s \in Sessions : cur[s] < ep[s] => Announced(q, s, ep[s], n)
  BY <1>1, Zenon DEF InOrder
<1>9. ASSUME NEW k \in 1..(n + 1)
      PROVE  /\ cur[r[k].session] <= r[k].epoch /\ r[k].epoch <= next[r[k].session]
             /\ r[k].type = "instruction" /\ cur[r[k].session] < r[k].epoch
                  => Announced(r, r[k].session, r[k].epoch, k - 1)
  <2>1. CASE k \in 1..n
    <3>1. k - 1 \in 0..n
      BY <1>2
    <3>2. PICK y : y = q[k] /\ y = r[k]
      BY <1>2, <2>1
    <3>3. y.session \in Sessions /\ y.epoch \in Nat
      BY <1>3, <2>1, <3>2
    <3>4. /\ cur[y.session] <= y.epoch /\ y.epoch <= ep[y.session]
          /\ y.type = "instruction" /\ cur[y.session] < y.epoch
               => Announced(q, y.session, y.epoch, k - 1)
      BY <1>5, <2>1, <3>2
    <3>5. y.epoch <= next[y.session]
      BY <1>4, <3>3, <3>4
    <3> QED BY <1>6, <3>1, <3>2, <3>4, <3>5
  <2>2. CASE k = n + 1
    <3>1. r[k] = x /\ k - 1 = n
      BY <1>2, <2>2
    <3>2. cur[x.session] <= x.epoch /\ x.epoch <= next[x.session]
      BY <1>3, <1>4
    <3>3. ASSUME x.type = "instruction", cur[x.session] < x.epoch
          PROVE  Announced(r, x.session, x.epoch, n)
      BY <1>3, <1>7, <1>8, <3>3
    <3> QED BY <3>1, <3>2, <3>3
  <2> QED BY <1>2, <2>1, <2>2
<1>10. \A j, k \in 1..(n + 1) :
         j < k /\ r[j].session = r[k].session => r[j].epoch <= r[k].epoch
  <2> SUFFICES ASSUME NEW j \in 1..(n + 1), NEW k \in 1..(n + 1),
                      j < k, r[j].session = r[k].session
               PROVE  r[j].epoch <= r[k].epoch
    OBVIOUS
  <2>1. j \in 1..n /\ r[j] = q[j]
    BY <1>2
  <2>2. CASE k \in 1..n
    <3>1. \A i, l \in 1..n : i < l /\ q[i].session = q[l].session => q[i].epoch <= q[l].epoch
      BY <1>1, Zenon DEF InOrder
    <3>2. r[k] = q[k]
      BY <1>2, <2>2
    <3> QED BY <2>1, <2>2, <3>1, <3>2
  <2>3. CASE k = n + 1
    <3>1. r[k] = x
      BY <1>2, <2>3
    <3>2. PICK y : y = q[j]
      OBVIOUS
    <3>3. y.epoch \in Nat /\ y.epoch <= ep[y.session] /\ y.session = x.session
      BY <1>3, <1>5, <2>1, <3>1, <3>2
    <3>4. y.epoch <= x.epoch
      BY <1>3, <1>4, <3>3
    <3> QED BY <2>1, <3>1, <3>2, <3>4
  <2> QED BY <1>2, <2>2, <2>3
<1>11. ASSUME NEW s \in Sessions
       PROVE  /\ cur[s] <= next[s]
              /\ cur[s] < next[s] => Announced(r, s, next[s], n + 1)
  <2>1. cur[s] <= next[s]
    BY <1>4
  <2>2. CASE s = x.session /\ x.type = "300"
    <3>1. n + 1 \in 1..(n + 1)
      BY <1>2
    <3>2. Announced(r, s, next[s], n + 1)
      BY <1>2, <2>2, <3>1 DEF Announced
    <3> QED BY <2>1, <3>2
  <2>3. CASE ~(s = x.session /\ x.type = "300")
    <3>1. next[s] = ep[s]
      BY <1>4, <2>3
    <3> QED BY <1>7, <1>8, <2>1, <3>1
  <2> QED BY <2>2, <2>3
<1> QED BY <1>1, <1>2, <1>9, <1>10, <1>11 DEF InOrder

-----------------------------------------------------------------------------
(* The executors.                                                          *)

LEMMA ChangeAt ==
  ASSUME NEW S, NEW q \in Seq(S), NEW i \in DOMAIN q, NEW x \in S
  PROVE  LET r == [q EXCEPT ![i] = x]
         IN  /\ r \in Seq(S) /\ Len(r) = Len(q) /\ DOMAIN r = DOMAIN q
             /\ r[i] = x /\ \A j \in DOMAIN q : j # i => r[j] = q[j]
OBVIOUS

\* What the types say of the executors.
LEMMA RegisteredType ==
  ASSUME TypeOK, ThreadsInv
  PROVE  /\ Len(executors) \in Nat /\ DOMAIN executors = 1..Len(executors)
         /\ \A e \in DOMAIN executors :
              /\ e \in Nat \ {0} /\ executors[e] \in Executors
              /\ executors[e].session \in Sessions /\ executors[e].epoch \in Nat
         /\ \A s \in Sessions :
              /\ threads_sym[s] \in Nat
              /\ latest[s] \in Nat /\ latest[s] <= Len(executors)
              /\ latest[s] # None => latest[s] \in DOMAIN executors
         /\ at # "recv" => newest \in DOMAIN executors /\ id \in Sessions
         /\ current \in [Sessions -> Nat]
<1>1. Len(executors) \in Nat /\ DOMAIN executors = 1..Len(executors)
  BY DEF TypeOK
<1>2. \A e \in DOMAIN executors : e \in Nat \ {0} /\ executors[e] \in Executors
  BY DEF TypeOK
<1>3. \A x \in Executors : x.session \in Sessions /\ x.epoch \in Nat
  BY DEF Executors
<1>4. at # "recv" => newest \in DOMAIN executors /\ id \in Sessions
  <2>1. at # "recv" => newest \in DOMAIN executors
    BY <1>1 DEF ThreadsInv, newest
  <2> QED BY <1>2, <1>3, <2>1 DEF id
<1>5. \A s \in Sessions : threads_sym[s] \in Nat /\ threads_sym[s] <= Len(executors)
  BY <1>1 DEF TypeOK
<1>6. \A s \in Sessions : /\ latest[s] \in Nat /\ latest[s] <= Len(executors)
                          /\ latest[s] # None => latest[s] \in DOMAIN executors
  <2>1. \A s \in Sessions : latest[s] \in {newest, threads_sym[s]}
    BY DEF latest
  <2>2. newest \in Nat /\ newest <= Len(executors)
    BY <1>1 DEF newest
  <2>3. \A k \in Nat : k <= Len(executors) /\ k # None => k \in DOMAIN executors
    BY <1>1 DEF None
  <2> QED BY <1>5, <2>1, <2>2, <2>3
<1>7. current \in [Sessions -> Nat]
  BY <1>2, <1>3, <1>6 DEF current
<1> QED BY <1>1, <1>2, <1>3, <1>4, <1>5, <1>6, <1>7

\* When communicate reads a message, the registered executors are the latest.
LEMMA AtRecv ==
  ASSUME TypeOK, at = "recv"
  PROVE  latest = threads_sym
BY DEF TypeOK, latest, Making

\* Steps that leave session and epoch of every executor alone, and the registry.
LEMMA SameExecutors ==
  ASSUME TypeOK, ThreadsInv, LatestInv,
         UNCHANGED <<at, t1, threads_sym, threads>>, Len(executors') = Len(executors),
         DOMAIN executors' = DOMAIN executors,
         \A e \in DOMAIN executors : /\ executors'[e].session = executors[e].session
                                    /\ executors'[e].epoch = executors[e].epoch
  PROVE  LatestInv' /\ ThreadsInv' /\ latest' = latest /\ current' = current
<1>1. newest' = newest /\ (at # "recv" => id' = id)
  BY RegisteredType DEF newest, id
<1>2. latest' = latest
  BY <1>1 DEF latest, Making
<1>3. \A s \in Sessions : latest[s] # None => latest[s] \in DOMAIN executors
  BY RegisteredType
<1>4. LatestInv'
  BY <1>2, <1>3 DEF LatestInv
<1>5. current' = current
  BY <1>2, <1>3 DEF current
<1>6. ThreadsInv'
  <2>1. at' = at /\ t1' = t1 /\ threads' = threads /\ threads_sym' = threads_sym
    OBVIOUS
  <2> QED BY <1>1, <2>1 DEF ThreadsInv
<1> QED BY <1>2, <1>4, <1>5, <1>6

\* communicate takes the head off the queue.
LEMMA ReceiveStep ==
  ASSUME IInv, Receive
  PROVE  /\ message \in Messages /\ message.session \in Sessions /\ message.epoch \in Nat
         /\ inbox' \in Seq(Messages)
         /\ message.type # "300" => message.epoch = current[message.session]
         /\ current' = [current EXCEPT ![message.session] = message.epoch] => EpochsInOrder'
<1>1. /\ inbox \in Seq(Messages) /\ inbox # <<>> /\ inbox' = Tail(inbox)
      /\ epoch \in [Sessions -> Nat] /\ epoch' = epoch /\ current \in [Sessions -> Nat]
      /\ InOrder(inbox, current, epoch)
  BY RegisteredType DEF IInv, TypeOK, Receive, webServerVars, EpochsInOrder
<1>2. message \in Messages /\ message.session \in Sessions /\ message.epoch \in Nat
  <2>1. message \in Messages
    BY <1>1, TailOf DEF message
  <2>2. \A m \in Messages : m.session \in Sessions /\ m.epoch \in Nat
    BY DEF Messages
  <2> QED BY <2>1, <2>2
<1>3. inbox' \in Seq(Messages)
  BY <1>1
<1>4. message.type # "300" => message.epoch = current[message.session]
  BY <1>1, HeadEpoch DEF message
<1>5. InOrder(Tail(inbox), [current EXCEPT ![message.session] = message.epoch], epoch)
  BY <1>1, HandleHead DEF message
<1>6. ASSUME current' = [current EXCEPT ![message.session] = message.epoch]
      PROVE  EpochsInOrder'
  BY <1>1, <1>5, <1>6 DEF EpochsInOrder
<1> QED BY <1>2, <1>3, <1>4, <1>6

-----------------------------------------------------------------------------
(* The steps.                                                              *)

LEMMA InitInv == ASSUME Init PROVE IInv
<1> USE DEF Init
<1>1. TypeOK
  <2>1. /\ inbox \in Seq(Messages) /\ outbox \in Seq(Replies)
        /\ executors \in Seq(Executors) /\ Len(executors) = 0
    OBVIOUS
  <2>2. threads_sym \in [Sessions -> 0..0] /\ threads \in [Sessions -> 0..0] /\ t1 \in 0..0
    BY DEF None
  <2>3. /\ connections \in Nat /\ tempThread \in 0..connections
    BY DEF None
  <2>4. /\ closed \in BOOLEAN /\ epoch \in [Sessions -> Nat]
        /\ issued \in Nat /\ dead \in BOOLEAN /\ server \in ServerSockets
    BY DEF ServerSockets
  <2> QED BY <2>1, <2>2, <2>3, <2>4 DEF TypeOK
<1>2. LatestInv /\ ThreadsInv /\ InstructionReachesItsTree /\ LateSleeps /\ LateReplyOnce /\ DiesOfConnection
  BY DEF LatestInv, latest, Making, ThreadsInv, InstructionReachesItsTree, LateSleeps,
         LateReplyOnce, DiesOfConnection
<1>3. EpochsInOrder
  <2>1. current = epoch /\ epoch \in [Sessions -> Nat]
    BY DEF current, latest, Making
  <2>2. Len(inbox) = 0 /\ 1..0 = {}
    OBVIOUS
  <2>3. \A s \in Sessions : epoch[s] <= epoch[s] /\ ~(epoch[s] < epoch[s])
    <3>1. \A s \in Sessions : epoch[s] = 0
      OBVIOUS
    <3>2. 0 <= 0 /\ ~(0 < 0)
      OBVIOUS
    <3> QED BY <3>1, <3>2, Zenon
  <2> QED BY <2>1, <2>2, <2>3 DEF EpochsInOrder, InOrder
<1> QED BY <1>1, <1>2, <1>3 DEF IInv

\* Steps of main and of the web server that touch no session, and the end.
LEMMA ConnectionStep ==
  ASSUME IInv, UNCHANGED <<inbox, communicateVars, executors, outbox, epoch, issued>>,
         server' \in ServerSockets, connections' \in Nat, tempThread' \in 0..connections',
         closed' \in BOOLEAN, dead' \in BOOLEAN, DiesOfConnection'
  PROVE  IInv'
<1>0. UNCHANGED <<at, t1, threads_sym, threads>>
  BY DEF communicateVars
<1>1. TypeOK'
  BY <1>0 DEF IInv, TypeOK
<1>2. LatestInv' /\ ThreadsInv' /\ current' = current
  BY <1>0, SameExecutors DEF IInv
<1>3. EpochsInOrder'
  BY <1>2 DEF IInv, EpochsInOrder
<1>4. InstructionReachesItsTree' /\ LateSleeps' /\ LateReplyOnce'
  BY <1>0 DEF IInv, InstructionReachesItsTree, LateSleeps, LateReplyOnce
<1> QED BY <1>1, <1>2, <1>3, <1>4 DEF IInv

LEMMA IssueStep ==
  ASSUME IInv, NEW s \in Sessions, NEW type \in Types, Issue(s, type)
  PROVE  IInv'
<1>1. PICK x : x = [session |-> s, type |-> type, epoch |-> epoch'[s]]
  OBVIOUS
<1>2. /\ inbox' = Append(inbox, x) /\ issued' = issued + 1
      /\ UNCHANGED <<server, connections, tempThread, closed, at, t1, threads_sym, threads,
                     executors, outbox, dead>>
      /\ epoch' = IF type = "300" THEN [epoch EXCEPT ![s] = @ + 1] ELSE epoch
  BY <1>1 DEF Issue, mainVars, communicateVars
<1>3. epoch \in [Sessions -> Nat] /\ epoch' \in [Sessions -> Nat] /\ inbox \in Seq(Messages)
  BY <1>2 DEF IInv, TypeOK
<1>4. x \in Messages /\ x.session = s /\ x.type = type /\ x.epoch = epoch'[s]
  BY <1>1, <1>3 DEF Messages
<1>5. inbox' \in Seq(Messages)
  BY <1>2, <1>3, <1>4, AppendTo
<1>6. TypeOK'
  BY <1>2, <1>3, <1>5 DEF IInv, TypeOK
<1>7. LatestInv' /\ ThreadsInv' /\ current' = current
  BY <1>2, SameExecutors DEF IInv
<1>8. EpochsInOrder'
  <2>1. \/ x.type = "instruction" /\ epoch' = epoch
        \/ x.type = "300" /\ epoch' = [epoch EXCEPT ![x.session] = @ + 1]
    BY <1>2, <1>4 DEF Types
  <2>2. InOrder(inbox, current, epoch) /\ current \in [Sessions -> Nat]
    BY RegisteredType DEF IInv, EpochsInOrder
  <2>3. PICK q, cur, ep, next : q = inbox /\ cur = current /\ ep = epoch /\ next = epoch'
    OBVIOUS
  <2>4. InOrder(Append(q, x), cur, next)
    BY <1>3, <1>4, <2>1, <2>2, <2>3, AppendMessage
  <2> QED BY <1>2, <1>7, <2>3, <2>4 DEF EpochsInOrder
<1>9. InstructionReachesItsTree' /\ LateSleeps' /\ LateReplyOnce' /\ DiesOfConnection'
  BY <1>2 DEF IInv, InstructionReachesItsTree, LateSleeps, LateReplyOnce, DiesOfConnection
<1> QED BY <1>6, <1>7, <1>8, <1>9 DEF IInv

\* Start and Restart: a new executor is the latest of its session.
LEMMA MakeStep ==
  ASSUME IInv, Receive, MakeExecutor, TypeOK', ThreadsInv', DiesOfConnection',
         latest' = [latest EXCEPT ![message.session] = newest + 1],
         \A s \in Sessions : threads_sym[s] <= threads_sym'[s]
  PROVE  IInv'
<1>1. PICK x, n : /\ n = Len(executors)
                  /\ x = [session |-> message.session, epoch |-> message.epoch,
                          state |-> "running", got |-> message.epoch]
  OBVIOUS
<1>2. /\ message.session \in Sessions /\ message.epoch \in Nat /\ inbox' \in Seq(Messages)
      /\ x \in Executors /\ x.got = x.epoch
      /\ x.session = message.session /\ x.epoch = message.epoch
  BY <1>1, ReceiveStep DEF Executors
<1>3. /\ executors \in Seq(Executors) /\ TypeOK /\ ThreadsInv
      /\ UNCHANGED <<outbox, epoch>>
      /\ executors' = Append(executors, x)
      /\ latest' = [latest EXCEPT ![message.session] = n + 1]
  BY <1>1 DEF IInv, TypeOK, Receive, MakeExecutor, webServerVars, newest
<1>4. /\ n \in Nat /\ Len(executors') = n + 1 /\ executors' \in Seq(Executors)
      /\ DOMAIN executors = 1..n /\ DOMAIN executors' = 1..(n + 1)
      /\ executors'[n + 1] = x /\ \A e \in 1..n : executors'[e] = executors[e]
  BY <1>1, <1>2, <1>3, AppendTo
<1>5. \A s \in Sessions : /\ latest[s] \in Nat /\ latest[s] <= n
                          /\ latest'[s] \in 0..(n + 1)
                          /\ latest[s] <= latest'[s]
                          /\ latest'[s] = IF s = x.session THEN n + 1 ELSE latest[s]
                          /\ threads_sym[s] \in Nat /\ threads_sym'[s] \in Nat
                          /\ threads_sym[s] <= threads_sym'[s]
  <2>1. \A s \in Sessions : threads_sym'[s] \in Nat
    BY <1>4 DEF TypeOK
  <2>2. latest \in [Sessions -> Nat] /\ \A s \in Sessions : latest[s] <= n
    BY <1>1, <1>3, RegisteredType DEF latest
  <2> HIDE DEF latest
  <2>3. \A s \in Sessions : latest'[s] = IF s = x.session THEN n + 1 ELSE latest[s]
    BY <1>2, <1>3, <2>2
  <2>4. \A s \in Sessions : threads_sym[s] \in Nat
    BY <1>3, RegisteredType
  <2> QED BY <1>4, <2>1, <2>2, <2>3, <2>4
<1>7. \A e \in 1..n : /\ e \in Nat /\ executors[e].session \in Sessions
                      /\ e <= latest[executors[e].session]
  BY <1>3, <1>4, RegisteredType DEF IInv, LatestInv
<1>8. LatestInv'
  <2>1. ASSUME NEW e \in 1..(n + 1) PROVE e <= latest'[executors'[e].session]
    <3>1. CASE e \in 1..n
      BY <1>4, <1>5, <1>7, <3>1
    <3>2. CASE e = n + 1
      BY <1>2, <1>4, <1>5, <3>2
    <3> QED BY <1>4, <3>1, <3>2
  <2>2. ASSUME NEW s \in Sessions, latest'[s] # None
        PROVE  executors'[latest'[s]].session = s
    <3>1. CASE s = x.session
      BY <1>4, <1>5, <3>1
    <3>2. CASE s # x.session
      <4>1. latest'[s] = latest[s] /\ latest[s] \in 1..n
        BY <1>3, <1>4, <1>5, <2>2, <3>2, RegisteredType
      <4>2. executors[latest[s]].session = s
        BY <2>2, <4>1 DEF IInv, LatestInv
      <4> QED BY <1>4, <4>1, <4>2
    <3> QED BY <3>1, <3>2
  <2> QED BY <1>4, <2>1, <2>2 DEF LatestInv
<1>9. EpochsInOrder'
  <2>1. ASSUME NEW s \in Sessions
        PROVE  current'[s] = IF s = x.session THEN x.epoch ELSE current[s]
    <3>1. current'[s] = IF latest'[s] = None THEN 0 ELSE executors'[latest'[s]].epoch
      BY DEF current
    <3>2. current[s] = IF latest[s] = None THEN 0 ELSE executors[latest[s]].epoch
      BY DEF current
    <3>3. CASE s = x.session
      BY <1>4, <1>5, <3>1, <3>3 DEF None
    <3>4. CASE s # x.session
      <4>1. /\ latest'[s] = latest[s]
            /\ latest[s] # None => latest[s] \in 1..n
        BY <1>3, <1>4, <1>5, <3>4, RegisteredType
      <4> QED BY <1>4, <3>1, <3>2, <3>4, <4>1
    <3> QED BY <3>3, <3>4
  <2>2. DOMAIN current' = Sessions /\ current \in [Sessions -> Nat]
    BY <1>3, RegisteredType DEF current
  <2>3. current' = [s \in Sessions |-> current'[s]]
    BY DEF current
  <2>4. current' = [current EXCEPT ![message.session] = message.epoch]
    BY <1>2, <2>1, <2>2, <2>3
  <2> QED BY <2>4, ReceiveStep
<1>10. InstructionReachesItsTree'
  <2>1. \A e \in 1..n : executors[e].got = executors[e].epoch
    BY <1>4 DEF IInv, InstructionReachesItsTree
  <2>2. \A e \in 1..(n + 1) : e \in 1..n \/ e = n + 1
    BY <1>4
  <2> QED BY <1>2, <1>4, <2>1, <2>2 DEF InstructionReachesItsTree
<1>11. LateSleeps'
  <2>1. ASSUME NEW k \in DOMAIN outbox, outbox[k].stale,
               NEW e, e = outbox[k].executor
        PROVE  /\ e \in 1..(n + 1) /\ e < threads_sym'[executors'[e].session]
               /\ executors'[e].state = "asleep"
    <3>1. /\ e \in 1..n /\ e < threads_sym[executors[e].session]
          /\ executors[e].state = "asleep"
      BY <1>4, <2>1 DEF IInv, LateSleeps
    <3> QED BY <1>4, <1>5, <1>7, <3>1
  <2> QED BY <1>3, <1>4, <2>1 DEF LateSleeps
<1>12. LateReplyOnce'
  BY <1>3 DEF IInv, LateReplyOnce
<1> QED BY <1>8, <1>9, <1>10, <1>11, <1>12 DEF IInv

LEMMA StartStep == ASSUME IInv, Start PROVE IInv'
<1>1. PICK m, n : m = message.session /\ n = newest + 1
  OBVIOUS
<1>2. /\ Receive /\ MakeExecutor /\ m \in Sessions /\ inbox' \in Seq(Messages)
      /\ threads_sym[m] = None /\ at = "recv"
      /\ threads_sym' = [threads_sym EXCEPT ![m] = n]
      /\ threads' = [threads EXCEPT ![m] = n]
      /\ dead' = (threads[m] # None)
      /\ UNCHANGED <<at, t1, server, connections, tempThread, outbox, closed, epoch, issued>>
  BY <1>1, ReceiveStep DEF Start, Receive, registered, mainVars, webServerVars
<1>3. /\ TypeOK /\ ThreadsInv /\ threads = threads_sym /\ t1 = None
      /\ threads_sym \in [Sessions -> 0..newest] /\ newest \in Nat
  BY <1>2 DEF IInv, ThreadsInv, TypeOK, newest
<1>4. /\ executors' \in Seq(Executors) /\ newest' = n /\ n \in Nat /\ n # None
      /\ n = newest + 1
  <2>1. PICK x : x = [session |-> message.session, epoch |-> message.epoch,
                      state |-> "running", got |-> message.epoch]
    OBVIOUS
  <2>2. x \in Executors /\ executors \in Seq(Executors) /\ executors' = Append(executors, x)
    BY <1>2, <1>3, <2>1, ReceiveStep DEF Executors, MakeExecutor, TypeOK
  <2> QED BY <1>1, <1>3, <2>2, AppendTo DEF newest, None
<1>5. ~dead' /\ threads' = threads_sym' /\ threads_sym' \in [Sessions -> 0..n]
  <2>1. \A s \in Sessions : threads_sym'[s] \in 0..n
    BY <1>2, <1>3, <1>4
  <2> QED BY <1>2, <1>3, <2>1
<1>6. TypeOK'
  <2>1. t1' \in 0..n
    BY <1>2, <1>3, <1>4 DEF None
  <2> QED BY <1>2, <1>3, <1>4, <1>5, <2>1 DEF TypeOK, newest
<1>7. ThreadsInv' /\ DiesOfConnection'
  BY <1>2, <1>3, <1>5 DEF ThreadsInv, DiesOfConnection
<1>8. latest' = [latest EXCEPT ![m] = n]
  <2>1. latest = threads_sym
    BY <1>2, <1>3, AtRecv
  <2>2. latest' = [s \in Sessions |-> threads_sym'[s]]
    BY <1>2 DEF latest, Making
  <2> QED BY <1>2, <1>3, <2>1, <2>2
<1>9. \A s \in Sessions : threads_sym[s] <= threads_sym'[s]
  <2>1. \A s \in Sessions : threads_sym[s] \in 0..newest
    BY <1>3
  <2> QED BY <1>2, <1>3, <1>4, <2>1
<1> QED BY <1>1, <1>2, <1>6, <1>7, <1>8, <1>9, MakeStep

LEMMA RestartStep == ASSUME IInv, Restart PROVE IInv'
<1>1. PICK m, n : m = message.session /\ n = newest + 1
  OBVIOUS
<1>2. /\ Receive /\ MakeExecutor /\ m \in Sessions /\ inbox' \in Seq(Messages)
      /\ threads_sym[m] # None /\ at = "recv" /\ at' = "swap" /\ t1' = n
      /\ UNCHANGED <<threads_sym, threads, dead, server, connections, tempThread, outbox,
                     closed, epoch, issued>>
  BY <1>1, ReceiveStep DEF Restart, Receive, registered, mainVars, webServerVars
<1>3. /\ TypeOK /\ ThreadsInv /\ threads = threads_sym
      /\ threads_sym \in [Sessions -> 0..newest] /\ newest \in Nat
  BY <1>2 DEF IInv, ThreadsInv, TypeOK, newest
<1>4. /\ executors' \in Seq(Executors) /\ newest' = n /\ n \in Nat /\ n # 0
      /\ n = newest + 1 /\ id' = m
  <2>1. PICK x : x = [session |-> message.session, epoch |-> message.epoch,
                      state |-> "running", got |-> message.epoch]
    OBVIOUS
  <2>2. x \in Executors /\ executors \in Seq(Executors) /\ executors' = Append(executors, x)
    BY <1>2, <1>3, <2>1, ReceiveStep DEF Executors, MakeExecutor, TypeOK
  <2>3. /\ executors' \in Seq(Executors) /\ newest' = n /\ n \in Nat /\ n # 0
        /\ n = newest + 1
    BY <1>1, <1>3, <2>2, AppendTo DEF newest
  <2>4. executors'[n] = x
    BY <1>1, <2>2, AppendTo DEF newest
  <2> QED BY <1>1, <2>1, <2>3, <2>4 DEF id
<1>5. TypeOK'
  <2>1. threads_sym' \in [Sessions -> 0..n]
    BY <1>2, <1>3, <1>4
  <2>2. t1' \in 0..n
    BY <1>2, <1>4
  <2> QED BY <1>2, <1>3, <1>4, <2>1, <2>2 DEF TypeOK, newest
<1>6. ThreadsInv' /\ DiesOfConnection'
  BY <1>2, <1>3, <1>4 DEF IInv, ThreadsInv, DiesOfConnection
<1>7. latest' = [latest EXCEPT ![m] = n]
  <2>1. latest = threads_sym
    BY <1>2, <1>3, AtRecv
  <2>2. latest' = [s \in Sessions |-> IF s = m THEN n ELSE threads_sym[s]]
    BY <1>2, <1>4 DEF latest, Making
  <2> QED BY <1>2, <1>3, <2>1, <2>2
<1>8. \A s \in Sessions : threads_sym[s] <= threads_sym'[s]
  <2>1. \A s \in Sessions : threads_sym[s] \in 0..newest
    BY <1>3
  <2> QED BY <1>2, <1>3, <2>1
<1> QED BY <1>1, <1>2, <1>5, <1>6, <1>7, <1>8, MakeStep

\* The statements that replace the executor; which one is the latest they leave alone.
LEMMA StatementStep ==
  ASSUME IInv, Swap \/ Replace \/ Detach \/ Leave
  PROVE  IInv'
<1>1. /\ TypeOK /\ ThreadsInv /\ at # "recv" /\ ~dead
      /\ UNCHANGED <<server, connections, tempThread, inbox, executors, outbox, closed,
                     epoch, issued>>
      /\ newest' = newest /\ id' = id
  BY DEF IInv, Swap, Replace, Detach, Leave, Statement, mainVars, webServerVars, newest, id
<1>2. /\ newest \in DOMAIN executors /\ id \in Sessions /\ newest \in Nat
      /\ newest \in 0..Len(executors) /\ newest # None
      /\ threads_sym \in [Sessions -> 0..Len(executors)]
      /\ threads \in [Sessions -> 0..Len(executors)] /\ t1 \in 0..Len(executors)
  BY <1>1, RegisteredType DEF TypeOK, newest, None
<1>3. /\ threads_sym' \in [Sessions -> 0..Len(executors)]
      /\ threads' \in [Sessions -> 0..Len(executors)] /\ t1' \in 0..Len(executors)
      /\ at' \in {"recv", "swap", "replace", "detach", "leave"} /\ dead' \in BOOLEAN
  <2>1. CASE Swap BY <1>1, <1>2, <2>1 DEF Swap, Statement, TypeOK
  <2>2. CASE Replace BY <1>1, <1>2, <2>2 DEF Replace, Statement, TypeOK
  <2>3. CASE Detach \/ Leave
    <3>1. t1' = 0 /\ dead' \in BOOLEAN /\ at' \in {"leave", "recv"}
      BY <2>3 DEF Detach, Leave, Statement, None
    <3>2. UNCHANGED <<threads_sym, threads>>
      BY <2>3 DEF Detach, Leave
    <3> QED BY <1>2, <3>1, <3>2
  <2> QED BY <2>1, <2>2, <2>3
<1>4. TypeOK'
  BY <1>1, <1>3 DEF TypeOK
<1>5. ThreadsInv' /\ ~dead'
  <2>1. CASE Swap
    BY <1>1, <1>2, <2>1 DEF Swap, Statement, ThreadsInv
  <2>2. CASE Replace
    BY <1>1, <1>2, <2>2 DEF Replace, Statement, ThreadsInv
  <2>3. CASE Detach
    BY <1>1, <1>2, <2>3 DEF Detach, Statement, ThreadsInv
  <2>4. CASE Leave
    BY <1>1, <1>2, <2>4 DEF Leave, Statement, ThreadsInv
  <2> QED BY <2>1, <2>2, <2>3, <2>4
<1>6. latest' = latest
  <2>1. CASE Swap
    BY <1>1, <2>1 DEF Swap, Statement, latest, Making
  <2>2. CASE Replace
    BY <1>1, <1>2, <2>2 DEF Replace, Statement, latest, Making
  <2>3. CASE Detach \/ Leave
    BY <1>1, <2>3 DEF Detach, Leave, Statement, latest, Making
  <2> QED BY <2>1, <2>2, <2>3
<1>7. \A s \in Sessions : threads_sym[s] \in Nat /\ threads_sym'[s] \in Nat
                          /\ threads_sym[s] <= threads_sym'[s]
  <2>1. CASE Replace
    <3>1. \A s \in Sessions : threads_sym'[s] = IF s = id THEN newest ELSE threads_sym[s]
      BY <1>2, <2>1 DEF Replace
    <3>2. \A s \in Sessions : threads_sym[s] \in Nat /\ threads_sym[s] <= newest
      BY <1>2 DEF newest
    <3> QED BY <1>2, <3>1, <3>2
  <2>2. CASE ~Replace
    <3>1. threads_sym' = threads_sym
      BY <2>2 DEF Swap, Detach, Leave
    <3> QED BY <1>2, <3>1
  <2> QED BY <2>1, <2>2
<1>8. LatestInv' /\ current' = current
  BY <1>1, <1>6 DEF IInv, LatestInv, current
<1>9. EpochsInOrder'
  BY <1>1, <1>8 DEF IInv, EpochsInOrder
<1>10. LateSleeps'
  <2>1. ASSUME NEW k \in DOMAIN outbox, outbox[k].stale, NEW e, e = outbox[k].executor
        PROVE  /\ e \in DOMAIN executors /\ e < threads_sym'[executors[e].session]
               /\ executors[e].state = "asleep"
    <3>1. /\ e \in DOMAIN executors /\ e < threads_sym[executors[e].session]
          /\ executors[e].state = "asleep"
      BY <2>1 DEF IInv, LateSleeps
    <3>2. e \in Nat /\ executors[e].session \in Sessions
      BY <1>1, <3>1, RegisteredType
    <3> QED BY <1>7, <3>1, <3>2
  <2> QED BY <1>1, <2>1 DEF LateSleeps
<1>11. InstructionReachesItsTree' /\ LateReplyOnce' /\ DiesOfConnection'
  BY <1>1, <1>5 DEF IInv, InstructionReachesItsTree, LateReplyOnce, DiesOfConnection
<1> QED BY <1>4, <1>5, <1>8, <1>9, <1>10, <1>11 DEF IInv

LEMMA ProceedStep ==
  ASSUME IInv, Proceed
  PROVE  IInv'
<1>1. PICK t, x : /\ t = threads_sym[message.session]
                  /\ x = [executors[t] EXCEPT !.state = "running", !.got = message.epoch]
  OBVIOUS
<1>2. /\ Receive /\ message.session \in Sessions /\ message.epoch \in Nat
      /\ inbox' \in Seq(Messages) /\ message.epoch = current[message.session]
  BY ReceiveStep DEF Proceed
<1>3. /\ TypeOK /\ ThreadsInv /\ LatestInv /\ latest = threads_sym /\ t # None /\ executors \in Seq(Executors)
      /\ UNCHANGED <<server, connections, tempThread, at, t1, threads_sym, threads, outbox,
                     closed, epoch, issued, dead>>
  BY <1>1, <1>2, AtRecv DEF IInv, TypeOK, Proceed, registered, Receive, mainVars,
                          communicateVars, webServerVars
<1>4. /\ t \in DOMAIN executors /\ executors[t] \in Executors
      /\ executors[t].session = message.session /\ executors[t].epoch = message.epoch
  <2>1. t \in DOMAIN executors /\ executors[t] \in Executors
    BY <1>1, <1>2, <1>3, RegisteredType
  <2>2. executors[t].session = message.session
    BY <1>1, <1>2, <1>3 DEF LatestInv
  <2>3. executors[t].epoch = current[message.session]
    BY <1>1, <1>2, <1>3 DEF current
  <2> QED BY <1>2, <2>1, <2>2, <2>3
<1>5. /\ x \in Executors /\ x.session = executors[t].session
      /\ x.epoch = executors[t].epoch /\ x.got = x.epoch
  BY <1>1, <1>2, <1>4 DEF Executors
<1>6. executors' = [executors EXCEPT ![t] = x]
  BY <1>1 DEF Proceed
<1>7. /\ executors' \in Seq(Executors) /\ Len(executors') = Len(executors)
      /\ DOMAIN executors' = DOMAIN executors
      /\ executors'[t] = x /\ \A e \in DOMAIN executors : e # t => executors'[e] = executors[e]
  BY <1>3, <1>4, <1>5, <1>6, ChangeAt
<1>8. TypeOK'
  BY <1>2, <1>3, <1>7 DEF TypeOK
<1>9. \A e \in DOMAIN executors : /\ executors'[e].session = executors[e].session
                                /\ executors'[e].epoch = executors[e].epoch
  BY <1>5, <1>7
<1>10. LatestInv' /\ ThreadsInv' /\ current' = current
  BY <1>3, <1>7, <1>9, SameExecutors
<1>11. EpochsInOrder'
  <2>1. current = [current EXCEPT ![message.session] = message.epoch]
    BY <1>2, <1>3, RegisteredType
  <2> QED BY <1>2, <1>10, <2>1, ReceiveStep
<1>12. InstructionReachesItsTree'
  BY <1>5, <1>7 DEF IInv, InstructionReachesItsTree
<1>13. LateSleeps'
  <2>1. ASSUME NEW k \in DOMAIN outbox, outbox[k].stale,
               NEW e, e = outbox[k].executor
        PROVE  /\ e \in DOMAIN executors /\ e < threads_sym[executors[e].session]
               /\ executors'[e].session = executors[e].session
               /\ executors'[e].state = "asleep"
    <3>1. /\ e \in DOMAIN executors /\ e < threads_sym[executors[e].session]
          /\ executors[e].state = "asleep"
      BY <2>1 DEF IInv, LateSleeps
    <3>2. e # t
      <4>1. t \in Nat /\ threads_sym[executors[t].session] = t
        BY <1>1, <1>3, <1>4, RegisteredType
      <4> QED BY <3>1, <4>1
    <3> QED BY <1>7, <3>1, <3>2
  <2> QED BY <1>3, <1>7, <2>1 DEF LateSleeps
<1>14. LateReplyOnce' /\ DiesOfConnection'
  BY <1>3 DEF IInv, LateReplyOnce, DiesOfConnection
<1> QED BY <1>8, <1>10, <1>11, <1>12, <1>13, <1>14 DEF IInv

LEMMA ReplyStep ==
  ASSUME IInv, NEW d \in DOMAIN executors, Reply(d)
  PROVE  IInv'
<1>1. PICK x, y, n : /\ x = [executors[d] EXCEPT !.state = "asleep"]
                     /\ y = [session |-> executors[d].session, executor |-> d,
                             epoch |-> executors[d].epoch, stale |-> stale(d)]
                     /\ n = Len(outbox)
  OBVIOUS
<1>2. /\ executors[d].state = "running" /\ executors' = [executors EXCEPT ![d] = x]
      /\ outbox' = Append(outbox, y) /\ dead' \in BOOLEAN /\ (dead' => closed)
      /\ UNCHANGED <<server, connections, tempThread, inbox, at, t1, threads_sym, threads,
                     closed, epoch, issued>>
  BY <1>1 DEF Reply, WriteThrows, mainVars, communicateVars, webServerVars
<1>3. /\ TypeOK /\ ThreadsInv /\ LatestInv /\ executors \in Seq(Executors) /\ outbox \in Seq(Replies)
      /\ d \in Nat /\ executors[d] \in Executors
  BY RegisteredType DEF IInv, TypeOK
<1>4. /\ x \in Executors /\ x.session = executors[d].session /\ x.epoch = executors[d].epoch
      /\ x.got = executors[d].got /\ x.state = "asleep"
  BY <1>1, <1>3 DEF Executors
<1>5. y \in Replies /\ y.executor = d /\ (y.stale => d < threads_sym[executors[d].session])
  <2>1. stale(d) \in BOOLEAN /\ (stale(d) => d < threads_sym[executors[d].session])
    BY DEF stale
  <2>2. /\ executors[d].session \in Sessions /\ executors[d].epoch \in Nat
    BY <1>3 DEF Executors
  <2> QED BY <1>1, <1>3, <2>1, <2>2 DEF Replies
<1>6. /\ executors' \in Seq(Executors) /\ Len(executors') = Len(executors)
      /\ DOMAIN executors' = DOMAIN executors
      /\ executors'[d] = x /\ \A e \in DOMAIN executors : e # d => executors'[e] = executors[e]
  BY <1>2, <1>3, <1>4, ChangeAt
<1>7. /\ n \in Nat /\ outbox' \in Seq(Replies) /\ DOMAIN outbox = 1..n
      /\ DOMAIN outbox' = 1..(n + 1) /\ outbox'[n + 1] = y
      /\ \A k \in 1..n : outbox'[k] = outbox[k]
  BY <1>1, <1>2, <1>3, <1>5, AppendTo
<1>8. TypeOK'
  BY <1>2, <1>3, <1>6, <1>7 DEF TypeOK
<1>9. \A e \in DOMAIN executors : /\ executors'[e].session = executors[e].session
                                /\ executors'[e].epoch = executors[e].epoch
  BY <1>4, <1>6
<1>10. LatestInv' /\ ThreadsInv' /\ current' = current
  BY <1>2, <1>3, <1>6, <1>9, SameExecutors
<1>11. EpochsInOrder'
  BY <1>2, <1>10 DEF IInv, EpochsInOrder
<1>12. InstructionReachesItsTree'
  <2>1. \A e \in DOMAIN executors : executors'[e].got = executors[e].got
    BY <1>4, <1>6
  <2>2. \A e \in DOMAIN executors : executors[e].got = executors[e].epoch
    BY DEF IInv, InstructionReachesItsTree
  <2> QED BY <1>6, <1>9, <2>1, <2>2 DEF InstructionReachesItsTree
\* The one that replies was awake: if it is stale, it had not replied since.
<1>13. \A k \in 1..n : outbox[k].stale =>
         /\ outbox[k].executor \in DOMAIN executors
         /\ outbox[k].executor < threads_sym[executors[outbox[k].executor].session]
         /\ executors[outbox[k].executor].state = "asleep"
         /\ outbox[k].executor # d
  BY <1>2, <1>7 DEF IInv, LateSleeps
<1>14. y.stale => d < threads_sym[executors[d].session]
  BY <1>5
<1>15. \A k \in 1..(n + 1) : k \in 1..n \/ k = n + 1
  BY <1>7
<1>16. LateSleeps'
  <2>1. ASSUME NEW k \in 1..(n + 1), outbox'[k].stale,
               NEW e, e = outbox'[k].executor
        PROVE  /\ e \in DOMAIN executors' /\ e < threads_sym'[executors'[e].session]
               /\ executors'[e].state = "asleep"
    <3>1. CASE k \in 1..n
      <4>1. /\ e \in DOMAIN executors /\ e < threads_sym[executors[e].session]
            /\ executors[e].state = "asleep" /\ e # d
        BY <1>7, <1>13, <2>1, <3>1
      <4> QED BY <1>2, <1>6, <4>1
    <3>2. CASE k = n + 1
      BY <1>2, <1>4, <1>5, <1>6, <1>7, <1>14, <2>1, <3>2
    <3> QED BY <1>15, <3>1, <3>2
  <2> QED BY <1>7, <2>1 DEF LateSleeps
<1>17. LateReplyOnce'
  <2>1. \A j, k \in 1..n :
          outbox[j].stale /\ outbox[k].stale /\ outbox[j].executor = outbox[k].executor
            => j = k
    BY <1>7 DEF IInv, LateReplyOnce
  <2>2. \A j, k \in 1..(n + 1) :
          outbox'[j].stale /\ outbox'[k].stale /\ outbox'[j].executor = outbox'[k].executor
            => j = k
    BY <1>5, <1>7, <1>13, <1>15, <2>1
  <2> QED BY <1>7, <2>2 DEF LateReplyOnce
<1>18. DiesOfConnection'
  BY <1>2 DEF DiesOfConnection
<1> QED BY <1>8, <1>10, <1>11, <1>12, <1>16, <1>17, <1>18 DEF IInv

LEMMA Inductive == ASSUME IInv, [Next]_vars PROVE IInv'
<1> USE DEF mainVars, webServerVars
<1>1. CASE Accept
  <2>1. /\ connections \in Nat /\ connections' = connections + 1
        /\ tempThread' = connections + 1 /\ dead' = (tempThread # None)
        /\ closed' \in BOOLEAN /\ server' \in ServerSockets
        /\ UNCHANGED <<inbox, communicateVars, executors, outbox, epoch, issued>>
    BY <1>1 DEF Accept, IInv, TypeOK
  <2>2. tempThread # None => connections >= 1
    BY DEF IInv, TypeOK, None
  <2>3. DiesOfConnection'
    BY <2>1, <2>2 DEF DiesOfConnection
  <2> QED BY <2>1, <2>3, ConnectionStep
<1>2. CASE Close \/ ReceiveEnd
  <2>1. /\ closed' = TRUE /\ connections' \in Nat /\ dead' \in BOOLEAN
        /\ server' \in ServerSockets /\ tempThread' \in 0..connections'
        /\ UNCHANGED <<inbox, communicateVars, executors, outbox, epoch, issued>>
    BY <1>2 DEF Close, ReceiveEnd, IInv, TypeOK
  <2> QED BY <2>1, ConnectionStep DEF DiesOfConnection
<1>3. CASE Start BY <1>3, StartStep
<1>4. CASE Restart BY <1>4, RestartStep
<1>5. CASE Swap \/ Replace \/ Detach \/ Leave BY <1>5, StatementStep
<1>6. CASE Proceed BY <1>6, ProceedStep
<1>7. ASSUME NEW s \in Sessions, NEW type \in Types, Issue(s, type)
      PROVE  IInv'
  BY <1>7, IssueStep
<1>8. ASSUME NEW e \in DOMAIN executors, Reply(e)
      PROVE  IInv'
  BY <1>8, ReplyStep
<1>9. CASE UNCHANGED vars
  <2>1. UNCHANGED <<server, connections, tempThread, closed, dead, inbox, communicateVars,
                    executors, outbox, epoch, issued>>
    BY <1>9 DEF vars, communicateVars
  <2> QED BY <2>1, ConnectionStep DEF IInv, TypeOK, DiesOfConnection
<1>10. CASE Create \/ Bind \/ Listen
  <2>1. PICK before, after \in ServerSockets : Attempt(before, after)
    BY <1>10 DEF Create, Bind, Listen, ServerSockets
  <2>2. /\ server' \in ServerSockets
        /\ UNCHANGED <<inbox, communicateVars, executors, outbox, connections, tempThread,
                       closed, epoch, issued, dead>>
    BY <2>1 DEF Attempt, ServerSockets
  <2> QED BY <2>2, ConnectionStep DEF IInv, TypeOK, DiesOfConnection
<1> QED BY <1>1, <1>2, <1>3, <1>4, <1>5, <1>6, <1>7, <1>8, <1>9, <1>10 DEF Next, Communicate

-----------------------------------------------------------------------------
(* For every number of sessions and messages.                              *)

LEMMA Invariance == Spec => []IInv
<1>1. Init => IInv
  BY InitInv
<1>2. IInv /\ [Next]_vars => IInv'
  BY Inductive
<1> QED BY <1>1, <1>2, PTL DEF Spec

\* The types of the registry, of the executors and of the queues
\* (main.cpp's threads_sym and what communicate hands on).
THEOREM TypeCorrect == Spec => []TypeOK
BY Invariance, PTL DEF IInv

\* communicate handles messages in their order and replaces the executor before
\* it hands on the next instruction: it reaches the tree it was given for.
THEOREM InstructionsOnTarget == Spec => []InstructionReachesItsTree
BY Invariance, PTL DEF IInv

\* Once replaced in threads_sym, an executor is out of reach of proceed: one late
\* reply at most.
THEOREM LateOnce == Spec => []LateReplyOnce
BY Invariance, PTL DEF IInv

\* Whatever sessions start and restart, t1 is empty when it is destroyed, it holds
\* the replaced thread when it is detached, and no entry that holds a thread is
\* assigned to: of what Registry models only the connection ends the process.
THEOREM DiesOnlyOfConnection == Spec => []DiesOfConnection
BY Invariance, PTL DEF IInv
=============================================================================
