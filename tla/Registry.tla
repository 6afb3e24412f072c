------------------------------- MODULE Registry -------------------------------
(***************************************************************************)
(* The executor process seen from outside (src/src/main.cpp): main sets up *)
(* its server socket (src/src/server) and accepts the connection of the    *)
(* web server, the thread communicate reads messages from it and keeps one *)
(* executor per session in threads_sym, every executor works on a thread   *)
(* of its own and replies on the connection.                               *)
(* Every message starts the session's executor (type 300, or the first of  *)
(* its session), replaces it (a later 300) or instructs it.                *)
(* A std::thread object holds a thread until it is detached or moved from; *)
(* one that is destroyed or assigned to before ends the process.           *)
(* What happens between communicate and one executor is module JsonReader; *)
(* here an instruction is taken by an executor that sleeps, and missed by  *)
(* one that does not.                                                      *)
(***************************************************************************)
EXTENDS Integers, Sequences

CONSTANTS
  Sessions,    \* session ids (the name of the bitcode file)
  MaxMessages  \* bound: messages the web server sends

ASSUME RegistryAssumption == MaxMessages \in Nat

None == 0

VARIABLES
  server,      \* main's ServerSocket
  connections, \* connections main has accepted
  tempThread,  \* the connection whose thread main's tempThread holds, or None
  closed,      \* the web server has closed the connection
  inbox,       \* messages on the connection
  at,          \* where communicate is: "recv" -> "swap" -> "replace" -> "detach" ->
               \*   "leave" -> "recv"; all but the first while it replaces an executor
  t1,          \* the executor whose thread its std::thread t1 holds, or None
  threads_sym, \* the executor registered for each session (the second of the
               \*   map's pair), or None
  threads,     \* the executor whose thread the first of the pair holds, or None
  executors,   \* all the executors made, in order
  outbox,      \* the replies written to the connection
  epoch,       \* how often the user of each session has asked for a (re)start
  issued,      \* bound counter: messages sent
  dead         \* std::terminate

vars == <<server, connections, tempThread, closed, inbox, at, t1, threads_sym, threads,
          executors, outbox, epoch, issued, dead>>
mainVars == <<server, connections, tempThread>>
communicateVars == <<at, t1, threads_sym, threads>>
webServerVars == <<closed, epoch, issued>>

ServerSockets == {"none", "created", "bound", "listening", "failed"}

Types == {"300", "instruction"}

\* epoch: that of the session when the message was sent.
Messages == [session : Sessions, type : Types, epoch : Nat]

\* got: the epoch of the message in the reader's msg.
Executors == [session : Sessions, epoch : Nat, state : {"running", "asleep"}, got : Nat]

Replies == [session : Sessions, executor : Nat, epoch : Nat, stale : BOOLEAN]

Init ==
  /\ server = "none"
  /\ connections = 0
  /\ tempThread = None
  /\ closed = FALSE
  /\ inbox = <<>>
  /\ at = "recv"
  /\ t1 = None
  /\ threads_sym = [s \in Sessions |-> None]
  /\ threads = [s \in Sessions |-> None]
  /\ executors = <<>>
  /\ outbox = <<>>
  /\ epoch = [s \in Sessions |-> 0]
  /\ issued = 0
  /\ dead = FALSE

-----------------------------------------------------------------------------
(* The web server, for the users of its sessions.                          *)

\* /metadata asks for the function names, the other requests instruct.
Issue(s, type) ==
  /\ ~dead /\ connections # 0 /\ ~closed
  /\ issued < MaxMessages
  /\ issued' = issued + 1
  /\ epoch' = IF type = "300" THEN [epoch EXCEPT ![s] = @ + 1] ELSE epoch
  /\ inbox' = Append(inbox, [session |-> s, type |-> type, epoch |-> epoch'[s]])
  /\ UNCHANGED <<mainVars, closed, communicateVars, executors, outbox, dead>>

Close ==
  /\ ~dead /\ connections # 0 /\ ~closed
  /\ closed' = TRUE
  /\ UNCHANGED <<mainVars, inbox, communicateVars, executors, outbox, epoch, issued, dead>>

-----------------------------------------------------------------------------
(* main.                                                                   *)

\* One call of the constructor of ServerSocket. One that fails throws; the socket
\* is closed, main prints the reason and returns.
Attempt(before, after) ==
  /\ server = before
  /\ server' \in {after, "failed"}
  /\ UNCHANGED <<connections, tempThread, inbox, communicateVars, executors, outbox,
                 webServerVars, dead>>

Create == Attempt("none", "created")
Bind == Attempt("created", "bound")
Listen == Attempt("bound", "listening")

Accepting == server = "listening"

\* A failed accept is tried again.  After one that succeeds the thread of the new
\* connection is assigned to tempThread; nothing joins or detaches it.
Accept ==
  /\ ~dead /\ Accepting
  /\ connections' = connections + 1
  /\ tempThread' = connections + 1
  /\ dead' = (tempThread # None)
  /\ UNCHANGED <<server, inbox, communicateVars, executors, outbox, webServerVars>>

-----------------------------------------------------------------------------
(* communicate.                                                            *)

message == Head(inbox)
registered == threads_sym[message.session] # None

Receive ==
  /\ ~dead
  /\ at = "recv"
  /\ inbox # <<>>
  /\ inbox' = Tail(inbox)
  /\ UNCHANGED <<mainVars, outbox, webServerVars>>

\* new SymbolicExecutor, on a new thread; the rest of the message goes unused.
MakeExecutor ==
  executors' = Append(executors, [session |-> message.session, epoch |-> message.epoch,
                                  state |-> "running", got |-> message.epoch])

\* sym, and val1["id"], while communicate replaces an executor.
newest == Len(executors)
id == executors[newest].session

\* The else branch: an instruction, too, starts the executor of its session. The
\* pair is assigned to the entry the map makes for it.
Start ==
  /\ Receive /\ ~registered /\ MakeExecutor
  /\ threads_sym' = [threads_sym EXCEPT ![message.session] = newest + 1]
  /\ threads' = [threads EXCEPT ![message.session] = newest + 1]
  /\ dead' = (threads[message.session] # None)
  /\ UNCHANGED <<at, t1>>

\* Slip: the old executor is used again.
Restart_Reuse ==
  /\ Receive /\ registered /\ message.type = "300"
  /\ executors' = [executors EXCEPT ![threads_sym[message.session]].state = "running"]
  /\ UNCHANGED <<communicateVars, dead>>

\* A new executor runs on t1.  That of the session goes on, too: it finishes its
\* round, replies and sleeps for ever.
Restart ==
  /\ Receive /\ registered /\ message.type = "300" /\ MakeExecutor
  /\ at' = "swap"
  /\ t1' = newest + 1
  /\ UNCHANGED <<threads_sym, threads, dead>>

\* The other statements of the branch, one at a time.
Statement(before, after) ==
  /\ ~dead
  /\ at = before /\ at' = after
  /\ UNCHANGED <<mainVars, inbox, executors, outbox, webServerVars>>

\* std::swap(threads_sym[id].first, t1)
Swap ==
  /\ Statement("swap", "replace")
  /\ threads' = [threads EXCEPT ![id] = t1]
  /\ t1' = threads[id]
  /\ UNCHANGED <<threads_sym, dead>>

\* Slip: the new executor is not registered.
Replace_Not ==
  /\ Statement("replace", "detach")
  /\ UNCHANGED <<threads_sym, threads, t1, dead>>

\* threads_sym[id].second = sym
Replace ==
  /\ Statement("replace", "detach")
  /\ threads_sym' = [threads_sym EXCEPT ![id] = newest]
  /\ UNCHANGED <<threads, t1, dead>>

\* Slip: the old thread is detached after the end of the block, in which t1 is
\* destroyed.
Detach_AfterBlock ==
  /\ Statement("detach", "recv")
  /\ t1' = None
  /\ dead' = (t1 # None)
  /\ UNCHANGED <<threads_sym, threads>>

\* t1.detach(), which throws if t1 holds no thread.
Detach ==
  /\ Statement("detach", "leave")
  /\ t1' = None
  /\ dead' = (t1 = None)
  /\ UNCHANGED <<threads_sym, threads>>

\* The end of the block destroys t1.
Leave ==
  /\ Statement("leave", "recv")
  /\ t1' = None
  /\ dead' = (t1 # None)
  /\ UNCHANGED <<threads_sym, threads>>

\* Slip: an instruction wakes every executor of the session.
Proceed_All ==
  /\ Receive /\ registered /\ message.type # "300"
  /\ executors' = [e \in DOMAIN executors |->
                     IF executors[e].session # message.session THEN executors[e]
                     ELSE [executors[e] EXCEPT !.state = "running"]]
  /\ UNCHANGED <<communicateVars, dead>>

\* wakeUp of the registered executor's reader stores the message and wakes the
\* executor if it sleeps.
Proceed ==
  /\ Receive /\ registered /\ message.type # "300"
  /\ executors' = [executors EXCEPT ![threads_sym[message.session]] =
                     [@ EXCEPT !.state = "running", !.got = message.epoch]]
  /\ UNCHANGED <<communicateVars, dead>>

\* recv returns 0, >> throws, and nothing catches it on this thread.
ReceiveEnd ==
  /\ ~dead /\ at = "recv" /\ closed /\ inbox = <<>>
  /\ dead' = TRUE
  /\ UNCHANGED <<mainVars, inbox, communicateVars, executors, outbox, webServerVars>>

Communicate ==
  \/ Start \/ Proceed \/ ReceiveEnd
  \/ Restart \/ Swap \/ Replace \/ Detach \/ Leave

-----------------------------------------------------------------------------
(* The executors.                                                          *)

\* A newer executor is registered for e's session.
stale(e) == e < threads_sym[executors[e].session]

\* Slip: the exception of a failed write ends the executor's thread alone.
Reply_Caught(e) ==
  /\ ~dead
  /\ executors[e].state = "running"
  /\ executors' = [executors EXCEPT ![e].state = IF closed THEN "ended" ELSE "asleep"]
  /\ outbox' = Append(outbox, [session |-> executors[e].session, executor |-> e,
                               epoch |-> executors[e].epoch, stale |-> stale(e)])
  /\ UNCHANGED <<mainVars, inbox, communicateVars, webServerVars, dead>>

\* Whether << throws: on a closed connection it may.
WriteThrows == IF closed THEN BOOLEAN ELSE {FALSE}

\* sendMessageAndSleep.  Nothing catches what << throws either.
Reply(e) ==
  /\ ~dead
  /\ executors[e].state = "running"
  /\ executors' = [executors EXCEPT ![e].state = "asleep"]
  /\ outbox' = Append(outbox, [session |-> executors[e].session, executor |-> e,
                               epoch |-> executors[e].epoch, stale |-> stale(e)])
  /\ dead' \in WriteThrows
  /\ UNCHANGED <<mainVars, inbox, communicateVars, webServerVars>>

Next ==
  \/ Create \/ Bind \/ Listen
  \/ Accept \/ Close \/ Communicate
  \/ \E s \in Sessions, type \in Types : Issue(s, type)
  \/ \E e \in DOMAIN executors : Reply(e)

Spec == Init /\ [][Next]_vars

\* The threads run; web server and users need not act.
FairSpec ==
  /\ Spec
  /\ WF_vars(Communicate)
  /\ \A e \in 1..MaxMessages : WF_vars(e \in DOMAIN executors /\ Reply(e))

-----------------------------------------------------------------------------
(* Properties.                                                             *)

\* Types of the variables.
TypeOK ==
  /\ server \in ServerSockets
  /\ connections \in Nat
  /\ tempThread \in 0..connections
  /\ closed \in BOOLEAN
  /\ inbox \in Seq(Messages)
  /\ at \in {"recv", "swap", "replace", "detach", "leave"}
  /\ t1 \in 0..Len(executors)
  /\ threads_sym \in [Sessions -> 0..Len(executors)]
  /\ threads \in [Sessions -> 0..Len(executors)]
  /\ executors \in Seq(Executors)
  /\ outbox \in Seq(Replies)
  /\ epoch \in [Sessions -> Nat]
  /\ issued \in Nat
  /\ dead \in BOOLEAN

\* An executor only gets instructions its user gave after asking for its start
\* and before asking for the next: no instruction meant for a tree that has been
\* abandoned is carried out on the new one, and none the other way round.
InstructionReachesItsTree ==
  \A e \in DOMAIN executors : executors[e].got = executors[e].epoch

\* An executor that has been replaced replies once more at most (if it was in
\* the middle of a round): nothing wakes it up again.
LateReplyOnce ==
  \A j, k \in DOMAIN outbox :
    outbox[j].stale /\ outbox[k].stale /\ outbox[j].executor = outbox[k].executor
      => j = k

\* No thread object of communicate is destroyed, assigned to or detached at the
\* wrong time, in whatever order sessions start and restart: of what is modelled
\* here only the web server ends the process, which closes its connection or opens
\* another (an instruction that lacks its fields does, too: JsonReader).
DiesOfConnection == dead => closed \/ connections > 1

\* Every (re)start is answered by an executor made for it, unless the process
\* ends.
StartAnswered ==
  \A s \in Sessions, k \in 1..MaxMessages :
    (epoch[s] >= k) ~> (dead \/ \E r \in DOMAIN outbox : /\ outbox[r].session = s
                                                        /\ outbox[r].epoch >= k)
=============================================================================
