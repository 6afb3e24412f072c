----------------------------- MODULE JsonReader -----------------------------
(***************************************************************************)
(* The hand-over of instructions between two threads of the executor       *)
(* process, through one JsonReader (src/src/jsonreader.cpp):               *)
(*   - the executor thread sends its output and sleeps on a condition      *)
(*     variable (sendMessageAndSleep), then reads the instruction from the *)
(*     field msg (setExecutionVars, getModel);                             *)
(*   - the thread that reads the connection (communicate in main.cpp)      *)
(*     writes msg and notifies (wakeUp).                                   *)
(* msg is written and read without the mutex, and the wait tests nothing.  *)
(***************************************************************************)
EXTENDS Integers, Sequences

CONSTANTS
  Patient,         \* TRUE: the user sends an instruction only when asked
  Spurious,        \* TRUE: cv.wait may return without a notification
  MaxInstructions  \* bound: instructions the user sends

ASSUME ReaderAssumption ==
  /\ Patient \in BOOLEAN
  /\ Spurious \in BOOLEAN
  /\ MaxInstructions \in Nat

Kinds == {"next", "exclude", "pairs"}

\* An instruction: its number, and what it carries.  Number 0 is the null
\* Json::Value msg holds before the first.
Instructions == [id : Nat, kind : Kinds \cup {"null"}]
NullInstruction == [id |-> 0, kind |-> "null"]

VARIABLES
  epc,      \* executor thread: "compute" -> "send" -> "lock" -> "wait" ->
            \*   "relock" -> "read" -> "readRest" -> "compute"
  asking,   \* who sleeps: "proceed" (proceedSymbolicExecution) or "model" (getModel)
  started,  \* the first instruction has been executed
  first,    \* the instruction the first fields were read from
  last,     \* the instruction the remaining fields were read from
  cpc,      \* communicating thread: "recv" -> "update" -> "lock" -> "notify"
  held,     \* the instruction it has received
  msg,      \* JsonReader::msg
  wokenBy,  \* the number of the instruction whose notification ended the last sleep
  inbox,    \* instructions on their way through the socket
  issued,   \* instructions the user has issued
  prompted, \* the user has an output he has not answered yet
  dead      \* std::terminate: an exception left a thread

vars == <<epc, asking, started, first, last, cpc, held, msg, wokenBy, inbox,
          issued, prompted, dead>>

executorVars == <<epc, asking, started, first, last>>
communicateVars == <<cpc, held>>

Init ==
  /\ epc = "send"
  /\ asking = "proceed"
  /\ started = FALSE
  /\ first = NullInstruction
  /\ last = NullInstruction
  /\ cpc = "recv"
  /\ held = NullInstruction
  /\ msg = NullInstruction
  /\ wokenBy = 0
  /\ inbox = <<>>
  /\ issued = 0
  /\ prompted = FALSE
  /\ dead = FALSE

\* The mutex is held only while wakeUp notifies; the executor gives it back at
\* once, in cv.wait and in lck.unlock().
mtxFree == cpc # "notify"

-----------------------------------------------------------------------------
(* The executor thread.                                                    *)

\* Work between two sleeps.  Only a round of exploration asks for a model, an
\* exclusion does not.  The first instruction starts a round whatever it is, and
\* in getModel an exclusion passes for a model without pairs.
Compute ==
  /\ ~dead
  /\ epc = "compute"
  /\ epc' = "send"
  /\ started' = TRUE
  /\ asking' \in IF started /\ asking = "proceed" /\ last.kind = "exclude"
                   THEN {"proceed"} ELSE {"proceed", "model"}
  /\ UNCHANGED <<first, last, communicateVars, msg, wokenBy, inbox,
                 issued, prompted, dead>>

\* (*socket) << output, before the mutex is taken.
Send ==
  /\ ~dead
  /\ epc = "send"
  /\ epc' = "lock"
  /\ prompted' = TRUE
  /\ UNCHANGED <<asking, started, first, last, communicateVars, msg, wokenBy,
                 inbox, issued, dead>>

\* Slip: the executor goes on without waiting.
Sleep_NoWait ==
  /\ ~dead
  /\ epc = "lock" /\ mtxFree
  /\ epc' = "read"
  /\ UNCHANGED <<asking, started, first, last, communicateVars, msg, wokenBy,
                 inbox, issued, prompted, dead>>

\* std::unique_lock and cv.wait: the wait releases the mutex.
Sleep ==
  /\ ~dead
  /\ epc = "lock" /\ mtxFree
  /\ epc' = "wait"
  /\ UNCHANGED <<asking, started, first, last, communicateVars, msg, wokenBy,
                 inbox, issued, prompted, dead>>

SpuriousWakeUp ==
  /\ ~dead
  /\ Spurious
  /\ epc = "wait"
  /\ epc' = "relock"
  /\ wokenBy' = 0
  /\ UNCHANGED <<asking, started, first, last, communicateVars, msg, inbox,
                 issued, prompted, dead>>

\* Slip: the instruction is acknowledged on waking up, before it is read.
Resume_Acknowledge ==
  /\ ~dead
  /\ epc = "relock" /\ mtxFree
  /\ epc' = "read"
  /\ prompted' = TRUE
  /\ UNCHANGED <<asking, started, first, last, communicateVars, msg, wokenBy,
                 inbox, issued, dead>>

\* cv.wait returns with the mutex, which is released.
Resume ==
  /\ ~dead
  /\ epc = "relock" /\ mtxFree
  /\ epc' = "read"
  /\ UNCHANGED <<asking, started, first, last, communicateVars, msg, wokenBy,
                 inbox, issued, prompted, dead>>

\* Slip: the exception of stoi ends the thread alone.
Read_Caught ==
  /\ ~dead
  /\ epc = "read"
  /\ first' = msg
  /\ epc' = IF asking = "proceed" /\ msg.kind \notin {"next", "exclude"}
              THEN "ended" ELSE "readRest"
  /\ UNCHANGED <<asking, started, last, communicateVars, msg, wokenBy, inbox, issued,
                 prompted, dead>>

\* setExecutionVars reads msg["exclude"], msg["isBFS"]; stoi throws on the empty
\* string of a missing field.  getModel starts on msg["pairs"].
Read ==
  /\ ~dead
  /\ epc = "read"
  /\ first' = msg
  /\ IF asking = "proceed" /\ msg.kind \notin {"next", "exclude"}
       THEN dead' = TRUE /\ UNCHANGED epc
       ELSE epc' = "readRest" /\ UNCHANGED dead
  /\ UNCHANGED <<asking, started, last, communicateVars, msg, wokenBy, inbox,
                 issued, prompted>>

\* The remaining fields; those of another kind of instruction are missing.
ReadRest ==
  /\ ~dead
  /\ epc = "readRest"
  /\ last' = msg
  /\ IF asking = "proceed" /\ msg.kind # first.kind
       THEN dead' = TRUE /\ UNCHANGED epc
       ELSE epc' = "compute" /\ UNCHANGED dead
  /\ UNCHANGED <<asking, started, first, communicateVars, msg, wokenBy, inbox, issued, prompted>>

-----------------------------------------------------------------------------
(* The communicating thread.                                               *)

\* Slip: the newest instruction first.
Receive_Newest ==
  /\ ~dead
  /\ cpc = "recv" /\ inbox # <<>>
  /\ held' = inbox[Len(inbox)]
  /\ inbox' = SubSeq(inbox, 1, Len(inbox) - 1)
  /\ cpc' = "update"
  /\ UNCHANGED <<executorVars, msg, wokenBy, issued, prompted, dead>>

\* (*new_sock) >> message, parsed.
Receive ==
  /\ ~dead
  /\ cpc = "recv" /\ inbox # <<>>
  /\ held' = Head(inbox)
  /\ inbox' = Tail(inbox)
  /\ cpc' = "update"
  /\ UNCHANGED <<executorVars, msg, wokenBy, issued, prompted, dead>>

\* Slip: an instruction that has not been read yet is not overwritten.
Update_KeepUnread ==
  /\ ~dead
  /\ cpc = "update"
  /\ cpc' = "lock"
  /\ msg' = IF msg = last THEN held ELSE msg
  /\ UNCHANGED <<executorVars, held, wokenBy, inbox, issued, prompted, dead>>

\* updateMsg, without the mutex.  The assignment races with the executor when
\* that is reading: the Json::Value it walks through is destroyed under it, and
\* the process may go on or die.
Update ==
  /\ ~dead
  /\ cpc = "update"
  /\ cpc' = "lock"
  /\ msg' = held
  /\ dead' \in IF epc \in {"read", "readRest"} THEN BOOLEAN ELSE {FALSE}
  /\ UNCHANGED <<executorVars, held, wokenBy, inbox, issued, prompted>>

Lock ==
  /\ ~dead
  /\ cpc = "lock"
  /\ cpc' = "notify"
  /\ UNCHANGED <<executorVars, held, msg, wokenBy, inbox, issued, prompted, dead>>

\* Slip: the mutex is not given back.
Notify_NoUnlock ==
  /\ ~dead
  /\ cpc = "notify" /\ epc = "wait"
  /\ epc' = "relock"
  /\ wokenBy' = held.id
  /\ UNCHANGED <<asking, started, first, last, cpc, held, msg, inbox, issued, prompted, dead>>

\* notify_all wakes the executor if it sleeps and is lost otherwise.
Notify ==
  /\ ~dead
  /\ cpc = "notify"
  /\ cpc' = "recv"
  /\ IF epc = "wait"
       THEN epc' = "relock" /\ wokenBy' = held.id
       ELSE UNCHANGED <<epc, wokenBy>>
  /\ UNCHANGED <<asking, started, first, last, held, msg, inbox, issued, prompted, dead>>

-----------------------------------------------------------------------------
(* The user, at the other end of the web server.                           *)

\* A patient user answers each output once, with what it asks for.
MayIssue(kind) ==
  Patient => /\ prompted
             /\ (kind = "pairs") <=> (asking = "model")

Issue ==
  /\ ~dead
  /\ issued < MaxInstructions
  /\ issued' = issued + 1
  /\ prompted' = FALSE
  /\ \E kind \in Kinds :
       /\ MayIssue(kind)
       /\ inbox' = Append(inbox, [id |-> issued + 1, kind |-> kind])
  /\ UNCHANGED <<executorVars, communicateVars, msg, wokenBy, dead>>

-----------------------------------------------------------------------------
Executor == Compute \/ Send \/ Sleep \/ Resume \/ Read \/ ReadRest
Communicate == Receive \/ Update \/ Lock \/ Notify

Next == Executor \/ SpuriousWakeUp \/ Communicate \/ Issue

Spec == Init /\ [][Next]_vars

\* Both threads run as long as they are not blocked; the user need not send.
FairSpec ==
  /\ Spec
  /\ WF_vars(Executor)
  /\ WF_vars(Communicate)

-----------------------------------------------------------------------------
(* Properties.                                                             *)

\* Types of the variables.
TypeOK ==
  /\ epc \in {"compute", "send", "lock", "wait", "relock", "read", "readRest"}
  /\ asking \in {"proceed", "model"}
  /\ started \in BOOLEAN
  /\ first \in Instructions
  /\ last \in Instructions
  /\ cpc \in {"recv", "update", "lock", "notify"}
  /\ held \in Instructions
  /\ msg \in Instructions
  /\ wokenBy \in Nat
  /\ inbox \in Seq(Instructions)
  /\ issued \in Nat
  /\ prompted \in BOOLEAN
  /\ dead \in BOOLEAN

\* The order of the instructions is kept on their way from the user to the
\* executor: what has been read is never newer than msg, msg than the one the
\* communicating thread holds, that than any on the socket.  Nothing is invented.
InOrder ==
  /\ last.id <= msg.id
  /\ first.id <= msg.id
  /\ msg.id <= held.id
  /\ \A k \in 1..Len(inbox) : held.id < inbox[k].id /\ inbox[k].id <= issued
  /\ \A j, k \in 1..Len(inbox) : j < k => inbox[j].id < inbox[k].id
  /\ held.id <= issued

\* The executor never goes back to an instruction older than one it has
\* executed, whatever the user sends and however the threads race.
NeverBackwards == [][first'.id >= first.id /\ last'.id >= last.id]_vars

\* A notification that ends a sleep finds its instruction, or a newer one, in
\* msg: wakeUp stores the instruction before it notifies.
WakeFindsInstruction == epc \in {"relock", "read"} => wokenBy <= msg.id

\* The instruction the executor acts on is one of the user's instructions and
\* not a mixture of two: all fields come from the same one.
InstructionIntact == epc = "compute" => first = last

\* No thread dies of an exception or of the unprotected msg.
StaysAlive == ~dead

\* A notification sent to the sleeping executor gets it to read.
NotificationArrives ==
  (epc = "wait" /\ cpc = "notify") ~> (epc = "read" \/ dead)

\* "Notifies whenever new instructions are received from the Webserver": an
\* instruction the user issues is executed in the end.
InstructionTaken ==
  \A k \in 1..MaxInstructions : (issued = k) ~> (last.id >= k)

\* With a patient user and no spurious wake-ups the reader implements the
\* exchange of outputs and instructions.
Turns == INSTANCE Exchange
           WITH turn <- IF prompted THEN "user" ELSE "engine",
                taken <- last.id
TakesTurns == Turns!Spec
=============================================================================
