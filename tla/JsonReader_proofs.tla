-------------------------- MODULE JsonReader_proofs --------------------------
(***************************************************************************)
(* Proofs about JsonReader, for any number of instructions.  The first part *)
(* holds for every user and every scheduling of the two threads; the second *)
(* for a patient user and a condition variable without spurious wake-ups.   *)
(***************************************************************************)
EXTENDS JsonReader, TLAPS

USE DEF executorVars, communicateVars, mtxFree

LEMMA InstructionType ==
  /\ NullInstruction \in Instructions
  /\ \A x \in Instructions : x.id \in Nat
  /\ \A k \in Nat, kind \in Kinds : [id |-> k, kind |-> kind] \in Instructions
BY DEF NullInstruction, Instructions, Kinds

\* The variables of JsonReader keep their types.
THEOREM TypeCorrect == Spec => []TypeOK
<1>1. Init => TypeOK
  <2> SUFFICES ASSUME Init PROVE TypeOK
    OBVIOUS
  <2>1. inbox \in Seq(Instructions)
    BY DEF Init
  <2> QED BY <2>1, InstructionType DEF Init, TypeOK
<1>2. TypeOK /\ [Next]_vars => TypeOK'
  <2> SUFFICES ASSUME TypeOK, [Next]_vars PROVE TypeOK'
    OBVIOUS
  <2> USE DEF TypeOK
  <2>1. CASE Compute BY <2>1 DEF Compute
  <2>2. CASE Send BY <2>2 DEF Send
  <2>3. CASE Sleep BY <2>3 DEF Sleep
  <2>4. CASE SpuriousWakeUp BY <2>4 DEF SpuriousWakeUp
  <2>5. CASE Resume BY <2>5 DEF Resume
  <2>6. CASE Read BY <2>6 DEF Read
  <2>7. CASE ReadRest BY <2>7 DEF ReadRest
  <2>8. CASE Receive
    <3>1. Head(inbox) \in Instructions /\ Tail(inbox) \in Seq(Instructions)
      BY <2>8 DEF Receive
    <3> QED BY <2>8, <3>1 DEF Receive
  <2>9. CASE Update BY <2>9 DEF Update
  <2>10. CASE Lock BY <2>10 DEF Lock
  <2>11. CASE Notify BY <2>11, InstructionType DEF Notify
  <2>12. CASE Issue
    <3>1. PICK kind \in Kinds : inbox' = Append(inbox, [id |-> issued + 1, kind |-> kind])
      BY <2>12 DEF Issue
    <3>2. [id |-> issued + 1, kind |-> kind] \in Instructions
      BY InstructionType
    <3>3. inbox' \in Seq(Instructions)
      BY <3>1, <3>2
    <3>4. issued' \in Nat /\ prompted' = FALSE
      BY <2>12 DEF Issue
    <3>5. UNCHANGED <<executorVars, communicateVars, msg, wokenBy, dead>>
      BY <2>12 DEF Issue
    <3> QED BY <3>3, <3>4, <3>5
  <2>13. CASE UNCHANGED vars BY <2>13 DEF vars
  <2> QED BY <2>1, <2>2, <2>3, <2>4, <2>5, <2>6, <2>7, <2>8, <2>9, <2>10, <2>11,
             <2>12, <2>13 DEF Next, Executor, Communicate
<1> QED BY <1>1, <1>2, PTL DEF Spec

-----------------------------------------------------------------------------
(* Every user.                                                             *)

\* InOrder is inductive on top of the types.
LEMMA InOrderStep == ASSUME TypeOK, TypeOK', InOrder, [Next]_vars PROVE InOrder'
<1> USE InstructionType DEF TypeOK, InOrder
<1>1. CASE Compute BY <1>1 DEF Compute
<1>2. CASE Send BY <1>2 DEF Send
<1>3. CASE Sleep BY <1>3 DEF Sleep
<1>4. CASE SpuriousWakeUp BY <1>4 DEF SpuriousWakeUp
<1>5. CASE Resume BY <1>5 DEF Resume
<1>6. CASE Read BY <1>6 DEF Read
<1>7. CASE ReadRest BY <1>7 DEF ReadRest
<1>8. CASE Receive
  <2>1. held' = inbox[1] /\ held.id < held'.id /\ held'.id <= issued
    BY <1>8 DEF Receive
  <2>2. Len(inbox') = Len(inbox) - 1 /\ \A k \in 1..Len(inbox') : inbox'[k] = inbox[k+1]
    BY <1>8 DEF Receive
  <2>3. \A j, k \in 1..Len(inbox') : j < k => inbox'[j].id < inbox'[k].id
    <3> TAKE j, k \in 1..Len(inbox')
    <3>1. j + 1 \in 1..Len(inbox) /\ k + 1 \in 1..Len(inbox) /\ (j < k => j + 1 < k + 1)
      BY <2>2, SMTT(40)
    <3> QED BY <3>1, <2>2
  <2>4. \A k \in 1..Len(inbox') : held'.id < inbox'[k].id /\ inbox'[k].id <= issued
    <3> TAKE k \in 1..Len(inbox')
    <3>1. 1 \in 1..Len(inbox) /\ k + 1 \in 1..Len(inbox) /\ 1 < k + 1
      BY <2>2, SMTT(40)
    <3> QED BY <3>1, <2>1, <2>2
  <2>5. msg' = msg /\ issued' = issued /\ first' = first /\ last' = last
    BY <1>8 DEF Receive
  <2> QED BY <2>1, <2>3, <2>4, <2>5
<1>9. CASE Update BY <1>9 DEF Update
<1>10. CASE Lock BY <1>10 DEF Lock
<1>11. CASE Notify BY <1>11 DEF Notify
<1>12. CASE Issue
  <2>1. PICK x \in Instructions : x.id = issued + 1 /\ inbox' = Append(inbox, x)
    BY <1>12 DEF Issue
  <2>2. issued' = issued + 1 /\ UNCHANGED <<first, last, msg, held>>
    BY <1>12 DEF Issue
  <2>3. /\ Len(inbox') = Len(inbox) + 1
        /\ inbox'[Len(inbox) + 1] = x
        /\ \A k \in 1..Len(inbox) : inbox'[k] = inbox[k]
    BY <2>1
  <2> QED BY <2>1, <2>2, <2>3, SMTT(40)
<1>13. CASE UNCHANGED vars BY <1>13 DEF vars
<1> QED BY <1>1, <1>2, <1>3, <1>4, <1>5, <1>6, <1>7, <1>8, <1>9, <1>10, <1>11,
           <1>12, <1>13 DEF Next, Executor, Communicate

\* Instructions reach the executor in the order they were issued: whatever has
\* been read is no newer than msg, msg no newer than what the communicating
\* thread holds, and that older than anything on the socket.
THEOREM OrderKept == Spec => []InOrder
<1>1. Init => InOrder
  BY DEF Init, InOrder, NullInstruction
<1>2. TypeOK /\ TypeOK' /\ InOrder /\ [Next]_vars => InOrder'
  BY InOrderStep
<1> QED BY <1>1, <1>2, TypeCorrect, PTL DEF Spec

\* The executor never goes back to an older instruction, although msg is read
\* and written without the mutex.
THEOREM NoReturnToThePast == Spec => NeverBackwards
<1>1. TypeOK /\ InOrder /\ [Next]_vars => [first'.id >= first.id /\ last'.id >= last.id]_vars
  <2> SUFFICES ASSUME TypeOK, InOrder, [Next]_vars
               PROVE first'.id >= first.id /\ last'.id >= last.id
    OBVIOUS
  <2>1. first' \in {first, msg} /\ last' \in {last, msg}
    BY DEF Next, Executor, Communicate, Compute, Send, Sleep, SpuriousWakeUp, Resume,
           Read, ReadRest, Receive, Update, Lock, Notify, Issue, vars
  <2> QED BY <2>1, InstructionType DEF TypeOK, InOrder
<1> QED BY <1>1, TypeCorrect, OrderKept, PTL DEF Spec, NeverBackwards

\* From Update to Notify msg holds the instruction of the notification.
WakeInv ==
  /\ cpc \in {"lock", "notify"} => msg = held
  /\ WakeFindsInstruction

\* A notification that ends a sleep finds its instruction or a newer one in msg.
THEOREM WakeUpSeesInstruction == Spec => []WakeFindsInstruction
<1>1. Init => WakeInv
  BY DEF Init, WakeInv, WakeFindsInstruction
<1>2. TypeOK /\ InOrder /\ InOrder' /\ WakeInv /\ [Next]_vars => WakeInv'
  <2> SUFFICES ASSUME TypeOK, InOrder, InOrder', WakeInv, [Next]_vars PROVE WakeInv'
    OBVIOUS
  <2> USE InstructionType DEF TypeOK, WakeInv, WakeFindsInstruction
  <2>1. CASE Executor
    BY <2>1 DEF Executor, Compute, Send, Sleep, Resume, Read, ReadRest
  <2>2. CASE SpuriousWakeUp BY <2>2 DEF SpuriousWakeUp
  <2>3. CASE Receive BY <2>3 DEF Receive
  <2>4. CASE Update BY <2>4 DEF Update, InOrder
  <2>5. CASE Lock BY <2>5 DEF Lock
  <2>6. CASE Notify BY <2>6 DEF Notify
  <2>7. CASE Issue BY <2>7 DEF Issue
  <2>8. CASE UNCHANGED vars BY <2>8 DEF vars
  <2> QED BY <2>1, <2>2, <2>3, <2>4, <2>5, <2>6, <2>7, <2>8 DEF Next, Communicate
<1>3. WakeInv => WakeFindsInstruction
  BY DEF WakeInv
<1> QED BY <1>1, <1>2, <1>3, TypeCorrect, OrderKept, PTL DEF Spec

-----------------------------------------------------------------------------
(* A patient user, no spurious wake-ups.                                   *)

\* An instruction that answers what the executor asked for.
Answers(x) == (x.kind = "pairs") <=> (asking = "model")

AllTaken ==
  /\ inbox = <<>> /\ cpc = "recv"
  /\ held.id = issued /\ msg.id = issued /\ last.id = issued

\* Exactly one instruction is on its way: on the socket, in the hands of the
\* communicating thread, or in msg.
OnItsWay ==
  /\ last.id < issued
  /\ epc \notin {"compute", "send"}
  /\ epc \notin {"lock", "wait"} => cpc = "recv"
  /\ \/ /\ cpc = "recv"
        /\ Len(inbox) = 1 /\ inbox[1].id = issued
        /\ inbox[1].kind \in Kinds /\ Answers(inbox[1])
        /\ epc \in {"lock", "wait"}
     \/ /\ inbox = <<>>
        /\ held.id = issued
        /\ held.kind \in Kinds /\ Answers(held)
        /\ cpc = "update" \/ msg = held

\* One instruction is under way or none; in the second case it is the
\* executor's turn, or the user's when the output has been sent.
PatientInv ==
  /\ ~dead
  /\ prompted => epc \in {"lock", "wait"}
  /\ (prompted \/ epc \in {"compute", "send"}) => AllTaken
  /\ ~(prompted \/ epc \in {"compute", "send"}) => OnItsWay
  /\ epc = "readRest" => first = msg
  /\ epc = "compute" => first = last

LEMMA PatientInit == Init => PatientInv
BY DEF Init, PatientInv, AllTaken, NullInstruction

LEMMA PatientStep ==
  ASSUME Patient, ~Spurious, TypeOK, PatientInv, [Next]_vars
  PROVE  PatientInv'
<1> USE InstructionType DEF TypeOK, PatientInv, AllTaken, OnItsWay, Answers
<1>1. CASE Compute BY <1>1 DEF Compute
<1>2. CASE Send BY <1>2 DEF Send
<1>3. CASE Sleep BY <1>3 DEF Sleep
<1>4. CASE SpuriousWakeUp BY <1>4 DEF SpuriousWakeUp
<1>5. CASE Resume BY <1>5 DEF Resume
<1>6. CASE Read BY <1>6 DEF Read, Kinds
<1>7. CASE ReadRest BY <1>7 DEF ReadRest, Kinds
<1>8. CASE Receive
  <2>1. Len(inbox) = 1 /\ inbox[1].id = issued /\ inbox[1].kind \in Kinds /\ Answers(inbox[1])
    BY <1>8 DEF Receive
  <2>2. held' = inbox[1] /\ inbox' = <<>>
    BY <1>8, <2>1 DEF Receive
  <2> QED BY <1>8, <2>1, <2>2 DEF Receive
<1>9. CASE Update BY <1>9 DEF Update
<1>10. CASE Lock BY <1>10 DEF Lock
<1>11. CASE Notify BY <1>11 DEF Notify
<1>12. CASE Issue
  <2>1. PICK kind \in Kinds :
          MayIssue(kind) /\ inbox' = Append(inbox, [id |-> issued + 1, kind |-> kind])
    BY <1>12 DEF Issue
  <2>2. prompted /\ AllTaken /\ ((kind = "pairs") <=> (asking = "model"))
    BY <2>1 DEF MayIssue
  <2>3. Len(inbox') = 1 /\ inbox'[1] = [id |-> issued + 1, kind |-> kind]
    BY <2>1, <2>2
  <2> QED BY <1>12, <2>1, <2>2, <2>3 DEF Issue
<1>13. CASE UNCHANGED vars BY <1>13 DEF vars
<1> QED BY <1>1, <1>2, <1>3, <1>4, <1>5, <1>6, <1>7, <1>8, <1>9, <1>10, <1>11,
           <1>12, <1>13 DEF Next, Executor, Communicate

LEMMA PatientInvariant == ASSUME Patient, ~Spurious PROVE Spec => []PatientInv
<1>1. TypeOK /\ PatientInv /\ [Next]_vars => PatientInv'
  BY PatientStep
<1> QED BY <1>1, PatientInit, TypeCorrect, PTL DEF Spec

\* A patient user never kills the process, as long as cv.wait returns only when
\* it is notified.
THEOREM PatientStaysAlive == ASSUME Patient, ~Spurious PROVE Spec => []StaysAlive
<1>1. PatientInv => StaysAlive
  BY DEF PatientInv, StaysAlive
<1> QED BY <1>1, PatientInvariant, PTL

\* With a patient user and no spurious wake-up the two threads implement the
\* exchange: the executor and the user take turns, and each instruction is taken before the next output.
THEOREM ImplementsExchange == ASSUME Patient, ~Spurious PROVE Spec => TakesTurns
<1>1. Init => Turns!Init
  BY DEF Init, Turns!Init, NullInstruction
<1>2. TypeOK /\ PatientInv /\ [Next]_vars => [Turns!Next]_(Turns!vars)
  <2> SUFFICES ASSUME TypeOK, PatientInv, [Next]_vars
               PROVE Turns!Next \/ UNCHANGED Turns!vars
    OBVIOUS
  <2> USE InstructionType DEF TypeOK, PatientInv, AllTaken, OnItsWay, Turns!Next, Turns!vars
  <2>1. CASE Send
    BY <2>1 DEF Send, Turns!Reply
  <2>2. CASE ReadRest
    BY <2>2 DEF ReadRest, Turns!Take
  <2>3. CASE Issue
    <3>1. prompted /\ issued' = issued + 1 /\ prompted' = FALSE /\ last' = last
      BY <2>3 DEF Issue, MayIssue
    <3> QED BY <3>1 DEF Turns!Instruct
  <2>4. CASE Compute \/ Sleep \/ SpuriousWakeUp \/ Resume \/ Read
    BY <2>4 DEF Compute, Sleep, SpuriousWakeUp, Resume, Read
  <2>5. CASE Communicate
    <3>1. UNCHANGED <<prompted, issued, last>>
      BY <2>5, Zenon DEF Communicate, Receive, Update, Lock, Notify
    <3> QED BY <3>1
  <2>6. CASE UNCHANGED vars
    BY <2>6 DEF vars
  <2> QED BY <2>1, <2>2, <2>3, <2>4, <2>5, <2>6 DEF Next, Executor
<1> QED BY <1>1, <1>2, PatientInvariant, TypeCorrect, PTL DEF Spec, TakesTurns, Turns!Spec
=============================================================================
