---------------------------- MODULE DeploymentProofs ----------------------------
(***************************************************************************)
(* Proofs about what the containers of a deployment share: the queue that  *)
(* stands in for the broker, and the schema.                               *)
(*                                                                         *)
(* DevelopmentQueue, for any number of executions and consumers: an        *)
(* execution is enqueued once and taken once (Once), so nobody else        *)
(* starts, runs or ends what a consumer holds; what is in the queue or     *)
(* about to be started has missed nothing yet (Fresh).                     *)
(*                                                                         *)
(* Migrations, for any number of containers and releases: a container that *)
(* upgrades never read a revision its image does not know (Forward); since *)
(* the version is only written over the one that was read, no upgrade of   *)
(* another container takes the schema back. That the schema is the declared*)
(* one is an induction along the chain: each revision adds what nobody before*)
(* it did and refers to nothing that comes later (Placed, EnumsAreNew,     *)
(* ColumnsFit), so one step up, or down, from what is declared leads to what*)
(* is declared (UpFollows, DownFollows), and so do many.                   *)
(***************************************************************************)
EXTENDS DevelopmentQueue, Migrations, Integers, WellFoundedInduction, TLAPS

-----------------------------------------------------------------------------
(***************************************************************************)
(* The queue and its consumers                                             *)
(***************************************************************************)

Starting(e) == HeldAt(e, {"start"})
Working(e) == HeldAt(e, {"run", "finish"})
Waits(e) == \E i \in 1..Len(messages) : messages[i] = e

Calls ==
  [message : QueuedExecutions \cup {"none"}, step : {"resting", "next", "start", "run", "finish"},
   left : Int]

QueueTypeOK ==
  /\ execution \in [QueuedExecutions ->
       {"none", "uncommitted", "queued", "rolled back", "executing", "closed", "finished"}]
  /\ messages \in Seq(QueuedExecutions)
  /\ consumer \in [Consumers -> Calls]
  /\ missed \in [QueuedExecutions ->
       {"nothing", "restart", "refused", "lost", "never arrived", "finish"}]
  /\ \A k \in Consumers :
       consumer[k].message = "none" <=> consumer[k].step \in {"resting", "next"}

Distinct == \A i, j \in 1..Len(messages) : messages[i] = messages[j] => i = j

Once ==
  /\ Distinct
  /\ \A k \in Consumers, e \in QueuedExecutions :
       consumer[k].message = e =>
         /\ ~Waits(e)
         /\ \A other \in Consumers : consumer[other].message = e => other = k

Fresh ==
  \A e \in QueuedExecutions :
    /\ execution[e] = "none" =>
         /\ ~Waits(e) /\ missed[e] = "nothing"
         /\ \A k \in Consumers : consumer[k].message # e
    /\ Waits(e) \/ Starting(e) =>
         execution[e] \in {"uncommitted", "queued", "rolled back", "closed"} /\ missed[e] = "nothing"
    /\ execution[e] = "uncommitted" /\ missed[e] = "nothing" => Waits(e) \/ Starting(e)

\* NoneForgotten, in these words.
Remembered ==
  \A e \in QueuedExecutions :
    /\ execution[e] = "queued" /\ missed[e] = "nothing" => Waits(e) \/ Starting(e)
    /\ execution[e] = "executing" /\ missed[e] = "nothing" => Working(e)
    /\ Working(e) => execution[e] \in {"executing", "closed"}
    /\ execution[e] = "executing" => missed[e] \notin {"refused", "never arrived"}

QueueInv == QueueTypeOK /\ Once /\ Fresh /\ Remembered

\* The queue after a message was put at its end.
LEMMA Appended ==
  ASSUME messages \in Seq(QueuedExecutions), NEW e \in QueuedExecutions,
         messages' = Append(messages, e)
  PROVE  /\ messages' \in Seq(QueuedExecutions)
         /\ \A x \in QueuedExecutions : Waits(x)' <=> Waits(x) \/ x = e
         /\ Distinct /\ ~Waits(e) => Distinct'
<1>1. /\ Len(messages') = Len(messages) + 1 /\ Len(messages) \in Nat
      /\ messages'[Len(messages) + 1] = e
      /\ \A i \in 1..Len(messages) : messages'[i] = messages[i]
  OBVIOUS
<1>2. messages' \in Seq(QueuedExecutions)
  OBVIOUS
<1>3. 1..Len(messages') = 1..Len(messages) \cup {Len(messages) + 1}
  BY <1>1
<1>4. \A x \in QueuedExecutions : Waits(x)' <=> Waits(x) \/ x = e
  BY <1>1, <1>3 DEF Waits
<1>5. Distinct /\ ~Waits(e) => Distinct'
  BY <1>1, <1>3 DEF Waits, Distinct
<1> QED BY <1>2, <1>4, <1>5

\* The queue after its first message was taken.
LEMMA Taken ==
  ASSUME messages \in Seq(QueuedExecutions), messages # <<>>, Distinct,
         messages' = Tail(messages)
  PROVE  /\ messages' \in Seq(QueuedExecutions) /\ Head(messages) \in QueuedExecutions
         /\ Waits(Head(messages)) /\ Distinct'
         /\ \A x \in QueuedExecutions : Waits(x)' <=> Waits(x) /\ x # Head(messages)
<1>1. /\ Len(messages) \in Nat \ {0} /\ Len(messages') = Len(messages) - 1
      /\ Head(messages) = messages[1]
      /\ \A i \in 1..Len(messages') : messages'[i] = messages[i + 1]
  OBVIOUS
<1>2. messages' \in Seq(QueuedExecutions) /\ Head(messages) \in QueuedExecutions
  OBVIOUS
<1>3. \A i \in 1..Len(messages') : i + 1 \in 1..Len(messages)
  BY <1>1
<1>4. \A i \in 1..Len(messages) : i = 1 \/ (i - 1 \in 1..Len(messages') /\ (i - 1) + 1 = i)
  BY <1>1
<1>5. Waits(Head(messages))
  BY <1>1 DEF Waits
<1>6. Distinct'
  BY <1>1, <1>3 DEF Distinct
<1>7. ASSUME NEW x \in QueuedExecutions PROVE Waits(x)' <=> Waits(x) /\ x # Head(messages)
  <2>1. ASSUME NEW i \in 1..Len(messages'), messages'[i] = x
        PROVE  Waits(x) /\ x # messages[1]
    BY <1>1, <1>3, <2>1 DEF Waits, Distinct
  <2>2. ASSUME NEW i \in 1..Len(messages), messages[i] = x, x # messages[1]
        PROVE  Waits(x)'
    <3>1. i - 1 \in 1..Len(messages') /\ (i - 1) + 1 = i
      BY <1>4, <2>2
    <3>2. messages'[i - 1] = x
      BY <1>1, <2>2, <3>1
    <3> QED BY <3>1, <3>2 DEF Waits
  <2> QED BY <1>1, <2>1, <2>2 DEF Waits
<1> QED BY <1>2, <1>5, <1>6, <1>7

\* The queue begins empty.
LEMMA QueueInitially == QueueInit => QueueInv
<1> SUFFICES ASSUME QueueInit PROVE QueueInv
  OBVIOUS
<1> USE DEF QueueInit
<1>1. \A e \in QueuedExecutions : ~Waits(e)
  BY DEF Waits
<1>2. QueueTypeOK
  BY DEF QueueTypeOK, Resting, Calls
<1>3. \A e \in QueuedExecutions, k \in Consumers : consumer[k].message # e
  BY QueueAssumption DEF Resting
<1>4. Once
  BY <1>3 DEF Once, Distinct
<1>5. Fresh
  BY <1>1, <1>3 DEF Fresh, Starting, HeldAt
<1>6. Remembered
  BY <1>3 DEF Remembered, Working, HeldAt
<1> QED BY <1>2, <1>4, <1>5, <1>6 DEF QueueInv

\* A new execution is nowhere yet.
LEMMA EnqueueKeeps ==
  ASSUME QueueInv, NEW e \in QueuedExecutions, Enqueue(e) PROVE QueueInv'
<1> USE DEF QueueInv
<1>0. messages' = Append(messages, e) /\ execution[e] = "none"
  BY DEF Enqueue
<1>1. /\ messages' \in Seq(QueuedExecutions) /\ Distinct'
      /\ \A x \in QueuedExecutions : Waits(x)' <=> Waits(x) \/ x = e
  BY <1>0, Appended DEF QueueTypeOK, Once, Fresh
<1>2. /\ \A x \in QueuedExecutions : execution'[x] = IF x = e THEN "uncommitted" ELSE execution[x]
      /\ consumer' = consumer /\ missed' = missed
  BY DEF QueueTypeOK, Enqueue
<1>3. QueueTypeOK'
  BY <1>1 DEF QueueTypeOK, Enqueue
<1>4. Once'
  BY <1>0, <1>1, <1>2 DEF Once, Fresh
<1>5. \A x \in QueuedExecutions :
        (Starting(x)' <=> Starting(x)) /\ (Working(x)' <=> Working(x))
  BY <1>2 DEF Starting, Working, HeldAt
<1>6. ~Working(e)
  BY <1>0 DEF Fresh, Working, HeldAt
<1>7. Fresh'
  BY <1>0, <1>1, <1>2, <1>5 DEF Fresh
<1>8. Remembered'
  BY <1>1, <1>2, <1>5, <1>6 DEF Remembered
<1> QED BY <1>3, <1>4, <1>7, <1>8

\* The transaction or its execution ends; queue and consumers do not notice.
LEMMA RowChangeKeeps ==
  ASSUME QueueInv, NEW e \in QueuedExecutions, EndRequest(e) \/ CloseExecution(e)
  PROVE  QueueInv'
<1> USE DEF QueueInv
<1>1. /\ messages' = messages /\ consumer' = consumer /\ missed' = missed
      /\ \A x \in QueuedExecutions \ {e} : execution'[x] = execution[x]
      /\ \/ execution[e] = "uncommitted" /\ execution'[e] \in {"queued", "rolled back"}
         \/ execution'[e] = "closed" /\ execution[e] \in {"queued", "executing"}
  BY DEF EndRequest, CloseExecution, QueueTypeOK
<1>2. QueueTypeOK'
  BY <1>1 DEF QueueTypeOK, EndRequest, CloseExecution
<1>3. \A x \in QueuedExecutions :
        /\ Waits(x)' <=> Waits(x)
        /\ Starting(x)' <=> Starting(x)
        /\ Working(x)' <=> Working(x)
  BY <1>1 DEF Waits, Starting, Working, HeldAt
<1>4. Once'
  BY <1>1, <1>3 DEF Once, Distinct
<1>5. Fresh'
  <2> SUFFICES ASSUME NEW x \in QueuedExecutions
               PROVE  /\ execution'[x] = "none" =>
                           /\ ~Waits(x)' /\ missed'[x] = "nothing"
                           /\ \A k \in Consumers : consumer'[k].message # x
                      /\ Waits(x)' \/ Starting(x)' =>
                           /\ execution'[x] \in {"uncommitted", "queued", "rolled back", "closed"}
                           /\ missed'[x] = "nothing"
                      /\ execution'[x] = "uncommitted" /\ missed'[x] = "nothing" =>
                           Waits(x)' \/ Starting(x)'
    BY DEF Fresh
  <2>1. CASE x = e
    BY <1>1, <1>3, <2>1 DEF Fresh
  <2>2. CASE x # e
    BY <1>1, <1>3, <2>2 DEF Fresh
  <2> QED BY <2>1, <2>2
<1>6. Remembered'
  BY <1>1, <1>3 DEF Remembered, Fresh
<1> QED BY <1>2, <1>4, <1>5, <1>6

\* Nothing of the process survives, but what it had is marked.
LEMMA RestartKeeps ==
  ASSUME QueueInv, ProcessRestarts PROVE QueueInv'
<1> USE DEF QueueInv
<1>1. /\ \A x \in QueuedExecutions : ~Waits(x)'
      /\ \A k \in Consumers : consumer'[k] = Resting
      /\ messages' = <<>> /\ consumer' = [k \in Consumers |-> Resting]
  <2>1. messages' = <<>> /\ consumer' = [k \in Consumers |-> Resting]
    BY DEF ProcessRestarts
  <2>2. \A x \in QueuedExecutions : ~Waits(x)'
    BY <2>1 DEF Waits
  <2> QED BY <2>1, <2>2
<1>2. Resting \in Calls /\ Resting.message = "none" /\ Resting.step = "resting"
  BY DEF Resting, Calls
<1>3. \A x \in QueuedExecutions :
        /\ execution'[x] = IF execution[x] = "uncommitted" THEN "rolled back" ELSE execution[x]
        /\ missed'[x] = IF Waits(x) \/ \E k \in Consumers : consumer[k].message = x
                        THEN "restart" ELSE missed[x]
  BY DEF ProcessRestarts, Waits, Contains
<1>4. QueueTypeOK'
  <2>1. \A x \in QueuedExecutions : missed'[x] \in
          {"nothing", "restart", "refused", "lost", "never arrived", "finish"}
    BY <1>3 DEF QueueTypeOK
  <2>2. missed' \in [QueuedExecutions ->
          {"nothing", "restart", "refused", "lost", "never arrived", "finish"}]
    BY <2>1 DEF ProcessRestarts
  <2>3. execution' \in [QueuedExecutions ->
          {"none", "uncommitted", "queued", "rolled back", "executing", "closed", "finished"}]
    BY DEF QueueTypeOK, ProcessRestarts
  <2>4. messages' \in Seq(QueuedExecutions)
    BY <1>1
  <2>5. /\ consumer' \in [Consumers -> Calls]
        /\ \A k \in Consumers :
             consumer'[k].message = "none" <=> consumer'[k].step \in {"resting", "next"}
    BY <1>1, <1>2
  <2> QED BY <2>2, <2>3, <2>4, <2>5 DEF QueueTypeOK
<1>5. \A x \in QueuedExecutions : ~Starting(x)' /\ ~Working(x)' /\
        \A k \in Consumers : consumer'[k].message # x
  BY <1>1, <1>2, QueueAssumption DEF Starting, Working, HeldAt
<1>6. Once'
  BY <1>1, <1>5 DEF Once, Distinct
<1>7. Fresh'
  <2> SUFFICES ASSUME NEW x \in QueuedExecutions
               PROVE  execution'[x] = "none" => missed'[x] = "nothing"
    BY <1>1, <1>3, <1>5 DEF Fresh
  <2>1. execution'[x] = "none" => execution[x] = "none"
    BY <1>3
  <2>2. execution[x] = "none" => ~Waits(x) /\ missed[x] = "nothing"
                                 /\ ~\E k \in Consumers : consumer[k].message = x
    BY DEF Fresh
  <2> QED BY <1>3, <2>1, <2>2
<1>8. \A x \in QueuedExecutions :
        missed'[x] = "nothing" => ~Waits(x) /\ ~Starting(x) /\ ~Working(x)
  BY <1>3 DEF Starting, Working, HeldAt
<1>9. Remembered'
  BY <1>3, <1>5, <1>8 DEF Remembered
<1> QED BY <1>4, <1>6, <1>7, <1>9

\* What is held after a consumer has moved on.
LEMMA Moved ==
  ASSUME QueueInv, NEW k \in Consumers, NEW call \in Calls,
         consumer' = [consumer EXCEPT ![k] = call]
  PROVE  /\ consumer' \in [Consumers -> Calls] /\ consumer'[k] = call
         /\ \A other \in Consumers \ {k} : consumer'[other] = consumer[other]
         /\ \A x \in QueuedExecutions :
              /\ x # consumer[k].message /\ x # call.message =>
                   (Starting(x)' <=> Starting(x)) /\ (Working(x)' <=> Working(x))
              /\ x = consumer[k].message =>
                   /\ Starting(x)' => x = call.message /\ call.step = "start"
                   /\ Working(x)' <=> x = call.message /\ call.step \in {"run", "finish"}
<1>1. /\ consumer' \in [Consumers -> Calls] /\ consumer'[k] = call
      /\ \A other \in Consumers \ {k} : consumer'[other] = consumer[other]
  BY DEF QueueInv, QueueTypeOK
<1> QED BY <1>1 DEF QueueInv, Once, Starting, Working, HeldAt

\* Types and uniqueness after a consumer has moved on, keeping what it holds
\* or letting it go.
LEMMA CallMoves ==
  ASSUME QueueInv, NEW k \in Consumers, NEW call \in Calls,
         call.message \in {consumer[k].message, "none"},
         call.message = "none" <=> call.step \in {"resting", "next"},
         consumer' = [consumer EXCEPT ![k] = call], messages' = messages,
         execution' \in [QueuedExecutions ->
           {"none", "uncommitted", "queued", "rolled back", "executing", "closed", "finished"}],
         missed' \in [QueuedExecutions ->
           {"nothing", "restart", "refused", "lost", "never arrived", "finish"}]
  PROVE  /\ QueueTypeOK' /\ Once'
         /\ \A x \in QueuedExecutions, c \in Consumers :
              consumer'[c].message = x => consumer[c].message = x
<1>1. /\ consumer' \in [Consumers -> Calls] /\ consumer'[k] = call
      /\ \A other \in Consumers \ {k} : consumer'[other] = consumer[other]
  BY Moved
<1>2. QueueTypeOK
  BY DEF QueueInv
<1>3. \A c \in Consumers :
        consumer'[c].message = "none" <=> consumer'[c].step \in {"resting", "next"}
  <2> SUFFICES ASSUME NEW c \in Consumers
               PROVE  consumer'[c].message = "none" <=> consumer'[c].step \in {"resting", "next"}
    OBVIOUS
  <2>1. CASE c = k
    BY <1>1, <2>1
  <2>2. CASE c # k
    BY <1>1, <1>2, <2>2 DEF QueueTypeOK
  <2> QED BY <2>1, <2>2
<1>4. QueueTypeOK'
  BY <1>1, <1>2, <1>3 DEF QueueTypeOK
<1>5. \A x \in QueuedExecutions, c \in Consumers :
        consumer'[c].message = x => consumer[c].message = x
  <2> SUFFICES ASSUME NEW x \in QueuedExecutions, NEW c \in Consumers, consumer'[c].message = x
               PROVE  consumer[c].message = x
    OBVIOUS
  <2>1. CASE c = k
    BY <1>1, <2>1, QueueAssumption
  <2>2. CASE c # k
    BY <1>1, <2>2
  <2> QED BY <2>1, <2>2
<1>6. (Distinct' <=> Distinct) /\ \A x \in QueuedExecutions : Waits(x)' <=> Waits(x)
  BY DEF Distinct, Waits
<1>7. Once'
  <2> SUFFICES ASSUME NEW c \in Consumers, NEW x \in QueuedExecutions, consumer'[c].message = x
               PROVE  /\ ~Waits(x)'
                      /\ \A other \in Consumers : consumer'[other].message = x => other = c
    BY <1>6 DEF QueueInv, Once
  <2>1. /\ ~Waits(x)
        /\ \A other \in Consumers : consumer[other].message = x => other = c
    BY <1>5 DEF QueueInv, Once
  <2> QED BY <1>5, <1>6, <2>1
<1> QED BY <1>4, <1>5, <1>7

\* A consumer that holds nothing begins a call or gives it up.
LEMMA IdleKeeps ==
  ASSUME QueueInv, NEW k \in Consumers, NEW call \in Calls,
         consumer[k].message = "none", call.message = "none", call.step \in {"resting", "next"},
         consumer' = [consumer EXCEPT ![k] = call], UNCHANGED <<execution, messages, missed>>
  PROVE  QueueInv'
<1>0. /\ execution' \in [QueuedExecutions ->
           {"none", "uncommitted", "queued", "rolled back", "executing", "closed", "finished"}]
      /\ missed' \in [QueuedExecutions ->
           {"nothing", "restart", "refused", "lost", "never arrived", "finish"}]
  BY DEF QueueInv, QueueTypeOK
<1>1. /\ QueueTypeOK' /\ Once'
      /\ \A x \in QueuedExecutions, c \in Consumers :
           consumer'[c].message = x => consumer[c].message = x
  BY <1>0, CallMoves
<1>2. \A x \in QueuedExecutions :
        (Starting(x)' <=> Starting(x)) /\ (Working(x)' <=> Working(x))
  <2> SUFFICES ASSUME NEW x \in QueuedExecutions
               PROVE  (Starting(x)' <=> Starting(x)) /\ (Working(x)' <=> Working(x))
    OBVIOUS
  <2>1. x # consumer[k].message /\ x # call.message
    BY QueueAssumption
  <2> QED BY <2>1, Moved
<1>3. \A x \in QueuedExecutions : Waits(x)' <=> Waits(x)
  BY DEF Waits
<1>4. Fresh'
  BY <1>1, <1>2, <1>3 DEF QueueInv, Fresh
<1>5. Remembered'
  BY <1>2, <1>3 DEF QueueInv, Remembered
<1> QED BY <1>1, <1>4, <1>5 DEF QueueInv

\* The message that is taken is held by nobody else.
LEMMA DequeueKeeps ==
  ASSUME QueueInv, NEW k \in Consumers, Dequeue(k) PROVE QueueInv'
<1>0. consumer[k] \in Calls /\ consumer[k].step = "next" /\ consumer[k].message = "none"
  BY DEF Dequeue, QueueInv, QueueTypeOK
<1>1. CASE messages = <<>>
  <2>1. Resting \in Calls /\ Resting.message = "none" /\ Resting.step = "resting"
    BY DEF Resting, Calls
  <2> QED BY <1>0, <1>1, <2>1, IdleKeeps DEF Dequeue
<1>2. CASE messages # <<>>
  <2>0. PICK e : e = Head(messages)
    OBVIOUS
  <2>1. /\ messages' \in Seq(QueuedExecutions) /\ e \in QueuedExecutions
        /\ Waits(e) /\ Distinct'
        /\ \A x \in QueuedExecutions : Waits(x)' <=> Waits(x) /\ x # e
    BY <1>2, <2>0, Taken DEF Dequeue, QueueInv, QueueTypeOK, Once
  <2>2. execution' = execution /\ missed' = missed
    BY DEF Dequeue
  <2>3a. PICK call : call = [consumer[k] EXCEPT !.message = e, !.step = "start"]
    OBVIOUS
  <2>3. consumer' = [consumer EXCEPT ![k] = call]
    BY <1>0, <1>2, <2>0, <2>3a DEF Dequeue, QueueInv, QueueTypeOK
  <2>4. call \in Calls /\ call.message = e /\ call.step = "start"
    BY <1>0, <2>1, <2>3a DEF Calls
  <2>5. /\ consumer' \in [Consumers -> Calls] /\ consumer'[k] = call
        /\ \A other \in Consumers \ {k} : consumer'[other] = consumer[other]
    BY <2>3, <2>4, Moved
  <2>6. \A x \in QueuedExecutions \ {e} :
          (Starting(x)' <=> Starting(x)) /\ (Working(x)' <=> Working(x))
    BY <1>0, <2>3, <2>4, Moved, QueueAssumption
  <2>7. \A c \in Consumers : consumer[c].message # e
    BY <2>1 DEF QueueInv, Once
  <2>8. Starting(e)' /\ ~Working(e)' /\ ~Working(e)
    <3>1. consumer'[k].message = e /\ consumer'[k].step = "start"
      BY <2>4, <2>5
    <3>2. \A c \in Consumers : consumer'[c].message = e => consumer'[c].step = "start"
      BY <2>5, <2>7, <3>1
    <3>3. Starting(e)'
      BY <3>1 DEF Starting, HeldAt
    <3>4. ~Working(e)'
      BY <3>2 DEF Working, HeldAt
    <3>5. ~Working(e)
      BY <2>7 DEF Working, HeldAt
    <3> QED BY <3>3, <3>4, <3>5
  <2>9. QueueTypeOK'
    <3>1. \A c \in Consumers :
            consumer'[c].message = "none" <=> consumer'[c].step \in {"resting", "next"}
      <4> SUFFICES ASSUME NEW c \in Consumers
                   PROVE  consumer'[c].message = "none"
                            <=> consumer'[c].step \in {"resting", "next"}
        OBVIOUS
      <4>1. CASE c = k
        BY <2>1, <2>4, <2>5, <4>1, QueueAssumption
      <4>2. CASE c # k
        BY <2>5, <4>2 DEF QueueInv, QueueTypeOK
      <4> QED BY <4>1, <4>2
    <3> QED BY <2>1, <2>2, <2>5, <3>1 DEF QueueInv, QueueTypeOK
  <2>10. \A x \in QueuedExecutions \ {e}, c \in Consumers :
           consumer'[c].message = x => consumer[c].message = x
    BY <2>4, <2>5
  <2>11. \A c \in Consumers : consumer'[c].message = e => c = k
    BY <2>5, <2>7
  <2>12. Once'
    <3> SUFFICES ASSUME NEW c \in Consumers, NEW x \in QueuedExecutions, consumer'[c].message = x
                 PROVE  /\ ~Waits(x)'
                        /\ \A other \in Consumers : consumer'[other].message = x => other = c
      BY <2>1 DEF Once
    <3>1. CASE x = e
      BY <2>1, <2>11, <3>1
    <3>2. CASE x # e
      BY <2>1, <2>10, <3>2 DEF QueueInv, Once
    <3> QED BY <3>1, <3>2
  <2>13. Fresh'
    <3> SUFFICES ASSUME NEW x \in QueuedExecutions
                 PROVE  /\ execution'[x] = "none" =>
                             /\ ~Waits(x)' /\ missed'[x] = "nothing"
                             /\ \A c \in Consumers : consumer'[c].message # x
                        /\ Waits(x)' \/ Starting(x)' =>
                             /\ execution'[x] \in {"uncommitted", "queued", "rolled back", "closed"}
                             /\ missed'[x] = "nothing"
                        /\ execution'[x] = "uncommitted" /\ missed'[x] = "nothing" =>
                             Waits(x)' \/ Starting(x)'
      BY DEF Fresh
    <3>1. CASE x = e
      <4>1. /\ execution[e] \in {"uncommitted", "queued", "rolled back", "closed"}
            /\ missed[e] = "nothing"
        BY <2>1 DEF QueueInv, Fresh
      <4> QED BY <2>2, <2>8, <3>1, <4>1
    <3>2. CASE x # e
      BY <2>1, <2>2, <2>6, <2>10, <3>2 DEF QueueInv, Fresh
    <3> QED BY <3>1, <3>2
  <2>14. Remembered'
    <3> SUFFICES ASSUME NEW x \in QueuedExecutions
                 PROVE  /\ execution'[x] = "queued" /\ missed'[x] = "nothing" =>
                             Waits(x)' \/ Starting(x)'
                        /\ execution'[x] = "executing" /\ missed'[x] = "nothing" => Working(x)'
                        /\ Working(x)' => execution'[x] \in {"executing", "closed"}
                        /\ execution'[x] = "executing" =>
                             missed'[x] \notin {"refused", "never arrived"}
      BY DEF Remembered
    <3>1. CASE x = e
      <4>1. execution[e] # "executing"
        BY <2>1 DEF QueueInv, Fresh
      <4> QED BY <2>2, <2>8, <3>1, <4>1
    <3>2. CASE x # e
      BY <2>1, <2>2, <2>6, <3>2 DEF QueueInv, Remembered
    <3> QED BY <3>1, <3>2
  <2> QED BY <2>9, <2>12, <2>13, <2>14 DEF QueueInv
<1> QED BY <1>1, <1>2

\* A step of a consumer with the message it holds touches that execution only;
\* what it must leave behind so that nothing is forgotten.
LEMMA HolderKeeps ==
  ASSUME QueueInv, NEW k \in Consumers, NEW e \in QueuedExecutions, consumer[k].message = e,
         NEW call \in Calls, call.message \in {e, "none"},
         call.message = "none" <=> call.step \in {"resting", "next"}, call.step # "start",
         consumer' = [consumer EXCEPT ![k] = call], messages' = messages,
         execution' \in [QueuedExecutions ->
           {"none", "uncommitted", "queued", "rolled back", "executing", "closed", "finished"}],
         missed' \in [QueuedExecutions ->
           {"nothing", "restart", "refused", "lost", "never arrived", "finish"}],
         \A x \in QueuedExecutions \ {e} : execution'[x] = execution[x] /\ missed'[x] = missed[x],
         execution'[e] # "none",
         execution'[e] \in {"uncommitted", "queued"} => missed'[e] # "nothing",
         execution'[e] = "executing" => missed'[e] \notin {"refused", "never arrived"},
         execution'[e] = "executing" /\ missed'[e] = "nothing" => call.step \in {"run", "finish"},
         call.step \in {"run", "finish"} => execution'[e] \in {"executing", "closed"}
  PROVE  QueueInv'
<1>1. /\ QueueTypeOK' /\ Once'
      /\ \A x \in QueuedExecutions, c \in Consumers :
           consumer'[c].message = x => consumer[c].message = x
  BY CallMoves
<1>2. \A x \in QueuedExecutions \ {e} :
        (Starting(x)' <=> Starting(x)) /\ (Working(x)' <=> Working(x))
  <2> SUFFICES ASSUME NEW x \in QueuedExecutions \ {e}
               PROVE  (Starting(x)' <=> Starting(x)) /\ (Working(x)' <=> Working(x))
    OBVIOUS
  <2>1. x # consumer[k].message /\ x # call.message
    BY QueueAssumption
  <2> QED BY <2>1, Moved
<1>3. ~Starting(e)' /\ (Working(e)' <=> call.step \in {"run", "finish"})
  <2>1. /\ Starting(e)' => e = call.message /\ call.step = "start"
        /\ Working(e)' <=> e = call.message /\ call.step \in {"run", "finish"}
    BY Moved
  <2> QED BY <2>1
<1>4. \A x \in QueuedExecutions : Waits(x)' <=> Waits(x)
  BY DEF Waits
<1>5. ~Waits(e)
  BY DEF QueueInv, Once
<1>6. Fresh'
  <2> SUFFICES ASSUME NEW x \in QueuedExecutions
               PROVE  /\ execution'[x] = "none" =>
                           /\ ~Waits(x)' /\ missed'[x] = "nothing"
                           /\ \A c \in Consumers : consumer'[c].message # x
                      /\ Waits(x)' \/ Starting(x)' =>
                           /\ execution'[x] \in {"uncommitted", "queued", "rolled back", "closed"}
                           /\ missed'[x] = "nothing"
                      /\ execution'[x] = "uncommitted" /\ missed'[x] = "nothing" =>
                           Waits(x)' \/ Starting(x)'
    BY DEF Fresh
  <2>1. CASE x = e
    BY <1>3, <1>4, <1>5, <2>1
  <2>2. CASE x # e
    <3>1. execution'[x] = execution[x] /\ missed'[x] = missed[x]
      BY <2>2
    <3>2. execution[x] = "none" => \A c \in Consumers : consumer'[c].message # x
      <4>1. execution[x] = "none" => \A c \in Consumers : consumer[c].message # x
        BY DEF QueueInv, Fresh
      <4> SUFFICES ASSUME execution[x] = "none", NEW c \in Consumers
                   PROVE  consumer'[c].message # x
        OBVIOUS
      <4>2. consumer[c].message # x
        BY <4>1
      <4>3. consumer'[c] = IF c = k THEN call ELSE consumer[c]
        BY DEF QueueInv, QueueTypeOK
      <4>4. call.message # x
        BY <2>2, QueueAssumption
      <4> QED BY <4>2, <4>3, <4>4
    <3>3. /\ execution[x] = "none" => ~Waits(x) /\ missed[x] = "nothing"
          /\ Waits(x) \/ Starting(x) =>
               /\ execution[x] \in {"uncommitted", "queued", "rolled back", "closed"}
               /\ missed[x] = "nothing"
          /\ execution[x] = "uncommitted" /\ missed[x] = "nothing" => Waits(x) \/ Starting(x)
      BY DEF QueueInv, Fresh
    <3>4. (Starting(x)' <=> Starting(x)) /\ (Waits(x)' <=> Waits(x))
      BY <1>2, <1>4, <2>2
    <3> QED BY <3>1, <3>2, <3>3, <3>4
  <2> QED BY <2>1, <2>2
<1>7. Remembered'
  <2> SUFFICES ASSUME NEW x \in QueuedExecutions
               PROVE  /\ execution'[x] = "queued" /\ missed'[x] = "nothing" =>
                           Waits(x)' \/ Starting(x)'
                      /\ execution'[x] = "executing" /\ missed'[x] = "nothing" => Working(x)'
                      /\ Working(x)' => execution'[x] \in {"executing", "closed"}
                      /\ execution'[x] = "executing" =>
                           missed'[x] \notin {"refused", "never arrived"}
    BY DEF Remembered
  <2>1. CASE x = e
    BY <1>3, <2>1
  <2>2. CASE x # e
    BY <1>2, <1>4, <2>2 DEF QueueInv, Remembered
  <2> QED BY <2>1, <2>2
<1> QED BY <1>1, <1>6, <1>7 DEF QueueInv

\* What a consumer holds when it has gone on to the next message: nothing.
LEMMA NextHoldsNothing ==
  ASSUME NEW call \in Calls
  PROVE  /\ Rested(call) \in Calls /\ Rested(call).message = "none"
         /\ Rested(call).step \in {"resting", "next"}
<1>1. Resting \in Calls /\ Resting.message = "none" /\ Resting.step = "resting"
  BY DEF Resting, Calls
<1>2. call.left - 1 \in Int
  BY DEF Calls
<1>3. CASE call.left = 1
  BY <1>1, <1>3 DEF Rested
<1>4. CASE call.left # 1
  BY <1>2, <1>4 DEF Rested, Calls
<1> QED BY <1>3, <1>4

\* A call of consume_available begins with no message.
LEMMA ConsumeKeeps ==
  ASSUME QueueInv, NEW k \in Consumers, ConsumeAvailable(k) PROVE QueueInv'
<1>1. PICK n \in 1..MaxMessages :
        consumer' = [consumer EXCEPT ![k] = [message |-> "none", step |-> "next", left |-> n]]
  BY DEF ConsumeAvailable
<1>2. [message |-> "none", step |-> "next", left |-> n] \in Calls
  BY QueueAssumption DEF Calls
<1>3. consumer[k].message = "none"
  BY DEF ConsumeAvailable, Resting
<1> QED BY <1>1, <1>2, <1>3, IdleKeeps DEF ConsumeAvailable

\* What a consumer holds is not in the queue and is at a step of the runner.
LEMMA Held ==
  ASSUME QueueInv, NEW k \in Consumers, consumer[k].step \in {"start", "run", "finish"}
  PROVE  /\ consumer[k] \in Calls /\ consumer[k].message \in QueuedExecutions
         /\ consumer[k].step = "start" => Starting(consumer[k].message)
         /\ consumer[k].step \in {"run", "finish"} => Working(consumer[k].message)
<1>1. consumer[k] \in Calls /\ consumer[k].message # "none"
  BY DEF QueueInv, QueueTypeOK
<1> QED BY <1>1 DEF Calls, Starting, Working, HeldAt

\* worker-started: what came through began a queued execution, the rest is
\* marked.
LEMMA PostStartedKeeps ==
  ASSUME QueueInv, NEW k \in Consumers, PostStarted(k) PROVE QueueInv'
<1>0. PICK e : e = consumer[k].message
  OBVIOUS
<1> DEFINE began == IF execution[e] = "queued" THEN "executing" ELSE execution[e]
<1>1. consumer[k].step = "start" /\ messages' = messages
  BY DEF PostStarted
<1>2. consumer[k] \in Calls /\ e \in QueuedExecutions /\ Starting(e)
  BY <1>0, <1>1, Held
<1>3. /\ execution[e] \in {"uncommitted", "queued", "rolled back", "closed"}
      /\ missed[e] = "nothing"
  BY <1>2 DEF QueueInv, Fresh
<1>4. /\ execution \in [QueuedExecutions ->
           {"none", "uncommitted", "queued", "rolled back", "executing", "closed", "finished"}]
      /\ missed \in [QueuedExecutions ->
           {"nothing", "restart", "refused", "lost", "never arrived", "finish"}]
      /\ consumer \in [Consumers -> Calls]
  BY DEF QueueInv, QueueTypeOK
<1>5. PICK answer \in {"2xx", "refused", "lost", "never arrived"} :
        /\ answer = "2xx" => execution[e] = "queued"
        /\ answer = "refused" => execution[e] # "queued"
        /\ execution' = [execution EXCEPT ![e] = IF answer = "never arrived" THEN @ ELSE began]
        /\ IF answer = "2xx"
           THEN Moves(k, "run") /\ UNCHANGED missed
           ELSE NextMessage(k) /\ missed' = [missed EXCEPT ![e] = answer]
  BY <1>0 DEF PostStarted, MayRun
<1>6. /\ execution' \in [QueuedExecutions ->
           {"none", "uncommitted", "queued", "rolled back", "executing", "closed", "finished"}]
      /\ \A x \in QueuedExecutions \ {e} : execution'[x] = execution[x]
      /\ execution'[e] = IF answer = "never arrived" THEN execution[e] ELSE began
  BY <1>2, <1>3, <1>4, <1>5
<1>7. CASE answer = "2xx"
  <2>0. PICK call : call = [consumer[k] EXCEPT !.step = "run"]
    OBVIOUS
  <2>1. call \in Calls /\ call.message = e /\ call.step = "run"
    BY <1>0, <1>2, <2>0 DEF Calls
  <2>2. consumer' = [consumer EXCEPT ![k] = call] /\ missed' = missed
    BY <1>4, <1>5, <1>7, <2>0 DEF Moves
  <2>3. execution'[e] = "executing"
    BY <1>5, <1>6, <1>7
  <2>4. call.message # "none"
    BY <1>2, <2>1, QueueAssumption
  <2> QED BY <1>0, <1>1, <1>2, <1>3, <1>4, <1>6, <2>1, <2>2, <2>3, <2>4, HolderKeeps
<1>8. CASE answer # "2xx"
  <2>0. PICK call : call = Rested(consumer[k])
    OBVIOUS
  <2>1. call \in Calls /\ call.message = "none" /\ call.step \in {"resting", "next"}
    BY <1>2, <2>0, NextHoldsNothing
  <2>2. consumer' = [consumer EXCEPT ![k] = call] /\ missed' = [missed EXCEPT ![e] = answer]
    BY <1>4, <1>5, <1>8, <2>0 DEF NextMessage
  <2>3. /\ missed' \in [QueuedExecutions ->
             {"nothing", "restart", "refused", "lost", "never arrived", "finish"}]
        /\ missed'[e] = answer /\ answer # "nothing"
        /\ \A x \in QueuedExecutions \ {e} : execution'[x] = execution[x] /\ missed'[x] = missed[x]
    BY <1>2, <1>4, <1>5, <1>6, <1>8, <2>2
  <2>4. /\ execution'[e] # "none"
        /\ execution'[e] = "executing" => answer \notin {"refused", "never arrived"}
    <3>1. CASE answer = "never arrived"
      BY <1>3, <1>6, <3>1
    <3>2. CASE answer # "never arrived"
      <4>1. CASE execution[e] = "queued"
        <5>1. answer # "refused"
          BY <1>5, <4>1
        <5>2. execution'[e] = "executing"
          BY <1>6, <3>2, <4>1
        <5> QED BY <3>2, <5>1, <5>2
      <4>2. CASE execution[e] # "queued"
        <5>1. execution'[e] = execution[e]
          BY <1>6, <3>2, <4>2
        <5> QED BY <1>3, <5>1
      <4> QED BY <4>1, <4>2
    <3> QED BY <3>1, <3>2
  <2>5. \/ execution'[e] = "executing" /\ answer \notin {"refused", "never arrived", "nothing"}
        \/ execution'[e] # "executing" /\ execution'[e] # "none"
    BY <2>3, <2>4
  <2>6. execution'[e] = "executing" => missed'[e] \notin {"refused", "never arrived", "nothing"}
    BY <2>3, <2>5
  <2>7. call.step \notin {"start", "run", "finish"}
    BY <2>1
  <2> QED BY <1>0, <1>1, <1>2, <1>6, <2>1, <2>2, <2>3, <2>4, <2>6, <2>7, HolderKeeps
<1> QED BY <1>7, <1>8

\* The runner: the consumer goes on to report what it holds.
LEMMA RunKeeps ==
  ASSUME QueueInv, NEW k \in Consumers, RunMessage(k) PROVE QueueInv'
<1>a. PICK e : e = consumer[k].message
  OBVIOUS
<1>b. PICK call : call = [consumer[k] EXCEPT !.step = "finish"]
  OBVIOUS
<1>1. /\ consumer[k].step = "run" /\ UNCHANGED <<execution, messages, missed>>
      /\ Moves(k, "finish")
  BY DEF RunMessage, RunnerRaises
<1>2. consumer[k] \in Calls /\ e \in QueuedExecutions /\ Working(e)
  BY <1>a, <1>1, Held
<1>3. call \in Calls /\ call.message = e /\ call.step = "finish" /\ call.message # "none"
  BY <1>a, <1>b, <1>2, QueueAssumption DEF Calls
<1>4. consumer' = [consumer EXCEPT ![k] = call]
  BY <1>b, <1>1 DEF Moves, QueueInv, QueueTypeOK
<1>5. /\ execution \in [QueuedExecutions ->
           {"none", "uncommitted", "queued", "rolled back", "executing", "closed", "finished"}]
      /\ missed \in [QueuedExecutions ->
           {"nothing", "restart", "refused", "lost", "never arrived", "finish"}]
  BY DEF QueueInv, QueueTypeOK
<1>6. /\ execution[e] \in {"executing", "closed"}
      /\ execution[e] = "executing" => missed[e] \notin {"refused", "never arrived"}
  BY <1>2 DEF QueueInv, Remembered
<1> QED BY <1>a, <1>1, <1>2, <1>3, <1>4, <1>5, <1>6, HolderKeeps

\* worker-finished: the execution ends, or its end is lost and marked.
LEMMA PostFinishedKeeps ==
  ASSUME QueueInv, NEW k \in Consumers, PostFinished(k) PROVE QueueInv'
<1>a. PICK e : e = consumer[k].message
  OBVIOUS
<1>b. PICK call : call = Rested(consumer[k])
  OBVIOUS
<1> DEFINE ended == IF execution[e] = "executing" THEN "finished" ELSE execution[e]
<1>1. /\ consumer[k].step = "finish" /\ messages' = messages
      /\ \/ execution' = [execution EXCEPT ![e] = ended] /\ missed' = missed
         \/ execution' = execution /\ missed' = [missed EXCEPT ![e] = "finish"]
      /\ NextMessage(k)
  BY <1>a DEF PostFinished
<1>2. consumer[k] \in Calls /\ e \in QueuedExecutions /\ Working(e)
  BY <1>a, <1>1, Held
<1>3. call \in Calls /\ call.message = "none" /\ call.step \in {"resting", "next"}
  BY <1>b, <1>2, NextHoldsNothing
<1>4. consumer' = [consumer EXCEPT ![k] = call]
  BY <1>b, <1>1 DEF NextMessage, QueueInv, QueueTypeOK
<1>5. /\ execution \in [QueuedExecutions ->
           {"none", "uncommitted", "queued", "rolled back", "executing", "closed", "finished"}]
      /\ missed \in [QueuedExecutions ->
           {"nothing", "restart", "refused", "lost", "never arrived", "finish"}]
  BY DEF QueueInv, QueueTypeOK
<1>6. execution[e] \in {"executing", "closed"}
  BY <1>2 DEF QueueInv, Remembered
<1>7. /\ execution' \in [QueuedExecutions ->
           {"none", "uncommitted", "queued", "rolled back", "executing", "closed", "finished"}]
      /\ missed' \in [QueuedExecutions ->
           {"nothing", "restart", "refused", "lost", "never arrived", "finish"}]
      /\ \A x \in QueuedExecutions \ {e} : execution'[x] = execution[x] /\ missed'[x] = missed[x]
      /\ \/ execution'[e] \in {"closed", "finished"}
         \/ execution'[e] \in {"executing", "closed"} /\ missed'[e] = "finish"
  BY <1>1, <1>2, <1>5, <1>6
<1> QED BY <1>a, <1>1, <1>2, <1>3, <1>4, <1>7, HolderKeeps

\* Nothing moves.
LEMMA StutterKeeps == QueueInv /\ UNCHANGED queueVars => QueueInv'
<1> SUFFICES ASSUME QueueInv, UNCHANGED queueVars PROVE QueueInv'
  OBVIOUS
<1> USE DEF queueVars, QueueInv
<1>1. \A x \in QueuedExecutions :
        /\ Waits(x)' <=> Waits(x)
        /\ Starting(x)' <=> Starting(x)
        /\ Working(x)' <=> Working(x)
  BY DEF Waits, Starting, Working, HeldAt
<1>2. QueueTypeOK'
  BY DEF QueueTypeOK
<1>3. Once'
  BY <1>1 DEF Once, Distinct
<1>4. Fresh'
  BY <1>1 DEF Fresh
<1>5. Remembered'
  BY <1>1 DEF Remembered
<1> QED BY <1>2, <1>3, <1>4, <1>5

\* The invariant in the words of NoneForgotten.
LEMMA RememberedNotForgotten == Remembered => NoneForgotten
BY DEF Remembered, NoneForgotten, Contains, Waits, Starting, Working

\* However requests and consumers interleave, the in-memory queue forgets no
\* execution but by a call that did not get through, a message taken before
\* its row was committed, or a restart.
THEOREM NoneIsForgotten == QueueSpec => []NoneForgotten
<1>1. QueueInit => QueueInv
  BY QueueInitially
<1>2. QueueInv /\ [QueueNext]_queueVars => QueueInv'
  <2> SUFFICES ASSUME QueueInv, [QueueNext]_queueVars PROVE QueueInv'
    OBVIOUS
  <2>1. ASSUME NEW e \in QueuedExecutions, Enqueue(e) PROVE QueueInv'
    BY <2>1, EnqueueKeeps
  <2>2. ASSUME NEW e \in QueuedExecutions, EndRequest(e) \/ CloseExecution(e) PROVE QueueInv'
    BY <2>2, RowChangeKeeps
  <2>3. CASE ProcessRestarts
    BY <2>3, RestartKeeps
  <2>4. ASSUME NEW k \in Consumers, ConsumeAvailable(k) PROVE QueueInv'
    BY <2>4, ConsumeKeeps
  <2>5. ASSUME NEW k \in Consumers, Dequeue(k) PROVE QueueInv'
    BY <2>5, DequeueKeeps
  <2>6. ASSUME NEW k \in Consumers, PostStarted(k) PROVE QueueInv'
    BY <2>6, PostStartedKeeps
  <2>7. ASSUME NEW k \in Consumers, RunMessage(k) PROVE QueueInv'
    BY <2>7, RunKeeps
  <2>8. ASSUME NEW k \in Consumers, PostFinished(k) PROVE QueueInv'
    BY <2>8, PostFinishedKeeps
  <2>9. CASE UNCHANGED queueVars
    BY <2>9, StutterKeeps
  <2> QED BY <2>1, <2>2, <2>3, <2>4, <2>5, <2>6, <2>7, <2>8, <2>9 DEF QueueNext
<1>3. QueueInv => NoneForgotten
  BY RememberedNotForgotten DEF QueueInv
<1> QED BY <1>1, <1>2, <1>3, PTL DEF QueueSpec

-----------------------------------------------------------------------------
(***************************************************************************)
(* The schema and the containers that upgrade it                           *)
(***************************************************************************)

Processes == [phase : {"off", "upgrading", "serving"}, image : Nat, read : Nat]

MigrationsTypeOK == revision \in Nat /\ container \in [Containers -> Processes]

Forward ==
  \A c \in Containers :
    container[c].phase = "upgrading" => container[c].read <= container[c].image

MigrationsInv == MigrationsTypeOK /\ Forward /\ ServesItsSchema

\* A container's process ends, or is not there yet.
LEMMA OffIsProcess ==
  Off \in Processes /\ Off.phase = "off" /\ Off.phase # "upgrading" /\ Off.phase # "serving"
BY DEF Off, Processes

\* Releases are numbers of revisions.
LEMMA ReleasesAreNumbers == \A r \in Releases : r \in Nat
<1>1. Len(Chain) \in Nat
  BY DEF Chain
<1> QED BY <1>1, ReleasesAssumption

\* No container runs in an empty database.
LEMMA MigrationsInitially == MigrationsInit => MigrationsInv
<1> SUFFICES ASSUME MigrationsInit PROVE MigrationsInv
  OBVIOUS
<1>1. revision = 0 /\ container = [c \in Containers |-> Off]
  BY DEF MigrationsInit
<1>2. MigrationsTypeOK
  BY <1>1, OffIsProcess DEF MigrationsTypeOK
<1>3. \A c \in Containers : container[c].phase = "off"
  BY <1>1, OffIsProcess
<1> QED BY <1>2, <1>3 DEF MigrationsInv, Forward, ServesItsSchema

\* One container changes, the revision does not go back, and what the container
\* becomes is in order with it.
LEMMA ContainerKeeps ==
  ASSUME MigrationsInv, NEW c \in Containers, NEW k \in Processes,
         container' = [container EXCEPT ![c] = k], revision' \in Nat, revision <= revision',
         k.phase = "upgrading" => k.read <= k.image,
         k.phase = "serving" => k.image <= revision'
  PROVE  MigrationsInv'
<1>1. \A d \in Containers : container'[d] = IF d = c THEN k ELSE container[d]
  BY DEF MigrationsInv, MigrationsTypeOK
<1>2. MigrationsTypeOK'
  BY DEF MigrationsInv, MigrationsTypeOK
<1>3. Forward'
  BY <1>1 DEF MigrationsInv, Forward
<1>4. ServesItsSchema'
  <2> SUFFICES ASSUME NEW d \in Containers, container'[d].phase = "serving"
               PROVE  container'[d].image <= revision'
    BY DEF ServesItsSchema
  <2>1. CASE d = c
    BY <1>1, <2>1
  <2>2. CASE d # c
    <3>1. container[d].image \in Nat /\ revision \in Nat
      BY DEF MigrationsInv, MigrationsTypeOK, Processes
    <3>2. container[d].image <= revision
      BY <1>1, <2>2 DEF MigrationsInv, ServesItsSchema
    <3> QED BY <1>1, <2>2, <3>1, <3>2
  <2> QED BY <2>1, <2>2
<1> QED BY <1>2, <1>3, <1>4 DEF MigrationsInv

\* A container boots only with an image that knows the revision it reads.
LEMMA BootKeeps ==
  ASSUME MigrationsInv, NEW c \in Containers, NEW image \in Releases, BootContainer(c, image)
  PROVE  MigrationsInv'
<1>1. revision \in Nat /\ image \in Nat
  BY ReleasesAreNumbers DEF MigrationsInv, MigrationsTypeOK
<1>2. PICK k : k = [phase |-> "upgrading", image |-> image, read |-> revision]
  OBVIOUS
<1>3. k \in Processes /\ k.phase = "upgrading" /\ k.image = image /\ k.read = revision
  BY <1>1, <1>2 DEF Processes
<1>4. container' = [container EXCEPT ![c] = k] /\ revision' = revision /\ revision <= image
  BY <1>2 DEF BootContainer, Becomes
<1>5. revision' \in Nat /\ revision <= revision' /\ k.read <= k.image /\ k.phase # "serving"
  BY <1>1, <1>3, <1>4
<1> QED BY <1>3, <1>4, <1>5, ContainerKeeps

\* An upgrade that succeeds ends at the revision of its image.
LEMMA MigrateKeeps ==
  ASSUME MigrationsInv, NEW c \in Containers, Migrate(c) PROVE MigrationsInv'
<1>1. /\ revision \in Nat /\ container[c] \in Processes
      /\ container[c].phase = "upgrading" => container[c].read <= container[c].image
  BY DEF MigrationsInv, MigrationsTypeOK, Forward
<1>2. container[c].image \in Nat /\ container[c].read \in Nat
  BY <1>1 DEF Processes
<1>3. PICK k : k = [container[c] EXCEPT !.phase = "serving", !.read = 0]
  OBVIOUS
<1>4. k \in Processes /\ k.phase = "serving" /\ k.image = container[c].image
  BY <1>1, <1>3 DEF Processes
<1>5. \/ /\ revision = container[c].read /\ revision' = container[c].image
         /\ container' = [container EXCEPT ![c] = k]
      \/ revision' = revision /\ container' = [container EXCEPT ![c] = Off]
  BY <1>3 DEF Migrate, AfterFailure
<1>6. container[c].phase = "upgrading"
  BY DEF Migrate
<1>7. CASE /\ revision = container[c].read /\ revision' = container[c].image
           /\ container' = [container EXCEPT ![c] = k]
  <2>1. revision' \in Nat /\ revision <= revision' /\ k.image <= revision'
    BY <1>1, <1>2, <1>4, <1>6, <1>7
  <2>2. k.phase # "upgrading"
    BY <1>4
  <2> QED BY <1>4, <1>7, <2>1, <2>2, ContainerKeeps
<1>8. CASE revision' = revision /\ container' = [container EXCEPT ![c] = Off]
  <2>1. revision' \in Nat /\ revision <= revision'
    BY <1>1, <1>8
  <2> QED BY <1>8, <2>1, OffIsProcess, ContainerKeeps
<1> QED BY <1>5, <1>7, <1>8

\* A container that stops serves nothing.
LEMMA StopKeeps ==
  ASSUME MigrationsInv, NEW c \in Containers, StopContainer(c) PROVE MigrationsInv'
<1>1. revision' = revision /\ container' = [container EXCEPT ![c] = Off] /\ revision \in Nat
  BY DEF StopContainer, MigrationsInv, MigrationsTypeOK
<1>2. revision' \in Nat /\ revision <= revision'
  BY <1>1
<1> QED BY <1>1, <1>2, OffIsProcess, ContainerKeeps

\* An operator downgrades when nothing runs.
LEMMA DowngradeKeeps ==
  ASSUME MigrationsInv, NEW to \in 0..(Len(Chain) - 1), Downgrade(to) PROVE MigrationsInv'
<1>1. revision' = to /\ container' = container /\ \A c \in Containers : container[c] = Off
  BY DEF Downgrade
<1>2. to \in Nat
  OBVIOUS
<1>3. MigrationsTypeOK'
  BY <1>1, <1>2 DEF MigrationsInv, MigrationsTypeOK
<1>4. \A c \in Containers : container'[c].phase = "off"
  BY <1>1, OffIsProcess
<1> QED BY <1>3, <1>4 DEF MigrationsInv, Forward, ServesItsSchema

\* No step of a container or an operator leaves that.
LEMMA MigrationsInvariant == MigrationsSpec => []MigrationsInv
<1>1. MigrationsInv /\ [MigrationsNext]_migrationsVars => MigrationsInv'
  <2> SUFFICES ASSUME MigrationsInv, [MigrationsNext]_migrationsVars PROVE MigrationsInv'
    OBVIOUS
  <2>1. ASSUME NEW c \in Containers, Migrate(c) PROVE MigrationsInv'
    BY <2>1, MigrateKeeps
  <2>2. ASSUME NEW c \in Containers, StopContainer(c) PROVE MigrationsInv'
    BY <2>2, StopKeeps
  <2>3. ASSUME NEW c \in Containers, NEW r \in Releases, BootContainer(c, r)
        PROVE  MigrationsInv'
    BY <2>3, BootKeeps
  <2>4. ASSUME NEW to \in 0..(Len(Chain) - 1), Downgrade(to) PROVE MigrationsInv'
    BY <2>4, DowngradeKeeps
  <2>5. CASE UNCHANGED migrationsVars
    BY <2>5 DEF migrationsVars, MigrationsInv, MigrationsTypeOK, Forward, ServesItsSchema
  <2> QED BY <2>1, <2>2, <2>3, <2>4, <2>5 DEF MigrationsNext
<1> QED BY <1>1, MigrationsInitially, PTL DEF MigrationsSpec

\* However many containers start at once, and whichever image they run, one
\* that serves has at least the schema of its image.
THEOREM ServedByItsSchema == MigrationsSpec => []ServesItsSchema
<1>1. MigrationsInv => ServesItsSchema
  BY DEF MigrationsInv
<1> QED BY <1>1, MigrationsInvariant, PTL

\* The chain, one revision at a time.
LEMMA ChainIs ==
  /\ Len(Chain) = 10
  /\ Chain[1] = Foundation /\ Chain[2] = AssetVerifications /\ Chain[3] = AuthorizationTables
  /\ Chain[4] = EngagementTables /\ Chain[5] = ValidationExecutions /\ Chain[6] = PortsAsJson
  /\ Chain[7] = WorkerCredentials /\ Chain[8] = AuditEvents /\ Chain[9] = UsersAuth
  /\ Chain[10] = TokenVersion
BY DEF Chain

\* The tables of a revision, in order.
LEMMA TablesAre ==
  /\ Foundation.tables = <<"organizations", "projects", "assets">>
  /\ AssetVerifications.tables = <<"asset_verification_challenges">>
  /\ AuthorizationTables.tables = <<"authorizations", "authorization_scopes">>
  /\ EngagementTables.tables = <<"engagements", "engagement_scopes">>
  /\ ValidationExecutions.tables = <<"validation_executions", "validation_step_results">>
  /\ PortsAsJson.tables = <<>>
  /\ WorkerCredentials.tables = <<"validation_worker_credentials">>
  /\ AuditEvents.tables = <<"audit_events">>
  /\ UsersAuth.tables = <<"users">>
  /\ TokenVersion.tables = <<>>
<1>1. Foundation.tables = <<"organizations", "projects", "assets">>
  BY DEF Foundation, Creating
<1>2. AssetVerifications.tables = <<"asset_verification_challenges">>
  BY DEF AssetVerifications, Creating
<1>3. AuthorizationTables.tables = <<"authorizations", "authorization_scopes">>
  BY DEF AuthorizationTables, Creating
<1>4. EngagementTables.tables = <<"engagements", "engagement_scopes">>
  BY DEF EngagementTables, Creating
<1>5. ValidationExecutions.tables = <<"validation_executions", "validation_step_results">>
  BY DEF ValidationExecutions, Creating
<1>6. PortsAsJson.tables = <<>>
  BY DEF PortsAsJson, Replacing
<1>7. WorkerCredentials.tables = <<"validation_worker_credentials">>
  BY DEF WorkerCredentials, Creating
<1>8. AuditEvents.tables = <<"audit_events">>
  BY DEF AuditEvents, Creating
<1>9. UsersAuth.tables = <<"users">>
  BY DEF UsersAuth, Creating
<1>10. TokenVersion.tables = <<>>
  BY DEF TokenVersion, Replacing
<1> QED BY <1>1, <1>2, <1>3, <1>4, <1>5, <1>6, <1>7, <1>8, <1>9, <1>10

\* Short lists as sets.
LEMMA OneTable ==
  ASSUME NEW s, NEW a, s = <<a>> PROVE Range(s) = {a}
<1>1. DOMAIN s = {1}
  OBVIOUS
<1> QED BY <1>1 DEF Range

LEMMA TwoTables ==
  ASSUME NEW s, NEW a, NEW b, s = <<a, b>> PROVE Range(s) = {a, b}
<1>1. DOMAIN s = {1, 2}
  OBVIOUS
<1> QED BY <1>1 DEF Range

\* A revision's tables, whatever their order.
LEMMA RevisionTables ==
  /\ Range(Foundation.tables) = {"organizations", "projects", "assets"}
  /\ Range(AssetVerifications.tables) = {"asset_verification_challenges"}
  /\ Range(AuthorizationTables.tables) = {"authorizations", "authorization_scopes"}
  /\ Range(EngagementTables.tables) = {"engagements", "engagement_scopes"}
  /\ Range(ValidationExecutions.tables) = {"validation_executions", "validation_step_results"}
  /\ Range(PortsAsJson.tables) = {}
  /\ Range(WorkerCredentials.tables) = {"validation_worker_credentials"}
  /\ Range(AuditEvents.tables) = {"audit_events"}
  /\ Range(UsersAuth.tables) = {"users"}
  /\ Range(TokenVersion.tables) = {}
<1>1. Range(Foundation.tables) = {"organizations", "projects", "assets"}
  <2>1. DOMAIN Foundation.tables = {1, 2, 3}
    BY TablesAre
  <2> QED BY <2>1, TablesAre DEF Range
<1>2. Range(AssetVerifications.tables) = {"asset_verification_challenges"}
  BY TablesAre, OneTable
<1>3. Range(AuthorizationTables.tables) = {"authorizations", "authorization_scopes"}
  BY TablesAre, TwoTables
<1>4. Range(EngagementTables.tables) = {"engagements", "engagement_scopes"}
  BY TablesAre, TwoTables
<1>5. Range(ValidationExecutions.tables) = {"validation_executions", "validation_step_results"}
  BY TablesAre, TwoTables
<1>6. Range(PortsAsJson.tables) = {}
  BY TablesAre DEF Range
<1>7. Range(WorkerCredentials.tables) = {"validation_worker_credentials"}
  BY TablesAre, OneTable
<1>8. Range(AuditEvents.tables) = {"audit_events"}
  BY TablesAre, OneTable
<1>9. Range(UsersAuth.tables) = {"users"}
  BY TablesAre, OneTable
<1>10. Range(TokenVersion.tables) = {}
  BY TablesAre DEF Range
<1> QED BY <1>1, <1>2, <1>3, <1>4, <1>5, <1>6, <1>7, <1>8, <1>9, <1>10

\* What is declared grows by the revision's own.
LEMMA DeclaredGrows ==
  /\ Declared(0).tables = {} /\ Declared(0).types = {}
  /\ \A n \in 1..10 :
       /\ Declared(n).tables = Declared(n - 1).tables \cup Range(Chain[n].tables)
       /\ Declared(n).types = Declared(n - 1).types \cup Chain[n].enums
<1>1. \A n \in 1..10 : 1..n = (1..(n - 1)) \cup {n}
  OBVIOUS
<1>2. ASSUME NEW n \in 1..10
      PROVE  UNION {Range(Chain[i].tables) : i \in 1..n}
               = (UNION {Range(Chain[i].tables) : i \in 1..(n - 1)}) \cup Range(Chain[n].tables)
  BY <1>1
<1>3. ASSUME NEW n \in 1..10
      PROVE  UNION {Chain[i].enums : i \in 1..n}
               = (UNION {Chain[i].enums : i \in 1..(n - 1)}) \cup Chain[n].enums
  BY <1>1
<1>4. Declared(0).tables = {} /\ Declared(0).types = {}
  BY DEF Declared
<1> QED BY <1>2, <1>3, <1>4 DEF Declared

\* The same, revision by revision.
LEMMA DeclaredStep ==
  /\ /\ Declared(1).tables = Declared(0).tables \cup Range(Foundation.tables)
     /\ Declared(1).types = Declared(0).types \cup Foundation.enums
  /\ /\ Declared(2).tables = Declared(1).tables \cup Range(AssetVerifications.tables)
     /\ Declared(2).types = Declared(1).types \cup AssetVerifications.enums
  /\ /\ Declared(3).tables = Declared(2).tables \cup Range(AuthorizationTables.tables)
     /\ Declared(3).types = Declared(2).types \cup AuthorizationTables.enums
  /\ /\ Declared(4).tables = Declared(3).tables \cup Range(EngagementTables.tables)
     /\ Declared(4).types = Declared(3).types \cup EngagementTables.enums
  /\ /\ Declared(5).tables = Declared(4).tables \cup Range(ValidationExecutions.tables)
     /\ Declared(5).types = Declared(4).types \cup ValidationExecutions.enums
  /\ /\ Declared(6).tables = Declared(5).tables \cup Range(PortsAsJson.tables)
     /\ Declared(6).types = Declared(5).types \cup PortsAsJson.enums
  /\ /\ Declared(7).tables = Declared(6).tables \cup Range(WorkerCredentials.tables)
     /\ Declared(7).types = Declared(6).types \cup WorkerCredentials.enums
  /\ /\ Declared(8).tables = Declared(7).tables \cup Range(AuditEvents.tables)
     /\ Declared(8).types = Declared(7).types \cup AuditEvents.enums
  /\ /\ Declared(9).tables = Declared(8).tables \cup Range(UsersAuth.tables)
     /\ Declared(9).types = Declared(8).types \cup UsersAuth.enums
  /\ /\ Declared(10).tables = Declared(9).tables \cup Range(TokenVersion.tables)
     /\ Declared(10).types = Declared(9).types \cup TokenVersion.enums
<1>1. /\ Declared(1).tables = Declared(0).tables \cup Range(Foundation.tables)
      /\ Declared(1).types = Declared(0).types \cup Foundation.enums
  BY DeclaredGrows, ChainIs, 1 \in 1..10, 1 - 1 = 0
<1>2. /\ Declared(2).tables = Declared(1).tables \cup Range(AssetVerifications.tables)
      /\ Declared(2).types = Declared(1).types \cup AssetVerifications.enums
  BY DeclaredGrows, ChainIs, 2 \in 1..10, 2 - 1 = 1
<1>3. /\ Declared(3).tables = Declared(2).tables \cup Range(AuthorizationTables.tables)
      /\ Declared(3).types = Declared(2).types \cup AuthorizationTables.enums
  BY DeclaredGrows, ChainIs, 3 \in 1..10, 3 - 1 = 2
<1>4. /\ Declared(4).tables = Declared(3).tables \cup Range(EngagementTables.tables)
      /\ Declared(4).types = Declared(3).types \cup EngagementTables.enums
  BY DeclaredGrows, ChainIs, 4 \in 1..10, 4 - 1 = 3
<1>5. /\ Declared(5).tables = Declared(4).tables \cup Range(ValidationExecutions.tables)
      /\ Declared(5).types = Declared(4).types \cup ValidationExecutions.enums
  BY DeclaredGrows, ChainIs, 5 \in 1..10, 5 - 1 = 4
<1>6. /\ Declared(6).tables = Declared(5).tables \cup Range(PortsAsJson.tables)
      /\ Declared(6).types = Declared(5).types \cup PortsAsJson.enums
  BY DeclaredGrows, ChainIs, 6 \in 1..10, 6 - 1 = 5
<1>7. /\ Declared(7).tables = Declared(6).tables \cup Range(WorkerCredentials.tables)
      /\ Declared(7).types = Declared(6).types \cup WorkerCredentials.enums
  BY DeclaredGrows, ChainIs, 7 \in 1..10, 7 - 1 = 6
<1>8. /\ Declared(8).tables = Declared(7).tables \cup Range(AuditEvents.tables)
      /\ Declared(8).types = Declared(7).types \cup AuditEvents.enums
  BY DeclaredGrows, ChainIs, 8 \in 1..10, 8 - 1 = 7
<1>9. /\ Declared(9).tables = Declared(8).tables \cup Range(UsersAuth.tables)
      /\ Declared(9).types = Declared(8).types \cup UsersAuth.enums
  BY DeclaredGrows, ChainIs, 9 \in 1..10, 9 - 1 = 8
<1>10. /\ Declared(10).tables = Declared(9).tables \cup Range(TokenVersion.tables)
      /\ Declared(10).types = Declared(9).types \cup TokenVersion.enums
  BY DeclaredGrows, ChainIs, 10 \in 1..10, 10 - 1 = 9
<1> QED BY <1>1, <1>2, <1>3, <1>4, <1>5, <1>6, <1>7, <1>8, <1>9, <1>10

\* The tables that are there.
LEMMA DeclaredTables ==
  /\ Declared(1).tables = {"organizations", "projects", "assets"}
  /\ Declared(2).tables = Declared(1).tables \cup {"asset_verification_challenges"}
  /\ Declared(3).tables = Declared(2).tables \cup {"authorizations", "authorization_scopes"}
  /\ Declared(4).tables = Declared(3).tables \cup {"engagements", "engagement_scopes"}
  /\ Declared(5).tables =
       Declared(4).tables \cup {"validation_executions", "validation_step_results"}
  /\ Declared(6).tables = Declared(5).tables
  /\ Declared(7).tables = Declared(6).tables \cup {"validation_worker_credentials"}
  /\ Declared(8).tables = Declared(7).tables \cup {"audit_events"}
  /\ Declared(9).tables = Declared(8).tables \cup {"users"}
  /\ Declared(10).tables = Declared(9).tables
BY DeclaredStep, RevisionTables, DeclaredGrows

\* The types that are there.
LEMMA Enums ==
  /\ Foundation.enums =
       {"organization_status", "project_status", "asset_type", "asset_environment",
        "asset_criticality", "asset_status", "verification_method"}
  /\ AssetVerifications.enums = {"challenge_method", "challenge_status"}
  /\ AuthorizationTables.enums = {"authorization_status", "risk_tier"}
  /\ EngagementTables.enums = {"engagement_status"}
  /\ ValidationExecutions.enums = {"execution_status", "execution_outcome", "step_status"}
  /\ PortsAsJson.enums = {} /\ WorkerCredentials.enums = {} /\ AuditEvents.enums = {}
  /\ UsersAuth.enums = {} /\ TokenVersion.enums = {}
BY DEF Foundation, AssetVerifications, AuthorizationTables, EngagementTables,
   ValidationExecutions, PortsAsJson, WorkerCredentials, AuditEvents, UsersAuth, TokenVersion,
   Creating, Replacing

\* The types of each table's columns.
LEMMA UsesOfTables ==
  /\ Uses("organizations") = {"organization_status"}
  /\ Uses("projects") = {"project_status"}
  /\ Uses("assets") = {"asset_type", "asset_environment", "asset_criticality",
                       "asset_status", "verification_method"}
  /\ Uses("asset_verification_challenges") = {"challenge_method", "challenge_status"}
  /\ Uses("authorizations") = {"authorization_status", "risk_tier"}
  /\ Uses("authorization_scopes") = {}
  /\ Uses("engagements") = {"engagement_status", "risk_tier"}
  /\ Uses("engagement_scopes") = {}
  /\ Uses("validation_executions") = {"execution_status", "execution_outcome", "risk_tier"}
  /\ Uses("validation_step_results") = {"step_status"}
  /\ Uses("validation_worker_credentials") = {} /\ Uses("audit_events") = {}
  /\ Uses("users") = {}
BY DEF Uses

\* The tables that each table's foreign keys name.
LEMMA RefersOfTables ==
  /\ Refers("organizations") = {} /\ Refers("users") = {}
  /\ Refers("projects") = {"organizations"} /\ Refers("audit_events") = {"organizations"}
  /\ Refers("assets") = {"organizations", "projects"}
  /\ Refers("asset_verification_challenges") = {"organizations", "projects", "assets"}
  /\ Refers("authorizations") = {"organizations", "projects"}
  /\ Refers("authorization_scopes") = {"organizations", "authorizations", "assets"}
  /\ Refers("engagements") = {"organizations", "projects", "authorizations"}
  /\ Refers("engagement_scopes") =
       {"organizations", "engagements", "assets", "authorization_scopes"}
  /\ Refers("validation_executions") =
       {"organizations", "projects", "assets", "authorizations",
        "authorization_scopes", "engagements", "engagement_scopes"}
  /\ Refers("validation_step_results") = {"organizations", "validation_executions"}
  /\ Refers("validation_worker_credentials") = {"organizations", "validation_executions"}
BY DEF Refers

\* Tables are numbered from 1.
LEMMA TablesAreListed ==
  \A n \in 1..10 :
    Len(Chain[n].tables) \in Nat /\ DOMAIN Chain[n].tables = 1..Len(Chain[n].tables)
<1>1. \A n \in 1..10 : n \in {1, 2, 3, 4, 5, 6, 7, 8, 9, 10}
  OBVIOUS
<1>2. Len(Foundation.tables) = 3 /\ DOMAIN Foundation.tables = 1..3
  BY TablesAre
<1>3. Len(AssetVerifications.tables) = 1 /\ DOMAIN AssetVerifications.tables = 1..1
  BY TablesAre
<1>4. Len(AuthorizationTables.tables) = 2 /\ DOMAIN AuthorizationTables.tables = 1..2
  BY TablesAre
<1>5. Len(EngagementTables.tables) = 2 /\ DOMAIN EngagementTables.tables = 1..2
  BY TablesAre
<1>6. Len(ValidationExecutions.tables) = 2 /\ DOMAIN ValidationExecutions.tables = 1..2
  BY TablesAre
<1>7. Len(PortsAsJson.tables) = 0 /\ DOMAIN PortsAsJson.tables = 1..0
  BY TablesAre
<1>8. Len(WorkerCredentials.tables) = 1 /\ DOMAIN WorkerCredentials.tables = 1..1
  BY TablesAre
<1>9. Len(AuditEvents.tables) = 1 /\ DOMAIN AuditEvents.tables = 1..1
  BY TablesAre
<1>10. Len(UsersAuth.tables) = 1 /\ DOMAIN UsersAuth.tables = 1..1
  BY TablesAre
<1>11. Len(TokenVersion.tables) = 0 /\ DOMAIN TokenVersion.tables = 1..0
  BY TablesAre
<1> QED BY <1>1, <1>2, <1>3, <1>4, <1>5, <1>6, <1>7, <1>8, <1>9, <1>10, <1>11, ChainIs

\* A revision's tables use the types it declares; two of them also risk_tier.
LEMMA RevisionUses ==
  /\ Using({}) = {}
  /\ \A n \in 1..10 :
       Using(Range(Chain[n].tables)) =
         Chain[n].enums \cup (IF n \in {4, 5} THEN {"risk_tier"} ELSE {})
<1>0. Using({}) = {}
  BY DEF Using
<1>1. Using(Range(Foundation.tables)) = Foundation.enums
  BY RevisionTables, UsesOfTables, Enums DEF Using
<1>2. Using(Range(AssetVerifications.tables)) = AssetVerifications.enums
  BY RevisionTables, UsesOfTables, Enums DEF Using
<1>3. Using(Range(AuthorizationTables.tables)) = AuthorizationTables.enums
  BY RevisionTables, UsesOfTables, Enums DEF Using
<1>4. Using(Range(EngagementTables.tables)) = EngagementTables.enums \cup {"risk_tier"}
  BY RevisionTables, UsesOfTables, Enums DEF Using
<1>5. Using(Range(ValidationExecutions.tables)) = ValidationExecutions.enums \cup {"risk_tier"}
  BY RevisionTables, UsesOfTables, Enums DEF Using
<1>6. Using(Range(PortsAsJson.tables)) = PortsAsJson.enums
  BY RevisionTables, UsesOfTables, Enums DEF Using
<1>7. Using(Range(WorkerCredentials.tables)) = WorkerCredentials.enums
  BY RevisionTables, UsesOfTables, Enums DEF Using
<1>8. Using(Range(AuditEvents.tables)) = AuditEvents.enums
  BY RevisionTables, UsesOfTables, Enums DEF Using
<1>9. Using(Range(UsersAuth.tables)) = UsersAuth.enums
  BY RevisionTables, UsesOfTables, Enums DEF Using
<1>10. Using(Range(TokenVersion.tables)) = TokenVersion.enums
  BY RevisionTables, UsesOfTables, Enums DEF Using
<1>11. \A n \in 1..10 : n \in {1, 2, 3, 4, 5, 6, 7, 8, 9, 10}
  OBVIOUS
<1> QED BY <1>0, <1>1, <1>2, <1>3, <1>4, <1>5, <1>6, <1>7, <1>8, <1>9, <1>10, <1>11, ChainIs

\* Whether a table and what it refers to are where they belong.
Placed(n) ==
  \A i \in DOMAIN Chain[n].tables :
    LET t == Chain[n].tables[i]
        there == Declared(n - 1).tables \cup {Chain[n].tables[j] : j \in 1..(i - 1)}
    IN  t \notin there /\ Refers(t) \subseteq there

\* A revision without tables, with one, with two.
LEMMA NonePlaced ==
  ASSUME NEW n \in 1..10, Chain[n].tables = <<>> PROVE Placed(n)
BY DEF Placed

LEMMA OnePlaced ==
  ASSUME NEW n \in 1..10, NEW a, Chain[n].tables = <<a>>,
         a \notin Declared(n - 1).tables, Refers(a) \subseteq Declared(n - 1).tables
  PROVE  Placed(n)
BY DEF Placed

LEMMA TwoPlaced ==
  ASSUME NEW n \in 1..10, NEW a, NEW b, Chain[n].tables = <<a, b>>,
         a \notin Declared(n - 1).tables, Refers(a) \subseteq Declared(n - 1).tables,
         b \notin Declared(n - 1).tables \cup {a},
         Refers(b) \subseteq Declared(n - 1).tables \cup {a}
  PROVE  Placed(n)
<1>1. DOMAIN Chain[n].tables = {1, 2}
  OBVIOUS
<1>2. /\ {Chain[n].tables[j] : j \in 1..(1 - 1)} = {}
      /\ {Chain[n].tables[j] : j \in 1..(2 - 1)} = {a}
  <2>1. 1..(1 - 1) = {} /\ 1..(2 - 1) = {1}
    OBVIOUS
  <2> QED BY <2>1
<1> QED BY <1>1, <1>2 DEF Placed

\* Every revision creates its tables where nothing is in their way.
LEMMA EachIsPlaced == \A n \in 1..10 : Placed(n)
<1>1. Placed(1)
  <2>1. Chain[1].tables = <<"organizations", "projects", "assets">>
    BY ChainIs, TablesAre
  <2>2. DOMAIN Chain[1].tables = {1, 2, 3}
    BY <2>1
  <2>3. 1..(1 - 1) = {} /\ 1..(2 - 1) = {1} /\ 1..(3 - 1) = {1, 2} /\ 1 - 1 = 0
    OBVIOUS
  <2> QED BY <2>1, <2>2, <2>3, DeclaredGrows, RefersOfTables DEF Placed
<1>2. Placed(2)
  <2>1. Chain[2].tables = <<"asset_verification_challenges">>
    BY ChainIs, TablesAre
  <2>2. Declared(2 - 1).tables = Declared(1).tables
    OBVIOUS
  <2>3. /\ "asset_verification_challenges" \notin Declared(1).tables
        /\ Refers("asset_verification_challenges") \subseteq Declared(1).tables
    BY DeclaredTables, RefersOfTables
  <2> QED BY <2>1, <2>2, <2>3, OnePlaced
<1>3. Placed(3)
  <2>1. Chain[3].tables = <<"authorizations", "authorization_scopes">>
    BY ChainIs, TablesAre
  <2>2. Declared(3 - 1).tables = Declared(2).tables
    OBVIOUS
  <2>3. /\ "authorizations" \notin Declared(2).tables
        /\ Refers("authorizations") \subseteq Declared(2).tables
        /\ "authorization_scopes" \notin Declared(2).tables \cup {"authorizations"}
        /\ Refers("authorization_scopes") \subseteq Declared(2).tables \cup {"authorizations"}
    BY DeclaredTables, RefersOfTables
  <2> QED BY <2>1, <2>2, <2>3, TwoPlaced
<1>4. Placed(4)
  <2>1. Chain[4].tables = <<"engagements", "engagement_scopes">>
    BY ChainIs, TablesAre
  <2>2. Declared(4 - 1).tables = Declared(3).tables
    OBVIOUS
  <2>3. /\ "engagements" \notin Declared(3).tables
        /\ Refers("engagements") \subseteq Declared(3).tables
        /\ "engagement_scopes" \notin Declared(3).tables \cup {"engagements"}
        /\ Refers("engagement_scopes") \subseteq Declared(3).tables \cup {"engagements"}
    BY DeclaredTables, RefersOfTables
  <2> QED BY <2>1, <2>2, <2>3, TwoPlaced
<1>5. Placed(5)
  <2>1. Chain[5].tables = <<"validation_executions", "validation_step_results">>
    BY ChainIs, TablesAre
  <2>2. Declared(5 - 1).tables = Declared(4).tables
    OBVIOUS
  <2>3. /\ "validation_executions" \notin Declared(4).tables
        /\ Refers("validation_executions") \subseteq Declared(4).tables
        /\ "validation_step_results" \notin Declared(4).tables \cup {"validation_executions"}
        /\ Refers("validation_step_results") \subseteq Declared(4).tables \cup {"validation_executions"}
    BY DeclaredTables, RefersOfTables
  <2> QED BY <2>1, <2>2, <2>3, TwoPlaced
<1>6. Placed(6)
  <2>1. Chain[6].tables = <<>>
    BY ChainIs, TablesAre
  <2> QED BY <2>1, NonePlaced
<1>7. Placed(7)
  <2>1. Chain[7].tables = <<"validation_worker_credentials">>
    BY ChainIs, TablesAre
  <2>2. Declared(7 - 1).tables = Declared(6).tables
    OBVIOUS
  <2>3. /\ "validation_worker_credentials" \notin Declared(6).tables
        /\ Refers("validation_worker_credentials") \subseteq Declared(6).tables
    BY DeclaredTables, RefersOfTables
  <2> QED BY <2>1, <2>2, <2>3, OnePlaced
<1>8. Placed(8)
  <2>1. Chain[8].tables = <<"audit_events">>
    BY ChainIs, TablesAre
  <2>2. Declared(8 - 1).tables = Declared(7).tables
    OBVIOUS
  <2>3. /\ "audit_events" \notin Declared(7).tables
        /\ Refers("audit_events") \subseteq Declared(7).tables
    BY DeclaredTables, RefersOfTables
  <2> QED BY <2>1, <2>2, <2>3, OnePlaced
<1>9. Placed(9)
  <2>1. Chain[9].tables = <<"users">>
    BY ChainIs, TablesAre
  <2>2. Declared(9 - 1).tables = Declared(8).tables
    OBVIOUS
  <2>3. /\ "users" \notin Declared(8).tables /\ Refers("users") \subseteq Declared(8).tables
    BY DeclaredTables, RefersOfTables
  <2> QED BY <2>1, <2>2, <2>3, OnePlaced
<1>10. Placed(10)
  <2>1. Chain[10].tables = <<>>
    BY ChainIs, TablesAre
  <2> QED BY <2>1, NonePlaced
<1>11. \A n \in 1..10 : n \in {1, 2, 3, 4, 5, 6, 7, 8, 9, 10}
  OBVIOUS
<1> QED BY <1>1, <1>2, <1>3, <1>4, <1>5, <1>6, <1>7, <1>8, <1>9, <1>10, <1>11

\* A set of numbers has a least one.
LEMMA LeastNumber ==
  ASSUME NEW S, S \subseteq Nat, S # {} PROVE \E n \in S : \A m \in S : ~(m < n)
<1>1. IsWellFoundedOn(OpToRel(<, Nat), Nat)
  BY NatLessThanWellFounded
<1>2. PICK n \in S : \A m \in S : <<m, n>> \notin OpToRel(<, Nat)
  BY <1>1, WFMin
<1> QED BY <1>2 DEF OpToRel

\* Induction over a range of revisions, upwards.
LEMMA Climbing ==
  ASSUME NEW low \in Nat, NEW high \in Nat, NEW S, low \in S,
         \A n \in low..high : n > low /\ n - 1 \in S => n \in S
  PROVE  low..high \subseteq S
<1> SUFFICES ASSUME (low..high) \ S # {} PROVE FALSE
  OBVIOUS
<1> DEFINE Lacking == {n \in Nat : n \in low..high /\ n \notin S}
<1>1. Lacking \subseteq Nat /\ Lacking # {}
  OBVIOUS
<1>2. PICK n \in Lacking : \A m \in Lacking : ~(m < n)
  BY <1>1, LeastNumber
<1>3. n > low /\ n - 1 \in low..high
  OBVIOUS
<1>4. n - 1 \in S
  BY <1>2, <1>3
<1> QED BY <1>3, <1>4

\* And downwards.
LEMMA Descending ==
  ASSUME NEW low \in Nat, NEW high \in Nat, NEW S, high \in S,
         \A n \in low..high : n < high /\ n + 1 \in S => n \in S
  PROVE  low..high \subseteq S
<1> DEFINE T == {k \in Nat : high - k \in S}
<1>1. 0 \in T
  OBVIOUS
<1>2. ASSUME NEW k \in 0..(high - low), k > 0, k - 1 \in T PROVE k \in T
  <2>1. /\ high - k \in low..high /\ high - k < high
        /\ (high - k) + 1 = high - (k - 1) /\ high - (k - 1) \in S
    BY <1>2
  <2>2. high - k \in S
    BY <2>1
  <2> QED BY <2>2
<1> HIDE DEF T
<1>3. CASE high < low
  BY <1>3
<1>4. CASE low <= high
  <2>1. 0..(high - low) \subseteq T
    <3>1. high - low \in Nat
      BY <1>4
    <3> QED BY <1>1, <1>2, <3>1, Climbing
  <2>2. ASSUME NEW n \in low..high PROVE n \in S
    <3>1. high - n \in 0..(high - low) /\ high - (high - n) = n
      OBVIOUS
    <3>2. high - n \in T
      BY <2>1, <3>1
    <3> QED BY <3>1, <3>2 DEF T
  <2> QED BY <2>2
<1> QED BY <1>3, <1>4

\* risk_tier comes with the third revision.
LEMMA RiskTier == \A n \in 3..10 : "risk_tier" \in Declared(n).types
<1>1. \A n \in 3..10 : n \in {3, 4, 5, 6, 7, 8, 9, 10}
  OBVIOUS
<1> QED BY <1>1, DeclaredStep, Enums

\* What the tables of a revision use, and refer to, is there.
LEMMA DeclaredIsWhole ==
  \A n \in 0..10 :
    /\ Using(Declared(n).tables) \subseteq Declared(n).types
    /\ \A x \in Declared(n).tables : Refers(x) \subseteq Declared(n).tables
<1> DEFINE Whole(n) ==
      /\ Using(Declared(n).tables) \subseteq Declared(n).types
      /\ \A x \in Declared(n).tables : Refers(x) \subseteq Declared(n).tables
    S == {n \in 0..10 : Whole(n)}
<1>1. 0 \in S
  <2>1. Declared(0).tables = {} /\ Using(Declared(0).tables) = {}
    BY DeclaredGrows, RevisionUses
  <2> QED BY <2>1
<1>2. ASSUME NEW n \in 0..10, n > 0, n - 1 \in S PROVE n \in S
  <2> DEFINE own == Range(Chain[n].tables)
  <2>1. n \in 1..10 /\ Whole(n - 1)
    BY <1>2
  <2>2. /\ Declared(n).tables = Declared(n - 1).tables \cup own
        /\ Declared(n).types = Declared(n - 1).types \cup Chain[n].enums
    BY <2>1, DeclaredGrows
  <2>3. Using(Declared(n).tables) = Using(Declared(n - 1).tables) \cup Using(own)
    BY <2>2 DEF Using
  <2>4. n \in {4, 5} => "risk_tier" \in Declared(n - 1).types
    BY RiskTier, <2>1
  <2>5. Using(own) \subseteq Declared(n).types
    BY <2>1, <2>2, <2>4, RevisionUses
  <2>6. \A x \in own : Refers(x) \subseteq Declared(n).tables
    <3> SUFFICES ASSUME NEW x \in own PROVE Refers(x) \subseteq Declared(n).tables
      OBVIOUS
    <3>1. PICK i \in DOMAIN Chain[n].tables : x = Chain[n].tables[i]
      BY DEF Range
    <3>2. Refers(x) \subseteq
            Declared(n - 1).tables \cup {Chain[n].tables[j] : j \in 1..(i - 1)}
      BY <2>1, <3>1, EachIsPlaced DEF Placed
    <3>3. {Chain[n].tables[j] : j \in 1..(i - 1)} \subseteq own
      <4>0. PICK count \in Nat : DOMAIN Chain[n].tables = 1..count
        BY <2>1, TablesAreListed
      <4>1. \A j \in 1..(i - 1) : j \in 1..count
        BY <4>0
      <4> QED BY <4>0, <4>1 DEF Range
    <3> QED BY <2>2, <3>2, <3>3
  <2> QED BY <2>1, <2>2, <2>3, <2>5, <2>6
<1> HIDE DEF Whole
<1>3. 0..10 \subseteq S
  BY <1>1, <1>2, Climbing
<1> QED BY <1>3 DEF Whole

\* The columns, which are few.
LEMMA ColumnsOfTables ==
  /\ Holding(Range(Foundation.tables)) = {}
  /\ Holding(Range(AssetVerifications.tables)) = {}
  /\ Holding(Range(AuthorizationTables.tables)) = {"allowed_ports as text"}
  /\ Holding(Range(EngagementTables.tables)) = {}
  /\ Holding(Range(ValidationExecutions.tables)) = {}
  /\ Holding(Range(PortsAsJson.tables)) = {}
  /\ Holding(Range(WorkerCredentials.tables)) = {}
  /\ Holding(Range(AuditEvents.tables)) = {}
  /\ Holding(Range(UsersAuth.tables)) = {}
  /\ Holding(Range(TokenVersion.tables)) = {}
BY RevisionTables DEF Holding, Columns

\* The columns that are there.
LEMMA DeclaredColumns ==
  /\ Declared(0).columns = {}
  /\ Declared(1).columns = {}
  /\ Declared(2).columns = {}
  /\ Declared(3).columns = {"allowed_ports as text"}
  /\ Declared(4).columns = {"allowed_ports as text"}
  /\ Declared(5).columns = {"allowed_ports as text"}
  /\ Declared(6).columns = {"allowed_ports as json"}
  /\ Declared(7).columns = {"allowed_ports as json"}
  /\ Declared(8).columns = {"allowed_ports as json"}
  /\ Declared(9).columns = {"allowed_ports as json"}
  /\ Declared(10).columns = {"allowed_ports as json", "token_version"}
<1>1. Declared(0).columns = {}
  BY DEF Declared
<1>2. Declared(1).columns = {}
  BY DEF Declared
<1>3. Declared(2).columns = {}
  BY DEF Declared
<1>4. Declared(3).columns = {"allowed_ports as text"}
  BY DEF Declared
<1>5. Declared(4).columns = {"allowed_ports as text"}
  BY DEF Declared
<1>6. Declared(5).columns = {"allowed_ports as text"}
  BY DEF Declared
<1>7. Declared(6).columns = {"allowed_ports as json"}
  BY DEF Declared
<1>8. Declared(7).columns = {"allowed_ports as json"}
  BY DEF Declared
<1>9. Declared(8).columns = {"allowed_ports as json"}
  BY DEF Declared
<1>10. Declared(9).columns = {"allowed_ports as json"}
  BY DEF Declared
<1>11. Declared(10).columns = {"allowed_ports as json", "token_version"}
  BY DEF Declared
<1> QED BY <1>1, <1>2, <1>3, <1>4, <1>5, <1>6, <1>7, <1>8, <1>9, <1>10, <1>11

\* The columns that two revisions replace or add.
LEMMA Replacements ==
  /\ PortsAsJson.gone = {"allowed_ports as text"} /\ PortsAsJson.new = {"allowed_ports as json"}
  /\ TokenVersion.gone = {} /\ TokenVersion.new = {"token_version"}
  /\ \A r \in {Foundation, AssetVerifications, AuthorizationTables, EngagementTables,
               ValidationExecutions, WorkerCredentials, AuditEvents, UsersAuth} :
       r.gone = {} /\ r.new = {}
BY DEF Foundation, AssetVerifications, AuthorizationTables, EngagementTables,
   ValidationExecutions, PortsAsJson, WorkerCredentials, AuditEvents, UsersAuth, TokenVersion,
   Creating, Replacing

\* Whether the columns are there that a revision replaces, and there after it,
\* and the same back.
Fits(r, own, before, after) ==
  /\ r.gone \subseteq before \cup own /\ r.new \cap (before \cup own) = {}
  /\ ((before \cup own) \ r.gone) \cup r.new = after
  /\ r.new \subseteq after /\ r.gone \cap after = {}
  /\ ((after \ r.new) \cup r.gone) \ own = before

ColumnsFit(n) ==
  Fits(Chain[n], Holding(Range(Chain[n].tables)), Declared(n - 1).columns, Declared(n).columns)

\* They do, for every revision.
LEMMA AllColumnsFit == \A n \in 1..10 : ColumnsFit(n)
<1>11. \A n \in 1..10 : n \in {1, 2, 3, 4, 5, 6, 7, 8, 9, 10}
  OBVIOUS
<1>12. /\ 1 - 1 = 0 /\ 2 - 1 = 1 /\ 3 - 1 = 2 /\ 4 - 1 = 3 /\ 5 - 1 = 4
       /\ 6 - 1 = 5 /\ 7 - 1 = 6 /\ 8 - 1 = 7 /\ 9 - 1 = 8 /\ 10 - 1 = 9
  OBVIOUS
<1>1. ColumnsFit(1)
  <2>1. Fits(Foundation, {}, Declared(0).columns, Declared(1).columns)
    BY DeclaredColumns, Replacements DEF Fits
  <2> QED BY <1>12, <2>1, ColumnsOfTables, ChainIs DEF ColumnsFit
<1>2. ColumnsFit(2)
  <2>1. Fits(AssetVerifications, {}, Declared(1).columns, Declared(2).columns)
    BY DeclaredColumns, Replacements DEF Fits
  <2> QED BY <1>12, <2>1, ColumnsOfTables, ChainIs DEF ColumnsFit
<1>3. ColumnsFit(3)
  <2>1. Fits(AuthorizationTables, {"allowed_ports as text"},
             Declared(2).columns, Declared(3).columns)
    BY DeclaredColumns, Replacements DEF Fits
  <2> QED BY <1>12, <2>1, ColumnsOfTables, ChainIs DEF ColumnsFit
<1>4. ColumnsFit(4)
  <2>1. Fits(EngagementTables, {}, Declared(3).columns, Declared(4).columns)
    BY DeclaredColumns, Replacements DEF Fits
  <2> QED BY <1>12, <2>1, ColumnsOfTables, ChainIs DEF ColumnsFit
<1>5. ColumnsFit(5)
  <2>1. Fits(ValidationExecutions, {}, Declared(4).columns, Declared(5).columns)
    BY DeclaredColumns, Replacements DEF Fits
  <2> QED BY <1>12, <2>1, ColumnsOfTables, ChainIs DEF ColumnsFit
<1>6. ColumnsFit(6)
  <2>1. Fits(PortsAsJson, {}, Declared(5).columns, Declared(6).columns)
    BY DeclaredColumns, Replacements DEF Fits
  <2> QED BY <1>12, <2>1, ColumnsOfTables, ChainIs DEF ColumnsFit
<1>7. ColumnsFit(7)
  <2>1. Fits(WorkerCredentials, {}, Declared(6).columns, Declared(7).columns)
    BY DeclaredColumns, Replacements DEF Fits
  <2> QED BY <1>12, <2>1, ColumnsOfTables, ChainIs DEF ColumnsFit
<1>8. ColumnsFit(8)
  <2>1. Fits(AuditEvents, {}, Declared(7).columns, Declared(8).columns)
    BY DeclaredColumns, Replacements DEF Fits
  <2> QED BY <1>12, <2>1, ColumnsOfTables, ChainIs DEF ColumnsFit
<1>9. ColumnsFit(9)
  <2>1. Fits(UsersAuth, {}, Declared(8).columns, Declared(9).columns)
    BY DeclaredColumns, Replacements DEF Fits
  <2> QED BY <1>12, <2>1, ColumnsOfTables, ChainIs DEF ColumnsFit
<1>10. ColumnsFit(10)
  <2>1. Fits(TokenVersion, {}, Declared(9).columns, Declared(10).columns)
    BY DeclaredColumns, Replacements DEF Fits
  <2> QED BY <1>12, <2>1, ColumnsOfTables, ChainIs DEF ColumnsFit
<1> QED BY <1>1, <1>2, <1>3, <1>4, <1>5, <1>6, <1>7, <1>8, <1>9, <1>10, <1>11

\* A revision declares types that nobody before it did.
LEMMA EnumsAreNew == \A n \in 1..10 : Chain[n].enums \cap Declared(n - 1).types = {}
<1>1. \A n \in 1..10 : n \in {1, 2, 3, 4, 5, 6, 7, 8, 9, 10}
  OBVIOUS
<1>2. Foundation.enums \cap Declared(0).types = {}
  BY DeclaredStep, DeclaredGrows, Enums
<1>3. AssetVerifications.enums \cap Declared(1).types = {}
  BY DeclaredStep, DeclaredGrows, Enums
<1>4. AuthorizationTables.enums \cap Declared(2).types = {}
  BY DeclaredStep, DeclaredGrows, Enums
<1>5. EngagementTables.enums \cap Declared(3).types = {}
  BY DeclaredStep, DeclaredGrows, Enums
<1>6. ValidationExecutions.enums \cap Declared(4).types = {}
  BY DeclaredStep, DeclaredGrows, Enums
<1>7. PortsAsJson.enums \cap Declared(5).types = {}
  BY DeclaredStep, DeclaredGrows, Enums
<1>8. WorkerCredentials.enums \cap Declared(6).types = {}
  BY DeclaredStep, DeclaredGrows, Enums
<1>9. AuditEvents.enums \cap Declared(7).types = {}
  BY DeclaredStep, DeclaredGrows, Enums
<1>10. UsersAuth.enums \cap Declared(8).types = {}
  BY DeclaredStep, DeclaredGrows, Enums
<1>11. TokenVersion.enums \cap Declared(9).types = {}
  BY DeclaredStep, DeclaredGrows, Enums
<1> QED BY <1>1, <1>2, <1>3, <1>4, <1>5, <1>6, <1>7, <1>8, <1>9, <1>10, <1>11, ChainIs

\* Each statement of an upgrade from one revision to the next is accepted - if
\* a type that is already there has been met - and what is declared is there.
LEMMA UpFollows ==
  ASSUME NEW n \in 1..10, NEW s,
         s.tables = Declared(n - 1).tables, s.types = Declared(n - 1).types,
         s.columns = Declared(n - 1).columns
  PROVE  LET u == Up(s, Chain[n]) IN
         /\ u.tables = Declared(n).tables /\ u.types = Declared(n).types
         /\ u.columns = Declared(n).columns
         /\ u.met = s.met \cup Using(Range(Chain[n].tables))
         /\ s.ok = TRUE /\ (n \in {4, 5} => "risk_tier" \in s.met) => u.ok = TRUE
<1> DEFINE r == Chain[n]
           own == Range(r.tables)
           u == Up(s, r)
<1>1. /\ Declared(n).tables = Declared(n - 1).tables \cup own
      /\ Declared(n).types = Declared(n - 1).types \cup r.enums
  BY DeclaredGrows
<1>2. Using(own) = r.enums \cup (IF n \in {4, 5} THEN {"risk_tier"} ELSE {})
  BY RevisionUses
<1>3. n \in {4, 5} => "risk_tier" \in Declared(n - 1).types
  BY RiskTier
<1>4. Declared(n - 1).types \cup Using(own) = Declared(n).types
  BY <1>1, <1>2, <1>3
<1>5. Fits(r, Holding(own), s.columns, Declared(n).columns)
  BY AllColumnsFit DEF ColumnsFit
<1>6. /\ u.tables = s.tables \cup own /\ u.types = s.types \cup Using(own)
      /\ u.columns = ((s.columns \cup Holding(own)) \ r.gone) \cup r.new
      /\ u.met = s.met \cup Using(own)
      /\ u.ok = (s.ok /\ Creates(s, r) /\ r.gone \subseteq s.columns \cup Holding(own)
                 /\ r.new \cap (s.columns \cup Holding(own)) = {})
  BY DEF Up
<1>7. ASSUME n \in {4, 5} => "risk_tier" \in s.met PROVE Creates(s, r)
  <2> SUFFICES ASSUME NEW i \in DOMAIN r.tables
               PROVE  LET t == r.tables[i]
                          before == {r.tables[j] : j \in 1..(i - 1)}
                      IN  /\ t \notin s.tables \cup before
                          /\ Refers(t) \subseteq s.tables \cup before
                          /\ (Uses(t) \ (s.met \cup Using(before))) \cap s.types = {}
    BY DEF Creates
  <2> DEFINE t == r.tables[i]
             before == {r.tables[j] : j \in 1..(i - 1)}
  <2>1. t \notin s.tables \cup before /\ Refers(t) \subseteq s.tables \cup before
    BY EachIsPlaced DEF Placed
  <2>2. Uses(t) \subseteq Using(own)
    BY DEF Using, Range
  <2>3. r.enums \cap s.types = {}
    BY EnumsAreNew
  <2>4. Uses(t) \cap s.types \subseteq s.met
    BY <1>2, <1>7, <2>2, <2>3
  <2> QED BY <2>1, <2>4
<1>8. s.ok = TRUE /\ (n \in {4, 5} => "risk_tier" \in s.met) => u.ok = TRUE
  BY <1>5, <1>6, <1>7 DEF Fits
<1>9. u.columns = Declared(n).columns
  BY <1>5, <1>6 DEF Fits
<1> QED BY <1>1, <1>4, <1>6, <1>8, <1>9

\* Each statement of a downgrade by one revision is accepted, and nothing is
\* left that the one before does not declare.
LEMMA DownFollows ==
  ASSUME NEW n \in 1..10, NEW s,
         s.tables = Declared(n).tables, s.types = Declared(n).types,
         s.columns = Declared(n).columns
  PROVE  LET d == Down(s, Chain[n]) IN
         /\ d.tables = Declared(n - 1).tables /\ d.types = Declared(n - 1).types
         /\ d.columns = Declared(n - 1).columns
         /\ s.ok = TRUE => d.ok = TRUE
<1> DEFINE r == Chain[n]
           own == Range(r.tables)
           d == Down(s, r)
<1>1. /\ Declared(n).tables = Declared(n - 1).tables \cup own
      /\ Declared(n).types = Declared(n - 1).types \cup r.enums
  BY DeclaredGrows
<1>2. \A x \in own : x \notin Declared(n - 1).tables
  BY EachIsPlaced DEF Placed, Range
<1>3. r.enums \cap Declared(n - 1).types = {}
  BY EnumsAreNew
<1>4. /\ s.tables \ own = Declared(n - 1).tables
      /\ s.types \ r.enums = Declared(n - 1).types
  BY <1>1, <1>2, <1>3
<1>5. Fits(r, Holding(own), Declared(n - 1).columns, s.columns)
  BY AllColumnsFit DEF ColumnsFit
<1>6. /\ d.tables = s.tables \ own /\ d.types = s.types \ r.enums
      /\ d.columns = ((s.columns \ r.new) \cup r.gone) \ Holding(own)
      /\ d.ok = (/\ s.ok /\ r.new \subseteq s.columns /\ r.gone \cap s.columns = {}
                 /\ Drops(s, r)
                 /\ r.enums \subseteq s.types /\ Using(s.tables \ own) \cap r.enums = {})
  BY DEF Down, DropTypes
<1>7. Using(s.tables \ own) \cap r.enums = {}
  <2>1. n - 1 \in 0..10
    OBVIOUS
  <2> QED BY <1>3, <1>4, <2>1, DeclaredIsWhole
<1>8. Drops(s, r)
  <2>1. PICK count \in Nat : DOMAIN r.tables = 1..count /\ count = Len(r.tables)
    BY TablesAreListed
  <2> SUFFICES ASSUME NEW i \in 1..count
               PROVE  /\ r.tables[i] \in s.tables
                      /\ \A x \in s.tables \ {r.tables[j] : j \in i..count} :
                           r.tables[i] \notin Refers(x)
    BY <2>1 DEF Drops
  <2>2. r.tables[i] \in own
    BY <2>1 DEF Range
  <2>3. r.tables[i] \in s.tables /\ r.tables[i] \notin Declared(n - 1).tables
    BY <1>1, <1>2, <2>2
  <2>4. ASSUME NEW x \in s.tables, x \notin {r.tables[j] : j \in i..count},
               r.tables[i] \in Refers(x)
        PROVE  FALSE
    <3>1. CASE x \in Declared(n - 1).tables
      <4>1. n - 1 \in 0..10
        OBVIOUS
      <4> QED BY <2>3, <2>4, <3>1, <4>1, DeclaredIsWhole
    <3>2. CASE x \notin Declared(n - 1).tables
      <4>1. PICK j \in 1..count : x = r.tables[j]
        BY <1>1, <2>1, <3>2 DEF Range
      <4>2. j < i
        BY <2>4, <4>1
      <4>3. r.tables[i] \in {r.tables[k] : k \in 1..(j - 1)}
        BY <2>1, <2>3, <2>4, <4>1, EachIsPlaced DEF Placed
      <4>4. PICK k \in 1..(j - 1) : r.tables[i] = r.tables[k]
        BY <4>3
      <4>5. k \in 1..(i - 1)
        BY <4>2
      <4>6. r.tables[i] \notin {r.tables[m] : m \in 1..(i - 1)}
        BY <2>1, EachIsPlaced DEF Placed
      <4> QED BY <4>4, <4>5, <4>6
    <3> QED BY <3>1, <3>2
  <2> QED BY <2>3, <2>4
<1>9. s.ok = TRUE => d.ok = TRUE
  BY <1>1, <1>5, <1>6, <1>7, <1>8 DEF Fits
<1>10. d.columns = Declared(n - 1).columns
  BY <1>5, <1>6 DEF Fits
<1> QED BY <1>4, <1>6, <1>9, <1>10

\* The states of an upgrade, one from the other.
LEMMA UpsAre ==
  ASSUME NEW db, NEW from \in Nat, NEW to \in Nat, from <= to
  PROVE  /\ Ups(db, from, to)[from] = Start(db)
         /\ \A n \in from..to :
              n > from => Ups(db, from, to)[n] = Up(Ups(db, from, to)[n - 1], Chain[n])
<1> DEFINE Passes(g, last) ==
      g = [n \in from..last |-> IF n = from THEN Start(db) ELSE Up(g[n - 1], Chain[n])]
    S == {n \in from..to : \E g : Passes(g, n)}
<1>1. from \in S
  <2>1. PICK g : g = [n \in from..from |-> Start(db)]
    OBVIOUS
  <2>2. \A n \in from..from : n = from
    OBVIOUS
  <2>3. Passes(g, from)
    BY <2>1, <2>2
  <2> HIDE DEF Passes
  <2> QED BY <2>3
<1>2. ASSUME NEW n \in from..to, n > from, n - 1 \in S PROVE n \in S
  <2>1. PICK g : Passes(g, n - 1)
    BY <1>2
  <2> DEFINE more == [m \in from..n |-> IF m = n THEN Up(g[n - 1], Chain[n]) ELSE g[m]]
  <2>2. ASSUME NEW m \in from..n
        PROVE  more[m] = IF m = from THEN Start(db) ELSE Up(more[m - 1], Chain[m])
    <3>1. CASE m = n
      <4>1. n - 1 \in from..n /\ n - 1 # n
        BY <1>2
      <4> QED BY <1>2, <3>1, <4>1
    <3>2. CASE m # n
      <4>1. m \in from..(n - 1) /\ more[m] = g[m]
        BY <3>2
      <4>2. m # from => m - 1 \in from..n /\ m - 1 # n
        OBVIOUS
      <4>3. g[m] = IF m = from THEN Start(db) ELSE Up(g[m - 1], Chain[m])
        BY <2>1, <4>1
      <4> QED BY <4>1, <4>2, <4>3
    <3> QED BY <3>1, <3>2
  <2>3. Passes(more, n)
    BY <2>2
  <2> QED BY <2>3
<1> HIDE DEF Passes
<1>3. to \in S
  <2> HIDE DEF S
  <2>1. from..to \subseteq S
    BY <1>1, <1>2, Climbing
  <2> QED BY <2>1
<1>4. PICK g : Passes(g, to)
  BY <1>3
<1>5. \E h : h = [n \in from..to |-> IF n = from THEN Start(db) ELSE Up(h[n - 1], Chain[n])]
  BY <1>4 DEF Passes
<1>6. Ups(db, from, to)
        = [n \in from..to |-> IF n = from THEN Start(db)
                              ELSE Up(Ups(db, from, to)[n - 1], Chain[n])]
  BY <1>5 DEF Ups
<1> QED BY <1>6

\* And of a downgrade.
LEMMA DownsAre ==
  ASSUME NEW db, NEW from \in Nat, NEW to \in Nat, to <= from
  PROVE  /\ Downs(db, from, to)[from] = Start(db)
         /\ \A n \in to..from :
              n < from => Downs(db, from, to)[n] = Down(Downs(db, from, to)[n + 1], Chain[n + 1])
<1> DEFINE Passes(g, last) ==
      g = [n \in last..from |-> IF n = from THEN Start(db) ELSE Down(g[n + 1], Chain[n + 1])]
    S == {n \in to..from : \E g : Passes(g, n)}
<1>1. from \in S
  <2>1. PICK g : g = [n \in from..from |-> Start(db)]
    OBVIOUS
  <2>2. \A n \in from..from : n = from
    OBVIOUS
  <2>3. Passes(g, from)
    BY <2>1, <2>2
  <2> HIDE DEF Passes
  <2> QED BY <2>3
<1>2. ASSUME NEW n \in to..from, n < from, n + 1 \in S PROVE n \in S
  <2>1. PICK g : Passes(g, n + 1)
    BY <1>2
  <2> DEFINE more == [m \in n..from |-> IF m = n THEN Down(g[n + 1], Chain[n + 1]) ELSE g[m]]
  <2>2. ASSUME NEW m \in n..from
        PROVE  more[m] = IF m = from THEN Start(db) ELSE Down(more[m + 1], Chain[m + 1])
    <3>1. CASE m = n
      <4>1. n + 1 \in n..from /\ n + 1 # n
        BY <1>2
      <4> QED BY <1>2, <3>1, <4>1
    <3>2. CASE m # n
      <4>1. m \in (n + 1)..from /\ more[m] = g[m]
        BY <3>2
      <4>2. m # from => m + 1 \in n..from /\ m + 1 # n
        OBVIOUS
      <4>3. g[m] = IF m = from THEN Start(db) ELSE Down(g[m + 1], Chain[m + 1])
        BY <2>1, <4>1
      <4> QED BY <4>1, <4>2, <4>3
    <3> QED BY <3>1, <3>2
  <2>3. Passes(more, n)
    BY <2>2
  <2> QED BY <2>3
<1> HIDE DEF Passes
<1>3. to \in S
  <2> HIDE DEF S
  <2>1. to..from \subseteq S
    BY <1>1, <1>2, Descending
  <2> QED BY <2>1
<1>4. PICK g : Passes(g, to)
  BY <1>3
<1>5. \E h : h = [n \in to..from |-> IF n = from THEN Start(db) ELSE Down(h[n + 1], Chain[n + 1])]
  BY <1>4 DEF Passes
<1>6. Downs(db, from, to)
        = [n \in to..from |-> IF n = from THEN Start(db)
                              ELSE Down(Downs(db, from, to)[n + 1], Chain[n + 1])]
  BY <1>5 DEF Downs
<1> QED BY <1>6

\* An upgrade ends with what its revision declares; all of it is accepted
\* unless it begins where risk_tier is there and will be used again.
LEMMA UpgradeDeclares ==
  ASSUME NEW from \in 0..10, NEW to \in 0..10, from <= to
  PROVE  LET up == Upgraded(Declared(from), from, to) IN
         /\ Result(up) = Declared(to)
         /\ from \notin {3, 4} => up.ok = TRUE
<1> DEFINE at == Ups(Declared(from), from, to)
    Good(n) ==
      /\ at[n].tables = Declared(n).tables /\ at[n].types = Declared(n).types
      /\ at[n].columns = Declared(n).columns
      /\ from \notin {3, 4} => at[n].ok = TRUE
      /\ from <= 2 /\ n >= 3 => "risk_tier" \in at[n].met
    S == {n \in from..to : Good(n)}
<1>0. /\ at[from] = Start(Declared(from))
      /\ \A n \in from..to : n > from => at[n] = Up(at[n - 1], Chain[n])
  <2>1. from \in Nat /\ to \in Nat
    OBVIOUS
  <2> QED BY <2>1, UpsAre
<1> HIDE DEF at
<1>1. from \in S
  BY <1>0 DEF Start
<1>2. ASSUME NEW n \in from..to, n > from, n - 1 \in S PROVE n \in S
  <2>1. n \in 1..10 /\ Good(n - 1) /\ at[n] = Up(at[n - 1], Chain[n])
    BY <1>0, <1>2
  <2>2. /\ at[n].tables = Declared(n).tables /\ at[n].types = Declared(n).types
        /\ at[n].columns = Declared(n).columns
        /\ at[n].met = at[n - 1].met \cup Using(Range(Chain[n].tables))
        /\ at[n - 1].ok = TRUE /\ (n \in {4, 5} => "risk_tier" \in at[n - 1].met) =>
             at[n].ok = TRUE
    <3>1. PICK s : s = at[n - 1]
      OBVIOUS
    <3>2. /\ n \in 1..10
          /\ s.tables = Declared(n - 1).tables /\ s.types = Declared(n - 1).types
          /\ s.columns = Declared(n - 1).columns
      BY <2>1, <3>1
    <3>3. PICK u : u = Up(s, Chain[n])
      OBVIOUS
    <3>4. /\ u.tables = Declared(n).tables /\ u.types = Declared(n).types
          /\ u.columns = Declared(n).columns
          /\ u.met = s.met \cup Using(Range(Chain[n].tables))
          /\ s.ok = TRUE /\ (n \in {4, 5} => "risk_tier" \in s.met) => u.ok = TRUE
      BY <3>2, <3>3, UpFollows
    <3>5. at[n] = u
      BY <2>1, <3>1, <3>3
    <3> QED BY <3>1, <3>4, <3>5
  <2>3. from \notin {3, 4} /\ n \in {4, 5} => from <= 2 /\ n - 1 >= 3
    BY <1>2
  <2>4. from \notin {3, 4} => at[n].ok = TRUE
    BY <2>1, <2>2, <2>3
  <2>5. from <= 2 /\ n >= 3 => "risk_tier" \in at[n].met
    <3>1. CASE n = 3
      <4>1. "risk_tier" \in Using(Range(Chain[n].tables))
        BY <3>1, RevisionUses, ChainIs, Enums
      <4> QED BY <2>2, <4>1
    <3>2. CASE n # 3
      BY <2>1, <2>2, <3>2
    <3> QED BY <3>1, <3>2
  <2> QED BY <2>2, <2>4, <2>5
<1> HIDE DEF Good
<1>3. to \in S
  <2> HIDE DEF S
  <2>1. from..to \subseteq S
    BY <1>1, <1>2, Climbing
  <2> QED BY <2>1
<1>4. Result(at[to]) = Declared(to)
  BY <1>3 DEF Good, Result, Declared
<1> QED BY <1>3, <1>4 DEF Good, Upgraded, at

\* A downgrade ends with what its revision declares, and is accepted.
LEMMA DowngradeDeclares ==
  ASSUME NEW from \in 0..10, NEW to \in 0..10, to <= from
  PROVE  LET down == Downgraded(Declared(from), from, to) IN
         Result(down) = Declared(to) /\ down.ok = TRUE
<1> DEFINE at == Downs(Declared(from), from, to)
    Good(n) ==
      /\ at[n].tables = Declared(n).tables /\ at[n].types = Declared(n).types
      /\ at[n].columns = Declared(n).columns
      /\ at[n].ok = TRUE
    S == {n \in to..from : Good(n)}
<1>0. /\ at[from] = Start(Declared(from))
      /\ \A n \in to..from : n < from => at[n] = Down(at[n + 1], Chain[n + 1])
  <2>1. from \in Nat /\ to \in Nat
    OBVIOUS
  <2> QED BY <2>1, DownsAre
<1> HIDE DEF at
<1>1. from \in S
  BY <1>0 DEF Start
<1>2. ASSUME NEW n \in to..from, n < from, n + 1 \in S PROVE n \in S
  <2>1. /\ n + 1 \in 1..10 /\ (n + 1) - 1 = n /\ Good(n + 1)
        /\ at[n] = Down(at[n + 1], Chain[n + 1])
    BY <1>0, <1>2
  <2>2. PICK s : s = at[n + 1]
    OBVIOUS
  <2>3. PICK m \in 1..10 : m = n + 1 /\ m - 1 = n
    BY <2>1
  <2>4. /\ at[n] = Down(s, Chain[m])
        /\ s.tables = Declared(m).tables /\ s.types = Declared(m).types
        /\ s.columns = Declared(m).columns /\ s.ok = TRUE
    BY <2>1, <2>2, <2>3
  <2>5. /\ at[n].tables = Declared(n).tables /\ at[n].types = Declared(n).types
        /\ at[n].columns = Declared(n).columns /\ at[n].ok = TRUE
    <3>1. PICK d : d = Down(s, Chain[m])
      OBVIOUS
    <3>2. /\ d.tables = Declared(m - 1).tables /\ d.types = Declared(m - 1).types
          /\ d.columns = Declared(m - 1).columns /\ d.ok = TRUE
      BY <2>4, <3>1, DownFollows
    <3> QED BY <2>3, <2>4, <3>1, <3>2
  <2> QED BY <2>5
<1> HIDE DEF Good
<1>3. to \in S
  <2> HIDE DEF S
  <2>1. to..from \subseteq S
    BY <1>1, <1>2, Descending
  <2> QED BY <2>1
<1>4. Result(at[to]) = Declared(to)
  BY <1>3 DEF Good, Result, Declared
<1> QED BY <1>3, <1>4 DEF Good, Downgraded, at

\* The schema is the declared one, and no image is beyond the chain.
SchemaInv ==
  /\ revision \in 0..10 /\ schema = Declared(revision)
  /\ \A c \in Containers : container[c].image \in 0..10

\* Nothing is declared in an empty database.
LEMMA SchemaInitially == MigrationsInit => SchemaInv
<1> SUFFICES ASSUME MigrationsInit PROVE SchemaInv
  OBVIOUS
<1>1. revision = 0 /\ schema = [tables |-> {}, types |-> {}, columns |-> {}]
  BY DEF MigrationsInit
<1>2. Declared(0) = [tables |-> {}, types |-> {}, columns |-> {}]
  BY DeclaredGrows, DeclaredColumns DEF Declared
<1>3. \A c \in Containers : container[c].image = 0
  BY DEF MigrationsInit, Off
<1> QED BY <1>1, <1>2, <1>3 DEF SchemaInv

\* A committed upgrade leaves what its image declares; a rolled back one leaves
\* what was there.
LEMMA MigrateDeclares ==
  ASSUME MigrationsInv, SchemaInv, NEW c \in Containers, Migrate(c) PROVE SchemaInv'
<1>1. /\ container \in [Containers -> Processes] /\ container[c] \in Processes
      /\ container[c].image \in 0..10
  BY DEF MigrationsInv, MigrationsTypeOK, SchemaInv
<1>2. PICK k : k = [container[c] EXCEPT !.phase = "serving", !.read = 0]
  OBVIOUS
<1>3. k.image = container[c].image /\ Off.image = 0
  BY <1>1, <1>2 DEF Processes, Off
<1>4. CASE revision' = revision /\ schema' = schema /\ container' = [container EXCEPT ![c] = Off]
  BY <1>1, <1>3, <1>4 DEF SchemaInv
<1>5. CASE /\ revision = container[c].read /\ revision' = container[c].image
           /\ schema' = Result(Upgraded(schema, container[c].read, container[c].image))
           /\ container' = [container EXCEPT ![c] = k]
  <2>1. revision \in 0..10 /\ schema = Declared(revision)
    BY DEF SchemaInv
  <2>2. revision <= container[c].image
    BY <1>5 DEF Migrate, MigrationsInv, Forward
  <2>3. schema' = Declared(revision')
    BY <1>1, <1>5, <2>1, <2>2, UpgradeDeclares
  <2> QED BY <1>1, <1>3, <1>5, <2>3 DEF SchemaInv
<1> QED BY <1>2, <1>4, <1>5 DEF Migrate, AfterFailure

\* So does a downgrade.
LEMMA DowngradedDeclares ==
  ASSUME SchemaInv, NEW to \in 0..(Len(Chain) - 1), Downgrade(to) PROVE SchemaInv'
<1>1. revision \in 0..10 /\ schema = Declared(revision) /\ to \in 0..10 /\ to <= revision
  BY ChainIs DEF SchemaInv, Downgrade
<1>2. Result(Downgraded(schema, revision, to)) = Declared(to)
  BY <1>1, DowngradeDeclares
<1> QED BY <1>1, <1>2 DEF SchemaInv, Downgrade

\* Nothing else writes the schema.
LEMMA ContainerDeclares ==
  ASSUME MigrationsInv, SchemaInv, NEW c \in Containers,
         StopContainer(c) \/ \E r \in Releases : BootContainer(c, r)
  PROVE  SchemaInv'
<1>1. revision' = revision /\ schema' = schema
  BY DEF StopContainer, BootContainer
<1>2. container \in [Containers -> Processes]
  BY DEF MigrationsInv, MigrationsTypeOK
<1>3. CASE StopContainer(c)
  <2>1. container' = [container EXCEPT ![c] = Off] /\ Off.image = 0
    BY <1>3 DEF StopContainer, Off
  <2> QED BY <1>1, <1>2, <2>1 DEF SchemaInv
<1>4. ASSUME NEW r \in Releases, BootContainer(c, r) PROVE SchemaInv'
  <2>1. PICK k : k = [phase |-> "upgrading", image |-> r, read |-> revision]
    OBVIOUS
  <2>2. container' = [container EXCEPT ![c] = k] /\ k.image = r
    BY <1>4, <2>1 DEF BootContainer, Becomes
  <2>3. r \in 0..10
    BY ReleasesAssumption, ChainIs
  <2> QED BY <1>1, <1>2, <2>2, <2>3 DEF SchemaInv
<1> QED BY <1>3, <1>4

\* Every revision can be reached from the one that is there, but for two.
LEMMA Reachable == SchemaInv => SchemaFollowsRevision
<1> SUFFICES ASSUME SchemaInv PROVE SchemaFollowsRevision
  OBVIOUS
<1>1. revision \in 0..10 /\ schema = Declared(revision)
  BY DEF SchemaInv
<1>2. ASSUME NEW to \in 0..10, to < revision \/ revision \notin {3, 4}
      PROVE  <<revision, to, TRUE>> \in Changes
  <2> DEFINE accepted == IF to < revision THEN Downgraded(Declared(revision), revision, to).ok
                         ELSE Upgraded(Declared(revision), revision, to).ok
  <2>1. <<revision, to, accepted>> \in Changes
    BY <1>1, ChainIs DEF Changes
  <2>2. CASE to < revision
    <3>0. PICK from \in 0..10 : from = revision /\ to <= from
      BY <1>1, <2>2
    <3>1. Downgraded(Declared(from), from, to).ok = TRUE
      BY <3>0, DowngradeDeclares
    <3> QED BY <2>1, <2>2, <3>0, <3>1
  <2>3. CASE ~(to < revision)
    <3>0. PICK from \in 0..10 : from = revision /\ from <= to /\ from \notin {3, 4}
      BY <1>1, <1>2, <2>3
    <3>1. Upgraded(Declared(from), from, to).ok = TRUE
      BY <3>0, UpgradeDeclares
    <3> QED BY <2>1, <2>3, <3>0, <3>1
  <2> QED BY <2>2, <2>3
<1> QED BY <1>1, <1>2, ChainIs DEF SchemaFollowsRevision

\* Whatever was upgraded, rolled back, downgraded and upgraded again, the
\* schema is the one its revision declares, and every other revision can be
\* reached from it, but by no upgrade from the two next to risk_tier's.
THEOREM SchemaIsDeclared == MigrationsSpec => []SchemaFollowsRevision
<1>1. MigrationsInv /\ SchemaInv /\ [MigrationsNext]_migrationsVars => SchemaInv'
  <2> SUFFICES ASSUME MigrationsInv, SchemaInv, [MigrationsNext]_migrationsVars PROVE SchemaInv'
    OBVIOUS
  <2>1. ASSUME NEW c \in Containers, Migrate(c) PROVE SchemaInv'
    BY <2>1, MigrateDeclares
  <2>2. ASSUME NEW c \in Containers, StopContainer(c) PROVE SchemaInv'
    BY <2>2, ContainerDeclares
  <2>3. ASSUME NEW c \in Containers, NEW r \in Releases, BootContainer(c, r) PROVE SchemaInv'
    BY <2>3, ContainerDeclares
  <2>4. ASSUME NEW to \in 0..(Len(Chain) - 1), Downgrade(to) PROVE SchemaInv'
    BY <2>4, DowngradedDeclares
  <2>5. CASE UNCHANGED migrationsVars
    BY <2>5 DEF migrationsVars, SchemaInv
  <2> QED BY <2>1, <2>2, <2>3, <2>4, <2>5 DEF MigrationsNext
<1> QED BY <1>1, SchemaInitially, Reachable, MigrationsInvariant, PTL DEF MigrationsSpec

=============================================================================
