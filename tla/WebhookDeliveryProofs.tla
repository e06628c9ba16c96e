----------------------- MODULE WebhookDeliveryProofs -----------------------
(***************************************************************************)
(* Proofs about WebhookDelivery for any deliveries, keys, connections,     *)
(* workers, attempt limit and fault bound; and about the attempts of its   *)
(* forward workers: what the destination has accepted and what the         *)
(* outbound log says of it, for any retries, crashes and redeliveries.     *)
(***************************************************************************)
EXTENDS WebhookDelivery, FiniteSetTheorems, TLAPS

(* The steps of the whole system, one disjunct per action, so that a proof *)
(* has one case per action.                                                *)
ReceiverStep(d) ==
    /\ \/ Refuse(d) \/ Admit(d) \/ FastPath(d) \/ Persist(d)
       \/ Resolve(d) \/ Enqueue(d) \/ HandlerCrash(d) \/ EnqueueFails(d)
    /\ UNCHANGED <<worker, accepts, faults>>

ForwarderStep(w) ==
    /\ \/ \E t \in Task : Take(w, t)
       \/ Load(w) \/ FinishSink(w) \/ BeginAttempt(w) \/ Post(w)
       \/ Delivered(w) \/ DeadLettered(w) \/ DeadLetterClash(w)
       \/ AttemptFailed(w) \/ Retry(w) \/ Acknowledge(w)
       \/ WorkerCrash(w) \/ Redeliver(w)
    /\ UNCHANGED request

(* Every step is one of a handler, of a worker or of the retention job.    *)
LEMMA NextSteps ==
    ASSUME Next
    PROVE  \/ \E d \in Delivery : ReceiverStep(d)
           \/ \E w \in Worker : ForwarderStep(w)
           \/ \E cutoff \in 1 .. clock : PurgeExpired(cutoff)
  BY DEF Next, Receiver, Forwarder, IngestStep, WorkerStep, ReceiverStep, ForwarderStep

-----------------------------------------------------------------------------
(* Type correctness.                                                       *)

(* The empty database, the idle handlers and the idle workers are well     *)
(* typed.                                                                  *)
LEMMA InitTypeOK == Init => TypeOK
  BY StoreAssumption
  DEF StoreAssumption, Init, IngestInit, ForwardInit, StoreInit, TypeOK, IngestTypeOK,
      ForwardTypeOK, StoreTypeOK, EventRow, AbsentRow, StoredStatus, Task, Request,
      Answer, WorkerState, Idle

(* A task published for an event leaves a well-typed broker.               *)
LEMMA PublishTypeOK ==
    ASSUME queued \in [Task -> Nat], NEW t \in Task, Publish(t)
    PROVE  queued' \in [Task -> Nat]
  BY DEF Publish

(* The task of a first attempt is a task.                                  *)
LEMMA FreshTask == \A d \in Delivery : [event |-> d, retries |-> 0] \in Task
  BY StoreAssumption DEF StoreAssumption, Task

(* So is the task of a retry, below the limit on retries.                  *)
LEMMA RetriedTask ==
    \A t \in Task : t.retries < MaxAttempts => [t EXCEPT !.retries = @ + 1] \in Task
  BY StoreAssumption DEF StoreAssumption, Task

(* The steps of a handler.                                                 *)
LEMMA ReceiverTypeOK ==
    ASSUME TypeOK, NEW d \in Delivery, ReceiverStep(d)
    PROVE  StoreTypeOK' /\ request' \in [Delivery -> Request]
<1> USE DEF TypeOK, IngestTypeOK
<1>1. StoreTypeOK /\ request \in [Delivery -> Request]
  OBVIOUS
<1>2. /\ request[d].key \in Key \cup {NoKey}
      /\ request[d].connection \in Connection \cup {NoEvent}
  BY <1>1 DEF Request
<1>3. UNCHANGED storeVars => StoreTypeOK'
  BY <1>1 DEF StoreTypeOK, storeVars
<1>4. ASSUME NEW a \in Answer, NEW e \in Delivery \cup {NoEvent}, Reply(d, a, e)
      PROVE  request' \in [Delivery -> Request]
  BY <1>1, <1>4 DEF Reply, Request
<1>5. ASSUME Claimed(request[d].key) PROVE keyRow[request[d].key] \in Delivery \cup {NoEvent}
  BY <1>1, <1>2, <1>5 DEF Claimed, StoreTypeOK
<1>6. CASE Refuse(d)
  BY <1>3, <1>4, <1>6 DEF Refuse, Answer
<1>7. CASE Admit(d)
  <2>1. PICK k \in Key \cup {NoKey}, c \in Connection :
          request' = [request EXCEPT ![d] =
                        [@ EXCEPT !.pc = "lookup", !.key = k, !.connection = c]]
    BY <1>7 DEF Admit
  <2>2. request' \in [Delivery -> Request]
    BY <1>1, <2>1 DEF Request
  <2> QED
    BY <1>3, <1>7, <2>2 DEF Admit
<1>8. CASE FastPath(d)
  <2>1. CASE Claimed(request[d].key)
    BY <1>3, <1>4, <1>5, <1>8, <2>1 DEF FastPath, Answer
  <2>2. CASE ~ Claimed(request[d].key)
    BY <1>1, <1>3, <1>8, <2>2 DEF FastPath, Request
  <2> QED
    BY <2>1, <2>2
<1>9. CASE Persist(d)
  <2>1. request' \in [Delivery -> Request]
    BY <1>1, <1>9 DEF Persist, Request
  <2>2. CASE Claimed(request[d].key)
    BY <1>3, <1>9, <2>1, <2>2 DEF Persist
  <2>3. CASE ~ Claimed(request[d].key)
    <3> DEFINE row == [status |-> "received", attempts |-> 0, key |-> request[d].key,
                       connection |-> request[d].connection, received_at |-> clock]
    <3>1. row \in EventRow
      BY <1>1, <1>2 DEF StoreTypeOK, EventRow, StoredStatus
    <3>2. /\ event' = [event EXCEPT ![d] = row]
          /\ keyRow' = [x \in Key |-> IF x = request[d].key THEN d ELSE keyRow[x]]
          /\ clock' = clock + 1
          /\ UNCHANGED <<log, dead, queued>>
      BY <1>9, <2>3 DEF Persist
    <3>3. event' \in [Delivery -> EventRow]
      BY <1>1, <3>1, <3>2 DEF StoreTypeOK
    <3>4. keyRow' \in [Key -> Delivery \cup {NoEvent}]
      BY <1>1, <3>2 DEF StoreTypeOK
    <3> QED
      BY <1>1, <2>1, <3>2, <3>3, <3>4 DEF StoreTypeOK
  <2> QED
    BY <2>2, <2>3
<1>10. CASE Resolve(d)
  BY <1>3, <1>4, <1>5, <1>10 DEF Resolve, Answer
<1>11. CASE Enqueue(d)
  BY <1>1, <1>4, <1>11, FreshTask, PublishTypeOK DEF Enqueue, StoreTypeOK, Answer
<1>12. CASE HandlerCrash(d)
  BY <1>1, <1>3, <1>12 DEF HandlerCrash, Request
<1>13. CASE EnqueueFails(d)
  BY <1>3, <1>4, <1>13 DEF EnqueueFails, Answer
<1> QED
  BY <1>6, <1>7, <1>8, <1>9, <1>10, <1>11, <1>12, <1>13 DEF ReceiverStep

(* The steps of a worker.                                                  *)
WorkerTyped == /\ worker \in [Worker -> WorkerState]
               /\ \A w \in Worker : worker[w].pc # "idle" => worker[w].task \in Task

(* Writing a status, or counting an attempt, keeps an event's row well     *)
(* typed.                                                                  *)
LEMMA StatusTypeOK ==
    ASSUME TypeOK, NEW w \in Worker, NEW row \in EventRow, NEW s \in StoredStatus
    PROVE  /\ WithStatus(row, w, s) \in EventRow
           /\ \A n \in Nat : [WithStatus(row, w, s) EXCEPT !.attempts = n] \in EventRow
  BY DEF WithStatus, EventRow

(* Every step of a worker keeps the store and the workers well typed.      *)
LEMMA ForwarderTypeOK ==
    ASSUME TypeOK, NEW w \in Worker, ForwarderStep(w)
    PROVE  StoreTypeOK' /\ ForwardTypeOK'
<1>1. /\ StoreTypeOK /\ WorkerTyped
      /\ accepts \in [Delivery -> Nat] /\ faults \in [Delivery -> Nat]
  BY DEF TypeOK, IngestTypeOK, ForwardTypeOK, WorkerTyped
<1>2. SUFFICES StoreTypeOK' /\ WorkerTyped'
               /\ accepts' \in [Delivery -> Nat] /\ faults' \in [Delivery -> Nat]
  BY DEF ForwardTypeOK, WorkerTyped
<1>3. UNCHANGED storeVars => StoreTypeOK'
  BY <1>1 DEF StoreTypeOK, storeVars
<1>4. ASSUME NEW pc \in {"finish", "retry", "ack"}, worker[w].pc # "idle",
             worker' = [worker EXCEPT ![w].pc = pc]
      PROVE  WorkerTyped'
  BY <1>1, <1>4 DEF WorkerTyped, WorkerState
<1>5. ASSUME worker' = [worker EXCEPT ![w] = Idle] PROVE WorkerTyped'
  BY <1>1, <1>5 DEF WorkerTyped, WorkerState, Idle
<1>6. worker[w].pc # "idle" => worker[w].task \in Task /\ EventOf(w) \in Delivery
  BY <1>1 DEF WorkerTyped, EventOf, Task
<1>7. ASSUME worker[w].pc # "idle" PROVE event[EventOf(w)] \in EventRow
  BY <1>1, <1>6, <1>7 DEF StoreTypeOK
<1>8. worker[w].attempt_no \in Nat
  BY <1>1 DEF WorkerTyped, WorkerState
<1>9. ASSUME NEW t \in Task, Take(w, t) PROVE StoreTypeOK' /\ WorkerTyped'
  <2>1. queued' \in [Task -> Nat]
    <3>1. queued[t] > 0 /\ queued' = [queued EXCEPT ![t] = @ - 1]
      BY <1>9 DEF Take
    <3>2. queued \in [Task -> Nat] /\ queued[t] \in Nat
      BY <1>1 DEF StoreTypeOK
    <3>3. queued[t] - 1 \in Nat
      BY <3>1, <3>2
    <3> QED
      BY <3>1, <3>2, <3>3
  <2>2. WorkerTyped'
    BY <1>1, <1>9 DEF Take, WorkerTyped, WorkerState, Idle
  <2> QED
    BY <1>1, <1>9, <2>1, <2>2 DEF Take, StoreTypeOK
<1>10. CASE Load(w)
  <2>1. /\ event[EventOf(w)].status \in StoredStatus \cup {"none"}
        /\ event[EventOf(w)].attempts \in Nat
    BY <1>7, <1>10 DEF Load, EventRow
  <2>2. WorkerTyped'
    BY <1>1, <1>10, <2>1, ZenonT(60) DEF Load, WorkerTyped, WorkerState
  <2> QED
    BY <1>1, <1>3, <1>10, <2>2 DEF Load
<1>11. CASE FinishSink(w)
  <2>1. WithStatus(event[EventOf(w)], w, "done") \in EventRow
    BY <1>7, <1>11, StatusTypeOK DEF FinishSink, StoredStatus
  <2>2. event' \in [Delivery -> EventRow]
    BY <1>1, <1>11, <2>1 DEF FinishSink, StoreTypeOK
  <2> QED
    BY <1>1, <1>4, <1>11, <2>2 DEF FinishSink, End, StoreTypeOK
<1>12. CASE BeginAttempt(w)
  <2>1. [WithStatus(event[EventOf(w)], w, "processing")
            EXCEPT !.attempts = worker[w].attempt_no + 1] \in EventRow
    BY <1>7, <1>8, <1>12, StatusTypeOK DEF BeginAttempt, StoredStatus
  <2>2. event' \in [Delivery -> EventRow]
    BY <1>1, <1>12, <2>1 DEF BeginAttempt, StoreTypeOK
  <2>3. WorkerTyped'
    <3> DEFINE n == worker[w].attempt_no + 1
    <3>1. worker[w].pc = "begin" /\ worker[w] \in WorkerState
      BY <1>1, <1>12 DEF BeginAttempt, WorkerTyped
    <3>2. worker' = [worker EXCEPT ![w] =
              [@ EXCEPT !.pc = "post", !.status = "processing", !.attempt_no = n]]
      BY <1>12 DEF BeginAttempt
    <3>3. n \in Nat
      BY <1>8
    <3> HIDE DEF n
    <3>4. [worker[w] EXCEPT !.pc = "post", !.status = "processing",
                            !.attempt_no = n] \in WorkerState
      BY <3>1, <3>3 DEF WorkerState, StoredStatus
    <3> QED
      BY <1>1, <3>1, <3>2, <3>4 DEF WorkerTyped
  <2> QED
    BY <1>1, <1>12, <2>2, <2>3 DEF BeginAttempt, StoreTypeOK
<1>13. CASE Post(w)
  <2>1. PICK ok \in BOOLEAN :
          /\ worker' = [worker EXCEPT ![w] = [@ EXCEPT !.pc = "finish", !.ok = ok]]
          /\ accepts' = IF ok THEN [accepts EXCEPT ![EventOf(w)] = @ + 1] ELSE accepts
    BY <1>13 DEF Post
  <2>2. WorkerTyped'
    <3>1. worker[w].pc = "post" /\ worker[w] \in WorkerState
      BY <1>1, <1>13 DEF Post, WorkerTyped
    <3>2. [worker[w] EXCEPT !.pc = "finish", !.ok = ok] \in WorkerState
      BY <3>1 DEF WorkerState
    <3> QED
      BY <1>1, <2>1, <3>1, <3>2 DEF WorkerTyped
  <2>3. accepts' \in [Delivery -> Nat]
    <3>1. EventOf(w) \in Delivery
      BY <1>6, <1>13 DEF Post
    <3> QED
      BY <1>1, <2>1, <3>1
  <2> QED
    BY <1>1, <1>3, <1>13, <2>2, <2>3 DEF Post
<1>14. ASSUME NEW s \in StoredStatus, Record(w, s), dead' \in SUBSET Delivery
       PROVE  StoreTypeOK' /\ UNCHANGED <<accepts, faults>>
  <2>1. worker[w].pc # "idle" /\ EventOf(w) \in Delivery
    BY <1>6, <1>14 DEF Record
  <2>2. WithStatus(event[EventOf(w)], w, s) \in EventRow
    BY <1>7, <1>14, <2>1, StatusTypeOK
  <2>3. event' \in [Delivery -> EventRow]
    BY <1>1, <1>14, <2>2 DEF Record, StoreTypeOK
  <2>4. log' \in [Delivery -> Seq(Nat)]
    BY <1>1, <1>8, <1>14, <2>1 DEF Record, StoreTypeOK
  <2> QED
    BY <1>1, <1>14, <2>3, <2>4 DEF Record, StoreTypeOK
<1>15. CASE Delivered(w)
  BY <1>1, <1>4, <1>14, <1>15 DEF Delivered, End, Record, StoredStatus, StoreTypeOK
<1>16. CASE DeadLettered(w)
  BY <1>1, <1>4, <1>6, <1>14, <1>16 DEF DeadLettered, End, Record, StoredStatus, StoreTypeOK
<1>17. CASE DeadLetterClash(w)
  BY <1>1, <1>3, <1>4, <1>17 DEF DeadLetterClash, End
<1>18. CASE AttemptFailed(w)
  BY <1>1, <1>4, <1>14, <1>18 DEF AttemptFailed, Record, StoredStatus, StoreTypeOK
<1>19. CASE Retry(w)
  <2>1. queued' \in [Task -> Nat]
    BY <1>1, <1>6, <1>19, RetriedTask, PublishTypeOK DEF Retry, StoreTypeOK
  <2> QED
    BY <1>1, <1>4, <1>19, <2>1 DEF Retry, End, StoreTypeOK
<1>20. CASE Acknowledge(w)
  BY <1>1, <1>3, <1>5, <1>20 DEF Acknowledge
<1>21. ASSUME Requeue(w) PROVE StoreTypeOK' /\ faults' \in [Delivery -> Nat]
  BY <1>1, <1>6, <1>21, PublishTypeOK DEF Requeue, StoreTypeOK
<1>22. CASE WorkerCrash(w)
  BY <1>1, <1>5, <1>21, <1>22 DEF WorkerCrash, Requeue
<1>23. CASE Redeliver(w)
  BY <1>1, <1>21, <1>23 DEF Redeliver, Requeue, WorkerTyped
<1>24. ASSUME NEW t \in Task, Take(w, t) PROVE UNCHANGED <<accepts, faults>>
  BY <1>24 DEF Take
<1> QED
  BY <1>1, <1>9, <1>10, <1>11, <1>12, <1>13, <1>15, <1>16, <1>17, <1>18, <1>19,
     <1>20, <1>22, <1>23, <1>24 DEF ForwarderStep

(* The retention job keeps everything well typed: it only makes rows       *)
(* absent.                                                                 *)
LEMMA PurgeTypeOK ==
    ASSUME TypeOK, NEW cutoff, PurgeExpired(cutoff)
    PROVE  TypeOK'
<1>1. AbsentRow \in EventRow
  BY DEF AbsentRow, EventRow
<1> QED
  BY <1>1 DEF TypeOK, IngestTypeOK, StoreTypeOK, ForwardTypeOK, PurgeExpired, Expired

(* Every step, and every stuttering step, keeps the types.                 *)
LEMMA StepTypeOK == TypeOK /\ [Next]_vars => TypeOK'
<1>1. ASSUME TypeOK, Next PROVE TypeOK'
  <2>1. ASSUME NEW d \in Delivery, UNCHANGED <<worker, accepts, faults>>
        PROVE  ForwardTypeOK'
    BY <1>1, <2>1 DEF TypeOK, ForwardTypeOK
  <2>2. ASSUME UNCHANGED request PROVE request' \in [Delivery -> Request]
    BY <1>1, <2>2 DEF TypeOK, IngestTypeOK
  <2> QED
    BY <1>1, <2>1, <2>2, NextSteps, ReceiverTypeOK, ForwarderTypeOK, PurgeTypeOK
       DEF TypeOK, IngestTypeOK, ReceiverStep, ForwarderStep
<1>2. ASSUME TypeOK, UNCHANGED vars PROVE TypeOK'
  BY <1>2 DEF TypeOK, IngestTypeOK, StoreTypeOK, ForwardTypeOK, vars, storeVars
<1> QED
  BY <1>1, <1>2

(* Every reachable state of the system is well typed.                      *)
THEOREM TypeCorrect == Spec => []TypeOK
  BY InitTypeOK, StepTypeOK, PTL DEF Spec

-----------------------------------------------------------------------------
(* The inductive invariant.                                                *)

(* With nothing stored and nobody at work the invariant holds.             *)
LEMMA InitIInv == Init => IInv
<1> SUFFICES ASSUME Init PROVE IInv
  OBVIOUS
<1>1. TypeOK
  BY InitTypeOK
<1>2. /\ \A d \in Delivery : event[d].status = "none" /\ event[d].key = NoKey
      /\ \A k \in Key : keyRow[k] = NoEvent
      /\ \A d \in Delivery : request[d].pc = "idle" /\ request[d].event = NoEvent
      /\ \A w \in Worker : worker[w].pc = "idle"
      /\ dead = {}
  BY DEF Init, IngestInit, ForwardInit, StoreInit, AbsentRow, Idle
<1> QED
  BY <1>1, <1>2 DEF IInv, HandlersOwnRows, WorkersOwnRows, KeysMatchEvents,
                    DeadLettersHaveEvidence, Stored

(* What no worker step changes: keys, key rows and which rows exist.       *)
LEMMA WorkersKeepRows ==
    ASSUME TypeOK, WorkersOwnRows, NEW w \in Worker, ForwarderStep(w)
    PROVE  /\ keyRow' = keyRow
           /\ \A d \in Delivery : event'[d].key = event[d].key /\ (Stored(d)' <=> Stored(d))
<1>1. event \in [Delivery -> EventRow] /\ worker \in [Worker -> WorkerState]
  BY DEF TypeOK, IngestTypeOK, StoreTypeOK, ForwardTypeOK
<1>2. worker[w].pc \in {"begin", "post", "finish"} => EventOf(w) \in Delivery
  BY DEF TypeOK, ForwardTypeOK, EventOf, Task
<1>3. ASSUME NEW s \in {"processing", "done", "dead", "failed"},
             worker[w].pc \in {"begin", "post", "finish"},
             NEW row, row = WithStatus(event[EventOf(w)], w, s),
             \/ event' = [event EXCEPT ![EventOf(w)] = row]
             \/ \E n \in Nat : event' = [event EXCEPT ![EventOf(w)] = [row EXCEPT !.attempts = n]]
      PROVE  \A d \in Delivery : event'[d].key = event[d].key /\ (Stored(d)' <=> Stored(d))
  <2>1. EventOf(w) \in Delivery /\ Stored(EventOf(w))
    BY <1>2, <1>3 DEF WorkersOwnRows
  <2>2. /\ row \in EventRow
        /\ row.key = event[EventOf(w)].key /\ row.status # "none"
    BY <1>1, <1>3, <2>1 DEF WithStatus, Stored, EventRow, StoredStatus
  <2>3. /\ event'[EventOf(w)].key = row.key
        /\ event'[EventOf(w)].status = row.status
        /\ \A d \in Delivery \ {EventOf(w)} : event'[d] = event[d]
    BY <1>1, <1>3, <2>1, <2>2 DEF EventRow
  <2> QED
    BY <2>1, <2>2, <2>3 DEF Stored
<1>4. UNCHANGED event => \A d \in Delivery : event'[d].key = event[d].key /\ (Stored(d)' <=> Stored(d))
  BY DEF Stored
<1>5. CASE FinishSink(w)
  BY <1>3, <1>5 DEF FinishSink
<1>6. CASE BeginAttempt(w)
  <2>1. worker[w].attempt_no + 1 \in Nat
    BY <1>1 DEF WorkerState
  <2> QED
    BY <1>3, <1>6, <2>1 DEF BeginAttempt
<1>7. CASE Delivered(w)
  BY <1>3, <1>7 DEF Delivered, Record
<1>8. CASE DeadLettered(w)
  BY <1>3, <1>8 DEF DeadLettered, Record
<1>9. CASE AttemptFailed(w)
  BY <1>3, <1>9 DEF AttemptFailed, Record
<1> QED
  BY <1>4, <1>5, <1>6, <1>7, <1>8, <1>9
     DEF ForwarderStep, Take, Load, Post, DeadLetterClash, Retry, Acknowledge,
         WorkerCrash, Redeliver, Requeue, storeVars

(* What a handler's step does to the store: nothing, but for the insert of *)
(* Persist, which finds its key unclaimed, and the task of Enqueue.        *)
LEMMA ReceiverWrites ==
    ASSUME TypeOK, NEW d \in Delivery, ReceiverStep(d)
    PROVE  /\ \A x \in Delivery \ {d} : request'[x] = request[x]
           /\ UNCHANGED <<log, dead>>
           /\ \/ UNCHANGED <<event, keyRow>> /\ request[d].pc # "enqueue"
              \/ UNCHANGED <<event, keyRow>> /\ request'[d].pc \in {"done", "crashed"}
              \/ /\ Persist(d) /\ ~ Claimed(request[d].key)
                 /\ request[d].pc = "persist" /\ request'[d].pc = "enqueue"
                 /\ request'[d].event = request[d].event
                 /\ \A x \in Delivery \ {d} : event'[x] = event[x]
                 /\ event'[d].status = "received" /\ event'[d].key = request[d].key
                 /\ keyRow' = [x \in Key |-> IF x = request[d].key THEN d ELSE keyRow[x]]
<1>1. request \in [Delivery -> Request] /\ event \in [Delivery -> EventRow]
  BY DEF TypeOK, IngestTypeOK, StoreTypeOK
<1>2. CASE Persist(d)
  <2>1. CASE Claimed(request[d].key)
    BY <1>1, <1>2, <2>1 DEF Persist, storeVars
  <2>2. CASE ~ Claimed(request[d].key)
    BY <1>1, <1>2, <2>2 DEF Persist, Request
  <2> QED
    BY <2>1, <2>2
<1>3. CASE Refuse(d) \/ FastPath(d) \/ Resolve(d) \/ EnqueueFails(d) \/ Enqueue(d)
  BY <1>1, <1>3, ZenonT(60)
  DEF Refuse, FastPath, Resolve, EnqueueFails, Enqueue, Reply, storeVars, Request
<1>4. CASE Admit(d)
  BY <1>1, <1>4 DEF Admit, storeVars
<1>5. CASE HandlerCrash(d)
  BY <1>1, <1>5 DEF HandlerCrash, storeVars, Request
<1> QED
  BY <1>2, <1>3, <1>4, <1>5 DEF ReceiverStep

(* A handler moves forward only, and names an event only when it answers.  *)
LEMMA ReceiverMoves ==
    ASSUME TypeOK, NEW d \in Delivery, ReceiverStep(d)
    PROVE  /\ request'[d].pc # "idle"
           /\ request'[d].pc \in {"lookup", "persist", "rolledback"} =>
                request[d].pc \in {"idle", "lookup", "persist"} /\ UNCHANGED <<event, keyRow>>
           /\ request'[d].pc = "enqueue" => Stored(d)'
           /\ request'[d].pc # "done" =>
                request[d].pc # "done" /\ request'[d].event = request[d].event
<1>1. request \in [Delivery -> Request] /\ event \in [Delivery -> EventRow]
  BY DEF TypeOK, IngestTypeOK, StoreTypeOK
<1>2. CASE Persist(d)
  <2>1. CASE Claimed(request[d].key)
    BY <1>1, <1>2, <2>1 DEF Persist, storeVars, Request
  <2>2. CASE ~ Claimed(request[d].key)
    BY <1>1, <1>2, <2>2 DEF Persist, Request, Stored
  <2> QED
    BY <2>1, <2>2
<1>3. CASE FastPath(d)
  <2>1. CASE Claimed(request[d].key)
    BY <1>1, <1>3, <2>1, ZenonT(60) DEF FastPath, Reply, Request
  <2>2. CASE ~ Claimed(request[d].key)
    BY <1>1, <1>3, <2>2 DEF FastPath, storeVars, Request
  <2> QED
    BY <2>1, <2>2
<1>4. CASE Refuse(d) \/ Resolve(d) \/ EnqueueFails(d) \/ Enqueue(d)
  <2>1. PICK a, e : Reply(d, a, e)
    BY <1>4, Zenon DEF Refuse, Resolve, EnqueueFails, Enqueue
  <2>2. request'[d].pc = "done"
    BY <1>1, <2>1 DEF Reply, Request
  <2> QED
    BY <2>2
<1>5. CASE Admit(d)
  BY <1>1, <1>5 DEF Admit, storeVars, Request
<1>6. CASE HandlerCrash(d)
  BY <1>1, <1>6 DEF HandlerCrash, Request
<1> QED
  BY <1>2, <1>3, <1>4, <1>5, <1>6 DEF ReceiverStep

(* Every step of a handler keeps the invariant: only the insert touches    *)
(* rows, and it claims a key nobody has.                                   *)
LEMMA ReceiverIInv ==
    ASSUME IInv, TypeOK', NEW d \in Delivery, ReceiverStep(d)
    PROVE  IInv'
<1> USE DEF IInv
<1>1. request[d].key \in Key \cup {NoKey} /\ request[d].key # NoEvent
  BY StoreAssumption DEF StoreAssumption, TypeOK, IngestTypeOK, Request
<1>2. /\ \A x \in Delivery \ {d} : request'[x] = request[x]
      /\ UNCHANGED <<log, dead, worker>>
  BY ReceiverWrites DEF ReceiverStep
<1>3. CASE UNCHANGED <<event, keyRow>>
  <2>1. \A x \in Delivery : Stored(x)' <=> Stored(x)
    BY <1>3 DEF Stored
  <2>2. HandlersOwnRows'
    <3>1. request'[d].pc = "enqueue" => Stored(d)'
      BY ReceiverMoves
    <3>2. request'[d].pc \in {"idle", "lookup", "persist", "rolledback"} => ~ Stored(d)'
      BY <2>1, ReceiverMoves DEF HandlersOwnRows
    <3>3. request'[d].pc # "done" => request'[d].event = NoEvent
      BY ReceiverMoves DEF HandlersOwnRows
    <3> QED
      BY <1>2, <2>1, <3>1, <3>2, <3>3 DEF HandlersOwnRows
  <2>3. WorkersOwnRows'
    BY <1>2, <1>3 DEF WorkersOwnRows, EventOf, Stored
  <2>4. KeysMatchEvents'
    BY <1>3 DEF KeysMatchEvents, Stored
  <2>5. DeadLettersHaveEvidence'
    BY <1>2, <1>3 DEF DeadLettersHaveEvidence
  <2> QED
    BY <2>2, <2>3, <2>4, <2>5
<1>4. CASE ~ UNCHANGED <<event, keyRow>>
  <2>1. /\ ~ Claimed(request[d].key)
        /\ request[d].pc = "persist" /\ request'[d].pc = "enqueue"
        /\ request'[d].event = request[d].event
        /\ \A x \in Delivery \ {d} : event'[x] = event[x]
        /\ event'[d].status = "received" /\ event'[d].key = request[d].key
        /\ keyRow' = [x \in Key |-> IF x = request[d].key THEN d ELSE keyRow[x]]
    BY <1>4, ReceiverWrites
  <2>2. ~ Stored(d) /\ Stored(d)' /\ \A x \in Delivery \ {d} : Stored(x)' <=> Stored(x)
    BY <2>1 DEF HandlersOwnRows, Stored
  <2>3. HandlersOwnRows'
    BY <1>2, <2>1, <2>2 DEF HandlersOwnRows
  <2>4. WorkersOwnRows'
    <3> SUFFICES ASSUME NEW w \in Worker, worker[w].pc \in {"begin", "post", "finish"}
                 PROVE  Stored(EventOf(w))'
      BY <1>2 DEF WorkersOwnRows
    <3>1. EventOf(w) \in Delivery /\ EventOf(w)' = EventOf(w)
      BY <1>2 DEF TypeOK, ForwardTypeOK, EventOf, Task
    <3> QED
      BY <2>2, <3>1 DEF WorkersOwnRows, Stored
  <2>5. KeysMatchEvents'
    <3>1. ASSUME NEW k \in Key, keyRow'[k] # NoEvent
          PROVE  event'[keyRow'[k]].status # "none" /\ event'[keyRow'[k]].key = k
      <4>1. CASE k = request[d].key
        BY <2>1, <2>2, <4>1 DEF Stored
      <4>2. CASE k # request[d].key
        <5>1. keyRow'[k] = keyRow[k] /\ keyRow[k] # NoEvent
          BY <2>1, <3>1, <4>2
        <5>2. Stored(keyRow[k]) /\ event[keyRow[k]].key = k /\ keyRow[k] \in Delivery
          BY <5>1 DEF KeysMatchEvents, TypeOK, IngestTypeOK, StoreTypeOK
        <5>3. keyRow[k] # d
          BY <2>2, <5>2
        <5> QED
          BY <2>1, <5>1, <5>2, <5>3 DEF Stored
      <4> QED
        BY <4>1, <4>2
    <3>2. ASSUME NEW x \in Delivery, Stored(x)', event'[x].key # NoKey
          PROVE  keyRow'[event'[x].key] = x
      <4>1. CASE x = d
        BY <1>1, <2>1, <3>2, <4>1
      <4>2. CASE x # d
        <5>1. event'[x] = event[x] /\ Stored(x) /\ event[x].key \in Key
          BY <2>1, <2>2, <3>2, <4>2 DEF TypeOK, IngestTypeOK, StoreTypeOK, EventRow
        <5>2. keyRow[event[x].key] = x
          BY <3>2, <5>1 DEF KeysMatchEvents
        <5>3. x # NoEvent
          BY StoreAssumption DEF StoreAssumption
        <5>4. event[x].key # request[d].key
          BY <2>1, <3>2, <5>1, <5>2, <5>3 DEF Claimed
        <5> QED
          BY <2>1, <5>1, <5>2, <5>4
      <4> QED
        BY <4>1, <4>2
    <3> QED
      BY <3>1, <3>2 DEF KeysMatchEvents, Stored
  <2>6. DeadLettersHaveEvidence'
    BY <1>2, <2>1 DEF DeadLettersHaveEvidence
  <2> QED
    BY <2>3, <2>4, <2>5, <2>6
<1> QED
  BY <1>3, <1>4

(* A worker starts to work on a row only where its load step found one.    *)
LEMMA WorkerMoves ==
    ASSUME TypeOK, WorkersOwnRows, NEW w \in Worker, ForwarderStep(w)
    PROVE  /\ \A v \in Worker \ {w} : worker'[v] = worker[v]
           /\ worker'[w].pc \in {"begin", "post", "finish"} =>
                /\ worker'[w].task = worker[w].task
                /\ worker[w].pc # "idle" /\ Stored(EventOf(w))
<1>1. worker \in [Worker -> WorkerState]
  BY DEF TypeOK, ForwardTypeOK
<1>2. ASSUME NEW pc \in {"finish", "retry", "ack"}, worker' = [worker EXCEPT ![w].pc = pc]
      PROVE  /\ \A v \in Worker \ {w} : worker'[v] = worker[v]
             /\ worker'[w].pc = pc /\ worker'[w].task = worker[w].task
  BY <1>1, <1>2 DEF WorkerState
<1>3. ASSUME worker' = [worker EXCEPT ![w] = Idle]
      PROVE  /\ \A v \in Worker \ {w} : worker'[v] = worker[v]
             /\ worker'[w].pc = "idle"
  BY <1>1, <1>3 DEF Idle
<1>4. ASSUME NEW t \in Task, Take(w, t)
      PROVE  /\ \A v \in Worker \ {w} : worker'[v] = worker[v]
             /\ worker'[w].pc = "load"
  BY <1>1, <1>4 DEF Take, Idle, WorkerState
<1>5. CASE Load(w)
  BY <1>1, <1>5 DEF Load, WorkerState, Stored
<1>6. CASE FinishSink(w)
  BY <1>2, <1>6 DEF FinishSink, End
<1>7. CASE BeginAttempt(w)
  BY <1>1, <1>7 DEF BeginAttempt, WorkerState, WorkersOwnRows
<1>8. CASE Post(w)
  <2>1. PICK ok \in BOOLEAN :
          worker' = [worker EXCEPT ![w] = [@ EXCEPT !.pc = "finish", !.ok = ok]]
    BY <1>8 DEF Post
  <2>2. /\ \A v \in Worker \ {w} : worker'[v] = worker[v]
        /\ worker'[w].task = worker[w].task
    BY <1>1, <2>1 DEF WorkerState
  <2> QED
    BY <1>8, <2>2 DEF Post, WorkersOwnRows
<1>9. CASE Delivered(w)
  BY <1>2, <1>9 DEF Delivered, End
<1>10. CASE DeadLettered(w)
  BY <1>2, <1>10 DEF DeadLettered, End
<1>11. CASE DeadLetterClash(w)
  BY <1>2, <1>11 DEF DeadLetterClash, End
<1>12. CASE AttemptFailed(w)
  BY <1>2, <1>12 DEF AttemptFailed
<1>13. CASE Retry(w)
  BY <1>2, <1>13 DEF Retry, End
<1>14. CASE Acknowledge(w) \/ WorkerCrash(w)
  BY <1>3, <1>14 DEF Acknowledge, WorkerCrash
<1>15. CASE Redeliver(w)
  BY <1>1, <1>15 DEF Redeliver, Requeue, WorkersOwnRows, WorkerState
<1> QED
  BY <1>4, <1>5, <1>6, <1>7, <1>8, <1>9, <1>10, <1>11, <1>12, <1>13, <1>14, <1>15
     DEF ForwarderStep

(* Appending to a log keeps its rows and adds the new one at the end.      *)
LEMMA AppendKeeps ==
    ASSUME NEW rows \in Seq(Nat), NEW n \in Nat
    PROVE  /\ Len(rows) + 1 \in DOMAIN Append(rows, n)
           /\ Append(rows, n)[Len(rows) + 1] = n
           /\ \A i \in DOMAIN rows :
                 i \in DOMAIN Append(rows, n) /\ Append(rows, n)[i] = rows[i]
  OBVIOUS

(* Worker steps and dead letters: only DeadLettered marks an event dead,   *)
(* and no step shortens a log.                                             *)
LEMMA WorkersKeepEvidence ==
    ASSUME TypeOK, WorkersOwnRows, DeadLettersHaveEvidence,
           NEW w \in Worker, ForwarderStep(w)
    PROVE  DeadLettersHaveEvidence'
<1>1. /\ event \in [Delivery -> EventRow] /\ worker \in [Worker -> WorkerState]
      /\ log \in [Delivery -> Seq(Nat)]
  BY DEF TypeOK, IngestTypeOK, StoreTypeOK, ForwardTypeOK
<1>2. worker[w].pc # "idle" => EventOf(w) \in Delivery
  BY DEF TypeOK, ForwardTypeOK, EventOf, Task
<1>3. UNCHANGED <<event, log, dead>> => DeadLettersHaveEvidence'
  BY DEF DeadLettersHaveEvidence
<1>4. ASSUME NEW s \in StoredStatus, EventOf(w) \in Delivery,
             NEW row, row = WithStatus(event[EventOf(w)], w, s)
      PROVE  row \in EventRow /\ row.status \in {s, event[EventOf(w)].status}
  BY <1>1, <1>4 DEF WithStatus, EventRow
<1>5. CASE FinishSink(w)
  <2>1. EventOf(w) \in Delivery /\ UNCHANGED <<log, dead>>
    BY <1>2, <1>5 DEF FinishSink
  <2>2. \A d \in Delivery : event'[d].status \in {"done", event[d].status}
    BY <1>1, <1>4, <1>5, <2>1 DEF FinishSink, StoredStatus
  <2> QED
    BY <2>1, <2>2 DEF DeadLettersHaveEvidence
<1>6. CASE BeginAttempt(w)
  <2>1. EventOf(w) \in Delivery /\ UNCHANGED <<log, dead>>
    BY <1>2, <1>6 DEF BeginAttempt
  <2> DEFINE row == WithStatus(event[EventOf(w)], w, "processing")
  <2>2. row \in EventRow /\ row.status \in {"processing", event[EventOf(w)].status}
    BY <1>4, <2>1 DEF StoredStatus
  <2>3. event' = [event EXCEPT ![EventOf(w)] = [row EXCEPT !.attempts = worker[w].attempt_no + 1]]
    BY <1>6 DEF BeginAttempt
  <2> HIDE DEF row
  <2>4. \A d \in Delivery : event'[d].status \in {"processing", event[d].status}
    BY <1>1, <2>1, <2>2, <2>3 DEF EventRow
  <2> QED
    BY <2>1, <2>4 DEF DeadLettersHaveEvidence
<1>7. ASSUME NEW s \in StoredStatus, Record(w, s)
      PROVE  /\ EventOf(w) \in Delivery
             /\ \A d \in Delivery \ {EventOf(w)} : event'[d] = event[d] /\ log'[d] = log[d]
             /\ event'[EventOf(w)].status \in {s, event[EventOf(w)].status}
             /\ log'[EventOf(w)] = Append(log[EventOf(w)], worker[w].attempt_no)
             /\ log[EventOf(w)] \in Seq(Nat) /\ worker[w].attempt_no \in Nat
  <2>1. EventOf(w) \in Delivery
    BY <1>2, <1>7 DEF Record
  <2> QED
    BY <1>1, <1>4, <1>7, <2>1 DEF Record, WorkerState
<1>8. ASSUME NEW s \in StoredStatus, Record(w, s)
      PROVE  \A d \in Delivery :
               (\E i \in DOMAIN log[d] : log[d][i] >= MaxAttempts)
                 => \E i \in DOMAIN log'[d] : log'[d][i] >= MaxAttempts
  <2> SUFFICES ASSUME NEW d \in Delivery, NEW i \in DOMAIN log[d], log[d][i] >= MaxAttempts
               PROVE  \E j \in DOMAIN log'[d] : log'[d][j] >= MaxAttempts
    OBVIOUS
  <2>1. CASE d = EventOf(w)
    <3>1. /\ log'[d] = Append(log[d], worker[w].attempt_no)
          /\ log[d] \in Seq(Nat) /\ worker[w].attempt_no \in Nat
      BY <1>7, <1>8, <2>1
    <3>2. i \in DOMAIN log'[d] /\ log'[d][i] = log[d][i]
      BY <3>1, AppendKeeps
    <3> QED
      BY <3>2
  <2>2. CASE d # EventOf(w)
    BY <1>7, <1>8, <2>2
  <2> QED
    BY <2>1, <2>2
<1>9. ASSUME NEW s \in {"done", "failed"}, Record(w, s), UNCHANGED dead
      PROVE  DeadLettersHaveEvidence'
  <2>1. \A d \in Delivery : event'[d].status \in {s, event[d].status}
    BY <1>7, <1>9 DEF StoredStatus
  <2> QED
    BY <1>8, <1>9, <2>1 DEF DeadLettersHaveEvidence, StoredStatus
<1>10. CASE DeadLettered(w)
  <2>1. Record(w, "dead") /\ dead' = dead \cup {EventOf(w)}
        /\ worker[w].attempt_no >= MaxAttempts
    BY <1>10 DEF DeadLettered, Exhausted
  <2> DEFINE e == EventOf(w)
             n == Len(log[e]) + 1
  <2>2. n \in DOMAIN log'[e] /\ log'[e][n] = worker[w].attempt_no
    <3>1. /\ log'[e] = Append(log[e], worker[w].attempt_no)
          /\ log[e] \in Seq(Nat) /\ worker[w].attempt_no \in Nat
      BY <1>7, <2>1 DEF StoredStatus
    <3> HIDE DEF e
    <3> QED
      BY <3>1, AppendKeeps
  <2>3. \E i \in DOMAIN log'[e] : log'[e][i] >= MaxAttempts
    BY <2>1, <2>2
  <2>4. \A d \in Delivery \ {e} : event'[d].status = event[d].status /\ log'[d] = log[d]
    BY <1>7, <2>1 DEF StoredStatus
  <2> HIDE DEF e, n
  <2> QED
    BY <2>1, <2>3, <2>4 DEF DeadLettersHaveEvidence, e
<1> QED
  BY <1>3, <1>5, <1>6, <1>9, <1>10
     DEF ForwarderStep, Take, Load, Post, DeadLetterClash, Retry, Acknowledge,
         WorkerCrash, Redeliver, Requeue, storeVars, Delivered, AttemptFailed

(* Every step of a worker keeps the invariant: workers write evidence      *)
(* before marks and leave keys alone.                                      *)
LEMMA ForwarderIInv ==
    ASSUME IInv, TypeOK', NEW w \in Worker, ForwarderStep(w)
    PROVE  IInv'
<1> USE DEF IInv
<1>1. /\ keyRow' = keyRow /\ UNCHANGED request
      /\ \A d \in Delivery : event'[d].key = event[d].key /\ (Stored(d)' <=> Stored(d))
  BY WorkersKeepRows DEF ForwarderStep
<1>2. HandlersOwnRows'
  BY <1>1 DEF HandlersOwnRows
<1>3. WorkersOwnRows'
  <2> SUFFICES ASSUME NEW v \in Worker, worker'[v].pc \in {"begin", "post", "finish"}
               PROVE  Stored(EventOf(v))'
    BY DEF WorkersOwnRows
  <2>1. /\ worker'[v].task = worker[v].task
        /\ worker[v].pc # "idle" /\ Stored(EventOf(v))
    BY WorkerMoves DEF WorkersOwnRows
  <2>2. EventOf(v) \in Delivery
    BY <2>1 DEF TypeOK, ForwardTypeOK, EventOf, Task
  <2> QED
    BY <1>1, <2>1, <2>2 DEF EventOf, Stored
<1>4. KeysMatchEvents'
  <2>1. ASSUME NEW k \in Key, keyRow[k] # NoEvent
        PROVE  keyRow[k] \in Delivery
    BY <2>1 DEF TypeOK, IngestTypeOK, StoreTypeOK
  <2> QED
    BY <1>1, <2>1 DEF KeysMatchEvents, Stored
<1> QED
  BY <1>2, <1>3, <1>4, WorkersKeepEvidence

(* The retention job keeps the invariant: it takes events with their keys, *)
(* and none that is in hand.                                               *)
LEMMA PurgeIInv ==
    ASSUME IInv, TypeOK', NEW cutoff, PurgeExpired(cutoff)
    PROVE  IInv'
<1> USE DEF IInv
<1> DEFINE S == Expired(cutoff)
<1>1. /\ \A d \in S : ~ InHand(d)
      /\ event' = [d \in Delivery |-> IF d \in S THEN AbsentRow ELSE event[d]]
      /\ keyRow' = [k \in Key |-> IF keyRow[k] \in S THEN NoEvent ELSE keyRow[k]]
      /\ log' = [d \in Delivery |-> IF d \in S THEN <<>> ELSE log[d]]
      /\ dead' = dead \ S
      /\ UNCHANGED <<request, worker>>
  BY DEF PurgeExpired
<1> HIDE DEF S
<1>2. \A d \in Delivery : Stored(d)' <=> Stored(d) /\ d \notin S
  BY <1>1 DEF Stored, AbsentRow
<1>3. HandlersOwnRows'
  BY <1>1, <1>2 DEF HandlersOwnRows, InHand
<1>4. WorkersOwnRows'
  <2> SUFFICES ASSUME NEW w \in Worker, worker[w].pc \in {"begin", "post", "finish"}
               PROVE  Stored(EventOf(w))'
    BY <1>1 DEF WorkersOwnRows
  <2>1. EventOf(w) \in Delivery /\ EventOf(w)' = EventOf(w) /\ Stored(EventOf(w))
    BY <1>1 DEF TypeOK, ForwardTypeOK, EventOf, Task, WorkersOwnRows
  <2>2. EventOf(w) \notin S
    BY <1>1 DEF InHand, EventOf
  <2> QED
    BY <1>2, <2>1, <2>2 DEF Stored
<1>5. KeysMatchEvents'
  <2>1. ASSUME NEW k \in Key, keyRow'[k] # NoEvent
        PROVE  event'[keyRow'[k]].status # "none" /\ event'[keyRow'[k]].key = k
    <3>1. keyRow'[k] = keyRow[k] /\ keyRow[k] \notin S /\ keyRow[k] \in Delivery
      BY <1>1, <2>1 DEF TypeOK, IngestTypeOK, StoreTypeOK
    <3> QED
      BY <1>1, <2>1, <3>1 DEF KeysMatchEvents, Stored
  <2>2. ASSUME NEW d \in Delivery, Stored(d)', event'[d].key # NoKey
        PROVE  keyRow'[event'[d].key] = d
    <3>1. event'[d] = event[d] /\ d \notin S /\ Stored(d) /\ event[d].key \in Key
      BY <1>1, <1>2, <2>2 DEF TypeOK, IngestTypeOK, StoreTypeOK, EventRow
    <3> QED
      BY <1>1, <2>2, <3>1 DEF KeysMatchEvents
  <2> QED
    BY <2>1, <2>2 DEF KeysMatchEvents, Stored
<1>6. DeadLettersHaveEvidence'
  BY <1>1 DEF DeadLettersHaveEvidence, AbsentRow
<1> QED
  BY <1>3, <1>4, <1>5, <1>6

(* Every step, and every stuttering step, keeps the invariant.             *)
LEMMA StepIInv == IInv /\ [Next]_vars => IInv'
<1>1. ASSUME IInv, Next PROVE IInv'
  <2>1. TypeOK'
    BY <1>1, StepTypeOK DEF IInv
  <2> QED
    BY <1>1, <2>1, NextSteps, ReceiverIInv, ForwarderIInv, PurgeIInv
<1>2. ASSUME IInv, UNCHANGED vars PROVE IInv'
  <2>1. TypeOK'
    BY <1>2, StepTypeOK DEF IInv
  <2> QED
    BY <1>2, <2>1 DEF IInv, HandlersOwnRows, WorkersOwnRows, KeysMatchEvents,
       DeadLettersHaveEvidence, Stored, EventOf, vars, storeVars
<1> QED
  BY <1>1, <1>2

(* The inductive invariant of the whole path, from which the theorems      *)
(* below follow (ingest.py, forward.py and retention.py together).         *)
THEOREM Inductive == Spec => []IInv
  BY InitIInv, StepIInv, PTL DEF Spec

(* The key rows and the stored events agree at all times: whatever the     *)
(* number of handlers, however they interleave and crash, and whatever the *)
(* retention job removes, no key ever has two events (ingest.py).          *)
THEOREM KeysAlwaysMatch == Spec => []KeysMatchEvents
<1>1. IInv => KeysMatchEvents
  BY DEF IInv
<1> QED
  BY <1>1, Inductive, PTL

(* Every dead letter is backed by a recorded attempt at the limit, and no  *)
(* event is marked dead without its dead letter (forward.py).              *)
THEOREM DeadLettersAlwaysBacked == Spec => []DeadLettersHaveEvidence
<1>1. IInv => DeadLettersHaveEvidence
  BY DEF IInv
<1> QED
  BY <1>1, Inductive, PTL
-----------------------------------------------------------------------------
(* The receiver implements KeyedIntake.                                    *)

(* Each stored event with its key, as KeyedIntake sees the store.          *)
Live == [d \in Delivery |-> IF Stored(d) THEN event[d].key ELSE NoEvent]

(* The answered event of each delivery.                                    *)
Answered == [d \in Delivery |-> request[d].event]

(* With no event, no key and no answer, the intake has not begun.          *)
LEMMA InitIntake == Init => Intake!Init
  BY DEF Init, IngestInit, StoreInit, AbsentRow, Stored, Intake!Init

(* The steps of KeyedIntake.                                               *)
LEMMA IntakeNext ==
    /\ \A d \in Delivery, k \in Key \cup {NoKey} : Intake!Accept(d, k) => Intake!Next
    /\ \A d \in Delivery, k \in Key : Intake!Repeat(d, k) => Intake!Next
    /\ \A d \in Delivery : Intake!Confirm(d) => Intake!Next
    /\ \A S \in SUBSET Delivery : Intake!Forget(S) => Intake!Next
  BY DEF Intake!Next

(* A key that is stored is one of the receiver's, never "no such row".     *)
LEMMA LiveIsStored ==
    ASSUME TypeOK, NEW d \in Delivery
    PROVE  Live[d] # NoEvent <=> Stored(d)
  BY StoreAssumption
  DEF StoreAssumption, TypeOK, IngestTypeOK, StoreTypeOK, EventRow, Live

(* The insert is the step that accepts a delivery.                         *)
LEMMA PersistAccepts ==
    ASSUME IInv, NEW d \in Delivery, Persist(d), ~ Claimed(request[d].key)
    PROVE  Intake!Next
<1> PICK k \in Key \cup {NoKey} : k = request[d].key
  BY DEF IInv, TypeOK, IngestTypeOK, Request
<1>1. /\ request \in [Delivery -> Request] /\ event \in [Delivery -> EventRow]
  BY DEF IInv, TypeOK, IngestTypeOK, StoreTypeOK
<1>2. request[d].pc = "persist" /\ ~ Stored(d) /\ request[d].event = NoEvent
  BY DEF Persist, IInv, HandlersOwnRows
<1>3. /\ event'[d].status = "received" /\ event'[d].key = k
      /\ \A x \in Delivery \ {d} : event'[x] = event[x]
      /\ keyRow' = [x \in Key |-> IF x = k THEN d ELSE keyRow[x]]
      /\ \A x \in Delivery : request'[x].event = request[x].event
  BY <1>1 DEF Persist, Request
<1>4. Live' = [Live EXCEPT ![d] = k]
  BY <1>2, <1>3 DEF Live, Stored
<1>5. Answered' = Answered
  BY <1>3 DEF Answered
<1>6. k \in Key => keyRow[k] = NoEvent
  BY StoreAssumption DEF StoreAssumption, Claimed
<1>7. Live[d] = NoEvent /\ Answered[d] = NoEvent
  BY <1>2 DEF Live, Answered
<1>8. Intake!Accept(d, k)
  BY <1>3, <1>4, <1>5, <1>6, <1>7 DEF Intake!Accept, Live, Answered
<1> QED
  BY <1>8, IntakeNext

(* A step that stores nothing and answers no delivery is not seen; one     *)
(* that answers with the owner of the key is a repeat, and one that        *)
(* answers with the event of the delivery itself confirms it.              *)
LEMMA AnswersIntake ==
    ASSUME IInv, NEW d \in Delivery, UNCHANGED <<event, keyRow>>,
           \A x \in Delivery \ {d} : request'[x] = request[x],
           \/ request'[d].event = request[d].event
           \/ /\ request[d].event = NoEvent
              /\ \/ /\ ~ Stored(d) /\ Claimed(request[d].key)
                    /\ request'[d].event = keyRow[request[d].key]
                 \/ Stored(d) /\ request'[d].event = d
    PROVE  Intake!Next \/ UNCHANGED Intake!vars
<1>1. /\ Live' = Live /\ keyRow' = keyRow
      /\ request \in [Delivery -> Request]
  BY DEF Live, Stored, IInv, TypeOK, IngestTypeOK
<1>2. CASE request'[d].event = request[d].event
  <2>1. Answered' = Answered
    BY <1>2 DEF Answered
  <2> QED
    BY <1>1, <2>1 DEF Intake!vars, Live, Answered
<1>3. CASE /\ request[d].event = NoEvent /\ ~ Stored(d) /\ Claimed(request[d].key)
           /\ request'[d].event = keyRow[request[d].key]
  <2>1. PICK k \in Key : k = request[d].key /\ keyRow[k] # NoEvent
    BY <1>1, <1>3 DEF Request, Claimed
  <2>2. Answered' = [Answered EXCEPT ![d] = keyRow[k]]
    BY <1>3, <2>1 DEF Answered
  <2>3. Live[d] = NoEvent /\ Answered[d] = NoEvent
    BY <1>3 DEF Live, Answered
  <2>4. Intake!Repeat(d, k)
    BY <1>1, <2>1, <2>2, <2>3 DEF Intake!Repeat, Live, Answered
  <2> QED
    BY <2>4, IntakeNext
<1>4. CASE request[d].event = NoEvent /\ Stored(d) /\ request'[d].event = d
  <2>1. Answered' = [Answered EXCEPT ![d] = d]
    BY <1>4 DEF Answered
  <2>2. Live[d] # NoEvent /\ Answered[d] = NoEvent
    BY <1>4, LiveIsStored DEF Answered, IInv
  <2>3. Intake!Confirm(d)
    BY <1>1, <2>1, <2>2 DEF Intake!Confirm, Live, Answered
  <2> QED
    BY <2>3 DEF Intake!Next
<1> QED
  BY <1>2, <1>3, <1>4

(* What the handler of a delivery answers.                                 *)
LEMMA ReceiverAnswers ==
    ASSUME IInv, NEW d \in Delivery, ReceiverStep(d), UNCHANGED <<event, keyRow>>
    PROVE  \/ request'[d].event = request[d].event
           \/ /\ request[d].event = NoEvent
              /\ \/ /\ ~ Stored(d) /\ Claimed(request[d].key)
                    /\ request'[d].event = keyRow[request[d].key]
                 \/ Stored(d) /\ request'[d].event = d
<1>1. request \in [Delivery -> Request]
  BY DEF IInv, TypeOK, IngestTypeOK
<1>2. ASSUME NEW a, NEW e, Reply(d, a, e)
      PROVE  request'[d].event = e
  BY <1>1, <1>2 DEF Reply, Request
<1>3. /\ request[d].pc # "done" => request[d].event = NoEvent
      /\ request[d].pc \in {"lookup", "rolledback"} => ~ Stored(d)
      /\ request[d].pc = "enqueue" => Stored(d)
  BY DEF IInv, HandlersOwnRows
<1>4. CASE Refuse(d) \/ EnqueueFails(d)
  <2>1. \E a : Reply(d, a, NoEvent) /\ request[d].pc \in {"idle", "enqueue"}
    BY <1>4 DEF Refuse, EnqueueFails
  <2> QED
    BY <1>2, <1>3, <2>1
<1>5. CASE FastPath(d)
  <2>1. CASE Claimed(request[d].key)
    <3>1. Reply(d, "duplicate", keyRow[request[d].key]) /\ request[d].pc = "lookup"
      BY <1>5, <2>1 DEF FastPath
    <3> QED
      BY <1>2, <1>3, <2>1, <3>1
  <2>2. CASE ~ Claimed(request[d].key)
    BY <1>1, <1>5, <2>2 DEF FastPath, Request
  <2> QED
    BY <2>1, <2>2
<1>6. CASE Resolve(d)
  <2>1. CASE Claimed(request[d].key)
    <3>1. Reply(d, "duplicate", keyRow[request[d].key]) /\ request[d].pc = "rolledback"
      BY <1>6, <2>1 DEF Resolve
    <3> QED
      BY <1>2, <1>3, <2>1, <3>1
  <2>2. CASE ~ Claimed(request[d].key)
    <3>1. Reply(d, "conflict", NoEvent) /\ request[d].pc = "rolledback"
      BY <1>6, <2>2 DEF Resolve
    <3> QED
      BY <1>2, <1>3, <3>1
  <2> QED
    BY <2>1, <2>2
<1>7. CASE Enqueue(d)
  <2>1. Reply(d, "accepted", d) /\ request[d].pc = "enqueue"
    BY <1>7 DEF Enqueue
  <2> QED
    BY <1>2, <1>3, <2>1
<1>8. CASE Admit(d) \/ HandlerCrash(d)
  BY <1>1, <1>8, ZenonT(60) DEF Admit, HandlerCrash, Request
<1>9. CASE Persist(d)
  <2>1. \E pc : request' = [request EXCEPT ![d].pc = pc]
    BY <1>9 DEF Persist
  <2> QED
    BY <1>1, <2>1 DEF Request
<1> QED
  BY <1>4, <1>5, <1>6, <1>7, <1>8, <1>9 DEF ReceiverStep

(* The retention job forgets events with the keys they own.                *)
LEMMA PurgeForgets ==
    ASSUME IInv, NEW cutoff, PurgeExpired(cutoff)
    PROVE  Intake!Next
<1> PICK S \in SUBSET Delivery : S = Expired(cutoff)
  BY DEF Expired
<1>1. /\ S # {} /\ S \subseteq Delivery /\ \A d \in S : Stored(d)
      /\ event' = [d \in Delivery |-> IF d \in S THEN AbsentRow ELSE event[d]]
      /\ keyRow' = [k \in Key |-> IF keyRow[k] \in S THEN NoEvent ELSE keyRow[k]]
      /\ UNCHANGED request
  BY DEF PurgeExpired, Expired
<1>2. Live' = [d \in Delivery |-> IF d \in S THEN NoEvent ELSE Live[d]]
  <2>1. \A d \in Delivery : Live'[d] = IF d \in S THEN NoEvent ELSE Live[d]
    BY <1>1 DEF Live, Stored, AbsentRow
  <2> QED
    BY <2>1 DEF Live
<1>3. \A d \in S : Live[d] # NoEvent
  BY <1>1, LiveIsStored DEF IInv
<1>4. Intake!Forget(S)
  BY <1>1, <1>2, <1>3 DEF Intake!Forget, Live
<1> QED
  BY <1>1, <1>4, IntakeNext

(* Every step of the system is one of the promised steps, or none of them. *)
LEMMA StepIntake == IInv /\ [Next]_vars => [Intake!Next]_(Intake!vars)
<1> SUFFICES ASSUME IInv, [Next]_vars PROVE Intake!Next \/ UNCHANGED Intake!vars
  OBVIOUS
<1>1. TypeOK
  BY DEF IInv
<1>2. ASSUME NEW d \in Delivery, ReceiverStep(d)
      PROVE  Intake!Next \/ UNCHANGED Intake!vars
  <2>1. \A x \in Delivery \ {d} : request'[x] = request[x]
    BY <1>1, <1>2, ReceiverWrites
  <2>2. CASE UNCHANGED <<event, keyRow>>
    BY <1>2, <2>1, <2>2, ReceiverAnswers, AnswersIntake
  <2>3. CASE Persist(d) /\ ~ Claimed(request[d].key)
    BY <2>3, PersistAccepts, IntakeNext
  <2> QED
    BY <1>1, <1>2, <2>2, <2>3, ReceiverWrites
<1>3. ASSUME NEW w \in Worker, ForwarderStep(w)
      PROVE  UNCHANGED Intake!vars
  <2>1. /\ keyRow' = keyRow /\ UNCHANGED request
        /\ \A d \in Delivery : event'[d].key = event[d].key /\ (Stored(d)' <=> Stored(d))
    BY <1>1, <1>3, WorkersKeepRows DEF ForwarderStep, IInv
  <2>2. Live' = Live /\ Answered' = Answered
    BY <2>1 DEF Live, Answered
  <2> QED
    BY <2>1, <2>2 DEF Intake!vars, Live, Answered
<1>4. ASSUME UNCHANGED vars PROVE UNCHANGED Intake!vars
  BY <1>4 DEF vars, storeVars, Intake!vars, Stored
<1> QED
  BY <1>2, <1>3, <1>4, NextSteps, PurgeForgets

(* The receiver keeps the promise of KeyedIntake: whatever the number of   *)
(* handlers, and however they interleave, crash and are purged under,      *)
(* every delivery is taken in by one atomic step, as a new event or as a   *)
(* repeat of the one that owns its key (ingest.py, retention.py).          *)
THEOREM IntakeRefined == Spec => IntakeIsKeyed
<1>1. Spec => []IInv
  BY Inductive
<1> QED
  BY <1>1, InitIntake, StepIntake, PTL DEF Spec, IntakeIsKeyed, Intake!Spec
-----------------------------------------------------------------------------
(* The attempts of the forward workers.                                    *)

(* The copies of the tasks of an event that wait in the broker.            *)
Copies(d) == {p \in Task \X (Nat \ {0}) : p[1].event = d /\ p[2] <= queued[p[1]]}

(* A worker is busy with an event until its task function has returned.    *)
Busy(w, d) == worker[w].pc \notin {"idle", "ack"} /\ EventOf(w) = d

(* The destination has accepted what this worker posted.                   *)
Accepted(w) == worker[w].pc = "finish" /\ worker[w].ok

(* The workers that may still have the event accepted once more.           *)
Holders(d) == {w \in Worker : Busy(w, d) /\ ~ Accepted(w)}

(* The handler of the delivery may still publish the first task.           *)
Awaited(d) == request[d].pc \notin {"done", "crashed"}

(* The destination accepts an event once for the task that its handler     *)
(* publishes and once for each redelivery: every copy in the broker and    *)
(* every worker that holds one is an acceptance that may still come.       *)
Budget(d) ==
    /\ IsFiniteSet(Copies(d)) /\ IsFiniteSet(Holders(d))
    /\ Cardinality(Copies(d)) + Cardinality(Holders(d)) + accepts[d]
          + (IF Awaited(d) THEN 1 ELSE 0) <= 1 + faults[d]

(* What a worker remembers of the event, when nobody else works on it.     *)
AtWork(w, d) ==
    /\ worker[w].pc = "begin" =>
          /\ event[d].status \in {"received", "failed"}
          /\ worker[w].status = event[d].status
          /\ worker[w].attempt_no = event[d].attempts
    /\ worker[w].pc \in {"post", "finish"} =>
          /\ event[d].status = "processing"
          /\ worker[w].status = "processing"
          /\ worker[w].attempt_no = event[d].attempts

(* An event of which no task was redelivered: one worker at a time, which  *)
(* knows the row as it is, nothing left to do once it is done or dead, and *)
(* a log of all the attempts that have ended.                              *)
Story(d) ==
    /\ \A v, w \in Worker : Busy(v, d) /\ Busy(w, d) => v = w
    /\ \A w \in Worker : Busy(w, d) => AtWork(w, d)
    /\ event[d].status = "processing" =>
          \E w \in Worker : Busy(w, d) /\ worker[w].pc \in {"post", "finish"}
    /\ event[d].status \in {"done", "dead"} \/ d \in dead =>
          /\ Copies(d) = {} /\ ~ Awaited(d)
          /\ \A w \in Worker : ~ Busy(w, d)
    /\ \A i \in DOMAIN log[d] : log[d][i] = i
    /\ Len(log[d]) + (IF event[d].status = "processing" THEN 1 ELSE 0) = event[d].attempts
    /\ event[d].status \in {"none", "received"} => event[d].attempts = 0
    /\ event[d].status = "failed" => event[d].attempts < MaxAttempts
    /\ event[d].status \in {"processing", "failed"} => event[d].connection \in Forwarding

AcceptCounted == \A w \in Worker : Accepted(w) => accepts[EventOf(w)] >= 1

AInv ==
    /\ IInv
    /\ AcceptCounted
    /\ \A d \in Delivery : Budget(d)
    /\ \A d \in Delivery : faults[d] = 0 => Story(d)

Kept(d) == Budget(d)' /\ (faults'[d] = 0 => Story(d)')

-----------------------------------------------------------------------------
(* Counting.                                                               *)

(* A published task is one copy more.                                      *)
LEMMA CopyPublished ==
    ASSUME TypeOK, NEW t \in Task, NEW d, d = t.event, Publish(t), IsFiniteSet(Copies(d))
    PROVE  IsFiniteSet(Copies(d)') /\ Cardinality(Copies(d)') = Cardinality(Copies(d)) + 1
<1>1. queued \in [Task -> Nat] /\ queued' = [queued EXCEPT ![t] = @ + 1]
  BY DEF TypeOK, IngestTypeOK, StoreTypeOK, Publish
<1> DEFINE new == <<t, queued[t] + 1>>
<1>2. queued[t] \in Nat /\ queued'[t] = queued[t] + 1
      /\ \A u \in Task \ {t} : queued'[u] = queued[u]
  BY <1>1
<1>3. new \notin Copies(d)
  BY <1>2 DEF Copies
<1>4. Copies(d)' = Copies(d) \cup {new}
  <2>1. ASSUME NEW p \in Task \X (Nat \ {0})
        PROVE  p \in Copies(d)' <=> p \in Copies(d) \cup {new}
    <3>1. PICK u \in Task, n \in Nat \ {0} : p = <<u, n>>
      BY <2>1
    <3>2. CASE u = t
      BY <1>2, <3>1, <3>2 DEF Copies
    <3>3. CASE u # t
      BY <1>2, <3>1, <3>3 DEF Copies
    <3> QED
      BY <3>2, <3>3
  <2>2. new \in Task \X (Nat \ {0})
    BY <1>2
  <2> QED
    BY <2>1, <2>2 DEF Copies
<1> HIDE DEF new
<1> QED
  BY <1>3, <1>4, FS_AddElement

(* A task that a worker takes is one copy less.                            *)
LEMMA CopyTaken ==
    ASSUME TypeOK, NEW t \in Task, NEW d, d = t.event, queued[t] > 0,
           queued' = [queued EXCEPT ![t] = @ - 1], IsFiniteSet(Copies(d))
    PROVE  IsFiniteSet(Copies(d)') /\ Cardinality(Copies(d)') = Cardinality(Copies(d)) - 1
<1>1. queued \in [Task -> Nat]
  BY DEF TypeOK, IngestTypeOK, StoreTypeOK
<1> DEFINE old == <<t, queued[t]>>
<1>2. queued[t] \in Nat \ {0} /\ queued'[t] = queued[t] - 1
      /\ \A u \in Task \ {t} : queued'[u] = queued[u]
  BY <1>1
<1>3. old \in Copies(d)
  BY <1>2 DEF Copies
<1>4. Copies(d)' = Copies(d) \ {old}
  <2>1. ASSUME NEW p \in Task \X (Nat \ {0})
        PROVE  p \in Copies(d)' <=> p \in Copies(d) \ {old}
    <3>1. PICK u \in Task, n \in Nat \ {0} : p = <<u, n>>
      BY <2>1
    <3>2. CASE u = t
      BY <1>2, <3>1, <3>2 DEF Copies
    <3>3. CASE u # t
      BY <1>2, <3>1, <3>3 DEF Copies
    <3> QED
      BY <3>2, <3>3
  <2> QED
    BY <2>1 DEF Copies
<1> HIDE DEF old
<1> QED
  BY <1>3, <1>4, FS_RemoveElement

(* The numbers of a budget are numbers.                                    *)
LEMMA BudgetNumbers ==
    ASSUME TypeOK, NEW d \in Delivery, Budget(d)
    PROVE  /\ Cardinality(Copies(d)) \in Nat /\ Cardinality(Holders(d)) \in Nat
           /\ accepts[d] \in Nat /\ faults[d] \in Nat
  BY FS_CardinalityType DEF Budget, TypeOK, ForwardTypeOK

(* A step that pays for what it adds keeps the budget.                     *)
LEMMA BudgetBalanced ==
    ASSUME TypeOK, TypeOK', NEW d \in Delivery, Budget(d),
           IsFiniteSet(Copies(d)'), IsFiniteSet(Holders(d)'),
           Cardinality(Copies(d)') + Cardinality(Holders(d)') + accepts'[d]
               + (IF Awaited(d)' THEN 1 ELSE 0) + faults[d]
             <= Cardinality(Copies(d)) + Cardinality(Holders(d)) + accepts[d]
               + (IF Awaited(d) THEN 1 ELSE 0) + faults'[d]
    PROVE  Budget(d)'
<1>1. /\ Cardinality(Copies(d)) \in Nat /\ Cardinality(Holders(d)) \in Nat
      /\ accepts[d] \in Nat /\ faults[d] \in Nat
  BY BudgetNumbers
<1>2. Cardinality(Copies(d)') \in Nat /\ Cardinality(Holders(d)') \in Nat
      /\ accepts'[d] \in Nat /\ faults'[d] \in Nat
  BY FS_CardinalityType DEF TypeOK, ForwardTypeOK
<1>3. Cardinality(Copies(d)) + Cardinality(Holders(d)) + accepts[d]
          + (IF Awaited(d) THEN 1 ELSE 0) <= 1 + faults[d]
  BY DEF Budget
<1>4. Cardinality(Copies(d)') + Cardinality(Holders(d)') + accepts'[d]
          + (IF Awaited(d)' THEN 1 ELSE 0) <= 1 + faults'[d]
  BY <1>1, <1>2, <1>3
<1> QED
  BY <1>4 DEF Budget

(* Whoever works on an event whose tasks were never redelivered is alone.  *)
LEMMA Alone ==
    ASSUME AInv, NEW d \in Delivery, faults[d] = 0, NEW w \in Worker, Busy(w, d)
    PROVE  /\ Copies(d) = {} /\ ~ Awaited(d)
           /\ \A v \in Worker : Busy(v, d) => v = w
           /\ event[d].status \notin {"done", "dead"} /\ d \notin dead
<1>1. TypeOK /\ Budget(d) /\ Story(d)
  BY DEF AInv, IInv
<1>2. /\ Cardinality(Copies(d)) \in Nat /\ Cardinality(Holders(d)) \in Nat
      /\ accepts[d] \in Nat /\ IsFiniteSet(Copies(d)) /\ IsFiniteSet(Holders(d))
  BY <1>1, BudgetNumbers DEF Budget
<1>3. Cardinality(Holders(d)) + accepts[d] >= 1
  <2>1. CASE Accepted(w)
    BY <1>2, <2>1 DEF AInv, AcceptCounted, Busy
  <2>2. CASE ~ Accepted(w)
    <3>1. w \in Holders(d)
      BY <2>2 DEF Holders
    <3>2. Cardinality(Holders(d)) # 0
      BY <1>2, <3>1, FS_EmptySet
    <3> QED
      BY <1>2, <3>2
  <2> QED
    BY <2>1, <2>2
<1>4. Cardinality(Copies(d)) = 0 /\ ~ Awaited(d)
  BY <1>1, <1>2, <1>3 DEF Budget
<1>5. Copies(d) = {}
  BY <1>2, <1>4, FS_EmptySet
<1> QED
  BY <1>1, <1>4, <1>5 DEF Story

(* While a task of such an event is under way in the broker, or about to   *)
(* be published, nobody works on it.                                       *)
LEMMA NobodyYet ==
    ASSUME AInv, NEW d \in Delivery, faults[d] = 0, Awaited(d) \/ Copies(d) # {}
    PROVE  /\ \A w \in Worker : ~ Busy(w, d)
           /\ event[d].status \notin {"processing", "done", "dead"} /\ d \notin dead
<1>1. \A w \in Worker : ~ Busy(w, d)
  BY Alone
<1>2. Story(d)
  BY DEF AInv
<1> QED
  BY <1>1, <1>2 DEF Story

(* An event that a step does not concern.                                  *)
LEMMA Untouched ==
    ASSUME NEW d \in Delivery,
           faults'[d] = faults[d], accepts'[d] = accepts[d], Awaited(d)' <=> Awaited(d),
           event'[d] = event[d], log'[d] = log[d], d \in dead' <=> d \in dead,
           \A t \in Task : t.event = d => queued'[t] = queued[t],
           \A w \in Worker : Busy(w, d)' <=> Busy(w, d),
           \A w \in Worker : Busy(w, d) => worker'[w] = worker[w],
           Budget(d), faults[d] = 0 => Story(d)
    PROVE  Kept(d)
<1>1. Copies(d)' = Copies(d)
  BY DEF Copies
<1>2. Holders(d)' = Holders(d)
  BY DEF Holders, Accepted
<1>3. Budget(d)'
  BY <1>1, <1>2 DEF Budget
<1>4. ASSUME Story(d) PROVE Story(d)'
  <2>1. \A w \in Worker : Busy(w, d)' => AtWork(w, d)'
    BY <1>4 DEF Story, AtWork
  <2>2. event'[d].status = "processing" =>
          \E w \in Worker : Busy(w, d)' /\ worker'[w].pc \in {"post", "finish"}
    BY <1>4 DEF Story
  <2> QED
    BY <1>1, <1>4, <2>1, <2>2 DEF Story
<1> QED
  BY <1>3, <1>4 DEF Kept

-----------------------------------------------------------------------------
(* The handlers.                                                           *)

(* A handler publishes one task, once, and leaves the rest of the account  *)
(* of its event alone.                                                     *)
LEMMA ReceiverAttempts ==
    ASSUME AInv, NEW d \in Delivery, ReceiverStep(d), TypeOK'
    PROVE  AcceptCounted' /\ \A x \in Delivery : Kept(x)
<1>1. /\ TypeOK /\ request \in [Delivery -> Request] /\ event \in [Delivery -> EventRow]
      /\ UNCHANGED <<worker, accepts, faults>>
  BY DEF AInv, IInv, TypeOK, IngestTypeOK, StoreTypeOK, ReceiverStep
<1>2. /\ \A x \in Delivery \ {d} : request'[x] = request[x] /\ event'[x] = event[x]
      /\ UNCHANGED <<log, dead>>
  BY <1>1, ReceiverWrites
<1>3. AcceptCounted'
  BY <1>1 DEF AInv, AcceptCounted, Accepted, EventOf
<1>4. /\ \A x \in Delivery, w \in Worker :
            (Busy(w, x)' <=> Busy(w, x)) /\ worker'[w] = worker[w]
      /\ \A x \in Delivery : Holders(x)' = Holders(x)
  BY <1>1 DEF Busy, Holders, Accepted, EventOf
<1>5. Awaited(d) /\ \/ Awaited(d)' /\ UNCHANGED queued
                    \/ ~ Awaited(d)' /\ UNCHANGED queued
                    \/ ~ Awaited(d)' /\ Publish([event |-> d, retries |-> 0])
  <2>1. CASE Enqueue(d)
    BY <1>1, <2>1 DEF Enqueue, Reply, Awaited, Request
  <2>2. CASE ~ Enqueue(d)
    BY <1>1, <2>2 DEF ReceiverStep, Refuse, Admit, FastPath, Persist, Resolve, HandlerCrash,
                      EnqueueFails, Reply, Awaited, Request, storeVars
  <2> QED
    BY <2>1, <2>2
<1>6. ASSUME NEW x \in Delivery \ {d} PROVE Kept(x)
  <2>1. \A t \in Task : t.event = x => queued'[t] = queued[t]
    BY <1>1, <1>5 DEF Publish, TypeOK, IngestTypeOK, StoreTypeOK
  <2>2. Budget(x) /\ (faults[x] = 0 => Story(x))
    BY DEF AInv
  <2> QED
    BY <1>1, <1>2, <1>4, <2>1, <2>2, Untouched DEF Awaited
<1>7. Budget(d)'
  <2>1. Budget(d)
    BY DEF AInv
  <2>4. /\ Holders(d)' = Holders(d) /\ IsFiniteSet(Holders(d)')
        /\ accepts'[d] = accepts[d] /\ faults'[d] = faults[d]
    BY <1>1, <1>4, <2>1 DEF Budget
  <2>2. CASE UNCHANGED queued
    <3>1. Copies(d)' = Copies(d)
      BY <2>2 DEF Copies
    <3>2. IsFiniteSet(Copies(d)')
      BY <2>1, <3>1 DEF Budget
    <3> QED
      BY <1>1, <1>5, <2>1, <2>4, <3>1, <3>2, BudgetBalanced, BudgetNumbers
  <2>3. CASE ~ Awaited(d)' /\ Publish([event |-> d, retries |-> 0])
    <3>1. IsFiniteSet(Copies(d)') /\ Cardinality(Copies(d)') = Cardinality(Copies(d)) + 1
      <4>1. PICK t \in Task : t = [event |-> d, retries |-> 0]
        BY FreshTask
      <4> QED
        BY <1>1, <2>1, <2>3, <4>1, CopyPublished DEF Budget
    <3> QED
      BY <1>1, <1>5, <2>1, <2>3, <2>4, <3>1, BudgetBalanced, BudgetNumbers
  <2> QED
    BY <1>5, <2>2, <2>3
<1>8. ASSUME faults[d] = 0 PROVE Story(d)'
  <2>1. /\ \A w \in Worker : ~ Busy(w, d)
        /\ event[d].status \notin {"processing", "done", "dead"} /\ d \notin dead
    BY <1>5, <1>8, NobodyYet
  <2>2. \A w \in Worker : ~ Busy(w, d)'
    BY <1>4, <2>1
  <2>3. Story(d)
    BY <1>8 DEF AInv
  <2>4. CASE event'[d] = event[d]
    BY <1>2, <2>1, <2>2, <2>3, <2>4 DEF Story
  <2>5. CASE event'[d] # event[d]
    <3>1. /\ event'[d].status = "received" /\ event'[d].attempts = 0
          /\ event[d].status = "none"
      <4>1. Persist(d) /\ ~ Claimed(request[d].key)
        BY <1>1, <2>5, ReceiverWrites
      <4>2. ~ Stored(d)
        BY <4>1 DEF Persist, AInv, IInv, HandlersOwnRows
      <4> QED
        BY <1>1, <4>1, <4>2 DEF Persist, Stored
    <3>2. log'[d] = log[d]
      BY <1>2
    <3> QED
      BY <1>2, <2>1, <2>2, <2>3, <3>1, <3>2 DEF Story
  <2> QED
    BY <2>4, <2>5
<1> QED
  BY <1>1, <1>3, <1>6, <1>7, <1>8 DEF Kept

(* The retention job takes the whole account of an event nobody works on.  *)
LEMMA PurgeAttempts ==
    ASSUME AInv, NEW cutoff, PurgeExpired(cutoff)
    PROVE  AcceptCounted' /\ \A x \in Delivery : Kept(x)
<1> DEFINE S == Expired(cutoff)
<1>1. /\ \A x \in S : ~ InHand(x)
      /\ \A x \in Delivery : event'[x] = IF x \in S THEN AbsentRow ELSE event[x]
      /\ \A x \in Delivery : log'[x] = IF x \in S THEN <<>> ELSE log[x]
      /\ dead' = dead \ S
      /\ UNCHANGED <<queued, request, worker, accepts, faults>>
  BY DEF PurgeExpired
<1> HIDE DEF S
<1>2. AcceptCounted'
  BY <1>1 DEF AInv, AcceptCounted, Accepted, EventOf
<1>3. \A x \in Delivery, w \in Worker :
         /\ Busy(w, x)' <=> Busy(w, x)
         /\ worker'[w] = worker[w]
  BY <1>1 DEF Busy, EventOf
<1>4. ASSUME NEW x \in Delivery PROVE Kept(x)
  <2>1. Budget(x) /\ (faults[x] = 0 => Story(x))
    BY DEF AInv
  <2>2. CASE x \notin S
    BY <1>1, <1>3, <2>1, <2>2, Untouched DEF Awaited
  <2>3. CASE x \in S
    <3>1. \A w \in Worker : ~ Busy(w, x)'
      BY <1>1, <1>3, <2>3 DEF InHand, Busy, EventOf
    <3>2. Budget(x)'
      <4>1. Copies(x)' = Copies(x) /\ Holders(x)' = Holders(x)
        BY <1>1, <1>3 DEF Copies, Holders, Accepted
      <4> QED
        BY <1>1, <2>1, <4>1 DEF Budget, Awaited
    <3>3. Story(x)'
      <4>1. /\ event'[x].status = "none" /\ event'[x].attempts = 0
            /\ log'[x] = <<>> /\ x \notin dead'
        BY <1>1, <2>3 DEF AbsentRow
      <4>2. DOMAIN log'[x] = {} /\ Len(log'[x]) = 0
        BY <4>1
      <4> QED
        BY <3>1, <4>1, <4>2 DEF Story
    <3> QED
      BY <3>2, <3>3 DEF Kept
  <2> QED
    BY <2>2, <2>3
<1> QED
  BY <1>2, <1>4

-----------------------------------------------------------------------------
(* The workers.                                                            *)

(* A worker that takes a task holds what was a copy.                       *)
LEMMA TakeAttempts ==
    ASSUME AInv, TypeOK', NEW w \in Worker, NEW t \in Task, Take(w, t), UNCHANGED request
    PROVE  AcceptCounted' /\ \A x \in Delivery : Kept(x)
<1> PICK d \in Delivery : d = t.event
  BY DEF Task
<1>1. /\ TypeOK /\ worker \in [Worker -> WorkerState] /\ queued \in [Task -> Nat]
      /\ \A x \in Delivery : Budget(x) /\ (faults[x] = 0 => Story(x))
  BY DEF AInv, IInv, TypeOK, IngestTypeOK, StoreTypeOK, ForwardTypeOK
<1>2. /\ worker[w].pc = "idle" /\ queued[t] > 0
      /\ queued' = [queued EXCEPT ![t] = @ - 1]
      /\ UNCHANGED <<event, keyRow, log, dead, clock, accepts, faults, request>>
      /\ \A v \in Worker \ {w} : worker'[v] = worker[v]
      /\ worker'[w].pc = "load" /\ worker'[w].task = t
  BY <1>1 DEF Take, Idle, WorkerState
<1>3. \A v \in Worker \ {w}, x \in Delivery :
          (Busy(v, x)' <=> Busy(v, x)) /\ (Accepted(v)' <=> Accepted(v)) /\ EventOf(v)' = EventOf(v)
  BY <1>2 DEF Busy, Accepted, EventOf
<1>4. /\ ~ Accepted(w)' /\ ~ Accepted(w)
      /\ \A x \in Delivery : ~ Busy(w, x) /\ (Busy(w, x)' <=> x = d)
  BY <1>2 DEF Busy, Accepted, EventOf
<1>5. AcceptCounted'
  BY <1>2, <1>3, <1>4 DEF AInv, AcceptCounted
<1>6. ASSUME NEW x \in Delivery \ {d} PROVE Kept(x)
  <2>1. \A u \in Task : u.event = x => queued'[u] = queued[u]
    BY <1>1, <1>2
  <2>2. /\ \A v \in Worker : Busy(v, x)' <=> Busy(v, x)
        /\ \A v \in Worker : Busy(v, x) => worker'[v] = worker[v]
    BY <1>2, <1>3, <1>4
  <2>3. Awaited(x)' <=> Awaited(x)
    BY <1>2 DEF Awaited
  <2> QED
    BY <1>1, <1>2, <2>1, <2>2, <2>3, Untouched
<1>7. Budget(d)'
  <2>1. IsFiniteSet(Copies(d)') /\ Cardinality(Copies(d)') = Cardinality(Copies(d)) - 1
    BY <1>1, <1>2, CopyTaken DEF Budget
  <2>2. w \notin Holders(d) /\ Holders(d)' = Holders(d) \cup {w}
    BY <1>3, <1>4 DEF Holders
  <2>3. IsFiniteSet(Holders(d)') /\ Cardinality(Holders(d)') = Cardinality(Holders(d)) + 1
    BY <1>1, <2>2, FS_AddElement DEF Budget
  <2>4. (Awaited(d)' <=> Awaited(d)) /\ accepts'[d] = accepts[d] /\ faults'[d] = faults[d]
    BY <1>2 DEF Awaited
  <2> QED
    BY <1>1, <2>1, <2>3, <2>4, BudgetBalanced, BudgetNumbers
<1>8. ASSUME faults[d] = 0 PROVE Story(d)'
  <2>1. Copies(d) # {}
    <3>1. <<t, 1>> \in Copies(d)
      BY <1>1, <1>2 DEF Copies
    <3> QED
      BY <3>1
  <2>2. /\ \A v \in Worker : ~ Busy(v, d)
        /\ event[d].status \notin {"processing", "done", "dead"} /\ d \notin dead
    BY <1>8, <2>1, NobodyYet
  <2>3. \A v \in Worker : Busy(v, d)' => v = w
    BY <1>3, <2>2
  <2>4. AtWork(w, d)'
    BY <1>2 DEF AtWork
  <2>5. /\ event'[d] = event[d] /\ log'[d] = log[d] /\ d \notin dead'
        /\ \A v \in Worker : Busy(v, d)' => AtWork(v, d)'
        /\ \A u, v \in Worker : Busy(u, d)' /\ Busy(v, d)' => u = v
    BY <1>2, <2>2, <2>3, <2>4
  <2>6. Story(d)
    BY <1>1, <1>8
  <2> QED
    BY <2>2, <2>5, <2>6 DEF Story
<1> QED
  BY <1>2, <1>5, <1>6, <1>7, <1>8 DEF Kept

(* A worker touches the event of its task, and no other.                   *)
LEMMA WorkerLocal ==
    ASSUME TypeOK, WorkersOwnRows, NEW w \in Worker, ForwarderStep(w), worker[w].pc # "idle",
           NEW e, e = EventOf(w)
    PROVE  /\ e \in Delivery
           /\ worker'[w].pc = "idle" \/ worker'[w].task = worker[w].task
           /\ \A v \in Worker \ {w} : worker'[v] = worker[v]
           /\ UNCHANGED request
           /\ \A d \in Delivery \ {e} :
                 /\ event'[d] = event[d] /\ log'[d] = log[d] /\ (d \in dead' <=> d \in dead)
                 /\ accepts'[d] = accepts[d] /\ faults'[d] = faults[d]
           /\ \A t \in Task : t.event # e => queued'[t] = queued[t]
<1>1. /\ worker \in [Worker -> WorkerState] /\ event \in [Delivery -> EventRow]
      /\ log \in [Delivery -> Seq(Nat)] /\ queued \in [Task -> Nat]
      /\ accepts \in [Delivery -> Nat] /\ faults \in [Delivery -> Nat]
      /\ worker[w].task \in Task /\ e \in Delivery
  BY DEF TypeOK, IngestTypeOK, StoreTypeOK, ForwardTypeOK, EventOf, Task
<1>2. \A v \in Worker \ {w} : worker'[v] = worker[v]
  BY WorkerMoves
<1>3. UNCHANGED request
  BY DEF ForwarderStep
<1>4. worker'[w].pc = "idle" \/ worker'[w].task = worker[w].task
  <2>1. CASE Load(w) \/ BeginAttempt(w)
    <3>1. worker[w] \in WorkerState
      BY <1>1
    <3>2. ASSUME Load(w) PROVE worker'[w].task = worker[w].task
      BY <1>1, <3>1, <3>2 DEF Load, WorkerState
    <3>3. ASSUME BeginAttempt(w) PROVE worker'[w].task = worker[w].task
      BY <1>1, <3>1, <3>3 DEF BeginAttempt, WorkerState
    <3> QED
      BY <2>1, <3>2, <3>3
  <2>5. CASE Post(w)
    <3>1. PICK ok \in BOOLEAN :
            worker' = [worker EXCEPT ![w] = [@ EXCEPT !.pc = "finish", !.ok = ok]]
      BY <2>5 DEF Post
    <3> QED
      BY <1>1, <3>1 DEF WorkerState
  <2>2. CASE FinishSink(w) \/ Delivered(w) \/ DeadLettered(w) \/ DeadLetterClash(w) \/ Retry(w)
             \/ AttemptFailed(w)
    <3>1. \/ worker' = [worker EXCEPT ![w].pc = "ack"]
          \/ worker' = [worker EXCEPT ![w].pc = "retry"]
      BY <2>2 DEF FinishSink, Delivered, DeadLettered, DeadLetterClash, Retry, AttemptFailed, End
    <3> QED
      BY <1>1, <3>1 DEF WorkerState
  <2>3. CASE Acknowledge(w) \/ WorkerCrash(w)
    BY <1>1, <2>3 DEF Acknowledge, WorkerCrash, Idle
  <2>4. CASE Redeliver(w)
    BY <2>4 DEF Redeliver
  <2> QED
    BY <2>1, <2>2, <2>3, <2>4, <2>5 DEF ForwarderStep, Take
<1>5. \A t \in Task : t.event # e => queued'[t] = queued[t]
  <2>1. CASE Retry(w)
    <3>1. \/ UNCHANGED queued
          \/ Publish([worker[w].task EXCEPT !.retries = @ + 1])
      BY <2>1 DEF Retry
    <3>2. [worker[w].task EXCEPT !.retries = @ + 1].event = e
      BY <1>1 DEF EventOf, Task
    <3> QED
      BY <1>1, <3>1, <3>2 DEF Publish
  <2>2. CASE WorkerCrash(w) \/ Redeliver(w)
    BY <1>1, <2>2 DEF WorkerCrash, Redeliver, Requeue, Publish, EventOf
  <2> QED
    BY <2>1, <2>2 DEF ForwarderStep, Take, Load, FinishSink, BeginAttempt, Post, Delivered,
       DeadLettered, DeadLetterClash, AttemptFailed, Record, Acknowledge, storeVars
<1>6. ASSUME NEW d \in Delivery \ {e}
      PROVE  /\ event'[d] = event[d] /\ log'[d] = log[d] /\ (d \in dead' <=> d \in dead)
             /\ accepts'[d] = accepts[d] /\ faults'[d] = faults[d]
  BY <1>1 DEF ForwarderStep, Take, Load, FinishSink, BeginAttempt, Post, Delivered,
       DeadLettered, DeadLetterClash, AttemptFailed, Record, Retry, Acknowledge, storeVars,
       WorkerCrash, Redeliver, Requeue
<1> QED
  BY <1>1, <1>2, <1>3, <1>4, <1>5, <1>6

(* The other events keep their accounts.                                   *)
LEMMA ElsewhereKept ==
    ASSUME AInv, NEW w \in Worker, ForwarderStep(w), worker[w].pc # "idle",
           NEW d \in Delivery, d # EventOf(w)
    PROVE  Kept(d)
<1> PICK e \in Delivery : e = EventOf(w)
  BY WorkerLocal DEF AInv, IInv
<1>1. /\ worker'[w].pc = "idle" \/ worker'[w].task = worker[w].task
      /\ \A v \in Worker \ {w} : worker'[v] = worker[v]
      /\ UNCHANGED request
      /\ event'[d] = event[d] /\ log'[d] = log[d] /\ (d \in dead' <=> d \in dead)
      /\ accepts'[d] = accepts[d] /\ faults'[d] = faults[d]
      /\ \A t \in Task : t.event # e => queued'[t] = queued[t]
  BY WorkerLocal DEF AInv, IInv
<1>2. ~ Busy(w, d) /\ ~ Busy(w, d)'
  BY <1>1 DEF Busy, EventOf
<1>3. \A v \in Worker \ {w} : Busy(v, d)' <=> Busy(v, d)
  BY <1>1 DEF Busy, EventOf
<1>4. Awaited(d)' <=> Awaited(d)
  BY <1>1 DEF Awaited
<1>5. Budget(d) /\ (faults[d] = 0 => Story(d))
  BY DEF AInv
<1> QED
  BY <1>1, <1>2, <1>3, <1>4, <1>5, Untouched

(* What each step makes of the worker itself.                              *)
LEMMA WorkerShapes ==
    ASSUME TypeOK, NEW w \in Worker, worker[w].pc # "idle"
    PROVE  /\ Load(w) =>
                 worker'[w] = [worker[w] EXCEPT
                    !.pc = IF event[EventOf(w)].status = "none" THEN "retry" ELSE "begin",
                    !.status = event[EventOf(w)].status,
                    !.attempt_no = event[EventOf(w)].attempts]
           /\ BeginAttempt(w) =>
                 worker'[w] = [worker[w] EXCEPT !.pc = "post", !.status = "processing",
                                                !.attempt_no = worker[w].attempt_no + 1]
           /\ Post(w) =>
                 \E ok \in BOOLEAN :
                    /\ worker'[w] = [worker[w] EXCEPT !.pc = "finish", !.ok = ok]
                    /\ accepts' = IF ok THEN [accepts EXCEPT ![EventOf(w)] = @ + 1]
                                  ELSE accepts
           /\ FinishSink(w) \/ Delivered(w) \/ DeadLettered(w) \/ DeadLetterClash(w) \/ Retry(w)
                 => worker'[w].pc = "ack"
           /\ AttemptFailed(w) => worker'[w].pc = "retry"
           /\ Acknowledge(w) \/ WorkerCrash(w) => worker'[w].pc = "idle"
           /\ Redeliver(w) => worker'[w] = worker[w]
<1>1. worker \in [Worker -> WorkerState] /\ worker[w] \in WorkerState
  BY DEF TypeOK, ForwardTypeOK
<1>2. Load(w) => worker'[w] = [worker[w] EXCEPT
                    !.pc = IF event[EventOf(w)].status = "none" THEN "retry" ELSE "begin",
                    !.status = event[EventOf(w)].status,
                    !.attempt_no = event[EventOf(w)].attempts]
  BY <1>1 DEF Load
<1>3. BeginAttempt(w) =>
         worker'[w] = [worker[w] EXCEPT !.pc = "post", !.status = "processing",
                                        !.attempt_no = worker[w].attempt_no + 1]
  BY <1>1 DEF BeginAttempt
<1>4. Post(w) =>
         \E ok \in BOOLEAN :
            /\ worker'[w] = [worker[w] EXCEPT !.pc = "finish", !.ok = ok]
            /\ accepts' = IF ok THEN [accepts EXCEPT ![EventOf(w)] = @ + 1] ELSE accepts
  <2> SUFFICES ASSUME Post(w)
               PROVE  \E ok \in BOOLEAN :
                         /\ worker'[w] = [worker[w] EXCEPT !.pc = "finish", !.ok = ok]
                         /\ accepts' = IF ok THEN [accepts EXCEPT ![EventOf(w)] = @ + 1]
                                       ELSE accepts
    OBVIOUS
  <2>1. PICK ok \in BOOLEAN :
           /\ worker' = [worker EXCEPT ![w] = [@ EXCEPT !.pc = "finish", !.ok = ok]]
           /\ accepts' = IF ok THEN [accepts EXCEPT ![EventOf(w)] = @ + 1] ELSE accepts
    BY DEF Post
  <2>2. worker'[w] = [worker[w] EXCEPT !.pc = "finish", !.ok = ok]
    BY <1>1, <2>1
  <2> QED
    BY <2>1, <2>2
<1>5. ASSUME FinishSink(w) \/ Delivered(w) \/ DeadLettered(w) \/ DeadLetterClash(w) \/ Retry(w)
      PROVE  worker'[w].pc = "ack"
  <2>1. worker' = [worker EXCEPT ![w].pc = "ack"]
    BY <1>5 DEF FinishSink, Delivered, DeadLettered, DeadLetterClash, Retry, End
  <2> QED
    BY <1>1, <2>1 DEF WorkerState
<1>6. AttemptFailed(w) => worker'[w].pc = "retry"
  BY <1>1 DEF AttemptFailed, WorkerState
<1>7. Acknowledge(w) \/ WorkerCrash(w) => worker'[w].pc = "idle"
  BY <1>1 DEF Acknowledge, WorkerCrash, Idle
<1>8. Redeliver(w) => worker'[w] = worker[w]
  BY DEF Redeliver
<1> QED
  BY <1>2, <1>3, <1>4, <1>5, <1>6, <1>7, <1>8

(* One worker comes to hold a task of its event, or no longer holds one.   *)
LEMMA HoldersMove ==
    ASSUME NEW w \in Worker, \A v \in Worker \ {w} : worker'[v] = worker[v],
           NEW d \in Delivery, IsFiniteSet(Holders(d))
    PROVE  /\ IsFiniteSet(Holders(d)')
           /\ (w \in Holders(d)' <=> w \in Holders(d)) =>
                 Cardinality(Holders(d)') = Cardinality(Holders(d))
           /\ w \notin Holders(d)' =>
                 Cardinality(Holders(d)') = IF w \in Holders(d) THEN Cardinality(Holders(d)) - 1
                                            ELSE Cardinality(Holders(d))
<1>1. \A v \in Worker \ {w} : v \in Holders(d)' <=> v \in Holders(d)
  BY DEF Holders, Busy, Accepted, EventOf
<1>2. Holders(d) \subseteq Worker /\ Holders(d)' \subseteq Worker
  BY DEF Holders
<1>3. CASE w \in Holders(d)' <=> w \in Holders(d)
  <2>1. Holders(d)' = Holders(d)
    BY <1>1, <1>2, <1>3
  <2> QED
    BY <1>3, <2>1
<1>4. CASE w \in Holders(d) /\ w \notin Holders(d)'
  <2>1. Holders(d)' = Holders(d) \ {w}
    BY <1>1, <1>2, <1>4
  <2> QED
    BY <1>4, <2>1, FS_RemoveElement
<1>5. CASE w \notin Holders(d) /\ w \in Holders(d)'
  <2>1. Holders(d)' = Holders(d) \cup {w}
    BY <1>1, <1>2, <1>5
  <2> QED
    BY <1>5, <2>1, FS_AddElement
<1> QED
  BY <1>3, <1>4, <1>5

(* The worker's own event keeps its budget: what the destination accepts   *)
(* was held, a retry hands the task on, and a redelivery is a fault.       *)
LEMMA OwnBudget ==
    ASSUME AInv, TypeOK', NEW w \in Worker, ForwarderStep(w), worker[w].pc # "idle",
           NEW e \in Delivery, e = EventOf(w)
    PROVE  Budget(e)'
<1>1. /\ TypeOK /\ Budget(e)
      /\ worker[w] \in WorkerState /\ worker[w].task \in Task
      /\ accepts \in [Delivery -> Nat] /\ faults \in [Delivery -> Nat]
  BY DEF AInv, IInv, TypeOK, ForwardTypeOK
<1>2. /\ IsFiniteSet(Copies(e)) /\ IsFiniteSet(Holders(e))
      /\ Cardinality(Copies(e)) \in Nat /\ Cardinality(Holders(e)) \in Nat
      /\ accepts[e] \in Nat /\ faults[e] \in Nat
  BY <1>1, BudgetNumbers DEF Budget
<1>3. /\ \A v \in Worker \ {w} : worker'[v] = worker[v]
      /\ UNCHANGED request /\ Awaited(e)' = Awaited(e)
      /\ worker'[w].pc = "idle" \/ worker'[w].task = worker[w].task
  BY WorkerLocal DEF AInv, IInv, Awaited
<1>4. UNCHANGED queued => Copies(e)' = Copies(e)
  BY DEF Copies
<1>5. /\ w \in Holders(e) <=>
            worker[w].pc # "ack" /\ ~ (worker[w].pc = "finish" /\ worker[w].ok)
      /\ w \in Holders(e)' <=>
            worker'[w].pc \notin {"idle", "ack"} /\ ~ (worker'[w].pc = "finish" /\ worker'[w].ok)
  BY <1>3 DEF Holders, Busy, Accepted, EventOf
<1>6. ASSUME UNCHANGED <<queued, accepts, faults>>,
             w \in Holders(e)' => w \in Holders(e)
      PROVE  Budget(e)'
  <2>1. IsFiniteSet(Holders(e)') /\ Cardinality(Holders(e)') <= Cardinality(Holders(e))
    BY <1>2, <1>3, <1>6, HoldersMove
  <2>2. Copies(e)' = Copies(e) /\ accepts'[e] = accepts[e] /\ faults'[e] = faults[e]
    BY <1>4, <1>6
  <2>3. Cardinality(Holders(e)') \in Nat
    BY <2>1, FS_CardinalityType
  <2> QED
    BY <1>1, <1>2, <1>3, <2>1, <2>2, <2>3, BudgetBalanced
<1>7. CASE Load(w) \/ BeginAttempt(w)
  <2>1. w \in Holders(e)
    BY <1>5, <1>7 DEF Load, BeginAttempt
  <2> QED
    BY <1>6, <1>7, <2>1 DEF Load, BeginAttempt, storeVars
<1>8. CASE FinishSink(w) \/ Delivered(w) \/ DeadLettered(w) \/ DeadLetterClash(w)
  <2>1. w \notin Holders(e)'
    BY <1>1, <1>5, <1>8, WorkerShapes
  <2> QED
    BY <1>6, <1>8, <2>1
       DEF FinishSink, Delivered, DeadLettered, DeadLetterClash, Record, storeVars
<1>9. CASE AttemptFailed(w)
  <2>1. w \in Holders(e)
    BY <1>5, <1>9 DEF AttemptFailed, Record
  <2> QED
    BY <1>6, <1>9, <2>1 DEF AttemptFailed, Record
<1>10. CASE Acknowledge(w)
  <2>1. w \notin Holders(e)'
    BY <1>1, <1>5, <1>10, WorkerShapes
  <2> QED
    BY <1>6, <1>10, <2>1 DEF Acknowledge, storeVars
<1>11. CASE Post(w)
  <2>1. w \in Holders(e) /\ UNCHANGED <<queued, faults>>
    BY <1>5, <1>11 DEF Post, storeVars
  <2>2. PICK ok \in BOOLEAN :
           /\ worker'[w] = [worker[w] EXCEPT !.pc = "finish", !.ok = ok]
           /\ accepts' = IF ok THEN [accepts EXCEPT ![e] = @ + 1] ELSE accepts
    BY <1>1, <1>11, WorkerShapes
  <2>3. CASE ok
    <3>1. w \notin Holders(e)' /\ accepts'[e] = accepts[e] + 1 /\ faults'[e] = faults[e]
      BY <1>1, <1>5, <2>1, <2>2, <2>3 DEF WorkerState
    <3>2. /\ IsFiniteSet(Holders(e)')
          /\ Cardinality(Holders(e)') = Cardinality(Holders(e)) - 1
      BY <1>2, <1>3, <2>1, <3>1, HoldersMove
    <3>3. Copies(e)' = Copies(e)
      BY <1>4, <2>1
    <3> QED
      BY <1>1, <1>2, <1>3, <3>1, <3>2, <3>3, BudgetBalanced
  <2>4. CASE ~ ok
    BY <1>6, <2>1, <2>2, <2>4
  <2> QED
    BY <2>3, <2>4
<1>12. CASE Retry(w)
  <2>1. w \in Holders(e) /\ w \notin Holders(e)'
    BY <1>1, <1>5, <1>12, WorkerShapes DEF Retry
  <2>2. CASE UNCHANGED queued
    BY <1>6, <1>12, <2>1, <2>2 DEF Retry
  <2>3. CASE ~ UNCHANGED queued
    <3>1. PICK t \in Task : t.event = e /\ Publish(t)
      <4>1. worker[w].task.retries < MaxAttempts
            /\ Publish([worker[w].task EXCEPT !.retries = @ + 1])
        BY <1>12, <2>3 DEF Retry
      <4>2. [worker[w].task EXCEPT !.retries = @ + 1] \in Task
        BY <1>1, <4>1, RetriedTask
      <4>3. [worker[w].task EXCEPT !.retries = @ + 1].event = e
        BY <1>1 DEF Task, EventOf
      <4> QED
        BY <4>1, <4>2, <4>3
    <3>2. /\ IsFiniteSet(Copies(e)')
          /\ Cardinality(Copies(e)') = Cardinality(Copies(e)) + 1
      BY <1>1, <1>2, <3>1, CopyPublished
    <3>3. /\ IsFiniteSet(Holders(e)')
          /\ Cardinality(Holders(e)') = Cardinality(Holders(e)) - 1
      BY <1>2, <1>3, <2>1, HoldersMove
    <3>4. accepts'[e] = accepts[e] /\ faults'[e] = faults[e]
      BY <1>12 DEF Retry
    <3> QED
      BY <1>1, <1>2, <1>3, <3>2, <3>3, <3>4, BudgetBalanced
  <2> QED
    BY <2>2, <2>3
<1>13. CASE WorkerCrash(w) \/ Redeliver(w)
  <2>1. /\ Publish(worker[w].task) /\ faults'[e] = faults[e] + 1 /\ accepts'[e] = accepts[e]
    BY <1>1, <1>13 DEF WorkerCrash, Redeliver, Requeue
  <2>2. /\ IsFiniteSet(Copies(e)')
        /\ Cardinality(Copies(e)') = Cardinality(Copies(e)) + 1
    <3>1. PICK t \in Task : t = worker[w].task
      BY <1>1
    <3> QED
      BY <1>1, <1>2, <2>1, <3>1, CopyPublished DEF EventOf
  <2>3. w \in Holders(e)' => w \in Holders(e)
    BY <1>1, <1>5, <1>13, WorkerShapes
  <2>4. IsFiniteSet(Holders(e)') /\ Cardinality(Holders(e)') <= Cardinality(Holders(e))
    BY <1>2, <1>3, <2>3, HoldersMove
  <2>5. Cardinality(Holders(e)') \in Nat
    BY <2>4, FS_CardinalityType
  <2> QED
    BY <1>1, <1>2, <1>3, <2>1, <2>2, <2>4, <2>5, BudgetBalanced
<1>14. ASSUME NEW t \in Task, Take(w, t) PROVE FALSE
  BY <1>14 DEF Take
<1> QED
  BY <1>7, <1>8, <1>9, <1>10, <1>11, <1>12, <1>13, <1>14 DEF ForwarderStep

(* A log of the attempts 1 to n, and the next one.                         *)
LEMMA LogGrows ==
    ASSUME NEW rows \in Seq(Nat), NEW n \in Nat, n = Len(rows) + 1,
           \A i \in DOMAIN rows : rows[i] = i
    PROVE  /\ \A i \in DOMAIN Append(rows, n) : Append(rows, n)[i] = i
           /\ Len(Append(rows, n)) = n
  OBVIOUS

(* What a worker that is alone with an event makes of its row and its log. *)
LEMMA OwnWrites ==
    ASSUME TypeOK, NEW w \in Worker, worker[w].pc # "idle",
           NEW e \in Delivery, e = EventOf(w), AtWork(w, e)
    PROVE  /\ FinishSink(w) => /\ event'[e].status = "done"
                               /\ event'[e].attempts = event[e].attempts
                               /\ UNCHANGED <<log, dead>>
           /\ BeginAttempt(w) => /\ event'[e].status = "processing"
                                 /\ event'[e].attempts = event[e].attempts + 1
                                 /\ event'[e].connection = event[e].connection
                                 /\ event[e].connection \in Forwarding
                                 /\ UNCHANGED <<log, dead>>
           /\ \A s \in {"done", "failed", "dead"} :
                 Record(w, s) => /\ event'[e].status = s
                                 /\ event'[e].attempts = event[e].attempts
                                 /\ event'[e].connection = event[e].connection
                                 /\ event[e].status = "processing"
                                 /\ worker[w].attempt_no = event[e].attempts
                                 /\ log'[e] = Append(log[e], event[e].attempts)
<1>1. /\ event \in [Delivery -> EventRow] /\ event[e] \in EventRow
      /\ worker[w] \in WorkerState /\ log \in [Delivery -> Seq(Nat)]
  BY DEF TypeOK, IngestTypeOK, StoreTypeOK, ForwardTypeOK
<1>2. ASSUME FinishSink(w)
      PROVE  /\ event'[e].status = "done" /\ event'[e].attempts = event[e].attempts
             /\ UNCHANGED <<log, dead>>
  <2>1. event'[e] = [event[e] EXCEPT !.status = "done"]
    BY <1>1, <1>2 DEF FinishSink, WithStatus, AtWork
  <2> QED
    BY <1>1, <1>2, <2>1 DEF EventRow, FinishSink
<1>3. ASSUME BeginAttempt(w)
      PROVE  /\ event'[e].status = "processing" /\ event'[e].attempts = event[e].attempts + 1
             /\ event'[e].connection = event[e].connection
             /\ event[e].connection \in Forwarding
             /\ UNCHANGED <<log, dead>>
  <2>1. WithStatus(event[e], w, "processing") = [event[e] EXCEPT !.status = "processing"]
    BY <1>3 DEF BeginAttempt, WithStatus, AtWork
  <2>2. event'[e] = [[event[e] EXCEPT !.status = "processing"]
                        EXCEPT !.attempts = event[e].attempts + 1]
    BY <1>1, <1>3, <2>1 DEF BeginAttempt, AtWork
  <2>3. [event[e] EXCEPT !.status = "processing"] \in EventRow
    BY <1>1 DEF EventRow, StoredStatus
  <2> QED
    BY <1>1, <1>3, <2>2, <2>3 DEF EventRow, BeginAttempt
<1>4. ASSUME NEW s \in {"done", "failed", "dead"}, Record(w, s)
      PROVE  /\ event'[e].status = s /\ event'[e].attempts = event[e].attempts
             /\ event'[e].connection = event[e].connection
             /\ event[e].status = "processing"
             /\ worker[w].attempt_no = event[e].attempts
             /\ log'[e] = Append(log[e], event[e].attempts)
  <2>1. event[e].status = "processing" /\ worker[w].attempt_no = event[e].attempts
    BY <1>4 DEF Record, AtWork
  <2>2. event'[e] = [event[e] EXCEPT !.status = s]
    BY <1>1, <1>4 DEF Record, WithStatus, AtWork
  <2>3. log'[e] = Append(log[e], event[e].attempts)
    BY <1>1, <1>4, <2>1 DEF Record
  <2> QED
    BY <1>1, <2>1, <2>2, <2>3 DEF EventRow
<1> QED
  BY <1>2, <1>3, <1>4

(* The worker's own event keeps its story, as long as nothing is delivered *)
(* again.                                                                  *)
LEMMA OwnStory ==
    ASSUME AInv, TypeOK', NEW w \in Worker, ForwarderStep(w), worker[w].pc # "idle",
           NEW e \in Delivery, e = EventOf(w), faults'[e] = 0
    PROVE  Story(e)'
<1>1. /\ TypeOK /\ Budget(e)
      /\ worker[w] \in WorkerState /\ event[e] \in EventRow /\ log[e] \in Seq(Nat)
      /\ faults \in [Delivery -> Nat]
  BY DEF AInv, IInv, TypeOK, IngestTypeOK, StoreTypeOK, ForwardTypeOK
<1>2. ~ WorkerCrash(w) /\ ~ Redeliver(w) /\ faults[e] = 0
  <2>1. ~ WorkerCrash(w) /\ ~ Redeliver(w)
    BY <1>1 DEF WorkerCrash, Redeliver, Requeue
  <2> QED
    BY <2>1 DEF ForwarderStep, Take, Load, FinishSink, BeginAttempt, Post, Delivered,
       DeadLettered, DeadLetterClash, AttemptFailed, Record, Retry, Acknowledge
<1>3. /\ \A v \in Worker \ {w} : worker'[v] = worker[v]
      /\ UNCHANGED request /\ (Awaited(e)' <=> Awaited(e))
      /\ worker'[w].pc = "idle" \/ worker'[w].task = worker[w].task
  BY WorkerLocal DEF AInv, IInv, Awaited
<1>4. CASE Acknowledge(w)
  <2>1. /\ worker[w].pc = "ack" /\ worker'[w].pc = "idle"
        /\ UNCHANGED <<event, log, dead, queued, accepts, faults>>
    BY <1>1, <1>4, WorkerShapes DEF Acknowledge, storeVars
  <2>2. /\ \A v \in Worker : Busy(v, e)' <=> Busy(v, e)
        /\ \A v \in Worker : Busy(v, e) => worker'[v] = worker[v]
    BY <1>3, <2>1 DEF Busy, EventOf
  <2>3. Kept(e)
    BY <1>1, <1>2, <1>3, <2>1, <2>2, Untouched DEF AInv
  <2> QED
    BY <2>3 DEF Kept
<1>5. CASE worker[w].pc # "ack"
  <2>1. Busy(w, e) /\ Story(e) /\ AtWork(w, e)
    BY <1>2, <1>5 DEF Busy, AInv, Story
  <2>2. /\ Copies(e) = {} /\ ~ Awaited(e)
        /\ \A v \in Worker : Busy(v, e) => v = w
        /\ event[e].status \notin {"done", "dead"} /\ e \notin dead
    BY <1>2, <2>1, Alone
  <2>3. \A v \in Worker : Busy(v, e)' => v = w
    BY <1>3, <2>2 DEF Busy, EventOf
  <2>4. Busy(w, e)' <=> worker'[w].pc \notin {"idle", "ack"}
    BY <1>3 DEF Busy, EventOf
  <2>5. UNCHANGED queued => Copies(e)' = {}
    BY <2>2 DEF Copies
  <2>6. event[e].status = "processing" <=> worker[w].pc \in {"post", "finish"}
    BY <2>1, <2>2 DEF Story, AtWork
  <2>7. /\ \A i \in DOMAIN log[e] : log[e][i] = i
        /\ Len(log[e]) + (IF event[e].status = "processing" THEN 1 ELSE 0) = event[e].attempts
        /\ event[e].status \in {"none", "received"} => event[e].attempts = 0
        /\ event[e].status = "failed" => event[e].attempts < MaxAttempts
        /\ event[e].status \in {"processing", "failed"} => event[e].connection \in Forwarding
    BY <2>1 DEF Story
  <2>8. ASSUME event'[e] = event[e], UNCHANGED <<log, dead>>,
               worker'[w].pc \notin {"idle", "ack"} => AtWork(w, e)',
               event[e].status = "processing" => worker'[w].pc \in {"post", "finish"}
        PROVE  Story(e)'
    BY <2>2, <2>3, <2>4, <2>7, <2>8 DEF Story
  <2>9. CASE Load(w)
    <3>1. worker[w].pc = "load" /\ event'[e] = event[e] /\ UNCHANGED <<log, dead>>
      BY <2>9 DEF Load, storeVars
    <3>2. worker'[w] = [worker[w] EXCEPT
                    !.pc = IF event[e].status = "none" THEN "retry" ELSE "begin",
                    !.status = event[e].status,
                    !.attempt_no = event[e].attempts]
      BY <1>1, <2>9, WorkerShapes
    <3>3. /\ worker'[w].pc = IF event[e].status = "none" THEN "retry" ELSE "begin"
          /\ worker'[w].status = event[e].status
          /\ worker'[w].attempt_no = event[e].attempts
      BY <1>1, <3>2 DEF WorkerState
    <3>4. event[e].status # "none" => event[e].status \in {"received", "failed"}
      BY <1>1, <2>2, <2>6, <3>1 DEF EventRow, StoredStatus
    <3>5. AtWork(w, e)'
      BY <3>1, <3>3, <3>4 DEF AtWork
    <3> QED
      BY <2>6, <2>8, <3>1, <3>5
  <2>10. CASE FinishSink(w)
    <3>1. worker[w].pc = "begin" /\ worker'[w].pc = "ack" /\ UNCHANGED queued
      BY <1>1, <2>10, WorkerShapes DEF FinishSink
    <3>2. /\ event'[e].status = "done" /\ event'[e].attempts = event[e].attempts
          /\ UNCHANGED <<log, dead>>
      BY <1>1, <2>1, <2>10, OwnWrites
    <3> QED
      BY <1>3, <2>2, <2>3, <2>4, <2>5, <2>6, <2>7, <3>1, <3>2 DEF Story
  <2>11. CASE BeginAttempt(w)
    <3>1. worker[w].pc = "begin"
      BY <2>11 DEF BeginAttempt
    <3>2. worker'[w] = [worker[w] EXCEPT !.pc = "post", !.status = "processing",
                                         !.attempt_no = worker[w].attempt_no + 1]
      BY <1>1, <2>11, WorkerShapes
    <3>3. /\ worker'[w].pc = "post" /\ worker'[w].status = "processing"
          /\ worker'[w].attempt_no = event[e].attempts + 1
      BY <1>1, <2>1, <3>1, <3>2 DEF WorkerState, AtWork
    <3>4. /\ event'[e].status = "processing" /\ event'[e].attempts = event[e].attempts + 1
          /\ event'[e].connection = event[e].connection /\ event[e].connection \in Forwarding
          /\ UNCHANGED <<log, dead>>
      BY <1>1, <2>1, <2>11, OwnWrites
    <3>5. AtWork(w, e)'
      BY <3>3, <3>4 DEF AtWork
    <3>6. Len(log'[e]) + 1 = event'[e].attempts
      <4>1. event[e].status # "processing"
        BY <2>6, <3>1
      <4>2. Len(log[e]) \in Nat /\ Len(log[e]) = event[e].attempts
        BY <1>1, <2>7, <4>1
      <4>3. log' = log
        BY <3>4
      <4> QED
        BY <3>4, <4>2, <4>3
    <3>7. \A i \in DOMAIN log'[e] : log'[e][i] = i
      <4>1. log' = log
        BY <3>4
      <4>2. \A i \in DOMAIN log[e] : log[e][i] = i
        BY <2>7
      <4> QED
        BY <4>1, <4>2
    <3>8. e \notin dead'
      BY <2>2, <3>4
    <3>9. Busy(w, e)'
      BY <2>4, <3>3
    <3> QED
      BY <2>3, <3>3, <3>4, <3>5, <3>6, <3>7, <3>8, <3>9 DEF Story
  <2>12. CASE Post(w)
    <3>1. worker[w].pc = "post" /\ event'[e] = event[e] /\ UNCHANGED <<log, dead>>
      BY <2>12 DEF Post, storeVars
    <3>2. PICK ok \in BOOLEAN : worker'[w] = [worker[w] EXCEPT !.pc = "finish", !.ok = ok]
      BY <1>1, <2>12, WorkerShapes
    <3>3. /\ worker'[w].pc = "finish" /\ worker'[w].status = worker[w].status
          /\ worker'[w].attempt_no = worker[w].attempt_no
      BY <1>1, <3>2 DEF WorkerState
    <3>4. AtWork(w, e)'
      BY <2>1, <3>1, <3>3 DEF AtWork
    <3> QED
      BY <2>8, <3>1, <3>3, <3>4
  <2>13. ASSUME NEW s \in {"done", "failed", "dead"}, Record(w, s),
                worker'[w].pc = IF s = "failed" THEN "retry" ELSE "ack",
                s = "failed" => worker[w].attempt_no < MaxAttempts,
                s = "failed" => UNCHANGED dead
         PROVE  Story(e)'
    <3>1. /\ event'[e].status = s /\ event'[e].attempts = event[e].attempts
          /\ event'[e].connection = event[e].connection
          /\ event[e].status = "processing" /\ worker[w].attempt_no = event[e].attempts
          /\ log'[e] = Append(log[e], event[e].attempts)
          /\ UNCHANGED queued
      BY <1>1, <2>1, <2>13, OwnWrites DEF Record
    <3>2. event[e].attempts \in Nat /\ event[e].attempts = Len(log[e]) + 1
      BY <1>1, <2>7, <3>1 DEF EventRow
    <3>3. (\A i \in DOMAIN log'[e] : log'[e][i] = i) /\ Len(log'[e]) = event'[e].attempts
      BY <1>1, <2>7, <3>1, <3>2, LogGrows
    <3>4. worker'[w].pc \notin {"begin", "post", "finish"}
      BY <2>13
    <3>5. AtWork(w, e)'
      BY <3>4 DEF AtWork
    <3>6. s # "failed" => Copies(e)' = {} /\ ~ Awaited(e)' /\ ~ Busy(w, e)'
      BY <1>3, <2>2, <2>4, <2>5, <2>13, <3>1
    <3>7. s = "failed" => event[e].attempts < MaxAttempts /\ e \notin dead'
      BY <2>2, <2>13, <3>1
    <3>8. event[e].connection \in Forwarding
      BY <2>7, <3>1
    <3> QED
      BY <2>3, <3>1, <3>3, <3>5, <3>6, <3>7, <3>8 DEF Story
  <2>14. CASE Delivered(w)
    BY <1>1, <2>13, <2>14, WorkerShapes DEF Delivered
  <2>15. CASE DeadLettered(w)
    BY <1>1, <2>13, <2>15, WorkerShapes DEF DeadLettered
  <2>16. CASE AttemptFailed(w)
    <3>1. worker[w].attempt_no < MaxAttempts
      BY <1>1, <2>16, StoreAssumption DEF AttemptFailed, Exhausted, WorkerState, StoreAssumption
    <3> QED
      BY <1>1, <2>13, <2>16, <3>1, WorkerShapes DEF AttemptFailed
  <2>17. CASE DeadLetterClash(w)
    BY <2>2, <2>17 DEF DeadLetterClash
  <2>18. CASE Retry(w)
    <3>1. /\ worker[w].pc = "retry" /\ worker'[w].pc = "ack"
          /\ event'[e] = event[e] /\ UNCHANGED <<log, dead>>
      BY <1>1, <2>18, WorkerShapes DEF Retry
    <3> QED
      BY <2>6, <2>8, <3>1
  <2> QED
    BY <1>2, <1>5, <2>9, <2>10, <2>11, <2>12, <2>14, <2>15, <2>16, <2>17, <2>18
       DEF ForwarderStep, Take, Acknowledge
<1>6. worker[w].pc = "ack" => Acknowledge(w)
  BY <1>2 DEF ForwarderStep, Take, Load, FinishSink, BeginAttempt, Post, Delivered,
       DeadLettered, DeadLetterClash, AttemptFailed, Record, Retry
<1> QED
  BY <1>4, <1>5, <1>6

(* Every acceptance is counted when it happens, and none is ever taken     *)
(* back.                                                                   *)
LEMMA AcceptsKept ==
    ASSUME AInv, NEW w \in Worker, ForwarderStep(w), worker[w].pc # "idle"
    PROVE  AcceptCounted'
<1> PICK e \in Delivery : e = EventOf(w)
  BY WorkerLocal DEF AInv, IInv
<1>1. /\ TypeOK /\ worker[w] \in WorkerState
      /\ accepts \in [Delivery -> Nat] /\ accepts[e] \in Nat
      /\ worker'[w].pc = "idle" \/ worker'[w].task = worker[w].task
      /\ \A v \in Worker \ {w} : worker'[v] = worker[v]
      /\ \A d \in Delivery \ {e} : accepts'[d] = accepts[d]
  BY WorkerLocal DEF AInv, IInv, TypeOK, ForwardTypeOK
<1>2. \/ accepts'[e] = accepts[e] /\ (Accepted(w)' => Accepted(w))
      \/ accepts'[e] = accepts[e] + 1
  <2>1. CASE Post(w)
    <3>1. PICK ok \in BOOLEAN :
             /\ worker'[w] = [worker[w] EXCEPT !.pc = "finish", !.ok = ok]
             /\ accepts' = IF ok THEN [accepts EXCEPT ![e] = @ + 1] ELSE accepts
      BY <1>1, <2>1, WorkerShapes
    <3>2. CASE ok
      BY <1>1, <3>1, <3>2
    <3>3. CASE ~ ok
      BY <1>1, <3>1, <3>3 DEF WorkerState, Accepted
    <3> QED
      BY <3>2, <3>3
  <2>2. CASE ~ Post(w)
    <3>1. UNCHANGED accepts
      BY <2>2 DEF ForwarderStep, Take, Load, FinishSink, BeginAttempt, Delivered, Record,
         DeadLettered, DeadLetterClash, AttemptFailed, Retry, Acknowledge, WorkerCrash,
         Redeliver, Requeue
    <3>2. CASE Load(w)
      <4>2. worker'[w] = [worker[w] EXCEPT
                    !.pc = IF event[e].status = "none" THEN "retry" ELSE "begin",
                    !.status = event[e].status,
                    !.attempt_no = event[e].attempts]
        BY <1>1, <3>2, WorkerShapes
      <4>1. worker'[w].pc \in {"retry", "begin"}
        BY <1>1, <4>2 DEF WorkerState
      <4> QED
        BY <3>1, <4>1 DEF Accepted
    <3>3. CASE BeginAttempt(w)
      <4>2. worker'[w] = [worker[w] EXCEPT !.pc = "post", !.status = "processing",
                                           !.attempt_no = worker[w].attempt_no + 1]
        BY <1>1, <3>3, WorkerShapes
      <4>1. worker'[w].pc = "post"
        BY <1>1, <4>2 DEF WorkerState
      <4> QED
        BY <3>1, <4>1 DEF Accepted
    <3>4. CASE Redeliver(w)
      BY <3>1, <3>4 DEF Redeliver, Accepted
    <3>5. CASE ~ Load(w) /\ ~ BeginAttempt(w) /\ ~ Redeliver(w)
      <4>1. worker'[w].pc \in {"ack", "retry", "idle"}
        BY <1>1, <2>2, <3>5, WorkerShapes DEF ForwarderStep, Take
      <4> QED
        BY <3>1, <4>1 DEF Accepted
    <3> QED
      BY <3>2, <3>3, <3>4, <3>5
  <2> QED
    BY <2>1, <2>2
<1>3. \A d \in Delivery : accepts[d] \in Nat /\ accepts'[d] \in Nat /\ accepts'[d] >= accepts[d]
  BY <1>1, <1>2
<1>4. ASSUME NEW v \in Worker, Accepted(v)' PROVE accepts'[EventOf(v)'] >= 1
  <2>1. CASE v # w
    <3>1. worker'[v] = worker[v] /\ worker[v] \in WorkerState
      BY <1>1, <2>1 DEF TypeOK, ForwardTypeOK
    <3>4. Accepted(v) /\ EventOf(v)' = EventOf(v) /\ worker[v].pc # "idle"
      BY <1>4, <3>1 DEF Accepted, EventOf
    <3>5. EventOf(v) \in Delivery
      BY <1>1, <3>4 DEF EventOf, TypeOK, ForwardTypeOK, Task
    <3> PICK d \in Delivery : d = EventOf(v)
      BY <3>5
    <3>2. accepts[d] >= 1
      BY <3>4 DEF AInv, AcceptCounted
    <3>3. accepts[d] \in Nat /\ accepts'[d] >= 1
      BY <1>3, <3>2
    <3>6. EventOf(v)' = d
      BY <3>4
    <3> QED
      BY <3>3, <3>6
  <2>2. CASE v = w
    <3>1. EventOf(w)' = e
      BY <1>1, <1>4, <2>2 DEF Accepted, EventOf
    <3>2. Accepted(w) => accepts[e] >= 1
      BY DEF AInv, AcceptCounted
    <3> QED
      BY <1>1, <1>2, <1>4, <2>2, <3>1, <3>2
  <2> QED
    BY <2>1, <2>2
<1> QED
  BY <1>4 DEF AcceptCounted

-----------------------------------------------------------------------------
(* The whole path.                                                         *)

(* Before anything is sent, every delivery is worth one acceptance.        *)
LEMMA InitAInv == Init => AInv
<1> SUFFICES ASSUME Init PROVE AInv
  OBVIOUS
<1>1. /\ \A d \in Delivery : /\ event[d] = AbsentRow /\ log[d] = <<>> /\ d \notin dead
                             /\ request[d].pc = "idle" /\ accepts[d] = 0 /\ faults[d] = 0
      /\ \A w \in Worker : worker[w].pc = "idle"
      /\ \A t \in Task : queued[t] = 0
  BY DEF Init, IngestInit, ForwardInit, StoreInit, Idle
<1>2. \A w \in Worker : ~ Accepted(w) /\ \A d \in Delivery : ~ Busy(w, d)
  BY <1>1 DEF Accepted, Busy
<1>3. ASSUME NEW d \in Delivery PROVE Budget(d)
  <2>1. Copies(d) = {} /\ Holders(d) = {}
    BY <1>1, <1>2 DEF Copies, Holders
  <2>2. /\ IsFiniteSet(Copies(d)) /\ Cardinality(Copies(d)) = 0
        /\ IsFiniteSet(Holders(d)) /\ Cardinality(Holders(d)) = 0
    BY <2>1, FS_EmptySet
  <2> QED
    BY <1>1, <2>2 DEF Budget, Awaited
<1>4. ASSUME NEW d \in Delivery PROVE Story(d)
  <2>1. /\ event[d].status = "none" /\ event[d].attempts = 0
        /\ DOMAIN log[d] = {} /\ Len(log[d]) = 0
    BY <1>1 DEF AbsentRow
  <2> QED
    BY <1>1, <1>2, <2>1 DEF Story
<1> QED
  BY <1>2, <1>3, <1>4, InitIInv DEF AInv, AcceptCounted

(* Every step, and every stuttering step, keeps the accounts.              *)
LEMMA StepAInv == AInv /\ [Next]_vars => AInv'
<1> SUFFICES ASSUME AInv, [Next]_vars PROVE AInv'
  OBVIOUS
<1>1. IInv /\ IInv' /\ TypeOK'
  BY StepIInv DEF AInv, IInv
<1>2. ASSUME AcceptCounted' /\ \A x \in Delivery : Kept(x) PROVE AInv'
  BY <1>1, <1>2 DEF AInv, Kept
<1>3. CASE UNCHANGED vars
  <2>1. AcceptCounted'
    BY <1>3 DEF AInv, AcceptCounted, Accepted, EventOf, vars
  <2>2. ASSUME NEW x \in Delivery PROVE Kept(x)
    <3>1. Awaited(x)' <=> Awaited(x)
      BY <1>3 DEF Awaited, vars
    <3>2. \A w \in Worker : Busy(w, x)' <=> Busy(w, x)
      BY <1>3 DEF Busy, EventOf, vars
    <3>3. Budget(x) /\ (faults[x] = 0 => Story(x))
      BY DEF AInv
    <3> QED
      BY <1>3, <3>1, <3>2, <3>3, Untouched DEF vars, storeVars
  <2> QED
    BY <1>2, <2>1, <2>2
<1>4. ASSUME NEW d \in Delivery, ReceiverStep(d) PROVE AInv'
  BY <1>1, <1>2, <1>4, ReceiverAttempts
<1>5. ASSUME NEW w \in Worker, ForwarderStep(w) PROVE AInv'
  <2>1. CASE worker[w].pc = "idle"
    <3>1. PICK t \in Task : Take(w, t)
      BY <1>5, <2>1 DEF ForwarderStep, Load, FinishSink, BeginAttempt, Post, Delivered, Record,
         DeadLettered, DeadLetterClash, AttemptFailed, Retry, Acknowledge, WorkerCrash,
         Redeliver, Requeue
    <3> QED
      BY <1>1, <1>2, <1>5, <3>1, TakeAttempts DEF ForwarderStep
  <2>2. CASE worker[w].pc # "idle"
    <3>1. PICK e \in Delivery : e = EventOf(w)
      BY <1>1, <1>5, <2>2, WorkerLocal DEF IInv
    <3>2. Kept(e)
      BY <1>1, <1>5, <2>2, <3>1, OwnBudget, OwnStory DEF Kept
    <3>3. \A x \in Delivery : Kept(x)
      BY <1>5, <2>2, <3>1, <3>2, ElsewhereKept
    <3> QED
      BY <1>2, <1>5, <2>2, <3>3, AcceptsKept
  <2> QED
    BY <2>1, <2>2
<1>6. ASSUME NEW cutoff, PurgeExpired(cutoff) PROVE AInv'
  BY <1>2, <1>6, PurgeAttempts
<1> QED
  BY <1>3, <1>4, <1>5, <1>6, NextSteps

(* The destination accepts an event no more often than redelivered tasks   *)
(* explain, and without them the outbound log is the attempts 1, 2, ... in *)
(* order, for any number of events, workers, retries and crashes           *)
(* (forward.py).                                                           *)
THEOREM AttemptsAlwaysAccounted == Spec => []AttemptsAccounted
<1>1. AInv => AttemptsAccounted
  <2> SUFFICES ASSUME AInv PROVE AttemptsAccounted
    OBVIOUS
  <2>1. AcceptsBounded
    <3> SUFFICES ASSUME NEW d \in Delivery PROVE accepts[d] <= 1 + faults[d]
      BY DEF AcceptsBounded
    <3>1. Budget(d) /\ TypeOK
      BY DEF AInv, IInv
    <3>2. /\ Cardinality(Copies(d)) \in Nat /\ Cardinality(Holders(d)) \in Nat
          /\ accepts[d] \in Nat /\ faults[d] \in Nat
      BY <3>1, BudgetNumbers
    <3> QED
      BY <3>1, <3>2 DEF Budget
  <2>2. AuditTrailComplete
    BY DEF AInv, Story, AuditTrailComplete
  <2> QED
    BY <2>1, <2>2 DEF AttemptsAccounted
<1> QED
  BY <1>1, InitAInv, StepAInv, PTL DEF Spec

-----------------------------------------------------------------------------
(* The forwarder implements EventLifecycle when no worker is lost and the  *)
(* retention job does not run; handlers may crash, and the broker may      *)
(* refuse their tasks.                                                     *)

Status == [d \in Delivery |-> event[d].status]
Tries == [d \in Delivery |-> event[d].attempts]
Audit == [d \in Delivery |-> Len(log[d])]

NoFaults == \A d \in Delivery : faults[d] = 0

LInv == AInv /\ NoFaults

(* The steps of EventLifecycle.                                            *)
LEMMA LifecycleNext ==
    ASSUME NEW e \in Delivery,
           Lifecycle!Store(e) \/ Lifecycle!Sink(e) \/ Lifecycle!Begin(e) \/ Lifecycle!End(e)
    PROVE  Lifecycle!Next
  BY DEF Lifecycle!Next

(* A step that leaves the rows and the log alone is not seen.              *)
LEMMA LifecycleStutters ==
    ASSUME UNCHANGED <<event, log>> PROVE UNCHANGED Lifecycle!vars
  BY DEF Lifecycle!vars

(* A handler stores its event, and does nothing else that is seen.         *)
LEMMA ReceiverStores ==
    ASSUME LInv, NEW d \in Delivery, ReceiverStep(d)
    PROVE  Lifecycle!Next \/ UNCHANGED Lifecycle!vars
<1>1. /\ TypeOK /\ request \in [Delivery -> Request] /\ event \in [Delivery -> EventRow]
      /\ log \in [Delivery -> Seq(Nat)]
  BY DEF LInv, AInv, IInv, TypeOK, IngestTypeOK, StoreTypeOK
<1>2. UNCHANGED log
  BY <1>1, ReceiverWrites
<1>3. CASE UNCHANGED <<event, keyRow>>
  BY <1>2, <1>3, LifecycleStutters
<1>4. CASE Persist(d) /\ ~ Claimed(request[d].key)
  <2>1. event[d].status = "none" /\ event[d].attempts = 0
    BY <1>4 DEF Persist, LInv, NoFaults, AInv, IInv, HandlersOwnRows, Stored, Story
  <2>2. /\ event'[d].status = "received" /\ event'[d].attempts = 0
        /\ \A x \in Delivery \ {d} : event'[x] = event[x]
    BY <1>1, <1>4 DEF Persist
  <2>3. Status' = [Status EXCEPT ![d] = "received"] /\ Tries' = Tries /\ Audit' = Audit
    BY <1>2, <2>1, <2>2 DEF Status, Tries, Audit
  <2>4. Lifecycle!Store(d)
    BY <2>1, <2>3 DEF Lifecycle!Store, Status, Tries, Audit
  <2> QED
    BY <2>4, LifecycleNext
<1> QED
  BY <1>1, <1>3, <1>4, ReceiverWrites

(* A worker sinks, begins or ends an attempt, and does nothing else that   *)
(* is seen.                                                                *)
LEMMA WorkerLives ==
    ASSUME LInv, NEW w \in Worker, ForwarderStep(w), worker[w].pc # "idle",
           ~ WorkerCrash(w), ~ Redeliver(w)
    PROVE  Lifecycle!Next \/ UNCHANGED Lifecycle!vars
<1> PICK e \in Delivery : e = EventOf(w)
  BY WorkerLocal DEF LInv, AInv, IInv
<1>1. /\ TypeOK /\ faults[e] = 0
      /\ worker[w] \in WorkerState /\ event[e] \in EventRow /\ log[e] \in Seq(Nat)
  BY DEF LInv, NoFaults, AInv, IInv, TypeOK, IngestTypeOK, StoreTypeOK, ForwardTypeOK
<1>2. \A d \in Delivery \ {e} : event'[d] = event[d] /\ log'[d] = log[d]
  BY WorkerLocal DEF LInv, AInv, IInv
<1>3. CASE worker[w].pc \notin {"begin", "finish"} \/ DeadLetterClash(w)
  <2>1. UNCHANGED <<event, log>>
    BY <1>3 DEF ForwarderStep, Take, Load, FinishSink, BeginAttempt, Post, Delivered, Record,
       DeadLettered, DeadLetterClash, AttemptFailed, Retry, Acknowledge, WorkerCrash,
       Redeliver, storeVars
  <2> QED
    BY <2>1, LifecycleStutters
<1>4. CASE worker[w].pc \in {"begin", "finish"}
  <2>1. Busy(w, e) /\ Story(e) /\ AtWork(w, e)
    BY <1>1, <1>4 DEF LInv, AInv, Busy, Story
  <2>2. CASE FinishSink(w)
    <3>1. worker[w].pc = "begin" /\ event[e].connection \notin Forwarding
      BY <2>2 DEF FinishSink
    <3>2. event[e].status = "received"
      BY <2>1, <3>1 DEF Story, AtWork
    <3>3. /\ event'[e].status = "done" /\ event'[e].attempts = event[e].attempts
          /\ UNCHANGED log
      BY <1>1, <1>4, <2>1, <2>2, OwnWrites
    <3>4. Status' = [Status EXCEPT ![e] = "done"] /\ Tries' = Tries /\ Audit' = Audit
      BY <1>2, <3>3 DEF Status, Tries, Audit
    <3>5. Lifecycle!Sink(e)
      BY <3>2, <3>4 DEF Lifecycle!Sink, Status, Tries, Audit
    <3> QED
      BY <3>5, LifecycleNext
  <2>3. CASE BeginAttempt(w)
    <3>1. worker[w].pc = "begin"
      BY <2>3 DEF BeginAttempt
    <3>2. event[e].status \in {"received", "failed"} /\ event[e].attempts < MaxAttempts
      BY <2>1, <3>1, StoreAssumption DEF Story, AtWork, StoreAssumption
    <3>3. /\ event'[e].status = "processing" /\ event'[e].attempts = event[e].attempts + 1
          /\ UNCHANGED log
      BY <1>1, <1>4, <2>1, <2>3, OwnWrites
    <3>4. /\ Status' = [Status EXCEPT ![e] = "processing"]
          /\ Tries' = [Tries EXCEPT ![e] = @ + 1]
          /\ Audit' = Audit
      BY <1>2, <3>3 DEF Status, Tries, Audit
    <3>5. Lifecycle!Begin(e)
      BY <3>2, <3>4 DEF Lifecycle!Begin, Status, Tries, Audit
    <3> QED
      BY <3>5, LifecycleNext
  <2>4. ASSUME NEW s \in {"done", "failed", "dead"}, Record(w, s),
               s = "failed" => worker[w].attempt_no < MaxAttempts,
               s = "dead" => ~ worker[w].attempt_no < MaxAttempts
        PROVE  Lifecycle!Next
    <3>1. /\ event'[e].status = s /\ event'[e].attempts = event[e].attempts
          /\ event[e].status = "processing" /\ worker[w].attempt_no = event[e].attempts
          /\ log'[e] = Append(log[e], event[e].attempts)
      BY <1>1, <1>4, <2>1, <2>4, OwnWrites
    <3>2. event[e].attempts \in Nat /\ Len(log[e]) + 1 = event[e].attempts
      BY <1>1, <2>1, <3>1 DEF Story, EventRow
    <3>3. Len(log'[e]) = event[e].attempts
      BY <1>1, <3>1, <3>2
    <3>4. /\ Status' = [Status EXCEPT ![e] = s] /\ Tries' = Tries
          /\ Audit' = [Audit EXCEPT ![e] = Tries[e]]
      BY <1>2, <3>1, <3>3 DEF Status, Tries, Audit
    <3>5. s \in {"done", IF Tries[e] < MaxAttempts THEN "failed" ELSE "dead"}
      BY <2>4, <3>1 DEF Tries
    <3>6. Lifecycle!End(e)
      BY <3>1, <3>4, <3>5 DEF Lifecycle!End, Status, Tries, Audit
    <3> QED
      BY <3>6, LifecycleNext
  <2>5. CASE Delivered(w)
    BY <2>4, <2>5 DEF Delivered
  <2>6. worker[w].attempt_no \in Nat /\ MaxAttempts \in Nat
    BY <1>1, StoreAssumption DEF WorkerState, StoreAssumption
  <2>7. CASE DeadLettered(w)
    BY <2>4, <2>6, <2>7 DEF DeadLettered, Exhausted
  <2>8. CASE AttemptFailed(w)
    BY <2>4, <2>6, <2>8 DEF AttemptFailed, Exhausted
  <2> QED
    BY <1>3, <1>4, <2>2, <2>3, <2>5, <2>7, <2>8 DEF ForwarderStep, Take, Load, Post, Retry,
       Acknowledge
<1> QED
  BY <1>3, <1>4

(* Without lost workers, no task is ever redelivered.                      *)
LEMMA StepNoFaults ==
    ASSUME "worker" \notin Crashes, NoFaults, [Next]_vars
    PROVE  NoFaults'
<1>1. UNCHANGED faults
  BY DEF Next, Receiver, Forwarder, WorkerStep, Take, Load, FinishSink, BeginAttempt, Post,
     Delivered, Record, DeadLettered, DeadLetterClash, AttemptFailed, Retry, Acknowledge,
     PurgeExpired, vars
<1> QED
  BY <1>1 DEF NoFaults

(* Every step is one of the promised ones, or none.                        *)
LEMMA StepLifecycle ==
    ASSUME "worker" \notin Crashes, Retention = FALSE, LInv, [Next]_vars
    PROVE  [Lifecycle!Next]_(Lifecycle!vars)
<1>1. CASE UNCHANGED vars
  BY <1>1, LifecycleStutters DEF vars, storeVars
<1>2. ASSUME NEW d \in Delivery, Receiver(d) PROVE Lifecycle!Next \/ UNCHANGED Lifecycle!vars
  <2>1. ReceiverStep(d)
    BY <1>2 DEF Receiver, IngestStep, ReceiverStep
  <2> QED
    BY <2>1, ReceiverStores
<1>3. ASSUME NEW w \in Worker, Forwarder(w) PROVE Lifecycle!Next \/ UNCHANGED Lifecycle!vars
  <2>1. ForwarderStep(w)
    BY <1>3 DEF Forwarder, WorkerStep, ForwarderStep
  <2>2. CASE \E t \in Task : Take(w, t)
    <3>1. UNCHANGED <<event, log>>
      BY <2>2 DEF Take
    <3> QED
      BY <3>1, LifecycleStutters
  <2>3. CASE ~ \E t \in Task : Take(w, t)
    <3>1. WorkerStep(w)
      BY <1>3, <2>3 DEF Forwarder
    <3>2. worker[w].pc # "idle"
      BY <3>1 DEF WorkerStep, Load, FinishSink, BeginAttempt, Post, Delivered, Record,
         DeadLettered, DeadLetterClash, AttemptFailed, Retry, Acknowledge
    <3>3. UNCHANGED faults /\ faults \in [Delivery -> Nat]
      BY <3>1 DEF WorkerStep, Load, FinishSink, BeginAttempt, Post, Delivered, Record,
         DeadLettered, DeadLetterClash, AttemptFailed, Retry, Acknowledge,
         LInv, AInv, IInv, TypeOK, ForwardTypeOK
    <3>4. EventOf(w) \in Delivery
      BY <2>1, <3>2, WorkerLocal DEF LInv, AInv, IInv
    <3>5. ~ WorkerCrash(w) /\ ~ Redeliver(w)
      BY <3>3, <3>4 DEF WorkerCrash, Redeliver, Requeue
    <3> QED
      BY <2>1, <3>2, <3>5, WorkerLives
  <2> QED
    BY <2>2, <2>3
<1>4. ~ \E cutoff \in 1 .. clock : PurgeExpired(cutoff)
  BY DEF PurgeExpired
<1> QED
  BY <1>1, <1>2, <1>3, <1>4 DEF Next

(* While no worker is lost, an event is tried at most MaxAttempts times,   *)
(* one try after another, every try is recorded, and "done" and "dead" are *)
(* final, for any number of events and of workers that take their tasks    *)
(* (forward.py).                                                           *)
THEOREM ForwarderRefines ==
    ASSUME "worker" \notin Crashes, Retention = FALSE
    PROVE  Spec => LifecycleHolds
<1>1. Init => Lifecycle!Init /\ NoFaults
  BY DEF Init, IngestInit, ForwardInit, StoreInit, AbsentRow, Lifecycle!Init, NoFaults
<1>2. LInv /\ [Next]_vars => LInv'
  BY StepAInv, StepNoFaults DEF LInv
<1>3. Init => LInv
  BY <1>1, InitAInv DEF LInv
<1>4. LInv /\ [Next]_vars => [Lifecycle!Next]_(Lifecycle!vars)
  BY StepLifecycle
<1> QED
  BY <1>1, <1>2, <1>3, <1>4, PTL DEF Spec, LifecycleHolds, Lifecycle!Spec
=============================================================================
