-------------------------- MODULE WebhookDelivery --------------------------
(***************************************************************************)
(* The webhook path as a whole: the receiver's handlers, the broker, the   *)
(* forward workers and the retention job, over one store.                  *)
(***************************************************************************)
EXTENDS WebhookIngest, ForwardWorker

CONSTANTS
    Crashes,    \* bound: what may fail: a subset of {"handler", "broker", "worker"}
    Retention   \* bound: whether the retention job runs

ASSUME DeliveryAssumption ==
    /\ Crashes \subseteq {"handler", "broker", "worker"}
    /\ Retention \in BOOLEAN

vars == <<storeVars, request, worker, accepts, faults>>

TypeOK == IngestTypeOK /\ ForwardTypeOK

Init == IngestInit /\ ForwardInit

(***************************************************************************)
(* purge_expired_records: one transaction deletes the events received      *)
(* before the cutoff with their keys, log rows and dead letters.  The      *)
(* retention period is 90 days and a handler or an attempt lasts seconds,  *)
(* so no process is in the middle of one of them; a task that names one    *)
(* may still wait in the broker.                                           *)
(***************************************************************************)
InHand(d) ==
    \/ request[d].pc = "enqueue"
    \/ \E w \in Worker : worker[w].pc # "idle" /\ worker[w].task.event = d

Expired(cutoff) == {d \in Delivery : Stored(d) /\ event[d].received_at < cutoff}

(* Mutant: the purge forgets the idempotency keys of the events.           *)
PurgeKeepsKeys(cutoff) ==
    LET S == Expired(cutoff) IN
    /\ Retention
    /\ S # {}
    /\ \A d \in S : ~ InHand(d)
    /\ event' = [d \in Delivery |-> IF d \in S THEN AbsentRow ELSE event[d]]
    /\ log' = [d \in Delivery |-> IF d \in S THEN <<>> ELSE log[d]]
    /\ dead' = dead \ S
    /\ UNCHANGED <<keyRow, queued, clock, request, worker, accepts, faults>>

PurgeExpired(cutoff) ==
    LET S == Expired(cutoff) IN
    /\ Retention
    /\ S # {}
    /\ \A d \in S : ~ InHand(d)
    /\ event' = [d \in Delivery |-> IF d \in S THEN AbsentRow ELSE event[d]]
    /\ keyRow' = [k \in Key |-> IF keyRow[k] \in S THEN NoEvent ELSE keyRow[k]]
    /\ log' = [d \in Delivery |-> IF d \in S THEN <<>> ELSE log[d]]
    /\ dead' = dead \ S
    /\ UNCHANGED <<queued, clock, request, worker, accepts, faults>>

(***************************************************************************)
(* The next-state relation.                                                *)
(***************************************************************************)
Receiver(d) ==
    /\ \/ Refuse(d)
       \/ Admit(d)
       \/ IngestStep(d)
       \/ "handler" \in Crashes /\ HandlerCrash(d)
       \/ "broker" \in Crashes /\ EnqueueFails(d)
    /\ UNCHANGED <<worker, accepts, faults>>

Forwarder(w) ==
    /\ \/ \E t \in Task : Take(w, t)
       \/ WorkerStep(w)
       \/ "worker" \in Crashes /\ WorkerCrash(w)
       \/ "worker" \in Crashes /\ Redeliver(w)
    /\ UNCHANGED request

Next ==
    \/ \E d \in Delivery : Receiver(d)
    \/ \E w \in Worker : Forwarder(w)
    \/ \E cutoff \in 1 .. clock : PurgeExpired(cutoff)

Spec == Init /\ [][Next]_vars

(***************************************************************************)
(* A handler that has not crashed runs to its answer; a worker keeps       *)
(* working and some worker takes every task.  Nobody has to send anything, *)
(* and no fault has to happen.                                             *)
(***************************************************************************)
Fairness ==
    /\ \A d \in Delivery :
          WF_vars(IngestStep(d) /\ UNCHANGED <<worker, accepts, faults>>)
    /\ \A w \in Worker : WF_vars(WorkerStep(w) /\ UNCHANGED request)
    /\ \A t \in Task : WF_vars(\E w \in Worker : Take(w, t) /\ UNCHANGED request)

FairSpec == Spec /\ Fairness

-----------------------------------------------------------------------------
(* The key rows and the events say the same thing: a key names a stored    *)
(* event that carries it, and an event stored under a key owns it.  No two *)
(* events of one key ever coexist, however the handlers of its deliveries  *)
(* interleave (ingest.py: fast path, unique key, rollback).                *)
KeysMatchEvents ==
    /\ \A k \in Key :
          keyRow[k] # NoEvent => Stored(keyRow[k]) /\ event[keyRow[k]].key = k
    /\ \A d \in Delivery :
          Stored(d) /\ event[d].key # NoKey => keyRow[event[d].key] = d

(* What makes the three properties below inductive: a handler has stored   *)
(* its event exactly when it is about to enqueue it, and names no event    *)
(* before it answers; a worker past its load step works on a row that is   *)
(* still there, so that none of its writes brings a purged row back.       *)
HandlersOwnRows ==
    \A d \in Delivery :
        /\ request[d].pc \in {"idle", "lookup", "persist", "rolledback"} => ~ Stored(d)
        /\ request[d].pc = "enqueue" => Stored(d)
        /\ request[d].pc # "done" => request[d].event = NoEvent

WorkersOwnRows ==
    \A w \in Worker :
        worker[w].pc \in {"begin", "post", "finish"} => Stored(EventOf(w))

(* Each extra time the destination accepts an event is the price of one    *)
(* redelivered task: without redelivery, forwarding is exactly-once        *)
(* however attempts, retries and workers interleave (forward.py).          *)
AcceptsBounded == \A d \in Delivery : accepts[d] <= 1 + faults[d]

(* A dead letter is evidence: the audit trail of its event holds an        *)
(* attempt that reached the limit, and an event is marked dead only if its *)
(* dead letter is there (forward.py: one transaction for the three).       *)
DeadLettersHaveEvidence ==
    \A d \in Delivery :
        /\ d \in dead => \E i \in DOMAIN log[d] : log[d][i] >= MaxAttempts
        /\ event[d].status = "dead" => d \in dead

(* "Records an OutboundLog row for every attempt": while no task of the    *)
(* event was redelivered, its log is attempts 1, 2, ... in order, and only *)
(* an attempt in progress is missing from it (forward.py).                 *)
AuditTrailComplete ==
    \A d \in Delivery :
        faults[d] = 0 =>
            /\ \A i \in DOMAIN log[d] : log[d][i] = i
            /\ Len(log[d]) + (IF event[d].status = "processing" THEN 1 ELSE 0)
                  = event[d].attempts

(* What the destination has seen is on record: it accepts an event no more *)
(* often than redelivery explains, and without redelivery every attempt is *)
(* in the log, in its order (forward.py).                                  *)
AttemptsAccounted == AcceptsBounded /\ AuditTrailComplete

(* The inductive invariant of the proofs.                                  *)
IInv ==
    /\ TypeOK
    /\ HandlersOwnRows
    /\ WorkersOwnRows
    /\ KeysMatchEvents
    /\ DeadLettersHaveEvidence

(* The receiver implements the promise about keys: seen through the key    *)
(* rows, the stored events and the answers, every step of the system is    *)
(* one atomic step of KeyedIntake or none (ingest.py, retention.py).       *)
Intake == INSTANCE KeyedIntake WITH
    owner <- keyRow,
    live <- [d \in Delivery |-> IF Stored(d) THEN event[d].key ELSE NoEvent],
    answered <- [d \in Delivery |-> request[d].event]

IntakeIsKeyed == Intake!Spec

(* When nothing fails, the forwarder implements the lifecycle of one       *)
(* event: it is tried at most MaxAttempts times, every try is recorded,    *)
(* and "done" and "dead" are final (forward.py).                           *)
Lifecycle == INSTANCE EventLifecycle WITH
    Event <- Delivery,
    status <- [d \in Delivery |-> event[d].status],
    tries <- [d \in Delivery |-> event[d].attempts],
    audit <- [d \in Delivery |-> Len(log[d])]

LifecycleHolds == Lifecycle!Spec

(* An event that the route acknowledged with a 200, to its first delivery  *)
(* or to a duplicate, is eventually forwarded or dead-lettered.            *)
Settled(d) == event[d].status \in {"done", "dead"}

AcknowledgedSettles ==
    \A d, e \in Delivery :
        (request[d].answer \in {"accepted", "duplicate"} /\ request[d].event = e)
            ~> Settled(e)

(* "After N failed attempts a job goes to the DLQ table and stops          *)
(* retrying" (docs/PLATFORM_BLUEPRINT.md): no attempt of a dead-lettered   *)
(* event begins.                                                           *)
DeadStopsRetrying ==
    [][\A d \in dead : event'[d].attempts = event[d].attempts]_vars
=============================================================================
