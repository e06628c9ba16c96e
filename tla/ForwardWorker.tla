--------------------------- MODULE ForwardWorker ---------------------------
(***************************************************************************)
(* The Celery worker: forward_event_sync and the forward_event task of     *)
(* workers/forward.py, with the delivery semantics that the configuration  *)
(* of workers/__init__.py asks of the broker (task_acks_late): a task is   *)
(* acknowledged when it ends, so one whose worker dies, or whose broker    *)
(* connection drops, is delivered again.                                   *)
(*                                                                         *)
(* The session factory sets expire_on_commit=False: a worker keeps the row *)
(* it loaded, and a commit writes only the columns whose value differs     *)
(* from the one it remembers.                                              *)
(***************************************************************************)
EXTENDS EventStore

CONSTANTS
    Worker,         \* the worker processes
    MaxFaults       \* bound: worker crashes and redeliveries per event

ASSUME WorkerAssumption == MaxFaults \in Nat

VARIABLES
    worker,     \* what each worker is doing
    accepts,    \* how often the destination answered 2xx to each event
    faults      \* how often a task of each event was delivered again

WorkerState ==
    [pc : {"idle", "load", "begin", "post", "finish", "retry", "ack"},
     task : Task \cup {NoEvent},
     status : StoredStatus \cup {"none"},   \* the status it remembers
     attempt_no : Nat,
     ok : BOOLEAN]

Idle == [pc |-> "idle", task |-> NoEvent, status |-> "none", attempt_no |-> 0, ok |-> FALSE]

forwardVars == <<storeVars, worker, accepts, faults>>

ForwardTypeOK ==
    /\ worker \in [Worker -> WorkerState]
    /\ \A w \in Worker : worker[w].pc # "idle" => worker[w].task \in Task
    /\ accepts \in [Delivery -> Nat]
    /\ faults \in [Delivery -> Nat]

ForwardInit ==
    /\ worker = [w \in Worker |-> Idle]
    /\ accepts = [d \in Delivery |-> 0]
    /\ faults = [d \in Delivery |-> 0]

EventOf(w) == worker[w].task.event

(* The task function ends, whatever its outcome; the acknowledgement that  *)
(* takes the task off the broker follows.                                  *)
End(w) == worker' = [worker EXCEPT ![w].pc = "ack"]

Take(w, t) ==
    /\ worker[w].pc = "idle"
    /\ queued[t] > 0
    /\ queued' = [queued EXCEPT ![t] = @ - 1]
    /\ worker' = [worker EXCEPT ![w] = [Idle EXCEPT !.pc = "load", !.task = t]]
    /\ UNCHANGED <<event, keyRow, log, dead, clock, accepts, faults>>

(* session.get(Event): a missing event is reported "failed", which makes   *)
(* the task retry like any failed attempt.                                 *)
Load(w) ==
    LET row == event[EventOf(w)] IN
    /\ worker[w].pc = "load"
    /\ worker' = [worker EXCEPT ![w] =
            [@ EXCEPT !.pc = IF row.status = "none" THEN "retry" ELSE "begin",
                      !.status = row.status,
                      !.attempt_no = row.attempts]]
    /\ UNCHANGED <<storeVars, accepts, faults>>

(* Writes a status through the session: nothing is sent for a value that   *)
(* the worker already remembers.                                           *)
WithStatus(row, w, status) ==
    IF worker[w].status = status THEN row ELSE [row EXCEPT !.status = status]

(* No destination configured: nothing to forward to, and no attempt.       *)
FinishSink(w) ==
    LET d == EventOf(w) IN
    /\ worker[w].pc = "begin"
    /\ event[d].connection \notin Forwarding
    /\ event' = [event EXCEPT ![d] = WithStatus(@, w, "done")]
    /\ End(w)
    /\ UNCHANGED <<keyRow, log, dead, queued, clock, accepts, faults>>

(* First commit: the attempt is counted, from the remembered value, and    *)
(* the event is marked processing before the destination is called.        *)
BeginAttempt(w) ==
    LET d == EventOf(w)
        n == worker[w].attempt_no + 1 IN
    /\ worker[w].pc = "begin"
    /\ event[d].connection \in Forwarding
    /\ event' = [event EXCEPT ![d] = [WithStatus(@, w, "processing") EXCEPT !.attempts = n]]
    /\ worker' = [worker EXCEPT ![w] =
            [@ EXCEPT !.pc = "post", !.status = "processing", !.attempt_no = n]]
    /\ UNCHANGED <<keyRow, log, dead, queued, clock, accepts, faults>>

(* http_post: a 2xx is a success, any other answer and any exception a     *)
(* failure.                                                                *)
Post(w) ==
    LET d == EventOf(w) IN
    /\ worker[w].pc = "post"
    /\ \E ok \in BOOLEAN :
          /\ worker' = [worker EXCEPT ![w] = [@ EXCEPT !.pc = "finish", !.ok = ok]]
          /\ accepts' = IF ok THEN [accepts EXCEPT ![d] = @ + 1] ELSE accepts
    /\ UNCHANGED <<storeVars, faults>>

(* Mutant: off by one.                                                     *)
ExhaustedLate(w) == worker[w].attempt_no > MaxAttempts

Exhausted(w) == worker[w].attempt_no >= MaxAttempts

(* Second commit: the outbound log row and the event's new status go in    *)
(* one transaction.                                                        *)
Record(w, status) ==
    LET d == EventOf(w) IN
    /\ worker[w].pc = "finish"
    /\ log' = [log EXCEPT ![d] = Append(@, worker[w].attempt_no)]
    /\ event' = [event EXCEPT ![d] = WithStatus(@, w, status)]
    /\ UNCHANGED <<keyRow, queued, clock, accepts, faults>>

Delivered(w) ==
    /\ worker[w].ok
    /\ Record(w, "done")
    /\ End(w)
    /\ UNCHANGED dead

(* Mutant: the dead letter is committed without the attempt's log row.     *)
DeadLetteredUnlogged(w) ==
    /\ worker[w].pc = "finish"
    /\ ~ worker[w].ok /\ Exhausted(w)
    /\ EventOf(w) \notin dead
    /\ event' = [event EXCEPT ![EventOf(w)] = WithStatus(@, w, "dead")]
    /\ dead' = dead \cup {EventOf(w)}
    /\ End(w)
    /\ UNCHANGED <<log, keyRow, queued, clock, accepts, faults>>

DeadLettered(w) ==
    /\ ~ worker[w].ok /\ Exhausted(w)
    /\ EventOf(w) \notin dead
    /\ Record(w, "dead")
    /\ dead' = dead \cup {EventOf(w)}
    /\ End(w)

(* A second dead letter breaks uq_dead_event: the commit raises, the whole *)
(* transaction is rolled back, and the task ends in an error.              *)
DeadLetterClash(w) ==
    /\ worker[w].pc = "finish"
    /\ ~ worker[w].ok /\ Exhausted(w)
    /\ EventOf(w) \in dead
    /\ End(w)
    /\ UNCHANGED <<storeVars, accepts, faults>>

(* Mutant: a failed attempt is not logged.                                 *)
AttemptUnlogged(w) ==
    /\ worker[w].pc = "finish"
    /\ ~ worker[w].ok /\ ~ Exhausted(w)
    /\ event' = [event EXCEPT ![EventOf(w)] = WithStatus(@, w, "failed")]
    /\ worker' = [worker EXCEPT ![w].pc = "retry"]
    /\ UNCHANGED <<log, dead, keyRow, queued, clock, accepts, faults>>

(* Mutant: the task returns "failed" and does not raise to be retried.     *)
AttemptNotRetried(w) ==
    /\ ~ worker[w].ok /\ ~ Exhausted(w)
    /\ Record(w, "failed")
    /\ End(w)
    /\ UNCHANGED dead

AttemptFailed(w) ==
    /\ ~ worker[w].ok /\ ~ Exhausted(w)
    /\ Record(w, "failed")
    /\ worker' = [worker EXCEPT ![w].pc = "retry"]
    /\ UNCHANGED dead

(* self.retry(max_retries=max_attempts): a new message with one more retry *)
(* or MaxRetriesExceededError, which ends the task.                        *)
Retry(w) ==
    LET t == worker[w].task IN
    /\ worker[w].pc = "retry"
    /\ IF t.retries < MaxAttempts
         THEN Publish([t EXCEPT !.retries = @ + 1])
         ELSE UNCHANGED queued
    /\ End(w)
    /\ UNCHANGED <<event, keyRow, log, dead, clock, accepts, faults>>

Acknowledge(w) ==
    /\ worker[w].pc = "ack"
    /\ worker' = [worker EXCEPT ![w] = Idle]
    /\ UNCHANGED <<storeVars, accepts, faults>>

WorkerStep(w) ==
    \/ Load(w)
    \/ FinishSink(w)
    \/ BeginAttempt(w)
    \/ Post(w)
    \/ Delivered(w)
    \/ DeadLettered(w)
    \/ DeadLetterClash(w)
    \/ AttemptFailed(w)
    \/ Retry(w)
    \/ Acknowledge(w)

(***************************************************************************)
(* Faults: the unacknowledged task goes back to the queue, its worker lost *)
(* (WorkerCrash) or still running it (Redeliver).                          *)
(***************************************************************************)
Requeue(w) ==
    /\ worker[w].pc # "idle"
    /\ faults[EventOf(w)] < MaxFaults
    /\ faults' = [faults EXCEPT ![EventOf(w)] = @ + 1]
    /\ Publish(worker[w].task)
    /\ UNCHANGED <<event, keyRow, log, dead, clock, accepts>>

WorkerCrash(w) == Requeue(w) /\ worker' = [worker EXCEPT ![w] = Idle]

Redeliver(w) == Requeue(w) /\ UNCHANGED worker

=============================================================================
