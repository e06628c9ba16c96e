----------------------------- MODULE EventStore -----------------------------
(***************************************************************************)
(* The tables and the broker that the webhook receiver, the forwarder and  *)
(* the retention job of btx_platform share: the events, idempotency_keys,  *)
(* outbound_log and dead_letters tables of models.py and the Celery queue  *)
(* "btx_platform" of workers/__init__.py.                                  *)
(*                                                                         *)
(* An event is named by the HTTP delivery that stored it: ingest() adds at *)
(* most one Event, under a fresh uuid, for each delivery it handles.  Text *)
(* columns (raw_body, payload, error, response) are left out.              *)
(***************************************************************************)
EXTENDS Naturals, Sequences

CONSTANTS
    Delivery,       \* the HTTP deliveries that sources make
    Key,            \* the idempotency keys they carry
    NoKey,          \* "the delivery carries none of the three key fields"
    NoEvent,        \* "no such row"
    Connection,     \* the rows of the connections table
    Forwarding,     \* the connections that have a destination_url
    MaxAttempts     \* settings.max_attempts

ASSUME StoreAssumption ==
    /\ NoKey \notin Key
    /\ NoEvent \notin Delivery \cup Key \cup {NoKey}
    /\ Forwarding \subseteq Connection
    /\ MaxAttempts \in Nat \ {0}

(***************************************************************************)
(* Rows.  A row with status "none" is not in the table.                    *)
(***************************************************************************)
StoredStatus == {"received", "processing", "done", "failed", "dead"}

EventRow ==
    [status : StoredStatus \cup {"none"},
     attempts : Nat,
     key : Key \cup {NoKey},
     connection : Connection \cup {NoEvent},
     received_at : Nat]

AbsentRow ==
    [status |-> "none", attempts |-> 0, key |-> NoKey,
     connection |-> NoEvent, received_at |-> 0]

(* A task message names an event and how often it has been retried:        *)
(* self.request.retries travels with the message.                          *)
Task == [event : Delivery, retries : 0 .. MaxAttempts]

VARIABLES
    event,      \* events: Delivery -> EventRow
    keyRow,     \* idempotency_keys: the event that claimed each key
    log,        \* outbound_log: the attempt_no of each event's rows, in order
    dead,       \* dead_letters: event_id is unique, so a set of events
    queued,     \* how many copies of each task wait in the broker
    clock       \* received_at of the next event

storeVars == <<event, keyRow, log, dead, queued, clock>>

StoreTypeOK ==
    /\ event \in [Delivery -> EventRow]
    /\ keyRow \in [Key -> Delivery \cup {NoEvent}]
    /\ log \in [Delivery -> Seq(Nat)]
    /\ dead \in SUBSET Delivery
    /\ queued \in [Task -> Nat]
    /\ clock \in Nat

StoreInit ==
    /\ event = [d \in Delivery |-> AbsentRow]
    /\ keyRow = [k \in Key |-> NoEvent]
    /\ log = [d \in Delivery |-> <<>>]
    /\ dead = {}
    /\ queued = [t \in Task |-> 0]
    /\ clock = 0

Stored(d) == event[d].status # "none"

(* app.send_task / Task.retry: the broker accepts one more copy of task t. *)
Publish(t) == queued' = [queued EXCEPT ![t] = @ + 1]

=============================================================================
