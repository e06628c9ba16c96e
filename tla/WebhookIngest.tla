--------------------------- MODULE WebhookIngest ---------------------------
(***************************************************************************)
(* POST /webhooks/{connection_id}: the route receive_webhook of api.py and *)
(* ingest() of ingest.py.  It authenticates and validates a delivery,      *)
(* deduplicates it by its idempotency key, persists the raw payload and    *)
(* the claim on the key in one transaction, and then enqueues the forward  *)
(* task.                                                                   *)
(*                                                                         *)
(* Each delivery is handled by a process of its own: several machines run  *)
(* the `app` process (fly.toml starts them on demand), so the handlers of  *)
(* two deliveries interleave between any two database round trips.  A      *)
(* handler dies with its process between any two of them.                  *)
(***************************************************************************)
EXTENDS EventStore

VARIABLE request    \* the handler of each delivery

Answer == {"none", "refused", "conflict", "accepted", "duplicate", "error"}

Request ==
    [pc : {"idle", "lookup", "persist", "rolledback", "enqueue", "done", "crashed"},
     key : Key \cup {NoKey},
     connection : Connection \cup {NoEvent},
     answer : Answer,
     event : Delivery \cup {NoEvent}]   \* the event_id in the answer

ingestVars == <<storeVars, request>>

IngestTypeOK ==
    /\ StoreTypeOK
    /\ request \in [Delivery -> Request]

IngestInit ==
    /\ StoreInit
    /\ request = [d \in Delivery |->
            [pc |-> "idle", key |-> NoKey, connection |-> NoEvent,
             answer |-> "none", event |-> NoEvent]]

(***************************************************************************)
(* Steps of a handler.                                                     *)
(***************************************************************************)

Reply(d, answer, e) ==
    request' = [request EXCEPT ![d] =
                    [@ EXCEPT !.pc = "done", !.answer = answer, !.event = e]]

Claimed(k) == k # NoKey /\ keyRow[k] # NoEvent

(* A delivery that fails a check is answered 413, 404, 403, 401, 400 or    *)
(* 422 before anything is written: the body is too large, the connection   *)
(* unknown or disabled, the signature wrong, the body not JSON or not an   *)
(* envelope.                                                               *)
Refuse(d) ==
    /\ request[d].pc = "idle"
    /\ Reply(d, "refused", NoEvent)
    /\ UNCHANGED storeVars

(* A delivery that passes them resolves its key: header, then the          *)
(* envelope's idempotency_key, then its external_id, or none of them.      *)
Admit(d) ==
    /\ request[d].pc = "idle"
    /\ \E k \in Key \cup {NoKey}, c \in Connection :
          request' = [request EXCEPT ![d] =
                          [@ EXCEPT !.pc = "lookup", !.key = k, !.connection = c]]
    /\ UNCHANGED storeVars

(* Idempotency fast path.  It reports the event that owns the key and      *)
(* enqueues nothing.                                                       *)
FastPath(d) ==
    LET k == request[d].key IN
    /\ request[d].pc = "lookup"
    /\ IF Claimed(k)
         THEN Reply(d, "duplicate", keyRow[k])
         ELSE request' = [request EXCEPT ![d].pc = "persist"]
    /\ UNCHANGED storeVars

(* Mutant: the key row is overwritten instead of inserted (no unique key). *)
PersistOverwrites(d) ==
    /\ request[d].pc = "persist"
    /\ event' = [event EXCEPT ![d] =
          [status |-> "received", attempts |-> 0, key |-> request[d].key,
           connection |-> request[d].connection, received_at |-> clock]]
    /\ keyRow' = [x \in Key |-> IF x = request[d].key THEN d ELSE keyRow[x]]
    /\ clock' = clock + 1
    /\ request' = [request EXCEPT ![d].pc = "enqueue"]
    /\ UNCHANGED <<log, dead, queued>>

(* One transaction inserts the event and its key row; the key is a primary *)
(* key, so the second of two concurrent claims fails and is rolled back.   *)
Persist(d) ==
    LET k == request[d].key IN
    /\ request[d].pc = "persist"
    /\ IF Claimed(k)
         THEN /\ request' = [request EXCEPT ![d].pc = "rolledback"]
              /\ UNCHANGED storeVars
         ELSE /\ event' = [event EXCEPT ![d] =
                    [status |-> "received", attempts |-> 0, key |-> k,
                     connection |-> request[d].connection, received_at |-> clock]]
              /\ keyRow' = [x \in Key |-> IF x = k THEN d ELSE keyRow[x]]
              /\ clock' = clock + 1
              /\ request' = [request EXCEPT ![d].pc = "enqueue"]
              /\ UNCHANGED <<log, dead, queued>>

(* After the rollback the key is looked up again: the row may have been    *)
(* purged in between, and then the answer is 409.                          *)
Resolve(d) ==
    LET k == request[d].key IN
    /\ request[d].pc = "rolledback"
    /\ IF Claimed(k) THEN Reply(d, "duplicate", keyRow[k])
                     ELSE Reply(d, "conflict", NoEvent)
    /\ UNCHANGED storeVars

Enqueue(d) ==
    /\ request[d].pc = "enqueue"
    /\ Publish([event |-> d, retries |-> 0])
    /\ Reply(d, "accepted", d)
    /\ UNCHANGED <<event, keyRow, log, dead, clock>>

IngestStep(d) ==
    FastPath(d) \/ Persist(d) \/ Resolve(d) \/ Enqueue(d)

(***************************************************************************)
(* Faults.                                                                 *)
(***************************************************************************)

(* The broker is unreachable: send_task raises, the route answers 500, and *)
(* the event stays committed.                                              *)
EnqueueFails(d) ==
    /\ request[d].pc = "enqueue"
    /\ Reply(d, "error", NoEvent)
    /\ UNCHANGED storeVars

(* The API process stops: an open transaction is lost, a committed one is  *)
(* not.                                                                    *)
HandlerCrash(d) ==
    /\ request[d].pc \in {"lookup", "persist", "rolledback", "enqueue"}
    /\ request' = [request EXCEPT ![d].pc = "crashed"]
    /\ UNCHANGED storeVars

=============================================================================
