---------------------------- MODULE KeyedIntake ----------------------------
(***************************************************************************)
(* What the webhook receiver promises about idempotency keys, without      *)
(* tables, transactions or concurrency: a delivery is taken in at once, in *)
(* one step that either creates its event and claims its key or answers    *)
(* with the event that owns the key.  ("A key is claimed once": the        *)
(* docstring of models.IdempotencyKey.)                                    *)
(***************************************************************************)
CONSTANTS Delivery, Key, NoKey, NoEvent

VARIABLES
    owner,      \* the event that owns each key, or NoEvent
    live,       \* the events in the store, each with its key
    answered    \* the event_id each delivery was told, or NoEvent

vars == <<owner, live, answered>>

TypeOK ==
    /\ owner \in [Key -> Delivery \cup {NoEvent}]
    /\ live \in [Delivery -> Key \cup {NoKey, NoEvent}]
    /\ answered \in [Delivery -> Delivery \cup {NoEvent}]

Init ==
    /\ owner = [k \in Key |-> NoEvent]
    /\ live = [d \in Delivery |-> NoEvent]
    /\ answered = [d \in Delivery |-> NoEvent]

(* A first delivery of key k: the event is created and the key claimed.    *)
Accept(d, k) ==
    /\ live[d] = NoEvent
    /\ answered[d] = NoEvent
    /\ k \in Key => owner[k] = NoEvent
    /\ live' = [live EXCEPT ![d] = k]
    /\ owner' = [x \in Key |-> IF x = k THEN d ELSE owner[x]]
    /\ UNCHANGED answered

(* The delivery that created an event is told so.                          *)
Confirm(d) ==
    /\ live[d] # NoEvent
    /\ answered[d] = NoEvent
    /\ answered' = [answered EXCEPT ![d] = d]
    /\ UNCHANGED <<owner, live>>

(* A repeated delivery is told the event that owns its key.                *)
Repeat(d, k) ==
    /\ live[d] = NoEvent
    /\ answered[d] = NoEvent
    /\ owner[k] # NoEvent
    /\ answered' = [answered EXCEPT ![d] = owner[k]]
    /\ UNCHANGED <<owner, live>>

(* Retention: old events go, and the keys they own with them.              *)
Forget(S) ==
    /\ S # {}
    /\ \A d \in S : live[d] # NoEvent
    /\ live' = [d \in Delivery |-> IF d \in S THEN NoEvent ELSE live[d]]
    /\ owner' = [k \in Key |-> IF owner[k] \in S THEN NoEvent ELSE owner[k]]
    /\ UNCHANGED answered

Next ==
    \/ \E d \in Delivery :
          \/ \E k \in Key \cup {NoKey} : Accept(d, k)
          \/ \E k \in Key : Repeat(d, k)
          \/ Confirm(d)
    \/ \E S \in SUBSET Delivery : Forget(S)

Spec == Init /\ [][Next]_vars
=============================================================================
