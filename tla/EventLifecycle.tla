--------------------------- MODULE EventLifecycle ---------------------------
(***************************************************************************)
(* What the forwarder promises about one event when nothing goes wrong     *)
(* around it: the lifecycle of the STATUS_* constants of models.py.  The   *)
(* destination is called once per attempt; a success ends the event, and   *)
(* the MaxAttempts-th failure moves it to the dead letters for good.       *)
(***************************************************************************)
EXTENDS Naturals

CONSTANTS Event, MaxAttempts

VARIABLES
    status,     \* "none" before the event is stored
    tries,      \* attempts begun
    audit       \* attempts recorded in the outbound log

vars == <<status, tries, audit>>

Init ==
    /\ status = [e \in Event |-> "none"]
    /\ tries = [e \in Event |-> 0]
    /\ audit = [e \in Event |-> 0]

Store(e) ==
    /\ status[e] = "none"
    /\ status' = [status EXCEPT ![e] = "received"]
    /\ UNCHANGED <<tries, audit>>

(* An event of a connection with no destination is done without a try.     *)
Sink(e) ==
    /\ status[e] = "received"
    /\ status' = [status EXCEPT ![e] = "done"]
    /\ UNCHANGED <<tries, audit>>

Begin(e) ==
    /\ status[e] \in {"received", "failed"}
    /\ tries[e] < MaxAttempts
    /\ status' = [status EXCEPT ![e] = "processing"]
    /\ tries' = [tries EXCEPT ![e] = @ + 1]
    /\ UNCHANGED audit

(* Every attempt is recorded, whatever its outcome.                        *)
End(e) ==
    /\ status[e] = "processing"
    /\ status' \in {[status EXCEPT ![e] = s] :
                        s \in {"done", IF tries[e] < MaxAttempts THEN "failed" ELSE "dead"}}
    /\ audit' = [audit EXCEPT ![e] = tries[e]]
    /\ UNCHANGED tries

Next == \E e \in Event : Store(e) \/ Sink(e) \/ Begin(e) \/ End(e)

Spec == Init /\ [][Next]_vars
=============================================================================
