----------------------------- MODULE QueryCache -----------------------------
(***************************************************************************)
(* One entry of the browser's cache of backend reads                       *)
(* (frontend/src/app/serverState.ts).  JavaScript runs one callback at a   *)
(* time, so every callback is one action; what interleaves is the order in *)
(* which the requests of one key settle, their 12 s timers, the user's     *)
(* refreshes, and the backend's mutations with the invalidation that       *)
(* follows them.  Entries of different keys share nothing.                 *)
(*                                                                         *)
(* A response is the version of the backend's data it was read at; 0 is    *)
(* null.  promise and abortController are set and cleared together, so     *)
(* promise stands for both.  error is non-null exactly when status is      *)
(* "error".  The age of an entry is "fresh" below STALE_AFTER_MS.          *)
(***************************************************************************)
EXTENDS Integers, FiniteSets

CONSTANTS
  Requests,    \* names of the loader's calls, in the order they start
  MaxVersion   \* bound: how far the backend's data moves

ASSUME QueryCacheAssumption ==
  /\ Requests \subseteq Nat \ {0}
  /\ MaxVersion \in Nat \ {0}

VARIABLES
  entry,        \* the QueryState in queryStates
  request,      \* each loader call: its promise, signal and timer
  version,      \* the backend's data, counted in mutations
  invalidated,  \* history: the version of the last invalidateQueries
  source        \* history: the request whose response the entry holds

vars == <<entry, request, version, invalidated, source>>

None == 0

Version == 0..MaxVersion

Entry ==
  [status : {"idle", "loading", "refreshing", "success", "error"},
   data : Version, updatedAt : {"never", "fresh", "old"},
   errorKind : {"none", "timeout", "failed"}, timedOut : BOOLEAN,
   promise : Requests \cup {None}]

EmptyState ==
  [status |-> "idle", data |-> 0, updatedAt |-> "never", errorKind |-> "none",
   timedOut |-> FALSE, promise |-> None]

(* A request is sent, read by the backend, and settled.  had is what the   *)
(* closure remembers of `current`; overtaken is history: an invalidation   *)
(* ran while the request was in flight.                                    *)
Request ==
  [phase : {"unused", "sent", "read", "settled"}, version : Version,
   had : BOOLEAN, forced : BOOLEAN, aborted : BOOLEAN, slow : BOOLEAN,
   overtaken : BOOLEAN]

Call(phase, had, forced) ==
  [phase |-> phase, version |-> 0, had |-> had, forced |-> forced,
   aborted |-> FALSE, slow |-> FALSE, overtaken |-> FALSE]

Unused == Call("unused", FALSE, FALSE)

Init ==
  /\ entry = EmptyState
  /\ request = [r \in Requests |-> Unused]
  /\ version = 1
  /\ invalidated = 1
  /\ source = None

InFlight(r) == request[r].phase \in {"sent", "read"}

Live(r) == InFlight(r) /\ ~request[r].aborted
-----------------------------------------------------------------------------
(* Mutant: only fresh data is shared, and not the promise.                 *)
ServedFromDataOnly == entry.data # 0 /\ entry.updatedAt = "fresh"

(* fetchQuery's early returns: a caller that does not force shares the     *)
(* promise of the entry, or its data while that is fresh.                  *)
Served == entry.promise # None \/ (entry.data # 0 /\ entry.updatedAt = "fresh")

(* Mutant: the request that a refresh replaces is not aborted.             *)
StartDoesNotAbort(r, forced) ==
  /\ request[r].phase = "unused"
  /\ \A q \in Requests : q < r => request[q].phase # "unused"
  /\ forced \/ ~Served
  /\ request' = [request EXCEPT ![r] = Call("sent", entry.data # 0, forced)]
  /\ entry' = [entry EXCEPT
       !.status = IF entry.data # 0 THEN "refreshing" ELSE "loading",
       !.errorKind = "none", !.timedOut = FALSE, !.promise = r]
  /\ UNCHANGED <<version, invalidated, source>>

(* fetchQuery past them: abort the entry's request, call the loader, start *)
(* the timer, store the new promise.                                       *)
Start(r, forced) ==
  /\ request[r].phase = "unused"
  /\ \A q \in Requests : q < r => request[q].phase # "unused"
  /\ forced \/ ~Served
  /\ request' = [q \in Requests |->
       IF q = r THEN Call("sent", entry.data # 0, forced)
       ELSE [request[q] EXCEPT !.aborted = @ \/ q = entry.promise]]
  /\ entry' = [entry EXCEPT
       !.status = IF entry.data # 0 THEN "refreshing" ELSE "loading",
       !.errorKind = "none", !.timedOut = FALSE, !.promise = r]
  /\ UNCHANGED <<version, invalidated, source>>

(* The backend answers from the data it has now; the body is on its way.   *)
Read(r) ==
  /\ Live(r) /\ request[r].phase = "sent"
  /\ request' = [request EXCEPT
       ![r] = [@ EXCEPT !.phase = "read", !.version = version]]
  /\ UNCHANGED <<entry, version, invalidated, source>>

Settled(r) == request' = [request EXCEPT ![r].phase = "settled"]

(* then: the whole entry is replaced, whatever it has become meanwhile.    *)
(* The signal makes an aborted call reject, so it does not get here.       *)
Succeed(r) ==
  /\ Live(r) /\ request[r].phase = "read"
  /\ Settled(r)
  /\ entry' = [EmptyState EXCEPT !.status = "success",
                 !.data = request[r].version, !.updatedAt = "fresh"]
  /\ source' = r
  /\ UNCHANGED <<version, invalidated>>

(* Mutant: a failure leaves its promise for the next caller.               *)
FailKeepsPromise(r) ==
  /\ InFlight(r)
  /\ Settled(r)
  /\ entry' = [entry EXCEPT !.status = "error", !.errorKind = "failed"]
  /\ UNCHANGED <<version, invalidated, source>>

(* Mutant: a failure sets the kind of error and forgets the status.        *)
FailKeepsStatus(r) ==
  /\ InFlight(r)
  /\ Settled(r)
  /\ entry' = [entry EXCEPT !.errorKind = "failed", !.promise = None]
  /\ UNCHANGED <<version, invalidated, source>>

(* catch, of an error other than the abort: offline, auth, api, unknown.   *)
Fail(r) ==
  /\ InFlight(r)
  /\ Settled(r)
  /\ entry' = [entry EXCEPT !.status = "error", !.errorKind = "failed",
                            !.promise = None]
  /\ UNCHANGED <<version, invalidated, source>>

(* catch, of the AbortError: the entry goes back to what the aborted call  *)
(* found, and the promise in it is cleared, whose ever that is by now.     *)
Cancel(r) ==
  /\ InFlight(r) /\ request[r].aborted
  /\ Settled(r)
  /\ entry' = [entry EXCEPT
       !.status = IF request[r].had THEN "success" ELSE "idle",
       !.errorKind = "none", !.promise = None]
  /\ UNCHANGED <<version, invalidated, source>>

(* The 12 s timer of a call that has not settled marks the entry if it     *)
(* holds any promise.                                                      *)
TimeOut(r) ==
  /\ InFlight(r) /\ ~request[r].slow
  /\ request' = [request EXCEPT ![r].slow = TRUE]
  /\ entry' = IF entry.promise = None THEN entry
              ELSE [entry EXCEPT !.timedOut = TRUE, !.errorKind = "timeout"]
  /\ UNCHANGED <<version, invalidated, source>>
-----------------------------------------------------------------------------
(* A mutation commits in the backend, this client's or another one's.      *)
Mutate ==
  /\ version < MaxVersion
  /\ version' = version + 1
  /\ UNCHANGED <<entry, request, invalidated, source>>

(* Mutant: the prefix does not match the key (workItems.ts:350).           *)
InvalidateOtherKeys ==
  /\ invalidated < version
  /\ request' = [r \in Requests |->
       [request[r] EXCEPT !.overtaken = @ \/ InFlight(r)]]
  /\ invalidated' = version
  /\ UNCHANGED <<entry, version, source>>

(* refreshWorkState, after a mutation of this client has been answered:    *)
(* the entry loses its age; nothing is fetched and nothing is aborted.     *)
Invalidate ==
  /\ invalidated < version
  /\ entry' = [entry EXCEPT !.updatedAt = "never"]
  /\ request' = [r \in Requests |->
       [request[r] EXCEPT !.overtaken = @ \/ InFlight(r)]]
  /\ invalidated' = version
  /\ UNCHANGED <<version, source>>

(* Five minutes pass.                                                      *)
Expire ==
  /\ entry.updatedAt = "fresh"
  /\ entry' = [entry EXCEPT !.updatedAt = "old"]
  /\ UNCHANGED <<request, version, invalidated, source>>

Settle(r) == Succeed(r) \/ Fail(r) \/ Cancel(r)

Next ==
  \/ \E r \in Requests :
       \/ \E forced \in BOOLEAN : Start(r, forced)
       \/ Read(r)
       \/ Succeed(r)
       \/ Fail(r)
       \/ Cancel(r)
       \/ TimeOut(r)
  \/ Mutate
  \/ Invalidate
  \/ Expire

Spec == Init /\ [][Next]_vars

(* The backend reads, and the browser settles, every request it is given;  *)
(* nobody has to refresh, mutate or wait.                                  *)
FairSpec == Spec /\ \A r \in Requests : WF_vars(Read(r)) /\ WF_vars(Settle(r))
-----------------------------------------------------------------------------
(* Every variable has its type.                                            *)
TypeOK ==
  /\ entry \in Entry
  /\ request \in [Requests -> Request]
  /\ version \in Version
  /\ invalidated \in Version
  /\ source \in Requests \cup {None}

(* What the cockpit shows is what goes on: the promise handed to callers   *)
(* is one that will settle and was not aborted; loading and refreshing     *)
(* mean that there is one; loading means nothing to show yet, success and  *)
(* refreshing that there is something (serverState.ts:109-132).            *)
StatusTellsTruth ==
  /\ entry.promise # None => Live(entry.promise)
  /\ entry.status \in {"loading", "refreshing"} <=> entry.promise # None
  /\ entry.status = "loading" => entry.data = 0
  /\ entry.status \in {"success", "refreshing"} => entry.data # 0

(* Aborting the request that a refresh replaces keeps answers in order:    *)
(* the entry goes back to older data only after an aborted call has        *)
(* settled and cleared a promise that was not its own.                     *)
DataMovesForward ==
  [][entry'.data < entry.data =>
       \E r \in Requests : request[r].aborted /\ request[r].phase = "settled"]_vars

(* Data older than the last invalidation passes for fresh only if its      *)
(* response was already under way when the invalidation ran: every request *)
(* that starts later brings the mutation (serverState.ts:74-81).           *)
FreshSinceInvalidation ==
  entry.updatedAt # "never" /\ entry.data < invalidated =>
    source # None /\ request[source].overtaken

(* Callers that do not force share one request, as long as no aborted call *)
(* has cleared the promise they would share (serverState.ts:95).           *)
SharesUntilAborted ==
  [][\A r \in Requests :
       request[r].phase = "unused" /\ request'[r].phase # "unused"
         /\ ~request'[r].forced /\ (\E q \in Requests : Live(q)) =>
       \E q \in Requests : request[q].aborted /\ request[q].phase = "settled"]_vars

(* The doc's claim without the condition: "The current implementation      *)
(* deduplicates identical requests" (docs/ROUTING_AND_STATE.md:39).        *)
Deduplicates ==
  [][\A r \in Requests :
       request[r].phase = "unused" /\ request'[r].phase # "unused"
         /\ ~request'[r].forced => ~\E q \in Requests : Live(q)]_vars

(* A spinner ends: whatever is refreshed, aborted or lost meanwhile, an    *)
(* entry that is loading comes to show data, an error, or idleness.        *)
LoadingEnds ==
  entry.status \in {"loading", "refreshing"} ~>
    entry.status \notin {"loading", "refreshing"}
=============================================================================
