-------------------------- MODULE QueryCacheProofs --------------------------
(***************************************************************************)
(* What holds of a cache entry for any number of loader calls and any      *)
(* number of mutations: the status it shows is the status it is in, and a  *)
(* response older than an invalidation can only have been under way.       *)
(***************************************************************************)
EXTENDS QueryCache, TLAPS

(* The closures and the history agree with the entry: a call that found    *)
(* data leaves an entry with data behind it, and a response not marked as  *)
(* overtaken was read after the last invalidation.                         *)
Remembered ==
  /\ 1 <= version /\ invalidated <= version
  /\ \A r \in Requests : request[r].had => entry.data # 0
  /\ \A r \in Requests : request[r].phase = "read" =>
       /\ request[r].version # 0
       /\ request[r].version >= invalidated \/ request[r].overtaken
  /\ source # None => request[source].phase = "settled"
  /\ entry.updatedAt # "never" => source # None

IInv == TypeOK /\ StatusTellsTruth /\ FreshSinceInvalidation /\ Remembered

(* The empty state of the cache is well typed and satisfies the invariant. *)
LEMMA InitIInv == Init => IInv
  BY QueryCacheAssumption DEF QueryCacheAssumption, Init, IInv, TypeOK,
     StatusTellsTruth, FreshSinceInvalidation, Remembered, EmptyState, Unused, Call,
     Entry, Request, Version, None

(* A new call is under way and remembers what it was given.                *)
LEMMA NewCall ==
  ASSUME NEW had \in BOOLEAN, NEW forced \in BOOLEAN
  PROVE  /\ Call("sent", had, forced) \in Request
         /\ Call("sent", had, forced).phase = "sent"
         /\ ~Call("sent", had, forced).aborted
         /\ Call("sent", had, forced).had = had
<1>1. 0 \in Version
  BY QueryCacheAssumption DEF QueryCacheAssumption, Version
<1> QED
  BY <1>1 DEF Call, Request

(* Starting a call keeps the invariant: the request it replaces is the     *)
(* only one whose promise was in the entry.                                *)
LEMMA StartIInv ==
  ASSUME IInv, NEW r \in Requests, NEW forced \in BOOLEAN, Start(r, forced)
  PROVE  IInv'
<1> DEFINE new == Call("sent", entry.data # 0, forced)
           old(q) == [request[q] EXCEPT !.aborted =
                        request[q].aborted \/ q = entry.promise]
<1>1. /\ entry \in Entry /\ request \in [Requests -> Request]
      /\ version \in Version /\ invalidated \in Version
      /\ source \in Requests \cup {None} /\ r # None
  BY QueryCacheAssumption DEF QueryCacheAssumption, IInv, TypeOK, None
<1>2. request' = [q \in Requests |-> IF q = r THEN new ELSE old(q)]
  BY DEF Start
<1>3. /\ new \in Request
      /\ new.phase = "sent" /\ ~new.aborted /\ (new.had => entry.data # 0)
  BY NewCall
<1>4. \A q \in Requests :
        /\ old(q) \in Request
        /\ old(q).phase = request[q].phase
        /\ old(q).had = request[q].had
        /\ old(q).version = request[q].version
        /\ old(q).overtaken = request[q].overtaken
  BY <1>1 DEF Request
<1> HIDE DEF new, old
<1>5. /\ request' \in [Requests -> Request]
      /\ request'[r] = new
      /\ \A q \in Requests : q # r => request'[q] = old(q)
  BY <1>2, <1>3, <1>4
<1>6. /\ entry' \in Entry
      /\ entry'.data = entry.data /\ entry'.updatedAt = entry.updatedAt
      /\ entry'.promise = r
      /\ entry'.status = IF entry.data # 0 THEN "refreshing" ELSE "loading"
  BY <1>1 DEF Start, Entry
<1>7. UNCHANGED <<version, invalidated, source>>
  BY DEF Start
<1>8. request[r].phase = "unused"
  BY DEF Start
<1>9. source # None => source # r /\ source \in Requests
  BY <1>1, <1>8 DEF IInv, Remembered
<1>10. TypeOK'
  BY <1>1, <1>5, <1>6, <1>7 DEF TypeOK, Version
<1>11. StatusTellsTruth'
  <2>1. Live(r)'
    BY <1>3, <1>5 DEF Live, InFlight
  <2> QED
    BY <1>1, <1>6, <2>1 DEF StatusTellsTruth
<1>12. FreshSinceInvalidation'
  BY <1>4, <1>5, <1>6, <1>7, <1>9 DEF IInv, FreshSinceInvalidation
<1>13. Remembered'
  <2>1. \A q \in Requests : request'[q].had => entry'.data # 0
    BY <1>3, <1>4, <1>5, <1>6 DEF IInv, Remembered
  <2>2. \A q \in Requests : request'[q].phase = "read" =>
          /\ request'[q].version # 0
          /\ request'[q].version >= invalidated \/ request'[q].overtaken
    <3> SUFFICES ASSUME NEW q \in Requests, request'[q].phase = "read"
                 PROVE  /\ request'[q].version # 0
                        /\ request'[q].version >= invalidated \/ request'[q].overtaken
      OBVIOUS
    <3>1. q # r
      BY <1>3, <1>5
    <3> QED
      BY <3>1, <1>4, <1>5 DEF IInv, Remembered
  <2>3. source' # None => request'[source'].phase = "settled"
    BY <1>4, <1>5, <1>7, <1>9 DEF IInv, Remembered
  <2> QED
    BY <1>6, <1>7, <2>1, <2>2, <2>3 DEF IInv, Remembered
<1> QED
  BY <1>10, <1>11, <1>12, <1>13 DEF IInv

(* Reading a response touches neither the status nor the data, and what is *)
(* read now is not older than any invalidation so far.                     *)
LEMMA ReadIInv ==
  ASSUME IInv, NEW r \in Requests, Read(r)
  PROVE  IInv'
<1> DEFINE x == [request[r] EXCEPT !.phase = "read", !.version = version]
<1>1. /\ request \in [Requests -> Request] /\ version \in Version
      /\ source \in Requests \cup {None}
  BY DEF IInv, TypeOK
<1>2. /\ x \in Request /\ x.phase = "read" /\ x.version = version
      /\ x.aborted = request[r].aborted /\ x.had = request[r].had
      /\ x.overtaken = request[r].overtaken
  BY <1>1 DEF Request
<1>3. request' = [request EXCEPT ![r] = x]
  BY DEF Read
<1> HIDE DEF x
<1>4. /\ request' \in [Requests -> Request]
      /\ request'[r] = x
      /\ \A q \in Requests : q # r => request'[q] = request[q]
  BY <1>1, <1>2, <1>3
<1>5. UNCHANGED <<entry, version, invalidated, source>> /\ request[r].phase = "sent"
  BY DEF Read
<1>6. TypeOK'
  BY <1>4, <1>5 DEF IInv, TypeOK, Version
<1>7. \A q \in Requests : Live(q) => Live(q)'
  BY <1>2, <1>4 DEF Live, InFlight
<1>8. StatusTellsTruth'
  BY <1>5, <1>7 DEF IInv, TypeOK, StatusTellsTruth, Entry
<1>9. source # None => source # r
  BY <1>5 DEF IInv, Remembered
<1>10. FreshSinceInvalidation'
  BY <1>1, <1>4, <1>5, <1>9 DEF IInv, FreshSinceInvalidation
<1>11. Remembered'
  <2>1. /\ 1 <= version /\ invalidated <= version /\ version # 0
        /\ version \in Int /\ invalidated \in Int
    BY DEF IInv, Remembered, TypeOK, Version
  <2>2. \A q \in Requests : request'[q].had => entry'.data # 0
    BY <1>2, <1>4, <1>5 DEF IInv, Remembered
  <2>3. \A q \in Requests : request'[q].phase = "read" =>
          /\ request'[q].version # 0
          /\ request'[q].version >= invalidated' \/ request'[q].overtaken
    <3> TAKE q \in Requests
    <3>1. CASE q = r
      BY <3>1, <1>2, <1>4, <1>5, <2>1
    <3>2. CASE q # r
      BY <3>2, <1>4, <1>5 DEF IInv, Remembered
    <3> QED
      BY <3>1, <3>2
  <2>4. source' # None => request'[source'].phase = "settled"
    BY <1>1, <1>4, <1>5, <1>9 DEF IInv, Remembered
  <2> QED
    BY <1>5, <2>1, <2>2, <2>3, <2>4 DEF IInv, Remembered
<1> QED
  BY <1>6, <1>8, <1>10, <1>11 DEF IInv

(* What a step that leaves phases, responses and closures alone, and only  *)
(* ages or marks the entry, has to show.                                   *)
LEMMA QuietIInv ==
  ASSUME IInv, TypeOK', UNCHANGED <<invalidated, source>>, version <= version',
         \A q \in Requests :
           /\ request'[q].phase = request[q].phase
           /\ request'[q].version = request[q].version
           /\ request'[q].had = request[q].had
           /\ request'[q].aborted = request[q].aborted
           /\ request'[q].overtaken = request[q].overtaken,
         entry'.status = entry.status, entry'.data = entry.data,
         entry'.promise = entry.promise,
         entry'.updatedAt # "never" => entry.updatedAt # "never"
  PROVE  IInv'
<1>1. source \in Requests \cup {None} /\ entry.promise \in Requests \cup {None}
  BY DEF IInv, TypeOK, Entry
<1>2. \A q \in Requests : Live(q) => Live(q)'
  BY DEF Live, InFlight
<1>3. StatusTellsTruth'
  BY <1>1, <1>2 DEF IInv, StatusTellsTruth
<1>4. FreshSinceInvalidation'
  BY <1>1 DEF IInv, FreshSinceInvalidation
<1>5. Remembered'
  <2>1. 1 <= version' /\ invalidated' <= version'
    BY DEF IInv, Remembered, TypeOK, Version
  <2>2. \A q \in Requests : request'[q].had => entry'.data # 0
    BY DEF IInv, Remembered
  <2>3. \A q \in Requests : request'[q].phase = "read" =>
          /\ request'[q].version # 0
          /\ request'[q].version >= invalidated' \/ request'[q].overtaken
    BY DEF IInv, Remembered
  <2> QED
    BY <1>1, <2>1, <2>2, <2>3 DEF IInv, Remembered
<1> QED
  BY <1>3, <1>4, <1>5 DEF IInv

(* A timer, a mutation and the passing of time are such steps.             *)
LEMMA QuietSteps ==
  ASSUME IInv, (\E r \in Requests : TimeOut(r)) \/ Mutate \/ Expire
  PROVE  IInv'
<1>1. /\ request \in [Requests -> Request] /\ entry \in Entry
      /\ version \in Version /\ MaxVersion \in Nat
  BY QueryCacheAssumption DEF QueryCacheAssumption, IInv, TypeOK
<1>2. ASSUME NEW r \in Requests, TimeOut(r) PROVE IInv'
  <2> DEFINE x == [request[r] EXCEPT !.slow = TRUE]
  <2>1. /\ x \in Request
        /\ x.phase = request[r].phase /\ x.version = request[r].version
        /\ x.had = request[r].had /\ x.aborted = request[r].aborted
        /\ x.overtaken = request[r].overtaken
    BY <1>1 DEF Request
  <2>2. request' = [request EXCEPT ![r] = x]
    BY <1>2 DEF TimeOut
  <2> HIDE DEF x
  <2>3. /\ request' \in [Requests -> Request]
        /\ request'[r] = x
        /\ \A q \in Requests : q # r => request'[q] = request[q]
    BY <1>1, <2>1, <2>2
  <2>4. UNCHANGED <<version, invalidated, source>>
    BY <1>2 DEF TimeOut
  <2>5. /\ entry' \in Entry
        /\ entry'.status = entry.status /\ entry'.data = entry.data
        /\ entry'.promise = entry.promise /\ entry'.updatedAt = entry.updatedAt
    <3>1. CASE entry.promise = None
      BY <1>1, <1>2, <3>1 DEF TimeOut
    <3>2. CASE entry.promise # None
      BY <1>1, <1>2, <3>2 DEF TimeOut, Entry
    <3> QED
      BY <3>1, <3>2
  <2>6. TypeOK'
    BY <2>3, <2>4, <2>5 DEF IInv, TypeOK, Version
  <2>7. version <= version'
    BY <1>1, <2>4 DEF Version
  <2>8. \A q \in Requests :
          /\ request'[q].phase = request[q].phase
          /\ request'[q].version = request[q].version
          /\ request'[q].had = request[q].had
          /\ request'[q].aborted = request[q].aborted
          /\ request'[q].overtaken = request[q].overtaken
    BY <2>1, <2>3
  <2> QED
    BY <2>4, <2>5, <2>6, <2>7, <2>8, QuietIInv
<1>3. ASSUME Mutate PROVE IInv'
  <2>1. TypeOK' /\ version <= version'
    BY <1>1, <1>3 DEF Mutate, IInv, TypeOK, Version
  <2> QED
    BY <1>3, <2>1, QuietIInv DEF Mutate
<1>4. ASSUME Expire PROVE IInv'
  <2>1. TypeOK' /\ version <= version'
    BY <1>1, <1>4 DEF Expire, IInv, TypeOK, Version, Entry
  <2>2. /\ entry'.status = entry.status /\ entry'.data = entry.data
        /\ entry'.promise = entry.promise
        /\ entry'.updatedAt # "never" => entry.updatedAt # "never"
    BY <1>1, <1>4 DEF Expire, Entry
  <2> QED
    BY <1>4, <2>1, <2>2, QuietIInv DEF Expire
<1> QED
  BY <1>2, <1>3, <1>4

(* An invalidation leaves no age, so that nothing passes for fresh, and    *)
(* marks the responses that are under way.                                 *)
LEMMA InvalidateIInv ==
  ASSUME IInv, Invalidate
  PROVE  IInv'
<1> DEFINE x(q) == [request[q] EXCEPT !.overtaken =
                      request[q].overtaken \/ InFlight(q)]
<1>1. /\ request \in [Requests -> Request] /\ entry \in Entry
      /\ source \in Requests \cup {None}
  BY DEF IInv, TypeOK
<1>2. \A q \in Requests :
        /\ x(q) \in Request
        /\ x(q).phase = request[q].phase /\ x(q).version = request[q].version
        /\ x(q).had = request[q].had /\ x(q).aborted = request[q].aborted
        /\ InFlight(q) => x(q).overtaken
  BY <1>1 DEF Request, InFlight
<1>3. request' = [q \in Requests |-> x(q)]
  BY DEF Invalidate
<1> HIDE DEF x
<1>4. request' \in [Requests -> Request] /\ \A q \in Requests : request'[q] = x(q)
  BY <1>2, <1>3
<1>5. /\ entry' \in Entry /\ entry'.updatedAt = "never"
      /\ entry'.status = entry.status /\ entry'.data = entry.data
      /\ entry'.promise = entry.promise
  BY <1>1 DEF Invalidate, Entry
<1>6. invalidated' = version /\ UNCHANGED <<version, source>>
  BY DEF Invalidate
<1>7. TypeOK'
  BY <1>4, <1>5, <1>6 DEF IInv, TypeOK, Version
<1>8. \A q \in Requests : Live(q) => Live(q)'
  BY <1>2, <1>4 DEF Live, InFlight
<1>9. StatusTellsTruth'
  <2>1. entry.promise \in Requests \cup {None}
    BY <1>1 DEF Entry
  <2> QED
    BY <1>5, <1>8, <2>1 DEF IInv, StatusTellsTruth
<1>10. FreshSinceInvalidation'
  BY <1>5 DEF FreshSinceInvalidation
<1>11. Remembered'
  <2>1. \A q \in Requests : request'[q].had => entry'.data # 0
    BY <1>2, <1>4, <1>5 DEF IInv, Remembered
  <2>2. \A q \in Requests : request'[q].phase = "read" =>
          request'[q].version # 0 /\ request'[q].overtaken
    BY <1>2, <1>4 DEF IInv, Remembered, InFlight
  <2>3. source' # None => request'[source'].phase = "settled"
    BY <1>1, <1>2, <1>4, <1>6 DEF IInv, Remembered
  <2>4. 1 <= version' /\ invalidated' <= version'
    BY <1>6 DEF IInv, Remembered, TypeOK, Version
  <2> QED
    BY <1>5, <2>1, <2>2, <2>3, <2>4 DEF Remembered
<1> QED
  BY <1>7, <1>9, <1>10, <1>11 DEF IInv

(* However a call settles, the entry is left without a promise and with a  *)
(* status that says so.                                                    *)
LEMMA SettleIInv ==
  ASSUME IInv, NEW r \in Requests, Settle(r)
  PROVE  IInv'
<1> DEFINE x == [request[r] EXCEPT !.phase = "settled"]
<1>1. /\ request \in [Requests -> Request] /\ entry \in Entry
      /\ source \in Requests \cup {None} /\ version \in Version
      /\ invalidated \in Version /\ r # None /\ None \in Requests \cup {None}
  BY QueryCacheAssumption DEF QueryCacheAssumption, IInv, TypeOK, None
<1>2. /\ x \in Request /\ x.phase = "settled"
      /\ x.version = request[r].version /\ x.had = request[r].had
      /\ x.overtaken = request[r].overtaken
  BY <1>1 DEF Request
<1>3. request' = [request EXCEPT ![r] = x]
  BY DEF Settle, Succeed, Fail, Cancel, Settled
<1> HIDE DEF x
<1>4. /\ request' \in [Requests -> Request]
      /\ request'[r] = x
      /\ \A q \in Requests : q # r => request'[q] = request[q]
  BY <1>1, <1>2, <1>3
<1>5. UNCHANGED <<version, invalidated>> /\ InFlight(r)
  BY DEF Settle, Succeed, Fail, Cancel, Live
<1>6. source # None => source # r
  BY <1>5 DEF IInv, Remembered, InFlight
<1>7. /\ entry' \in Entry
      /\ entry'.promise = None
      /\ entry'.status \in {"success", "error", "idle"}
  <2>1. CASE Succeed(r)
    BY <1>1, <2>1 DEF Succeed, EmptyState, Entry, Request
  <2>2. CASE Fail(r)
    BY <1>1, <2>2 DEF Fail, Entry
  <2>3. CASE Cancel(r)
    BY <1>1, <2>3 DEF Cancel, Entry
  <2> QED
    BY <2>1, <2>2, <2>3 DEF Settle
<1>8. \/ /\ Succeed(r) /\ source' = r
         /\ entry'.status = "success" /\ entry'.data = request[r].version
         /\ request[r].phase = "read"
      \/ /\ source' = source /\ entry'.data = entry.data
         /\ entry'.updatedAt = entry.updatedAt
         /\ entry'.status = "success" => request[r].had
  <2>1. CASE Succeed(r)
    BY <2>1 DEF Succeed, EmptyState
  <2>2. CASE Fail(r)
    BY <1>1, <2>2 DEF Fail, Entry
  <2>3. CASE Cancel(r)
    BY <1>1, <2>3 DEF Cancel, Entry
  <2> QED
    BY <2>1, <2>2, <2>3 DEF Settle
<1>9. request[r].phase = "read" => request[r].version # 0
  BY DEF IInv, Remembered
<1>10. TypeOK'
  BY <1>1, <1>4, <1>5, <1>7, <1>8 DEF TypeOK, Version
<1>11. StatusTellsTruth'
  <2>1. entry'.status = "success" => entry'.data # 0
    BY <1>8, <1>9 DEF IInv, Remembered
  <2> QED
    BY <1>7, <2>1 DEF StatusTellsTruth
<1>12. FreshSinceInvalidation'
  <2>1. CASE Succeed(r)
    <3>1. source' = r /\ entry'.data = request[r].version /\ request[r].phase = "read"
      BY <2>1 DEF Succeed, EmptyState
    <3>2. request[r].version >= invalidated \/ request[r].overtaken
      BY <3>1 DEF IInv, Remembered
    <3>3. request[r].version \in Version
      BY <1>1 DEF Request
    <3>4. ~(request[r].version >= invalidated /\ request[r].version < invalidated)
      BY <1>1, <3>3 DEF Version
    <3> QED
      BY <1>1, <1>2, <1>4, <1>5, <3>1, <3>2, <3>4 DEF FreshSinceInvalidation
  <2>2. CASE ~Succeed(r)
    BY <1>1, <1>4, <1>5, <1>6, <1>8, <2>2 DEF IInv, FreshSinceInvalidation
  <2> QED
    BY <2>1, <2>2
<1>13. Remembered'
  <2>1. \A q \in Requests : request'[q].had => entry'.data # 0
    BY <1>2, <1>4, <1>8, <1>9 DEF IInv, Remembered
  <2>2. \A q \in Requests : request'[q].phase = "read" =>
          /\ request'[q].version # 0
          /\ request'[q].version >= invalidated' \/ request'[q].overtaken
    <3> TAKE q \in Requests
    <3>1. CASE q = r
      BY <3>1, <1>2, <1>4
    <3>2. CASE q # r
      BY <3>2, <1>4, <1>5 DEF IInv, Remembered
    <3> QED
      BY <3>1, <3>2
  <2>3. source' # None => request'[source'].phase = "settled"
    BY <1>1, <1>2, <1>4, <1>6, <1>8 DEF IInv, Remembered
  <2>4. entry'.updatedAt # "never" => source' # None
    BY <1>1, <1>8 DEF IInv, Remembered
  <2> QED
    BY <1>5, <2>1, <2>2, <2>3, <2>4 DEF IInv, Remembered
<1> QED
  BY <1>10, <1>11, <1>12, <1>13 DEF IInv

(* Every step, and every stuttering step, keeps the invariant.             *)
LEMMA StepIInv == IInv /\ [Next]_vars => IInv'
<1> SUFFICES ASSUME IInv, [Next]_vars PROVE IInv'
  OBVIOUS
<1>1. CASE \E r \in Requests, forced \in BOOLEAN : Start(r, forced)
  BY <1>1, StartIInv
<1>2. CASE \E r \in Requests : Read(r)
  BY <1>2, ReadIInv
<1>3. CASE \E r \in Requests : Settle(r)
  BY <1>3, SettleIInv
<1>4. CASE (\E r \in Requests : TimeOut(r)) \/ Mutate \/ Expire
  BY <1>4, QuietSteps
<1>5. CASE Invalidate
  BY <1>5, InvalidateIInv
<1>6. CASE UNCHANGED vars
  BY <1>6 DEF vars, IInv, TypeOK, StatusTellsTruth, FreshSinceInvalidation,
              Remembered, Live, InFlight
<1> QED
  BY <1>1, <1>2, <1>3, <1>4, <1>5, <1>6 DEF Next, Settle

(* Every reachable state of the cache entry is well typed.                 *)
THEOREM TypeCorrect == Spec => []TypeOK
<1>1. IInv => TypeOK
  BY DEF IInv
<1> QED
  BY <1>1, InitIInv, StepIInv, PTL DEF Spec

(* The status shown is the truth: a promise in the entry is that of a call *)
(* under way and not aborted, a spinner means there is one, and success    *)
(* that there is something to show (serverState.ts:106-132).               *)
THEOREM StatusAlwaysTrue == Spec => []StatusTellsTruth
<1>1. IInv => StatusTellsTruth
  BY DEF IInv
<1> QED
  BY <1>1, InitIInv, StepIInv, PTL DEF Spec

(* Data older than the last invalidation never passes for fresh, unless    *)
(* its response was under way when the invalidation ran                    *)
(* (serverState.ts:74-81 and 109).                                         *)
THEOREM FreshnessHolds == Spec => []FreshSinceInvalidation
<1>1. IInv => FreshSinceInvalidation
  BY DEF IInv
<1> QED
  BY <1>1, InitIInv, StepIInv, PTL DEF Spec
-----------------------------------------------------------------------------
(* The order of answers.  Wiped: an aborted call has settled, and cleared  *)
(* whatever promise the entry held.                                        *)
Wiped == \E q \in Requests : request[q].aborted /\ request[q].phase = "settled"

(* Until then the only call under way and not aborted is the one in the    *)
(* entry, and its response is not older than what the entry shows.         *)
Ordered ==
  /\ entry.data <= version
  /\ \A r \in Requests : Live(r) => r = entry.promise \/ Wiped
  /\ \A r \in Requests : Live(r) /\ request[r].phase = "read" =>
       /\ request[r].version <= version
       /\ entry.data <= request[r].version \/ Wiped

(* In the initial state no call is under way.                              *)
LEMMA InitOrdered == Init => Ordered
  BY DEF Init, Ordered, EmptyState, Unused, Call, Live, InFlight

(* Starting a call aborts the one in the entry, which was the only one.    *)
LEMMA StartOrdered ==
  ASSUME IInv, Ordered, NEW r \in Requests, NEW forced \in BOOLEAN, Start(r, forced)
  PROVE  Ordered'
<1>1. /\ request \in [Requests -> Request] /\ entry \in Entry
      /\ request[r].phase = "unused"
  BY DEF IInv, TypeOK, Start
<1>2. /\ request'[r].phase = "sent"
      /\ \A q \in Requests : q # r =>
           /\ request'[q].phase = request[q].phase
           /\ request'[q].version = request[q].version
           /\ request'[q].aborted <=> (request[q].aborted \/ q = entry.promise)
  BY <1>1 DEF Start, Call, Request
<1>3. entry'.promise = r /\ entry'.data = entry.data /\ version' = version
  BY <1>1 DEF Start, Entry
<1>4. Wiped => Wiped'
  BY <1>1, <1>2 DEF Wiped
<1>5. \A q \in Requests : Live(q)' => q = r \/ (Live(q) /\ q # entry.promise)
  BY <1>2 DEF Live, InFlight
<1> QED
  BY <1>2, <1>3, <1>4, <1>5 DEF Ordered

(* What is read now is the newest there is.                                *)
LEMMA ReadOrdered ==
  ASSUME IInv, Ordered, NEW r \in Requests, Read(r)
  PROVE  Ordered'
<1>1. request \in [Requests -> Request] /\ entry \in Entry /\ version \in Int
  BY DEF IInv, TypeOK, Version
<1>2. /\ request'[r].phase = "read" /\ request'[r].version = version
      /\ request'[r].aborted = request[r].aborted
      /\ \A q \in Requests : q # r => request'[q] = request[q]
      /\ UNCHANGED <<entry, version>> /\ request[r].phase = "sent"
  BY <1>1 DEF Read, Request
<1>3. Wiped => Wiped'
  BY <1>2 DEF Wiped
<1>4. \A q \in Requests : Live(q)' => Live(q)
  BY <1>2 DEF Live, InFlight
<1> QED
  BY <1>1, <1>2, <1>3, <1>4 DEF Ordered

(* Settling ends the only call there is, or shows an aborted one settled.  *)
LEMMA SettleOrdered ==
  ASSUME IInv, Ordered, NEW r \in Requests, Settle(r)
  PROVE  Ordered'
<1>1. request \in [Requests -> Request] /\ entry \in Entry
  BY DEF IInv, TypeOK
<1>2. request' = [request EXCEPT ![r].phase = "settled"] /\ InFlight(r)
  BY DEF Settle, Succeed, Fail, Cancel, Settled, Live
<1>3. /\ request'[r].phase = "settled" /\ request'[r].aborted = request[r].aborted
      /\ \A q \in Requests : q # r => request'[q] = request[q]
  BY <1>1, <1>2 DEF Request
<1>4. /\ version' = version
      /\ entry'.data = entry.data
           \/ (Live(r) /\ request[r].phase = "read" /\ entry'.data = request[r].version)
  BY <1>1 DEF Settle, Succeed, Fail, Cancel, EmptyState, Entry
<1>5. Wiped => Wiped'
  BY <1>2, <1>3 DEF Wiped, InFlight
<1>6. \A q \in Requests : Live(q)' => q # r /\ Live(q)
  BY <1>3 DEF Live, InFlight
<1>7. Live(r) \/ Wiped'
  BY <1>2, <1>3 DEF Live, Wiped
<1>8. \A q \in Requests : Live(q)' => Wiped'
  BY <1>5, <1>6, <1>7 DEF Ordered
<1>9. entry'.data <= version'
  BY <1>4 DEF Ordered
<1>10. \A q \in Requests : Live(q)' /\ request'[q].phase = "read" =>
         request'[q].version <= version'
  BY <1>3, <1>4, <1>6 DEF Ordered
<1> QED
  BY <1>8, <1>9, <1>10 DEF Ordered

(* No other step starts, aborts or settles a call, or changes the data.    *)
LEMMA AroundOrdered ==
  ASSUME IInv, Ordered,
         (\E r \in Requests : TimeOut(r)) \/ Mutate \/ Expire \/ Invalidate
  PROVE  Ordered'
<1>1. /\ request \in [Requests -> Request] /\ entry \in Entry
      /\ version \in Int /\ entry.data \in Int
      /\ \A q \in Requests : request[q].version \in Int
  BY DEF IInv, TypeOK, Version, Entry, Request
<1>2. \A q \in Requests :
        /\ request'[q].phase = request[q].phase
        /\ request'[q].version = request[q].version
        /\ request'[q].aborted = request[q].aborted
  BY <1>1 DEF TimeOut, Mutate, Expire, Invalidate, Request
<1>3. entry'.data = entry.data /\ entry'.promise = entry.promise
  BY <1>1 DEF TimeOut, Mutate, Expire, Invalidate, Entry
<1>4. version' \in Int /\ version <= version'
  BY <1>1 DEF TimeOut, Mutate, Expire, Invalidate
<1>5. Wiped => Wiped'
  BY <1>2 DEF Wiped
<1>6. \A q \in Requests : Live(q)' => Live(q)
  BY <1>2 DEF Live, InFlight
<1> QED
  BY <1>1, <1>2, <1>3, <1>4, <1>5, <1>6 DEF Ordered

(* Every step keeps the order.                                             *)
LEMMA StepOrdered == IInv /\ Ordered /\ [Next]_vars => Ordered'
<1> SUFFICES ASSUME IInv, Ordered, [Next]_vars PROVE Ordered'
  OBVIOUS
<1>1. CASE \E r \in Requests, forced \in BOOLEAN : Start(r, forced)
  BY <1>1, StartOrdered
<1>2. CASE \E r \in Requests : Read(r)
  BY <1>2, ReadOrdered
<1>3. CASE \E r \in Requests : Settle(r)
  BY <1>3, SettleOrdered
<1>4. CASE (\E r \in Requests : TimeOut(r)) \/ Mutate \/ Expire \/ Invalidate
  BY <1>4, AroundOrdered
<1>5. CASE UNCHANGED vars
  BY <1>5 DEF vars, Ordered, Wiped, Live, InFlight
<1> QED
  BY <1>1, <1>2, <1>3, <1>4, <1>5 DEF Next, Settle

(* An answer older than what the entry shows is never taken over, as long  *)
(* as no aborted call has settled (serverState.ts:99 and 116-117).         *)
THEOREM AnswersInOrder == Spec => DataMovesForward
<1>1. ASSUME IInv, Ordered, [Next]_vars, entry'.data < entry.data PROVE Wiped
  <2>1. /\ entry \in Entry /\ entry.data \in Int
        /\ \A q \in Requests : request[q].version \in Int
        /\ request \in [Requests -> Request]
    BY <1>1 DEF IInv, TypeOK, Version, Entry, Request
  <2>2. entry'.data # entry.data
    BY <1>1, <2>1
  <2>3. CASE \E r \in Requests : Succeed(r)
    <3>1. PICK r \in Requests : Succeed(r)
      BY <2>3
    <3>2. entry'.data = request[r].version /\ Live(r) /\ request[r].phase = "read"
      BY <3>1 DEF Succeed, EmptyState
    <3> QED
      BY <1>1, <2>1, <3>2 DEF Ordered
  <2>4. CASE ~\E r \in Requests : Succeed(r)
    <3>1. entry'.data = entry.data
      BY <1>1, <2>1, <2>4 DEF Next, vars, Start, Read, Fail, Cancel, TimeOut,
         Mutate, Invalidate, Expire, Entry
    <3> QED
      BY <2>2, <3>1
  <2> QED
    BY <2>3, <2>4
<1>2. IInv /\ Ordered /\ [Next]_vars =>
        [entry'.data < entry.data =>
           \E r \in Requests : request[r].aborted /\ request[r].phase = "settled"]_vars
  BY <1>1 DEF Wiped
<1> QED
  BY <1>2, InitIInv, StepIInv, InitOrdered, StepOrdered, PTL DEF Spec, DataMovesForward

(* Callers that do not force share one request, as long as no aborted call *)
(* has settled (serverState.ts:95).                                        *)
THEOREM RequestsShared == Spec => SharesUntilAborted
<1> DEFINE Shares ==
      \A r \in Requests :
        request[r].phase = "unused" /\ request'[r].phase # "unused"
          /\ ~request'[r].forced /\ (\E q \in Requests : Live(q)) =>
        \E q \in Requests : request[q].aborted /\ request[q].phase = "settled"
<1>1. ASSUME IInv, Ordered, [Next]_vars PROVE Shares
  <2> SUFFICES ASSUME NEW r \in Requests, request[r].phase = "unused",
                      request'[r].phase # "unused", ~request'[r].forced,
                      NEW q \in Requests, Live(q)
               PROVE  Wiped
    BY DEF Wiped
  <2>1. request \in [Requests -> Request]
    BY <1>1 DEF IInv, TypeOK
  <2>2. PICK s \in Requests, forced \in BOOLEAN : Start(s, forced)
    <3>1. ASSUME NEW s \in Requests, Read(s) \/ Settle(s) \/ TimeOut(s) PROVE FALSE
      <4>1. request[s].phase # "unused"
        BY <3>1 DEF Read, Settle, Succeed, Fail, Cancel, TimeOut, Live, InFlight
      <4>2. request'[r] = request[r]
        BY <2>1, <3>1, <4>1 DEF Read, Settle, Succeed, Fail, Cancel, Settled, TimeOut
      <4> QED
        BY <4>2
    <3>2. ASSUME Mutate \/ Expire \/ Invalidate \/ UNCHANGED vars PROVE FALSE
      BY <2>1, <3>2 DEF Mutate, Expire, Invalidate, vars, Request
    <3> QED
      BY <1>1, <3>1, <3>2 DEF Next, Settle
  <2>3. s = r
    <3> SUFFICES ASSUME s # r PROVE FALSE
      OBVIOUS
    <3>1. request'[r].phase = request[r].phase
      BY <2>1, <2>2 DEF Start, Request
    <3> QED
      BY <3>1
  <2>4. forced = request'[r].forced
    BY <2>1, <2>2, <2>3 DEF Start, Call
  <2>5. entry.promise = None
    BY <2>2, <2>4 DEF Start, Served
  <2>6. q # None
    BY QueryCacheAssumption DEF QueryCacheAssumption, None
  <2> QED
    BY <1>1, <2>5, <2>6 DEF Ordered
<1>2. IInv /\ Ordered /\ [Next]_vars => [Shares]_vars
  BY <1>1
<1> HIDE DEF Shares
<1>3. Spec => [][Shares]_vars
  BY <1>2, InitIInv, StepIInv, InitOrdered, StepOrdered, PTL DEF Spec
<1> QED
  BY <1>3 DEF Shares, SharesUntilAborted
=============================================================================
