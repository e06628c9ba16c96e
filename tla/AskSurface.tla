------------------------------ MODULE AskSurface ------------------------------
(***************************************************************************)
(* The Ask page of one browser tab                                         *)
(* (frontend/src/ui/surfaces/AskSurface.tsx over app/assistantApi.ts) and  *)
(* the backend that it talks to.                                           *)
(*                                                                         *)
(* Every await of the page is a request in sent and then an answer in      *)
(* answers.  Requests reach the backend in any order, answers reach the    *)
(* page in any order, and either may be lost.  Nothing in the page tells   *)
(* an answer that comes late from one that does not.  What is typed,       *)
(* citations and drawers are left out; a question is a number.             *)
(***************************************************************************)
EXTENDS AssistantStore, Bags

CONSTANTS
  MaxEvents,   \* bound on what the user does and on faults together
  MaxAnswers   \* bound on answers on their way at once

VARIABLES
  route,       \* routeConversationId
  selected,    \* the conversation on the page
  sending,     \* the question under way
  busy,        \* conversationBusy
  error,       \* an error is on the page
  sent,        \* requests on their way, a bag
  answers,     \* answers on their way, in the order the backend gave them
  asked,       \* questions sent so far
  events,      \* what the user has done, and faults, so far
  behind,      \* history: the page has missed or overwritten an answer
  dropped      \* history: the questions whose stream was dropped

ASSUME AskAssumption == Asks \subseteq Nat /\ MaxAnswers \in Nat

pageVars == <<route, selected, sending, busy, error>>
netVars == <<sent, answers>>
countVars == <<asked, events>>
askVars == <<storeVars, pageVars, netVars, countVars, behind, dropped>>

NoThread == [id |-> None, row |-> NoRow]

NoSend == [ask |-> None, of |-> None, routed |-> FALSE, via |-> "none"]

(* routed: the closure that sends it was made when the route named a       *)
(* conversation.                                                           *)
Request == [op |-> "load", id |-> None, routed |-> FALSE, ask |-> None,
            change |-> "none"]

Answer(request, ok, id, row) ==
  [request |-> request, ok |-> ok, id |-> id, row |-> row, old |-> FALSE]

AskInit ==
  /\ StoreInit
  /\ route = None
  /\ selected = NoThread
  /\ sending = NoSend
  /\ busy = "none"
  /\ error = FALSE
  /\ sent = SetToBag({Request})
  /\ answers = <<>>
  /\ asked = 0 /\ events = 0
  /\ behind = FALSE
  /\ dropped = {}

(* A deed of the user, or a fault.                                         *)
Event == events < MaxEvents /\ events' = events + 1
-----------------------------------------------------------------------------
(* Mutant: every load that ends sets the route.                            *)
LoadUnrouted(id, routed) == SetToBag({[Request EXCEPT !.id = id]})

(* loadConversations: its requests for the two lists and for the           *)
(* conversation are one, since the lists are only for the sidebar when it  *)
(* knows the conversation that it wants.                                   *)
Load(id, routed) ==
  SetToBag({[Request EXCEPT !.id = id, !.routed = routed]})

Patch(id, change, routed) ==
  SetToBag({[Request EXCEPT
     !.op = "patch", !.id = id, !.change = change, !.routed = routed]})

AskRequest(send) ==
  SetToBag({[Request EXCEPT !.op = send.via, !.id = send.of, !.ask = send.ask]})

(* The effect on a new route loads once more.                              *)
RouteEffect(id) ==
  IF id = route THEN EmptyBag ELSE Load(id, TRUE)

(* A conversation of the list, or a bare /ask, where the page prefers the  *)
(* conversation that it shows.                                             *)
Navigate(id) ==
  /\ Event
  /\ id # route
  /\ route' = id
  /\ sent' = sent (+) Load(IF id = None THEN selected.id ELSE id, id # None)
  /\ error' = FALSE
  /\ UNCHANGED <<storeVars, selected, sending, busy, answers, asked, behind, dropped>>

(* currentId of send.                                                      *)
CurrentId == IF selected.row.status = "active" THEN selected.id ELSE None

(* The composer is closed for an archived conversation; Retry and Edit and *)
(* resend are not, and start a conversation of their own.                  *)
Send(resend) ==
  /\ Event
  /\ sending = NoSend
  /\ asked + 1 \in Asks
  /\ IF resend THEN selected.row.messages # <<>>
     ELSE selected.row.status # "archived"
  /\ asked' = asked + 1
  /\ sending' = [ask |-> asked + 1, of |-> CurrentId, routed |-> route # None,
                 via |-> "stream"]
  /\ sent' = sent (+) AskRequest(sending')
  /\ error' = FALSE
  /\ UNCHANGED <<storeVars, route, selected, busy, answers, behind,
                 dropped>>

StartConversation ==
  /\ Event
  /\ busy = "none"
  /\ busy' = "new"
  /\ sent' = sent (+) SetToBag({[Request EXCEPT
       !.op = "create", !.routed = route # None]})
  /\ error' = FALSE
  /\ UNCHANGED <<storeVars, route, selected, sending, answers, asked, behind, dropped>>

(* Rename, Archive and Restore of the conversation on the page.            *)
Change(change) ==
  /\ Event
  /\ busy = "none"
  /\ change \in {"rename",
                 IF selected.row.status = "archived" THEN "restore" ELSE "archive"}
  /\ selected # NoThread
  /\ busy' = change
  /\ sent' = sent (+) Patch(selected.id, change, route # None)
  /\ UNCHANGED <<storeVars, route, selected, sending, error, answers, asked,
                 behind, dropped>>
-----------------------------------------------------------------------------
(* The backend.  A request for lists names the conversation to show next,  *)
(* or else the first of the active ones, or of the archived ones.          *)
Preferred(id) ==
  IF id # None THEN {id}
  ELSE IF WithStatus("active") # {} THEN WithStatus("active")
  ELSE IF Existing # {} THEN Existing
  ELSE {None}

Take(request) ==
  /\ BagIn(request, sent)
  /\ sent' = sent (-) SetToBag({request})

Reply(answer) ==
  Len(answers) < MaxAnswers /\ answers' = Append(answers, answer)

ServeLoad(request) ==
  /\ Take(request)
  /\ request.op = "load"
  /\ \E id \in Preferred(request.id) :
       Reply(Answer(request, TRUE, id,
                    IF id = None THEN NoRow ELSE conversations[id]))
  /\ UNCHANGED <<storeVars, pageVars, countVars, behind, dropped>>

ServeCreate(request) ==
  /\ Take(request)
  /\ request.op = "create"
  /\ IF HasRoom
     THEN /\ CreateConversation
          /\ Reply(Answer(request, TRUE, Fresh, NewConversation("default")))
     ELSE /\ UNCHANGED conversations
          /\ Reply(Answer(request, FALSE, None, NoRow))
  /\ UNCHANGED <<turn, pageVars, countVars, behind, dropped>>

ServePatch(request) ==
  /\ Take(request)
  /\ request.op = "patch"
  /\ PatchConversation(request.id, request.change)
  /\ Reply(Answer(request, TRUE, request.id, conversations'[request.id]))
  /\ UNCHANGED <<turn, pageVars, countVars, behind, dropped>>

ServeTurn(request) ==
  /\ Take(request)
  /\ request.op \in {"stream", "ask"}
  /\ IF Refused(request.id)
     THEN /\ Reply(Answer(request, FALSE, request.id, NoRow))
          /\ UNCHANGED storeVars
     ELSE /\ BeginTurn(<<request.ask, request.op>>, request.id)
          /\ UNCHANGED answers
  /\ UNCHANGED <<pageVars, countVars, behind, dropped>>

Awaited(h) == <<sending.ask, sending.via>> = h

TurnRequest(h) == [Request EXCEPT !.ask = h[1], !.op = h[2]]

Outdated == [k \in DOMAIN answers |-> [answers[k] EXCEPT !.old = TRUE]]

(* The transcript comes with the last event of the stream; nobody may be   *)
(* reading it any more.                                                    *)
FinishTurn(h, uses) ==
  /\ CommitTurn(h, uses)
  /\ IF Awaited(h)
     THEN /\ LET c == Committed(h)
             IN Reply(Answer(TurnRequest(h), TRUE, c, conversations'[c]))
          /\ UNCHANGED behind
     ELSE /\ answers' = Outdated
          /\ behind' = TRUE
  /\ UNCHANGED <<pageVars, sent, countVars, dropped>>

(* The provider's errors are caught; any other exception, or a database    *)
(* that refuses, ends the request.                                         *)
FailTurn(h) ==
  /\ turn[h] # NoTurn
  /\ IF turn[h].of = None /\ ~HasRoom THEN UNCHANGED events ELSE Event
  /\ turn' = [turn EXCEPT ![h] = NoTurn]
  /\ IF Awaited(h)
     THEN Reply(Answer(TurnRequest(h), FALSE, None, NoRow))
     ELSE UNCHANGED answers
  /\ UNCHANGED <<conversations, pageVars, sent, asked, behind, dropped>>
-----------------------------------------------------------------------------
(* A request that is lost before the backend sees it; an answer that is    *)
(* lost after.                                                             *)
LoseRequest(request) ==
  /\ Event
  /\ Take(request)
  /\ Reply(Answer(request, FALSE, request.id, NoRow))
  /\ UNCHANGED <<storeVars, pageVars, asked, behind, dropped>>

Untold(k) == answers[k].request.change = "title"

LoseAnswer(k) ==
  /\ Event
  /\ answers[k].ok
  /\ answers' = [IF Untold(k) THEN Outdated ELSE answers EXCEPT ![k].ok = FALSE]
  /\ behind' = (behind \/ Untold(k))
  /\ UNCHANGED <<storeVars, pageVars, sent, asked, dropped>>

(* The page takes the k-th answer: those given before it are old then.     *)
Taken(k) ==
  [j \in 1..(Len(answers) - 1) |->
     IF j < k THEN [answers[j] EXCEPT !.old = TRUE] ELSE answers[j + 1]]

Dropped(k) == RemoveAt(answers, k)

Show(k) ==
  /\ selected' = [id |-> answers[k].id, row |-> answers[k].row]
  /\ behind' = answers[k].old
  /\ answers' = Taken(k)

(* The conversation is shown, or that there is none; a load that was       *)
(* started on the bare /ask sets the route as well.                        *)
Loaded(k) ==
  /\ answers[k].request.op = "load" /\ answers[k].ok
  /\ Show(k)
  /\ IF answers[k].request.routed \/ answers[k].id = None
     THEN UNCHANGED <<route, sent, error>>
     ELSE /\ route' = answers[k].id
          /\ sent' = sent (+) RouteEffect(answers[k].id)
          /\ error' = (error /\ answers[k].id = route)
  /\ UNCHANGED <<storeVars, sending, busy, countVars, dropped>>

LoadFailed(k) ==
  /\ answers[k].request.op = "load" /\ ~answers[k].ok
  /\ error' = TRUE
  /\ answers' = Dropped(k)
  /\ UNCHANGED <<storeVars, route, selected, sending, busy, sent, countVars,
                 behind, dropped>>

(* startConversation: the page goes to the conversation and loads it, and  *)
(* the effect of the new route loads it again.                             *)
Created(k) ==
  /\ answers[k].request.op = "create" /\ answers[k].ok
  /\ Show(k)
  /\ busy' = "none"
  /\ error' = FALSE
  /\ route' = answers[k].id
  /\ sent' = (sent (+) RouteEffect(answers[k].id))
               (+) Load(answers[k].id, answers[k].request.routed)
  /\ UNCHANGED <<storeVars, sending, countVars, dropped>>

(* renameConversation, setConversationStatus.                              *)
Changed(k) ==
  /\ answers[k].request.op = "patch" /\ ~Untold(k) /\ answers[k].ok
  /\ Show(k)
  /\ busy' = "none"
  /\ error' = FALSE
  /\ sent' = sent (+) Load(answers[k].id, answers[k].request.routed)
  /\ UNCHANGED <<storeVars, route, sending, countVars, dropped>>

ChangeFailed(k) ==
  /\ answers[k].request.op \in {"create", "patch"} /\ ~Untold(k) /\ ~answers[k].ok
  /\ busy' = "none"
  /\ error' = TRUE
  /\ answers' = Dropped(k)
  /\ UNCHANGED <<storeVars, route, selected, sending, sent, countVars, behind,
                 dropped>>

(* The generated title, of which only success is noticed.                  *)
Titled(k) ==
  /\ Untold(k)
  /\ IF answers[k].ok THEN Show(k)
     ELSE answers' = Dropped(k) /\ UNCHANGED <<selected, behind>>
  /\ UNCHANGED <<storeVars, route, sending, busy, error, sent, countVars, dropped>>

IsTurn(k) == answers[k].request.op \in {"stream", "ask"}

ForSend(k) ==
  IsTurn(k) /\ Awaited(<<answers[k].request.ask, answers[k].request.op>>)

(* The end of send; a conversation that has no name of its own gets one.   *)
Answered(k) ==
  /\ ForSend(k) /\ answers[k].ok
  /\ Show(k)
  /\ sending' = NoSend
  /\ error' = FALSE
  /\ route' = answers[k].id
  /\ sent' = ((sent (+) RouteEffect(answers[k].id))
               (+) Load(answers[k].id, sending.routed))
               (+) IF answers[k].row.title = "default"
                   THEN Patch(answers[k].id, "title", FALSE) ELSE EmptyBag
  /\ UNCHANGED <<storeVars, busy, countVars, dropped>>

(* The stream fails, and the question is sent once more to the plain       *)
(* route; the plain route fails, and the error is shown.                   *)
FallBack ==
  IF sending.via = "stream"
  THEN /\ sending' = [sending EXCEPT !.via = "ask"]
       /\ sent' = sent (+) AskRequest(sending')
       /\ dropped' = dropped \cup {sending.ask}
       /\ UNCHANGED error
  ELSE /\ sending' = NoSend
       /\ error' = TRUE
       /\ UNCHANGED <<sent, dropped>>

SendFailed(k) ==
  /\ ForSend(k) /\ ~answers[k].ok
  /\ FallBack
  /\ answers' = Dropped(k)
  /\ UNCHANGED <<storeVars, route, selected, busy, countVars, behind>>

(* The connection ends while the handler still works.                      *)
StreamDropped ==
  /\ Event
  /\ sending.via = "stream"
  /\ FallBack
  /\ UNCHANGED <<storeVars, route, selected, busy, answers, asked, behind>>

(* An answer that its send no longer waits for.                            *)
Unread(k) ==
  /\ IsTurn(k) /\ ~ForSend(k)
  /\ answers' = IF answers[k].ok THEN Taken(k) ELSE Dropped(k)
  /\ behind' = (behind \/ answers[k].ok)
  /\ UNCHANGED <<storeVars, pageVars, sent, countVars, dropped>>

(* Mutant: a stop is taken for a stream that was dropped.                  *)
StopFallsBack ==
  /\ Event
  /\ sending # NoSend
  /\ selected # NoThread
  /\ IF sending.via = "stream"
     THEN /\ sending' = [sending EXCEPT !.via = "ask"]
          /\ sent' = sent (+) AskRequest(sending')
          /\ UNCHANGED error
     ELSE sending' = NoSend /\ error' = TRUE /\ UNCHANGED sent
  /\ UNCHANGED <<storeVars, route, selected, busy, answers, asked, behind,
                 dropped>>

(* Stop research, in a conversation that is on the page.                   *)
Stop ==
  /\ Event
  /\ sending # NoSend
  /\ selected # NoThread
  /\ sending' = NoSend
  /\ error' = TRUE
  /\ UNCHANGED <<storeVars, route, selected, busy, netVars, asked, behind,
                 dropped>>

-----------------------------------------------------------------------------
UserNext ==
  \/ \E id \in Existing \cup {None} : Navigate(id)
  \/ \E resend \in BOOLEAN : Send(resend)
  \/ StartConversation
  \/ \E change \in {"rename", "archive", "restore"} : Change(change)
  \/ Stop

ServeNext ==
  \/ \E request \in BagToSet(sent) :
       \/ ServeLoad(request) \/ ServeCreate(request) \/ ServePatch(request)
       \/ ServeTurn(request)
  \/ \E h \in Requests :
       \/ ReadBudget(h) /\ UNCHANGED <<pageVars, netVars, countVars, behind, dropped>>
       \/ \E uses \in 0..WebMaxUses : FinishTurn(h, uses)
       \/ FailTurn(h)

PageNext ==
  \E k \in DOMAIN answers :
    \/ Loaded(k) \/ LoadFailed(k) \/ Created(k)
    \/ Changed(k) \/ ChangeFailed(k) \/ Titled(k) \/ Answered(k)
    \/ SendFailed(k) \/ Unread(k)

FaultNext ==
  \/ \E request \in BagToSet(sent) : LoseRequest(request)
  \/ \E k \in DOMAIN answers : LoseAnswer(k)
  \/ StreamDropped

AskNext == UserNext \/ ServeNext \/ PageNext \/ FaultNext

(* Requests are served, and answers are taken, sooner or later: fetch ends *)
(* with an answer or an error.                                             *)
AskSpec == AskInit /\ [][AskNext]_askVars /\ WF_askVars(ServeNext) /\ WF_askVars(PageNext)
-----------------------------------------------------------------------------
Quiet ==
  /\ sent = EmptyBag /\ answers = <<>> /\ sending = NoSend
  /\ \A h \in Requests : turn[h] = NoTurn

(* A question is in the transcripts once at the most, and twice at the     *)
(* most when its stream was dropped: send asks again then, for all that    *)
(* the first turn may be committed.                                        *)
TimesAsked(ask) ==
  Cardinality({p \in Places : MessageAt(p).ask = ask})

AskedOnce ==
  \A ask \in Asks : TimesAsked(ask) <= IF ask \in dropped THEN 2 ELSE 1

(* When nothing is under way and no error is on the page, the transcript   *)
(* on it is the backend's, unless an answer was overtaken by one to a      *)
(* later request or came when nobody waited for it: every change of        *)
(* AskSurface ends in a setSelected of what was read after it.             *)
ThreadIsCurrent ==
  Quiet /\ ~error /\ ~behind /\ selected # NoThread
    => selected.row = conversations[selected.id]

(* The thread on the page is the one on record, with each question once    *)
(* (AskSurface.tsx, assistant.py).                                         *)
ThreadTold == AskedOnce /\ ThreadIsCurrent

(* When the user stops, the page does: loads that set the route, and       *)
(* routes that start loads, do not chase each other for ever.              *)
Settles == <>[]Quiet
=============================================================================
