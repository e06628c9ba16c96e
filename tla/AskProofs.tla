------------------------------ MODULE AskProofs ------------------------------
(***************************************************************************)
(* What the runs check of Ask, proved for every tenant and every budget,   *)
(* however many questions are sent and whatever is lost on the way.        *)
(***************************************************************************)
EXTENDS AskSurface, SumProofs, SequenceTheorems, TLAPS

(* The steps of AskSpec, without its fairness.                             *)
AskSteps == AskInit /\ [][AskNext]_askVars
-----------------------------------------------------------------------------
Messages == [ask : Asks, uses : Nat, raced : BOOLEAN]

Statuses == {"absent", "active", "archived"}

Titles == {"default", "generated", "chosen"}

ThreadRows == [status : Statuses, title : Titles, messages : Seq(Messages)]

Turns == [step : {"idle", "checked", "answering"}, of : Conversations \cup {None},
          remaining : Nat, raced : BOOLEAN]

(* The rows and the handlers, and that a handler holds a conversation that *)
(* exists.                                                                 *)
StoreTyped ==
  /\ conversations \in [Conversations -> ThreadRows]
  /\ \A c \in Conversations : conversations[c].status = "absent" => conversations[c] = NoRow
  /\ turn \in [Requests -> Turns]
  /\ \A h \in Requests : /\ turn[h].step = "idle" => turn[h] = NoTurn
                         /\ turn[h].of # None => turn[h].of \in Existing
  /\ IsFiniteSet(Places)

(* Who has read the budget, and was not overtaken, holds what is left.     *)
Spent ==
  \A h \in Requests :
    turn[h].step = "answering" /\ ~turn[h].raced =>
      turn[h].remaining = 0 \/ DailySearchUses + turn[h].remaining <= DailySearchBudget
-----------------------------------------------------------------------------
TurnOps == {"stream", "ask"}

Waiting(ask, op) == \E r \in DOMAIN sent : r.ask = ask /\ r.op = op

Unsettled(ask, op) == Waiting(ask, op) \/ turn[<<ask, op>>] # NoTurn

(* How often a question is asked, or may be.                               *)
Askings(ask) ==
  TimesAsked(ask) + (IF Unsettled(ask, "stream") THEN 1 ELSE 0)
                  + (IF Unsettled(ask, "ask") THEN 1 ELSE 0)

Single(r) ==
  /\ sent[r] = 1
  /\ turn[<<r.ask, r.op>>] = NoTurn
  /\ r.ask \in Asks /\ r.ask <= asked
  /\ \A q \in DOMAIN sent : q.op = r.op /\ q.ask = r.ask => q = r

AskOK(ask) ==
  /\ Askings(ask) <= IF ask \in dropped THEN 2 ELSE 1
  /\ ask \notin dropped => ~ Unsettled(ask, "ask")
  /\ ask > asked => Askings(ask) = 0 /\ ask \notin dropped

(* A question is at one place at a time: on its way, with its handler, or  *)
(* in a transcript.                                                        *)
Asking ==
  /\ asked \in Nat
  /\ \A r \in DOMAIN sent : sent[r] \in Nat \ {0}
  /\ \A r \in DOMAIN sent : r.op \in TurnOps => Single(r)
  /\ \A ask \in Asks : AskOK(ask)
  /\ sending # NoSend =>
       /\ sending.via \in TurnOps /\ sending.ask \in Asks /\ sending.ask <= asked
       /\ sending.via = "stream" => sending.ask \notin dropped
-----------------------------------------------------------------------------
ThreadIds == Existing \cup {None}

Calls == [op : {"load", "create", "patch", "stream", "ask"}, id : Conversations \cup {None},
          routed : BOOLEAN, ask : Asks \cup {None},
          change : {"none", "title", "rename", "archive", "restore"}]

CallOK(r) ==
  /\ r \in Calls
  /\ r.id \in ThreadIds
  /\ r.op = "patch" <=> r.change # "none"
  /\ r.op = "patch" => r.id # None

Replies == [request : Calls, ok : BOOLEAN, id : Conversations \cup {None},
            row : ThreadRows, old : BOOLEAN]

ReplyOK(a) ==
  /\ a \in Replies
  /\ a.id \in ThreadIds
  /\ a.ok /\ a.id = None => a.row = NoRow
  /\ a.request.op \in {"create", "patch"} /\ a.ok => a.id # None
  /\ a.request.op \in TurnOps /\ a.ok => a.id # None
  /\ a.request.change # "none" => a.request.op = "patch"

SentOK == \A r \in DOMAIN sent : CallOK(r)

AnswersOK == answers \in Seq(Replies) /\ \A k \in DOMAIN answers : ReplyOK(answers[k])

Shown == [id : Conversations \cup {None}, row : ThreadRows]

Sends == [ask : Asks \cup {None}, of : Conversations \cup {None}, routed : BOOLEAN,
          via : TurnOps \cup {"none"}]

(* What the page and its requests name exists.                             *)
AskPageOK ==
  /\ selected \in Shown /\ selected.id \in ThreadIds
  /\ selected.id = None => selected = NoThread
  /\ sending \in Sends /\ sending.of \in ThreadIds
  /\ error \in BOOLEAN /\ behind \in BOOLEAN

NetTyped == SentOK /\ AnswersOK /\ AskPageOK
-----------------------------------------------------------------------------
(* A request after which the page loads anew, or shows an error.           *)
Reloads(r) == r.op \in {"load", "create", "patch"} /\ r.change # "title"

(* The page shows an error, or it will be told of what it has not seen.    *)
Forewarned ==
  \/ error
  \/ sending # NoSend
  \/ \E r \in DOMAIN sent : Reloads(r)
  \/ \E k \in DOMAIN answers : ~answers[k].ok /\ Reloads(answers[k].request)

InTime(k) == answers[k].ok /\ ~answers[k].old

Newest(k) == InTime(k) /\ \A j \in DOMAIN answers : InTime(j) => j <= k

IsCurrent(id, row) == id # None => row = conversations[id]

(* The last answer in time, or else the page, has what is on record.       *)
Caught ==
  /\ \A k \in DOMAIN answers :
       Newest(k) => ~IsTurn(k) /\ IsCurrent(answers[k].id, answers[k].row)
  /\ (\A k \in DOMAIN answers : ~InTime(k)) /\ ~behind =>
       IsCurrent(selected.id, selected.row)

Following == Forewarned \/ Caught
-----------------------------------------------------------------------------
(* Messages: what a change of the rows does to the sums over them.         *)
Raced == {p \in Places : MessageAt(p).raced}

LEMMA PlaceIs ==
  ASSUME NEW p
  PROVE  p \in Places <=>
           \E c \in Conversations : \E i \in DOMAIN conversations[c].messages : p = <<c, i>>
BY DEF Places

LEMMA MessagesTyped ==
  ASSUME StoreTyped
  PROVE  /\ \A p \in Places : MessageAt(p) \in Messages
         /\ IsFiniteSet(Places) /\ IsFiniteSet(Raced) /\ Raced \subseteq Places
<1>1. ASSUME NEW c \in Conversations, NEW i \in DOMAIN conversations[c].messages
      PROVE  MessageAt(<<c, i>>) \in Messages
  <2>1. conversations[c].messages \in Seq(Messages)
    BY DEF StoreTyped, ThreadRows
  <2>2. conversations[c].messages[i] \in Messages
    BY <1>1, <2>1
  <2> QED
    BY <2>2 DEF MessageAt
<1>2. \A p \in Places : MessageAt(p) \in Messages
  BY <1>1, PlaceIs
<1>3. Raced \subseteq Places
  BY DEF Raced
<1> QED
  BY <1>2, <1>3, FS_Subset DEF StoreTyped

LEMMA UsesAreNat ==
  ASSUME StoreTyped, NEW S \in SUBSET Places
  PROVE  SumUses(S) \in Nat
<1> DEFINE f == [p \in Places |-> MessageAt(p).uses]
<1>1. \A p \in S : f[p] \in Nat
  BY MessagesTyped DEF Messages
<1>2. IsFiniteSet(S)
  BY MessagesTyped, FS_Subset
<1> HIDE DEF f
<1>3. SumFunctionOnSet(f, S) \in Nat
  BY <1>1, <1>2, SumNat
<1> QED
  BY <1>3 DEF f, SumUses

(* The transcripts are as they were.                                       *)
MessagesStay ==
  /\ Places' = Places
  /\ \A p \in Places : MessageAt(p)' = MessageAt(p)

LEMMA MessagesUntouched ==
  ASSUME \A c \in Conversations : conversations'[c].messages = conversations[c].messages
  PROVE  MessagesStay
<1>1. Places' = Places
  BY DEF Places
<1>2. \A p \in Places : MessageAt(p)' = MessageAt(p)
  BY PlaceIs DEF MessageAt
<1> QED
  BY <1>1, <1>2 DEF MessagesStay

LEMMA SumsStay ==
  ASSUME MessagesStay
  PROVE  /\ DailySearchUses' = DailySearchUses
         /\ SumUses(Raced)' = SumUses(Raced)
         /\ \A ask \in Asks : TimesAsked(ask)' = TimesAsked(ask)
         /\ IsFiniteSet(Places) => IsFiniteSet(Places')
<1>1. [p \in Places |-> MessageAt(p).uses]' = [p \in Places |-> MessageAt(p).uses]
  BY DEF MessagesStay
<1>2. Raced' = Raced
  BY DEF MessagesStay, Raced
<1>3. \A ask \in Asks :
        {p \in Places : MessageAt(p).ask = ask}' = {p \in Places : MessageAt(p).ask = ask}
  BY DEF MessagesStay
<1> QED
  BY <1>1, <1>2, <1>3 DEF DailySearchUses, SumUses, TimesAsked, MessagesStay

(* A message m is added, at q.                                             *)
MessageComes(q, m) ==
  /\ q \notin Places
  /\ Places' = Places \cup {q}
  /\ MessageAt(q)' = m
  /\ \A p \in Places : MessageAt(p)' = MessageAt(p)

LEMMA RowGrows ==
  ASSUME NEW c \in Conversations, NEW m,
         conversations[c].messages \in Seq(Messages),
         conversations'[c].messages = Append(conversations[c].messages, m),
         \A d \in Conversations : d # c =>
           conversations'[d].messages = conversations[d].messages
  PROVE  \E q : MessageComes(q, m)
<1> PICK s, t : s = conversations[c].messages /\ t = conversations'[c].messages
  OBVIOUS
<1> DEFINE n == Len(s) + 1
           q == <<c, n>>
<1>1. /\ t = Append(s, m) /\ s \in Seq(Messages)
      /\ Len(s) \in Nat /\ DOMAIN s = 1..Len(s)
      /\ DOMAIN t = 1..n /\ t[n] = m
      /\ \A i \in 1..Len(s) : t[i] = s[i]
  OBVIOUS
<1>2. q \notin Places
  BY <1>1, PlaceIs
<1>3. DOMAIN t = DOMAIN s \cup {n}
  BY <1>1
<1>4. ASSUME NEW p
      PROVE  p \in Places' <=> p \in Places \/ p = q
  <2>1. p \in Places' <=> \E d \in Conversations :
            \E i \in DOMAIN conversations'[d].messages : p = <<d, i>>
    BY DEF Places
  <2>2. p \in Places <=> \E d \in Conversations :
            \E i \in DOMAIN conversations[d].messages : p = <<d, i>>
    BY PlaceIs
  <2>3. \A d \in Conversations : DOMAIN conversations'[d].messages =
           IF d = c THEN DOMAIN s \cup {n} ELSE DOMAIN conversations[d].messages
    BY <1>3
  <2>4. DOMAIN conversations[c].messages = DOMAIN s
    OBVIOUS
  <2> HIDE DEF n
  <2> QED
    BY <2>1, <2>2, <2>3, <2>4
<1>5. MessageAt(q)' = m
  BY <1>1 DEF MessageAt
<1>6. ASSUME NEW p \in Places
      PROVE  MessageAt(p)' = MessageAt(p)
  <2>1. PICK d \in Conversations : \E i \in DOMAIN conversations[d].messages : p = <<d, i>>
    BY PlaceIs
  <2>2. PICK i \in DOMAIN conversations[d].messages : p = <<d, i>>
    BY <2>1
  <2>3. CASE d = c
    BY <1>1, <2>2, <2>3 DEF MessageAt
  <2>4. CASE d # c
    BY <2>2, <2>4 DEF MessageAt
  <2> QED
    BY <2>3, <2>4
<1> QED
  BY <1>2, <1>4, <1>5, <1>6 DEF MessageComes

LEMMA SumsGrow ==
  ASSUME StoreTyped, NEW q, NEW m \in Messages, MessageComes(q, m)
  PROVE  /\ DailySearchUses' = DailySearchUses + m.uses
         /\ SumUses(Raced)' = SumUses(Raced) + IF m.raced THEN m.uses ELSE 0
         /\ \A ask \in Asks :
              TimesAsked(ask)' = TimesAsked(ask) + IF m.ask = ask THEN 1 ELSE 0
         /\ IsFiniteSet(Places')
<1> DEFINE f == [p \in Places |-> MessageAt(p).uses]
           g == f'
<1>1. /\ IsFiniteSet(Places) /\ IsFiniteSet(Raced) /\ Raced \subseteq Places
      /\ \A p \in Places : MessageAt(p) \in Messages
  BY MessagesTyped
<1>2. /\ q \notin Places /\ Places' = Places \cup {q} /\ MessageAt(q)' = m
      /\ \A p \in Places : MessageAt(p)' = MessageAt(p)
  BY DEF MessageComes
<1>3. /\ \A p \in Places : f[p] \in Nat /\ g[p] = f[p]
      /\ g[q] = m.uses /\ m.uses \in Nat
  BY <1>1, <1>2 DEF Messages
<1>4. Raced' = IF m.raced THEN Raced \cup {q} ELSE Raced
  BY <1>1, <1>2 DEF Raced, Messages
<1>5. /\ DailySearchUses = SumFunctionOnSet(f, Places)
      /\ DailySearchUses' = SumFunctionOnSet(g, Places \cup {q})
      /\ SumUses(Raced) = SumFunctionOnSet(f, Raced)
      /\ SumUses(Raced)' = SumFunctionOnSet(g, Raced')
  BY <1>2 DEF DailySearchUses, SumUses
<1>6. ASSUME NEW ask \in Asks
      PROVE  TimesAsked(ask)' = TimesAsked(ask) + IF m.ask = ask THEN 1 ELSE 0
  <2> DEFINE P == {p \in Places : MessageAt(p).ask = ask}
  <2>1. P' = IF m.ask = ask THEN P \cup {q} ELSE P
    BY <1>2
  <2>2. IsFiniteSet(P) /\ q \notin P
    BY <1>1, <1>2, FS_Subset
  <2>3. TimesAsked(ask) = Cardinality(P) /\ TimesAsked(ask)' = Cardinality(P')
    BY DEF TimesAsked
  <2>4. Cardinality(P \cup {q}) = Cardinality(P) + 1 /\ Cardinality(P) \in Nat
    BY <2>2, FS_AddElement, FS_CardinalityType
  <2> HIDE DEF P
  <2>5. Cardinality(P') = Cardinality(P) + IF m.ask = ask THEN 1 ELSE 0
    <3>1. CASE m.ask = ask
      BY <2>1, <2>4, <3>1
    <3>2. CASE m.ask # ask
      BY <2>1, <2>4, <3>2
    <3> QED
      BY <3>1, <3>2
  <2> QED
    BY <2>3, <2>5
<1> HIDE DEF f, g
<1>7. SumFunctionOnSet(g, Places) = SumFunctionOnSet(f, Places)
  BY <1>1, <1>3, SumEqual
<1>8. SumFunctionOnSet(g, Places \cup {q}) = SumFunctionOnSet(g, Places) + g[q]
  BY <1>1, <1>2, <1>3, SumAdd
<1>9. SumFunctionOnSet(g, Raced) = SumFunctionOnSet(f, Raced)
  BY <1>1, <1>3, SumEqual
<1>10. SumFunctionOnSet(g, Raced \cup {q}) = SumFunctionOnSet(g, Raced) + g[q]
  BY <1>1, <1>2, <1>3, SumAdd
<1>11. SumFunctionOnSet(f, Raced) \in Nat
  BY <1>1, <1>3, SumNat
<1>12. IsFiniteSet(Places')
  BY <1>1, <1>2, FS_AddElement
<1> QED
  BY <1>3, <1>4, <1>5, <1>6, <1>7, <1>8, <1>9, <1>10, <1>11, <1>12
-----------------------------------------------------------------------------
(* The handlers of the backend.                                            *)
Budgeted == StoreTyped /\ Spent /\ BudgetKept

LEMMA BudgetKeptIs == BudgetKept <=> DailySearchUses <= DailySearchBudget + SumUses(Raced)
BY DEF BudgetKept, Raced

LEMMA StoreBegins ==
  ASSUME StoreInit
  PROVE  Budgeted /\ Places = {}
<1>1. /\ conversations \in [Conversations -> ThreadRows]
      /\ \A c \in Conversations : conversations[c].messages = <<>>
      /\ \A c \in Conversations : conversations[c].status = "absent" => conversations[c] = NoRow
  <2>1. conversations \in
          [Conversations ->
             {NoRow} \cup [status : {"active", "archived"},
                          title : {"default", "generated", "chosen"}, messages : {<<>>}]]
    BY StoreAssumption DEF StoreInit
  <2>2. ASSUME NEW r \in {NoRow} \cup [status : {"active", "archived"},
                          title : {"default", "generated", "chosen"}, messages : {<<>>}]
        PROVE  /\ r \in ThreadRows /\ r.messages = <<>>
               /\ r.status = "absent" => r = NoRow
    <3>1. <<>> \in Seq(Messages)
      OBVIOUS
    <3>2. CASE r = NoRow
      BY <3>1, <3>2 DEF NoRow, ThreadRows, Statuses, Titles
    <3>3. CASE r # NoRow
      BY <3>1, <3>3 DEF ThreadRows, Statuses, Titles
    <3> QED
      BY <3>2, <3>3
  <2> QED
    BY <2>1, <2>2
<1>2. Places = {}
  BY <1>1 DEF Places
<1>3. /\ turn \in [Requests -> Turns]
      /\ \A h \in Requests : turn[h] = NoTurn
  BY DEF StoreInit, Turns, NoTurn
<1>4. NoTurn.step = "idle" /\ NoTurn.of = None
  BY DEF NoTurn
<1>5. StoreTyped
  BY <1>1, <1>2, <1>3, <1>4, FS_EmptySet DEF StoreTyped
<1>6. Spent
  BY <1>3, <1>4 DEF Spent
<1>7. DailySearchUses = 0 /\ SumUses(Raced) = 0
  BY <1>2, SumEmpty DEF DailySearchUses, SumUses, Raced
<1>8. BudgetKept
  BY <1>7, StoreAssumption, BudgetKeptIs
<1> QED
  BY <1>2, <1>5, <1>6, <1>8 DEF Budgeted

LEMMA FreshIs ==
  ASSUME HasRoom
  PROVE  Fresh \in Conversations /\ Fresh \notin Existing
<1>1. \E c \in Conversations : c \notin Existing
  BY DEF HasRoom, Existing
<1> QED
  BY <1>1, Zenon DEF Fresh

LEMMA NewRow ==
  ASSUME NEW title \in Titles
  PROVE  /\ NewConversation(title) \in ThreadRows
         /\ NewConversation(title).messages = <<>>
         /\ NewConversation(title).status = "active"
BY DEF NewConversation, ThreadRows, Statuses, Titles

LEMMA AbsentRow ==
  ASSUME StoreTyped, NEW c \in Conversations, c \notin Existing
  PROVE  conversations[c] = NoRow /\ conversations[c].messages = <<>>
BY DEF StoreTyped, Existing, NoRow

(* One row changes, and its messages do not.                               *)
LEMMA RowChanges ==
  ASSUME Budgeted, NEW c \in Conversations, NEW row \in ThreadRows,
         row.messages = conversations[c].messages, row.status # "absent",
         conversations' = [conversations EXCEPT ![c] = row], UNCHANGED turn
  PROVE  /\ Budgeted' /\ MessagesStay
         /\ Existing' = Existing \cup {c} /\ conversations'[c] = row
         /\ \A d \in Conversations : d # c => conversations'[d] = conversations[d]
<1>1. /\ conversations' \in [Conversations -> ThreadRows] /\ conversations'[c] = row
      /\ \A d \in Conversations : d # c => conversations'[d] = conversations[d]
  BY DEF Budgeted, StoreTyped
<1>2. MessagesStay
  BY <1>1, MessagesUntouched
<1>3. Existing' = Existing \cup {c}
  BY <1>1 DEF Existing
<1>4. StoreTyped'
  <2>1. \A d \in Conversations : conversations'[d].status = "absent" => conversations'[d] = NoRow
    BY <1>1 DEF Budgeted, StoreTyped
  <2> QED
    BY <1>1, <1>2, <1>3, <2>1, SumsStay DEF Budgeted, StoreTyped
<1>5. Spent' /\ BudgetKept'
  BY <1>2, SumsStay, BudgetKeptIs DEF Budgeted, Spent, BudgetKept, Raced
<1> QED
  BY <1>1, <1>2, <1>3, <1>4, <1>5 DEF Budgeted

LEMMA CreateKeeps ==
  ASSUME Budgeted, HasRoom, CreateConversation, UNCHANGED turn
  PROVE  /\ Budgeted' /\ MessagesStay /\ Fresh \in Conversations
         /\ Existing' = Existing \cup {Fresh} /\ Fresh \notin Existing
         /\ conversations'[Fresh] = NewConversation("default")
         /\ \A d \in Conversations : d # Fresh => conversations'[d] = conversations[d]
<1> PICK c, row : c = Fresh /\ row = NewConversation("default")
  OBVIOUS
<1>1. c \in Conversations /\ c \notin Existing
  BY FreshIs
<1>2. row \in ThreadRows /\ row.messages = <<>> /\ row.status # "absent"
  BY NewRow DEF Titles
<1>3. row.messages = conversations[c].messages
  BY <1>1, <1>2, AbsentRow DEF Budgeted
<1>4. conversations' = [conversations EXCEPT ![c] = row]
  BY DEF CreateConversation
<1> QED
  BY <1>1, <1>2, <1>3, <1>4, RowChanges

PatchKinds == {"title", "rename", "archive", "restore"}

LEMMA PatchedRow ==
  ASSUME NEW row \in ThreadRows, row.status # "absent", NEW change \in PatchKinds
  PROVE  /\ Patched(row, change) \in ThreadRows
         /\ Patched(row, change).messages = row.messages
         /\ Patched(row, change).status # "absent"
<1>1. row = [status |-> row.status, title |-> row.title, messages |-> row.messages]
  BY DEF ThreadRows
<1>2. CASE change = "title"
  BY <1>1, <1>2 DEF Patched, ThreadRows, Titles, Statuses
<1>3. CASE change = "rename"
  BY <1>1, <1>3 DEF Patched, ThreadRows, Titles, Statuses
<1>4. CASE change = "archive"
  BY <1>1, <1>4 DEF Patched, ThreadRows, Titles, Statuses
<1>5. CASE change = "restore"
  BY <1>1, <1>5 DEF Patched, ThreadRows, Titles, Statuses
<1> QED
  BY <1>2, <1>3, <1>4, <1>5 DEF PatchKinds

LEMMA PatchKeeps ==
  ASSUME Budgeted, NEW c \in Existing, NEW change \in PatchKinds,
         PatchConversation(c, change), UNCHANGED turn
  PROVE  /\ Budgeted' /\ MessagesStay /\ Existing' = Existing
         /\ \A d \in Conversations : d # c => conversations'[d] = conversations[d]
<1> PICK row : row = Patched(conversations[c], change)
  OBVIOUS
<1>1. /\ c \in Conversations /\ conversations[c] \in ThreadRows
      /\ conversations[c].status # "absent"
  BY DEF Existing, Budgeted, StoreTyped
<1>2. /\ row \in ThreadRows /\ row.messages = conversations[c].messages
      /\ row.status # "absent"
  BY <1>1, PatchedRow
<1>3. conversations' = [conversations EXCEPT ![c] = row]
  BY DEF PatchConversation
<1>4. Existing \cup {c} = Existing
  OBVIOUS
<1> QED
  BY <1>1, <1>2, <1>3, <1>4, RowChanges

(* A handler goes on, and nothing is committed.                            *)
LEMMA HandlerMoves ==
  ASSUME Budgeted, NEW h \in Requests, NEW t \in Turns,
         turn' = [turn EXCEPT ![h] = t], UNCHANGED conversations,
         t.step = "idle" => t = NoTurn, t.of # None => t.of \in Existing,
         t.step = "answering" =>
           t.remaining = 0 \/ DailySearchUses + t.remaining <= DailySearchBudget
  PROVE  /\ Budgeted' /\ MessagesStay /\ Existing' = Existing
         /\ turn'[h] = t /\ \A g \in Requests : g # h => turn'[g] = turn[g]
<1>1. MessagesStay
  BY MessagesUntouched
<1>2. Existing' = Existing
  BY DEF Existing
<1>3. /\ turn' \in [Requests -> Turns] /\ turn'[h] = t
      /\ \A g \in Requests : g # h => turn'[g] = turn[g]
  BY DEF Budgeted, StoreTyped
<1>4. StoreTyped'
  BY <1>1, <1>2, <1>3, SumsStay DEF Budgeted, StoreTyped
<1>5. Spent'
  BY <1>1, <1>3, SumsStay DEF Budgeted, Spent
<1>6. BudgetKept'
  BY <1>1, SumsStay, BudgetKeptIs DEF Budgeted, BudgetKept, Raced
<1> QED
  BY <1>1, <1>2, <1>3, <1>4, <1>5, <1>6 DEF Budgeted

LEMMA NothingHeld == NoTurn \in Turns /\ NoTurn.step = "idle" /\ NoTurn.of = None
BY DEF NoTurn, Turns

LEMMA BeginKeeps ==
  ASSUME Budgeted, NEW h \in Requests, NEW c, BeginTurn(h, c)
  PROVE  /\ Budgeted' /\ MessagesStay /\ Existing' = Existing
         /\ turn[h] = NoTurn
         /\ \A g \in Requests : g # h => turn'[g] = turn[g]
<1> PICK of : of = IF c \in Existing THEN c ELSE None
  OBVIOUS
<1> PICK t : t = [NoTurn EXCEPT !.step = "checked", !.of = of]
  OBVIOUS
<1>1. of \in Conversations \cup {None} /\ (of # None => of \in Existing)
  BY DEF Existing
<1>2. NoTurn \in Turns
  BY NothingHeld
<1>3. t \in Turns /\ t.of = of /\ t.step = "checked"
  BY <1>1, <1>2 DEF Turns
<1>4. turn' = [turn EXCEPT ![h] = t] /\ UNCHANGED conversations /\ turn[h] = NoTurn
  BY DEF BeginTurn
<1> QED
  BY <1>1, <1>3, <1>4, HandlerMoves, ZenonT(60)

LEMMA LookKeeps ==
  ASSUME Budgeted, NEW h \in Requests, ReadBudget(h)
  PROVE  /\ Budgeted' /\ MessagesStay /\ Existing' = Existing
         /\ turn[h] # NoTurn /\ turn'[h] # NoTurn
         /\ \A g \in Requests : g # h => turn'[g] = turn[g]
<1>1. PICK web \in BOOLEAN :
        turn' = [turn EXCEPT
          ![h].step = "answering",
          ![h].remaining = IF web /\ DailySearchUses < DailySearchBudget
                           THEN DailySearchBudget - DailySearchUses ELSE 0]
  BY DEF ReadBudget
<1> PICK left : left = IF web /\ DailySearchUses < DailySearchBudget
                       THEN DailySearchBudget - DailySearchUses ELSE 0
  OBVIOUS
<1>2. DailySearchUses \in Nat /\ DailySearchBudget \in Nat
  BY UsesAreNat, StoreAssumption DEF DailySearchUses, Budgeted
<1>3. left \in Nat /\ (left = 0 \/ DailySearchUses + left <= DailySearchBudget)
  BY <1>2
<1>4. turn[h] \in Turns /\ turn[h].step = "checked" /\ UNCHANGED conversations
      /\ (turn[h].of # None => turn[h].of \in Existing)
  BY DEF Budgeted, StoreTyped, ReadBudget
<1> PICK t : t = [turn[h] EXCEPT !.step = "answering", !.remaining = left]
  OBVIOUS
<1>5. turn' = [turn EXCEPT ![h] = t]
  <2>1. turn' = [turn EXCEPT ![h].step = "answering", ![h].remaining = left]
    BY <1>1
  <2>2. turn' = [turn EXCEPT ![h] = [@ EXCEPT !.step = "answering", !.remaining = left]]
    BY <2>1
  <2> QED
    BY <2>2
<1>6. t \in Turns /\ t.step = "answering" /\ t.of = turn[h].of /\ t.remaining = left
  BY <1>3, <1>4 DEF Turns
<1>7. NoTurn.step = "idle"
  BY NothingHeld
<1>8. /\ Budgeted' /\ MessagesStay /\ Existing' = Existing
      /\ turn'[h] = t /\ \A g \in Requests : g # h => turn'[g] = turn[g]
  BY <1>3, <1>4, <1>5, <1>6, HandlerMoves, ZenonT(60)
<1> QED
  BY <1>4, <1>6, <1>7, <1>8

LEMMA HandlerEnds ==
  ASSUME Budgeted, NEW h \in Requests, turn' = [turn EXCEPT ![h] = NoTurn],
         UNCHANGED conversations
  PROVE  /\ Budgeted' /\ MessagesStay /\ Existing' = Existing
         /\ turn'[h] = NoTurn /\ \A g \in Requests : g # h => turn'[g] = turn[g]
BY NothingHeld, HandlerMoves

(* The others that have read the budget are raced, when searches are added.*)
LEMMA OthersRaced ==
  ASSUME StoreTyped, NEW h \in Requests, NEW uses \in Nat,
         turn' = [other \in Requests |->
           IF other = h THEN NoTurn
           ELSE [turn[other] EXCEPT
                   !.raced = @ \/ (turn[other].step = "answering" /\ uses > 0)]]
  PROVE  /\ turn' \in [Requests -> Turns] /\ turn'[h] = NoTurn
         /\ \A g \in Requests : g # h =>
              /\ turn'[g].step = turn[g].step /\ turn'[g].of = turn[g].of
              /\ turn'[g].remaining = turn[g].remaining
              /\ turn[g].step = "answering" /\ ~turn'[g].raced => ~turn[g].raced /\ uses = 0
              /\ turn[g] = NoTurn <=> turn'[g] = NoTurn
<1>1. ASSUME NEW g \in Requests, g # h
      PROVE  /\ turn'[g] \in Turns
             /\ turn'[g].step = turn[g].step /\ turn'[g].of = turn[g].of
             /\ turn'[g].remaining = turn[g].remaining
             /\ turn[g].step = "answering" /\ ~turn'[g].raced => ~turn[g].raced /\ uses = 0
             /\ turn[g] = NoTurn <=> turn'[g] = NoTurn
  <2> PICK t, r : /\ t = turn[g]
                  /\ r = (turn[g].raced \/ (turn[g].step = "answering" /\ uses > 0))
    OBVIOUS
  <2>1. t \in Turns /\ r \in BOOLEAN
    BY DEF StoreTyped, Turns
  <2>2. turn'[g] = [t EXCEPT !.raced = r]
    BY <1>1
  <2>3. /\ turn'[g] \in Turns /\ turn'[g].step = t.step /\ turn'[g].of = t.of
        /\ turn'[g].remaining = t.remaining /\ turn'[g].raced = r
    BY <2>1, <2>2 DEF Turns
  <2>4. t.step = "answering" /\ ~r => ~t.raced /\ ~ (uses > 0)
    BY Zenon
  <2>5. t.step # "answering" => r = t.raced
    BY <2>1 DEF Turns
  <2>6. t.step # "answering" => turn'[g] = t
    BY <2>1, <2>2, <2>5 DEF Turns
  <2>7. NoTurn.step = "idle"
    BY NothingHeld
  <2> QED
    BY <2>3, <2>4, <2>6, <2>7, ~ (uses > 0) => uses = 0
<1>2. turn'[h] = NoTurn /\ NoTurn \in Turns /\ DOMAIN turn' = Requests
  BY NothingHeld
<1>3. turn' \in [Requests -> Turns]
  BY <1>1, <1>2
<1> QED
  BY <1>1, <1>2, <1>3

(* The row that a message is added to: of the handler, or a new one.       *)
BaseRow(h) ==
  IF turn[h].of = None THEN NewConversation("generated") ELSE conversations[Committed(h)]

KeptRow(h, m) == [BaseRow(h) EXCEPT !.messages = Append(@, m)]

LEMMA CommittedRow ==
  ASSUME StoreTyped, NEW h \in Requests, turn[h].of # None \/ HasRoom,
         NEW m \in Messages, NEW c, c = Committed(h), NEW kept, kept = KeptRow(h, m)
  PROVE  /\ c \in Conversations /\ kept \in ThreadRows
         /\ kept.status # "absent"
         /\ kept.messages = Append(conversations[c].messages, m)
         /\ conversations[c].messages \in Seq(Messages)
         /\ c # None
<1> PICK row : row = BaseRow(h)
  OBVIOUS
<1>0. kept = [row EXCEPT !.messages = Append(@, m)]
  BY DEF KeptRow
<1>1. CASE turn[h].of = None
  <2>1. c = Fresh /\ c \in Conversations /\ c \notin Existing
    BY <1>1, FreshIs DEF Committed
  <2>2. row \in ThreadRows /\ row.messages = <<>> /\ row.status = "active"
    BY <1>1, NewRow DEF Titles, BaseRow
  <2>3. conversations[c].messages = <<>> /\ conversations[c].messages \in Seq(Messages)
    <3>1. <<>> \in Seq(Messages)
      OBVIOUS
    <3> QED
      BY <2>1, <3>1, AbsentRow, Zenon
  <2>4. Append(<<>>, m) \in Seq(Messages)
    OBVIOUS
  <2>5. kept \in ThreadRows /\ kept.status = "active" /\ kept.messages = Append(<<>>, m)
    BY <1>0, <2>2, <2>4 DEF ThreadRows
  <2> QED
    BY <2>1, <2>3, <2>5, StoreAssumption
<1>2. CASE turn[h].of # None
  <2>1. c \in Existing /\ c \in Conversations
    BY <1>2 DEF Committed, StoreTyped, Existing
  <2>2. row = conversations[c] /\ row \in ThreadRows /\ row.status # "absent"
    BY <1>2, <2>1 DEF StoreTyped, Existing, BaseRow
  <2>3. row.messages \in Seq(Messages)
    BY <2>2 DEF ThreadRows
  <2>4. Append(row.messages, m) \in Seq(Messages)
    BY <2>3
  <2>5. /\ kept \in ThreadRows /\ kept.status = row.status
        /\ kept.messages = Append(row.messages, m)
    BY <1>0, <2>2, <2>4 DEF ThreadRows
  <2> QED
    BY <2>1, <2>2, <2>3, <2>5, StoreAssumption
<1> QED
  BY <1>1, <1>2

LEMMA AllowedIs ==
  ASSUME NEW n \in Nat
  PROVE  AllowedUses(n) \in Nat /\ AllowedUses(n) <= n
BY StoreAssumption DEF AllowedUses

LEMMA CommitKeeps ==
  ASSUME Budgeted, NEW h \in Requests, NEW uses, CommitTurn(h, uses)
  PROVE  /\ Budgeted'
         /\ \E q : \E m \in Messages : m.ask = h[1] /\ MessageComes(q, m)
         /\ Committed(h) \in Conversations /\ Committed(h) # None
         /\ Existing' = Existing \cup {Committed(h)}
         /\ \A d \in Conversations : d # Committed(h) => conversations'[d] = conversations[d]
         /\ turn[h] # NoTurn /\ turn'[h] = NoTurn
         /\ \A g \in Requests : g # h => (turn[g] = NoTurn <=> turn'[g] = NoTurn)
<1>1. /\ StoreTyped /\ Spent /\ BudgetKept /\ turn[h] \in Turns
      /\ turn[h].step = "answering" /\ turn[h].remaining \in Nat /\ turn[h].raced \in BOOLEAN
      /\ turn[h].of # None \/ HasRoom
  BY DEF Budgeted, StoreTyped, Turns, CommitTurn
<1>2. uses \in Nat /\ uses <= turn[h].remaining
  BY <1>1, AllowedIs DEF CommitTurn
<1> PICK c, m : c = Committed(h) /\ m = [ask |-> h[1], uses |-> uses, raced |-> turn[h].raced]
  OBVIOUS
<1> PICK kept : kept = KeptRow(h, m)
  OBVIOUS
<1>3. h[1] \in Asks
  BY DEF Requests
<1>4. m \in Messages /\ m.ask = h[1] /\ m.uses = uses /\ m.raced = turn[h].raced
  BY <1>1, <1>2, <1>3 DEF Messages
<1>5. conversations' = [conversations EXCEPT ![c] = kept]
  BY DEF CommitTurn, Committed, KeptRow, BaseRow
<1>6. /\ c \in Conversations /\ kept \in ThreadRows /\ kept.status # "absent"
      /\ kept.messages = Append(conversations[c].messages, m)
      /\ conversations[c].messages \in Seq(Messages) /\ c # None
  BY <1>1, <1>4, CommittedRow
<1>7. /\ conversations' \in [Conversations -> ThreadRows] /\ conversations'[c] = kept
      /\ \A d \in Conversations : d # c => conversations'[d] = conversations[d]
  BY <1>1, <1>5, <1>6 DEF StoreTyped
<1>8. PICK q : MessageComes(q, m)
  BY <1>6, <1>7, RowGrows
<1>9. /\ DailySearchUses' = DailySearchUses + uses
      /\ SumUses(Raced)' = SumUses(Raced) + IF turn[h].raced THEN uses ELSE 0
      /\ IsFiniteSet(Places')
  BY <1>1, <1>4, <1>8, SumsGrow
<1>10. Existing' = Existing \cup {c}
  BY <1>6, <1>7 DEF Existing
<1>11. turn' = [other \in Requests |->
         IF other = h THEN NoTurn
         ELSE [turn[other] EXCEPT
                 !.raced = @ \/ (turn[other].step = "answering" /\ uses > 0)]]
  BY DEF CommitTurn
<1>12. /\ turn' \in [Requests -> Turns] /\ turn'[h] = NoTurn
       /\ \A g \in Requests : g # h =>
            /\ turn'[g].step = turn[g].step /\ turn'[g].of = turn[g].of
            /\ turn'[g].remaining = turn[g].remaining
            /\ turn[g].step = "answering" /\ ~turn'[g].raced => ~turn[g].raced /\ uses = 0
            /\ turn[g] = NoTurn <=> turn'[g] = NoTurn
  BY <1>1, <1>2, <1>11, OthersRaced
<1>13. NoTurn.step = "idle" /\ NoTurn.of = None
  BY NothingHeld
<1>14. StoreTyped'
  <2>1. ASSUME NEW d \in Conversations, conversations'[d].status = "absent"
        PROVE  conversations'[d] = NoRow
    BY <1>1, <1>6, <1>7, <2>1 DEF StoreTyped
  <2>2. ASSUME NEW g \in Requests
        PROVE  /\ turn'[g].step = "idle" => turn'[g] = NoTurn
               /\ turn'[g].of # None => turn'[g].of \in Existing'
    BY <1>1, <1>10, <1>12, <1>13 DEF StoreTyped
  <2> QED
    BY <1>7, <1>9, <1>12, <2>1, <2>2 DEF StoreTyped
<1>15. DailySearchUses \in Nat /\ SumUses(Raced) \in Nat /\ DailySearchBudget \in Nat
  BY <1>1, UsesAreNat, MessagesTyped, StoreAssumption DEF DailySearchUses
<1>16. Spent'
  <2>1. ASSUME NEW g \in Requests, turn'[g].step = "answering", ~turn'[g].raced
        PROVE  \/ turn'[g].remaining = 0
               \/ DailySearchUses' + turn'[g].remaining <= DailySearchBudget
    <3>1. g # h
      BY <1>12, <1>13, <2>1
    <3>2. turn[g].step = "answering" /\ ~turn[g].raced /\ uses = 0
          /\ turn'[g].remaining = turn[g].remaining
      BY <1>12, <2>1, <3>1
    <3>3. DailySearchUses' = DailySearchUses
      BY <1>9, <1>15, <3>2
    <3> QED
      BY <1>1, <3>2, <3>3 DEF Spent
  <2> QED
    BY <2>1 DEF Spent
<1>17. BudgetKept'
  <2>1. BudgetKept' <=> DailySearchUses' <= DailySearchBudget + SumUses(Raced)'
    BY DEF BudgetKept, Raced
  <2>2. DailySearchUses <= DailySearchBudget + SumUses(Raced)
    BY <1>1, BudgetKeptIs
  <2>3. CASE turn[h].raced
    BY <1>2, <1>9, <1>15, <2>1, <2>2, <2>3
  <2>4. CASE ~turn[h].raced
    <3>1. \/ turn[h].remaining = 0
          \/ DailySearchUses + turn[h].remaining <= DailySearchBudget
      BY <1>1, <2>4 DEF Spent
    <3>2. SumUses(Raced)' = SumUses(Raced)
      BY <1>9, <1>15, <2>4
    <3> QED
      BY <1>1, <1>2, <1>9, <1>15, <2>1, <2>2, <3>1, <3>2
  <2> QED
    BY <2>3, <2>4
<1>18. turn[h] # NoTurn
  BY <1>1, <1>13
<1> QED
  BY <1>4, <1>6, <1>7, <1>8, <1>10, <1>12, <1>14, <1>16, <1>17, <1>18 DEF Budgeted
-----------------------------------------------------------------------------
(* Requests on their way.                                                  *)
Counts(B) == \A r \in DOMAIN B : B[r] \in Nat \ {0}

(* C has the requests of R besides those of B.                             *)
BagAdds(B, R, C) ==
  /\ Counts(C) /\ DOMAIN C = DOMAIN B \cup R
  /\ \A r \in DOMAIN C : r \notin R => C[r] = B[r]

(* C is B without one r.                                                   *)
BagTakes(B, r, C) ==
  /\ Counts(C) /\ DOMAIN C \subseteq DOMAIN B
  /\ \A q \in DOMAIN B : q # r => q \in DOMAIN C /\ C[q] = B[q]
  /\ r \in DOMAIN B /\ (B[r] = 1 => r \notin DOMAIN C)

LEMMA OneAdded ==
  ASSUME NEW B, Counts(B), NEW r
  PROVE  /\ BagAdds(B, {r}, B (+) SetToBag({r}))
         /\ r \notin DOMAIN B => (B (+) SetToBag({r}))[r] = 1
<1> DEFINE C == B (+) SetToBag({r})
<1>1. DOMAIN SetToBag({r}) = {r} /\ SetToBag({r})[r] = 1
  BY DEF SetToBag
<1>2. C = [x \in DOMAIN B \cup {r} |->
             (IF x \in DOMAIN B THEN B[x] ELSE 0) + (IF x = r THEN 1 ELSE 0)]
  BY <1>1 DEF (+)
<1> HIDE DEF C
<1>3. BagAdds(B, {r}, C) /\ (r \notin DOMAIN B => C[r] = 1)
  BY <1>2 DEF BagAdds, Counts
<1> QED
  BY <1>3 DEF C

LEMMA NoneAdded ==
  ASSUME NEW B, Counts(B)
  PROVE  BagAdds(B, {}, B (+) EmptyBag)
<1> DEFINE C == B (+) EmptyBag
<1>1. DOMAIN EmptyBag = {}
  BY DEF SetToBag, EmptyBag
<1>2. C = [x \in DOMAIN B |-> (IF x \in DOMAIN B THEN B[x] ELSE 0) + 0]
  BY <1>1 DEF (+)
<1> HIDE DEF C
<1>3. BagAdds(B, {}, C)
  BY <1>2 DEF BagAdds, Counts
<1> QED
  BY <1>3 DEF C

LEMMA OneTaken ==
  ASSUME NEW B, Counts(B), NEW r \in DOMAIN B
  PROVE  BagTakes(B, r, B (-) SetToBag({r}))
<1> DEFINE D == [x \in DOMAIN B |-> IF x = r THEN B[x] - 1 ELSE B[x]]
           C == B (-) SetToBag({r})
<1>1. DOMAIN SetToBag({r}) = {r} /\ SetToBag({r})[r] = 1
  BY DEF SetToBag
<1>2. D = [x \in DOMAIN B |-> IF x \in DOMAIN SetToBag({r}) THEN B[x] - SetToBag({r})[x]
                               ELSE B[x]]
  BY <1>1
<1> HIDE DEF D
<1>3. C = [x \in {d \in DOMAIN D : D[d] > 0} |-> D[x]]
  BY <1>2 DEF (-)
<1> HIDE DEF C
<1>4. BagTakes(B, r, C)
  BY <1>3 DEF BagTakes, Counts, D
<1> QED
  BY <1>4 DEF C

LEMMA BothAdded ==
  ASSUME NEW A, NEW B, NEW C, NEW R, NEW S, BagAdds(A, R, B), BagAdds(B, S, C)
  PROVE  BagAdds(A, R \cup S, C)
BY DEF BagAdds, Counts
-----------------------------------------------------------------------------
(* A question at one place.                                                *)
TurnsFewer ==
  /\ Counts(sent')
  /\ \A r \in DOMAIN sent' : r.op \in TurnOps => r \in DOMAIN sent /\ sent'[r] = sent[r]

LEMMA AskingIs ==
  Asking <=>
    /\ asked \in Nat /\ Counts(sent)
    /\ \A r \in DOMAIN sent : r.op \in TurnOps => Single(r)
    /\ \A ask \in Asks : AskOK(ask)
    /\ sending # NoSend =>
         /\ sending.via \in TurnOps /\ sending.ask \in Asks /\ sending.ask <= asked
         /\ sending.via = "stream" => sending.ask \notin dropped
BY DEF Asking, Counts

LEMMA TimesAreNat ==
  ASSUME IsFiniteSet(Places), NEW ask
  PROVE  TimesAsked(ask) \in Nat
<1>1. IsFiniteSet({p \in Places : MessageAt(p).ask = ask})
  BY FS_Subset
<1> QED
  BY <1>1, FS_CardinalityType DEF TimesAsked

(* A question that is at no more places than before.                       *)
LEMMA AskFewer ==
  ASSUME NEW ask \in Asks, IsFiniteSet(Places), IsFiniteSet(Places'), AskOK(ask),
         TimesAsked(ask)' + (IF Unsettled(ask, "stream")' THEN 1 ELSE 0)
             + (IF Unsettled(ask, "ask")' THEN 1 ELSE 0) <= Askings(ask),
         Unsettled(ask, "ask")' => Unsettled(ask, "ask"),
         UNCHANGED <<asked, dropped>>
  PROVE  AskOK(ask)'
<1>1. TimesAsked(ask) \in Nat /\ TimesAsked(ask)' \in Nat
  <2>1. IsFiniteSet({p \in Places' : MessageAt(p)'.ask = ask})
    BY FS_Subset
  <2> QED
    BY <2>1, TimesAreNat, FS_CardinalityType DEF TimesAsked
<1> DEFINE n == Askings(ask)
           m == TimesAsked(ask)' + (IF Unsettled(ask, "stream")' THEN 1 ELSE 0)
                  + (IF Unsettled(ask, "ask")' THEN 1 ELSE 0)
<1>2. n \in Nat /\ m \in Nat /\ m <= n
  BY <1>1 DEF Askings
<1>3. Askings(ask)' = m
  BY DEF Askings
<1> HIDE DEF m, n
<1>4. /\ n <= IF ask \in dropped THEN 2 ELSE 1
      /\ ask \notin dropped => ~ Unsettled(ask, "ask")
      /\ ask > asked => n = 0 /\ ask \notin dropped
  BY DEF AskOK, n
<1>5. m <= IF ask \in dropped' THEN 2 ELSE 1
  BY <1>2, <1>4
<1>6. ask > asked' => m = 0 /\ ask \notin dropped'
  BY <1>2, <1>4
<1> QED
  BY <1>3, <1>4, <1>5, <1>6 DEF AskOK

LEMMA AskingFewer ==
  ASSUME Asking, StoreTyped, TurnsFewer, MessagesStay, UNCHANGED <<asked, dropped>>,
         \A h \in Requests : turn[h] = NoTurn => turn'[h] = NoTurn,
         sending' \in {sending, NoSend}
  PROVE  Asking'
<1>1. IsFiniteSet(Places) /\ IsFiniteSet(Places') /\ TurnOps = {"stream", "ask"}
  BY SumsStay DEF StoreTyped, TurnOps
<1>2. ASSUME NEW ask \in Asks, NEW op \in TurnOps, Unsettled(ask, op)'
      PROVE  Unsettled(ask, op)
  <2>1. <<ask, op>> \in Requests
    BY <1>1 DEF Requests
  <2> QED
    BY <1>2, <2>1 DEF Unsettled, Waiting, TurnsFewer
<1>3. ASSUME NEW ask \in Asks
      PROVE  AskOK(ask)'
  <2>1. TimesAsked(ask)' = TimesAsked(ask) /\ TimesAsked(ask) \in Nat
    BY <1>1, SumsStay, TimesAreNat
  <2>2. /\ Unsettled(ask, "stream")' => Unsettled(ask, "stream")
        /\ Unsettled(ask, "ask")' => Unsettled(ask, "ask")
    BY <1>1, <1>2
  <2>3. TimesAsked(ask)' + (IF Unsettled(ask, "stream")' THEN 1 ELSE 0)
             + (IF Unsettled(ask, "ask")' THEN 1 ELSE 0) <= Askings(ask)
    BY <2>1, <2>2 DEF Askings
  <2>4. AskOK(ask)
    BY DEF Asking
  <2> QED
    BY <1>1, <2>2, <2>3, <2>4, AskFewer
<1>4. ASSUME NEW r \in DOMAIN sent', r.op \in TurnOps
      PROVE  Single(r)'
  <2>1. r \in DOMAIN sent /\ sent'[r] = sent[r] /\ Single(r)
    BY <1>4 DEF TurnsFewer, Asking
  <2>2. <<r.ask, r.op>> \in Requests
    BY <1>1, <1>4, <2>1 DEF Requests, Single
  <2> QED
    BY <1>4, <2>1, <2>2 DEF Single, TurnsFewer
<1>5. sending' # NoSend =>
         /\ sending'.via \in TurnOps /\ sending'.ask \in Asks /\ sending'.ask <= asked'
         /\ sending'.via = "stream" => sending'.ask \notin dropped'
  BY DEF Asking
<1>6. asked' \in Nat /\ Counts(sent')
  BY DEF Asking, TurnsFewer
<1> QED
  BY <1>3, <1>4, <1>5, <1>6 DEF Asking, Counts

(* A request is with its handler.                                          *)
LEMMA AskingBegins ==
  ASSUME Asking, StoreTyped, NEW r, r.op \in TurnOps, BagTakes(sent, r, sent'),
         MessagesStay, UNCHANGED <<asked, dropped, sending>>,
         \A h \in Requests : h # <<r.ask, r.op>> => turn'[h] = turn[h]
  PROVE  Asking'
<1>1. IsFiniteSet(Places) /\ IsFiniteSet(Places') /\ TurnOps = {"stream", "ask"}
  BY SumsStay DEF StoreTyped, TurnOps
<1>2. r \in DOMAIN sent /\ Single(r) /\ r \notin DOMAIN sent'
  BY DEF Asking, BagTakes, Single
<1>3. ASSUME NEW ask \in Asks, NEW op \in TurnOps, Unsettled(ask, op)'
      PROVE  Unsettled(ask, op)
  <2>1. CASE <<ask, op>> = <<r.ask, r.op>>
    BY <1>2, <2>1 DEF Unsettled, Waiting
  <2>2. CASE <<ask, op>> # <<r.ask, r.op>>
    <3>1. <<ask, op>> \in Requests
      BY <1>1 DEF Requests
    <3> QED
      BY <1>3, <2>2, <3>1 DEF Unsettled, Waiting, BagTakes
  <2> QED
    BY <2>1, <2>2
<1>4. ASSUME NEW ask \in Asks
      PROVE  AskOK(ask)'
  <2>1. TimesAsked(ask)' = TimesAsked(ask) /\ TimesAsked(ask) \in Nat
    BY <1>1, SumsStay, TimesAreNat
  <2>2. /\ Unsettled(ask, "stream")' => Unsettled(ask, "stream")
        /\ Unsettled(ask, "ask")' => Unsettled(ask, "ask")
    BY <1>1, <1>3
  <2>3. TimesAsked(ask)' + (IF Unsettled(ask, "stream")' THEN 1 ELSE 0)
             + (IF Unsettled(ask, "ask")' THEN 1 ELSE 0) <= Askings(ask)
    BY <2>1, <2>2 DEF Askings
  <2>4. AskOK(ask)
    BY DEF Asking
  <2> QED
    BY <1>1, <2>2, <2>3, <2>4, AskFewer
<1>5. ASSUME NEW q \in DOMAIN sent', q.op \in TurnOps
      PROVE  Single(q)'
  <2>1. q \in DOMAIN sent /\ sent'[q] = sent[q] /\ Single(q) /\ q # r
    BY <1>2, <1>5 DEF BagTakes, Asking
  <2>2. <<q.ask, q.op>> \in Requests /\ <<q.ask, q.op>> # <<r.ask, r.op>>
    BY <1>1, <1>2, <1>5, <2>1 DEF Requests, Single
  <2> QED
    BY <1>5, <2>1, <2>2 DEF Single, BagTakes
<1> QED
  BY <1>4, <1>5 DEF Asking, Counts, BagTakes

(* A handler commits the message of its question.                          *)
LEMMA AskingCommits ==
  ASSUME Asking, StoreTyped, NEW h \in Requests, NEW q, NEW m \in Messages, m.ask = h[1],
         MessageComes(q, m), UNCHANGED <<sent, asked, dropped, sending>>,
         turn[h] # NoTurn, turn'[h] = NoTurn,
         \A g \in Requests : g # h => (turn[g] = NoTurn <=> turn'[g] = NoTurn)
  PROVE  Asking'
<1>1. IsFiniteSet(Places) /\ IsFiniteSet(Places') /\ TurnOps = {"stream", "ask"}
      /\ Requests = Asks \X TurnOps
  BY SumsGrow DEF StoreTyped, TurnOps, Requests
<1>2. PICK a \in Asks, op \in TurnOps : h = <<a, op>> /\ m.ask = a
  BY <1>1
<1>3. ~ Waiting(a, op)
  BY <1>2 DEF Waiting, Asking, Single
<1>4. Unsettled(a, op) /\ ~ Unsettled(a, op)'
  BY <1>2, <1>3 DEF Unsettled, Waiting
<1>5. ASSUME NEW ask \in Asks, NEW o \in TurnOps, <<ask, o>> # h
      PROVE  Unsettled(ask, o)' <=> Unsettled(ask, o)
  BY <1>1, <1>5 DEF Unsettled, Waiting
<1>6. ASSUME NEW ask \in Asks
      PROVE  AskOK(ask)'
  <2>1. /\ TimesAsked(ask)' = TimesAsked(ask) + IF m.ask = ask THEN 1 ELSE 0
        /\ TimesAsked(ask) \in Nat
    BY <1>1, SumsGrow, TimesAreNat
  <2>2. CASE ask # a
    <3>1. /\ Unsettled(ask, "stream")' <=> Unsettled(ask, "stream")
          /\ Unsettled(ask, "ask")' <=> Unsettled(ask, "ask")
      BY <1>1, <1>2, <1>5, <2>2
    <3>2. TimesAsked(ask)' = TimesAsked(ask)
      BY <1>2, <2>1, <2>2
    <3>3. TimesAsked(ask)' + (IF Unsettled(ask, "stream")' THEN 1 ELSE 0)
               + (IF Unsettled(ask, "ask")' THEN 1 ELSE 0) <= Askings(ask)
      BY <2>1, <3>1, <3>2 DEF Askings
    <3> QED
      BY <1>1, <3>1, <3>3, AskFewer DEF Asking
  <2>3. CASE ask = a
    <3>1. TimesAsked(ask)' = TimesAsked(ask) + 1
      BY <1>2, <2>1, <2>3
    <3>2. CASE op = "stream"
      <4>1. /\ ~ Unsettled(ask, "stream")' /\ Unsettled(ask, "stream")
            /\ Unsettled(ask, "ask")' <=> Unsettled(ask, "ask")
        BY <1>1, <1>2, <1>4, <1>5, <2>3, <3>2
      <4>2. TimesAsked(ask)' + (IF Unsettled(ask, "stream")' THEN 1 ELSE 0)
                 + (IF Unsettled(ask, "ask")' THEN 1 ELSE 0) <= Askings(ask)
        BY <2>1, <3>1, <4>1 DEF Askings
      <4> QED
        BY <1>1, <4>1, <4>2, AskFewer DEF Asking
    <3>3. CASE op = "ask"
      <4>1. /\ ~ Unsettled(ask, "ask")' /\ Unsettled(ask, "ask")
            /\ Unsettled(ask, "stream")' <=> Unsettled(ask, "stream")
        BY <1>1, <1>2, <1>4, <1>5, <2>3, <3>3
      <4>2. TimesAsked(ask)' + (IF Unsettled(ask, "stream")' THEN 1 ELSE 0)
                 + (IF Unsettled(ask, "ask")' THEN 1 ELSE 0) <= Askings(ask)
        BY <2>1, <3>1, <4>1 DEF Askings
      <4> QED
        BY <1>1, <4>1, <4>2, AskFewer DEF Asking
    <3> QED
      BY <1>1, <3>2, <3>3
  <2> QED
    BY <2>2, <2>3
<1>7. ASSUME NEW r \in DOMAIN sent', r.op \in TurnOps
      PROVE  Single(r)'
  <2>1. r \in DOMAIN sent /\ Single(r)
    BY <1>7 DEF Asking
  <2>2. <<r.ask, r.op>> \in Requests
    BY <1>1, <1>7, <2>1 DEF Single
  <2> QED
    BY <1>7, <2>1, <2>2 DEF Single
<1> QED
  BY <1>6, <1>7 DEF Asking

(* A question is sent on one of the two ways, where it was not yet.        *)
LEMMA AskingGrows ==
  ASSUME Asking, StoreTyped, NEW r, r.op \in TurnOps, r.ask \in Asks, r.ask <= asked',
         BagAdds(sent, {r}, sent'), r \notin DOMAIN sent => sent'[r] = 1,
         ~ Unsettled(r.ask, r.op), UNCHANGED turn, MessagesStay,
         asked' \in Nat, asked <= asked',
         dropped' \in {dropped, dropped \cup {r.ask}},
         Askings(r.ask) < IF r.ask \in dropped' THEN 2 ELSE 1,
         r.op = "ask" => r.ask \in dropped',
         sending'.via \in TurnOps, sending'.ask \in Asks, sending'.ask <= asked',
         sending'.via = "stream" => sending'.ask \notin dropped'
  PROVE  Asking'
<1>1. IsFiniteSet(Places) /\ IsFiniteSet(Places') /\ TurnOps = {"stream", "ask"}
  BY SumsStay DEF StoreTyped, TurnOps
<1> PICK a, op : a = r.ask /\ op = r.op
  OBVIOUS
<1>2. turn[<<a, op>>] = NoTurn /\ r \notin DOMAIN sent /\ sent'[r] = 1
      /\ \A q \in DOMAIN sent : ~ (q.op = op /\ q.ask = a)
  BY DEF Unsettled, Waiting
<1>3. DOMAIN sent' = DOMAIN sent \cup {r}
  BY DEF BagAdds
<1>4. Unsettled(a, op)' /\ a \in Asks /\ op \in TurnOps
  BY <1>3 DEF Unsettled, Waiting
<1>5. ASSUME NEW ask \in Asks, NEW o \in TurnOps, <<ask, o>> # <<a, op>>
      PROVE  Unsettled(ask, o)' <=> Unsettled(ask, o)
  <2>1. Waiting(ask, o)' <=> Waiting(ask, o)
    BY <1>3, <1>5 DEF Waiting
  <2> QED
    BY <2>1 DEF Unsettled
<1>6. ASSUME NEW ask \in Asks
      PROVE  /\ TimesAsked(ask)' = TimesAsked(ask) /\ TimesAsked(ask) \in Nat
             /\ AskOK(ask)
  BY <1>1, SumsStay, TimesAreNat DEF Asking
<1>7. ASSUME NEW ask \in Asks, ask # a
      PROVE  AskOK(ask)'
  <2>1. /\ Unsettled(ask, "stream")' <=> Unsettled(ask, "stream")
        /\ Unsettled(ask, "ask")' <=> Unsettled(ask, "ask")
    BY <1>1, <1>5, <1>7
  <2>2. Askings(ask)' = Askings(ask)
    BY <1>6, <2>1 DEF Askings
  <2>3. ask \in dropped' <=> ask \in dropped
    BY <1>7
  <2>4. ask > asked' => ask > asked
    BY AskAssumption DEF Asking
  <2> QED
    BY <1>6, <2>1, <2>2, <2>3, <2>4 DEF AskOK
<1>8. AskOK(a)'
  <2>1. Askings(a)' = Askings(a) + 1 /\ Askings(a) \in Nat
    <3>1. CASE op = "stream"
      <4>1. /\ Unsettled(a, "stream")' /\ ~ Unsettled(a, "stream")
            /\ Unsettled(a, "ask")' <=> Unsettled(a, "ask")
        BY <1>1, <1>4, <1>5, <3>1
      <4> QED
        BY <1>4, <1>6, <4>1 DEF Askings
    <3>2. CASE op = "ask"
      <4>1. /\ Unsettled(a, "ask")' /\ ~ Unsettled(a, "ask")
            /\ Unsettled(a, "stream")' <=> Unsettled(a, "stream")
        BY <1>1, <1>4, <1>5, <3>2
      <4> QED
        BY <1>4, <1>6, <4>1 DEF Askings
    <3> QED
      BY <1>1, <3>1, <3>2
  <2>2. Askings(a)' <= IF a \in dropped' THEN 2 ELSE 1
    BY <2>1
  <2>3. a \notin dropped' => ~ Unsettled(a, "ask")'
    <3>1. CASE op = "ask"
      BY <3>1
    <3>2. CASE op = "stream"
      <4>1. Unsettled(a, "ask")' <=> Unsettled(a, "ask")
        BY <1>1, <1>4, <1>5, <3>2
      <4> QED
        BY <1>4, <1>6, <4>1 DEF AskOK
    <3> QED
      BY <1>1, <3>1, <3>2
  <2>4. ~ (a > asked')
    <3>1. a \in Nat /\ a <= asked'
      BY <1>4, AskAssumption
    <3> QED
      BY <3>1
  <2> QED
    BY <2>2, <2>3, <2>4 DEF AskOK
<1>9. ASSUME NEW q \in DOMAIN sent', q.op \in TurnOps
      PROVE  Single(q)'
  <2>1. CASE q = r
    BY <1>2, <1>3, <2>1 DEF Single
  <2>2. CASE q # r
    <3>1. q \in DOMAIN sent /\ Single(q) /\ sent'[q] = sent[q]
      BY <1>3, <1>9, <2>2 DEF Asking, BagAdds
    <3>2. ~ (q.op = op /\ q.ask = a)
      BY <1>2, <3>1
    <3>3. q.ask <= asked'
      <4>1. q.ask \in Nat /\ q.ask <= asked /\ asked \in Nat
        BY <3>1, AskAssumption DEF Single, Asking
      <4> QED
        BY <4>1
    <3> QED
      BY <1>3, <3>1, <3>2, <3>3 DEF Single
  <2> QED
    BY <2>1, <2>2
<1> QED
  BY <1>7, <1>8, <1>9 DEF Asking, BagAdds, Counts
-----------------------------------------------------------------------------
(* A sequence without its i-th element.                                    *)
LEMMA Removed ==
  ASSUME NEW S, NEW s \in Seq(S), NEW i \in DOMAIN s
  PROVE  /\ RemoveAt(s, i) \in Seq(S)
         /\ DOMAIN RemoveAt(s, i) = 1..(Len(s) - 1)
         /\ \A j \in 1..(Len(s) - 1) : RemoveAt(s, i)[j] = s[IF j < i THEN j ELSE j + 1]
<1>1. i \in 1..Len(s) /\ Len(s) \in Nat
  BY LenProperties
<1> DEFINE a == SubSeq(s, 1, i - 1)
           b == SubSeq(s, i + 1, Len(s))
<1>2. /\ a \in Seq(S) /\ Len(a) = i - 1
      /\ \A j \in 1..(i - 1) : a[j] = s[j]
  BY <1>1, SubSeqProperties
<1>3. /\ b \in Seq(S) /\ Len(b) = Len(s) - i
      /\ \A j \in 1..(Len(s) - i) : b[j] = s[i + j]
  BY <1>1, SubSeqProperties
<1> HIDE DEF a, b
<1>4. /\ a \o b \in Seq(S) /\ Len(a \o b) = Len(s) - 1
      /\ \A j \in 1..(Len(s) - 1) : (a \o b)[j] = IF j <= i - 1 THEN a[j] ELSE b[j - (i - 1)]
  BY <1>1, <1>2, <1>3, ConcatProperties, SMTT(40)
<1>5. RemoveAt(s, i) = a \o b
  BY DEF RemoveAt, a, b
<1>6. DOMAIN (a \o b) = 1..(Len(s) - 1)
  BY <1>4, LenProperties
<1>7. ASSUME NEW j \in 1..(Len(s) - 1)
      PROVE  (a \o b)[j] = s[IF j < i THEN j ELSE j + 1]
  <2>1. CASE j < i
    BY <2>1, <1>1, <1>2, <1>4
  <2>2. CASE ~(j < i)
    <3>1. j - (i - 1) \in 1..(Len(s) - i) /\ i + (j - (i - 1)) = j + 1 /\ ~(j <= i - 1)
      BY <2>2, <1>1
    <3> QED
      BY <3>1, <2>2, <1>3, <1>4
  <2> QED
    BY <2>1, <2>2
<1> QED
  BY <1>4, <1>5, <1>6, <1>7

(* The answers that are left when one is taken: where each of them was.    *)
From(j, k) == IF j < k THEN j ELSE j + 1

LEMMA LeftAnswers ==
  ASSUME answers \in Seq(Replies), NEW k \in DOMAIN answers
  PROVE  /\ Dropped(k) \in Seq(Replies) /\ Taken(k) \in Seq(Replies)
         /\ DOMAIN Dropped(k) = 1..(Len(answers) - 1)
         /\ DOMAIN Taken(k) = 1..(Len(answers) - 1)
         /\ DOMAIN answers = 1..Len(answers) /\ Len(answers) \in Nat
         /\ \A j \in 1..(Len(answers) - 1) :
              /\ From(j, k) \in DOMAIN answers /\ From(j, k) # k
              /\ Dropped(k)[j] = answers[From(j, k)]
              /\ Taken(k)[j] = IF j < k THEN [answers[j] EXCEPT !.old = TRUE]
                               ELSE answers[j + 1]
         /\ \A i \in DOMAIN answers : i # k =>
              \E j \in 1..(Len(answers) - 1) : i = From(j, k)
<1>1. DOMAIN answers = 1..Len(answers) /\ Len(answers) \in Nat /\ k \in 1..Len(answers)
  BY LenProperties
<1>2. /\ Dropped(k) \in Seq(Replies)
      /\ DOMAIN Dropped(k) = 1..(Len(answers) - 1)
      /\ \A j \in 1..(Len(answers) - 1) : Dropped(k)[j] = answers[From(j, k)]
  BY Removed DEF Dropped, From
<1>3. /\ DOMAIN Taken(k) = 1..(Len(answers) - 1)
      /\ \A j \in 1..(Len(answers) - 1) :
           Taken(k)[j] = IF j < k THEN [answers[j] EXCEPT !.old = TRUE] ELSE answers[j + 1]
  BY DEF Taken
<1>4. ASSUME NEW j \in 1..(Len(answers) - 1)
      PROVE  From(j, k) \in DOMAIN answers /\ From(j, k) # k /\ Taken(k)[j] \in Replies
  <2>1. j \in 1..Len(answers) /\ j + 1 \in 1..Len(answers)
    BY <1>1
  <2>2. answers[j] \in Replies /\ answers[j + 1] \in Replies
    BY <2>1
  <2> PICK a : a = [answers[j] EXCEPT !.old = TRUE]
    OBVIOUS
  <2>3. a \in Replies
    BY <2>2 DEF Replies
  <2>6. Taken(k)[j] = IF j < k THEN a ELSE answers[j + 1]
    BY <1>3
  <2>4. CASE j < k
    BY <1>1, <2>1, <2>3, <2>4, <2>6 DEF From
  <2>5. CASE ~(j < k)
    BY <1>1, <1>3, <2>1, <2>2, <2>5 DEF From
  <2> QED
    BY <2>4, <2>5
<1>5. Taken(k) \in Seq(Replies)
  <2>1. Len(answers) - 1 \in Nat
    BY <1>1
  <2>2. Taken(k) = [j \in 1..(Len(answers) - 1) |-> Taken(k)[j]]
    BY DEF Taken
  <2>3. Taken(k) \in [1..(Len(answers) - 1) -> Replies]
    BY <1>4, <2>2
  <2> QED
    BY <2>1, <2>3, SeqDef
<1>6. ASSUME NEW i \in DOMAIN answers, i # k
      PROVE  \E j \in 1..(Len(answers) - 1) : i = From(j, k)
  <2>1. CASE i < k
    <3>1. i \in 1..(Len(answers) - 1) /\ i = From(i, k)
      BY <1>1, <2>1 DEF From
    <3> QED
      BY <3>1
  <2>2. CASE ~(i < k)
    <3>1. i - 1 \in 1..(Len(answers) - 1) /\ i = From(i - 1, k)
      BY <1>1, <1>6, <2>2 DEF From
    <3> QED
      BY <3>1
  <2> QED
    BY <2>1, <2>2
<1> QED
  BY <1>1, <1>2, <1>3, <1>4, <1>5, <1>6

LEMMA OutdatedAnswers ==
  ASSUME answers \in Seq(Replies)
  PROVE  /\ Outdated \in Seq(Replies) /\ DOMAIN Outdated = DOMAIN answers
         /\ \A k \in DOMAIN answers :
              /\ Outdated[k].old /\ Outdated[k].ok = answers[k].ok
              /\ Outdated[k].request = answers[k].request
              /\ Outdated[k].id = answers[k].id /\ Outdated[k].row = answers[k].row
<1>1. DOMAIN answers = 1..Len(answers) /\ Len(answers) \in Nat
  BY LenProperties
<1>2. ASSUME NEW k \in DOMAIN answers
      PROVE  /\ Outdated[k] \in Replies
             /\ Outdated[k].old /\ Outdated[k].ok = answers[k].ok
             /\ Outdated[k].request = answers[k].request
             /\ Outdated[k].id = answers[k].id /\ Outdated[k].row = answers[k].row
  <2> PICK a : a = answers[k]
    OBVIOUS
  <2>1. a \in Replies
    BY <1>1
  <2>2. Outdated[k] = [a EXCEPT !.old = TRUE]
    BY DEF Outdated
  <2>3. /\ [a EXCEPT !.old = TRUE] \in Replies /\ [a EXCEPT !.old = TRUE].old = TRUE
        /\ [a EXCEPT !.old = TRUE].ok = a.ok /\ [a EXCEPT !.old = TRUE].request = a.request
        /\ [a EXCEPT !.old = TRUE].id = a.id /\ [a EXCEPT !.old = TRUE].row = a.row
    BY <2>1 DEF Replies
  <2> QED
    BY <2>2, <2>3
<1>3. Outdated \in [1..Len(answers) -> Replies]
  BY <1>1, <1>2 DEF Outdated
<1> QED
  BY <1>1, <1>2, <1>3, SeqDef DEF Outdated
-----------------------------------------------------------------------------
(* The requests that the page makes.                                       *)
LEMMA RequestIs ==
  Request \in Calls /\ Request.op = "load" /\ Request.id = None /\ Request.change = "none"
BY DEF Request, Calls

LEMMA LoadIs ==
  ASSUME NEW id \in ThreadIds, NEW routed \in BOOLEAN,
         NEW r, r = [Request EXCEPT !.id = id, !.routed = routed]
  PROVE  /\ Load(id, routed) = SetToBag({r})
         /\ CallOK(r) /\ Reloads(r) /\ r.op \notin TurnOps
<1>1. id \in Conversations \cup {None}
  BY DEF ThreadIds, Existing
<1>2. r \in Calls /\ r.op = "load" /\ r.id = id /\ r.change = "none"
  BY <1>1, RequestIs DEF Calls
<1>3. CallOK(r) /\ Reloads(r) /\ r.op \notin TurnOps
  BY <1>2 DEF CallOK, Reloads, TurnOps
<1> QED
  BY <1>3 DEF Load

(* The request of a patch.                                                 *)
PatchOf(id, change, routed) ==
  [Request EXCEPT !.op = "patch", !.id = id, !.change = change, !.routed = routed]

LEMMA PatchIs ==
  ASSUME NEW id \in Existing, NEW change \in PatchKinds, NEW routed \in BOOLEAN,
         NEW r, r = PatchOf(id, change, routed)
  PROVE  /\ Patch(id, change, routed) = SetToBag({r})
         /\ CallOK(r) /\ r.op \notin TurnOps /\ (change # "title" => Reloads(r))
<1>1. id \in Conversations \cup {None} /\ id # None
  BY StoreAssumption DEF Existing
<1>2. r \in Calls /\ r.op = "patch" /\ r.id = id /\ r.change = change /\ change # "none"
  BY <1>1, RequestIs DEF Calls, PatchKinds, PatchOf
<1>3. CallOK(r) /\ r.op \notin TurnOps /\ (change # "title" => Reloads(r))
  BY <1>1, <1>2 DEF CallOK, Reloads, TurnOps, ThreadIds
<1> QED
  BY <1>3 DEF Patch, PatchOf

LEMMA AskRequestIs ==
  ASSUME NEW send, send.via \in TurnOps, send.of \in ThreadIds, send.ask \in Asks,
         NEW r, r = [Request EXCEPT !.op = send.via, !.id = send.of, !.ask = send.ask]
  PROVE  /\ AskRequest(send) = SetToBag({r}) /\ CallOK(r)
         /\ r.op = send.via /\ r.ask = send.ask
<1> PICK via, of, ask : via = send.via /\ of = send.of /\ ask = send.ask
  OBVIOUS
<1>1. of \in Conversations \cup {None} /\ of \in ThreadIds /\ via \in TurnOps /\ ask \in Asks
  BY DEF ThreadIds, Existing
<1>2. r \in Calls /\ r.op = via /\ r.id = of /\ r.ask = ask /\ r.change = "none"
  BY <1>1, RequestIs DEF Calls, TurnOps
<1>3. CallOK(r)
  BY <1>1, <1>2 DEF CallOK, TurnOps
<1> QED
  BY <1>2, <1>3 DEF AskRequest

LEMMA CreateIs ==
  ASSUME NEW routed \in BOOLEAN,
         NEW r, r = [Request EXCEPT !.op = "create", !.routed = routed]
  PROVE  CallOK(r) /\ Reloads(r) /\ r.op \notin TurnOps
<1>1. r \in Calls /\ r.op = "create" /\ r.id = None /\ r.change = "none"
  BY RequestIs DEF Calls
<1> QED
  BY <1>1 DEF CallOK, Reloads, TurnOps, ThreadIds

(* The page makes the requests of R, none of them for an answer.           *)
Calling(R) ==
  /\ BagAdds(sent, R, sent')
  /\ \A r \in R : CallOK(r) /\ r.op \notin TurnOps

LEMMA CallingIsFewer ==
  ASSUME NEW R, Calling(R)
  PROVE  TurnsFewer
BY DEF Calling, TurnsFewer, BagAdds

LEMMA Loading ==
  ASSUME Counts(sent), NEW id \in ThreadIds, NEW routed \in BOOLEAN,
         sent' = sent (+) Load(id, routed)
  PROVE  \E r : Calling({r}) /\ Reloads(r)
<1> PICK r : r = [Request EXCEPT !.id = id, !.routed = routed]
  OBVIOUS
<1>1. Load(id, routed) = SetToBag({r}) /\ CallOK(r) /\ Reloads(r) /\ r.op \notin TurnOps
  BY LoadIs
<1>2. BagAdds(sent, {r}, sent')
  BY <1>1, OneAdded
<1> QED
  BY <1>1, <1>2 DEF Calling

(* The effect of a route, and then a load.                                 *)
LEMMA RouteLoads ==
  ASSUME Counts(sent), NEW id \in ThreadIds,
         NEW B, B = sent (+) RouteEffect(id)
  PROVE  \E R : /\ BagAdds(sent, R, B)
                /\ \A r \in R : CallOK(r) /\ r.op \notin TurnOps /\ Reloads(r)
                /\ id # route => R # {}
<1>1. CASE id = route
  <2>1. RouteEffect(id) = EmptyBag
    BY <1>1 DEF RouteEffect
  <2>2. BagAdds(sent, {}, B)
    BY <2>1, NoneAdded
  <2> QED
    BY <1>1, <2>2
<1>2. CASE id # route
  <2> PICK r : r = [Request EXCEPT !.id = id, !.routed = TRUE]
    OBVIOUS
  <2>1. /\ Load(id, TRUE) = SetToBag({r})
        /\ CallOK(r) /\ Reloads(r) /\ r.op \notin TurnOps
    BY LoadIs
  <2>2. RouteEffect(id) = SetToBag({r})
    BY <1>2, <2>1 DEF RouteEffect
  <2>3. BagAdds(sent, {r}, B)
    BY <2>2, OneAdded
  <2> QED
    BY <2>1, <2>3
<1> QED
  BY <1>1, <1>2

LEMMA RouteAndLoad ==
  ASSUME Counts(sent), NEW id \in ThreadIds, NEW routed \in BOOLEAN,
         NEW C, C = (sent (+) RouteEffect(id)) (+) Load(id, routed)
  PROVE  \E R : /\ BagAdds(sent, R, C)
                /\ \A r \in R : CallOK(r) /\ r.op \notin TurnOps
                /\ \E r \in R : Reloads(r)
<1> PICK B : B = sent (+) RouteEffect(id)
  OBVIOUS
<1>1. PICK R : BagAdds(sent, R, B) /\ \A r \in R : CallOK(r) /\ r.op \notin TurnOps
  BY RouteLoads
<1> PICK r : r = [Request EXCEPT !.id = id, !.routed = routed]
  OBVIOUS
<1>2. Load(id, routed) = SetToBag({r}) /\ CallOK(r) /\ Reloads(r) /\ r.op \notin TurnOps
  BY LoadIs
<1>3. Counts(B)
  BY <1>1 DEF BagAdds
<1>4. BagAdds(B, {r}, C)
  BY <1>2, <1>3, OneAdded
<1>5. BagAdds(sent, R \cup {r}, C)
  BY <1>1, <1>4, BothAdded
<1> QED
  BY <1>1, <1>2, <1>5
-----------------------------------------------------------------------------
(* What the page has, after an answer more or less.                        *)
LEMMA ShownStays ==
  ASSUME Following, UNCHANGED <<conversations, answers, selected, behind, error, sending>>,
         \A r \in DOMAIN sent : Reloads(r) => r \in DOMAIN sent'
  PROVE  Following'
<1>1. CASE Forewarned
  BY <1>1 DEF Following, Forewarned
<1>2. CASE Caught
  BY <1>2 DEF Following, Caught, Newest, InTime, IsCurrent, IsTurn
<1> QED
  BY <1>1, <1>2 DEF Following

(* The k-th answer is taken.                                               *)
LEMMA TakenFollows ==
  ASSUME AnswersOK, Following, NEW k \in DOMAIN answers, answers[k].ok,
         answers' = Taken(k), UNCHANGED conversations, sending' = sending,
         error => error' \/ \E r \in DOMAIN sent' : Reloads(r),
         DOMAIN sent \subseteq DOMAIN sent',
         behind' \/ (~answers[k].old /\ selected'.id = answers[k].id
                                    /\ selected'.row = answers[k].row)
  PROVE  Following'
<1> DEFINE n == Len(answers)
<1>1. /\ DOMAIN answers = 1..n /\ n \in Nat /\ k \in 1..n
      /\ DOMAIN answers' = 1..(n - 1)
      /\ \A j \in 1..(n - 1) :
           answers'[j] = IF j < k THEN [answers[j] EXCEPT !.old = TRUE] ELSE answers[j + 1]
  BY LeftAnswers DEF AnswersOK
<1>2. \A i \in DOMAIN answers : i # k => \E j \in 1..(n - 1) : i = From(j, k)
  BY LeftAnswers DEF AnswersOK
<1>3. ASSUME NEW j \in 1..(n - 1), j < k
      PROVE  /\ answers'[j].old /\ answers'[j].ok = answers[j].ok
             /\ answers'[j].request = answers[j].request
  <2> PICK a : a = answers[j]
    OBVIOUS
  <2>1. a \in Replies /\ j \in 1..n
    BY <1>1 DEF AnswersOK
  <2>2. answers'[j] = [a EXCEPT !.old = TRUE]
    BY <1>1, <1>3
  <2>3. /\ [a EXCEPT !.old = TRUE].old = TRUE /\ [a EXCEPT !.old = TRUE].ok = a.ok
        /\ [a EXCEPT !.old = TRUE].request = a.request
    BY <2>1 DEF Replies
  <2> QED
    BY <2>2, <2>3
<1>4. ASSUME NEW j \in 1..(n - 1), ~(j < k)
      PROVE  answers'[j] = answers[j + 1] /\ j + 1 \in 1..n
  BY <1>1, <1>4
<1> HIDE DEF n
<1>5. CASE Forewarned
  <2>1. ASSUME NEW i \in DOMAIN answers, ~answers[i].ok, Reloads(answers[i].request)
        PROVE  Forewarned'
    <3>1. PICK j \in 1..(n - 1) : i = From(j, k)
      BY <1>2, <2>1
    <3>2. answers'[j].ok = answers[i].ok /\ answers'[j].request = answers[i].request
      BY <1>3, <1>4, <3>1 DEF From
    <3> QED
      BY <1>1, <2>1, <3>2 DEF Forewarned
  <2> QED
    BY <1>5, <2>1 DEF Forewarned, Following
<1>6. CASE Caught
  <2>1. ASSUME NEW j \in 1..(n - 1)
        PROVE  InTime(j)' <=> ~(j < k) /\ InTime(j + 1)
    <3>1. CASE j < k
      BY <1>3, <3>1 DEF InTime
    <3>2. CASE ~(j < k)
      BY <1>4, <3>2 DEF InTime
    <3> QED
      BY <3>1, <3>2
  <2>2. ASSUME NEW i \in 1..n, i > k, InTime(i)
        PROVE  i - 1 \in 1..(n - 1) /\ InTime(i - 1)'
    <3>1. i - 1 \in 1..(n - 1) /\ ~(i - 1 < k) /\ (i - 1) + 1 = i
      BY <1>1, <2>2
    <3> QED
      BY <2>1, <2>2, <3>1
  <2>3. ASSUME NEW j \in 1..(n - 1), Newest(j)'
        PROVE  ~IsTurn(j)' /\ IsCurrent(answers[j].id, answers[j].row)'
    <3>1. InTime(j)' /\ \A i \in 1..(n - 1) : InTime(i)' => i <= j
      BY <1>1, <2>3 DEF Newest
    <3>2. ~(j < k) /\ InTime(j + 1) /\ answers'[j] = answers[j + 1] /\ j + 1 \in 1..n
      BY <1>4, <2>1, <3>1
    <3>3. ASSUME NEW i \in 1..n, InTime(i)
          PROVE  i <= j + 1
      <4>1. CASE i > k
        BY <1>1, <2>2, <3>1, <3>3, <4>1
      <4>2. CASE ~(i > k)
        BY <1>1, <3>2, <4>2
      <4> QED
        BY <4>1, <4>2
    <3>4. Newest(j + 1)
      BY <1>1, <3>2, <3>3 DEF Newest
    <3>5. ~IsTurn(j + 1) /\ IsCurrent(answers[j + 1].id, answers[j + 1].row)
      BY <1>1, <1>6, <3>2, <3>4 DEF Caught
    <3> QED
      BY <3>2, <3>5 DEF IsTurn, IsCurrent
  <2>4. ASSUME \A j \in 1..(n - 1) : ~InTime(j)', ~behind'
        PROVE  IsCurrent(selected.id, selected.row)'
    <3>1. InTime(k)
      BY <2>4 DEF InTime
    <3>2. ASSUME NEW i \in 1..n, InTime(i)
          PROVE  i <= k
      BY <1>1, <2>2, <2>4, <3>2
    <3>3. Newest(k)
      BY <1>1, <3>1, <3>2 DEF Newest
    <3>4. IsCurrent(answers[k].id, answers[k].row)
      BY <1>6, <3>3 DEF Caught
    <3> QED
      BY <2>4, <3>4 DEF IsCurrent
  <2> QED
    BY <1>1, <2>3, <2>4 DEF Caught, Following
<1> QED
  BY <1>5, <1>6 DEF Following

(* The k-th answer, that the page takes no heed of, is gone.               *)
LEMMA DroppedFollows ==
  ASSUME AnswersOK, Following, NEW k \in DOMAIN answers, ~answers[k].ok,
         ~Reloads(answers[k].request), answers' = Dropped(k),
         UNCHANGED <<conversations, selected, behind, error, sending, sent>>
  PROVE  Following'
<1> DEFINE n == Len(answers)
<1>1. /\ DOMAIN answers = 1..n /\ n \in Nat /\ k \in 1..n
      /\ DOMAIN answers' = 1..(n - 1)
      /\ \A j \in 1..(n - 1) : From(j, k) \in 1..n /\ answers'[j] = answers[From(j, k)]
      /\ \A i \in DOMAIN answers : i # k => \E j \in 1..(n - 1) : i = From(j, k)
  BY LeftAnswers DEF AnswersOK
<1> HIDE DEF n
<1>2. CASE Forewarned
  <2>1. ASSUME NEW i \in DOMAIN answers, ~answers[i].ok, Reloads(answers[i].request)
        PROVE  Forewarned'
    <3>1. PICK j \in 1..(n - 1) : i = From(j, k)
      BY <1>1, <2>1
    <3> QED
      BY <1>1, <2>1, <3>1 DEF Forewarned
  <2> QED
    BY <1>2, <2>1 DEF Forewarned, Following
<1>3. CASE Caught
  <2>1. ~InTime(k)
    BY DEF InTime
  <2>2. ASSUME NEW j \in 1..(n - 1)
        PROVE  InTime(j)' <=> InTime(From(j, k))
    BY <1>1 DEF InTime
  <2>3. ASSUME NEW j \in 1..(n - 1), Newest(j)'
        PROVE  ~IsTurn(j)' /\ IsCurrent(answers[j].id, answers[j].row)'
    <3>1. ASSUME NEW i \in 1..n, InTime(i)
          PROVE  i <= From(j, k)
      <4>1. PICK l \in 1..(n - 1) : i = From(l, k)
        BY <1>1, <2>1, <3>1
      <4>2. InTime(l)' /\ l <= j
        BY <1>1, <2>2, <2>3, <3>1, <4>1 DEF Newest
      <4> QED
        BY <1>1, <4>1, <4>2 DEF From
    <3>2. Newest(From(j, k))
      BY <1>1, <2>2, <2>3, <3>1 DEF Newest
    <3>3. /\ ~IsTurn(From(j, k))
          /\ IsCurrent(answers[From(j, k)].id, answers[From(j, k)].row)
      BY <1>1, <1>3, <3>2 DEF Caught
    <3> QED
      BY <1>1, <3>3 DEF IsTurn, IsCurrent
  <2>4. ASSUME \A j \in 1..(n - 1) : ~InTime(j)', ~behind'
        PROVE  IsCurrent(selected.id, selected.row)'
    <3>1. \A i \in 1..n : ~InTime(i)
      BY <1>1, <2>1, <2>2, <2>4
    <3> QED
      BY <1>1, <1>3, <2>4, <3>1 DEF Caught, IsCurrent
  <2> QED
    BY <1>1, <2>3, <2>4 DEF Caught, Following
<1> QED
  BY <1>2, <1>3 DEF Following

LEMMA AnswerAdded ==
  ASSUME answers \in Seq(Replies), NEW a \in Replies, answers' = Append(answers, a)
  PROVE  /\ answers' \in Seq(Replies) /\ Len(answers) \in Nat
         /\ DOMAIN answers = 1..Len(answers) /\ DOMAIN answers' = 1..(Len(answers) + 1)
         /\ answers'[Len(answers) + 1] = a
         /\ \A k \in 1..Len(answers) : answers'[k] = answers[k]
BY AppendProperties, LenProperties

(* The backend answers, in time and with what is on record now.            *)
LEMMA ServedFollows ==
  ASSUME AnswersOK, NEW a \in Replies, answers' = Append(answers, a),
         a.ok, ~a.old, a.request.op \notin TurnOps, IsCurrent(a.id, a.row)'
  PROVE  Following'
<1> PICK n : n = Len(answers)
  OBVIOUS
<1>1. /\ n \in Nat /\ DOMAIN answers' = 1..(n + 1) /\ answers'[n + 1] = a
  BY AnswerAdded DEF AnswersOK
<1>2. InTime(n + 1)'
  BY <1>1 DEF InTime
<1>3. ASSUME NEW k \in 1..(n + 1), Newest(k)'
      PROVE  k = n + 1
  BY <1>1, <1>2, <1>3 DEF Newest
<1>4. ~IsTurn(n + 1)' /\ IsCurrent(answers[n + 1].id, answers[n + 1].row)'
  BY <1>1 DEF IsTurn, TurnOps, IsCurrent
<1>5. n + 1 \in 1..(n + 1)
  BY <1>1
<1> QED
  BY <1>1, <1>2, <1>3, <1>4, <1>5 DEF Caught, Following

(* A request that the page loads after ends badly.                         *)
LEMMA FailureFollows ==
  ASSUME AnswersOK, NEW a \in Replies, answers' = Append(answers, a),
         ~a.ok, Reloads(a.request)
  PROVE  Following'
<1> PICK n : n = Len(answers)
  OBVIOUS
<1>1. /\ n \in Nat /\ DOMAIN answers' = 1..(n + 1) /\ answers'[n + 1] = a
  BY AnswerAdded DEF AnswersOK
<1>2. n + 1 \in DOMAIN answers'
  BY <1>1
<1> QED
  BY <1>1, <1>2 DEF Forewarned, Following

(* Another one does.                                                       *)
LEMMA OtherFailureFollows ==
  ASSUME AnswersOK, Following, NEW a \in Replies, answers' = Append(answers, a), ~a.ok,
         UNCHANGED <<conversations, selected, behind, error, sending>>,
         \A r \in DOMAIN sent : Reloads(r) => r \in DOMAIN sent'
  PROVE  Following'
<1> PICK n : n = Len(answers)
  OBVIOUS
<1>1. /\ n \in Nat /\ DOMAIN answers = 1..n /\ DOMAIN answers' = 1..(n + 1)
      /\ answers'[n + 1] = a /\ \A k \in 1..n : answers'[k] = answers[k]
  BY AnswerAdded DEF AnswersOK
<1>2. 1..(n + 1) = 1..n \cup {n + 1}
  BY <1>1
<1>3. CASE Forewarned
  BY <1>1, <1>2, <1>3 DEF Forewarned, Following
<1>4. CASE Caught
  <2>1. ~InTime(n + 1)' /\ \A k \in 1..n : InTime(k)' <=> InTime(k)
    BY <1>1 DEF InTime
  <2>2. ASSUME NEW k \in 1..(n + 1), Newest(k)'
        PROVE  ~IsTurn(k)' /\ IsCurrent(answers[k].id, answers[k].row)'
    <3>1. k \in 1..n
      BY <1>2, <2>1, <2>2 DEF Newest
    <3>2. Newest(k)
      BY <1>1, <1>2, <2>1, <2>2, <3>1 DEF Newest
    <3> QED
      BY <1>1, <1>4, <3>1, <3>2 DEF Caught, IsTurn, IsCurrent
  <2>3. ASSUME \A k \in 1..(n + 1) : ~InTime(k)', ~behind'
        PROVE  IsCurrent(selected.id, selected.row)'
    BY <1>1, <1>2, <1>4, <2>1, <2>3 DEF Caught, IsCurrent
  <2> QED
    BY <1>1, <2>2, <2>3 DEF Caught, Following
<1> QED
  BY <1>3, <1>4 DEF Following

(* Whatever was to come is old, and the page is behind.                    *)
LEMMA OutdatedFollows ==
  ASSUME behind', \A k \in DOMAIN answers' : answers'[k].ok => answers'[k].old
  PROVE  Following'
BY DEF Following, Caught, Newest, InTime

(* An answer is lost after the backend has given it.                       *)
LEMMA LostFollows ==
  ASSUME AnswersOK, Following, NEW k \in DOMAIN answers,
         answers' = [answers EXCEPT ![k].ok = FALSE],
         Reloads(answers[k].request) \/ IsTurn(k),
         UNCHANGED <<conversations, selected, behind, error, sending, sent>>
  PROVE  Following'
<1> PICK a, b : a = answers[k] /\ b = [a EXCEPT !.ok = FALSE]
  OBVIOUS
<1>1. /\ DOMAIN answers = 1..Len(answers) /\ Len(answers) \in Nat /\ a \in Replies
  BY LenProperties DEF AnswersOK
<1>2. /\ b.ok = FALSE /\ b.request = a.request
  BY <1>1 DEF Replies
<1>3. /\ DOMAIN answers' = DOMAIN answers /\ answers'[k] = b
      /\ \A j \in DOMAIN answers : j # k => answers'[j] = answers[j]
  OBVIOUS
<1>4. CASE Reloads(a.request)
  BY <1>2, <1>3, <1>4 DEF Forewarned, Following
<1>5. CASE Forewarned
  BY <1>2, <1>3, <1>5 DEF Forewarned, Following
<1>6. CASE Caught /\ IsTurn(k)
  <2>1. ~InTime(k)' /\ \A j \in DOMAIN answers : j # k => (InTime(j)' <=> InTime(j))
    BY <1>2, <1>3 DEF InTime
  <2>2. ~Newest(k)
    BY <1>6 DEF Caught
  <2>3. InTime(k) => \E i \in DOMAIN answers : InTime(i) /\ ~(i <= k)
    BY <2>2 DEF Newest
  <2>4. ASSUME NEW j \in DOMAIN answers, Newest(j)'
        PROVE  ~IsTurn(j)' /\ IsCurrent(answers[j].id, answers[j].row)'
    <3>1. j # k /\ InTime(j)
      BY <2>1, <2>4 DEF Newest
    <3>2. ASSUME NEW i \in DOMAIN answers, InTime(i)
          PROVE  i <= j
      <4>1. CASE i # k
        BY <1>3, <2>1, <2>4, <3>2, <4>1 DEF Newest
      <4>2. CASE i = k
        <5>1. PICK l \in DOMAIN answers : InTime(l) /\ ~(l <= k)
          BY <2>3, <3>2, <4>2
        <5>2. l # k /\ l <= j
          BY <1>1, <1>3, <2>1, <2>4, <5>1 DEF Newest
        <5> QED
          BY <1>1, <4>2, <5>1, <5>2
      <4> QED
        BY <4>1, <4>2
    <3>3. Newest(j)
      BY <3>1, <3>2 DEF Newest
    <3> QED
      BY <1>3, <1>6, <3>1, <3>3 DEF Caught, IsTurn, IsCurrent
  <2>5. ASSUME \A j \in DOMAIN answers : ~InTime(j)', ~behind'
        PROVE  IsCurrent(selected.id, selected.row)'
    <3>1. ~InTime(k)
      BY <1>1, <2>1, <2>3, <2>5
    <3>2. \A j \in DOMAIN answers : ~InTime(j)
      BY <2>1, <2>5, <3>1
    <3> QED
      BY <1>6, <2>5, <3>2 DEF Caught, IsCurrent
  <2> QED
    BY <1>3, <2>4, <2>5 DEF Caught, Following
<1> QED
  BY <1>4, <1>5, <1>6 DEF Following
-----------------------------------------------------------------------------
(* What the page names exists, as long as nothing is deleted.              *)
AskInv == Budgeted /\ Asking /\ NetTyped /\ Following

IdsGrow == ThreadIds \subseteq ThreadIds'

LEMMA StoreRests ==
  ASSUME Budgeted, UNCHANGED storeVars
  PROVE  Budgeted' /\ MessagesStay /\ IdsGrow
<1>1. UNCHANGED conversations /\ UNCHANGED turn
  BY DEF storeVars
<1>2. MessagesStay
  BY <1>1, MessagesUntouched
<1>3. Existing' = Existing
  BY <1>1 DEF Existing
<1>4. StoreTyped'
  BY <1>1, <1>2, <1>3, SumsStay DEF Budgeted, StoreTyped
<1>5. Spent'
  BY <1>1, <1>2, SumsStay DEF Budgeted, Spent
<1>6. BudgetKept'
  BY <1>2, SumsStay, BudgetKeptIs DEF Budgeted, BudgetKept, Raced
<1> QED
  BY <1>2, <1>3, <1>4, <1>5, <1>6 DEF Budgeted, IdsGrow, ThreadIds

LEMMA CallStays ==
  ASSUME IdsGrow, NEW r, CallOK(r)
  PROVE  CallOK(r)'
BY DEF CallOK, IdsGrow

LEMMA ReplyStays ==
  ASSUME IdsGrow, NEW a, ReplyOK(a)
  PROVE  ReplyOK(a)'
BY DEF ReplyOK, IdsGrow

LEMMA SentStays ==
  ASSUME SentOK, IdsGrow, NEW R, DOMAIN sent' \subseteq DOMAIN sent \cup R,
         \A r \in R : CallOK(r)
  PROVE  SentOK'
<1>1. ASSUME NEW r \in DOMAIN sent'
      PROVE  CallOK(r)'
  BY CallStays DEF SentOK
<1> QED
  BY <1>1 DEF SentOK

LEMMA SentFewer ==
  ASSUME SentOK, IdsGrow, DOMAIN sent' \subseteq DOMAIN sent
  PROVE  SentOK'
<1>1. ASSUME NEW r \in DOMAIN sent'
      PROVE  CallOK(r)'
  BY CallStays DEF SentOK
<1> QED
  BY <1>1 DEF SentOK

LEMMA AnswersStay ==
  ASSUME AnswersOK, IdsGrow, answers' = answers
  PROVE  AnswersOK'
<1>1. ASSUME NEW k \in DOMAIN answers
      PROVE  ReplyOK(answers[k])'
  <2> PICK a : a = answers[k]
    OBVIOUS
  <2>1. ReplyOK(a) /\ answers'[k] = a
    BY DEF AnswersOK
  <2>2. ReplyOK(a)'
    BY <2>1, ReplyStays
  <2> QED
    BY <2>1, <2>2
<1> QED
  BY <1>1 DEF AnswersOK

LEMMA AnswerComes ==
  ASSUME AnswersOK, IdsGrow, NEW a, ReplyOK(a)', answers' = Append(answers, a)
  PROVE  AnswersOK' /\ a \in Replies
<1>1. a \in Replies
  BY DEF ReplyOK
<1> PICK n : n = Len(answers)
  OBVIOUS
<1>2. /\ answers' \in Seq(Replies) /\ n \in Nat /\ DOMAIN answers = 1..n
      /\ DOMAIN answers' = 1..(n + 1) /\ answers'[n + 1] = a
      /\ \A k \in 1..n : answers'[k] = answers[k]
  BY <1>1, AnswerAdded DEF AnswersOK
<1>3. ASSUME NEW k \in 1..(n + 1)
      PROVE  ReplyOK(answers[k])'
  <2>1. CASE k = n + 1
    BY <1>2, <2>1
  <2>2. CASE k # n + 1
    <3> PICK b : b = answers[k]
      OBVIOUS
    <3>1. k \in 1..n /\ answers'[k] = b
      BY <1>2, <2>2
    <3>2. ReplyOK(b)
      BY <1>2, <3>1 DEF AnswersOK
    <3>3. ReplyOK(b)'
      BY <3>2, ReplyStays
    <3> QED
      BY <3>1, <3>3
  <2> QED
    BY <2>1, <2>2
<1> QED
  BY <1>1, <1>2, <1>3 DEF AnswersOK

(* An answer that is old, or lost, is still an answer.                     *)
LEMMA OldReply ==
  ASSUME NEW a, ReplyOK(a)
  PROVE  ReplyOK([a EXCEPT !.old = TRUE]) /\ ReplyOK([a EXCEPT !.ok = FALSE])
<1> PICK b, c : b = [a EXCEPT !.old = TRUE] /\ c = [a EXCEPT !.ok = FALSE]
  OBVIOUS
<1>1. a \in Replies
  BY DEF ReplyOK
<1>2. /\ b \in Replies /\ b.id = a.id /\ b.row = a.row /\ b.ok = a.ok
      /\ b.request = a.request
  BY <1>1 DEF Replies
<1>3. /\ c \in Replies /\ c.id = a.id /\ c.row = a.row /\ c.ok = FALSE
      /\ c.request = a.request
  BY <1>1 DEF Replies
<1>4. ReplyOK(b)
  BY <1>2 DEF ReplyOK
<1>5. ReplyOK(c)
  BY <1>3 DEF ReplyOK
<1> QED
  BY <1>4, <1>5

LEMMA AnswersLeft ==
  ASSUME AnswersOK, NEW k \in DOMAIN answers, answers' \in {Taken(k), Dropped(k)},
         UNCHANGED conversations
  PROVE  AnswersOK'
<1> PICK n : n = Len(answers)
  OBVIOUS
<1>1. /\ answers' \in Seq(Replies) /\ DOMAIN answers' = 1..(n - 1)
      /\ \A j \in 1..(n - 1) :
           /\ From(j, k) \in DOMAIN answers
           /\ \/ answers'[j] = answers[From(j, k)]
              \/ answers'[j] = [answers[From(j, k)] EXCEPT !.old = TRUE]
  <2>1. /\ Dropped(k) \in Seq(Replies) /\ Taken(k) \in Seq(Replies)
        /\ DOMAIN Dropped(k) = 1..(n - 1) /\ DOMAIN Taken(k) = 1..(n - 1)
        /\ \A j \in 1..(n - 1) :
             /\ From(j, k) \in DOMAIN answers
             /\ Dropped(k)[j] = answers[From(j, k)]
             /\ Taken(k)[j] = IF j < k THEN [answers[j] EXCEPT !.old = TRUE]
                              ELSE answers[j + 1]
    BY LeftAnswers DEF AnswersOK
  <2>2. ASSUME NEW j \in 1..(n - 1)
        PROVE  \/ answers'[j] = answers[From(j, k)]
               \/ answers'[j] = [answers[From(j, k)] EXCEPT !.old = TRUE]
    <3>1. CASE answers' = Dropped(k)
      BY <2>1, <3>1
    <3>2. CASE answers' = Taken(k) /\ j < k
      <4>1. From(j, k) = j
        BY <3>2 DEF From
      <4> QED
        BY <2>1, <3>2, <4>1
    <3>3. CASE answers' = Taken(k) /\ ~(j < k)
      <4>1. From(j, k) = j + 1
        BY <3>3 DEF From
      <4> QED
        BY <2>1, <3>3, <4>1
    <3> QED
      BY <3>1, <3>2, <3>3
  <2>3. answers' \in Seq(Replies) /\ DOMAIN answers' = 1..(n - 1)
    BY <2>1
  <2> QED
    BY <2>1, <2>2, <2>3
<1>2. ASSUME NEW a, ReplyOK(a)
      PROVE  ReplyOK(a)'
  BY <1>2 DEF ReplyOK, ThreadIds, Existing
<1>3. ASSUME NEW j \in 1..(n - 1)
      PROVE  ReplyOK(answers[j])'
  <2> PICK a, b : a = answers[From(j, k)] /\ b = answers'[j]
    OBVIOUS
  <2>1. ReplyOK(a)
    BY <1>1 DEF AnswersOK
  <2>2. ReplyOK(b)
    <3>1. b = a \/ b = [a EXCEPT !.old = TRUE]
      BY <1>1
    <3>2. ReplyOK([a EXCEPT !.old = TRUE])
      BY <2>1, OldReply
    <3> QED
      BY <2>1, <3>1, <3>2
  <2> QED
    BY <1>2, <2>2
<1> QED
  BY <1>1, <1>3 DEF AnswersOK

LEMMA AnswersOutdated ==
  ASSUME AnswersOK, IdsGrow, answers' = Outdated
  PROVE  AnswersOK' /\ \A k \in DOMAIN answers' : answers'[k].old
<1>1. /\ Outdated \in Seq(Replies) /\ DOMAIN Outdated = DOMAIN answers
      /\ \A k \in DOMAIN answers : Outdated[k].old
  BY OutdatedAnswers DEF AnswersOK
<1>2. ASSUME NEW k \in DOMAIN answers
      PROVE  ReplyOK(answers[k])'
  <2> PICK a, b : a = answers[k] /\ b = [a EXCEPT !.old = TRUE]
    OBVIOUS
  <2>1. ReplyOK(a) /\ answers'[k] = b
    BY DEF AnswersOK, Outdated
  <2>2. ReplyOK(b)
    BY <2>1, OldReply
  <2>3. ReplyOK(b)'
    BY <2>2, ReplyStays
  <2> QED
    BY <2>1, <2>3
<1> QED
  BY <1>1, <1>2 DEF AnswersOK

LEMMA PageStaysOK ==
  ASSUME AskPageOK, IdsGrow, sending' \in {sending, NoSend}, error' \in BOOLEAN,
         behind' \in BOOLEAN, UNCHANGED selected
  PROVE  AskPageOK'
<1>1. NoSend \in Sends /\ NoSend.of = None
  BY DEF NoSend, Sends
<1>2. None \in ThreadIds'
  BY DEF ThreadIds
<1> QED
  BY <1>1, <1>2 DEF AskPageOK, IdsGrow

(* An answer is shown.                                                     *)
LEMMA PageShowsOK ==
  ASSUME AskPageOK, AnswersOK, IdsGrow, NEW k \in DOMAIN answers, answers[k].ok, Show(k),
         sending' \in {sending, NoSend}, error' \in BOOLEAN
  PROVE  AskPageOK'
<1> PICK a, s : a = answers[k] /\ s = selected'
  OBVIOUS
<1>1. s = [id |-> a.id, row |-> a.row] /\ behind' = a.old
  BY DEF Show
<1>2. ReplyOK(a) /\ a.ok
  BY DEF AnswersOK
<1>3. /\ a.id \in ThreadIds /\ a.id \in Conversations \cup {None} /\ a.row \in ThreadRows
      /\ a.old \in BOOLEAN
  BY <1>2 DEF ReplyOK, Replies
<1>4. s \in Shown /\ s.id = a.id
  BY <1>1, <1>3 DEF Shown
<1>5. s.id = None => s = NoThread
  BY <1>1, <1>2, <1>4 DEF ReplyOK, NoThread
<1>6. NoSend \in Sends /\ NoSend.of = None /\ None \in ThreadIds
  BY DEF NoSend, Sends, ThreadIds
<1>7. s.id \in ThreadIds' /\ sending'.of \in ThreadIds' /\ sending' \in Sends
  BY <1>3, <1>4, <1>6 DEF IdsGrow, AskPageOK
<1> QED
  BY <1>1, <1>3, <1>4, <1>5, <1>7 DEF AskPageOK
-----------------------------------------------------------------------------
(* What the user does.                                                     *)

(* The page makes requests, one of which it loads after, and changes       *)
(* nothing that it shows.                                                  *)
LEMMA PageAsks ==
  ASSUME AskInv, UNCHANGED <<storeVars, selected, answers, asked, behind, dropped>>,
         sending' \in {sending, NoSend}, error' \in BOOLEAN,
         NEW R, Calling(R), (\E r \in R : Reloads(r)) \/ error'
  PROVE  AskInv'
<1>1. Budgeted' /\ MessagesStay /\ IdsGrow
  BY StoreRests DEF AskInv
<1>2. TurnsFewer /\ Counts(sent')
  BY CallingIsFewer DEF TurnsFewer
<1>3. Asking'
  BY <1>1, <1>2, AskingFewer DEF AskInv, Budgeted, storeVars
<1>4. SentOK'
  BY <1>1, SentStays DEF AskInv, NetTyped, Calling, BagAdds
<1>5. AnswersOK' /\ AskPageOK'
  BY <1>1, AnswersStay, PageStaysOK DEF AskInv, NetTyped, AskPageOK
<1>6. Following'
  BY DEF Following, Forewarned, Calling, BagAdds
<1> QED
  BY <1>1, <1>3, <1>4, <1>5, <1>6 DEF AskInv, NetTyped

LEMMA SentCounts ==
  ASSUME AskInv
  PROVE  Counts(sent)
BY DEF AskInv, Asking, Counts

LEMMA NavigateKeeps ==
  ASSUME AskInv, NEW id \in ThreadIds, Navigate(id)
  PROVE  AskInv'
<1> PICK to, routed : to = (IF id = None THEN selected.id ELSE id) /\ routed = (id # None)
  OBVIOUS
<1>1. to \in ThreadIds /\ routed \in BOOLEAN
  BY DEF AskInv, NetTyped, AskPageOK
<1>2. sent' = sent (+) Load(to, routed)
  BY DEF Navigate
<1>3. PICK r : Calling({r}) /\ Reloads(r)
  BY <1>1, <1>2, SentCounts, Loading
<1>4. \E x \in {r} : Reloads(x)
  BY <1>3
<1>5. /\ UNCHANGED <<storeVars, selected, answers, asked, behind, dropped>>
      /\ sending' = sending /\ error' = FALSE
  BY DEF Navigate
<1> QED
  BY <1>3, <1>4, <1>5, PageAsks

LEMMA StartKeeps ==
  ASSUME AskInv, StartConversation
  PROVE  AskInv'
<1> PICK r, routed : /\ r = [Request EXCEPT !.op = "create", !.routed = routed]
                     /\ routed = (route # None)
  OBVIOUS
<1>1. CallOK(r) /\ Reloads(r) /\ r.op \notin TurnOps
  BY CreateIs
<1>2. sent' = sent (+) SetToBag({r})
  BY DEF StartConversation
<1>3. Calling({r})
  BY <1>1, <1>2, SentCounts, OneAdded DEF Calling
<1>4. \E x \in {r} : Reloads(x)
  BY <1>1
<1>5. /\ UNCHANGED <<storeVars, selected, answers, asked, behind, dropped>>
      /\ sending' = sending /\ error' = FALSE
  BY DEF StartConversation
<1> QED
  BY <1>3, <1>4, <1>5, PageAsks

LEMMA ChangeKeeps ==
  ASSUME AskInv, NEW change \in {"rename", "archive", "restore"}, Change(change)
  PROVE  AskInv'
<1> PICK id, routed : id = selected.id /\ routed = (route # None)
  OBVIOUS
<1> PICK r : r = PatchOf(id, change, routed)
  OBVIOUS
<1>1. id \in Existing
  BY DEF AskInv, NetTyped, AskPageOK, Change, ThreadIds
<1>2. change \in PatchKinds /\ change # "title" /\ routed \in BOOLEAN
  BY DEF PatchKinds
<1>3. /\ Patch(id, change, routed) = SetToBag({r})
      /\ CallOK(r) /\ Reloads(r) /\ r.op \notin TurnOps
  BY <1>1, <1>2, PatchIs
<1>4. sent' = sent (+) SetToBag({r})
  BY <1>3 DEF Change
<1>5. Calling({r})
  BY <1>3, <1>4, SentCounts, OneAdded DEF Calling
<1>6. \E x \in {r} : Reloads(x)
  BY <1>3
<1>7. /\ UNCHANGED <<storeVars, selected, answers, asked, behind, dropped>>
      /\ sending' = sending /\ error' = error /\ error \in BOOLEAN
  BY DEF Change, AskInv, NetTyped, AskPageOK
<1> QED
  BY <1>5, <1>6, <1>7, PageAsks

LEMMA StopKeeps ==
  ASSUME AskInv, Stop
  PROVE  AskInv'
<1>1. BagAdds(sent, {}, sent')
  BY SentCounts DEF BagAdds, Stop, netVars
<1>2. Calling({})
  BY <1>1 DEF Calling
<1>3. /\ UNCHANGED <<storeVars, selected, answers, asked, behind, dropped>>
      /\ sending' = NoSend /\ error' = TRUE
  BY DEF Stop, netVars
<1> QED
  BY <1>2, <1>3, PageAsks

(* The question that is sent, on the way that is named.                    *)
LEMMA QuestionSent ==
  ASSUME AskInv, sending' \in Sends, sending'.via \in TurnOps, sending'.of \in ThreadIds,
         sending'.ask \in Asks, sending'.ask <= asked', asked' \in Nat, asked <= asked',
         sending'.via = "stream" => sending'.ask \notin dropped',
         sending'.via = "ask" => sending'.ask \in dropped',
         sent' = sent (+) AskRequest(sending'),
         ~ Unsettled(sending'.ask, sending'.via),
         dropped' \in {dropped, dropped \cup {sending'.ask}},
         Askings(sending'.ask) < IF sending'.ask \in dropped' THEN 2 ELSE 1,
         UNCHANGED <<storeVars, selected, behind>>, error' \in BOOLEAN, AnswersOK'
  PROVE  AskInv'
<1> PICK send : send = sending'
  OBVIOUS
<1> PICK r : r = [Request EXCEPT !.op = send.via, !.id = send.of, !.ask = send.ask]
  OBVIOUS
<1>1. /\ AskRequest(send) = SetToBag({r}) /\ CallOK(r)
      /\ r.op = send.via /\ r.ask = send.ask
  BY AskRequestIs
<1>2. BagAdds(sent, {r}, sent') /\ (r \notin DOMAIN sent => sent'[r] = 1)
  BY <1>1, SentCounts, OneAdded
<1>3. Budgeted' /\ MessagesStay /\ IdsGrow /\ UNCHANGED turn
  BY StoreRests DEF AskInv, storeVars
<1>4. Asking'
  BY <1>1, <1>2, <1>3, AskingGrows DEF AskInv, Budgeted
<1>5. SentOK'
  BY <1>1, <1>2, <1>3, SentStays DEF AskInv, NetTyped, BagAdds
<1>6. AskPageOK'
  BY <1>3 DEF AskInv, NetTyped, AskPageOK, IdsGrow
<1>7. sending' # NoSend
  BY DEF NoSend, TurnOps
<1>8. Following'
  BY <1>7 DEF Following, Forewarned
<1> QED
  BY <1>3, <1>4, <1>5, <1>6, <1>8 DEF AskInv, NetTyped

LEMMA SendKeeps ==
  ASSUME AskInv, NEW resend \in BOOLEAN, Send(resend)
  PROVE  AskInv'
<1> PICK n, of, routed : n = asked + 1 /\ of = CurrentId /\ routed = (route # None)
  OBVIOUS
<1>1. /\ n \in Asks /\ asked' = n /\ sent' = sent (+) AskRequest(sending')
      /\ sending' = [ask |-> n, of |-> of, routed |-> routed, via |-> "stream"]
      /\ error' = FALSE /\ dropped' = dropped
      /\ UNCHANGED <<storeVars, selected, behind, answers>>
  BY DEF Send
<1>2. asked \in Nat /\ n \in Nat /\ asked <= n /\ n > asked
  BY <1>1 DEF AskInv, Asking
<1>3. of \in ThreadIds /\ of \in Conversations \cup {None} /\ routed \in BOOLEAN
  BY DEF CurrentId, AskInv, NetTyped, AskPageOK, ThreadIds, Existing
<1>4. /\ sending' \in Sends /\ sending'.via = "stream" /\ sending'.ask = n /\ sending'.of = of
      /\ "stream" \in TurnOps
  BY <1>1, <1>3 DEF Sends, TurnOps
<1>5. AskOK(n)
  BY <1>1 DEF AskInv, Asking
<1>6. Askings(n) = 0 /\ n \notin dropped /\ TimesAsked(n) \in Nat
  BY <1>2, <1>5, TimesAreNat DEF AskOK, AskInv, Budgeted, StoreTyped
<1>7. ~ Unsettled(n, "stream")
  BY <1>6 DEF Askings
<1>8. IdsGrow /\ AnswersOK'
  BY <1>1, StoreRests, AnswersStay DEF AskInv, NetTyped
<1>9. /\ sending'.via \in TurnOps /\ sending'.of \in ThreadIds /\ sending'.ask \in Asks
      /\ sending'.ask <= asked' /\ asked' \in Nat /\ asked <= asked'
      /\ sending'.via = "stream" => sending'.ask \notin dropped'
      /\ error' \in BOOLEAN
  <2>1. sending'.via = "stream" /\ sending'.ask = n /\ sending'.of = of /\ "stream" \in TurnOps
    BY <1>4
  <2>2. n \in Asks /\ asked' = n /\ n \in Nat /\ asked <= n
    BY <1>1, <1>2
  <2>3. n \notin dropped' /\ error' \in BOOLEAN
    BY <1>1, <1>6
  <2>4. n <= n
    BY <2>2
  <2> QED
    BY <1>3, <2>1, <2>2, <2>3, <2>4
<1>10. sending'.via = "ask" => sending'.ask \in dropped'
  BY <1>4
<1>11. /\ ~ Unsettled(sending'.ask, sending'.via)
       /\ Askings(sending'.ask) < IF sending'.ask \in dropped' THEN 2 ELSE 1
  BY <1>4, <1>6, <1>7
<1>12. /\ dropped' \in {dropped, dropped \cup {sending'.ask}}
       /\ UNCHANGED <<storeVars, selected, behind>>
  BY <1>1
<1> QED
  BY <1>1, <1>4, <1>8, <1>9, <1>10, <1>11, <1>12, QuestionSent

(* The stream fails: the question is sent on the other way, or the page    *)
(* shows that it failed.                                                   *)
LEMMA FallBackKeeps ==
  ASSUME AskInv, FallBack, sending # NoSend, UNCHANGED <<storeVars, selected, behind, asked>>,
         AnswersOK'
  PROVE  AskInv'
<1>1. CASE sending.via = "stream"
  <2> PICK a : a = sending.ask
    OBVIOUS
  <2>1. /\ sending' = [sending EXCEPT !.via = "ask"] /\ dropped' = dropped \cup {a}
        /\ sent' = sent (+) AskRequest(sending') /\ error' = error
    BY <1>1 DEF FallBack
  <2>2. /\ sending \in Sends /\ sending.of \in ThreadIds /\ error \in BOOLEAN
        /\ a \in Asks /\ a <= asked /\ a \notin dropped /\ asked \in Nat /\ AskOK(a)
    BY <1>1 DEF AskInv, NetTyped, AskPageOK, Asking
  <2>3. /\ sending' \in Sends /\ sending'.via = "ask" /\ sending'.ask = a
        /\ sending'.of = sending.of /\ "ask" \in TurnOps
    BY <2>1, <2>2 DEF Sends, TurnOps
  <2>4. ~ Unsettled(a, "ask") /\ Askings(a) <= 1 /\ Askings(a) \in Nat
    <3>1. TimesAsked(a) \in Nat
      BY TimesAreNat DEF AskInv, Budgeted, StoreTyped
    <3> QED
      BY <2>2, <3>1 DEF AskOK, Askings
  <2>5. asked <= asked' /\ asked' \in Nat /\ a <= asked'
    BY <2>2
  <2>6. /\ sending'.via \in TurnOps /\ sending'.of \in ThreadIds /\ sending'.ask \in Asks
        /\ sending'.ask <= asked' /\ asked' \in Nat /\ asked <= asked'
        /\ sending'.via = "stream" => sending'.ask \notin dropped'
        /\ sending'.via = "ask" => sending'.ask \in dropped'
        /\ error' \in BOOLEAN
    BY <2>1, <2>2, <2>3, <2>5
  <2>7. /\ ~ Unsettled(sending'.ask, sending'.via)
        /\ Askings(sending'.ask) < IF sending'.ask \in dropped' THEN 2 ELSE 1
    BY <2>1, <2>3, <2>4
  <2>8. dropped' \in {dropped, dropped \cup {sending'.ask}}
    BY <2>1, <2>3
  <2> QED
    BY <2>1, <2>3, <2>6, <2>7, <2>8, QuestionSent
<1>2. CASE sending.via # "stream"
  <2>1. /\ sending' = NoSend /\ error' = TRUE
        /\ UNCHANGED <<storeVars, selected, asked, behind, dropped, sent>>
    BY <1>2 DEF FallBack
  <2>2. Budgeted' /\ MessagesStay /\ IdsGrow
    BY <2>1, StoreRests DEF AskInv
  <2>3. TurnsFewer
    BY <2>1, SentCounts DEF TurnsFewer, Counts
  <2>4. Asking'
    BY <2>1, <2>2, <2>3, AskingFewer DEF AskInv, Budgeted, storeVars
  <2>5. SentOK'
    BY <2>1, <2>2, SentFewer DEF AskInv, NetTyped
  <2>6. AskPageOK'
    <3>1. AskPageOK /\ behind' \in BOOLEAN /\ error' \in BOOLEAN
      BY <2>1 DEF AskInv, NetTyped, AskPageOK
    <3> QED
      BY <2>1, <2>2, <3>1, PageStaysOK
  <2> QED
    BY <2>1, <2>2, <2>4, <2>5, <2>6 DEF AskInv, NetTyped, Following, Forewarned
<1> QED
  BY <1>1, <1>2

LEMMA DropKeeps ==
  ASSUME AskInv, StreamDropped
  PROVE  AskInv'
<1>1. /\ FallBack /\ sending.via = "stream"
      /\ UNCHANGED <<storeVars, selected, behind, asked, answers>>
  BY DEF StreamDropped
<1>2. sending # NoSend
  BY <1>1 DEF NoSend
<1>3. AnswersOK'
  BY <1>1, StoreRests, AnswersStay DEF AskInv, NetTyped
<1> QED
  BY <1>1, <1>2, <1>3, FallBackKeeps
-----------------------------------------------------------------------------
(* What the backend does.                                                  *)

(* A request is taken from the way.                                        *)
LEMMA RequestTaken ==
  ASSUME AskInv, NEW r \in BagToSet(sent), Take(r)
  PROVE  /\ BagTakes(sent, r, sent') /\ DOMAIN sent' \subseteq DOMAIN sent
         /\ \A q \in DOMAIN sent : q # r => q \in DOMAIN sent'
         /\ CallOK(r)
         /\ r.op \notin TurnOps => TurnsFewer
<1>1. r \in DOMAIN sent
  BY DEF BagToSet
<1>2. BagTakes(sent, r, sent')
  BY <1>1, SentCounts, OneTaken DEF Take
<1>3. CallOK(r)
  BY <1>1 DEF AskInv, NetTyped, SentOK
<1>4. r.op \notin TurnOps => TurnsFewer
  BY <1>2 DEF BagTakes, TurnsFewer
<1> QED
  BY <1>2, <1>3, <1>4 DEF BagTakes

LEMMA NoRowIs == NoRow \in ThreadRows
<1>1. <<>> \in Seq(Messages)
  OBVIOUS
<1> QED
  BY <1>1 DEF NoRow, ThreadRows, Statuses, Titles

(* The page is told something, and nothing but the store changes else.     *)
LEMMA AnswerGiven ==
  ASSUME AskInv, Budgeted', Asking', IdsGrow, NEW a, ReplyOK(a)', Reply(a),
         DOMAIN sent' \subseteq DOMAIN sent,
         UNCHANGED <<selected, sending, error, behind>>, Following'
  PROVE  AskInv'
<1>1. SentOK'
  BY SentFewer DEF AskInv, NetTyped
<1>2. AnswersOK'
  BY AnswerComes DEF AskInv, NetTyped, Reply
<1>3. AskPageOK'
  BY PageStaysOK DEF AskInv, NetTyped, AskPageOK
<1> QED
  BY <1>1, <1>2, <1>3 DEF AskInv, NetTyped

LEMMA RequestEnds ==
  ASSUME AskInv, NEW r \in BagToSet(sent), Take(r), r.op \notin TurnOps,
         MessagesStay, UNCHANGED <<turn, asked, dropped, sending>>
  PROVE  Asking'
<1>1. TurnsFewer
  BY RequestTaken
<1> QED
  BY <1>1, AskingFewer DEF AskInv, Budgeted

LEMMA ServeLoadKeeps ==
  ASSUME AskInv, NEW r \in BagToSet(sent), ServeLoad(r)
  PROVE  AskInv'
<1>1. /\ Take(r) /\ r.op = "load"
      /\ UNCHANGED <<storeVars, pageVars, countVars, behind, dropped>>
  BY DEF ServeLoad
<1>2. /\ UNCHANGED <<storeVars, conversations, turn, asked, dropped, selected, sending, error,
                     behind>>
  BY <1>1 DEF pageVars, countVars, storeVars
<1>3. /\ DOMAIN sent' \subseteq DOMAIN sent /\ CallOK(r) /\ r.op \notin TurnOps /\ r \in Calls
  BY <1>1, RequestTaken DEF TurnOps, CallOK
<1>4. PICK id \in Preferred(r.id) :
        Reply(Answer(r, TRUE, id, IF id = None THEN NoRow ELSE conversations[id]))
  BY DEF ServeLoad
<1> PICK row : row = IF id = None THEN NoRow ELSE conversations[id]
  OBVIOUS
<1> PICK a : a = Answer(r, TRUE, id, row)
  OBVIOUS
<1>5. id \in ThreadIds /\ id \in Conversations \cup {None}
  BY <1>3 DEF CallOK, Preferred, ThreadIds, WithStatus, Existing
<1>6. row \in ThreadRows
  BY <1>5, NoRowIs DEF AskInv, Budgeted, StoreTyped
<1>7. /\ a \in Replies /\ a.request = r /\ a.ok /\ a.id = id /\ a.row = row /\ ~a.old
  BY <1>3, <1>5, <1>6 DEF Answer, Replies
<1>8. Budgeted' /\ MessagesStay /\ IdsGrow
  BY <1>2, StoreRests DEF AskInv
<1>9. Asking'
  BY <1>1, <1>2, <1>3, <1>8, RequestEnds
<1>10. ReplyOK(a)
  BY <1>1, <1>3, <1>5, <1>7 DEF ReplyOK, CallOK, TurnOps
<1>11. ReplyOK(a)'
  BY <1>8, <1>10, ReplyStays
<1>12. Reply(a)
  BY <1>4
<1>13. IsCurrent(a.id, a.row)'
  BY <1>2, <1>7 DEF IsCurrent
<1>14. Following'
  BY <1>3, <1>7, <1>12, <1>13, ServedFollows DEF AskInv, NetTyped, Reply
<1> QED
  BY <1>2, <1>3, <1>8, <1>9, <1>11, <1>12, <1>14, AnswerGiven

LEMMA ServeCreateKeeps ==
  ASSUME AskInv, NEW r \in BagToSet(sent), ServeCreate(r)
  PROVE  AskInv'
<1>1. /\ Take(r) /\ r.op = "create"
      /\ UNCHANGED <<turn, asked, dropped, selected, sending, error, behind>>
  BY DEF ServeCreate, pageVars, countVars
<1>2. /\ DOMAIN sent' \subseteq DOMAIN sent /\ CallOK(r) /\ r.op \notin TurnOps /\ r \in Calls
      /\ r.change = "none" /\ Reloads(r)
  BY <1>1, RequestTaken DEF TurnOps, CallOK, Reloads
<1>3. CASE HasRoom
  <2> PICK id, row : id = Fresh /\ row = NewConversation("default")
    OBVIOUS
  <2> PICK a : a = Answer(r, TRUE, id, row)
    OBVIOUS
  <2>1. CreateConversation /\ Reply(a)
    BY <1>3 DEF ServeCreate
  <2>2. /\ Budgeted' /\ MessagesStay /\ id \in Conversations
        /\ Existing' = Existing \cup {id} /\ conversations'[id] = row
    BY <1>1, <1>3, <2>1, CreateKeeps DEF AskInv
  <2>3. IdsGrow /\ id \in ThreadIds' /\ id # None
    BY <2>2, StoreAssumption DEF IdsGrow, ThreadIds
  <2>4. row \in ThreadRows
    BY NewRow DEF Titles
  <2>5. /\ a \in Replies /\ a.request = r /\ a.ok /\ a.id = id /\ a.row = row /\ ~a.old
    BY <1>2, <2>2, <2>4 DEF Answer, Replies
  <2>6. ReplyOK(a)'
    BY <1>1, <1>2, <2>3, <2>5 DEF ReplyOK
  <2>7. Asking'
    BY <1>1, <1>2, <2>2, RequestEnds
  <2>8. IsCurrent(a.id, a.row)'
    BY <2>2, <2>5 DEF IsCurrent
  <2>9. Following'
    BY <1>2, <2>1, <2>5, <2>8, ServedFollows DEF AskInv, NetTyped, Reply
  <2> QED
    BY <1>1, <1>2, <2>1, <2>2, <2>3, <2>6, <2>7, <2>9, AnswerGiven
<1>4. CASE ~HasRoom
  <2> PICK a : a = Answer(r, FALSE, None, NoRow)
    OBVIOUS
  <2>1. UNCHANGED conversations /\ Reply(a) /\ UNCHANGED storeVars
    BY <1>1, <1>4 DEF ServeCreate, storeVars
  <2>2. Budgeted' /\ MessagesStay /\ IdsGrow
    BY <2>1, StoreRests DEF AskInv
  <2>3. /\ a \in Replies /\ a.request = r /\ ~a.ok /\ a.id = None
    BY <1>2, NoRowIs DEF Answer, Replies
  <2>4. ReplyOK(a)'
    BY <1>2, <2>3 DEF ReplyOK, ThreadIds
  <2>5. Asking'
    BY <1>1, <1>2, <2>2, RequestEnds
  <2>6. Following'
    BY <1>2, <2>1, <2>3, FailureFollows DEF AskInv, NetTyped, Reply
  <2> QED
    BY <1>1, <1>2, <2>1, <2>2, <2>4, <2>5, <2>6, AnswerGiven
<1> QED
  BY <1>3, <1>4

LEMMA ServePatchKeeps ==
  ASSUME AskInv, NEW r \in BagToSet(sent), ServePatch(r)
  PROVE  AskInv'
<1>1. /\ Take(r) /\ r.op = "patch" /\ PatchConversation(r.id, r.change)
      /\ Reply(Answer(r, TRUE, r.id, conversations'[r.id]))
      /\ UNCHANGED <<turn, asked, dropped, selected, sending, error, behind>>
  BY DEF ServePatch, pageVars, countVars
<1>2. /\ DOMAIN sent' \subseteq DOMAIN sent /\ CallOK(r) /\ r.op \notin TurnOps /\ r \in Calls
  BY <1>1, RequestTaken DEF TurnOps, CallOK
<1> PICK id, change : id = r.id /\ change = r.change
  OBVIOUS
<1>3. id \in Existing /\ id # None /\ change \in PatchKinds
  BY <1>1, <1>2 DEF CallOK, ThreadIds, Calls, PatchKinds
<1>4. id \in Conversations
  BY <1>3 DEF Existing
<1>5. Budgeted' /\ MessagesStay /\ Existing' = Existing
  BY <1>1, <1>3, PatchKeeps DEF AskInv
<1>6. IdsGrow /\ id \in ThreadIds'
  BY <1>3, <1>5 DEF IdsGrow, ThreadIds
<1> PICK row : row = conversations'[id]
  OBVIOUS
<1> PICK a : a = Answer(r, TRUE, id, row)
  OBVIOUS
<1>7. row \in ThreadRows
  BY <1>4, <1>5 DEF Budgeted, StoreTyped
<1>8. /\ a \in Replies /\ a.request = r /\ a.ok /\ a.id = id /\ a.row = row /\ ~a.old
  BY <1>2, <1>4, <1>7 DEF Answer, Replies
<1>9. ReplyOK(a)'
  BY <1>1, <1>2, <1>3, <1>6, <1>8 DEF ReplyOK
<1>10. Asking'
  BY <1>1, <1>2, <1>5, RequestEnds
<1>11. IsCurrent(a.id, a.row)'
  BY <1>8 DEF IsCurrent
<1>12. Reply(a)
  BY <1>1
<1>13. Following'
  BY <1>2, <1>8, <1>11, <1>12, ServedFollows DEF AskInv, NetTyped, Reply
<1> QED
  BY <1>1, <1>2, <1>5, <1>6, <1>9, <1>10, <1>12, <1>13, AnswerGiven

LEMMA ServeTurnKeeps ==
  ASSUME AskInv, NEW r \in BagToSet(sent), ServeTurn(r)
  PROVE  AskInv'
<1>1. /\ Take(r) /\ r.op \in TurnOps
      /\ UNCHANGED <<asked, dropped, selected, sending, error, behind>>
  BY DEF ServeTurn, pageVars, countVars, TurnOps
<1>2. /\ BagTakes(sent, r, sent') /\ DOMAIN sent' \subseteq DOMAIN sent /\ CallOK(r) /\ r \in Calls
      /\ \A q \in DOMAIN sent : q # r => q \in DOMAIN sent'
  BY <1>1, RequestTaken DEF CallOK
<1>3. r.ask \in Asks /\ <<r.ask, r.op>> \in Requests /\ r.change = "none" /\ ~Reloads(r)
  BY <1>1, <1>2 DEF CallOK, TurnOps, AskInv, Asking, Single, BagTakes, Requests, Reloads
<1>4. \A q \in DOMAIN sent : Reloads(q) => q \in DOMAIN sent'
  BY <1>2, <1>3
<1>5. CASE Refused(r.id)
  <2> PICK id : id = r.id
    OBVIOUS
  <2> PICK a : a = Answer(r, FALSE, id, NoRow)
    OBVIOUS
  <2>0. id \in Conversations \cup {None}
    BY <1>2 DEF Calls
  <2>1. UNCHANGED storeVars /\ Reply(a) /\ UNCHANGED conversations /\ UNCHANGED turn
    BY <1>5 DEF ServeTurn, storeVars
  <2>2. Budgeted' /\ MessagesStay /\ IdsGrow
    BY <2>1, StoreRests DEF AskInv
  <2>3. /\ a \in Replies /\ a.request = r /\ ~a.ok /\ a.id = id
    BY <1>2, <2>0, NoRowIs DEF Answer, Replies
  <2>4. ReplyOK(a)
    BY <1>2, <1>3, <2>3 DEF ReplyOK, CallOK
  <2>5. ReplyOK(a)'
    BY <2>2, <2>4, ReplyStays
  <2>6. Asking'
    BY <1>1, <1>2, <2>1, <2>2, AskingBegins DEF AskInv, Budgeted
  <2>7. Following'
    BY <1>1, <1>4, <2>1, <2>3, OtherFailureFollows DEF AskInv, NetTyped, Reply
  <2> QED
    BY <1>1, <1>2, <2>1, <2>2, <2>5, <2>6, <2>7, AnswerGiven
<1>6. CASE ~Refused(r.id)
  <2> PICK h, c : h = <<r.ask, r.op>> /\ c = r.id
    OBVIOUS
  <2>1. BeginTurn(h, c) /\ UNCHANGED answers /\ UNCHANGED conversations
    BY <1>6 DEF ServeTurn, BeginTurn
  <2>2. /\ Budgeted' /\ MessagesStay /\ Existing' = Existing
        /\ \A g \in Requests : g # h => turn'[g] = turn[g]
    BY <1>3, <2>1, BeginKeeps DEF AskInv
  <2>3. IdsGrow
    BY <2>2 DEF IdsGrow, ThreadIds
  <2>4. Asking'
    BY <1>1, <1>2, <2>2, AskingBegins DEF AskInv, Budgeted
  <2>5. SentOK'
    BY <1>2, <2>3, SentFewer DEF AskInv, NetTyped
  <2>6. AnswersOK'
    BY <2>1, <2>3, AnswersStay DEF AskInv, NetTyped
  <2>7. AskPageOK'
    BY <1>1, <2>3, PageStaysOK DEF AskInv, NetTyped, AskPageOK
  <2>8. Following'
    BY <1>1, <1>4, <2>1, ShownStays DEF AskInv
  <2> QED
    BY <2>2, <2>4, <2>5, <2>6, <2>7, <2>8 DEF AskInv, NetTyped
<1> QED
  BY <1>5, <1>6

LEMMA ReadBudgetKeeps ==
  ASSUME AskInv, NEW h \in Requests, ReadBudget(h),
         UNCHANGED <<pageVars, netVars, countVars, behind, dropped>>
  PROVE  AskInv'
<1>1. UNCHANGED <<conversations, asked, dropped, selected, sending, error, behind, sent, answers>>
  BY DEF pageVars, netVars, countVars, ReadBudget
<1>2. /\ Budgeted' /\ MessagesStay /\ Existing' = Existing
      /\ turn[h] # NoTurn
      /\ \A g \in Requests : g # h => turn'[g] = turn[g]
  BY LookKeeps DEF AskInv
<1>3. \A g \in Requests : turn[g] = NoTurn => turn'[g] = NoTurn
  BY <1>2
<1>4. TurnsFewer
  BY <1>1, SentCounts DEF TurnsFewer, Counts
<1>5. Asking'
  BY <1>1, <1>2, <1>3, <1>4, AskingFewer DEF AskInv, Budgeted
<1>6. IdsGrow
  BY <1>2 DEF IdsGrow, ThreadIds
<1>7. SentOK'
  BY <1>1, <1>6, SentFewer DEF AskInv, NetTyped
<1>8. AnswersOK'
  BY <1>1, <1>6, AnswersStay DEF AskInv, NetTyped
<1>9. AskPageOK'
  BY <1>1, <1>6, PageStaysOK DEF AskInv, NetTyped, AskPageOK
<1>10. Following'
  BY <1>1, ShownStays DEF AskInv
<1> QED
  BY <1>2, <1>5, <1>7, <1>8, <1>9, <1>10 DEF AskInv, NetTyped

(* The page and its requests are as they were, and the backend has gone on *)
(* with the questions.                                                     *)
LEMMA BackendMoves ==
  ASSUME AskInv, Budgeted', Asking', IdsGrow, AnswersOK', Following',
         DOMAIN sent' \subseteq DOMAIN sent, behind' \in BOOLEAN,
         UNCHANGED <<selected, sending, error>>
  PROVE  AskInv'
<1>1. SentOK'
  BY SentFewer DEF AskInv, NetTyped
<1>2. AskPageOK'
  BY PageStaysOK DEF AskInv, NetTyped, AskPageOK
<1> QED
  BY <1>1, <1>2 DEF AskInv, NetTyped

LEMMA TurnRequestIs ==
  ASSUME NEW h \in Requests, NEW r, r = TurnRequest(h)
  PROVE  r \in Calls /\ r.op \in TurnOps /\ r.change = "none"
<1> PICK a, o : a = h[1] /\ o = h[2]
  OBVIOUS
<1>1. a \in Asks /\ o \in TurnOps
  BY DEF Requests, TurnOps
<1>2. r = [Request EXCEPT !.ask = a, !.op = o]
  BY DEF TurnRequest
<1> QED
  BY <1>1, <1>2, RequestIs DEF Calls, TurnOps

LEMMA AwaitedIs ==
  ASSUME NEW h \in Requests, Awaited(h)
  PROVE  sending # NoSend
<1>1. sending.via \in TurnOps
  BY DEF Awaited, Requests, TurnOps
<1> QED
  BY <1>1 DEF NoSend, TurnOps

LEMMA FinishTurnKeeps ==
  ASSUME AskInv, NEW h \in Requests, NEW uses, FinishTurn(h, uses)
  PROVE  AskInv'
<1> PICK c : c = Committed(h)
  OBVIOUS
<1>1. /\ CommitTurn(h, uses)
      /\ UNCHANGED <<selected, sending, error, sent, asked, dropped>>
  BY DEF FinishTurn, pageVars, countVars
<1>2. /\ Budgeted'
      /\ \E q : \E m \in Messages : m.ask = h[1] /\ MessageComes(q, m)
      /\ c \in Conversations /\ c # None /\ Existing' = Existing \cup {c}
      /\ turn[h] # NoTurn /\ turn'[h] = NoTurn
      /\ \A g \in Requests : g # h => (turn[g] = NoTurn <=> turn'[g] = NoTurn)
  BY <1>1, CommitKeeps DEF AskInv
<1>3. IdsGrow /\ c \in ThreadIds'
  BY <1>2 DEF IdsGrow, ThreadIds
<1>4. PICK q : \E m \in Messages : m.ask = h[1] /\ MessageComes(q, m)
  BY <1>2
<1> PICK m \in Messages : m.ask = h[1] /\ MessageComes(q, m)
  BY <1>4
<1>5. Asking'
  BY <1>1, <1>2, AskingCommits DEF AskInv, Budgeted
<1>6. CASE Awaited(h)
  <2> PICK r, row : r = TurnRequest(h) /\ row = conversations'[c]
    OBVIOUS
  <2> PICK a : a = Answer(r, TRUE, c, row)
    OBVIOUS
  <2>1. Reply(a) /\ behind' = behind
    BY <1>6 DEF FinishTurn
  <2>2. r \in Calls /\ r.op \in TurnOps /\ r.change = "none"
    BY TurnRequestIs
  <2>3. row \in ThreadRows
    BY <1>2 DEF Budgeted, StoreTyped
  <2>4. /\ a \in Replies /\ a.request = r /\ a.ok /\ a.id = c /\ a.row = row
    BY <1>2, <2>2, <2>3 DEF Answer, Replies
  <2>5. ReplyOK(a)'
    BY <1>2, <1>3, <2>2, <2>4 DEF ReplyOK
  <2>6. AnswersOK'
    BY <1>3, <2>1, <2>5, AnswerComes DEF AskInv, NetTyped, Reply
  <2>7. Following'
    BY <1>1, <1>6, AwaitedIs DEF Following, Forewarned
  <2> QED
    BY <1>1, <1>2, <1>3, <1>5, <2>1, <2>6, <2>7, BackendMoves DEF AskInv, NetTyped, AskPageOK
<1>7. CASE ~Awaited(h)
  <2>1. answers' = Outdated /\ behind' = TRUE
    BY <1>7 DEF FinishTurn
  <2>2. AnswersOK' /\ \A k \in DOMAIN answers' : answers'[k].old
    BY <1>3, <2>1, AnswersOutdated DEF AskInv, NetTyped
  <2>3. Following'
    BY <2>1, <2>2, OutdatedFollows
  <2> QED
    BY <1>1, <1>2, <1>3, <1>5, <2>1, <2>2, <2>3, BackendMoves
<1> QED
  BY <1>6, <1>7

LEMMA FailTurnKeeps ==
  ASSUME AskInv, NEW h \in Requests, FailTurn(h)
  PROVE  AskInv'
<1>1. /\ turn' = [turn EXCEPT ![h] = NoTurn]
      /\ UNCHANGED <<conversations, selected, sending, error, sent, asked, dropped, behind>>
  BY DEF FailTurn, pageVars
<1>2. /\ Budgeted' /\ MessagesStay /\ Existing' = Existing
      /\ turn'[h] = NoTurn /\ \A g \in Requests : g # h => turn'[g] = turn[g]
  BY <1>1, HandlerEnds DEF AskInv
<1>3. \A g \in Requests : turn[g] = NoTurn => turn'[g] = NoTurn
  BY <1>2
<1>4. TurnsFewer
  BY <1>1, SentCounts DEF TurnsFewer, Counts
<1>5. Asking'
  BY <1>1, <1>2, <1>3, <1>4, AskingFewer DEF AskInv, Budgeted
<1>6. IdsGrow /\ None \in ThreadIds'
  BY <1>2 DEF IdsGrow, ThreadIds
<1>7. CASE Awaited(h)
  <2> PICK r : r = TurnRequest(h)
    OBVIOUS
  <2> PICK a : a = Answer(r, FALSE, None, NoRow)
    OBVIOUS
  <2>1. Reply(a)
    BY <1>7 DEF FailTurn
  <2>2. r \in Calls /\ r.op \in TurnOps /\ r.change = "none"
    BY TurnRequestIs
  <2>3. /\ a \in Replies /\ a.request = r /\ ~a.ok /\ a.id = None
    BY <2>2, NoRowIs DEF Answer, Replies
  <2>4. ReplyOK(a)'
    BY <1>6, <2>2, <2>3 DEF ReplyOK
  <2>5. AnswersOK'
    BY <1>6, <2>1, <2>4, AnswerComes DEF AskInv, NetTyped, Reply
  <2>6. Following'
    BY <1>1, <1>7, AwaitedIs DEF Following, Forewarned
  <2> QED
    BY <1>1, <1>2, <1>5, <1>6, <2>5, <2>6, BackendMoves DEF AskInv, NetTyped, AskPageOK
<1>8. CASE ~Awaited(h)
  <2>1. answers' = answers
    BY <1>8 DEF FailTurn
  <2>2. AnswersOK'
    BY <1>6, <2>1, AnswersStay DEF AskInv, NetTyped
  <2>3. Following'
    BY <1>1, <2>1, ShownStays DEF AskInv
  <2> QED
    BY <1>1, <1>2, <1>5, <1>6, <2>2, <2>3, BackendMoves DEF AskInv, NetTyped, AskPageOK
<1> QED
  BY <1>7, <1>8
-----------------------------------------------------------------------------
(* What is lost.                                                           *)
LEMMA LoseRequestKeeps ==
  ASSUME AskInv, NEW r \in BagToSet(sent), LoseRequest(r)
  PROVE  AskInv'
<1> PICK id : id = r.id
  OBVIOUS
<1> PICK a : a = Answer(r, FALSE, id, NoRow)
  OBVIOUS
<1>1. /\ Take(r) /\ Reply(a)
      /\ UNCHANGED <<storeVars, conversations, turn, asked, dropped, selected, sending, error,
                     behind>>
  BY DEF LoseRequest, pageVars, storeVars
<1>2. /\ BagTakes(sent, r, sent') /\ DOMAIN sent' \subseteq DOMAIN sent /\ CallOK(r) /\ r \in Calls
      /\ \A q \in DOMAIN sent : q # r => q \in DOMAIN sent'
  BY <1>1, RequestTaken DEF CallOK
<1>3. Budgeted' /\ MessagesStay /\ IdsGrow
  BY <1>1, StoreRests DEF AskInv
<1>4. id \in Conversations \cup {None}
  BY <1>2 DEF Calls
<1>5. a \in Replies /\ a.request = r /\ ~a.ok /\ a.id = id
  BY <1>2, <1>4, NoRowIs DEF Answer, Replies
<1>6. ReplyOK(a)
  BY <1>2, <1>5 DEF ReplyOK, CallOK
<1>7. ReplyOK(a)'
  BY <1>3, <1>6, ReplyStays
<1>8. Asking'
  <2>1. CASE r.op \in TurnOps
    BY <1>1, <1>2, <1>3, <2>1, AskingBegins DEF AskInv, Budgeted
  <2>2. CASE r.op \notin TurnOps
    BY <1>1, <1>3, <2>2, RequestEnds
  <2> QED
    BY <2>1, <2>2
<1>9. Following'
  <2>1. CASE Reloads(r)
    BY <1>1, <1>5, <2>1, FailureFollows DEF AskInv, NetTyped, Reply
  <2>2. CASE ~Reloads(r)
    <3>1. \A q \in DOMAIN sent : Reloads(q) => q \in DOMAIN sent'
      BY <1>2, <2>2
    <3> QED
      BY <1>1, <1>5, <3>1, OtherFailureFollows DEF AskInv, NetTyped, Reply
  <2> QED
    BY <2>1, <2>2
<1> QED
  BY <1>1, <1>2, <1>3, <1>7, <1>8, <1>9, AnswerGiven

LEMMA LoseAnswerKeeps ==
  ASSUME AskInv, NEW k \in DOMAIN answers, LoseAnswer(k)
  PROVE  AskInv'
<1>1. /\ answers[k].ok /\ behind' = (behind \/ Untold(k))
      /\ UNCHANGED <<storeVars, conversations, turn, selected, sending, error, sent, asked,
                     dropped>>
  BY DEF LoseAnswer, pageVars, storeVars
<1>2. Budgeted' /\ MessagesStay /\ IdsGrow
  BY <1>1, StoreRests DEF AskInv
<1>3. TurnsFewer
  BY <1>1, SentCounts DEF TurnsFewer, Counts
<1>4. Asking'
  BY <1>1, <1>2, <1>3, AskingFewer DEF AskInv, Budgeted
<1> PICK before : before = IF Untold(k) THEN Outdated ELSE answers
  OBVIOUS
<1>5. answers' = [before EXCEPT ![k].ok = FALSE]
  BY DEF LoseAnswer
<1>6. /\ answers \in Seq(Replies) /\ \A j \in DOMAIN answers : ReplyOK(answers[j])
  BY DEF AskInv, NetTyped, AnswersOK
<1>7. /\ before \in Seq(Replies) /\ DOMAIN before = DOMAIN answers
      /\ \A j \in DOMAIN answers : ReplyOK(before[j]) /\ (Untold(k) => before[j].old)
  <2>1. CASE Untold(k)
    <3>1. /\ Outdated \in Seq(Replies) /\ DOMAIN Outdated = DOMAIN answers
          /\ \A j \in DOMAIN answers : Outdated[j].old
      BY <1>6, OutdatedAnswers
    <3>2. ASSUME NEW j \in DOMAIN answers
          PROVE  ReplyOK(Outdated[j])
      <4> PICK a, b : a = answers[j] /\ b = [a EXCEPT !.old = TRUE]
        OBVIOUS
      <4>1. ReplyOK(a) /\ Outdated[j] = b
        BY <1>6 DEF Outdated
      <4>2. ReplyOK(b)
        BY <4>1, OldReply
      <4> QED
        BY <4>1, <4>2
    <3> QED
      BY <2>1, <3>1, <3>2
  <2>2. CASE ~Untold(k)
    BY <1>6, <2>2
  <2> QED
    BY <2>1, <2>2
<1> PICK b, c : b = before[k] /\ c = [b EXCEPT !.ok = FALSE]
  OBVIOUS
<1>8. /\ DOMAIN answers' = DOMAIN answers /\ answers'[k] = c
      /\ \A j \in DOMAIN answers : j # k => answers'[j] = before[j]
      /\ answers' = [before EXCEPT ![k] = c]
  <2>1. answers' = [before EXCEPT ![k] = [@ EXCEPT !.ok = FALSE]]
    BY <1>5
  <2> QED
    BY <1>7, <2>1
<1>9. ReplyOK(b) /\ b \in Replies
  BY <1>7 DEF ReplyOK
<1>10. ReplyOK(c) /\ c \in Replies /\ c.ok = FALSE
  <2>1. ReplyOK(c)
    BY <1>9, OldReply
  <2>2. c.ok = FALSE
    BY <1>9 DEF Replies
  <2> QED
    BY <2>1, <2>2 DEF ReplyOK
<1>11. AnswersOK'
  <2>1. answers' \in Seq(Replies)
    BY <1>7, <1>8, <1>10, ExceptSeq
  <2>2. ASSUME NEW j \in DOMAIN answers
        PROVE  ReplyOK(answers[j])'
    <3> PICK d : d = answers'[j]
      OBVIOUS
    <3>1. ReplyOK(d)
      BY <1>7, <1>8, <1>10
    <3>2. ReplyOK(d)'
      BY <1>2, <3>1, ReplyStays
    <3> QED
      BY <3>2
  <2> QED
    BY <1>8, <2>1, <2>2 DEF AnswersOK
<1>12. Following'
  <2>1. CASE Untold(k)
    <3>1. behind' = TRUE
      BY <1>1, <2>1
    <3>2. \A j \in DOMAIN answers' : answers'[j].ok => answers'[j].old
      BY <1>7, <1>8, <1>10, <2>1
    <3> QED
      BY <3>1, <3>2, OutdatedFollows
  <2>2. CASE ~Untold(k)
    <3>1. answers' = [answers EXCEPT ![k].ok = FALSE]
      BY <1>5, <2>2
    <3>2. answers[k] \in Replies
      BY <1>6 DEF ReplyOK
    <3>3. Reloads(answers[k].request) \/ IsTurn(k)
      BY <2>2, <3>2 DEF Reloads, IsTurn, Untold, Replies, Calls
    <3>4. behind' = behind
      BY <1>1, <2>2 DEF AskInv, NetTyped, AskPageOK
    <3> QED
      BY <1>1, <3>1, <3>3, <3>4, LostFollows DEF AskInv, NetTyped
  <2> QED
    BY <2>1, <2>2
<1>13. behind' \in BOOLEAN
  BY <1>1 DEF Untold, AskInv, NetTyped, AskPageOK
<1> QED
  BY <1>1, <1>2, <1>4, <1>11, <1>12, <1>13, BackendMoves
-----------------------------------------------------------------------------
(* What the page does with an answer.                                      *)

(* It takes the answer, and makes the requests of R.                       *)
LEMMA AnswerPassed ==
  ASSUME AskInv, NEW k \in DOMAIN answers, answers' \in {Taken(k), Dropped(k)},
         UNCHANGED <<storeVars, asked, dropped>>, NEW R, Calling(R),
         sending' \in {sending, NoSend}, AskPageOK', Following'
  PROVE  AskInv'
<1>1. Budgeted' /\ MessagesStay /\ IdsGrow /\ UNCHANGED <<conversations, turn>>
  BY StoreRests DEF AskInv, storeVars
<1>2. TurnsFewer
  BY CallingIsFewer
<1>3. Asking'
  BY <1>1, <1>2, AskingFewer DEF AskInv, Budgeted
<1>4. SentOK'
  BY <1>1, SentStays DEF AskInv, NetTyped, Calling, BagAdds
<1>5. AnswersOK'
  BY <1>1, AnswersLeft DEF AskInv, NetTyped
<1> QED
  BY <1>1, <1>3, <1>4, <1>5 DEF AskInv, NetTyped

LEMMA NothingCalled ==
  ASSUME AskInv, sent' = sent
  PROVE  Calling({})
BY SentCounts DEF Calling, BagAdds

(* What an answer names.                                                   *)
LEMMA AnswerNames ==
  ASSUME AskInv, NEW k \in DOMAIN answers
  PROVE  /\ AnswersOK /\ AskPageOK /\ Counts(sent)
         /\ answers[k] \in Replies /\ answers[k].request \in Calls
         /\ answers[k].id \in ThreadIds /\ answers[k].request.routed \in BOOLEAN
         /\ answers[k].ok \in BOOLEAN /\ answers[k].old \in BOOLEAN
<1> PICK a : a = answers[k]
  OBVIOUS
<1>1. ReplyOK(a)
  BY DEF AskInv, NetTyped, AnswersOK
<1>2. a \in Replies /\ a.id \in ThreadIds
  BY <1>1 DEF ReplyOK
<1>3. a.request \in Calls /\ a.ok \in BOOLEAN /\ a.old \in BOOLEAN
  BY <1>2 DEF Replies
<1>4. a.request.routed \in BOOLEAN
  BY <1>3 DEF Calls
<1> QED
  BY <1>2, <1>3, <1>4, SentCounts DEF AskInv, NetTyped

(* The page shows the answer and asks for more.                            *)
LEMMA ShownAndMore ==
  ASSUME AskInv, NEW k \in DOMAIN answers, answers[k].ok, Show(k),
         UNCHANGED <<storeVars, asked, dropped>>, NEW R, Calling(R), \E r \in R : Reloads(r),
         sending' \in {sending, NoSend}, error' \in BOOLEAN
  PROVE  AskInv'
<1>1. AnswersOK /\ AskPageOK
  BY AnswerNames
<1>2. IdsGrow
  BY StoreRests DEF AskInv
<1>3. AskPageOK'
  BY <1>1, <1>2, PageShowsOK
<1>4. answers' \in {Taken(k), Dropped(k)}
  BY DEF Show
<1>5. Following'
  BY DEF Following, Forewarned, Calling, BagAdds
<1> QED
  BY <1>3, <1>4, <1>5, AnswerPassed

LEMMA LoadedKeeps ==
  ASSUME AskInv, NEW k \in DOMAIN answers, Loaded(k)
  PROVE  AskInv'
<1> PICK id : id = answers[k].id
  OBVIOUS
<1>1. /\ answers[k].ok /\ Show(k)
      /\ UNCHANGED <<storeVars, conversations, sending, asked, dropped>>
  BY DEF Loaded, countVars, storeVars
<1>2. /\ AnswersOK /\ AskPageOK /\ Counts(sent) /\ id \in ThreadIds /\ answers[k].old \in BOOLEAN
  BY AnswerNames
<1>3. PICK R : /\ Calling(R)
               /\ error => error' \/ \E r \in R : Reloads(r)
               /\ error' \in BOOLEAN
  <2>1. CASE answers[k].request.routed \/ id = None
    <3>1. sent' = sent /\ error' = error
      BY <2>1 DEF Loaded
    <3> QED
      BY <1>2, <3>1, NothingCalled DEF AskPageOK
  <2>2. CASE ~(answers[k].request.routed \/ id = None)
    <3>1. sent' = sent (+) RouteEffect(id) /\ error' = (error /\ id = route)
      BY <2>2 DEF Loaded
    <3>2. PICK R : /\ BagAdds(sent, R, sent')
                   /\ \A r \in R : CallOK(r) /\ r.op \notin TurnOps /\ Reloads(r)
                   /\ id # route => R # {}
      BY <1>2, <3>1, RouteLoads
    <3>3. Calling(R)
      BY <3>2 DEF Calling
    <3>4. error' \in BOOLEAN /\ (error /\ id = route => error')
      BY <1>2, <3>1 DEF AskPageOK
    <3>5. id # route => \E r \in R : Reloads(r)
      BY <3>2
    <3> QED
      BY <3>3, <3>4, <3>5
  <2> QED
    BY <2>1, <2>2
<1>4. DOMAIN sent \subseteq DOMAIN sent' /\ R \subseteq DOMAIN sent'
  BY <1>3 DEF Calling, BagAdds
<1>5. /\ answers' = Taken(k) /\ behind' = answers[k].old
      /\ selected' = [id |-> answers[k].id, row |-> answers[k].row]
  BY <1>1 DEF Show
<1>6. error => error' \/ \E r \in DOMAIN sent' : Reloads(r)
  BY <1>3, <1>4
<1>7. behind' \/ (~answers[k].old /\ selected'.id = answers[k].id
                                  /\ selected'.row = answers[k].row)
  BY <1>2, <1>5
<1>8. Following'
  BY <1>1, <1>2, <1>4, <1>5, <1>6, <1>7, TakenFollows DEF AskInv
<1>9. IdsGrow
  BY <1>1, StoreRests DEF AskInv
<1>10. AskPageOK'
  BY <1>1, <1>2, <1>3, <1>9, PageShowsOK
<1> QED
  BY <1>1, <1>3, <1>5, <1>8, <1>10, AnswerPassed

(* An error is shown.                                                      *)
LEMMA ErrorShown ==
  ASSUME AskInv, NEW k \in DOMAIN answers, answers' = Dropped(k), error' = TRUE,
         UNCHANGED <<storeVars, selected, sending, sent, asked, behind, dropped>>
  PROVE  AskInv'
<1>1. IdsGrow
  BY StoreRests DEF AskInv
<1>2. AskPageOK /\ behind \in BOOLEAN
  BY DEF AskInv, NetTyped, AskPageOK
<1>3. AskPageOK'
  BY <1>1, <1>2, PageStaysOK
<1>4. Following'
  BY DEF Following, Forewarned
<1> QED
  BY <1>3, <1>4, NothingCalled, AnswerPassed

LEMMA LoadFailedKeeps ==
  ASSUME AskInv, NEW k \in DOMAIN answers, LoadFailed(k)
  PROVE  AskInv'
BY ErrorShown DEF LoadFailed, countVars

LEMMA ChangeFailedKeeps ==
  ASSUME AskInv, NEW k \in DOMAIN answers, ChangeFailed(k)
  PROVE  AskInv'
BY ErrorShown DEF ChangeFailed, countVars

LEMMA CreatedKeeps ==
  ASSUME AskInv, NEW k \in DOMAIN answers, Created(k)
  PROVE  AskInv'
<1> PICK id, routed : id = answers[k].id /\ routed = answers[k].request.routed
  OBVIOUS
<1>1. Counts(sent) /\ id \in ThreadIds /\ routed \in BOOLEAN
  BY AnswerNames
<1>2. sent' = (sent (+) RouteEffect(id)) (+) Load(id, routed)
  BY DEF Created
<1>3. PICK R : /\ BagAdds(sent, R, sent')
               /\ \A r \in R : CallOK(r) /\ r.op \notin TurnOps
               /\ \E r \in R : Reloads(r)
  BY <1>1, <1>2, RouteAndLoad
<1>4. Calling(R)
  BY <1>3 DEF Calling
<1>5. /\ answers[k].ok /\ Show(k) /\ UNCHANGED <<storeVars, asked, dropped>>
      /\ sending' = sending /\ error' = FALSE
  BY DEF Created, countVars
<1> QED
  BY <1>3, <1>4, <1>5, ShownAndMore

LEMMA ChangedKeeps ==
  ASSUME AskInv, NEW k \in DOMAIN answers, Changed(k)
  PROVE  AskInv'
<1> PICK id, routed : id = answers[k].id /\ routed = answers[k].request.routed
  OBVIOUS
<1>1. Counts(sent) /\ id \in ThreadIds /\ routed \in BOOLEAN
  BY AnswerNames
<1>2. sent' = sent (+) Load(id, routed)
  BY DEF Changed
<1>3. PICK r : Calling({r}) /\ Reloads(r)
  BY <1>1, <1>2, Loading
<1>4. \E x \in {r} : Reloads(x)
  BY <1>3
<1>5. /\ answers[k].ok /\ Show(k) /\ UNCHANGED <<storeVars, asked, dropped>>
      /\ sending' = sending /\ error' = FALSE
  BY DEF Changed, countVars
<1> QED
  BY <1>3, <1>4, <1>5, ShownAndMore

(* An answer that is only shown, or passed over.                           *)
LEMMA AnswerOnly ==
  ASSUME AskInv, NEW k \in DOMAIN answers, ~Reloads(answers[k].request),
         UNCHANGED <<storeVars, sending, error, sent, asked, dropped>>,
         \/ answers[k].ok /\ Show(k)
         \/ answers[k].ok /\ answers' = Taken(k) /\ behind' = TRUE /\ selected' = selected
         \/ ~answers[k].ok /\ answers' = Dropped(k) /\ UNCHANGED <<selected, behind>>
  PROVE  AskInv'
<1>1. /\ AnswersOK /\ AskPageOK /\ answers[k].old \in BOOLEAN /\ error \in BOOLEAN
      /\ behind \in BOOLEAN
  BY AnswerNames DEF AskPageOK
<1>2. IdsGrow /\ UNCHANGED conversations
  BY StoreRests DEF AskInv, storeVars
<1>3. Calling({})
  BY NothingCalled
<1>4. CASE answers[k].ok /\ Show(k)
  <2>1. /\ answers' = Taken(k) /\ behind' = answers[k].old
        /\ selected' = [id |-> answers[k].id, row |-> answers[k].row]
    BY <1>4 DEF Show
  <2>2. behind' \/ (~answers[k].old /\ selected'.id = answers[k].id
                                    /\ selected'.row = answers[k].row)
    BY <1>1, <2>1
  <2>3. Following'
    BY <1>1, <1>2, <1>4, <2>1, <2>2, TakenFollows DEF AskInv
  <2>4. AskPageOK'
    BY <1>1, <1>2, <1>4, PageShowsOK
  <2> QED
    BY <1>3, <2>1, <2>3, <2>4, AnswerPassed
<1>5. CASE answers[k].ok /\ answers' = Taken(k) /\ behind' = TRUE /\ selected' = selected
  <2>1. Following'
    BY <1>1, <1>2, <1>5, TakenFollows DEF AskInv
  <2>2. AskPageOK'
    BY <1>1, <1>2, <1>5, PageStaysOK
  <2> QED
    BY <1>3, <1>5, <2>1, <2>2, AnswerPassed
<1>6. CASE ~answers[k].ok /\ answers' = Dropped(k) /\ UNCHANGED <<selected, behind>>
  <2>1. Following'
    BY <1>1, <1>2, <1>6, DroppedFollows DEF AskInv
  <2>2. AskPageOK'
    BY <1>1, <1>2, <1>6, PageStaysOK
  <2> QED
    BY <1>3, <1>6, <2>1, <2>2, AnswerPassed
<1> QED
  BY <1>4, <1>5, <1>6

LEMMA TitledKeeps ==
  ASSUME AskInv, NEW k \in DOMAIN answers, Titled(k)
  PROVE  AskInv'
<1>1. ~Reloads(answers[k].request)
  BY DEF Titled, Untold, Reloads
<1>2. UNCHANGED <<storeVars, sending, error, sent, asked, dropped>>
  BY DEF Titled, countVars
<1>3. CASE answers[k].ok
  BY <1>1, <1>2, <1>3, AnswerOnly DEF Titled
<1>4. CASE ~answers[k].ok
  BY <1>1, <1>2, <1>4, AnswerOnly DEF Titled
<1> QED
  BY <1>3, <1>4

LEMMA UnreadKeeps ==
  ASSUME AskInv, NEW k \in DOMAIN answers, Unread(k)
  PROVE  AskInv'
<1>1. ~Reloads(answers[k].request)
  BY DEF Unread, IsTurn, Reloads
<1>2. UNCHANGED <<storeVars, selected, sending, error, sent, asked, dropped>>
  BY DEF Unread, countVars, pageVars
<1>3. CASE answers[k].ok
  BY <1>1, <1>2, <1>3, AnswerOnly DEF Unread
<1>4. CASE ~answers[k].ok
  <2>1. answers' = Dropped(k) /\ behind' = behind
    BY <1>4 DEF Unread, AskInv, NetTyped, AskPageOK
  <2> QED
    BY <1>1, <1>2, <1>4, <2>1, AnswerOnly
<1> QED
  BY <1>3, <1>4

LEMMA AnsweredKeeps ==
  ASSUME AskInv, NEW k \in DOMAIN answers, Answered(k)
  PROVE  AskInv'
<1> PICK id, routed : id = answers[k].id /\ routed = sending.routed
  OBVIOUS
<1> PICK B : B = (sent (+) RouteEffect(id)) (+) Load(id, routed)
  OBVIOUS
<1>1. /\ answers[k].ok /\ Show(k) /\ UNCHANGED <<storeVars, asked, dropped>>
      /\ sending' = NoSend /\ error' = FALSE /\ ForSend(k)
  BY DEF Answered, countVars
<1>2. Counts(sent) /\ id \in ThreadIds /\ routed \in BOOLEAN
  BY AnswerNames DEF AskPageOK, Sends
<1>3. id \in Existing
  <2>1. ReplyOK(answers[k]) /\ answers[k].request.op \in TurnOps
    BY <1>1 DEF AskInv, NetTyped, AnswersOK, ForSend, IsTurn, TurnOps
  <2> QED
    BY <1>1, <1>2, <2>1 DEF ReplyOK, ThreadIds
<1>4. PICK R : /\ BagAdds(sent, R, B)
               /\ \A r \in R : CallOK(r) /\ r.op \notin TurnOps
               /\ \E r \in R : Reloads(r)
  BY <1>2, RouteAndLoad
<1>5. Counts(B)
  BY <1>4 DEF BagAdds
<1>6. PICK S : BagAdds(B, S, sent') /\ \A r \in S : CallOK(r) /\ r.op \notin TurnOps
  <2>1. CASE answers[k].row.title = "default"
    <3> PICK r : r = PatchOf(id, "title", FALSE)
      OBVIOUS
    <3>1. /\ Patch(id, "title", FALSE) = SetToBag({r}) /\ CallOK(r) /\ r.op \notin TurnOps
      <4>1. "title" \in PatchKinds /\ FALSE \in BOOLEAN
        BY DEF PatchKinds
      <4> QED
        BY <1>3, <4>1, PatchIs
    <3>2. sent' = B (+) SetToBag({r})
      BY <2>1, <3>1 DEF Answered
    <3> PICK T : T = {r}
      OBVIOUS
    <3>3. BagAdds(B, T, sent')
      BY <1>5, <3>2, OneAdded
    <3>4. \A x \in T : CallOK(x) /\ x.op \notin TurnOps
      BY <3>1
    <3> QED
      BY <3>3, <3>4
  <2>2. CASE answers[k].row.title # "default"
    <3>1. sent' = B (+) EmptyBag
      BY <2>2 DEF Answered
    <3> QED
      BY <1>5, <3>1, NoneAdded
  <2> QED
    BY <2>1, <2>2
<1>7. BagAdds(sent, R \cup S, sent')
  BY <1>4, <1>6, BothAdded
<1>8. Calling(R \cup S) /\ \E r \in R \cup S : Reloads(r)
  BY <1>4, <1>6, <1>7 DEF Calling
<1> QED
  BY <1>1, <1>8, ShownAndMore

LEMMA SendFailedKeeps ==
  ASSUME AskInv, NEW k \in DOMAIN answers, SendFailed(k)
  PROVE  AskInv'
<1>1. /\ ForSend(k) /\ FallBack /\ answers' = Dropped(k)
      /\ UNCHANGED <<storeVars, conversations, selected, behind, asked>>
  BY DEF SendFailed, countVars, storeVars
<1>2. sending # NoSend
  BY <1>1 DEF ForSend, IsTurn, Awaited, NoSend
<1>3. AnswersOK'
  BY <1>1, AnswersLeft DEF AskInv, NetTyped
<1> QED
  BY <1>1, <1>2, <1>3, FallBackKeeps
-----------------------------------------------------------------------------
(* What holds at first, and after every step.                              *)
LEMMA AskBegins ==
  ASSUME AskInit
  PROVE  AskInv
<1>1. /\ Budgeted /\ Places = {}
  BY StoreBegins DEF AskInit
<1>2. /\ sent = SetToBag({Request}) /\ answers = <<>> /\ asked = 0 /\ dropped = {}
      /\ selected = NoThread /\ sending = NoSend /\ error = FALSE /\ behind = FALSE
      /\ turn = [h \in Requests |-> NoTurn]
  BY DEF AskInit, StoreInit
<1>3. DOMAIN sent = {Request} /\ sent[Request] = 1
  BY <1>2 DEF SetToBag
<1>4. Request \in Calls /\ Request.op = "load" /\ Request.id = None /\ Request.change = "none"
      /\ "load" \notin TurnOps
  BY RequestIs DEF TurnOps
<1>5. ASSUME NEW ask \in Asks
      PROVE  AskOK(ask)
  <2>1. TimesAsked(ask) = 0
    <3>1. {p \in Places : MessageAt(p).ask = ask} = {}
      BY <1>1
    <3> QED
      BY <3>1, FS_EmptySet DEF TimesAsked
  <2>2. ~ Unsettled(ask, "stream") /\ ~ Unsettled(ask, "ask")
    BY <1>2, <1>3, <1>4 DEF Unsettled, Waiting, Requests, TurnOps
  <2>3. Askings(ask) = 0
    BY <2>1, <2>2 DEF Askings
  <2> QED
    BY <1>2, <2>2, <2>3 DEF AskOK
<1>6. Asking
  <2>1. Counts(sent) /\ \A r \in DOMAIN sent : r.op \notin TurnOps
    BY <1>3, <1>4 DEF Counts
  <2>2. asked \in Nat /\ ~ (sending # NoSend)
    BY <1>2
  <2> QED
    BY <1>5, <2>1, <2>2, AskingIs
<1>7. SentOK
  BY <1>3, <1>4 DEF SentOK, CallOK, ThreadIds
<1>8. AnswersOK
  <2>1. <<>> \in Seq(Replies) /\ DOMAIN <<>> = {}
    OBVIOUS
  <2> QED
    BY <1>2, <2>1 DEF AnswersOK
<1>9. AskPageOK
  <2>1. NoThread \in Shown /\ NoThread.id = None
    BY NoRowIs DEF NoThread, Shown
  <2>2. NoSend \in Sends /\ NoSend.of = None
    BY DEF NoSend, Sends
  <2> QED
    BY <1>2, <2>1, <2>2 DEF AskPageOK, ThreadIds
<1>10. Following
  <2>1. Reloads(Request)
    BY <1>4 DEF Reloads
  <2> QED
    BY <1>3, <2>1 DEF Following, Forewarned
<1> QED
  BY <1>1, <1>6, <1>7, <1>8, <1>9, <1>10 DEF AskInv, NetTyped

LEMMA AskStaysStill ==
  ASSUME AskInv, UNCHANGED askVars
  PROVE  AskInv'
<1>1. /\ UNCHANGED <<storeVars, conversations, turn, selected, sending, error, sent, answers,
                     asked, behind, dropped>>
  BY DEF askVars, storeVars, pageVars, netVars, countVars
<1>2. Budgeted' /\ MessagesStay /\ IdsGrow
  BY <1>1, StoreRests DEF AskInv
<1>3. TurnsFewer
  BY <1>1, SentCounts DEF TurnsFewer, Counts
<1>4. Asking'
  BY <1>1, <1>2, <1>3, AskingFewer DEF AskInv, Budgeted
<1>5. AnswersOK'
  BY <1>1, <1>2, AnswersStay DEF AskInv, NetTyped
<1>6. Following'
  BY <1>1, ShownStays DEF AskInv
<1> QED
  BY <1>1, <1>2, <1>4, <1>5, <1>6, BackendMoves DEF AskInv, NetTyped, AskPageOK

LEMMA AskGoesOn ==
  ASSUME AskInv, [AskNext]_askVars
  PROVE  AskInv'
<1>1. CASE UserNext
  <2>1. ASSUME NEW id \in Existing \cup {None}, Navigate(id)
        PROVE  AskInv'
    BY <2>1, NavigateKeeps DEF ThreadIds
  <2> QED
    BY <1>1, <2>1, SendKeeps, StartKeeps, ChangeKeeps, StopKeeps DEF UserNext
<1>2. CASE ServeNext
  BY <1>2, ServeLoadKeeps, ServeCreateKeeps, ServePatchKeeps, ServeTurnKeeps,
     ReadBudgetKeeps, FinishTurnKeeps, FailTurnKeeps DEF ServeNext
<1>3. CASE PageNext
  BY <1>3, LoadedKeeps, LoadFailedKeeps, CreatedKeeps, ChangedKeeps, ChangeFailedKeeps,
     TitledKeeps, AnsweredKeeps, SendFailedKeeps, UnreadKeeps DEF PageNext
<1>4. CASE FaultNext
  BY <1>4, LoseRequestKeeps, LoseAnswerKeeps, DropKeeps DEF FaultNext
<1>5. CASE UNCHANGED askVars
  BY <1>5, AskStaysStill
<1> QED
  BY <1>1, <1>2, <1>3, <1>4, <1>5 DEF AskNext

LEMMA InvSays ==
  ASSUME AskInv
  PROVE  BudgetKept /\ ThreadTold
<1>1. BudgetKept
  BY DEF AskInv, Budgeted
<1>2. AskedOnce
  <2>1. ASSUME NEW ask \in Asks
        PROVE  TimesAsked(ask) <= IF ask \in dropped THEN 2 ELSE 1
    <3>1. TimesAsked(ask) \in Nat
      BY TimesAreNat DEF AskInv, Budgeted, StoreTyped
    <3>2. TimesAsked(ask) <= Askings(ask) /\ Askings(ask) \in Nat
      BY <3>1 DEF Askings
    <3>3. Askings(ask) <= IF ask \in dropped THEN 2 ELSE 1
      BY DEF AskInv, Asking, AskOK
    <3> QED
      BY <3>1, <3>2, <3>3
  <2> QED
    BY <2>1 DEF AskedOnce
<1>3. ThreadIsCurrent
  <2>1. ASSUME Quiet, ~error, ~behind, selected # NoThread
        PROVE  selected.row = conversations[selected.id]
    <3>1. DOMAIN sent = {} /\ DOMAIN answers = {} /\ sending = NoSend
      BY <2>1 DEF Quiet, EmptyBag, SetToBag
    <3>2. ~Forewarned
      BY <2>1, <3>1 DEF Forewarned
    <3>3. IsCurrent(selected.id, selected.row)
      BY <2>1, <3>1, <3>2 DEF AskInv, Following, Caught
    <3> QED
      BY <2>1, <3>3 DEF IsCurrent, AskInv, NetTyped, AskPageOK
  <2> QED
    BY <2>1 DEF ThreadIsCurrent
<1> QED
  BY <1>1, <1>2, <1>3 DEF ThreadTold

LEMMA AskHolds == AskSteps => [](BudgetKept /\ ThreadTold)
<1>1. AskInit => AskInv
  BY AskBegins
<1>2. AskInv /\ [AskNext]_askVars => AskInv'
  BY AskGoesOn
<1>3. AskInv => BudgetKept /\ ThreadTold
  BY InvSays
<1> QED
  BY <1>1, <1>2, <1>3, PTL DEF AskSteps

(* The searches of a day exceed the budget by no more than what the        *)
(* answers used whose look at the budget was overtaken, for every budget,  *)
(* every maximum for one answer, and however many handlers are at work:    *)
(* persist_turn reads the sum and commits its own use in one transaction,  *)
(* with the provider's call in between (btx_platform/assistant.py).        *)
THEOREM BudgetAlwaysKept == AskSpec => []BudgetKept
BY AskHolds, PTL DEF AskSpec, AskSteps

(* The thread on the page is the one on record once everything is quiet,   *)
(* and no question is in the transcripts more often than it was sent,      *)
(* whatever order requests and answers come in and whichever are lost      *)
(* (ui/surfaces/AskSurface.tsx).                                           *)
THEOREM ThreadAlwaysTold == AskSpec => []ThreadTold
BY AskHolds, PTL DEF AskSpec, AskSteps
=============================================================================
