---------------------------- MODULE AssistantStore ----------------------------
(***************************************************************************)
(* The backend of Ask: the conversations of a tenant, and the handlers     *)
(* that add turns to them (btx_platform/assistant.py persist_turn  *)
(* and the routes of btx_platform/api.py around it).                       *)
(*                                                                         *)
(* A handler works in one transaction: it checks the conversation, reads   *)
(* the searches of the day, asks the provider, and its route commits the   *)
(* user's message with the answer.  Other requests commit in between.  A   *)
(* turn is kept as one message: which question it is for and the searches  *)
(* its answer used.                                                        *)
(***************************************************************************)
EXTENDS Naturals, Sequences, SequencesExt, FiniteSets

CONSTANTS
  Conversations,      \* identifiers that rows may get
  Asks,               \* questions that a client may send
  DailySearchBudget,  \* settings.ask_daily_search_budget
  WebMaxUses,         \* settings.ask_web_max_uses
  Start,              \* the tables that a behaviour may begin with
  None

VARIABLES
  conversations,  \* the committed rows
  turn            \* what the handler of each request holds

storeVars == <<conversations, turn>>

(* A row has a status, a title that is default, generated or chosen, and   *)
(* messages: each a question, the searches of its answer, and whether it   *)
(* was raced, which is history: another answer's searches were committed   *)
(* between this one's look at the budget and its own commit.               *)
NoRow == [status |-> "absent", title |-> "default", messages |-> <<>>]

(* A question is sent to /assistant/ask/stream, and to /assistant/ask.      *)
Requests == Asks \X {"stream", "ask"}

NoTurn == [step |-> "idle", of |-> None, remaining |-> 0, raced |-> FALSE]

(* A day begins with conversations that have no message of it.             *)
ASSUME StoreAssumption ==
  /\ None \notin Conversations /\ None \notin Asks
  /\ DailySearchBudget \in Nat /\ WebMaxUses \in Nat
  /\ Start \subseteq
       [Conversations ->
          {NoRow} \cup [status : {"active", "archived"},
                       title : {"default", "generated", "chosen"},
                       messages : {<<>>}]]

Existing == {c \in Conversations : conversations[c].status # "absent"}

WithStatus(s) == {c \in Existing : conversations[c].status = s}

StoreInit ==
  /\ conversations \in Start
  /\ turn = [h \in Requests |-> NoTurn]
-----------------------------------------------------------------------------
(* Where the messages are.                                                 *)
Places == UNION {{c} \X DOMAIN conversations[c].messages : c \in Conversations}

MessageAt(p) == conversations[p[1]].messages[p[2]]

SumUses(places) ==
  SumFunctionOnSet([p \in Places |-> MessageAt(p).uses], places)

(* The sum over the answers of the day that are committed.                 *)
DailySearchUses == SumUses(Places)

(* POST /assistant/conversations; the first free identifier stands for a   *)
(* fresh one.                                                              *)
Fresh == CHOOSE c \in Conversations : c \notin Existing

NewConversation(title) ==
  [status |-> "active", title |-> title, messages |-> <<>>]

HasRoom == Existing # Conversations

CreateConversation ==
  conversations' = [conversations EXCEPT ![Fresh] = NewConversation("default")]

(* rename_or_archive_conversation, of the columns that are given.          *)
Patched(row, change) ==
  CASE change = "title"   -> [row EXCEPT !.title = "generated"]
    [] change = "rename"  -> [row EXCEPT !.title = "chosen"]
    [] change = "archive" -> [row EXCEPT !.status = "archived"]
    [] change = "restore" -> [row EXCEPT !.status = "active"]

PatchConversation(c, change) ==
  conversations' = [conversations EXCEPT ![c] = Patched(@, change)]

(* get_conversation and the check of its status: of is None when a row is  *)
(* to be created, in the transaction of the turn.                          *)
Refused(c) == c \in Existing /\ conversations[c].status = "archived"

BeginTurn(h, c) ==
  /\ turn[h] = NoTurn
  /\ turn' = [turn EXCEPT ![h] =
       [NoTurn EXCEPT !.step = "checked",
          !.of = IF c \in Existing THEN c ELSE None]]
  /\ UNCHANGED conversations

(* What is left of the budget, which the provider call is limited to: none *)
(* for a question about the workspace, and none when the budget is gone.   *)
ReadBudget(h) ==
  /\ turn[h].step = "checked"
  /\ \E web \in BOOLEAN :
       turn' = [turn EXCEPT
         ![h].step = "answering",
         ![h].remaining = IF web /\ DailySearchUses < DailySearchBudget
                          THEN DailySearchBudget - DailySearchUses ELSE 0]
  /\ UNCHANGED conversations

(* Mutant: the provider may use the maximum whenever anything is left.     *)
AllowedUsesUncapped(remaining) == IF remaining = 0 THEN 0 ELSE WebMaxUses

AllowedUses(remaining) ==
  IF remaining < WebMaxUses THEN remaining ELSE WebMaxUses

(* The messages are committed; those who have read the budget before now   *)
(* hold an old sum.  A provider's error leaves an answer without searches. *)
CommitTurn(h, uses) ==
  /\ turn[h].step = "answering"
  /\ turn[h].of # None \/ HasRoom
  /\ uses \in 0..AllowedUses(turn[h].remaining)
  /\ LET c == IF turn[h].of = None THEN Fresh ELSE turn[h].of
         row == IF turn[h].of = None THEN NewConversation("generated")
                ELSE conversations[c]
         m == [ask |-> h[1], uses |-> uses, raced |-> turn[h].raced]
     IN conversations' = [conversations EXCEPT
          ![c] = [row EXCEPT !.messages = Append(@, m)]]
  /\ turn' = [other \in Requests |->
       IF other = h THEN NoTurn
       ELSE [turn[other] EXCEPT
               !.raced = @ \/ (turn[other].step = "answering" /\ uses > 0)]]

Committed(h) == IF turn[h].of = None THEN Fresh ELSE turn[h].of
-----------------------------------------------------------------------------
(* The searches of a day exceed the budget by no more than what answers    *)
(* used whose look at the budget was overtaken by another's searches: the  *)
(* read and the commit of persist_turn are apart by the provider's call.   *)
BudgetKept ==
  DailySearchUses <= DailySearchBudget
    + SumUses({p \in Places : MessageAt(p).raced})
=============================================================================
