------------------------------ MODULE WorkViews ------------------------------
(***************************************************************************)
(* What the cockpit makes of one work item of the snapshot: the filters of *)
(* the queue (frontend/src/app/workItems.ts), its query in the route       *)
(* (ui/surfaces/WorkQueue.tsx), and the counters of the ribbon             *)
(* (app/presentation.ts) and of the briefing (ui/surfaces/TodayBrief.tsx), *)
(* each a link to the queue.                                               *)
(*                                                                         *)
(* The filters by type, account and program are as that by status, and the *)
(* order that the query asks for is applied to nothing.                    *)
(***************************************************************************)
EXTENDS Integers, Sequences

CONSTANT Unowned   \* an owner that is null

LOCAL Life == INSTANCE WorkLifecycle

Dues == {"none", "past", "today", "future"}   \* "today": earlier today
Priorities == {"low", "normal", "high", "urgent"}

IsOver(item) == item.status \in Life!Terminal

(* The clock says that an item of today is late; the filter compares days. *)
Late(item) == item.due \in {"past", "today"}
DaysLate(item) == item.due = "past"

(* filterWorkItems: the view that Ask shows.                               *)
NeedsAttention(item) ==
  ~IsOver(item) /\ (item.priority \in {"urgent", "high"} \/ DaysLate(item))

Unfiltered == [status |-> "all", approval |-> "all", execution |-> "all",
               priority |-> "all", owner |-> "", overdue |-> FALSE]

(* filtersFromQuery; updateFilter navigates to the query of the filters.   *)
FromQuery(query) ==
  [p \in DOMAIN Unfiltered |-> IF p \in DOMAIN query THEN query[p] ELSE Unfiltered[p]]

ToQuery(filters) ==
  [p \in {p \in DOMAIN filters : filters[p] # Unfiltered[p]} |-> filters[p]]

UpdateFilter(filters, p, value) == ToQuery([filters EXCEPT ![p] = value])

(* useWorkItems                                                            *)
Listed(item, filters) ==
  /\ \A p \in {"status", "approval", "execution", "priority"} :
       filters[p] \in {"all", item[p]}
  /\ CASE filters.owner = "" -> TRUE
       [] filters.owner = "unassigned" -> item.owner = Unowned
       [] OTHER -> item.owner = filters.owner
  /\ filters.overdue => DaysLate(item)
-----------------------------------------------------------------------------
(* workItemAlertLevel                                                      *)
AlertLevel(item) ==
  IF item.execution = "failed" THEN "critical"
  ELSE IF \/ item.approval = "pending" \/ item.status = "awaiting_approval"
          \/ Late(item) /\ ~IsOver(item)
  THEN "action_required"
  ELSE IF item.status \in {"detected", "triaged"} THEN "watch" ELSE "informational"

(* attentionItems, of which the briefing makes its decisions.              *)
IsDecision(item) ==
  ~IsOver(item) /\ (item.priority \in {"urgent", "high"} \/ item.approval = "pending" \/ Late(item))

(* primaryWorkAction                                                       *)
PrimaryAction(offered) ==
  LET order == <<"approve", "request_approval", "triage", "prepare", "start",
                 "mark_executed", "verify", "record_outcome", "close">>
      first == {n \in DOMAIN order : /\ order[n] \in offered
                                    /\ \A m \in 1 .. n - 1 : order[m] \notin offered}
  IN IF first # {} THEN order[CHOOSE n \in first : TRUE]
     ELSE CHOOSE action \in offered : TRUE

(* contextRibbonItems, and the attentionCards of the briefing.             *)
Counters == {"failed", "approvals", "overdue", "cardApprovals", "cardOverdue", "cardAttention"}

Counts(counter, item) ==
  CASE counter = "failed" -> item.execution = "failed"
    [] counter = "approvals" -> item.approval = "pending"
    [] counter \in {"overdue", "cardOverdue"} -> Late(item) /\ ~IsOver(item)
    [] counter = "cardApprovals" -> ~IsOver(item) /\ item.approval = "pending"
    [] counter = "cardAttention" -> IsDecision(item)

(* Mutant: the ribbon names the column, and not the parameter.             *)
QueryOfMisnamed(counter) ==
  CASE counter = "failed" -> [execution_state |-> "failed"]
    [] counter \in {"approvals", "cardApprovals"} -> [approval |-> "pending"]
    [] counter \in {"overdue", "cardOverdue"} -> [overdue |-> TRUE]
    [] counter = "cardAttention" -> [view |-> "needs_attention"]

(* The links.  The queue knows no parameter `view`.                        *)
QueryOf(counter) ==
  CASE counter = "failed" -> [execution |-> "failed"]
    [] counter \in {"approvals", "cardApprovals"} -> [approval |-> "pending"]
    [] counter \in {"overdue", "cardOverdue"} -> [overdue |-> TRUE]
    [] counter = "cardAttention" -> [view |-> "needs_attention"]

(* A counter leads to a list with each item that it counts, but for those  *)
(* that fell due earlier today; and with no other that is open, but for    *)
(* the list that is not filtered.  A filter that is chosen stands beside   *)
(* the one of the link.  What is open and due or awaits approval is a      *)
(* decision of the briefing.                                               *)
LeadsTo(item) ==
  /\ \A counter \in Counters :
       LET filters == FromQuery(QueryOf(counter))
           narrowed == FromQuery(UpdateFilter(filters, "status", item.status))
       IN /\ Counts(counter, item) =>
               Listed(item, filters) \/ (filters.overdue /\ item.due = "today")
          /\ Listed(item, filters) /\ ~IsOver(item) =>
               Counts(counter, item) \/ counter = "cardAttention"
          /\ Listed(item, narrowed) <=> Listed(item, filters)
  /\ AlertLevel(item) = "action_required" /\ ~IsOver(item) => IsDecision(item)
  /\ NeedsAttention(item) => IsDecision(item)
=============================================================================
