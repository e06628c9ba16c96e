----------------------------- MODULE MonitorDesk -----------------------------
(***************************************************************************)
(* The industry updates (frontend/src/ui/intelligence/IndustryUpdates.tsx) *)
(* over the routes of btx_platform/api.py that review them.  The page      *)
(* shows the monitor's updates as its last load gave them, each with the   *)
(* status of its review, and undoes the last review that it made.          *)
(*                                                                         *)
(* A handler is one step; what it appends to the history of an update is a *)
(* count here.  The branch of undoLastReview for a build without a backend *)
(* is left out: no review is made there that could be undone.              *)
(***************************************************************************)
EXTENDS Naturals

CONSTANTS
  Updates,     \* the updates of the monitor
  Features,    \* of each: relation to accounts, program, whether it is high and fresh
  Rejected,    \* items that the monitor screened out
  Unreviewed,  \* no review, no previous status
  MaxReviews,  \* bound on the reviews and drafts of the page
  MaxOthers,   \* bound on those of others
  MaxLoads     \* bound on loads

VARIABLES
  reviews,     \* industry_review of each update, and how many there have been
  page,        \* the state of IndustryUpdates
  loading,     \* the load that the page still listens to
  patches,     \* calls that are not over
  restored,    \* history: what the last undo that was served gave back
  spent        \* reviews, changes of others, and loads so far

monitorVars == <<reviews, page, loading, patches, restored, spent>>

StatusOf == [mark_reviewed |-> "reviewed", dismiss |-> "dismissed",
             needs_account_match |-> "needs_account_match"]

NoReview == [status |-> "new", prior |-> Unreviewed, count |-> 0]

NoUndo == [id |-> Unreviewed, replaced |-> Unreviewed, count |-> 0]

(* What a load gives: the status of each update, and the rejected items.   *)
NoMonitor == [updates |-> [u \in {} |-> "new"], rejected |-> {}]

Snapshot(rows) == [updates |-> [u \in Updates |-> rows[u].status], rejected |-> Rejected]

(* storedFallback: the signals of the snapshot, all of them new.           *)
StoredFallback == [updates |-> [u \in Updates |-> "new"], rejected |-> {}]

NoLoad == [phase |-> "none", monitor |-> NoMonitor]

NoPage == [open |-> FALSE, busy |-> FALSE, monitor |-> NoMonitor, undo |-> NoUndo]

MonitorInit ==
  /\ reviews = [u \in Updates |-> NoReview]
  /\ page = NoPage
  /\ loading = NoLoad
  /\ patches = {}
  /\ restored = "nothing"
  /\ spent = [reviews |-> 0, others |-> 0, loads |-> 0]
-----------------------------------------------------------------------------
(* matchesFilter, of the filters of the bar.                               *)
Matches(u, status, filter) ==
  CASE filter = "all" -> status # "dismissed"
    [] filter = "new" -> status = "new"
    [] filter = "needs_review" ->
         status = "needs_account_match" \/ Features[u].relation = "candidate"
    [] filter = "customers" -> Features[u].relation = "confirmed"
    [] filter = "prospects" -> Features[u].relation = "candidate"
    [] filter = "programs" -> Features[u].program
    [] filter = "new_high" -> status = "new" /\ Features[u].high /\ Features[u].fresh

Filters == {"new_high", "new", "needs_review", "customers", "prospects", "programs", "all"}

(* A card is there under some filter.                                      *)
Visible(u) ==
  /\ u \in DOMAIN page.monitor.updates
  /\ \E filter \in Filters : Matches(u, page.monitor.updates[u], filter)
-----------------------------------------------------------------------------
(* The effect: a load when the page opens, and for each new world; answers *)
(* to the one before are not heard any more.                               *)
Loads(page1) ==
  /\ spent.loads < MaxLoads
  /\ spent' = [spent EXCEPT !.loads = @ + 1]
  /\ page' = page1
  /\ loading' = [NoLoad EXCEPT !.phase = "asked"]
  /\ UNCHANGED <<reviews, patches, restored>>

OpenUpdates == ~page.open /\ Loads([NoPage EXCEPT !.open = TRUE])
WorldChanges == page.open /\ Loads(page)

Unheard(c) == [c EXCEPT !.heard = FALSE]

LeaveUpdates ==
  /\ page.open
  /\ page' = NoPage /\ loading' = NoLoad
  /\ patches' = {Unheard(c) : c \in patches}
  /\ UNCHANGED <<reviews, restored, spent>>

ReadMonitor ==
  /\ loading.phase = "asked"
  /\ loading' = [phase |-> "read", monitor |-> Snapshot(reviews)]
  /\ UNCHANGED <<reviews, page, patches, restored, spent>>

MonitorArrives ==
  /\ loading.phase = "read"
  /\ page' = [page EXCEPT !.monitor = loading.monitor]
  /\ loading' = NoLoad
  /\ UNCHANGED <<reviews, patches, restored, spent>>

MonitorFails ==
  /\ loading # NoLoad
  /\ page' = [page EXCEPT !.monitor = StoredFallback]
  /\ loading' = NoLoad
  /\ UNCHANGED <<reviews, patches, restored, spent>>

(* promoteRejected: taken off the page, and recorded nowhere.              *)
PromoteRejected(item) ==
  /\ item \in page.monitor.rejected
  /\ page' = [page EXCEPT !.monitor.rejected = @ \ {item}]
  /\ UNCHANGED <<reviews, loading, patches, restored, spent>>
-----------------------------------------------------------------------------
(* One call at a time, busyAction.                                         *)
Begins(u, action) ==
  /\ page.open /\ ~page.busy
  /\ spent.reviews < MaxReviews
  /\ spent' = [spent EXCEPT !.reviews = @ + 1]
  /\ page' = [page EXCEPT !.busy = TRUE]
  /\ patches' = patches \cup
       {[id |-> u, action |-> action, phase |-> "sent", heard |-> TRUE,
         status |-> Unreviewed, replaced |-> Unreviewed, count |-> 0]}
  /\ UNCHANGED <<reviews, loading, restored>>

(* review, with the reason that a dismissal must have; draftWork.          *)
Review(u, action) == Visible(u) /\ Begins(u, action)
DraftWork(u) == Visible(u) /\ Begins(u, "draft")

UndoLastReview == page.undo # NoUndo /\ Begins(page.undo.id, "restore_previous")

(* Mutant: the status to restore is the one before the first review.       *)
PriorOfFirst(row) == IF row.prior = Unreviewed THEN row.status ELSE row.prior

(* before["status"], or "new"                                              *)
Prior(row) == row.status

(* patch_industry_update: a restore is a review too, so that a second one  *)
(* takes the first one back.                                               *)
Reviewed(row, action) ==
  [status |-> IF action = "restore_previous" THEN row.prior ELSE StatusOf[action],
   prior |-> Prior(row), count |-> row.count + 1]

Unrestorable(c) == c.action = "restore_previous" /\ reviews[c.id].prior = Unreviewed

(* The undo of the page tells the review that it means by its number.      *)
Compared(c) ==
  IF reviews[c.id].count # page.undo.count THEN "another review"
  ELSE IF Reviewed(reviews[c.id], c.action).status = page.undo.replaced THEN "its own"
  ELSE "unlike"

ServeReview(c) ==
  /\ c.phase = "sent" /\ c.action # "draft" /\ ~Unrestorable(c)
  /\ reviews' = [reviews EXCEPT ![c.id] = Reviewed(@, c.action)]
  /\ patches' = (patches \ {c}) \cup
       {[c EXCEPT !.phase = "served", !.status = reviews'[c.id].status,
                  !.replaced = reviews[c.id].status, !.count = reviews'[c.id].count]}
  /\ restored' = IF c.action = "restore_previous" /\ c.heard THEN Compared(c) ELSE restored
  /\ UNCHANGED <<page, loading, spent>>

(* create_industry_update_work_item: a new item, or the one of the update, *)
(* be it closed or not.                                                    *)
ServeDraft(c) ==
  /\ c.phase = "sent" /\ c.action = "draft"
  /\ patches' = (patches \ {c}) \cup {[c EXCEPT !.phase = "served"]}
  /\ UNCHANGED <<reviews, page, loading, restored, spent>>

(* The answer: the status of the update, whatever is shown by now; to the  *)
(* draft, the way to its item, also from elsewhere.                        *)
PatchAnswered(c) ==
  /\ c.phase = "served"
  /\ patches' = IF c.action = "draft" THEN {Unheard(d) : d \in patches \ {c}} ELSE patches \ {c}
  /\ page' =
       IF c.action = "draft" THEN NoPage
       ELSE IF ~c.heard THEN page
       ELSE [page EXCEPT
               !.busy = FALSE,
               !.monitor.updates = [u \in DOMAIN @ |-> IF u = c.id THEN c.status ELSE @[u]],
               !.undo = IF c.action = "restore_previous" THEN NoUndo
                        ELSE [id |-> c.id, replaced |-> c.replaced, count |-> c.count]]
  /\ loading' = IF c.action = "draft" THEN NoLoad ELSE loading
  /\ UNCHANGED <<reviews, restored, spent>>

(* A refusal, or an error while the handler goes on; an undo is kept.      *)
PatchFailed(c) ==
  /\ c.heard
  /\ patches' = (patches \ {c}) \cup
       (IF c.phase = "sent" /\ ~Unrestorable(c) THEN {Unheard(c)} ELSE {})
  /\ page' = [page EXCEPT !.busy = FALSE]
  /\ UNCHANGED <<reviews, loading, restored, spent>>

OthersReview(u, action) ==
  /\ spent.others < MaxOthers
  /\ spent' = [spent EXCEPT !.others = @ + 1]
  /\ reviews' = [reviews EXCEPT ![u] = Reviewed(@, action)]
  /\ UNCHANGED <<page, loading, patches, restored>>

MonitorNext ==
  \/ OpenUpdates \/ WorldChanges \/ LeaveUpdates
  \/ ReadMonitor \/ MonitorArrives \/ MonitorFails
  \/ \E item \in Rejected : PromoteRejected(item)
  \/ \E u \in Updates :
       \/ DraftWork(u)
       \/ \E action \in DOMAIN StatusOf : Review(u, action) \/ OthersReview(u, action)
  \/ UndoLastReview
  \/ \E c \in patches : ServeReview(c) \/ ServeDraft(c) \/ PatchAnswered(c) \/ PatchFailed(c)

MonitorSpec == MonitorInit /\ [][MonitorNext]_monitorVars
-----------------------------------------------------------------------------
(* "Undo will restore the prior backend review status": it gives back the  *)
(* status that the review of this page replaced in the backend, however    *)
(* old the page was at that time - unless the update has been reviewed     *)
(* again since, by a colleague, or by a call of this page of which it has  *)
(* not heard; then it takes back that review.                              *)
UndoRestores == restored \in {"nothing", "its own", "another review"}
=============================================================================
