------------------------------ MODULE WorkDesk ------------------------------
(***************************************************************************)
(* The page of one work item (frontend/src/ui/surfaces/WorkQueue.tsx and   *)
(* app/workItems.ts) over the handlers that it calls (btx_platform/api.py).*)
(* The page shows the item of the last snapshot of the world, which only a *)
(* refresh replaces: what its own calls answer it throws away, so that it  *)
(* works from a copy that it, or a colleague, has made out of date.        *)
(*                                                                         *)
(* A handler is one step here; WorkItems has its threads.  Notes, reasons  *)
(* and outcomes are texts, and the owner stands for all that a save sets.  *)
(* HubSpot is connected, and the build allows CRM writes: else nothing can *)
(* be executed at all.                                                     *)
(***************************************************************************)
EXTENDS WorkViews, FiniteSets, Naturals

CONSTANTS
  Owners,         \* who owns work
  StartRows,      \* rows that the page may find
  MaxCommands,    \* bound on the calls of the page
  MaxColleagues   \* bound on the changes of others

VARIABLES
  work,        \* the row of the item
  copy,        \* the item of world.worldSnapshot, with its allowed_actions
  snapshot,    \* the copy in a snapshot that is under way, or NoCopy
  desk,        \* the state of WorkItemDetail
  commands,    \* calls that are not over
  task,        \* how the last task in HubSpot compares with its preview
  role,        \* the role of the user
  given,       \* calls so far
  elsewhere    \* changes of others so far

deskVars == <<work, copy, snapshot, desk, commands, task, role, given, elsewhere>>

Life == INSTANCE WorkLifecycle

ItemRow ==
  [status : Life!Status, approval : Life!Approval, execution : Life!Execution,
   external : Nat, owner : Owners \cup {Unowned}]

(* What awaits approval has an approval pending: WorkItems shows it of the *)
(* rows, whoever has worked on them.                                       *)
AwaitsPending(row) == row.status = "awaiting_approval" => row.approval = "pending"

ASSUME WorkDeskAssumption ==
  StartRows \subseteq {row \in ItemRow : AwaitsPending(row)}

(* _apply_work_item_transition: who may give a command.                    *)
Permits(who, action) ==
  action \in {"approve", "reject", "reopen"} => who \in {"cro", "admin"}

(* _allowed_work_item_actions                                              *)
Offered(row, who) ==
  IF who = "viewer" THEN {}
  ELSE {action \in DOMAIN Life!Transitions[row.status] :
          /\ action \in {"approve", "reject", "reopen"} => who \in {"cro", "admin"}
          /\ action = "dismiss" /\ row.status = "approved" => who = "admin"}

CopyOf(row) == [row |-> row, offered |-> Offered(row, role)]
NoCopy == [row |-> Unowned, offered |-> {}]

NoPreview == [allowed |-> FALSE, told |-> Unowned, sent |-> Unowned, row |-> Unowned]

NoDesk == [open |-> FALSE, busy |-> FALSE, pending |-> "none", message |-> FALSE,
           undo |-> FALSE, preview |-> NoPreview]

DeskInit ==
  /\ work \in StartRows
  /\ role \in {"viewer", "analyst", "cro", "admin"}
  /\ copy = NoCopy /\ snapshot = NoCopy
  /\ desk = NoDesk
  /\ commands = {}
  /\ task = "none"
  /\ given = 0 /\ elsewhere = 0

AtRest == desk.open /\ ~desk.busy

(* The call that a button makes, with what the page shows at that time.    *)
Calls(kind, action, owner, desk1) ==
  /\ AtRest
  /\ given < MaxCommands
  /\ given' = given + 1
  /\ desk' = [desk1 EXCEPT !.busy = TRUE]
  /\ commands' = commands \cup
       {[kind |-> kind, action |-> action, owner |-> owner,
         seen |-> IF kind = "execute" THEN desk.preview ELSE NoPreview,
         phase |-> "sent", heard |-> TRUE, ok |-> FALSE, offered |-> TRUE,
         preview |-> NoPreview]}
  /\ UNCHANGED <<work, copy, snapshot, task, role, elsewhere>>

Shows(desk1) ==
  /\ desk' = desk1
  /\ UNCHANGED <<work, copy, snapshot, commands, task, role, given, elsewhere>>
-----------------------------------------------------------------------------
(* The page; before the first snapshot there is none.                      *)
OpenItem ==
  /\ ~desk.open /\ copy # NoCopy
  /\ Shows([NoDesk EXCEPT !.open = TRUE])

(* Back to the queue; nobody hears the answers any more.                   *)
LeaveItem ==
  /\ desk.open
  /\ desk' = NoDesk
  /\ commands' = {[c EXCEPT !.heard = FALSE] : c \in commands}
  /\ UNCHANGED <<work, copy, snapshot, task, role, given, elsewhere>>

NeedsConfirmation(action) == action \in {"dismiss", "reject", "record_outcome", "close"}

(* requestAction                                                           *)
RequestAction(action) ==
  /\ AtRest
  /\ action \in copy.offered
  /\ IF NeedsConfirmation(action)
     THEN Shows([desk EXCEPT !.pending = action])
     ELSE Calls("transition", action, Unowned, [desk EXCEPT !.message = FALSE])

(* The pending action with its reason or outcome; a refresh in between     *)
(* does not take it back.                                                  *)
ConfirmAction ==
  /\ desk.pending # "none"
  /\ Calls("transition", desk.pending, Unowned, [desk EXCEPT !.message = FALSE])

CancelAction == AtRest /\ desk.pending # "none" /\ Shows([desk EXCEPT !.pending = "none"])

(* undoLastAction: the button is part of the message.                      *)
UndoLastAction ==
  /\ desk.undo /\ desk.message
  /\ Calls("undo", "reopen", Unowned, desk)

(* Save assignment and schedule: the whole draft, as the page found the    *)
(* item when it was opened, or as the user left it.                        *)
SaveDraft(owner) == Calls("metadata", "none", owner, desk)

AddNote == Calls("note", "none", Unowned, desk)

PreviewTask == Calls("preview", "none", copy.row.owner, desk)

ClosePreview == AtRest /\ Shows([desk EXCEPT !.preview = NoPreview])

(* Execute approved task.                                                  *)
ExecuteTask == desk.preview.allowed /\ Calls("execute", "none", copy.row.owner, desk)
-----------------------------------------------------------------------------
(* The handlers.                                                           *)
Served(c, ok) == commands' = (commands \ {c}) \cup {[c EXCEPT !.phase = "served", !.ok = ok]}

Refuses(c) ==
  /\ Served(c, FALSE)
  /\ UNCHANGED <<work, copy, snapshot, desk, task, role, given, elsewhere>>

Writes(c, row) ==
  /\ work' = row
  /\ Served(c, TRUE)
  /\ UNCHANGED <<copy, snapshot, desk, task, role, given, elsewhere>>

(* The middleware answers a viewer 403.                                    *)
MayWrite == role # "viewer"

(* History: the server offers the command, or takes it without doing so.   *)
MayOffer(action) ==
  action \in Offered(work, role) \/ (action = "dismiss" /\ work.status = "approved")

ServeTransition(c) ==
  /\ c.phase = "sent" /\ c.kind \in {"transition", "undo"}
  /\ IF MayWrite /\ Permits(role, c.action) /\ c.action \in DOMAIN Life!Transitions[work.status]
     THEN /\ work' = Life!After(work, c.action)
          /\ commands' = (commands \ {c}) \cup
               {[c EXCEPT !.phase = "served", !.ok = TRUE, !.offered = MayOffer(c.action)]}
          /\ UNCHANGED <<copy, snapshot, desk, task, role, given, elsewhere>>
     ELSE Refuses(c)

(* patch_work_item, at any status and approval; add_work_item_note.        *)
ServeEdit(c) ==
  /\ c.phase = "sent" /\ c.kind \in {"metadata", "note"}
  /\ IF ~MayWrite THEN Refuses(c)
     ELSE Writes(c, IF c.kind = "note" THEN work
                    ELSE [work EXCEPT !.owner = c.owner])

(* Mutant: the execution leaves the owner to the row.                      *)
SentUnowned(c) == IF c.kind = "execute" THEN Unowned ELSE c.owner

(* previewHubSpotTask, executeHubSpotTask: the owner of the page's item.   *)
Sent(c) == c.owner

(* payload.owner_id or row.owner: what is sent goes before what is stored. *)
TaskOwner(c) == IF Sent(c) # Unowned THEN Sent(c) ELSE work.owner

ServePreview(c) ==
  /\ c.phase = "sent" /\ c.kind = "preview"
  /\ MayWrite
  /\ commands' = (commands \ {c}) \cup
       {[c EXCEPT !.phase = "served", !.ok = TRUE,
           !.preview = [allowed |-> work.approval = "approved" /\ role \in {"cro", "admin"},
                        told |-> TaskOwner(c), sent |-> c.owner, row |-> work.owner]]}
  /\ UNCHANGED <<work, copy, snapshot, desk, task, role, given, elsewhere>>

ServePreviewRefused(c) ==
  /\ c.phase = "sent" /\ c.kind = "preview"
  /\ ~MayWrite
  /\ Refuses(c)

Compared(c) ==
  IF ~c.seen.allowed THEN "unallowed"
  ELSE IF c.owner # c.seen.sent \/ work.owner # c.seen.row THEN "edited since"
  ELSE IF TaskOwner(c) = c.seen.told THEN "as told" ELSE "unlike"

(* execute_work_item_hubspot_task.  HubSpot creates the task and verifies  *)
(* it, or fails having created it or not.                                  *)
Executable == role \in {"cro", "admin"} /\ Life!MayExecute(work)

ServeExecute(c) ==
  /\ c.phase = "sent" /\ c.kind = "execute"
  /\ Executable
  /\ \E creates \in BOOLEAN, verifies \in BOOLEAN :
       /\ verifies => creates
       /\ work' = IF verifies
                  THEN [work EXCEPT !.status = "verified", !.execution = "verified", !.external = 1]
                  ELSE [work EXCEPT !.status = "in_progress", !.execution = "failed"]
       /\ task' = IF creates THEN Compared(c) ELSE task
       /\ Served(c, verifies)
  /\ UNCHANGED <<copy, snapshot, desk, role, given, elsewhere>>

(* The answer for a task that exists already is the task; the others are   *)
(* refusals.                                                               *)
ServeExecuteAgain(c) ==
  /\ c.phase = "sent" /\ c.kind = "execute"
  /\ ~Executable
  /\ Served(c, work.external # 0)
  /\ UNCHANGED <<work, copy, snapshot, desk, task, role, given, elsewhere>>
-----------------------------------------------------------------------------
(* The answer, or an error in its place while the handler goes on: then    *)
(* what was pending, or could be undone, is kept for another attempt.      *)
Heard(c, desk1) ==
  /\ desk' = IF c.heard THEN [desk1 EXCEPT !.busy = FALSE] ELSE desk
  /\ UNCHANGED <<work, copy, snapshot, task, role, given, elsewhere>>

CommandAnswered(c) ==
  /\ c.phase = "served"
  /\ commands' = commands \ {c}
  /\ Heard(c,
       IF ~c.ok THEN desk
       ELSE CASE c.kind = "transition" ->
                   [desk EXCEPT !.message = TRUE, !.pending = "none",
                                !.undo = c.action \in {"dismiss", "close"}]
              [] c.kind = "undo" -> [desk EXCEPT !.message = TRUE, !.undo = FALSE]
              [] c.kind = "preview" -> [desk EXCEPT !.preview = c.preview]
              [] OTHER -> [desk EXCEPT !.message = TRUE])

ConnectionLost(c) ==
  /\ c.heard
  /\ commands' = (commands \ {c}) \cup
       (IF c.phase = "sent" THEN {[c EXCEPT !.heard = FALSE]} ELSE {})
  /\ Heard(c, desk)
-----------------------------------------------------------------------------
(* GET /world reads the row; its answer replaces the world of the page.    *)
ReadWorld ==
  /\ snapshot = NoCopy
  /\ snapshot' = CopyOf(work)
  /\ UNCHANGED <<work, copy, desk, commands, task, role, given, elsewhere>>

WorldArrives ==
  /\ snapshot # NoCopy
  /\ copy' = snapshot /\ snapshot' = NoCopy
  /\ UNCHANGED <<work, desk, commands, task, role, given, elsewhere>>

(* A colleague, who may be an admin.                                       *)
Colleague ==
  /\ elsewhere < MaxColleagues
  /\ elsewhere' = elsewhere + 1
  /\ \/ \E action \in DOMAIN Life!Transitions[work.status] : work' = Life!After(work, action)
     \/ \E owner \in Owners \cup {Unowned} : work' = [work EXCEPT !.owner = owner]
  /\ UNCHANGED <<copy, snapshot, desk, commands, task, role, given>>

DeskNext ==
  \/ OpenItem \/ LeaveItem
  \/ \E action \in copy.offered : RequestAction(action)
  \/ ConfirmAction \/ CancelAction \/ UndoLastAction
  \/ (\E owner \in Owners \cup {Unowned} : SaveDraft(owner)) \/ AddNote \/ PreviewTask \/ ClosePreview \/ ExecuteTask
  \/ \E c \in commands :
       \/ ServeTransition(c) \/ ServeEdit(c) \/ ServePreview(c) \/ ServePreviewRefused(c)
       \/ ServeExecute(c) \/ ServeExecuteAgain(c) \/ CommandAnswered(c) \/ ConnectionLost(c)
  \/ ReadWorld \/ WorldArrives \/ Colleague

DeskSpec == DeskInit /\ [][DeskNext]_deskVars
-----------------------------------------------------------------------------
(* No task comes from the page without a preview that allowed it; and the  *)
(* task is the one that the preview told, unless what the page shows, or   *)
(* the row, was edited since.  (The body is not: the page sends one of its *)
(* own with the execution.)                                                *)
TaskAsPreviewed == task \in {"none", "as told", "edited since"}

(* However old the copy is that the page works from, the row only takes    *)
(* commands that the server would offer to this user by then - other than  *)
(* the dismissal of approved work, which it offers to admins and takes     *)
(* from anyone who writes.                                                 *)
CommandsOffered == \A c \in commands : c.offered

(* From an old page nothing is done to an item but what its server offers  *)
(* and its preview told (WorkQueue.tsx, api.py).                           *)
TaskAsOffered == TaskAsPreviewed /\ CommandsOffered

(* Where no item is open, the counters lead to this one, whatever its due  *)
(* date and priority; and its page puts first a command that it offers.    *)
CountersLead ==
  /\ copy # NoCopy /\ ~desk.open => \A due \in Dues, priority \in Priorities :
       LeadsTo([status |-> copy.row.status, approval |-> copy.row.approval,
                execution |-> copy.row.execution, owner |-> copy.row.owner,
                due |-> due, priority |-> priority])
  /\ copy.offered # {} => PrimaryAction(copy.offered) \in copy.offered
=============================================================================
