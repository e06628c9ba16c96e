---------------------------- MODULE WorkplaceProofs ----------------------------
(***************************************************************************)
(* Proofs about the surfaces of the workplace: the settings within it, the *)
(* page of a work item, the composition of documents, the feed, the        *)
(* snapshot of the world with the pages that tell of it; and that a        *)
(* session of all of them is a session of each (WorkplaceSurfaces).        *)
(***************************************************************************)
EXTENDS Workplace, SettingsProofs, SumProofs

(* No other surface touches the settings, the configurations, the runs.    *)
THEOREM WorkplaceSettings == WorkplaceSpec => SettingsSpec
<1>1. WorkplaceInit => SettingsInit
  BY DEF WorkplaceInit
<1>2. ASSUME [WorkplaceNext]_workplaceVars PROVE [SettingsNext]_settingsVars
  BY <1>2 DEF WorkplaceNext, SettingsStep, FeedStep, DraftStep, DeskStep, WorldStep, workplaceVars
<1> QED
  BY <1>1, <1>2, PTL DEF WorkplaceSpec, SettingsSpec

(* So what holds of the settings alone holds in a session of any surface.  *)
THEOREM WorkplaceSettingsHold ==
  WorkplaceSpec => [](AnsweredSavesKept /\ RunsApart /\ RunsKeep /\ LabelTruthful)
BY WorkplaceSettings, SavesAlwaysKept, RunsAlwaysApart, RunsAlwaysKeep, LabelAlwaysTruthful, PTL
-----------------------------------------------------------------------------
(* The page of a work item.                                                *)

(* The commands from the lifecycle, with what they make of a row.          *)
ItemOK(row) == row \in ItemRow /\ AwaitsPending(row)

LEMMA AfterKept ==
  ASSUME NEW row, ItemOK(row), NEW a \in DOMAIN Life!Transitions[row.status],
         NEW new, new = Life!After(row, a)
  PROVE  ItemOK(new)
<1>1. row \in ItemRow /\ row.status \in Life!Status
  BY DEF ItemOK, ItemRow
<1>2. Life!Transitions[row.status][a] \in Life!Status
  BY <1>1 DEF Life!Transitions, Life!Status
<1>3. a \in DOMAIN Life!ApprovalOf => Life!ApprovalOf[a] \in Life!Approval
  BY DEF Life!ApprovalOf, Life!Approval
<1>4. a \in DOMAIN Life!ExecutionOf => Life!ExecutionOf[a] \in Life!Execution
  BY DEF Life!ExecutionOf, Life!Execution
<1>5. new \in ItemRow /\ new.status = Life!Transitions[row.status][a]
  BY <1>1, <1>2, <1>3, <1>4 DEF Life!After, ItemRow
<1>6. new.status = "awaiting_approval" => a = "request_approval"
  BY <1>1, <1>5 DEF Life!Transitions, Life!Status
<1>7. a = "request_approval" => new.approval = "pending"
  BY <1>1 DEF Life!After, Life!ApprovalOf, ItemRow
<1> QED
  BY <1>5, <1>6, <1>7 DEF ItemOK, AwaitsPending

(* A preview tells the owner that an execution like it would set.          *)
PreviewTrue(p) == p.allowed => p.told = IF p.sent # Unowned THEN p.sent ELSE p.row

CommandShape(c) ==
  c = [kind |-> c.kind, action |-> c.action, owner |-> c.owner, seen |-> c.seen,
       phase |-> c.phase, heard |-> c.heard, ok |-> c.ok, offered |-> c.offered,
       preview |-> c.preview]

CommandOK(c) ==
  /\ CommandShape(c)
  /\ c.offered
  /\ PreviewTrue(c.preview) /\ PreviewTrue(c.seen)
  /\ c.kind = "execute" => c.seen.allowed
  /\ c.kind = "metadata" => c.owner \in Owners \cup {Unowned}

DeskShape(d) ==
  d = [open |-> d.open, busy |-> d.busy, pending |-> d.pending, message |-> d.message,
       undo |-> d.undo, preview |-> d.preview]

(* The previews that an execution can come from told the truth when they   *)
(* were made; the copies that the counters count are rows.                 *)
DInv ==
  /\ ItemOK(work)
  /\ snapshot # NoCopy => ItemOK(snapshot.row)
  /\ copy # NoCopy => ItemOK(copy.row)
  /\ DeskShape(desk) /\ PreviewTrue(desk.preview)
  /\ \A c \in commands : CommandOK(c)
  /\ TaskAsPreviewed

(* What the page and the handlers make of a command.                       *)
LEMMA CommandFields ==
  ASSUME NEW c, CommandOK(c), NEW ok, NEW y
  PROVE  /\ y = [c EXCEPT !.heard = ok] => CommandOK(y)
         /\ y = [c EXCEPT !.phase = "served", !.ok = ok] => CommandOK(y)
         /\ ok /\ y = [c EXCEPT !.phase = "served", !.ok = TRUE, !.offered = ok] => CommandOK(y)
         /\ PreviewTrue(ok) /\ y = [c EXCEPT !.phase = "served", !.ok = TRUE, !.preview = ok] =>
              CommandOK(y)
<1> PICK k, a, o, s, f, h, k1, f1, p :
      c = [kind |-> k, action |-> a, owner |-> o, seen |-> s, phase |-> f,
           heard |-> h, ok |-> k1, offered |-> f1, preview |-> p]
  BY DEF CommandOK, CommandShape
<1>1. /\ f1 /\ PreviewTrue(p) /\ PreviewTrue(s)
      /\ k = "execute" => s.allowed
      /\ k = "metadata" => o \in Owners \cup {Unowned}
  BY DEF CommandOK
<1>2. ASSUME y = [c EXCEPT !.heard = ok] PROVE CommandOK(y)
  BY <1>1, <1>2 DEF CommandOK, CommandShape
<1>3. ASSUME y = [c EXCEPT !.phase = "served", !.ok = ok] PROVE CommandOK(y)
  BY <1>1, <1>3 DEF CommandOK, CommandShape
<1>4. ASSUME ok, y = [c EXCEPT !.phase = "served", !.ok = TRUE, !.offered = ok] PROVE CommandOK(y)
  BY <1>1, <1>4 DEF CommandOK, CommandShape
<1>5. ASSUME PreviewTrue(ok), y = [c EXCEPT !.phase = "served", !.ok = TRUE, !.preview = ok]
      PROVE  CommandOK(y)
  BY <1>1, <1>5 DEF CommandOK, CommandShape
<1> QED
  BY <1>2, <1>3, <1>4, <1>5

(* And of the page.                                                        *)
DeskLike(d, p) == DeskShape(d) /\ d.preview = p

LEMMA DeskFields ==
  ASSUME NEW d, NEW p, DeskLike(d, p), NEW b, NEW a, NEW u, NEW y,
         \/ y = [d EXCEPT !.busy = b]
         \/ y = [d EXCEPT !.open = b]
         \/ y = [d EXCEPT !.message = b]
         \/ y = [d EXCEPT !.pending = a]
         \/ y = [d EXCEPT !.message = b, !.undo = u]
         \/ y = [d EXCEPT !.message = b, !.pending = a, !.undo = u]
  PROVE  DeskLike(y, p)
<1> PICK d1, d2, d3, d4, d5 :
      d = [open |-> d1, busy |-> d2, pending |-> d3, message |-> d4, undo |-> d5, preview |-> p]
  BY DEF DeskLike, DeskShape
<1> QED
  BY DEF DeskLike, DeskShape

LEMMA DeskPreview ==
  ASSUME NEW d, DeskShape(d), NEW p, NEW y, y = [d EXCEPT !.preview = p]
  PROVE  DeskLike(y, p)
BY DEF DeskLike, DeskShape

(* A call of the page, which shows desk1 while it waits.                   *)
LEMMA CallsKept ==
  ASSUME DInv, NEW kind, NEW action, NEW owner, NEW desk1,
         DeskLike(desk1, desk.preview), Calls(kind, action, owner, desk1),
         kind = "execute" => desk.preview.allowed,
         kind = "metadata" => owner \in Owners \cup {Unowned}
  PROVE  DInv'
<1>1. UNCHANGED <<work, copy, snapshot, task>>
  BY DEF Calls
<1>2. DeskShape(desk') /\ PreviewTrue(desk'.preview)
  <2>1. desk' = [desk1 EXCEPT !.busy = TRUE] /\ PreviewTrue(desk.preview)
    BY DEF Calls, DInv
  <2>2. DeskLike(desk', desk.preview)
    BY <2>1, DeskFields
  <2> QED
    BY <2>1, <2>2 DEF DeskLike
<1>3. ASSUME NEW c \in commands' PROVE CommandOK(c)
  <2> PICK seen : seen = IF kind = "execute" THEN desk.preview ELSE NoPreview
    OBVIOUS
  <2>1. \/ c \in commands
        \/ c = [kind |-> kind, action |-> action, owner |-> owner, seen |-> seen,
                phase |-> "sent", heard |-> TRUE, ok |-> FALSE, offered |-> TRUE,
                preview |-> NoPreview]
    BY DEF Calls
  <2>2. PreviewTrue(NoPreview) /\ PreviewTrue(seen) /\ (kind = "execute" => seen.allowed)
    BY DEF NoPreview, PreviewTrue, DInv
  <2> QED
    BY <2>1, <2>2 DEF CommandOK, CommandShape, DInv
<1> QED
  BY <1>1, <1>2, <1>3 DEF DInv, TaskAsPreviewed

LEMMA ShowsKept ==
  ASSUME DInv, NEW desk1, NEW p, DeskLike(desk1, p), PreviewTrue(p), Shows(desk1)
  PROVE  DInv'
BY DEF DInv, Shows, DeskLike, TaskAsPreviewed

(* What the user does on the page.                                         *)
LEMMA PageKept ==
  ASSUME DInv,
         \/ OpenItem \/ LeaveItem
         \/ \E action \in copy.offered : RequestAction(action)
         \/ ConfirmAction \/ CancelAction \/ UndoLastAction
         \/ \E owner \in Owners \cup {Unowned} : SaveDraft(owner)
         \/ AddNote \/ PreviewTask \/ ClosePreview \/ ExecuteTask
  PROVE  DInv'
<1> PICK p : p = desk.preview
  OBVIOUS
<1>1. DeskLike(desk, p) /\ PreviewTrue(p)
  BY DEF DInv, DeskLike
<1>2. DeskLike(NoDesk, NoPreview) /\ PreviewTrue(NoPreview)
  BY DEF NoDesk, NoPreview, DeskLike, DeskShape, PreviewTrue
<1>3. CASE OpenItem
  <2> PICK d : d = [NoDesk EXCEPT !.open = TRUE]
    OBVIOUS
  <2>1. DeskLike(d, NoPreview)
    BY <1>2, DeskFields
  <2> QED
    BY <1>2, <1>3, <2>1, ShowsKept DEF OpenItem
<1>4. CASE LeaveItem
  <2>1. /\ desk' = NoDesk /\ commands' = {[c EXCEPT !.heard = FALSE] : c \in commands}
        /\ UNCHANGED <<work, copy, snapshot, task>>
    BY <1>4 DEF LeaveItem
  <2>2. \A c \in commands' : CommandOK(c)
    BY <2>1, CommandFields DEF DInv
  <2> QED
    BY <1>2, <2>1, <2>2 DEF DInv, DeskLike, TaskAsPreviewed
<1>5. ASSUME NEW action, RequestAction(action) PROVE DInv'
  <2> PICK d, e : d = [desk EXCEPT !.pending = action] /\ e = [desk EXCEPT !.message = FALSE]
    OBVIOUS
  <2>1. DeskLike(d, p) /\ DeskLike(e, p)
    BY <1>1, DeskFields
  <2>2. Shows(d) \/ Calls("transition", action, Unowned, e)
    BY <1>5 DEF RequestAction
  <2> QED
    BY <1>1, <2>1, <2>2, ShowsKept, CallsKept
<1>6. CASE ConfirmAction
  <2> PICK a, e : a = desk.pending /\ e = [desk EXCEPT !.message = FALSE]
    OBVIOUS
  <2>1. DeskLike(e, p)
    BY <1>1, DeskFields
  <2>2. Calls("transition", a, Unowned, e)
    BY <1>6 DEF ConfirmAction
  <2> QED
    BY <2>1, <2>2, CallsKept
<1>7. CASE CancelAction
  <2> PICK d : d = [desk EXCEPT !.pending = "none"]
    OBVIOUS
  <2>1. DeskLike(d, p) /\ Shows(d)
    BY <1>1, <1>7, DeskFields DEF CancelAction
  <2> QED
    BY <1>1, <2>1, ShowsKept
<1>8. CASE UndoLastAction \/ AddNote \/ PreviewTask \/ ExecuteTask
  <2> PICK d, owner : d = desk /\ owner = copy.row.owner
    OBVIOUS
  <2>1. \/ Calls("undo", "reopen", Unowned, d) \/ Calls("note", "none", Unowned, d)
        \/ Calls("preview", "none", owner, d)
        \/ desk.preview.allowed /\ Calls("execute", "none", owner, d)
    BY <1>8 DEF UndoLastAction, AddNote, PreviewTask, ExecuteTask
  <2> QED
    BY <1>1, <2>1, CallsKept
<1>9. ASSUME NEW owner \in Owners \cup {Unowned}, SaveDraft(owner) PROVE DInv'
  <2> PICK d : d = desk
    OBVIOUS
  <2>1. Calls("metadata", "none", owner, d)
    BY <1>9 DEF SaveDraft
  <2> QED
    BY <1>1, <2>1, CallsKept
<1>10. CASE ClosePreview
  <2> PICK d : d = [desk EXCEPT !.preview = NoPreview]
    OBVIOUS
  <2>1. DeskLike(d, NoPreview) /\ Shows(d)
    BY <1>10, DeskPreview DEF ClosePreview, DInv
  <2> QED
    BY <1>2, <2>1, ShowsKept
<1> QED
  BY <1>3, <1>4, <1>5, <1>6, <1>7, <1>8, <1>9, <1>10

(* The task of a call that comes from a true preview.                      *)
LEMMA ComparedSound ==
  ASSUME NEW c, CommandOK(c), c.kind = "execute"
  PROVE  Compared(c) \in {"as told", "edited since"}
<1>1. c.seen.allowed /\ PreviewTrue(c.seen)
  BY DEF CommandOK
<1>2. CASE c.owner # c.seen.sent \/ work.owner # c.seen.row
  BY <1>1, <1>2 DEF Compared
<1>3. CASE c.owner = c.seen.sent /\ work.owner = c.seen.row
  <2>1. TaskOwner(c) = c.seen.told
    BY <1>1, <1>3 DEF PreviewTrue, TaskOwner, Sent
  <2> QED
    BY <1>1, <1>3, <2>1 DEF Compared
<1> QED
  BY <1>2, <1>3

(* What a handler does with its command.                                   *)
LEMMA ServeKept ==
  ASSUME DInv, NEW c \in commands,
         \/ ServeTransition(c) \/ ServeEdit(c) \/ ServePreview(c) \/ ServePreviewRefused(c)
         \/ ServeExecute(c) \/ ServeExecuteAgain(c)
  PROVE  DInv'
<1>1. CommandOK(c) /\ ItemOK(work)
  BY DEF DInv
<1>2. ASSUME NEW d, CommandOK(d), commands' = (commands \ {c}) \cup {d},
             UNCHANGED <<copy, snapshot, desk>>, ItemOK(work'), TaskAsPreviewed'
      PROVE  DInv'
  BY <1>2 DEF DInv
<1>3. ASSUME NEW ok, Served(c, ok), UNCHANGED <<copy, snapshot, desk>>, ItemOK(work'),
             TaskAsPreviewed'
      PROVE  DInv'
  <2> PICK d : d = [c EXCEPT !.phase = "served", !.ok = ok]
    OBVIOUS
  <2>1. CommandOK(d)
    BY <1>1, CommandFields
  <2>2. commands' = (commands \ {c}) \cup {d}
    BY <1>3 DEF Served
  <2> QED
    BY <1>2, <1>3, <2>1, <2>2
<1>4. TaskAsPreviewed
  BY DEF DInv
<1>5. CASE Refuses(c)
  BY <1>1, <1>3, <1>4, <1>5 DEF Refuses, TaskAsPreviewed
<1>6. ASSUME ServeTransition(c), ~ Refuses(c) PROVE DInv'
  <2> PICK a, offered : a = c.action /\ offered = MayOffer(c.action)
    OBVIOUS
  <2>1. /\ MayWrite /\ Permits(role, a) /\ a \in DOMAIN Life!Transitions[work.status]
        /\ work' = Life!After(work, a)
        /\ commands' = (commands \ {c}) \cup
             {[c EXCEPT !.phase = "served", !.ok = TRUE, !.offered = offered]}
        /\ UNCHANGED <<copy, snapshot, desk, task>>
    BY <1>6 DEF ServeTransition
  <2>2. offered
    <3>1. role \in {"cro", "admin"} \/ a \notin {"approve", "reject", "reopen"}
      BY <2>1 DEF Permits
    <3>2. a \in Offered(work, role) \/ (a = "dismiss" /\ work.status = "approved")
      BY <2>1, <3>1 DEF MayWrite, Offered
    <3> QED
      BY <3>2 DEF MayOffer
  <2> PICK d : d = [c EXCEPT !.phase = "served", !.ok = TRUE, !.offered = offered]
    OBVIOUS
  <2>3. CommandOK(d)
    BY <1>1, <2>2, CommandFields
  <2>4. ItemOK(work')
    <3> PICK row, new : row = work /\ new = work'
      OBVIOUS
    <3> QED
      BY <1>1, <2>1, AfterKept
  <2> QED
    BY <1>2, <1>4, <2>1, <2>3, <2>4 DEF TaskAsPreviewed
<1>7. ASSUME ServeEdit(c), ~ Refuses(c) PROVE DInv'
  <2>1. /\ Served(c, TRUE) /\ UNCHANGED <<copy, snapshot, desk, task>>
        /\ work' = IF c.kind = "note" THEN work ELSE [work EXCEPT !.owner = c.owner]
        /\ c.kind \in {"metadata", "note"}
    BY <1>7 DEF ServeEdit, Writes
  <2>2. ItemOK(work')
    BY <1>1, <2>1 DEF ItemOK, ItemRow, AwaitsPending, CommandOK
  <2> QED
    BY <1>3, <1>4, <2>1, <2>2 DEF TaskAsPreviewed
<1>8. CASE ServePreview(c)
  <2> PICK allowed, told :
        /\ allowed = (work.approval = "approved" /\ role \in {"cro", "admin"})
        /\ told = TaskOwner(c)
    OBVIOUS
  <2> PICK p : p = [allowed |-> allowed, told |-> told, sent |-> c.owner, row |-> work.owner]
    OBVIOUS
  <2>1. PreviewTrue(p)
    <3>1. p.told = TaskOwner(c) /\ p.sent = c.owner /\ p.row = work.owner
      OBVIOUS
    <3> QED
      BY <3>1 DEF PreviewTrue, TaskOwner, Sent
  <2> PICK d : d = [c EXCEPT !.phase = "served", !.ok = TRUE, !.preview = p]
    OBVIOUS
  <2>2. CommandOK(d)
    BY <1>1, <2>1, CommandFields
  <2>3. commands' = (commands \ {c}) \cup {d} /\ UNCHANGED <<work, copy, snapshot, desk, task>>
    BY <1>8 DEF ServePreview
  <2> QED
    BY <1>1, <1>2, <1>4, <2>2, <2>3 DEF TaskAsPreviewed
<1>9. CASE ServeExecute(c)
  <2> PICK creates \in BOOLEAN, verifies \in BOOLEAN :
        /\ work' = IF verifies
                   THEN [work EXCEPT !.status = "verified", !.execution = "verified", !.external = 1]
                   ELSE [work EXCEPT !.status = "in_progress", !.execution = "failed"]
        /\ task' = IF creates THEN Compared(c) ELSE task
        /\ Served(c, verifies)
    BY <1>9 DEF ServeExecute
  <2>1. ItemOK(work')
    BY <1>1 DEF ItemOK, ItemRow, AwaitsPending, Life!Status, Life!Execution
  <2>2. TaskAsPreviewed'
    BY <1>1, <1>4, <1>9, ComparedSound DEF ServeExecute, TaskAsPreviewed
  <2>3. UNCHANGED <<copy, snapshot, desk>>
    BY <1>9 DEF ServeExecute
  <2> QED
    BY <1>3, <2>1, <2>2, <2>3
<1>10. CASE ServeExecuteAgain(c)
  <2> PICK ok : ok = (work.external # 0)
    OBVIOUS
  <2>1. Served(c, ok) /\ UNCHANGED <<work, copy, snapshot, desk, task>>
    BY <1>10 DEF ServeExecuteAgain
  <2> QED
    BY <1>1, <1>3, <1>4, <2>1 DEF TaskAsPreviewed
<1> QED
  BY <1>5, <1>6, <1>7, <1>8, <1>9, <1>10 DEF ServePreviewRefused

(* What the page makes of an answer, or of none.                           *)
LEMMA AnswerKept ==
  ASSUME DInv, NEW c \in commands, CommandAnswered(c) \/ ConnectionLost(c)
  PROVE  DInv'
<1>1. CommandOK(c) /\ DeskLike(desk, desk.preview) /\ PreviewTrue(desk.preview)
  BY DEF DInv, DeskLike
<1>2. ASSUME NEW desk1, NEW p, DeskLike(desk1, p), PreviewTrue(p), Heard(c, desk1)
      PROVE  /\ DeskShape(desk') /\ PreviewTrue(desk'.preview)
             /\ UNCHANGED <<work, copy, snapshot, task>>
  <2> PICK d : d = [desk1 EXCEPT !.busy = FALSE]
    OBVIOUS
  <2>1. DeskLike(d, p)
    BY <1>2, DeskFields
  <2>2. desk' = d \/ desk' = desk
    BY <1>2 DEF Heard
  <2> QED
    BY <1>1, <1>2, <2>1, <2>2 DEF DeskLike, Heard
<1>3. CASE CommandAnswered(c)
  <2>1. \A e \in commands' : CommandOK(e)
    BY <1>3 DEF CommandAnswered, DInv
  <2> PICK desk1 : desk1 = IF ~c.ok THEN desk
       ELSE CASE c.kind = "transition" ->
                   [desk EXCEPT !.message = TRUE, !.pending = "none",
                                !.undo = c.action \in {"dismiss", "close"}]
              [] c.kind = "undo" -> [desk EXCEPT !.message = TRUE, !.undo = FALSE]
              [] c.kind = "preview" -> [desk EXCEPT !.preview = c.preview]
              [] OTHER -> [desk EXCEPT !.message = TRUE]
    OBVIOUS
  <2>2. Heard(c, desk1)
    BY <1>3 DEF CommandAnswered
  <2>3. DeskLike(desk1, desk.preview) \/ DeskLike(desk1, c.preview)
    <3> PICK b : b = (c.action \in {"dismiss", "close"})
      OBVIOUS
    <3>1. \/ desk1 = desk
          \/ desk1 = [desk EXCEPT !.message = TRUE, !.pending = "none", !.undo = b]
          \/ desk1 = [desk EXCEPT !.message = TRUE, !.undo = FALSE]
          \/ desk1 = [desk EXCEPT !.preview = c.preview]
          \/ desk1 = [desk EXCEPT !.message = TRUE]
      OBVIOUS
    <3> QED
      BY <1>1, <3>1, DeskFields, DeskPreview DEF DInv
  <2>4. PreviewTrue(c.preview)
    BY <1>1 DEF CommandOK
  <2> QED
    BY <1>1, <1>2, <2>1, <2>2, <2>3, <2>4 DEF DInv, TaskAsPreviewed
<1>4. CASE ConnectionLost(c)
  <2> PICK d : d = [c EXCEPT !.heard = FALSE]
    OBVIOUS
  <2>1. CommandOK(d)
    BY <1>1, CommandFields
  <2>2. \A e \in commands' : e \in commands \/ e = d
    BY <1>4 DEF ConnectionLost
  <2> PICK desk1 : desk1 = desk
    OBVIOUS
  <2>3. Heard(c, desk1)
    BY <1>4 DEF ConnectionLost
  <2> QED
    BY <1>1, <1>2, <2>1, <2>2, <2>3 DEF DInv, TaskAsPreviewed
<1> QED
  BY <1>3, <1>4

(* What others do, and what the page learns of it.                         *)
LEMMA OthersKept ==
  ASSUME DInv, ReadWorld \/ WorldArrives \/ Colleague
  PROVE  DInv'
<1>1. CASE ReadWorld
  <2>1. snapshot'.row = work /\ UNCHANGED <<work, copy, desk, commands, task>>
    BY <1>1 DEF ReadWorld, CopyOf
  <2> QED
    BY <2>1 DEF DInv, TaskAsPreviewed
<1>2. CASE WorldArrives
  BY <1>2 DEF WorldArrives, DInv, TaskAsPreviewed
<1>3. CASE Colleague
  <2>1. ItemOK(work) /\ UNCHANGED <<copy, snapshot, desk, commands, task>>
    BY <1>3 DEF Colleague, DInv
  <2>2. ASSUME NEW a \in DOMAIN Life!Transitions[work.status], work' = Life!After(work, a)
        PROVE  ItemOK(work')
    <3> PICK row, new : row = work /\ new = work'
      OBVIOUS
    <3> QED
      BY <2>1, <2>2, AfterKept
  <2>3. ASSUME NEW owner \in Owners \cup {Unowned}, work' = [work EXCEPT !.owner = owner]
        PROVE  ItemOK(work')
    BY <2>1, <2>3 DEF ItemOK, ItemRow, AwaitsPending
  <2> QED
    BY <1>3, <2>1, <2>2, <2>3 DEF Colleague, DInv, TaskAsPreviewed
<1> QED
  BY <1>1, <1>2, <1>3

LEMMA DeskAlways == DeskSpec => []DInv
<1>1. ASSUME DeskInit PROVE DInv
  <2>1. ItemOK(work)
    BY <1>1, WorkDeskAssumption DEF DeskInit, ItemOK
  <2>2. DeskShape(desk) /\ PreviewTrue(desk.preview)
    BY <1>1 DEF DeskInit, NoDesk, NoPreview, DeskShape, PreviewTrue
  <2> QED
    BY <1>1, <2>1, <2>2 DEF DeskInit, DInv, TaskAsPreviewed
<1>2. ASSUME DInv, [DeskNext]_deskVars PROVE DInv'
  <2>1. CASE DeskNext
    BY <1>2, <2>1, PageKept, ServeKept, AnswerKept, OthersKept DEF DeskNext
  <2>2. CASE UNCHANGED deskVars
    BY <1>2, <2>2 DEF deskVars, DInv, TaskAsPreviewed
  <2> QED
    BY <1>2, <2>1, <2>2
<1> QED
  BY <1>1, <1>2, PTL DEF DeskSpec

(* However old its copy, the page does nothing to an item but what the     *)
(* server offers and the preview told (WorkQueue.tsx, api.py).             *)
THEOREM TaskAlwaysAsOffered == DeskSpec => []TaskAsOffered
<1>1. DInv => TaskAsOffered
  BY DEF DInv, TaskAsOffered, CommandsOffered, CommandOK
<1> QED
  BY <1>1, DeskAlways, PTL
-----------------------------------------------------------------------------
(* The counters of the work.                                               *)

(* The filters that a query stands for are those it was made of.           *)
LEMMA QueryKept ==
  ASSUME NEW filters, filters = [p \in DOMAIN Unfiltered |-> filters[p]]
  PROVE  FromQuery(ToQuery(filters)) = filters
BY DEF FromQuery, ToQuery

FilterNames == {"status", "approval", "execution", "priority", "owner", "overdue"}

AsksFor(f, approval, execution, overdue) ==
  /\ f = [p \in FilterNames |-> f[p]]
  /\ f["status"] = "all" /\ f["approval"] = approval /\ f["execution"] = execution
  /\ f["priority"] = "all" /\ f["owner"] = "" /\ f["overdue"] = overdue

LEMMA Unasked ==
  /\ DOMAIN Unfiltered = FilterNames
  /\ Unfiltered["status"] = "all" /\ Unfiltered["approval"] = "all"
  /\ Unfiltered["execution"] = "all" /\ Unfiltered["priority"] = "all"
  /\ Unfiltered["owner"] = "" /\ Unfiltered["overdue"] = FALSE
BY DEF Unfiltered, FilterNames

(* What the links of the counters ask for.                                 *)
LEMMA LinkFilters ==
  ASSUME NEW counter \in Counters
  PROVE  /\ counter = "failed" => AsksFor(FromQuery(QueryOf(counter)), "all", "failed", FALSE)
         /\ counter \in {"approvals", "cardApprovals"} =>
              AsksFor(FromQuery(QueryOf(counter)), "pending", "all", FALSE)
         /\ counter \in {"overdue", "cardOverdue"} =>
              AsksFor(FromQuery(QueryOf(counter)), "all", "all", TRUE)
         /\ counter = "cardAttention" =>
              AsksFor(FromQuery(QueryOf(counter)), "all", "all", FALSE)
<1> PICK query, f : query = QueryOf(counter) /\ f = FromQuery(query)
  OBVIOUS
<1>1. /\ f = [p \in FilterNames |-> f[p]]
      /\ \A p \in FilterNames : f[p] = IF p \in DOMAIN query THEN query[p] ELSE Unfiltered[p]
  BY Unasked DEF FromQuery
<1>2. ASSUME counter = "failed" PROVE AsksFor(f, "all", "failed", FALSE)
  <2>1. DOMAIN query = {"execution"} /\ query["execution"] = "failed"
    BY <1>2 DEF QueryOf
  <2> QED
    BY <1>1, <2>1, Unasked DEF AsksFor, FilterNames
<1>3. ASSUME counter \in {"approvals", "cardApprovals"} PROVE AsksFor(f, "pending", "all", FALSE)
  <2>1. DOMAIN query = {"approval"} /\ query["approval"] = "pending"
    BY <1>3 DEF QueryOf
  <2> QED
    BY <1>1, <2>1, Unasked DEF AsksFor, FilterNames
<1>4. ASSUME counter \in {"overdue", "cardOverdue"} PROVE AsksFor(f, "all", "all", TRUE)
  <2>1. DOMAIN query = {"overdue"} /\ query["overdue"] = TRUE
    BY <1>4 DEF QueryOf
  <2> QED
    BY <1>1, <2>1, Unasked DEF AsksFor, FilterNames
<1>5. ASSUME counter = "cardAttention" PROVE AsksFor(f, "all", "all", FALSE)
  <2>1. DOMAIN query = {"view"}
    BY <1>5 DEF QueryOf
  <2> QED
    BY <1>1, <2>1, Unasked DEF AsksFor, FilterNames
<1> QED
  BY <1>2, <1>3, <1>4, <1>5

(* A filter that is chosen stands beside those of the link.                *)
LEMMA Narrowed ==
  ASSUME NEW f, NEW approval, NEW execution, NEW overdue,
         AsksFor(f, approval, execution, overdue), NEW status, NEW item, item.status = status
  PROVE  LET narrowed == FromQuery(UpdateFilter(f, "status", status))
         IN Listed(item, narrowed) <=> Listed(item, f)
<1> PICK g : g = [f EXCEPT !["status"] = status]
  OBVIOUS
<1>1. /\ g = [p \in DOMAIN Unfiltered |-> g[p]] /\ g["status"] = status
      /\ g["approval"] = f["approval"] /\ g["execution"] = f["execution"]
      /\ g["priority"] = f["priority"] /\ g["owner"] = f["owner"] /\ g["overdue"] = f["overdue"]
  BY Unasked DEF AsksFor, FilterNames
<1>2. FromQuery(UpdateFilter(f, "status", status)) = g
  BY <1>1, QueryKept DEF UpdateFilter
<1>3. Listed(item, g) <=> Listed(item, f)
  BY <1>1 DEF Listed, AsksFor
<1> QED
  BY <1>2, <1>3

(* Of an item that awaits its approval, the approval is pending.           *)
LEMMA ItemsLead ==
  ASSUME NEW item, AwaitsPending(item), item.due \in Dues
  PROVE  LeadsTo(item)
<1>1. ASSUME NEW counter \in Counters, NEW f, f = FromQuery(QueryOf(counter))
      PROVE  /\ Counts(counter, item) => Listed(item, f) \/ (f.overdue /\ item.due = "today")
             /\ Listed(item, f) /\ ~IsOver(item) => Counts(counter, item) \/ counter = "cardAttention"
             /\ LET narrowed == FromQuery(UpdateFilter(f, "status", item.status))
                IN Listed(item, narrowed) <=> Listed(item, f)
  <2>1. ASSUME counter = "failed"
        PROVE  /\ AsksFor(f, "all", "failed", FALSE)
               /\ Counts(counter, item) <=> Listed(item, f)
    <3>1. AsksFor(f, "all", "failed", FALSE)
      BY <1>1, <2>1, LinkFilters
    <3> QED
      BY <2>1, <3>1 DEF AsksFor, Counts, Listed
  <2>2. ASSUME counter \in {"approvals", "cardApprovals"}
        PROVE  /\ AsksFor(f, "pending", "all", FALSE)
               /\ Counts(counter, item) => Listed(item, f)
               /\ Listed(item, f) /\ ~IsOver(item) => Counts(counter, item)
    <3>1. AsksFor(f, "pending", "all", FALSE)
      BY <1>1, <2>2, LinkFilters
    <3>2. Listed(item, f) <=> item.approval = "pending"
      BY <3>1 DEF AsksFor, Listed
    <3> QED
      BY <2>2, <3>1, <3>2 DEF Counts
  <2>3. ASSUME counter \in {"overdue", "cardOverdue"}
        PROVE  /\ AsksFor(f, "all", "all", TRUE)
               /\ Counts(counter, item) => Listed(item, f) \/ (f.overdue /\ item.due = "today")
               /\ Listed(item, f) /\ ~IsOver(item) => Counts(counter, item)
    <3>1. AsksFor(f, "all", "all", TRUE)
      BY <1>1, <2>3, LinkFilters
    <3>2. (Listed(item, f) <=> DaysLate(item)) /\ f.overdue
      BY <3>1 DEF AsksFor, Listed
    <3> QED
      BY <2>3, <3>1, <3>2 DEF Counts, Late, DaysLate
  <2>4. ASSUME counter = "cardAttention"
        PROVE  AsksFor(f, "all", "all", FALSE) /\ Listed(item, f)
    <3>1. AsksFor(f, "all", "all", FALSE)
      BY <1>1, <2>4, LinkFilters
    <3> QED
      BY <3>1 DEF AsksFor, Listed
  <2>5. \E approval, execution, overdue : AsksFor(f, approval, execution, overdue)
    BY <2>1, <2>2, <2>3, <2>4 DEF Counters
  <2>6. LET narrowed == FromQuery(UpdateFilter(f, "status", item.status))
        IN Listed(item, narrowed) <=> Listed(item, f)
    BY <2>5, Narrowed
  <2> QED
    BY <2>1, <2>2, <2>3, <2>4, <2>6 DEF Counters
<1>2. AlertLevel(item) = "action_required" /\ ~IsOver(item) => IsDecision(item)
  BY DEF AlertLevel, IsDecision, AwaitsPending
<1>3. NeedsAttention(item) => IsDecision(item)
  BY DEF NeedsAttention, IsDecision, DaysLate, Late
<1> QED
  BY <1>1, <1>2, <1>3 DEF LeadsTo

(* Each counter of the cockpit leads to a list that has what it counts     *)
(* (presentation.ts, TodayBrief.tsx, workItems.ts).                        *)
THEOREM CountersAlwaysLead == DeskSpec => []CountersLead
<1>1. ASSUME DInv PROVE CountersLead
  <2>1. ASSUME copy # NoCopy, NEW due \in Dues, NEW priority \in Priorities
        PROVE  LeadsTo([status |-> copy.row.status, approval |-> copy.row.approval,
                        execution |-> copy.row.execution, owner |-> copy.row.owner,
                        due |-> due, priority |-> priority])
    <3> PICK item : item = [status |-> copy.row.status, approval |-> copy.row.approval,
                        execution |-> copy.row.execution, owner |-> copy.row.owner,
                        due |-> due, priority |-> priority]
      OBVIOUS
    <3>1. AwaitsPending(copy.row)
      BY <1>1, <2>1 DEF DInv, ItemOK
    <3>2. AwaitsPending(item) /\ item.due \in Dues
      BY <3>1 DEF AwaitsPending
    <3> QED
      BY <3>2, ItemsLead
  <2>2. ASSUME copy.offered # {} PROVE PrimaryAction(copy.offered) \in copy.offered
    BY <2>2 DEF PrimaryAction
  <2> QED
    BY <2>1, <2>2 DEF CountersLead
<1> QED
  BY <1>1, DeskAlways, PTL
-----------------------------------------------------------------------------
(* The feed.                                                               *)

(* What a signal scores for, it tells of.                                  *)
LEMMA ScoresOwn ==
  ASSUME NEW s, NEW c, ScoresSubject(s, c)
  PROVE  /\ s.subject = c
         /\ s.scope # "undefined" =>
              /\ s.scope = "specific_account"
              /\ \E i \in DOMAIN s.relationships :
                   /\ s.relationships[i].account = c /\ IsConfirmed(s, s.relationships[i])
                   /\ s.relationships[i].status = "confirmed"
BY DEF ScoresSubject, IsConfirmed

(* The world is what the page makes of what it has received.               *)
FInv ==
  /\ received # Unset => received \in Seq(Signals)
  /\ world = World(received, market, weights)

(* A contribution is that of a signal which is valid and scores.           *)
LEMMA ContributionsScore ==
  ASSUME NEW f, NEW kept, NEW c, NEW d, NEW config, NEW k \in Contributions(f, kept, c, d, config)
  PROVE  \E i \in kept : ScoresSubject(f[i], c) /\ k.signal = f[i].id
<1> DEFINE mine == {i \in kept : ScoresSubject(f[i], c)}
           Weight(i) == IF f[i].type \in DOMAIN config.weights
                        THEN config.weights[f[i].type][d] ELSE 0
           Earlier(i) == Cardinality({j \in mine : f[j].type = f[i].type /\ Before(f, j, i)})
           Of(i) == [signal |-> f[i].id, type |-> f[i].type, occurrence |-> Earlier(i) + 1,
                     delta |-> Decayed(Weight(i), 1, Earlier(i), config)]
<1>1. Contributions(f, kept, c, d, config) = {l \in {Of(i) : i \in mine} : l.delta # 0}
  BY DEF Contributions
<1>2. \A i : Of(i).signal = f[i].id
  OBVIOUS
<1> HIDE DEF Of
<1>3. PICK i \in mine : k = Of(i)
  BY <1>1
<1> QED
  BY <1>2, <1>3

(* What Analyze tells.                                                     *)
LEMMA AnalyzeTells ==
  ASSUME NEW accounts, NEW f, NEW read, NEW config, NEW w, w = Analyze(accounts, f, read, config)
  PROVE  \E kept \in SUBSET read :
           /\ w.valid = {f[i] : i \in kept}
           /\ DOMAIN w.scores = {a.id : a \in accounts}
           /\ \A c \in DOMAIN w.scores, d \in Dimensions :
                w.scores[c][d].contributions = Contributions(f, kept, c, d, config)
<1> PICK kept : kept = {i \in read : IsValid(f[i], config)}
  OBVIOUS
<1>1. w.valid = {f[i] : i \in kept}
  BY DEF Analyze
<1>2. w.scores = [c \in {a.id : a \in accounts} |-> ScoreSubject(f, kept, c, config)]
  BY DEF Analyze
<1>3. ASSUME NEW c, NEW d \in Dimensions
      PROVE  ScoreSubject(f, kept, c, config)[d].contributions = Contributions(f, kept, c, d, config)
  <2> DEFINE Raw(cs) == SumFunctionOnSet([k \in cs |-> k.delta], cs)
             Tallied(cs) == [score |-> Clamp(Raw(cs), config.cap), raw |-> Raw(cs), contributions |-> cs]
  <2>1. ScoreSubject(f, kept, c, config) =
          [e \in Dimensions |-> Tallied(Contributions(f, kept, c, e, config))]
    BY Zenon DEF ScoreSubject
  <2>2. \A cs : Tallied(cs).contributions = cs
    OBVIOUS
  <2> HIDE DEF Tallied
  <2> QED
    BY <2>1, <2>2
<1>4. DOMAIN w.scores = {a.id : a \in accounts}
  BY <1>2
<1>5. ASSUME NEW c \in DOMAIN w.scores, NEW d \in Dimensions
      PROVE  w.scores[c][d].contributions = Contributions(f, kept, c, d, config)
  <2>1. w.scores[c] = ScoreSubject(f, kept, c, config)
    BY <1>2, <1>4
  <2> QED
    BY <2>1, <1>3
<1>6. kept \in SUBSET read
  OBVIOUS
<1> QED
  BY <1>1, <1>4, <1>5, <1>6

(* Every world tells where its scores come from.                           *)
LEMMA WorldTells ==
  ASSUME FInv
  PROVE  /\ received = Unset => DOMAIN world.scores = {}
         /\ received # Unset =>
              /\ \A s \in world.valid : s \in ToSet(received) /\ s \in Signals
              /\ \A c \in DOMAIN world.scores, d \in Dimensions :
                   \A k \in world.scores[c][d].contributions :
                     \E s \in world.valid : ScoresSubject(s, c) /\ k.signal = s.id
<1> PICK accounts : accounts = InMarket(market)
  OBVIOUS
<1>1. ASSUME received = Unset PROVE DOMAIN world.scores = {}
  <2>1. world = Analyze({}, <<>>, {}, weights)
    BY <1>1 DEF FInv, World
  <2> QED
    BY <2>1, AnalyzeTells
<1>2. ASSUME received # Unset
      PROVE  /\ \A s \in world.valid : s \in ToSet(received) /\ s \in Signals
             /\ \A c \in DOMAIN world.scores, d \in Dimensions :
                  \A k \in world.scores[c][d].contributions :
                    \E s \in world.valid : ScoresSubject(s, c) /\ k.signal = s.id
  <2>1. PICK read \in SUBSET DOMAIN received : world = Analyze(accounts, received, read, weights)
    BY <1>2 DEF FInv, World
  <2>2. PICK kept \in SUBSET read :
          /\ world.valid = {received[i] : i \in kept}
          /\ DOMAIN world.scores = {a.id : a \in accounts}
          /\ \A c \in DOMAIN world.scores, d \in Dimensions :
               world.scores[c][d].contributions = Contributions(received, kept, c, d, weights)
    BY <2>1, AnalyzeTells
  <2>3. received \in Seq(Signals) /\ ToSet(received) = {received[i] : i \in DOMAIN received}
    BY <1>2 DEF FInv, ToSet
  <2>4. \A s \in world.valid : s \in ToSet(received) /\ s \in Signals
    BY <2>2, <2>3
  <2>5. ASSUME NEW c \in DOMAIN world.scores, NEW d \in Dimensions,
               NEW k \in world.scores[c][d].contributions
        PROVE  \E s \in world.valid : ScoresSubject(s, c) /\ k.signal = s.id
    BY <2>2, <2>5, ContributionsScore
  <2> QED
    BY <2>4, <2>5
<1> QED
  BY <1>1, <1>2

(* A number is never without its story.                                    *)
LEMMA StoryTold ==
  ASSUME FInv
  PROVE  ScoredIsTold
<1> SUFFICES ASSUME NEW c \in DOMAIN world.scores
             PROVE  /\ EvidenceLine(c).scored \subseteq EvidenceLine(c).attached
                    /\ \A k \in UNION {world.scores[c][e].contributions : e \in Dimensions} :
                         \A s \in {s \in world.valid : s.id = k.signal /\ s.scope # "undefined"} :
                           /\ s \in Backed(c)
                           /\ "Evidence confirmed" \in TimelineTitles(c, s)
                           /\ Evidence(s).opens = c /\ Evidence(s).conclusion # "supported"
  BY DEF ScoredIsTold
<1>1. received # Unset
  BY WorldTells
<1>2. EvidenceLine(c).scored \subseteq EvidenceLine(c).attached
  BY ScoresOwn DEF EvidenceLine
<1>3. ASSUME NEW d \in Dimensions, NEW k \in world.scores[c][d].contributions,
             NEW s \in world.valid, s.id = k.signal, s.scope # "undefined"
      PROVE  /\ s \in Backed(c)
             /\ "Evidence confirmed" \in TimelineTitles(c, s)
             /\ Evidence(s).opens = c /\ Evidence(s).conclusion # "supported"
  <2>1. PICK t \in world.valid : ScoresSubject(t, c) /\ k.signal = t.id
    BY <1>1, <1>3, WorldTells
  <2>2. s = t /\ s \in ToSet(received)
    BY <1>1, <1>3, <2>1, WorldTells, DecisionFeedAssumption DEF DecisionFeedAssumption
  <2>3. PICK i \in DOMAIN s.relationships :
          /\ s.relationships[i].account = c /\ IsConfirmed(s, s.relationships[i])
          /\ s.relationships[i].status = "confirmed"
    BY <1>3, <2>1, <2>2, ScoresOwn
  <2>4. s.subject = c /\ s.scope = "specific_account"
    BY <1>3, <2>1, <2>2, ScoresOwn
  <2>5. s \in Backed(c)
    BY <1>1, <2>2, <2>3, <2>4 DEF Backed
  <2>6. "Evidence confirmed" \in TimelineTitles(c, s)
    BY <1>3, <2>3, <2>4 DEF TimelineTitles, PlainStatus
  <2>7. Evidence(s).opens = c /\ Evidence(s).conclusion # "supported"
    BY <2>4 DEF Evidence
  <2> QED
    BY <2>5, <2>6, <2>7
<1> QED
  BY <1>2, <1>3

LEMMA FeedsAreLists ==
  ASSUME NEW f \in Feeds
  PROVE  f \in Seq(Signals)
BY DEF Feeds

(* A snapshot that arrives is a list of signals, too.                      *)
LEMMA SnapshotIsList ==
  ASSUME FInv, SnapshotArrives
  PROVE  received' \in Seq(Signals)
<1>1. CASE received = Unset /\ received' \in Feeds
  BY <1>1, FeedsAreLists
<1>2. ASSUME received # Unset, NEW s \in Signals, NEW i \in 1 .. Len(received) + 1,
             received' = InsertAt(received, i, s)
      PROVE  received' \in Seq(Signals)
  <2>0. received \in Seq(Signals)
    BY <1>2 DEF FInv
  <2>1. Len(received) \in Nat /\ \A j \in 1 .. Len(received) : received[j] \in Signals
    BY <2>0
  <2>2. SubSeq(received, 1, i - 1) \in Seq(Signals)
    <3>1. \A j \in 1 .. i - 1 : received[j] \in Signals
      BY <2>1
    <3>2. 1 \in Int /\ i - 1 \in Int
      BY <2>1
    <3> HIDE DEF FInv
    <3> QED
      BY <3>1, <3>2, SubSeqProperties
  <2>3. SubSeq(received, i, Len(received)) \in Seq(Signals)
    <3>1. \A j \in i .. Len(received) : received[j] \in Signals
      BY <2>1
    <3>2. i \in Int /\ Len(received) \in Int
      BY <2>1
    <3> QED
      BY <3>1, <3>2, SubSeqProperties
  <2>4. <<s>> \in Seq(Signals)
    BY <1>2
  <2>5. SubSeq(received, 1, i - 1) \o <<s>> \in Seq(Signals)
    BY <2>2, <2>4, ConcatProperties
  <2> QED
    BY <1>2, <2>3, <2>5, ConcatProperties DEF InsertAt
<1>3. ASSUME received # Unset, NEW i \in 1 .. Len(received) - 1,
             received' = [received EXCEPT ![i] = received[i + 1], ![i + 1] = received[i]]
      PROVE  received' \in Seq(Signals)
  BY <1>3 DEF FInv
<1> QED
  BY <1>1, <1>2, <1>3 DEF SnapshotArrives

LEMMA FeedBegins == FeedInit => FInv
BY DEF FeedInit, FInv

LEMMA FeedGoesOn ==
  ASSUME FInv, [FeedNext]_feedVars
  PROVE  FInv'
<1>1. CASE SnapshotArrives
  BY <1>1, SnapshotIsList DEF FInv, SnapshotArrives
<1>2. ASSUME NEW city, PickMarket(city) PROVE FInv'
  BY <1>2 DEF FInv, PickMarket
<1>3. ASSUME NEW config, ApplyScoringConfig(config) PROVE FInv'
  BY <1>3 DEF FInv, ApplyScoringConfig
<1>4. CASE UNCHANGED feedVars
  BY <1>4 DEF FInv, feedVars
<1> QED
  BY <1>1, <1>2, <1>3, <1>4 DEF FeedNext

(* A signal that moves a score of an account is told again wherever the    *)
(* cockpit speaks of that account, whatever snapshots, markets and scoring *)
(* configurations have come (ScoredIsTold).                                *)
THEOREM ScoredAlwaysTold == FeedSpec => []ScoredIsTold
<1>1. FInv => ScoredIsTold
  BY StoryTold
<1> QED
  BY <1>1, FeedBegins, FeedGoesOn, PTL DEF FeedSpec
-----------------------------------------------------------------------------
(* More evidence never speaks against itself.                              *)

(* A power of a number is one.                                             *)
PowerTable(b, k, to) == to = [j \in 0 .. k |-> IF j = 0 THEN 1 ELSE b * to[j - 1]]

LEMMA PowerIsTable ==
  ASSUME NEW b, NEW k
  PROVE  Power(b, k) = (CHOOSE to : PowerTable(b, k, to))[k]
BY DEF Power, PowerTable

LEMMA PowerTableExists ==
  ASSUME NEW b, NEW k \in Nat
  PROVE  \E to : PowerTable(b, k, to)
<1> DEFINE Wrong == {n \in Nat : ~\E to : PowerTable(b, n, to)}
<1>1. SUFFICES ASSUME Wrong # {} PROVE FALSE
  OBVIOUS
<1>2. PICK n \in Wrong : \A m \in Wrong : n <= m
  <2>1. Wrong \subseteq Nat
    OBVIOUS
  <2> HIDE DEF Wrong
  <2> QED  BY <1>1, <2>1, SmallestNumber
<1>3. CASE n = 0
  <2> DEFINE to == [j \in 0 .. 0 |-> 1]
  <2>1. to = [j \in 0 .. 0 |-> IF j = 0 THEN 1 ELSE b * to[j - 1]]
    OBVIOUS
  <2>2. PowerTable(b, 0, to)
    BY <2>1 DEF PowerTable
  <2> QED  BY <1>3, <2>2
<1>4. CASE n # 0
  <2>1. n - 1 \in Nat /\ n - 1 \notin Wrong
    BY <1>2, <1>4
  <2>2. PICK u : PowerTable(b, n - 1, u)
    BY <2>1
  <2>3. u = [j \in 0 .. n - 1 |-> IF j = 0 THEN 1 ELSE b * u[j - 1]]
    BY <2>2 DEF PowerTable
  <2> DEFINE to == [j \in 0 .. n |-> IF j = n THEN b * u[n - 1] ELSE u[j]]
             again == [j \in 0 .. n |-> IF j = 0 THEN 1 ELSE b * to[j - 1]]
  <2>4. ASSUME NEW j \in 0 .. n PROVE to[j] = again[j]
    <3>1. CASE j = n
      <4>1. to[n - 1] = u[n - 1]
        BY <2>1
      <4> QED  BY <3>1, <4>1, <1>4
    <3>2. CASE j # n /\ j = 0
      <4>1. u[0] = 1
        BY <2>3, <2>1
      <4> QED  BY <3>2, <4>1
    <3>3. CASE j # n /\ j # 0
      <4>1. u[j] = b * u[j - 1]
        BY <2>3, <3>3
      <4>2. to[j - 1] = u[j - 1]
        BY <3>3
      <4> QED  BY <3>3, <4>1, <4>2
    <3> QED  BY <3>1, <3>2, <3>3
  <2>5. to = again
    <3>1. DOMAIN to = 0 .. n /\ DOMAIN again = 0 .. n
      OBVIOUS
    <3> QED  BY <2>4
  <2>6. PowerTable(b, n, to)
    BY <2>5 DEF PowerTable
  <2> QED  BY <2>6
<1> QED  BY <1>3, <1>4

LEMMA PowerNat ==
  ASSUME NEW b \in Nat, NEW k \in Nat
  PROVE  Power(b, k) \in Nat /\ (b > 0 => Power(b, k) > 0)
<1> PICK to : to = CHOOSE t : PowerTable(b, k, t)
  OBVIOUS
<1>1. PowerTable(b, k, to)
  BY PowerTableExists
<1>2. to = [j \in 0 .. k |-> IF j = 0 THEN 1 ELSE b * to[j - 1]]
  BY <1>1 DEF PowerTable
<1>3. \A j \in 0 .. k : to[j] = IF j = 0 THEN 1 ELSE b * to[j - 1]
  BY <1>2
<1> DEFINE Wrong == {j \in 0 .. k : ~(to[j] \in Nat /\ (b > 0 => to[j] > 0))}
<1>4. ASSUME Wrong # {} PROVE FALSE
  <2>1. PICK n \in Wrong : \A m \in Wrong : n <= m
    <3>1. Wrong \subseteq Nat
      OBVIOUS
    <3> HIDE DEF Wrong
    <3> QED  BY <1>4, <3>1, SmallestNumber
  <2>2. CASE n = 0
    BY <2>2, <1>3
  <2>3. CASE n # 0
    <3>1. n - 1 \in 0 .. k /\ n - 1 \notin Wrong
      BY <2>1, <2>3
    <3>2. PICK x \in Nat : x = to[n - 1] /\ (b > 0 => x > 0)
      BY <3>1
    <3>3. to[n] = b * x
      BY <3>2, <1>3, <2>3
    <3>4. b * x \in Nat /\ (b > 0 /\ x > 0 => b * x > 0)
      OBVIOUS
    <3> QED  BY <3>2, <3>3, <3>4
  <2> QED  BY <2>2, <2>3
<1>5. k \in 0 .. k /\ Wrong = {}
  <2>1. k \in 0 .. k
    OBVIOUS
  <2> HIDE DEF Wrong
  <2> QED  BY <1>4, <2>1
<1>6. to[k] \in Nat /\ (b > 0 => to[k] > 0)
  BY <1>5
<1>7. Power(b, k) = to[k]
  BY PowerIsTable
<1> HIDE DEF Wrong
<1> QED  BY <1>6, <1>7

LEMMA NearestNat ==
  ASSUME NEW n \in Nat, NEW m \in Nat, n <= m, NEW d \in Nat \ {0}
  PROVE  /\ Nearest(n, d) \in Nat /\ Nearest(m, d) \in Nat
         /\ Nearest(n, d) <= Nearest(m, d)
<1> DEFINE a == 2 * n + d
           b == 2 * m + d
           q == 2 * d
<1>1. a \in Nat /\ b \in Nat /\ a <= b /\ q \in Nat \ {0}
  OBVIOUS
<1> HIDE DEF a, b, q
<1>2. a \div q \in Nat /\ b \div q \in Nat /\ a \div q <= b \div q
  BY <1>1
<1> QED  BY <1>2 DEF Nearest, a, b, q

LEMMA DecayedNat ==
  ASSUME NEW config \in Configs, NEW n \in Nat, NEW m \in Nat, n <= m,
         NEW d \in Nat \ {0}, NEW k \in Nat
  PROVE  /\ Decayed(n, d, k, config) \in Nat /\ Decayed(m, d, k, config) \in Nat
         /\ Decayed(n, d, k, config) <= Decayed(m, d, k, config)
<1>1. PICK x, y : x = Power(config.decay, k) /\ y = Power(10, k)
  OBVIOUS
<1>2. config.decay \in Nat
  BY DecisionFeedAssumption DEF DecisionFeedAssumption
<1>3. x \in Nat /\ y \in Nat \ {0}
  <2>1. x \in Nat
    BY <1>1, <1>2, PowerNat
  <2>2. 10 \in Nat /\ 10 > 0
    OBVIOUS
  <2>3. y \in Nat /\ y > 0
    BY <1>1, <2>2, PowerNat
  <2> QED  BY <2>1, <2>3
<1>4. n * x \in Nat /\ m * x \in Nat /\ d * y \in Nat \ {0}
  BY <1>3
<1>5. n * x <= m * x
  BY <1>3
<1>6. /\ Decayed(n, d, k, config) = Nearest(n * x, d * y)
      /\ Decayed(m, d, k, config) = Nearest(m * x, d * y)
  BY <1>1 DEF Decayed
<1> QED  BY <1>4, <1>5, <1>6, NearestNat

(* The smaller and the larger of two numbers.                              *)
LEMMA ClampAt ==
  ASSUME NEW n \in Nat, NEW cap \in Nat
  PROVE  Clamp(n, cap) = IF n <= cap THEN n ELSE cap
<1>1. Min({n, cap}) = IF n <= cap THEN n ELSE cap
  BY DEF Min
<1>2. \A m \in Nat : Max({0, m}) = m
  BY DEF Max
<1> QED  BY <1>1, <1>2 DEF Clamp
-----------------------------------------------------------------------------
(* The signals of one type that score for c, in the feed f.                *)
Mine(f, kept, c) == {i \in kept : ScoresSubject(f[i], c)}

OfType(f, mine, t) == {i \in mine : f[i].type = t}

Sooner(f) == {r \in (DOMAIN f) \X (DOMAIN f) : Before(f, r[1], r[2])}

Weighed(t, d, config) == IF t \in DOMAIN config.weights THEN config.weights[t][d] ELSE 0

Nth(s, t, n, d, config) ==
  [signal |-> s, type |-> t, occurrence |-> n + 1, delta |-> Decayed(Weighed(t, d, config), 1, n, config)]

(* A list of signals that holds none twice.                                *)
HeldOnce(f) ==
  /\ f \in Seq(Signals)
  /\ \A i, j \in DOMAIN f : f[i] = f[j] => i = j

LEMMA SoonerOrders ==
  ASSUME NEW f, HeldOnce(f), NEW S \in SUBSET DOMAIN f
  PROVE  /\ IsFiniteSet(S) /\ Orders(Sooner(f), S)
         /\ \A i \in S : PlaceIn(Sooner(f), S, i) = Cardinality({j \in S : Before(f, j, i)})
<1>1. IsFiniteSet(DOMAIN f)
  <2>1. DOMAIN f = 1 .. Len(f) /\ 1 \in Int /\ Len(f) \in Int
    BY DEF HeldOnce
  <2>2. IsFiniteSet(1 .. Len(f))
    BY <2>1, FS_Interval
  <2> QED  BY <2>1, <2>2
<1>2. IsFiniteSet(S)
  BY <1>1, FS_Subset
<1>3. \A i, j \in S : <<i, j>> \in Sooner(f) <=> Before(f, i, j)
  BY DEF Sooner
<1>4. \A i \in S : f[i] \in Signals
  BY DEF HeldOnce
<1>5. \A i \in S : f[i].at \in Int /\ f[i].id \in Int
  BY <1>4, DecisionFeedAssumption DEF DecisionFeedAssumption
<1>6. \A i, j \in S : i # j => f[i].id # f[j].id
  BY <1>4, DecisionFeedAssumption DEF DecisionFeedAssumption, HeldOnce
<1>7. Orders(Sooner(f), S)
  <2>1. \A i \in S : ~Before(f, i, i)
    BY <1>5 DEF Before
  <2>2. \A i, j, k \in S : Before(f, i, j) /\ Before(f, j, k) => Before(f, i, k)
    BY <1>5 DEF Before
  <2>3. \A i, j \in S : i # j => Before(f, i, j) \/ Before(f, j, i)
    BY <1>5, <1>6 DEF Before
  <2> QED  BY <1>3, <2>1, <2>2, <2>3, Zenon DEF Orders
<1>8. ASSUME NEW i \in S
      PROVE  PlaceIn(Sooner(f), S, i) = Cardinality({j \in S : Before(f, j, i)})
  <2>1. {j \in S : <<j, i>> \in Sooner(f)} = {j \in S : Before(f, j, i)}
    BY <1>3
  <2> QED  BY <2>1 DEF PlaceIn
<1> QED  BY <1>2, <1>7, <1>8

(* What a contribution is, by the place of its signal among those of its   *)
(* type.                                                                   *)
LEMMA ContributionsByPlace ==
  ASSUME NEW f, HeldOnce(f), NEW kept \in SUBSET DOMAIN f, NEW c, NEW d, NEW config
  PROVE  \A k : k \in Contributions(f, kept, c, d, config) <=>
           /\ \E i \in Mine(f, kept, c) :
                k = Nth(f[i].id, f[i].type,
                        PlaceIn(Sooner(f), OfType(f, Mine(f, kept, c), f[i].type), i), d, config)
           /\ k.delta # 0
<1> DEFINE mine == {i \in kept : ScoresSubject(f[i], c)}
           Weight(i) == IF f[i].type \in DOMAIN config.weights
                        THEN config.weights[f[i].type][d] ELSE 0
           Earlier(i) == Cardinality({j \in mine : f[j].type = f[i].type /\ Before(f, j, i)})
           Of(i) == [signal |-> f[i].id, type |-> f[i].type, occurrence |-> Earlier(i) + 1,
                     delta |-> Decayed(Weight(i), 1, Earlier(i), config)]
           By(i) == Nth(f[i].id, f[i].type,
                        PlaceIn(Sooner(f), OfType(f, Mine(f, kept, c), f[i].type), i), d, config)
<1>1. Contributions(f, kept, c, d, config) = {l \in {Of(i) : i \in mine} : l.delta # 0}
  BY DEF Contributions
<1>2. mine = Mine(f, kept, c) /\ mine \in SUBSET DOMAIN f
  BY DEF Mine
<1>3. ASSUME NEW i \in mine PROVE Of(i) = By(i)
  <2> DEFINE S == OfType(f, mine, f[i].type)
  <2>1. S \in SUBSET DOMAIN f /\ i \in S
    BY <1>2 DEF OfType
  <2>2. PlaceIn(Sooner(f), S, i) = Cardinality({j \in S : Before(f, j, i)})
    <3> HIDE DEF S
    <3> QED  BY <2>1, SoonerOrders
  <2>3. {j \in S : Before(f, j, i)} = {j \in mine : f[j].type = f[i].type /\ Before(f, j, i)}
    BY DEF OfType
  <2>4. PlaceIn(Sooner(f), OfType(f, Mine(f, kept, c), f[i].type), i) = Earlier(i)
    BY <1>2, <2>2, <2>3, Zenon
  <2>5. Weight(i) = Weighed(f[i].type, d, config)
    BY DEF Weighed
  <2> HIDE DEF Earlier, Weight
  <2> QED  BY <2>4, <2>5 DEF Nth
<1> HIDE DEF Of, By
<1>4. \A k : k \in Contributions(f, kept, c, d, config) <=> (\E i \in mine : k = By(i)) /\ k.delta # 0
  BY <1>1, <1>3
<1> HIDE DEF mine
<1> QED  BY <1>2, <1>4 DEF By

LEMMA ContributionsFinite ==
  ASSUME NEW f, HeldOnce(f), NEW kept \in SUBSET DOMAIN f, NEW c, NEW d, NEW config
  PROVE  IsFiniteSet(Contributions(f, kept, c, d, config))
<1> DEFINE mine == Mine(f, kept, c)
           By(i) == Nth(f[i].id, f[i].type,
                        PlaceIn(Sooner(f), OfType(f, Mine(f, kept, c), f[i].type), i), d, config)
           all == {By(i) : i \in mine}
           by == [i \in mine |-> By(i)]
<1>1. mine \in SUBSET DOMAIN f
  BY DEF Mine
<1>2. IsFiniteSet(mine)
  <2> HIDE DEF mine
  <2> QED  BY <1>1, SoonerOrders
<1>3. by \in Surjection(mine, all)
  <2> HIDE DEF mine, By
  <2> QED  BY DEF Surjection
<1>4. IsFiniteSet(all)
  <2> HIDE DEF by, mine, all
  <2> QED  BY <1>2, <1>3, FS_Surjection
<1>5. Contributions(f, kept, c, d, config) \in SUBSET all
  <2> HIDE DEF By
  <2>1. \A k \in Contributions(f, kept, c, d, config) : \E i \in mine : k = By(i)
    BY ContributionsByPlace DEF By
  <2> QED  BY <2>1
<1> HIDE DEF all
<1> QED  BY <1>4, <1>5, FS_Subset

Weighs(config) ==
  /\ config \in Configs
  /\ Adds(config)

LEMMA NthDelta ==
  ASSUME NEW config, Weighs(config), NEW d \in Dimensions, NEW s, NEW t, NEW n \in Nat
  PROVE  Nth(s, t, n, d, config).delta \in Nat
<1> PICK w : w = Weighed(t, d, config)
  OBVIOUS
<1>1. w \in Nat
  BY DecisionFeedAssumption DEF DecisionFeedAssumption, Weighs, Adds, Weighed
<1>2. Decayed(w, 1, n, config) \in Nat
  BY <1>1, DecayedNat DEF Weighs
<1> QED  BY <1>2 DEF Nth

(* A feed g tells all that f tells.                                        *)
Tells(g, kept2, f, kept) ==
  /\ HeldOnce(f) /\ HeldOnce(g)
  /\ kept \in SUBSET DOMAIN f /\ kept2 \in SUBSET DOMAIN g
  /\ \A i \in kept : \E j \in kept2 : g[j] = f[i]

(* Of each type there are as many, at least.                               *)
LEMMA TypesGrow ==
  ASSUME NEW f, NEW kept, NEW g, NEW kept2, Tells(g, kept2, f, kept), NEW c, NEW t
  PROVE  Cardinality(OfType(f, Mine(f, kept, c), t)) <= Cardinality(OfType(g, Mine(g, kept2, c), t))
<1> PICK S, T : S = OfType(f, Mine(f, kept, c), t) /\ T = OfType(g, Mine(g, kept2, c), t)
  OBVIOUS
<1>1. /\ \A i : i \in S <=> i \in kept /\ ScoresSubject(f[i], c) /\ f[i].type = t
      /\ \A j : j \in T <=> j \in kept2 /\ ScoresSubject(g[j], c) /\ g[j].type = t
  BY DEF OfType, Mine
<1> DEFINE h == [i \in S |-> CHOOSE j \in kept2 : g[j] = f[i]]
<1>2. ASSUME NEW i \in S PROVE h[i] \in T /\ g[h[i]] = f[i]
  <2>1. \E j \in kept2 : g[j] = f[i]
    BY <1>1 DEF Tells
  <2>2. h[i] \in kept2 /\ g[h[i]] = f[i]
    BY <2>1
  <2> QED  BY <1>1, <2>2
<1>3. \A i, j \in S : h[i] = h[j] => i = j
  <2>1. S \subseteq DOMAIN f
    BY <1>1 DEF Tells
  <2>2. \A i, j \in S : h[i] = h[j] => f[i] = f[j]
    <3> HIDE DEF h
    <3> QED  BY <1>2
  <2> HIDE DEF h
  <2> QED  BY <2>1, <2>2 DEF Tells, HeldOnce
<1>4. h \in [S -> T]
  BY <1>2
<1>5. IsFiniteSet(T)
  <2>1. T \in SUBSET DOMAIN g
    BY <1>1 DEF Tells
  <2> QED  BY <2>1, SoonerOrders DEF Tells
<1> HIDE DEF h
<1>6. h \in Injection(S, T)
  BY <1>3, <1>4 DEF Injection, IsInjective
<1>7. Cardinality(S) <= Cardinality(T)
  BY <1>5, <1>6, FS_Injection
<1> QED  BY <1>7

(* Each contribution has its counterpart: the one of its type at its       *)
(* place, which weighs the same.                                           *)
Counterpart(k, l) == l.type = k.type /\ l.occurrence = k.occurrence

LEMMA CounterpartsKept ==
  ASSUME NEW f, NEW kept, NEW g, NEW kept2, Tells(g, kept2, f, kept), NEW c,
         NEW d \in Dimensions, NEW config, Weighs(config),
         NEW k \in Contributions(f, kept, c, d, config)
  PROVE  \E l \in Contributions(g, kept2, c, d, config) :
           Counterpart(k, l) /\ l.delta = k.delta /\ k.delta \in Nat
<1>1. HeldOnce(f) /\ HeldOnce(g) /\ kept \in SUBSET DOMAIN f /\ kept2 \in SUBSET DOMAIN g
  BY DEF Tells
<1>2. PICK i \in Mine(f, kept, c) :
        k = Nth(f[i].id, f[i].type,
                PlaceIn(Sooner(f), OfType(f, Mine(f, kept, c), f[i].type), i), d, config)
  BY <1>1, ContributionsByPlace
<1>3. k.delta # 0
  BY <1>1, ContributionsByPlace
<1> PICK t, S, T : /\ t = f[i].type
                   /\ S = OfType(f, Mine(f, kept, c), t) /\ T = OfType(g, Mine(g, kept2, c), t)
  OBVIOUS
<1>4. i \in S /\ S \in SUBSET DOMAIN f /\ T \in SUBSET DOMAIN g
  BY <1>1, <1>2 DEF OfType, Mine
<1> PICK n : n = PlaceIn(Sooner(f), S, i)
  OBVIOUS
<1>5. k = Nth(f[i].id, t, n, d, config)
  BY <1>2
<1>6. Cardinality(S) \in Nat /\ n \in 0 .. Cardinality(S) - 1
  <2>1. IsFiniteSet(S) /\ Orders(Sooner(f), S)
    BY <1>1, <1>4, SoonerOrders
  <2>2. Cardinality(S) \in Nat /\ \A x \in S : PlaceIn(Sooner(f), S, x) \in 0 .. Cardinality(S) - 1
    BY <2>1, PlacesTaken, Zenon
  <2> QED  BY <1>4, <2>2
<1>7. Cardinality(T) \in Nat /\ Cardinality(S) <= Cardinality(T)
  BY <1>1, <1>4, TypesGrow, SoonerOrders, FS_CardinalityType
<1>8. n \in 0 .. Cardinality(T) - 1
  BY <1>6, <1>7
<1>9. PICK j \in T : PlaceIn(Sooner(g), T, j) = n
  <2>1. IsFiniteSet(T) /\ Orders(Sooner(g), T)
    BY <1>1, <1>4, SoonerOrders
  <2>2. n \in Nat /\ n < Cardinality(T)
    BY <1>7, <1>8
  <2> QED  BY <2>1, <2>2, PlaceFilled
<1>10. j \in Mine(g, kept2, c) /\ g[j].type = t
  BY <1>9 DEF OfType
<1> PICK l : l = Nth(g[j].id, t, n, d, config)
  OBVIOUS
<1>11. l.type = t /\ l.occurrence = n + 1 /\ l.delta = Decayed(Weighed(t, d, config), 1, n, config)
  BY DEF Nth
<1>12. k.type = t /\ k.occurrence = n + 1 /\ k.delta = Decayed(Weighed(t, d, config), 1, n, config)
  BY <1>5 DEF Nth
<1>13. l \in Contributions(g, kept2, c, d, config)
  <2>1. l = Nth(g[j].id, g[j].type,
                PlaceIn(Sooner(g), OfType(g, Mine(g, kept2, c), g[j].type), j), d, config)
    BY <1>9, <1>10
  <2>2. l.delta # 0
    BY <1>3, <1>11, <1>12
  <2> QED  BY <1>1, <1>10, <2>1, <2>2, ContributionsByPlace
<1>14. k.delta \in Nat
  BY <1>5, <1>6, NthDelta
<1> QED  BY <1>11, <1>12, <1>13, <1>14 DEF Counterpart

LEMMA CounterpartsApart ==
  ASSUME NEW f, HeldOnce(f), NEW kept \in SUBSET DOMAIN f, NEW c, NEW d \in Dimensions, NEW config,
         NEW k \in Contributions(f, kept, c, d, config),
         NEW l \in Contributions(f, kept, c, d, config), Counterpart(k, l)
  PROVE  k = l
<1>1. PICK i \in Mine(f, kept, c) :
        k = Nth(f[i].id, f[i].type,
                PlaceIn(Sooner(f), OfType(f, Mine(f, kept, c), f[i].type), i), d, config)
  BY ContributionsByPlace
<1>2. PICK j \in Mine(f, kept, c) :
        l = Nth(f[j].id, f[j].type,
                PlaceIn(Sooner(f), OfType(f, Mine(f, kept, c), f[j].type), j), d, config)
  BY ContributionsByPlace
<1>3. f[i].type = f[j].type
  BY <1>1, <1>2 DEF Nth, Counterpart
<1> PICK S : S = OfType(f, Mine(f, kept, c), f[i].type)
  OBVIOUS
<1>4. S \in SUBSET DOMAIN f /\ i \in S /\ j \in S
  BY <1>1, <1>2, <1>3 DEF OfType, Mine
<1> PICK n, m : n = PlaceIn(Sooner(f), S, i) /\ m = PlaceIn(Sooner(f), S, j)
  OBVIOUS
<1>5. /\ Cardinality(S) \in Nat
      /\ n \in 0 .. Cardinality(S) - 1 /\ m \in 0 .. Cardinality(S) - 1
  <2>1. IsFiniteSet(S) /\ Orders(Sooner(f), S)
    BY <1>4, SoonerOrders
  <2>2. Cardinality(S) \in Nat /\ \A x \in S : PlaceIn(Sooner(f), S, x) \in 0 .. Cardinality(S) - 1
    BY <2>1, PlacesTaken, Zenon
  <2> QED  BY <1>4, <2>2
<1>6. k.occurrence = n + 1 /\ l.occurrence = m + 1
  BY <1>1, <1>2, <1>3 DEF Nth
<1>7. n = m
  BY <1>5, <1>6 DEF Counterpart
<1>8. i = j
  <2>1. IsFiniteSet(S) /\ Orders(Sooner(f), S)
    BY <1>4, SoonerOrders
  <2>2. PlaceIn(Sooner(f), S, i) = PlaceIn(Sooner(f), S, j)
    BY <1>7
  <2> QED  BY <1>4, <2>1, <2>2, PlacesApart, Zenon
<1> QED  BY <1>1, <1>2, <1>8

Raw(cs) == SumFunctionOnSet([k \in cs |-> k.delta], cs)

LEMMA RawRises ==
  ASSUME NEW f, NEW kept, NEW g, NEW kept2, Tells(g, kept2, f, kept), NEW c,
         NEW d \in Dimensions, NEW config, Weighs(config)
  PROVE  /\ Raw(Contributions(f, kept, c, d, config)) \in Nat
         /\ Raw(Contributions(f, kept, c, d, config)) <= Raw(Contributions(g, kept2, c, d, config))
<1> PICK A, B : /\ A = Contributions(f, kept, c, d, config)
                /\ B = Contributions(g, kept2, c, d, config)
  OBVIOUS
<1>1. HeldOnce(f) /\ HeldOnce(g) /\ kept \in SUBSET DOMAIN f /\ kept2 \in SUBSET DOMAIN g
  BY DEF Tells
<1>2. Tells(g, kept2, g, kept2)
  BY DEF Tells
<1>3. IsFiniteSet(A) /\ IsFiniteSet(B)
  BY <1>1, ContributionsFinite
<1> DEFINE p == [k \in A |-> CHOOSE l \in B : Counterpart(k, l) /\ l.delta = k.delta /\ k.delta \in Nat]
<1>4. \A k \in A : p[k] \in B /\ Counterpart(k, p[k]) /\ p[k].delta = k.delta /\ k.delta \in Nat
  <2>1. \A k \in A : \E l \in B : Counterpart(k, l) /\ l.delta = k.delta /\ k.delta \in Nat
    BY CounterpartsKept
  <2> QED  BY <2>1
<1>5. \A l \in B : l.delta \in Nat
  BY <1>2, CounterpartsKept
<1> HIDE DEF p
<1>6. ASSUME NEW x \in A, NEW y \in A, p[x] = p[y] PROVE x = y
  <2>1. Counterpart(x, y)
    BY <1>4, <1>6 DEF Counterpart
  <2> QED  BY <1>1, <2>1, CounterpartsApart
<1> PICK u, v : u = [k \in A |-> k.delta] /\ v = [k \in B |-> k.delta]
  OBVIOUS
<1>7. /\ \A x \in A : p[x] \in B
      /\ \A x, y \in A : p[x] = p[y] => x = y
      /\ \A x \in A : u[x] \in Nat
      /\ \A y \in B : v[y] \in Nat
      /\ \A x \in A : u[x] <= v[p[x]]
  BY <1>4, <1>5, <1>6
<1>8. SumFunctionOnSet(u, A) <= SumFunctionOnSet(v, B) /\ SumFunctionOnSet(u, A) \in Nat
  BY <1>3, <1>7, SumInjected, SumNat
<1> QED  BY <1>8 DEF Raw

LEMMA ScoreIs ==
  ASSUME NEW f, NEW kept, NEW c, NEW config, NEW d \in Dimensions
  PROVE  ScoreSubject(f, kept, c, config)[d].score
           = Clamp(Raw(Contributions(f, kept, c, d, config)), config.cap)
<1> DEFINE Tallied(cs) == [score |-> Clamp(Raw(cs), config.cap), raw |-> Raw(cs), contributions |-> cs]
<1>1. ScoreSubject(f, kept, c, config) =
        [e \in Dimensions |-> Tallied(Contributions(f, kept, c, e, config))]
  BY Zenon DEF ScoreSubject, Raw
<1>2. \A cs : Tallied(cs).score = Clamp(Raw(cs), config.cap)
  OBVIOUS
<1> HIDE DEF Tallied
<1> QED  BY <1>1, <1>2

LEMMA ScoreRises ==
  ASSUME NEW f, NEW kept, NEW g, NEW kept2, Tells(g, kept2, f, kept), NEW c,
         NEW d \in Dimensions, NEW config, Weighs(config)
  PROVE  /\ ScoreSubject(f, kept, c, config)[d].score \in Nat
         /\ ScoreSubject(g, kept2, c, config)[d].score \in Nat
         /\ ScoreSubject(f, kept, c, config)[d].score <= ScoreSubject(g, kept2, c, config)[d].score
<1> PICK n, m, cap : /\ n = Raw(Contributions(f, kept, c, d, config))
                     /\ m = Raw(Contributions(g, kept2, c, d, config))
                     /\ cap = config.cap
  OBVIOUS
<1>1. cap \in Nat
  BY DecisionFeedAssumption DEF DecisionFeedAssumption, Weighs
<1>2. Tells(g, kept2, g, kept2)
  BY DEF Tells
<1>3. n \in Nat /\ m \in Nat /\ n <= m
  BY <1>2, RawRises
<1>4. /\ Clamp(n, cap) \in Nat /\ Clamp(m, cap) \in Nat
      /\ Clamp(n, cap) <= Clamp(m, cap)
  BY <1>1, <1>3, ClampAt
<1> QED  BY <1>4, ScoreIs
-----------------------------------------------------------------------------
(* The view from the client's own seat.                                    *)

(* Scores of the accounts, all within reach, and those that are no lower.  *)
Scored(scores, accounts) ==
  \A c \in accounts, d \in Dimensions : scores[c.id][d].score \in Nat

Higher(new, old, accounts) ==
  \A c \in accounts, d \in Dimensions : old[c.id][d].score <= new[c.id][d].score

(* A candidate is a rule for the relationship of a source that scores.     *)
Applies(accounts, self, scores, target, config, c, n) ==
  /\ c \in accounts /\ c.id # self.id
  /\ n \in DOMAIN config.rules /\ config.rules[n].target = target
  /\ scores[c.id][config.rules[n].source].score > 0
  /\ \E b \in accounts : b.id = c.id /\ b.relationship = config.rules[n].relationship

Base(scores, config, c, n) == scores[c][config.rules[n].source].score * config.rules[n].factor

LEMMA CandidatesAre ==
  ASSUME NEW accounts, NEW self, NEW scores, NEW target, NEW config
  PROVE  /\ \A k \in Candidates(accounts, self, scores, target, config) :
              /\ \E c \in accounts : /\ c.id = k.source
                                     /\ Applies(accounts, self, scores, target, config, c, k.rule)
              /\ k = [source |-> k.source, rule |-> k.rule, base |-> k.base]
              /\ k.base = Base(scores, config, k.source, k.rule)
         /\ \A c, n : Applies(accounts, self, scores, target, config, c, n)
              => \E k \in Candidates(accounts, self, scores, target, config) :
                   k.source = c.id /\ k.rule = n /\ k.base = Base(scores, config, c.id, n)
<1> DEFINE Is(c, n) == [source |-> c.id, rule |-> n,
                        base |-> scores[c.id][config.rules[n].source].score * config.rules[n].factor]
           Stands(k) == /\ scores[k.source][config.rules[k.rule].source].score > 0
                        /\ \E b \in accounts :
                             b.id = k.source /\ b.relationship = config.rules[k.rule].relationship
           sources == {c \in accounts : c.id # self.id}
           rules == {n \in DOMAIN config.rules : config.rules[n].target = target}
<1>1. Candidates(accounts, self, scores, target, config)
        = {k \in {Is(c, n) : c \in sources, n \in rules} : Stands(k)}
  BY DEF Candidates
<1>2. \A c, n : Is(c, n) = [source |-> c.id, rule |-> n, base |-> Base(scores, config, c.id, n)]
  BY DEF Base
<1> HIDE DEF Is
<1>3. ASSUME NEW k \in Candidates(accounts, self, scores, target, config)
      PROVE  /\ \E c \in accounts : /\ c.id = k.source
                                    /\ Applies(accounts, self, scores, target, config, c, k.rule)
             /\ k = [source |-> k.source, rule |-> k.rule, base |-> k.base]
             /\ k.base = Base(scores, config, k.source, k.rule)
  <2>1. Stands(k) /\ \E c \in sources, n \in rules : k = Is(c, n)
    <3> HIDE DEF Stands
    <3> QED  BY <1>1
  <2>2. PICK c \in sources, n \in rules :
          k = [source |-> c.id, rule |-> n, base |-> Base(scores, config, c.id, n)]
    BY <2>1, <1>2
  <2>3. k.source = c.id /\ k.rule = n /\ k.base = Base(scores, config, c.id, n)
    BY <2>2
  <2>4. Applies(accounts, self, scores, target, config, c, n)
    BY <2>1, <2>3 DEF Applies
  <2>5. c \in accounts
    OBVIOUS
  <2> QED  BY <2>2, <2>3, <2>4, <2>5
<1>4. ASSUME NEW c, NEW n, Applies(accounts, self, scores, target, config, c, n)
      PROVE  \E k \in Candidates(accounts, self, scores, target, config) :
               k.source = c.id /\ k.rule = n /\ k.base = Base(scores, config, c.id, n)
  <2> PICK k : k = Is(c, n)
    OBVIOUS
  <2>1. k.source = c.id /\ k.rule = n /\ k.base = Base(scores, config, c.id, n)
    BY <1>2
  <2>2. c \in sources /\ n \in rules
    BY <1>4 DEF Applies
  <2>3. Stands(k)
    BY <1>4, <2>1 DEF Applies
  <2>4. k \in Candidates(accounts, self, scores, target, config)
    <3> HIDE DEF Stands
    <3> QED  BY <1>1, <2>2, <2>3
  <2> QED  BY <2>1, <2>4
<1> QED  BY <1>3, <1>4

LEMMA CandidatesFinite ==
  ASSUME NEW accounts \in SUBSET Companies, NEW self, NEW scores, NEW target, NEW config \in Configs
  PROVE  IsFiniteSet(Candidates(accounts, self, scores, target, config))
<1> PICK ks, ids, rules, pairs :
       /\ ks = Candidates(accounts, self, scores, target, config)
       /\ ids = {c.id : c \in accounts} /\ rules = DOMAIN config.rules /\ pairs = ids \X rules
  OBVIOUS
<1>1. IsFiniteSet(accounts) /\ IsFiniteSet(rules)
  BY FS_Subset, DecisionFeedAssumption DEF DecisionFeedAssumption
<1>2. IsFiniteSet(ids)
  <2> DEFINE id == [c \in accounts |-> c.id]
  <2>1. id \in Surjection(accounts, ids)
    BY DEF Surjection
  <2> HIDE DEF id
  <2> QED  BY <1>1, <2>1, FS_Surjection
<1>3. IsFiniteSet(pairs)
  BY <1>1, <1>2, FS_Product
<1> DEFINE key == [k \in ks |-> <<k.source, k.rule>>]
<1>4. key \in Injection(ks, pairs)
  <2>1. \A k \in ks : k.source \in ids /\ k.rule \in rules
    BY CandidatesAre DEF Applies
  <2>2. \A k, l \in ks : k.source = l.source /\ k.rule = l.rule => k = l
    <3>1. \A k \in ks : /\ k = [source |-> k.source, rule |-> k.rule, base |-> k.base]
                        /\ k.base = Base(scores, config, k.source, k.rule)
      BY CandidatesAre
    <3> QED  BY <3>1
  <2>3. key \in [ks -> pairs]
    BY <2>1
  <2>4. \A k, l \in ks : key[k] = key[l] => k = l
    BY <2>2
  <2> HIDE DEF key
  <2> QED  BY <2>3, <2>4 DEF Injection, IsInjective
<1> HIDE DEF key
<1> QED  BY <1>3, <1>4, FS_Injection

Firsts(ks) == {r \in ks \X ks : Ahead(r[1], r[2])}

(* The candidates and what their order needs of them.                      *)
Field(ks) ==
  /\ IsFiniteSet(ks)
  /\ \A k \in ks : k.source \in Int /\ k.rule \in Int /\ k.base \in Nat
  /\ \A k, l \in ks : k.source = l.source /\ k.rule = l.rule => k = l

LEMMA FirstsOrder ==
  ASSUME NEW ks, Field(ks)
  PROVE  /\ Orders(Firsts(ks), ks)
         /\ \A k \in ks : PlaceIn(Firsts(ks), ks, k) = Cardinality({l \in ks : Ahead(l, k)})
<1>1. \A k, l \in ks : <<k, l>> \in Firsts(ks) <=> Ahead(k, l)
  BY DEF Firsts
<1>2. \A k \in ks : k.source \in Int /\ k.rule \in Int /\ k.base \in Int
  BY DEF Field
<1>3. \A k \in ks : ~Ahead(k, k)
  BY <1>2 DEF Ahead
<1>4. \A k, l, m \in ks : Ahead(k, l) /\ Ahead(l, m) => Ahead(k, m)
  BY <1>2 DEF Ahead
<1>5. \A k, l \in ks : k # l => Ahead(k, l) \/ Ahead(l, k)
  BY <1>2 DEF Ahead, Field
<1>6. Orders(Firsts(ks), ks)
  BY <1>1, <1>3, <1>4, <1>5, Zenon DEF Orders
<1>7. ASSUME NEW k \in ks
      PROVE  PlaceIn(Firsts(ks), ks, k) = Cardinality({l \in ks : Ahead(l, k)})
  <2>1. {l \in ks : <<l, k>> \in Firsts(ks)} = {l \in ks : Ahead(l, k)}
    BY <1>1
  <2> QED  BY <2>1 DEF PlaceIn
<1> QED  BY <1>6, <1>7

LEMMA CandidatesField ==
  ASSUME NEW accounts \in SUBSET Companies, NEW self, NEW scores, NEW target \in Dimensions,
         NEW config, Weighs(config), Scored(scores, accounts)
  PROVE  Field(Candidates(accounts, self, scores, target, config))
<1> PICK ks : ks = Candidates(accounts, self, scores, target, config)
  OBVIOUS
<1>1. IsFiniteSet(ks)
  BY CandidatesFinite DEF Weighs
<1>2. /\ \A n \in DOMAIN config.rules : config.rules[n].source \in Dimensions /\ config.rules[n].factor \in Nat
      /\ DOMAIN config.rules \subseteq Int
      /\ \A c \in accounts : c.id \in Int
  BY DecisionFeedAssumption DEF DecisionFeedAssumption, Weighs, Adds
<1>3. ASSUME NEW k \in ks PROVE k.source \in Int /\ k.rule \in Int /\ k.base \in Nat
  <2>1. PICK c \in accounts : c.id = k.source /\ Applies(accounts, self, scores, target, config, c, k.rule)
    BY CandidatesAre
  <2>2. k.rule \in DOMAIN config.rules
    BY <2>1 DEF Applies
  <2>3. k.base = Base(scores, config, k.source, k.rule)
    BY CandidatesAre
  <2> PICK x, y : x = scores[c.id][config.rules[k.rule].source].score /\ y = config.rules[k.rule].factor
    OBVIOUS
  <2>4. x \in Nat /\ y \in Nat
    BY <1>2, <2>2 DEF Scored
  <2>5. k.base = x * y
    BY <2>1, <2>3 DEF Base
  <2>6. x * y \in Nat
    BY <2>4
  <2> QED  BY <1>2, <2>1, <2>2, <2>5, <2>6
<1>4. ASSUME NEW k \in ks, NEW l \in ks, k.source = l.source, k.rule = l.rule PROVE k = l
  <2>1. \A m \in ks : /\ m = [source |-> m.source, rule |-> m.rule, base |-> m.base]
                      /\ m.base = Base(scores, config, m.source, m.rule)
    BY CandidatesAre
  <2> QED  BY <1>4, <2>1
<1> QED  BY <1>1, <1>3, <1>4 DEF Field

(* Every candidate is one again that counts no less.                       *)
Outdo(ls, ks) ==
  \A k \in ks : \E l \in ls : l.source = k.source /\ l.rule = k.rule /\ k.base <= l.base

LEMMA ProductRises ==
  ASSUME NEW x \in Nat, NEW y \in Nat, NEW z \in Nat, x <= y
  PROVE  x * z \in Nat /\ x * z <= y * z
<1>1. x * z \in Nat /\ y * z \in Nat /\ (y - x) * z \in Nat
  OBVIOUS
<1>2. y * z = x * z + (y - x) * z
  OBVIOUS
<1> QED  BY <1>1, <1>2

LEMMA CandidatesOutdone ==
  ASSUME NEW accounts \in SUBSET Companies, NEW self, NEW old, NEW new, NEW target \in Dimensions,
         NEW config, Weighs(config), Scored(old, accounts), Scored(new, accounts),
         Higher(new, old, accounts)
  PROVE  Outdo(Candidates(accounts, self, new, target, config), Candidates(accounts, self, old, target, config))
<1> SUFFICES ASSUME NEW k \in Candidates(accounts, self, old, target, config)
             PROVE  \E l \in Candidates(accounts, self, new, target, config) :
                      l.source = k.source /\ l.rule = k.rule /\ k.base <= l.base
  BY DEF Outdo
<1>1. PICK c \in accounts : c.id = k.source /\ Applies(accounts, self, old, target, config, c, k.rule)
  BY CandidatesAre
<1> PICK n : n = k.rule
  OBVIOUS
<1>2. n \in DOMAIN config.rules
  BY <1>1 DEF Applies
<1>3. config.rules[n].source \in Dimensions /\ config.rules[n].factor \in Nat
  BY <1>2, DecisionFeedAssumption DEF DecisionFeedAssumption, Weighs, Adds
<1>0. PICK x, y, z : /\ x = old[c.id][config.rules[n].source].score
                     /\ y = new[c.id][config.rules[n].source].score
                     /\ z = config.rules[n].factor
  OBVIOUS
<1>4. x \in Nat /\ y \in Nat /\ z \in Nat /\ x <= y
  BY <1>0, <1>3 DEF Scored, Higher
<1>5. x > 0
  BY <1>0, <1>1 DEF Applies
<1>6. Applies(accounts, self, new, target, config, c, n)
  <2>1. y > 0
    BY <1>4, <1>5
  <2> QED  BY <1>0, <1>1, <2>1 DEF Applies
<1>7. PICK l \in Candidates(accounts, self, new, target, config) :
        l.source = c.id /\ l.rule = n /\ l.base = Base(new, config, c.id, n)
  BY <1>6, CandidatesAre
<1>8. k.base = x * z /\ l.base = y * z
  <2>1. k.base = Base(old, config, k.source, k.rule)
    BY CandidatesAre
  <2> QED  BY <1>0, <1>1, <1>7, <2>1 DEF Base
<1>9. x * z <= y * z
  BY <1>4, ProductRises
<1> QED  BY <1>1, <1>7, <1>8, <1>9

(* What has no fewer at the top is no less at each place: in a field that  *)
(* outdoes another, the one at the place of k counts no less than k.       *)
LEMMA PlaceOutdone ==
  ASSUME NEW ks, Field(ks), NEW ls, Field(ls), Outdo(ls, ks), NEW k \in ks
  PROVE  \E l \in ls : /\ PlaceIn(Firsts(ls), ls, l) = PlaceIn(Firsts(ks), ks, k)
                       /\ k.base <= l.base
<1>1. /\ IsFiniteSet(ks) /\ Orders(Firsts(ks), ks)
      /\ IsFiniteSet(ls) /\ Orders(Firsts(ls), ls)
  BY FirstsOrder DEF Field
<1> DEFINE q == [j \in ks |-> CHOOSE l \in ls : l.source = j.source /\ l.rule = j.rule /\ j.base <= l.base]
<1>2. \A j \in ks : q[j] \in ls /\ q[j].source = j.source /\ q[j].rule = j.rule /\ j.base <= q[j].base
  BY DEF Outdo
<1> HIDE DEF q
<1>3. \A i, j \in ks : q[i] = q[j] => i = j
  BY <1>2 DEF Field
<1>4. \A j \in ks : j.base \in Nat
  BY DEF Field
<1>5. \A l \in ls : l.base \in Nat
  BY DEF Field
<1> PICK n, ahead, top : /\ n = PlaceIn(Firsts(ks), ks, k)
                         /\ ahead = {j \in ks : Ahead(j, k)}
                         /\ top = ahead \cup {k}
  OBVIOUS
<1>6. n = Cardinality(ahead)
  BY FirstsOrder
<1>7. k \notin ahead
  BY <1>4 DEF Ahead, Field
<1>8. IsFiniteSet(ahead) /\ n \in Nat
  BY <1>1, <1>6, FS_Subset, FS_CardinalityType
<1>9. IsFiniteSet(top) /\ Cardinality(top) = n + 1
  <2>1. /\ IsFiniteSet(ahead \cup {k})
        /\ Cardinality(ahead \cup {k}) =
             IF k \in ahead THEN Cardinality(ahead) ELSE Cardinality(ahead) + 1
    BY <1>8, FS_AddElement
  <2> QED
    BY <1>6, <1>7, <2>1
<1>10. top \in SUBSET ks /\ \A j \in top : k.base <= j.base
  BY <1>4 DEF Ahead
<1> DEFINE r == [j \in top |-> q[j]]
           U == {q[j] : j \in top}
<1>11. r \in Injection(top, U) /\ r \in Surjection(top, U)
  <2>1. r \in [top -> U]
    OBVIOUS
  <2>2. \A i, j \in top : r[i] = r[j] => i = j
    BY <1>3, <1>10
  <2>3. \A u \in U : \E j \in top : r[j] = u
    OBVIOUS
  <2> HIDE DEF r, U
  <2> QED  BY <2>1, <2>2, <2>3 DEF Injection, IsInjective, Surjection
<1>12. IsFiniteSet(U) /\ Cardinality(U) = n + 1
  <2> HIDE DEF r, U
  <2>1. IsFiniteSet(U) /\ (Cardinality(U) = Cardinality(top) <=> r \in Injection(top, U))
    BY <1>9, <1>11, FS_Surjection
  <2> QED  BY <1>9, <1>11, <2>1
<1>13. U \in SUBSET ls /\ \A u \in U : k.base <= u.base
  <2>1. \A j \in top : q[j] \in ls /\ k.base <= q[j].base
    <3>1. \A j \in top : /\ k.base \in Nat /\ j.base \in Nat /\ q[j].base \in Nat
                         /\ k.base <= j.base /\ j.base <= q[j].base /\ q[j] \in ls
      BY <1>2, <1>4, <1>5, <1>10
    <3> QED  BY <3>1
  <2> QED  BY <2>1
<1> HIDE DEF U, r
<1>14. Cardinality(ls) \in Nat /\ n + 1 <= Cardinality(ls)
  BY <1>1, <1>12, <1>13, FS_Subset, FS_CardinalityType
<1>15. PICK l \in ls : PlaceIn(Firsts(ls), ls, l) = n
  <2>1. n < Cardinality(ls)
    BY <1>8, <1>14
  <2> QED  BY <1>1, <1>8, <2>1, PlaceFilled
<1>16. ASSUME l.base < k.base PROVE FALSE
  <2> PICK V : V = {m \in ls : Ahead(m, l)}
    OBVIOUS
  <2>1. n = Cardinality(V)
    BY <1>15, FirstsOrder
  <2>2. IsFiniteSet(V)
    BY <1>1, FS_Subset
  <2>3. U \in SUBSET V
    <3>1. \A u \in U : u \in ls /\ u.base > l.base
      BY <1>4, <1>5, <1>13, <1>16
    <3> QED  BY <3>1 DEF Ahead
  <2>4. Cardinality(U) <= Cardinality(V)
    BY <2>2, <2>3, FS_Subset
  <2> QED  BY <1>8, <1>12, <2>1, <2>4
<1>17. k.base <= l.base
  BY <1>4, <1>5, <1>16
<1> QED  BY <1>15, <1>17

WorthOf(ks, config) ==
  [k \in ks |-> Decayed(k.base, 10, Cardinality({l \in ks : Ahead(l, k)}), config)]

LEMMA NetworkRises ==
  ASSUME NEW ks, Field(ks), NEW ls, Field(ls), Outdo(ls, ks), NEW config, Weighs(config)
  PROVE  /\ SumFunctionOnSet(WorthOf(ks, config), ks) \in Nat
         /\ SumFunctionOnSet(WorthOf(ks, config), ks) <= SumFunctionOnSet(WorthOf(ls, config), ls)
<1>1. /\ IsFiniteSet(ks) /\ Orders(Firsts(ks), ks)
      /\ IsFiniteSet(ls) /\ Orders(Firsts(ls), ls)
  BY FirstsOrder DEF Field
<1> PICK u, v : u = WorthOf(ks, config) /\ v = WorthOf(ls, config)
  OBVIOUS
<1>2. /\ \A k \in ks : u[k] = Decayed(k.base, 10, PlaceIn(Firsts(ks), ks, k), config)
      /\ \A l \in ls : v[l] = Decayed(l.base, 10, PlaceIn(Firsts(ls), ls, l), config)
  BY FirstsOrder DEF WorthOf
<1>3. /\ \A k \in ks : PlaceIn(Firsts(ks), ks, k) \in Nat
      /\ \A l \in ls : PlaceIn(Firsts(ls), ls, l) \in Nat
  <2>1. ASSUME NEW S, IsFiniteSet(S), Orders(Firsts(S), S), NEW x \in S
        PROVE  PlaceIn(Firsts(S), S, x) \in Nat
    <3>1. PlaceIn(Firsts(S), S, x) \in 0 .. Cardinality(S) - 1
      BY <2>1, PlacesTaken, Zenon
    <3> QED  BY <3>1
  <2> QED  BY <1>1, <2>1
<1>4. /\ \A k \in ks : k.base \in Nat
      /\ \A l \in ls : l.base \in Nat
  BY DEF Field
<1>5. config \in Configs /\ 10 \in Nat \ {0}
  BY DEF Weighs
<1> DEFINE p == [k \in ks |-> CHOOSE l \in ls :
                   /\ PlaceIn(Firsts(ls), ls, l) = PlaceIn(Firsts(ks), ks, k)
                   /\ k.base <= l.base]
<1>6. \A k \in ks : /\ p[k] \in ls /\ k.base <= p[k].base
                    /\ PlaceIn(Firsts(ls), ls, p[k]) = PlaceIn(Firsts(ks), ks, k)
  BY PlaceOutdone
<1> HIDE DEF p
<1>7. \A x, y \in ks : p[x] = p[y] => x = y
  <2>1. \A x, y \in ks : PlaceIn(Firsts(ks), ks, x) = PlaceIn(Firsts(ks), ks, y) => x = y
    BY <1>1, PlacesApart, Zenon
  <2> QED  BY <1>6, <2>1
<1>8. ASSUME NEW l \in ls PROVE v[l] \in Nat
  <2> PICK n, b : n = PlaceIn(Firsts(ls), ls, l) /\ b = l.base
    OBVIOUS
  <2>1. n \in Nat /\ b \in Nat /\ b <= b
    BY <1>3, <1>4
  <2>2. v[l] = Decayed(b, 10, n, config)
    BY <1>2
  <2> QED  BY <1>5, <2>1, <2>2, DecayedNat
<1>9. ASSUME NEW k \in ks PROVE u[k] \in Nat /\ u[k] <= v[p[k]]
  <2> PICK n, a, b : n = PlaceIn(Firsts(ks), ks, k) /\ a = k.base /\ b = p[k].base
    OBVIOUS
  <2>1. n \in Nat /\ a \in Nat /\ b \in Nat /\ a <= b
    BY <1>3, <1>4, <1>6
  <2>2. u[k] = Decayed(a, 10, n, config) /\ v[p[k]] = Decayed(b, 10, n, config)
    BY <1>2, <1>6
  <2>3. /\ Decayed(a, 10, n, config) \in Nat
        /\ Decayed(a, 10, n, config) <= Decayed(b, 10, n, config)
    BY <1>5, <2>1, DecayedNat, Zenon
  <2> QED  BY <2>2, <2>3
<1>10. SumFunctionOnSet(u, ks) <= SumFunctionOnSet(v, ls)
  BY <1>1, <1>6, <1>7, <1>8, <1>9, SumInjected
<1>11. SumFunctionOnSet(u, ks) \in Nat
  BY <1>1, <1>9, SumNat
<1> QED  BY <1>10, <1>11

LEMMA LensIs ==
  ASSUME NEW accounts, NEW scores, NEW config, NEW d \in Dimensions,
         NEW self, self = CHOOSE c \in accounts : c.relationship = "self",
         NEW ks, ks = Candidates(accounts, self, scores, d, config)
  PROVE  SelfLens(accounts, scores, config)[d] =
           Min({config.cap, scores[self.id][d].score + SumFunctionOnSet(WorthOf(ks, config), ks)})
BY DEF SelfLens, WorthOf

LEMMA CapRises ==
  ASSUME NEW cap \in Nat, NEW x \in Nat, NEW y \in Nat, NEW u \in Nat, NEW v \in Nat,
         x <= y, u <= v
  PROVE  Min({cap, x + u}) <= Min({cap, y + v})
<1>1. \A n \in Nat : Min({cap, n}) = IF cap <= n THEN cap ELSE n
  BY DEF Min
<1> PICK s, t : s = x + u /\ t = y + v
  OBVIOUS
<1>2. s \in Nat /\ t \in Nat /\ s <= t
  OBVIOUS
<1>3. Min({cap, s}) <= Min({cap, t})
  BY <1>1, <1>2
<1> QED  BY <1>3

LEMMA LensRises ==
  ASSUME NEW accounts \in SUBSET Companies, NEW old, NEW new, NEW d \in Dimensions,
         NEW config, Weighs(config), Scored(old, accounts), Scored(new, accounts),
         Higher(new, old, accounts), \E c \in accounts : c.relationship = "self"
  PROVE  SelfLens(accounts, old, config)[d] <= SelfLens(accounts, new, config)[d]
<1> PICK self : self = CHOOSE c \in accounts : c.relationship = "self"
  OBVIOUS
<1>1. self \in accounts
  OBVIOUS
<1> PICK ks, ls : /\ ks = Candidates(accounts, self, old, d, config)
                  /\ ls = Candidates(accounts, self, new, d, config)
  OBVIOUS
<1>2. Field(ks) /\ Field(ls) /\ Outdo(ls, ks)
  BY CandidatesField, CandidatesOutdone
<1>3. Outdo(ls, ls)
  <2>1. \A l \in ls : l.base \in Nat
    BY <1>2 DEF Field
  <2>2. \A l \in ls : l.source = l.source /\ l.rule = l.rule /\ l.base <= l.base
    BY <2>1
  <2> QED  BY <2>2, Zenon DEF Outdo
<1> PICK x, y, u, v, cap :
      /\ x = old[self.id][d].score /\ y = new[self.id][d].score /\ cap = config.cap
      /\ u = SumFunctionOnSet(WorthOf(ks, config), ks) /\ v = SumFunctionOnSet(WorthOf(ls, config), ls)
  OBVIOUS
<1>4. u \in Nat /\ v \in Nat /\ u <= v
  BY <1>2, <1>3, NetworkRises
<1>5. x \in Nat /\ y \in Nat /\ x <= y
  BY <1>1 DEF Scored, Higher
<1>6. cap \in Nat
  BY DecisionFeedAssumption DEF DecisionFeedAssumption, Weighs
<1>7. SelfLens(accounts, old, config)[d] = Min({cap, x + u})
  BY LensIs
<1>8. SelfLens(accounts, new, config)[d] = Min({cap, y + v})
  BY LensIs
<1>9. Min({cap, x + u}) <= Min({cap, y + v})
  BY <1>4, <1>5, <1>6, CapRises
<1> QED  BY <1>7, <1>8, <1>9
-----------------------------------------------------------------------------
(* Alerts and advice.                                                      *)
LEMMA UrgencyIs ==
  ASSUME NEW scores, NEW config, NEW c \in DOMAIN scores, NEW d \in Dimensions,
         NEW s \in Nat, s = scores[c][d].score, NEW t \in Int, t = config.thresholds[d]
  PROVE  Urgency(Alerts(scores, config), c, d) =
           IF s >= t + 20 THEN 2 ELSE IF s >= t THEN 1 ELSE 0
<1> DEFINE Alert(a) == [subject |-> a.c, dimension |-> a.d, score |-> scores[a.c][a.d].score,
                        high |-> scores[a.c][a.d].score >= config.thresholds[a.d] + 20,
                        reason |-> TopReason(scores[a.c][a.d].contributions)]
           over == {a \in [c : DOMAIN scores, d : Dimensions] :
                      scores[a.c][a.d].score >= config.thresholds[a.d]}
           own == {a \in Alerts(scores, config) : a.subject = c /\ a.dimension = d}
           Level(a) == IF a.high THEN 2 ELSE 1
           levels == {Level(a) : a \in own}
<1>1. Alerts(scores, config) = {Alert(a) : a \in over}
  BY DEF Alerts
<1>2. \A a : /\ Alert(a).subject = a.c /\ Alert(a).dimension = a.d
             /\ Alert(a).high = (scores[a.c][a.d].score >= config.thresholds[a.d] + 20)
  OBVIOUS
<1> HIDE DEF Alert
<1>3. ASSUME NEW a \in own PROVE s >= t /\ a.high = (s >= t + 20)
  <2>1. PICK b \in over : a = Alert(b)
    BY <1>1
  <2>2. b.c = c /\ b.d = d
    BY <1>2, <2>1
  <2> QED  BY <1>2, <2>1, <2>2
<1>4. ASSUME s >= t PROVE \E a \in own : TRUE
  <2> PICK b : b = [c |-> c, d |-> d]
    OBVIOUS
  <2>1. b.c = c /\ b.d = d /\ b \in [c : DOMAIN scores, d : Dimensions]
    OBVIOUS
  <2>2. b \in over
    BY <1>4, <2>1
  <2>3. Alert(b) \in own
    BY <1>1, <1>2, <2>1, <2>2
  <2> QED  BY <2>3
<1> HIDE DEF own, over
<1>5. CASE s >= t + 20
  <2>1. \A a \in own : Level(a) = 2
    BY <1>3, <1>5
  <2>2. levels = {2}
    BY <1>4, <1>5, <2>1
  <2>3. Max({0} \cup levels) = 2
    BY <2>2 DEF Max
  <2> QED  BY <1>5, <2>3 DEF Urgency, own
<1>6. CASE s >= t /\ ~(s >= t + 20)
  <2>1. \A a \in own : Level(a) = 1
    BY <1>3, <1>6
  <2>2. levels = {1}
    BY <1>4, <1>6, <2>1
  <2>3. Max({0} \cup levels) = 1
    BY <2>2 DEF Max
  <2> QED  BY <1>6, <2>3 DEF Urgency, own
<1>7. CASE ~(s >= t)
  <2>1. levels = {}
    BY <1>3, <1>7
  <2>2. Max({0} \cup levels) = 0
    BY <2>1 DEF Max
  <2> QED  BY <1>7, <2>2 DEF Urgency, own
<1> QED  BY <1>5, <1>6, <1>7

LEMMA AdviceRises ==
  ASSUME NEW c, NEW old, NEW new,
         \A d \in Dimensions : /\ old[d].score \in Nat /\ new[d].score \in Nat
                               /\ old[d].score <= new[d].score
  PROVE  Recommend(c, new).priority >= Recommend(c, old).priority
<1> PICK fits, half : fits = (Fit(c) >= 60) /\ half = (Fit(c) >= 50)
  OBVIOUS
<1> DEFINE Priority(score) ==
      IF c.relationship \in {"target", "customer"}
      THEN IF score["opportunity"].score >= 60 /\ fits THEN 3
           ELSE IF score["opportunity"].score >= 40 THEN 2 ELSE 1
      ELSE IF c.relationship = "competitor"
      THEN IF score["opportunity"].score >= 60 THEN 3
           ELSE IF score["competitivePressure"].score >= 30 THEN 2 ELSE 1
      ELSE IF c.relationship = "supplier"
      THEN IF score["risk"].score >= 50 THEN 3 ELSE 1
      ELSE IF score["risk"].score >= 60 THEN 3 ELSE 2
<1>1. ASSUME NEW score PROVE Recommend(c, score).priority = Priority(score)
  <2>1. CASE c.relationship \in {"target", "customer"}
    BY <2>1 DEF Recommend
  <2>2. CASE c.relationship = "competitor"
    BY <2>2 DEF Recommend
  <2>3. CASE c.relationship = "supplier"
    BY <2>3 DEF Recommend
  <2>4. CASE c.relationship \notin {"target", "customer", "competitor", "supplier"}
    BY <2>4 DEF Recommend
  <2> QED  BY <2>1, <2>2, <2>3, <2>4
<1>2. "risk" \in Dimensions /\ "opportunity" \in Dimensions /\ "competitivePressure" \in Dimensions
  BY DEF Dimensions
<1>3. Priority(old) <= Priority(new)
  BY <1>2
<1>4. Priority(old) \in Int /\ Priority(new) \in Int
  OBVIOUS
<1> HIDE DEF Priority
<1> QED  BY <1>1, <1>3, <1>4

IdsOf(accounts) == {a.id : a \in accounts}

Scores(accounts, f, kept, config) ==
  [c \in IdsOf(accounts) |-> ScoreSubject(f, kept, c, config)]

(* Whoever is told more sees no less.                                      *)
LEMMA AnalyzeNeverLess ==
  ASSUME NEW accounts \in SUBSET Companies, NEW config, Weighs(config),
         NEW f, NEW read, NEW g, NEW read2,
         Tells(g, {j \in read2 : IsValid(g[j], config)}, f, {i \in read : IsValid(f[i], config)}),
         NEW old, old = Analyze(accounts, f, read, config),
         NEW new, new = Analyze(accounts, g, read2, config)
  PROVE  NeverLess(old, new)
<1> PICK kept, kept2 : /\ kept = {i \in read : IsValid(f[i], config)}
                       /\ kept2 = {j \in read2 : IsValid(g[j], config)}
  OBVIOUS
<1>1. Tells(g, kept2, f, kept)
  OBVIOUS
<1>2. /\ old.scores = Scores(accounts, f, kept, config)
      /\ old.alerts = Alerts(old.scores, config)
      /\ old.lens = IF \E c \in accounts : c.relationship = "self"
                    THEN SelfLens(accounts, old.scores, config) ELSE [d \in {} |-> 0]
      /\ old.advice = [c \in accounts |-> Recommend(c, old.scores[c.id])]
  BY DEF Analyze, Scores, IdsOf
<1>3. /\ new.scores = Scores(accounts, g, kept2, config)
      /\ new.alerts = Alerts(new.scores, config)
      /\ new.lens = IF \E c \in accounts : c.relationship = "self"
                    THEN SelfLens(accounts, new.scores, config) ELSE [d \in {} |-> 0]
      /\ new.advice = [c \in accounts |-> Recommend(c, new.scores[c.id])]
  BY DEF Analyze, Scores, IdsOf
<1> PICK S, T : S = old.scores /\ T = new.scores
  OBVIOUS
<1>4. DOMAIN S = IdsOf(accounts) /\ DOMAIN T = IdsOf(accounts)
  BY <1>2, <1>3 DEF Scores
<1>5. ASSUME NEW c \in IdsOf(accounts), NEW d \in Dimensions
      PROVE  S[c][d].score \in Nat /\ T[c][d].score \in Nat /\ S[c][d].score <= T[c][d].score
  <2>1. S[c] = ScoreSubject(f, kept, c, config) /\ T[c] = ScoreSubject(g, kept2, c, config)
    BY <1>2, <1>3 DEF Scores
  <2> QED  BY <1>1, <2>1, ScoreRises
<1>6. \A c \in accounts : c.id \in IdsOf(accounts)
  BY DEF IdsOf
<1>7. Scored(S, accounts) /\ Scored(T, accounts) /\ Higher(T, S, accounts)
  BY <1>5, <1>6 DEF Scored, Higher
<1>8. ASSUME NEW c \in DOMAIN old.scores, NEW d \in Dimensions
      PROVE  /\ new.scores[c][d].score >= old.scores[c][d].score
             /\ Urgency(new.alerts, c, d) >= Urgency(old.alerts, c, d)
  <2> PICK s, r, t : s = S[c][d].score /\ r = T[c][d].score /\ t = config.thresholds[d]
    OBVIOUS
  <2>1. s \in Nat /\ r \in Nat /\ s <= r
    BY <1>4, <1>5
  <2>2. t \in Int
    BY DecisionFeedAssumption DEF DecisionFeedAssumption, Weighs
  <2>3. c \in DOMAIN S /\ c \in DOMAIN T
    BY <1>4
  <2>4. Urgency(Alerts(S, config), c, d) = IF s >= t + 20 THEN 2 ELSE IF s >= t THEN 1 ELSE 0
    BY <2>1, <2>2, <2>3, UrgencyIs
  <2>5. Urgency(Alerts(T, config), c, d) = IF r >= t + 20 THEN 2 ELSE IF r >= t THEN 1 ELSE 0
    BY <2>1, <2>2, <2>3, UrgencyIs
  <2>6. Urgency(new.alerts, c, d) >= Urgency(old.alerts, c, d)
    BY <1>2, <1>3, <2>1, <2>2, <2>4, <2>5
  <2> QED  BY <2>1, <2>6
<1>9. ASSUME NEW d \in DOMAIN old.lens PROVE new.lens[d] >= old.lens[d]
  <2>1. CASE \E c \in accounts : c.relationship = "self"
    <3>1. old.lens = SelfLens(accounts, S, config) /\ new.lens = SelfLens(accounts, T, config)
      BY <1>2, <1>3, <2>1
    <3>2. d \in Dimensions
      BY <1>9, <3>1 DEF SelfLens
    <3>3. SelfLens(accounts, S, config)[d] <= SelfLens(accounts, T, config)[d]
      BY <1>7, <2>1, <3>2, LensRises
    <3> QED  BY <3>1, <3>3
  <2>2. CASE ~ \E c \in accounts : c.relationship = "self"
    BY <1>2, <1>9, <2>2
  <2> QED  BY <2>1, <2>2
<1>10. ASSUME NEW c \in DOMAIN old.advice
       PROVE  new.advice[c].priority >= old.advice[c].priority
  <2>1. c \in accounts /\ old.advice[c] = Recommend(c, S[c.id]) /\ new.advice[c] = Recommend(c, T[c.id])
    BY <1>2, <1>3, <1>10
  <2> QED  BY <1>5, <1>6, <2>1, AdviceRises
<1> QED  BY <1>8, <1>9, <1>10 DEF NeverLess

LEMMA WorldNeverLess ==
  ASSUME NEW f, HeldOnce(f), f # Unset, NEW g, HeldOnce(g), g # Unset, ToSet(f) \subseteq ToSet(g),
         NEW city, NEW config, Weighs(config)
  PROVE  NeverLess(World(f, city, config), World(g, city, config))
<1> DEFINE accounts == InMarket(city)
           Kept(s) == city = Unset \/ s.subject \in {c.id : c \in accounts}
           Read(h) == {i \in DOMAIN h : Kept(h[i])}
           Valid(h) == {i \in Read(h) : IsValid(h[i], config)}
<1>1. /\ World(f, city, config) = Analyze(accounts, f, Read(f), config)
      /\ World(g, city, config) = Analyze(accounts, g, Read(g), config)
  BY DEF World
<1>2. accounts \in SUBSET Companies
  BY DEF InMarket
<1>3. Tells(g, Valid(g), f, Valid(f))
  <2>1. ASSUME NEW i \in Valid(f) PROVE \E j \in Valid(g) : g[j] = f[i]
    <3>1. f[i] \in ToSet(f)
      BY DEF ToSet
    <3>2. PICK j \in DOMAIN g : g[j] = f[i]
      BY <3>1 DEF ToSet
    <3> HIDE DEF Kept
    <3> QED  BY <3>2
  <2>2. Valid(f) \in SUBSET DOMAIN f /\ Valid(g) \in SUBSET DOMAIN g
    OBVIOUS
  <2> HIDE DEF Valid
  <2> QED  BY <2>1, <2>2 DEF Tells
<1> PICK old, new : /\ old = Analyze(accounts, f, Read(f), config)
                    /\ new = Analyze(accounts, g, Read(g), config)
  OBVIOUS
<1>4. NeverLess(old, new)
  <2> HIDE DEF accounts, Read
  <2> QED  BY <1>2, <1>3, AnalyzeNeverLess
<1> QED  BY <1>1, <1>4

LEMMA JoinedLists ==
  ASSUME NEW S, NEW m \in Seq(S), NEW b \in Seq(S), NEW h, h = m \o b
  PROVE  /\ h \in Seq(S) /\ Len(h) = Len(m) + Len(b) /\ DOMAIN h = 1 .. Len(m) + Len(b)
         /\ \A j \in 1 .. Len(m) : h[j] = m[j]
         /\ \A j \in 1 .. Len(b) : h[Len(m) + j] = b[j]
<1>1. /\ h \in Seq(S) /\ Len(h) = Len(m) + Len(b)
      /\ \A j \in 1 .. Len(m) + Len(b) : h[j] = IF j <= Len(m) THEN m[j] ELSE b[j - Len(m)]
  BY ConcatProperties
<1> PICK k, l : k = Len(m) /\ l = Len(b)
  OBVIOUS
<1>2. k \in Nat /\ l \in Nat
  OBVIOUS
<1>3. DOMAIN h = 1 .. k + l
  BY <1>1
<1>4. \A j \in 1 .. k + l : h[j] = IF j <= k THEN m[j] ELSE b[j - k]
  BY <1>1
<1>5. \A j \in 1 .. k : h[j] = m[j]
  BY <1>2, <1>4
<1>6. ASSUME NEW j \in 1 .. l PROVE h[k + j] = b[j]
  <2>1. k + j \in 1 .. k + l /\ ~(k + j <= k) /\ (k + j) - k = j
    BY <1>2
  <2> QED  BY <1>4, <2>1
<1> QED  BY <1>1, <1>3, <1>5, <1>6

(* What a list is with an element put in at a place.                       *)
LEMMA InsertedAt ==
  ASSUME NEW S, NEW f \in Seq(S), NEW e \in S, NEW i \in 1 .. Len(f) + 1,
         NEW h, h = InsertAt(f, i, e)
  PROVE  /\ DOMAIN h = 1 .. Len(f) + 1
         /\ \A j \in 1 .. Len(f) + 1 : h[j] = IF j < i THEN f[j] ELSE IF j = i THEN e ELSE f[j - 1]
<1> PICK n : n = Len(f)
  OBVIOUS
<1>1. n \in Nat /\ i \in 1 .. n + 1 /\ \A j \in 1 .. n : f[j] \in S
  OBVIOUS
<1>0. PICK a, b, m : a = SubSeq(f, 1, i - 1) /\ b = SubSeq(f, i, n) /\ m = a \o <<e>>
  OBVIOUS
<1>2. a \in Seq(S) /\ Len(a) = i - 1 /\ \A j \in 1 .. i - 1 : a[j] = f[j]
  <2>1. 1 \in Int /\ i - 1 \in Int /\ \A j \in 1 .. i - 1 : f[j] \in S
    BY <1>1
  <2>2. /\ a \in Seq(S)
        /\ Len(a) = IF 1 <= i - 1 THEN (i - 1) - 1 + 1 ELSE 0
        /\ \A j \in 1 .. (i - 1) - 1 + 1 : a[j] = f[1 + j - 1]
    BY <1>0, <2>1, SubSeqProperties
  <2> QED  BY <1>1, <2>2
<1>3. b \in Seq(S) /\ Len(b) = n - i + 1 /\ \A j \in 1 .. n - i + 1 : b[j] = f[i + j - 1]
  <2>1. i \in Int /\ n \in Int /\ \A j \in i .. n : f[j] \in S
    BY <1>1
  <2>2. /\ b \in Seq(S)
        /\ Len(b) = IF i <= n THEN n - i + 1 ELSE 0
        /\ \A j \in 1 .. n - i + 1 : b[j] = f[i + j - 1]
    BY <1>0, <2>1, SubSeqProperties
  <2> QED  BY <1>1, <2>2
<1>4. m \in Seq(S) /\ Len(m) = i /\ (\A j \in 1 .. i - 1 : m[j] = f[j]) /\ m[i] = e
  <2> PICK one : one = <<e>>
    OBVIOUS
  <2>1. one \in Seq(S) /\ Len(one) = 1 /\ one[1] = e
    OBVIOUS
  <2>2. /\ m \in Seq(S) /\ Len(m) = Len(a) + Len(one)
        /\ \A j \in 1 .. Len(a) : m[j] = a[j]
        /\ \A j \in 1 .. Len(one) : m[Len(a) + j] = one[j]
    BY <1>0, <1>2, <2>1, JoinedLists
  <2>3. Len(m) = i
    <3>1. Len(m) = (i - 1) + 1
      BY <1>2, <2>1, <2>2
    <3> QED  BY <1>1, <3>1
  <2>4. m[i] = e
    <3>1. m[Len(a) + 1] = one[1]
      BY <2>1, <2>2
    <3>2. Len(a) + 1 = i
      BY <1>1, <1>2
    <3> QED  BY <2>1, <3>1, <3>2
  <2>5. \A j \in 1 .. i - 1 : m[j] = f[j]
    BY <1>2, <2>2
  <2> QED  BY <2>2, <2>3, <2>4, <2>5
<1>5. h = m \o b
  BY <1>0, Zenon DEF InsertAt
<1>6. /\ DOMAIN h = 1 .. Len(m) + Len(b)
      /\ \A j \in 1 .. Len(m) : h[j] = m[j]
      /\ \A j \in 1 .. Len(b) : h[Len(m) + j] = b[j]
  <2>1. m \in Seq(S) /\ b \in Seq(S)
    BY <1>3, <1>4
  <2>2. \A g : g = m \o b =>
          /\ g \in Seq(S) /\ Len(g) = Len(m) + Len(b) /\ DOMAIN g = 1 .. Len(m) + Len(b)
          /\ \A j \in 1 .. Len(m) : g[j] = m[j]
          /\ \A j \in 1 .. Len(b) : g[Len(m) + j] = b[j]
    BY <2>1, JoinedLists
  <2> QED  BY <1>5, <2>2, Zenon
<1>7. DOMAIN h = 1 .. n + 1
  <2>1. Len(m) + Len(b) = n + 1
    BY <1>1, <1>3, <1>4
  <2> QED  BY <1>6, <2>1
<1>8. ASSUME NEW j \in 1 .. n + 1
      PROVE  h[j] = IF j < i THEN f[j] ELSE IF j = i THEN e ELSE f[j - 1]
  <2>1. CASE j <= i
    <3>1. h[j] = m[j]
      BY <1>4, <1>6, <2>1
    <3>2. j = i \/ j \in 1 .. i - 1
      BY <1>1, <2>1
    <3> QED  BY <1>1, <1>4, <3>1, <3>2
  <2>2. CASE j > i
    <3> PICK k : k = j - i
      OBVIOUS
    <3>1. k \in 1 .. n - i + 1 /\ i + k = j /\ i + k - 1 = j - 1
      BY <1>1, <2>2
    <3>2. h[i + k] = b[k]
      BY <1>3, <1>4, <1>6, <3>1
    <3>3. b[k] = f[i + k - 1]
      BY <1>3, <3>1
    <3>4. h[j] = f[j - 1]
      BY <3>1, <3>2, <3>3
    <3> QED  BY <1>1, <2>2, <3>4
  <2> QED  BY <1>1, <2>1, <2>2
<1> QED  BY <1>7, <1>8

(* No snapshot holds a signal twice, and the weights are a configuration.  *)
Apart ==
  /\ received # Unset => HeldOnce(received)
  /\ weights \in Configs

LEMMA SnapshotApart ==
  ASSUME received # Unset => HeldOnce(received), SnapshotArrives, received' \in Seq(Signals)
  PROVE  HeldOnce(received')
<1>1. CASE received = Unset /\ received' \in Feeds
  BY <1>1 DEF Feeds, IsInjective, HeldOnce
<1>2. ASSUME received # Unset, NEW s \in Signals \ ToSet(received), NEW i \in 1 .. Len(received) + 1,
             received' = InsertAt(received, i, s)
      PROVE  HeldOnce(received')
  <2> PICK f, n, h : f = received /\ n = Len(f) /\ h = InsertAt(f, i, s)
    OBVIOUS
  <2>1. /\ f \in Seq(Signals) /\ n \in Nat /\ DOMAIN f = 1 .. n
        /\ \A j \in 1 .. n : f[j] # s
        /\ \A j, k \in 1 .. n : f[j] = f[k] => j = k
    BY <1>2 DEF HeldOnce, ToSet
  <2>2. h = SubSeq(f, 1, i - 1) \o <<s>> \o SubSeq(f, i, n)
    BY DEF InsertAt
  <2>3. /\ DOMAIN h = 1 .. n + 1
        /\ \A j \in 1 .. n + 1 : h[j] = IF j < i THEN f[j] ELSE IF j = i THEN s ELSE f[j - 1]
    <3>1. f \in Seq(Signals) /\ s \in Signals /\ i \in 1 .. Len(f) + 1
      BY <1>2, <2>1
    <3>2. /\ DOMAIN h = 1 .. Len(f) + 1
          /\ \A j \in 1 .. Len(f) + 1 : h[j] = IF j < i THEN f[j] ELSE IF j = i THEN s ELSE f[j - 1]
      BY <3>1, InsertedAt
    <3> QED  BY <3>2
  <2>4. \A j, k \in DOMAIN h : h[j] = h[k] => j = k
    BY <2>1, <2>3
  <2> QED  BY <1>2, <2>4 DEF HeldOnce
<1>3. ASSUME received # Unset, NEW i \in 1 .. Len(received) - 1,
             received' = [received EXCEPT ![i] = received[i + 1], ![i + 1] = received[i]]
      PROVE  HeldOnce(received')
  <2> PICK f, h : f = received /\ h = [f EXCEPT ![i] = f[i + 1], ![i + 1] = f[i]]
    OBVIOUS
  <2>1. /\ f \in Seq(Signals) /\ DOMAIN f = 1 .. Len(f)
        /\ \A j, k \in DOMAIN f : f[j] = f[k] => j = k
    BY <1>3 DEF HeldOnce
  <2>2. /\ DOMAIN h = DOMAIN f
        /\ \A j \in DOMAIN f : h[j] = IF j = i THEN f[i + 1] ELSE IF j = i + 1 THEN f[i] ELSE f[j]
    BY <2>1
  <2>3. \A j, k \in DOMAIN h : h[j] = h[k] => j = k
    BY <2>1, <2>2
  <2>4. h \in Seq(Signals) /\ received' = h
    BY <1>3
  <2>5. HeldOnce(h)
    BY <2>3, <2>4 DEF HeldOnce
  <2> QED  BY <2>4, <2>5
<1> QED  BY <1>1, <1>2, <1>3 DEF SnapshotArrives

LEMMA ApartBegins == FeedInit => Apart
BY DEF FeedInit, Apart

LEMMA ApartGoesOn ==
  ASSUME FInv, Apart, [FeedNext]_feedVars
  PROVE  Apart'
<1>1. CASE SnapshotArrives
  <2>1. received' \in Seq(Signals)
    BY <1>1, SnapshotIsList
  <2>2. HeldOnce(received')
    BY <1>1, <2>1, SnapshotApart DEF Apart
  <2> QED  BY <1>1, <2>2 DEF Apart, SnapshotArrives
<1>2. ASSUME NEW city, PickMarket(city) PROVE Apart'
  BY <1>2 DEF Apart, PickMarket
<1>3. ASSUME NEW config \in Configs, ApplyScoringConfig(config) PROVE Apart'
  BY <1>3 DEF Apart, ApplyScoringConfig
<1>4. CASE UNCHANGED feedVars
  BY <1>4 DEF Apart, feedVars
<1> QED  BY <1>1, <1>2, <1>3, <1>4 DEF FeedNext

(* A snapshot that holds at least the same signals lowers no score, none   *)
(* of the client's own view, no alert and no priority of an advice, as     *)
(* long as the configuration weighs nothing below zero: for any signals,   *)
(* accounts, weights, decay and cap, and in any order (MoreNeverLess).     *)
THEOREM MoreIsNeverLess == FeedSpec => MoreNeverLess
<1>1. FeedInit => FInv /\ Apart
  BY FeedBegins, ApartBegins
<1>2. ASSUME FInv, Apart, [FeedNext]_feedVars PROVE FInv' /\ Apart'
  BY <1>2, FeedGoesOn, ApartGoesOn
<1>3. ASSUME FInv, Apart, FInv', Apart', market' = market, weights' = weights, Adds(weights),
             received # Unset, received' # Unset, ToSet(received) \subseteq ToSet(received')
      PROVE  NeverLess(world, world')
  <2>1. world = World(received, market, weights) /\ world' = World(received', market, weights)
    BY <1>3 DEF FInv
  <2>2. HeldOnce(received) /\ HeldOnce(received') /\ Weighs(weights)
    BY <1>3 DEF Apart, Weighs
  <2>3. NeverLess(World(received, market, weights), World(received', market, weights))
    BY <1>3, <2>2, WorldNeverLess
  <2> QED  BY <2>1, <2>3
<1>4. ASSUME FInv, Apart, FInv', Apart', [FeedNext]_feedVars
      PROVE  [(/\ market' = market /\ weights' = weights /\ Adds(weights)
               /\ received # Unset /\ received' # Unset /\ ToSet(received) \subseteq ToSet(received'))
              => NeverLess(world, world')]_feedVars
  BY <1>3, <1>4
<1> QED
  BY <1>1, <1>2, <1>4, PTL DEF FeedSpec, MoreNeverLess
-----------------------------------------------------------------------------
(* The composition of documents.                                           *)

NoModel(sections) == \A t \in Prose(sections) : t.model = FALSE

(* A plan takes its figures from the book, and no word from the model.     *)
OfBook(plan, b) ==
  /\ plan.numbers \subseteq {0, b.score, b.risk, b.fit, b.records, b.stops, 30} \cup
                            ({b.hours, b.lead} \ {Blank})
  /\ plan.amounts \subseteq {b.pipeline} \ {Blank}
  /\ \A f \in plan.said : f \in b.quote.figures \/ f.n = 10 * b.score
  /\ \E S : plan.sections \in Seq(S)
  /\ NoModel(plan.sections)

LEMMA PlanFields ==
  ASSUME NEW numbers, NEW amounts, NEW said, NEW sections, NEW p,
         p = Plan(numbers, amounts, said, sections)
  PROVE  /\ p.numbers = numbers /\ p.amounts = amounts \ {Blank}
         /\ p.said = said /\ p.sections = sections
         /\ \A r : /\ [p EXCEPT !.refused = r].numbers = numbers
                   /\ [p EXCEPT !.refused = r].amounts = amounts \ {Blank}
                   /\ [p EXCEPT !.refused = r].said = said
                   /\ [p EXCEPT !.refused = r].sections = sections
BY DEF Plan

LEMMA WordingKeeps ==
  /\ \A figures, marks : Wording(figures, marks).model = FALSE
  /\ Silent.model = FALSE
BY DEF Wording, Silent

(* Sections whose texts are not of the model.                              *)
Clean(section) == \A t \in ToSet(section.texts) : t.model = FALSE

LEMMA CleanSections ==
  ASSUME NEW cells
  PROVE  /\ Clean(Section(<<>>, cells))
         /\ \A t : t.model = FALSE => Clean(Section(<<t>>, cells))
         /\ \A texts : (\A i \in DOMAIN texts : texts[i].model = FALSE)
              => Clean(Section(texts, cells))
<1>1. \A texts : Section(texts, cells).texts = texts
  BY DEF Section
<1>2. Clean(Section(<<>>, cells))
  BY <1>1 DEF Clean, ToSet
<1>3. ASSUME NEW t, t.model = FALSE PROVE Clean(Section(<<t>>, cells))
  <2>1. ToSet(<<t>>) = {t}
    BY DEF ToSet
  <2> QED
    BY <1>1, <1>3, <2>1 DEF Clean
<1>4. ASSUME NEW texts, \A i \in DOMAIN texts : texts[i].model = FALSE
      PROVE  Clean(Section(texts, cells))
  BY <1>1, <1>4 DEF Clean, ToSet
<1> QED
  BY <1>2, <1>3, <1>4

LEMMA NoModelByParts ==
  ASSUME NEW sections, \A i \in DOMAIN sections : Clean(sections[i])
  PROVE  NoModel(sections)
BY DEF NoModel, Prose, Clean

LEMMA MemoOfBook == ASSUME NEW b \in Books PROVE OfBook(WeeklyMemo(b), b)
<1> DEFINE sections ==
       <<Section(<<Wording({Money(b.pipeline)}, {"verdict"})>>, Silent),
         Section(<<>>, Joined(Wording({Plain(b.score), Percent(b.fit)}, {}), b.quote)),
         Section(<<>>, Joined(Wording({Plain(b.risk)}, {}), b.quote)),
         Section(<<Wording({Plain(b.score)}, {})>>, Silent)>>
<1>1. /\ WeeklyMemo(b).numbers = {b.score, b.fit, b.risk}
      /\ WeeklyMemo(b).amounts = {b.pipeline} \ {Blank}
      /\ WeeklyMemo(b).said = b.quote.figures \cup {Plain(b.score)}
      /\ WeeklyMemo(b).sections = sections
  BY PlanFields DEF WeeklyMemo
<1>2. NoModel(sections)
  <2>1. /\ Clean(sections[1]) /\ Clean(sections[2])
        /\ Clean(sections[3]) /\ Clean(sections[4])
    BY WordingKeeps, CleanSections
  <2> QED
    BY <2>1, NoModelByParts
<1>3. \E S : sections \in Seq(S)
  <2>1. sections \in Seq({sections[1], sections[2], sections[3], sections[4]})
    OBVIOUS
  <2> HIDE DEF sections
  <2> QED
    BY <2>1
<1>4. Plain(b.score).n = 10 * b.score
  BY DEF Plain
<1> HIDE DEF sections
<1> QED
  BY <1>1, <1>2, <1>3, <1>4 DEF OfBook

LEMMA QuoteIsOurs ==
  ASSUME NEW b \in Books
  PROVE  b.quote.model = FALSE /\ [b.quote EXCEPT !.marks = @ \ {"pipeline"}].model = FALSE
<1> PICK figures, marks : b.quote = [figures |-> figures, marks |-> marks, model |-> FALSE]
  BY DraftingAssumption DEF DraftingAssumption
<1> QED
  OBVIOUS

LEMMA BriefOfBook == ASSUME NEW b \in Books PROVE OfBook(MeetingBrief(b), b)
<1> DEFINE text2 == Joined(Joined(Wording({Money(b.pipeline)}, Health(b)), b.quote), Wording({Plain(b.score)}, {}))
           text4 == b.quote
           text5 == Wording({Plain(b.score)}, {})
           text8 == Wording({Plain(b.records)}, {})
           sections ==
       <<Section(<<>>, Silent),
         Section(<<text2>>, Silent),
         Section(<<Silent>>, Wording({Money(b.pipeline)}, Health(b))),
         Section(<<text4>>, Silent),
         Section(<<text5>>, Silent),
         Section(<<Silent>>, Silent),
         Section(<<Silent>>, Silent),
         Section(<<text8>>, Silent)>>
<1>0. Silent.model = FALSE /\ text2.model = FALSE /\ text4.model = FALSE /\ text5.model = FALSE /\ text8.model = FALSE
  <2>1. Silent.model = FALSE
    BY DEF Wording, Joined, Silent
  <2>2. text2.model = FALSE
    BY DEF Wording, Joined, Silent
  <2>3. text4.model = FALSE
    BY QuoteIsOurs
  <2>4. text5.model = FALSE
    BY DEF Wording, Joined, Silent
  <2>5. text8.model = FALSE
    BY DEF Wording, Joined, Silent
  <2> QED
    BY <2>1, <2>2, <2>3, <2>4, <2>5
<1>1. MeetingBrief(b) = [Plan({b.score, b.risk, b.fit}, {b.pipeline}, b.quote.figures \cup {Plain(b.score)}, sections) EXCEPT !.refused = ~b.account]
  BY Zenon DEF MeetingBrief
<1> HIDE DEF text2, text4, text5, text8
<1>2. NoModel(sections)
  <2>1. Clean(sections[1])
    BY <1>0, CleanSections
  <2>2. Clean(sections[2])
    BY <1>0, CleanSections
  <2>3. Clean(sections[3])
    BY <1>0, CleanSections
  <2>4. Clean(sections[4])
    BY <1>0, CleanSections
  <2>5. Clean(sections[5])
    BY <1>0, CleanSections
  <2>6. Clean(sections[6])
    BY <1>0, CleanSections
  <2>7. Clean(sections[7])
    BY <1>0, CleanSections
  <2>8. Clean(sections[8])
    BY <1>0, CleanSections
  <2>9. DOMAIN sections = 1 .. 8
    OBVIOUS
  <2> HIDE DEF sections
  <2> QED
    BY <2>1, <2>2, <2>3, <2>4, <2>5, <2>6, <2>7, <2>8, <2>9, NoModelByParts
<1>3. \E S : sections \in Seq(S)
  <2>1. sections \in Seq({sections[1], sections[2], sections[3], sections[4], sections[5], sections[6], sections[7], sections[8]})
    OBVIOUS
  <2> HIDE DEF sections
  <2> QED
    BY <2>1
<1> HIDE DEF sections
<1>4. /\ MeetingBrief(b).numbers = {b.score, b.risk, b.fit}
      /\ MeetingBrief(b).amounts = {b.pipeline} \ {Blank}
      /\ MeetingBrief(b).said = b.quote.figures \cup {Plain(b.score)}
      /\ MeetingBrief(b).sections = sections
  BY <1>1, PlanFields
<1>5. Plain(b.score).n = 10 * b.score
  BY DEF Plain
<1> QED
  BY <1>2, <1>3, <1>4, <1>5 DEF OfBook

LEMMA OutreachOfBook == ASSUME NEW b \in Books PROVE OfBook(Outreach(b), b)
<1> DEFINE text3 == Joined(Wording({Plain(5), Plain(20), Plain(9100)}, {"letter"}), b.quote)
           text4 == Joined(Wording({Plain(b.score)}, {}), b.quote)
           text5 == Wording({Plain(b.records)}, {})
           sections ==
       <<Section(<<Silent>>, Silent),
         Section(<<Silent>>, Silent),
         Section(<<text3>>, Silent),
         Section(<<text4>>, Silent),
         Section(<<text5>>, Silent)>>
<1>0. Silent.model = FALSE /\ text3.model = FALSE /\ text4.model = FALSE /\ text5.model = FALSE
  <2>1. Silent.model = FALSE
    BY DEF Wording, Joined, Silent
  <2>2. text3.model = FALSE
    BY DEF Wording, Joined, Silent
  <2>3. text4.model = FALSE
    BY DEF Wording, Joined, Silent
  <2>4. text5.model = FALSE
    BY DEF Wording, Joined, Silent
  <2> QED
    BY <2>1, <2>2, <2>3, <2>4
<1>1. Outreach(b) = [Plan({b.score, b.fit, b.records}, {}, b.quote.figures, sections) EXCEPT !.refused = ~b.account]
  BY DEF Outreach
<1> HIDE DEF text3, text4, text5
<1>2. NoModel(sections)
  <2>1. Clean(sections[1])
    BY <1>0, CleanSections
  <2>2. Clean(sections[2])
    BY <1>0, CleanSections
  <2>3. Clean(sections[3])
    BY <1>0, CleanSections
  <2>4. Clean(sections[4])
    BY <1>0, CleanSections
  <2>5. Clean(sections[5])
    BY <1>0, CleanSections
  <2>9. DOMAIN sections = 1 .. 5
    OBVIOUS
  <2> HIDE DEF sections
  <2> QED
    BY <2>1, <2>2, <2>3, <2>4, <2>5, <2>9, NoModelByParts
<1>3. \E S : sections \in Seq(S)
  <2>1. sections \in Seq({sections[1], sections[2], sections[3], sections[4], sections[5]})
    OBVIOUS
  <2> HIDE DEF sections
  <2> QED
    BY <2>1
<1> HIDE DEF sections
<1>4. /\ Outreach(b).numbers = {b.score, b.fit, b.records}
      /\ Outreach(b).amounts = {} \ {Blank}
      /\ Outreach(b).said = b.quote.figures
      /\ Outreach(b).sections = sections
  BY <1>1, PlanFields
<1>5. Plain(b.score).n = 10 * b.score
  BY DEF Plain
<1> QED
  BY <1>2, <1>3, <1>4, <1>5 DEF OfBook

LEMMA PitchOfBook == ASSUME NEW b \in Books PROVE OfBook(SalesPitch(b), b)
<1> DEFINE text3 == Wording({Plain(5), Plain(9100)}, {})
           text4 == [b.quote EXCEPT !.marks = @ \ {"pipeline"}]
           text5 == Wording({Plain(20)}, {})
           sections ==
       <<Section(<<Silent>>, Silent),
         Section(<<Silent>>, Silent),
         Section(<<text3>>, Silent),
         Section(<<text4>>, Silent),
         Section(<<text5>>, Silent)>>
<1>0. Silent.model = FALSE /\ text3.model = FALSE /\ text4.model = FALSE /\ text5.model = FALSE
  <2>1. Silent.model = FALSE
    BY DEF Wording, Joined, Silent
  <2>2. text3.model = FALSE
    BY DEF Wording, Joined, Silent
  <2>3. text4.model = FALSE
    BY QuoteIsOurs
  <2>4. text5.model = FALSE
    BY DEF Wording, Joined, Silent
  <2> QED
    BY <2>1, <2>2, <2>3, <2>4
<1>1. SalesPitch(b) = [Plan({}, {}, b.quote.figures, sections) EXCEPT !.refused = ~b.account]
  BY DEF SalesPitch
<1> HIDE DEF text3, text4, text5
<1>2. NoModel(sections)
  <2>1. Clean(sections[1])
    BY <1>0, CleanSections
  <2>2. Clean(sections[2])
    BY <1>0, CleanSections
  <2>3. Clean(sections[3])
    BY <1>0, CleanSections
  <2>4. Clean(sections[4])
    BY <1>0, CleanSections
  <2>5. Clean(sections[5])
    BY <1>0, CleanSections
  <2>9. DOMAIN sections = 1 .. 5
    OBVIOUS
  <2> HIDE DEF sections
  <2> QED
    BY <2>1, <2>2, <2>3, <2>4, <2>5, <2>9, NoModelByParts
<1>3. \E S : sections \in Seq(S)
  <2>1. sections \in Seq({sections[1], sections[2], sections[3], sections[4], sections[5]})
    OBVIOUS
  <2> HIDE DEF sections
  <2> QED
    BY <2>1
<1> HIDE DEF sections
<1>4. /\ SalesPitch(b).numbers = {}
      /\ SalesPitch(b).amounts = {} \ {Blank}
      /\ SalesPitch(b).said = b.quote.figures
      /\ SalesPitch(b).sections = sections
  BY <1>1, PlanFields
<1>5. Plain(b.score).n = 10 * b.score
  BY DEF Plain
<1> QED
  BY <1>2, <1>3, <1>4, <1>5 DEF OfBook

LEMMA CapabilityOfBook == ASSUME NEW b \in Books PROVE OfBook(CapabilityBrief(b), b)
<1> DEFINE text1 == Joined(Wording({Plain(b.records)}, {}), b.quote)
           text4 == Wording({Plain(h) : h \in {b.hours} \ {Blank}} \cup {Plain(5), Spell(30)}
                          \cup {Spell(d) : d \in {b.lead} \ {Blank}}, {})
           text5 == Wording({}, {"verdict"})
           sections ==
       <<Section(<<text1>>, Silent),
         Section(<<>>, Silent),
         Section(<<Silent>>, Silent),
         Section(<<text4>>, Silent),
         Section(<<text5>>, Silent)>>
<1>0. Silent.model = FALSE /\ text1.model = FALSE /\ text4.model = FALSE /\ text5.model = FALSE
  <2>1. Silent.model = FALSE
    BY DEF Wording, Joined, Silent
  <2>2. text1.model = FALSE
    BY DEF Wording, Joined, Silent
  <2>3. text4.model = FALSE
    BY DEF Wording, Joined, Silent
  <2>4. text5.model = FALSE
    BY DEF Wording, Joined, Silent
  <2> QED
    BY <2>1, <2>2, <2>3, <2>4
<1>1. CapabilityBrief(b) = [Plan({b.fit, b.records, 30} \cup ({b.hours, b.lead} \ {Blank}), {}, b.quote.figures, sections) EXCEPT !.refused = ~b.account \/ b.hours = Blank]
  BY Zenon DEF CapabilityBrief
<1> HIDE DEF text1, text4, text5
<1>2. NoModel(sections)
  <2>1. Clean(sections[1])
    BY <1>0, CleanSections
  <2>2. Clean(sections[2])
    BY <1>0, CleanSections
  <2>3. Clean(sections[3])
    BY <1>0, CleanSections
  <2>4. Clean(sections[4])
    BY <1>0, CleanSections
  <2>5. Clean(sections[5])
    BY <1>0, CleanSections
  <2>9. DOMAIN sections = 1 .. 5
    OBVIOUS
  <2> HIDE DEF sections
  <2> QED
    BY <2>1, <2>2, <2>3, <2>4, <2>5, <2>9, NoModelByParts
<1>3. \E S : sections \in Seq(S)
  <2>1. sections \in Seq({sections[1], sections[2], sections[3], sections[4], sections[5]})
    OBVIOUS
  <2> HIDE DEF sections
  <2> QED
    BY <2>1
<1> HIDE DEF sections
<1>4. /\ CapabilityBrief(b).numbers = {b.fit, b.records, 30} \cup ({b.hours, b.lead} \ {Blank})
      /\ CapabilityBrief(b).amounts = {} \ {Blank}
      /\ CapabilityBrief(b).said = b.quote.figures
      /\ CapabilityBrief(b).sections = sections
  BY <1>1, PlanFields
<1>5. Plain(b.score).n = 10 * b.score
  BY DEF Plain
<1> QED
  BY <1>2, <1>3, <1>4, <1>5 DEF OfBook

LEMMA BoardOfBook == ASSUME NEW b \in Books PROVE OfBook(BoardDeck(b), b)
<1> DEFINE text2 == Wording({}, {"missing"})
           sections ==
       <<Section(<<Silent>>, Silent),
         Section(<<text2>>, Silent),
         Section(<<>>, Wording({Plain(b.risk)}, {})),
         Section(<<Silent>>, Silent)>>
<1>0. Silent.model = FALSE /\ text2.model = FALSE
  <2>1. Silent.model = FALSE
    BY DEF Wording, Joined, Silent
  <2>2. text2.model = FALSE
    BY DEF Wording, Joined, Silent
  <2> QED
    BY <2>1, <2>2
<1>1. BoardDeck(b) = Plan({b.risk, 0}, {}, {}, sections)
  BY Zenon DEF BoardDeck
<1> HIDE DEF text2
<1>2. NoModel(sections)
  <2>1. Clean(sections[1])
    BY <1>0, CleanSections
  <2>2. Clean(sections[2])
    BY <1>0, CleanSections
  <2>3. Clean(sections[3])
    BY <1>0, CleanSections
  <2>4. Clean(sections[4])
    BY <1>0, CleanSections
  <2>9. DOMAIN sections = 1 .. 4
    OBVIOUS
  <2> HIDE DEF sections
  <2> QED
    BY <2>1, <2>2, <2>3, <2>4, <2>9, NoModelByParts
<1>3. \E S : sections \in Seq(S)
  <2>1. sections \in Seq({sections[1], sections[2], sections[3], sections[4]})
    OBVIOUS
  <2> HIDE DEF sections
  <2> QED
    BY <2>1
<1> HIDE DEF sections
<1>4. /\ BoardDeck(b).numbers = {b.risk, 0}
      /\ BoardDeck(b).amounts = {} \ {Blank}
      /\ BoardDeck(b).said = {}
      /\ BoardDeck(b).sections = sections
  BY <1>1, PlanFields
<1>5. Plain(b.score).n = 10 * b.score
  BY DEF Plain
<1> QED
  BY <1>2, <1>3, <1>4, <1>5 DEF OfBook

LEMMA RouteOfBook == ASSUME NEW b \in Books PROVE OfBook(Itinerary(b), b)
<1> DEFINE stop(i) == Joined(Wording({Plain(i), Plain(b.score)}, {}), b.quote)
           leg(i) == Joined(Wording({Plain(i), Plain(20)}, {}), b.quote)
           first == IF b.stops < 4 THEN b.stops ELSE 4
           stops == [i \in 1 .. b.stops |-> stop(i)]
           legs == [i \in 1 .. first |-> leg(i)]
           sections ==
             <<Section(<<>>, Silent), Section(<<>>, Silent), Section(stops, Silent),
               Section(legs, Silent), Section(<<Wording({Plain(60)}, {})>>, Silent)>>
<1>1. Itinerary(b) = Plan({b.stops}, {}, {}, sections)
  BY Zenon DEF Itinerary
<1>2. NoModel(sections)
  <2>1. \A i : stop(i).model = FALSE /\ leg(i).model = FALSE
    BY DEF Wording, Joined, Silent
  <2> HIDE DEF stop, leg
  <2>2. \A i \in DOMAIN stops : stops[i].model = FALSE
    BY <2>1
  <2>3. \A i \in DOMAIN legs : legs[i].model = FALSE
    BY <2>1
  <2> HIDE DEF stops, legs
  <2>4. Clean(sections[1]) /\ Clean(sections[2])
    BY CleanSections
  <2>5. Clean(sections[3]) /\ Clean(sections[4])
    BY <2>2, <2>3, CleanSections
  <2>6. Clean(sections[5])
    BY WordingKeeps, CleanSections
  <2>7. DOMAIN sections = 1 .. 5
    OBVIOUS
  <2> HIDE DEF sections
  <2> QED
    BY <2>4, <2>5, <2>6, <2>7, NoModelByParts
<1>3. \E S : sections \in Seq(S)
  <2>1. sections \in Seq({sections[1], sections[2], sections[3], sections[4], sections[5]})
    OBVIOUS
  <2> HIDE DEF sections
  <2> QED
    BY <2>1
<1> HIDE DEF sections
<1>4. /\ Itinerary(b).numbers = {b.stops}
      /\ Itinerary(b).amounts = {} \ {Blank}
      /\ Itinerary(b).said = {}
      /\ Itinerary(b).sections = sections
  BY <1>1, PlanFields
<1> QED
  BY <1>2, <1>3, <1>4 DEF OfBook

LEMMA AnnotationOfBook ==
  ASSUME NEW b \in Books, NEW amount, amount \in {b.pipeline, Blank}
  PROVE  /\ OfBook(Annotation(b, amount), b)
         /\ \A r : OfBook([Annotation(b, amount) EXCEPT !.refused = r], b)
<1> DEFINE text == IF amount = Blank THEN Silent ELSE Wording({Money(amount), Percent(0)}, {})
           sections == <<Section(<<text>>, Silent)>>
<1>1. Annotation(b, amount) = Plan({0}, {amount}, {}, sections)
  BY Zenon DEF Annotation
<1>2. NoModel(sections)
  <2>1. text.model = FALSE
    BY WordingKeeps
  <2> HIDE DEF text
  <2>2. Clean(sections[1])
    BY <2>1, CleanSections
  <2>3. DOMAIN sections = 1 .. 1
    OBVIOUS
  <2> HIDE DEF sections
  <2> QED
    BY <2>2, <2>3, NoModelByParts
<1>5. \E S : sections \in Seq(S)
  <2>1. sections \in Seq({sections[1]})
    OBVIOUS
  <2> HIDE DEF sections
  <2> QED
    BY <2>1
<1> HIDE DEF sections
<1> PICK p : p = Annotation(b, amount)
  OBVIOUS
<1>3. OfBook(p, b)
  <2>1. /\ p.numbers = {0} /\ p.amounts = {amount} \ {Blank}
        /\ p.said = {} /\ p.sections = sections
    BY <1>1, PlanFields
  <2> QED
    BY <1>2, <1>5, <2>1 DEF OfBook
<1>4. ASSUME NEW r PROVE OfBook([p EXCEPT !.refused = r], b)
  <2> PICK q : q = [p EXCEPT !.refused = r]
    OBVIOUS
  <2>1. /\ q.numbers = {0} /\ q.amounts = {amount} \ {Blank}
        /\ q.said = {} /\ q.sections = sections
    BY <1>1, PlanFields
  <2> QED
    BY <1>2, <1>5, <2>1 DEF OfBook
<1> QED
  BY <1>3, <1>4

(* Every plan of every agent.                                              *)
LEMMA PlansOfBook ==
  ASSUME NEW b \in Books, NEW agent \in Agents
  PROVE  OfBook(Plans(b)[agent], b)
<1>1. agent \in {"weekly_memo", "meeting_brief", "outreach", "sales_pitch",
                 "capabilities_assessment", "itinerary", "board_deck",
                 "analysis_annotation", "figure"}
  BY DEF Agents, Plans
<1>2. CASE agent \in {"weekly_memo", "meeting_brief", "outreach", "sales_pitch"}
  BY <1>2, MemoOfBook, BriefOfBook, OutreachOfBook, PitchOfBook DEF Plans
<1>3. CASE agent \in {"capabilities_assessment", "itinerary", "board_deck"}
  BY <1>3, CapabilityOfBook, RouteOfBook, BoardOfBook DEF Plans
<1>4. CASE agent \in {"analysis_annotation", "figure"}
  BY <1>4, AnnotationOfBook DEF Plans
<1> QED
  BY <1>1, <1>2, <1>3, <1>4

(* So a figure that the gate lets pass was given by the world or the user. *)
LEMMA GroundsGiven ==
  ASSUME NEW plan, NEW b, OfBook(plan, b), NEW hint, NEW f, Grounds(plan, hint, f)
  PROVE  f.n \in Given(b, hint)
<1> DEFINE said == plan.said \cup hint.figures
<1>1. ASSUME NEW g \in said PROVE g.n \in Given(b, hint)
  <2>1. CASE g \in hint.figures \/ g \in b.quote.figures
    BY <2>1 DEF Given
  <2>2. CASE g.n = 10 * b.score
    <3> DEFINE values == {0, b.score, b.risk, b.fit, b.records, b.stops, 30} \cup
                         ({b.hours, b.lead} \ {Blank})
    <3>1. b.score \in values
      OBVIOUS
    <3>2. {10 * v : v \in values} \subseteq Given(b, hint)
      BY DEF Given
    <3> HIDE DEF values
    <3> QED
      BY <2>2, <3>1, <3>2
  <2> QED
    BY <1>1, <2>1, <2>2 DEF OfBook
<1>2. CASE f \in said
  BY <1>1, <1>2
<1>3. ASSUME NEW s \in said, s.n = f.n PROVE f.n \in Given(b, hint)
  BY <1>1, <1>3
<1>4. ASSUME NEW v \in plan.numbers, f.n = 10 * v PROVE f.n \in Given(b, hint)
  BY <1>4, ZenonT(60) DEF Given, OfBook
<1>5. ASSUME NEW a \in plan.amounts, f.n = 1000 * a PROVE f.n \in Given(b, hint)
  BY <1>5 DEF Given, OfBook
<1> QED
  BY <1>2, <1>3, <1>4, <1>5 DEF Grounds

(* A run keeps its book, its instructions and the plan of its agent.       *)
IsRun(j) ==
  /\ j = [stage |-> j.stage, agent |-> j.agent, book |-> j.book, hint |-> j.hint,
          plan |-> j.plan, sections |-> j.sections, retry |-> j.retry, path |-> j.path]
  /\ j.agent \in Agents /\ j.book \in Books /\ j.plan = Plans(j.book)[j.agent]

Gated(j, sections) == IsGrounded(sections, j.plan, j.hint) /\ SpeaksWell(sections)

(* What the end of a run has let pass.                                     *)
OverOK(j) ==
  /\ FitsForm(j, j.sections)
  /\ \A t \in Prose(j.sections) : "healthy" \notin t.marks
  /\ \/ j.path = "template" /\ NoModel(j.sections)
     \/ j.path = "model" /\ Gated(j, j.sections)

JobOK(j) ==
  \/ j = NoJob
  \/ /\ IsRun(j)
     /\ j.stage \in {"check", "compose", "critique", "done", "refused"}
     /\ j.stage = "critique" => Gated(j, j.sections)
     /\ j.stage = "done" => OverOK(j)

(* A run goes on with its fields, but for those that a step sets.           *)
LEMMA Staged ==
  ASSUME NEW j, IsRun(j), NEW s, NEW k, k = [j EXCEPT !.stage = s]
  PROVE  /\ IsRun(k)
         /\ k.agent = j.agent /\ k.book = j.book /\ k.plan = j.plan /\ k.hint = j.hint
         /\ k.stage = s /\ k.sections = j.sections /\ k.retry = j.retry /\ k.path = j.path
<1> PICK stage, agent, book, hint, plan, sections, retry, path :
      j = [stage |-> stage, agent |-> agent, book |-> book, hint |-> hint,
           plan |-> plan, sections |-> sections, retry |-> retry, path |-> path]
  BY DEF IsRun
<1>1. k = [stage |-> s, agent |-> agent, book |-> book, hint |-> hint,
           plan |-> plan, sections |-> sections, retry |-> retry, path |-> path]
  OBVIOUS
<1> QED
  BY <1>1 DEF IsRun

CritiqueOf(j, sections) == [j EXCEPT !.stage = "critique", !.sections = sections]

LEMMA Sectioned ==
  ASSUME NEW j, IsRun(j), NEW x, NEW k, k = CritiqueOf(j, x)
  PROVE  /\ IsRun(k) /\ k.stage = "critique" /\ k.sections = x
         /\ k.plan = j.plan /\ k.hint = j.hint
<1> PICK stage, agent, book, hint, plan, sections, retry, path :
      j = [stage |-> stage, agent |-> agent, book |-> book, hint |-> hint,
           plan |-> plan, sections |-> sections, retry |-> retry, path |-> path]
  BY DEF IsRun
<1>1. k = [stage |-> "critique", agent |-> agent, book |-> book, hint |-> hint,
           plan |-> plan, sections |-> x, retry |-> retry, path |-> path]
  BY DEF CritiqueOf
<1> QED
  BY <1>1 DEF IsRun

EndOf(j, sections, path) == [j EXCEPT !.stage = "done", !.sections = sections, !.path = path]

LEMMA Finished ==
  ASSUME NEW j, IsRun(j), NEW x, NEW p, NEW k, k = EndOf(j, x, p)
  PROVE  /\ IsRun(k)
         /\ k.agent = j.agent /\ k.book = j.book /\ k.plan = j.plan /\ k.hint = j.hint
         /\ k.stage = "done" /\ k.sections = x /\ k.path = p
<1> PICK stage, agent, book, hint, plan, sections, retry, path :
      j = [stage |-> stage, agent |-> agent, book |-> book, hint |-> hint,
           plan |-> plan, sections |-> sections, retry |-> retry, path |-> path]
  BY DEF IsRun
<1>1. k = [stage |-> "done", agent |-> agent, book |-> book, hint |-> hint,
           plan |-> plan, sections |-> x, retry |-> retry, path |-> p]
  BY DEF EndOf
<1> QED
  BY <1>1 DEF IsRun

LEMMA Retried ==
  ASSUME NEW j, IsRun(j), NEW k, k = [j EXCEPT !.retry = TRUE]
  PROVE  /\ IsRun(k)
         /\ k.agent = j.agent /\ k.book = j.book /\ k.plan = j.plan /\ k.hint = j.hint
         /\ k.stage = j.stage /\ k.sections = j.sections /\ k.retry = TRUE /\ k.path = j.path
<1> PICK stage, agent, book, hint, plan, sections, retry, path :
      j = [stage |-> stage, agent |-> agent, book |-> book, hint |-> hint,
           plan |-> plan, sections |-> sections, retry |-> retry, path |-> path]
  BY DEF IsRun
<1>1. k = [stage |-> stage, agent |-> agent, book |-> book, hint |-> hint,
           plan |-> plan, sections |-> sections, retry |-> TRUE, path |-> path]
  OBVIOUS
<1> QED
  BY <1>1 DEF IsRun

(* Closing lets only pass what fits and what is sound.                     *)
LEMMA ClosedOK ==
  ASSUME NEW j, IsRun(j), NEW sections, NEW path,
         \/ path = "template" /\ NoModel(sections)
         \/ path = "model" /\ Gated(j, sections)
  PROVE  JobOK(Closed(j, sections, path))
<1>1. ASSUME Passes(j, sections) PROVE JobOK(Closed(j, sections, path))
  <2> PICK k : k = EndOf(j, sections, path)
    OBVIOUS
  <2>1. /\ IsRun(k) /\ k.stage = "done" /\ k.sections = sections /\ k.path = path
        /\ k.agent = j.agent /\ k.book = j.book /\ k.plan = j.plan /\ k.hint = j.hint
    BY Finished
  <2>2. FitsForm(j, sections) /\ IsSound(sections, j.plan, j.hint, j.book)
    BY <1>1 DEF Passes
  <2>3. FitsForm(k, sections)
    BY <2>1, <2>2 DEF FitsForm
  <2>4. \A t \in Prose(sections) : "healthy" \notin t.marks
    BY <2>2 DEF IsSound
  <2>5. OverOK(k)
    BY <2>1, <2>3, <2>4 DEF OverOK, Gated
  <2>6. Closed(j, sections, path) = k
    BY <1>1 DEF Closed, EndOf
  <2> QED
    BY <2>1, <2>5, <2>6 DEF JobOK
<1>2. ASSUME ~Passes(j, sections) PROVE JobOK(Closed(j, sections, path))
  <2> PICK k : k = [j EXCEPT !.stage = "refused"]
    OBVIOUS
  <2>1. IsRun(k) /\ k.stage = "refused"
    BY Staged
  <2>2. Closed(j, sections, path) = k
    BY <1>2 DEF Closed
  <2> QED
    BY <2>1, <2>2 DEF JobOK
<1> QED
  BY <1>1, <1>2

(* The template, with what it tells of a rejection or not.                 *)
LEMMA TemplateKeeps ==
  ASSUME NEW j, IsRun(j), NEW figures
  PROVE  NoModel(j.plan.sections) /\ NoModel(Append(j.plan.sections, Notice(figures)))
<1> PICK sections : sections = j.plan.sections
  OBVIOUS
<1> PICK note : note = Notice(figures)
  OBVIOUS
<1>1. OfBook(j.plan, j.book)
  BY PlansOfBook DEF IsRun
<1>2. PICK S : sections \in Seq(S)
  BY <1>1 DEF OfBook
<1>3. NoModel(sections)
  BY <1>1 DEF OfBook
<1>4. Clean(note)
  BY WordingKeeps, CleanSections DEF Notice
<1>5. PICK more : more = Append(sections, note)
  OBVIOUS
<1>6. NoModel(more)
  <2>1. ASSUME NEW i \in DOMAIN sections PROVE Clean(sections[i])
    BY <1>3, <2>1 DEF NoModel, Prose, Clean
  <2>2. sections \in Seq(S \cup {note}) /\ note \in S \cup {note}
    BY <1>2
  <2>3. /\ more \in Seq(S \cup {note}) /\ Len(more) = Len(sections) + 1
        /\ \A i \in 1 .. Len(sections) : more[i] = sections[i]
        /\ more[Len(sections) + 1] = note
    BY <1>5, <2>2, AppendProperties
  <2>4. ASSUME NEW i \in DOMAIN more PROVE Clean(more[i])
    <3>1. i \in 1 .. Len(sections) \/ i = Len(sections) + 1
      BY <2>2, <2>3
    <3> QED
      BY <1>4, <2>1, <2>2, <2>3, <3>1
  <2> QED
    BY <2>4, NoModelByParts
<1> QED
  BY <1>3, <1>5, <1>6

LEMMA FallBackOK ==
  ASSUME NEW j, IsRun(j), NEW told
  PROVE  JobOK(FallBackTo(j, told))
<1> PICK sections :
      sections = IF told = <<>> THEN j.plan.sections
                 ELSE Append(j.plan.sections, Notice(told[1]))
  OBVIOUS
<1>1. NoModel(sections)
  BY TemplateKeeps
<1>2. FallBackTo(j, told) = Closed(j, sections, "template")
  BY DEF FallBackTo
<1> QED
  BY <1>1, <1>2, ClosedOK

LEMMA CheckedOK ==
  ASSUME NEW j, IsRun(j), NEW status
  PROVE  JobOK(Checked(j, status))
<1>1. CASE status = "live"
  <2> PICK k : k = [j EXCEPT !.stage = "compose"]
    OBVIOUS
  <2>1. IsRun(k) /\ k.stage = "compose"
    BY Staged
  <2> QED
    BY <1>1, <2>1 DEF Checked, JobOK
<1>2. CASE status # "live"
  BY <1>2, FallBackOK DEF Checked
<1> QED
  BY <1>1, <1>2

LEMMA UnansweredOK ==
  ASSUME NEW j, JobOK(j), j.stage \in {"compose", "critique"}
  PROVE  JobOK(Unanswered(j))
<1>1. IsRun(j)
  BY DEF JobOK, NoJob
<1>2. CASE j.stage = "compose"
  BY <1>1, <1>2, FallBackOK DEF Unanswered
<1>3. CASE j.stage = "critique"
  <2>1. Gated(j, j.sections)
    BY <1>1, <1>3 DEF JobOK, NoJob
  <2> QED
    BY <1>1, <1>3, <2>1, ClosedOK DEF Unanswered
<1> QED
  BY <1>2, <1>3

LEMMA ComposedOK ==
  ASSUME NEW j, IsRun(j), j.stage = "compose", NEW sections
  PROVE  JobOK(Composed(j, sections))
<1> PICK again : again = [j EXCEPT !.retry = TRUE]
  OBVIOUS
<1> PICK next : next = CritiqueOf(j, sections)
  OBVIOUS
<1>1. JobOK(again)
  BY Retried DEF JobOK
<1>2. ASSUME Gated(j, sections) PROVE JobOK(next)
  <2>1. /\ IsRun(next) /\ next.stage = "critique" /\ next.sections = sections
        /\ next.plan = j.plan /\ next.hint = j.hint
    BY Sectioned
  <2> QED
    BY <1>2, <2>1 DEF JobOK, Gated
<1>3. \A told : JobOK(IF j.retry THEN FallBackTo(j, told) ELSE again)
  BY <1>1, FallBackOK
<1>4. \/ \E told : Composed(j, sections) = IF j.retry THEN FallBackTo(j, told) ELSE again
      \/ Gated(j, sections) /\ Composed(j, sections) = next
  BY DEF Composed, Gated, CritiqueOf
<1> QED
  BY <1>2, <1>3, <1>4

LEMMA RevisedOK ==
  ASSUME NEW j, JobOK(j), j.stage = "critique", NEW sections
  PROVE  JobOK(Revised(j, sections))
<1>1. IsRun(j) /\ Gated(j, j.sections)
  BY DEF JobOK, NoJob
<1> PICK kept : kept = IF /\ IsGrounded(sections, j.plan, j.hint) /\ SpeaksWell(sections)
                          /\ Validates(j, sections)
                         THEN sections ELSE j.sections
  OBVIOUS
<1>2. Gated(j, kept)
  BY <1>1 DEF Gated
<1>3. Revised(j, sections) = Closed(j, kept, "model")
  BY DEF Revised
<1> QED
  BY <1>1, <1>2, <1>3, ClosedOK

(* What a run has when it is over, the reader is told.                     *)
LEMMA EndedTold ==
  ASSUME JobOK(job)
  PROVE  DraftTold
<1> SUFFICES ASSUME job.stage = "done"
             PROVE  LET model == {t \in Prose(job.sections) : t.model}
                        public == IF job.agent = "outreach" THEN SubSeq(job.sections, 1, 3)
                                  ELSE job.sections
                    IN /\ model # {} => job.path = "model"
                       /\ \A t \in model :
                            /\ {f.n : f \in t.figures} \subseteq Given(job.book, job.hint)
                            /\ t.marks \cap {"voice", "stranger"} = {}
                       /\ Prospect(job.agent) => \A t \in Prose(public) : "pipeline" \notin t.marks
                       /\ \A t \in Prose(job.sections) : "healthy" \notin t.marks
  BY DEF DraftTold
<1> DEFINE model == {t \in Prose(job.sections) : t.model}
           public == IF job.agent = "outreach" THEN SubSeq(job.sections, 1, 3)
                     ELSE job.sections
<1>1. IsRun(job) /\ OverOK(job)
  BY DEF JobOK, NoJob
<1>2. OfBook(job.plan, job.book)
  BY <1>1, PlansOfBook DEF IsRun
<1>3. model # {} => job.path = "model" /\ Gated(job, job.sections)
  BY <1>1 DEF OverOK, NoModel
<1>4. ASSUME NEW t \in model
      PROVE  /\ {f.n : f \in t.figures} \subseteq Given(job.book, job.hint)
             /\ t.marks \cap {"voice", "stranger"} = {}
  <2>1. Gated(job, job.sections) /\ t \in Prose(job.sections)
    BY <1>3
  <2>2. \A f \in t.figures : Grounds(job.plan, job.hint, f)
    BY <2>1 DEF Gated, IsGrounded, Ungrounded
  <2>3. \A f \in t.figures : f.n \in Given(job.book, job.hint)
    BY <1>2, <2>2, GroundsGiven
  <2>4. "voice" \notin t.marks /\ "stranger" \notin t.marks
    BY <2>1 DEF Gated, IsGrounded, SpeaksWell
  <2> QED
    BY <2>3, <2>4
<1>5. Prospect(job.agent) => \A t \in Prose(public) : "pipeline" \notin t.marks
  BY <1>1 DEF OverOK, FitsForm
<1>6. \A t \in Prose(job.sections) : "healthy" \notin t.marks
  BY <1>1 DEF OverOK
<1> QED
  BY <1>3, <1>4, <1>5, <1>6

LEMMA DraftBegins == DraftInit => JobOK(job)
BY DEF DraftInit, JobOK

LEMMA RunAgentOK ==
  ASSUME NEW agent \in Agents, NEW book \in Books, NEW hint, RunAgent(agent, book, hint)
  PROVE  JobOK(job')
<1> PICK plan : plan = Plans(book)[agent]
  OBVIOUS
<1> PICK run : run = [stage |-> "check", agent |-> agent, book |-> book, hint |-> hint,
                      plan |-> plan, sections |-> plan.sections, retry |-> FALSE,
                      path |-> "none"]
  OBVIOUS
<1>1. IsRun(run) /\ run.stage = "check"
  BY DEF IsRun
<1>2. JobOK(run)
  BY <1>1 DEF JobOK
<1>3. JobOK([run EXCEPT !.stage = "refused"])
  <2> PICK k : k = [run EXCEPT !.stage = "refused"]
    OBVIOUS
  <2>1. IsRun(k) /\ k.stage = "refused"
    BY <1>1, Staged
  <2> QED
    BY <2>1 DEF JobOK
<1>4. JobOK(Checked(run, ai))
  BY <1>1, CheckedOK
<1>5. job' = IF plan.refused THEN [run EXCEPT !.stage = "refused"]
             ELSE IF ai \in {"live", "offline"} THEN Checked(run, ai) ELSE run
  BY Zenon DEF RunAgent
<1> QED
  BY <1>2, <1>3, <1>4, <1>5

LEMMA DraftGoesOn ==
  ASSUME JobOK(job), [DraftNext]_draftVars
  PROVE  JobOK(job)'
<1>1. ASSUME AppChecks \/ UNCHANGED draftVars PROVE JobOK(job')
  BY <1>1 DEF AppChecks, draftVars
<1>2. ASSUME PutAway PROVE JobOK(job')
  BY <1>2 DEF PutAway, JobOK
<1>3. ASSUME NEW agent \in Agents, NEW book \in Books, NEW hint, RunAgent(agent, book, hint)
      PROVE  JobOK(job')
  BY <1>3, RunAgentOK
<1>4. ASSUME NEW status, Handshake(status) PROVE JobOK(job')
  <2>1. CASE job.stage = "check"
    <3>1. IsRun(job)
      BY <2>1 DEF JobOK, NoJob
    <3> QED
      BY <1>4, <2>1, <3>1, CheckedOK DEF Handshake
  <2>2. CASE job.stage # "check"
    BY <1>4, <2>2 DEF Handshake
  <2> QED
    BY <2>1, <2>2
<1>5. ASSUME NEW status, CallFails(status) PROVE JobOK(job')
  BY <1>5, UnansweredOK DEF CallFails, Calling
<1>6. ASSUME NEW status, CallGarbled(status) PROVE JobOK(job')
  <2>1. IsRun(job) /\ job' = [job EXCEPT !.stage = "refused"]
    BY <1>6 DEF CallGarbled, Calling, JobOK, NoJob
  <2> PICK k : k = [job EXCEPT !.stage = "refused"]
    OBVIOUS
  <2>2. IsRun(k) /\ k.stage = "refused"
    BY <2>1, Staged
  <2> QED
    BY <2>1, <2>2 DEF JobOK
<1>7. ASSUME CallAnswered PROVE JobOK(job')
  <2>1. PICK sections : job' = IF job.stage = "compose" THEN Composed(job, sections)
                               ELSE Revised(job, sections)
    BY <1>7 DEF CallAnswered
  <2>2. IsRun(job) /\ job.stage \in {"compose", "critique"}
    BY <1>7 DEF CallAnswered, Calling, JobOK, NoJob
  <2> QED
    BY <2>1, <2>2, ComposedOK, RevisedOK
<1> QED
  BY <1>1, <1>2, <1>3, <1>4, <1>5, <1>6, <1>7 DEF DraftNext

(* Whatever the model of the language writes, in however many calls, a     *)
(* document that is returned tells what its gates let pass (DraftTold).    *)
THEOREM DraftAlwaysTold == DraftSpec => []DraftTold
<1>1. JobOK(job) => DraftTold
  BY EndedTold
<1> QED
  BY <1>1, DraftBegins, DraftGoesOn, PTL DEF DraftSpec
-----------------------------------------------------------------------------
(* The snapshot of the world and the pages that tell of it.                *)
(*                                                                         *)
(* What a payload must be for its numbers to agree (RecordsOK, SourcesOK): *)
(* a firm has one row, and at most one deal, which makes it a customer;    *)
(* and what only HubSpot has is there only with a source that was read.    *)
(* It holds of the page because of the table and the history behind the    *)
(* page (WorldInv).  Sums over the rows go by a smallest set of rows that  *)
(* would not sum up (ListedSum).                                           *)

(* A row is a prospect's or a customer's in each of its three fields.      *)
CompanyOK(c) ==
  /\ c.firm \in Firms
  /\ c.relationship \in {"target", "customer"}
  /\ c.relationship = "target" =>
       c.status = "target_prospect" /\ c.motion = "prospect_new_business"
  /\ c.relationship = "customer" =>
       c.status \in {"active_pipeline", "current_customer"} /\ c.motion = "grow_existing_business"

(* An account has one row, and one deal at the most, as a customer.        *)
RecordsOK(w) ==
  /\ \A c \in w.companies : CompanyOK(c)
  /\ \A c, o \in w.companies : c.firm = o.firm => c = o
  /\ \A d \in w.deals :
       /\ d.value \in {Unread, Amount}
       /\ \E c \in w.companies : c.firm = d.firm /\ c.relationship = "customer"
  /\ \A d, e \in w.deals : d.firm = e.firm => d = e
  /\ \A c \in w.companies :
       c.crm /\ c.relationship = "customer" => \E d \in w.deals : d.firm = c.firm

LiveSources(answer, reads) == {CrmHealth(answer), MonitorHealth(reads), OperatingHealth}

(* What only HubSpot has came from it, or from the sample.                 *)
SourcesOK(w) ==
  /\ \/ w.sources \in {{}, DemoHealth}
     \/ \E answer, reads : w.sources = LiveSources(answer, reads)
  /\ w.deals # {} \/ w.contacts # {} \/ (\E c \in w.companies : c.town # "") =>
       w.sources = DemoHealth \/ \E reads : w.sources = LiveSources("ok", reads)

(* The rows and the deals are told apart by the firms that they are of.    *)
Tabled(w, S, T, rowOf, deals) ==
  /\ T \subseteq S /\ S \subseteq Firms
  /\ w.companies = {rowOf[f] : f \in S} /\ w.deals = {deals[f] : f \in T}
  /\ \A f \in S : CompanyOK(rowOf[f]) /\ rowOf[f].firm = f
  /\ \A f \in T : /\ deals[f].firm = f /\ deals[f].value \in {Unread, Amount}
                  /\ rowOf[f].relationship = "customer"
  /\ \A f \in S : rowOf[f].crm /\ rowOf[f].relationship = "customer" => f \in T

LEMMA RecordsFrom ==
  ASSUME NEW w, NEW S, NEW T, NEW rowOf, NEW deals, Tabled(w, S, T, rowOf, deals)
  PROVE  RecordsOK(w)
<1> USE DEF Tabled
<1>1. \A c \in w.companies : CompanyOK(c)
  OBVIOUS
<1>2. \A c, o \in w.companies : c.firm = o.firm => c = o
  OBVIOUS
<1>3. ASSUME NEW d \in w.deals
      PROVE  /\ d.value \in {Unread, Amount}
             /\ \E c \in w.companies : c.firm = d.firm /\ c.relationship = "customer"
  <2>1. PICK f \in T : d = deals[f]
    OBVIOUS
  <2>2. rowOf[f] \in w.companies /\ rowOf[f].firm = d.firm /\ rowOf[f].relationship = "customer"
    BY <2>1
  <2>3. d.value \in {Unread, Amount}
    BY <2>1
  <2> QED  BY <2>2, <2>3
<1>4. \A d, e \in w.deals : d.firm = e.firm => d = e
  OBVIOUS
<1>5. ASSUME NEW c \in w.companies, c.crm, c.relationship = "customer"
      PROVE  \E d \in w.deals : d.firm = c.firm
  <2>1. PICK f \in S : c = rowOf[f]
    OBVIOUS
  <2>2. f \in T /\ rowOf[f].firm = f
    BY <2>1, <1>5
  <2>3. deals[f] \in w.deals /\ deals[f].firm = c.firm
    BY <2>1, <2>2
  <2> QED  BY <2>3
<1> QED  BY <1>1, <1>2, <1>3, <1>4, <1>5, Zenon DEF RecordsOK

(* The answer of HubSpot, the rows of the database and the sample are each *)
(* told apart by their firms.                                              *)
LEMMA MappedOK ==
  ASSUME NEW p, NEW w, w.companies = MapCompanies(p), w.deals = MapDeals(p)
  PROVE  RecordsOK(w)
<1> DEFINE S == {f \in Firms : p[f] # "absent"}
           T == {f \in Firms : p[f] \notin {"absent", "none"}}
           rowOf == [f \in S |->
             [firm |-> f, named |-> TRUE, town |-> TownOf[f], located |-> FALSE, crm |-> TRUE,
              relationship |-> IF p[f] = "none" THEN "target" ELSE "customer",
              status |-> IF p[f] = "none" THEN "target_prospect" ELSE "active_pipeline",
              motion |-> IF p[f] = "none" THEN "prospect_new_business"
                         ELSE "grow_existing_business"]]
           deals == [f \in T |-> [firm |-> f, stage |-> Stage(p[f]),
                                  value |-> IF p[f] = "blank" THEN Unread ELSE Amount]]
<1>1. w.companies = {rowOf[f] : f \in S} /\ w.deals = {deals[f] : f \in T}
  BY DEF MapCompanies, MapDeals
<1>2. \A f \in S : CompanyOK(rowOf[f]) /\ rowOf[f].firm = f
  BY DEF CompanyOK
<1>3. \A f \in T : /\ deals[f].firm = f /\ deals[f].value \in {Unread, Amount}
                   /\ rowOf[f].relationship = "customer"
  OBVIOUS
<1>4. \A f \in S : rowOf[f].relationship = "customer" => f \in T
  OBVIOUS
<1>5. T \subseteq S /\ S \subseteq Firms
  OBVIOUS
<1> HIDE DEF S, T, rowOf, deals
<1>6. Tabled(w, S, T, rowOf, deals)
  BY <1>1, <1>2, <1>3, <1>4, <1>5 DEF Tabled
<1> QED  BY <1>6, RecordsFrom

LEMMA CompanyOfOK ==
  ASSUME NEW f \in Firms, NEW row
  PROVE  /\ CompanyOK(CompanyOf(f, row)) /\ CompanyOf(f, row).firm = f
         /\ CompanyOf(f, row).town = "" /\ ~CompanyOf(f, row).crm
         /\ CompanyOf(f, row).relationship = IF row.type = "customer" THEN "customer" ELSE "target"
BY DEF CompanyOK, CompanyOf

Kept(t) == {CompanyOf(f, t[f]) : f \in DOMAIN t}

LEMMA StoredOK ==
  ASSUME NEW t, DOMAIN t \subseteq Firms, NEW w, w.deals = {}, w.companies = Kept(t)
  PROVE  RecordsOK(w) /\ \A c \in w.companies : c.town = ""
<1> DEFINE S == DOMAIN t
           rowOf == [f \in S |-> CompanyOf(f, t[f])]
<1>1. w.companies = {rowOf[f] : f \in S} /\ w.deals = {rowOf[f] : f \in {}}
  BY DEF Kept
<1>2. ASSUME NEW f \in S
      PROVE  CompanyOK(rowOf[f]) /\ rowOf[f].firm = f /\ rowOf[f].town = "" /\ ~rowOf[f].crm
  <2>1. rowOf[f] = CompanyOf(f, t[f]) /\ f \in Firms
    OBVIOUS
  <2> HIDE DEF rowOf
  <2>2. PICK row : row = t[f]
    OBVIOUS
  <2>3. /\ CompanyOK(CompanyOf(f, row)) /\ CompanyOf(f, row).firm = f
        /\ CompanyOf(f, row).town = "" /\ ~CompanyOf(f, row).crm
    BY <2>1, CompanyOfOK
  <2> QED  BY <2>1, <2>2, <2>3
<1>3. S \subseteq Firms
  OBVIOUS
<1> HIDE DEF S, rowOf
<1>4. RecordsOK(w)
  <2>1. PICK T : T = {}
    OBVIOUS
  <2>2. Tabled(w, S, T, rowOf, rowOf)
    BY <1>1, <1>2, <1>3, <2>1 DEF Tabled
  <2> QED  BY <2>2, RecordsFrom
<1>5. ASSUME NEW c \in w.companies PROVE c.town = ""
  <2>1. PICK f \in S : c = rowOf[f]
    BY <1>1
  <2>2. rowOf[f].town = ""
    BY <1>2
  <2> QED  BY <2>1, <2>2
<1> QED  BY <1>4, <1>5

LEMMA DemoOK ==
  ASSUME NEW t, DOMAIN t = Firms, \A f \in Firms : t[f] = DemoTable[f], NEW w,
         w.companies = {[c EXCEPT !.town = TownOf[c.firm], !.located = TRUE] :
                          c \in {CompanyOf(f, t[f]) : f \in DOMAIN t}},
         w.deals = {[firm |-> f, stage |-> "open", value |-> Amount] : f \in Contacted}
  PROVE  RecordsOK(w)
<1> DEFINE kept == [f \in Firms |-> CompanyOf(f, t[f])]
           rowOf == [f \in Firms |-> [kept[f] EXCEPT !.town = TownOf[kept[f].firm],
                                                   !.located = TRUE]]
           deals == [f \in Contacted |-> [firm |-> f, stage |-> "open", value |-> Amount]]
<1>1. w.companies = {rowOf[f] : f \in Firms} /\ w.deals = {deals[f] : f \in Contacted}
  <2> DEFINE Put(c) == [c EXCEPT !.town = TownOf[c.firm], !.located = TRUE]
  <2>1. {CompanyOf(f, t[f]) : f \in DOMAIN t} = {kept[f] : f \in Firms}
    OBVIOUS
  <2>2. \A f \in Firms : rowOf[f] = Put(kept[f])
    OBVIOUS
  <2>3. w.companies = {Put(c) : c \in {kept[f] : f \in Firms}}
    BY <2>1
  <2> HIDE DEF kept, rowOf, Put
  <2>4. w.companies = {rowOf[f] : f \in Firms}
    <3> PICK all, names : all = w.companies /\ names = Firms
      OBVIOUS
    <3>1. all = {Put(c) : c \in {kept[f] : f \in names}} /\ \A f \in names : rowOf[f] = Put(kept[f])
      BY <2>2, <2>3
    <3>2. ASSUME NEW c \in all PROVE \E f \in names : c = rowOf[f]
      <4>1. PICK k \in {kept[f] : f \in names} : c = Put(k)
        BY <3>1, Zenon
      <4>2. PICK f \in names : k = kept[f]
        BY Zenon
      <4> QED  BY <3>1, <4>1, <4>2, Zenon
    <3>3. ASSUME NEW f \in names PROVE rowOf[f] \in all
      <4>1. kept[f] \in {kept[g] : g \in names}
        BY Zenon
      <4>2. Put(kept[f]) \in all
        BY <3>1, <4>1, Zenon
      <4> QED  BY <3>1, <4>2, Zenon
    <3>4. all \subseteq {rowOf[f] : f \in names}
      BY <3>2
    <3>5. {rowOf[f] : f \in names} \subseteq all
      BY <3>3
    <3> QED  BY <3>4, <3>5
  <2> QED  BY <2>4
<1>2. ASSUME NEW f \in Firms
      PROVE  /\ CompanyOK(rowOf[f]) /\ rowOf[f].firm = f /\ ~rowOf[f].crm
             /\ f \in Contacted => rowOf[f].relationship = "customer"
  <2>1. PICK row : row = t[f]
    OBVIOUS
  <2>2. /\ CompanyOK(CompanyOf(f, row)) /\ CompanyOf(f, row).firm = f
        /\ CompanyOf(f, row).relationship = IF row.type = "customer" THEN "customer" ELSE "target"
    BY CompanyOfOK
  <2>3. rowOf[f] = [CompanyOf(f, row) EXCEPT !.town = TownOf[CompanyOf(f, row).firm],
                                            !.located = TRUE]
    BY <2>1
  <2>4. /\ rowOf[f].firm = f /\ ~rowOf[f].crm
        /\ rowOf[f].relationship = CompanyOf(f, row).relationship
        /\ rowOf[f].status = CompanyOf(f, row).status
        /\ rowOf[f].motion = CompanyOf(f, row).motion
    <3> HIDE DEF rowOf
    <3> QED  BY <2>3 DEF CompanyOf
  <2>5. f \in Contacted => row.type = "customer"
    <3>1. row = DemoTable[f]
      BY <2>1
    <3> QED  BY <3>1 DEF DemoTable
  <2> HIDE DEF rowOf
  <2> QED  BY <2>2, <2>4, <2>5 DEF CompanyOK
<1>3. \A f \in Contacted : deals[f].firm = f /\ deals[f].value \in {Unread, Amount}
  OBVIOUS
<1>4. Contacted \subseteq Firms
  BY WorldAssumption
<1> HIDE DEF rowOf, deals
<1>5. Tabled(w, Firms, Contacted, rowOf, deals)
  BY <1>1, <1>2, <1>3, <1>4 DEF Tabled
<1> QED  BY <1>5, RecordsFrom

LEMMA PayloadOK ==
  ASSUME NEW t, DOMAIN t \subseteq Firms,
         tenant = "demo" => DOMAIN t = Firms /\ \A f \in Firms : t[f] = DemoTable[f],
         NEW signals, NEW links,
         NEW w, w = Payload(tenant = "live" /\ hubspot = "ok", t, signals, links)
  PROVE  RecordsOK(w) /\ SourcesOK(w) /\ w.signals = signals
<1>1. CASE tenant = "demo"
  <2>1. /\ w.companies = {[c EXCEPT !.town = TownOf[c.firm], !.located = TRUE] :
                            c \in {CompanyOf(f, t[f]) : f \in DOMAIN t}}
        /\ w.deals = {[firm |-> f, stage |-> "open", value |-> Amount] : f \in Contacted}
        /\ w.sources = DemoHealth /\ w.signals = signals
    BY <1>1 DEF Payload
  <2>2. RecordsOK(w)
    BY <1>1, <2>1, DemoOK
  <2> QED  BY <2>1, <2>2 DEF SourcesOK
<1>2. CASE tenant # "demo" /\ tenant = "live" /\ hubspot = "ok" /\ MapCompanies(portal) # {}
  <2>1. /\ w.companies = MapCompanies(portal) /\ w.deals = MapDeals(portal)
        /\ w.sources = LiveSources("ok", output.reads) /\ w.signals = signals
    BY <1>2 DEF Payload, LiveSources
  <2> QED  BY <2>1, MappedOK DEF SourcesOK
<1>3. CASE tenant # "demo" /\ ~(tenant = "live" /\ hubspot = "ok" /\ MapCompanies(portal) # {})
  <2>1. MapCompanies(portal) = {} => \A f \in Firms : portal[f] = "absent"
    BY DEF MapCompanies
  <2>2. MapCompanies(portal) = {} => MapDeals(portal) = {} /\ MapContacts(portal) = {}
    BY <2>1, WorldAssumption DEF MapDeals, MapContacts
  <2>3. /\ w.companies = Kept(t) /\ w.deals = {} /\ w.contacts = {}
        /\ w.sources = LiveSources(hubspot, output.reads) /\ w.signals = signals
    BY <1>3, <2>2 DEF Payload, LiveSources, Kept
  <2>4. RecordsOK(w) /\ \A c \in w.companies : c.town = ""
    BY <2>3, StoredOK
  <2> QED  BY <2>3, <2>4 DEF SourcesOK
<1> QED  BY <1>1, <1>2, <1>3

(* The database knows firms; that of the demo tenant never changes.        *)
TableOK(t) ==
  /\ DOMAIN t \subseteq Firms
  /\ tenant = "demo" => DOMAIN t = Firms /\ \A f \in Firms : t[f] = DemoTable[f]

(* What was read of an account is what the database has kept of it.        *)
KnownOK(k, t) ==
  \A f \in DOMAIN k :
    /\ f \in DOMAIN t /\ t[f].named
    /\ k[f] = IF t[f].type = "customer" THEN "customer" ELSE "target"

(* CrmReadable, of the payload itself.                                     *)
CrmRead(sources) ==
  \E s \in {s \in sources : s.id \in {"hubspot", "hubspot-demo"}} :
    s.readable /\ s.data \in {"live_external", "stored_snapshot", "recently_ingested"}

(* AccountsKept, of a payload and the history.                             *)
KeptOn(w, k) ==
  ~CrmRead(w.sources) => \A f \in DOMAIN k : \E c \in w.companies :
    c.firm = f /\ c.named /\ c.relationship = k[f]

(* The inductive invariant: the page stands for itself (it may be older than *)
(* the database), and the database for the next page.                      *)
WorldInv ==
  /\ output.reads \in Outputs /\ output.items \subseteq Stories /\ stored \subseteq Stories
  /\ town \in {Unread} \cup {TownOf[f] : f \in Firms}
  /\ TableOK(table) /\ KnownOK(known, table)
  /\ page # Unread =>
       RecordsOK(page) /\ SourcesOK(page) /\ page.signals \subseteq Stories /\ KeptOn(page, known)

LEMMA WorldBegins == WorldInit => WorldInv
<1> SUFFICES ASSUME WorldInit PROVE WorldInv
  OBVIOUS
<1>1. output.reads \in Outputs /\ output.items \subseteq Stories
  BY DEF WorldInit, Outputs
<1>2. stored \subseteq Stories /\ page = Unread /\ town = Unread
  BY DEF WorldInit
<1>3. DOMAIN <<>> = {}
  OBVIOUS
<1>4. TableOK(table)
  BY <1>3 DEF WorldInit, TableOK, DemoTable
<1>5. KnownOK(known, table)
  BY <1>3 DEF WorldInit, KnownOK
<1> QED  BY <1>1, <1>2, <1>4, <1>5 DEF WorldInv

LEMMA SyncIs ==
  ASSUME NEW cs, NEW t
  PROVE  /\ DOMAIN Sync(cs, t) = {c.firm : c \in cs} \cup DOMAIN t
         /\ \A f \in DOMAIN t : Sync(cs, t)[f] = t[f]
BY DEF Sync

LEMMA FirmsMapped ==
  ASSUME NEW p, NEW c \in MapCompanies(p)
  PROVE  c.firm \in Firms /\ c.relationship \in {"customer", "target"}
BY DEF MapCompanies

(* A poll writes to the database exactly what it adds to the history.      *)
LEMMA PolledOK ==
  ASSUME WorldInv, Poll
  PROVE  TableOK(table') /\ KnownOK(known', table')
<1> DEFINE cs == IF tenant = "live" /\ hubspot = "ok" THEN MapCompanies(portal) ELSE {}
           firms == {c.firm : c \in cs}
           Of(f) == CHOOSE c \in cs : c.firm = f
<1>1. table' = Upsert(cs, table)
  BY Zenon DEF Poll
<1>2. known' = [f \in firms \cup DOMAIN known |->
                  IF f \in firms THEN Of(f).relationship ELSE known[f]]
  BY Zenon DEF Poll
<1>3. \A c \in cs : c.firm \in Firms /\ c.relationship \in {"customer", "target"}
  BY FirmsMapped
<1>4. tenant = "demo" => cs = {}
  OBVIOUS
<1> HIDE DEF cs
<1>5. /\ DOMAIN table' = firms \cup DOMAIN table
      /\ \A f \in firms : table'[f] = [type |-> AccountType(Of(f)), named |-> TRUE]
      /\ \A f \in DOMAIN table \ firms : table'[f] = table[f]
  <2>1. /\ DOMAIN Upsert(cs, table) = firms \cup DOMAIN table
        /\ \A f \in firms : Upsert(cs, table)[f] = [type |-> AccountType(Of(f)), named |-> TRUE]
        /\ \A f \in DOMAIN table \ firms : Upsert(cs, table)[f] = table[f]
    BY DEF Upsert
  <2> HIDE DEF firms, Of
  <2> QED  BY <1>1, <2>1
<1>6. /\ DOMAIN known' = firms \cup DOMAIN known
      /\ \A f \in firms : known'[f] = Of(f).relationship
      /\ \A f \in DOMAIN known \ firms : known'[f] = known[f]
  <2> HIDE DEF firms, Of
  <2> QED  BY <1>2
<1>7. firms \subseteq Firms
  BY <1>3
<1>8. tenant = "demo" => firms = {}
  BY <1>4
<1>9. \A f \in firms : Of(f) \in cs
  OBVIOUS
<1> HIDE DEF firms, Of
<1>10. TableOK(table')
  BY <1>5, <1>7, <1>8 DEF TableOK, WorldInv
<1>11. ASSUME NEW f \in DOMAIN known'
       PROVE  /\ f \in DOMAIN table' /\ table'[f].named
              /\ known'[f] = IF table'[f].type = "customer" THEN "customer" ELSE "target"
  <2>1. CASE f \in firms
    <3>1. table'[f] = [type |-> AccountType(Of(f)), named |-> TRUE] /\ known'[f] = Of(f).relationship
      BY <2>1, <1>5, <1>6
    <3>2. Of(f).relationship \in {"customer", "target"}
      BY <2>1, <1>9, <1>3
    <3> QED  BY <2>1, <3>1, <3>2, <1>5 DEF AccountType
  <2>2. CASE f \notin firms
    <3>1. f \in DOMAIN known /\ known'[f] = known[f]
      BY <2>2, <1>6
    <3>2. f \in DOMAIN table /\ table[f].named
          /\ known[f] = IF table[f].type = "customer" THEN "customer" ELSE "target"
      BY <3>1 DEF WorldInv, KnownOK
    <3>3. f \in DOMAIN table' /\ table'[f] = table[f]
      BY <3>2, <2>2, <1>5
    <3> QED  BY <3>1, <3>2, <3>3
  <2> QED  BY <2>1, <2>2
<1>12. KnownOK(known', table')
  BY <1>11 DEF KnownOK
<1> QED  BY <1>10, <1>12

LEMMA KeptNamed ==
  ASSUME NEW t, NEW k, KnownOK(k, t), NEW w, w.companies = Kept(t)
  PROVE  KeptOn(w, k)
<1> SUFFICES ASSUME NEW f \in DOMAIN k
    PROVE  \E c \in w.companies : c.firm = f /\ c.named /\ c.relationship = k[f]
  BY DEF KeptOn
<1>1. /\ f \in DOMAIN t /\ t[f].named
      /\ k[f] = IF t[f].type = "customer" THEN "customer" ELSE "target"
  BY DEF KnownOK
<1>2. CompanyOf(f, t[f]) \in w.companies
  BY <1>1 DEF Kept
<1>3. /\ CompanyOf(f, t[f]).firm = f /\ CompanyOf(f, t[f]).named
      /\ CompanyOf(f, t[f]).relationship = k[f]
  BY <1>1 DEF CompanyOf
<1> QED  BY <1>2, <1>3

LEMMA SampleNamed ==
  ASSUME NEW t, NEW k, KnownOK(k, t), NEW w,
         w.companies = {[c EXCEPT !.town = TownOf[c.firm], !.located = TRUE] : c \in Kept(t)}
  PROVE  KeptOn(w, k)
<1> SUFFICES ASSUME NEW f \in DOMAIN k
    PROVE  \E c \in w.companies : c.firm = f /\ c.named /\ c.relationship = k[f]
  BY DEF KeptOn
<1>1. /\ f \in DOMAIN t /\ t[f].named
      /\ k[f] = IF t[f].type = "customer" THEN "customer" ELSE "target"
  BY DEF KnownOK
<1>2. PICK c : c = CompanyOf(f, t[f])
  OBVIOUS
<1>3. c \in Kept(t)
  BY <1>1, <1>2 DEF Kept
<1>4. PICK o : o = [c EXCEPT !.town = TownOf[c.firm], !.located = TRUE]
  OBVIOUS
<1>5. o \in w.companies
  BY <1>3, <1>4
<1>6. o.firm = f /\ o.named /\ o.relationship = k[f]
  BY <1>1, <1>2, <1>4 DEF CompanyOf
<1> QED  BY <1>5, <1>6

LEMMA PayloadKept ==
  ASSUME NEW t, NEW k, KnownOK(k, t), NEW signals, NEW links,
         NEW w, w = Payload(tenant = "live" /\ hubspot = "ok", t, signals, links)
  PROVE  KeptOn(w, k)
<1>1. CASE tenant = "demo"
  <2>1. w.companies = {[c EXCEPT !.town = TownOf[c.firm], !.located = TRUE] : c \in Kept(t)}
    BY <1>1 DEF Payload, Kept
  <2> QED  BY <2>1, SampleNamed
<1>2. CASE tenant # "demo" /\ tenant = "live" /\ hubspot = "ok"
  <2>1. CrmHealth("ok") \in w.sources
    BY <1>2 DEF Payload
  <2>2. CrmRead(w.sources)
    BY <2>1 DEF CrmRead, CrmHealth, Source
  <2> QED  BY <2>2 DEF KeptOn
<1>3. CASE tenant # "demo" /\ ~(tenant = "live" /\ hubspot = "ok")
  <2>1. w.companies = Kept(t)
    BY <1>3 DEF Payload, Kept
  <2> QED  BY <2>1, KeptNamed
<1> QED  BY <1>1, <1>2, <1>3

LEMMA WorldPolled ==
  ASSUME WorldInv, Poll
  PROVE  WorldInv'
<1> PICK t, signals, links, k, w :
      t = table' /\ signals = stored' /\ links = linked' /\ k = known' /\ w = page'
  OBVIOUS
<1>1. TableOK(t) /\ KnownOK(k, t)
  BY PolledOK
<1>2. w = Payload(tenant = "live" /\ hubspot = "ok", t, signals, links)
  BY Zenon DEF Poll
<1>3. signals \subseteq Stories
  <2>1. PICK items : signals = stored \cup items /\ (items = {} \/ items = MonitorRecords(output))
    BY DEF Poll
  <2> QED  BY <2>1 DEF WorldInv, MonitorRecords
<1>4. RecordsOK(w) /\ SourcesOK(w) /\ w.signals = signals
  BY <1>1, <1>2, PayloadOK DEF TableOK
<1>5. KeptOn(w, k)
  BY <1>1, <1>2, PayloadKept
<1>6. output' = output /\ town' = town /\ tenant' = tenant
  BY DEF Poll
<1>7. TableOK(table)'
  BY <1>1, <1>6 DEF TableOK
<1> QED  BY <1>1, <1>3, <1>4, <1>5, <1>6, <1>7 DEF WorldInv, TableOK

LEMMA WorldGoesOn ==
  ASSUME WorldInv, [WorldNext]_worldVars
  PROVE  WorldInv'
<1>1. CASE Poll
  BY <1>1, WorldPolled
<1>2. CASE PollBreaks
  <2>1. table' = Sync(MapCompanies(portal), table)
    BY <1>2 DEF PollBreaks
  <2>2. /\ DOMAIN table' = {c.firm : c \in MapCompanies(portal)} \cup DOMAIN table
        /\ \A f \in DOMAIN table : table'[f] = table[f]
    BY <2>1 DEF Sync
  <2>3. {c.firm : c \in MapCompanies(portal)} \subseteq Firms
    BY FirmsMapped
  <2>4. tenant # "demo" /\ UNCHANGED <<tenant, portal, hubspot, output, stored, linked, page,
                                       town, known, turns>>
    BY <1>2 DEF PollBreaks
  <2>5. TableOK(table)'
    BY <2>2, <2>3, <2>4 DEF TableOK, WorldInv
  <2>6. KnownOK(known, table)'
    BY <2>2, <2>4 DEF KnownOK, WorldInv
  <2> QED  BY <2>4, <2>5, <2>6 DEF WorldInv
<1>3. CASE PortalChanges \/ HubSpotTurns \/ PollFails
  BY <1>3 DEF PortalChanges, HubSpotTurns, PollFails, WorldInv, TableOK
<1>4. CASE MonitorTurns
  <2>1. output'.reads \in Outputs /\ output'.items \subseteq Stories
    BY <1>4 DEF MonitorTurns
  <2> QED  BY <1>4, <2>1 DEF MonitorTurns, WorldInv, TableOK
<1>5. CASE PickTown
  BY <1>5 DEF PickTown, WorldInv, TableOK
<1>6. CASE UNCHANGED worldVars
  BY <1>6 DEF worldVars, WorldInv, TableOK
<1> QED  BY <1>1, <1>2, <1>3, <1>4, <1>5, <1>6 DEF WorldNext

(* What the market filter leaves of a page is again such a payload.        *)
ShownOK(w) ==
  /\ RecordsOK(w) /\ SourcesOK(w) /\ w.valid \subseteq Stories
  /\ \A s \in w.sources : s.availability \in {"error", "unavailable"} => s.id \in w.errors

LEMMA ShownFrom ==
  ASSUME WorldInv, NEW city
  PROVE  ShownOK(Shown(city))
<1> PICK w : w = Shown(city)
  OBVIOUS
<1>1. CASE page = Unread
  <2>1. w.companies = {} /\ w.deals = {} /\ w.contacts = {} /\ w.valid = {} /\ w.sources = {}
    BY <1>1 DEF Shown
  <2> QED  BY <2>1 DEF ShownOK, RecordsOK, SourcesOK
<1>2. CASE page # Unread
  <2> DEFINE cs == {c \in page.companies : city \in {Unread, c.town}}
             Here(f) == city = Unread \/ f \in {c.firm : c \in cs}
  <2>1. /\ w.companies = cs
        /\ w.contacts = {f \in page.contacts : Here(f)}
        /\ w.deals = {d \in page.deals : Here(d.firm)}
        /\ w.valid = IF city = Unread THEN page.signals \ page.links ELSE {}
        /\ w.sources = page.sources
    BY <1>2 DEF Shown
  <2>2. w.errors = {s.id : s \in {s \in page.sources : s.availability \in {"error", "unavailable"}}}
                   \cup IF failing THEN {"query"} ELSE {}
    BY <1>2 DEF Shown
  <2>3. RecordsOK(page) /\ SourcesOK(page) /\ page.signals \subseteq Stories
    BY <1>2 DEF WorldInv
  <2>4. \A c \in page.companies : c \in cs => Here(c.firm)
    OBVIOUS
  <2>5. city = Unread => cs = page.companies
    OBVIOUS
  <2>6. \A f : Here(f) => city = Unread \/ \E o \in cs : o.firm = f
    OBVIOUS
  <2>7. cs \subseteq page.companies
    OBVIOUS
  <2> HIDE DEF cs, Here
  <2>8. RecordsOK(w)
    <3>1. \A c \in w.companies : CompanyOK(c)
      BY <2>1, <2>3, <2>7 DEF RecordsOK
    <3>2. \A c, o \in w.companies : c.firm = o.firm => c = o
      BY <2>1, <2>3, <2>7 DEF RecordsOK
    <3>3. ASSUME NEW d \in w.deals
          PROVE  /\ d.value \in {Unread, Amount}
                 /\ \E c \in w.companies : c.firm = d.firm /\ c.relationship = "customer"
      <4>1. d \in page.deals /\ Here(d.firm)
        BY <2>1, <3>3
      <4>2. d.value \in {Unread, Amount}
        BY <4>1, <2>3 DEF RecordsOK
      <4>3. PICK c \in page.companies : c.firm = d.firm /\ c.relationship = "customer"
        BY <4>1, <2>3 DEF RecordsOK
      <4>4. c \in cs
        <5>1. CASE city = Unread
          BY <5>1, <2>5
        <5>2. CASE city # Unread
          <6>1. PICK o \in cs : o.firm = d.firm
            BY <5>2, <4>1, <2>6
          <6>2. o = c
            BY <6>1, <4>3, <2>3, <2>7 DEF RecordsOK
          <6> QED  BY <6>1, <6>2
        <5> QED  BY <5>1, <5>2
      <4> QED  BY <4>2, <4>3, <4>4, <2>1
    <3>4. \A d, e \in w.deals : d.firm = e.firm => d = e
      BY <2>1, <2>3 DEF RecordsOK
    <3>5. ASSUME NEW c \in w.companies, c.crm, c.relationship = "customer"
          PROVE  \E d \in w.deals : d.firm = c.firm
      <4>1. c \in page.companies /\ Here(c.firm)
        BY <2>1, <2>4, <2>7, <3>5
      <4>2. PICK d \in page.deals : d.firm = c.firm
        BY <4>1, <3>5, <2>3, Zenon DEF RecordsOK
      <4>3. d \in w.deals
        BY <4>1, <4>2, <2>1
      <4> QED  BY <4>2, <4>3
    <3> QED  BY <3>1, <3>2, <3>3, <3>4, <3>5, Zenon DEF RecordsOK
  <2>9. SourcesOK(w)
    BY <2>1, <2>3, <2>7 DEF SourcesOK
  <2>10. w.valid \subseteq Stories
    BY <2>1, <2>3
  <2>11. \A s \in w.sources : s.availability \in {"error", "unavailable"} => s.id \in w.errors
    BY <2>1, <2>2
  <2> QED  BY <2>8, <2>9, <2>10, <2>11 DEF ShownOK
<1> QED  BY <1>1, <1>2

LEMMA SourcesTell ==
  ASSUME NEW w, SourcesOK(w)
  PROVE  /\ \A s \in w.sources : s.data = "live_external" => s.id = "hubspot"
         /\ \A s \in CrmSource(w) :
              s.data = "live_external" =>
                s.readable /\ s.mode = "read_connected" /\ s.availability = "available"
         /\ \A s \in CrmSource(w) : s.data # "stored_snapshot" /\ s.data # "recently_ingested"
         /\ \A s \in CrmSource(w) : s.data = "unavailable" => s.availability = "error"
         /\ \A s \in CrmSource(w) : s.availability = "available" => s.data = "live_external"
         /\ \A s, r \in CrmSource(w) : s = r
<1>1. \A s \in DemoHealth :
        /\ s.data # "live_external"
        /\ s.id \in {"hubspot", "hubspot-demo"} =>
             s = Source("hubspot-demo", "simulated", "snapshot_loaded", "simulated_internal", TRUE, 0)
  BY DEF DemoHealth, OperatingHealth, Source
<1>2. ASSUME NEW reads PROVE /\ MonitorHealth(reads).id = "monitor"
                             /\ MonitorHealth(reads).data # "live_external"
  BY DEF MonitorHealth, Source
<1>3. OperatingHealth.id = "operating" /\ OperatingHealth.data # "live_external"
  BY DEF OperatingHealth, Source
<1>4. ASSUME NEW answer
      PROVE  LET s == CrmHealth(answer)
             IN  /\ s.id = "hubspot" /\ s.data \notin {"stored_snapshot", "recently_ingested"}
                 /\ s.data = "live_external" =>
                      s.readable /\ s.mode = "read_connected" /\ s.availability = "available"
                 /\ s.data = "unavailable" => s.availability = "error"
                 /\ s.availability = "available" => s.data = "live_external"
  BY DEF CrmHealth, Source
<1>5. CASE w.sources = {}
  BY <1>5 DEF CrmSource, SourceOfKind
<1>6. CASE w.sources = DemoHealth
  <2>1. PICK h : h = Source("hubspot-demo", "simulated", "snapshot_loaded", "simulated_internal", TRUE, 0)
    OBVIOUS
  <2>2. h.data = "simulated_internal" /\ h.availability = "simulated"
    BY <2>1 DEF Source
  <2>3. \A s \in CrmSource(w) : s = h
    BY <1>1, <1>6, <2>1 DEF CrmSource, SourceOfKind
  <2>4. \A s \in w.sources : s.data # "live_external"
    BY <1>1, <1>6
  <2> QED  BY <2>2, <2>3, <2>4
<1>7. CASE \E answer, reads : w.sources = LiveSources(answer, reads)
  <2>1. PICK answer, reads : w.sources = LiveSources(answer, reads)
    BY <1>7
  <2>2. PICK h : h = CrmHealth(answer)
    OBVIOUS
  <2>3. w.sources = {h, MonitorHealth(reads), OperatingHealth}
    BY <2>1, <2>2 DEF LiveSources
  <2>4. \A s \in CrmSource(w) : s = h
    BY <2>3, <1>2, <1>3 DEF CrmSource, SourceOfKind
  <2>5. \A s \in w.sources : s.data = "live_external" => s = h
    BY <2>3, <1>2, <1>3
  <2>6. /\ h.id = "hubspot" /\ h.data \notin {"stored_snapshot", "recently_ingested"}
        /\ h.data = "live_external" =>
             h.readable /\ h.mode = "read_connected" /\ h.availability = "available"
        /\ h.data = "unavailable" => h.availability = "error"
        /\ h.availability = "available" => h.data = "live_external"
    BY <1>4, <2>2
  <2> QED  BY <2>4, <2>5, <2>6
<1> QED  BY <1>5, <1>6, <1>7 DEF SourcesOK

LEMMA ProspectsAre ==
  ASSUME NEW w, RecordsOK(w)
  PROVE  /\ ProspectRows(w) = {c \in w.companies : c.relationship = "target"}
         /\ {c \in w.companies : IsTargetProspect(c)} = ProspectRows(w)
         /\ Prospects(w) = w.companies
<1>1. \A c \in w.companies : CompanyOK(c)
  BY DEF RecordsOK
<1>2. ASSUME NEW c \in w.companies
      PROVE  /\ c \in ProspectRows(w) <=> c.relationship = "target"
             /\ IsTargetProspect(c) <=> c.relationship = "target"
  BY <1>1 DEF CompanyOK, ProspectRows, IsProspecting, IsTargetProspect
<1>3. ProspectRows(w) \subseteq w.companies
  BY DEF ProspectRows
<1>4. Prospects(w) = w.companies
  BY <1>1 DEF Prospects, CompanyOK
<1> QED  BY <1>2, <1>3, <1>4

LEMMA RecordsFinite ==
  ASSUME NEW w, RecordsOK(w)
  PROVE  IsFiniteSet(w.companies) /\ IsFiniteSet(w.deals)
<1>1. IsFiniteSet(Firms)
  BY WorldAssumption
<1>2. IsFiniteSet(w.companies)
  <2> DEFINE firm == [c \in w.companies |-> c.firm]
  <2>1. firm \in [w.companies -> Firms]
    BY DEF RecordsOK, CompanyOK
  <2>2. \A c, o \in w.companies : firm[c] = firm[o] => c = o
    BY DEF RecordsOK
  <2> HIDE DEF firm
  <2>3. firm \in Injection(w.companies, Firms)
    BY <2>1, <2>2 DEF Injection, IsInjective
  <2> QED  BY <1>1, <2>3, FS_Injection
<1>3. IsFiniteSet(w.deals)
  <2> DEFINE firm == [d \in w.deals |-> d.firm]
  <2>1. firm \in [w.deals -> Firms]
    BY DEF RecordsOK, CompanyOK
  <2>2. \A d, e \in w.deals : firm[d] = firm[e] => d = e
    BY DEF RecordsOK
  <2> HIDE DEF firm
  <2>3. firm \in Injection(w.deals, Firms)
    BY <2>1, <2>2 DEF Injection, IsInjective
  <2> QED  BY <1>1, <2>3, FS_Injection
<1> QED  BY <1>2, <1>3

(* What the figures are, one by one.                                       *)
LEMMA FiguresAre ==
  ASSUME NEW w
  PROVE  LET metrics == CanonicalMetrics(w)
             badge == SurfaceMetric(w)
             approved == w.deals # {} /\ \E s \in w.sources : s.readable /\ s.data = "live_external"
         IN /\ Told(metrics.total_accounts) = Cardinality(w.companies)
            /\ Told(badge.accounts) = Cardinality(w.companies)
            /\ Told(badge.prospecting) = Cardinality({c \in w.companies : IsTargetProspect(c)})
            /\ Told(badge.map) = Cardinality({c \in w.companies : c.located})
            /\ Told(metrics.mapped_accounts) = Cardinality({c \in w.companies : c.located})
            /\ Told(metrics.customer_accounts)
                 = Cardinality({c \in w.companies : c.relationship = "customer"})
            /\ Told(metrics.opportunity)
                 = IF w.deals # {} THEN Total({d \in w.deals : IsOpen(d)}) ELSE Unread
            /\ Told(badge.hubspot) = Cardinality(w.contacts) + Cardinality(w.deals)
            /\ Told(badge.capacity) = Told(metrics.crm_synced_accounts)
            /\ ~approved => Told(badge.analysis) = Unread
<1>1. \A v : Told(Figure(v, "available")) = v /\ Told(Figure(v, "unavailable")) = Unread
  BY DEF Told, Figure
<1> DEFINE metrics == CanonicalMetrics(w)
           badge == SurfaceMetric(w)
<1>2. /\ metrics.total_accounts = Figure(Cardinality(w.companies), "available")
      /\ metrics.mapped_accounts = Figure(Cardinality({c \in w.companies : c.located}), "available")
      /\ metrics.customer_accounts
           = Figure(Cardinality({c \in w.companies : c.relationship = "customer"}), "available")
      /\ metrics.opportunity = Figure(Total({d \in w.deals : IsOpen(d)}),
                                      IF w.deals # {} THEN "available" ELSE "unavailable")
  BY DEF CanonicalMetrics, Count
<1>3. /\ badge.accounts = metrics.total_accounts
      /\ badge.map = metrics.mapped_accounts
      /\ badge.capacity = metrics.crm_synced_accounts
      /\ badge.prospecting = Figure(Cardinality({c \in w.companies : IsTargetProspect(c)}), "available")
      /\ badge.hubspot = Figure(Cardinality(w.contacts) + Cardinality(w.deals), "available")
  BY DEF SurfaceMetric, Count
<1>4. ~(w.deals # {} /\ \E s \in w.sources : s.readable /\ s.data = "live_external") =>
        badge.analysis = Figure(Unread, "unavailable")
  BY DEF SurfaceMetric
<1> HIDE DEF metrics, badge
<1> QED  BY <1>1, <1>2, <1>3, <1>4 DEF metrics, badge

LEMMA SyncedTold ==
  ASSUME NEW w, RecordsOK(w), SourcesOK(w)
  PROVE  (Told(CanonicalMetrics(w).crm_synced_accounts) # Unread)
           <=> \E s \in CrmSource(w) : s.data = "live_external"
<1> DEFINE figure == CanonicalMetrics(w).crm_synced_accounts
<1>1. CASE \E s \in CrmSource(w) : s.data = "live_external"
  <2>1. CrmReadable(w)
    BY <1>1, SourcesTell DEF CrmReadable
  <2>2. ~\E s \in CrmSource(w) : s.data = "stored_snapshot"
    BY SourcesTell
  <2>3. ~Failed(CrmSource(w))
    BY <1>1, SourcesTell DEF Failed, Verification
  <2>4. figure = Figure(Cardinality(w.companies), "available")
    BY <2>1, <2>2, <2>3 DEF CanonicalMetrics
  <2>5. Told(figure) = Cardinality(w.companies)
    BY <2>4 DEF Told, Figure
  <2>6. Cardinality(w.companies) \in Nat
    BY RecordsFinite, FS_CardinalityType
  <2> QED  BY <1>1, <2>5, <2>6, WorldAssumption
<1>2. CASE ~\E s \in CrmSource(w) : s.data = "live_external"
  <2>1. ~CrmReadable(w)
    BY <1>2, SourcesTell DEF CrmReadable
  <2>2. figure = Figure(Unread, IF Failed(CrmSource(w)) THEN "error" ELSE "unavailable")
    BY <2>1 DEF CanonicalMetrics
  <2>3. Told(figure) = Unread
    BY <2>2 DEF Told, Figure
  <2> QED  BY <1>2, <2>3
<1> QED  BY <1>1, <1>2

LEMMA PipelineTold ==
  ASSUME NEW w, RecordsOK(w)
  PROVE  LET open == {d \in w.deals : IsOpen(d) /\ d.value # Unread}
         IN  /\ Told(PipelineByStage(w)) = IF open = {} THEN Unread ELSE Total(open)
             /\ Total(open) = Total({d \in w.deals : IsOpen(d)})
<1> DEFINE open == {d \in w.deals : IsOpen(d) /\ d.value # Unread}
           blank == {d \in w.deals : IsOpen(d) /\ d.value = Unread}
           all == {d \in w.deals : IsOpen(d)}
           worth == [d \in all |-> Worth(d)]
<1>1. Told(PipelineByStage(w)) = IF open = {} THEN Unread ELSE Total(open)
  BY DEF PipelineByStage, Told, Figure
<1>2. IsFiniteSet(open) /\ IsFiniteSet(blank) /\ open \cap blank = {} /\ all = open \cup blank
  <2>1. open \subseteq w.deals /\ blank \subseteq w.deals /\ IsFiniteSet(w.deals)
    BY RecordsFinite
  <2>2. open \cap blank = {} /\ all = open \cup blank
    OBVIOUS
  <2> HIDE DEF open, blank
  <2> QED  BY <2>1, <2>2, FS_Subset
<1>3. \A d \in open \cup blank : worth[d] \in Nat
  BY DEF RecordsOK, Worth, Amount
<1>4. \A d \in blank : worth[d] = 0
  BY DEF Worth
<1>5. \A d \in open : worth[d] = [e \in open |-> Worth(e)][d]
  OBVIOUS
<1>6. Total(all) = SumFunctionOnSet(worth, all) /\ Total(open) = SumFunctionOnSet([e \in open |-> Worth(e)], open)
  BY DEF Total
<1> DEFINE own == [e \in open |-> Worth(e)]
<1> HIDE DEF open, blank, all, worth, own
<1>7. SumFunctionOnSet(worth, all) = SumFunctionOnSet(worth, open) + SumFunctionOnSet(worth, blank)
  BY <1>2, <1>3, SumSplit
<1>8. SumFunctionOnSet(worth, blank) = 0
  BY <1>2, <1>4, SumNothing
<1>9. SumFunctionOnSet(worth, open) = SumFunctionOnSet(own, open)
  BY <1>2, <1>5, SumEqual DEF own
<1>10. SumFunctionOnSet(worth, open) \in Nat
  BY <1>2, <1>3, SumNat
<1>11. Total(open) = Total(all)
  BY <1>6, <1>7, <1>8, <1>9, <1>10 DEF own
<1> QED  BY <1>1, <1>11 DEF open, all

LEMMA NumbersTold == WorldInv => NumbersAgree
<1> SUFFICES ASSUME WorldInv PROVE NumbersAgree
  OBVIOUS
<1> PICK w : w = Shown(Unread)
  OBVIOUS
<1> PICK here : here = Shown(town)
  OBVIOUS
<1> DEFINE badge == SurfaceMetric(w)
           metrics == CanonicalMetrics(w)
           rail == MapRail(here, FALSE)
           prospects == MapRail(w, TRUE)
           pipeline == Told(PipelineByStage(w))
           read == \E s \in CrmSource(w) : s.data = "live_external"
           sample == \E s \in CrmSource(w) : s.data = "simulated_internal"
<1>1. RecordsOK(w) /\ SourcesOK(w)
      /\ \A s \in w.sources : s.availability \in {"error", "unavailable"} => s.id \in w.errors
  BY ShownFrom DEF ShownOK
<1>2. Told(badge.accounts) = Cardinality(AccountRows(w))
  BY FiguresAre DEF AccountRows
<1>3. Told(badge.prospecting) = Cardinality(ProspectRows(w))
  BY <1>1, FiguresAre, ProspectsAre
<1>4. Told(badge.map) = Cardinality(Markers(w.companies))
  BY FiguresAre DEF Markers
<1>5. rail.mapped = Cardinality(rail.drawn)
  BY FiguresAre DEF MapRail, Markers
<1>6. prospects.drawn \cup prospects.omitted \subseteq ProspectRows(w)
  <2>1. prospects.drawn \cup prospects.omitted
          \subseteq {c \in Prospects(w) : c.relationship = "target"}
    BY DEF MapRail, Markers
  <2> QED  BY <1>1, <2>1, ProspectsAre
<1>7. (Told(metrics.crm_synced_accounts) # Unread) <=> read
  BY <1>1, SyncedTold
<1>8. Told(badge.capacity) = Told(metrics.crm_synced_accounts)
  BY FiguresAre
<1>9. pipeline # Unread => pipeline = Told(metrics.opportunity)
  BY <1>1, PipelineTold, FiguresAre, ZenonT(60)
<1>10. w.deals # {} \/ w.contacts # {} \/ (\E c \in w.companies : c.town # "") => read \/ sample
  <2>1. ASSUME w.sources = DemoHealth PROVE sample
    <3>1. PICK h : h = Source("hubspot-demo", "simulated", "snapshot_loaded", "simulated_internal",
                              TRUE, 0)
      OBVIOUS
    <3>2. h \in w.sources
      BY <2>1, <3>1 DEF DemoHealth
    <3>3. h.id = "hubspot-demo" /\ h.data = "simulated_internal"
      BY <3>1 DEF Source
    <3> QED  BY <3>2, <3>3 DEF CrmSource, SourceOfKind
  <2>2. ASSUME NEW reads, w.sources = LiveSources("ok", reads) PROVE read
    <3>1. CrmHealth("ok") \in w.sources
      BY <2>2 DEF LiveSources
    <3>2. CrmHealth("ok").id = "hubspot" /\ CrmHealth("ok").data = "live_external"
      BY DEF CrmHealth, Source
    <3> QED  BY <3>1, <3>2 DEF CrmSource, SourceOfKind
  <2> HIDE DEF read, sample
  <2> QED  BY <1>1, <2>1, <2>2 DEF SourcesOK
<1>11. \/ Told(metrics.opportunity) # Unread
       \/ Told(badge.hubspot) # 0
       \/ OutreachQueue(w) # {}
       \/ town # Unread /\ Shortlist(w, town) # {}
       => read \/ sample
  <2>1. Told(metrics.opportunity) # Unread => w.deals # {}
    BY FiguresAre
  <2>2. Told(badge.hubspot) # 0 => w.contacts # {} \/ w.deals # {}
    <3>1. Told(badge.hubspot) = Cardinality(w.contacts) + Cardinality(w.deals)
      BY FiguresAre
    <3>2. Cardinality({}) = 0
      BY FS_EmptySet
    <3> HIDE DEF badge
    <3> QED  BY <3>1, <3>2
  <2>3. OutreachQueue(w) # {} => w.contacts # {}
    BY DEF OutreachQueue
  <2>4. town # Unread /\ Shortlist(w, town) # {} => \E c \in w.companies : c.town # ""
    <3>1. town # Unread => town # ""
      BY WorldAssumption DEF WorldInv
    <3> QED  BY <3>1 DEF Shortlist, ProspectRows
  <2> HIDE DEF read, sample, metrics, badge
  <2> QED  BY <1>10, <2>1, <2>2, <2>3, <2>4
<1>12. OpensOn(w) \subseteq ProspectRows(w) => Told(metrics.customer_accounts) = 0
  <2> DEFINE customers == {c \in w.companies : c.relationship = "customer"}
  <2>1. customers # {} => OpensOn(w) = customers
    BY DEF OpensOn, AccountRows
  <2>2. \A c \in customers : c \notin ProspectRows(w)
    BY <1>1, ProspectsAre
  <2>3. Told(metrics.customer_accounts) = Cardinality(customers)
    BY FiguresAre
  <2> HIDE DEF customers, metrics
  <2> QED  BY <2>1, <2>2, <2>3, FS_EmptySet
<1>13. Told(TableMetric(w)) = Unread /\ Chart(TableMetric(w)).points = {}
  BY DEF TableMetric, Told, Figure, Chart
<1>14. Told(badge.analysis) # Unread => read
  <2>1. Told(badge.analysis) # Unread => \E s \in w.sources : s.data = "live_external"
    BY FiguresAre
  <2> HIDE DEF badge
  <2> QED  BY <1>1, <2>1, SourcesTell DEF CrmSource, SourceOfKind
<1>15. (\E s \in CrmSource(w) : s.data = "unavailable") => SystemNeedsAttention(w)
  BY <1>1, SourcesTell DEF CrmSource, SourceOfKind, SystemNeedsAttention
<1> HIDE DEF badge, metrics, rail, prospects, pipeline, read, sample
<1> QED
  BY <1>2, <1>3, <1>4, <1>5, <1>6, <1>7, <1>8, <1>9, <1>11, <1>12, <1>13, <1>14, <1>15, Zenon
  DEF NumbersAgree, badge, metrics, rail, prospects, pipeline, read, sample

LEMMA AccountsHeld == WorldInv => AccountsKept
<1> SUFFICES ASSUME WorldInv, page # Unread, ~CrmReadable(Shown(Unread)), NEW f \in DOMAIN known
    PROVE  \E c \in page.companies : c.firm = f /\ c.named /\ c.relationship = known[f]
  BY DEF AccountsKept
<1>1. Shown(Unread).sources = page.sources
  BY DEF Shown
<1>2. ~CrmRead(page.sources)
  BY <1>1 DEF CrmRead, CrmReadable, CrmSource, SourceOfKind
<1> QED  BY <1>2 DEF WorldInv, KeptOn

(* Of the rows, one with the fewest above it comes first.                  *)
LEMMA SomeoneLeads ==
  ASSUME NEW w, RecordsOK(w), w.valid \subseteq Stories
  PROVE  Leads(w) = {} <=> ProspectRows(w) = {}
<1> DEFINE prospects == ProspectRows(w)
           Above(c) == {o \in prospects : Outranks(w, o, c)}
           places == {Cardinality(Above(c)) : c \in prospects}
<1>1. IsFiniteSet(prospects)
  <2>1. prospects \subseteq w.companies
    BY DEF ProspectRows
  <2> HIDE DEF prospects
  <2> QED  BY <2>1, RecordsFinite, FS_Subset
<1>2. ASSUME NEW c PROVE ProspectUrgency(w, c) \in Nat
  <2>1. SignalsOf(w, c) \subseteq Stories
    BY DEF SignalsOf
  <2>2. Cardinality(SignalsOf(w, c)) \in Nat
    BY <2>1, FS_Subset, FS_CardinalityType, WorldAssumption
  <2> QED  BY <2>2 DEF ProspectUrgency
<1>3. ASSUME NEW c PROVE IsFiniteSet(Above(c)) /\ Cardinality(Above(c)) \in Nat
  <2>1. Above(c) \subseteq prospects
    OBVIOUS
  <2> HIDE DEF Above, prospects
  <2> QED  BY <1>1, <2>1, FS_Subset, FS_CardinalityType
<1>4. ASSUME prospects # {} PROVE Leads(w) # {}
  <2>1. places \subseteq Nat /\ places # {}
    BY <1>3, <1>4
  <2>2. PICK n \in places : \A m \in places : n <= m
    <3> HIDE DEF places
    <3> QED  BY <2>1, SmallestNumber
  <2>3. PICK c \in prospects : n = Cardinality(Above(c))
    OBVIOUS
  <2>4. ASSUME NEW o \in prospects, Outranks(w, o, c) PROVE FALSE
    <3>1. Above(o) \subseteq Above(c) /\ o \in Above(c) /\ o \notin Above(o)
      BY <2>4, <1>2 DEF Outranks
    <3>2. Cardinality(Above(o)) <= Cardinality(Above(c)) /\ Cardinality(Above(o)) # Cardinality(Above(c))
      <4>1. IsFiniteSet(Above(c))
        BY <1>3
      <4> HIDE DEF Above
      <4> QED  BY <3>1, <4>1, FS_Subset
    <3>3. Cardinality(Above(o)) \in places
      OBVIOUS
    <3> HIDE DEF Above, places
    <3> QED  BY <3>2, <3>3, <2>2, <2>3, <1>3
  <2>5. c \in Leads(w)
    BY <2>3, <2>4 DEF Leads
  <2> QED  BY <2>5
<1> QED  BY <1>4 DEF Leads

LEMMA WorthIs ==
  ASSUME NEW w, RecordsOK(w)
  PROVE  \A d \in w.deals : Worth(d) \in Nat
BY DEF RecordsOK, Worth, Amount

LEMMA TotalNat ==
  ASSUME NEW w, RecordsOK(w), NEW deals \in SUBSET w.deals
  PROVE  Total(deals) \in Nat /\ IsFiniteSet(deals) /\ Total(deals) <= Total(w.deals)
<1> DEFINE all == [d \in w.deals |-> Worth(d)]
           own == [d \in deals |-> Worth(d)]
<1>1. IsFiniteSet(w.deals) /\ IsFiniteSet(deals)
  BY RecordsFinite, FS_Subset
<1>2. (\A d \in w.deals : all[d] \in Nat) /\ (\A d \in deals : own[d] = all[d])
  BY WorthIs
<1>3. Total(deals) = SumFunctionOnSet(own, deals) /\ Total(w.deals) = SumFunctionOnSet(all, w.deals)
  BY DEF Total
<1> HIDE DEF all, own
<1>4. SumFunctionOnSet(own, deals) = SumFunctionOnSet(all, deals)
  BY <1>1, <1>2, SumEqual
<1>5. SumFunctionOnSet(all, deals) <= SumFunctionOnSet(all, w.deals)
  BY <1>1, <1>2, SumWithin
<1>6. SumFunctionOnSet(all, deals) \in Nat
  BY <1>1, <1>2, SumNat
<1> QED  BY <1>1, <1>3, <1>4, <1>5, <1>6

LEMMA TotalSplit ==
  ASSUME NEW w, RecordsOK(w), NEW A \in SUBSET w.deals, NEW B \in SUBSET w.deals, A \cap B = {}
  PROVE  Total(A \cup B) = Total(A) + Total(B)
<1> DEFINE all == [d \in A \cup B |-> Worth(d)]
           ofA == [d \in A |-> Worth(d)]
           ofB == [d \in B |-> Worth(d)]
<1>1. IsFiniteSet(A) /\ IsFiniteSet(B)
  BY TotalNat
<1>2. /\ \A d \in A \cup B : all[d] \in Nat
      /\ \A d \in A : all[d] = ofA[d]
      /\ \A d \in B : all[d] = ofB[d]
  BY WorthIs
<1>3. /\ Total(A \cup B) = SumFunctionOnSet(all, A \cup B)
      /\ Total(A) = SumFunctionOnSet(ofA, A) /\ Total(B) = SumFunctionOnSet(ofB, B)
  BY DEF Total
<1> HIDE DEF all, ofA, ofB
<1>4. SumFunctionOnSet(all, A \cup B) = SumFunctionOnSet(all, A) + SumFunctionOnSet(all, B)
  BY <1>1, <1>2, SumSplit
<1>5. SumFunctionOnSet(all, A) = SumFunctionOnSet(ofA, A)
  BY <1>1, <1>2, SumEqual
<1>6. SumFunctionOnSet(all, B) = SumFunctionOnSet(ofB, B)
  BY <1>1, <1>2, SumEqual
<1> QED  BY <1>3, <1>4, <1>5, <1>6

(* What the rows of the accounts list sums up to the open pipeline: of the *)
(* sets of rows that did not, take a smallest.                             *)
LEMMA ListedSum ==
  ASSUME NEW w, RecordsOK(w)
  PROVE  SumFunctionOnSet([c \in w.companies |-> ListedPipeline(w, c)], w.companies)
           = Total(OpenDeals(w.deals))
<1> DEFINE listed == [c \in w.companies |-> ListedPipeline(w, c)]
           Under(T) == {d \in OpenDeals(w.deals) : \E c \in T : d.firm = c.firm}
           Wrong == {T \in SUBSET w.companies : SumFunctionOnSet(listed, T) # Total(Under(T))}
<1>1. IsFiniteSet(w.companies)
  BY RecordsFinite
<1>2. \A c \in w.companies : listed[c] = Total(Under({c}))
  <2> SUFFICES ASSUME NEW c \in w.companies PROVE listed[c] = Total(Under({c}))
    OBVIOUS
  <2>1. OpenDeals(DealsOf(w, c)) = Under({c})
    BY DEF OpenDeals, DealsOf
  <2> HIDE DEF Under
  <2> QED  BY <2>1 DEF ListedPipeline
<1>3. \A T : Under(T) \in SUBSET w.deals
  BY DEF OpenDeals
<1>4. \A c \in w.companies : listed[c] \in Nat
  BY <1>2, <1>3, TotalNat
<1>5. ASSUME Wrong # {} PROVE FALSE
  <2>1. PICK T \in Wrong : \A t \in SUBSET T : t # T => t \notin Wrong
    <3>1. Wrong \in SUBSET (SUBSET w.companies)
      OBVIOUS
    <3> HIDE DEF Wrong
    <3> QED  BY <1>1, <1>5, <3>1, SmallestSubset
  <2>2. T \in SUBSET w.companies /\ SumFunctionOnSet(listed, T) # Total(Under(T))
    OBVIOUS
  <2>3. IsFiniteSet(T)
    BY <1>1, <2>2, FS_Subset
  <2>4. CASE T = {}
    <3>1. Under(T) = {}
      BY <2>4
    <3>2. Total({}) = 0
      BY SumEmpty DEF Total
    <3> HIDE DEF listed, Under
    <3> QED  BY <2>2, <2>4, <3>1, <3>2, SumEmpty
  <2>5. CASE T # {}
    <3>1. PICK c \in T : TRUE
      BY <2>5
    <3>2. PICK R : R = T \ {c}
      OBVIOUS
    <3>3. R \in SUBSET T /\ R # T /\ c \in w.companies /\ R \in SUBSET w.companies
      BY <3>1, <3>2, <2>2
    <3>4. SumFunctionOnSet(listed, R) = Total(Under(R))
      BY <2>1, <3>3
    <3>5. SumFunctionOnSet(listed, T) = listed[c] + SumFunctionOnSet(listed, R)
      <4>1. \A o \in T : listed[o] \in Nat
        BY <1>4, <2>2
      <4> HIDE DEF listed
      <4> QED  BY <2>3, <3>1, <3>2, <4>1, SumWithout
    <3>6. Under({c}) \cup Under(R) = Under(T)
      BY <3>1, <3>2
    <3>7. Under({c}) \cap Under(R) = {}
      BY <3>1, <3>2, <2>2 DEF RecordsOK
    <3>8. Total(Under(T)) = Total(Under({c})) + Total(Under(R))
      <4> HIDE DEF Under
      <4> QED  BY <1>3, <3>6, <3>7, TotalSplit
    <3>9. listed[c] = Total(Under({c}))
      BY <1>2, <3>3
    <3> QED  BY <2>2, <3>4, <3>5, <3>8, <3>9
  <2> QED  BY <2>4, <2>5
<1>6. Under(w.companies) = OpenDeals(w.deals)
  BY DEF OpenDeals, RecordsOK
<1>7. SumFunctionOnSet(listed, w.companies) = Total(Under(w.companies))
  BY <1>5
<1> HIDE DEF listed, Under
<1> QED  BY <1>6, <1>7 DEF listed

(* An open deal has an amount or none; the sum of none is nothing.         *)
LEMMA PulseTold ==
  ASSUME NEW w, RecordsOK(w), NEW listed, listed = Total(OpenDeals(w.deals))
  PROVE  /\ Pulse(w) = Capacity(w).demand
         /\ Pulse(w) # Unread => listed = Pulse(w)
         /\ Pulse(w) = Unread => listed = 0
<1> DEFINE open == {d \in w.deals : IsOpen(d) /\ d.value # Unread}
           valued == {d \in OpenDeals(w.deals) : d.value # Unread}
<1>1. valued = open
  BY DEF OpenDeals
<1>2. Pulse(w) = IF open = {} THEN Unread ELSE Total(open)
  BY <1>1 DEF Pulse
<1>3. Capacity(w).demand = Told(PipelineByStage(w))
  BY DEF Capacity
<1>4. /\ Told(PipelineByStage(w)) = IF open = {} THEN Unread ELSE Total(open)
      /\ Total(open) = Total({d \in w.deals : IsOpen(d)})
  BY PipelineTold
<1>5. listed = Total(open)
  BY <1>4 DEF OpenDeals
<1>6. Total(open) \in Nat
  <2>1. open \in SUBSET w.deals
    OBVIOUS
  <2> HIDE DEF open
  <2> QED  BY <2>1, TotalNat
<1>7. open = {} => Total(open) = 0
  <2>1. Total({}) = 0
    BY SumEmpty DEF Total
  <2> HIDE DEF open
  <2> QED  BY <2>1
<1> HIDE DEF open
<1> QED  BY <1>2, <1>3, <1>4, <1>5, <1>6, <1>7, WorldAssumption

LEMMA DealsFollow ==
  ASSUME NEW w, RecordsOK(w), NEW c \in w.companies
  PROVE  /\ DealsOf(w, c) # {} => c.relationship = "customer"
         /\ c.crm => (DealsOf(w, c) = {} <=> c.relationship = "target")
         /\ c \in ProspectRows(w) <=> c.relationship = "target"
         /\ OpenDeals(DealsOf(w, c)) \in SUBSET w.deals
         /\ OpenDeals(DealsOf(w, c)) \subseteq DealsOf(w, c)
<1>1. ASSUME DealsOf(w, c) # {} PROVE c.relationship = "customer"
  <2>1. PICK d \in w.deals : d.firm = c.firm
    BY <1>1 DEF DealsOf
  <2>2. PICK o \in w.companies : o.firm = d.firm /\ o.relationship = "customer"
    BY DEF RecordsOK
  <2>3. o = c
    BY <2>1, <2>2 DEF RecordsOK
  <2> QED  BY <2>2, <2>3
<1>2. ASSUME c.crm, c.relationship = "customer" PROVE DealsOf(w, c) # {}
  <2>1. PICK d \in w.deals : d.firm = c.firm
    BY <1>2 DEF RecordsOK
  <2> QED  BY <2>1 DEF DealsOf
<1>3. c.relationship \in {"target", "customer"}
  BY DEF RecordsOK, CompanyOK
<1>4. c \in ProspectRows(w) <=> c.relationship = "target"
  BY ProspectsAre
<1>5. OpenDeals(DealsOf(w, c)) \in SUBSET w.deals /\ OpenDeals(DealsOf(w, c)) \subseteq DealsOf(w, c)
  BY DEF OpenDeals, DealsOf
<1> QED  BY <1>1, <1>2, <1>3, <1>4, <1>5

LEMMA GapsAre ==
  ASSUME NEW w, NEW c
  PROVE  /\ "no contact" \in Gaps(w, c) <=> ~HasContact(w, c)
         /\ "no pipeline" \in Gaps(w, c) <=> OpenDeals(DealsOf(w, c)) = {}
         /\ ~Fits(c) => "unconfirmed fit" \in Gaps(w, c)
<1> DEFINE missing == {gap \in {"no CAGE match", "no contact", "no pipeline"} :
                         CASE gap = "no CAGE match" -> c.firm \notin Registered
                           [] gap = "no contact" -> ~HasContact(w, c)
                           [] OTHER -> OpenDeals(DealsOf(w, c)) = {}}
<1>1. Gaps(w, c) = missing \cup {gap \in {"unconfirmed fit"} : missing # {} \/ ~Fits(c)}
  BY DEF Gaps
<1>2. "no contact" \in missing <=> ~HasContact(w, c)
  OBVIOUS
<1>3. "no pipeline" \in missing <=> OpenDeals(DealsOf(w, c)) = {}
  OBVIOUS
<1> HIDE DEF missing
<1> QED  BY <1>1, <1>2, <1>3

LEMMA AccountTold ==
  ASSUME NEW w, RecordsOK(w), NEW c \in w.companies
  PROVE  LET told == SaleDossier(w, c).pipeline
             sections == DossierSections(w, c)
         IN /\ told = BusinessContext(w, c).pipeline
            /\ \A pair \in {<<"pipeline", "no pipeline">>, <<"contacts", "no contact">>} :
                 pair[1] \in sections <=> pair[2] \notin Gaps(w, c)
            /\ AccountDetail(w, c).fit = "unqualified" => "unconfirmed fit" \in Gaps(w, c)
            /\ c.crm => (AccountDetail(w, c).deals = {} <=> c.relationship = "target")
            /\ ListedPipeline(w, c) = Explanation(w, c).worth
            /\ told = Unread <=> Explanation(w, c).open = 0
            /\ told # Unread => c \notin ProspectRows(w)
<1> PICK open : open = OpenDeals(DealsOf(w, c))
  OBVIOUS
<1> DEFINE told == SaleDossier(w, c).pipeline
           sections == DossierSections(w, c)
<1>1. told = IF open = {} THEN Unread ELSE Total(open)
  BY DEF SaleDossier
<1>2. told = BusinessContext(w, c).pipeline
  BY DEF SaleDossier, BusinessContext
<1>3. open \in SUBSET w.deals /\ open \subseteq DealsOf(w, c)
  BY DealsFollow
<1>4. Total(open) \in Nat /\ IsFiniteSet(open)
  BY <1>3, TotalNat
<1>5. told = Unread <=> open = {}
  BY <1>1, <1>4, WorldAssumption
<1>6. "pipeline" \in sections <=> "no pipeline" \notin Gaps(w, c)
  <2>1. "pipeline" \in sections <=> told # Unread
    BY DEF DossierSections
  <2> HIDE DEF told, sections
  <2> QED  BY <2>1, <1>5, GapsAre
<1>7. "contacts" \in sections <=> "no contact" \notin Gaps(w, c)
  <2>1. "contacts" \in sections <=> SaleDossier(w, c).contact
    BY DEF DossierSections
  <2>2. SaleDossier(w, c).contact <=> HasContact(w, c)
    BY DEF SaleDossier
  <2> HIDE DEF sections
  <2> QED  BY <2>1, <2>2, GapsAre
<1>8. \A pair \in {<<"pipeline", "no pipeline">>, <<"contacts", "no contact">>} :
        pair[1] \in sections <=> pair[2] \notin Gaps(w, c)
  <2> PICK shown, gaps : shown = sections /\ gaps = Gaps(w, c)
    OBVIOUS
  <2>1. "pipeline" \in shown <=> "no pipeline" \notin gaps
    BY <1>6
  <2>2. "contacts" \in shown <=> "no contact" \notin gaps
    BY <1>7
  <2> HIDE DEF sections
  <2>3. ASSUME NEW pair \in {<<"pipeline", "no pipeline">>, <<"contacts", "no contact">>}
        PROVE  pair[1] \in shown <=> pair[2] \notin gaps
    <3>1. CASE pair = <<"pipeline", "no pipeline">>
      <4>1. pair[1] = "pipeline" /\ pair[2] = "no pipeline"
        BY <3>1
      <4> QED  BY <4>1, <2>1
    <3>2. CASE pair = <<"contacts", "no contact">>
      <4>1. pair[1] = "contacts" /\ pair[2] = "no contact"
        BY <3>2
      <4> QED  BY <4>1, <2>2
    <3> QED  BY <3>1, <3>2
  <2> QED  BY <2>3
<1>9. AccountDetail(w, c).fit = "unqualified" => "unconfirmed fit" \in Gaps(w, c)
  <2>1. AccountDetail(w, c).fit = "unqualified" => ~Fits(c)
    BY DEF AccountDetail
  <2> QED  BY <2>1, GapsAre
<1>10. c.crm => (AccountDetail(w, c).deals = {} <=> c.relationship = "target")
  <2>1. AccountDetail(w, c).deals = DealsOf(w, c)
    BY DEF AccountDetail
  <2> QED  BY <2>1, DealsFollow
<1>11. ListedPipeline(w, c) = Explanation(w, c).worth
  BY DEF ListedPipeline, Explanation
<1>12. Explanation(w, c).open = Cardinality(open)
  BY DEF Explanation
<1>13. Cardinality(open) = 0 <=> open = {}
  BY <1>4, FS_EmptySet
<1>14. told # Unread => c \notin ProspectRows(w)
  <2>1. told # Unread => DealsOf(w, c) # {}
    BY <1>3, <1>5
  <2> HIDE DEF told
  <2> QED  BY <2>1, DealsFollow
<1>15. told = Unread <=> Explanation(w, c).open = 0
  BY <1>5, <1>12, <1>13
<1> HIDE DEF told, sections
<1> QED  BY <1>2, <1>8, <1>9, <1>10, <1>11, <1>14, <1>15 DEF told, sections

LEMMA RowTold ==
  ASSUME NEW w, RecordsOK(w), NEW c \in ProspectRows(w)
  PROVE  /\ Gaps(w, c) # {} /\ Revenue(w, c) = 0
         /\ MapCard(w, c) \in MapCards(w, FALSE)
         /\ NextBestAction(w, c) \in {"draft outreach", "qualify timing"}
              <=> c \in OutreachQueue(w)
<1>1. c \in w.companies /\ DealsOf(w, c) = {}
  BY ProspectsAre, DealsFollow
<1>2. Gaps(w, c) # {}
  BY <1>1, GapsAre DEF OpenDeals
<1>3. Revenue(w, c) = 0
  <2>1. {d \in DealsOf(w, c) : d.stage # "lost"} = {}
    BY <1>1
  <2>2. Total({}) = 0
    BY SumEmpty DEF Total
  <2> QED  BY <2>1, <2>2 DEF Revenue
<1>4. MapCard(w, c) \in MapCards(w, FALSE)
  <2>1. c \in {o \in Prospects(w) :
          FALSE => o.relationship = "target" /\ o \in Markers(w.companies)}
    BY <1>1, ProspectsAre
  <2> QED  BY <2>1 DEF MapCards
<1>5. c \in OutreachQueue(w) <=> HasContact(w, c)
  BY DEF OutreachQueue, HasContact
<1>6. NextBestAction(w, c) \in {"draft outreach", "qualify timing"} <=> HasContact(w, c)
  BY DEF NextBestAction
<1> QED  BY <1>2, <1>3, <1>4, <1>5, <1>6

LEMMA NoRevenue ==
  ASSUME NEW w, RecordsOK(w)
  PROVE  Tiles(w).revenue = 0
<1> DEFINE revenue == [c \in ProspectRows(w) |-> Revenue(w, c)]
<1>1. Tiles(w).revenue = SumFunctionOnSet(revenue, ProspectRows(w))
  BY DEF Tiles
<1>2. \A c \in ProspectRows(w) : revenue[c] = 0
  <2> SUFFICES ASSUME NEW c \in ProspectRows(w) PROVE Revenue(w, c) = 0
    OBVIOUS
  <2> QED  BY RowTold
<1>3. IsFiniteSet(ProspectRows(w))
  <2>1. ProspectRows(w) \subseteq w.companies
    BY DEF ProspectRows
  <2> QED  BY <2>1, RecordsFinite, FS_Subset
<1> HIDE DEF revenue
<1> QED  BY <1>1, <1>2, <1>3, SumNothing

LEMMA CardsDrawn ==
  ASSUME NEW w, RecordsOK(w)
  PROVE  {c.firm : c \in MapRail(w, TRUE).drawn} = {card.firm : card \in MapCards(w, TRUE)}
<1> PICK drawn : drawn = {c \in w.companies : c.relationship = "target" /\ c.located}
  OBVIOUS
<1>1. MapRail(w, TRUE).drawn = drawn
  BY ProspectsAre DEF MapRail, Markers
<1>2. {c \in Prospects(w) : TRUE => c.relationship = "target" /\ c \in Markers(w.companies)} = drawn
  BY ProspectsAre DEF Markers
<1>3. MapCards(w, TRUE) = {MapCard(w, c) : c \in drawn}
  BY <1>2 DEF MapCards
<1>4. \A c : MapCard(w, c).firm = c.firm
  BY DEF MapCard
<1>5. ASSUME NEW c \in drawn PROVE c.firm \in {card.firm : card \in MapCards(w, TRUE)}
  <2>1. MapCard(w, c) \in MapCards(w, TRUE)
    BY <1>3
  <2> QED  BY <2>1, <1>4
<1>6. ASSUME NEW card \in MapCards(w, TRUE) PROVE card.firm \in {c.firm : c \in drawn}
  <2>1. PICK c \in drawn : card = MapCard(w, c)
    BY <1>3
  <2> QED  BY <2>1, <1>4
<1> QED  BY <1>1, <1>5, <1>6

LEMMA CrmConnected ==
  ASSUME NEW w, SourcesOK(w)
  PROVE  {s.id : s \in {s \in CrmSource(w) : s.data = "live_external"}}
           = {r.id : r \in ProductionView(w).connected} \cap {s.id : s \in CrmSource(w)}
<1> PICK crm, connected : crm = CrmSource(w) /\ connected = ProductionView(w).connected
  OBVIOUS
<1>1. connected = {r \in {Integration(s) : s \in w.sources} : r.status = "connected"}
  BY DEF ProductionView, OperatingView
<1>2. ASSUME NEW s
      PROVE  /\ Integration(s).id = s.id
             /\ Integration(s).status = "connected" <=> s.availability = "available"
  BY DEF Integration
<1>3. crm = {s \in w.sources : s.id \in {"hubspot", "hubspot-demo"}}
  BY DEF CrmSource, SourceOfKind
<1>4. \A s \in crm : s.data = "live_external" <=> s.availability = "available"
  BY SourcesTell
<1>5. ASSUME NEW s \in crm, s.data = "live_external"
      PROVE  s.id \in {r.id : r \in connected}
  <2>1. PICK r : r = Integration(s)
    OBVIOUS
  <2>2. r.id = s.id /\ r.status = "connected"
    BY <2>1, <1>2, <1>4, <1>5
  <2>3. r \in {Integration(o) : o \in w.sources}
    BY <2>1, <1>3
  <2>4. r \in connected
    BY <1>1, <2>2, <2>3
  <2> QED  BY <2>2, <2>4
<1>6. ASSUME NEW r \in connected, NEW s \in crm, r.id = s.id
      PROVE  \E o \in crm : o.data = "live_external" /\ o.id = r.id
  <2>1. PICK o \in w.sources : r = Integration(o) /\ r.status = "connected"
    BY <1>1
  <2>2. o.id = r.id /\ o.availability = "available"
    <3>1. Integration(o).id = o.id /\ (Integration(o).status = "connected" <=> o.availability = "available")
      BY <1>2
    <3> QED  BY <2>1, <3>1
  <2>3. o \in crm
    BY <2>2, <1>6, <1>3
  <2> QED  BY <2>2, <2>3, <1>4
<1>7. {s.id : s \in {s \in crm : s.data = "live_external"}}
        \subseteq {r.id : r \in connected} \cap {s.id : s \in crm}
  BY <1>5
<1>8. {r.id : r \in connected} \cap {s.id : s \in crm}
        \subseteq {s.id : s \in {s \in crm : s.data = "live_external"}}
  BY <1>6
<1> QED  BY <1>7, <1>8

LEMMA MonitorOk ==
  ASSUME output.reads \in Outputs
  PROVE  PlatformHealth.monitor = "ok" <=> MonitorHealth(output.reads).availability = "available"
<1> PICK reads : reads = output.reads
  OBVIOUS
<1>1. reads \in {"missing", "broken", "undated", "fresh", "stale"}
  BY DEF Outputs
<1>2. MonitorArtifactHealth(reads) = "ok" <=> reads = "fresh"
  BY <1>1 DEF MonitorArtifactHealth
<1>3. MonitorHealth(reads).availability = "available" <=> reads = "fresh"
  BY <1>1 DEF MonitorHealth, Source
<1>4. PlatformHealth.monitor = MonitorArtifactHealth(output.reads)
  BY DEF PlatformHealth
<1> QED  BY <1>2, <1>3, <1>4

LEMMA SignalsCounted ==
  ASSUME WorldInv, NEW w, w = Shown(town)
  PROVE  /\ BuyingSignals(w) \subseteq Programs(w).cards
         /\ Programs(w).headline <= OperatingView(w).signals
<1>1. BuyingSignals(w) \subseteq w.valid
  BY DEF BuyingSignals, SignalsOf
<1>2. Programs(w).cards = w.valid /\ Programs(w).headline = Cardinality(w.valid)
  BY DEF Programs
<1>3. OperatingView(w).signals = IF page = Unread THEN 0 ELSE Cardinality(page.signals)
  BY DEF OperatingView
<1>4. Cardinality(w.valid) <= OperatingView(w).signals
  <2>1. CASE page = Unread
    <3>1. w.valid = {}
      BY <2>1 DEF Shown
    <3> QED  BY <2>1, <3>1, <1>3, FS_EmptySet
  <2>2. CASE page # Unread
    <3>1. w.valid \subseteq page.signals
      BY <2>2 DEF Shown
    <3>2. page.signals \subseteq Stories
      BY <2>2 DEF WorldInv
    <3>3. IsFiniteSet(page.signals)
      BY <3>2, FS_Subset, WorldAssumption
    <3>4. Cardinality(w.valid) <= Cardinality(page.signals)
      BY <3>1, <3>3, FS_Subset
    <3> QED  BY <2>2, <3>4, <1>3
  <2> QED  BY <2>1, <2>2
<1> QED  BY <1>1, <1>2, <1>4

LEMMA PagesTold == WorldInv => PagesAgree
<1> SUFFICES ASSUME WorldInv PROVE PagesAgree
  OBVIOUS
<1> PICK w : w = Shown(town)
  OBVIOUS
<1> DEFINE prospects == ProspectRows(w)
           production == ProductionView(w)
           crm == CrmSource(w)
           listed == SumFunctionOnSet([c \in AccountRows(w) |-> ListedPipeline(w, c)], AccountRows(w))
<1>1. ShownOK(w)
  BY ShownFrom
<1>2. /\ RecordsOK(w) /\ SourcesOK(w) /\ w.valid \subseteq Stories
      /\ \A s \in w.sources : s.availability \in {"error", "unavailable"} => s.id \in w.errors
  BY <1>1 DEF ShownOK
<1>3. AccountRows(w) = w.companies
  BY DEF AccountRows
<1>4. listed = Total(OpenDeals(w.deals))
  BY <1>2, <1>3, ListedSum
<1>5. OperatingView(w).pipeline >= listed
  <2>1. OperatingView(w).pipeline = Total(w.deals)
    BY DEF OperatingView
  <2>2. OpenDeals(w.deals) \in SUBSET w.deals /\ w.deals \in SUBSET w.deals
    BY DEF OpenDeals
  <2>3. Total(OpenDeals(w.deals)) \in Nat /\ Total(w.deals) \in Nat
        /\ Total(OpenDeals(w.deals)) <= Total(w.deals)
    BY <1>2, <2>2, TotalNat
  <2> HIDE DEF listed
  <2> QED  BY <1>4, <2>1, <2>3
<1>6. /\ Pulse(w) = Capacity(w).demand
      /\ Pulse(w) # Unread => listed = Pulse(w)
      /\ Pulse(w) = Unread => listed = 0
  <2> HIDE DEF listed
  <2> QED  BY <1>2, <1>4, PulseTold
<1>7. \A c \in AccountRows(w) :
        LET told == SaleDossier(w, c).pipeline
            sections == DossierSections(w, c)
        IN /\ told = BusinessContext(w, c).pipeline
           /\ \A pair \in {<<"pipeline", "no pipeline">>, <<"contacts", "no contact">>} :
                pair[1] \in sections <=> pair[2] \notin Gaps(w, c)
           /\ AccountDetail(w, c).fit = "unqualified" => "unconfirmed fit" \in Gaps(w, c)
           /\ c.crm => (AccountDetail(w, c).deals = {} <=> c.relationship = "target")
           /\ ListedPipeline(w, c) = Explanation(w, c).worth
           /\ told = Unread <=> Explanation(w, c).open = 0
           /\ told # Unread => c \notin prospects
  BY <1>2, <1>3, AccountTold, Zenon
<1>8. \A c \in prospects :
        /\ Gaps(w, c) # {} /\ Revenue(w, c) = 0
        /\ MapCard(w, c) \in MapCards(w, FALSE)
        /\ NextBestAction(w, c) \in {"draft outreach", "qualify timing"}
             <=> c \in OutreachQueue(w)
  BY <1>2, RowTold, Zenon
<1>9. Leads(w) = {} <=> prospects = {}
  BY <1>2, SomeoneLeads
<1>10. {c.firm : c \in MapRail(w, TRUE).drawn} = {card.firm : card \in MapCards(w, TRUE)}
  BY <1>2, CardsDrawn
<1>11. Tiles(w).revenue = 0 /\ Tiles(w).targets = Cardinality(prospects)
  <2>1. Tiles(w).targets = Cardinality(prospects)
    BY DEF Tiles
  <2> QED  BY <1>2, <2>1, NoRevenue
<1>12. Developments(w).market = Programs(w).cards
  BY DEF Developments, Programs
<1>13. /\ BuyingSignals(w) \subseteq Programs(w).cards
       /\ Programs(w).headline <= OperatingView(w).signals
  BY SignalsCounted
<1>14. ~HasAnalytics(w)
  BY DEF HasAnalytics, TableMetric, Figure
<1>15. {s.id : s \in {s \in crm : s.data = "live_external"}}
         = {r.id : r \in production.connected} \cap {s.id : s \in crm}
  BY <1>2, CrmConnected
<1>16. EmptyPage(w) = "no records" => \A s \in crm : s.data # "unavailable"
  <2>1. EmptyPage(w) = "no records" => w.errors = {}
    BY DEF EmptyPage
  <2>2. crm \subseteq w.sources
    BY DEF CrmSource, SourceOfKind
  <2>3. \A s \in crm : s.data = "unavailable" => s.availability = "error"
    BY <1>2, SourcesTell
  <2> HIDE DEF crm
  <2> QED  BY <1>2, <2>1, <2>2, <2>3
<1>17. PlatformHealth.monitor = "ok" <=> MonitorHealth(output.reads).availability = "available"
  BY MonitorOk DEF WorldInv
<1> HIDE DEF prospects, production, crm, listed
<1> QED
  BY <1>5, <1>6, <1>7, <1>8, <1>9, <1>10, <1>11, <1>12, <1>13, <1>14, <1>15, <1>16, <1>17, Zenon
  DEF PagesAgree, prospects, production, crm, listed

(* The badges of the navigation, the accounts that are kept while HubSpot  *)
(* cannot be read, and what every page tells of the same snapshot, agree   *)
(* whatever the firms, the stories and the order in which HubSpot, the     *)
(* monitor and the polls of the page take their turns.                     *)
THEOREM WorldAlwaysAgrees == WorldSpec => [](NumbersAgree /\ AccountsKept /\ PagesAgree)
<1>1. WorldInit => WorldInv
  BY WorldBegins
<1>2. WorldInv /\ [WorldNext]_worldVars => WorldInv'
  BY WorldGoesOn
<1>3. WorldInv => NumbersAgree /\ AccountsKept /\ PagesAgree
  BY NumbersTold, AccountsHeld, PagesTold
<1> QED  BY <1>1, <1>2, <1>3, PTL DEF WorldSpec
-----------------------------------------------------------------------------
(* The surfaces together.  What an action of one surface leaves alone, the *)
(* others still have; so each of them goes on by its own specification.    *)
THEOREM WorkplaceSurfaces == WorkplaceSpec => DeskSpec /\ FeedSpec /\ DraftSpec /\ WorldSpec
<1>1. WorkplaceInit => DeskInit /\ FeedInit /\ DraftInit /\ WorldInit
  BY DEF WorkplaceInit
<1>2. ASSUME [WorkplaceNext]_workplaceVars
      PROVE  /\ [DeskNext]_deskVars /\ [FeedNext]_feedVars
             /\ [DraftNext]_draftVars /\ [WorldNext]_worldVars
  BY <1>2 DEF WorkplaceNext, SettingsStep, FeedStep, DraftStep, DeskStep, WorldStep, workplaceVars
<1> QED
  BY <1>1, <1>2, PTL DEF WorkplaceSpec, DeskSpec, FeedSpec, DraftSpec, WorldSpec

(* In a session of whatever surface the task is the one that was offered,  *)
(* the counters lead to what they count, scores and documents are told,    *)
(* and the pages agree on what they tell of the world.                     *)
THEOREM WorkplaceHolds ==
  WorkplaceSpec => [](TaskAsOffered /\ CountersLead /\ ScoredIsTold /\ DraftTold /\ WorldTold)
<1>1. NumbersAgree /\ AccountsKept /\ PagesAgree => WorldTold
  BY DEF WorldTold
<1> QED
  BY <1>1, WorkplaceSurfaces, TaskAlwaysAsOffered, CountersAlwaysLead, ScoredAlwaysTold,
     DraftAlwaysTold, WorldAlwaysAgrees, PTL

(* And no step of such a session lets more evidence tell against itself,   *)
(* or applies the scores of a document that is not the one shown.          *)
THEOREM WorkplaceSteps == WorkplaceSpec => MoreNeverLess /\ AppliedIsShown
BY WorkplaceSurfaces, WorkplaceSettings, MoreIsNeverLess, AppliedAlwaysShown, PTL
=============================================================================
