--------------------------- MODULE DeliverableEditor ---------------------------
(***************************************************************************)
(* One deliverable, from the wizard that generates it to the editor that   *)
(* changes it (frontend/src/ui/deliverables), its copy in localStorage     *)
(* (memory/localMemory.ts) and its record in the backend                   *)
(* (app/deliverablesApi.ts, POST and PATCH /deliverables).                 *)
(*                                                                         *)
(* A text is a number, in the order of making, and stands for the first    *)
(* text block of the document.  The editor shows the local copy as soon as *)
(* there is one, and starts over, on what it holds, whenever that copy     *)
(* changes: on each save, and on each answer to a save.                    *)
(***************************************************************************)
EXTENDS Naturals, Sequences, SequencesExt, FiniteSets

CONSTANTS
  MaxTexts,     \* bound on the texts that are made
  MaxSteps,     \* bound on what the user does
  MaxVersions   \* 20 in rememberVersion

VARIABLES
  local,        \* the copy in localStorage
  records,      \* the documents of the backend's records
  wizard,       \* the wizard
  viewer,       \* the editor
  saves,        \* saves that are not answered yet
  backend,      \* hasDeliverablesBackend
  plain,        \* the block of index 0 is the text block
  made,         \* texts made so far
  steps,        \* what the user has done so far
  latest,       \* history: the last text that the user put into the editor
  excuse,       \* history: why that text may be gone
  extra,        \* history: records that a lost answer or a race explains
  failed,       \* history: the last answer to a save was a failure
  crossed       \* history: a save began before another was answered

docVars == <<local, records, wizard, viewer, saves>>
ghostVars == <<latest, excuse, extra, failed, crossed>>
editorVars == <<docVars, backend, plain, made, steps, ghostVars>>

Text == 1..MaxTexts

(* record is backendRecordId, 0 when there is none.                        *)
Absent == [text |-> 0, record |-> 0]

NoWizard == [step |-> "closed", text |-> 0, record |-> 0]

NoViewer == [open |-> FALSE, number |-> 0, text |-> 0, record |-> 0,
             dirty |-> FALSE, busy |-> "no", versions |-> <<>>,
             suggestions |-> {}]

(* A deliverable that is yet to be made, one that is saved here only, one  *)
(* that is saved here and in the backend, and one in the backend only.     *)
EditorInit ==
  /\ backend \in BOOLEAN
  /\ \/ local = Absent /\ records = <<>> /\ made = 0
     \/ local = [text |-> 1, record |-> 0] /\ records = <<>> /\ made = 1
     \/ backend /\ local = [text |-> 1, record |-> 1] /\ records = <<1>> /\ made = 1
     \/ backend /\ local = Absent /\ records = <<1>> /\ made = 1
  /\ wizard = [NoWizard EXCEPT !.step = IF made = 0 THEN "draft" ELSE "closed"]
  /\ viewer = NoViewer
  /\ saves = {}
  /\ plain \in BOOLEAN
  /\ steps = 0
  /\ latest = 0 /\ excuse = FALSE /\ extra = 0
  /\ failed = FALSE /\ crossed = FALSE

Step == steps < MaxSteps /\ steps' = steps + 1

Make == made < MaxTexts /\ made' = made + 1
-----------------------------------------------------------------------------
(* The state of a viewer that mounts, and of one whose deliverable has     *)
(* changed: the effect on deliverable.sections.                            *)
Reset(v, copy) ==
  [v EXCEPT !.text = copy.text, !.record = copy.record, !.dirty = FALSE,
            !.versions = <<copy.text>>, !.suggestions = {}]

Mounted(copy) ==
  [Reset(NoViewer, copy) EXCEPT !.open = TRUE, !.number = viewer.number + 1]

Unmounted == [NoViewer EXCEPT !.number = viewer.number]

(* saveDeliverable of localMemory: an open editor sees the new copy.       *)
KeepLocally(v, copy) ==
  /\ local' = copy
  /\ viewer' = IF v.open THEN Reset(v, copy) ELSE v

Outstanding == {s \in saves : s.record = 0}

(* saveStoredDeliverable: PATCH when the copy names its record, else POST. *)
SendSave(by, copy) ==
  /\ saves' = IF ~backend THEN saves
              ELSE saves \cup {[by |-> by, number |-> viewer.number,
                                text |-> copy.text, record |-> copy.record,
                                phase |-> "sent", got |-> 0]}
  /\ extra' = IF copy.record = 0 /\ Outstanding # {} THEN extra + 1 ELSE extra
  /\ crossed' = (saves # {})

-----------------------------------------------------------------------------
(* The wizard.  Its close button is never disabled.                        *)
GeneratePreview ==
  /\ Step
  /\ wizard.step \in {"draft", "preview"}
  /\ wizard' = [wizard EXCEPT !.step = "generating"]
  /\ UNCHANGED <<local, records, viewer, saves, backend, plain, made, ghostVars>>

Generated(ok) ==
  /\ wizard.step = "generating"
  /\ IF ok THEN Make /\ wizard' = [wizard EXCEPT !.step = "preview", !.text = made']
     ELSE wizard' = [wizard EXCEPT !.step = "draft"] /\ UNCHANGED made
  /\ UNCHANGED <<local, records, viewer, saves, backend, plain, steps, ghostVars>>

SaveToLibrary ==
  /\ Step
  /\ wizard.step = "preview"
  /\ LET copy == [text |-> wizard.text, record |-> 0]
     IN KeepLocally(viewer, copy) /\ SendSave("wizard", copy)
  /\ wizard' = [wizard EXCEPT !.step = IF backend THEN "saving" ELSE "saved"]
  /\ latest' = wizard.text /\ excuse' = FALSE
  /\ UNCHANGED <<records, backend, plain, made, failed>>

CloseWizard ==
  /\ Step
  /\ wizard.step # "closed"
  /\ wizard' = NoWizard
  /\ UNCHANGED <<local, records, viewer, saves, backend, plain, made, ghostVars>>

(* openInEditor.                                                           *)
OpenInEditor ==
  /\ Step
  /\ wizard.step = "saved"
  /\ viewer' = Mounted(local)
  /\ wizard' = NoWizard
  /\ UNCHANGED <<local, records, saves, backend, plain, made, ghostVars>>
-----------------------------------------------------------------------------
(* From the library; RoutedDocumentViewer prefers the local copy to the    *)
(* record, and fetches the record when there is none.                      *)
OpenViewer ==
  /\ Step
  /\ ~viewer.open /\ wizard.step = "closed"
  /\ local # Absent \/ records # <<>>
  /\ viewer' = Mounted(IF local # Absent THEN local
                       ELSE [text |-> records[1], record |-> 1])
  /\ UNCHANGED <<local, records, wizard, saves, backend, plain, made, ghostVars>>

(* rememberVersion keeps the last ones.                                    *)
Remember(versions, text) ==
  LET all == Append(versions, text)
  IN IF Len(all) <= MaxVersions THEN all
     ELSE SubSeq(all, Len(all) - MaxVersions + 1, Len(all))

(* What the user puts into the editor; a save that is answered later       *)
(* starts the editor over without it.                                      *)
Put(text) ==
  /\ latest' = text
  /\ excuse' = (saves # {})
  /\ UNCHANGED <<extra, failed, crossed>>

(* updateText.                                                             *)
UpdateText ==
  /\ Step /\ Make
  /\ viewer.open
  /\ viewer' = [viewer EXCEPT !.text = made', !.dirty = TRUE,
                              !.versions = Remember(@, made')]
  /\ Put(made')
  /\ UNCHANGED <<local, records, wizard, saves, backend, plain>>

(* A click in the version history.                                         *)
RestoreVersion(k) ==
  /\ Step
  /\ viewer.open
  /\ viewer' = [viewer EXCEPT !.text = viewer.versions[k], !.dirty = TRUE]
  /\ Put(viewer.versions[k])
  /\ UNCHANGED <<local, records, wizard, saves, backend, plain, made>>

(* requestSuggestion and download hold the editor's busyAction.            *)
Begin(action) ==
  /\ Step
  /\ viewer.open /\ viewer.busy = "no"
  /\ viewer' = [viewer EXCEPT !.busy = action]
  /\ UNCHANGED <<local, records, wizard, saves, backend, plain, made, ghostVars>>

(* A suggestion with a warning cannot be accepted.                         *)
Suggested(warning) ==
  /\ Make
  /\ viewer.busy = "suggestion"
  /\ viewer' = [viewer EXCEPT !.busy = "no",
       !.suggestions = @ \cup {[text |-> made', warning |-> warning]}]
  /\ UNCHANGED <<local, records, wizard, saves, backend, plain, steps, ghostVars>>

Downloaded ==
  /\ viewer.busy = "download"
  /\ viewer' = [viewer EXCEPT !.busy = "no"]
  /\ UNCHANGED <<local, records, wizard, saves, backend, plain, made, steps, ghostVars>>

(* applySuggestion writes the block of index 0, if that is a text block.   *)
ApplySuggestion(s) ==
  /\ Step
  /\ s \in viewer.suggestions /\ ~s.warning
  /\ LET text == IF plain THEN s.text ELSE viewer.text
     IN /\ viewer' = [viewer EXCEPT !.text = text, !.dirty = TRUE,
                        !.versions = Remember(@, text),
                        !.suggestions = @ \ {s}]
        /\ Put(text)
  /\ UNCHANGED <<local, records, wizard, saves, backend, plain, made>>

Discard(s) ==
  /\ Step
  /\ s \in viewer.suggestions
  /\ viewer' = [viewer EXCEPT !.suggestions = @ \ {s}]
  /\ UNCHANGED <<local, records, wizard, saves, backend, plain, made, ghostVars>>

(* saveCurrent: the local copy first.                                      *)
SaveCurrent ==
  /\ Step
  /\ viewer.open /\ viewer.busy = "no"
  /\ LET copy == [text |-> viewer.text, record |-> viewer.record]
     IN /\ KeepLocally([viewer EXCEPT !.busy = IF backend THEN "save" ELSE "no"], copy)
        /\ SendSave("viewer", copy)
  /\ excuse' = (excuse \/ saves # {})
  /\ UNCHANGED <<records, wizard, backend, plain, made, latest, failed>>

Unsaved == viewer.dirty /\ viewer.text = latest

(* Mutant: the editor closes, and saves nothing, when it is not asked to.  *)
CloseEditorFirst(choice) ==
  /\ Step
  /\ viewer.open
  /\ choice => viewer.dirty
  /\ viewer' = Unmounted
  /\ excuse' = (excuse \/ (~choice /\ Unsaved))
  /\ UNCHANGED <<local, saves, extra, crossed>>
  /\ UNCHANGED <<records, wizard, backend, plain, made, latest, failed>>

(* Mutant: the answer yes keeps the text here, and sends it nowhere.       *)
CloseEditorLocally(choice) ==
  /\ Step
  /\ viewer.open
  /\ choice => viewer.dirty
  /\ IF choice /\ viewer.busy = "no"
     THEN /\ KeepLocally(Unmounted, [text |-> viewer.text, record |-> viewer.record])
          /\ excuse' = (excuse \/ saves # {})
     ELSE /\ viewer' = Unmounted
          /\ excuse' = (excuse \/ Unsaved)
          /\ UNCHANGED local
  /\ UNCHANGED <<records, wizard, saves, backend, plain, made, latest, extra,
                 failed, crossed>>

(* closeEditor asks when the editor is dirty: the answer yes saves, unless *)
(* the editor is busy, and the editor closes all the same.                 *)
CloseEditor(choice) ==
  /\ Step
  /\ viewer.open
  /\ choice => viewer.dirty
  /\ IF choice /\ viewer.busy = "no"
     THEN LET copy == [text |-> viewer.text, record |-> viewer.record]
          IN /\ KeepLocally(Unmounted, copy)
             /\ SendSave("viewer", copy)
             /\ excuse' = (excuse \/ saves # {})
     ELSE /\ viewer' = Unmounted
          /\ excuse' = (excuse \/ Unsaved)
          /\ UNCHANGED <<local, saves, extra, crossed>>
  /\ UNCHANGED <<records, wizard, backend, plain, made, latest, failed>>

(* Escape, which App takes for a way back to the library, does not ask.    *)
Escape ==
  /\ Step
  /\ viewer.open
  /\ viewer' = Unmounted
  /\ excuse' = (excuse \/ Unsaved)
  /\ UNCHANGED <<local, records, wizard, saves, backend, plain, made, latest,
                 extra, failed, crossed>>
-----------------------------------------------------------------------------
(* create_deliverable and patch_deliverable.                               *)
ServeSave(s) ==
  /\ s \in saves /\ s.phase = "sent"
  /\ records' = IF s.record = 0 THEN Append(records, s.text)
                ELSE [records EXCEPT ![s.record] = s.text]
  /\ saves' = (saves \ {s}) \cup {[s EXCEPT !.phase = "served",
       !.got = IF s.record = 0 THEN Len(records) + 1 ELSE s.record]}
  /\ UNCHANGED <<local, wizard, viewer, backend, plain, made, steps, ghostVars>>

(* The wizard that sent the save, if it is still there.                    *)
WizardSaved(s, record) ==
  wizard' = IF s.by = "wizard" /\ wizard.step = "saving"
            THEN [wizard EXCEPT !.step = "saved", !.record = record]
            ELSE wizard

(* setBusyAction(null), in the editor that sent the save.                  *)
Released(s) ==
  IF s.by = "viewer" /\ viewer.open /\ viewer.number = s.number
  THEN [viewer EXCEPT !.busy = "no"] ELSE viewer

(* The persisted document is kept locally, so that an open editor starts   *)
(* over; the editor that has got a record goes to its address, even when   *)
(* the user has left it.                                                   *)
SaveAnswered(s) ==
  /\ s \in saves /\ s.phase = "served"
  /\ LET copy == [text |-> s.text, record |-> s.got]
     IN IF s.by = "viewer" /\ s.record = 0
        THEN local' = copy /\ viewer' = Mounted(copy)
        ELSE KeepLocally(Released(s), copy)
  /\ WizardSaved(s, s.got)
  /\ saves' = saves \ {s}
  /\ failed' = FALSE
  /\ UNCHANGED <<records, backend, plain, made, steps, latest, excuse, extra,
                 crossed>>

(* The request or its answer is lost, or the backend refuses.              *)
SaveFailed(s) ==
  /\ s \in saves
  /\ viewer' = Released(s)
  /\ WizardSaved(s, 0)
  /\ saves' = saves \ {s}
  /\ extra' = IF s.phase = "served" /\ s.record = 0 THEN extra + 1 ELSE extra
  /\ failed' = TRUE
  /\ UNCHANGED <<local, records, backend, plain, made, steps, latest, excuse,
                 crossed>>
-----------------------------------------------------------------------------
WizardNext ==
  \/ GeneratePreview \/ SaveToLibrary \/ CloseWizard \/ OpenInEditor
  \/ \E ok \in BOOLEAN : Generated(ok)

ViewerNext ==
  \/ OpenViewer \/ UpdateText \/ SaveCurrent \/ Downloaded \/ Escape
  \/ \E k \in DOMAIN viewer.versions : RestoreVersion(k)
  \/ \E action \in {"suggestion", "download"} : Begin(action)
  \/ \E warning \in BOOLEAN : Suggested(warning)
  \/ \E s \in viewer.suggestions : ApplySuggestion(s) \/ Discard(s)
  \/ \E choice \in BOOLEAN : CloseEditor(choice)

SaveNext ==
  \E s \in saves : ServeSave(s) \/ SaveAnswered(s) \/ SaveFailed(s)

EditorNext == WizardNext \/ ViewerNext \/ SaveNext

EditorSpec == EditorInit /\ [][EditorNext]_editorVars
-----------------------------------------------------------------------------
(* What the user put into the editor last is on the screen, or in the      *)
(* local copy once the editor is closed, unless it was put there before a  *)
(* save was answered, or the editor was left without saving it: by choice, *)
(* by Escape, or busy, when closeEditor's save does nothing.               *)
EditsKept ==
  latest # 0 /\ ~excuse
    => latest = IF viewer.open THEN viewer.text ELSE local.text

(* A deliverable has one record, and one more at the most for each POST    *)
(* whose answer was lost or that began before another was answered.        *)
OneRecord == Len(records) <= 1 + extra

(* The user's last words are kept, and in one record (DocumentViewer.tsx). *)
EditsSafe == EditsKept /\ OneRecord

(* With every save answered, and the last one well, the record holds what  *)
(* the local copy does, unless two saves crossed.                          *)
CopiesAgree ==
  saves = {} /\ ~failed /\ ~crossed /\ local.record # 0
    => records[local.record] = local.text
=============================================================================
