------------------------------ MODULE CrmWrites ------------------------------
(***************************************************************************)
(* The two ways in which a user of the cockpit writes to HubSpot without a *)
(* work item: the panel of one account                                     *)
(* (frontend/src/ui/actions/CrmWriteActions.tsx), and the import of a list *)
(* (frontend/src/ui/prospecting/ImportListModal.tsx); and the handlers     *)
(* that they call (POST /crm/import/prospects and /crm/task of             *)
(* btx_platform/api.py), whose memory of idempotency keys is a dictionary  *)
(* of the process.                                                         *)
(*                                                                         *)
(* The panel sends a key that its form determines: one key stands for each *)
(* of its two forms.  The import sends none.                               *)
(***************************************************************************)
EXTENDS Naturals, FiniteSets

CONSTANTS
  ListRows,     \* the rows of a list
  MaxRequests,  \* bound on what is confirmed
  MaxMishaps    \* bound on refreshes, remounts, losses and restarts

VARIABLES
  panel,      \* the panel of the account
  list,       \* the modal of the import
  requests,   \* requests that are not answered yet
  cache,      \* app.state.crm_list_idempotency
  created,    \* how many records of each key HubSpot holds
  imported,   \* the rows that HubSpot has taken of the push that is awaited
  confirmed,  \* requests so far
  mishaps,    \* mishaps so far
  explained,     \* history: mishaps that explain a second record of a key
  untold,     \* history: rows that HubSpot took without saying so
  edited,     \* history: the list was changed after it was confirmed
  ticked      \* history: duplicates that the user chose, or that came later

crmVars == <<panel, list, requests, cache, created, imported, confirmed,
             mishaps, explained, untold, edited, ticked>>

Keys == {"company", "task"}

Classes == {"new", "duplicate", "missing"}

NoList == [step |-> "upload", class |-> [r \in ListRows |-> "new"], excluded |-> {},
           pushing |-> FALSE, answer |-> [r \in ListRows |-> "failed"]]

CrmInit ==
  /\ panel \in [mode : {"closed"}, busy : {FALSE}, result : {"none"},
                writable : BOOLEAN]
  /\ list = NoList
  /\ requests = {}
  /\ cache = [k \in Keys |-> "none"]
  /\ created = [k \in Keys |-> 0]
  /\ imported = {}
  /\ confirmed = 0 /\ mishaps = 0
  /\ explained = [k \in Keys |-> 0]
  /\ untold = {} /\ edited = FALSE /\ ticked = {}

Mishap == mishaps < MaxMishaps /\ mishaps' = mishaps + 1

NewRequest(key, rows) ==
  /\ confirmed < MaxRequests
  /\ confirmed' = confirmed + 1
  /\ requests' = requests \cup
       {[n |-> CHOOSE n \in 1..MaxRequests : \A q \in requests : q.n # n,
         key |-> key, rows |-> rows, phase |-> "sent", heard |-> TRUE,
         ok |-> FALSE, told |-> {}]}

backendVars == <<cache, created, imported>>
historyVars == <<explained, untold, edited, ticked>>
-----------------------------------------------------------------------------
(* The panel.  Both forms are open to a user whatever the source says.     *)
OpenForm(key) ==
  /\ panel' = [panel EXCEPT !.mode = key]
  /\ UNCHANGED <<list, requests, backendVars, confirmed, mishaps, historyVars>>

(* Preview, and Back to edit and Cancel.                                   *)
Preview(key) ==
  /\ panel.mode = key
  /\ panel' = [panel EXCEPT !.mode = IF key = "company" THEN "company_preview"
                                     ELSE "task_preview"]
  /\ UNCHANGED <<list, requests, backendVars, confirmed, mishaps, historyVars>>

CloseForm ==
  /\ panel.mode \in Keys
  /\ panel' = [panel EXCEPT !.mode = "closed"]
  /\ UNCHANGED <<list, requests, backendVars, confirmed, mishaps, historyVars>>

(* Mutant: the submission lock is not asked for.                           *)
ConfirmUnlocked(key) ==
  /\ panel.mode = (IF key = "company" THEN "company_preview" ELSE "task_preview")
  /\ panel.writable
  /\ NewRequest(key, {})
  /\ panel' = [panel EXCEPT !.busy = TRUE, !.result = "none"]
  /\ UNCHANGED <<list, backendVars, mishaps, historyVars>>

(* confirmCompany, confirmTask: the lock and busyAction are one.           *)
Confirm(key) ==
  /\ panel.mode = (IF key = "company" THEN "company_preview" ELSE "task_preview")
  /\ panel.writable /\ ~panel.busy
  /\ NewRequest(key, {})
  /\ panel' = [panel EXCEPT !.busy = TRUE, !.result = "none"]
  /\ UNCHANGED <<list, backendVars, mishaps, historyVars>>

(* An answer to an older request of the panel opens whatever lock is the   *)
(* current one, so that either form may go out twice.                      *)
Excused ==
  [k \in Keys |-> IF \E q \in requests : q.key \in Keys THEN explained[k] + 1 ELSE explained[k]]

(* Each snapshot of the world is new objects, so that the effect starts    *)
(* the panel over, with a new lock.                                        *)
RefreshPanel ==
  /\ Mishap
  /\ \E writable \in BOOLEAN :
       panel' = [panel EXCEPT !.mode = "closed", !.busy = FALSE,
                              !.result = "none", !.writable = writable]
  /\ explained' = Excused
  /\ UNCHANGED <<list, requests, backendVars, confirmed, untold, edited, ticked>>

(* The user goes to another account, and comes back.                       *)
Remount ==
  /\ Mishap
  /\ panel' = [panel EXCEPT !.mode = "closed", !.busy = FALSE, !.result = "none"]
  /\ requests' = {[q EXCEPT !.heard = FALSE] : q \in requests}
  /\ explained' = Excused
  /\ UNCHANGED <<list, backendVars, confirmed, untold, edited, ticked>>
-----------------------------------------------------------------------------
(* A snapshot of the world classifies the list again.                      *)
RefreshList ==
  /\ Mishap
  /\ list # NoList
  /\ \E class \in [ListRows -> Classes] :
       /\ \A r \in ListRows : (class[r] = "missing") = (list.class[r] = "missing")
       /\ list' = [list EXCEPT !.class = class]
       /\ ticked' = {r \in ListRows : class[r] = "duplicate"
                       /\ (r \in ticked \/ list.class[r] # "duplicate")}
  /\ UNCHANGED <<panel, requests, backendVars, confirmed, explained, untold, edited>>

(* The modal.  A list and a mapping decide which rows lack what is needed; *)
(* canonical accounts decide which are likely duplicates.                  *)
Classify(step) ==
  /\ list.step = step
  /\ \E class \in [ListRows -> Classes] :
       list' = [list EXCEPT !.class = class, !.step = "mapping"]
  /\ edited' = (edited \/ list.pushing)
  /\ UNCHANGED <<panel, requests, backendVars, confirmed, mishaps, explained, untold,
                 ticked>>

(* handleFile, and a column that is mapped anew.                           *)
HandleFile == Classify("upload")

Remap == Classify("mapping")

ReviewDedupe ==
  /\ list.step = "mapping"
  /\ list' = [list EXCEPT !.step = "dedupe",
                          !.excluded = {r \in ListRows : list.class[r] # "new"}]
  /\ edited' = (edited \/ list.pushing)
  /\ ticked' = {}
  /\ UNCHANGED <<panel, requests, backendVars, confirmed, mishaps, explained, untold>>

(* The box of a row; that of a row which lacks something is disabled.      *)
UpdateExcluded(r) ==
  /\ list.step \in {"dedupe", "confirm"}
  /\ list.class[r] # "missing"
  /\ list' = [list EXCEPT !.excluded =
       IF r \in list.excluded THEN list.excluded \ {r} ELSE list.excluded \cup {r}]
  /\ edited' = (edited \/ list.pushing)
  /\ ticked' = IF r \in list.excluded /\ list.class[r] = "duplicate"
               THEN ticked \cup {r} ELSE ticked \ {r}
  /\ UNCHANGED <<panel, requests, backendVars, confirmed, mishaps, explained, untold>>

Continue ==
  /\ list.step = "dedupe"
  /\ list' = [list EXCEPT !.step = "confirm"]
  /\ UNCHANGED <<panel, requests, backendVars, confirmed, mishaps, historyVars>>

(* Back is never disabled.                                                 *)
Back ==
  /\ list.step \in {"mapping", "dedupe", "confirm"}
  /\ list' = [list EXCEPT !.step = IF @ = "mapping" THEN "upload" ELSE "mapping"]
  /\ UNCHANGED <<panel, requests, backendVars, confirmed, mishaps, historyVars>>

(* Close, and Done; the modal that opens next is a new one.  A push that   *)
(* nobody waits for any more is not followed to its end.                   *)
CloseList ==
  /\ list' = NoList
  /\ requests' = {q \in requests : q.key \in Keys}
  /\ imported' = {} /\ untold' = {} /\ edited' = FALSE /\ ticked' = {}
  /\ UNCHANGED <<panel, cache, created, confirmed, mishaps, explained>>

(* confirmedHubSpotRows                                                    *)
PushRows == {r \in ListRows : list.class[r] # "missing" /\ r \notin list.excluded}

(* confirmPush                                                             *)
ConfirmPush ==
  /\ list.step = "confirm" /\ ~list.pushing
  /\ PushRows # {}
  /\ NewRequest("none", PushRows)
  /\ list' = [list EXCEPT !.pushing = TRUE]
  /\ imported' = {} /\ untold' = {} /\ edited' = FALSE
  /\ UNCHANGED <<panel, cache, created, mishaps, explained, ticked>>
-----------------------------------------------------------------------------
(* The handlers.                                                           *)
Becomes(q, changed) == requests' = (requests \ {q}) \cup {changed}

(* The answer that is cached for the key, if there is one.                 *)
CheckKey(q) ==
  /\ q.phase = "sent"
  /\ Becomes(q, IF q.key \in Keys /\ cache[q.key] # "none"
                THEN [q EXCEPT !.phase = "done", !.ok = cache[q.key] = "ok"]
                ELSE [q EXCEPT !.phase = "checked"])
  /\ UNCHANGED <<panel, list, backendVars, confirmed, mishaps, historyVars>>

(* What HubSpot creates, and what it says that it has: of a list some rows *)
(* may fail, and an answer that does not come says nothing.                *)
Write(q) ==
  /\ q.phase = "checked"
  /\ IF q.key \in Keys
     THEN \E creates \in BOOLEAN, says \in BOOLEAN :
            /\ says => creates
            /\ created' = IF creates THEN [created EXCEPT ![q.key] = @ + 1] ELSE created
            /\ explained' = IF creates /\ ~says THEN [explained EXCEPT ![q.key] = @ + 1]
                         ELSE explained
            /\ Becomes(q, [q EXCEPT !.phase = "wrote", !.ok = says])
            /\ UNCHANGED <<imported, untold>>
     ELSE \E taken \in SUBSET q.rows, says \in BOOLEAN :
            /\ imported' = taken
            /\ untold' = IF says THEN {} ELSE taken
            /\ Becomes(q, [q EXCEPT !.phase = "wrote", !.ok = TRUE,
                                    !.told = IF says THEN taken ELSE {}])
            /\ UNCHANGED <<created, explained>>
  /\ UNCHANGED <<panel, list, cache, confirmed, mishaps, edited, ticked>>

(* The answer is kept: of an import its failure too, of a task no error.   *)
Store(q) ==
  /\ q.phase = "wrote"
  /\ cache' = CASE q.key \in Keys /\ q.ok -> [cache EXCEPT ![q.key] = "ok"]
                [] q.key = "company" /\ ~q.ok -> [cache EXCEPT ![q.key] = "failed"]
                [] OTHER -> cache
  /\ Becomes(q, [q EXCEPT !.phase = "done"])
  /\ UNCHANGED <<panel, list, created, imported, confirmed, mishaps, historyVars>>

(* The page hears an error, while the handler goes on.                     *)
LoseConnection(q) ==
  /\ Mishap
  /\ q.heard /\ q.key \in Keys
  /\ Becomes(q, [q EXCEPT !.heard = FALSE])
  /\ panel' = [panel EXCEPT !.busy = FALSE, !.result = "error"]
  /\ explained' = [explained EXCEPT ![q.key] = @ + 1]
  /\ UNCHANGED <<list, backendVars, confirmed, untold, edited, ticked>>

(* The user may push the list again, as a list that HubSpot does not know. *)
PushFailed(q) ==
  /\ Mishap
  /\ q.key \notin Keys
  /\ requests' = requests \ {q}
  /\ list' = [list EXCEPT !.pushing = FALSE]
  /\ imported' = {} /\ untold' = {} /\ edited' = FALSE
  /\ UNCHANGED <<panel, cache, created, confirmed, explained, ticked>>

(* The API starts again: its handlers and its memory are gone.             *)
RestartApi ==
  /\ Mishap
  /\ requests' = {}
  /\ cache' = [k \in Keys |-> "none"]
  /\ explained' = [k \in Keys |-> IF created[k] > 0 THEN explained[k] + 1 ELSE explained[k]]
  /\ panel' = IF \E q \in requests : q.key \in Keys /\ q.heard
              THEN [panel EXCEPT !.busy = FALSE, !.result = "error"] ELSE panel
  /\ list' = [list EXCEPT !.pushing = FALSE]
  /\ UNCHANGED <<created, imported, confirmed, untold, edited, ticked>>
-----------------------------------------------------------------------------
(* The page takes the answer to a request of the panel, whichever lock is  *)
(* the current one.                                                        *)
Told(q) ==
  /\ q.phase = "done" /\ q.key \in Keys
  /\ requests' = requests \ {q}
  /\ panel' = IF ~q.heard THEN panel
              ELSE [panel EXCEPT !.busy = FALSE,
                      !.mode = IF q.ok THEN "closed" ELSE @,
                      !.result = IF q.ok THEN "created" ELSE "error"]
  /\ UNCHANGED <<list, backendVars, confirmed, mishaps, historyVars>>

(* The results of the import.                                              *)
PushTold(q) ==
  /\ q.phase = "done" /\ q.key \notin Keys
  /\ requests' = requests \ {q}
  /\ list' = [list EXCEPT !.pushing = FALSE, !.step = "results",
       !.answer = [r \in ListRows |-> IF r \in q.told THEN "succeeded" ELSE "failed"]]
  /\ UNCHANGED <<panel, backendVars, confirmed, mishaps, historyVars>>

(* resultRows, of what the list and the boxes are by now.                  *)
Label(r) ==
  IF list.class[r] = "missing" THEN "missing"
  ELSE IF r \in list.excluded THEN "skipped"
  ELSE list.answer[r]
-----------------------------------------------------------------------------
PanelNext ==
  \/ \E key \in Keys : OpenForm(key) \/ Preview(key) \/ Confirm(key)
  \/ CloseForm \/ Remount \/ RefreshPanel

ListNext ==
  \/ HandleFile \/ Remap \/ ReviewDedupe \/ Continue \/ Back \/ ConfirmPush \/ CloseList
  \/ RefreshList
  \/ \E r \in ListRows : UpdateExcluded(r)

CrmServeNext ==
  \E q \in requests :
    CheckKey(q) \/ Write(q) \/ Store(q) \/ Told(q) \/ PushTold(q)

CrmMishapNext ==
  \/ RestartApi
  \/ \E q \in requests : LoseConnection(q) \/ PushFailed(q)

CrmNext == PanelNext \/ ListNext \/ CrmServeNext \/ CrmMishapNext

CrmSpec == CrmInit /\ [][CrmNext]_crmVars
-----------------------------------------------------------------------------
(* A form makes one record in HubSpot, and one more at the most for each   *)
(* mishap that can explain it: the panel started over while a request for  *)
(* it was under way, the connection or HubSpot's answer was lost, or the   *)
(* API forgot its keys.                                                    *)
WrittenOnce == \A k \in Keys : created[k] <= 1 + explained[k]

(* What is pushed of a list are rows whose boxes the user saw ticked, and  *)
(* likely duplicates among them only when ticked by hand or found since;   *)
(* and the results tell of each row what became of it, unless the list was *)
(* changed while it was pushed.                                            *)
ImportAsReviewed ==
  /\ \A q \in requests : ~edited =>
       \A r \in q.rows : r \notin list.excluded
                         /\ (list.class[r] = "duplicate" => r \in ticked)
  /\ list.step = "results" /\ ~edited =>
       \A r \in ListRows : r \in imported \ untold <=> Label(r) = "succeeded"

(* What reaches HubSpot is what the user has reviewed, once (ImportList-   *)
(* Modal.tsx, crmWriteSafety.ts).                                          *)
WritesAsReviewed == WrittenOnce /\ ImportAsReviewed
=============================================================================
