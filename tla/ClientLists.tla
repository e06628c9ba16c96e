----------------------------- MODULE ClientLists -----------------------------
(***************************************************************************)
(* The client lists of the CRM workspace                                   *)
(* (frontend/src/ui/surfaces/HubSpotViewer.tsx), made in HubSpot by two    *)
(* calls: one creates the list, the next adds the records that are         *)
(* selected.  A record is selected by its number alone, and HubSpot        *)
(* numbers companies and contacts each on their own.                       *)
(*                                                                         *)
(* The name of a list is left out: it is part of the key, as the numbers   *)
(* are.  HubSpot takes a second list for one name, and leaves out numbers  *)
(* that it does not know.                                                  *)
(***************************************************************************)
EXTENDS Sequences, Naturals

CONSTANTS
  HubSpotIds,      \* type of list -> the numbers of its records in HubSpot
  WorldIds,        \* type of list -> the numbers that the world has loaded
  Searches,        \* query -> the numbers of the companies that it finds
  MaxSearches,     \* bound on searches
  MaxLists,        \* bound on clicks on "Create list"
  MaxListMishaps   \* bound on stops of the API and failures

VARIABLES
  lists,       \* the lists in HubSpot
  remembered,  \* crm_list_idempotency, in the memory of the API: key -> list
  picker,      \* the state of HubSpotViewer
  searches,    \* the searches that are under way
  errands,     \* the creations that are under way
  excused,     \* history: keys of which an answer was lost, or that overlapped
  effort       \* searches, clicks and mishaps so far

listVars == <<lists, remembered, picker, searches, errands, excused, effort>>

ListTypes == {"company", "contact"}

(* mixed is history: companies of a search were added to contacts.         *)
NoPicker == [open |-> FALSE, type |-> "company", found |-> {}, selected |-> {},
             creating |-> FALSE, mixed |-> FALSE]

ListsInit ==
  /\ lists = <<>>
  /\ remembered = <<>>
  /\ picker = NoPicker
  /\ searches = {} /\ errands = {} /\ excused = {}
  /\ effort = [searches |-> 0, lists |-> 0, mishaps |-> 0]

(* selectableRecords                                                       *)
Selectable == WorldIds[picker.type] \cup (IF picker.type = "company" THEN picker.found ELSE {})

Displays(picker1) ==
  /\ picker' = picker1
  /\ UNCHANGED <<lists, remembered, searches, errands, excused, effort>>

OpenLists == ~picker.open /\ Displays([NoPicker EXCEPT !.open = TRUE])

(* What is under way goes on, the second call of a creation included.      *)
LeaveLists ==
  /\ picker.open
  /\ picker' = NoPicker
  /\ searches' = {}
  /\ errands' = {[e EXCEPT !.heard = FALSE] : e \in errands}
  /\ UNCHANGED <<lists, remembered, excused, effort>>
-----------------------------------------------------------------------------
(* Selected records know, as history, what they were selected as.          *)
Toggled(id, type) ==
  IF \E r \in picker.selected : r.id = id THEN {r \in picker.selected : r.id # id}
  ELSE picker.selected \cup {[id |-> id, as |-> type]}

Toggle(id) ==
  /\ picker.open /\ id \in Selectable
  /\ Displays([picker EXCEPT !.selected = Toggled(id, picker.type)])

(* "Add to list" of a search: the type changes, and the selection stays.   *)
AddFound(id) ==
  /\ picker.open /\ id \in picker.found
  /\ Displays([picker EXCEPT
       !.type = "company", !.selected = Toggled(id, "company"),
       !.mixed = @ \/ \E r \in picker.selected : r.as = "contact"])

(* Mutant: the selection stays with the next type.                         *)
PickTypeOnly(type) ==
  /\ picker.open
  /\ Displays([picker EXCEPT !.type = type])

PickType(type) ==
  /\ picker.open
  /\ Displays([picker EXCEPT !.type = type, !.selected = {}, !.mixed = FALSE])

(* runLookup: no search waits for the one before.                          *)
RunLookup(query) ==
  /\ picker.open
  /\ effort.searches < MaxSearches
  /\ effort' = [effort EXCEPT !.searches = @ + 1]
  /\ picker' = [picker EXCEPT !.found = {}]
  /\ searches' = searches \cup {[query |-> query, number |-> effort.searches]}
  /\ UNCHANGED <<lists, remembered, errands, excused>>

(* Whatever comes last is shown; an error shows nothing.                   *)
LookupArrives(s) ==
  /\ picker' = [picker EXCEPT !.found = Searches[s.query]]
  /\ searches' = searches \ {s}
  /\ UNCHANGED <<lists, remembered, errands, excused, effort>>

LookupFails(s) ==
  /\ searches' = searches \ {s}
  /\ UNCHANGED <<lists, remembered, picker, errands, excused, effort>>
-----------------------------------------------------------------------------
Ids(e) == {r.id : r \in e.chosen}
Key(e) == [type |-> e.type, ids |-> Ids(e)]

CreateClientList ==
  LET e == [number |-> effort.lists, type |-> picker.type, chosen |-> picker.selected,
            mixed |-> picker.mixed, phase |-> "create", list |-> 0, heard |-> TRUE]
  IN /\ picker.open /\ ~picker.creating /\ picker.selected # {}
     /\ effort.lists < MaxLists
     /\ effort' = [effort EXCEPT !.lists = @ + 1]
     /\ picker' = [picker EXCEPT !.creating = TRUE]
     /\ errands' = errands \cup {e}
     /\ excused' = IF \E d \in errands : Key(d) = Key(e) THEN excused \cup {Key(e)} ELSE excused
     /\ UNCHANGED <<lists, remembered, searches>>

Moves(e, e1) ==
  /\ errands' = (errands \ {e}) \cup {e1}
  /\ UNCHANGED <<picker, searches, effort>>

(* create_hubspot_list: the list of the key, or a new one, which the       *)
(* answer of HubSpot must confirm.                                         *)
Recall(e) ==
  /\ e.phase = "create" /\ Key(e) \in DOMAIN remembered
  /\ Moves(e, [e EXCEPT !.phase = "created", !.list = remembered[Key(e)]])
  /\ UNCHANGED <<lists, remembered, excused>>

AskHubSpot(e) ==
  /\ e.phase = "create" /\ Key(e) \notin DOMAIN remembered
  /\ Moves(e, [e EXCEPT !.phase = "asked"])
  /\ UNCHANGED <<lists, remembered, excused>>

HubSpotCreates(e) ==
  /\ e.phase = "asked"
  /\ lists' = Append(lists, [key |-> Key(e), members |-> {}])
  /\ remembered' = [k \in DOMAIN remembered \cup {Key(e)} |->
                      IF k = Key(e) THEN Len(lists') ELSE remembered[k]]
  /\ Moves(e, [e EXCEPT !.phase = "created", !.list = Len(lists')])
  /\ UNCHANGED excused

(* The page goes on with the members, be it open or not.                   *)
CreateAnswered(e) ==
  /\ e.phase = "created"
  /\ Moves(e, [e EXCEPT !.phase = "members"])
  /\ UNCHANGED <<lists, remembered, excused>>

(* add_hubspot_list_records: added, and read back.                         *)
AddRecords(e) ==
  /\ e.phase = "members"
  /\ lists' = [lists EXCEPT ![e.list].members = @ \cup (Ids(e) \cap HubSpotIds[e.type])]
  /\ Moves(e, [e EXCEPT !.phase = IF Ids(e) \subseteq lists'[e.list].members
                                  THEN "verified" ELSE "refused"])
  /\ UNCHANGED <<remembered, excused>>

Ends(e) ==
  /\ errands' = errands \ {e}
  /\ picker' = IF e.heard THEN [picker EXCEPT !.creating = FALSE] ELSE picker

ListAnswered(e) ==
  /\ e.phase \in {"verified", "refused"}
  /\ Ends(e)
  /\ UNCHANGED <<lists, remembered, searches, excused, effort>>

(* The answer is lost, or HubSpot does not confirm the list that it has    *)
(* made, which is not remembered then.                                     *)
ListFails(e) ==
  /\ effort.mishaps < MaxListMishaps
  /\ effort' = [effort EXCEPT !.mishaps = @ + 1]
  /\ \E made \in BOOLEAN :
       /\ made => e.phase = "asked"
       /\ lists' = IF made THEN Append(lists, [key |-> Key(e), members |-> {}]) ELSE lists
  /\ excused' = excused \cup {Key(e)}
  /\ Ends(e)
  /\ UNCHANGED <<remembered, searches>>

(* The API stops, and forgets the keys; its calls fail.                    *)
StopApi ==
  /\ effort.mishaps < MaxListMishaps
  /\ effort' = [effort EXCEPT !.mishaps = @ + 1]
  /\ remembered' = <<>>
  /\ excused' = excused \cup DOMAIN remembered \cup {Key(e) : e \in errands}
  /\ errands' = {} /\ picker' = [picker EXCEPT !.creating = FALSE]
  /\ UNCHANGED <<lists, searches>>

ListsNext ==
  \/ OpenLists \/ LeaveLists
  \/ \E id \in UNION {HubSpotIds[t] : t \in ListTypes} : Toggle(id) \/ AddFound(id)
  \/ \E type \in ListTypes : PickType(type)
  \/ \E query \in DOMAIN Searches : RunLookup(query)
  \/ \E s \in searches : LookupArrives(s) \/ LookupFails(s)
  \/ CreateClientList
  \/ \E e \in errands :
       \/ Recall(e) \/ AskHubSpot(e) \/ HubSpotCreates(e) \/ CreateAnswered(e)
       \/ AddRecords(e) \/ ListAnswered(e) \/ ListFails(e)
  \/ StopApi

ListsSpec == ListsInit /\ [][ListsNext]_listVars
-----------------------------------------------------------------------------
(* A list that is told verified holds what was chosen for it, as what it   *)
(* was chosen - unless a search put companies beside contacts: their       *)
(* numbers go into the list too, and are those of other companies, if of   *)
(* any.  And a list is made once, but for a lost answer, a stop of the     *)
(* API, or a page that was left and opened again meanwhile.                *)
ListAsChosen ==
  /\ \A e \in errands : e.phase = "verified" =>
       /\ Ids(e) \subseteq lists[e.list].members
       /\ lists[e.list].key = Key(e)
       /\ e.mixed \/ \A r \in e.chosen : r.as = e.type
  /\ \A i, j \in DOMAIN lists :
       i # j /\ lists[i].key = lists[j].key => lists[i].key \in excused
=============================================================================
