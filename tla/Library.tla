-------------------------------- MODULE Library --------------------------------
(***************************************************************************)
(* The documents of one browser (frontend/src/memory/localMemory.ts) and   *)
(* the library's page that lists them with those of the backend            *)
(* (ui/surfaces/DeliverableLibrary.tsx, app/deliverablesApi.ts).           *)
(*                                                                         *)
(* A document is saved here first, and again, with the number of its       *)
(* record, when the backend has answered.  The page asks for the records   *)
(* when it is opened, at its button, and whenever the window gets the      *)
(* focus; the answers are taken in whatever order they come.               *)
(***************************************************************************)
EXTENDS Naturals, Sequences, SequencesExt, FiniteSets

CONSTANTS
  Nothing,
  Docs,          \* documents that this browser makes
  Foreign,       \* one that another user makes
  DocAccount,    \* the account of each, or Nothing
  DocType,
  KnownAccounts, \* the accounts of the world
  MaxKept,       \* 40 in saveDeliverable
  MaxLog,        \* 100 in addActivity
  MaxLoading,    \* bound on the calls for the list
  MaxRecords,    \* bound on the backend's records
  MaxUses        \* bound on what the user does

ASSUME LibraryAssumption ==
  /\ Foreign \notin Docs \* a document's id is generated where it is made
  /\ MaxKept \in Nat

VARIABLES
  memory,        \* localStorage: the documents and the lengths of the two logs
  stored,        \* the document of each record of the backend
  library,       \* DeliverableLibrary
  loads,         \* its calls that are not answered
  posts,         \* saves that are not answered
  uses,
  unsure         \* history: documents whose save was not answered

libraryVars == <<memory, stored, library, loads, posts, uses, unsure>>

(* record is backendRecordId, 0 when there is none.                        *)
Kept(d, r) == [doc |-> d, record |-> r]

EmptyMemory == [documents |-> <<>>, activity |-> 0, notes |-> 0]
NewPage == [shown |-> {}, loading |-> FALSE, stale |-> FALSE,
            account |-> "all", type |-> "all"]

Capped(n, limit) == IF n < limit THEN n + 1 ELSE limit
Log(m) == [m EXCEPT !.activity = Capped(@, MaxLog)]

(* saveDeliverable: the newest first, one of a name, and a limit.          *)
Saved(m, copy) ==
  LET old == {i \in DOMAIN m.documents : m.documents[i].doc = copy.doc}
      others == IF old = {} THEN m.documents
                ELSE RemoveAt(m.documents, CHOOSE i \in old : TRUE)
      all == <<copy>> \o others
  IN Log([m EXCEPT !.documents = SubSeq(all, 1, IF Len(all) < MaxKept THEN Len(all)
                                                ELSE MaxKept)])

Copies == ToSet(memory.documents)
-----------------------------------------------------------------------------
(* buildLibraryItems.  A card's key is the record's number, or the         *)
(* document when it has none; a record takes the place of the copy with    *)
(* its number, and what is about an account that the world has not is not  *)
(* shown.                                                                  *)
(* Mutant: the copies of this browser are never taken for a record.        *)
CardsApart ==
  LET card(d, r, source) == [doc |-> d, key |-> IF source = "local" THEN 0 ELSE r,
                             source |-> source]
  IN {c \in {card(c.doc, c.record, "local") : c \in Copies}
             \cup {card(stored[r], r, "backend") : r \in library.shown} :
        DocAccount[c.doc] \in KnownAccounts \cup {Nothing}}

Cards ==
  LET card(d, r, source) == [doc |-> d, key |-> r, source |-> source]
      here == {card(c.doc, c.record, "local") : c \in
                 {c \in Copies : c.record = 0 \/ c.record \notin library.shown}}
      there == {card(stored[r], r, "backend") : r \in library.shown}
  IN {c \in here \cup there : DocAccount[c.doc] \in KnownAccounts \cup {Nothing}}

(* filterLibraryItems.                                                     *)
Filtered(cards, account, type) ==
  {c \in cards : /\ account = "all" \/ DocAccount[c.doc] = account
                 /\ type = "all" \/ DocType[c.doc] = type}

AccountOptions == {DocAccount[c.doc] : c \in Cards} \ {Nothing}
TypeOptions == {DocType[c.doc] : c \in Cards}
-----------------------------------------------------------------------------
LibraryInit ==
  /\ memory \in {EmptyMemory}
       \cup {[EmptyMemory EXCEPT !.documents = <<Kept(d, 0)>>, !.activity = 1] : d \in Docs}
  /\ stored = <<>>
  /\ library = [NewPage EXCEPT !.loading = TRUE]
  /\ loads = {[n |-> 1, answer |-> Nothing]}
  /\ posts = {}
  /\ uses = 0
  /\ unsure = {}

Use == uses < MaxUses /\ uses' = uses + 1

Exists(d) ==
  \/ \E c \in Copies : c.doc = d
  \/ \E p \in posts : p.doc = d
  \/ \E r \in DOMAIN stored : stored[r] = d

(* The wizard, a figure: saved here, and sent to the backend; and again,   *)
(* as long as the backend has not answered.                                *)
MakeAndSend ==
  /\ Use
  /\ \E d \in Docs :
       /\ Kept(d, 0) \in Copies \/ ~Exists(d)
       /\ [doc |-> d, record |-> 0] \notin posts
       /\ memory' = Saved(memory, Kept(d, 0))
       /\ posts' = posts \cup {[doc |-> d, record |-> 0]}
       /\ unsure' = unsure \cup {p.doc : p \in {p \in posts : p.doc = d}}
  /\ UNCHANGED <<stored, library, loads>>

(* The dossier saves here only.                                            *)
MakeHere ==
  /\ Use
  /\ \E d \in Docs :
       /\ ~Exists(d)
       /\ memory' = Saved(memory, Kept(d, 0))
  /\ UNCHANGED <<stored, library, loads, posts, unsure>>

(* POST /deliverables makes a record on each call.                         *)
ServePost ==
  \E p \in posts :
    /\ p.record = 0 /\ Len(stored) < MaxRecords
    /\ stored' = Append(stored, p.doc)
    /\ posts' = (posts \ {p}) \cup {[p EXCEPT !.record = Len(stored')]}
    /\ UNCHANGED <<memory, library, loads, uses, unsure>>

(* recordToDeliverable, and the copy is saved again.                       *)
PostAnswered ==
  \E p \in posts :
    /\ p.record # 0
    /\ memory' = Saved(memory, Kept(p.doc, p.record))
    /\ posts' = posts \ {p}
    /\ UNCHANGED <<stored, library, loads, uses, unsure>>

(* The call fails, before or after the backend made the record.            *)
PostFails ==
  \E p \in posts :
    /\ posts' = posts \ {p}
    /\ unsure' = IF p.record # 0 THEN unsure \cup {p.doc} ELSE unsure
    /\ UNCHANGED <<memory, stored, library, loads, uses>>

OthersMake ==
  /\ Use
  /\ Len(stored) < MaxRecords /\ \A r \in DOMAIN stored : stored[r] # Foreign
  /\ stored' = Append(stored, Foreign)
  /\ UNCHANGED <<memory, library, loads, posts, unsure>>

SaveNote ==
  /\ Use
  /\ memory' = Log([memory EXCEPT !.notes = Capped(@, MaxLog)])
  /\ UNCHANGED <<stored, library, loads, posts, unsure>>

ClearMemory ==
  /\ Use
  /\ memory' = EmptyMemory
  /\ UNCHANGED <<stored, library, loads, posts, unsure>>
-----------------------------------------------------------------------------
(* refresh, which the focus starts even while another is under way.        *)
Refresh ==
  /\ Use
  /\ Cardinality(loads) < MaxLoading
  /\ \E n \in 1..MaxLoading :
       /\ \A l \in loads : l.n # n
       /\ loads' = loads \cup {[n |-> n, answer |-> Nothing]}
  /\ library' = [library EXCEPT !.loading = TRUE]
  /\ UNCHANGED <<memory, stored, posts, unsure>>

ServeList ==
  \E l \in loads :
    /\ l.answer = Nothing
    /\ loads' = (loads \ {l}) \cup {[l EXCEPT !.answer = DOMAIN stored]}
    /\ UNCHANGED <<memory, stored, library, posts, uses, unsure>>

RefreshAnswered ==
  \E l \in loads :
    /\ loads' = loads \ {l}
    /\ \/ /\ l.answer # Nothing
          /\ library' = [library EXCEPT !.shown = l.answer, !.loading = FALSE, !.stale = FALSE]
       \/ library' = [library EXCEPT !.loading = FALSE, !.stale = TRUE]
    /\ UNCHANGED <<memory, stored, posts, uses, unsure>>

Filter ==
  /\ Use
  /\ \/ \E a \in AccountOptions \cup {"all"} : library' = [library EXCEPT !.account = a]
     \/ \E t \in TypeOptions \cup {"all"} : library' = [library EXCEPT !.type = t]
  /\ UNCHANGED <<memory, stored, loads, posts, unsure>>

(* "New deliverable" takes the filters back.                               *)
NewDeliverable ==
  /\ Use
  /\ library' = [library EXCEPT !.account = "all", !.type = "all"]
  /\ UNCHANGED <<memory, stored, loads, posts, unsure>>

(* The page is loaded again: only localStorage and the backend are left.   *)
Reload ==
  /\ Use
  /\ library' = [NewPage EXCEPT !.loading = TRUE]
  /\ loads' = {[n |-> 1, answer |-> Nothing]}
  /\ posts' = {}
  /\ unsure' = unsure \cup {p.doc : p \in posts}
  /\ UNCHANGED <<memory, stored>>

LibraryNext ==
  \/ MakeAndSend \/ MakeHere \/ ServePost \/ PostAnswered \/ PostFails \/ OthersMake
  \/ SaveNote \/ ClearMemory \/ Refresh \/ ServeList \/ RefreshAnswered \/ Filter
  \/ NewDeliverable \/ Reload

LibrarySpec == LibraryInit /\ [][LibraryNext]_libraryVars
-----------------------------------------------------------------------------
(* Without a filter, the page has each document of this browser whose      *)
(* account the world knows, and has it once, in whatever order the saves   *)
(* and the lists are answered: twice only while its save is on its way, or *)
(* after a save whose answer never came (buildLibraryItems, the two steps  *)
(* of saveToLibrary).                                                      *)
ListedOnce ==
  \A d \in Docs :
    LET cards == {c \in Filtered(Cards, "all", "all") : c.doc = d} IN
    /\ (\E c \in Copies : c.doc = d) /\ DocAccount[d] \in KnownAccounts \cup {Nothing} => cards # {}
    /\ d \notin unsure /\ (\A p \in posts : p.doc # d) => Cardinality(cards) <= 1
=============================================================================
