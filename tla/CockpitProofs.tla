----------------------------- MODULE CockpitProofs -----------------------------
(***************************************************************************)
(* Proofs about the surfaces of the cockpit: reviews of industry updates,  *)
(* client lists, evidence drawers, the editor of a deliverable, writes to  *)
(* HubSpot, the portal's scripts, the frame, the library of documents; and *)
(* that a session of all of them and of Ask together is a session of each  *)
(* (CockpitSurfaces).                                                      *)
(***************************************************************************)
EXTENDS Cockpit, AskProofs, WellFoundedInduction

-----------------------------------------------------------------------------
(* Reviews of industry updates.                                            *)

(* The review of an update by its number: as long as it is the last one,   *)
(* what it has replaced is what a restore gives back.                      *)
LastReplaced(u, replaced, count) ==
  /\ count \in Nat /\ count <= reviews[u].count
  /\ reviews[u].count = count => reviews[u].prior = replaced

IsCall(c) ==
  /\ c = [id |-> c.id, action |-> c.action, phase |-> c.phase, heard |-> c.heard,
          status |-> c.status, replaced |-> c.replaced, count |-> c.count]
  /\ c.heard \in BOOLEAN
  /\ c.id \in Updates
  /\ c.phase \in {"sent", "served"}
  /\ c.phase = "served" /\ c.action # "draft" => LastReplaced(c.id, c.replaced, c.count)

ReviewOK(r) ==
  /\ r = [status |-> r.status, prior |-> r.prior, count |-> r.count]
  /\ r.count \in Nat

PageOK(p) ==
  /\ p = [open |-> p.open, busy |-> p.busy, monitor |-> p.monitor, undo |-> p.undo]
  /\ p.undo # NoUndo =>
       p.undo.id \in Updates /\ LastReplaced(p.undo.id, p.undo.replaced, p.undo.count)

(* One call is heard at a time, and the undo that waits is the page's.     *)
UInv ==
  /\ reviews = [u \in Updates |-> reviews[u]]
  /\ \A u \in Updates : ReviewOK(reviews[u])
  /\ PageOK(page)
  /\ \A c \in patches : IsCall(c)
  /\ \A c \in patches : c.heard => page.busy /\ page.open
  /\ \A c, d \in patches : c.heard /\ d.heard => c = d
  /\ \A c \in patches : c.heard /\ c.action = "restore_previous" =>
       page.undo # NoUndo /\ page.undo.id = c.id
  /\ UndoRestores

LEMMA MonitorBegins == MonitorInit => UInv
BY DEF MonitorInit, UInv, NoReview, NoPage, ReviewOK, PageOK, UndoRestores

(* A page whose undo and whose lock stay.                                  *)
LEMMA PageStays ==
  ASSUME UInv, UNCHANGED <<reviews, patches, restored>>, NEW p, page' = p, PageOK(p),
         p.open = page.open, p.busy = page.busy, p.undo = page.undo
  PROVE  UInv'
<1>1. UInv => /\ reviews = [u \in Updates |-> reviews[u]]
              /\ \A u \in Updates : ReviewOK(reviews[u])
              /\ \A c \in patches : IsCall(c)
              /\ \A c \in patches : c.heard => page.busy /\ page.open
              /\ \A c, d \in patches : c.heard /\ d.heard => c = d
              /\ \A c \in patches : c.heard /\ c.action = "restore_previous" =>
                   page.undo # NoUndo /\ page.undo.id = c.id
              /\ UndoRestores
  BY DEF UInv
<1>2. PageOK(page)'
  BY DEF PageOK, LastReplaced
<1>3. \A c \in patches' : IsCall(c)'
  BY <1>1 DEF IsCall, LastReplaced
<1>4. \A u \in Updates : ReviewOK(reviews[u])'
  BY <1>1
<1> QED
  BY <1>1, <1>2, <1>3, <1>4 DEF UInv, UndoRestores

(* A call that is heard no more.                                           *)
LEMMA UnheardCall ==
  ASSUME NEW c, IsCall(c), NEW d, d = Unheard(c)
  PROVE  IsCall(d) /\ d.heard = FALSE
<1> PICK id, action, phase, heard, status, replaced, count :
      c = [id |-> id, action |-> action, phase |-> phase, heard |-> heard,
           status |-> status, replaced |-> replaced, count |-> count]
  BY DEF IsCall
<1>1. d = [id |-> id, action |-> action, phase |-> phase, heard |-> FALSE,
           status |-> status, replaced |-> replaced, count |-> count]
  BY DEF Unheard
<1>2. /\ d.id = c.id /\ d.action = c.action /\ d.phase = c.phase
      /\ d.replaced = c.replaced /\ d.count = c.count /\ d.heard = FALSE
  BY <1>1
<1>3. d = [id |-> d.id, action |-> d.action, phase |-> d.phase, heard |-> d.heard,
           status |-> d.status, replaced |-> d.replaced, count |-> d.count]
  BY <1>1
<1> QED
  BY <1>2, <1>3 DEF IsCall

(* Calls that are heard no more, of a page that starts over.               *)
LEMMA AllUnheard ==
  ASSUME UInv, UNCHANGED <<reviews, restored>>, page' = NoPage \/ page'.undo = NoUndo,
         PageOK(page'), NEW cs, cs \subseteq patches, patches' = {Unheard(c) : c \in cs}
  PROVE  UInv'
<1>1. \A d \in patches' : IsCall(d) /\ d.heard = FALSE
  BY UnheardCall DEF UInv
<1>2. \A d \in patches' : IsCall(d)'
  BY <1>1 DEF IsCall, LastReplaced
<1>3. PageOK(page)'
  BY DEF PageOK, LastReplaced
<1> QED
  BY <1>1, <1>2, <1>3 DEF UInv, UndoRestores, ReviewOK

LEMMA CallBegins ==
  ASSUME UInv, NEW u \in Updates, NEW action, Begins(u, action),
         action = "restore_previous" => page.undo # NoUndo /\ page.undo.id = u
  PROVE  UInv'
<1> PICK c : c = [id |-> u, action |-> action, phase |-> "sent", heard |-> TRUE,
                  status |-> Unreviewed, replaced |-> Unreviewed, count |-> 0]
  OBVIOUS
<1>1. /\ ~page.busy /\ page.open /\ page' = [page EXCEPT !.busy = TRUE]
      /\ patches' = patches \cup {c} /\ UNCHANGED <<reviews, restored>>
  BY DEF Begins
<1>2. IsCall(c)
  BY DEF IsCall
<1> PICK open, lock, monitor, undo :
      page = [open |-> open, busy |-> lock, monitor |-> monitor, undo |-> undo]
  BY DEF UInv, PageOK
<1>3. page' = [open |-> open, busy |-> TRUE, monitor |-> monitor, undo |-> undo]
  BY <1>1
<1>4. page'.undo = page.undo /\ page'.busy = TRUE /\ page'.open
  BY <1>1, <1>3
<1>5. PageOK(page)'
  BY <1>1, <1>3 DEF UInv, PageOK, LastReplaced
<1>6. \A d \in patches : ~d.heard
  BY <1>1 DEF UInv
<1>7. \A d \in patches' : IsCall(d)'
  BY <1>1, <1>2 DEF UInv, IsCall, LastReplaced
<1>8. c.heard /\ c.id = u /\ c.action = action
  OBVIOUS
<1>9. \A d, e \in patches' : d.heard /\ e.heard => d = e
  BY <1>1, <1>6
<1>10. \A d \in patches' : d.heard /\ d.action = "restore_previous" =>
         page'.undo # NoUndo /\ page'.undo.id = d.id
  BY <1>1, <1>4, <1>6, <1>8
<1>11. UndoRestores' /\ (\A v \in Updates : ReviewOK(reviews[v])')
       /\ (reviews = [v \in Updates |-> reviews[v]])'
  BY <1>1 DEF UInv, UndoRestores, ReviewOK
<1> QED
  BY <1>4, <1>5, <1>7, <1>9, <1>10, <1>11 DEF UInv

(* A review: its number is new, and what it replaces is remembered.        *)
LEMMA ReviewGrows ==
  ASSUME NEW r, ReviewOK(r), NEW action, NEW s, s = Reviewed(r, action)
  PROVE  ReviewOK(s) /\ s.count = r.count + 1 /\ s.prior = r.status
BY DEF ReviewOK, Reviewed, Prior

LEMMA ReviewsGrow ==
  ASSUME UInv, NEW u \in Updates, NEW action,
         reviews' = [reviews EXCEPT ![u] = Reviewed(@, action)]
  PROVE  /\ reviews' = [v \in Updates |-> reviews'[v]]
         /\ reviews'[u] = Reviewed(reviews[u], action)
         /\ \A v \in Updates : ReviewOK(reviews'[v])
         /\ \A v \in Updates : \A replaced, count :
              LastReplaced(v, replaced, count) => LastReplaced(v, replaced, count)'
<1> PICK row : row = Reviewed(reviews[u], action)
  OBVIOUS
<1>0. reviews = [v \in Updates |-> reviews[v]] /\ \A v \in Updates : ReviewOK(reviews[v])
  BY DEF UInv
<1>1. ReviewOK(row) /\ row.count = reviews[u].count + 1
  BY <1>0, ReviewGrows
<1>2. /\ reviews' = [v \in Updates |-> IF v = u THEN row ELSE reviews[v]]
  BY <1>0
<1>3. ASSUME NEW v \in Updates, NEW replaced, NEW count, LastReplaced(v, replaced, count)
      PROVE  LastReplaced(v, replaced, count)'
  <2>1. reviews[v].count \in Nat
    BY <1>0 DEF ReviewOK
  <2>2. CASE v = u
    BY <1>1, <1>2, <1>3, <2>1, <2>2 DEF LastReplaced
  <2>3. CASE v # u
    BY <1>2, <1>3, <2>3 DEF LastReplaced
  <2> QED
    BY <2>2, <2>3
<1> QED
  BY <1>0, <1>1, <1>2, <1>3

LEMMA ServedCall ==
  ASSUME UInv, NEW c \in patches, ServeReview(c)
  PROVE  UInv'
<1> PICK s : s = [c EXCEPT !.phase = "served", !.status = reviews'[c.id].status,
                           !.replaced = reviews[c.id].status, !.count = reviews'[c.id].count]
  OBVIOUS
<1>0. /\ IsCall(c) /\ c.phase = "sent" /\ c.action # "draft" /\ ~Unrestorable(c)
      /\ reviews' = [reviews EXCEPT ![c.id] = Reviewed(@, c.action)]
      /\ patches' = (patches \ {c}) \cup {s}
      /\ restored' = IF c.action = "restore_previous" /\ c.heard THEN Compared(c) ELSE restored
      /\ UNCHANGED page
  BY DEF ServeReview, UInv
<1>1. c.id \in Updates
  BY <1>0 DEF IsCall
<1>2. /\ reviews' = [v \in Updates |-> reviews'[v]]
      /\ reviews'[c.id] = Reviewed(reviews[c.id], c.action)
      /\ \A v \in Updates : ReviewOK(reviews'[v])
      /\ \A v \in Updates : \A replaced, count :
           LastReplaced(v, replaced, count) => LastReplaced(v, replaced, count)'
  BY <1>0, <1>1, ReviewsGrow
<1>3. reviews'[c.id].prior = reviews[c.id].status /\ reviews'[c.id].count \in Nat
  BY <1>1, <1>2, ReviewGrows DEF UInv, ReviewOK
<1>4. /\ s.heard = c.heard /\ s.id = c.id /\ s.action = c.action
      /\ IsCall(s)'
  <2> PICK id, action, phase, heard, status, replaced, count :
        c = [id |-> id, action |-> action, phase |-> phase, heard |-> heard,
             status |-> status, replaced |-> replaced, count |-> count]
    BY <1>0 DEF IsCall
  <2> PICK new, old, number :
        /\ new = reviews'[c.id].status /\ old = reviews[c.id].status
        /\ number = reviews'[c.id].count
    OBVIOUS
  <2>1. s = [id |-> id, action |-> action, phase |-> "served", heard |-> heard,
             status |-> new, replaced |-> old, count |-> number]
    OBVIOUS
  <2>2. /\ s.heard = c.heard /\ s.id = c.id /\ s.action = c.action
        /\ s.phase = "served" /\ s.replaced = old /\ s.count = number
        /\ s = [id |-> s.id, action |-> s.action, phase |-> s.phase, heard |-> s.heard,
                status |-> s.status, replaced |-> s.replaced, count |-> s.count]
    BY <2>1
  <2>3. LastReplaced(c.id, old, number)'
    BY <1>3 DEF LastReplaced
  <2>4. c.heard \in BOOLEAN
    BY <1>0 DEF IsCall
  <2> QED
    BY <1>1, <2>2, <2>3, <2>4 DEF IsCall
<1>5. \A d \in patches' : IsCall(d)'
  BY <1>0, <1>2, <1>4 DEF UInv, IsCall
<1>6. PageOK(page)'
  BY <1>0, <1>2 DEF UInv, PageOK
<1>7. /\ \A d \in patches' : d.heard => page'.busy /\ page'.open
      /\ \A d, e \in patches' : d.heard /\ e.heard => d = e
      /\ \A d \in patches' : d.heard /\ d.action = "restore_previous" =>
           page'.undo # NoUndo /\ page'.undo.id = d.id
  BY <1>0, <1>4, ZenonT(60) DEF UInv
<1>8. UndoRestores'
  <2>1. CASE c.action = "restore_previous" /\ c.heard
    <3>1. /\ page.undo # NoUndo /\ page.undo.id = c.id
          /\ LastReplaced(c.id, page.undo.replaced, page.undo.count)
      BY <2>1 DEF UInv, PageOK
    <3>2. Reviewed(reviews[c.id], c.action).status = reviews[c.id].prior
      BY <2>1 DEF Reviewed
    <3>3. Compared(c) \in {"another review", "its own"}
      BY <3>1, <3>2 DEF Compared, LastReplaced
    <3> QED
      BY <1>0, <2>1, <3>3 DEF UndoRestores
  <2>2. CASE ~(c.action = "restore_previous" /\ c.heard)
    BY <1>0, <2>2 DEF UInv, UndoRestores
  <2> QED
    BY <2>1, <2>2
<1> QED
  BY <1>2, <1>5, <1>6, <1>7, <1>8 DEF UInv

LEMMA DraftServed ==
  ASSUME UInv, NEW c \in patches, ServeDraft(c)
  PROVE  UInv'
<1> PICK s : s = [c EXCEPT !.phase = "served"]
  OBVIOUS
<1>0. /\ IsCall(c) /\ c.action = "draft" /\ patches' = (patches \ {c}) \cup {s}
      /\ UNCHANGED <<reviews, page, restored>>
  BY DEF ServeDraft, UInv
<1>1. s.heard = c.heard /\ s.id = c.id /\ s.action = c.action /\ IsCall(s)
  <2> PICK id, action, phase, heard, status, replaced, count :
        c = [id |-> id, action |-> action, phase |-> phase, heard |-> heard,
             status |-> status, replaced |-> replaced, count |-> count]
    BY <1>0 DEF IsCall
  <2>1. s = [id |-> id, action |-> action, phase |-> "served", heard |-> heard,
             status |-> status, replaced |-> replaced, count |-> count]
    OBVIOUS
  <2>2. /\ s.heard = c.heard /\ s.id = c.id /\ s.action = c.action /\ s.phase = "served"
        /\ s = [id |-> s.id, action |-> s.action, phase |-> s.phase, heard |-> s.heard,
                status |-> s.status, replaced |-> s.replaced, count |-> s.count]
    BY <2>1
  <2> QED
    BY <1>0, <2>2 DEF IsCall
<1>2. \A d \in patches' : IsCall(d)'
  BY <1>0, <1>1 DEF UInv, IsCall, LastReplaced
<1>3. /\ \A d \in patches' : d.heard => page'.busy /\ page'.open
      /\ \A d, e \in patches' : d.heard /\ e.heard => d = e
      /\ \A d \in patches' : d.heard /\ d.action = "restore_previous" =>
           page'.undo # NoUndo /\ page'.undo.id = d.id
  BY <1>0, <1>1 DEF UInv
<1> QED
  BY <1>0, <1>2, <1>3 DEF UInv, UndoRestores, ReviewOK, PageOK, LastReplaced

LEMMA AnswerTaken ==
  ASSUME UInv, NEW c \in patches, PatchAnswered(c)
  PROVE  UInv'
<1>0. /\ IsCall(c) /\ c.phase = "served" /\ UNCHANGED <<reviews, restored>>
  BY DEF PatchAnswered, UInv
<1>1. CASE c.action = "draft"
  <2>1. patches' = {Unheard(d) : d \in patches \ {c}} /\ page' = NoPage
    BY <1>1 DEF PatchAnswered
  <2>2. PageOK(page')
    BY <2>1 DEF PageOK, NoPage
  <2> QED
    BY <1>0, <2>1, <2>2, AllUnheard
<1>2. CASE c.action # "draft" /\ ~c.heard
  <2>1. patches' = patches \ {c} /\ UNCHANGED page
    BY <1>2 DEF PatchAnswered
  <2> QED
    BY <1>0, <2>1 DEF UInv, UndoRestores, ReviewOK, PageOK, LastReplaced, IsCall
<1>3. CASE c.action # "draft" /\ c.heard
  <2> PICK new : new = IF c.action = "restore_previous" THEN NoUndo
                       ELSE [id |-> c.id, replaced |-> c.replaced, count |-> c.count]
    OBVIOUS
  <2>1. patches' = patches \ {c}
    BY <1>3 DEF PatchAnswered
  <2> PICK open, lock, monitor, undo :
        page = [open |-> open, busy |-> lock, monitor |-> monitor, undo |-> undo]
    BY DEF UInv, PageOK
  <2>2. \E m : page' = [open |-> open, busy |-> FALSE, monitor |-> m, undo |-> new]
    BY <1>3 DEF PatchAnswered
  <2>3. PageOK(page')
    BY <1>0, <1>3, <2>2 DEF IsCall, PageOK
  <2>4. \A d \in patches' : ~d.heard
    BY <1>3, <2>1 DEF UInv
  <2> QED
    BY <1>0, <2>1, <2>3, <2>4 DEF UInv, UndoRestores, ReviewOK, PageOK, LastReplaced, IsCall
<1> QED
  BY <1>1, <1>2, <1>3

LEMMA AnswerFails ==
  ASSUME UInv, NEW c \in patches, PatchFailed(c)
  PROVE  UInv'
<1>1. /\ IsCall(c) /\ c.heard /\ UNCHANGED <<reviews, restored>>
      /\ patches' \subseteq (patches \ {c}) \cup {Unheard(c)}
      /\ page' = [page EXCEPT !.busy = FALSE]
  BY DEF PatchFailed, UInv
<1>2. IsCall(Unheard(c)) /\ Unheard(c).heard = FALSE
  BY <1>1, UnheardCall
<1>3. \A d \in patches' : IsCall(d) /\ ~d.heard
  BY <1>1, <1>2 DEF UInv
<1> PICK open, lock, monitor, undo :
      page = [open |-> open, busy |-> lock, monitor |-> monitor, undo |-> undo]
  BY DEF UInv, PageOK
<1>4. page' = [open |-> open, busy |-> FALSE, monitor |-> monitor, undo |-> undo]
  BY <1>1
<1>5. PageOK(page')
  BY <1>4 DEF UInv, PageOK
<1> QED
  BY <1>1, <1>3, <1>5 DEF UInv, UndoRestores, ReviewOK, PageOK, LastReplaced, IsCall

LEMMA MonitorGoesOn ==
  ASSUME UInv, [MonitorNext]_monitorVars
  PROVE  UInv'
<1> PICK open, lock, monitor, undo :
      page = [open |-> open, busy |-> lock, monitor |-> monitor, undo |-> undo]
  BY DEF UInv, PageOK
<1>1. CASE OpenUpdates
  <2>1. /\ page' = [open |-> TRUE, busy |-> FALSE, monitor |-> NoMonitor, undo |-> NoUndo]
        /\ UNCHANGED <<reviews, patches, restored>> /\ ~page.open
    BY <1>1 DEF OpenUpdates, Loads, NoPage
  <2>2. PageOK(page')
    BY <2>1 DEF PageOK
  <2>3. \A c \in patches' : ~c.heard
    BY <2>1 DEF UInv
  <2> QED
    BY <2>1, <2>2, <2>3 DEF UInv, UndoRestores, ReviewOK, PageOK, LastReplaced, IsCall
<1>2. CASE LeaveUpdates
  <2>1. /\ page' = NoPage /\ UNCHANGED <<reviews, restored>>
        /\ patches' = {Unheard(c) : c \in patches}
    BY <1>2 DEF LeaveUpdates
  <2>2. PageOK(page')
    BY <2>1 DEF PageOK, NoPage
  <2> QED
    BY <2>1, <2>2, AllUnheard
<1>3. ASSUME WorldChanges \/ ReadMonitor \/ UNCHANGED monitorVars PROVE UInv'
  <2>1. UNCHANGED <<reviews, page, patches, restored>>
    BY <1>3 DEF WorldChanges, Loads, ReadMonitor, monitorVars
  <2> QED
    BY <2>1 DEF UInv, UndoRestores, ReviewOK, PageOK, LastReplaced, IsCall
<1>4. ASSUME MonitorArrives \/ MonitorFails \/ (\E item \in Rejected : PromoteRejected(item))
      PROVE  UInv'
  <2>1. UNCHANGED <<reviews, patches, restored>>
    BY <1>4 DEF MonitorArrives, MonitorFails, PromoteRejected
  <2>2. \E m : page' = [page EXCEPT !.monitor = m]
    BY <1>4 DEF MonitorArrives, MonitorFails, PromoteRejected
  <2>3. PICK m : page' = [open |-> open, busy |-> lock, monitor |-> m, undo |-> undo]
    BY <2>2
  <2>4. /\ page'.open = page.open /\ page'.busy = page.busy /\ page'.undo = page.undo
        /\ PageOK(page')
    BY <2>3 DEF UInv, PageOK
  <2> QED
    BY <2>1, <2>4, PageStays
<1>5. ASSUME NEW u \in Updates, NEW action, action # "restore_previous", Begins(u, action)
      PROVE  UInv'
  BY <1>5, CallBegins
<1>6. CASE UndoLastReview
  <2>1. page.undo # NoUndo /\ page.undo.id \in Updates
        /\ Begins(page.undo.id, "restore_previous")
    BY <1>6 DEF UndoLastReview, UInv, PageOK
  <2> QED
    BY <2>1, CallBegins
<1>7. ASSUME NEW u \in Updates, NEW action, OthersReview(u, action) PROVE UInv'
  <2>1. /\ reviews' = [reviews EXCEPT ![u] = Reviewed(@, action)]
        /\ UNCHANGED <<page, patches, restored>>
    BY <1>7 DEF OthersReview
  <2>2. /\ reviews' = [v \in Updates |-> reviews'[v]]
        /\ \A v \in Updates : ReviewOK(reviews'[v])
        /\ \A v \in Updates : \A replaced, count :
             LastReplaced(v, replaced, count) => LastReplaced(v, replaced, count)'
    BY <2>1, ReviewsGrow
  <2>3. PageOK(page)' /\ \A c \in patches' : IsCall(c)'
    BY <2>1, <2>2 DEF UInv, PageOK, IsCall
  <2> QED
    BY <2>1, <2>2, <2>3 DEF UInv, UndoRestores
<1>8. \A action \in DOMAIN StatusOf : action # "restore_previous"
  BY DEF StatusOf
<1> QED
  BY <1>1, <1>2, <1>3, <1>4, <1>5, <1>6, <1>7, <1>8, ServedCall, DraftServed, AnswerTaken,
     AnswerFails DEF MonitorNext, Review, DraftWork

(* An undo of the page takes back the review of the page, however old the  *)
(* page is, or the one that came after it (UndoRestores).                  *)
THEOREM UndoAlwaysRestores == MonitorSpec => []UndoRestores
<1>1. UInv => UndoRestores
  BY DEF UInv
<1> QED
  BY <1>1, MonitorBegins, MonitorGoesOn, PTL DEF MonitorSpec
-----------------------------------------------------------------------------
(* Client lists.                                                           *)

IsErrand(e) ==
  e = [number |-> e.number, type |-> e.type, chosen |-> e.chosen, mixed |-> e.mixed,
       phase |-> e.phase, list |-> e.list, heard |-> e.heard]

(* An errand knows its list, and was begun with what was chosen.           *)
ErrandOK(e) ==
  /\ IsErrand(e)
  /\ e.mixed \/ \A r \in e.chosen : r.as = e.type
  /\ e.phase \in {"created", "members", "verified", "refused"} =>
       e.list \in DOMAIN lists /\ lists[e.list].key = Key(e)
  /\ e.phase = "verified" => Ids(e) \subseteq lists[e.list].members

PickerOK(p) ==
  /\ p = [open |-> p.open, type |-> p.type, found |-> p.found, selected |-> p.selected,
          creating |-> p.creating, mixed |-> p.mixed]
  /\ p.type \in ListTypes
  /\ \A r \in p.selected : r.as \in ListTypes
  /\ p.mixed \/ \A r \in p.selected : r.as = p.type

IsList(l) == l = [key |-> l.key, members |-> l.members]

ListsOK ==
  /\ \E S : lists \in Seq(S)
  /\ \A i \in DOMAIN lists : IsList(lists[i])

(* Each list is the remembered one of its key, and whoever has asked for   *)
(* one goes for a key that has none - or the key is excused.               *)
MadeOnce ==
  /\ \A k \in DOMAIN remembered : remembered[k] \in DOMAIN lists /\ lists[remembered[k]].key = k
  /\ \A i \in DOMAIN lists :
       \/ lists[i].key \in excused
       \/ lists[i].key \in DOMAIN remembered /\ remembered[lists[i].key] = i
  /\ \A e \in errands : e.phase = "asked" => Key(e) \in excused \/ Key(e) \notin DOMAIN remembered
  /\ \A d, e \in errands : d # e /\ Key(d) = Key(e) => Key(e) \in excused

ListInv ==
  /\ ListsOK
  /\ PickerOK(picker)
  /\ \A e \in errands : ErrandOK(e)
  /\ MadeOnce

LEMMA ListInvEnough == ListInv => ListAsChosen
<1> SUFFICES ASSUME ListInv PROVE ListAsChosen
  OBVIOUS
<1>1. \A e \in errands : e.phase = "verified" =>
        /\ Ids(e) \subseteq lists[e.list].members
        /\ lists[e.list].key = Key(e)
        /\ e.mixed \/ \A r \in e.chosen : r.as = e.type
  BY DEF ListInv, ErrandOK
<1>2. \A i, j \in DOMAIN lists :
        i # j /\ lists[i].key = lists[j].key => lists[i].key \in excused
  BY DEF ListInv, MadeOnce
<1> QED
  BY <1>1, <1>2 DEF ListAsChosen

LEMMA ListsBegin == ListsInit => ListInv
<1> SUFFICES ASSUME ListsInit PROVE ListInv
  OBVIOUS
<1>1. lists = <<>> /\ remembered = <<>> /\ picker = NoPicker /\ errands = {}
  BY DEF ListsInit
<1>2. PickerOK(picker)
  BY <1>1 DEF PickerOK, NoPicker, ListTypes
<1>3. ListsOK
  <2>1. lists \in Seq({})
    BY <1>1
  <2> QED
    BY <1>1, <2>1 DEF ListsOK
<1> QED
  BY <1>1, <1>2, <1>3 DEF ListInv, MadeOnce

(* A list more, or a list with more members.                               *)
Grows ==
  /\ DOMAIN lists \subseteq DOMAIN lists'
  /\ \A i \in DOMAIN lists : lists'[i].key = lists[i].key
                             /\ lists[i].members \subseteq lists'[i].members

LEMMA ErrandsKeep ==
  ASSUME Grows, NEW e, ErrandOK(e)
  PROVE  ErrandOK(e)'
BY DEF Grows, ErrandOK, IsErrand, Key, Ids

LEMMA ListAdded ==
  ASSUME ListInv, NEW k, lists' = Append(lists, [key |-> k, members |-> {}])
  PROVE  /\ ListsOK' /\ Grows
         /\ DOMAIN lists' = DOMAIN lists \cup {Len(lists')}
         /\ Len(lists') \notin DOMAIN lists /\ lists'[Len(lists')].key = k
<1> PICK l : l = [key |-> k, members |-> {}]
  OBVIOUS
<1>1. PICK S : lists \in Seq(S)
  BY DEF ListInv, ListsOK
<1>2. lists \in Seq(S \cup {l}) /\ l \in S \cup {l}
  BY <1>1
<1>3. /\ lists' \in Seq(S \cup {l}) /\ Len(lists') = Len(lists) + 1
      /\ \A i \in 1 .. Len(lists) : lists'[i] = lists[i]
      /\ lists'[Len(lists) + 1] = l
  BY <1>2, AppendProperties
<1>4. DOMAIN lists = 1 .. Len(lists) /\ Len(lists) \in Nat /\ DOMAIN lists' = 1 .. Len(lists')
  BY <1>1, <1>3
<1>5. IsList(l) /\ l.key = k
  BY DEF IsList
<1>6. \A i \in DOMAIN lists' : i \in DOMAIN lists \/ i = Len(lists) + 1
  BY <1>3, <1>4
<1>7. ListsOK'
  BY <1>3, <1>4, <1>5, <1>6 DEF ListInv, ListsOK
<1>8. Grows
  BY <1>3, <1>4 DEF Grows
<1> QED
  BY <1>3, <1>4, <1>5, <1>7, <1>8

(* An errand goes on, with what it was begun with.                         *)
MovedTo(e, phase) == [e EXCEPT !.phase = phase]
MovedToList(e, phase, place) == [e EXCEPT !.phase = phase, !.list = place]

LEMMA ErrandMoves ==
  ASSUME NEW e, IsErrand(e), NEW phase, NEW place
  PROVE  /\ IsErrand(MovedTo(e, phase)) /\ IsErrand(MovedToList(e, phase, place))
         /\ MovedTo(e, phase).phase = phase /\ MovedTo(e, phase).list = e.list
         /\ MovedTo(e, phase).chosen = e.chosen /\ MovedTo(e, phase).type = e.type
         /\ MovedTo(e, phase).mixed = e.mixed
         /\ MovedToList(e, phase, place).phase = phase /\ MovedToList(e, phase, place).list = place
         /\ MovedToList(e, phase, place).chosen = e.chosen /\ MovedToList(e, phase, place).type = e.type
         /\ MovedToList(e, phase, place).mixed = e.mixed
<1> PICK number, type, chosen, mixed, phase0, list0, heard :
      e = [number |-> number, type |-> type, chosen |-> chosen, mixed |-> mixed,
           phase |-> phase0, list |-> list0, heard |-> heard]
  BY DEF IsErrand
<1>1. MovedTo(e, phase) = [number |-> number, type |-> type, chosen |-> chosen, mixed |-> mixed,
                      phase |-> phase, list |-> list0, heard |-> heard]
  BY DEF MovedTo
<1>2. PICK m : m = MovedToList(e, phase, place)
  OBVIOUS
<1>3. m = [number |-> number, type |-> type, chosen |-> chosen, mixed |-> mixed,
           phase |-> phase, list |-> place, heard |-> heard]
  BY <1>2 DEF MovedToList
<1> QED
  BY <1>1, <1>2, <1>3 DEF IsErrand

(* A step of one errand, by what it does to the lists and to the memory.   *)
LEMMA ErrandStep ==
  ASSUME ListInv, NEW e \in errands, NEW f, Moves(e, f),
         f.chosen = e.chosen, f.type = e.type, ListsOK', ErrandOK(f)', Grows,
         excused' = excused, MadeOnce' \/ UNCHANGED <<lists, remembered>>,
         f.phase = "asked" => Key(e) \notin DOMAIN remembered
  PROVE  ListInv'
<1>1. errands' = (errands \ {e}) \cup {f} /\ UNCHANGED picker
  BY DEF Moves
<1>2. Key(f) = Key(e)
  BY DEF Key, Ids
<1>3. \A d \in errands' : ErrandOK(d)'
  BY <1>1, ErrandsKeep DEF ListInv
<1>4. PickerOK(picker)'
  BY <1>1 DEF ListInv
<1>5. ASSUME UNCHANGED <<lists, remembered>> PROVE MadeOnce'
  <2>1. /\ \A k \in DOMAIN remembered :
             remembered[k] \in DOMAIN lists /\ lists[remembered[k]].key = k
        /\ \A i \in DOMAIN lists :
             \/ lists[i].key \in excused
             \/ lists[i].key \in DOMAIN remembered /\ remembered[lists[i].key] = i
    BY DEF ListInv, MadeOnce
  <2>2. \A d \in errands' : d.phase = "asked" =>
          Key(d) \in excused \/ Key(d) \notin DOMAIN remembered
    BY <1>1, <1>2 DEF ListInv, MadeOnce
  <2>3. \A d \in errands \ {e} : Key(d) = Key(e) => Key(e) \in excused
    BY DEF ListInv, MadeOnce
  <2>4. \A c, d \in errands' : c # d /\ Key(c) = Key(d) => Key(d) \in excused
    BY <1>1, <1>2, <2>3 DEF ListInv, MadeOnce
  <2> QED
    BY <1>5, <2>1, <2>2, <2>4 DEF MadeOnce, Key, Ids
<1> QED
  BY <1>3, <1>4, <1>5 DEF ListInv

LEMMA RecallKeeps ==
  ASSUME ListInv, NEW e \in errands, Recall(e)
  PROVE  ListInv'
<1> PICK place : place = remembered[Key(e)]
  OBVIOUS
<1> PICK f : f = MovedToList(e, "created", place)
  OBVIOUS
<1>1. Moves(e, f) /\ UNCHANGED <<lists, remembered, excused>> /\ Key(e) \in DOMAIN remembered
  BY DEF Recall, MovedToList
<1>2. ErrandOK(e) /\ place \in DOMAIN lists /\ lists[place].key = Key(e)
  BY <1>1 DEF ListInv, MadeOnce
<1>3. /\ IsErrand(f) /\ f.phase = "created" /\ f.list = place
      /\ f.chosen = e.chosen /\ f.type = e.type /\ f.mixed = e.mixed
  BY <1>2, ErrandMoves DEF ErrandOK
<1>4. Key(f) = Key(e)
  BY <1>3 DEF Key, Ids
<1>5. ErrandOK(f)
  BY <1>2, <1>3, <1>4 DEF ErrandOK
<1>6. ErrandOK(f)' /\ ListsOK' /\ Grows
  BY <1>1, <1>5 DEF ErrandOK, Key, Ids, IsErrand, ListInv, ListsOK, Grows
<1> QED
  BY <1>1, <1>3, <1>6, ErrandStep

(* The steps that take an errand on, and leave HubSpot as it is.           *)
LEMMA ErrandGoesOn ==
  ASSUME ListInv, NEW e \in errands, NEW phase, NEW f, f = MovedTo(e, phase), Moves(e, f),
         UNCHANGED <<lists, remembered, excused>>,
         \/ phase = "asked" /\ Key(e) \notin DOMAIN remembered
         \/ phase = "members" /\ e.phase = "created"
  PROVE  ListInv'
<1>1. ErrandOK(e)
  BY DEF ListInv
<1>2. /\ IsErrand(f) /\ f.phase = phase /\ f.list = e.list
      /\ f.chosen = e.chosen /\ f.type = e.type /\ f.mixed = e.mixed
  BY <1>1, ErrandMoves DEF ErrandOK
<1>3. Key(f) = Key(e)
  BY <1>2 DEF Key, Ids
<1>4. ErrandOK(f)
  BY <1>1, <1>2, <1>3 DEF ErrandOK
<1>5. ErrandOK(f)' /\ ListsOK' /\ Grows
  BY <1>4 DEF ErrandOK, Key, Ids, IsErrand, ListInv, ListsOK, Grows
<1>6. f.phase = "asked" => Key(e) \notin DOMAIN remembered
  BY <1>2
<1> QED
  BY <1>2, <1>5, <1>6, ErrandStep

(* A list that HubSpot makes and the API remembers: no other of its key    *)
(* was made, or the key is excused.                                        *)
LEMMA HubSpotCreatesKeeps ==
  ASSUME ListInv, NEW e \in errands, HubSpotCreates(e)
  PROVE  ListInv'
<1> PICK key : key = Key(e)
  OBVIOUS
<1> PICK place : place = Len(lists')
  OBVIOUS
<1> PICK f : f = MovedToList(e, "created", place)
  OBVIOUS
<1>1. /\ Moves(e, f) /\ excused' = excused /\ e.phase = "asked"
      /\ lists' = Append(lists, [key |-> key, members |-> {}])
      /\ remembered' = [k \in DOMAIN remembered \cup {key} |->
                          IF k = key THEN place ELSE remembered[k]]
  BY DEF HubSpotCreates, MovedToList
<1>2. ErrandOK(e) /\ MadeOnce
  BY DEF ListInv
<1>3. /\ ListsOK' /\ Grows
      /\ DOMAIN lists' = DOMAIN lists \cup {place}
      /\ place \notin DOMAIN lists /\ lists'[place].key = key
  BY <1>1, ListAdded
<1>4. /\ IsErrand(f) /\ f.phase = "created" /\ f.list = place
      /\ f.chosen = e.chosen /\ f.type = e.type /\ f.mixed = e.mixed
  BY <1>2, ErrandMoves DEF ErrandOK
<1>5. Key(f) = key /\ Key(f)' = key
  BY <1>4 DEF Key, Ids
<1>6. ErrandOK(f)'
  BY <1>2, <1>3, <1>4, <1>5 DEF ErrandOK, IsErrand
<1>7. key \in excused \/ key \notin DOMAIN remembered
  BY <1>1, <1>2 DEF MadeOnce
<1>8. MadeOnce'
  <2>1. DOMAIN remembered' = DOMAIN remembered \cup {key} /\ remembered'[key] = place
        /\ \A k \in DOMAIN remembered : k # key => remembered'[k] = remembered[k]
    BY <1>1
  <2>2. \A k \in DOMAIN remembered' :
          remembered'[k] \in DOMAIN lists' /\ lists'[remembered'[k]].key = k
    BY <1>2, <1>3, <2>1 DEF MadeOnce, Grows
  <2>3. ASSUME NEW i \in DOMAIN lists'
        PROVE  \/ lists'[i].key \in excused'
               \/ lists'[i].key \in DOMAIN remembered' /\ remembered'[lists'[i].key] = i
    <3>1. CASE i = place
      BY <1>3, <2>1, <3>1
    <3>2. CASE i \in DOMAIN lists
      <4>1. lists'[i].key = lists[i].key
        BY <1>3, <3>2 DEF Grows
      <4> QED
        BY <1>1, <1>2, <1>7, <2>1, <3>2, <4>1 DEF MadeOnce
    <3> QED
      BY <1>3, <3>1, <3>2
  <2>4. errands' = (errands \ {e}) \cup {f}
    BY <1>1 DEF Moves
  <2>5. \A d \in errands \ {e} : Key(d) = key => key \in excused
    BY <1>2 DEF MadeOnce
  <2>6. \A d \in errands' : d.phase = "asked" =>
          d \in errands /\ (Key(d) \in excused \/ Key(d) \notin DOMAIN remembered \cup {key})
    BY <1>2, <1>4, <2>4, <2>5 DEF MadeOnce
  <2>7. \A c, d \in errands' : c # d /\ Key(c) = Key(d) => Key(d) \in excused
    BY <1>2, <1>5, <2>4, <2>5 DEF MadeOnce
  <2>8. \A d : Key(d)' = Key(d)
    BY DEF Key, Ids
  <2> QED
    BY <1>1, <2>1, <2>2, <2>3, <2>6, <2>7, <2>8 DEF MadeOnce
<1> QED
  BY <1>1, <1>3, <1>4, <1>6, <1>8, ErrandStep

LEMMA AddRecordsKeeps ==
  ASSUME ListInv, NEW e \in errands, AddRecords(e)
  PROVE  ListInv'
<1> PICK phase : phase = IF Ids(e) \subseteq lists'[e.list].members THEN "verified" ELSE "refused"
  OBVIOUS
<1> PICK f : f = MovedTo(e, phase)
  OBVIOUS
<1> PICK added : added = Ids(e) \cap HubSpotIds[e.type]
  OBVIOUS
<1>1. /\ Moves(e, f) /\ UNCHANGED <<remembered, excused>> /\ e.phase = "members"
      /\ lists' = [lists EXCEPT ![e.list].members = @ \cup added]
  BY DEF AddRecords, MovedTo
<1>2. ErrandOK(e) /\ MadeOnce /\ ListsOK
  BY DEF ListInv
<1>3. e.list \in DOMAIN lists /\ lists[e.list].key = Key(e)
  BY <1>1, <1>2 DEF ErrandOK
<1>4. PICK S : lists \in Seq(S)
  BY <1>2 DEF ListsOK
<1> PICK l : l = [lists[e.list] EXCEPT !.members = @ \cup added]
  OBVIOUS
<1>5. IsList(l) /\ l.key = lists[e.list].key /\ l.members = lists[e.list].members \cup added
  <2>1. PICK key, members : lists[e.list] = [key |-> key, members |-> members]
    BY <1>2, <1>3 DEF ListsOK, IsList
  <2>2. l = [key |-> key, members |-> members \cup added]
    BY <2>1
  <2> QED
    BY <2>1, <2>2 DEF IsList
<1>6. lists' = [lists EXCEPT ![e.list] = l]
  BY <1>1
<1>7. lists' \in Seq(S \cup {l})
  BY <1>3, <1>4, <1>6
<1>8. DOMAIN lists' = DOMAIN lists
      /\ \A i \in DOMAIN lists : lists'[i] = IF i = e.list THEN l ELSE lists[i]
  BY <1>6
<1>9. ListsOK' /\ Grows
  BY <1>2, <1>5, <1>7, <1>8 DEF ListsOK, Grows
<1>11. /\ IsErrand(f) /\ f.phase = phase /\ f.list = e.list
       /\ f.chosen = e.chosen /\ f.type = e.type /\ f.mixed = e.mixed
  BY <1>2, ErrandMoves DEF ErrandOK
<1>12. Key(f) = Key(e) /\ Ids(f) = Ids(e)
  BY <1>11 DEF Key, Ids
<1>13. /\ f.mixed \/ \A r \in f.chosen : r.as = f.type
       /\ f.list \in DOMAIN lists' /\ lists'[f.list].key = Key(f)
       /\ f.phase = "verified" => Ids(f) \subseteq lists'[f.list].members
  BY <1>2, <1>3, <1>5, <1>8, <1>11, <1>12 DEF ErrandOK
<1>14. ErrandOK(f)'
  BY <1>11, <1>13 DEF ErrandOK, IsErrand, Key, Ids
<1>15. MadeOnce'
  <2>1. errands' = (errands \ {e}) \cup {f} /\ f.phase # "asked"
    BY <1>1, <1>11 DEF Moves
  <2>2. \A i \in DOMAIN lists : lists'[i].key = lists[i].key
    BY <1>9 DEF Grows
  <2>3. \A c, d \in errands' : c # d /\ Key(c) = Key(d) => Key(d) \in excused
    <3>1. \A d \in errands \ {e} : Key(d) = Key(e) => Key(e) \in excused
      BY <1>2 DEF MadeOnce
    <3> QED
      BY <1>2, <1>12, <2>1, <3>1 DEF MadeOnce
  <2>4. \A d : Key(d)' = Key(d)
    BY DEF Key, Ids
  <2>5. \A d \in errands' : d.phase = "asked" => Key(d) \in excused \/ Key(d) \notin DOMAIN remembered
    BY <1>2, <2>1 DEF MadeOnce
  <2> QED
    BY <1>1, <1>2, <1>8, <2>2, <2>3, <2>4, <2>5 DEF MadeOnce
<1> QED
  BY <1>1, <1>9, <1>11, <1>14, <1>15, ErrandStep

(* The steps of the page, which leave HubSpot and the errands alone.       *)
LEMMA PickerKeeps ==
  ASSUME ListInv, PickerOK(picker'), UNCHANGED <<lists, remembered, errands, excused>>
  PROVE  ListInv'
<1>1. ListsOK' /\ MadeOnce' /\ (\A e \in errands' : ErrandOK(e)')
  BY DEF ListInv, ListsOK, MadeOnce, ErrandOK, Key, Ids, IsErrand
<1>2. PickerOK(picker)'
  OBVIOUS
<1> QED
  BY <1>1, <1>2 DEF ListInv

LEMMA PickerSteps ==
  ASSUME ListInv, ListsNext,
         \/ OpenLists \/ (\E id : Toggle(id) \/ AddFound(id))
         \/ (\E type \in ListTypes : PickType(type))
         \/ (\E query : RunLookup(query)) \/ (\E s : LookupArrives(s) \/ LookupFails(s))
  PROVE  ListInv'
<1>1. PICK open, type, found, picks, creating, mixed :
        /\ picker = [open |-> open, type |-> type, found |-> found, selected |-> picks,
                     creating |-> creating, mixed |-> mixed]
        /\ type \in ListTypes /\ (\A r \in picks : r.as \in ListTypes)
        /\ mixed \/ \A r \in picks : r.as = type
  BY DEF ListInv, PickerOK
<1>2. ASSUME NEW s, NEW id, NEW kind, s = Toggled(id, kind)
      PROVE  \A r \in s : r \in picks \/ r.as = kind
  BY <1>1, <1>2 DEF Toggled
<1>3. CASE OpenLists
  <2>1. /\ picker' = [NoPicker EXCEPT !.open = TRUE]
        /\ UNCHANGED <<lists, remembered, errands, excused>>
    BY <1>3 DEF OpenLists, Displays
  <2> QED
    BY <2>1, PickerKeeps DEF PickerOK, NoPicker, ListTypes
<1>4. CASE \E id : Toggle(id)
  <2>1. PICK id : Toggle(id)
    BY <1>4
  <2> PICK s : s = Toggled(id, type)
    OBVIOUS
  <2>2. picker' = [picker EXCEPT !.selected = s] /\ UNCHANGED <<lists, remembered, errands, excused>>
    BY <1>1, <2>1 DEF Toggle, Displays
  <2>3. picker' = [open |-> open, type |-> type, found |-> found, selected |-> s,
                   creating |-> creating, mixed |-> mixed]
    BY <1>1, <2>2
  <2>4. PickerOK(picker')
    BY <1>1, <1>2, <2>3 DEF PickerOK
  <2> QED
    BY <2>2, <2>4, PickerKeeps
<1>5. CASE \E id : AddFound(id)
  <2>1. PICK id : AddFound(id)
    BY <1>5
  <2> PICK s : s = Toggled(id, "company")
    OBVIOUS
  <2> PICK mixed1 : mixed1 = (mixed \/ \E r \in picks : r.as = "contact")
    OBVIOUS
  <2>2. UNCHANGED <<lists, remembered, errands, excused>>
    BY <2>1 DEF AddFound, Displays
  <2>3. picker' = [picker EXCEPT !.type = "company", !.selected = s, !.mixed = mixed1]
    BY <1>1, <2>1 DEF AddFound, Displays
  <2>4. picker' = [open |-> open, type |-> "company", found |-> found, selected |-> s,
                   creating |-> creating, mixed |-> mixed1]
    BY <1>1, <2>3
  <2>5. mixed1 \/ \A r \in s : r.as = "company"
    BY <1>1, <1>2 DEF ListTypes
  <2>6. PickerOK(picker')
    BY <1>1, <1>2, <2>4, <2>5 DEF PickerOK, ListTypes
  <2> QED
    BY <2>2, <2>6, PickerKeeps
<1>6. CASE \E kind \in ListTypes : PickType(kind)
  <2>1. PICK kind \in ListTypes : PickType(kind)
    BY <1>6
  <2>2. /\ picker' = [picker EXCEPT !.type = kind, !.selected = {}, !.mixed = FALSE]
        /\ UNCHANGED <<lists, remembered, errands, excused>>
    BY <2>1 DEF PickType, Displays
  <2>3. picker' = [open |-> open, type |-> kind, found |-> found, selected |-> {},
                   creating |-> creating, mixed |-> FALSE]
    BY <1>1, <2>2
  <2> QED
    BY <2>2, <2>3, PickerKeeps DEF PickerOK
<1>7. ASSUME NEW found1, picker' = [picker EXCEPT !.found = found1],
             UNCHANGED <<lists, remembered, errands, excused>>
      PROVE  ListInv'
  <2>1. picker' = [open |-> open, type |-> type, found |-> found1, selected |-> picks,
                   creating |-> creating, mixed |-> mixed]
    BY <1>1, <1>7
  <2> QED
    BY <1>1, <1>7, <2>1, PickerKeeps DEF PickerOK
<1>8. CASE \E query : RunLookup(query)
  BY <1>7, <1>8 DEF RunLookup
<1>9. CASE \E s : LookupArrives(s)
  BY <1>7, <1>9 DEF LookupArrives
<1>10. CASE \E s : LookupFails(s)
  BY <1>10, PickerKeeps DEF LookupFails, ListInv
<1> QED
  BY <1>3, <1>4, <1>5, <1>6, <1>8, <1>9, <1>10

(* A page that is left hears of none of its errands, which go on.          *)
LeftBehind(e) == [e EXCEPT !.heard = FALSE]

LEMMA LeftBehindKeeps ==
  ASSUME NEW e, IsErrand(e)
  PROVE  /\ IsErrand(LeftBehind(e)) /\ Key(LeftBehind(e)) = Key(e) /\ Ids(LeftBehind(e)) = Ids(e)
         /\ LeftBehind(e).phase = e.phase /\ LeftBehind(e).list = e.list /\ LeftBehind(e).type = e.type
         /\ LeftBehind(e).chosen = e.chosen /\ LeftBehind(e).mixed = e.mixed
<1> PICK number, type, chosen, mixed, phase, list0, heard :
      e = [number |-> number, type |-> type, chosen |-> chosen, mixed |-> mixed,
           phase |-> phase, list |-> list0, heard |-> heard]
  BY DEF IsErrand
<1> PICK u : u = LeftBehind(e)
  OBVIOUS
<1>1. u = [number |-> number, type |-> type, chosen |-> chosen, mixed |-> mixed,
           phase |-> phase, list |-> list0, heard |-> FALSE]
  BY DEF LeftBehind
<1>2. /\ IsErrand(u) /\ u.phase = e.phase /\ u.list = e.list
      /\ u.type = e.type /\ u.chosen = e.chosen /\ u.mixed = e.mixed
  BY <1>1 DEF IsErrand
<1>3. Key(u) = Key(e) /\ Ids(u) = Ids(e)
  BY <1>2 DEF Key, Ids
<1> QED
  BY <1>2, <1>3

LEMMA LeaveListsKeeps ==
  ASSUME ListInv, LeaveLists
  PROVE  ListInv'
<1>1. /\ picker' = NoPicker /\ UNCHANGED <<lists, remembered, excused>>
      /\ errands' = {LeftBehind(e) : e \in errands}
  BY DEF LeaveLists, LeftBehind
<1>2. PickerOK(picker)'
  BY <1>1 DEF PickerOK, NoPicker, ListTypes
<1>3. ListsOK'
  BY <1>1 DEF ListInv, ListsOK
<1>4. ASSUME NEW u \in errands' PROVE ErrandOK(u)'
  <2>1. PICK e \in errands : u = LeftBehind(e)
    BY <1>1
  <2>2. ErrandOK(e)
    BY DEF ListInv
  <2>3. /\ IsErrand(u) /\ Key(u) = Key(e) /\ Ids(u) = Ids(e) /\ u.phase = e.phase
        /\ u.list = e.list /\ u.type = e.type /\ u.chosen = e.chosen /\ u.mixed = e.mixed
    BY <2>1, <2>2, LeftBehindKeeps DEF ErrandOK
  <2>4. ErrandOK(u)
    BY <2>2, <2>3 DEF ErrandOK
  <2> QED
    BY <1>1, <2>4 DEF ErrandOK, Key, Ids, IsErrand
<1>5. MadeOnce'
  <2>1. MadeOnce /\ \A e \in errands : IsErrand(e)
    BY DEF ListInv, ErrandOK
  <2>2. \A e \in errands : Key(LeftBehind(e)) = Key(e) /\ LeftBehind(e).phase = e.phase
    BY <2>1, LeftBehindKeeps
  <2>3. \A u \in errands' : u.phase = "asked" => Key(u) \in excused \/ Key(u) \notin DOMAIN remembered
    BY <1>1, <2>1, <2>2 DEF MadeOnce
  <2>4. \A t, u \in errands' : t # u /\ Key(t) = Key(u) => Key(u) \in excused
    BY <1>1, <2>1, <2>2 DEF MadeOnce
  <2>5. \A d : Key(d)' = Key(d)
    BY DEF Key, Ids
  <2> QED
    BY <1>1, <2>1, <2>3, <2>4, <2>5 DEF MadeOnce
<1> QED
  BY <1>2, <1>3, <1>4, <1>5 DEF ListInv

(* The page, with or without a creation that it waits for.                 *)
LEMMA PickerWaits ==
  ASSUME ListInv, NEW b \in BOOLEAN, NEW p, p = [picker EXCEPT !.creating = b]
  PROVE  PickerOK(p)
<1>1. PICK open, type, found, picks, creating, mixed :
        /\ picker = [open |-> open, type |-> type, found |-> found, selected |-> picks,
                     creating |-> creating, mixed |-> mixed]
        /\ type \in ListTypes /\ (\A r \in picks : r.as \in ListTypes)
        /\ mixed \/ \A r \in picks : r.as = type
  BY DEF ListInv, PickerOK
<1>2. p = [open |-> open, type |-> type, found |-> found, selected |-> picks,
           creating |-> b, mixed |-> mixed]
  BY <1>1
<1> QED
  BY <1>1, <1>2 DEF PickerOK

LEMMA CreateClientListKeeps ==
  ASSUME ListInv, CreateClientList
  PROVE  ListInv'
<1>1. PICK e : /\ e = [number |-> effort.lists, type |-> picker.type, chosen |-> picker.selected,
                       mixed |-> picker.mixed, phase |-> "create", list |-> 0, heard |-> TRUE]
               /\ picker' = [picker EXCEPT !.creating = TRUE]
               /\ errands' = errands \cup {e}
               /\ excused' = IF \E d \in errands : Key(d) = Key(e)
                             THEN excused \cup {Key(e)} ELSE excused
               /\ UNCHANGED <<lists, remembered>>
  BY DEF CreateClientList
<1>2. /\ IsErrand(e) /\ e.phase = "create" /\ e.type = picker.type
      /\ e.chosen = picker.selected /\ e.mixed = picker.mixed
  BY <1>1 DEF IsErrand
<1>3. PickerOK(picker)'
  BY <1>1, PickerWaits
<1>4. \A d \in errands' : ErrandOK(d)'
  <2>1. ErrandOK(e)
    BY <1>2 DEF ErrandOK, ListInv, PickerOK
  <2> QED
    BY <1>1, <2>1 DEF ListInv, ErrandOK, Key, Ids, IsErrand
<1>5. MadeOnce'
  <2>1. MadeOnce
    BY DEF ListInv
  <2>2. excused \subseteq excused'
    BY <1>1
  <2>3. \A d \in errands : Key(d) = Key(e) => Key(e) \in excused'
    BY <1>1
  <2>4. \A c, d \in errands' : c # d /\ Key(c) = Key(d) => Key(d) \in excused'
    BY <1>1, <2>1, <2>2, <2>3, ZenonT(60) DEF MadeOnce
  <2>5. \A d \in errands' : d.phase = "asked" => Key(d) \in excused' \/ Key(d) \notin DOMAIN remembered
    BY <1>1, <1>2, <2>1, <2>2 DEF MadeOnce
  <2>6. \A d : Key(d)' = Key(d)
    BY DEF Key, Ids
  <2>7. \A i \in DOMAIN lists : \/ lists[i].key \in excused'
                                \/ lists[i].key \in DOMAIN remembered /\ remembered[lists[i].key] = i
    BY <2>1, <2>2 DEF MadeOnce
  <2> QED
    BY <1>1, <2>1, <2>4, <2>5, <2>6, <2>7 DEF MadeOnce
<1>6. ListsOK'
  BY <1>1 DEF ListInv, ListsOK
<1> QED
  BY <1>3, <1>4, <1>5, <1>6 DEF ListInv

(* An errand ends, after which HubSpot may have a list more that nobody    *)
(* remembers, of a key that is excused.                                    *)
LEMMA ErrandEnds ==
  ASSUME ListInv, NEW e \in errands, Ends(e), remembered' = remembered,
         \/ lists' = lists /\ excused' = excused
         \/ /\ excused' = excused \cup {Key(e)}
            /\ lists' = lists \/ lists' = Append(lists, [key |-> Key(e), members |-> {}])
  PROVE  ListInv'
<1> PICK key : key = Key(e)
  OBVIOUS
<1>1. errands' = errands \ {e}
  BY DEF Ends
<1>2. PickerOK(picker)'
  <2>1. picker' = [picker EXCEPT !.creating = FALSE] \/ picker' = picker
    BY DEF Ends
  <2> QED
    BY <2>1, PickerWaits DEF ListInv
<1>3. CASE lists' = lists
  <2>1. ListsOK' /\ Grows
    BY <1>3 DEF ListInv, ListsOK, Grows
  <2>2. \A d \in errands' : ErrandOK(d)'
    BY <1>1, <2>1, ErrandsKeep DEF ListInv
  <2>3. MadeOnce'
    BY <1>1, <1>3 DEF ListInv, MadeOnce, Key, Ids
  <2> QED
    BY <1>2, <2>1, <2>2, <2>3 DEF ListInv
<1>4. CASE /\ lists' = Append(lists, [key |-> key, members |-> {}])
           /\ excused' = excused \cup {key}
  <2>1. /\ ListsOK' /\ Grows
        /\ DOMAIN lists' = DOMAIN lists \cup {Len(lists')} /\ lists'[Len(lists')].key = key
    BY <1>4, ListAdded
  <2>2. \A d \in errands' : ErrandOK(d)'
    BY <1>1, <2>1, ErrandsKeep DEF ListInv
  <2>3. MadeOnce'
    <3>1. MadeOnce
      BY DEF ListInv
    <3>2. \A i \in DOMAIN lists : lists'[i].key = lists[i].key
      BY <2>1 DEF Grows
    <3>3. \A i \in DOMAIN lists' :
            \/ lists'[i].key \in excused'
            \/ lists'[i].key \in DOMAIN remembered /\ remembered[lists'[i].key] = i
      BY <1>4, <2>1, <3>1, <3>2 DEF MadeOnce
    <3>4. \A k \in DOMAIN remembered :
            remembered[k] \in DOMAIN lists' /\ lists'[remembered[k]].key = k
      BY <2>1, <3>1, <3>2 DEF MadeOnce
    <3>5. \A d : Key(d)' = Key(d)
      BY DEF Key, Ids
    <3>6. \A c, d \in errands' : c # d /\ Key(c) = Key(d) => Key(d) \in excused'
      BY <1>1, <1>4, <3>1 DEF MadeOnce
    <3>7. \A d \in errands' : d.phase = "asked" => Key(d) \in excused' \/ Key(d) \notin DOMAIN remembered
      BY <1>1, <1>4, <3>1 DEF MadeOnce
    <3> QED
      BY <3>3, <3>4, <3>5, <3>6, <3>7 DEF MadeOnce
  <2> QED
    BY <1>2, <2>1, <2>2, <2>3 DEF ListInv
<1> QED
  BY <1>3, <1>4

LEMMA StopApiKeeps ==
  ASSUME ListInv, StopApi
  PROVE  ListInv'
<1>1. /\ remembered' = <<>> /\ errands' = {} /\ lists' = lists
      /\ excused' = excused \cup DOMAIN remembered \cup {Key(e) : e \in errands}
      /\ picker' = [picker EXCEPT !.creating = FALSE]
  BY DEF StopApi
<1>2. PickerOK(picker)'
  BY <1>1, PickerWaits
<1>3. MadeOnce'
  BY <1>1 DEF ListInv, MadeOnce
<1>4. ListsOK'
  BY <1>1 DEF ListInv, ListsOK
<1> QED
  BY <1>1, <1>2, <1>3, <1>4 DEF ListInv

LEMMA ListsStay ==
  ASSUME ListInv, UNCHANGED listVars
  PROVE  ListInv'
BY PickerKeeps DEF ListInv, listVars

LEMMA ListSteps ==
  ASSUME ListInv, ListsNext
  PROVE  ListInv'
<1>1. CASE LeaveLists
  BY <1>1, LeaveListsKeeps
<1>2. CASE CreateClientList
  BY <1>2, CreateClientListKeeps
<1>3. CASE StopApi
  BY <1>3, StopApiKeeps
<1>4. ASSUME NEW e \in errands, Recall(e) PROVE ListInv'
  BY <1>4, RecallKeeps
<1>5. ASSUME NEW e \in errands, AskHubSpot(e) PROVE ListInv'
  <2> PICK f : f = MovedTo(e, "asked")
    OBVIOUS
  <2>1. /\ Moves(e, f) /\ UNCHANGED <<lists, remembered, excused>>
        /\ Key(e) \notin DOMAIN remembered
    BY <1>5 DEF AskHubSpot, MovedTo
  <2> QED
    BY <2>1, ErrandGoesOn
<1>6. ASSUME NEW e \in errands, CreateAnswered(e) PROVE ListInv'
  <2> PICK f : f = MovedTo(e, "members")
    OBVIOUS
  <2>1. Moves(e, f) /\ UNCHANGED <<lists, remembered, excused>> /\ e.phase = "created"
    BY <1>6 DEF CreateAnswered, MovedTo
  <2> QED
    BY <2>1, ErrandGoesOn
<1>7. ASSUME NEW e \in errands, HubSpotCreates(e) PROVE ListInv'
  BY <1>7, HubSpotCreatesKeeps
<1>8. ASSUME NEW e \in errands, AddRecords(e) PROVE ListInv'
  BY <1>8, AddRecordsKeeps
<1>9. ASSUME NEW e \in errands, ListAnswered(e) PROVE ListInv'
  BY <1>9, ErrandEnds DEF ListAnswered
<1>10. ASSUME NEW e \in errands, ListFails(e) PROVE ListInv'
  BY <1>10, ErrandEnds DEF ListFails
<1>11. CASE \/ OpenLists \/ (\E id : Toggle(id) \/ AddFound(id))
            \/ (\E type \in ListTypes : PickType(type))
            \/ (\E query : RunLookup(query)) \/ (\E s : LookupArrives(s) \/ LookupFails(s))
  BY <1>11, PickerSteps
<1>12. CASE \E e \in errands :
              \/ Recall(e) \/ AskHubSpot(e) \/ HubSpotCreates(e) \/ CreateAnswered(e)
              \/ AddRecords(e) \/ ListAnswered(e) \/ ListFails(e)
  BY <1>4, <1>5, <1>6, <1>7, <1>8, <1>9, <1>10, <1>12, Zenon
<1> QED
  BY <1>1, <1>2, <1>3, <1>11, <1>12, Zenon DEF ListsNext

(* A list that is told verified holds what was chosen for it, as what it   *)
(* was chosen, and HubSpot has one list for one choice - but for the cases *)
(* that the property names.                                                *)
THEOREM ListsAlwaysAsChosen == ListsSpec => []ListAsChosen
<1>1. ListsInit => ListInv
  BY ListsBegin
<1>2. ListInv /\ [ListsNext]_listVars => ListInv'
  <2> SUFFICES ASSUME ListInv, [ListsNext]_listVars PROVE ListInv'
    OBVIOUS
  <2>1. CASE ListsNext
    BY <2>1, ListSteps, Zenon
  <2>2. CASE UNCHANGED listVars
    BY <2>2, ListsStay, Zenon
  <2> QED
    BY <2>1, <2>2
<1>3. ListInv => ListAsChosen
  BY ListInvEnough
<1> QED
  BY <1>1, <1>2, <1>3, PTL DEF ListsSpec
-----------------------------------------------------------------------------
(* The drawer of the evidence.                                             *)

(* The least-number principle, for a set.                                  *)
LEMMA LeastNumber ==
  ASSUME NEW T, T \subseteq Nat, T # {}
  PROVE  Min(T) \in T /\ \A y \in T : Min(T) <= y
<1>1. \E x \in T : \A y \in T : ~ (y < x)
  <2> DEFINE R == OpToRel(<, Nat)
  <2>1. IsWellFoundedOn(R, Nat)
    BY NatLessThanWellFounded, Zenon
  <2>2. \A x, y \in Nat : x < y => <<x, y>> \in R
    BY Zenon DEF OpToRel
  <2> HIDE DEF R
  <2>3. \E x \in T : \A y \in T : ~ (<<y, x>> \in R)
    BY <2>1, WFMin
  <2> QED
    BY <2>2, <2>3, Zenon
<1>2. \E x \in T : \A y \in T : x =< y
  BY <1>1
<1> QED
  BY <1>2 DEF Min

IsSequence(s) == \E S : s \in Seq(S)

LEMMA MatchedAnew ==
  ASSUME cast \in Casts, NEW old
  PROVE  IsSequence(AllRematched(old))
<1> PICK s : s = [i \in DOMAIN cast |-> Rematched(i, old)]
  OBVIOUS
<1> PICK S : S = {s[i] : i \in DOMAIN cast}
  OBVIOUS
<1>1. DOMAIN cast = 1 .. Len(cast) /\ Len(cast) \in Nat
  BY EvidenceAssumption, LenProperties
<1>2. s \in Seq(S) /\ Len(s) = Len(cast)
  BY <1>1
<1>3. Reverse(s) \in Seq(S)
  BY <1>1, <1>2 DEF Reverse
<1> QED
  BY <1>3 DEF AllRematched, IsSequence

LEMMA OneTakenOut ==
  ASSUME NEW s, IsSequence(s), NEW k \in DOMAIN s, NEW x
  PROVE  IsSequence(<<x>> \o RemoveAt(s, k))
<1>1. PICK S : s \in Seq(S)
  BY DEF IsSequence
<1>2. Len(s) \in Nat /\ k \in 1 .. Len(s) /\ \A i \in 1 .. Len(s) : s[i] \in S \cup {x}
  BY <1>1
<1>3. SubSeq(s, 1, k - 1) \in Seq(S \cup {x})
  <2>1. \A i \in 1 .. k - 1 : s[i] \in S \cup {x}
    BY <1>2
  <2> QED
    BY <1>2, <2>1, SubSeqProperties
<1>4. SubSeq(s, k + 1, Len(s)) \in Seq(S \cup {x})
  <2>1. \A i \in k + 1 .. Len(s) : s[i] \in S \cup {x}
    BY <1>2
  <2> QED
    BY <1>2, <2>1, SubSeqProperties
<1>5. RemoveAt(s, k) \in Seq(S \cup {x})
  BY <1>3, <1>4, ConcatProperties DEF RemoveAt
<1>6. <<x>> \in Seq(S \cup {x})
  OBVIOUS
<1>7. <<x>> \o RemoveAt(s, k) \in Seq(S \cup {x})
  BY <1>5, <1>6, ConcatProperties
<1> QED
  BY <1>7 DEF IsSequence

(* What is told of a package, by itself.                                   *)
PackageTold(package) ==
  /\ package.kind = "signal" =>
       /\ package.clear => package.conclusion = "confirmed"
       /\ \A r \in package.records : r.reviewed <=> package.conclusion = "confirmed"
  /\ package.kind = "account" =>
       /\ package.conclusion = "supported" <=> package.records # {}
       /\ \A r \in package.records : r.subject = package.about

(* A page of the evidence has a world, whose relationships are in order.   *)
EvInv ==
  /\ cast \in Casts
  /\ IsSequence(matches)
  /\ scene = [mode |-> scene.mode, account |-> scene.account, part |-> scene.part,
              wide |-> scene.wide]
  /\ seen # Shut \/ scene.mode # "elsewhere" => IsSequence(seen.signal.relationships)
  /\ EvidenceTold

LEMMA EvidenceBegins == EvidenceInit => EvInv
BY MatchedAnew DEF EvidenceInit, EvInv, NoScene, EvidenceTold

(* The steps that open nothing.                                            *)
LEMMA NothingOpens ==
  ASSUME EvInv, UNCHANGED cast, IsSequence(matches'), NEW s, scene' = s,
         s = [mode |-> s.mode, account |-> s.account, part |-> s.part, wide |-> s.wide],
         seen' # Shut \/ s.mode # "elsewhere" => IsSequence(seen'.signal.relationships),
         drawer' \in {drawer, Shut}
  PROVE  EvInv'
<1>1. EvidenceTold'
  BY DEF EvInv, EvidenceTold
<1>2. scene' = [mode |-> scene'.mode, account |-> scene'.account, part |-> scene'.part,
                wide |-> scene'.wide]
  BY Zenon
<1> QED
  BY <1>1, <1>2 DEF EvInv

(* A development that the page lists is told by a relationship of its own  *)
(* account.                                                                *)
LEMMA SignalTold ==
  ASSUME NEW signal, NEW account, IsSequence(signal.relationships), IsListed(signal, account)
  PROVE  PackageTold(SignalPackage(signal))
<1> PICK ties : ties = signal.relationships
  OBVIOUS
<1> PICK own : own = {k \in DOMAIN ties : ties[k].account = signal.subject}
  OBVIOUS
<1>1. own # {} /\ own \subseteq Nat
  <2>1. PICK S : ties \in Seq(S)
    BY DEF IsSequence
  <2>2. DOMAIN ties \subseteq Nat
    BY <2>1
  <2> QED
    BY <2>2 DEF IsListed
<1>2. Min(own) \in own
  BY <1>1, LeastNumber
<1>3. RelationTold(signal) = ties[Min(own)]
  BY <1>1 DEF RelationTold
<1>4. (\A k \in DOMAIN ties : ties[k].account = signal.subject => ties[k].status = "confirmed")
        => IsReviewed(signal)
  BY <1>2, <1>3 DEF IsReviewed
<1> PICK p : p = SignalPackage(signal)
  OBVIOUS
<1>5. /\ p.kind = "signal" /\ p.records = {RecordOf(signal)}
      /\ p.clear => IsReviewed(signal)
      /\ p.conclusion = "confirmed" <=> IsReviewed(signal)
  BY <1>4 DEF SignalPackage
<1>6. RecordOf(signal).reviewed = IsReviewed(signal)
  BY DEF RecordOf
<1> QED
  BY <1>5, <1>6 DEF PackageTold

LEMMA AccountTold ==
  ASSUME NEW account
  PROVE  PackageTold(AccountPackage(account))
<1> PICK listed : listed = {s \in {seen.signal} : IsListed(s, account)}
  OBVIOUS
<1> PICK p : p = AccountPackage(account)
  OBVIOUS
<1>1. /\ p.kind = "account" /\ p.about = account
      /\ p.conclusion = IF listed # {} THEN "supported" ELSE "derived"
      /\ p.records = {RecordOf(s) : s \in listed}
  BY DEF AccountPackage
<1>2. \A s \in listed : RecordOf(s).subject = account
  BY DEF RecordOf, IsListed
<1> QED
  BY <1>1, <1>2 DEF PackageTold

LEMMA PackageOpens ==
  ASSUME EvInv, NEW package, Opens(package), PackageTold(package)
  PROVE  EvInv'
<1>1. /\ drawer' = package
      /\ UNCHANGED <<cast, matches, seen, scene>>
  BY DEF Opens, Behind
<1>2. EvidenceTold'
  BY <1>1 DEF EvidenceTold, PackageTold
<1> QED
  BY <1>1, <1>2 DEF EvInv, IsSequence

LEMMA OtherPackages ==
  ASSUME NEW package,
         \/ \E item : package = WorkPackage(item)
         \/ \E b, account : package = ScorePackage(b, account)
         \/ package.kind = "market"
  PROVE  PackageTold(package)
BY DEF PackageTold, WorkPackage, ScorePackage

LEMMA BackendKeeps ==
  ASSUME EvInv, UNCHANGED <<cast, seen, scene, drawer>>, IsSequence(matches')
  PROVE  EvInv'
BY NothingOpens DEF EvInv

LEMMA LinkReviewedKeeps ==
  ASSUME EvInv, NEW k \in DOMAIN matches, NEW action, LinkReviewed(k, action)
  PROVE  EvInv'
<1>1. UNCHANGED <<cast, seen, scene, drawer>>
  BY DEF LinkReviewed, Changes
<1>2. PICK x : matches' = <<x>> \o RemoveAt(matches, k)
  BY DEF LinkReviewed
<1>3. IsSequence(matches')
  BY <1>2, OneTakenOut DEF EvInv
<1> QED
  BY <1>1, <1>3, BackendKeeps

LEMMA LoadWorldKeeps ==
  ASSUME EvInv, LoadWorld
  PROVE  EvInv'
<1>1. IsSequence(matches')
  BY MatchedAnew DEF LoadWorld, EvInv
<1>2. UNCHANGED <<cast, scene, drawer>> /\ seen'.signal = SignalOf(matches')
  BY DEF LoadWorld
<1>3. seen'.signal.relationships = matches'
  BY <1>2 DEF SignalOf
<1> QED
  BY <1>1, <1>2, <1>3, NothingOpens DEF EvInv

LEMMA VisitKeeps ==
  ASSUME EvInv, NEW mode, NEW account, Visit(mode, account)
  PROVE  EvInv'
<1>1. UNCHANGED <<cast, matches, seen>> /\ seen # Shut /\ drawer' \in {drawer, Shut}
  BY DEF Visit, Behind
<1>2. PICK wide : scene' = [mode |-> mode, account |-> account, part |-> 1, wide |-> wide]
  BY DEF Visit
<1> QED
  BY <1>1, <1>2, NothingOpens DEF EvInv, IsSequence

(* The steps within a page.                                                *)
LEMMA SceneKeeps ==
  ASSUME EvInv, UNCHANGED <<cast, matches, seen>>, drawer' \in {drawer, Shut},
         \/ scene' = scene
         \/ \E part : scene' = [scene EXCEPT !.part = part]
         \/ \E wide : scene' = [scene EXCEPT !.wide = wide]
         \/ scene.mode = "briefing" /\ scene' = [scene EXCEPT !.mode = "account", !.part = 1]
  PROVE  EvInv'
<1>1. PICK mode, account, part, wide :
        scene = [mode |-> mode, account |-> account, part |-> part, wide |-> wide]
  BY DEF EvInv
<1>2. PICK s : scene' = s
  OBVIOUS
<1>3. /\ s = [mode |-> s.mode, account |-> s.account, part |-> s.part, wide |-> s.wide]
      /\ s.mode = mode \/ (mode = "briefing" /\ s.mode = "account")
  <2>1. CASE s = scene
    BY <1>1, <2>1
  <2>2. ASSUME NEW part1, s = [scene EXCEPT !.part = part1]
        PROVE  s = [mode |-> mode, account |-> account, part |-> part1, wide |-> wide]
    BY <1>1, <2>2
  <2>3. ASSUME NEW wide1, s = [scene EXCEPT !.wide = wide1]
        PROVE  s = [mode |-> mode, account |-> account, part |-> part, wide |-> wide1]
    BY <1>1, <2>3
  <2>4. ASSUME s = [scene EXCEPT !.mode = "account", !.part = 1]
        PROVE  s = [mode |-> "account", account |-> account, part |-> 1, wide |-> wide]
    BY <1>1, <2>4
  <2>5. \/ s = scene
        \/ \E part1 : s = [mode |-> mode, account |-> account, part |-> part1, wide |-> wide]
        \/ \E wide1 : s = [mode |-> mode, account |-> account, part |-> part, wide |-> wide1]
        \/ /\ mode = "briefing"
           /\ s = [mode |-> "account", account |-> account, part |-> 1, wide |-> wide]
    BY <1>1, <1>2, <2>2, <2>3, <2>4
  <2> QED
    BY <2>1, <2>5
<1>4. seen' # Shut \/ s.mode # "elsewhere" => IsSequence(seen'.signal.relationships)
  BY <1>1, <1>3 DEF EvInv
<1> QED
  BY <1>2, <1>3, <1>4, NothingOpens DEF EvInv

LEMMA EvidenceOpens ==
  ASSUME EvInv, OpenEvidence
  PROVE  EvInv'
<1>1. CASE \/ scene.mode = "account" /\ Opens(AccountPackage(scene.account))
           \/ scene.mode = "briefing" /\ Opens(AccountPackage(scene.account))
  BY <1>1, AccountTold, PackageOpens
<1>2. CASE \/ Opens(ScorePackage(seen.item.scored, scene.account))
           \/ Opens(WorkPackage(seen.item))
  BY <1>2, OtherPackages, PackageOpens
<1>3. CASE /\ scene.mode = "briefing"
           /\ IsListed(seen.signal, scene.account) /\ Opens(SignalPackage(seen.signal))
  <2>1. IsSequence(seen.signal.relationships)
    BY <1>3 DEF EvInv
  <2> QED
    BY <1>3, <2>1, SignalTold, PackageOpens
<1> QED
  BY <1>1, <1>2, <1>3, Zenon DEF OpenEvidence

LEMMA EventOpens ==
  ASSUME EvInv, OpenEvent
  PROVE  EvInv'
<1>1. PICK package : Opens(package)
        /\ \/ package = WorkPackage(seen.item)
           \/ package = ScorePackage(seen.item.scored, scene.account)
           \/ package.kind = "market"
  BY DEF OpenEvent
<1> QED
  BY <1>1, OtherPackages, PackageOpens

LEMMA EvidenceStays ==
  ASSUME EvInv, UNCHANGED evidenceVars
  PROVE  EvInv'
BY BackendKeeps DEF evidenceVars, EvInv

LEMMA EvidenceSteps ==
  ASSUME EvInv, EvidenceNext
  PROVE  EvInv'
<1>1. ASSUME NEW action, ItemCommanded(action) PROVE EvInv'
  BY <1>1, BackendKeeps DEF ItemCommanded, Changes, EvInv
<1>2. CASE ItemAnnotated
  BY <1>2, BackendKeeps DEF ItemAnnotated, Changes, EvInv
<1>3. ASSUME NEW ok, ItemExecuted(ok) PROVE EvInv'
  BY <1>3, BackendKeeps DEF ItemExecuted, Changes, EvInv
<1>4. ASSUME NEW k \in DOMAIN matches, NEW action, LinkReviewed(k, action) PROVE EvInv'
  BY <1>4, LinkReviewedKeeps
<1>5. CASE LeavesReport
  BY <1>5, BackendKeeps DEF LeavesReport, Changes, EvInv
<1>6. CASE LoadWorld
  BY <1>6, LoadWorldKeeps
<1>7. ASSUME NEW mode, NEW account, Visit(mode, account) PROVE EvInv'
  BY <1>7, VisitKeeps
<1>8. ASSUME NEW part, TurnPart(part) \/ PickPart(part) PROVE EvInv'
  BY <1>8, SceneKeeps DEF TurnPart, PickPart, Behind
<1>9. CASE ToggleSupporting
  BY <1>9, SceneKeeps DEF ToggleSupporting, Behind
<1>10. CASE OpenEvent
  BY <1>10, EventOpens
<1>11. CASE OpenEvidence
  BY <1>11, EvidenceOpens
<1>12. CASE CloseDrawer \/ EscapeKey
  BY <1>12, SceneKeeps DEF CloseDrawer, EscapeKey, Behind
<1>13. CASE OpenRecord \/ AskAbout
  BY <1>7, <1>13 DEF OpenRecord, AskAbout
<1>14. CASE \/ \E action : ItemCommanded(action)
            \/ \E ok \in BOOLEAN : ItemExecuted(ok)
            \/ \E k \in DOMAIN matches, action \in {"confirm", "reject", "reopen"} :
                 LinkReviewed(k, action)
            \/ \E account \in Holders : Visit("account", account) \/ Visit("briefing", account)
            \/ Visit("work", Portfolio)
            \/ \E part \in 1 .. LastPart : TurnPart(part) \/ PickPart(part)
  BY <1>1, <1>3, <1>4, <1>7, <1>8, <1>14, Zenon
<1> QED
  BY <1>2, <1>5, <1>6, <1>9, <1>10, <1>11, <1>12, <1>13, <1>14, Zenon DEF EvidenceNext

(* A drawer agrees with itself, and a development that is listed as        *)
(* confirmed opens as confirmed.                                           *)
THEOREM EvidenceAlwaysTold == EvidenceSpec => []EvidenceTold
<1>1. EvidenceInit => EvInv
  BY EvidenceBegins
<1>2. EvInv /\ [EvidenceNext]_evidenceVars => EvInv'
  <2> SUFFICES ASSUME EvInv, [EvidenceNext]_evidenceVars PROVE EvInv'
    OBVIOUS
  <2>1. CASE EvidenceNext
    BY <2>1, EvidenceSteps, Zenon
  <2>2. CASE UNCHANGED evidenceVars
    BY <2>2, EvidenceStays, Zenon
  <2> QED
    BY <2>1, <2>2
<1>3. EvInv => EvidenceTold
  BY DEF EvInv
<1> QED
  BY <1>1, <1>2, <1>3, PTL DEF EvidenceSpec
-----------------------------------------------------------------------------
(* The timeline of an account.                                             *)

(* What a page has seen of an item is before what is filed: later commands *)
(* only add to its trail.                                                  *)
Before(old, new) ==
  /\ new.account = old.account /\ new.sources = old.sources
  /\ Len(old.trail) <= Len(new.trail)
  /\ \A i \in 1 .. Len(old.trail) : new.trail[i] = old.trail[i]

LEMMA TrailLength ==
  ASSUME NEW item, IsFiling(item)
  PROVE  /\ Len(item.trail) \in Nat \ {0}
         /\ DOMAIN item.trail = 1 .. Len(item.trail)
         /\ Len(item.trail) \in DOMAIN item.trail
         /\ 1 \in DOMAIN item.trail
<1>1. /\ item.trail \in Seq({item.trail[i] : i \in DOMAIN item.trail})
      /\ item.trail # <<>>
  BY DEF IsFiling, IsTrail
<1>2. Len(item.trail) \in Nat /\ DOMAIN item.trail = 1 .. Len(item.trail)
  BY <1>1, LenProperties
<1>3. Len(item.trail) # 0
  BY <1>1, EmptySeq
<1> QED  BY <1>2, <1>3

LEMMA SameBefore ==
  ASSUME NEW item, IsFiling(item)
  PROVE  Before(item, item)
BY TrailLength DEF Before

LEMMA BeforeGoesOn ==
  ASSUME NEW a, NEW b, NEW c, IsFiling(a), IsFiling(b), IsFiling(c), Before(a, b), Before(b, c)
  PROVE  Before(a, c)
<1>1. Len(a.trail) \in Nat /\ Len(b.trail) \in Nat /\ Len(c.trail) \in Nat
  BY TrailLength
<1> QED  BY <1>1 DEF Before

LEMMA RowSet ==
  ASSUME NEW item, IsFiling(item), NEW row
  PROVE  /\ IsFiling([item EXCEPT !.row = row])
         /\ [item EXCEPT !.row = row].row = row
         /\ [item EXCEPT !.row = row].trail = item.trail
         /\ Before(item, [item EXCEPT !.row = row])
<1> DEFINE next == [row |-> row, about |-> item.about, scored |-> item.scored,
                    account |-> item.account, sources |-> item.sources, trail |-> item.trail]
<1>1. [item EXCEPT !.row = row] = next
  BY DEF IsFiling
<1>2. IsFiling(next)
  BY DEF IsFiling
<1>3. Before(item, next)
  BY TrailLength DEF Before
<1> QED  BY <1>1, <1>2, <1>3

LEMMA EnteredKeeps ==
  ASSUME NEW item, IsFiling(item), NEW event, NEW next \in Entered(item, event)
  PROVE  IsFiling(next) /\ Before(item, next)
<1>1. PICK n \in {1, 2} :
        next = [item EXCEPT !.trail =
                 Append(@, [event |-> event, at |-> item.trail[Len(item.trail)].at + n])]
  BY DEF Entered
<1> DEFINE entry == [event |-> event, at |-> item.trail[Len(item.trail)].at + n]
           longer == Append(item.trail, entry)
           length == Len(item.trail)
           Still == {item.trail[i] : i \in DOMAIN item.trail}
<1>2. next = [row |-> item.row, about |-> item.about, scored |-> item.scored,
              account |-> item.account, sources |-> item.sources, trail |-> longer]
  BY <1>1 DEF IsFiling
<1>3. length \in Nat \ {0} /\ DOMAIN item.trail = 1 .. length /\ length \in DOMAIN item.trail
  BY TrailLength
<1>4. item.trail \in Seq(Still)
  BY DEF IsFiling, IsTrail
<1>5. /\ longer \in Seq(Still \cup {entry})
      /\ Len(longer) = length + 1
      /\ \A i \in 1 .. length : longer[i] = item.trail[i]
      /\ longer[length + 1] = entry
  <2>1. item.trail \in Seq(Still \cup {entry})
    <3> HIDE DEF Still, entry
    <3> QED  BY <1>4, <1>3, LenProperties, SeqDef
  <2> HIDE DEF Still, entry
  <2> QED  BY <2>1, AppendProperties
<1> HIDE DEF entry, longer
<1>6. DOMAIN longer = 1 .. length + 1
  BY <1>5, LenProperties
<1>7. longer \in Seq({longer[i] : i \in DOMAIN longer}) /\ longer # <<>>
  <2> DEFINE T == {longer[i] : i \in DOMAIN longer}
  <2>1. \A i \in 1 .. Len(longer) : longer[i] \in T
    BY <1>5, <1>6
  <2>2. longer = [i \in 1 .. Len(longer) |-> longer[i]]
    BY <1>5, LenProperties, Zenon
  <2>3. longer \in [1 .. Len(longer) -> T]
    <3> HIDE DEF T
    <3> QED  BY <2>1, <2>2
  <2>4. longer \in Seq(T)
    <3> HIDE DEF T
    <3> QED  BY <2>3, <1>5, <1>3, SeqDef
  <2> QED  BY <2>4, <1>5, <1>3, EmptySeq
<1>8. \A i \in 1 .. length : item.trail[i].at \in Nat
  BY <1>3 DEF IsFiling, IsTrail
<1>9. entry.at \in Nat /\ entry.at > item.trail[length].at
  BY <1>8, <1>3 DEF entry
<1>10. \A i \in DOMAIN longer : longer[i].at \in Nat
  BY <1>5, <1>6, <1>8, <1>9, <1>3
<1>11. \A i, j \in DOMAIN longer : i < j => longer[i].at < longer[j].at
  <2> SUFFICES ASSUME NEW i \in DOMAIN longer, NEW j \in DOMAIN longer, i < j
      PROVE  longer[i].at < longer[j].at
    OBVIOUS
  <2>1. i \in 1 .. length /\ longer[i] = item.trail[i]
    BY <1>5, <1>6, <1>3
  <2>2. item.trail[i].at <= item.trail[length].at
    <3>1. CASE i = length
      BY <2>1, <3>1, <1>3, <1>8
    <3>2. CASE i # length
      <4>1. i < length /\ length \in 1 .. length
        BY <2>1, <3>2, <1>3
      <4>2. item.trail[i].at < item.trail[length].at
        BY <2>1, <4>1, <1>3 DEF IsFiling, IsTrail
      <4>3. item.trail[i].at \in Nat /\ item.trail[length].at \in Nat
        BY <2>1, <4>1, <1>8
      <4> QED  BY <4>2, <4>3
    <3> QED  BY <3>1, <3>2
  <2>3. CASE j = length + 1
    <3>1. longer[j] = entry
      BY <2>3, <1>5
    <3> PICK a, b, c : a = longer[i].at /\ b = item.trail[length].at /\ c = entry.at
      OBVIOUS
    <3>2. a \in Nat /\ b \in Nat /\ c \in Nat
      BY <2>1, <1>8, <1>9, <1>3
    <3>3. a <= b /\ b < c
      BY <2>1, <2>2, <1>9
    <3> QED  BY <3>1, <3>2, <3>3
  <2>4. CASE j # length + 1
    <3>1. j \in 1 .. length /\ longer[j] = item.trail[j]
      BY <2>4, <1>5, <1>6, <1>3
    <3> QED  BY <2>1, <3>1, <1>3 DEF IsFiling, IsTrail
  <2> QED  BY <2>3, <2>4
<1>12. next.trail = longer /\ next.account = item.account /\ next.sources = item.sources
  BY <1>2
<1>13. IsTrail(longer)
  BY <1>7, <1>10, <1>11 DEF IsTrail
<1>14. IsFiling(next)
  BY <1>2, <1>12, <1>13 DEF IsFiling
<1>15. Before(item, next)
  BY <1>12, <1>5, <1>3 DEF Before
<1> QED  BY <1>14, <1>15

(* The inductive invariant: what a page has seen of the item is before     *)
(* what is filed of it now.                                                *)
TrailInv ==
  /\ IsFiling(filed)
  /\ seen # Shut => IsFiling(seen.item) /\ Before(seen.item, filed)

(* What every step does to the item that is filed.                         *)
FiledOn == IsFiling(filed) => IsFiling(filed') /\ Before(filed, filed')

LEMMA CommandFiles ==
  ASSUME NEW action, ItemCommanded(action)
  PROVE  FiledOn
<1> SUFFICES ASSUME IsFiling(filed) PROVE IsFiling(filed') /\ Before(filed, filed')
  BY DEF FiledOn
<1>1. PICK row : filed' \in Entered([filed EXCEPT !.row = row], EventOf(action))
  BY Zenon DEF ItemCommanded
<1> DEFINE next == [filed EXCEPT !.row = row]
<1>2. IsFiling(next) /\ Before(filed, next) /\ filed' \in Entered(next, EventOf(action))
  BY <1>1, RowSet
<1> HIDE DEF next
<1>3. IsFiling(filed') /\ Before(next, filed')
  BY <1>2, EnteredKeeps
<1> QED  BY <1>2, <1>3, BeforeGoesOn

LEMMA ExecutionFiles ==
  ASSUME NEW ok, ItemExecuted(ok)
  PROVE  FiledOn
<1> SUFFICES ASSUME IsFiling(filed) PROVE IsFiling(filed') /\ Before(filed, filed')
  BY DEF FiledOn
<1>1. PICK row, first, last : \E begun \in Entered([filed EXCEPT !.row = row], first) :
                                filed' \in Entered(begun, last)
  BY Zenon DEF ItemExecuted
<1> DEFINE next == [filed EXCEPT !.row = row]
<1>2. IsFiling(next) /\ Before(filed, next)
  BY RowSet
<1>3. PICK begun \in Entered(next, first) : filed' \in Entered(begun, last)
  BY <1>1
<1> HIDE DEF next
<1>4. IsFiling(begun) /\ Before(next, begun)
  BY <1>2, <1>3, EnteredKeeps
<1>5. IsFiling(filed') /\ Before(begun, filed')
  BY <1>3, <1>4, EnteredKeeps
<1>6. Before(filed, begun)
  BY <1>2, <1>4, BeforeGoesOn
<1> QED  BY <1>4, <1>5, <1>6, BeforeGoesOn

LEMMA ReviewFiles ==
  ASSUME NEW k, NEW action, LinkReviewed(k, action)
  PROVE  FiledOn
<1> SUFFICES ASSUME IsFiling(filed) PROVE IsFiling(filed') /\ Before(filed, filed')
  BY DEF FiledOn
<1> DEFINE next == [filed EXCEPT !.row.status = "closed", !.row.execution = "verified"]
           ended == [filed.row EXCEPT !.status = "closed", !.execution = "verified"]
<1>1. filed' = filed \/ filed' \in Entered(next, "relationship_" \o action)
  <2> HIDE DEF next
  <2>1. \/ filed' \in Entered(next, "relationship_" \o action)
        \/ filed' \in {filed}
    BY Zenon DEF LinkReviewed, next
  <2> QED  BY <2>1
<1>2. next = [filed EXCEPT !.row = ended]
  BY DEF IsFiling
<1>3. IsFiling(next) /\ Before(filed, next)
  <2> HIDE DEF next, ended
  <2> QED  BY <1>2, RowSet
<1> HIDE DEF next
<1>4. CASE filed' = filed
  BY <1>4, SameBefore
<1>5. CASE filed' \in Entered(next, "relationship_" \o action)
  <2>1. IsFiling(filed') /\ Before(next, filed')
    BY <1>5, <1>3, EnteredKeeps
  <2> QED  BY <1>3, <2>1, BeforeGoesOn
<1> QED  BY <1>1, <1>4, <1>5

LEMMA TrailHolds ==
  ASSUME TrailInv, [EvidenceNext]_evidenceVars
  PROVE  TrailInv' /\ (seen' # seen => seen'.item = filed)
<1>1. ASSUME seen' = seen, FiledOn PROVE TrailInv' /\ (seen' # seen => seen'.item = filed)
  <2>1. IsFiling(filed') /\ Before(filed, filed')
    BY <1>1 DEF FiledOn, TrailInv
  <2>2. seen # Shut => Before(seen.item, filed')
    BY <2>1, BeforeGoesOn DEF TrailInv
  <2> QED  BY <1>1, <2>1, <2>2 DEF TrailInv
<1>2. filed' = filed => FiledOn
  BY SameBefore DEF FiledOn
<1>3. CASE \E action : ItemCommanded(action)
  <2>1. PICK action : ItemCommanded(action)
    BY <1>3, Zenon
  <2>2. seen' = seen
    BY <2>1 DEF ItemCommanded, Changes
  <2> QED  BY <2>1, <2>2, <1>1, CommandFiles
<1>4. CASE ItemAnnotated
  BY <1>4, <1>1, EnteredKeeps DEF ItemAnnotated, Changes, FiledOn
<1>5. CASE \E ok \in BOOLEAN : ItemExecuted(ok)
  <2>1. PICK ok \in BOOLEAN : ItemExecuted(ok)
    BY <1>5, Zenon
  <2>2. seen' = seen
    BY <2>1, Zenon DEF ItemExecuted, Changes
  <2> QED  BY <2>1, <2>2, <1>1, ExecutionFiles
<1>6. CASE \E k \in DOMAIN matches, action \in {"confirm", "reject", "reopen"} :
             LinkReviewed(k, action)
  <2>1. PICK k, action : LinkReviewed(k, action)
    BY <1>6, Zenon
  <2>2. seen' = seen
    BY <2>1, Zenon DEF LinkReviewed, Changes
  <2> QED  BY <2>1, <2>2, <1>1, ReviewFiles
<1>7. CASE LoadWorld
  <2>1. filed' = filed /\ seen'.item = filed
    BY <1>7 DEF LoadWorld
  <2> QED  BY <2>1, SameBefore DEF TrailInv
<1>8. ASSUME filed' = filed /\ seen' = seen
      PROVE  TrailInv' /\ (seen' # seen => seen'.item = filed)
  BY <1>8, <1>2, <1>1
<1>9. CASE LeavesReport
  BY <1>9, <1>8 DEF LeavesReport, Changes
<1>10. Behind => filed' = filed /\ seen' = seen
  BY DEF Behind
<1>11. ASSUME NEW mode, NEW account, Visit(mode, account) PROVE Behind
  BY <1>11 DEF Visit
<1>12. ASSUME NEW package, Opens(package) PROVE Behind
  BY <1>12 DEF Opens
<1>13. CASE \/ \E account \in Holders : Visit("account", account) \/ Visit("briefing", account)
            \/ Visit("work", Portfolio)
  BY <1>13, <1>11, <1>10, <1>8
<1>14. CASE \E part \in 1 .. LastPart : TurnPart(part) \/ PickPart(part)
  BY <1>14, <1>10, <1>8 DEF TurnPart, PickPart
<1>15. CASE ToggleSupporting
  BY <1>15, <1>10, <1>8 DEF ToggleSupporting
<1>16. CASE OpenEvent
  <2>1. \E package : Opens(package)
    BY <1>16, Zenon DEF OpenEvent
  <2> QED  BY <2>1, <1>12, <1>10, <1>8
<1>17. CASE OpenEvidence
  <2>1. \E package : Opens(package)
    BY <1>17, Zenon DEF OpenEvidence
  <2> QED  BY <2>1, <1>12, <1>10, <1>8
<1>18. CASE CloseDrawer \/ EscapeKey
  BY <1>18, <1>10, <1>8 DEF CloseDrawer, EscapeKey
<1>19. CASE OpenRecord \/ AskAbout
  <2>1. \E mode, account : Visit(mode, account)
    BY <1>19, Zenon DEF OpenRecord, AskAbout
  <2> QED  BY <2>1, <1>11, <1>10, <1>8
<1>20. CASE UNCHANGED evidenceVars
  BY <1>20, <1>8 DEF evidenceVars
<1> QED
  BY <1>3, <1>4, <1>5, <1>6, <1>7, <1>9, <1>13, <1>14, <1>15, <1>16, <1>17, <1>18, <1>19, <1>20,
     Zenon DEF EvidenceNext

(* The events of an item: one of each entry of its trail, one of its       *)
(* creation, one of what it is now.                                        *)
AuditEvent(item, i) ==
  [id |-> "audit", n |-> i, event |-> item.trail[i].event, opens |-> "work",
   at |-> item.trail[i].at,
   major |-> Category(item.trail[i].event) \in {"approval", "verification", "outcome"}]

OwnEvent(id, at) == [id |-> id, n |-> 0, event |-> id, opens |-> "work", at |-> at, major |-> TRUE]

LEMMA WorkEventsAre ==
  ASSUME NEW item
  PROVE  WorkEvents(item) =
           {OwnEvent("work-created", item.trail[1].at),
            OwnEvent("work-current", item.trail[Len(item.trail)].at)}
           \cup {AuditEvent(item, i) : i \in ToldEntries(item.trail)}
BY DEF WorkEvents, OwnEvent, AuditEvent

LEMMA EntriesStayTold ==
  ASSUME NEW old, NEW new, IsFiling(old), IsFiling(new), Before(old, new)
  PROVE  /\ ToldEntries(old.trail) \subseteq ToldEntries(new.trail)
         /\ \A i \in ToldEntries(old.trail) : AuditEvent(new, i) = AuditEvent(old, i)
<1>1. /\ Len(old.trail) \in Nat /\ Len(new.trail) \in Nat
      /\ DOMAIN old.trail = 1 .. Len(old.trail) /\ DOMAIN new.trail = 1 .. Len(new.trail)
  BY TrailLength
<1>2. SUFFICES ASSUME NEW i \in ToldEntries(old.trail)
      PROVE  i \in ToldEntries(new.trail) /\ AuditEvent(new, i) = AuditEvent(old, i)
  OBVIOUS
<1>3. i \in 1 .. Len(old.trail) /\ i \in DOMAIN new.trail
  BY <1>1, <1>2 DEF ToldEntries, Before
<1>4. \A j \in 1 .. i : new.trail[j] = old.trail[j]
  BY <1>1, <1>3 DEF Before
<1>5. new.trail[i] = old.trail[i]
  BY <1>3, <1>4, <1>1
<1>6. i \in ToldEntries(new.trail)
  <2>1. CASE old.trail[i].event \in {"approve", "verify", "record_outcome"}
    BY <2>1, <1>3, <1>5 DEF ToldEntries
  <2>2. CASE \A j \in 1 .. i - 1 :
          old.trail[j].event = old.trail[i].event => Minute(old.trail[j]) # Minute(old.trail[i])
    <3>1. \A j \in 1 .. i - 1 : j \in 1 .. i
      BY <1>3, <1>1
    <3>2. \A j \in 1 .. i - 1 :
            new.trail[j].event = new.trail[i].event => Minute(new.trail[j]) # Minute(new.trail[i])
      BY <2>2, <3>1, <1>4, <1>5
    <3> QED  BY <3>2, <1>3 DEF ToldEntries
  <2> QED  BY <2>1, <2>2, <1>2 DEF ToldEntries
<1>7. AuditEvent(new, i) = AuditEvent(old, i)
  BY <1>5 DEF AuditEvent
<1> QED  BY <1>6, <1>7

LEMMA WorkEventsStay ==
  ASSUME NEW old, NEW new, IsFiling(old), IsFiling(new), Before(old, new)
  PROVE  \A e \in WorkEvents(old) : e.id = "work-current" \/ e \in WorkEvents(new)
<1> SUFFICES ASSUME NEW e \in WorkEvents(old)
    PROVE  e.id = "work-current" \/ e \in WorkEvents(new)
  OBVIOUS
<1>1. CASE e = OwnEvent("work-created", old.trail[1].at)
  <2>1. new.trail[1] = old.trail[1]
    BY TrailLength DEF Before
  <2> QED  BY <1>1, <2>1, WorkEventsAre
<1>2. CASE e = OwnEvent("work-current", old.trail[Len(old.trail)].at)
  BY <1>2 DEF OwnEvent
<1>3. CASE e \in {AuditEvent(old, i) : i \in ToldEntries(old.trail)}
  <2>1. PICK i \in ToldEntries(old.trail) : e = AuditEvent(old, i)
    BY <1>3
  <2>2. i \in ToldEntries(new.trail) /\ e = AuditEvent(new, i)
    BY <2>1, EntriesStayTold
  <2> QED  BY <2>2, WorkEventsAre
<1> QED  BY <1>1, <1>2, <1>3, WorkEventsAre

(* Of two entries of one kind in one minute the later one is told; no kind *)
(* of entry goes untold in a minute that has one.                          *)
LEMMA EachEntryTold ==
  ASSUME NEW item, IsFiling(item), NEW i \in DOMAIN item.trail
  PROVE  \E e \in WorkTimeline(item) :
           e.event = item.trail[i].event /\ Minute(e) = Minute(item.trail[i])
<1> DEFINE Same == {j \in 1 .. i : /\ item.trail[j].event = item.trail[i].event
                                  /\ Minute(item.trail[j]) = Minute(item.trail[i])}
<1>1. DOMAIN item.trail = 1 .. Len(item.trail) /\ Len(item.trail) \in Nat
  BY TrailLength
<1>2. i \in Same /\ Same \subseteq Nat
  BY <1>1
<1>3. PICK j \in Same : \A k \in Same : j <= k
  BY <1>2, SmallestNumber
<1>4. j \in DOMAIN item.trail /\ \A k \in 1 .. j - 1 : k \in 1 .. i /\ k \notin Same
  BY <1>1, <1>3
<1>5. j \in ToldEntries(item.trail)
  <2>1. \A k \in 1 .. j - 1 :
          item.trail[k].event = item.trail[j].event => Minute(item.trail[k]) # Minute(item.trail[j])
    BY <1>3, <1>4
  <2> QED  BY <1>4, <2>1 DEF ToldEntries
<1>6. AuditEvent(item, j) \in WorkTimeline(item)
  BY <1>5, WorkEventsAre DEF WorkTimeline
<1>7. AuditEvent(item, j).event = item.trail[i].event
  BY <1>3 DEF AuditEvent
<1>8. Minute(AuditEvent(item, j)) = Minute(item.trail[i])
  <2>1. AuditEvent(item, j).at = item.trail[j].at
    BY DEF AuditEvent
  <2>2. Minute(AuditEvent(item, j)) = Minute(item.trail[j])
    BY <2>1 DEF Minute
  <2> QED  BY <2>2, <1>3
<1> QED  BY <1>6, <1>7, <1>8

(* Of events of one minute, the order in which they were put in.           *)
PlaceAmong(id) ==
  CASE id = "audit" -> 0 [] id = "score" -> 1 [] id = "work-created" -> 2 [] OTHER -> 3

LEMMA NewerMeans ==
  ASSUME NEW e, NEW f
  PROVE  /\ PlaceAmong(e.id) \in 0 .. 3
         /\ Newer(e, f) <=> \/ e.at > f.at
                            \/ e.at = f.at /\ PlaceAmong(e.id) < PlaceAmong(f.id)
BY DEF Newer, PlaceAmong

(* All that the timeline of an account may tell, before the oldest go.     *)
AccountEvents(item, account) ==
  ScoreEvents(item) \cup {e \in WorkEvents(item) : e.major /\ item.account = account}

ScoreEvent(item) ==
  [id |-> "score", n |-> 0, event |-> "score", opens |-> "score",
   at |-> item.trail[Len(item.trail)].at + 1, major |-> item.scored]

LEMMA AccountEventIs ==
  ASSUME NEW item, NEW account, NEW e \in AccountEvents(item, account)
  PROVE  \/ e = ScoreEvent(item)
         \/ e = OwnEvent("work-created", item.trail[1].at)
         \/ e = OwnEvent("work-current", item.trail[Len(item.trail)].at)
         \/ \E i \in DOMAIN item.trail : e = AuditEvent(item, i)
<1>1. e = ScoreEvent(item) \/ e \in WorkEvents(item)
  BY DEF AccountEvents, ScoreEvents, ScoreEvent
<1>2. ToldEntries(item.trail) \subseteq DOMAIN item.trail
  BY DEF ToldEntries
<1> QED  BY <1>1, <1>2, WorkEventsAre

LEMMA AccountEventsFinite ==
  ASSUME NEW item, IsFiling(item), NEW account
  PROVE  IsFiniteSet(AccountEvents(item, account))
<1> DEFINE length == Len(item.trail)
           Audit == {AuditEvent(item, i) : i \in 1 .. length}
           told == [i \in 1 .. length |-> AuditEvent(item, i)]
           Others == {ScoreEvent(item), OwnEvent("work-created", item.trail[1].at),
                      OwnEvent("work-current", item.trail[length].at)}
<1>1. length \in Nat /\ DOMAIN item.trail = 1 .. length
  BY TrailLength
<1>2. IsFiniteSet(1 .. length)
  BY <1>1, FS_Interval
<1>3. told \in Surjection(1 .. length, Audit)
  BY DEF Surjection
<1>4. IsFiniteSet(Audit)
  <2> HIDE DEF told, Audit, length
  <2> QED  BY <1>2, <1>3, FS_Surjection
<1>5. IsFiniteSet(Others)
  <2>1. IsFiniteSet({ScoreEvent(item)})
    BY FS_Singleton
  <2>2. IsFiniteSet({ScoreEvent(item)} \cup {OwnEvent("work-created", item.trail[1].at)})
    BY <2>1, FS_AddElement
  <2>3. IsFiniteSet(({ScoreEvent(item)} \cup {OwnEvent("work-created", item.trail[1].at)})
                    \cup {OwnEvent("work-current", item.trail[length].at)})
    BY <2>2, FS_AddElement
  <2>4. Others = ({ScoreEvent(item)} \cup {OwnEvent("work-created", item.trail[1].at)})
                  \cup {OwnEvent("work-current", item.trail[length].at)}
    OBVIOUS
  <2> QED  BY <2>3, <2>4
<1>6. IsFiniteSet(Audit \cup Others)
  <2> HIDE DEF Audit, Others
  <2> QED  BY <1>4, <1>5, FS_Union
<1>7. AccountEvents(item, account) \subseteq Audit \cup Others
  BY AccountEventIs, <1>1
<1> HIDE DEF Audit, Others
<1> QED  BY <1>6, <1>7, FS_Subset

LEMMA EventPlaced ==
  ASSUME NEW item, IsFiling(item), NEW account, NEW e \in AccountEvents(item, account)
  PROVE  e.at \in Nat
<1>1. /\ 1 \in DOMAIN item.trail /\ Len(item.trail) \in DOMAIN item.trail
      /\ \A i \in DOMAIN item.trail : item.trail[i].at \in Nat
  BY TrailLength DEF IsFiling, IsTrail
<1>2. e = ScoreEvent(item) => e.at = item.trail[Len(item.trail)].at + 1
  BY DEF ScoreEvent
<1>3. \A id, at : e = OwnEvent(id, at) => e.at = at
  BY DEF OwnEvent
<1>4. \A i : e = AuditEvent(item, i) => e.at = item.trail[i].at
  BY DEF AuditEvent
<1> QED  BY <1>1, <1>2, <1>3, <1>4, AccountEventIs

LEMMA PlacesTell ==
  ASSUME NEW item, IsFiling(item), NEW account, NEW e \in AccountEvents(item, account)
  PROVE  /\ PlaceAmong(e.id) = 0 => \E i \in DOMAIN item.trail : e = AuditEvent(item, i)
         /\ PlaceAmong(e.id) = 1 => e = ScoreEvent(item)
         /\ PlaceAmong(e.id) = 2 => e = OwnEvent("work-created", item.trail[1].at)
         /\ PlaceAmong(e.id) = 3 => e = OwnEvent("work-current", item.trail[Len(item.trail)].at)
<1>1. e = ScoreEvent(item) => PlaceAmong(e.id) = 1
  BY DEF ScoreEvent, PlaceAmong
<1>2. \A at : e = OwnEvent("work-created", at) => PlaceAmong(e.id) = 2
  BY DEF OwnEvent, PlaceAmong
<1>3. \A at : e = OwnEvent("work-current", at) => PlaceAmong(e.id) = 3
  BY DEF OwnEvent, PlaceAmong
<1>4. \A i : e = AuditEvent(item, i) => PlaceAmong(e.id) = 0
  BY DEF AuditEvent, PlaceAmong
<1> HIDE DEF PlaceAmong
<1> QED  BY <1>1, <1>2, <1>3, <1>4, AccountEventIs

LEMMA NewerOrders ==
  ASSUME NEW item, IsFiling(item), NEW account
  PROVE  LET S == AccountEvents(item, account)
         IN /\ \A e \in S : ~Newer(e, e)
            /\ \A e, f, g \in S : Newer(e, f) /\ Newer(f, g) => Newer(e, g)
            /\ \A e, f \in S : e # f => Newer(e, f) \/ Newer(f, e)
<1> DEFINE S == AccountEvents(item, account)
<1>1. \A e \in S : e.at \in Nat /\ PlaceAmong(e.id) \in 0 .. 3
  BY EventPlaced, NewerMeans
<1>2. \A e, f \in S : Newer(e, f) <=> \/ e.at > f.at
                                      \/ e.at = f.at /\ PlaceAmong(e.id) < PlaceAmong(f.id)
  BY NewerMeans
<1>3. ASSUME NEW e \in S, NEW f \in S, e.at = f.at, PlaceAmong(e.id) = PlaceAmong(f.id)
      PROVE  e = f
  <2>1. CASE PlaceAmong(e.id) = 0
    <3>1. PICK i \in DOMAIN item.trail : e = AuditEvent(item, i)
      BY <2>1, PlacesTell
    <3>2. PICK j \in DOMAIN item.trail : f = AuditEvent(item, j)
      BY <2>1, <1>3, PlacesTell
    <3>3. item.trail[i].at = item.trail[j].at
      <4>1. e.at = item.trail[i].at
        BY <3>1 DEF AuditEvent
      <4>2. f.at = item.trail[j].at
        BY <3>2 DEF AuditEvent
      <4> QED  BY <4>1, <4>2, <1>3
    <3>4. i \in Nat /\ j \in Nat /\ item.trail[i].at \in Nat
      BY <3>1, <3>2, TrailLength DEF IsFiling, IsTrail
    <3>5. ~(i < j) /\ ~(j < i)
      BY <3>3, <3>4, <3>1, <3>2 DEF IsFiling, IsTrail
    <3> QED  BY <3>1, <3>2, <3>4, <3>5
  <2>2. CASE PlaceAmong(e.id) = 1
    BY <2>2, <1>3, PlacesTell
  <2>3. CASE PlaceAmong(e.id) = 2
    BY <2>3, <1>3, PlacesTell
  <2>4. CASE PlaceAmong(e.id) = 3
    BY <2>4, <1>3, PlacesTell
  <2> QED  BY <1>1, <2>1, <2>2, <2>3, <2>4
<1> HIDE DEF S
<1>4. \A e \in S : ~Newer(e, e)
  BY <1>1, <1>2
<1>5. \A e, f, g \in S : Newer(e, f) /\ Newer(f, g) => Newer(e, g)
  BY <1>1, <1>2
<1>6. \A e, f \in S : e # f => Newer(e, f) \/ Newer(f, e)
  BY <1>1, <1>2, <1>3
<1> QED  BY <1>4, <1>5, <1>6 DEF S

(* How many events are newer.  It tells the events apart, so a timeline that *)
(* leaves one out has as many events as it may have.                       *)
Rank(e, S) == Cardinality({f \in S : Newer(f, e)})

LEMMA AtMostFull ==
  ASSUME NEW S, IsFiniteSet(S), NEW n \in Nat,
         \A e \in S : ~Newer(e, e),
         \A e, f, g \in S : Newer(e, f) /\ Newer(f, g) => Newer(e, g),
         \A e, f \in S : e # f => Newer(e, f) \/ Newer(f, e),
         NEW last \in S, last \notin AtMost(n, S)
  PROVE  /\ Cardinality(AtMost(n, S)) = n
         /\ \A e \in AtMost(n, S) : ~Newer(last, e)
<1> DEFINE size == Cardinality(S)
           rank == [e \in S |-> Rank(e, S)]
<1>1. size \in Nat
  BY FS_CardinalityType
<1>2. ASSUME NEW e \in S PROVE Rank(e, S) \in 0 .. size - 1
  <2> DEFINE T == {f \in S : Newer(f, e)}
  <2>1. T \in SUBSET S /\ T # S
    BY <1>2
  <2>2. IsFiniteSet(T) /\ Cardinality(T) <= size /\ Cardinality(T) # size
    <3> HIDE DEF T
    <3> QED  BY <2>1, FS_Subset
  <2>3. Cardinality(T) \in Nat
    <3> HIDE DEF T
    <3> QED  BY <2>2, FS_CardinalityType
  <2> QED  BY <2>2, <2>3, <1>1 DEF Rank
<1>3. ASSUME NEW e \in S, NEW f \in S, Newer(e, f) PROVE Rank(e, S) < Rank(f, S)
  <2> DEFINE T == {g \in S : Newer(g, e)}
             U == {g \in S : Newer(g, f)}
  <2>1. T \in SUBSET U /\ e \in U /\ e \notin T
    BY <1>3
  <2>2. U \in SUBSET S
    OBVIOUS
  <2>3. IsFiniteSet(U)
    <3> HIDE DEF U
    <3> QED  BY <2>2, FS_Subset
  <2>4. IsFiniteSet(T) /\ Cardinality(T) <= Cardinality(U) /\ Cardinality(T) # Cardinality(U)
    <3> HIDE DEF T, U
    <3> QED  BY <2>1, <2>3, FS_Subset
  <2>5. Cardinality(T) \in Nat /\ Cardinality(U) \in Nat
    <3> HIDE DEF T, U
    <3> QED  BY <2>3, <2>4, FS_CardinalityType
  <2> QED  BY <2>4, <2>5 DEF Rank
<1>4. rank \in Injection(S, 0 .. size - 1)
  <2>1. rank \in [S -> 0 .. size - 1]
    BY <1>2
  <2>2. \A e, f \in S : rank[e] = rank[f] => e = f
    BY <1>2, <1>3, <1>1
  <2> HIDE DEF rank
  <2> QED  BY <2>1, <2>2 DEF Injection, IsInjective
<1>5. IsFiniteSet(0 .. size - 1) /\ Cardinality(0 .. size - 1) = size
  <2> HIDE DEF size
  <2>1. 0 \in Int /\ size - 1 \in Int
    BY <1>1
  <2>2. IsFiniteSet(0 .. size - 1)
        /\ Cardinality(0 .. size - 1) = IF 0 > size - 1 THEN 0 ELSE (size - 1) - 0 + 1
    BY <2>1, FS_Interval
  <2> QED  BY <2>2, <1>1
<1>6. rank \in Surjection(S, 0 .. size - 1)
  <2> HIDE DEF rank
  <2> QED  BY <1>4, <1>5, FS_Injection
<1> DEFINE F == AtMost(n, S)
           place == [e \in F |-> Rank(e, S)]
<1>7. F = {e \in S : Rank(e, S) < n}
  BY DEF AtMost, Rank
<1>8. n <= size
  BY <1>2, <1>1, <1>7
<1>9. place \in Injection(F, 0 .. n - 1)
  <2>1. place \in [F -> 0 .. n - 1]
    BY <1>2, <1>7, <1>1
  <2>2. \A e, f \in F : place[e] = place[f] => e = f
    BY <1>2, <1>3, <1>1, <1>7
  <2> HIDE DEF place
  <2> QED  BY <2>1, <2>2 DEF Injection, IsInjective
<1>10. place \in Surjection(F, 0 .. n - 1)
  <2>1. \A k \in 0 .. n - 1 : \E e \in S : Rank(e, S) = k
    <3>1. \A k \in 0 .. size - 1 : \E e \in S : rank[e] = k
      <4> HIDE DEF rank
      <4> QED  BY <1>6 DEF Surjection
    <3> QED  BY <3>1, <1>8, <1>1
  <2>2. \A k \in 0 .. n - 1 : \E e \in F : place[e] = k
    BY <2>1, <1>7
  <2>3. place \in [F -> 0 .. n - 1]
    BY <1>9 DEF Injection
  <2> HIDE DEF place
  <2> QED  BY <2>2, <2>3 DEF Surjection
<1>11. IsFiniteSet(0 .. n - 1) /\ Cardinality(0 .. n - 1) = n
  BY FS_Interval
<1>12. Cardinality(F) = n
  <2> HIDE DEF place, F
  <2> QED  BY <1>9, <1>10, <1>11, FS_Injection
<1>13. \A e \in F : ~Newer(last, e)
  <2> SUFFICES ASSUME NEW e \in F, Newer(last, e) PROVE FALSE
    OBVIOUS
  <2>1. e \in S /\ Rank(e, S) < n /\ ~(Rank(last, S) < n)
    BY <1>7
  <2>2. Rank(last, S) < Rank(e, S)
    BY <1>3, <2>1
  <2> QED  BY <2>1, <2>2, <1>2, <1>1
<1> QED  BY <1>12, <1>13

LEMMA AccountKept ==
  ASSUME NEW old, NEW new, IsFiling(old), IsFiling(new), Before(old, new), NEW account
  PROVE  StillTold(AtMost(MostEvents, AccountEvents(old, account)),
                   AtMost(MostEvents, AccountEvents(new, account)))
<1> DEFINE S == AccountEvents(new, account)
           Old == AtMost(MostEvents, AccountEvents(old, account))
           New == AtMost(MostEvents, S)
<1> SUFFICES ASSUME NEW e \in Old, e.id \notin {"work-current", "score"}
    PROVE  e \in New \/ (Cardinality(New) = MostEvents /\ \A f \in New : f.at >= e.at)
  BY DEF StillTold
<1>1. e \in AccountEvents(old, account)
  BY DEF AtMost
<1>2. e \in S
  <2>1. e \notin ScoreEvents(old)
    BY DEF ScoreEvents
  <2>2. e \in WorkEvents(old) /\ e.major /\ old.account = account
    BY <1>1, <2>1 DEF AccountEvents
  <2>3. e \in WorkEvents(new)
    BY <2>2, WorkEventsStay
  <2> QED  BY <2>2, <2>3 DEF AccountEvents, Before
<1>3. IsFiniteSet(S)
  BY AccountEventsFinite
<1>4. /\ \A f \in S : ~Newer(f, f)
      /\ \A f, g, h \in S : Newer(f, g) /\ Newer(g, h) => Newer(f, h)
      /\ \A f, g \in S : f # g => Newer(f, g) \/ Newer(g, f)
  BY NewerOrders
<1>5. CASE e \notin New
  <2>1. MostEvents \in Nat
    BY FilingAssumption
  <2>2. Cardinality(New) = MostEvents /\ \A f \in New : ~Newer(e, f)
    <3> HIDE DEF S
    <3> QED  BY <1>2, <1>3, <1>4, <1>5, <2>1, AtMostFull
  <2>3. ASSUME NEW f \in New PROVE f.at >= e.at
    <3>1. f \in S
      BY DEF AtMost
    <3>2. f.at \in Nat /\ e.at \in Nat
      BY <3>1, <1>2, EventPlaced
    <3>3. ~(e.at > f.at)
      BY <2>2, NewerMeans
    <3> QED  BY <3>2, <3>3
  <2> QED  BY <2>2, <2>3
<1> QED  BY <1>5

LEMMA TrailBegins == EvidenceInit => TrailInv
BY FilingAssumption DEF EvidenceInit, TrailInv

LEMMA TimelinesKept ==
  ASSUME TrailInv, TrailInv', seen' # seen => seen'.item = filed, seen # Shut, seen' # seen
  PROVE  /\ \A e \in WorkTimeline(seen.item) :
              e.id = "work-current" \/ e \in WorkTimeline(seen'.item)
         /\ \A account \in Holders :
              StillTold(AccountTimeline(account), AccountTimeline(account)')
         /\ \A i \in DOMAIN seen'.item.trail : \E e \in WorkTimeline(seen'.item) :
              /\ e.event = seen'.item.trail[i].event
              /\ Minute(e) = Minute(seen'.item.trail[i])
<1> PICK old, new : old = seen.item /\ new = seen'.item
  OBVIOUS
<1>1. IsFiling(old) /\ IsFiling(new) /\ Before(old, new)
  BY DEF TrailInv
<1>2. ASSUME NEW e \in WorkTimeline(old)
      PROVE  e.id = "work-current" \/ e \in WorkTimeline(new)
  <2>1. old.sources = new.sources
    BY <1>1 DEF Before
  <2> QED  BY <1>1, <2>1, WorkEventsStay DEF WorkTimeline
<1>3. ASSUME NEW account PROVE StillTold(AccountTimeline(account), AccountTimeline(account)')
  <2>1. AccountTimeline(account) = AtMost(MostEvents, AccountEvents(old, account))
    BY DEF AccountTimeline, AccountEvents
  <2>2. AccountTimeline(account)' = AtMost(MostEvents, AccountEvents(new, account))
    BY DEF AccountTimeline, AccountEvents
  <2> QED  BY <1>1, <2>1, <2>2, AccountKept
<1>4. ASSUME NEW i \in DOMAIN new.trail
      PROVE  \E e \in WorkTimeline(new) :
               e.event = new.trail[i].event /\ Minute(e) = Minute(new.trail[i])
  BY <1>1, EachEntryTold
<1> QED  BY <1>2, <1>3, <1>4

(* An event that a timeline has told stays there, with its time and what   *)
(* it opens, until newer events fill the timeline, whatever the item, the  *)
(* commands and the order in which the pages are visited.                  *)
THEOREM TimelineAlwaysKept == EvidenceSpec => TimelineKept
<1> DEFINE Stays == seen # Shut /\ seen' # seen =>
       /\ \A e \in WorkTimeline(seen.item) :
            e.id = "work-current" \/ e \in WorkTimeline(seen'.item)
       /\ \A account \in Holders :
            StillTold(AccountTimeline(account), AccountTimeline(account)')
       /\ \A i \in DOMAIN seen'.item.trail : \E e \in WorkTimeline(seen'.item) :
            /\ e.event = seen'.item.trail[i].event
            /\ Minute(e) = Minute(seen'.item.trail[i])
<1>1. EvidenceInit => TrailInv
  BY TrailBegins
<1>2. TrailInv /\ [EvidenceNext]_evidenceVars => TrailInv'
  BY TrailHolds
<1>3. TrailInv /\ [EvidenceNext]_evidenceVars => [Stays]_evidenceVars
  BY TrailHolds, TimelinesKept
<1> HIDE DEF Stays
<1>4. EvidenceSpec => [][Stays]_evidenceVars
  BY <1>1, <1>2, <1>3, PTL DEF EvidenceSpec
<1> QED  BY <1>4 DEF TimelineKept, Stays
-----------------------------------------------------------------------------
(* The editor of a deliverable.                                            *)

Posts == {s \in Outstanding : s.phase = "sent"}

IsSave(s) ==
  /\ s = [by |-> s.by, number |-> s.number, text |-> s.text, record |-> s.record,
          phase |-> s.phase, got |-> s.got]
  /\ s.record \in 0 .. Len(records)
  /\ s.phase \in {"sent", "served"}
  /\ s.got \in 0 .. Len(records)
  /\ s.phase = "served" => s.got # 0

IsViewer(v) ==
  v = [open |-> v.open, number |-> v.number, text |-> v.text, record |-> v.record,
       dirty |-> v.dirty, busy |-> v.busy, versions |-> v.versions,
       suggestions |-> v.suggestions]

SavesOK ==
  /\ extra \in Nat
  /\ IsSequence(records)
  /\ local = [text |-> local.text, record |-> local.record]
  /\ local.record \in 0 .. Len(records)
  /\ IsFiniteSet(saves) /\ \A s \in saves : IsSave(s)
  /\ ~backend => saves = {} /\ records = <<>>

WizardOK ==
  /\ wizard = [step |-> wizard.step, text |-> wizard.text, record |-> wizard.record]
  /\ wizard.step # "closed" => ~viewer.open /\ \A s \in saves : s.by = "wizard"
  /\ wizard.step \in {"draft", "preview", "generating"} =>
       saves = {} /\ records = <<>> /\ local = Absent

(* The editor is on the local copy, or on the record when there is none.   *)
ViewerOK ==
  /\ IsViewer(viewer)
  /\ viewer.open => /\ viewer.record \in 0 .. Len(records)
                    /\ viewer.record = local.record \/ (local = Absent /\ viewer.record = 1)
  /\ ~viewer.open => viewer.busy = "no" /\ viewer.suggestions = {}

(* A record of the backend, of which this browser has nothing yet.         *)
Elsewhere == local = Absent /\ wizard.step = "closed" /\ (viewer.open => viewer.record # 0)

(* The records there are, and those that posts under way may yet make; as  *)
(* long as the copy names none, each is one of an outstanding save's.      *)
Counted ==
  /\ Len(records) + Cardinality(Posts) <= 1 + extra
  /\ local.record = 0 =>
       \/ Len(records) + Cardinality(Posts) <= extra + Cardinality(Outstanding)
       \/ Elsewhere

(* The last words, wherever they are, and on whatever way.                 *)
Edits ==
  latest # 0 /\ ~excuse =>
    /\ latest = IF viewer.open THEN viewer.text ELSE local.text
    /\ \A s \in saves : s.text = latest
    /\ viewer.open /\ ~viewer.dirty => local.text = latest

Agree ==
  ~crossed =>
    /\ \A s, t \in saves : s = t
    /\ \A s \in saves : s.phase = "served" => records[s.got] = s.text
    /\ saves = {} /\ ~failed /\ local.record # 0 => records[local.record] = local.text

DInv == SavesOK /\ WizardOK /\ ViewerOK /\ Counted /\ Edits /\ Agree

LEMMA FewPosts ==
  ASSUME SavesOK
  PROVE  /\ IsFiniteSet(Outstanding) /\ Cardinality(Outstanding) \in Nat
         /\ IsFiniteSet(Posts) /\ Cardinality(Posts) \in Nat
         /\ Len(records) \in Nat /\ DOMAIN records = 1 .. Len(records)
<1>1. Outstanding \subseteq saves /\ Posts \subseteq saves /\ IsFiniteSet(saves)
  BY DEF Outstanding, Posts, SavesOK
<1>2. IsFiniteSet(Outstanding) /\ IsFiniteSet(Posts)
  BY <1>1, FS_Subset
<1>3. Cardinality(Outstanding) \in Nat /\ Cardinality(Posts) \in Nat
  BY <1>2, FS_CardinalityType
<1>4. Len(records) \in Nat /\ DOMAIN records = 1 .. Len(records)
  BY LenProperties DEF SavesOK, IsSequence
<1> QED
  BY <1>2, <1>3, <1>4

LEMMA EditorInvEnough == DInv => EditsSafe /\ CopiesAgree
<1> SUFFICES ASSUME DInv PROVE EditsSafe /\ CopiesAgree
  OBVIOUS
<1>1. EditsKept
  BY DEF DInv, Edits, EditsKept
<1>2. OneRecord
  BY FewPosts DEF DInv, Counted, OneRecord, SavesOK
<1>3. CopiesAgree
  BY DEF DInv, Agree, CopiesAgree
<1> QED
  BY <1>1, <1>2, <1>3 DEF EditsSafe

(* What the editor is, as far as the invariant looks at it.                *)
Sees(v, open, text, record, dirty) ==
  IsViewer(v) /\ v.open = open /\ v.text = text /\ v.record = record /\ v.dirty = dirty

LEMMA AnyViewer ==
  ASSUME NEW v, IsViewer(v)
  PROVE  Sees(v, v.open, v.text, v.record, v.dirty)
BY DEF Sees

LEMMA ResetSees ==
  ASSUME NEW v, IsViewer(v), NEW copy, NEW w, w = Reset(v, copy)
  PROVE  Sees(w, v.open, copy.text, copy.record, FALSE)
<1> PICK open, number, text, record, dirty, busy1, versions, suggestions :
      v = [open |-> open, number |-> number, text |-> text, record |-> record,
           dirty |-> dirty, busy |-> busy1, versions |-> versions, suggestions |-> suggestions]
  BY DEF IsViewer
<1> PICK t, r, vs : t = copy.text /\ r = copy.record /\ vs = <<t>>
  OBVIOUS
<1>1. w = [open |-> open, number |-> number, text |-> t, record |-> r,
           dirty |-> FALSE, busy |-> busy1, versions |-> vs, suggestions |-> {}]
  BY DEF Reset
<1> QED
  BY <1>1 DEF IsViewer, Sees

Shows(w, v) ==
  IsViewer(w) /\ w.open = TRUE /\ w.text = v.text /\ w.record = v.record /\ w.dirty = v.dirty

LEMMA NumberSees ==
  ASSUME NEW v, IsViewer(v), NEW n, NEW w, w = [v EXCEPT !.open = TRUE, !.number = n]
  PROVE  Shows(w, v)
<1> PICK open, number, text, record, dirty, busy1, versions, suggestions :
      v = [open |-> open, number |-> number, text |-> text, record |-> record,
           dirty |-> dirty, busy |-> busy1, versions |-> versions, suggestions |-> suggestions]
  BY DEF IsViewer
<1>1. w = [open |-> TRUE, number |-> n, text |-> text, record |-> record,
           dirty |-> dirty, busy |-> busy1, versions |-> versions, suggestions |-> suggestions]
  OBVIOUS
<1> QED
  BY <1>1 DEF IsViewer, Shows

LEMMA NoViewerSees ==
  IsViewer(NoViewer) /\ ~NoViewer.open /\ NoViewer.busy = "no" /\ NoViewer.suggestions = {}
<1> PICK v : v = NoViewer
  OBVIOUS
<1> PICK vs, none : vs = <<>> /\ none = {}
  OBVIOUS
<1>1. v = [open |-> FALSE, number |-> 0, text |-> 0, record |-> 0,
           dirty |-> FALSE, busy |-> "no", versions |-> vs, suggestions |-> none]
  BY DEF NoViewer
<1> QED
  BY <1>1 DEF IsViewer

LEMMA MountedSees ==
  ASSUME NEW copy, NEW w, w = Mounted(copy)
  PROVE  Sees(w, TRUE, copy.text, copy.record, FALSE)
<1> PICK v : v = Reset(NoViewer, copy)
  OBVIOUS
<1> PICK n : n = viewer.number + 1
  OBVIOUS
<1>1. Sees(v, NoViewer.open, copy.text, copy.record, FALSE)
  BY NoViewerSees, ResetSees
<1>2. w = [v EXCEPT !.open = TRUE, !.number = n]
  BY DEF Mounted
<1>3. IsViewer(v) /\ v.text = copy.text /\ v.record = copy.record /\ v.dirty = FALSE
  BY <1>1 DEF Sees
<1>4. Shows(w, v)
  BY <1>2, <1>3, NumberSees
<1> QED
  BY <1>3, <1>4 DEF Sees, Shows

LEMMA UnmountedSees ==
  ASSUME NEW w, w = Unmounted
  PROVE  IsViewer(w) /\ ~w.open /\ w.busy = "no" /\ w.suggestions = {}
<1> PICK n, vs, none : n = viewer.number /\ vs = <<>> /\ none = {}
  OBVIOUS
<1>1. w = [open |-> FALSE, number |-> n, text |-> 0, record |-> 0,
           dirty |-> FALSE, busy |-> "no", versions |-> vs, suggestions |-> none]
  BY DEF NoViewer, Unmounted
<1> QED
  BY <1>1 DEF IsViewer

LEMMA EditorBegins == EditorInit => DInv
<1> SUFFICES ASSUME EditorInit PROVE DInv
  OBVIOUS
<1>1. /\ saves = {} /\ viewer = NoViewer /\ latest = 0 /\ extra = 0
      /\ wizard = [NoWizard EXCEPT !.step = IF made = 0 THEN "draft" ELSE "closed"]
  BY DEF EditorInit
<1>2. \/ local = Absent /\ records = <<>> /\ made = 0
      \/ local = [text |-> 1, record |-> 0] /\ records = <<>> /\ made = 1
      \/ backend /\ local = [text |-> 1, record |-> 1] /\ records = <<1>> /\ made = 1
      \/ backend /\ local = Absent /\ records = <<1>> /\ made = 1
  BY DEF EditorInit
<1>3. /\ wizard = [step |-> wizard.step, text |-> wizard.text, record |-> wizard.record]
      /\ wizard.step = IF made = 0 THEN "draft" ELSE "closed"
  BY <1>1 DEF NoWizard
<1>4. /\ IsViewer(viewer) /\ ~viewer.open
      /\ viewer.busy = "no" /\ viewer.suggestions = {}
  BY <1>1, NoViewerSees
<1>5. /\ <<>> \in Seq(Nat) /\ Len(<<>>) = 0
      /\ <<1>> \in Seq(Nat) /\ Len(<<1>>) = 1
  OBVIOUS
<1>6. SavesOK
  <2>1. IsSequence(records) /\ Len(records) \in {0, 1}
    BY <1>2, <1>5 DEF IsSequence
  <2>2. local = [text |-> local.text, record |-> local.record]
        /\ local.record \in 0 .. Len(records)
    BY <1>2, <1>5 DEF Absent
  <2>3. ~backend => records = <<>>
    BY <1>2
  <2> QED
    BY <1>1, <2>1, <2>2, <2>3, FS_EmptySet DEF SavesOK
<1>7. Outstanding = {} /\ Posts = {}
  BY <1>1 DEF Outstanding, Posts
<1>8. Counted
  <2>1. Cardinality(Outstanding) = 0 /\ Cardinality(Posts) = 0
    BY <1>7, FS_EmptySet
  <2>2. (Len(records) = 0 \/ Len(records) = 1) /\ (local.record = 0 => Len(records) = 0 \/ Elsewhere)
    BY <1>2, <1>3, <1>4, <1>5 DEF Elsewhere, Absent
  <2>3. extra = 0
    BY <1>1
  <2>4. Len(records) + Cardinality(Posts) <= 1 + extra
    <3> PICK x, y, z : x = Len(records) /\ y = Cardinality(Posts) /\ z = extra
      OBVIOUS
    <3>1. x + y <= 1 + z
      BY <2>1, <2>2, <2>3
    <3> QED
      BY <3>1
  <2>5. ASSUME local.record = 0
        PROVE  \/ Len(records) + Cardinality(Posts) <= extra + Cardinality(Outstanding)
               \/ Elsewhere
    BY <2>1, <2>2, <2>3, <2>5
  <2> QED
    BY <2>4, <2>5 DEF Counted
<1>9. WizardOK /\ ViewerOK /\ Edits
  BY <1>1, <1>2, <1>3, <1>4 DEF WizardOK, ViewerOK, Edits
<1>10. Agree
  BY <1>1, <1>2 DEF Agree, Absent
<1> QED
  BY <1>6, <1>8, <1>9, <1>10 DEF DInv

(* The same text on the same record, whatever else there is.               *)
Same(w, v) ==
  IsViewer(w) /\ w.open = v.open /\ w.text = v.text /\ w.record = v.record /\ w.dirty = v.dirty

Rewritten(w, v, t) ==
  IsViewer(w) /\ w.open = v.open /\ w.text = t /\ w.record = v.record /\ w.dirty = TRUE

LEMMA BusySees ==
  ASSUME NEW v, IsViewer(v), NEW b, NEW ss, NEW w,
         w = [v EXCEPT !.busy = b] \/ w = [v EXCEPT !.suggestions = ss]
           \/ w = [v EXCEPT !.busy = b, !.suggestions = ss]
  PROVE  Same(w, v)
<1> PICK open, number, text, record, dirty, busy1, versions, suggestions :
      v = [open |-> open, number |-> number, text |-> text, record |-> record,
           dirty |-> dirty, busy |-> busy1, versions |-> versions, suggestions |-> suggestions]
  BY DEF IsViewer
<1>1. PICK b1, ss1 : w = [open |-> open, number |-> number, text |-> text, record |-> record,
           dirty |-> dirty, busy |-> b1, versions |-> versions, suggestions |-> ss1]
  <2>1. CASE w = [v EXCEPT !.busy = b]
    BY <2>1
  <2>2. CASE w = [v EXCEPT !.suggestions = ss]
    BY <2>2
  <2>3. CASE w = [v EXCEPT !.busy = b, !.suggestions = ss]
    BY <2>3
  <2> QED
    BY <2>1, <2>2, <2>3
<1> QED
  BY <1>1 DEF IsViewer, Same

LEMMA TextSees ==
  ASSUME NEW v, IsViewer(v), NEW t, NEW vs, NEW ss, NEW w,
         w = [v EXCEPT !.text = t, !.dirty = TRUE]
           \/ w = [v EXCEPT !.text = t, !.dirty = TRUE, !.versions = vs]
           \/ w = [v EXCEPT !.text = t, !.dirty = TRUE, !.versions = vs, !.suggestions = ss]
  PROVE  Rewritten(w, v, t)
<1> PICK open, number, text, record, dirty, busy1, versions, suggestions :
      v = [open |-> open, number |-> number, text |-> text, record |-> record,
           dirty |-> dirty, busy |-> busy1, versions |-> versions, suggestions |-> suggestions]
  BY DEF IsViewer
<1>1. PICK vs1, ss1 : w = [open |-> open, number |-> number, text |-> t, record |-> record,
           dirty |-> TRUE, busy |-> busy1, versions |-> vs1, suggestions |-> ss1]
  <2>1. CASE w = [v EXCEPT !.text = t, !.dirty = TRUE]
    BY <2>1
  <2>2. CASE w = [v EXCEPT !.text = t, !.dirty = TRUE, !.versions = vs]
    BY <2>2
  <2>3. CASE w = [v EXCEPT !.text = t, !.dirty = TRUE, !.versions = vs, !.suggestions = ss]
    BY <2>3
  <2> QED
    BY <2>1, <2>2, <2>3
<1> QED
  BY <1>1 DEF IsViewer, Rewritten

(* A step of the editor or of the wizard that saves nothing.               *)
LEMMA NothingSaved ==
  ASSUME DInv, UNCHANGED <<local, records, saves, backend, extra, failed, crossed>>,
         WizardOK', ViewerOK', Edits', Elsewhere => Elsewhere'
  PROVE  DInv'
<1>1. SavesOK'
  BY DEF DInv, SavesOK, IsSave, IsSequence
<1>2. Counted'
  BY DEF DInv, Counted, Posts, Outstanding
<1>3. Agree'
  BY DEF DInv, Agree
<1> QED
  BY <1>1, <1>2, <1>3, Zenon DEF DInv

(* A save begins, of the copy that is kept.                                *)
LEMMA SaveBegins ==
  ASSUME DInv, NEW by, NEW copy, copy = [text |-> copy.text, record |-> copy.record],
         copy.record \in 0 .. Len(records), SendSave(by, copy), local' = copy,
         UNCHANGED <<records, backend, failed>>,
         copy.record = 0 =>
           Len(records) + Cardinality(Posts) <= extra + Cardinality(Outstanding)
  PROVE  /\ SavesOK' /\ Counted' /\ Agree'
         /\ \A s \in saves' : s \in saves \/ (s.text = copy.text /\ s.by = by)
<1>1. PICK new : new = [by |-> by, number |-> viewer.number, text |-> copy.text,
                        record |-> copy.record, phase |-> "sent", got |-> 0]
  OBVIOUS
<1>2. /\ saves' = IF ~backend THEN saves ELSE saves \cup {new}
      /\ extra' = IF copy.record = 0 /\ Outstanding # {} THEN extra + 1 ELSE extra
      /\ crossed' = (saves # {})
  BY <1>1 DEF SendSave
<1>3. SavesOK /\ Counted
  BY DEF DInv
<1>4. /\ IsFiniteSet(Outstanding) /\ Cardinality(Outstanding) \in Nat
      /\ IsFiniteSet(Posts) /\ Cardinality(Posts) \in Nat /\ Len(records) \in Nat
  BY <1>3, FewPosts
<1>5. IsSave(new) /\ IsSave(new)'
  BY <1>1, <1>4 DEF IsSave
<1>6. \A s \in saves : IsSave(s)'
  BY <1>3 DEF SavesOK, IsSave
<1>7. SavesOK'
  BY <1>2, <1>3, <1>5, <1>6, FS_AddElement DEF SavesOK, IsSequence
<1>8. Counted'
  <2>1. CASE ~backend
    <3>1. saves = {} /\ records = <<>> /\ saves' = {} /\ records' = <<>>
      BY <1>2, <1>3, <2>1 DEF SavesOK
    <3>2. Posts' = {} /\ Posts = {} /\ Outstanding' = {} /\ Outstanding = {} /\ extra' = extra
      BY <1>2, <3>1 DEF Posts, Outstanding
    <3>3. Len(records) + Cardinality(Posts) <= extra + Cardinality(Outstanding)
      BY <1>3, <3>1 DEF SavesOK
    <3>4. /\ Cardinality(Posts') = Cardinality(Posts)
          /\ Cardinality(Outstanding') = Cardinality(Outstanding)
      BY <3>2
    <3> QED
      BY <1>3, <1>4, <3>2, <3>3, <3>4 DEF Counted, SavesOK
  <2>2. CASE backend /\ copy.record # 0
    <3>1. Posts' = Posts /\ Outstanding' = Outstanding
      BY <1>1, <1>2, <2>2 DEF Posts, Outstanding
    <3> QED
      BY <1>2, <1>3, <2>2, <3>1 DEF Counted
  <2>3. CASE backend /\ copy.record = 0
    <3>1. Posts' = Posts \cup {new} /\ Outstanding' = Outstanding \cup {new}
      BY <1>1, <1>2, <2>3 DEF Posts, Outstanding
    <3>2. new \in Posts <=> new \in Outstanding
      BY <1>1 DEF Posts
    <3>3. /\ Cardinality(Posts') = IF new \in Posts THEN Cardinality(Posts)
                                   ELSE Cardinality(Posts) + 1
          /\ Cardinality(Outstanding') = IF new \in Posts THEN Cardinality(Outstanding)
                                         ELSE Cardinality(Outstanding) + 1
      BY <1>4, <3>1, <3>2, FS_AddElement
    <3>4. Outstanding = {} => Cardinality(Outstanding) = 0
      BY FS_EmptySet
    <3> PICK x, p, o, n : /\ x = Len(records) /\ p = Cardinality(Posts)
                          /\ o = Cardinality(Outstanding) /\ n = extra
      OBVIOUS
    <3>5. x \in Nat /\ p \in Nat /\ o \in Nat /\ n \in Nat /\ x + p <= n + o /\ x + p <= 1 + n
      BY <1>3, <1>4, <2>3 DEF Counted, SavesOK
    <3>6. extra' = IF Outstanding # {} THEN n + 1 ELSE n
      BY <1>2, <2>3
    <3>7. /\ x + Cardinality(Posts') <= 1 + extra'
          /\ x + Cardinality(Posts') <= extra' + Cardinality(Outstanding')
      BY <3>3, <3>4, <3>5, <3>6
    <3> QED
      BY <3>7 DEF Counted
  <2> QED
    BY <2>1, <2>2, <2>3
<1>9. Agree'
  <2>1. CASE ~backend
    <3>1. local'.record = 0 /\ saves' = {}
      BY <1>2, <1>3, <2>1 DEF SavesOK
    <3> QED
      BY <3>1 DEF Agree
  <2>2. CASE backend
    <3>1. ~crossed' => saves' = {new}
      BY <1>2, <2>2
    <3>2. new.phase # "served"
      BY <1>1
    <3> QED
      BY <3>1, <3>2 DEF Agree
  <2> QED
    BY <2>1, <2>2
<1> QED
  BY <1>1, <1>2, <1>7, <1>8, <1>9

LEMMA WizardSteps ==
  ASSUME DInv, WizardNext
  PROVE  DInv'
<1>1. /\ SavesOK /\ WizardOK /\ ViewerOK /\ Counted /\ Edits /\ Agree
      /\ Len(records) \in Nat
  BY FewPosts DEF DInv
<1>2. PICK step, text, record : wizard = [step |-> step, text |-> text, record |-> record]
  BY <1>1 DEF WizardOK
<1>3. CASE GeneratePreview \/ \E ok \in BOOLEAN : Generated(ok)
  <2>1. PICK step1, text1 : /\ wizard' = [step |-> step1, text |-> text1, record |-> record]
                            /\ step1 \in {"generating", "preview", "draft"}
    <3>1. CASE GeneratePreview
      BY <1>2, <3>1 DEF GeneratePreview
    <3>2. ASSUME NEW ok \in BOOLEAN, Generated(ok)
          PROVE  \E step1, text1 : /\ wizard' = [step |-> step1, text |-> text1, record |-> record]
                                   /\ step1 \in {"generating", "preview", "draft"}
      <4>1. PICK t : wizard' = [wizard EXCEPT !.step = "preview", !.text = t]
                     \/ wizard' = [wizard EXCEPT !.step = "draft"]
        BY <3>2 DEF Generated
      <4>2. CASE wizard' = [wizard EXCEPT !.step = "preview", !.text = t]
        <5>1. wizard' = [step |-> "preview", text |-> t, record |-> record]
          BY <1>2, <4>2
        <5> QED
          BY <5>1
      <4>3. CASE wizard' = [wizard EXCEPT !.step = "draft"]
        <5>1. wizard' = [step |-> "draft", text |-> text, record |-> record]
          BY <1>2, <4>3
        <5> QED
          BY <5>1
      <4> QED
        BY <4>1, <4>2, <4>3
    <3> QED
      BY <1>3, <3>1, <3>2
  <2>2. /\ UNCHANGED <<local, records, viewer, saves, backend, ghostVars>>
        /\ wizard.step \in {"draft", "preview", "generating"}
    BY <1>3 DEF GeneratePreview, Generated
  <2>3. UNCHANGED <<latest, excuse, extra, failed, crossed>>
    BY <2>2 DEF ghostVars
  <2>4. WizardOK'
    BY <1>1, <2>1, <2>2 DEF WizardOK
  <2>5. ViewerOK' /\ Edits' /\ ~Elsewhere
    BY <1>1, <2>2, <2>3 DEF ViewerOK, IsViewer, Edits, Elsewhere
  <2> QED
    BY <2>2, <2>3, <2>4, <2>5, NothingSaved
<1>4. CASE SaveToLibrary
  <2> PICK copy : copy = [text |-> wizard.text, record |-> 0]
    OBVIOUS
  <2>1. /\ wizard.step = "preview" /\ KeepLocally(viewer, copy) /\ SendSave("wizard", copy)
        /\ wizard' = [wizard EXCEPT !.step = IF backend THEN "saving" ELSE "saved"]
        /\ latest' = wizard.text /\ excuse' = FALSE
        /\ UNCHANGED <<records, backend, failed>>
    BY <1>4 DEF SaveToLibrary
  <2>2. saves = {} /\ records = <<>> /\ ~viewer.open
    BY <1>1, <2>1 DEF WizardOK
  <2>3. local' = copy /\ viewer' = viewer
    BY <2>1, <2>2 DEF KeepLocally
  <2>4. copy = [text |-> copy.text, record |-> copy.record] /\ copy.text = wizard.text
        /\ copy.record = 0
    OBVIOUS
  <2>5. Len(records) + Cardinality(Posts) <= extra + Cardinality(Outstanding)
    <3>1. Posts = {} /\ Outstanding = {} /\ Len(records) = 0
      BY <2>2 DEF Posts, Outstanding
    <3>2. Cardinality(Posts) = 0 /\ Cardinality(Outstanding) = 0
      BY <3>1, FS_EmptySet
    <3> QED
      BY <1>1, <3>1, <3>2 DEF SavesOK
  <2>6. /\ SavesOK' /\ Counted' /\ Agree'
        /\ \A s \in saves' : s \in saves \/ (s.text = copy.text /\ s.by = "wizard")
    BY <1>1, <2>1, <2>3, <2>4, <2>5, SaveBegins
  <2>7. PICK step1 : /\ wizard' = [step |-> step1, text |-> text, record |-> record]
                     /\ step1 \in {"saving", "saved"}
    <3>1. wizard' = [wizard EXCEPT !.step = "saving"] \/ wizard' = [wizard EXCEPT !.step = "saved"]
      BY <2>1
    <3> QED
      BY <1>2, <3>1
  <2>8. WizardOK'
    BY <2>2, <2>3, <2>6, <2>7 DEF WizardOK
  <2>9. ViewerOK' /\ Edits'
    BY <1>1, <2>1, <2>2, <2>3, <2>4, <2>6 DEF ViewerOK, IsViewer, Edits
  <2> QED
    BY <2>6, <2>8, <2>9 DEF DInv
<1>5. ASSUME wizard' = NoWizard PROVE wizard'.step = "closed" /\ WizardOK'
  BY <1>5 DEF NoWizard, WizardOK
<1>6. CASE CloseWizard
  <2>1. UNCHANGED <<local, records, viewer, saves, backend, ghostVars>>
        /\ wizard.step # "closed" /\ wizard' = NoWizard
    BY <1>6 DEF CloseWizard
  <2>2. UNCHANGED <<latest, excuse, extra, failed, crossed>>
    BY <2>1 DEF ghostVars
  <2>3. ViewerOK' /\ Edits' /\ ~Elsewhere
    BY <1>1, <2>1, <2>2 DEF ViewerOK, IsViewer, Edits, Elsewhere
  <2> QED
    BY <1>5, <2>1, <2>2, <2>3, NothingSaved
<1>7. CASE OpenInEditor
  <2>1. /\ UNCHANGED <<local, records, saves, backend, ghostVars>>
        /\ wizard.step = "saved" /\ wizard' = NoWizard /\ viewer' = Mounted(local)
    BY <1>7 DEF OpenInEditor
  <2>2. UNCHANGED <<latest, excuse, extra, failed, crossed>>
    BY <2>1 DEF ghostVars
  <2>3. Sees(viewer', TRUE, local.text, local.record, FALSE) /\ ~viewer.open
    BY <1>1, <2>1, MountedSees DEF WizardOK
  <2>4. ViewerOK' /\ Edits' /\ ~Elsewhere
    BY <1>1, <2>1, <2>2, <2>3 DEF ViewerOK, IsViewer, Edits, Elsewhere, Sees, SavesOK
  <2> QED
    BY <1>5, <2>1, <2>2, <2>4, NothingSaved
<1> QED
  BY <1>3, <1>4, <1>6, <1>7 DEF WizardNext

(* What a step of the editor that saves nothing needs: the editor is on    *)
(* the same record, on the same text or on the one that is now the last.   *)
LEMMA EditorSame ==
  ASSUME DInv, Same(viewer', viewer),
         viewer.open,
         UNCHANGED <<local, records, wizard, saves, backend, latest, excuse, extra, failed, crossed>>
  PROVE  DInv'
<1>1. SavesOK /\ WizardOK /\ ViewerOK /\ Edits
  BY DEF DInv
<1>2. /\ IsViewer(viewer') /\ viewer'.open = viewer.open /\ viewer'.text = viewer.text
      /\ viewer'.record = viewer.record /\ viewer'.dirty = viewer.dirty
  BY DEF Same
<1>3. WizardOK'
  BY <1>1, <1>2 DEF WizardOK
<1>4. ViewerOK'
  BY <1>1, <1>2 DEF ViewerOK, IsViewer
<1>5. Edits'
  BY <1>1, <1>2 DEF Edits
<1>6. Elsewhere => Elsewhere'
  BY <1>2 DEF Elsewhere
<1> QED
  BY <1>3, <1>4, <1>5, <1>6, NothingSaved

LEMMA EditorPuts ==
  ASSUME DInv, NEW t, Rewritten(viewer', viewer, t), viewer.open, Put(t),
         UNCHANGED <<local, records, wizard, saves, backend>>
  PROVE  DInv'
<1>1. SavesOK /\ WizardOK /\ ViewerOK /\ Edits
  BY DEF DInv
<1>2. /\ IsViewer(viewer') /\ viewer'.open = viewer.open /\ viewer'.text = t
      /\ viewer'.record = viewer.record /\ viewer'.dirty = TRUE
  BY DEF Rewritten
<1>3. latest' = t /\ excuse' = (saves # {}) /\ UNCHANGED <<extra, failed, crossed>>
  BY DEF Put
<1>4. WizardOK'
  BY <1>1, <1>2 DEF WizardOK
<1>5. ViewerOK'
  BY <1>1, <1>2 DEF ViewerOK, IsViewer
<1>6. Edits'
  BY <1>1, <1>2, <1>3 DEF Edits
<1>7. Elsewhere => Elsewhere'
  BY <1>2 DEF Elsewhere
<1> QED
  BY <1>3, <1>4, <1>5, <1>6, <1>7, NothingSaved

LEMMA EditorLeaves ==
  ASSUME DInv, viewer.open, viewer' = Unmounted, excuse' = (excuse \/ Unsaved),
         UNCHANGED <<local, records, wizard, saves, backend, latest, extra, failed, crossed>>
  PROVE  DInv'
<1>1. SavesOK /\ WizardOK /\ ViewerOK /\ Edits
  BY DEF DInv
<1>2. IsViewer(viewer') /\ ~viewer'.open /\ viewer'.busy = "no" /\ viewer'.suggestions = {}
  BY UnmountedSees
<1>3. WizardOK'
  BY <1>1, <1>2 DEF WizardOK
<1>4. ViewerOK'
  BY <1>1, <1>2 DEF ViewerOK, IsViewer
<1>5. Edits'
  BY <1>1, <1>2 DEF Edits, Unsaved
<1>6. Elsewhere => Elsewhere'
  BY <1>2 DEF Elsewhere
<1> QED
  BY <1>3, <1>4, <1>5, <1>6, NothingSaved

(* A save of the editor's, which stays open or not.                        *)
LEMMA EditorSaves ==
  ASSUME DInv, viewer.open, NEW copy, copy = [text |-> viewer.text, record |-> viewer.record],
         SendSave("viewer", copy), local' = copy,
         \/ Sees(viewer', TRUE, copy.text, copy.record, FALSE)
         \/ IsViewer(viewer') /\ ~viewer'.open /\ viewer'.busy = "no" /\ viewer'.suggestions = {},
         excuse' = (excuse \/ saves # {}),
         UNCHANGED <<records, wizard, backend, latest, failed>>
  PROVE  DInv'
<1>1. SavesOK /\ WizardOK /\ ViewerOK /\ Edits /\ Counted
  BY DEF DInv
<1>2. copy = [text |-> copy.text, record |-> copy.record] /\ copy.text = viewer.text
      /\ copy.record = viewer.record
  OBVIOUS
<1>3. copy.record \in 0 .. Len(records)
  BY <1>1, <1>2 DEF ViewerOK
<1>4. copy.record = 0 =>
        Len(records) + Cardinality(Posts) <= extra + Cardinality(Outstanding)
  <2>1. copy.record = 0 => local.record = 0 /\ ~Elsewhere
    BY <1>1, <1>2 DEF ViewerOK, Elsewhere
  <2> QED
    BY <1>1, <2>1 DEF Counted
<1>5. /\ SavesOK' /\ Counted' /\ Agree'
      /\ \A s \in saves' : s \in saves \/ (s.text = copy.text /\ s.by = "viewer")
  BY <1>2, <1>3, <1>4, SaveBegins
<1>6. wizard.step = "closed"
  BY <1>1 DEF WizardOK
<1>7. WizardOK'
  BY <1>1, <1>6 DEF WizardOK
<1>8. ViewerOK'
  BY <1>1, <1>2, <1>3 DEF ViewerOK, IsViewer, Sees
<1>9. Edits'
  BY <1>1, <1>2, <1>5 DEF Edits, Sees
<1> QED
  BY <1>5, <1>7, <1>8, <1>9, Zenon DEF DInv

LEMMA ViewerSteps ==
  ASSUME DInv, ViewerNext
  PROVE  DInv'
<1>1. /\ SavesOK /\ WizardOK /\ ViewerOK /\ Edits /\ IsViewer(viewer)
      /\ Len(records) \in Nat /\ DOMAIN records = 1 .. Len(records)
  BY FewPosts DEF DInv, ViewerOK
<1>2. (viewer.busy # "no" \/ viewer.suggestions # {}) => viewer.open
  BY <1>1 DEF ViewerOK
<1>3. CASE OpenViewer
  <2> PICK copy : copy = IF local # Absent THEN local ELSE [text |-> records[1], record |-> 1]
    OBVIOUS
  <2>1. /\ UNCHANGED <<local, records, wizard, saves, backend, ghostVars>>
        /\ ~viewer.open /\ wizard.step = "closed" /\ (local # Absent \/ records # <<>>)
        /\ viewer' = Mounted(copy)
    BY <1>3 DEF OpenViewer
  <2>2. UNCHANGED <<latest, excuse, extra, failed, crossed>>
    BY <2>1 DEF ghostVars
  <2>3. /\ IsViewer(viewer') /\ viewer'.open /\ viewer'.text = copy.text
        /\ viewer'.record = copy.record /\ viewer'.dirty = FALSE
    BY <2>1, MountedSees DEF Sees
  <2>4. local = Absent => copy.record = 1 /\ 1 \in 0 .. Len(records)
    <3>1. records # <<>> => Len(records) # 0
      BY <1>1, EmptySeq DEF SavesOK, IsSequence
    <3> QED
      BY <1>1, <2>1, <3>1
  <2>5. WizardOK'
    BY <1>1, <2>1 DEF WizardOK
  <2>6. ViewerOK'
    <3>1. local # Absent => copy = local /\ local.record \in 0 .. Len(records)
      BY <1>1 DEF SavesOK
    <3> QED
      BY <2>1, <2>3, <2>4, <3>1 DEF ViewerOK, IsViewer
  <2>7. Edits'
    <3>1. local = Absent => local.text = 0
      BY DEF Absent
    <3> QED
      BY <1>1, <2>1, <2>2, <2>3, <3>1 DEF Edits
  <2>8. Elsewhere => Elsewhere'
    BY <2>1, <2>3, <2>4 DEF Elsewhere
  <2> QED
    BY <2>1, <2>2, <2>5, <2>6, <2>7, <2>8, NothingSaved
<1>4. CASE UpdateText
  <2>1. PICK vs : viewer' = [viewer EXCEPT !.text = made', !.dirty = TRUE, !.versions = vs]
    BY <1>4 DEF UpdateText
  <2>2. Rewritten(viewer', viewer, made')
    BY <1>1, <2>1, TextSees
  <2> QED
    BY <1>4, <2>2, EditorPuts DEF UpdateText
<1>5. ASSUME NEW k \in DOMAIN viewer.versions, RestoreVersion(k) PROVE DInv'
  <2> PICK t : t = viewer.versions[k]
    OBVIOUS
  <2>1. viewer' = [viewer EXCEPT !.text = t, !.dirty = TRUE] /\ Put(t) /\ viewer.open
        /\ UNCHANGED <<local, records, wizard, saves, backend>>
    BY <1>5 DEF RestoreVersion
  <2>2. Rewritten(viewer', viewer, t)
    BY <1>1, <2>1, TextSees
  <2> QED
    BY <2>1, <2>2, EditorPuts
<1>6. ASSUME NEW s \in viewer.suggestions, ApplySuggestion(s) PROVE DInv'
  <2> PICK t : t = IF plain THEN s.text ELSE viewer.text
    OBVIOUS
  <2>1. /\ \E vs, ss : viewer' = [viewer EXCEPT !.text = t, !.dirty = TRUE, !.versions = vs,
                                               !.suggestions = ss]
        /\ Put(t) /\ UNCHANGED <<local, records, wizard, saves, backend>>
    BY <1>6 DEF ApplySuggestion
  <2>2. Rewritten(viewer', viewer, t)
    BY <1>1, <2>1, TextSees
  <2> QED
    BY <1>2, <2>1, <2>2, EditorPuts
<1>7. ASSUME \/ \E action \in {"suggestion", "download"} : Begin(action)
             \/ \E warning \in BOOLEAN : Suggested(warning)
             \/ Downloaded
             \/ \E s \in viewer.suggestions : Discard(s)
      PROVE  DInv'
  <2>1. /\ viewer.open
        /\ UNCHANGED <<local, records, wizard, saves, backend, ghostVars>>
        /\ \E b, ss : \/ viewer' = [viewer EXCEPT !.busy = b]
                      \/ viewer' = [viewer EXCEPT !.suggestions = ss]
                      \/ viewer' = [viewer EXCEPT !.busy = b, !.suggestions = ss]
    <3>1. ASSUME NEW action \in {"suggestion", "download"}, Begin(action)
          PROVE  /\ viewer.open /\ UNCHANGED <<local, records, wizard, saves, backend, ghostVars>>
                 /\ \E b : viewer' = [viewer EXCEPT !.busy = b]
      BY <3>1 DEF Begin
    <3>2. ASSUME NEW warning \in BOOLEAN, Suggested(warning)
          PROVE  /\ viewer.open /\ UNCHANGED <<local, records, wizard, saves, backend, ghostVars>>
                 /\ \E b, ss : viewer' = [viewer EXCEPT !.busy = b, !.suggestions = ss]
      BY <1>2, <3>2 DEF Suggested
    <3>3. ASSUME Downloaded
          PROVE  /\ viewer.open /\ UNCHANGED <<local, records, wizard, saves, backend, ghostVars>>
                 /\ \E b : viewer' = [viewer EXCEPT !.busy = b]
      BY <1>2, <3>3 DEF Downloaded
    <3>4. ASSUME NEW s \in viewer.suggestions, Discard(s)
          PROVE  /\ viewer.open /\ UNCHANGED <<local, records, wizard, saves, backend, ghostVars>>
                 /\ \E ss : viewer' = [viewer EXCEPT !.suggestions = ss]
      BY <1>2, <3>4 DEF Discard
    <3> QED
      BY <1>7, <3>1, <3>2, <3>3, <3>4
  <2>2. UNCHANGED <<latest, excuse, extra, failed, crossed>>
    BY <2>1 DEF ghostVars
  <2>3. Same(viewer', viewer)
    BY <1>1, <2>1, BusySees
  <2> QED
    BY <2>1, <2>2, <2>3, EditorSame
<1>8. CASE SaveCurrent
  <2> PICK copy : copy = [text |-> viewer.text, record |-> viewer.record]
    OBVIOUS
  <2> PICK b : b = IF backend THEN "save" ELSE "no"
    OBVIOUS
  <2> PICK v : v = [viewer EXCEPT !.busy = b]
    OBVIOUS
  <2>1. /\ viewer.open /\ KeepLocally(v, copy) /\ SendSave("viewer", copy)
        /\ excuse' = (excuse \/ saves # {})
        /\ UNCHANGED <<records, wizard, backend, latest, failed>>
    BY <1>8 DEF SaveCurrent
  <2>2. IsViewer(v) /\ v.open
    <3>1. Same(v, viewer)
      BY <1>1, BusySees
    <3> QED
      BY <2>1, <3>1 DEF Same
  <2>3. local' = copy /\ viewer' = Reset(v, copy)
    BY <2>1, <2>2 DEF KeepLocally
  <2>4. Sees(viewer', v.open, copy.text, copy.record, FALSE)
    BY <2>2, <2>3, ResetSees
  <2>5. Sees(viewer', TRUE, copy.text, copy.record, FALSE)
    BY <2>2, <2>4 DEF Sees
  <2> QED
    BY <2>1, <2>3, <2>5, EditorSaves
<1>9. ASSUME NEW choice \in BOOLEAN, CloseEditor(choice) PROVE DInv'
  <2>1. CASE choice /\ viewer.busy = "no"
    <3> PICK copy : copy = [text |-> viewer.text, record |-> viewer.record]
      OBVIOUS
    <3>1. /\ viewer.open /\ KeepLocally(Unmounted, copy) /\ SendSave("viewer", copy)
          /\ excuse' = (excuse \/ saves # {})
          /\ UNCHANGED <<records, wizard, backend, latest, failed>>
      BY <1>9, <2>1 DEF CloseEditor
    <3>2. IsViewer(Unmounted) /\ ~Unmounted.open /\ Unmounted.busy = "no"
          /\ Unmounted.suggestions = {}
      BY UnmountedSees
    <3>3. local' = copy /\ viewer' = Unmounted
      BY <3>1, <3>2 DEF KeepLocally
    <3> QED
      BY <3>1, <3>2, <3>3, EditorSaves
  <2>2. CASE ~(choice /\ viewer.busy = "no")
    BY <1>9, <2>2, EditorLeaves DEF CloseEditor
  <2> QED
    BY <2>1, <2>2
<1>10. CASE Escape
  BY <1>10, EditorLeaves DEF Escape
<1> QED
  BY <1>3, <1>4, <1>5, <1>6, <1>7, <1>8, <1>9, <1>10 DEF ViewerNext

LEMMA WizardHears ==
  ASSUME WizardOK, NEW s \in saves, NEW r, WizardSaved(s, r)
  PROVE  /\ wizard' = [step |-> wizard'.step, text |-> wizard'.text, record |-> wizard'.record]
         /\ wizard'.step # "closed" <=> wizard.step # "closed"
         /\ wizard'.step \notin {"draft", "preview", "generating"}
<1> PICK step, text, record : wizard = [step |-> step, text |-> text, record |-> record]
  BY DEF WizardOK
<1>1. step \notin {"draft", "preview", "generating"}
  BY DEF WizardOK
<1>2. CASE s.by = "wizard" /\ wizard.step = "saving"
  <2>1. wizard' = [step |-> "saved", text |-> text, record |-> r]
    BY <1>2 DEF WizardSaved
  <2> QED
    BY <1>2, <2>1
<1>3. CASE ~(s.by = "wizard" /\ wizard.step = "saving")
  <2>1. wizard' = wizard
    BY <1>3 DEF WizardSaved
  <2> QED
    BY <1>1, <2>1
<1> QED
  BY <1>2, <1>3

LEMMA ReleasedSees ==
  ASSUME ViewerOK, NEW s
  PROVE  /\ Same(Released(s), viewer)
         /\ ~viewer.open => Released(s) = viewer
<1>1. IsViewer(viewer)
  BY DEF ViewerOK
<1>2. Same([viewer EXCEPT !.busy = "no"], viewer)
  BY <1>1, BusySees
<1>3. Same(viewer, viewer)
  BY <1>1 DEF Same
<1>4. Released(s) = [viewer EXCEPT !.busy = "no"] \/ Released(s) = viewer
  BY DEF Released
<1>5. ~viewer.open => Released(s) = viewer
  BY DEF Released
<1>6. Same(Released(s), viewer)
  BY <1>2, <1>3, <1>4
<1> QED
  BY <1>5, <1>6

LEMMA ServeSaveKeeps ==
  ASSUME DInv, NEW s, ServeSave(s)
  PROVE  DInv'
<1>1. /\ SavesOK /\ WizardOK /\ ViewerOK /\ Edits /\ Counted /\ Agree
      /\ s \in saves /\ IsSave(s) /\ s.phase = "sent" /\ backend
  BY DEF DInv, SavesOK, ServeSave
<1>2. UNCHANGED <<local, wizard, viewer, backend, latest, excuse, extra, failed, crossed>>
  BY DEF ServeSave, ghostVars
<1>3. /\ IsFiniteSet(Outstanding) /\ Cardinality(Outstanding) \in Nat
      /\ IsFiniteSet(Posts) /\ Cardinality(Posts) \in Nat
      /\ Len(records) \in Nat /\ DOMAIN records = 1 .. Len(records)
  BY <1>1, FewPosts
<1> PICK got : got = IF s.record = 0 THEN Len(records) + 1 ELSE s.record
  OBVIOUS
<1> PICK t : t = [s EXCEPT !.phase = "served", !.got = got]
  OBVIOUS
<1>4. saves' = (saves \ {s}) \cup {t}
  BY DEF ServeSave
<1>5. /\ t = [by |-> t.by, number |-> t.number, text |-> t.text, record |-> t.record,
              phase |-> t.phase, got |-> t.got]
      /\ t.by = s.by /\ t.text = s.text /\ t.record = s.record
      /\ t.phase = "served" /\ t.got = got
  <2> PICK by, number, text, record, phase, got1 :
        s = [by |-> by, number |-> number, text |-> text, record |-> record,
             phase |-> phase, got |-> got1]
    BY <1>1 DEF IsSave
  <2>1. t = [by |-> by, number |-> number, text |-> text, record |-> record,
             phase |-> "served", got |-> got]
    OBVIOUS
  <2> QED
    BY <2>1
<1>6. /\ IsSequence(records') /\ Len(records') \in Nat /\ Len(records') >= Len(records)
      /\ got \in 1 .. Len(records') /\ records'[got] = s.text
      /\ Len(records') = IF s.record = 0 THEN Len(records) + 1 ELSE Len(records)
  <2> PICK S : records \in Seq(S)
    BY <1>1 DEF SavesOK, IsSequence
  <2> PICK x, T : x = s.text /\ T = S \cup {x}
    OBVIOUS
  <2>1. records \in Seq(T)
    BY SeqDef
  <2>2. CASE s.record = 0
    <3>1. records' = Append(records, x)
      BY <2>2 DEF ServeSave
    <3>2. /\ records' \in Seq(T) /\ Len(records') = Len(records) + 1
          /\ records'[Len(records) + 1] = x
      BY <2>1, <3>1, AppendProperties
    <3> QED
      BY <1>3, <2>2, <3>2 DEF IsSequence
  <2>3. CASE s.record # 0
    <3>1. records' = [records EXCEPT ![s.record] = x] /\ got = s.record
      BY <2>3 DEF ServeSave
    <3>2. s.record \in 1 .. Len(records)
      BY <1>1, <1>3, <2>3 DEF IsSave
    <3>3. records' \in Seq(T) /\ Len(records') = Len(records) /\ records'[got] = x
      BY <2>1, <3>1, <3>2, ExceptSeq
    <3> QED
      BY <1>3, <2>3, <3>1, <3>2, <3>3 DEF IsSequence
  <2> QED
    BY <2>2, <2>3
<1>7. \A n : n \in 0 .. Len(records) => n \in 0 .. Len(records')
  BY <1>3, <1>6
<1>8. SavesOK'
  <2>1. \A u \in saves : IsSave(u)'
    BY <1>1, <1>7 DEF SavesOK, IsSave
  <2>2. IsSave(t)'
    BY <1>1, <1>5, <1>6, <1>7 DEF IsSave
  <2>3. IsFiniteSet(saves')
    BY <1>1, <1>4, FS_RemoveElement, FS_AddElement DEF SavesOK
  <2>4. local.record \in 0 .. Len(records')
    BY <1>1, <1>7 DEF SavesOK
  <2> QED
    BY <1>1, <1>2, <1>4, <1>6, <2>1, <2>2, <2>3, <2>4 DEF SavesOK, IsSequence
<1>9. WizardOK'
  BY <1>1, <1>2, <1>4, <1>5 DEF WizardOK
<1>10. ViewerOK'
  <2>1. viewer.open => viewer.record \in 0 .. Len(records')
    BY <1>1, <1>7 DEF ViewerOK
  <2> QED
    BY <1>1, <1>2, <2>1 DEF ViewerOK, IsViewer
<1>11. Counted'
  <2>1. t \notin saves \/ s.record # 0
    <3>1. SUFFICES ASSUME t \in saves, s.record = 0 PROVE FALSE
      OBVIOUS
    <3>2. t.got \in 0 .. Len(records)
      BY <1>1, <3>1 DEF SavesOK, IsSave
    <3> QED
      BY <1>3, <1>5, <3>1, <3>2
  <2>2. /\ Len(records') + Cardinality(Posts') = Len(records) + Cardinality(Posts)
        /\ Cardinality(Outstanding') = Cardinality(Outstanding)
    <3>1. CASE s.record = 0
      <4>1. Posts' = Posts \ {s} /\ s \in Posts
        BY <1>1, <1>4, <1>5, <3>1 DEF Posts, Outstanding
      <4>2. Outstanding' = (Outstanding \ {s}) \cup {t} /\ s \in Outstanding
            /\ t \notin Outstanding \ {s}
        BY <1>1, <1>4, <1>5, <2>1, <3>1 DEF Outstanding
      <4>3. Cardinality(Posts') = Cardinality(Posts) - 1
        BY <1>3, <4>1, FS_RemoveElement
      <4>4. /\ IsFiniteSet(Outstanding \ {s})
            /\ Cardinality(Outstanding \ {s}) = Cardinality(Outstanding) - 1
        BY <1>3, <4>2, FS_RemoveElement
      <4>5. Cardinality(Outstanding') = Cardinality(Outstanding \ {s}) + 1
        BY <4>2, <4>4, FS_AddElement
      <4> QED
        BY <1>3, <1>6, <3>1, <4>3, <4>4, <4>5
    <3>2. CASE s.record # 0
      <4>1. Posts' = Posts /\ Outstanding' = Outstanding
        BY <1>1, <1>4, <1>5, <3>2 DEF Posts, Outstanding
      <4> QED
        BY <1>6, <3>2, <4>1
    <3> QED
      BY <3>1, <3>2
  <2>3. Elsewhere => Elsewhere'
    BY <1>2 DEF Elsewhere
  <2> QED
    BY <1>1, <1>2, <2>2, <2>3 DEF Counted
<1>12. Edits'
  BY <1>1, <1>2, <1>4, <1>5 DEF Edits
<1>13. Agree'
  <2>1. ~crossed => saves' = {t}
    BY <1>1, <1>4 DEF Agree
  <2>2. records'[t.got] = t.text /\ crossed' = crossed
    BY <1>2, <1>5, <1>6
  <2>3. saves' = {t} => /\ \A u, w \in saves' : u = w
                        /\ \A u \in saves' : u.phase = "served" => records'[u.got] = u.text
                        /\ saves' # {}
    BY <2>2
  <2> QED
    BY <2>1, <2>2, <2>3 DEF Agree
<1> QED
  BY <1>8, <1>9, <1>10, <1>11, <1>12, <1>13, Zenon DEF DInv

LEMMA SaveAnsweredKeeps ==
  ASSUME DInv, NEW s, SaveAnswered(s)
  PROVE  DInv'
<1>1. /\ SavesOK /\ WizardOK /\ ViewerOK /\ Edits /\ Counted /\ Agree
      /\ s \in saves /\ IsSave(s) /\ s.phase = "served" /\ s.got # 0
  BY DEF DInv, SavesOK, SaveAnswered, IsSave
<1>2. saves' = saves \ {s} /\ UNCHANGED <<records, backend, latest, excuse, extra, crossed>>
      /\ WizardSaved(s, s.got)
  BY DEF SaveAnswered
<1> PICK copy : copy = [text |-> s.text, record |-> s.got]
  OBVIOUS
<1>3. /\ copy = [text |-> copy.text, record |-> copy.record]
      /\ copy.text = s.text /\ copy.record = s.got /\ s.got \in 0 .. Len(records)
  BY <1>1 DEF IsSave
<1>4. IF s.by = "viewer" /\ s.record = 0
      THEN local' = copy /\ viewer' = Mounted(copy)
      ELSE KeepLocally(Released(s), copy)
  BY DEF SaveAnswered
<1>5. /\ local' = copy
      /\ \/ /\ IsViewer(viewer') /\ viewer'.open /\ viewer'.text = copy.text
            /\ viewer'.record = copy.record
            /\ s.by = "viewer" \/ viewer.open
         \/ viewer' = viewer /\ ~viewer.open
  <2>1. CASE s.by = "viewer" /\ s.record = 0
    <3>1. local' = copy /\ viewer' = Mounted(copy)
      BY <1>4, <2>1
    <3> QED
      BY <2>1, <3>1, MountedSees DEF Sees
  <2>2. CASE ~(s.by = "viewer" /\ s.record = 0)
    <3> PICK v : v = Released(s)
      OBVIOUS
    <3>1. IsViewer(v) /\ v.open = viewer.open /\ (~viewer.open => v = viewer)
      BY <1>1, ReleasedSees DEF Same
    <3>2. local' = copy /\ viewer' = IF v.open THEN Reset(v, copy) ELSE v
      BY <1>4, <2>2 DEF KeepLocally
    <3>3. CASE v.open
      <4>1. Sees(viewer', v.open, copy.text, copy.record, FALSE)
        BY <3>1, <3>2, <3>3, ResetSees
      <4> QED
        BY <3>1, <3>2, <3>3, <4>1 DEF Sees
    <3> QED
      BY <3>1, <3>2, <3>3
  <2> QED
    BY <2>1, <2>2
<1>6. SavesOK'
  <2>1. IsFiniteSet(saves')
    BY <1>1, <1>2, FS_RemoveElement DEF SavesOK
  <2> QED
    BY <1>1, <1>2, <1>3, <1>5, <2>1 DEF SavesOK, IsSave, IsSequence
<1>7. WizardOK'
  <2>1. /\ wizard' = [step |-> wizard'.step, text |-> wizard'.text, record |-> wizard'.record]
        /\ wizard'.step # "closed" <=> wizard.step # "closed"
        /\ wizard'.step \notin {"draft", "preview", "generating"}
    BY <1>1, <1>2, WizardHears
  <2>2. wizard.step # "closed" => ~viewer'.open
    BY <1>1, <1>5 DEF WizardOK
  <2> QED
    BY <1>1, <1>2, <2>1, <2>2 DEF WizardOK
<1>8. ViewerOK'
  BY <1>1, <1>2, <1>3, <1>5 DEF ViewerOK, IsViewer
<1>9. Counted'
  <2>1. Posts' = Posts
    BY <1>1, <1>2 DEF Posts, Outstanding
  <2> QED
    BY <1>1, <1>2, <1>3, <1>5, <2>1 DEF Counted
<1>10. Edits'
  BY <1>1, <1>2, <1>3, <1>5 DEF Edits
<1>11. Agree'
  <2>1. ~crossed => saves' = {} /\ records[s.got] = s.text
    BY <1>1, <1>2 DEF Agree
  <2> QED
    BY <1>2, <1>3, <1>5, <2>1 DEF Agree
<1> QED
  BY <1>6, <1>7, <1>8, <1>9, <1>10, <1>11, Zenon DEF DInv

LEMMA SaveFailedKeeps ==
  ASSUME DInv, NEW s, SaveFailed(s)
  PROVE  DInv'
<1>1. /\ SavesOK /\ WizardOK /\ ViewerOK /\ Edits /\ Counted /\ Agree
      /\ s \in saves /\ IsSave(s)
  BY DEF DInv, SavesOK, SaveFailed
<1>2. /\ saves' = saves \ {s}
      /\ UNCHANGED <<local, records, backend, latest, excuse, crossed>>
      /\ WizardSaved(s, 0) /\ viewer' = Released(s) /\ failed' = TRUE
      /\ extra' = IF s.phase = "served" /\ s.record = 0 THEN extra + 1 ELSE extra
  BY DEF SaveFailed
<1>3. /\ IsViewer(viewer') /\ viewer'.open = viewer.open /\ viewer'.text = viewer.text
      /\ viewer'.record = viewer.record /\ viewer'.dirty = viewer.dirty
      /\ ~viewer.open => viewer' = viewer
  BY <1>1, <1>2, ReleasedSees DEF Same
<1>4. /\ wizard' = [step |-> wizard'.step, text |-> wizard'.text, record |-> wizard'.record]
      /\ wizard'.step # "closed" <=> wizard.step # "closed"
      /\ wizard'.step \notin {"draft", "preview", "generating"}
  BY <1>1, <1>2, WizardHears
<1>5. SavesOK'
  <2>1. IsFiniteSet(saves')
    BY <1>1, <1>2, FS_RemoveElement DEF SavesOK
  <2>2. extra' \in Nat
    BY <1>1, <1>2 DEF SavesOK
  <2> QED
    BY <1>1, <1>2, <2>1, <2>2 DEF SavesOK, IsSave, IsSequence
<1>6. WizardOK'
  BY <1>1, <1>2, <1>3, <1>4 DEF WizardOK
<1>7. ViewerOK'
  BY <1>1, <1>2, <1>3 DEF ViewerOK, IsViewer
<1>8. Counted'
  <2>1. /\ IsFiniteSet(Outstanding) /\ Cardinality(Outstanding) \in Nat
        /\ IsFiniteSet(Posts) /\ Cardinality(Posts) \in Nat /\ Len(records) \in Nat
        /\ extra \in Nat
    BY <1>1, FewPosts DEF SavesOK
  <2>2. Elsewhere => Elsewhere'
    BY <1>2, <1>3, <1>4 DEF Elsewhere
  <2> PICK x, p, o, n, p1, o1 :
        /\ x = Len(records) /\ p = Cardinality(Posts) /\ o = Cardinality(Outstanding)
        /\ n = extra /\ p1 = Cardinality(Posts') /\ o1 = Cardinality(Outstanding')
    OBVIOUS
  <2>3. \/ p1 = p /\ o1 = o /\ extra' = n
        \/ p1 = p - 1 /\ o1 = o - 1 /\ extra' = n
        \/ p1 = p /\ o1 = o - 1 /\ extra' = n + 1
    <3>1. CASE s.record # 0
      <4>1. Posts' = Posts /\ Outstanding' = Outstanding
        BY <1>2, <3>1 DEF Posts, Outstanding
      <4> QED
        BY <1>2, <3>1, <4>1
    <3>2. CASE s.record = 0 /\ s.phase = "sent"
      <4>1. Posts' = Posts \ {s} /\ Outstanding' = Outstanding \ {s}
            /\ s \in Posts /\ s \in Outstanding
        BY <1>1, <1>2, <3>2 DEF Posts, Outstanding
      <4>2. p1 = p - 1 /\ o1 = o - 1
        BY <2>1, <4>1, FS_RemoveElement
      <4> QED
        BY <1>2, <3>2, <4>2
    <3>3. CASE s.record = 0 /\ s.phase = "served"
      <4>1. Posts' = Posts /\ Outstanding' = Outstanding \ {s} /\ s \in Outstanding
        BY <1>1, <1>2, <3>3 DEF Posts, Outstanding
      <4>2. p1 = p /\ o1 = o - 1
        BY <2>1, <4>1, FS_RemoveElement
      <4> QED
        BY <1>2, <3>3, <4>2
    <3> QED
      BY <1>1, <3>1, <3>2, <3>3 DEF IsSave
  <2>4. /\ x \in Nat /\ p \in Nat /\ o \in Nat /\ n \in Nat
        /\ x + p <= 1 + n
        /\ local.record = 0 => x + p <= n + o \/ Elsewhere
    BY <1>1, <2>1 DEF Counted
  <2>5. /\ x + p1 <= 1 + extra'
        /\ local.record = 0 => x + p1 <= extra' + o1 \/ Elsewhere
    BY <2>3, <2>4, SMTT(40)
  <2> QED
    BY <1>2, <2>2, <2>5 DEF Counted
<1>9. Edits'
  BY <1>1, <1>2, <1>3 DEF Edits
<1>10. Agree'
  BY <1>1, <1>2 DEF Agree
<1> QED
  BY <1>5, <1>6, <1>7, <1>8, <1>9, <1>10, Zenon DEF DInv

LEMMA EditorStays == ASSUME DInv, UNCHANGED editorVars PROVE DInv'
<1>1. UNCHANGED <<local, records, wizard, viewer, saves, backend, latest, excuse, extra,
                  failed, crossed>>
  BY DEF editorVars, docVars, ghostVars
<1>2. WizardOK' /\ ViewerOK' /\ Edits' /\ (Elsewhere => Elsewhere')
  BY <1>1 DEF DInv, WizardOK, ViewerOK, IsViewer, Edits, Elsewhere
<1> QED
  BY <1>1, <1>2, NothingSaved

LEMMA EditorInvHolds == EditorSpec => []DInv
<1>1. DInv /\ [EditorNext]_editorVars => DInv'
  <2> SUFFICES ASSUME DInv, [EditorNext]_editorVars PROVE DInv'
    OBVIOUS
  <2>1. CASE SaveNext
    BY <2>1, ServeSaveKeeps, SaveAnsweredKeeps, SaveFailedKeeps DEF SaveNext
  <2>2. CASE UNCHANGED editorVars
    BY <2>2, EditorStays
  <2> QED
    BY <2>1, <2>2, WizardSteps, ViewerSteps DEF EditorNext
<1> QED
  BY <1>1, EditorBegins, PTL DEF EditorSpec

(* What the user put into a deliverable's editor last is kept, on the      *)
(* screen or here, and a deliverable has one record but for the posts that *)
(* were lost or that crossed, however many saves of however many editors   *)
(* are under way (DocumentViewer.tsx, saveStoredDeliverable).              *)
THEOREM EditsAlwaysSafe == EditorSpec => []EditsSafe
<1>1. DInv => EditsSafe
  BY EditorInvEnough
<1> QED
  BY <1>1, EditorInvHolds, PTL

(* Once every save is answered, the last one well, the record holds what   *)
(* the local copy does, unless two saves crossed.                          *)
THEOREM CopiesAlwaysAgree == EditorSpec => []CopiesAgree
<1>1. DInv => CopiesAgree
  BY EditorInvEnough
<1> QED
  BY <1>1, EditorInvHolds, PTL
-----------------------------------------------------------------------------
(* CrmWrites.  Of a form: the requests that may yet write, those that will *)
(* for certain, and those heard by the page that no longer concern it.     *)
Pending(k) == {q \in requests : q.key = k /\ q.phase \in {"sent", "checked"}}
Certain(k) == {q \in requests : q.key = k /\ q.phase = "checked"}
Past(k) ==
  {q \in requests : q.key \in Keys /\ q.heard
     /\ (q.key # k \/ q.phase = "done" \/ (q.phase = "wrote" /\ ~q.ok))}

IsWrite(q) ==
  /\ q = [n |-> q.n, key |-> q.key, rows |-> q.rows, phase |-> q.phase,
          heard |-> q.heard, ok |-> q.ok, told |-> q.told]
  /\ q.key \in Keys \cup {"none"}
  /\ q.phase \in {"sent", "checked", "wrote", "done"}
  /\ q.ok \in BOOLEAN /\ q.heard \in BOOLEAN
  /\ q.key \in Keys => q.rows = {}

IsPanel(p) ==
  /\ p = [mode |-> p.mode, busy |-> p.busy, result |-> p.result, writable |-> p.writable]
  /\ p.busy \in BOOLEAN

IsModal(l) ==
  /\ l = [step |-> l.step, class |-> l.class, excluded |-> l.excluded,
          pushing |-> l.pushing, answer |-> l.answer]
  /\ l.class \in [ListRows -> Classes]

CrmTyped ==
  /\ IsFiniteSet(requests) /\ \A q \in requests : IsWrite(q)
  /\ IsPanel(panel) /\ IsModal(list)
  /\ created \in [Keys -> Nat] /\ explained \in [Keys -> Nat]
  /\ cache \in [Keys -> {"none", "ok", "failed"}]

(* While the backend has no answer for a form's key, the records there are *)
(* and may yet be are explained, one beside them when the panel is locked; *)
(* each heard request that is past is one that a reset has explained, and  *)
(* whose answer will open the lock.                                        *)
FormsOK ==
  /\ panel.busy => \E q \in requests : q.key \in Keys /\ q.heard
  /\ \A k \in Keys :
       IF cache[k] = "none"
       THEN created[k] + Cardinality(Pending(k)) + Cardinality(Past(k))
              <= explained[k] + IF panel.busy THEN 1 ELSE 0
       ELSE created[k] + Cardinality(Certain(k)) <= 1 + explained[k]

PushOK(q) ==
  /\ list.pushing /\ list.step # "results"
  /\ \A p \in requests : p.key = "none" => p = q
  /\ ~edited => \A r \in q.rows :
       r \notin list.excluded /\ list.class[r] # "missing"
       /\ (list.class[r] = "duplicate" => r \in ticked)
  /\ q.rows \subseteq ListRows /\ q.told \subseteq q.rows
  /\ q.phase \in {"wrote", "done"} => q.told = imported \ untold

ImportOK ==
  /\ \A q \in requests : q.key = "none" => PushOK(q)
  /\ list.step \in {"dedupe", "confirm"} =>
       \A r \in ListRows : r \notin list.excluded /\ list.class[r] = "duplicate" => r \in ticked
  /\ list.step = "results" /\ ~edited =>
       \A r \in ListRows : r \in imported \ untold <=> Label(r) = "succeeded"

CrmInv == CrmTyped /\ FormsOK /\ ImportOK

LEMMA FewWrites ==
  ASSUME CrmTyped, NEW k \in Keys
  PROVE  /\ IsFiniteSet(Pending(k)) /\ Cardinality(Pending(k)) \in Nat
         /\ IsFiniteSet(Certain(k)) /\ Cardinality(Certain(k)) \in Nat
         /\ IsFiniteSet(Past(k)) /\ Cardinality(Past(k)) \in Nat
<1>1. /\ Pending(k) \subseteq requests /\ Certain(k) \subseteq requests
      /\ Past(k) \subseteq requests /\ IsFiniteSet(requests)
  BY DEF Pending, Certain, Past, CrmTyped
<1>2. IsFiniteSet(Pending(k)) /\ IsFiniteSet(Certain(k)) /\ IsFiniteSet(Past(k))
  BY <1>1, FS_Subset
<1> QED
  BY <1>2, FS_CardinalityType

LEMMA CrmInvEnough == CrmInv => WritesAsReviewed
<1> SUFFICES ASSUME CrmInv PROVE WritesAsReviewed
  OBVIOUS
<1>1. CrmTyped /\ FormsOK /\ ImportOK
  BY DEF CrmInv
<1>2. WrittenOnce
  <2>1. SUFFICES ASSUME NEW k \in Keys PROVE created[k] <= 1 + explained[k]
    BY DEF WrittenOnce
  <2>2. created[k] \in Nat /\ explained[k] \in Nat
    BY <1>1 DEF CrmTyped
  <2>3. CASE cache[k] = "none"
    BY <1>1, <2>2, <2>3, FewWrites DEF FormsOK
  <2>4. CASE cache[k] # "none"
    BY <1>1, <2>2, <2>4, FewWrites DEF FormsOK
  <2> QED
    BY <2>3, <2>4
<1>3. ImportAsReviewed
  BY <1>1 DEF ImportOK, PushOK, CrmTyped, IsWrite, ImportAsReviewed
<1> QED
  BY <1>2, <1>3 DEF WritesAsReviewed

LEMMA CrmBegins == CrmInit => CrmInv
<1> SUFFICES ASSUME CrmInit PROVE CrmInv
  OBVIOUS
<1>1. /\ requests = {} /\ list = NoList /\ created = [k \in Keys |-> 0]
      /\ cache = [k \in Keys |-> "none"] /\ explained = [k \in Keys |-> 0]
      /\ panel \in [mode : {"closed"}, busy : {FALSE}, result : {"none"}, writable : BOOLEAN]
  BY DEF CrmInit
<1>2. IsPanel(panel) /\ ~panel.busy
  BY <1>1 DEF IsPanel
<1>3. IsModal(list) /\ list.step = "upload"
  <2>1. PICK class, answer, none : /\ class = [r \in ListRows |-> "new"]
                                   /\ answer = [r \in ListRows |-> "failed"] /\ none = {}
    OBVIOUS
  <2>2. list = [step |-> "upload", class |-> class, excluded |-> none,
                pushing |-> FALSE, answer |-> answer]
    BY <1>1, <2>1 DEF NoList
  <2> QED
    BY <2>1, <2>2 DEF IsModal, Classes
<1>4. CrmTyped
  BY <1>1, <1>2, <1>3, FS_EmptySet DEF CrmTyped
<1>5. FormsOK
  <2>1. \A k \in Keys : Pending(k) = {} /\ Past(k) = {}
    BY <1>1 DEF Pending, Past
  <2>2. \A k \in Keys : Cardinality(Pending(k)) = 0 /\ Cardinality(Past(k)) = 0
    BY <2>1, FS_EmptySet
  <2> QED
    BY <1>1, <1>2, <2>2 DEF FormsOK
<1> QED
  BY <1>1, <1>3, <1>4, <1>5 DEF CrmInv, ImportOK

LEMMA CountBound ==
  ASSUME NEW S, IsFiniteSet(S), NEW T, NEW q, NEW w
  PROVE  /\ T \subseteq S => IsFiniteSet(T) /\ Cardinality(T) <= Cardinality(S)
         /\ q \in S /\ T \subseteq (S \ {q}) \cup {w} =>
              IsFiniteSet(T) /\ Cardinality(T) <= Cardinality(S)
         /\ q \in S /\ T \subseteq S \ {q} =>
              IsFiniteSet(T) /\ Cardinality(T) <= Cardinality(S) - 1
         /\ T \subseteq S \cup {w} => IsFiniteSet(T) /\ Cardinality(T) <= Cardinality(S) + 1
<1>1. Cardinality(S) \in Nat
  BY FS_CardinalityType
<1>2. ASSUME T \subseteq S PROVE IsFiniteSet(T) /\ Cardinality(T) <= Cardinality(S)
  BY <1>2, FS_Subset
<1>3. ASSUME q \in S
      PROVE  IsFiniteSet(S \ {q}) /\ Cardinality(S \ {q}) = Cardinality(S) - 1
  BY <1>3, FS_RemoveElement
<1>4. ASSUME q \in S, T \subseteq S \ {q}
      PROVE  IsFiniteSet(T) /\ Cardinality(T) <= Cardinality(S) - 1
  <2>1. IsFiniteSet(T) /\ Cardinality(T) <= Cardinality(S \ {q})
    BY <1>3, <1>4, FS_Subset
  <2> QED
    BY <1>3, <1>4, <2>1
<1>5. ASSUME q \in S, T \subseteq (S \ {q}) \cup {w}
      PROVE  IsFiniteSet(T) /\ Cardinality(T) <= Cardinality(S)
  <2>1. /\ IsFiniteSet((S \ {q}) \cup {w})
        /\ Cardinality((S \ {q}) \cup {w}) <= Cardinality(S)
    <3> PICK R : R = S \ {q}
      OBVIOUS
    <3>1. IsFiniteSet(R) /\ Cardinality(R) = Cardinality(S) - 1
      BY <1>3, <1>5
    <3>2. IsFiniteSet(R \cup {w}) /\ (Cardinality(R \cup {w}) = Cardinality(R)
                                      \/ Cardinality(R \cup {w}) = Cardinality(R) + 1)
      BY <3>1, FS_AddElement
    <3> QED
      BY <1>1, <3>1, <3>2
  <2>2. IsFiniteSet(T) /\ Cardinality(T) <= Cardinality((S \ {q}) \cup {w})
    BY <1>5, <2>1, FS_Subset
  <2>3. Cardinality(T) \in Nat /\ Cardinality((S \ {q}) \cup {w}) \in Nat
    BY <2>1, <2>2, FS_CardinalityType
  <2> QED
    BY <1>1, <2>1, <2>2, <2>3
<1>6. ASSUME T \subseteq S \cup {w}
      PROVE  IsFiniteSet(T) /\ Cardinality(T) <= Cardinality(S) + 1
  <2>1. IsFiniteSet(S \cup {w}) /\ Cardinality(S \cup {w}) <= Cardinality(S) + 1
    BY <1>1, FS_AddElement
  <2>2. IsFiniteSet(T) /\ Cardinality(T) <= Cardinality(S \cup {w})
    BY <1>6, <2>1, FS_Subset
  <2>3. Cardinality(T) \in Nat /\ Cardinality(S \cup {w}) \in Nat
    BY <2>1, <2>2, FS_CardinalityType
  <2> QED
    BY <1>1, <2>1, <2>2, <2>3
<1> QED
  BY <1>2, <1>4, <1>5, <1>6, Zenon

PanelIs(w, b) == IsPanel(w) /\ w.busy = b

LEMMA PanelSays ==
  ASSUME NEW p, IsPanel(p), NEW b \in BOOLEAN, NEW m, NEW r, NEW x, NEW w,
         \/ w = [p EXCEPT !.busy = b, !.result = r]
         \/ w = [p EXCEPT !.mode = m, !.busy = b, !.result = r]
         \/ w = [p EXCEPT !.mode = m, !.busy = b, !.result = r, !.writable = x]
         \/ w = [p EXCEPT !.busy = b, !.mode = m, !.result = r]
  PROVE  PanelIs(w, b)
<1> PICK mode, busy1, result, writable :
      p = [mode |-> mode, busy |-> busy1, result |-> result, writable |-> writable]
  BY DEF IsPanel
<1>1. PICK m1, x1 : w = [mode |-> m1, busy |-> b, result |-> r, writable |-> x1]
  <2>1. CASE w = [p EXCEPT !.busy = b, !.result = r]
    BY <2>1
  <2>2. CASE w = [p EXCEPT !.mode = m, !.busy = b, !.result = r]
    BY <2>2
  <2>3. CASE w = [p EXCEPT !.mode = m, !.busy = b, !.result = r, !.writable = x]
    BY <2>3
  <2>4. CASE w = [p EXCEPT !.busy = b, !.mode = m, !.result = r]
    BY <2>4
  <2> QED
    BY <2>1, <2>2, <2>3, <2>4
<1> QED
  BY <1>1 DEF IsPanel, PanelIs

LEMMA PanelTurns ==
  ASSUME NEW p, IsPanel(p), NEW m, NEW w, w = [p EXCEPT !.mode = m]
  PROVE  PanelIs(w, p.busy)
<1> PICK mode, busy1, result, writable :
      p = [mode |-> mode, busy |-> busy1, result |-> result, writable |-> writable]
  BY DEF IsPanel
<1>1. w = [mode |-> m, busy |-> busy1, result |-> result, writable |-> writable] /\ p.busy \in BOOLEAN
  BY DEF IsPanel
<1> QED
  BY <1>1 DEF IsPanel, PanelIs

LEMMA FormsStay ==
  ASSUME FormsOK, UNCHANGED <<requests, cache, created, explained>>, panel'.busy = panel.busy
  PROVE  FormsOK'
BY DEF FormsOK, Pending, Past, Certain

LEMMA ImportStays ==
  ASSUME CrmInv, UNCHANGED <<list, imported, untold, edited, ticked>>,
         \A q \in requests' : q.key = "none" => q \in requests
  PROVE  ImportOK'
<1>1. ImportOK
  BY DEF CrmInv
<1>2. \A q \in requests' : q.key = "none" => PushOK(q)'
  BY <1>1 DEF ImportOK, PushOK
<1> QED
  BY <1>1, <1>2 DEF ImportOK, Label

(* A request that is confirmed; it may be any number's.                    *)
LEMMA RequestSent ==
  ASSUME NEW key, NEW rows, NewRequest(key, rows), key \in Keys \cup {"none"},
         key \in Keys => rows = {}
  PROVE  \E new : /\ requests' = requests \cup {new}
                  /\ IsWrite(new) /\ new.key = key /\ new.rows = rows
                  /\ new.phase = "sent" /\ new.heard /\ new.told = {}
<1> PICK number : number = CHOOSE n \in 1 .. MaxRequests : \A q \in requests : q.n # n
  OBVIOUS
<1> PICK none : none = {}
  OBVIOUS
<1> PICK new : new = [n |-> number, key |-> key, rows |-> rows, phase |-> "sent",
                      heard |-> TRUE, ok |-> FALSE, told |-> none]
  OBVIOUS
<1>1. requests' = requests \cup {new}
  BY DEF NewRequest
<1>2. /\ IsWrite(new) /\ new.key = key /\ new.rows = rows
      /\ new.phase = "sent" /\ new.heard /\ new.told = {}
  BY DEF IsWrite
<1> QED
  BY <1>1, <1>2

LEMMA ConfirmKeeps ==
  ASSUME CrmInv, NEW key \in Keys, Confirm(key)
  PROVE  CrmInv'
<1>1. CrmTyped /\ FormsOK /\ ImportOK
  BY DEF CrmInv
<1>2. /\ ~panel.busy /\ NewRequest(key, {})
      /\ panel' = [panel EXCEPT !.busy = TRUE, !.result = "none"]
      /\ UNCHANGED <<list, cache, created, imported, explained, untold, edited, ticked>>
  BY DEF Confirm, backendVars, historyVars
<1>3. PICK new : /\ requests' = requests \cup {new}
                 /\ IsWrite(new) /\ new.key = key
                 /\ new.phase = "sent" /\ new.heard
  <2>1. key \in Keys \cup {"none"}
    OBVIOUS
  <2> QED
    BY <1>2, <2>1, RequestSent
<1>4. IsPanel(panel') /\ panel'.busy
  <2> PICK b : b = TRUE
    OBVIOUS
  <2>1. PanelIs(panel', b)
    BY <1>1, <1>2, PanelSays DEF CrmTyped
  <2> QED
    BY <2>1 DEF PanelIs
<1>5. CrmTyped'
  <2>1. IsFiniteSet(requests')
    BY <1>1, <1>3, FS_AddElement DEF CrmTyped
  <2> QED
    BY <1>1, <1>2, <1>3, <1>4, <2>1 DEF CrmTyped
<1>6. FormsOK'
  <2>1. SUFFICES ASSUME NEW k \in Keys
        PROVE  IF cache[k] = "none"
               THEN created[k] + Cardinality(Pending(k)') + Cardinality(Past(k)')
                      <= explained[k] + 1
               ELSE created[k] + Cardinality(Certain(k)') <= 1 + explained[k]
    BY <1>2, <1>3, <1>4 DEF FormsOK
  <2>2. /\ IsFiniteSet(Pending(k)) /\ Cardinality(Pending(k)) \in Nat
        /\ IsFiniteSet(Past(k)) /\ Cardinality(Past(k)) \in Nat
        /\ created[k] \in Nat /\ explained[k] \in Nat
    BY <1>1, FewWrites DEF CrmTyped
  <2>3. CASE cache[k] # "none"
    <3>1. Certain(k)' = Certain(k)
      BY <1>3 DEF Certain
    <3> QED
      BY <1>1, <2>3, <3>1 DEF FormsOK
  <2>4. CASE cache[k] = "none"
    <3>1. created[k] + Cardinality(Pending(k)) + Cardinality(Past(k)) <= explained[k]
      BY <1>1, <1>2, <2>2, <2>4 DEF FormsOK
    <3>2. CASE k = key
      <4>1. Pending(k)' \subseteq Pending(k) \cup {new} /\ Past(k)' = Past(k)
        BY <1>3, <3>2 DEF Pending, Past
      <4>2. /\ Cardinality(Pending(k)') <= Cardinality(Pending(k)) + 1
            /\ IsFiniteSet(Pending(k)')
        BY <2>2, <4>1, CountBound, ZenonT(60)
      <4>3. Cardinality(Pending(k)') \in Nat
        BY <4>2, FS_CardinalityType
      <4> QED
        BY <2>2, <2>4, <3>1, <4>1, <4>2, <4>3
    <3>3. CASE k # key
      <4>1. Past(k)' \subseteq Past(k) \cup {new} /\ Pending(k)' = Pending(k)
        BY <1>3, <3>3 DEF Pending, Past
      <4>2. /\ Cardinality(Past(k)') <= Cardinality(Past(k)) + 1
            /\ IsFiniteSet(Past(k)')
        BY <2>2, <4>1, CountBound, ZenonT(60)
      <4>3. Cardinality(Past(k)') \in Nat
        BY <4>2, FS_CardinalityType
      <4> QED
        BY <2>2, <2>4, <3>1, <4>1, <4>2, <4>3
    <3> QED
      BY <3>2, <3>3
  <2> QED
    BY <2>3, <2>4
<1>7. ImportOK'
  <2>1. \A q \in requests' : q.key = "none" => q \in requests
    BY <1>3 DEF Keys
  <2> QED
    BY <1>2, <2>1, ImportStays
<1> QED
  BY <1>5, <1>6, <1>7, Zenon DEF CrmInv

(* The panel starts over: a request under way is explained.                *)
LEMMA ResetForms ==
  ASSUME CrmInv, ~panel'.busy, explained' = Excused, UNCHANGED <<cache, created>>,
         \A k \in Keys : /\ Cardinality(Pending(k)') <= Cardinality(Pending(k))
                         /\ Cardinality(Certain(k)') <= Cardinality(Certain(k))
                         /\ Past(k)' \in {Past(k), {}}
                         /\ Cardinality(Pending(k)') \in Nat /\ Cardinality(Certain(k)') \in Nat
  PROVE  FormsOK' /\ explained' \in [Keys -> Nat]
<1>1. CrmTyped /\ FormsOK
  BY DEF CrmInv
<1>2. \A k \in Keys : explained[k] \in Nat /\ created[k] \in Nat
  BY <1>1 DEF CrmTyped
<1>3. \A k \in Keys : explained'[k] = IF \E q \in requests : q.key \in Keys
                                      THEN explained[k] + 1 ELSE explained[k]
  BY DEF Excused
<1>4. explained' \in [Keys -> Nat]
  BY <1>2 DEF Excused
<1>5. SUFFICES ASSUME NEW k \in Keys
      PROVE  IF cache[k] = "none"
             THEN created[k] + Cardinality(Pending(k)') + Cardinality(Past(k)')
                    <= explained'[k]
             ELSE created[k] + Cardinality(Certain(k)') <= 1 + explained'[k]
  <2>1. ASSUME \A k \in Keys : IF cache[k] = "none"
             THEN created[k] + Cardinality(Pending(k)') + Cardinality(Past(k)')
                    <= explained'[k]
             ELSE created[k] + Cardinality(Certain(k)') <= 1 + explained'[k]
        PROVE  FormsOK'
    <3>1. \A k \in Keys : explained'[k] + 0 = explained'[k]
      BY <1>4
    <3> QED
      BY <2>1, <3>1 DEF FormsOK
  <2> QED
    BY <1>4, <2>1
<1> PICK a, c, s, a1, c1, s1 :
      /\ a = Cardinality(Pending(k)) /\ c = Cardinality(Certain(k)) /\ s = Cardinality(Past(k))
      /\ a1 = Cardinality(Pending(k)') /\ c1 = Cardinality(Certain(k)')
      /\ s1 = Cardinality(Past(k)')
  OBVIOUS
<1>6. /\ a \in Nat /\ c \in Nat /\ s \in Nat /\ a1 \in Nat /\ c1 \in Nat
      /\ a1 <= a /\ c1 <= c /\ (s1 = s \/ s1 = 0)
  BY <1>1, FewWrites, FS_EmptySet
<1>7. (~\E q \in requests : q.key \in Keys) => ~panel.busy
  BY <1>1 DEF FormsOK
<1>8. IF cache[k] = "none"
      THEN created[k] + a + s <= explained[k] + IF panel.busy THEN 1 ELSE 0
      ELSE created[k] + c <= 1 + explained[k]
  BY <1>1 DEF FormsOK
<1> QED
  BY <1>2, <1>3, <1>6, <1>7, <1>8

LEMMA RefreshPanelKeeps ==
  ASSUME CrmInv, RefreshPanel
  PROVE  CrmInv'
<1>1. CrmTyped /\ FormsOK /\ ImportOK
  BY DEF CrmInv
<1>2. /\ explained' = Excused
      /\ UNCHANGED <<list, requests, cache, created, imported, untold, edited, ticked>>
  BY DEF RefreshPanel, backendVars
<1>3. IsPanel(panel') /\ ~panel'.busy
  <2>1. PICK m, r, x : panel' = [panel EXCEPT !.mode = m, !.busy = FALSE,
                                              !.result = r, !.writable = x]
    BY DEF RefreshPanel
  <2> PICK b \in BOOLEAN : b = FALSE
    OBVIOUS
  <2>2. PanelIs(panel', b)
    BY <1>1, <2>1, PanelSays DEF CrmTyped
  <2> QED
    BY <2>2 DEF PanelIs
<1>4. \A k \in Keys : /\ Pending(k)' = Pending(k) /\ Certain(k)' = Certain(k)
                      /\ Past(k)' = Past(k)
  BY <1>2 DEF Pending, Certain, Past
<1>5. \A k \in Keys : /\ Cardinality(Pending(k)') <= Cardinality(Pending(k))
                      /\ Cardinality(Certain(k)') <= Cardinality(Certain(k))
                      /\ Past(k)' \in {Past(k), {}}
                      /\ Cardinality(Pending(k)') \in Nat /\ Cardinality(Certain(k)') \in Nat
  BY <1>1, <1>4, FewWrites
<1>6. FormsOK' /\ explained' \in [Keys -> Nat]
  BY <1>2, <1>3, <1>5, ResetForms
<1>7. CrmTyped'
  BY <1>1, <1>2, <1>3, <1>6 DEF CrmTyped
<1>8. ImportOK'
  BY <1>2, ImportStays
<1> QED
  BY <1>6, <1>7, <1>8, Zenon DEF CrmInv

(* Nobody hears a request any more: it is what it was otherwise.           *)
Unheard1(w, q) ==
  IsWrite(w) /\ w.key = q.key /\ w.phase = q.phase /\ ~w.heard

LEMMA Unhearing ==
  ASSUME NEW q, IsWrite(q), NEW w, w = [q EXCEPT !.heard = FALSE]
  PROVE  Unheard1(w, q) /\ (q.key = "none" => w.rows = q.rows /\ w.told = q.told)
<1> PICK number, key, rows, phase, heard, ok, told :
      q = [n |-> number, key |-> key, rows |-> rows, phase |-> phase,
           heard |-> heard, ok |-> ok, told |-> told]
  BY DEF IsWrite
<1>1. w = [n |-> number, key |-> key, rows |-> rows, phase |-> phase,
           heard |-> FALSE, ok |-> ok, told |-> told]
  OBVIOUS
<1> QED
  BY <1>1 DEF IsWrite, Unheard1

IsMap(f, S) == f = [x \in S |-> f[x]]
ImageOf(f, S) == {f[x] : x \in S}

LEMMA ImageCount ==
  ASSUME NEW S, IsFiniteSet(S), NEW f, IsMap(f, S), NEW T, T \subseteq ImageOf(f, S)
  PROVE  IsFiniteSet(T) /\ Cardinality(T) <= Cardinality(S) /\ Cardinality(T) \in Nat
<1> PICK U : U = {f[x] : x \in S}
  OBVIOUS
<1>1. f \in Surjection(S, U) /\ T \subseteq U
  BY DEF Surjection, IsMap, ImageOf
<1>2. IsFiniteSet(U) /\ Cardinality(U) <= Cardinality(S)
  BY <1>1, FS_Surjection
<1>3. IsFiniteSet(T) /\ Cardinality(T) <= Cardinality(U)
  BY <1>1, <1>2, FS_Subset
<1>4. Cardinality(T) \in Nat /\ Cardinality(U) \in Nat /\ Cardinality(S) \in Nat
  BY <1>2, <1>3, FS_CardinalityType
<1> QED
  BY <1>2, <1>3, <1>4

LEMMA RemountKeeps ==
  ASSUME CrmInv, Remount
  PROVE  CrmInv'
<1>1. CrmTyped /\ FormsOK /\ ImportOK
  BY DEF CrmInv
<1>2. /\ explained' = Excused /\ requests' = {[q EXCEPT !.heard = FALSE] : q \in requests}
      /\ UNCHANGED <<list, cache, created, imported, untold, edited, ticked>>
  BY DEF Remount, backendVars
<1>3. IsPanel(panel') /\ ~panel'.busy
  <2>1. PICK m, r : panel' = [panel EXCEPT !.mode = m, !.busy = FALSE, !.result = r]
    BY DEF Remount
  <2> PICK b \in BOOLEAN : b = FALSE
    OBVIOUS
  <2>2. PanelIs(panel', b)
    BY <1>1, <2>1, PanelSays DEF CrmTyped
  <2> QED
    BY <2>2 DEF PanelIs
<1> PICK f : f = [q \in requests |-> [q EXCEPT !.heard = FALSE]]
  OBVIOUS
<1>4. /\ requests' = {f[q] : q \in requests}
      /\ \A q \in requests : /\ Unheard1(f[q], q)
                             /\ q.key = "none" => f[q].rows = q.rows /\ f[q].told = q.told
  BY <1>1, <1>2, Unhearing DEF CrmTyped
<1>5. ASSUME NEW k \in Keys
      PROVE  /\ Cardinality(Pending(k)') <= Cardinality(Pending(k))
             /\ Cardinality(Certain(k)') <= Cardinality(Certain(k))
             /\ Past(k)' \in {Past(k), {}}
             /\ Cardinality(Pending(k)') \in Nat /\ Cardinality(Certain(k)') \in Nat
  <2>1. IsFiniteSet(Pending(k)) /\ IsFiniteSet(Certain(k))
    BY <1>1, FewWrites
  <2>2. Past(k)' = {}
    BY <1>4 DEF Past, Unheard1
  <2>3. ASSUME NEW S, S \subseteq requests, IsFiniteSet(S), NEW T, T \subseteq {f[q] : q \in S}
        PROVE  Cardinality(T) <= Cardinality(S) /\ Cardinality(T) \in Nat
    <3> PICK g : g = [q \in S |-> f[q]]
      OBVIOUS
    <3>1. IsMap(g, S) /\ T \subseteq ImageOf(g, S)
      BY <2>3 DEF IsMap, ImageOf
    <3> QED
      BY <2>3, <3>1, ImageCount
  <2>4. Pending(k)' \subseteq {f[q] : q \in Pending(k)} /\ Pending(k) \subseteq requests
    BY <1>4 DEF Pending, Unheard1
  <2>5. Certain(k)' \subseteq {f[q] : q \in Certain(k)} /\ Certain(k) \subseteq requests
    BY <1>4 DEF Certain, Unheard1
  <2> QED
    BY <2>1, <2>2, <2>3, <2>4, <2>5
<1>6. FormsOK' /\ explained' \in [Keys -> Nat]
  BY <1>2, <1>3, <1>5, ResetForms
<1>7. CrmTyped'
  <2>1. IsFiniteSet(requests')
    <3> PICK T : T = requests'
      OBVIOUS
    <3>1. IsMap(f, requests) /\ T \subseteq ImageOf(f, requests) /\ IsFiniteSet(requests)
      BY <1>1, <1>4 DEF CrmTyped, IsMap, ImageOf
    <3> QED
      BY <3>1, ImageCount
  <2> QED
    BY <1>1, <1>2, <1>3, <1>4, <1>6, <2>1 DEF CrmTyped, Unheard1
<1>8. ImportOK'
  <2>1. ASSUME NEW w \in requests', w.key = "none" PROVE PushOK(w)'
    <3>1. PICK q \in requests : w = f[q]
      BY <1>4
    <3>2. /\ q.key = "none" /\ w.rows = q.rows /\ w.told = q.told /\ w.phase = q.phase
          /\ PushOK(q)
      BY <1>1, <1>4, <2>1, <3>1 DEF Unheard1, ImportOK
    <3>3. \A v \in requests' : v.key = "none" => v = w
      BY <1>4, <3>1, <3>2 DEF Unheard1, PushOK
    <3> QED
      BY <1>2, <3>2, <3>3 DEF PushOK
  <2> QED
    BY <1>1, <1>2, <2>1 DEF ImportOK, Label
<1> QED
  BY <1>6, <1>7, <1>8, Zenon DEF CrmInv

LEMMA FormTurns ==
  ASSUME CrmInv, \E key \in Keys : OpenForm(key) \/ Preview(key) \/ CloseForm
  PROVE  CrmInv'
<1>1. CrmTyped /\ FormsOK /\ ImportOK
  BY DEF CrmInv
<1>2. UNCHANGED <<list, requests, cache, created, imported, explained, untold, edited, ticked>>
  BY DEF OpenForm, Preview, CloseForm, backendVars, historyVars
<1>3. \E m : panel' = [panel EXCEPT !.mode = m]
  BY DEF OpenForm, Preview, CloseForm
<1>4. IsPanel(panel') /\ panel'.busy = panel.busy
  BY <1>1, <1>3, PanelTurns DEF CrmTyped, PanelIs
<1>5. CrmTyped'
  BY <1>1, <1>2, <1>4 DEF CrmTyped
<1>6. FormsOK' /\ ImportOK'
  BY <1>1, <1>2, <1>4, FormsStay, ImportStays
<1> QED
  BY <1>5, <1>6, Zenon DEF CrmInv

LEMMA PanelSteps == ASSUME CrmInv, PanelNext PROVE CrmInv'
BY FormTurns, ConfirmKeeps, RefreshPanelKeeps, RemountKeeps DEF PanelNext, Keys

(* The forms do not see the import's requests.                             *)
LEMMA FormsSame ==
  ASSUME FormsOK, UNCHANGED <<panel, cache, created, explained>>,
         \A q : q.key \in Keys => (q \in requests' <=> q \in requests)
  PROVE  FormsOK'
<1>1. \A k \in Keys : /\ Pending(k)' = Pending(k) /\ Past(k)' = Past(k)
                      /\ Certain(k)' = Certain(k)
  BY DEF Pending, Past, Certain
<1> QED
  BY <1>1 DEF FormsOK

(* What the modal is after a step.                                         *)
Modal(l, step, class, excluded, pushing, answer) ==
  l = [step |-> step, class |-> class, excluded |-> excluded,
       pushing |-> pushing, answer |-> answer]

LEMMA ModalTurns ==
  ASSUME IsModal(list), NEW c, NEW x, NEW s, NEW b, NEW a
  PROVE  /\ list' = [list EXCEPT !.class = c] =>
              Modal(list', list.step, c, list.excluded, list.pushing, list.answer)
         /\ list' = [list EXCEPT !.class = c, !.step = s] =>
              Modal(list', s, c, list.excluded, list.pushing, list.answer)
         /\ list' = [list EXCEPT !.step = s, !.excluded = x] =>
              Modal(list', s, list.class, x, list.pushing, list.answer)
         /\ list' = [list EXCEPT !.excluded = x] =>
              Modal(list', list.step, list.class, x, list.pushing, list.answer)
         /\ list' = [list EXCEPT !.step = s] =>
              Modal(list', s, list.class, list.excluded, list.pushing, list.answer)
         /\ list' = [list EXCEPT !.pushing = b] =>
              Modal(list', list.step, list.class, list.excluded, b, list.answer)
         /\ list' = [list EXCEPT !.pushing = b, !.step = s, !.answer = a] =>
              Modal(list', s, list.class, list.excluded, b, a)
<1> PICK step, class, excluded, pushing, answer :
      list = [step |-> step, class |-> class, excluded |-> excluded,
              pushing |-> pushing, answer |-> answer]
  BY DEF IsModal
<1> PICK new : new = list'
  OBVIOUS
<1>1. new = [list EXCEPT !.class = c] =>
        new = [step |-> step, class |-> c, excluded |-> excluded, pushing |-> pushing,
               answer |-> answer]
  OBVIOUS
<1>2. new = [list EXCEPT !.class = c, !.step = s] =>
        new = [step |-> s, class |-> c, excluded |-> excluded, pushing |-> pushing,
               answer |-> answer]
  OBVIOUS
<1>3. new = [list EXCEPT !.step = s, !.excluded = x] =>
        new = [step |-> s, class |-> class, excluded |-> x, pushing |-> pushing,
               answer |-> answer]
  OBVIOUS
<1>4. new = [list EXCEPT !.excluded = x] =>
        new = [step |-> step, class |-> class, excluded |-> x, pushing |-> pushing,
               answer |-> answer]
  OBVIOUS
<1>5. new = [list EXCEPT !.step = s] =>
        new = [step |-> s, class |-> class, excluded |-> excluded, pushing |-> pushing,
               answer |-> answer]
  OBVIOUS
<1>6. new = [list EXCEPT !.pushing = b] =>
        new = [step |-> step, class |-> class, excluded |-> excluded, pushing |-> b,
               answer |-> answer]
  OBVIOUS
<1>7. new = [list EXCEPT !.pushing = b, !.step = s, !.answer = a] =>
        new = [step |-> s, class |-> class, excluded |-> excluded, pushing |-> b,
               answer |-> a]
  OBVIOUS
<1>8. /\ list.step = step /\ list.class = class /\ list.excluded = excluded
      /\ list.pushing = pushing /\ list.answer = answer
  OBVIOUS
<1> QED
  BY <1>1, <1>2, <1>3, <1>4, <1>5, <1>6, <1>7, <1>8 DEF Modal

(* A change of the list that leaves the forms and the requests alone.      *)
LEMMA OnlyList ==
  ASSUME CrmInv, IsModal(list'), ImportOK',
         UNCHANGED <<panel, requests, cache, created, explained>>
  PROVE  CrmInv'
<1>1. CrmTyped' /\ FormsOK'
  BY FormsStay DEF CrmInv, CrmTyped
<1> QED
  BY <1>1, Zenon DEF CrmInv

LEMMA RefreshListKeeps ==
  ASSUME CrmInv, RefreshList
  PROVE  CrmInv'
<1>1. CrmTyped /\ FormsOK /\ ImportOK /\ IsModal(list)
  BY DEF CrmInv, CrmTyped
<1>2. PICK class \in [ListRows -> Classes] :
        /\ \A r \in ListRows : (class[r] = "missing") = (list.class[r] = "missing")
        /\ list' = [list EXCEPT !.class = class]
        /\ ticked' = {r \in ListRows : class[r] = "duplicate"
                        /\ (r \in ticked \/ list.class[r] # "duplicate")}
  BY DEF RefreshList
<1>3. UNCHANGED <<panel, requests, cache, created, imported, explained, untold, edited>>
  BY DEF RefreshList, backendVars
<1>4. /\ Modal(list', list.step, class, list.excluded, list.pushing, list.answer)
      /\ list'.step = list.step /\ list'.class = class /\ list'.excluded = list.excluded
      /\ list'.pushing = list.pushing /\ list'.answer = list.answer
  <2>1. Modal(list', list.step, class, list.excluded, list.pushing, list.answer)
    BY <1>1, <1>2, ModalTurns
  <2> QED
    BY <2>1 DEF Modal
<1>5. IsModal(list')
  BY <1>4 DEF Modal, IsModal
<1>6. ImportOK'
  <2>1. ASSUME NEW q \in requests, q.key = "none" PROVE PushOK(q)'
    BY <1>1, <1>2, <1>3, <1>4, <2>1 DEF ImportOK, PushOK
  <2>2. \A r \in ListRows : Label(r)' = "succeeded" <=> Label(r) = "succeeded"
    BY <1>2, <1>4 DEF Label
  <2> QED
    BY <1>1, <1>2, <1>3, <1>4, <2>1, <2>2 DEF ImportOK
<1> QED
  BY <1>3, <1>5, <1>6, OnlyList

LEMMA ListEdits ==
  ASSUME CrmInv, HandleFile \/ Remap \/ ReviewDedupe \/ \E r \in ListRows : UpdateExcluded(r)
  PROVE  CrmInv'
<1>1. CrmTyped /\ FormsOK /\ ImportOK /\ IsModal(list)
  BY DEF CrmInv, CrmTyped
<1>2. /\ UNCHANGED <<panel, requests, cache, created, imported, explained, untold>>
      /\ edited' = (edited \/ list.pushing)
  BY DEF HandleFile, Remap, Classify, ReviewDedupe, UpdateExcluded, backendVars
<1>3. ASSUME list'.pushing = list.pushing, list'.step # "results", IsModal(list'),
             list'.step \in {"dedupe", "confirm"} =>
               \A r \in ListRows : r \notin list'.excluded /\ list'.class[r] = "duplicate"
                                   => r \in ticked'
      PROVE  CrmInv'
  <2>1. \A q \in requests : q.key = "none" => PushOK(q)'
    BY <1>1, <1>2, <1>3 DEF ImportOK, PushOK
  <2>2. ImportOK'
    BY <1>2, <1>3, <2>1 DEF ImportOK
  <2> QED
    BY <1>2, <1>3, <2>2, OnlyList
<1>4. CASE HandleFile \/ Remap
  <2> PICK s : s = "mapping"
    OBVIOUS
  <2>1. PICK class \in [ListRows -> Classes] : list' = [list EXCEPT !.class = class, !.step = s]
    BY <1>4 DEF HandleFile, Remap, Classify
  <2>2. Modal(list', s, class, list.excluded, list.pushing, list.answer)
    BY <1>1, <2>1, ModalTurns
  <2>3. IsModal(list') /\ list'.pushing = list.pushing /\ list'.step = "mapping"
    BY <2>2 DEF Modal, IsModal
  <2> QED
    BY <1>3, <2>3
<1>5. CASE ReviewDedupe
  <2> PICK s, x : s = "dedupe" /\ x = {r \in ListRows : list.class[r] # "new"}
    OBVIOUS
  <2>1. list' = [list EXCEPT !.step = s, !.excluded = x]
    BY <1>5 DEF ReviewDedupe
  <2>2. Modal(list', s, list.class, x, list.pushing, list.answer)
    BY <1>1, <2>1, ModalTurns
  <2>3. /\ IsModal(list') /\ list'.pushing = list.pushing /\ list'.step = "dedupe"
        /\ list'.excluded = x /\ list'.class = list.class
    BY <1>1, <2>2 DEF Modal, IsModal
  <2>4. \A r \in ListRows : r \notin x => list.class[r] # "duplicate"
    OBVIOUS
  <2> QED
    BY <1>3, <2>3, <2>4
<1>6. ASSUME NEW r \in ListRows, UpdateExcluded(r) PROVE CrmInv'
  <2> PICK x : x = IF r \in list.excluded THEN list.excluded \ {r} ELSE list.excluded \cup {r}
    OBVIOUS
  <2>1. /\ list' = [list EXCEPT !.excluded = x] /\ list.step \in {"dedupe", "confirm"}
        /\ ticked' = IF r \in list.excluded /\ list.class[r] = "duplicate"
                     THEN ticked \cup {r} ELSE ticked \ {r}
    BY <1>6 DEF UpdateExcluded
  <2>2. Modal(list', list.step, list.class, x, list.pushing, list.answer)
    BY <1>1, <2>1, ModalTurns
  <2>3. /\ IsModal(list') /\ list'.pushing = list.pushing /\ list'.step = list.step
        /\ list'.excluded = x /\ list'.class = list.class
    BY <1>1, <2>2 DEF Modal, IsModal
  <2>4. \A p \in ListRows : p \notin list.excluded /\ list.class[p] = "duplicate" => p \in ticked
    BY <1>1, <2>1 DEF ImportOK
  <2>5. \A p \in ListRows : p \notin x /\ list.class[p] = "duplicate" => p \in ticked'
    BY <2>1, <2>4
  <2> QED
    BY <1>3, <2>1, <2>3, <2>5
<1> QED
  BY <1>4, <1>5, <1>6

LEMMA ListTurns ==
  ASSUME CrmInv, Continue \/ Back
  PROVE  CrmInv'
<1>1. CrmTyped /\ FormsOK /\ ImportOK /\ IsModal(list)
  BY DEF CrmInv, CrmTyped
<1>2. UNCHANGED <<panel, requests, cache, created, imported, explained, untold, edited, ticked>>
  BY DEF Continue, Back, backendVars, historyVars
<1>3. PICK s : /\ list' = [list EXCEPT !.step = s] /\ s # "results"
               /\ s \in {"dedupe", "confirm"} => list.step \in {"dedupe", "confirm"}
  <2>1. CASE Continue
    BY <2>1 DEF Continue
  <2>2. CASE Back
    <3>1. list' = [list EXCEPT !.step = IF list.step = "mapping" THEN "upload" ELSE "mapping"]
      BY <2>2 DEF Back
    <3> QED
      BY <3>1
  <2> QED
    BY <2>1, <2>2
<1>4. Modal(list', s, list.class, list.excluded, list.pushing, list.answer)
  BY <1>1, <1>3, ModalTurns
<1>5. /\ IsModal(list') /\ list'.step = s /\ list'.class = list.class
      /\ list'.excluded = list.excluded /\ list'.pushing = list.pushing
  BY <1>1, <1>4 DEF Modal, IsModal
<1>6. \A q \in requests : q.key = "none" => PushOK(q)'
  BY <1>1, <1>2, <1>3, <1>5 DEF ImportOK, PushOK
<1>7. ImportOK'
  BY <1>1, <1>2, <1>3, <1>5, <1>6 DEF ImportOK
<1> QED
  BY <1>2, <1>5, <1>7, OnlyList

LEMMA NoListSays == IsModal(NoList) /\ NoList.step = "upload" /\ ~NoList.pushing
<1> PICK class, answer, none : /\ class = [r \in ListRows |-> "new"]
                               /\ answer = [r \in ListRows |-> "failed"] /\ none = {}
  OBVIOUS
<1> PICK l : l = NoList
  OBVIOUS
<1>1. l = [step |-> "upload", class |-> class, excluded |-> none,
           pushing |-> FALSE, answer |-> answer]
  BY DEF NoList
<1> QED
  BY <1>1 DEF IsModal, Classes

LEMMA CloseListKeeps ==
  ASSUME CrmInv, CloseList
  PROVE  CrmInv'
<1>1. CrmTyped /\ FormsOK /\ ImportOK
  BY DEF CrmInv
<1>2. /\ list' = NoList /\ requests' = {q \in requests : q.key \in Keys}
      /\ UNCHANGED <<panel, cache, created, explained>>
  BY DEF CloseList
<1>3. IsModal(list') /\ list'.step = "upload"
  BY <1>2, NoListSays
<1>4. CrmTyped'
  <2>1. IsFiniteSet(requests')
    BY <1>1, <1>2, FS_Subset DEF CrmTyped
  <2> QED
    BY <1>1, <1>2, <1>3, <2>1 DEF CrmTyped
<1>5. FormsOK'
  BY <1>1, <1>2, FormsSame
<1>6. ImportOK'
  <2>1. \A q \in requests' : q.key # "none"
    BY <1>2 DEF Keys
  <2> QED
    BY <1>3, <2>1 DEF ImportOK
<1> QED
  BY <1>4, <1>5, <1>6, Zenon DEF CrmInv

LEMMA ConfirmPushKeeps ==
  ASSUME CrmInv, ConfirmPush
  PROVE  CrmInv'
<1>1. CrmTyped /\ FormsOK /\ ImportOK /\ IsModal(list)
  BY DEF CrmInv, CrmTyped
<1>2. /\ list.step = "confirm" /\ ~list.pushing /\ NewRequest("none", PushRows)
      /\ list' = [list EXCEPT !.pushing = TRUE]
      /\ UNCHANGED <<panel, cache, created, explained, ticked>>
  BY DEF ConfirmPush
<1>3. PICK new : /\ requests' = requests \cup {new}
                 /\ IsWrite(new) /\ new.key = "none" /\ new.rows = PushRows
                 /\ new.phase = "sent" /\ new.told = {}
  <2> PICK key, rows : key = "none" /\ rows = PushRows
    OBVIOUS
  <2>1. /\ NewRequest(key, rows) /\ key \in Keys \cup {"none"}
        /\ (key \in Keys => rows = {})
    BY <1>2 DEF Keys
  <2> QED
    BY <2>1, RequestSent
<1>4. /\ IsModal(list') /\ list'.step = "confirm" /\ list'.class = list.class
      /\ list'.excluded = list.excluded /\ list'.pushing
  <2> PICK b : b = TRUE
    OBVIOUS
  <2>1. Modal(list', list.step, list.class, list.excluded, b, list.answer)
    BY <1>1, <1>2, ModalTurns
  <2> QED
    BY <1>1, <1>2, <2>1 DEF Modal, IsModal
<1>5. CrmTyped'
  <2>1. IsFiniteSet(requests')
    BY <1>1, <1>3, FS_AddElement DEF CrmTyped
  <2> QED
    BY <1>1, <1>2, <1>3, <1>4, <2>1 DEF CrmTyped
<1>6. FormsOK'
  BY <1>1, <1>2, <1>3, FormsSame DEF Keys
<1>7. ImportOK'
  <2>1. \A q \in requests : q.key # "none"
    BY <1>1, <1>2 DEF ImportOK, PushOK
  <2>2. PushOK(new)'
    <3>1. \A r \in PushRows : /\ r \in ListRows /\ r \notin list.excluded
                              /\ list.class[r] # "missing"
                              /\ list.class[r] = "duplicate" => r \in ticked
      BY <1>1, <1>2 DEF PushRows, ImportOK
    <3> QED
      BY <1>2, <1>3, <1>4, <2>1, <3>1 DEF PushOK
  <2> QED
    BY <1>1, <1>2, <1>3, <1>4, <2>1, <2>2 DEF ImportOK
<1> QED
  BY <1>5, <1>6, <1>7, Zenon DEF CrmInv

LEMMA ImportSteps == ASSUME CrmInv, ListNext PROVE CrmInv'
BY RefreshListKeeps, ListEdits, ListTurns, CloseListKeeps, ConfirmPushKeeps DEF ListNext

(* A request becomes another, or is gone; of the other form's requests     *)
(* there are no more than before.                                          *)
TurnsInto(q, w) == requests' = (requests \ {q}) \cup {w}

LEMMA OtherForm ==
  ASSUME CrmTyped, NEW q \in requests, NEW w,
         \/ TurnsInto(q, w) /\ w.key = q.key /\ (w.heard => q.heard)
         \/ requests' = requests \ {q},
         NEW k \in Keys, k # q.key,
         q.heard \in BOOLEAN
  PROVE  /\ Cardinality(Pending(k)') <= Cardinality(Pending(k))
         /\ Cardinality(Certain(k)') <= Cardinality(Certain(k))
         /\ Cardinality(Past(k)') <= Cardinality(Past(k))
         /\ Cardinality(Pending(k)') \in Nat /\ Cardinality(Certain(k)') \in Nat
         /\ Cardinality(Past(k)') \in Nat
<1>1. IsFiniteSet(Pending(k)) /\ IsFiniteSet(Certain(k)) /\ IsFiniteSet(Past(k))
  BY FewWrites
<1>2. Pending(k)' \subseteq Pending(k) /\ Certain(k)' \subseteq Certain(k)
  BY DEF Pending, Certain, TurnsInto
<1>3. \/ q \in Past(k) /\ Past(k)' \subseteq (Past(k) \ {q}) \cup {w}
      \/ Past(k)' \subseteq Past(k)
  <2>1. CASE q \in Past(k)
    BY <2>1 DEF Past, TurnsInto
  <2>2. CASE q \notin Past(k)
    <3>1. ~q.heard \/ q.key \notin Keys
      BY <2>2 DEF Past
    <3> QED
      BY <3>1 DEF Past, TurnsInto
  <2> QED
    BY <2>1, <2>2
<1>4. /\ IsFiniteSet(Pending(k)') /\ Cardinality(Pending(k)') <= Cardinality(Pending(k))
      /\ IsFiniteSet(Certain(k)') /\ Cardinality(Certain(k)') <= Cardinality(Certain(k))
  BY <1>1, <1>2, FS_Subset
<1>5. IsFiniteSet(Past(k)') /\ Cardinality(Past(k)') <= Cardinality(Past(k))
  <2> PICK S, T : S = Past(k) /\ T = Past(k)'
    OBVIOUS
  <2> QED
    BY <1>1, <1>3, CountBound
<1> QED
  BY <1>4, <1>5, FS_CardinalityType

(* A step of one request, of which only its own form is affected.          *)
LEMMA FormMoves ==
  ASSUME CrmInv, NEW q \in requests, NEW w,
         \/ TurnsInto(q, w) /\ w.key = q.key /\ (w.heard => q.heard)
         \/ requests' = requests \ {q},
         panel'.busy = panel.busy,
         panel'.busy => \E p \in requests' : p.key \in Keys /\ p.heard,
         \A k \in Keys : /\ k # q.key => UNCHANGED <<cache[k], created[k]>>
                         /\ k # q.key => explained'[k] = explained[k],
         q.key \in Keys =>
           IF cache'[q.key] = "none"
           THEN created'[q.key] + Cardinality(Pending(q.key)') + Cardinality(Past(q.key)')
                  <= explained'[q.key] + IF panel'.busy THEN 1 ELSE 0
           ELSE created'[q.key] + Cardinality(Certain(q.key)') <= 1 + explained'[q.key]
  PROVE  FormsOK'
<1>1. CrmTyped /\ FormsOK /\ q.heard \in BOOLEAN
  BY DEF CrmInv, CrmTyped, IsWrite
<1>2. ASSUME NEW k \in Keys
      PROVE  IF cache'[k] = "none"
             THEN created'[k] + Cardinality(Pending(k)') + Cardinality(Past(k)')
                    <= explained'[k] + IF panel'.busy THEN 1 ELSE 0
             ELSE created'[k] + Cardinality(Certain(k)') <= 1 + explained'[k]
  <2>1. CASE k = q.key
    BY <2>1
  <2>2. CASE k # q.key
    <3> PICK a, c, s, a1, c1, s1 :
          /\ a = Cardinality(Pending(k)) /\ c = Cardinality(Certain(k))
          /\ s = Cardinality(Past(k)) /\ a1 = Cardinality(Pending(k)')
          /\ c1 = Cardinality(Certain(k)') /\ s1 = Cardinality(Past(k)')
      OBVIOUS
    <3>1. a \in Nat /\ c \in Nat /\ s \in Nat
      BY <1>1, FewWrites
    <3>2. a1 \in Nat /\ c1 \in Nat /\ s1 \in Nat /\ a1 <= a /\ c1 <= c /\ s1 <= s
      BY <1>1, <2>2, OtherForm
    <3>3. created[k] \in Nat /\ explained[k] \in Nat
      BY <1>1 DEF CrmTyped
    <3>4. cache'[k] = cache[k] /\ created'[k] = created[k] /\ explained'[k] = explained[k]
      BY <2>2
    <3>5. IF cache[k] = "none"
          THEN created[k] + a + s <= explained[k] + IF panel.busy THEN 1 ELSE 0
          ELSE created[k] + c <= 1 + explained[k]
      BY <1>1 DEF FormsOK
    <3>6. IF cache[k] = "none"
          THEN created[k] + a1 + s1 <= explained[k] + IF panel.busy THEN 1 ELSE 0
          ELSE created[k] + c1 <= 1 + explained[k]
      BY <3>1, <3>2, <3>3, <3>5
    <3> QED
      BY <3>4, <3>6
  <2> QED
    BY <2>1, <2>2
<1> QED
  BY <1>2 DEF FormsOK

(* The import's request becomes another, and nothing that was reviewed has *)
(* changed.                                                                *)
LEMMA PushMoves ==
  ASSUME CrmInv, NEW q \in requests, NEW w, TurnsInto(q, w), w.key = q.key, w.rows = q.rows,
         UNCHANGED <<list, edited, ticked>>,
         q.key # "none" => UNCHANGED <<imported, untold>>,
         q.key = "none" =>
           w.told \subseteq w.rows
           /\ (w.phase \in {"wrote", "done"} => w.told = imported' \ untold')
  PROVE  ImportOK'
<1>1. ImportOK
  BY DEF CrmInv
<1>2. ASSUME NEW p \in requests', p.key = "none" PROVE PushOK(p)'
  <2>1. CASE q.key = "none"
    <3>1. PushOK(q) /\ p = w /\ \A v \in requests' : v.key = "none" => v = w
      BY <1>1, <1>2, <2>1 DEF ImportOK, PushOK, TurnsInto
    <3> QED
      BY <2>1, <3>1 DEF PushOK
  <2>2. CASE q.key # "none"
    <3>1. p \in requests /\ PushOK(p) /\ \A v \in requests' : v.key = "none" => v \in requests
      BY <1>1, <1>2, <2>2 DEF ImportOK, TurnsInto
    <3> QED
      BY <2>2, <3>1 DEF PushOK
  <2> QED
    BY <2>1, <2>2
<1>3. list.step = "results" => q.key # "none"
  BY <1>1 DEF ImportOK, PushOK
<1> QED
  BY <1>1, <1>2, <1>3 DEF ImportOK, Label

(* What a request becomes: all but its number, its form and its rows.      *)
WriteIs(w, q, phase, heard, ok, told) ==
  /\ IsWrite(w) /\ w.key = q.key /\ w.rows = q.rows
  /\ w.phase = phase /\ w.heard = heard /\ w.ok = ok /\ w.told = told

LEMMA RequestTurns ==
  ASSUME NEW q, IsWrite(q), NEW phase \in {"sent", "checked", "wrote", "done"},
         NEW ok \in BOOLEAN, NEW told, NEW w
  PROVE  /\ w = [q EXCEPT !.phase = phase, !.ok = ok] =>
              WriteIs(w, q, phase, q.heard, ok, q.told)
         /\ w = [q EXCEPT !.phase = phase] => WriteIs(w, q, phase, q.heard, q.ok, q.told)
         /\ w = [q EXCEPT !.phase = phase, !.ok = ok, !.told = told] =>
              WriteIs(w, q, phase, q.heard, ok, told)
<1> PICK number, key, rows, phase1, heard, ok1, told1 :
      q = [n |-> number, key |-> key, rows |-> rows, phase |-> phase1,
           heard |-> heard, ok |-> ok1, told |-> told1]
  BY DEF IsWrite
<1>1. w = [q EXCEPT !.phase = phase, !.ok = ok] =>
        w = [n |-> number, key |-> key, rows |-> rows, phase |-> phase,
             heard |-> heard, ok |-> ok, told |-> told1]
  OBVIOUS
<1>2. w = [q EXCEPT !.phase = phase] =>
        w = [n |-> number, key |-> key, rows |-> rows, phase |-> phase,
             heard |-> heard, ok |-> ok1, told |-> told1]
  OBVIOUS
<1>3. w = [q EXCEPT !.phase = phase, !.ok = ok, !.told = told] =>
        w = [n |-> number, key |-> key, rows |-> rows, phase |-> phase,
             heard |-> heard, ok |-> ok, told |-> told]
  OBVIOUS
<1>4. w = [q EXCEPT !.phase = phase, !.ok = ok] => WriteIs(w, q, phase, q.heard, ok, q.told)
  BY <1>1 DEF IsWrite, WriteIs
<1>5. w = [q EXCEPT !.phase = phase] => WriteIs(w, q, phase, q.heard, q.ok, q.told)
  BY <1>2 DEF IsWrite, WriteIs
<1>6. w = [q EXCEPT !.phase = phase, !.ok = ok, !.told = told] =>
        WriteIs(w, q, phase, q.heard, ok, told)
  BY <1>3 DEF IsWrite, WriteIs
<1> QED
  BY <1>4, <1>5, <1>6

LEMMA OneForOne ==
  ASSUME NEW S, IsFiniteSet(S), NEW q \in S, NEW w, NEW T, T \subseteq (S \ {q}) \cup {w}
  PROVE  IsFiniteSet(T) /\ Cardinality(T) <= Cardinality(S) /\ Cardinality(T) \in Nat
<1>1. IsFiniteSet(T) /\ Cardinality(T) <= Cardinality(S)
  BY CountBound, Zenon
<1> QED
  BY <1>1, FS_CardinalityType

LEMMA OneLess ==
  ASSUME NEW S, IsFiniteSet(S), NEW q \in S, NEW T, T \subseteq S \ {q}
  PROVE  IsFiniteSet(T) /\ Cardinality(T) <= Cardinality(S) - 1 /\ Cardinality(T) \in Nat
<1>1. IsFiniteSet(T) /\ Cardinality(T) <= Cardinality(S) - 1
  BY CountBound, Zenon
<1> QED
  BY <1>1, FS_CardinalityType

LEMMA OneMore ==
  ASSUME NEW S, IsFiniteSet(S), NEW w, NEW T, T \subseteq S \cup {w}
  PROVE  IsFiniteSet(T) /\ Cardinality(T) <= Cardinality(S) + 1 /\ Cardinality(T) \in Nat
<1>1. IsFiniteSet(T) /\ Cardinality(T) <= Cardinality(S) + 1
  BY CountBound, Zenon
<1> QED
  BY <1>1, FS_CardinalityType

LEMMA NoMore ==
  ASSUME NEW S, IsFiniteSet(S), NEW T, T \subseteq S
  PROVE  IsFiniteSet(T) /\ Cardinality(T) <= Cardinality(S) /\ Cardinality(T) \in Nat
BY FS_Subset, FS_CardinalityType

(* The lock is held for a request that is heard, also after the step.      *)
LEMMA StillHeard ==
  ASSUME FormsOK, NEW q \in requests, NEW w, TurnsInto(q, w), w.key = q.key, w.heard = q.heard
  PROVE  panel.busy => \E p \in requests' : p.key \in Keys /\ p.heard
<1> SUFFICES ASSUME panel.busy PROVE \E p \in requests' : p.key \in Keys /\ p.heard
  OBVIOUS
<1>1. PICK p \in requests : p.key \in Keys /\ p.heard
  BY DEF FormsOK
<1>2. p \in requests' \/ (p = q /\ w \in requests')
  BY DEF TurnsInto
<1> QED
  BY <1>1, <1>2

LEMMA CheckKeyKeeps ==
  ASSUME CrmInv, NEW q \in requests, CheckKey(q)
  PROVE  CrmInv'
<1>1. CrmTyped /\ FormsOK /\ ImportOK /\ IsWrite(q) /\ q.phase = "sent"
  BY DEF CrmInv, CrmTyped, CheckKey
<1>2. UNCHANGED <<panel, list, cache, created, imported, explained, untold, edited, ticked>>
  BY DEF CheckKey, backendVars, historyVars
<1>3. PICK w, phase, ok : /\ TurnsInto(q, w) /\ WriteIs(w, q, phase, q.heard, ok, q.told)
                          /\ phase = IF q.key \in Keys /\ cache[q.key] # "none"
                                     THEN "done" ELSE "checked"
  <2>1. CASE q.key \in Keys /\ cache[q.key] # "none"
    <3> PICK w, ok, phase : /\ w = [q EXCEPT !.phase = phase, !.ok = ok]
                            /\ ok = (cache[q.key] = "ok") /\ phase = "done"
      OBVIOUS
    <3>1. TurnsInto(q, w) /\ ok \in BOOLEAN /\ phase \in {"sent", "checked", "wrote", "done"}
      BY <2>1 DEF CheckKey, Becomes, TurnsInto
    <3>2. WriteIs(w, q, phase, q.heard, ok, q.told)
      BY <1>1, <3>1, RequestTurns
    <3> QED
      BY <2>1, <3>1, <3>2
  <2>2. CASE ~(q.key \in Keys /\ cache[q.key] # "none")
    <3> PICK w, phase : w = [q EXCEPT !.phase = phase] /\ phase = "checked"
      OBVIOUS
    <3>1. TurnsInto(q, w) /\ phase \in {"sent", "checked", "wrote", "done"}
      BY <2>2 DEF CheckKey, Becomes, TurnsInto
    <3>2. WriteIs(w, q, phase, q.heard, q.ok, q.told)
      BY <1>1, <3>1, RequestTurns
    <3> QED
      BY <2>2, <3>1, <3>2
  <2> QED
    BY <2>1, <2>2
<1>4. /\ IsWrite(w) /\ w.key = q.key /\ w.rows = q.rows /\ w.phase = phase
      /\ w.heard = q.heard /\ w.told = q.told
  BY <1>3 DEF WriteIs
<1>5. CrmTyped'
  <2>1. IsFiniteSet(requests')
    BY <1>1, <1>3, FS_RemoveElement, FS_AddElement DEF CrmTyped, TurnsInto
  <2> QED
    BY <1>1, <1>2, <1>3, <1>4, <2>1 DEF CrmTyped, TurnsInto
<1>6. FormsOK'
  <2>1. ASSUME q.key \in Keys
        PROVE  IF cache[q.key] = "none"
               THEN created[q.key] + Cardinality(Pending(q.key)') + Cardinality(Past(q.key)')
                      <= explained[q.key] + IF panel.busy THEN 1 ELSE 0
               ELSE created[q.key] + Cardinality(Certain(q.key)') <= 1 + explained[q.key]
    <3> PICK k \in Keys : k = q.key
      BY <2>1
    <3>1. /\ IsFiniteSet(Pending(k)) /\ IsFiniteSet(Certain(k)) /\ IsFiniteSet(Past(k))
          /\ Cardinality(Pending(k)) \in Nat /\ Cardinality(Certain(k)) \in Nat
          /\ Cardinality(Past(k)) \in Nat /\ created[k] \in Nat /\ explained[k] \in Nat
      BY <1>1, FewWrites DEF CrmTyped
    <3>2. CASE cache[k] = "none"
      <4>1. q \in Pending(k) /\ Pending(k)' \subseteq (Pending(k) \ {q}) \cup {w}
        BY <1>1, <1>3, <1>4 DEF Pending, TurnsInto
      <4>2. Past(k)' \subseteq Past(k)
        BY <1>3, <1>4, <3>2 DEF Past, TurnsInto
      <4>3. /\ IsFiniteSet(Pending(k)') /\ Cardinality(Pending(k)') <= Cardinality(Pending(k))
            /\ IsFiniteSet(Past(k)') /\ Cardinality(Past(k)') <= Cardinality(Past(k))
        <5> PICK P, P1, O, O1 : /\ P = Pending(k) /\ P1 = Pending(k)'
                                /\ O = Past(k) /\ O1 = Past(k)'
          OBVIOUS
        <5>1. IsFiniteSet(P1) /\ Cardinality(P1) <= Cardinality(P)
          BY <3>1, <4>1, OneForOne
        <5>2. IsFiniteSet(O1) /\ Cardinality(O1) <= Cardinality(O)
          BY <3>1, <4>2, FS_Subset
        <5> QED
          BY <5>1, <5>2
      <4>4. Cardinality(Pending(k)') \in Nat /\ Cardinality(Past(k)') \in Nat
        BY <4>3, FS_CardinalityType
      <4>5. created[k] + Cardinality(Pending(k)) + Cardinality(Past(k))
              <= explained[k] + IF panel.busy THEN 1 ELSE 0
        BY <1>1, <3>2 DEF FormsOK
      <4>6. created[k] + Cardinality(Pending(k)') + Cardinality(Past(k)')
              <= explained[k] + IF panel.busy THEN 1 ELSE 0
        BY <3>1, <4>3, <4>4, <4>5
      <4> QED
        BY <3>2, <4>6
    <3>3. CASE cache[k] # "none"
      <4>1. Certain(k)' \subseteq Certain(k)
        BY <1>3, <1>4, <3>3 DEF Certain, TurnsInto
      <4>2. IsFiniteSet(Certain(k)') /\ Cardinality(Certain(k)') <= Cardinality(Certain(k))
        BY <3>1, <4>1, CountBound
      <4>3. Cardinality(Certain(k)') \in Nat
        BY <4>2, FS_CardinalityType
      <4>4. created[k] + Cardinality(Certain(k)) <= 1 + explained[k]
        BY <1>1, <3>3 DEF FormsOK
      <4>5. created[k] + Cardinality(Certain(k)') <= 1 + explained[k]
        BY <3>1, <4>2, <4>3, <4>4
      <4> QED
        BY <3>3, <4>5
    <3> QED
      BY <3>2, <3>3
  <2>2. panel.busy => \E p \in requests' : p.key \in Keys /\ p.heard
    BY <1>1, <1>3, <1>4, StillHeard
  <2> QED
    BY <1>2, <1>3, <1>4, <2>1, <2>2, FormMoves
<1>7. ImportOK'
  <2>1. q.key = "none" => q.told \subseteq q.rows /\ w.phase = "checked"
    BY <1>1, <1>3, <1>4 DEF ImportOK, PushOK, Keys
  <2> QED
    BY <1>2, <1>3, <1>4, <2>1, PushMoves
<1> QED
  BY <1>5, <1>6, <1>7, Zenon DEF CrmInv

LEMMA TypedMoves ==
  ASSUME CrmTyped, NEW q \in requests, NEW w, TurnsInto(q, w), IsWrite(w), IsPanel(panel'),
         IsModal(list'), created' \in [Keys -> Nat], explained' \in [Keys -> Nat],
         cache' \in [Keys -> {"none", "ok", "failed"}]
  PROVE  CrmTyped'
<1>1. IsFiniteSet(requests')
  BY FS_RemoveElement, FS_AddElement DEF CrmTyped, TurnsInto
<1> QED
  BY <1>1 DEF CrmTyped, TurnsInto

(* HubSpot answers a form's request, or not, with or without a record.     *)
LEMMA WriteFormKeeps ==
  ASSUME CrmInv, NEW q \in requests, Write(q), q.key \in Keys
  PROVE  CrmInv'
<1>1. CrmTyped /\ FormsOK /\ ImportOK /\ IsWrite(q) /\ q.phase = "checked"
  BY DEF CrmInv, CrmTyped, Write
<1>2. PICK creates \in BOOLEAN, says \in BOOLEAN :
        /\ says => creates
        /\ created' = IF creates THEN [created EXCEPT ![q.key] = @ + 1] ELSE created
        /\ explained' = IF creates /\ ~says THEN [explained EXCEPT ![q.key] = @ + 1] ELSE explained
        /\ Becomes(q, [q EXCEPT !.phase = "wrote", !.ok = says])
        /\ UNCHANGED <<imported, untold>>
  BY DEF Write
<1>3. UNCHANGED <<panel, list, cache, edited, ticked>>
  BY DEF Write
<1> PICK w, phase : w = [q EXCEPT !.phase = phase, !.ok = says] /\ phase = "wrote"
  OBVIOUS
<1>4. TurnsInto(q, w)
  BY <1>2 DEF Becomes, TurnsInto
<1>5. /\ IsWrite(w) /\ w.key = q.key /\ w.rows = q.rows /\ w.phase = "wrote"
      /\ w.heard = q.heard /\ w.ok = says /\ w.told = q.told
  <2>1. WriteIs(w, q, phase, q.heard, says, q.told)
    <3>1. phase \in {"sent", "checked", "wrote", "done"}
      OBVIOUS
    <3> QED
      BY <1>1, <3>1, RequestTurns
  <2> QED
    BY <2>1 DEF WriteIs
<1>6. /\ \A k \in Keys : created[k] \in Nat /\ explained[k] \in Nat
      /\ \A k \in Keys : k # q.key => created'[k] = created[k] /\ explained'[k] = explained[k]
      /\ created'[q.key] = IF creates THEN created[q.key] + 1 ELSE created[q.key]
      /\ explained'[q.key] = IF creates /\ ~says THEN explained[q.key] + 1 ELSE explained[q.key]
      /\ created' \in [Keys -> Nat] /\ explained' \in [Keys -> Nat]
  BY <1>1, <1>2 DEF CrmTyped
<1>7. CrmTyped'
  BY <1>1, <1>3, <1>4, <1>5, <1>6, TypedMoves DEF CrmTyped
<1>8. FormsOK'
  <2>1. IF cache[q.key] = "none"
        THEN created'[q.key] + Cardinality(Pending(q.key)') + Cardinality(Past(q.key)')
               <= explained'[q.key] + IF panel.busy THEN 1 ELSE 0
        ELSE created'[q.key] + Cardinality(Certain(q.key)') <= 1 + explained'[q.key]
    <3> PICK k \in Keys : k = q.key
      OBVIOUS
    <3> PICK P, P1, C, C1, O, O1 :
          /\ P = Pending(k) /\ P1 = Pending(k)' /\ C = Certain(k) /\ C1 = Certain(k)'
          /\ O = Past(k) /\ O1 = Past(k)'
      OBVIOUS
    <3>1. /\ IsFiniteSet(P) /\ IsFiniteSet(C) /\ IsFiniteSet(O)
          /\ Cardinality(P) \in Nat /\ Cardinality(C) \in Nat /\ Cardinality(O) \in Nat
      BY <1>1, FewWrites
    <3>2. q \in P /\ P1 \subseteq P \ {q} /\ q \in C /\ C1 \subseteq C \ {q}
      BY <1>1, <1>4, <1>5 DEF Pending, Certain, TurnsInto
    <3>3. Cardinality(P1) <= Cardinality(P) - 1 /\ Cardinality(P1) \in Nat
      BY <3>1, <3>2, OneLess
    <3>4. Cardinality(C1) <= Cardinality(C) - 1 /\ Cardinality(C1) \in Nat
      BY <3>1, <3>2, OneLess
    <3>5. O1 \subseteq O \cup {w} /\ (says => O1 \subseteq O)
      BY <1>4, <1>5 DEF Past, TurnsInto
    <3>6. Cardinality(O1) <= Cardinality(O) + 1 /\ Cardinality(O1) \in Nat
      BY <3>1, <3>5, OneMore
    <3>7. says => Cardinality(O1) <= Cardinality(O)
      BY <3>1, <3>5, NoMore
    <3> PICK c, e, c1, e1 : /\ c = created[k] /\ e = explained[k]
                            /\ c1 = created'[k] /\ e1 = explained'[k]
      OBVIOUS
    <3>8. /\ c \in Nat /\ e \in Nat /\ c1 = (IF creates THEN c + 1 ELSE c)
          /\ e1 = (IF creates /\ ~says THEN e + 1 ELSE e)
      BY <1>6
    <3>9. CASE cache[k] = "none"
      <4>1. c + Cardinality(P) + Cardinality(O) <= e + IF panel.busy THEN 1 ELSE 0
        BY <1>1, <3>9 DEF FormsOK
      <4>2. c1 + Cardinality(P1) + Cardinality(O1) <= e1 + IF panel.busy THEN 1 ELSE 0
        <5>1. CASE says
          BY <1>2, <3>1, <3>3, <3>6, <3>7, <3>8, <4>1, <5>1
        <5>2. CASE ~says
          BY <1>2, <3>1, <3>3, <3>6, <3>8, <4>1, <5>2
        <5> QED
          BY <5>1, <5>2
      <4> QED
        BY <3>9, <4>2
    <3>10. CASE cache[k] # "none"
      <4>1. c + Cardinality(C) <= 1 + e
        BY <1>1, <3>10 DEF FormsOK
      <4>2. c1 + Cardinality(C1) <= 1 + e1
        BY <3>1, <3>4, <3>8, <4>1
      <4> QED
        BY <3>10, <4>2
    <3> QED
      BY <3>9, <3>10
  <2>2. panel.busy => \E p \in requests' : p.key \in Keys /\ p.heard
    BY <1>1, <1>4, <1>5, StillHeard
  <2> QED
    BY <1>3, <1>4, <1>5, <1>6, <2>1, <2>2, FormMoves
<1>9. ImportOK'
  <2>1. q.key # "none"
    BY DEF Keys
  <2> QED
    BY <1>2, <1>3, <1>4, <1>5, <2>1, PushMoves
<1> QED
  BY <1>7, <1>8, <1>9, Zenon DEF CrmInv

LEMMA WriteImportKeeps ==
  ASSUME CrmInv, NEW q \in requests, Write(q), q.key \notin Keys
  PROVE  CrmInv'
<1>1. /\ CrmTyped /\ FormsOK /\ ImportOK /\ IsWrite(q) /\ q.phase = "checked"
      /\ q.key = "none"
  BY DEF CrmInv, CrmTyped, Write, IsWrite
<1>2. PICK told :
        /\ told = imported' \ untold' /\ told \subseteq q.rows
        /\ Becomes(q, [q EXCEPT !.phase = "wrote", !.ok = TRUE, !.told = told])
        /\ UNCHANGED <<created, explained>>
  <2>1. PICK taken \in SUBSET q.rows, says \in BOOLEAN :
          /\ imported' = taken /\ untold' = IF says THEN {} ELSE taken
          /\ Becomes(q, [q EXCEPT !.phase = "wrote", !.ok = TRUE,
                                  !.told = IF says THEN taken ELSE {}])
          /\ UNCHANGED <<created, explained>>
    BY DEF Write
  <2> PICK told : told = IF says THEN taken ELSE {}
    OBVIOUS
  <2>2. told = imported' \ untold' /\ told \subseteq q.rows
    BY <2>1
  <2> QED
    BY <2>1, <2>2
<1>3. UNCHANGED <<panel, list, cache, edited, ticked>>
  BY DEF Write
<1> PICK w, phase, ok : /\ w = [q EXCEPT !.phase = phase, !.ok = ok, !.told = told]
                        /\ phase = "wrote" /\ ok = TRUE
  OBVIOUS
<1>4. TurnsInto(q, w)
  BY <1>2 DEF Becomes, TurnsInto
<1>5. /\ IsWrite(w) /\ w.key = q.key /\ w.rows = q.rows /\ w.phase = "wrote"
      /\ w.heard = q.heard /\ w.told = told
  <2>1. WriteIs(w, q, phase, q.heard, ok, told)
    <3>1. phase \in {"sent", "checked", "wrote", "done"} /\ ok \in BOOLEAN
      OBVIOUS
    <3> QED
      BY <1>1, <3>1, RequestTurns
  <2> QED
    BY <2>1 DEF WriteIs
<1>6. CrmTyped'
  BY <1>1, <1>2, <1>3, <1>4, <1>5, TypedMoves DEF CrmTyped
<1>7. FormsOK'
  BY <1>1, <1>2, <1>3, <1>4, <1>5, FormsSame DEF TurnsInto
<1>8. ImportOK'
  <2>1. q.key = "none" =>
          w.told \subseteq w.rows
          /\ (w.phase \in {"wrote", "done"} => w.told = imported' \ untold')
    BY <1>2, <1>5
  <2>2. q.key # "none" => UNCHANGED <<imported, untold>>
    BY <1>1
  <2> QED
    BY <1>3, <1>4, <1>5, <2>1, <2>2, PushMoves
<1> QED
  BY <1>6, <1>7, <1>8, Zenon DEF CrmInv

LEMMA StoreKeeps ==
  ASSUME CrmInv, NEW q \in requests, Store(q)
  PROVE  CrmInv'
<1>1. CrmTyped /\ FormsOK /\ ImportOK /\ IsWrite(q) /\ q.phase = "wrote"
  BY DEF CrmInv, CrmTyped, Store
<1>2. /\ UNCHANGED <<panel, list, created, imported, explained, untold, edited, ticked>>
      /\ Becomes(q, [q EXCEPT !.phase = "done"])
      /\ cache' = CASE q.key \in Keys /\ q.ok -> [cache EXCEPT ![q.key] = "ok"]
                    [] q.key = "company" /\ ~q.ok -> [cache EXCEPT ![q.key] = "failed"]
                    [] OTHER -> cache
  BY DEF Store, historyVars
<1> PICK w, phase : w = [q EXCEPT !.phase = phase] /\ phase = "done"
  OBVIOUS
<1>3. TurnsInto(q, w)
  BY <1>2 DEF Becomes, TurnsInto
<1>4. /\ IsWrite(w) /\ w.key = q.key /\ w.rows = q.rows /\ w.phase = "done"
      /\ w.heard = q.heard /\ w.ok = q.ok /\ w.told = q.told
  <2>1. WriteIs(w, q, phase, q.heard, q.ok, q.told)
    <3>1. phase \in {"sent", "checked", "wrote", "done"} /\ q.ok \in BOOLEAN
      BY <1>1 DEF IsWrite
    <3> QED
      BY <1>1, <3>1, RequestTurns
  <2> QED
    BY <2>1 DEF WriteIs
<1>5. /\ cache' \in [Keys -> {"none", "ok", "failed"}]
      /\ \A k \in Keys : k # q.key => cache'[k] = cache[k]
      /\ q.key \in Keys => \/ cache'[q.key] \in {"ok", "failed"}
                           \/ cache'[q.key] = cache[q.key] /\ ~q.ok
  <2>1. cache \in [Keys -> {"none", "ok", "failed"}]
    BY <1>1 DEF CrmTyped
  <2>2. CASE q.key \in Keys /\ q.ok
    <3>1. cache' = [cache EXCEPT ![q.key] = "ok"]
      BY <1>2, <2>2
    <3> QED
      BY <2>1, <2>2, <3>1
  <2>3. CASE q.key = "company" /\ ~q.ok
    <3>1. cache' = [cache EXCEPT ![q.key] = "failed"]
      BY <1>2, <2>3
    <3> QED
      BY <2>1, <2>3, <3>1
  <2>4. CASE ~(q.key \in Keys /\ q.ok) /\ ~(q.key = "company" /\ ~q.ok)
    <3>1. cache' = cache
      BY <1>2, <2>4
    <3> QED
      BY <2>1, <2>4, <3>1
  <2> QED
    BY <2>2, <2>3, <2>4
<1>6. CrmTyped'
  BY <1>1, <1>2, <1>3, <1>4, <1>5, TypedMoves DEF CrmTyped
<1>7. FormsOK'
  <2>1. ASSUME q.key \in Keys
        PROVE  IF cache'[q.key] = "none"
               THEN created[q.key] + Cardinality(Pending(q.key)') + Cardinality(Past(q.key)')
                      <= explained[q.key] + IF panel.busy THEN 1 ELSE 0
               ELSE created[q.key] + Cardinality(Certain(q.key)') <= 1 + explained[q.key]
    <3> PICK k \in Keys : k = q.key
      BY <2>1
    <3> PICK P, P1, C, C1, O, O1 :
          /\ P = Pending(k) /\ P1 = Pending(k)' /\ C = Certain(k) /\ C1 = Certain(k)'
          /\ O = Past(k) /\ O1 = Past(k)'
      OBVIOUS
    <3>1. /\ IsFiniteSet(P) /\ IsFiniteSet(C) /\ IsFiniteSet(O)
          /\ Cardinality(P) \in Nat /\ Cardinality(C) \in Nat /\ Cardinality(O) \in Nat
          /\ created[k] \in Nat /\ explained[k] \in Nat
      BY <1>1, FewWrites DEF CrmTyped
    <3>2. P1 \subseteq P /\ C1 \subseteq C /\ C1 \subseteq P
      BY <1>1, <1>3, <1>4 DEF Pending, Certain, TurnsInto
    <3>3. Cardinality(P1) <= Cardinality(P) /\ Cardinality(P1) \in Nat
      BY <3>1, <3>2, NoMore
    <3>4. /\ Cardinality(C1) <= Cardinality(C) /\ Cardinality(C1) <= Cardinality(P)
          /\ Cardinality(C1) \in Nat
      BY <3>1, <3>2, NoMore
    <3> PICK c, e : c = created[k] /\ e = explained[k]
      OBVIOUS
    <3>5. CASE cache'[k] = "none"
      <4>1. cache[k] = "none" /\ ~q.ok
        BY <1>5, <3>5
      <4>2. (q \in O /\ O1 \subseteq (O \ {q}) \cup {w}) \/ O1 \subseteq O
        <5>1. CASE q.heard
          BY <1>1, <1>3, <1>4, <4>1, <5>1 DEF Past, TurnsInto
        <5>2. CASE ~q.heard
          BY <1>3, <1>4, <5>2 DEF Past, TurnsInto
        <5> QED
          BY <5>1, <5>2
      <4>3. Cardinality(O1) <= Cardinality(O) /\ Cardinality(O1) \in Nat
        BY <3>1, <4>2, OneForOne, NoMore
      <4>4. c + Cardinality(P) + Cardinality(O) <= e + IF panel.busy THEN 1 ELSE 0
        BY <1>1, <4>1 DEF FormsOK
      <4>5. c + Cardinality(P1) + Cardinality(O1) <= e + IF panel.busy THEN 1 ELSE 0
        BY <3>1, <3>3, <4>3, <4>4
      <4> QED
        BY <3>5, <4>5
    <3>6. CASE cache'[k] # "none"
      <4>1. c + Cardinality(C1) <= 1 + e
        <5>1. CASE cache[k] = "none"
          <6>1. c + Cardinality(P) + Cardinality(O) <= e + IF panel.busy THEN 1 ELSE 0
            BY <1>1, <5>1 DEF FormsOK
          <6> QED
            BY <3>1, <3>4, <6>1
        <5>2. CASE cache[k] # "none"
          <6>1. c + Cardinality(C) <= 1 + e
            BY <1>1, <5>2 DEF FormsOK
          <6> QED
            BY <3>1, <3>4, <6>1
        <5> QED
          BY <5>1, <5>2
      <4> QED
        BY <3>6, <4>1
    <3> QED
      BY <3>5, <3>6
  <2>2. panel.busy => \E p \in requests' : p.key \in Keys /\ p.heard
    BY <1>1, <1>3, <1>4, StillHeard
  <2> QED
    BY <1>2, <1>3, <1>4, <1>5, <2>1, <2>2, FormMoves
<1>8. ImportOK'
  <2>1. q.key = "none" =>
          w.told \subseteq w.rows
          /\ (w.phase \in {"wrote", "done"} => w.told = imported' \ untold')
    BY <1>1, <1>2, <1>4 DEF ImportOK, PushOK
  <2> QED
    BY <1>2, <1>3, <1>4, <2>1, PushMoves
<1> QED
  BY <1>6, <1>7, <1>8, Zenon DEF CrmInv

(* A heard request of a form is gone, or is heard no more, and the lock is *)
(* open: it was past for the other form, and for its own when it is done.  *)
LEMMA LockOpens ==
  ASSUME CrmInv, NEW q \in requests, q.key \in Keys, q.heard, ~panel'.busy,
         NEW w,
         \/ TurnsInto(q, w) /\ w.key = q.key /\ w.phase = q.phase /\ ~w.heard
              /\ explained' = [explained EXCEPT ![q.key] = @ + 1]
         \/ requests' = requests \ {q} /\ q.phase = "done" /\ explained' = explained,
         UNCHANGED <<created, cache>>
  PROVE  FormsOK' /\ explained' \in [Keys -> Nat]
<1>1. CrmTyped /\ FormsOK
  BY DEF CrmInv
<1>2. /\ \A k \in Keys : created[k] \in Nat /\ explained[k] \in Nat /\ explained'[k] \in Nat
      /\ explained' \in [Keys -> Nat]
      /\ \A k \in Keys : explained'[k] >= explained[k]
      /\ explained'[q.key] = explained[q.key] + 1
           \/ (requests' = requests \ {q} /\ q.phase = "done")
  BY <1>1 DEF CrmTyped
<1>3. ASSUME NEW k \in Keys
      PROVE  IF cache[k] = "none"
             THEN created[k] + Cardinality(Pending(k)') + Cardinality(Past(k)') <= explained'[k]
             ELSE created[k] + Cardinality(Certain(k)') <= 1 + explained'[k]
  <2> PICK P, P1, C, C1, O, O1 :
        /\ P = Pending(k) /\ P1 = Pending(k)' /\ C = Certain(k) /\ C1 = Certain(k)'
        /\ O = Past(k) /\ O1 = Past(k)'
    OBVIOUS
  <2>1. /\ IsFiniteSet(P) /\ IsFiniteSet(C) /\ IsFiniteSet(O)
        /\ Cardinality(P) \in Nat /\ Cardinality(C) \in Nat /\ Cardinality(O) \in Nat
    BY <1>1, FewWrites
  <2> PICK c, e, e1 : c = created[k] /\ e = explained[k] /\ e1 = explained'[k]
    OBVIOUS
  <2>2. c \in Nat /\ e \in Nat /\ e1 \in Nat /\ e1 >= e
    BY <1>2
  <2>3. IF cache[k] = "none"
        THEN c + Cardinality(P) + Cardinality(O) <= e + IF panel.busy THEN 1 ELSE 0
        ELSE c + Cardinality(C) <= 1 + e
    BY <1>1 DEF FormsOK
  <2>4. /\ P1 \subseteq P \/ (q \in P /\ P1 \subseteq (P \ {q}) \cup {w})
        /\ C1 \subseteq C \/ (q \in C /\ C1 \subseteq (C \ {q}) \cup {w})
    BY DEF Pending, Certain, TurnsInto
  <2>5. Cardinality(P1) <= Cardinality(P) /\ Cardinality(P1) \in Nat
    <3>1. CASE P1 \subseteq P
      BY <2>1, <3>1, NoMore
    <3>2. CASE q \in P /\ P1 \subseteq (P \ {q}) \cup {w}
      BY <2>1, <3>2, OneForOne
    <3> QED
      BY <2>4, <3>1, <3>2
  <2>6. Cardinality(C1) <= Cardinality(C) /\ Cardinality(C1) \in Nat
    <3>1. CASE C1 \subseteq C
      BY <2>1, <3>1, NoMore
    <3>2. CASE q \in C /\ C1 \subseteq (C \ {q}) \cup {w}
      BY <2>1, <3>2, OneForOne
    <3> QED
      BY <2>4, <3>1, <3>2
  <2>7. O1 \subseteq O
    BY DEF Past, TurnsInto
  <2>8. Cardinality(O1) <= Cardinality(O) /\ Cardinality(O1) \in Nat
    BY <2>1, <2>7, NoMore
  <2>9. (k = q.key /\ e1 = e + 1) \/ (q \in O /\ O1 \subseteq O \ {q})
    BY <1>2 DEF Past, TurnsInto
  <2>10. q \in O /\ O1 \subseteq O \ {q} => Cardinality(O1) <= Cardinality(O) - 1
    BY <2>1, OneLess
  <2>11. IF cache[k] = "none"
         THEN c + Cardinality(P1) + Cardinality(O1) <= e1
         ELSE c + Cardinality(C1) <= 1 + e1
    <3>1. CASE cache[k] = "none"
      <4>1. c + Cardinality(P) + Cardinality(O) <= e + 1
        BY <2>1, <2>2, <2>3, <3>1
      <4>2. e1 = e + 1 \/ Cardinality(O1) <= Cardinality(O) - 1
        BY <2>9, <2>10
      <4>3. c + Cardinality(P1) + Cardinality(O1) <= e1
        BY <2>1, <2>2, <2>5, <2>8, <4>1, <4>2
      <4> QED
        BY <3>1, <4>3
    <3>2. CASE cache[k] # "none"
      <4>1. c + Cardinality(C) <= 1 + e
        BY <2>3, <3>2
      <4>2. c + Cardinality(C1) <= 1 + e1
        BY <2>1, <2>2, <2>6, <4>1
      <4> QED
        BY <3>2, <4>2
    <3> QED
      BY <3>1, <3>2
  <2> QED
    BY <2>11
<1>4. FormsOK'
  <2>1. \A k \in Keys : explained'[k] + 0 = explained'[k]
    BY <1>2
  <2> QED
    BY <1>3, <2>1 DEF FormsOK
<1> QED
  BY <1>2, <1>4

LEMMA LoseConnectionKeeps ==
  ASSUME CrmInv, NEW q \in requests, LoseConnection(q)
  PROVE  CrmInv'
<1>1. CrmTyped /\ FormsOK /\ ImportOK /\ IsWrite(q) /\ q.heard /\ q.key \in Keys
  BY DEF CrmInv, CrmTyped, LoseConnection
<1>2. /\ UNCHANGED <<list, cache, created, imported, untold, edited, ticked>>
      /\ Becomes(q, [q EXCEPT !.heard = FALSE])
      /\ panel' = [panel EXCEPT !.busy = FALSE, !.result = "error"]
      /\ explained' = [explained EXCEPT ![q.key] = @ + 1]
  BY DEF LoseConnection, backendVars
<1> PICK w : w = [q EXCEPT !.heard = FALSE]
  OBVIOUS
<1>3. TurnsInto(q, w)
  BY <1>2 DEF Becomes, TurnsInto
<1>4. /\ IsWrite(w) /\ w.key = q.key /\ w.phase = q.phase /\ ~w.heard
  BY <1>1, Unhearing DEF Unheard1
<1>5. IsPanel(panel') /\ ~panel'.busy
  <2> PICK b \in BOOLEAN : b = FALSE
    OBVIOUS
  <2>1. PanelIs(panel', b)
    BY <1>1, <1>2, PanelSays DEF CrmTyped
  <2> QED
    BY <2>1 DEF PanelIs
<1>6. FormsOK' /\ explained' \in [Keys -> Nat]
  BY <1>1, <1>2, <1>3, <1>4, <1>5, LockOpens
<1>7. CrmTyped'
  BY <1>1, <1>2, <1>3, <1>4, <1>5, <1>6, TypedMoves DEF CrmTyped
<1>8. ImportOK'
  <2>1. \A p \in requests' : p.key = "none" => p \in requests
    BY <1>1, <1>3, <1>4 DEF TurnsInto, Keys
  <2> QED
    BY <1>2, <2>1, ImportStays
<1> QED
  BY <1>6, <1>7, <1>8, Zenon DEF CrmInv

LEMMA ToldKeeps ==
  ASSUME CrmInv, NEW q \in requests, Told(q)
  PROVE  CrmInv'
<1>1. /\ CrmTyped /\ FormsOK /\ ImportOK /\ IsWrite(q)
      /\ q.key \in Keys /\ q.phase = "done" /\ requests' = requests \ {q}
      /\ UNCHANGED <<list, cache, created, imported, explained, untold, edited, ticked>>
  BY DEF CrmInv, CrmTyped, Told, backendVars, historyVars
<1>2. IsPanel(panel') /\ FormsOK'
  <2>1. CASE q.heard
    <3>1. PICK m, r : panel' = [panel EXCEPT !.busy = FALSE, !.mode = m, !.result = r]
      <4>1. panel' = [panel EXCEPT !.busy = FALSE,
                        !.mode = IF q.ok THEN "closed" ELSE panel.mode,
                        !.result = IF q.ok THEN "created" ELSE "error"]
        BY <2>1 DEF Told
      <4> QED
        BY <4>1
    <3>2. IsPanel(panel') /\ ~panel'.busy
      <4> PICK b \in BOOLEAN : b = FALSE
        OBVIOUS
      <4>1. PanelIs(panel', b)
        BY <1>1, <3>1, PanelSays DEF CrmTyped
      <4> QED
        BY <4>1 DEF PanelIs
    <3>3. FormsOK'
      BY <1>1, <2>1, <3>2, LockOpens
    <3> QED
      BY <3>2, <3>3
  <2>2. CASE ~q.heard
    <3>1. panel' = panel
      BY <2>2 DEF Told
    <3>2. panel.busy => \E p \in requests' : p.key \in Keys /\ p.heard
      BY <1>1, <2>2 DEF FormsOK
    <3>3. ASSUME NEW k \in Keys, k = q.key
          PROVE  IF cache[k] = "none"
                 THEN created[k] + Cardinality(Pending(k)') + Cardinality(Past(k)')
                        <= explained[k] + IF panel.busy THEN 1 ELSE 0
                 ELSE created[k] + Cardinality(Certain(k)') <= 1 + explained[k]
      <4>1. Pending(k)' = Pending(k) /\ Certain(k)' = Certain(k) /\ Past(k)' = Past(k)
        BY <1>1, <2>2 DEF Pending, Certain, Past
      <4> QED
        BY <1>1, <4>1 DEF FormsOK
    <3>4. FormsOK'
      BY <1>1, <3>1, <3>2, <3>3, FormMoves
    <3> QED
      BY <1>1, <3>1, <3>4 DEF CrmTyped
  <2> QED
    BY <2>1, <2>2
<1>3. CrmTyped'
  <2>1. IsFiniteSet(requests')
    BY <1>1, FS_RemoveElement DEF CrmTyped
  <2> QED
    BY <1>1, <1>2, <2>1 DEF CrmTyped
<1>4. ImportOK'
  BY <1>1, ImportStays
<1> QED
  BY <1>2, <1>3, <1>4, Zenon DEF CrmInv

LEMMA PushEnds ==
  ASSUME CrmInv, NEW q \in requests, PushTold(q) \/ PushFailed(q)
  PROVE  CrmInv'
<1>1. /\ CrmTyped /\ FormsOK /\ ImportOK /\ IsWrite(q) /\ IsModal(list)
      /\ q.key = "none" /\ requests' = requests \ {q}
      /\ UNCHANGED <<panel, cache, created, explained, ticked>>
  BY DEF CrmInv, CrmTyped, PushTold, PushFailed, IsWrite, backendVars, historyVars
<1>2. PushOK(q) /\ \A p \in requests' : p.key # "none"
  BY <1>1 DEF ImportOK, PushOK
<1>3. FormsOK'
  BY <1>1, FormsSame DEF Keys
<1>4. IsModal(list') /\ ImportOK'
  <2>1. CASE PushFailed(q)
    <3> PICK b : b = FALSE
      OBVIOUS
    <3>1. list' = [list EXCEPT !.pushing = b]
      BY <2>1 DEF PushFailed
    <3>2. Modal(list', list.step, list.class, list.excluded, b, list.answer)
      BY <1>1, <3>1, ModalTurns
    <3>3. /\ IsModal(list') /\ list'.step = list.step /\ list'.class = list.class
          /\ list'.excluded = list.excluded
      BY <1>1, <3>2 DEF Modal, IsModal
    <3>4. list.step # "results"
      BY <1>2 DEF PushOK
    <3> QED
      BY <1>1, <1>2, <3>3, <3>4 DEF ImportOK
  <2>2. CASE PushTold(q)
    <3> PICK b, s, a : /\ b = FALSE /\ s = "results"
                       /\ a = [r \in ListRows |-> IF r \in q.told THEN "succeeded" ELSE "failed"]
      OBVIOUS
    <3>1. /\ list' = [list EXCEPT !.pushing = b, !.step = s, !.answer = a]
          /\ UNCHANGED <<imported, untold, edited>> /\ q.phase = "done"
      BY <2>2 DEF PushTold, backendVars, historyVars
    <3>2. Modal(list', s, list.class, list.excluded, b, a)
      BY <1>1, <3>1, ModalTurns
    <3>3. /\ IsModal(list') /\ list'.step = s /\ list'.class = list.class
          /\ list'.excluded = list.excluded /\ list'.answer = a
      BY <1>1, <3>2 DEF Modal, IsModal
    <3>4. ASSUME ~edited, NEW r \in ListRows
          PROVE  r \in imported \ untold <=> Label(r)' = "succeeded"
      <4>1. imported \ untold = q.told /\ q.told \subseteq q.rows
        BY <1>2, <3>1 DEF PushOK
      <4>2. r \in q.rows => r \notin list.excluded /\ list.class[r] # "missing"
        BY <1>2, <3>4 DEF PushOK
      <4>3. Label(r)' = IF list.class[r] = "missing" THEN "missing"
                        ELSE IF r \in list.excluded THEN "skipped" ELSE a[r]
        BY <3>3 DEF Label
      <4> QED
        BY <4>1, <4>2, <4>3
    <3> QED
      BY <1>2, <3>1, <3>3, <3>4 DEF ImportOK
  <2> QED
    BY <2>1, <2>2
<1>5. CrmTyped'
  <2>1. IsFiniteSet(requests')
    BY <1>1, FS_RemoveElement DEF CrmTyped
  <2> QED
    BY <1>1, <1>4, <2>1 DEF CrmTyped
<1> QED
  BY <1>3, <1>4, <1>5, Zenon DEF CrmInv

LEMMA RestartApiKeeps ==
  ASSUME CrmInv, RestartApi
  PROVE  CrmInv'
<1>1. /\ CrmTyped /\ FormsOK /\ ImportOK /\ IsModal(list)
      /\ requests' = {} /\ cache' = [k \in Keys |-> "none"]
      /\ explained' = [k \in Keys |-> IF created[k] > 0 THEN explained[k] + 1 ELSE explained[k]]
      /\ list' = [list EXCEPT !.pushing = FALSE]
      /\ UNCHANGED <<created, imported, untold, edited, ticked>>
  BY DEF CrmInv, CrmTyped, RestartApi
<1>2. /\ IsModal(list') /\ list'.step = list.step /\ list'.class = list.class
      /\ list'.excluded = list.excluded /\ list'.answer = list.answer
  <2> PICK b : b = FALSE
    OBVIOUS
  <2>1. Modal(list', list.step, list.class, list.excluded, b, list.answer)
    BY <1>1, ModalTurns
  <2> QED
    BY <1>1, <2>1 DEF Modal, IsModal
<1>3. IsPanel(panel') /\ ~panel'.busy
  <2>1. CASE \E q \in requests : q.key \in Keys /\ q.heard
    <3> PICK b \in BOOLEAN : b = FALSE
      OBVIOUS
    <3>1. panel' = [panel EXCEPT !.busy = b, !.result = "error"]
      BY <2>1 DEF RestartApi
    <3>2. PanelIs(panel', b)
      BY <1>1, <3>1, PanelSays DEF CrmTyped
    <3> QED
      BY <3>2 DEF PanelIs
  <2>2. CASE ~\E q \in requests : q.key \in Keys /\ q.heard
    BY <1>1, <2>2 DEF RestartApi, CrmTyped, FormsOK
  <2> QED
    BY <2>1, <2>2
<1>4. \A k \in Keys : created[k] \in Nat /\ explained[k] \in Nat /\ created[k] <= 1 + explained[k]
  BY <1>1, CrmInvEnough DEF CrmTyped, WritesAsReviewed, WrittenOnce
<1>5. CrmTyped'
  BY <1>1, <1>2, <1>3, <1>4, FS_EmptySet DEF CrmTyped
<1>6. FormsOK'
  <2>1. \A k \in Keys : Pending(k)' = {} /\ Past(k)' = {}
    BY <1>1 DEF Pending, Past
  <2>2. \A k \in Keys : Cardinality(Pending(k)') = 0 /\ Cardinality(Past(k)') = 0
    BY <2>1, FS_EmptySet
  <2>3. \A k \in Keys : created[k] <= explained'[k]
    BY <1>1, <1>4
  <2>4. \A k \in Keys : created[k] + 0 + 0 <= explained'[k] + 0
    <3>1. \A k \in Keys : explained'[k] \in Nat
      BY <1>5 DEF CrmTyped
    <3> QED
      BY <1>4, <2>3, <3>1
  <2> QED
    BY <1>1, <1>3, <2>2, <2>4 DEF FormsOK
<1>7. ImportOK'
  BY <1>1, <1>2 DEF ImportOK, Label
<1> QED
  BY <1>5, <1>6, <1>7, Zenon DEF CrmInv

LEMMA CrmStays == ASSUME CrmInv, UNCHANGED crmVars PROVE CrmInv'
<1>1. UNCHANGED <<panel, list, requests, cache, created, imported, explained, untold,
                  edited, ticked>>
  BY DEF crmVars
<1>2. IsModal(list') /\ ImportOK'
  BY <1>1, ImportStays DEF CrmInv, CrmTyped
<1> QED
  BY <1>1, <1>2, OnlyList

LEMMA CrmGoesOn == ASSUME CrmInv, CrmNext PROVE CrmInv'
<1>1. ASSUME NEW q \in requests, Write(q) PROVE CrmInv'
  BY <1>1, WriteFormKeeps, WriteImportKeeps
<1>2. CASE CrmServeNext
  BY <1>1, <1>2, CheckKeyKeeps, StoreKeeps, ToldKeeps, PushEnds DEF CrmServeNext
<1>3. CASE CrmMishapNext
  BY <1>3, RestartApiKeeps, LoseConnectionKeeps, PushEnds DEF CrmMishapNext
<1> QED
  BY <1>2, <1>3, PanelSteps, ImportSteps DEF CrmNext

(* A form makes one record in HubSpot and one more for each mishap that    *)
(* explains it, however requests, answers, resets, lost connections and    *)
(* restarts of the API fall between each other; and of a list, what is     *)
(* pushed and what is told is what the user has reviewed                   *)
(* (CrmWriteActions.tsx, ImportListModal.tsx, crm_list_idempotency).       *)
THEOREM WritesAlwaysReviewed == CrmSpec => []WritesAsReviewed
<1>1. CrmInv /\ [CrmNext]_crmVars => CrmInv'
  BY CrmGoesOn, CrmStays
<1> QED
  BY <1>1, CrmBegins, CrmInvEnough, PTL DEF CrmSpec
-----------------------------------------------------------------------------
(* The demo's portal.  What a company may have become: one that the        *)
(* fallback made keeps its two domains alike, one that the cleanup takes   *)
(* is none that a row is written to.                                       *)
Spare(c) == c.domain \in Known \/ c.by = "adopted"

IsCompany(c) ==
  c = [domain |-> c.domain, btx |-> c.btx, named |-> c.named, live |-> c.live, by |-> c.by]

CompanyOK(c, unique) ==
  /\ IsCompany(c)
  /\ c.live \in BOOLEAN
  /\ c.btx \in Rows => c.domain = c.btx /\ c.by = "seed"
  /\ c.btx \in Known => c.domain = "fake"
  /\ ~c.live => Spare(c)
  /\ c.by = "adopted" => c.domain = "other"
  /\ c.by = "seed" => c.domain \in Rows /\ (~unique => c.btx = c.domain)

(* The company of a row that the seed has made comes before every other    *)
(* of the row that it could have found.                                    *)
MadeFirst(all, unique) ==
  \A i, j \in DOMAIN all :
    all[i].by = "seed" /\ all[j].domain = all[i].domain /\ (unique \/ all[j].by = "seed")
      => i <= j

(* The record that an upsert would take for the row.                       *)
Holds(i, d) ==
  /\ i \in DOMAIN companies
  /\ companies[i].domain = d
  /\ ~portal.uniqueDomain => companies[i].btx = d

(* Where the seed is.                                                      *)
Upserted ==
  {"contact", "deal", "readContact", "linkContact", "readDeal", "linkDeal",
   "verifyCompanies", "verifyContact", "verifyDeal", "done"}

Counting == {"verifyContact", "verifyDeal", "done"}

OneEach ==
  \A i \in DOMAIN companies : companies[i].domain \in Rows =>
    /\ companies[i].named
    /\ \A j \in DOMAIN companies : companies[j].domain = companies[i].domain => i = j

SeedOK(p) ==
  LET s == seed[p] IN
  /\ s = [pc |-> s.pc, starts |-> s.starts, company |-> s.company, missing |-> s.missing]
  /\ s.pc = "fallback" => ~portal.uniqueDomain
  /\ s.pc \in Upserted =>
       Holds(s.company, Account) /\ \A d \in Rows : \E i \in Nat : Holds(i, d)
  /\ s.pc \in Counting /\ ~meddled[p] => OneEach
  /\ s.pc \in {"verifyDeal", "done"} /\ ~meddled[p] => LinkedTo("contact") = {s.company}
  /\ s.pc = "done" /\ ~meddled[p] => LinkedTo("deal") = {s.company}

SweepOK(p) ==
  /\ sweep[p] = [pc |-> sweep[p].pc, starts |-> sweep[p].starts,
                 targets |-> sweep[p].targets, old |-> sweep[p].old]
  /\ \A t \in sweep[p].targets : t \in DOMAIN companies /\ Spare(companies[t])

PortalTyped ==
  /\ IsSequence(companies)
  /\ seed = [p \in Seeds |-> seed[p]]
  /\ meddled = [p \in Seeds |-> meddled[p]]
  /\ sweep = [p \in Sweeps |-> sweep[p]]
  /\ portal.uniqueDomain \in BOOLEAN

CompaniesOK ==
  /\ \A i \in DOMAIN companies : CompanyOK(companies[i], portal.uniqueDomain)
  /\ MadeFirst(companies, portal.uniqueDomain)

PortalInv ==
  /\ PortalTyped
  /\ CompaniesOK
  /\ \A l \in links : l[2] \in Live
  /\ \A p \in Seeds : SeedOK(p)
  /\ \A p \in Sweeps : SweepOK(p)

LEMMA StepsInOrder ==
  /\ After("companies") = "fallback"
  /\ After("contact") = "deal" /\ After("deal") = "readContact"
  /\ After("readContact") = "linkContact" /\ After("linkContact") = "readDeal"
  /\ After("readDeal") = "linkDeal" /\ After("linkDeal") = "verifyCompanies"
  /\ After("verifyCompanies") = "verifyContact" /\ After("verifyContact") = "verifyDeal"
  /\ After("verifyDeal") = "done"
<1>1. DOMAIN SeedSteps = 1..13
  BY DEF SeedSteps
<1>2. ASSUME NEW k \in 1..13, NEW step, SeedSteps[k] = step,
             \A j \in 1..13 : SeedSteps[j] = step => j = k
      PROVE  After(step) = SeedSteps[1 + k]
  <2>1. k = CHOOSE j \in DOMAIN SeedSteps : SeedSteps[j] = step
    BY <1>1, <1>2
  <2> QED
    BY <2>1 DEF After
<1>3. \A j, k \in 1..13 : SeedSteps[j] = SeedSteps[k] => j = k
  BY DEF SeedSteps
<1>4. \A k \in 1..12 : After(SeedSteps[k]) = SeedSteps[1 + k]
  BY <1>2, <1>3
<1> QED
  BY <1>4 DEF SeedSteps

(* What a step may do to the companies without undoing what the seed did.  *)
RowsStay ==
  /\ portal' = portal
  /\ \A i \in DOMAIN companies :
       /\ i \in DOMAIN companies'
       /\ companies'[i].btx = companies[i].btx
       /\ companies[i].domain \in Rows => companies'[i].domain = companies[i].domain

(* What it may not do while a seed counts, unless that is meddling.        *)
Undisturbed(p) ==
  /\ meddled'[p] = meddled[p]
  /\ OneEach => OneEach'
  /\ \A object \in Seeded : OneEach /\ LinkedTo(object) = {seed[p].company}
       => LinkedTo(object)' = {seed[p].company}

LEMMA HoldsStays ==
  ASSUME RowsStay, NEW i, NEW d \in Rows, Holds(i, d)
  PROVE  Holds(i, d)'
BY DEF RowsStay, Holds

LEMMA SeedStays ==
  ASSUME NEW p, SeedOK(p), RowsStay, seed'[p] = seed[p],
         seed[p].pc \in Counting => meddled'[p] = TRUE \/ Undisturbed(p)
  PROVE  SeedOK(p)'
<1>1. PICK s : s = seed[p]
  OBVIOUS
<1>2. /\ s = [pc |-> s.pc, starts |-> s.starts, company |-> s.company, missing |-> s.missing]
      /\ s.pc = "fallback" => ~portal'.uniqueDomain
  BY <1>1 DEF SeedOK, RowsStay
<1>3. s.pc \in Upserted =>
        Holds(s.company, Account)' /\ \A d \in Rows : \E i \in Nat : Holds(i, d)'
  BY <1>1, HoldsStays, PortalAssumption DEF SeedOK
<1>4. /\ s.pc \in Counting /\ ~meddled'[p] => OneEach'
      /\ s.pc \in {"verifyDeal", "done"} /\ ~meddled'[p] => LinkedTo("contact")' = {s.company}
      /\ s.pc = "done" /\ ~meddled'[p] => LinkedTo("deal")' = {s.company}
  <2>1. CASE s.pc \in Counting /\ ~meddled'[p]
    <3>1. Undisturbed(p) /\ ~meddled[p] /\ OneEach
      BY <2>1, <1>1 DEF SeedOK, Undisturbed
    <3>2. "contact" \in Seeded /\ "deal" \in Seeded
      BY DEF Seeded
    <3> QED
      BY <3>1, <3>2, <1>1 DEF SeedOK, Undisturbed
  <2>2. CASE ~(s.pc \in Counting /\ ~meddled'[p])
    BY <2>2 DEF Counting
  <2> QED
    BY <2>1, <2>2
<1> QED
  BY <1>1, <1>2, <1>3, <1>4, Zenon DEF SeedOK

(* The rest of the portal, when the companies have moved.                  *)
LEMMA OthersStay ==
  ASSUME PortalInv, PortalTyped', CompaniesOK', \A l \in links' : l[2] \in Live',
         RowsStay, NEW q \in Seeds, SeedOK(q)', seed' = [seed EXCEPT ![q] = seed'[q]],
         \A p \in Seeds : p # q /\ seed[p].pc \in Counting
           => meddled'[p] = TRUE \/ Undisturbed(p),
         \A i \in DOMAIN companies : Spare(companies[i]) => Spare(companies'[i]),
         UNCHANGED sweep
  PROVE  PortalInv'
<1>1. ASSUME NEW p \in Seeds, p # q PROVE SeedOK(p)'
  <2>1. seed'[p] = seed[p]
    BY <1>1 DEF PortalInv, PortalTyped
  <2> QED
    BY <1>1, <2>1, SeedStays DEF PortalInv
<1>2. ASSUME NEW p \in Sweeps PROVE SweepOK(p)'
  BY DEF PortalInv, SweepOK, RowsStay
<1> QED
  BY <1>1, <1>2, Zenon DEF PortalInv

LEMMA QuietMoves ==
  ASSUME UNCHANGED <<companies, portal, links>>
  PROVE  /\ RowsStay
         /\ \A p : meddled'[p] = meddled[p] => Undisturbed(p)
         /\ UNCHANGED <<Live, OneEach>>
         /\ \A object : UNCHANGED LinkedTo(object)
<1>1. UNCHANGED <<Live, OneEach>> /\ \A object : UNCHANGED LinkedTo(object)
  BY DEF Live, OneEach, LinkedTo
<1> QED
  BY <1>1 DEF RowsStay, Undisturbed

(* A step of a seed that moves nothing but itself.                         *)
LEMMA SeedTurns ==
  ASSUME PortalInv, NEW q \in Seeds, NEW s,
         s = [pc |-> s.pc, starts |-> s.starts, company |-> s.company, missing |-> s.missing],
         seed' = [seed EXCEPT ![q] = s],
         meddled' = meddled \/ meddled' = [meddled EXCEPT ![q] = FALSE],
         UNCHANGED <<companies, links, portal, sweep>>,
         SeedOK(q)'
  PROVE  PortalInv'
<1>1. PortalTyped'
  BY DEF PortalInv, PortalTyped
<1>2. CompaniesOK' /\ \A l \in links' : l[2] \in Live'
  BY QuietMoves DEF PortalInv, CompaniesOK
<1>3. \A p \in Seeds : p # q => meddled'[p] = meddled[p]
  BY DEF PortalInv, PortalTyped
<1>4. seed'[q] = s
  BY DEF PortalInv, PortalTyped
<1> QED
  BY <1>1, <1>2, <1>3, <1>4, QuietMoves, OthersStay

(* A seed that goes from one step to the next.                             *)
LEMMA Advanced ==
  ASSUME PortalInv, NEW q \in Seeds, NEW x,
         \E missing : seed' = [seed EXCEPT ![q].pc = x, ![q].missing = missing]
           \/ seed' = [seed EXCEPT ![q].pc = x]
  PROVE  \E s : /\ s = [pc |-> s.pc, starts |-> s.starts, company |-> s.company,
                        missing |-> s.missing]
                /\ s.pc = x /\ s.company = seed[q].company
                /\ seed' = [seed EXCEPT ![q] = s] /\ seed'[q] = s
<1>1. PICK missing : seed' = [seed EXCEPT ![q].pc = x, ![q].missing = missing]
                       \/ seed' = [seed EXCEPT ![q].pc = x]
  OBVIOUS
<1>2. /\ seed[q] = [pc |-> seed[q].pc, starts |-> seed[q].starts,
                    company |-> seed[q].company, missing |-> seed[q].missing]
      /\ seed = [p \in Seeds |-> seed[p]]
  BY DEF PortalInv, PortalTyped, SeedOK
<1>3. CASE seed' = [seed EXCEPT ![q].pc = x, ![q].missing = missing]
  <2>1. PICK s : s = [seed[q] EXCEPT !.pc = x, !.missing = missing]
    OBVIOUS
  <2>2. seed' = [seed EXCEPT ![q] = s] /\ seed'[q] = s
    BY <2>1, <1>2, <1>3
  <2> QED
    BY <2>1, <2>2, <1>2
<1>4. CASE seed' = [seed EXCEPT ![q].pc = x]
  <2>1. PICK s : s = [seed[q] EXCEPT !.pc = x]
    OBVIOUS
  <2>2. seed' = [seed EXCEPT ![q] = s] /\ seed'[q] = s
    BY <2>1, <1>2, <1>4
  <2> QED
    BY <2>1, <2>2, <1>2
<1> QED
  BY <1>1, <1>3, <1>4

LEMMA SeedBegins ==
  ASSUME PortalInv, NEW q \in Seeds,
         \/ StartSeed(q) \/ StopSeed(q) \/ EnsureProperties(q)
  PROVE  PortalInv'
<1>1. PICK s : s = seed'[q]
  OBVIOUS
<1>2. /\ s = [pc |-> s.pc, starts |-> s.starts, company |-> s.company, missing |-> s.missing]
      /\ s.pc \in {"properties", "companies", "stopped"}
      /\ seed' = [seed EXCEPT ![q] = s]
  <2>1. CASE StartSeed(q) \/ StopSeed(q)
    BY <2>1, <1>1 DEF StartSeed, StopSeed, NoSeed, PortalInv, PortalTyped, SeedSteps
  <2>2. CASE EnsureProperties(q)
    <3>1. PICK x : /\ seed' = [seed EXCEPT ![q].pc = x]
                   /\ x \in {"companies", "stopped"}
      BY <2>2 DEF EnsureProperties
    <3> QED
      <4>1. \E missing : seed' = [seed EXCEPT ![q].pc = x, ![q].missing = missing]
                          \/ seed' = [seed EXCEPT ![q].pc = x]
        BY <3>1
      <4> QED
        BY <3>1, <4>1, <1>1, Advanced, ZenonT(60)
  <2> QED
    BY <2>1, <2>2
<1>3. SeedOK(q)'
  BY <1>1, <1>2 DEF SeedOK, Upserted, Counting
<1>4. /\ meddled' = meddled \/ meddled' = [meddled EXCEPT ![q] = FALSE]
      /\ UNCHANGED <<companies, links, portal, sweep>>
  BY DEF StartSeed, StopSeed, EnsureProperties
<1> QED
  BY <1>2, <1>3, <1>4, SeedTurns

LEMMA SeedRefused == ASSUME PortalInv, NEW q \in Seeds, CompaniesRefused(q) PROVE PortalInv'
<1>1. seed' = [seed EXCEPT ![q].pc = "fallback"] /\ ~portal.uniqueDomain
      /\ UNCHANGED <<companies, links, portal, sweep, meddled>>
  BY StepsInOrder DEF CompaniesRefused, At
<1>2. PICK s : /\ s = [pc |-> s.pc, starts |-> s.starts, company |-> s.company,
                       missing |-> s.missing]
               /\ s.pc = "fallback"
               /\ seed' = [seed EXCEPT ![q] = s] /\ seed'[q] = s
  BY <1>1, Advanced
<1>3. SeedOK(q)'
  BY <1>1, <1>2 DEF SeedOK, Upserted, Counting
<1> QED
  BY <1>1, <1>2, <1>3, SeedTurns

(* The steps between the companies and the counting.                       *)
LEMMA SeedAdvances ==
  ASSUME PortalInv, NEW q \in Seeds, NEW x \in Upserted \ Counting,
         seed[q].pc \in Upserted,
         \E missing : seed' = [seed EXCEPT ![q].pc = x, ![q].missing = missing]
           \/ seed' = [seed EXCEPT ![q].pc = x],
         UNCHANGED <<companies, links, portal, sweep, meddled>>
  PROVE  PortalInv'
<1>1. PICK s : /\ s = [pc |-> s.pc, starts |-> s.starts, company |-> s.company,
                       missing |-> s.missing]
               /\ s.pc = x /\ s.company = seed[q].company
               /\ seed' = [seed EXCEPT ![q] = s] /\ seed'[q] = s
  BY Advanced
<1>2. Holds(s.company, Account)' /\ \A d \in Rows : \E i \in Nat : Holds(i, d)'
  <2>1. Holds(s.company, Account) /\ \A d \in Rows : \E i \in Nat : Holds(i, d)
    BY <1>1 DEF PortalInv, SeedOK
  <2> QED
    BY <2>1, QuietMoves, HoldsStays, PortalAssumption
<1>3. x \notin Counting /\ x \notin {"fallback", "verifyDeal", "done"}
  BY DEF Upserted, Counting
<1>4. SeedOK(q)'
  BY <1>1, <1>2, <1>3, Zenon DEF SeedOK, Counting
<1> QED
  BY <1>1, <1>4, SeedTurns

(* A set in the order that SetToSeq gives it.                              *)
LEMMA Ordered ==
  ASSUME NEW S, IsFiniteSet(S)
  PROVE  \E n \in Nat : /\ SetToSeq(S) \in [1..n -> S]
                        /\ \A i, j \in 1..n : SetToSeq(S)[i] = SetToSeq(S)[j] => i = j
                        /\ \A d \in S : \E i \in 1..n : SetToSeq(S)[i] = d
<1>1. Cardinality(S) \in Nat /\ ExistsBijection(1..Cardinality(S), S)
  BY FS_CardinalityType
<1>2. PICK n \in Nat : n = Cardinality(S)
  BY <1>1
<1>3. PICK f : f \in Bijection(1..n, S)
  BY <1>1, <1>2 DEF ExistsBijection
<1>4. f \in [1..n -> S] /\ \A i, j \in 1..n : f[i] = f[j] => i = j
  BY <1>3 DEF Bijection, Injection, IsInjective
<1>5. \E g : g \in [1..n -> S] /\ IsInjective(g)
  BY <1>4 DEF IsInjective
<1>6. SetToSeq(S) \in [1..n -> S] /\ IsInjective(SetToSeq(S))
  BY <1>2, <1>5 DEF SetToSeq
<1>7. PICK g : g = SetToSeq(S)
  OBVIOUS
<1>8. g \in Injection(1..n, S)
  BY <1>6, <1>7 DEF Injection
<1>9. Cardinality(1..n) = Cardinality(S)
  BY <1>2, FS_Interval
<1>10. g \in Surjection(1..n, S)
  BY <1>8, <1>9, FS_Injection
<1>11. \A d \in S : \E i \in 1..n : g[i] = d
  BY <1>10 DEF Surjection
<1> QED
  BY <1>6, <1>7, <1>11 DEF IsInjective

(* What an upsert has made of the companies: those there were are what     *)
(* they were, but for a name, and for each row without a record there is   *)
(* one more.                                                               *)
Renamed(c, was) ==
  /\ IsCompany(c)
  /\ c.domain = was.domain /\ c.btx = was.btx /\ c.live = was.live /\ c.by = was.by
  /\ c.named = was.named \/ c.named = TRUE

SeedsRecord(d, idProperty) ==
  Company(d, IF idProperty = "domain" THEN "none" ELSE d, TRUE, "seed")

Grown(all, new, done, idProperty) ==
  /\ IsSequence(new) /\ Len(all) <= Len(new)
  /\ \A i \in DOMAIN all : Renamed(new[i], all[i])
  /\ \A i \in DOMAIN new \ DOMAIN all :
       \E d \in done : /\ Match(all, d, idProperty) = {}
                       /\ new[i] = SeedsRecord(d, idProperty)
  /\ \A i, j \in DOMAIN new \ DOMAIN all : new[i].domain = new[j].domain => i = j
  /\ \A d \in done : Match(new, d, idProperty) # {}

LEMMA Upserting ==
  ASSUME NEW all, NEW done \in SUBSET Rows, NEW idProperty \in {"domain", "btx_company_domain"},
         IsSequence(all),
         NEW unique, \A i \in DOMAIN all : CompanyOK(all[i], unique),
         NEW new, new = Upsert(all, done, idProperty)
  PROVE  Grown(all, new, done, idProperty)
<1> DEFINE Row(i) == IdOf(all[i], idProperty)
           Takes(i) == Row(i) \in done /\ i = CHOOSE j \in Match(all, Row(i), idProperty) : TRUE
           kept == [i \in DOMAIN all |->
                      IF all[i].live /\ Takes(i) THEN [all[i] EXCEPT !.domain = Row(i), !.named = TRUE]
                      ELSE all[i]]
           missing == {d \in done : Match(all, d, idProperty) = {}}
           added == MadeCompanies(all, done, idProperty)
<1>1. PICK S : all \in Seq(S)
  BY DEF IsSequence
<1>2. \A i \in DOMAIN all : Renamed(kept[i], all[i])
  <2> SUFFICES ASSUME NEW i \in DOMAIN all PROVE Renamed(kept[i], all[i])
    OBVIOUS
  <2>1. CompanyOK(all[i], unique)
    OBVIOUS
  <2>2. CASE all[i].live /\ Takes(i)
    <3>1. Row(i) = all[i].domain
      BY <2>1, <2>2 DEF CompanyOK, IdOf
    <3>2. kept[i] = [all[i] EXCEPT !.domain = Row(i), !.named = TRUE]
      BY <2>2
    <3> HIDE DEF Row, kept
    <3>3. kept[i] = [domain |-> Row(i), btx |-> all[i].btx, named |-> TRUE,
                     live |-> all[i].live, by |-> all[i].by]
      BY <2>1, <3>2 DEF CompanyOK, IsCompany
    <3> QED
      BY <3>1, <3>3 DEF Renamed, IsCompany
  <2>3. CASE ~(all[i].live /\ Takes(i))
    <3>1. kept[i] = all[i]
      BY <2>3
    <3> HIDE DEF kept
    <3> QED
      BY <2>1, <3>1 DEF CompanyOK, Renamed
  <2> QED
    BY <2>2, <2>3
<1>3. IsFiniteSet(missing)
  BY PortalAssumption, FS_Subset
<1>4. PICK n \in Nat : /\ SetToSeq(missing) \in [1..n -> missing]
                       /\ \A i, j \in 1..n : SetToSeq(missing)[i] = SetToSeq(missing)[j] => i = j
                       /\ \A d \in missing : \E i \in 1..n : SetToSeq(missing)[i] = d
  BY <1>3, Ordered
<1>5. added = [k \in 1..n |-> SeedsRecord(SetToSeq(missing)[k], idProperty)]
  BY <1>4 DEF MadeCompanies, SeedsRecord
<1>6. PICK order : order = SetToSeq(missing)
  OBVIOUS
<1> DEFINE grown == kept \o added
<1>7. new = grown
  BY DEF Upsert
<1>22. kept = [i \in DOMAIN all |-> kept[i]]
  OBVIOUS
<1> HIDE DEF Row, Takes, kept, missing, added
<1>8. DOMAIN kept = 1..Len(all) /\ Len(all) \in Nat /\ DOMAIN all = 1..Len(all)
  BY <1>1 DEF kept
<1>9. PICK T : /\ \A i \in DOMAIN all : kept[i] \in T
               /\ \A k \in 1..n : added[k] \in T
  <2> DEFINE U == {kept[i] : i \in DOMAIN all} \cup {added[k] : k \in 1..n}
  <2>1. /\ \A i \in DOMAIN all : kept[i] \in U
        /\ \A k \in 1..n : added[k] \in U
    OBVIOUS
  <2> QED
    BY <2>1
<1>10. kept \in Seq(T) /\ Len(kept) = Len(all)
  BY <1>8, <1>9, <1>22
<1>11. added \in Seq(T) /\ Len(added) = n
  BY <1>5, <1>9
<1>12. /\ grown \in Seq(T) /\ Len(grown) = Len(all) + n /\ DOMAIN grown = 1..(Len(all) + n)
       /\ \A i \in 1..Len(all) : i \in DOMAIN grown /\ grown[i] = kept[i]
       /\ \A i \in 1..n : Len(all) + i \in DOMAIN grown /\ grown[Len(all) + i] = added[i]
  <2>1. /\ grown \in Seq(T) /\ Len(grown) = Len(kept) + Len(added)
        /\ \A i \in 1..(Len(kept) + Len(added)) :
             grown[i] = IF i <= Len(kept) THEN kept[i] ELSE added[i - Len(kept)]
    BY <1>10, <1>11, ConcatProperties
  <2>2. Len(grown) = Len(all) + n /\ DOMAIN grown = 1..(Len(all) + n)
    BY <2>1, <1>10, <1>11
  <2> HIDE DEF grown
  <2>3. ASSUME NEW i \in 1..Len(all) PROVE i \in DOMAIN grown /\ grown[i] = kept[i]
    BY <2>1, <2>2, <1>8, <1>10, <1>11
  <2>4. ASSUME NEW i \in 1..n PROVE Len(all) + i \in DOMAIN grown /\ grown[Len(all) + i] = added[i]
    <3>1. PICK at : at = Len(all) + i
      OBVIOUS
    <3>2. at \in 1..(Len(all) + n) /\ ~(at <= Len(all)) /\ at - Len(all) = i
      BY <3>1, <1>8
    <3> QED
      BY <2>1, <2>2, <3>1, <3>2, <1>10, <1>11
  <2> QED
    BY <2>1, <2>2, <2>3, <2>4
<1> HIDE DEF grown
<1> USE <1>7
<1>13. \A k \in 1..n : added[k] = SeedsRecord(order[k], idProperty) /\ order[k] \in missing
  BY <1>4, <1>5, <1>6
<1>14. \A i \in DOMAIN new \ DOMAIN all : i - Len(all) \in 1..n /\ new[i] = added[i - Len(all)]
  BY <1>8, <1>12
<1>15. \A d : /\ SeedsRecord(d, idProperty).domain = d /\ SeedsRecord(d, idProperty).live = TRUE
              /\ IdOf(SeedsRecord(d, idProperty), idProperty) = d
  BY DEF SeedsRecord, Company, IdOf
<1>16. \A d \in missing : d \in done /\ Match(all, d, idProperty) = {}
  BY DEF missing
<1>17. \A i, j \in DOMAIN new \ DOMAIN all : new[i].domain = new[j].domain => i = j
  <2> SUFFICES ASSUME NEW i \in DOMAIN new \ DOMAIN all, NEW j \in DOMAIN new \ DOMAIN all,
                      new[i].domain = new[j].domain
               PROVE  i = j
    OBVIOUS
  <2>1. PICK k \in 1..n, l \in 1..n : k = i - Len(all) /\ l = j - Len(all)
    BY <1>14
  <2>2. new[i] = SeedsRecord(order[k], idProperty) /\ new[j] = SeedsRecord(order[l], idProperty)
    BY <1>13, <1>14, <2>1
  <2>3. order[k] = order[l]
    BY <1>15, <2>2
  <2>4. k = l
    BY <1>4, <1>6, <2>3
  <2> QED
    BY <1>8, <1>12, <2>1, <2>4
<1>19. \A i \in DOMAIN all : Renamed(new[i], all[i])
  BY <1>2, <1>8, <1>12
<1>18. ASSUME NEW d \in done PROVE Match(new, d, idProperty) # {}
  <2>1. CASE d \in missing
    <3>1. PICK k \in 1..n : order[k] = d
      BY <1>4, <1>6, <2>1
    <3>2. Len(all) + k \in DOMAIN new /\ new[Len(all) + k] = SeedsRecord(d, idProperty)
      BY <1>8, <1>12, <1>13, <3>1
    <3>3. Len(all) + k \in Match(new, d, idProperty)
      BY <1>15, <3>2 DEF Match
    <3> QED
      BY <3>3
  <2>2. CASE d \notin missing
    <3>1. PICK i : i \in Match(all, d, idProperty)
      BY <2>2 DEF missing
    <3>2. i \in DOMAIN all /\ all[i].live /\ IdOf(all[i], idProperty) = d
      BY <3>1 DEF Match
    <3>5. new[i].live = all[i].live /\ IdOf(new[i], idProperty) = IdOf(all[i], idProperty)
      BY <1>19, <3>2 DEF Renamed, IdOf
    <3>6. i \in DOMAIN new
      BY <1>8, <1>12, <3>2
    <3>7. i \in Match(new, d, idProperty)
      BY <3>2, <3>5, <3>6 DEF Match
    <3> QED
      BY <3>7
  <2> QED
    BY <2>1, <2>2
<1>20. \A i \in DOMAIN new \ DOMAIN all :
         \E d \in done : /\ Match(all, d, idProperty) = {}
                         /\ new[i] = SeedsRecord(d, idProperty)
  BY <1>13, <1>14, <1>16
<1>21. IsSequence(new) /\ Len(all) <= Len(new)
  BY <1>8, <1>12 DEF IsSequence
<1> QED
  BY <1>17, <1>18, <1>19, <1>20, <1>21 DEF Grown

LEMMA CreatedOK ==
  ASSUME NEW d \in Rows, NEW unique \in BOOLEAN, NEW btx,
         btx = IF unique THEN "none" ELSE d
  PROVE  CompanyOK(Company(d, btx, TRUE, "seed"), unique)
BY PortalAssumption DEF CompanyOK, IsCompany, Company, Spare, Known

(* No company of a row is archived, or becomes one that may be.            *)
LEMMA RowLives ==
  ASSUME NEW c, NEW unique, CompanyOK(c, unique), c.domain \in Rows
  PROVE  c.live = TRUE /\ ~Spare(c)
BY PortalAssumption DEF CompanyOK, Spare, Known

LEMMA HeldIsMatched ==
  ASSUME PortalInv, NEW i, NEW d \in Rows, Holds(i, d),
         NEW idProperty, idProperty = IF portal.uniqueDomain THEN "domain" ELSE "btx_company_domain"
  PROVE  i \in Match(companies, d, idProperty)
<1>1. companies[i].live = TRUE
  BY RowLives DEF Holds, PortalInv, CompaniesOK
<1> QED
  BY <1>1 DEF Holds, Match, IdOf

LEMMA MatchedIsHeld ==
  ASSUME CompaniesOK, NEW d \in Rows,
         NEW idProperty, idProperty = IF portal.uniqueDomain THEN "domain" ELSE "btx_company_domain",
         NEW i \in Match(companies, d, idProperty)
  PROVE  Holds(i, d)
BY DEF Holds, Match, IdOf, CompaniesOK, CompanyOK

LEMMA UpsertKeeps ==
  ASSUME PortalInv, NEW q \in Seeds, NEW idProperty, NEW done \in SUBSET Rows, NEW s,
         idProperty = IF portal.uniqueDomain THEN "domain" ELSE "btx_company_domain",
         companies' = Upsert(companies, done, idProperty),
         s = [pc |-> s.pc, starts |-> s.starts, company |-> s.company, missing |-> s.missing],
         s.pc = IF done = Rows THEN "contact" ELSE "stopped",
         done = Rows => s.company = CHOOSE i \in Match(companies', Account, idProperty) : TRUE,
         seed' = [seed EXCEPT ![q] = s],
         UNCHANGED <<links, portal, sweep, meddled>>
  PROVE  PortalInv'
<1>1. portal.uniqueDomain \in BOOLEAN
  BY DEF PortalInv, PortalTyped
<1>2. /\ idProperty = IF portal.uniqueDomain THEN "domain" ELSE "btx_company_domain"
      /\ companies' = Upsert(companies, done, idProperty)
      /\ UNCHANGED <<links, portal, sweep, meddled>>
  OBVIOUS
<1>3. /\ IsSequence(companies)
      /\ \A i \in DOMAIN companies : CompanyOK(companies[i], portal.uniqueDomain)
  BY DEF PortalInv, PortalTyped, CompaniesOK
<1>4. Grown(companies, companies', done, idProperty)
  <2>1. idProperty \in {"domain", "btx_company_domain"}
    BY <1>2
  <2> QED
    BY <1>2, <1>3, <2>1, Upserting
<1>5. DOMAIN companies = 1..Len(companies) /\ DOMAIN companies' = 1..Len(companies')
      /\ Len(companies) \in Nat /\ Len(companies') \in Nat
  BY <1>3, <1>4 DEF IsSequence, Grown
<1>6. ASSUME NEW i \in DOMAIN companies
      PROVE  /\ i \in DOMAIN companies'
             /\ IsCompany(companies'[i])
             /\ companies'[i].domain = companies[i].domain
             /\ companies'[i].btx = companies[i].btx
             /\ companies'[i].live = companies[i].live
             /\ companies'[i].by = companies[i].by
             /\ companies'[i].named = companies[i].named \/ companies'[i].named = TRUE
  <2>1. Renamed(companies'[i], companies[i])
    BY <1>4 DEF Grown
  <2>2. i \in DOMAIN companies'
    BY <1>4, <1>5 DEF Grown
  <2> QED
    BY <2>1, <2>2 DEF Renamed
<1>7. ASSUME NEW i \in DOMAIN companies' \ DOMAIN companies
      PROVE  /\ \E d \in Rows : /\ Match(companies, d, idProperty) = {}
                                /\ companies'[i].domain = d
             /\ companies'[i].by = "seed" /\ companies'[i].live = TRUE
             /\ CompanyOK(companies'[i], portal.uniqueDomain)
  <2>1. PICK d \in done : /\ Match(companies, d, idProperty) = {}
                          /\ companies'[i] = SeedsRecord(d, idProperty)
    BY <1>4 DEF Grown
  <2>2. CompanyOK(companies'[i], portal.uniqueDomain)
    BY <1>1, <1>2, <2>1, CreatedOK DEF SeedsRecord
  <2> QED
    BY <2>1, <2>2 DEF SeedsRecord, Company
<1>8. \A i \in DOMAIN companies' : CompanyOK(companies'[i], portal.uniqueDomain)
  <2>1. ASSUME NEW i \in DOMAIN companies PROVE CompanyOK(companies'[i], portal.uniqueDomain)
    <3>1. PICK c, e : c = companies[i] /\ e = companies'[i]
      OBVIOUS
    <3>2. /\ CompanyOK(c, portal.uniqueDomain)
          /\ IsCompany(e) /\ e.domain = c.domain /\ e.btx = c.btx /\ e.live = c.live
          /\ e.by = c.by
      BY <1>3, <1>6, <3>1
    <3>3. CompanyOK(e, portal.uniqueDomain)
      BY <3>2 DEF CompanyOK, Spare
    <3> QED
      BY <3>1, <3>3
  <2> QED
    BY <1>7, <2>1
<1>9. MadeFirst(companies', portal.uniqueDomain)
  <2> SUFFICES ASSUME NEW i \in DOMAIN companies', NEW j \in DOMAIN companies',
                      companies'[i].by = "seed", companies'[j].domain = companies'[i].domain,
                      portal.uniqueDomain \/ companies'[j].by = "seed"
               PROVE  i <= j
    BY DEF MadeFirst
  <2>1. CASE i \in DOMAIN companies /\ j \in DOMAIN companies
    <3>1. MadeFirst(companies, portal.uniqueDomain)
      BY DEF PortalInv, CompaniesOK
    <3>2. /\ companies[i].by = "seed" /\ companies[j].domain = companies[i].domain
          /\ portal.uniqueDomain \/ companies[j].by = "seed"
      BY <1>6, <2>1
    <3> QED
      BY <2>1, <3>1, <3>2 DEF MadeFirst
  <2>2. CASE i \in DOMAIN companies /\ j \notin DOMAIN companies
    BY <1>5, <2>2
  <2>3. CASE i \notin DOMAIN companies /\ j \notin DOMAIN companies
    BY <1>4, <1>5, <2>3 DEF Grown
  <2>4. CASE i \notin DOMAIN companies /\ j \in DOMAIN companies
    <3>1. PICK d \in Rows : Match(companies, d, idProperty) = {} /\ companies'[i].domain = d
      BY <1>7, <2>4
    <3>2. /\ companies[j].domain = d
          /\ portal.uniqueDomain \/ companies[j].by = "seed"
      BY <1>6, <2>4, <3>1
    <3>3. Holds(j, d)
      BY <1>1, <1>3, <2>4, <3>2 DEF Holds, CompanyOK
    <3> QED
      BY <1>2, <3>1, <3>3, HeldIsMatched
  <2> QED
    BY <2>1, <2>2, <2>3, <2>4
<1>10. CompaniesOK'
  BY <1>2, <1>8, <1>9 DEF CompaniesOK
<1>11. RowsStay /\ \A i \in DOMAIN companies : Spare(companies[i]) => Spare(companies'[i])
  BY <1>2, <1>6 DEF RowsStay, Spare
<1>12. \A i \in DOMAIN companies : i \in Live' <=> i \in Live
  BY <1>6 DEF Live
<1>13. \A l \in links' : l[2] \in Live'
  BY <1>2, <1>12 DEF PortalInv, Live
<1>14. \A object : LinkedTo(object)' = LinkedTo(object)
  <2> SUFFICES ASSUME NEW object, NEW i PROVE i \in LinkedTo(object)' <=> i \in LinkedTo(object)
    BY DEF LinkedTo
  <2>1. <<object, i>> \in links => i \in DOMAIN companies
    BY DEF PortalInv, Live
  <2> QED
    BY <1>2, <1>12, <2>1 DEF LinkedTo, Live
<1>15. ASSUME NEW p \in Seeds, p # q, seed[p].pc \in Counting PROVE Undisturbed(p)
  <2>1. \A d \in Rows : \E i \in Nat : Holds(i, d)
    BY <1>15 DEF PortalInv, SeedOK, Counting, Upserted
  <2>2. \A i \in DOMAIN companies' : i \in DOMAIN companies
    BY <1>2, <1>7, <2>1, HeldIsMatched
  <2>3. OneEach => OneEach'
    <3> SUFFICES ASSUME OneEach, NEW i \in DOMAIN companies', companies'[i].domain \in Rows
                 PROVE  /\ companies'[i].named
                        /\ \A j \in DOMAIN companies' :
                             companies'[j].domain = companies'[i].domain => i = j
      BY DEF OneEach
    <3>1. companies[i].domain \in Rows /\ i \in DOMAIN companies
      BY <1>6, <2>2
    <3>2. /\ companies[i].named
          /\ \A j \in DOMAIN companies : companies[j].domain = companies[i].domain => i = j
      BY <3>1 DEF OneEach
    <3> QED
      BY <1>6, <2>2, <3>1, <3>2
  <2> QED
    BY <1>2, <1>14, <2>3 DEF Undisturbed
<1>17. s = seed'[q]
  BY DEF PortalInv, PortalTyped
<1>16. PortalTyped'
  <2>1. seed' = [p \in Seeds |-> seed'[p]]
    BY DEF PortalInv, PortalTyped
  <2> QED
    BY <1>2, <1>4, <2>1 DEF PortalInv, PortalTyped, Grown
<1>19. done = Rows => Holds(s.company, Account)' /\ \A d \in Rows : \E i \in Nat : Holds(i, d)'
  <2> SUFFICES ASSUME done = Rows
               PROVE  Holds(s.company, Account)' /\ \A d \in Rows : \E i \in Nat : Holds(i, d)'
    OBVIOUS
  <2>1. \A d \in Rows : \A i \in Match(companies', d, idProperty) : Holds(i, d)'
    BY <1>1, <1>2, <1>8 DEF Holds, Match, IdOf, CompanyOK
  <2>2. \A d \in Rows : Match(companies', d, idProperty) # {}
    BY <1>4 DEF Grown
  <2>3. Holds(s.company, Account)'
    <3>1. s.company \in Match(companies', Account, idProperty)
      BY <2>2, PortalAssumption
    <3> QED
      BY <2>1, <3>1, PortalAssumption
  <2>4. ASSUME NEW d \in Rows PROVE \E i \in Nat : Holds(i, d)'
    <3>1. PICK i : i \in Match(companies', d, idProperty)
      BY <2>2
    <3>2. i \in Nat
      BY <1>5, <3>1 DEF Match
    <3> QED
      BY <2>1, <3>1, <3>2
  <2> QED
    BY <2>3, <2>4
<1>20. SeedOK(q)'
  BY <1>17, <1>19 DEF SeedOK, Upserted, Counting
<1> QED
  BY <1>2, <1>10, <1>11, <1>13, <1>15, <1>16, <1>17, <1>20, OthersStay

LEMMA CompaniesKeep ==
  ASSUME PortalInv, NEW q \in Seeds, CompaniesByDomain(q) \/ CompaniesByFallback(q)
  PROVE  PortalInv'
<1>1. ASSUME NEW id, UpsertCompanies(q, id, "contact"),
             id = IF portal.uniqueDomain THEN "domain" ELSE "btx_company_domain"
      PROVE  PortalInv'
  <2>1. PICK done \in SUBSET Rows :
          /\ companies' = Upsert(companies, done, id)
          /\ seed' = [seed EXCEPT
               ![q].pc = IF done = Rows THEN "contact" ELSE "stopped",
               ![q].company = IF done = Rows
                 THEN CHOOSE i \in Match(companies', Account, id) : TRUE ELSE 0]
          /\ UNCHANGED <<links, portal, sweep, meddled>>
    BY <1>1, Zenon DEF UpsertCompanies
  <2>2. PICK x : x = IF done = Rows THEN "contact" ELSE "stopped"
    OBVIOUS
  <2>3. PICK y : y = IF done = Rows THEN CHOOSE i \in Match(companies', Account, id) : TRUE ELSE 0
    OBVIOUS
  <2>4. seed' = [seed EXCEPT ![q].pc = x, ![q].company = y]
    BY <2>1, <2>2, <2>3
  <2>5. PICK s : s = [seed[q] EXCEPT !.pc = x, !.company = y]
    OBVIOUS
  <2>6. seed[q] = [pc |-> seed[q].pc, starts |-> seed[q].starts, company |-> seed[q].company,
                   missing |-> seed[q].missing] /\ seed = [p \in Seeds |-> seed[p]]
    BY DEF PortalInv, PortalTyped, SeedOK
  <2>7. seed' = [seed EXCEPT ![q] = s]
    BY <2>4, <2>5, <2>6
  <2>8. s = [pc |-> x, starts |-> s.starts, company |-> y, missing |-> s.missing]
    BY <2>5, <2>6
  <2>9. s = [pc |-> s.pc, starts |-> s.starts, company |-> s.company, missing |-> s.missing]
        /\ s.pc = x /\ s.company = y
    BY <2>8
  <2> QED
    BY <1>1, <2>1, <2>2, <2>3, <2>7, <2>9, UpsertKeeps
<1>2. CASE CompaniesByDomain(q)
  <2>1. PICK id : id = "domain"
    OBVIOUS
  <2> QED
    BY <1>1, <1>2, <2>1 DEF CompaniesByDomain
<1>3. CASE CompaniesByFallback(q)
  <2>1. PICK id : id = "btx_company_domain"
    OBVIOUS
  <2>2. ~portal.uniqueDomain
    BY <1>3 DEF CompaniesByFallback, PortalInv, SeedOK
  <2> QED
    BY <1>1, <1>3, <2>1, <2>2 DEF CompaniesByFallback
<1> QED
  BY <1>2, <1>3

LEMMA ObjectKeeps ==
  ASSUME PortalInv, NEW q \in Seeds, NEW object \in Seeded, UpsertObject(q, object)
  PROVE  PortalInv'
<1>1. PICK x : x = After(object)
  OBVIOUS
<1>2. x \in Upserted \ Counting /\ seed[q].pc \in Upserted
  BY <1>1, StepsInOrder DEF UpsertObject, At, Seeded, Upserted, Counting
<1>3. seed' = [seed EXCEPT ![q].pc = x] /\ UNCHANGED <<companies, links, portal, sweep, meddled>>
  BY <1>1 DEF UpsertObject, At
<1> QED
  BY <1>2, <1>3, SeedAdvances

LEMMA ReadKeeps ==
  ASSUME PortalInv, NEW q \in Seeds,
         ReadLinks(q, "readContact", "contact") \/ ReadLinks(q, "readDeal", "deal")
  PROVE  PortalInv'
<1>1. PICK x, missing : /\ seed' = [seed EXCEPT ![q].pc = x, ![q].missing = missing]
                        /\ x \in {"linkContact", "linkDeal"}
  <2>1. CASE ReadLinks(q, "readContact", "contact")
    BY <2>1, StepsInOrder DEF ReadLinks
  <2>2. CASE ReadLinks(q, "readDeal", "deal")
    BY <2>2, StepsInOrder DEF ReadLinks
  <2> QED
    BY <2>1, <2>2
<1>2. /\ x \in Upserted \ Counting
      /\ seed[q].pc \in Upserted
      /\ UNCHANGED <<companies, links, portal, sweep, meddled>>
  BY <1>1 DEF ReadLinks, Upserted, Counting
<1> QED
  BY <1>1, <1>2, SeedAdvances

LEMMA LinkKeeps ==
  ASSUME PortalInv, NEW q \in Seeds,
         CreateLinks(q, "linkContact", "contact") \/ CreateLinks(q, "linkDeal", "deal")
  PROVE  PortalInv'
<1>1. PICK x, object : /\ seed' = [seed EXCEPT ![q].pc = x, ![q].missing = FALSE]
                       /\ x \in {"readDeal", "verifyCompanies"}
                       /\ links' = links \/ links' = links \cup {<<object, seed[q].company>>}
  <2>1. CASE CreateLinks(q, "linkContact", "contact")
    BY <2>1, StepsInOrder DEF CreateLinks
  <2>2. CASE CreateLinks(q, "linkDeal", "deal")
    BY <2>2, StepsInOrder DEF CreateLinks
  <2> QED
    BY <2>1, <2>2
<1>2. /\ seed[q].pc \in Upserted
      /\ UNCHANGED <<companies, portal, sweep, meddled>>
  BY DEF CreateLinks, Upserted
<1>3. PICK s : /\ s = [pc |-> s.pc, starts |-> s.starts, company |-> s.company,
                       missing |-> s.missing]
               /\ s.pc = x /\ s.company = seed[q].company
               /\ seed' = [seed EXCEPT ![q] = s] /\ seed'[q] = s
  BY <1>1, Advanced
<1>4. UNCHANGED <<Live, OneEach>> /\ RowsStay
  BY <1>2 DEF Live, OneEach, RowsStay
<1>5. Holds(s.company, Account) /\ \A d \in Rows : \E i \in Nat : Holds(i, d)
  BY <1>2, <1>3 DEF PortalInv, SeedOK
<1>6. Holds(s.company, Account)' /\ \A d \in Rows : \E i \in Nat : Holds(i, d)'
  BY <1>4, <1>5, HoldsStays, PortalAssumption
<1>7. SeedOK(q)'
  BY <1>1, <1>3, <1>6 DEF SeedOK, Counting
<1>8. s.company \in Live
  BY <1>5, PortalAssumption, RowLives DEF Holds, Live, PortalInv, CompaniesOK
<1>9. \A l \in links' : l[2] \in Live'
  BY <1>1, <1>3, <1>4, <1>8 DEF PortalInv
<1>10. ASSUME NEW p \in Seeds, p # q, seed[p].pc \in Counting PROVE Undisturbed(p)
  <2>1. ASSUME NEW o \in Seeded, OneEach, LinkedTo(o) = {seed[p].company}
        PROVE  LinkedTo(o)' = {seed[p].company}
    <3>1. Holds(seed[p].company, Account)
      BY <1>10 DEF PortalInv, SeedOK, Counting, Upserted
    <3>2. seed[p].company = s.company
      BY <2>1, <3>1, <1>5, PortalAssumption DEF OneEach, Holds
    <3>3. \A i \in Live : <<o, i>> \in links' <=> i = s.company
      <4>1. \A i \in Live : <<o, i>> \in links <=> i = s.company
        BY <2>1, <3>2 DEF LinkedTo
      <4> QED
        BY <4>1, <1>1, <1>3
    <3> QED
      BY <1>4, <1>8, <3>2, <3>3 DEF LinkedTo
  <2> QED
    BY <1>2, <1>4, <2>1 DEF Undisturbed
<1>11. PortalTyped' /\ CompaniesOK'
  BY <1>2, <1>3 DEF PortalInv, PortalTyped, CompaniesOK
<1> QED
  BY <1>2, <1>3, <1>4, <1>7, <1>9, <1>10, <1>11, OthersStay

(* As many companies as rows, and one of each row: one each.               *)
LEMMA CountedOnce ==
  ASSUME PortalInv, \A d \in Rows : \E i \in Nat : Holds(i, d),
         \A i \in Live : companies[i].domain \in Rows => companies[i].named,
         Cardinality({i \in Live : companies[i].domain \in Rows}) = Cardinality(Rows)
  PROVE  OneEach
<1> DEFINE S == {i \in Live : companies[i].domain \in Rows}
           f == [i \in S |-> companies[i].domain]
<1>1. \A i \in DOMAIN companies : companies[i].domain \in Rows => i \in S
  BY RowLives DEF PortalInv, CompaniesOK, Live
<1>2. IsFiniteSet(S)
  <2>1. PICK n \in Nat : DOMAIN companies = 1..n
    BY DEF PortalInv, PortalTyped, IsSequence
  <2>2. 1 \in Int /\ n \in Int
    OBVIOUS
  <2>3. IsFiniteSet(1..n)
    BY <2>2, FS_Interval, Zenon
  <2>4. S \subseteq 1..n
    BY <2>1 DEF Live
  <2> QED
    BY <2>3, <2>4, FS_Subset
<1>3. f \in Surjection(S, Rows)
  <2>1. f \in [S -> Rows]
    OBVIOUS
  <2>2. ASSUME NEW d \in Rows PROVE \E i \in S : f[i] = d
    BY <1>1, <2>2 DEF Holds
  <2> QED
    BY <2>1, <2>2 DEF Surjection
<1>4. f \in Injection(S, Rows)
  BY <1>2, <1>3, FS_SurjSameCardinalityImpliesInj
<1>5. \A i, j \in S : companies[i].domain = companies[j].domain => i = j
  BY <1>4 DEF Injection, IsInjective
<1> QED
  BY <1>1, <1>5 DEF OneEach, Live

LEMMA VerifyKeeps ==
  ASSUME PortalInv, NEW q \in Seeds,
         \/ VerifyCompanies(q)
         \/ VerifyLinks(q, "verifyContact", "contact") \/ VerifyLinks(q, "verifyDeal", "deal")
  PROVE  PortalInv'
<1>1. PICK x : /\ seed' = [seed EXCEPT ![q].pc = x]
               /\ \/ x = "verifyContact" /\ VerifyCompanies(q)
                  \/ /\ x = "verifyDeal" /\ seed[q].pc = "verifyContact"
                     /\ LinkedTo("contact") = {seed[q].company}
                  \/ /\ x = "done" /\ seed[q].pc = "verifyDeal"
                     /\ LinkedTo("deal") = {seed[q].company}
  <2>1. CASE VerifyCompanies(q)
    BY <2>1, StepsInOrder DEF VerifyCompanies, At
  <2>2. CASE VerifyLinks(q, "verifyContact", "contact")
    BY <2>2, StepsInOrder DEF VerifyLinks, At
  <2>3. CASE VerifyLinks(q, "verifyDeal", "deal")
    BY <2>3, StepsInOrder DEF VerifyLinks, At
  <2> QED
    BY <2>1, <2>2, <2>3
<1>2. /\ seed[q].pc \in Upserted
      /\ UNCHANGED <<companies, links, portal, sweep, meddled>>
  BY DEF VerifyCompanies, VerifyLinks, At, Upserted
<1>3. PICK s : /\ s = [pc |-> s.pc, starts |-> s.starts, company |-> s.company,
                       missing |-> s.missing]
               /\ s.pc = x /\ s.company = seed[q].company
               /\ seed' = [seed EXCEPT ![q] = s] /\ seed'[q] = s
  BY <1>1, Advanced, ZenonT(60)
<1>4. UNCHANGED <<Live, OneEach>> /\ RowsStay /\ \A object : LinkedTo(object)' = LinkedTo(object)
  BY <1>2, QuietMoves
<1>5. Holds(s.company, Account) /\ \A d \in Rows : \E i \in Nat : Holds(i, d)
  BY <1>2, <1>3 DEF PortalInv, SeedOK
<1>6. Holds(s.company, Account)' /\ \A d \in Rows : \E i \in Nat : Holds(i, d)'
  BY <1>4, <1>5, HoldsStays, PortalAssumption
<1>7. meddled[q] \/ OneEach
  <2>1. CASE x = "verifyContact" /\ VerifyCompanies(q)
    BY <1>5, <2>1, CountedOnce DEF VerifyCompanies
  <2>2. CASE seed[q].pc \in {"verifyContact", "verifyDeal"}
    BY <2>2 DEF PortalInv, SeedOK, Counting
  <2> QED
    BY <1>1, <2>1, <2>2
<1>8. /\ x \in {"verifyDeal", "done"} => meddled[q] \/ LinkedTo("contact") = {s.company}
      /\ x = "done" => LinkedTo("deal") = {s.company}
  BY <1>1, <1>3 DEF PortalInv, SeedOK
<1>9. SeedOK(q)'
  <2>1. x # "fallback"
    BY <1>1
  <2> QED
    BY <1>2, <1>3, <1>4, <1>6, <1>7, <1>8, <2>1, Zenon DEF SeedOK
<1> QED
  BY <1>2, <1>3, <1>9, SeedTurns

LEMMA SeedGoesOn == ASSUME PortalInv, NEW q \in Seeds, SeedNext(q) PROVE PortalInv'
BY SeedBegins, CompaniesKeep, SeedRefused, ObjectKeeps, ReadKeeps, LinkKeeps, VerifyKeeps
   DEF SeedNext

(* A step that no seed takes.                                              *)
LEMMA SweepTurns ==
  ASSUME PortalInv, CompaniesOK', IsSequence(companies'),
         \A l \in links' : l[2] \in Live', RowsStay, UNCHANGED seed,
         meddled' = [p \in Seeds |-> meddled'[p]],
         \A p \in Seeds : seed[p].pc \in Counting => meddled'[p] = TRUE \/ Undisturbed(p),
         \A p \in Sweeps : SweepOK(p)', sweep' = [p \in Sweeps |-> sweep'[p]]
  PROVE  PortalInv'
<1>1. PortalTyped'
  BY DEF PortalInv, PortalTyped, RowsStay
<1>2. \A p \in Seeds : SeedOK(p)'
  BY SeedStays DEF PortalInv
<1> QED
  BY <1>1, <1>2 DEF PortalInv

LEMMA SweepMoves ==
  ASSUME PortalInv, NEW q \in Sweeps,
         \/ StartSweep(q) \/ StopSweep(q)
         \/ ArchiveObject(q, "deals", "fakeDeal", "contacts")
         \/ ArchiveObject(q, "contacts", "fakeContact", "companies")
  PROVE  PortalInv'
<1>1. PICK s : s = sweep'[q]
  OBVIOUS
<1>2. /\ s = [pc |-> s.pc, starts |-> s.starts, targets |-> s.targets, old |-> s.old]
      /\ s.targets \in {sweep[q].targets, Targets, {}}
      /\ sweep' = [sweep EXCEPT ![q] = s]
  <2>1. CASE StartSweep(q)
    BY <1>1, <2>1 DEF StartSweep, PortalInv, PortalTyped
  <2>2. CASE StopSweep(q)
    BY <1>1, <2>2 DEF StopSweep, NoSweep, PortalInv, PortalTyped
  <2>3. ASSUME NEW x, sweep' = [sweep EXCEPT ![q].pc = x]
        PROVE  /\ s = [pc |-> s.pc, starts |-> s.starts, targets |-> s.targets, old |-> s.old]
               /\ s.targets \in {sweep[q].targets, Targets, {}}
               /\ sweep' = [sweep EXCEPT ![q] = s]
    <3>1. /\ sweep[q] = [pc |-> sweep[q].pc, starts |-> sweep[q].starts,
                         targets |-> sweep[q].targets, old |-> sweep[q].old]
          /\ sweep = [p \in Sweeps |-> sweep[p]]
      BY DEF PortalInv, PortalTyped, SweepOK
    <3>2. s = [sweep[q] EXCEPT !.pc = x] /\ sweep' = [sweep EXCEPT ![q] = s]
      BY <1>1, <2>3, <3>1
    <3>3. s = [pc |-> x, starts |-> sweep[q].starts, targets |-> sweep[q].targets,
               old |-> sweep[q].old]
      BY <3>1, <3>2
    <3> QED
      BY <3>2, <3>3
  <2> QED
    BY <2>1, <2>2, <2>3 DEF ArchiveObject
<1>3. UNCHANGED <<companies, links, portal, seed, meddled>>
  BY DEF StartSweep, StopSweep, ArchiveObject
<1>4. \A t \in Targets : t \in DOMAIN companies /\ Spare(companies[t])
  BY DEF Targets, Live, Spare, Known, PortalInv, CompaniesOK, CompanyOK
<1>5. \A t \in s.targets : t \in DOMAIN companies /\ Spare(companies[t])
  BY <1>2, <1>4 DEF PortalInv, SweepOK
<1>6. /\ sweep' = [p \in Sweeps |-> sweep'[p]]
      /\ \A p \in Sweeps : sweep'[p] = IF p = q THEN s ELSE sweep[p]
  BY <1>2 DEF PortalInv, PortalTyped
<1>7. ASSUME NEW p \in Sweeps PROVE SweepOK(p)'
  BY <1>2, <1>3, <1>5, <1>6 DEF PortalInv, SweepOK
<1>8. CompaniesOK' /\ IsSequence(companies') /\ (\A l \in links' : l[2] \in Live')
      /\ meddled' = [p \in Seeds |-> meddled'[p]]
  BY <1>3, QuietMoves DEF PortalInv, PortalTyped, CompaniesOK
<1> QED
  BY <1>3, <1>6, <1>7, <1>8, QuietMoves, SweepTurns

LEMMA ArchiveKeeps ==
  ASSUME PortalInv, NEW q \in Sweeps, ArchiveCompanies(q)
  PROVE  PortalInv'
<1>1. PICK targets : targets = sweep[q].targets
  OBVIOUS
<1>2. \A t \in targets : t \in DOMAIN companies /\ Spare(companies[t])
  BY <1>1 DEF PortalInv, SweepOK
<1>3. /\ companies' = [i \in DOMAIN companies |->
            [companies[i] EXCEPT !.live = @ /\ i \notin targets]]
      /\ links' = {l \in links : l[2] \notin targets}
      /\ UNCHANGED <<portal, seed, meddled>>
  BY <1>1 DEF ArchiveCompanies
<1>4. ASSUME NEW i \in DOMAIN companies
      PROVE  /\ IsCompany(companies'[i]) /\ companies'[i].live \in BOOLEAN
             /\ companies'[i].domain = companies[i].domain
             /\ companies'[i].btx = companies[i].btx
             /\ companies'[i].named = companies[i].named
             /\ companies'[i].by = companies[i].by
             /\ companies'[i].live <=> companies[i].live /\ i \notin targets
  <2>1. IsCompany(companies[i]) /\ companies[i].live \in BOOLEAN
    BY DEF PortalInv, CompaniesOK, CompanyOK
  <2>2. PICK b \in BOOLEAN : b = (companies[i].live /\ i \notin targets)
    OBVIOUS
  <2>3. companies'[i] = [companies[i] EXCEPT !.live = b]
    BY <1>3, <2>2
  <2>4. companies'[i] = [domain |-> companies[i].domain, btx |-> companies[i].btx,
                         named |-> companies[i].named, live |-> b, by |-> companies[i].by]
    BY <2>1, <2>3 DEF IsCompany
  <2>5. /\ IsCompany(companies'[i]) /\ companies'[i].live = b
        /\ companies'[i].domain = companies[i].domain
        /\ companies'[i].btx = companies[i].btx
        /\ companies'[i].named = companies[i].named
        /\ companies'[i].by = companies[i].by
    <3>1. PICK e : e = companies'[i]
      OBVIOUS
    <3>2. e = [domain |-> companies[i].domain, btx |-> companies[i].btx,
               named |-> companies[i].named, live |-> b, by |-> companies[i].by]
      BY <2>4, <3>1
    <3> HIDE <2>3, <2>4
    <3> QED
      BY <3>1, <3>2 DEF IsCompany
  <2>6. b = TRUE \/ b = FALSE
    BY <2>2
  <2> QED
    BY <2>2, <2>5, <2>6
<1>5. DOMAIN companies' = DOMAIN companies
  BY <1>3
<1>6. \A i \in DOMAIN companies : CompanyOK(companies'[i], portal.uniqueDomain)
  <2> SUFFICES ASSUME NEW i \in DOMAIN companies
               PROVE  CompanyOK(companies'[i], portal.uniqueDomain)
    OBVIOUS
  <2>1. PICK c, e : c = companies[i] /\ e = companies'[i]
    OBVIOUS
  <2>2. /\ IsCompany(e) /\ e.live \in BOOLEAN
        /\ e.domain = c.domain /\ e.btx = c.btx /\ e.by = c.by
        /\ ~e.live => ~c.live \/ Spare(c)
    BY <1>2, <1>4, <2>1
  <2>3. CompanyOK(c, portal.uniqueDomain)
    BY <2>1 DEF PortalInv, CompaniesOK
  <2> QED
    BY <2>1, <2>2, <2>3 DEF CompanyOK, Spare
<1>7. CompaniesOK'
  <2>1. MadeFirst(companies, portal.uniqueDomain)
    BY DEF PortalInv, CompaniesOK
  <2>2. MadeFirst(companies', portal.uniqueDomain)
    BY <1>4, <1>5, <2>1 DEF MadeFirst
  <2> QED
    BY <1>3, <1>5, <1>6, <2>2 DEF CompaniesOK
<1>8. IsSequence(companies')
  <2>1. PICK n \in Nat : DOMAIN companies = 1..n
    BY DEF PortalInv, PortalTyped, IsSequence
  <2>2. companies' \in Seq({companies'[i] : i \in 1..n})
    BY <2>1, <1>3
  <2> QED
    BY <2>2 DEF IsSequence
<1>9. RowsStay /\ \A i \in DOMAIN companies : Spare(companies[i]) => Spare(companies'[i])
  BY <1>3, <1>4, <1>5 DEF RowsStay, Spare
<1>10. \A i : i \in Live' <=> i \in Live /\ i \notin targets
  BY <1>4, <1>5 DEF Live, PortalInv, CompaniesOK, CompanyOK
<1>11. \A l \in links' : l[2] \in Live'
  BY <1>3, <1>10 DEF PortalInv
<1>12. ASSUME NEW p \in Seeds, seed[p].pc \in Counting PROVE Undisturbed(p)
  <2>1. seed[p].company \in Live /\ seed[p].company \notin targets
    <3>1. Holds(seed[p].company, Account)
      BY <1>12 DEF PortalInv, SeedOK, Counting, Upserted
    <3>2. companies[seed[p].company].live = TRUE /\ ~Spare(companies[seed[p].company])
      BY <3>1, PortalAssumption, RowLives DEF Holds, PortalInv, CompaniesOK
    <3> QED
      BY <1>2, <3>1, <3>2 DEF Holds, Live
  <2>2. OneEach => OneEach'
    BY <1>4, <1>5 DEF OneEach
  <2>3. ASSUME NEW object, LinkedTo(object) = {seed[p].company}
        PROVE  LinkedTo(object)' = {seed[p].company}
    <3>1. \A i : i \in LinkedTo(object)' <=> i \in LinkedTo(object) /\ i \notin targets
      BY <1>3, <1>10 DEF LinkedTo
    <3> QED
      BY <2>1, <2>3, <3>1
  <2> QED
    BY <1>3, <2>2, <2>3 DEF Undisturbed
<1>13. /\ sweep' = [p \in Sweeps |-> sweep'[p]]
       /\ \A p \in Sweeps : p # q => sweep'[p] = sweep[p]
       /\ sweep'[q] = [NoSweep EXCEPT !.starts = sweep[q].starts]
  BY DEF ArchiveCompanies, PortalInv, PortalTyped
<1>14. ASSUME NEW p \in Sweeps PROVE SweepOK(p)'
  <2>1. CASE p = q
    BY <1>13, <2>1 DEF SweepOK, NoSweep
  <2>2. CASE p # q
    BY <1>5, <1>9, <1>13, <2>2 DEF SweepOK, PortalInv
  <2> QED
    BY <2>1, <2>2
<1> QED
  BY <1>3, <1>7, <1>8, <1>9, <1>11, <1>12, <1>13, <1>14, SweepTurns DEF PortalInv, PortalTyped

LEMMA SweepGoesOn == ASSUME PortalInv, NEW q \in Sweeps, SweepNext(q) PROVE PortalInv'
BY SweepMoves, ArchiveKeeps DEF SweepNext

(* What others do is meddling to a seed that counts.                       *)
LEMMA Meddling ==
  ASSUME PortalInv, Deed
  PROVE  /\ meddled' = [p \in Seeds |-> meddled'[p]]
         /\ \A p \in Seeds : seed[p].pc \in Counting => meddled'[p] = TRUE
BY DEF Deed, Counting

LEMMA AddingKeeps ==
  ASSUME PortalInv, Deed, NEW d, NEW named, NEW by \in {"auto", "hand"},
         Adds(Company(d, "none", named, by)),
         links' = links \/ \E object : links' = links \cup {<<object, Len(companies')>>},
         UNCHANGED <<portal, seed, sweep>>
  PROVE  PortalInv'
<1>1. PICK c : c = Company(d, "none", named, by)
  OBVIOUS
<1>2. CompanyOK(c, portal.uniqueDomain) /\ c.live = TRUE /\ c.by # "seed"
  <2>1. /\ IsCompany(c) /\ c.live = TRUE /\ c.btx = "none" /\ c.by = by
    BY <1>1 DEF Company, IsCompany
  <2> QED
    BY <2>1, PortalAssumption DEF CompanyOK, Known
<1>3. PICK S : companies \in Seq(S)
  BY DEF PortalInv, PortalTyped, IsSequence
<1>4. companies \in Seq(S \cup {c}) /\ c \in S \cup {c}
  BY <1>3
<1>5. companies' = Append(companies, c)
  BY <1>1 DEF Adds
<1>6. PICK n \in Nat : n = Len(companies) /\ DOMAIN companies = 1..n
  BY <1>3
<1>7. /\ companies' \in Seq(S \cup {c}) /\ Len(companies') = n + 1
      /\ DOMAIN companies' = 1..(n + 1)
      /\ \A i \in DOMAIN companies : companies'[i] = companies[i]
      /\ companies'[n + 1] = c
  BY <1>4, <1>5, <1>6, AppendProperties
<1>8. \A i \in DOMAIN companies' :
        \/ i \in DOMAIN companies /\ companies'[i] = companies[i]
        \/ i = n + 1 /\ companies'[i] = c
  BY <1>6, <1>7
<1>9. \A i \in DOMAIN companies : i \in DOMAIN companies' /\ i <= n
  BY <1>6, <1>7
<1>10. CompaniesOK'
  <2>1. \A i \in DOMAIN companies' : CompanyOK(companies'[i], portal.uniqueDomain)
    BY <1>2, <1>8 DEF PortalInv, CompaniesOK
  <2>2. MadeFirst(companies, portal.uniqueDomain)
    BY DEF PortalInv, CompaniesOK
  <2>3. MadeFirst(companies', portal.uniqueDomain)
    <3> SUFFICES ASSUME NEW i \in DOMAIN companies', NEW j \in DOMAIN companies',
                        companies'[i].by = "seed",
                        companies'[j].domain = companies'[i].domain,
                        portal.uniqueDomain \/ companies'[j].by = "seed"
                 PROVE  i <= j
      BY DEF MadeFirst
    <3>1. i \in DOMAIN companies /\ companies'[i] = companies[i]
      BY <1>2, <1>8
    <3>2. CASE j = n + 1
      BY <1>6, <1>9, <3>1, <3>2
    <3>3. CASE j \in DOMAIN companies /\ companies'[j] = companies[j]
      BY <2>2, <3>1, <3>3 DEF MadeFirst
    <3> QED
      BY <1>8, <3>2, <3>3
  <2> QED
    BY <2>1, <2>3 DEF CompaniesOK
<1>11. RowsStay
  BY <1>7, <1>9 DEF RowsStay
<1>12. (\A i \in Live : i \in Live') /\ n + 1 \in Live'
  BY <1>2, <1>6, <1>7, <1>9 DEF Live
<1>13. \A l \in links' : l[2] \in Live'
  BY <1>7, <1>12 DEF PortalInv
<1>14. \A p \in Sweeps : SweepOK(p)'
  BY <1>7, <1>9 DEF PortalInv, SweepOK
<1>15. IsSequence(companies') /\ sweep' = [p \in Sweeps |-> sweep'[p]]
  BY <1>7 DEF IsSequence, PortalInv, PortalTyped
<1> QED
  BY <1>10, <1>11, <1>13, <1>14, <1>15, Meddling, SweepTurns

LEMMA AdoptKeeps ==
  ASSUME PortalInv, NEW k \in Live, AdoptCompany(k)
  PROVE  PortalInv'
<1>1. PICK c : c = companies'[k]
  OBVIOUS
<1>2. k \in DOMAIN companies /\ companies[k].live /\ companies[k].domain = "artifact"
  BY DEF AdoptCompany, OfDomain, Live
<1>3. CompanyOK(companies[k], portal.uniqueDomain) /\ companies[k].live = TRUE
  BY <1>2 DEF PortalInv, CompaniesOK, CompanyOK
<1>4. /\ DOMAIN companies' = DOMAIN companies
      /\ \A i \in DOMAIN companies : i # k => companies'[i] = companies[i]
      /\ c = [companies[k] EXCEPT !.domain = "other", !.named = TRUE, !.by = "adopted"]
  <2>1. PICK n \in Nat : DOMAIN companies = 1..n
    BY DEF PortalInv, PortalTyped, IsSequence
  <2>2. companies' = [companies EXCEPT ![k].domain = "other", ![k].named = TRUE,
                                       ![k].by = "adopted"]
    BY DEF AdoptCompany
  <2> QED
    BY <1>1, <1>2, <2>1, <2>2
<1>5. c = [domain |-> "other", btx |-> companies[k].btx, named |-> TRUE,
           live |-> TRUE, by |-> "adopted"]
  BY <1>3, <1>4 DEF CompanyOK, IsCompany
<1>6. CompanyOK(c, portal.uniqueDomain) /\ c.live = TRUE /\ c.domain \notin Rows
      /\ c.btx = companies[k].btx /\ c.by = "adopted"
  <2>1. /\ IsCompany(c) /\ c.live = TRUE /\ c.domain = "other" /\ c.by = "adopted"
        /\ c.btx = companies[k].btx
    BY <1>5 DEF IsCompany
  <2>2. companies[k].btx \notin Rows /\ companies[k].btx \notin Known
    BY <1>2, <1>3, PortalAssumption DEF CompanyOK, Known
  <2> QED
    BY <2>1, <2>2, PortalAssumption DEF CompanyOK, Known, Spare
<1>7. PICK n \in Nat : DOMAIN companies = 1..n
  BY DEF PortalInv, PortalTyped, IsSequence
<1>8. IsSequence(companies')
  <2>1. companies' = [i \in 1..n |-> companies'[i]]
    BY <1>4, <1>7 DEF AdoptCompany
  <2>2. companies' \in Seq({companies'[i] : i \in 1..n})
    BY <2>1
  <2> QED
    BY <2>2 DEF IsSequence
<1>9. \A i \in DOMAIN companies' :
        \/ i # k /\ i \in DOMAIN companies /\ companies'[i] = companies[i]
        \/ i = k /\ companies'[i] = c
  BY <1>1, <1>4
<1>10. CompaniesOK'
  <2>1. UNCHANGED portal /\ \A i \in DOMAIN companies' : CompanyOK(companies'[i], portal.uniqueDomain)
    BY <1>6, <1>9 DEF PortalInv, CompaniesOK, AdoptCompany
  <2>2. \A i \in DOMAIN companies : companies[i].by = "seed" => companies[i].domain \in Rows
    BY DEF PortalInv, CompaniesOK, CompanyOK
  <2>3. MadeFirst(companies, portal.uniqueDomain)
    BY DEF PortalInv, CompaniesOK
  <2>4. MadeFirst(companies', portal.uniqueDomain)
    <3> SUFFICES ASSUME NEW i \in DOMAIN companies', NEW j \in DOMAIN companies',
                        companies'[i].by = "seed",
                        companies'[j].domain = companies'[i].domain,
                        portal.uniqueDomain \/ companies'[j].by = "seed"
                 PROVE  i <= j
      BY DEF MadeFirst
    <3>1. i \in DOMAIN companies /\ companies'[i] = companies[i] /\ companies[i].domain \in Rows
      BY <1>6, <1>9, <2>2
    <3>2. j \in DOMAIN companies /\ companies'[j] = companies[j]
      BY <1>6, <1>9, <3>1
    <3> QED
      BY <2>3, <3>1, <3>2 DEF MadeFirst
  <2> QED
    BY <2>1, <2>4 DEF CompaniesOK
<1>11. RowsStay
  BY <1>2, <1>4, <1>6, <1>1, PortalAssumption DEF RowsStay, Known, AdoptCompany
<1>12. \A i \in Live : i \in Live'
  BY <1>1, <1>4, <1>6 DEF Live
<1>13. \A l \in links' : l[2] \in Live'
  BY <1>12 DEF PortalInv, AdoptCompany
<1>14. \A p \in Sweeps : SweepOK(p)'
  BY <1>1, <1>4, <1>6 DEF PortalInv, SweepOK, Spare, AdoptCompany
<1>15. sweep' = [p \in Sweeps |-> sweep'[p]] /\ UNCHANGED seed /\ Deed
  BY DEF PortalInv, PortalTyped, AdoptCompany
<1> QED
  BY <1>8, <1>10, <1>11, <1>13, <1>14, <1>15, Meddling, SweepTurns

LEMMA OthersGoOn == ASSUME PortalInv, OthersNext PROVE PortalInv'
<1>1. ASSUME NEW associate \in BOOLEAN, AutoCreate(associate) PROVE PortalInv'
  <2>1. PICK by \in {"auto", "hand"} : by = "auto"
    OBVIOUS
  <2>2. links' = links \/ \E object : links' = links \cup {<<object, Len(companies')>>}
    BY <1>1 DEF AutoCreate
  <2> QED
    BY <1>1, <2>1, <2>2, AddingKeeps DEF AutoCreate
<1>2. ASSUME NEW d, NEW named, EnterCompany(d, named) PROVE PortalInv'
  <2>1. PICK by \in {"auto", "hand"} : by = "hand"
    OBVIOUS
  <2> QED
    BY <1>2, <2>1, AddingKeeps DEF EnterCompany
<1> QED
  BY <1>1, <1>2, AdoptKeeps DEF OthersNext

LEMMA PortalGoesOn ==
  ASSUME PortalInv, [PortalNext]_portalVars
  PROVE  PortalInv'
<1>1. CASE UNCHANGED portalVars
  <2>1. UNCHANGED <<companies, links, portal, seed, sweep, meddled>>
    BY <1>1 DEF portalVars
  <2>2. RowsStay /\ \A p : Undisturbed(p)
    BY <2>1, QuietMoves
  <2>3. /\ CompaniesOK' /\ IsSequence(companies') /\ (\A l \in links' : l[2] \in Live')
        /\ meddled' = [p \in Seeds |-> meddled'[p]] /\ sweep' = [p \in Sweeps |-> sweep'[p]]
        /\ \A p \in Sweeps : SweepOK(p)'
    BY <2>1, QuietMoves DEF PortalInv, PortalTyped, CompaniesOK, SweepOK
  <2> QED
    BY <2>1, <2>2, <2>3, SweepTurns
<1> QED
  BY <1>1, SeedGoesOn, SweepGoesOn, OthersGoOn DEF PortalNext

LEMMA PortalBegins == PortalInit => PortalInv
<1> SUFFICES ASSUME PortalInit PROVE PortalInv
  OBVIOUS
<1>1. PICK fake, hand : /\ fake = Company("fake", "fake", TRUE, "old")
                        /\ hand = Company(Account, "none", TRUE, "hand")
  OBVIOUS
<1>2. /\ \A unique : CompanyOK(fake, unique) /\ CompanyOK(hand, unique)
      /\ fake.by # "seed" /\ hand.by # "seed"
  <2>1. /\ IsCompany(fake) /\ fake.live = TRUE /\ fake.btx = "fake" /\ fake.domain = "fake"
        /\ fake.by = "old"
        /\ IsCompany(hand) /\ hand.live = TRUE /\ hand.btx = "none" /\ hand.domain = Account
        /\ hand.by = "hand"
    BY <1>1 DEF Company, IsCompany
  <2> QED
    BY <2>1, PortalAssumption DEF CompanyOK, Known
<1>3. companies = <<>> \/ companies = <<fake, hand>>
  BY <1>1 DEF PortalInit
<1>4. IsSequence(companies) /\ \A i \in DOMAIN companies : companies[i] \in {fake, hand}
  <2>1. <<>> \in Seq({fake, hand}) /\ <<fake, hand>> \in Seq({fake, hand})
    OBVIOUS
  <2>2. companies \in Seq({fake, hand})
    BY <1>3, <2>1
  <2>3. \A i \in DOMAIN companies : companies[i] \in {fake, hand}
    BY <2>2
  <2> QED
    BY <2>2, <2>3 DEF IsSequence
<1>5. CompaniesOK
  BY <1>2, <1>4 DEF CompaniesOK, MadeFirst
<1>6. /\ seed = [p \in Seeds |-> NoSeed] /\ sweep = [p \in Sweeps |-> NoSweep]
      /\ meddled = [p \in Seeds |-> FALSE] /\ links = {} /\ portal.uniqueDomain \in BOOLEAN
  BY DEF PortalInit
<1>7. PortalTyped
  BY <1>4, <1>6 DEF PortalTyped
<1>8. ASSUME NEW p \in Seeds PROVE SeedOK(p)
  BY <1>6 DEF SeedOK, NoSeed, Upserted, Counting
<1>9. ASSUME NEW p \in Sweeps PROVE SweepOK(p)
  BY <1>6 DEF SweepOK, NoSweep
<1> QED
  BY <1>5, <1>6, <1>7, <1>8, <1>9 DEF PortalInv

LEMMA PortalInvEnough == PortalInv => SeedComplete /\ CleanupSpares
<1> SUFFICES ASSUME PortalInv PROVE SeedComplete /\ CleanupSpares
  OBVIOUS
<1>1. MadeFirst(companies, portal.uniqueDomain) /\ portal.uniqueDomain \in BOOLEAN
  BY DEF PortalInv, CompaniesOK, PortalTyped
<1>2. PICK n \in Nat : DOMAIN companies = 1..n
  BY DEF PortalInv, PortalTyped, IsSequence
<1>3. SeededOnce
  <2> SUFFICES ASSUME NEW d \in Rows,
                      NEW own, own = {i \in OfDomain(d) : companies[i].by = "seed"}
               PROVE  /\ Cardinality(own) <= 1
                      /\ portal.uniqueDomain =>
                           \A i \in own, j \in OfDomain(d) : companies[j].by = "hand" => i < j
    BY DEF SeededOnce
  <2>1. \A i, j \in own : i = j
    <3>1. \A i, j \in own : i <= j /\ i \in 1..n /\ j \in 1..n
      BY <1>1, <1>2 DEF OfDomain, Live, MadeFirst
    <3> QED
      BY <3>1
  <2>2. Cardinality(own) <= 1
    <3>1. CASE own = {}
      BY <3>1, FS_EmptySet
    <3>2. CASE own # {}
      <4>1. PICK i : own = {i}
        BY <2>1, <3>2
      <4>2. Cardinality(own) = 1
        BY <4>1, FS_Singleton, Zenon
      <4> QED
        BY <4>2
    <3> QED
      BY <3>1, <3>2
  <2>3. ASSUME portal.uniqueDomain, NEW i \in own, NEW j \in OfDomain(d), companies[j].by = "hand"
        PROVE  i < j
    <3>1. i <= j /\ i \in 1..n /\ j \in 1..n
      BY <1>1, <1>2, <2>3 DEF OfDomain, Live, MadeFirst
    <3>2. i # j
      BY <2>3
    <3> QED
      BY <3>1, <3>2
  <2> QED
    BY <2>2, <2>3
<1>4. VerifiedSeed
  <2> SUFFICES ASSUME NEW p \in Seeds, seed[p].pc = "done", ~meddled[p]
               PROVE  /\ \A d \in Rows : \E i \in Live : OfDomain(d) = {i} /\ companies[i].named
                      /\ \A object \in Seeded : LinkedTo(object) = OfDomain(Account)
    BY DEF VerifiedSeed
  <2>1. /\ Holds(seed[p].company, Account) /\ \A d \in Rows : \E i \in Nat : Holds(i, d)
        /\ OneEach
        /\ LinkedTo("contact") = {seed[p].company} /\ LinkedTo("deal") = {seed[p].company}
    BY DEF PortalInv, SeedOK, Upserted, Counting
  <2>2. ASSUME NEW d \in Rows, NEW i, Holds(i, d)
        PROVE  i \in Live /\ OfDomain(d) = {i} /\ companies[i].named
    <3>1. i \in Live /\ companies[i].named
      BY <2>1, <2>2, RowLives DEF PortalInv, CompaniesOK, Holds, Live, OneEach
    <3>2. \A j \in OfDomain(d) : j = i
      BY <2>1, <2>2 DEF OfDomain, Live, Holds, OneEach
    <3>3. i \in OfDomain(d)
      BY <2>2, <3>1 DEF OfDomain, Holds
    <3> QED
      BY <3>1, <3>2, <3>3
  <2>3. OfDomain(Account) = {seed[p].company}
    BY <2>1, <2>2, PortalAssumption
  <2> QED
    BY <2>1, <2>2, <2>3 DEF Seeded
<1>5. CleanupSpares
  BY DEF CleanupSpares, PortalInv, CompaniesOK, CompanyOK, Spare, Live
<1> QED
  BY <1>3, <1>4, <1>5 DEF SeedComplete

(* However often the seed is started, stopped and raced, by itself, by the *)
(* cleanup and by people in the portal: it makes a company once, and what  *)
(* it reports as complete is complete (tools/seed-hubspot.ts).             *)
THEOREM SeedAlwaysComplete == PortalSpec => []SeedComplete
BY PortalBegins, PortalGoesOn, PortalInvEnough, PTL DEF PortalSpec

(* The cleanup archives what it knows, and besides that what was adopted   *)
(* after it had listed it, in whatever order it meets the seeds and people *)
(* in the portal; no association is left to what is archived               *)
(* (tools/cleanup-hubspot.ts).                                             *)
THEOREM CleanupAlwaysSpares == PortalSpec => []CleanupSpares
BY PortalBegins, PortalGoesOn, PortalInvEnough, PTL DEF PortalSpec
-----------------------------------------------------------------------------
(* The frame.  An address has its five parts; a link leads to what it is   *)
(* meant for.                                                              *)
IsAddress(u) ==
  u = [root |-> u.root, child |-> u.child, account |-> u.account, view |-> u.view,
       figure |-> u.figure]

LinkLeads(l) ==
  LET r == Parse(l.url) IN
  /\ r.id # "not_found"
  /\ r.tab = l.tab /\ r.account = l.account /\ r.record = l.record
  /\ l.url.account = Nil \/ (r.tab \in {"map", "prospecting"} /\ l.url.view = Nil)

LinkOK(l) ==
  /\ l = [url |-> l.url, tab |-> l.tab, account |-> l.account, record |-> l.record]
  /\ IsAddress(l.url)
  /\ l.tab = "typed" \/ LinkLeads(l)

(* What the router makes of the first part of a path.                      *)
LEMMA Routes ==
  ASSUME NEW u
  PROVE  /\ u.root = "briefing" => RouteId(u) = "today"
         /\ u.root = "work" => RouteId(u) = "work"
         /\ u.root = "accounts" => RouteId(u) = "accounts"
         /\ u.root = "programs" => RouteId(u) = "programs"
         /\ u.root = "prospecting" => RouteId(u) = "prospecting"
         /\ u.root = "capacity" => RouteId(u) = "capacity"
         /\ u.root = "analysis" => RouteId(u) = "analysis"
         /\ u.root = "map" => RouteId(u) = "map"
         /\ u.root = "ask" => RouteId(u) = "ask"
         /\ u.root = "deliverables" => RouteId(u) = "deliverables"
         /\ u.root = "integrations" => RouteId(u) = "integrations"
         /\ u.root = "settings" => RouteId(u) = "settings"
         /\ u.root = "intelligence" /\ u.child = "industry-updates"
              => RouteId(u) = "industry_updates"
<1>1. ASSUME u.root = "intelligence", u.child = "industry-updates"
      PROVE  RouteId(u) = "industry_updates"
  <2>1. ~(u.root = "")
    BY <1>1, Zenon
  <2>2. ~(u.root \in DOMAIN RouteNames)
    BY <1>1 DEF RouteNames
  <2> QED
    BY <1>1, <2>1, <2>2, Zenon DEF RouteId
<1>2. ASSUME NEW root \in DOMAIN RouteNames, u.root = root, ~(root = ""), ~(root = "intelligence")
      PROVE  RouteId(u) = RouteNames[root]
  BY <1>2, Zenon DEF RouteId
<1>3. DOMAIN RouteNames =
        {"today", "briefing", "work", "accounts", "programs", "prospecting", "capacity",
         "analysis", "map", "ask", "deliverables", "integrations", "settings"}
  BY DEF RouteNames
<1>4. /\ RouteNames["briefing"] = "today" /\ RouteNames["work"] = "work"
      /\ RouteNames["accounts"] = "accounts" /\ RouteNames["programs"] = "programs"
      /\ RouteNames["prospecting"] = "prospecting" /\ RouteNames["capacity"] = "capacity"
      /\ RouteNames["analysis"] = "analysis" /\ RouteNames["map"] = "map"
      /\ RouteNames["ask"] = "ask" /\ RouteNames["deliverables"] = "deliverables"
      /\ RouteNames["integrations"] = "integrations" /\ RouteNames["settings"] = "settings"
  BY DEF RouteNames
<1>5. ASSUME NEW root \in DOMAIN RouteNames PROVE ~(root = "") /\ ~(root = "intelligence")
  BY <1>3, Zenon
<1>6. ASSUME NEW root \in DOMAIN RouteNames, u.root = root
      PROVE  RouteId(u) = RouteNames[root]
  BY <1>2, <1>5, <1>6
<1> QED
  BY <1>1, <1>3, <1>4, <1>6

(* What it takes from the address for each route.                          *)
LEMMA Parsed ==
  ASSUME NEW u
  PROVE  /\ Parse(u).id = RouteId(u)
         /\ RouteId(u) = "today" => Parse(u).tab = "brief"
         /\ RouteId(u) = "work" => Parse(u).tab = "work_queue"
         /\ RouteId(u) = "integrations" => Parse(u).tab = "hubspot"
         /\ RouteId(u) \in {"accounts", "programs", "industry_updates", "prospecting",
                            "capacity", "analysis", "map", "ask", "deliverables", "settings"}
              => Parse(u).tab = RouteId(u)
         /\ RouteId(u) = "accounts" => Parse(u).account = u.child
         /\ RouteId(u) \in {"prospecting", "capacity", "analysis", "map", "deliverables"}
              => Parse(u).account = u.account
         /\ RouteId(u) \notin {"accounts", "prospecting", "capacity", "analysis", "map",
                               "deliverables"} => Parse(u).account = Nil
         /\ RouteId(u) \in {"work", "programs", "ask"} => Parse(u).record = u.child
         /\ RouteId(u) = "deliverables"
              => Parse(u).record = IF u.child = "figures/new" THEN Nil ELSE u.child
         /\ RouteId(u) \notin {"work", "programs", "ask", "deliverables"}
              => Parse(u).record = Nil
<1>1. /\ Parse(u).id = RouteId(u)
      /\ Parse(u).tab = RouteTab[RouteId(u)]
      /\ RouteId(u) = "accounts" => Parse(u).account = u.child
      /\ RouteId(u) \in {"prospecting", "capacity", "analysis", "map", "deliverables"}
           => Parse(u).account = u.account
      /\ RouteId(u) \notin {"accounts", "prospecting", "capacity", "analysis", "map",
                            "deliverables"} => Parse(u).account = Nil
      /\ Parse(u).record = IF \/ RouteId(u) \in {"work", "programs", "ask"}
                              \/ RouteId(u) = "deliverables" /\ u.child # "figures/new"
                           THEN u.child ELSE Nil
  BY DEF Parse
<1> QED
  BY <1>1 DEF RouteTab

(* The parts of the addresses that are made.                               *)
LEMMA PlacesAre ==
  ASSUME NEW root, NEW child
  PROVE  /\ IsAddress(Place(root)) /\ Place(root).root = root /\ Place(root).child = Nil
         /\ Place(root).account = Nil /\ Place(root).view = Nil
         /\ IsAddress(Under(root, child)) /\ Under(root, child).root = root
         /\ Under(root, child).child = child
         /\ Under(root, child).account = Nil /\ Under(root, child).view = Nil
         /\ IsAddress(About(root, child)) /\ About(root, child).root = root
         /\ About(root, child).child = Nil
         /\ About(root, child).account = child /\ About(root, child).view = Nil
BY DEF IsAddress, Place, Under, About

(* The parts of a link.                                                    *)
LEMMA Linked ==
  ASSUME NEW u, NEW tab, NEW account, NEW record
  PROVE  LET l == Link(u, tab, account, record) IN
         /\ l = [url |-> l.url, tab |-> l.tab, account |-> l.account, record |-> l.record]
         /\ l.url = u /\ l.tab = tab /\ l.account = account /\ l.record = record
BY DEF Link

(* A link leads to what its address is read as.                            *)
LEMMA LeadsThere ==
  ASSUME NEW u, NEW tab, NEW account, NEW record,
         IsAddress(u), RouteId(u) # "not_found",
         Parse(u).tab = tab, Parse(u).account = account, Parse(u).record = record,
         u.account = Nil \/ (tab \in {"map", "prospecting"} /\ u.view = Nil)
  PROVE  LinkOK(Link(u, tab, account, record))
<1>1. PICK l : l = Link(u, tab, account, record)
  OBVIOUS
<1>2. /\ l = [url |-> l.url, tab |-> l.tab, account |-> l.account, record |-> l.record]
      /\ l.url = u /\ l.tab = tab /\ l.account = account /\ l.record = record
  BY <1>1, Linked
<1>3. Parse(u).id # "not_found"
  BY Parsed
<1>4. LinkLeads(l)
  BY <1>2, <1>3 DEF LinkLeads
<1> QED
  BY <1>1, <1>2, <1>4 DEF LinkOK

(* The tabs whose name is that of their route, and the others.             *)
LEMMA OpensTab ==
  ASSUME NEW t \in Tabs \ {"trip_planner"}
  PROVE  LinkOK(Open(t))
<1>1. ASSUME NEW root, TabPath[t] = Place(root), RouteId(Place(root)) # "not_found",
             Parse(Place(root)).tab = t
      PROVE  LinkOK(Open(t))
  <2>1. PICK u : u = Place(root)
    OBVIOUS
  <2>2. IsAddress(u) /\ u.child = Nil /\ u.account = Nil
    BY <2>1, PlacesAre
  <2>3. Parse(u).account = Nil /\ Parse(u).record = Nil
    BY <2>2, Parsed
  <2> QED
    BY <1>1, <2>1, <2>2, <2>3, LeadsThere DEF Open
<1>2. ASSUME NEW root \in {"accounts", "ask", "prospecting", "map", "analysis", "capacity",
                           "programs", "deliverables", "settings"},
             TabPath[t] = Place(root), t = root
      PROVE  LinkOK(Open(t))
  <2>1. PICK u : u = Place(root)
    OBVIOUS
  <2>2. RouteId(u) = root
    BY <2>1, PlacesAre, Routes
  <2>3. Parse(u).tab = root
    BY <2>2, Parsed
  <2> QED
    BY <1>1, <1>2, <2>1, <2>2, <2>3
<1>3. /\ Place("briefing").root = "briefing" /\ Place("work").root = "work"
      /\ Place("integrations").root = "integrations"
  BY PlacesAre
<1>4. /\ RouteId(Place("briefing")) = "today" /\ RouteId(Place("work")) = "work"
      /\ RouteId(Place("integrations")) = "integrations"
  BY <1>3, Routes
<1>5. t \in {"brief", "work_queue", "hubspot"} => LinkOK(Open(t))
  BY <1>1, <1>4, Parsed DEF TabPath
<1>6. t = "industry_updates" => LinkOK(Open(t))
  <2>1. PICK u : u = Under("intelligence", "industry-updates")
    OBVIOUS
  <2>2. /\ IsAddress(u) /\ u.root = "intelligence" /\ u.child = "industry-updates"
        /\ u.account = Nil
    BY <2>1, PlacesAre
  <2>3. RouteId(u) = "industry_updates"
    BY <2>2, Routes
  <2>4. Parse(u).tab = "industry_updates" /\ Parse(u).account = Nil /\ Parse(u).record = Nil
    BY <2>3, Parsed
  <2>5. LinkOK(Link(u, "industry_updates", Nil, Nil))
    BY <2>2, <2>3, <2>4, LeadsThere
  <2> QED
    BY <2>1, <2>5 DEF Open, TabPath
<1>7. \A x \in {"accounts", "ask", "prospecting", "map", "analysis", "capacity", "programs",
                "deliverables", "settings"} : TabPath[x] = Place(x)
  BY DEF TabPath
<1>8. Tabs = {"brief", "work_queue", "accounts", "ask", "prospecting", "trip_planner", "map",
              "analysis", "capacity", "programs", "industry_updates", "deliverables", "hubspot",
              "settings"}
  BY DEF Tabs, TabPath
<1> QED
  BY <1>2, <1>5, <1>6, <1>7, <1>8

(* The rail's entry of the trip planner.                                   *)
LEMMA OpensTrips == LinkOK([Open("trip_planner") EXCEPT !.tab = "prospecting"])
<1>1. PICK u : u = Place("prospecting")
  OBVIOUS
<1>2. IsAddress(u) /\ u.root = "prospecting" /\ u.child = Nil /\ u.account = Nil
  BY <1>1, PlacesAre
<1>3. RouteId(u) = "prospecting"
  BY <1>2, Routes
<1>4. Parse(u).tab = "prospecting" /\ Parse(u).account = Nil /\ Parse(u).record = Nil
  BY <1>2, <1>3, Parsed
<1>5. LinkOK(Link(u, "prospecting", Nil, Nil))
  BY <1>2, <1>3, <1>4, LeadsThere
<1>6. [Open("trip_planner") EXCEPT !.tab = "prospecting"] = Link(u, "prospecting", Nil, Nil)
  BY <1>1 DEF Open, Link, TabPath
<1> QED
  BY <1>5, <1>6

(* Links to a record: an account, an item of work, a document.             *)
LEMMA OpensRecords ==
  /\ \A a : LinkOK(OpenAccount(a)) /\ LinkOK(OpenWork(a))
  /\ \A a : LinkOK(OpenAbout("map", a)) /\ LinkOK(OpenAbout("prospecting", a))
  /\ \A d : d # "figures/new" => LinkOK(OpenPaper(d))
<1>1. ASSUME NEW a PROVE LinkOK(OpenAccount(a))
  <2>1. PICK u : u = Under("accounts", a)
    OBVIOUS
  <2>2. IsAddress(u) /\ u.root = "accounts" /\ u.child = a /\ u.account = Nil
    BY <2>1, PlacesAre
  <2>3. RouteId(u) = "accounts"
    BY <2>2, Routes
  <2>4. Parse(u).tab = "accounts" /\ Parse(u).account = a /\ Parse(u).record = Nil
    BY <2>2, <2>3, Parsed
  <2>5. LinkOK(Link(u, "accounts", a, Nil))
    BY <2>2, <2>3, <2>4, LeadsThere
  <2> QED
    BY <2>1, <2>5 DEF OpenAccount, AccountPath
<1>2. ASSUME NEW w PROVE LinkOK(OpenWork(w))
  <2>1. PICK u : u = Under("work", w)
    OBVIOUS
  <2>2. IsAddress(u) /\ u.root = "work" /\ u.child = w /\ u.account = Nil
    BY <2>1, PlacesAre
  <2>3. RouteId(u) = "work"
    BY <2>2, Routes
  <2>4. Parse(u).tab = "work_queue" /\ Parse(u).account = Nil /\ Parse(u).record = w
    BY <2>2, <2>3, Parsed
  <2>5. LinkOK(Link(u, "work_queue", Nil, w))
    BY <2>2, <2>3, <2>4, LeadsThere
  <2> QED
    BY <2>1, <2>5 DEF OpenWork, WorkItemPath
<1>3. ASSUME NEW a, NEW tab \in {"map", "prospecting"} PROVE LinkOK(OpenAbout(tab, a))
  <2>1. PICK u : u = About(tab, a)
    OBVIOUS
  <2>2. IsAddress(u) /\ u.root = tab /\ u.child = Nil /\ u.account = a /\ u.view = Nil
    BY <2>1, PlacesAre
  <2>3. RouteId(u) = tab
    BY <2>2, Routes
  <2>4. Parse(u).tab = tab /\ Parse(u).account = a /\ Parse(u).record = Nil
    BY <2>2, <2>3, Parsed
  <2>5. LinkOK(Link(u, tab, a, Nil))
    BY <2>2, <2>3, <2>4, LeadsThere
  <2>6. TabPath[tab].root = tab
    BY PlacesAre DEF TabPath
  <2> QED
    BY <2>1, <2>5, <2>6 DEF OpenAbout
<1>4. ASSUME NEW d, d # "figures/new" PROVE LinkOK(OpenPaper(d))
  <2>1. PICK u : u = Under("deliverables", d)
    OBVIOUS
  <2>2. IsAddress(u) /\ u.root = "deliverables" /\ u.child = d /\ u.account = Nil
    BY <2>1, PlacesAre
  <2>3. RouteId(u) = "deliverables"
    BY <2>2, Routes
  <2>4. Parse(u).tab = "deliverables" /\ Parse(u).account = Nil /\ Parse(u).record = d
    BY <1>4, <2>2, <2>3, Parsed
  <2>5. LinkOK(Link(u, "deliverables", Nil, d))
    BY <2>2, <2>3, <2>4, LeadsThere
  <2> QED
    BY <2>1, <2>5 DEF OpenPaper, DeliverablePath
<1> QED
  BY <1>1, <1>2, <1>3, <1>4

(* Links to the form of a figure.                                          *)
LEMMA OpensFigures == ASSUME NEW f PROVE LinkOK(OpenFigure(f))
<1>1. PICK u : u = FigureInsertPath(f)
  OBVIOUS
<1>2. IsAddress(u) /\ u.root = "deliverables" /\ u.child = "figures/new" /\ u.account = Nil
  BY <1>1 DEF FigureInsertPath, IsAddress, Under, Place
<1>3. RouteId(u) = "deliverables"
  BY <1>2, Routes
<1>4. Parse(u).tab = "deliverables" /\ Parse(u).account = Nil /\ Parse(u).record = Nil
  BY <1>2, <1>3, Parsed
<1>5. LinkOK(Link(u, "deliverables", Nil, Nil))
  BY <1>2, <1>3, <1>4, LeadsThere
<1> QED
  BY <1>1, <1>5 DEF OpenFigure

(* The parts of the address that the page and its records depend on.       *)
LEMMA SameRoute ==
  ASSUME NEW u, NEW w, u.root = w.root, u.child = w.child
  PROVE  RouteId(u) = RouteId(w)
BY Zenon DEF RouteId

(* So does what the page is open on.                                       *)
LEMMA SameParse ==
  ASSUME NEW u, NEW w, u.root = w.root, u.child = w.child, u.account = w.account
  PROVE  /\ Parse(u).id = Parse(w).id /\ Parse(u).tab = Parse(w).tab
         /\ Parse(u).account = Parse(w).account /\ Parse(u).record = Parse(w).record
<1>1. RouteId(u) = RouteId(w)
  BY SameRoute
<1> QED
  BY <1>1 DEF Parse

(* A link of another view to the same page.                                *)
LEMMA SameLink ==
  ASSUME NEW l, LinkOK(l), NEW w, IsAddress(w), w.root = l.url.root, w.child = l.url.child,
         w.account = l.url.account,
         l.url.account = Nil \/ w.view = l.url.view
  PROVE  LinkOK([l EXCEPT !.url = w])
<1>1. l = [url |-> l.url, tab |-> l.tab, account |-> l.account, record |-> l.record]
  BY DEF LinkOK
<1> PICK m : m = [l EXCEPT !.url = w]
  OBVIOUS
<1>2. /\ m = [url |-> m.url, tab |-> m.tab, account |-> m.account, record |-> m.record]
      /\ m.url = w /\ m.tab = l.tab /\ m.account = l.account /\ m.record = l.record
  BY <1>1
<1>3. ASSUME LinkLeads(l) PROVE LinkLeads(m)
  <2>1. /\ Parse(w).id = Parse(l.url).id /\ Parse(w).tab = Parse(l.url).tab
        /\ Parse(w).account = Parse(l.url).account /\ Parse(w).record = Parse(l.url).record
    BY SameParse
  <2> QED
    BY <1>2, <1>3, <2>1 DEF LinkLeads
<1> QED
  BY <1>2, <1>3 DEF LinkOK

(* The account that the effect has put into the store is the dossier's.    *)
LEMMA PreviewTwice ==
  ASSUME NEW u, NEW a
  PROVE  /\ PreviewAccount(u, PreviewAccount(u, a)) = PreviewAccount(u, a)
         /\ PreviewAccount(u, a) # Nil => PreviewAccount(u, a) \in {Parse(u).account, a}
         /\ PreviewAccount(u, a) = Nil /\ Parse(u).id # "accounts" => a = Nil
         /\ PreviewAccount(u, Nil) \in {Parse(u).account, Nil}
BY DEF PreviewAccount

(* What a patch does to the store's account.                               *)
LEMMA PatchedAccount ==
  ASSUME NEW s, "account" \in DOMAIN s
  PROVE  /\ \A u : /\ "account" \in DOMAIN Synced(s, u)
                   /\ Synced(s, u).account = PreviewAccount(u, s.account)
         /\ \A a : /\ "account" \in DOMAIN SetState(s, [account |-> a])
                   /\ SetState(s, [account |-> a]).account = a
         /\ \A n : /\ "account" \in DOMAIN SetState(s, [notice |-> n])
                   /\ SetState(s, [notice |-> n]).account = s.account
         /\ \A c, a : /\ "account" \in DOMAIN SetState(s, [city |-> c, account |-> a])
                      /\ SetState(s, [city |-> c, account |-> a]).account = a
         /\ \A a : LET p == [home |-> TRUE, settings |-> FALSE, tab |-> "brief", account |-> a]
                   IN  /\ "account" \in DOMAIN SetState(s, p)
                       /\ SetState(s, p).account = a
<1>1. ASSUME NEW u
      PROVE  /\ "account" \in DOMAIN Synced(s, u)
             /\ Synced(s, u).account = PreviewAccount(u, s.account)
  BY DEF Synced, SetState
<1>2. ASSUME NEW a
      PROVE  /\ "account" \in DOMAIN SetState(s, [account |-> a])
             /\ SetState(s, [account |-> a]).account = a
  BY DEF SetState
<1>3. ASSUME NEW n
      PROVE  /\ "account" \in DOMAIN SetState(s, [notice |-> n])
             /\ SetState(s, [notice |-> n]).account = s.account
  BY DEF SetState
<1>4. ASSUME NEW c, NEW a
      PROVE  /\ "account" \in DOMAIN SetState(s, [city |-> c, account |-> a])
             /\ SetState(s, [city |-> c, account |-> a]).account = a
  BY DEF SetState
<1>5. ASSUME NEW a
      PROVE  LET p == [home |-> TRUE, settings |-> FALSE, tab |-> "brief", account |-> a]
             IN  /\ "account" \in DOMAIN SetState(s, p)
                 /\ SetState(s, p).account = a
  BY DEF SetState
<1> QED
  BY <1>1, <1>2, <1>3, <1>4, <1>5
-----------------------------------------------------------------------------
(* The history of the browser holds links that lead where they are meant   *)
(* to; the user is at one of them.                                         *)
TrailOK(t) ==
  /\ t = [links |-> t.links, at |-> t.at]
  /\ \E S : t.links \in Seq(S) /\ \A l \in S : LinkOK(l)
  /\ t.at \in 1..Len(t.links)

(* The store has the dossier's account, or one that the address hides, and *)
(* none once the dossier is closed.                                        *)
DossierOK ==
  /\ "account" \in DOMAIN store
  /\ store.account \in sought \cup {Nil}
  /\ Dossier = Nil => store.account = Nil
  /\ Dossier # Nil => Dossier \in sought

(* The page that opens a document is on that of the address, and takes the *)
(* answer of no other.                                                     *)
FetchOK(f, paper) ==
  /\ f = [paper |-> f.paper, current |-> f.current]
  /\ f.current => f.paper = paper

ReaderOK ==
  /\ reader = [paper |-> reader.paper, remote |-> reader.remote, failed |-> reader.failed]
  /\ reader.paper = PaperAt(Url, loaded)
  /\ reader.remote \in {Nil, reader.paper}
  /\ \A f \in fetches : FetchOK(f, reader.paper)

ShellInv ==
  /\ TrailOK(trail)
  /\ DossierOK
  /\ ReaderOK
  /\ "figures/new" \notin shelf
-----------------------------------------------------------------------------
(* What the frame is, taken from its parts: the address decides.           *)
LEMMA FrameEnough == ShellInv => PageAsAsked
<1> SUFFICES ASSUME ShellInv PROVE PageAsAsked
  OBVIOUS
<1> PICK l : l = Here
  OBVIOUS
<1>1. LinkOK(l) /\ l.url = Url
  BY DEF ShellInv, TrailOK, Here, Url
<1>2. ASSUME l.tab # "typed", loaded
      PROVE  Stage = l.tab /\ Route.account = l.account /\ Route.record = l.record
  <2>1. Route.id # "not_found" /\ Route.tab = l.tab
        /\ Route.account = l.account /\ Route.record = l.record
    BY <1>1, <1>2 DEF LinkOK, LinkLeads, Route
  <2>2. Stage = Route.tab
    BY <1>2, <2>1 DEF Stage
  <2> QED
    BY <2>1, <2>2
<1>3. PaperAt(Url, loaded) \in {Nil, Route.record}
  BY DEF PaperAt, Route
<1>4. PaperShown # Nil => PaperShown = Route.record
  <2>1. PaperShown \in {Nil, reader.paper, reader.remote}
    BY DEF PaperShown
  <2> QED
    BY <1>3, <2>1 DEF PaperShown, ShellInv, ReaderOK
<1>5. DossierAsAsked
  BY DEF DossierAsAsked, ShellInv, DossierOK
<1> QED
  BY <1>2, <1>4, <1>5 DEF PageAsAsked, ShownAsAsked

(* A step on the history: a link is followed, or put in place of another.  *)
LEMMA TrailPushed ==
  ASSUME NEW l, LinkOK(l), TrailOK(trail)
  PROVE  TrailOK(Pushed(l)) /\ TrailOK(Replaced(l))
<1> PICK S : trail.links \in Seq(S) /\ \A k \in S : LinkOK(k)
  BY DEF TrailOK
<1> PICK T : T = S \cup {l}
  OBVIOUS
<1>1. trail.links \in Seq(T) /\ l \in T /\ \A k \in T : LinkOK(k)
  OBVIOUS
<1>2. trail.at \in 1..Len(trail.links) /\ Len(trail.links) \in Nat
  BY DEF TrailOK
<1>3. TrailOK(Pushed(l))
  <2> PICK kept : kept = SubSeq(trail.links, 1, trail.at)
    OBVIOUS
  <2>1. kept \in Seq(T) /\ Len(kept) = trail.at
    BY <1>1, <1>2
  <2> PICK t : t = [links |-> Append(kept, l), at |-> trail.at + 1]
    OBVIOUS
  <2>2. Append(kept, l) \in Seq(T) /\ Len(Append(kept, l)) = trail.at + 1
    BY <1>1, <2>1
  <2>3. t.links = Append(kept, l) /\ t.at = trail.at + 1 /\ t = [links |-> t.links, at |-> t.at]
    OBVIOUS
  <2>4. t.at \in 1..Len(t.links)
    BY <1>2, <2>2, <2>3
  <2>5. TrailOK(t)
    BY <1>1, <2>2, <2>3, <2>4 DEF TrailOK
  <2> QED
    BY <2>5 DEF Pushed
<1>4. TrailOK(Replaced(l))
  <2> PICK laid : laid = [trail.links EXCEPT ![trail.at] = l]
    OBVIOUS
  <2>1. laid \in Seq(T) /\ Len(laid) = Len(trail.links)
    BY <1>1, <1>2
  <2> PICK t : t = [trail EXCEPT !.links[trail.at] = l]
    OBVIOUS
  <2>2. t = [links |-> laid, at |-> trail.at]
    BY DEF TrailOK
  <2>3. TrailOK(t)
    BY <1>1, <1>2, <2>1, <2>2 DEF TrailOK
  <2> QED
    BY <2>3 DEF Replaced
<1> QED
  BY <1>3, <1>4

(* Back and forward in the history.                                        *)
LEMMA TrailGone ==
  ASSUME TrailOK(trail), NEW to \in 1..Len(trail.links)
  PROVE  TrailOK([trail EXCEPT !.at = to])
<1> PICK t : t = [trail EXCEPT !.at = to]
  OBVIOUS
<1>1. t = [links |-> trail.links, at |-> to]
  BY DEF TrailOK
<1> QED
  BY <1>1 DEF TrailOK

(* The document's page, when the frame is drawn again.                     *)
LEMMA ReaderRead ==
  ASSUME NEW paper, NEW kept, Reads(paper, kept),
         reader = [paper |-> reader.paper, remote |-> reader.remote, failed |-> reader.failed],
         reader.remote \in {Nil, reader.paper}, \A f \in fetches : FetchOK(f, reader.paper)
  PROVE  /\ reader' = [paper |-> reader'.paper, remote |-> reader'.remote,
                       failed |-> reader'.failed]
         /\ reader'.paper = paper
         /\ reader'.remote \in {Nil, paper}
         /\ \A f \in fetches' : FetchOK(f, paper)
<1>1. CASE paper = reader.paper
  BY <1>1 DEF Reads
<1>2. CASE paper # reader.paper
  <2>1. reader' = [paper |-> paper, remote |-> Nil, failed |-> FALSE]
    BY <1>2 DEF Reads, NoReader
  <2>2. ASSUME NEW f \in fetches PROVE FetchOK([f EXCEPT !.current = FALSE], paper)
    <3> PICK g : g = [f EXCEPT !.current = FALSE]
      OBVIOUS
    <3>1. f = [paper |-> f.paper, current |-> f.current]
      BY <2>2 DEF FetchOK
    <3>2. g = [paper |-> f.paper, current |-> FALSE]
      BY <3>1
    <3>3. ~g.current /\ g = [paper |-> g.paper, current |-> g.current]
      BY <3>2
    <3> QED
      BY <3>3 DEF FetchOK
  <2>3. FetchOK([paper |-> paper, current |-> TRUE], paper)
    BY DEF FetchOK
  <2>4. \A f \in fetches' : FetchOK(f, paper)
    BY <1>2, <2>2, <2>3 DEF Reads
  <2> QED
    BY <2>1, <2>4
<1> QED
  BY <1>1, <1>2

(* The frame drawn again, at any address and with any patch of the store   *)
(* that closes the dossier or keeps it, or opens one beside a page that is *)
(* not the accounts' own.                                                  *)
LEMMA Redrawn ==
  ASSUME ShellInv, NEW t, NEW s, NEW kept, NEW ready, NEW wanted, NEW work,
         Redraw(t, s, kept, ready, wanted, work),
         TrailOK(t), "account" \in DOMAIN s, s.account \in wanted \cup {Nil},
         \/ s.account \in {Nil, store.account}
         \/ Parse(t.links[t.at].url).id # "accounts",
         "figures/new" \notin kept
  PROVE  ShellInv'
<1> PICK u : u = t.links[t.at].url
  OBVIOUS
<1> PICK d : d = PreviewAccount(u, s.account)
  OBVIOUS
<1>1. trail' = t /\ Url' = u
  BY DEF Redraw, Url, Here
<1>2. /\ store' = IF <<d, Parse(u).tab>> = <<Dossier, Route.tab>> THEN s ELSE Synced(s, u)
      /\ sought' = IF d = Nil THEN {} ELSE (wanted \cup {Parse(u).account}) \ {Nil}
      /\ Reads(PaperAt(u, ready), kept) /\ loaded' = ready /\ shelf' = kept
  BY DEF Redraw
<1>3. Dossier' = PreviewAccount(u, store'.account)
  BY <1>1 DEF Dossier
<1>4. "account" \in DOMAIN store' /\ store'.account \in {s.account, d} /\ Dossier' = d
      /\ (store'.account = d \/ (store'.account = s.account /\ d = Dossier))
  <2>1. CASE store' = s
    <3>1. "account" \in DOMAIN store' /\ store'.account = s.account
      BY <2>1
    <3>2. Dossier' = d
      BY <1>3, <3>1
    <3>3. d = Dossier \/ s = Synced(s, u)
      BY <1>2, <2>1
    <3>4. d = Dossier \/ s.account = d
      BY <3>3, PatchedAccount
    <3> QED  BY <3>1, <3>2, <3>4
  <2>2. CASE store' = Synced(s, u)
    <3>1. "account" \in DOMAIN store' /\ store'.account = d
      BY <2>2, PatchedAccount
    <3>2. Dossier' = d
      BY <1>3, <3>1, PreviewTwice
    <3> QED  BY <3>1, <3>2
  <2> QED
    BY <1>2, <2>1, <2>2
<1>5. d = Nil => store'.account = Nil
  <2>1. ASSUME d = Nil, store'.account = s.account, d = Dossier PROVE s.account = Nil
    <3>1. store.account = Nil
      BY <2>1 DEF ShellInv, DossierOK
    <3>2. Parse(u).id # "accounts" => s.account = Nil
      BY <2>1, PreviewTwice, ZenonT(60)
    <3> QED
      BY <3>1, <3>2
  <2> QED
    BY <1>4, <2>1
<1>6. d # Nil => d \in sought' /\ store'.account \in sought' \cup {Nil}
  <2>1. d # Nil => d \in {Parse(u).account, s.account}
    BY PreviewTwice
  <2> QED
    BY <1>2, <1>4, <2>1
<1>7. DossierOK'
  BY <1>4, <1>5, <1>6 DEF DossierOK
<1>8. ReaderOK'
  <2>1. PaperAt(Url', loaded') = PaperAt(u, ready)
    BY <1>1, <1>2
  <2> QED
    BY <1>2, <2>1, ReaderRead DEF ReaderOK, ShellInv
<1> QED
  BY <1>1, <1>2, <1>7, <1>8 DEF ShellInv
-----------------------------------------------------------------------------
(* The page is loaded, at whatever address.                                *)
LEMMA ShellBegins == ShellInit => ShellInv
<1> SUFFICES ASSUME ShellInit PROVE ShellInv
  OBVIOUS
<1>1. PICK v \in Addresses :
        LET url == IF v.root = "" THEN Place("briefing") ELSE v IN
        /\ trail = [links |-> <<Typed(url)>>, at |-> 1]
        /\ store = Synced(NewStore, url)
        /\ sought = {Parse(url).account} \ {Nil}
  BY DEF ShellInit
<1>2. PICK url : /\ url = v \/ url = Place("briefing")
                 /\ trail = [links |-> <<Typed(url)>>, at |-> 1]
                 /\ store = Synced(NewStore, url)
                 /\ sought = {Parse(url).account} \ {Nil}
  BY <1>1, Zenon
<1>3. /\ loaded = FALSE /\ reader = NoReader /\ fetches = {} /\ shelf = HomePapers
  BY DEF ShellInit
<1>4. IsAddress(url)
  BY <1>2, ShellAssumption, PlacesAre DEF IsAddress
<1> PICK l : l = Typed(url)
  OBVIOUS
<1>5. LinkOK(l) /\ l.url = url
  BY <1>4 DEF Typed, Link, LinkOK
<1>6. TrailOK(trail) /\ Url = url
  <2>1. trail.links = <<l>> /\ trail.at = 1 /\ trail = [links |-> trail.links, at |-> trail.at]
    BY <1>2
  <2>2. trail.links \in Seq({l}) /\ Len(trail.links) = 1 /\ trail.links[1] = l
    BY <2>1
  <2>3. \E S : trail.links \in Seq(S) /\ \A k \in S : LinkOK(k)
    <3>1. \A k \in {l} : LinkOK(k)
      BY <1>5
    <3> QED
      BY <2>2, <3>1
  <2>4. trail.at \in 1..Len(trail.links)
    BY <2>1, <2>2
  <2>5. Url = url
    BY <1>5, <2>1, <2>2 DEF Url, Here
  <2> QED
    BY <2>1, <2>3, <2>4, <2>5 DEF TrailOK
<1>7. "account" \in DOMAIN NewStore /\ NewStore.account = Nil
  BY DEF NewStore
<1>8. "account" \in DOMAIN store /\ store.account = PreviewAccount(url, Nil)
  BY <1>2, <1>7, PatchedAccount
<1>9. DossierOK
  <2>1. Dossier = store.account
    BY <1>6, <1>8, PreviewTwice DEF Dossier
  <2>2. store.account \in {Parse(url).account, Nil}
    BY <1>8, PreviewTwice
  <2> QED
    BY <1>2, <1>8, <2>1, <2>2 DEF DossierOK
<1>10. ReaderOK
  BY <1>3 DEF ReaderOK, NoReader, PaperAt
<1>11. "figures/new" \notin shelf
  BY <1>3, ShellAssumption
<1> QED
  BY <1>6, <1>9, <1>10, <1>11 DEF ShellInv

(* The address as it is, whatever else is drawn again; and one that the    *)
(* user goes to, with the dossier as it is or closed.                      *)
LEMMA GoneOn ==
  ASSUME ShellInv, NEW t, TrailOK(t), Go(t, store, sought)
  PROVE  ShellInv'
BY Redrawn DEF Go, ShellInv, DossierOK

(* The same with a store whose dossier is closed.                          *)
LEMMA GoneClosed ==
  ASSUME ShellInv, NEW t, TrailOK(t), NEW s, "account" \in DOMAIN s, s.account = Nil,
         Go(t, s, {})
  PROVE  ShellInv'
BY Redrawn DEF Go, ShellInv

(* A click into the page, a close, and going home leave no dossier.        *)
LEMMA MainClosed ==
  ASSUME ShellInv
  PROVE  /\ "account" \in DOMAIN InMain /\ InMain.account = Nil
         /\ "account" \in DOMAIN Closed /\ Closed.account = Nil
         /\ "account" \in DOMAIN GoHome /\ GoHome.account = Nil
<1>1. "account" \in DOMAIN store /\ (Dossier = Nil => store.account = Nil)
  BY DEF ShellInv, DossierOK
<1> QED
  BY <1>1, PatchedAccount DEF InMain, Closed, GoHome

(* What the rail, the page and the palette offer.                          *)
LEMMA RailOK == \A l \in RailLinks : LinkOK(l)
BY OpensTab, OpensTrips DEF RailLinks

(* Tabs that the code opens by name.                                       *)
LEMMA TabsHave ==
  {"brief", "work_queue", "deliverables", "hubspot"} \subseteq Tabs \ {"trip_planner"}
BY DEF Tabs, TabPath

(* What the page offers, and the bar above it.                             *)
LEMMA PageLinksOK ==
  ASSUME ShellInv PROVE \A l \in StageLinks \cup TopLinks : LinkOK(l)
<1>1. LinkOK(Open("brief")) /\ LinkOK(Open("work_queue")) /\ LinkOK(Open("deliverables"))
      /\ LinkOK(Open("hubspot"))
  BY TabsHave, OpensTab
<1>2. \A d \in Papers \cup shelf : LinkOK(OpenPaper(d))
  BY OpensRecords, ShellAssumption DEF ShellInv
<1>3. LinkOK(OpenFigure("default"))
  BY OpensFigures
<1>4. ASSUME NEW l \in StageLinks PROVE LinkOK(l)
  <2>1. \/ l \in {Open("brief"), Open("work_queue"), Open("deliverables"), OpenFigure("default")}
        \/ \E w \in WorkRows : l = OpenWork(w)
        \/ \E a \in Subjects : l = OpenAccount(a)
        \/ \E a \in Subjects : l = OpenAbout("prospecting", a)
        \/ \E a \in Subjects : l = OpenAbout("map", a)
        \/ \E d \in Papers \cup shelf : l = OpenPaper(d)
    BY <1>4 DEF StageLinks
  <2> QED
    BY <1>1, <1>2, <1>3, <2>1, OpensRecords
<1> QED
  BY <1>1, <1>4 DEF TopLinks

(* What the palette offers.                                                *)
LEMMA PaletteOK == \A l \in PaletteLinks : LinkOK(l)
BY RailOK, OpensRecords DEF PaletteLinks
-----------------------------------------------------------------------------
(* The steps.  An address of another view has the same page.               *)
LEMMA ViewOK ==
  ASSUME ShellInv, Stage \in {"accounts", "work_queue", "deliverables"}, NEW v
  PROVE  LinkOK([Here EXCEPT !.url.view = v])
<1> PICK l : l = Here
  OBVIOUS
<1>1. LinkOK(l) /\ l.url = Url
  BY DEF ShellInv, TrailOK, Here, Url
<1> PICK u : u = l.url
  OBVIOUS
<1> PICK w : w = [u EXCEPT !.view = v]
  OBVIOUS
<1>2. IsAddress(u)
  BY <1>1 DEF LinkOK
<1>3. /\ IsAddress(w) /\ w.root = u.root /\ w.child = u.child /\ w.account = u.account
  BY <1>2 DEF IsAddress
<1>4. [l EXCEPT !.url.view = v] = [l EXCEPT !.url = w]
  BY <1>1 DEF LinkOK
<1>5. CASE l.tab = "typed"
  <2> PICK m : m = [l EXCEPT !.url = w]
    OBVIOUS
  <2>1. /\ m = [url |-> m.url, tab |-> m.tab, account |-> m.account, record |-> m.record]
        /\ m.url = w /\ m.tab = "typed"
    BY <1>1, <1>5 DEF LinkOK
  <2> QED
    BY <1>3, <1>4, <2>1 DEF LinkOK
<1>6. CASE l.tab # "typed"
  <2>1. Route.tab \in {"accounts", "work_queue", "deliverables"}
    BY DEF Stage
  <2>2. u.account = Nil
    BY <1>1, <1>6, <2>1 DEF LinkOK, LinkLeads, Route
  <2> QED
    BY <1>1, <1>3, <1>4, <2>2, SameLink
<1> QED
  BY <1>5, <1>6

(* So has the address without its view.                                    *)
LEMMA ViewLeft ==
  ASSUME ShellInv, Url.view # Nil
  PROVE  LinkOK([Here EXCEPT !.url = Under(Url.root, Url.child)])
<1> PICK l : l = Here
  OBVIOUS
<1>1. LinkOK(l) /\ l.url = Url
  BY DEF ShellInv, TrailOK, Here, Url
<1> PICK w : w = Under(Url.root, Url.child)
  OBVIOUS
<1>2. IsAddress(w) /\ w.root = l.url.root /\ w.child = l.url.child /\ w.account = Nil
  BY <1>1, PlacesAre
<1>3. CASE l.tab = "typed"
  <2> PICK m : m = [l EXCEPT !.url = w]
    OBVIOUS
  <2>1. /\ m = [url |-> m.url, tab |-> m.tab, account |-> m.account, record |-> m.record]
        /\ m.url = w /\ m.tab = "typed"
    BY <1>1, <1>3 DEF LinkOK
  <2> QED
    BY <1>2, <2>1 DEF LinkOK
<1>4. CASE l.tab # "typed"
  <2>1. l.url.account = Nil
    BY <1>1, <1>4 DEF LinkOK, LinkLeads
  <2> QED
    BY <1>1, <1>2, <2>1, SameLink
<1> QED
  BY <1>3, <1>4

(* Every step keeps the frame as it is asked for.                          *)
LEMMA ShellGoesOn == ShellInv /\ [ShellNext]_shellVars => ShellInv'
<1> SUFFICES ASSUME ShellInv, [ShellNext]_shellVars PROVE ShellInv'
  OBVIOUS
<1>1. TrailOK(trail) /\ "figures/new" \notin shelf /\ "account" \in DOMAIN store
      /\ store.account \in sought \cup {Nil}
  BY DEF ShellInv, DossierOK
<1>2. CASE WorldCame
  BY <1>1, <1>2, Redrawn DEF WorldCame
<1>3. CASE UseRail
  BY <1>1, <1>3, RailOK, TrailPushed, GoneOn DEF UseRail
<1>4. CASE UsePage
  BY <1>1, <1>4, PageLinksOK, TrailPushed, MainClosed, GoneClosed DEF UsePage
<1>5. CASE UsePageReplacing
  BY <1>1, <1>5, TabsHave, OpensTab, OpensFigures, TrailPushed, MainClosed, GoneClosed
     DEF UsePageReplacing
<1>6. CASE ChangeView
  BY <1>1, <1>6, ViewOK, TrailPushed, MainClosed, GoneClosed DEF ChangeView
<1>7. CASE Traverse
  BY <1>1, <1>7, TrailGone, GoneOn DEF Traverse
<1>8. CASE OpenPalette
  BY <1>1, <1>8, MainClosed, GoneOn, GoneClosed DEF OpenPalette
<1>9. CASE UsePalette
  BY <1>1, <1>9, PaletteOK, TrailPushed, MainClosed, GoneClosed DEF UsePalette
<1>10. CASE PickDossier
  <2>1. PICK a : Go(trail, SetState(store, [account |-> a]), {a})
    BY <1>10 DEF PickDossier
  <2> PICK s : s = SetState(store, [account |-> a])
    OBVIOUS
  <2>2. "account" \in DOMAIN s /\ s.account = a
    BY <1>1, PatchedAccount
  <2>3. Route.tab = "prospecting"
    BY <1>10 DEF PickDossier, Stage
  <2>4. Parse(Url).id # "accounts"
    BY <2>3, Parsed DEF Route
  <2>5. Redraw(trail, s, shelf, loaded, {a}, runs)
    BY <2>1 DEF Go
  <2> QED
    BY <1>1, <2>2, <2>4, <2>5, Redrawn DEF Url, Here
<1>11. CASE CloseDossier
  BY <1>1, <1>11, MainClosed, GoneClosed DEF CloseDossier
<1>12. CASE PickMarket
  BY <1>1, <1>12, PatchedAccount, GoneClosed DEF PickMarket
<1>13. CASE PressEscape
  <2>1. \/ Go(trail, store, sought) \/ Go(trail, Closed, {})
        \/ /\ Url.view # Nil
           /\ Go(Pushed([Here EXCEPT !.url = Under(Url.root, Url.child)]), store, sought)
        \/ Go(Pushed(Open("deliverables")), store, sought)
        \/ Go(trail, GoHome, {})
    BY <1>13 DEF PressEscape
  <2> QED
    BY <1>1, <2>1, ViewLeft, TabsHave, OpensTab, TrailPushed, MainClosed, GoneOn, GoneClosed
<1>14. CASE StartRun
  BY <1>14 DEF StartRun, ShellInv, TrailOK, DossierOK, ReaderOK, Dossier, Url, Here
<1>15. CASE EndRun
  <2>1. PICK left :
          \/ \E d \in Sketches :
               Redraw(Pushed(OpenPaper(d)), Closed, shelf \cup {d}, loaded, {}, left)
          \/ Redraw(trail, store, shelf, loaded, sought, left)
    BY <1>15 DEF EndRun
  <2>2. ASSUME NEW d \in Sketches,
               Redraw(Pushed(OpenPaper(d)), Closed, shelf \cup {d}, loaded, {}, left)
        PROVE  ShellInv'
    <3>1. d # "figures/new"
      BY ShellAssumption
    <3>2. TrailOK(Pushed(OpenPaper(d)))
      BY <1>1, <3>1, OpensRecords, TrailPushed
    <3> QED
      BY <1>1, <2>2, <3>1, <3>2, MainClosed, Redrawn
  <2>3. ASSUME Redraw(trail, store, shelf, loaded, sought, left) PROVE ShellInv'
    BY <1>1, <2>3, Redrawn
  <2> QED
    BY <2>1, <2>2, <2>3
<1>16. CASE ReadEnds
  <2>1. PICK f \in fetches :
          /\ fetches' = fetches \ {f}
          /\ IF f.current
               THEN \/ reader' = [reader EXCEPT !.remote = f.paper]
                    \/ reader' = [reader EXCEPT !.failed = TRUE]
               ELSE UNCHANGED reader
          /\ UNCHANGED <<trail, store, loaded, shelf, sought>>
    BY <1>16 DEF ReadEnds
  <2>2. FetchOK(f, reader.paper) /\ ReaderOK
    BY DEF ShellInv, ReaderOK
  <2>3. /\ reader' = [paper |-> reader'.paper, remote |-> reader'.remote,
                      failed |-> reader'.failed]
        /\ reader'.paper = reader.paper
        /\ reader'.remote \in {Nil, reader.paper}
    BY <2>1, <2>2 DEF ReaderOK, FetchOK
  <2>4. Url' = Url /\ Dossier' = Dossier
    BY <2>1 DEF Url, Here, Dossier
  <2>5. ReaderOK'
    BY <2>1, <2>2, <2>3, <2>4 DEF ReaderOK
  <2> QED
    BY <2>1, <2>4, <2>5 DEF ShellInv, DossierOK
<1>17. CASE OpenNotice \/ CancelNotice
  <2>1. PICK n : store' = SetState(store, [notice |-> n])
    BY <1>17 DEF OpenNotice, CancelNotice
  <2>2. UNCHANGED <<trail, loaded, reader, fetches, shelf, sought>>
    BY <1>17 DEF OpenNotice, CancelNotice
  <2>3. "account" \in DOMAIN store' /\ store'.account = store.account
    BY <1>1, <2>1, PatchedAccount
  <2>4. Url' = Url /\ Dossier' = Dossier
    BY <2>2, <2>3 DEF Url, Here, Dossier
  <2> QED
    BY <2>2, <2>3, <2>4 DEF ShellInv, DossierOK, ReaderOK
<1>18. CASE ConfirmNotice \/ NoticeAnswered \/ UNCHANGED shellVars
  <2>1. UNCHANGED <<trail, store, loaded, reader, fetches, shelf, sought>>
    BY <1>18 DEF ConfirmNotice, NoticeAnswered, shellVars
  <2> QED
    BY <2>1 DEF ShellInv, DossierOK, ReaderOK, Dossier, Url, Here
<1>19. CASE TimerFires
  <2> PICK s : s = SetState(store, [notice |-> Nil])
    OBVIOUS
  <2>1. "account" \in DOMAIN s /\ s.account = store.account
    BY <1>1, PatchedAccount
  <2>2. Redraw(Pushed(Open("work_queue")), s, shelf, loaded, sought, runs)
    BY <1>19 DEF TimerFires, Go
  <2>3. TrailOK(Pushed(Open("work_queue")))
    BY <1>1, TabsHave, OpensTab, TrailPushed
  <2> QED
    BY <1>1, <2>1, <2>2, <2>3, Redrawn
<1> QED
  BY <1>2, <1>3, <1>4, <1>5, <1>6, <1>7, <1>8, <1>9, <1>10, <1>11, <1>12, <1>13, <1>14, <1>15,
     <1>16, <1>17, <1>18, <1>19 DEF ShellNext

(* Whatever the user follows, goes back to, closes and makes, and however  *)
(* late the answers are, the page and the dossier are those that the       *)
(* address or the user asked for (PageAsAsked).                            *)
THEOREM PageAlwaysAsAsked == ShellSpec => []PageAsAsked
BY ShellBegins, ShellGoesOn, FrameEnough, PTL DEF ShellSpec
-----------------------------------------------------------------------------
(* The library of documents.                                               *)

(* The copies of one browser: each document once.                          *)
CopiesOK(s) ==
  /\ s \in Seq([doc : Docs, record : Nat])
  /\ \A i, j \in DOMAIN s : s[i].doc = s[j].doc => i = j

(* A number, of a copy or of a post, is of a record with its document.     *)
Numbered(x) == x.record # 0 => x.record \in DOMAIN stored /\ stored[x.record] = x.doc

(* What is so of a document none of whose saves was lost.                  *)
Traced(d) ==
  /\ \A p, q \in posts : p.doc = d /\ q.doc = d => p = q
  /\ \A p \in posts, r \in DOMAIN stored : p.doc = d /\ stored[r] = d => r = p.record
  /\ \A r, s \in DOMAIN stored : stored[r] = d /\ stored[s] = d => r = s
  /\ (\A p \in posts : p.doc # d) =>
       \A c \in Copies, r \in DOMAIN stored : c.doc = d /\ stored[r] = d => c.record = r

LibraryTyped ==
  /\ memory = [documents |-> memory.documents, activity |-> memory.activity,
               notes |-> memory.notes]
  /\ CopiesOK(memory.documents)
  /\ stored \in Seq(Docs \cup {Foreign})
  /\ library = [shown |-> library.shown, loading |-> library.loading, stale |-> library.stale,
                account |-> library.account, type |-> library.type]
  /\ library.shown \subseteq DOMAIN stored
  /\ \A l \in loads : /\ l = [n |-> l.n, answer |-> l.answer]
                      /\ l.answer # Nothing => l.answer \subseteq DOMAIN stored
  /\ \A p \in posts : p \in [doc : Docs, record : Nat]

LibraryInv ==
  /\ LibraryTyped
  /\ \A c \in Copies : Numbered(c)
  /\ \A p \in posts : Numbered(p)
  /\ \A d \in Docs \ unsure : Traced(d)
-----------------------------------------------------------------------------

(* What is kept after a save: the copy, and the others that were kept.     *)
LEMMA SavedKeeps ==
  ASSUME NEW m, m = [documents |-> m.documents, activity |-> m.activity, notes |-> m.notes],
         CopiesOK(m.documents), NEW copy \in [doc : Docs, record : Nat]
  PROVE  LET n == Saved(m, copy) IN
         /\ n = [documents |-> n.documents, activity |-> n.activity, notes |-> n.notes]
         /\ CopiesOK(n.documents)
         /\ \A c \in ToSet(n.documents) :
              c = copy \/ (c \in ToSet(m.documents) /\ c.doc # copy.doc)
<1> DEFINE C == [doc : Docs, record : Nat]
           s == m.documents
           old == {i \in DOMAIN s : s[i].doc = copy.doc}
           others == IF old = {} THEN s ELSE RemoveAt(s, CHOOSE i \in old : TRUE)
           all == <<copy>> \o others
           cut == SubSeq(all, 1, IF Len(all) < MaxKept THEN Len(all) ELSE MaxKept)
<1>1. s \in Seq(C) /\ (\A i, j \in DOMAIN s : s[i].doc = s[j].doc => i = j)
  BY DEF CopiesOK
<1>2. /\ others \in Seq(C)
      /\ \A i, j \in DOMAIN others : others[i].doc = others[j].doc => i = j
      /\ \A i \in DOMAIN others : others[i].doc # copy.doc /\ \E k \in DOMAIN s : others[i] = s[k]
  <2>1. CASE old = {}
    <3>1. others = s
      BY <2>1
    <3>2. \A i \in DOMAIN s : s[i].doc # copy.doc
      BY <2>1
    <3> HIDE DEF s, others, old, C
    <3> QED
      BY <1>1, <3>1, <3>2
  <2>2. CASE old # {}
    <3>1. PICK k \in old : k = CHOOSE i \in old : TRUE
      BY <2>2
    <3>2. k \in DOMAIN s /\ s[k].doc = copy.doc
      BY <3>1
    <3>3. others = RemoveAt(s, k)
      BY <2>2, <3>1
    <3> HIDE DEF s, others, old, C
    <3>4. /\ RemoveAt(s, k) \in Seq(C)
          /\ DOMAIN RemoveAt(s, k) = 1..(Len(s) - 1)
          /\ \A j \in 1..(Len(s) - 1) : RemoveAt(s, k)[j] = s[IF j < k THEN j ELSE j + 1]
      BY <1>1, <3>2, Removed
    <3>5. DOMAIN s = 1..Len(s) /\ Len(s) \in Nat /\ k \in 1..Len(s)
      BY <1>1, <3>2, LenProperties
    <3>6. \A j \in 1..(Len(s) - 1) :
            /\ (IF j < k THEN j ELSE j + 1) \in DOMAIN s
            /\ (IF j < k THEN j ELSE j + 1) # k
      BY <3>5
    <3>7. \A i, j \in 1..(Len(s) - 1) :
            (IF i < k THEN i ELSE i + 1) = (IF j < k THEN j ELSE j + 1) => i = j
      BY <3>5
    <3>8. \A i \in DOMAIN others : others[i].doc # copy.doc /\ \E n \in DOMAIN s : others[i] = s[n]
      BY <1>1, <3>2, <3>3, <3>4, <3>6
    <3>9. ASSUME NEW i \in DOMAIN others, NEW j \in DOMAIN others, others[i].doc = others[j].doc
          PROVE  i = j
      <4>1. i \in 1..(Len(s) - 1) /\ j \in 1..(Len(s) - 1)
        BY <3>3, <3>4
      <4>2. PICK a, b : a = (IF i < k THEN i ELSE i + 1) /\ b = (IF j < k THEN j ELSE j + 1)
        OBVIOUS
      <4>3. a \in DOMAIN s /\ b \in DOMAIN s /\ s[a].doc = s[b].doc
        BY <3>3, <3>4, <3>6, <3>9, <4>1, <4>2
      <4>4. a = b
        BY <1>1, <4>3
      <4> QED
        BY <3>7, <4>1, <4>2, <4>4
    <3> QED
      BY <3>3, <3>4, <3>8, <3>9
  <2> QED
    BY <2>1, <2>2
<1> HIDE DEF others, old
<1>3. copy \in C
  OBVIOUS
<1> HIDE DEF C
<1>4. /\ all \in Seq(C) /\ Len(all) = Len(others) + 1 /\ Len(others) \in Nat
      /\ all[1] = copy
      /\ \A i \in 2..Len(all) : all[i] = others[i - 1] /\ i - 1 \in DOMAIN others
      /\ DOMAIN all = 1..Len(all)
  <2>1. <<copy>> \in Seq(C) /\ Len(<<copy>>) = 1 /\ <<copy>>[1] = copy
    BY <1>3
  <2>2. Len(others) \in Nat /\ DOMAIN others = 1..Len(others)
    BY <1>2, LenProperties
  <2>3. /\ all \in Seq(C) /\ Len(all) = 1 + Len(others)
        /\ \A i \in 1..(1 + Len(others)) :
              all[i] = IF i <= 1 THEN <<copy>>[i] ELSE others[i - 1]
    BY <1>2, <2>1, <2>2, ConcatProperties
  <2>4. DOMAIN all = 1..Len(all)
    BY <2>3, LenProperties
  <2> HIDE DEF all
  <2> QED
    BY <2>1, <2>2, <2>3, <2>4
<1> HIDE DEF all
<1>5. \A i, j \in DOMAIN all : all[i].doc = all[j].doc => i = j
  <2>1. \A i \in DOMAIN all : i # 1 => i \in 2..Len(all) /\ all[i].doc # copy.doc
    BY <1>2, <1>4
  <2>2. ASSUME NEW i \in 2..Len(all), NEW j \in 2..Len(all), all[i].doc = all[j].doc
        PROVE  i = j
    <3>1. i - 1 = j - 1
      BY <1>2, <1>4, <2>2
    <3> QED
      BY <3>1
  <2> QED
    BY <1>4, <2>1, <2>2
<1>6. \A i \in DOMAIN all : all[i] = copy \/ (all[i].doc # copy.doc /\ \E k \in DOMAIN s : all[i] = s[k])
  BY <1>2, <1>4
<1>7. PICK n : n = (IF Len(all) < MaxKept THEN Len(all) ELSE MaxKept)
  OBVIOUS
<1>8. n \in Nat /\ n <= Len(all)
  BY <1>4, <1>7, LibraryAssumption
<1>9. /\ cut \in Seq(C) /\ DOMAIN cut = 1..n
      /\ \A i \in 1..n : cut[i] = all[i] /\ i \in DOMAIN all
  <2>1. cut = SubSeq(all, 1, n)
    BY <1>7
  <2>2. \A i \in 1..n : 1 + i - 1 = i /\ i \in 1..Len(all)
    BY <1>8, <1>4
  <2>3. \A i \in 1..n : i \in DOMAIN all
    BY <2>2, <1>4
  <2> HIDE DEF cut
  <2>4. cut \in Seq(C) /\ Len(cut) = n /\ \A i \in 1..n : cut[i] = all[i]
    <3>1. 1 \in 1..(Len(all) + 1) /\ n \in 0..Len(all)
      BY <1>4, <1>8
    <3>2. /\ SubSeq(all, 1, n) \in Seq(C)
          /\ Len(SubSeq(all, 1, n)) = n
          /\ \A i \in 1..n : SubSeq(all, 1, n)[i] = all[i]
      BY <1>4, <1>8, <3>1, SubSeqProperties
    <3> QED
      BY <2>1, <3>2
  <2> QED
    BY <2>3, <2>4, <1>8, LenProperties
<1>10. Saved(m, copy) = [documents |-> cut, activity |-> Capped(m.activity, MaxLog), notes |-> m.notes]
  <2>1. Saved(m, copy) = Log([m EXCEPT !.documents = cut])
    BY DEF Saved, cut, all, others, old
  <2> HIDE DEF cut
  <2>2. PICK k : k = [documents |-> cut, activity |-> m.activity, notes |-> m.notes]
    OBVIOUS
  <2>3. [m EXCEPT !.documents = cut] = k
    BY <2>2
  <2>4. Log(k) = [documents |-> cut, activity |-> Capped(m.activity, MaxLog), notes |-> m.notes]
    BY <2>2 DEF Log
  <2> QED
    BY <2>1, <2>3, <2>4
<1> HIDE DEF cut
<1>11. CopiesOK(cut)
  BY <1>5, <1>9 DEF CopiesOK, C
<1>12. \A c \in ToSet(cut) : c = copy \/ (c \in ToSet(s) /\ c.doc # copy.doc)
  BY <1>6, <1>9 DEF ToSet
<1> QED
  BY <1>10, <1>11, <1>12
(* What does not concern a document leaves it traced.                      *)
LEMMA TracedStays ==
  ASSUME NEW d, Traced(d),
         \A p : p.doc = d => (p \in posts' <=> p \in posts),
         \A r \in DOMAIN stored' : stored'[r] = d => r \in DOMAIN stored /\ stored[r] = d,
         \A c \in Copies' : c.doc = d => c \in Copies
  PROVE  Traced(d)'
BY DEF Traced

(* The page and its first call, as they are when it is loaded.             *)
LEMMA PageFresh ==
  ASSUME NEW p, p = [NewPage EXCEPT !.loading = TRUE],
         NEW ls, ls = {[n |-> 1, answer |-> Nothing]}
  PROVE  /\ p = [shown |-> p.shown, loading |-> p.loading, stale |-> p.stale,
                 account |-> p.account, type |-> p.type]
         /\ p.shown = {}
         /\ \A l \in ls : l = [n |-> l.n, answer |-> l.answer] /\ l.answer = Nothing
<1> DEFINE Shaped(s, l, t, a, y) ==
             [shown |-> s, loading |-> l, stale |-> t, account |-> a, type |-> y]
<1>1. \E a, b, c : p = Shaped({}, a, b, c, c)
  <2>1. p = Shaped({}, TRUE, FALSE, "all", "all")
    BY DEF NewPage
  <2> HIDE DEF Shaped
  <2> QED
    BY <2>1
<1>2. PICK k : k = [n |-> 1, answer |-> Nothing]
  OBVIOUS
<1>3. k = [n |-> k.n, answer |-> k.answer] /\ k.answer = Nothing
  BY <1>2
<1>4. \A l \in ls : l = [n |-> l.n, answer |-> l.answer] /\ l.answer = Nothing
  BY <1>2, <1>3
<1>5. p.shown = {} /\ p = [shown |-> p.shown, loading |-> p.loading, stale |-> p.stale,
                          account |-> p.account, type |-> p.type]
  BY <1>1
<1> QED
  BY <1>4, <1>5

LEMMA LibraryBegins == LibraryInit => LibraryInv
<1> SUFFICES ASSUME LibraryInit PROVE LibraryInv
  OBVIOUS
<1>1. /\ memory \in {EmptyMemory}
          \cup {[EmptyMemory EXCEPT !.documents = <<Kept(d, 0)>>, !.activity = 1] : d \in Docs}
      /\ stored = <<>>
      /\ library = [NewPage EXCEPT !.loading = TRUE]
      /\ loads = {[n |-> 1, answer |-> Nothing]}
      /\ posts = {}
  BY DEF LibraryInit
<1>2. /\ memory = [documents |-> memory.documents, activity |-> memory.activity,
                   notes |-> memory.notes]
      /\ CopiesOK(memory.documents) /\ \A c \in Copies : c.record = 0
  <2>1. CASE memory = EmptyMemory
    <3>1. memory = [documents |-> <<>>, activity |-> 0, notes |-> 0]
      BY <2>1 DEF EmptyMemory
    <3>2. CopiesOK(<<>>) /\ ToSet(<<>>) = {}
      BY DEF CopiesOK, ToSet
    <3>3. memory.documents = <<>>
      BY <3>1
    <3> QED
      BY <3>1, <3>2, <3>3 DEF Copies
  <2>2. CASE memory # EmptyMemory
    <3>1. PICK d \in Docs : memory = [EmptyMemory EXCEPT !.documents = <<Kept(d, 0)>>, !.activity = 1]
      BY <1>1, <2>2
    <3>2. PICK k : k = Kept(d, 0)
      OBVIOUS
    <3>3. k \in [doc : Docs, record : Nat] /\ k.record = 0
      BY <3>2 DEF Kept
    <3>4. memory = [documents |-> <<k>>, activity |-> 1, notes |-> 0]
      BY <3>1, <3>2 DEF EmptyMemory
    <3>5. memory.documents = <<k>>
      BY <3>4
    <3>6. CopiesOK(<<k>>) /\ \A c \in ToSet(<<k>>) : c = k
      <4>1. DOMAIN <<k>> = {1} /\ <<k>>[1] = k
        OBVIOUS
      <4>2. <<k>> \in Seq([doc : Docs, record : Nat])
        BY <3>3
      <4> QED
        BY <4>1, <4>2 DEF CopiesOK, ToSet
    <3> QED
      BY <3>3, <3>4, <3>5, <3>6 DEF Copies
  <2> QED
    BY <2>1, <2>2
<1>3. stored \in Seq(Docs \cup {Foreign}) /\ DOMAIN stored = {}
  <2>1. <<>> \in Seq(Docs \cup {Foreign}) /\ DOMAIN <<>> = {}
    OBVIOUS
  <2> QED
    BY <1>1, <2>1
<1>4. LibraryTyped
  <2>1. /\ library = [shown |-> library.shown, loading |-> library.loading, stale |-> library.stale,
                      account |-> library.account, type |-> library.type]
        /\ library.shown = {}
        /\ \A l \in loads : l = [n |-> l.n, answer |-> l.answer] /\ l.answer = Nothing
    BY <1>1, PageFresh
  <2> QED
    BY <1>1, <1>2, <1>3, <2>1 DEF LibraryTyped
<1>5. (\A c \in Copies : Numbered(c)) /\ (\A p \in posts : Numbered(p)) /\ (\A d : Traced(d))
  BY <1>1, <1>2, <1>3 DEF Numbered, Traced
<1> QED
  BY <1>4, <1>5 DEF LibraryInv

(* What only the page does.                                                *)
LEMMA PageMoves ==
  ASSUME LibraryInv, UNCHANGED <<memory, stored, posts, unsure>>,
         NEW p, library' = p,
         p = [shown |-> p.shown, loading |-> p.loading, stale |-> p.stale,
              account |-> p.account, type |-> p.type],
         p.shown \subseteq DOMAIN stored,
         \A l \in loads' : /\ l = [n |-> l.n, answer |-> l.answer]
                           /\ l.answer # Nothing => l.answer \subseteq DOMAIN stored
  PROVE  LibraryInv'
<1>1. LibraryTyped'
  BY DEF LibraryInv, LibraryTyped
<1>2. Copies' = Copies /\ (\A c : Numbered(c)' <=> Numbered(c)) /\ (\A d : Traced(d)' <=> Traced(d))
  BY DEF Copies, Numbered, Traced
<1> QED
  BY <1>1, <1>2 DEF LibraryInv

(* What a save changes, whatever the calls do.                             *)
LEMMA MemorySaved ==
  ASSUME LibraryInv, NEW copy \in [doc : Docs, record : Nat], memory' = Saved(memory, copy)
  PROVE  /\ memory' = [documents |-> memory'.documents, activity |-> memory'.activity,
                       notes |-> memory'.notes]
         /\ CopiesOK(memory'.documents)
         /\ \A c \in Copies' : c = copy \/ (c \in Copies /\ c.doc # copy.doc)
BY SavedKeeps DEF LibraryInv, LibraryTyped, Copies

LEMMA MakeAndSendTraced == ASSUME LibraryInv, MakeAndSend PROVE LibraryInv'
<1>1. PICK d \in Docs :
        /\ Kept(d, 0) \in Copies \/ ~Exists(d)
        /\ Kept(d, 0) \notin posts
        /\ memory' = Saved(memory, Kept(d, 0))
        /\ posts' = posts \cup {Kept(d, 0)}
        /\ unsure' = unsure \cup {p.doc : p \in {p \in posts : p.doc = d}}
  BY DEF MakeAndSend, Kept
<1>2. UNCHANGED <<stored, library, loads>>
  BY DEF MakeAndSend
<1>3. PICK k : k = Kept(d, 0)
  OBVIOUS
<1>4. k \in [doc : Docs, record : Nat] /\ k.doc = d /\ k.record = 0
  BY <1>3 DEF Kept
<1>5. /\ memory' = [documents |-> memory'.documents, activity |-> memory'.activity,
                    notes |-> memory'.notes]
      /\ CopiesOK(memory'.documents)
      /\ \A c \in Copies' : c = k \/ (c \in Copies /\ c.doc # d)
  BY <1>1, <1>3, <1>4, MemorySaved
<1>6. LibraryTyped'
  BY <1>1, <1>2, <1>3, <1>4, <1>5 DEF LibraryInv, LibraryTyped
<1>7. (\A c \in Copies' : Numbered(c)') /\ (\A p \in posts' : Numbered(p)')
  BY <1>1, <1>2, <1>3, <1>4, <1>5 DEF LibraryInv, Numbered
<1>8. ASSUME NEW e \in Docs, e \notin unsure' PROVE Traced(e)'
  <2>1. e \notin unsure /\ Traced(e)
    BY <1>1, <1>8 DEF LibraryInv
  <2>2. CASE e # d
    BY <1>1, <1>2, <1>3, <1>4, <1>5, <2>1, <2>2, TracedStays
  <2>3. CASE e = d
    <3>1. \A p \in posts : p.doc # d
      BY <1>1, <1>8, <2>3
    <3>2. \A r \in DOMAIN stored : stored[r] # d
      <4>1. \A r \in DOMAIN stored : r # 0
        BY LenProperties DEF LibraryInv, LibraryTyped
      <4> QED
        BY <1>1, <1>3, <1>4, <2>1, <2>3, <3>1, <4>1 DEF Traced, Exists
    <3> QED
      BY <1>1, <1>2, <1>3, <1>5, <2>3, <3>1, <3>2 DEF Traced
  <2> QED
    BY <2>2, <2>3
<1> QED
  BY <1>6, <1>7, <1>8 DEF LibraryInv

LEMMA MakeHereTraced == ASSUME LibraryInv, MakeHere PROVE LibraryInv'
<1>1. PICK d \in Docs : ~Exists(d) /\ memory' = Saved(memory, Kept(d, 0))
  BY DEF MakeHere
<1>2. UNCHANGED <<stored, library, loads, posts, unsure>>
  BY DEF MakeHere
<1>3. PICK k : k = Kept(d, 0)
  OBVIOUS
<1>4. k \in [doc : Docs, record : Nat] /\ k.doc = d /\ k.record = 0
  BY <1>3 DEF Kept
<1>5. /\ memory' = [documents |-> memory'.documents, activity |-> memory'.activity,
                    notes |-> memory'.notes]
      /\ CopiesOK(memory'.documents)
      /\ \A c \in Copies' : c = k \/ (c \in Copies /\ c.doc # d)
  BY <1>1, <1>3, <1>4, MemorySaved
<1>6. LibraryTyped'
  BY <1>2, <1>5 DEF LibraryInv, LibraryTyped
<1>7. (\A c \in Copies' : Numbered(c)') /\ (\A p \in posts' : Numbered(p)')
  BY <1>2, <1>4, <1>5 DEF LibraryInv, Numbered
<1>8. ASSUME NEW e \in Docs, e \notin unsure' PROVE Traced(e)'
  <2>1. Traced(e)
    BY <1>2, <1>8 DEF LibraryInv
  <2>2. CASE e # d
    BY <1>2, <1>4, <1>5, <2>1, <2>2, TracedStays
  <2>3. CASE e = d
    BY <1>1, <1>2, <2>3 DEF Traced, Exists
  <2> QED
    BY <2>2, <2>3
<1> QED
  BY <1>6, <1>7, <1>8 DEF LibraryInv

(* A new record of the backend.                                            *)
LEMMA StoredGrows ==
  ASSUME LibraryInv, NEW d \in Docs \cup {Foreign}, stored' = Append(stored, d)
  PROVE  /\ stored' \in Seq(Docs \cup {Foreign})
         /\ DOMAIN stored \subseteq DOMAIN stored'
         /\ Len(stored') \in DOMAIN stored' /\ Len(stored') \in Nat /\ Len(stored') # 0
         /\ Len(stored') \notin DOMAIN stored
         /\ stored'[Len(stored')] = d
         /\ \A r \in DOMAIN stored : stored'[r] = stored[r]
         /\ \A r \in DOMAIN stored' : r \in DOMAIN stored \/ r = Len(stored')
<1>1. /\ stored \in Seq(Docs \cup {Foreign}) /\ DOMAIN stored = 1..Len(stored)
      /\ Len(stored) \in Nat
  BY LenProperties DEF LibraryInv, LibraryTyped
<1>2. /\ stored' \in Seq(Docs \cup {Foreign}) /\ Len(stored') = Len(stored) + 1
      /\ \A r \in 1..Len(stored) : stored'[r] = stored[r]
      /\ stored'[Len(stored) + 1] = d
  BY <1>1, AppendProperties
<1>3. DOMAIN stored' = 1..Len(stored')
  BY <1>2, LenProperties
<1> QED
  BY <1>1, <1>2, <1>3

LEMMA ServePostTraced == ASSUME LibraryInv, ServePost PROVE LibraryInv'
<1>1. PICK p \in posts :
        /\ p.record = 0
        /\ stored' = Append(stored, p.doc)
        /\ posts' = (posts \ {p}) \cup {[p EXCEPT !.record = Len(stored')]}
        /\ UNCHANGED <<memory, library, loads, uses, unsure>>
  BY DEF ServePost
<1>2. p \in [doc : Docs, record : Nat]
  BY DEF LibraryInv, LibraryTyped
<1>3. PICK n : n = Len(stored')
  OBVIOUS
<1>4. /\ stored' \in Seq(Docs \cup {Foreign})
      /\ DOMAIN stored \subseteq DOMAIN stored'
      /\ n \in DOMAIN stored' /\ n \in Nat /\ n # 0 /\ n \notin DOMAIN stored
      /\ stored'[n] = p.doc
      /\ \A r \in DOMAIN stored : stored'[r] = stored[r]
      /\ \A r \in DOMAIN stored' : r \in DOMAIN stored \/ r = n
  BY <1>1, <1>2, <1>3, StoredGrows
<1>5. PICK q : q = [doc |-> p.doc, record |-> n]
  OBVIOUS
<1>6. posts' = (posts \ {p}) \cup {q} /\ q \in [doc : Docs, record : Nat]
  BY <1>1, <1>2, <1>3, <1>4, <1>5
<1>7. q.doc = p.doc /\ q.record = n
  BY <1>5
<1>8. LibraryTyped'
  BY <1>1, <1>4, <1>6 DEF LibraryInv, LibraryTyped
<1>9. Copies' = Copies
  BY <1>1 DEF Copies
<1>10. (\A c \in Copies' : Numbered(c)') /\ (\A x \in posts' : Numbered(x)')
  BY <1>4, <1>6, <1>7, <1>9 DEF LibraryInv, Numbered
<1>11. ASSUME NEW e \in Docs, e \notin unsure' PROVE Traced(e)'
  <2>1. Traced(e)
    BY <1>1, <1>11 DEF LibraryInv
  <2>2. CASE e # p.doc
    BY <1>4, <1>6, <1>7, <1>9, <2>1, <2>2, TracedStays
  <2>3. CASE e = p.doc
    <3>1. \A r \in DOMAIN stored : r # 0
      BY LenProperties DEF LibraryInv, LibraryTyped
    <3>2. (\A x \in posts : x.doc = e => x = p) /\ \A r \in DOMAIN stored : stored[r] # e
      BY <1>1, <2>1, <2>3, <3>1 DEF Traced
    <3> QED
      BY <1>4, <1>6, <1>7, <2>3, <3>2 DEF Traced
  <2> QED
    BY <2>2, <2>3
<1> QED
  BY <1>8, <1>10, <1>11 DEF LibraryInv

LEMMA PostAnsweredTraced == ASSUME LibraryInv, PostAnswered PROVE LibraryInv'
<1>1. PICK p \in posts :
        /\ p.record # 0
        /\ memory' = Saved(memory, Kept(p.doc, p.record))
        /\ posts' = posts \ {p}
        /\ UNCHANGED <<stored, library, loads, uses, unsure>>
  BY DEF PostAnswered
<1>2. p \in [doc : Docs, record : Nat] /\ Numbered(p)
  BY DEF LibraryInv, LibraryTyped
<1>3. Kept(p.doc, p.record) = p
  BY <1>2 DEF Kept
<1>4. /\ memory' = [documents |-> memory'.documents, activity |-> memory'.activity,
                    notes |-> memory'.notes]
      /\ CopiesOK(memory'.documents)
      /\ \A c \in Copies' : c = p \/ (c \in Copies /\ c.doc # p.doc)
  BY <1>1, <1>2, <1>3, MemorySaved
<1>5. LibraryTyped'
  BY <1>1, <1>4 DEF LibraryInv, LibraryTyped
<1>6. (\A c \in Copies' : Numbered(c)') /\ (\A x \in posts' : Numbered(x)')
  BY <1>1, <1>2, <1>4 DEF LibraryInv, Numbered
<1>7. ASSUME NEW e \in Docs, e \notin unsure' PROVE Traced(e)'
  <2>1. Traced(e)
    BY <1>1, <1>7 DEF LibraryInv
  <2>2. CASE e # p.doc
    BY <1>1, <1>4, <2>1, <2>2, TracedStays
  <2>3. CASE e = p.doc
    BY <1>1, <1>4, <2>1, <2>3 DEF Traced
  <2> QED
    BY <2>2, <2>3
<1> QED
  BY <1>5, <1>6, <1>7 DEF LibraryInv

LEMMA PostFailsTraced == ASSUME LibraryInv, PostFails PROVE LibraryInv'
<1>1. PICK p \in posts :
        /\ posts' = posts \ {p}
        /\ unsure' = IF p.record # 0 THEN unsure \cup {p.doc} ELSE unsure
        /\ UNCHANGED <<memory, stored, library, loads, uses>>
  BY DEF PostFails
<1>2. LibraryTyped' /\ Copies' = Copies
  BY <1>1 DEF LibraryInv, LibraryTyped, Copies
<1>3. (\A c \in Copies' : Numbered(c)') /\ (\A x \in posts' : Numbered(x)')
  BY <1>1, <1>2 DEF LibraryInv, Numbered
<1>4. ASSUME NEW e \in Docs, e \notin unsure' PROVE Traced(e)'
  <2>1. Traced(e)
    BY <1>1, <1>4 DEF LibraryInv
  <2>2. CASE e # p.doc
    BY <1>1, <1>2, <2>1, <2>2, TracedStays
  <2>3. CASE e = p.doc
    <3>1. \A r \in DOMAIN stored : r # 0
      BY LenProperties DEF LibraryInv, LibraryTyped
    <3>2. p.record = 0
      BY <1>1, <1>4, <2>3
    <3>3. \A r \in DOMAIN stored : stored[r] # e
      BY <2>1, <2>3, <3>1, <3>2 DEF Traced
    <3> QED
      BY <1>1, <1>2, <2>1, <3>3 DEF Traced
  <2> QED
    BY <2>2, <2>3
<1> QED
  BY <1>2, <1>3, <1>4 DEF LibraryInv

LEMMA OthersMakeTraced == ASSUME LibraryInv, OthersMake PROVE LibraryInv'
<1>1. stored' = Append(stored, Foreign) /\ UNCHANGED <<memory, library, loads, posts, unsure>>
  BY DEF OthersMake
<1>2. PICK n : n = Len(stored')
  OBVIOUS
<1>3. /\ stored' \in Seq(Docs \cup {Foreign})
      /\ DOMAIN stored \subseteq DOMAIN stored'
      /\ stored'[n] = Foreign
      /\ \A r \in DOMAIN stored : stored'[r] = stored[r]
      /\ \A r \in DOMAIN stored' : r \in DOMAIN stored \/ r = n
  BY <1>1, <1>2, StoredGrows
<1>4. LibraryTyped' /\ Copies' = Copies
  BY <1>1, <1>3 DEF LibraryInv, LibraryTyped, Copies
<1>5. (\A c \in Copies' : Numbered(c)') /\ (\A x \in posts' : Numbered(x)')
  BY <1>1, <1>3, <1>4 DEF LibraryInv, Numbered
<1>6. ASSUME NEW e \in Docs, e \notin unsure' PROVE Traced(e)'
  <2>1. Traced(e) /\ e # Foreign
    BY <1>1, <1>6, LibraryAssumption DEF LibraryInv
  <2> QED
    BY <1>1, <1>3, <1>4, <2>1, TracedStays
<1> QED
  BY <1>4, <1>5, <1>6 DEF LibraryInv

(* Notes, and a memory that is wiped.                                      *)
LEMMA MemoryTraced == ASSUME LibraryInv, SaveNote \/ ClearMemory PROVE LibraryInv'
<1>1. UNCHANGED <<stored, library, loads, posts, unsure>>
  BY DEF SaveNote, ClearMemory
<1>2. /\ memory' = [documents |-> memory'.documents, activity |-> memory'.activity,
                    notes |-> memory'.notes]
      /\ CopiesOK(memory'.documents) /\ Copies' \subseteq Copies
  <2>1. CASE SaveNote
    <3>1. PICK m : m = [memory EXCEPT !.notes = Capped(@, MaxLog)]
      OBVIOUS
    <3>2. m = [documents |-> memory.documents, activity |-> memory.activity, notes |-> m.notes]
      BY <3>1 DEF LibraryInv, LibraryTyped
    <3>3. memory' = Log(m)
      BY <2>1, <3>1 DEF SaveNote
    <3>4. memory' = [documents |-> memory.documents, activity |-> Capped(m.activity, MaxLog),
                     notes |-> m.notes]
      BY <3>2, <3>3 DEF Log
    <3> QED
      BY <3>4 DEF LibraryInv, LibraryTyped, Copies
  <2>2. CASE ClearMemory
    <3>1. memory' = [documents |-> <<>>, activity |-> 0, notes |-> 0]
      BY <2>2 DEF ClearMemory, EmptyMemory
    <3>2. memory'.documents = <<>>
      BY <3>1
    <3>3. CopiesOK(<<>>) /\ ToSet(<<>>) = {}
      BY DEF CopiesOK, ToSet
    <3> QED
      BY <3>1, <3>2, <3>3 DEF Copies
  <2> QED
    BY <2>1, <2>2
<1>3. LibraryTyped'
  BY <1>1, <1>2 DEF LibraryInv, LibraryTyped
<1>4. (\A c \in Copies' : Numbered(c)') /\ (\A x \in posts' : Numbered(x)')
  BY <1>1, <1>2 DEF LibraryInv, Numbered
<1>5. ASSUME NEW e \in Docs, e \notin unsure' PROVE Traced(e)'
  BY <1>1, <1>2, <1>5, TracedStays DEF LibraryInv
<1> QED
  BY <1>3, <1>4, <1>5 DEF LibraryInv

LEMMA ReloadTraced == ASSUME LibraryInv, Reload PROVE LibraryInv'
<1>1. /\ library' = [NewPage EXCEPT !.loading = TRUE]
      /\ loads' = {[n |-> 1, answer |-> Nothing]}
      /\ posts' = {}
      /\ unsure' = unsure \cup {p.doc : p \in posts}
      /\ UNCHANGED <<memory, stored>>
  BY DEF Reload
<1>2. LibraryTyped' /\ Copies' = Copies
  <2>1. /\ library' = [shown |-> library'.shown, loading |-> library'.loading,
                       stale |-> library'.stale, account |-> library'.account,
                       type |-> library'.type]
        /\ library'.shown = {}
        /\ \A l \in loads' : l = [n |-> l.n, answer |-> l.answer] /\ l.answer = Nothing
    BY <1>1, PageFresh
  <2> QED
    BY <1>1, <2>1 DEF LibraryInv, LibraryTyped, Copies
<1>3. (\A c \in Copies' : Numbered(c)') /\ (\A x \in posts' : Numbered(x)')
  BY <1>1, <1>2 DEF LibraryInv, Numbered
<1>4. ASSUME NEW e \in Docs, e \notin unsure' PROVE Traced(e)'
  <2>1. Traced(e) /\ \A p \in posts : p.doc # e
    BY <1>1, <1>4 DEF LibraryInv
  <2> QED
    BY <1>1, <1>2, <2>1, TracedStays
<1> QED
  BY <1>2, <1>3, <1>4 DEF LibraryInv

(* The page's own steps.                                                   *)
LEMMA PageTraced ==
  ASSUME LibraryInv, Refresh \/ ServeList \/ RefreshAnswered \/ Filter \/ NewDeliverable
  PROVE  LibraryInv'
<1> DEFINE IsLoad(l) == /\ l = [n |-> l.n, answer |-> l.answer]
                        /\ l.answer # Nothing => l.answer \subseteq DOMAIN stored
           IsPage(p) == /\ p = [shown |-> p.shown, loading |-> p.loading, stale |-> p.stale,
                                account |-> p.account, type |-> p.type]
                        /\ p.shown \subseteq DOMAIN stored
<1>1. UNCHANGED <<memory, stored, posts, unsure>>
  BY DEF Refresh, ServeList, RefreshAnswered, Filter, NewDeliverable
<1>2. (\A l \in loads : IsLoad(l)) /\ IsPage(library)
  BY DEF LibraryInv, LibraryTyped
<1>3. (\A l \in loads' : IsLoad(l)) /\ IsPage(library')
  <2>1. CASE Refresh
    <3>1. PICK n \in 1..MaxLoading : loads' = loads \cup {[n |-> n, answer |-> Nothing]}
      BY <2>1 DEF Refresh
    <3>2. library' = [library EXCEPT !.loading = TRUE]
      BY <2>1 DEF Refresh
    <3>3. IsPage(library')
      BY <1>2, <3>2
    <3>4. \A l \in loads' : l \in loads \/ l = [n |-> n, answer |-> Nothing]
      BY <3>1
    <3> QED
      BY <1>1, <1>2, <3>3, <3>4
  <2>2. CASE ServeList
    <3>1. PICK l \in loads : loads' = (loads \ {l}) \cup {[l EXCEPT !.answer = DOMAIN stored]}
      BY <2>2 DEF ServeList
    <3>2. [l EXCEPT !.answer = DOMAIN stored] = [n |-> l.n, answer |-> DOMAIN stored]
      BY <1>2
    <3> QED
      BY <1>2, <2>2, <3>1, <3>2 DEF ServeList
  <2>3. CASE RefreshAnswered
    BY <1>2, <2>3 DEF RefreshAnswered
  <2>4. CASE Filter
    BY <1>2, <2>4 DEF Filter
  <2>5. CASE NewDeliverable
    BY <1>2, <2>5 DEF NewDeliverable
  <2> QED
    BY <2>1, <2>2, <2>3, <2>4, <2>5
<1> QED
  BY <1>1, <1>3, PageMoves

LEMMA LibraryKept == LibraryInv /\ [LibraryNext]_libraryVars => LibraryInv'
<1> SUFFICES ASSUME LibraryInv, [LibraryNext]_libraryVars PROVE LibraryInv'
  OBVIOUS
<1>1. CASE UNCHANGED libraryVars
  BY <1>1 DEF libraryVars, LibraryInv, LibraryTyped, Numbered, Traced, Copies
<1> QED
  BY <1>1, MakeAndSendTraced, MakeHereTraced, ServePostTraced, PostAnsweredTraced, PostFailsTraced,
     OthersMakeTraced, MemoryTraced, ReloadTraced, PageTraced DEF LibraryNext

(* A document that is listed twice has two records or is unsure.           *)
LEMMA TracedListedOnce == LibraryInv => ListedOnce
<1> SUFFICES ASSUME LibraryInv PROVE ListedOnce
  OBVIOUS
<1> DEFINE card(d, r, source) == [doc |-> d, key |-> r, source |-> source]
           here == {card(c.doc, c.record, "local") : c \in
                      {c \in Copies : c.record = 0 \/ c.record \notin library.shown}}
           there == {card(stored[r], r, "backend") : r \in library.shown}
<1>1. Cards = {c \in here \cup there : DocAccount[c.doc] \in KnownAccounts \cup {Nothing}}
  BY DEF Cards
<1>2. Filtered(Cards, "all", "all") = Cards
  BY DEF Filtered
<1> SUFFICES ASSUME NEW d \in Docs
    PROVE  LET cards == {c \in Cards : c.doc = d} IN
           /\ (\E c \in Copies : c.doc = d) /\ DocAccount[d] \in KnownAccounts \cup {Nothing} =>
                cards # {}
           /\ d \notin unsure /\ (\A p \in posts : p.doc # d) => Cardinality(cards) <= 1
  BY <1>2 DEF ListedOnce
<1> DEFINE cards == {c \in Cards : c.doc = d}
<1>3. ASSUME NEW c \in Copies, c.doc = d, DocAccount[d] \in KnownAccounts \cup {Nothing}
      PROVE  cards # {}
  <2>1. CASE c.record = 0 \/ c.record \notin library.shown
    <3>1. card(c.doc, c.record, "local") \in here
      BY <2>1
    <3>2. card(c.doc, c.record, "local").doc = d
      BY <1>3
    <3> QED
      BY <1>1, <1>3, <3>1, <3>2
  <2>2. CASE ~(c.record = 0 \/ c.record \notin library.shown)
    <3>1. stored[c.record] = d
      BY <1>3, <2>2 DEF LibraryInv, Numbered
    <3>2. card(d, c.record, "backend") \in there
      BY <2>2, <3>1
    <3>3. card(d, c.record, "backend").doc = d
      OBVIOUS
    <3> QED
      BY <1>1, <1>3, <3>2, <3>3
  <2> QED
    BY <2>1, <2>2
<1>4. ASSUME d \notin unsure, \A p \in posts : p.doc # d
      PROVE  Cardinality(cards) <= 1
  <2>1. Traced(d)
    BY <1>4 DEF LibraryInv
  <2>2. \A b, c \in Copies : b.doc = d /\ c.doc = d => b = c
    BY DEF LibraryInv, LibraryTyped, CopiesOK, Copies, ToSet
  <2>3. /\ \A c \in Copies, r \in DOMAIN stored : c.doc = d /\ stored[r] = d => c.record = r
        /\ \A r, s \in DOMAIN stored : stored[r] = d /\ stored[s] = d => r = s
    BY <1>4, <2>1 DEF Traced
  <2>4. library.shown \subseteq DOMAIN stored /\ 0 \notin DOMAIN stored
    BY LenProperties DEF LibraryInv, LibraryTyped
  <2>5. \A x \in here : x.doc = d => \E c \in Copies :
          /\ c.doc = d /\ (c.record = 0 \/ c.record \notin library.shown)
          /\ x = card(d, c.record, "local")
    OBVIOUS
  <2>6. \A x \in there : x.doc = d => \E r \in library.shown :
          stored[r] = d /\ x = card(d, r, "backend")
    OBVIOUS
  <2>7. \A x, y \in here : x.doc = d /\ y.doc = d => x = y
    BY <2>2, <2>5
  <2>8. \A x, y \in there : x.doc = d /\ y.doc = d => x = y
    BY <2>3, <2>4, <2>6
  <2>9. \A x \in here, y \in there : ~(x.doc = d /\ y.doc = d)
    BY <2>3, <2>4, <2>5, <2>6
  <2>10. \A x, y \in cards : x = y
    <3> HIDE DEF here, there
    <3> QED
      BY <1>1, <2>7, <2>8, <2>9
  <2> HIDE DEF cards
  <2>11. cards = {} \/ \E x : cards = {x}
    BY <2>10
  <2> QED
    <3>1. CASE cards = {}
      BY <3>1, FS_EmptySet
    <3>2. CASE \E x : cards = {x}
      <4>1. PICK x : cards = {x}
        BY <3>2
      <4>2. Cardinality({x}) = 1
        BY FS_Singleton
      <4> QED
        BY <4>1, <4>2
    <3> QED
      BY <2>11, <3>1, <3>2
<1> HIDE DEF cards
<1> QED
  BY <1>3, <1>4 DEF cards

(* Without a filter, each document of this browser whose account the world *)
(* knows has a card, and one only, but while its save is on its way or     *)
(* after a save whose answer never came.                                   *)
THEOREM DocumentsAlwaysListedOnce == LibrarySpec => []ListedOnce
BY LibraryBegins, LibraryKept, TracedListedOnce, PTL DEF LibrarySpec
-----------------------------------------------------------------------------
(* The surfaces together.  What a step of one surface leaves alone, the    *)
(* others still have; so each of them goes on by its own specification.    *)
THEOREM CockpitSurfaces ==
  CockpitSpec => /\ MonitorSpec /\ ListsSpec /\ EvidenceSpec /\ LibrarySpec
                 /\ EditorSpec /\ CrmSpec /\ PortalSpec /\ ShellSpec /\ AskSteps
<1>1. CockpitInit => /\ MonitorInit /\ ListsInit /\ EvidenceInit /\ LibraryInit
                     /\ EditorInit /\ CrmInit /\ PortalInit /\ ShellInit /\ AskInit
  BY DEF CockpitInit
<1>2. ASSUME [CockpitNext]_cockpitVars
      PROVE  /\ [MonitorNext]_monitorVars /\ [ListsNext]_listVars /\ [EvidenceNext]_evidenceVars
             /\ [EditorNext]_editorVars /\ [CrmNext]_crmVars /\ [PortalNext]_portalVars
             /\ [ShellNext]_shellVars /\ [LibraryNext]_libraryVars /\ [AskNext]_askVars
  <2>1. CASE AskStep
    BY <2>1 DEF AskStep, AskOnly
  <2>2. CASE EditorStep
    BY <2>2 DEF EditorStep
  <2>3. CASE CrmStep
    BY <2>3 DEF CrmStep, CrmNext
  <2>4. CASE PortalStep
    BY <2>4 DEF PortalStep
  <2>5. CASE UpdatesStep
    BY <2>5 DEF UpdatesStep
  <2>6. CASE ListsStep
    BY <2>6 DEF ListsStep
  <2>7. CASE ShellStep
    BY <2>7 DEF ShellStep
  <2>8. CASE LibraryStep
    BY <2>8 DEF LibraryStep
  <2>9. CASE EvidenceStep
    BY <2>9 DEF EvidenceStep
  <2>10. CASE UNCHANGED cockpitVars
    BY <2>10 DEF cockpitVars
  <2> QED
    BY <1>2, <2>1, <2>2, <2>3, <2>4, <2>5, <2>6, <2>7, <2>8, <2>9, <2>10 DEF CockpitNext
<1> QED
  BY <1>1, <1>2, PTL DEF CockpitSpec, MonitorSpec, ListsSpec, EvidenceSpec, LibrarySpec, EditorSpec,
     CrmSpec, PortalSpec, ShellSpec, AskSteps

(* What the timelines keep is kept in a session of any surface too.        *)
THEOREM CockpitTimelines == CockpitSpec => TimelineKept
BY CockpitSurfaces, TimelineAlwaysKept, PTL

(* In a session of whatever surface: undo gives back what the review       *)
(* replaced, lists and evidence are what was chosen and listed, edits and  *)
(* copies are kept, HubSpot has what was reviewed, the scripts make and    *)
(* archive no more than they may, the frame shows what was asked for, a    *)
(* document is listed once, the searches keep to their budget, and the     *)
(* thread is the one on record.                                            *)
THEOREM CockpitHolds ==
  CockpitSpec =>
    [](/\ UndoRestores /\ ListAsChosen /\ EvidenceTold /\ EditsSafe /\ CopiesAgree
       /\ WritesAsReviewed /\ SeedComplete /\ CleanupSpares /\ PageAsAsked
       /\ ListedOnce /\ BudgetKept /\ ThreadTold)
BY CockpitSurfaces, UndoAlwaysRestores, ListsAlwaysAsChosen, EvidenceAlwaysTold, EditsAlwaysSafe,
   CopiesAlwaysAgree, WritesAlwaysReviewed, SeedAlwaysComplete, CleanupAlwaysSpares,
   PageAlwaysAsAsked, DocumentsAlwaysListedOnce, AskHolds, PTL
=============================================================================
