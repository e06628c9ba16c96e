--------------------------------- MODULE Shell ---------------------------------
(***************************************************************************)
(* The frame of the cockpit (frontend/src/App.tsx): the address bar and    *)
(* the router that reads it (app/router.ts), the store of what the user is *)
(* looking at (store/store.ts), the rail, the command palette, the dossier *)
(* beside the page, the notice over it, and the page that opens a saved    *)
(* document.  What a page shows is left to the modules of the surfaces.    *)
(*                                                                         *)
(* The account of the dossier has two sources, the address and the store,  *)
(* and an effect copies the one that counts into the store.                *)
(***************************************************************************)
EXTENDS Naturals, Sequences, FiniteSets

CONSTANTS
  Nil,
  Subjects,     \* accounts of the world
  WorkRows,     \* its work items
  Papers,       \* the saved documents
  HomePapers,   \* those that this browser has from the start
  Sketches,     \* documents that the dossier may yet have made
  Cities,
  Addresses,    \* what the address bar may hold when the page is loaded
  MaxActs       \* bound on what the user does

VARIABLES
  trail,        \* the browser's history: the links that were followed
  store,        \* store/store.ts
  palette,      \* commandOpen
  loaded,       \* the world has come
  reader,       \* RoutedDocumentViewer
  fetches,      \* its calls that are not answered
  shelf,        \* documents of this browser (memory.deliverables)
  runs,         \* documents that are being made from a dossier
  notice,       \* the dialog of the notice: what it waits for
  acts,
  sought         \* history: accounts asked for since the dossier last closed

shellVars == <<trail, store, palette, loaded, reader, fetches, shelf, runs, notice,
               acts, sought>>
-----------------------------------------------------------------------------
(* An address: its path, the parameters of its query that the frame reads, *)
(* and the figure that the parameters metric, viz, rows and cols describe. *)
Place(root) ==
  [root |-> root, child |-> Nil, account |-> Nil, view |-> Nil, figure |-> Nil]

Under(root, child) == [Place(root) EXCEPT !.child = child]
About(root, account) == [Place(root) EXCEPT !.account = account]

(* The address of the figure's form is not that of a document.             *)
ASSUME ShellAssumption ==
  /\ \A u \in Addresses :
       u = [root |-> u.root, child |-> u.child, account |-> u.account, view |-> u.view,
            figure |-> u.figure]
  /\ "figures/new" \notin Papers \cup HomePapers \cup Sketches

RouteNames ==
  [today |-> "today", briefing |-> "today", work |-> "work", accounts |-> "accounts",
   programs |-> "programs", prospecting |-> "prospecting", capacity |-> "capacity",
   analysis |-> "analysis", map |-> "map", ask |-> "ask",
   deliverables |-> "deliverables", integrations |-> "integrations",
   settings |-> "settings"]

RouteTab ==
  [today |-> "brief", work |-> "work_queue", accounts |-> "accounts",
   programs |-> "programs", industry_updates |-> "industry_updates",
   prospecting |-> "prospecting", capacity |-> "capacity", analysis |-> "analysis",
   map |-> "map", ask |-> "ask", deliverables |-> "deliverables",
   integrations |-> "hubspot", settings |-> "settings", not_found |-> "brief"]

RouteId(u) ==
  CASE u.root = "" -> "today"
    [] u.root = "intelligence" /\ u.child = "industry-updates" -> "industry_updates"
    [] u.root \in DOMAIN RouteNames -> RouteNames[u.root]
    [] OTHER -> "not_found"

(* parseAppRoute: record is the item, program, conversation or document.   *)
Parse(u) ==
  LET id == RouteId(u)
      figure == u.child = "figures/new"
  IN [id |-> id,
      tab |-> RouteTab[id],
      account |->
        CASE id = "accounts" -> u.child
          [] id \in {"prospecting", "capacity", "analysis", "map", "deliverables"} -> u.account
          [] OTHER -> Nil,
      record |->
        IF id \in {"work", "programs", "ask"} \/ (id = "deliverables" /\ ~figure)
          THEN u.child ELSE Nil,
      view |->
        CASE id # "deliverables" -> Nil
          [] figure -> "insert_figure"
          [] OTHER -> IF u.child = Nil THEN "library" ELSE "document"]

TabPath ==
  [brief |-> Place("briefing"), work_queue |-> Place("work"),
   accounts |-> Place("accounts"), ask |-> Place("ask"),
   prospecting |-> Place("prospecting"), trip_planner |-> Place("prospecting"),
   map |-> Place("map"), analysis |-> Place("analysis"), capacity |-> Place("capacity"),
   programs |-> Place("programs"),
   industry_updates |-> Under("intelligence", "industry-updates"),
   deliverables |-> Place("deliverables"), hubspot |-> Place("integrations"),
   settings |-> Place("settings")]

AccountPath(a) == Under("accounts", a)
WorkItemPath(w) == Under("work", w)
DeliverablePath(d) == Under("deliverables", d)
FigureInsertPath(f) == [Under("deliverables", "figures/new") EXCEPT !.figure = f]

(* A description that is not known is read as the default one.             *)
FigureSpec(u) == IF u.figure \in {"chart", "default"} THEN u.figure ELSE "default"
-----------------------------------------------------------------------------
(* A link, and what it is meant to lead to.                                *)
Link(url, tab, account, record) ==
  [url |-> url, tab |-> tab, account |-> account, record |-> record]
Typed(url) == Link(url, "typed", Nil, Nil)

Open(tab) == Link(TabPath[tab], tab, Nil, Nil)
OpenAccount(a) == Link(AccountPath(a), "accounts", a, Nil)
OpenWork(w) == Link(WorkItemPath(w), "work_queue", Nil, w)
OpenPaper(d) == Link(DeliverablePath(d), "deliverables", Nil, d)
OpenAbout(tab, a) == Link(About(TabPath[tab].root, a), tab, a, Nil)
OpenFigure(f) == Link(FigureInsertPath(f), "deliverables", Nil, Nil)

Tabs == DOMAIN TabPath

(* The trip planner's link leads to the prospects (TAB_TO_ROUTE).          *)
RailLinks ==
  {Open(t) : t \in Tabs \ {"trip_planner"}}
    \cup {[Open("trip_planner") EXCEPT !.tab = "prospecting"]}

PaletteLinks ==
  RailLinks \cup IF loaded THEN {OpenAccount(a) : a \in Subjects}
                                  \cup {OpenWork(w) : w \in WorkRows} ELSE {}

Here == trail.links[trail.at]
Url == Here.url
Route == Parse(Url)

(* previewAccountId.                                                       *)
PreviewAccount(u, account) ==
  LET r == Parse(u) IN
  CASE r.id = "accounts" -> Nil
    [] r.id # "accounts" /\ r.account # Nil -> r.account
    [] OTHER -> account

Dossier == PreviewAccount(Url, store.account)

(* renderDefault.                                                          *)
Stage ==
  CASE Route.id = "not_found" -> "not_found"
    [] Route.tab = "settings" -> "settings"
    [] ~loaded /\ Route.id # "not_found" /\ Route.tab # "settings" -> "fallback"
    [] OTHER -> Route.tab

(* What the pages offer, inside of main.                                   *)
StageLinks ==
  CASE Stage = "not_found" -> {Open("brief")}
    [] Stage = "fallback" -> {Open("brief"), Open("work_queue")}
    [] Stage = "brief" ->
         {OpenWork(w) : w \in WorkRows} \cup {OpenAccount(a) : a \in Subjects}
           \cup {OpenAbout("prospecting", a) : a \in Subjects}
    [] Stage = "work_queue" -> {OpenWork(w) : w \in WorkRows} \cup {Open("work_queue")}
    [] Stage = "accounts" -> {OpenAccount(a) : a \in Subjects}
    [] Stage = "map" ->
         {OpenAbout("map", a) : a \in Subjects} \cup {OpenAccount(a) : a \in Subjects}
    [] Stage = "deliverables" ->
         CASE Route.view = "library" ->
                {OpenPaper(d) : d \in Papers \cup shelf} \cup {OpenFigure("default")}
           [] Route.view = "insert_figure" -> {Open("deliverables")}
           [] OTHER -> {Open("deliverables")}
    [] OTHER -> {}

TopLinks == {Open("hubspot")}
-----------------------------------------------------------------------------
(* setState: the flags follow the tab; the last clause is the code's, and  *)
(* takes the settings flag back unless the patch has one itself.           *)
SetState(s, p) ==
  LET has(f) == f \in DOMAIN p
      sets(f) == has(f) /\ p[f]
      value(f) == IF has(f) THEN p[f] ELSE s[f]
      tab == CASE ~has("tab") /\ sets("settings") -> "settings"
               [] ~has("tab") /\ ~sets("settings") /\ sets("home") -> "brief"
               [] OTHER -> value("tab")
      home == IF has("tab") THEN p.tab = "brief" ELSE value("home")
      settings == CASE has("tab") /\ has("settings") -> p.tab = "settings"
                    [] ~has("settings") /\ (has("tab") \/ sets("home")) -> FALSE
                    [] OTHER -> value("settings")
  IN [f \in DOMAIN s |->
        CASE f = "tab" -> tab
          [] f = "home" -> home
          [] f = "settings" -> settings
          [] OTHER -> value(f)]

NewStore == [account |-> Nil, tab |-> "brief", home |-> TRUE, settings |-> FALSE,
             city |-> Nil, notice |-> Nil]

(* The effect of [previewAccountId, routeTab].                             *)
(* Mutant: an account is not taken out of the store.                       *)
SyncedKeepsAccount(s, u) ==
  LET r == Parse(u)
      account == PreviewAccount(u, s.account)
  IN SetState(s, [tab |-> r.tab, home |-> r.tab = "brief",
                  settings |-> r.tab = "settings",
                  account |-> IF account = Nil THEN s.account ELSE account])

Synced(s, u) ==
  LET r == Parse(u)
  IN SetState(s, [tab |-> r.tab, home |-> r.tab = "brief",
                  settings |-> r.tab = "settings", account |-> PreviewAccount(u, s.account)])

(* The document that the page is open on.                                  *)
PaperAt(u, ready) ==
  IF ready /\ Parse(u).view = "document" THEN Parse(u).record ELSE Nil

NoReader == [paper |-> Nil, remote |-> Nil, failed |-> FALSE]

(* RoutedDocumentViewer's effect, when its document changes.               *)
Reads(paper, kept) ==
  IF paper = reader.paper
    THEN UNCHANGED <<reader, fetches>>
    ELSE /\ reader' = [NoReader EXCEPT !.paper = paper]
         /\ fetches' = {[f EXCEPT !.current = FALSE] : f \in fetches}
              \cup IF paper = Nil \/ paper \in kept THEN {}
                     ELSE {[paper |-> paper, current |-> TRUE]}

(* The frame is drawn again, and its effects run.  A dossier that is taken *)
(* off the page leaves its run behind.                                     *)
Redraw(t, s, kept, ready, wanted, work) ==
  LET u == t.links[t.at].url
      dossier == PreviewAccount(u, s.account)
      same == <<dossier, Parse(u).tab>> = <<Dossier, Route.tab>>
  IN /\ trail' = t
     /\ store' = IF same THEN s ELSE Synced(s, u)
     /\ shelf' = kept
     /\ loaded' = ready
     /\ Reads(PaperAt(u, ready), kept)
     /\ runs' = IF dossier # Nil /\ ready THEN work
                ELSE [here |-> 0, away |-> work.here + work.away]
     /\ sought' = IF dossier = Nil THEN {}
                 ELSE (wanted \cup {Parse(u).account}) \ {Nil}

(* navigateTo.                                                             *)
Pushed(l) ==
  IF l.url = Url THEN trail
  ELSE [links |-> Append(SubSeq(trail.links, 1, trail.at), l), at |-> trail.at + 1]
Replaced(l) == IF l.url = Url THEN trail ELSE [trail EXCEPT !.links[trail.at] = l]

Go(t, s, wanted) == Redraw(t, s, shelf, loaded, wanted, runs)

Act == acts < MaxActs /\ acts' = acts + 1
Free == ~palette /\ store.notice = Nil
Closed == SetState(store, [account |-> Nil])

(* A click into the page closes the dossier first (onMainClickCapture).    *)
InMain == IF Dossier = Nil THEN store ELSE Closed
-----------------------------------------------------------------------------
(* The page is loaded: "/" is replaced by /briefing.                       *)
ShellInit ==
  \E u \in Addresses :
    LET url == IF u.root = "" THEN Place("briefing") ELSE u IN
    /\ trail = [links |-> <<Typed(url)>>, at |-> 1]
    /\ store = Synced(NewStore, url)
    /\ palette = FALSE
    /\ loaded = FALSE
    /\ reader = NoReader
    /\ fetches = {}
    /\ shelf = HomePapers
    /\ runs = [here |-> 0, away |-> 0]
    /\ notice = [creating |-> 0, timers |-> 0, status |-> "none"]
    /\ acts = 0
    /\ sought = {Parse(url).account} \ {Nil}

WorldCame ==
  /\ ~loaded
  /\ Redraw(trail, store, shelf, TRUE, sought, runs)
  /\ UNCHANGED <<palette, notice, acts>>

UseRail ==
  /\ Free /\ Act
  /\ \E l \in RailLinks : Go(Pushed(l), store, sought)
  /\ UNCHANGED <<palette, notice>>

UsePage ==
  /\ Free /\ Act
  /\ \E l \in StageLinks \cup TopLinks : Go(Pushed(l), InMain, {})
  /\ UNCHANGED <<palette, notice>>

(* The not-found page and the figure's form replace the address.           *)
UsePageReplacing ==
  /\ Free /\ Act
  /\ \/ Stage = "not_found" /\ Go(Replaced(Open("brief")), InMain, {})
     \/ /\ Stage = "deliverables" /\ Route.view = "insert_figure"
        /\ FigureSpec(Url) # "chart"
        /\ Go(Replaced(OpenFigure("chart")), InMain, {})
  /\ UNCHANGED <<palette, notice>>

(* Focus and briefing modes are a parameter of the address.                *)
ChangeView ==
  /\ Free /\ Act
  /\ Stage \in {"accounts", "work_queue", "deliverables"}
  /\ Route.account # Nil \/ Route.record # Nil
  /\ \E v \in {"focus", Nil} :
       Go(Pushed([Here EXCEPT !.url.view = v]), InMain, {})
  /\ UNCHANGED <<palette, notice>>

Traverse ==
  /\ Act
  /\ \E to \in 1..Len(trail.links) \ {trail.at} :
       Go([trail EXCEPT !.at = to], store, sought)
  /\ UNCHANGED <<palette, notice>>

OpenPalette ==
  /\ Act /\ ~palette
  /\ palette' = TRUE
  /\ IF Dossier # Nil /\ store.notice = Nil
       THEN \/ Go(trail, Closed, {})     \* the button of the top bar
            \/ Go(trail, store, sought)   \* the keyboard
       ELSE Go(trail, store, sought)
  /\ UNCHANGED notice

UsePalette ==
  /\ palette /\ Act
  /\ palette' = FALSE
  /\ \/ \E l \in PaletteLinks : Go(Pushed(l), InMain, {})
     \/ Go(trail, InMain, {})
  /\ UNCHANGED notice

(* "Open dossier" of the prospects: the click closes the one before.       *)
PickDossier ==
  /\ Free /\ Act
  /\ Stage = "prospecting"
  /\ \E a \in Subjects : Go(trail, SetState(store, [account |-> a]), {a})
  /\ UNCHANGED <<palette, notice>>

CloseDossier ==
  /\ Free /\ Act
  /\ Dossier # Nil
  /\ Go(trail, Closed, {})
  /\ UNCHANGED <<palette, notice>>

PickMarket ==
  /\ Free /\ Act
  /\ Route.tab = "map"
  /\ \E c \in (Cities \cup {Nil}) \ {store.city} :
       Go(trail, SetState(store, [city |-> c, account |-> Nil]), {})
  /\ UNCHANGED <<palette, notice>>

(* Escape closes the topmost thing that is open.  goHome changes the store *)
(* and not the address.                                                    *)
GoHome == SetState(store, [home |-> TRUE, settings |-> FALSE, tab |-> "brief",
                           account |-> Nil])

PressEscape ==
  /\ Act
  /\ palette' = FALSE
  /\ CASE palette -> Go(trail, store, sought)
       [] ~palette /\ Dossier # Nil -> Go(trail, Closed, {})
       [] ~palette /\ Dossier = Nil /\ Url.view # Nil ->
            Go(Pushed([Here EXCEPT !.url = Under(Url.root, Url.child)]), store, sought)
       [] ~palette /\ Dossier = Nil /\ Url.view = Nil
            /\ Route.id = "deliverables" /\ Route.view # "library" ->
            Go(Pushed(Open("deliverables")), store, sought)
       [] OTHER -> Go(trail, GoHome, {})
  /\ UNCHANGED notice
-----------------------------------------------------------------------------
(* The dossier has a document made, saves it here, and opens it: also when *)
(* the user has gone elsewhere in the meantime.                            *)
StartRun ==
  /\ Free /\ Act
  /\ loaded /\ Dossier # Nil /\ runs.here = 0
  /\ runs' = [runs EXCEPT !.here = 1]
  /\ UNCHANGED <<trail, store, palette, loaded, reader, fetches, shelf, notice, sought>>

EndRun ==
  \E r \in {"here", "away"} :
    /\ runs[r] > 0
    /\ LET left == [runs EXCEPT ![r] = @ - 1] IN
       \/ \E d \in Sketches \ shelf :
            Redraw(Pushed(OpenPaper(d)), Closed, shelf \cup {d}, loaded, {}, left)
       \/ Redraw(trail, store, shelf, loaded, sought, left)
    /\ UNCHANGED <<palette, notice, acts>>

ReadEnds ==
  \E f \in fetches :
    /\ fetches' = fetches \ {f}
    /\ IF f.current
         THEN \/ reader' = [reader EXCEPT !.remote = f.paper]
              \/ reader' = [reader EXCEPT !.failed = TRUE]
         ELSE UNCHANGED reader
    /\ UNCHANGED <<trail, store, palette, loaded, shelf, runs, notice, acts, sought>>

PaperShown ==
  CASE reader.paper = Nil -> Nil
    [] reader.paper # Nil /\ reader.paper \in shelf -> reader.paper
    [] OTHER -> reader.remote
-----------------------------------------------------------------------------
(* "Create CRM task": the notice, its call, and the timer that follows it, *)
(* which closes whatever notice is open then and goes to the work.         *)
OpenNotice ==
  /\ Free /\ Act
  /\ \/ loaded /\ Dossier # Nil   \* of the dossier
     \/ PaperShown # Nil /\ Dossier = Nil   \* of the document
  /\ store' = SetState(store, [notice |-> "task"])
  /\ UNCHANGED <<trail, palette, loaded, reader, fetches, shelf, runs, notice, sought>>

ConfirmNotice ==
  /\ ~palette /\ store.notice # Nil /\ Act
  /\ notice' = [notice EXCEPT !.creating = @ + 1, !.status = "creating"]
  /\ UNCHANGED <<trail, store, palette, loaded, reader, fetches, shelf, runs, sought>>

CancelNotice ==
  /\ ~palette /\ store.notice # Nil /\ Act
  /\ notice' = [notice EXCEPT !.status = "none"]
  /\ store' = SetState(store, [notice |-> Nil])
  /\ UNCHANGED <<trail, palette, loaded, reader, fetches, shelf, runs, sought>>

NoticeAnswered ==
  /\ notice.creating > 0
  /\ notice' \in
       {[notice EXCEPT !.creating = @ - 1, !.timers = @ + 1, !.status = "created"],
        [notice EXCEPT !.creating = @ - 1, !.status = "failed"]}
  /\ UNCHANGED <<trail, store, palette, loaded, reader, fetches, shelf, runs, acts, sought>>

TimerFires ==
  /\ notice.timers > 0
  /\ notice' = [notice EXCEPT !.timers = @ - 1, !.status = "none"]
  /\ Go(Pushed(Open("work_queue")), SetState(store, [notice |-> Nil]), sought)
  /\ UNCHANGED <<palette, acts>>

ShellNext ==
  \/ WorldCame \/ UseRail \/ UsePage \/ UsePageReplacing \/ ChangeView \/ Traverse
  \/ OpenPalette \/ UsePalette \/ PickDossier \/ CloseDossier \/ PickMarket \/ PressEscape
  \/ StartRun \/ EndRun \/ ReadEnds
  \/ OpenNotice \/ ConfirmNotice \/ CancelNotice \/ NoticeAnswered \/ TimerFires

ShellSpec == ShellInit /\ [][ShellNext]_shellVars
-----------------------------------------------------------------------------
(* The dossier beside the page is on an account that the address names, or *)
(* that the user picked and has not closed since: the store's copy never   *)
(* brings back one that was closed, or left for the accounts' own page     *)
(* (previewAccountId and its effect).                                      *)
DossierAsAsked == Dossier # Nil => Dossier \in sought

(* Every link leads to the page, the account and the record it was made    *)
(* for, and the document's page never shows another document than the one  *)
(* of its address, however late the answers are (app/router.ts,            *)
(* RoutedDocumentViewer).                                                  *)
ShownAsAsked ==
  /\ Here.tab # "typed" /\ loaded =>
       /\ Stage = Here.tab
       /\ Route.account = Here.account
       /\ Route.record = Here.record
  /\ PaperShown # Nil => PaperShown = Route.record

(* What stands on the screen, page and dossier, is what the address or the *)
(* user asked for (App.tsx, app/router.ts).                                *)
PageAsAsked == DossierAsAsked /\ ShownAsAsked
=============================================================================
