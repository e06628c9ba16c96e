----------------------------- MODULE EvidenceDesk -----------------------------
(***************************************************************************)
(* Why the cockpit says what it says: the packages of evidence of          *)
(* frontend/src/app/evidence.ts in the drawer that opens over a page, the  *)
(* timelines of app/timeline.ts, and the briefing of an account            *)
(* (ui/modes/BriefingMode.tsx), over what btx_platform/intelligence.py and *)
(* api.py file: the names of one signal that were matched with accounts,   *)
(* and one work item with its audit trail.                                 *)
(*                                                                         *)
(* The backend sends no text of a relationship's evidence, for which the   *)
(* validation of the cockpit drops the signal: it is on the page of an     *)
(* account, and in no timeline.  The snapshot carries no notes of an item; *)
(* a note is told by its audit entry.  A package keeps of its texts what   *)
(* they claim.  A time is half a minute.                                   *)
(***************************************************************************)
EXTENDS Naturals, Sequences, SequencesExt, FiniteSetsExt

CONSTANTS
  Casts,        \* the names of a signal, in order: an account, and if it is exact
  Filings,      \* the work items that the page may find
  MaxChanges,   \* bound on the changes of the backend
  MostEvents,   \* events of the timeline of an account: 14
  FirstEvents,  \* events of a timeline that is not expanded: 8
  LastPart,     \* sections of the briefing: 7
  Shut          \* no drawer, no world

ASSUME EvidenceAssumption == \A names \in Casts : names \in Seq({names[i] : i \in DOMAIN names})

(* The trail of an item begins with what made it; each entry is half a     *)
(* minute at the least after the one before.                               *)
IsTrail(trail) ==
  /\ trail \in Seq({trail[i] : i \in DOMAIN trail}) /\ trail # <<>>
  /\ \A i \in DOMAIN trail : trail[i].at \in Nat
  /\ \A i, j \in DOMAIN trail : i < j => trail[i].at < trail[j].at

IsFiling(item) ==
  /\ item = [row |-> item.row, about |-> item.about, scored |-> item.scored,
             account |-> item.account, sources |-> item.sources, trail |-> item.trail]
  /\ IsTrail(item.trail)

ASSUME FilingAssumption == MostEvents \in Nat /\ \A item \in Filings : IsFiling(item)

VARIABLES
  cast,      \* the names of the signal
  matches,   \* signal_account_relationships of the signal, the newest first
  reported,  \* the monitor still reports the signal
  filed,     \* the work item with its audit_history
  changes,   \* changes so far
  seen,      \* the world of the page
  scene,     \* the page, the section of the briefing, the expanded timeline
  drawer     \* the package of the drawer, or Shut

evidenceVars == <<cast, matches, reported, filed, changes, seen, scene, drawer>>

LOCAL Life == INSTANCE WorkLifecycle

Portfolio == "__portfolio__"
Holders == {cast[i].account : i \in DOMAIN cast}
-----------------------------------------------------------------------------
(* resolve_signal_relationships, for a name that is or is not linked yet:  *)
(* the confidence is that of the match, whatever a review has made of it.  *)
Rematched(i, old) ==
  [name |-> i, account |-> cast[i].account, strong |-> cast[i].exact,
   status |-> IF \E k \in DOMAIN old : old[k].name = i /\ old[k].status # "needs_review"
              THEN old[CHOOSE k \in DOMAIN old : old[k].name = i].status
              ELSE IF cast[i].exact THEN "confirmed" ELSE "needs_review"]

(* Each is written in the order of the names, and read the newest first.   *)
AllRematched(old) == Reverse([i \in DOMAIN cast |-> Rematched(i, old)])

IsFirm(link) == link.status = "confirmed" /\ link.strong

(* The signal of a snapshot; of two accounts the first by its identifier.  *)
SignalOf(all) ==
  LET held == {i \in DOMAIN cast : \E k \in DOMAIN all : all[k].name = i /\ IsFirm(all[k])}
  IN [scope |-> IF held # {} THEN "specific_account" ELSE "unlinked",
      subject |-> IF held # {} THEN cast[Min(held)].account ELSE Portfolio,
      relationships |-> all]

(* Half a minute, or a minute, after the last entry.                       *)
Entered(item, event) ==
  LET last == item.trail[Len(item.trail)].at
  IN {[item EXCEPT !.trail = Append(@, [event |-> event, at |-> last + n])] : n \in {1, 2}}

(* _transition_event_type                                                  *)
EventOf(action) ==
  CASE action = "request_approval" -> "approval_requested"
    [] action = "approve" -> "approved"
    [] action = "reject" -> "rejected"
    [] action = "start" -> "execution_started"
    [] action = "mark_executed" -> "execution_succeeded"
    [] action = "verify" -> "verification_succeeded"
    [] action = "record_outcome" -> "outcome_recorded"
    [] action = "dismiss" -> "dismissed"
    [] action = "reopen" -> "reopened"
    [] OTHER -> "status_transition"

Changes ==
  /\ changes < MaxChanges
  /\ changes' = changes + 1
  /\ UNCHANGED <<cast, seen, scene, drawer>>

(* transition_work_item                                                    *)
ItemCommanded(action) ==
  /\ Changes
  /\ action \in DOMAIN Life!Transitions[filed.row.status]
  /\ filed' \in Entered([filed EXCEPT !.row = Life!After(@, action)], EventOf(action))
  /\ UNCHANGED <<matches, reported>>

(* patch_work_item; add_work_item_note does as much, but for the word.     *)
ItemAnnotated ==
  /\ Changes
  /\ filed' \in Entered(filed, "updated")
  /\ UNCHANGED <<matches, reported>>

(* execute_hubspot_task, from its first entry to its last.                 *)
ItemExecuted(ok) ==
  /\ Changes
  /\ Life!MayExecute(filed.row)
  /\ LET row == [filed.row EXCEPT !.status = IF ok THEN "verified" ELSE "in_progress",
                                  !.execution = IF ok THEN "verified" ELSE "failed",
                                  !.external = IF ok THEN 1 ELSE 0]
     IN \E begun \in Entered([filed EXCEPT !.row = row], "hubspot_task_execute_started") :
          filed' \in Entered(begun, IF ok THEN "hubspot_task_execute_verified"
                                          ELSE "hubspot_task_execute_failed")
  /\ UNCHANGED <<matches, reported>>

(* patch_signal_relationship; it ends the item that asks for the review.   *)
LinkReviewed(k, action) ==
  /\ Changes
  /\ matches' = <<[matches[k] EXCEPT
                   !.status = CASE action = "confirm" -> "confirmed"
                                [] action = "reject" -> "rejected"
                                [] action = "reopen" -> "needs_review",
                   !.strong = @ \/ action = "confirm"]>> \o RemoveAt(matches, k)
  /\ filed' \in IF filed.about = matches[k].name /\ action # "reopen"
                   /\ filed.row.status \notin Life!Terminal
                THEN Entered([filed EXCEPT !.row.status = "closed", !.row.execution = "verified"],
                             "relationship_" \o action)
                ELSE {filed}
  /\ UNCHANGED reported

LeavesReport ==
  /\ Changes
  /\ reported /\ reported' = FALSE
  /\ UNCHANGED <<matches, filed>>
-----------------------------------------------------------------------------
(* A snapshot resolves the signal once more, and comes.                    *)
LoadWorld ==
  /\ matches' = IF reported THEN AllRematched(matches) ELSE matches
  /\ seen' = [signal |-> SignalOf(matches'), item |-> filed]
  /\ UNCHANGED <<cast, reported, filed, changes, scene, drawer>>

(* relationshipBackedSignals                                               *)
IsListed(signal, account) ==
  /\ signal.scope = "specific_account" /\ signal.subject = account
  /\ \E k \in DOMAIN signal.relationships :
       signal.relationships[k].account = account /\ IsFirm(signal.relationships[k])

(* Mutant: the first relationship, whosever it is.                         *)
RelationToldFirst(signal) == signal.relationships[1]

(* relationForSignal and plainStatus.                                      *)
RelationTold(signal) ==
  LET own == {k \in DOMAIN signal.relationships :
                signal.relationships[k].account = signal.subject}
  IN signal.relationships[IF own = {} THEN 1 ELSE Min(own)]

IsReviewed(signal) == RelationTold(signal).status = "confirmed"

(* recordFromSignal                                                        *)
RecordOf(signal) == [of |-> "signal", reviewed |-> IsReviewed(signal), subject |-> signal.subject]

SignalPackage(signal) ==
  [kind |-> "signal", about |-> signal.subject,
   conclusion |-> IF IsReviewed(signal) THEN "confirmed"
                  ELSE IF signal.scope = "specific_account" THEN "unresolved" ELSE "supported",
   records |-> {RecordOf(signal)}, clear |-> \A k \in DOMAIN signal.relationships :
     LET r == signal.relationships[k] IN r.account = signal.subject => r.status = "confirmed"]

(* buildScoreEvidence; what it rests on is a snapshot where no signal is.  *)
ScorePackage(scored, account) ==
  [kind |-> "score", about |-> account,
   conclusion |-> IF scored THEN "derived" ELSE "unresolved",
   records |-> {[of |-> "snapshot", reviewed |-> FALSE, subject |-> account]}, clear |-> TRUE]

(* buildWorkItemEvidence; of its signals only those that are valid.        *)
WorkPackage(item) ==
  [kind |-> "work", about |-> item.account,
   conclusion |-> IF item.sources # {} THEN "supported" ELSE "unresolved",
   records |-> {[of |-> s, reviewed |-> FALSE, subject |-> Portfolio] :
                  s \in item.sources \cap {"market"}}
               \cup {[of |-> "support", reviewed |-> FALSE, subject |-> item.account] :
                       n \in {n \in {1} : item.about > 0}},
   clear |-> TRUE]

(* buildAccountEvidence over the developments that the page lists.         *)
AccountPackage(account) ==
  LET listed == {s \in {seen.signal} : IsListed(s, account)}
  IN [kind |-> "account", about |-> account,
      conclusion |-> IF listed # {} THEN "supported" ELSE "derived",
      records |-> {RecordOf(s) : s \in listed}, clear |-> TRUE]
-----------------------------------------------------------------------------
(* actionCategory: the names of the backend, and those it never writes.    *)
Category(event) ==
  CASE event \in {"approval_requested", "approve", "reject"} -> "approval"
    [] event \in {"execution_started", "hubspot_task_execute_started",
                  "hubspot_task_execute_failed", "hubspot_task_execute_verified"} -> "execution"
    [] event = "verify" -> "verification"
    [] event \in {"outcome_recorded", "record_outcome"} -> "outcome"
    [] OTHER -> "work"

Minute(entry) == entry.at \div 2

(* Mutant: of the entries of a minute the last is told, not the first.     *)
ToldEntriesLast(trail) ==
  {i \in DOMAIN trail : \A j \in i + 1 .. Len(trail) :
     trail[j].event = trail[i].event => Minute(trail[j]) # Minute(trail[i])}

(* workAuditEvents: what is repeated within a minute is told once.         *)
ToldEntries(trail) ==
  {i \in DOMAIN trail :
     \/ trail[i].event \in {"approve", "verify", "record_outcome"}
     \/ \A j \in 1 .. i - 1 :
          trail[j].event = trail[i].event => Minute(trail[j]) # Minute(trail[i])}

(* workEvents, each with its place among those of its time.                *)
WorkEvents(item) ==
  LET Event(id, opens, at, major) ==
        [id |-> id, n |-> 0, event |-> id, opens |-> opens, at |-> at, major |-> major]
  IN {Event("work-created", "work", item.trail[1].at, TRUE),
      Event("work-current", "work", item.trail[Len(item.trail)].at, TRUE)}
     \cup {[id |-> "audit", n |-> i, event |-> item.trail[i].event, opens |-> "work",
            at |-> item.trail[i].at,
            major |-> Category(item.trail[i].event) \in {"approval", "verification", "outcome"}] :
             i \in ToldEntries(item.trail)}

(* sortTimeline: an entry is stamped after the row that it tells of.  A    *)
(* timeline is the set of its events here; their order is told by rank.    *)
Newer(e, f) ==
  LET Place(g) == CASE g.id = "audit" -> 0 [] g.id = "score" -> 1
                    [] g.id = "work-created" -> 2 [] OTHER -> 3
  IN e.at > f.at \/ (e.at = f.at /\ Place(e) < Place(f))

AtMost(n, events) == {e \in events : Cardinality({f \in events : Newer(f, e)}) < n}

(* scoreEvents, of the score that the snapshot has just calculated; what   *)
(* it is calculated from does not change here.                             *)
ScoreEvents(item) ==
  {[id |-> "score", n |-> 0, event |-> "score", opens |-> "score",
    at |-> item.trail[Len(item.trail)].at + 1, major |-> item.scored]}

AccountTimeline(account) ==
  AtMost(MostEvents,
    ScoreEvents(seen.item)
      \cup {e \in WorkEvents(seen.item) : e.major /\ seen.item.account = account})

(* A market signal among the sources is the oldest event of all.           *)
WorkTimeline(item) ==
  WorkEvents(item) \cup
    {[id |-> "signal", n |-> 0, event |-> "signal", opens |-> "market", at |-> 0,
      major |-> TRUE] : s \in item.sources \cap {"market"}}

Timeline ==
  IF scene.mode = "work" THEN WorkTimeline(seen.item) ELSE AccountTimeline(scene.account)

(* MeaningfulTimeline                                                      *)
ShownEvents ==
  IF scene.wide THEN Timeline ELSE AtMost(FirstEvents, {e \in Timeline : e.major})
-----------------------------------------------------------------------------
NoScene == [mode |-> "elsewhere", account |-> Portfolio, part |-> 1, wide |-> FALSE]
EvidenceInit ==
  /\ cast \in Casts
  /\ reported = TRUE
  /\ matches = AllRematched(<<>>)
  /\ filed \in Filings
  /\ changes = 0
  /\ seen = Shut
  /\ scene = NoScene
  /\ drawer = Shut

Behind == UNCHANGED <<cast, matches, reported, filed, changes, seen>>

(* The routes.  The briefing is a view of the page of an account, whose    *)
(* drawer stays when the route changes from one to the other, or to        *)
(* another account; any other page is a new one.                           *)
Visit(mode, account) ==
  /\ seen # Shut
  /\ LET same == mode \in {"account", "briefing"} /\ scene.mode \in {"account", "briefing"}
     IN /\ scene' = [mode |-> mode, account |-> account, part |-> 1,
                    wide |-> same /\ scene.mode = mode /\ scene.wide]
        /\ drawer' = IF same THEN drawer ELSE Shut
  /\ scene' # scene
  /\ Behind

(* The arrows work with the drawer open; what has focus is not asked.      *)
TurnPart(part) ==
  /\ scene.mode = "briefing"
  /\ part \in {Max({1, scene.part - 1}), Min({LastPart, scene.part + 1})}
  /\ scene' = [scene EXCEPT !.part = part]
  /\ Behind /\ UNCHANGED drawer

(* A numbered button of the briefing; the drawer covers them.              *)
PickPart(part) ==
  /\ scene.mode = "briefing" /\ drawer = Shut
  /\ scene' = [scene EXCEPT !.part = part]
  /\ Behind /\ UNCHANGED drawer

ToggleSupporting ==
  /\ scene.mode \in {"account", "work"} /\ drawer = Shut
  /\ \E e \in Timeline : ~e.major
  /\ scene' = [scene EXCEPT !.wide = ~@]
  /\ Behind /\ UNCHANGED drawer

Opens(package) ==
  /\ drawer = Shut
  /\ drawer' = package
  /\ Behind /\ UNCHANGED scene

(* View evidence of an event, if there is any.                             *)
OpenEvent ==
  /\ drawer = Shut
  /\ scene.mode \in {"account", "work"}
  /\ \E e \in ShownEvents :
       \/ e.opens = "work" /\ Opens(WorkPackage(seen.item))
       \/ e.opens = "score" /\ Opens(ScorePackage(seen.item.scored, scene.account))
       \/ /\ e.opens = "market"
          /\ Opens([kind |-> "market", about |-> Portfolio, conclusion |-> "supported",
                    records |-> {[of |-> "market", reviewed |-> FALSE, subject |-> Portfolio]},
                    clear |-> TRUE])

(* View evidence of the page itself: of the account, of a score that is    *)
(* available; of the account and its developments, in the last section.    *)
OpenEvidence ==
  \/ scene.mode = "account" /\ Opens(AccountPackage(scene.account))
  \/ scene.mode = "account" /\ seen.item.scored /\ Opens(ScorePackage(seen.item.scored, scene.account))
  \/ scene.mode = "work" /\ Opens(WorkPackage(seen.item))
  \/ /\ scene.mode = "briefing" /\ scene.part = LastPart
     /\ \/ Opens(AccountPackage(scene.account))
        \/ IsListed(seen.signal, scene.account) /\ Opens(SignalPackage(seen.signal))

CloseDrawer ==
  /\ drawer # Shut
  /\ drawer' = Shut
  /\ Behind /\ UNCHANGED scene

(* Escape, of which the drawer lets nobody else know; without it it leaves *)
(* the briefing, and App.tsx takes the rest of the query away as well.     *)
EscapeKey ==
  \/ CloseDrawer
  \/ /\ drawer = Shut /\ scene.mode = "briefing"
     /\ scene' = [scene EXCEPT !.mode = "account", !.part = 1]
     /\ Behind /\ UNCHANGED drawer

(* Open record: the drawer stays over the page that comes.                 *)
OpenRecord ==
  /\ drawer # Shut
  /\ \E r \in drawer.records :
       \/ r.of \in {"signal", "snapshot"} /\ r.subject # Portfolio /\ Visit("account", r.subject)
       \/ r.subject = Portfolio /\ Visit("elsewhere", Portfolio)

(* Ask about this evidence.                                                *)
AskAbout == drawer # Shut /\ Visit("elsewhere", Portfolio)

EvidenceNext ==
  \/ \E action \in UNION {DOMAIN Life!Transitions[s] : s \in Life!Status} : ItemCommanded(action)
  \/ ItemAnnotated
  \/ \E ok \in BOOLEAN : ItemExecuted(ok)
  \/ \E k \in DOMAIN matches, action \in {"confirm", "reject", "reopen"} : LinkReviewed(k, action)
  \/ LeavesReport
  \/ LoadWorld
  \/ \E account \in Holders : Visit("account", account) \/ Visit("briefing", account)
  \/ Visit("work", Portfolio)
  \/ \E part \in 1 .. LastPart : TurnPart(part) \/ PickPart(part)
  \/ ToggleSupporting
  \/ OpenEvent
  \/ OpenEvidence
  \/ CloseDrawer
  \/ EscapeKey
  \/ OpenRecord
  \/ AskAbout

EvidenceSpec == EvidenceInit /\ [][EvidenceNext]_evidenceVars
-----------------------------------------------------------------------------
(* A drawer agrees with what the page had listed when it was opened, and   *)
(* with itself.  A development that is listed as confirmed opens as        *)
(* confirmed, unless another name of the same account is not; its record   *)
(* claims a reviewed relationship just if the conclusion does; what is     *)
(* said of an account rests on developments of that account.               *)
EvidenceTold ==
  drawer # Shut =>
    /\ drawer.kind = "signal" =>
         /\ drawer.clear => drawer.conclusion = "confirmed"
         /\ \A r \in drawer.records : r.reviewed <=> drawer.conclusion = "confirmed"
    /\ drawer.kind = "account" =>
         /\ drawer.conclusion = "supported" <=> drawer.records # {}
         /\ \A r \in drawer.records : r.subject = drawer.about

(* What a timeline has told it never takes back.  When a later snapshot    *)
(* comes, the timeline of the item still has each of its events, but for   *)
(* the current state; the timeline of the account has lost none but the    *)
(* oldest, to newer ones.  And nothing that was done to the item is left   *)
(* out: each kind of entry is told in each minute of it.                   *)
StillTold(old, new) ==
  \A e \in {e \in old : e.id \notin {"work-current", "score"}} :
    \/ e \in new
    \/ Cardinality(new) = MostEvents /\ \A f \in new : f.at >= e.at

TimelineKept ==
  [][seen # Shut /\ seen' # seen =>
       /\ \A e \in WorkTimeline(seen.item) :
            e.id = "work-current" \/ e \in WorkTimeline(seen'.item)
       /\ \A account \in Holders :
            StillTold(AccountTimeline(account), AccountTimeline(account)')
       /\ \A i \in DOMAIN seen'.item.trail : \E e \in WorkTimeline(seen'.item) :
            /\ e.event = seen'.item.trail[i].event
            /\ Minute(e) = Minute(seen'.item.trail[i])]_evidenceVars
=============================================================================
