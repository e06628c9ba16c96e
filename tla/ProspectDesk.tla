----------------------------- MODULE ProspectDesk -----------------------------
(***************************************************************************)
(* The pages that rank and explain what the snapshot of the world holds:   *)
(* the list of prospects, the cards beside the map, the dossier, the       *)
(* briefing, the programs, the analysis, the capacity and the production   *)
(* view, the data sources.  Each computes again what it tells, from the    *)
(* same accounts and deals, with conditions of its own.                    *)
(***************************************************************************)
EXTENDS WorldSnapshot

CONSTANTS
  Registered, \* firms with a CAGE code
  Fitting     \* firms whose needs, as HubSpot has them, the client can serve

ASSUME DeskAssumption == Registered \subseteq Firms /\ Fitting \subseteq Firms
-----------------------------------------------------------------------------
DealsOf(w, c) == {d \in w.deals : d.firm = c.firm}
Won(deals) == {d \in deals : d.stage = "won"}
OpenDeals(deals) == {d \in deals : IsOpen(d)}
HasContact(w, c) == c.firm \in w.contacts

(* What the database has kept of an account has no needs; the demo tenant  *)
(* puts them back.                                                         *)
Fits(c) == c.firm \in Fitting /\ (c.crm \/ c.located)

(* A signal shows with the account that its text mentions, linked or not.  *)
SignalsOf(w, c) == {s \in w.valid : Mentions[s] = c.firm}

(* What keeps an account from being called qualified.                      *)
Gaps(w, c) ==
  LET missing == {gap \in {"no CAGE match", "no contact", "no pipeline"} :
                    CASE gap = "no CAGE match" -> c.firm \notin Registered
                      [] gap = "no contact" -> ~HasContact(w, c)
                      [] OTHER -> OpenDeals(DealsOf(w, c)) = {}}
  IN missing \cup {gap \in {"unconfirmed fit"} : missing # {} \/ ~Fits(c)}

Revenue(w, c) == Total({d \in DealsOf(w, c) : d.stage # "lost"})

(* No signal that passes validation has an account for its subject, so the *)
(* scored opportunity of every account is nothing.                         *)
ProspectUrgency(w, c) ==
  (IF Fits(c) THEN 100 ELSE 0) + Cardinality(SignalsOf(w, c))
    + (IF HasContact(w, c) THEN 10 ELSE 0) + (IF Revenue(w, c) > 0 THEN 12 ELSE 0)

Outranks(w, c, other) == ProspectUrgency(w, c) > ProspectUrgency(w, other)

(* The rows that may come first; those of one urgency go by their names.   *)
Leads(w) == {c \in ProspectRows(w) : ~\E other \in ProspectRows(w) : Outranks(w, other, c)}

NextBestAction(w, c) ==
  IF HasContact(w, c)
  THEN IF SignalsOf(w, c) # {} THEN "draft outreach" ELSE "qualify timing"
  ELSE IF SignalsOf(w, c) # {} THEN "find a decision-maker"
  ELSE IF Gaps(w, c) # {} THEN "resolve a gap" ELSE "review fit"

BuyingSignals(w) == UNION {SignalsOf(w, c) : c \in ProspectRows(w)}

Tiles(w) ==
  [targets |-> Cardinality(ProspectRows(w)),
   signals |-> Cardinality(BuyingSignals(w)),
   revenue |-> SumFunctionOnSet([c \in ProspectRows(w) |-> Revenue(w, c)], ProspectRows(w)),
   queue |-> Cardinality(OutreachQueue(w))]
-----------------------------------------------------------------------------
(* businessContext.ts: the snapshot has rows neither of the CRM nor of     *)
(* capacity, so only the pipeline is told of an account.                   *)
BusinessContext(w, c) ==
  LET open == OpenDeals(DealsOf(w, c))
  IN [crm |-> "no owner", capacity |-> "not modeled",
      pipeline |-> IF open = {} THEN Unread ELSE Total(open)]

(* rankingExplain.ts                                                       *)
Explanation(w, c) ==
  LET deals == DealsOf(w, c)
  IN [fit |-> Fits(c), signals |-> {}, context |-> BusinessContext(w, c),
      open |-> Cardinality(OpenDeals(deals)), worth |-> Total(OpenDeals(deals)),
      won |-> Cardinality(Won(deals))]

(* The dossier of an account on the page; of another there is none.        *)
SaleDossier(w, c) ==
  LET open == OpenDeals(DealsOf(w, c))
  IN [fit |-> Fits(c), signals |-> {}, contact |-> HasContact(w, c),
      pipeline |-> IF open = {} THEN Unread ELSE Total(open)]

(* Its sections that say so when they have nothing.                        *)
DossierSections(w, c) ==
  {section \in {"pipeline", "matched", "contacts"} :
     CASE section = "pipeline" -> SaleDossier(w, c).pipeline # Unread
       [] section = "matched" -> SaleDossier(w, c).fit
       [] OTHER -> SaleDossier(w, c).contact}

(* Account 360 lists the deals of any stage.                               *)
AccountDetail(w, c) ==
  [contact |-> HasContact(w, c), deals |-> DealsOf(w, c), linked |-> {},
   fit |-> IF Fits(c) THEN "qualified" ELSE "unqualified"]

(* The cards beside the map, ranked by fit alone.                          *)
MapCard(w, c) == [firm |-> c.firm, fit |-> Fits(c), gaps |-> Gaps(w, c)]

MapCards(w, prospectsOnly) ==
  {MapCard(w, c) : c \in {c \in Prospects(w) :
     prospectsOnly => c.relationship = "target" /\ c \in Markers(w.companies)}}

(* The list of accounts tells the open pipeline of each.                   *)
ListedPipeline(w, c) == Total(OpenDeals(DealsOf(w, c)))

(* The page of the accounts when there is none to open.                    *)
EmptyPage(w) ==
  IF AccountRows(w) # {} THEN "rows"
  ELSE IF w.errors # {} THEN "failed" ELSE "no records"
-----------------------------------------------------------------------------
(* The briefing's pulse, and its developments: none is of an account.      *)
Pulse(w) ==
  LET valued == {d \in OpenDeals(w.deals) : d.value # Unread}
  IN IF valued = {} THEN Unread ELSE Total(valued)

Developments(w) == [accounts |-> {}, market |-> w.valid]

Programs(w) == [headline |-> Cardinality(w.valid), cards |-> w.valid]

(* Six metrics without rows: the analysis stays suppressed.                *)
PrimaryMetrics == {"pipeline_coverage", "bookings", "backlog", "book_to_bill",
                   "win_rate", "capacity_utilization"}
HasAnalytics(w) == \E metric \in PrimaryMetrics : TableMetric(w).state = "available"

Capacity(w) ==
  [crm |-> Told(CanonicalMetrics(w).crm_synced_accounts),
   records |-> Told(CanonicalMetrics(w).total_accounts),
   production |-> {Told(TableMetric(w))},
   demand |-> Told(PipelineByStage(w)),
   sources |-> Cardinality(w.sources)]

Integration(source) ==
  [id |-> source.id,
   status |-> CASE source.availability = "available" -> "connected"
                [] source.availability = "not_configured" -> "not_connected"
                [] OTHER -> "available"]

(* useOperatingSnapshot: fetched when the page opens, without the market.  *)
OperatingView(w) ==
  [pipeline |-> Total(w.deals), crm |-> {}, capacity |-> {},
   signals |-> IF page = Unread THEN 0 ELSE Cardinality(page.signals),
   integrations |-> {Integration(s) : s \in w.sources}]

ProductionView(w) ==
  LET records == OperatingView(w).integrations
  IN [connected |-> {r \in records : r.status = "connected"},
      sample |-> {r \in records : r.status = "available"}]

(* GET /health reads the same file, and whether a token is set.            *)
MonitorArtifactHealth(reads) ==
  CASE reads = "missing" -> "missing"
    [] reads \in {"broken", "undated"} -> "invalid"
    [] reads = "stale" -> "stale"
    [] OTHER -> "ok"

IntegrationStatus(configured) == IF configured THEN "ok" ELSE "not_configured"

PlatformHealth ==
  [monitor |-> MonitorArtifactHealth(output.reads),
   hubspot |-> IntegrationStatus(hubspot # "unset")]
-----------------------------------------------------------------------------
(* What the pages tell of one snapshot agrees.  The pipeline is one number *)
(* in the briefing, on the capacity page and over the list of accounts,    *)
(* and of one account in its row, its dossier and the explanation of its   *)
(* rank.  The dossier is silent on exactly what the gaps name; a prospect  *)
(* has them in the list as on the map, and is never called qualified or    *)
(* given a pipeline; one is to be approached exactly when it stands in the *)
(* outreach queue; the map has a card for every marker.  A CRM is called   *)
(* connected only when it was read, and an empty page is not called empty  *)
(* while one cannot be read.                                               *)
(* (Prospecting, ProspectMap, Dossier, TodayBrief, Account360,             *)
(* CapacityAssessment, OperatingSnapshot, health.py)                       *)
PagesAgree ==
  LET w == Shown(town)
      rows == ProspectRows(w)
      production == ProductionView(w)
      crm == CrmSource(w)
      listed == SumFunctionOnSet([c \in AccountRows(w) |-> ListedPipeline(w, c)], AccountRows(w))
  IN /\ Pulse(w) = Capacity(w).demand
     /\ Pulse(w) # Unread => listed = Pulse(w)
     /\ Pulse(w) = Unread => listed = 0
     /\ OperatingView(w).pipeline >= listed
     /\ \A c \in AccountRows(w) :
          LET told == SaleDossier(w, c).pipeline
              sections == DossierSections(w, c)
          IN /\ told = BusinessContext(w, c).pipeline
             /\ \A pair \in {<<"pipeline", "no pipeline">>, <<"contacts", "no contact">>} :
                  pair[1] \in sections <=> pair[2] \notin Gaps(w, c)
             /\ AccountDetail(w, c).fit = "unqualified" => "unconfirmed fit" \in Gaps(w, c)
             /\ c.crm => (AccountDetail(w, c).deals = {} <=> c.relationship = "target")
             /\ ListedPipeline(w, c) = Explanation(w, c).worth
             /\ told = Unread <=> Explanation(w, c).open = 0
             /\ told # Unread => c \notin rows
     /\ \A c \in rows :
          /\ Gaps(w, c) # {} /\ Revenue(w, c) = 0
          /\ MapCard(w, c) \in MapCards(w, FALSE)
          /\ NextBestAction(w, c) \in {"draft outreach", "qualify timing"}
               <=> c \in OutreachQueue(w)
     /\ Leads(w) = {} <=> rows = {}
     /\ {c.firm : c \in MapRail(w, TRUE).drawn} = {card.firm : card \in MapCards(w, TRUE)}
     /\ Tiles(w).revenue = 0 /\ Tiles(w).targets = Cardinality(rows)
     /\ Developments(w).market = Programs(w).cards
     /\ BuyingSignals(w) \subseteq Programs(w).cards
     /\ Programs(w).headline <= OperatingView(w).signals
     /\ ~HasAnalytics(w)
     /\ {s.id : s \in {s \in crm : s.data = "live_external"}}
          = {r.id : r \in production.connected} \cap {s.id : s \in crm}
     /\ EmptyPage(w) = "no records" => \A s \in crm : s.data # "unavailable"
     /\ PlatformHealth.monitor = "ok" <=> MonitorHealth(output.reads).availability = "available"
=============================================================================
