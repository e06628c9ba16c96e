---------------------------- MODULE WorldSnapshot ----------------------------
(***************************************************************************)
(* GET /world-snapshot gathers what the cockpit shows: the accounts,       *)
(* contacts and deals of HubSpot, or the accounts the database has kept    *)
(* when HubSpot cannot be read; every signal the monitor has ever written; *)
(* and the health of each source.  The page computes the same numbers from *)
(* it in several places: the badges of the navigation, the headers of the  *)
(* surfaces, and the rows and markers that the numbers speak of.           *)
(***************************************************************************)
EXTENDS Integers, FiniteSets, FiniteSetsExt, Functions

CONSTANTS
  Firms,     \* companies that HubSpot may have
  TownOf,    \* their cities
  Contacted, \* those with a contact
  Stories,   \* items of the monitor
  Mentions,  \* the firm that each names, or Outsider
  Tenants,   \* "live", "demo"
  MaxTurns,  \* bound on the changes outside of the page
  Outsider,  \* no firm
  Unread     \* no snapshot, no number, no city

ASSUME WorldAssumption ==
  /\ IsFiniteSet(Firms) /\ IsFiniteSet(Stories) /\ Contacted \subseteq Firms
  /\ Unread \notin Nat
  /\ \A f \in Firms : TownOf[f] \notin {"", Unread}

VARIABLES
  tenant,    \* the tenant of the user
  portal,    \* HubSpot: the deal of each firm, or that it is not there
  hubspot,   \* how HubSpot answers
  output,    \* run_output.json: how it reads, and its items
  table,     \* canonical_accounts: the account_type, and whether it has a name
  stored,    \* intelligence_signals
  linked,    \* those with a relationship to the firm they mention
  page,      \* worldQuery.data
  failing,   \* worldQuery.error
  town,      \* the city of the market filter
  known,     \* history: the relationship of each account when last read
  turns      \* changes so far

worldVars == <<tenant, portal, hubspot, output, table, stored, linked, page,
               failing, town, known, turns>>

Deals == {"absent", "none", "open", "blank", "won", "lost"}
Answers == {"ok", "denied", "down", "unset"}
Outputs == {"missing", "broken", "undated", "fresh", "stale"}

(* The amount of a deal, in thousands; a blank one has none.               *)
Amount == 100
DemoTable == [f \in Firms |->
  [type |-> IF f \in Contacted THEN "customer" ELSE "prospect", named |-> TRUE]]
-----------------------------------------------------------------------------
(* hubspot.py                                                              *)
Stage(deal) == IF deal = "blank" THEN "open" ELSE deal

MapCompanies(p) ==
  {[firm |-> f, named |-> TRUE, town |-> TownOf[f], located |-> FALSE, crm |-> TRUE,
    relationship |-> IF p[f] = "none" THEN "target" ELSE "customer",
    status |-> IF p[f] = "none" THEN "target_prospect" ELSE "active_pipeline",
    motion |-> IF p[f] = "none" THEN "prospect_new_business" ELSE "grow_existing_business"] :
     f \in {f \in Firms : p[f] # "absent"}}

MapContacts(p) == {f \in Contacted : p[f] # "absent"}

MapDeals(p) ==
  {[firm |-> f, stage |-> Stage(p[f]), value |-> IF p[f] = "blank" THEN Unread ELSE Amount] :
     f \in {f \in Firms : p[f] \notin {"absent", "none"}}}
-----------------------------------------------------------------------------
(* intelligence.py                                                         *)
AccountType(c) ==
  IF c.relationship = "customer" THEN "customer"
  ELSE IF c.relationship = "target" THEN "prospect" ELSE "other"

(* Mutant: what is known of an account is not written again.               *)
UpsertOnce(cs, t) ==
  LET firms == {c.firm : c \in cs}
      Of(f) == CHOOSE c \in cs : c.firm = f
  IN [f \in firms \cup DOMAIN t |->
        IF f \in DOMAIN t THEN t[f] ELSE [type |-> AccountType(Of(f)), named |-> TRUE]]

Upsert(cs, t) ==
  LET firms == {c.firm : c \in cs}
      Of(f) == CHOOSE c \in cs : c.firm = f
  IN [f \in firms \cup DOMAIN t |->
        IF f \in firms THEN [type |-> AccountType(Of(f)), named |-> TRUE] ELSE t[f]]

(* _sync_canonical_accounts commits the identities alone.                  *)
Sync(cs, t) ==
  [f \in {c.firm : c \in cs} \cup DOMAIN t |->
     IF f \in DOMAIN t THEN t[f] ELSE [type |-> "other", named |-> FALSE]]

CompanyOf(f, row) ==
  [firm |-> f, named |-> row.named, town |-> "", located |-> FALSE, crm |-> FALSE,
   relationship |-> IF row.type = "customer" THEN "customer" ELSE "target",
   status |-> IF row.type = "customer" THEN "current_customer" ELSE "target_prospect",
   motion |-> IF row.type = "customer" THEN "grow_existing_business"
              ELSE "prospect_new_business"]

(* An item is linked by the verified name of the account that it mentions. *)
Resolved(items, t) ==
  {s \in items : Mentions[s] \in DOMAIN t /\ t[Mentions[s]].named}
-----------------------------------------------------------------------------
(* The health of a source; the later attempt has the larger "at".          *)
Source(id, availability, mode, data, readable, at) ==
  [id |-> id, availability |-> availability, mode |-> mode, data |-> data,
   readable |-> readable, at |-> at]

CrmHealth(answer) ==
  CASE answer = "ok" -> Source("hubspot", "available", "read_connected", "live_external", TRUE, 1)
    [] answer = "denied" -> Source("hubspot", "error", "authentication_failed", "unavailable", FALSE, 1)
    [] answer = "down" -> Source("hubspot", "error", "configured_unverified", "unavailable", FALSE, 1)
    [] OTHER -> Source("hubspot", "not_configured", "not_configured", "missing", FALSE, 1)

MonitorHealth(reads) ==
  LET Loaded(availability, data) ==
        Source("monitor", availability, "snapshot_loaded", data, TRUE, 0)
      Unreadable(availability) ==
        Source("monitor", availability, "configured_unverified", "unavailable", FALSE, 1)
  IN CASE reads = "fresh" -> Loaded("available", "recently_ingested")
       [] reads = "stale" -> Loaded("stale", "stored_snapshot")
       [] reads = "missing" -> Unreadable("unavailable")
       [] OTHER -> Unreadable("error")

OperatingHealth == Source("operating", "not_configured", "not_configured", "missing", FALSE, 2)

DemoHealth ==
  {Source("hubspot-demo", "simulated", "snapshot_loaded", "simulated_internal", TRUE, 0),
   Source("monitor", "stale", "snapshot_loaded", "stored_snapshot", TRUE, 0),
   OperatingHealth}

(* A run whose time cannot be read still has its items.                    *)
MonitorRecords(o) == IF o.reads \in {"missing", "broken"} THEN {} ELSE o.items

(* The answer, from what HubSpot gave and what the database has then.      *)
Payload(read, t, signals, links) ==
  LET cs == IF read THEN MapCompanies(portal) ELSE {}
      kept == {CompanyOf(f, t[f]) : f \in DOMAIN t}
  IN IF tenant = "demo"
     THEN [companies |-> {[c EXCEPT !.town = TownOf[c.firm], !.located = TRUE] : c \in kept},
           contacts |-> Contacted,
           deals |-> {[firm |-> f, stage |-> "open", value |-> Amount] : f \in Contacted},
           signals |-> signals, links |-> links, sources |-> DemoHealth]
     ELSE [companies |-> IF cs # {} THEN cs ELSE kept,
           contacts |-> IF read THEN MapContacts(portal) ELSE {},
           deals |-> IF read THEN MapDeals(portal) ELSE {},
           signals |-> signals, links |-> links,
           sources |-> {CrmHealth(hubspot), MonitorHealth(output.reads), OperatingHealth}]
-----------------------------------------------------------------------------
(* useWorld: the answer, or nothing yet, seen through the market filter.   *)
Shown(city) ==
  IF page = Unread
  THEN [companies |-> {}, contacts |-> {}, deals |-> {}, valid |-> {}, sources |-> {},
        errors |-> IF failing THEN {"query"} ELSE {}]
  ELSE LET cs == {c \in page.companies : city \in {Unread, c.town}}
           Here(f) == city = Unread \/ f \in {c.firm : c \in cs}
       IN [companies |-> cs,
           contacts |-> {f \in page.contacts : Here(f)},
           deals |-> {d \in page.deals : Here(d.firm)},
           \* Validation refuses those with relationships; the others have
           \* no subject among the accounts.
           valid |-> IF city = Unread THEN page.signals \ page.links ELSE {},
           sources |-> page.sources,
           errors |-> {s.id : s \in {s \in page.sources :
                                       s.availability \in {"error", "unavailable"}}}
                        \cup IF failing THEN {"query"} ELSE {}]

Prospects(w) == {c \in w.companies : c.relationship \in {"target", "customer"}}

(* sourceRegistry.ts                                                       *)
Verification(s) ==
  IF s.mode = "authentication_failed" THEN "failed"
  ELSE IF s.readable THEN "verified" ELSE "unverified"

SourceOfKind(w, ids) == {s \in w.sources : s.id \in ids}
CrmSource(w) == SourceOfKind(w, {"hubspot", "hubspot-demo"})
Failed(sources) == \E s \in sources : Verification(s) = "failed"

IsOpen(d) == d.stage \notin {"won", "lost"}
Worth(d) == IF d.value = Unread THEN 0 ELSE d.value
Total(deals) == SumFunctionOnSet([d \in deals |-> Worth(d)], deals)

CrmReadable(w) ==
  \E s \in CrmSource(w) :
    s.readable /\ s.data \in {"live_external", "stored_snapshot", "recently_ingested"}

Figure(value, state) == [value |-> value, state |-> state]
Count(set) == Figure(Cardinality(set), "available")

IsTargetProspect(c) ==
  \/ c.relationship = "target"
  \/ c.motion = "prospect_new_business"
  \/ c.status \in {"target_prospect", "new_logo"}

CanonicalMetrics(w) ==
  LET monitors == SourceOfKind(w, {"monitor"})
      newest == {s \in w.sources : \A r \in w.sources : r.at <= s.at}
      State(sources) ==
        IF \E s \in sources : s.data = "stored_snapshot" THEN "stale"
        ELSE IF Failed(sources) THEN "error" ELSE "available"
  IN [total_accounts |-> Count(w.companies),
      customer_accounts |-> Count({c \in w.companies : c.relationship = "customer"}),
      crm_synced_accounts |->
        IF CrmReadable(w) THEN Figure(Cardinality(w.companies), State(CrmSource(w)))
        ELSE Figure(Unread, IF Failed(CrmSource(w)) THEN "error" ELSE "unavailable"),
      signals |-> Figure(Cardinality(w.valid), State(monitors)),
      opportunity |-> Figure(Total({d \in w.deals : IsOpen(d)}),
                             IF w.deals # {} THEN "available" ELSE "unavailable"),
      mapped_accounts |-> Count({c \in w.companies : c.located}),
      data_freshness |->
        IF newest = {} THEN Figure(Unread, "unavailable")
        ELSE Figure((CHOOSE s \in newest : TRUE).at, State(newest))]

(* The badges of the navigation.                                           *)
SurfaceMetric(w) ==
  LET metrics == CanonicalMetrics(w)
      approved == w.deals # {} /\ \E s \in w.sources : s.readable /\ s.data = "live_external"
  IN [brief |-> metrics.signals,
      accounts |-> metrics.total_accounts,
      industry_updates |-> Count(w.valid),
      prospecting |-> Count({c \in w.companies : IsTargetProspect(c)}),
      map |-> metrics.mapped_accounts,
      analysis |-> IF approved THEN Count({d \in w.deals : IsOpen(d)})
                   ELSE Figure(Unread, "unavailable"),
      capacity |-> metrics.crm_synced_accounts,
      hubspot |-> Figure(Cardinality(w.contacts) + Cardinality(w.deals), "available")]

(* The number that is shown, or "Error" or "Unavailable" in its place.     *)
Told(figure) == IF figure.state \in {"unavailable", "error"} THEN Unread ELSE figure.value

(* metrics/catalog.ts: there are no rows of finance or production yet; the *)
(* pipeline is the one metric that is computed.                            *)
PipelineByStage(w) ==
  LET open == {d \in w.deals : IsOpen(d) /\ d.value # Unread}
  IN IF open = {} THEN Figure(Unread, "unavailable")
     ELSE Figure(Total(open), "available")

TableMetric(w) ==
  Figure(Unread, IF Failed(SourceOfKind(w, {"operating"})) THEN "error" ELSE "unavailable")

Chart(metric) == [state |-> metric.state, points |-> {}, extremes |-> Unread]

SystemNeedsAttention(w) == w.errors # {} \/ Failed(w.sources)
-----------------------------------------------------------------------------
(* The surfaces that the numbers speak of.                                 *)
IsProspecting(c) == c.status \in {"target_prospect", "new_logo", "active_pipeline"}

ProspectRows(w) ==
  {c \in w.companies :
     /\ IsProspecting(c) \/ c.motion = "prospect_new_business"
     /\ c.status \in {"target_prospect", "new_logo"} \/ c.motion = "prospect_new_business"}

OutreachQueue(w) == {c \in ProspectRows(w) : c.firm \in w.contacts}
Shortlist(w, city) == {c \in ProspectRows(w) : city \in {Unread, c.town}}

Markers(companies) == {c \in companies : c.located}

MapRail(w, prospectsOnly) ==
  LET companies == IF prospectsOnly THEN {c \in Prospects(w) : c.relationship = "target"}
                   ELSE w.companies
  IN [mapped |-> IF prospectsOnly THEN Cardinality(Markers(companies))
                 ELSE Told(CanonicalMetrics(w).mapped_accounts),
      drawn |-> Markers(companies),
      omitted |-> companies \ Markers(companies)]

(* Account 360 lists every account and opens on a customer when it can.    *)
AccountRows(w) == w.companies
OpensOn(w) ==
  LET customers == {c \in AccountRows(w) : c.relationship = "customer"}
  IN IF customers # {} THEN customers ELSE AccountRows(w)
-----------------------------------------------------------------------------
WorldInit ==
  /\ tenant \in Tenants
  /\ portal \in [Firms -> {"absent", "none"}] /\ hubspot \in {"ok", "unset"}
  /\ output \in {[reads |-> "missing", items |-> {}], [reads |-> "fresh", items |-> Stories]}
  /\ tenant = "demo" => portal = [f \in Firms |-> "absent"] /\ hubspot = "unset" /\ output.reads = "missing"
  /\ table = IF tenant = "demo" THEN DemoTable ELSE <<>>
  /\ stored = IF tenant = "demo" THEN Stories ELSE {}
  /\ linked = Resolved(stored, table)
  /\ page = Unread /\ failing = FALSE /\ town = Unread
  /\ known = <<>> /\ turns = 0

Turn == tenant = "live" /\ turns < MaxTurns /\ turns' = turns + 1

PortalChanges ==
  /\ Turn
  /\ \E f \in Firms, deal \in Deals : portal' = [portal EXCEPT ![f] = deal]
  /\ UNCHANGED <<tenant, hubspot, output, table, stored, linked, page, failing, town, known>>

HubSpotTurns ==
  /\ Turn
  /\ hubspot' \in Answers \ {hubspot}
  /\ UNCHANGED <<tenant, portal, output, table, stored, linked, page, failing, town, known>>

MonitorTurns ==
  /\ Turn
  /\ output' \in [reads : Outputs, items : SUBSET Stories]
  /\ UNCHANGED <<tenant, portal, hubspot, table, stored, linked, page, failing, town, known>>

Poll ==
  LET read == tenant = "live" /\ hubspot = "ok"
      cs == IF read THEN MapCompanies(portal) ELSE {}
      items == IF tenant = "live" THEN MonitorRecords(output) ELSE {}
  IN /\ table' = Upsert(cs, table)
     /\ stored' = stored \cup items
     /\ linked' = linked \cup Resolved(items, table')
     /\ page' = Payload(read, table', stored', linked')
     /\ known' = [f \in {c.firm : c \in cs} \cup DOMAIN known |->
                    IF f \in {c.firm : c \in cs}
                    THEN (CHOOSE c \in cs : c.firm = f).relationship ELSE known[f]]
     /\ failing' = FALSE
     /\ UNCHANGED <<tenant, portal, hubspot, output, town, turns>>

(* The process stops, or fails, between the two commits.                   *)
PollBreaks ==
  /\ tenant = "live" /\ hubspot = "ok"
  /\ table' = Sync(MapCompanies(portal), table)
  /\ failing' = TRUE
  /\ UNCHANGED <<tenant, portal, hubspot, output, stored, linked, page, town, known, turns>>

PollFails ==
  /\ failing' = TRUE
  /\ UNCHANGED <<tenant, portal, hubspot, output, table, stored, linked, page, town, known, turns>>

PickTown ==
  /\ town' \in {Unread} \cup {TownOf[f] : f \in Firms}
  /\ UNCHANGED <<tenant, portal, hubspot, output, table, stored, linked, page, failing, known, turns>>

WorldNext ==
  \/ PortalChanges \/ HubSpotTurns \/ MonitorTurns
  \/ Poll \/ PollBreaks \/ PollFails \/ PickTown

WorldSpec == WorldInit /\ [][WorldNext]_worldVars
-----------------------------------------------------------------------------
(* A badge counts what its surface lists: accounts, prospects, markers (on *)
(* the map also within a market, where the others stand apart as omitted). *)
(* The number of CRM accounts is told if and only if HubSpot was read; the *)
(* two totals of the open pipeline agree; what comes from HubSpot alone    *)
(* (pipeline, contacts, cities) is told of nothing that was not read, and  *)
(* no figure of finance is told or charted at all.  A HubSpot that is set  *)
(* up and was not read is brought to attention.                            *)
(* (canonicalMetrics.ts, catalog.ts, chartSpec.ts, and the surfaces)       *)
NumbersAgree ==
  LET w == Shown(Unread)
      badge == SurfaceMetric(w)
      metrics == CanonicalMetrics(w)
      rail == MapRail(Shown(town), FALSE)
      prospects == MapRail(w, TRUE)
      pipeline == Told(PipelineByStage(w))
      read == \E s \in CrmSource(w) : s.data = "live_external"
      sample == \E s \in CrmSource(w) : s.data = "simulated_internal"
  IN /\ Told(badge.accounts) = Cardinality(AccountRows(w))
     /\ Told(badge.prospecting) = Cardinality(ProspectRows(w))
     /\ Told(badge.map) = Cardinality(Markers(w.companies))
     /\ rail.mapped = Cardinality(rail.drawn)
     /\ prospects.drawn \cup prospects.omitted \subseteq ProspectRows(w)
     /\ (Told(metrics.crm_synced_accounts) # Unread) <=> read
     /\ Told(badge.capacity) = Told(metrics.crm_synced_accounts)
     /\ pipeline # Unread => pipeline = Told(metrics.opportunity)
     /\ \/ Told(metrics.opportunity) # Unread
        \/ Told(badge.hubspot) # 0
        \/ OutreachQueue(w) # {}
        \/ town # Unread /\ Shortlist(w, town) # {}
        => read \/ sample
     /\ OpensOn(w) \subseteq ProspectRows(w) => Told(metrics.customer_accounts) = 0
     /\ Told(TableMetric(w)) = Unread /\ Chart(TableMetric(w)).points = {}
     /\ Told(badge.analysis) # Unread => read
     /\ (\E s \in CrmSource(w) : s.data = "unavailable") => SystemNeedsAttention(w)

(* While HubSpot cannot be read, every account that a snapshot has shown   *)
(* is still on the page, under its name and with the relationship it had   *)
(* when it was last read.                                                  *)
(* (upsert_canonical_accounts, canonical_account_to_company)               *)
AccountsKept ==
  page # Unread /\ ~CrmReadable(Shown(Unread)) =>
    \A f \in DOMAIN known :
      \E c \in page.companies :
        c.firm = f /\ c.named /\ c.relationship = known[f]
=============================================================================
