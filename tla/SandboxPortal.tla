---------------------------- MODULE SandboxPortal ----------------------------
(***************************************************************************)
(* The tools that seed and clean the demo's HubSpot portal                 *)
(* (frontend/tools/seed-hubspot.ts and cleanup-hubspot.ts), and as much    *)
(* of the portal as they use.                                              *)
(*                                                                         *)
(* Both are scripts that people start, perhaps at once, that stop at the   *)
(* first error, and that are started again.  Each request is a step; what  *)
(* stops a script is a step of its own, so that a request may have taken   *)
(* effect whose answer was an error.                                       *)
(***************************************************************************)
EXTENDS Naturals, Sequences, SequencesExt, FiniteSets

CONSTANTS
  Rows,          \* companyRows, each named by its domain
  Account,       \* the row that the contact and the deal are of
  Seeds,         \* people who run the seed
  Sweeps,        \* people who run the cleanup
  MaxStarts,     \* bound on how often a script is started
  MaxDeeds,      \* bound on what others do in the portal
  MaxCompanies   \* bound on the companies of the portal

VARIABLES
  companies,  \* the company records, archived ones too
  objects,    \* the contacts and deals
  links,      \* pairs of an object and a company that it is associated to
  schema,     \* the properties that have been created
  portal,     \* what the portal allows
  seed,       \* the script of each person
  sweep,
  deeds,      \* what others have done so far
  meddled     \* history: others acted since the seed began to verify

portalVars ==
  <<companies, objects, links, schema, portal, seed, sweep, deeds, meddled>>

(* The domain of a company is that of a row, "artifact" for one of         *)
(* ARTIFACT_COMPANY_DOMAINS, "fake" for a domain or name of                *)
(* OLD_FAKE_COMPANIES, and "other" for any other.                          *)
Known == {"artifact", "fake"}

(* No row has a domain of an artifact or of an old fake.                   *)
ASSUME PortalAssumption ==
  /\ IsFiniteSet(Rows) /\ Account \in Rows
  /\ Rows \cap (Known \cup {"other", "none"}) = {}

(* btx is btx_company_domain, and by is history: who made the record.      *)
Company(domain, btx, named, by) ==
  [domain |-> domain, btx |-> btx, named |-> named, live |-> TRUE, by |-> by]

Live == {i \in DOMAIN companies : companies[i].live}

OfDomain(d) == {i \in Live : companies[i].domain = d}

(* The objects that are seeded, and those of the old seeds.                *)
Seeded == {"contact", "deal"}

OldFakes == {"fakeContact", "fakeDeal"}

(* The custom properties, in the order in which they are ensured; plain    *)
(* stands for the nine that nothing looks up records by.                   *)
Properties == <<"btx_company_domain", "plain", "btx_external_id">>

AllProperties == ToSet(Properties)

(* The steps of the seed, in their order.                                  *)
SeedSteps ==
  <<"properties", "companies", "fallback",
    "contact", "deal", "readContact", "linkContact", "readDeal", "linkDeal",
    "verifyCompanies", "verifyContact", "verifyDeal", "done">>

NoSeed == [pc |-> "stopped", starts |-> 0, company |-> 0, missing |-> FALSE]

NoSweep == [pc |-> "stopped", starts |-> 0, targets |-> {}, old |-> {}]

(* A portal that is new, or one with what is left of an old seed and a     *)
(* company that somebody has entered by hand; a token that may create the  *)
(* properties, or one that finds them.                                     *)
PortalInit ==
  /\ \/ companies = <<>> /\ objects = {}
     \/ /\ companies = <<Company("fake", "fake", TRUE, "old"),
                         Company(Account, "none", TRUE, "hand")>>
        /\ objects = OldFakes
  /\ links = {}
  /\ schema \in {{}, AllProperties}
  /\ portal \in [uniqueDomain : BOOLEAN, schemaScope : {schema = {}},
                autoCreate : BOOLEAN]
  /\ seed = [p \in Seeds |-> NoSeed]
  /\ sweep = [p \in Sweeps |-> NoSweep]
  /\ deeds = 0
  /\ meddled = [p \in Seeds |-> FALSE]
-----------------------------------------------------------------------------
(* The seed.  Without a token, or without --confirm, it does nothing.      *)
StartSeed(p) ==
  /\ seed[p].pc \in {"stopped", "done"}
  /\ seed[p].starts < MaxStarts
  /\ seed' = [seed EXCEPT ![p] =
       [NoSeed EXCEPT !.pc = SeedSteps[1], !.starts = seed[p].starts + 1]]
  /\ meddled' = [meddled EXCEPT ![p] = FALSE]
  /\ UNCHANGED <<companies, objects, links, schema, portal, sweep, deeds>>

(* An HTTP error, a failed check, or the person interrupts.                *)
StopSeed(p) ==
  /\ seed[p].pc \notin {"stopped", "done"}
  /\ seed' = [seed EXCEPT ![p] = [NoSeed EXCEPT !.starts = seed[p].starts]]
  /\ meddled' = [meddled EXCEPT ![p] = FALSE]
  /\ UNCHANGED <<companies, objects, links, schema, portal, sweep, deeds>>

After(step) == SeedSteps[1 + CHOOSE k \in DOMAIN SeedSteps : SeedSteps[k] = step]

At(p, step) == seed[p].pc = step /\ seed' = [seed EXCEPT ![p].pc = After(step)]

(* ensureCompanyProperties, ensureDealExternalIdProperty: a property that  *)
(* exists is a conflict, which is allowed; a token that may not create it  *)
(* (403) does when it can be read.                                         *)
EnsureProperties(p) ==
  /\ seed[p].pc = "properties"
  /\ portal.schemaScope \/ schema = AllProperties
  /\ \E n \in 0..Len(Properties) :
       /\ schema' = schema \cup ToSet(SubSeq(Properties, 1, n))
       /\ seed' = [seed EXCEPT ![p].pc = IF n = Len(Properties) THEN "companies"
                                         ELSE "stopped"]
  /\ UNCHANGED <<companies, objects, links, portal, sweep, deeds, meddled>>

IdOf(company, idProperty) ==
  IF idProperty = "domain" THEN company.domain ELSE company.btx

(* The records that an upsert by idProperty takes a row for.               *)
Match(all, d, idProperty) ==
  {i \in DOMAIN all : all[i].live /\ IdOf(all[i], idProperty) = d}

(* companyUpsertInputs: btx_company_domain is written when it is the id.   *)
MadeCompanies(all, done, idProperty) ==
  LET order == SetToSeq({d \in done : Match(all, d, idProperty) = {}})
  IN [k \in DOMAIN order |->
        Company(order[k], IF idProperty = "domain" THEN "none" ELSE order[k], TRUE, "seed")]

(* Mutant: a batch create.                                                 *)
UpsertCreates(all, done, idProperty) == all \o MadeCompanies(<<>>, done, idProperty)

(* Of the rows that are done, each that matches a record is written to     *)
(* one such record, and of each other one a record is made.                *)
Upsert(all, done, idProperty) ==
  LET Row(i) == IdOf(all[i], idProperty)
      Taken(i) == Row(i) \in done /\ i = CHOOSE j \in Match(all, Row(i), idProperty) : TRUE
  IN [i \in DOMAIN all |->
        IF all[i].live /\ Taken(i) THEN [all[i] EXCEPT !.domain = Row(i), !.named = TRUE]
        ELSE all[i]]
     \o MadeCompanies(all, done, idProperty)

(* batchUpsert; one with errors for some of its inputs stops the seed.     *)
UpsertCompanies(p, idProperty, next) ==
  \E done \in SUBSET Rows :
    /\ companies' = Upsert(companies, done, idProperty)
    /\ Len(companies') <= MaxCompanies
    /\ seed' = [seed EXCEPT
         ![p].pc = IF done = Rows THEN next ELSE "stopped",
         ![p].company = IF done = Rows
           THEN CHOOSE i \in Match(companies', Account, idProperty) : TRUE
           ELSE 0]
    /\ UNCHANGED <<objects, links, schema, portal, sweep, deeds, meddled>>

CompaniesByDomain(p) ==
  /\ seed[p].pc = "companies" /\ portal.uniqueDomain
  /\ UpsertCompanies(p, "domain", "contact")

(* isNonUniqueIdPropertyError                                              *)
CompaniesRefused(p) ==
  /\ ~portal.uniqueDomain
  /\ At(p, "companies")
  /\ UNCHANGED <<companies, objects, links, schema, portal, sweep, deeds, meddled>>

(* The property that it ensures once more is there.                        *)
CompaniesByFallback(p) ==
  /\ seed[p].pc = "fallback"
  /\ UpsertCompanies(p, "btx_company_domain", "contact")

(* By email, and by btx_external_id; before that the stages of deals are   *)
(* read.                                                                   *)
UpsertObject(p, object) ==
  /\ At(p, object)
  /\ objects' = objects \cup {object}
  /\ UNCHANGED <<companies, links, schema, portal, sweep, deeds, meddled>>

(* createMissingAssociations: reads, and then creates what was missing.    *)
ReadLinks(p, step, object) ==
  /\ seed[p].pc = step
  /\ seed' = [seed EXCEPT ![p].pc = After(step),
       ![p].missing = <<object, seed[p].company>> \notin links]
  /\ UNCHANGED <<companies, objects, links, schema, portal, sweep, deeds, meddled>>

CreateLinks(p, step, object) ==
  /\ seed[p].pc = step
  /\ seed' = [seed EXCEPT ![p].pc = After(step), ![p].missing = FALSE]
  /\ links' = IF seed[p].missing THEN links \cup {<<object, seed[p].company>>}
              ELSE links
  /\ UNCHANGED <<companies, objects, schema, portal, sweep, deeds, meddled>>

(* verifyHubSpotSeed: its search, and its two reads of associations.       *)
VerifyCompanies(p) ==
  /\ At(p, "verifyCompanies")
  /\ \A i \in Live : companies[i].domain \in Rows => companies[i].named
  /\ Cardinality({i \in Live : companies[i].domain \in Rows}) = Cardinality(Rows)
  /\ UNCHANGED <<companies, objects, links, schema, portal, sweep, deeds, meddled>>

LinkedTo(object) == {i \in Live : <<object, i>> \in links}

VerifyLinks(p, step, object) ==
  /\ At(p, step)
  /\ LinkedTo(object) = {seed[p].company}
  /\ UNCHANGED <<companies, objects, links, schema, portal, sweep, deeds, meddled>>
-----------------------------------------------------------------------------
(* Mutant: the nameless companies are cleaned up.                          *)
NamelessTargets ==
  {i \in Live : companies[i].domain = "fake" \/ ~companies[i].named}

(* resolveCleanupTargets                                                   *)
Targets == {i \in Live : companies[i].domain \in Known \/ companies[i].btx \in Known}

StartSweep(p) ==
  /\ sweep[p].pc = "stopped"
  /\ sweep[p].starts < MaxStarts
  /\ sweep' = [sweep EXCEPT ![p] =
       [pc |-> "deals", starts |-> @.starts + 1, targets |-> Targets,
        old |-> objects \cap OldFakes]]
  /\ UNCHANGED <<companies, objects, links, schema, portal, seed, deeds, meddled>>

StopSweep(p) ==
  /\ sweep[p].pc # "stopped"
  /\ sweep' = [sweep EXCEPT ![p] = [NoSweep EXCEPT !.starts = sweep[p].starts]]
  /\ UNCHANGED <<companies, objects, links, schema, portal, seed, deeds, meddled>>

(* archiveObjects of deals, of contacts, and of companies, which loses the *)
(* associations of the company.                                            *)
ArchiveObject(p, step, object, next) ==
  /\ sweep[p].pc = step
  /\ objects' = objects \ (sweep[p].old \cap {object})
  /\ sweep' = [sweep EXCEPT ![p].pc = next]
  /\ UNCHANGED <<companies, links, schema, portal, seed, deeds, meddled>>

ArchiveCompanies(p) ==
  /\ sweep[p].pc = "companies"
  /\ companies' = [i \in DOMAIN companies |->
       [companies[i] EXCEPT !.live = @ /\ i \notin sweep[p].targets]]
  /\ links' = {l \in links : l[2] \notin sweep[p].targets}
  /\ sweep' = [sweep EXCEPT ![p] = [NoSweep EXCEPT !.starts = sweep[p].starts]]
  /\ UNCHANGED <<objects, schema, portal, seed, deeds, meddled>>
-----------------------------------------------------------------------------
(* What others do in the portal.                                           *)
Deed ==
  /\ deeds < MaxDeeds
  /\ deeds' = deeds + 1
  /\ meddled' = [p \in Seeds |->
       meddled[p] \/ seed[p].pc \in {"verifyContact", "verifyDeal", "done"}]

Adds(company) ==
  /\ Len(companies) < MaxCompanies
  /\ companies' = Append(companies, company)

(* HubSpot creates a nameless company for the contact's email domain, and  *)
(* may associate the contact with it.                                      *)
AutoCreate(associate) ==
  /\ Deed
  /\ portal.autoCreate /\ "contact" \in objects /\ OfDomain("artifact") = {}
  /\ Adds(Company("artifact", "none", FALSE, "auto"))
  /\ links' = IF associate THEN links \cup {<<"contact", Len(companies')>>}
              ELSE links
  /\ UNCHANGED <<objects, schema, portal, seed, sweep>>

(* Somebody enters a company by hand, perhaps without a name.              *)
EnterCompany(d, named) ==
  /\ Deed
  /\ Adds(Company(d, "none", named, "hand"))
  /\ UNCHANGED <<objects, links, schema, portal, seed, sweep>>

(* Somebody makes a real company of an artifact.                           *)
AdoptCompany(i) ==
  /\ Deed
  /\ i \in OfDomain("artifact")
  /\ companies' = [companies EXCEPT ![i].domain = "other", ![i].named = TRUE,
                                    ![i].by = "adopted"]
  /\ UNCHANGED <<objects, links, schema, portal, seed, sweep>>
-----------------------------------------------------------------------------
SeedNext(p) ==
  \/ StartSeed(p) \/ StopSeed(p)
  \/ EnsureProperties(p)
  \/ CompaniesByDomain(p) \/ CompaniesRefused(p) \/ CompaniesByFallback(p)
  \/ \E object \in Seeded : UpsertObject(p, object)
  \/ ReadLinks(p, "readContact", "contact") \/ ReadLinks(p, "readDeal", "deal")
  \/ CreateLinks(p, "linkContact", "contact") \/ CreateLinks(p, "linkDeal", "deal")
  \/ VerifyCompanies(p)
  \/ VerifyLinks(p, "verifyContact", "contact") \/ VerifyLinks(p, "verifyDeal", "deal")

SweepNext(p) ==
  \/ StartSweep(p) \/ StopSweep(p)
  \/ ArchiveObject(p, "deals", "fakeDeal", "contacts")
  \/ ArchiveObject(p, "contacts", "fakeContact", "companies")
  \/ ArchiveCompanies(p)

OthersNext ==
  \/ \E associate \in BOOLEAN : AutoCreate(associate)
  \/ \E d \in {Account, "other"}, named \in BOOLEAN : EnterCompany(d, named)
  \/ \E i \in Live : AdoptCompany(i)

PortalNext ==
  \/ \E p \in Seeds : SeedNext(p)
  \/ \E p \in Sweeps : SweepNext(p)
  \/ OthersNext

PortalSpec == PortalInit /\ [][PortalNext]_portalVars
-----------------------------------------------------------------------------
(* However often the seed is started, stopped and raced, it makes one      *)
(* company for a row at the most, and none beside one entered before it    *)
(* where the portal lets it find that by its domain.                       *)
SeededOnce ==
  \A d \in Rows :
    LET made == {i \in OfDomain(d) : companies[i].by = "seed"}
    IN /\ Cardinality(made) <= 1
       /\ portal.uniqueDomain =>
            \A i \in made, j \in OfDomain(d) : companies[j].by = "hand" => i < j

(* When the seed says that it is complete, the portal holds one named      *)
(* company for each row, and the contact and the deal are associated with  *)
(* that of the account alone, unless others acted since it began to check. *)
VerifiedSeed ==
  \A p \in Seeds : seed[p].pc = "done" /\ ~meddled[p] =>
    /\ \A d \in Rows : \E i \in Live : OfDomain(d) = {i} /\ companies[i].named
    /\ \A object \in Seeded : LinkedTo(object) = OfDomain(Account)

(* What the seed reports is what the portal holds, and nothing twice,      *)
(* however often it was started (tools/seed-hubspot.ts).                   *)
SeedComplete == SeededOnce /\ VerifiedSeed

(* The cleanup archives what it knows, and of the records that somebody    *)
(* has adopted since it listed them no others.                             *)
CleanupSpares ==
  /\ \A i \in DOMAIN companies \ Live :
       companies[i].domain \in Known \/ companies[i].by = "adopted"
  /\ \A l \in links : companies[l[2]].live
=============================================================================
