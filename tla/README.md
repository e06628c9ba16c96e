# Verification of the BTX Revenue Cockpit

TLA+ models of the repository, the TLC configurations that check them on small
instances, and machine-checked (TLAPS) proofs about them. `src/` below is the
root of the repository. `PROJECT.json` is the index: which part is modelled
where, what every run checks, which source lines every definition stands for,
and which hazards of the code each property is aimed at.

1. [The system](#1-the-system)
2. [What is modelled](#2-what-is-modelled)
3. [Runs, bounds and results](#3-runs-bounds-and-results)
4. [Fairness](#4-fairness)
5. [What is proved](#5-what-is-proved)
6. [What disagrees with the documents, and what a reader should know](#6-what-disagrees-with-the-documents-and-what-a-reader-should-know)
7. [Not modelled, and the plan](#7-not-modelled-and-the-plan)

To run a check, in this directory: `tlc -config Delivery.cfg MCDelivery.tla`
(each configuration is listed with its module in section 3); to check proofs,
`tlapm WorkItemsProofs.tla` (minutes; `CockpitProofs` takes about a quarter of an hour
on four cores).

## 1. The system

A revenue cockpit for one client (BTX). Three programs share a database and some
files: a FastAPI backend with a Celery worker (`btx_platform/`), a monitor that
collects and scores industry news (`monitor_engine/`, run as a subprocess or by a
GitHub workflow), and a single-page application (`frontend/src/`).

| Component | State it keeps | Operations | Interacts with | What is hard |
|---|---|---|---|---|
| Webhook intake (`api.py` `receive_webhook`, `ingest.py`) | tables `events`, `idempotency_keys` | authenticate, validate, deduplicate, persist, enqueue | sources (HTTP), broker | several API processes handle deliveries of one key at once; the process may stop between commit and enqueue; a key may be purged under a handler |
| Forward worker (`workers/`, `queue.py`) | `events.status/attempts`, `outbound_log`, `dead_letters`; the broker's queue | take a task, two commits per attempt, retry, dead-letter, acknowledge late | destination (HTTP), broker | redelivery of a task whose worker died or still runs; two workers on one event |
| Retention (`retention.py`) | deletes from all of the above and trims work item audits | purge by age | runs beside all handlers | deletes what others have read |
| Work items (`api.py`) | table `work_items` with `audit_history`, `hubspot_task_audits` | create with dedupe key, transitions, patch, note, dismiss, execute as HubSpot task | HubSpot, relationship review, industry monitor | read - decide - write without lock or version; two commits around remote calls |
| The page of an item, the queue (`WorkQueue.tsx`, `workItems.ts`, `presentation.ts`) | the open item, draft, preview, pending action | open, command, save, preview, execute, undo; count and link | work item routes | works from the last snapshot, which only a refresh replaces; counters and lists decide twice |
| HubSpot client and CRM writes (`hubspot.py`, `api.py`) | idempotency answers in process memory | lists, batch imports, tasks, 429 retries | HubSpot | partial success, restart forgets the keys |
| CRM workspace (`HubSpotViewer.tsx`) | list type, selection, search, results | search, select, make a list | list routes | two calls make one list; ids of two kinds in one selection |
| Relationship review (`intelligence.py`, `api.py`) | relationships of names in a signal to accounts, canonical accounts | upsert, decide, close the review's work item | work items, snapshot | manual decision against automatic update; one relationship per name |
| World snapshot (`api.py`, `useWorld.ts`, `canonicalMetrics.ts`, the pages) | canonical accounts and signals kept, the snapshot of each browser | poll: read HubSpot, sync, read the monitor's file, build; every page computes numbers | HubSpot, monitor artifacts, database | each source fails on its own; two commits in one poll; one number told in ten places |
| Industry updates (`industry_monitor.py`, `IndustryUpdates.tsx`) | review status and history per update | load, review, undo, draft work, promote | monitor artifacts, work items | undo means the latest review, of whomever; late loads |
| Pipeline runs (`btx_platform/pipeline.py`, `engine_config.py`) | `pipeline_runs`, versioned configurations | check and trigger, subprocess or dispatch | monitor engine, GitHub | check-then-insert; a run left `running` |
| Monitor engine (`monitor_engine/`) | `run_output.json`, `archive.json`, feedback file | collect, prefilter, dedupe, score, group, archive | files, LLM, news sources | two files replaced in turn; overlapping runs |
| Assistant (`assistant.py`) | conversations, turns, daily search budget | ask, persist a turn, archive, delete | LLM, web search | budget read before and spent after the call |
| Browser query cache (`serverState.ts`) | one entry per key: status, data, age, promise, controller | fetch, share, abort, time out, invalidate | backend reads and mutations | callbacks of aborted and replaced requests arrive late |
| Frame (`App.tsx`, `router.ts`, `store.ts`) | the address with its history, the store, dossier, palette, notice | navigate, go back, open, close, Escape | every page | one account in two places, copied by an effect; timers and answers act on whatever is open by then |
| Settings (`ui/settings/`) | the mounted panel, drafts in `localStorage`, the weights in use (a global of the page) | load, edit, save, run now, reset | engine configurations, pipeline runs | answers to a panel that has been edited, or left; other people's saves |
| Ask (`AskSurface.tsx`) | route, the conversation shown, the question under way | list, open, ask by stream with a fallback, stop, rename, archive | assistant routes | every await may be overtaken by another; a dropped stream is asked again |
| Deliverables (`ui/deliverables/`, `agents/`, `DeliverableLibrary.tsx`) | wizard, editor, local copies (40 at most), saves under way, the AI's status | compose, generate, save, edit, suggest, restore, close, list | deliverable routes, local memory, LLM | a model's text that is rewritten after it was checked; an answer that resets the editor; two saves that create; lists that join on an id learnt late |
| CRM surfaces (`CrmWriteActions.tsx`, `ImportListModal.tsx`) | panel, lock, the import's classes and boxes | preview, confirm; map, review, push | CRM routes | double submission; a refresh in the middle; a list that changes after it was reviewed |
| Decision engine (`engine/`, `intelligence.ts`) | none | validate, score, view from the client's seat, alert, recommend, rank | snapshot, configuration | order dependence, rounding and caps, numbers without a story |
| Evidence and timelines (`evidence.ts`, `timeline.ts`, the drawer, `BriefingMode.tsx`) | the open drawer and briefing | open, close, expand, step | snapshot | the drawer decides again what the page has decided; cuts and dedupes |
| Portal scripts (`tools/seed-hubspot.ts`, `cleanup-hubspot.ts`) | none; the portal's records | upsert, associate, verify; list, archive | HubSpot | stopped anywhere and started again; two at once; what HubSpot does by itself |
| Auth, rate limit, crypto, health, migrations, tooling | counters of the limiter | per request or one-shot | - | window boundaries |

What makes each correct:

- **Intake**: a key never has two events; every answer names the event that owns
  the key; an acknowledged event is not lost.
- **Worker**: as many accepts as redeliveries explain, and no more; a dead letter
  exists exactly for exhausted events; every attempt is logged; every
  acknowledged event ends delivered or dead-lettered.
- **Work items**: no execution without approval; the three state columns agree;
  closed work stays closed; one verified task per item; every commit audited; one
  active item per dedupe key. From the page: the task is the one previewed, and
  each counter leads to what it counts.
- **Query cache**: the status shown is true; a spinner ends; answers do not go
  backwards; a mutation followed by an invalidation becomes visible; identical
  requests are shared.
- **Pipeline runs and artifacts**: one run at a time and not too often, feed and
  archive from the same run, a run collects from the configuration it recorded,
  no important story lost.
- **Settings**: a save that was answered stays, a version label belongs to the
  document beside it, scoring follows what the editor shows.
- **Assistant and Ask**: the search budget holds, a question enters a
  conversation once, the page shows the conversation as the backend has it.
- **Deliverables**: no figure that the world or the user has not given; what was
  typed is kept, one record per deliverable, the local copy and the record agree,
  the library lists each once.
- **CRM writes, lists, portal scripts**: no record is made twice by a retry, an
  import pushes what was reviewed, a list holds what was chosen, the seed verifies
  what it says it verified, the cleanup spares what is not its own.
- **Decision engine, evidence**: what scores is told wherever the account is; a
  signal more lowers nothing; what is listed as confirmed opens so.
- **World snapshot**: an outage loses no account; no source that was not read is
  told as read; two numbers for one thing are equal.
- **Frame**: the page and the dossier are those that the address or the user
  asked for.
- **Updates**: an undo gives back the status before the review it undoes.

Several interleavings matter more than any single operation: API handlers among
themselves (separate processes for webhooks, threads of one pool for the plain
`def` routes), handlers against the worker and the retention job, the worker
against the broker's redelivery, and, in the browser, the callbacks of several
requests, timers and effects against what the user has done meanwhile.

## 2. What is modelled

Two families. The backend's concurrent cores have modules, runs and proofs of
their own (webhook path, work items, query cache). The surfaces of the cockpit,
each with the handlers behind it, are one module each, and two compositions put
them side by side: `Cockpit` (surfaces that converse, write or frame) and
`Workplace` (surfaces that read the world and act on what others wrote).

### The webhook path

| Module | Stands for |
|---|---|
| `EventStore` | the four tables of `models.py` and the Celery queue; shared variables |
| `WebhookIngest` | `receive_webhook` and `ingest()`: one action per database round trip (`Refuse`, `Admit`, `FastPath`, `Persist`, `Resolve`, `Enqueue`), and the faults `HandlerCrash`, `EnqueueFails` |
| `ForwardWorker` | `forward_event_sync` and the `forward_event` task, cut at its commits and at the HTTP call (`Take`, `Load`, `FinishSink`, `BeginAttempt`, `Post`, `Delivered`, `DeadLettered`, `DeadLetterClash`, `AttemptFailed`, `Retry`, `Acknowledge`), and the faults `WorkerCrash`, `Redeliver` |
| `WebhookDelivery` | their composition over one store, with the retention job (`PurgeExpired`), the properties and the refinement mappings |
| `KeyedIntake` | abstract: a delivery is taken in by one atomic step |
| `EventLifecycle` | abstract: the lifecycle of one event when nothing fails around it |
| `MCDelivery` | TLC instance |
| `WebhookDeliveryProofs` | proofs |

State and code. `event[d]` is the row that delivery `d` stored (uuids are fresh, so
an event is named by its delivery); `keyRow` is `idempotency_keys`, whose primary
key makes the second of two inserts fail; `log` is `outbound_log`, `dead` the
`dead_letters` table with its unique event, `queued` counts the copies of each
task message, which carries its own retry count. The session factory sets
`expire_on_commit=False`: a worker therefore remembers the status it loaded and
a commit sends only changed columns. `WithStatus` models this, and it matters: a
worker that remembers `processing` does not write `processing` again over
another worker's `dead`.

`InHand` is the one assumption about time: retention is counted in days (90 by
default) and a handler or an attempt in seconds, so the job does not delete an
event that a process is in the middle of. A task that waits in the broker may
outlive its event, and then it is retried until its retries are spent.

### Work items

`WorkLifecycle` is the state machine of an item as operators: the transition
table, what a command leaves (`After`), when the HubSpot execution may begin
(`MayExecute`), the terminal states. `WorkItems`, the page of an item, the queue's
views and the timelines all use it.

`WorkItems` models every command on `work_items` that writes: creation
(`LookUp`, then `Insert`), the transition table, patches and notes (`Annotate`), the
closing of items by a review decision (`CloseReviewed`), and the
HubSpot execution with its two commits (`Execute`, `Begin`, `Refresh`,
`CreateTask`/`TaskRefused`, `ReadBack`, `FinishVerified`/`FinishFailed`, and
`Abandon`, a process that stops or a call that raises something that is not
caught). A thread is one handler with one session: it remembers the row it read
(`seen`), and its commit is an UPDATE of the columns it changed (`Update`). The
routes are plain functions run by a thread pool, rows are neither locked nor
versioned, so threads overlap in the model as they do in the server.

`raced` is a ghost: the items on which some handler wrote a row that had changed
since it read it. Properties that overlapping handlers break are stated for items
that were not raced, and the unconditional form is checked where a document
claims it (section 6). `approved` is a ghost too: the items some command has
approved.

A reader of `api.py` meets `create_work_item` accepting any
`approval_state`, "approved" included. `ClientAssumption` says that the clients
in this repository do not send that; `TasksNeedApproval` depends on it.

### Browser query cache

`QueryCache` models one key of `serverState.ts` (keys share nothing).
JavaScript runs one callback at a time, so each callback is one action: `Start`
(`fetchQuery` past its early returns), `Succeed`/`Fail`/`Cancel` (the `then` and the
two outcomes of `catch`), `TimeOut` (the 12 s timer), `Invalidate`
(`invalidateQueries` after a mutation), `Expire` (five minutes). `Read` and `Mutate` are
the backend's side. A response is represented by the backend version it was read
at, which is all that freshness and order depend on. An aborted call may settle
late: the loaders wait for the session token before they call `fetch`, so
the abort becomes visible to the promise only after that wait.

The ghosts are `source` (the request whose response is shown), `invalidated`
(version of the last invalidation) and each request's `overtaken`.

### Workplace: surfaces that read the world

| Surface | Modules | Stands for |
|---|---|---|
| settings | `RunArchive` | `archive/core.py` as functions: the rolling window, `update_archive` (append, evict, pin, unpin), matching of stories, `compute_diff`'s new tier 1 |
| | `EngineConfig` | `engine_configs` and a PUT, cut between the read of the latest version and the insert |
| | `MonitorRuns` | `trigger_pipeline` cut at its check, its commit and its outcome; the monitor process cut at the read of the archive and at the two replacements (`Collect`, `LoadArchive`, `ReplaceArchive`, `ReplaceFeed`, `RestorePair`), its timeout; the stop of the API |
| | `SettingsWorkspace` | the settings surface of one tab over them, with other people's saves and runs |
| feed | `DecisionFeed` | validation, scoring, the view from the client's seat, alerts, recommendations and the order of prospects as functions of a feed; another feed is a step; and where the page, the timeline and the drawer tell a signal that scores |
| draft | `Drafting` | `runAgent`: facts, template, the handshake of the AI, composition, revision, gates, fallback, refusal, for all agents a template names |
| work | `WorkViews` | filters, route query, counters of the ribbon and the briefing, as functions of an item |
| | `WorkDesk` | the page of one item: every button, its call, the handler, the answer or its loss, refreshes, colleagues |
| world | `WorldSnapshot` | a poll: HubSpot, the sync of canonical accounts, the monitor's file, the payload; the numbers that badges, headers, rail, map and metrics compute from it |
| | `ProspectDesk` | the pages that rank and explain: prospects, map cards, dossier, account page, briefing, programs, analysis, capacity, production view, data sources, `/health` |
| all | `Workplace`, `MCWorkplace` | composition and TLC instance |
| | `SettingsProofs`, `WorkplaceProofs`, and `SumProofs` for their sums | proofs |

*Settings.* A `child` is the monitor process of a run row; it outlives the API
process that started it. `mechanism` is the deployment's choice. `latest` is a
ghost, the last published copy of every story, against which `ImportantKept` is
stated; `checked` remembers how many rows a trigger's check saw, which tells raced
triggers from serial ones. A panel has a number, so that an answer finds the panel
that asked; the weights in use (`applied`) outlive it. `stray` is a ghost: the
document shown is knowingly not the version named beside it.

*Feed.* The engine is deterministic; what varies is the feed. A list that the code
sorts by a total order is a set; `occurrence` keeps the places that matter, ids are
numbers in the order of `localeCompare`, confidences hundredths. `MoreNeverLess` is
an action property over feeds that grow, under a configuration that weighs nothing
below zero (`Adds`): the schema would let negative weights and factors pass
(section 6). `Power` is `Math.pow` of the decay, as a function.

*Draft.* A text is the figures it tells and the marks a gate looks for (our words,
negated health, stranger names, voice). What the model answers is chosen from
texts that are grounded, made up, unvoiced or naming a stranger; whether it answers,
garbles or fails is chosen too. A second call revises what the first call's gate
has passed.

*Work.* The page keeps the item of the last snapshot (`copy`); its own calls'
answers are thrown away, as in the code. `seen` is the preview a person looked at
when pressing Execute.

*World.* A poll is one step but for the one place where the process may stop with
half of it committed (`PollBreaks`: `_sync_canonical_accounts` has its own
transaction). Deals are one per firm in its stage (and whether it has an amount);
`known` is a ghost, the relationship each account had when it was last read.

### Cockpit: surfaces that converse, write and frame

| Surface | Modules | Stands for |
|---|---|---|
| ask | `AssistantStore` | the conversations of the backend and `persist_turn`, cut at the read of the day's searches, the provider call and the commit |
| | `AskSurface` | the Ask page: every await is a request in `sent` and an answer in `answers`, reordered and lost |
| deliverable | `DeliverableEditor` | the wizard, the editor and the save in two places (local copy, backend record) |
| account, list | `CrmWrites` | the account's write panel, the list import, and the idempotency memory of their handlers |
| portal | `SandboxPortal` | the seed and cleanup scripts, step by step, and what others and HubSpot do in the portal |
| updates | `MonitorDesk` | the page of industry updates over its review and work item routes, with a colleague |
| lists | `ClientLists` | the CRM workspace: search, selection, and a list made by two calls |
| shell | `Shell` | address bar and history, router, store, the effect between them, rail, palette, dossier, notice, saved documents |
| library | `Library` | `localMemory.ts` with its caps, the saves in their two steps, the library's page and its loads |
| evidence | `EvidenceDesk` | packages of evidence, the drawer, timelines and the briefing of an account, over reviewed names and one item with its audit trail |
| all | `Cockpit`, `MCCockpit` | composition and TLC instance |
| | `AskProofs`, `CockpitProofs` | proofs |

Both compositions keep the state of a surface that is not mounted at a value
without meaning, as React does; answers that arrive after their surface is gone
are modelled in the surface's own module. So the surfaces do not multiply each
other's states, and a run's bound is the sum of its surfaces.

The ghosts say which mishap explains an exception: `raced` on a message (the
budget was read before another answer's searches were committed), `dropped` (the
questions whose stream broke), `behind` (the page has missed or overwritten an
answer), `excuse` (why the last edit may be gone), `extra` (creating saves that were
lost or overlapped), `explained` (the mishaps that explain a second HubSpot
record), `excused` (lists that may be there twice), `unsure` (saves whose answer
never came), `restored` (what an undo took back), `meddled` (others acted since the
seed began to check). Each property is stated with them, and each is as strong as
the code allows: without its exception TLC refutes it.

### Abstractions common to all

Texts, payloads, timestamps (other than order) and tenants (other than live and
demo) are left out. A command that only some roles may give is a command
somebody may give, but on the page of an item, which has the role of its user.
Signature and token checks are one nondeterministic refusal. Backoff delays are
left out: a retry may come at any time.

## 3. Runs, bounds and results

Passing runs:

| Configuration (module) | Question | Bounds and why they are enough |
|---|---|---|
| `Delivery.cfg` (`MCDelivery`) | Do key rows, dead letters and audit trail stay consistent under races, crashes, an unreachable broker, redelivery and retention; does the receiver implement `KeyedIntake`? | two deliveries, one key (so they can race for it; each may also carry no key); one connection with and one without a destination; two workers; two attempts (one retry, then exhaustion); one redelivery or crash per event, which puts two copies of a task in play |
| `DeliveryLive.cfg` (`MCDelivery`) | With nothing failing but the destination, does every event follow `EventLifecycle`, and is every acknowledged event settled? | as above without faults or retention |
| `WorkItems.cfg` (`MCWorkItems`) | State columns, approval, verified tasks, audit, closed items, under any commands of two overlapping threads | one item (items interact only through dedupe keys, see below), two threads, eight commits: creation, request, approval and two overlapping executions of two commits each, and one command more; two HubSpot tasks |
| `QueryCache.cfg` (`MCQueryCache`) | Truth of the status, sharing, order, freshness, end of loading | three loader calls: the one a refresh aborts, the one the aborted one orphans, the one that overtakes the orphan; three backend versions |
| `Workplace.cfg` (`MCWorkplace`) | The surfaces that read the world (below) | below; 1.5 million states |
| `Cockpit.cfg` (`MCCockpit`) | The surfaces that converse, write and frame (below) | below; 2.1 million states |

Runs that refute a statement of the documentation (section 6):
`DeliveryNoLoss.cfg`, `DeliveryDeadStops.cfg`, `WorkItemsRetry.cfg`,
`WorkItemsDedupe.cfg`, `WorkItemsAudit.cfg`, `QueryCacheDedupe.cfg`.

Bounds by surface:

| Surface | Bounds and why they are enough |
|---|---|
| settings | two saves (two versions can race), two triggers, two runs over a window of one that holds an important story at the start (a run evicts the one before), one story that a run finds at tier 1, at tier 3 or not at all; interval and clock of one, one stop of the API; `MaxEffort` bounds what users do together (4: open, edit, save and one more, or two runs) |
| feed | five companies (the client, a target, two competitors in two cities, a supplier); every feed of up to three of eight signals: two that corroborate, or a threshold and the signal that passes it; the repository's configuration and a heavier one, in which scores reach their cap |
| draft | nine processes with every choice of sections rewritten (all, the first, all but it); six books (on a round thousand and off it, without pipeline, healthy with a long quotation, without capacity, empty); four hints; two drafts in turn, since the second finds the AI's status as the first left it; amounts below a million, where `money()` changes its unit |
| work | an unowned item that awaits its approval, and an approved one with an owner; four roles; two calls of the page (a preview and an execution, a dismissal and its undo, a command and a save), one change by a colleague |
| world | two firms in two cities, one with a contact and a CAGE code; six states of a firm's deal; one monitor story about one of them; four answers of HubSpot, five readings of the artifact; a live and a demo tenant; two changes outside, from four portals, with and without HubSpot and with and without a first artifact: a deal that appears and an outage, a deletion and an outage, a stale file in an outage. Polls, failed and broken polls and choices of a city are unbounded |
| ask | two conversations, two questions, two events of user or network, two answers under way, a budget of one search |
| deliverable | three texts (made, typed, suggested), seven steps, two versions |
| account, list | two rows, three requests, two mishaps (lost answer, restart, refresh) |
| portal | two rows, two people seeding and one cleaning, one deed of others, six companies |
| updates | two updates (a candidate of an account; a market update of a program), two reviews or drafts, one of others, two loads |
| lists | companies 1 and 2, contact 2 (a number of both kinds), the world knows company 1 and the contact; two searches, two lists, one mishap |
| shell | two accounts, six addresses that may be typed, three acts after that: open, go elsewhere, go back |
| library | three documents (about an account, about none, about an unknown one) and one of another user; two kept instead of 40; three uses, two loads, three records |
| evidence | one signal with two names, of one account or of two; a review item, and an approved item with a market source; two changes of the backend; the cuts 14, 8 and 7 are 4, 2 and 2, so that each cut happens |

What the properties say:

- `KeysMatchEvents`: a key row names a stored event carrying that key, and
  vice versa; so two events of one key never coexist.
- `IntakeIsKeyed`: refinement of `KeyedIntake`. Under the mapping (key rows,
  stored events, answered ids) each concurrent step is one atomic step or none.
  The interesting step is the lost insert race: rolled back, then resolved by a
  second lookup, or answered 409 if the owner has been purged meanwhile.
- `AttemptsAccounted` (`AcceptsBounded`, `AuditTrailComplete`): an event is accepted
  at most once plus once per redelivery; without redelivery the log is attempts
  1, 2, ... and lacks at most the one in progress. (With redelivery, a worker that
  dies between the two commits leaves an attempt counted and not logged; the
  property says so by its condition.)
- `DeadLettersHaveEvidence`: a dead letter has an exhausted attempt in the
  log; a `dead` event has its dead letter.
- `LifecycleHolds`: refinement of `EventLifecycle`: attempts are bounded and
  `done` and `dead` final.
- `AcknowledgedSettles` (liveness): an event acknowledged to any delivery ends
  forwarded or dead-lettered.
- `ColumnsAgree`, `ClosedStaysClosed`: unless handlers raced, status, approval and
  execution state agree, and only a reopen leaves a terminal state.
- `TasksNeedApproval`: no task for an item nobody approved, races included.
- `TasksOnRecord` (`VerifiedTasks`, `AuditComplete`): the task id on a row was read
  back for that item, races included; without races an item has no other verified
  task, and each commit has its audit entry.
- `StatusTellsTruth`: the promise handed to callers is live; loading and
  refreshing mean there is one; loading shows nothing, success and refreshing
  something. The converse for `idle` is not claimed: after an aborted first load
  settles late, an entry that has received data meanwhile can be shown idle.
- `FreshSinceInvalidation`: data older than the last invalidation passes for
  fresh only if its response was under way when the invalidation ran.
- `DataMovesForward`, `SharesUntilAborted`: answers go backwards, and requests
  are doubled, only after an aborted call has settled - the one mechanism by which
  the code loses track of a request.
- `LoadingEnds` (liveness): a spinner ends.
- `AnsweredSavesKept`: each save that was answered is a version of its own; of two
  that computed one version the constraint refuses one.
- `RunsApart` (`TriggersSerialized`, `PairTogether`): runs are one at a time and an
  interval apart unless both triggers were checked before either had its row; feed
  and archive are of one run, except between the two replacements, after a kill
  there, and after overlapping runs. (The docstring of `_persist_completed_run` says
  "together, restoring the last good pair on failure"; a kill is not a failure it
  can see.)
- `RunsKeep` (`ImportantKept`, `RunReadsItsConfig`): the archive holds every story
  whose last published copy was important, unless runs overlapped; a run collects
  from the version recorded for it, unless raced: the configuration file is one.
- `LabelTruthful`, `AppliedIsShown`: the version beside a document is that
  document's; the weights in use change only to what the open editor shows.
- `ScoredIsTold`: a linked signal that moves a score of an account is listed as
  backed on its page, told in its timeline as confirmed, opens as evidence about
  that account, and is counted by its ranking.
- `MoreNeverLess` (action): a snapshot that holds at least the same signals lowers
  no score, none of the client's own view, no alert and no priority of an advice,
  for every feed and every configuration that weighs nothing below zero (`Adds`).
- `DraftTold`: a document that is returned tells no figure that neither the world
  nor the user gave, names nobody unknown, says "healthy" nowhere and none of our
  words to a prospect; and if the model wrote any of it, its path says so.
- `TaskAsOffered` (`TaskAsPreviewed`, `CommandsOffered`): a task made from the page is
  the one its preview told, unless page or row were edited since; and the row takes
  only commands that the server offers that user by then (but one, section 6).
- `CountersLead`: every counter that counts the item links to a list that has it,
  for every due date and priority; the page's first command is one it offers.
- `WorldTold` (`NumbersAgree`, `AccountsKept`, `PagesAgree`): badges, headers and the
  rail count what their surfaces list; what comes from HubSpot is told just if it
  was read; in an outage every account once shown stays, under its name and with
  its relationship; the account page, its explanation, the context given to Ask,
  prospecting, the map, the programs and the production view agree on an account's
  pipeline, contacts, gaps and sources.
- `BudgetKept`: the day's searches exceed the budget by no more than raced answers.
- `ThreadTold` (`AskedOnce`, `ThreadIsCurrent`), `AskSettles` (liveness): a question is
  committed once unless its stream was dropped; the thread shown is the backend's
  unless the page missed or overwrote an answer; a page left alone comes to rest.
- `EditsSafe` (`EditsKept`, `OneRecord`), `CopiesAgree`: what was typed is kept, a
  deliverable has one record, the local copy and the record agree, up to `excuse`
  and `extra`.
- `WritesAsReviewed` (`WrittenOnce`, `ImportAsReviewed`): a confirmed write is one
  record, an import pushes the rows that were reviewed.
- `SeedComplete` (`SeededOnce`, `VerifiedSeed`), `CleanupSpares`: reruns double
  nothing, what the seed calls verified is there, the cleanup archives no company
  that is not the seed's.
- `UndoRestores`: an undo gives back the status that the page's own last review
  replaced, unless another review came after it; then it takes back that one.
- `ListAsChosen`: a list told verified holds what was chosen, as what it was
  chosen, unless a search put companies beside contacts; it is made once, but for
  the mishaps in `excused`.
- `PageAsAsked` (`DossierAsAsked`, `ShownAsAsked`): the page is the address's, the
  dossier beside it the address's or the user's last choice.
- `ListedOnce`: the library has each document of this browser whose account the
  world knows, once, in whatever order saves and lists are answered.
- `EvidenceTold`: a drawer says what the page listed and agrees with itself; what
  is said of an account rests on developments of that account.
- `TimelineKept` (action): what a timeline has told it still tells, but for what
  its caps push out.

`CHECK_DEADLOCK FALSE` is set where the system may rest (all deliveries answered
and tasks done, no call left to start) or where a bound stops the model.
Symmetry is used in runs without liveness properties, over sets whose elements no
definition distinguishes. (`IntakeIsKeyed` is checked together with symmetry: the
abstract specification has no fairness, and is itself symmetric.)

Each property of a passing run has a mutant in `PROJECT.json`: a definition with a
plausible mistake (a dropped check, an off-by-one, a missing reset) under which
TLC finds that property violated in the same configuration. They stand in the
modules just before the definitions they vary, marked "Mutant".

## 4. Fairness

- **Webhook path** (`Fairness` in `WebhookDelivery`): weak fairness of a handler's
  own steps (a process that has not stopped runs on), of each worker's own steps,
  and of taking each task (Celery workers consume the queue continuously). No
  fairness for `Admit`/`Refuse` (nobody must send), for any fault, or for retention.
  Weak fairness suffices: nothing disables a handler's or worker's next step but
  its own crash, and a waiting task stays waiting until it is taken.
- **Query cache** (`FairSpec`): the backend reads and the browser settles every
  request it was given. A `fetch` ends in a response, an error or an abort;
  nobody is assumed to refresh, mutate, invalidate or wait five minutes.
- **Ask** (`CockpitSpec`): the backend serves each request and the page takes each
  answer (`ServeNext`, `PageNext`): a fetch ends in an answer or an error. Nothing is
  assumed of the user or of faults.
- **Other surfaces**: no liveness is claimed. A monitor run whose API process
  stopped stays `running`, a script may never be started again, and a page waits
  for its user.
- **Work items**: no liveness is claimed. A client may stop at any state.

## 5. What is proved

For every value of the constants: any numbers of deliveries, keys, workers, items,
threads, requests, saves, updates, lists, rows, documents and addresses, any limits.
Except for liveness, each property of the passing runs has a theorem `Spec =>
[]Property`, or `Spec => Property` for action properties and refinements.

The assumptions are those the modules name, and TLC evaluates each in the runs.
Most say what kind of thing a constant is. These are about the code:

| Assumption | What it says | Why the code justifies it |
|---|---|---|
| `ClientAssumption`, `ClientColumnsAssumption` | clients create no approved item, and none whose columns disagree | what the repository's own clients create are detected items, and drafts that await approval |
| `WorkDeskAssumption` | a row on which a session starts awaits an approval only with a pending one | every handler that sets the status sets the approval with it |
| `DecisionFeedAssumption` | signals of a feed differ by their ids; ids, times, weights and thresholds are numbers, decay and cap not below zero; accounts and rules are finitely many, and a rule takes from a dimension | `worldSnapshot.signals` are rows with a primary key; `ScoringWeightsDocument` and `loadScoringRuntime` let nothing else pass, but fractions (scores here are whole, in hundredths) |
| `WorldAssumption` | finitely many firms and stories, contacts of firms, every town with a name | a portal's companies and the monitor's items are lists; the companies here have a city, and what an outage leaves without one has "" |
| `StoreAssumption` (of `AssistantStore`) | the budget and the searches of an answer are numbers; a day begins with conversations without a message of it | they are integers in the settings; older messages do not count for the day |
| `AskAssumption` | the questions of a page are numbered, and the bound on answers is a number | each is sent after the one before |
| `LibraryAssumption` | another user's document is none of this browser's; the cap is a number | an id is generated where the document is made |
| `FilingAssumption` | an audit trail is a list, not empty, its entries in order of time | a handler appends one entry, the creation the first |
| `DraftingAssumption` | a stop count is a number; a quotation from the book is not the model's text | facts come from the world |
| `EvidenceAssumption` | the names of a signal are a list | they are a JSON array |
| `PortalAssumption` | finitely many seeded rows, the contact's account among them, none with the domain of a fake company | the seed's domains are real firms', those of the fakes end in `.example` |
| `ShellAssumption` | an address has its five parts; no document's id is `figures/new` | ids of documents are generated |

Each safety property rests on an inductive invariant, which TLC has checked on an
instance before the proof. What it adds to its property is why the property is
true, so it is worth reading.

**`WebhookDeliveryProofs`**: `TypeCorrect`, `KeysAlwaysMatch`,
`DeadLettersAlwaysBacked`, and `IntakeRefined`, that the receiver implements
`KeyedIntake`. That a purged row is not brought back, or a log row not written for an
absent event, needs `WorkersOwnRows`: past its load, a worker's row is still there,
because retention spares what is in hand. That an insert does not overwrite a
stored event needs `HandlersOwnRows`: a handler that has not persisted has no event.
`IInv` is their conjunction, `Inductive` the theorem. The refinement goes action by
action: each concurrent step is one atomic step or is not seen.

For `AttemptsAlwaysAccounted`, `AInv` adds `Budget` (what has been
accepted, and what waiting copies of the task and busy workers may yet cause, is
at most one more than the faults; the copies are counted by cardinality) and `Story`
(without a fault, the log is the attempts in order up to the row's count).
`ForwarderRefines`: the lifecycle is implemented where workers do not crash and
retention is off, which are the constants of `delivery_live`; with a redelivery it is
not (`DeliveryDeadStops.cfg`), so these hypotheses are needed.

**`WorkItemsProofs`**: `TypeCorrect`; `NoTaskWithoutApproval`; `ColumnsAlwaysAgree`,
`EverythingOnRecord` and the action property `ClosedForGood`. Approval needs
`ApprovalsAreReal`: a row, and a row remembered by a session, is approved only if a
command has approved the item, and a thread between `Execute` and `CreateTask` works
for an approved item; it holds although threads overwrite each other's rows. The
others are one invariant, `RInv`: `SoundSession` says what a thread knows of its row
as long as nobody has written it since (what it will write agrees, names the same
task, has one audit entry more and keeps a closed item closed).

**`QueryCacheProofs`**: `TypeCorrect`, `StatusAlwaysTrue`, `FreshnessHolds`, and the
action properties `AnswersInOrder` and `RequestsShared`. `IInv` adds `Remembered` (what
a call remembers of the entry it started from is implied by what the entry is); the
action properties also need `Ordered`: while no aborted call has settled (`Wiped`), the
only live request is the entry's own, and no response under way is older than the
data shown.

**`SettingsProofs`**: `RunsAlwaysApart`, `RunsAlwaysKeep`, `SavesAlwaysKept`,
`LabelAlwaysTruthful`, and the action property `AppliedAlwaysShown`. The invariant of
the runs follows a thread from its check to its row, a child from its row to its end,
the file that a run reads (`ConfigAhead`), and the archive with the feed: `FilesKept`
says that every important story is in the archive to stay (`Lasting`), in the window, or
pinned while no run of the window has it, which is what the eviction of the oldest run
keeps. The label needs to know that a load, a save and a run under way belong to the
panel with their number, and that a panel waits for one of them at most (`PanelInv`).

**`WorkplaceProofs`**: `TaskAlwaysAsOffered`, `CountersAlwaysLead`, `ScoredAlwaysTold`,
`DraftAlwaysTold`, `WorldAlwaysAgrees`, and the action property `MoreIsNeverLess`. Of the
page of work: every preview that an execution can come from told the truth when it
was made (`PreviewTrue`), and each copy that is counted is a row the routes can
leave. Of the feed: the world is what the page makes of what it received last
(`FInv`). Of drafts: what has passed the gates by each stage (`JobOK`); that a plan
takes its figures from the book is shown agent by agent.

`MoreIsNeverLess` needs only that no snapshot holds a signal twice (`Apart`); the work
is in the functions. Each contribution to a score has a counterpart in the larger
snapshot: the one of its type at its place among the repeats, which weighs the same
(`CounterpartsKept`). Different contributions have different counterparts, so the sum
is no smaller (`SumInjected`). The own view adds what the network passes on, decayed by
rank: in a field that outdoes another, the one at each rank counts no less, which is
shown by counting those ahead of it (`PlaceOutdone`, `NetworkRises`). Alerts and advice
rise with the scores they are computed from (`AdviceRises`).

`WorldAlwaysAgrees` rests on `WorldInv`: the page's snapshot stands for itself (its
records and sources are those one payload has), and the database is fit for the
next page (`TableOK`, and `KnownOK` for what was read of an account, which an outage
must keep). Its figures are counts and sums that different pages take over sets they
select by different conditions; the proof shows that the sets are the same.

**`AskProofs`**: `BudgetAlwaysKept` and `ThreadAlwaysTold`, from `AskInv`. `Budgeted`
keeps the property with what a handler knows: who has read the budget, and was not
overtaken since, still holds what is left (`Spent`). `Asking` says that a question is at
one place at a time: on its way, with its handler, or in a transcript, unless its stream
was dropped. `Following` says that the page is forewarned (it shows an error, or waits
for something after which it loads anew), or else the last answer under way, or the page
itself, has what is on record, unless `behind` knows that it missed one. `NetTyped`
keeps requests and answers well typed.

**`SumProofs`**: what the provers lack about sums over finite sets and about places in
an order. The library's induction theorems are beyond them (they take an operator),
but its theorem that the order of the numbers is well founded is not: so among the
subsets of a finite set that refute a fact there is a smallest one (`SmallestSubset`),
and taking an element from it gives the contradiction. In this way the recursive
definition is shown to have a solution (`SumRecursion`) that no order changes
(`SumWithout`), and each place of an order to be taken, by one element (`PlacesTaken`).

**`CockpitProofs`**: a theorem for each of the other surfaces.

| Theorem | What its invariant adds |
|---|---|
| `UndoAlwaysRestores` | as long as a review is the last of its update, what it replaced is what a restore gives back; one call is heard at a time |
| `ListsAlwaysAsChosen` | each list is the remembered one of its key, and whoever asks for one has a key without, or the key is excused (`MadeOnce`) |
| `EvidenceAlwaysTold` | what a package tells by itself; the relationships of the world that was seen |
| `EditsAlwaysSafe`, `CopiesAlwaysAgree` | records and posts under way are at most one and the `extra` ones (`Counted`); where the last words are (`Edits`); unless saves crossed there is one, and the record holds what it served (`Agree`) |
| `WritesAlwaysReviewed` | the records there are, the requests that may yet make one and the requests the page no longer knows are explained, one beside them while the panel is locked (`FormsOK`) |
| `SeedAlwaysComplete`, `CleanupAlwaysSpares` | the seeded company of a row comes before every other the row could find (`MadeFirst`); wherever a seed stands, what it found is still there, and is one for each row once it counts, unless somebody meddled (`SeedOK`) |
| `PageAlwaysAsAsked` | every link of the history leads where it was meant to, by what the router makes of each path (`LinkOK`); the store has no account once the dossier is closed (`DossierOK`); the document's page takes the answer of its own address only (`ReaderOK`) |
| `DocumentsAlwaysListedOnce` | a copy or a post that names a record names one of its document (`Numbered`); a document none of whose saves was lost has one post and one record at most, and once no post is under way its copy names that record (`Traced`) |
| `TimelineAlwaysKept` (action) | the trail a page has seen of an item is a beginning of the trail that is filed (`TrailInv`); that the cut to the newest events drops none for an older one is shown by their places in the order of time |

**Composition.** `WorkplaceSettings`, `WorkplaceSurfaces` and `CockpitSurfaces`: a session
of all surfaces implements the specification of each surface, since what one
surface's step leaves alone the others still have (of Ask it implements the steps,
`AskSteps`; fairness says nothing to a safety property). So each theorem above holds
of the composed specification that TLC runs: `WorkplaceSettingsHold`, `WorkplaceHolds`
and `CockpitHolds` for the invariants, `WorkplaceSteps` and `CockpitTimelines` for the
action properties.

Some definitions have the form the provers can reason about, with the meaning the
code gives them: choices by sets of indices instead of folds (`PrimaryAction`, the
timeline's order), an upsert of a whole batch (`Upsert`), a patch of the store field
by field (`SetState`). A fold over one element at most is unfolded by a lemma
(`PinNone`, `PinOne`). Sums are `SumFunctionOnSet`, and `Power` is a recursive function,
which the provers unfold one step at a time. A chain of conditions is IF and ELSE
wherever they overlap (`NextBestAction`, `AlertLevel`, `Compared`): the code takes the
first that holds, and a CASE with two guards that hold chooses either.

Only model-checked, and why: `AcknowledgedSettles`, `LoadingEnds` and `AskSettles` are
liveness under fairness, which is out of the prover's reach, as is ENABLED. Every
invariant, action property and refinement of the passing runs is proved.

No module declares a RECURSIVE operator.

Every leaf has been proved with half of each prover's time while all modules were
being proved at once, and with three tenths of it by itself, so that a slower machine
proves it too. The few leaves that took longer name their prover and allow it more
(`ZenonT(60)`, `SMTT(40)`).

## 6. What disagrees with the documents, and what a reader should know

Each of the following is a run that must find its one property violated, and an
entry under `findings` in `PROJECT.json` with the lines and quotations.

| Run | Statement | What happens |
|---|---|---|
| `DeliveryNoLoss.cfg` | "No loss" (`docs/PLATFORM_BLUEPRINT.md`) | a handler that stops, or whose broker is unreachable, after the commit leaves an event in no queue, and the source's retry is answered as its duplicate |
| `DeliveryDeadStops.cfg` | a dead-lettered job "stops retrying" (same) | a redelivered task calls the destination again |
| `WorkItemsRetry.cfg` | "Retries with the same key return the verified task without creating a duplicate" (preview text in `api.py`) | a task created and not verified is created again |
| `WorkItemsDedupe.cfg` | one active item per `dedupe_key` (`docs/WORK_ITEMS_API.md`) | overlapping creations both insert |
| `WorkItemsAudit.cfg` | audit events are append-only (same) | overlapping commands overwrite each other's entry |
| `QueryCacheDedupe.cfg` | identical requests are deduplicated (`docs/ROUTING_AND_STATE.md`) | an aborted call clears the promise of the call that replaced it |

The following came up while modelling. The models have it as the code does; no
run is spent on it.

**Work.** The body that an execution sends (`workItems.ts:512`) is not the one
previewed, which `docs/WORK_ITEMS_API.md:95` calls exact. A patch after approval
keeps the approval. Save writes the whole draft over others' edits. The server takes
a dismissal of approved work from anyone who writes, though it offers it to admins
only. Counters count items due earlier today, and their link lists by date; the card
"Accounts needing attention" links to a view the queue does not know; the sort
parameter is never applied. The review item of a relationship is looked up with
`one_or_none`: a second active item with its key makes every later review fail.

**World snapshot and its pages.** A live account with any deal is a customer, so a
listed prospect never has revenue, is never "qualified" and always has the gap "no
pipeline"; live scores are zero, so "Recommended next actions" is empty. In an outage
an account that HubSpot has deleted reappears (and also when HubSpot answers with no
company at all), suppliers and competitors come back as targets, and choosing a
market empties the page. A poll that stops between its two commits leaves accounts
without a name, which an outage shows. Metric "signals" is available with 0 when the
monitor's output is missing. The open pipeline of the production view sums won and
lost deals. A stale or failed source is "Available" there. A run without `run_at` is
available in the snapshot and invalid in `/health`; one without a time zone makes the
snapshot fail. `/health` calls HubSpot healthy when a token is set. The analysis page
says that no approved dataset is connected beside a badge that counts open deals.
`useOperatingSnapshot` fetches once and is never refreshed. The briefing's horizon
lies in the future, so signals detected earlier never appear in it.

**Decision engine.** Every backend signal that carries a relationship is rejected by
the browser's validation, which requires a text of evidence (`validate.ts:59`) that
`intelligence.py` does not send, while the account page still counts them; so live
scores stay 0. (Contradicts `docs/CANONICAL_IDENTITY_AND_SCORING.md:18`.)
`qualitativeSignalConfidence` looks for "accepted", which is never emitted. A scoring
document may have weights and factors below zero (`schemas.py:227-249` bounds only
the confidence and the decay), and with them a signal more may lower a score or an
advice.

**Evidence and timelines.** `actionCategory` and the exemptions of the dedupe
(`timeline.ts:122`) name events the backend never writes (`api.py:438`): approvals
and verifications are told as "work", and the second approval of one minute is
dropped. Relationships are unique per name: a second name of the same account may
open a listed development as "More evidence needed", and a manual confirmation is
reset by the next snapshot. The drawer holds a copy and stays open over another
account's page. Escape in the briefing runs two handlers; arrows turn its sections
under an open drawer.

**Deliverables.** `money(Number(null))` tells "$0k" for a missing pipeline. An amount
off a round thousand makes the template fail its own gate. A draft of the model that a
later gate rejects throws instead of falling back; an empty list of sections is
labelled as composed by the model; one failed call marks the AI offline for the
session. Each local save starts the editor over (version history and suggestions are
gone); what is typed during a save is lost at its answer; closing while busy saves
nothing although the user said yes; Escape leaves without asking; the answer to a
first save navigates back; closing the wizard during a save and saving again makes a
second record. The 41st save evicts the oldest local draft silently; a lost answer to
a POST leaves a document listed twice; the backend's version hides a newer local one.

**Ask.** A load that was started on the bare `/ask` navigates back over a later
choice; late loads, renames and generated titles overwrite the conversation shown; a
generated title can replace a chosen one; a dropped stream commits the same question
twice.

**Frame.** With `?account=` in the address the dossier cannot be closed by its
button, Escape or a click (contradicts `docs/MANUAL_QA.md:11`); leaving the page
by the rail keeps it. A double click on Confirm makes two items. The 800 ms timer of
one notice closes whatever notice is open and goes to `/work`. Trip planning is not
reachable by its route.

**CRM.** A refresh of the world closes the write panel, wipes its form and replaces
its lock; the `finally` of a late answer opens the current lock; the idempotency
memory is per process, checked at the start and set at the end; a failed import is
remembered under its key, so its retry fails until the API restarts; the import of a
list sends no key at all. Looking up companies and adding them changes the type of a
list without clearing selected contacts; `get_list_memberships` reads one page, so a
long list fails its verification.

**Updates.** An undo is itself a review, so a repeated undo toggles; it takes back
the latest review of anyone. A load in flight overwrites a status just saved.
"Promote for manual review" only removes the item from the page. The late answer of a
new work item navigates a user who has left.

**Settings.** Suggested sources typed as free text are not saved in a live build;
Reset workspace leaves the `btx.settings.*` drafts; saved weights reach the scoring only
when the editor is opened; after a failed load the panel keeps the local default, and
Save then overwrites the backend's version with it.

**Portal.** Where domains are not unique the fallback upsert duplicates a company
that somebody entered by hand; a company HubSpot makes for the contact's domain can
make verification fail until it is cleaned up.

## 7. Not modelled, and the plan

Not modelled because it has no state a checker could vary or is I/O: rendering and
layout, wording of texts and documents, prompts, parsing of feeds, exports (`export.ts`,
`pptx.ts`), the monitor's collectors and the scoring by its model, migrations,
encryption, tests and one-shot scripts (`generate-demo.ts`, `tools/test-*.ts`).
Model values stand for what they produce. The registry of CRM integrations has ports
and stubs without state.

Not modelled because nothing in the application reaches it: `AskBrainBar`,
`BrainResponseWorkspace`, `SignalFeed`, `RightContextPanel`, `OpportunityCards`,
`TourHud` with the brain engine and router behind them; `TripPlanner` and the
`trip_brief` agent; `deriveWorkItems`, `loadWorkItems`; `artifactSignals.ts`,
`newsIngest.ts`, `DemoDataAdapter.ts`, which only tools and tests use.

Partly modelled: the retention job's trimming of audits (its pass over work items
races like the handlers that `AuditAppendOnly` shows); `score_account`'s formulae; the
matching of names to accounts; review scopes other than an account; HubSpot's paging
and 429 retries; the pages' own layout decisions.

What could come next, most important first:

1. **Relationship review**: candidates of several scopes, over `WorkItems`' threads
   instead of one-step handlers.
2. **RateLimiter** and the client's 429 retries: windows and clocks.
3. The monitor's scorer and grouping, against a reference definition.
