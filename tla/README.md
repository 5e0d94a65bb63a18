# A TLA+ development of the audit platform

This directory holds TLA+ specifications of the services of this repository,
the TLC configurations that check them on small instances, and proofs that
TLAPS checks for every instance.  The specifications are translated from the
source; where a document or a comment says something else, the specification
follows the code and a run shows the difference.

## 1. The system

The platform is a set of Go services behind a gateway, a Python engine that
reasons about audits, an SDK for writing connectors, and a web frontend.  The
services do not call each other in the code of this repository; they share
PostgreSQL, Redis and conventions (a JWT, headers with the organisation and the
role).  What is hard in them is therefore inside each service: handlers that run
concurrently over one store, background loops beside handlers, circuit breakers
shared by goroutines, and calls to databases and other products that fail
half-way.

| Component | State it keeps | Operations | What is hard | Correct when |
|---|---|---|---|---|
| **Approval** `services/approval` | workflows in a map: status, history, who decided | create, submit, approve, reject, lock, return to draft | a handler works on a copy between `Get` and `Update`; no version is compared | a record is one legal run of the state machine; what is locked was signed off; an answered transition stays in the history |
| **Engagement** `services/engagement` | engagements with a phase, dates and a phase history | create, patch, transition | shallow copies share the array behind the history | phase, history and dates tell one legal run |
| **Planning** `services/planning` | strategic and annual plans; assurance maps; resource calendars | create, patch, approve, activate, archive | check of the year at creation only; stale writes | approvals and versions were answered; one live plan per year |
| **Audit trail** `services/audit-trail` | `audit_events`, a hash chain per organisation | append, verify, query, export | head of the chain read in one statement and extended in another; rows commit out of order | links are sound; the chain is not forked |
| **Webhooks** `services/webhooks` | subscriptions and deliveries in PostgreSQL | subscribe, dispatch, attempt, retry, list | a goroutine per attempt, a poller that claims nothing, crashes between POST and UPDATE | nothing is given up early; everything that is not starved settles, and for good once nothing is outstanding |
| **Webhook (singular)** `services/webhook` | endpoints and deliveries | register, enqueue, polling worker | locks that end with the query; counts read before the POST | a second copy has a reason; nothing is given up early or unsent |
| **Search** `services/search` | OpenSearch documents, one per row | bulk reindex, CDC listener, search, facets | rows that change between the bulk query and LISTEN, lost connections, errors | documents follow rows |
| **Integration** `services/integration` | last sync result per connector; a circuit breaker each | scheduled and forced sync, evidence, SIEM, GRC, vulnerability connectors | loop and handlers share a breaker and a result slice; one answer takes several calls of a system that changes meanwhile; an export stops half-way | what a filter loses is known; the circuit agrees with its counter; service returns after an outage; an answer is whole, or why not is known |
| **Connector SDK** `sdk/connector` | circuit breaker, token bucket, token cache, registry | Allow/Record/Do, Acquire, retry, AddAuth | late results; probes that panic; syncs that share a bucket, a breaker and a token | counter and state agree; a probe slot has an owner; an open circuit is left; a sync comes to an end, for a reason |
| **Identity** `services/identity` | users, roles in PostgreSQL; refresh tokens in Redis | register, login, refresh, logout | refresh reads, revokes and stores in three calls, and drops errors | one live refresh token per login, unless a revocation failed or two refreshes overlapped; enough logouts are final |
| **Control framework** `services/control-framework` | frameworks, controls, assessments | list, assess | check and update of an assessment are two statements; listings are paged by offset | assessments skip no state; a client that pages sees every control |
| **Evidence** `services/evidence` | evidence, classifications, scores in maps | ingest, classify, score, sufficiency | three saves per ingest; shared pointers | sufficiency rests on scored evidence; no earlier item goes uncounted |
| **Gateway** `services/gateway`, **shared cache** `shared/cache` | sliding windows in Redis; sessions; compiled scopes | rate limit, verify, proxy | requests reach the window out of order; refused ones counted | never more than the limit in a window; who waits is let in |
| **Reporting** `services/reporting` | none | PDF, Excel, ZIP | none | formatting |
| **Engine** `engine` | scope graph, modification requests, versions; budgets, work programs, allocations; hash chain | compile a scope, review requests, plan and record hours, allocate, run the pipeline | one thread; nodes and snapshots handed out by reference, edges kept twice; two sorts and greedy choices that must not skip what fits | a locked scope changes only through a reference; the order of the graph exists; a request is reviewed once; versions share nothing and replay; what fits is taken |
| **Frontend, demo, infra, scripts** | browser stores | presentation | none here | |

Interactions that the specifications follow: database triggers notify the
search service (`db/migrations/004`); the IAM scheduler and the forced sync
endpoint go through one breaker; the webhook dispatcher starts attempts that
later race with the poller's; every handler of approval, engagement and planning
goes through a store whose lock covers one call.

`PROJECT.json` lists every component with its files, and every hazard at its
line with the properties that would catch it.

## 2. The modules

| Module | Models | State and how it corresponds | Atomic steps |
|---|---|---|---|
| `ApprovalWorkflow` | what the approval service promises | gate, status, trail of each workflow | one edge of the graph |
| `Approval` | `services/approval` | `store` is the map; `req[r]` is the deep copy a handler holds; `answered` counts the 200s (a ghost) | `Get`; decode, transition and `Update` |
| `Engagement` | `services/engagement` | `engagements` is the map; `spare[k]` is the fourth slot of the k-th array that `append` allocated; `serving[r]` holds a shallow copy | `Get`; the transition on the copy, which may write a shared array; `Update` |
| `Planning` | plans of `services/planning` | `store`, `req`, and the ghosts `patched`, `approved`, `archived` of what was answered | as in `Approval` |
| `AuditTrail` | `services/audit-trail` | `table` are the rows by id, visible once committed; `appender[a]` is a request between its statements | read the head; insert; commit |
| `SdkBreaker` | `sdk/connector/circuit` | the fields of `CircuitBreaker`, `waited` for the clock, `call[c]` for goroutines between Allow and Record | what the mutex covers |
| `ConnectorSync` | a connector of the SDK at work: `Sync` of `examples/rest`, `retry.Do`, the token bucket, the OAuth2 token | extends `SdkBreaker`, whose goroutines its syncs are; `sync[c]` is the goroutine's page, attempt and context, `tokens` the bucket, `bearer` the cached token and its mutex | a critical section, or one request |
| `IntegrationBreaker` | the breaker of the SIEM and IAM connectors | the same without a probe slot | the same |
| `IamSync` | one IAM connector: scheduler, forced syncs, evidence endpoint | instantiates `IntegrationBreaker`; `outcome` is what a sync returned and has not stored; `result` is `results[name]`; `reply` the last answer; `filtered` the types asked for since a result was stored (a ghost) | enter, answer, store, serve |
| `Webhooks` | `services/webhooks` | `rows` are the deliveries, `attempt[s]` a goroutine with its copy of the count, `batch` the copies the poller has read and not started yet, `posts` a ghost | one SQL statement or one POST |
| `SearchSync` | `services/search`, with the triggers as environment | `row`, `index`, the listener's `queue`, the event in `hand`; `missed` is a ghost: ids with a change nobody was told of in full | one query, one write, one notification |
| `IamSnapshot` | the Okta and Entra ID adapters and the evidence of a snapshot | `directory` is the provider's; `fetch` the sync under way, what its calls returned and the items made of it | one remote call |
| `SecurityHub` | the Security Hub adapter and the ASFF normalizer | `hub` are the findings in AWS, `hubRead` the last call with its page and answer | one call; the provider moves between calls |
| `VulnConnectors` | Qualys, Tenable, CrowdStrike and the three routes on them | `scanner` is the remote system, `vreq` the request under way | one remote call: one or three per list; the scanner may report an id twice, and a finding without a host |
| `ServiceNowExport` | the export of findings to ServiceNow | `tables` are ServiceNow's, `export[e]` a request and the record it creates next; `broken` is a ghost | one POST |
| `Sessions` | sign-in, refresh and logout of `services/identity` | `live` are the keys in Redis, `users` the rows, `handler[h]` a request between its calls; `extra` counts the failed revocations and second readers of a sign-in, `logouts` those of a token that worked and was not being refreshed; they and `ended` are ghosts | one call of Redis or PostgreSQL |
| `ControlFramework` | controls and assessments of `services/control-framework` | `controls` and `assessment` are rows, `walk` a client that pages through a listing, `assessor[a]` a call between its two statements | one statement |
| `Evidence` | `services/evidence` | the three maps `evidence`, `tiers`, `scores`; `ingest[h]` a POST between its saves; `reader` the sufficiency handler between its reads | one call of the repository |
| `PlanningRecords` | assurance maps and calendars of `services/planning` | `record[k]`, `patch[r]` a PATCH with its copy; `answered` and `overlapped` are ghosts | `Get`; `Update` |
| `DeliveryWorker` | `services/webhook`, the singular one | `rows` is the queue, `worker[w]` a loop with the batch it read, `posts` a ghost of what the endpoints saw | one statement or one POST |
| `RateWindow` | the limiters of `services/gateway` and `shared/cache` | `entries[a]` counts the members of the sorted set of age `a`, `request[c]` a request and the age of its stamp | the gateway's script; one command of the cache's pipeline |
| `Scope` | the scope graph of `engine/scope/dag.py` | `node` is `_nodes`, `children` is `_children`, `state` is `_state` | one method; one that raises is no step |
| `ScopeHistory` | versions, diffs, impact, enforcement and validation of a scope | extends `Scope` with `versions`; assignments to any field of a node through the reference `get_node` hands out, and to snapshots through those `record_version` and `get_version` hand out, are steps; `lockedAs`, `touched`, `rewired` (nodes whose parents were assigned so) are ghosts | one method |
| `ScopeReview` | modification requests and their audit trail | `requests`, `trail` | one method |
| `WorkProgram` | `engine/economy/work_program.py` | no state of its own: operators over `Scope` | |
| `BudgetTracker` | `budget_tracker.py` and the progress of a program | `entries`, `progress` | one method |
| `Allocation` | `resource_allocation.py` | any items and auditors, `result` once computed | one call |
| `Verdict` | the reasoning pipeline from sample size to conclusion, with the floor and the gate (`engine/orchestrator`, `engine/risk/scorer.py`, `engine/quality`) | `passing` and `failing` count the items of a control by kind, `verdict` is what the latest run returned | an item is submitted and the pipeline runs |
| `Filters` | the loops that append under a test, for the connectors, and sorts with a key, for the engine | a test is the set of positions that pass it, a key a strict order | |
| `SumTheorems` | nothing of the code | facts about sums over a finite set and about `Filters`, for the proofs | |
| `ApprovalProofs`, `RecordsProofs`, `StoresProofs`, `SubscribersProofs`, `SdkProofs`, `IntegrationProofs`, `EngineProofs` | | theorems of the modules they extend (section 4) | |
| `MC*` | | values of the constants for TLC; `MCRecords`, `MCStores`, `MCSdk`, `MCIntegration`, `MCSubscribers` and `MCEngine` put components side by side | |

`ConnectorSync` composes `SdkBreaker` with the other parts of a connector,
`IamSync` composes `IntegrationBreaker`, `ScopeHistory` and `WorkProgram` extend
`Scope`, and `Approval` instantiates `ApprovalWorkflow` under a refinement mapping.  The operators whose comment
starts with "Mutant:" are plausible mistakes in the code; they stand just before
the definition they replace, and the specifications never use them.  Each
property is paired in `PROJECT.json` with mutants that violate it, one for each of
its conjuncts that a mistake in the code could break.

Common abstractions: ids, names, payloads, times and comments are left out
unless a property tells them apart; a request that is answered with an error
before it reads the store is no step; a collection of the code whose elements do
not affect each other is represented by one or two elements.

## 3. The runs

A run whose expectation is "violation" checks one sentence that a comment or a
schema of the repository says and that the code does not keep.

A run of several components has a variable `part`, chosen initially and never
changed: it says which component a behaviour is of.  The components of a run
share no state in the code either, so a run explores each of them as it would
alone, with every property of all of them; what another part chooses initially
is pinned.

| Run | Question | Instance | Answer |
|---|---|---|---|
| `approval_races` | What survives two requests that race on one workflow? | 1 workflow, 2 requests, histories up to 5 entries | stored records are coherent runs, locked ones were signed off, no entry is invented |
| `approval_serial` | And when requests are served one at a time? | 2 workflows, 2 organisations, 1 request, histories up to 4 | every answered transition is kept, and the service implements `ApprovalWorkflow` |
| `records` | What survives two requests that race on stored records? | plans: 1 strategic, 2 annual of one year, 2 patches each; 1 engagement with 3 four-slot arrays; 1 map and 1 calendar of 2 units, 2 domains, 2 auditors; 3 items of evidence of 2 controls | plans and engagements hold what somebody answered; a year is shared only after a revival; changes of a map or calendar are lost only to an overlapping PATCH; "sufficient" is backed by scored evidence, and corroboration misses no earlier item |
| `engagement_history` | Does the stored history end at the stored phase? | 1 engagement, 2 requests, 1 array | no: a completion and a cancellation share an array |
| `stores` | What do requests and workers that race for rows leave? | 2 organisations, 2 appends, 3 rows; 1 user, 2 requests, 3 tokens; 3 controls with 2 numbers, 2 assessors; 2 deliveries, 2 workers, 2 retries | links are sound; second tokens, skipped states of an assessment and second copies all have one of the reasons the code leaves; a sign-in ends once its logouts outnumber those reasons; no delivery is given up early |
| `audit_fork` | Is the chain linear? | 1 organisation, 2 appends, 2 rows | no: both appends read the same head |
| `delivery_unsent` | Does the worker send what it gives up? | 1 delivery, 1 worker, 3 retries, the store `main` uses | no: it looks the endpoint up under no organisation and never finds it |
| `sdk` | Is anybody stuck at a breaker, a bucket or a token, and what do the windows admit? | 3 callers, threshold 2, 2 ticks; 3 runs of 2 syncs over 2 records in pages of 1 or 2, 2 attempts, a bucket of 1; 2 clients, a window of 2 ticks with 2 requests, stamps 1 tick late | the circuit is left and its slot freed, unless a probe panics; a sync ends, for a reason; a window admits its limit, the patient and, at the gateway, always somebody |
| `integration` | Does a sync recover after an outage, and are the adapters' answers whole? | loop, 2 forced syncs, threshold 2; directories of 3 accounts with pages of 2; 2 findings of 5 shapes; a scanner of 3 hosts and 3 reports, two of one id and one without a host; 2 exports and 3 records | yes, and what an answer lacks or repeats is explained by a page, the scanner, a change or a failed call in between; a filtered read costs later ones items of other types only |
| `subscribers` | Does everything passed on settle? | 1 delivery, 3 attempts at once, 2 crashes or failed statements; 2 deliveries of 2 subscriptions, a batch of 1; 1 row in each of 2 tables, 2 versions, 2 losses | a delivery settles, and then stays, unless its subscription is inactive or older rows of inactive ones fill the batch; every stale document is explained and the index converges |
| `work_program` | Does a work program list parents before their children? | 3 nodes, 3 weights, a budget of 8 hours | no: a riskier child precedes its parent |
| `engine` | Do a scope's versions, requests, programs, budgets, allocations and verdicts agree with each other? | 2 nodes, 2 controls, 2 weights, 1 version, 1 edit through a reference; 2 requests of 2 people for 2 engagements; 2 items; 3 items for 2 auditors; 12 items of 2 kinds of evidence, 2 of them failing, for a population unknown, of 3 or of 20 | yes, but for what was changed through references; the gate blocks an effective control only for the number of its items |

Properties of one component that answer one question are conjuncts of one
property of a run; each conjunct has a name and a comment of its own.

| Run | Property | Conjuncts |
|---|---|---|
| `records` | `StoredIsOneRun` (`Engagement`) | `StoredWasWalked`, `DatesMatchRun` and the types |
| | `RecordsAreKept` (`PlanningRecords`) | `ChangesAreKept`, `MatrixIsWhole`, `FullMeansBooked` |
| | `EvidenceIsWeighed` (`Evidence`) | `CorroborationSeesEarlier`, `BestTierIsStored`, and of a step `SufficientIsBacked` |
| `stores` | `ControlsAreKept` (`ControlFramework`) | `WalkMissesNothing`, and of a step `StatusFollowsMachine` |
| | `TokensFollowSignIns` (`Sessions`) | `OneTokenPerSignIn`, `AnsweredTokenWorks` and the types |
| | `EndedIsFinal` (`Sessions`) | `LogoutIsFinal`, and of a step `DeactivatedDieOut` |
| | `DeliveriesAreExplained` (`DeliveryWorker`) | `SecondCopyIsExplained`, `GivenUpAfterAllAttempts`, and of a step `DeliveredIsKept` |
| `sdk` | `CallersAreNotStuck` (`MCSdk`) | `CircuitIsNeverStuck`, that is `OpenIsLeft` and `SlotIsFreed`, where callers keep asking |
| | `SyncsComeToAnEnd` (`ConnectorSync`) | `NoNeedlessFetch`, `SyncsEnd`, and of a step `EndIsExplained`, `EvenPagesKeepLimit` |
| | `LimitersServe` (`RateWindow`) | `AdmittedWithinLimit`, `PatientIsAdmitted`, `GatewayKeepsServing` |
| `integration` | `FilteringIsBounded` (`IamSync`) | `FiltersSpareTheirType` and the types |
| | `SnapshotIsExplained` (`IamSnapshot`) | `UnknownActorIsExplained`, `ActiveUsersAreNotFlattered`, `SnapshotIdsDiffer` |
| | `ReadingsAgree` (`SecurityHub`) | `FullMarksMeanClean`, `ScoreAgreesWithSummaries`, `FixingNeverHurts`, `PoorEvidenceSaysWhy` |
| | `ScanIsExplained` (`VulnConnectors`) | `UnknownHostIsExplained`, `CalmAnswerIsWhole`, `RepeatedIdIsReported`, `ScoresRateAlike` |
| | `ExportIsExplained` (`ServiceNowExport`) | `LiveAnswersLikeMock`, `TasksPointAtTheirItem`, `MissingRiskIsExplained` |
| `subscribers` | `SettlesForGood` (`Webhooks`) | `Settles`, and of a step `SettledIsFinal` |
| `engine` | `GraphIsKept` (`ScopeHistory`) | `EdgesAgreeExcept(rewired)`, `Acyclic`, `LockedOnlyThroughReferences` |
| | `VersionsTellHistory` (`ScopeHistory`) | `DiffReplays`, `ImpactIsReported`, `ValidScopeHasNoGap`, the types, and of a step `VersionsAreCopies` |
| | `TotalsFollowItems` (`BudgetTracker`) | `OverrunHasItem`, `OverallWithinItems`, `FullProgressIsComplete` and the types |
| | `VerdictIsSound` (`Verdict`) | `SampleFitsPopulation`, `GateAgrees`, and of a step `SupportNeverWorsens`, `FailureHelpsOnlyTheSample` |
| | `AllocationIsGreedy` (`Allocation`) | `AllocationIsMaximal`, `AllocationIsFair` |

The other properties of a run are listed in its `.cfg`.  Type invariants that are
proved (section 4) are not repeated by a run.

Why the bounds are enough.  Races need two actors, so two requests, appends or
attempts; a third caller lets a stale result of the breaker arrive while a probe
is out.  Five history entries reach submission, rejection, resubmission,
approval and lock in one record.  Engagements need four events to reach the
shared slot and three arrays to have two copies diverge and be overwritten.
Two annual plans of one year are the least that can collide.  Three rows
let one append extend an out-of-order pair.  A threshold of two or three reaches
counts below, at and above it; the counter saturates above (`MaxFails`), where
nothing tells counts apart.  Two ticks give an open circuit a state that is
neither fresh nor due.  Webhook rows share nothing but the poller's batch, so
one row, with three attempts and a copy held by the poller, reaches every overlap
of its attempts, and dead-lettering with and without losses; its count of POSTs
saturates at `MaxAttempts`.  Two rows in a batch of one, the older of a subscription
that comes and goes, are the least with which one keeps the other out of it.  Three nodes and three weights let a
control, its parent and a rival for the budget differ in risk; two already show
the reordering.  Two losses let the
search service lose its connection and stop, in either order.  Three tokens are
a sign-in, its refresh and a second refresh of either, by two requests at a time
while the user signs out, or by one while the user signs in again.  Three controls on pages of one let a control be
created before, at and behind the place the client has reached, and two numbers
let two of them tie.  Two deliveries in a batch of two leave
a copy that is old when its turn comes; two workers overlap on it, and two
retries (three attempts) end it.  Two syncs let one wait for what the other holds,
and the third finds the circuit that two failures opened; pages of one and two
end at, beyond and without a limit of one.  In the sliding windows ages beyond the window
and the longest delay are one age, and counts stop one above the limit, where
nothing tells them apart; a delay of one tick lets one stamp overtake another.
Three items of evidence let two of one control meet an item of another; the
batches hold items that are refused, tied between tiers, too old, and of both
qualities.  Remote systems of two or three entries and pages of one or two give
a full page and one cut off, and two to five changes let an entry leave and
another come between any two calls.  Two findings of five shapes give every pair
of statuses a control can have.  Three items with two risks and two durations,
and capacities of none, one and two items, let the greedy allocation skip an
auditor and an item.  Twelve items, ten of them passing, are the least with which
one deviation is tolerable and makes up a sample; two failing ones exceed any
tolerable rate.  A population of three asks for a sample that two items of the first
tier make up, which the floor refuses.  One assignment through a reference dangles,
reverses or drops an edge, before or after the lock; the theorems have any number.

`Requests`, appenders, organisations, endpoints and annual plans are symmetric
where nothing but sets and functions of them are used; the runs with liveness
properties use no symmetry.

Deadlock is checked wherever the code always has a step: approval, engagements,
the audit trail, the breakers, the sliding windows, IAM sync and webhooks.  In
the others something the model bounds runs out (tokens, deliveries, items,
changes of a remote system, versions of a row, states of a scope), so a
behaviour may end: their parts may stay where they are, and `engine`,
`work_program` and `delivery_unsent` do not check it.

### Fairness

* SDK breaker: time passes, operations return (clients of connectors have
  timeouts) and callers keep asking.  `Panic` is never required and never
  excluded; the liveness properties name it as their only excuse.
* Connector: requests return (30 s timeout), timers fire and the bucket fills at
  its rate, which `New` requires to be positive.  Callers need neither start nor
  cancel a sync, and the consumer reads the channel.  The OAuth2 token may expire
  at any time.
* Sliding windows: clients keep asking, the gateway's script answers and time
  passes.  Redis need neither fail nor recover, and nothing is assumed of the
  cache's pipeline.
* IAM sync: the ticker fires, syncs return (60 s for the loop, 30 s for a
  request) and time passes.  Clients that hang up are not fair: `Recovers`
  assumes that they do so finitely often once the provider is back, because each
  one counts as a failure of the provider.
* Webhooks: POSTs have a 10 s deadline, goroutines run, the poller's ticker
  fires and backoffs elapse.  The steps of a batch
  are strongly fair because a free attempt slot is a bound of the model (the code
  starts a goroutine at will) and because `is_active` may change between starting
  a row's attempt and skipping it.  A row that an older one of an inactive
  subscription keeps out of the batch is named as an excuse (`Starved`), since the
  code does let it wait.
* Search: one goroutine does all the work, so its steps are weakly fair as
  a whole.  Changes of rows, errors and losses are not fair.

Each of these holds of the behaviours of its own part only.  The polling worker
of the singular webhook service has no liveness property: in production nothing
it does makes a delivery arrive.

## 4. What is proved

`tlapm` checks the proofs with its SMT, Zenon and PTL backends; nothing is
assumed beyond the `ASSUME`s of the modules (bounds are natural numbers,
thresholds are positive, sets of identifiers are disjoint where the code's are).
The theorems hold for any sets of requests, workflows, callers and organisations.

Each paragraph below names a module with proofs, its theorems, and what had to be
added to the property to make it inductive.

**`ApprovalProofs`** (`Approval`): `TypeCorrect`, `StoreCoherent`,
`NoInventedEntries`, `LockedSignedOff`, and for a service with one request at a
time `SerialKeepsHistory` and `SerialRefinement`.  `Update` writes a copy, so what
is claimed of stored records must hold of copies too: coherence, the decision on
record, and a length bounded by what was answered.  With one request, a copy
equals the stored record, so each save extends it: the trail is kept and a save
maps to one edge of `ApprovalWorkflow`, every other step to a stutter.

**`RecordsProofs`**

* `Planning`: `TypeCorrect`, `ApprovalsWereAnswered`, `VersionsCountAnswers`,
  `YearsAreSharedByRevival`.  As above for copies; for the year, a copy that is not
  archived must belong to a plan that is either stored unarchived or was archived
  by an answered request, since that is the only way a save can bring a plan back
  beside its successor.
* `PlanningRecords`: `SpecRecordsAreKept`.  Until another PATCH of the record is
  answered, the copy a PATCH holds is the stored record (`CopiesAreCurrent`), so it
  can only lose a change it overlapped with; a record is created before it is
  patched (`CreatedFirst`).
* `Engagement`: `SpecStoredIsOneRun`, by types, walk and dates of stored engagements
  and of copies.  What is shared between copies is only the fourth event of an
  array, and a stored run has at most three before it.
* `Evidence`: `SpecEvidenceIsWeighed`.  An item is stored before it is counted in a
  score, so two ingests at once may each miss the other's item or count it.  The
  invariant `SomeSawTheRest` says that of any evidence of a control one item is
  still to be counted or has counted all the rest; `HeldUntilScored`, `CountsFit`,
  `TiersFit` and `ReaderFits` tie the three maps and the requests to each other.
  The loop of the classifier is proved by its invariant `BestOf` over the scores as
  float64 computes them, of which the exact sum gives all digits but the last
  (`Rounding`); sufficiency by comparing the sum of the scores with the threshold
  item by item.

**`StoresProofs`**

* `AuditTrail`: `AuditTrailTypeCorrect`, `LinksAreSound`.  The invariant also says
  of an append between its statements that the hash it read is the genesis or that
  of a committed row of its organisation, that its own hash is computed from it, and
  that a row being inserted is not visible yet.
* `Sessions`: `SpecTokensFollowSignIns`, `SpecEndedIsFinal`.  To count the working
  tokens of a sign-in is not inductive, since a refresh between its calls holds one
  that is gone or one that is to come.  `ClaimsAreBounded` counts live tokens that
  nobody has read together with the requests in flight: at most one more than the
  revocations that failed or overlapped, less the logouts that found a token nobody
  was refreshing.  A
  sign-in whose logouts outnumber those has none left.  The tokens of a deactivated
  user are counted the same way, by what each call takes and gives back
  (`FewerRemain`).
* `DeliveryWorker`: `SpecDeliveriesAreExplained`, from what a worker's copies are
  worth: a batch has no delivery twice (`BatchesAreSets`), a copy's count is at most
  the row's (`CopiesAreBehind`), a delivery that two workers hold, or one holds
  after it was delivered, is known to be shared (`SharedIsKnown`, `LateIsKnown`), and
  what an endpoint accepted is marked or about to be (`AcceptedIsMarked`).
* `ControlFramework`: `SpecControlsAreKept`.  A listing misses nothing because a
  control it has not shown is still ahead of its offset, unless it moved or tied
  (`UnseenIsAhead`); an assessment skips a state only when another call wrote
  between its check and its update (`ChecksHold`).

**`SubscribersProofs`**

* `Webhooks`: `WebhooksTypeCorrect`, `GivenUpAfterMaxAttempts`,
  `SpecSettledIsFinal`.  A row, an attempt and a copy the poller holds each carry a
  count.  None of them exceeds the POSTs made for the row, because a copy inherits
  the count of its row and an attempt adds one only after its own POST; overlaps and
  losses leave counts too low, never too high.
* `SearchSync`: `SpecSyncTypeOK`, `SpecStaleIsExplained`, `SpecHandFits`.  `SyncInv`
  follows a change from the row through the queue and the hand of the listener into
  the index: wherever it is, the document is current, or the change is still to be
  applied, or it was missed (`ServiceFits`, `QueueFits`, `HandFits`, `BulkFits`,
  `StaleIsExplained`).

**`SdkProofs`**

* `SdkBreaker`: `TypeCorrect`, `StateMatchesCounter`, `SlotOwned`.  "Closed iff
  below the threshold" is inductive with types.  "A taken slot has a probe" needs
  that a half-open circuit with no probe has a free slot, so the invariant carries
  the phases of all calls.
* `ConnectorSync`: `SyncsImplementBreaker`, `OneFetchesTheToken`,
  `SpecEndIsExplained`, `SpecEvenPagesKeepLimit`, for pages of any sizes.  Every
  step of a sync is one of the breaker or leaves it alone, so `ConnectorInv` adds to
  the invariant of the breaker what is left of the records, the attempts and the
  faults of each sync (`SyncsFit`), and that the token's mutex has one holder
  (`TokenInv`).
* `RateWindow`: `SpecAdmittedWithinLimit`, `SpecPatientIsAdmitted` (for a limit
  above zero), for both limiters and any window, limit and delay.  A request that
  counts against the limit is the latest so far, so those admitted before it are
  older and those in its window are members that were counted with it
  (`RegularIsRecorded`); their key cannot have expired, because it lives for a
  window after its last member (`KeyLives`).  The patient find an empty window
  because every member was answered, and no answer is younger than a window
  (`AnsweredIsOld`, `AloneHasWaited`).

**`IntegrationProofs`**

* `IamSync`: `SpecCircuitAgrees`, `SpecFilteringIsBounded`.  The breaker's types,
  which say that a count is a number, are needed with the agreement.  A filter writes
  the items it keeps to the front of the stored array and leaves the rest, so no item
  of its own type goes: each moves forward over places already read.  That every answer holds items
  of the sync only, and all of its type before another was asked for, needs this of
  what is stored, after any number of filters, and of the outcome of a sync not
  stored yet (`EvidenceInv`).
* `ServiceNowExport`: `SpecTasksPointAtTheirItem`, `SpecMissingRiskIsExplained` and,
  with `LiveAnswersLikeMock`, `SpecExportIsExplained`.  An export about to create a
  risk or a task holds the id of an item of the finding in hand, and items only get
  more (`ExportsFit`).  That the export is "at work on" a
  finding is not inductive, since two findings may share an id: the item without
  its risk is the one whose risk is the export's next step (`RisksAreCreated`).
  That a live answer is mock mode's is a statement about the end of an export; the
  invariant `Answered` states it in the middle: the items, risks and tasks collected
  are those of mock mode for the positions passed so far, where each of the three
  may be one position behind the others, and risks are compared without their owner.
* `VulnConnectors`: `SpecScanIsExplained`.  A request reads findings and hosts in two
  or three calls, and what is claimed of its answer must hold between them: what it
  fetched was on the scanner then, in the order of its ids and cut at a page, and
  unless the scanner moved since, it still is (`Fetched`).  The scanner lists a
  device once (`ScannerOK`), and its findings may share ids and lack a host: an item
  of the answer then comes from a position of the page, so two items of one id
  come from two positions of the scanner's list with that id.
* `SecurityHub`: `SpecReadingsAgree`, for any findings.  Inductive is only that the
  list in AWS and the page of the last call hold findings and that the answer is
  computed from the page beside it (`HubInv`); the rest are lemmas about the two
  aggregations.  A control under which something failed or warned is not passed, so
  a standard with such a control has fewer passed than total; a finding that leaves
  the failed weight leaves the total by as much or not at all, and
  `(total - failed) \div total` does not fall in either case; the weighted sum of an
  item without deficiencies is above the mark, kind by kind.
* `IamSnapshot`: `SpecSnapshotIsExplained`, for any accounts.  The sync reads users,
  then logs, of a directory that changes between the calls, so what the answer is
  compared with is the directory of the first call: a live sync past it has the users
  it saw, cut at a page (`FetchOK`), and the directory gives an id once
  (`DirectoryOK`).  What the adapters leave out of a user only lowers a score, kind by
  kind (`ReadIsNoBetter`).  That no two items share an id is a statement about a
  concatenation of lists, one per user: a positional invariant over its partial
  concatenations says which list an item is from and that keys differ, as long as
  the subjects of two users do (`FlattenDiffers`).

**`EngineProofs`**

* `Scope`: `ScopeIsAcyclic`, `ScopeEdgesAgree`, `ScopeCycleNeverCloses`.  A node is
  added after its parents and before anything names it, so of a set of nodes with
  the new one in it, either the new one is alone or the rest has a member without a
  parent in the set.  The cycle check of `add_node` and its undo therefore never
  refuse a node.
* `ScopeHistory`: `HistoryKeepsGraph`, `SpecLockedOnlyThroughReferences`, both in
  `SpecGraphIsKept`; `SpecVersionsTellHistory` and its `SpecVersionsAreCopies`.  The
  order is read from `_children`, which an assignment through a reference does not
  touch, so it exists whatever `parent_ids` says; that the two agree elsewhere is
  kept by carrying the set of nodes that were `rewired`.  A diff tells boundaries and
  weights only, so these are what replaying one gives.
* `ScopeReview`: `SpecTrailTellsRequests`.  The invariant is the property with its
  types: an event is appended behind all others, so it changes the events of its own
  request only, and a request is reviewed once because it is pending once.
* `BudgetTracker`: `SpecTotalsFollowItems`.  Alerts of an item and of the budget
  compare with one threshold, and a sum of items that are below it is below it.
* `Verdict`: `SpecVerdictIsSound`, from how each sum of the pipeline moves when one
  item is added.
* `WorkProgram`: `SpecProgramIsMaximal`, for any weights and budget.  Weight per hour,
  compared by cross-multiplication, orders the controls strictly, so the list the loop
  runs over exists and has each control once.  After k turns (`Taken`) the hours of
  the program are the sum of its items', and a candidate that was passed over does not
  fit; hours only grow, so none of them fits at the end.
* `Allocation`: `SpecAllocationIsGreedy`, for any items, auditors and skills.  What the
  loop knows after k turns (`Allotted`) is about all items at once: an item left over
  found nobody with room at its turn, an item given to a generalist found no specialist
  with room, and nobody's room grows, so both still hold at the end.  A less risky item
  comes later in the list, so whoever got it had less room than the item left over
  needed.

**`SumTheorems`**: how a sum over a finite set changes with one value, is bounded by
another, splits, and moves with its indices; which positions a filter keeps, and that
it grows by one element at its end when a position behind all others passes the
test; and that a finite set can be listed in any strict order, with each of its
members once.  Induction is by a smallest
counterexample, from the library's theorem on well-founded relations, so these need
no induction theorem with an operator as its parameter.

The assumptions on constants say no more than the code does: thresholds, pages and
windows are positive where a constructor or a default makes them so, bounds are
natural numbers, the sets of clients, handlers, hooks, items and controls are
finite and, where they are ranked, numbers, placeholders are not among the values they stand beside, calendars may list
any days (the service does not check them), the bodies of exports are lists of
findings, a directory's account has a list of factors and a number of days since its
last login, the evidence a sync maps is a list of items with types, and the pipeline's
kinds of evidence have the weights and reliabilities of its tables.

### Only model-checked

* Liveness: `CallersAreNotStuck`, `SyncsEnd` of `SyncsComeToAnEnd`,
  `GatewayKeepsServing` of `LimitersServe`, `Recovers`, `Settles` of
  `SettlesForGood`, `Converges`.  The proof system does not do `WF` and `SF` here.
* `ParentsFirst` of `WorkProgram` does not hold (section 5).

## 5. What the models show about the code

Runs with a counterexample (see `findings`):

* `audit-trail` appends fork the chain: the head is read by an earlier statement
  than the insert, and a serializable transaction that reads nothing conflicts
  with nothing (`store.go:31`).
* `engagement`: "defensive" copies share the array of the history.
* `work_program`: the controls are read in topological order and then sorted twice
  by keys that know nothing of the graph, so an item may precede the control it
  depends on.
* `webhook` (singular): the worker looks an endpoint up under an empty
  organisation, which the store compares, so no delivery is ever sent.

Seen while modelling, and kept in the models without a run of their own:

* Approval: of two racing transitions one is lost although both were answered
  200, which can also undo a lock; `Lock` on a workflow of a type `Create` does
  not validate is never allowed, so such a workflow can be submitted and never
  decided; a rejected workflow may be submitted again without a return to draft.
* SDK breaker: a success that arrives late closes an open circuit; after a stale
  failure in half-open the slot is free while the first probe is still out, so
  two probes may overlap; a probe that panics takes the slot with it for good.
* Connector: a fetch that fails, or an open circuit, closes the channel like a
  complete sync does, although the comment names two reasons (`connector.go:139`);
  a caller that cancels counts as a failure of the remote system and can open the
  circuit for the others; `Limit` is compared with the pages sent times the length
  of the last one, so whole pages exceed it and uneven ones may end early or late;
  who waits for the OAuth2 token waits for its mutex whatever its context.
* SIEM and IAM breakers let every caller through in half-open.
* IAM evidence: a filtered GET overwrites the stored slice in place, so a later GET
  repeats some items and misses others,
  although the endpoint "returns evidence items from the most recent sync result"
  (`iam_handler.go:82`).
* Webhooks: attempts of one row overlap, because the poller takes pending rows
  whose first attempt is under way, and a late failure puts a delivered row back
  to pending.
* Webhooks: due rows of inactive subscriptions fill the oldest batch and can keep
  younger rows from being retried; overlapping attempts make more than three
  POSTs; the backoff schedule is indexed one late; a dispatch whose row could not
  be inserted is still answered 202.
* Audit trail: `VerifyChain` recomputes hashes from rows that lack the event type
  and the nanoseconds that were hashed, so it rejects every non-empty chain.
* Planning: a PATCH that loaded a plan before its archival brings it back beside
  the plan that replaced it.
* Search: rows changed between the bulk query and LISTEN, or while the connection
  is down, are missed until the next start; documents of rows deleted meanwhile
  are never removed.

* Webhook (singular): `FOR UPDATE SKIP LOCKED` outside a transaction keeps no other
  worker away; four attempts are made although `domain` comments the third as
  the last (`MaxAttempts` is compared before the attempt is counted); a late mark
  of a second worker can put a delivered row back.
* Sessions: a failed revocation, and two refreshes of one token, leave two live
  tokens of one sign-in; a stop between the revocation and the new key ends the
  session; logout deletes the token it is given and not the one a refresh under
  way is about to store.
* Rate limits: the cache records refused requests, so a client that keeps asking
  stays refused; its pipeline is not a transaction; stamps are taken before the
  script runs, so one can reach a window from which it has already dropped out;
  requests of one millisecond can share a member.  The gateway's limiter runs
  before authentication (`router.go:52`), so its key is the address and never the
  organisation.
* Control framework: the write of an assessment does not compare the state that
  was checked, so a call from the past moves it back; listings by offset miss or
  repeat controls that share a `control_id` or leave the filter meanwhile; the
  repository in memory has no lock; the organisation of a request is looked up
  under a key of another type, so these routes answer 401 as they are wired.
* Evidence: an item is there before its tier and score; corroboration of early
  items is not refreshed by later ones; the rules are said to be "first match wins"
  (`classifier.go:22`) and the best score wins; two rules of equal exact score are
  told apart by the last digit of float64 (four keywords give 0.7, one with its source
  and format 0.7000000000000001).
* Planning: a percentage is cut off, so only a fully booked auditor reads 100;
  overlapping PATCHes of a map or calendar lose each other's fields.
* Identity adapters: Okta's users and log, and Entra ID's four lists, are separate
  calls with one page each; no live adapter reads MFA factors or assigned
  applications, nor Entra ID's the last login, so live evidence rates users as if
  they had none; a failing access review call is silent.
* Security Hub: summaries count archived findings, the posture score does not;
  a finding with two ids of one standard counts twice.
* Scanners: one page of ten findings and devices; Tenable names the first host of
  a finding only, and the host "" when it has none, so the evidence has a
  vulnerability of a host it does not list; two findings of one host and QID, or of
  one plugin, share an id; Qualys falls back to CVSS 2, Tenable to the label.
* ServiceNow: a failed POST leaves the records before it, and a retry
  creates them again; only mock mode fills in the owner of a risk entry.
* Engine: planning an item again sets its recorded hours back to zero; approving a
  modification request applies nothing; an empty scope can be locked; items
  planned with no hours never raise an alert.
* Scope: `get_node` hands out the live node, so its parents can be assigned without
  `_children` following, also under the lock: the validators then judge other edges
  than the topological order follows, and raise a KeyError for a parent that is not
  there.  Snapshots are called immutable (`history.py:32`, `history.py:65`,
  `history.py:208`) and are neither frozen nor copied when they are handed out.  A
  diff is silent when a node got another control, which its comment says is told as
  a removal and an addition (`history.py:151`).  A
  control that goes from in scope to conditional is no impact to `analyze`, though
  nothing audits it any more.  The cycle check of `add_node` and its undo are never
  reached, since nothing names a node before it is added.
* Verdicts: the default expected deviation rate is the rate a material control may
  tolerate, so `cochran_sample_size` raises an error for every material control
  that keeps the default; failing items make up the sample too, so evidence
  against a control can lift its downgrade; the pipeline does not ask the gate, and
  calls controls of small populations effective on fewer items than its floor: two
  passing items of the first tier make up the marginal sample of three.

Of less weight, and covered by no property:

* `src/sdk/connector/circuit/breaker.go:176`: state-change callbacks run in
  goroutines of their own and may report changes out of order.
* `src/services/integration/internal/iam/scheduler.go:62`: a second `Start`
  replaces the function that cancels the first one's loops.
* `src/services/integration/internal/handler/handler.go`: `FetchLogs` gives its
  context a timeout of 30, which are nanoseconds.
* `src/sdk/connector/ratelimit/token_bucket.go:46`: a burst below one never holds
  a whole token.
* `src/sdk/connector/retry/retry.go:182`: the exponential delay is converted to
  a duration before it is capped, and may no longer fit by then.

## 6. Not modelled

Presentation, formatting and logging (frontend, reporting, search queries,
logging, metrics, the SIEM adapters, which make one call) have no protocol
state.  The identity service's users, organisations and roles, and the control
framework's frameworks, clauses and crosswalks, are single SQL statements.  The
gateway's verification and proxying and the session and scope namespaces of the
shared cache keep nothing between requests or are single Redis commands that
nothing calls.  Of the SDK, the lengths of delays, the other credentials, the
registry and the test harness are left out.  Of the engine's quality and risk
functions the confidence of a conclusion, conflicts, trends, aggregation and
exceptions are left out: they are pure functions over floating-point scores.  Each is listed with its reason in `PROJECT.json`.

## 7. Plan

Done: the services that hold the records an audit relies on (approval,
engagement, planning, audit trail), what is passed on to others (both webhook
services, search), the breakers, limiters and sessions, the adapters, controls,
evidence, and the engine's scope and economy.

Every invariant of a passing run, and every action property named in section 3, is
a theorem; what is left to the model checker is liveness (section 4).
