# Profit Doctor: verification project

TLA+ models of the parts of Profit Doctor that keep state, the TLC runs that
check them, and theorems about them that TLAPS proves.  Paths below are relative
to `src/profit_doctor/` unless they start with `docs/`.

## 1. The system and its inventory

Profit Doctor is a local workspace for an adviser.  A browser tab (`workspace/ui.js`)
talks over loopback HTTP to one FastAPI process (`workspace/app.py`), which
authenticates the one operator session, and runs each request in a database
transaction of its own (`persistence/database.py`).  The workspace stores
administrative facts only: engagements (Business Reviews), received originals,
information requests, setup drafts.  Behind it a reasoning library
(`reasoning/`) turns registered datasets into facts, findings, hypotheses,
impacts, opportunities and priorities, and a management library (`management/`,
`economic/`) follows decisions, actions and benefits from run to run.

Who acts at once: several HTTP handlers (FastAPI runs `def` handlers on threads, and
`async def` ones on the event loop), several tabs of one browser, several processes
on one database, and the network between them.  The reasoning and management
libraries are called by one process at a time, but against the same database, so
their reads before a savepoint race in the same way.

| Component | State | Operations | Hard behaviour | Correct when |
|---|---|---|---|---|
| Workspace write path `workspace/service.py` | append-only tables of engagement revisions, receipts, registrations, request revisions; audit with idempotency keys | `save_engagement`, `receive`, `associate_registration`, `save_information` | check-then-insert races, retries, one key for two payloads, failure after the bytes are stored | exactly-once effect, honest replay, linear histories, fixed scope, owned evidence |
| Operator session `workspace/session.py` | one binding, its start and last activity | `login`, `authenticate`, `metadata` (renew), `end` | a request outlives the session that admitted it; login replaces; clock limits | limits belong to the session, nothing revives, stale requests neither sign out nor learn |
| Guided setup `workspace/setup.py` | draft revisions, review links | `save` with SAVE, CREATE_REVIEW, COMPLETE, CANCEL | two services in one transaction, retries, competing creations | the draft life cycle; one review per draft; every revision readable |
| Browser mutations `workspace/ui.js` | idempotency keys per payload, session data, busy flag | `api`, `sessionEnded`, sign-in | lost requests and responses, session end under an uncertain upload | one receipt per upload; "received" only if committed |
| HTTP application `workspace/app.py` | none of its own | routes, middleware | binds a request to a session before its route runs | exceptions are refusals, not partial effects |
| Evidence store `workspace/storage.py` | content-addressed files | `put`, `read`, `unreferenced` | crash inside `put`, two writers of one digest | a committed receipt has its bytes |
| Owned readers `workspace/readers.py` | none | `registration`, `readiness` | the owner changes after the association | only owned, matching bytes are associated |
| Reasoning foundation `reasoning/domain/` | objects with revision, links, audit events, effects | `create_object`, `update_object`, `link_evidence`, lookups | compare-and-swap update, audit beside it | revisions are linear and each has its event |
| Canonical facts and findings `reasoning/canonical/` | a Fact per Signal and mapping version, a Finding per semantic key, each on an envelope of the foundation | `canonicalise` (with a correction), `invalidate`, `assess` | corrections racing invalidations, two assessments of one Finding, a source that changes | one heir per superseded Fact; observations neither lost nor doubled; temporal state and links earned |
| Receivables, impact, opportunity `reasoning/receivables`, `impact`, `opportunity` | one snapshot series, Impact revisions, candidates, collection evidence, assessments | `ingest_csv`, `assess`, `create_candidate`, `ingest`, `qualify`, totals | every stage reads the stage before and stores later; the registry commits before the canonical row | a revision rests on later evidence than the one it supersedes; nothing stale becomes current again; no total exceeds what is overdue |
| Priority and decisions `reasoning/priority/` | assessments, adviser decisions by request id | `assess`, `decide` | decision on an assessment that goes stale; replay | a request decides once, on the assessment it was made on |
| Hypotheses and Stories `reasoning/hypothesis`, `story` on `graph` | Hypotheses with interpretations, Story revisions | `generate`, `assess`, `synthesise` | evidence changes between its reading and the write; runs out of order | interpretations read back; a Story is supported only by a supported interpretation of its own evidence |
| Diagnostic run `trust/engine.py`, `diagnostic/engine.py`, `intake/bridge.py` | integrity, eligibility, one answer per test with its signals | three trust assessments, 56 tests, the hand-off of annual summaries | later tests read the signals of earlier ones; answers replaced after the run | a synthesis uses everything its inputs left; one answer per test |
| Reasoning engine and agenda `reasoning/engine.py`, `management/attention.py`, `economic/engine.py`, `management/opportunity_register.py` | findings and versions, queue, agenda, stories, candidates, register | `run_reasoning_engine`, `build_management_agenda`, `resolve_economics`, `build_opportunity_register`, `add_context_event` | context arrives between the stages, runs of one client interleave | findings, agenda items and register rows are earned and traceable |
| Opportunity portfolio `economic/engine.py`, `portfolio.py` | mechanism evidence, opportunities, relationships, envelopes | qualify, relate, envelope | deductions of pairs and of envelopes overlap | an envelope caps its members, a pair counts once |
| Management register `management/engine.py` | decisions, actions, benefit legs | record, verify, retain, relate | order of benefit operations | no benefit counted before it is realised, none twice |
| Longitudinal and restatement `management/longitudinal.py`, `restatement.py` | issue threads, keyed opportunities, claims, source revisions, baseline locks | observe, track, claim, revise, classify, lock, restate | a claim after the opportunity went stale; a value that returns; a call that fails half way | claims counted once, baselines keep their origin |
| Evidence graph `reasoning/graph/` | evidence links, revised graph records, an audit event for each; it only reads the stores of the objects it relates | `link`, `freshness`, `characteristics`, `independent_evidence` | two databases; both ends are read, then read again and compared, then stored; two callers; a downgrade that drops the records | what is current and independent rests on disjoint, whole files; a history is one chain; two ends are governed once |
| Production evidence `reasoning/production_evidence/` | registered packages and definitions, absences, zero populations, projections, refusals, monthly owners, component bindings, margins, readiness views | `capture`, `assess_absence`, `qualify_monthly`, `bind`, `qualify`, `assess`; `get` of each, current or not | corrections and competing originals; authority that lapses and returns; rows that speak only for one run | what is current is warranted by what is registered and vouched for now |
| Measurements `reasoning/measurement/` | contexts of accounting lines, bindings of results, signals and facts to them | `capture_accounting`, `backfill_fact_slot`, `propagate`, `lookup`, `resolve_binding` | rows rewritten or deleted behind a binding, files lost or altered, contexts that are superseded | what resolves is what was captured; one figure has one authority |
| Economic bridge `reasoning/bridge/`, `intake/declared_accounting.py` | declared packs, sources and versions, bridges and their decompositions | `capture_pack`, `create`, `get` | a capture that fails between its commits; packs that restate, return or extend one another; workbooks lost or altered | current bridges agree with the latest packs; a captured pack can be bridged |
| Datasets, temporal engine | series of versions, patterns over a window | assess | completeness, comparability | what is claimed is what the bounded inputs support |
| Ingestion, intake | registered dataset versions | register, parse | same bytes registered again | one version per content |
| API view models, CRM, CLI, demos, migrations | none | read-only, or entry points | none of their own | not modelled |

How they interact: the tab's requests pass the middleware (session), then a route
(workspace service or setup service), which share the database tables and the
transaction.  Setup calls `save_engagement` inside its own transaction.  `receive`
writes the evidence store before its transaction.  `associate_registration` asks the
owned reader about datasets that ingestion registered.  The reasoning stages read
one another through the database only.  The sequential engines hand one another rows of
the run: trust states what tests may use, tests leave signals, reasoning turns signals
into findings, the agenda groups them, economics prices them, the register lists them; an
opportunity taken up becomes decisions, actions and benefits.

`PROJECT.json` lists every component with its status, and the hazards with the line
at which each bites; the properties below are aimed at these.

## 2. Modules

| Module | Models | State | Actions and code |
|---|---|---|---|
| `WorkspaceService` | `workspace/service.py` under `app.py` and `database.py` | `rows`, `audit` (committed), `stored` (evidence store), per handler `pc`, `call`, `row`, `previous`; `answers` | `Start` (request arrives), `Open` (`_open`), `Replay` (`_replay`), four `Prepare...` (the checks of the four operations), `Put`, `Insert` (the INSERTs of `atomic()`), `Reject` (IntegrityError), `Commit`, `Answer`, `Fail` |
| `WorkspaceLedger` | what the workspace promises its clients (abstract) | `documents`, `ledger`, `kept`, `replies` | `Revise`, `Receive`, `Associate`, `Ask`, each at once; `Keep` (bytes), `Reply`; `WorkspaceService!ImplementsLedger` is the refinement |
| `OperatorSession` | `workspace/session.py`, middleware and session routes | `_active`, `started`, `last_activity`, clock; `route`, `bound` per request; `learned` | `Login`, `Authenticate`, `Metadata`, `End`, `Business`, `Refused`, `Restart`, `Tick` |
| `SetupLifecycle` | what a draft promises (abstract) | `setup[d]` | `Begin`, `Edit`, `CreateReview`, `Complete`, `Cancel` |
| `SetupService` | `workspace/setup.py` | `revisions`, `links`, `reviews`, per handler `pc`, `call`, `row`; `answer` | as `WorkspaceService`; `ImplementsLifecycle` is the refinement of `SetupLifecycle` |
| `MutationKeys` | `workspace/ui.js` against the receive route | `mutationKeys`, tab, wire, server session, review status, receipts | `Send`, `Serve`, `Receive`, `Unconfirmed`, `Lose`, `LoseSession`, `Countdown`, `OtherSignIn`, `ToggleReview` |
| `CanonicalFindings` | `reasoning/canonical/service.py` on `reasoning/domain/service.py` | `row` (documents), `envelope` (revisions of the foundation), `registered`, `links`, the registry's `mapping`, the owning store's `source`, per session `tx` | `Canonicalise`, `Insert`, `Register`, `Correct`, `Invalidate`, `Assess`, `ReadFinding` (the reads and checks of the three calls), `Plan` and `Update` (`update_object` and `_write`), `Commit`, `Rollback`, `SourceChanges`, `Upgrade` |
| `CanonicalRegister` | what the canonical services promise of Facts and Findings (abstract) | `documents`, `identities`, `links` | `Observe`, `Correct`, `Retire`, `Judge`, each at once; `CanonicalFindings!ImplementsRegister` is the refinement |
| `ReceivablesChain` | `reasoning/receivables`, `impact`, `opportunity`, `priority` services | `registry` and `ledger` (the store that commits first), `snapshots`, `qualifications`, `candidates`, `collected`, `evidence`, `assessments`, `priorities`, `decisions`; `pending` per session | per call a reading action with its checks (`RegisterSnapshot`, `AssessImpact`, `CreateCandidate`, `RegisterEvidence`, `Qualify`, `AssessPriority`, `Decide`) and an `Insert...` that is refused by the table's unique key; `ReplayDecision`, `Abandon` |
| `EconomicStory` | `reasoning/hypothesis` and `reasoning/story` services on `reasoning/graph` | `observed`, `retained`, `changed`, `challenged` (the evidence), `hypotheses`, `interpretations`, `story`; `pending` per session | `Observe`, `Canonicalise`, `ChangeSignal`, `Challenge` (the environment); `Generate`, `Assess` / `StoreInterpretation`, `Gather` / `Compose` / `WriteStory` (the statements of one synthesis), `Abandon` |
| `DiagnosticRun` | `trust/engine.py`, `diagnostic/engine.py`, `intake/bridge.py` | `client`, `stage`, `integrity`, `controls`, `eligibility`, `answers` (by the place they were asked in), `place` (of the next) | `AssessSales`, `AssessAccounting`, `CrossCheck`, `RunTest` (one of the 56, in order), `FinishTests`, `HandOff` |
| `AttentionAgenda` | `reasoning/engine.py`, `management/attention.py`, `economic/engine.py` up to candidates, `management/opportunity_register.py` | `contexts`, `suppressed`, `profiles`, `bundles`, `clusters`, `findings`, `versions`, `queue`, `agenda`, `stories`, `economics`, `register` | `AddContext`, `DrawSignals`, `Reason`, `BuildAgenda`, `ResolveEconomics`, `BuildRegister` |
| `OpportunityPortfolio` | `economic/engine.py` from qualification on, `economic/portfolio.py` | `evidenced`, `opportunities`, `relations`, `envelopes` | `RecordMechanism`, `Qualify`, `Relate`, `CreateEnvelope`; `Net` is what `portfolio_economics` answers |
| `BenefitRegister` | `management/engine.py` | `decided`, `actions`, `legs`, `related` | `RecordDecision`, `CreateAction`, `UpdateProgress`, `RecordBenefit`, `VerifyBenefit`, `AssessRetention`, `RelateBenefits`; `Realised` |
| `LongitudinalRegister` | `management/longitudinal.py` | `threads`, `sightings`, `torn`, `keyed`, `seenIn`, `claims` | `ObserveIssue`, `ObserveAgain` (the call that fails half way), `TrackOpportunity`, `TrackAgain`, `RegisterClaim` |
| `RestatementRegister` | `management/restatement.py` | `revisions`, `events`, `locks`, `moves` | `RegisterRevision`, `ClassifyChange`, `LockBaseline`, `RestateBaseline` |
| `ReceivablesEvidence` | `absence.py`, `ar_semantics.py`, `zero.py`, `history.py`, `readiness.py` of `reasoning/production_evidence` | `registered`, `withdrawn` (lapsed authority), `named`, `absences`, `zeros`, `projections`, `unknowns`, `readiness` | `RegisterSource`, `ChangeAuthority`, `RegisterDefinition`, `CaptureZero`, `AssessAbsence`, `CaptureProjection`, `CaptureUnknown`, `AssessReadiness` |
| `MonthlyEvidence` | `monthly.py`, `semantics.py`, `component.py`, `margin.py` of the same package | `imported`, `doubted`, `monthly`, `bindings`, `margins` | `ImportMonth`, `ChangeVouching`, `QualifyMonthly`, `ImportProof`, `Bind`, `QualifyMargin` |
| `MeasurementContexts` | `reasoning/measurement` | `rows` (of the legacy store), `files`, `contexts`, `contextBindings` | `WriteRow`, `DeleteRow`, `Canonicalise`, `Retire`, `ChangeFile`, `CaptureAccounting`, `BackfillFactSlot`, `Propagate` |
| `EconomicBridges` | `intake/declared_accounting.py`, `ingestion/northstar.py`, `reasoning/bridge` | `workbooks`, `revisions`, `versions`, `captured`, `bridges` | `CapturePack` (up to any of its commits), `ChangeWorkbook`, `CreateBridge` |
| `EvidenceGraph` | `reasoning/graph` | `origins` and `standing` (the rows and objects of the owning stores), `evidenceLinks`, `graphRecords`, `graphEvents`; `recorders` (calls under way) | `Touch`, `Revise`, `Relate`, `Downgrade` (the environment); `BeginLink`, `Compare`, `Store` (the steps of `link`) |
| `Estate` | the six modules of the legacy engines and registers side by side | theirs | theirs; `MoneyCountsOnce` and `RegistersReadBack` join what several of them say |
| `MC...` | instances for TLC | | |
| `..._proofs` | theorems about the module of that name; `Browser_proofs` about `OperatorSession` and `MutationKeys`, `Receivables_proofs` about `ReceivablesChain` and `ReceivablesEvidence`, `Estate_proofs` about the engines and registers of `Estate`, `Evidence_proofs` about the other four kinds of evidence | | |

How a handler is cut into steps.  Reads are separate SELECTs, each seeing what is
committed at that moment; the INSERTs of one operation are one step `Insert`, because
they are issued in one fixed order and take their unique keys together: nobody can
observe a part of them.  A key held by an open transaction makes a rival's `Insert`
wait; a committed key makes it fail (`Reject`, 409).  `Commit` publishes everything at
once, and the response is a step after it, which may be lost.  `Fail` at any step
stands for a dead process, a dropped connection, a lock timeout, and every refusal that
depends on what is not modelled (selected runs, readiness views, field formats).
`receive` never overlaps with itself: it is a coroutine that does not await once its body
is read; the other handlers run on threads.

How a canonical call is cut.  The caller owns the transaction (docstring of
`canonical/service.py`) and is told to roll back on an error; a model transaction holds
one call, so `Commit` publishes a call whole and `Rollback` leaves nothing.  Reads that
rivals can come between are separate steps: the predecessor is read in `Canonicalise` and
again in `Correct`, the Signal's identity is looked for in `Insert` and created in
`Register`, a Finding is read in `ReadFinding`, its envelope in `Plan`, and both are
compared and swapped in `Update`.  A document and its envelope, which `_get` reads by two
SELECTs, are read in one step: a commit in between makes `_get` raise, and the call ends
without a write, as by `Rollback`.  An insert or update of an object that another open
transaction has written waits.  The two conditional UPDATEs are one step because every writer
takes the envelope's row first.

Abstractions, and why they are harmless to the properties:

- A call is its own digest.  The code compares SHA-256 hashes of exactly the fields
  the call records, without the key.
- One client, one actor.  Every table and key is scoped by client, the grant is
  checked first, and the process has one actor for its life; two clients never meet.
- Titles, questions, rationale, filenames, due dates are left out; none guards a
  modelled step except by its format.
- Rows carry unique keys and references; a parent row (`workspace_engagement`) exists
  exactly when revision 1 of its object does, because one transaction writes both.
- Foreign keys are not separate guards: rows are never deleted, so a reference
  checked before the INSERT still holds at the INSERT.
- In `SetupService`, the fields stand for the scope derived from them.  Engagements
  that setup did not create, and later edits of created ones, do not matter to it:
  `WorkspaceService!ScopeFixed` says that a scope never changes.
- In `CanonicalFindings` a snapshot of a Signal stands for its rows and their digest; all a
  Fact keeps of it is the outcome the significance policy gives it, so the decimal
  arithmetic of the three policies is the constant sets `Significant` and `Limited`.  The
  Signals are those of one semantic key, one per run: keys share neither Facts nor
  Findings.  Periods are of equal length.  Mitigating evidence is treated in the code as contradictory
  evidence is, under another link type, and is folded into it.
- The history row is inserted next to the document, in one transaction, under a key made of
  object and revision: it follows the documents and has no variable of its own.  Audit
  events guard nothing and are left out.
- In `MutationKeys` the receive route is one step, since it is one coroutine step;
  what it does inside is `WorkspaceService`.
- In `ReceivablesChain` a document stands for its invoices and a review for a collection
  evidence document; what the capture engine supports for a review on a snapshot is the
  constant `Capture`, bounded by the overdue balance because a matched case has the invoice's
  exposure.  A caller names as expected revision one it has read before: the checks between
  a session's first read and its insert are one step, since the unique key on the revision
  refuses the insert when a rival's came between.  The source registry is another
  store, which commits by itself before the canonical rows (`ledger` and `collected` grow
  even when the call is then rolled back).
- In `EconomicStory` the classes of provenance, the relation of periods and the contracts a
  Finding admits are constants.  A digest of evidence is the record `Evidence(r)`.
- The engines and registers of the legacy store run one call after another on one
  connection, which commits at the end of the call.  Where a call can fail after its first write
  (`ObserveAgain`, `TrackAgain`), both outcomes are allowed: the next call's schema script
  commits what was written unless the caller rolls back.
- In `DiagnosticRun` what the arithmetic of a test draws from a client's rows is the client's
  `gives`; which test may be answered, what it records when refused and which signals it reads
  of other tests is the code's.  In `AttentionAgenda` amounts are kept only as falls, and texts, facts
  and interpretations, which restate a signal, are left out.
- In `LongitudinalRegister` the claims of a key are the sequence of legs in the order of their rows,
  because the code adds them by `SUM(CAST(net_amount AS REAL))` and makes a decimal of the float
  (`management/longitudinal.py:76`, `:92`): the result depends on the order and misses the decimal sum by its last digits.  What
  a sequence reads as is the constant `ReadAsReal`, of which `LongitudinalAssumption` says that no claims read as 0, that it is within
  `Drift` of the exact sum, and that one more claim, which is never negative (`management/engine.py:40`), never lowers it.  In
  the run it is the table of what SQLite answers for legs of 0.70, 0.10 and 0.20, with one unit for the digits by which it is off.
- In `RestatementRegister` a caller of `classify_period_change` may name any revision, of this
  source, of another, or of none (number 0), since the code looks neither it nor the affected period up; `affected_period`
  is stored, whatever the docstring (`restatement.py:65`) says of past and future periods, and has no variable.
- In `ReceivablesEvidence`, `MonthlyEvidence`, `MeasurementContexts` and `EconomicBridges` calls
  follow one another: a call is one action.  Where the code commits in the middle of a call (`CapturePack`),
  the action stops after any of its commits.  A file, a mapping or a chart is vouched for or not; what its bytes
  contain is a constant of it.
- In `EvidenceGraph` what a row was derived from is fixed, while rows go missing, are rewritten and
  come back; a signal stands with its execution and lineage rows, a version with its data set.
  `link` is cut into the reading of the ends, the comparison, and the savepoint, because the
  ancestry is in the legacy store and rivals commit in between.  Another component links the same
  two ends at most once (`FOUNDATION`).

## 3. Runs

| Run | Question | Bounds, and why they are enough |
|---|---|---|
| `workspace_reviews` | lost updates, double effects, dishonest replays, missing bytes, illegal request histories, evidence of another engagement; do the handlers implement `WorkspaceLedger` | 2 handlers and two sets of calls, each explored by itself (`OneSet`). One engagement created under two scopes, edited at revisions 1 and 2, closed, edited with a wrong number, two receipts, a registration, keys that name different payloads; or the requests of two engagements raced to review, withdrawal and reopening, with evidence of this one, of the other, and not received. Every race here is between two handlers; the proofs cover any number. |
| `workspace_finish` | does every handler end | 2 handlers, 4 calls, under `FairSpec` |
| `workspace_closed` (violation) | are closed reviews free of new writes | the same 4 calls |
| `tabs` | stale requests against limits and logins; duplicate uploads, false announcements | two parts. `SESSION`: 2 requests, 3 logins, clock 0..6 with limits 2 and 4: a session can expire either way and be replaced twice while a request waits. `UPLOADS`: 2 uploads, 4 requests, 3 sessions, 4 keys: a first request may still be on the wire when its repetition is sent |
| `mutation_retry` (violation) | one receipt per upload | 2 uploads, 4 requests, 3 sessions, 4 keys |
| `setup_service` | draft life cycle under races, retries and failures | 2 handlers, 2 drafts, 11 calls: competing review creations, reused keys, changed fields, a completion raced with a cancellation |
| `canonical_findings` | forked or orphaned supersession, unreadable objects, rewritten Facts; lost or doubled observations, unearned temporal states, missing links; do the calls implement `CanonicalRegister` | 2 sessions, in two explorations that begin alike: one Signal's Facts corrected and retired across 3 mapping versions; or the Facts of 2 Signals in consecutive periods judged, retired and judged again with and without a challenge, up to revision 3 of the Finding |
| `receivables_chain` | forged, stale or doubled impacts, opportunities and decisions | 2 sessions, a ledger whose document goes from `a` to `b` and back (3 versions), 2 horizons, 3 reviews of which one supports nothing. `Explored` is the union of five explorations: races over ledger and Impact; over one candidate; totals over two horizons; the ledger moving under a priority, one call at a time; races of decisions. Each pair of calls that share a row meets in one of them. |
| `impact_readback` (violation) | does every Impact revision read back | the same |
| `economic_story` | unreadable interpretations, unsupported Stories, unearned transitions | 2 sessions, 4 runs (a condition; half a year with it; the two quarters of that half, absent and worse), 4 kinds of other Fact. `Races`: all interleavings on the first run with one disturbance; `Passage`: one call at a time as runs follow one another in every order |
| `estate` | the sequential engines and registers | see below |
| `evidence` | what kinds of evidence may be relied on, and related | see below |

`estate` explores a sum, not a product: `MCEstate` starts in one of eight parts and moves only
that part, because no step of one engine or register disturbs another's state (what one
hands to another is a constant of the other).  `RUN`: 72 clients (transaction clients with short or long
history, sound or constrained sales, mapped or not, accounts that balance or not, sources
that agree or not; workbook clients with controls that pass or fail and every set of annual
summaries) through trust, 56 tests and hand-off.  `AGENDA`: two runs of one client, 7
signals, 4 context events arriving at any time, agenda of at most 2 items.  `PORTFOLIO`: 3
opportunities in 2 buckets, 2 relations, one envelope key.  `BENEFITS`: 1 action, 2
legs, 2 assessments, 2 relations.  `ISSUES`: one thread over 3 runs.  `TRACKED`: 2 keys, 2
opportunities, 3 legs whose claims exceed the smaller opportunity, equal the greater one, and sum as
SQLite sums them.  `SOURCES`: 2 sources with 3 revisions of 2 contents each, so that a value returns, and 2 classified changes that
name a revision of either source or none.  `BASELINES`: amounts 0, 1, 5 and 2 restatements.  

`evidence` is a sum in the same way, of the five modules of evidence that is owned row by row;
`Explored'` keeps each part to the cases named here.  `RECEIVABLES`: a package, its correction and an empty
one with its zero proof, three readings of the first two of which one competes and is
incomplete, two runs that read.  `MONTHLY`: revenue with a correction and a rival, a contribution restated
and then corrected, two mappings, four component proofs, one doubt at a time about a source, a control,
a chart or a proof.  `CONTEXTS`: one figure from its line to its fact and a line that
restates it, two values, one thing out of order at a time.  `BRIDGES`: a pack with its restatement
or with the next year's, which return in any order, one workbook lost or altered at a time.  `GRAPH`: two callers; Facts on
three signals of which two rest on one file, a Finding that observes two of them, a note of a
director; seven things to say, about one kind of relationship at a time; one row missing or
rewritten, or one object revised; two stored records.  A series has two Facts here where the code asks for four
(`MinObservations`).

A register or a part that has reached its bounds stops, which is why `estate` and `evidence`, and
no other run, say `CHECK_DEADLOCK FALSE`.

Most properties of the runs are conjunctions of named parts, each defined and explained beside the other:

| Property | Its parts |
|---|---|
| `FactsAreLinked`, `FindingsAreGrounded` | observations neither lost nor doubled, links present; Findings begin with a significant Fact, temporal states are earned |
| `UploadsAreSound` | `UndisturbedUploadsOnce` (one receipt for an upload no sign-in came between) and `UploadsAreHonest` (a "received" is committed, a key names one payload) |
| `StoriesAreWarranted` | `StoriesAreEarned`, `LifecycleIsEarned` |
| `RunIsComplete` | `SynthesisIsComplete`, `AnsweredOnce` |
| `AdviceIsTraceable` | `FindingsAreEarned`, `AgendaIsEarned`, `RegisterIsTraceable` |
| `MoneyCountsOnce` | envelopes, pairs, benefits |
| `RegistersReadBack` | `LongitudinalReadsBack` (threads, remaining amounts), `RestatementsReadBack` (revisions, baselines) |
| `EvidenceIsWarranted` | `NeverBothTold` (no period is told both empty and not), `ViewsAreWarranted`, `ReadinessIsWarranted` |
| `MonthIsWarranted` | `OwnersAreRevised`, `MarginsAreWarranted` |
| `ContextsAreFaithful` | `ResolvedIsOriginal`, `OneAuthority` |
| `BridgesAreSound` | `CurrentBridgesAgree`, `CapturedCanBeBridged` |
| `RelationsAreFaithful` | `GraphIsFaithful` in every state but the initial ones, which are many and hold no link: `CurrentMeansApart`, `HistoryIsChain`, `GovernedOnce` |

Bounds are constants or guards: the clock by `MaxClock`, requests of the tab by
`MaxSends`, releases by `LastVersion`, revisions by `MaxRevision` and `MaxVersions`, runs by
`MaxRun`, sessions and logins by the size of `Sessions` and `Bindings`, calls by the set
`Calls`, register rows by the `Max...` constants.  Handlers, database sessions, bindings, payloads, keys and sessions are symmetric where no call
names them; the run that checks liveness uses no symmetry.  Of `evidence` only the callers of `link` are symmetric.

Fairness (`FairSpec`).  The server schedules a handler that can go on (`WF` of `Work`), and
the database grants a lock to its waiters in turn, so a waiter cannot be passed over for
ever by a stream of later holders (`SF` of `Insert`).  `Start` and `Fail` are not fair:
nobody has to send requests, and nothing relies on failures.

## 4. What the violated runs show

- `workspace_closed`: `_open` reads the status before the transaction and nothing rechecks it.
  A receipt or an information request passes it, another handler closes the engagement,
  and the first one commits into a closed review.  The statement is that of
  `docs/V2_57_HYBRID_ADVISER_EXPERIENCE_ARCHITECTURE.md:87`.
- `mutation_retry`: `sessionEnded` clears `mutationKeys`, so an upload whose response was lost,
  repeated after a new sign-in, carries a new key and becomes a second receipt; a refused
  retry (403 after another tab signed in) deletes its key with the same effect.  The statement is that
  of lines 232 and 238 of the same document.  `UndisturbedUploadsOnce`
  is what does hold.
- `impact_readback`: `assess` takes the latest snapshot for its document and asks for the latest
  snapshot again for its source edge (`reasoning/impact/service.py:165`).  A snapshot committed in between
  parts the two, and the stored revision cannot be read again, hence not superseded either.  The
  statement is that of `docs/V2_49_RECEIVABLES_QUALIFICATION.md:58`.

Further disagreements met while modelling, which no run states as a property:

- `diagnostic/engine.py:745-750`: the status `RECONCILED` that trust and hand-off write for a control that passed is
  not among those the governance tests take for a pass, so each passing reconciliation becomes a
  `RECONCILIATION_EXCEPTION` and a governance candidate; `FAILED` is only MEDIUM because `FAIL` is tested.
- `trust/engine.py:230-233`: a cross-source failure constrains the integrity of D07 after the sales tests'
  eligibility was stored FULL (`docs/SPRINT_2_LEVEL1_ACCOUNTING.md:15`).
- The agenda reads the signals again, so suppression and contradiction never reach it
  (`management/attention.py:59`; `docs/SPRINT_5_FD_REASONING_ENGINE.md:5`); persistence counts later runs as prior
  (`reasoning/engine.py:52-59`).
- `register_benefit_claim` writes what is left of the estimate whatever the row's state (`management/longitudinal.py:93-95`): an
  opportunity that went stale, whose remaining value tracking had set to nothing, gets it back with the next claim and stays
  STALE, where `docs/LONGITUDINAL_ADVISORY_V2_30.md:5` says "stale opportunity suppression".  `RemainingIsUnclaimed` says
  what does hold: nothing else gives it value, and never more than is unclaimed.
- Claims are added as binary floats, where `docs/ADR.md:9` says that these must not own accounting values: with 0.70 and 0.10
  claimed under an opportunity of 0.80, the sum is 0.7999999999999999, 1E-16 remains, and the row stays ACTIVE instead of
  EXHAUSTED (`management/longitudinal.py:76-77`, `:92-94`).  `RemainingIsUnclaimed` holds to within those digits.
- An IMPROVING observation reopens a resolved thread without counting it and leaves `closed_at`
  (`management/longitudinal.py:58-60`).
- `classify_period_change` never looks at the affected period (`management/restatement.py:65-70`): it calls a change
  a restatement when the source has any revision but the one named, a later one included, and
  a business change when there is none, even of a revision it does not know.
- RISK-03 and RISK-04 are not asked again after the hand-off of annual summaries (`intake/bridge.py:125`), so a
  dependency that it brings reaches neither.
- Disjoint envelopes do not cap together (`economic/portfolio.py:84` takes the greatest excess, not the sum;
  `docs/OPPORTUNITY_ECONOMICS_OVERLAP_V2_29.md:7`), and a relation across buckets is accepted and then makes
  `portfolio_economics` raise for good.
- A correction verifies an absence, or a monthly owner, although competing originals are registered
  (`absence.py:221-226`, `semantics.py:324-343`), where
  `docs/V2_55_PRODUCTION_EVIDENCE_QUALIFICATION.md:195-196` refuses duplicate unresolved roots.

And behaviour that the properties had to be stated around:

- Canonical: a Finding may begin, or go on, with a verdict on a Fact that was retired after it was judged,
  and retiring a Fact judges no Finding again.
- Production evidence: a blocked absence, and a component proof bound while authority had lapsed, stay refused
  after the authority returns until a new revision; a monthly owner stays current while a registered correction
  of its source is not qualified yet; projections and zero populations are current only for readers of their own
  run; identities of refusals, readiness views and temporal assessments omit the revision, so evidence that
  returns collides with its earlier self; one altered manifest makes every monthly measurement of the client raise.
- Measurements: a superseded context still resolves as current, and supersession may fork.
- Bridges: a pack that returns after another is not registered again (`declared_accounting.py:224`), so it cannot
  be bridged while the other's bridge stays current; a capture that failed after its superseded history makes the
  bridges of the pack before it non-current until it is completed; a later year's pack does so to earlier years; a lost workbook is
  restored by capturing it again, an altered one refuses the pack.
- Graph: a contradiction recorded later leaves a record current, since freshness compares only the ends; and when another
  component links the same ends between a caller's comparison and its savepoint, two links are governed and `link`
  refuses the pair from then on.

## 5. What is proved

For any number of handlers, sessions, keys, calls, engagements, drafts and revisions, from the
assumptions in the modules (`CallsAssumption`: calls have the shapes of the contracts;
`NoneAssumption`: the absent value is no value; `ScopedAssumption`; `LimitsAssumption`;
`ConstantsAssumption`, `ChainAssumption`: the constants have their kinds, and a review captures
at most what is overdue; `TabAssumption`: the absent key is none of the numbers keys are drawn from;
`PortfolioAssumption` and its like: amounts are natural numbers; `LongitudinalAssumption`: finitely many legs, and a
float sum that is monotone and within `Drift` of the exact one; `AgendaAssumption`: signals have the columns of
their table, and an agenda may hold at least as many items as it wants, as in its only call; `PackAssumption`,
`MonthAssumption`, `SlotAssumption`, `EvidenceAssumption`: documents have the fields of their contracts, "NONE" names
none of them, and bounds are natural numbers; `GraphAssumption`: there are finitely many stored rows to derive from,
objects are ordered by rank, and nothing is asked to be linked to itself; `StoryAssumption`: a movement of a point or more is
never insignificant, and the absent value is neither a window nor a hypothesis; `ClientAssumption`: a client's facts are of
their kinds, and from rows of their own the exception and exposure tests draw only recorded exceptions and exposures,
the literals at `diagnostic/engine.py:757` and `:767`; `Level1Assumption`: nobody assesses the eligibility of a
forecasting test, as no caller does):

- `WorkspaceService_proofs`: type correctness and all seven safety properties of
  `workspace_reviews`.  The invariants are not inductive: that the audit is
  a ledger needs to know that a transaction that inserted owns its keys while it is open.
  The inductive invariant has five layers.  `Inv1`: types, and what a handler holds at each
  step.  `LedgerInv`: unique keys have one owner, committed or in flight.  `JustifiedInv`: a
  row about to be inserted satisfies the checks of its operation against the revision it
  read, which committed rows keep true because nothing is deleted.  `HistoryInv`: from
  these, whole histories are chains with one scope and legal transitions.  `ServedInv`: the row
  a handler holds is one its call asks for.  The fifth gives the refinement of `WorkspaceLedger`
  (`HandlersImplementLedger`): histories are `Gapless`, so that the revision a row replaces, which the unique key kept
  free, is the newest one at the commit and not only when it was read (`CommitContinues`); the ledger then serves the
  call at the commit, and a reply quotes an entry of it whether it is the first or a replay (`AnswerReplies`).  The
  ledger promises nothing about an engagement being open, which `workspace_closed` shows.
- `Browser_proofs`, of `OperatorSession`: type correctness and all four safety properties.  The service keeps one start
  and one last activity for whatever session is active; the invariant `OwnTimes` says they are
  always those of the active one.
  Of `MutationKeys`: type correctness and `UploadsAreSound`, for any number of uploads,
  requests and sign-ins.  The invariant gathers every use of a key (in a receipt, on the wire, held by the
  tab): all are of keys that have been drawn, and no key is used for two payloads (`KeysAreDrawn`); a response
  that says "received" is about a committed receipt (`AnswersAreCommitted`); and while no sign-in has come between,
  each payload is used under one key, which the tab holds until it has been told of the receipt (`InPeace`).
  The last is what makes a repetition the same operation, and it is false once the tab was disturbed,
  which `mutation_retry` shows.
- `SetupService_proofs`: type correctness, all safety properties and the refinement.  The key fact is
  `Orderly`: a revision about to be inserted either still follows the latest one of its draft or
  has been overtaken, in which case the unique key refuses it; owning the key at
  `Commit` excludes the second (`CommitFollows`), so a commit replaces exactly the latest
  revision (`CommitLatest`), which is a step of `SetupLifecycle` (`CommitImplements`).
- `CanonicalFindings_proofs`: type correctness, `EnvelopesAgree`, `SupersessionIsChain` and the
  action property `DocumentsOnlyEvolve`, for any number of sessions, Signals and releases.
  None is inductive: what a commit does was decided several steps before it.  The
  invariant `Inv` adds `AllConsistent`, what a transaction knows at each step in terms of the
  committed store (the document it read is the current one or an earlier one; what it will
  write follows it; an heir it inserted is absent from the store), and `LocksHeld`, that no two open
  transactions have written one object.  `Stable` shows that another's commit leaves
  `AllConsistent` true, `CommitStore` that a commit of any of the four forms (a new Fact, a new
  Finding, a next revision, a correction with its heir) keeps the store well-formed.
  `FactsAreLinked` and `FindingsAreGrounded` need a second invariant above the first, `GroundInv`: what a Finding shows
  is of Facts that are committed, each under its digest, which never changes, its temporal state is one its
  observations support, and every link it must have is committed or inserted by the transaction that holds it.
  The refinement of `CanonicalRegister` (`CallsImplementRegister`) needs a third, `IntentInv`: each transaction is
  about to do one operation of the register and nothing beside it (`Meant`), on the document it read, which
  is the committed one from the swap on (`UpdateIntent`).  Other commits keep this, because Facts
  stay and do not change once retired (`Matures`), so that a verdict is always one the Fact has earned (`VerdictStays`);
  that it is earned *now* is false, and the register says so: `Judge` may use the verdict on the Fact before it was retired.
- `Receivables_proofs`, of `ReceivablesChain`: type correctness, `RevisionsAdvance`, `RequestsDecideOnce`, `TotalsAreOwed` and
  the action property `StaleStaysStale`, for any documents, reviews, horizons and bounds.
  The inductive invariant says what a pending insert still knows of the committed tables: the
  revision it follows exists, the source it names was current when read and, if it still is, is
  the latest.  Currentness is content based, so a document that returns is a new version and
  revives nothing.
  Of `ReceivablesEvidence`: type correctness and `EvidenceIsWarranted`, for any packages, definitions and proofs of
  empty populations.  The code decides by the first alternative that holds (`FirstDecides`), and nothing is refused
  exactly when no ground holds (`NothingRefused`).  `EvidenceInv` says of every stored row what was true when it was
  derived and cannot change: an absence is blocked by the gaps of its own package, by missing authority or
  by an unproved empty ledger, and concludes only when nothing blocks it; what a series names is of the package that its
  definition names.  Whether a package counts as empty is a recursion over corrections, shown to be the least set
  closed under them (`Supported`) without induction.
- `Estate_proofs`, for any clients, signals, opportunities, legs, claims, sources and amounts:
  - type correctness of the run, the portfolio, the benefits, the two registers and the agenda, and hence `EstateTypeOK`;
  - `RunIsComplete`.  The 56 tests are one fixed list, and what is used of it is that a test is in one place of it
    (`TestsApart`, from the family and the position of each), that places follow one another without a gap (`AskedInOrder`) and
    that whatever a synthesis reads is not asked beside or after it (`ReadEarlier`).  The invariant `RunInv` says
    that what has been answered is exactly what lies before the next place, that a synthesis cites all that its
    sources hold *now*, not only when it was asked (`Complete`, kept by `Unread`: the later tests of
    a run draw no forensic or dependency signal), that no two answers are of one test, and that what an answer records of its
    eligibility is what is stored (`Recorded`).  A hand-off writes under places after all others, so that what it
    deletes and what it adds cannot be mistaken for each other;
  - `MoneyCountsOnce`: an envelope caps what its members add up to, a related pair is deducted once from the
    portfolio and from the benefits.  Sums and greatest elements are over sets of any finite size.  Induction on a
    formula cannot be cited here, but a well-founded order has a minimal element in every non-empty set, so
    that a sum is natural, splits at any subset and grows with its set is shown by a smallest counterexample
    (`SumSplits`, `SumMonotone`).  Beyond the types the invariant says which rows a table can have: an
    envelope holds opportunities of its own run and bucket, a symmetric relationship joins a pair once;
  - `BenefitsAreEarned`: what a leg claims is the latest verdict of its assessments, at any length of
    their history;
  - `RegistersReadBack`: threads count their sightings and reopenings; a tracked opportunity has left its latest
    estimate less all that was claimed, within the drift of the float sum and never less than nothing, a stale one only
    after a claim; a change is called a
    restatement only over another revision of its source, and a business change never of a later revision; a baseline is what its
    moves lead to.  `LongitudinalInv` says that the remaining value is exactly that of the float sum (`RemainingIsRead`), from which the
    drift follows, and `ClaimsRevive` that only claims bring a stale row back; `RestatementInv` adds that an event names a revision that is there or none (`EventsName`), so that a revision
    registered later is not one that was called a business change before;
  - `AdviceIsTraceable`.  What later steps of one run need of earlier ones is `AgendaRows`: a version has a
    bundle, a finding and a signal that nothing suppressed, a row of the economics has a version behind its amount, and
    a run that has not come as far has written nothing.  Other runs and new context may come between any two
    steps of a run.  That an agenda leaves out nothing weightier is shown from the sort alone, for any
    of the orders it may leave among equals.  The proof needs the limits in the order `AgendaAssumption` states:
    with more items wanted than allowed, an agenda would be as long as its themes.
- `Evidence_proofs`, for any documents, rows and bounds:
  - bridges: type correctness and `BridgesAreSound`.  A bridge is current only while the pack it used is the last
    recorded of its ledger, and the arithmetic of a pack gives the three components with their residual
    (`BridgedFields`); `BridgeInv` adds that revisions were recorded in order and
    that the predecessors of a bridge are a chain of its own family;
  - monthly figures: type correctness and `MonthIsWarranted`.  `MonthInv` says that owners of a series follow one another as
    their packages correct one another (`Revised`), so an owner that verifies again has the one root its package has;
  - measurements: type correctness and `ContextsAreFaithful`.  `MeasurementInv` says that a binding is of the row its context
    was captured for, that an owner has one binding for a row, and that a context supersedes an earlier one of the same
    family and period.  Following a fact to its line is a recursion, shown to reach only the least set of
    bindings closed under parents (`Reached`);
  - the graph: type correctness and `GraphIsFaithful`, hence `RelationsAreFaithful`.  The walk over ancestors
    returns all of them (`WalkReaches`), by the least and greatest elements of the sets of steps; what an end rests on depends
    on its revision only, so a record that compares equal rests on the files read first (`SameBase`).
    `GraphInv` counts: each link has as many events as records, revisions are the first
    numbers, and a link under way adds the next one; a link adopted from another component keeps its records,
    because `Downgrade` finds no call under way.
- `EconomicStory_proofs`: type correctness, `HypothesesReadBack` and `StoriesAreWarranted`, for any runs, windows, kinds of
  evidence and sessions.  A call reads, decides, and writes in later steps; `Inv` says what of its reading still
  holds when it writes (`AssessOk`, `GatherOk`, `WriteOk`) while observations, retirements and rivals' writes come between;
  the comparison of the digest and the unique key refuse the rest.

Only model-checked: liveness (`HandlersFinish`; with `ENABLED` it is outside the prover's reach).  Every other property of
the passing runs is a theorem.  The type invariants are theorems too and are not among the properties
of the runs.

## 6. Not modelled, and why

`create_client` (one insert guarded by a primary key), the tenant grants, read-only views and
pagination, the origin and loopback checks, rendering and navigation in the tab, field
formats.  Power loss inside `put` (`workspace/storage.py:46`) has no module: `Put` is one durable step, and
what could be lost is the file system's affair between a rename and the next directory sync.
`governance.py` and `output_spec.py` render what is stored.
`portfolio_expected_value` has no caller.  Parsing and validation of workbooks, ingestion and the
primitive calculations are decimal arithmetic and formats over one file, with no state beyond a call.
Migrations, CLI, demos and the qualification scripts under `src/scripts` call the
components above in sequence.

Of the modules that are there: the steps by which two calls of production evidence, measurement or bridges
could interleave, and files damaged behind production evidence; the temporal assessments, their admission and an owner
that is an impact of trapped cash; the contribution bridge, which follows the revenue bridge, and the
earlier qualification contract of `bridge/qualification.py` and `source.py`, which stores nothing; the listings
`neighbours`, `nodes` and `history` of the graph; aggregates of declared overlaps between impacts; Finding sources
of a priority and the holding view.  The dataset catalogue and the temporal engine classify bounded windows of
decimals and have no module.

## 7. What could follow

1. Temporal sequences over dataset comparability; the exact bridge decomposition against a reference definition.
2. The aggregate of overlapping impacts, and Finding sources of a priority.
3. Several canonical calls in one transaction.
4. An abstract specification of the receivables chain: what may be decided, in one step, on evidence that is current.
