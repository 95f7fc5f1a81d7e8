# PropIQ: specifications, model checking and proofs

PropIQ is a platform for underwriting UK property deals: a FastAPI backend with one async
SQLAlchemy session per request over PostgreSQL, a pure calculation engine, a seed script for
versioned tax configuration, and a React frontend. This directory holds TLA+ modules translated
from the source under `src/`, the TLC configurations that check them on small instances, and
theorems that TLAPS proves for every instance. The documents under `src/docs/` are used only to
state what the code is said to do; where the code differs, the difference is a finding below.

Contents: 1 inventory, 2 plan, 3 modules and their code, 4 runs, 5 bounds, 6 fairness,
7 findings, 8 proofs, 9 what is not modelled.

## 1. Inventory

### Components, their state and operations

| Component | State | Operations | Interacts with |
|---|---|---|---|
| **Deals** (`domain/entities/deal.py`, `deal_service.py`, `deal_repository.py`) | a `deals` row: status DRAFT, ANALYSED, OFFER_SUBMITTED, PURCHASED, HELD, EXITED or ARCHIVED, the working inputs, `latest_snapshot_id` | create, update inputs, advance status, archive; each loads the row, changes the entity in memory, overwrites the whole row | properties and profiles on creation; the pipeline moves its status and pointer |
| **Calculation pipeline** (`calculation_service.py`) | none between requests | `run_calculation`, `recalculate_with_current_assumptions`, `reproduce_original` | reads deal and configuration, calls the engine, writes through snapshots and audit |
| **Snapshots** (`snapshot_service.py`, `snapshot_repository.py`) | six tables of immutable rows; only `is_superseded` changes | save with deal pointer, save a reproduction, mark superseded, list, load | deal row, audit row, same transaction |
| **Audit trail** (`audit_service.py`, `audit_repository.py`) | `calculation_audit_events`, append-only | SUCCESS with the snapshot; failures in a session of their own | pipeline |
| **Request scope** (`api/dependencies.py`, routes, error handlers) | one `AsyncSession` per request | resolve user, run handler, commit or roll back, answer | everything |
| **User provisioning** (`user_service.py`, `user_repository.py`) | `users`, unique on the identity of the token | get-or-create on every request, committed before the handler | owner of everything |
| **Properties** (`property_service.py`, `property_repository.py`) | `properties`: tenure, lease, details, `is_archived` | create, update, archive | deals refer to them |
| **Configuration versions** (`seed_configuration.py`, `configuration_service.py`) | append-only tables: SDLT versions with bands, corporation tax, assumptions, engine versions | seed on each instance start; load by date; load by id | pipeline, reproduction |
| **Engine** (`engine/`) | none: pure functions, with a loop over twelve payments and one over the stamp duty bands | validation V-01..V-25, formulas f01..f22, individual and company tax, risk flags, rounding | called by the pipeline, with a first run on the request's body and later runs on what the rows kept of it |
| **Snapshot tables** (`db/models/snapshot.py`) | NUMERIC columns of bounded width and scale, CHECK constraints | round what is inserted, refuse a row | refuse what the engine has computed |
| **Pagination** (`repositories/pagination.py`) | cursors held by clients | keyset walks of deals, properties, snapshots and audit events | rows that other requests write between two pages |
| Investor profiles, value objects, schemas, authentication, logging, frontend | see section 9 | | |

### What is hard here

* **Lost updates.** Sessions run at READ COMMITTED, no `FOR UPDATE`, no version column: every
  update writes a copy of the whole row that was read some awaits earlier
  (`deal_repository.py:90`, `property_repository.py:70`). Two requests on a row can undo each
  other's archive, status or pointer.
* **Several statements, one commit, or several commits.** A successful calculation is a snapshot,
  a deal row and an audit event in one transaction, then the supersession of the predecessor in
  a second one, after a reload for the answer. Failures and crashes fall between any two awaits.
* **A value read before the pipeline, used after it**: `previous_snapshot_id`, the archived check.
* **First logins** of one identity overlap; the loser's INSERT does nothing and it goes on with an
  id that is in no table.
* **Instances seed concurrently** (`railway.toml` runs the script at each start), while
  calculations read three tables in three statements.
* **Reproduction** must see what the original saw although configuration has moved on.
* **Waiting**: row locks and uncommitted unique keys make requests and seed scripts wait for each
  other.
* **Numbers**: marginal relief and band boundaries; denominators that no rule keeps away from
  zero; a decimal context of ten digits whose `quantize` raises; figures that the engine accepts
  and a column refuses; flags, rules and CHECKs that draw the same line with different arithmetic.
* **The order of defaults and rules**: rules about blank fields run after blanks are filled.
* **A list that moves while it is walked**: deals are paged by `updated_at`, which every write
  sets, and sets to a time taken before the row's lock.

### What makes each component correct

* Deals: one-way lifecycle when a writer is not overtaken; status and pointer always agree; the
  pointer names a committed analysis of that very deal.
* Snapshots and audit: a snapshot is durable exactly when its SUCCESS event is; a superseded
  snapshot has a newer successor; answers tell the truth about the database; reproductions
  have the inputs and configuration of their source.
* Users, properties, deals: one user per identity, owners always stored, a deal on its owner's
  property, archived properties stay archived unless a writer was overtaken.
* Configuration: one version per date wherever the schema or the order of the script guarantees
  it, re-runs add nothing, scripts never deadlock, reads bracketed in time, reproductions stable.
* Engine and rows: every pound taxed once, payments split into interest and capital, displayed
  figures add up, more profit leaves more, flags agree with warnings but for a rounding, a failure has a cause in the
  inputs, a reproduction is the snapshot again.
* Lists: a row nobody touches is on exactly one page, and the walk ends.
* Everywhere: every request that was received is answered.

`PROJECT.json` lists the hazards line by line with the properties that cover each.

## 2. Plan

Written, in this order:

1. `DealEntity`: the `Deal` entity's methods as operators, shared by 2 and 3.
2. `DealWorkspace`: deals, pipeline, snapshots, audit and request scope composed, one action per
   stretch between awaits. `DealRecord`: the abstract specification, one atomic row, that
   `DealWorkspace` implements when requests do not overlap.
3. `DealWorkspace_proofs`, `DealHistory_proofs` (snapshots, their order, their events, the answers
   about them; then requests one at a time and the refinement).
4. `Portfolio` and `Portfolio_proofs`: users, properties, creation of deals.
5. `ConfigurationVersions` and `ConfigurationVersions_proofs`: seed scripts and readers.
6. The engine: `Formulas` (f01..f22), `Tax`, `Validation`, `RiskFlags`, modules of pure operators;
   `SnapshotRow`, what the columns keep and refuse; `Analysis`, which composes them into the path
   of one request from body to row and back. `Analysis_proofs`, `AnalysisSize_proofs` (how large
   figures get, why the engine fails), `AnalysisResults_proofs` (what the loops compute, why a row
   is refused, what a reproduction repeats).
7. `Pagination` and `Pagination_proofs`.

Left:

8. The bands table on its own: what a release that changes the bands of a stored version does to it.

## 3. Modules and their code

In `DealWorkspace`, `Portfolio` and `ConfigurationVersions` every action is a stretch of a
coroutine between two awaits: nothing else runs in the process meanwhile, and other requests (of this or another instance) may run at
the await. `pc` names the await. A SELECT sees committed rows. An UPDATE takes the row's lock
until its transaction ends; it waits if another holds it. Closing a session rolls back. `Abort`
is an exception, a lost connection, or the death of an instance, at any await. Requests are used
once and their names double as the uuid4 ids they create.

**DealEntity** is `deal.py` plus `_merge_input_update`: `apply_snapshot_created`,
`advance_status` with its `transitions`, `archive`, and `merge_input_update`, where an absent
field is `Unset`. The eighteen working inputs become a set `Fields`; which are set is all that
matters (`RequiredFields` is what a recalculation insists on, `ProfileFields` what creation
copies from a profile).

**DealWorkspace.** `update_working_inputs`, `advance_deal_status`, `archive_deal` load the row
and change the copy; `WriteDeal` is `DealRepository.update` (all columns, from the copy);
`CommitEdit` the route's commit. `run_calculation` and `recalculate` load; `ReloadDeal` is the
second load of a recalculation's inner call; `RunEngine` reads configuration and takes any
outcome of the engine; a failure goes to `WriteFailure` (own session, errors swallowed); a
success to `PublishDeal`, the snapshot INSERT, pointer UPDATE and event INSERT, then
`CommitAnalysis`, `LoadSummary` or `LoadSummaryThenSupersede`, `MarkSuperseded`.
`reproduce_original`, `InsertReproduction`, `CommitReproduction`, `ReportReproduction` are the
reproduction. `ActivateConfig` stands for a newer configuration coming into force. History
variables `version` and `seen` (the row version a copy was read at) tell overtaken writers from
fresh ones and correspond to nothing in the code.

**DealRecord** is what one user working alone is promised: each request is one atomic, legal
change of one row. `DealWorkspace!Record` instantiates it with `deals` and the stored analyses;
its `Spec` is a PROPERTY of run `deals_serial`.

**Portfolio.** `Login` is `find_by_supabase_auth_id`; `InsertUser` the INSERT ... ON CONFLICT DO
NOTHING, which waits while another open transaction has inserted the same key and then does
nothing if that one commits; `CommitUser` the commit in `get_current_user`, before the handler.
`create_property`, `update_property`, `archive_property`, `create_deal` work on the id the login
returned; the INSERTs obey the foreign keys, `WriteProperty` writes all columns.

**ConfigurationVersions.** A run of the seed script is one transaction: engine version, SDLT
(SELECT, then INSERT without ON CONFLICT), corporation tax, assumptions, commit. Inserts on unique
keys wait for open transactions that hold the key. `Read` is one of the three reads of
`load_for_calculation` (latest in force on the date the client names) or of
`load_specific_versions` (by id, for a reproduction). Which releases exist is a constant. Releases
are assumed to agree on the bands of a date: `seed_sdlt_bands` would add a new release's extra
bands to a version stored earlier.

**Formulas, Tax, Validation, RiskFlags** carry the names of the code: `f01_gross_annual_rent` to
`f22_icr_percent`, `calculate_individual_tax`, `calculate_limited_company_tax`, `run_validation`,
`evaluate_flags`. A rule or a flag is a field of a record whose value is the condition under which
it fires; the rules are grouped as the file groups them (`PurchaseErrors`, `SettingErrors`,
`PurchaseWarnings`, `CostWarnings`), and so are the flags. Money is an integer number of
units, the last digit of the ten the decimal context keeps, and every money result is rounded to it
once (`Quot`), products included: V-07 and V-08 compare the deposit with a rounded share of the price. The loan
to value is the rounded ratio, in `Parts` of one; so the rules and the leverage flags, which draw the
same lines through the product and through the ratio, can disagree in the model where they do in the
code. The other percentages the engine computes are exact fractions until they are written. An
interest rate is a whole number of steps, `RateScale` to the percent. Zero denominators give
what the code gives: 0 for yields and returns, blank for the coverage ratio. A fraction with a
negative denominator is normalised, so that comparisons with thresholds mean what they mean in
Python.

**SnapshotRow** has three layers: `Rounded` is the engine's `_r` (pennies, half up) and `TooLarge`
when it raises; `InputsRow` is `_build_inputs_row` and the scale of the columns; `InputsChecks`,
`OutputsChecks`, `IntermediatesChecks` are the CHECK constraints and `Overflows` the widths, whose
union of failures is `Refusals`.

**Analysis** is a state machine with one actor. `resolve_defaults` fills blanks and records where
each value came from; `Validate` is step 0; `Finance` steps 1 to 3 up to the loop of F-08, whose
turns are `RepayMonth`, and `FinanceFails` the division by zero of the annuity at a rate
that disappears in `1 + r` (`Vanishes`), which ends as an engine error; `TaxBand` is one turn of the loop of F-13; `Calculate` is the rest of
`_calculate`, ending in a result or in an engine error; `Save` inserts the rows or is refused;
`Reproduce(k)` rebuilds the engine input from stored row `k`, after which the run goes through
the same steps. The annuity's power is the one number the model does not compute: `Finance` takes
any payment within bounds, and the same one again for the same loan. Below, the payment covers the first month's
interest, except that at rates whose power over the term has more than nine digits before the point the
ten digits of numerator and denominator may take off, or add, what `AnnuityError` says (twenty parts in
10^10 of the payment, and one unit of rounding); `rate * term` of 1,800 years' percent is what it takes at least.
Above, it is that interest plus twice an equal share of the loan: the exact annuity adds at most one such share, and
the smallest rates lose up to a third of themselves in `1 + r`. The bounds were taken from the
arithmetic of `formulas.py:205-214` and compared with Python's `decimal` at ten digits on 300,000 random
loans, rates and terms, none of which lies outside.

**Pagination** is one client walking a list of rows (`properties` by `created_at`, or `deals` by
`updated_at`; `list` says which) while `Writers` insert and change rows. `StampWrite` is
`datetime.now(UTC)`, read before the UPDATE is sent; `CommitWrite` makes the row visible with that
time, so that a request which waited for a row's lock can set its time back. A page is `CountRows`,
the `COUNT(*)`, and `ListRows`, the SELECT with its WHERE clause (`AfterCursor`), ORDER BY and
LIMIT. The routes take no cursor today (section 7): the walk is of what the repositories offer.

## 4. Runs

| Run | Question | Outcome |
|---|---|---|
| `deals_concurrent` | Four requests, three in flight, on one deal: is anything but a lost update possible? | Status and pointer always agree, superseded snapshots have newer successors, answers are true; every illegal change comes from an overtaken copy; a fresh writer's pointer is the newest |
| `deals_two_users` | Two users, two deals, configuration changing at any time | Pointers, events and reproductions stay with their own deal and owner |
| `deals_serial` | Requests one at a time, with failures and crashes | They implement `DealRecord`; the current snapshot is never marked superseded |
| `deals_answered` | Three requests contending for a lock, fair service | Each is answered, whoever aborts holding the lock |
| `portfolio` | Three requests of two identities from an empty database | One user per identity, owners stored, deals on own properties, fresh changes legal, all answered |
| `configuration` | Three seed runs of three releases, two calculations or reproductions | Unique versions, guarded SDLT versions, bracketed reads, stable reproductions, no deadlock, idempotence |
| `analysis` | Some 850 request bodies: an ordinary purchase with any two settings moved to or across a boundary, and repayment mortgages; each from body to row, and reproduced | Duty, tax, instalments and displayed figures reconcile; flags and warnings agree but for the rounding of their two lines; what the tables or the decimal context refuse has a cause among the inputs; a reproduction is the snapshot again |
| `pages` | A walk over three rows, two to a page, with two writers at any point | Untouched rows once each, no row twice unless its time was set back, and the walk ends |
| `archived_revived`, `older_not_superseded`, `login_twice`, `sdlt_version_twice` | Four statements of the documents or docstrings | Violated; section 7 |

Each property of a passing run has a mutant: a plausible bug written beside the definition it
replaces, with which TLC finds that property violated under the same configuration.

## 5. Bounds, and why they are enough

* *Requests and `MaxInFlight`.* A lost update takes two requests; undoing a supersession or
  confusing two predecessors takes two overlapping analyses and one before them; hence three in
  flight and a fourth that comes before, between or after (`deals_concurrent`). First logins: two
  that overlap and one that comes later or waits third. Seeding: two runs that race and one
  release already committed, or three that race.
* *Deals and users.* Two of each is enough to mix them up; contention needs one.
* *Fields and values.* The entity treats all inputs alike but for required and profile fields:
  one field of each kind where it matters, one value plus `Unset`.
* *Details* of a property: two values, so that an edit can be told from its loss.
* *`MaxConfig = 2`* configurations and *`MaxDay = 2`* days: before and after a change.
* *Releases*: a first one, one that changes rates under the same engine version, one with a new
  engine version; the second is what makes a duplicate SDLT version possible.
* Symmetry over requests, and over seed runs, is used only in runs without liveness; identities
  of requests are never ordered.

* *Numbers of `analysis`.* A unit is £10, so that seeded bands and thresholds keep their places and
  products stay within 32 bits. The scales are in the order of the real ones rather than equal to
  them: a money column keeps twice as much as a penny (`Grain = 2`, `Cent = 4`), a figure of
  `Limit = 10^7` units (£100m, the real limit) is too large for the context, a percentage of
  `PercentLimit = 10^4` too wide for its column. Rounding then happens in all three places with
  values a few units apart. An interest rate counts in quarter percents (`RateScale = 4`), its column keeps
  whole percents (`RateGrain = 4`) and a ratio four digits (`Parts = 10^4`): ratio, rate and column stand to each
  other as in the code, where they keep ten digits and six decimals, so that rates of a quarter percent
  vanish in the annuity, do not fit their column and are warned about, as 10^-7 % is. The other entered percentages are whole.
* *Settings.* Prices lie on and next to band boundaries, below and above the warnings and at the
  limit; deposits at 14, 15, 20, 25, 99.5 and 100 per cent, prices among them
  of which a quarter or 15% is not a whole number of units, so that a deposit lies between the product and
  the ratio on either side; rates that vanish, low, ordinary, high, and so high that the payment falls short of
  the interest or the loop overshoots; costs at zero and below zero; each rule,
  flag and CHECK has a body on each side of its line, save those that no body reaches: V-21 and V-22 (`DeadRules`), V-14 (the enumeration has no third member), and the CHECKs that the rules imply. Two settings at once are what it
  takes to make a denominator vanish or two guards disagree. `Probes` are profits around
  both thresholds of corporation tax, against which the profits reached are compared.
* *`Copies = 2`*: a row and its reproduction; a reproduction of a reproduction reads a row like any
  other, and `ReproductionsEqual` covers any number.
* *`pages`.* Three rows of which two fit on a page give a page that is followed and one that is
  not; two writers are needed for one to overtake the other; three moments allow equal times and a
  time set back. `listed` counts to 2, which means "oftener than once".

The proofs below need none of these bounds; `CurrentIsCurrent` and `SerialRefinement` are about
`MaxInFlight = 1`.

## 6. Fairness

`FairSpec` asks weak fairness of `Serve(r)` for each request: asyncio resumes a coroutine whose
await is over, and PostgreSQL wakes a waiter whose lock is free. It does not ask that users send
requests (`Receive`, `Login` are not fair) nor that anything aborts. A request that waits for a
lock has `Serve` disabled until the holder's transaction ends; the holder itself is served, so
weak fairness is enough in these instances: a finite number of requests compete, each takes a lock
once. No claim is made for an endless stream of competitors.

`Pagination` asks weak fairness of `CountRows` and `ListRows`: the client asks for the next page as
long as there is one. Nothing is asked of the writers, who write as often as there are requests.

## 7. Findings

* **Archived deals come back** (`archived_revived`). A PATCH, an advance or a calculation that
  loaded a deal before an archive committed overwrites status with its copy
  (`deal_repository.py:90`), against `DOMAIN_MODEL_ARCHITECTURE.md:364` and I-19. The theorem
  `FreshWrites` says that this is the only way: the writer was overtaken.
* **Calculations do not supersede** (`older_not_superseded`). Only the recalculation endpoint marks
  the predecessor; after two calculations the history shows two current snapshots, against
  `SCHEMA_ARCHITECTURE.md:319`.
* **Two first logins, two users** (`login_twice`). The one that lost keeps an id in no table, so
  what it creates fails on the foreign key, against the docstring of `get_or_create_user`. The
  damage ends there: `ResolvedHasUser` and `OwnersAreStored` are theorems.
* **Two SDLT versions of one date** (`sdlt_version_twice`). The table has no unique key and the
  script selects before it inserts; documents and the script's docstring say otherwise. With two
  versions of a date, which one a calculation uses is up to the query plan.
The others have no run of their own:

* An edit that overlaps a calculation **moves `latest_snapshot_id` back**
  (`deal_repository.py:96` against `PERSISTENCE_ARCHITECTURE.md:1072`), and an update of a
  property **unarchives** it (`property_repository.py:78` against `AUTHORIZATION_MODEL.md:482`).
  Both are the same lost update as the first finding.
* **A zero rate is no cash purchase.** The message of V-10, `ENGINE_CONTRACTS.md:377` and a comment
  in the orchestrator say that a rate of zero skips the mortgage. Only its payment and interest are
  zero; the loan, its stressed interest, the coverage ratio and the leverage flags stay.
* **V-21 and V-22 cannot fire** (`DeadRules`): blank leasehold charges become 0 first, so a lease is
  analysed as free of charges.
* **Two lines through one deposit.** V-07 and V-08 compare it with `price * 0.15` and `price * 0.25` rounded to
  ten digits, the leverage flags compare the rounded ratio with 75 and 85. A price of 45,000,000.01 with a deposit of 11,250,000.00 is
  flagged at 75.00000001 without the warning; one of 70,000,000.03 with 10,500,000.00, less than 15%, passes V-07
  and raises `HIGH_LEVERAGE_EXTREME`. `LeverageCoherent` and `DeadRules` say how near to the line this takes: half
  a unit of deposit, or half a last digit of the ratio.
* **Inputs that pass the rules and are refused by the tables** (`RefusalsExplained` lists them all):
  a company with a personal tax band, a cost below zero, a percentage too wide for NUMERIC(10, 6) such
  as the coverage ratio of a deposit of 99.5%, a year's interest below zero (next). The client gets
  a 500 and there is no audit event; by `EveryRefusalExplained` there are no others.
* **The F-08 loop can overshoot, and the debt can grow.** The comment at `formulas.py:308` says that stopping after twelve
  months is exact. All figures are kept to ten significant digits, and each month
  multiplies the error of the balance by one plus the monthly rate: for a loan of 1,728,745 over 18 years at 8,945% the year's interest
  comes out as -15,257,507.70. V-10 admits any rate above zero; the CHECK on the tax
  credit refuses the row. In the other direction, a loan of 150,000 over 5 years at 6,000% pays 749,999.9999 a month against a first
  interest of 750,000: after twelve payments the balance is 193,535.65, and more interest is deducted from the profit than was
  paid. At a rate V-12 does not warn about neither can happen (`OvershootWarned`, `SplitsHold`). `InterestOvershot` names the first case, which
  `Section24NeverCheaper` exempts, `PaymentShort` the second.
* **A repayment rate that is not zero and counts as zero**: at 0.0000006% and below `1 + r` rounds to 1 and the annuity divides
  by zero. Only V-11 warns; the analysis ends as `CALCULATION_ERROR` (`Indivisible` in `ErrorsAreSize`).
* **Ten digits**: `quantize` raises at £100,000,000, where V-03 only warns (`ErrorsAreSize`). Only five
  other kinds of input can end so (`EngineFailsOnSize`): the vanishing rate just named, an interest rate that V-12 warns about, a
  letting fee or a maintenance reserve that V-20 or V-24 warns about, one of these two below zero, and a rent
  or a cost in the millions.
* **F-18's docstring** says the cash deployed is positive after validation; legal costs below
  zero make it zero or negative.
* **`void_rate_decimal_applied`** is rounded to two places before a column of ten.
* **`Rate`** documents a check for negative values that its constructor does not make.
* **The deal list is not stable** against `pagination.py:8`: an edited deal moves above the cursor
  and is skipped, one whose time was set back is listed twice. `ListedOnce` holds because it exempts
  just these rows.
* **Lists cannot be walked**: the routes drop `next_cursor`, so nothing beyond 20 rows is reachable.
* **CASH_FLOW_PRE_TAX_ONLY** is HIGH in the code and MEDIUM in `CALCULATION_SPEC.md:1087`.

## 8. Proofs

All theorems hold for any sets of deals, users, requests, identities, releases, fields, values,
rows and request bodies, any tariff and tax configuration the assumptions admit, and any bounds
but for the hypotheses three of them name: `MaxInFlight = 1` for `CurrentIsCurrent` and
`SerialRefinement`, rates of VAT and stress of at most 100% for `EngineFailsOnSize`. They assume
only the `ASSUME`s of the modules besides, which TLC evaluates on every run.
Each is of the form: an inductive invariant `I` with `Init => I` and
`I /\ [Next]_vars => I'`, one step per action, then the property from `I`.

**DealWorkspace_proofs.** `TypeCorrect` needs what a request's memory holds at each await
(`RequestWellFormed`: a copy, a snapshot built, a predecessor). `StatusFollowsPointer` needs that
the *copies in memory* are coherent too (`CoherentInv`): a stale copy may overwrite a newer
row, but a row and its pointer travel together. `PointerTarget` needs that a copy's pointer is a
stored analysis of its deal, or the one about to be stored by the same commit (`PointerInv`).
`FreshWrites` needs `LockInv` (a row's lock is held by exactly the request between UPDATE and
commit) and `FreshInv` (a copy whose `seen` equals the row's `version` was made from that very
row by one entity method). `LockInv` also gives what the liveness of `EveryRequestAnswered` rests on:
who waits for a row's lock waits for a request that is about to commit and does not wait itself
(`NoCircleOfWaiters`), and every step that serves a request takes it down a rank of at most seven
awaits that nothing raises (`RequestsAdvance`). What remains for fairness is that a request which can
go on does.

**DealHistory_proofs.** Each theorem follows a snapshot from the moment it is built in memory.
`ClockInv`: one that has been built is dated in the past, so one dated later is newer.
`OriginInv`: a snapshot about to be stored is of the deal and user of its request, and that of a
reproduction repeats a stored one and is younger (`ReproductionsRepeat`). `AuditInv`: events are written by
requests past their transaction only, so none is written twice or for a snapshot that is not
stored (`SnapshotsAudited`). `AnswerInv`: only a request past its commit can answer with a snapshot
(`ClientsToldTheTruth`). `SuccessorInv`: the predecessor a recalculation remembers is a stored one of its
deal, older than its own (`SupersededOnlyByNewer`). `NewestInv`, over `FreshInv` and the fact that
storing an analysis bumps the version (`AnalysisBumps`): a request whose copy is current is about
to store the newest analysis, hence the action property `FreshPointerIsNewest` (`FreshPointers`).

Its last section is what one user alone in one tab can rely on: both theorems assume
`MaxInFlight = 1`, as the run `deals_serial` does, and a crash may still come after any commit.
`AloneInv`: at most one request is in flight and its copy is current until it
commits. Then the pointer always names the newest analysis (`PointerNewest`), so it never names a
superseded one (`CurrentIsCurrent`). `SerialRefinement` proves `ImplementsRecord` step by step: the
commit of an edit is the same entity method on the record (`EditRefines`), the commit of an analysis
is its `Analyse` (`AnalysisRefines`), every other step leaves the record alone (`OthersStutter`).
Without the hypothesis it is false, as the first two findings show.

**Portfolio_proofs.** `LoginInv`: an uncommitted users row is the first of its identity and its
inserter is about to commit; a request about to commit nothing was overtaken by one that has
committed; a handler's id is its own or a stored one. From it `OneUser` and `HandlersHaveUser`.
`PropertyInv`: what a request is about to write is a legal change of what it read, rows keep their
owner and locks identify the writer. From both `StoredOwners`, `OwnProperty`, `FreshChanges`.
`StoredLoginsAgree` bounds the finding about first logins: of two requests that act as different users
for one identity, one is an overtaken first login whose id is in no table. `NoCircleOfWaiters` and
`RequestsAdvance` are the same two facts as for deals, here over two kinds of waiting, for an open
first login and for a row's lock.

**ConfigurationVersions_proofs.** `SeedInv`: open and committed rows carry their run's keys and no
two runs hold one unique key (`KeyInv`); a run past a table holds its key or has found it
committed (`Covered`); once a run that registered its engine version commits, no other run
of that engine holds its SDLT key (`SdltInv`, the heart of `GuardedSdlt`: the others
waited on the engine row, so their SELECT comes after the commit); re-runs hold nothing
(`RerunInv`). `ReadInv` relates what was read to what was active at the start. `NoDeadlock` is a
descent over the order of the tables, from the last one backwards.

**Analysis_proofs.** `AnalysisInv` says of each stage what the earlier ones established: an engine
input is well typed and past `Validate` obeys the hard rules (`InputInv`); within the F-08 loop
fewer than twelve payments have been made and loan, balance, interest and payments balance
(`LoopInv`); within the F-13 loop the bands gone through cover the price up to the next one
(`BandInv`); the figures are those of `Calculated` on these (`FiguresInv`); a stored row holds
only such inputs (`RowsInv`). From it `TypeCorrect`, `PoundsTaxedOnce` (with `BandsAssumption`:
the bands leave no gap) and `FiguresReconcile` (lemmas on `Quot` and `RoundPenny` bound
the error of a rounding by half a penny). `SplitsHold`: the conservation is part of `LoopInv`; if the payment
covers the first interest, the balance never rises, so interest never exceeds it; and a payment can be short
only where `AnnuityError` is positive, a rate that over at most 35 years is above the 10% of V-12 (`LongPowerWarned`).
`FlagsAgree` and `DeadRulesStayDead` bound what a rounded product (`HalfUpOfProduct`) and a rounded ratio (`PartsNearest`,
by long division) can each hide on either side of a line (`LeverageLine`, `DepositLine`). `ProfitIsWorthMaking` shows by
cases on the two thresholds that the tax is monotone and rises by at most the profit;
it needs `CorporationTaxAssumption` (no marginal rate above 100%) and `ReliefMeetsSmallRate`
(the relief curve starts where the small rate ends), which the seeded rates satisfy and a future
configuration need not. `Section24CostsMore` shows by cases on the bands
that the tax on profit before interest less the credit is no smaller than the tax on profit;
`Section24NeverCheaper` leaves out `InterestOvershot` because there the credit is negative (section 7).
`OriginInv` adds that every row came from the one request, hence `ReproductionsShareInputs`.

**AnalysisSize_proofs.** How large the engine's numbers get, for every request body. At a rate V-12 does not
warn about, a month's interest is at most a tenth of the debt over twelve (`MonthlyBound`), the digits of the
power are enough (`LowIsShort`) and a payment is at most the first month's interest plus two equal shares of the loan,
together a twenty-fourth of it but for roundings (`PaymentBound`). So after any number of the twelve
payments the balance is still not below zero by more than the roundings (`PaidInv`), and no month's
interest is negative: `OvershootWarned`. `InSize` says that an input is one the rules did not warn
about (`NoWarning`) with rent and costs below a thirtieth of the limit. From it a bound for each
figure in turn (`InSizeRent`, `InSizeLoan`, `InSizeDuty`, `InSizeTax`, with `TaxShare`: a tax is a
share of its profit), added up in `InSizeFigures`: every figure in pounds is within nine tenths of the limit, and a
rounding to the penny does not reach it (`WithinRounded`). So an engine error means
a vanishing rate, always one V-11 has warned about (`VanishingWarned`), or an input out of size (`ErrorInv`); conversely a price at the limit always raises, unless legal and refurbishment
costs below zero take it off again (`PriceTooLarge`). Both are `EngineFailsOnSize`. It needs that duty rates are at
most 100% (`DutyRateAssumption`, the CHECKs at `db/models/configuration.py:85` and `:126`), that the limit
is a whole number of pennies far above one and ten times the price of V-03 (`SizeAssumption`, true
of ten digits), and, as hypotheses, that VAT and stress rate are at most 100%: seeded as 20 and
5.5, they are only checked to be non-negative.

**AnalysisResults_proofs.** What the two loops compute for every input is a matter of induction. The
induction theorems of the library take a predicate as a parameter, which the back ends cannot
instantiate, so the module proves its own for a *set* (`SetInduction`: a finite set has no injection
into itself that misses a member) and from it that a start and a function of steps define
a function on the naturals (`Recursion`). With them:

* `DutyInv`: the duty so far is the tariff's up to the band reached, the tariff being the recursive
  function of `TariffTax`. From it `DutyIsTariff`.
* `OutcomeInv`: a refused analysis has a reason in `Refusals`. `InputsPass` and `FiguresPass` show
  that an input and its figures pass each CHECK and column unless one of the causes
  `RefusalsExplained` names holds, hence `EveryRefusalExplained`; a year's interest below zero is such
  a cause only together with V-12, by the bounds of `AnalysisSize_proofs`.
* `LedgerInv`: balance and interest are those of the ledger that loan and payment determine, month by
  month. So a row is a function of the request and the payment (`RepeatInv`: the payment is the one
  value the model chooses), hence `ReproductionsEqual`.

`NoneAssumption` says that the value standing for an absent field is no number.

**Pagination_proofs.** `WalkInv`: a row not yet overtaken that was listed is not behind the cursor
again (`NotAgain`); an untouched row that was not listed is still ahead of it (`StillAhead`); an
untouched row matches the filter as it did (`StillMatches`); without touches, count and list agree
(`CountHolds`). `WalksListOnce` is the invariant at the last page. `CursorDescends`: a page ends the walk
or moves the cursor strictly down, by time and then by id, whatever is written meanwhile; times and
ids are natural numbers, so there are finitely many pages, and `WalkEnds` needs no more than a
client that keeps asking.

Only model-checked: `EveryRequestAnswered` and `WalkEnds`. Liveness needs fairness and ENABLED, out of
the reach of the installed back ends; `NoCircleOfWaiters`, `RequestsAdvance` and `CursorDescends` are the part of it that is not.

## 9. Not modelled

* `DealWorkspace` leaves the engine's outcome free, so what it shows does not depend on the engine;
  `Analysis` takes one request without interleavings, so what it shows does not depend on them.
* Of the engine: V-15 and V-16 (they compare with an enumeration of one member), the value of the annuity's
  power (a rational to the power 12n), digits below the unit, entered percentages with a fraction,
  a computed percentage so large that `quantize` raises on it (the model has its column refuse it,
  as it does smaller ones), the width of `lease_years_remaining`, messages and explanations. A figure is
  rounded to the unit once where the code rounds each of a few operations to ten digits, and half up where the context rounds half
  to even; how many decimals ten digits leave depends on the size of a figure, the unit does not.
* The breakdown of the duty as JSON, the sources as JSON: rows of the model hold them as values.
* Pages of snapshots and audit events: keyset by a time that never changes, like the properties.
* Investor profiles: nothing writes them; creation reads one, which is in the initial states.
* Token verification, request ids, logging, settings, CORS: I/O without domain state.
* API schemas, value objects, migrations: copies and declarations. The constraints of the ORM
  classes appear where they bite: CHECKs and widths of the snapshot tables in `SnapshotRow`, unique
  and foreign keys and enums in the other modules as assumptions or guards.
* The frontend: its calls are the requests, sent in any order by any number of tabs.
* `UserRepository.update`, admin writes of configuration: no caller or not implemented.
* PostgreSQL itself: modelled as external, from how the code uses it (READ COMMITTED, row locks,
  ON CONFLICT, foreign keys). Its deadlock detector is not needed by deals and properties, whose
  transactions update one row each, nor by the seed script (`NoDeadlock`).
