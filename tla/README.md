# GovScout: a TLA+ verification development

GovScout finds FCA-authorised firms, gathers evidence about them, and prepares
outreach as Gmail *drafts* that a person reviews and sends. Its state is one
SQLite file, shared by several processes: gunicorn workers of the web console,
command-line invocations, and a queue worker that a systemd timer starts. The
hard part of the program is what these processes may do between each other's
transactions, and what is left behind when one of them, a network request or
the answer to one is lost.

The modules here are translated from the source under `src/src/govscout/` and
`src/src/govscout_collector/` (the desktop application that uploads FCA
records). Each SQL transaction is one step, each network request is one step, and
everything else may happen in between.

## 1. Inventory

| Component | State it keeps | Operations | Interacts with |
|---|---|---|---|
| Outreach ledger (`sendguard.py`, migrations 001-004) | `sends` rows: reserved, draft, sent, void; `app_state.warmup_started_at` | `reserve`, `note_reservation_error`, `finalise_draft`, `mark_sent`, `void_draft` | draft service; readiness runs inside `reserve` |
| Draft service and Gmail client (`draft_service.py`, `gmail_drafts.py`) | none of its own; the mailbox is Gmail's | `create_review_draft`, `_resume_existing`, `undo_draft` | ledger, Gmail |
| FCA processing queue (`processing_queue.py`, `processing.py`, migrations 011, 012) | `fca_processing_jobs`, `fca_reprocessing_jobs`, an advisory file lock | claim, lease recovery, `process_firm`, `_record_outcome` | everything below |
| Company verification (`fca_pipeline.py`) | `company_verification_attempts`, leads | `verify_firm`, `verify_and_promote_firm` | Companies House |
| Enrichment (`enrichment.py`) | `enrichment_runs`, `evidence_items` | `run_enrichment` | the firm's website |
| Quality control and review (`quality.py`) | `qc_runs`, `qc_reviews` | `run_qc`, `qc_is_current`, `review_firm`, `is_outreach_ready` | queue, ledger |
| Website research and candidates (`website_research.py`, `website_candidates.py`, migrations 014, 015) | append-only website events, discovery runs, reprocessing jobs | assert, withdraw, confirm and enqueue, automatic confirmation | queue, operators |
| Contact evidence (`contact_research.py`) | append-only contact events | record | readiness |
| Archive (`research.py`, migration 013) | append-only archive events | archive, restore | queue, readiness |
| FCA records and imports (`fca_discovery.py`, `collector_imports.py`, migrations 008, 009) | `fca_firms`, `fca_observations`, `collector_imports` | ingest, accept or reject an import, enqueue history | queue |
| Collector outbox (`govscout_collector/core.py`, `app.py`) | `batches` rows, pending or uploaded, in a SQLite file on the desktop | `stage`, `retry_pending` | the import endpoint, over a network that loses answers |
| Accounts, devices, login throttle (`auth.py`) | `login_throttle`, `collector_devices` | authenticate, admit, reserve an attempt, finalise, revoke | web console, import endpoint |
| Web console and import endpoint (`web/app.py`) | sessions; `collector_imports` rows | routes over the operations above; `collector_import` | all |
| Source retirement (`retirement.py`) | `candidates` rows of a retired source, `retirement_events` | back up, compare the backup, delete | none |
| Migrations (`db.py`) | `schema_migrations` | `migrate` | every process at start-up |
| Transports, command line, configuration, deployment | none | | |

What makes each correct, and where it is hard:

* **Ledger and drafts.** No UK day exceeds its warm-up limit under concurrent
  reservations; one ledger row never gets two Gmail drafts although requests
  time out, answers are lost or late, and calls are retried; a draft that exists
  is counted; history is never rewritten. Hard: the steps between the
  reservation, Gmail and the ledger update; instants read before waiting.
* **Queue.** A worker that finishes finds its claim still its own; a job that is
  done stays done; a passing
  outcome rests on evidence current in that very transaction; a firm that is
  archived is not worked on; every job ends. Hard: worker death, leases, source
  records and operators changing the evidence in the minutes a scan takes.
* **Verification, enrichment, website research.** What was read before the
  network request is compared again before anything is stored.
* **Review and readiness.** A review counts for the quality control it was given
  for, never for a later one, and not after a restore from archive.
* **Collector.** A batch has one verdict, whatever is lost, and leaves the outbox
  only with that verdict; a firm shows the latest accepted observation; a batch
  that is refused holds up no other. Hard: answers that are lost while the server
  goes on, revocation and limits between two transactions of one request.
* **Throttle and devices.** Concurrent attempts never
  exceed the limit, and a lock ends.
* **Migrations and retirement.** Each is one transaction; what must hold is that
  it is applied once and on the data it was checked against.

`PROJECT.json` lists the components with their status and, under `hazards`, the
lines at which each of these can go wrong.

## 2. Plan

Done, in the order of importance: the ledger (3.1), the queue (3.2), the collector
(3.3), the review of firms (3.4), the login throttle (3.5) and website research
(3.6), each with its proofs, and the contracts of the ledger, the queue and the collector
with the refinements proved. The modules meet in what each leaves free: an
accepted import of the collector is an `Import` of the queue and of website
research, a job or an event of website research a job or an event of the queue,
and a verdict of `FirmReview` what the reserve transaction of the ledger asks for.

Nothing is left of this plan; section 7 gives the reason for each part that is left out.

## 3. What is modelled

### 3.1 `SendLedger`: ledger, draft service, Gmail

State: `ledger` is the `sends` table, one row for each (lead, sequence, stage)
key, with the state, the request's content, `created_at`, `drafted_at`,
`gmail_draft_id` and whether a failure was noted; `warmup` the instant the
warm-up started; `mailbox` and `ledgerOf` what Gmail holds and the ledger id in
each draft's Message-ID; `inflight` the create requests whose caller gave up but
on which Gmail may still act; `call` the program counter and local variables of
each process; `clock` the wall clock. What the validator inside the reserve
transaction finds is left open: `ReserveNew` and `ReserveRefused` are both
possible, and `FirmReview` says when a firm is ready.

`create_review_draft` is `StartDraft` (the instant is read *before* the
transaction), one of `ReserveNew`, `ReserveExisting`, `ReserveRefused` (one
immediate transaction), one of `CreateDraft`, `CreateAnswerLost`, `CreateRaises`
(the request), and `FinaliseDraft` or `NoteReservationError`.
A retry goes through `ResumeExisting`, `FindByLedgerId` and `FindGivesUp`, an
undo through `StartUndo`, `UndoReadsRow`, `DeleteDraft` or `DeleteRaises`, and
`VoidDraft`. `MarkSent` stands for `mark_sent`, which asks nobody whether the draft
was sent and which no production caller uses at this commit. `Crash` stops a process at any step. Gmail, its late answers and
the person who owns the mailbox are external.

`DraftContract` says what the ledger promises for one key: capacity is taken
before its one draft exists and given back only when the draft is gone.
`SendLedgerContract` maps the detailed state onto it.

The production policy (`policy.py`) refuses every draft at this commit; the
module describes the service with a policy that may pass, as its tests do.

### 3.2 `ProcessingQueue`: jobs, worker, evidence

State: `job` holds the rows of both job tables, keyed by firm and source record
or by firm and input hash, as their UNIQUE constraints do; `source` is the
firm's present record, `accepted` the ones accepted imports carried; `attempt`,
`website`, `scan` the latest receipt, website event and complete enrichment run;
`input` the input hash queued for the present event and receipt; `archived`
the latest archive event; `lock` the advisory lock; `worker` what each
process remembers of the job it claimed.

The worker: `Start` (lock), `Claim` (lease recovery, order, claim: one
transaction), `Check`, `Verify` and `CommitVerification` (before and after the
Companies House request), `Search`, `AutoConfirm` or `AutoConfirmRaises`,
`Enrich` and `CommitScan` (before and after the website's scan), `RunQc`,
`Classify`, `Record` (one transaction, then the next round or the end), and
`Die` at any of them. Beside it: `Import`, `Ingest`, `EnqueueHistory`,
`Archive`, `Reverify`, `AssertWebsite`, `WithdrawWebsite`,
`RequestReprocessing`, `ConfirmWebsite`, `OperatorScan`, `OperatorQc`, `Tick`. A
firm in the archive receives no website event.

How the data is abstracted:

* Time is relative: a pending row counts down to `available_at`, a running one
  up from `claimed_at`. The 30, 14 and 7 days after which receipts, scans and
  quality control age outlast the behaviours looked at.
* A worker that compares rows it read earlier with the ones there now carries
  `touched` (the firm's row was written, or the latest scan or quality control
  was replaced) and `superseded` (a receipt was added). They are set only in
  the steps that will compare, so states that cannot differ are not told apart.
* `Verify` may ask Companies House for a firm that is verified: the code does so when
  the receipt is older than the reuse age, or newer than the instant the job was
  claimed at. Receipts carry no instant here, so the later steps, which only refuse
  such a receipt, take it for a current one.
* The claim token is the attempt count: each claim of a row has another one.
* `TRANSIENT`, `REFUSED` and `EVIDENCE_CHANGED` stand for the outcome codes that
  are retried, the final refusals (`PROCESSING_ERROR` among them), and the two
  codes `COMPANIES_HOUSE_VERIFICATION_CHANGED` and `WEBSITE_EVIDENCE_CHANGED`.
* `Check` joins two adjacent reads. Rows overdue by more than `Horizon`, and rows
  equal in due time and table, may be claimed in any order; the code takes the
  one due first, then the lowest id.
* Input hashes are opaque and used once: a new event or receipt has an id no
  earlier input contains.
* Left out: the duplicate checks between firms and lead promotion, which are in
  `FirmReview` (to a worker a promotion writes the firm's row as a repeated
  import does), the forms operators' events come from, which are in
  `WebsiteResearch`, and the quality control run on the failure path, which
  writes a row nobody reads back before the next run.

`QueueContract` says what the queue promises for a job, without firms, evidence,
leases or a lock: one worker works on one job at a time, a job is taken back only
when nobody works on it, it is claimed at most `MAX_JOB_ATTEMPTS` times, and one
that is done stays done. `ImplementsQueue` maps each row's state and attempts, and
the job each worker remembers, onto it. A claim is its `TakeBack` or, with the rows
recovered in the same transaction, its `Claim`; recording an outcome is its
`Finish`; dying, or the exception of the automatic confirmation, its `Leave`.

### 3.3 `CollectorDelivery`: outbox, network, import endpoint

State: `outbox` is the desktop's `batches` table, an import id each, drawn in the
order of `staged_at`; `app` what the upload run of each open window remembers;
`network` the requests on their way; `handler` the request each server process
works on and how far it is; `device` whether a credential is revoked and how many
requests its window has admitted; `import` the `collector_imports` rows; `firm`
the source and `last_seen_at` of each `fca_firms` row; `queued` which import
queued a firm's source; `linked` the firms a promotion has linked to a lead, whose
records may not change any more; `clock` the server's clock.

The collector: `Stage` (one transaction, with pruning and limits),
`RetryPending` (reads the pending batches once, after staging or when asked),
`Upload`, and `Record`, if the batch is still pending. `RequestLost`, `GiveUp`
and `AppDies` end an upload without an answer; the server may still take up or
go on with a request nobody waits for. The endpoint: `Accept`, `Admit` (first
transaction: credential, rate limit), `Store` (second: credential again, known
import, cap, insert), `ReadClock` and `Ingest` (the time is read, then one
transaction waits for the lock and processes the import, or finds it processed),
`Reply`, and `HandlerDies` at any of them. Beside them `Revoke`, `WindowEnds`,
`Link` and `Tick`. An import with another record for a linked firm meets a trigger
(`006_fca_pipeline.sql:279`): the whole transaction is rolled back, the import stays
pending, the collector gets a 500 and retries the batch in every run.

`DeliveryContract` says what both promise for a batch: one verdict, and the
collector lets go of it only with that verdict. `ImplementsDelivery` maps the
outbox and the import table onto it.

Abstractions: payloads give some firms a source; the sizes of payloads and the
header and content checks of the endpoint, which answer 415 or 422 and change
nothing, are left out, since the collector only sends what it has parsed. The
rate-limit window ends, and uploaded batches pass their retention, at any time.
The server's clock does not go back. Requests on their way that are alike in
everything count as one.

### 3.4 `FirmReview`: quality control, promotion, review, readiness

State: `firm` is each firm's record and how often it was observed; `receipt`,
`event`, `scan` its latest receipt, website event and enrichment run; `lead` the
company of the lead it is linked to; `archives` the number of archive events;
`passed` the inputs of the quality controls that passed; `review` the latest
review; `call` what each `verify_and_promote_firm` remembers. `approved` is a
history variable: the rows there were when the approval was stored.

`Passes` is `_evaluate_current`, with the comparisons between firms; `Input` what
`_qc_input_hash` covers, so equal inputs are equal hashes; `IsOutreachReady` what
the ledger asks. `RunQc`, `Approve` (with a quality control from a page made at any
time) and `Reject` are the operator's; `StartPromotion`, `VerifyForPromotion` and
`CommitPromotion` the steps of a promotion around the Companies House request;
`Observe`, `Verify`, `RecordEvent`, `Scan` and `Archive` what replaces the evidence.

Ages of receipts, scans and quality controls only refuse and are left out. A website
asserted after the scan changes no readiness: the hash covers an event only when
the latest scan was made for it. The record of a linked firm cannot change
(`MayBecome`), which is also what aborts imports in 3.3.

### 3.5 `LoginThrottle`: attempts, failures, locks

State: `throttle` the row of `login_throttle`; `expires` the reservations that are
open; `login` where each gunicorn worker is in its login and the instant it took
before it waited; `writer` who holds SQLite's write lock; and two history variables:
`wrong`, the wrong passwords verified at each instant since a success, and `longest`,
how long the slowest login has lasted so far.

`Convert` is one round of `_convert_expired_reservations`; `Refuse`, `Admit`
(`reserve_attempt`), `FinalizeFailure`, `FinalizeConverted`, `IsBlocked` and
`FinalizeSuccess` the transactions of a login; `Kill` ends a worker at any step and
leaves its reservation behind; `Tick` waits for requests that have lasted as long as
gunicorn's timeout. The scrypt check of a password is a free choice.

### 3.6 `WebsiteResearch`: searches, candidates, evidence, jobs

State, for one firm, since firms share nothing here: `source`, `archived` and
`receipts` as above, with every receipt; `searches` with their candidates; `events`,
a history of website events and one of contact events; `jobs` the inputs of the
reprocessing jobs; `call` what each caller remembers. The callers are the server's
processes, one request each, and the queue worker.

`Discover` is `discover_website_candidates` up to the provider's request,
`StoreSearch` its transaction after the answer. An operator's form may come from any
earlier page (`Submit`, `ConfirmCandidate`); `RecordEvidence` and `Confirm` are the
transactions that record it, `RequestReprocessing` the one that queues a job. The
worker takes its instant before it verifies the firm (`TakeJob`), reuses or makes a
search and may confirm a candidate, expecting no earlier event. `GiveUp` stands for
a request that is refused, fails or is cut off. `Import`, `ArchiveOrRestore` and
`Reverify` change the firm in between.

What only refuses is left out: the ages and instants of receipts and events, that
a firm is inactive or has no company number, and that a record came with an accepted
import. What refuses a late answer is stated twice in the code, by the transaction
and by the trigger of migration 015; the model has it once. URLs have passed their checks; what a
contact event says is abstracted, its place in the history is not. A candidate is
loaded before the transaction that confirms it, so the record or the receipt may be
replaced in between: the event is then recorded for the new record. Nothing says
otherwise, so no property does.

## 4. Runs

All instances are small on purpose: the interesting behaviour needs two
processes, two rows or sources, and one change at each awkward moment.

| Run | Shows | Bounds |
|---|---|---|
| `SendLedgerRace` | capacity, one draft per row, live drafts counted, rows name their own draft, history is never rewritten, `DraftContract` is implemented | two processes, two keys, two contents, two Gmail drafts, two days with limits one and two: the second reservation of a day is refused on the first and granted on the second, a retry may ask for other content, and a call can carry its instant over midnight |
| `SendLedgerUndo` | *violated*: a voided row's message was deleted | one process, one row |
| `QueueSources` | no pass on evidence of another source; row types and the table's CHECK | two sources of one firm, one worker, two attempts |
| `QueueWebsites` | claims are held, archived firms idle, no pass on stale evidence, `QueueContract` is implemented | a firm without website, two inputs, two workers that may die, lease of one tick, two attempts |
| `QueueSettles` | every job ends (liveness) | both tables, worker death at any step, two jobs an invocation |
| `QueueReruns` | *violated*: reruns of one record fail no job | one source |
| `QueueAutoConfirm` | *violated*: a running job has its worker when nothing is killed | two inputs, three attempts |
| `CollectorDelivery` | one verdict per batch, records of accepted imports only and by the latest observation, no import after revocation, the outbox's and the device's limits | three batches of which two share a firm, two credentials, two server processes, one window, two pending and two retained batches, one import per device, one request per credential's hour, one failure, clock 0 to 1: an abandoned request overlaps its own retry and the next batch, with an older time |
| `CollectorRetries` | every pending batch is delivered (liveness) | two batches, a firm that may be linked to a lead, two credentials that may be revoked, one failure, one import per device |
| `LoginThrottle` | attempts and failures together keep to the limit, a failure converted late never breaks the table's CHECK on lock and window, guesses per span of a window, locks are kept | two workers, three tokens, a lock at the second failure, window three, lockout four, requests of up to three ticks, clock 0 to 7: a reservation left behind expires, is converted and counts in a later window, and a failure recorded late starts its window in the past |
| `FirmReview` | ready firms are as approved, differ from each other and match their leads; promotions on verified firms; only a review gives readiness | two firms, four records that share a website, share a company, give no website or are inactive, two promotions, four rows: enough for receipt, scan, quality control, promotion and approval of one firm and one change after it, or an overlap of two |
| `WebsiteResearch` | searches per day, late answers, outdated forms, jobs of one record, whole confirmations | one operator's request and the worker, two records, two websites, one search a day, four rows, clock 0 to 1 |

Two drafts are enough for `OneDraftPerRow` to fail on one row, two attempts
reach both "may retry" and "exhausted", and a lease of one tick lets a slow
worker outlive it. `MaxTime` bounds the ledger's clock; the queue needs no clock
bound. `MaxImports` bounds the
ids, `MaxFaults` what may fail, `MaxTime` the clocks, `MaxRows` the rows that are
only ever appended. With one window the collector's run leaves out two windows that
stage at once; the proofs of 6 hold for any number. With four rows the firms of
`FirmReview` come to share a website that is on both records; one on record and one
asserted takes a fifth row and more time than a run has, and two ready firms of one
company are kept apart twice, by quality control and by the `UNIQUE` number of their
leads. `ReadyFirmsAreDifferent` proves those cases. Jobs are few in every instance, so
no run could show one overtaken for ever: that takes newer jobs without end, which the
order by `available_at` puts behind it. Deadlock is not
checked for the collector, which may stop (outbox empty, ids and faults used,
credentials revoked), for `FirmReview` (rows used up, both firms in the archive) and
for `LoginThrottle` (the clock at its bound). It is checked in the other runs, where
the clock, operators or a person can always act or the worker can always start, so
the check only says that nothing wedges the model.

Symmetry: processes, keys, contents and draft ids in the ledger; workers and
inputs in `QueueWebsites`; server processes and credentials in
`CollectorDelivery`; workers and tokens in `LoginThrottle`; firms and promotions in
`FirmReview`; operators, records and websites in `WebsiteResearch`. None of them is
ordered or named by the specification, and
the liveness runs use no symmetry.

**Fairness** (`FairSpec`). For `EveryJobSettles`: `WF(Tick)`: time passes.
`WF(Start)`: the timer starts the service again 60 s after it ended
(`govscout-processing.timer`). `WF(Work(w))`: every network request has a
timeout, so a worker that is not killed goes on. `SF(Claim(w))`: a worker may be
killed before it claims any number of times, but some invocation lives long
enough to reach the claim, which is its first statement. Nothing is assumed of
operators or imports, nor that a claimed job is ever finished by the worker that
claimed it: `Die` may follow every claim, and the attempt limit ends the job.

For `PendingBatchesSettle`: `WF(Collector(a))` and `WF(Server(h))`, since an
upload has a timeout of 30 s and a handler waits for nothing but the database's
lock; `WF(WindowEnds(d))`, an hour passes; `SF(RetryPending)` with each
credential, which is the operator's part ("Retry pending uploads"): the property
says what retrying achieves, not that anybody retries. The rate limit of a run is
at least the number of its batches; with 12 requests an hour and 25 pending
batches, 12 refused ones at the front would use up each run's admissions
(`auth.py:250`). The property excepts a batch whose import is stored for a
credential since revoked, which the endpoint refuses under any other (409), a batch
that changes the record of a linked firm, which is aborted each time (3.3), and the
case that no credential may store another import.

## 5. Where the code disagrees with what is said of it

* **Undo of a sent draft** (`SendLedgerUndo`). `README.md:21` says undo deletes
  the Gmail draft before voiding. `gmail_drafts.py:90` takes a 404 for success;
  a draft a person has sent answers 404 too, so its row is voided and its
  capacity is free again although the message went out.
* **Repeated records** (`QueueReruns`). `README.md:72` says exact reruns are
  idempotent. A rerun writes `last_seen_at` (`fca_discovery.py:276`); the job
  being worked on at that moment fails for good, with `VERIFICATION_FAILED` or
  `FCA_IDENTITY_CHANGED`, and the same source is not queued again.
* **Automatic confirmation** (`QueueAutoConfirm`). The comment in
  `processing.py:52` says the job may still end `WEBSITE_MISSING`. For a firm
  that has any earlier website event the confirmation raises
  `WebsiteResearchConflict`, which nothing catches
  (`website_candidates.py:238`, `processing_queue.py:432`): the run ends, the
  job stays running until its lease expires, and the next claim does the same.

Three more things the models show, which no text of the repository contradicts, so no
run expects them. A changed record of a linked firm aborts the import it comes with,
although `README.md:73` says changed records append an observation (of firms in
general). And the limit of 20 searches a day is counted before the provider is asked
(`website_candidates.py:304`), so requests under way together can exceed it by one
less than the callers there are; `SearchesPerDay` states that bound. And a login takes
its instant before it waits for a reservation or a password check, and a failure
recorded late starts the next throttle window at that earlier instant
(`auth.py:326`), so that window is over sooner: with a limit of four, a request that
lasts two of the window's three ticks lets eight wrong passwords be verified within
three ticks, one more than what is left of one window and a full second one.
`GuessesPerWindow` therefore takes the longest login so far off the span.

## 6. What is proved

`SendLedgerProofs` proves, for every value of the constants that satisfies the
named assumptions of `SendLedger` (a finite set of keys, numbers that are
naturals, `None` distinct from everything else), and so for any number of
processes, keys, drafts and instants: `TypeCorrect`, `Capacity`, `OneDraft`,
`DraftsCounted`, `OwnDraft` and `History`.

They follow from one inductive invariant, `IInv`:

* `CapacityRespected` alone is not inductive. `WarmupStartsWithTheLedger` is
  needed for the first reservation, which starts the warm-up: before it no row
  exists, afterwards the limits of every day are fixed.
* `OneDraftPerRow` and `LiveDraftsAreCounted` support each other through
  `CallsAgree`: a process about to ask Gmail for a draft (`MayCreate`) is the only
  one for its row, the row is reserved, no draft exists for it and no request is
  in flight; a process that remembers a draft id (`HasDraft`) remembers one Gmail
  made for its row, and one about to void has seen it leave the drafts.
* `RowsAreWellFormed` and `DraftsHaveRows` tie the columns of a row and the
  mailbox to the row's state.

`Invariance` combines one lemma per action. `History` uses the invariant for the
one case where a step's guard is not enough: a row that is finalised has no
draft yet.

`ProcessingQueueProofs` proves `QueueTypes`, `Held`, `Idle` and `Passes` for any
sets of firms, sources, inputs and workers, any lease, retry delays, attempt
limit and jobs per invocation, from the named assumptions of `ProcessingQueue`:
records without a website or of ineligible firms are records, the numbers are
naturals (lease, attempts and limit positive), and `None`, which stands for
SQL's NULL, is none of the values it stands in for.

* `ClaimsInv` is inductive and gives the first three. `ClaimsAreHeld` alone is
  not: that no claim steals a running job past its lease needs
  `LockIsExclusive`, and that a worker with a job is past its claim, and records
  a code, needs `WorkersAgree`. `ArchivedFirmIsIdle` holds because archiving and
  claiming each look at what the other wrote.
* The steps fall into few kinds: what other writers do leaves the rows' states
  alone and only marks the workers (`Harmless`, lemma `WorldHarmless`); a worker
  between claim and recording goes on with its job or leaves it (`Proceeds`,
  lemma `WorkProceeds`); starting, claiming, recording and dying have a lemma
  each.
* `Passes` needs `EvidenceInv`. `run_qc` and `qc_is_current` look at the latest
  scan, not at the website behind it: that a scan without a reprocessing job read
  a website on record (`ScansAreSourced`) rests on the comparison in
  `run_enrichment`'s commit (`ScannedSiteExists`), and that a scan of a confirmed
  website is of the firm's present record on its job's row.

`ProcessingQueueContractProofs` proves `QueueImplemented`: every step of
`ProcessingQueue` is a step of `QueueContract` or a stutter. `ClaimsInv` supplies what
the contract asks: at a claim nobody else has a job (`LockIsExclusive`), so every row
the lease recovery takes back is abandoned, and a worker that records finds its claim.
The lemmas follow the kinds of steps above. `JobsRunOut` draws the consequence: a
weight falls with every change of a job's state or attempts, so a job changes at most
`2 * MaxAttempts + 1` times, whoever is killed. That a job which can change does so
is the other half of `EveryJobSettles`, and needs fairness.

`SendLedgerContractProofs` proves `ContractImplemented`: every step of `SendLedger`
is a step of `DraftContract` for each key, or a stutter. Its lemmas take the
actions apart by what they do to the contract: hold capacity, post the draft, remove
it, release the capacity; the invariant of `SendLedgerProofs` supplies that a row
being finalised or voided is in the state the contract expects. `StagesGoOnce` reads
the contract stage by stage: free, reserved, drafted, draft gone, capacity given back,
one at a time and never again.

`CollectorDeliveryProofs` proves `TypeCorrect`, `Limits`, `Records`, `Revocation`,
`Implements` and `BatchesDelivered` for any number of windows, server processes,
credentials, firms and batches. The refinement needs to know that the answer a window is about to record is
the server's verdict on that very batch (`RunsAgree`), which rests on a window
waiting for one request, wherever that is (`CallersWait`), and on a handler's result
being the state of its import (`HandlersAgree`); `BatchesAgree` and `ImportsAreWhole`
tie outbox and import table together. `BatchesDelivered` adds what the contract leaves
out, the payload: each request, wherever it is, carries the batch staged under its id
(`CarriedAsStaged`), so the endpoint's refusal of a known id with another payload never
meets this collector; and a verdict, once given, stands.

`LoginThrottleProofs` proves `TypeCorrect`, `AttemptsLimited`, `LockFollowsWindow`
and `LocksAreKept` from `TypeOK`, `LimitHolds`, `CheckHolds` and two parts on the
instants of rows and logins (`Instants`, `Fresh`), assuming that a request lasts no
longer than the window and less than the lockout, as the deployment has it.

`GuessesLimited` adds the parts that count (`RateInv`). No guess is attributed to the
row it became part of; instants tell rows apart. A wrong password verified is at once a
reservation or a failure (`Pending`), so the guesses from the start of the present row
are at most its failures and what is reserved (`ThisRow`), and those from any instant
are at most that and one earlier row's (`TwoRows`), unless the span has been outlasted.
A new row counts from one: then the old one is over, and nothing reserved in its time
can still be verified within the span (`OverRow`, `NoFuture`, `QuietAfterExpiry`); a
locked row is followed by a silence (`QuietWhileLocked`). Each needs that a login is
no slower than `longest`, so they hold while `longest` is less than the window and
the lockout; a slower one leaves no span to speak of.

`FirmReviewProofs` proves `TypeCorrect`, `ReadyFirmsAreApproved`,
`ReadyFirmsAreDifferent`, `LinksMatch`, `LeadsAreVerified` and
`OnlyReviewsGiveReadiness` for any firms, records and operators. Beside
`LinkedFirmsMatch` its invariant says what a promotion remembers (`CallsHold`), that
ids and archive counts only grow past those an approval names (`ApprovalsAge`), and
that an approval's inputs are those of the rows stored with it (`ApprovalsKept`).

`WebsiteResearchProofs` proves `TypeCorrect`, `SearchLimit`, `SearchOrder`,
`PagesAnswered`, `JobsSound` and `ConfirmationsWhole` for any operators, records and
limits. `SearchesPerDay` is not inductive: `SearchesBounded` counts, for each day, the
searches stored and those under way together. Storing one moves it from the second to
the first; asking adds one when fewer than the limit are stored and at most every
caller has asked. `CallsAgree` says that a search is made for a receipt that was a
success for its record, and that a form that confirms asserts a website.

Only model-checked: the contrary runs of section 5, and liveness (`EveryJobSettles`,
`PendingBatchesSettle`), which is beyond the prover. Every invariant and every action
property of the other runs is proved.

## 7. Not modelled

What `PROJECT.json` lists as not modelled, with its reason: URL and HTML
parsing, scoring, templates, configuration and rendering are functions of their
input without state; the transports and the deploy scripts are the environment.
Migrations run at start-up in one immediate transaction that skips what is applied and
refuses what was applied with other text (`db.py:85`), so a second process waits and
finds nothing to do. Retirement deletes the legacy `candidates` rows in one transaction
that compares every table's row count with the backup's again (`retirement.py:183`).
What is written in between without changing a count goes unnoticed, but only
`candidates` rows are deleted and no code at this commit writes those.
