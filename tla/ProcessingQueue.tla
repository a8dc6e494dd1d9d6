--------------------------- MODULE ProcessingQueue ---------------------------
(***************************************************************************)
(* The FCA processing queue: the two job tables, the worker that claims a  *)
(* job, verifies the firm, scans its website, runs quality control and     *)
(* records the outcome, and everything else that touches the same rows     *)
(* meanwhile: collector imports, operators, other commands, the clock and  *)
(* the death of the worker.                                                *)
(*                                                                         *)
(* Every SQL transaction is one step; reads, network requests and the      *)
(* transactions after them are separate steps.  Time is kept relative to   *)
(* the present: a pending row counts down to available_at, a running row   *)
(* counts up from claimed_at, so no clock bounds the behaviours.           *)
(***************************************************************************)
EXTENDS Integers, FiniteSets

CONSTANTS
  Firms,
  Sources,        \* source_record_hash values an FCA record may have
  NoSite,         \* those whose record carries no website
  Ineligible,     \* those of inactive firms or without a company number
  Inputs,         \* input_hash values of reprocessing jobs
  Workers,        \* processes that run process-fca-queue
  None,
  MaxAttempts,    \* MAX_JOB_ATTEMPTS
  Lease,          \* JOB_LEASE, in ticks
  FirstDelay, SecondDelay,    \* _RETRY_DELAYS, in ticks
  Limit,          \* jobs one invocation may claim
  Horizon,        \* bound on how long overdue a row is told apart
  CanDie          \* may a worker die between two steps

ASSUME SourcesAssumption == NoSite \subseteq Sources /\ Ineligible \subseteq Sources

ASSUME NumbersAssumption ==
  /\ MaxAttempts \in Nat \ {0} /\ Lease \in Nat \ {0} /\ Limit \in Nat \ {0}
  /\ FirstDelay \in Nat /\ SecondDelay \in Nat /\ Horizon \in Nat
  /\ CanDie \in BOOLEAN

ASSUME NoneAssumption == None \notin Sources \cup Inputs \cup Workers

VARIABLES
  source,     \* fca_firms.source_record_hash
  accepted,   \* sources of the firm found in accepted collector imports
  archived,   \* is the latest archive event of the firm an 'archive'
  attempt,    \* the latest company verification attempt
  website,    \* the latest website evidence event
  input,      \* the input hash queued for the latest event and attempt
  scan,       \* the latest enrichment run, when it is complete, and the
              \* reprocessing job whose website it scanned
  job,        \* fca_processing_jobs and fca_reprocessing_jobs
  lock,       \* the holder of the advisory lock on the database's lock file
  worker      \* what each worker remembers

vars == <<source, accepted, archived, attempt, website, input, scan, job, lock,
          worker>>

-----------------------------------------------------------------------------
(* Rows *)

FcaJobs == {"fca"} \X Firms \X Sources
ReJobs == {"re"} \X Firms \X Inputs
Jobs == FcaJobs \cup ReJobs

FirmOf(j) == j[2]

SourceOf(j) == IF j \in FcaJobs THEN j[3] ELSE job[j].source

FcaJob(f) == <<"fca", f, source[f]>>

TransientCodes == {"TRANSIENT"}        \* stands for _TRANSIENT_CODES
PassCodes == {"QC_PASS", "QC_FAIL"}
FailureCodes == {"REFUSED", "VERIFICATION_FAILED", "WEBSITE_MISSING",
                 "FCA_IDENTITY_CHANGED", "EVIDENCE_CHANGED", "SOURCE_CHANGED",
                 "REPROCESSING_INPUT_CHANGED", "QC_STALE_BEFORE_COMPLETION",
                 "RETRY_EXHAUSTED", "WORKER_LEASE_EXPIRED"} \cup TransientCodes

ASSUME NullAssumption == None \notin Jobs \cup PassCodes \cup FailureCodes

Longest == IF FirstDelay >= SecondDelay THEN FirstDelay ELSE SecondDelay

\* Beyond this age neither the lease nor the order of rows can change.
AgeBound == IF Longest + Horizon >= Lease THEN Longest + Horizon ELSE Lease

JobRow == [state : {"none", "pending", "running", "succeeded", "failed"},
           attempts : 0 .. MaxAttempts,
           due : -Horizon .. Longest,
           age : 0 .. AgeBound,
           outcome : PassCodes \cup FailureCodes \cup {None},
           source : Sources \cup {None}]

NoJob == [state |-> "none", attempts |-> 0, due |-> 0, age |-> 0,
          outcome |-> None, source |-> None]

Queued(s) == [NoJob EXCEPT !.state = "pending", !.source = s]

Claimed(row) ==
  [row EXCEPT !.state = "running", !.attempts = @ + 1, !.due = 0, !.age = 0,
              !.outcome = None]

Settled(row, state, code) ==
  [row EXCEPT !.state = state, !.outcome = code, !.age = 0]

Overdue(n) == IF n < -Horizon THEN -Horizon ELSE n

RetryDelay(n) == IF n = 1 THEN FirstDelay ELSE SecondDelay

\* available_at is the instant of the claim plus the delay.
Retried(row, code) ==
  [row EXCEPT !.state = "pending", !.outcome = code, !.age = 0,
              !.due = Overdue(RetryDelay(row.attempts) - row.age)]

Off == [pc |-> "off", job |-> None, token |-> 0, touched |-> FALSE,
        superseded |-> FALSE, code |-> None, left |-> 0]

Steps == {"off", "claim", "check", "verify", "verifying", "confirm", "confirming",
          "enrich", "scan", "qc", "classify", "record"}

\* token is the attempt count: each claim has its own, as each has its own token.
Worker == [pc : Steps, job : Jobs \cup {None}, token : 0 .. MaxAttempts,
           touched : BOOLEAN, superseded : BOOLEAN,
           code : PassCodes \cup FailureCodes \cup {None}, left : 0 .. Limit]

At(w, pc) == worker[w].pc = pc

Become(w, state) == worker' = [worker EXCEPT ![w] = state]

\* On to a step, which may compare the firm's rows with what they are now.
Goto(w, pc) ==
  Become(w, [worker[w] EXCEPT !.pc = pc, !.touched = FALSE, !.superseded = FALSE])

\* What is left is to record this code.
Conclude(w, code) ==
  Become(w, [worker[w] EXCEPT !.pc = "record", !.code = code, !.touched = FALSE,
                              !.superseded = FALSE])

-----------------------------------------------------------------------------
(* Evidence *)

NoAttempt == [result |-> "none", source |-> None]

\* company_verification_is_current; its 30 days outlast any behaviour here.
Verified(f) ==
  attempt[f] = [result |-> "verified", source |-> source[f]]

\* Mutant: the job's own website event and receipt need not be the latest ones.
InputOfItsOwnEvent(j) ==
  LET f == FirmOf(j)
  IN ~archived[f] /\ Verified(f) /\ job[j].source = source[f]

\* load_current_reprocessing_input
InputCurrent(j) ==
  LET f == FirmOf(j)
  IN /\ ~archived[f]
     /\ Verified(f)
     /\ website[f] = [action |-> "assert", source |-> source[f]]
     /\ input[f] = j[3]
     /\ job[j].source = source[f]

\* _evaluate_current finds nothing to refuse but, perhaps, the evidence itself.
QcMayPass(f) ==
  /\ Verified(f)
  /\ scan[f] # None
  /\ IF scan[f].job # None THEN InputCurrent(scan[f].job)
     ELSE scan[f].source = source[f]

\* The worker is to compare the firm's row, its latest attempt or its latest run
\* with the ones it read.
Compares(w, f, steps) ==
  /\ worker[w].job # None /\ FirmOf(worker[w].job) = f
  /\ worker[w].pc \in steps
  /\ At(w, "record") => worker[w].code = "QC_PASS"

\* Another writer wrote the firm's row, or added an attempt.
Touch(f) ==
  worker' = [w \in Workers |->
    IF Compares(w, f, {"verifying", "scan", "record"})
    THEN [worker[w] EXCEPT !.touched = TRUE] ELSE worker[w]]

Supersede(f) ==
  worker' = [w \in Workers |->
    IF Compares(w, f, {"scan", "record"})
    THEN [worker[w] EXCEPT !.superseded = TRUE] ELSE worker[w]]

\* A website may be confirmed: the firm's present FCA record came through an
\* accepted import, was verified, and the firm is not archived.
Confirmable(f) ==
  /\ ~archived[f] /\ Verified(f) /\ job[FcaJob(f)].state # "none"

\* A new event or attempt has another input hash than any job so far.
Fresh(f, i) == job[<<"re", f, i>>].state = "none"

EnqueueReprocessing(f, i) ==
  /\ input' = [input EXCEPT ![f] = i]
  /\ job' = [job EXCEPT ![<<"re", f, i>>] = Queued(source[f])]

SiteAsserted(f) ==
  website' = [website EXCEPT ![f] = [action |-> "assert", source |-> source[f]]]

Init ==
  /\ source \in [Firms -> Sources]
  /\ accepted = [f \in Firms |-> {source[f]}]
  /\ archived = [f \in Firms |-> FALSE]
  /\ attempt = [f \in Firms |-> NoAttempt]
  /\ website = [f \in Firms |-> [action |-> "none", source |-> None]]
  /\ input = [f \in Firms |-> None]
  /\ scan = [f \in Firms |-> None]
  /\ job = [j \in Jobs |-> NoJob]
  /\ lock = None
  /\ worker = [w \in Workers |-> Off]

-----------------------------------------------------------------------------
(* Importing, operators and other commands *)

queueUnchanged == UNCHANGED <<job, lock>>
evidenceUnchanged == UNCHANGED <<source, accepted, attempt, website, input, scan>>

Observe(f, s) ==
  /\ source' = [source EXCEPT ![f] = s]
  /\ Touch(f)
  /\ UNCHANGED <<archived, attempt, website, input, scan, lock>>

\* Mutant: a record that comes again is processed again.
ImportRequeues(f, s) ==
  /\ Observe(f, s)
  /\ accepted' = [accepted EXCEPT ![f] = @ \cup {s}]
  /\ job' = [job EXCEPT ![<<"fca", f, s>>] =
               IF @.state \in {"pending", "running"} THEN @ ELSE Queued(s)]

\* process_collector_import: the record is written, and queued unless this
\* source of the firm ever was.
Import(f, s) ==
  /\ Observe(f, s)
  /\ accepted' = [accepted EXCEPT ![f] = @ \cup {s}]
  /\ job' = [job EXCEPT ![<<"fca", f, s>>] =
               IF @.state = "none" THEN Queued(s) ELSE @]

\* ingest-fca writes the record and queues nothing.
Ingest(f, s) ==
  /\ Observe(f, s)
  /\ UNCHANGED <<accepted, job>>

EnqueueHistory(f) ==
  /\ source[f] \in accepted[f]
  /\ job[FcaJob(f)].state = "none"
  /\ job' = [job EXCEPT ![FcaJob(f)] = Queued(source[f])]
  /\ evidenceUnchanged /\ UNCHANGED <<archived, lock, worker>>

NotRunning(f) == \A j \in Jobs : FirmOf(j) = f => job[j].state # "running"

\* Mutant: only fca_processing_jobs is searched for a running job.
ArchiveSeesFcaJobsOnly(f) ==
  /\ \A j \in FcaJobs : FirmOf(j) = f => job[j].state # "running"
  /\ archived' = [archived EXCEPT ![f] = ~@]
  /\ evidenceUnchanged /\ queueUnchanged /\ UNCHANGED worker

\* record_archive_event: the form's expected event id makes it an atomic toggle.
Archive(f) ==
  /\ NotRunning(f)
  /\ archived' = [archived EXCEPT ![f] = ~@]
  /\ evidenceUnchanged /\ queueUnchanged /\ UNCHANGED worker

\* verify-fca, reverify-fca: a new receipt, whatever it says.
Reverify(f, result) ==
  /\ source[f] \notin Ineligible
  /\ attempt' = [attempt EXCEPT ![f] = [result |-> result, source |-> source[f]]]
  /\ input' = [input EXCEPT ![f] = None]
  /\ Supersede(f)
  /\ queueUnchanged /\ UNCHANGED <<source, accepted, archived, website, scan>>

\* An operator asserts a website, or asserts another one; a firm in the archive
\* receives no event.
AssertWebsite(f) ==
  /\ ~archived[f]
  /\ job[FcaJob(f)].state # "none"
  /\ SiteAsserted(f)
  /\ input' = [input EXCEPT ![f] = None]
  /\ queueUnchanged /\ UNCHANGED <<source, accepted, archived, attempt, scan, worker>>

WithdrawWebsite(f) ==
  /\ ~archived[f]
  /\ job[FcaJob(f)].state # "none"
  /\ website[f].action = "assert"
  /\ website' = [website EXCEPT ![f] = [action |-> "withdraw", source |-> source[f]]]
  /\ input' = [input EXCEPT ![f] = None]
  /\ queueUnchanged /\ UNCHANGED <<source, accepted, archived, attempt, scan, worker>>

\* enqueue_website_reprocessing of an input not queued yet; a second request for
\* the same input finds its row and changes nothing.
RequestReprocessing(f, i) ==
  /\ Confirmable(f)
  /\ website[f] = [action |-> "assert", source |-> source[f]]
  /\ input[f] = None
  /\ Fresh(f, i)
  /\ EnqueueReprocessing(f, i)
  /\ UNCHANGED <<source, accepted, archived, attempt, website, scan, lock, worker>>

\* confirm_website_and_enqueue, from the operator's form.
ConfirmWebsite(f, i) ==
  /\ Confirmable(f)
  /\ Fresh(f, i)
  /\ SiteAsserted(f)
  /\ EnqueueReprocessing(f, i)
  /\ UNCHANGED <<source, accepted, archived, attempt, scan, lock, worker>>

\* enrich-fca, run beside the queue: a new run, complete or failed, outdates
\* the quality control a worker is about to record.
OperatorScan(f) ==
  /\ Verified(f)
  /\ source[f] \notin NoSite
  /\ \E run \in {None, [job |-> None, source |-> source[f]]} :
       scan' = [scan EXCEPT ![f] = run]
  /\ worker' = [w \in Workers |->
       IF Compares(w, f, {"record"}) THEN [worker[w] EXCEPT !.touched = TRUE]
       ELSE worker[w]]
  /\ queueUnchanged /\ UNCHANGED <<source, accepted, archived, attempt, website, input>>

\* qc-fca, run beside the queue: its verdict becomes the latest one.
OperatorQc(f) ==
  /\ \E passed \in IF QcMayPass(f) THEN BOOLEAN ELSE {FALSE} :
       worker' = [w \in Workers |->
         IF Compares(w, f, {"record"})
         THEN [worker[w] EXCEPT !.touched = ~passed, !.superseded = FALSE]
         ELSE worker[w]]
  /\ evidenceUnchanged /\ queueUnchanged /\ UNCHANGED archived

Passing(row) ==
  IF row.state = "pending" THEN [row EXCEPT !.due = Overdue(@ - 1)]
  ELSE IF row.state = "running" /\ row.age < AgeBound THEN [row EXCEPT !.age = @ + 1]
  ELSE row

Tick ==
  /\ job' = [j \in Jobs |-> Passing(job[j])]
  /\ job' # job
  /\ evidenceUnchanged /\ UNCHANGED <<archived, lock, worker>>

-----------------------------------------------------------------------------
(* The worker: claiming *)

\* Mutant: the lock is not looked at.
StartUnlocked(w) ==
  /\ At(w, "off")
  /\ lock' = w
  /\ Become(w, [Off EXCEPT !.pc = "claim", !.left = Limit])
  /\ evidenceUnchanged /\ UNCHANGED <<archived, job>>

\* Taking the advisory lock; a second invocation finds it taken and exits.
Start(w) ==
  /\ At(w, "off")
  /\ lock = None
  /\ lock' = w
  /\ Become(w, [Off EXCEPT !.pc = "claim", !.left = Limit])
  /\ evidenceUnchanged /\ UNCHANGED <<archived, job>>

Exit(w) ==
  /\ Become(w, Off)
  /\ lock' = IF lock = w THEN None ELSE lock

Expired(row) == row.state = "running" /\ row.age >= Lease

\* Mutant: an expired job is queued again however often it was claimed.
RecoveredForever(row) ==
  IF ~Expired(row) THEN row
  ELSE [Settled(row, "pending", "WORKER_LEASE_EXPIRED") EXCEPT !.due = 0]

Recovered(row) ==
  IF ~Expired(row) THEN row
  ELSE IF row.attempts < MaxAttempts
       THEN [Settled(row, "pending", "WORKER_LEASE_EXPIRED") EXCEPT !.due = 0]
       ELSE Settled(row, "failed", "RETRY_EXHAUSTED")

Claimable(j) ==
  LET row == Recovered(job[j])
  IN /\ row.state = "pending" /\ row.due <= 0 /\ row.attempts < MaxAttempts
     /\ ~archived[FirmOf(j)]

\* ORDER BY available_at, queue_rank; rows equal in both go in id order, which
\* is left open, as is the order of rows overdue beyond the horizon.
Sooner(j, k) ==
  LET a == Recovered(job[j]).due
      b == Recovered(job[k]).due
  IN a < b \/ (a = b /\ a > -Horizon /\ j \in FcaJobs /\ k \in ReJobs)

\* BEGIN IMMEDIATE .. COMMIT of _claim_next_job.
Claim(w) ==
  /\ At(w, "claim")
  /\ \/ \E j \in Jobs :
          /\ Claimable(j)
          /\ \A k \in Jobs : Claimable(k) => ~Sooner(k, j)
          /\ job' = [k \in Jobs |-> IF k = j THEN Claimed(Recovered(job[k]))
                                    ELSE Recovered(job[k])]
          /\ Become(w, [worker[w] EXCEPT !.pc = "check", !.job = j,
                          !.token = Recovered(job[j]).attempts + 1])
          /\ UNCHANGED lock
     \/ /\ \A j \in Jobs : ~Claimable(j)
        /\ job' = [j \in Jobs |-> Recovered(job[j])]
        /\ Exit(w)
  /\ evidenceUnchanged /\ UNCHANGED archived

\* The claimed job's source, and a reprocessing job's input, are still current.
Check(w) ==
  LET j == worker[w].job
  IN /\ At(w, "check")
     /\ IF source[FirmOf(j)] # SourceOf(j) THEN Conclude(w, "SOURCE_CHANGED")
        ELSE IF j \in ReJobs /\ ~InputCurrent(j)
             THEN Conclude(w, "REPROCESSING_INPUT_CHANGED")
        ELSE Goto(w, "verify")
     /\ evidenceUnchanged /\ queueUnchanged /\ UNCHANGED archived

-----------------------------------------------------------------------------
(* The worker: process_firm *)

AfterVerification(w) == IF worker[w].job \in FcaJobs THEN "confirm" ELSE "enrich"

\* verify_firm reads the firm: it refuses, reuses the latest receipt, or asks
\* Companies House.  It asks too when the receipt is older than the reuse age, or
\* newer than the instant the job was claimed at.
Verify(w) ==
  LET f == FirmOf(worker[w].job)
  IN /\ At(w, "verify")
     /\ IF source[f] \in Ineligible THEN Goto(w, "classify")
        ELSE \/ Verified(f) /\ Goto(w, AfterVerification(w))
             \/ Goto(w, "verifying")
     /\ evidenceUnchanged /\ queueUnchanged /\ UNCHANGED archived

\* verify_firm commits the receipt unless the firm's row was written meanwhile.
CommitVerification(w) ==
  LET f == FirmOf(worker[w].job)
  IN /\ At(w, "verifying")
     /\ \/ /\ worker[w].touched
           /\ Goto(w, "classify")
           /\ UNCHANGED <<attempt, input>>
        \/ /\ ~worker[w].touched
           /\ \E result \in {"verified", "transient", "permanent"} :
                /\ attempt' = [attempt EXCEPT ![f] =
                                 [result |-> result, source |-> source[f]]]
                /\ Goto(w, IF result = "verified" THEN AfterVerification(w)
                           ELSE "classify")
           /\ input' = [input EXCEPT ![f] = None]
     /\ queueUnchanged /\ UNCHANGED <<source, accepted, archived, website, scan>>

\* auto_confirm_high_confidence_website: no provider, a website on record, a
\* refused search or no confident match leave the firm as it is; a name that no
\* query can be made of ends the job.
Search(w) ==
  LET f == FirmOf(worker[w].job)
  IN /\ At(w, "confirm")
     /\ \/ Goto(w, "enrich")
        \/ /\ source[f] \in NoSite /\ Verified(f)
           /\ Goto(w, "confirming") \/ Conclude(w, "REFUSED")
     /\ evidenceUnchanged /\ queueUnchanged /\ UNCHANGED archived

\* The confident match is confirmed as the firm's first website event.
AutoConfirm(w, i) ==
  LET f == FirmOf(worker[w].job)
  IN /\ At(w, "confirming")
     /\ website[f].action = "none" /\ Confirmable(f) /\ Fresh(f, i)
     /\ SiteAsserted(f)
     /\ EnqueueReprocessing(f, i)
     /\ Goto(w, "enrich")
     /\ UNCHANGED <<source, accepted, archived, attempt, scan, lock>>

\* Otherwise WebsiteResearchConflict leaves process_firm and the queue run: the
\* process ends and the job stays 'running'.
AutoConfirmRaises(w) ==
  LET f == FirmOf(worker[w].job)
  IN /\ At(w, "confirming")
     /\ website[f].action # "none" \/ ~Confirmable(f)
     /\ Exit(w)
     /\ evidenceUnchanged /\ UNCHANGED <<archived, job>>

\* run_enrichment reads the firm, its latest receipt and the website to scan.
Enrich(w) ==
  LET j == worker[w].job
      f == FirmOf(j)
  IN /\ At(w, "enrich")
     /\ IF ~Verified(f) \/ (j \in ReJobs /\ ~InputCurrent(j))
        THEN Conclude(w, "EVIDENCE_CHANGED")
        ELSE IF j \in FcaJobs /\ source[f] \in NoSite
        THEN Conclude(w, "WEBSITE_MISSING")
        ELSE Goto(w, "scan")
     /\ evidenceUnchanged /\ queueUnchanged /\ UNCHANGED archived

\* run_enrichment commits its run, complete or failed, or refuses to.
CommitScan(w) ==
  LET j == worker[w].job
      f == FirmOf(j)
  IN /\ At(w, "scan")
     /\ \/ /\ worker[w].touched
           /\ Conclude(w, "FCA_IDENTITY_CHANGED")
           /\ UNCHANGED scan
        \/ /\ ~worker[w].touched
           /\ worker[w].superseded \/ (j \in ReJobs /\ ~InputCurrent(j))
           /\ Conclude(w, "EVIDENCE_CHANGED")
           /\ UNCHANGED scan
        \/ /\ ~worker[w].touched /\ ~worker[w].superseded
           /\ j \in ReJobs => InputCurrent(j)
           /\ \/ /\ scan' = [scan EXCEPT ![f] =
                   [job |-> IF j \in ReJobs THEN j ELSE None, source |-> source[f]]]
                 /\ Goto(w, "qc")
              \/ /\ scan' = [scan EXCEPT ![f] = None]
                 /\ \E code \in {"TRANSIENT", "REFUSED"} : Conclude(w, code)
     /\ queueUnchanged
     /\ UNCHANGED <<source, accepted, archived, attempt, website, input>>

\* run_qc: what it may not overlook is in QcMayPass, the pages decide the rest.
RunQc(w) ==
  /\ At(w, "qc")
  /\ \E code \in IF QcMayPass(FirmOf(worker[w].job)) THEN PassCodes ELSE {"QC_FAIL"} :
       Conclude(w, code)
  /\ evidenceUnchanged /\ queueUnchanged /\ UNCHANGED archived

\* _controlled_failure_code of a refused verification reads the latest receipt,
\* its own or an older one, then the firm.
FailureCode(f) ==
  IF attempt[f].result = "transient" THEN "TRANSIENT"
  ELSE IF attempt[f].result = "permanent" \/ source[f] \in Ineligible THEN "REFUSED"
  ELSE IF source[f] \in NoSite THEN "WEBSITE_MISSING"
  ELSE "VERIFICATION_FAILED"

Classify(w) ==
  /\ At(w, "classify")
  /\ Conclude(w, FailureCode(FirmOf(worker[w].job)))
  /\ evidenceUnchanged /\ queueUnchanged /\ UNCHANGED archived

-----------------------------------------------------------------------------
(* The worker: recording the outcome *)

\* Mutant: the verdict of the quality control is recorded as it was found.
QcCurrentAsRecorded(w) == worker[w].code = "QC_PASS"

\* qc_is_current of the latest quality control.
QcCurrent(w) ==
  ~worker[w].touched /\ ~worker[w].superseded /\ QcMayPass(FirmOf(worker[w].job))

\* _record_outcome replaces the outcome of work whose premises changed.
FinalCode(w) ==
  LET j == worker[w].job
  IN IF j \in ReJobs /\ ~InputCurrent(j) THEN "REPROCESSING_INPUT_CHANGED"
     ELSE IF source[FirmOf(j)] # SourceOf(j) THEN "SOURCE_CHANGED"
     ELSE IF worker[w].code = "QC_PASS" /\ ~QcCurrent(w)
          THEN "QC_STALE_BEFORE_COMPLETION"
     ELSE worker[w].code

\* Mutant: a transient failure is retried however often the job was claimed.
OutcomeRetriesForever(row, code) ==
  IF code \in PassCodes THEN Settled(row, "succeeded", code)
  ELSE IF code \in TransientCodes THEN Retried(row, code)
  ELSE Settled(row, "failed", code)

Outcome(row, code) ==
  IF code \in PassCodes THEN Settled(row, "succeeded", code)
  ELSE IF code \in TransientCodes /\ row.attempts < MaxAttempts THEN Retried(row, code)
  ELSE Settled(row, "failed", code)

HoldsClaim(w) ==
  LET row == job[worker[w].job]
  IN row.state = "running" /\ row.attempts = worker[w].token

\* BEGIN IMMEDIATE .. COMMIT of _record_outcome, then the next round of the
\* loop; a claim that was lost raises and ends the run.
Record(w) ==
  LET j == worker[w].job
  IN /\ At(w, "record")
     /\ IF HoldsClaim(w)
        THEN job' = [job EXCEPT ![j] = Outcome(@, FinalCode(w))]
        ELSE UNCHANGED job
     /\ IF HoldsClaim(w) /\ worker[w].left > 1
        THEN /\ Become(w, [Off EXCEPT !.pc = "claim", !.left = worker[w].left - 1])
             /\ UNCHANGED lock
        ELSE Exit(w)
     /\ evidenceUnchanged /\ UNCHANGED archived

\* The process is killed, times out, or ends with an exception it does not
\* catch; the lock goes with it.
Die(w) ==
  /\ CanDie /\ ~At(w, "off")
  /\ Exit(w)
  /\ evidenceUnchanged /\ UNCHANGED <<archived, job>>

-----------------------------------------------------------------------------
Work(w) ==
  \/ Check(w) \/ Verify(w) \/ CommitVerification(w)
  \/ Search(w) \/ (\E i \in Inputs : AutoConfirm(w, i)) \/ AutoConfirmRaises(w)
  \/ Enrich(w) \/ CommitScan(w) \/ RunQc(w) \/ Classify(w) \/ Record(w)

Others ==
  \E f \in Firms :
    \/ \E s \in Sources : Import(f, s) \/ Ingest(f, s)
    \/ EnqueueHistory(f) \/ Archive(f)
    \/ \E result \in {"verified", "transient", "permanent"} : Reverify(f, result)
    \/ AssertWebsite(f) \/ WithdrawWebsite(f)
    \/ \E i \in Inputs : RequestReprocessing(f, i) \/ ConfirmWebsite(f, i)
    \/ OperatorScan(f) \/ OperatorQc(f)

Next ==
  \/ \E w \in Workers : Start(w) \/ Claim(w) \/ Work(w) \/ Die(w)
  \/ Others
  \/ Tick

Spec == Init /\ [][Next]_vars

\* The timer starts the worker again and again; one that holds the lock goes on
\* unless it dies, and some invocation lives long enough to claim.
Fairness ==
  /\ WF_vars(Tick)
  /\ WF_vars(\E w \in Workers : Start(w))
  /\ \A w \in Workers : SF_vars(Claim(w)) /\ WF_vars(Work(w))

FairSpec == Spec /\ Fairness

-----------------------------------------------------------------------------
(* Properties *)

\* The CHECK constraint of both job tables.
WellFormed(row) ==
  /\ row.state = "none" => row = NoJob
  /\ row.state = "pending" =>
       row.attempts < MaxAttempts /\ (row.attempts = 0 <=> row.outcome = None)
  /\ row.state = "running" => row.attempts > 0 /\ row.outcome = None
  /\ row.state = "succeeded" => row.attempts > 0 /\ row.outcome \in PassCodes
  /\ row.state = "failed" => row.attempts > 0 /\ row.outcome \in FailureCodes

TypeOK ==
  /\ source \in [Firms -> Sources]
  /\ accepted \in [Firms -> SUBSET Sources]
  /\ archived \in [Firms -> BOOLEAN]
  /\ attempt \in [Firms -> [result : {"none", "verified", "transient", "permanent"},
                            source : Sources \cup {None}]]
  /\ website \in [Firms -> [action : {"none", "assert", "withdraw"},
                            source : Sources \cup {None}]]
  /\ input \in [Firms -> Inputs \cup {None}]
  /\ scan \in [Firms -> [job : ReJobs \cup {None}, source : Sources] \cup {None}]
  /\ job \in [Jobs -> JobRow]
  /\ \A j \in Jobs : WellFormed(job[j])
  /\ lock \in Workers \cup {None}
  /\ worker \in [Workers -> Worker]

\* "processing job completion lost" never happens: however long a worker takes,
\* past its lease or not, the job it works on is still running under its claim.
ClaimsAreHeld ==
  \A w \in Workers : worker[w].job # None => HoldsClaim(w)

\* README "archived firms are excluded from original and website-reprocessing
\* worker claims": no job of an archived firm is running, in either table,
\* whether its worker lives or not.
ArchivedFirmIsIdle == \A f \in Firms : archived[f] => NotRunning(f)

\* A QC_PASS is recorded only on evidence that is current in that very step: the
\* job's source is the firm's, its receipt verified that source, the latest
\* complete run scanned it, and a confirmed website still stands.
PassesOnCurrentEvidence ==
  [][\A j \in Jobs :
       (job'[j].outcome = "QC_PASS" /\ job[j].outcome # "QC_PASS") =>
         LET f == FirmOf(j)
         IN /\ Verified(f) /\ SourceOf(j) = source[f]
            /\ scan[f] # None /\ scan[f].source = source[f]
            /\ website[f].action = "assert" \/ (j \in FcaJobs /\ source[f] \notin NoSite)
    ]_vars

\* Every job that is queued or claimed is settled for good in the end, whatever
\* dies meanwhile, unless its firm is archived.
EveryJobSettles ==
  \A j \in Jobs :
    job[j].state \in {"pending", "running"} ~>
      (job[j].state \in {"succeeded", "failed"} \/ archived[FirmOf(j)])

\* README "Exact reruns are idempotent": where every import of the firm carries
\* the same record, no job fails for a change of the firm's record.
RerunsFailNoJob ==
  \A j \in Jobs :
    job[j].outcome \notin {"SOURCE_CHANGED", "FCA_IDENTITY_CHANGED",
                           "VERIFICATION_FAILED"}

\* processing.py "this job may still end WEBSITE_MISSING while the new job
\* scores it next tick": a run that is not killed records what became of the
\* job it claimed, so only a live worker's job is running.
RunningJobHasItsWorker ==
  \A j \in Jobs : job[j].state = "running" => \E w \in Workers : worker[w].job = j

Contract ==
  INSTANCE QueueContract WITH
    phase <- [j \in Jobs |-> job[j].state],
    claims <- [j \in Jobs |-> job[j].attempts],
    work <- [w \in Workers |-> worker[w].job]

\* Every step of a worker, of the clock and of all others is a step of
\* QueueContract or changes nothing in it: a lease that ends takes no job from a
\* worker that lives, no job is claimed more than MAX_JOB_ATTEMPTS times, and
\* nothing brings back a job that succeeded or failed.
ImplementsQueue == Contract!Spec

-----------------------------------------------------------------------------
(* The inductive invariant behind these properties *)

Rested == {"off", "claim"}

\* A worker that runs holds the lock, and works on one job from its claim on.
LockIsExclusive == \A w \in Workers : ~At(w, "off") => lock = w

WorkersAgree ==
  \A w \in Workers :
    /\ worker[w].job = None <=> worker[w].pc \in Rested
    /\ At(w, "record") => worker[w].code # None

\* A complete run names the source of the website it scanned.
ScansAreSourced ==
  \A f \in Firms :
    scan[f] # None =>
      LET j == scan[f].job
      IN IF j = None THEN scan[f].source \notin NoSite
         ELSE FirmOf(j) = f /\ job[j].state # "none" /\ job[j].source = scan[f].source

\* A worker scans the website on record only as long as there is one.
ScannedSiteExists ==
  \A w \in Workers :
    (At(w, "scan") /\ worker[w].job \in FcaJobs /\ ~worker[w].touched) =>
      source[FirmOf(worker[w].job)] \notin NoSite

ClaimsInv ==
  /\ TypeOK /\ LockIsExclusive /\ WorkersAgree /\ ClaimsAreHeld /\ ArchivedFirmIsIdle

EvidenceInv == ScansAreSourced /\ ScannedSiteExists
=============================================================================
