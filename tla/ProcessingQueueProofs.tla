------------------------ MODULE ProcessingQueueProofs ------------------------
(***************************************************************************)
(* Machine-checked facts about ProcessingQueue for every set of firms,     *)
(* sources, inputs and workers, every lease, retry delay and limit.        *)
(***************************************************************************)
EXTENDS ProcessingQueue, TLAPS

-----------------------------------------------------------------------------
(* Rows of the job tables *)

LEMMA BoundTypes ==
  /\ Longest \in Nat /\ AgeBound \in Nat
  /\ FirstDelay <= Longest /\ SecondDelay <= Longest
BY NumbersAssumption DEF Longest, AgeBound

LEMMA Zeros == 0 \in -Horizon .. Longest /\ 0 \in 0 .. AgeBound /\ 0 \in 0 .. MaxAttempts
BY BoundTypes, NumbersAssumption

LEMMA JobTypes ==
  /\ \A f \in Firms, s \in Sources : <<"fca", f, s>> \in FcaJobs
  /\ \A f \in Firms, i \in Inputs : <<"re", f, i>> \in ReJobs
  /\ \A j \in Jobs : FirmOf(j) \in Firms
  /\ FcaJobs \subseteq Jobs /\ ReJobs \subseteq Jobs /\ FcaJobs \cap ReJobs = {}
BY DEF Jobs, FcaJobs, ReJobs, FirmOf

\* A row of either table that satisfies its CHECK constraint.
Sound(row) == row \in JobRow /\ WellFormed(row)

LEMMA NoJobSound == Sound(NoJob) /\ NoJob.state = "none"
BY BoundTypes, NumbersAssumption DEF Sound, JobRow, WellFormed, NoJob

LEMMA QueuedSound ==
  ASSUME NEW s \in Sources
  PROVE  /\ Sound(Queued(s)) /\ Queued(s).state = "pending"
         /\ Queued(s).source = s /\ Queued(s).outcome = None
<1> DEFINE row == Queued(s)
<1>1. /\ row.state = "pending" /\ row.source = s /\ row.outcome = None
      /\ row.attempts = 0
  BY DEF Queued, NoJob
<1>2. row \in JobRow
  BY Zeros DEF JobRow, Queued, NoJob
<1>3. WellFormed(row)
  BY <1>1, NumbersAssumption DEF WellFormed
<1> QED
  BY <1>1, <1>2, <1>3 DEF Sound

LEMMA OverdueType ==
  ASSUME NEW n \in Int, n <= Longest
  PROVE  Overdue(n) \in -Horizon .. Longest
BY BoundTypes, NumbersAssumption DEF Overdue

LEMMA PassingSound ==
  ASSUME NEW row, Sound(row)
  PROVE  /\ Sound(Passing(row))
         /\ Passing(row).state = row.state /\ Passing(row).attempts = row.attempts
         /\ Passing(row).source = row.source /\ Passing(row).outcome = row.outcome
<1>1. row.due \in -Horizon .. Longest /\ row.age \in 0 .. AgeBound
  BY DEF Sound, JobRow
<1>2. Overdue(row.due - 1) \in -Horizon .. Longest
  BY <1>1, OverdueType, BoundTypes, NumbersAssumption
<1>3. row.age < AgeBound => row.age + 1 \in 0 .. AgeBound
  BY <1>1, BoundTypes
<1>4. CASE row.state = "pending"
  <2>1. Passing(row) = [row EXCEPT !.due = Overdue(@ - 1)]
    BY <1>4 DEF Passing
  <2> QED
    BY <1>2, <1>4, <2>1 DEF Sound, JobRow, WellFormed
<1>5. CASE row.state = "running" /\ row.age < AgeBound
  <2>1. Passing(row) = [row EXCEPT !.age = @ + 1]
    BY <1>5 DEF Passing
  <2> QED
    BY <1>3, <1>5, <2>1 DEF Sound, JobRow, WellFormed
<1>6. CASE ~(row.state = "pending") /\ ~(row.state = "running" /\ row.age < AgeBound)
  BY <1>6 DEF Passing
<1> QED
  BY <1>4, <1>5, <1>6

LEMMA RecoveredSound ==
  ASSUME NEW row, Sound(row)
  PROVE  /\ Sound(Recovered(row))
         /\ Recovered(row).attempts = row.attempts
         /\ Recovered(row).source = row.source
         /\ row.state # "running" => Recovered(row) = row
         /\ row.state = "running" => Recovered(row).state \in {"running", "pending", "failed"}
         /\ Recovered(row).outcome = "QC_PASS" => row.outcome = "QC_PASS"
<1>1. CASE ~Expired(row)
  BY <1>1 DEF Recovered
<1>2. CASE Expired(row) /\ row.attempts < MaxAttempts
  <2>1. Recovered(row) = [[row EXCEPT !.state = "pending", !.outcome = "WORKER_LEASE_EXPIRED",
                                     !.age = 0] EXCEPT !.due = 0]
    BY <1>2 DEF Recovered, Settled
  <2> DEFINE r == Recovered(row)
  <2>2. /\ r.state = "pending" /\ r.outcome = "WORKER_LEASE_EXPIRED"
        /\ r.attempts = row.attempts /\ r.source = row.source
    BY <2>1 DEF Sound, JobRow
  <2>3. 0 \in -Horizon .. Longest /\ 0 \in 0 .. AgeBound
    BY BoundTypes, NumbersAssumption
  <2>4. r \in JobRow
    BY <2>1, <2>3 DEF Sound, JobRow, FailureCodes
  <2>5. row.attempts > 0 /\ row.attempts \in Nat
    BY <1>2 DEF Sound, JobRow, WellFormed, Expired
  <2>6. WellFormed(r)
    BY <1>2, <2>2, <2>5, NullAssumption DEF WellFormed, FailureCodes
  <2> QED
    BY <1>2, <2>2, <2>4, <2>6 DEF Sound, Expired
<1>3. CASE Expired(row) /\ ~(row.attempts < MaxAttempts)
  <2>1. Recovered(row) = [row EXCEPT !.state = "failed", !.outcome = "RETRY_EXHAUSTED",
                                     !.age = 0]
    BY <1>3 DEF Recovered, Settled
  <2> DEFINE r == Recovered(row)
  <2>2. /\ r.state = "failed" /\ r.outcome = "RETRY_EXHAUSTED"
        /\ r.attempts = row.attempts /\ r.source = row.source
    BY <2>1 DEF Sound, JobRow
  <2>3. r \in JobRow
    BY <2>1, Zeros DEF Sound, JobRow, FailureCodes
  <2>4. WellFormed(r)
    BY <1>3, <2>2 DEF Sound, WellFormed, FailureCodes, Expired
  <2> QED
    BY <1>3, <2>2, <2>3, <2>4 DEF Sound, Expired
<1> QED
  BY <1>1, <1>2, <1>3

LEMMA ClaimedSound ==
  ASSUME NEW row, Sound(row), row.state = "pending"
  PROVE  /\ Sound(Claimed(row)) /\ Claimed(row).state = "running"
         /\ Claimed(row).attempts = row.attempts + 1
         /\ row.attempts + 1 \in 0 .. MaxAttempts
         /\ Claimed(row).source = row.source /\ Claimed(row).outcome = None
<1>1. row.attempts \in 0 .. MaxAttempts /\ row.attempts < MaxAttempts
  BY DEF Sound, JobRow, WellFormed
<1> DEFINE r == Claimed(row)
<1>2. /\ r.state = "running" /\ r.attempts = row.attempts + 1 /\ r.outcome = None
      /\ r.source = row.source
  BY DEF Sound, JobRow, Claimed
<1>3. row.attempts + 1 \in 0 .. MaxAttempts /\ row.attempts + 1 > 0
  BY <1>1, NumbersAssumption
<1>4. 0 \in -Horizon .. Longest /\ 0 \in 0 .. AgeBound
  BY BoundTypes, NumbersAssumption
<1>5. r \in JobRow
  BY <1>3, <1>4 DEF Sound, JobRow, Claimed
<1>6. WellFormed(r)
  BY <1>2, <1>3 DEF WellFormed
<1> QED
  BY <1>2, <1>3, <1>5, <1>6 DEF Sound

Codes == PassCodes \cup FailureCodes

LEMMA OutcomeSound ==
  ASSUME NEW row, Sound(row), row.state = "running", NEW code \in Codes
  PROVE  /\ Sound(Outcome(row, code))
         /\ Outcome(row, code).state \in {"succeeded", "pending", "failed"}
         /\ Outcome(row, code).source = row.source
         /\ Outcome(row, code).outcome = code
<1> DEFINE r == Outcome(row, code)
<1>1. /\ row.attempts \in 0 .. MaxAttempts /\ row.attempts > 0
      /\ row.age \in 0 .. AgeBound
  BY DEF Sound, JobRow, WellFormed
<1>2. code # None
  BY NullAssumption DEF Codes
<1>3. CASE code \in PassCodes
  <2>1. Outcome(row, code) = [row EXCEPT !.state = "succeeded", !.outcome = code, !.age = 0]
    BY <1>3 DEF Outcome, Settled
  <2>2. /\ r.state = "succeeded" /\ r.outcome = code
        /\ r.attempts = row.attempts /\ r.source = row.source
    BY <2>1 DEF Sound, JobRow
  <2>3. r \in JobRow
    BY <1>3, <2>1, Zeros DEF Sound, JobRow
  <2>4. WellFormed(r)
    BY <1>1, <1>3, <2>2 DEF WellFormed
  <2> QED
    BY <2>2, <2>3, <2>4 DEF Sound
<1>4. CASE code \notin PassCodes /\ code \in TransientCodes /\ row.attempts < MaxAttempts
  <2>1. Outcome(row, code) =
          [row EXCEPT !.state = "pending", !.outcome = code, !.age = 0,
                      !.due = Overdue(RetryDelay(row.attempts) - row.age)]
    BY <1>4 DEF Outcome, Retried
  <2>2. Overdue(RetryDelay(row.attempts) - row.age) \in -Horizon .. Longest
    <3>1. RetryDelay(row.attempts) \in Nat /\ RetryDelay(row.attempts) <= Longest
      BY BoundTypes, NumbersAssumption DEF RetryDelay
    <3>2. /\ RetryDelay(row.attempts) - row.age \in Int
          /\ RetryDelay(row.attempts) - row.age <= Longest
      BY <1>1, <3>1, BoundTypes
    <3> QED
      BY <3>2, OverdueType
  <2>3. /\ r.state = "pending" /\ r.outcome = code
        /\ r.attempts = row.attempts /\ r.source = row.source
    BY <2>1 DEF Sound, JobRow
  <2>4. r \in JobRow
    BY <1>4, <2>1, <2>2, Zeros DEF Sound, JobRow, FailureCodes
  <2>5. WellFormed(r)
    BY <1>1, <1>2, <1>4, <2>3 DEF WellFormed
  <2> QED
    BY <2>3, <2>4, <2>5 DEF Sound
<1>5. CASE code \notin PassCodes /\ ~(code \in TransientCodes /\ row.attempts < MaxAttempts)
  <2>1. Outcome(row, code) = [row EXCEPT !.state = "failed", !.outcome = code, !.age = 0]
    BY <1>5 DEF Outcome, Settled
  <2>2. /\ r.state = "failed" /\ r.outcome = code
        /\ r.attempts = row.attempts /\ r.source = row.source
    BY <2>1 DEF Sound, JobRow
  <2>3. r \in JobRow
    BY <2>1, Zeros DEF Sound, JobRow, Codes
  <2>4. WellFormed(r)
    BY <1>1, <1>5, <2>2 DEF WellFormed, Codes
  <2> QED
    BY <2>2, <2>3, <2>4 DEF Sound
<1> QED
  BY <1>3, <1>4, <1>5

-----------------------------------------------------------------------------
(* What steps leave in the workers *)

Kept(w) == \A v \in Workers \ {w} : worker'[v] = worker[v]

LEMMA BecomeAfter ==
  ASSUME worker \in [Workers -> Worker], NEW w \in Workers, NEW s \in Worker,
         Become(w, s)
  PROVE  worker' \in [Workers -> Worker] /\ worker'[w] = s /\ Kept(w)
BY DEF Become, Kept

LEMMA GotoAfter ==
  ASSUME worker \in [Workers -> Worker], NEW w \in Workers, NEW pc \in Steps,
         Goto(w, pc)
  PROVE  /\ worker' \in [Workers -> Worker] /\ Kept(w)
         /\ worker'[w].pc = pc
         /\ worker'[w].job = worker[w].job /\ worker'[w].token = worker[w].token
         /\ worker'[w].touched = FALSE
<1> DEFINE s == [worker[w] EXCEPT !.pc = pc, !.touched = FALSE, !.superseded = FALSE]
<1>1. worker[w] \in Worker
  OBVIOUS
<1>2. /\ s \in Worker /\ s.pc = pc /\ s.job = worker[w].job
      /\ s.token = worker[w].token /\ s.touched = FALSE
  BY <1>1 DEF Worker
<1>3. Become(w, s)
  BY DEF Goto
<1> QED
  BY <1>2, <1>3, BecomeAfter

LEMMA ConcludeAfter ==
  ASSUME worker \in [Workers -> Worker], NEW w \in Workers, NEW code \in Codes,
         Conclude(w, code)
  PROVE  /\ worker' \in [Workers -> Worker] /\ Kept(w)
         /\ worker'[w].pc = "record" /\ worker'[w].code = code
         /\ worker'[w].job = worker[w].job /\ worker'[w].token = worker[w].token
<1> DEFINE s == [worker[w] EXCEPT !.pc = "record", !.code = code, !.touched = FALSE,
                                  !.superseded = FALSE]
<1>1. worker[w] \in Worker
  OBVIOUS
<1>2. /\ s \in Worker /\ s.pc = "record" /\ s.job = worker[w].job
      /\ s.token = worker[w].token /\ s.code = code
  BY <1>1 DEF Worker, Codes, Steps
<1>3. Become(w, s)
  BY DEF Conclude
<1> QED
  BY <1>2, <1>3, BecomeAfter

LEMMA OffType ==
  /\ Off \in Worker /\ Off.pc = "off" /\ Off.job = None /\ Off.code = None
  /\ \A n \in 0 .. Limit :
       LET s == [Off EXCEPT !.pc = "claim", !.left = n]
       IN s \in Worker /\ s.pc = "claim" /\ s.job = None /\ s.code = None
<1>1. 0 \in 0 .. MaxAttempts /\ 0 \in 0 .. Limit
  BY NumbersAssumption
<1>2. Off \in Worker /\ Off.pc = "off" /\ Off.job = None /\ Off.code = None
  BY <1>1 DEF Off, Worker, Steps
<1>3. ASSUME NEW n \in 0 .. Limit
      PROVE  LET s == [Off EXCEPT !.pc = "claim", !.left = n]
             IN s \in Worker /\ s.pc = "claim" /\ s.job = None /\ s.code = None
  BY <1>2 DEF Worker, Steps
<1> QED
  BY <1>2, <1>3

\* A step of the work on a job: on to another one, or to recording a code.
GoesOn(w) ==
  /\ Kept(w)
  /\ worker'[w].pc \in Steps \ Rested
  /\ worker'[w].job = worker[w].job /\ worker'[w].token = worker[w].token
  /\ worker'[w].pc = "record" => worker'[w].code # None
  /\ lock' = lock

Leaves(w) ==
  /\ Kept(w)
  /\ worker'[w] = Off
  /\ lock' = IF lock = w THEN None ELSE lock

LEMMA GotoGoesOn ==
  ASSUME worker \in [Workers -> Worker], NEW w \in Workers, UNCHANGED lock,
         NEW pc \in Steps \ (Rested \cup {"record"}), Goto(w, pc)
  PROVE  worker' \in [Workers -> Worker] /\ GoesOn(w)
<1>1. /\ worker' \in [Workers -> Worker] /\ Kept(w) /\ worker'[w].pc = pc
      /\ worker'[w].job = worker[w].job /\ worker'[w].token = worker[w].token
  BY GotoAfter
<1> QED
  BY <1>1 DEF GoesOn

LEMMA ConcludeGoesOn ==
  ASSUME worker \in [Workers -> Worker], NEW w \in Workers, UNCHANGED lock,
         NEW code \in Codes, Conclude(w, code)
  PROVE  worker' \in [Workers -> Worker] /\ GoesOn(w)
<1>1. "record" \in Steps \ Rested /\ code # None
  BY NullAssumption DEF Steps, Rested, Codes
<1> QED
  BY <1>1, ConcludeAfter DEF GoesOn

LEMMA ExitLeaves ==
  ASSUME worker \in [Workers -> Worker], NEW w \in Workers, Exit(w)
  PROVE  worker' \in [Workers -> Worker] /\ Leaves(w)
BY OffType, BecomeAfter DEF Exit, Leaves

\* Other writers only leave marks for the workers' later comparisons.
MarksOnly ==
  /\ worker' \in [Workers -> Worker]
  /\ \A v \in Workers :
       /\ worker'[v].pc = worker[v].pc /\ worker'[v].job = worker[v].job
       /\ worker'[v].token = worker[v].token /\ worker'[v].code = worker[v].code

LEMMA Marks ==
  ASSUME worker \in [Workers -> Worker], NEW f,
         Touch(f) \/ Supersede(f) \/ UNCHANGED worker
  PROVE  MarksOnly
<1>1. CASE Touch(f)
  <2>1. \A v \in Workers :
          worker'[v] = [worker[v] EXCEPT !.touched = TRUE] \/ worker'[v] = worker[v]
    BY <1>1 DEF Touch
  <2>2. worker' \in [Workers -> Worker]
    BY <1>1 DEF Touch, Worker
  <2> QED
    BY <2>1, <2>2 DEF MarksOnly, Worker
<1>2. CASE Supersede(f)
  <2>1. \A v \in Workers :
          worker'[v] = [worker[v] EXCEPT !.superseded = TRUE] \/ worker'[v] = worker[v]
    BY <1>2 DEF Supersede
  <2>2. worker' \in [Workers -> Worker]
    BY <1>2 DEF Supersede, Worker
  <2> QED
    BY <2>1, <2>2 DEF MarksOnly, Worker
<1>3. CASE UNCHANGED worker
  BY <1>3 DEF MarksOnly
<1> QED
  BY <1>1, <1>2, <1>3

-----------------------------------------------------------------------------
(* What other writers leave in the job tables *)

LEMMA JobsSound == TypeOK => \A j \in Jobs : Sound(job[j])
BY DEF TypeOK, Sound

\* Rows are queued, and no queued row's state changes.
RowsKept ==
  /\ job' \in [Jobs -> JobRow]
  /\ \A j \in Jobs :
       /\ WellFormed(job'[j])
       /\ job[j].state # "none" =>
            /\ job'[j].state = job[j].state /\ job'[j].attempts = job[j].attempts
            /\ job'[j].source = job[j].source /\ job'[j].outcome = job[j].outcome
       /\ job[j].state = "none" =>
            job'[j].state \in {"none", "pending"} /\ job'[j].outcome = None

LEMMA RowsUnchanged ==
  ASSUME TypeOK, UNCHANGED job
  PROVE  RowsKept
BY DEF TypeOK, RowsKept, WellFormed, NoJob

LEMMA RowQueued ==
  ASSUME TypeOK, NEW k \in Jobs, NEW s \in Sources,
         job[k].state = "none" \/ UNCHANGED job,
         job' = [job EXCEPT ![k] = Queued(s)] \/ UNCHANGED job
  PROVE  RowsKept
<1>1. CASE UNCHANGED job
  BY <1>1, RowsUnchanged
<1>2. CASE job[k].state = "none" /\ job' = [job EXCEPT ![k] = Queued(s)]
  <2>1. job \in [Jobs -> JobRow] /\ \A j \in Jobs : WellFormed(job[j])
    BY DEF TypeOK
  <2>2. job'[k] = Queued(s) /\ \A j \in Jobs \ {k} : job'[j] = job[j]
    BY <1>2, <2>1
  <2>3. job' \in [Jobs -> JobRow]
    BY <1>2, <2>1, QueuedSound DEF Sound
  <2>4. \A j \in Jobs : job[j].state = "none" => job[j].outcome = None
    BY <2>1 DEF WellFormed, NoJob
  <2> QED
    BY <1>2, <2>1, <2>2, <2>3, <2>4, QueuedSound DEF Sound, RowsKept
<1> QED
  BY <1>1, <1>2

LEMMA RowsPass ==
  ASSUME TypeOK, Tick
  PROVE  RowsKept
<1>1. job' = [j \in Jobs |-> Passing(job[j])]
  BY DEF Tick
<1>2. \A j \in Jobs : Sound(job[j])
  BY JobsSound
<1>3. \A j \in Jobs :
        /\ Sound(job'[j])
        /\ job'[j].state = job[j].state /\ job'[j].attempts = job[j].attempts
        /\ job'[j].source = job[j].source /\ job'[j].outcome = job[j].outcome
  BY <1>1, <1>2, PassingSound
<1>4. job' \in [Jobs -> JobRow]
  BY <1>1, <1>3 DEF Sound
<1>5. \A j \in Jobs : job[j].state = "none" => job[j].outcome = None
  BY <1>2 DEF Sound, WellFormed, NoJob
<1> QED
  BY <1>3, <1>4, <1>5 DEF Sound, RowsKept

\* What a step of another writer, or the clock, may do to the queue.
Harmless ==
  /\ MarksOnly /\ RowsKept /\ lock' = lock
  /\ \A f \in Firms : archived'[f] => archived[f] \/ NotRunning(f)

LEMMA ImportHarmless ==
  ASSUME TypeOK, NEW f \in Firms, NEW s \in Sources, Import(f, s) \/ Ingest(f, s)
  PROVE  TypeOK' /\ Harmless
<1>1. MarksOnly
  BY Marks DEF Import, Ingest, Observe, TypeOK
<1>2. RowsKept
  <2>1. <<"fca", f, s>> \in Jobs
    BY JobTypes
  <2>2. CASE Import(f, s)
    <3>1. CASE job[<<"fca", f, s>>].state = "none"
      BY <2>1, <2>2, <3>1, RowQueued DEF Import
    <3>2. CASE job[<<"fca", f, s>>].state # "none"
      <4>1. UNCHANGED job
        BY <2>1, <2>2, <3>2 DEF Import, TypeOK
      <4> QED
        BY <4>1, RowsUnchanged
    <3> QED
      BY <3>1, <3>2
  <2>3. CASE Ingest(f, s)
    BY <2>3, RowsUnchanged DEF Ingest
  <2> QED
    BY <2>2, <2>3
<1>3. /\ lock' = lock /\ archived' = archived
      /\ UNCHANGED <<attempt, website, input, scan>>
      /\ source' = [source EXCEPT ![f] = s]
      /\ accepted' = accepted \/ accepted' = [accepted EXCEPT ![f] = @ \cup {s}]
  BY DEF Import, Ingest, Observe
<1>4. source' \in [Firms -> Sources] /\ accepted' \in [Firms -> SUBSET Sources]
  BY <1>3 DEF TypeOK
<1>5. TypeOK'
  BY <1>1, <1>2, <1>3, <1>4 DEF TypeOK, MarksOnly, RowsKept
<1> QED
  BY <1>1, <1>2, <1>3, <1>5 DEF Harmless

LEMMA EnqueueHarmless ==
  ASSUME TypeOK, NEW f \in Firms, NEW i \in Inputs,
         RequestReprocessing(f, i) \/ ConfirmWebsite(f, i)
  PROVE  TypeOK' /\ Harmless
<1>1. /\ MarksOnly /\ lock' = lock
      /\ UNCHANGED <<source, accepted, archived, attempt, scan>>
  BY Marks DEF RequestReprocessing, ConfirmWebsite, TypeOK
<1>2. source[f] \in Sources /\ <<"re", f, i>> \in Jobs
  BY JobTypes DEF TypeOK
<1>3. RowsKept
  BY <1>2, RowQueued
  DEF RequestReprocessing, ConfirmWebsite, EnqueueReprocessing, Fresh
<1>4. /\ website' \in [Firms -> [action : {"none", "assert", "withdraw"},
                                 source : Sources \cup {None}]]
      /\ input' \in [Firms -> Inputs \cup {None}]
  <2>1. \/ UNCHANGED website
        \/ website' = [website EXCEPT ![f] = [action |-> "assert", source |-> source[f]]]
    BY DEF RequestReprocessing, ConfirmWebsite, SiteAsserted
  <2>2. UNCHANGED input \/ input' = [input EXCEPT ![f] = i]
    BY DEF RequestReprocessing, ConfirmWebsite, EnqueueReprocessing
  <2> QED
    BY <1>2, <2>1, <2>2 DEF TypeOK
<1>5. TypeOK'
  BY <1>1, <1>3, <1>4 DEF TypeOK, MarksOnly, RowsKept
<1> QED
  BY <1>1, <1>3, <1>5 DEF Harmless

LEMMA HistoryHarmless ==
  ASSUME TypeOK, NEW f \in Firms, EnqueueHistory(f)
  PROVE  TypeOK' /\ Harmless
<1>1. source[f] \in Sources /\ FcaJob(f) \in Jobs
  BY JobTypes DEF FcaJob, TypeOK
<1>2. RowsKept
  BY <1>1, RowQueued DEF EnqueueHistory
<1>3. /\ MarksOnly /\ lock' = lock
      /\ UNCHANGED <<source, accepted, archived, attempt, website, input, scan>>
  BY Marks DEF EnqueueHistory, evidenceUnchanged, TypeOK
<1> QED
  BY <1>2, <1>3 DEF Harmless, TypeOK, MarksOnly, RowsKept

LEMMA EvidenceHarmless ==
  ASSUME TypeOK, NEW f \in Firms,
         \/ \E result \in {"verified", "transient", "permanent"} : Reverify(f, result)
         \/ AssertWebsite(f) \/ WithdrawWebsite(f)
         \/ OperatorScan(f) \/ OperatorQc(f) \/ Archive(f)
  PROVE  TypeOK' /\ Harmless
<1>0. worker \in [Workers -> Worker]
  BY DEF TypeOK
<1>1. source[f] \in Sources
  BY DEF TypeOK
<1>2. /\ lock' = lock /\ UNCHANGED <<source, accepted, job>>
  BY DEF Reverify, AssertWebsite, WithdrawWebsite, OperatorScan, OperatorQc, Archive,
         queueUnchanged, evidenceUnchanged
<1>3. RowsKept
  BY <1>2, RowsUnchanged
<1>4. MarksOnly
  <2>1. CASE OperatorScan(f)
    <3>1. \A v \in Workers :
            worker'[v] = [worker[v] EXCEPT !.touched = TRUE] \/ worker'[v] = worker[v]
      BY <2>1 DEF OperatorScan
    <3>2. \A v \in Workers :
            /\ worker'[v] \in Worker
            /\ worker'[v].pc = worker[v].pc /\ worker'[v].job = worker[v].job
            /\ worker'[v].token = worker[v].token /\ worker'[v].code = worker[v].code
      BY <1>0, <3>1 DEF Worker
    <3>3. worker' \in [Workers -> Worker]
      BY <2>1, <3>2 DEF OperatorScan
    <3> QED
      BY <3>2, <3>3 DEF MarksOnly
  <2>2. CASE OperatorQc(f)
    <3>1. PICK passed \in BOOLEAN :
            worker' = [w \in Workers |->
              IF Compares(w, f, {"record"})
              THEN [worker[w] EXCEPT !.touched = ~passed, !.superseded = FALSE]
              ELSE worker[w]]
      BY <2>2 DEF OperatorQc
    <3>2. \A v \in Workers :
            \/ worker'[v] = [worker[v] EXCEPT !.touched = ~passed, !.superseded = FALSE]
            \/ worker'[v] = worker[v]
      BY <3>1
    <3>3. \A v \in Workers :
            /\ worker'[v] \in Worker
            /\ worker'[v].pc = worker[v].pc /\ worker'[v].job = worker[v].job
            /\ worker'[v].token = worker[v].token /\ worker'[v].code = worker[v].code
      BY <1>0, <3>2 DEF Worker
    <3>4. worker' \in [Workers -> Worker]
      BY <3>1, <3>3
    <3> QED
      BY <3>3, <3>4 DEF MarksOnly
  <2>3. CASE Touch(f) \/ Supersede(f) \/ UNCHANGED worker
    BY <2>3, Marks DEF TypeOK
  <2> QED
    BY <2>1, <2>2, <2>3 DEF Reverify, AssertWebsite, WithdrawWebsite, Archive
<1>5. \A g \in Firms : archived'[g] => archived[g] \/ NotRunning(g)
  <2>1. CASE Archive(f)
    BY <2>1 DEF Archive, TypeOK
  <2>2. CASE UNCHANGED archived
    BY <2>2
  <2> QED
    BY <2>1, <2>2 DEF Reverify, AssertWebsite, WithdrawWebsite, OperatorScan, OperatorQc
<1>6. archived' \in [Firms -> BOOLEAN]
  BY DEF Reverify, AssertWebsite, WithdrawWebsite, OperatorScan, OperatorQc, Archive, TypeOK
<1>7. attempt' \in [Firms -> [result : {"none", "verified", "transient", "permanent"},
                              source : Sources \cup {None}]]
  <2>1. \/ UNCHANGED attempt
        \/ \E result \in {"verified", "transient", "permanent"} :
             attempt' = [attempt EXCEPT ![f] = [result |-> result, source |-> source[f]]]
    BY DEF Reverify, AssertWebsite, WithdrawWebsite, OperatorScan, OperatorQc, Archive,
           evidenceUnchanged
  <2> QED
    BY <1>1, <2>1 DEF TypeOK
<1>8. website' \in [Firms -> [action : {"none", "assert", "withdraw"},
                              source : Sources \cup {None}]]
  <2>1. \/ UNCHANGED website
        \/ \E action \in {"assert", "withdraw"} :
             website' = [website EXCEPT ![f] = [action |-> action, source |-> source[f]]]
    BY DEF Reverify, AssertWebsite, WithdrawWebsite, OperatorScan, OperatorQc, Archive,
           evidenceUnchanged, SiteAsserted
  <2> QED
    BY <1>1, <2>1 DEF TypeOK
<1>9. input' \in [Firms -> Inputs \cup {None}]
  BY DEF Reverify, AssertWebsite, WithdrawWebsite, OperatorScan, OperatorQc, Archive,
         evidenceUnchanged, TypeOK
<1>10. scan' \in [Firms -> [job : ReJobs \cup {None}, source : Sources] \cup {None}]
  <2>1. \/ UNCHANGED scan
        \/ \E run \in {None, [job |-> None, source |-> source[f]]} :
             scan' = [scan EXCEPT ![f] = run]
    BY DEF Reverify, AssertWebsite, WithdrawWebsite, OperatorScan, OperatorQc, Archive,
           evidenceUnchanged
  <2> QED
    BY <1>1, <2>1 DEF TypeOK
<1>11. TypeOK'
  BY <1>2, <1>3, <1>4, <1>6, <1>7, <1>8, <1>9, <1>10 DEF TypeOK, MarksOnly, RowsKept
<1> QED
  BY <1>2, <1>3, <1>4, <1>5, <1>11 DEF Harmless

LEMMA WorldHarmless ==
  ASSUME TypeOK, Others \/ Tick
  PROVE  TypeOK' /\ Harmless
<1>1. CASE Tick
  <2>1. RowsKept /\ MarksOnly /\ UNCHANGED archived /\ lock' = lock
    BY <1>1, RowsPass, Marks DEF Tick, TypeOK
  <2>2. TypeOK'
    BY <1>1, <2>1 DEF Tick, evidenceUnchanged, TypeOK, RowsKept
  <2> QED
    BY <2>1, <2>2 DEF Harmless
<1>2. CASE Others
  <2>1. PICK f \in Firms :
          \/ \E s \in Sources : Import(f, s) \/ Ingest(f, s)
          \/ EnqueueHistory(f) \/ Archive(f)
          \/ \E result \in {"verified", "transient", "permanent"} : Reverify(f, result)
          \/ AssertWebsite(f) \/ WithdrawWebsite(f)
          \/ \E i \in Inputs : RequestReprocessing(f, i) \/ ConfirmWebsite(f, i)
          \/ OperatorScan(f) \/ OperatorQc(f)
    BY <1>2 DEF Others
  <2> QED
    BY <2>1, ImportHarmless, EnqueueHarmless, HistoryHarmless, EvidenceHarmless
<1> QED
  BY <1>1, <1>2

-----------------------------------------------------------------------------
(* The work on a job *)

\* A step of the work that is not the recording of its outcome.
Proceeds(w) ==
  /\ GoesOn(w) \/ Leaves(w)
  /\ RowsKept
  /\ archived' = archived

LEMMA PlainCodes ==
  /\ {"REFUSED", "VERIFICATION_FAILED", "WEBSITE_MISSING", "FCA_IDENTITY_CHANGED",
      "EVIDENCE_CHANGED", "SOURCE_CHANGED", "REPROCESSING_INPUT_CHANGED",
      "QC_STALE_BEFORE_COMPLETION", "TRANSIENT"} \subseteq FailureCodes
  /\ FailureCodes \subseteq Codes /\ PassCodes \subseteq Codes
  /\ FailureCodes \cap PassCodes = {}
BY DEF FailureCodes, PassCodes, TransientCodes, Codes

\* A step that leaves the tables alone and goes to another step or to recording.
LEMMA QuietStep ==
  ASSUME TypeOK, NEW w \in Workers, UNCHANGED <<job, lock, archived>>,
         \/ \E pc \in Steps \ (Rested \cup {"record"}) : Goto(w, pc)
         \/ \E code \in Codes : Conclude(w, code)
  PROVE  worker' \in [Workers -> Worker] /\ Proceeds(w)
<1>1. worker \in [Workers -> Worker] /\ RowsKept
  BY RowsUnchanged DEF TypeOK
<1>2. worker' \in [Workers -> Worker] /\ GoesOn(w)
  BY <1>1, GotoGoesOn, ConcludeGoesOn
<1> QED
  BY <1>1, <1>2 DEF Proceeds

LEMMA ReadingSteps ==
  ASSUME TypeOK, NEW w \in Workers,
         Check(w) \/ Verify(w) \/ Search(w) \/ Enrich(w) \/ RunQc(w) \/ Classify(w)
  PROVE  TypeOK' /\ Proceeds(w)
<1> SUFFICES worker' \in [Workers -> Worker] /\ Proceeds(w)
  BY DEF Check, Verify, Search, Enrich, RunQc, Classify, queueUnchanged,
         evidenceUnchanged, TypeOK, Proceeds, RowsKept
<1>1. UNCHANGED <<job, lock, archived>>
  BY DEF Check, Verify, Search, Enrich, RunQc, Classify, queueUnchanged
<1>2. {"verify", "verifying", "classify", "confirm", "confirming", "enrich", "scan"}
        \subseteq Steps \ (Rested \cup {"record"})
  BY DEF Steps, Rested
<1>3. CASE Check(w)
  <2>1. \/ \E code \in {"SOURCE_CHANGED", "REPROCESSING_INPUT_CHANGED"} : Conclude(w, code)
        \/ Goto(w, "verify")
    BY <1>3 DEF Check
  <2> QED
    BY <1>1, <1>2, <2>1, PlainCodes, QuietStep
<1>4. CASE Verify(w)
  <2>1. AfterVerification(w) \in {"confirm", "enrich"}
    BY DEF AfterVerification
  <2>2. \E pc \in {"classify", "verifying", "confirm", "enrich"} : Goto(w, pc)
    BY <1>4, <2>1 DEF Verify
  <2> QED
    BY <1>1, <1>2, <2>2, QuietStep
<1>5. CASE Search(w)
  <2>1. (\E pc \in {"enrich", "confirming"} : Goto(w, pc)) \/ Conclude(w, "REFUSED")
    BY <1>5 DEF Search
  <2> QED
    BY <1>1, <1>2, <2>1, PlainCodes, QuietStep
<1>6. CASE Enrich(w)
  <2>1. \/ \E code \in {"EVIDENCE_CHANGED", "WEBSITE_MISSING"} : Conclude(w, code)
        \/ Goto(w, "scan")
    BY <1>6 DEF Enrich
  <2> QED
    BY <1>1, <1>2, <2>1, PlainCodes, QuietStep
<1>7. CASE RunQc(w)
  <2>1. \E code \in PassCodes : Conclude(w, code)
    BY <1>7 DEF RunQc, PassCodes
  <2> QED
    BY <1>1, <2>1, PlainCodes, QuietStep
<1>8. CASE Classify(w)
  <2>1. \E code \in {"TRANSIENT", "REFUSED", "WEBSITE_MISSING", "VERIFICATION_FAILED"} :
          Conclude(w, code)
    BY <1>8 DEF Classify, FailureCode
  <2> QED
    BY <1>1, <2>1, PlainCodes, QuietStep
<1> QED
  BY <1>3, <1>4, <1>5, <1>6, <1>7, <1>8

\* A worker past its claim works on a job of a known firm.
LEMMA Working ==
  ASSUME TypeOK, WorkersAgree, NEW w \in Workers, worker[w].pc \notin Rested
  PROVE  /\ worker[w].job \in Jobs /\ FirmOf(worker[w].job) \in Firms
         /\ source[FirmOf(worker[w].job)] \in Sources
BY JobTypes DEF TypeOK, Worker, WorkersAgree

LEMMA VerificationStep ==
  ASSUME TypeOK, WorkersAgree, NEW w \in Workers, CommitVerification(w)
  PROVE  TypeOK' /\ Proceeds(w)
<1> DEFINE f == FirmOf(worker[w].job)
<1>1. f \in Firms /\ source[f] \in Sources
  BY Working DEF CommitVerification, At, Rested
<1>2. /\ UNCHANGED <<job, lock, archived>>
      /\ UNCHANGED <<source, accepted, website, scan>>
  BY DEF CommitVerification, queueUnchanged
<1>3. \E pc \in {"classify", "confirm", "enrich"} : Goto(w, pc)
  BY DEF CommitVerification, AfterVerification
<1>4. worker' \in [Workers -> Worker] /\ Proceeds(w)
  <2>1. {"classify", "confirm", "enrich"} \subseteq Steps \ (Rested \cup {"record"})
    BY DEF Steps, Rested
  <2> QED
    BY <1>2, <1>3, <2>1, QuietStep
<1>5. /\ attempt' \in [Firms -> [result : {"none", "verified", "transient", "permanent"},
                                 source : Sources \cup {None}]]
      /\ input' \in [Firms -> Inputs \cup {None}]
  <2>1. \/ UNCHANGED <<attempt, input>>
        \/ /\ \E result \in {"verified", "transient", "permanent"} :
                attempt' = [attempt EXCEPT ![f] = [result |-> result, source |-> source[f]]]
           /\ input' = [input EXCEPT ![f] = None]
    BY DEF CommitVerification
  <2>2. /\ attempt \in [Firms -> [result : {"none", "verified", "transient", "permanent"},
                                  source : Sources \cup {None}]]
        /\ input \in [Firms -> Inputs \cup {None}]
    BY DEF TypeOK
  <2>3. \A result \in {"verified", "transient", "permanent"} :
          [result |-> result, source |-> source[f]] \in
            [result : {"none", "verified", "transient", "permanent"},
             source : Sources \cup {None}]
    BY <1>1
  <2> QED
    BY <2>1, <2>2, <2>3
<1> QED
  BY <1>2, <1>4, <1>5 DEF TypeOK

LEMMA ConfirmationStep ==
  ASSUME TypeOK, WorkersAgree, NEW w \in Workers,
         AutoConfirmRaises(w) \/ \E i \in Inputs : AutoConfirm(w, i)
  PROVE  TypeOK' /\ Proceeds(w)
<1>1. CASE AutoConfirmRaises(w)
  <2>1. UNCHANGED <<archived, job>> /\ evidenceUnchanged /\ Exit(w)
    BY <1>1 DEF AutoConfirmRaises
  <2>2. worker' \in [Workers -> Worker] /\ Leaves(w)
    BY <2>1, ExitLeaves DEF TypeOK
  <2>3. lock' \in Workers \cup {None}
    BY <2>2 DEF Leaves, TypeOK
  <2>4. Proceeds(w)
    BY <2>1, <2>2, RowsUnchanged DEF Proceeds
  <2> QED
    BY <2>1, <2>2, <2>3, <2>4 DEF evidenceUnchanged, TypeOK
<1>2. ASSUME NEW i \in Inputs, AutoConfirm(w, i)
      PROVE  TypeOK' /\ Proceeds(w)
  <2> DEFINE f == FirmOf(worker[w].job)
  <2>1. f \in Firms /\ source[f] \in Sources
    BY <1>2, Working DEF AutoConfirm, At, Rested
  <2>2. RowsKept
    <3>1. <<"re", f, i>> \in Jobs
      BY <2>1, JobTypes
    <3> QED
      BY <1>2, <2>1, <3>1, RowQueued DEF AutoConfirm, EnqueueReprocessing, Fresh
  <2>3. worker' \in [Workers -> Worker] /\ GoesOn(w)
    <3>1. "enrich" \in Steps \ (Rested \cup {"record"})
      BY DEF Steps, Rested
    <3>2. Goto(w, "enrich") /\ UNCHANGED lock
      BY <1>2 DEF AutoConfirm
    <3> QED
      BY <3>1, <3>2, GotoGoesOn DEF TypeOK
  <2>4. /\ website' = [website EXCEPT ![f] = [action |-> "assert", source |-> source[f]]]
        /\ input' = [input EXCEPT ![f] = i]
        /\ UNCHANGED <<source, accepted, archived, attempt, scan, lock>>
    BY <1>2 DEF AutoConfirm, SiteAsserted, EnqueueReprocessing
  <2>5. /\ website' \in [Firms -> [action : {"none", "assert", "withdraw"},
                                   source : Sources \cup {None}]]
        /\ input' \in [Firms -> Inputs \cup {None}]
    BY <2>1, <2>4 DEF TypeOK
  <2> QED
    BY <2>2, <2>3, <2>4, <2>5 DEF Proceeds, TypeOK, RowsKept
<1> QED
  BY <1>1, <1>2

LEMMA ScanStep ==
  ASSUME TypeOK, WorkersAgree, NEW w \in Workers, CommitScan(w)
  PROVE  TypeOK' /\ Proceeds(w)
<1> DEFINE j == worker[w].job
           f == FirmOf(j)
<1>1. f \in Firms /\ source[f] \in Sources
  BY Working DEF CommitScan, At, Rested
<1>2. /\ UNCHANGED <<job, lock, archived>>
      /\ UNCHANGED <<source, accepted, attempt, website, input>>
  BY DEF CommitScan, queueUnchanged
<1>3. \/ \E code \in {"FCA_IDENTITY_CHANGED", "EVIDENCE_CHANGED", "TRANSIENT", "REFUSED"} :
           Conclude(w, code)
      \/ Goto(w, "qc")
  BY DEF CommitScan
<1>4. worker' \in [Workers -> Worker] /\ Proceeds(w)
  <2>1. "qc" \in Steps \ (Rested \cup {"record"})
    BY DEF Steps, Rested
  <2> QED
    BY <1>2, <1>3, <2>1, PlainCodes, QuietStep
<1>5. scan' \in [Firms -> [job : ReJobs \cup {None}, source : Sources] \cup {None}]
  <2>1. \/ UNCHANGED scan
        \/ scan' = [scan EXCEPT ![f] =
                     [job |-> IF j \in ReJobs THEN j ELSE None, source |-> source[f]]]
        \/ scan' = [scan EXCEPT ![f] = None]
    BY DEF CommitScan
  <2>2. [job |-> IF j \in ReJobs THEN j ELSE None, source |-> source[f]]
          \in [job : ReJobs \cup {None}, source : Sources]
    BY <1>1
  <2> QED
    BY <1>1, <2>1, <2>2 DEF TypeOK
<1> QED
  BY <1>2, <1>4, <1>5 DEF TypeOK

LEMMA WorkProceeds ==
  ASSUME TypeOK, WorkersAgree, NEW w \in Workers, Work(w), ~Record(w)
  PROVE  TypeOK' /\ Proceeds(w) /\ worker[w].pc \notin Rested
<1>1. worker[w].pc \notin Rested
  BY DEF Work, Check, Verify, CommitVerification, Search, AutoConfirm,
         AutoConfirmRaises, Enrich, CommitScan, RunQc, Classify, At, Rested
<1> QED
  BY <1>1, ReadingSteps, VerificationStep, ConfirmationStep, ScanStep DEF Work

-----------------------------------------------------------------------------
(* Claims are held *)

LEMMA HarmlessKeepsClaims ==
  ASSUME ClaimsInv, Harmless
  PROVE  LockIsExclusive' /\ WorkersAgree' /\ ClaimsAreHeld' /\ ArchivedFirmIsIdle'
<1>1. LockIsExclusive' /\ WorkersAgree'
  BY DEF ClaimsInv, Harmless, MarksOnly, LockIsExclusive, WorkersAgree, At
<1>2. ClaimsAreHeld'
  <2> SUFFICES ASSUME NEW v \in Workers, worker'[v].job # None
               PROVE  HoldsClaim(v)'
    BY DEF ClaimsAreHeld
  <2>1. /\ worker'[v].job = worker[v].job /\ worker'[v].token = worker[v].token
        /\ worker[v].job \in Jobs
    BY DEF ClaimsInv, Harmless, MarksOnly, TypeOK, Worker
  <2>2. HoldsClaim(v)
    BY <2>1 DEF ClaimsInv, ClaimsAreHeld
  <2> QED
    BY <2>1, <2>2 DEF HoldsClaim, Harmless, RowsKept
<1>3. ArchivedFirmIsIdle'
  BY DEF ClaimsInv, Harmless, RowsKept, ArchivedFirmIsIdle, NotRunning, FirmOf
<1> QED
  BY <1>1, <1>2, <1>3

\* The lock keeps all other workers off.
LEMMA Alone ==
  ASSUME ClaimsInv, NEW w \in Workers, ~At(w, "off")
  PROVE  /\ lock = w
         /\ \A v \in Workers \ {w} : worker[v].pc = "off" /\ worker[v].job = None
<1>1. lock = w /\ \A v \in Workers \ {w} : worker[v].pc = "off"
  BY DEF ClaimsInv, LockIsExclusive, At
<1> QED
  BY <1>1 DEF ClaimsInv, WorkersAgree, Rested

\* A worker that leaves holds nothing any more, and nobody else did.
LEMMA LeavesKeepsClaims ==
  ASSUME ClaimsInv, NEW w \in Workers, ~At(w, "off"), Leaves(w)
  PROVE  LockIsExclusive' /\ WorkersAgree' /\ ClaimsAreHeld'
<1>1. \A v \in Workers : worker'[v].pc = "off" /\ worker'[v].job = None
  <2>1. worker'[w].pc = "off" /\ worker'[w].job = None
    BY OffType DEF Leaves
  <2>2. \A v \in Workers \ {w} : worker[v].pc = "off" /\ worker[v].job = None
    BY Alone
  <2> QED
    BY <2>1, <2>2 DEF Leaves, Kept
<1> QED
  BY <1>1 DEF LockIsExclusive, WorkersAgree, ClaimsAreHeld, At, Rested

LEMMA ProceedsKeepsClaims ==
  ASSUME ClaimsInv, NEW w \in Workers, worker[w].pc \notin Rested, Proceeds(w)
  PROVE  LockIsExclusive' /\ WorkersAgree' /\ ClaimsAreHeld' /\ ArchivedFirmIsIdle'
<1>1. ArchivedFirmIsIdle'
  BY DEF ClaimsInv, Proceeds, RowsKept, ArchivedFirmIsIdle, NotRunning, FirmOf
<1>2. ~At(w, "off") /\ worker[w].job \in Jobs
  BY Working DEF At, Rested, ClaimsInv
<1>3. CASE Leaves(w)
  BY <1>1, <1>2, <1>3, LeavesKeepsClaims
<1>4. CASE GoesOn(w)
  <2>1. /\ lock' = w
        /\ \A v \in Workers \ {w} : worker'[v].pc = "off" /\ worker'[v].job = None
    BY <1>2, <1>4, Alone DEF GoesOn, Kept
  <2>2. /\ worker'[w].job = worker[w].job /\ worker'[w].token = worker[w].token
        /\ worker'[w].pc \notin Rested /\ (worker'[w].pc = "record" => worker'[w].code # None)
    BY <1>4 DEF GoesOn
  <2>3. worker[w].job # None
    BY <1>2, NullAssumption
  <2>4. HoldsClaim(w)
    BY <2>3 DEF ClaimsInv, ClaimsAreHeld
  <2>5. HoldsClaim(w)'
    BY <1>2, <2>2, <2>4 DEF HoldsClaim, Proceeds, RowsKept
  <2>6. LockIsExclusive'
    BY <2>1 DEF LockIsExclusive, At
  <2>7. WorkersAgree'
    BY <2>1, <2>2, <2>3 DEF WorkersAgree, Rested, At
  <2>8. ClaimsAreHeld'
    BY <2>1, <2>5 DEF ClaimsAreHeld
  <2> QED
    BY <1>1, <2>6, <2>7, <2>8
<1> QED
  BY <1>3, <1>4 DEF Proceeds

LEMMA StartKeepsClaims ==
  ASSUME ClaimsInv, NEW w \in Workers, Start(w)
  PROVE  ClaimsInv'
<1> DEFINE s == [Off EXCEPT !.pc = "claim", !.left = Limit]
<1>1. s \in Worker /\ s.pc = "claim" /\ s.job = None
  <2>1. Limit \in 0 .. Limit
    BY NumbersAssumption
  <2> QED
    BY <2>1, OffType
<1>2. worker' \in [Workers -> Worker] /\ worker'[w] = s /\ Kept(w)
  BY <1>1, BecomeAfter DEF Start, ClaimsInv, TypeOK
<1>3. \A v \in Workers \ {w} : worker'[v].pc = "off" /\ worker'[v].job = None
  <2>1. lock = None
    BY DEF Start
  <2>2. \A v \in Workers : worker[v].pc = "off"
    BY <2>1, NoneAssumption DEF ClaimsInv, LockIsExclusive, At
  <2> QED
    BY <1>2, <2>2 DEF Kept, ClaimsInv, WorkersAgree, Rested
<1>4. lock' = w /\ UNCHANGED <<archived, job>> /\ evidenceUnchanged
  BY DEF Start
<1>5. TypeOK'
  BY <1>2, <1>4 DEF ClaimsInv, TypeOK, evidenceUnchanged
<1>6. LockIsExclusive' /\ WorkersAgree' /\ ClaimsAreHeld'
  BY <1>1, <1>2, <1>3, <1>4 DEF LockIsExclusive, WorkersAgree, ClaimsAreHeld, At, Rested
<1>7. ArchivedFirmIsIdle'
  BY <1>4 DEF ClaimsInv, ArchivedFirmIsIdle, NotRunning, FirmOf
<1> QED
  BY <1>5, <1>6, <1>7 DEF ClaimsInv

LEMMA DieKeepsClaims ==
  ASSUME ClaimsInv, NEW w \in Workers, Die(w)
  PROVE  ClaimsInv'
<1>1. UNCHANGED <<archived, job>> /\ evidenceUnchanged /\ Exit(w) /\ ~At(w, "off")
  BY DEF Die
<1>2. worker' \in [Workers -> Worker] /\ Leaves(w)
  BY <1>1, ExitLeaves DEF ClaimsInv, TypeOK
<1>3. lock' \in Workers \cup {None}
  BY <1>2 DEF Leaves, ClaimsInv, TypeOK
<1>4. TypeOK'
  BY <1>1, <1>2, <1>3 DEF evidenceUnchanged, ClaimsInv, TypeOK
<1>5. ArchivedFirmIsIdle'
  BY <1>1 DEF ClaimsInv, ArchivedFirmIsIdle, NotRunning, FirmOf
<1> QED
  BY <1>1, <1>2, <1>4, <1>5, LeavesKeepsClaims DEF ClaimsInv

\* Lease recovery keeps the rows sound, and makes none of them running.
LEMMA RecoveryOfRows ==
  ASSUME TypeOK, NEW k \in Jobs
  PROVE  /\ Sound(Recovered(job[k])) /\ job[k] \in JobRow
         /\ Recovered(job[k]).attempts = job[k].attempts
         /\ Recovered(job[k]).state = "running" => job[k].state = "running"
BY JobsSound, RecoveredSound DEF TypeOK

LEMMA ClaimKeepsClaims ==
  ASSUME ClaimsInv, NEW w \in Workers, Claim(w)
  PROVE  ClaimsInv'
<1>1. ~At(w, "off") /\ UNCHANGED archived /\ evidenceUnchanged /\ TypeOK
  BY DEF Claim, At, ClaimsInv
<1>2. CASE \E j \in Jobs :
             /\ Claimable(j)
             /\ job' = [k \in Jobs |-> IF k = j THEN Claimed(Recovered(job[k]))
                                       ELSE Recovered(job[k])]
             /\ Become(w, [worker[w] EXCEPT !.pc = "check", !.job = j,
                             !.token = Recovered(job[j]).attempts + 1])
             /\ UNCHANGED lock
  <2>1. PICK j \in Jobs :
          /\ Claimable(j)
          /\ job' = [k \in Jobs |-> IF k = j THEN Claimed(Recovered(job[k]))
                                    ELSE Recovered(job[k])]
          /\ Become(w, [worker[w] EXCEPT !.pc = "check", !.job = j,
                          !.token = Recovered(job[j]).attempts + 1])
          /\ UNCHANGED lock
    BY <1>2
  <2> DEFINE row == Recovered(job[j])
             s == [worker[w] EXCEPT !.pc = "check", !.job = j, !.token = row.attempts + 1]
  <2>2. Sound(row) /\ row.state = "pending" /\ ~archived[FirmOf(j)]
    BY <1>1, <2>1, RecoveryOfRows DEF Claimable
  <2>3. /\ Sound(Claimed(row)) /\ Claimed(row).state = "running"
        /\ Claimed(row).attempts = row.attempts + 1
        /\ row.attempts + 1 \in 0 .. MaxAttempts
    BY <2>2, ClaimedSound
  <2>4. /\ job'[j] = Claimed(row)
        /\ \A k \in Jobs \ {j} : job'[k] = Recovered(job[k])
    BY <2>1
  <2>5. \A k \in Jobs : Sound(job'[k])
    BY <1>1, <2>3, <2>4, RecoveryOfRows
  <2>6. job' \in [Jobs -> JobRow] /\ \A k \in Jobs : WellFormed(job'[k])
    BY <2>1, <2>5 DEF Sound
  <2>7. /\ s \in Worker /\ s.pc = "check" /\ s.job = j /\ s.token = row.attempts + 1
    <3>1. worker[w] \in Worker
      BY <1>1 DEF TypeOK
    <3>2. "check" \in Steps /\ j \in Jobs \cup {None}
      BY DEF Steps
    <3> QED
      BY <2>3, <3>1, <3>2 DEF Worker
  <2>8. worker' \in [Workers -> Worker] /\ worker'[w] = s /\ Kept(w)
    BY <1>1, <2>1, <2>7, BecomeAfter DEF TypeOK
  <2>9. /\ lock' = w
        /\ \A v \in Workers \ {w} : worker'[v].pc = "off" /\ worker'[v].job = None
    BY <1>1, <2>1, <2>8, Alone DEF Kept
  <2>10. TypeOK'
    <3>1. UNCHANGED <<source, accepted, archived, attempt, website, input, scan, lock>>
      BY <1>1, <2>1 DEF evidenceUnchanged
    <3> QED
      BY <1>1, <2>6, <2>8, <3>1 DEF TypeOK
  <2>11. LockIsExclusive' /\ WorkersAgree'
    <3>1. worker'[w].pc = "check" /\ worker'[w].job # None
      BY <2>7, <2>8, NullAssumption
    <3>2. \A v \in Workers \ {w} : worker'[v].pc = "off" /\ worker'[v].job = None
      BY <2>9
    <3>3. LockIsExclusive'
      BY <2>9, <3>2 DEF LockIsExclusive, At
    <3> QED
      BY <3>1, <3>2, <3>3 DEF WorkersAgree, At, Rested
  <2>12. ClaimsAreHeld'
    BY <2>3, <2>4, <2>7, <2>8, <2>9 DEF ClaimsAreHeld, HoldsClaim
  <2>13. ArchivedFirmIsIdle'
    <3> SUFFICES ASSUME NEW f \in Firms, archived[f], NEW k \in Jobs, FirmOf(k) = f,
                        job'[k].state = "running"
                 PROVE  FALSE
      BY <1>1 DEF ArchivedFirmIsIdle, NotRunning, FirmOf
    <3>1. k # j
      BY <2>2
    <3>2. job[k].state = "running"
      BY <1>1, <2>4, <3>1, RecoveryOfRows
    <3> QED
      BY <3>2 DEF ClaimsInv, ArchivedFirmIsIdle, NotRunning
  <2> QED
    BY <2>10, <2>11, <2>12, <2>13 DEF ClaimsInv
<1>3. CASE job' = [j \in Jobs |-> Recovered(job[j])] /\ Exit(w)
  <2>1. worker' \in [Workers -> Worker] /\ Leaves(w)
    BY <1>1, <1>3, ExitLeaves DEF TypeOK
  <2>2. lock' \in Workers \cup {None}
    BY <1>1, <2>1 DEF Leaves, TypeOK
  <2>3. \A k \in Jobs : job'[k] = Recovered(job[k]) /\ Sound(job'[k])
    BY <1>1, <1>3, RecoveryOfRows
  <2>4. job' \in [Jobs -> JobRow] /\ \A k \in Jobs : WellFormed(job'[k])
    BY <1>3, <2>3 DEF Sound
  <2>5. TypeOK'
    BY <1>1, <2>1, <2>2, <2>4 DEF TypeOK, evidenceUnchanged
  <2>6. ArchivedFirmIsIdle'
    BY <1>1, <2>3, RecoveryOfRows DEF ClaimsInv, ArchivedFirmIsIdle, NotRunning, FirmOf
  <2> QED
    BY <1>1, <2>1, <2>5, <2>6, LeavesKeepsClaims DEF ClaimsInv
<1> QED
  BY <1>2, <1>3 DEF Claim

\* What is recorded is a code, whatever replaced the one the work ended with.
LEMMA FinalCodes ==
  ASSUME TypeOK, WorkersAgree, NEW w \in Workers, At(w, "record")
  PROVE  FinalCode(w) \in Codes
<1>1. worker[w].code \in PassCodes \cup FailureCodes \cup {None}
  BY DEF TypeOK, Worker
<1>2. worker[w].code \in Codes
  BY <1>1 DEF WorkersAgree, Codes
<1> QED
  BY <1>2, PlainCodes DEF FinalCode

\* The row of the claim alone is settled, or queued for a retry.
LEMMA RecordedRows ==
  ASSUME ClaimsInv, NEW w \in Workers, Record(w)
  PROVE  /\ job' \in [Jobs -> JobRow] /\ \A k \in Jobs : WellFormed(job'[k])
         /\ \A k \in Jobs : job'[k].state = "running" => job[k].state = "running"
<1> DEFINE j == worker[w].job
<1>1. TypeOK /\ WorkersAgree /\ At(w, "record") /\ j \in Jobs
  BY Working DEF ClaimsInv, Record, At, Rested
<1>2. CASE ~HoldsClaim(w)
  BY <1>1, <1>2 DEF Record, TypeOK
<1>3. CASE HoldsClaim(w)
  <2>1. job' = [job EXCEPT ![j] = Outcome(@, FinalCode(w))]
    BY <1>3 DEF Record
  <2>2. Sound(job[j]) /\ job[j].state = "running" /\ FinalCode(w) \in Codes
    BY <1>1, <1>3, JobsSound, FinalCodes DEF HoldsClaim
  <2>3. Sound(Outcome(job[j], FinalCode(w)))
    BY <2>2, OutcomeSound
  <2>4. job \in [Jobs -> JobRow] /\ \A k \in Jobs : WellFormed(job[k])
    BY <1>1 DEF TypeOK
  <2>5. /\ job'[j] = Outcome(job[j], FinalCode(w))
        /\ \A k \in Jobs \ {j} : job'[k] = job[k]
    BY <1>1, <2>1, <2>4
  <2>6. job' \in [Jobs -> JobRow]
    BY <2>1, <2>3, <2>4 DEF Sound
  <2>7. \A k \in Jobs : WellFormed(job'[k])
    BY <2>3, <2>4, <2>5 DEF Sound
  <2>8. \A k \in Jobs : job'[k].state = "running" => job[k].state = "running"
    BY <2>2, <2>5
  <2> QED
    BY <2>6, <2>7, <2>8
<1> QED
  BY <1>2, <1>3

LEMMA RecordKeepsClaims ==
  ASSUME ClaimsInv, NEW w \in Workers, Record(w)
  PROVE  ClaimsInv'
<1>1. /\ TypeOK /\ ~At(w, "off") /\ UNCHANGED archived /\ evidenceUnchanged
      /\ worker \in [Workers -> Worker]
  BY DEF Record, At, ClaimsInv, TypeOK
<1>2. ArchivedFirmIsIdle'
  BY <1>1, RecordedRows DEF ClaimsInv, ArchivedFirmIsIdle, NotRunning, FirmOf
<1>3. CASE Exit(w)
  <2>1. worker' \in [Workers -> Worker] /\ Leaves(w)
    BY <1>1, <1>3, ExitLeaves
  <2>2. lock' \in Workers \cup {None}
    BY <1>1, <2>1 DEF Leaves, TypeOK
  <2>3. TypeOK'
    BY <1>1, <2>1, <2>2, RecordedRows DEF TypeOK, evidenceUnchanged
  <2> QED
    BY <1>1, <1>2, <2>1, <2>3, LeavesKeepsClaims DEF ClaimsInv
<1>4. CASE /\ worker[w].left > 1 /\ UNCHANGED lock
           /\ Become(w, [Off EXCEPT !.pc = "claim", !.left = worker[w].left - 1])
  <2> DEFINE s == [Off EXCEPT !.pc = "claim", !.left = worker[w].left - 1]
  <2>1. worker[w].left - 1 \in 0 .. Limit
    BY <1>1, <1>4, NumbersAssumption DEF Worker
  <2>2. s \in Worker /\ s.pc = "claim" /\ s.job = None
    BY <2>1, OffType
  <2>3. worker' \in [Workers -> Worker] /\ worker'[w] = s /\ Kept(w)
    BY <1>1, <1>4, <2>2, BecomeAfter
  <2>4. \A v \in Workers \ {w} : worker'[v].pc = "off" /\ worker'[v].job = None
    BY <1>1, <2>3, Alone DEF Kept
  <2>5. worker'[w].pc = "claim" /\ worker'[w].job = None
    BY <2>2, <2>3
  <2>6. lock' = w /\ lock' = lock
    BY <1>1, <1>4, Alone
  <2>7. TypeOK'
    BY <1>1, <2>3, <2>6, RecordedRows DEF TypeOK, evidenceUnchanged
  <2>8. LockIsExclusive'
    BY <2>4, <2>6 DEF LockIsExclusive, At
  <2>9. WorkersAgree' /\ ClaimsAreHeld'
    BY <2>4, <2>5 DEF WorkersAgree, ClaimsAreHeld, At, Rested
  <2> QED
    BY <1>2, <2>7, <2>8, <2>9 DEF ClaimsInv
<1> QED
  BY <1>3, <1>4 DEF Record

-----------------------------------------------------------------------------
(* The inductive invariant *)

LEMMA InitClaims == Init => ClaimsInv
<1> SUFFICES ASSUME Init PROVE ClaimsInv
  OBVIOUS
<1>1. \A w \in Workers : worker[w] = Off
  BY DEF Init
<1>2. \A j \in Jobs : job[j] = NoJob
  BY DEF Init
<1>3. TypeOK
  <2>1. worker \in [Workers -> Worker]
    BY OffType DEF Init
  <2>2. job \in [Jobs -> JobRow] /\ \A j \in Jobs : WellFormed(job[j])
    BY <1>2, NoJobSound DEF Init, Sound
  <2>3. /\ source \in [Firms -> Sources]
        /\ accepted \in [Firms -> SUBSET Sources]
        /\ archived \in [Firms -> BOOLEAN]
    BY DEF Init
  <2>4. attempt \in [Firms -> [result : {"none", "verified", "transient", "permanent"},
                               source : Sources \cup {None}]]
    BY DEF Init, NoAttempt
  <2>5. website \in [Firms -> [action : {"none", "assert", "withdraw"},
                               source : Sources \cup {None}]]
    BY DEF Init
  <2>6. /\ input \in [Firms -> Inputs \cup {None}]
        /\ scan \in [Firms -> [job : ReJobs \cup {None}, source : Sources] \cup {None}]
        /\ lock \in Workers \cup {None}
    BY DEF Init
  <2> QED
    BY <2>1, <2>2, <2>3, <2>4, <2>5, <2>6 DEF TypeOK
<1>4. \A w \in Workers : worker[w].pc = "off" /\ worker[w].job = None
  BY <1>1, OffType
<1>5. LockIsExclusive /\ WorkersAgree /\ ClaimsAreHeld
  BY <1>4 DEF LockIsExclusive, WorkersAgree, ClaimsAreHeld, At, Rested
<1>6. ArchivedFirmIsIdle
  BY DEF Init, ArchivedFirmIsIdle
<1> QED
  BY <1>3, <1>5, <1>6 DEF ClaimsInv

LEMMA NextClaims == ClaimsInv /\ [Next]_vars => ClaimsInv'
<1> SUFFICES ASSUME ClaimsInv, [Next]_vars PROVE ClaimsInv'
  OBVIOUS
<1>1. TypeOK /\ WorkersAgree
  BY DEF ClaimsInv
<1>2. ASSUME NEW w \in Workers, Start(w) PROVE ClaimsInv'
  BY <1>2, StartKeepsClaims
<1>3. ASSUME NEW w \in Workers, Claim(w) PROVE ClaimsInv'
  BY <1>3, ClaimKeepsClaims
<1>4. ASSUME NEW w \in Workers, Work(w) PROVE ClaimsInv'
  <2>1. CASE Record(w)
    BY <2>1, RecordKeepsClaims
  <2>2. CASE ~Record(w)
    BY <1>1, <1>4, <2>2, WorkProceeds, ProceedsKeepsClaims DEF ClaimsInv
  <2> QED
    BY <2>1, <2>2
<1>5. ASSUME NEW w \in Workers, Die(w) PROVE ClaimsInv'
  BY <1>5, DieKeepsClaims
<1>6. CASE Others \/ Tick
  BY <1>1, <1>6, WorldHarmless, HarmlessKeepsClaims DEF ClaimsInv
<1>7. CASE UNCHANGED vars
  BY <1>7 DEF vars, ClaimsInv, TypeOK, WellFormed, LockIsExclusive, WorkersAgree,
              ClaimsAreHeld, HoldsClaim, ArchivedFirmIsIdle, NotRunning, At, FirmOf
<1> QED
  BY <1>2, <1>3, <1>4, <1>5, <1>6, <1>7 DEF Next

\* In every reachable state the lock excludes, the claims are held, and archived
\* firms are idle: the invariant of process_fca_queue and its tables.
THEOREM Claims == Spec => []ClaimsInv
<1> QED
  BY InitClaims, NextClaims, PTL DEF Spec

\* The rows of both job tables keep to their columns' types and their CHECK
\* constraint, and the worker's state to its own.
THEOREM QueueTypes == Spec => []TypeOK
<1>1. ClaimsInv => TypeOK
  BY DEF ClaimsInv
<1> QED
  BY <1>1, Claims, PTL

\* _record_outcome never finds its completion lost: whatever the clock, imports
\* and operators do, the job a worker works on stays running under its claim.
THEOREM Held == Spec => []ClaimsAreHeld
<1>1. ClaimsInv => ClaimsAreHeld
  BY DEF ClaimsInv
<1> QED
  BY <1>1, Claims, PTL

\* No job of an archived firm is running, in either table: record_archive_event
\* and _claim_next_job exclude each other, for all firms and workers.
THEOREM Idle == Spec => []ArchivedFirmIsIdle
<1>1. ClaimsInv => ArchivedFirmIsIdle
  BY DEF ClaimsInv
<1> QED
  BY <1>1, Claims, PTL

-----------------------------------------------------------------------------
(* The evidence: what a step does to the rows and runs it rests on *)

\* A row stays queued for its source, and no QC_PASS appears on it.
RowsGo ==
  \A j \in Jobs :
    /\ job[j].state # "none" => job'[j].state # "none" /\ job'[j].source = job[j].source
    /\ job'[j].outcome = "QC_PASS" => job[j].outcome = "QC_PASS"

LEMMA KeptRowsGo ==
  ASSUME RowsKept
  PROVE  RowsGo
<1>1. None # "QC_PASS"
  BY NullAssumption DEF PassCodes
<1>2. SUFFICES ASSUME NEW j \in Jobs
               PROVE  /\ job[j].state # "none" =>
                           job'[j].state # "none" /\ job'[j].source = job[j].source
                      /\ job'[j].outcome = "QC_PASS" => job[j].outcome = "QC_PASS"
  BY DEF RowsGo
<1>3. CASE job[j].state # "none"
  BY <1>3 DEF RowsKept
<1>4. CASE job[j].state = "none"
  BY <1>1, <1>4 DEF RowsKept
<1> QED
  BY <1>3, <1>4

\* Recovery and a claim pass nothing: a claim has no outcome.
LEMMA ClaimRowsGo ==
  ASSUME TypeOK, NEW w \in Workers, Claim(w)
  PROVE  RowsGo
<1>1. SUFFICES ASSUME NEW k \in Jobs
               PROVE  /\ job[k].state # "none" =>
                           job'[k].state # "none" /\ job'[k].source = job[k].source
                      /\ job'[k].outcome = "QC_PASS" => job[k].outcome = "QC_PASS"
  BY DEF RowsGo
<1> DEFINE row == Recovered(job[k])
<1>2. Sound(job[k])
  BY JobsSound
<1>3. /\ Sound(row) /\ row.source = job[k].source
      /\ job[k].state # "none" => row.state # "none"
      /\ row.outcome = "QC_PASS" => job[k].outcome = "QC_PASS"
  BY <1>2, RecoveredSound
<1>4. job'[k] = row \/ (job'[k] = Claimed(row) /\ row.state = "pending")
  BY DEF Claim, Claimable
<1>5. CASE job'[k] = row
  BY <1>3, <1>5
<1>6. CASE job'[k] = Claimed(row) /\ row.state = "pending"
  <2>1. /\ Claimed(row).state = "running" /\ Claimed(row).source = row.source
        /\ Claimed(row).outcome = None
    BY <1>3, <1>6, ClaimedSound
  <2>2. None # "QC_PASS"
    BY NullAssumption DEF PassCodes
  <2> QED
    BY <1>3, <1>6, <2>1, <2>2
<1> QED
  BY <1>4, <1>5, <1>6

\* Recording writes the row of the claim, and there the final code.
LEMMA RecordRows ==
  ASSUME ClaimsInv, NEW w \in Workers, Record(w), NEW k \in Jobs
  PROVE  /\ job[k].state # "none" =>
              job'[k].state # "none" /\ job'[k].source = job[k].source
         /\ job'[k] # job[k] => k = worker[w].job /\ job'[k].outcome = FinalCode(w)
<1> DEFINE j == worker[w].job
<1>1. TypeOK /\ WorkersAgree /\ At(w, "record") /\ j \in Jobs
  BY Working DEF ClaimsInv, Record, At, Rested
<1>2. CASE ~HoldsClaim(w)
  BY <1>2 DEF Record
<1>3. CASE HoldsClaim(w)
  <2>1. job' = [job EXCEPT ![j] = Outcome(@, FinalCode(w))]
    BY <1>3 DEF Record
  <2>2. Sound(job[j]) /\ job[j].state = "running" /\ FinalCode(w) \in Codes
    BY <1>1, <1>3, JobsSound, FinalCodes DEF HoldsClaim
  <2>3. /\ Outcome(job[j], FinalCode(w)).state # "none"
        /\ Outcome(job[j], FinalCode(w)).source = job[j].source
        /\ Outcome(job[j], FinalCode(w)).outcome = FinalCode(w)
    BY <2>2, OutcomeSound
  <2>4. job \in [Jobs -> JobRow]
    BY <1>1 DEF TypeOK
  <2> QED
    BY <1>1, <2>1, <2>3, <2>4
<1> QED
  BY <1>2, <1>3

\* The step of a worker that is not its recording passes nothing either.
LEMMA WorkerRowsGo ==
  ASSUME ClaimsInv, NEW w \in Workers,
         Start(w) \/ Claim(w) \/ Die(w) \/ (Work(w) /\ ~Record(w))
  PROVE  RowsGo
<1>1. TypeOK /\ WorkersAgree
  BY DEF ClaimsInv
<1>2. CASE Start(w) \/ Die(w)
  BY <1>1, <1>2, RowsUnchanged, KeptRowsGo DEF Start, Die
<1>3. CASE Claim(w)
  BY <1>1, <1>3, ClaimRowsGo
<1>4. CASE Work(w) /\ ~Record(w)
  BY <1>1, <1>4, WorkProceeds, KeptRowsGo DEF Proceeds
<1> QED
  BY <1>2, <1>3, <1>4

\* Runs stay sourced as long as the rows go on and no run is written.
LEMMA SourcedUnlessScanned ==
  ASSUME TypeOK, ScansAreSourced, UNCHANGED scan,
         \A j \in Jobs : job[j].state # "none" =>
           job'[j].state # "none" /\ job'[j].source = job[j].source
  PROVE  ScansAreSourced'
<1>1. \A f \in Firms : (scan[f] # None /\ scan[f].job # None) => scan[f].job \in Jobs
  BY JobTypes DEF TypeOK
<1>2. \A f \in Firms :
        (scan[f] # None /\ scan[f].job # None) =>
          job[scan[f].job].state # "none" /\ FirmOf(scan[f].job) = f
            /\ job[scan[f].job].source = scan[f].source
  BY DEF ScansAreSourced
<1>3. SUFFICES ASSUME NEW f \in Firms, scan[f] # None
               PROVE  LET j == scan[f].job
                      IN IF j = None THEN scan[f].source \notin NoSite
                         ELSE FirmOf(j) = f /\ job'[j].state # "none"
                                /\ job'[j].source = scan[f].source
  BY DEF ScansAreSourced, FirmOf
<1>4. CASE scan[f].job = None
  BY <1>3, <1>4 DEF ScansAreSourced
<1>5. CASE scan[f].job # None
  BY <1>1, <1>2, <1>3, <1>5
<1> QED
  BY <1>4, <1>5

\* A run that is written is sourced, whoever writes it.
LEMMA SourcedWhenScanned ==
  ASSUME TypeOK, ScansAreSourced, UNCHANGED job, NEW f \in Firms, NEW run,
         scan' = [scan EXCEPT ![f] = run],
         run # None =>
           LET j == run.job
           IN IF j = None THEN run.source \notin NoSite
              ELSE FirmOf(j) = f /\ job[j].state # "none" /\ job[j].source = run.source
  PROVE  ScansAreSourced'
<1>1. SUFFICES ASSUME NEW g \in Firms, scan'[g] # None
               PROVE  LET j == scan'[g].job
                      IN IF j = None THEN scan'[g].source \notin NoSite
                         ELSE FirmOf(j) = g /\ job'[j].state # "none"
                                /\ job'[j].source = scan'[g].source
  BY DEF ScansAreSourced, FirmOf
<1>2. CASE g = f
  <2>1. scan'[g] = run
    BY <1>2 DEF TypeOK
  <2> QED
    BY <1>1, <1>2, <2>1
<1>3. CASE g # f
  <2>1. scan'[g] = scan[g]
    BY <1>3 DEF TypeOK
  <2> QED
    BY <1>1, <2>1 DEF ScansAreSourced
<1> QED
  BY <1>2, <1>3

LEMMA OthersSourced ==
  ASSUME TypeOK, ScansAreSourced, Others \/ Tick
  PROVE  ScansAreSourced'
<1>1. CASE UNCHANGED scan
  BY <1>1, WorldHarmless, SourcedUnlessScanned DEF Harmless, RowsKept
<1>2. ASSUME NEW f \in Firms, OperatorScan(f) PROVE ScansAreSourced'
  <2>1. PICK run \in {None, [job |-> None, source |-> source[f]]} :
          scan' = [scan EXCEPT ![f] = run]
    BY <1>2 DEF OperatorScan
  <2>2. source[f] \notin NoSite /\ UNCHANGED job
    BY <1>2 DEF OperatorScan, queueUnchanged
  <2>3. run # None => run.job = None /\ run.source \notin NoSite
    BY <2>1, <2>2
  <2> QED
    BY <2>1, <2>2, <2>3, SourcedWhenScanned
<1>3. UNCHANGED scan \/ \E f \in Firms : OperatorScan(f)
  BY DEF Others, Tick, Import, Ingest, Observe, EnqueueHistory, Archive, Reverify,
         AssertWebsite, WithdrawWebsite, RequestReprocessing, ConfirmWebsite,
         OperatorQc, evidenceUnchanged
<1> QED
  BY <1>1, <1>2, <1>3

\* run_enrichment writes a run of the website that it was to scan.
LEMMA CommitSourced ==
  ASSUME ClaimsInv, EvidenceInv, NEW w \in Workers, CommitScan(w)
  PROVE  ScansAreSourced'
<1> DEFINE j == worker[w].job
           f == FirmOf(j)
           run == [job |-> IF j \in ReJobs THEN j ELSE None, source |-> source[f]]
<1>1. /\ TypeOK /\ WorkersAgree /\ ScansAreSourced /\ UNCHANGED job
      /\ At(w, "scan") /\ j \in Jobs /\ f \in Firms
  BY Working DEF ClaimsInv, EvidenceInv, CommitScan, At, Rested, queueUnchanged
<1>2. CASE UNCHANGED scan
  BY <1>1, <1>2, SourcedUnlessScanned
<1>3. CASE scan' = [scan EXCEPT ![f] = None]
  BY <1>1, <1>3, SourcedWhenScanned
<1>4. CASE /\ ~worker[w].touched /\ (j \in ReJobs => InputCurrent(j))
           /\ scan' = [scan EXCEPT ![f] = run]
  <2>1. CASE j \in ReJobs
    <3>1. run.job = j /\ run.source = source[f] /\ j # None
      BY <2>1, NullAssumption DEF Jobs
    <3>2. job[j].state # "none"
      BY <1>1, <3>1 DEF ClaimsInv, ClaimsAreHeld, HoldsClaim
    <3>3. job[j].source = source[f]
      BY <1>4, <2>1 DEF InputCurrent
    <3> QED
      BY <1>1, <1>4, <3>1, <3>2, <3>3, SourcedWhenScanned
  <2>2. CASE j \notin ReJobs
    <3>1. run.job = None /\ run.source = source[f]
      BY <2>2
    <3>2. source[f] \notin NoSite
      BY <1>1, <1>4, <2>2 DEF EvidenceInv, ScannedSiteExists, Jobs
    <3> QED
      BY <1>1, <1>4, <3>1, <3>2, SourcedWhenScanned
  <2> QED
    BY <2>1, <2>2
<1> QED
  BY <1>2, <1>3, <1>4 DEF CommitScan

LEMMA WorkersSourced ==
  ASSUME ClaimsInv, EvidenceInv, NEW w \in Workers,
         Start(w) \/ Claim(w) \/ Work(w) \/ Die(w)
  PROVE  ScansAreSourced'
<1>1. CASE CommitScan(w)
  BY <1>1, CommitSourced
<1>2. CASE ~CommitScan(w)
  <2>1. UNCHANGED scan
    BY <1>2 DEF Start, Claim, Die, Work, Check, Verify, CommitVerification, Search,
                AutoConfirm, AutoConfirmRaises, Enrich, RunQc, Classify, Record,
                evidenceUnchanged
  <2>2. \A j \in Jobs : job[j].state # "none" =>
          job'[j].state # "none" /\ job'[j].source = job[j].source
    BY WorkerRowsGo, RecordRows DEF RowsGo
  <2> QED
    BY <2>1, <2>2, SourcedUnlessScanned DEF ClaimsInv, EvidenceInv
<1> QED
  BY <1>1, <1>2

-----------------------------------------------------------------------------
(* The website a worker scans *)

\* Whoever changes the firm's source or its website marks the worker that scans.
LEMMA OthersKeepSite ==
  ASSUME TypeOK, WorkersAgree, ScannedSiteExists, Others \/ Tick
  PROVE  ScannedSiteExists'
<1>1. MarksOnly
  BY WorldHarmless DEF Harmless
<1>2. SUFFICES ASSUME NEW v \in Workers, At(v, "scan"), worker[v].job \in FcaJobs,
                      ~worker'[v].touched
               PROVE  source'[FirmOf(worker[v].job)] \notin NoSite
  BY <1>1 DEF MarksOnly, ScannedSiteExists, At, FirmOf, FcaJobs
<1> DEFINE g == FirmOf(worker[v].job)
<1>3. g \in Firms /\ worker[v].job # None /\ worker \in [Workers -> Worker]
  BY <1>2, NullAssumption, JobTypes DEF TypeOK
<1>4. ASSUME UNCHANGED source, worker'[v].touched = worker[v].touched
      PROVE  source'[g] \notin NoSite
  BY <1>2, <1>4 DEF ScannedSiteExists
<1>5. ASSUME NEW f \in Firms, NEW s \in Sources, Import(f, s) \/ Ingest(f, s)
      PROVE  source'[g] \notin NoSite
  <2>1. source' = [source EXCEPT ![f] = s] /\ Touch(f)
    BY <1>5 DEF Import, Ingest, Observe
  <2>2. CASE g = f
    <3>1. Compares(v, f, {"verifying", "scan", "record"})
      BY <1>2, <1>3, <2>2 DEF Compares, At
    <3>2. worker'[v].touched = TRUE
      BY <1>3, <2>1, <3>1 DEF Touch, Worker
    <3> QED
      BY <1>2, <3>2
  <2>3. CASE g # f
    <3>1. ~Compares(v, f, {"verifying", "scan", "record"})
      BY <2>3 DEF Compares
    <3>2. worker'[v] = worker[v]
      BY <2>1, <3>1 DEF Touch
    <3>3. source'[g] = source[g]
      BY <2>1, <2>3 DEF TypeOK
    <3> QED
      BY <1>2, <3>2, <3>3 DEF ScannedSiteExists
  <2> QED
    BY <2>2, <2>3
<1>6. ASSUME NEW f \in Firms,
             \E result \in {"verified", "transient", "permanent"} : Reverify(f, result)
      PROVE  source'[g] \notin NoSite
  <2>1. UNCHANGED source /\ Supersede(f)
    BY <1>6 DEF Reverify
  <2>2. worker'[v].touched = worker[v].touched
    BY <1>3, <2>1 DEF Supersede, Worker
  <2> QED
    BY <1>4, <2>1, <2>2
<1>7. ASSUME NEW f \in Firms, OperatorScan(f) \/ OperatorQc(f)
      PROVE  source'[g] \notin NoSite
  <2>1. ~Compares(v, f, {"record"})
    BY <1>2 DEF Compares, At
  <2>2. UNCHANGED source /\ worker'[v] = worker[v]
    BY <1>7, <2>1 DEF OperatorScan, OperatorQc, evidenceUnchanged
  <2> QED
    BY <1>4, <2>2
<1>8. CASE UNCHANGED <<source, worker>>
  BY <1>4, <1>8
<1> QED
  BY <1>5, <1>6, <1>7, <1>8
     DEF Others, Tick, EnqueueHistory, Archive, AssertWebsite, WithdrawWebsite,
         RequestReprocessing, ConfirmWebsite, evidenceUnchanged

\* A worker gets to the scan from run_enrichment's reading of the website alone.
LEMMA ReachesScan ==
  ASSUME TypeOK, WorkersAgree, NEW w \in Workers,
         Start(w) \/ Claim(w) \/ Work(w) \/ Die(w), worker'[w].pc = "scan"
  PROVE  Enrich(w) /\ Goto(w, "scan")
<1>1. worker \in [Workers -> Worker] /\ worker[w] \in Worker
  BY DEF TypeOK
<1>2. ASSUME NEW pc \in Steps, Goto(w, pc) PROVE pc = "scan"
  BY <1>1, <1>2, GotoAfter
<1>3. ASSUME NEW code, Conclude(w, code) PROVE FALSE
  BY <1>1, <1>3 DEF Conclude, Become, Worker
<1>4. ~Exit(w)
  BY <1>1, ExitLeaves, OffType DEF Leaves
<1>5. ~Start(w)
  <2>1. ASSUME Start(w) PROVE FALSE
    <3>1. Become(w, [Off EXCEPT !.pc = "claim", !.left = Limit])
      BY <2>1 DEF Start
    <3> QED
      BY <1>1, <3>1 DEF Become, Off
  <2> QED
    BY <2>1
<1>6. ~Claim(w)
  BY <1>1, <1>4 DEF Claim, Become, Worker
<1>7. ~Die(w) /\ ~AutoConfirmRaises(w)
  BY <1>4 DEF Die, AutoConfirmRaises
<1>8. ~Record(w)
  <2>1. ASSUME NEW n, Become(w, [Off EXCEPT !.pc = "claim", !.left = n]) PROVE FALSE
    BY <1>1, <2>1 DEF Become, Off
  <2> QED
    BY <1>4, <2>1 DEF Record
<1>9. {"classify", "confirm", "enrich", "verify", "verifying", "confirming", "qc",
       "scan"} \subseteq Steps /\ AfterVerification(w) \in {"confirm", "enrich"}
  BY DEF Steps, AfterVerification
<1>10. ~Check(w) /\ ~Verify(w)
  BY <1>2, <1>3, <1>9 DEF Check, Verify
<1>11. ~CommitVerification(w) /\ ~Search(w)
  BY <1>2, <1>3, <1>9 DEF CommitVerification, Search
<1>12. \A i \in Inputs : ~AutoConfirm(w, i)
  BY <1>2, <1>9 DEF AutoConfirm
<1>13. ~CommitScan(w)
  BY <1>2, <1>3, <1>9 DEF CommitScan
<1>14. ~RunQc(w) /\ ~Classify(w)
  BY <1>3 DEF RunQc, Classify
<1>15. Enrich(w)
  BY <1>5, <1>6, <1>7, <1>8, <1>10, <1>11, <1>12, <1>13, <1>14 DEF Work
<1> QED
  BY <1>3, <1>15 DEF Enrich

LEMMA WorkersKeepSite ==
  ASSUME ClaimsInv, ScannedSiteExists, NEW w \in Workers,
         Start(w) \/ Claim(w) \/ Work(w) \/ Die(w)
  PROVE  ScannedSiteExists'
<1>1. TypeOK /\ WorkersAgree /\ worker \in [Workers -> Worker]
  BY DEF ClaimsInv, TypeOK
<1>2. UNCHANGED source
  BY DEF Start, Claim, Die, Work, Check, Verify, CommitVerification, Search,
         AutoConfirm, AutoConfirmRaises, Enrich, CommitScan, RunQc, Classify, Record,
         evidenceUnchanged
<1>3. Kept(w)
  BY <1>1 DEF Kept, Become, Exit, Goto, Conclude, Start, Claim, Die, Work, Check,
         Verify, CommitVerification, Search, AutoConfirm, AutoConfirmRaises, Enrich,
         CommitScan, RunQc, Classify, Record
<1>4. SUFFICES ASSUME NEW v \in Workers, worker'[v].pc = "scan",
                      worker'[v].job \in FcaJobs, ~worker'[v].touched
               PROVE  source[FirmOf(worker'[v].job)] \notin NoSite
  BY <1>2 DEF ScannedSiteExists, At, FirmOf
<1>5. CASE v # w
  BY <1>3, <1>4, <1>5 DEF Kept, ScannedSiteExists, At
<1>6. CASE v = w
  <2>1. Enrich(w) /\ Goto(w, "scan")
    BY <1>1, <1>4, <1>6, ReachesScan
  <2>2. worker'[w].pc = "scan" /\ worker'[w].job = worker[w].job
    BY <1>1, <2>1, GotoAfter DEF Steps
  <2>3. ASSUME NEW code, Conclude(w, code) PROVE FALSE
    BY <1>1, <2>2, <2>3 DEF Conclude, Become, Worker
  <2> QED
    BY <1>4, <1>6, <2>1, <2>2, <2>3 DEF Enrich
<1> QED
  BY <1>5, <1>6

LEMMA InitEvidence == Init => EvidenceInv
BY OffType DEF Init, EvidenceInv, ScansAreSourced, ScannedSiteExists, At

LEMMA NextEvidence == ClaimsInv /\ EvidenceInv /\ [Next]_vars => EvidenceInv'
<1> SUFFICES ASSUME ClaimsInv, EvidenceInv, [Next]_vars PROVE EvidenceInv'
  OBVIOUS
<1>1. TypeOK /\ WorkersAgree /\ ScansAreSourced /\ ScannedSiteExists
  BY DEF ClaimsInv, EvidenceInv
<1>2. ASSUME NEW w \in Workers, Start(w) \/ Claim(w) \/ Work(w) \/ Die(w)
      PROVE  EvidenceInv'
  BY <1>1, <1>2, WorkersSourced, WorkersKeepSite DEF EvidenceInv
<1>3. CASE Others \/ Tick
  BY <1>1, <1>3, OthersSourced, OthersKeepSite DEF EvidenceInv
<1>4. CASE UNCHANGED vars
  BY <1>1, <1>4 DEF vars, EvidenceInv, ScansAreSourced, ScannedSiteExists, At, FirmOf
<1> QED
  BY <1>2, <1>3, <1>4 DEF Next

\* A complete run always names the source of the website it scanned, and a worker
\* that scans the website on record has one: what run_qc and qc_is_current rely on.
THEOREM Evidence == Spec => []EvidenceInv
BY Claims, InitEvidence, NextEvidence, PTL DEF Spec

\* What QC_PASS is recorded on, in the very step.
LEMMA RecordedPass ==
  ASSUME ClaimsInv, EvidenceInv, NEW w \in Workers, Record(w),
         FinalCode(w) = "QC_PASS"
  PROVE  LET j == worker[w].job
             f == FirmOf(j)
         IN /\ Verified(f) /\ SourceOf(j) = source[f]
            /\ scan[f] # None /\ scan[f].source = source[f]
            /\ website[f].action = "assert" \/ (j \in FcaJobs /\ source[f] \notin NoSite)
<1> DEFINE j == worker[w].job
           f == FirmOf(j)
<1>1. /\ TypeOK /\ ScansAreSourced /\ j \in Jobs /\ f \in Firms
  BY Working DEF ClaimsInv, EvidenceInv, Record, At, Rested
<1>2. /\ j \in ReJobs => InputCurrent(j)
      /\ source[f] = SourceOf(j)
      /\ QcMayPass(f)
  BY DEF FinalCode, QcCurrent
<1>3. Verified(f) /\ scan[f] # None
  BY <1>2 DEF QcMayPass
<1>4. CASE scan[f].job = None
  <2>1. scan[f].source = source[f] /\ scan[f].source \notin NoSite
    BY <1>1, <1>2, <1>3, <1>4 DEF QcMayPass, ScansAreSourced
  <2>2. j \in ReJobs => website[f].action = "assert"
    BY <1>2 DEF InputCurrent
  <2> QED
    BY <1>1, <1>2, <1>3, <2>1, <2>2 DEF Jobs
<1>5. CASE scan[f].job # None
  <2> DEFINE r == scan[f].job
  <2>1. FirmOf(r) = f /\ job[r].source = scan[f].source
    BY <1>1, <1>3, <1>5 DEF ScansAreSourced
  <2>2. InputCurrent(r)
    BY <1>2, <1>5 DEF QcMayPass
  <2>3. website[f].action = "assert" /\ job[r].source = source[f]
    BY <2>1, <2>2 DEF InputCurrent
  <2> QED
    BY <1>2, <1>3, <2>1, <2>3
<1> QED
  BY <1>4, <1>5

LEMMA StepPasses ==
  ASSUME ClaimsInv, EvidenceInv, [Next]_vars, NEW j \in Jobs,
         job'[j].outcome = "QC_PASS", job[j].outcome # "QC_PASS"
  PROVE  LET f == FirmOf(j)
         IN /\ Verified(f) /\ SourceOf(j) = source[f]
            /\ scan[f] # None /\ scan[f].source = source[f]
            /\ website[f].action = "assert" \/ (j \in FcaJobs /\ source[f] \notin NoSite)
<1>1. ~RowsGo
  BY DEF RowsGo
<1>2. ~Others /\ ~Tick
  BY <1>1, WorldHarmless, KeptRowsGo DEF ClaimsInv, Harmless
<1>3. job' # job
  OBVIOUS
<1>4. PICK w \in Workers : Start(w) \/ Claim(w) \/ Work(w) \/ Die(w)
  BY <1>2, <1>3 DEF Next, vars
<1>5. Record(w)
  BY <1>1, <1>4, WorkerRowsGo
<1>6. j = worker[w].job /\ FinalCode(w) = "QC_PASS"
  BY <1>5, RecordRows
<1> QED
  BY <1>5, <1>6, RecordedPass

\* A QC_PASS is recorded only on evidence that is current in that very step, for
\* all firms, records, receipts, websites and interleavings with _record_outcome.
THEOREM Passes == Spec => PassesOnCurrentEvidence
<1>1. ClaimsInv /\ EvidenceInv /\ [Next]_vars =>
        [\A j \in Jobs :
           (job'[j].outcome = "QC_PASS" /\ job[j].outcome # "QC_PASS") =>
             LET f == FirmOf(j)
             IN /\ Verified(f) /\ SourceOf(j) = source[f]
                /\ scan[f] # None /\ scan[f].source = source[f]
                /\ website[f].action = "assert"
                     \/ (j \in FcaJobs /\ source[f] \notin NoSite)]_vars
  BY StepPasses
<1> QED
  BY <1>1, Claims, Evidence, PTL DEF Spec, PassesOnCurrentEvidence
=============================================================================
