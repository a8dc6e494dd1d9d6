-------------------- MODULE ProcessingQueueContractProofs --------------------
(***************************************************************************)
(* Machine-checked refinement: ProcessingQueue implements QueueContract    *)
(* for every set of firms, records, inputs and workers, every lease, every *)
(* retry delay and every number of attempts.                               *)
(***************************************************************************)
EXTENDS ProcessingQueueProofs

Phase == [j \in Jobs |-> job[j].state]
Count == [j \in Jobs |-> job[j].attempts]
Task == [w \in Workers |-> worker[w].job]

LEMMA ContractInit == Init => Contract!Init
BY DEF Init, Contract!Init, NoJob, Off

-----------------------------------------------------------------------------
(* Rows that are queued, and workers that go on or leave *)

\* Queued rows keep their state and their attempts; others wait for the first.
LEMMA RowsEnqueue ==
  ASSUME TypeOK, RowsKept, Task' = Task
  PROVE  Contract!Enqueue
<1> DEFINE new == {j \in Jobs : job[j].state = "none" /\ job'[j].state = "pending"}
<1>1. \A j \in Jobs : job'[j].attempts = job[j].attempts
  <2> SUFFICES ASSUME NEW j \in Jobs, job[j].state = "none"
               PROVE  job'[j].attempts = job[j].attempts
    BY DEF RowsKept
  <2>1. job[j].attempts = 0
    BY DEF TypeOK, WellFormed, NoJob
  <2>2. /\ job'[j].state \in {"none", "pending"} /\ job'[j].outcome = None
        /\ WellFormed(job'[j])
    BY DEF RowsKept
  <2>3. job'[j].attempts = 0
    BY <2>2 DEF WellFormed, NoJob
  <2> QED
    BY <2>1, <2>3
<1>2. Count' = Count
  BY <1>1 DEF Count
<1>3. Phase' = [j \in Jobs |-> IF j \in new THEN "pending" ELSE Phase[j]]
  BY DEF Phase, RowsKept
<1>4. new \in SUBSET {j \in Jobs : Phase[j] = "none"}
  BY DEF Phase
<1> HIDE DEF new
<1> QED
  BY <1>2, <1>3, <1>4 DEF Contract!Enqueue, Phase, Count, Task

LEMMA HarmlessEnqueues ==
  ASSUME TypeOK, Harmless
  PROVE  Contract!Enqueue
BY RowsEnqueue DEF Harmless, MarksOnly, Task

LEMMA GoesOnEnqueues ==
  ASSUME TypeOK, NEW w \in Workers, RowsKept, GoesOn(w)
  PROVE  Contract!Enqueue
<1>1. Task' = Task
  BY DEF GoesOn, Kept, Task
<1> QED
  BY <1>1, RowsEnqueue

LEMMA LeavesLeaves ==
  ASSUME NEW w \in Workers, UNCHANGED job, Leaves(w)
  PROVE  Contract!Leave(w)
<1>1. Task' = [Task EXCEPT ![w] = None]
  BY OffType DEF Leaves, Kept, Task
<1>2. Phase' = Phase /\ Count' = Count
  BY DEF Phase, Count
<1> QED
  BY <1>1, <1>2 DEF Contract!Leave, Phase, Count, Task

LEMMA WorkRefines ==
  ASSUME ClaimsInv, NEW w \in Workers, Work(w), ~Record(w)
  PROVE  Contract!Enqueue \/ Contract!Leave(w)
<1>1. TypeOK /\ WorkersAgree /\ worker \in [Workers -> Worker]
  BY DEF ClaimsInv, TypeOK
<1>2. Proceeds(w)
  BY <1>1, WorkProceeds
<1>3. CASE UNCHANGED job
  BY <1>1, <1>2, <1>3, GoesOnEnqueues, LeavesLeaves DEF Proceeds
<1>4. CASE \E i \in Inputs : AutoConfirm(w, i)
  <2>1. Goto(w, "enrich") /\ UNCHANGED lock
    BY <1>4 DEF AutoConfirm
  <2>2. GoesOn(w)
    BY <1>1, <2>1, GotoGoesOn DEF Steps, Rested
  <2> QED
    BY <1>1, <1>2, <2>2, GoesOnEnqueues DEF Proceeds
<1> QED
  BY <1>3, <1>4
  DEF Work, Check, Verify, CommitVerification, Search, AutoConfirmRaises, Enrich,
      CommitScan, RunQc, Classify, queueUnchanged

-----------------------------------------------------------------------------
(* Claiming *)

\* The rows lease recovery takes back.
TakenRows == {k \in Jobs : job[k].state = "running" /\ Expired(job[k])}

LEMMA RecoveryTakesBack ==
  ASSUME TypeOK, \A v \in Workers : worker[v].job = None
  PROVE  /\ TakenRows \in SUBSET Contract!Abandoned
         /\ \A k \in Jobs : Recovered(job[k]).state = Contract!TakenBack(TakenRows)[k]
<1>1. TakenRows \in SUBSET Contract!Abandoned
  BY NullAssumption DEF TakenRows, Contract!Abandoned
<1>2. ASSUME NEW k \in Jobs
      PROVE  Recovered(job[k]).state = IF k \notin TakenRows THEN job[k].state
                                       ELSE IF job[k].attempts < MaxAttempts
                                       THEN "pending" ELSE "failed"
  <2>1. job[k] \in JobRow
    BY DEF TypeOK
  <2>2. CASE ~Expired(job[k])
    BY <2>2 DEF Recovered, TakenRows
  <2>3. CASE Expired(job[k]) /\ job[k].attempts < MaxAttempts
    BY <2>1, <2>3 DEF Recovered, TakenRows, Expired, Settled, JobRow
  <2>4. CASE Expired(job[k]) /\ ~(job[k].attempts < MaxAttempts)
    BY <2>1, <2>4 DEF Recovered, TakenRows, Expired, Settled, JobRow
  <2> QED
    BY <2>2, <2>3, <2>4
<1> QED
  BY <1>1, <1>2 DEF Contract!TakenBack

LEMMA ClaimRefines ==
  ASSUME ClaimsInv, NEW w \in Workers, Claim(w)
  PROVE  \E back \in SUBSET Contract!Abandoned :
           Contract!TakeBack(back) \/ \E j \in Jobs : Contract!Claim(w, j, back)
<1>1. TypeOK /\ At(w, "claim") /\ worker \in [Workers -> Worker]
  BY DEF ClaimsInv, TypeOK, Claim
<1>2. \A v \in Workers : worker[v].job = None
  BY <1>1, Alone DEF ClaimsInv, WorkersAgree, At, Rested
<1>3. /\ TakenRows \in SUBSET Contract!Abandoned
      /\ \A k \in Jobs : Recovered(job[k]).state = Contract!TakenBack(TakenRows)[k]
  BY <1>1, <1>2, RecoveryTakesBack
<1>4. \A k \in Jobs : Sound(Recovered(job[k])) /\ Recovered(job[k]).attempts = job[k].attempts
  BY <1>1, RecoveryOfRows
<1> PICK back \in SUBSET Contract!Abandoned : back = TakenRows
  BY <1>3
<1>5. Contract!TakenBack(back) = [k \in Jobs |-> Recovered(job[k]).state]
  BY <1>3 DEF Contract!TakenBack
<1>6. CASE job' = [k \in Jobs |-> Recovered(job[k])] /\ Exit(w)
  <2>1. Leaves(w)
    BY <1>1, <1>6, ExitLeaves
  <2>2. Task' = Task
    BY <1>2, <2>1, OffType DEF Task, Leaves, Kept
  <2>3. Count' = Count
    BY <1>4, <1>6 DEF Count
  <2>4. Phase' = Contract!TakenBack(back)
    BY <1>5, <1>6 DEF Phase
  <2>5. Contract!TakeBack(back)
    BY <2>2, <2>3, <2>4 DEF Contract!TakeBack, Phase, Count, Task
  <2> QED
    BY <2>5
<1>7. ASSUME NEW j \in Jobs,
             Claimable(j),
             job' = [k \in Jobs |-> IF k = j THEN Claimed(Recovered(job[k]))
                                    ELSE Recovered(job[k])],
             Become(w, [worker[w] EXCEPT !.pc = "check", !.job = j,
                             !.token = Recovered(job[j]).attempts + 1])
      PROVE  Contract!Claim(w, j, back)
  <2> DEFINE row == Recovered(job[j])
             s == [worker[w] EXCEPT !.pc = "check", !.job = j, !.token = row.attempts + 1]
  <2>1. Sound(row) /\ row.state = "pending" /\ row.attempts < MaxAttempts
    BY <1>4, <1>7 DEF Claimable
  <2>2. Claimed(row).state = "running" /\ Claimed(row).attempts = row.attempts + 1
    BY <2>1, ClaimedSound
  <2>3. /\ job'[j] = Claimed(row)
        /\ \A k \in Jobs \ {j} : job'[k] = Recovered(job[k])
    BY <1>7
  <2>4. Phase' = [Contract!TakenBack(back) EXCEPT ![j] = "running"]
    BY <1>5, <2>2, <2>3 DEF Phase
  <2>5. Count' = [Count EXCEPT ![j] = Count[j] + 1]
    BY <1>4, <2>2, <2>3 DEF Count
  <2>6. s.job = j
    BY <1>1 DEF Worker
  <2>7. Task' = [Task EXCEPT ![w] = j]
    BY <1>1, <1>7, <2>6 DEF Task, Become
  <2>8. \A v \in Workers : Task[v] = None
    BY <1>2 DEF Task
  <2>9. Contract!TakenBack(back)[j] = "pending" /\ Count[j] < MaxAttempts
    BY <1>4, <1>5, <2>1 DEF Count
  <2> QED
    BY <2>4, <2>5, <2>7, <2>8, <2>9 DEF Contract!Claim, Phase, Count, Task
<1> QED
  BY <1>6, <1>7 DEF Claim

-----------------------------------------------------------------------------
(* Recording, and every step *)

LEMMA OutcomeFields ==
  ASSUME NEW row, Sound(row), row.state = "running", NEW code \in Codes
  PROVE  /\ Outcome(row, code).attempts = row.attempts
         /\ Outcome(row, code).state \in {"succeeded", "pending", "failed"}
         /\ Outcome(row, code).state = "pending" => row.attempts < MaxAttempts
<1>1. Sound(Outcome(row, code)) /\ row \in JobRow
  BY OutcomeSound DEF Sound
<1>2. Outcome(row, code).attempts = row.attempts
  BY <1>1 DEF Outcome, Settled, Retried, JobRow
<1> QED
  BY <1>1, <1>2, OutcomeSound DEF Sound, WellFormed

LEMMA RecordRefines ==
  ASSUME ClaimsInv, NEW w \in Workers, Record(w)
  PROVE  \E result \in {"pending", "succeeded", "failed"} : Contract!Finish(w, result)
<1> DEFINE j == worker[w].job
           row == Outcome(job[j], FinalCode(w))
<1>1. TypeOK /\ WorkersAgree /\ At(w, "record") /\ worker \in [Workers -> Worker]
  BY DEF ClaimsInv, TypeOK, Record
<1>2. j \in Jobs /\ j # None
  BY <1>1, Working, NullAssumption DEF At, Rested
<1>3. HoldsClaim(w)
  BY <1>2 DEF ClaimsInv, ClaimsAreHeld
<1>4. Sound(job[j]) /\ job[j].state = "running" /\ FinalCode(w) \in Codes
  BY <1>1, <1>2, <1>3, JobsSound, FinalCodes DEF HoldsClaim
<1>5. /\ row.attempts = job[j].attempts
      /\ row.state \in {"succeeded", "pending", "failed"}
      /\ row.state = "pending" => job[j].attempts < MaxAttempts
  BY <1>4, OutcomeFields
<1>6. /\ job'[j] = row
      /\ \A k \in Jobs \ {j} : job'[k] = job[k]
  BY <1>1, <1>2, <1>3 DEF Record, TypeOK
<1>7. Phase' = [Phase EXCEPT ![j] = row.state] /\ Count' = Count
  BY <1>5, <1>6 DEF Phase, Count
<1>8. Task' = [Task EXCEPT ![w] = None]
  <2>1. CASE Exit(w)
    BY <1>1, <2>1, OffType, ExitLeaves DEF Task, Leaves, Kept
  <2>2. CASE Become(w, [Off EXCEPT !.pc = "claim", !.left = worker[w].left - 1])
    BY <1>1, <2>2 DEF Task, Become, Off
  <2> QED
    BY <2>1, <2>2 DEF Record
<1>9. Task[w] = j /\ Phase[j] = "running" /\ Count[j] = job[j].attempts
  BY <1>2, <1>4 DEF Task, Phase, Count
<1> HIDE DEF j, row
<1> PICK result \in {"succeeded", "pending", "failed"} : result = row.state
  BY <1>5
<1>10. Contract!Finish(w, result)
  BY <1>2, <1>5, <1>7, <1>8, <1>9 DEF Contract!Finish, Phase, Count, Task
<1> QED
  BY <1>10

LEMMA ContractNext ==
  ASSUME ClaimsInv, [Next]_vars
  PROVE  [Contract!Next]_(Contract!contractVars)
<1>1. TypeOK /\ {} \in SUBSET Contract!Abandoned
  BY DEF ClaimsInv
<1>2. CASE Others \/ Tick
  BY <1>1, <1>2, WorldHarmless, HarmlessEnqueues DEF Contract!Next
<1>3. ASSUME NEW w \in Workers, Start(w)
      PROVE  UNCHANGED Contract!contractVars
  <2>1. worker[w].job = None
    BY <1>3 DEF ClaimsInv, WorkersAgree, Start, At, Rested
  <2>2. Task' = Task
    BY <1>1, <1>3, <2>1 DEF Start, Become, Off, Task, TypeOK
  <2> QED
    BY <1>3, <2>2 DEF Start, Task, Contract!contractVars
<1>4. ASSUME NEW w \in Workers, Claim(w)
      PROVE  Contract!Next
  BY <1>4, ClaimRefines DEF Contract!Next
<1>5. ASSUME NEW w \in Workers, Work(w)
      PROVE  Contract!Next
  BY <1>5, WorkRefines, RecordRefines DEF Contract!Next
<1>6. ASSUME NEW w \in Workers, Die(w)
      PROVE  Contract!Next
  <2>1. UNCHANGED job /\ Leaves(w)
    BY <1>1, <1>6, ExitLeaves DEF Die, TypeOK
  <2> QED
    BY <2>1, LeavesLeaves DEF Contract!Next
<1>7. CASE UNCHANGED vars
  BY <1>7 DEF vars, Contract!contractVars
<1> QED
  BY <1>2, <1>3, <1>4, <1>5, <1>6, <1>7 DEF Next

\* One worker works on one job at a time and keeps it until it records an outcome or
\* is gone; only jobs nobody works on are taken back; no job is claimed more than
\* MAX_JOB_ATTEMPTS times, and a job that succeeded or failed stays so.
THEOREM QueueImplemented == Spec => ImplementsQueue
BY ContractInit, ContractNext, Claims, PTL
   DEF Spec, ImplementsQueue, Contract!Spec

-----------------------------------------------------------------------------
(* Every job runs out of changes *)

\* How many more times a job can change its state or be claimed: a retry under the
\* attempt limit of _record_outcome and of lease recovery costs two.
Weight(j) ==
  CASE job[j].state = "none" -> 2 * MaxAttempts + 1
    [] job[j].state = "pending" -> 2 * (MaxAttempts - job[j].attempts)
    [] job[j].state = "running" -> 2 * (MaxAttempts - job[j].attempts) + 1
    [] OTHER -> 0

\* A job starts with as many changes as its attempts allow, and never owes one.
WeightBounded == \A j \in Jobs : Weight(j) \in 0 .. 2 * MaxAttempts + 1

\* Every change of a row of either job table uses one up.
WeightFalls ==
  [][\A j \in Jobs :
       (job'[j].state # job[j].state \/ job'[j].attempts # job[j].attempts)
         => Weight(j)' < Weight(j)]_vars

LEMMA WeightsBounded ==
  ASSUME TypeOK
  PROVE  WeightBounded
<1> SUFFICES ASSUME NEW j \in Jobs
             PROVE  Weight(j) \in 0 .. 2 * MaxAttempts + 1
  BY DEF WeightBounded
<1>1. job[j] \in JobRow /\ job[j].attempts \in 0 .. MaxAttempts /\ MaxAttempts \in Nat
  BY NumbersAssumption DEF TypeOK, JobRow
<1> QED
  BY <1>1 DEF Weight

\* A claim that takes a running row back and claims it again counts as two changes.
LEMMA JobSteps ==
  ASSUME Contract!Next, NEW j \in Jobs, Phase'[j] # Phase[j] \/ Count'[j] # Count[j]
  PROVE  \/ /\ Phase[j] = "none" /\ Phase'[j] = "pending"
            /\ Count'[j] = Count[j]
         \/ /\ Phase[j] = "running" /\ Phase'[j] \in {"pending", "succeeded", "failed"}
            /\ Count'[j] = Count[j]
         \/ /\ Phase[j] \in {"pending", "running"} /\ Phase'[j] = "running"
            /\ Count'[j] = Count[j] + 1
<1>1. CASE Contract!Enqueue
  BY <1>1 DEF Contract!Enqueue, Phase, Count
<1>2. ASSUME NEW back \in SUBSET Contract!Abandoned
      PROVE  Contract!TakenBack(back)[j] \in
               IF j \in back THEN {"pending", "failed"} ELSE {Phase[j]}
  BY DEF Contract!TakenBack, Phase
<1>3. \A back \in SUBSET Contract!Abandoned : j \in back => Phase[j] = "running"
  BY DEF Contract!Abandoned, Phase
<1>4. ASSUME NEW back \in SUBSET Contract!Abandoned, Contract!TakeBack(back)
      PROVE  /\ Phase[j] = "running" /\ Phase'[j] \in {"pending", "failed"}
             /\ Count'[j] = Count[j]
  <2>1. Phase' = Contract!TakenBack(back) /\ Count' = Count
    BY <1>4 DEF Contract!TakeBack, Phase, Count
  <2> QED
    BY <1>2, <1>3, <2>1
<1>5. ASSUME NEW back \in SUBSET Contract!Abandoned, NEW w \in Workers, NEW k \in Jobs,
             Contract!Claim(w, k, back)
      PROVE  \/ /\ Phase[j] = "running" /\ Phase'[j] \in {"pending", "failed"}
                /\ Count'[j] = Count[j]
             \/ /\ Phase[j] \in {"pending", "running"} /\ Phase'[j] = "running"
                /\ Count'[j] = Count[j] + 1
  <2>1. /\ Contract!TakenBack(back)[k] = "pending"
        /\ Phase' = [Contract!TakenBack(back) EXCEPT ![k] = "running"]
        /\ Count' = [Count EXCEPT ![k] = @ + 1]
    BY <1>5 DEF Contract!Claim, Phase, Count
  <2>2. DOMAIN Contract!TakenBack(back) = Jobs /\ DOMAIN Count = Jobs
    BY DEF Contract!TakenBack, Count
  <2>3. CASE j = k
    BY <1>2, <1>3, <2>1, <2>2, <2>3
  <2>4. CASE j # k
    <3>1. Phase'[j] = Contract!TakenBack(back)[j] /\ Count'[j] = Count[j]
      BY <2>1, <2>2, <2>4
    <3> QED
      BY <1>2, <1>3, <3>1
  <2> QED
    BY <2>3, <2>4
<1>6. ASSUME NEW w \in Workers, Contract!Leave(w)
      PROVE  FALSE
  BY <1>6 DEF Contract!Leave, Phase, Count
<1>7. ASSUME NEW w \in Workers, NEW result \in {"pending", "succeeded", "failed"},
             Contract!Finish(w, result)
      PROVE  /\ Phase[j] = "running" /\ Phase'[j] = result
             /\ Count'[j] = Count[j]
  BY <1>7 DEF Contract!Finish, Phase, Count
<1> QED
  BY <1>1, <1>4, <1>5, <1>6, <1>7 DEF Contract!Next

LEMMA WeightsFall ==
  ASSUME ClaimsInv, ClaimsInv', [Next]_vars
  PROVE  \A j \in Jobs :
           (job'[j].state # job[j].state \/ job'[j].attempts # job[j].attempts)
             => Weight(j)' < Weight(j)
<1> SUFFICES ASSUME NEW j \in Jobs,
                    job'[j].state # job[j].state \/ job'[j].attempts # job[j].attempts
             PROVE  Weight(j)' < Weight(j)
  OBVIOUS
<1>1. Phase'[j] # Phase[j] \/ Count'[j] # Count[j]
  BY DEF Phase, Count
<1>2. Contract!Next
  BY <1>1, ContractNext DEF Phase, Count, Contract!contractVars
<1>3. /\ job[j].attempts \in 0 .. MaxAttempts /\ MaxAttempts \in Nat
      /\ job[j].state = "none" => job[j].attempts = 0
  BY NumbersAssumption DEF ClaimsInv, TypeOK, JobRow, WellFormed, NoJob
<1>4. job'[j].attempts \in 0 .. MaxAttempts
  BY DEF ClaimsInv, TypeOK, JobRow
<1>5. \/ /\ job[j].state = "none" /\ job'[j].state = "pending"
         /\ job'[j].attempts = job[j].attempts
      \/ /\ job[j].state = "running" /\ job'[j].state \in {"pending", "succeeded", "failed"}
         /\ job'[j].attempts = job[j].attempts
      \/ /\ job[j].state \in {"pending", "running"} /\ job'[j].state = "running"
         /\ job'[j].attempts = job[j].attempts + 1
  BY <1>1, <1>2, JobSteps DEF Phase, Count
<1> QED
  BY <1>3, <1>4, <1>5 DEF Weight

\* No import, retry, lease recovery or kill keeps a job going: its state changes at
\* most 2 * MAX_JOB_ATTEMPTS + 1 times, whatever workers do to each other.
THEOREM JobsRunOut == Spec => []WeightBounded /\ WeightFalls
<1>1. ClaimsInv => WeightBounded
  BY WeightsBounded DEF ClaimsInv
<1> QED
  BY <1>1, Claims, WeightsFall, PTL DEF Spec, WeightFalls
=============================================================================
