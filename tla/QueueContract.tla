---------------------------- MODULE QueueContract ----------------------------
(***************************************************************************)
(* What the queue promises for a job, without firms, evidence, leases or a *)
(* lock: one worker works on one job at a time, only a job nobody works on *)
(* is taken back, a job is claimed at most MaxAttempts times, and one that *)
(* is done is done for good.                                               *)
(***************************************************************************)
EXTENDS Naturals

CONSTANTS Jobs, Workers, None, MaxAttempts

VARIABLES
  phase,     \* of each job
  claims,    \* how often it was claimed
  work       \* the job each worker works on

contractVars == <<phase, claims, work>>

Init ==
  /\ phase = [j \in Jobs |-> "none"]
  /\ claims = [j \in Jobs |-> 0]
  /\ work = [w \in Workers |-> None]

Enqueue ==
  /\ \E new \in SUBSET {j \in Jobs : phase[j] = "none"} :
       phase' = [j \in Jobs |-> IF j \in new THEN "pending" ELSE phase[j]]
  /\ UNCHANGED <<claims, work>>

\* Jobs left running by a worker that is gone.
Abandoned == {j \in Jobs : phase[j] = "running" /\ \A w \in Workers : work[w] # j}

TakenBack(back) ==
  [j \in Jobs |-> IF j \notin back THEN phase[j]
                  ELSE IF claims[j] < MaxAttempts THEN "pending" ELSE "failed"]

TakeBack(back) ==
  /\ phase' = TakenBack(back)
  /\ UNCHANGED <<claims, work>>

Claim(w, j, back) ==
  /\ \A v \in Workers : work[v] = None
  /\ TakenBack(back)[j] = "pending" /\ claims[j] < MaxAttempts
  /\ phase' = [TakenBack(back) EXCEPT ![j] = "running"]
  /\ claims' = [claims EXCEPT ![j] = @ + 1]
  /\ work' = [work EXCEPT ![w] = j]

Leave(w) ==
  /\ work' = [work EXCEPT ![w] = None]
  /\ UNCHANGED <<phase, claims>>

Finish(w, result) ==
  /\ work[w] \in Jobs /\ phase[work[w]] = "running"
  /\ result = "pending" => claims[work[w]] < MaxAttempts
  /\ phase' = [phase EXCEPT ![work[w]] = result]
  /\ work' = [work EXCEPT ![w] = None]
  /\ UNCHANGED claims

Next ==
  \/ Enqueue
  \/ \E back \in SUBSET Abandoned :
       TakeBack(back) \/ \E w \in Workers, j \in Jobs : Claim(w, j, back)
  \/ \E w \in Workers :
       Leave(w) \/ \E result \in {"pending", "succeeded", "failed"} : Finish(w, result)

Spec == Init /\ [][Next]_contractVars
=============================================================================
