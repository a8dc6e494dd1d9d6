-------------------------- MODULE DeliveryContract --------------------------
(***************************************************************************)
(* What the collector and the import endpoint promise for a batch, without *)
(* network, devices or retries: the server comes to one verdict on it, and *)
(* the collector lets go of it only with that verdict.                     *)
(***************************************************************************)
CONSTANTS Batches, Verdicts, None

VARIABLES
  kept,      \* batches the collector still has to deliver
  verdict,   \* what the server decided
  told       \* what the collector was told

contractVars == <<kept, verdict, told>>

Init ==
  /\ kept = {}
  /\ verdict = [b \in Batches |-> None]
  /\ told = [b \in Batches |-> None]

Keep(b) ==
  /\ verdict[b] = None
  /\ kept' = kept \cup {b}
  /\ UNCHANGED <<verdict, told>>

Decide(b, v) ==
  /\ b \in kept
  /\ verdict[b] = None
  /\ verdict' = [verdict EXCEPT ![b] = v]
  /\ UNCHANGED <<kept, told>>

LetGo(b) ==
  /\ b \in kept
  /\ verdict[b] # None
  /\ told' = [told EXCEPT ![b] = verdict[b]]
  /\ kept' = kept \ {b}
  /\ UNCHANGED verdict

Next ==
  \E b \in Batches :
    \/ Keep(b) \/ LetGo(b)
    \/ \E v \in Verdicts : Decide(b, v)

Spec == Init /\ [][Next]_contractVars
=============================================================================
