--------------------------- MODULE DraftContract ---------------------------
(***************************************************************************)
(* What the outreach ledger promises, without processes, retries, crashes  *)
(* or Gmail requests.  A stage holds one unit of the capacity of one UK    *)
(* day from before its only draft exists until after that draft is gone.   *)
(***************************************************************************)
EXTENDS Integers, FiniteSets

CONSTANTS
  Stages,          \* units of outreach: at most one draft each, ever
  Days,            \* days a unit may be given capacity of
  None,
  Allowance(_, _)  \* drafts allowed on a day, given the warm-up's first day

VARIABLES
  phase,   \* stage |-> "free", "held" (uses capacity) or "released"
  day,     \* stage |-> the UK day whose capacity it was given
  mail,    \* stage |-> "none", "live" (a draft in Gmail) or "gone"
  start    \* first day of the warm-up

contractVars == <<phase, day, mail, start>>

Holders(d) == {k \in Stages : phase[k] = "held" /\ day[k] = d}

Init ==
  /\ phase = [k \in Stages |-> "free"]
  /\ day = [k \in Stages |-> None]
  /\ mail = [k \in Stages |-> "none"]
  /\ start = None

Hold(k, d) ==
  /\ phase[k] = "free"
  /\ start' = IF start = None THEN d ELSE start
  /\ Cardinality(Holders(d)) < Allowance(start', d)
  /\ phase' = [phase EXCEPT ![k] = "held"]
  /\ day' = [day EXCEPT ![k] = d]
  /\ UNCHANGED mail

Post(k) ==
  /\ phase[k] = "held"
  /\ mail[k] = "none"
  /\ mail' = [mail EXCEPT ![k] = "live"]
  /\ UNCHANGED <<phase, day, start>>

Remove(k) ==
  /\ mail[k] = "live"
  /\ mail' = [mail EXCEPT ![k] = "gone"]
  /\ UNCHANGED <<phase, day, start>>

Release(k) ==
  /\ phase[k] = "held"
  /\ mail[k] = "gone"
  /\ phase' = [phase EXCEPT ![k] = "released"]
  /\ UNCHANGED <<day, mail, start>>

Next ==
  \E k \in Stages :
    \/ \E d \in Days : Hold(k, d)
    \/ Post(k) \/ Remove(k) \/ Release(k)

Spec == Init /\ [][Next]_contractVars
=============================================================================
