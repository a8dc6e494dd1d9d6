------------------------- MODULE SendLedgerContract -------------------------
(***************************************************************************)
(* The detailed ledger, Gmail and all, implements DraftContract.           *)
(***************************************************************************)
EXTENDS SendLedger

PhaseOf(k) ==
  IF ledger[k].state = "none" THEN "free"
  ELSE IF Countable(k) THEN "held"
  ELSE "released"

DayOf(k) == IF ledger[k].state = "none" THEN None ELSE UkDay(ledger[k].created)

DraftsOf(k) == {id \in DraftIds : mailbox[id] # "unused" /\ ledgerOf[id] = k}

MailOf(k) ==
  IF DraftsOf(k) = {} THEN "none"
  ELSE IF LiveDrafts(k) # {} THEN "live"
  ELSE "gone"

AllowanceFrom(startDay, d) ==
  EffectiveHardLimit(IF d <= startDay THEN 1 ELSE d - startDay + 1)

Contract ==
  INSTANCE DraftContract WITH
    Days <- {UkDay(t) : t \in Time},
    phase <- [k \in Stages |-> PhaseOf(k)],
    day <- [k \in Stages |-> DayOf(k)],
    mail <- [k \in Stages |-> MailOf(k)],
    start <- IF warmup = None THEN None ELSE UkDay(warmup),
    Allowance <- AllowanceFrom

\* Every step of the ledger, of Gmail, of the mailbox's owner and of a crash is
\* a step of DraftContract or changes nothing in it: capacity is taken before
\* the one draft of a stage exists and given back only after it is gone.
ImplementsContract == Contract!Spec
=============================================================================
