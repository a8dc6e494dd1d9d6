----------------------------- MODULE SendLedger -----------------------------
(***************************************************************************)
(* The outreach ledger: SendGuard (the `sends` table, its capacity rule    *)
(* and its lifecycle triggers), DraftService (the calls that create, retry *)
(* and undo a review draft) and the Gmail mailbox those calls talk to.     *)
(*                                                                         *)
(* Several processes (gunicorn workers, command-line invocations) run      *)
(* DraftService calls against one SQLite file.  A call is a sequence of    *)
(* steps: each ledger statement or BEGIN IMMEDIATE transaction is one      *)
(* step, each Gmail request is one step, and other processes, the person   *)
(* who owns the mailbox, the clock and crashes interleave between them.    *)
(***************************************************************************)
EXTENDS Integers, FiniteSets

CONSTANTS
  Stages,         \* the (lead, sequence, stage) keys of the sends table
  Contents,       \* recipient, template, subject and body of a request
  Workers,        \* processes that run DraftService calls
  DraftIds,       \* identifiers Gmail may hand out
  None,           \* SQL NULL, or Python None
  TicksPerDay,    \* instants in one UK calendar day
  MaxTime,        \* bound on the clock (model checking only)
  FirstThrough, FirstLimit,     \* P1_WARMUP[0]: last day and limit of step one
  SecondThrough, SecondLimit,   \* P1_WARMUP[1]: last day and limit of step two
  HardLimit                     \* P1_HARD_LIMIT

ASSUME StagesAssumption == IsFiniteSet(Stages)

ASSUME TimeAssumption == TicksPerDay \in Nat \ {0} /\ MaxTime \in Nat

ASSUME WarmupAssumption ==
  /\ FirstThrough \in Nat /\ FirstLimit \in Nat
  /\ SecondThrough \in Nat /\ SecondLimit \in Nat
  /\ HardLimit \in Nat

ASSUME NoneAssumption == None \notin Stages \cup Contents \cup DraftIds \cup Nat

VARIABLES
  clock,      \* the wall clock every process reads
  warmup,     \* app_state['warmup_started_at']
  ledger,     \* the sends table, one row per stage
  mailbox,    \* what Gmail holds for each draft id
  ledgerOf,   \* the ledger id in the Message-ID header of each draft
  inflight,   \* stages whose drafts.create request Gmail has yet to act on
  call        \* the DraftService call each worker is in

vars == <<clock, warmup, ledger, mailbox, ledgerOf, inflight, call>>

-----------------------------------------------------------------------------
(* Time, warm-up and capacity *)

Time == 0 .. MaxTime

\* The UK calendar day an instant belongs to.
UkDay(t) == t \div TicksPerDay

\* Day number of the warm-up; an instant before its start counts as day one.
WarmupDay(start, day) ==
  IF start = None \/ day <= UkDay(start) THEN 1 ELSE day - UkDay(start) + 1

Lesser(a, b) == IF a <= b THEN a ELSE b

EffectiveHardLimit(warmupDay) ==
  IF warmupDay <= FirstThrough THEN Lesser(HardLimit, FirstLimit)
  ELSE IF warmupDay <= SecondThrough THEN Lesser(HardLimit, SecondLimit)
  ELSE HardLimit

CountableStates == {"reserved", "draft", "sent"}

Countable(k) == ledger[k].state \in CountableStates

\* The rows that use up the capacity of a UK day.
CountedOn(day) == {k \in Stages : Countable(k) /\ UkDay(ledger[k].created) = day}

TodayCount(now) == Cardinality(CountedOn(UkDay(now)))

-----------------------------------------------------------------------------
(* Rows and calls *)

RowStates == {"none", "reserved", "draft", "sent", "void"}

NoRow == [state |-> "none", content |-> None, created |-> 0, drafted |-> None,
          gid |-> None, failure |-> FALSE]

Row == [state : RowStates, content : Contents \cup {None}, created : Time,
        drafted : Time \cup {None}, gid : DraftIds \cup {None}, failure : BOOLEAN]

\* The values reserve, note_reservation_error, finalise_draft, mark_sent and
\* void_draft give a row.
ReservedRow(c, now) ==
  [state |-> "reserved", content |-> c, created |-> now, drafted |-> None,
   gid |-> None, failure |-> FALSE]
Noted(row) == [row EXCEPT !.failure = TRUE]
Drafted(row, id, now) ==
  [row EXCEPT !.state = "draft", !.drafted = now, !.gid = id, !.failure = FALSE]
Sent(row) == [row EXCEPT !.state = "sent", !.failure = FALSE]
\* Mutant: a state the table does not know.
VoidedMisspelt(row) == [row EXCEPT !.state = "voided"]
Voided(row) == [row EXCEPT !.state = "void", !.failure = FALSE]

Idle == [pc |-> "idle", stage |-> None, content |-> None, now |-> 0, gid |-> None]

Steps == {"reserve", "create", "note", "finalise", "resume", "find", "undo",
          "delete", "voiding"}

Active == [pc : Steps, stage : Stages, content : Contents \cup {None}, now : Time,
           gid : DraftIds \cup {None}]

Call == Active \cup {Idle}

At(w, pc) == call[w].pc = pc

Enter(w, step) == call' = [call EXCEPT ![w] = step]

Goto(w, pc) == Enter(w, [call[w] EXCEPT !.pc = pc])

Holding(w, pc, id) == Enter(w, [call[w] EXCEPT !.pc = pc, !.gid = id])

Return(w) == Enter(w, Idle)

\* Mutant: the search ignores which row the draft was made for.
LiveDraftsOfAnyRow(k) == {id \in DraftIds : mailbox[id] = "draft"}

\* Gmail's search by rfc822msgid sees drafts, not sent or deleted messages.
LiveDrafts(k) == {id \in DraftIds : mailbox[id] = "draft" /\ ledgerOf[id] = k}

Init ==
  /\ clock = 0
  /\ warmup = None
  /\ ledger = [k \in Stages |-> NoRow]
  /\ mailbox = [id \in DraftIds |-> "unused"]
  /\ ledgerOf = [id \in DraftIds |-> None]
  /\ inflight = {}
  /\ call = [w \in Workers |-> Idle]

ledgerUnchanged == UNCHANGED <<warmup, ledger>>
gmailUnchanged == UNCHANGED <<mailbox, ledgerOf, inflight>>
worldUnchanged == UNCHANGED clock

-----------------------------------------------------------------------------
(* create_review_draft: the reservation transaction *)

\* The route or command reads the clock, then calls create_review_draft; the
\* instant is kept for the whole call while it waits for the database lock.
StartDraft(w, k, c) ==
  /\ At(w, "idle")
  /\ Enter(w, [pc |-> "reserve", stage |-> k, content |-> c, now |-> clock,
                gid |-> None])
  /\ ledgerUnchanged /\ gmailUnchanged /\ worldUnchanged

SameRequest(w) == ledger[call[w].stage].content = call[w].content

WarmupStartedBy(now) == IF warmup = None THEN now ELSE warmup

\* Mutant: the count is compared without the row about to be inserted.
WithinCapacityBeforeInsert(now) ==
  TodayCount(now) <= EffectiveHardLimit(WarmupDay(WarmupStartedBy(now), UkDay(now)))

WithinCapacity(now) ==
  TodayCount(now) + 1
    <= EffectiveHardLimit(WarmupDay(WarmupStartedBy(now), UkDay(now)))

\* BEGIN IMMEDIATE .. COMMIT of a reservation that inserts its row.  The verdict
\* of the validator and of the contact check, which FirmReview decides, is left
\* open: either may pass or refuse whenever the transaction runs.
ReserveNew(w) ==
  LET k == call[w].stage
      now == call[w].now
  IN /\ At(w, "reserve")
     /\ ledger[k].state = "none"
     /\ WithinCapacity(now)
     /\ warmup' = WarmupStartedBy(now)
     /\ ledger' = [ledger EXCEPT ![k] = ReservedRow(call[w].content, now)]
     /\ Goto(w, "create")
     /\ gmailUnchanged /\ worldUnchanged

\* The same request finds its own countable row and goes on to resume it.
ReserveExisting(w) ==
  LET k == call[w].stage
  IN /\ At(w, "reserve")
     /\ Countable(k) /\ SameRequest(w)
     /\ Goto(w, "resume")
     /\ ledgerUnchanged /\ gmailUnchanged /\ worldUnchanged

\* DraftPolicyRefused, which may meet any request, ReservationConflict or
\* SendLimitExceeded: the rollback also undoes the warm-up start.
ReserveRefused(w) ==
  /\ At(w, "reserve")
  /\ Return(w)
  /\ ledgerUnchanged /\ gmailUnchanged /\ worldUnchanged

-----------------------------------------------------------------------------
(* create_review_draft: the Gmail request and the ledger update after it *)

NewDraft(k, id) ==
  /\ mailbox[id] = "unused"
  /\ mailbox' = [mailbox EXCEPT ![id] = "draft"]
  /\ ledgerOf' = [ledgerOf EXCEPT ![id] = k]

CreateDraft(w, id) ==
  /\ At(w, "create")
  /\ NewDraft(call[w].stage, id)
  /\ Holding(w, "finalise", id)
  /\ UNCHANGED inflight /\ ledgerUnchanged /\ worldUnchanged

\* Gmail made the draft, the answer was lost or carried no draft id.
CreateAnswerLost(w, id) ==
  /\ At(w, "create")
  /\ NewDraft(call[w].stage, id)
  /\ Goto(w, "note")
  /\ UNCHANGED inflight /\ ledgerUnchanged /\ worldUnchanged

\* The call raised; Gmail never got the request, or acts on it later.
CreateRaises(w) ==
  /\ At(w, "create")
  /\ inflight' \in {inflight, inflight \cup {call[w].stage}}
  /\ Goto(w, "note")
  /\ UNCHANGED <<mailbox, ledgerOf>> /\ ledgerUnchanged /\ worldUnchanged

GmailActsLate(k, id) ==
  /\ k \in inflight
  /\ inflight' = inflight \ {k}
  /\ NewDraft(k, id)
  /\ UNCHANGED call /\ ledgerUnchanged /\ worldUnchanged

\* note_reservation_error; a row no longer reserved raises ValueError instead.
NoteReservationError(w) ==
  LET k == call[w].stage
  IN /\ At(w, "note")
     /\ ledger' = IF ledger[k].state = "reserved"
                  THEN [ledger EXCEPT ![k] = Noted(@)]
                  ELSE ledger
     /\ Return(w)
     /\ UNCHANGED warmup /\ gmailUnchanged /\ worldUnchanged

\* Mutant: the UPDATE is not guarded by state = 'reserved'.
FinalisableInAnyState(k, id, now) ==
  /\ now >= ledger[k].created
  /\ \A j \in Stages \ {k} : ledger[j].gid # id

\* finalise_draft: the UPDATE is guarded by state = 'reserved', the lifecycle
\* trigger requires drafted_at >= created_at, gmail_draft_id is UNIQUE.
Finalisable(k, id, now) ==
  /\ ledger[k].state = "reserved"
  /\ now >= ledger[k].created
  /\ \A j \in Stages \ {k} : ledger[j].gid # id

FinaliseDraft(w) ==
  LET k == call[w].stage
      id == call[w].gid
      now == call[w].now
  IN /\ At(w, "finalise")
     /\ ledger' = IF Finalisable(k, id, now)
                  THEN [ledger EXCEPT ![k] = Drafted(@, id, now)]
                  ELSE ledger
     /\ Return(w)
     /\ UNCHANGED warmup /\ gmailUnchanged /\ worldUnchanged

-----------------------------------------------------------------------------
(* _resume_existing: a retry of a row that is already in the ledger *)

\* The row is read again after the reservation transaction: a draft is handed
\* back, a sent row refused, any other row is looked up in Gmail.
ResumeExisting(w) ==
  /\ At(w, "resume")
  /\ IF ledger[call[w].stage].state \in {"draft", "sent"}
     THEN Return(w)
     ELSE Goto(w, "find")
  /\ ledgerUnchanged /\ gmailUnchanged /\ worldUnchanged

FindByLedgerId(w, id) ==
  /\ At(w, "find")
  /\ LiveDrafts(call[w].stage) = {id}
  /\ Holding(w, "finalise", id)
  /\ ledgerUnchanged /\ gmailUnchanged /\ worldUnchanged

\* Mutant: a retry that finds no draft asks Gmail for another one.
FindThenCreate(w) ==
  /\ At(w, "find")
  /\ IF LiveDrafts(call[w].stage) = {} THEN Goto(w, "create") ELSE Return(w)
  /\ ledgerUnchanged /\ gmailUnchanged /\ worldUnchanged

\* DraftOutcomeUncertain, two drafts under one id, a Gmail error or a search
\* index that lags behind: the row is left as it is.
FindGivesUp(w) ==
  /\ At(w, "find")
  /\ Return(w)
  /\ ledgerUnchanged /\ gmailUnchanged /\ worldUnchanged

-----------------------------------------------------------------------------
(* undo_draft *)

StartUndo(w, k) ==
  /\ At(w, "idle")
  /\ Enter(w, [pc |-> "undo", stage |-> k, content |-> None, now |-> clock,
                gid |-> None])
  /\ ledgerUnchanged /\ gmailUnchanged /\ worldUnchanged

\* Mutant: the row is voided without deleting the draft first.
UndoVoidsFirst(w) ==
  LET row == ledger[call[w].stage]
  IN /\ At(w, "undo")
     /\ IF row.state = "draft" THEN Holding(w, "voiding", row.gid) ELSE Return(w)
     /\ ledgerUnchanged /\ gmailUnchanged /\ worldUnchanged

UndoReadsRow(w) ==
  LET row == ledger[call[w].stage]
  IN /\ At(w, "undo")
     /\ IF row.state = "draft" THEN Holding(w, "delete", row.gid) ELSE Return(w)
     /\ ledgerUnchanged /\ gmailUnchanged /\ worldUnchanged

Discarded(id) ==
  mailbox' = [mailbox EXCEPT ![id] = IF @ = "draft" THEN "deleted" ELSE @]

\* drafts.delete; a 404 (already gone) counts as success.
DeleteDraft(w) ==
  /\ At(w, "delete")
  /\ Discarded(call[w].gid)
  /\ Goto(w, "voiding")
  /\ UNCHANGED <<ledgerOf, inflight>> /\ ledgerUnchanged /\ worldUnchanged

\* Mutant: the row is voided even though drafts.delete raised.
VoidsAfterDeleteRaises(w) ==
  /\ At(w, "delete")
  /\ UNCHANGED mailbox \/ Discarded(call[w].gid)
  /\ Goto(w, "voiding")
  /\ UNCHANGED <<ledgerOf, inflight>> /\ ledgerUnchanged /\ worldUnchanged

\* drafts.delete raises: the draft may be gone or not, the row is not voided.
DeleteRaises(w) ==
  /\ At(w, "delete")
  /\ UNCHANGED mailbox \/ Discarded(call[w].gid)
  /\ Return(w)
  /\ UNCHANGED <<ledgerOf, inflight>> /\ ledgerUnchanged /\ worldUnchanged

\* void_draft: guarded by state = 'draft'; the trigger requires
\* voided_at >= drafted_at.
VoidDraft(w) ==
  LET k == call[w].stage
  IN /\ At(w, "voiding")
     /\ ledger' = IF ledger[k].state = "draft" /\ call[w].now >= ledger[k].drafted
                  THEN [ledger EXCEPT ![k] = Voided(@)]
                  ELSE ledger
     /\ Return(w)
     /\ UNCHANGED warmup /\ gmailUnchanged /\ worldUnchanged

-----------------------------------------------------------------------------
(* mark_sent, the mailbox's owner, the clock, crashes *)

\* mark_sent records the message of a draft that has been sent.  It does not ask
\* Gmail, and nothing in the repository calls it.
MarkSent(k) ==
  /\ ledger[k].state = "draft"
  /\ ledger' = [ledger EXCEPT ![k] = Sent(@)]
  /\ UNCHANGED <<warmup, call>> /\ gmailUnchanged /\ worldUnchanged

\* GovScout never sends: a person sends or discards the draft in Gmail.
PersonSends(id) ==
  /\ mailbox[id] = "draft"
  /\ mailbox' = [mailbox EXCEPT ![id] = "sent"]
  /\ UNCHANGED <<ledgerOf, inflight, call>> /\ ledgerUnchanged /\ worldUnchanged

PersonDiscards(id) ==
  /\ mailbox[id] = "draft"
  /\ mailbox' = [mailbox EXCEPT ![id] = "deleted"]
  /\ UNCHANGED <<ledgerOf, inflight, call>> /\ ledgerUnchanged /\ worldUnchanged

Tick ==
  /\ clock < MaxTime
  /\ clock' = clock + 1
  /\ UNCHANGED call /\ ledgerUnchanged /\ gmailUnchanged

\* The process dies between two steps; a create request may be on its way.
Crash(w) ==
  /\ ~At(w, "idle")
  /\ inflight' \in {inflight} \cup
       (IF At(w, "create") THEN {inflight \cup {call[w].stage}} ELSE {})
  /\ Return(w)
  /\ UNCHANGED <<mailbox, ledgerOf>> /\ ledgerUnchanged /\ worldUnchanged

-----------------------------------------------------------------------------
DraftStep(w) ==
  \/ \E k \in Stages, c \in Contents : StartDraft(w, k, c)
  \/ ReserveNew(w)
  \/ ReserveExisting(w)
  \/ ReserveRefused(w)
  \/ \E id \in DraftIds : CreateDraft(w, id)
  \/ \E id \in DraftIds : CreateAnswerLost(w, id)
  \/ CreateRaises(w)
  \/ NoteReservationError(w)
  \/ FinaliseDraft(w)
  \/ ResumeExisting(w)
  \/ \E id \in DraftIds : FindByLedgerId(w, id)
  \/ FindGivesUp(w)

UndoStep(w) ==
  \/ \E k \in Stages : StartUndo(w, k)
  \/ UndoReadsRow(w)
  \/ DeleteDraft(w)
  \/ DeleteRaises(w)
  \/ VoidDraft(w)

World ==
  \/ \E k \in Stages : MarkSent(k)
  \/ \E k \in Stages, id \in DraftIds : GmailActsLate(k, id)
  \/ \E id \in DraftIds : PersonSends(id)
  \/ \E id \in DraftIds : PersonDiscards(id)
  \/ Tick

Next ==
  \/ \E w \in Workers : DraftStep(w) \/ UndoStep(w) \/ Crash(w)
  \/ World

Spec == Init /\ [][Next]_vars

-----------------------------------------------------------------------------
(* Properties *)

TypeOK ==
  /\ clock \in Time
  /\ warmup \in Time \cup {None}
  /\ ledger \in [Stages -> Row]
  /\ mailbox \in [DraftIds -> {"unused", "draft", "deleted", "sent"}]
  /\ ledgerOf \in [DraftIds -> Stages \cup {None}]
  /\ inflight \in SUBSET Stages
  /\ call \in [Workers -> Call]

\* README "concurrency-safe daily capacity": on every UK day, whatever processes
\* race, crash or carry an instant across midnight, the countable rows created
\* on that day are within that day's effective hard limit.
CapacityRespected ==
  \A t \in Time :
    Cardinality(CountedOn(UkDay(t)))
      <= EffectiveHardLimit(WarmupDay(warmup, UkDay(t)))

\* README "exact retries are idempotent": no sequence of retries, timeouts,
\* late answers and crashes gives one ledger row two Gmail drafts, not even one
\* of them deleted or sent since; a request still in flight counts as a draft.
OneDraftPerRow ==
  /\ \A i, j \in DraftIds :
       (mailbox[i] # "unused" /\ mailbox[j] # "unused" /\ ledgerOf[i] = ledgerOf[j])
         => i = j
  /\ \A id \in DraftIds : mailbox[id] # "unused" => ledgerOf[id] \notin inflight

\* README "ambiguous Gmail outcomes stay counted until reconciled" and "undo
\* deletes the Gmail draft before voiding": a draft that exists in Gmail, or
\* that Gmail may still create, belongs to a row that uses capacity.
LiveDraftsAreCounted ==
  /\ \A id \in DraftIds : mailbox[id] = "draft" => Countable(ledgerOf[id])
  /\ \A k \in inflight : ledger[k].state = "reserved"

\* A row that names a Gmail draft names the draft Gmail made for that row.
LedgerNamesItsOwnDraft ==
  \A k \in Stages :
    ledger[k].gid # None =>
      ledgerOf[ledger[k].gid] = k /\ mailbox[ledger[k].gid] # "unused"

\* 003_immutable_ledger_history: a row is never deleted, its request and its
\* creation instant never change, a named draft is never replaced, and a row
\* that left the countable states never uses capacity again.
HistoryIsKept ==
  [][\A k \in Stages :
       ledger[k].state # "none" =>
         /\ ledger'[k].state # "none"
         /\ ledger'[k].content = ledger[k].content
         /\ ledger'[k].created = ledger[k].created
         /\ ledger[k].gid # None => ledger'[k].gid = ledger[k].gid
         /\ ~Countable(k) => ledger'[k] = ledger[k]]_vars

\* README "Undo deletes the Gmail draft before voiding": a voided row's message
\* was deleted, so it was not sent and its capacity is rightly released.
VoidedMailWasDeleted ==
  \A k \in Stages : ledger[k].state = "void" => mailbox[ledger[k].gid] = "deleted"

-----------------------------------------------------------------------------
(* The inductive invariant behind these properties *)

\* The CHECK constraint of the sends table.
RowsAreWellFormed ==
  \A k \in Stages :
    /\ (ledger[k].gid = None) <=> (ledger[k].state \in {"none", "reserved"})
    /\ (ledger[k].drafted = None) <=> (ledger[k].state \in {"none", "reserved"})

WarmupStartsWithTheLedger ==
  warmup = None => \A k \in Stages : ledger[k].state = "none"

DraftsHaveRows ==
  \A id \in DraftIds :
    mailbox[id] # "unused" =>
      ledgerOf[id] \in Stages /\ ledger[ledgerOf[id]].state # "none"

\* What a worker remembers still holds when it uses it.
MayCreate(w) ==
  LET k == call[w].stage
  IN /\ ledger[k].state = "reserved"
     /\ k \notin inflight
     /\ \A id \in DraftIds : ledgerOf[id] = k => mailbox[id] = "unused"
     /\ \A v \in Workers : (At(v, "create") /\ call[v].stage = k) => v = w

HasDraft(w) ==
  /\ call[w].gid \in DraftIds
  /\ ledgerOf[call[w].gid] = call[w].stage
  /\ mailbox[call[w].gid] # "unused"

CallsAgree ==
  \A w \in Workers :
    /\ At(w, "create") => MayCreate(w)
    /\ At(w, "finalise") => HasDraft(w)
    /\ (At(w, "delete") \/ At(w, "voiding")) =>
         HasDraft(w) /\ ledger[call[w].stage].gid = call[w].gid
    /\ At(w, "voiding") => mailbox[call[w].gid] # "draft"

DraftsAccounted ==
  /\ RowsAreWellFormed
  /\ DraftsHaveRows
  /\ OneDraftPerRow
  /\ LiveDraftsAreCounted
  /\ LedgerNamesItsOwnDraft
  /\ CallsAgree

IInv == TypeOK /\ WarmupStartsWithTheLedger /\ CapacityRespected /\ DraftsAccounted
=============================================================================
