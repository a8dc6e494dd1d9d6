-------------------------- MODULE WebsiteResearch --------------------------
(***************************************************************************)
(* The research of one firm on the workbench: searches for its website,    *)
(* the candidates they suggest, the evidence operators record or withdraw, *)
(* contacts included, and the reprocessing jobs they queue.                *)
(*                                                                         *)
(* The callers are the server's processes, one request each, and the queue *)
(* worker, which searches and confirms by itself.  Each transaction is a   *)
(* step; what a form or a request read before it may be outdated by then.  *)
(* Meanwhile imports replace the firm's record, commands verify it again   *)
(* and operators archive and restore it.                                   *)
(*                                                                         *)
(* Firms share nothing here, so one is modelled.  What only refuses is left *)
(* out: the ages and instants of receipts and events, that a firm is not   *)
(* active or has no company number, and that a record came with an         *)
(* accepted import.  URLs have passed their checks, and of contact         *)
(* evidence only the order of its events matters.                          *)
(***************************************************************************)
EXTENDS Integers, Sequences, FiniteSets

CONSTANTS
  Sources,      \* source_record_hash values the record of the firm may have
  Sites,        \* website URLs
  Operators,    \* server processes, each with an operator's request
  Worker,       \* the process that holds the queue's lock
  None,         \* SQL NULL, or nothing yet
  Day,          \* a day, in ticks
  DayLimit,     \* searches a day allows
  Reuse,        \* how long a search is used again, in ticks
  MaxTime,      \* bound on the clock
  MaxRows       \* bound on receipts, searches and events together

ASSUME NumbersAssumption ==
  /\ Day \in Nat /\ DayLimit \in Nat /\ Reuse \in Nat
  /\ MaxTime \in Nat /\ MaxRows \in Nat

ASSUME CallersAssumption == IsFiniteSet(Operators) /\ Worker \notin Operators

VARIABLES
  clock,
  source,     \* fca_firms.source_record_hash
  archived,   \* is the firm's latest archive event an 'archive'
  receipts,   \* company_verification_attempts
  searches,   \* website_candidate_searches, each with its candidates
  events,     \* firm_website_evidence_events and firm_contact_evidence_events
  jobs,       \* the inputs of the fca_reprocessing_jobs
  call        \* what each caller remembers

vars == <<clock, source, archived, receipts, searches, events, jobs, call>>

-----------------------------------------------------------------------------
(* Rows *)

Callers == Operators \cup {Worker}
Kinds == {"website", "contact"}

Receipt == [ok : BOOLEAN, source : Sources]
Search == [source : Sources, receipt : Nat, at : 0 .. MaxTime,
           candidates : SUBSET Sites \ {{}}]
Event == [action : {"assert", "withdraw"}, site : Sites \cup {None},
          confirmed : BOOLEAN, source : Sources, previous : Nat]
Job == [event : Nat, receipt : Nat, source : Sources]

Form == [kind : Kinds, action : {"assert", "withdraw"}, site : Sites \cup {None},
         confirmed : BOOLEAN]
Read == [source : Sources, receipt : Nat]

ASSUME NoneAssumption == None \notin Sites \cup Form \cup Read

\* seen is the previous event the caller expects, read what a search is made
\* for, now the instant the caller took.
Call == [pc : {"idle", "record", "search", "provider"},
         form : Form \cup {None}, seen : Nat, read : Read \cup {None},
         now : 0 .. MaxTime]

Idle == [pc |-> "idle", form |-> None, seen |-> 0, read |-> None, now |-> 0]

At(c, pc) == call[c].pc = pc

Become(c, state) == call' = [call EXCEPT ![c] = state]

RoomForRow ==
  Len(receipts) + Len(searches) + Len(events["website"]) + Len(events["contact"])
    < MaxRows

LatestAssertion(k) ==
  LET es == events[k]
  IN IF es # <<>> /\ es[Len(es)].action = "assert" THEN {es[Len(es)]} ELSE {}

\* The latest verification attempt is a success, for the present record.
Verified ==
  receipts # <<>> /\ receipts[Len(receipts)] = [ok |-> TRUE, source |-> source]

Init ==
  /\ clock = 0
  /\ source \in Sources
  /\ archived = FALSE
  /\ receipts = <<>> /\ searches = <<>>
  /\ events = [k \in Kinds |-> <<>>]
  /\ jobs = {}
  /\ call = [c \in Callers |-> Idle]

-----------------------------------------------------------------------------
(* The firm and the clock *)

rowsUnchanged == UNCHANGED <<receipts, searches, events, jobs>>
firmUnchanged == UNCHANGED <<clock, source, archived>>

Tick ==
  /\ clock < MaxTime
  /\ clock' = clock + 1
  /\ rowsUnchanged /\ UNCHANGED <<source, archived, call>>

\* An import brings another record.
Import(s) ==
  /\ source' = s
  /\ rowsUnchanged /\ UNCHANGED <<clock, archived, call>>

ArchiveOrRestore ==
  /\ archived' = ~archived
  /\ rowsUnchanged /\ UNCHANGED <<clock, source, call>>

Reverify(ok) ==
  /\ RoomForRow
  /\ receipts' = Append(receipts, [ok |-> ok, source |-> source])
  /\ firmUnchanged /\ UNCHANGED <<searches, events, jobs, call>>

-----------------------------------------------------------------------------
(* Searching for candidates *)

\* The worker takes the instant of its job before it verifies the firm.
TakeJob ==
  /\ At(Worker, "idle")
  /\ Become(Worker, [Idle EXCEPT !.pc = "search", !.now = clock])
  /\ firmUnchanged /\ rowsUnchanged

\* About to record a form, expecting n events.
Recording(form, n) == [Idle EXCEPT !.pc = "record", !.seen = n, !.form = form]

Confirming(site, n) ==
  Recording([kind |-> "website", action |-> "assert", site |-> site,
             confirmed |-> TRUE], n)

\* The worker confirms a candidate of its search, or finds none that matches.
MayConfirm(candidates) ==
  {Idle} \cup {Confirming(site, 0) : site \in candidates}

\* Once a search is there: the request ends, the worker looks at its candidates.
Found(c, candidates) ==
  IF c = Worker THEN \E state \in MayConfirm(candidates) : Become(c, state)
  ELSE Become(c, Idle)

\* The latest search made for the present record and receipt is recent.
Reusable(now) ==
  LET made == {i \in DOMAIN searches :
                 searches[i].source = source /\ searches[i].receipt = Len(receipts)}
  IN {i \in made : (\A j \in made : j <= i) /\ searches[i].at <= now
                                            /\ now - searches[i].at <= Reuse}

\* Mutant: the limit itself is allowed.
OneSearchMore(now) ==
  Cardinality({i \in DOMAIN searches : searches[i].at >= now - Day}) <= DayLimit

SearchAllowed(now) ==
  Cardinality({i \in DOMAIN searches : searches[i].at >= now - Day}) < DayLimit

\* discover_website_candidates, up to the provider's request.
Discover(c) ==
  LET now == IF c = Worker THEN call[c].now ELSE clock
  IN /\ At(c, IF c = Worker THEN "search" ELSE "idle")
     /\ Verified
     /\ \/ \E i \in Reusable(now) : Found(c, searches[i].candidates)
        \/ /\ Reusable(now) = {}
           /\ SearchAllowed(now)
           /\ Become(c, [Idle EXCEPT !.pc = "provider", !.now = now,
                           !.read = [source |-> source, receipt |-> Len(receipts)]])
     /\ firmUnchanged /\ rowsUnchanged

\* Mutant: neither the transaction nor the trigger of migration 015 compares the
\* firm's identity again.
IdentityAsVerified(c) == Verified

\* The record and the receipt are still those the search was made for.
IdentityAsRead(c) == call[c].read = [source |-> source, receipt |-> Len(receipts)]

\* Mutant: an answer without a plausible website is kept, too.
AnyAnswer == SUBSET Sites

\* What may be left of the provider's answer.
Plausible == SUBSET Sites \ {{}}

\* The provider has answered.
StoreSearch(c) ==
  /\ At(c, "provider") /\ RoomForRow
  /\ IdentityAsRead(c) /\ ~archived
  /\ \E candidates \in Plausible :
       /\ searches' = Append(searches,
            [source |-> call[c].read.source, receipt |-> call[c].read.receipt,
             at |-> call[c].now, candidates |-> candidates])
       /\ Found(c, candidates)
  /\ firmUnchanged /\ UNCHANGED <<receipts, events, jobs>>

-----------------------------------------------------------------------------
(* Evidence and reprocessing *)

\* What a page showed as the latest event, when there were n of them.
Shown(kind, n) == IF n = 0 THEN {} ELSE {events[kind][n]}

\* An operator submits a form, made from a page however long ago; only what the
\* page showed as asserted can be withdrawn.
Submit(o, kind, n, action, site, confirmed) ==
  /\ At(o, "idle")
  /\ IF kind = "website" THEN site \in Sites ELSE site = None /\ ~confirmed
  /\ action = "withdraw" =>
       ~confirmed /\ \E e \in Shown(kind, n) : e.action = "assert" /\ e.site = site
  /\ Become(o, Recording([kind |-> kind, action |-> action, site |-> site,
                          confirmed |-> confirmed], n))
  /\ firmUnchanged /\ rowsUnchanged

\* The confirmation of a candidate: it is loaded, if its search is the latest and
\* was made for the present record and receipt, before the transaction begins.
ConfirmCandidate(o, n) ==
  /\ At(o, "idle")
  /\ searches # <<>>
  /\ LET s == searches[Len(searches)]
     IN /\ s.source = source /\ s.receipt = Len(receipts)
        /\ \E site \in s.candidates : Become(o, Confirming(site, n))
  /\ firmUnchanged /\ rowsUnchanged

\* Mutant: the latest event need not be the one the form was made for.
FormAsLatest(c) ==
  LET form == call[c].form
  IN form.action = "withdraw" =>
       \E e \in LatestAssertion(form.kind) : e.site = form.site

\* The form was made for the latest event, and withdraws only an assertion.
FormIsCurrent(c) ==
  LET form == call[c].form
  IN /\ call[c].seen = Len(events[form.kind])
     /\ form.action = "withdraw" =>
          \E e \in LatestAssertion(form.kind) : e.site = form.site

Recordable(c) ==
  /\ At(c, "record") /\ RoomForRow
  /\ ~archived
  /\ FormIsCurrent(c)

NewEvent(c) ==
  LET form == call[c].form
  IN events' = [events EXCEPT ![form.kind] =
       Append(@, [action |-> form.action, site |-> form.site,
                  confirmed |-> form.confirmed, source |-> source,
                  previous |-> call[c].seen])]

\* record_website_evidence and record_contact_evidence, as a transaction.
RecordEvidence(c) ==
  /\ Recordable(c) /\ ~call[c].form.confirmed
  /\ NewEvent(c)
  /\ Become(c, Idle)
  /\ firmUnchanged /\ UNCHANGED <<receipts, searches, jobs>>

\* The job of the latest event and receipt.
JobOf(event) == [event |-> event, receipt |-> Len(receipts), source |-> source]

\* Mutant: the event is kept although nothing could be queued for it.
ConfirmInTwoSteps(c) ==
  /\ Recordable(c) /\ call[c].form.confirmed
  /\ NewEvent(c)
  /\ jobs' = IF Verified THEN jobs \cup {JobOf(Len(events["website"]) + 1)} ELSE jobs
  /\ Become(c, Idle)
  /\ firmUnchanged /\ UNCHANGED <<receipts, searches>>

\* confirm_website_and_enqueue: the event and its job are one transaction.
Confirm(c) ==
  /\ Recordable(c) /\ call[c].form.confirmed
  /\ Verified
  /\ NewEvent(c)
  /\ jobs' = jobs \cup {JobOf(Len(events["website"]) + 1)}
  /\ Become(c, Idle)
  /\ firmUnchanged /\ UNCHANGED <<receipts, searches>>

\* Mutant: the assertion may be one of an earlier record.
AssertedForAny == LatestAssertion("website") # {}

\* The latest event asserts a website of the present record.
Asserted == \E e \in LatestAssertion("website") : e.source = source

\* enqueue_website_reprocessing: a form that names an
\* earlier event is refused, and the same input is not queued twice.
RequestReprocessing(o) ==
  /\ At(o, "idle")
  /\ ~archived /\ Asserted /\ Verified
  /\ jobs' = jobs \cup {JobOf(Len(events["website"]))}
  /\ firmUnchanged /\ UNCHANGED <<receipts, searches, events, call>>

\* A request is refused, the provider fails or suggests nothing, the transaction
\* is rolled back or the process killed: nothing is written.
GiveUp(c) ==
  /\ ~At(c, "idle")
  /\ Become(c, Idle)
  /\ firmUnchanged /\ rowsUnchanged

Next ==
  \/ Tick \/ ArchiveOrRestore \/ TakeJob
  \/ \E s \in Sources : Import(s)
  \/ \E ok \in BOOLEAN : Reverify(ok)
  \/ \E c \in Callers :
       Discover(c) \/ StoreSearch(c) \/ RecordEvidence(c) \/ Confirm(c) \/ GiveUp(c)
  \/ \E o \in Operators : RequestReprocessing(o)
  \/ \E o \in Operators, kind \in Kinds : \E n \in 0 .. Len(events[kind]) :
       \/ kind = "website" /\ ConfirmCandidate(o, n)
       \/ \E action \in {"assert", "withdraw"}, site \in Sites \cup {None},
            confirmed \in BOOLEAN : Submit(o, kind, n, action, site, confirmed)

Spec == Init /\ [][Next]_vars

-----------------------------------------------------------------------------
(* Properties *)

\* Rows and callers have their types.
TypeOK ==
  /\ clock \in 0 .. MaxTime
  /\ source \in Sources /\ archived \in BOOLEAN
  /\ receipts \in Seq(Receipt) /\ searches \in Seq(Search)
  /\ events \in [Kinds -> Seq(Event)]
  /\ jobs \subseteq Job
  /\ call \in [Callers -> Call]

\* website_candidates.py counts the searches of the last day before it asks the
\* provider and stores its own only after the answer: within any day there are
\* at most the limit and what the other callers had under way at that moment.
SearchesPerDay ==
  \A t \in 0 .. MaxTime :
    Cardinality({i \in DOMAIN searches : searches[i].at \in t .. t + Day})
      <= DayLimit + Cardinality(Callers) - 1

\* An answer that comes late does not replace the suggestions for a newer
\* receipt: later searches are for later receipts, each a success for the record
\* the search was made for.
SearchesFollowReceipts ==
  /\ \A i, j \in DOMAIN searches : i <= j => searches[i].receipt <= searches[j].receipt
  /\ \A i \in DOMAIN searches :
       /\ searches[i].receipt \in DOMAIN receipts
       /\ receipts[searches[i].receipt] = [ok |-> TRUE, source |-> searches[i].source]

\* Two forms made for the same event, one confirmed by the worker perhaps, do not
\* both become events: every event was recorded in view of all those before it.
EventsAnswerTheirPages ==
  \A k \in Kinds : \A i \in DOMAIN events[k] : events[k][i].previous = i - 1

\* A reprocessing job takes its website and its legal identity from one record:
\* its event asserts a website, its receipt is a success, both for its source.
JobsNameOneRecord ==
  \A j \in jobs :
    /\ j.event \in DOMAIN events["website"] /\ j.receipt \in DOMAIN receipts
    /\ events["website"][j.event].action = "assert"
    /\ events["website"][j.event].source = j.source
    /\ receipts[j.receipt] = [ok |-> TRUE, source |-> j.source]

\* confirm_website_and_enqueue asserts a website and queues its checks, or
\* neither: no confirmation leaves an event behind for which nothing is queued.
ConfirmationsAreWhole ==
  \A i \in DOMAIN events["website"] :
    events["website"][i].confirmed => \E j \in jobs : j.event = i
=============================================================================
