----------------------------- MODULE FirmReview -----------------------------
(***************************************************************************)
(* From evidence to an approved lead: quality control, promotion, review   *)
(* and readiness, as quality.py, verify_and_promote_firm and the operator's *)
(* routes handle them.                                                     *)
(*                                                                         *)
(* What a quality control judged is compared by hash with what the tables  *)
(* hold when its approval is given and each time it is used.  The module   *)
(* keeps the rows those hashes cover: the FCA record, the latest receipt   *)
(* from Companies House, the latest website event, the latest scan and the *)
(* lead.  Other processes replace them at any time between two steps of an *)
(* operator.  A form may be submitted long after its page was made, so a   *)
(* review may name any quality control there ever was.                     *)
(*                                                                         *)
(* Ages are left out: evidence and quality controls that have become too   *)
(* old are refused by the code, so a firm that is ready there is ready     *)
(* here.  So is the origin of a record: an event needs an accepted import. *)
(* Verification, scan and website events are one step each here;           *)
(* ProcessingQueue has the steps between reading and committing them.      *)
(***************************************************************************)
EXTENDS Integers, FiniteSetsExt

CONSTANTS
  Firms,         \* fca_firms rows
  Records,       \* contents of an FCA record, by source_record_hash
  Sites,         \* website origins
  Companies,     \* Companies House numbers
  SiteOf,        \* the website each record gives, or None
  CompanyOf,     \* the company number each record gives, or None
  Inactive,      \* records that are not active
  Operators,     \* verify_and_promote_firm calls that run at once
  None,          \* SQL NULL, or no row
  MaxRows        \* bound on the rows that are appended for all firms together

ASSUME RecordsAssumption ==
  /\ SiteOf \in [Records -> Sites \cup {None}]
  /\ CompanyOf \in [Records -> Companies \cup {None}]
  /\ Inactive \subseteq Records

VARIABLES
  firm,       \* fca_firms: the record and how often it was observed
  receipt,    \* the latest of company_verification_attempts
  event,      \* the latest of firm_website_evidence_events
  scan,       \* the latest of enrichment_runs
  lead,       \* the company number of the lead the firm is linked to, or None
  archives,   \* the number of firm_archive_events: odd while archived
  passed,     \* the inputs of the qc_runs that passed
  review,     \* the latest of firm_reviews: an approval, or None for a rejection or none
  call,       \* the verify_and_promote_firm calls
  approved    \* history: the rows there were when the approval was stored

evidence == <<firm, receipt, event, scan, lead>>
vars == <<firm, receipt, event, scan, lead, archives, passed, review, call, approved>>

-----------------------------------------------------------------------------
(* Rows *)

Observed == [record : Records, seen : Nat]
Receipts == [id : Nat, ok : BOOLEAN, record : Records \cup {None}]
Events == [id : Nat, site : Sites \cup {None}, record : Records \cup {None}]
Scans == [id : Nat, ok : BOOLEAN, event : Nat \cup {None}, receipt : Nat,
          record : Records \cup {None}]
Inputs == [firm : Observed, lead : Companies \cup {None}, receipt : Receipts,
           scan : Scans, event : Events \cup {None}]
Approvals == [qc : Inputs, archives : Nat]
Calls == [pc : {"idle"}, firm : {None}, row : {None}, receipt : {0}]
           \cup [pc : {"verify", "commit"}, firm : Firms, row : Observed, receipt : Nat]
Rows == [firm : Observed, receipt : Receipts, event : Events, scan : Scans,
         lead : Companies \cup {None}]

ASSUME NoneAssumption ==
  None \notin Sites \cup Companies \cup Nat \cup Events \cup Inputs \cup Approvals
                \cup Rows \cup Firms

NoReceipt == [id |-> 0, ok |-> FALSE, record |-> None]
NoEvent == [id |-> 0, site |-> None, record |-> None]
NoScan == [id |-> 0, ok |-> FALSE, event |-> None, receipt |-> 0, record |-> None]
Idle == [pc |-> "idle", firm |-> None, row |-> None, receipt |-> 0]

RoomForRow ==
  LET appended(f) == firm[f].seen + receipt[f].id + event[f].id + scan[f].id + archives[f]
  IN MapThenSumSet(appended, Firms) < MaxRows

Archived(f) == archives[f] % 2 = 1

RecordOf(f) == firm[f].record

Active(f) == RecordOf(f) \notin Inactive

Company(f) == CompanyOf[RecordOf(f)]

-----------------------------------------------------------------------------
(* What quality control judges *)

\* What operators asserted last, if it is for the current record.
AssertedSite(f) == IF event[f].record = RecordOf(f) THEN event[f].site ELSE None

\* _current_website_event: the event the latest scan was made for.
CurrentEvent(f) ==
  /\ scan[f].event # None /\ scan[f].event = event[f].id
  /\ AssertedSite(f) # None

EffectiveSite(f) == IF CurrentEvent(f) THEN event[f].site ELSE SiteOf[RecordOf(f)]

\* Mutant: the website on record of another firm is not compared.
FirmsOnAssertedSite(f) ==
  {g \in Firms \ {f} : Active(g) /\ EffectiveSite(f) = AssertedSite(g)}

\* _duplicate_snapshot: other active firms.
FirmsOnSameSite(f) ==
  {g \in Firms \ {f} : Active(g) /\ EffectiveSite(f) \in {SiteOf[RecordOf(g)], AssertedSite(g)}}

\* _duplicate_company_snapshot, and what promotion asks of the other firms.
FirmsOfSameCompany(f) ==
  {g \in Firms \ {f} : Active(g) /\ Company(f) # None /\ Company(g) = Company(f)}

\* company_verification_is_current
Verified(f) == receipt[f].ok /\ receipt[f].record = RecordOf(f)

\* load_current_reprocessing_input, for the job of a scan's website event.
InputCurrent(f) ==
  /\ ~Archived(f) /\ Active(f) /\ Verified(f)
  /\ CurrentEvent(f) /\ scan[f].receipt = receipt[f].id

\* _evaluate_current finds no reason.
Passes(f) ==
  /\ Active(f)
  /\ EffectiveSite(f) # None
  /\ FirmsOnSameSite(f) = {} /\ FirmsOfSameCompany(f) = {}
  /\ Verified(f)
  /\ scan[f].ok
  /\ IF scan[f].event = None THEN scan[f].record = RecordOf(f) ELSE InputCurrent(f)

JudgedEvent(f) == IF CurrentEvent(f) THEN event[f] ELSE None

\* Mutant: the hash leaves out the lead, which promotion sets.
InputWithoutLead(f) ==
  [firm |-> firm[f], lead |-> None, receipt |-> receipt[f], scan |-> scan[f],
   event |-> JudgedEvent(f)]

\* _qc_input_hash.  The duplicates it covers are none whenever it is compared.
Input(f) ==
  [firm |-> firm[f], lead |-> lead[f], receipt |-> receipt[f], scan |-> scan[f],
   event |-> JudgedEvent(f)]

\* qc_is_current, for a quality control that passed on input q.
QcIsCurrent(f, q) == Passes(f) /\ q = Input(f)

\* Mutant: an approval from before an archive event counts again.
ReadyAgain(f) ==
  /\ ~Archived(f) /\ lead[f] # None
  /\ review[f] # None
  /\ QcIsCurrent(f, review[f].qc)

\* is_outreach_ready
IsOutreachReady(f) ==
  /\ ~Archived(f) /\ lead[f] # None
  /\ review[f] # None /\ review[f].archives = archives[f]
  /\ QcIsCurrent(f, review[f].qc)

Init ==
  /\ firm \in [Firms -> [record : Records, seen : {0}]]
  /\ receipt = [f \in Firms |-> NoReceipt]
  /\ event = [f \in Firms |-> NoEvent]
  /\ scan = [f \in Firms |-> NoScan]
  /\ lead = [f \in Firms |-> None]
  /\ archives = [f \in Firms |-> 0]
  /\ passed = [f \in Firms |-> {}]
  /\ review = [f \in Firms |-> None]
  /\ call = [o \in Operators |-> Idle]
  /\ approved = [f \in Firms |-> None]

judgedUnchanged == UNCHANGED <<passed, review, approved>>

-----------------------------------------------------------------------------
(* What replaces the evidence *)

\* Mutant: a linked firm's record changes like any other.
AnyRecord(f, r) == TRUE

\* linked_fca_identity_no_update: another record for a linked firm aborts the
\* transaction that brings it.
MayBecome(f, r) == lead[f] # None => r = RecordOf(f)

\* An import or an operator's ingest that holds a record of the firm.
Observe(f, r) ==
  /\ RoomForRow
  /\ MayBecome(f, r)
  /\ firm' = [firm EXCEPT ![f] = [record |-> r, seen |-> @.seen + 1]]
  /\ UNCHANGED <<receipt, event, scan, lead, archives, call>> /\ judgedUnchanged

NewReceipt(f, ok) ==
  /\ RoomForRow
  /\ Active(f) /\ Company(f) # None
  /\ receipt' = [receipt EXCEPT ![f] =
       [id |-> @.id + 1, ok |-> ok, record |-> RecordOf(f)]]

\* verify_firm, run by the queue or by an operator.
Verify(f) ==
  /\ \E ok \in BOOLEAN : NewReceipt(f, ok)
  /\ UNCHANGED <<firm, event, scan, lead, archives, call>> /\ judgedUnchanged

\* A website event: asserted, or withdrawn where site is None.
RecordEvent(f, site) ==
  /\ RoomForRow
  /\ ~Archived(f)
  /\ site = None => event[f].site # None
  /\ event' = [event EXCEPT ![f] =
       [id |-> @.id + 1, site |-> site, record |-> RecordOf(f)]]
  /\ UNCHANGED <<firm, receipt, scan, lead, archives, call>> /\ judgedUnchanged

\* The run that is stored, complete or not, with what it was made for.
ScanRow(f, e, ok) ==
  [id |-> scan[f].id + 1, ok |-> ok, event |-> e, receipt |-> receipt[f].id,
   record |-> RecordOf(f)]

\* run_enrichment of the website on record, or of the asserted one: e is the id
\* of its event.
Scan(f, e) ==
  /\ RoomForRow
  /\ Verified(f)
  /\ IF e = None THEN SiteOf[RecordOf(f)] # None
     ELSE e = event[f].id /\ AssertedSite(f) # None /\ Active(f) /\ ~Archived(f)
  /\ \E ok \in BOOLEAN : scan' = [scan EXCEPT ![f] = ScanRow(f, e, ok)]
  /\ UNCHANGED <<firm, receipt, event, lead, archives, call>> /\ judgedUnchanged

\* record_archive_event, archive or restore in turn; the jobs under way that refuse
\* it are in ProcessingQueue.
Archive(f) ==
  /\ RoomForRow
  /\ archives' = [archives EXCEPT ![f] = @ + 1]
  /\ UNCHANGED <<evidence, call>> /\ judgedUnchanged

-----------------------------------------------------------------------------
(* verify_and_promote_firm *)

\* The firm's row is read, and the other firms, before Companies House is asked.
StartPromotion(o, f) ==
  /\ call[o].pc = "idle"
  /\ lead[f] = None /\ Active(f) /\ Company(f) # None /\ FirmsOfSameCompany(f) = {}
  /\ call' = [call EXCEPT ![o] =
       [pc |-> "verify", firm |-> f, row |-> firm[f], receipt |-> 0]]
  /\ UNCHANGED <<evidence, archives>> /\ judgedUnchanged

EndCall(o) == call' = [call EXCEPT ![o] = Idle]

\* verify_firm reads the firm again; a refusal, with or without a receipt, ends
\* the call.
VerifyForPromotion(o) ==
  /\ call[o].pc = "verify"
  /\ \/ /\ NewReceipt(call[o].firm, TRUE)
        /\ call' = [call EXCEPT ![o] =
             [@ EXCEPT !.pc = "commit", !.receipt = receipt[call[o].firm].id + 1]]
     \/ NewReceipt(call[o].firm, FALSE) /\ EndCall(o)
     \/ UNCHANGED receipt /\ EndCall(o)
  /\ UNCHANGED <<firm, event, scan, lead, archives>> /\ judgedUnchanged

\* Mutant: the row and the other firms are not read again.
PromotableAsRead(f, o) ==
  /\ lead[f] = None
  /\ receipt[f].id = call[o].receipt /\ receipt[f].ok
  /\ \A g \in Firms : lead[g] # Company(f)

\* What the promotion's own transaction reads again and compares;
\* leads.company_number is UNIQUE.
Promotable(f, o) ==
  /\ firm[f] = call[o].row /\ lead[f] = None
  /\ receipt[f].id = call[o].receipt /\ receipt[f].ok
  /\ FirmsOfSameCompany(f) = {}
  /\ \A g \in Firms : lead[g] # Company(f)

CommitPromotion(o) ==
  LET f == call[o].firm
  IN /\ call[o].pc = "commit"
     /\ lead' = IF Promotable(f, o) THEN [lead EXCEPT ![f] = Company(f)] ELSE lead
     /\ EndCall(o)
     /\ UNCHANGED <<firm, receipt, event, scan, archives>> /\ judgedUnchanged

-----------------------------------------------------------------------------
(* Quality control and review *)

\* run_qc; one that fails is of no use to a review.
RunQc(f) ==
  /\ Passes(f)
  /\ passed' = [passed EXCEPT ![f] = @ \cup {Input(f)}]
  /\ UNCHANGED <<evidence, archives, review, call, approved>>

RowsOf(f) == [firm |-> firm[f], receipt |-> receipt[f], event |-> event[f],
              scan |-> scan[f], lead |-> lead[f]]

\* What review_firm stores.
Store(f, decision, rows) ==
  /\ ~Archived(f)
  /\ review' = [review EXCEPT ![f] = decision]
  /\ approved' = [approved EXCEPT ![f] = rows]
  /\ UNCHANGED <<evidence, archives, passed, call>>

\* Mutant: an approval that names no quality control is stored.
ApproveBlindly(f) == Store(f, [qc |-> None, archives |-> archives[f]], RowsOf(f))

\* review_firm with the qc_run_id of a page made at any earlier time.
Approve(f) ==
  \E q \in passed[f] :
    QcIsCurrent(f, q) /\ Store(f, [qc |-> q, archives |-> archives[f]], RowsOf(f))

Reject(f) == Store(f, None, None)

Next ==
  \/ \E f \in Firms :
       \/ \E r \in Records : Observe(f, r)
       \/ Verify(f)
       \/ \E site \in Sites \cup {None} : RecordEvent(f, site)
       \/ \E e \in {None, event[f].id} : Scan(f, e)
       \/ Archive(f)
       \/ RunQc(f) \/ Approve(f) \/ Reject(f)
       \/ \E o \in Operators : StartPromotion(o, f)
  \/ \E o \in Operators : VerifyForPromotion(o) \/ CommitPromotion(o)

Spec == Init /\ [][Next]_vars
-----------------------------------------------------------------------------
(* Properties *)

TypeOK ==
  /\ firm \in [Firms -> Observed]
  /\ receipt \in [Firms -> Receipts]
  /\ event \in [Firms -> Events]
  /\ scan \in [Firms -> Scans]
  /\ lead \in [Firms -> Companies \cup {None}]
  /\ archives \in [Firms -> Nat]
  /\ passed \in [Firms -> SUBSET Inputs]
  /\ review \in [Firms -> Approvals \cup {None}]
  /\ call \in [Operators -> Calls]
  /\ approved \in [Firms -> Rows \cup {None}]

\* README "Explicit human approval is still required for outreach readiness": a
\* firm that is ready has the record, the receipt, the scan, the website event it
\* was scanned for and the lead there were when an operator approved it, whatever
\* was replaced in between.
ReadyAsApproved ==
  \A f \in Firms : IsOutreachReady(f) =>
    /\ approved[f] # None
    /\ approved[f].firm = firm[f] /\ approved[f].receipt = receipt[f]
    /\ approved[f].scan = scan[f] /\ approved[f].lead = lead[f]
    /\ scan[f].event # None => approved[f].event = event[f]

\* Two firms that are ready share no website, recorded or asserted, and no
\* company: no business is contacted as two.
ReadyFirmsDiffer ==
  \A f, g \in Firms : (f # g /\ IsOutreachReady(f) /\ IsOutreachReady(g)) =>
     EffectiveSite(f) # EffectiveSite(g) /\ Company(f) # Company(g)

\* A linked firm stays the firm its lead was made for: active, of the lead's
\* company, and the only one linked to it.
LinkedFirmsMatch ==
  \A f \in Firms : lead[f] # None =>
    /\ lead[f] = Company(f) /\ Active(f)
    /\ \A g \in Firms \ {f} : lead[g] # lead[f]

\* A lead is only made for a firm without one, on a receipt for the record the
\* firm has at that moment, while no other active firm gives the same company.
PromotedOnVerified ==
  [][\A f \in Firms : lead'[f] # lead[f] =>
       lead[f] = None /\ Verified(f) /\ FirmsOfSameCompany(f) = {}]_vars

\* README "restoration never revives an approval from before the archive event",
\* and nothing else revives one: a firm only becomes ready when an operator
\* reviews it, or when another firm stops claiming its website or company.
ReadinessIsGiven ==
  [][\A f \in Firms : (~IsOutreachReady(f) /\ IsOutreachReady(f)') =>
        \/ review'[f] # review[f]
        \/ \E g \in Firms \ {f} : firm'[g] # firm[g] \/ event'[g] # event[g]]_vars
=============================================================================
