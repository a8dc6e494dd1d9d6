-------------------------- MODULE FirmReviewProofs --------------------------
(***************************************************************************)
(* Machine-checked facts about FirmReview for every set of firms, records, *)
(* websites, companies and operators, and every number of rows.            *)
(***************************************************************************)
EXTENDS FirmReview, TLAPS

\* A promotion is of a row the firm has had, active and with a company; while its
\* receipt is the latest and the row is current, the receipt is for that row.
CallsHold ==
  \A o \in Operators : call[o].pc # "idle" =>
    LET f == call[o].firm
        row == call[o].row
    IN /\ row.seen <= firm[f].seen
       /\ row.record \notin Inactive /\ CompanyOf[row.record] # None
       /\ call[o].pc = "commit" =>
            /\ call[o].receipt <= receipt[f].id
            /\ (call[o].receipt = receipt[f].id /\ row = firm[f]) =>
                 receipt[f].record = row.record

\* What an approval was given on is no newer than what there is, and the lead it
\* was given for is kept.
ApprovalsAge ==
  \A f \in Firms :
    /\ scan[f].event # None => scan[f].event <= event[f].id
    /\ review[f] # None =>
         /\ review[f].qc.firm.seen <= firm[f].seen
         /\ review[f].qc.receipt.id <= receipt[f].id
         /\ review[f].qc.scan.id <= scan[f].id
         /\ review[f].archives <= archives[f]
         /\ review[f].qc.lead # None => review[f].qc.lead = lead[f]

\* The rows an approval was given on are those its quality control names.
ApprovalsKept ==
  \A f \in Firms : review[f] # None =>
    /\ approved[f] # None
    /\ approved[f].firm = review[f].qc.firm
    /\ approved[f].receipt = review[f].qc.receipt
    /\ approved[f].scan = review[f].qc.scan
    /\ approved[f].lead = review[f].qc.lead
    /\ review[f].qc.event \in {None, approved[f].event}

IInv == TypeOK /\ LinkedFirmsMatch /\ CallsHold /\ ApprovalsAge /\ ApprovalsKept

-----------------------------------------------------------------------------
(* Types *)

LEMMA RowTypes ==
  ASSUME TypeOK, NEW f \in Firms
  PROVE  Input(f) \in Inputs /\ RowsOf(f) \in Rows
<1>1. /\ firm[f] \in Observed /\ receipt[f] \in Receipts /\ event[f] \in Events
      /\ scan[f] \in Scans /\ lead[f] \in Companies \cup {None}
  BY DEF TypeOK
<1>2. JudgedEvent(f) \in Events \cup {None}
  BY <1>1 DEF JudgedEvent
<1> QED
  BY <1>1, <1>2 DEF Input, Inputs, RowsOf, Rows

LEMMA NewReceiptType ==
  ASSUME TypeOK, NEW f \in Firms, NEW ok \in BOOLEAN, NewReceipt(f, ok)
  PROVE  receipt' \in [Firms -> Receipts]
<1>1. receipt[f] \in Receipts /\ firm[f] \in Observed
  BY DEF TypeOK
<1>2. [id |-> receipt[f].id + 1, ok |-> ok, record |-> RecordOf(f)] \in Receipts
  BY <1>1 DEF Receipts, Observed, RecordOf
<1> QED
  BY <1>2 DEF NewReceipt, TypeOK

LEMMA CallTypes ==
  ASSUME TypeOK, NEW o \in Operators, call[o].pc # "idle"
  PROVE  /\ call[o].pc \in {"verify", "commit"}
         /\ call[o].firm \in Firms /\ call[o].row \in Observed /\ call[o].receipt \in Nat
BY DEF TypeOK, Calls

LEMMA Committed ==
  ASSUME NEW n \in Nat,
         NEW c \in [pc : {"verify", "commit"}, firm : Firms, row : Observed, receipt : Nat]
  PROVE  [c EXCEPT !.pc = "commit", !.receipt = n] \in
           [pc : {"verify", "commit"}, firm : Firms, row : Observed, receipt : Nat]
OBVIOUS

LEMMA TypeInit == Init => TypeOK
<1> SUFFICES ASSUME Init PROVE TypeOK
  OBVIOUS
<1>1. firm \in [Firms -> Observed]
  BY DEF Init, Observed
<1>2. receipt \in [Firms -> Receipts] /\ event \in [Firms -> Events]
  BY DEF Init, NoReceipt, NoEvent, Receipts, Events
<1>3. scan \in [Firms -> Scans]
  BY DEF Init, NoScan, Scans
<1>4. call \in [Operators -> Calls]
  BY DEF Init, Idle, Calls
<1> QED
  BY <1>1, <1>2, <1>3, <1>4 DEF Init, TypeOK

LEMMA TypeNext ==
  ASSUME TypeOK, [Next]_vars
  PROVE  TypeOK'
<1>1. ASSUME NEW f \in Firms, NEW r \in Records, Observe(f, r) PROVE TypeOK'
  <2>1. firm[f] \in Observed /\ [record |-> r, seen |-> firm[f].seen + 1] \in Observed
    BY DEF TypeOK, Observed
  <2> QED
    BY <1>1, <2>1 DEF Observe, judgedUnchanged, TypeOK
<1>2. ASSUME NEW f \in Firms, Verify(f) PROVE TypeOK'
  BY <1>2, NewReceiptType DEF Verify, judgedUnchanged, TypeOK
<1>3. ASSUME NEW f \in Firms, NEW site \in Sites \cup {None}, RecordEvent(f, site)
      PROVE TypeOK'
  <2>1. firm[f] \in Observed /\ event[f] \in Events
    BY DEF TypeOK
  <2>2. [id |-> event[f].id + 1, site |-> site, record |-> RecordOf(f)] \in Events
    BY <2>1 DEF Observed, Events, RecordOf
  <2> QED
    BY <1>3, <2>2 DEF RecordEvent, judgedUnchanged, TypeOK
<1>4. ASSUME NEW f \in Firms, NEW e \in {None, event[f].id}, Scan(f, e) PROVE TypeOK'
  <2>1. /\ firm[f] \in Observed /\ event[f] \in Events
        /\ receipt[f] \in Receipts /\ scan[f] \in Scans
    BY DEF TypeOK
  <2>2. PICK ok \in BOOLEAN :
          scan' = [scan EXCEPT ![f] = [id |-> scan[f].id + 1, ok |-> ok, event |-> e,
                                  receipt |-> receipt[f].id, record |-> RecordOf(f)]]
    BY <1>4 DEF Scan, ScanRow
  <2>3. [id |-> scan[f].id + 1, ok |-> ok, event |-> e,
         receipt |-> receipt[f].id, record |-> RecordOf(f)] \in Scans
    BY <2>1 DEF Observed, Events, Receipts, Scans, RecordOf
  <2>4. scan' \in [Firms -> Scans]
    BY <2>2, <2>3 DEF TypeOK
  <2> QED
    BY <1>4, <2>4 DEF Scan, ScanRow, judgedUnchanged, TypeOK
<1>5. ASSUME NEW f \in Firms, Archive(f) PROVE TypeOK'
  BY <1>5 DEF Archive, evidence, judgedUnchanged, TypeOK
<1>6. ASSUME NEW f \in Firms, RunQc(f) PROVE TypeOK'
  BY <1>6, RowTypes DEF RunQc, evidence, TypeOK
<1>7. ASSUME NEW f \in Firms, Approve(f) PROVE TypeOK'
  <2>1. PICK q \in passed[f] :
          Store(f, [qc |-> q, archives |-> archives[f]], RowsOf(f))
    BY <1>7 DEF Approve
  <2>2. [qc |-> q, archives |-> archives[f]] \in Approvals
    BY DEF TypeOK, Approvals
  <2>3. RowsOf(f) \in Rows
    BY RowTypes
  <2> QED
    BY <2>1, <2>2, <2>3 DEF Store, evidence, TypeOK
<1>8. ASSUME NEW f \in Firms, Reject(f) PROVE TypeOK'
  BY <1>8 DEF Reject, Store, evidence, TypeOK
<1>9. ASSUME NEW f \in Firms, NEW o \in Operators, StartPromotion(o, f) PROVE TypeOK'
  <2>1. [pc |-> "verify", firm |-> f, row |-> firm[f], receipt |-> 0] \in Calls
    BY DEF TypeOK, Calls
  <2> QED
    BY <1>9, <2>1 DEF StartPromotion, evidence, judgedUnchanged, TypeOK
<1>10. ASSUME NEW o \in Operators, VerifyForPromotion(o) PROVE TypeOK'
  <2>1. /\ call[o].pc = "verify" /\ call[o].firm \in Firms
        /\ call[o].row \in Observed /\ receipt[call[o].firm].id \in Nat
    BY <1>10, CallTypes DEF VerifyForPromotion, TypeOK, Receipts
  <2>2. receipt' \in [Firms -> Receipts]
    BY <1>10, <2>1, NewReceiptType DEF VerifyForPromotion, TypeOK
  <2>3. /\ Idle \in Calls
        /\ [call[o] EXCEPT !.pc = "commit", !.receipt = receipt[call[o].firm].id + 1] \in Calls
    <3>1. call[o] \in [pc : {"verify", "commit"}, firm : Firms, row : Observed,
                       receipt : Nat]
      BY <2>1 DEF Calls, TypeOK
    <3>2. receipt[call[o].firm].id + 1 \in Nat
      BY <2>1
    <3>3. [call[o] EXCEPT !.pc = "commit", !.receipt = receipt[call[o].firm].id + 1] \in
            [pc : {"verify", "commit"}, firm : Firms, row : Observed, receipt : Nat]
      BY <3>1, <3>2, Committed, Zenon
    <3>4. Idle \in Calls
      BY DEF Idle, Calls
    <3> QED
      BY <3>3, <3>4 DEF Calls
  <2>4. call' \in [Operators -> Calls]
    BY <1>10, <2>3 DEF VerifyForPromotion, EndCall, TypeOK
  <2> QED
    BY <1>10, <2>2, <2>4 DEF VerifyForPromotion, judgedUnchanged, TypeOK
<1>11. ASSUME NEW o \in Operators, CommitPromotion(o) PROVE TypeOK'
  <2>1. call[o].firm \in Firms
    BY <1>11, CallTypes DEF CommitPromotion
  <2>2. Company(call[o].firm) \in Companies \cup {None} /\ Idle \in Calls
    BY <2>1, RecordsAssumption DEF Company, RecordOf, TypeOK, Observed, Idle, Calls
  <2> QED
    BY <1>11, <2>1, <2>2 DEF CommitPromotion, EndCall, judgedUnchanged, TypeOK
<1>12. CASE UNCHANGED vars
  BY <1>12 DEF vars, TypeOK
<1> QED
  BY <1>1, <1>2, <1>3, <1>4, <1>5, <1>6, <1>7, <1>8, <1>9, <1>10, <1>11, <1>12 DEF Next

-----------------------------------------------------------------------------
(* Links and promotions *)

\* A call only commits on the row it read, so the firm it links is active and its
\* receipt is for the current record.
LEMMA PromotableFacts ==
  ASSUME TypeOK, CallsHold, NEW o \in Operators, call[o].pc = "commit",
         Promotable(call[o].firm, o)
  PROVE  LET f == call[o].firm
         IN /\ f \in Firms /\ lead[f] = None /\ Active(f)
            /\ Company(f) \in Companies
            /\ Verified(f) /\ FirmsOfSameCompany(f) = {}
            /\ \A g \in Firms : lead[g] # Company(f)
<1> DEFINE f == call[o].firm
<1>1. f \in Firms /\ call[o].receipt \in Nat
  BY CallTypes
<1>2. /\ firm[f] = call[o].row /\ lead[f] = None
      /\ receipt[f].id = call[o].receipt /\ receipt[f].ok
      /\ FirmsOfSameCompany(f) = {} /\ \A g \in Firms : lead[g] # Company(f)
  BY DEF Promotable
<1>3. /\ call[o].row.record \notin Inactive /\ CompanyOf[call[o].row.record] # None
      /\ receipt[f].record = call[o].row.record
  BY <1>2 DEF CallsHold
<1>4. firm[f].record \in Records
  BY <1>1 DEF TypeOK, Observed
<1> QED
  BY <1>1, <1>2, <1>3, <1>4, RecordsAssumption DEF Active, Company, RecordOf, Verified

\* The only step that changes a lead is a promotion's commit.
LEMMA LeadSteps ==
  ASSUME TypeOK, CallsHold, [Next]_vars, lead' # lead
  PROVE  \E o \in Operators :
           /\ call[o].pc = "commit" /\ Promotable(call[o].firm, o)
           /\ lead' = [lead EXCEPT ![call[o].firm] = Company(call[o].firm)]
           /\ firm' = firm
<1>1. \E o \in Operators : CommitPromotion(o)
  BY DEF Next, vars, evidence, Observe, Verify, RecordEvent, Scan, Archive, RunQc,
     Approve, Reject, Store, StartPromotion, VerifyForPromotion
<1> QED
  BY <1>1 DEF CommitPromotion

LEMMA LinksInit == Init => LinkedFirmsMatch
BY DEF Init, LinkedFirmsMatch

\* Only an observation changes a record, and not that of a linked firm.
LEMMA RecordSteps ==
  ASSUME TypeOK, [Next]_vars
  PROVE  /\ \A f \in Firms : /\ lead[f] # None => firm'[f].record = firm[f].record
                             /\ firm'[f] = firm[f] \/ firm'[f].seen = firm[f].seen + 1
         /\ firm' = firm \/ lead' = lead
<1>1. CASE firm' = firm
  BY <1>1
<1>2. ASSUME NEW g \in Firms, NEW r \in Records, Observe(g, r)
      PROVE  /\ \A f \in Firms : /\ lead[f] # None => firm'[f].record = firm[f].record
                                 /\ firm'[f] = firm[f] \/ firm'[f].seen = firm[f].seen + 1
             /\ lead' = lead
  <2>1. firm' = [firm EXCEPT ![g] = [record |-> r, seen |-> firm[g].seen + 1]]
    BY <1>2 DEF Observe
  <2>2. lead[g] # None => r = firm[g].record
    BY <1>2 DEF Observe, MayBecome, RecordOf
  <2>3. ASSUME NEW f \in Firms
        PROVE  /\ lead[f] # None => firm'[f].record = firm[f].record
               /\ firm'[f] = firm[f] \/ firm'[f].seen = firm[f].seen + 1
    <3>1. f # g => firm'[f] = firm[f]
      BY <2>1 DEF TypeOK
    <3>2. f = g => firm'[f] = [record |-> r, seen |-> firm[f].seen + 1]
      BY <2>1 DEF TypeOK
    <3> QED
      BY <2>2, <3>1, <3>2
  <2> QED
    BY <1>2, <2>3 DEF Observe
<1>3. firm' = firm \/ \E g \in Firms, r \in Records : Observe(g, r)
  BY DEF Next, vars, evidence, Verify, RecordEvent, Scan, Archive, RunQc,
     Approve, Reject, Store, StartPromotion, VerifyForPromotion, CommitPromotion
<1> QED
  BY <1>1, <1>2, <1>3

LEMMA LinksNext ==
  ASSUME TypeOK, CallsHold, LinkedFirmsMatch, [Next]_vars
  PROVE  LinkedFirmsMatch'
<1>1. CASE lead' = lead
  <2>1. \A f \in Firms : lead[f] # None => firm'[f].record = firm[f].record
    BY RecordSteps
  <2> QED
    BY <1>1, <2>1 DEF LinkedFirmsMatch, Company, Active, RecordOf
<1>2. CASE lead' # lead
  <2>1. PICK o \in Operators :
          /\ call[o].pc = "commit" /\ Promotable(call[o].firm, o)
          /\ lead' = [lead EXCEPT ![call[o].firm] = Company(call[o].firm)]
          /\ firm' = firm
    BY <1>2, LeadSteps
  <2> DEFINE f == call[o].firm
  <2>2. /\ f \in Firms /\ Active(f) /\ \A g \in Firms : lead[g] # Company(f)
    BY <2>1, PromotableFacts
  <2>3. lead'[f] = Company(f) /\ \A g \in Firms \ {f} : lead'[g] = lead[g]
    BY <2>1, <2>2 DEF TypeOK
  <2>4. \A g \in Firms : Company(g)' = Company(g) /\ Active(g)' = Active(g)
    BY <2>1 DEF Company, Active, RecordOf
  <2> HIDE DEF f
  <2> QED
    BY <2>2, <2>3, <2>4 DEF LinkedFirmsMatch
<1> QED
  BY <1>1, <1>2

LEMMA CallsInit == Init => CallsHold
BY DEF Init, CallsHold, Idle

LEMMA ReceiptSteps ==
  ASSUME TypeOK, [Next]_vars
  PROVE  \A f \in Firms :
           \/ receipt'[f] = receipt[f]
           \/ /\ receipt'[f].id = receipt[f].id + 1
              /\ receipt'[f].record = RecordOf(f) /\ firm' = firm
<1> DEFINE Moved(f) == \/ receipt'[f] = receipt[f]
                       \/ /\ receipt'[f].id = receipt[f].id + 1
                          /\ receipt'[f].record = RecordOf(f) /\ firm' = firm
<1>1. ASSUME NEW f \in Firms, NEW ok \in BOOLEAN, NewReceipt(f, ok), firm' = firm
      PROVE  \A g \in Firms : Moved(g)
  BY <1>1 DEF NewReceipt, TypeOK
<1>2. ASSUME NEW f \in Firms, Verify(f) PROVE \A g \in Firms : Moved(g)
  BY <1>1, <1>2 DEF Verify
<1>3. ASSUME NEW o \in Operators, VerifyForPromotion(o) PROVE \A g \in Firms : Moved(g)
  BY <1>1, <1>3, CallTypes DEF VerifyForPromotion
<1>4. ASSUME receipt' = receipt PROVE \A g \in Firms : Moved(g)
  BY <1>4
<1>5. \/ receipt' = receipt
      \/ \E f \in Firms : Verify(f)
      \/ \E o \in Operators : VerifyForPromotion(o)
  BY DEF Next, vars, evidence, Observe, RecordEvent, Scan, Archive, RunQc,
     Approve, Reject, Store, StartPromotion, CommitPromotion
<1> QED
  BY <1>2, <1>3, <1>4, <1>5

LEMMA CallsNext ==
  ASSUME TypeOK, CallsHold, [Next]_vars
  PROVE  CallsHold'
<1> DEFINE Holds(o) ==
      call[o].pc # "idle" =>
        LET f == call[o].firm
            row == call[o].row
        IN /\ row.seen <= firm[f].seen
           /\ row.record \notin Inactive /\ CompanyOf[row.record] # None
           /\ call[o].pc = "commit" =>
                /\ call[o].receipt <= receipt[f].id
                /\ (call[o].receipt = receipt[f].id /\ row = firm[f]) =>
                     receipt[f].record = row.record
<1>1. \A f \in Firms : receipt[f].id \in Nat /\ firm[f].seen \in Nat
  BY DEF TypeOK, Receipts, Observed
<1>2. ASSUME NEW o \in Operators, call'[o] = call[o], Holds(o),
             \A f \in Firms : /\ firm'[f] = firm[f] \/ firm'[f].seen = firm[f].seen + 1
                              /\ receipt'[f] = receipt[f] \/ receipt'[f].id = receipt[f].id + 1
      PROVE Holds(o)'
  <2> SUFFICES ASSUME call[o].pc # "idle" PROVE Holds(o)'
    BY <1>2
  <2> DEFINE f == call[o].firm
  <2>1. f \in Firms /\ call[o].row.seen \in Nat /\ call[o].receipt \in Nat
    BY CallTypes DEF Observed
  <2>2. call'[o].row.seen <= firm'[f].seen
    BY <1>1, <1>2, <2>1
  <2>3. ASSUME call[o].pc = "commit"
        PROVE  /\ call[o].receipt <= receipt'[f].id
               /\ (call[o].receipt = receipt'[f].id /\ call[o].row = firm'[f]) =>
                     receipt'[f].record = call[o].row.record
    BY <1>1, <1>2, <2>1, <2>3
  <2> QED
    BY <1>2, <2>2, <2>3
<1>3. \A o \in Operators : Holds(o)
  BY DEF CallsHold
<1>4. \A f \in Firms : receipt'[f] = receipt[f] \/ receipt'[f].id = receipt[f].id + 1
  BY ReceiptSteps
<1>5. \A f \in Firms : firm'[f] = firm[f] \/ firm'[f].seen = firm[f].seen + 1
  BY RecordSteps
<1>6. CASE call' = call
  BY <1>2, <1>3, <1>4, <1>5, <1>6 DEF CallsHold
<1>7. ASSUME NEW f \in Firms, NEW o \in Operators, StartPromotion(o, f) PROVE CallsHold'
  <2>1. /\ call' = [call EXCEPT ![o] = [pc |-> "verify", firm |-> f, row |-> firm[f],
                                        receipt |-> 0]]
        /\ firm' = firm /\ receipt' = receipt
        /\ firm[f].record \notin Inactive /\ CompanyOf[firm[f].record] # None
    BY <1>7 DEF StartPromotion, evidence, Active, Company, RecordOf
  <2>2. Holds(o)'
    BY <1>1, <2>1 DEF TypeOK
  <2>3. \A p \in Operators \ {o} : call'[p] = call[p]
    BY <2>1 DEF TypeOK
  <2>4. \A p \in Operators \ {o} : Holds(p)'
    BY <1>2, <1>3, <2>1, <2>3
  <2> QED
    BY <2>2, <2>4 DEF CallsHold
<1>8. ASSUME NEW o \in Operators, VerifyForPromotion(o) PROVE CallsHold'
  <2> DEFINE f == call[o].firm
  <2>1. f \in Firms /\ call[o].pc = "verify" /\ call[o] \in Calls /\ firm' = firm
    BY <1>8, CallTypes DEF VerifyForPromotion, TypeOK
  <2>3. \A p \in Operators \ {o} : call'[p] = call[p]
    BY <1>8 DEF VerifyForPromotion, EndCall, TypeOK
  <2>4. \A p \in Operators \ {o} : Holds(p)'
    BY <1>2, <1>3, <1>4, <1>5, <2>3
  <2>5. ASSUME EndCall(o) PROVE Holds(o)'
    BY <2>5 DEF EndCall, Idle, TypeOK
  <2>6. ASSUME NewReceipt(f, TRUE),
               call' = [call EXCEPT ![o] =
                 [@ EXCEPT !.pc = "commit", !.receipt = receipt[f].id + 1]]
        PROVE  Holds(o)'
    <3>1. /\ call'[o].pc = "commit" /\ call'[o].firm = f
          /\ call'[o].row = call[o].row /\ call'[o].receipt = receipt[f].id + 1
      BY <2>1, <2>6 DEF TypeOK, Calls
    <3>2. receipt'[f].id = receipt[f].id + 1 /\ receipt'[f].record = firm[f].record
      BY <2>1, <2>6 DEF NewReceipt, TypeOK, RecordOf
    <3>3. /\ call[o].row.seen <= firm[f].seen
          /\ call[o].row.record \notin Inactive /\ CompanyOf[call[o].row.record] # None
      BY <1>3, <2>1
    <3> HIDE DEF f
    <3> QED
      BY <1>1, <2>1, <3>1, <3>2, <3>3
  <2>7. \/ EndCall(o)
        \/ NewReceipt(f, TRUE) /\ call' = [call EXCEPT ![o] =
             [@ EXCEPT !.pc = "commit", !.receipt = receipt[f].id + 1]]
    BY <1>8 DEF VerifyForPromotion
  <2> HIDE DEF Holds
  <2> QED
    <3>1. Holds(o)'
      BY <2>5, <2>6, <2>7
    <3> USE DEF Holds
    <3> QED
      BY <2>4, <3>1 DEF CallsHold
<1>9. ASSUME NEW o \in Operators, CommitPromotion(o) PROVE CallsHold'
  <2>1. firm' = firm /\ receipt' = receipt /\ call' = [call EXCEPT ![o] = Idle]
    BY <1>9 DEF CommitPromotion, EndCall
  <2>2. Holds(o)'
    BY <2>1 DEF Idle, TypeOK
  <2>3. \A p \in Operators \ {o} : call'[p] = call[p]
    BY <2>1 DEF TypeOK
  <2>4. \A p \in Operators \ {o} : Holds(p)'
    BY <1>2, <1>3, <2>1, <2>3
  <2> QED
    BY <2>2, <2>4 DEF CallsHold
<1>10. \/ call' = call
       \/ \E o \in Operators : \/ \E f \in Firms : StartPromotion(o, f)
                               \/ VerifyForPromotion(o) \/ CommitPromotion(o)
  BY DEF Next, vars, evidence, Observe, Verify, RecordEvent, Scan, Archive, RunQc,
     Approve, Reject, Store
<1> QED
  BY <1>6, <1>7, <1>8, <1>9, <1>10

-----------------------------------------------------------------------------
(* Approvals *)

LEMMA Numbers ==
  ASSUME TypeOK, NEW f \in Firms
  PROVE  /\ firm[f].seen \in Nat /\ receipt[f].id \in Nat /\ scan[f].id \in Nat
         /\ event[f].id \in Nat /\ archives[f] \in Nat
         /\ scan[f].event \in Nat \cup {None}
         /\ event[f] # None
         /\ review[f] # None =>
              /\ review[f].qc \in Inputs /\ review[f].archives \in Nat
              /\ review[f].qc.firm.seen \in Nat /\ review[f].qc.receipt.id \in Nat
              /\ review[f].qc.scan.id \in Nat
<1>1. /\ firm[f] \in Observed /\ receipt[f] \in Receipts /\ scan[f] \in Scans
      /\ event[f] \in Events /\ archives[f] \in Nat
  BY DEF TypeOK
<1>2. event[f] # None
  BY <1>1, NoneAssumption
<1>3. ASSUME review[f] # None
      PROVE  /\ review[f].qc \in Inputs /\ review[f].archives \in Nat
             /\ review[f].qc.firm.seen \in Nat /\ review[f].qc.receipt.id \in Nat
             /\ review[f].qc.scan.id \in Nat
  <2>1. review[f] \in Approvals
    BY <1>3 DEF TypeOK
  <2>2. review[f].qc \in Inputs /\ review[f].archives \in Nat
    BY <2>1 DEF Approvals
  <2> QED
    BY <2>2 DEF Inputs, Observed, Receipts, Scans
<1> QED
  BY <1>1, <1>2, <1>3 DEF Observed, Receipts, Scans, Events

\* Every row number only grows, and a link is never taken away.
LEMMA Growth ==
  ASSUME TypeOK, CallsHold, [Next]_vars, NEW f \in Firms
  PROVE  /\ firm[f].seen <= firm'[f].seen
         /\ receipt[f].id <= receipt'[f].id
         /\ scan[f].id <= scan'[f].id
         /\ archives[f] <= archives'[f]
         /\ lead[f] # None => lead'[f] = lead[f]
<1>1. firm[f].seen <= firm'[f].seen
  BY Numbers, RecordSteps
<1>2. receipt[f].id <= receipt'[f].id
  BY Numbers, ReceiptSteps
<1>3. scan[f].id <= scan'[f].id
  <2>1. scan' = scan \/ \E g \in Firms : \E e \in {None, event[g].id} : Scan(g, e)
    BY DEF Next, vars, evidence, Observe, Verify, RecordEvent, Archive, RunQc,
       Approve, Reject, Store, StartPromotion, VerifyForPromotion, CommitPromotion
  <2>2. scan' = scan \/ \E g \in Firms, row \in Scans :
                          row.id = scan[g].id + 1 /\ scan' = [scan EXCEPT ![g] = row]
    <3> SUFFICES ASSUME NEW g \in Firms, NEW e \in {None, event[g].id}, Scan(g, e)
                 PROVE  \E row \in Scans :
                          row.id = scan[g].id + 1 /\ scan' = [scan EXCEPT ![g] = row]
      BY <2>1
    <3>1. PICK ok \in BOOLEAN :
            scan' = [scan EXCEPT ![g] = [id |-> scan[g].id + 1, ok |-> ok, event |-> e,
                                    receipt |-> receipt[g].id, record |-> RecordOf(g)]]
      BY DEF Scan, ScanRow
    <3>2. [id |-> scan[g].id + 1, ok |-> ok, event |-> e,
           receipt |-> receipt[g].id, record |-> RecordOf(g)] \in Scans
      BY DEF TypeOK, Observed, Events, Receipts, Scans, RecordOf
    <3> QED
      BY <3>1, <3>2
  <2> QED
    BY <2>2, Numbers DEF TypeOK
<1>4. archives[f] <= archives'[f]
  <2>1. archives' = archives \/ \E g \in Firms : Archive(g)
    BY DEF Next, vars, evidence, Observe, Verify, RecordEvent, Scan, RunQc,
       Approve, Reject, Store, StartPromotion, VerifyForPromotion, CommitPromotion
  <2> QED
    BY <2>1 DEF Archive, TypeOK
<1>5. lead[f] # None => lead'[f] = lead[f]
  <2>1. CASE lead' = lead
    BY <2>1
  <2>2. CASE lead' # lead
    <3>1. PICK o \in Operators :
            /\ call[o].pc = "commit" /\ Promotable(call[o].firm, o)
            /\ lead' = [lead EXCEPT ![call[o].firm] = Company(call[o].firm)]
      BY <2>2, LeadSteps
    <3>2. lead[call[o].firm] = None
      BY <3>1, PromotableFacts
    <3> QED
      BY <3>1, <3>2 DEF TypeOK
  <2> QED
    BY <2>1, <2>2
<1> QED
  BY <1>1, <1>2, <1>3, <1>4, <1>5

\* An approval is stored with the input there is, which passes.
LEMMA ReviewSteps ==
  ASSUME TypeOK, [Next]_vars, NEW f \in Firms
  PROVE  \/ review'[f] = review[f] /\ approved'[f] = approved[f]
         \/ review'[f] = None
         \/ /\ review'[f] = [qc |-> Input(f), archives |-> archives[f]]
            /\ approved'[f] = RowsOf(f)
            /\ UNCHANGED <<evidence, archives>>
<1>1. \/ review' = review /\ approved' = approved
      \/ \E g \in Firms : Approve(g) \/ Reject(g)
  BY DEF Next, vars, evidence, judgedUnchanged, Observe, Verify, RecordEvent, Scan,
     Archive, RunQc, StartPromotion, VerifyForPromotion, CommitPromotion
<1>2. ASSUME NEW g \in Firms, Approve(g)
      PROVE  /\ review' = [review EXCEPT ![g] = [qc |-> Input(g), archives |-> archives[g]]]
             /\ approved' = [approved EXCEPT ![g] = RowsOf(g)]
             /\ UNCHANGED <<evidence, archives>>
  BY <1>2 DEF Approve, QcIsCurrent, Store
<1>3. ASSUME NEW g \in Firms, Reject(g)
      PROVE  /\ review' = [review EXCEPT ![g] = None]
             /\ approved' = [approved EXCEPT ![g] = None]
  BY <1>3 DEF Reject, Store
<1> QED
  BY <1>1, <1>2, <1>3 DEF TypeOK

LEMMA ApprovalsInit == Init => ApprovalsAge /\ ApprovalsKept
BY DEF Init, ApprovalsAge, ApprovalsKept, NoScan

LEMMA EventsOfScans ==
  ASSUME TypeOK, ApprovalsAge, [Next]_vars, NEW f \in Firms
  PROVE  scan'[f].event # None => scan'[f].event <= event'[f].id
<1>1. scan[f].event # None => scan[f].event <= event[f].id
  BY DEF ApprovalsAge
<1>2. CASE scan' = scan /\ event' = event
  BY <1>1, <1>2
<1>3. ASSUME NEW g \in Firms, NEW site \in Sites \cup {None}, RecordEvent(g, site)
      PROVE  scan'[f].event # None => scan'[f].event <= event'[f].id
  <2>1. scan' = scan /\ (event'[f] = event[f] \/ event'[f].id = event[f].id + 1)
    BY <1>3 DEF RecordEvent, TypeOK
  <2> QED
    BY <1>1, <2>1, Numbers
<1>4. ASSUME NEW g \in Firms, NEW e \in {None, event[g].id}, Scan(g, e)
      PROVE  scan'[f].event # None => scan'[f].event <= event'[f].id
  <2>1. event' = event /\ (scan'[f] = scan[f] \/ (g = f /\ scan'[f].event = e))
    BY <1>4 DEF Scan, ScanRow, TypeOK
  <2> QED
    BY <1>1, <2>1, Numbers
<1>5. \/ scan' = scan /\ event' = event
      \/ \E g \in Firms : \/ \E site \in Sites \cup {None} : RecordEvent(g, site)
                          \/ \E e \in {None, event[g].id} : Scan(g, e)
  BY DEF Next, vars, evidence, Observe, Verify, Archive, RunQc, Approve, Reject,
     Store, StartPromotion, VerifyForPromotion, CommitPromotion
<1> QED
  BY <1>2, <1>3, <1>4, <1>5

LEMMA ApprovalsNext ==
  ASSUME TypeOK, CallsHold, ApprovalsAge, ApprovalsKept, [Next]_vars
  PROVE  ApprovalsAge' /\ ApprovalsKept'
<1> SUFFICES ASSUME NEW f \in Firms, review'[f] # None
             PROVE  /\ review'[f].qc.firm.seen <= firm'[f].seen
                    /\ review'[f].qc.receipt.id <= receipt'[f].id
                    /\ review'[f].qc.scan.id <= scan'[f].id
                    /\ review'[f].archives <= archives'[f]
                    /\ review'[f].qc.lead # None => review'[f].qc.lead = lead'[f]
                    /\ approved'[f] # None
                    /\ approved'[f].firm = review'[f].qc.firm
                    /\ approved'[f].receipt = review'[f].qc.receipt
                    /\ approved'[f].scan = review'[f].qc.scan
                    /\ approved'[f].lead = review'[f].qc.lead
                    /\ review'[f].qc.event \in {None, approved'[f].event}
  BY EventsOfScans DEF ApprovalsAge, ApprovalsKept
<1>1. CASE review'[f] = review[f] /\ approved'[f] = approved[f]
  <2>1. TypeOK'
    BY TypeNext
  <2>2. /\ firm'[f].seen \in Nat /\ receipt'[f].id \in Nat /\ scan'[f].id \in Nat
        /\ archives'[f] \in Nat
    BY <2>1 DEF TypeOK, Observed, Receipts, Scans
  <2> QED
    BY <1>1, <2>2, Growth, Numbers DEF ApprovalsAge, ApprovalsKept
<1>2. CASE /\ review'[f] = [qc |-> Input(f), archives |-> archives[f]]
           /\ approved'[f] = RowsOf(f)
           /\ UNCHANGED <<evidence, archives>>
  <2>1. RowsOf(f) # None
    BY RowTypes, NoneAssumption
  <2>2. JudgedEvent(f) \in {None, event[f]}
    BY DEF JudgedEvent
  <2> QED
    BY <1>2, <2>1, <2>2, Numbers DEF Input, RowsOf, evidence
<1> QED
  BY <1>1, <1>2, ReviewSteps

-----------------------------------------------------------------------------
(* Readiness *)

\* A website asserted for the current record is the one of the firm's event.
LEMMA SitesOfFirms ==
  ASSUME NEW g \in Firms
  PROVE  EffectiveSite(g) \in {SiteOf[RecordOf(g)], AssertedSite(g)}
BY DEF EffectiveSite, CurrentEvent, AssertedSite

LEMMA DifferentFirms == TypeOK /\ LinkedFirmsMatch => ReadyFirmsDiffer
<1> SUFFICES ASSUME TypeOK, LinkedFirmsMatch, NEW f \in Firms, NEW g \in Firms, f # g,
                    IsOutreachReady(f), IsOutreachReady(g)
             PROVE  EffectiveSite(f) # EffectiveSite(g) /\ Company(f) # Company(g)
  BY DEF ReadyFirmsDiffer
<1>1. Passes(f) /\ Active(g) /\ lead[f] # None
  BY DEF IsOutreachReady, QcIsCurrent, Passes
<1>2. Company(f) # None
  BY <1>1 DEF LinkedFirmsMatch
<1>3. FirmsOnSameSite(f) = {} /\ FirmsOfSameCompany(f) = {}
  BY <1>1 DEF Passes
<1>4. EffectiveSite(f) \notin {SiteOf[RecordOf(g)], AssertedSite(g)}
  BY <1>1, <1>3 DEF FirmsOnSameSite
<1>5. Company(f) # Company(g)
  BY <1>1, <1>2, <1>3 DEF FirmsOfSameCompany
<1> QED
  BY <1>4, <1>5, SitesOfFirms

LEMMA ReadyRows == TypeOK /\ ApprovalsKept => ReadyAsApproved
<1> SUFFICES ASSUME TypeOK, ApprovalsKept, NEW f \in Firms, IsOutreachReady(f)
             PROVE  /\ approved[f] # None
                    /\ approved[f].firm = firm[f] /\ approved[f].receipt = receipt[f]
                    /\ approved[f].scan = scan[f] /\ approved[f].lead = lead[f]
                    /\ scan[f].event # None => approved[f].event = event[f]
  BY DEF ReadyAsApproved
<1>1. review[f] # None /\ Passes(f) /\ review[f].qc = Input(f)
  BY DEF IsOutreachReady, QcIsCurrent
<1>2. /\ review[f].qc.firm = firm[f] /\ review[f].qc.receipt = receipt[f]
      /\ review[f].qc.scan = scan[f] /\ review[f].qc.lead = lead[f]
      /\ review[f].qc.event = JudgedEvent(f)
  BY <1>1 DEF Input
<1>3. ASSUME scan[f].event # None PROVE approved[f].event = event[f]
  <2>1. CurrentEvent(f)
    BY <1>1, <1>3 DEF Passes, InputCurrent
  <2>2. review[f].qc.event = event[f] /\ event[f] # None
    BY <1>2, <2>1, Numbers DEF JudgedEvent
  <2> QED
    BY <1>1, <2>2 DEF ApprovalsKept
<1> QED
  BY <1>1, <1>2, <1>3 DEF ApprovalsKept

\* Readiness is a function of these rows.
LEMMA SameReadiness ==
  ASSUME NEW f \in Firms,
         \A g \in Firms : firm'[g] = firm[g] /\ event'[g] = event[g],
         receipt'[f] = receipt[f], scan'[f] = scan[f], lead'[f] = lead[f],
         archives'[f] = archives[f], review'[f] = review[f]
  PROVE  IsOutreachReady(f)' = IsOutreachReady(f)
<1>1. \A g \in Firms : /\ Active(g)' = Active(g) /\ RecordOf(g)' = RecordOf(g)
                       /\ Company(g)' = Company(g) /\ AssertedSite(g)' = AssertedSite(g)
  BY DEF Active, RecordOf, Company, AssertedSite
<1>2. CurrentEvent(f)' = CurrentEvent(f)
  BY <1>1 DEF CurrentEvent
<1>3. EffectiveSite(f)' = EffectiveSite(f) /\ JudgedEvent(f)' = JudgedEvent(f)
  BY <1>1, <1>2 DEF EffectiveSite, JudgedEvent
<1>4. FirmsOnSameSite(f)' = FirmsOnSameSite(f)
  BY <1>1, <1>3 DEF FirmsOnSameSite
<1>5. FirmsOfSameCompany(f)' = FirmsOfSameCompany(f)
  BY <1>1 DEF FirmsOfSameCompany
<1>6. Verified(f)' = Verified(f) /\ Archived(f)' = Archived(f)
  BY <1>1 DEF Verified, Archived
<1>7. InputCurrent(f)' = InputCurrent(f)
  BY <1>1, <1>2, <1>6 DEF InputCurrent
<1>8. Passes(f)' = Passes(f)
  BY <1>1, <1>3, <1>4, <1>5, <1>6, <1>7 DEF Passes
<1>9. Input(f)' = Input(f)
  BY <1>3 DEF Input
<1> QED
  BY <1>6, <1>8, <1>9 DEF IsOutreachReady, QcIsCurrent

\* An event of the firm itself leaves it unready, or was not looked at.
LEMMA OwnEvent ==
  ASSUME TypeOK, ApprovalsAge, NEW f \in Firms, NEW site \in Sites \cup {None},
         RecordEvent(f, site), IsOutreachReady(f)'
  PROVE  IsOutreachReady(f)
<1>1. /\ event'[f].id = event[f].id + 1 /\ scan' = scan
      /\ \A g \in Firms : firm'[g] = firm[g]
      /\ \A g \in Firms \ {f} : event'[g] = event[g]
      /\ receipt' = receipt /\ lead' = lead /\ archives' = archives /\ review' = review
  BY DEF RecordEvent, judgedUnchanged, TypeOK
<1>2. scan[f].event # event'[f].id
  <2>1. event[f].id \in Nat /\ (scan[f].event # None => scan[f].event <= event[f].id)
    BY Numbers DEF ApprovalsAge
  <2> QED
    BY <1>1, <2>1, NoneAssumption
<1>3. ~CurrentEvent(f)' /\ Passes(f)' /\ review[f].qc = Input(f)'
  BY <1>1, <1>2 DEF CurrentEvent, IsOutreachReady, QcIsCurrent
<1>4. scan[f].event = None
  BY <1>1, <1>3 DEF Passes, InputCurrent
<1>5. ~CurrentEvent(f)
  BY <1>4 DEF CurrentEvent
<1>6. \A g \in Firms : /\ Active(g)' = Active(g) /\ RecordOf(g)' = RecordOf(g)
                       /\ Company(g)' = Company(g)
  BY <1>1 DEF Active, RecordOf, Company
<1>7. \A g \in Firms \ {f} : AssertedSite(g)' = AssertedSite(g)
  BY <1>1, <1>6 DEF AssertedSite
<1>8. EffectiveSite(f)' = EffectiveSite(f) /\ JudgedEvent(f)' = JudgedEvent(f)
  BY <1>3, <1>5, <1>6 DEF EffectiveSite, JudgedEvent
<1>9. FirmsOnSameSite(f)' = FirmsOnSameSite(f)
  BY <1>6, <1>7, <1>8 DEF FirmsOnSameSite
<1>10. FirmsOfSameCompany(f)' = FirmsOfSameCompany(f)
  BY <1>6 DEF FirmsOfSameCompany
<1>11. Verified(f)' = Verified(f) /\ Archived(f)' = Archived(f)
  BY <1>1, <1>6 DEF Verified, Archived
<1>12. Passes(f)
  BY <1>1, <1>3, <1>4, <1>6, <1>8, <1>9, <1>10, <1>11 DEF Passes
<1>13. Input(f)' = Input(f)
  BY <1>1, <1>8 DEF Input
<1> QED
  BY <1>1, <1>3, <1>11, <1>12, <1>13 DEF IsOutreachReady, QcIsCurrent

\* While the review stays, a firm that becomes ready has the rows its approval
\* names, and none of them is newer than before.
LEMMA ReadyKeepsRows ==
  ASSUME TypeOK, CallsHold, ApprovalsAge, [Next]_vars, NEW f \in Firms,
         IsOutreachReady(f)', review'[f] = review[f]
  PROVE  /\ firm'[f].seen = firm[f].seen /\ receipt'[f].id = receipt[f].id
         /\ scan'[f].id = scan[f].id /\ archives'[f] = archives[f]
         /\ lead'[f] = lead[f]
<1>1. /\ review[f] # None /\ review[f].archives = archives'[f] /\ lead'[f] # None
      /\ review[f].qc = Input(f)'
  BY DEF IsOutreachReady, QcIsCurrent
<1>2. /\ review[f].qc.firm = firm'[f] /\ review[f].qc.receipt = receipt'[f]
      /\ review[f].qc.scan = scan'[f] /\ review[f].qc.lead = lead'[f]
  BY <1>1 DEF Input
<1>3. /\ firm'[f].seen <= firm[f].seen /\ receipt'[f].id <= receipt[f].id
      /\ scan'[f].id <= scan[f].id /\ archives'[f] <= archives[f]
      /\ lead'[f] = lead[f]
  BY <1>1, <1>2 DEF ApprovalsAge
<1>4. TypeOK'
  BY TypeNext
<1>5. /\ firm'[f].seen \in Nat /\ receipt'[f].id \in Nat /\ scan'[f].id \in Nat
      /\ archives'[f] \in Nat
  BY <1>4 DEF TypeOK, Observed, Receipts, Scans
<1>6. /\ firm[f].seen \in Nat /\ receipt[f].id \in Nat /\ scan[f].id \in Nat
      /\ archives[f] \in Nat
  BY Numbers
<1>7. /\ firm[f].seen <= firm'[f].seen /\ receipt[f].id <= receipt'[f].id
      /\ scan[f].id <= scan'[f].id /\ archives[f] <= archives'[f]
  BY Growth
<1> QED
  BY <1>3, <1>5, <1>6, <1>7

LEMMA ReadinessStep ==
  ASSUME TypeOK, CallsHold, ApprovalsAge, [Next]_vars, NEW f \in Firms,
         IsOutreachReady(f)', review'[f] = review[f],
         \A g \in Firms \ {f} : firm'[g] = firm[g] /\ event'[g] = event[g]
  PROVE  IsOutreachReady(f)
<1>1. firm'[f] = firm[f]
  BY ReadyKeepsRows, RecordSteps, Numbers
<1>2. receipt'[f] = receipt[f]
  BY ReadyKeepsRows, ReceiptSteps, Numbers
<1>3. scan'[f] = scan[f]
  <2>1. ASSUME NEW g \in Firms, NEW e \in {None, event[g].id}, Scan(g, e)
        PROVE  scan'[f] = scan[f]
    <3>1. scan'[f] = scan[f] \/ scan'[f].id = scan[f].id + 1
      BY <2>1 DEF Scan, ScanRow, TypeOK
    <3> QED
      BY <3>1, ReadyKeepsRows, Numbers
  <2>2. scan' = scan \/ \E g \in Firms : \E e \in {None, event[g].id} : Scan(g, e)
    BY DEF Next, vars, evidence, Observe, Verify, RecordEvent, Archive, RunQc,
       Approve, Reject, Store, StartPromotion, VerifyForPromotion, CommitPromotion
  <2> QED
    BY <2>1, <2>2
<1>4. CASE event'[f] = event[f]
  BY <1>1, <1>2, <1>3, <1>4, ReadyKeepsRows, SameReadiness
<1>5. CASE event'[f] # event[f]
  <2>1. \E g \in Firms, site \in Sites \cup {None} : RecordEvent(g, site)
    BY <1>5 DEF Next, vars, evidence, Observe, Verify, Scan, Archive, RunQc,
       Approve, Reject, Store, StartPromotion, VerifyForPromotion, CommitPromotion
  <2>2. PICK g \in Firms, site \in Sites \cup {None} : RecordEvent(g, site)
    BY <2>1
  <2>3. g = f
    BY <1>5, <2>2 DEF RecordEvent, TypeOK
  <2> QED
    BY <2>2, <2>3, OwnEvent
<1> QED
  BY <1>4, <1>5

-----------------------------------------------------------------------------
(* Theorems *)

THEOREM Invariance == Spec => []IInv
<1>1. Init => IInv
  BY TypeInit, LinksInit, CallsInit, ApprovalsInit DEF IInv
<1>2. IInv /\ [Next]_vars => IInv'
  BY TypeNext, LinksNext, CallsNext, ApprovalsNext DEF IInv
<1> QED
  BY <1>1, <1>2, PTL DEF Spec

\* Every reachable state is well typed.
THEOREM TypeCorrect == Spec => []TypeOK
<1>1. IInv => TypeOK
  BY DEF IInv
<1> QED
  BY <1>1, Invariance, PTL

\* A ready firm has the rows an operator approved.
THEOREM ReadyFirmsAreApproved == Spec => []ReadyAsApproved
<1>1. IInv => ReadyAsApproved
  BY ReadyRows DEF IInv
<1> QED
  BY <1>1, Invariance, PTL

\* Two ready firms share neither website nor company.
THEOREM ReadyFirmsAreDifferent == Spec => []ReadyFirmsDiffer
<1>1. IInv => ReadyFirmsDiffer
  BY DifferentFirms DEF IInv
<1> QED
  BY <1>1, Invariance, PTL

\* A linked firm matches its lead for ever, and no other firm does.
THEOREM LinksMatch == Spec => []LinkedFirmsMatch
<1>1. IInv => LinkedFirmsMatch
  BY DEF IInv
<1> QED
  BY <1>1, Invariance, PTL

\* A promotion commits on what holds at that moment, not on what it read before
\* Companies House answered.
THEOREM LeadsAreVerified == Spec => PromotedOnVerified
<1> DEFINE Step == \A f \in Firms : lead'[f] # lead[f] =>
                     lead[f] = None /\ Verified(f) /\ FirmsOfSameCompany(f) = {}
<1>1. IInv /\ [Next]_vars => [Step]_vars
  <2> SUFFICES ASSUME IInv, [Next]_vars, NEW f \in Firms, lead'[f] # lead[f]
               PROVE  lead[f] = None /\ Verified(f) /\ FirmsOfSameCompany(f) = {}
    OBVIOUS
  <2>1. PICK o \in Operators :
          /\ call[o].pc = "commit" /\ Promotable(call[o].firm, o)
          /\ lead' = [lead EXCEPT ![call[o].firm] = Company(call[o].firm)]
    BY LeadSteps DEF IInv
  <2>2. f = call[o].firm
    BY <2>1 DEF IInv, TypeOK
  <2> QED
    BY <2>1, <2>2, PromotableFacts DEF IInv
<1> QED
  BY <1>1, Invariance, PTL DEF Spec, PromotedOnVerified

\* No step but a review makes a firm ready, the other firms' claims apart: neither
\* a restore nor a return of old evidence does.
THEOREM OnlyReviewsGiveReadiness == Spec => ReadinessIsGiven
<1> DEFINE Step == \A f \in Firms : (~IsOutreachReady(f) /\ IsOutreachReady(f)') =>
                     \/ review'[f] # review[f]
                     \/ \E g \in Firms \ {f} : firm'[g] # firm[g] \/ event'[g] # event[g]
<1>1. IInv /\ [Next]_vars => [Step]_vars
  BY ReadinessStep DEF IInv
<1> QED
  BY <1>1, Invariance, PTL DEF Spec, ReadinessIsGiven
=============================================================================
