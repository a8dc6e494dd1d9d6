-------------------------- MODULE SendLedgerProofs --------------------------
(***************************************************************************)
(* Machine-checked facts about SendLedger for every set of stages,         *)
(* workers, contents and draft identifiers and every warm-up schedule.     *)
(***************************************************************************)
EXTENDS SendLedger, FiniteSetTheorems, TLAPS

-----------------------------------------------------------------------------
(* Type correctness *)

LEMMA InitTypeOK == Init => TypeOK
<1> SUFFICES ASSUME Init PROVE TypeOK
  OBVIOUS
<1>1. 0 \in Time
  BY TimeAssumption DEF Time
<1>2. NoRow \in Row /\ Idle \in Call
  BY <1>1 DEF NoRow, Row, RowStates, Call
<1> QED
  BY <1>1, <1>2 DEF Init, TypeOK

\* The rows the ledger operations write are rows.
LEMMA RowTypes ==
  ASSUME NEW row \in Row, NEW id \in DraftIds \cup {None}, NEW now \in Time
  PROVE  /\ \A c \in Contents \cup {None} : ReservedRow(c, now) \in Row
         /\ Noted(row) \in Row /\ Sent(row) \in Row /\ Voided(row) \in Row
         /\ Drafted(row, id, now) \in Row
BY DEF Row, RowStates, ReservedRow, Noted, Sent, Voided, Drafted

\* A worker that is not idle is in a call.
LEMMA AtTypes ==
  ASSUME call \in [Workers -> Call], NEW w \in Workers, ~At(w, "idle")
  PROVE  call[w] \in Active
BY DEF At, Call, Idle

LEMMA AtStep ==
  ASSUME NEW w, NEW pc \in Steps, At(w, pc)
  PROVE  ~At(w, "idle")
BY DEF At, Steps

\* The steps of a call lead to steps of a call.
LEMMA EnterTypes ==
  ASSUME call \in [Workers -> Call], NEW w \in Workers
  PROVE  /\ \A s \in Active : Enter(w, s) => call' \in [Workers -> Call]
         /\ Return(w) => call' \in [Workers -> Call]
         /\ ~At(w, "idle") => \A pc \in Steps :
              Goto(w, pc) => call' \in [Workers -> Call]
         /\ ~At(w, "idle") => \A pc \in Steps, id \in DraftIds \cup {None} :
              Holding(w, pc, id) => call' \in [Workers -> Call]
<1>1. \A s \in Call : Enter(w, s) => call' \in [Workers -> Call]
  BY DEF Enter
<1>2. Idle \in Call /\ Active \subseteq Call
  BY DEF Call
<1>3. ~At(w, "idle") => call[w] \in Active
  BY AtTypes
<1>4. ~At(w, "idle") => \A pc \in Steps : [call[w] EXCEPT !.pc = pc] \in Active
  BY <1>3 DEF Active
<1>5. ~At(w, "idle") => \A pc \in Steps, id \in DraftIds \cup {None} :
        [call[w] EXCEPT !.pc = pc, !.gid = id] \in Active
  BY <1>3 DEF Active
<1> QED
  BY <1>1, <1>2, <1>4, <1>5 DEF Return, Goto, Holding

\* An update of one row to a row.
LEMMA LedgerUpdateType ==
  ASSUME ledger \in [Stages -> Row], NEW k, NEW r, k \in Stages => r \in Row
  PROVE  [ledger EXCEPT ![k] = r] \in [Stages -> Row]
OBVIOUS

\* Every step of a call but its first is taken by a worker that is in one.
LEMMA StepIsActive ==
  ASSUME TypeOK, NEW w \in Workers,
         \/ ReserveNew(w) \/ ReserveExisting(w) \/ ReserveRefused(w)
         \/ \E id \in DraftIds : CreateDraft(w, id) \/ CreateAnswerLost(w, id)
         \/ CreateRaises(w) \/ NoteReservationError(w) \/ FinaliseDraft(w)
         \/ ResumeExisting(w) \/ FindGivesUp(w)
         \/ \E id \in DraftIds : FindByLedgerId(w, id)
         \/ UndoReadsRow(w) \/ DeleteDraft(w) \/ DeleteRaises(w) \/ VoidDraft(w)
         \/ Crash(w)
  PROVE  /\ ~At(w, "idle")
         /\ call[w] \in Active
         /\ call[w].stage \in Stages
         /\ call[w].content \in Contents \cup {None}
         /\ call[w].now \in Time
         /\ call[w].gid \in DraftIds \cup {None}
         /\ ledger[call[w].stage] \in Row
<1>1. ~At(w, "idle")
  BY DEF At, ReserveNew, ReserveExisting, ReserveRefused, CreateDraft,
         CreateAnswerLost, CreateRaises, NoteReservationError, FinaliseDraft,
         ResumeExisting, FindGivesUp, FindByLedgerId, UndoReadsRow, DeleteDraft,
         DeleteRaises, VoidDraft, Crash
<1>2. call[w] \in Active
  BY <1>1, AtTypes DEF TypeOK
<1> QED
  BY <1>1, <1>2 DEF Active, TypeOK

LEMMA DraftStepTypeOK ==
  ASSUME TypeOK, NEW w \in Workers, DraftStep(w)
  PROVE  TypeOK'
<1> USE DEF ledgerUnchanged, gmailUnchanged, worldUnchanged
<1>1. ASSUME NEW k \in Stages, NEW c \in Contents, StartDraft(w, k, c)
      PROVE  TypeOK'
  <2>1. [pc |-> "reserve", stage |-> k, content |-> c, now |-> clock,
         gid |-> None] \in Active
    BY DEF Active, Steps, TypeOK
  <2> QED
    BY <1>1, <2>1, EnterTypes DEF StartDraft, TypeOK
<1>2. CASE ReserveNew(w)
  <2>1. ReservedRow(call[w].content, call[w].now) \in Row
    BY <1>2, StepIsActive DEF ReservedRow, Row, RowStates
  <2>2. ledger' \in [Stages -> Row]
    BY <1>2, <2>1, LedgerUpdateType DEF ReserveNew, TypeOK
  <2>3. warmup' \in Time \cup {None}
    BY <1>2, StepIsActive DEF ReserveNew, WarmupStartedBy, TypeOK
  <2> QED
    BY <1>2, <2>2, <2>3, StepIsActive, EnterTypes DEF ReserveNew, TypeOK, Steps
<1>3. CASE ReserveExisting(w)
  BY <1>3, StepIsActive, EnterTypes DEF ReserveExisting, TypeOK, Steps
<1>4. CASE ReserveRefused(w)
  BY <1>4, EnterTypes DEF ReserveRefused, TypeOK
<1>5. ASSUME NEW id \in DraftIds, CreateDraft(w, id)
      PROVE  TypeOK'
  BY <1>5, StepIsActive, EnterTypes DEF CreateDraft, NewDraft, TypeOK, Steps
<1>6. ASSUME NEW id \in DraftIds, CreateAnswerLost(w, id)
      PROVE  TypeOK'
  BY <1>6, StepIsActive, EnterTypes DEF CreateAnswerLost, NewDraft, TypeOK, Steps
<1>7. CASE CreateRaises(w)
  <2>1. inflight' \in SUBSET Stages
    BY <1>7, StepIsActive DEF CreateRaises, TypeOK
  <2> QED
    BY <1>7, <2>1, StepIsActive, EnterTypes DEF CreateRaises, TypeOK, Steps
<1>8. CASE NoteReservationError(w)
  <2>1. ledger' \in [Stages -> Row]
    BY <1>8, StepIsActive, RowTypes, LedgerUpdateType DEF NoteReservationError, TypeOK
  <2> QED
    BY <1>8, <2>1, EnterTypes DEF NoteReservationError, TypeOK
<1>9. CASE FinaliseDraft(w)
  <2>1. ledger' \in [Stages -> Row]
    BY <1>9, StepIsActive, RowTypes, LedgerUpdateType DEF FinaliseDraft, TypeOK
  <2> QED
    BY <1>9, <2>1, EnterTypes DEF FinaliseDraft, TypeOK
<1>10. CASE ResumeExisting(w)
  BY <1>10, StepIsActive, EnterTypes DEF ResumeExisting, TypeOK, Steps
<1>11. ASSUME NEW id \in DraftIds, FindByLedgerId(w, id)
       PROVE  TypeOK'
  BY <1>11, StepIsActive, EnterTypes DEF FindByLedgerId, TypeOK, Steps
<1>12. CASE FindGivesUp(w)
  BY <1>12, EnterTypes DEF FindGivesUp, TypeOK
<1> QED
  BY <1>1, <1>2, <1>3, <1>4, <1>5, <1>6, <1>7, <1>8, <1>9, <1>10, <1>11, <1>12
  DEF DraftStep

LEMMA UndoStepTypeOK ==
  ASSUME TypeOK, NEW w \in Workers, UndoStep(w)
  PROVE  TypeOK'
<1> USE DEF ledgerUnchanged, gmailUnchanged, worldUnchanged
<1>1. ASSUME NEW k \in Stages, StartUndo(w, k)
      PROVE  TypeOK'
  <2>1. [pc |-> "undo", stage |-> k, content |-> None, now |-> clock,
         gid |-> None] \in Active
    BY DEF Active, Steps, TypeOK
  <2> QED
    BY <1>1, <2>1, EnterTypes DEF StartUndo, TypeOK
<1>2. CASE UndoReadsRow(w)
  <2>1. ledger[call[w].stage].gid \in DraftIds \cup {None}
    BY <1>2, StepIsActive DEF Row
  <2> QED
    BY <1>2, <2>1, StepIsActive, EnterTypes DEF UndoReadsRow, TypeOK, Steps
<1>3. CASE DeleteDraft(w)
  BY <1>3, StepIsActive, EnterTypes DEF DeleteDraft, Discarded, TypeOK, Steps
<1>4. CASE DeleteRaises(w)
  BY <1>4, EnterTypes DEF DeleteRaises, Discarded, TypeOK
<1>5. CASE VoidDraft(w)
  <2>1. ledger' \in [Stages -> Row]
    BY <1>5, StepIsActive, RowTypes, LedgerUpdateType DEF VoidDraft, TypeOK
  <2> QED
    BY <1>5, <2>1, EnterTypes DEF VoidDraft, TypeOK
<1> QED
  BY <1>1, <1>2, <1>3, <1>4, <1>5 DEF UndoStep

LEMMA WorldTypeOK ==
  ASSUME TypeOK, World
  PROVE  TypeOK'
<1> USE DEF ledgerUnchanged, gmailUnchanged, worldUnchanged
<1>1. ASSUME NEW k \in Stages, MarkSent(k)
      PROVE  TypeOK'
  BY <1>1, RowTypes, LedgerUpdateType DEF MarkSent, TypeOK
<1>2. ASSUME NEW k \in Stages, NEW id \in DraftIds, GmailActsLate(k, id)
      PROVE  TypeOK'
  BY <1>2 DEF GmailActsLate, NewDraft, TypeOK
<1>3. ASSUME NEW id \in DraftIds, PersonSends(id) \/ PersonDiscards(id)
      PROVE  TypeOK'
  BY <1>3 DEF PersonSends, PersonDiscards, TypeOK
<1>4. CASE Tick
  BY <1>4, TimeAssumption DEF Tick, TypeOK, Time
<1> QED
  BY <1>1, <1>2, <1>3, <1>4 DEF World

LEMMA NextTypeOK == TypeOK /\ [Next]_vars => TypeOK'
<1> SUFFICES ASSUME TypeOK, [Next]_vars PROVE TypeOK'
  OBVIOUS
<1>1. CASE UNCHANGED vars
  BY <1>1 DEF vars, TypeOK
<1>2. ASSUME NEW w \in Workers, DraftStep(w)
      PROVE  TypeOK'
  BY <1>2, DraftStepTypeOK
<1>3. ASSUME NEW w \in Workers, UndoStep(w)
      PROVE  TypeOK'
  BY <1>3, UndoStepTypeOK
<1>4. ASSUME NEW w \in Workers, Crash(w)
      PROVE  TypeOK'
  <2>1. inflight' \in SUBSET Stages
    BY <1>4, StepIsActive DEF Crash, TypeOK
  <2> QED
    BY <1>4, <2>1, EnterTypes
    DEF Crash, TypeOK, ledgerUnchanged, worldUnchanged
<1>5. CASE World
  BY <1>5, WorldTypeOK
<1> QED
  BY <1>1, <1>2, <1>3, <1>4, <1>5 DEF Next

\* The ledger, Gmail and every call stay within their types.
THEOREM TypeCorrect == Spec => []TypeOK
BY InitTypeOK, NextTypeOK, PTL DEF Spec

-----------------------------------------------------------------------------
(* Every draft is accounted for *)

\* What a worker's step leaves in its own call and in everybody else's.
LEMMA CallAfter ==
  ASSUME call \in [Workers -> Call], NEW w \in Workers
  PROVE  /\ \A s : Enter(w, s) =>
              call'[w] = s /\ \A v \in Workers \ {w} : call'[v] = call[v]
         /\ Return(w) =>
              call'[w].pc = "idle" /\ \A v \in Workers \ {w} : call'[v] = call[v]
         /\ ~At(w, "idle") => \A pc : Goto(w, pc) =>
              /\ call'[w].pc = pc
              /\ call'[w].stage = call[w].stage
              /\ call'[w].gid = call[w].gid
              /\ \A v \in Workers \ {w} : call'[v] = call[v]
         /\ ~At(w, "idle") => \A pc, id : Holding(w, pc, id) =>
              /\ call'[w].pc = pc
              /\ call'[w].stage = call[w].stage
              /\ call'[w].gid = id
              /\ \A v \in Workers \ {w} : call'[v] = call[v]
<1>1. \A s : Enter(w, s) =>
        call'[w] = s /\ \A v \in Workers \ {w} : call'[v] = call[v]
  BY DEF Enter
<1>2. ~At(w, "idle") => call[w] \in Active
  BY AtTypes
<1>3. ~At(w, "idle") => \A pc :
        /\ [call[w] EXCEPT !.pc = pc].pc = pc
        /\ [call[w] EXCEPT !.pc = pc].stage = call[w].stage
        /\ [call[w] EXCEPT !.pc = pc].gid = call[w].gid
  BY <1>2 DEF Active
<1>4. ~At(w, "idle") => \A pc, id :
        /\ [call[w] EXCEPT !.pc = pc, !.gid = id].pc = pc
        /\ [call[w] EXCEPT !.pc = pc, !.gid = id].stage = call[w].stage
        /\ [call[w] EXCEPT !.pc = pc, !.gid = id].gid = id
  BY <1>2 DEF Active
<1>5. Idle.pc = "idle"
  BY DEF Idle
<1>6. ASSUME NEW pc, ~At(w, "idle"), Goto(w, pc)
      PROVE  /\ call'[w].pc = pc
             /\ call'[w].stage = call[w].stage
             /\ call'[w].gid = call[w].gid
             /\ \A v \in Workers \ {w} : call'[v] = call[v]
  <2>1. /\ call'[w] = [call[w] EXCEPT !.pc = pc]
        /\ \A v \in Workers \ {w} : call'[v] = call[v]
    BY <1>6 DEF Goto, Enter
  <2> QED
    BY <1>3, <1>6, <2>1
<1>7. ASSUME NEW pc, NEW id, ~At(w, "idle"), Holding(w, pc, id)
      PROVE  /\ call'[w].pc = pc
             /\ call'[w].stage = call[w].stage
             /\ call'[w].gid = id
             /\ \A v \in Workers \ {w} : call'[v] = call[v]
  <2>1. /\ call'[w] = [call[w] EXCEPT !.pc = pc, !.gid = id]
        /\ \A v \in Workers \ {w} : call'[v] = call[v]
    BY <1>7 DEF Holding, Enter
  <2> QED
    BY <1>4, <1>7, <2>1
<1>8. Return(w) =>
        call'[w].pc = "idle" /\ \A v \in Workers \ {w} : call'[v] = call[v]
  BY <1>1, <1>5 DEF Return
<1> QED
  BY <1>1, <1>6, <1>7, <1>8

\* What the ledger operations write, field by field.
LEMMA ReservedFields ==
  ASSUME NEW c, NEW now
  PROVE  /\ ReservedRow(c, now).state = "reserved"
         /\ ReservedRow(c, now).content = c
         /\ ReservedRow(c, now).created = now
         /\ ReservedRow(c, now).drafted = None
         /\ ReservedRow(c, now).gid = None
BY DEF ReservedRow

LEMMA DraftedFields ==
  ASSUME NEW row \in Row, NEW id, NEW now
  PROVE  /\ Drafted(row, id, now).state = "draft"
         /\ Drafted(row, id, now).drafted = now
         /\ Drafted(row, id, now).gid = id
         /\ Drafted(row, id, now).content = row.content
         /\ Drafted(row, id, now).created = row.created
BY DEF Row, Drafted

LEMMA VoidedFields ==
  ASSUME NEW row \in Row
  PROVE  /\ Voided(row).state = "void"
         /\ Voided(row).content = row.content
         /\ Voided(row).created = row.created
         /\ Voided(row).drafted = row.drafted
         /\ Voided(row).gid = row.gid
BY DEF Row, Voided

LEMMA SentFields ==
  ASSUME NEW row \in Row
  PROVE  /\ Sent(row).state = "sent"
         /\ Sent(row).content = row.content
         /\ Sent(row).created = row.created
         /\ Sent(row).drafted = row.drafted
         /\ Sent(row).gid = row.gid
BY DEF Row, Sent

LEMMA NotedFields ==
  ASSUME NEW row \in Row
  PROVE  /\ Noted(row).state = row.state
         /\ Noted(row).content = row.content
         /\ Noted(row).created = row.created
         /\ Noted(row).drafted = row.drafted
         /\ Noted(row).gid = row.gid
BY DEF Row, Noted

\* An update of one row leaves the others alone.
LEMMA OneRowAfter ==
  ASSUME ledger \in [Stages -> Row], NEW k \in Stages, NEW r,
         ledger' = [ledger EXCEPT ![k] = r]
  PROVE  ledger'[k] = r /\ \A j \in Stages \ {k} : ledger'[j] = ledger[j]
OBVIOUS

\* A worker steps aside from Gmail and the ledger: nobody else is affected.
LEMMA StepAside ==
  ASSUME DraftsAccounted, NEW w \in Workers,
         UNCHANGED <<ledger, mailbox, ledgerOf, inflight>>,
         call'[w].pc \notin {"create", "finalise", "delete", "voiding"},
         \A v \in Workers \ {w} : call'[v] = call[v]
  PROVE  DraftsAccounted'
<1>1. CallsAgree'
  BY DEF DraftsAccounted, CallsAgree, MayCreate, HasDraft, At
<1> QED
  BY <1>1
  DEF DraftsAccounted, RowsAreWellFormed, DraftsHaveRows, OneDraftPerRow,
      LiveDraftsAreCounted, LedgerNamesItsOwnDraft, Countable

LEMMA ReserveAccounted ==
  ASSUME TypeOK, DraftsAccounted, NEW w \in Workers, ReserveNew(w)
  PROVE  DraftsAccounted'
<1> DEFINE k == call[w].stage
<1>1. /\ k \in Stages /\ ~At(w, "idle") /\ ledger[k].state = "none"
      /\ call \in [Workers -> Call] /\ ledger \in [Stages -> Row]
  BY StepIsActive DEF ReserveNew, TypeOK
<1>2. /\ call'[w].pc = "create" /\ call'[w].stage = k
      /\ \A v \in Workers \ {w} : call'[v] = call[v]
  BY <1>1, CallAfter DEF ReserveNew
<1>3. /\ ledger'[k].state = "reserved" /\ ledger'[k].drafted = None
      /\ ledger'[k].gid = None
      /\ \A j \in Stages \ {k} : ledger'[j] = ledger[j]
  <2>1. ledger' = [ledger EXCEPT ![k] = ReservedRow(call[w].content, call[w].now)]
    BY DEF ReserveNew
  <2> QED
    BY <1>1, <2>1, OneRowAfter, ReservedFields
<1>4. UNCHANGED <<mailbox, ledgerOf, inflight>>
  BY DEF ReserveNew, gmailUnchanged
<1> HIDE DEF k
\* The stage had no row, so neither a draft nor a request in flight.
<1>5. /\ k \notin inflight
      /\ \A id \in DraftIds : ledgerOf[id] = k => mailbox[id] = "unused"
  BY <1>1 DEF DraftsAccounted, DraftsHaveRows, LiveDraftsAreCounted
<1>6. \A v \in Workers : At(v, "create") => call[v].stage # k
  BY <1>1 DEF DraftsAccounted, CallsAgree, MayCreate
<1>7. \A v \in Workers : HasDraft(v) => call[v].stage # k
  BY <1>5 DEF HasDraft
<1>8. RowsAreWellFormed'
  BY <1>3 DEF DraftsAccounted, RowsAreWellFormed
<1>9. DraftsHaveRows'
  BY <1>3, <1>4 DEF DraftsAccounted, DraftsHaveRows
<1>10. OneDraftPerRow'
  BY <1>4 DEF DraftsAccounted, OneDraftPerRow
<1>11. LiveDraftsAreCounted'
  BY <1>1, <1>3, <1>4, <1>5
  DEF DraftsAccounted, LiveDraftsAreCounted, DraftsHaveRows, Countable,
      CountableStates, TypeOK
<1>12. LedgerNamesItsOwnDraft'
  BY <1>3, <1>4 DEF DraftsAccounted, LedgerNamesItsOwnDraft
<1>13. CallsAgree'
  <2>1. MayCreate(w)'
    BY <1>2, <1>3, <1>4, <1>5, <1>6 DEF MayCreate, At
  <2>2. ASSUME NEW v \in Workers \ {w}, At(v, "create")'
        PROVE  MayCreate(v)'
    <3>1. /\ At(v, "create") /\ MayCreate(v)
          /\ call'[v] = call[v] /\ call[v].stage \in Stages \ {k}
      BY <1>1, <1>2, <1>6, <2>2, AtTypes, AtStep
      DEF DraftsAccounted, CallsAgree, At, Active
    <3> QED
      BY <1>2, <1>3, <1>4, <3>1 DEF MayCreate, At
  <2>3. ASSUME NEW v \in Workers \ {w}
        PROVE  /\ At(v, "finalise")' => HasDraft(v)'
               /\ (At(v, "delete") \/ At(v, "voiding"))' =>
                    HasDraft(v)' /\ ledger'[call'[v].stage].gid = call'[v].gid
               /\ At(v, "voiding")' => mailbox'[call'[v].gid] # "draft"
    <3>1. HasDraft(v) => call[v].stage \in Stages \ {k}
      BY <1>7, NoneAssumption DEF HasDraft, TypeOK, At, Call, Active, Idle
    <3> QED
      BY <1>2, <1>3, <1>4, <3>1 DEF DraftsAccounted, CallsAgree, HasDraft, At
  <2> QED
    BY <1>2, <2>1, <2>2, <2>3 DEF CallsAgree, At
<1> QED
  BY <1>8, <1>9, <1>10, <1>11, <1>12, <1>13 DEF DraftsAccounted

LEMMA FinaliseAccounted ==
  ASSUME TypeOK, DraftsAccounted, NEW w \in Workers, FinaliseDraft(w)
  PROVE  DraftsAccounted'
<1> DEFINE k == call[w].stage
           id == call[w].gid
           now == call[w].now
<1>1. /\ k \in Stages /\ now \in Time /\ ~At(w, "idle") /\ HasDraft(w)
      /\ call \in [Workers -> Call] /\ ledger \in [Stages -> Row]
  BY StepIsActive DEF FinaliseDraft, TypeOK, DraftsAccounted, CallsAgree
<1>2. /\ call'[w].pc = "idle"
      /\ \A v \in Workers \ {w} : call'[v] = call[v]
      /\ UNCHANGED <<mailbox, ledgerOf, inflight>>
  BY <1>1, CallAfter DEF FinaliseDraft, gmailUnchanged
<1>3. CASE ~Finalisable(k, id, now)
  BY <1>2, <1>3, StepAside DEF FinaliseDraft
<1>4. CASE Finalisable(k, id, now)
  <2>1. /\ ledger[k].state = "reserved"
        /\ ledger'[k].state = "draft" /\ ledger'[k].drafted = now
        /\ ledger'[k].gid = id
        /\ \A j \in Stages \ {k} : ledger'[j] = ledger[j]
    <3>1. ledger' = [ledger EXCEPT ![k] = Drafted(ledger[k], id, now)]
      BY <1>4 DEF FinaliseDraft
    <3>2. ledger[k].state = "reserved"
      BY <1>4 DEF Finalisable
    <3>3. /\ ledger'[k] = Drafted(ledger[k], id, now)
          /\ \A j \in Stages \ {k} : ledger'[j] = ledger[j]
      BY <1>1, <3>1, OneRowAfter
    <3> QED
      BY <1>1, <3>2, <3>3, DraftedFields
  <2>2. /\ id \in DraftIds /\ ledgerOf[id] = k /\ mailbox[id] # "unused"
        /\ id # None /\ now # None
    BY <1>1, NoneAssumption DEF HasDraft, Time
  <2> HIDE DEF k, id, now
  <2>3. k \notin inflight
    BY <2>2 DEF DraftsAccounted, OneDraftPerRow
  <2>4. RowsAreWellFormed'
    BY <2>1, <2>2 DEF DraftsAccounted, RowsAreWellFormed
  <2>5. DraftsHaveRows'
    BY <1>2, <2>1 DEF DraftsAccounted, DraftsHaveRows
  <2>6. OneDraftPerRow'
    BY <1>2 DEF DraftsAccounted, OneDraftPerRow
  <2>7. LiveDraftsAreCounted'
    BY <1>1, <1>2, <2>1, <2>3
    DEF DraftsAccounted, LiveDraftsAreCounted, DraftsHaveRows, Countable,
        CountableStates, TypeOK
  <2>8. LedgerNamesItsOwnDraft'
    BY <1>2, <2>1, <2>2 DEF DraftsAccounted, LedgerNamesItsOwnDraft
  <2>9. CallsAgree'
    <3>1. \A v \in Workers : At(v, "create") => call[v].stage # k
      BY <2>2 DEF DraftsAccounted, CallsAgree, MayCreate
    <3>2. \A v \in Workers : (At(v, "delete") \/ At(v, "voiding")) =>
            call[v].stage # k
      BY <2>1, NoneAssumption, <1>1
      DEF DraftsAccounted, CallsAgree, HasDraft, RowsAreWellFormed
    <3>3. \A v \in Workers : ~At(v, "idle") => call[v].stage \in Stages
      BY <1>1, AtTypes DEF Active
    <3> QED
      BY <1>2, <2>1, <3>1, <3>2, <3>3
      DEF DraftsAccounted, CallsAgree, MayCreate, HasDraft, At
  <2> QED
    BY <2>4, <2>5, <2>6, <2>7, <2>8, <2>9 DEF DraftsAccounted
<1> QED
  BY <1>3, <1>4

LEMMA CreateAccounted ==
  ASSUME TypeOK, DraftsAccounted, NEW w \in Workers, NEW id \in DraftIds,
         CreateDraft(w, id) \/ CreateAnswerLost(w, id)
  PROVE  DraftsAccounted'
<1> DEFINE k == call[w].stage
<1>1. k \in Stages /\ ~At(w, "idle") /\ MayCreate(w) /\ call \in [Workers -> Call]
  BY StepIsActive
  DEF CreateDraft, CreateAnswerLost, DraftsAccounted, CallsAgree, TypeOK
<1>2. /\ call'[w].stage = k
      /\ \/ call'[w].pc = "finalise" /\ call'[w].gid = id
         \/ call'[w].pc = "note"
      /\ \A v \in Workers \ {w} : call'[v] = call[v]
  BY <1>1, CallAfter DEF CreateDraft, CreateAnswerLost
<1>3. /\ UNCHANGED <<ledger, inflight>>
      /\ mailbox[id] = "unused"
      /\ mailbox'[id] = "draft" /\ ledgerOf'[id] = k
      /\ \A i \in DraftIds \ {id} :
           mailbox'[i] = mailbox[i] /\ ledgerOf'[i] = ledgerOf[i]
  BY DEF CreateDraft, CreateAnswerLost, NewDraft, ledgerUnchanged, TypeOK
<1>4. /\ ledger[k].state = "reserved" /\ k \notin inflight
      /\ \A i \in DraftIds : ledgerOf[i] = k => mailbox[i] = "unused"
      /\ \A v \in Workers : (At(v, "create") /\ call[v].stage = k) => v = w
  BY <1>1 DEF MayCreate
<1> HIDE DEF k
<1>5. RowsAreWellFormed'
  BY <1>3 DEF DraftsAccounted, RowsAreWellFormed
<1>6. DraftsHaveRows'
  BY <1>1, <1>3, <1>4 DEF DraftsAccounted, DraftsHaveRows
<1>7. OneDraftPerRow'
  BY <1>3, <1>4 DEF DraftsAccounted, OneDraftPerRow
<1>8. LiveDraftsAreCounted'
  <2>1. ASSUME NEW i \in DraftIds, mailbox'[i] = "draft"
        PROVE  ledger'[ledgerOf'[i]].state \in CountableStates
    BY <1>3, <1>4, <2>1
    DEF DraftsAccounted, LiveDraftsAreCounted, Countable, CountableStates
  <2>2. \A j \in inflight' : ledger'[j].state = "reserved"
    BY <1>3 DEF DraftsAccounted, LiveDraftsAreCounted
  <2> QED
    BY <2>1, <2>2 DEF LiveDraftsAreCounted, Countable
<1>9. LedgerNamesItsOwnDraft'
  <2>1. \A j \in Stages : ledger[j].gid \in DraftIds \cup {None}
    BY DEF TypeOK, Row
  <2> QED
    BY <1>3, <1>4, <2>1 DEF DraftsAccounted, LedgerNamesItsOwnDraft
<1>10. CallsAgree'
  <2>1. \A v \in Workers : HasDraft(v) => call[v].gid # id
    BY <1>3 DEF HasDraft
  <2> QED
    BY <1>1, <1>2, <1>3, <1>4, <2>1
    DEF DraftsAccounted, CallsAgree, MayCreate, HasDraft, At
<1> QED
  BY <1>5, <1>6, <1>7, <1>8, <1>9, <1>10 DEF DraftsAccounted

\* The request is lost or on its way: only the caller could have sent it.
LEMMA InFlightAccounted ==
  ASSUME TypeOK, DraftsAccounted, NEW w \in Workers, CreateRaises(w) \/ Crash(w)
  PROVE  DraftsAccounted'
<1> DEFINE k == call[w].stage
<1>1. /\ k \in Stages /\ ~At(w, "idle") /\ call \in [Workers -> Call]
      /\ UNCHANGED <<ledger, mailbox, ledgerOf>>
  BY StepIsActive DEF CreateRaises, Crash, ledgerUnchanged, TypeOK
<1>2. /\ call'[w].pc \in {"idle", "note"}
      /\ \A v \in Workers \ {w} : call'[v] = call[v]
  BY <1>1, CallAfter DEF CreateRaises, Crash
<1>3. inflight' = inflight \/ (At(w, "create") /\ inflight' = inflight \cup {k})
  BY DEF CreateRaises, Crash
<1> HIDE DEF k
<1>4. CASE inflight' = inflight
  BY <1>1, <1>2, <1>4, StepAside
<1>5. CASE At(w, "create") /\ inflight' = inflight \cup {k}
  <2>1. MayCreate(w)
    BY <1>5 DEF DraftsAccounted, CallsAgree
  <2>2. /\ ledger[k].state = "reserved"
        /\ \A i \in DraftIds : ledgerOf[i] = k => mailbox[i] = "unused"
        /\ \A v \in Workers : (At(v, "create") /\ call[v].stage = k) => v = w
    BY <2>1 DEF MayCreate, k
  <2>3. RowsAreWellFormed' /\ DraftsHaveRows' /\ LedgerNamesItsOwnDraft'
    BY <1>1
    DEF DraftsAccounted, RowsAreWellFormed, DraftsHaveRows, LedgerNamesItsOwnDraft
  <2>4. OneDraftPerRow'
    BY <1>1, <1>5, <2>2 DEF DraftsAccounted, OneDraftPerRow
  <2>5. LiveDraftsAreCounted'
    BY <1>1, <1>5, <2>2 DEF DraftsAccounted, LiveDraftsAreCounted, Countable
  <2>6. CallsAgree'
    BY <1>1, <1>2, <1>5, <2>2 DEF DraftsAccounted, CallsAgree, MayCreate, HasDraft, At
  <2> QED
    BY <2>3, <2>4, <2>5, <2>6 DEF DraftsAccounted
<1> QED
  BY <1>3, <1>4, <1>5

\* A failure note changes nothing the drafts depend on.
LEMMA NoteAccounted ==
  ASSUME TypeOK, DraftsAccounted, NEW w \in Workers, NoteReservationError(w)
  PROVE  DraftsAccounted'
<1> DEFINE k == call[w].stage
<1>1. /\ k \in Stages /\ call \in [Workers -> Call] /\ ledger \in [Stages -> Row]
      /\ UNCHANGED <<mailbox, ledgerOf, inflight>>
  BY StepIsActive DEF NoteReservationError, gmailUnchanged, TypeOK
<1>2. /\ call'[w].pc = "idle" /\ \A v \in Workers \ {w} : call'[v] = call[v]
  BY <1>1, CallAfter DEF NoteReservationError
<1>3. ledger' = ledger \/ ledger' = [ledger EXCEPT ![k] = Noted(ledger[k])]
  BY DEF NoteReservationError
<1> HIDE DEF k
<1>4. \A j \in Stages :
        /\ ledger'[j].state = ledger[j].state /\ ledger'[j].gid = ledger[j].gid
        /\ ledger'[j].drafted = ledger[j].drafted
  BY <1>1, <1>3, OneRowAfter, NotedFields
<1>5. RowsAreWellFormed'
  BY <1>4 DEF DraftsAccounted, RowsAreWellFormed
<1>6. DraftsHaveRows' /\ OneDraftPerRow'
  BY <1>1, <1>4 DEF DraftsAccounted, DraftsHaveRows, OneDraftPerRow
<1>7. LiveDraftsAreCounted'
  BY <1>1, <1>4
  DEF DraftsAccounted, LiveDraftsAreCounted, DraftsHaveRows, Countable, TypeOK
<1>8. LedgerNamesItsOwnDraft'
  BY <1>1, <1>4 DEF DraftsAccounted, LedgerNamesItsOwnDraft
<1>9. CallsAgree'
  <2>1. \A v \in Workers : ~At(v, "idle") => call[v].stage \in Stages
    BY <1>1, AtTypes DEF Active
  <2> QED
    BY <1>1, <1>2, <1>4, <2>1
    DEF DraftsAccounted, CallsAgree, MayCreate, HasDraft, At
<1> QED
  BY <1>5, <1>6, <1>7, <1>8, <1>9 DEF DraftsAccounted

\* The search returns a draft made for the row.
LEMMA FindAccounted ==
  ASSUME TypeOK, DraftsAccounted, NEW w \in Workers, NEW id \in DraftIds,
         FindByLedgerId(w, id)
  PROVE  DraftsAccounted'
<1> DEFINE k == call[w].stage
<1>1. ~At(w, "idle") /\ call \in [Workers -> Call]
  BY StepIsActive DEF FindByLedgerId, TypeOK
<1>2. /\ call'[w].pc = "finalise" /\ call'[w].stage = k /\ call'[w].gid = id
      /\ \A v \in Workers \ {w} : call'[v] = call[v]
  BY <1>1, CallAfter DEF FindByLedgerId
<1>3. UNCHANGED <<ledger, mailbox, ledgerOf, inflight>>
  BY DEF FindByLedgerId, ledgerUnchanged, gmailUnchanged
<1>4. mailbox[id] = "draft" /\ ledgerOf[id] = k
  BY DEF FindByLedgerId, LiveDrafts
<1> HIDE DEF k
<1>5. CallsAgree'
  BY <1>2, <1>3, <1>4 DEF DraftsAccounted, CallsAgree, MayCreate, HasDraft, At
<1> QED
  BY <1>3, <1>5
  DEF DraftsAccounted, RowsAreWellFormed, DraftsHaveRows, OneDraftPerRow,
      LiveDraftsAreCounted, LedgerNamesItsOwnDraft, Countable

\* The row undo reads names a draft of its own.
LEMMA UndoReadAccounted ==
  ASSUME TypeOK, DraftsAccounted, NEW w \in Workers, UndoReadsRow(w)
  PROVE  DraftsAccounted'
<1> DEFINE k == call[w].stage
<1>1. /\ k \in Stages /\ ~At(w, "idle") /\ call \in [Workers -> Call]
      /\ UNCHANGED <<ledger, mailbox, ledgerOf, inflight>>
  BY StepIsActive DEF UndoReadsRow, ledgerUnchanged, gmailUnchanged, TypeOK
<1>2. CASE ledger[k].state # "draft"
  <2>1. call'[w].pc = "idle" /\ \A v \in Workers \ {w} : call'[v] = call[v]
    BY <1>1, <1>2, CallAfter DEF UndoReadsRow
  <2> QED
    BY <1>1, <2>1, StepAside
<1>3. CASE ledger[k].state = "draft"
  <2>1. /\ call'[w].pc = "delete" /\ call'[w].stage = k
        /\ call'[w].gid = ledger[k].gid
        /\ \A v \in Workers \ {w} : call'[v] = call[v]
    BY <1>1, <1>3, CallAfter DEF UndoReadsRow
  <2>2. ledger[k].gid \in DraftIds
    BY <1>1, <1>3 DEF TypeOK, Row, DraftsAccounted, RowsAreWellFormed
  <2>3. ledgerOf[ledger[k].gid] = k /\ mailbox[ledger[k].gid] # "unused"
    BY <1>1, <2>2, NoneAssumption DEF DraftsAccounted, LedgerNamesItsOwnDraft
  <2> HIDE DEF k
  <2>4. CallsAgree'
    BY <1>1, <2>1, <2>2, <2>3 DEF DraftsAccounted, CallsAgree, MayCreate, HasDraft, At
  <2> QED
    BY <1>1, <2>4
    DEF DraftsAccounted, RowsAreWellFormed, DraftsHaveRows, OneDraftPerRow,
        LiveDraftsAreCounted, LedgerNamesItsOwnDraft, Countable
<1> QED
  BY <1>2, <1>3

\* Drafts that leave the mailbox: whoever removes or sends them.
LEMMA MailboxShrinks ==
  ASSUME TypeOK, DraftsAccounted,
         UNCHANGED <<ledger, ledgerOf, inflight>>,
         \A id \in DraftIds :
           /\ (mailbox[id] = "unused") <=> (mailbox'[id] = "unused")
           /\ mailbox'[id] = "draft" => mailbox[id] = "draft"
  PROVE  /\ RowsAreWellFormed' /\ DraftsHaveRows' /\ OneDraftPerRow'
         /\ LiveDraftsAreCounted' /\ LedgerNamesItsOwnDraft'
<1>1. \A k \in Stages : ledger[k].gid \in DraftIds \cup {None}
  BY DEF TypeOK, Row
<1>2. LedgerNamesItsOwnDraft'
  BY <1>1 DEF DraftsAccounted, LedgerNamesItsOwnDraft
<1> QED
  BY <1>2
  DEF DraftsAccounted, RowsAreWellFormed, DraftsHaveRows, OneDraftPerRow,
      LiveDraftsAreCounted, Countable

LEMMA DeleteAccounted ==
  ASSUME TypeOK, DraftsAccounted, NEW w \in Workers,
         DeleteDraft(w) \/ DeleteRaises(w)
  PROVE  DraftsAccounted'
<1> DEFINE id == call[w].gid
<1>1. /\ At(w, "delete") /\ ~At(w, "idle") /\ call \in [Workers -> Call]
      /\ UNCHANGED <<ledger, ledgerOf, inflight>>
  BY StepIsActive DEF DeleteDraft, DeleteRaises, ledgerUnchanged, TypeOK
<1>2. HasDraft(w) /\ id \in DraftIds /\ ledger[call[w].stage].gid = id
  BY <1>1 DEF DraftsAccounted, CallsAgree, HasDraft
<1>3. /\ call'[w].pc = "voiding" /\ Discarded(id) /\ call'[w].stage = call[w].stage
         /\ call'[w].gid = id
      \/ call'[w].pc = "idle"
  BY <1>1, CallAfter DEF DeleteDraft, DeleteRaises
<1>4. \A v \in Workers \ {w} : call'[v] = call[v]
  BY <1>1, CallAfter DEF DeleteDraft, DeleteRaises
<1>5. mailbox' = mailbox \/ Discarded(id)
  BY DEF DeleteDraft, DeleteRaises
<1> HIDE DEF id
<1>6. \A i \in DraftIds :
        /\ (mailbox[i] = "unused") <=> (mailbox'[i] = "unused")
        /\ mailbox'[i] = "draft" => mailbox[i] = "draft"
  BY <1>2, <1>5 DEF Discarded, TypeOK
<1>7. Discarded(id) => mailbox'[id] # "draft"
  BY <1>2 DEF Discarded, TypeOK
<1>8. CallsAgree'
  <2>1. \A v \in Workers : HasDraft(v) => HasDraft(v)' \/ v = w
    BY <1>1, <1>4, <1>6 DEF HasDraft
  <2>2. \A v \in Workers \ {w} : MayCreate(v) => MayCreate(v)'
    BY <1>1, <1>3, <1>4, <1>6 DEF MayCreate, At
  <2>3. call'[w].pc = "voiding" => HasDraft(w)'
    BY <1>1, <1>2, <1>3, <1>6 DEF HasDraft, id
  <2>4. \A v \in Workers \ {w} : HasDraft(v) => call[v].gid \in DraftIds
    BY DEF HasDraft
  <2> QED
    BY <1>1, <1>2, <1>3, <1>4, <1>6, <1>7, <2>1, <2>2, <2>3, <2>4
    DEF DraftsAccounted, CallsAgree, At
<1> QED
  BY <1>1, <1>6, <1>8, MailboxShrinks DEF DraftsAccounted

LEMMA VoidAccounted ==
  ASSUME TypeOK, DraftsAccounted, NEW w \in Workers, VoidDraft(w)
  PROVE  DraftsAccounted'
<1> DEFINE k == call[w].stage
<1>1. /\ k \in Stages /\ At(w, "voiding") /\ call \in [Workers -> Call]
      /\ ledger \in [Stages -> Row]
      /\ UNCHANGED <<mailbox, ledgerOf, inflight>>
  BY StepIsActive DEF VoidDraft, gmailUnchanged, TypeOK
<1>2. call'[w].pc = "idle" /\ \A v \in Workers \ {w} : call'[v] = call[v]
  BY <1>1, CallAfter DEF VoidDraft
<1>3. CASE ledger' = ledger
  BY <1>1, <1>2, <1>3, StepAside
<1>4. CASE ledger' # ledger
  <2>1. ledger[k].state = "draft" /\ ledger' = [ledger EXCEPT ![k] = Voided(ledger[k])]
    BY <1>4 DEF VoidDraft
  <2>2. /\ HasDraft(w) /\ ledger[k].gid = call[w].gid
        /\ mailbox[call[w].gid] # "draft"
    BY <1>1 DEF DraftsAccounted, CallsAgree
  <2> HIDE DEF k
  <2>3. /\ ledger'[k].state = "void" /\ ledger'[k].gid = ledger[k].gid
        /\ ledger'[k].drafted = ledger[k].drafted
        /\ \A j \in Stages \ {k} : ledger'[j] = ledger[j]
    BY <1>1, <2>1, OneRowAfter, VoidedFields
  \* The only draft of the row is the one that was removed.
  <2>4. /\ k \notin inflight
        /\ \A i \in DraftIds : mailbox[i] = "draft" => ledgerOf[i] # k
    BY <2>1, <2>2
    DEF DraftsAccounted, LiveDraftsAreCounted, OneDraftPerRow, HasDraft, k
  <2>5. RowsAreWellFormed'
    BY <1>1, <2>1, <2>3 DEF DraftsAccounted, RowsAreWellFormed
  <2>6. DraftsHaveRows' /\ OneDraftPerRow'
    BY <1>1, <2>3 DEF DraftsAccounted, DraftsHaveRows, OneDraftPerRow
  <2>7. LiveDraftsAreCounted'
    BY <1>1, <2>3, <2>4
    DEF DraftsAccounted, LiveDraftsAreCounted, DraftsHaveRows, Countable, TypeOK
  <2>8. LedgerNamesItsOwnDraft'
    BY <1>1, <2>3 DEF DraftsAccounted, LedgerNamesItsOwnDraft
  <2>9. CallsAgree'
    <3>1. \A v \in Workers : ~At(v, "idle") => call[v].stage \in Stages
      BY <1>1, AtTypes DEF Active
    <3>2. \A v \in Workers : At(v, "create") => call[v].stage # k
      BY <2>1 DEF DraftsAccounted, CallsAgree, MayCreate
    <3> QED
      BY <1>1, <1>2, <2>3, <3>1, <3>2
      DEF DraftsAccounted, CallsAgree, MayCreate, HasDraft, At
  <2> QED
    BY <2>5, <2>6, <2>7, <2>8, <2>9 DEF DraftsAccounted
<1> QED
  BY <1>3, <1>4

\* The steps that lead away from Gmail and the ledger.
LEMMA AsideAccounted ==
  ASSUME TypeOK, DraftsAccounted, NEW w \in Workers,
         \/ \E k \in Stages, c \in Contents : StartDraft(w, k, c)
         \/ \E k \in Stages : StartUndo(w, k)
         \/ ReserveExisting(w) \/ ReserveRefused(w)
         \/ ResumeExisting(w) \/ FindGivesUp(w)
  PROVE  DraftsAccounted'
<1>1. UNCHANGED <<ledger, mailbox, ledgerOf, inflight>> /\ call \in [Workers -> Call]
  BY DEF StartDraft, StartUndo, ReserveExisting, ReserveRefused, ResumeExisting,
         FindGivesUp, ledgerUnchanged, gmailUnchanged, TypeOK
<1>2. CASE \/ \E k \in Stages, c \in Contents : StartDraft(w, k, c)
           \/ \E k \in Stages : StartUndo(w, k)
  <2>1. PICK pc \in {"reserve", "undo"}, k \in Stages, c \in Contents \cup {None} :
          Enter(w, [pc |-> pc, stage |-> k, content |-> c, now |-> clock,
                    gid |-> None])
    BY <1>2 DEF StartDraft, StartUndo
  <2>2. /\ call'[w] = [pc |-> pc, stage |-> k, content |-> c, now |-> clock,
                       gid |-> None]
        /\ \A v \in Workers \ {w} : call'[v] = call[v]
    BY <1>1, <2>1, CallAfter
  <2> QED
    BY <1>1, <2>2, StepAside
<1>3. CASE \/ ReserveExisting(w) \/ ReserveRefused(w)
           \/ ResumeExisting(w) \/ FindGivesUp(w)
  <2>1. ~At(w, "idle")
    BY <1>3, StepIsActive
  <2>2. /\ call'[w].pc \in {"resume", "find", "idle"}
        /\ \A v \in Workers \ {w} : call'[v] = call[v]
    BY <1>1, <1>3, <2>1, CallAfter
    DEF ReserveExisting, ReserveRefused, ResumeExisting, FindGivesUp
  <2> QED
    BY <1>1, <2>2, StepAside
<1> QED
  BY <1>2, <1>3

LEMMA MarkSentAccounted ==
  ASSUME TypeOK, DraftsAccounted, NEW k \in Stages, MarkSent(k)
  PROVE  DraftsAccounted'
<1>1. /\ UNCHANGED <<call, mailbox, ledgerOf, inflight>>
      /\ call \in [Workers -> Call] /\ ledger \in [Stages -> Row]
      /\ ledger[k].state = "draft"
  BY DEF MarkSent, gmailUnchanged, TypeOK
<1>2. /\ ledger'[k].state = "sent" /\ ledger'[k].gid = ledger[k].gid
      /\ ledger'[k].drafted = ledger[k].drafted
      /\ \A j \in Stages \ {k} : ledger'[j] = ledger[j]
  <2>1. ledger' = [ledger EXCEPT ![k] = Sent(ledger[k])]
    BY DEF MarkSent
  <2> QED
    BY <1>1, <2>1, OneRowAfter, SentFields
<1>3. RowsAreWellFormed'
  BY <1>1, <1>2 DEF DraftsAccounted, RowsAreWellFormed
<1>4. DraftsHaveRows' /\ OneDraftPerRow'
  BY <1>1, <1>2 DEF DraftsAccounted, DraftsHaveRows, OneDraftPerRow
<1>5. LiveDraftsAreCounted'
  BY <1>1, <1>2
  DEF DraftsAccounted, LiveDraftsAreCounted, DraftsHaveRows, Countable,
      CountableStates, TypeOK
<1>6. LedgerNamesItsOwnDraft'
  BY <1>1, <1>2 DEF DraftsAccounted, LedgerNamesItsOwnDraft
<1>7. CallsAgree'
  <2>1. \A v \in Workers : ~At(v, "idle") => call[v].stage \in Stages
    BY <1>1, AtTypes DEF Active
  <2> QED
    BY <1>1, <1>2, <2>1 DEF DraftsAccounted, CallsAgree, MayCreate, HasDraft, At
<1> QED
  BY <1>3, <1>4, <1>5, <1>6, <1>7 DEF DraftsAccounted

\* Gmail acts on a request nobody waits for any more.
LEMMA LateAccounted ==
  ASSUME TypeOK, DraftsAccounted, NEW k \in Stages, NEW id \in DraftIds,
         GmailActsLate(k, id)
  PROVE  DraftsAccounted'
<1>1. /\ UNCHANGED <<ledger, call>>
      /\ mailbox[id] = "unused"
      /\ mailbox'[id] = "draft" /\ ledgerOf'[id] = k
      /\ \A i \in DraftIds \ {id} :
           mailbox'[i] = mailbox[i] /\ ledgerOf'[i] = ledgerOf[i]
      /\ k \in inflight /\ inflight' = inflight \ {k}
  BY DEF GmailActsLate, NewDraft, ledgerUnchanged, TypeOK
<1>2. ledger[k].state = "reserved"
  BY <1>1 DEF DraftsAccounted, LiveDraftsAreCounted
<1>3. \A i \in DraftIds : mailbox[i] # "unused" => ledgerOf[i] # k
  BY <1>1 DEF DraftsAccounted, OneDraftPerRow
<1>4. RowsAreWellFormed' /\ DraftsHaveRows'
  BY <1>1, <1>2 DEF DraftsAccounted, RowsAreWellFormed, DraftsHaveRows
<1>5. OneDraftPerRow'
  BY <1>1, <1>3 DEF DraftsAccounted, OneDraftPerRow
<1>6. LiveDraftsAreCounted'
  <2>1. ASSUME NEW i \in DraftIds, mailbox'[i] = "draft"
        PROVE  ledger'[ledgerOf'[i]].state \in CountableStates
    BY <1>1, <1>2, <2>1
    DEF DraftsAccounted, LiveDraftsAreCounted, Countable, CountableStates
  <2>2. \A j \in inflight' : ledger'[j].state = "reserved"
    BY <1>1 DEF DraftsAccounted, LiveDraftsAreCounted
  <2> QED
    BY <2>1, <2>2 DEF LiveDraftsAreCounted, Countable
<1>7. LedgerNamesItsOwnDraft'
  <2>1. \A j \in Stages : ledger[j].gid \in DraftIds \cup {None}
    BY DEF TypeOK, Row
  <2> QED
    BY <1>1, <1>3, <2>1 DEF DraftsAccounted, LedgerNamesItsOwnDraft
<1>8. CallsAgree'
  <2>1. \A v \in Workers : HasDraft(v) => call[v].gid # id
    BY <1>1 DEF HasDraft
  <2>2. \A v \in Workers : At(v, "create") => call[v].stage # k
    BY <1>1 DEF DraftsAccounted, CallsAgree, MayCreate
  <2> QED
    BY <1>1, <2>1, <2>2 DEF DraftsAccounted, CallsAgree, MayCreate, HasDraft, At
<1> QED
  BY <1>4, <1>5, <1>6, <1>7, <1>8 DEF DraftsAccounted

LEMMA PersonAccounted ==
  ASSUME TypeOK, DraftsAccounted, NEW id \in DraftIds,
         PersonSends(id) \/ PersonDiscards(id)
  PROVE  DraftsAccounted'
<1>1. /\ UNCHANGED <<ledger, ledgerOf, inflight, call>>
      /\ \A i \in DraftIds :
           /\ (mailbox[i] = "unused") <=> (mailbox'[i] = "unused")
           /\ mailbox'[i] = "draft" => mailbox[i] = "draft"
  BY DEF PersonSends, PersonDiscards, ledgerUnchanged, TypeOK
<1>2. CallsAgree'
  BY <1>1 DEF DraftsAccounted, CallsAgree, MayCreate, HasDraft, At
<1> QED
  BY <1>1, <1>2, MailboxShrinks DEF DraftsAccounted

LEMMA AccountedUnchanged ==
  ASSUME DraftsAccounted, UNCHANGED <<ledger, mailbox, ledgerOf, inflight, call>>
  PROVE  DraftsAccounted'
<1>1. CallsAgree'
  BY DEF DraftsAccounted, CallsAgree, MayCreate, HasDraft, At
<1> QED
  BY <1>1
  DEF DraftsAccounted, RowsAreWellFormed, DraftsHaveRows, OneDraftPerRow,
      LiveDraftsAreCounted, LedgerNamesItsOwnDraft, Countable

LEMMA NextAccounted == TypeOK /\ DraftsAccounted /\ [Next]_vars => DraftsAccounted'
<1> SUFFICES ASSUME TypeOK, DraftsAccounted, [Next]_vars PROVE DraftsAccounted'
  OBVIOUS
<1>1. CASE UNCHANGED vars
  BY <1>1, AccountedUnchanged DEF vars
<1>2. ASSUME NEW w \in Workers, DraftStep(w)
      PROVE  DraftsAccounted'
  BY <1>2, AsideAccounted, ReserveAccounted, CreateAccounted, InFlightAccounted,
     NoteAccounted, FinaliseAccounted, FindAccounted
  DEF DraftStep
<1>3. ASSUME NEW w \in Workers, UndoStep(w)
      PROVE  DraftsAccounted'
  BY <1>3, AsideAccounted, UndoReadAccounted, DeleteAccounted, VoidAccounted
  DEF UndoStep
<1>4. ASSUME NEW w \in Workers, Crash(w)
      PROVE  DraftsAccounted'
  BY <1>4, InFlightAccounted
<1>5. CASE World
  <2>1. CASE Tick
    BY <2>1, AccountedUnchanged DEF Tick, ledgerUnchanged, gmailUnchanged
  <2> QED
    BY <1>5, <2>1, MarkSentAccounted, LateAccounted, PersonAccounted DEF World
<1> QED
  BY <1>1, <1>2, <1>3, <1>4, <1>5 DEF Next

LEMMA InitAccounted == Init => DraftsAccounted
<1> SUFFICES ASSUME Init PROVE DraftsAccounted
  OBVIOUS
<1>1. CallsAgree
  BY DEF Init, CallsAgree, At, Idle
<1> QED
  BY <1>1
  DEF Init, NoRow, DraftsAccounted, RowsAreWellFormed, DraftsHaveRows,
      OneDraftPerRow, LiveDraftsAreCounted, LedgerNamesItsOwnDraft

LEMMA Accounted == Spec => [](TypeOK /\ DraftsAccounted)
BY InitTypeOK, NextTypeOK, InitAccounted, NextAccounted, PTL DEF Spec

\* Exact retries are idempotent for any number of workers, timeouts, late
\* answers and crashes: a row never has two Gmail drafts.
THEOREM OneDraft == Spec => []OneDraftPerRow
<1>1. DraftsAccounted => OneDraftPerRow
  BY DEF DraftsAccounted
<1> QED
  BY <1>1, Accounted, PTL

\* Ambiguous outcomes stay counted: a draft that exists, or may still come to
\* exist, always belongs to a row that uses capacity.
THEOREM DraftsCounted == Spec => []LiveDraftsAreCounted
<1>1. DraftsAccounted => LiveDraftsAreCounted
  BY DEF DraftsAccounted
<1> QED
  BY <1>1, Accounted, PTL

\* A row never names a draft made for another row.
THEOREM OwnDraft == Spec => []LedgerNamesItsOwnDraft
<1>1. DraftsAccounted => LedgerNamesItsOwnDraft
  BY DEF DraftsAccounted
<1> QED
  BY <1>1, Accounted, PTL

-----------------------------------------------------------------------------
(* Daily capacity and the immutable history of the ledger *)

\* The writers of the sends table and of the warm-up start.
LEMMA LedgerWrites ==
  ASSUME TypeOK, [Next]_vars
  PROVE  \/ UNCHANGED <<ledger, warmup>>
         \/ \E w \in Workers : ReserveNew(w)
         \/ /\ UNCHANGED warmup
            /\ \E k \in Stages :
                 \/ /\ ledger[k].state = "reserved"
                    /\ \/ ledger' = [ledger EXCEPT ![k] = Noted(ledger[k])]
                       \/ \E id, now :
                            ledger' = [ledger EXCEPT ![k] = Drafted(ledger[k], id, now)]
                 \/ /\ ledger[k].state = "draft"
                    /\ \/ ledger' = [ledger EXCEPT ![k] = Voided(ledger[k])]
                       \/ ledger' = [ledger EXCEPT ![k] = Sent(ledger[k])]
<1> DEFINE Goal ==
      \/ UNCHANGED <<ledger, warmup>>
      \/ \E w \in Workers : ReserveNew(w)
      \/ /\ UNCHANGED warmup
         /\ \E k \in Stages :
              \/ /\ ledger[k].state = "reserved"
                 /\ \/ ledger' = [ledger EXCEPT ![k] = Noted(ledger[k])]
                    \/ \E id, now :
                         ledger' = [ledger EXCEPT ![k] = Drafted(ledger[k], id, now)]
              \/ /\ ledger[k].state = "draft"
                 /\ \/ ledger' = [ledger EXCEPT ![k] = Voided(ledger[k])]
                    \/ ledger' = [ledger EXCEPT ![k] = Sent(ledger[k])]
<1>1. CASE UNCHANGED vars
  BY <1>1 DEF vars
<1>2. ASSUME NEW w \in Workers, DraftStep(w)
      PROVE  Goal
  <2>1. CASE NoteReservationError(w)
    BY <2>1, StepIsActive DEF NoteReservationError
  <2>2. CASE FinaliseDraft(w)
    BY <2>2, StepIsActive DEF FinaliseDraft, Finalisable
  <2>3. CASE ReserveNew(w)
    BY <2>3
  <2> QED
    BY <1>2, <2>1, <2>2, <2>3
    DEF DraftStep, StartDraft, ReserveExisting, ReserveRefused, CreateDraft,
        CreateAnswerLost, CreateRaises, ResumeExisting, FindByLedgerId, FindGivesUp,
        ledgerUnchanged
<1>3. ASSUME NEW w \in Workers, UndoStep(w)
      PROVE  Goal
  <2>1. CASE VoidDraft(w)
    BY <2>1, StepIsActive DEF VoidDraft
  <2> QED
    BY <1>3, <2>1
    DEF UndoStep, StartUndo, UndoReadsRow, DeleteDraft, DeleteRaises, ledgerUnchanged
<1>4. ASSUME NEW w \in Workers, Crash(w)
      PROVE  Goal
  BY <1>4 DEF Crash, ledgerUnchanged
<1>5. CASE World
  <2>1. ASSUME NEW k \in Stages, MarkSent(k)
        PROVE  Goal
    BY <2>1 DEF MarkSent
  <2> QED
    BY <1>5, <2>1
    DEF World, GmailActsLate, PersonSends, PersonDiscards, Tick,
        ledgerUnchanged
<1> QED
  BY <1>1, <1>2, <1>3, <1>4, <1>5 DEF Next

\* A reservation inserts a row where there was none.
LEMMA ReserveInserts ==
  ASSUME TypeOK, NEW w \in Workers, ReserveNew(w)
  PROVE  LET k == call[w].stage
             now == call[w].now
         IN /\ k \in Stages /\ now \in Time
            /\ ledger[k].state = "none" /\ WithinCapacity(now)
            /\ warmup' = WarmupStartedBy(now)
            /\ ledger'[k].state = "reserved" /\ ledger'[k].created = now
            /\ \A j \in Stages \ {k} : ledger'[j] = ledger[j]
<1> DEFINE k == call[w].stage
           now == call[w].now
<1>1. k \in Stages /\ now \in Time /\ ledger \in [Stages -> Row]
  BY StepIsActive DEF TypeOK
<1>2. ledger' = [ledger EXCEPT ![k] = ReservedRow(call[w].content, now)]
  BY DEF ReserveNew
<1>3. /\ ledger'[k] = ReservedRow(call[w].content, now)
      /\ \A j \in Stages \ {k} : ledger'[j] = ledger[j]
  BY <1>1, <1>2, OneRowAfter
<1> QED
  BY <1>1, <1>3, ReservedFields DEF ReserveNew

LEMMA LimitType ==
  ASSUME NEW n
  PROVE  EffectiveHardLimit(n) \in Nat
BY WarmupAssumption DEF EffectiveHardLimit, Lesser

LEMMA CountedType ==
  ASSUME NEW day
  PROVE  /\ IsFiniteSet(CountedOn(day))
         /\ Cardinality(CountedOn(day)) \in Nat
BY StagesAssumption, FS_Subset, FS_CardinalityType DEF CountedOn

\* Rows that stay or leave the countable states use no more capacity.
LEMMA CapacityKept ==
  ASSUME TypeOK, CapacityRespected, UNCHANGED warmup,
         \A k \in Stages :
           ledger'[k].state \in CountableStates =>
             ledger[k].state \in CountableStates /\ ledger'[k].created = ledger[k].created
  PROVE  CapacityRespected'
<1> SUFFICES ASSUME NEW t \in Time
             PROVE  Cardinality(CountedOn(UkDay(t))')
                      <= EffectiveHardLimit(WarmupDay(warmup, UkDay(t)))
  BY DEF CapacityRespected
<1>1. CountedOn(UkDay(t))' \subseteq CountedOn(UkDay(t))
  BY DEF CountedOn, Countable
<1>2. /\ Cardinality(CountedOn(UkDay(t))') <= Cardinality(CountedOn(UkDay(t)))
      /\ Cardinality(CountedOn(UkDay(t))') \in Nat
  BY <1>1, CountedType, FS_Subset, FS_CardinalityType
<1>3. Cardinality(CountedOn(UkDay(t)))
        <= EffectiveHardLimit(WarmupDay(warmup, UkDay(t)))
  BY DEF CapacityRespected
<1> QED
  BY <1>2, <1>3, CountedType, LimitType

LEMMA AtMostOneMore ==
  ASSUME NEW S, IsFiniteSet(S), NEW x
  PROVE  /\ IsFiniteSet(S \cup {x}) /\ Cardinality(S \cup {x}) \in Nat
         /\ Cardinality(S \cup {x}) <= Cardinality(S) + 1
<1>1. IsFiniteSet(S \cup {x})
  BY FS_AddElement
<1>2. Cardinality(S \cup {x}) = Cardinality(S) + 1
        \/ Cardinality(S \cup {x}) = Cardinality(S)
  BY FS_AddElement
<1>3. Cardinality(S) \in Nat
  BY FS_CardinalityType
<1> QED
  BY <1>1, <1>2, <1>3

LEMMA ReserveKeepsCapacity ==
  ASSUME TypeOK, WarmupStartsWithTheLedger, CapacityRespected,
         NEW w \in Workers, ReserveNew(w)
  PROVE  CapacityRespected'
<1> DEFINE k == call[w].stage
           now == call[w].now
           Limit(d) == EffectiveHardLimit(WarmupDay(warmup', UkDay(d)))
<1>1. /\ k \in Stages /\ now \in Time
      /\ ledger[k].state = "none" /\ WithinCapacity(now)
      /\ warmup' = WarmupStartedBy(now)
      /\ ledger'[k].state = "reserved" /\ ledger'[k].created = now
      /\ \A j \in Stages \ {k} : ledger'[j] = ledger[j]
  BY ReserveInserts
<1> SUFFICES ASSUME NEW t \in Time
             PROVE  Cardinality(CountedOn(UkDay(t))') <= Limit(t)
  BY DEF CapacityRespected
<1> DEFINE Before == CountedOn(UkDay(t))
           After == CountedOn(UkDay(t))'
<1>2. IsFiniteSet(Before) /\ Cardinality(Before) \in Nat /\ Limit(t) \in Nat
  BY CountedType, LimitType
<1>3. CASE UkDay(t) = UkDay(now)
  <2>1. After \subseteq Before \cup {k}
    BY <1>1 DEF CountedOn, Countable
  <2>2. /\ IsFiniteSet(Before \cup {k}) /\ Cardinality(Before \cup {k}) \in Nat
        /\ Cardinality(Before \cup {k}) <= Cardinality(Before) + 1
    BY <1>2, AtMostOneMore
  <2>3. /\ Cardinality(After) <= Cardinality(Before \cup {k})
        /\ Cardinality(After) \in Nat
    BY <2>1, <2>2, FS_Subset, FS_CardinalityType
  <2>4. Cardinality(Before) + 1 <= Limit(t)
    BY <1>1, <1>3 DEF WithinCapacity, TodayCount
  <2> QED
    BY <1>2, <2>2, <2>3, <2>4
<1>4. CASE UkDay(t) # UkDay(now)
  <2>1. After = Before
    BY <1>1, <1>4 DEF CountedOn, Countable, CountableStates
  <2>2. CASE warmup = None
    <3>1. Before = {}
      BY <2>2 DEF CountedOn, Countable, CountableStates, WarmupStartsWithTheLedger
    <3> QED
      BY <1>2, <2>1, <3>1, FS_EmptySet
  <2>3. CASE warmup # None
    <3>1. warmup' = warmup
      BY <1>1, <2>3 DEF WarmupStartedBy
    <3>2. Cardinality(Before) <= Limit(t)
      BY <3>1 DEF CapacityRespected
    <3> QED
      BY <2>1, <3>2
  <2> QED
    BY <2>2, <2>3
<1> QED
  BY <1>3, <1>4

\* Every other write keeps the creation instant, and none of them makes a row
\* countable that was not.
LEMMA WritesKeepHistory ==
  ASSUME TypeOK, DraftsAccounted, [Next]_vars, NEW k \in Stages
  PROVE  /\ ledger[k].state # "none" =>
              /\ ledger'[k].state # "none"
              /\ ledger'[k].content = ledger[k].content
              /\ ledger'[k].created = ledger[k].created
              /\ ledger[k].gid # None => ledger'[k].gid = ledger[k].gid
              /\ ~Countable(k) => ledger'[k] = ledger[k]
         /\ (ledger[k].state = "none" /\ ~\E w \in Workers : ReserveNew(w))
              => ledger'[k].state = "none"
<1>1. CASE UNCHANGED <<ledger, warmup>>
  BY <1>1
<1>2. ASSUME NEW w \in Workers, ReserveNew(w)
      PROVE  ledger[k].state # "none" => ledger'[k] = ledger[k]
  BY <1>2, ReserveInserts
<1>3. ASSUME NEW j \in Stages, ledger[j].state \in {"reserved", "draft"},
             \/ ledger' = [ledger EXCEPT ![j] = Noted(ledger[j])]
             \/ /\ ledger[j].state = "reserved"
                /\ \E id, now : ledger' = [ledger EXCEPT ![j] = Drafted(ledger[j], id, now)]
             \/ ledger' = [ledger EXCEPT ![j] = Voided(ledger[j])]
             \/ ledger' = [ledger EXCEPT ![j] = Sent(ledger[j])]
      PROVE  /\ \A i \in Stages \ {j} : ledger'[i] = ledger[i]
             /\ ledger'[j].state # "none"
             /\ ledger'[j].content = ledger[j].content
             /\ ledger'[j].created = ledger[j].created
             /\ ledger[j].gid # None => ledger'[j].gid = ledger[j].gid
  <2>1. ledger \in [Stages -> Row] /\ ledger[j] \in Row
    BY DEF TypeOK
  <2>2. ledger[j].state = "reserved" => ledger[j].gid = None
    BY DEF DraftsAccounted, RowsAreWellFormed
  <2>3. CASE ledger' = [ledger EXCEPT ![j] = Noted(ledger[j])]
    BY <1>3, <2>1, <2>3, OneRowAfter, NotedFields
  <2>4. ASSUME NEW id, NEW now, ledger[j].state = "reserved",
               ledger' = [ledger EXCEPT ![j] = Drafted(ledger[j], id, now)]
        PROVE  /\ \A i \in Stages \ {j} : ledger'[i] = ledger[i]
               /\ ledger'[j].state # "none"
               /\ ledger'[j].content = ledger[j].content
               /\ ledger'[j].created = ledger[j].created
               /\ ledger[j].gid # None => ledger'[j].gid = ledger[j].gid
    BY <2>1, <2>2, <2>4, OneRowAfter, DraftedFields
  <2>5. CASE ledger' = [ledger EXCEPT ![j] = Voided(ledger[j])]
    BY <2>1, <2>5, OneRowAfter, VoidedFields
  <2>6. CASE ledger' = [ledger EXCEPT ![j] = Sent(ledger[j])]
    BY <2>1, <2>6, OneRowAfter, SentFields
  <2> QED
    BY <1>3, <2>3, <2>4, <2>5, <2>6
<1> QED
  BY <1>1, <1>2, <1>3, LedgerWrites DEF Countable, CountableStates

LEMMA NextCapacity ==
  TypeOK /\ DraftsAccounted /\ WarmupStartsWithTheLedger /\ CapacityRespected
    /\ [Next]_vars => WarmupStartsWithTheLedger' /\ CapacityRespected'
<1> SUFFICES ASSUME TypeOK, DraftsAccounted, WarmupStartsWithTheLedger,
                    CapacityRespected, [Next]_vars
             PROVE  WarmupStartsWithTheLedger' /\ CapacityRespected'
  OBVIOUS
<1>1. CASE \E w \in Workers : ReserveNew(w)
  <2>1. PICK w \in Workers : ReserveNew(w)
    BY <1>1
  <2>2. warmup' # None
    <3>1. warmup' = WarmupStartedBy(call[w].now) /\ call[w].now \in Time
      BY <2>1, ReserveInserts
    <3> QED
      BY <3>1, NoneAssumption DEF WarmupStartedBy, Time
  <2> QED
    BY <2>1, <2>2, ReserveKeepsCapacity DEF WarmupStartsWithTheLedger
<1>2. CASE ~\E w \in Workers : ReserveNew(w)
  <2>1. warmup' = warmup
    BY <1>2, LedgerWrites
  <2>2. \A k \in Stages :
          /\ ledger[k].state = "none" => ledger'[k].state = "none"
          /\ ledger'[k].state \in CountableStates =>
               ledger[k].state \in CountableStates /\ ledger'[k].created = ledger[k].created
    BY <1>2, WritesKeepHistory DEF Countable, CountableStates
  <2> QED
    BY <2>1, <2>2, CapacityKept DEF WarmupStartsWithTheLedger
<1> QED
  BY <1>1, <1>2

LEMMA InitCapacity == Init => WarmupStartsWithTheLedger /\ CapacityRespected
<1> SUFFICES ASSUME Init PROVE WarmupStartsWithTheLedger /\ CapacityRespected
  OBVIOUS
<1>1. \A day : CountedOn(day) = {}
  BY DEF Init, CountedOn, Countable, CountableStates, NoRow
<1>2. CapacityRespected
  BY <1>1, FS_EmptySet, LimitType DEF CapacityRespected
<1> QED
  BY <1>2 DEF Init, NoRow, WarmupStartsWithTheLedger

LEMMA Invariance == Spec => []IInv
BY InitTypeOK, NextTypeOK, InitAccounted, NextAccounted, InitCapacity, NextCapacity, PTL
DEF Spec, IInv

\* Concurrency-safe daily capacity: no interleaving of reservations, retries,
\* undos and crashes exceeds the limit of any UK day, for every warm-up schedule.
THEOREM Capacity == Spec => []CapacityRespected
<1>1. IInv => CapacityRespected
  BY DEF IInv
<1> QED
  BY <1>1, Invariance, PTL

\* The ledger's history is append-only: what the triggers of migration 003 keep.
THEOREM History == Spec => HistoryIsKept
<1>1. TypeOK /\ DraftsAccounted /\ [Next]_vars =>
        [\A k \in Stages :
           ledger[k].state # "none" =>
             /\ ledger'[k].state # "none"
             /\ ledger'[k].content = ledger[k].content
             /\ ledger'[k].created = ledger[k].created
             /\ ledger[k].gid # None => ledger'[k].gid = ledger[k].gid
             /\ ~Countable(k) => ledger'[k] = ledger[k]]_vars
  BY WritesKeepHistory
<1> QED
  BY <1>1, Accounted, PTL DEF Spec, HistoryIsKept
=============================================================================
