---------------------- MODULE SendLedgerContractProofs ----------------------
(***************************************************************************)
(* Machine-checked refinement: SendLedger implements DraftContract for     *)
(* every set of stages, workers, contents and draft identifiers and every  *)
(* warm-up schedule.                                                       *)
(***************************************************************************)
EXTENDS SendLedgerContract, SendLedgerProofs

Phase == [k \in Stages |-> PhaseOf(k)]
Day == [k \in Stages |-> DayOf(k)]
Mail == [k \in Stages |-> MailOf(k)]
StartDay == IF warmup = None THEN None ELSE UkDay(warmup)

LEMMA ContractInit == Init => Contract!Init
BY DEF Init, Contract!Init, NoRow, PhaseOf, DayOf, MailOf, DraftsOf

\* The steps the contract may see, by what they write.
LEMMA StepKinds ==
  ASSUME [Next]_vars
  PROVE  \/ UNCHANGED <<ledger, warmup, mailbox, ledgerOf>>
         \/ \E w \in Workers :
              \/ ReserveNew(w) \/ NoteReservationError(w) \/ FinaliseDraft(w)
              \/ VoidDraft(w) \/ DeleteDraft(w) \/ DeleteRaises(w)
              \/ \E id \in DraftIds : CreateDraft(w, id) \/ CreateAnswerLost(w, id)
         \/ \E k \in Stages : MarkSent(k) \/ \E id \in DraftIds : GmailActsLate(k, id)
         \/ \E id \in DraftIds : PersonSends(id) \/ PersonDiscards(id)
BY DEF Next, DraftStep, UndoStep, World, vars, StartDraft, ReserveExisting, ReserveRefused,
       CreateRaises, ResumeExisting, FindByLedgerId, FindGivesUp, StartUndo, UndoReadsRow,
       Tick, Crash, ledgerUnchanged, gmailUnchanged

-----------------------------------------------------------------------------
(* The mailbox *)

LEMMA MailboxUnchanged ==
  ASSUME UNCHANGED <<mailbox, ledgerOf>>
  PROVE  Mail' = Mail
BY DEF Mail, MailOf, DraftsOf, LiveDrafts

LEMMA LedgerUnchanged ==
  ASSUME UNCHANGED <<ledger, warmup>>
  PROVE  UNCHANGED <<Phase, Day, StartDay>>
BY DEF Phase, PhaseOf, Day, DayOf, StartDay, Countable

\* A draft Gmail makes for a stage that has had none.
LEMMA DraftPosted ==
  ASSUME IInv, UNCHANGED <<ledger, warmup>>, NEW k \in Stages, NEW id \in DraftIds,
         NewDraft(k, id), ledger[k].state = "reserved",
         \A j \in DraftIds : ledgerOf[j] = k => mailbox[j] = "unused"
  PROVE  Contract!Post(k)
<1>1. /\ mailbox[id] = "unused" /\ mailbox'[id] = "draft" /\ ledgerOf'[id] = k
      /\ \A j \in DraftIds \ {id} : mailbox'[j] = mailbox[j] /\ ledgerOf'[j] = ledgerOf[j]
  BY DEF NewDraft, IInv, TypeOK
<1>2. MailOf(k) = "none" /\ MailOf(k)' = "live"
  <2>1. DraftsOf(k) = {} /\ id \in DraftsOf(k)' /\ id \in LiveDrafts(k)'
    BY <1>1 DEF DraftsOf, LiveDrafts
  <2> QED
    BY <2>1 DEF MailOf
<1>3. \A j \in Stages \ {k} : MailOf(j)' = MailOf(j)
  <2> SUFFICES ASSUME NEW j \in Stages \ {k} PROVE MailOf(j)' = MailOf(j)
    OBVIOUS
  <2>1. DraftsOf(j)' = DraftsOf(j) /\ LiveDrafts(j)' = LiveDrafts(j)
    BY <1>1 DEF DraftsOf, LiveDrafts
  <2> QED
    BY <2>1 DEF MailOf
<1>4. Mail' = [Mail EXCEPT ![k] = "live"] /\ Mail[k] = "none"
  BY <1>2, <1>3 DEF Mail
<1>5. Phase[k] = "held"
  BY DEF Phase, PhaseOf, Countable, CountableStates
<1> QED
  BY <1>4, <1>5, LedgerUnchanged DEF Contract!Post, Phase, Day, Mail, StartDay

\* The one draft of a stage leaves the mailbox.
LEMMA DraftRemoved ==
  ASSUME IInv, UNCHANGED <<ledger, warmup, ledgerOf>>, NEW id \in DraftIds,
         mailbox[id] = "draft", mailbox'[id] \notin {"unused", "draft"},
         \A j \in DraftIds \ {id} : mailbox'[j] = mailbox[j]
  PROVE  ledgerOf[id] \in Stages /\ Contract!Remove(ledgerOf[id])
<1>0. ledgerOf[id] \in Stages
  BY DEF IInv, DraftsAccounted, DraftsHaveRows
<1> PICK k \in Stages : k = ledgerOf[id]
  BY <1>0
<1>1. \A j \in DraftIds : (mailbox[j] # "unused" /\ ledgerOf[j] = k) => j = id
  BY DEF IInv, DraftsAccounted, OneDraftPerRow
<1>2. MailOf(k) = "live" /\ MailOf(k)' = "gone"
  <2>1. id \in DraftsOf(k) /\ id \in LiveDrafts(k)
    BY DEF DraftsOf, LiveDrafts
  <2>2. id \in DraftsOf(k)'
    BY DEF DraftsOf
  <2>3. LiveDrafts(k)' = {}
    BY <1>1 DEF LiveDrafts
  <2> QED
    BY <2>1, <2>2, <2>3 DEF MailOf
<1>3. \A j \in Stages \ {k} : MailOf(j)' = MailOf(j)
  <2> SUFFICES ASSUME NEW j \in Stages \ {k} PROVE MailOf(j)' = MailOf(j)
    OBVIOUS
  <2>1. DraftsOf(j)' = DraftsOf(j) /\ LiveDrafts(j)' = LiveDrafts(j)
    BY DEF DraftsOf, LiveDrafts
  <2> QED
    BY <2>1 DEF MailOf
<1>4. Mail' = [Mail EXCEPT ![k] = "gone"] /\ Mail[k] = "live"
  BY <1>2, <1>3 DEF Mail
<1>5. Contract!Remove(k)
  BY <1>4, LedgerUnchanged DEF Contract!Remove, Phase, Day, Mail, StartDay
<1> QED
  BY <1>5

-----------------------------------------------------------------------------
(* The ledger *)

\* A reservation takes capacity of its day while there is some.
LEMMA ReserveHolds ==
  ASSUME IInv, NEW w \in Workers, ReserveNew(w)
  PROVE  \E k \in Stages, d \in {UkDay(t) : t \in Time} : Contract!Hold(k, d)
<1> DEFINE k == call[w].stage
           now == call[w].now
           d == UkDay(now)
<1>1. /\ k \in Stages /\ now \in Time
      /\ ledger[k].state = "none" /\ WithinCapacity(now)
      /\ warmup' = WarmupStartedBy(now)
      /\ ledger'[k].state = "reserved" /\ ledger'[k].created = now
      /\ \A j \in Stages \ {k} : ledger'[j] = ledger[j]
  BY ReserveInserts DEF IInv
<1>2. Mail' = Mail
  BY MailboxUnchanged DEF ReserveNew, gmailUnchanged
<1> HIDE DEF k, now
<1>3. Phase[k] = "free" /\ Phase' = [Phase EXCEPT ![k] = "held"]
  BY <1>1 DEF Phase, PhaseOf, Countable, CountableStates
<1>4. Day' = [Day EXCEPT ![k] = d]
  BY <1>1 DEF Day, DayOf
<1>5. warmup' # None /\ (warmup # None => warmup' = warmup)
        /\ (warmup = None => warmup' = now)
  BY <1>1, NoneAssumption DEF WarmupStartedBy, Time
<1>6. /\ StartDay' = UkDay(warmup')
      /\ StartDay = IF warmup = None THEN None ELSE UkDay(warmup)
  BY <1>5 DEF StartDay
<1>7. UkDay(now) # None /\ \A t \in Time : UkDay(t) # None /\ UkDay(t) \in Nat
  BY <1>1, TimeAssumption, NoneAssumption DEF UkDay, Time
<1>8. StartDay' = IF StartDay = None THEN d ELSE StartDay
  BY <1>5, <1>6, <1>7 DEF IInv, TypeOK
<1>9. {j \in Stages : Phase[j] = "held" /\ Day[j] = d} = CountedOn(d)
  BY DEF Phase, PhaseOf, Day, DayOf, CountedOn, Countable, CountableStates
<1>10. AllowanceFrom(StartDay', d) = EffectiveHardLimit(WarmupDay(warmup', d))
  BY <1>5, <1>6 DEF AllowanceFrom, WarmupDay
<1>11. Cardinality(CountedOn(d)) < AllowanceFrom(StartDay', d)
  BY <1>1, <1>10, CountedType, LimitType DEF WithinCapacity, TodayCount
<1>12. Contract!Cardinality(CountedOn(d)) < AllowanceFrom(StartDay', d)
  BY <1>11 DEF Cardinality, Contract!Cardinality
<1>13. Contract!Hold(k, d)
  BY <1>2, <1>3, <1>4, <1>8, <1>9, <1>12
  DEF Contract!Hold, Contract!Holders, Phase, Day, Mail, StartDay
<1> QED
  BY <1>1, <1>13

\* Noting a failure, finalising and marking as sent keep a row's phase and day.
LEMMA RowKept ==
  ASSUME IInv, UNCHANGED <<warmup, mailbox, ledgerOf>>, NEW k \in Stages,
         ledger[k].state \in {"reserved", "draft"},
         \A j \in Stages \ {k} : ledger'[j] = ledger[j],
         ledger'[k].state \in CountableStates, ledger'[k].created = ledger[k].created
  PROVE  UNCHANGED <<Phase, Day, Mail, StartDay>>
<1>1. Phase' = Phase
  BY DEF Phase, PhaseOf, Countable, CountableStates
<1>2. Day' = Day
  BY DEF Day, DayOf, CountableStates
<1> QED
  BY <1>1, <1>2, MailboxUnchanged DEF StartDay

\* A row is voided once its draft has left the mailbox.
LEMMA VoidReleases ==
  ASSUME IInv, NEW w \in Workers, VoidDraft(w)
  PROVE  \/ UNCHANGED <<Phase, Day, Mail, StartDay>>
         \/ \E k \in Stages : Contract!Release(k)
<1> DEFINE k == call[w].stage
           id == call[w].gid
<1>1. k \in Stages /\ ledger[k] \in Row /\ ledger \in [Stages -> Row]
  BY StepIsActive DEF IInv, TypeOK
<1>2. /\ id \in DraftIds /\ ledgerOf[id] = k /\ mailbox[id] # "unused"
      /\ mailbox[id] # "draft"
  BY DEF IInv, DraftsAccounted, CallsAgree, HasDraft, VoidDraft
<1>3. UNCHANGED <<warmup, mailbox, ledgerOf>>
  BY DEF VoidDraft, gmailUnchanged
<1>4. \/ ledger' = ledger
      \/ ledger[k].state = "draft" /\ ledger' = [ledger EXCEPT ![k] = Voided(ledger[k])]
  BY DEF VoidDraft
<1> HIDE DEF k, id
<1>5. CASE ledger' = ledger
  BY <1>3, <1>5, LedgerUnchanged, MailboxUnchanged
<1>6. CASE ledger[k].state = "draft" /\ ledger' = [ledger EXCEPT ![k] = Voided(ledger[k])]
  <2>1. /\ ledger'[k].state = "void" /\ ledger'[k].created = ledger[k].created
        /\ \A j \in Stages \ {k} : ledger'[j] = ledger[j]
    BY <1>1, <1>6, OneRowAfter, VoidedFields
  <2>2. MailOf(k) = "gone"
    <3>1. id \in DraftsOf(k)
      BY <1>2 DEF DraftsOf
    <3>2. LiveDrafts(k) = {}
      BY <1>2 DEF LiveDrafts, IInv, DraftsAccounted, OneDraftPerRow
    <3> QED
      BY <3>1, <3>2 DEF MailOf
  <2>3. Phase[k] = "held" /\ Phase' = [Phase EXCEPT ![k] = "released"]
    BY <1>1, <1>6, <2>1 DEF Phase, PhaseOf, Countable, CountableStates
  <2>4. Day' = Day
    BY <1>6, <2>1 DEF Day, DayOf
  <2>5. Contract!Release(k)
    BY <1>1, <1>3, <2>2, <2>3, <2>4, MailboxUnchanged
    DEF Contract!Release, Phase, Day, Mail, StartDay
  <2> QED
    BY <1>1, <2>5
<1> QED
  BY <1>4, <1>5, <1>6

-----------------------------------------------------------------------------
(* Every step *)

LEMMA CreatePosts ==
  ASSUME IInv, NEW w \in Workers, NEW id \in DraftIds,
         CreateDraft(w, id) \/ CreateAnswerLost(w, id)
  PROVE  \E k \in Stages : Contract!Post(k)
<1> DEFINE k == call[w].stage
<1>1. k \in Stages
  BY StepIsActive DEF IInv
<1>2. /\ NewDraft(k, id) /\ UNCHANGED <<ledger, warmup>> /\ At(w, "create")
  BY DEF CreateDraft, CreateAnswerLost, ledgerUnchanged
<1>3. /\ ledger[k].state = "reserved"
      /\ \A j \in DraftIds : ledgerOf[j] = k => mailbox[j] = "unused"
  BY <1>2 DEF IInv, DraftsAccounted, CallsAgree, MayCreate
<1> QED
  BY <1>1, <1>2, <1>3, DraftPosted

LEMMA LatePosts ==
  ASSUME IInv, NEW k \in Stages, NEW id \in DraftIds, GmailActsLate(k, id)
  PROVE  Contract!Post(k)
<1>1. NewDraft(k, id) /\ UNCHANGED <<ledger, warmup>> /\ k \in inflight
  BY DEF GmailActsLate, ledgerUnchanged
<1>2. /\ ledger[k].state = "reserved"
      /\ \A j \in DraftIds : ledgerOf[j] = k => mailbox[j] = "unused"
  BY <1>1 DEF IInv, DraftsAccounted, LiveDraftsAreCounted, OneDraftPerRow
<1> QED
  BY <1>1, <1>2, DraftPosted

LEMMA DeleteRemoves ==
  ASSUME IInv, NEW w \in Workers, DeleteDraft(w) \/ DeleteRaises(w)
  PROVE  \/ UNCHANGED <<Phase, Day, Mail, StartDay>>
         \/ \E k \in Stages : Contract!Remove(k)
<1> DEFINE id == call[w].gid
<1>1. /\ UNCHANGED <<ledger, warmup, ledgerOf>>
      /\ UNCHANGED mailbox \/ Discarded(id)
      /\ id \in DraftIds
  BY DEF DeleteDraft, DeleteRaises, ledgerUnchanged, IInv, DraftsAccounted, CallsAgree,
         HasDraft
<1> HIDE DEF id
<1>2. CASE UNCHANGED mailbox
  BY <1>1, <1>2, LedgerUnchanged, MailboxUnchanged
<1>3. CASE Discarded(id) /\ mailbox[id] # "draft"
  <2>1. mailbox' = mailbox
    BY <1>1, <1>3 DEF Discarded, IInv, TypeOK
  <2> QED
    BY <1>1, <2>1, LedgerUnchanged, MailboxUnchanged
<1>4. CASE Discarded(id) /\ mailbox[id] = "draft"
  <2>1. /\ mailbox'[id] = "deleted"
        /\ \A j \in DraftIds \ {id} : mailbox'[j] = mailbox[j]
    BY <1>1, <1>4 DEF Discarded, IInv, TypeOK
  <2> QED
    BY <1>1, <1>4, <2>1, DraftRemoved
<1> QED
  BY <1>1, <1>2, <1>3, <1>4

LEMMA PersonRemoves ==
  ASSUME IInv, NEW id \in DraftIds, PersonSends(id) \/ PersonDiscards(id)
  PROVE  \E k \in Stages : Contract!Remove(k)
<1>1. /\ mailbox[id] = "draft" /\ mailbox'[id] \notin {"unused", "draft"}
      /\ \A j \in DraftIds \ {id} : mailbox'[j] = mailbox[j]
      /\ UNCHANGED <<ledger, warmup, ledgerOf>>
  BY DEF PersonSends, PersonDiscards, IInv, TypeOK, ledgerUnchanged
<1> QED
  BY <1>1, DraftRemoved

LEMMA RowStays ==
  ASSUME IInv,
         \/ \E w \in Workers : NoteReservationError(w) \/ FinaliseDraft(w)
         \/ \E k \in Stages : MarkSent(k)
  PROVE  UNCHANGED <<Phase, Day, Mail, StartDay>>
<1> USE DEF CountableStates
<1>1. ASSUME NEW w \in Workers, NoteReservationError(w)
      PROVE  UNCHANGED <<Phase, Day, Mail, StartDay>>
  <2> DEFINE k == call[w].stage
  <2>1. k \in Stages /\ ledger[k] \in Row /\ ledger \in [Stages -> Row]
    BY <1>1, StepIsActive DEF IInv, TypeOK
  <2>2. UNCHANGED <<warmup, mailbox, ledgerOf>>
    BY <1>1 DEF NoteReservationError, gmailUnchanged
  <2>3. \/ ledger' = ledger
        \/ ledger[k].state = "reserved" /\ ledger' = [ledger EXCEPT ![k] = Noted(ledger[k])]
    BY <1>1 DEF NoteReservationError
  <2> HIDE DEF k
  <2>4. CASE ledger' = ledger
    BY <2>2, <2>4, LedgerUnchanged, MailboxUnchanged
  <2>5. CASE ledger[k].state = "reserved" /\ ledger' = [ledger EXCEPT ![k] = Noted(ledger[k])]
    BY <2>1, <2>2, <2>5, OneRowAfter, NotedFields, RowKept
  <2> QED
    BY <2>3, <2>4, <2>5
<1>2. ASSUME NEW w \in Workers, FinaliseDraft(w)
      PROVE  UNCHANGED <<Phase, Day, Mail, StartDay>>
  <2> DEFINE k == call[w].stage
             id == call[w].gid
             now == call[w].now
  <2>1. k \in Stages /\ ledger[k] \in Row /\ ledger \in [Stages -> Row]
    BY <1>2, StepIsActive DEF IInv, TypeOK
  <2>2. UNCHANGED <<warmup, mailbox, ledgerOf>>
    BY <1>2 DEF FinaliseDraft, gmailUnchanged
  <2>3. \/ ledger' = ledger
        \/ /\ ledger[k].state = "reserved"
           /\ ledger' = [ledger EXCEPT ![k] = Drafted(ledger[k], id, now)]
    BY <1>2 DEF FinaliseDraft, Finalisable
  <2> HIDE DEF k, id, now
  <2>4. CASE ledger' = ledger
    BY <2>2, <2>4, LedgerUnchanged, MailboxUnchanged
  <2>5. CASE /\ ledger[k].state = "reserved"
             /\ ledger' = [ledger EXCEPT ![k] = Drafted(ledger[k], id, now)]
    BY <2>1, <2>2, <2>5, OneRowAfter, DraftedFields, RowKept
  <2> QED
    BY <2>3, <2>4, <2>5
<1>3. ASSUME NEW k \in Stages, MarkSent(k)
      PROVE  UNCHANGED <<Phase, Day, Mail, StartDay>>
  <2>1. /\ ledger[k].state = "draft" /\ ledger' = [ledger EXCEPT ![k] = Sent(ledger[k])]
        /\ UNCHANGED <<warmup, mailbox, ledgerOf>>
        /\ ledger[k] \in Row /\ ledger \in [Stages -> Row]
    BY <1>3 DEF MarkSent, gmailUnchanged, IInv, TypeOK
  <2> QED
    BY <2>1, OneRowAfter, SentFields, RowKept
<1> QED
  BY <1>1, <1>2, <1>3

LEMMA ContractNext ==
  ASSUME IInv, [Next]_vars
  PROVE  [Contract!Next]_(Contract!contractVars)
<1>1. ASSUME UNCHANGED <<Phase, Day, Mail, StartDay>>
      PROVE  UNCHANGED Contract!contractVars
  BY <1>1 DEF Phase, Day, Mail, StartDay, Contract!contractVars
<1>2. CASE UNCHANGED <<ledger, warmup, mailbox, ledgerOf>>
  BY <1>1, <1>2, LedgerUnchanged, MailboxUnchanged
<1>3. (\E k \in Stages :
         \/ \E d \in {UkDay(t) : t \in Time} : Contract!Hold(k, d)
         \/ Contract!Post(k) \/ Contract!Remove(k) \/ Contract!Release(k))
        => Contract!Next
  BY DEF Contract!Next
<1> QED
  BY <1>1, <1>2, <1>3, StepKinds, ReserveHolds, VoidReleases, CreatePosts, LatePosts,
     DeleteRemoves, PersonRemoves, RowStays

\* Capacity is taken before the one draft of a stage exists and given back only after
\* it is gone: whatever is retried, answered late or cut off by a crash.
THEOREM ContractImplemented == Spec => ImplementsContract
BY ContractInit, ContractNext, Invariance, PTL
   DEF Spec, ImplementsContract, Contract!Spec

-----------------------------------------------------------------------------
(* A stage goes its way once *)

\* The capacity a stage uses and what became of its message, in the order they come:
\* free, reserved, drafted, the draft gone (deleted or sent), the capacity given back.
Way == << <<"free", "none">>, <<"held", "none">>, <<"held", "live">>, <<"held", "gone">>,
          <<"released", "gone">> >>

Reached(k, n) == PhaseOf(k) = Way[n][1] /\ MailOf(k) = Way[n][2]

\* No call and no crash puts a stage elsewhere: no draft without capacity, and none
\* left among the drafts once undo has given the capacity back.
OnTheWay == \A k \in Stages : \E n \in 1 .. 5 : Reached(k, n)

\* Every step leaves a stage where it is or takes it one further: nothing goes back,
\* and nothing is skipped.
OneFurther ==
  [][\A k \in Stages, n \in 1 .. 5 :
       Reached(k, n) => Reached(k, n)' \/ (n < 5 /\ Reached(k, n + 1)')]_vars

LEMMA ContractWay ==
  ASSUME [Contract!Next]_(Contract!contractVars), NEW k \in Stages, NEW n \in 1 .. 5,
         Reached(k, n)
  PROVE  Reached(k, n)' \/ (n < 5 /\ Reached(k, n + 1)')
<1>1. PhaseOf(k) = Phase[k] /\ MailOf(k) = Mail[k]
  BY DEF Phase, Mail
<1>2. PhaseOf(k)' = Phase'[k] /\ MailOf(k)' = Mail'[k]
  BY DEF Phase, Mail
<1>3. \/ /\ Phase'[k] = Phase[k] /\ Mail'[k] = Mail[k]
      \/ /\ Phase[k] = "free" /\ Phase'[k] = "held" /\ Mail'[k] = Mail[k]
      \/ /\ Phase[k] = "held" /\ Phase'[k] = Phase[k]
         /\ Mail[k] = "none" /\ Mail'[k] = "live"
      \/ /\ Phase'[k] = Phase[k] /\ Mail[k] = "live" /\ Mail'[k] = "gone"
      \/ /\ Phase[k] = "held" /\ Phase'[k] = "released"
         /\ Mail[k] = "gone" /\ Mail'[k] = Mail[k]
  <2>1. ASSUME NEW j \in Stages, NEW d \in {UkDay(t) : t \in Time}, Contract!Hold(j, d)
        PROVE  \/ Phase'[k] = Phase[k] /\ Mail'[k] = Mail[k]
               \/ Phase[k] = "free" /\ Phase'[k] = "held" /\ Mail'[k] = Mail[k]
    <3>1. Phase[j] = "free" /\ Phase' = [Phase EXCEPT ![j] = "held"] /\ Mail' = Mail
      BY <2>1 DEF Contract!Hold, Phase, Mail
    <3> QED
      BY <3>1 DEF Phase
  <2>2. ASSUME NEW j \in Stages, Contract!Post(j)
        PROVE  \/ Phase'[k] = Phase[k] /\ Mail'[k] = Mail[k]
               \/ /\ Phase[k] = "held" /\ Phase'[k] = Phase[k]
                  /\ Mail[k] = "none" /\ Mail'[k] = "live"
    <3>1. /\ Phase[j] = "held" /\ Mail[j] = "none" /\ Phase' = Phase
          /\ Mail' = [Mail EXCEPT ![j] = "live"]
      BY <2>2 DEF Contract!Post, Phase, Mail
    <3> QED
      BY <3>1 DEF Mail
  <2>3. ASSUME NEW j \in Stages, Contract!Remove(j)
        PROVE  \/ Phase'[k] = Phase[k] /\ Mail'[k] = Mail[k]
               \/ Phase'[k] = Phase[k] /\ Mail[k] = "live" /\ Mail'[k] = "gone"
    <3>1. Mail[j] = "live" /\ Phase' = Phase /\ Mail' = [Mail EXCEPT ![j] = "gone"]
      BY <2>3 DEF Contract!Remove, Phase, Mail
    <3> QED
      BY <3>1 DEF Mail
  <2>4. ASSUME NEW j \in Stages, Contract!Release(j)
        PROVE  \/ Phase'[k] = Phase[k] /\ Mail'[k] = Mail[k]
               \/ /\ Phase[k] = "held" /\ Phase'[k] = "released"
                  /\ Mail[k] = "gone" /\ Mail'[k] = Mail[k]
    <3>1. /\ Phase[j] = "held" /\ Mail[j] = "gone" /\ Mail' = Mail
          /\ Phase' = [Phase EXCEPT ![j] = "released"]
      BY <2>4 DEF Contract!Release, Phase, Mail
    <3> QED
      BY <3>1 DEF Phase
  <2>5. CASE UNCHANGED Contract!contractVars
    BY <2>5 DEF Contract!contractVars, Phase, Mail
  <2> QED
    BY <2>1, <2>2, <2>3, <2>4, <2>5 DEF Contract!Next
<1>4. CASE n = 1
  BY <1>1, <1>2, <1>3, <1>4 DEF Reached, Way
<1>5. CASE n = 2
  BY <1>1, <1>2, <1>3, <1>5 DEF Reached, Way
<1>6. CASE n = 3
  BY <1>1, <1>2, <1>3, <1>6 DEF Reached, Way
<1>7. CASE n = 4
  BY <1>1, <1>2, <1>3, <1>7 DEF Reached, Way
<1>8. CASE n = 5
  BY <1>1, <1>2, <1>3, <1>8 DEF Reached, Way
<1> QED
  BY <1>4, <1>5, <1>6, <1>7, <1>8

\* Every stage, whatever is retried, answered late, undone or cut off by a crash:
\* capacity before the draft, one draft ever, capacity back after it is gone, and
\* then nothing more.
THEOREM StagesGoOnce == Spec => []OnTheWay /\ OneFurther
<1>1. Init => OnTheWay
  <2> SUFFICES ASSUME Init, NEW k \in Stages PROVE Reached(k, 1)
    BY DEF OnTheWay
  <2>1. Phase[k] = "free" /\ Mail[k] = "none"
    BY ContractInit DEF Contract!Init, Phase, Mail
  <2> QED
    BY <2>1 DEF Reached, Way, Phase, Mail
<1>2. IInv /\ [Next]_vars =>
        [\A k \in Stages, n \in 1 .. 5 :
           Reached(k, n) => Reached(k, n)' \/ (n < 5 /\ Reached(k, n + 1)')]_vars
  BY ContractNext, ContractWay
<1>3. IInv /\ OnTheWay /\ [Next]_vars => OnTheWay'
  <2> SUFFICES ASSUME IInv, OnTheWay, [Next]_vars, NEW k \in Stages
               PROVE  \E n \in 1 .. 5 : Reached(k, n)'
    BY DEF OnTheWay
  <2>1. PICK n \in 1 .. 5 : Reached(k, n)
    BY DEF OnTheWay
  <2>2. Reached(k, n)' \/ (n < 5 /\ Reached(k, n + 1)')
    BY <2>1, ContractNext, ContractWay
  <2>3. n < 5 => n + 1 \in 1 .. 5
    OBVIOUS
  <2> QED
    BY <2>2, <2>3
<1> QED
  BY <1>1, <1>2, <1>3, Invariance, PTL DEF Spec, OneFurther
=============================================================================
