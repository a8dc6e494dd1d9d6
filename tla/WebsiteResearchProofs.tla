----------------------- MODULE WebsiteResearchProofs -----------------------
(***************************************************************************)
(* Machine-checked facts about WebsiteResearch for every set of operators, *)
(* records and websites, every limit and every number of rows.             *)
(***************************************************************************)
EXTENDS WebsiteResearch, FiniteSetTheorems, TLAPS

\* A form that confirms asserts a website; what a search is made for was the
\* latest receipt, a success for the record, when it was read.
Agrees(state) ==
  /\ state.pc = "record" =>
       /\ state.form \in Form
       /\ state.form.confirmed => state.form.kind = "website" /\ state.form.action = "assert"
  /\ state.pc = "provider" =>
       /\ state.read \in Read /\ state.read.receipt \in DOMAIN receipts
       /\ receipts[state.read.receipt] = [ok |-> TRUE, source |-> state.read.source]

CallsAgree == \A c \in Callers : Agrees(call[c])

\* The searches stored for a day, and those that will be if their answers come.
StoredIn(t) == {i \in DOMAIN searches : searches[i].at \in t .. t + Day}

UnderWay(t) == {c \in Callers : call[c].pc = "provider" /\ call[c].now \in t .. t + Day}

\* Both together keep to the bound, whatever the answers.
SearchesBounded ==
  \A t \in 0 .. MaxTime :
    Cardinality(StoredIn(t)) + Cardinality(UnderWay(t))
      <= DayLimit + Cardinality(Callers) - 1

IInv ==
  /\ TypeOK /\ CallsAgree
  /\ SearchesBounded /\ SearchesFollowReceipts
  /\ EventsAnswerTheirPages /\ JobsNameOneRecord /\ ConfirmationsAreWhole

-----------------------------------------------------------------------------
(* Rows and callers *)

LEMMA Appended ==
  ASSUME NEW S, NEW s \in Seq(S), NEW e \in S
  PROVE  /\ Append(s, e) \in Seq(S)
         /\ Len(Append(s, e)) = Len(s) + 1
         /\ DOMAIN s = 1 .. Len(s)
         /\ DOMAIN Append(s, e) = 1 .. Len(s) + 1
         /\ \A i \in 1 .. Len(s) : Append(s, e)[i] = s[i]
         /\ Append(s, e)[Len(s) + 1] = e
OBVIOUS

LEMMA IdleIsFine == Idle \in Call /\ Agrees(Idle)
BY NumbersAssumption DEF Idle, Call, Agrees

LEMMA RecordingExpanded ==
  ASSUME NEW form, NEW n
  PROVE  Recording(form, n) =
           [pc |-> "record", form |-> form, seen |-> n, read |-> None, now |-> 0]
<1>1. Recording(form, n) = [Idle EXCEPT !.pc = "record", !.seen = n, !.form = form]
  BY DEF Recording
<1> QED
  BY <1>1 DEF Idle

LEMMA RecordingIsFine ==
  ASSUME NEW form \in Form, NEW n \in Nat,
         form.confirmed => form.kind = "website" /\ form.action = "assert"
  PROVE  /\ Recording(form, n) \in Call /\ Agrees(Recording(form, n))
         /\ Recording(form, n).pc = "record"
<1>1. Recording(form, n) = [pc |-> "record", form |-> form, seen |-> n, read |-> None, now |-> 0]
  BY RecordingExpanded
<1>2. Recording(form, n) \in Call
  BY <1>1, NumbersAssumption DEF Call
<1>3. Recording(form, n).pc = "record" /\ Recording(form, n).form = form
  BY <1>1
<1> QED
  BY <1>2, <1>3 DEF Agrees

LEMMA CallsReplaced ==
  ASSUME TypeOK, CallsAgree, UNCHANGED receipts,
         NEW c \in Callers, NEW state \in Call, Agrees(state), Become(c, state)
  PROVE  call' \in [Callers -> Call] /\ CallsAgree'
<1>1. call' \in [Callers -> Call]
  BY DEF TypeOK, Become
<1>2. \A d \in Callers : call'[d] = IF d = c THEN state ELSE call[d]
  BY DEF TypeOK, Become
<1> QED
  BY <1>1, <1>2 DEF CallsAgree, Agrees

LEMMA CountsAreFinite ==
  ASSUME TypeOK
  PROVE  /\ IsFiniteSet(Callers) /\ Cardinality(Callers) \in Nat /\ Cardinality(Callers) >= 1
         /\ \A t \in Int :
              /\ IsFiniteSet(StoredIn(t)) /\ Cardinality(StoredIn(t)) \in Nat
              /\ IsFiniteSet(UnderWay(t)) /\ Cardinality(UnderWay(t)) \in Nat
              /\ Cardinality(UnderWay(t)) <= Cardinality(Callers)
<1>1. IsFiniteSet(Callers) /\ Cardinality(Callers) \in Nat
  BY CallersAssumption, FS_AddElement, FS_CardinalityType DEF Callers
<1>2. Cardinality(Callers) # 0
  BY <1>1, FS_EmptySet DEF Callers
<1>3. IsFiniteSet(DOMAIN searches)
  BY FS_Interval DEF TypeOK
<1>4. ASSUME NEW t \in Int
      PROVE  /\ IsFiniteSet(StoredIn(t)) /\ Cardinality(StoredIn(t)) \in Nat
             /\ IsFiniteSet(UnderWay(t)) /\ Cardinality(UnderWay(t)) \in Nat
             /\ Cardinality(UnderWay(t)) <= Cardinality(Callers)
  <2>1. StoredIn(t) \subseteq DOMAIN searches /\ UnderWay(t) \subseteq Callers
    BY DEF StoredIn, UnderWay
  <2> QED
    BY <1>1, <1>3, <2>1, FS_Subset, FS_CardinalityType
<1> QED
  BY <1>1, <1>2, <1>4

-----------------------------------------------------------------------------
(* How the actions move their callers *)

\* The caller c goes on, and does not ask the provider.
Moves(c) ==
  \E state \in Call : Agrees(state) /\ state.pc # "provider" /\ Become(c, state)

LEMMA ReturnsMove ==
  ASSUME NEW c \in Callers, Become(c, Idle)
  PROVE  Moves(c)
BY IdleIsFine DEF Moves, Idle

LEMMA RecordingMoves ==
  ASSUME NEW c \in Callers, NEW form \in Form, NEW n \in Nat,
         form.confirmed => form.kind = "website" /\ form.action = "assert",
         Become(c, Recording(form, n))
  PROVE  Moves(c)
BY RecordingIsFine DEF Moves

LEMMA ConfirmingMoves ==
  ASSUME NEW c \in Callers, NEW site \in Sites, NEW n \in Nat,
         Become(c, Confirming(site, n))
  PROVE  Moves(c)
<1> DEFINE form == [kind |-> "website", action |-> "assert", site |-> site, confirmed |-> TRUE]
<1>1. form \in Form /\ form.kind = "website" /\ form.action = "assert"
  BY DEF Form, Kinds
<1>2. Become(c, Recording(form, n))
  BY DEF Confirming
<1> HIDE DEF form
<1> QED
  BY <1>1, <1>2, RecordingMoves

LEMMA FoundMoves ==
  ASSUME NEW c \in Callers, NEW candidates \in SUBSET Sites, Found(c, candidates)
  PROVE  Moves(c)
<1>1. CASE Become(c, Idle)
  BY <1>1, ReturnsMove
<1>2. CASE \E site \in candidates : Become(c, Confirming(site, 0))
  BY <1>2, ConfirmingMoves
<1> QED
  BY <1>1, <1>2 DEF Found, MayConfirm

LEMMA TakeJobMoves ==
  ASSUME TypeOK, TakeJob
  PROVE  Moves(Worker)
<1> DEFINE state == [Idle EXCEPT !.pc = "search", !.now = clock]
<1>1. state \in Call /\ state.pc = "search"
  BY IdleIsFine DEF TypeOK, Call, Idle
<1>2. Agrees(state)
  BY <1>1 DEF Agrees
<1> QED
  BY <1>1, <1>2 DEF TakeJob, Moves

LEMMA SubmitMoves ==
  ASSUME NEW o \in Operators, NEW kind \in Kinds, NEW n \in Nat,
         NEW action \in {"assert", "withdraw"}, NEW site \in Sites \cup {None},
         NEW confirmed \in BOOLEAN, Submit(o, kind, n, action, site, confirmed)
  PROVE  Moves(o)
<1> DEFINE form == [kind |-> kind, action |-> action, site |-> site,
                    confirmed |-> confirmed]
<1>1. form \in Form
  BY DEF Form
<1>2. form.confirmed => form.kind = "website" /\ form.action = "assert"
  BY DEF Submit, Kinds
<1>3. Become(o, Recording(form, n)) /\ o \in Callers
  BY DEF Submit, Callers
<1> HIDE DEF form
<1> QED
  BY <1>1, <1>2, <1>3, RecordingMoves

\* What a caller that asks the provider remembers.
Asking(now) ==
  [Idle EXCEPT !.pc = "provider", !.now = now,
     !.read = [source |-> source, receipt |-> Len(receipts)]]

LEMMA AskingIsFine ==
  ASSUME TypeOK, Verified, NEW now \in 0 .. MaxTime
  PROVE  /\ Asking(now) \in Call /\ Agrees(Asking(now))
         /\ Asking(now).pc = "provider" /\ Asking(now).now = now
<1> DEFINE read == [source |-> source, receipt |-> Len(receipts)]
<1>1. read \in Read /\ read.receipt = Len(receipts) /\ read.source = source
  BY DEF TypeOK, Read
<1>2. Len(receipts) \in DOMAIN receipts
  BY DEF TypeOK, Verified
<1>3. Asking(now) = [Idle EXCEPT !.pc = "provider", !.now = now, !.read = read]
  BY DEF Asking
<1> HIDE DEF read
<1>4. Asking(now) = [pc |-> "provider", form |-> None, seen |-> 0, read |-> read, now |-> now]
  BY <1>3 DEF Idle
<1>5. Asking(now) \in Call /\ Asking(now).pc = "provider" /\ Asking(now).now = now
      /\ Asking(now).read = read
  BY <1>1, <1>4 DEF Call
<1>6. Agrees(Asking(now))
  BY <1>1, <1>2, <1>5 DEF Agrees, Verified
<1> QED
  BY <1>5, <1>6

\* Discover moves its caller, or lets it ask.
LEMMA DiscoverCases ==
  ASSUME TypeOK, NEW c \in Callers, Discover(c)
  PROVE  /\ call[c].pc # "provider" /\ Verified
         /\ \/ Moves(c)
            \/ \E now \in 0 .. MaxTime : SearchAllowed(now) /\ Become(c, Asking(now))
<1> DEFINE now == IF c = Worker THEN call[c].now ELSE clock
<1>1. now \in 0 .. MaxTime
  BY DEF TypeOK, Call
<1>2. call[c].pc # "provider" /\ Verified
  BY DEF Discover, At
<1>3. ASSUME NEW i \in Reusable(now), Found(c, searches[i].candidates)
      PROVE  Moves(c)
  <2>1. i \in DOMAIN searches
    BY <1>3 DEF Reusable
  <2>2. searches[i] \in Search
    BY <2>1 DEF TypeOK
  <2>3. searches[i].candidates \in SUBSET Sites
    BY <2>2 DEF Search
  <2> QED
    BY <1>3, <2>3, FoundMoves
<1>4. \/ \E i \in Reusable(now) : Found(c, searches[i].candidates)
      \/ SearchAllowed(now) /\ Become(c, Asking(now))
  BY DEF Discover, Asking
<1> HIDE DEF now
<1> QED
  BY <1>1, <1>2, <1>3, <1>4

-----------------------------------------------------------------------------
(* The searches of a day *)

\* A step that stores no search and lets nobody ask keeps the bound.
LEMMA BoundKept ==
  ASSUME TypeOK, SearchesBounded, UNCHANGED searches,
         \A t \in 0 .. MaxTime : UnderWay(t)' \subseteq UnderWay(t)
  PROVE  SearchesBounded'
<1> SUFFICES ASSUME NEW t \in 0 .. MaxTime
             PROVE  Cardinality(StoredIn(t)') + Cardinality(UnderWay(t)')
                      <= DayLimit + Cardinality(Callers) - 1
  BY DEF SearchesBounded, StoredIn, UnderWay
<1>1. StoredIn(t)' = StoredIn(t)
  BY DEF StoredIn
<1>2. t \in Int
  BY NumbersAssumption
<1>3. UnderWay(t)' \subseteq UnderWay(t)
  OBVIOUS
<1>4. /\ Cardinality(UnderWay(t)') \in Nat
      /\ Cardinality(UnderWay(t)') <= Cardinality(UnderWay(t))
  BY <1>2, <1>3, CountsAreFinite, FS_Subset, FS_CardinalityType
<1>5. Cardinality(StoredIn(t)) + Cardinality(UnderWay(t))
        <= DayLimit + Cardinality(Callers) - 1
  BY DEF SearchesBounded
<1>6. /\ Cardinality(StoredIn(t)) \in Nat /\ Cardinality(UnderWay(t)) \in Nat
      /\ Cardinality(Callers) \in Nat
  BY <1>2, CountsAreFinite
<1> QED
  BY <1>1, <1>4, <1>5, <1>6, NumbersAssumption

\* Fewer than the limit are stored when a caller is let ask, and at most all
\* callers have asked.
LEMMA AskingKeepsBound ==
  ASSUME TypeOK, SearchesBounded, UNCHANGED searches, Verified,
         NEW c \in Callers, NEW now \in 0 .. MaxTime,
         SearchAllowed(now), Become(c, Asking(now))
  PROVE  SearchesBounded'
<1> SUFFICES ASSUME NEW t \in 0 .. MaxTime
             PROVE  Cardinality(StoredIn(t)') + Cardinality(UnderWay(t)')
                      <= DayLimit + Cardinality(Callers) - 1
  BY DEF SearchesBounded, StoredIn, UnderWay
<1>1. StoredIn(t)' = StoredIn(t)
  BY DEF StoredIn
<1>2. t \in Int
  BY NumbersAssumption
<1>3. /\ Cardinality(StoredIn(t)) \in Nat /\ Cardinality(UnderWay(t)) \in Nat
      /\ Cardinality(Callers) \in Nat /\ IsFiniteSet(Callers)
  BY <1>2, CountsAreFinite
<1>4. Cardinality(StoredIn(t)) + Cardinality(UnderWay(t))
        <= DayLimit + Cardinality(Callers) - 1
  BY DEF SearchesBounded
<1>5. \A d \in Callers : call'[d] = IF d = c THEN Asking(now) ELSE call[d]
  BY DEF TypeOK, Become
<1>6. Asking(now).now = now
  BY AskingIsFine
<1>7. CASE now \in t .. t + Day
  <2> DEFINE recent == {i \in DOMAIN searches : searches[i].at >= now - Day}
  <2>1. \A i \in DOMAIN searches : searches[i].at \in Int
    <3>1. \A i \in DOMAIN searches : searches[i] \in Search
      BY DEF TypeOK
    <3> QED
      BY <3>1, NumbersAssumption DEF Search
  <2>2. StoredIn(t) \subseteq recent
    BY <1>7, <2>1, NumbersAssumption DEF StoredIn
  <2>3. IsFiniteSet(recent)
    <3>1. IsFiniteSet(DOMAIN searches)
      BY FS_Interval DEF TypeOK
    <3> QED
      BY <3>1, FS_Subset
  <2>4. Cardinality(recent) \in Nat /\ Cardinality(recent) < DayLimit
    BY <2>3, FS_CardinalityType DEF SearchAllowed
  <2>5. Cardinality(StoredIn(t)) <= Cardinality(recent)
    BY <2>2, <2>3, FS_Subset
  <2>6. UnderWay(t)' \subseteq Callers
    BY DEF UnderWay
  <2>7. /\ Cardinality(UnderWay(t)') \in Nat
        /\ Cardinality(UnderWay(t)') <= Cardinality(Callers)
    BY <1>3, <2>6, FS_Subset, FS_CardinalityType
  <2> HIDE DEF recent
  <2> QED
    BY <1>1, <1>3, <2>4, <2>5, <2>7, NumbersAssumption
<1>8. CASE now \notin t .. t + Day
  <2>1. UnderWay(t)' \subseteq UnderWay(t)
    BY <1>5, <1>6, <1>8 DEF UnderWay
  <2>2. /\ Cardinality(UnderWay(t)') \in Nat
        /\ Cardinality(UnderWay(t)') <= Cardinality(UnderWay(t))
    BY <1>2, <2>1, CountsAreFinite, FS_Subset, FS_CardinalityType
  <2> QED
    BY <1>1, <1>3, <1>4, <2>2, NumbersAssumption
<1> QED
  BY <1>7, <1>8

LEMMA MovingLeavesFewer ==
  ASSUME TypeOK, NEW c \in Callers, Moves(c)
  PROVE  \A t \in 0 .. MaxTime :
           UnderWay(t)' \subseteq UnderWay(t) /\ c \notin UnderWay(t)'
<1>1. PICK state \in Call : state.pc # "provider" /\ Become(c, state)
  BY DEF Moves
<1>2. \A d \in Callers : call'[d] = IF d = c THEN state ELSE call[d]
  BY <1>1 DEF TypeOK, Become
<1> QED
  BY <1>1, <1>2 DEF UnderWay

\* The answer's search takes the place of the caller that waited for it.
LEMMA StoringKeepsBound ==
  ASSUME TypeOK, SearchesBounded, NEW c \in Callers, call[c].pc = "provider",
         NEW row \in Search, row.at = call[c].now,
         searches' = Append(searches, row), Moves(c)
  PROVE  SearchesBounded'
<1> SUFFICES ASSUME NEW t \in 0 .. MaxTime
             PROVE  Cardinality(StoredIn(t)') + Cardinality(UnderWay(t)')
                      <= DayLimit + Cardinality(Callers) - 1
  BY DEF SearchesBounded, StoredIn, UnderWay
<1>1. t \in Int
  BY NumbersAssumption
<1>2. /\ Cardinality(StoredIn(t)) \in Nat /\ Cardinality(UnderWay(t)) \in Nat
      /\ Cardinality(Callers) \in Nat
      /\ IsFiniteSet(StoredIn(t)) /\ IsFiniteSet(UnderWay(t))
  BY <1>1, CountsAreFinite
<1>3. Cardinality(StoredIn(t)) + Cardinality(UnderWay(t))
        <= DayLimit + Cardinality(Callers) - 1
  BY DEF SearchesBounded
<1>4. UnderWay(t)' \subseteq UnderWay(t) /\ c \notin UnderWay(t)'
  BY MovingLeavesFewer
<1>5. /\ DOMAIN searches = 1 .. Len(searches) /\ Len(searches) \in Nat
      /\ DOMAIN searches' = 1 .. Len(searches) + 1
      /\ \A i \in 1 .. Len(searches) : searches'[i] = searches[i]
      /\ searches'[Len(searches) + 1] = row
  BY Appended DEF TypeOK
<1>6. CASE row.at \in t .. t + Day
  <2>1. StoredIn(t)' = StoredIn(t) \cup {Len(searches) + 1}
    BY <1>5, <1>6 DEF StoredIn
  <2>2. Cardinality(StoredIn(t)') = Cardinality(StoredIn(t)) \/
        Cardinality(StoredIn(t)') = Cardinality(StoredIn(t)) + 1
    BY <1>2, <2>1, FS_AddElement
  <2>3. c \in UnderWay(t)
    BY <1>6 DEF UnderWay
  <2>4. UnderWay(t)' \subseteq UnderWay(t) \ {c}
    BY <1>4
  <2>5. /\ IsFiniteSet(UnderWay(t) \ {c})
        /\ Cardinality(UnderWay(t) \ {c}) = Cardinality(UnderWay(t)) - 1
    BY <1>2, <2>3, FS_RemoveElement
  <2>6. /\ Cardinality(UnderWay(t)') \in Nat
        /\ Cardinality(UnderWay(t)') <= Cardinality(UnderWay(t)) - 1
    BY <2>4, <2>5, FS_Subset, FS_CardinalityType
  <2> QED
    BY <1>2, <1>3, <2>2, <2>6, NumbersAssumption
<1>7. CASE row.at \notin t .. t + Day
  <2>1. StoredIn(t)' = StoredIn(t)
    BY <1>5, <1>7 DEF StoredIn
  <2>2. /\ Cardinality(UnderWay(t)') \in Nat
        /\ Cardinality(UnderWay(t)') <= Cardinality(UnderWay(t))
    BY <1>2, <1>4, FS_Subset, FS_CardinalityType
  <2> QED
    BY <1>2, <1>3, <2>1, <2>2, NumbersAssumption
<1> QED
  BY <1>6, <1>7

-----------------------------------------------------------------------------
(* The steps that write rows *)

Rows ==
  /\ SearchesFollowReceipts /\ EventsAnswerTheirPages
  /\ JobsNameOneRecord /\ ConfirmationsAreWhole

LEMMA RowsUnchanged ==
  ASSUME Rows, rowsUnchanged
  PROVE  Rows'
BY DEF Rows, rowsUnchanged, SearchesFollowReceipts, EventsAnswerTheirPages,
       JobsNameOneRecord, ConfirmationsAreWhole

\* A later receipt leaves those that searches, jobs and callers point to.
LEMMA ReverifyKeeps ==
  ASSUME IInv, NEW ok \in BOOLEAN, Reverify(ok)
  PROVE  IInv'
<1> USE DEF IInv
<1> DEFINE receipt == [ok |-> ok, source |-> source]
<1>1. receipt \in Receipt /\ receipts' = Append(receipts, receipt)
  BY DEF Reverify, TypeOK, Receipt
<1> HIDE DEF receipt
<1>2. UNCHANGED <<clock, source, archived, searches, events, jobs, call>>
  BY DEF Reverify, firmUnchanged
<1>3. /\ receipts' \in Seq(Receipt)
      /\ \A i \in DOMAIN receipts : i \in DOMAIN receipts' /\ receipts'[i] = receipts[i]
  <2>1. receipts \in Seq(Receipt)
    BY DEF TypeOK
  <2> QED
    BY <1>1, <2>1, Appended
<1>4. TypeOK'
  BY <1>2, <1>3 DEF TypeOK
<1>5. CallsAgree'
  BY <1>2, <1>3 DEF CallsAgree, Agrees
<1>6. SearchesBounded'
  BY <1>2, BoundKept DEF UnderWay
<1>7. SearchesFollowReceipts'
  BY <1>2, <1>3 DEF SearchesFollowReceipts
<1>8. JobsNameOneRecord'
  BY <1>2, <1>3 DEF JobsNameOneRecord
<1>9. EventsAnswerTheirPages' /\ ConfirmationsAreWhole'
  BY <1>2 DEF EventsAnswerTheirPages, ConfirmationsAreWhole
<1> QED
  BY <1>4, <1>5, <1>6, <1>7, <1>8, <1>9

\* The steps of one caller that write nothing.
LEMMA MoveKeeps ==
  ASSUME IInv, NEW c \in Callers, Moves(c), rowsUnchanged, firmUnchanged
  PROVE  IInv'
<1> USE DEF IInv
<1>1. UNCHANGED <<clock, source, archived, receipts, searches, events, jobs>>
  BY DEF rowsUnchanged, firmUnchanged
<1>2. PICK state \in Call : Agrees(state) /\ Become(c, state)
  BY DEF Moves
<1>3. call' \in [Callers -> Call] /\ CallsAgree'
  BY <1>1, <1>2, CallsReplaced
<1>4. TypeOK'
  BY <1>1, <1>3 DEF TypeOK
<1>5. SearchesBounded'
  BY <1>1, BoundKept, MovingLeavesFewer
<1>6. Rows'
  BY RowsUnchanged DEF Rows
<1> QED
  BY <1>3, <1>4, <1>5, <1>6 DEF Rows

LEMMA DiscoverKeeps ==
  ASSUME IInv, NEW c \in Callers, Discover(c)
  PROVE  IInv'
<1> USE DEF IInv
<1>1. rowsUnchanged /\ firmUnchanged
  BY DEF Discover
<1>2. CASE Moves(c)
  BY <1>1, <1>2, MoveKeeps
<1>3. ASSUME NEW now \in 0 .. MaxTime, SearchAllowed(now), Become(c, Asking(now))
      PROVE  IInv'
  <2>1. Verified
    BY DiscoverCases
  <2>2. Asking(now) \in Call /\ Agrees(Asking(now))
    BY <2>1, AskingIsFine
  <2>3. UNCHANGED <<clock, source, archived, receipts, searches, events, jobs>>
    BY <1>1 DEF rowsUnchanged, firmUnchanged
  <2>4. call' \in [Callers -> Call] /\ CallsAgree'
    BY <1>3, <2>2, <2>3, CallsReplaced
  <2>5. TypeOK'
    BY <2>3, <2>4 DEF TypeOK
  <2>6. SearchesBounded'
    BY <1>3, <2>1, <2>3, AskingKeepsBound
  <2>7. Rows'
    BY <1>1, RowsUnchanged DEF Rows
  <2> QED
    BY <2>4, <2>5, <2>6, <2>7 DEF Rows
<1> QED
  BY <1>2, <1>3, DiscoverCases

LEMMA StoreSearchKeeps ==
  ASSUME IInv, NEW c \in Callers, StoreSearch(c)
  PROVE  IInv'
<1> USE DEF IInv
<1>1. PICK candidates \in Plausible :
        /\ searches' = Append(searches,
             [source |-> call[c].read.source, receipt |-> call[c].read.receipt,
              at |-> call[c].now, candidates |-> candidates])
        /\ Found(c, candidates)
  BY DEF StoreSearch
<1> DEFINE row == [source |-> call[c].read.source, receipt |-> call[c].read.receipt,
                   at |-> call[c].now, candidates |-> candidates]
<1>2. UNCHANGED <<clock, source, archived, receipts, events, jobs>>
  BY DEF StoreSearch, firmUnchanged
<1>3. call[c].pc = "provider" /\ call[c].read.receipt = Len(receipts)
  BY DEF StoreSearch, At, IdentityAsRead
<1>4. /\ call[c].read \in Read /\ call[c].read.receipt \in DOMAIN receipts
      /\ receipts[call[c].read.receipt] = [ok |-> TRUE, source |-> call[c].read.source]
  BY <1>3 DEF CallsAgree, Agrees
<1>5. call[c].now \in 0 .. MaxTime
  BY DEF TypeOK, Call
<1>6. row \in Search
  BY <1>4, <1>5 DEF Read, Search, Plausible
<1>7. /\ row.receipt = Len(receipts) /\ row.at = call[c].now
      /\ row.receipt \in DOMAIN receipts
      /\ receipts[row.receipt] = [ok |-> TRUE, source |-> row.source]
  BY <1>3, <1>4
<1>8. searches' = Append(searches, row)
  BY <1>1
<1> HIDE DEF row
<1>9. /\ searches' \in Seq(Search)
      /\ DOMAIN searches = 1 .. Len(searches) /\ Len(searches) \in Nat
      /\ DOMAIN searches' = 1 .. Len(searches) + 1
      /\ \A i \in 1 .. Len(searches) : searches'[i] = searches[i]
      /\ searches'[Len(searches) + 1] = row
  BY <1>6, <1>8, Appended DEF TypeOK
<1>10. candidates \in SUBSET Sites
  BY <1>1 DEF Plausible
<1>11. Moves(c)
  BY <1>1, <1>10, FoundMoves
<1>12. call' \in [Callers -> Call] /\ CallsAgree'
  BY <1>2, <1>11, CallsReplaced DEF Moves
<1>13. TypeOK'
  BY <1>2, <1>9, <1>12 DEF TypeOK
<1>14. SearchesBounded'
  BY <1>3, <1>6, <1>7, <1>8, <1>11, StoringKeepsBound
<1>15. SearchesFollowReceipts'
  <2>1. Len(receipts) \in Nat /\ DOMAIN receipts = 1 .. Len(receipts)
    BY DEF TypeOK
  <2>2. \A i \in DOMAIN searches :
          searches[i].receipt \in Nat /\ searches[i].receipt <= Len(receipts)
    <3>1. \A i \in DOMAIN searches : searches[i].receipt \in DOMAIN receipts
      BY DEF SearchesFollowReceipts
    <3> QED
      BY <2>1, <3>1
  <2>3. \A i, j \in DOMAIN searches' :
          i <= j => searches'[i].receipt <= searches'[j].receipt
    BY <1>7, <1>9, <2>1, <2>2 DEF SearchesFollowReceipts
  <2>4. \A i \in DOMAIN searches' :
          /\ searches'[i].receipt \in DOMAIN receipts
          /\ receipts[searches'[i].receipt] = [ok |-> TRUE, source |-> searches'[i].source]
    <3>1. \A i \in DOMAIN searches' : i \in DOMAIN searches \/ searches'[i] = row
      BY <1>9
    <3> QED
      BY <1>7, <1>9, <3>1 DEF SearchesFollowReceipts
  <2> QED
    BY <1>2, <2>3, <2>4 DEF SearchesFollowReceipts
<1>16. EventsAnswerTheirPages' /\ JobsNameOneRecord' /\ ConfirmationsAreWhole'
  BY <1>2 DEF EventsAnswerTheirPages, JobsNameOneRecord, ConfirmationsAreWhole
<1> QED
  BY <1>12, <1>13, <1>14, <1>15, <1>16

\* The event a form becomes, in view of all those before it.
EventOf(c) ==
  [action |-> call[c].form.action, site |-> call[c].form.site,
   confirmed |-> call[c].form.confirmed, source |-> source,
   previous |-> call[c].seen]

LEMMA EventRecorded ==
  ASSUME TypeOK, CallsAgree, NEW c \in Callers, Recordable(c), NewEvent(c)
  PROVE  /\ call[c].form \in Form /\ EventOf(c) \in Event
         /\ EventOf(c).previous = Len(events[call[c].form.kind])
         /\ events' \in [Kinds -> Seq(Event)]
         /\ \A k \in Kinds :
              events'[k] = IF k = call[c].form.kind THEN Append(events[k], EventOf(c))
                                                  ELSE events[k]
<1>1. call[c].pc = "record" /\ call[c].seen = Len(events[call[c].form.kind])
  BY DEF Recordable, At, FormIsCurrent
<1>2. call[c].form \in Form
  BY <1>1 DEF CallsAgree, Agrees
<1>3. call[c].seen \in Nat /\ source \in Sources
  BY DEF TypeOK, Call
<1>4. EventOf(c) \in Event /\ EventOf(c).previous = call[c].seen
  BY <1>2, <1>3 DEF EventOf, Event, Form
<1>5. call[c].form.kind \in Kinds
  BY <1>2 DEF Form
<1>6. events' = [events EXCEPT ![call[c].form.kind] = Append(@, EventOf(c))]
  BY DEF NewEvent, EventOf
<1>7. events \in [Kinds -> Seq(Event)]
  BY DEF TypeOK
<1>8. \A k \in Kinds : events[k] \in Seq(Event) /\ Append(events[k], EventOf(c)) \in Seq(Event)
  BY <1>4, <1>7, Appended
<1> HIDE DEF EventOf
<1> QED
  BY <1>1, <1>2, <1>4, <1>5, <1>6, <1>7, <1>8

LEMMA PagesStayAnswered ==
  ASSUME TypeOK, CallsAgree, EventsAnswerTheirPages,
         NEW c \in Callers, Recordable(c), NewEvent(c)
  PROVE  EventsAnswerTheirPages'
<1> SUFFICES ASSUME NEW k \in Kinds, NEW i \in DOMAIN events'[k]
             PROVE  events'[k][i].previous = i - 1
  BY DEF EventsAnswerTheirPages
<1>1. CASE k # call[c].form.kind
  BY <1>1, EventRecorded DEF EventsAnswerTheirPages
<1>2. CASE k = call[c].form.kind
  <2>1. events[k] \in Seq(Event)
    BY DEF TypeOK
  <2>2. /\ EventOf(c) \in Event /\ EventOf(c).previous = Len(events[k])
        /\ events'[k] = Append(events[k], EventOf(c))
    BY <1>2, EventRecorded
  <2>3. /\ DOMAIN events[k] = 1 .. Len(events[k])
        /\ DOMAIN events'[k] = 1 .. Len(events[k]) + 1
        /\ \A j \in 1 .. Len(events[k]) : events'[k][j] = events[k][j]
        /\ events'[k][Len(events[k]) + 1] = EventOf(c)
    BY <2>1, <2>2, Appended
  <2>4. Len(events[k]) \in Nat
    BY <2>1
  <2>5. CASE i \in DOMAIN events[k]
    BY <2>3, <2>5 DEF EventsAnswerTheirPages
  <2>6. CASE i = Len(events[k]) + 1
    BY <2>2, <2>3, <2>4, <2>6
  <2> QED
    BY <2>3, <2>4, <2>5, <2>6
<1> QED
  BY <1>1, <1>2

\* What the events about the website become.
LEMMA WebsiteEventRecorded ==
  ASSUME TypeOK, CallsAgree, NEW c \in Callers, Recordable(c), NewEvent(c)
  PROVE  /\ Len(events["website"]) \in Nat
         /\ DOMAIN events["website"] = 1 .. Len(events["website"])
         /\ \A i \in DOMAIN events["website"] :
              /\ i \in DOMAIN events'["website"]
              /\ events'["website"][i] = events["website"][i]
         /\ \A i \in DOMAIN events'["website"] :
              \/ i \in DOMAIN events["website"]
              \/ /\ i = Len(events["website"]) + 1
                 /\ events'["website"][i] = EventOf(c)
         /\ call[c].form.confirmed =>
              /\ Len(events["website"]) + 1 \in DOMAIN events'["website"]
              /\ events'["website"][Len(events["website"]) + 1] = EventOf(c)
              /\ EventOf(c).action = "assert" /\ EventOf(c).source = source
<1>1. "website" \in Kinds
  BY DEF Kinds
<1>2. events["website"] \in Seq(Event)
  BY <1>1 DEF TypeOK
<1>3. EventOf(c) \in Event
  BY EventRecorded
<1>4. call[c].form.confirmed => call[c].form.kind = "website" /\ call[c].form.action = "assert"
  BY DEF CallsAgree, Agrees, Recordable, At
<1>5. EventOf(c).action = call[c].form.action /\ EventOf(c).source = source
  BY DEF EventOf
<1>6. CASE call[c].form.kind = "website"
  <2>1. events'["website"] = Append(events["website"], EventOf(c))
    BY <1>1, <1>6, EventRecorded
  <2>2. /\ Len(events["website"]) \in Nat
        /\ DOMAIN events["website"] = 1 .. Len(events["website"])
        /\ DOMAIN events'["website"] = 1 .. Len(events["website"]) + 1
        /\ \A j \in 1 .. Len(events["website"]) : events'["website"][j] = events["website"][j]
        /\ events'["website"][Len(events["website"]) + 1] = EventOf(c)
    BY <1>2, <1>3, <2>1, Appended
  <2> QED
    BY <1>4, <1>5, <2>2
<1>7. CASE call[c].form.kind # "website"
  <2>1. events'["website"] = events["website"] /\ ~call[c].form.confirmed
    BY <1>1, <1>4, <1>7, EventRecorded
  <2>2. Len(events["website"]) \in Nat /\ DOMAIN events["website"] = 1 .. Len(events["website"])
    BY <1>2
  <2> QED
    BY <2>1, <2>2
<1> QED
  BY <1>6, <1>7

\* What both ways of recording evidence leave alone.
LEMMA RecordingKeeps ==
  ASSUME IInv, NEW c \in Callers, Recordable(c), NewEvent(c), Become(c, Idle),
         firmUnchanged, UNCHANGED <<receipts, searches>>, jobs' \subseteq Job
  PROVE  /\ TypeOK' /\ CallsAgree' /\ SearchesBounded' /\ SearchesFollowReceipts'
         /\ EventsAnswerTheirPages'
<1> USE DEF IInv
<1>1. UNCHANGED <<clock, source, archived, receipts, searches>>
  BY DEF firmUnchanged
<1>2. call' \in [Callers -> Call] /\ CallsAgree'
  BY <1>1, IdleIsFine, CallsReplaced
<1>3. TypeOK'
  BY <1>1, <1>2, EventRecorded DEF TypeOK
<1>4. SearchesBounded'
  BY <1>1, ReturnsMove, MovingLeavesFewer, BoundKept
<1>5. SearchesFollowReceipts'
  BY <1>1 DEF SearchesFollowReceipts
<1>6. EventsAnswerTheirPages'
  BY PagesStayAnswered
<1> QED
  BY <1>2, <1>3, <1>4, <1>5, <1>6

LEMMA RecordEvidenceKeeps ==
  ASSUME IInv, NEW c \in Callers, RecordEvidence(c)
  PROVE  IInv'
<1> USE DEF IInv
<1>1. /\ Recordable(c) /\ NewEvent(c) /\ Become(c, Idle) /\ ~call[c].form.confirmed
      /\ firmUnchanged /\ UNCHANGED <<receipts, searches, jobs>>
  BY DEF RecordEvidence
<1>2. jobs \subseteq Job
  BY DEF TypeOK
<1>3. /\ TypeOK' /\ CallsAgree' /\ SearchesBounded' /\ SearchesFollowReceipts'
      /\ EventsAnswerTheirPages'
  BY <1>1, <1>2, RecordingKeeps
<1>4. JobsNameOneRecord'
  BY <1>1, WebsiteEventRecorded DEF JobsNameOneRecord
<1>5. EventOf(c).confirmed = call[c].form.confirmed
  BY DEF EventOf
<1>6. ConfirmationsAreWhole'
  BY <1>1, <1>5, WebsiteEventRecorded DEF ConfirmationsAreWhole
<1> QED
  BY <1>3, <1>4, <1>6

\* A job made when the firm is verified names one record with its event.
LEMMA JobFits ==
  ASSUME TypeOK, Verified, NEW event \in Nat
  PROVE  /\ JobOf(event) \in Job /\ JobOf(event).event = event
         /\ JobOf(event).source = source /\ JobOf(event).receipt \in DOMAIN receipts
         /\ receipts[JobOf(event).receipt] = [ok |-> TRUE, source |-> source]
BY DEF TypeOK, Verified, JobOf, Job

LEMMA ConfirmKeeps ==
  ASSUME IInv, NEW c \in Callers, Confirm(c)
  PROVE  IInv'
<1> USE DEF IInv
<1> DEFINE new == Len(events["website"]) + 1
<1>1. /\ Recordable(c) /\ NewEvent(c) /\ Become(c, Idle) /\ call[c].form.confirmed
      /\ Verified /\ jobs' = jobs \cup {JobOf(new)}
      /\ firmUnchanged /\ UNCHANGED <<receipts, searches>>
  BY DEF Confirm
<1>2. new \in Nat
  BY <1>1, WebsiteEventRecorded
<1>3. /\ JobOf(new) \in Job /\ JobOf(new).event = new
      /\ JobOf(new).source = source /\ JobOf(new).receipt \in DOMAIN receipts
      /\ receipts[JobOf(new).receipt] = [ok |-> TRUE, source |-> source]
  BY <1>1, <1>2, JobFits
<1>4. jobs' \subseteq Job
  BY <1>1, <1>3 DEF TypeOK
<1>5. /\ TypeOK' /\ CallsAgree' /\ SearchesBounded' /\ SearchesFollowReceipts'
      /\ EventsAnswerTheirPages'
  BY <1>1, <1>4, RecordingKeeps
<1>6. JobsNameOneRecord'
  <2> SUFFICES ASSUME NEW j \in jobs'
               PROVE  /\ j.event \in DOMAIN events'["website"] /\ j.receipt \in DOMAIN receipts
                      /\ events'["website"][j.event].action = "assert"
                      /\ events'["website"][j.event].source = j.source
                      /\ receipts[j.receipt] = [ok |-> TRUE, source |-> j.source]
    BY <1>1 DEF JobsNameOneRecord
  <2>1. CASE j \in jobs
    BY <1>1, <2>1, WebsiteEventRecorded DEF JobsNameOneRecord
  <2>2. CASE j = JobOf(new)
    <3>1. /\ new \in DOMAIN events'["website"]
          /\ events'["website"][new].action = "assert"
          /\ events'["website"][new].source = source
      BY <1>1, WebsiteEventRecorded
    <3> HIDE DEF new
    <3> QED
      BY <1>3, <2>2, <3>1
  <2> QED
    BY <1>1, <2>1, <2>2
<1>7. ConfirmationsAreWhole'
  <2>1. jobs \subseteq jobs' /\ JobOf(new) \in jobs'
    BY <1>1
  <2>2. \A i \in DOMAIN events'["website"] : i \in DOMAIN events["website"] \/ i = new
    BY <1>1, WebsiteEventRecorded
  <2>3. \A i \in DOMAIN events["website"] : events'["website"][i] = events["website"][i]
    BY <1>1, WebsiteEventRecorded
  <2>4. JobOf(new).event = new
    BY <1>3
  <2> HIDE DEF new
  <2>5. \A i \in DOMAIN events["website"] :
          events'["website"][i].confirmed => \E j \in jobs' : j.event = i
    BY <2>1, <2>3 DEF ConfirmationsAreWhole
  <2> QED
    BY <2>1, <2>2, <2>4, <2>5 DEF ConfirmationsAreWhole
<1> QED
  BY <1>5, <1>6, <1>7

LEMMA RequestKeeps ==
  ASSUME IInv, NEW o \in Operators, RequestReprocessing(o)
  PROVE  IInv'
<1> USE DEF IInv
<1> DEFINE last == Len(events["website"])
<1>1. /\ Asserted /\ Verified /\ jobs' = jobs \cup {JobOf(last)}
      /\ UNCHANGED <<clock, source, archived, receipts, searches, events, call>>
  BY DEF RequestReprocessing, firmUnchanged
<1>2. events["website"] \in Seq(Event)
  BY DEF TypeOK, Kinds
<1>3. /\ last \in DOMAIN events["website"] /\ last \in Nat
      /\ events["website"][last].action = "assert"
      /\ events["website"][last].source = source
  BY <1>1, <1>2 DEF Asserted, LatestAssertion
<1>4. /\ JobOf(last) \in Job /\ JobOf(last).event = last
      /\ JobOf(last).source = source /\ JobOf(last).receipt \in DOMAIN receipts
      /\ receipts[JobOf(last).receipt] = [ok |-> TRUE, source |-> source]
  BY <1>1, <1>3, JobFits
<1> HIDE DEF last
<1>5. TypeOK'
  BY <1>1, <1>4 DEF TypeOK
<1>6. CallsAgree' /\ SearchesFollowReceipts' /\ EventsAnswerTheirPages'
  BY <1>1 DEF CallsAgree, Agrees, SearchesFollowReceipts, EventsAnswerTheirPages
<1>7. SearchesBounded'
  BY <1>1, BoundKept DEF UnderWay
<1>8. JobsNameOneRecord'
  BY <1>1, <1>3, <1>4 DEF JobsNameOneRecord
<1>9. ConfirmationsAreWhole'
  BY <1>1 DEF ConfirmationsAreWhole
<1> QED
  BY <1>5, <1>6, <1>7, <1>8, <1>9

-----------------------------------------------------------------------------
(* The invariant *)

LEMMA InitIInv == Init => IInv
<1> SUFFICES ASSUME Init PROVE IInv
  OBVIOUS
<1>1. /\ clock = 0 /\ source \in Sources /\ archived = FALSE
      /\ receipts = <<>> /\ searches = <<>> /\ jobs = {}
      /\ events = [k \in Kinds |-> <<>>] /\ call = [c \in Callers |-> Idle]
  BY DEF Init
<1>2. TypeOK
  <2>1. receipts \in Seq(Receipt) /\ searches \in Seq(Search)
    BY <1>1
  <2>2. events \in [Kinds -> Seq(Event)]
    BY <1>1
  <2>3. call \in [Callers -> Call]
    BY <1>1, IdleIsFine
  <2>4. clock \in 0 .. MaxTime
    BY <1>1, NumbersAssumption
  <2>5. source \in Sources /\ archived \in BOOLEAN /\ jobs \subseteq Job
    BY <1>1
  <2> QED
    BY <2>1, <2>2, <2>3, <2>4, <2>5 DEF TypeOK
<1>3. CallsAgree
  BY <1>1, IdleIsFine DEF CallsAgree
<1>4. DOMAIN searches = {} /\ \A k \in Kinds : DOMAIN events[k] = {}
  BY <1>1
<1>5. SearchesBounded
  <2> SUFFICES ASSUME NEW t \in 0 .. MaxTime
               PROVE  Cardinality(StoredIn(t)) + Cardinality(UnderWay(t))
                        <= DayLimit + Cardinality(Callers) - 1
    BY DEF SearchesBounded
  <2>1. StoredIn(t) = {}
    BY <1>4 DEF StoredIn
  <2>2. UnderWay(t) = {}
    BY <1>1 DEF UnderWay, Idle
  <2>3. Cardinality(StoredIn(t)) = 0 /\ Cardinality(UnderWay(t)) = 0
    BY <2>1, <2>2, FS_EmptySet
  <2>4. Cardinality(Callers) \in Nat /\ Cardinality(Callers) >= 1
    BY <1>2, CountsAreFinite
  <2> QED
    BY <2>3, <2>4, NumbersAssumption
<1>6. SearchesFollowReceipts /\ EventsAnswerTheirPages
  BY <1>4 DEF SearchesFollowReceipts, EventsAnswerTheirPages
<1>7. JobsNameOneRecord /\ ConfirmationsAreWhole
  BY <1>1, <1>4 DEF JobsNameOneRecord, ConfirmationsAreWhole, Kinds
<1> QED
  BY <1>2, <1>3, <1>5, <1>6, <1>7 DEF IInv

\* The steps of the firm and of the clock change nothing the invariant relates.
LEMMA OutsideKeeps ==
  ASSUME IInv, rowsUnchanged, UNCHANGED call, clock' \in 0 .. MaxTime,
         source' \in Sources, archived' \in BOOLEAN
  PROVE  IInv'
<1> USE DEF IInv
<1>1. UNCHANGED <<receipts, searches, events, jobs, call>>
  BY DEF rowsUnchanged
<1>2. TypeOK'
  BY <1>1 DEF TypeOK
<1>3. CallsAgree'
  BY <1>1 DEF CallsAgree, Agrees
<1>4. SearchesBounded'
  BY <1>1, BoundKept DEF UnderWay
<1>5. Rows'
  BY RowsUnchanged DEF Rows
<1> QED
  BY <1>2, <1>3, <1>4, <1>5 DEF Rows

LEMMA NextIInv == IInv /\ [Next]_vars => IInv'
<1> SUFFICES ASSUME IInv, [Next]_vars PROVE IInv'
  OBVIOUS
<1>1. CASE UNCHANGED vars
  BY <1>1, OutsideKeeps DEF vars, rowsUnchanged, IInv, TypeOK
<1>2. CASE Tick
  <2>1. clock' \in 0 .. MaxTime
    BY <1>2, NumbersAssumption DEF Tick, IInv, TypeOK
  <2> QED
    BY <1>2, <2>1, OutsideKeeps DEF Tick, IInv, TypeOK
<1>3. CASE ArchiveOrRestore
  BY <1>3, OutsideKeeps DEF ArchiveOrRestore, IInv, TypeOK
<1>4. CASE TakeJob
  BY <1>4, TakeJobMoves, MoveKeeps DEF TakeJob, Callers, IInv
<1>5. ASSUME NEW s \in Sources, Import(s) PROVE IInv'
  BY <1>5, OutsideKeeps DEF Import, IInv, TypeOK
<1>6. ASSUME NEW ok \in BOOLEAN, Reverify(ok) PROVE IInv'
  BY <1>6, ReverifyKeeps
<1>7. ASSUME NEW c \in Callers,
             Discover(c) \/ StoreSearch(c) \/ RecordEvidence(c) \/ Confirm(c) \/ GiveUp(c)
      PROVE  IInv'
  <2>1. CASE Discover(c)
    BY <2>1, DiscoverKeeps
  <2>2. CASE StoreSearch(c)
    BY <2>2, StoreSearchKeeps
  <2>3. CASE RecordEvidence(c)
    BY <2>3, RecordEvidenceKeeps
  <2>4. CASE Confirm(c)
    BY <2>4, ConfirmKeeps
  <2>5. CASE GiveUp(c)
    BY <2>5, ReturnsMove, MoveKeeps DEF GiveUp
  <2> QED
    BY <1>7, <2>1, <2>2, <2>3, <2>4, <2>5
<1>8. ASSUME NEW o \in Operators, RequestReprocessing(o) PROVE IInv'
  BY <1>8, RequestKeeps
<1>9. ASSUME NEW o \in Operators, NEW kind \in Kinds, NEW n \in 0 .. Len(events[kind]),
             \/ kind = "website" /\ ConfirmCandidate(o, n)
             \/ \E action \in {"assert", "withdraw"}, site \in Sites \cup {None},
                  confirmed \in BOOLEAN : Submit(o, kind, n, action, site, confirmed)
      PROVE  IInv'
  <2>1. n \in Nat /\ o \in Callers
    BY DEF IInv, TypeOK, Callers
  <2>2. CASE ConfirmCandidate(o, n)
    <3>1. searches # <<>> /\ searches \in Seq(Search)
      BY <2>2 DEF ConfirmCandidate, IInv, TypeOK
    <3>2. searches[Len(searches)] \in Search
      BY <3>1
    <3>3. searches[Len(searches)].candidates \in SUBSET Sites
      BY <3>2 DEF Search
    <3>4. Moves(o)
      BY <2>1, <2>2, <3>3, ConfirmingMoves DEF ConfirmCandidate
    <3> QED
      BY <2>1, <2>2, <3>4, MoveKeeps DEF ConfirmCandidate
  <2>3. ASSUME NEW action \in {"assert", "withdraw"}, NEW site \in Sites \cup {None},
               NEW confirmed \in BOOLEAN, Submit(o, kind, n, action, site, confirmed)
        PROVE  IInv'
    <3>1. Moves(o)
      BY <2>1, <2>3, SubmitMoves
    <3> QED
      BY <2>1, <2>3, <3>1, MoveKeeps DEF Submit
  <2> QED
    BY <1>9, <2>2, <2>3
<1> QED
  BY <1>1, <1>2, <1>3, <1>4, <1>5, <1>6, <1>7, <1>8, <1>9 DEF Next

\* The invariant holds throughout, whatever the callers' order.
THEOREM Inductive == Spec => []IInv
BY InitIInv, NextIInv, PTL DEF Spec

\* The rows of website_candidates.py, website_research.py and contact_research.py
\* and what their callers remember have their types.
THEOREM TypeCorrect == Spec => []TypeOK
<1>1. IInv => TypeOK
  BY DEF IInv
<1> QED
  BY <1>1, Inductive, PTL

\* discover_website_candidates counts before it asks and stores afterwards: any
\* day holds at most the limit and one search for each other caller.
THEOREM SearchLimit == Spec => []SearchesPerDay
<1>1. IInv => SearchesPerDay
  <2> SUFFICES ASSUME IInv, NEW t \in 0 .. MaxTime
               PROVE  Cardinality({i \in DOMAIN searches : searches[i].at \in t .. t + Day})
                        <= DayLimit + Cardinality(Callers) - 1
    BY DEF SearchesPerDay
  <2>1. Cardinality(StoredIn(t)) + Cardinality(UnderWay(t))
          <= DayLimit + Cardinality(Callers) - 1
    BY DEF IInv, SearchesBounded
  <2>2. t \in Int
    BY NumbersAssumption
  <2>3. /\ Cardinality(StoredIn(t)) \in Nat /\ Cardinality(UnderWay(t)) \in Nat
        /\ Cardinality(Callers) \in Nat
    BY <2>2, CountsAreFinite DEF IInv
  <2>4. Cardinality(StoredIn(t)) <= DayLimit + Cardinality(Callers) - 1
    BY <2>1, <2>3, NumbersAssumption
  <2> QED
    BY <2>4 DEF StoredIn
<1> QED
  BY <1>1, Inductive, PTL

\* The identity is compared again when the answer is stored, so searches are in
\* the order of the receipts they were made for, each a success for its record.
THEOREM SearchOrder == Spec => []SearchesFollowReceipts
<1>1. IInv => SearchesFollowReceipts
  BY DEF IInv
<1> QED
  BY <1>1, Inductive, PTL

\* No form made for an outdated page becomes an event of record_website_evidence
\* or of record_contact_evidence.
THEOREM PagesAnswered == Spec => []EventsAnswerTheirPages
<1>1. IInv => EventsAnswerTheirPages
  BY DEF IInv
<1> QED
  BY <1>1, Inductive, PTL

\* Every job of enqueue_website_reprocessing names one record by its website and
\* by its receipt.
THEOREM JobsSound == Spec => []JobsNameOneRecord
<1>1. IInv => JobsNameOneRecord
  BY DEF IInv
<1> QED
  BY <1>1, Inductive, PTL

\* confirm_website_and_enqueue leaves no confirmation without its job.
THEOREM ConfirmationsWhole == Spec => []ConfirmationsAreWhole
<1>1. IInv => ConfirmationsAreWhole
  BY DEF IInv
<1> QED
  BY <1>1, Inductive, PTL
=============================================================================
