------------------------ MODULE LoginThrottleProofs ------------------------
(***************************************************************************)
(* Machine-checked facts about LoginThrottle for every set of workers and  *)
(* tokens and every limit, window and lockout that LoginThrottle accepts,  *)
(* provided no request outlasts the window or the lockout.                 *)
(***************************************************************************)
EXTENDS LoginThrottle, FiniteSetTheorems, TLAPS

\* Between the instant a login reads and the clock there is at most the time of the
\* longest login, and it reads the clock again only after the password.
Instants ==
  \A w \in Workers :
    /\ login[w].now <= clock
    /\ ~At(w, "idle") => login[w].since <= login[w].now
                         /\ clock <= login[w].since + longest
    /\ At(w, "reserve") => login[w].now = login[w].since

\* No window starts in the future, no reservation expired a lockout before the
\* window it will be counted in, none before the login that is under way began.
Fresh ==
  /\ throttle # None => throttle.start <= clock
  /\ throttle # None =>
       \A t \in Reserved : throttle.start < expires[t] + Lockout
  /\ \A w \in Workers : (At(w, "verify") \/ At(w, "failure")) =>
       \A t \in Reserved : login[w].since <= expires[t]

IInv == TypeOK /\ LimitHolds /\ CheckHolds /\ Instants /\ Fresh

-----------------------------------------------------------------------------
(* Reservations and the failures they become *)

LEMMA ReservedFinite ==
  IsFiniteSet(Reserved) /\ Cardinality(Reserved) \in Nat
BY TokensAssumption, FS_Subset, FS_CardinalityType DEF Reserved

LEMMA DropReserved ==
  ASSUME TypeOK, NEW t \in Reserved, Drop(t)
  PROVE  /\ Reserved' = Reserved \ {t}
         /\ Cardinality(Reserved') = Cardinality(Reserved) - 1
         /\ \A u \in Reserved' : expires'[u] = expires[u]
         /\ expires' \in [Tokens -> Nat \cup {None}]
<1>1. Reserved' = Reserved \ {t}
  BY DEF Reserved, Drop, TypeOK
<1>2. Cardinality(Reserved \ {t}) = Cardinality(Reserved) - 1
  BY ReservedFinite, FS_RemoveElement
<1> QED
  BY <1>1, <1>2 DEF Reserved, Drop, TypeOK

\* A pending attempt leaves room for its failure, and the failure is dated so
\* that a new lock ends after the window it closes began.
LEMMA FailureCounted ==
  ASSUME TypeOK, LimitHolds, NEW t \in Reserved, Drop(t),
         NEW i \in Nat, PersistFailure(i),
         throttle # None => throttle.start < i + Lockout
  PROVE  /\ throttle' \in Throttle
         /\ LimitHolds'
         /\ CheckHolds'
         /\ throttle'.start = i \/ (throttle # None /\ throttle'.start = throttle.start)
<1> DEFINE n == CountAfter(i)
           s == IF WindowOver(i) THEN i ELSE throttle.start
<1>1. /\ throttle'.count = n /\ throttle'.start = s
      /\ throttle'.blocked = IF n >= MaxFailures THEN i + Lockout ELSE None
      /\ throttle' = [count |-> throttle'.count, start |-> throttle'.start,
                      blocked |-> throttle'.blocked]
  BY DEF PersistFailure
<1>2. Failures \in Nat /\ n \in Nat /\ n <= Failures + 1 /\ n >= 1
  BY LimitsAssumption DEF Failures, CountAfter, WindowOver, TypeOK, Throttle
<1>3. Cardinality(Reserved) \in Nat /\ Cardinality(Reserved') = Cardinality(Reserved) - 1
  BY ReservedFinite, DropReserved
<1>4. Cardinality(Reserved) >= 1
  BY <1>3, ReservedFinite, FS_RemoveElement, FS_CardinalityType, FS_EmptySet
<1>5. n <= MaxFailures /\ n + Cardinality(Reserved') <= MaxFailures
  BY <1>2, <1>3, <1>4, LimitsAssumption DEF LimitHolds
<1>6. s \in Nat /\ s < i + Lockout
  BY LimitsAssumption DEF WindowOver, TypeOK, Throttle
<1>7. throttle' \in Throttle /\ throttle' # None
  <2>1. throttle'.blocked \in Nat \cup {None}
    BY <1>1, LimitsAssumption
  <2>2. throttle' \in Throttle
    BY <1>1, <1>2, <1>5, <1>6, <2>1, LimitsAssumption DEF Throttle
  <2>3. throttle' # None
    BY <2>2, NoneAssumption
  <2> QED
    BY <2>2, <2>3
<1>8. Failures' = n
  BY <1>1, <1>7 DEF Failures
<1>9. LimitHolds'
  BY <1>1, <1>2, <1>5, <1>7, <1>8, NoneAssumption, LimitsAssumption DEF LimitHolds
<1>10. CheckHolds'
  BY <1>1, <1>6 DEF CheckHolds
<1> QED
  BY <1>1, <1>7, <1>9, <1>10 DEF WindowOver

\* Whatever a transaction leaves of the tables, LimitHolds and CheckHolds survive
\* when the row is deleted, kept or set back to zero.
LEMMA RowCleared ==
  ASSUME TypeOK, LimitHolds, CheckHolds, NEW now \in Nat,
         throttle' \in {throttle, None, [count |-> 0, start |-> now, blocked |-> None]},
         Reserved' \subseteq Reserved
  PROVE  throttle' \in Throttle \cup {None} /\ LimitHolds' /\ CheckHolds'
<1>1. Cardinality(Reserved') <= Cardinality(Reserved) /\ Cardinality(Reserved') \in Nat
  BY ReservedFinite, FS_Subset, FS_CardinalityType
<1>2. Failures' <= Failures /\ Failures' \in Nat /\ Failures \in Nat
  BY LimitsAssumption, NoneAssumption DEF Failures, TypeOK, Throttle
<1>3. throttle' \in Throttle \cup {None}
  BY LimitsAssumption DEF TypeOK, Throttle
<1>4. LimitHolds'
  BY <1>1, <1>2, ReservedFinite, LimitsAssumption, NoneAssumption DEF LimitHolds
<1>5. CheckHolds'
  BY NoneAssumption DEF CheckHolds
<1> QED
  BY <1>3, <1>4, <1>5

-----------------------------------------------------------------------------
(* Each action preserves the invariant *)

LEMMA InitIInv == Init => IInv
<1> SUFFICES ASSUME Init PROVE IInv
  OBVIOUS
<1>1. 0 \in Time
  BY LimitsAssumption DEF Time
<1>2. TypeOK
  BY <1>1, LimitsAssumption DEF Init, TypeOK, Login, Idle
<1>3. Reserved = {}
  BY DEF Init, Reserved
<1>4. Failures + Cardinality(Reserved) <= MaxFailures
  BY <1>3, FS_EmptySet, LimitsAssumption DEF Init, Failures
<1>5. LimitHolds /\ CheckHolds
  BY <1>4 DEF Init, LimitHolds, CheckHolds
<1>6. Instants /\ Fresh
  BY DEF Init, Instants, Fresh, Idle, At
<1> QED
  BY <1>2, <1>5, <1>6 DEF IInv

\* A login that respects the instants and the reservations there are.
Sound(l) ==
  /\ l \in Login
  /\ l.now <= clock
  /\ l.pc # "idle" => l.since <= l.now /\ clock <= l.since + longest
  /\ l.pc = "reserve" => l.now = l.since
  /\ l.pc \in {"verify", "failure"} => \A t \in Reserved : l.since <= expires[t]

LEMMA SoundLogins == ASSUME IInv, NEW w \in Workers PROVE Sound(login[w])
BY DEF IInv, TypeOK, Instants, Fresh, Sound, At

\* The steps of a login that leave both tables alone.
LEMMA LoginSteps ==
  ASSUME IInv, NEW w \in Workers,
         StartLogin(w) \/ VerifyRight(w) \/ VerifyWrong(w) \/ FinalizeConverted(w)
           \/ Kill(w)
  PROVE  IInv'
<1> USE DEF IInv
<1>1. /\ UNCHANGED <<clock, throttle, expires, writer, longest>>
      /\ Reserved' = Reserved /\ Failures' = Failures
  BY DEF StartLogin, VerifyRight, VerifyWrong, FinalizeConverted, Kill, Reserved, Failures
<1>2. LimitHolds' /\ CheckHolds'
  BY <1>1 DEF LimitHolds, CheckHolds
<1>3. Sound(login[w]) /\ login[w] \in Login /\ clock \in Time /\ clock \in Nat
  BY SoundLogins DEF Sound, TypeOK, Time
<1>4. \E l : Sound(l) /\ login' = [login EXCEPT ![w] = l]
  <2>1. CASE StartLogin(w)
    <3> DEFINE l == [pc |-> "reserve", since |-> clock, now |-> clock, token |-> None]
    <3>1. longest \in Nat
      BY LimitsAssumption DEF TypeOK
    <3>2. Sound(l)
      BY <1>3, <3>1 DEF Sound, Login
    <3> QED
      BY <2>1, <3>2 DEF StartLogin
  <2>2. CASE VerifyRight(w)
    <3> DEFINE l == [login[w] EXCEPT !.pc = "success"]
    <3>1. Sound(l)
      BY <1>3, <2>2 DEF Sound, Login, VerifyRight, At
    <3> QED
      BY <2>2, <3>1 DEF VerifyRight, Goto
  <2>3. CASE VerifyWrong(w)
    <3> DEFINE l == [login[w] EXCEPT !.pc = "failure", !.now = clock]
    <3>1. /\ l \in Login /\ l.pc = "failure" /\ l.now = clock
          /\ l.since = login[w].since
      BY <1>3 DEF Login
    <3>2. /\ login[w].since \in Nat /\ login[w].now \in Nat
          /\ login[w].since <= login[w].now /\ login[w].now <= clock
          /\ clock <= login[w].since + longest
          /\ \A t \in Reserved : login[w].since <= expires[t]
      BY <1>3, <2>3 DEF Sound, Login, VerifyWrong, At, Time
    <3>3. Sound(l)
      BY <1>3, <3>1, <3>2 DEF Sound
    <3> QED
      BY <2>3, <3>3 DEF VerifyWrong
  <2>4. CASE FinalizeConverted(w)
    <3> DEFINE l == [login[w] EXCEPT !.pc = "recheck"]
    <3>1. Sound(l)
      BY <1>3, <2>4 DEF Sound, Login, FinalizeConverted, At
    <3> QED
      BY <2>4, <3>1 DEF FinalizeConverted, Goto
  <2>5. CASE Kill(w)
    <3>1. Sound(Idle)
      BY <1>3, LimitsAssumption DEF Sound, Login, Idle, Time
    <3> QED
      BY <2>5, <3>1 DEF Kill, Return
  <2> QED
    BY <2>1, <2>2, <2>3, <2>4, <2>5
<1>5. /\ login' \in [Workers -> Login]
      /\ \A v \in Workers : Sound(login'[v])
  BY <1>4, SoundLogins DEF TypeOK, Sound
<1>6. wrong' \in [Time -> Nat]
  BY DEF TypeOK, StartLogin, VerifyRight, VerifyWrong, FinalizeConverted, Kill
<1>7. TypeOK' /\ Instants' /\ Fresh'
  BY <1>1, <1>5, <1>6 DEF TypeOK, Instants, Fresh, Sound, At
<1> QED
  BY <1>2, <1>7

LEMMA TickIInv == IInv /\ Tick => IInv'
<1> SUFFICES ASSUME IInv, Tick PROVE IInv'
  OBVIOUS
<1> USE DEF IInv
<1>1. UNCHANGED <<throttle, expires, login, writer, wrong>>
      /\ Reserved' = Reserved /\ Failures' = Failures
  BY DEF Tick, Reserved, Failures
<1>2. clock' \in Time /\ clock' = clock + 1 /\ clock \in Nat
  BY LimitsAssumption DEF Tick, TypeOK, Time
<1>3. ASSUME NEW w \in Workers, ~At(w, "idle")
      PROVE  /\ login[w].since \in Nat
             /\ clock <= login[w].since + longest
             /\ clock < login[w].since + Timeout
  BY <1>3 DEF Tick, TypeOK, Login, Time, Instants
<1>4. longest \in Nat /\ longest <= Timeout /\ longest' \in {longest, longest + 1}
  BY LimitsAssumption DEF Tick, TypeOK
<1>5. longest' \in 0 .. Timeout
  <2>1. CASE \E w \in Workers : ~At(w, "idle") /\ clock - login[w].since = longest
    BY <1>2, <1>3, <1>4, <2>1, LimitsAssumption
  <2>2. CASE ~\E w \in Workers : ~At(w, "idle") /\ clock - login[w].since = longest
    BY <1>4, <2>2, LimitsAssumption DEF Tick
  <2> QED
    BY <2>1, <2>2
<1>6. TypeOK' /\ LimitHolds' /\ CheckHolds'
  BY <1>1, <1>2, <1>5 DEF TypeOK, LimitHolds, CheckHolds
<1>7. ASSUME NEW w \in Workers, ~At(w, "idle")
      PROVE  clock + 1 <= login[w].since + longest'
  BY <1>2, <1>3, <1>4, <1>7 DEF Tick
<1>8. Instants'
  BY <1>1, <1>2, <1>7 DEF Instants, TypeOK, Login, Time, At
<1>9. Fresh'
  BY <1>1, <1>2 DEF Fresh, TypeOK, Throttle, At
<1> QED
  BY <1>6, <1>8, <1>9

LEMMA ConvertIInv ==
  ASSUME IInv, NEW w \in Workers, Convert(w)
  PROVE  IInv'
<1> USE DEF IInv
<1>1. PICK t \in Oldest(login[w].now) : Drop(t) /\ PersistFailure(expires[t])
  BY DEF Convert
<1>2. /\ t \in Reserved /\ expires[t] \in Nat /\ expires[t] <= clock
      /\ login[w].now \in Nat /\ clock \in Nat
  BY <1>1 DEF Oldest, Expired, Reserved, TypeOK, Instants, Login, Time
<1>3. \A u \in Reserved : u \in Tokens /\ expires[u] \in Nat /\ expires[t] <= expires[u]
  BY <1>1, <1>2 DEF Oldest, Expired, Reserved, TypeOK, Login, Time
<1>4. UNCHANGED <<clock, login, wrong, longest>> /\ writer' = w
  BY DEF Convert
<1>5. throttle # None => throttle.start < expires[t] + Lockout
  BY <1>2 DEF Fresh
<1>6. /\ throttle' \in Throttle /\ LimitHolds' /\ CheckHolds'
      /\ throttle'.start = expires[t]
           \/ (throttle # None /\ throttle'.start = throttle.start)
  BY <1>1, <1>2, <1>5, FailureCounted
<1>7. /\ Reserved' = Reserved \ {t} /\ \A u \in Reserved' : expires'[u] = expires[u]
      /\ expires' \in [Tokens -> Nat \cup {None}]
  BY <1>1, <1>2, DropReserved
<1>8. TypeOK'
  BY <1>4, <1>6, <1>7 DEF TypeOK
<1>9. Instants'
  BY <1>4 DEF Instants, At
<1>10. Fresh'
  <2>1. throttle'.start <= clock'
    BY <1>2, <1>4, <1>6 DEF Fresh
  <2>2. \A u \in Reserved' : throttle'.start < expires'[u] + Lockout
    BY <1>2, <1>3, <1>6, <1>7, LimitsAssumption DEF Fresh, TypeOK, Throttle
  <2> QED
    BY <1>4, <1>7, <2>1, <2>2 DEF Fresh, At
<1> QED
  BY <1>6, <1>8, <1>9, <1>10

\* A transaction that ends the login of its worker and drops reservations, or
\* leaves them, never disturbs what the other logins rely on.
LEMMA LoginReturns ==
  ASSUME IInv, NEW w \in Workers, Return(w), UNCHANGED <<clock, wrong, longest>>,
         writer' \in {writer, None},
         Reserved' \subseteq Reserved,
         expires' \in [Tokens -> Nat \cup {None}],
         \A u \in Reserved' : expires'[u] = expires[u],
         throttle' \in Throttle \cup {None}, LimitHolds', CheckHolds',
         throttle' # None =>
           /\ throttle'.start <= clock
           /\ \A u \in Reserved' : throttle'.start < expires[u] + Lockout
  PROVE  IInv'
<1> USE DEF IInv
<1>1. Idle \in Login /\ Idle.now = 0 /\ clock \in Nat
  BY LimitsAssumption DEF Idle, Login, Time, TypeOK
<1>2. /\ login' \in [Workers -> Login]
      /\ \A v \in Workers : login'[v] = login[v] \/ login'[v] = Idle
  BY <1>1 DEF Return, TypeOK
<1>3. TypeOK'
  BY <1>2 DEF TypeOK
<1>4. Instants'
  BY <1>1, <1>2 DEF Instants, At, Idle
<1>5. Fresh'
  BY <1>2 DEF Fresh, At, Idle
<1> QED
  BY <1>3, <1>4, <1>5

LEMMA RefuseIInv ==
  ASSUME IInv, NEW w \in Workers, Refuse(w)
  PROVE  IInv'
<1> USE DEF IInv
<1>1. /\ throttle' \in {throttle, None} /\ Reserved' = Reserved
      /\ UNCHANGED <<clock, expires, wrong, longest>> /\ Return(w) /\ writer' = None
  BY DEF Refuse, RowWithoutExpired, Reserved
<1>2. throttle' \in Throttle \cup {None} /\ LimitHolds' /\ CheckHolds'
  BY <1>1, RowCleared, 0 \in Nat
<1>3. throttle' # None =>
        /\ throttle'.start <= clock
        /\ \A u \in Reserved' : throttle'.start < expires[u] + Lockout
  BY <1>1 DEF Fresh
<1> QED
  BY <1>1, <1>2, <1>3, LoginReturns DEF TypeOK

LEMMA FinalizeFailureIInv ==
  ASSUME IInv, NEW w \in Workers, FinalizeFailure(w)
  PROVE  IInv'
<1> USE DEF IInv
<1> DEFINE t == login[w].token
           now == login[w].now
<1>1. /\ t \in Reserved /\ Drop(t) /\ PersistFailure(now)
      /\ UNCHANGED <<clock, writer, wrong, longest>> /\ Return(w)
  BY DEF FinalizeFailure
<1>2. /\ now \in Nat /\ clock \in Nat /\ login[w].since \in Nat
      /\ login[w].since <= now /\ now <= clock /\ clock <= login[w].since + longest
      /\ longest \in Nat /\ longest <= Timeout
  BY LimitsAssumption DEF TypeOK, Login, Time, Instants, FinalizeFailure, At
<1>3. throttle # None => throttle.start < now + Lockout
  BY <1>2, TimeoutAssumption, LimitsAssumption DEF Fresh, TypeOK, Throttle
<1>4. /\ throttle' \in Throttle /\ LimitHolds' /\ CheckHolds'
      /\ throttle'.start = now
           \/ (throttle # None /\ throttle'.start = throttle.start)
  BY <1>1, <1>2, <1>3, FailureCounted
<1>5. /\ Reserved' = Reserved \ {t} /\ \A u \in Reserved' : expires'[u] = expires[u]
      /\ expires' \in [Tokens -> Nat \cup {None}]
  BY <1>1, DropReserved
<1>6. throttle'.start <= clock
  BY <1>2, <1>4 DEF Fresh
<1>7. \A u \in Reserved : expires[u] \in Nat /\ login[w].since <= expires[u]
  BY DEF Fresh, FinalizeFailure, Reserved, TypeOK
<1>8. \A u \in Reserved' : throttle'.start < expires[u] + Lockout
  <2> SUFFICES ASSUME NEW u \in Reserved'
               PROVE  throttle'.start < expires[u] + Lockout
    OBVIOUS
  <2>1. u \in Reserved
    BY <1>5
  <2>2. CASE throttle'.start = now
    BY <1>2, <1>7, <2>1, <2>2, TimeoutAssumption, LimitsAssumption
  <2>3. CASE throttle # None /\ throttle'.start = throttle.start
    BY <2>1, <2>3 DEF Fresh
  <2> QED
    BY <1>4, <2>2, <2>3
<1> QED
  BY <1>1, <1>4, <1>5, <1>6, <1>8, LoginReturns

LEMMA IsBlockedIInv ==
  ASSUME IInv, NEW w \in Workers, IsBlocked(w)
  PROVE  IInv'
<1> USE DEF IInv
<1> DEFINE now == login[w].now
           zero == [count |-> 0, start |-> now, blocked |-> None]
<1>1. /\ throttle' \in {throttle, zero} /\ Reserved' = Reserved
      /\ UNCHANGED <<clock, expires, wrong, longest>> /\ Return(w) /\ writer' = None
  BY DEF IsBlocked, Reserved
<1>2. now \in Nat /\ now <= clock /\ clock \in Nat
  BY DEF TypeOK, Login, Time, Instants
<1>3. throttle' \in Throttle \cup {None} /\ LimitHolds' /\ CheckHolds'
  BY <1>1, <1>2, RowCleared
<1>4. \A u \in Reserved : expires[u] \in Nat /\ now < expires[u]
  BY <1>2 DEF IsBlocked, Converted, Expired, Reserved, TypeOK
<1>5. throttle' # None =>
        /\ throttle'.start <= clock
        /\ \A u \in Reserved' : throttle'.start < expires[u] + Lockout
  BY <1>1, <1>2, <1>4, LimitsAssumption DEF Fresh
<1> QED
  BY <1>1, <1>3, <1>5, LoginReturns DEF TypeOK

LEMMA FinalizeSuccessIInv ==
  ASSUME IInv, NEW w \in Workers, FinalizeSuccess(w)
  PROVE  IInv'
<1> USE DEF IInv
<1>1. /\ throttle' \in {throttle, None} /\ Reserved' \subseteq Reserved
      /\ expires' \in [Tokens -> Nat \cup {None}]
      /\ \A u \in Reserved' : expires'[u] = expires[u]
      /\ wrong' \in [Time -> Nat]
  BY DEF FinalizeSuccess, Reserved, Drop, TypeOK
<1>2. throttle' \in Throttle \cup {None} /\ LimitHolds' /\ CheckHolds'
  BY <1>1, RowCleared, 0 \in Nat
<1>3. Idle \in Login /\ Idle.now = 0 /\ clock \in Nat
  BY LimitsAssumption DEF Idle, Login, Time, TypeOK
<1>4. /\ login' \in [Workers -> Login]
      /\ \A v \in Workers : login'[v] = login[v] \/ login'[v] = Idle
  BY <1>3 DEF FinalizeSuccess, Return, TypeOK
<1>5. UNCHANGED <<clock, writer, longest>>
  BY DEF FinalizeSuccess
<1>6. TypeOK'
  BY <1>1, <1>2, <1>4, <1>5 DEF TypeOK
<1>7. Instants'
  BY <1>3, <1>4, <1>5 DEF Instants, At, Idle
<1>8. Fresh'
  BY <1>1, <1>4, <1>5 DEF Fresh, At, Idle
<1> QED
  BY <1>2, <1>6, <1>7, <1>8

LEMMA AdmitIInv ==
  ASSUME IInv, NEW w \in Workers, Admit(w)
  PROVE  IInv'
<1> USE DEF IInv
<1> DEFINE now == login[w].now
<1>1. PICK t \in Tokens \ Reserved :
        /\ expires' = [expires EXCEPT ![t] = now + Window]
        /\ login' = [login EXCEPT ![w] = [@ EXCEPT !.pc = "verify", !.token = t]]
  BY DEF Admit
<1>2. /\ now \in Nat /\ clock \in Nat /\ now <= clock /\ now = login[w].since
      /\ clock <= now + longest /\ longest \in Nat /\ longest <= Timeout
  BY LimitsAssumption DEF Admit, At, TypeOK, Login, Time, Instants
<1>3. /\ Reserved' = Reserved \cup {t} /\ expires'[t] = now + Window
      /\ \A u \in Reserved : expires'[u] = expires[u]
      /\ expires' \in [Tokens -> Nat \cup {None}]
  BY <1>1, <1>2, LimitsAssumption, NoneAssumption DEF Reserved, TypeOK
<1>4. Cardinality(Reserved') = Cardinality(Reserved) + 1
  BY <1>1, <1>3, ReservedFinite, FS_AddElement
<1>5. throttle' \in {throttle, None} /\ Failures' = FailuresAt(now)
  BY DEF Admit, RowWithoutExpired, FailuresAt, Failures
<1>6. Failures' \in Nat /\ throttle' \in Throttle \cup {None}
  BY <1>5, LimitsAssumption DEF Failures, TypeOK, Throttle
<1>7. Failures' + Cardinality(Reserved') <= MaxFailures
  BY <1>4, <1>5, <1>6, ReservedFinite, LimitsAssumption DEF Admit, Full
<1>8. LimitHolds' /\ CheckHolds'
  BY <1>5, <1>7 DEF LimitHolds, CheckHolds
<1>9. /\ login' \in [Workers -> Login]
      /\ login'[w].pc = "verify" /\ login'[w].now = now
      /\ login'[w].since = login[w].since
      /\ \A v \in Workers \ {w} : login'[v] = login[v]
  BY <1>1 DEF TypeOK, Login
<1>10. UNCHANGED <<clock, wrong, longest>> /\ writer' = None
  BY DEF Admit
<1>11. TypeOK'
  BY <1>3, <1>6, <1>9, <1>10 DEF TypeOK
<1>12. Instants'
  BY <1>2, <1>9, <1>10 DEF Instants, At
<1>13. \A u \in Reserved : expires[u] \in Nat /\ now < expires[u]
  BY <1>2 DEF Admit, Converted, Expired, Reserved, TypeOK
<1>14. Fresh'
  <2>1. throttle' # None =>
          /\ throttle'.start <= clock'
          /\ \A u \in Reserved' : throttle'.start < expires'[u] + Lockout
    BY <1>2, <1>3, <1>5, <1>10, LimitsAssumption, TimeoutAssumption
    DEF Fresh, TypeOK, Throttle
  <2>2. \A v \in Workers : ~At(v, "idle") => login[v].since \in Nat /\ login[v].since <= clock
    BY DEF TypeOK, Login, Time, Instants
  <2>3. ASSUME NEW v \in Workers, At(v, "verify")' \/ At(v, "failure")',
               NEW u \in Reserved'
        PROVE  login'[v].since <= expires'[u]
    <3>1. CASE v = w
      BY <1>2, <1>3, <1>9, <1>13, <3>1, LimitsAssumption
    <3>2. CASE v # w
      <4>1. login'[v] = login[v] /\ (At(v, "verify") \/ At(v, "failure"))
        BY <1>9, <2>3, <3>2 DEF At
      <4>2. login[v].since \in Nat /\ login[v].since <= clock
        BY <2>2, <4>1 DEF At
      <4> QED
        BY <1>2, <1>3, <4>1, <4>2, LimitsAssumption, TimeoutAssumption DEF Fresh
    <3> QED
      BY <3>1, <3>2
  <2> QED
    BY <2>1, <2>3 DEF Fresh
<1> QED
  BY <1>8, <1>11, <1>12, <1>14

LEMMA NextIInv == IInv /\ [Next]_vars => IInv'
<1> SUFFICES ASSUME IInv, [Next]_vars PROVE IInv'
  OBVIOUS
<1>1. CASE UNCHANGED vars
  <2>1. Reserved' = Reserved /\ Failures' = Failures
    BY <1>1 DEF vars, Reserved, Failures
  <2> QED
    BY <1>1, <2>1
    DEF vars, IInv, TypeOK, LimitHolds, CheckHolds, Instants, Fresh, At
<1>2. CASE Tick
  BY <1>2, TickIInv
<1>3. ASSUME NEW w \in Workers, Step(w)
      PROVE  IInv'
  BY <1>3, LoginSteps, ConvertIInv, RefuseIInv, AdmitIInv, FinalizeFailureIInv,
     IsBlockedIInv, FinalizeSuccessIInv
  DEF Step
<1> QED
  BY <1>1, <1>2, <1>3 DEF Next

-----------------------------------------------------------------------------
(* The theorems *)

THEOREM Invariance == Spec => []IInv
BY InitIInv, NextIInv, PTL DEF Spec

\* The row, the reservations and every login stay within their types; the count
\* of failures never passes the limit.
THEOREM TypeCorrect == Spec => []TypeOK
<1>1. IInv => TypeOK
  BY DEF IInv
<1> QED
  BY <1>1, Invariance, PTL

\* Failures and pending attempts never exceed max_failures, and the row is locked
\* exactly when the failures reach it.
THEOREM AttemptsLimited == Spec => []LimitHolds
<1>1. IInv => LimitHolds
  BY DEF IInv
<1> QED
  BY <1>1, Invariance, PTL

\* The CHECK of 007_login_throttle never aborts a transaction.
THEOREM LockFollowsWindow == Spec => []CheckHolds
<1>1. IInv => CheckHolds
  BY DEF IInv
<1> QED
  BY <1>1, Invariance, PTL

\* While the row is locked no attempt is pending and every login that reads the
\* row sees the lock.
LEMMA LockedStep ==
  ASSUME IInv, [Next]_vars, LockedAt(clock)
  PROVE  throttle' = throttle
<1> USE DEF IInv
<1>1. /\ throttle # None /\ throttle.blocked # None
      /\ throttle.blocked \in Nat /\ clock \in Nat /\ clock < throttle.blocked
  BY DEF LockedAt, TypeOK, Throttle, Time
<1>2. Reserved = {}
  <2>1. Failures = MaxFailures
    BY <1>1 DEF LimitHolds, Failures
  <2>2. Cardinality(Reserved) = 0
    BY <2>1, ReservedFinite, LimitsAssumption DEF LimitHolds
  <2> QED
    BY <2>2, ReservedFinite, FS_EmptySet
<1>3. \A w \in Workers : LockedAt(login[w].now)
  BY <1>1 DEF LockedAt, Instants, TypeOK, Login, Time
<1>4. ASSUME NEW w \in Workers, Step(w)
      PROVE  throttle' = throttle
  BY <1>2, <1>3, <1>4
  DEF Step, StartLogin, Convert, Oldest, Expired, Refuse, Admit, VerifyRight, VerifyWrong,
      FinalizeFailure, FinalizeConverted, IsBlocked, FinalizeSuccess, Kill
<1>5. CASE Tick
  BY <1>5 DEF Tick
<1>6. CASE UNCHANGED vars
  BY <1>6 DEF vars
<1> QED
  BY <1>4, <1>5, <1>6 DEF Next

\* No login under way and no reservation that expires lifts, shortens or prolongs
\* a lock.
THEOREM LocksAreKept == Spec => LockIsKept
<1>1. IInv /\ [Next]_vars => [LockedAt(clock) => throttle' = throttle]_vars
  BY LockedStep
<1> QED
  BY <1>1, Invariance, PTL DEF Spec, LockIsKept

-----------------------------------------------------------------------------
(* The invariant behind GuessesPerWindow.  Nothing says which row a guess was  *)
(* counted in.  But a guess is counted at its own instant, unless its worker   *)
(* was killed; so instants tell the rows apart, as long as no login has lasted *)
(* a window or a lockout.                                                      *)

Short == longest < Window /\ longest < Lockout

\* The wrong guesses verified at an instant or later.
From(u) == {p \in Time \X (Nat \ {0}) : u <= p[1] /\ p[2] <= wrong[p[1]]}

\* The reservations that may stand for a guess verified at an instant or later,
\* and not yet counted: those about to be counted and those of killed workers.
Pending(u) ==
  {t \in Reserved :
     /\ u + Window <= expires[t] + longest
     /\ \A w \in Workers : login[w].token = t => At(w, "failure") /\ u <= login[w].now}

Held(w) == At(w, "verify") \/ At(w, "failure") \/ At(w, "success")

\* A login keeps its reservation, which is its own, until it is done, and began
\* before any other reservation expires.
Owners ==
  \A w \in Workers :
    /\ ~At(w, "recheck")
    /\ Held(w) =>
         /\ login[w].token \in Reserved
         /\ expires[login[w].token] = login[w].since + Window
         /\ \A v \in Workers : login[v].token = login[w].token => v = w
         /\ \A t \in Reserved : login[w].since < expires[t]

\* No guess is verified in the future, ...
NoFuture == IsFiniteSet(From(0)) /\ \A v \in Time : clock < v => wrong[v] = 0

\* ... none longer than a login after a reservation expired that is still there, ...
QuietAfterExpiry ==
  \A t \in Reserved, v \in Time : expires[t] + longest <= v => wrong[v] = 0

\* ... and none longer than a login after the failure that locked the row.
QuietWhileLocked ==
  throttle # None /\ throttle.blocked # None =>
    \A v \in Time : throttle.blocked + longest < v + Lockout => wrong[v] = 0

Count(u) == Cardinality(From(u))

Uncounted(u) == Cardinality(Pending(u))

\* The span that ends now is shorter than a window and a lockout by what the
\* longest login took, and begins at an instant before this one.
InSpan(u) == clock + longest < u + Window /\ clock + longest < u + Lockout

\* What is verified once the row is over has not been counted.
OverRow ==
  \A u \in Nat : (IF throttle = None THEN clock <= u ELSE WindowOver(u))
                   => Count(u) <= Uncounted(u)

\* What is verified a login's time after the row started is counted in it or not at all.
ThisRow ==
  throttle # None =>
    \A u \in Nat : throttle.start + longest <= u => Count(u) <= Failures + Uncounted(u)

\* In the span that ends now at most one other row counted, and it was not locked.
TwoRows ==
  \A u \in Nat : InSpan(u) => Count(u) <= MaxFailures - 1 + Failures + Uncounted(u)

Accounted == OverRow /\ ThisRow /\ TwoRows

Attributed == Owners /\ QuietAfterExpiry /\ QuietWhileLocked /\ Accounted

RateInv == IInv /\ NoFuture /\ GuessesPerWindow /\ (Short => Attributed)

\* What a step may assume of the state before it.
Quick == IInv /\ NoFuture /\ Short /\ Attributed

-----------------------------------------------------------------------------
(* Counting guesses and reservations *)

LEMMA Numbers ==
  ASSUME IInv
  PROVE  /\ clock \in Nat /\ longest \in Nat /\ longest <= Timeout
         /\ Failures \in Nat /\ Failures <= MaxFailures
         /\ \A t \in Reserved : t \in Tokens /\ t # None /\ expires[t] \in Nat
         /\ \A v \in Time : v \in Nat /\ wrong[v] \in Nat
         /\ \A w \in Workers : login[w].since \in Nat /\ login[w].now \in Nat
         /\ throttle # None => throttle.start \in Nat /\ throttle.count \in Nat
         /\ throttle # None /\ throttle.blocked # None => throttle.blocked \in Nat
BY LimitsAssumption, NoneAssumption
DEF IInv, TypeOK, Throttle, Login, Time, Reserved, Failures

LEMMA CountFinite ==
  ASSUME NoFuture, NEW u \in Nat
  PROVE  From(u) \subseteq From(0) /\ IsFiniteSet(From(u)) /\ Count(u) \in Nat
<1>1. From(u) \subseteq From(0)
  BY DEF From, Time
<1> QED
  BY <1>1, FS_Subset, FS_CardinalityType DEF NoFuture, Count

LEMMA NoneCounted ==
  ASSUME IInv, NEW u \in Nat, \A v \in Time : u <= v => wrong[v] = 0
  PROVE  Count(u) = 0
<1>1. From(u) = {}
  BY Numbers DEF From
<1> QED
  BY <1>1, FS_EmptySet DEF Count

LEMMA PendingFinite ==
  ASSUME NEW u
  PROVE  /\ IsFiniteSet(Pending(u)) /\ Uncounted(u) \in Nat
         /\ Uncounted(u) <= Cardinality(Reserved)
<1>1. Pending(u) \subseteq Reserved
  BY DEF Pending
<1> QED
  BY <1>1, ReservedFinite, FS_Subset, FS_CardinalityType DEF Uncounted

LEMMA PendingFiniteNext ==
  ASSUME NEW u
  PROVE  IsFiniteSet(Pending(u)') /\ Uncounted(u)' \in Nat
<1>1. Pending(u)' \subseteq Tokens
  BY DEF Pending, Reserved
<1> QED
  BY <1>1, TokensAssumption, FS_Subset, FS_CardinalityType DEF Uncounted

\* Pending reservations that are kept are still counted; at most one is not kept.
LEMMA PendingGrows ==
  ASSUME NEW u
  PROVE  /\ Pending(u) \subseteq Pending(u)' => Uncounted(u) <= Uncounted(u)'
         /\ \A t : Pending(u) \subseteq Pending(u)' \cup {t} =>
              Uncounted(u) <= Uncounted(u)' + 1
         /\ \A t : t \notin Pending(u) /\ Pending(u) \cup {t} \subseteq Pending(u)' =>
              Uncounted(u) + 1 <= Uncounted(u)'
<1>1. IsFiniteSet(Pending(u)) /\ IsFiniteSet(Pending(u)')
      /\ Uncounted(u) \in Nat /\ Uncounted(u)' \in Nat
  BY PendingFinite, PendingFiniteNext
<1>2. ASSUME Pending(u) \subseteq Pending(u)'
      PROVE  Uncounted(u) <= Uncounted(u)'
  BY <1>1, <1>2, FS_Subset DEF Uncounted
<1>3. ASSUME NEW t, Pending(u) \subseteq Pending(u)' \cup {t}
      PROVE  Uncounted(u) <= Uncounted(u)' + 1
  <2> DEFINE S == Pending(u)' \cup {t}
  <2>1. /\ IsFiniteSet(S)
        /\ Cardinality(S) \in {Cardinality(Pending(u)'), Cardinality(Pending(u)') + 1}
    BY <1>1, FS_AddElement
  <2>2. Cardinality(Pending(u)) <= Cardinality(S)
    BY <1>3, <2>1, FS_Subset
  <2> QED
    BY <1>1, <2>1, <2>2 DEF Uncounted
<1>4. ASSUME NEW t, t \notin Pending(u), Pending(u) \cup {t} \subseteq Pending(u)'
      PROVE  Uncounted(u) + 1 <= Uncounted(u)'
  <2>1. /\ IsFiniteSet(Pending(u) \cup {t})
        /\ Cardinality(Pending(u) \cup {t}) = Uncounted(u) + 1
    BY <1>1, <1>4, FS_AddElement DEF Uncounted
  <2> QED
    BY <1>1, <1>4, <2>1, FS_Subset DEF Uncounted
<1> QED
  BY <1>2, <1>3, <1>4

\* A wrong guess is one more from every instant up to its own.
LEMMA OneMoreGuess ==
  ASSUME IInv, NoFuture, NEW w \in Workers, VerifyWrong(w), NEW u \in Nat, u <= clock
  PROVE  /\ IsFiniteSet(From(u)')
         /\ Count(u)' = Count(u) + 1
<1> DEFINE x == <<clock, wrong[clock] + 1>>
<1>1. clock \in Time /\ wrong[clock] \in Nat /\ wrong \in [Time -> Nat]
  BY DEF IInv, TypeOK
<1>2. wrong' = [wrong EXCEPT ![clock] = wrong[clock] + 1]
  BY DEF VerifyWrong
<1>3. x \notin From(u)
  BY <1>1 DEF From
<1>4. From(u)' = From(u) \cup {x}
  <2>1. x \in From(u)'
    BY <1>1, <1>2 DEF From
  <2>2. From(u) \subseteq From(u)'
    BY <1>1, <1>2 DEF From
  <2>3. ASSUME NEW p \in From(u)', p # x
        PROVE  p \in From(u)
    <3>1. PICK v \in Time, k \in Nat \ {0} : p = <<v, k>>
      BY DEF From
    <3>2. u <= v /\ k <= wrong'[v]
      BY <3>1 DEF From
    <3>3. k <= wrong[v]
      <4>1. CASE v = clock
        BY <1>1, <1>2, <2>3, <3>1, <3>2, <4>1
      <4>2. CASE v # clock
        BY <1>1, <1>2, <3>1, <3>2, <4>2
      <4> QED
        BY <4>1, <4>2
    <3> QED
      BY <3>1, <3>2, <3>3 DEF From
  <2> QED
    BY <2>1, <2>2, <2>3
<1>5. IsFiniteSet(From(u))
  BY CountFinite
<1>6. IsFiniteSet(From(u) \cup {x}) /\ Cardinality(From(u) \cup {x}) = Cardinality(From(u)) + 1
  BY <1>3, <1>5, FS_AddElement
<1> QED
  BY <1>4, <1>6 DEF Count

LEMMA SameGuesses ==
  ASSUME wrong' = wrong, NEW u
  PROVE  From(u)' = From(u) /\ Count(u)' = Count(u)
BY DEF From, Count

-----------------------------------------------------------------------------
(* What becomes of the row *)

\* The row, if any, that is over at an instant counted at most MaxFailures - 1 of
\* the guesses of the span that ends now.
LEMMA RowOver ==
  ASSUME Quick, NEW i \in Nat, i <= clock, WindowOver(i), ~LockedAt(i),
         NEW u \in Nat, InSpan(u)
  PROVE  Count(u) <= MaxFailures - 1 + Uncounted(u)
<1> USE DEF Quick, Attributed
<1>1. Count(u) \in Nat /\ Uncounted(u) \in Nat
  BY CountFinite, PendingFinite
<1>2. CASE throttle = None
  BY <1>1, <1>2, LimitsAssumption DEF Accounted, TwoRows, Failures
<1>3. CASE throttle # None /\ throttle.blocked = None
  <2>1. Failures <= MaxFailures - 1
    BY <1>3, Numbers, LimitsAssumption DEF IInv, LimitHolds, Failures
  <2>2. throttle.start + longest <= u
    BY <1>3, Numbers, LimitsAssumption DEF WindowOver, InSpan
  <2>3. Count(u) <= Failures + Uncounted(u)
    BY <1>3, <2>2 DEF Accounted, ThisRow
  <2> QED
    BY <1>1, <2>1, <2>3, Numbers, LimitsAssumption
<1>4. CASE throttle # None /\ throttle.blocked # None
  <2>1. i >= throttle.blocked
    BY <1>4, Numbers DEF LockedAt
  <2>2. \A v \in Time : u <= v => wrong[v] = 0
    BY <1>4, <2>1, Numbers, LimitsAssumption DEF QuietWhileLocked, InSpan
  <2>3. Count(u) = 0
    BY <2>2, NoneCounted
  <2> QED
    BY <1>1, <2>3, LimitsAssumption
<1> QED
  BY <1>2, <1>3, <1>4

\* Nothing is counted or verified, and no pending reservation is lost.
LEMMA RowStays ==
  ASSUME Quick, UNCHANGED <<clock, throttle, wrong, longest>>,
         \A u \in Nat : Pending(u) \subseteq Pending(u)'
  PROVE  Accounted'
<1> USE DEF Quick, Attributed
<1>1. ASSUME NEW u \in Nat
      PROVE  /\ Count(u)' = Count(u) /\ Count(u) \in Nat
             /\ Uncounted(u) <= Uncounted(u)'
             /\ Uncounted(u) \in Nat /\ Uncounted(u)' \in Nat
  BY SameGuesses, CountFinite, PendingGrows, PendingFinite, PendingFiniteNext
<1>2. Failures' = Failures /\ Failures \in Nat
  BY Numbers DEF Failures
<1>3. \A u : (WindowOver(u) <=> WindowOver(u)') /\ (InSpan(u) <=> InSpan(u)')
  BY DEF WindowOver, InSpan
<1>4. OverRow'
  BY <1>1, <1>3 DEF Accounted, OverRow
<1>5. ThisRow'
  BY <1>1, <1>2 DEF Accounted, ThisRow
<1>6. TwoRows'
  BY <1>1, <1>2, <1>3, LimitsAssumption DEF Accounted, TwoRows
<1> QED
  BY <1>4, <1>5, <1>6 DEF Accounted

\* The row is deleted once it is over.
LEMMA RowDeleted ==
  ASSUME Quick, UNCHANGED <<clock, wrong, longest>>, throttle' = None,
         NEW i \in Nat, i <= clock, WindowOver(i), ~LockedAt(i),
         \A u \in Nat : Pending(u) \subseteq Pending(u)'
  PROVE  Accounted'
<1> USE DEF Quick, Attributed
<1>1. ASSUME NEW u \in Nat
      PROVE  /\ Count(u)' = Count(u) /\ Count(u) \in Nat
             /\ Uncounted(u) <= Uncounted(u)'
             /\ Uncounted(u) \in Nat /\ Uncounted(u)' \in Nat
  BY SameGuesses, CountFinite, PendingGrows, PendingFinite, PendingFiniteNext
<1>2. Failures' = 0
  BY DEF Failures
<1>3. OverRow'
  <2> SUFFICES ASSUME NEW u \in Nat, clock <= u
               PROVE  Count(u) <= Uncounted(u)'
    BY <1>1 DEF OverRow
  <2>1. throttle = None \/ WindowOver(u)
    BY Numbers, LimitsAssumption DEF WindowOver
  <2>2. Count(u) <= Uncounted(u)
    BY <2>1 DEF Accounted, OverRow
  <2> QED
    BY <1>1, <2>2
<1>4. ThisRow'
  BY DEF ThisRow
<1>5. TwoRows'
  <2> SUFFICES ASSUME NEW u \in Nat, InSpan(u)
               PROVE  Count(u) <= MaxFailures - 1 + Uncounted(u)'
    BY <1>1, <1>2, LimitsAssumption DEF TwoRows, InSpan
  <2>1. Count(u) <= MaxFailures - 1 + Uncounted(u)
    BY RowOver
  <2> QED
    BY <1>1, <2>1, LimitsAssumption
<1> QED
  BY <1>3, <1>4, <1>5 DEF Accounted

LEMMA FailureIsARow ==
  ASSUME IInv, Reserved # {}, NEW i \in Nat, PersistFailure(i)
  PROVE  /\ throttle # None => throttle.blocked = None
         /\ throttle' # None
<1>1. Cardinality(Reserved) >= 1
  BY ReservedFinite, FS_EmptySet
<1>2. Failures < MaxFailures
  BY <1>1, ReservedFinite, Numbers, LimitsAssumption DEF IInv, LimitHolds
<1>3. throttle # None => throttle.blocked = None
  BY <1>2, Numbers, LimitsAssumption DEF IInv, LimitHolds, Failures
<1>4. CountAfter(i) \in 0 .. MaxFailures
  BY <1>2, Numbers, LimitsAssumption DEF CountAfter, WindowOver, Failures
<1>5. (IF WindowOver(i) THEN i ELSE throttle.start) \in Nat
  BY Numbers DEF WindowOver
<1>6. throttle' \in Throttle
  BY <1>4, <1>5, LimitsAssumption DEF PersistFailure, Throttle
<1> QED
  BY <1>3, <1>6, NoneAssumption

\* A pending attempt is counted, in the row that is there or as the first of a row.
\* No guess was verified longer than a login after its instant.
LEMMA RowCounts ==
  ASSUME Quick, UNCHANGED <<clock, wrong, longest>>, Reserved # {},
         NEW i \in Nat, i <= clock, PersistFailure(i),
         \A v \in Time : i + longest < v => wrong[v] = 0,
         WindowOver(i) => \A u \in Nat : i + longest <= u => Count(u) <= Uncounted(u),
         NEW t, \A u \in Nat : Pending(u) \subseteq Pending(u)' \cup {t},
         \A u \in Nat : i < u => Pending(u) \subseteq Pending(u)'
  PROVE  Accounted' /\ QuietWhileLocked'
<1> USE DEF Quick, Attributed
<1>1. ASSUME NEW u \in Nat
      PROVE  /\ Count(u)' = Count(u) /\ Count(u) \in Nat
             /\ Uncounted(u) <= Uncounted(u)' + 1
             /\ i < u => Uncounted(u) <= Uncounted(u)'
             /\ Uncounted(u) \in Nat /\ Uncounted(u)' \in Nat
  BY SameGuesses, CountFinite, PendingGrows, PendingFinite, PendingFiniteNext
<1>2. throttle' # None /\ (throttle # None => throttle.blocked = None)
  BY FailureIsARow
<1>3. ~LockedAt(i)
  BY <1>2 DEF LockedAt
<1>4. /\ throttle'.start = (IF WindowOver(i) THEN i ELSE throttle.start)
      /\ throttle'.blocked \in {None, i + Lockout}
      /\ Failures' = (IF WindowOver(i) THEN 1 ELSE Failures + 1)
  BY <1>2 DEF PersistFailure, Failures, CountAfter, WindowOver
<1>5. longest < Window /\ longest < Lockout
  BY DEF Short
<1>6. ASSUME NEW u \in Nat, i + longest < u
      PROVE  Count(u) = 0
  BY <1>6, NoneCounted, Numbers
<1>7. QuietWhileLocked'
  <2> SUFFICES ASSUME throttle'.blocked # None, NEW v \in Time,
                      throttle'.blocked + longest < v + Lockout
               PROVE  wrong[v] = 0
    BY DEF QuietWhileLocked
  <2>1. i + longest < v
    BY <1>4, Numbers, LimitsAssumption
  <2> QED
    BY <2>1
<1>8. OverRow'
  <2> SUFFICES ASSUME NEW u \in Nat, WindowOver(u)'
               PROVE  Count(u) <= Uncounted(u)'
    BY <1>1, <1>2 DEF OverRow
  <2>1. CASE throttle'.blocked # None /\ u >= throttle'.blocked
    BY <1>1, <1>4, <1>5, <1>6, <2>1, Numbers, LimitsAssumption
  <2>2. CASE u - throttle'.start >= Window /\ WindowOver(i)
    BY <1>1, <1>4, <1>5, <1>6, <2>2, Numbers, LimitsAssumption
  <2>3. CASE u - throttle'.start >= Window /\ ~WindowOver(i)
    <3>1. WindowOver(u) /\ throttle # None
      BY <1>4, <2>3 DEF WindowOver
    <3>2. Count(u) <= Uncounted(u)
      BY <3>1 DEF Accounted, OverRow
    <3>3. i < u
      BY <1>4, <2>3, <3>1, Numbers, LimitsAssumption DEF WindowOver
    <3> QED
      BY <1>1, <3>2, <3>3
  <2> QED
    BY <1>2, <2>1, <2>2, <2>3 DEF WindowOver
<1>9. ThisRow'
  <2> SUFFICES ASSUME NEW u \in Nat, throttle'.start + longest <= u
               PROVE  Count(u) <= Failures' + Uncounted(u)'
    BY <1>1 DEF ThisRow
  <2>1. CASE WindowOver(i)
    BY <1>1, <1>4, <2>1
  <2>2. CASE ~WindowOver(i)
    <3>1. Count(u) <= Failures + Uncounted(u)
      BY <1>4, <2>2 DEF Accounted, ThisRow, WindowOver
    <3> QED
      BY <1>1, <1>4, <2>2, <3>1, Numbers
  <2> QED
    BY <2>1, <2>2
<1>10. TwoRows'
  <2> SUFFICES ASSUME NEW u \in Nat, InSpan(u)
               PROVE  Count(u) <= MaxFailures - 1 + Failures' + Uncounted(u)'
    BY <1>1 DEF TwoRows, InSpan
  <2>1. CASE WindowOver(i)
    <3>1. Count(u) <= MaxFailures - 1 + Uncounted(u)
      BY <1>3, <2>1, RowOver
    <3> QED
      BY <1>1, <1>4, <2>1, <3>1, LimitsAssumption
  <2>2. CASE ~WindowOver(i)
    <3>1. Count(u) <= MaxFailures - 1 + Failures + Uncounted(u)
      BY DEF Accounted, TwoRows
    <3> QED
      BY <1>1, <1>4, <2>2, <3>1, Numbers, LimitsAssumption
  <2> QED
    BY <2>1, <2>2
<1> QED
  BY <1>7, <1>8, <1>9, <1>10 DEF Accounted

-----------------------------------------------------------------------------
(* Each action keeps the attribution *)

\* A worker starts a login, is killed or verifies the right password.
LEMMA LoginStepsQuick ==
  ASSUME Quick, NEW w \in Workers, StartLogin(w) \/ VerifyRight(w) \/ Kill(w)
  PROVE  Attributed'
<1> USE DEF Quick, Attributed
<1>1. UNCHANGED <<clock, throttle, expires, wrong, longest>> /\ Reserved' = Reserved
  BY DEF StartLogin, VerifyRight, Kill, Reserved
<1>2. \A t \in Reserved : t # None
  BY Numbers
<1>3. /\ \A v \in Workers \ {w} : login'[v] = login[v]
      /\ \/ login'[w].pc \in {"idle", "reserve"} /\ login'[w].token = None
         \/ /\ login[w].pc = "verify" /\ login'[w].pc = "success"
            /\ login'[w].token = login[w].token /\ login'[w].since = login[w].since
  BY DEF StartLogin, VerifyRight, Kill, Goto, Return, Idle, At, IInv, TypeOK, Login
<1>4. Owners'
  BY <1>1, <1>2, <1>3 DEF Owners, Held, At
<1>5. \A u \in Nat : Pending(u) \subseteq Pending(u)'
  BY <1>1, <1>2, <1>3 DEF Pending, At
<1>6. Accounted'
  BY <1>1, <1>5, RowStays
<1>7. QuietAfterExpiry' /\ QuietWhileLocked'
  BY <1>1 DEF QuietAfterExpiry, QuietWhileLocked
<1> QED
  BY <1>4, <1>6, <1>7

\* The row that a transaction finds expired, with its lock over, is over.
LEMMA ExpiredIsOver ==
  ASSUME NEW i, ExpiredAt(i), ~LockedAt(i), IInv, i \in Nat
  PROVE  WindowOver(i)
BY Numbers DEF ExpiredAt, LockedAt, WindowOver

LEMMA RefuseQuick ==
  ASSUME Quick, NEW w \in Workers, Refuse(w)
  PROVE  Attributed'
<1> USE DEF Quick, Attributed
<1> DEFINE now == login[w].now
<1>1. UNCHANGED <<clock, expires, wrong, longest>> /\ Reserved' = Reserved /\ Return(w)
  BY DEF Refuse, Reserved
<1>2. \A t \in Reserved : t # None
  BY Numbers
<1>3. /\ \A v \in Workers \ {w} : login'[v] = login[v]
      /\ login'[w].pc = "idle" /\ login'[w].token = None
  BY <1>1 DEF Return, Idle, IInv, TypeOK
<1>4. Owners'
  BY <1>1, <1>2, <1>3 DEF Owners, Held, At
<1>5. \A u \in Nat : Pending(u) \subseteq Pending(u)'
  BY <1>1, <1>2, <1>3 DEF Pending, At
<1>6. CASE throttle' = throttle
  <2>1. Accounted'
    BY <1>1, <1>5, <1>6, RowStays
  <2>2. QuietAfterExpiry' /\ QuietWhileLocked'
    BY <1>1, <1>6 DEF QuietAfterExpiry, QuietWhileLocked
  <2> QED
    BY <1>4, <2>1, <2>2
<1>7. CASE throttle' # throttle
  <2>1. throttle' = None /\ ExpiredAt(now) /\ ~LockedAt(now)
    BY <1>7 DEF Refuse, RowWithoutExpired
  <2>2. now \in Nat /\ now <= clock
    BY Numbers DEF IInv, Instants
  <2>3. Accounted'
    BY <1>1, <1>5, <2>1, <2>2, ExpiredIsOver, RowDeleted
  <2>4. QuietAfterExpiry' /\ QuietWhileLocked'
    BY <1>1, <2>1 DEF QuietAfterExpiry, QuietWhileLocked
  <2> QED
    BY <1>4, <2>3, <2>4
<1> QED
  BY <1>6, <1>7

LEMMA AdmitQuick ==
  ASSUME Quick, NEW w \in Workers, Admit(w)
  PROVE  Attributed'
<1> USE DEF Quick, Attributed
<1> DEFINE now == login[w].now
<1>1. PICK t \in Tokens \ Reserved :
        /\ \A v \in Workers : login[v].token # t
        /\ expires' = [expires EXCEPT ![t] = now + Window]
        /\ login' = [login EXCEPT ![w] = [@ EXCEPT !.pc = "verify", !.token = t]]
  BY DEF Admit
<1>2. /\ now \in Nat /\ clock \in Nat /\ now <= clock /\ now = login[w].since
      /\ clock <= now + longest /\ longest \in Nat /\ longest < Window
  BY Numbers DEF Admit, At, IInv, Instants, Short
<1>3. /\ Reserved' = Reserved \cup {t} /\ expires'[t] = now + Window
      /\ \A u \in Reserved : expires'[u] = expires[u]
  BY <1>1, <1>2, LimitsAssumption, NoneAssumption DEF Reserved, IInv, TypeOK
<1>4. UNCHANGED <<clock, wrong, longest>>
  BY DEF Admit
<1>5. \A u \in Reserved : expires[u] \in Nat /\ now < expires[u]
  BY <1>2, Numbers DEF Admit, Converted, Expired
<1>6. /\ login'[w].pc = "verify" /\ login'[w].token = t
      /\ login'[w].since = now
      /\ \A v \in Workers \ {w} : login'[v] = login[v] /\ login[v].token # t
  BY <1>1, <1>2 DEF IInv, TypeOK, Login
<1>7. Owners'
  <2> SUFFICES ASSUME NEW v \in Workers
               PROVE  /\ ~At(v, "recheck")'
                      /\ Held(v)' =>
                           /\ login'[v].token \in Reserved'
                           /\ expires'[login'[v].token] = login'[v].since + Window
                           /\ \A x \in Workers : login'[x].token = login'[v].token => x = v
                           /\ \A u \in Reserved' : login'[v].since < expires'[u]
    BY DEF Owners
  <2>1. CASE v = w
    BY <1>2, <1>3, <1>5, <1>6, <2>1, LimitsAssumption DEF At
  <2>2. CASE v # w
    <3>1. login'[v] = login[v] /\ ~At(v, "recheck") /\ (Held(v)' => Held(v))
      BY <1>6, <2>2 DEF Owners, Held, At
    <3>2. Held(v) => login[v].since \in Nat /\ login[v].since < now + Window
      BY <1>2, Numbers, LimitsAssumption DEF Held, At, IInv, Instants
    <3> QED
      BY <1>3, <1>6, <2>2, <3>1, <3>2 DEF Owners, At
  <2> QED
    BY <2>1, <2>2
<1>8. \A u \in Nat : Pending(u) \subseteq Pending(u)'
  BY <1>1, <1>3, <1>4, <1>6 DEF Pending, At
<1>9. QuietAfterExpiry'
  <2> SUFFICES ASSUME NEW u \in Reserved', NEW v \in Time, expires'[u] + longest <= v
               PROVE  wrong[v] = 0
    BY <1>4 DEF QuietAfterExpiry
  <2>1. CASE u = t
    BY <1>2, <1>3, <2>1, Numbers, LimitsAssumption DEF NoFuture
  <2>2. CASE u \in Reserved
    BY <1>3, <2>2 DEF QuietAfterExpiry
  <2> QED
    BY <1>3, <2>1, <2>2
<1>10. CASE throttle' = throttle
  BY <1>4, <1>7, <1>8, <1>9, <1>10, RowStays DEF QuietWhileLocked
<1>11. CASE throttle' # throttle
  <2>1. throttle' = None /\ ExpiredAt(now) /\ ~LockedAt(now)
    BY <1>11 DEF Admit, RowWithoutExpired
  <2>2. Accounted'
    BY <1>2, <1>4, <1>8, <2>1, ExpiredIsOver, RowDeleted
  <2> QED
    BY <1>7, <1>9, <2>1, <2>2 DEF QuietWhileLocked
<1> QED
  BY <1>10, <1>11

LEMMA ConvertQuick ==
  ASSUME Quick, NEW w \in Workers, Convert(w)
  PROVE  Attributed'
<1> USE DEF Quick, Attributed
<1>1. PICK t \in Oldest(login[w].now) : Drop(t) /\ PersistFailure(expires[t])
  BY DEF Convert
<1> DEFINE i == expires[t]
<1>2. t \in Reserved /\ i \in Nat /\ i <= login[w].now /\ i <= clock
  BY <1>1, Numbers DEF Oldest, Expired, IInv, Instants
<1>3. /\ Reserved' = Reserved \ {t} /\ \A u \in Reserved' : expires'[u] = expires[u]
      /\ UNCHANGED <<clock, login, wrong, longest>>
  BY <1>1, <1>2, DropReserved DEF Convert, IInv
<1>4. clock \in Nat /\ longest \in Nat /\ longest < Window
  BY Numbers DEF Short
<1>5. \A v \in Workers : Held(v) => login[v].token # t
  <2> SUFFICES ASSUME NEW v \in Workers, Held(v), login[v].token = t
               PROVE  FALSE
    OBVIOUS
  <2>1. i = login[v].since + Window /\ clock <= login[v].since + longest
    BY DEF Owners, IInv, Instants, Held, At
  <2> QED
    BY <1>2, <1>4, <2>1, Numbers, LimitsAssumption
<1>6. Owners'
  BY <1>3, <1>5 DEF Owners, Held, At
<1>7. QuietAfterExpiry'
  BY <1>3 DEF QuietAfterExpiry
<1>8. \A v \in Time : i + longest <= v => wrong[v] = 0
  BY <1>2 DEF QuietAfterExpiry
<1>9. ASSUME NEW u \in Nat
      PROVE  /\ Pending(u) \subseteq Pending(u)' \cup {t}
             /\ i < u => Pending(u) \subseteq Pending(u)'
  <2>1. Pending(u) \ {t} \subseteq Pending(u)'
    BY <1>3 DEF Pending, At
  <2>2. i < u => t \notin Pending(u)
    BY <1>2, <1>4, LimitsAssumption DEF Pending
  <2> QED
    BY <2>1, <2>2
<1>10. ASSUME NEW u \in Nat, i + longest <= u
       PROVE  Count(u) <= Uncounted(u)
  <2>1. Count(u) = 0
    BY <1>2, <1>4, <1>8, <1>10, NoneCounted, Numbers
  <2> QED
    BY <2>1, PendingFinite
<1>11. \A v \in Time : i + longest < v => wrong[v] = 0
  BY <1>2, <1>4, <1>8, Numbers
<1>12. Accounted' /\ QuietWhileLocked'
  BY <1>1, <1>2, <1>3, <1>9, <1>10, <1>11, RowCounts
<1> QED
  BY <1>6, <1>7, <1>12

LEMMA FinalizeFailureQuick ==
  ASSUME Quick, NEW w \in Workers, FinalizeFailure(w)
  PROVE  Attributed'
<1> USE DEF Quick, Attributed
<1> DEFINE t == login[w].token
           i == login[w].now
<1>1. t \in Reserved /\ Drop(t) /\ PersistFailure(i) /\ Return(w) /\ Held(w)
  BY DEF FinalizeFailure, Held
<1>2. /\ i \in Nat /\ clock \in Nat /\ longest \in Nat
      /\ i <= clock /\ clock <= i + longest
  BY <1>1, Numbers DEF Held, At, IInv, Instants
<1>3. /\ Reserved' = Reserved \ {t} /\ \A u \in Reserved' : expires'[u] = expires[u]
      /\ UNCHANGED <<clock, wrong, longest>>
  BY <1>1, DropReserved DEF FinalizeFailure, IInv
<1>4. \A u \in Reserved : u # None
  BY Numbers
<1>5. /\ \A v \in Workers \ {w} : login'[v] = login[v]
      /\ login'[w].pc = "idle" /\ login'[w].token = None
  BY <1>1 DEF Return, Idle, IInv, TypeOK
<1>6. \A v \in Workers \ {w} : login[v].token # t
  BY <1>1 DEF Owners
<1>7. Owners'
  BY <1>3, <1>4, <1>5, <1>6 DEF Owners, Held, At
<1>8. QuietAfterExpiry'
  BY <1>3 DEF QuietAfterExpiry
<1>9. ASSUME NEW u \in Nat
      PROVE  /\ Pending(u) \subseteq Pending(u)' \cup {t}
             /\ i < u => Pending(u) \subseteq Pending(u)'
  <2>1. Pending(u) \ {t} \subseteq Pending(u)'
    BY <1>3, <1>4, <1>5 DEF Pending, At
  <2>2. i < u => t \notin Pending(u)
    BY <1>2 DEF Pending
  <2> QED
    BY <2>1, <2>2
<1>10. ASSUME WindowOver(i), NEW u \in Nat, i + longest <= u
       PROVE  Count(u) <= Uncounted(u)
  <2>1. clock <= u /\ i <= u
    BY <1>2, <1>10
  <2>2. throttle = None \/ WindowOver(u)
    BY <1>2, <1>10, <2>1, Numbers, LimitsAssumption DEF WindowOver
  <2> QED
    BY <2>1, <2>2 DEF Accounted, OverRow
<1>11. \A v \in Time : i + longest < v => wrong[v] = 0
  BY <1>2, Numbers DEF NoFuture
<1>12. Accounted' /\ QuietWhileLocked'
  BY <1>1, <1>2, <1>3, <1>9, <1>10, <1>11, RowCounts
<1> QED
  BY <1>7, <1>8, <1>12

\* The guesses are forgotten with the row.
LEMMA FinalizeSuccessQuick ==
  ASSUME Quick, NEW w \in Workers, FinalizeSuccess(w)
  PROVE  Attributed'
<1> USE DEF Quick, Attributed
<1> DEFINE t == login[w].token
<1>1. Held(w) /\ t \in Reserved
  BY DEF FinalizeSuccess, Owners, Held
<1>2. /\ Drop(t) /\ Return(w) /\ throttle' = None /\ UNCHANGED <<clock, longest>>
      /\ wrong' = [v \in Time |-> 0]
  BY <1>1 DEF FinalizeSuccess
<1>3. Reserved' = Reserved \ {t} /\ \A u \in Reserved' : expires'[u] = expires[u]
  BY <1>1, <1>2, DropReserved DEF IInv
<1>4. \A u \in Reserved : u # None
  BY Numbers
<1>5. /\ \A v \in Workers \ {w} : login'[v] = login[v]
      /\ login'[w].pc = "idle" /\ login'[w].token = None
  BY <1>2 DEF Return, Idle, IInv, TypeOK
<1>6. \A v \in Workers \ {w} : login[v].token # t
  BY <1>1 DEF Owners
<1>7. Owners'
  BY <1>3, <1>4, <1>5, <1>6 DEF Owners, Held, At
<1>8. QuietAfterExpiry' /\ QuietWhileLocked'
  BY <1>2 DEF QuietAfterExpiry, QuietWhileLocked
<1>9. ASSUME NEW u \in Nat
      PROVE  Count(u)' = 0 /\ Uncounted(u)' \in Nat
  <2>1. From(u)' = {}
    BY <1>2 DEF From
  <2> QED
    BY <2>1, FS_EmptySet, PendingFiniteNext DEF Count
<1>10. Failures' = 0
  BY <1>2 DEF Failures
<1>11. Accounted'
  BY <1>2, <1>9, <1>10, LimitsAssumption DEF Accounted, OverRow, ThisRow, TwoRows
<1> QED
  BY <1>7, <1>8, <1>11

\* The guess becomes one that is pending.
LEMMA VerifyWrongQuick ==
  ASSUME Quick, NEW w \in Workers, VerifyWrong(w)
  PROVE  Attributed'
<1> USE DEF Quick, Attributed
<1> DEFINE t == login[w].token
<1>1. Held(w) /\ At(w, "verify") /\ t \in Reserved
  BY DEF VerifyWrong, Owners, Held
<1>2. /\ UNCHANGED <<clock, throttle, expires, longest>>
      /\ Reserved' = Reserved /\ Failures' = Failures
  BY DEF VerifyWrong, Reserved, Failures
<1>3. /\ clock \in Nat /\ longest \in Nat /\ login[w].since \in Nat
      /\ clock <= login[w].since + longest
      /\ expires[t] = login[w].since + Window
      /\ \A u \in Reserved : expires[u] \in Nat /\ login[w].since < expires[u]
  BY <1>1, Numbers DEF IInv, Instants, At, Owners
<1>4. /\ \A v \in Workers \ {w} : login'[v] = login[v] /\ login[v].token # t
      /\ login'[w].pc = "failure" /\ login'[w].now = clock
      /\ login'[w].token = t /\ login'[w].since = login[w].since
  BY <1>1 DEF VerifyWrong, Owners, IInv, TypeOK, Login
<1>5. \A v \in Time : v # clock => wrong'[v] = wrong[v]
  BY DEF VerifyWrong, IInv, TypeOK
<1>6. Owners'
  <2>1. \A v \in Workers :
          /\ login'[v].token = login[v].token /\ login'[v].since = login[v].since
          /\ (Held(v)' => Held(v)) /\ (At(v, "recheck")' => At(v, "recheck"))
    BY <1>1, <1>4 DEF Held, At
  <2> QED
    BY <1>2, <2>1 DEF Owners
<1>7. QuietAfterExpiry'
  <2> SUFFICES ASSUME NEW u \in Reserved, NEW v \in Time, expires[u] + longest <= v
               PROVE  wrong'[v] = 0
    BY <1>2 DEF QuietAfterExpiry
  <2>1. v # clock
    BY <1>3, Numbers
  <2> QED
    BY <1>5, <2>1 DEF QuietAfterExpiry
<1>8. QuietWhileLocked'
  <2>1. throttle # None => throttle.blocked = None
    <3>1. Cardinality(Reserved) >= 1
      BY <1>1, ReservedFinite, FS_EmptySet
    <3> QED
      BY <3>1, ReservedFinite, Numbers, LimitsAssumption DEF IInv, LimitHolds, Failures
  <2> QED
    BY <1>2, <2>1 DEF QuietWhileLocked
<1>9. ASSUME NEW u \in Nat, u <= clock
      PROVE  /\ Count(u)' = Count(u) + 1 /\ Count(u) \in Nat
             /\ Uncounted(u) + 1 <= Uncounted(u)'
             /\ Uncounted(u) \in Nat /\ Uncounted(u)' \in Nat
  <2>1. t \notin Pending(u)
    BY <1>1 DEF Pending, At
  <2>2. t \in Pending(u)'
    BY <1>1, <1>2, <1>3, <1>4, <1>9, LimitsAssumption DEF Pending, At
  <2>3. Pending(u) \subseteq Pending(u)'
    BY <1>2, <1>4, <2>1 DEF Pending, At
  <2>4. Uncounted(u) + 1 <= Uncounted(u)'
    BY <2>1, <2>2, <2>3, PendingGrows
  <2> QED
    BY <1>9, <2>4, OneMoreGuess, CountFinite, PendingFinite, PendingFiniteNext
<1>10. ASSUME NEW u \in Nat, clock < u
       PROVE  Count(u)' = 0 /\ Uncounted(u)' \in Nat
  <2>1. \A v \in Time : u <= v => wrong'[v] = 0
    BY <1>3, <1>5, <1>10, Numbers DEF NoFuture
  <2>2. From(u)' = {}
    BY <2>1 DEF From
  <2> QED
    BY <2>2, FS_EmptySet, PendingFiniteNext DEF Count
<1>11. Failures \in Nat
  BY Numbers
<1>12. \A u : (WindowOver(u) <=> WindowOver(u)') /\ (InSpan(u) <=> InSpan(u)')
  BY <1>2 DEF WindowOver, InSpan
<1>13. ASSUME NEW u \in Nat
       PROVE  /\ Count(u)' \in Nat /\ Uncounted(u)' \in Nat
              /\ \A n \in Nat : Count(u) <= n + Uncounted(u) => Count(u)' <= n + Uncounted(u)'
  <2>1. CASE u <= clock
    BY <1>9, <2>1
  <2>2. CASE clock < u
    BY <1>10, <2>2
  <2> QED
    BY <1>3, <2>1, <2>2
<1>14. OverRow'
  <2> SUFFICES ASSUME NEW u \in Nat, IF throttle = None THEN clock <= u ELSE WindowOver(u)
               PROVE  Count(u)' <= Uncounted(u)'
    BY <1>2, <1>12 DEF OverRow
  <2>1. Count(u) <= 0 + Uncounted(u)
    BY PendingFinite DEF Accounted, OverRow
  <2>2. Count(u)' <= 0 + Uncounted(u)'
    BY <1>13, <2>1
  <2> QED
    BY <1>13, <2>2
<1>15. ThisRow'
  BY <1>2, <1>11, <1>13 DEF Accounted, ThisRow
<1>16. TwoRows'
  <2> SUFFICES ASSUME NEW u \in Nat, InSpan(u)
               PROVE  Count(u)' <= MaxFailures - 1 + Failures + Uncounted(u)'
    BY <1>2, <1>12 DEF TwoRows
  <2>1. MaxFailures - 1 + Failures \in Nat
    BY <1>11, LimitsAssumption
  <2> QED
    BY <1>13, <2>1 DEF Accounted, TwoRows
<1> QED
  BY <1>6, <1>7, <1>8, <1>14, <1>15, <1>16 DEF Accounted

LEMMA TickQuick ==
  ASSUME Quick, Tick, Short'
  PROVE  Attributed'
<1> USE DEF Quick, Attributed
<1>1. /\ UNCHANGED <<throttle, expires, login, wrong>>
      /\ Reserved' = Reserved /\ Failures' = Failures
      /\ clock' = clock + 1 /\ (longest' = longest \/ longest' = longest + 1)
  BY DEF Tick, Reserved, Failures
<1>2. /\ clock \in Nat /\ longest \in Nat /\ Failures \in Nat
      /\ clock' \in Nat /\ longest' \in Nat /\ clock <= clock' /\ longest <= longest'
  BY <1>1, Numbers
<1>3. Owners'
  BY <1>1 DEF Owners, Held, At
<1>4. QuietAfterExpiry' /\ QuietWhileLocked'
  BY <1>1, <1>2, Numbers, LimitsAssumption DEF QuietAfterExpiry, QuietWhileLocked
<1>5. ASSUME NEW u \in Nat
      PROVE  /\ Count(u)' = Count(u) /\ Count(u) \in Nat
             /\ Uncounted(u) <= Uncounted(u)'
             /\ Uncounted(u) \in Nat /\ Uncounted(u)' \in Nat
  <2>1. \A t \in Reserved : expires[t] \in Nat
    BY Numbers
  <2>2. Pending(u) \subseteq Pending(u)'
    BY <1>1, <1>2, <2>1, LimitsAssumption DEF Pending, At
  <2> QED
    BY <1>1, <2>2, SameGuesses, CountFinite, PendingGrows, PendingFinite, PendingFiniteNext
<1>6. OverRow'
  <2> SUFFICES ASSUME NEW u \in Nat,
                      IF throttle = None THEN clock + 1 <= u ELSE WindowOver(u)
               PROVE  Count(u) <= Uncounted(u)'
    BY <1>1, <1>5 DEF OverRow, WindowOver
  <2>1. Count(u) <= Uncounted(u)
    BY <1>2 DEF Accounted, OverRow
  <2> QED
    BY <1>5, <2>1
<1>7. ThisRow'
  <2> SUFFICES ASSUME throttle # None, NEW u \in Nat, throttle.start + longest' <= u
               PROVE  Count(u) <= Failures + Uncounted(u)'
    BY <1>1, <1>5 DEF ThisRow
  <2>1. Count(u) <= Failures + Uncounted(u)
    BY <1>1, <1>2, Numbers DEF Accounted, ThisRow
  <2> QED
    BY <1>2, <1>5, <2>1
<1>8. TwoRows'
  <2> SUFFICES ASSUME NEW u \in Nat,
                      clock' + longest' < u + Window, clock' + longest' < u + Lockout
               PROVE  Count(u) <= MaxFailures - 1 + Failures + Uncounted(u)'
    BY <1>1, <1>5 DEF TwoRows, InSpan
  <2>1. InSpan(u)
    <3>1. CASE longest' = longest
      BY <1>1, <1>2, <3>1, LimitsAssumption DEF InSpan
    <3>2. CASE longest' = longest + 1
      BY <1>1, <1>2, <3>2, LimitsAssumption DEF InSpan
    <3> QED
      BY <1>1, <3>1, <3>2
  <2>2. Count(u) <= MaxFailures - 1 + Failures + Uncounted(u)
    BY <2>1 DEF Accounted, TwoRows
  <2> QED
    BY <1>2, <1>5, <2>2, LimitsAssumption
<1> QED
  BY <1>3, <1>4, <1>6, <1>7, <1>8 DEF Accounted

LEMMA NextQuick ==
  ASSUME Quick, [Next]_vars, Short'
  PROVE  Attributed'
<1>1. CASE UNCHANGED vars
  <2>1. /\ UNCHANGED <<clock, throttle, wrong, longest>>
        /\ Reserved' = Reserved /\ UNCHANGED <<expires, login>>
    BY <1>1 DEF vars, Reserved
  <2>2. \A u \in Nat : Pending(u) \subseteq Pending(u)'
    BY <2>1 DEF Pending, At
  <2>3. Accounted'
    BY <2>1, <2>2, RowStays
  <2> QED
    BY <2>1, <2>3
    DEF Quick, Attributed, Owners, Held, At, QuietAfterExpiry, QuietWhileLocked
<1>2. CASE Tick
  BY <1>2, TickQuick
<1>3. ASSUME NEW w \in Workers, Step(w)
      PROVE  Attributed'
  <2>1. ~FinalizeConverted(w) /\ ~IsBlocked(w)
    BY DEF Quick, Attributed, Owners, Held, FinalizeConverted, IsBlocked
  <2> QED
    BY <1>3, <2>1, LoginStepsQuick, ConvertQuick, RefuseQuick, AdmitQuick, VerifyWrongQuick,
       FinalizeFailureQuick, FinalizeSuccessQuick
    DEF Step
<1> QED
  BY <1>1, <1>2, <1>3 DEF Next

-----------------------------------------------------------------------------
(* The guesses of any span *)

\* A step verifies a wrong password, forgets the wrong ones, or leaves them.
LEMMA WrongSteps ==
  ASSUME IInv, [Next]_vars
  PROVE  /\ \/ UNCHANGED wrong
            \/ wrong' = [v \in Time |-> 0]
            \/ \E w \in Workers : VerifyWrong(w)
         /\ clock' = clock \/ (clock' = clock + 1 /\ UNCHANGED wrong)
         /\ longest' = longest \/ (longest' = longest + 1 /\ UNCHANGED wrong)
<1>1. CASE UNCHANGED vars
  BY <1>1 DEF vars
<1>2. CASE Tick
  BY <1>2 DEF Tick
<1>3. ASSUME NEW w \in Workers, Step(w)
      PROVE  /\ UNCHANGED <<clock, longest>>
             /\ UNCHANGED wrong \/ wrong' = [v \in Time |-> 0] \/ VerifyWrong(w)
  BY <1>3
  DEF Step, StartLogin, Convert, Refuse, Admit, VerifyRight, VerifyWrong, FinalizeFailure,
      FinalizeConverted, IsBlocked, FinalizeSuccess, Kill
<1> QED
  BY <1>1, <1>2, <1>3 DEF Next

LEMMA NoFutureStep ==
  ASSUME IInv, NoFuture, [Next]_vars
  PROVE  NoFuture'
<1>1. \A v \in Time : clock' < v => clock < v
  BY WrongSteps, Numbers
<1>2. CASE UNCHANGED wrong
  BY <1>1, <1>2, SameGuesses DEF NoFuture
<1>3. CASE wrong' = [v \in Time |-> 0]
  <2>1. From(0)' = {}
    BY <1>3 DEF From
  <2> QED
    BY <1>3, <2>1, FS_EmptySet DEF NoFuture
<1>4. ASSUME NEW w \in Workers, VerifyWrong(w)
      PROVE  NoFuture'
  <2>1. IsFiniteSet(From(0)')
    BY <1>4, OneMoreGuess, Numbers
  <2>2. \A v \in Time : clock < v => wrong'[v] = wrong[v]
    BY <1>4, Numbers DEF VerifyWrong, IInv, TypeOK
  <2> QED
    BY <1>1, <2>1, <2>2 DEF NoFuture
<1> QED
  BY <1>2, <1>3, <1>4, WrongSteps

\* The span that ends now, after a step.
LEMMA SpanBounded ==
  ASSUME IInv', NoFuture', Short', Attributed', NEW t \in Time,
         clock' + longest' < t + Window, clock' + longest' < t + Lockout
  PROVE  Cardinality(Guesses(t)') < 2 * MaxFailures
<1>1. t \in Nat
  BY DEF Time
<1>2. Guesses(t)' \subseteq From(t)'
  BY DEF Guesses, From, IInv, TypeOK
<1>3. IsFiniteSet(From(t)')
  <2>1. From(t)' \subseteq From(0)'
    BY <1>1 DEF From, Time
  <2> QED
    BY <2>1, FS_Subset DEF NoFuture
<1>4. /\ Cardinality(Guesses(t)') \in Nat /\ Count(t)' \in Nat
      /\ Cardinality(Guesses(t)') <= Count(t)'
  BY <1>2, <1>3, FS_Subset, FS_CardinalityType DEF Count
<1>5. Count(t)' <= MaxFailures - 1 + Failures' + Uncounted(t)'
  BY <1>1 DEF Attributed, Accounted, TwoRows, InSpan
<1>6. /\ Uncounted(t)' \in Nat /\ Cardinality(Reserved') \in Nat
      /\ Uncounted(t)' <= Cardinality(Reserved')
  <2>1. Pending(t)' \subseteq Reserved' /\ Reserved' \subseteq Tokens
    BY DEF Pending, Reserved
  <2> QED
    BY <2>1, TokensAssumption, FS_Subset, FS_CardinalityType DEF Uncounted
<1>7. Failures' \in Nat /\ Failures' + Cardinality(Reserved') <= MaxFailures
  BY LimitsAssumption DEF IInv, TypeOK, Throttle, Failures, LimitHolds
<1>8. Count(t)' <= MaxFailures - 1 + MaxFailures
  BY <1>4, <1>5, <1>6, <1>7, LimitsAssumption
<1> QED
  BY <1>4, <1>8, LimitsAssumption

LEMMA GuessesStep ==
  ASSUME RateInv, [Next]_vars, IInv', NoFuture', Short' => Attributed'
  PROVE  GuessesPerWindow'
<1> USE DEF RateInv
<1> SUFFICES ASSUME NEW t \in Time
             PROVE  Cardinality(Guesses(t)') < 2 * MaxFailures
  BY DEF GuessesPerWindow
<1>1. /\ Cardinality(Guesses(t)) < 2 * MaxFailures
      /\ IsFiniteSet(Guesses(t)) /\ Cardinality(Guesses(t)) \in Nat
  <2>1. Guesses(t) \subseteq From(0)
    BY DEF Guesses, From, IInv, TypeOK, Time
  <2> QED
    BY <2>1, FS_Subset, FS_CardinalityType DEF NoFuture, GuessesPerWindow
<1>2. ASSUME Guesses(t)' \subseteq Guesses(t)
      PROVE  Cardinality(Guesses(t)') < 2 * MaxFailures
  <2>1. /\ Cardinality(Guesses(t)') <= Cardinality(Guesses(t))
        /\ Cardinality(Guesses(t)') \in Nat
    BY <1>1, <1>2, FS_Subset, FS_CardinalityType
  <2> QED
    BY <1>1, <2>1, LimitsAssumption
<1>3. CASE UNCHANGED wrong
  <2>1. CASE longest' = longest
    BY <1>2, <1>3, <2>1 DEF Guesses
  <2>2. CASE longest' = longest + 1
    <3>1. \A v \in Time : /\ v + longest' < t + Window => v + longest < t + Window
                          /\ v + longest' < t + Lockout => v + longest < t + Lockout
      BY <2>2, Numbers, LimitsAssumption
    <3> QED
      BY <1>2, <1>3, <3>1 DEF Guesses
  <2> QED
    BY <2>1, <2>2, WrongSteps
<1>4. CASE wrong' = [v \in Time |-> 0]
  <2>1. Guesses(t)' = {}
    BY <1>4 DEF Guesses
  <2> QED
    BY <2>1, FS_EmptySet, LimitsAssumption
<1>5. ASSUME NEW w \in Workers, VerifyWrong(w)
      PROVE  Cardinality(Guesses(t)') < 2 * MaxFailures
  <2>1. /\ UNCHANGED <<clock, longest>>
        /\ \A v \in Time : v # clock => wrong'[v] = wrong[v]
    BY <1>5 DEF VerifyWrong, IInv, TypeOK
  <2>2. CASE /\ t <= clock
             /\ clock + longest < t + Window /\ clock + longest < t + Lockout
    <3>1. Short'
      BY <2>1, <2>2, Numbers, LimitsAssumption DEF Short
    <3> QED
      BY <2>1, <2>2, <3>1, SpanBounded
  <2>3. CASE ~(/\ t <= clock
               /\ clock + longest < t + Window /\ clock + longest < t + Lockout)
    BY <1>2, <2>1, <2>3 DEF Guesses
  <2> QED
    BY <2>2, <2>3
<1> QED
  BY <1>3, <1>4, <1>5, WrongSteps

LEMMA InitRate == Init => RateInv
<1> SUFFICES ASSUME Init PROVE RateInv
  OBVIOUS
<1>1. IInv
  BY InitIInv
<1>2. \A u : From(u) = {}
  BY DEF Init, From
<1>3. NoFuture
  BY <1>2, FS_EmptySet DEF Init, NoFuture
<1>4. GuessesPerWindow
  <2>1. \A t \in Time : Guesses(t) = {}
    BY DEF Init, Guesses
  <2> QED
    BY <2>1, FS_EmptySet, LimitsAssumption DEF GuessesPerWindow
<1>5. Owners /\ QuietAfterExpiry /\ QuietWhileLocked
  BY DEF Init, Owners, Held, At, Idle, QuietAfterExpiry, QuietWhileLocked
<1>6. \A u \in Nat : Count(u) = 0 /\ Uncounted(u) \in Nat
  BY <1>2, FS_EmptySet, PendingFinite DEF Count
<1>7. Accounted
  BY <1>6, Numbers, <1>1, LimitsAssumption DEF Init, Accounted, OverRow, ThisRow, TwoRows
<1> QED
  BY <1>1, <1>3, <1>4, <1>5, <1>7 DEF RateInv, Attributed

LEMMA NextRate == RateInv /\ [Next]_vars => RateInv'
<1> SUFFICES ASSUME RateInv, [Next]_vars PROVE RateInv'
  OBVIOUS
<1>1. IInv'
  BY NextIInv DEF RateInv
<1>2. NoFuture'
  BY NoFutureStep DEF RateInv
<1>3. ASSUME Short' PROVE Short
  <2>1. longest' = longest \/ longest' = longest + 1
    BY WrongSteps DEF RateInv
  <2> QED
    BY <1>3, <2>1, Numbers, LimitsAssumption DEF Short, RateInv
<1>4. Short' => Attributed'
  BY <1>3, NextQuick DEF RateInv, Quick
<1>5. GuessesPerWindow'
  BY <1>1, <1>2, <1>4, GuessesStep
<1> QED
  BY <1>1, <1>2, <1>4, <1>5 DEF RateInv

\* Without a success, any span as long as a window and a lockout less the longest
\* login sees fewer wrong passwords than twice max_failures, whatever workers race,
\* wait or are killed.
THEOREM GuessesLimited == Spec => []GuessesPerWindow
<1>1. RateInv => GuessesPerWindow
  BY DEF RateInv
<1> QED
  BY <1>1, InitRate, NextRate, PTL DEF Spec

=============================================================================
