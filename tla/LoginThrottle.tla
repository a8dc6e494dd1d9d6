--------------------------- MODULE LoginThrottle ---------------------------
(***************************************************************************)
(* The login throttle: the two tables of 007_login_throttle, the           *)
(* transactions of LoginThrottle in auth.py and the login route that calls *)
(* them.                                                                   *)
(*                                                                         *)
(* Each gunicorn worker handles one login at a time.  It reserves an       *)
(* attempt, verifies the password while no transaction is open, and        *)
(* finalises the attempt; it reads the clock before it waits for SQLite's  *)
(* write lock, and may be killed at any point, which leaves its            *)
(* reservation behind.  A transaction is a few steps under the lock: the   *)
(* reservations that expired are converted one by one, then the            *)
(* transaction does its own work and commits.  A worker killed inside a    *)
(* transaction is rolled back, so it counts as killed before it.           *)
(***************************************************************************)
EXTENDS Integers, FiniteSets

CONSTANTS
  Workers,        \* gunicorn worker processes
  Tokens,         \* reservation tokens
  None,           \* SQL NULL, or no row
  MaxFailures,    \* LoginThrottle.max_failures
  Window,         \* LoginThrottle.window
  Lockout,        \* LoginThrottle.lockout
  Timeout,        \* gunicorn --timeout: no request lasts longer
  MaxTime         \* bound on the clock (model checking only)

ASSUME TokensAssumption == IsFiniteSet(Tokens)

\* __post_init__: login throttle limits must be positive.
ASSUME LimitsAssumption ==
  /\ MaxFailures \in Nat \ {0} /\ Window \in Nat \ {0} /\ Lockout \in Nat \ {0}
  /\ Timeout \in Nat /\ MaxTime \in Nat

\* The service's 30 seconds are less than the 15 minutes of the throttle.
ASSUME TimeoutAssumption == Timeout <= Window /\ Timeout < Lockout

VARIABLES
  clock,     \* the wall clock every worker reads
  throttle,  \* the row of login_throttle, or None
  expires,   \* login_attempt_reservations: expires_at of each reserved token
  login,     \* the login each worker is in
  writer,    \* the worker whose transaction holds the write lock
  wrong,     \* history: wrong passwords verified at each instant since a success
  longest    \* history: the longest a login has lasted so far

vars == <<clock, throttle, expires, login, writer, wrong, longest>>

Time == 0 .. MaxTime

-----------------------------------------------------------------------------
(* Rows and logins *)

Throttle == [count : 0 .. MaxFailures, start : Nat, blocked : Nat \cup {None}]

ASSUME NoneAssumption ==
  None \notin Int /\ None \notin Workers /\ None \notin Tokens /\ None \notin Throttle

Idle == [pc |-> "idle", since |-> 0, now |-> 0, token |-> None]

Login == [pc : {"idle", "reserve", "verify", "failure", "success", "recheck"},
          since : Time, now : Time, token : Tokens \cup {None}]

At(w, pc) == login[w].pc = pc

Reserved == {t \in Tokens : expires[t] # None}

Failures == IF throttle = None THEN 0 ELSE throttle.count

LockedAt(instant) ==
  throttle # None /\ throttle.blocked # None /\ instant < throttle.blocked

\* reserve_attempt and is_blocked treat a row that has a lock, once the lock is
\* over, as expired whatever its window says.
ExpiredAt(instant) ==
  throttle # None /\ (throttle.blocked # None \/ instant - throttle.start >= Window)

Init ==
  /\ clock = 0
  /\ throttle = None
  /\ expires = [t \in Tokens |-> None]
  /\ login = [w \in Workers |-> Idle]
  /\ writer = None
  /\ wrong = [t \in Time |-> 0]
  /\ longest = 0

-----------------------------------------------------------------------------
(* Transactions *)

\* BEGIN IMMEDIATE was granted, or is granted now.
HoldsLock(w) == writer \in {None, w}

Goto(w, pc) == login' = [login EXCEPT ![w].pc = pc]

Return(w) == login' = [login EXCEPT ![w] = Idle]

Drop(t) == expires' = [expires EXCEPT ![t] = None]

\* The window a failure at `instant` is counted in is over.
WindowOver(instant) ==
  \/ throttle = None
  \/ instant - throttle.start >= Window
  \/ throttle.blocked # None /\ instant >= throttle.blocked

\* Mutant: the row's first failure counts as none.
CountFromZero(instant) == IF WindowOver(instant) THEN 0 ELSE throttle.count + 1

CountAfter(instant) == IF WindowOver(instant) THEN 1 ELSE throttle.count + 1

\* _persist_failure
PersistFailure(instant) ==
  throttle' =
    [count   |-> CountAfter(instant),
     start   |-> IF WindowOver(instant) THEN instant ELSE throttle.start,
     blocked |-> IF CountAfter(instant) >= MaxFailures THEN instant + Lockout
                                                       ELSE None]

\* Reservations the transaction of an instant finds expired, the oldest first.
Expired(instant) == {t \in Reserved : expires[t] <= instant}

Oldest(instant) ==
  {t \in Expired(instant) : \A u \in Expired(instant) : expires[t] <= expires[u]}

\* Mutant: the failure is dated at the instant of the reservation.
ConvertAtReserved(w) ==
  /\ At(w, "reserve") \/ At(w, "recheck")
  /\ HoldsLock(w)
  /\ \E t \in Oldest(login[w].now) : Drop(t) /\ PersistFailure(expires[t] - Window)
  /\ writer' = w
  /\ UNCHANGED <<clock, login, wrong, longest>>

\* One round of _convert_expired_reservations: a failure at the instant the
\* reservation expired.
Convert(w) ==
  /\ At(w, "reserve") \/ At(w, "recheck")
  /\ HoldsLock(w)
  /\ \E t \in Oldest(login[w].now) : Drop(t) /\ PersistFailure(expires[t])
  /\ writer' = w
  /\ UNCHANGED <<clock, login, wrong, longest>>

Converted(w) == HoldsLock(w) /\ Expired(login[w].now) = {}

-----------------------------------------------------------------------------
(* reserve_attempt *)

\* POST /login reads the clock, then waits for the lock.
StartLogin(w) ==
  /\ At(w, "idle")
  /\ login' = [login EXCEPT ![w] = [pc |-> "reserve", since |-> clock, now |-> clock,
                                    token |-> None]]
  /\ UNCHANGED <<clock, throttle, expires, writer, wrong, longest>>

\* Mutant: attempts that are not finished are not counted.
FullOfFailures(failures) == failures >= MaxFailures

\* Failures and pending attempts leave no room for another attempt.
Full(failures) == failures + Cardinality(Reserved) >= MaxFailures

FailuresAt(instant) == IF ExpiredAt(instant) THEN 0 ELSE Failures

\* Mutant: the expired row is ignored, not deleted.
RowIgnored(instant) == UNCHANGED throttle

RowWithoutExpired(instant) ==
  throttle' = IF ExpiredAt(instant) THEN None ELSE throttle

\* The throttle row is locked, or failures and pending attempts reach the limit;
\* the answer is 429.  An expired row is deleted and the deletion committed.
Refuse(w) ==
  LET now == login[w].now
  IN /\ At(w, "reserve") /\ Converted(w)
     /\ \/ LockedAt(now) /\ UNCHANGED throttle
        \/ ~LockedAt(now) /\ Full(FailuresAt(now)) /\ RowWithoutExpired(now)
     /\ Return(w)
     /\ writer' = None
     /\ UNCHANGED <<clock, expires, wrong, longest>>

Admit(w) ==
  LET now == login[w].now
  IN /\ At(w, "reserve") /\ Converted(w)
     /\ ~LockedAt(now) /\ ~Full(FailuresAt(now))
     /\ RowWithoutExpired(now)
     /\ \E t \in Tokens \ Reserved :
          /\ \A v \in Workers : login[v].token # t
          /\ expires' = [expires EXCEPT ![t] = now + Window]
          /\ login' = [login EXCEPT ![w] = [@ EXCEPT !.pc = "verify", !.token = t]]
     /\ writer' = None
     /\ UNCHANGED <<clock, wrong, longest>>

-----------------------------------------------------------------------------
(* The password, and what becomes of the attempt *)

VerifyRight(w) ==
  /\ At(w, "verify")
  /\ Goto(w, "success")
  /\ UNCHANGED <<clock, throttle, expires, writer, wrong, longest>>

\* The clock is read again before finalize_failure waits for the lock.
VerifyWrong(w) ==
  /\ At(w, "verify")
  /\ login' = [login EXCEPT ![w] = [@ EXCEPT !.pc = "failure", !.now = clock]]
  /\ wrong' = [wrong EXCEPT ![clock] = @ + 1]
  /\ UNCHANGED <<clock, throttle, expires, writer, longest>>

\* finalize_failure of a reservation that is still there; it converts no other.
FinalizeFailure(w) ==
  LET t == login[w].token
  IN /\ At(w, "failure") /\ writer = None
     /\ t \in Reserved
     /\ Drop(t) /\ PersistFailure(login[w].now)
     /\ Return(w)
     /\ UNCHANGED <<clock, writer, wrong, longest>>

\* finalize_failure of a reservation another worker has converted already.
FinalizeConverted(w) ==
  /\ At(w, "failure") /\ writer = None
  /\ login[w].token \notin Reserved
  /\ Goto(w, "recheck")
  /\ UNCHANGED <<clock, throttle, expires, writer, wrong, longest>>

\* is_blocked: a row whose lock or window is over is set back to zero failures.
IsBlocked(w) ==
  LET now == login[w].now
  IN /\ At(w, "recheck") /\ Converted(w)
     /\ throttle' = IF ExpiredAt(now) /\ ~LockedAt(now)
                    THEN [count |-> 0, start |-> now, blocked |-> None]
                    ELSE throttle
     /\ Return(w)
     /\ writer' = None
     /\ UNCHANGED <<clock, expires, wrong, longest>>

\* Mutant: the row is cleared even when the reservation was converted.
FinalizeSuccessAlways(w) ==
  /\ At(w, "success") /\ writer = None
  /\ Drop(login[w].token)
  /\ throttle' = None
  /\ Return(w)
  /\ wrong' = [t \in Time |-> 0]
  /\ UNCHANGED <<clock, writer, longest>>

\* finalize_success clears the failures, unless the reservation was converted.
FinalizeSuccess(w) ==
  LET reserved == login[w].token \in Reserved
  IN /\ At(w, "success") /\ writer = None
     /\ Drop(login[w].token)
     /\ throttle' = IF reserved THEN None ELSE throttle
     /\ wrong' = IF reserved THEN [t \in Time |-> 0] ELSE wrong
     /\ Return(w)
     /\ UNCHANGED <<clock, writer, longest>>

-----------------------------------------------------------------------------
(* Killed workers, the clock *)

\* gunicorn kills a worker that does not answer in time, or it dies earlier.
Kill(w) ==
  /\ ~At(w, "idle") /\ writer # w
  /\ Return(w)
  /\ UNCHANGED <<clock, throttle, expires, writer, wrong, longest>>

\* No request lasts longer than Timeout.
Tick ==
  /\ clock < MaxTime
  /\ \A w \in Workers : At(w, "idle") \/ clock < login[w].since + Timeout
  /\ clock' = clock + 1
  /\ longest' = IF \E w \in Workers : ~At(w, "idle") /\ clock - login[w].since = longest
                THEN longest + 1 ELSE longest
  /\ UNCHANGED <<throttle, expires, login, writer, wrong>>

Step(w) ==
  \/ StartLogin(w)
  \/ Convert(w)
  \/ Refuse(w)
  \/ Admit(w)
  \/ VerifyRight(w)
  \/ VerifyWrong(w)
  \/ FinalizeFailure(w)
  \/ FinalizeConverted(w)
  \/ IsBlocked(w)
  \/ FinalizeSuccess(w)
  \/ Kill(w)

Next == Tick \/ \E w \in Workers : Step(w)

Spec == Init /\ [][Next]_vars

-----------------------------------------------------------------------------
(* Properties *)

TypeOK ==
  /\ clock \in Time
  /\ throttle \in Throttle \cup {None}
  /\ expires \in [Tokens -> Nat \cup {None}]
  /\ login \in [Workers -> Login]
  /\ writer \in Workers \cup {None}
  /\ wrong \in [Time -> Nat]
  /\ longest \in 0 .. Timeout

\* Two workers, killed ones and their late conversions never let failures and
\* pending attempts exceed the limit, and the row is locked exactly at the limit:
\* while it is, no attempt is pending, so none can be finalised into it.
LimitHolds ==
  /\ Failures + Cardinality(Reserved) <= MaxFailures
  /\ throttle # None => (throttle.blocked # None <=> throttle.count = MaxFailures)

\* 007_login_throttle CHECK (blocked_until > window_started_at): a failure
\* converted late, at the earlier instant its reservation expired, never aborts
\* the transaction that converts it.
CheckHolds ==
  (throttle # None /\ throttle.blocked # None) => throttle.blocked > throttle.start

\* A lock is neither lifted nor shortened nor prolonged before its instant: not by
\* a success or a failure that was under way, nor by a converted reservation.
LockIsKept == [][LockedAt(clock) => throttle' = throttle]_vars

\* Wrong passwords verified from an instant on, for as long as both a window and a
\* lockout last, less the time the longest login took.
Guesses(t) ==
  UNION {{u} \X (1 .. wrong[u]) :
           u \in {v \in Time : /\ t <= v
                              /\ v + longest < t + Window
                              /\ v + longest < t + Lockout}}

\* What the throttle is for: without a success, such a span sees at most the
\* failures left over from one throttle window and a full second one, whatever
\* workers race, are killed before they finalise, or read the clock before they
\* wait.  A window starts at the instant of a failure that may be recorded late, so
\* it can be over sooner after the one before by as long as a login takes.
GuessesPerWindow == \A t \in Time : Cardinality(Guesses(t)) < 2 * MaxFailures
=============================================================================
