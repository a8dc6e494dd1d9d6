----------------------- MODULE CollectorDeliveryProofs -----------------------
(***************************************************************************)
(* What is proved of CollectorDelivery, for any number of windows, server  *)
(* processes, credentials, firms and batches.                              *)
(***************************************************************************)
EXTENDS CollectorDelivery, TLAPS, FiniteSetTheorems, WellFoundedInduction

-----------------------------------------------------------------------------
(* The inductive invariant *)

\* A run under way has a batch to upload, of those staged, and a credential; the
\* receipt it is about to record is the server's verdict on that batch.
RunsAgree ==
  \A a \in Apps :
    /\ app[a].pc \in {"upload", "waiting", "record"} => app[a].todo # {}
    /\ app[a].pc # "idle" => app[a].device \in Devices
    /\ \A i \in app[a].todo : outbox[i].state # "none"
    /\ app[a].pc = "record" => /\ app[a].receipt \in Verdicts
                               /\ import[NextBatch(a)].state = app[a].receipt

\* The server only knows imports that were staged, and a batch that left the
\* outbox took the verdict along.
BatchesAgree ==
  \A i \in ImportIds :
    /\ outbox[i].state # "none" => outbox[i].payload \in Payloads
    /\ outbox[i].state = "none" => import[i].state = "none"
    /\ outbox[i].state \in {"uploaded", "pruned"} => import[i].state = outbox[i].receipt

ImportsAreWhole ==
  \A i \in ImportIds :
    /\ import[i].state # "none" => import[i].payload \in Payloads /\ import[i].device \in Devices
    /\ import[i].state \in Verdicts => import[i].processed \in Instants

\* What a server process remembers of the import it works on is still so.
HandlersAgree ==
  \A h \in Handlers :
    /\ handler[h].pc # "free" => outbox[Request(h).id].state # "none"
    /\ handler[h].pc \in {"process", "ingest"} =>
         /\ import[Request(h).id].state # "none"
         /\ import[Request(h).id].payload = Request(h).payload
    /\ (handler[h].pc = "answer" /\ handler[h].result \in Verdicts) =>
         import[Request(h).id].state = handler[h].result

RequestsAgree == \A r \in network : outbox[r.id].state # "none"

Waits(r) == app[r.client].pc = "waiting" /\ r.id = NextBatch(r.client)

\* A window waits for one request, wherever that is.
CallersWait ==
  /\ \A r \in network : r.client # None =>
       /\ Waits(r)
       /\ \A q \in network : q.client = r.client => q = r
       /\ \A h \in Handlers : handler[h].pc # "free" => Request(h).client # r.client
  /\ \A h \in Handlers : (handler[h].pc # "free" /\ Request(h).client # None) =>
       /\ Waits(Request(h))
       /\ \A g \in Handlers \ {h} :
            handler[g].pc # "free" => Request(g).client # Request(h).client

IInv ==
  /\ TypeOK /\ RunsAgree /\ BatchesAgree /\ ImportsAreWhole
  /\ HandlersAgree /\ RequestsAgree /\ CallersWait
  /\ LimitsHold /\ RecordsAreOfAcceptedImports

-----------------------------------------------------------------------------
(* The least of some import ids *)

LEMMA MinExists ==
  ASSUME NEW T, T \subseteq Nat, T # {}
  PROVE  \E x \in T : \A y \in T : x <= y
<1> DEFINE R == {ss \in Nat \X Nat : ss[1] < ss[2]}
<1>1. IsWellFoundedOn(R, Nat)
  BY NatLessThanWellFounded, SMT DEF OpToRel
<1>2. \E x \in T : \A y \in T : ~(<<y, x>> \in R)
  <2> HIDE DEF R
  <2> QED
    BY <1>1, WFMin
<1>3. \A x, y \in T : (~(<<y, x>> \in R)) => x <= y
  BY SMT
<1> QED
  BY <1>2, <1>3

LEMMA FirstIn ==
  ASSUME NEW ids, ids \subseteq ImportIds, ids # {}
  PROVE  First(ids) \in ids
<1>1. ImportIds \subseteq Nat
  BY LimitsAssumption DEF ImportIds
<1>2. \E i \in ids : \A k \in ids : i <= k
  BY <1>1, MinExists
<1> QED
  BY <1>2 DEF First

-----------------------------------------------------------------------------
(* Types *)

Batches == [state : {"none", "pending", "uploaded", "pruned"},
            payload : Payloads \cup {None}, receipt : Verdicts \cup {None}]

Runs == [pc : {"idle", "staged", "upload", "waiting", "record"},
         device : Devices \cup {None}, todo : SUBSET ImportIds,
         receipt : Verdicts \cup {None}]

Imports == [state : {"none", "pending"} \cup Verdicts, device : Devices \cup {None},
            payload : Payloads \cup {None}, processed : Instants \cup {None}]

LEMMA HandlerTypes ==
  ASSUME NEW s \in HandlerStates
  PROVE  /\ s.pc \in {"free", "admit", "store", "process", "ingest", "answer"}
         /\ s.pc # "free" => s.request \in Requests
         /\ s.pc = "ingest" => s.now \in Instants
         /\ s.pc = "answer" => s.result \in Verdicts \cup {"refused", "unavailable"}
BY DEF HandlerStates

LEMMA HandlerMade ==
  /\ [pc |-> "free"] \in HandlerStates
  /\ \A r \in Requests :
       /\ \A pc \in {"admit", "store", "process"} :
            [pc |-> pc, request |-> r] \in HandlerStates
       /\ \A now \in Instants :
            [pc |-> "ingest", request |-> r, now |-> now] \in HandlerStates
       /\ \A v \in Verdicts \cup {"refused", "unavailable"} :
            [pc |-> "answer", request |-> r, result |-> v] \in HandlerStates
BY DEF HandlerStates

LEMMA GoesOnType ==
  ASSUME TypeOK, NEW a \in Apps
  PROVE  /\ GoesOn(a) \in [Apps -> Runs]
         /\ \A b \in Apps \ {a} : GoesOn(a)[b] = app[b]
         /\ GoesOn(a)[a].pc \in {"idle", "upload"}
         /\ GoesOn(a)[a].todo \subseteq app[a].todo
         /\ GoesOn(a)[a].pc = "upload" =>
              GoesOn(a)[a].todo # {} /\ GoesOn(a)[a].device = app[a].device
<1> DEFINE rest == app[a].todo \ {NextBatch(a)}
           next == IF rest = {} THEN Idle
                   ELSE [app[a] EXCEPT !.pc = "upload", !.todo = rest, !.receipt = None]
<1>1. app \in [Apps -> Runs] /\ app[a] \in Runs
  BY DEF TypeOK, Runs
<1>2. /\ next \in Runs /\ next.pc \in {"idle", "upload"}
      /\ next.todo \subseteq app[a].todo
      /\ next.pc = "upload" => next.todo # {} /\ next.device = app[a].device
  BY <1>1 DEF Runs, Idle
<1>3. GoesOn(a) = [app EXCEPT ![a] = next]
  BY DEF GoesOn
<1> HIDE DEF next
<1> QED
  BY <1>1, <1>2, <1>3

LEMMA RequestAlone ==
  ASSUME NEW r \in Requests
  PROVE  /\ [r EXCEPT !.client = None] \in Requests
         /\ [r EXCEPT !.client = None].client = None
         /\ [r EXCEPT !.client = None].id = r.id
         /\ [r EXCEPT !.client = None].payload = r.payload
         /\ r.id \in ImportIds /\ r.payload \in Payloads /\ r.device \in Devices
         /\ r.client \in Apps \cup {None}
BY DEF Requests

\* A request that is abandoned is the one it was, except for its client.
LEMMA AbandonedRequests ==
  ASSUME TypeOK, NEW a \in Apps, Abandoned(a)
  PROVE  /\ network' \subseteq Requests
         /\ \A r \in network' : \E q \in network :
              /\ r.id = q.id /\ r.payload = q.payload
              /\ r.client # None => r = q /\ r.client # a
<1>1. network \subseteq Requests /\ a # None
  BY NoneAssumption DEF TypeOK
<1>2. ASSUME NEW r \in network'
      PROVE  r \in Requests /\ \E q \in network :
               /\ r.id = q.id /\ r.payload = q.payload
               /\ r.client # None => r = q /\ r.client # a
  <2>1. PICK q \in network : r = IF q.client = a THEN [q EXCEPT !.client = None] ELSE q
    BY DEF Abandoned
  <2> QED
    BY <1>1, <2>1, RequestAlone
<1> QED
  BY <1>2

LEMMA AbandonedHandlers ==
  ASSUME TypeOK, NEW a \in Apps, Abandoned(a)
  PROVE  /\ handler' \in [Handlers -> HandlerStates]
         /\ \A h \in Handlers :
              /\ handler'[h].pc = handler[h].pc
              /\ handler[h].pc # "free" =>
                   /\ Request(h)'.id = Request(h).id
                   /\ Request(h)'.payload = Request(h).payload
                   /\ Request(h)'.client # None =>
                        Request(h)' = Request(h) /\ Request(h).client # a
              /\ handler[h].pc = "answer" => handler'[h].result = handler[h].result
<1> SUFFICES ASSUME NEW h \in Handlers
             PROVE  /\ handler'[h] \in HandlerStates
                    /\ handler'[h].pc = handler[h].pc
                    /\ handler[h].pc # "free" =>
                         /\ Request(h)'.id = Request(h).id
                         /\ Request(h)'.payload = Request(h).payload
                         /\ Request(h)'.client # None =>
                              Request(h)' = Request(h) /\ Request(h).client # a
                    /\ handler[h].pc = "answer" => handler'[h].result = handler[h].result
  BY DEF Abandoned
<1> DEFINE s == handler[h]
<1>1. s \in HandlerStates /\ a # None
  BY NoneAssumption DEF TypeOK
<1>2. CASE s.pc # "free" /\ s.request.client = a
  <2>1. handler'[h] = [s EXCEPT !.request.client = None]
    BY <1>2 DEF Abandoned, Request
  <2>2. s.request \in Requests
    BY <1>1, <1>2, HandlerTypes
  <2>3. /\ handler'[h].pc = s.pc
        /\ handler'[h].request = [s.request EXCEPT !.client = None]
        /\ s.pc = "answer" => handler'[h].result = s.result
    BY <1>1, <1>2, <2>1 DEF HandlerStates
  <2>4. handler'[h] \in HandlerStates
    <3>1. [s.request EXCEPT !.client = None] \in Requests
      BY <2>2, RequestAlone
    <3> QED
      BY <1>1, <1>2, <2>1, <3>1 DEF HandlerStates
  <2> QED
    BY <2>2, <2>3, <2>4, RequestAlone DEF Request
<1>3. CASE ~(s.pc # "free" /\ s.request.client = a)
  BY <1>1, <1>3 DEF Abandoned, Request
<1> QED
  BY <1>2, <1>3

LEMMA TypeInit == Init => TypeOK
<1> SUFFICES ASSUME Init PROVE TypeOK
  OBVIOUS
<1>1. outbox \in [ImportIds -> Batches] /\ import \in [ImportIds -> Imports]
  BY DEF Init, NoBatch, NoImport, Batches, Imports
<1>2. app \in [Apps -> Runs] /\ handler \in [Handlers -> HandlerStates]
  BY HandlerMade DEF Init, Idle, Runs
<1>3. device \in [Devices -> [revoked : BOOLEAN, requests : 0 .. RequestLimit]]
  BY LimitsAssumption DEF Init
<1>4. clock \in Instants /\ faults \in 0 .. MaxFaults
  BY LimitsAssumption DEF Init, Instants
<1> QED
  BY <1>1, <1>2, <1>3, <1>4 DEF Init, TypeOK, NoBatch, Batches, Runs, Imports

LEMMA Parts ==
  TypeOK <=> /\ outbox \in [ImportIds -> Batches] /\ app \in [Apps -> Runs]
             /\ \A i \in ImportIds :
                  (outbox[i].receipt = None) <=> outbox[i].state \in {"none", "pending"}
             /\ network \subseteq Requests /\ handler \in [Handlers -> HandlerStates]
             /\ device \in [Devices -> [revoked : BOOLEAN, requests : 0 .. RequestLimit]]
             /\ import \in [ImportIds -> Imports]
             /\ firm \in [Firms -> [source : Sources \cup {None}, seen : Instants \cup {None}]]
             /\ linked \subseteq Linkable
             /\ queued \in [Firms \X Sources -> ImportIds \cup {None}]
             /\ clock \in Instants /\ faults \in 0 .. MaxFaults
BY DEF TypeOK, Batches, Runs, Imports

LEMMA PartsNext ==
  TypeOK' <=> /\ outbox' \in [ImportIds -> Batches] /\ app' \in [Apps -> Runs]
              /\ \A i \in ImportIds :
                   (outbox'[i].receipt = None) <=> outbox'[i].state \in {"none", "pending"}
              /\ network' \subseteq Requests /\ handler' \in [Handlers -> HandlerStates]
              /\ device' \in [Devices -> [revoked : BOOLEAN, requests : 0 .. RequestLimit]]
              /\ import' \in [ImportIds -> Imports]
              /\ firm' \in [Firms -> [source : Sources \cup {None}, seen : Instants \cup {None}]]
              /\ linked' \subseteq Linkable
              /\ queued' \in [Firms \X Sources -> ImportIds \cup {None}]
              /\ clock' \in Instants /\ faults' \in 0 .. MaxFaults
BY DEF TypeOK, Batches, Runs, Imports

LEMMA FaultType == ASSUME TypeOK, Fault PROVE faults' \in 0 .. MaxFaults
BY LimitsAssumption DEF TypeOK, Fault

LEMMA HandlerSet ==
  ASSUME TypeOK, NEW h \in Handlers, NEW s \in HandlerStates
  PROVE  [handler EXCEPT ![h] = s] \in [Handlers -> HandlerStates]
BY DEF TypeOK

LEMMA AnswerType ==
  ASSUME TypeOK, NEW h \in Handlers, handler[h].pc # "free",
         NEW v \in Verdicts \cup {"refused", "unavailable"}, Answer(h, v)
  PROVE  handler' \in [Handlers -> HandlerStates]
<1> DEFINE s == [pc |-> "answer", request |-> Request(h), result |-> v]
<1>1. s \in HandlerStates
  BY HandlerTypes, HandlerMade DEF TypeOK, Request
<1>2. handler' = [handler EXCEPT ![h] = s]
  BY DEF Answer
<1> HIDE DEF s
<1> QED
  BY <1>1, <1>2, HandlerSet

LEMMA GotoType ==
  ASSUME TypeOK, NEW h \in Handlers, handler[h].pc # "free",
         NEW pc \in {"admit", "store", "process"}, Goto(h, pc)
  PROVE  handler' \in [Handlers -> HandlerStates]
<1> DEFINE s == [pc |-> pc, request |-> Request(h)]
<1>1. s \in HandlerStates
  BY HandlerTypes, HandlerMade DEF TypeOK, Request
<1>2. handler' = [handler EXCEPT ![h] = s]
  BY DEF Goto
<1> HIDE DEF s
<1> QED
  BY <1>1, <1>2, HandlerSet

LEMMA TypeStage ==
  ASSUME TypeOK, NEW a \in Apps, NEW d \in Devices, NEW p \in Payloads, Stage(a, d, p)
  PROVE  TypeOK'
<1>1. app' \in [Apps -> Runs]
  <2>1. [Idle EXCEPT !.pc = "staged", !.device = d] \in Runs
    BY DEF Idle, Runs
  <2> QED
    BY <2>1, Parts DEF Stage
<1>2. ASSUME NEW old \in SUBSET InState("uploaded")
      PROVE  /\ Pruned(old) \in [ImportIds -> Batches]
             /\ \A i \in ImportIds :
                  (Pruned(old)[i].receipt = None) <=> Pruned(old)[i].state \in {"none", "pending"}
  BY <1>2, Parts DEF Pruned, InState, Batches
<1>3. /\ outbox' \in [ImportIds -> Batches]
      /\ \A i \in ImportIds :
           (outbox'[i].receipt = None) <=> outbox'[i].state \in {"none", "pending"}
  <2>1. PICK old \in SUBSET InState("uploaded") :
          \/ outbox' = Pruned(old)
          \/ outbox' = [Pruned(old) EXCEPT ![NextId] =
                          [state |-> "pending", payload |-> p, receipt |-> None]]
    BY DEF Stage
  <2>2. [state |-> "pending", payload |-> p, receipt |-> None] \in Batches
    BY DEF Batches
  <2> QED
    BY <1>2, <2>1, <2>2
<1> QED
  BY <1>1, <1>3, Parts, PartsNext DEF Stage, server

LEMMA TypeRecord ==
  ASSUME TypeOK, RunsAgree, NEW a \in Apps, Record(a)
  PROVE  TypeOK'
<1> DEFINE i == NextBatch(a)
<1>1. i \in ImportIds
  BY FirstIn, Parts DEF Record, RunsAgree, NextBatch, Runs
<1>2. app[a].receipt \in Verdicts
  BY DEF Record, RunsAgree
<1>3. /\ outbox' \in [ImportIds -> Batches]
      /\ \A k \in ImportIds :
           (outbox'[k].receipt = None) <=> outbox'[k].state \in {"none", "pending"}
  <2>1. [outbox[i] EXCEPT !.state = "uploaded", !.receipt = app[a].receipt] \in Batches
    BY <1>1, <1>2, Parts DEF Batches
  <2>2. \/ outbox' = outbox
        \/ outbox' = [outbox EXCEPT ![i] =
             [outbox[i] EXCEPT !.state = "uploaded", !.receipt = app[a].receipt]]
    BY DEF Record
  <2>3. app[a].receipt # None
    BY <1>2, NoneAssumption
  <2>4. outbox[i] \in Batches
    BY <1>1, Parts
  <2>5. [outbox[i] EXCEPT !.state = "uploaded", !.receipt = app[a].receipt].state = "uploaded"
        /\ [outbox[i] EXCEPT !.state = "uploaded", !.receipt = app[a].receipt].receipt = app[a].receipt
    BY <2>4 DEF Batches
  <2> HIDE DEF i
  <2> QED
    BY <1>1, <2>1, <2>2, <2>3, <2>5, Parts
<1> QED
  BY <1>3, GoesOnType, Parts, PartsNext DEF Record, server

LEMMA TypeIngest ==
  ASSUME TypeOK, NEW h \in Handlers, Ingest(h)
  PROVE  TypeOK'
<1> DEFINE r == Request(h)
           now == handler[h].now
<1>1. r \in Requests /\ now \in Instants /\ r.id \in ImportIds /\ r.payload \in Payloads
  BY HandlerTypes, RequestAlone, Parts DEF Ingest, Request
<1>2. handler' \in [Handlers -> HandlerStates]
  <2>1. \E v \in Verdicts \cup {"refused", "unavailable"} : Answer(h, v)
    BY DEF Ingest, Write, Decided, Verdicts
  <2> QED
    BY <2>1, AnswerType DEF Ingest
<1>3. import' \in [ImportIds -> Imports]
  <2>1. \/ import' = import
        \/ \E v \in Verdicts : import' = [import EXCEPT ![r.id] =
                                 [import[r.id] EXCEPT !.state = v, !.processed = now]]
    BY DEF Ingest, Write, Decided, Verdicts
  <2>2. \A v \in Verdicts :
          [import[r.id] EXCEPT !.state = v, !.processed = now] \in Imports
    BY <1>1, Parts DEF Imports
  <2> QED
    BY <2>1, <2>2, Parts
<1>4. firm' \in [Firms -> [source : Sources \cup {None}, seen : Instants \cup {None}]]
  <2>1. Observed(r.payload, now) \in
          [Firms -> [source : Sources \cup {None}, seen : Instants \cup {None}]]
    BY <1>1, PayloadsAssumption, Parts DEF Observed
  <2> QED
    BY <2>1, Parts DEF Ingest, Write
<1>5. queued' \in [Firms \X Sources -> ImportIds \cup {None}]
  <2>1. Enqueued(r) \in [Firms \X Sources -> ImportIds \cup {None}]
    BY <1>1, Parts DEF Enqueued
  <2> QED
    BY <2>1, Parts DEF Ingest, Write
<1> QED
  BY <1>2, <1>3, <1>4, <1>5, Parts, PartsNext DEF Ingest, desktop

LEMMA TypeNext ==
  ASSUME TypeOK, RunsAgree, BatchesAgree, CallersWait, [Next]_vars
  PROVE  TypeOK'
<1>1. ASSUME NEW a \in Apps, NEW d \in Devices, RetryPending(a, d) PROVE TypeOK'
  <2>1. app' \in [Apps -> Runs]
    BY <1>1, Parts DEF RetryPending, Idle, Runs, InState
  <2> QED
    BY <1>1, <2>1, Parts, PartsNext DEF RetryPending, server
<1>2. ASSUME NEW a \in Apps, Upload(a) PROVE TypeOK'
  <2>1. app' \in [Apps -> Runs]
    <3>1. [app[a] EXCEPT !.pc = "waiting"] \in Runs
      <4>1. app[a] \in Runs
        BY Parts
      <4> QED
        BY <4>1 DEF Runs
    <3>2. app' = [app EXCEPT ![a] = [app[a] EXCEPT !.pc = "waiting"]]
      BY <1>2 DEF Upload
    <3> QED
      BY <3>1, <3>2, Parts
  <2>2. NextBatch(a) \in app[a].todo /\ app[a].todo \subseteq ImportIds
    BY <1>2, FirstIn, Parts DEF Upload, RunsAgree, NextBatch, Runs
  <2>3. outbox[NextBatch(a)].payload \in Payloads /\ app[a].device \in Devices
    BY <1>2, <2>2 DEF Upload, RunsAgree, BatchesAgree
  <2>4. network' \subseteq Requests
    BY <1>2, <2>2, <2>3, Parts DEF Upload, Requests
  <2> QED
    BY <1>2, <2>1, <2>4, Parts, PartsNext DEF Upload, server
<1>3. ASSUME NEW a \in Apps, RequestLost(a) PROVE TypeOK'
  BY <1>3, GoesOnType, FaultType, Parts, PartsNext DEF RequestLost, server
<1>4. ASSUME NEW a \in Apps, GiveUp(a) PROVE TypeOK'
  BY <1>4, GoesOnType, AbandonedRequests, AbandonedHandlers, FaultType, Parts, PartsNext
     DEF GiveUp, server
<1>5. ASSUME NEW a \in Apps, AppDies(a) PROVE TypeOK'
  <2>1. app' \in [Apps -> Runs]
    BY <1>5, Parts DEF AppDies, Idle, Runs
  <2> QED
    BY <1>5, <2>1, AbandonedRequests, AbandonedHandlers, FaultType, Parts, PartsNext
       DEF AppDies, server
<1>6. ASSUME NEW h \in Handlers, Accept(h) PROVE TypeOK'
  <2>1. PICK r \in network :
          /\ network' = network \ {r}
          /\ handler' = [handler EXCEPT ![h] = [pc |-> "admit", request |-> r]]
    BY <1>6 DEF Accept
  <2>2. [pc |-> "admit", request |-> r] \in HandlerStates
    BY HandlerMade, Parts
  <2>3. handler' \in [Handlers -> HandlerStates]
    BY <2>1, <2>2, HandlerSet
  <2> QED
    BY <1>6, <2>1, <2>3, Parts, PartsNext DEF Accept, desktop, server
<1>7. ASSUME NEW h \in Handlers, Admit(h) PROVE TypeOK'
  <2>1. Request(h) \in Requests /\ Request(h).device \in Devices
    BY <1>7, HandlerTypes, RequestAlone, Parts DEF Admit, Request
  <2>2. handler' \in [Handlers -> HandlerStates]
    BY <1>7, AnswerType, GotoType DEF Admit
  <2>3. device' \in [Devices -> [revoked : BOOLEAN, requests : 0 .. RequestLimit]]
    BY <1>7, <2>1, LimitsAssumption, Parts DEF Admit
  <2> QED
    BY <1>7, <2>2, <2>3, Parts, PartsNext DEF Admit, desktop
<1>8. ASSUME NEW h \in Handlers, Store(h) PROVE TypeOK'
  <2>1. Request(h) \in Requests
    BY <1>8, HandlerTypes, Parts DEF Store, Request
  <2>2. handler' \in [Handlers -> HandlerStates]
    BY <1>8, AnswerType, GotoType DEF Store, Verdicts
  <2>3. import' \in [ImportIds -> Imports]
    <3>1. \/ import' = import
          \/ StoreRow(Request(h))
      BY <1>8 DEF Store
    <3>2. [state |-> "pending", device |-> Request(h).device,
           payload |-> Request(h).payload, processed |-> None] \in Imports
      BY <2>1, RequestAlone DEF Imports
    <3> QED
      BY <3>1, <3>2, <2>1, RequestAlone, Parts DEF StoreRow
  <2> QED
    BY <1>8, <2>2, <2>3, Parts, PartsNext DEF Store, desktop
<1>9. ASSUME NEW h \in Handlers, ReadClock(h) PROVE TypeOK'
  <2>1. Request(h) \in Requests
    BY <1>9, HandlerTypes, Parts DEF ReadClock, Request
  <2> QED
    BY <1>9, <2>1, HandlerMade, Parts, PartsNext DEF ReadClock, desktop, server
<1>10. ASSUME NEW h \in Handlers, Reply(h) PROVE TypeOK'
  <2>1. /\ Request(h).client \in Apps \cup {None}
        /\ handler[h].result \in Verdicts \cup {"refused", "unavailable"}
    BY <1>10, HandlerTypes, RequestAlone, Parts DEF Reply, Request
  <2>2. \A a \in Apps, v \in Verdicts :
          [app EXCEPT ![a].pc = "record", ![a].receipt = v] \in [Apps -> Runs]
    <3> SUFFICES ASSUME NEW a \in Apps, NEW v \in Verdicts
                 PROVE  [app EXCEPT ![a].pc = "record", ![a].receipt = v] \in [Apps -> Runs]
      OBVIOUS
    <3> DEFINE run == [app[a] EXCEPT !.pc = "record", !.receipt = v]
    <3>1. run \in Runs
      <4>1. app[a] \in Runs
        BY Parts
      <4> QED
        BY <4>1 DEF Runs
    <3>2. [app EXCEPT ![a].pc = "record", ![a].receipt = v] = [app EXCEPT ![a] = run]
      BY Parts
    <3> HIDE DEF run
    <3> QED
      BY <3>1, <3>2, Parts
  <2>3. app' \in [Apps -> Runs]
    BY <1>10, <2>1, <2>2, GoesOnType, Parts DEF Reply
  <2> QED
    BY <1>10, <2>3, HandlerMade, Parts, PartsNext DEF Reply, server
<1>11. ASSUME NEW h \in Handlers, HandlerDies(h) PROVE TypeOK'
  <2>1. Request(h).client \in Apps \cup {None}
    BY <1>11, HandlerTypes, RequestAlone, Parts DEF HandlerDies, Request
  <2> QED
    BY <1>11, <2>1, HandlerMade, GoesOnType, FaultType, Parts, PartsNext DEF HandlerDies, server
<1>12. ASSUME NEW d \in Devices, Revoke(d) \/ WindowEnds(d) PROVE TypeOK'
  <2>1. device' \in [Devices -> [revoked : BOOLEAN, requests : 0 .. RequestLimit]]
    <3> DEFINE Credentials == [revoked : BOOLEAN, requests : 0 .. RequestLimit]
    <3>1. device[d] \in Credentials
      BY Parts
    <3>2. \E c \in Credentials : device' = [device EXCEPT ![d] = c]
      <4>1. /\ [device[d] EXCEPT !.revoked = TRUE] \in Credentials
            /\ [device[d] EXCEPT !.requests = 0] \in Credentials
        <5>1. 0 \in 0 .. RequestLimit
          BY LimitsAssumption
        <5>2. device[d].requests \in 0 .. RequestLimit /\ device[d].revoked \in BOOLEAN
          BY <3>1
        <5> QED
          BY <3>1, <5>1, <5>2
      <4>2. \/ device' = [device EXCEPT ![d] = [device[d] EXCEPT !.revoked = TRUE]]
            \/ device' = [device EXCEPT ![d] = [device[d] EXCEPT !.requests = 0]]
        BY <1>12 DEF Revoke, WindowEnds
      <4> QED
        BY <4>1, <4>2
    <3> HIDE DEF Credentials
    <3>3. device' \in [Devices -> Credentials]
      <4>1. device \in [Devices -> Credentials]
        BY Parts DEF Credentials
      <4> QED
        BY <3>2, <4>1
    <3> QED
      BY <3>3 DEF Credentials
  <2> QED
    BY <1>12, <2>1, Parts, PartsNext DEF Revoke, WindowEnds, desktop
<1>13. ASSUME NEW f \in Linkable, Link(f) PROVE TypeOK'
  BY <1>13, Parts, PartsNext DEF Link, desktop
<1>14. CASE Tick
  BY <1>14, LimitsAssumption, Parts, PartsNext DEF Tick, desktop, Instants
<1>15. CASE UNCHANGED vars
  BY <1>15, Parts, PartsNext DEF vars
<1> QED
  BY <1>1, <1>2, <1>3, <1>4, <1>5, <1>6, <1>7, <1>8, <1>9, <1>10, <1>11, <1>12, <1>13,
     <1>14, <1>15, TypeStage, TypeRecord, TypeIngest DEF Next, Collector, Server

-----------------------------------------------------------------------------
(* What a step may do to batches and imports *)

LEMMA StageBatches ==
  ASSUME TypeOK, NEW a \in Apps, NEW d \in Devices, NEW p \in Payloads, Stage(a, d, p),
         NEW i \in ImportIds
  PROVE  \/ outbox'[i] = outbox[i]
         \/ outbox[i].state = "uploaded" /\ outbox'[i] = [outbox[i] EXCEPT !.state = "pruned"]
         \/ /\ outbox[i].state = "none" /\ i = NextId
            /\ outbox'[i] = [state |-> "pending", payload |-> p, receipt |-> None]
<1>1. PICK old \in SUBSET InState("uploaded") :
        \/ outbox' = Pruned(old)
        \/ /\ InState("none") # {}
           /\ outbox' = [Pruned(old) EXCEPT ![NextId] =
                           [state |-> "pending", payload |-> p, receipt |-> None]]
  BY DEF Stage
<1>2. Pruned(old)[i] = IF i \in old THEN [outbox[i] EXCEPT !.state = "pruned"] ELSE outbox[i]
  BY DEF Pruned
<1>3. i \in old => outbox[i].state = "uploaded"
  BY <1>1 DEF InState
<1>4. InState("none") # {} => outbox[NextId].state = "none"
  <2>1. InState("none") \subseteq ImportIds
    BY DEF InState
  <2> QED
    BY <2>1, FirstIn DEF NextId, InState
<1>5. Pruned(old) = [k \in ImportIds |-> Pruned(old)[k]]
  BY DEF Pruned
<1> QED
  BY <1>1, <1>2, <1>3, <1>4, <1>5

LEMMA RecordBatches ==
  ASSUME TypeOK, RunsAgree, NEW a \in Apps, Record(a), NEW i \in ImportIds
  PROVE  /\ NextBatch(a) \in ImportIds /\ app[a].receipt \in Verdicts
         /\ \/ outbox'[i] = outbox[i]
            \/ /\ i = NextBatch(a) /\ outbox[i].state = "pending"
               /\ outbox'[i].state = "uploaded" /\ outbox'[i].receipt = app[a].receipt
               /\ outbox'[i].payload = outbox[i].payload
<1>1. NextBatch(a) \in ImportIds /\ app[a].receipt \in Verdicts
  BY FirstIn, Parts DEF Record, RunsAgree, NextBatch, Runs
<1>2. outbox[i] \in Batches /\ outbox \in [ImportIds -> Batches]
  BY Parts
<1> QED
  BY <1>1, <1>2 DEF Record, Batches

LEMMA OutboxKept ==
  ASSUME TypeOK, RunsAgree, [Next]_vars, NEW i \in ImportIds
  PROVE  outbox[i].state # "none" =>
           outbox'[i].state # "none" /\ outbox'[i].payload = outbox[i].payload
<1>1. outbox[i] \in Batches
  BY Parts
<1>2. ASSUME NEW a \in Apps, NEW d \in Devices, NEW p \in Payloads, Stage(a, d, p)
      PROVE  outbox[i].state # "none" =>
               outbox'[i].state # "none" /\ outbox'[i].payload = outbox[i].payload
  BY <1>1, <1>2, StageBatches DEF Batches
<1>3. ASSUME NEW a \in Apps, Record(a)
      PROVE  outbox[i].state # "none" =>
               outbox'[i].state # "none" /\ outbox'[i].payload = outbox[i].payload
  BY <1>3, RecordBatches
<1>4. \/ outbox' = outbox
      \/ \E a \in Apps : Record(a)
      \/ \E a \in Apps, d \in Devices, p \in Payloads : Stage(a, d, p)
  BY DEF Next, Collector, Server, RetryPending, Upload, RequestLost, GiveUp, AppDies, Accept,
     Admit, Store, ReadClock, Ingest, Reply, HandlerDies, Revoke, WindowEnds, Link, Tick,
     desktop, vars
<1> QED
  BY <1>2, <1>3, <1>4

LEMMA StoredRow ==
  ASSUME TypeOK, NEW h \in Handlers, Store(h), NEW i \in ImportIds
  PROVE  \/ import'[i] = import[i]
         \/ /\ i = Request(h).id /\ import[i].state = "none"
            /\ ~device[Request(h).device].revoked
            /\ ~(Cardinality(ImportsOf(Request(h).device)) >= ImportLimit)
            /\ import'[i] = [state |-> "pending", device |-> Request(h).device,
                             payload |-> Request(h).payload, processed |-> None]
BY Parts DEF Store, StoreRow, Authentic

LEMMA DecidedRow ==
  ASSUME TypeOK, HandlersAgree, NEW h \in Handlers, Ingest(h)
  PROVE  LET r == Request(h)
             now == handler[h].now
         IN /\ r \in Requests /\ now \in Instants
            /\ import[r.id].state # "none" /\ import[r.id].payload = r.payload
            /\ \/ /\ UNCHANGED <<import, firm, queued>>
                  /\ \/ import[r.id].state \in Verdicts /\ Answer(h, import[r.id].state)
                     \/ Answer(h, "unavailable")
               \/ \E v \in Verdicts :
                    /\ import[r.id].state = "pending"
                    /\ import' = [import EXCEPT ![r.id] =
                                    [import[r.id] EXCEPT !.state = v, !.processed = now]]
                    /\ Answer(h, v)
                    /\ IF v = "rejected" THEN UNCHANGED <<firm, queued>>
                       ELSE /\ ~Stale(r.payload, now)
                            /\ firm' = Observed(r.payload, now) /\ queued' = Enqueued(r)
<1> DEFINE r == Request(h)
           now == handler[h].now
<1>1. r \in Requests /\ now \in Instants /\ r.id \in ImportIds
  BY HandlerTypes, RequestAlone, Parts DEF Ingest, Request
<1>2. import[r.id].state # "none" /\ import[r.id].payload = r.payload
  BY DEF Ingest, HandlersAgree
<1>3. import[r.id].state \in Verdicts \/ import[r.id].state = "pending"
  BY <1>1, <1>2, Parts DEF Imports
<1>4. CASE import[r.id].state \in Verdicts
  BY <1>1, <1>2, <1>4 DEF Ingest
<1>5. CASE import[r.id].state = "pending"
  <2>1. Write(h)
    BY <1>5 DEF Ingest, Verdicts
  <2>2. ASSUME NEW v \in Verdicts, Decided(h, v)
        PROVE  /\ import' = [import EXCEPT ![r.id] =
                              [import[r.id] EXCEPT !.state = v, !.processed = now]]
               /\ Answer(h, v)
    BY <2>2 DEF Decided
  <2> QED
    BY <1>1, <1>2, <1>5, <2>1, <2>2 DEF Write, Verdicts
<1> QED
  BY <1>3, <1>4, <1>5

LEMMA ImportChanges ==
  ASSUME [Next]_vars
  PROVE  \/ import' = import
         \/ \E h \in Handlers : Store(h) \/ Ingest(h)
BY DEF Next, Collector, Server, Stage, RetryPending, Upload, RequestLost, GiveUp, AppDies,
   Record, Accept, Admit, ReadClock, Reply, HandlerDies, Revoke, WindowEnds, Link, Tick,
   server, vars

LEMMA DecidedRows ==
  ASSUME TypeOK, HandlersAgree, NEW h \in Handlers, Ingest(h)
  PROVE  /\ \A i \in ImportIds : import'[i] # import[i] =>
              /\ i = Request(h).id
              /\ import[i].state = "pending" /\ import'[i].state \in Verdicts
              /\ import'[i].processed = handler[h].now /\ handler[h].now \in Instants
              /\ import'[i].payload = import[i].payload
              /\ import'[i].device = import[i].device
         /\ Answer(h, "unavailable") \/ Answer(h, import'[Request(h).id].state)
<1> DEFINE id == Request(h).id
           row(v) == [import[id] EXCEPT !.state = v, !.processed = handler[h].now]
<1>1. id \in ImportIds /\ handler[h].now \in Instants
  BY DecidedRow, RequestAlone
<1>2. import[id] \in Imports /\ import \in [ImportIds -> Imports]
  BY <1>1, Parts
<1>3. \A v \in Verdicts : /\ row(v).state = v /\ row(v).processed = handler[h].now
                         /\ row(v).payload = import[id].payload
                         /\ row(v).device = import[id].device
  BY <1>2 DEF Imports
<1>4. \/ import' = import /\ (Answer(h, import[id].state) \/ Answer(h, "unavailable"))
      \/ \E v \in Verdicts : /\ import[id].state = "pending" /\ Answer(h, v)
                             /\ import' = [import EXCEPT ![id] = row(v)]
  BY DecidedRow
<1> HIDE DEF row, id
<1>5. CASE import' = import
  BY <1>4, <1>5, <1>1, <1>2, <1>3 DEF id
<1>6. ASSUME NEW v \in Verdicts, import[id].state = "pending", Answer(h, v),
             import' = [import EXCEPT ![id] = row(v)]
      PROVE  /\ \A i \in ImportIds : import'[i] # import[i] =>
                  /\ i = id
                  /\ import[i].state = "pending" /\ import'[i].state \in Verdicts
                  /\ import'[i].processed = handler[h].now /\ handler[h].now \in Instants
                  /\ import'[i].payload = import[i].payload
                  /\ import'[i].device = import[i].device
             /\ Answer(h, import'[id].state)
  BY <1>1, <1>2, <1>3, <1>6
<1> QED
  BY <1>4, <1>5, <1>6 DEF id

LEMMA ImportKept ==
  ASSUME TypeOK, HandlersAgree, [Next]_vars, NEW i \in ImportIds
  PROVE  /\ import[i].state # "none" =>
              /\ import'[i].state # "none"
              /\ import'[i].payload = import[i].payload /\ import'[i].device = import[i].device
         /\ import[i].state \in Verdicts => import'[i] = import[i]
<1>1. import[i] \in Imports /\ import \in [ImportIds -> Imports]
  BY Parts
<1>2. ASSUME NEW h \in Handlers, Store(h)
      PROVE  import[i].state # "none" => import'[i] = import[i]
  BY <1>2, StoredRow
<1>3. ASSUME NEW h \in Handlers, Ingest(h)
      PROVE  \/ import'[i] = import[i]
             \/ /\ import[i].state = "pending" /\ import'[i].state \in Verdicts
                /\ import'[i].payload = import[i].payload
                /\ import'[i].device = import[i].device
  BY <1>3, DecidedRows
<1>4. \/ import' = import
      \/ \E h \in Handlers : Store(h) \/ Ingest(h)
  BY ImportChanges
<1> QED
  BY <1>1, <1>2, <1>3, <1>4, NoneAssumption DEF Verdicts

-----------------------------------------------------------------------------
(* Each part of the invariant is kept *)

LEMMA RunsNext ==
  ASSUME TypeOK, RunsAgree, HandlersAgree, CallersWait, [Next]_vars
  PROVE  RunsAgree'
<1>1. \A i \in ImportIds : outbox[i].state # "none" => outbox'[i].state # "none"
  BY OutboxKept
<1>2. \A i \in ImportIds : import[i].state \in Verdicts => import'[i] = import[i]
  BY ImportKept
<1>3. /\ \A a \in Apps : app[a].todo \subseteq ImportIds
      /\ app \in [Apps -> Runs]
  BY Parts DEF Runs
<1> DEFINE Agrees(a, s) ==
      /\ s.pc \in {"upload", "waiting", "record"} => s.todo # {}
      /\ s.pc # "idle" => s.device \in Devices
      /\ \A i \in s.todo : outbox'[i].state # "none"
      /\ s.pc = "record" => /\ s.receipt \in Verdicts
                            /\ import'[First(s.todo)].state = s.receipt
<1>4. ASSUME NEW a \in Apps PROVE Agrees(a, app[a])
  <2>1. app[a].todo # {} => First(app[a].todo) \in ImportIds
    BY <1>3, FirstIn
  <2> QED
    BY <1>1, <1>2, <1>3, <2>1 DEF RunsAgree, NextBatch
<1>5. ASSUME NEW a \in Apps, app[a].pc # "idle" PROVE Agrees(a, GoesOn(a)[a])
  BY <1>4, <1>5, GoesOnType
<1>6. ASSUME NEW a \in Apps, app' = GoesOn(a), app[a].pc # "idle"
      PROVE  \A b \in Apps : Agrees(b, app'[b])
  BY <1>4, <1>5, <1>6, GoesOnType
<1>7. \A a \in Apps : Agrees(a, app'[a])
  <2>1. ASSUME NEW a \in Apps, NEW d \in Devices, NEW p \in Payloads, Stage(a, d, p)
        PROVE  \A b \in Apps : Agrees(b, app'[b])
    BY <1>3, <1>4, <2>1 DEF Stage, Idle
  <2>2. ASSUME NEW a \in Apps, NEW d \in Devices, RetryPending(a, d)
        PROVE  \A b \in Apps : Agrees(b, app'[b])
    BY <1>1, <1>3, <1>4, <2>2 DEF RetryPending, Idle, InState
  <2>3. ASSUME NEW a \in Apps, Upload(a) PROVE \A b \in Apps : Agrees(b, app'[b])
    BY <1>3, <1>4, <2>3 DEF Upload, Runs
  <2>4. ASSUME NEW a \in Apps, AppDies(a) PROVE \A b \in Apps : Agrees(b, app'[b])
    BY <1>3, <1>4, <2>4 DEF AppDies, Idle
  <2>5. ASSUME NEW h \in Handlers, Reply(h) PROVE \A b \in Apps : Agrees(b, app'[b])
    <3> DEFINE a == Request(h).client
    <3>1. a \in Apps \cup {None}
      BY <2>5, HandlerTypes, RequestAlone, Parts DEF Reply, Request
    <3>2. CASE a # None /\ handler[h].result \in Verdicts
      <4>1. app[a].pc = "waiting" /\ Request(h).id = First(app[a].todo)
        BY <2>5, <3>2 DEF Reply, CallersWait, Waits, NextBatch
      <4>2. import'[Request(h).id].state = handler[h].result
        BY <2>5, <3>2 DEF Reply, HandlersAgree, server
      <4>3. app' = [app EXCEPT ![a] =
                      [app[a] EXCEPT !.pc = "record", !.receipt = handler[h].result]]
        BY <2>5, <3>2 DEF Reply
      <4> QED
        BY <1>3, <1>4, <3>1, <3>2, <4>1, <4>2, <4>3 DEF Runs
    <3>3. CASE a = None
      BY <1>4, <2>5, <3>3 DEF Reply
    <3>4. CASE a # None /\ handler[h].result \notin Verdicts
      <4>1. app[a].pc = "waiting"
        BY <2>5, <3>4 DEF Reply, CallersWait, Waits
      <4> QED
        BY <1>6, <2>5, <3>1, <3>4, <4>1 DEF Reply
    <3> QED
      BY <3>2, <3>3, <3>4
  <2>6. ASSUME NEW h \in Handlers, HandlerDies(h) PROVE \A b \in Apps : Agrees(b, app'[b])
    <3>1. Request(h).client \in Apps \cup {None}
      BY <2>6, HandlerTypes, RequestAlone, Parts DEF HandlerDies, Request
    <3> QED
      BY <1>4, <1>6, <2>6, <3>1 DEF HandlerDies, CallersWait, Waits
  <2>7. \/ app' = app
        \/ \E a \in Apps : GiveUp(a) \/ Record(a) \/ RequestLost(a)
        \/ \E a \in Apps : Upload(a) \/ AppDies(a)
        \/ \E a \in Apps, d \in Devices :
             RetryPending(a, d) \/ \E p \in Payloads : Stage(a, d, p)
        \/ \E h \in Handlers : Reply(h) \/ HandlerDies(h)
    BY DEF Next, Collector, Server, Accept, Admit, Store, ReadClock, Ingest, Revoke,
       WindowEnds, Link, Tick, desktop, vars
  <2>8. ASSUME NEW a \in Apps, GiveUp(a) \/ Record(a) \/ RequestLost(a)
        PROVE  app' = GoesOn(a) /\ app[a].pc # "idle"
    <3>1. RequestLost(a) => app[a].pc = "waiting"
      BY NoneAssumption DEF RequestLost, CallersWait, Waits
    <3> QED
      BY <2>8, <3>1 DEF GiveUp, Record, RequestLost
  <2> QED
    BY <1>4, <1>6, <2>1, <2>2, <2>3, <2>4, <2>5, <2>6, <2>7, <2>8
<1> QED
  BY <1>7 DEF RunsAgree, NextBatch

LEMMA BatchesNext ==
  ASSUME TypeOK, RunsAgree, BatchesAgree, HandlersAgree, [Next]_vars
  PROVE  BatchesAgree'
<1> SUFFICES ASSUME NEW i \in ImportIds
             PROVE  /\ outbox'[i].state # "none" => outbox'[i].payload \in Payloads
                    /\ outbox'[i].state = "none" => import'[i].state = "none"
                    /\ outbox'[i].state \in {"uploaded", "pruned"} =>
                         import'[i].state = outbox'[i].receipt
  BY DEF BatchesAgree
<1>1. /\ outbox[i] \in Batches
      /\ outbox[i].state \in {"uploaded", "pruned"} => outbox[i].receipt \in Verdicts
  BY Parts DEF Batches
<1>2. CASE outbox' = outbox
  <2>1. outbox[i].state = "none" => import'[i] = import[i]
    <3>1. ASSUME NEW h \in Handlers, Store(h), outbox[i].state = "none"
          PROVE  import'[i] = import[i]
      BY <3>1, StoredRow DEF Store, HandlersAgree
    <3>2. ASSUME NEW h \in Handlers, Ingest(h), outbox[i].state = "none"
          PROVE  import'[i] = import[i]
      <4>1. i # Request(h).id
        BY <3>2 DEF Ingest, HandlersAgree
      <4> QED
        BY <3>2, <4>1, DecidedRow, Parts
    <3>3. \/ import' = import
          \/ \E h \in Handlers : Store(h) \/ Ingest(h)
      BY ImportChanges
    <3> QED
      BY <3>1, <3>2, <3>3
  <2>2. outbox[i].state \in {"uploaded", "pruned"} => import'[i] = import[i]
    BY <1>1, ImportKept DEF BatchesAgree
  <2> QED
    BY <1>2, <2>1, <2>2 DEF BatchesAgree
<1>3. ASSUME NEW a \in Apps, NEW d \in Devices, NEW p \in Payloads, Stage(a, d, p)
      PROVE  /\ outbox'[i].state # "none" => outbox'[i].payload \in Payloads
             /\ outbox'[i].state = "none" => import'[i].state = "none"
             /\ outbox'[i].state \in {"uploaded", "pruned"} =>
                  import'[i].state = outbox'[i].receipt
  <2>1. import' = import
    BY <1>3 DEF Stage, server
  <2> QED
    <3>1. CASE outbox'[i] = outbox[i]
      BY <2>1, <3>1 DEF BatchesAgree
    <3>2. CASE outbox[i].state = "uploaded"
               /\ outbox'[i] = [outbox[i] EXCEPT !.state = "pruned"]
      <4>1. /\ outbox'[i].state = "pruned" /\ outbox'[i].payload = outbox[i].payload
            /\ outbox'[i].receipt = outbox[i].receipt
        BY <1>1, <3>2 DEF Batches
      <4> QED
        BY <2>1, <3>2, <4>1 DEF BatchesAgree
    <3>3. CASE outbox'[i] = [state |-> "pending", payload |-> p, receipt |-> None]
      BY <3>3
    <3> QED
      BY <1>3, <3>1, <3>2, <3>3, StageBatches
<1>4. ASSUME NEW a \in Apps, Record(a)
      PROVE  /\ outbox'[i].state # "none" => outbox'[i].payload \in Payloads
             /\ outbox'[i].state = "none" => import'[i].state = "none"
             /\ outbox'[i].state \in {"uploaded", "pruned"} =>
                  import'[i].state = outbox'[i].receipt
  <2>1. import' = import /\ import[NextBatch(a)].state = app[a].receipt
    BY <1>4 DEF Record, server, RunsAgree
  <2> QED
    BY <1>1, <1>4, <2>1, RecordBatches DEF BatchesAgree
<1>5. \/ outbox' = outbox
      \/ \E a \in Apps : Record(a)
      \/ \E a \in Apps, d \in Devices, p \in Payloads : Stage(a, d, p)
  BY DEF Next, Collector, Server, RetryPending, Upload, RequestLost, GiveUp, AppDies, Accept,
     Admit, Store, ReadClock, Ingest, Reply, HandlerDies, Revoke, WindowEnds, Link, Tick,
     desktop, vars
<1> QED
  BY <1>2, <1>3, <1>4, <1>5

LEMMA ImportsNext ==
  ASSUME TypeOK, HandlersAgree, ImportsAreWhole, [Next]_vars
  PROVE  ImportsAreWhole'
<1> SUFFICES ASSUME NEW i \in ImportIds
             PROVE  /\ import'[i].state # "none" =>
                         import'[i].payload \in Payloads /\ import'[i].device \in Devices
                    /\ import'[i].state \in Verdicts => import'[i].processed \in Instants
  BY DEF ImportsAreWhole
<1>1. ASSUME NEW h \in Handlers, Store(h)
      PROVE  /\ import'[i].state # "none" =>
                  import'[i].payload \in Payloads /\ import'[i].device \in Devices
             /\ import'[i].state \in Verdicts => import'[i].processed \in Instants
  <2>1. Request(h).payload \in Payloads /\ Request(h).device \in Devices
    BY <1>1, HandlerTypes, RequestAlone, Parts DEF Store, Request
  <2>2. \/ import'[i] = import[i]
        \/ import'[i] = [state |-> "pending", device |-> Request(h).device,
                         payload |-> Request(h).payload, processed |-> None]
    BY <1>1, StoredRow
  <2> QED
    BY <2>1, <2>2 DEF ImportsAreWhole, Verdicts
<1>2. ASSUME NEW h \in Handlers, Ingest(h), import'[i] # import[i]
      PROVE  /\ import[i].state = "pending" /\ import'[i].state \in Verdicts
             /\ import'[i].processed = handler[h].now /\ handler[h].now \in Instants
             /\ import'[i].payload = import[i].payload
             /\ import'[i].device = import[i].device
  BY <1>2, DecidedRows
<1>3. \/ import' = import
      \/ \E h \in Handlers : Store(h) \/ Ingest(h)
  BY ImportChanges
<1> QED
  BY <1>1, <1>2, <1>3 DEF ImportsAreWhole

LEMMA RequestsNext ==
  ASSUME TypeOK, RunsAgree, RequestsAgree, [Next]_vars
  PROVE  RequestsAgree'
<1>1. \A i \in ImportIds : outbox[i].state # "none" => outbox'[i].state # "none"
  BY OutboxKept
<1>2. \A r \in network : outbox'[r.id].state # "none"
  BY <1>1, RequestAlone, Parts DEF RequestsAgree
<1>3. ASSUME NEW a \in Apps, Upload(a) PROVE \A r \in network' : outbox'[r.id].state # "none"
  <2>1. NextBatch(a) \in app[a].todo /\ app[a].todo \subseteq ImportIds
    BY <1>3, FirstIn, Parts DEF Upload, RunsAgree, NextBatch, Runs
  <2>2. outbox'[NextBatch(a)].state # "none"
    BY <1>1, <2>1 DEF RunsAgree
  <2> QED
    BY <1>2, <1>3, <2>2 DEF Upload
<1>4. ASSUME NEW a \in Apps, Abandoned(a) PROVE \A r \in network' : outbox'[r.id].state # "none"
  BY <1>2, <1>4, AbandonedRequests
<1>5. \/ network' \subseteq network
      \/ \E a \in Apps : Upload(a) \/ Abandoned(a)
  BY DEF Next, Collector, Server, Stage, RetryPending, RequestLost, GiveUp, AppDies, Record,
     Accept, Admit, Store, ReadClock, Ingest, Reply, HandlerDies, Revoke, WindowEnds, Link,
     Tick, vars
<1> QED
  BY <1>2, <1>3, <1>4, <1>5 DEF RequestsAgree

\* What an outcome makes of a handler: its request stays.
LEMMA HandlersNext ==
  ASSUME TypeOK, RunsAgree, HandlersAgree, RequestsAgree, [Next]_vars
  PROVE  HandlersAgree'
<1>1. \A i \in ImportIds : outbox[i].state # "none" => outbox'[i].state # "none"
  BY OutboxKept
<1>2. \A i \in ImportIds :
        /\ import[i].state # "none" =>
             import'[i].state # "none" /\ import'[i].payload = import[i].payload
        /\ import[i].state \in Verdicts => import'[i] = import[i]
  BY ImportKept
<1> DEFINE Agrees(s) ==
      /\ s.pc # "free" => outbox'[s.request.id].state # "none"
      /\ s.pc \in {"process", "ingest"} =>
           /\ import'[s.request.id].state # "none"
           /\ import'[s.request.id].payload = s.request.payload
      /\ (s.pc = "answer" /\ s.result \in Verdicts) =>
           import'[s.request.id].state = s.result
<1>3. \A h \in Handlers : handler[h].pc # "free" => Request(h) \in Requests
  BY HandlerTypes, Parts DEF Request
<1>4. \A h \in Handlers : Agrees(handler[h])
  BY <1>1, <1>2, <1>3, RequestAlone DEF HandlersAgree, Request
<1>5. handler \in [Handlers -> HandlerStates]
  BY Parts
<1>6. ASSUME NEW h \in Handlers, NEW v \in {"refused", "unavailable"}, Answer(h, v),
             handler[h].pc # "free"
      PROVE  \A g \in Handlers : Agrees(handler'[g])
  BY <1>4, <1>5, <1>6 DEF Answer, Verdicts, Request
<1>7. ASSUME NEW h \in Handlers, NEW v, Answer(h, v), handler[h].pc # "free",
             import'[Request(h).id].state = v
      PROVE  \A g \in Handlers : Agrees(handler'[g])
  BY <1>4, <1>5, <1>7 DEF Answer, Request
<1>8. ASSUME NEW h \in Handlers, Accept(h) PROVE \A g \in Handlers : Agrees(handler'[g])
  <2>1. PICK r \in network :
          handler' = [handler EXCEPT ![h] = [pc |-> "admit", request |-> r]]
    BY <1>8 DEF Accept
  <2>2. outbox'[r.id].state # "none"
    BY <1>1, RequestAlone, Parts DEF RequestsAgree
  <2> QED
    BY <1>4, <1>5, <2>1, <2>2
<1>9. ASSUME NEW h \in Handlers, Admit(h) PROVE \A g \in Handlers : Agrees(handler'[g])
  <2>1. CASE Goto(h, "store")
    BY <1>4, <1>5, <1>9, <2>1 DEF Admit, Goto, Request
  <2> QED
    BY <1>6, <1>9, <2>1 DEF Admit
<1>10. ASSUME NEW h \in Handlers, Store(h) PROVE \A g \in Handlers : Agrees(handler'[g])
  <2>1. CASE Goto(h, "process") /\ import'[Request(h).id].state # "none"
             /\ import'[Request(h).id].payload = Request(h).payload
    BY <1>4, <1>5, <1>10, <2>1 DEF Store, Goto, Request
  <2>2. Request(h).id \in ImportIds
    BY <1>3, <1>10, RequestAlone DEF Store
  <2>3. StoreRow(Request(h)) =>
          import'[Request(h).id].state # "none"
            /\ import'[Request(h).id].payload = Request(h).payload
    BY <2>2, Parts DEF StoreRow
  <2> QED
    BY <1>6, <1>7, <1>10, <2>1, <2>3 DEF Store
<1>11. ASSUME NEW h \in Handlers, ReadClock(h) PROVE \A g \in Handlers : Agrees(handler'[g])
  BY <1>4, <1>5, <1>11 DEF ReadClock, Request
<1>12. ASSUME NEW h \in Handlers, Ingest(h) PROVE \A g \in Handlers : Agrees(handler'[g])
  BY <1>6, <1>7, <1>12, DecidedRows DEF Ingest
<1>13. ASSUME NEW h \in Handlers, handler' = [handler EXCEPT ![h] = [pc |-> "free"]]
       PROVE  \A g \in Handlers : Agrees(handler'[g])
  BY <1>4, <1>5, <1>13
<1>14. ASSUME NEW a \in Apps, Abandoned(a) PROVE \A g \in Handlers : Agrees(handler'[g])
  BY <1>4, <1>14, AbandonedHandlers DEF Request
<1>15. \/ handler' = handler
       \/ \E a \in Apps : Abandoned(a)
       \/ \E h \in Handlers :
            \/ Accept(h) \/ Admit(h) \/ Store(h) \/ ReadClock(h) \/ Ingest(h)
            \/ handler' = [handler EXCEPT ![h] = [pc |-> "free"]]
  BY DEF Next, Collector, Server, Stage, RetryPending, Upload, RequestLost, GiveUp, AppDies,
     Record, Reply, HandlerDies, Revoke, WindowEnds, Link, Tick, vars
<1>16. \A g \in Handlers : Agrees(handler'[g])
  BY <1>4, <1>8, <1>9, <1>10, <1>11, <1>12, <1>13, <1>14, <1>15
<1> QED
  BY <1>16 DEF HandlersAgree, Request

\* A step that gives no request a client, and leaves a run alone that a request
\* still belongs to.
LEMMA CallersFrame ==
  ASSUME TypeOK, TypeOK', CallersWait,
         \A a \in Apps :
           \/ app'[a] = app[a]
           \/ /\ \A r \in network' : r.client # a
              /\ \A h \in Handlers : handler'[h].pc # "free" => Request(h)'.client # a,
         \A r \in network' : r.client # None => r \in network,
         \A h \in Handlers :
           (handler'[h].pc # "free" /\ Request(h)'.client # None) =>
             handler[h].pc # "free" /\ Request(h)' = Request(h)
  PROVE  CallersWait'
<1>1. /\ \A h \in Handlers : handler'[h].pc # "free" => Request(h)' \in Requests
      /\ network' \subseteq Requests
  BY HandlerTypes, PartsNext DEF Request
<1>2. ASSUME NEW r \in Requests, r.client # None, app'[r.client] = app[r.client], Waits(r)
      PROVE  app'[r.client].pc = "waiting" /\ r.id = First(app'[r.client].todo)
  BY <1>2 DEF Waits, NextBatch
<1>3. ASSUME NEW r \in network', r.client # None
      PROVE  /\ app'[r.client].pc = "waiting" /\ r.id = First(app'[r.client].todo)
             /\ \A q \in network' : q.client = r.client => q = r
             /\ \A h \in Handlers : handler'[h].pc # "free" => Request(h)'.client # r.client
  <2>1. r \in network /\ r \in Requests /\ r.client \in Apps
    BY <1>1, <1>3, RequestAlone
  <2>2. app'[r.client] = app[r.client]
    BY <1>3, <2>1
  <2>3. /\ Waits(r)
        /\ \A q \in network : q.client = r.client => q = r
        /\ \A h \in Handlers : handler[h].pc # "free" => Request(h).client # r.client
    BY <1>3, <2>1 DEF CallersWait
  <2>4. \A q \in network' : q.client = r.client => q = r
    BY <1>3, <2>3
  <2>5. \A h \in Handlers : handler'[h].pc # "free" => Request(h)'.client # r.client
    BY <1>3, <2>3
  <2> QED
    BY <1>2, <1>3, <2>1, <2>2, <2>3, <2>4, <2>5
<1>4. ASSUME NEW h \in Handlers, handler'[h].pc # "free", Request(h)'.client # None
      PROVE  /\ app'[Request(h)'.client].pc = "waiting"
             /\ Request(h)'.id = First(app'[Request(h)'.client].todo)
             /\ \A g \in Handlers \ {h} :
                  handler'[g].pc # "free" => Request(g)'.client # Request(h)'.client
  <2>1. /\ handler[h].pc # "free" /\ Request(h)' = Request(h)
        /\ Request(h) \in Requests /\ Request(h).client \in Apps
    BY <1>1, <1>4, RequestAlone
  <2>2. app'[Request(h).client] = app[Request(h).client]
    BY <1>4, <2>1
  <2>3. /\ Waits(Request(h))
        /\ \A g \in Handlers \ {h} :
             handler[g].pc # "free" => Request(g).client # Request(h).client
    BY <1>4, <2>1 DEF CallersWait
  <2>4. \A g \in Handlers \ {h} :
          handler'[g].pc # "free" => Request(g)'.client # Request(h).client
    BY <1>4, <2>1, <2>3
  <2> QED
    BY <1>2, <1>4, <2>1, <2>2, <2>3, <2>4
<1> QED
  BY <1>3, <1>4 DEF CallersWait, Waits, NextBatch

LEMMA CallersNext ==
  ASSUME TypeOK, TypeOK', RunsAgree, CallersWait, [Next]_vars
  PROVE  CallersWait'
<1>1. /\ handler \in [Handlers -> HandlerStates] /\ network \subseteq Requests
      /\ app \in [Apps -> Runs]
  BY Parts
<1>2. ASSUME NEW a \in Apps, app[a].pc # "waiting"
      PROVE  /\ \A r \in network : r.client # a
             /\ \A h \in Handlers : handler[h].pc # "free" => Request(h).client # a
  BY <1>2, NoneAssumption DEF CallersWait, Waits
<1>3. ASSUME NEW a \in Apps, NEW d \in Devices,
             RetryPending(a, d) \/ \E p \in Payloads : Stage(a, d, p)
      PROVE  CallersWait'
  <2>1. UNCHANGED <<network, handler>> /\ app[a].pc # "waiting"
    BY <1>3 DEF RetryPending, Stage
  <2>2. \A b \in Apps \ {a} : app'[b] = app[b]
    BY <1>1, <1>3 DEF RetryPending, Stage
  <2> QED
    BY <1>2, <2>1, <2>2, CallersFrame DEF Request
<1>4. ASSUME NEW a \in Apps, Record(a) PROVE CallersWait'
  <2>1. UNCHANGED <<network, handler>> /\ app[a].pc # "waiting"
    BY <1>4 DEF Record
  <2>2. \A b \in Apps \ {a} : app'[b] = app[b]
    BY <1>4, GoesOnType DEF Record
  <2> QED
    BY <1>2, <2>1, <2>2, CallersFrame DEF Request
<1>5. ASSUME NEW a \in Apps, Upload(a) PROVE CallersWait'
  <2> DEFINE n == [client |-> a, id |-> NextBatch(a),
                   payload |-> outbox[NextBatch(a)].payload, device |-> app[a].device]
  <2>1. /\ network' = network \cup {n} /\ UNCHANGED handler
        /\ app[a].pc # "waiting"
        /\ n.client = a /\ n.id = First(app[a].todo)
    BY <1>5 DEF Upload, NextBatch
  <2>2. /\ \A b \in Apps \ {a} : app'[b] = app[b]
        /\ app'[a].pc = "waiting" /\ app'[a].todo = app[a].todo
    BY <1>1, <1>5 DEF Upload, Runs
  <2>3. a # None
    BY NoneAssumption
  <2> HIDE DEF n
  <2>4. \A h \in Handlers : handler[h].pc # "free" => Request(h) \in Requests
    BY HandlerTypes, Parts DEF Request
  <2>5. ASSUME NEW r \in Requests, r.client # None, r.client # a, Waits(r)
        PROVE  app'[r.client].pc = "waiting" /\ r.id = First(app'[r.client].todo)
    BY <2>2, <2>5, RequestAlone DEF Waits, NextBatch
  <2>6. ASSUME NEW r \in network', r.client # None
        PROVE  /\ app'[r.client].pc = "waiting" /\ r.id = First(app'[r.client].todo)
               /\ \A q \in network' : q.client = r.client => q = r
               /\ \A h \in Handlers :
                    handler'[h].pc # "free" => Request(h)'.client # r.client
    <3>1. CASE r = n
      BY <1>2, <2>1, <2>2, <3>1 DEF Request
    <3>2. CASE r # n
      BY <1>1, <1>2, <2>1, <2>5, <2>6, <3>2 DEF CallersWait, Request
    <3> QED
      BY <3>1, <3>2
  <2>7. ASSUME NEW h \in Handlers, handler[h].pc # "free", Request(h).client # None
        PROVE  /\ app'[Request(h).client].pc = "waiting"
               /\ Request(h).id = First(app'[Request(h).client].todo)
               /\ \A g \in Handlers \ {h} :
                    handler[g].pc # "free" => Request(g).client # Request(h).client
    BY <1>2, <2>1, <2>4, <2>5, <2>7 DEF CallersWait
  <2> QED
    BY <2>1, <2>6, <2>7 DEF CallersWait, Waits, NextBatch, Request
<1>6. ASSUME NEW a \in Apps, RequestLost(a) PROVE CallersWait'
  <2>1. PICK r \in network : r.client = a /\ network' = network \ {r}
    BY <1>6 DEF RequestLost
  <2>2. UNCHANGED handler /\ \A b \in Apps \ {a} : app'[b] = app[b]
    BY <1>6, GoesOnType DEF RequestLost
  <2>3. /\ \A q \in network' : q.client # a
        /\ \A h \in Handlers : handler[h].pc # "free" => Request(h).client # a
    BY <2>1, NoneAssumption DEF CallersWait
  <2> QED
    BY <2>1, <2>2, <2>3, CallersFrame DEF Request
<1>7. ASSUME NEW a \in Apps, GiveUp(a) \/ AppDies(a) PROVE CallersWait'
  <2>1. Abandoned(a) /\ \A b \in Apps \ {a} : app'[b] = app[b]
    BY <1>1, <1>7, GoesOnType DEF GiveUp, AppDies
  <2>2. /\ \A r \in network' : r.client # None => r \in network /\ r.client # a
        /\ \A h \in Handlers :
             (handler'[h].pc # "free" /\ Request(h)'.client # None) =>
               /\ handler[h].pc # "free" /\ Request(h)' = Request(h)
               /\ Request(h)'.client # a
    BY <2>1, AbandonedRequests, AbandonedHandlers
  <2> QED
    BY <2>1, <2>2, CallersFrame, NoneAssumption
<1>8. ASSUME NEW h \in Handlers, Accept(h) PROVE CallersWait'
  <2>1. PICK r \in network :
          /\ network' = network \ {r}
          /\ handler' = [handler EXCEPT ![h] = [pc |-> "admit", request |-> r]]
    BY <1>8 DEF Accept
  <2>2. app' = app
    BY <1>8 DEF Accept, desktop
  <2>3. /\ handler'[h].pc # "free" /\ Request(h)' = r /\ handler[h].pc = "free"
        /\ \A g \in Handlers \ {h} : handler'[g] = handler[g] /\ Request(g)' = Request(g)
    BY <1>1, <1>8, <2>1 DEF Request, Accept
  <2>4. \A q \in network', g \in Handlers :
          (q.client # None /\ handler'[g].pc # "free") => Request(g)'.client # q.client
    BY <2>1, <2>3 DEF CallersWait
  <2>5. ASSUME NEW g \in Handlers, handler'[g].pc # "free", Request(g)'.client # None
        PROVE  /\ Waits(Request(g)')
               /\ \A k \in Handlers \ {g} :
                    handler'[k].pc # "free" => Request(k)'.client # Request(g)'.client
    BY <2>1, <2>3, <2>5 DEF CallersWait
  <2>6. \A q \in network' : q.client # None =>
          Waits(q) /\ \A p \in network' : p.client = q.client => p = q
    BY <2>1 DEF CallersWait
  <2> QED
    BY <2>2, <2>4, <2>5, <2>6 DEF CallersWait, Waits, NextBatch
<1>9. ASSUME NEW h \in Handlers, Admit(h) \/ Store(h) \/ ReadClock(h) \/ Ingest(h)
      PROVE  CallersWait'
  <2>1. UNCHANGED <<app, network>> /\ handler[h].pc # "free"
    BY <1>9 DEF Admit, Store, ReadClock, Ingest, desktop
  <2>2. /\ \A g \in Handlers \ {h} : handler'[g] = handler[g]
        /\ Request(h)' = Request(h)
    BY <1>1, <1>9 DEF Admit, Store, ReadClock, Ingest, Write, Decided, Answer, Goto, Request
  <2> QED
    BY <2>1, <2>2, CallersFrame DEF Request
<1>10. ASSUME NEW h \in Handlers, Reply(h) \/ HandlerDies(h) PROVE CallersWait'
  <2> DEFINE a == Request(h).client
  <2>1. /\ UNCHANGED network /\ handler[h].pc # "free"
        /\ handler' = [handler EXCEPT ![h] = [pc |-> "free"]]
    BY <1>10 DEF Reply, HandlerDies
  <2>2. a \in Apps \cup {None}
    BY <2>1, HandlerTypes, RequestAlone, Parts DEF Request
  <2>3. \A b \in Apps \ {a} : app'[b] = app[b]
    BY <1>1, <1>10, <2>2, GoesOnType DEF Reply, HandlerDies
  <2>4. handler'[h].pc = "free" /\ \A g \in Handlers \ {h} : handler'[g] = handler[g]
    BY <1>1, <2>1
  <2>5. a # None =>
          /\ \A r \in network : r.client # a
          /\ \A g \in Handlers \ {h} : handler[g].pc # "free" => Request(g).client # a
    BY <2>1 DEF CallersWait
  <2> HIDE DEF a
  <2> QED
    BY <2>1, <2>2, <2>3, <2>4, <2>5, NoneAssumption, CallersFrame DEF Request
<1>11. CASE UNCHANGED <<app, network, handler>>
  BY <1>11 DEF CallersWait, Waits, NextBatch, Request
<1> QED
  BY <1>3, <1>4, <1>5, <1>6, <1>7, <1>8, <1>9, <1>10, <1>11
  DEF Next, Collector, Server, Revoke, WindowEnds, Link, Tick, desktop, vars

LEMMA FiniteIds ==
  ASSUME NEW ids, ids \subseteq ImportIds
  PROVE  /\ IsFiniteSet(ids) /\ Cardinality(ids) \in Nat
         /\ \A sub \in SUBSET ids : Cardinality(sub) \in Nat /\ Cardinality(sub) <= Cardinality(ids)
         /\ \A i : Cardinality(ids \cup {i}) <= Cardinality(ids) + 1
                   /\ Cardinality(ids \cup {i}) \in Nat
<1>1. IsFiniteSet(ImportIds)
  BY LimitsAssumption, FS_Interval DEF ImportIds
<1>2. IsFiniteSet(ids)
  BY <1>1, FS_Subset
<1>3. Cardinality(ids) \in Nat
  BY <1>2, FS_CardinalityType
<1>4. ASSUME NEW sub \in SUBSET ids
      PROVE  Cardinality(sub) \in Nat /\ Cardinality(sub) <= Cardinality(ids)
  BY <1>2, FS_Subset, FS_CardinalityType
<1>5. ASSUME NEW i
      PROVE  /\ Cardinality(ids \cup {i}) <= Cardinality(ids) + 1
             /\ Cardinality(ids \cup {i}) \in Nat
  <2>1. Cardinality(ids \cup {i}) = IF i \in ids THEN Cardinality(ids) ELSE Cardinality(ids) + 1
    BY <1>2, FS_AddElement
  <2> QED
    BY <1>3, <2>1
<1> QED
  BY <1>2, <1>3, <1>4, <1>5

LEMMA StageLimits ==
  ASSUME TypeOK, LimitsHold, NEW a \in Apps, NEW d \in Devices, NEW p \in Payloads,
         Stage(a, d, p)
  PROVE  /\ Cardinality(InState("pending")') <= PendingLimit
         /\ Cardinality((InState("pending") \cup InState("uploaded"))') <= RetainedLimit
<1>1. PICK old \in SUBSET InState("uploaded") :
        IF \E i \in InState("pending") : outbox[i].payload = p
        THEN outbox' = Pruned(old)
        ELSE /\ ~Full(old)
             /\ InState("none") # {}
             /\ outbox' = [Pruned(old) EXCEPT ![NextId] =
                             [state |-> "pending", payload |-> p, receipt |-> None]]
  BY DEF Stage
<1>2. outbox \in [ImportIds -> Batches]
  BY Parts
<1>3. \A i \in ImportIds :
        Pruned(old)[i].state = IF i \in old THEN "pruned" ELSE outbox[i].state
  BY <1>1, <1>2 DEF Pruned, Batches, InState
<1>4. /\ InState("pending") \subseteq ImportIds /\ InState("uploaded") \subseteq ImportIds
      /\ InState("none") \subseteq ImportIds
      /\ \A i \in old : outbox[i].state = "uploaded"
  BY DEF InState
<1>5. CASE outbox' = Pruned(old)
  <2>1. /\ InState("pending")' = InState("pending")
        /\ InState("uploaded")' \subseteq InState("uploaded")
    BY <1>3, <1>4, <1>5 DEF InState
  <2>2. Cardinality((InState("pending") \cup InState("uploaded"))')
          <= Cardinality(InState("pending") \cup InState("uploaded"))
    BY <2>1, <1>4, FiniteIds
  <2> QED
    BY <1>4, <2>1, <2>2, FiniteIds, LimitsAssumption DEF LimitsHold
<1>6. CASE /\ ~Full(old) /\ InState("none") # {}
           /\ outbox' = [Pruned(old) EXCEPT ![NextId] =
                           [state |-> "pending", payload |-> p, receipt |-> None]]
  <2>1. NextId \in ImportIds /\ outbox[NextId].state = "none"
    BY <1>4, <1>6, FirstIn DEF NextId, InState
  <2>2. \A i \in ImportIds :
          outbox'[i].state = IF i = NextId THEN "pending"
                             ELSE IF i \in old THEN "pruned" ELSE outbox[i].state
    BY <1>3, <1>6, <2>1 DEF Pruned
  <2>3. /\ InState("pending")' = InState("pending") \cup {NextId}
        /\ (InState("pending") \cup InState("uploaded"))'
             = (InState("pending") \cup (InState("uploaded") \ old)) \cup {NextId}
    BY <1>4, <2>1, <2>2 DEF InState
  <2>4. /\ Cardinality(InState("pending")) < PendingLimit
        /\ Cardinality(InState("pending") \cup (InState("uploaded") \ old)) < RetainedLimit
    BY <1>4, <1>6, FiniteIds, LimitsAssumption DEF Full
  <2>5. /\ InState("pending") \cup (InState("uploaded") \ old) \subseteq ImportIds
        /\ InState("pending") \subseteq ImportIds
    BY <1>4
  <2> HIDE DEF InState
  <2>6. /\ Cardinality(InState("pending") \cup {NextId}) <= Cardinality(InState("pending")) + 1
        /\ Cardinality(InState("pending") \cup {NextId}) \in Nat
        /\ Cardinality(InState("pending")) \in Nat
    BY <2>5, FiniteIds
  <2> DEFINE kept == InState("pending") \cup (InState("uploaded") \ old)
  <2>7. /\ Cardinality(kept \cup {NextId}) <= Cardinality(kept) + 1
        /\ Cardinality(kept \cup {NextId}) \in Nat /\ Cardinality(kept) \in Nat
    BY <2>5, FiniteIds
  <2>8. /\ Cardinality(InState("pending")') = Cardinality(InState("pending") \cup {NextId})
        /\ Cardinality((InState("pending") \cup InState("uploaded"))')
             = Cardinality(kept \cup {NextId})
    BY <2>3, Zenon
  <2>9. Cardinality(kept) < RetainedLimit
    BY <2>4
  <2> HIDE DEF kept
  <2> QED
    BY <2>4, <2>6, <2>7, <2>8, <2>9, LimitsAssumption
<1> QED
  BY <1>1, <1>5, <1>6

LEMMA LimitsNext ==
  ASSUME TypeOK, RunsAgree, HandlersAgree, LimitsHold, [Next]_vars
  PROVE  LimitsHold'
<1>1. /\ Cardinality(InState("pending")') <= PendingLimit
      /\ Cardinality((InState("pending") \cup InState("uploaded"))') <= RetainedLimit
  <2>1. ASSUME NEW a \in Apps, Record(a)
        PROVE  /\ Cardinality(InState("pending")') <= PendingLimit
               /\ Cardinality((InState("pending") \cup InState("uploaded"))') <= RetainedLimit
    <3>1. /\ InState("pending")' \subseteq InState("pending")
          /\ (InState("pending") \cup InState("uploaded"))'
               \subseteq InState("pending") \cup InState("uploaded")
          /\ InState("pending") \cup InState("uploaded") \subseteq ImportIds
          /\ InState("pending") \subseteq ImportIds
      BY <2>1, RecordBatches DEF InState
    <3>2. /\ Cardinality(InState("pending")') <= Cardinality(InState("pending"))
          /\ Cardinality(InState("pending")') \in Nat /\ Cardinality(InState("pending")) \in Nat
      BY <3>1, FiniteIds
    <3>3. LET both == InState("pending") \cup InState("uploaded")
          IN /\ Cardinality(both') <= Cardinality(both)
             /\ Cardinality(both') \in Nat /\ Cardinality(both) \in Nat
      BY <3>1, FiniteIds
    <3> QED
      BY <3>2, <3>3, LimitsAssumption DEF LimitsHold
  <2>2. CASE outbox' = outbox
    BY <2>2 DEF LimitsHold, InState
  <2>3. \/ outbox' = outbox
        \/ \E a \in Apps : Record(a)
        \/ \E a \in Apps, d \in Devices, p \in Payloads : Stage(a, d, p)
    BY DEF Next, Collector, Server, RetryPending, Upload, RequestLost, GiveUp, AppDies, Accept,
       Admit, Store, ReadClock, Ingest, Reply, HandlerDies, Revoke, WindowEnds, Link, Tick,
       desktop, vars
  <2> QED
    BY <2>1, <2>2, <2>3, StageLimits
<1>2. ASSUME NEW d \in Devices PROVE Cardinality(ImportsOf(d)') <= ImportLimit
  <2>1. ImportsOf(d) \subseteq ImportIds
    BY DEF ImportsOf
  <2>2. ASSUME ImportsOf(d)' = ImportsOf(d) PROVE Cardinality(ImportsOf(d)') <= ImportLimit
    BY <2>2 DEF LimitsHold
  <2>3. ASSUME NEW h \in Handlers, Store(h) PROVE Cardinality(ImportsOf(d)') <= ImportLimit
    <3>1. CASE \A i \in ImportIds : import'[i] = import[i]
      BY <2>2, <3>1 DEF ImportsOf
    <3>2. CASE \E i \in ImportIds : import'[i] # import[i]
      <4> DEFINE r == Request(h)
      <4>1. /\ \A i \in ImportIds \ {r.id} : import'[i] = import[i]
            /\ import[r.id].state = "none"
            /\ ~(Cardinality(ImportsOf(r.device)) >= ImportLimit)
            /\ import'[r.id].state = "pending" /\ import'[r.id].device = r.device
        <5>1. PICK i \in ImportIds : import'[i] # import[i]
          BY <3>2
        <5>2. /\ i = r.id /\ import[i].state = "none"
              /\ ~(Cardinality(ImportsOf(r.device)) >= ImportLimit)
              /\ import'[i] = [state |-> "pending", device |-> r.device,
                               payload |-> r.payload, processed |-> None]
          BY <2>3, <5>1, StoredRow
        <5>3. \A k \in ImportIds \ {r.id} : import'[k] = import[k]
          BY <2>3, StoredRow
        <5> HIDE DEF r
        <5> QED
          BY <5>2, <5>3
      <4>2. CASE d = r.device
        <5>1. ImportsOf(d)' \subseteq ImportsOf(d) \cup {r.id}
          BY <4>1, <4>2 DEF ImportsOf
        <5>2. /\ Cardinality(ImportsOf(d) \cup {r.id}) <= Cardinality(ImportsOf(d)) + 1
              /\ Cardinality(ImportsOf(d)) \in Nat
              /\ Cardinality(ImportsOf(d) \cup {r.id}) \in Nat
          BY <2>1, FiniteIds
        <5>3. r.id \in ImportIds
          BY <2>3, HandlerTypes, RequestAlone, Parts DEF Store, Request
        <5>4. /\ Cardinality(ImportsOf(d)') <= Cardinality(ImportsOf(d) \cup {r.id})
              /\ Cardinality(ImportsOf(d)') \in Nat
          <6>1. ImportsOf(d) \cup {r.id} \subseteq ImportIds
            BY <2>1, <5>3
          <6> QED
            BY <5>1, <6>1, FiniteIds
        <5> QED
          BY <4>1, <4>2, <5>2, <5>4, LimitsAssumption
      <4>3. CASE d # r.device
        <5>1. ImportsOf(d)' = ImportsOf(d)
          BY <4>1, <4>3 DEF ImportsOf
        <5> QED
          BY <2>2, <5>1
      <4> QED
        BY <4>2, <4>3
    <3> QED
      BY <3>1, <3>2
  <2>4. ASSUME NEW h \in Handlers, Ingest(h) PROVE ImportsOf(d)' = ImportsOf(d)
    BY <2>4, DecidedRows DEF ImportsOf, Verdicts
  <2> QED
    BY <2>2, <2>3, <2>4, ImportChanges DEF ImportsOf
<1> QED
  BY <1>1, <1>2 DEF LimitsHold

\* What RecordsAreOfAcceptedImports says of one firm, and of one of its sources.
Shown(f) ==
  IF AcceptedFor(f) = {} THEN firm[f] = [source |-> None, seen |-> None]
  ELSE \E i \in AcceptedFor(f) :
         /\ firm[f] = [source |-> import[i].payload[f], seen |-> import[i].processed]
         /\ \A k \in AcceptedFor(f) : import[k].processed <= import[i].processed

With(f, s) == {i \in AcceptedFor(f) : import[i].payload[f] = s}

Queued(f, s) ==
  IF With(f, s) = {} THEN queued[<<f, s>>] = None ELSE queued[<<f, s>>] \in With(f, s)

LEMMA RecordsParts ==
  /\ RecordsAreOfAcceptedImports <=>
       (\A f \in Firms : Shown(f)) /\ (\A f \in Firms, s \in Sources : Queued(f, s))
  /\ RecordsAreOfAcceptedImports' <=>
       (\A f \in Firms : Shown(f)') /\ (\A f \in Firms, s \in Sources : Queued(f, s)')
BY DEF RecordsAreOfAcceptedImports, Shown, Queued, With

LEMMA ShownFrame ==
  ASSUME NEW f, Shown(f), firm'[f] = firm[f], AcceptedFor(f)' = AcceptedFor(f),
         \A i \in AcceptedFor(f) : import'[i] = import[i]
  PROVE  Shown(f)'
<1>1. CASE AcceptedFor(f) = {}
  BY <1>1 DEF Shown
<1>2. CASE AcceptedFor(f) # {}
  <2>1. PICK i \in AcceptedFor(f) :
          /\ firm[f] = [source |-> import[i].payload[f], seen |-> import[i].processed]
          /\ \A k \in AcceptedFor(f) : import[k].processed <= import[i].processed
    BY <1>2 DEF Shown
  <2>2. /\ firm'[f] = [source |-> import'[i].payload[f], seen |-> import'[i].processed]
        /\ \A k \in AcceptedFor(f)' : import'[k].processed <= import'[i].processed
    BY <2>1
  <2> QED
    BY <1>2, <2>1, <2>2 DEF Shown
<1> QED
  BY <1>1, <1>2

\* Nothing changes while the accepted imports stay the same.
LEMMA RecordsFrame ==
  ASSUME RecordsAreOfAcceptedImports, UNCHANGED <<firm, queued>>,
         \A i \in ImportIds : /\ import[i].state = "accepted" => import'[i] = import[i]
                              /\ import[i].state # "accepted" => import'[i].state # "accepted"
  PROVE  RecordsAreOfAcceptedImports'
<1>1. Accepted' = Accepted /\ \A i \in Accepted : import'[i] = import[i]
  BY DEF Accepted
<1>2. \A f : /\ AcceptedFor(f)' = AcceptedFor(f)
             /\ \A i \in AcceptedFor(f) : import'[i] = import[i]
  BY <1>1 DEF AcceptedFor
<1>3. \A f, s : With(f, s)' = With(f, s)
  BY <1>2 DEF With
<1>4. \A f \in Firms : Shown(f)'
  BY <1>2, RecordsParts, ShownFrame
<1>5. \A f \in Firms, s \in Sources : Queued(f, s)'
  BY <1>3, RecordsParts DEF Queued
<1> QED
  BY <1>4, <1>5, RecordsParts

LEMMA RecordsAccept ==
  ASSUME TypeOK, ImportsAreWhole, RecordsAreOfAcceptedImports,
         NEW r \in Requests, NEW now \in Instants,
         import[r.id].state = "pending", import[r.id].payload = r.payload,
         import' = [import EXCEPT ![r.id] =
                      [import[r.id] EXCEPT !.state = "accepted", !.processed = now]],
         ~Stale(r.payload, now),
         firm' = Observed(r.payload, now), queued' = Enqueued(r)
  PROVE  RecordsAreOfAcceptedImports'
<1> DEFINE id == r.id
           p == r.payload
<1>1. id \in ImportIds /\ p \in Payloads /\ DOMAIN p \subseteq Firms
  BY RequestAlone, PayloadsAssumption
<1>2. import[id] \in Imports /\ import \in [ImportIds -> Imports]
  BY <1>1, Parts
<1>3. /\ import'[id].state = "accepted" /\ import'[id].processed = now
      /\ import'[id].payload = p
      /\ \A i \in ImportIds \ {id} : import'[i] = import[i]
      /\ id \notin Accepted
  <2>1. import'[id] = [import[id] EXCEPT !.state = "accepted", !.processed = now]
    BY <1>1, <1>2
  <2> QED
    BY <1>1, <1>2, <2>1 DEF Imports, Accepted
<1> HIDE DEF id, p
<1>4. ASSUME NEW f
      PROVE  /\ AcceptedFor(f)' = AcceptedFor(f) \cup (IF f \in DOMAIN p THEN {id} ELSE {})
             /\ AcceptedFor(f) \subseteq Accepted /\ id \notin AcceptedFor(f)
             /\ \A i \in AcceptedFor(f) : import'[i] = import[i]
  BY <1>1, <1>3 DEF AcceptedFor, Accepted
<1>5. \A i \in Accepted : import[i].processed \in Instants
  BY DEF Accepted, ImportsAreWhole, Verdicts
<1>6. Instants \subseteq Int /\ now \in Int
  BY LimitsAssumption DEF Instants
<1>7. ASSUME NEW f \in Firms PROVE Shown(f)'
  <2>1. CASE f \in DOMAIN p
    <3>1. firm'[f] = [source |-> p[f], seen |-> now]
      BY <2>1 DEF Observed, p
    <3>2. \A k \in AcceptedFor(f) : import[k].processed <= now
      <4> SUFFICES ASSUME NEW k \in AcceptedFor(f) PROVE import[k].processed <= now
        OBVIOUS
      <4>1. PICK i \in AcceptedFor(f) :
              /\ firm[f] = [source |-> import[i].payload[f], seen |-> import[i].processed]
              /\ \A j \in AcceptedFor(f) : import[j].processed <= import[i].processed
        BY RecordsParts DEF Shown
      <4>2. firm[f].seen = import[i].processed /\ import[i].processed \in Instants
        BY <1>4, <1>5, <4>1
      <4>3. ~(firm[f].seen # None /\ firm[f].seen > now)
        BY <2>1 DEF Stale, p
      <4>4. import[k].processed <= import[i].processed /\ import[k].processed \in Instants
        BY <1>4, <1>5, <4>1
      <4> QED
        BY <1>6, <4>2, <4>3, <4>4, NoneAssumption
    <3>3. \A k \in AcceptedFor(f)' : import'[k].processed <= now
      BY <1>3, <1>4, <1>6, <2>1, <3>2
    <3>4. id \in AcceptedFor(f)' /\ import'[id].payload[f] = p[f]
      BY <1>3, <1>4, <2>1
    <3> QED
      BY <1>3, <3>1, <3>3, <3>4 DEF Shown
  <2>2. CASE f \notin DOMAIN p
    <3>1. firm'[f] = firm[f]
      BY <2>2 DEF Observed, p
    <3>2. AcceptedFor(f)' = AcceptedFor(f)
      BY <1>4, <2>2
    <3>3. Shown(f)
      BY RecordsParts
    <3> QED
      BY <1>4, <3>1, <3>2, <3>3, ShownFrame
  <2> QED
    BY <2>1, <2>2
<1>8. ASSUME NEW f \in Firms, NEW s \in Sources PROVE Queued(f, s)'
  <2>1. With(f, s)' = With(f, s) \cup (IF f \in DOMAIN p /\ p[f] = s THEN {id} ELSE {})
    BY <1>3, <1>4 DEF With
  <2>2. queued'[<<f, s>>] = IF f \in DOMAIN p /\ p[f] = s /\ queued[<<f, s>>] = None
                            THEN id ELSE queued[<<f, s>>]
    BY DEF Enqueued, id, p
  <2>3. Queued(f, s)
    BY RecordsParts
  <2>4. With(f, s) \subseteq ImportIds
    BY DEF With, AcceptedFor, Accepted
  <2> QED
    BY <1>1, <2>1, <2>2, <2>3, <2>4, NoneAssumption DEF Queued
<1> QED
  BY <1>7, <1>8, RecordsParts

LEMMA RecordsNext ==
  ASSUME TypeOK, HandlersAgree, ImportsAreWhole, RecordsAreOfAcceptedImports, [Next]_vars
  PROVE  RecordsAreOfAcceptedImports'
<1>1. ASSUME NEW h \in Handlers, Store(h) PROVE RecordsAreOfAcceptedImports'
  <2>1. UNCHANGED <<firm, queued>>
    BY <1>1 DEF Store
  <2>2. \A i \in ImportIds : \/ import'[i] = import[i]
                             \/ import[i].state = "none" /\ import'[i].state = "pending"
    <3> SUFFICES ASSUME NEW i \in ImportIds
                 PROVE  \/ import'[i] = import[i]
                        \/ import[i].state = "none" /\ import'[i].state = "pending"
      OBVIOUS
    <3>1. \/ import'[i] = import[i]
          \/ /\ import[i].state = "none"
             /\ import'[i] = [state |-> "pending", device |-> Request(h).device,
                              payload |-> Request(h).payload, processed |-> None]
      BY <1>1, StoredRow
    <3> QED
      BY <3>1
  <2> QED
    BY <2>1, <2>2, RecordsFrame
<1>2. ASSUME NEW h \in Handlers, Ingest(h) PROVE RecordsAreOfAcceptedImports'
  <2> DEFINE r == Request(h)
             now == handler[h].now
             row(v) == [import[r.id] EXCEPT !.state = v, !.processed = now]
  <2>1. /\ r \in Requests /\ now \in Instants
        /\ import[r.id].payload = r.payload
        /\ \/ UNCHANGED <<import, firm, queued>>
           \/ \E v \in Verdicts :
                /\ import[r.id].state = "pending"
                /\ import' = [import EXCEPT ![r.id] = row(v)]
                /\ IF v = "rejected" THEN UNCHANGED <<firm, queued>>
                   ELSE /\ ~Stale(r.payload, now)
                        /\ firm' = Observed(r.payload, now) /\ queued' = Enqueued(r)
    BY <1>2, DecidedRow
  <2>2. r.id \in ImportIds /\ import[r.id] \in Imports /\ import \in [ImportIds -> Imports]
    BY <2>1, RequestAlone, Parts
  <2>3. row("rejected").state = "rejected"
    BY <2>2 DEF Imports
  <2>4. CASE UNCHANGED <<import, firm, queued>>
    BY <2>4, RecordsFrame
  <2>5. CASE /\ import[r.id].state = "pending" /\ UNCHANGED <<firm, queued>>
             /\ import' = [import EXCEPT ![r.id] = row("rejected")]
    <3> HIDE DEF row, r
    <3>1. \A i \in ImportIds : /\ import[i].state = "accepted" => import'[i] = import[i]
                               /\ import[i].state # "accepted" => import'[i].state # "accepted"
      BY <2>2, <2>3, <2>5
    <3> QED
      BY <2>5, <3>1, RecordsFrame
  <2>6. CASE /\ import[r.id].state = "pending"
             /\ import' = [import EXCEPT ![r.id] = row("accepted")]
             /\ ~Stale(r.payload, now)
             /\ firm' = Observed(r.payload, now) /\ queued' = Enqueued(r)
    BY <2>1, <2>6, RecordsAccept
  <2> QED
    BY <2>1, <2>4, <2>5, <2>6 DEF Verdicts
<1>3. CASE UNCHANGED <<import, firm, queued>>
  BY <1>3, RecordsFrame
<1>4. \/ UNCHANGED <<import, firm, queued>>
      \/ \E h \in Handlers : Store(h) \/ Ingest(h)
  BY DEF Next, Collector, Server, Stage, RetryPending, Upload, RequestLost, GiveUp, AppDies,
     Record, Accept, Admit, ReadClock, Reply, HandlerDies, Revoke, WindowEnds, Link, Tick,
     server, vars
<1> QED
  BY <1>1, <1>2, <1>3, <1>4

-----------------------------------------------------------------------------
(* Theorems *)

LEMMA InvInit == Init => IInv
<1> SUFFICES ASSUME Init PROVE IInv
  OBVIOUS
<1>1. RunsAgree /\ BatchesAgree /\ ImportsAreWhole
  BY DEF Init, Idle, NoBatch, NoImport, RunsAgree, BatchesAgree, ImportsAreWhole, Verdicts
<1>2. HandlersAgree /\ RequestsAgree /\ CallersWait
  BY DEF Init, HandlersAgree, RequestsAgree, CallersWait
<1>3. LimitsHold
  <2>1. /\ InState("pending") = {} /\ InState("pending") \cup InState("uploaded") = {}
        /\ \A d \in Devices : ImportsOf(d) = {}
    BY DEF Init, NoBatch, NoImport, InState, ImportsOf
  <2> QED
    BY <2>1, FS_EmptySet, LimitsAssumption DEF LimitsHold
<1>4. RecordsAreOfAcceptedImports
  <2>1. Accepted = {}
    BY DEF Init, NoImport, Accepted
  <2>2. \A f : AcceptedFor(f) = {}
    BY <2>1 DEF AcceptedFor
  <2> QED
    BY <2>2 DEF Init, RecordsAreOfAcceptedImports
<1> QED
  BY <1>1, <1>2, <1>3, <1>4, TypeInit DEF IInv

LEMMA InvNext == IInv /\ [Next]_vars => IInv'
BY TypeNext, RunsNext, BatchesNext, ImportsNext, HandlersNext, RequestsNext, CallersNext,
   LimitsNext, RecordsNext DEF IInv

\* The inductive invariant of collector and endpoint: what each remembers of the
\* other's rows stays true while requests and answers are under way.
THEOREM Invariance == Spec => []IInv
BY InvInit, InvNext, PTL DEF Spec

\* Types, the outbox's CHECK constraint and the request limit of a window.
THEOREM TypeCorrect == Spec => []TypeOK
<1>1. IInv => TypeOK
  BY DEF IInv
<1> QED
  BY <1>1, Invariance, PTL

\* The outbox and the cap of a device hold for any number of windows and processes.
THEOREM Limits == Spec => []LimitsHold
<1>1. IInv => LimitsHold
  BY DEF IInv
<1> QED
  BY <1>1, Invariance, PTL

\* A firm shows the latest accepted observation and no other, however imports are
\* retried and overlap.
THEOREM Records == Spec => []RecordsAreOfAcceptedImports
<1>1. IInv => RecordsAreOfAcceptedImports
  BY DEF IInv
<1> QED
  BY <1>1, Invariance, PTL

\* Revocation between a request's admission and its import keeps the import out.
THEOREM Revocation == Spec => NoImportAfterRevocation
<1>1. IInv /\ [Next]_vars =>
        [\A i \in ImportIds :
           (import[i].state = "none" /\ import'[i].state # "none") =>
             ~device[import'[i].device].revoked]_vars
  <2> SUFFICES ASSUME IInv, [Next]_vars, NEW i \in ImportIds,
                      import[i].state = "none", import'[i].state # "none"
               PROVE  ~device[import'[i].device].revoked
    OBVIOUS
  <2>1. ASSUME NEW h \in Handlers, Store(h) PROVE ~device[import'[i].device].revoked
    <3>1. /\ ~device[Request(h).device].revoked
          /\ import'[i] = [state |-> "pending", device |-> Request(h).device,
                           payload |-> Request(h).payload, processed |-> None]
      BY <2>1, StoredRow DEF IInv
    <3> QED
      BY <3>1
  <2>2. ASSUME NEW h \in Handlers, Ingest(h) PROVE FALSE
    BY <2>2, DecidedRows DEF IInv
  <2> QED
    BY <2>1, <2>2, ImportChanges
<1> QED
  BY <1>1, Invariance, PTL DEF Spec, NoImportAfterRevocation

-----------------------------------------------------------------------------
(* Collector and endpoint implement the DeliveryContract *)

Kept == InState("pending")

Verdict == [i \in ImportIds |->
              IF import[i].state \in Verdicts THEN import[i].state ELSE None]

Told == [i \in ImportIds |-> outbox[i].receipt]

LEMMA ContractInit == Init => Contract!Init
BY DEF Init, Contract!Init, InState, NoBatch, NoImport, Verdicts

LEMMA StageKeeps ==
  ASSUME IInv, NEW a \in Apps, NEW d \in Devices, NEW p \in Payloads, Stage(a, d, p)
  PROVE  \/ UNCHANGED <<Kept, Verdict, Told>>
         \/ \E i \in ImportIds : /\ Verdict[i] = None /\ Kept' = Kept \cup {i}
                                 /\ UNCHANGED <<Verdict, Told>>
<1>1. /\ outbox \in [ImportIds -> Batches]
      /\ \A i \in ImportIds :
           (outbox[i].receipt = None) <=> outbox[i].state \in {"none", "pending"}
  BY Parts DEF IInv
<1>2. Verdict' = Verdict
  BY DEF Stage, server, Verdict
<1>3. \A i \in ImportIds :
        \/ outbox'[i] = outbox[i]
        \/ outbox[i].state = "uploaded" /\ outbox'[i] = [outbox[i] EXCEPT !.state = "pruned"]
        \/ /\ outbox[i].state = "none" /\ i = NextId
           /\ outbox'[i] = [state |-> "pending", payload |-> p, receipt |-> None]
  BY StageBatches DEF IInv
<1>4. \A i \in ImportIds :
        /\ outbox'[i].receipt = outbox[i].receipt
        /\ (outbox'[i].state = "pending" /\ outbox[i].state # "pending") =>
             i = NextId /\ outbox[i].state = "none"
        /\ outbox[i].state = "pending" => outbox'[i].state = "pending"
  <2> SUFFICES ASSUME NEW i \in ImportIds
               PROVE  /\ outbox'[i].receipt = outbox[i].receipt
                      /\ (outbox'[i].state = "pending" /\ outbox[i].state # "pending") =>
                           i = NextId /\ outbox[i].state = "none"
                      /\ outbox[i].state = "pending" => outbox'[i].state = "pending"
    OBVIOUS
  <2>1. CASE outbox'[i] = outbox[i]
    BY <2>1
  <2>2. CASE outbox[i].state = "uploaded" /\ outbox'[i] = [outbox[i] EXCEPT !.state = "pruned"]
    <3>1. outbox'[i].state = "pruned" /\ outbox'[i].receipt = outbox[i].receipt
      BY <1>1, <2>2 DEF Batches
    <3> QED
      BY <2>2, <3>1
  <2>3. CASE /\ outbox[i].state = "none" /\ i = NextId
             /\ outbox'[i] = [state |-> "pending", payload |-> p, receipt |-> None]
    BY <1>1, <2>3
  <2> QED
    BY <1>3, <2>1, <2>2, <2>3
<1>5. Told' = Told
  BY <1>4 DEF Told
<1>6. CASE \E i \in ImportIds : outbox'[i].state = "pending" /\ outbox[i].state # "pending"
  <2>1. PICK i \in ImportIds : outbox'[i].state = "pending" /\ outbox[i].state # "pending"
    BY <1>6
  <2>2. i = NextId /\ outbox[i].state = "none"
    BY <1>4, <2>1
  <2>3. Kept' = Kept \cup {i}
    BY <1>4, <2>1, <2>2 DEF Kept, InState
  <2>4. Verdict[i] = None
    BY <2>2 DEF IInv, BatchesAgree, Verdict, Verdicts
  <2> QED
    BY <1>2, <1>5, <2>3, <2>4
<1>7. CASE ~\E i \in ImportIds : outbox'[i].state = "pending" /\ outbox[i].state # "pending"
  <2>1. Kept' = Kept
    BY <1>4, <1>7 DEF Kept, InState
  <2> QED
    BY <1>2, <1>5, <2>1
<1> QED
  BY <1>6, <1>7

LEMMA RecordLetsGo ==
  ASSUME IInv, NEW a \in Apps, Record(a)
  PROVE  \/ UNCHANGED <<Kept, Verdict, Told>>
         \/ \E i \in Kept : /\ Verdict[i] # None
                            /\ Told' = [Told EXCEPT ![i] = Verdict[i]]
                            /\ Kept' = Kept \ {i} /\ UNCHANGED Verdict
<1> DEFINE i == NextBatch(a)
<1>1. Verdict' = Verdict /\ import[i].state = app[a].receipt
  BY DEF Record, server, Verdict, IInv, RunsAgree
<1>2. i \in ImportIds /\ app[a].receipt \in Verdicts
  BY FirstIn, Parts DEF Record, RunsAgree, NextBatch, Runs, IInv
<1>3. Verdict[i] = app[a].receipt /\ Verdict[i] # None
  BY <1>1, <1>2, NoneAssumption DEF Verdict
<1>4. \A k \in ImportIds :
        \/ outbox'[k] = outbox[k]
        \/ /\ k = i /\ outbox[k].state = "pending"
           /\ outbox'[k].state = "uploaded" /\ outbox'[k].receipt = app[a].receipt
  BY RecordBatches DEF IInv
<1> HIDE DEF i
<1>5. CASE outbox'[i] = outbox[i]
  <2>1. \A k \in ImportIds : outbox'[k] = outbox[k]
    BY <1>4, <1>5
  <2> QED
    BY <1>1, <2>1 DEF Kept, Told, InState
<1>6. CASE outbox'[i] # outbox[i]
  <2>1. /\ outbox[i].state = "pending" /\ outbox'[i].state = "uploaded"
        /\ outbox'[i].receipt = app[a].receipt
        /\ \A k \in ImportIds \ {i} : outbox'[k] = outbox[k]
    BY <1>2, <1>4, <1>6
  <2>2. Kept' = Kept \ {i} /\ i \in Kept
    BY <1>2, <2>1 DEF Kept, InState
  <2>3. Told' = [Told EXCEPT ![i] = Verdict[i]]
    BY <1>2, <1>3, <2>1 DEF Told
  <2> QED
    BY <1>1, <1>3, <2>2, <2>3
<1> QED
  BY <1>5, <1>6

LEMMA IngestDecides ==
  ASSUME IInv, NEW h \in Handlers, Ingest(h)
  PROVE  \/ UNCHANGED <<Kept, Verdict, Told>>
         \/ \E i \in Kept, v \in Verdicts :
              /\ Verdict[i] = None /\ Verdict' = [Verdict EXCEPT ![i] = v]
              /\ UNCHANGED <<Kept, Told>>
<1> DEFINE i == Request(h).id
<1>1. UNCHANGED <<Kept, Told>>
  BY DEF Ingest, desktop, Kept, Told, InState
<1>2. i \in ImportIds
  BY DecidedRow, RequestAlone DEF IInv
<1>3. \A k \in ImportIds : import'[k] # import[k] =>
        k = i /\ import[k].state = "pending" /\ import'[k].state \in Verdicts
  BY DecidedRows DEF IInv
<1>4. import[i].state = "pending" => i \in Kept
  <2>1. outbox[i].state # "none"
    BY DEF Ingest, IInv, HandlersAgree
  <2>2. outbox[i].state \in {"uploaded", "pruned"} => import[i].state \in Verdicts
    BY <1>2, Parts DEF IInv, BatchesAgree, Batches
  <2> QED
    BY <1>2, <2>1, <2>2, Parts DEF IInv, Batches, Kept, InState, Verdicts
<1> HIDE DEF i
<1>5. CASE import'[i] = import[i]
  BY <1>1, <1>3, <1>5 DEF Verdict
<1>6. CASE import'[i] # import[i]
  <2>1. /\ import[i].state = "pending" /\ import'[i].state \in Verdicts
        /\ \A k \in ImportIds \ {i} : import'[k] = import[k]
    BY <1>2, <1>3, <1>6
  <2>2. Verdict[i] = None /\ Verdict' = [Verdict EXCEPT ![i] = import'[i].state]
    BY <1>2, <2>1 DEF Verdict, Verdicts
  <2> QED
    BY <1>1, <1>4, <2>1, <2>2
<1> QED
  BY <1>5, <1>6

LEMMA ContractNext ==
  ASSUME IInv, [Next]_vars
  PROVE  [Contract!Next]_(Contract!contractVars)
<1>1. ASSUME UNCHANGED <<Kept, Verdict, Told>> PROVE UNCHANGED Contract!contractVars
  BY <1>1 DEF Kept, Verdict, Told, Contract!contractVars
<1>2. ASSUME NEW i \in ImportIds, Verdict[i] = None, Kept' = Kept \cup {i},
             UNCHANGED <<Verdict, Told>>
      PROVE  Contract!Next
  BY <1>2 DEF Kept, Verdict, Told, Contract!Next, Contract!Keep
<1>3. ASSUME NEW i \in Kept, Verdict[i] # None, Told' = [Told EXCEPT ![i] = Verdict[i]],
             Kept' = Kept \ {i}, UNCHANGED Verdict
      PROVE  Contract!Next
  <2>1. Contract!LetGo(i)
    BY <1>3 DEF Kept, Verdict, Told, Contract!LetGo
  <2> QED
    BY <2>1 DEF Contract!Next, Kept, InState
<1>4. ASSUME NEW i \in Kept, NEW v \in Verdicts, Verdict[i] = None,
             Verdict' = [Verdict EXCEPT ![i] = v], UNCHANGED <<Kept, Told>>
      PROVE  Contract!Next
  <2>1. Contract!Decide(i, v)
    BY <1>4 DEF Kept, Verdict, Told, Contract!Decide
  <2> QED
    BY <2>1 DEF Contract!Next, Kept, InState
<1>5. ASSUME NEW h \in Handlers, Store(h) PROVE UNCHANGED <<Kept, Verdict, Told>>
  <2>1. UNCHANGED <<Kept, Told>>
    BY <1>5 DEF Store, desktop, Kept, Told, InState
  <2>2. \A i \in ImportIds : \/ import'[i] = import[i]
                             \/ import[i].state = "none" /\ import'[i].state = "pending"
    <3> SUFFICES ASSUME NEW i \in ImportIds
                 PROVE  \/ import'[i] = import[i]
                        \/ import[i].state = "none" /\ import'[i].state = "pending"
      OBVIOUS
    <3>1. \/ import'[i] = import[i]
          \/ /\ import[i].state = "none"
             /\ import'[i] = [state |-> "pending", device |-> Request(h).device,
                              payload |-> Request(h).payload, processed |-> None]
      BY <1>5, StoredRow DEF IInv
    <3> QED
      BY <3>1
  <2>3. Verdict' = Verdict
    BY <2>2 DEF Verdict, Verdicts
  <2> QED
    BY <2>1, <2>3
<1>6. CASE UNCHANGED <<outbox, import>>
  BY <1>1, <1>6 DEF Kept, Verdict, Told, InState
<1>7. \/ UNCHANGED <<outbox, import>>
      \/ \E a \in Apps : Record(a)
      \/ \E a \in Apps, d \in Devices, p \in Payloads : Stage(a, d, p)
      \/ \E h \in Handlers : Store(h) \/ Ingest(h)
  BY DEF Next, Collector, Server, RetryPending, Upload, RequestLost, GiveUp, AppDies, Accept,
     Admit, ReadClock, Reply, HandlerDies, Revoke, WindowEnds, Link, Tick, desktop, server,
     vars
<1> QED
  BY <1>1, <1>2, <1>3, <1>4, <1>5, <1>6, <1>7, StageKeeps, RecordLetsGo, IngestDecides

\* However requests, answers and processes are lost, the server comes to one verdict
\* on a batch and the outbox lets go of it only with that verdict.
THEOREM Implements == Spec => ImplementsDelivery
BY ContractInit, ContractNext, Invariance, PTL
   DEF Spec, ImplementsDelivery, Contract!Spec

-----------------------------------------------------------------------------
(* What is delivered is what was staged *)

AsStaged(r) == r.payload = outbox[r.id].payload

\* A request, wherever it is, carries the batch staged under its id, and that is
\* what the server keeps of it.
CarriedAsStaged ==
  /\ \A r \in network : AsStaged(r)
  /\ \A h \in Handlers : handler[h].pc # "free" => AsStaged(Request(h))
  /\ \A i \in ImportIds : import[i].state # "none" => import[i].payload = outbox[i].payload

\* An import is the batch staged under its id, known before the server knew it; the
\* endpoint never meets a known id with another payload; and a batch that left the
\* pending ones did so with the server's verdict.
DeliveredAsStaged ==
  /\ \A i \in ImportIds :
       /\ import[i].state # "none" =>
            outbox[i].state # "none" /\ import[i].payload = outbox[i].payload
       /\ outbox[i].state \in {"uploaded", "pruned"} =>
            outbox[i].receipt \in Verdicts /\ import[i].state = outbox[i].receipt
  /\ \A h \in Handlers :
       (handler[h].pc = "store" /\ import[Request(h).id].state # "none") =>
         import[Request(h).id].payload = Request(h).payload

\* No retry, late request or other credential decides an import again.
VerdictsStand ==
  [][\A i \in ImportIds : import[i].state \in Verdicts => import'[i] = import[i]]_vars

LEMMA RequestsCarried ==
  ASSUME IInv, CarriedAsStaged, [Next]_vars, NEW r \in network'
  PROVE  \E q \in Requests : /\ r.id = q.id /\ r.payload = q.payload
                             /\ AsStaged(q) /\ outbox[q.id].state # "none"
<1>1. network \subseteq Requests /\ \A q \in network : AsStaged(q) /\ outbox[q.id].state # "none"
  BY Parts DEF IInv, CarriedAsStaged, RequestsAgree
<1>2. ASSUME NEW a \in Apps, Upload(a), r \notin network
      PROVE  r \in Requests /\ AsStaged(r) /\ outbox[r.id].state # "none"
  <2> DEFINE i == NextBatch(a)
  <2>1. i \in app[a].todo /\ app[a].todo \subseteq ImportIds /\ app[a].device \in Devices
    BY <1>2, FirstIn, Parts DEF Upload, IInv, RunsAgree, NextBatch, Runs
  <2>2. outbox[i].state # "none" /\ outbox[i].payload \in Payloads
    BY <2>1 DEF IInv, RunsAgree, BatchesAgree
  <2>3. r = [client |-> a, id |-> i, payload |-> outbox[i].payload, device |-> app[a].device]
    BY <1>2 DEF Upload
  <2> HIDE DEF i
  <2> QED
    BY <2>1, <2>2, <2>3 DEF Requests, AsStaged
<1>3. ASSUME NEW a \in Apps, Abandoned(a)
      PROVE  \E q \in network : r.id = q.id /\ r.payload = q.payload
  BY <1>3, AbandonedRequests DEF IInv
<1>4. \/ network' \subseteq network
      \/ \E a \in Apps : Upload(a) \/ Abandoned(a)
  BY DEF Next, Collector, Server, Stage, RetryPending, RequestLost, GiveUp, AppDies, Record,
     Accept, Admit, Store, ReadClock, Ingest, Reply, HandlerDies, Revoke, WindowEnds, Link,
     Tick, vars
<1> QED
  BY <1>1, <1>2, <1>3, <1>4

LEMMA WorkCarried ==
  ASSUME IInv, CarriedAsStaged, [Next]_vars, NEW h \in Handlers, handler'[h].pc # "free"
  PROVE  \E q \in Requests : /\ Request(h)'.id = q.id /\ Request(h)'.payload = q.payload
                             /\ AsStaged(q) /\ outbox[q.id].state # "none"
<1> DEFINE Same(q) == /\ Request(h)'.id = q.id /\ Request(h)'.payload = q.payload
                      /\ AsStaged(q) /\ outbox[q.id].state # "none"
<1>1. handler \in [Handlers -> HandlerStates] /\ network \subseteq Requests
  BY Parts DEF IInv
<1>2. handler[h].pc # "free" =>
        Request(h) \in Requests /\ AsStaged(Request(h)) /\ outbox[Request(h).id].state # "none"
  BY <1>1, HandlerTypes DEF IInv, CarriedAsStaged, HandlersAgree, Request
<1>3. ASSUME NEW g \in Handlers, Accept(g)
      PROVE  \E q \in Requests : Same(q)
  <2>1. PICK r \in network :
          handler' = [handler EXCEPT ![g] = [pc |-> "admit", request |-> r]]
    BY <1>3 DEF Accept
  <2>2. r \in Requests /\ AsStaged(r) /\ outbox[r.id].state # "none"
    BY <1>1 DEF IInv, CarriedAsStaged, RequestsAgree
  <2>3. h = g => Request(h)' = r
    BY <1>1, <2>1 DEF Request
  <2>4. h # g => Request(h)' = Request(h) /\ handler'[h].pc = handler[h].pc
    BY <1>1, <2>1 DEF Request
  <2> QED
    BY <1>2, <2>2, <2>3, <2>4
<1>4. ASSUME NEW a \in Apps, Abandoned(a)
      PROVE  \E q \in Requests : Same(q)
  BY <1>2, <1>4, AbandonedHandlers DEF IInv
<1>5. ASSUME NEW g \in Handlers, Admit(g) \/ Store(g) \/ ReadClock(g) \/ Ingest(g)
      PROVE  /\ handler[g].pc # "free"
             /\ \E s : handler' = [handler EXCEPT ![g] = s] /\ s.request = Request(g)
  <2> DEFINE Moves == \E s : handler' = [handler EXCEPT ![g] = s] /\ s.request = Request(g)
  <2>1. \A v : [pc |-> "answer", request |-> Request(g), result |-> v].request = Request(g)
    OBVIOUS
  <2>2. \A v : Answer(g, v) => Moves
    BY <2>1 DEF Answer
  <2>3. \A pc : Goto(g, pc) => Moves
    <3>1. \A pc : [pc |-> pc, request |-> Request(g)].request = Request(g)
      OBVIOUS
    <3> QED
      BY <3>1 DEF Goto
  <2>4. ReadClock(g) => Moves
    <3>1. [pc |-> "ingest", request |-> Request(g), now |-> clock].request = Request(g)
      OBVIOUS
    <3> QED
      BY <3>1 DEF ReadClock
  <2>5. Admit(g) => (\E v : Answer(g, v)) \/ Goto(g, "store")
    BY DEF Admit
  <2>6. Store(g) => (\E v : Answer(g, v)) \/ Goto(g, "process")
    BY DEF Store
  <2>7. Ingest(g) => \E v : Answer(g, v)
    BY DEF Ingest, Write, Decided
  <2>8. Moves
    <3> HIDE DEF Moves
    <3> QED
      BY <1>5, <2>2, <2>3, <2>4, <2>5, <2>6, <2>7
  <2> QED
    BY <1>5, <2>8 DEF Admit, Store, ReadClock, Ingest
<1>6. ASSUME NEW g \in Handlers, Admit(g) \/ Store(g) \/ ReadClock(g) \/ Ingest(g)
      PROVE  \E q \in Requests : Same(q)
  <2>1. PICK s : handler' = [handler EXCEPT ![g] = s] /\ s.request = Request(g)
    BY <1>5, <1>6
  <2>2. Request(h)' = Request(h) /\ handler[h].pc # "free"
    <3>1. CASE h = g
      BY <1>1, <1>5, <1>6, <2>1, <3>1 DEF Request
    <3>2. CASE h # g
      BY <1>1, <2>1, <3>2 DEF Request
    <3> QED
      BY <3>1, <3>2
  <2> QED
    BY <1>2, <2>2
<1>7. ASSUME NEW g \in Handlers, handler' = [handler EXCEPT ![g] = [pc |-> "free"]]
      PROVE  \E q \in Requests : Same(q)
  <2>1. h # g /\ Request(h)' = Request(h) /\ handler[h].pc # "free"
    BY <1>1, <1>7 DEF Request
  <2> QED
    BY <1>2, <2>1
<1>8. CASE handler' = handler
  BY <1>2, <1>8 DEF Request
<1>9. \/ handler' = handler
      \/ \E a \in Apps : Abandoned(a)
      \/ \E g \in Handlers :
           \/ Accept(g) \/ Admit(g) \/ Store(g) \/ ReadClock(g) \/ Ingest(g)
           \/ handler' = [handler EXCEPT ![g] = [pc |-> "free"]]
  BY DEF Next, Collector, Server, Stage, RetryPending, Upload, RequestLost, GiveUp, AppDies,
     Record, Reply, HandlerDies, Revoke, WindowEnds, Link, Tick, vars
<1> QED
  BY <1>3, <1>4, <1>6, <1>7, <1>8, <1>9

LEMMA CarriedNext ==
  ASSUME IInv, CarriedAsStaged, [Next]_vars
  PROVE  CarriedAsStaged'
<1>1. \A i \in ImportIds : outbox[i].state # "none" =>
        outbox'[i].state # "none" /\ outbox'[i].payload = outbox[i].payload
  BY OutboxKept DEF IInv
<1>2. \A q \in Requests : (AsStaged(q) /\ outbox[q.id].state # "none") =>
        q.payload = outbox'[q.id].payload
  BY <1>1, RequestAlone DEF AsStaged
<1>3. ASSUME NEW r \in network' PROVE AsStaged(r)'
  BY <1>2, RequestsCarried DEF AsStaged
<1>4. ASSUME NEW h \in Handlers, handler'[h].pc # "free" PROVE AsStaged(Request(h))'
  BY <1>2, <1>4, WorkCarried DEF AsStaged
<1>5. ASSUME NEW i \in ImportIds, import'[i].state # "none"
      PROVE  import'[i].payload = outbox'[i].payload
  <2>1. CASE import[i].state # "none"
    <3>1. import'[i].payload = import[i].payload
      BY <2>1, ImportKept DEF IInv
    <3>2. outbox[i].state # "none" /\ import[i].payload = outbox[i].payload
      BY <2>1 DEF IInv, BatchesAgree, CarriedAsStaged
    <3> QED
      BY <1>1, <3>1, <3>2
  <2>2. ASSUME NEW h \in Handlers, Store(h), import[i].state = "none"
        PROVE  import'[i].payload = outbox'[i].payload
    <3>1. i = Request(h).id /\ import'[i].payload = Request(h).payload
      <4>1. TypeOK /\ import'[i] # import[i]
        BY <1>5, <2>2 DEF IInv
      <4>2. /\ i = Request(h).id
            /\ import'[i] = [state |-> "pending", device |-> Request(h).device,
                             payload |-> Request(h).payload, processed |-> None]
        BY <2>2, <4>1, StoredRow
      <4> QED
        BY <4>2
    <3>2. Request(h) \in Requests /\ AsStaged(Request(h)) /\ outbox[Request(h).id].state # "none"
      BY <2>2, HandlerTypes, Parts DEF Store, IInv, CarriedAsStaged, HandlersAgree, Request
    <3> QED
      BY <1>2, <3>1, <3>2
  <2>3. ASSUME NEW h \in Handlers, Ingest(h), import[i].state = "none"
        PROVE  FALSE
    BY <1>5, <2>3, DecidedRows DEF IInv
  <2> QED
    BY <1>5, <2>1, <2>2, <2>3, ImportChanges
<1> QED
  BY <1>3, <1>4, <1>5 DEF CarriedAsStaged

\* Over lost, late and repeated requests, several credentials and processes that die,
\* what the server decides on is the batch the collector staged, it decides once, and
\* the outbox keeps that decision.
THEOREM BatchesDelivered == Spec => []DeliveredAsStaged /\ VerdictsStand
<1>1. Init => CarriedAsStaged
  BY DEF Init, CarriedAsStaged, NoImport
<1>2. IInv /\ CarriedAsStaged => DeliveredAsStaged
  <2> SUFFICES ASSUME IInv, CarriedAsStaged PROVE DeliveredAsStaged
    OBVIOUS
  <2>1. ASSUME NEW i \in ImportIds
        PROVE  /\ import[i].state # "none" =>
                    outbox[i].state # "none" /\ import[i].payload = outbox[i].payload
               /\ outbox[i].state \in {"uploaded", "pruned"} =>
                    outbox[i].receipt \in Verdicts /\ import[i].state = outbox[i].receipt
    BY Parts DEF IInv, BatchesAgree, CarriedAsStaged, Batches
  <2>2. ASSUME NEW h \in Handlers, handler[h].pc = "store",
               import[Request(h).id].state # "none"
        PROVE  import[Request(h).id].payload = Request(h).payload
    <3>1. Request(h) \in Requests /\ Request(h).id \in ImportIds
      BY <2>2, HandlerTypes, RequestAlone, Parts DEF IInv, Request
    <3>2. AsStaged(Request(h))
      BY <2>2 DEF CarriedAsStaged
    <3> QED
      BY <2>2, <3>1, <3>2 DEF CarriedAsStaged, AsStaged
  <2> QED
    BY <2>1, <2>2 DEF DeliveredAsStaged
<1>3. IInv /\ [Next]_vars =>
        [\A i \in ImportIds : import[i].state \in Verdicts => import'[i] = import[i]]_vars
  BY ImportKept DEF IInv
<1> QED
  BY <1>1, <1>2, <1>3, CarriedNext, Invariance, PTL DEF Spec, VerdictsStand
=============================================================================
