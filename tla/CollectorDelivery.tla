-------------------------- MODULE CollectorDelivery --------------------------
(***************************************************************************)
(* The collector's outbox on a desktop, the import endpoint on the server, *)
(* and a network that loses requests and answers between them.  A batch    *)
(* keeps its import id, the idempotency key, for every retry.              *)
(*                                                                         *)
(* Every SQL transaction, of the outbox or of the server, is one step, and *)
(* so are sending a request, a server process taking it up and the answer. *)
(* The times at which records are observed are kept; rate-limit windows    *)
(* and the outbox's retention are steps that may come at any time.         *)
(***************************************************************************)
EXTENDS Integers, FiniteSets

CONSTANTS
  Apps,           \* collector windows open on the desktop, one outbox
  Handlers,       \* gunicorn worker processes
  Devices,        \* upload credentials: collector_devices
  Firms, Sources, \* FCA firms, and source_record_hash values
  Payloads,       \* batches: each gives some firms their source
  Linkable,       \* firms that may be promoted
  MaxImports,     \* bound on the import ids used
  PendingLimit,   \* OUTBOX_PENDING_BATCH_LIMIT
  RetainedLimit,  \* OUTBOX_RETAINED_BATCH_LIMIT
  ImportLimit,    \* COLLECTOR_IMPORT_LIMIT_PER_DEVICE
  RequestLimit,   \* COLLECTOR_REQUEST_LIMIT
  MaxTime,        \* bound on the server's clock
  MaxFaults,      \* bound on lost requests, timeouts and deaths of processes
  None

ImportIds == 1 .. MaxImports    \* in the order in which the outbox draws them
Instants == 0 .. MaxTime
Verdicts == {"accepted", "rejected"}

ASSUME PayloadsAssumption ==
  /\ \A p \in Payloads : DOMAIN p \subseteq Firms /\ p \in [DOMAIN p -> Sources]
  /\ Linkable \subseteq Firms

ASSUME LimitsAssumption ==
  /\ MaxImports \in Nat /\ MaxTime \in Nat /\ MaxFaults \in Nat
  /\ PendingLimit \in Nat /\ RetainedLimit \in Nat
  /\ ImportLimit \in Nat /\ RequestLimit \in Nat

ASSUME NoneAssumption ==
  /\ None \notin Apps \cup Devices \cup Sources
  /\ None \notin Payloads
  /\ None \notin Instants \cup ImportIds
  /\ None \notin Verdicts

VARIABLES
  outbox,    \* batches, on the desktop
  app,       \* what each window's upload run remembers
  network,   \* requests on their way to the server
  handler,   \* what each server process remembers
  device,    \* collector_devices: revoked, and requests in the current window
  import,    \* collector_imports
  firm,      \* fca_firms: the source, and last_seen_at
  linked,    \* firms with a lead_id
  queued,    \* fca_processing_jobs: the import that queued a firm's source
  clock,     \* the server's clock
  faults     \* how often something failed so far

vars == <<outbox, app, network, handler, device, import, firm, linked, queued, clock,
          faults>>

desktop == <<outbox, app>>
server == <<device, import, firm, linked, queued, clock>>

-----------------------------------------------------------------------------
(* The outbox *)

NoBatch == [state |-> "none", payload |-> None, receipt |-> None]
NoImport == [state |-> "none", device |-> None, payload |-> None, processed |-> None]

InState(s) == {i \in ImportIds : outbox[i].state = s}

First(ids) == CHOOSE i \in ids : \A k \in ids : i <= k

\* The id drawn next: staged_at and this order agree.
NextId == First(InState("none"))

\* Mutant: the new batch is taken for one of those counted.
FullAfterInsert(old) ==
  \/ Cardinality(InState("pending") \cup (InState("uploaded") \ old)) > RetainedLimit
  \/ Cardinality(InState("pending")) > PendingLimit

\* Once the uploaded batches in old are pruned, there is no room for another one.
Full(old) ==
  \/ Cardinality(InState("pending") \cup (InState("uploaded") \ old)) >= RetainedLimit
  \/ Cardinality(InState("pending")) >= PendingLimit

Pruned(old) ==
  [i \in ImportIds |-> IF i \in old THEN [outbox[i] EXCEPT !.state = "pruned"]
                       ELSE outbox[i]]

Idle == [pc |-> "idle", device |-> None, todo |-> {}, receipt |-> None]

NextBatch(a) == First(app[a].todo)

\* Mutant: an upload that fails ends the run.
StopsAt(a) == [app EXCEPT ![a] = Idle]

\* An upload, whatever became of it, is followed by that of the next batch.
GoesOn(a) ==
  LET rest == app[a].todo \ {NextBatch(a)}
  IN [app EXCEPT ![a] =
        IF rest = {} THEN Idle
        ELSE [@ EXCEPT !.pc = "upload", !.todo = rest, !.receipt = None]]

Init ==
  /\ outbox = [i \in ImportIds |-> NoBatch]
  /\ app = [a \in Apps |-> Idle]
  /\ network = {}
  /\ handler = [h \in Handlers |-> [pc |-> "free"]]
  /\ device = [d \in Devices |-> [revoked |-> FALSE, requests |-> 0]]
  /\ import = [i \in ImportIds |-> NoImport]
  /\ firm = [f \in Firms |-> [source |-> None, seen |-> None]]
  /\ linked = {}
  /\ queued = [r \in Firms \X Sources |-> None]
  /\ clock = 0
  /\ faults = 0

\* collect_and_upload: a collected payload is staged, under the import id of a
\* pending batch of the same payload if there is one.  A full outbox raises and
\* its transaction is rolled back: nothing changes, as when the limit in bytes,
\* left out here, is reached.  Which batches are beyond their retention is open.
Stage(a, d, p) ==
  /\ app[a].pc = "idle"
  /\ \E old \in SUBSET InState("uploaded") :
       IF \E i \in InState("pending") : outbox[i].payload = p
       THEN outbox' = Pruned(old)
       ELSE /\ ~Full(old)
            /\ InState("none") # {}
            /\ outbox' = [Pruned(old) EXCEPT ![NextId] =
                            [state |-> "pending", payload |-> p, receipt |-> None]]
  /\ app' = [app EXCEPT ![a] = [Idle EXCEPT !.pc = "staged", !.device = d]]
  /\ UNCHANGED <<network, handler, server, faults>>

\* retry_pending reads the pending batches, oldest first; it follows staging, or
\* the operator asks for it.
RetryPending(a, d) ==
  /\ \/ app[a].pc = "idle"
     \/ app[a].pc = "staged" /\ app[a].device = d
  /\ InState("pending") # {} \/ app[a].pc = "staged"
  /\ app' = [app EXCEPT ![a] =
       IF InState("pending") = {} THEN Idle
       ELSE [pc |-> "upload", device |-> d, todo |-> InState("pending"),
             receipt |-> None]]
  /\ UNCHANGED <<outbox, network, handler, server, faults>>

Upload(a) ==
  /\ app[a].pc = "upload"
  /\ network' = network \cup {[client |-> a, id |-> NextBatch(a),
                               payload |-> outbox[NextBatch(a)].payload,
                               device |-> app[a].device]}
  /\ app' = [app EXCEPT ![a].pc = "waiting"]
  /\ UNCHANGED <<outbox, handler, server, faults>>

\* The server may still take up, or go on with, a request nobody waits for.
\* Requests on the way that are alike in everything count as one.
Abandoned(a) ==
  /\ network' = {IF r.client = a THEN [r EXCEPT !.client = None] ELSE r : r \in network}
  /\ handler' = [h \in Handlers |->
       IF handler[h].pc # "free" /\ handler[h].request.client = a
       THEN [handler[h] EXCEPT !.request.client = None] ELSE handler[h]]

Fault == faults < MaxFaults /\ faults' = faults + 1

\* The request does not reach the server.
RequestLost(a) ==
  /\ Fault
  /\ \E r \in network : r.client = a /\ network' = network \ {r}
  /\ app' = GoesOn(a)
  /\ UNCHANGED <<outbox, handler, server>>

\* The upload's timeout, or a connection that breaks: UploadUnavailable.
GiveUp(a) ==
  /\ Fault
  /\ app[a].pc = "waiting"
  /\ Abandoned(a)
  /\ app' = GoesOn(a)
  /\ UNCHANGED <<outbox, server>>

\* The window is closed, or the desktop goes down.
AppDies(a) ==
  /\ Fault
  /\ app[a].pc # "idle"
  /\ Abandoned(a)
  /\ app' = [app EXCEPT ![a] = Idle]
  /\ UNCHANGED <<outbox, server>>

\* A receipt's verdict is recorded, unless another run recorded it already.
Record(a) ==
  LET i == NextBatch(a)
  IN /\ app[a].pc = "record"
     /\ outbox' = IF outbox[i].state # "pending" THEN outbox
                  ELSE [outbox EXCEPT ![i].state = "uploaded",
                                      ![i].receipt = app[a].receipt]
     /\ app' = GoesOn(a)
     /\ UNCHANGED <<network, handler, server, faults>>

-----------------------------------------------------------------------------
(* The import endpoint *)

Request(h) == handler[h].request

Accept(h) ==
  /\ handler[h].pc = "free"
  /\ \E r \in network :
       /\ network' = network \ {r}
       /\ handler' = [handler EXCEPT ![h] = [pc |-> "admit", request |-> r]]
  /\ UNCHANGED <<desktop, server, faults>>

Goto(h, pc) == handler' = [handler EXCEPT ![h] = [pc |-> pc, request |-> Request(h)]]

Answer(h, result) ==
  handler' = [handler EXCEPT ![h] =
                [pc |-> "answer", request |-> Request(h), result |-> result]]

Authentic(d) == ~device[d].revoked

\* Mutant: the count is compared once it is incremented.
AdmitOneMore(h) ==
  LET d == Request(h).device
  IN /\ handler[h].pc = "admit"
     /\ IF ~Authentic(d) THEN Answer(h, "refused") /\ UNCHANGED device
        ELSE IF device[d].requests > RequestLimit
        THEN Answer(h, "unavailable") /\ UNCHANGED device
        ELSE /\ device' = [device EXCEPT ![d].requests = @ + 1]
             /\ Goto(h, "store")
     /\ UNCHANGED <<desktop, network, import, firm, linked, queued, clock, faults>>

\* The first transaction: authentication (401) and the rate limit (429).
Admit(h) ==
  LET d == Request(h).device
  IN /\ handler[h].pc = "admit"
     /\ IF ~Authentic(d) THEN Answer(h, "refused") /\ UNCHANGED device
        ELSE IF device[d].requests >= RequestLimit
        THEN Answer(h, "unavailable") /\ UNCHANGED device
        ELSE /\ device' = [device EXCEPT ![d].requests = @ + 1]
             /\ Goto(h, "store")
     /\ UNCHANGED <<desktop, network, import, firm, linked, queued, clock, faults>>

ImportsOf(d) == {i \in ImportIds : import[i].state # "none" /\ import[i].device = d}

StoreRow(r) ==
  import' = [import EXCEPT ![r.id] = [state |-> "pending", device |-> r.device,
                                      payload |-> r.payload, processed |-> None]]

\* Mutant: the device is taken to be the one admitted.
StoreAsAdmitted(h) ==
  LET r == Request(h)
  IN /\ handler[h].pc = "store"
     /\ IF import[r.id].state # "none"
        THEN Answer(h, "refused") /\ UNCHANGED import
        ELSE StoreRow(r) /\ Goto(h, "process")
     /\ UNCHANGED <<desktop, network, device, firm, linked, queued, clock, faults>>

\* The second transaction: the device again (401), an import stored before (409
\* for another device's), room for one more (429), and the new row.
Store(h) ==
  LET r == Request(h)
      known == import[r.id]
  IN /\ handler[h].pc = "store"
     /\ IF ~Authentic(r.device) THEN Answer(h, "refused") /\ UNCHANGED import
        ELSE IF known.state # "none"
        THEN /\ IF known.device # r.device \/ known.payload # r.payload
                THEN Answer(h, "refused")
                ELSE IF known.state \in Verdicts THEN Answer(h, known.state)
                ELSE Goto(h, "process")
             /\ UNCHANGED import
        ELSE IF Cardinality(ImportsOf(r.device)) >= ImportLimit
        THEN Answer(h, "unavailable") /\ UNCHANGED import
        ELSE StoreRow(r) /\ Goto(h, "process")
     /\ UNCHANGED <<desktop, network, device, firm, linked, queued, clock, faults>>

\* process_collector_import is called with the time now; its transaction may
\* have to wait.  The clock does not go back, so now is never before received_at.
ReadClock(h) ==
  /\ handler[h].pc = "process"
  /\ handler' = [handler EXCEPT ![h] =
                   [pc |-> "ingest", request |-> Request(h), now |-> clock]]
  /\ UNCHANGED <<desktop, network, server, faults>>

\* Mutant: an observation is taken as it comes.
NeverStale(p, now) == FALSE

\* FcaDataError: a firm of the batch was seen later than now.
Stale(p, now) == \E f \in DOMAIN p : firm[f].seen # None /\ firm[f].seen > now

\* linked_fca_identity_no_update: another source for a linked firm aborts the write.
Conflicting(p) == \E f \in DOMAIN p : f \in linked /\ p[f] # firm[f].source

Observed(p, now) ==
  [f \in Firms |-> IF f \in DOMAIN p THEN [source |-> p[f], seen |-> now] ELSE firm[f]]

\* A firm's source is queued once, ON CONFLICT DO NOTHING.
Enqueued(r) ==
  [x \in Firms \X Sources |->
     IF x[1] \in DOMAIN r.payload /\ r.payload[x[1]] = x[2] /\ queued[x] = None
     THEN r.id ELSE queued[x]]

Decided(h, verdict) ==
  /\ Answer(h, verdict)
  /\ import' = [import EXCEPT ![Request(h).id].state = verdict,
                              ![Request(h).id].processed = handler[h].now]

\* All records of a pending import are written and queued, or none.  The first
\* record that is stale rejects the import; the first that conflicts raises an
\* IntegrityError, which nothing catches: the import stays pending (500).
Write(h) ==
  LET r == Request(h)
      now == handler[h].now
  IN \/ /\ ~Stale(r.payload, now) /\ ~Conflicting(r.payload)
        /\ Decided(h, "accepted")
        /\ firm' = Observed(r.payload, now) /\ queued' = Enqueued(r)
     \/ /\ Stale(r.payload, now)
        /\ Decided(h, "rejected") /\ UNCHANGED <<firm, queued>>
     \/ /\ Conflicting(r.payload)
        /\ Answer(h, "unavailable") /\ UNCHANGED <<import, firm, queued>>

\* Mutant: the import's state is not read again under the lock.
IngestAgain(h) ==
  /\ handler[h].pc = "ingest"
  /\ Write(h)
  /\ UNCHANGED <<desktop, network, device, linked, clock, faults>>

\* process_collector_import: one transaction.
Ingest(h) ==
  LET state == import[Request(h).id].state
  IN /\ handler[h].pc = "ingest"
     /\ IF state \in Verdicts
        THEN Answer(h, state) /\ UNCHANGED <<import, firm, queued>>
        ELSE Write(h)
     /\ UNCHANGED <<desktop, network, device, linked, clock, faults>>

\* The answer reaches the client, if it still waits: a verdict is recorded next,
\* any other answer leaves the batch pending.
Reply(h) ==
  /\ handler[h].pc = "answer"
  /\ handler' = [handler EXCEPT ![h] = [pc |-> "free"]]
  /\ LET a == Request(h).client
     IN app' = IF a = None THEN app
               ELSE IF handler[h].result \in Verdicts
               THEN [app EXCEPT ![a].pc = "record", ![a].receipt = handler[h].result]
               ELSE GoesOn(a)
  /\ UNCHANGED <<outbox, network, server, faults>>

\* The process is killed, its next transaction fails, or the answer is lost: the
\* client sees a broken connection or a 5xx, UploadUnavailable.
HandlerDies(h) ==
  /\ Fault
  /\ handler[h].pc # "free"
  /\ handler' = [handler EXCEPT ![h] = [pc |-> "free"]]
  /\ LET a == Request(h).client IN app' = IF a = None THEN app ELSE GoesOn(a)
  /\ UNCHANGED <<outbox, network, server>>

-----------------------------------------------------------------------------
(* The operator and the clock *)

Revoke(d) ==
  /\ ~device[d].revoked
  /\ device' = [device EXCEPT ![d].revoked = TRUE]
  /\ UNCHANGED <<desktop, network, handler, import, firm, linked, queued, clock, faults>>

\* COLLECTOR_REQUEST_WINDOW is over: the next admission starts another one.
WindowEnds(d) ==
  /\ device[d].requests > 0
  /\ device' = [device EXCEPT ![d].requests = 0]
  /\ UNCHANGED <<desktop, network, handler, import, firm, linked, queued, clock, faults>>

\* verify_and_promote_firm
Link(f) ==
  /\ f \in Linkable \ linked /\ firm[f].source # None
  /\ linked' = linked \cup {f}
  /\ UNCHANGED <<desktop, network, handler, device, import, firm, queued, clock, faults>>

Tick ==
  /\ clock < MaxTime
  /\ clock' = clock + 1
  /\ UNCHANGED <<desktop, network, handler, device, import, firm, linked, queued, faults>>

Collector(a) == Upload(a) \/ Record(a)

Server(h) ==
  Accept(h) \/ Admit(h) \/ Store(h) \/ ReadClock(h) \/ Ingest(h) \/ Reply(h)

Next ==
  \/ \E a \in Apps :
       \/ \E d \in Devices : RetryPending(a, d) \/ \E p \in Payloads : Stage(a, d, p)
       \/ Collector(a) \/ RequestLost(a) \/ GiveUp(a) \/ AppDies(a)
  \/ \E h \in Handlers : Server(h) \/ HandlerDies(h)
  \/ \E d \in Devices : Revoke(d) \/ WindowEnds(d)
  \/ \E f \in Linkable : Link(f)
  \/ Tick

Spec == Init /\ [][Next]_vars

\* Runs that are under way go on, windows end, and the operator asks for another
\* retry, with each credential they have, again and again.
Fairness ==
  /\ \A a \in Apps : WF_vars(Collector(a))
  /\ \A h \in Handlers : WF_vars(Server(h))
  /\ \A d \in Devices : WF_vars(WindowEnds(d))
  /\ \A d \in Devices : SF_vars(\E a \in Apps : RetryPending(a, d))

FairSpec == Spec /\ Fairness

-----------------------------------------------------------------------------
(* Properties *)

Requests == [client : Apps \cup {None}, id : ImportIds, payload : Payloads,
             device : Devices]

HandlerStates ==
  [pc : {"free"}] \cup [pc : {"admit", "store", "process"}, request : Requests]
    \cup [pc : {"ingest"}, request : Requests, now : Instants]
    \cup [pc : {"answer"}, request : Requests,
          result : Verdicts \cup {"refused", "unavailable"}]

\* Every variable has its type, the outbox keeps its CHECK constraint, and no
\* device has more requests admitted in a window than its limit.
TypeOK ==
  /\ outbox \in [ImportIds -> [state : {"none", "pending", "uploaded", "pruned"},
                               payload : Payloads \cup {None},
                               receipt : Verdicts \cup {None}]]
  /\ \A i \in ImportIds :     \* the table's CHECK constraint
       (outbox[i].receipt = None) <=> outbox[i].state \in {"none", "pending"}
  /\ app \in [Apps -> [pc : {"idle", "staged", "upload", "waiting", "record"},
                       device : Devices \cup {None}, todo : SUBSET ImportIds,
                       receipt : Verdicts \cup {None}]]
  /\ network \subseteq Requests
  /\ handler \in [Handlers -> HandlerStates]
  /\ device \in [Devices -> [revoked : BOOLEAN, requests : 0 .. RequestLimit]]
  /\ import \in [ImportIds -> [state : {"none", "pending"} \cup Verdicts,
                               device : Devices \cup {None},
                               payload : Payloads \cup {None},
                               processed : Instants \cup {None}]]
  /\ firm \in [Firms -> [source : Sources \cup {None}, seen : Instants \cup {None}]]
  /\ linked \subseteq Linkable
  /\ queued \in [Firms \X Sources -> ImportIds \cup {None}]
  /\ clock \in Instants /\ faults \in 0 .. MaxFaults

\* "The outbox refuses new collections at 25 pending batches [...], retains at
\* most 100 batch records" (README.md:91), and the endpoint's cap on a device's
\* imports: however many windows and server processes are at work.
LimitsHold ==
  /\ Cardinality(InState("pending")) <= PendingLimit
  /\ Cardinality(InState("pending") \cup InState("uploaded")) <= RetainedLimit
  /\ \A d \in Devices : Cardinality(ImportsOf(d)) <= ImportLimit

Accepted == {i \in ImportIds : import[i].state = "accepted"}

AcceptedFor(f) == {i \in Accepted : f \in DOMAIN import[i].payload}

\* A firm shows what the accepted import with the latest observation says of it,
\* in whatever order imports were stored, waited and were retried; nothing of a
\* rejected import stays, and exactly the records of accepted ones are queued.
RecordsAreOfAcceptedImports ==
  /\ \A f \in Firms :
       IF AcceptedFor(f) = {} THEN firm[f] = [source |-> None, seen |-> None]
       ELSE \E i \in AcceptedFor(f) :
              /\ firm[f] = [source |-> import[i].payload[f], seen |-> import[i].processed]
              /\ \A k \in AcceptedFor(f) : import[k].processed <= import[i].processed
  /\ \A f \in Firms, s \in Sources :
       LET with == {i \in AcceptedFor(f) : import[i].payload[f] = s}
       IN IF with = {} THEN queued[<<f, s>>] = None ELSE queued[<<f, s>>] \in with

\* test_revocation_between_request_admission_and_import_write_blocks_new_import:
\* no import is stored for a device that is revoked, wherever the request was.
NoImportAfterRevocation ==
  [][\A i \in ImportIds :
       (import[i].state = "none" /\ import'[i].state # "none") =>
         ~device[import'[i].device].revoked]_vars

\* If the operator retries again and again, each pending batch is delivered:
\* one that the server refuses, or fails on, for good holds up no other.  It may
\* stay if it changes a linked firm, if its import belongs to a device since
\* revoked, or if no device may store another one.
PendingBatchesSettle ==
  \A i \in ImportIds :
    outbox[i].state = "pending" ~>
      \/ outbox[i].state # "pending"
      \/ Conflicting(outbox[i].payload)
      \/ import[i].state # "none" /\ device[import[i].device].revoked
      \/ \A d \in Devices :
           device[d].revoked \/ Cardinality(ImportsOf(d)) >= ImportLimit

\* Collector and endpoint keep the DeliveryContract: one verdict for each batch,
\* and the outbox lets go of a batch only with the verdict the server came to.
Contract ==
  INSTANCE DeliveryContract WITH
    Batches <- ImportIds,
    kept <- InState("pending"),
    verdict <- [i \in ImportIds |->
                  IF import[i].state \in Verdicts THEN import[i].state ELSE None],
    told <- [i \in ImportIds |-> outbox[i].receipt]

ImplementsDelivery == Contract!Spec
=============================================================================
