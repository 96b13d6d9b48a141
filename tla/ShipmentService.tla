--------------------------- MODULE ShipmentService ---------------------------
(***************************************************************************)
(* The shipment service (main.py): creating a shipment, handing custody    *)
(* over and initiating an escrow, over the tables shipments,               *)
(* custody_events and custodian_devices, the manifest bucket and Kafka.    *)
(*                                                                         *)
(* A handler is cut where it awaits the ML service, S3, the database or    *)
(* the broker.  Its session keeps one transaction from the first SELECT to *)
(* the commit, READ COMMITTED and without row locks; the UPDATE the ORM    *)
(* sends names only the columns whose value differs from the one it read.  *)
(* A commit may succeed, fail, or succeed while its acknowledgement is     *)
(* lost.                                                                   *)
(***************************************************************************)
EXTENDS Naturals, Sequences, FiniteSets

CONSTANTS
    Shipment,       \* identifiers uuid4 may return
    User,           \* callers and custodians
    Admin,          \* the users whose role is SUPERADMIN
    Key,            \* public keys of custodians' devices
    None,           \* no device, no shipment
    Request,        \* HTTP requests, each served once
    MaxCrashes      \* bound: crashes of the service process

ASSUME ConstantsAssumption ==
    /\ Admin \subseteq User
    /\ None \notin Shipment \cup Key \cup User
    /\ MaxCrashes \in Nat

VARIABLES
    shipments,       \* the table shipments
    devices,         \* the table custodian_devices, by user_id
    custody_events,  \* the table custody_events, in commit order
    objects,         \* shipments whose manifest is in the bucket
    published,       \* messages the broker stored
    pc,              \* where each handler is suspended
    ctx,             \* the request and the locals of its handler
    reply,           \* what the client has received
    crashes          \* crashes so far

tables == <<shipments, devices, custody_events>>
vars   == <<shipments, devices, custody_events, objects, published, pc, ctx,
            reply, crashes>>

-----------------------------------------------------------------------------
(* Types *)

Status   == {"absent", "CREATED", "IN_TRANSIT", "ESCROW_PENDING"}
Absent   == [status |-> "absent", farmer |-> None, custodian |-> None]
Row      == [status : Status, farmer : User \cup {None},
             custodian : User \cup {None}]

\* signer and request are history: they are not columns.
CustodyEvent == [shipment : Shipment, from : User, to : User, key : Key,
                 signer : User, request : Request]

Message == [event    : {"shipment.created", "custody.handoff", "escrow"},
            shipment : Shipment, from : User, to : User]

Step == {"new", "precheck", "upload", "insert", "refresh", "created_publish",
         "handoff_select", "device_select", "handoff_commit", "handoff_publish",
         "escrow_select", "escrow_commit", "escrow_publish", "done"}

Answer == {"none", "lost", "400", "403", "404", "500",
           "CREATED", "HANDOFF_VERIFIED", "ESCROW_INITIATED"}

\* user is the caller, or the farmer a shipment is created for; read is the row
\* the handler read; bind says that it is about to register the caller's key.
Context == [shipment : Shipment \cup {None}, user : User \cup {None},
            to : User \cup {None}, key : Key \cup {None},
            read : Row, bind : BOOLEAN]

Blank == [shipment |-> None, user |-> None, to |-> None, key |-> None,
          read |-> Absent, bind |-> FALSE]

Init ==
    /\ shipments = [s \in Shipment |-> Absent]
    /\ devices = [u \in User |-> None]
    /\ custody_events = <<>>
    /\ objects = {}
    /\ published = {}
    /\ pc = [r \in Request |-> "new"]
    /\ ctx = [r \in Request |-> Blank]
    /\ reply = [r \in Request |-> "none"]
    /\ crashes = 0

-----------------------------------------------------------------------------
(* How a handler goes on *)

Goto(r, step) == pc' = [pc EXCEPT ![r] = step] /\ UNCHANGED reply

Return(r, answer) ==
    /\ pc' = [pc EXCEPT ![r] = "done"]
    /\ reply' = [reply EXCEPT ![r] = answer]

\* Faulty: sends the statement again when the acknowledgement is lost.
CommittedRetries(r, step) == Goto(r, step) \/ Goto(r, pc[r])

\* The write was made; the handler may never learn it.
Committed(r, step) == Goto(r, step) \/ Return(r, "500")

\* The producer swallows every failure, also the one of never having started:
\* whether the broker stored the message or not, the handler answers.
PublishAndReturn(r, event, from, answer) ==
    /\ \/ published' = published \cup
            {[event |-> event, shipment |-> ctx[r].shipment,
              from |-> from, to |-> ctx[r].to]}
       \/ UNCHANGED published
    /\ Return(r, answer)

-----------------------------------------------------------------------------
(* create_shipment *)

\* s is fresh: uuid4 never returns an identifier it returned before.
SubmitCreate(r, u, s) ==
    /\ pc[r] = "new"
    /\ shipments[s].status = "absent"
    /\ \A q \in Request : ctx[q].shipment # s
    /\ ctx' = [ctx EXCEPT ![r] = [@ EXCEPT !.shipment = s, !.user = u, !.to = u]]
    /\ Goto(r, "precheck")
    /\ UNCHANGED <<tables, objects, published, crashes>>

\* The ML service lets the shipment pass or cannot be reached, rejects it, or
\* answers with an error status.
Precheck(r) ==
    /\ pc[r] = "precheck"
    /\ Goto(r, "upload") \/ Return(r, "400") \/ Return(r, "500")
    /\ UNCHANGED <<tables, objects, published, ctx, crashes>>

\* Faulty: goes on after a failed upload.
UploadIgnored(r) ==
    /\ pc[r] = "upload"
    /\ objects' \in {objects, objects \cup {ctx[r].shipment}}
    /\ Goto(r, "insert")
    /\ UNCHANGED <<tables, published, ctx, crashes>>

\* A failed upload may have stored the object.
Upload(r) ==
    /\ pc[r] = "upload"
    /\ \/ objects' = objects \cup {ctx[r].shipment} /\ Committed(r, "insert")
       \/ UNCHANGED objects /\ Return(r, "500")
    /\ UNCHANGED <<tables, published, ctx, crashes>>

Insert(r) ==
    /\ pc[r] = "insert"
    /\ shipments' = [shipments EXCEPT ![ctx[r].shipment] =
                       [status |-> "CREATED", farmer |-> ctx[r].user,
                        custodian |-> ctx[r].user]]
    /\ Committed(r, "refresh")
    /\ UNCHANGED <<devices, custody_events, objects, published, ctx, crashes>>

Refresh(r) ==
    /\ pc[r] = "refresh"
    /\ Goto(r, "created_publish")
    /\ UNCHANGED <<tables, objects, published, ctx, crashes>>

CreatedPublish(r) ==
    /\ pc[r] = "created_publish"
    /\ PublishAndReturn(r, "shipment.created", ctx[r].user, "CREATED")
    /\ UNCHANGED <<tables, objects, ctx, crashes>>

-----------------------------------------------------------------------------
(* custody_handoff *)

\* A signature was made with key k over this shipment and this new custodian.
SubmitHandoff(r, s, u, v, k) ==
    /\ pc[r] = "new"
    /\ ctx' = [ctx EXCEPT ![r] = [@ EXCEPT !.shipment = s, !.user = u,
                                           !.to = v, !.key = k]]
    /\ Goto(r, "handoff_select")
    /\ UNCHANGED <<tables, objects, published, crashes>>

\* Faulty: lets any authenticated user hand over.
MayHandOffAnyone(u, s) == TRUE

MayHandOff(u, s) == shipments[s].custodian = u \/ u \in Admin

\* Faulty: takes the row for granted.
HandoffSelectUnchecked(r) ==
    LET s == ctx[r].shipment IN
    /\ pc[r] = "handoff_select"
    /\ ctx' = [ctx EXCEPT ![r] = [@ EXCEPT !.read = shipments[s]]]
    /\ IF MayHandOff(ctx[r].user, s)
       THEN Goto(r, "device_select") ELSE Return(r, "403")
    /\ UNCHANGED <<tables, objects, published, crashes>>

\* The SELECT and the checks made on the row it returned; then the signature is
\* verified, and the answer is 400 when it is not valid.
HandoffSelect(r) ==
    LET current == shipments[ctx[r].shipment] IN
    /\ pc[r] = "handoff_select"
    /\ ctx' = [ctx EXCEPT ![r] = [@ EXCEPT !.read = current]]
    /\ \/ current.status = "absent" /\ Return(r, "404")
       \/ /\ current.status # "absent"
          /\ IF MayHandOff(ctx[r].user, ctx[r].shipment)
             THEN Goto(r, "device_select") \/ Return(r, "400")
             ELSE Return(r, "403")
    /\ UNCHANGED <<tables, objects, published, crashes>>

\* Faulty: registers the key in a transaction of its own.
DeviceSelectRegisters(r) ==
    LET u == ctx[r].user IN
    /\ pc[r] = "device_select"
    /\ devices' = IF devices[u] = None THEN [devices EXCEPT ![u] = ctx[r].key]
                  ELSE devices
    /\ IF devices'[u] = ctx[r].key
       THEN Goto(r, "handoff_commit") ELSE Return(r, "403")
    /\ UNCHANGED <<shipments, custody_events, objects, published, ctx, crashes>>

\* Trust on first use: no registered key, or the one that was submitted.
DeviceSelect(r) ==
    LET key == devices[ctx[r].user] IN
    /\ pc[r] = "device_select"
    /\ ctx' = [ctx EXCEPT ![r] = [@ EXCEPT !.bind = (key = None)]]
    /\ IF key \in {None, ctx[r].key}
       THEN Goto(r, "handoff_commit") ELSE Return(r, "403")
    /\ UNCHANGED <<tables, objects, published, crashes>>

\* Faulty: writes every column, also the ones the handler left alone.
UpdatedFull(r, status, custodian) ==
    [shipments[ctx[r].shipment] EXCEPT !.status = status, !.custodian = custodian]

\* The row after the UPDATE: a column is written when it differs from the value
\* that was read, not from the value that is there.
Updated(r, status, custodian) ==
    LET read == ctx[r].read
    IN  [shipments[ctx[r].shipment] EXCEPT
            !.status    = IF status = read.status THEN @ ELSE status,
            !.custodian = IF custodian = read.custodian THEN @ ELSE custodian]

\* Faulty: a second device replaces the first.
ConflictIgnored(r) == FALSE

\* Another handoff of this user has registered a device since.
Conflict(r) == ctx[r].bind /\ devices[ctx[r].user] # None

\* Faulty: takes the caller for the previous custodian.
NewEventByCaller(r) ==
    [shipment |-> ctx[r].shipment, from |-> ctx[r].user, to |-> ctx[r].to,
     key |-> ctx[r].key, signer |-> ctx[r].user, request |-> r]

NewEvent(r) ==
    [shipment |-> ctx[r].shipment, from |-> ctx[r].read.custodian,
     to |-> ctx[r].to, key |-> ctx[r].key, signer |-> ctx[r].user, request |-> r]

\* Faulty: leaves the shipment with the custodian that was read.
RecordKeepsCustodian(r) ==
    /\ devices' = IF ctx[r].bind
                  THEN [devices EXCEPT ![ctx[r].user] = ctx[r].key] ELSE devices
    /\ custody_events' = Append(custody_events, NewEvent(r))
    /\ shipments' = [shipments EXCEPT ![ctx[r].shipment] =
                       Updated(r, "IN_TRANSIT", ctx[r].read.custodian)]

\* One transaction: the device, the event and the shipment.
Record(r) ==
    /\ devices' = IF ctx[r].bind
                  THEN [devices EXCEPT ![ctx[r].user] = ctx[r].key] ELSE devices
    /\ custody_events' = Append(custody_events, NewEvent(r))
    /\ shipments' = [shipments EXCEPT ![ctx[r].shipment] =
                       Updated(r, "IN_TRANSIT", ctx[r].to)]

\* Faulty: tries again after the INSERT of the device has failed.
HandoffCommitRetries(r) ==
    /\ pc[r] = "handoff_commit"
    /\ IF Conflict(r)
       THEN Goto(r, "handoff_commit") /\ UNCHANGED tables
       ELSE Record(r) /\ Committed(r, "handoff_publish")
    /\ UNCHANGED <<objects, published, ctx, crashes>>

\* The INSERT of the device fails on the primary key, and the rest with it.
HandoffCommit(r) ==
    /\ pc[r] = "handoff_commit"
    /\ IF Conflict(r)
       THEN Return(r, "500") /\ UNCHANGED tables
       ELSE Record(r) /\ Committed(r, "handoff_publish")
    /\ UNCHANGED <<objects, published, ctx, crashes>>

HandoffPublish(r) ==
    /\ pc[r] = "handoff_publish"
    /\ PublishAndReturn(r, "custody.handoff", ctx[r].read.custodian,
                        "HANDOFF_VERIFIED")
    /\ UNCHANGED <<tables, objects, ctx, crashes>>

-----------------------------------------------------------------------------
(* init_escrow *)

\* v is the buyer.
SubmitEscrow(r, s, v) ==
    /\ pc[r] = "new"
    /\ ctx' = [ctx EXCEPT ![r] = [@ EXCEPT !.shipment = s, !.to = v]]
    /\ Goto(r, "escrow_select")
    /\ UNCHANGED <<tables, objects, published, crashes>>

EscrowSelect(r) ==
    LET current == shipments[ctx[r].shipment] IN
    /\ pc[r] = "escrow_select"
    /\ ctx' = [ctx EXCEPT ![r] = [@ EXCEPT !.read = current]]
    /\ IF current.status = "absent"
       THEN Return(r, "404") ELSE Goto(r, "escrow_commit")
    /\ UNCHANGED <<tables, objects, published, crashes>>

EscrowCommit(r) ==
    /\ pc[r] = "escrow_commit"
    /\ shipments' = [shipments EXCEPT ![ctx[r].shipment] =
                       Updated(r, "ESCROW_PENDING", ctx[r].read.custodian)]
    /\ Committed(r, "escrow_publish")
    /\ UNCHANGED <<devices, custody_events, objects, published, ctx, crashes>>

EscrowPublish(r) ==
    /\ pc[r] = "escrow_publish"
    /\ PublishAndReturn(r, "escrow", ctx[r].read.farmer, "ESCROW_INITIATED")
    /\ UNCHANGED <<tables, objects, ctx, crashes>>

-----------------------------------------------------------------------------
\* Faulty: a failed handoff is published all the same.
DbErrorIgnored(r) ==
    /\ pc[r] = "handoff_commit"
    /\ Goto(r, "handoff_publish")
    /\ UNCHANGED <<tables, objects, published, ctx, crashes>>

\* A statement fails; the transaction, if one is open, is rolled back.
DbError(r) ==
    /\ pc[r] \in {"insert", "refresh", "handoff_select", "device_select",
                  "handoff_commit", "escrow_select", "escrow_commit"}
    /\ Return(r, "500")
    /\ UNCHANGED <<tables, objects, published, ctx, crashes>>

\* The process dies; no handler of it survives.
Crash ==
    /\ crashes < MaxCrashes
    /\ crashes' = crashes + 1
    /\ pc' = [r \in Request |-> IF pc[r] = "new" THEN "new" ELSE "done"]
    /\ reply' = [r \in Request |->
                   IF pc[r] \in {"new", "done"} THEN reply[r] ELSE "lost"]
    /\ UNCHANGED <<tables, objects, published, ctx>>

Submit(r) ==
    \E s \in Shipment :
        \/ \E u \in User : SubmitCreate(r, u, s)
        \/ \E u, v \in User, k \in Key : SubmitHandoff(r, s, u, v, k)
        \/ \E v \in User : SubmitEscrow(r, s, v)

Create(r)  == Precheck(r) \/ Upload(r) \/ Insert(r) \/ Refresh(r)
                \/ CreatedPublish(r)
Handoff(r) == HandoffSelect(r) \/ DeviceSelect(r) \/ HandoffCommit(r)
                \/ HandoffPublish(r)
Escrow(r)  == EscrowSelect(r) \/ EscrowCommit(r) \/ EscrowPublish(r)
Serve(r)   == Create(r) \/ Handoff(r) \/ Escrow(r)

Next ==
    \/ \E r \in Request : Submit(r) \/ Serve(r) \/ DbError(r)
    \/ Crash

Spec == Init /\ [][Next]_vars

\* The event loop runs every handler that can go on; every await ends, with a
\* result or with an error.
FairSpec == Spec /\ \A r \in Request : WF_vars(Serve(r))
-----------------------------------------------------------------------------
(* Properties *)

EventsOf(r) == {i \in DOMAIN custody_events : custody_events[i].request = r}

\* Those who held shipment s before its event number n: its farmer and everybody
\* an earlier event hands it to.
Holders(s, n) ==
    {shipments[s].farmer} \cup
    {custody_events[i].to :
        i \in {j \in 1 .. n - 1 : custody_events[j].shipment = s}}

\* Every variable stays in its type; an event names users and a key, never a
\* value the handler had not read.
TypeOK ==
    /\ shipments \in [Shipment -> Row]
    /\ devices \in [User -> Key \cup {None}]
    /\ custody_events \in Seq(CustodyEvent)
    /\ objects \subseteq Shipment
    /\ published \subseteq Message
    /\ pc \in [Request -> Step]
    /\ ctx \in [Request -> Context]
    /\ reply \in [Request -> Answer]
    /\ crashes \in Nat

\* main.py:203-225: every recorded handoff was signed with the one device its
\* signer ever registered, also when the first two handoffs of a user race with
\* different devices.
EventsMatchDevice ==
    \A i \in DOMAIN custody_events :
        custody_events[i].key = devices[custody_events[i].signer]

\* main.py:215-241: a device is registered by a handoff that was recorded; none
\* is left behind by a handoff that was refused, failed or crashed.
BindingHasHandoff ==
    \A u \in User : devices[u] # None =>
        \E i \in DOMAIN custody_events : custody_events[i].signer = u

\* main.py:189, 227-236: the ledger never loses the thread: the previous
\* custodian of an event held the shipment before, and so did whoever holds it
\* now, however handoffs, overrides and lost updates interleave.
ProvenanceIsConnected ==
    /\ \A i \in DOMAIN custody_events :
          custody_events[i].from \in Holders(custody_events[i].shipment, i)
    /\ \A s \in Shipment :
          shipments[s].custodian \in Holders(s, Len(custody_events) + 1)

\* main.py:227-241: a handoff is recorded once when it was accepted, not at all
\* when it was refused, and never twice.
HandoffIsRecordedOnce ==
    \A r \in Request :
        /\ Cardinality(EventsOf(r)) <= 1
        /\ reply[r] = "HANDOFF_VERIFIED" => EventsOf(r) # {}
        /\ reply[r] \in {"400", "403", "404"} => EventsOf(r) = {}

\* The recorded handoffs of shipment s that change hands; the others name the custodian
\* the handler had read, and the ORM then leaves the column out of the UPDATE.
Transfers(s) ==
    {i \in DOMAIN custody_events :
        /\ custody_events[i].shipment = s
        /\ custody_events[i].from # custody_events[i].to}

\* main.py:227-241: the shipment is with whom the last recorded handoff that changed
\* hands gave it to, with its farmer if there is none, and has left CREATED once a
\* handoff was recorded.
RowFollowsLedger ==
    \A s \in Shipment :
        /\ \/ Transfers(s) = {} /\ shipments[s].custodian = shipments[s].farmer
           \/ \E i \in Transfers(s) :
                 /\ \A j \in Transfers(s) : j <= i
                 /\ shipments[s].custodian = custody_events[i].to
        /\ \A i \in DOMAIN custody_events :
              custody_events[i].shipment = s =>
                  shipments[s].status \in {"IN_TRANSIT", "ESCROW_PENDING"}

\* Of the three rows of a handoff, device, event and shipment, all are committed or
\* none (main.py:227-241), although another handoff or an escrow may have changed
\* the shipment since it was read: no device without a recorded handoff, one event
\* for each accepted handoff, and a shipment that is where its events lead.
HandoffIsAtomic == BindingHasHandoff /\ HandoffIsRecordedOnce /\ RowFollowsLedger

\* main.py:143-160, 243-257: an event tells of what is in the database: neither
\* a lost acknowledgement nor a crash lets a message run ahead of its commit.
MessagesAreTrue ==
    \A m \in published :
        /\ shipments[m.shipment].status # "absent"
        /\ m.event = "shipment.created" => shipments[m.shipment].farmer = m.from
        /\ m.event = "custody.handoff" =>
              \E i \in DOMAIN custody_events :
                  /\ custody_events[i].shipment = m.shipment
                  /\ custody_events[i].from = m.from
                  /\ custody_events[i].to = m.to

\* main.py:121-140: a shipment in the table has its manifest in the bucket.
RowHasManifest ==
    \A s \in Shipment : shipments[s].status # "absent" => s \in objects

\* Bucket, table and topic are written in this order, and what a later one tells of
\* an earlier one is true, wherever a request fails or dies (main.py:121-160).
EffectsAreBacked == MessagesAreTrue /\ RowHasManifest

\* main.py:227-241, 340-342: the custodian changes only together with the event
\* that records it; in particular an escrow initiated from a row read earlier
\* does not hand the shipment back. (It follows from ImplementsLedger below, and
\* names the request that moves the custodian.)
CustodyMovesWithEvent ==
    [][\A s \in Shipment :
         shipments[s].status # "absent" =>
            /\ shipments'[s].farmer = shipments[s].farmer
            /\ shipments'[s].custodian # shipments[s].custodian =>
                 \E r \in Request :
                     /\ EventsOf(r)' # EventsOf(r)
                     /\ ctx[r].shipment = s
                     /\ ctx[r].to = shipments'[s].custodian
      ]_vars

\* Every request that was sent ends: no handler waits for another one, and none
\* retries for ever.
RequestsEnd == \A r \in Request : pc[r] # "new" ~> pc[r] = "done"

-----------------------------------------------------------------------------
(* What the service promises *)

\* The ledger is the table of events; of an escrow it knows nothing.
Ledger == INSTANCE CustodyLedger WITH
    farmer    <- [s \in Shipment |-> shipments[s].farmer],
    custodian <- [s \in Shipment |-> shipments[s].custodian],
    ledger    <- custody_events,
    device    <- devices,
    told      <- {m \in published : m.event # "escrow"}

\* main.py:111-352: awaits, rows read earlier, crashes and lost acknowledgements
\* show only as the steps of a ledger: what a handoff wrote was true of somebody
\* who had held the shipment, whatever committed between its SELECT and its UPDATE.
ImplementsLedger == Ledger!Spec

-----------------------------------------------------------------------------
(* What comments and documents say and the service does not do *)

\* main.py:176-177: "only the current custodian (or SUPERADMIN as an ops
\* override) may hand off this shipment" (checked at main.py:180, written at
\* main.py:236).
OnlyCustodianHandsOff ==
    [][\A r \in Request :
         EventsOf(r)' # EventsOf(r) => MayHandOff(ctx[r].user, ctx[r].shipment)
      ]_vars
=============================================================================
