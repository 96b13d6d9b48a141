------------------------ MODULE ShipmentServiceProofs ------------------------
(***************************************************************************)
(* Proofs about ShipmentService for every set of shipments, users, keys    *)
(* and requests and any number of crashes.                                 *)
(***************************************************************************)
EXTENDS ShipmentService, FiniteSetTheorems, SequenceTheorems, TLAPS

-----------------------------------------------------------------------------
(* The invariant *)

Present(s) == shipments[s].status # "absent"

\* A row is whole or is not there, and its manifest came before it.
TablesOK ==
    /\ shipments \in [Shipment -> Row]
    /\ devices \in [User -> Key \cup {None}]
    /\ objects \subseteq Shipment
    /\ \A s \in Shipment :
          IF Present(s) THEN /\ shipments[s].farmer \in User
                             /\ shipments[s].custodian \in User
                             /\ s \in objects
          ELSE shipments[s] = Absent

\* An event is of a shipment that exists, and no two are of one request.
LedgerOK ==
    /\ custody_events \in Seq(CustodyEvent)
    /\ \A i \in DOMAIN custody_events : Present(custody_events[i].shipment)
    /\ \A i, j \in DOMAIN custody_events :
          custody_events[i].request = custody_events[j].request => i = j
    /\ EventsMatchDevice
    /\ BindingHasHandoff
    /\ ProvenanceIsConnected

MessagesOK == published \subseteq Message /\ MessagesAreTrue

ControlOK ==
    /\ pc \in [Request -> Step]
    /\ ctx \in [Request -> Context]
    /\ reply \in [Request -> Answer]
    /\ crashes \in Nat

\* Two requests do not create the same shipment.
Creating(r) == pc[r] \in {"precheck", "upload", "insert"}

OneCreator ==
    \A r, q \in Request :
        Creating(r) /\ Creating(q) /\ ctx[r].shipment = ctx[q].shipment => r = q

\* What a handler of create_shipment knows.
CreateKnows(r) ==
    /\ pc[r] \in {"precheck", "upload", "insert", "refresh", "created_publish"} =>
          ctx[r].shipment \in Shipment /\ ctx[r].user \in User /\ ctx[r].to = ctx[r].user
    /\ Creating(r) => ~Present(ctx[r].shipment)
    /\ pc[r] = "insert" => ctx[r].shipment \in objects
    /\ pc[r] \in {"refresh", "created_publish"} =>
          /\ Present(ctx[r].shipment)
          /\ shipments[ctx[r].shipment].farmer = ctx[r].user

\* What a handler of custody_handoff knows: of the row it read, that it was there
\* and that its custodian had come to hold the shipment; of the device, that it is
\* the registered one unless it is to be registered.
HandoffKnows(r) ==
    /\ pc[r] \in {"handoff_select", "device_select", "handoff_commit",
                  "handoff_publish"} =>
          /\ ctx[r].shipment \in Shipment
          /\ ctx[r].user \in User /\ ctx[r].to \in User /\ ctx[r].key \in Key
    /\ pc[r] \in {"device_select", "handoff_commit", "handoff_publish"} =>
          /\ Present(ctx[r].shipment)
          /\ ctx[r].read.status # "absent"
          /\ ctx[r].read.custodian \in User
          /\ ctx[r].read.custodian = ctx[r].user \/ ctx[r].user \in Admin
          /\ ctx[r].read.custodian \in
                Holders(ctx[r].shipment, Len(custody_events) + 1)
    /\ pc[r] = "handoff_commit" /\ ~ctx[r].bind =>
          devices[ctx[r].user] = ctx[r].key
    /\ pc[r] = "handoff_publish" =>
          \E i \in DOMAIN custody_events :
              /\ custody_events[i].request = r
              /\ custody_events[i].shipment = ctx[r].shipment
              /\ custody_events[i].from = ctx[r].read.custodian
              /\ custody_events[i].to = ctx[r].to

\* What a handler of init_escrow knows.
EscrowKnows(r) ==
    /\ pc[r] \in {"escrow_select", "escrow_commit", "escrow_publish"} =>
          ctx[r].shipment \in Shipment /\ ctx[r].to \in User
    /\ pc[r] \in {"escrow_commit", "escrow_publish"} =>
          /\ Present(ctx[r].shipment)
          /\ ctx[r].read.status # "absent" /\ ctx[r].read.farmer \in User

\* An event of a request is written by the commit of its handler; a client that
\* was told of a refusal has none, one that was told of success has one.
AnswerKnows(r) ==
    /\ pc[r] # "done" => reply[r] = "none"
    /\ pc[r] \notin {"handoff_publish", "done"} => EventsOf(r) = {}
    /\ reply[r] \in {"400", "403", "404"} => EventsOf(r) = {}
    /\ reply[r] = "HANDOFF_VERIFIED" => EventsOf(r) # {}

HandlerOK(r) == CreateKnows(r) /\ HandoffKnows(r) /\ EscrowKnows(r) /\ AnswerKnows(r)

Inv ==
    /\ TablesOK /\ LedgerOK /\ MessagesOK /\ ControlOK /\ OneCreator
    /\ \A r \in Request : HandlerOK(r)

-----------------------------------------------------------------------------
(* What a step of one handler leaves to the others *)

\* The tables and the bucket only grow; a new shipment is the one r inserts, a new
\* event is one of r.
Grows(r) ==
    /\ \A s \in Shipment : Present(s) =>
          Present(s)' /\ shipments'[s].farmer = shipments[s].farmer
    /\ \A s \in Shipment : Present(s)' =>
          Present(s) \/ (pc[r] = "insert" /\ ctx[r].shipment = s)
    /\ objects \subseteq objects'
    /\ \A u \in User : devices[u] # None => devices'[u] = devices[u]
    /\ Len(custody_events') \in Nat /\ Len(custody_events) <= Len(custody_events')
    /\ DOMAIN custody_events' = 1 .. Len(custody_events')
    /\ \A i \in 1 .. Len(custody_events) : custody_events'[i] = custody_events[i]
    /\ \A i \in 1 .. Len(custody_events') :
          i > Len(custody_events) => custody_events'[i].request = r

LEMMA LedgerDomain ==
    ASSUME LedgerOK
    PROVE  /\ Len(custody_events) \in Nat
           /\ DOMAIN custody_events = 1 .. Len(custody_events)
           /\ \A i \in 1 .. Len(custody_events) : custody_events[i] \in CustodyEvent
  BY DEF LedgerOK

LEMMA HoldersMember ==
    ASSUME NEW s, NEW n, NEW u
    PROVE  /\ u \in Holders(s, n) <=>
                \/ u = shipments[s].farmer
                \/ \E j \in 1 .. n - 1 :
                      custody_events[j].shipment = s /\ custody_events[j].to = u
           /\ u \in Holders(s, n)' <=>
                \/ u = shipments'[s].farmer
                \/ \E j \in 1 .. n - 1 :
                      custody_events'[j].shipment = s /\ custody_events'[j].to = u
  BY DEF Holders

\* Who has held a shipment has held it for ever.
LEMMA HoldersStay ==
    ASSUME LedgerOK, NEW r, Grows(r), NEW s \in Shipment, Present(s),
           NEW n \in 1 .. Len(custody_events) + 1, NEW m \in Nat, n <= m,
           NEW u, u \in Holders(s, n)
    PROVE  u \in Holders(s, m)'
<1>1. Len(custody_events) \in Nat
  BY LedgerDomain
<1>2. CASE u = shipments[s].farmer
  BY <1>2, HoldersMember DEF Grows
<1>3. ASSUME NEW j \in 1 .. n - 1,
             custody_events[j].shipment = s /\ custody_events[j].to = u
      PROVE  u \in Holders(s, m)'
  <2>1. j \in 1 .. m - 1 /\ j \in 1 .. Len(custody_events)
    BY <1>1
  <2>2. custody_events'[j] = custody_events[j]
    BY <2>1 DEF Grows
  <2>3. QED
    BY <1>3, <2>1, <2>2, HoldersMember
<1>4. QED
  BY <1>2, <1>3, HoldersMember

\* What the other handlers know stays true.
LEMMA OthersKnow ==
    ASSUME Inv, NEW r \in Request, Grows(r), NEW q \in Request, q # r,
           pc'[q] = pc[q], ctx'[q] = ctx[q], reply'[q] = reply[q]
    PROVE  HandlerOK(q)'
<1> USE DEF Inv
<1>1. CreateKnows(q)'
  <2>1. Creating(q) => ~Present(ctx[q].shipment)'
    BY DEF HandlerOK, CreateKnows, Grows, OneCreator, Creating
  <2>2. QED
    BY <2>1 DEF HandlerOK, CreateKnows, Grows, Creating, Present
<1>2. HandoffKnows(q)'
  <2>1. pc[q] \in {"device_select", "handoff_commit", "handoff_publish"} =>
          ctx[q].read.custodian \in
            Holders(ctx[q].shipment, Len(custody_events) + 1)'
    <3> SUFFICES ASSUME pc[q] \in {"device_select", "handoff_commit", "handoff_publish"}
                 PROVE  ctx'[q].read.custodian \in
                          Holders(ctx[q].shipment, Len(custody_events) + 1)'
      OBVIOUS
    <3> DEFINE s == ctx[q].shipment
    <3>1. PICK t \in Shipment : t = ctx[q].shipment
      BY DEF HandlerOK, HandoffKnows
    <3>2. PICK u \in User : u = ctx[q].read.custodian
      BY DEF HandlerOK, HandoffKnows
    <3>3. Present(t) /\ u \in Holders(t, Len(custody_events) + 1)
      BY <3>1, <3>2 DEF HandlerOK, HandoffKnows
    <3>4. PICK m \in Nat : m = Len(custody_events') + 1
      BY DEF Grows
    <3>5. u \in Holders(t, m)'
      BY <3>3, <3>4, HoldersStay, LedgerDomain DEF Grows
    <3>6. QED
      BY <3>1, <3>2, <3>4, <3>5 DEF Holders
  <2>2. pc[q] = "handoff_publish" =>
          \E i \in DOMAIN custody_events' :
              /\ custody_events'[i].request = q
              /\ custody_events'[i].shipment = ctx[q].shipment
              /\ custody_events'[i].from = ctx[q].read.custodian
              /\ custody_events'[i].to = ctx[q].to
    <3> SUFFICES ASSUME pc[q] = "handoff_publish"
                 PROVE  \E i \in DOMAIN custody_events' :
                          /\ custody_events'[i].request = q
                          /\ custody_events'[i].shipment = ctx[q].shipment
                          /\ custody_events'[i].from = ctx[q].read.custodian
                          /\ custody_events'[i].to = ctx[q].to
      OBVIOUS
    <3>1. PICK i \in DOMAIN custody_events :
            /\ custody_events[i].request = q
            /\ custody_events[i].shipment = ctx[q].shipment
            /\ custody_events[i].from = ctx[q].read.custodian
            /\ custody_events[i].to = ctx[q].to
      BY DEF HandlerOK, HandoffKnows
    <3>2. i \in DOMAIN custody_events' /\ custody_events'[i] = custody_events[i]
      BY LedgerDomain DEF Grows
    <3>3. QED
      BY <3>1, <3>2
  <2>3. pc[q] = "handoff_commit" /\ ~ctx[q].bind => devices'[ctx[q].user] = ctx[q].key
    BY ConstantsAssumption DEF HandlerOK, HandoffKnows, Grows
  <2>4. QED
    BY <2>1, <2>2, <2>3 DEF HandlerOK, HandoffKnows, Grows, Present
<1>3. EscrowKnows(q)'
  BY DEF HandlerOK, EscrowKnows, Grows, Present
<1>4. AnswerKnows(q)'
  <2>1. (EventsOf(q) = {}) <=> (EventsOf(q)' = {})
    BY LedgerDomain DEF Grows, EventsOf
  <2>2. QED
    BY <2>1 DEF HandlerOK, AnswerKnows
<1>5. QED
  BY <1>1, <1>2, <1>3, <1>4 DEF HandlerOK

-----------------------------------------------------------------------------
(* Steps that leave the tables alone *)

LEMMA GotoMoves ==
    ASSUME ControlOK, NEW r \in Request, NEW step \in Step, Goto(r, step)
    PROVE  /\ pc' \in [Request -> Step] /\ pc'[r] = step
           /\ \A q \in Request : q # r => pc'[q] = pc[q]
           /\ reply' = reply
  BY DEF ControlOK, Goto

LEMMA ReturnMoves ==
    ASSUME ControlOK, NEW r \in Request, NEW answer \in Answer, Return(r, answer)
    PROVE  /\ pc' \in [Request -> Step] /\ pc'[r] = "done"
           /\ \A q \in Request : q # r => pc'[q] = pc[q] /\ reply'[q] = reply[q]
           /\ reply' \in [Request -> Answer] /\ reply'[r] = answer
  BY DEF ControlOK, Return, Step

\* Nobody begins to create a shipment.
LEMMA CreatorsStay ==
    ASSUME OneCreator,
           \A q \in Request : Creating(q)' =>
              Creating(q) /\ ctx'[q].shipment = ctx[q].shipment
    PROVE  OneCreator'
  BY DEF OneCreator

\* What the tables hold and the messages tell when no row is written.
LEMMA QuietTables ==
    ASSUME TablesOK, LedgerOK, NEW r, UNCHANGED tables,
           objects \subseteq objects', objects' \subseteq Shipment
    PROVE  TablesOK' /\ LedgerOK' /\ Grows(r)
<1>1. TablesOK'
  BY DEF TablesOK, tables, Present
<1>2. LedgerOK'
  BY DEF LedgerOK, tables, Present, EventsMatchDevice, BindingHasHandoff,
         ProvenanceIsConnected, Holders
<1>3. Grows(r)
  BY LedgerDomain DEF Grows, tables, Present
<1>4. QED
  BY <1>1, <1>2, <1>3

LEMMA MessagesStay ==
    ASSUME TablesOK, LedgerOK, MessagesOK, NEW r, Grows(r), UNCHANGED published
    PROVE  MessagesOK'
<1> SUFFICES ASSUME NEW m \in published
             PROVE  /\ Present(m.shipment)'
                    /\ m.event = "shipment.created" => shipments'[m.shipment].farmer = m.from
                    /\ m.event = "custody.handoff" =>
                          \E i \in DOMAIN custody_events' :
                              /\ custody_events'[i].shipment = m.shipment
                              /\ custody_events'[i].from = m.from
                              /\ custody_events'[i].to = m.to
  BY DEF MessagesOK, MessagesAreTrue, Present
<1>1. m.shipment \in Shipment
  BY DEF MessagesOK, Message
<1>2. QED
  BY <1>1, LedgerDomain DEF MessagesOK, MessagesAreTrue, Present, Grows

\* A step is right when it is for its own handler.
LEMMA StepKeeps ==
    ASSUME Inv, NEW r \in Request, Grows(r),
           TablesOK', LedgerOK', MessagesOK', ControlOK', OneCreator', HandlerOK(r)',
           \A q \in Request : q # r =>
              pc'[q] = pc[q] /\ ctx'[q] = ctx[q] /\ reply'[q] = reply[q]
    PROVE  Inv'
  BY OthersKnow DEF Inv

\* A handler goes on, with what it needs to know.
LEMMA GoesOn ==
    ASSUME Inv, NEW r \in Request, NEW step \in Step \ {"done", "handoff_publish"},
           pc[r] \notin {"done", "handoff_publish"}, Goto(r, step),
           UNCHANGED <<tables, published, crashes>>,
           objects \subseteq objects', objects' \subseteq Shipment,
           ctx' \in [Request -> Context],
           \A q \in Request : q # r => ctx'[q] = ctx[q],
           OneCreator', CreateKnows(r)', HandoffKnows(r)', EscrowKnows(r)'
    PROVE  Inv'
<1>1. TablesOK' /\ LedgerOK' /\ Grows(r)
  BY QuietTables DEF Inv
<1>2. MessagesOK'
  BY <1>1, MessagesStay DEF Inv
<1>3. /\ pc'[r] = step /\ reply' = reply
      /\ \A q \in Request : q # r => pc'[q] = pc[q]
      /\ ControlOK'
  BY GotoMoves DEF Inv, ControlOK
<1>4. AnswerKnows(r)'
  BY <1>3 DEF Inv, HandlerOK, AnswerKnows, EventsOf, tables
<1>5. QED
  BY <1>1, <1>2, <1>3, <1>4, StepKeeps DEF HandlerOK

\* A handler ends before it has committed anything.
LEMMA GivesUp ==
    ASSUME Inv, NEW r \in Request, NEW answer \in {"400", "403", "404", "500"},
           pc[r] \notin {"done", "handoff_publish"}, Return(r, answer),
           UNCHANGED <<tables, published, crashes>>,
           objects \subseteq objects', objects' \subseteq Shipment,
           ctx' \in [Request -> Context],
           \A q \in Request : q # r => ctx'[q] = ctx[q]
    PROVE  Inv'
<1>1. TablesOK' /\ LedgerOK' /\ Grows(r)
  BY QuietTables DEF Inv
<1>2. MessagesOK'
  BY <1>1, MessagesStay DEF Inv
<1>3. /\ pc'[r] = "done" /\ reply'[r] = answer
      /\ \A q \in Request : q # r => pc'[q] = pc[q] /\ reply'[q] = reply[q]
      /\ ControlOK'
  BY ReturnMoves DEF Inv, ControlOK, Answer
<1>4. OneCreator'
  BY <1>3, CreatorsStay DEF Inv, Creating
<1>5. HandlerOK(r)'
  BY <1>3 DEF Inv, HandlerOK, CreateKnows, HandoffKnows, EscrowKnows, AnswerKnows,
              Creating, EventsOf, tables
<1>6. QED
  BY <1>1, <1>2, <1>3, <1>4, <1>5, StepKeeps

-----------------------------------------------------------------------------
(* create_shipment *)

LEMMA SubmitCreateKeeps ==
    ASSUME Inv, NEW r \in Request, NEW u \in User, NEW s \in Shipment,
           SubmitCreate(r, u, s)
    PROVE  Inv'
<1>1. /\ ctx' \in [Request -> Context]
      /\ ctx'[r].shipment = s /\ ctx'[r].user = u /\ ctx'[r].to = u
      /\ \A q \in Request : q # r => ctx'[q] = ctx[q]
  BY DEF SubmitCreate, Inv, ControlOK, Context
<1>2. /\ pc'[r] = "precheck" /\ \A q \in Request : q # r => pc'[q] = pc[q]
  BY GotoMoves DEF SubmitCreate, Inv, Step
<1>3. OneCreator'
  BY <1>1, <1>2 DEF SubmitCreate, Inv, OneCreator, Creating
<1>4. CreateKnows(r)' /\ HandoffKnows(r)' /\ EscrowKnows(r)'
  BY <1>1, <1>2 DEF SubmitCreate, CreateKnows, HandoffKnows, EscrowKnows, Creating,
                    Present, tables
<1>5. QED
  BY <1>1, <1>3, <1>4, GoesOn DEF SubmitCreate, Inv, TablesOK, Step

LEMMA PrecheckKeeps ==
    ASSUME Inv, NEW r \in Request, Precheck(r)
    PROVE  Inv'
<1>1. ctx' \in [Request -> Context] /\ objects' \subseteq Shipment
  BY DEF Precheck, Inv, ControlOK, TablesOK
<1>2. CASE Goto(r, "upload")
  <2>1. pc'[r] = "upload" /\ \A q \in Request : q # r => pc'[q] = pc[q]
    BY <1>2, GotoMoves DEF Inv, Step
  <2>2. OneCreator'
    BY <2>1, CreatorsStay DEF Precheck, Inv, Creating
  <2>3. CreateKnows(r)' /\ HandoffKnows(r)' /\ EscrowKnows(r)'
    BY <2>1 DEF Precheck, Inv, HandlerOK, CreateKnows, HandoffKnows, EscrowKnows,
                Creating, Present, tables
  <2>4. QED
    BY <1>1, <1>2, <2>2, <2>3, GoesOn DEF Precheck, Step
<1>3. CASE Return(r, "400") \/ Return(r, "500")
  BY <1>1, <1>3, GivesUp DEF Precheck
<1>4. QED
  BY <1>2, <1>3 DEF Precheck

LEMMA UploadKeeps ==
    ASSUME Inv, NEW r \in Request, Upload(r)
    PROVE  Inv'
<1>1. ctx[r].shipment \in Shipment /\ pc[r] = "upload"
  BY DEF Upload, Inv, HandlerOK, CreateKnows
<1>2. /\ ctx' \in [Request -> Context]
      /\ objects \subseteq objects' /\ objects' \subseteq Shipment
  BY <1>1 DEF Upload, Inv, ControlOK, TablesOK
<1>3. CASE Goto(r, "insert") /\ objects' = objects \cup {ctx[r].shipment}
  <2>1. pc'[r] = "insert" /\ \A q \in Request : q # r => pc'[q] = pc[q]
    BY <1>3, GotoMoves DEF Inv, Step
  <2>2. OneCreator'
    BY <1>1, <2>1, CreatorsStay DEF Upload, Inv, Creating
  <2>3. CreateKnows(r)' /\ HandoffKnows(r)' /\ EscrowKnows(r)'
    BY <1>1, <1>3, <2>1 DEF Upload, Inv, HandlerOK, CreateKnows, HandoffKnows,
                            EscrowKnows, Creating, Present, tables
  <2>4. QED
    BY <1>1, <1>2, <1>3, <2>2, <2>3, GoesOn DEF Upload, Step
<1>4. CASE Return(r, "500")
  BY <1>1, <1>2, <1>4, GivesUp DEF Upload
<1>5. QED
  BY <1>3, <1>4 DEF Upload, Committed

LEMMA InsertKeeps ==
    ASSUME Inv, NEW r \in Request, Insert(r)
    PROVE  Inv'
<1> DEFINE t == ctx[r].shipment
           u == ctx[r].user
           new == [status |-> "CREATED", farmer |-> u, custodian |-> u]
<1>1. PICK s \in Shipment : s = t
  BY DEF Insert, Inv, HandlerOK, CreateKnows
<1>2. /\ pc[r] = "insert" /\ u \in User /\ s \in objects
      /\ ~Present(s) /\ shipments[s] = Absent
      /\ shipments' = [shipments EXCEPT ![s] = new]
      /\ UNCHANGED <<devices, custody_events, objects, published, ctx, crashes>>
  BY <1>1 DEF Insert, Inv, HandlerOK, CreateKnows, Creating, TablesOK
<1>3. /\ \A p \in Shipment : p # s => shipments'[p] = shipments[p]
      /\ shipments'[s] = new
  BY <1>2 DEF Inv, TablesOK
<1>4. TablesOK'
  BY <1>2, <1>3 DEF Inv, TablesOK, Present, Row, Status
<1>5. Grows(r)
  BY <1>1, <1>2, <1>3, LedgerDomain DEF Inv, Grows, Present
<1>6. LedgerOK'
  <2>1. \A i \in DOMAIN custody_events : custody_events[i].shipment # s
    BY <1>2 DEF Inv, LedgerOK
  <2>2. \A i \in DOMAIN custody_events : custody_events[i].shipment \in Shipment
    BY LedgerDomain DEF Inv, CustodyEvent
  <2>3. ProvenanceIsConnected'
    <3>1. \A n : \A p \in Shipment : p # s => Holders(p, n)' = Holders(p, n)
      BY <1>2, <1>3 DEF Holders
    <3>2. ASSUME NEW i \in DOMAIN custody_events
          PROVE  custody_events[i].from \in Holders(custody_events[i].shipment, i)'
      BY <2>1, <2>2, <1>2, <1>3 DEF Inv, LedgerOK, ProvenanceIsConnected, Holders
    <3>3. ASSUME NEW p \in Shipment
          PROVE  shipments'[p].custodian \in Holders(p, Len(custody_events) + 1)'
      BY <1>2, <1>3 DEF Inv, LedgerOK, ProvenanceIsConnected, Holders
    <3>4. QED
      BY <3>2, <3>3, <1>2 DEF ProvenanceIsConnected, Holders
  <2>4. QED
    BY <1>2, <1>3, <2>1, <2>2, <2>3
       DEF Inv, LedgerOK, EventsMatchDevice, BindingHasHandoff, Present
<1>7. MessagesOK'
  BY <1>2, <1>5, MessagesStay DEF Inv
<1>8. CASE Goto(r, "refresh")
  <2>1. /\ pc'[r] = "refresh" /\ \A q \in Request : q # r => pc'[q] = pc[q]
        /\ reply' = reply /\ ControlOK'
    BY <1>2, <1>8, GotoMoves DEF Inv, ControlOK, Step
  <2>2. OneCreator'
    BY <1>2, <2>1, CreatorsStay DEF Inv, Creating
  <2>3. HandlerOK(r)'
    BY <1>1, <1>2, <1>3, <2>1 DEF Inv, HandlerOK, CreateKnows, HandoffKnows, EscrowKnows,
                           AnswerKnows, EventsOf, Creating, Present
  <2>4. QED
    BY <1>2, <1>4, <1>5, <1>6, <1>7, <2>1, <2>2, <2>3, StepKeeps
<1>9. CASE Return(r, "500")
  <2>1. /\ pc'[r] = "done" /\ reply'[r] = "500" /\ ControlOK'
        /\ \A q \in Request : q # r => pc'[q] = pc[q] /\ reply'[q] = reply[q]
    BY <1>2, <1>9, ReturnMoves DEF Inv, ControlOK, Answer
  <2>2. OneCreator'
    BY <1>2, <2>1, CreatorsStay DEF Inv, Creating
  <2>3. HandlerOK(r)'
    BY <2>1 DEF HandlerOK, CreateKnows, HandoffKnows, EscrowKnows, AnswerKnows, Creating
  <2>4. QED
    BY <1>2, <1>4, <1>5, <1>6, <1>7, <2>1, <2>2, <2>3, StepKeeps
<1>10. QED
  BY <1>8, <1>9 DEF Insert, Committed

LEMMA RefreshKeeps ==
    ASSUME Inv, NEW r \in Request, Refresh(r)
    PROVE  Inv'
<1>1. /\ pc'[r] = "created_publish" /\ \A q \in Request : q # r => pc'[q] = pc[q]
      /\ ctx' \in [Request -> Context] /\ objects' \subseteq Shipment
  BY GotoMoves DEF Refresh, Inv, ControlOK, TablesOK, Step
<1>2. OneCreator'
  BY <1>1, CreatorsStay DEF Refresh, Inv, Creating
<1>3. CreateKnows(r)' /\ HandoffKnows(r)' /\ EscrowKnows(r)'
  BY <1>1 DEF Refresh, Inv, HandlerOK, CreateKnows, HandoffKnows, EscrowKnows,
              Creating, Present, tables
<1>4. QED
  BY <1>1, <1>2, <1>3, GoesOn DEF Refresh, Step

\* The message, when the broker stores it, tells of what is in the tables; the
\* handler answers as its events allow.
LEMMA PublishKeeps ==
    ASSUME Inv, NEW r \in Request,
           NEW event \in {"shipment.created", "custody.handoff", "escrow"},
           NEW from \in User,
           NEW answer \in {"CREATED", "HANDOFF_VERIFIED", "ESCROW_INITIATED"},
           PublishAndReturn(r, event, from, answer),
           UNCHANGED <<tables, objects, ctx, crashes>>,
           ctx[r].shipment \in Shipment, ctx[r].to \in User, Present(ctx[r].shipment),
           event = "shipment.created" => shipments[ctx[r].shipment].farmer = from,
           event = "custody.handoff" =>
              \E i \in DOMAIN custody_events :
                  /\ custody_events[i].shipment = ctx[r].shipment
                  /\ custody_events[i].from = from
                  /\ custody_events[i].to = ctx[r].to,
           answer = "HANDOFF_VERIFIED" => EventsOf(r) # {}
    PROVE  Inv'
<1>1. TablesOK' /\ LedgerOK' /\ Grows(r)
  BY QuietTables DEF Inv, TablesOK
<1>2. MessagesOK'
  <2> DEFINE m == [event |-> event, shipment |-> ctx[r].shipment, from |-> from,
                   to |-> ctx[r].to]
  <2>1. m \in Message
    BY DEF Message
  <2>2. published' \subseteq published \cup {m}
    BY DEF PublishAndReturn
  <2>3. QED
    BY <2>1, <2>2 DEF Inv, MessagesOK, MessagesAreTrue, Present, tables
<1>3. /\ pc'[r] = "done" /\ reply'[r] = answer /\ ControlOK'
      /\ \A q \in Request : q # r => pc'[q] = pc[q] /\ reply'[q] = reply[q]
  BY ReturnMoves DEF PublishAndReturn, Inv, ControlOK, Answer
<1>4. OneCreator'
  BY <1>3, CreatorsStay DEF Inv, Creating
<1>5. HandlerOK(r)'
  BY <1>3 DEF HandlerOK, CreateKnows, HandoffKnows, EscrowKnows, AnswerKnows, Creating,
              EventsOf, tables
<1>6. QED
  BY <1>1, <1>2, <1>3, <1>4, <1>5, StepKeeps

LEMMA CreatedPublishKeeps ==
    ASSUME Inv, NEW r \in Request, CreatedPublish(r)
    PROVE  Inv'
<1>1. /\ ctx[r].shipment \in Shipment /\ ctx[r].user \in User /\ ctx[r].to \in User
      /\ Present(ctx[r].shipment)
      /\ shipments[ctx[r].shipment].farmer = ctx[r].user
  BY DEF CreatedPublish, Inv, HandlerOK, CreateKnows
<1>2. QED
  BY <1>1, PublishKeeps DEF CreatedPublish

-----------------------------------------------------------------------------
(* custody_handoff *)

LEMMA SubmitHandoffKeeps ==
    ASSUME Inv, NEW r \in Request, NEW s \in Shipment, NEW u \in User, NEW v \in User,
           NEW k \in Key, SubmitHandoff(r, s, u, v, k)
    PROVE  Inv'
<1>1. /\ ctx' \in [Request -> Context]
      /\ ctx'[r].shipment = s /\ ctx'[r].user = u /\ ctx'[r].to = v /\ ctx'[r].key = k
      /\ \A q \in Request : q # r => ctx'[q] = ctx[q]
  BY DEF SubmitHandoff, Inv, ControlOK, Context
<1>2. /\ pc'[r] = "handoff_select" /\ \A q \in Request : q # r => pc'[q] = pc[q]
  BY GotoMoves DEF SubmitHandoff, Inv, Step
<1>3. OneCreator'
  BY <1>1, <1>2, CreatorsStay DEF Inv, Creating
<1>4. CreateKnows(r)' /\ HandoffKnows(r)' /\ EscrowKnows(r)'
  BY <1>1, <1>2 DEF CreateKnows, HandoffKnows, EscrowKnows, Creating
<1>5. QED
  BY <1>1, <1>3, <1>4, GoesOn DEF SubmitHandoff, Inv, TablesOK, Step

\* Reading a row: what the handler keeps of it.
LEMMA ReadRow ==
    ASSUME Inv, NEW r \in Request, NEW s \in Shipment,
           ctx' = [ctx EXCEPT ![r] = [@ EXCEPT !.read = shipments[s]]]
    PROVE  /\ ctx' \in [Request -> Context]
           /\ \A q \in Request : q # r => ctx'[q] = ctx[q]
           /\ \A q \in Request : ctx'[q].shipment = ctx[q].shipment
           /\ ctx'[r].read = shipments[s] /\ ctx'[r].user = ctx[r].user
           /\ ctx'[r].to = ctx[r].to /\ ctx'[r].key = ctx[r].key
<1>1. shipments[s] \in Row /\ ctx \in [Request -> Context]
  BY DEF Inv, TablesOK, ControlOK
<1>2. QED
  BY <1>1 DEF Context

LEMMA HandoffSelectKeeps ==
    ASSUME Inv, NEW r \in Request, HandoffSelect(r)
    PROVE  Inv'
<1>1. PICK s \in Shipment : s = ctx[r].shipment
  BY DEF HandoffSelect, Inv, HandlerOK, HandoffKnows
<1>2. /\ ctx' = [ctx EXCEPT ![r] = [@ EXCEPT !.read = shipments[s]]]
      /\ pc[r] = "handoff_select" /\ UNCHANGED <<tables, objects, published, crashes>>
      /\ objects' \subseteq Shipment
  BY <1>1 DEF HandoffSelect, Inv, TablesOK
<1>3. /\ ctx' \in [Request -> Context]
      /\ \A q \in Request : q # r => ctx'[q] = ctx[q]
      /\ \A q \in Request : ctx'[q].shipment = ctx[q].shipment
      /\ ctx'[r].read = shipments[s] /\ ctx'[r].user = ctx[r].user
      /\ ctx'[r].to = ctx[r].to /\ ctx'[r].key = ctx[r].key
  BY <1>2, ReadRow
<1>4. CASE /\ Goto(r, "device_select") /\ Present(s)
           /\ shipments[s].custodian = ctx[r].user \/ ctx[r].user \in Admin
  <2>1. /\ pc'[r] = "device_select" /\ \A q \in Request : q # r => pc'[q] = pc[q]
    BY <1>4, GotoMoves DEF Inv, Step
  <2>2. OneCreator'
    BY <1>3, <2>1, CreatorsStay DEF Inv, Creating
  <2>3. CreateKnows(r)' /\ EscrowKnows(r)'
    BY <2>1 DEF CreateKnows, EscrowKnows, Creating
  <2>4. HandoffKnows(r)'
    <3>1. /\ ctx[r].user \in User /\ ctx[r].to \in User /\ ctx[r].key \in Key
      BY <1>2 DEF Inv, HandlerOK, HandoffKnows
    <3>2. shipments[s].custodian \in User
      BY <1>4 DEF Inv, TablesOK
    <3>3. shipments[s].custodian \in Holders(s, Len(custody_events) + 1)
      BY DEF Inv, LedgerOK, ProvenanceIsConnected
    <3>4. QED
      BY <1>1, <1>2, <1>3, <1>4, <2>1, <3>1, <3>2, <3>3
         DEF HandoffKnows, Holders, Present, tables
  <2>5. QED
    BY <1>2, <1>3, <1>4, <2>2, <2>3, <2>4, GoesOn DEF Step
<1>5. CASE Return(r, "404") \/ Return(r, "400") \/ Return(r, "403")
  BY <1>2, <1>3, <1>5, GivesUp
<1>6. QED
  BY <1>1, <1>4, <1>5 DEF HandoffSelect, Present, MayHandOff

LEMMA DeviceSelectKeeps ==
    ASSUME Inv, NEW r \in Request, DeviceSelect(r)
    PROVE  Inv'
<1> DEFINE key == devices[ctx[r].user]
<1>1. /\ pc[r] = "device_select" /\ UNCHANGED <<tables, objects, published, crashes>>
      /\ ctx' = [ctx EXCEPT ![r] = [@ EXCEPT !.bind = (key = None)]]
      /\ objects' \subseteq Shipment
  BY DEF DeviceSelect, Inv, TablesOK
<1>2. /\ ctx' \in [Request -> Context]
      /\ \A q \in Request : q # r => ctx'[q] = ctx[q]
      /\ \A q \in Request : ctx'[q].shipment = ctx[q].shipment
      /\ ctx'[r].read = ctx[r].read /\ ctx'[r].user = ctx[r].user
      /\ ctx'[r].to = ctx[r].to /\ ctx'[r].key = ctx[r].key
      /\ ctx'[r].bind <=> key = None
  <2>1. PICK b \in BOOLEAN : b <=> key = None
    OBVIOUS
  <2>2. ctx' = [ctx EXCEPT ![r] = [@ EXCEPT !.bind = b]]
    BY <1>1, <2>1
  <2>3. ctx \in [Request -> Context]
    BY DEF Inv, ControlOK
  <2>4. PICK c \in Context : c = [ctx[r] EXCEPT !.bind = b]
    BY <2>3 DEF Context
  <2>5. ctx' = [ctx EXCEPT ![r] = c]
    BY <2>2, <2>3, <2>4
  <2>6. /\ ctx' \in [Request -> Context] /\ ctx'[r] = c
        /\ \A q \in Request : q # r => ctx'[q] = ctx[q]
    BY <2>3, <2>5
  <2>7. /\ c.shipment = ctx[r].shipment /\ c.read = ctx[r].read /\ c.user = ctx[r].user
        /\ c.to = ctx[r].to /\ c.key = ctx[r].key /\ c.bind = b
    BY <2>3, <2>4 DEF Context
  <2>8. QED
    BY <2>1, <2>6, <2>7
<1>3. CASE Goto(r, "handoff_commit") /\ key \in {None, ctx[r].key}
  <2>1. /\ pc'[r] = "handoff_commit" /\ \A q \in Request : q # r => pc'[q] = pc[q]
    BY <1>3, GotoMoves DEF Inv, Step
  <2>2. OneCreator'
    BY <1>2, <2>1, CreatorsStay DEF Inv, Creating
  <2>3. CreateKnows(r)' /\ EscrowKnows(r)'
    BY <2>1 DEF CreateKnows, EscrowKnows, Creating
  <2>4. HandoffKnows(r)'
    BY <1>1, <1>2, <1>3, <2>1
       DEF Inv, HandlerOK, HandoffKnows, Holders, Present, tables
  <2>5. QED
    BY <1>1, <1>2, <1>3, <2>2, <2>3, <2>4, GoesOn DEF Step
<1>4. CASE Return(r, "403")
  BY <1>1, <1>2, <1>4, GivesUp
<1>5. QED
  BY <1>3, <1>4 DEF DeviceSelect

\* The row after an UPDATE of a handler that read a row.
LEMMA UpdateRow ==
    ASSUME TablesOK, NEW s \in Shipment, Present(s), NEW r \in Request,
           ctx[r].shipment = s, NEW status \in Status \ {"absent"}, NEW v \in User
    PROVE  /\ Updated(r, status, v) \in Row
           /\ Updated(r, status, v).status # "absent"
           /\ Updated(r, status, v).farmer = shipments[s].farmer
           /\ Updated(r, status, v).custodian =
                IF v = ctx[r].read.custodian THEN shipments[s].custodian ELSE v
<1>1. shipments[s] \in Row /\ shipments[s].status # "absent"
  BY DEF TablesOK, Present
<1>2. QED
  BY <1>1 DEF Updated, Row

LEMMA HandoffCommitKeeps ==
    ASSUME Inv, NEW r \in Request, HandoffCommit(r)
    PROVE  Inv'
<1>1. CASE Conflict(r)
  <2>1. ctx' \in [Request -> Context] /\ objects' \subseteq Shipment
    BY DEF HandoffCommit, Inv, ControlOK, TablesOK
  <2>2. QED
    BY <1>1, <2>1, GivesUp DEF HandoffCommit
<1>2. CASE ~Conflict(r)
  <2> DEFINE k == ctx[r].key
             e == NewEvent(r)
  <2>0. PICK n \in Nat : n = Len(custody_events) + 1
    BY LedgerDomain DEF Inv
  <2>1. PICK s \in Shipment, u \in User, v \in User :
          s = ctx[r].shipment /\ u = ctx[r].user /\ v = ctx[r].to
    BY DEF HandoffCommit, Inv, HandlerOK, HandoffKnows
  <2>2. /\ pc[r] = "handoff_commit" /\ UNCHANGED <<objects, published, ctx, crashes>>
        /\ Goto(r, "handoff_publish") \/ Return(r, "500")
        /\ Present(s) /\ k \in Key /\ ctx[r].read.custodian \in User
        /\ ctx[r].read.custodian \in Holders(s, n)
        /\ EventsOf(r) = {}
    BY <1>2, <2>0, <2>1
       DEF HandoffCommit, Committed, Inv, HandlerOK, HandoffKnows, AnswerKnows, Holders
  <2>3. /\ n \in Nat /\ n - 1 = Len(custody_events)
        /\ DOMAIN custody_events = 1 .. n - 1
        /\ \A i \in 1 .. n - 1 : custody_events[i] \in CustodyEvent
    BY <2>0, LedgerDomain DEF Inv
  <2>4. /\ e \in CustodyEvent /\ e.shipment = s /\ e.from = ctx[r].read.custodian
        /\ e.to = v /\ e.key = k /\ e.signer = u /\ e.request = r
    BY <2>1, <2>2 DEF NewEvent, CustodyEvent
  <2>5. /\ custody_events' \in Seq(CustodyEvent)
        /\ Len(custody_events') = n /\ DOMAIN custody_events' = 1 .. n
        /\ custody_events'[n] = e
        /\ \A i \in 1 .. n - 1 : custody_events'[i] = custody_events[i]
    <3>1. custody_events' = Append(custody_events, e) /\ custody_events \in Seq(CustodyEvent)
      BY <1>2 DEF HandoffCommit, Record, Inv, LedgerOK
    <3>2. QED
      BY <2>3, <2>4, <3>1, AppendProperties
  <2>6. /\ devices' \in [User -> Key \cup {None}] /\ devices'[u] = k
        /\ \A w \in User : devices[w] # None => devices'[w] = devices[w]
        /\ \A w \in User : w # u => devices'[w] = devices[w]
    <3>1. devices \in [User -> Key \cup {None}]
      BY DEF Inv, TablesOK
    <3>2. CASE ctx[r].bind
      BY <1>2, <2>1, <2>2, <3>1, <3>2 DEF HandoffCommit, Record, Conflict
    <3>3. CASE ~ctx[r].bind
      BY <1>2, <2>1, <2>2, <3>1, <3>3
         DEF HandoffCommit, Record, Inv, HandlerOK, HandoffKnows
    <3>4. QED
      BY <3>2, <3>3
  <2>7. /\ \A p \in Shipment : p # s => shipments'[p] = shipments[p]
        /\ shipments' \in [Shipment -> Row] /\ Present(s)'
        /\ shipments'[s].farmer = shipments[s].farmer
        /\ shipments'[s].custodian \in {shipments[s].custodian, v}
    <3>1. shipments' = [shipments EXCEPT ![s] = Updated(r, "IN_TRANSIT", v)]
      BY <1>2, <2>1 DEF HandoffCommit, Record
    <3>2. QED
      BY <2>1, <2>2, <3>1, UpdateRow DEF Inv, TablesOK, Present, Status
  <2>8. TablesOK'
    BY <2>2, <2>6, <2>7 DEF Inv, TablesOK, Present
  <2>9. Grows(r)
    BY <2>2, <2>3, <2>4, <2>5, <2>6, <2>7 DEF Grows, Present
  <2>10. EventsMatchDevice'
    <3>1. \A i \in 1 .. n - 1 : /\ custody_events[i].key = devices[custody_events[i].signer]
                                /\ custody_events[i].signer \in User
                                /\ custody_events[i].key # None
      BY <2>3, ConstantsAssumption DEF Inv, LedgerOK, EventsMatchDevice, CustodyEvent
    <3>2. QED
      BY <2>3, <2>4, <2>5, <2>6, <3>1 DEF EventsMatchDevice
  <2>11. BindingHasHandoff'
    <3>1. ASSUME NEW w \in User, devices'[w] # None
          PROVE  \E i \in 1 .. n : custody_events'[i].signer = w
      <4>1. CASE w = u
        BY <2>3, <2>4, <2>5, <4>1
      <4>2. CASE w # u
        BY <2>3, <2>5, <2>6, <3>1, <4>2 DEF Inv, LedgerOK, BindingHasHandoff
      <4>3. QED
        BY <4>1, <4>2
    <3>2. QED
      BY <2>5, <3>1 DEF BindingHasHandoff
  <2>12. ProvenanceIsConnected'
    <3>1. ASSUME NEW i \in 1 .. n, NEW p \in Shipment, p = custody_events'[i].shipment
          PROVE  custody_events'[i].from \in Holders(p, i)'
      <4>1. CASE i = n
        BY <2>2, <2>3, <2>4, <2>5, <2>9, <3>1, <4>1, HoldersStay DEF Inv
      <4>2. CASE i # n
        <5>1. i \in 1 .. n - 1 /\ custody_events'[i] = custody_events[i]
          BY <2>3, <2>5, <4>2
        <5>2. Present(p) /\ custody_events[i].from \in Holders(p, i)
          BY <2>3, <3>1, <5>1 DEF Inv, LedgerOK, ProvenanceIsConnected
        <5>3. QED
          BY <2>3, <2>9, <5>1, <5>2, HoldersStay DEF Inv
      <4>3. QED
        BY <4>1, <4>2
    <3>2. ASSUME NEW p \in Shipment
          PROVE  shipments'[p].custodian \in Holders(p, n + 1)'
      <4>1. shipments[p].custodian \in Holders(p, n)
        BY <2>0 DEF Inv, LedgerOK, ProvenanceIsConnected, Holders
      <4>2. CASE Present(p) /\ shipments'[p].custodian = shipments[p].custodian
        BY <2>3, <2>9, <4>1, <4>2, HoldersStay DEF Inv
      <4>3. CASE p = s /\ shipments'[p].custodian = v
        <5>1. n \in 1 .. (n + 1) - 1
          BY <2>3
        <5>2. QED
          BY <2>4, <2>5, <4>3, <5>1, HoldersMember
      <4>4. CASE ~Present(p)
        <5>1. p # s /\ shipments'[p] = shipments[p] /\ shipments[p] = Absent
          BY <2>2, <2>7, <4>4 DEF Inv, TablesOK
        <5>2. QED
          BY <5>1, HoldersMember DEF Absent
      <4>5. QED
        BY <2>7, <4>2, <4>3, <4>4
    <3>3. \A i \in 1 .. n : custody_events'[i].shipment \in Shipment
      BY <2>3, <2>4, <2>5 DEF CustodyEvent
    <3>4. (\A i \in 1 .. n :
             custody_events[i].from \in Holders(custody_events[i].shipment, i))'
      BY <3>1, <3>3 DEF Holders
    <3>5. (\A p \in Shipment :
             shipments[p].custodian \in Holders(p, Len(custody_events) + 1))'
      BY <2>5, <3>2 DEF Holders
    <3>6. QED
      BY <2>5, <3>4, <3>5 DEF ProvenanceIsConnected
  <2>13. LedgerOK'
    <3>1. (\A i \in 1 .. n : Present(custody_events[i].shipment))'
      <4>1. \A i \in 1 .. n - 1 : /\ custody_events[i].shipment \in Shipment
                                  /\ Present(custody_events[i].shipment)
        BY <2>3 DEF Inv, LedgerOK, CustodyEvent
      <4>2. QED
        BY <2>3, <2>4, <2>5, <2>7, <4>1 DEF Present
    <3>2. \A i \in 1 .. n - 1 : custody_events[i].request # r
      BY <2>2, <2>3 DEF EventsOf
    <3>3. \A i, j \in 1 .. n :
            custody_events'[i].request = custody_events'[j].request => i = j
      BY <2>3, <2>4, <2>5, <3>2 DEF Inv, LedgerOK
    <3>4. QED
      BY <2>5, <2>10, <2>11, <2>12, <3>1, <3>3 DEF LedgerOK
  <2>14. MessagesOK'
    BY <2>2, <2>9, MessagesStay DEF Inv
  <2>15. EventsOf(r)' # {}
    BY <2>3, <2>4, <2>5 DEF EventsOf
  <2>16. CASE Goto(r, "handoff_publish")
    <3>1. /\ pc'[r] = "handoff_publish" /\ reply' = reply /\ ControlOK'
          /\ \A q \in Request : q # r => pc'[q] = pc[q]
      BY <2>2, <2>16, GotoMoves DEF Inv, ControlOK, Step
    <3>2. OneCreator'
      BY <2>2, <3>1, CreatorsStay DEF Inv, Creating
    <3>3. HandoffKnows(r)'
      <4>1. PICK w \in User : w = ctx[r].read.custodian
        BY <2>2
      <4>2. w \in Holders(s, n + 1)'
        BY <2>2, <2>3, <2>9, <4>1, HoldersStay DEF Inv
      <4>3. /\ ctx[r].read.status # "absent"
            /\ ctx[r].read.custodian = ctx[r].user \/ ctx[r].user \in Admin
        BY <2>2 DEF Inv, HandlerOK, HandoffKnows
      <4>4. (ctx[r].read.custodian \in Holders(ctx[r].shipment, Len(custody_events) + 1))'
        BY <2>1, <2>2, <2>5, <4>1, <4>2 DEF Holders
      <4>5. (\E i \in DOMAIN custody_events :
               /\ custody_events[i].request = r
               /\ custody_events[i].shipment = ctx[r].shipment
               /\ custody_events[i].from = ctx[r].read.custodian
               /\ custody_events[i].to = ctx[r].to)'
        <5>1. n \in 1 .. n
          BY <2>3
        <5>2. QED
          BY <2>1, <2>2, <2>4, <2>5, <5>1
      <4>6. /\ ctx' = ctx /\ Present(s)'
            /\ ctx[r].shipment = s /\ ctx[r].user \in User /\ ctx[r].to \in User
            /\ ctx[r].key \in Key /\ ctx[r].read.custodian \in User
        BY <2>1, <2>2, <2>7
      <4>7. QED
        BY <3>1, <4>3, <4>4, <4>5, <4>6 DEF HandoffKnows, Present
    <3>4. HandlerOK(r)'
      BY <2>2, <2>15, <3>1, <3>3 DEF Inv, HandlerOK, CreateKnows, EscrowKnows, AnswerKnows,
                                Creating
    <3>5. QED
      BY <2>2, <2>8, <2>9, <2>13, <2>14, <3>1, <3>2, <3>4, StepKeeps
  <2>17. CASE Return(r, "500")
    <3>1. /\ pc'[r] = "done" /\ reply'[r] = "500" /\ ControlOK'
          /\ \A q \in Request : q # r => pc'[q] = pc[q] /\ reply'[q] = reply[q]
      BY <2>2, <2>17, ReturnMoves DEF Inv, ControlOK, Answer
    <3>2. OneCreator'
      BY <2>2, <3>1, CreatorsStay DEF Inv, Creating
    <3>3. HandlerOK(r)'
      BY <3>1 DEF HandlerOK, CreateKnows, HandoffKnows, EscrowKnows, AnswerKnows, Creating
    <3>4. QED
      BY <2>2, <2>8, <2>9, <2>13, <2>14, <3>1, <3>2, <3>3, StepKeeps
  <2>18. QED
    BY <2>2, <2>16, <2>17
<1>3. QED
  BY <1>1, <1>2

LEMMA HandoffPublishKeeps ==
    ASSUME Inv, NEW r \in Request, HandoffPublish(r)
    PROVE  Inv'
<1>1. /\ ctx[r].shipment \in Shipment /\ ctx[r].to \in User /\ Present(ctx[r].shipment)
      /\ ctx[r].read.custodian \in User
      /\ \E i \in DOMAIN custody_events :
            /\ custody_events[i].request = r
            /\ custody_events[i].shipment = ctx[r].shipment
            /\ custody_events[i].from = ctx[r].read.custodian
            /\ custody_events[i].to = ctx[r].to
  BY DEF HandoffPublish, Inv, HandlerOK, HandoffKnows
<1>2. EventsOf(r) # {}
  BY <1>1 DEF EventsOf
<1>3. QED
  BY <1>1, <1>2, PublishKeeps DEF HandoffPublish

-----------------------------------------------------------------------------
(* init_escrow *)

LEMMA SubmitEscrowKeeps ==
    ASSUME Inv, NEW r \in Request, NEW s \in Shipment, NEW v \in User,
           SubmitEscrow(r, s, v)
    PROVE  Inv'
<1>1. /\ ctx' \in [Request -> Context]
      /\ ctx'[r].shipment = s /\ ctx'[r].to = v
      /\ \A q \in Request : q # r => ctx'[q] = ctx[q]
  BY DEF SubmitEscrow, Inv, ControlOK, Context
<1>2. /\ pc'[r] = "escrow_select" /\ \A q \in Request : q # r => pc'[q] = pc[q]
  BY GotoMoves DEF SubmitEscrow, Inv, Step
<1>3. OneCreator'
  BY <1>1, <1>2, CreatorsStay DEF Inv, Creating
<1>4. CreateKnows(r)' /\ HandoffKnows(r)' /\ EscrowKnows(r)'
  BY <1>1, <1>2 DEF CreateKnows, HandoffKnows, EscrowKnows, Creating
<1>5. QED
  BY <1>1, <1>3, <1>4, GoesOn DEF SubmitEscrow, Inv, TablesOK, Step

LEMMA EscrowSelectKeeps ==
    ASSUME Inv, NEW r \in Request, EscrowSelect(r)
    PROVE  Inv'
<1>1. PICK s \in Shipment : s = ctx[r].shipment
  BY DEF EscrowSelect, Inv, HandlerOK, EscrowKnows
<1>2. /\ ctx' = [ctx EXCEPT ![r] = [@ EXCEPT !.read = shipments[s]]]
      /\ pc[r] = "escrow_select" /\ UNCHANGED <<tables, objects, published, crashes>>
      /\ objects' \subseteq Shipment
  BY <1>1 DEF EscrowSelect, Inv, TablesOK
<1>3. /\ ctx' \in [Request -> Context]
      /\ \A q \in Request : q # r => ctx'[q] = ctx[q]
      /\ \A q \in Request : ctx'[q].shipment = ctx[q].shipment
      /\ ctx'[r].read = shipments[s] /\ ctx'[r].to = ctx[r].to
  BY <1>2, ReadRow
<1>4. CASE Goto(r, "escrow_commit") /\ Present(s)
  <2>1. /\ pc'[r] = "escrow_commit" /\ \A q \in Request : q # r => pc'[q] = pc[q]
    BY <1>4, GotoMoves DEF Inv, Step
  <2>2. OneCreator'
    BY <1>3, <2>1, CreatorsStay DEF Inv, Creating
  <2>3. CreateKnows(r)' /\ HandoffKnows(r)'
    BY <2>1 DEF CreateKnows, HandoffKnows, Creating
  <2>4. EscrowKnows(r)'
    BY <1>1, <1>2, <1>3, <1>4, <2>1
       DEF Inv, TablesOK, HandlerOK, EscrowKnows, Present, tables
  <2>5. QED
    BY <1>2, <1>3, <1>4, <2>2, <2>3, <2>4, GoesOn DEF Step
<1>5. CASE Return(r, "404")
  BY <1>2, <1>3, <1>5, GivesUp
<1>6. QED
  BY <1>1, <1>4, <1>5 DEF EscrowSelect, Present

\* Whatever the row has become since it was read, its custodian is left alone.
LEMMA EscrowRow ==
    ASSUME TablesOK, NEW s \in Shipment, Present(s), NEW r \in Request,
           ctx[r].shipment = s
    PROVE  LET row == Updated(r, "ESCROW_PENDING", ctx[r].read.custodian)
           IN  /\ row \in Row /\ row.status # "absent"
               /\ row.farmer = shipments[s].farmer
               /\ row.custodian = shipments[s].custodian
<1>1. shipments[s] \in Row /\ shipments[s].status # "absent"
  BY DEF TablesOK, Present
<1>2. QED
  BY <1>1 DEF Updated, Row, Status

LEMMA EscrowCommitKeeps ==
    ASSUME Inv, NEW r \in Request, EscrowCommit(r)
    PROVE  Inv'
<1>1. PICK s \in Shipment : s = ctx[r].shipment
  BY DEF EscrowCommit, Inv, HandlerOK, EscrowKnows
<1>2. /\ pc[r] = "escrow_commit" /\ Present(s)
      /\ UNCHANGED <<devices, custody_events, objects, published, ctx, crashes>>
      /\ Goto(r, "escrow_publish") \/ Return(r, "500")
      /\ EventsOf(r) = {} /\ EventsOf(r)' = {}
  BY <1>1 DEF EscrowCommit, Committed, Inv, HandlerOK, EscrowKnows, AnswerKnows, EventsOf
<1>3. /\ \A p \in Shipment : p # s => shipments'[p] = shipments[p]
      /\ shipments' \in [Shipment -> Row] /\ Present(s)'
      /\ shipments'[s].farmer = shipments[s].farmer
      /\ shipments'[s].custodian = shipments[s].custodian
  <2>1. shipments' = [shipments EXCEPT ![s] =
                        Updated(r, "ESCROW_PENDING", ctx[r].read.custodian)]
    BY <1>1 DEF EscrowCommit
  <2>2. QED
    BY <1>1, <1>2, <2>1, EscrowRow DEF Inv, TablesOK, Present
<1>4. TablesOK'
  BY <1>2, <1>3 DEF Inv, TablesOK, Present
<1>5. Grows(r)
  BY <1>2, <1>3, LedgerDomain DEF Inv, Grows, Present
<1>6. LedgerOK'
  <2>1. \A n : \A p \in Shipment : Holders(p, n)' = Holders(p, n)
    BY <1>2, <1>3 DEF Holders
  <2>2. \A i \in DOMAIN custody_events : custody_events[i].shipment \in Shipment
    BY LedgerDomain DEF Inv, CustodyEvent
  <2>3. ASSUME NEW i \in DOMAIN custody_events
        PROVE  (custody_events[i].from \in Holders(custody_events[i].shipment, i))'
    <3>1. custody_events[i].from \in Holders(custody_events[i].shipment, i)
      BY DEF Inv, LedgerOK, ProvenanceIsConnected
    <3>2. PICK p \in Shipment : p = custody_events[i].shipment
      BY <2>2
    <3>3. Holders(p, i)' = Holders(p, i)
      BY <2>1
    <3>4. Holders(custody_events[i].shipment, i)' = Holders(p, i)'
      BY <1>2, <3>2 DEF Holders
    <3>5. QED
      BY <1>2, <3>1, <3>2, <3>3, <3>4
  <2>4. ASSUME NEW p \in Shipment
        PROVE  (shipments[p].custodian \in Holders(p, Len(custody_events) + 1))'
    <3>1. shipments[p].custodian \in Holders(p, Len(custody_events) + 1)
      BY DEF Inv, LedgerOK, ProvenanceIsConnected
    <3>2. Holders(p, Len(custody_events) + 1)' = Holders(p, Len(custody_events) + 1)
      BY <1>2, <1>3 DEF Holders
    <3>3. QED
      BY <1>3, <3>1, <3>2
  <2>5. ProvenanceIsConnected'
    BY <1>2, <2>3, <2>4 DEF ProvenanceIsConnected
  <2>6. QED
    BY <1>2, <1>3, <2>2, <2>5
       DEF Inv, LedgerOK, EventsMatchDevice, BindingHasHandoff, Present
<1>7. MessagesOK'
  BY <1>2, <1>5, MessagesStay DEF Inv
<1>8. CASE Goto(r, "escrow_publish")
  <2>1. /\ pc'[r] = "escrow_publish" /\ reply' = reply /\ ControlOK'
        /\ \A q \in Request : q # r => pc'[q] = pc[q]
    BY <1>2, <1>8, GotoMoves DEF Inv, ControlOK, Step
  <2>2. OneCreator'
    BY <1>2, <2>1, CreatorsStay DEF Inv, Creating
  <2>3. HandlerOK(r)'
    BY <1>1, <1>2, <1>3, <2>1
       DEF Inv, HandlerOK, CreateKnows, HandoffKnows, EscrowKnows, AnswerKnows,
           Creating, Present
  <2>4. QED
    BY <1>2, <1>4, <1>5, <1>6, <1>7, <2>1, <2>2, <2>3, StepKeeps
<1>9. CASE Return(r, "500")
  <2>1. /\ pc'[r] = "done" /\ reply'[r] = "500" /\ ControlOK'
        /\ \A q \in Request : q # r => pc'[q] = pc[q] /\ reply'[q] = reply[q]
    BY <1>2, <1>9, ReturnMoves DEF Inv, ControlOK, Answer
  <2>2. OneCreator'
    BY <1>2, <2>1, CreatorsStay DEF Inv, Creating
  <2>3. HandlerOK(r)'
    BY <2>1 DEF HandlerOK, CreateKnows, HandoffKnows, EscrowKnows, AnswerKnows, Creating
  <2>4. QED
    BY <1>2, <1>4, <1>5, <1>6, <1>7, <2>1, <2>2, <2>3, StepKeeps
<1>10. QED
  BY <1>2, <1>8, <1>9

LEMMA EscrowPublishKeeps ==
    ASSUME Inv, NEW r \in Request, EscrowPublish(r)
    PROVE  Inv'
<1>1. /\ ctx[r].shipment \in Shipment /\ ctx[r].to \in User /\ Present(ctx[r].shipment)
      /\ ctx[r].read.farmer \in User
  BY DEF EscrowPublish, Inv, HandlerOK, EscrowKnows
<1>2. QED
  BY <1>1, PublishKeeps DEF EscrowPublish

-----------------------------------------------------------------------------
(* The invariant *)

LEMMA DbErrorKeeps ==
    ASSUME Inv, NEW r \in Request, DbError(r)
    PROVE  Inv'
<1>1. ctx' \in [Request -> Context] /\ objects' \subseteq Shipment
  BY DEF DbError, Inv, ControlOK, TablesOK
<1>2. QED
  BY <1>1, GivesUp DEF DbError

LEMMA CrashKeeps ==
    ASSUME Inv, Crash
    PROVE  Inv'
<1>1. /\ UNCHANGED <<tables, objects, published, ctx>>
      /\ pc' = [r \in Request |-> IF pc[r] = "new" THEN "new" ELSE "done"]
      /\ reply' = [r \in Request |->
                     IF pc[r] \in {"new", "done"} THEN reply[r] ELSE "lost"]
      /\ crashes' = crashes + 1
  BY DEF Crash
<1>2. ControlOK'
  BY <1>1 DEF Inv, ControlOK, Step, Answer
<1>3. TablesOK' /\ LedgerOK'
  BY <1>1, QuietTables DEF Inv, TablesOK
<1>4. MessagesOK'
  BY <1>1 DEF Inv, MessagesOK, MessagesAreTrue, tables
<1>5. OneCreator'
  BY <1>1 DEF OneCreator, Creating
<1>6. ASSUME NEW r \in Request PROVE HandlerOK(r)'
  <2>1. \/ pc'[r] = "new" /\ reply'[r] = reply[r]
        \/ pc'[r] = "done" /\ reply'[r] \in {"lost", reply[r]}
    BY <1>1
  <2>2. EventsOf(r)' = EventsOf(r)
    BY <1>1 DEF EventsOf, tables
  <2>3. (pc[r] = "new") = (pc'[r] = "new")
    BY <1>1
  <2>4. QED
    BY <2>1, <2>2, <2>3 DEF Inv, HandlerOK, CreateKnows, HandoffKnows, EscrowKnows, AnswerKnows,
                     Creating
<1>7. QED
  BY <1>2, <1>3, <1>4, <1>5, <1>6 DEF Inv

LEMMA InitInv == Init => Inv
<1> SUFFICES ASSUME Init PROVE Inv
  OBVIOUS
<1>1. TablesOK
  BY DEF Init, TablesOK, Absent, Row, Status, Present
<1>2. LedgerOK
  <2>1. custody_events \in Seq(CustodyEvent) /\ DOMAIN custody_events = {}
        /\ Len(custody_events) = 0
    BY DEF Init
  <2>2. \A s \in Shipment : shipments[s].custodian \in Holders(s, Len(custody_events) + 1)
    BY DEF Init, Holders, Absent
  <2>3. QED
    BY <2>1, <2>2 DEF Init, LedgerOK, EventsMatchDevice, BindingHasHandoff,
                      ProvenanceIsConnected
<1>3. MessagesOK
  BY DEF Init, MessagesOK, MessagesAreTrue
<1>4. ControlOK
  BY DEF Init, ControlOK, Step, Answer, Blank, Context, Absent, Row, Status
<1>5. OneCreator
  BY DEF Init, OneCreator, Creating
<1>6. \A r \in Request : HandlerOK(r)
  BY DEF Init, HandlerOK, CreateKnows, HandoffKnows, EscrowKnows, AnswerKnows,
         Creating, EventsOf
<1>7. QED
  BY <1>1, <1>2, <1>3, <1>4, <1>5, <1>6 DEF Inv

LEMMA NextInv == Inv /\ [Next]_vars => Inv'
<1> SUFFICES ASSUME Inv, [Next]_vars PROVE Inv'
  OBVIOUS
<1>1. ASSUME NEW r \in Request, Submit(r) PROVE Inv'
  BY <1>1, SubmitCreateKeeps, SubmitHandoffKeeps, SubmitEscrowKeeps DEF Submit
<1>2. ASSUME NEW r \in Request, Create(r) PROVE Inv'
  BY <1>2, PrecheckKeeps, UploadKeeps, InsertKeeps, RefreshKeeps, CreatedPublishKeeps
     DEF Create
<1>3. ASSUME NEW r \in Request, Handoff(r) PROVE Inv'
  BY <1>3, HandoffSelectKeeps, DeviceSelectKeeps, HandoffCommitKeeps, HandoffPublishKeeps
     DEF Handoff
<1>4. ASSUME NEW r \in Request, Escrow(r) PROVE Inv'
  BY <1>4, EscrowSelectKeeps, EscrowCommitKeeps, EscrowPublishKeeps DEF Escrow
<1>5. ASSUME UNCHANGED vars PROVE Inv'
  <2>1. UNCHANGED <<tables, objects, published, pc, ctx, reply, crashes>>
    BY <1>5 DEF vars, tables
  <2>2. TablesOK' /\ LedgerOK'
    BY <2>1, QuietTables DEF Inv, TablesOK
  <2>3. MessagesOK' /\ ControlOK' /\ OneCreator'
    BY <2>1 DEF Inv, MessagesOK, MessagesAreTrue, ControlOK, OneCreator, Creating, tables
  <2>4. \A r \in Request : HandlerOK(r)'
    BY <2>1 DEF Inv, HandlerOK, CreateKnows, HandoffKnows, EscrowKnows, AnswerKnows,
                Creating, EventsOf, Holders, Present, tables
  <2>5. QED
    BY <2>2, <2>3, <2>4 DEF Inv
<1>6. QED
  BY <1>1, <1>2, <1>3, <1>4, <1>5, DbErrorKeeps, CrashKeeps DEF Next, Serve


-----------------------------------------------------------------------------
(* The row of a shipment and its events *)

HasLeft == {"IN_TRANSIT", "ESCROW_PENDING"}

\* A handler of custody_handoff between its SELECT and its commit.
HandingOver(r) == pc[r] \in {"device_select", "handoff_commit"}

\* A shipment that was read in transit has not gone back to CREATED.
ReadHasLeft ==
    \A r \in Request : HandingOver(r) /\ ctx[r].read.status = "IN_TRANSIT" =>
        shipments[ctx[r].shipment].status \in HasLeft

RowInv == RowFollowsLedger /\ ReadHasLeft

\* Every step either leaves the tables of shipments and events alone or is one of the
\* three that write them.
LEMMA RowWriters ==
    ASSUME [Next]_vars
    PROVE  \/ UNCHANGED <<shipments, custody_events>>
           \/ \E r \in Request : Insert(r) \/ HandoffCommit(r) \/ EscrowCommit(r)
<1>1. ASSUME NEW r \in Request, Submit(r) PROVE UNCHANGED <<shipments, custody_events>>
  BY <1>1 DEF Submit, SubmitCreate, SubmitHandoff, SubmitEscrow, tables
<1>2. ASSUME NEW r \in Request, Create(r)
      PROVE  UNCHANGED <<shipments, custody_events>> \/ Insert(r)
  BY <1>2 DEF Create, Precheck, Upload, Refresh, CreatedPublish, tables
<1>3. ASSUME NEW r \in Request, Handoff(r)
      PROVE  UNCHANGED <<shipments, custody_events>> \/ HandoffCommit(r)
  BY <1>3 DEF Handoff, HandoffSelect, DeviceSelect, HandoffPublish, tables
<1>4. ASSUME NEW r \in Request, Escrow(r)
      PROVE  UNCHANGED <<shipments, custody_events>> \/ EscrowCommit(r)
  BY <1>4 DEF Escrow, EscrowSelect, EscrowPublish, tables
<1>5. ASSUME NEW r \in Request, DbError(r) PROVE UNCHANGED <<shipments, custody_events>>
  BY <1>5 DEF DbError, tables
<1>6. Crash => UNCHANGED <<shipments, custody_events>>
  BY DEF Crash, tables
<1>7. UNCHANGED vars => UNCHANGED <<shipments, custody_events>>
  BY DEF vars
<1>8. QED
  BY <1>1, <1>2, <1>3, <1>4, <1>5, <1>6, <1>7 DEF Next, Serve

\* A handler is handing over because it was, with the row it had read, or because it
\* has just read the row.
ReadOf(q) ==
    HandingOver(q)' =>
        \/ HandingOver(q) /\ ctx'[q].shipment = ctx[q].shipment /\ ctx'[q].read = ctx[q].read
        \/ /\ ctx'[q].shipment = ctx[q].shipment /\ shipments' = shipments
           /\ ctx'[q].read = shipments[ctx[q].shipment] /\ pc[q] = "handoff_select"

LEMMA GoesElsewhere ==
    ASSUME ControlOK, NEW r \in Request, NEW q \in Request,
           \/ \E step \in Step \ {"device_select", "handoff_commit"} : Goto(r, step)
           \/ \E answer \in Answer : Return(r, answer),
           \A p \in Request : p # r => ctx'[p] = ctx[p]
    PROVE  ReadOf(q)
  BY DEF ControlOK, Goto, Return, ReadOf, HandingOver

LEMMA ReadsAre ==
    ASSUME Inv, [Next]_vars, NEW q \in Request
    PROVE  ReadOf(q)
<1> USE DEF Inv
<1>0. ctx \in [Request -> Context] /\ pc \in [Request -> Step]
  BY DEF ControlOK
<1>1. ASSUME NEW r \in Request, Submit(r) PROVE ReadOf(q)
  BY <1>0, <1>1, GoesElsewhere DEF Submit, SubmitCreate, SubmitHandoff, SubmitEscrow, Step
<1>2. ASSUME NEW r \in Request, Create(r) PROVE ReadOf(q)
  BY <1>0, <1>2, GoesElsewhere
     DEF Create, Precheck, Upload, Insert, Refresh, CreatedPublish, PublishAndReturn,
         Committed, Step, Answer
<1>3. ASSUME NEW r \in Request, HandoffSelect(r) PROVE ReadOf(q)
  <2>1. CASE q = r
    BY <1>0, <1>3, <2>1 DEF HandoffSelect, ReadOf, HandingOver, Goto, Return, tables, Context
  <2>2. CASE q # r
    BY <1>0, <1>3, <2>2 DEF HandoffSelect, ReadOf, HandingOver, Goto, Return
  <2>3. QED
    BY <2>1, <2>2
<1>4. ASSUME NEW r \in Request, DeviceSelect(r) PROVE ReadOf(q)
  <2>1. CASE q = r
    BY <1>0, <1>4, <2>1 DEF DeviceSelect, ReadOf, HandingOver, Goto, Return, Context
  <2>2. CASE q # r
    BY <1>0, <1>4, <2>2 DEF DeviceSelect, ReadOf, HandingOver, Goto, Return
  <2>3. QED
    BY <2>1, <2>2
<1>5. ASSUME NEW r \in Request, HandoffCommit(r) \/ HandoffPublish(r) PROVE ReadOf(q)
  BY <1>0, <1>5, GoesElsewhere
     DEF HandoffCommit, HandoffPublish, PublishAndReturn, Committed, Step, Answer
<1>6. ASSUME NEW r \in Request, Escrow(r) PROVE ReadOf(q)
  BY <1>0, <1>6, GoesElsewhere
     DEF Escrow, EscrowSelect, EscrowCommit, EscrowPublish, PublishAndReturn, Committed,
         Step, Answer
<1>7. ASSUME NEW r \in Request, DbError(r) PROVE ReadOf(q)
  BY <1>0, <1>7, GoesElsewhere DEF DbError, Answer
<1>8. Crash => ReadOf(q)
  BY <1>0 DEF Crash, ReadOf, HandingOver
<1>9. UNCHANGED vars => ReadOf(q)
  BY DEF vars, ReadOf, HandingOver
<1>10. QED
  BY <1>1, <1>2, <1>3, <1>4, <1>5, <1>6, <1>7, <1>8, <1>9 DEF Next, Serve, Handoff

\* What the commit of init_escrow leaves of a row.
LEMMA EscrowLeaves ==
    ASSUME Inv, NEW r \in Request, EscrowCommit(r), NEW s \in Shipment
    PROVE  /\ UNCHANGED custody_events
           /\ shipments'[s].farmer = shipments[s].farmer
           /\ shipments'[s].custodian = shipments[s].custodian
           /\ shipments'[s].status \in {shipments[s].status, "ESCROW_PENDING"}
<1>1. PICK t \in Shipment : t = ctx[r].shipment /\ Present(t)
  BY DEF EscrowCommit, Inv, HandlerOK, EscrowKnows
<1>2. PICK row : row = Updated(r, "ESCROW_PENDING", ctx[r].read.custodian)
  OBVIOUS
<1>3. /\ shipments' = [shipments EXCEPT ![t] = row] /\ UNCHANGED custody_events
      /\ shipments \in [Shipment -> Row]
  BY <1>1, <1>2 DEF EscrowCommit, Inv, TablesOK
<1>4. /\ row.farmer = shipments[t].farmer /\ row.custodian = shipments[t].custodian
  BY <1>1, <1>2, EscrowRow DEF Inv
<1>5. row.status \in {shipments[t].status, "ESCROW_PENDING"}
  BY <1>1, <1>2, <1>3 DEF Updated, Row
<1>6. QED
  BY <1>1, <1>3, <1>4, <1>5

\* What a handoff writes, with the shipment, the previous and the new custodian.
LEMMA HandoffLeaves ==
    ASSUME Inv, NEW r \in Request, HandoffCommit(r), ~Conflict(r)
    PROVE  \E s \in Shipment, n \in Nat, e \in CustodyEvent, row \in Row :
              /\ s = ctx[r].shipment /\ Present(s) /\ n = Len(custody_events) + 1
              /\ shipments' = [shipments EXCEPT ![s] = row]
              /\ row.farmer = shipments[s].farmer
              /\ row.custodian = IF e.to = e.from THEN shipments[s].custodian ELSE e.to
              /\ row.status = IF ctx[r].read.status = "IN_TRANSIT"
                              THEN shipments[s].status ELSE "IN_TRANSIT"
              /\ e.shipment = s
              /\ DOMAIN custody_events = 1 .. n - 1 /\ DOMAIN custody_events' = 1 .. n
              /\ custody_events'[n] = e
              /\ \A i \in 1 .. n - 1 : custody_events'[i] = custody_events[i]
<1>1. PICK s \in Shipment, u \in User, from \in User, to \in User, k \in Key :
        /\ s = ctx[r].shipment /\ u = ctx[r].user /\ from = ctx[r].read.custodian
        /\ to = ctx[r].to /\ k = ctx[r].key
  BY DEF HandoffCommit, Inv, HandlerOK, HandoffKnows
<1>2. Record(r) /\ Present(s) /\ shipments \in [Shipment -> Row]
  BY <1>1 DEF HandoffCommit, Inv, TablesOK, HandlerOK, HandoffKnows
<1>3. PICK e \in CustodyEvent :
        e = NewEvent(r) /\ e.shipment = s /\ e.from = from /\ e.to = to
  <2>1. NewEvent(r) = [shipment |-> s, from |-> from, to |-> to, key |-> k,
                       signer |-> u, request |-> r]
    BY <1>1 DEF NewEvent
  <2>2. NewEvent(r) \in CustodyEvent
    BY <2>1 DEF CustodyEvent
  <2>3. QED
    BY <2>1, <2>2
<1>4. PICK n \in Nat : n = Len(custody_events) + 1
  BY LedgerDomain DEF Inv
<1>5. /\ DOMAIN custody_events = 1 .. n - 1 /\ DOMAIN custody_events' = 1 .. n
      /\ custody_events'[n] = e
      /\ \A i \in 1 .. n - 1 : custody_events'[i] = custody_events[i]
  <2>1. custody_events' = Append(custody_events, e) /\ custody_events \in Seq(CustodyEvent)
    BY <1>2, <1>3 DEF Record, Inv, LedgerOK
  <2>2. QED
    BY <1>4, <2>1, LedgerDomain, AppendProperties DEF Inv
<1>6. PICK row \in Row :
        /\ row = Updated(r, "IN_TRANSIT", to) /\ row.farmer = shipments[s].farmer
        /\ row.custodian = IF to = from THEN shipments[s].custodian ELSE to
  BY <1>1, <1>2, UpdateRow DEF Inv, Status
<1>7. row.status = IF ctx[r].read.status = "IN_TRANSIT"
                   THEN shipments[s].status ELSE "IN_TRANSIT"
  BY <1>1, <1>2, <1>6 DEF Updated, Row
<1>8. shipments' = [shipments EXCEPT ![s] = row]
  BY <1>1, <1>2, <1>6 DEF Record
<1>9. row.custodian = IF e.to = e.from THEN shipments[s].custodian ELSE e.to
  BY <1>3, <1>6
<1>10. WITNESS s \in Shipment, n \in Nat, e \in CustodyEvent, row \in Row
<1>11. s = ctx[r].shipment /\ Present(s) /\ n = Len(custody_events) + 1
  BY <1>1, <1>2, <1>4
<1>12. e.shipment = s /\ row.farmer = shipments[s].farmer
  BY <1>3, <1>6
<1>13. QED
  BY <1>5, <1>7, <1>8, <1>9, <1>11, <1>12

\* A shipment never goes back to CREATED.
LEMMA LeftStays ==
    ASSUME Inv, [Next]_vars, NEW s \in Shipment, shipments[s].status \in HasLeft
    PROVE  shipments'[s].status \in HasLeft
<1>1. ASSUME NEW r \in Request, Insert(r) PROVE shipments'[s].status \in HasLeft
  <2>1. ctx[r].shipment # s
    BY <1>1 DEF Insert, Inv, HandlerOK, CreateKnows, Creating, Present, HasLeft
  <2>2. QED
    BY <1>1, <2>1 DEF Insert, Inv, TablesOK
<1>2. ASSUME NEW r \in Request, EscrowCommit(r) PROVE shipments'[s].status \in HasLeft
  BY <1>2, EscrowLeaves DEF HasLeft
<1>3. ASSUME NEW r \in Request, HandoffCommit(r) PROVE shipments'[s].status \in HasLeft
  <2>1. CASE Conflict(r)
    BY <1>3, <2>1 DEF HandoffCommit, tables
  <2>2. CASE ~Conflict(r)
    <3>1. PICK t \in Shipment, row \in Row :
            /\ shipments' = [shipments EXCEPT ![t] = row]
            /\ row.status \in {shipments[t].status, "IN_TRANSIT"}
      BY <1>3, <2>2, HandoffLeaves
    <3>2. QED
      BY <3>1 DEF HasLeft, Inv, TablesOK
  <2>3. QED
    BY <2>1, <2>2
<1>4. QED
  BY <1>1, <1>2, <1>3, RowWriters

LEMMA ReadsHaveLeft ==
    ASSUME Inv, ReadHasLeft, [Next]_vars
    PROVE  ReadHasLeft'
<1> SUFFICES ASSUME NEW q \in Request, HandingOver(q)', ctx'[q].read.status = "IN_TRANSIT"
             PROVE  shipments'[ctx'[q].shipment].status \in HasLeft
  BY DEF ReadHasLeft
<1>1. CASE /\ HandingOver(q) /\ ctx'[q].shipment = ctx[q].shipment
           /\ ctx'[q].read = ctx[q].read
  <2>1. ctx[q].shipment \in Shipment
    BY <1>1 DEF Inv, HandlerOK, HandoffKnows, HandingOver
  <2>2. QED
    BY <1>1, <2>1, LeftStays DEF ReadHasLeft
<1>2. CASE /\ ctx'[q].shipment = ctx[q].shipment /\ shipments' = shipments
           /\ ctx'[q].read = shipments[ctx[q].shipment]
  BY <1>2 DEF HasLeft
<1>3. QED
  BY <1>1, <1>2, ReadsAre DEF ReadOf

\* A row is where its events lead, whether or not there are any.
Follows(s) ==
    /\ \/ Transfers(s) = {} /\ shipments[s].custodian = shipments[s].farmer
       \/ \E i \in Transfers(s) :
             /\ \A j \in Transfers(s) : j <= i
             /\ shipments[s].custodian = custody_events[i].to
    /\ \A i \in DOMAIN custody_events :
          custody_events[i].shipment = s => shipments[s].status \in HasLeft

LEMMA FollowsAll == RowFollowsLedger <=> \A s \in Shipment : Follows(s)
  BY DEF RowFollowsLedger, Follows, HasLeft

\* The row and its events stay.
LEMMA StillFollows ==
    ASSUME NEW s \in Shipment, Follows(s), UNCHANGED custody_events,
           shipments'[s].farmer = shipments[s].farmer,
           shipments'[s].custodian = shipments[s].custodian,
           shipments'[s].status \in HasLeft \cup {shipments[s].status}
    PROVE  Follows(s)'
  BY DEF Follows, Transfers

LEMMA InsertFollows ==
    ASSUME Inv, RowInv, NEW r \in Request, Insert(r), NEW s \in Shipment
    PROVE  Follows(s)'
<1>1. PICK t \in Shipment, u \in User :
        /\ t = ctx[r].shipment /\ ~Present(t) /\ UNCHANGED custody_events
        /\ shipments' = [shipments EXCEPT ![t] =
                           [status |-> "CREATED", farmer |-> u, custodian |-> u]]
  BY DEF Insert, Inv, HandlerOK, CreateKnows, Creating
<1>2. CASE s = t
  <2>1. \A i \in DOMAIN custody_events : custody_events[i].shipment # s
    BY <1>1, <1>2 DEF Inv, LedgerOK
  <2>2. shipments'[s].custodian = shipments'[s].farmer
    BY <1>1, <1>2 DEF Inv, TablesOK
  <2>3. QED
    BY <1>1, <2>1, <2>2 DEF Follows, Transfers
<1>3. CASE s # t
  <2>1. shipments'[s] = shipments[s]
    BY <1>1, <1>3 DEF Inv, TablesOK
  <2>2. QED
    BY <1>1, <2>1, StillFollows, FollowsAll DEF RowInv
<1>4. QED
  BY <1>2, <1>3

LEMMA EscrowCommitFollows ==
    ASSUME Inv, RowInv, NEW r \in Request, EscrowCommit(r), NEW s \in Shipment
    PROVE  Follows(s)'
  BY EscrowLeaves, StillFollows, FollowsAll DEF RowInv, HasLeft

LEMMA HandoffCommitFollows ==
    ASSUME Inv, RowInv, NEW r \in Request, HandoffCommit(r), NEW s \in Shipment
    PROVE  Follows(s)'
<1>0. Follows(s)
  BY FollowsAll DEF RowInv
<1>1. CASE Conflict(r)
  BY <1>0, <1>1, StillFollows DEF HandoffCommit, tables
<1>2. CASE ~Conflict(r)
  <2>1. PICK t \in Shipment, n \in Nat, e \in CustodyEvent, row \in Row :
          /\ t = ctx[r].shipment /\ Present(t)
          /\ shipments' = [shipments EXCEPT ![t] = row]
          /\ row.farmer = shipments[t].farmer
          /\ row.custodian = IF e.to = e.from THEN shipments[t].custodian ELSE e.to
          /\ row.status = IF ctx[r].read.status = "IN_TRANSIT"
                          THEN shipments[t].status ELSE "IN_TRANSIT"
          /\ e.shipment = t
          /\ DOMAIN custody_events = 1 .. n - 1 /\ DOMAIN custody_events' = 1 .. n
          /\ custody_events'[n] = e
          /\ \A i \in 1 .. n - 1 : custody_events'[i] = custody_events[i]
    BY <1>2, HandoffLeaves
  <2>2. n \in DOMAIN custody_events' /\ n \notin DOMAIN custody_events /\ n # 0
    <3>1. n # 0
      BY <1>2, HandoffLeaves, LedgerDomain, <2>1 DEF Inv, HandoffCommit, Record, LedgerOK
    <3>2. QED
      BY <2>1, <3>1
  <2>3. \A i : i \in DOMAIN custody_events' <=> i = n \/ i \in DOMAIN custody_events
    BY <2>1, <2>2
  <2>4. \A i \in DOMAIN custody_events : i <= n /\ custody_events'[i] = custody_events[i]
    BY <2>1
  <2>5. CASE s # t
    <3>1. shipments'[s] = shipments[s]
      BY <2>1, <2>5 DEF Inv, TablesOK
    <3>2. Transfers(s)' = Transfers(s)
      BY <2>1, <2>3, <2>4, <2>5 DEF Transfers
    <3>3. QED
      BY <1>0, <2>1, <2>3, <2>4, <2>5, <3>1, <3>2 DEF Follows, Transfers
  <2>6. CASE s = t
    <3>1. shipments'[s] = row
      BY <2>1, <2>6 DEF Inv, TablesOK
    <3>2. row.status \in HasLeft
      <4>1. pc[r] = "handoff_commit"
        BY DEF HandoffCommit
      <4>2. QED
        BY <2>1, <4>1 DEF RowInv, ReadHasLeft, HandingOver, HasLeft
    <3>3. CASE e.to = e.from
      <4>1. Transfers(s)' = Transfers(s)
        BY <2>1, <2>3, <2>4, <3>3 DEF Transfers
      <4>2. row.custodian = shipments[s].custodian /\ row.farmer = shipments[s].farmer
        BY <2>1, <2>6, <3>3
      <4>3. \A i \in Transfers(s) : custody_events'[i] = custody_events[i]
        BY <2>4 DEF Transfers
      <4>4. QED
        BY <1>0, <3>1, <3>2, <4>1, <4>2, <4>3 DEF Follows
    <3>4. CASE e.to # e.from
      <4>1. n \in Transfers(s)'
        BY <2>1, <2>2, <2>6, <3>4 DEF Transfers
      <4>2. \A j \in Transfers(s)' : j <= n
        BY <2>1 DEF Transfers
      <4>3. row.custodian = custody_events'[n].to
        BY <2>1, <3>4
      <4>4. QED
        BY <3>1, <3>2, <4>1, <4>2, <4>3 DEF Follows
    <3>5. QED
      BY <3>3, <3>4
  <2>7. QED
    BY <2>5, <2>6
<1>3. QED
  BY <1>1, <1>2

LEMMA RowInvStarts == Init => RowInv
<1> SUFFICES ASSUME Init PROVE RowInv
  OBVIOUS
<1>1. \A s \in Shipment : Follows(s)
  BY DEF Init, Follows, Transfers, Absent
<1>2. ReadHasLeft
  BY DEF Init, ReadHasLeft, HandingOver
<1>3. QED
  BY <1>1, <1>2, FollowsAll DEF RowInv

LEMMA RowInvStays == Inv /\ RowInv /\ [Next]_vars => RowInv'
<1> SUFFICES ASSUME Inv, RowInv, [Next]_vars PROVE RowInv'
  OBVIOUS
<1>1. ReadHasLeft'
  BY ReadsHaveLeft DEF RowInv
<1>2. ASSUME NEW s \in Shipment PROVE Follows(s)'
  <2>1. CASE UNCHANGED <<shipments, custody_events>>
    BY <2>1, StillFollows, FollowsAll DEF RowInv
  <2>2. QED
    BY <2>1, RowWriters, InsertFollows, HandoffCommitFollows, EscrowCommitFollows
<1>3. RowFollowsLedger'
  BY <1>2 DEF RowFollowsLedger, Follows, HasLeft
<1>4. QED
  BY <1>1, <1>3 DEF RowInv

-----------------------------------------------------------------------------
(* Theorems *)

\* Whatever the handlers are suspended in, the invariant holds between any two
\* steps of main.py:111-352.
THEOREM ShipmentInvariance == Spec => []Inv
  BY InitInv, NextInv, PTL DEF Spec

\* Every column and message keeps its type: an event names two users and a key, so
\* the row a handler read at main.py:171 or 326 was one the table had.
THEOREM TypesHold == Spec => []TypeOK
<1>1. Inv => TypeOK
  BY DEF Inv, TablesOK, LedgerOK, MessagesOK, ControlOK, TypeOK
<1>2. QED
  BY <1>1, ShipmentInvariance, PTL

\* main.py:202-217: an event was signed with the key registered for its signer, in
\* every interleaving of first handoffs.
THEOREM EventsMatchDevices == Spec => []EventsMatchDevice
<1>1. Inv => EventsMatchDevice
  BY DEF Inv, LedgerOK
<1>2. QED
  BY <1>1, ShipmentInvariance, PTL

\* main.py:227-241: the device, the event and the row of a handoff are written
\* together: no device without a recorded handoff, one event for an accepted handoff and
\* none for a refused one, and a row whose custodian is the one the last event that
\* changed hands names, although handlers write from rows they read earlier.
THEOREM HandoffsAreAtomic == Spec => []HandoffIsAtomic
<1>1. ASSUME Inv, NEW r \in Request PROVE Cardinality(EventsOf(r)) <= 1
  <2>1. CASE EventsOf(r) = {}
    BY <2>1, FS_EmptySet
  <2>2. CASE EventsOf(r) # {}
    <3>1. PICK i : i \in EventsOf(r)
      BY <2>2
    <3>2. EventsOf(r) = {i}
      BY <1>1, <3>1 DEF Inv, LedgerOK, EventsOf
    <3>3. QED
      BY <3>2, FS_Singleton
  <2>3. QED
    BY <2>1, <2>2
<1>2. Inv /\ RowInv => HandoffIsAtomic
  BY <1>1 DEF Inv, LedgerOK, HandlerOK, AnswerKnows, HandoffIsAtomic,
              HandoffIsRecordedOnce, RowInv
<1>3. QED
  BY <1>2, ShipmentInvariance, RowInvStarts, RowInvStays, PTL DEF Spec

\* main.py:121-160: no message and no row runs ahead of what it tells of, although
\* a commit whose acknowledgement is lost stays committed.
THEOREM EffectsBacked == Spec => []EffectsAreBacked
<1>1. Inv => EffectsAreBacked
  BY DEF Inv, TablesOK, MessagesOK, EffectsAreBacked, RowHasManifest, Present
<1>2. QED
  BY <1>1, ShipmentInvariance, PTL

\* main.py:229-236: whoever an event takes the shipment from had come to hold it,
\* although the handler read the custodian in an earlier statement.
THEOREM ProvenanceConnected == Spec => []ProvenanceIsConnected
<1>1. Inv => ProvenanceIsConnected
  BY DEF Inv, LedgerOK
<1>2. QED
  BY <1>1, ShipmentInvariance, PTL

-----------------------------------------------------------------------------
(* The custodian and its event *)

\* A row that was there is left alone, or r hands it over with a new event.
MovesBy(r) ==
    \A s \in Shipment : Present(s) =>
        /\ shipments'[s].farmer = shipments[s].farmer
        /\ shipments'[s].custodian # shipments[s].custodian =>
              /\ EventsOf(r)' # EventsOf(r)
              /\ ctx[r].shipment = s
              /\ ctx[r].to = shipments'[s].custodian

LEMMA InsertMoves ==
    ASSUME Inv, NEW r \in Request, Insert(r)
    PROVE  MovesBy(r)
<1>1. ~Present(ctx[r].shipment)
  BY DEF Insert, Inv, HandlerOK, CreateKnows, Creating
<1>2. QED
  BY <1>1 DEF Insert, MovesBy, Inv, TablesOK

LEMMA HandoffCommitMoves ==
    ASSUME Inv, NEW r \in Request, HandoffCommit(r)
    PROVE  MovesBy(r)
<1>1. CASE UNCHANGED tables
  BY <1>1 DEF MovesBy, tables
<1>2. CASE Record(r)
  <2>1. PICK s \in Shipment : s = ctx[r].shipment
    BY DEF HandoffCommit, Inv, HandlerOK, HandoffKnows
  <2>2. shipments' = [shipments EXCEPT ![s] = Updated(r, "IN_TRANSIT", ctx[r].to)]
    BY <1>2, <2>1 DEF Record
  <2>3. shipments[s] \in Row
    BY DEF Inv, TablesOK
  <2>4. /\ \A p \in Shipment : p # s => shipments'[p] = shipments[p]
        /\ shipments'[s].farmer = shipments[s].farmer
        /\ shipments'[s].custodian \in {shipments[s].custodian, ctx[r].to}
    BY <2>1, <2>2, <2>3 DEF Inv, TablesOK, Updated, Row
  <2>5. PICK e : e = NewEvent(r)
    OBVIOUS
  <2>6. custody_events' = Append(custody_events, e) /\ e.request = r
    BY <1>2, <2>5 DEF Record, NewEvent
  <2>7. Len(custody_events) + 1 \in EventsOf(r)'
    BY <2>6, LedgerDomain DEF Inv, LedgerOK, EventsOf
  <2>8. Len(custody_events) + 1 \notin EventsOf(r)
    BY LedgerDomain DEF Inv, EventsOf
  <2>9. QED
    BY <2>1, <2>4, <2>7, <2>8 DEF MovesBy
<1>3. QED
  BY <1>1, <1>2 DEF HandoffCommit

LEMMA EscrowCommitMoves ==
    ASSUME Inv, NEW r \in Request, EscrowCommit(r)
    PROVE  MovesBy(r)
<1>1. PICK s \in Shipment : s = ctx[r].shipment
  BY DEF EscrowCommit, Inv, HandlerOK, EscrowKnows
<1>2. Present(s)
  BY <1>1 DEF EscrowCommit, Inv, HandlerOK, EscrowKnows
<1>3. shipments' = [shipments EXCEPT ![s] =
                      Updated(r, "ESCROW_PENDING", ctx[r].read.custodian)]
  BY <1>1 DEF EscrowCommit
<1>4. QED
  BY <1>1, <1>2, <1>3, EscrowRow DEF MovesBy, Inv, TablesOK

\* main.py:227-241, 340-342: the custodian of a shipment changes only in the step
\* that adds the event recording it, and to the user that event names; the write of
\* an escrow initiated from a row read earlier does not undo a handoff.
THEOREM CustodyMoves == Spec => CustodyMovesWithEvent
<1> DEFINE Moves ==
      \A s \in Shipment :
         shipments[s].status # "absent" =>
            /\ shipments'[s].farmer = shipments[s].farmer
            /\ shipments'[s].custodian # shipments[s].custodian =>
                 \E r \in Request :
                     /\ EventsOf(r)' # EventsOf(r)
                     /\ ctx[r].shipment = s
                     /\ ctx[r].to = shipments'[s].custodian
<1>1. Inv /\ [Next]_vars => [Moves]_vars
  <2> SUFFICES ASSUME Inv, [Next]_vars PROVE Moves
    OBVIOUS
  <2>1. ASSUME NEW r \in Request, MovesBy(r) PROVE Moves
    BY <2>1 DEF MovesBy, Present
  <2>2. ASSUME shipments' = shipments PROVE Moves
    BY <2>2
  <2>3. ASSUME NEW r \in Request, Submit(r) PROVE shipments' = shipments
    BY <2>3 DEF Submit, SubmitCreate, SubmitHandoff, SubmitEscrow, tables
  <2>4. ASSUME NEW r \in Request, Create(r)
        PROVE  shipments' = shipments \/ Insert(r)
    BY <2>4 DEF Create, Precheck, Upload, Refresh, CreatedPublish, tables
  <2>5. ASSUME NEW r \in Request, Handoff(r)
        PROVE  shipments' = shipments \/ HandoffCommit(r)
    BY <2>5 DEF Handoff, HandoffSelect, DeviceSelect, HandoffPublish, tables
  <2>6. ASSUME NEW r \in Request, Escrow(r)
        PROVE  shipments' = shipments \/ EscrowCommit(r)
    BY <2>6 DEF Escrow, EscrowSelect, EscrowPublish, tables
  <2>7. CASE shipments' = shipments
    BY <2>2, <2>7
  <2>8. CASE \E r \in Request : Insert(r) \/ HandoffCommit(r) \/ EscrowCommit(r)
    BY <2>1, <2>8, InsertMoves, HandoffCommitMoves, EscrowCommitMoves
  <2>9. CASE UNCHANGED vars
    BY <2>2, <2>9 DEF vars
  <2>10. ASSUME NEW r \in Request, DbError(r) PROVE shipments' = shipments
    BY <2>10 DEF DbError, tables
  <2>11. Crash => shipments' = shipments
    BY DEF Crash, tables
  <2>12. QED
    BY <2>3, <2>4, <2>5, <2>6, <2>7, <2>8, <2>9, <2>10, <2>11 DEF Next, Serve
<1>2. QED
  BY <1>1, ShipmentInvariance, PTL DEF Spec, CustodyMovesWithEvent


-----------------------------------------------------------------------------
(* The ledger it implements *)

Told == {m \in published : m.event # "escrow"}

\* Nothing of what the ledger knows has changed.
Still ==
    /\ \A s \in Shipment : /\ shipments'[s].farmer = shipments[s].farmer
                           /\ shipments'[s].custodian = shipments[s].custodian
    /\ UNCHANGED <<devices, custody_events>>
    /\ Told' = Told

LEMMA StillStutters ==
    ASSUME Still
    PROVE  UNCHANGED Ledger!custody
<1>1. /\ [s \in Shipment |-> shipments'[s].farmer] = [s \in Shipment |-> shipments[s].farmer]
      /\ [s \in Shipment |-> shipments'[s].custodian] =
            [s \in Shipment |-> shipments[s].custodian]
  BY DEF Still
<1>2. QED
  BY <1>1 DEF Still, Told, Ledger!custody

\* Whoever held a shipment before an event that is still to come has held it.
LEMMA HoldersHeld ==
    ASSUME LedgerOK, NEW s \in Shipment, NEW u,
           u \in Holders(s, Len(custody_events) + 1)
    PROVE  u \in Ledger!Held(s)
<1>1. CASE u = shipments[s].farmer
  BY <1>1 DEF Ledger!Held
<1>2. CASE \E j \in DOMAIN custody_events :
              custody_events[j].shipment = s /\ custody_events[j].to = u
  BY <1>2 DEF Ledger!Held, Ledger!Entries
<1>3. QED
  <2>1. PICK n \in Nat : n = Len(custody_events)
    BY LedgerDomain
  <2>2. DOMAIN custody_events = 1 .. n /\ 1 .. (n + 1) - 1 = 1 .. n
    BY <2>1, LedgerDomain
  <2>3. \/ u = shipments[s].farmer
        \/ \E j \in 1 .. (n + 1) - 1 :
              custody_events[j].shipment = s /\ custody_events[j].to = u
    BY <2>1, HoldersMember
  <2>4. QED
    BY <1>1, <1>2, <2>2, <2>3

LEMMA InsertCreates ==
    ASSUME Inv, NEW r \in Request, Insert(r)
    PROVE  \E s \in Shipment, u \in User : Ledger!Create(s, u)
<1>1. PICK s \in Shipment, u \in User : s = ctx[r].shipment /\ u = ctx[r].user
  BY DEF Insert, Inv, HandlerOK, CreateKnows
<1>2. shipments[s] = Absent /\ shipments \in [Shipment -> Row]
  BY <1>1 DEF Insert, Inv, HandlerOK, CreateKnows, Creating, TablesOK
<1>3. /\ shipments' = [shipments EXCEPT ![s] =
                         [status |-> "CREATED", farmer |-> u, custodian |-> u]]
      /\ UNCHANGED <<devices, custody_events, published>>
  BY <1>1 DEF Insert
<1>4. [p \in Shipment |-> shipments'[p].farmer] =
        [[p \in Shipment |-> shipments[p].farmer] EXCEPT ![s] = u]
  BY <1>2, <1>3
<1>5. [p \in Shipment |-> shipments'[p].custodian] =
        [[p \in Shipment |-> shipments[p].custodian] EXCEPT ![s] = u]
  BY <1>2, <1>3
<1>6. [p \in Shipment |-> shipments[p].farmer][s] = None
  BY <1>2 DEF Absent
<1>7. Told' = Told
  BY <1>3 DEF Told
<1>8. Ledger!Create(s, u)
  BY <1>3, <1>4, <1>5, <1>6, <1>7 DEF Ledger!Create, Told
<1>9. QED
  BY <1>8

\* The checks were made in earlier steps; the invariant has kept what they found.
LEMMA HandoffCommitHands ==
    ASSUME Inv, NEW r \in Request, HandoffCommit(r), ~Conflict(r)
    PROVE  \E s \in Shipment, u, from, to \in User, k \in Key, q \in Request :
              Ledger!Handoff(s, u, from, to, k, q)
<1>1. PICK s \in Shipment, u \in User, from \in User, to \in User, k \in Key :
        /\ s = ctx[r].shipment /\ u = ctx[r].user /\ from = ctx[r].read.custodian
        /\ to = ctx[r].to /\ k = ctx[r].key
  BY DEF HandoffCommit, Inv, HandlerOK, HandoffKnows
<1>2. /\ pc[r] = "handoff_commit" /\ Record(r) /\ UNCHANGED published
      /\ Present(s) /\ shipments \in [Shipment -> Row]
      /\ devices \in [User -> Key \cup {None}]
  BY <1>1 DEF HandoffCommit, Inv, TablesOK, HandlerOK, HandoffKnows
<1>3. [p \in Shipment |-> shipments[p].farmer][s] # None
  <2>1. shipments[s].farmer \in User
    BY <1>2 DEF Inv, TablesOK
  <2>2. QED
    BY <2>1, ConstantsAssumption
<1>4. from \in Ledger!Held(s)
  <2>1. from \in Holders(s, Len(custody_events) + 1)
    BY <1>1, <1>2 DEF Inv, HandlerOK, HandoffKnows, Holders
  <2>2. QED
    BY <2>1, HoldersHeld DEF Inv
<1>5. from = u \/ u \in Admin
  BY <1>1, <1>2 DEF Inv, HandlerOK, HandoffKnows
<1>6. devices[u] \in {None, k} /\ devices' = [devices EXCEPT ![u] = k]
  <2>1. CASE ctx[r].bind
    BY <1>1, <1>2, <2>1 DEF Conflict, Record
  <2>2. CASE ~ctx[r].bind
    BY <1>1, <1>2, <2>2 DEF Record, Inv, HandlerOK, HandoffKnows
  <2>3. QED
    BY <2>1, <2>2
<1>7. \A e \in Ledger!Entries : e.request # r
  BY <1>2 DEF Inv, HandlerOK, AnswerKnows, EventsOf, Ledger!Entries
<1>8. custody_events' =
        Append(custody_events, [shipment |-> s, from |-> from, to |-> to,
                                key |-> k, signer |-> u, request |-> r])
  BY <1>1, <1>2 DEF Record, NewEvent
<1>9. PICK row : row = Updated(r, "IN_TRANSIT", to)
  OBVIOUS
<1>10. /\ shipments' = [shipments EXCEPT ![s] = row]
       /\ row.farmer = shipments[s].farmer
       /\ row.custodian = IF to = from THEN shipments[s].custodian ELSE to
  BY <1>1, <1>2, <1>9, UpdateRow DEF Record, Inv, Status
<1>11. [p \in Shipment |-> shipments'[p].farmer] = [p \in Shipment |-> shipments[p].farmer]
  BY <1>2, <1>10
<1>12. \/ [p \in Shipment |-> shipments'[p].custodian] =
            [[p \in Shipment |-> shipments[p].custodian] EXCEPT ![s] = to]
       \/ /\ from = to
          /\ [p \in Shipment |-> shipments'[p].custodian] =
                [p \in Shipment |-> shipments[p].custodian]
  BY <1>2, <1>10
<1>13. Told' = Told
  BY <1>2 DEF Told
<1>14. Ledger!Handoff(s, u, from, to, k, r)
  BY <1>3, <1>4, <1>5, <1>6, <1>7, <1>8, <1>11, <1>12, <1>13 DEF Ledger!Handoff, Told
<1>15. QED
  BY <1>14

\* An escrow is not the ledger's business, and leaves farmer and custodian alone.
LEMMA EscrowCommitStutters ==
    ASSUME Inv, NEW r \in Request, EscrowCommit(r)
    PROVE  Still
<1>1. PICK s \in Shipment : s = ctx[r].shipment
  BY DEF EscrowCommit, Inv, HandlerOK, EscrowKnows
<1>2. /\ Present(s) /\ shipments \in [Shipment -> Row]
      /\ UNCHANGED <<devices, custody_events, published>>
  BY <1>1 DEF EscrowCommit, Inv, TablesOK, HandlerOK, EscrowKnows
<1>3. shipments' = [shipments EXCEPT ![s] =
                      Updated(r, "ESCROW_PENDING", ctx[r].read.custodian)]
  BY <1>1 DEF EscrowCommit
<1>4. QED
  BY <1>1, <1>2, <1>3, EscrowRow DEF Still, Told, Inv

\* What a message tells is so when it is sent.
LEMMA PublishTells ==
    ASSUME UNCHANGED tables, NEW m, published' = published \cup {m},
           \/ m.event = "escrow"
           \/ \E s \in Shipment : /\ shipments[s].farmer # None
                                  /\ m = Ledger!Created(s)
           \/ \E i \in DOMAIN custody_events : m = Ledger!HandedOver(custody_events[i])
    PROVE  Still \/ Ledger!Tell
<1>1. CASE m.event = "escrow"
  BY <1>1 DEF Still, Told, tables
<1>2. CASE m.event # "escrow"
  <2>1. Told' = Told \cup {m}
    BY <1>2 DEF Told
  <2>2. m \in {Ledger!Created(s) : s \in {t \in Shipment : shipments[t].farmer # None}}
                 \cup {Ledger!HandedOver(e) : e \in Ledger!Entries}
    BY <1>2 DEF Ledger!Entries
  <2>3. Ledger!Tell
    <3>1. UNCHANGED <<shipments, devices, custody_events>>
      BY DEF tables
    <3>2. {s \in Shipment : [p \in Shipment |-> shipments[p].farmer][s] # None} =
            {t \in Shipment : shipments[t].farmer # None}
      OBVIOUS
    <3>3. QED
      BY <2>1, <2>2, <3>1, <3>2 DEF Ledger!Tell, Told
  <2>4. QED
    BY <2>3
<1>3. QED
  BY <1>1, <1>2


LEMMA PublishStep ==
    ASSUME Inv, NEW r \in Request,
           CreatedPublish(r) \/ HandoffPublish(r) \/ EscrowPublish(r)
    PROVE  Still \/ Ledger!Tell
<1>1. UNCHANGED tables
  BY DEF CreatedPublish, HandoffPublish, EscrowPublish
<1>2. CASE UNCHANGED published
  BY <1>1, <1>2 DEF Still, Told, tables
<1>3. ASSUME CreatedPublish(r), published' # published
      PROVE  Ledger!Tell \/ Still
  <2>1. PICK s \in Shipment : s = ctx[r].shipment
    BY <1>3 DEF CreatedPublish, Inv, HandlerOK, CreateKnows
  <2>2. /\ ctx[r].user \in User /\ ctx[r].to = ctx[r].user
        /\ shipments[s].farmer = ctx[r].user
    BY <1>3, <2>1 DEF CreatedPublish, Inv, HandlerOK, CreateKnows
  <2>3. PICK m : m = [event |-> "shipment.created", shipment |-> s,
                      from |-> ctx[r].user, to |-> ctx[r].user]
    OBVIOUS
  <2>4. published' = published \cup {m}
    BY <1>3, <2>1, <2>2, <2>3 DEF CreatedPublish, PublishAndReturn
  <2>5. m = Ledger!Created(s)
    BY <2>1, <2>2, <2>3 DEF Ledger!Created
  <2>6. shipments[s].farmer # None
    BY <2>2, ConstantsAssumption
  <2>7. QED
    BY <1>1, <2>4, <2>5, <2>6, PublishTells
<1>4. ASSUME HandoffPublish(r), published' # published
      PROVE  Ledger!Tell \/ Still
  <2>1. PICK i \in DOMAIN custody_events :
          /\ custody_events[i].shipment = ctx[r].shipment
          /\ custody_events[i].from = ctx[r].read.custodian
          /\ custody_events[i].to = ctx[r].to
    BY <1>4 DEF HandoffPublish, Inv, HandlerOK, HandoffKnows
  <2>2. PICK m : m = Ledger!HandedOver(custody_events[i])
    OBVIOUS
  <2>3. published' = published \cup {m}
    BY <1>4, <2>1, <2>2 DEF HandoffPublish, PublishAndReturn, Ledger!HandedOver
  <2>4. QED
    BY <1>1, <2>2, <2>3, PublishTells
<1>5. ASSUME EscrowPublish(r), published' # published
      PROVE  Ledger!Tell \/ Still
  <2>1. PICK m : m = [event |-> "escrow", shipment |-> ctx[r].shipment,
                      from |-> ctx[r].read.farmer, to |-> ctx[r].to]
    OBVIOUS
  <2>2. published' = published \cup {m} /\ m.event = "escrow"
    BY <1>5, <2>1 DEF EscrowPublish, PublishAndReturn
  <2>3. QED
    BY <1>1, <2>2, PublishTells
<1>6. QED
  BY <1>2, <1>3, <1>4, <1>5

LEMMA LedgerInit == Init => Ledger!Init
<1> SUFFICES ASSUME Init PROVE Ledger!Init
  OBVIOUS
<1>1. /\ [s \in Shipment |-> shipments[s].farmer] = [s \in Shipment |-> None]
      /\ [s \in Shipment |-> shipments[s].custodian] = [s \in Shipment |-> None]
  BY DEF Init, Absent
<1>2. {m \in published : m.event # "escrow"} = {}
  BY DEF Init
<1>3. QED
  BY <1>1, <1>2 DEF Init, Ledger!Init

LEMMA LedgerStep ==
    ASSUME Inv, [Next]_vars
    PROVE  [Ledger!Next]_(Ledger!custody)
<1> SUFFICES Ledger!Next \/ Still
  BY StillStutters
<1>1. ASSUME UNCHANGED tables, UNCHANGED published PROVE Still
  BY <1>1 DEF Still, Told, tables
<1>2. ASSUME NEW r \in Request, Submit(r) PROVE Still
  BY <1>1, <1>2 DEF Submit, SubmitCreate, SubmitHandoff, SubmitEscrow
<1>3. ASSUME NEW r \in Request, Create(r) PROVE Ledger!Next \/ Still
  <2>1. CASE Precheck(r) \/ Upload(r) \/ Refresh(r)
    BY <1>1, <2>1 DEF Precheck, Upload, Refresh
  <2>2. CASE Insert(r)
    BY <2>2, InsertCreates DEF Ledger!Next
  <2>3. CASE CreatedPublish(r)
    BY <2>3, PublishStep DEF Ledger!Next
  <2>4. QED
    BY <1>3, <2>1, <2>2, <2>3 DEF Create
<1>4. ASSUME NEW r \in Request, Handoff(r) PROVE Ledger!Next \/ Still
  <2>1. CASE HandoffSelect(r) \/ DeviceSelect(r)
    BY <1>1, <2>1 DEF HandoffSelect, DeviceSelect
  <2>2. CASE HandoffCommit(r) /\ Conflict(r)
    BY <1>1, <2>2 DEF HandoffCommit
  <2>3. CASE HandoffCommit(r) /\ ~Conflict(r)
    BY <2>3, HandoffCommitHands DEF Ledger!Next
  <2>4. CASE HandoffPublish(r)
    BY <2>4, PublishStep DEF Ledger!Next
  <2>5. QED
    BY <1>4, <2>1, <2>2, <2>3, <2>4 DEF Handoff
<1>5. ASSUME NEW r \in Request, Escrow(r) PROVE Ledger!Next \/ Still
  <2>1. CASE EscrowSelect(r)
    BY <1>1, <2>1 DEF EscrowSelect
  <2>2. CASE EscrowCommit(r)
    BY <2>2, EscrowCommitStutters
  <2>3. CASE EscrowPublish(r)
    BY <2>3, PublishStep DEF Ledger!Next
  <2>4. QED
    BY <1>5, <2>1, <2>2, <2>3 DEF Escrow
<1>6. ASSUME NEW r \in Request, DbError(r) PROVE Still
  BY <1>1, <1>6 DEF DbError
<1>7. Crash => Still
  BY <1>1 DEF Crash
<1>8. UNCHANGED vars => Still
  BY <1>1 DEF vars, tables
<1>9. QED
  BY <1>2, <1>3, <1>4, <1>5, <1>6, <1>7, <1>8 DEF Next, Serve

\* main.py:111-352: every behaviour of the service is one of CustodyLedger. The
\* checks of a handoff and its writes are different steps, and other handlers commit
\* between them; the entry is still one the ledger admits, made by somebody entitled
\* in the name of somebody who had held the shipment, and nothing else is told.
THEOREM LedgerImplemented == Spec => ImplementsLedger
<1>1. Inv /\ [Next]_vars => [Ledger!Next]_(Ledger!custody)
  BY LedgerStep
<1>2. QED
  BY LedgerInit, <1>1, ShipmentInvariance, PTL
  DEF Spec, ImplementsLedger, Ledger!Spec
=============================================================================
