---------------------------- MODULE EscrowService ----------------------------
(***************************************************************************)
(* The escrow service: the HTTP handlers of api.py, the fund hold and the  *)
(* finalisation of escrow.py, and the Kafka loop of consumer.py, over one  *)
(* Postgres table (escrow_states) and three Kafka topics.                  *)
(*                                                                         *)
(* The handlers are coroutines.  Each is cut where it awaits the database  *)
(* or the broker, and any other coroutine may run in between.  A database  *)
(* transaction is one SELECT and one COMMIT under READ COMMITTED without   *)
(* row locks, so a handler writes what it computed from a row it read      *)
(* earlier.  The ORM's UPDATE names only the columns the handler changed.  *)
(* A commit may also succeed while its acknowledgement is lost: then the   *)
(* write stays and the handler sees an exception.                          *)
(***************************************************************************)
EXTENDS Naturals, Sequences, FiniteSets

CONSTANTS
    Shipment,       \* primary keys of escrow_states
    User,           \* authenticated callers, who are also the participants
    Request,        \* HTTP requests, each served once
    Consumer,       \* the background task consume_alerts
    Null,           \* a local variable not yet assigned
    Amount,         \* escrow amounts in sats
    AutoAmount,     \* the 0.001 BTC of a hold raised by a critical alert
    Int4Max,        \* largest value of the INTEGER column amount_btc
    THRESHOLD,      \* signatures that finalise an escrow
    MaxEvents,      \* bound: messages other services put on each topic
    MaxLog,         \* bound: length of each consumed topic
    MaxCrashes      \* bound: crashes of the service process

ASSUME ConstantsAssumption ==
    /\ IsFiniteSet(User)
    /\ Consumer \notin Request
    /\ Null \notin Shipment \cup User
    /\ Amount \subseteq Nat /\ AutoAmount \in Amount /\ Int4Max \in Nat
    /\ THRESHOLD \in Nat \ {0}
    /\ MaxEvents \in Nat /\ MaxLog \in Nat /\ MaxCrashes \in Nat

VARIABLES
    row,        \* the table escrow_states
    log,        \* the topics the consumer reads, each with one partition
    pos,        \* offset of the last message handed to the loop, per topic
    committed,  \* offset the consumer group has committed, per topic
    announced,  \* how many escrow.psbt.finalize messages, per shipment
    pc,         \* where each coroutine is suspended
    ctx,        \* the local variables of each coroutine
    reply,      \* what the client of each request has received
    crashes,    \* crashes so far
    signed,     \* history: users whose signature was committed
    finished    \* history: offsets whose processing came to its end

db      == <<row, signed>>
broker  == <<log, pos, committed, announced>>
control == <<pc, ctx, reply, finished>>
vars    == <<row, log, pos, committed, announced, pc, ctx, reply, crashes,
             signed, finished>>

-----------------------------------------------------------------------------
(* Types *)

Proc  == Request \cup {Consumer}
Topic == {"alert.events", "escrow.psbt.request"}

Absent == [status |-> "absent", signers |-> {}, amount |-> 0]
Row    == [status  : {"absent", "pending_signatures", "finalized"},
           signers : SUBSET User,
           amount  : Nat]

\* "flat" is the shipment service's escrow.psbt.request, "participants" the one
\* this service publishes on the same topic.
Message == [kind     : {"critical", "notice", "flat", "participants"},
            shipment : Shipment,
            amount   : Amount]

HoldStep    == {"hold_select", "hold_insert", "hold_publish"}
HandlerStep == HoldStep \cup {"new", "sign_select", "sign_commit",
                              "finalize_row", "finalize_publish", "done"}
LoopStep    == HoldStep \cup {"idle", "dlq"}
Step        == HandlerStep \cup LoopStep

Answer == {"none", "403", "404", "500", "lost", "ALREADY_FINALIZED", "SIGNED",
           "FINALIZED", "PSBT_FLOW_INITIATED", "DISPUTED"}

Context == [shipment : Shipment \cup {Null}, user : User \cup {Null},
            amount : Amount \cup {0}, seen : SUBSET User,
            topic : Topic \cup {"none"}]

Blank == [shipment |-> Null, user |-> Null, amount |-> 0, seen |-> {},
          topic |-> "none"]

Init ==
    /\ row = [s \in Shipment |-> Absent]
    /\ log = [t \in Topic |-> <<>>]
    /\ pos = [t \in Topic |-> 0]
    /\ committed = [t \in Topic |-> 0]
    /\ announced = [s \in Shipment |-> 0]
    /\ pc = [p \in Proc |-> IF p = Consumer THEN "idle" ELSE "new"]
    /\ ctx = [p \in Proc |-> Blank]
    /\ reply = [r \in Request |-> "none"]
    /\ crashes = 0
    /\ signed = [s \in Shipment |-> {}]
    /\ finished = [t \in Topic |-> {}]

-----------------------------------------------------------------------------
(* How a coroutine goes on *)

Goto(p, step) ==
    /\ pc' = [pc EXCEPT ![p] = step]
    /\ UNCHANGED <<reply, finished>>

\* The coroutine ends: a handler answers its client, the loop body of the
\* consumer is done with the message it was handed.
Return(p, answer) ==
    IF p = Consumer
    THEN /\ pc' = [pc EXCEPT ![p] = "idle"]
         /\ finished' = [finished EXCEPT ![ctx[p].topic] =
                            @ \cup {pos[ctx[p].topic]}]
         /\ UNCHANGED reply
    ELSE /\ pc' = [pc EXCEPT ![p] = "done"]
         /\ reply' = [reply EXCEPT ![p] = answer]
         /\ UNCHANGED finished

\* An exception: FastAPI turns it into a 500, the consumer's try block into a
\* message for the dead letter queue.
Raise(p) == IF p = Consumer THEN Goto(p, "dlq") ELSE Return(p, "500")

-----------------------------------------------------------------------------
(* Requests *)

\* A client calls POST /psbt/sign for itself or for somebody else.
SubmitSign(r, caller, participant, s) ==
    /\ pc[r] = "new"
    /\ ctx' = [ctx EXCEPT ![r] = [@ EXCEPT !.shipment = s, !.user = participant]]
    /\ IF participant # caller THEN Return(r, "403") ELSE Goto(r, "sign_select")
    /\ UNCHANGED <<db, broker, crashes>>

\* A client calls POST /psbt/trigger.
SubmitTrigger(r, s, a) ==
    /\ pc[r] = "new"
    /\ ctx' = [ctx EXCEPT ![r] = [@ EXCEPT !.shipment = s, !.amount = a]]
    /\ Goto(r, "hold_select")
    /\ UNCHANGED <<db, broker, crashes>>

\* A client calls POST /dispute: the handler only answers.
SubmitDispute(r, s) ==
    /\ pc[r] = "new"
    /\ ctx' = [ctx EXCEPT ![r] = [@ EXCEPT !.shipment = s]]
    /\ Return(r, "DISPUTED")
    /\ UNCHANGED <<db, broker, crashes>>

-----------------------------------------------------------------------------
(* sign_psbt *)

\* The SELECT and the two early answers.
SignSelect(r) ==
    LET current == row[ctx[r].shipment] IN
    /\ pc[r] = "sign_select"
    /\ ctx' = [ctx EXCEPT ![r] = [@ EXCEPT !.seen = current.signers]]
    /\ CASE current.status = "absent"             -> Return(r, "404")
         [] current.status = "finalized"          -> Return(r, "ALREADY_FINALIZED")
         [] current.status = "pending_signatures" -> Goto(r, "sign_commit")
    /\ UNCHANGED <<db, broker, crashes>>

\* The signers this request believes in: those it read and its own.
Signers(r) == ctx[r].seen \cup {ctx[r].user}

\* Faulty: finalises one signature early.
SignedRowEarly(r) ==
    LET s == ctx[r].shipment
    IN  [row[s] EXCEPT
            !.signers = Signers(r),
            !.status  = IF Cardinality(Signers(r)) >= THRESHOLD - 1
                        THEN "finalized" ELSE @]

\* Faulty: writes back every column as it was read.
SignedRowStale(r) ==
    LET s == ctx[r].shipment
    IN  [row[s] EXCEPT
            !.signers = Signers(r),
            !.status  = IF Cardinality(Signers(r)) >= THRESHOLD
                        THEN "finalized" ELSE "pending_signatures"]

\* The UPDATE: the whole signers column when it changed, the status when the
\* threshold is reached.
SignedRow(r) ==
    LET s == ctx[r].shipment
    IN  [row[s] EXCEPT
            !.signers = IF ctx[r].user \in ctx[r].seen THEN @ ELSE Signers(r),
            !.status  = IF Cardinality(Signers(r)) >= THRESHOLD
                        THEN "finalized" ELSE @]

\* Faulty: announces before it commits.
SignCommitLate(r) ==
    /\ pc[r] = "sign_commit"
    /\ IF Cardinality(Signers(r)) >= THRESHOLD
       THEN Goto(r, "finalize_publish") /\ UNCHANGED db
       ELSE /\ row' = [row EXCEPT ![ctx[r].shipment] = SignedRow(r)]
            /\ signed' = [signed EXCEPT ![ctx[r].shipment] = @ \cup {ctx[r].user}]
            /\ Return(r, "SIGNED")
    /\ UNCHANGED <<ctx, broker, crashes>>

SignCommit(r) ==
    LET s == ctx[r].shipment IN
    /\ pc[r] = "sign_commit"
    /\ row' = [row EXCEPT ![s] = SignedRow(r)]
    /\ signed' = [signed EXCEPT ![s] = @ \cup {ctx[r].user}]
    /\ \/ IF Cardinality(Signers(r)) >= THRESHOLD
          THEN Goto(r, "finalize_row")
          ELSE Return(r, "SIGNED")
       \/ Raise(r)
    /\ UNCHANGED <<ctx, broker, crashes>>

-----------------------------------------------------------------------------
(* finalize_escrow *)

FinalizeRow(r) ==
    LET s == ctx[r].shipment IN
    /\ pc[r] = "finalize_row"
    /\ row' = IF row[s].status = "absent" THEN row
              ELSE [row EXCEPT ![s].status = "finalized"]
    /\ Goto(r, "finalize_publish") \/ Raise(r)
    /\ UNCHANGED <<signed, ctx, broker, crashes>>

\* send_and_wait succeeds, fails after the broker stored the message, or fails
\* before it did.
FinalizePublish(r) ==
    LET stored == announced' = [announced EXCEPT ![ctx[r].shipment] = @ + 1] IN
    /\ pc[r] = "finalize_publish"
    /\ \/ stored /\ Return(r, "FINALIZED")
       \/ stored /\ Raise(r)
       \/ UNCHANGED announced /\ Raise(r)
    /\ UNCHANGED <<db, log, pos, committed, ctx, crashes>>

-----------------------------------------------------------------------------
(* process_fund_hold, called by trigger_psbt_flow and by the consumer *)

\* Faulty: writes its own amount to the row it finds.
HoldSelectUpdates(p) ==
    LET s == ctx[p].shipment IN
    /\ pc[p] = "hold_select"
    /\ IF row[s].status = "absent"
       THEN Goto(p, "hold_insert") /\ UNCHANGED row
       ELSE /\ row' = [row EXCEPT ![s].amount = ctx[p].amount]
            /\ Goto(p, "hold_publish")
    /\ UNCHANGED <<signed, broker, ctx, crashes>>

HoldSelect(p) ==
    /\ pc[p] = "hold_select"
    /\ Goto(p, IF row[ctx[p].shipment].status = "absent"
               THEN "hold_insert" ELSE "hold_publish")
    /\ UNCHANGED <<db, broker, ctx, crashes>>

NewRow(p) == [status  |-> "pending_signatures",
              signers |-> {},
              amount  |-> ctx[p].amount]

\* Faulty: overwrites a row that another fund hold inserted meanwhile.
HoldInsertUpserts(p) ==
    /\ pc[p] = "hold_insert"
    /\ row' = [row EXCEPT ![ctx[p].shipment] = NewRow(p)]
    /\ Goto(p, "hold_publish")
    /\ UNCHANGED <<signed, broker, ctx, crashes>>

\* Faulty: goes on after a failed INSERT to the step named next.
HoldInsertGoesOn(p, next) ==
    LET s == ctx[p].shipment IN
    /\ pc[p] = "hold_insert"
    /\ IF row[s].status = "absent" /\ ctx[p].amount <= Int4Max
       THEN /\ row' = [row EXCEPT ![s] = NewRow(p)]
            /\ Goto(p, "hold_publish")
       ELSE UNCHANGED row /\ Goto(p, next)
    /\ UNCHANGED <<signed, broker, ctx, crashes>>

\* Faulty: takes every failed INSERT for a row that is already there.
HoldInsertIgnores(p) == HoldInsertGoesOn(p, "hold_publish")

\* Faulty: retries a failed INSERT.
HoldInsertRetries(p) == HoldInsertGoesOn(p, "hold_insert")

\* The INSERT fails on the primary key or on an amount beyond the column.
HoldInsert(p) ==
    LET s == ctx[p].shipment IN
    /\ pc[p] = "hold_insert"
    /\ IF row[s].status = "absent" /\ ctx[p].amount <= Int4Max
       THEN /\ row' = [row EXCEPT ![s] = NewRow(p)]
            /\ Goto(p, "hold_publish") \/ Raise(p)
       ELSE UNCHANGED row /\ Raise(p)
    /\ UNCHANGED <<signed, broker, ctx, crashes>>

Publish(t, kind, s, a) ==
    /\ Len(log[t]) < MaxLog
    /\ log' = [log EXCEPT ![t] =
                 Append(@, [kind |-> kind, shipment |-> s, amount |-> a])]

\* The request for the crypto service goes to the topic this service also reads.
HoldPublish(p) ==
    LET stored == Publish("escrow.psbt.request", "participants",
                          ctx[p].shipment, ctx[p].amount) IN
    /\ pc[p] = "hold_publish"
    /\ \/ stored /\ Return(p, "PSBT_FLOW_INITIATED")
       \/ stored /\ Raise(p)
       \/ UNCHANGED log /\ Raise(p)
    /\ UNCHANGED <<db, pos, committed, announced, ctx, crashes>>

\* A statement of the open transaction fails; the transaction is rolled back.
DbError(p) ==
    /\ pc[p] \in {"sign_select", "sign_commit", "finalize_row",
                  "hold_select", "hold_insert"}
    /\ Raise(p)
    /\ UNCHANGED <<db, broker, ctx, crashes>>

-----------------------------------------------------------------------------
(* consume_alerts *)

\* The loop is handed the next message of a topic.  A critical alert and a flat
\* request start a fund hold; a participants request has none of the fields
\* PSBTTriggerRequest demands, so building it raises; a notice is ignored.
Poll(t) ==
    LET n == pos[t] + 1
        m == log[t][n]
    IN
    /\ pc[Consumer] = "idle"
    /\ n <= Len(log[t])
    /\ pos' = [pos EXCEPT ![t] = n]
    /\ ctx' = [ctx EXCEPT ![Consumer] =
                 [@ EXCEPT !.topic = t, !.shipment = m.shipment,
                           !.amount = IF m.kind = "critical" THEN AutoAmount
                                      ELSE m.amount]]
    /\ \/ m.kind \in {"critical", "flat"} /\ Goto(Consumer, "hold_select")
       \/ m.kind = "participants" /\ Goto(Consumer, "dlq")
       \/ /\ m.kind = "notice"
          /\ finished' = [finished EXCEPT ![t] = @ \cup {n}]
          /\ UNCHANGED <<pc, reply>>
    /\ UNCHANGED <<db, log, committed, announced, crashes>>

\* Faulty: takes the message again after a failure.
DeadLetterRetries ==
    /\ pc[Consumer] = "dlq"
    /\ pos' = [pos EXCEPT ![ctx[Consumer].topic] = @ - 1]
    /\ Goto(Consumer, "idle")
    /\ UNCHANGED <<db, log, committed, announced, ctx, crashes>>

\* publish_to_dlq swallows its own failure; either way the loop goes on.
DeadLetter ==
    /\ pc[Consumer] = "dlq"
    /\ Return(Consumer, "none")
    /\ UNCHANGED <<db, broker, ctx, crashes>>

\* Faulty: commits the offset after the next message, not the next one.
AutoCommitAhead ==
    /\ \A t \in Topic : committed[t] <= pos[t]
    /\ committed' = [t \in Topic |-> pos[t] + 1]
    /\ UNCHANGED <<db, log, pos, announced, control, crashes>>

\* The client library commits the offsets it has handed out, on a timer.
AutoCommit ==
    /\ committed # pos
    /\ committed' = pos
    /\ UNCHANGED <<db, log, pos, announced, control, crashes>>

-----------------------------------------------------------------------------
(* The environment *)

\* The shipment service's init_escrow publishes a flat request.
ShipmentRequest(s, a) ==
    /\ Cardinality({i \in DOMAIN log["escrow.psbt.request"] :
                      log["escrow.psbt.request"][i].kind = "flat"}) < MaxEvents
    /\ Publish("escrow.psbt.request", "flat", s, a)
    /\ UNCHANGED <<db, pos, committed, announced, control, crashes>>

\* The alert service publishes alert.created.
AlertCreated(s, severity) ==
    /\ Len(log["alert.events"]) < MaxEvents
    /\ Publish("alert.events", severity, s, AutoAmount)
    /\ UNCHANGED <<db, pos, committed, announced, control, crashes>>

\* The process dies: clients of requests in flight get no answer, the consumer
\* starts again from the committed offsets.
Crash ==
    /\ crashes < MaxCrashes
    /\ crashes' = crashes + 1
    /\ pc' = [p \in Proc |->
                IF p = Consumer THEN "idle"
                ELSE IF pc[p] = "new" THEN "new" ELSE "done"]
    /\ reply' = [r \in Request |->
                   IF pc[r] \in {"new", "done"} THEN reply[r] ELSE "lost"]
    /\ pos' = committed
    /\ UNCHANGED <<db, log, committed, announced, ctx, finished>>

-----------------------------------------------------------------------------
Submit ==
    \E r \in Request, s \in Shipment :
        \/ \E u, v \in User : SubmitSign(r, u, v, s)
        \/ \E a \in Amount : SubmitTrigger(r, s, a)
        \/ SubmitDispute(r, s)

Sign(r)     == SignSelect(r) \/ SignCommit(r)
Finalize(r) == FinalizeRow(r) \/ FinalizePublish(r)
Hold(p)     == HoldSelect(p) \/ HoldInsert(p) \/ HoldPublish(p)

Consume == (\E t \in Topic : Poll(t)) \/ DeadLetter

Environment ==
    \E s \in Shipment :
        \/ \E a \in Amount : ShipmentRequest(s, a)
        \/ \E severity \in {"critical", "notice"} : AlertCreated(s, severity)

Next ==
    \/ Submit
    \/ \E r \in Request : Sign(r) \/ Finalize(r)
    \/ \E p \in Proc : Hold(p) \/ DbError(p)
    \/ Consume
    \/ AutoCommit
    \/ Environment
    \/ Crash

Spec == Init /\ [][Next]_vars

\* The event loop runs every coroutine that can go on, and the commit timer.
\* Clients, other services and crashes owe nothing.
Fairness ==
    /\ \A r \in Request : WF_vars(Sign(r) \/ Finalize(r) \/ Hold(r))
    /\ WF_vars(Consume \/ Hold(Consumer))
    /\ WF_vars(AutoCommit)

FairSpec == Spec /\ Fairness
-----------------------------------------------------------------------------
(* Properties *)

\* Every variable stays in its type: the table holds only the columns' values,
\* offsets never pass the end of a topic, a coroutine is only ever suspended at
\* one of the awaits of escrow.py, api.py and consumer.py.
TypeOK ==
    /\ row \in [Shipment -> Row]
    /\ log \in [Topic -> Seq(Message)]
    /\ pos \in [Topic -> Nat] /\ committed \in [Topic -> Nat]
    /\ \A t \in Topic : committed[t] <= pos[t] /\ pos[t] <= Len(log[t])
    /\ announced \in [Shipment -> Nat]
    /\ pc \in [Proc -> Step]
    /\ \A p \in Proc : pc[p] \in (IF p = Consumer THEN LoopStep ELSE HandlerStep)
    /\ pc[Consumer] # "idle" => ctx[Consumer].topic \in Topic
    /\ ctx \in [Proc -> Context]
    /\ reply \in [Request -> Answer]
    /\ crashes \in Nat
    /\ signed \in [Shipment -> SUBSET User]
    /\ finished \in [Topic -> SUBSET Nat]

\* sign_psbt (api.py:57-75): however requests interleave, overwrite each other's
\* signers column, crash or are retried, an escrow is finalised only after
\* THRESHOLD different participants have committed a signature.
FinalizedByThreshold ==
    \A s \in Shipment :
        row[s].status = "finalized" => Cardinality(signed[s]) >= THRESHOLD

\* No step takes a finalised escrow back, empties or recreates a row, or changes
\* the amount a fund hold stored first (api.py:60-71, escrow.py:33-42): triggers,
\* alerts and requests of the shipment service name amounts of their own, and a
\* message comes again after a crash, when the escrow may be finalised long since;
\* they find the row and leave it alone.
TermsAreFixed ==
    [][\A s \in Shipment :
         row[s].status # "absent" =>
            /\ row'[s].amount = row[s].amount
            /\ row'[s].status # "absent"
            /\ row[s].status = "finalized" => row'[s].status = "finalized"
      ]_row

\* A finalised escrow was finalised by a request that has announced it, is about
\* to, or failed: the event never runs ahead of the row (api.py:72-74,
\* escrow.py:82-90), not even for a second finaliser of the same escrow.
AnnouncedIsFinalized ==
    \A s \in Shipment : announced[s] > 0 => row[s].status = "finalized"

\* What a coroutine relies on when it goes on at the step it is suspended at.
Relies(p) ==
    LET s == ctx[p].shipment IN
    /\ pc[p] \in {"sign_select", "sign_commit"} => ctx[p].user \in User
    /\ pc[p] \notin {"new", "idle", "dlq", "done"} => s \in Shipment
    /\ pc[p] \in HoldStep => ctx[p].amount \in Amount
    /\ pc[p] = "sign_commit" =>
          row[s].status # "absent" /\ ctx[p].seen \subseteq signed[s]
    /\ pc[p] \in {"finalize_row", "finalize_publish"} =>
          row[s].status = "finalized"
    /\ pc[p] = "hold_publish" => row[s].status # "absent"

\* Only users who signed are stored, and nobody signs before the row exists.
RowsAreEarned ==
    \A s \in Shipment :
        /\ row[s].signers \subseteq signed[s]
        /\ row[s].status = "absent" => signed[s] = {}

\* What a coroutine learnt before it was suspended still holds when it goes on,
\* although it took no lock: the signers it read have signed, the row it found
\* is still there, the escrow it finalised still is (api.py:46-74,
\* escrow.py:29-42).
ReadsStayTrue == RowsAreEarned /\ \A p \in Proc : Relies(p)

\* process_fund_hold publishes after the row exists (escrow.py:33-66): a request
\* for the crypto service never concerns a shipment without an escrow row, also
\* when the INSERT loses the race on the primary key or overflows the column.
RequestHasRow ==
    \A i \in DOMAIN log["escrow.psbt.request"] :
        LET m == log["escrow.psbt.request"][i] IN
        m.kind = "participants" => row[m.shipment].status # "absent"

\* The service reads the topic it publishes to (consumer.py:18-22, escrow.py:66).
\* Once clients and other services fall silent it comes to rest: every message
\* is consumed, dead-lettered or ignored, and none of its own messages starts a
\* further fund hold.
EventuallyQuiet ==
    <>[](pc[Consumer] = "idle" /\ \A t \in Topic : pos[t] = Len(log[t]))

\* Every request that reached the service ends, with an answer or with the
\* process: no coroutine waits for another one.
RequestsEnd ==
    \A r \in Request : pc[r] # "new" ~> pc[r] = "done"

\* The service implements the contract: its table is the contract's phase, the
\* committed signatures are the endorsements.
PhaseOf == [absent             |-> "none",
            pending_signatures |-> "open",
            finalized          |-> "settled"]

Contract == INSTANCE EscrowContract WITH
    phase    <- [s \in Shipment |-> PhaseOf[row[s].status]],
    endorsed <- signed,
    Quorum   <- {S \in SUBSET User : Cardinality(S) >= THRESHOLD}

\* Every step of the service, whatever requests interleave, fail or crash, is a
\* step of EscrowContract or leaves it where it is.
ImplementsContract == Contract!Spec

\* Whether the loop is at work on message n of topic t.
InFlight(t, n) ==
    /\ pc[Consumer] # "idle"
    /\ ctx[Consumer].topic = t /\ pos[t] = n

\* An offset is committed only when its message is processed, or being processed by
\* the process that will see to it, although a timer commits it: only a crash loses
\* a message (consumer.py:18-26).
OnlyCrashesLoseMessages ==
    crashes = 0 =>
        \A t \in Topic : \A n \in 1 .. committed[t] :
            n \in finished[t] \/ InFlight(t, n)

-----------------------------------------------------------------------------
(* What the documents say and the service does not do *)

\* docs/flows/DataFlowDiagram.md:524: "Partial signature stored in
\* psbt_transactions.signatures JSONB".  sign_psbt answers SIGNED, so the
\* participant's signature should be among the stored ones (api.py:60-63).
AcceptedSignatureIsStored ==
    \A r \in Request :
        reply[r] = "SIGNED" => ctx[r].user \in row[ctx[r].shipment].signers
=============================================================================
