------------------------- MODULE EscrowServiceProofs -------------------------
(***************************************************************************)
(* Proofs about EscrowService for every set of shipments, users, requests  *)
(* and amounts, every THRESHOLD and every bound.                           *)
(***************************************************************************)
EXTENDS EscrowService, FiniteSetTheorems, TLAPS

-----------------------------------------------------------------------------
(* How a coroutine goes on *)

\* The control state after coroutine p moved to step.
Moved(p, step) ==
    /\ pc' = [pc EXCEPT ![p] = step]
    /\ step \in (IF p = Consumer THEN LoopStep ELSE HandlerStep)
    /\ reply' \in [Request -> Answer]
    /\ finished' \in [Topic -> SUBSET Nat]

LEMMA GotoMoves ==
    ASSUME TypeOK, NEW p \in Proc, NEW step, Goto(p, step),
           step \in (IF p = Consumer THEN LoopStep ELSE HandlerStep)
    PROVE  Moved(p, step)
  BY DEF TypeOK, Goto, Moved

LEMMA ReturnMoves ==
    ASSUME TypeOK, NEW p \in Proc, NEW answer \in Answer, Return(p, answer),
           pc[p] # "idle"
    PROVE  Moved(p, IF p = Consumer THEN "idle" ELSE "done")
<1>1. CASE p = Consumer
  <2>1. ctx[p].topic \in Topic /\ pos[ctx[p].topic] \in Nat
    BY <1>1 DEF TypeOK
  <2>2. finished \in [Topic -> SUBSET Nat]
    BY DEF TypeOK
  <2>3. finished' = [finished EXCEPT ![ctx[p].topic] =
                       @ \cup {pos[ctx[p].topic]}]
    BY <1>1 DEF Return
  <2>4. finished' \in [Topic -> SUBSET Nat]
    BY <2>1, <2>2, <2>3
  <2>5. QED
    BY <1>1, <2>4 DEF TypeOK, Return, Moved, LoopStep
<1>2. CASE p # Consumer
  <2>1. p \in Request
    BY <1>2 DEF Proc
  <2>2. reply' \in [Request -> Answer]
    BY <1>2, <2>1 DEF TypeOK, Return
  <2>3. QED
    BY <1>2, <2>2 DEF TypeOK, Return, Moved, HandlerStep
<1>3. QED
  BY <1>1, <1>2

LEMMA RaiseMoves ==
    ASSUME TypeOK, NEW p \in Proc, Raise(p), pc[p] # "idle"
    PROVE  Moved(p, IF p = Consumer THEN "dlq" ELSE "done")
<1>1. CASE p = Consumer
  BY <1>1, GotoMoves DEF Raise, LoopStep
<1>2. CASE p # Consumer
  BY <1>2, ReturnMoves DEF Raise, Answer
<1>3. QED
  BY <1>1, <1>2

\* What TypeOK says of the control state survives a move.
ControlOK ==
    /\ pc \in [Proc -> Step]
    /\ \A p \in Proc : pc[p] \in (IF p = Consumer THEN LoopStep ELSE HandlerStep)
    /\ reply \in [Request -> Answer]
    /\ finished \in [Topic -> SUBSET Nat]

LEMMA MovedControl ==
    ASSUME TypeOK, NEW p \in Proc, NEW step, Moved(p, step)
    PROVE  /\ ControlOK'
           /\ \A q \in Proc : q # p => pc'[q] = pc[q]
           /\ pc'[p] = step
<1>1. pc' \in [Proc -> Step]
  BY DEF TypeOK, Moved, Step
<1>2. /\ \A q \in Proc : q # p => pc'[q] = pc[q]
      /\ pc'[p] = step
  BY DEF TypeOK, Moved
<1>3. QED
  BY <1>1, <1>2 DEF TypeOK, Moved, ControlOK

-----------------------------------------------------------------------------
(* Types *)

\* The remaining parts of TypeOK, one per group of variables.
TableOK ==
    /\ row \in [Shipment -> Row]
    /\ signed \in [Shipment -> SUBSET User]

TopicsOK ==
    /\ log \in [Topic -> Seq(Message)]
    /\ pos \in [Topic -> Nat] /\ committed \in [Topic -> Nat]
    /\ \A t \in Topic : committed[t] <= pos[t] /\ pos[t] <= Len(log[t])
    /\ announced \in [Shipment -> Nat]

ContextOK ==
    /\ ctx \in [Proc -> Context]
    /\ pc[Consumer] # "idle" => ctx[Consumer].topic \in Topic
    /\ crashes \in Nat

LEMMA TypeParts ==
    /\ TypeOK <=> TableOK /\ TopicsOK /\ ContextOK /\ ControlOK
    /\ TypeOK' <=> TableOK' /\ TopicsOK' /\ ContextOK' /\ ControlOK'
  BY DEF TypeOK, TableOK, TopicsOK, ContextOK, ControlOK

\* A step of a handler or of the fund hold keeps the context's type when it
\* leaves ctx alone and does not wake an idle consumer.
LEMMA ContextKept ==
    ASSUME TypeOK, NEW p \in Proc, NEW step, Moved(p, step), pc[p] # "idle",
           UNCHANGED <<ctx, crashes>>
    PROVE  ContextOK'
  BY MovedControl DEF TypeOK, ContextOK, Proc

LEMMA AppendType ==
    ASSUME TypeOK, NEW t \in Topic, NEW s \in Shipment, NEW a \in Amount,
           NEW kind \in {"critical", "notice", "flat", "participants"},
           Publish(t, kind, s, a), UNCHANGED <<pos, committed, announced>>
    PROVE  TopicsOK'
<1>1. [kind |-> kind, shipment |-> s, amount |-> a] \in Message
  BY DEF Message
<1>2. log[t] \in Seq(Message)
  BY DEF TypeOK
<1>3. /\ log' \in [Topic -> Seq(Message)]
      /\ \A q \in Topic : Len(log[q]) <= Len(log'[q])
  BY <1>1, <1>2 DEF TypeOK, Publish
<1>4. QED
  BY <1>3 DEF TypeOK, TopicsOK
\* Every step keeps every variable in its type, given that suspended coroutines
\* hold the locals they need.
LEMMA TypeStep ==
    ASSUME TypeOK, ReadsStayTrue, [Next]_vars
    PROVE  TypeOK'
<1> USE TypeParts
<1>1. ASSUME NEW r \in Request, NEW s \in Shipment, NEW u \in User,
             NEW v \in User, SubmitSign(r, u, v, s)
      PROVE  TypeOK'
  <2>1. r \in Proc /\ r # Consumer /\ pc[r] = "new"
    BY <1>1, ConstantsAssumption DEF SubmitSign, Proc
  <2>2. \E step : Moved(r, step)
    BY <1>1, <2>1, GotoMoves, ReturnMoves
    DEF SubmitSign, HandlerStep, Answer
  <2>3. ControlOK' /\ pc'[Consumer] = pc[Consumer]
    BY <2>1, <2>2, MovedControl DEF Proc
  <2>4. ctx' \in [Proc -> Context]
    <3>1. ctx \in [Proc -> Context]
      BY DEF TypeOK
    <3>2. [ctx[r] EXCEPT !.shipment = s, !.user = v] \in Context
      BY <2>1, <3>1 DEF Context
    <3>3. ctx' = [ctx EXCEPT ![r] = [ctx[r] EXCEPT !.shipment = s, !.user = v]]
      BY <1>1, <3>1 DEF SubmitSign
    <3>4. QED
      BY <2>1, <3>1, <3>2, <3>3
  <2>5. ContextOK'
    BY <1>1, <2>1, <2>3, <2>4 DEF SubmitSign, TypeOK, ContextOK
  <2>6. TableOK' /\ TopicsOK'
    BY <1>1 DEF SubmitSign, TypeOK, TableOK, TopicsOK, db, broker
  <2>7. QED
    BY <2>3, <2>5, <2>6
<1>2. ASSUME NEW r \in Request, NEW s \in Shipment, NEW a \in Amount,
             SubmitTrigger(r, s, a)
      PROVE  TypeOK'
  <2>1. r \in Proc /\ r # Consumer /\ pc[r] = "new"
    BY <1>2, ConstantsAssumption DEF SubmitTrigger, Proc
  <2>2. \E step : Moved(r, step)
    BY <1>2, <2>1, GotoMoves DEF SubmitTrigger, HandlerStep, HoldStep
  <2>3. ControlOK' /\ pc'[Consumer] = pc[Consumer]
    BY <2>1, <2>2, MovedControl DEF Proc
  <2>4. ctx' \in [Proc -> Context]
    <3>1. ctx \in [Proc -> Context]
      BY DEF TypeOK
    <3>2. [ctx[r] EXCEPT !.shipment = s, !.amount = a] \in Context
      BY <2>1, <3>1 DEF Context
    <3>3. ctx' = [ctx EXCEPT ![r] = [ctx[r] EXCEPT !.shipment = s, !.amount = a]]
      BY <1>2, <3>1 DEF SubmitTrigger
    <3>4. QED
      BY <2>1, <3>1, <3>2, <3>3
  <2>5. ContextOK'
    BY <1>2, <2>1, <2>3, <2>4 DEF SubmitTrigger, TypeOK, ContextOK
  <2>6. TableOK' /\ TopicsOK'
    BY <1>2 DEF SubmitTrigger, TypeOK, TableOK, TopicsOK, db, broker
  <2>7. QED
    BY <2>3, <2>5, <2>6
<1>3. ASSUME NEW r \in Request, NEW s \in Shipment, SubmitDispute(r, s)
      PROVE  TypeOK'
  <2>1. r \in Proc /\ r # Consumer /\ pc[r] = "new"
    BY <1>3, ConstantsAssumption DEF SubmitDispute, Proc
  <2>2. \E step : Moved(r, step)
    BY <1>3, <2>1, ReturnMoves DEF SubmitDispute, Answer
  <2>3. ControlOK' /\ pc'[Consumer] = pc[Consumer]
    BY <2>1, <2>2, MovedControl DEF Proc
  <2>4. ctx' \in [Proc -> Context]
    <3>1. ctx \in [Proc -> Context]
      BY DEF TypeOK
    <3>2. [ctx[r] EXCEPT !.shipment = s] \in Context
      BY <2>1, <3>1 DEF Context
    <3>3. ctx' = [ctx EXCEPT ![r] = [ctx[r] EXCEPT !.shipment = s]]
      BY <1>3, <3>1 DEF SubmitDispute
    <3>4. QED
      BY <2>1, <3>1, <3>2, <3>3
  <2>5. ContextOK'
    BY <1>3, <2>1, <2>3, <2>4 DEF SubmitDispute, TypeOK, ContextOK
  <2>6. TableOK' /\ TopicsOK'
    BY <1>3 DEF SubmitDispute, TypeOK, TableOK, TopicsOK, db, broker
  <2>7. QED
    BY <2>3, <2>5, <2>6
<1>4. ASSUME NEW r \in Request, SignSelect(r)
      PROVE  TypeOK'
  <2>1. r \in Proc /\ r # Consumer /\ pc[r] = "sign_select"
    BY <1>4, ConstantsAssumption DEF SignSelect, Proc
  <2>2. ctx[r].shipment \in Shipment /\ row[ctx[r].shipment] \in Row
    BY <2>1 DEF ReadsStayTrue, Relies, TypeOK
  <2>3. \E step : Moved(r, step)
    <3>1. \/ Return(r, "404") \/ Return(r, "ALREADY_FINALIZED")
          \/ Goto(r, "sign_commit")
      BY <1>4, <2>2 DEF SignSelect, Row
    <3>2. "sign_commit" \in HandlerStep /\ "404" \in Answer
          /\ "ALREADY_FINALIZED" \in Answer
      BY DEF HandlerStep, Answer
    <3>3. CASE Return(r, "404")
      BY <2>1, <3>2, <3>3, ReturnMoves
    <3>4. CASE Return(r, "ALREADY_FINALIZED")
      BY <2>1, <3>2, <3>4, ReturnMoves
    <3>5. CASE Goto(r, "sign_commit")
      BY <2>1, <3>2, <3>5, GotoMoves
    <3>6. QED
      BY <3>1, <3>3, <3>4, <3>5
  <2>4. ControlOK' /\ pc'[Consumer] = pc[Consumer]
    BY <2>1, <2>3, MovedControl DEF Proc
  <2>5. ctx' \in [Proc -> Context]
    <3> DEFINE c == [ctx[r] EXCEPT !.seen = row[ctx[r].shipment].signers]
    <3>1. row[ctx[r].shipment].signers \subseteq User
      BY <2>2 DEF Row
    <3>2. c \in Context
      <4>1. ctx[r] \in Context
        BY <2>1 DEF TypeOK
      <4>2. row[ctx[r].shipment].signers \in SUBSET User
        BY <3>1
      <4>3. QED
        BY <4>1, <4>2 DEF Context
    <3>3. ctx \in [Proc -> Context] /\ ctx' = [ctx EXCEPT ![r] = c]
      BY <1>4 DEF SignSelect, TypeOK
    <3> HIDE DEF c
    <3>4. QED
      BY <2>1, <3>2, <3>3 DEF TypeOK
  <2>6. ContextOK'
    BY <1>4, <2>1, <2>4, <2>5 DEF SignSelect, TypeOK, ContextOK
  <2>7. TableOK' /\ TopicsOK'
    BY <1>4 DEF SignSelect, TypeOK, TableOK, TopicsOK, db, broker
  <2>8. QED
    BY <2>4, <2>6, <2>7
<1>5. ASSUME NEW r \in Request, SignCommit(r)
      PROVE  TypeOK'
  <2>1. r \in Proc /\ r # Consumer /\ pc[r] = "sign_commit"
    BY <1>5, ConstantsAssumption DEF SignCommit, Proc
  <2>2. /\ ctx[r].shipment \in Shipment /\ row[ctx[r].shipment] \in Row
        /\ ctx[r].user \in User /\ ctx[r].seen \subseteq User
    BY <2>1 DEF ReadsStayTrue, Relies, TypeOK, Context
  <2>3. \E step : Moved(r, step)
    BY <1>5, <2>1, GotoMoves, ReturnMoves, RaiseMoves
    DEF SignCommit, HandlerStep, Answer
  <2>4. ControlOK' /\ ContextOK'
    BY <1>5, <2>1, <2>3, MovedControl, ContextKept DEF SignCommit
  <2>5. SignedRow(r) \in Row
    BY <2>2 DEF SignedRow, Signers, Row
  <2>6. TableOK'
    BY <1>5, <2>2, <2>5 DEF SignCommit, TypeOK, TableOK
  <2>7. TopicsOK'
    BY <1>5 DEF SignCommit, TypeOK, TopicsOK, broker
  <2>8. QED
    BY <2>4, <2>6, <2>7
<1>6. ASSUME NEW r \in Request, FinalizeRow(r)
      PROVE  TypeOK'
  <2>1. r \in Proc /\ r # Consumer /\ pc[r] = "finalize_row"
    BY <1>6, ConstantsAssumption DEF FinalizeRow, Proc
  <2>2. \E step : Moved(r, step)
    BY <1>6, <2>1, GotoMoves, RaiseMoves DEF FinalizeRow, HandlerStep
  <2>3. ControlOK' /\ ContextOK'
    BY <1>6, <2>1, <2>2, MovedControl, ContextKept DEF FinalizeRow
  <2>4. TableOK'
    BY <1>6 DEF FinalizeRow, TypeOK, TableOK, Row
  <2>5. TopicsOK'
    BY <1>6 DEF FinalizeRow, TypeOK, TopicsOK, broker
  <2>6. QED
    BY <2>3, <2>4, <2>5
<1>7. ASSUME NEW r \in Request, FinalizePublish(r)
      PROVE  TypeOK'
  <2>1. r \in Proc /\ r # Consumer /\ pc[r] = "finalize_publish"
    BY <1>7, ConstantsAssumption DEF FinalizePublish, Proc
  <2>2. \E step : Moved(r, step)
    BY <1>7, <2>1, ReturnMoves, RaiseMoves DEF FinalizePublish, Answer
  <2>3. ControlOK' /\ ContextOK'
    BY <1>7, <2>1, <2>2, MovedControl, ContextKept DEF FinalizePublish
  <2>4. announced' \in [Shipment -> Nat]
    BY <1>7 DEF FinalizePublish, TypeOK
  <2>5. TableOK' /\ TopicsOK'
    BY <1>7, <2>4 DEF FinalizePublish, TypeOK, TableOK, TopicsOK, db
  <2>6. QED
    BY <2>3, <2>5
<1>8. ASSUME NEW p \in Proc, HoldSelect(p)
      PROVE  TypeOK'
  <2>1. pc[p] = "hold_select"
    BY <1>8 DEF HoldSelect
  <2>2. \E step : Moved(p, step)
    BY <1>8, <2>1, GotoMoves DEF HoldSelect, HandlerStep, LoopStep, HoldStep
  <2>3. ControlOK' /\ ContextOK'
    BY <1>8, <2>1, <2>2, MovedControl, ContextKept DEF HoldSelect
  <2>4. TableOK' /\ TopicsOK'
    BY <1>8 DEF HoldSelect, TypeOK, TableOK, TopicsOK, db, broker
  <2>5. QED
    BY <2>3, <2>4
<1>9. ASSUME NEW p \in Proc, HoldInsert(p)
      PROVE  TypeOK'
  <2>1. pc[p] = "hold_insert"
    BY <1>9 DEF HoldInsert
  <2>2. ctx[p].shipment \in Shipment /\ ctx[p].amount \in Nat
    BY <2>1, ConstantsAssumption DEF ReadsStayTrue, Relies, HoldStep
  <2>3. \E step : Moved(p, step)
    BY <1>9, <2>1, GotoMoves, RaiseMoves
    DEF HoldInsert, HandlerStep, LoopStep, HoldStep
  <2>4. ControlOK' /\ ContextOK'
    BY <1>9, <2>1, <2>3, MovedControl, ContextKept DEF HoldInsert
  <2>5. NewRow(p) \in Row
    BY <2>2 DEF NewRow, Row
  <2>6. TableOK'
    <3>1. /\ UNCHANGED signed
          /\ \/ UNCHANGED row
             \/ row' = [row EXCEPT ![ctx[p].shipment] = NewRow(p)]
      BY <1>9 DEF HoldInsert
    <3>2. row \in [Shipment -> Row] /\ signed \in [Shipment -> SUBSET User]
      BY DEF TypeOK
    <3>3. QED
      BY <2>5, <3>1, <3>2 DEF TableOK
  <2>7. TopicsOK'
    BY <1>9 DEF HoldInsert, TypeOK, TopicsOK, broker
  <2>8. QED
    BY <2>4, <2>6, <2>7
<1>10. ASSUME NEW p \in Proc, HoldPublish(p)
       PROVE  TypeOK'
  <2>1. pc[p] = "hold_publish"
    BY <1>10 DEF HoldPublish
  <2>2. ctx[p].shipment \in Shipment /\ ctx[p].amount \in Amount
    BY <2>1 DEF ReadsStayTrue, Relies, HoldStep
  <2>3. \E step : Moved(p, step)
    BY <1>10, <2>1, ReturnMoves, RaiseMoves DEF HoldPublish, Answer
  <2>4. ControlOK' /\ ContextOK'
    BY <1>10, <2>1, <2>3, MovedControl, ContextKept DEF HoldPublish
  <2>5. TopicsOK'
    <3>1. CASE UNCHANGED log
      BY <1>10, <3>1 DEF HoldPublish, TypeOK, TopicsOK
    <3>2. CASE Publish("escrow.psbt.request", "participants",
                       ctx[p].shipment, ctx[p].amount)
      BY <1>10, <2>2, <3>2, AppendType DEF HoldPublish, Topic
    <3>3. QED
      BY <1>10, <3>1, <3>2 DEF HoldPublish
  <2>6. TableOK'
    BY <1>10 DEF HoldPublish, TypeOK, TableOK, db
  <2>7. QED
    BY <2>4, <2>5, <2>6
<1>11. ASSUME NEW p \in Proc, DbError(p)
       PROVE  TypeOK'
  <2>1. pc[p] # "idle"
    BY <1>11 DEF DbError
  <2>2. \E step : Moved(p, step)
    BY <1>11, <2>1, RaiseMoves DEF DbError
  <2>3. ControlOK' /\ ContextOK'
    BY <1>11, <2>1, <2>2, MovedControl, ContextKept DEF DbError
  <2>4. TableOK' /\ TopicsOK'
    BY <1>11 DEF DbError, TypeOK, TableOK, TopicsOK, db, broker
  <2>5. QED
    BY <2>3, <2>4
<1>12. ASSUME NEW t \in Topic, Poll(t)
       PROVE  TypeOK'
  <2> DEFINE n == pos[t] + 1
             m == log[t][n]
  <2>1. Consumer \in Proc /\ pc[Consumer] = "idle"
    BY <1>12 DEF Poll, Proc
  <2>2. n \in Nat /\ n \in 1 .. Len(log[t]) /\ m \in Message
    <3>1. log[t] \in Seq(Message) /\ pos[t] \in Nat
      BY DEF TypeOK
    <3>2. n \in 1 .. Len(log[t])
      BY <1>12, <3>1 DEF Poll
    <3>3. QED
      BY <3>1, <3>2
  <2>3. TopicsOK'
    BY <1>12, <2>2 DEF Poll, TypeOK, TopicsOK
  <2>4. ControlOK'
    <3>1. CASE m.kind = "notice"
      <4>1. finished' \in [Topic -> SUBSET Nat]
        <5>1. finished \in [Topic -> SUBSET Nat]
          BY DEF TypeOK
        <5>2. finished' = [finished EXCEPT ![t] = @ \cup {n}]
          BY <1>12, <3>1 DEF Poll
        <5>3. QED
          BY <2>2, <5>1, <5>2
      <4>2. QED
        BY <1>12, <3>1, <4>1 DEF Poll, TypeOK, ControlOK
    <3>2. CASE m.kind # "notice"
      <4>1. Goto(Consumer, "hold_select") \/ Goto(Consumer, "dlq")
        BY <1>12, <3>2 DEF Poll
      <4>2. \E step : Moved(Consumer, step)
        BY <2>1, <4>1, GotoMoves DEF LoopStep, HoldStep
      <4>3. QED
        BY <2>1, <4>2, MovedControl
    <3>3. QED
      BY <3>1, <3>2
  <2>5. ContextOK'
    <3>1. ctx' = [ctx EXCEPT ![Consumer] =
                    [@ EXCEPT !.topic = t, !.shipment = m.shipment,
                              !.amount = IF m.kind = "critical"
                                         THEN AutoAmount ELSE m.amount]]
      BY <1>12 DEF Poll
    <3>2. /\ m.shipment \in Shipment /\ m.amount \in Amount
          /\ AutoAmount \in Amount
      BY <2>2, ConstantsAssumption DEF Message
    <3> DEFINE c == [ctx[Consumer] EXCEPT
                       !.topic = t, !.shipment = m.shipment,
                       !.amount = IF m.kind = "critical" THEN AutoAmount
                                  ELSE m.amount]
    <3>3. c \in Context /\ c.topic = t
      <4>1. ctx[Consumer] \in Context
        BY <2>1 DEF TypeOK
      <4>2. PICK a \in Amount : a = IF m.kind = "critical" THEN AutoAmount ELSE m.amount
        BY <3>2
      <4>3. PICK g \in Shipment : g = m.shipment
        BY <3>2
      <4>4. c = [ctx[Consumer] EXCEPT !.topic = t, !.shipment = g, !.amount = a]
        BY <4>2, <4>3
      <4>5. QED
        BY <4>1, <4>4 DEF Context
    <3>4. ctx \in [Proc -> Context] /\ ctx' = [ctx EXCEPT ![Consumer] = c]
      BY <3>1 DEF TypeOK
    <3>5. ctx' \in [Proc -> Context] /\ ctx'[Consumer].topic = t
      <4> HIDE DEF c, m, n
      <4>1. QED
        BY <2>1, <3>3, <3>4
    <3>6. crashes' \in Nat
      BY <1>12 DEF Poll, TypeOK
    <3>7. QED
      BY <3>5, <3>6 DEF ContextOK
  <2>6. TableOK'
    BY <1>12 DEF Poll, TypeOK, TableOK, db
  <2>7. QED
    BY <2>3, <2>4, <2>5, <2>6
<1>13. CASE DeadLetter
  <2>1. Consumer \in Proc /\ pc[Consumer] = "dlq"
    BY <1>13 DEF DeadLetter, Proc
  <2>2. \E step : Moved(Consumer, step)
    BY <1>13, <2>1, ReturnMoves DEF DeadLetter, Answer
  <2>3. ControlOK' /\ ContextOK'
    BY <1>13, <2>1, <2>2, MovedControl, ContextKept DEF DeadLetter
  <2>4. TableOK' /\ TopicsOK'
    BY <1>13 DEF DeadLetter, TypeOK, TableOK, TopicsOK, db, broker
  <2>5. QED
    BY <2>3, <2>4
<1>14. CASE AutoCommit
  <2>1. TopicsOK'
    BY <1>14 DEF AutoCommit, TypeOK, TopicsOK
  <2>2. TableOK' /\ ContextOK' /\ ControlOK'
    BY <1>14
    DEF AutoCommit, TypeOK, TableOK, ContextOK, ControlOK, db, control
  <2>3. QED
    BY <2>1, <2>2
<1>15. ASSUME NEW s \in Shipment, NEW a \in Amount, ShipmentRequest(s, a)
       PROVE  TypeOK'
  <2>1. TopicsOK'
    BY <1>15, AppendType DEF ShipmentRequest, Topic
  <2>2. TableOK' /\ ContextOK' /\ ControlOK'
    BY <1>15
    DEF ShipmentRequest, TypeOK, TableOK, ContextOK, ControlOK, db, control
  <2>3. QED
    BY <2>1, <2>2
<1>16. ASSUME NEW s \in Shipment, NEW severity \in {"critical", "notice"},
              AlertCreated(s, severity)
       PROVE  TypeOK'
  <2>1. TopicsOK'
    BY <1>16, AppendType, ConstantsAssumption DEF AlertCreated, Topic
  <2>2. TableOK' /\ ContextOK' /\ ControlOK'
    BY <1>16
    DEF AlertCreated, TypeOK, TableOK, ContextOK, ControlOK, db, control
  <2>3. QED
    BY <2>1, <2>2
<1>17. CASE Crash
  <2>1. TopicsOK'
    BY <1>17 DEF Crash, TypeOK, TopicsOK
  <2>2. ControlOK'
    BY <1>17
    DEF Crash, TypeOK, ControlOK, Step, HandlerStep, LoopStep, Answer
  <2>3. pc'[Consumer] = "idle"
    BY <1>17 DEF Crash, Proc
  <2>4. TableOK' /\ ContextOK'
    BY <1>17, <2>3 DEF Crash, TypeOK, TableOK, ContextOK, db
  <2>5. QED
    BY <2>1, <2>2, <2>4
<1>18. CASE UNCHANGED vars
  BY <1>18 DEF vars, TypeOK, TableOK, TopicsOK, ContextOK, ControlOK
<1>19. QED
  BY <1>1, <1>2, <1>3, <1>4, <1>5, <1>6, <1>7, <1>8, <1>9, <1>10, <1>11,
     <1>12, <1>13, <1>14, <1>15, <1>16, <1>17, <1>18
  DEF Next, Submit, Sign, Finalize, Hold, Consume, Environment
-----------------------------------------------------------------------------
(* The table only grows *)

\* No step removes a row, changes its amount, reopens it or forgets a signature.
Grows(s) ==
    /\ row[s].status # "absent" =>
          /\ row'[s].status # "absent"
          /\ row'[s].amount = row[s].amount
          /\ row[s].status = "finalized" => row'[s].status = "finalized"
    /\ signed[s] \subseteq signed'[s]

\* Three actions write to the table.
LEMMA TableSteps ==
    ASSUME [Next]_vars
    PROVE  \/ \E r \in Request : SignCommit(r) \/ FinalizeRow(r)
           \/ \E p \in Proc : HoldInsert(p)
           \/ UNCHANGED db
<1>1. CASE Submit
  BY <1>1 DEF Submit, SubmitSign, SubmitTrigger, SubmitDispute
<1>2. ASSUME NEW r \in Request, Sign(r) \/ Finalize(r)
      PROVE  SignCommit(r) \/ FinalizeRow(r) \/ UNCHANGED db
  BY <1>2 DEF Sign, Finalize, SignSelect, FinalizePublish
<1>3. ASSUME NEW p \in Proc, Hold(p) \/ DbError(p)
      PROVE  HoldInsert(p) \/ UNCHANGED db
  BY <1>3 DEF Hold, HoldSelect, HoldPublish, DbError
<1>4. CASE Consume
  BY <1>4 DEF Consume, Poll, DeadLetter
<1>5. CASE AutoCommit \/ Environment \/ Crash
  BY <1>5 DEF AutoCommit, Environment, ShipmentRequest, AlertCreated, Crash
<1>6. CASE UNCHANGED vars
  BY <1>6 DEF vars, db
<1>7. QED
  BY <1>1, <1>2, <1>3, <1>4, <1>5, <1>6 DEF Next

LEMMA TableGrows ==
    ASSUME TypeOK, ReadsStayTrue, [Next]_vars, NEW s \in Shipment
    PROVE  Grows(s)
<1>1. row \in [Shipment -> Row] /\ signed \in [Shipment -> SUBSET User]
  BY DEF TypeOK
<1>2. ASSUME NEW r \in Request, SignCommit(r)
      PROVE  Grows(s)
  <2>1. /\ row' = [row EXCEPT ![ctx[r].shipment] = SignedRow(r)]
        /\ signed' = [signed EXCEPT ![ctx[r].shipment] = @ \cup {ctx[r].user}]
    BY <1>2 DEF SignCommit
  <2>2. /\ ctx[r].shipment \in Shipment
        /\ row[ctx[r].shipment].status # "absent"
    BY <1>2 DEF SignCommit, ReadsStayTrue, Relies, Proc
  <2>3. /\ SignedRow(r).amount = row[ctx[r].shipment].amount
        /\ SignedRow(r).status \in {"finalized", row[ctx[r].shipment].status}
    BY <1>1, <2>2 DEF SignedRow, Row
  <2>4. signed[s] \subseteq signed'[s]
    BY <1>1, <2>1, <2>2
  <2>5. QED
    BY <1>1, <2>1, <2>2, <2>3, <2>4 DEF Grows
<1>3. ASSUME NEW r \in Request, FinalizeRow(r)
      PROVE  Grows(s)
  BY <1>1, <1>3 DEF FinalizeRow, Grows, Row
<1>4. ASSUME NEW p \in Proc, HoldInsert(p)
      PROVE  Grows(s)
  BY <1>1, <1>4 DEF HoldInsert, Grows
<1>5. CASE UNCHANGED db
  BY <1>5 DEF db, Grows
<1>6. QED
  BY <1>2, <1>3, <1>4, <1>5, TableSteps

-----------------------------------------------------------------------------
(* What suspended coroutines rely on *)

\* A coroutine that does not move keeps what it relies on.
LEMMA OthersRely ==
    ASSUME TypeOK, ReadsStayTrue, [Next]_vars, NEW q \in Proc,
           pc'[q] = pc[q], ctx'[q] = ctx[q]
    PROVE  Relies(q)'
  BY TableGrows DEF ReadsStayTrue, Relies, Grows, HoldStep

\* When p moves and ctx stays, only what p relies on at its new step is left.
LEMMA MoverRelies ==
    ASSUME TypeOK, ReadsStayTrue, [Next]_vars, NEW p \in Proc, NEW step,
           Moved(p, step), UNCHANGED ctx, Relies(p)'
    PROVE  \A q \in Proc : Relies(q)'
  BY MovedControl, OthersRely

LEMMA EarnedStep ==
    ASSUME TypeOK, ReadsStayTrue, [Next]_vars
    PROVE  RowsAreEarned'
<1>1. row \in [Shipment -> Row] /\ signed \in [Shipment -> SUBSET User]
  BY DEF TypeOK
<1>2. RowsAreEarned
  BY DEF ReadsStayTrue
<1>3. ASSUME NEW r \in Request, SignCommit(r)
      PROVE  RowsAreEarned'
  <2> DEFINE s == ctx[r].shipment
  <2>1. /\ row' = [row EXCEPT ![s] = SignedRow(r)]
        /\ signed' = [signed EXCEPT ![s] = @ \cup {ctx[r].user}]
    BY <1>3 DEF SignCommit
  <2>2. /\ s \in Shipment /\ row[s].status # "absent"
        /\ ctx[r].seen \subseteq signed[s]
    BY <1>3 DEF SignCommit, ReadsStayTrue, Relies, Proc
  <2>3. /\ SignedRow(r).signers \subseteq row[s].signers \cup Signers(r)
        /\ SignedRow(r).status # "absent"
    BY <1>1, <2>2 DEF SignedRow, Row
  <2>4. SignedRow(r).signers \subseteq signed[s] \cup {ctx[r].user}
    BY <1>2, <2>2, <2>3 DEF RowsAreEarned, Signers
  <2> HIDE DEF s
  <2>5. QED
    BY <1>1, <1>2, <2>1, <2>2, <2>3, <2>4 DEF RowsAreEarned
<1>4. ASSUME NEW r \in Request, FinalizeRow(r)
      PROVE  RowsAreEarned'
  BY <1>1, <1>2, <1>4 DEF FinalizeRow, RowsAreEarned, Row
<1>5. ASSUME NEW p \in Proc, HoldInsert(p)
      PROVE  RowsAreEarned'
  BY <1>1, <1>2, <1>5 DEF HoldInsert, NewRow, RowsAreEarned
<1>6. CASE UNCHANGED db
  BY <1>2, <1>6 DEF db, RowsAreEarned
<1>7. QED
  BY <1>3, <1>4, <1>5, <1>6, TableSteps

\* A coroutine that ended, or goes to the dead letter queue, relies on nothing.
LEMMA EndedRelies ==
    ASSUME NEW p, pc'[p] \in {"idle", "dlq", "done"}
    PROVE  Relies(p)'
  BY DEF Relies, HoldStep

LEMMA EndRelies ==
    ASSUME TypeOK, ReadsStayTrue, [Next]_vars, NEW p \in Proc, UNCHANGED ctx,
           pc[p] # "idle",
           \/ \E answer \in Answer : Return(p, answer)
           \/ Raise(p)
    PROVE  \A q \in Proc : Relies(q)'
  BY ReturnMoves, RaiseMoves, MovedControl, EndedRelies, MoverRelies

\* A request whose locals change is the only one to look at.
LEMMA CallerRelies ==
    ASSUME TypeOK, ReadsStayTrue, [Next]_vars, NEW r \in Proc, NEW c, NEW step,
           ctx' = [ctx EXCEPT ![r] = c], Moved(r, step), Relies(r)'
    PROVE  \A q \in Proc : Relies(q)'
<1>1. \A q \in Proc : q # r => pc'[q] = pc[q] /\ ctx'[q] = ctx[q]
  BY MovedControl DEF TypeOK
<1>2. QED
  BY <1>1, OthersRely

LEMMA ReliesStep ==
    ASSUME TypeOK, ReadsStayTrue, [Next]_vars
    PROVE  \A q \in Proc : Relies(q)'
<1>1. ASSUME NEW r \in Request, NEW s \in Shipment, NEW u \in User,
             NEW v \in User, SubmitSign(r, u, v, s)
      PROVE  \A q \in Proc : Relies(q)'
  <2> DEFINE c == [ctx[r] EXCEPT !.shipment = s, !.user = v]
  <2>1. r \in Proc /\ r # Consumer /\ pc[r] = "new"
    BY <1>1, ConstantsAssumption DEF SubmitSign, Proc
  <2>2. \E step \in {"sign_select", "done"} : Moved(r, step)
    BY <1>1, <2>1, GotoMoves, ReturnMoves
    DEF SubmitSign, HandlerStep, Answer
  <2>3. ctx' = [ctx EXCEPT ![r] = c]
    BY <1>1 DEF SubmitSign
  <2>4. c.shipment = s /\ c.user = v
    BY <2>1 DEF TypeOK, Context
  <2> HIDE DEF c
  <2>5. ctx'[r] = c
    BY <2>1, <2>3 DEF TypeOK
  <2>6. pc'[r] \in {"sign_select", "done"}
    BY <2>1, <2>2, MovedControl
  <2>7. Relies(r)'
    BY <2>4, <2>5, <2>6 DEF Relies, HoldStep
  <2>8. QED
    BY <2>1, <2>2, <2>3, <2>7, CallerRelies
<1>2. ASSUME NEW r \in Request, NEW s \in Shipment, NEW a \in Amount,
             SubmitTrigger(r, s, a)
      PROVE  \A q \in Proc : Relies(q)'
  <2> DEFINE c == [ctx[r] EXCEPT !.shipment = s, !.amount = a]
  <2>1. r \in Proc /\ r # Consumer /\ pc[r] = "new"
    BY <1>2, ConstantsAssumption DEF SubmitTrigger, Proc
  <2>2. Moved(r, "hold_select")
    BY <1>2, <2>1, GotoMoves DEF SubmitTrigger, HandlerStep, HoldStep
  <2>3. ctx' = [ctx EXCEPT ![r] = c]
    BY <1>2 DEF SubmitTrigger
  <2>4. c.shipment = s /\ c.amount = a
    BY <2>1 DEF TypeOK, Context
  <2> HIDE DEF c
  <2>5. ctx'[r] = c
    BY <2>1, <2>3 DEF TypeOK
  <2>6. pc'[r] = "hold_select"
    BY <2>1, <2>2, MovedControl
  <2>7. Relies(r)'
    BY <2>4, <2>5, <2>6 DEF Relies, HoldStep
  <2>8. QED
    BY <2>1, <2>2, <2>3, <2>7, CallerRelies
<1>3. ASSUME NEW r \in Request, NEW s \in Shipment, SubmitDispute(r, s)
      PROVE  \A q \in Proc : Relies(q)'
  <2> DEFINE c == [ctx[r] EXCEPT !.shipment = s]
  <2>1. r \in Proc /\ r # Consumer /\ pc[r] = "new"
    BY <1>3, ConstantsAssumption DEF SubmitDispute, Proc
  <2>2. Moved(r, "done")
    BY <1>3, <2>1, ReturnMoves DEF SubmitDispute, Answer
  <2>3. ctx' = [ctx EXCEPT ![r] = c]
    BY <1>3 DEF SubmitDispute
  <2>4. Relies(r)'
    BY <2>1, <2>2, MovedControl, EndedRelies
  <2> HIDE DEF c
  <2>5. QED
    BY <2>1, <2>2, <2>3, <2>4, CallerRelies
<1>4. ASSUME NEW r \in Request, SignSelect(r)
      PROVE  \A q \in Proc : Relies(q)'
  <2> DEFINE s == ctx[r].shipment
             c == [ctx[r] EXCEPT !.seen = row[s].signers]
  <2>1. r \in Proc /\ r # Consumer /\ pc[r] = "sign_select"
    BY <1>4, ConstantsAssumption DEF SignSelect, Proc
  <2>2. /\ s \in Shipment /\ ctx[r].user \in User
        /\ row[s].signers \subseteq signed[s] /\ row[s] \in Row
    BY <2>1 DEF ReadsStayTrue, Relies, RowsAreEarned, TypeOK
  <2>3. c.shipment = s /\ c.user = ctx[r].user /\ c.seen = row[s].signers
    BY <2>1 DEF TypeOK, Context
  <2>4. ctx' = [ctx EXCEPT ![r] = c] /\ UNCHANGED <<row, signed>>
    BY <1>4 DEF SignSelect, db
  <2>5. \/ row[s].status # "absent" /\ Goto(r, "sign_commit")
        \/ Return(r, "404") \/ Return(r, "ALREADY_FINALIZED")
    BY <1>4, <2>2 DEF SignSelect, Row
  <2> HIDE DEF s, c
  <2>6. \/ row[s].status # "absent" /\ Moved(r, "sign_commit")
        \/ Moved(r, "done")
    BY <2>1, <2>5, GotoMoves, ReturnMoves DEF HandlerStep, Answer
  <2>7. ctx'[r] = c
    BY <2>1, <2>4 DEF TypeOK
  <2>8. CASE row[s].status # "absent" /\ Moved(r, "sign_commit")
    <3>1. pc'[r] = "sign_commit"
      BY <2>1, <2>8, MovedControl
    <3>2. Relies(r)'
      BY <2>2, <2>3, <2>4, <2>7, <2>8, <3>1 DEF Relies, HoldStep
    <3>3. QED
      BY <2>1, <2>4, <2>8, <3>2, CallerRelies
  <2>9. CASE Moved(r, "done")
    <3>1. Relies(r)'
      BY <2>1, <2>9, MovedControl, EndedRelies
    <3>2. QED
      BY <2>1, <2>4, <2>9, <3>1, CallerRelies
  <2>10. QED
    BY <2>6, <2>8, <2>9
<1>5. ASSUME NEW r \in Request, SignCommit(r)
      PROVE  \A q \in Proc : Relies(q)'
  <2> DEFINE s == ctx[r].shipment
  <2>1. r \in Proc /\ r # Consumer /\ pc[r] = "sign_commit"
    BY <1>5, ConstantsAssumption DEF SignCommit, Proc
  <2>2. s \in Shipment
    BY <2>1 DEF Relies, ReadsStayTrue
  <2>3. UNCHANGED ctx
    BY <1>5 DEF SignCommit
  <2>4. CASE Return(r, "SIGNED")
    BY <2>1, <2>3, <2>4, EndRelies DEF Answer
  <2>5. CASE Cardinality(Signers(r)) >= THRESHOLD /\ Goto(r, "finalize_row")
    <3>1. row' = [row EXCEPT ![s] = SignedRow(r)] /\ row \in [Shipment -> Row]
      BY <1>5 DEF SignCommit, TypeOK
    <3>2. SignedRow(r).status = "finalized"
      BY <2>2, <2>5, <3>1 DEF SignedRow, Row
    <3>3. row'[s].status = "finalized"
      BY <2>2, <3>1, <3>2
    <3>4. Moved(r, "finalize_row")
      BY <2>1, <2>5, GotoMoves DEF HandlerStep
    <3>5. Relies(r)'
      BY <2>1, <2>2, <2>3, <3>3, <3>4, MovedControl DEF Relies, HoldStep
    <3>6. QED
      BY <2>1, <2>3, <3>4, <3>5, MoverRelies
  <2>6. CASE Raise(r)
    BY <2>1, <2>3, <2>6, EndRelies
  <2>7. QED
    BY <1>5, <2>4, <2>5, <2>6 DEF SignCommit
<1>6. ASSUME NEW r \in Request, FinalizeRow(r)
      PROVE  \A q \in Proc : Relies(q)'
  <2>1. r \in Proc /\ r # Consumer /\ pc[r] = "finalize_row"
    BY <1>6, ConstantsAssumption DEF FinalizeRow, Proc
  <2>2. ctx[r].shipment \in Shipment /\ row[ctx[r].shipment].status = "finalized"
    BY <2>1 DEF Relies, ReadsStayTrue
  <2>3. UNCHANGED ctx
    BY <1>6 DEF FinalizeRow
  <2>4. CASE Raise(r)
    BY <2>1, <2>3, <2>4, EndRelies
  <2>5. CASE Goto(r, "finalize_publish")
    <3>1. Moved(r, "finalize_publish")
      BY <2>1, <2>5, GotoMoves DEF HandlerStep
    <3>2. row'[ctx[r].shipment].status = "finalized"
      BY <2>2, TableGrows DEF Grows
    <3>3. Relies(r)'
      BY <2>1, <2>2, <2>3, <3>1, <3>2, MovedControl DEF Relies, HoldStep
    <3>4. QED
      BY <2>1, <2>3, <3>1, <3>3, MoverRelies
  <2>6. QED
    BY <1>6, <2>4, <2>5 DEF FinalizeRow
<1>7. ASSUME NEW r \in Request, FinalizePublish(r)
      PROVE  \A q \in Proc : Relies(q)'
  BY <1>7, EndRelies DEF FinalizePublish, Proc, Answer
<1>8. ASSUME NEW p \in Proc, HoldSelect(p)
      PROVE  \A q \in Proc : Relies(q)'
  <2> DEFINE s == ctx[p].shipment
             step == IF row[s].status = "absent"
                     THEN "hold_insert" ELSE "hold_publish"
  <2>1. pc[p] = "hold_select" /\ UNCHANGED <<row, ctx>>
    BY <1>8 DEF HoldSelect, db
  <2>2. s \in Shipment /\ ctx[p].amount \in Amount
    BY <2>1 DEF Relies, ReadsStayTrue, HoldStep
  <2>3. Moved(p, step)
    BY <1>8, GotoMoves DEF HoldSelect, HandlerStep, LoopStep, HoldStep
  <2>4. pc'[p] = step
    BY <2>3, MovedControl
  <2>5. Relies(p)'
    BY <2>1, <2>2, <2>4 DEF Relies, HoldStep
  <2>6. QED
    BY <2>1, <2>3, <2>5, MoverRelies
<1>9. ASSUME NEW p \in Proc, HoldInsert(p)
      PROVE  \A q \in Proc : Relies(q)'
  <2> DEFINE s == ctx[p].shipment
  <2>1. pc[p] = "hold_insert" /\ UNCHANGED ctx
    BY <1>9 DEF HoldInsert
  <2>2. s \in Shipment /\ ctx[p].amount \in Amount
    BY <2>1 DEF Relies, ReadsStayTrue, HoldStep
  <2>3. CASE Raise(p)
    BY <2>1, <2>3, EndRelies
  <2>4. CASE ~Raise(p)
    <3>1. row' = [row EXCEPT ![s] = NewRow(p)] /\ Goto(p, "hold_publish")
      BY <1>9, <2>4 DEF HoldInsert
    <3>2. row'[s].status # "absent"
      BY <2>2, <3>1 DEF TypeOK, NewRow
    <3>3. Moved(p, "hold_publish")
      BY <3>1, GotoMoves DEF HandlerStep, LoopStep, HoldStep
    <3>4. pc'[p] = "hold_publish"
      BY <3>3, MovedControl
    <3>5. Relies(p)'
      BY <2>1, <2>2, <3>2, <3>4 DEF Relies, HoldStep
    <3>6. QED
      BY <2>1, <3>3, <3>5, MoverRelies
  <2>5. QED
    BY <2>3, <2>4
<1>10. ASSUME NEW p \in Proc, HoldPublish(p)
       PROVE  \A q \in Proc : Relies(q)'
  BY <1>10, EndRelies DEF HoldPublish, Answer
<1>11. ASSUME NEW p \in Proc, DbError(p)
       PROVE  \A q \in Proc : Relies(q)'
  BY <1>11, EndRelies DEF DbError
<1>12. ASSUME NEW t \in Topic, Poll(t)
       PROVE  \A q \in Proc : Relies(q)'
  <2> DEFINE m == log[t][pos[t] + 1]
             c == [ctx[Consumer] EXCEPT
                     !.topic = t, !.shipment = m.shipment,
                     !.amount = IF m.kind = "critical" THEN AutoAmount
                                ELSE m.amount]
  <2>1. Consumer \in Proc /\ pc[Consumer] = "idle"
    BY <1>12 DEF Poll, Proc
  <2>2. m \in Message
    <3>1. log[t] \in Seq(Message) /\ pos[t] \in Nat
      BY DEF TypeOK
    <3>2. pos[t] + 1 \in 1 .. Len(log[t])
      BY <1>12, <3>1 DEF Poll
    <3>3. QED
      BY <3>1, <3>2
  <2>3. /\ m.shipment \in Shipment
        /\ (IF m.kind = "critical" THEN AutoAmount ELSE m.amount) \in Amount
    BY <2>2, ConstantsAssumption DEF Message
  <2>4. ctx' = [ctx EXCEPT ![Consumer] = c]
    BY <1>12 DEF Poll
  <2>5. c.shipment \in Shipment /\ c.amount \in Amount
    BY <2>1, <2>3 DEF TypeOK, Context
  <2>6. \/ Goto(Consumer, "hold_select") \/ Goto(Consumer, "dlq")
        \/ UNCHANGED pc
    BY <1>12 DEF Poll
  <2> HIDE DEF m, c
  <2>7. ctx'[Consumer] = c /\ \A q \in Proc : q # Consumer => ctx'[q] = ctx[q]
    BY <2>1, <2>4 DEF TypeOK
  <2>8. /\ pc'[Consumer] \in {"hold_select", "dlq", "idle"}
        /\ \A q \in Proc : q # Consumer => pc'[q] = pc[q]
    BY <2>1, <2>6 DEF Goto, TypeOK
  <2>9. Relies(Consumer)'
    BY <2>5, <2>7, <2>8 DEF Relies, HoldStep
  <2>10. QED
    BY <2>7, <2>8, <2>9, OthersRely
<1>13. CASE DeadLetter
  <2>1. /\ Consumer \in Proc /\ pc[Consumer] = "dlq" /\ UNCHANGED ctx
        /\ Return(Consumer, "none") /\ "none" \in Answer
    BY <1>13 DEF DeadLetter, Proc, Answer
  <2>2. QED
    BY <2>1, EndRelies
<1>14. CASE AutoCommit \/ Environment
  BY <1>14, OthersRely
  DEF AutoCommit, Environment, ShipmentRequest, AlertCreated, control
<1>15. CASE Crash
  <2>1. \A q \in Proc : pc'[q] \in {"idle", "new", "done"}
    BY <1>15 DEF Crash
  <2>2. QED
    BY <2>1 DEF Relies, HoldStep
<1>16. CASE UNCHANGED vars
  BY <1>16, OthersRely DEF vars
<1>17. QED
  BY <1>1, <1>2, <1>3, <1>4, <1>5, <1>6, <1>7, <1>8, <1>9, <1>10, <1>11,
     <1>12, <1>13, <1>14, <1>15, <1>16
  DEF Next, Submit, Sign, Finalize, Hold, Consume

-----------------------------------------------------------------------------
(* The inductive invariant *)

\* TypeOK alone is not inductive: a coroutine that goes on writes locals it
\* filled in an earlier step.  ReadsStayTrue says what those locals hold.
Inv == TypeOK /\ ReadsStayTrue

LEMMA InitInv == Init => Inv
<1> SUFFICES ASSUME Init PROVE Inv
  OBVIOUS
<1>1. Absent \in Row /\ Blank \in Context
  BY DEF Absent, Row, Blank, Context
<1>2. Consumer \in Proc /\ \A p \in Proc : p = Consumer \/ p \in Request
  BY DEF Proc
<1>3. /\ row \in [Shipment -> Row] /\ ctx \in [Proc -> Context]
      /\ \A t \in Topic : log[t] = <<>> /\ Len(log[t]) = 0
      /\ log \in [Topic -> Seq(Message)]
  BY <1>1 DEF Init
<1>4. /\ pc \in [Proc -> Step]
      /\ \A p \in Proc : pc[p] = (IF p = Consumer THEN "idle" ELSE "new")
      /\ \A p \in Proc : pc[p] \in (IF p = Consumer THEN LoopStep ELSE HandlerStep)
  BY <1>2 DEF Init, Step, LoopStep, HandlerStep
<1>5. TypeOK
  BY <1>2, <1>3, <1>4 DEF Init, TypeOK, Answer
<1>6. RowsAreEarned
  BY DEF Init, RowsAreEarned, Absent
<1>7. \A p \in Proc : Relies(p)
  BY <1>4 DEF Relies, HoldStep
<1>8. QED
  BY <1>5, <1>6, <1>7 DEF Inv, ReadsStayTrue

LEMMA InvStep == Inv /\ [Next]_vars => Inv'
  BY TypeStep, EarnedStep, ReliesStep DEF Inv, ReadsStayTrue

\* The inductive invariant holds in every reachable state.
THEOREM Invariance == Spec => []Inv
  BY InitInv, InvStep, PTL DEF Spec

\* Every variable keeps its type (escrow.py, api.py, consumer.py): no handler
\* writes a local it never set, and no offset passes the end of its topic.
THEOREM TypeCorrect == Spec => []TypeOK
<1>1. Inv => TypeOK
  BY DEF Inv
<1>2. QED
  BY <1>1, Invariance, PTL

\* What a handler read before an await is still true after it, for any number
\* of concurrent requests, failures and crashes (api.py:46-74).
THEOREM ReadsAreStable == Spec => []ReadsStayTrue
<1>1. Inv => ReadsStayTrue
  BY DEF Inv
<1>2. QED
  BY <1>1, Invariance, PTL

-----------------------------------------------------------------------------
(* The threshold *)

\* The signers a request counts are users who signed, its own user among them.
LEMMA SignersSigned ==
    ASSUME Inv, NEW r \in Request, SignCommit(r)
    PROVE  /\ ctx[r].shipment \in Shipment
           /\ row[ctx[r].shipment].status # "absent"
           /\ ctx[r].user \in User
           /\ Signers(r) \subseteq signed'[ctx[r].shipment]
           /\ signed'[ctx[r].shipment] \subseteq User
<1>1. r \in Proc /\ pc[r] = "sign_commit"
  BY DEF SignCommit, Proc
<1>2. /\ ctx[r].shipment \in Shipment /\ ctx[r].user \in User
      /\ row[ctx[r].shipment].status # "absent"
      /\ ctx[r].seen \subseteq signed[ctx[r].shipment]
  BY <1>1 DEF Inv, ReadsStayTrue, Relies
<1>3. /\ signed \in [Shipment -> SUBSET User]
      /\ signed' = [signed EXCEPT ![ctx[r].shipment] = @ \cup {ctx[r].user}]
  BY DEF Inv, TypeOK, SignCommit
<1>4. signed'[ctx[r].shipment] = signed[ctx[r].shipment] \cup {ctx[r].user}
  BY <1>2, <1>3
<1>5. QED
  BY <1>2, <1>3, <1>4 DEF Signers

LEMMA CardinalityGrows ==
    ASSUME NEW S, NEW T, S \subseteq T, T \subseteq User,
           Cardinality(S) >= THRESHOLD
    PROVE  Cardinality(T) >= THRESHOLD
<1>1. IsFiniteSet(T)
  BY FS_Subset, ConstantsAssumption
<1>2. IsFiniteSet(S) /\ Cardinality(S) <= Cardinality(T)
  BY <1>1, FS_Subset
<1>3. Cardinality(S) \in Nat /\ Cardinality(T) \in Nat
  BY <1>1, <1>2, FS_CardinalityType
<1>4. QED
  BY <1>2, <1>3, ConstantsAssumption

LEMMA ThresholdStep ==
    ASSUME Inv, FinalizedByThreshold, [Next]_vars
    PROVE  FinalizedByThreshold'
<1>1. /\ row \in [Shipment -> Row] /\ signed \in [Shipment -> SUBSET User]
      /\ signed' \in [Shipment -> SUBSET User]
  BY InvStep DEF Inv, TypeOK
<1>2. ASSUME NEW s \in Shipment, row[s].status = "finalized"
      PROVE  Cardinality(signed'[s]) >= THRESHOLD
  <2>1. signed[s] \subseteq signed'[s] /\ signed'[s] \subseteq User
    BY <1>1, TableGrows DEF Inv, Grows
  <2>2. Cardinality(signed[s]) >= THRESHOLD
    BY <1>2 DEF FinalizedByThreshold
  <2>3. QED
    BY <2>1, <2>2, CardinalityGrows
<1>3. ASSUME NEW s \in Shipment, row[s].status # "finalized",
             row'[s].status = "finalized"
      PROVE  Cardinality(signed'[s]) >= THRESHOLD
  <2>1. ASSUME NEW r \in Request, SignCommit(r)
        PROVE  Cardinality(signed'[s]) >= THRESHOLD
    <3>1. row' = [row EXCEPT ![ctx[r].shipment] = SignedRow(r)]
      BY <2>1 DEF SignCommit
    <3>2. s = ctx[r].shipment /\ SignedRow(r).status = "finalized"
      BY <1>1, <1>3, <3>1
    <3>3. Cardinality(Signers(r)) >= THRESHOLD
      <4>1. row[s] \in Row
        BY <1>1
      <4>2. QED
        BY <1>3, <3>2, <4>1 DEF SignedRow, Row
    <3>4. QED
      BY <2>1, <3>2, <3>3, SignersSigned, CardinalityGrows
  <2>2. ASSUME NEW r \in Request, FinalizeRow(r)
        PROVE  FALSE
    <3>1. row[ctx[r].shipment].status = "finalized"
      BY <2>2 DEF Inv, ReadsStayTrue, Relies, FinalizeRow, Proc
    <3>2. QED
      BY <1>1, <1>3, <2>2, <3>1 DEF FinalizeRow
  <2>3. ASSUME NEW p \in Proc, HoldInsert(p)
        PROVE  FALSE
    BY <1>1, <1>3, <2>3 DEF HoldInsert, NewRow
  <2>4. QED
    BY <1>3, <2>1, <2>2, <2>3, TableSteps DEF db
<1>4. QED
  BY <1>2, <1>3 DEF FinalizedByThreshold

\* An escrow is finalised only after THRESHOLD different participants have
\* committed a signature, for any number of them and any interleaving of their
\* requests (api.py:57-75).
THEOREM ThresholdIsMet == Spec => []FinalizedByThreshold
<1>1. Init => FinalizedByThreshold
  BY DEF Init, FinalizedByThreshold, Absent
<1>2. Inv /\ FinalizedByThreshold /\ [Next]_vars => FinalizedByThreshold'
  BY ThresholdStep
<1>3. QED
  BY <1>1, <1>2, Invariance, PTL DEF Spec

-----------------------------------------------------------------------------
(* The rows, the announcements and the requests for the crypto service *)

LEMMA TermsStep ==
    ASSUME Inv, [Next]_vars
    PROVE  [\A s \in Shipment :
              row[s].status # "absent" =>
                 /\ row'[s].amount = row[s].amount
                 /\ row'[s].status # "absent"
                 /\ row[s].status = "finalized" => row'[s].status = "finalized"
           ]_row
  BY TableGrows DEF Inv, Grows

\* No step reopens or removes an escrow or changes its amount, for any number
\* of requests, messages and crashes (api.py:60-82, escrow.py:29-42, 77-84).
THEOREM TermsStay == Spec => TermsAreFixed
  BY TermsStep, Invariance, PTL DEF Spec, TermsAreFixed

\* One action announces.
LEMMA AnnouncingStep ==
    ASSUME Inv, [Next]_vars
    PROVE  \/ \E r \in Request :
                /\ FinalizePublish(r)
                /\ UNCHANGED row
                /\ announced' = [announced EXCEPT ![ctx[r].shipment] = @ + 1]
                /\ ctx[r].shipment \in Shipment
                /\ row[ctx[r].shipment].status = "finalized"
           \/ UNCHANGED announced
<1>1. CASE Submit
  BY <1>1 DEF Submit, SubmitSign, SubmitTrigger, SubmitDispute, broker
<1>2. ASSUME NEW r \in Request, Sign(r) \/ FinalizeRow(r)
      PROVE  UNCHANGED announced
  BY <1>2 DEF Sign, SignSelect, SignCommit, FinalizeRow, broker
<1>3. ASSUME NEW r \in Request, FinalizePublish(r), ~UNCHANGED announced
      PROVE  /\ UNCHANGED row
             /\ announced' = [announced EXCEPT ![ctx[r].shipment] = @ + 1]
             /\ ctx[r].shipment \in Shipment
             /\ row[ctx[r].shipment].status = "finalized"
  <2>1. r \in Proc /\ pc[r] = "finalize_publish"
    BY <1>3 DEF FinalizePublish, Proc
  <2>2. QED
    BY <1>3, <2>1 DEF FinalizePublish, Inv, ReadsStayTrue, Relies, db
<1>4. ASSUME NEW p \in Proc, Hold(p) \/ DbError(p)
      PROVE  UNCHANGED announced
  BY <1>4 DEF Hold, HoldSelect, HoldInsert, HoldPublish, DbError, broker
<1>5. CASE Consume
  BY <1>5 DEF Consume, Poll, DeadLetter, broker
<1>6. CASE AutoCommit \/ Environment \/ Crash
  BY <1>6 DEF AutoCommit, Environment, ShipmentRequest, AlertCreated, Crash
<1>7. CASE UNCHANGED vars
  BY <1>7 DEF vars
<1>8. QED
  BY <1>1, <1>2, <1>3, <1>4, <1>5, <1>6, <1>7 DEF Next, Finalize

LEMMA AnnouncedStep ==
    ASSUME Inv, AnnouncedIsFinalized, [Next]_vars
    PROVE  AnnouncedIsFinalized'
<1>1. announced \in [Shipment -> Nat]
  BY DEF Inv, TypeOK
<1>2. \A s \in Shipment :
         row[s].status = "finalized" => row'[s].status = "finalized"
  BY TableGrows DEF Inv, Grows
<1>3. QED
  BY <1>1, <1>2, AnnouncingStep DEF AnnouncedIsFinalized

\* The event never runs ahead of the row, whoever finalises (escrow.py:77-90).
THEOREM AnnouncedAfterFinalized == Spec => []AnnouncedIsFinalized
<1>1. Init => AnnouncedIsFinalized
  BY DEF Init, AnnouncedIsFinalized
<1>2. Inv /\ AnnouncedIsFinalized /\ [Next]_vars => AnnouncedIsFinalized'
  BY AnnouncedStep
<1>3. QED
  BY <1>1, <1>2, Invariance, PTL DEF Spec

\* Three actions append to a topic, and a request for the crypto service is
\* appended for a shipment that has a row.
LEMMA AppendingStep ==
    ASSUME Inv, [Next]_vars
    PROVE  \/ UNCHANGED log
           \/ \E t \in Topic, s \in Shipment, a \in Amount,
                 kind \in {"critical", "notice", "flat", "participants"} :
                 /\ Publish(t, kind, s, a)
                 /\ UNCHANGED row
                 /\ kind = "participants" => row[s].status # "absent"
<1>1. CASE Submit
  BY <1>1 DEF Submit, SubmitSign, SubmitTrigger, SubmitDispute, broker
<1>2. ASSUME NEW r \in Request, Sign(r) \/ Finalize(r)
      PROVE  UNCHANGED log
  BY <1>2 DEF Sign, Finalize, SignSelect, SignCommit, FinalizeRow,
              FinalizePublish, broker
<1>3. ASSUME NEW p \in Proc, HoldSelect(p) \/ HoldInsert(p) \/ DbError(p)
      PROVE  UNCHANGED log
  BY <1>3 DEF HoldSelect, HoldInsert, DbError, broker
<1>4. ASSUME NEW p \in Proc, HoldPublish(p), ~UNCHANGED log
      PROVE  /\ Publish("escrow.psbt.request", "participants",
                        ctx[p].shipment, ctx[p].amount)
             /\ UNCHANGED row
             /\ ctx[p].shipment \in Shipment /\ ctx[p].amount \in Amount
             /\ row[ctx[p].shipment].status # "absent"
  BY <1>4 DEF HoldPublish, Inv, ReadsStayTrue, Relies, HoldStep, db
<1>5. CASE Consume
  BY <1>5 DEF Consume, Poll, DeadLetter, broker
<1>6. CASE AutoCommit \/ Crash
  BY <1>6 DEF AutoCommit, Crash
<1>7. ASSUME NEW s \in Shipment, NEW a \in Amount, ShipmentRequest(s, a)
      PROVE  /\ Publish("escrow.psbt.request", "flat", s, a)
             /\ UNCHANGED row
  BY <1>7 DEF ShipmentRequest, db
<1>8. ASSUME NEW s \in Shipment, NEW severity \in {"critical", "notice"},
             AlertCreated(s, severity)
      PROVE  /\ Publish("alert.events", severity, s, AutoAmount)
             /\ UNCHANGED row
             /\ AutoAmount \in Amount
  BY <1>8, ConstantsAssumption DEF AlertCreated, db
<1>9. CASE Environment
  BY <1>7, <1>8, <1>9 DEF Environment, Topic
<1>10. CASE UNCHANGED vars
  BY <1>10 DEF vars
<1>11. ASSUME NEW p \in Proc, HoldPublish(p), ~UNCHANGED log
       PROVE  \E t \in Topic, s \in Shipment, a \in Amount,
                 kind \in {"critical", "notice", "flat", "participants"} :
                 /\ Publish(t, kind, s, a)
                 /\ UNCHANGED row
                 /\ kind = "participants" => row[s].status # "absent"
  BY <1>4, <1>11 DEF Topic
<1>12. QED
  BY <1>1, <1>2, <1>3, <1>5, <1>6, <1>9, <1>10, <1>11 DEF Next, Hold

LEMMA RequestStep ==
    ASSUME Inv, RequestHasRow, [Next]_vars
    PROVE  RequestHasRow'
<1> DEFINE q == "escrow.psbt.request"
<1>1. q \in Topic /\ log \in [Topic -> Seq(Message)] /\ log[q] \in Seq(Message)
  BY DEF Inv, TypeOK, Topic
<1>2. \A s \in Shipment : row[s].status # "absent" => row'[s].status # "absent"
  BY TableGrows DEF Inv, Grows
<1>3. \A i \in DOMAIN log[q] : log[q][i].shipment \in Shipment
  <2>1. ASSUME NEW i \in DOMAIN log[q]
        PROVE  log[q][i] \in Message
    BY <1>1
  <2>2. QED
    BY <2>1 DEF Message
<1>4. CASE UNCHANGED log
  BY <1>2, <1>3, <1>4 DEF RequestHasRow
<1>5. ASSUME NEW t \in Topic, NEW s \in Shipment, NEW a \in Amount,
             NEW kind \in {"critical", "notice", "flat", "participants"},
             Publish(t, kind, s, a), UNCHANGED row,
             kind = "participants" => row[s].status # "absent"
      PROVE  RequestHasRow'
  <2> DEFINE m == [kind |-> kind, shipment |-> s, amount |-> a]
  <2>1. m \in Message
    BY DEF Message
  <2>2. m.kind = kind /\ m.shipment = s
    OBVIOUS
  <2>3. log' = [log EXCEPT ![t] = Append(@, m)]
    BY <1>5 DEF Publish
  <2> HIDE DEF m
  <2>4. CASE t # q
    BY <1>1, <1>5, <2>3, <2>4 DEF RequestHasRow
  <2>5. CASE t = q
    <3>1. log'[q] = Append(log[q], m)
      BY <1>1, <2>3, <2>5
    <3>2. \A i \in DOMAIN log'[q] :
             \/ i \in DOMAIN log[q] /\ log'[q][i] = log[q][i]
             \/ log'[q][i] = m
      BY <1>1, <2>1, <3>1
    <3>3. QED
      BY <1>5, <2>2, <3>2 DEF RequestHasRow
  <2>6. QED
    BY <2>4, <2>5
<1>6. QED
  BY <1>4, <1>5, AppendingStep

\* A request for the crypto service never concerns a shipment without an escrow
\* row, whoever wins the race on the primary key (escrow.py:33-66).
THEOREM RequestsHaveRows == Spec => []RequestHasRow
<1>1. Init => RequestHasRow
  BY DEF Init, RequestHasRow, Topic
<1>2. Inv /\ RequestHasRow /\ [Next]_vars => RequestHasRow'
  BY RequestStep
<1>3. QED
  BY <1>1, <1>2, Invariance, PTL DEF Spec

-----------------------------------------------------------------------------
(* Messages and offsets *)

\* Until the first crash, each message the loop was handed is processed or being
\* processed, whether or not the timer has committed its offset.
HandedIsProcessed ==
    crashes = 0 =>
        \A t \in Topic : \A n \in 1 .. pos[t] :
            n \in finished[t] \/ InFlight(t, n)

\* The consumer stays where it is.
Elsewhere ==
    /\ UNCHANGED <<pos, crashes, finished>>
    /\ pc'[Consumer] = pc[Consumer]
    /\ ctx'[Consumer] = ctx[Consumer]

\* The consumer is at work on a message and goes on with it.
WorksOn ==
    /\ UNCHANGED <<pos, crashes, ctx, finished>>
    /\ pc[Consumer] # "idle" /\ pc'[Consumer] # "idle"

\* The consumer is done with the message it was handed.
Ends ==
    /\ UNCHANGED <<pos, crashes>>
    /\ pc[Consumer] # "idle"
    /\ finished' = [finished EXCEPT ![ctx[Consumer].topic] =
                       @ \cup {pos[ctx[Consumer].topic]}]

\* The loop is handed a message: it goes to work on it, or is done with it.
Takes(t) ==
    /\ pc[Consumer] = "idle"
    /\ pos' = [pos EXCEPT ![t] = pos[t] + 1]
    /\ crashes' = crashes
    /\ \/ finished' = finished /\ pc'[Consumer] # "idle" /\ ctx'[Consumer].topic = t
       \/ finished' = [finished EXCEPT ![t] = @ \cup {pos[t] + 1}]

\* A coroutine that moves is a handler, or the consumer within its message.
LEMMA CoroutineMoves ==
    ASSUME TypeOK, NEW p \in Proc, UNCHANGED <<pos, ctx, crashes>>,
           pc[p] # "idle",
           \/ \E step : step # "idle" /\ Goto(p, step)
           \/ \E answer : Return(p, answer)
           \/ Raise(p)
    PROVE  Elsewhere \/ WorksOn \/ Ends
<1>0. pc \in [Proc -> Step] /\ Consumer \in Proc
  BY DEF TypeOK, Proc
<1>1. ASSUME NEW step, step # "idle", Goto(p, step)
      PROVE  Elsewhere \/ WorksOn
  BY <1>0, <1>1 DEF Goto, Elsewhere, WorksOn
<1>2. ASSUME NEW answer, Return(p, answer)
      PROVE  Elsewhere \/ Ends
  BY <1>0, <1>2 DEF Return, Elsewhere, Ends
<1>3. CASE Raise(p)
  BY <1>1, <1>2, <1>3 DEF Raise
<1>4. QED
  BY <1>1, <1>2, <1>3

\* What a step does to the message the consumer is at.
LEMMA ConsumerSteps ==
    ASSUME Inv, [Next]_vars
    PROVE  \/ Elsewhere \/ WorksOn \/ Ends
           \/ \E t \in Topic : Takes(t)
           \/ crashes' = crashes + 1
<1>0. /\ TypeOK /\ ctx \in [Proc -> Context] /\ pc \in [Proc -> Step]
      /\ Consumer \in Proc /\ Consumer \notin Request
  BY ConstantsAssumption DEF Inv, TypeOK, Proc
<1>1. ASSUME NEW r \in Request, NEW s \in Shipment, NEW u \in User, NEW v \in User,
             SubmitSign(r, u, v, s)
      PROVE  Elsewhere
  BY <1>0, <1>1 DEF SubmitSign, Goto, Return, Elsewhere, broker, Proc
<1>2. ASSUME NEW r \in Request, NEW s \in Shipment, NEW a \in Amount,
             SubmitTrigger(r, s, a)
      PROVE  Elsewhere
  BY <1>0, <1>2 DEF SubmitTrigger, Goto, Elsewhere, broker, Proc
<1>3. ASSUME NEW r \in Request, NEW s \in Shipment, SubmitDispute(r, s)
      PROVE  Elsewhere
  BY <1>0, <1>3 DEF SubmitDispute, Return, Elsewhere, broker, Proc
<1>4. ASSUME NEW r \in Request, Sign(r) \/ Finalize(r)
      PROVE  Elsewhere
  <2>1. r \in Proc /\ r # Consumer
    BY <1>0 DEF Proc
  <2>2. CASE SignSelect(r)
    <3>1. \/ Goto(r, "sign_commit")
          \/ Return(r, "404")
          \/ Return(r, "ALREADY_FINALIZED")
      <4>1. row[ctx[r].shipment].status \in {"absent", "pending_signatures", "finalized"}
        BY <2>1, <2>2 DEF Inv, TypeOK, ReadsStayTrue, Relies, SignSelect, Row
      <4>2. QED
        BY <2>2, <4>1 DEF SignSelect
    <3>2. /\ UNCHANGED <<pos, crashes>>
          /\ ctx'[Consumer] = ctx[Consumer]
      BY <1>0, <2>1, <2>2 DEF SignSelect, broker
    <3>3. QED
      BY <1>0, <2>1, <3>1, <3>2 DEF Goto, Return, Elsewhere
  <2>3. CASE SignCommit(r)
    BY <1>0, <2>1, <2>3 DEF SignCommit, Raise, Goto, Return, Elsewhere, broker
  <2>4. CASE FinalizeRow(r)
    BY <1>0, <2>1, <2>4 DEF FinalizeRow, Raise, Goto, Return, Elsewhere, broker
  <2>5. CASE FinalizePublish(r)
    BY <1>0, <2>1, <2>5 DEF FinalizePublish, Raise, Goto, Return, Elsewhere
  <2>6. QED
    BY <1>4, <2>2, <2>3, <2>4, <2>5 DEF Sign, Finalize
<1>5. ASSUME NEW p \in Proc, Hold(p) \/ DbError(p)
      PROVE  Elsewhere \/ WorksOn \/ Ends
  <2>1. CASE HoldSelect(p)
    <3>1. /\ pc[p] # "idle" /\ UNCHANGED <<pos, ctx, crashes>>
          /\ Goto(p, "hold_insert") \/ Goto(p, "hold_publish")
      BY <2>1 DEF HoldSelect, broker
    <3>2. QED
      BY <1>0, <3>1, CoroutineMoves
  <2>2. CASE HoldInsert(p)
    <3>1. /\ pc[p] # "idle" /\ UNCHANGED <<pos, ctx, crashes>>
          /\ Goto(p, "hold_publish") \/ Raise(p)
      BY <2>2 DEF HoldInsert, broker
    <3>2. QED
      BY <1>0, <3>1, CoroutineMoves
  <2>3. CASE HoldPublish(p)
    <3>1. /\ pc[p] # "idle" /\ UNCHANGED <<pos, ctx, crashes>>
          /\ Return(p, "PSBT_FLOW_INITIATED") \/ Raise(p)
      BY <2>3 DEF HoldPublish
    <3>2. QED
      BY <1>0, <3>1, CoroutineMoves
  <2>4. CASE DbError(p)
    <3>1. pc[p] # "idle" /\ UNCHANGED <<pos, ctx, crashes>> /\ Raise(p)
      BY <2>4 DEF DbError, broker
    <3>2. QED
      BY <1>0, <3>1, CoroutineMoves
  <2>5. QED
    BY <1>5, <2>1, <2>2, <2>3, <2>4 DEF Hold
<1>6. ASSUME NEW t \in Topic, Poll(t)
      PROVE  Takes(t)
  <2>1. /\ pc[Consumer] = "idle" /\ crashes' = crashes
        /\ pos' = [pos EXCEPT ![t] = pos[t] + 1]
    BY <1>6 DEF Poll
  <2>2. ctx'[Consumer].topic = t
    <3>1. ctx[Consumer] \in Context
      BY <1>0
    <3>2. PICK s, a : ctx' = [ctx EXCEPT ![Consumer] =
                         [@ EXCEPT !.topic = t, !.shipment = s, !.amount = a]]
      BY <1>6 DEF Poll
    <3>3. QED
      BY <1>0, <3>1, <3>2 DEF Context
  <2>3. \/ Goto(Consumer, "hold_select")
        \/ Goto(Consumer, "dlq")
        \/ finished' = [finished EXCEPT ![t] = @ \cup {pos[t] + 1}]
    BY <1>6 DEF Poll
  <2>4. QED
    BY <1>0, <2>1, <2>2, <2>3 DEF Takes, Goto
<1>7. CASE DeadLetter
  <2>1. pc[Consumer] # "idle" /\ UNCHANGED <<pos, ctx, crashes>> /\ Return(Consumer, "none")
    BY <1>7 DEF DeadLetter, broker
  <2>2. QED
    BY <1>0, <2>1, CoroutineMoves
<1>8. CASE AutoCommit \/ Environment
  BY <1>8 DEF AutoCommit, Environment, ShipmentRequest, AlertCreated, control, Elsewhere
<1>9. CASE Crash
  BY <1>9 DEF Crash
<1>10. CASE UNCHANGED vars
  BY <1>10 DEF vars, Elsewhere
<1>11. CASE Submit
  BY <1>1, <1>2, <1>3, <1>11 DEF Submit
<1>12. QED
  BY <1>4, <1>5, <1>6, <1>7, <1>8, <1>9, <1>10, <1>11 DEF Next, Consume

LEMMA HandedStep ==
    ASSUME Inv, HandedIsProcessed, [Next]_vars
    PROVE  HandedIsProcessed'
<1>0. /\ pos \in [Topic -> Nat] /\ finished \in [Topic -> SUBSET Nat] /\ crashes \in Nat
      /\ pc[Consumer] # "idle" => ctx[Consumer].topic \in Topic
  BY DEF Inv, TypeOK
<1>1. CASE Elsewhere
  BY <1>1 DEF Elsewhere, HandedIsProcessed, InFlight
<1>2. CASE WorksOn
  BY <1>2 DEF WorksOn, HandedIsProcessed, InFlight
<1>3. CASE Ends
  <2> SUFFICES ASSUME crashes' = 0, NEW t \in Topic, NEW n \in 1 .. pos'[t]
               PROVE  n \in finished'[t]
    BY DEF HandedIsProcessed
  <2>1. pos' = pos /\ crashes = 0
    BY <1>3 DEF Ends
  <2>2. n \in finished[t] \/ InFlight(t, n)
    BY <2>1 DEF HandedIsProcessed
  <2>3. QED
    BY <1>0, <1>3, <2>2 DEF Ends, InFlight
<1>4. ASSUME NEW u \in Topic, Takes(u)
      PROVE  HandedIsProcessed'
  <2> SUFFICES ASSUME crashes' = 0, NEW t \in Topic, NEW n \in 1 .. pos'[t]
               PROVE  n \in finished'[t] \/ InFlight(t, n)'
    BY DEF HandedIsProcessed
  <2>1. crashes = 0 /\ pc[Consumer] = "idle"
    BY <1>4 DEF Takes
  <2>2. \A k \in 1 .. pos[t] : k \in finished[t]
    BY <2>1 DEF HandedIsProcessed, InFlight
  <2>3. finished[t] \subseteq finished'[t]
    BY <1>0, <1>4 DEF Takes
  <2>4. CASE n \in 1 .. pos[t]
    BY <2>2, <2>3, <2>4
  <2>5. CASE n \notin 1 .. pos[t]
    <3>1. t = u /\ n = pos[t] + 1 /\ pos'[t] = n
      BY <1>0, <1>4, <2>5 DEF Takes
    <3>2. QED
      BY <1>0, <1>4, <3>1 DEF Takes, InFlight
  <2>6. QED
    BY <2>4, <2>5
<1>5. CASE crashes' = crashes + 1
  BY <1>0, <1>5 DEF HandedIsProcessed
<1>6. QED
  BY <1>1, <1>2, <1>3, <1>4, <1>5, ConsumerSteps

\* Only a crash loses a message, although a timer commits the offsets of messages
\* that are still being processed (consumer.py:18-26).
THEOREM MessagesSurvive == Spec => []OnlyCrashesLoseMessages
<1>1. Init => HandedIsProcessed
  BY DEF Init, HandedIsProcessed
<1>2. Inv /\ HandedIsProcessed /\ [Next]_vars => HandedIsProcessed'
  BY HandedStep
<1>3. Inv /\ HandedIsProcessed => OnlyCrashesLoseMessages
  <2> SUFFICES ASSUME Inv, HandedIsProcessed, crashes = 0, NEW t \in Topic,
                      NEW n \in 1 .. committed[t]
               PROVE  n \in finished[t] \/ InFlight(t, n)
    BY DEF OnlyCrashesLoseMessages
  <2>1. committed[t] \in Nat /\ pos[t] \in Nat /\ committed[t] <= pos[t]
    BY DEF Inv, TypeOK
  <2>2. n \in 1 .. pos[t]
    BY <2>1
  <2>3. QED
    BY <2>2 DEF HandedIsProcessed
<1>4. QED
  BY <1>1, <1>2, <1>3, Invariance, PTL DEF Spec

-----------------------------------------------------------------------------
(* The service implements the contract *)

Phase == [s \in Shipment |-> PhaseOf[row[s].status]]

\* The phase a status stands for, one status at a time.
LEMMA PhaseIs ==
    ASSUME Inv, NEW s \in Shipment
    PROVE  /\ row[s].status \in {"absent", "pending_signatures", "finalized"}
           /\ row[s].status = "absent"             => Phase[s] = "none"
           /\ row[s].status = "pending_signatures" => Phase[s] = "open"
           /\ row[s].status = "finalized"          => Phase[s] = "settled"
<1>1. row[s].status \in {"absent", "pending_signatures", "finalized"}
  BY DEF Inv, TypeOK, Row
<1>2. QED
  BY <1>1 DEF Phase, PhaseOf

LEMMA PhaseMoves ==
    ASSUME Inv, NEW s \in Shipment, NEW status \in DOMAIN PhaseOf,
           row'[s].status = status,
           \A q \in Shipment : q # s => row'[q] = row[q]
    PROVE  Phase' = [Phase EXCEPT ![s] = PhaseOf[status]]
<1> DEFINE f[q \in Shipment] == PhaseOf[row[q].status]
           g[q \in Shipment] == PhaseOf[row'[q].status]
<1>1. Phase = f /\ Phase' = g
  BY DEF Phase
<1>2. \A q \in Shipment : g[q] = IF q = s THEN PhaseOf[status] ELSE f[q]
  OBVIOUS
<1>3. QED
  BY <1>1, <1>2

LEMMA ContractInit == Init => Contract!Init
  BY DEF Init, Contract!Init, Absent, PhaseOf

LEMMA ContractStep ==
    ASSUME Inv, Inv', FinalizedByThreshold', [Next]_vars
    PROVE  [Contract!Next]_(Contract!contract)
<1> USE DEF Contract!contract
<1>1. row \in [Shipment -> Row] /\ signed \in [Shipment -> SUBSET User]
  BY DEF Inv, TypeOK
<1>2. ASSUME UNCHANGED <<row, signed, announced>>
      PROVE  UNCHANGED Contract!contract
  BY <1>2
<1>3. ASSUME NEW r \in Request, SignCommit(r)
      PROVE  Contract!Next
  <2> DEFINE s == ctx[r].shipment
  <2>1. s \in Shipment /\ ctx[r].user \in User /\ row[s].status # "absent"
    BY <1>3, SignersSigned
  <2>2. /\ row' = [row EXCEPT ![s] = SignedRow(r)]
        /\ signed' = [signed EXCEPT ![s] = @ \cup {ctx[r].user}]
        /\ UNCHANGED announced
    BY <1>3 DEF SignCommit, broker
  <2>3. row'[s].status \in {row[s].status, "finalized"}
    BY <1>1, <2>1, <2>2 DEF SignedRow, Row
  <2> HIDE DEF s
  <2>4. Phase[s] # "none"
    BY <2>1, PhaseIs
  <2>5. CASE row'[s].status = row[s].status
    <3>1. UNCHANGED Phase
      <4>1. \A q \in Shipment : row'[q].status = row[q].status
        BY <1>1, <2>1, <2>2, <2>5
      <4>2. QED
        BY <4>1 DEF Phase
    <3>2. QED
      BY <2>1, <2>2, <2>4, <3>1 DEF Contract!Next, Contract!Endorse, Phase
  <2>6. CASE row'[s].status = "finalized"
    <3>1. signed'[s] \in {S \in SUBSET User : Cardinality(S) >= THRESHOLD}
      BY <2>1, <2>6 DEF FinalizedByThreshold, Inv, TypeOK
    <3>2. \A q \in Shipment : q # s => row'[q] = row[q]
      BY <1>1, <2>2
    <3>3. Phase' = [Phase EXCEPT ![s] = "settled"]
      BY <2>1, <2>6, <3>2, PhaseMoves DEF PhaseOf
    <3>4. Contract!Endorse(s, ctx[r].user)
      BY <2>2, <2>4, <3>1, <3>3 DEF Contract!Endorse, Phase
    <3>5. QED
      BY <2>1, <3>4 DEF Contract!Next, Contract!Endorse
  <2>7. QED
    BY <2>3, <2>5, <2>6
<1>4. ASSUME NEW r \in Request, FinalizeRow(r)
      PROVE  UNCHANGED Contract!contract
  <2>1. ctx[r].shipment \in Shipment /\ row[ctx[r].shipment].status = "finalized"
    BY <1>4 DEF FinalizeRow, Inv, ReadsStayTrue, Relies, Proc
  <2>2. \A q \in Shipment : row'[q].status = row[q].status
    BY <1>1, <1>4, <2>1 DEF FinalizeRow, Row
  <2>3. UNCHANGED <<signed, announced>>
    BY <1>4 DEF FinalizeRow, broker
  <2>4. QED
    BY <2>2, <2>3
<1>5. ASSUME NEW p \in Proc, HoldInsert(p)
      PROVE  Contract!Next \/ UNCHANGED Contract!contract
  <2> DEFINE s == ctx[p].shipment
  <2>1. UNCHANGED <<signed, announced>> /\ s \in Shipment
    BY <1>5 DEF HoldInsert, broker, Inv, ReadsStayTrue, Relies
  <2>2. CASE UNCHANGED row
    BY <1>2, <2>1, <2>2
  <2>3. CASE ~UNCHANGED row
    <3>1. /\ row[s].status = "absent"
          /\ row' = [row EXCEPT ![s] = NewRow(p)]
      BY <1>5, <2>3 DEF HoldInsert
    <3>2. Phase[s] = "none"
      BY <2>1, <3>1, PhaseIs
    <3>3. row'[s].status = "pending_signatures"
          /\ \A q \in Shipment : q # s => row'[q] = row[q]
      BY <1>1, <2>1, <3>1 DEF NewRow
    <3> HIDE DEF s
    <3>4. Phase' = [Phase EXCEPT ![s] = "open"]
      BY <2>1, <3>3, PhaseMoves DEF PhaseOf
    <3>5. QED
      BY <2>1, <3>2, <3>4 DEF Contract!Next, Contract!Open, Phase
  <2>4. QED
    BY <2>2, <2>3
<1>6. ASSUME NEW r \in Request, UNCHANGED row, UNCHANGED signed,
             announced' = [announced EXCEPT ![ctx[r].shipment] = @ + 1],
             ctx[r].shipment \in Shipment,
             row[ctx[r].shipment].status = "finalized"
      PROVE  Contract!Next
  <2>1. Phase[ctx[r].shipment] = "settled" /\ UNCHANGED Phase
    BY <1>6, PhaseIs DEF Phase
  <2>2. QED
    BY <1>6, <2>1 DEF Contract!Next, Contract!Announce, Phase
<1>7. CASE ~UNCHANGED announced
  <2>1. UNCHANGED signed
    BY <1>7, AnnouncingStep DEF FinalizePublish, db
  <2>2. QED
    BY <1>6, <1>7, <2>1, AnnouncingStep
<1>8. CASE UNCHANGED announced
  <2>1. CASE UNCHANGED db
    BY <1>2, <1>8, <2>1 DEF db
  <2>2. QED
    BY <1>3, <1>4, <1>5, <2>1, TableSteps
<1>9. QED
  BY <1>7, <1>8

\* Every behaviour of the service is one of EscrowContract: an escrow is opened
\* once, settled by THRESHOLD endorsements for good, and only then announced.
THEOREM Refinement == Spec => ImplementsContract
<1>1. Inv /\ Inv' /\ FinalizedByThreshold' /\ [Next]_vars
         => [Contract!Next]_(Contract!contract)
  BY ContractStep
<1>2. QED
  BY ContractInit, <1>1, Invariance, ThresholdIsMet, PTL
  DEF Spec, ImplementsContract, Contract!Spec

=============================================================================
