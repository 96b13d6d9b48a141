---------------------------- MODULE CustodyLedger ----------------------------
(***************************************************************************)
(* What the shipment service promises about custody, without requests,     *)
(* rows read earlier, failures or transactions: a shipment is created      *)
(* once; a handoff adds one entry to a ledger that only grows, is made in  *)
(* the name of somebody who has come to hold the shipment, by that user or *)
(* an operator, on the one device of the user who makes it; and only what  *)
(* is so is told.                                                          *)
(*                                                                         *)
(* It does not promise that the one who hands over still holds the         *)
(* shipment: the service does not keep that.                               *)
(***************************************************************************)
EXTENDS Naturals, Sequences

CONSTANTS
    Shipment,
    User,
    Admin,      \* the operators, who may act for a custodian
    Key,
    Request,    \* each makes one handoff at most
    None        \* no user, no device

VARIABLES farmer, custodian, ledger, device, told

custody == <<farmer, custodian, ledger, device, told>>

Init ==
    /\ farmer = [s \in Shipment |-> None]
    /\ custodian = [s \in Shipment |-> None]
    /\ ledger = <<>>
    /\ device = [u \in User |-> None]
    /\ told = {}

Entries == {ledger[i] : i \in DOMAIN ledger}

\* Those who have come to hold s: its farmer and whoever it was handed to.
Held(s) == {farmer[s]} \cup {e.to : e \in {f \in Entries : f.shipment = s}}

\* A shipment begins with its farmer.
Create(s, u) ==
    /\ farmer[s] = None
    /\ farmer' = [farmer EXCEPT ![s] = u]
    /\ custodian' = [custodian EXCEPT ![s] = u]
    /\ UNCHANGED <<ledger, device, told>>

\* u hands s from one user to another with key k. A handoff to the user it is
\* made from may find the shipment with somebody else by now, and leaves it there.
Handoff(s, u, from, to, k, r) ==
    /\ farmer[s] # None
    /\ from \in Held(s)
    /\ from = u \/ u \in Admin
    /\ device[u] \in {None, k}
    /\ \A e \in Entries : e.request # r
    /\ ledger' = Append(ledger, [shipment |-> s, from |-> from, to |-> to,
                                 key |-> k, signer |-> u, request |-> r])
    /\ device' = [device EXCEPT ![u] = k]
    /\ \/ custodian' = [custodian EXCEPT ![s] = to]
       \/ from = to /\ UNCHANGED custodian
    /\ UNCHANGED <<farmer, told>>

Created(s) == [event |-> "shipment.created", shipment |-> s,
               from |-> farmer[s], to |-> farmer[s]]

HandedOver(e) == [event |-> "custody.handoff", shipment |-> e.shipment,
                  from |-> e.from, to |-> e.to]

Tell ==
    /\ \E m \in {Created(s) : s \in {t \in Shipment : farmer[t] # None}}
                 \cup {HandedOver(e) : e \in Entries} :
          told' = told \cup {m}
    /\ UNCHANGED <<farmer, custodian, ledger, device>>

Next ==
    \/ \E s \in Shipment, u \in User : Create(s, u)
    \/ \E s \in Shipment, u, from, to \in User, k \in Key, r \in Request :
          Handoff(s, u, from, to, k, r)
    \/ Tell

Spec == Init /\ [][Next]_custody
=============================================================================
