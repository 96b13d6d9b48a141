--------------------------- MODULE EscrowContract ---------------------------
(***************************************************************************)
(* What the escrow service promises, without requests, rows read earlier,  *)
(* failures or messages: an escrow is opened once, collects endorsements,  *)
(* is settled by a quorum of them for good, and only then announced.       *)
(***************************************************************************)
EXTENDS Naturals

CONSTANTS
    Shipment,
    User,
    Quorum      \* the sets of users whose endorsements settle an escrow

VARIABLES phase, endorsed, announced

contract == <<phase, endorsed, announced>>

Init ==
    /\ phase = [s \in Shipment |-> "none"]
    /\ endorsed = [s \in Shipment |-> {}]
    /\ announced = [s \in Shipment |-> 0]

\* A fund hold for a shipment that has no escrow.
Open(s) ==
    /\ phase[s] = "none"
    /\ phase' = [phase EXCEPT ![s] = "open"]
    /\ UNCHANGED <<endorsed, announced>>

\* A participant endorses; the endorsement may settle the escrow once there
\* are enough of them, and may also come too late.
Endorse(s, u) ==
    /\ phase[s] # "none"
    /\ endorsed' = [endorsed EXCEPT ![s] = @ \cup {u}]
    /\ \/ UNCHANGED phase
       \/ /\ endorsed'[s] \in Quorum
          /\ phase' = [phase EXCEPT ![s] = "settled"]
    /\ UNCHANGED announced

\* The settlement is announced, perhaps more than once.
Announce(s) ==
    /\ phase[s] = "settled"
    /\ announced' = [announced EXCEPT ![s] = @ + 1]
    /\ UNCHANGED <<phase, endorsed>>

Next ==
    \E s \in Shipment :
        \/ Open(s)
        \/ \E u \in User : Endorse(s, u)
        \/ Announce(s)

Spec == Init /\ [][Next]_contract
=============================================================================
