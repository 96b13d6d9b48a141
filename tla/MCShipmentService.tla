-------------------------- MODULE MCShipmentService --------------------------
(* Small instances of ShipmentService for TLC. *)
EXTENDS ShipmentService, TLC

\* No action names a request, a shipment, a key or an ordinary user.
Symmetry ==
    Permutations(Request) \cup Permutations(Key) \cup Permutations(User \ Admin)
=============================================================================
