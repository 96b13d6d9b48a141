--------------------------- MODULE MCEscrowService ---------------------------
(* Small instances of EscrowService for TLC. *)
EXTENDS EscrowService, TLC

\* Requests are interchangeable and so are users: no action names one.
Symmetry == Permutations(Request) \cup Permutations(User)
=============================================================================
