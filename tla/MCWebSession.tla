---------------------------- MODULE MCWebSession ----------------------------
(* Small instances of WebSession for TLC. *)
EXTENDS WebSession, FiniteSets, TLC

\* The addresses of both accounts start alike, so that they are interchangeable.
MCPrefix == [a \in Account |-> "farmer"]

\* No action names a call, a tab or an account.
Symmetry == Permutations(Call) \cup Permutations(Tab) \cup Permutations(Account)

\* Bound: two calls of any kind, or three that only read, from one tab.
FewCalls ==
    LET made == {c \in Call : call[c].pc # "new"}
    IN  Cardinality(made) > 2 =>
          /\ \A c \in made : call[c].kind = "get"
          /\ \E t \in Tab : page[t] = "gate" /\ shown[t] = None
          /\ reloads = 0 /\ build = "production"
=============================================================================
