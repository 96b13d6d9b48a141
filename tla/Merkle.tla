-------------------------------- MODULE Merkle --------------------------------
(***************************************************************************)
(* The Merkle tree of the crypto service (merkle.rs).  The job pushes the  *)
(* hashes of a batch one by one (main.rs:106-118) and asks for the root.   *)
(* Two batches grow side by side, to compare what their roots say of them. *)
(* SHA-256 is taken to be injective: a hash is the pair it was made of.    *)
(***************************************************************************)
EXTENDS Naturals, Sequences

CONSTANTS
    Leaf,       \* hashes of events
    MaxLeaves   \* bound: leaves in a batch

ASSUME MerkleAssumption == MaxLeaves \in Nat

VARIABLES one, other   \* the leaves pushed so far, in two batches

vars == <<one, other>>

-----------------------------------------------------------------------------
Hash(left, right) == <<left, right>>

\* Faulty: loops over the complete chunks only.
NextLevelTruncates(nodes) ==
    [i \in 1 .. Len(nodes) \div 2 |-> Hash(nodes[2*i - 1], nodes[2*i])]

\* Faulty: hands the odd node up as it is.
NextLevelCarries(nodes) ==
    [i \in 1 .. (Len(nodes) + 1) \div 2 |->
        IF 2*i <= Len(nodes) THEN Hash(nodes[2*i - 1], nodes[2*i])
        ELSE nodes[2*i - 1]]

\* One round: every two neighbours are hashed, a last odd one with itself.
NextLevel(nodes) ==
    [i \in 1 .. (Len(nodes) + 1) \div 2 |->
        Hash(nodes[2*i - 1], IF 2*i <= Len(nodes) THEN nodes[2*i]
                             ELSE nodes[2*i - 1])]

\* The nodes after each number of rounds.
Levels(nodes) ==
    LET Level[k \in Nat] == IF k = 0 THEN nodes ELSE NextLevel(Level[k - 1])
    IN  Level

\* Rounds are made until one node is left.
Rounds(nodes) ==
    CHOOSE k \in 0 .. Len(nodes) :
        /\ Len(Levels(nodes)[k]) = 1
        /\ \A j \in 0 .. k - 1 : Len(Levels(nodes)[j]) > 1

ComputeRoot(nodes) == Levels(nodes)[Rounds(nodes)][1]

\* There is no root of no leaves.
HasRoot(leaves) == leaves # <<>>

Init == one = <<>> /\ other = <<>>

Push(batch, hash) == Append(batch, hash)

Next ==
    \E hash \in Leaf :
        \/ Len(one) < MaxLeaves   /\ one' = Push(one, hash)     /\ UNCHANGED other
        \/ Len(other) < MaxLeaves /\ other' = Push(other, hash) /\ UNCHANGED one

Spec == Init /\ [][Next]_vars

-----------------------------------------------------------------------------
(* Properties *)

\* The trees of height 0: over one leaf each, from number i on.
Lowest(leaves) == [room |-> 1, root |-> [i \in Nat |-> leaves[i]]]

\* The trees that are one higher, with room for twice as many leaves: where the
\* right one of the two below would have no leaf, the left one stands in for it.
Higher(leaves, below) ==
    [room |-> 2 * below.room,
     root |-> [i \in Nat |->
                  LET left == below.root[i]
                      next == i + below.room
                  IN  Hash(left, IF next <= Len(leaves) THEN below.root[next] ELSE left)]]

Trees(leaves) ==
    LET Tree[h \in Nat] == IF h = 0 THEN Lowest(leaves) ELSE Higher(leaves, Tree[h - 1])
    IN  Tree

Height(leaves) ==
    CHOOSE h \in 0 .. Len(leaves) :
        /\ Len(leaves) <= Trees(leaves)[h].room
        /\ \A g \in 0 .. h - 1 : Trees(leaves)[g].room < Len(leaves)

\* A root from the top down: the tree of least height that has room for all leaves.
TreeOf(leaves) == Trees(leaves)[Height(leaves)].root[1]

\* merkle.rs:24-43: whatever the number of leaves, odd levels included, the
\* rounds build the balanced tree of least height over them.
RootIsBalancedTree ==
    HasRoot(one) => ComputeRoot(one) = TreeOf(one)

\* merkle.rs:17-43, main.rs:133-137: the root and the leaf count that the job
\* stores together determine every leaf and its place.  (The root alone does
\* not: repeating a last odd leaf leaves it as it is.)
RootBindsLeaves ==
    HasRoot(one) /\ Len(one) = Len(other) /\ ComputeRoot(one) = ComputeRoot(other)
        => one = other
=============================================================================
