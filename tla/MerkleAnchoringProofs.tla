------------------------- MODULE MerkleAnchoringProofs -------------------------
(***************************************************************************)
(* What holds of the anchoring job for every set of leaves, any number of  *)
(* processes that run it at once, and any number of failures and crashes.  *)
(***************************************************************************)
EXTENDS MerkleAnchoring, TLAPS

-----------------------------------------------------------------------------
(* The inductive invariant *)

\* A process refers only to rows that stay as they are: the leaves of its batch
\* were parsed, those still to be marked are among them, and once the tree is
\* stored it is the tree over the batch.
BatchIsStored(j) ==
    /\ leaf_ids[j] \subseteq batch[j]
    /\ \A l \in batch[j] : leaves[l].leaf_hash = "valid"
    /\ pc[j] \in {"update_leaf", "anchor", "publish"} =>
          tree_id[j] \in DOMAIN trees /\ trees[tree_id[j]] = batch[j]

\* Every stored tree is over parsed hashes, and only stored trees are anchored.
TreesAreParsed ==
    /\ chain \subseteq DOMAIN trees
    /\ \A n \in DOMAIN trees : \A l \in trees[n] : leaves[l].leaf_hash = "valid"

\* Where a node is required nobody runs the mock, and a process that is about to
\* announce a root has broadcast it.
NodeIsReal(j) ==
    require_bitcoin_rpc =>
        /\ pc[j] # "down" => service[j] = "rpc"
        /\ pc[j] = "publish" => tree_id[j] \in chain

Inv ==
    /\ TypeOK
    /\ \A j \in Job : BatchIsStored(j)
    /\ TreesAreParsed
    /\ CommittedIsCovered
    /\ \A j \in Job : NodeIsReal(j)
    /\ AnnouncedIsAnchored
    /\ FollowedIsAnchored

-----------------------------------------------------------------------------
\* An INSERT appends a row and leaves the rows before it alone.
LEMMA AppendKeeps ==
    ASSUME TypeOK, NEW B \in SUBSET Leaf
    PROVE  /\ Append(trees, B) \in Seq(SUBSET Leaf)
           /\ Len(Append(trees, B)) = Len(trees) + 1
           /\ DOMAIN trees = 1 .. Len(trees)
           /\ DOMAIN Append(trees, B) = 1 .. Len(trees) + 1
           /\ \A n \in DOMAIN trees : Append(trees, B)[n] = trees[n]
           /\ Append(trees, B)[Len(trees) + 1] = B
  BY DEF TypeOK

\* The initial state satisfies the invariant.
LEMMA InitInv == Init => Inv
  BY DEF Init, Inv, TypeOK, Row, Step, BatchIsStored, TreesAreParsed,
         CommittedIsCovered, NodeIsReal, AnnouncedIsAnchored, FollowedIsAnchored

\* The arrival of a leaf touches no row that anybody refers to.
LEMMA InsertLeafInv ==
    ASSUME Inv, NEW l \in Leaf, InsertLeaf(l) PROVE Inv'
  <1> USE DEF Inv, TypeOK, InsertLeaf, locals, Row
  <1>1. PICK hash \in {"valid", "malformed"} :
            leaves' = [leaves EXCEPT ![l].leaf_hash = hash]
    OBVIOUS
  <1>2. leaves' \in [Leaf -> Row]
    <2>1. leaves \in [Leaf -> Row]
      OBVIOUS
    <2>2. PICK row \in Row : row = [leaves[l] EXCEPT !.leaf_hash = hash]
      BY <2>1
    <2>3. leaves' = [leaves EXCEPT ![l] = row]
      BY <1>1, <2>1, <2>2
    <2>4. QED
      BY <2>1, <2>3
  <1>3. TypeOK'
    BY <1>2
  <1>4. \A k \in Leaf : /\ leaves'[k].committed = leaves[k].committed
                        /\ leaves'[k].tree_id = leaves[k].tree_id
                        /\ k # l => leaves'[k] = leaves[k]
    BY <1>1
  <1>5. ASSUME NEW j \in Job PROVE BatchIsStored(j)'
    BY <1>4 DEF BatchIsStored
  <1>6. TreesAreParsed'
    BY <1>4 DEF TreesAreParsed
  <1>7. CommittedIsCovered'
    BY <1>4 DEF CommittedIsCovered
  <1>8. (\A j \in Job : NodeIsReal(j))' /\ AnnouncedIsAnchored' /\ FollowedIsAnchored'
    BY DEF NodeIsReal, AnnouncedIsAnchored, FollowedIsAnchored
  <1> QED
    BY <1>3, <1>5, <1>6, <1>7, <1>8

\* A process starts with the service its environment allows.
LEMMA StartInv ==
    ASSUME Inv, NEW j \in Job, Start(j) PROVE Inv'
  <1> USE DEF Inv, TypeOK, Start, Goto, locals, tables
  <1>1. TypeOK'
    BY DEF Step
  <1>2. (\A i \in Job : BatchIsStored(i))' /\ TreesAreParsed' /\ CommittedIsCovered'
    BY DEF BatchIsStored, TreesAreParsed, CommittedIsCovered
  <1>3. (\A i \in Job : NodeIsReal(i))'
    BY DEF NodeIsReal, MayMock
  <1>4. AnnouncedIsAnchored' /\ FollowedIsAnchored'
    BY DEF AnnouncedIsAnchored, FollowedIsAnchored
  <1> QED
    BY <1>1, <1>2, <1>3, <1>4

\* The SELECT keeps the rows that parse.
LEMMA SelectLeavesInv ==
    ASSUME Inv, NEW j \in Job, SelectLeaves(j) PROVE Inv'
  <1> USE DEF Inv, TypeOK, SelectLeaves, Goto, tables
  <1>1. Parsed \subseteq Leaf /\ \A l \in Parsed : leaves[l].leaf_hash = "valid"
    BY DEF Parsed, Uncommitted
  <1>2. TypeOK'
    BY <1>1 DEF Step
  <1>3. (\A i \in Job : BatchIsStored(i))'
    BY <1>1 DEF BatchIsStored
  <1>4. TreesAreParsed' /\ CommittedIsCovered' /\ (\A i \in Job : NodeIsReal(i))'
    BY DEF TreesAreParsed, CommittedIsCovered, NodeIsReal
  <1>5. AnnouncedIsAnchored' /\ FollowedIsAnchored'
    BY DEF AnnouncedIsAnchored, FollowedIsAnchored
  <1> QED
    BY <1>2, <1>3, <1>4, <1>5

\* Nothing refers to a tree that is not stored yet, and the rows that are stay.
LEMMA InsertTreeInv ==
    ASSUME Inv, NEW j \in Job, InsertTree(j) PROVE Inv'
  <1> USE DEF Inv
  <1>1. trees' = trees \/ trees' = Append(trees, batch[j])
    BY DEF InsertTree
  <1>2. batch[j] \in SUBSET Leaf
    BY DEF TypeOK
  <1>3. /\ trees' \in Seq(SUBSET Leaf)
        /\ DOMAIN trees = 1 .. Len(trees) /\ DOMAIN trees' = 1 .. Len(trees')
        /\ Len(trees) \in Nat /\ Len(trees') \in Nat /\ Len(trees) <= Len(trees')
        /\ \A n \in DOMAIN trees : n \in DOMAIN trees' /\ trees'[n] = trees[n]
        /\ \A n \in DOMAIN trees' \ DOMAIN trees : trees'[n] = batch[j]
    <2>1. CASE trees' = trees
      BY <2>1 DEF TypeOK
    <2>2. CASE trees' = Append(trees, batch[j])
      BY <1>2, <2>2, AppendKeeps DEF TypeOK
    <2> QED
      BY <1>1, <2>1, <2>2
  <1>4. \A i \in Job : tree_id'[i] \in 0 .. Len(trees')
    <2>1. CASE trees' = Append(trees, batch[j]) /\ tree_id' = [tree_id EXCEPT ![j] = Len(trees')]
      BY <1>3, <2>1, <1>2, AppendKeeps DEF TypeOK
    <2>2. CASE Leave(j, "idle")
      BY <1>3, <2>2 DEF TypeOK, Leave
    <2> QED
      BY <2>1, <2>2 DEF InsertTree
  <1>5. TypeOK'
    <2>1. faults' \in Nat
      BY DEF TypeOK, InsertTree, Fail
    <2>2. CASE /\ tree_id' = [tree_id EXCEPT ![j] = Len(trees')]
               /\ Goto(j, "update_leaf")
               /\ UNCHANGED <<batch, leaf_ids, faults>>
      <3>1. pc' \in [Job -> Step]
        BY <2>2 DEF TypeOK, Goto, Step
      <3>2. tree_id' \in [Job -> 0 .. Len(trees')]
        BY <1>3, <1>4, <2>2 DEF TypeOK
      <3> QED
        BY <1>3, <2>1, <2>2, <3>1, <3>2 DEF TypeOK, InsertTree
    <2>3. CASE Leave(j, "idle")
      <3>1. pc' \in [Job -> Step]
        BY <2>3 DEF TypeOK, Leave, Goto, Step
      <3>2. tree_id' \in [Job -> 0 .. Len(trees')]
        BY <1>3, <1>4, <2>3 DEF TypeOK, Leave
      <3>3. batch' \in [Job -> SUBSET Leaf] /\ leaf_ids' \in [Job -> SUBSET Leaf]
        BY <2>3 DEF TypeOK, Leave
      <3> QED
        BY <1>3, <2>1, <3>1, <3>2, <3>3 DEF TypeOK, InsertTree
    <2> QED
      BY <2>2, <2>3 DEF InsertTree
  <1>6. (\A i \in Job : BatchIsStored(i))'
    <2> SUFFICES ASSUME NEW i \in Job PROVE BatchIsStored(i)'
      OBVIOUS
    <2>1. CASE i # j
      <3>1. /\ batch'[i] = batch[i] /\ leaf_ids'[i] = leaf_ids[i]
            /\ pc'[i] = pc[i] /\ tree_id'[i] = tree_id[i]
        BY <2>1 DEF TypeOK, InsertTree, Leave, Goto
      <3>2. leaves' = leaves
        BY DEF InsertTree
      <3> QED
        BY <1>3, <3>1, <3>2 DEF BatchIsStored
    <2>2. CASE i = j /\ Leave(j, "idle")
      BY <2>2 DEF TypeOK, Leave, Goto, BatchIsStored
    <2>3. CASE i = j /\ UNCHANGED <<batch, leaf_ids, faults>>
      <3>1. CASE /\ trees' = Append(trees, batch[j])
                 /\ tree_id' = [tree_id EXCEPT ![j] = Len(trees')]
                 /\ Goto(j, "update_leaf")
        <4>1. tree_id'[j] = Len(trees) + 1 /\ Len(trees') = Len(trees) + 1
          BY <3>1, <1>2, AppendKeeps DEF TypeOK
        <4>2. tree_id'[j] \in DOMAIN trees' \ DOMAIN trees
          BY <4>1, <1>3
        <4> QED
          BY <4>2, <1>3, <2>3, <3>1 DEF TypeOK, BatchIsStored, InsertTree
      <3>2. CASE Leave(j, "idle")
        BY <2>3, <3>2, <2>2
      <3> QED
        BY <3>1, <3>2 DEF InsertTree
    <2> QED
      BY <2>1, <2>2, <2>3 DEF InsertTree
  <1>7. TreesAreParsed' /\ CommittedIsCovered'
    <2>1. leaves' = leaves /\ chain' = chain
      BY DEF InsertTree
    <2>2. \A n \in DOMAIN trees' : \A l \in trees'[n] : leaves[l].leaf_hash = "valid"
      BY <1>3 DEF TreesAreParsed, BatchIsStored
    <2> QED
      BY <1>3, <2>1, <2>2 DEF TreesAreParsed, CommittedIsCovered
  <1>8. (\A i \in Job : NodeIsReal(i))'
    BY DEF TypeOK, InsertTree, Leave, Goto, NodeIsReal
  <1>9. AnnouncedIsAnchored' /\ FollowedIsAnchored'
    BY DEF InsertTree, AnnouncedIsAnchored, FollowedIsAnchored
  <1> QED
    BY <1>5, <1>6, <1>7, <1>8, <1>9

\* The leaf that is marked is under the tree it is marked with, also when another
\* process marked it before.
LEMMA UpdateLeafInv ==
    ASSUME Inv, NEW j \in Job, UpdateLeaf(j) PROVE Inv'
  <1> USE DEF Inv
  <1>1. PICK l \in leaf_ids[j] :
            /\ leaves' = leaves \/ leaves' = Marked(j, l)
            /\ leaf_ids' = [leaf_ids EXCEPT ![j] = @ \ {l}]
            /\ Goto(j, IF leaf_ids[j] = {l} THEN "anchor" ELSE "update_leaf")
            /\ faults' = faults \/ Fail
    BY DEF UpdateLeaf
  <1>2. l \in batch[j] /\ l \in Leaf
    BY DEF TypeOK, BatchIsStored
  <1>3. /\ tree_id[j] \in DOMAIN trees /\ tree_id[j] \in Nat
        /\ trees[tree_id[j]] = batch[j]
    BY DEF TypeOK, UpdateLeaf, BatchIsStored
  <1> DEFINE row == [leaves[l] EXCEPT !.tree_id = tree_id[j], !.committed = TRUE]
  <1>4. /\ leaves' \in [Leaf -> Row]
        /\ \A k \in Leaf : leaves'[k].leaf_hash = leaves[k].leaf_hash
        /\ \A k \in Leaf : leaves'[k] = leaves[k]
                 \/ (k = l /\ leaves'[k].tree_id = tree_id[j])
    <2>0. leaves \in [Leaf -> Row]
      BY DEF TypeOK
    <2>1. CASE leaves' = leaves
      BY <2>0, <2>1
    <2>2. CASE leaves' = Marked(j, l)
      <3>1. row \in Row /\ row.leaf_hash = leaves[l].leaf_hash /\ row.tree_id = tree_id[j]
        <4>1. leaves[l] \in Row
          BY <2>0, <1>2
        <4> QED
          BY <1>3, <4>1 DEF Row
      <3>2. leaves' = [leaves EXCEPT ![l] = row]
        BY <2>2 DEF Marked
      <3> HIDE DEF row
      <3> QED
        BY <2>0, <1>2, <3>1, <3>2
    <2> QED
      BY <1>1, <2>1, <2>2
  <1> HIDE DEF row
  <1>5. TypeOK'
    BY <1>1, <1>4 DEF TypeOK, UpdateLeaf, Goto, Fail, Step
  <1>6. (\A i \in Job : BatchIsStored(i))'
    BY <1>1, <1>3, <1>4 DEF TypeOK, UpdateLeaf, Goto, BatchIsStored
  <1>7. TreesAreParsed'
    BY <1>4 DEF TypeOK, UpdateLeaf, TreesAreParsed
  <1>8. CommittedIsCovered'
    BY <1>2, <1>3, <1>4 DEF UpdateLeaf, CommittedIsCovered
  <1>9. (\A i \in Job : NodeIsReal(i))'
    BY <1>1 DEF TypeOK, UpdateLeaf, Goto, NodeIsReal
  <1>10. AnnouncedIsAnchored' /\ FollowedIsAnchored'
    BY DEF UpdateLeaf, AnnouncedIsAnchored, FollowedIsAnchored
  <1> QED
    BY <1>5, <1>6, <1>7, <1>8, <1>9, <1>10

\* Only the root of the stored tree of the batch is broadcast, and only a
\* transaction that was broadcast is followed.
LEMMA AnchorInv ==
    ASSUME Inv, NEW j \in Job, Anchor(j) PROVE Inv'
  <1> USE DEF Inv
  <1>1. tree_id[j] \in DOMAIN trees /\ tree_id[j] \in Nat
    BY DEF TypeOK, Anchor, BatchIsStored
  <1>2. chain \subseteq chain' /\ chain' \subseteq chain \cup {tree_id[j]}
    BY DEF Anchor
  <1>3. TypeOK'
    <2>1. /\ pc' \in [Job -> Step] /\ faults' \in Nat
          /\ batch' \in [Job -> SUBSET Leaf] /\ leaf_ids' \in [Job -> SUBSET Leaf]
          /\ tree_id' \in [Job -> 0 .. Len(trees)]
      <3>1. CASE Goto(j, "publish") /\ UNCHANGED <<locals, faults>>
        BY <3>1 DEF TypeOK, Goto, Step, locals
      <3>2. CASE Fail /\ Leave(j, "idle")
        <4>1. Len(trees) \in Nat
          BY DEF TypeOK
        <4> QED
          BY <3>2, <4>1 DEF TypeOK, Fail, Leave, Goto, Step
      <3> QED
        BY <3>1, <3>2 DEF Anchor
    <2>2. last_anchor_txid' \in [Job -> Nat]
      BY <1>1 DEF TypeOK, Anchor, TxidOf
    <2>3. chain' \subseteq Nat
      BY <1>1, <1>2 DEF TypeOK
    <2> QED
      BY <2>1, <2>2, <2>3 DEF TypeOK, Anchor, tables
  <1>4. (\A i \in Job : BatchIsStored(i))'
    BY DEF TypeOK, Anchor, Leave, Goto, BatchIsStored, locals, tables
  <1>5. TreesAreParsed' /\ CommittedIsCovered'
    BY <1>1, <1>2 DEF Anchor, TreesAreParsed, CommittedIsCovered, tables
  <1>6. (\A i \in Job : NodeIsReal(i))'
    BY <1>2 DEF TypeOK, Anchor, Leave, Goto, NodeIsReal, locals
  <1>7. AnnouncedIsAnchored' /\ FollowedIsAnchored'
    BY <1>2 DEF TypeOK, Anchor, TxidOf, AnnouncedIsAnchored, FollowedIsAnchored
  <1> QED
    BY <1>3, <1>4, <1>5, <1>6, <1>7

\* What is announced has been anchored, where a node is required.
LEMMA PublishInv ==
    ASSUME Inv, NEW j \in Job, Publish(j) PROVE Inv'
  <1> USE DEF Inv, TypeOK, Publish, Leave, Goto, tables
  <1>1. TypeOK'
    BY DEF Step
  <1>2. (\A i \in Job : BatchIsStored(i))' /\ TreesAreParsed' /\ CommittedIsCovered'
    BY DEF BatchIsStored, TreesAreParsed, CommittedIsCovered
  <1>3. (\A i \in Job : NodeIsReal(i))' /\ AnnouncedIsAnchored' /\ FollowedIsAnchored'
    BY DEF NodeIsReal, AnnouncedIsAnchored, FollowedIsAnchored
  <1> QED
    BY <1>1, <1>2, <1>3

\* A process that dies forgets its batch and nothing else.
LEMMA CrashInv ==
    ASSUME Inv, NEW j \in Job, Crash(j) PROVE Inv'
  <1> USE DEF Inv, TypeOK, Crash, Leave, Goto, Fail, tables
  <1>1. TypeOK'
    BY DEF Step
  <1>2. (\A i \in Job : BatchIsStored(i))' /\ TreesAreParsed' /\ CommittedIsCovered'
    BY DEF BatchIsStored, TreesAreParsed, CommittedIsCovered
  <1>3. (\A i \in Job : NodeIsReal(i))' /\ AnnouncedIsAnchored' /\ FollowedIsAnchored'
    BY DEF NodeIsReal, AnnouncedIsAnchored, FollowedIsAnchored
  <1> QED
    BY <1>1, <1>2, <1>3

LEMMA StutterInv == Inv /\ UNCHANGED vars => Inv'
  BY DEF Inv, TypeOK, BatchIsStored, TreesAreParsed, CommittedIsCovered,
         NodeIsReal, AnnouncedIsAnchored, FollowedIsAnchored, vars, tables, locals

LEMMA NextInv == Inv /\ [Next]_vars => Inv'
  <1> SUFFICES ASSUME Inv, [Next]_vars PROVE Inv'
    OBVIOUS
  <1>1. CASE \E l \in Leaf : InsertLeaf(l)
    BY <1>1, InsertLeafInv
  <1>2. ASSUME NEW j \in Job, Run(j) PROVE Inv'
    BY <1>2, StartInv, SelectLeavesInv, InsertTreeInv, UpdateLeafInv, AnchorInv,
       PublishInv DEF Run
  <1>3. ASSUME NEW j \in Job, Crash(j) PROVE Inv'
    BY <1>3, CrashInv
  <1>4. CASE UNCHANGED vars
    BY <1>4, StutterInv
  <1> QED
    BY <1>1, <1>2, <1>3, <1>4 DEF Next

-----------------------------------------------------------------------------
(* The theorems *)

\* The invariant holds in every reachable state (main.rs:71-189).
THEOREM AnchoringInvariance == Spec => []Inv
  BY InitInv, NextInv, PTL DEF Spec

\* Every variable has its type, and no tree is referred to before the database
\* has it (main.rs:133-143).
THEOREM AnchoringTypeCorrect == Spec => []TypeOK
  <1>1. Inv => TypeOK
    BY DEF Inv
  <1> QED
    BY <1>1, AnchoringInvariance, PTL

\* A committed leaf is under the root of the tree it points to, for any number of
\* processes that commit the same leaves (main.rs:92-153).
THEOREM CommittedLeavesAreCovered == Spec => []CommittedIsCovered
  <1>1. Inv => CommittedIsCovered
    BY DEF Inv
  <1> QED
    BY <1>1, AnchoringInvariance, PTL

\* What is on the chain belongs to a stored tree over parsed hashes
\* (main.rs:133-161).
THEOREM AnchoredTreesAreStored == Spec => []AnchoredIsStored
  <1>1. Inv => AnchoredIsStored
    BY DEF Inv, TreesAreParsed, AnchoredIsStored
  <1> QED
    BY <1>1, AnchoringInvariance, PTL

\* Where a Bitcoin node is required, no root is announced that was not broadcast, and
\* the transaction that PSBTs follow was broadcast (main.rs:161-183, 365-381).
THEOREM AnchorsAreBroadcast == Spec => []AnchorsAreReal
  <1>1. Inv => AnchorsAreReal
    BY DEF Inv, AnchorsAreReal
  <1> QED
    BY <1>1, AnchoringInvariance, PTL
=============================================================================
