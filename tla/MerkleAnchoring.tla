---------------------------- MODULE MerkleAnchoring ----------------------------
(***************************************************************************)
(* The job of the crypto service that commits event hashes to Bitcoin      *)
(* (main.rs:61-189, anchoring.rs, kafka.rs).  Every ten minutes it reads   *)
(* the uncommitted leaves, stores a tree over them, marks them one by one, *)
(* broadcasts the root and announces it.  No statement shares a            *)
(* transaction with another one, and nothing keeps two processes from      *)
(* running the job at once, as they do while a deployment is rolled out.   *)
(*                                                                         *)
(* What a root says of its leaves is the subject of Merkle; here a tree is *)
(* the set of leaves under its root.                                       *)
(***************************************************************************)
EXTENDS Naturals, Sequences

CONSTANTS
    Leaf,          \* primary keys of merkle_leaves
    Job,           \* processes of the crypto service
    MaxFaults      \* bound: statements and calls that fail, and crashes

ASSUME MerkleAnchoringAssumption == MaxFaults \in Nat

VARIABLES
    leaves,         \* the table merkle_leaves
    trees,          \* the table merkle_trees, in the order of the INSERTs
    chain,          \* trees whose root is in a broadcast transaction
    published,      \* trees the broker stored a message about
    require_bitcoin_rpc,   \* the environment variable, the same for everybody
    service,        \* how each process anchors
    last_anchor_txid,      \* the tree of the transaction PSBTs should follow
    pc,             \* where each process is suspended
    batch,          \* the leaves of the tick's batch
    leaf_ids,       \* those of them that are still to be marked
    tree_id,        \* their tree
    faults          \* failures and crashes so far

tables  == <<leaves, trees>>
locals  == <<batch, leaf_ids, tree_id>>
vars    == <<tables, chain, published, require_bitcoin_rpc, service,
             last_anchor_txid, pc, locals, faults>>

-----------------------------------------------------------------------------
\* A tree is known by its place in trees; 0 is no tree.
Row == [leaf_hash : {"absent", "valid", "malformed"},
        tree_id   : Nat,
        committed : BOOLEAN]

Step == {"down", "idle", "insert_tree", "update_leaf", "anchor", "publish"}

Init ==
    /\ leaves = [l \in Leaf |->
                   [leaf_hash |-> "absent", tree_id |-> 0, committed |-> FALSE]]
    /\ trees = <<>>
    /\ chain = {}
    /\ published = {}
    /\ require_bitcoin_rpc \in BOOLEAN
    /\ service = [j \in Job |-> "none"]
    /\ last_anchor_txid = [j \in Job |-> 0]
    /\ pc = [j \in Job |-> "down"]
    /\ leaf_ids = [j \in Job |-> {}]
    /\ batch = [j \in Job |-> {}]
    /\ tree_id = [j \in Job |-> 0]
    /\ faults = 0

-----------------------------------------------------------------------------
Goto(j, step) == pc' = [pc EXCEPT ![j] = step]

\* The body of the loop ends, and its locals with it.
Leave(j, step) ==
    /\ Goto(j, step)
    /\ batch' = [batch EXCEPT ![j] = {}]
    /\ leaf_ids' = [leaf_ids EXCEPT ![j] = {}]
    /\ tree_id' = [tree_id EXCEPT ![j] = 0]

Fail == faults < MaxFaults /\ faults' = faults + 1

\* Another program stores the hash of an event; the column is a text that need
\* not be the hexadecimal form of a hash.
InsertLeaf(l) ==
    /\ leaves[l].leaf_hash = "absent"
    /\ \E hash \in {"valid", "malformed"} :
          leaves' = [leaves EXCEPT ![l].leaf_hash = hash]
    /\ UNCHANGED <<trees, chain, published, require_bitcoin_rpc, service,
                   last_anchor_txid, pc, locals, faults>>

\* Faulty: starts with the mock whatever the environment says.
MayMockAlways == TRUE

MayMock == ~require_bitcoin_rpc

\* The process connects to the Bitcoin node; where it cannot, it falls back on
\* the mock or, when that is forbidden, does not start.
Start(j) ==
    /\ pc[j] = "down"
    /\ \E s \in {"rpc", "mock"} :
          /\ s = "mock" => MayMock
          /\ service' = [service EXCEPT ![j] = s]
    /\ Goto(j, "idle")
    /\ UNCHANGED <<tables, chain, published, require_bitcoin_rpc,
                   last_anchor_txid, locals, faults>>

Uncommitted == {l \in Leaf : leaves[l].leaf_hash # "absent" /\ ~leaves[l].committed}

\* Faulty: gives the batch up when one hash cannot be parsed.
ParsedStrict ==
    IF \E l \in Uncommitted : leaves[l].leaf_hash = "malformed" THEN {}
    ELSE Uncommitted

\* A row whose hash cannot be parsed is passed over.
Parsed == {l \in Uncommitted : leaves[l].leaf_hash = "valid"}

\* A tick that cannot connect, or finds nothing to commit, changes nothing.
SelectLeaves(j) ==
    /\ pc[j] = "idle"
    /\ Parsed # {}
    /\ batch' = [batch EXCEPT ![j] = Parsed]
    /\ leaf_ids' = [leaf_ids EXCEPT ![j] = Parsed]
    /\ Goto(j, "insert_tree")
    /\ UNCHANGED <<tables, chain, published, require_bitcoin_rpc, service,
                   last_anchor_txid, tree_id, faults>>

\* Faulty: logs a failed INSERT and goes on.
InsertTreeIgnores(j) ==
    /\ pc[j] = "insert_tree"
    /\ tree_id' = [tree_id EXCEPT ![j] = Len(trees) + 1]
    /\ \/ trees' = Append(trees, batch[j]) /\ UNCHANGED faults
       \/ Fail /\ UNCHANGED trees
    /\ Goto(j, "update_leaf")
    /\ UNCHANGED <<leaves, chain, published, require_bitcoin_rpc, service,
                   last_anchor_txid, batch, leaf_ids>>

\* An INSERT that is reported as failed may have been made all the same; the
\* batch is given up until the next tick.
InsertTree(j) ==
    /\ pc[j] = "insert_tree"
    /\ \/ /\ trees' = Append(trees, batch[j])
          /\ tree_id' = [tree_id EXCEPT ![j] = Len(trees')]
          /\ Goto(j, "update_leaf")
          /\ UNCHANGED <<batch, leaf_ids, faults>>
       \/ /\ Fail
          /\ trees' \in {trees, Append(trees, batch[j])}
          /\ Leave(j, "idle")
    /\ UNCHANGED <<leaves, chain, published, require_bitcoin_rpc, service,
                   last_anchor_txid>>

\* Faulty: marks in one statement all leaves that are uncommitted by now.
MarkedBulk(j, l) ==
    [k \in Leaf |-> IF k = l \/ k \in Uncommitted
                    THEN [leaves[k] EXCEPT !.tree_id = tree_id[j], !.committed = TRUE]
                    ELSE leaves[k]]

Marked(j, l) ==
    [leaves EXCEPT ![l] = [@ EXCEPT !.tree_id = tree_id[j], !.committed = TRUE]]

\* One UPDATE per leaf, in the order the SELECT happened to use.  One that fails
\* is logged; the leaf may or may not have been marked.
UpdateLeaf(j) ==
    /\ pc[j] = "update_leaf"
    /\ \E l \in leaf_ids[j] :
          /\ \/ leaves' = Marked(j, l) /\ UNCHANGED faults
             \/ Fail /\ leaves' \in {leaves, Marked(j, l)}
          /\ leaf_ids' = [leaf_ids EXCEPT ![j] = @ \ {l}]
          /\ Goto(j, IF leaf_ids[j] = {l} THEN "anchor" ELSE "update_leaf")
    /\ UNCHANGED <<trees, chain, published, require_bitcoin_rpc, service,
                   last_anchor_txid, batch, tree_id>>

\* Faulty: takes the answer of the mock for a transaction.
TxidOfMocked(j) == tree_id[j]

\* The txid parsed: the one of the mock has a digit too few, and the transaction
\* that was followed before stays.
TxidOf(j) == IF service[j] = "rpc" THEN tree_id[j] ELSE last_anchor_txid[j]

\* The node funds, signs and broadcasts a transaction with the root; when one of
\* the calls fails the root is given up, although a broadcast whose answer was
\* lost has happened.  The mock answers and broadcasts nothing.
Anchor(j) ==
    /\ pc[j] = "anchor"
    /\ \/ /\ chain' = IF service[j] = "rpc" THEN chain \cup {tree_id[j]} ELSE chain
          /\ last_anchor_txid' = [last_anchor_txid EXCEPT ![j] = TxidOf(j)]
          /\ Goto(j, "publish")
          /\ UNCHANGED <<locals, faults>>
       \/ /\ service[j] = "rpc"
          /\ Fail
          /\ chain' \in {chain, chain \cup {tree_id[j]}}
          /\ Leave(j, "idle")
          /\ UNCHANGED last_anchor_txid
    /\ UNCHANGED <<tables, published, require_bitcoin_rpc, service>>

\* The event goes to merkle.committed and to bitcoin.anchored.  The publisher
\* ignores failures: the broker stored a message or not.
Publish(j) ==
    /\ pc[j] = "publish"
    /\ published' \in {published, published \cup {tree_id[j]}}
    /\ Leave(j, "idle")
    /\ UNCHANGED <<tables, chain, require_bitcoin_rpc, service, last_anchor_txid,
                   faults>>

\* The process dies between two statements and is started again later.
Crash(j) ==
    /\ pc[j] # "down"
    /\ Fail
    /\ Leave(j, "down")
    /\ service' = [service EXCEPT ![j] = "none"]
    /\ last_anchor_txid' = [last_anchor_txid EXCEPT ![j] = 0]
    /\ UNCHANGED <<tables, chain, published, require_bitcoin_rpc>>

Run(j) ==
    \/ Start(j) \/ SelectLeaves(j) \/ InsertTree(j) \/ UpdateLeaf(j)
    \/ Anchor(j) \/ Publish(j)

Next ==
    \/ \E l \in Leaf : InsertLeaf(l)
    \/ \E j \in Job : Run(j) \/ Crash(j)

Spec == Init /\ [][Next]_vars

\* The timer goes on ticking, every statement ends, and a process that died is
\* started again.
FairSpec == Spec /\ \A j \in Job : WF_vars(Run(j))
-----------------------------------------------------------------------------
(* Properties *)

\* Every variable stays in its type; no tree is referred to before the database
\* has it.
TypeOK ==
    /\ leaves \in [Leaf -> Row]
    /\ trees \in Seq(SUBSET Leaf)
    /\ chain \subseteq Nat
    /\ published \subseteq Nat
    /\ require_bitcoin_rpc \in BOOLEAN
    /\ service \in [Job -> {"none", "rpc", "mock"}]
    /\ last_anchor_txid \in [Job -> Nat]
    /\ pc \in [Job -> Step]
    /\ batch \in [Job -> SUBSET Leaf]
    /\ leaf_ids \in [Job -> SUBSET Leaf]
    /\ tree_id \in [Job -> 0 .. Len(trees)]
    /\ faults \in Nat

\* main.rs:92-153: a leaf that is marked as committed points to a stored tree
\* that has it among its leaves, also when leaves arrive between the SELECT and
\* the UPDATEs, when a second process commits the same leaves, and when the job
\* dies half-way.
CommittedIsCovered ==
    \A l \in Leaf : leaves[l].committed =>
        /\ leaves[l].tree_id \in DOMAIN trees
        /\ l \in trees[leaves[l].tree_id]

\* main.rs:133-143, 161: what is on the chain can be traced to a stored tree
\* over parsed hashes; no root is broadcast for a tree the database refused.
AnchoredIsStored ==
    \A n \in chain :
        /\ n \in DOMAIN trees
        /\ \A l \in trees[n] : leaves[l].leaf_hash = "valid"

\* main.rs:161-183, 365-381: where a Bitcoin node is required, a root that was
\* announced is in a broadcast transaction.
AnnouncedIsAnchored ==
    require_bitcoin_rpc => published \subseteq chain

\* main.rs:165-169, anchoring.rs:73-76: the transaction that PSBTs should follow
\* exists, also where the mock answers with a txid of its own.
FollowedIsAnchored ==
    \A j \in Job : last_anchor_txid[j] # 0 => last_anchor_txid[j] \in chain

\* What the job tells of the chain, the message to the other services and the txid to
\* the PSBT consumer, is on the chain (main.rs:161-183).
AnchorsAreReal == AnnouncedIsAnchored /\ FollowedIsAnchored

\* main.rs:74-153: every hash is committed in the end; neither a malformed
\* neighbour, a failed statement, a crash nor a second process keeps it out for
\* ever.
EveryLeafIsCommitted ==
    \A l \in Leaf : leaves[l].leaf_hash = "valid" ~> leaves[l].committed
=============================================================================
