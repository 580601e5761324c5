----------------------------- MODULE BatchTree -----------------------------
(***************************************************************************)
(* The trees a batch announces, as join_registered_batch collects them and *)
(* validate_vtxo_tree and validate_connector_tree judge them               *)
(* (src/batch.rs), before a nonce, a partial signature or a forfeit leaves *)
(* the process.                                                            *)
(*                                                                         *)
(* A chunk is a transaction and the children map arkd declares for it.     *)
(* The stream is filtered by topic: siblings are declared and never sent.  *)
(* The transaction itself says what it spends; the map may say otherwise.  *)
(***************************************************************************)
EXTENDS Integers, FiniteSets, Sequences, Functions

CONSTANTS
  TxId,            \* the transactions that can be received
  Key,             \* cosigners' keys
  Announced,       \* the batches: what arkd announces of each, and may send
  MaxBatchGraphNodes    \* MAX_BATCH_GRAPH_NODES

\* The outpoint's transaction when it is the commitment.
Root == "commitment"

(***************************************************************************)
(* A chunk has the outpoint it spends, its outputs but the anchor, the     *)
(* declared children by output index, its declared cosigners, whether its  *)
(* outputs are those of our renewal, and whether version, lock time,       *)
(* sequence and anchor are canonical.  An output has a value and the keys  *)
(* its taproot key aggregates; keys stand for the script they produce.     *)
(***************************************************************************)
Outputs == [value: Nat, keys: SUBSET Key]

IsChunk(chunk) ==
  /\ chunk.prev \in [tx: TxId \cup {Root}, vout: Nat]
  /\ chunk.outs \in Seq(Outputs)
  /\ DOMAIN chunk.children \subseteq Nat
  /\ chunk.cosigners \subseteq Key

\* Of a batch: the commitment's outputs, our own cosigner, the cosigners arkd
\* announced, the inputs that need a connector, and what may come of each
\* transaction.
ASSUME BatchTreeAssumption ==
  /\ IsFiniteSet(TxId) /\ IsFiniteSet(Key) /\ Root \notin TxId /\ MaxBatchGraphNodes \in Nat
  /\ \A b \in DOMAIN Announced:
       /\ Announced[b].commitment \in Seq(Outputs) /\ Len(Announced[b].commitment) = 2
       /\ Announced[b].own \in Announced[b].cosigners
       /\ Announced[b].inputs \in Nat
       /\ \A t \in TxId: \A chunk \in Announced[b].sent[t]: IsChunk(chunk)

VARIABLES
  batch,      \* the batch that is joined
  received,   \* the chunks, by transaction
  twice,      \* transactions received more than once
  verdict     \* of each tree, once asked for

treeVars == <<batch, received, twice, verdict>>

CommitmentOut == Announced[batch].commitment
Own == Announced[batch].own
BatchCosigners == Announced[batch].cosigners

Nodes == DOMAIN received

SumOf(outs) == SumFunctionOnSet([i \in DOMAIN outs |-> outs[i].value], DOMAIN outs)

Total(t) == SumOf(received[t].outs)

OutsOf(tx) == IF tx = Root THEN CommitmentOut ELSE received[tx].outs

\* An output is counted from 0 and a sequence from 1.
Output(op) == OutsOf(op.tx)[op.vout + 1]

OutputExists(op) == op.tx \in Nodes \cup {Root} /\ op.vout < Len(OutsOf(op.tx))

-----------------------------------------------------------------------------
(***************************************************************************)
(* validate_graph, check by check.                                         *)
(***************************************************************************)
CanonicalChunks ==
  /\ Nodes # {} /\ Cardinality(Nodes) + Cardinality(twice) \leq MaxBatchGraphNodes
  /\ twice = {}
  /\ \A t \in Nodes: /\ received[t].canonical
                     /\ Cardinality(DOMAIN received[t].children) \leq Len(received[t].outs)

\* The declared children of a node.  One that is not received is a sibling
\* branch, and nothing is said of it.
Children(t) == {received[t].children[v]: v \in DOMAIN received[t].children}

DeclaredOutputsExist ==
  \A t \in Nodes: \A v \in DOMAIN received[t].children: v < Len(received[t].outs)

EdgesAreSpends ==
  \A t \in Nodes: \A v \in DOMAIN received[t].children:
    LET child == received[t].children[v] IN
    child \in Nodes =>
      /\ \A u \in Nodes \ {t}: child \notin Children(u)
      /\ \A w \in DOMAIN received[t].children \ {v}: received[t].children[w] # child
      /\ received[child].prev = [tx |-> t, vout |-> v]
      /\ Total(child) = received[t].outs[v + 1].value

Roots == {t \in Nodes: \A u \in Nodes: t \notin Children(u)}

\* Mutant: a disconnected cycle goes unnoticed.
TraversedAnyway(root) == root \in Nodes

\* What is visited from the root on along the declared edges: the least set of
\* nodes that has the root and every received child of its members.
Traversed(root) ==
  \A S \in SUBSET Nodes:
    root \in S /\ (\A t \in S: Children(t) \cap Nodes \subseteq S) => S = Nodes

RootSpends(root, vout) ==
  /\ received[root].prev = [tx |-> Root, vout |-> vout]
  /\ Total(root) = CommitmentOut[vout + 1].value

ValidateGraph(vout) ==
  /\ CanonicalChunks
  /\ DeclaredOutputsExist
  /\ EdgesAreSpends
  /\ \E root \in Nodes: Roots = {root} /\ Traversed(root) /\ RootSpends(root, vout)

-----------------------------------------------------------------------------
(***************************************************************************)
(* validate_vtxo_tree: every node is cosigned by us and by one operator    *)
(* key, the same everywhere, spends an output locked to exactly the keys   *)
(* it declares, and one leaf is byte for byte our renewal.                 *)
(***************************************************************************)
Extras(t) == received[t].cosigners \ BatchCosigners

CosignersBind ==
  /\ \A t \in Nodes: Own \in received[t].cosigners /\ Cardinality(Extras(t)) = 1
  /\ \A t, u \in Nodes: Extras(t) = Extras(u)

LockedToCosigners ==
  \A t \in Nodes: /\ OutputExists(received[t].prev)
                  /\ Output(received[t].prev).keys = received[t].cosigners

RenewalLeaves == {t \in Nodes: DOMAIN received[t].children = {} /\ received[t].exact}

ValidateVtxoTree ==
  /\ ValidateGraph(0)
  /\ CosignersBind
  /\ LockedToCosigners
  /\ Cardinality(RenewalLeaves) = 1

(***************************************************************************)
(* validate_connector_tree: below output 1, every output a nonzero taproot *)
(* output, and one dust leaf for each input.                               *)
(***************************************************************************)
Dust == 1

ConnectorLeaves == {t \in Nodes: DOMAIN received[t].children = {}}

ConnectorLeavesAreDust ==
  \A t \in ConnectorLeaves: Len(received[t].outs) = 1 /\ received[t].outs[1].value = Dust

ValidateConnectorTree ==
  /\ ValidateGraph(1)
  /\ \A t \in Nodes: \A i \in DOMAIN received[t].outs: received[t].outs[i].value > 0
  /\ ConnectorLeavesAreDust
  /\ Cardinality(ConnectorLeaves) = Announced[batch].inputs
  /\ Announced[batch].inputs > 0

-----------------------------------------------------------------------------
TreeInit ==
  /\ batch \in DOMAIN Announced
  /\ received = <<>>
  /\ twice = {}
  /\ verdict = [vtxo |-> "none", connector |-> "none"]

Receive(t, chunk) ==
  /\ verdict.vtxo = "none" /\ t \notin Nodes
  /\ received' = [u \in Nodes \cup {t} |-> IF u = t THEN chunk ELSE received[u]]
  /\ UNCHANGED <<batch, twice, verdict>>

ReceiveAgain(t) ==
  /\ verdict.vtxo = "none" /\ t \in Nodes
  /\ twice' = twice \cup {t}
  /\ UNCHANGED <<batch, received, verdict>>

Judge ==
  /\ verdict.vtxo = "none"
  /\ verdict' = [vtxo |-> IF ValidateVtxoTree THEN "accepted" ELSE "rejected",
                 connector |-> IF ValidateConnectorTree THEN "accepted" ELSE "rejected"]
  /\ UNCHANGED <<batch, received, twice>>

TreeNext ==
  \/ \E t \in TxId: ReceiveAgain(t) \/ \E chunk \in Announced[batch].sent[t]: Receive(t, chunk)
  \/ Judge

TreeSpec == TreeInit /\ [][TreeNext]_treeVars

-----------------------------------------------------------------------------
(***************************************************************************)
(* What the ledger will say of the same transactions: follow each one's    *)
(* own input, and never the declared children.                             *)
(***************************************************************************)
Parent(t) == received[t].prev.tx

\* The received transactions on the way from t to the commitment, t included.
Ancestry(t) ==
  {a \in Nodes: \A S \in SUBSET Nodes:
     t \in S /\ (\A u \in S: Parent(u) \in Nodes => Parent(u) \in S) => a \in S}

ReachesCommitment(t) == \E a \in Ancestry(t): Parent(a) = Root

\* Spent in order, every node becomes final with the commitment, out of its
\* output vout, with no value lost and no output spent twice.
IsBranchOf(vout) ==
  /\ \A t \in Nodes:
       /\ OutputExists(received[t].prev)
       /\ Total(t) = Output(received[t].prev).value
       /\ Parent(t) = Root => received[t].prev.vout = vout
       /\ ReachesCommitment(t)
  /\ \A t, u \in Nodes: received[t].prev = received[u].prev => t = u

\* An honest arkd declares the children it made, and sends what it declares
\* or leaves a whole subtree out.
HonestlyDeclared ==
  \A t \in Nodes:
    /\ received[t].canonical
    /\ \A v \in DOMAIN received[t].children:
         /\ v < Len(received[t].outs)
         /\ received[t].children[v] \in Nodes =>
              received[received[t].children[v]].prev = [tx |-> t, vout |-> v]
    /\ \A u \in Nodes: Parent(u) = t =>
         /\ received[u].prev.vout \in DOMAIN received[t].children
         /\ received[t].children[received[u].prev.vout] = u

HonestBranch(vout) ==
  /\ twice = {} /\ Nodes # {} /\ Cardinality(Nodes) \leq MaxBatchGraphNodes
  /\ HonestlyDeclared /\ IsBranchOf(vout)
  /\ Cardinality({t \in Nodes: Parent(t) = Root}) = 1

TreeTypeOK ==
  /\ batch \in DOMAIN Announced
  /\ Nodes \subseteq TxId /\ \A t \in Nodes: received[t] \in Announced[batch].sent[t]
  /\ twice \subseteq Nodes
  /\ verdict \in [vtxo: {"none", "accepted", "rejected"},
                  connector: {"none", "accepted", "rejected"}]

\* Whatever the declared children say, an accepted graph is a branch of the
\* commitment by what its transactions spend; and every filtered branch an
\* honest arkd sends passes the graph checks.
GraphIsABranch ==
  verdict.vtxo # "none" => \A vout \in {0, 1}: ValidateGraph(vout) <=> HonestBranch(vout)

\* Once we sign an accepted tree, nobody but all its cosigners together moves
\* the value on the way to our leaf: each output on it needs our own key and
\* the batch's one operator, and at the end is our renewal, once.
OurLeafIsReachable ==
  verdict.vtxo = "accepted" =>
    \E leaf \in Nodes:
      /\ received[leaf].exact
      /\ \A t \in Nodes \ {leaf}: received[t].exact => DOMAIN received[t].children # {}
      /\ ReachesCommitment(leaf)
      /\ \E operator \in received[leaf].cosigners \ BatchCosigners:
           \A t \in Ancestry(leaf): {Own, operator} \subseteq Output(received[t].prev).keys

\* The outputs nothing received spends: leaves, and branches never sent.
OutpointsOf(t) == {[tx |-> t, vout |-> i - 1]: i \in DOMAIN received[t].outs}

Frontier ==
  {op \in UNION {OutpointsOf(t): t \in Nodes}: \A t \in Nodes: received[t].prev # op}

Unspent == SumFunctionOnSet([op \in Frontier |-> Output(op).value], Frontier)

\* Nothing of the commitment's output gets lost between it and the leaves: what
\* the received part of a tree leaves unspent adds up to it.
ValueIsConserved ==
  /\ verdict.vtxo = "accepted" => Unspent = CommitmentOut[1].value
  /\ verdict.connector = "accepted" => Unspent = CommitmentOut[2].value

\* Each input finds a connector of its own: an unspent output of exactly dust,
\* alone in its transaction, which ends below the commitment's output 1.
ConnectorsMatchInputs ==
  verdict.connector = "accepted" =>
    \E S \in SUBSET Frontier:
      /\ Cardinality(S) = Announced[batch].inputs
      /\ \A op \in S: /\ Output(op).value = Dust /\ Len(received[op.tx].outs) = 1
                      /\ ReachesCommitment(op.tx)

\* Whatever arkd declares, a tree that passes is what the ledger will make of it
\* (src/batch.rs:993): by what its transactions spend, one branch of the
\* commitment, in which no value is lost or spent twice; it leads to exactly our
\* renewal through outputs that need our own key; and the connectors under the
\* commitment hold one output of exactly dust for each of our inputs.
AcceptedTreesAreSound ==
  /\ TreeTypeOK
  /\ GraphIsABranch
  /\ OurLeafIsReachable
  /\ ValueIsConserved
  /\ ConnectorsMatchInputs
=============================================================================
