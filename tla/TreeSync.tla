----------------------------- MODULE TreeSync -----------------------------
(***************************************************************************)
(* How the browser follows the trees: sync, sync_once, sync_tree and       *)
(* load_current_tree_records (src/web_app.rs) over the indexer's reads     *)
(* (src/arkade.rs).  A tree is known by the output last seen.  A spent     *)
(* output is followed to its successor, which a swing names directly,      *)
(* while a renewal names only a batch whose leaves hold the successors of  *)
(* many trees.  Every read is a step; in between trees are spent and the   *)
(* indexer catches up.                                                     *)
(***************************************************************************)
EXTENDS Naturals, Sequences

CONSTANTS
  Tree,           \* the declared trees
  MaxSpends,      \* bound: spends of a tree
  MaxBatch,       \* bound: renewal batches
  IndexAttempts,  \* INDEX_ATTEMPTS: 80 in the code
  Absent          \* no tree, no output, no record

ASSUME TreeSyncAssumption ==
  {MaxSpends, MaxBatch} \subseteq Nat /\ IndexAttempts \in Nat \ {0, 1}

VARIABLES
  phase,      \* where the application is
  only,       \* the tree of a sync_tree, Absent in a sync
  goal,       \* trees being read
  attempts,   \* attempts of this sync
  cur,        \* the records in hand
  since,      \* history: spends shown when the attempt began
  heads,      \* the trees the application shows
  viewport,   \* trees in sight
  spends,     \* the spends of each tree
  marksUpTo,  \* indexer: spends it shows
  listsUpTo,  \* indexer: spends whose successor, with its transaction, it lists
  sweptTrees  \* trees whose last output can no longer be spent

syncVars ==
  <<phase, only, goal, attempts, cur, since, heads, viewport, spends, marksUpTo, listsUpTo,
    sweptTrees>>
app == <<phase, only, goal, attempts, cur, since, heads>>
treeIndex == <<spends, marksUpTo, listsUpTo, sweptTrees>>

BySwing == 0
TreeOutput == [tree: Tree, n: 1..(MaxSpends + 1)]
Record == [out: TreeOutput, spent: BOOLEAN, swept: BOOLEAN]
Out(k, n) == [tree |-> k, n |-> n]
LastOut(k) == Len(spends[k]) + 1

SyncInit ==
  /\ phase = "idle" /\ only = Absent
  /\ goal = {} /\ attempts = 0
  /\ cur = [k \in Tree |-> Absent]
  /\ since = [k \in Tree |-> 0]
  /\ heads = [k \in Tree |-> Absent]
  /\ viewport = {}
  /\ spends = [k \in Tree |-> <<>>]
  /\ marksUpTo = [k \in Tree |-> 0] /\ listsUpTo = [k \in Tree |-> 0]
  /\ sweptTrees = {}

-----------------------------------------------------------------------------
\* The record of an exact output, as the indexer shows it now.
Read(o) ==
  [out |-> o, spent |-> o.n <= marksUpTo[o.tree],
   swept |-> /\ o.tree \in sweptTrees /\ o.n = LastOut(o.tree)
             /\ marksUpTo[o.tree] = Len(spends[o.tree])]

\* What get_vtxo_successor_candidates returns: of a swing its tree output, of a
\* renewal every leaf of its batch that carries the tree marker.
Candidates(o) ==
  LET spend == spends[o.tree][o.n]
      shows(p) == p[2] <= listsUpTo[p[1]]
      follows(p) == IF spend = BySwing THEN p = <<o.tree, o.n>> ELSE spends[p[1]][p[2]] = spend
  IN {Out(p[1], p[2] + 1): p \in {p \in Tree \X (1..MaxSpends): shows(p) /\ follows(p)}}

\* Mutant: any leaf of the batch will do.
SuccessorsOfBatch(k, o) == Candidates(o)

\* Mutant: only swings are followed.
SuccessorsBySwing(k, o) ==
  {c \in Candidates(o): c.tree = k /\ spends[k][o.n] = BySwing}

\* Only the candidate whose state packet carries the tree's identity
Successors(k, o) == {c \in Candidates(o): c.tree = k}

Enter(where) == phase' = where

End == Enter("idle") /\ only' = Absent /\ goal' = {} /\ attempts' = 0 /\ cur' = [k \in Tree |-> Absent]

Unavailable(recs) == \E k \in goal: ~recs[k].spent /\ recs[k].swept
AllHeads(recs) == \A k \in goal: ~recs[k].spent

\* A head that can no longer be spent is fatal; a spent record has a successor.
Judge(recs) ==
  IF Unavailable(recs)
  THEN End /\ UNCHANGED <<since, heads>>
  ELSE /\ Enter(IF AllHeads(recs) THEN "fetching" ELSE "following")
       /\ cur' = recs
       /\ UNCHANGED <<only, goal, attempts, since, heads>>

-----------------------------------------------------------------------------
\* The first attempt of a new application takes the declared deployments.
Initialize ==
  /\ phase = "idle" /\ \A k \in Tree: heads[k] = Absent
  /\ heads' = [k \in Tree |-> Out(k, 1)]
  /\ Enter("reading") /\ goal' = viewport /\ attempts' = 1
  /\ since' = marksUpTo
  /\ UNCHANGED <<only, cur, viewport, treeIndex>>

StartSync ==
  /\ phase = "idle" /\ \A k \in Tree: heads[k] # Absent
  /\ Enter("reading") /\ goal' = viewport /\ attempts' = 0
  /\ since' = marksUpTo
  /\ UNCHANGED <<only, cur, heads, viewport, treeIndex>>

StartTree(k) ==
  /\ phase = "idle" /\ heads[k] # Absent
  /\ Enter("reading") /\ only' = k /\ goal' = {k}
  /\ since' = marksUpTo
  /\ UNCHANGED <<attempts, cur, heads, viewport, treeIndex>>

ReadHeads ==
  /\ phase = "reading"
  /\ Judge([k \in Tree |-> IF k \in goal THEN Read(heads[k]) ELSE Absent])
  /\ UNCHANGED <<viewport, treeIndex>>

Behind == {k \in goal: cur[k].spent}

Follow ==
  /\ phase = "following"
  /\ \A k \in Behind: Successors(k, cur[k].out) # {}
  /\ \E next \in [Behind -> TreeOutput]:
       /\ \A k \in Behind: next[k] \in Successors(k, cur[k].out)
       /\ Judge([k \in Tree |-> IF k \in Behind THEN Read(next[k]) ELSE cur[k]])
  /\ UNCHANGED <<viewport, treeIndex>>

\* A successor is not indexed yet: sync waits and starts over, sync_tree fails.
Transient ==
  /\ phase = "following"
  /\ \E k \in Behind: Successors(k, cur[k].out) = {}
  /\ IF only = Absent /\ attempts + 1 < IndexAttempts
     THEN /\ Enter("reading") /\ attempts' = attempts + 1
          /\ cur' = [k \in Tree |-> Absent]
          /\ since' = marksUpTo
          /\ UNCHANGED <<only, goal>>
     ELSE End /\ UNCHANGED since
  /\ UNCHANGED <<heads, viewport, treeIndex>>

\* The creating transactions are there and the records agree with them.
Finish ==
  /\ phase = "fetching"
  /\ heads' = [k \in Tree |-> IF k \in goal THEN cur[k].out ELSE heads[k]]
  /\ End
  /\ UNCHANGED <<since, viewport, treeIndex>>

\* A read fails.
FailSync ==
  /\ phase \in {"reading", "following", "fetching"}
  /\ End
  /\ UNCHANGED <<since, heads, viewport, treeIndex>>

\* The player walks: set_tree_viewport before an action of the page.
Walk(trees) ==
  /\ phase = "idle"
  /\ viewport' = trees
  /\ UNCHANGED <<app, treeIndex>>

-----------------------------------------------------------------------------
(***************************************************************************)
(* Players, the operator's renewals and the indexer.                       *)
(***************************************************************************)
CanSpend(k) == Len(spends[k]) < MaxSpends /\ k \notin sweptTrees

ChopTree(k) ==
  /\ CanSpend(k)
  /\ spends' = [spends EXCEPT ![k] = Append(@, BySwing)]
  /\ UNCHANGED <<app, viewport, marksUpTo, listsUpTo, sweptTrees>>

\* One batch renews several trees.
RenewTrees(trees, b) ==
  /\ trees # {} /\ \A k \in trees: CanSpend(k)
  /\ \A k \in Tree: \A i \in 1..Len(spends[k]): spends[k][i] < b
  /\ spends' = [k \in Tree |-> IF k \in trees THEN Append(spends[k], b) ELSE spends[k]]
  /\ UNCHANGED <<app, viewport, marksUpTo, listsUpTo, sweptTrees>>

MarkTree(k) ==
  /\ marksUpTo[k] < Len(spends[k])
  /\ marksUpTo' = [marksUpTo EXCEPT ![k] = @ + 1]
  /\ UNCHANGED <<app, viewport, spends, listsUpTo, sweptTrees>>

ListTree(k) ==
  /\ listsUpTo[k] < Len(spends[k])
  /\ listsUpTo' = [listsUpTo EXCEPT ![k] = @ + 1]
  /\ UNCHANGED <<app, viewport, spends, marksUpTo, sweptTrees>>

SweepTree(k) ==
  /\ k \notin sweptTrees
  /\ sweptTrees' = sweptTrees \cup {k}
  /\ UNCHANGED <<app, viewport, spends, marksUpTo, listsUpTo>>

-----------------------------------------------------------------------------
AppStep ==
  \/ Initialize \/ StartSync \/ ReadHeads \/ Follow \/ Transient \/ Finish \/ FailSync
  \/ (\E k \in Tree: StartTree(k)) \/ (\E trees \in SUBSET Tree: Walk(trees))

TreeStep ==
  \/ \E k \in Tree: ChopTree(k) \/ MarkTree(k) \/ ListTree(k) \/ SweepTree(k)
  \/ \E trees \in SUBSET Tree, b \in 1..MaxBatch: RenewTrees(trees, b)

SyncNext == AppStep \/ TreeStep

SyncSpec == SyncInit /\ [][SyncNext]_syncVars

\* A sync that ends otherwise than by what it read.
SyncFailure == FailSync /\ ~(ReadHeads \/ Transient)

\* The page refreshes on a timer, there are finitely many failures, and the
\* indexer catches up.
SyncFairness ==
  /\ WF_syncVars(Initialize) /\ SF_syncVars(StartSync)
  /\ WF_syncVars(ReadHeads \/ Follow \/ Transient \/ Finish)
  /\ <>[][~SyncFailure]_syncVars
  /\ \A k \in Tree: WF_syncVars(MarkTree(k)) /\ WF_syncVars(ListTree(k))

-----------------------------------------------------------------------------
SyncTypeOK ==
  /\ phase \in {"idle", "reading", "following", "fetching"}
  /\ only \in Tree \cup {Absent} /\ goal \subseteq Tree /\ attempts \in 0..IndexAttempts
  /\ cur \in [Tree -> Record \cup {Absent}]
  /\ since \in [Tree -> Nat]
  /\ heads \in [Tree -> TreeOutput \cup {Absent}] /\ viewport \subseteq Tree
  /\ \A k \in Tree: marksUpTo[k] \in 0..Len(spends[k]) /\ listsUpTo[k] \in 0..Len(spends[k])
  /\ sweptTrees \subseteq Tree

\* However many trees share a batch and however the reads fall, what is shown of
\* a tree is an output of that tree.
IdentityIsKept == \A k \in Tree: heads[k] # Absent => heads[k].tree = k

\* A sync that succeeds shows every tree of it at an output that was unspent when
\* its last attempt began, or later.
FreshStep == phase = "fetching" /\ heads' # heads => \A k \in goal: heads'[k].n > since[k]

\* A tree is never shown as it was before.
ForwardStep == \A k \in Tree: heads[k] # Absent => heads'[k].n >= heads[k].n

\* However many trees share a renewal batch and however the reads fall between the
\* indexer's steps (src/arkade.rs), a tree is shown at an output of its own,
\* unspent when the attempt began or later, and never as it was before.
SyncIsTrue ==
  [](SyncTypeOK /\ IdentityIsKept) /\ [][FreshStep /\ ForwardStep]_syncVars

\* Once a tree stays in sight with no unspendable tree beside it, it is shown at
\* its last output and stays so.
SyncConverges ==
  \A k \in Tree:
    <>[](k \in viewport /\ viewport \cap sweptTrees = {}) => <>[](heads[k] = Out(k, LastOut(k)))
=============================================================================
