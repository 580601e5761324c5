----------------------------- MODULE BatchJoin -----------------------------
(***************************************************************************)
(* The renewal of one state output by riding an Ark batch (src/batch.rs).  *)
(* Several processes may try to renew the same output: its owner's         *)
(* browser, the game server's watchtower, either of them again after a     *)
(* restart.  Each registers an intent, follows arkd's event stream, signs  *)
(* the tree of new outputs, hands its forfeit to the emulator, and waits   *)
(* for the batch to be finalized.                                          *)
(*                                                                         *)
(* The stream is an alphabet: any event, of any batch, at any time, late   *)
(* or twice.  An event the code skips is a stuttering step.  Nothing is    *)
(* assumed of it but that a tree signature cannot verify before our own    *)
(* partial signature was given, and that a batch reported as finalized is. *)
(***************************************************************************)
EXTENDS Naturals, FiniteSets, Bags

CONSTANTS
  Joiner,           \* the processes that renew the output
  Commitment,       \* commitment transactions
  Batch,            \* batch ids
  Tree,             \* the nodes of the branch that ends in our leaf
  Inputs,           \* inputs of the intent: the state, and a fee input or not
  MaxGraphNodes,    \* MAX_BATCH_GRAPH_NODES
  StateRemaining,   \* seconds until the state output expires
  FundingRemaining, \* seconds until the fee input expires
  Lifetimes,        \* batch lifetimes arkd may announce
  None

ASSUME BatchJoinAssumption ==
  /\ Inputs \in {1, 2} /\ MaxGraphNodes \in Nat \ {0}
  /\ StateRemaining \in Nat /\ FundingRemaining \in Nat /\ Lifetimes \subseteq Nat
  /\ None \notin Joiner \cup Commitment \cup Batch
  /\ {"none", "failed", "retry", "reconcile"} \cap Commitment = {}

VARIABLES
  pc,         \* where each process is in join_batch_with_intent
  attempt,    \* its registration attempt
  prog,       \* what it has of the batch it follows
  released,   \* its flag: the forfeits have gone to the emulator
  result,     \* what the call returned
  landing,    \* registrations on their way to arkd
  queue,      \* arkd: the intent it holds for the output
  finalized,  \* arkd: commitments confirmed
  forfeits    \* every forfeit that left a process, with the commitment shown

vars == <<pc, attempt, prog, released, result, landing, queue, finalized, forfeits>>

(***************************************************************************)
(* A node received for a tree, or for the connectors of a commitment.      *)
(***************************************************************************)
VtxoChunk == [of: Commitment, node: Tree \cup {"stray"}]
ConnectorChunk == [of: Commitment, leaves: 1..2]

Unsigned == [n \in Tree |-> "none"]

Fresh == [step |-> "Start", batch |-> None, lifetime |-> 0,
          vtxo |-> EmptyBag, connectors |-> EmptyBag, commitment |-> None,
          nonces |-> {}, submitted |-> FALSE, sigs |-> Unsigned, expected |-> None]

(***************************************************************************)
(* What the validations decide; BatchTree has the graphs themselves.       *)
(***************************************************************************)
ValidVtxoTree(chunks, c) == chunks = SetToBag([of: {c}, node: Tree])

ValidConnectors(chunks, c) == chunks = SetToBag({[of |-> c, leaves |-> Inputs]})

TreeIsSigned(sigs) == \A n \in Tree: sigs[n] = "good"

\* add_fee_funding lowers the intent's expiry to the earlier of its inputs.
InputRemaining ==
  IF Inputs = 2 /\ FundingRemaining < StateRemaining THEN FundingRemaining ELSE StateRemaining

ValidBatchExpiry(lifetime) == InputRemaining > 0 /\ lifetime >= InputRemaining

-----------------------------------------------------------------------------
Init ==
  /\ pc = [j \in Joiner |-> "idle"]
  /\ attempt = [j \in Joiner |-> 0]
  /\ prog = [j \in Joiner |-> Fresh]
  /\ released = [j \in Joiner |-> FALSE]
  /\ result = [j \in Joiner |-> "none"]
  /\ landing = {}
  /\ queue = None
  /\ finalized = {}
  /\ forfeits = {}

Goto(j, where) == pc' = [pc EXCEPT ![j] = where]

Return(j, what) ==
  /\ pc' = [pc EXCEPT ![j] = "done"]
  /\ result' = [result EXCEPT ![j] = what]

(***************************************************************************)
(* Registration.  The request is one message; arkd refuses an intent whose *)
(* input is already queued.  An intent whose process does not know its id  *)
(* is an orphan: nobody answers when a batch selects it.                   *)
(***************************************************************************)
StartJoin(j) ==
  /\ pc[j] = "idle"
  /\ Goto(j, "registering")
  /\ attempt' = [attempt EXCEPT ![j] = 0]
  /\ prog' = [prog EXCEPT ![j] = Fresh]
  /\ released' = [released EXCEPT ![j] = FALSE]
  /\ result' = [result EXCEPT ![j] = "none"]
  /\ landing' = landing \cup {j}
  /\ UNCHANGED <<queue, finalized, forfeits>>

\* The output is spent: a commitment we gave a forfeit for is confirmed.
Renewed == \E f \in forfeits: f.of \in finalized

\* arkd queues the intent; its answer arrives, or is lost or too late.
Land(j, answered) ==
  /\ j \in landing /\ queue = None /\ ~Renewed
  /\ answered => pc[j] = "registering"
  /\ landing' = landing \ {j}
  /\ queue' = [by |-> j, known |-> answered, selected |-> FALSE]
  /\ pc' = IF answered THEN [pc EXCEPT ![j] = "joining"] ELSE pc
  /\ UNCHANGED <<attempt, prog, released, result, finalized, forfeits>>

\* Mutant: a duplicate is an error like any other.
RefuseDuplicateFatal(j) ==
  /\ j \in landing /\ queue # None
  /\ landing' = landing \ {j}
  /\ \/ pc[j] = "registering" /\ Return(j, "failed")
     \/ pc[j] # "registering" /\ UNCHANGED <<pc, result>>
  /\ UNCHANGED <<attempt, prog, released, queue, finalized, forfeits>>

RefuseDuplicate(j) ==
  /\ j \in landing /\ queue # None
  /\ landing' = landing \ {j}
  /\ \/ pc[j] = "registering" /\ attempt[j] = 0 /\ Goto(j, "clearing") /\ UNCHANGED result
     \/ pc[j] = "registering" /\ attempt[j] = 1 /\ Return(j, "failed")
     \/ pc[j] # "registering" /\ UNCHANGED <<pc, result>>
  /\ UNCHANGED <<attempt, prog, released, queue, finalized, forfeits>>

\* Any other answer ends the call, and leaves arkd as it is.
RegisterFails(j) ==
  /\ pc[j] = "registering"
  /\ Return(j, "failed")
  /\ UNCHANGED <<attempt, prog, released, landing, queue, finalized, forfeits>>

RegisterTimesOut(j) ==
  /\ pc[j] = "registering"
  /\ Goto(j, "deleting")
  /\ UNCHANGED <<attempt, prog, released, result, landing, queue, finalized, forfeits>>

\* Only an intent no batch has selected can be deleted; a missing one is fine.
Deleted(intent) == IF intent # None /\ ~intent.selected THEN None ELSE intent

ClearConflict(j) ==
  /\ pc[j] = "clearing"
  /\ queue' = Deleted(queue)
  /\ Goto(j, "registering")
  /\ attempt' = [attempt EXCEPT ![j] = 1]
  /\ landing' = landing \cup {j}
  /\ UNCHANGED <<prog, released, result, finalized, forfeits>>

ClearFails(j) ==
  /\ pc[j] = "clearing"
  /\ Return(j, "failed")
  /\ UNCHANGED <<attempt, prog, released, landing, queue, finalized, forfeits>>

(***************************************************************************)
(* How a call that had registered fails: once the forfeits are out the     *)
(* intent is left alone, otherwise it is deleted.                          *)
(***************************************************************************)
Fail(j) ==
  \/ released[j] /\ Return(j, "reconcile")
  \/ ~released[j] /\ Goto(j, "deleting") /\ UNCHANGED result

Cleanup(j, answered) ==
  /\ pc[j] = "deleting"
  /\ queue' = IF answered THEN Deleted(queue) ELSE queue
  /\ Return(j, "retry")
  /\ UNCHANGED <<attempt, prog, released, landing, finalized, forfeits>>

JoinTimesOut(j) ==
  /\ pc[j] \in {"joining", "finalizing"}
  /\ Fail(j)
  /\ UNCHANGED <<attempt, prog, released, landing, queue, finalized, forfeits>>

StreamEnds(j) ==
  /\ pc[j] = "joining"
  /\ Fail(j)
  /\ UNCHANGED <<attempt, prog, released, landing, queue, finalized, forfeits>>

-----------------------------------------------------------------------------
(***************************************************************************)
(* The event loop of join_registered_batch.  Reject is an error raised by  *)
(* a handler, Accept a new value of what the process knows.                *)
(***************************************************************************)
Accept(j, p) ==
  /\ prog' = [prog EXCEPT ![j] = p]
  /\ UNCHANGED <<pc, attempt, released, result, landing, queue, finalized, forfeits>>

Reject(j) ==
  /\ Fail(j)
  /\ UNCHANGED <<attempt, prog, released, landing, queue, finalized, forfeits>>

AcceptsTreeChunk(p, b) == p.step \in {"BatchStarted", "BatchSigningStarted"} /\ p.batch = b
AcceptsSigningStart(p, b) == p.step = "BatchStarted" /\ p.batch = b
AcceptsTreeSignature(p, b) == p.step = "BatchSigningStarted" /\ p.batch = b
AcceptsNonces(p, b) == p.step = "BatchSigningStarted" /\ p.batch = b /\ ~p.submitted
AcceptsFinalization(p, b) == p.step = "BatchSigningStarted" /\ p.batch = b /\ p.submitted

\* The batch lists our intent; confirm_registration fails if arkd dropped it.
OnBatchStarted(j, b, lifetime) ==
  /\ pc[j] = "joining" /\ prog[j].step = "Start"
  /\ \/ /\ ValidBatchExpiry(lifetime)
        /\ queue # None /\ queue.by = j /\ queue.known /\ queue.selected
        /\ Accept(j, [prog[j] EXCEPT !.step = "BatchStarted", !.batch = b, !.lifetime = lifetime])
     \/ Reject(j)

OnVtxoChunk(j, b, chunk) ==
  /\ pc[j] = "joining" /\ AcceptsTreeChunk(prog[j], b)
  /\ IF prog[j].step = "BatchStarted" /\ BagCardinality(prog[j].vtxo) < MaxGraphNodes
     THEN Accept(j, [prog[j] EXCEPT !.vtxo = @ (+) SetToBag({chunk})])
     ELSE Reject(j)

OnConnectorChunk(j, b, chunk) ==
  /\ pc[j] = "joining" /\ AcceptsTreeChunk(prog[j], b)
  /\ IF BagCardinality(prog[j].connectors) < MaxGraphNodes
     THEN Accept(j, [prog[j] EXCEPT !.connectors = @ (+) SetToBag({chunk})])
     ELSE Reject(j)

OnTreeSigningStarted(j, b, c, listsUs) ==
  /\ pc[j] = "joining" /\ AcceptsSigningStart(prog[j], b)
  /\ \/ /\ listsUs /\ ValidVtxoTree(prog[j].vtxo, c)
        /\ Accept(j, [prog[j] EXCEPT !.step = "BatchSigningStarted", !.commitment = c])
     \/ Reject(j)

\* The last of the tree's aggregated nonces makes us sign every node of it.
OnTreeNonces(j, b, node) ==
  /\ pc[j] = "joining" /\ AcceptsNonces(prog[j], b)
  /\ LET nonces == prog[j].nonces \cup {node} IN
     \/ /\ node \in Tree \ prog[j].nonces
        /\ Accept(j, [prog[j] EXCEPT !.nonces = nonces, !.submitted = nonces = Tree])
     \/ (node \notin Tree \ prog[j].nonces \/ nonces = Tree) /\ Reject(j)

\* A signature replaces the one the node had.
OnTreeSignature(j, b, node, sig) ==
  /\ pc[j] = "joining" /\ AcceptsTreeSignature(prog[j], b)
  /\ sig = "good" => prog[j].submitted
  /\ IF node \in Tree THEN Accept(j, [prog[j] EXCEPT !.sigs[node] = sig])
                      ELSE Reject(j)

\* Mutant: the connectors are counted, their commitment is not looked at.
MayReleaseUnbound(p, c) ==
  /\ c = p.commitment
  /\ TreeIsSigned(p.sigs)
  /\ BagCardinality(p.connectors) = 1

\* What is checked before a forfeit leaves the process.
MayRelease(p, c) ==
  /\ c = p.commitment
  /\ TreeIsSigned(p.sigs)
  /\ ValidConnectors(p.connectors, p.commitment)

\* Mutant: the flag waits for the emulator's answer.
SetReleasedLate(j) == UNCHANGED released

\* The flag is set before the request is made, and the forfeits spend the
\* connectors that were received.
SetReleased(j) == released' = [released EXCEPT ![j] = TRUE]

OnBatchFinalization(j, b, c) ==
  /\ pc[j] = "joining" /\ AcceptsFinalization(prog[j], b)
  /\ IF MayRelease(prog[j], c)
     THEN /\ SetReleased(j)
          /\ forfeits' = forfeits \cup
               {[by |-> j, of |-> chunk.of, shown |-> c]: chunk \in BagToSet(prog[j].connectors)}
          /\ Goto(j, "finalizing")
          /\ UNCHANGED <<attempt, prog, result, landing, queue, finalized>>
     ELSE Reject(j)

\* The emulator and then arkd answer, combine_forfeits in between.
FinalizationSubmitted(j) ==
  /\ pc[j] = "finalizing"
  /\ Goto(j, "joining")
  /\ prog' = [prog EXCEPT ![j].step = "FinalizationSubmitted", ![j].expected = prog[j].commitment]
  /\ UNCHANGED <<attempt, released, result, landing, queue, finalized, forfeits>>

FinalizationFails(j) ==
  /\ pc[j] = "finalizing"
  /\ Fail(j)
  /\ UNCHANGED <<attempt, prog, released, landing, queue, finalized, forfeits>>

\* Mutant: any finalized commitment ends the join.
FinalizesAny(p, c) == TRUE

Finalizes(p, c) == p.expected = c

OnBatchFinalized(j, b, c) ==
  /\ pc[j] = "joining" /\ prog[j].step = "FinalizationSubmitted" /\ prog[j].batch = b
  /\ c \in finalized
  /\ IF Finalizes(prog[j], c)
     THEN Return(j, c) /\ UNCHANGED <<attempt, prog, released, landing, queue, finalized, forfeits>>
     ELSE Reject(j)

OnBatchFailed(j, b) ==
  /\ pc[j] = "joining" /\ prog[j].batch = b
  /\ Reject(j)

-----------------------------------------------------------------------------
(***************************************************************************)
(* arkd and the host of the process.                                       *)
(***************************************************************************)
Select ==
  /\ queue # None /\ ~queue.selected
  /\ queue' = [queue EXCEPT !.selected = TRUE]
  /\ UNCHANGED <<pc, attempt, prog, released, result, landing, finalized, forfeits>>

\* The batch is over, one way or the other, and its intents are forgotten.
Drop ==
  /\ queue # None /\ queue.selected
  /\ queue' = None
  /\ UNCHANGED <<pc, attempt, prog, released, result, landing, finalized, forfeits>>

Confirm(c) ==
  /\ c \notin finalized
  /\ finalized' = finalized \cup {c}
  /\ UNCHANGED <<pc, attempt, prog, released, result, landing, queue, forfeits>>

\* The process ends: nothing of a join is kept, and its intent is an orphan.
Crash(j) ==
  /\ pc[j] \notin {"idle", "done"}
  /\ Goto(j, "idle")
  /\ prog' = [prog EXCEPT ![j] = Fresh]
  /\ released' = [released EXCEPT ![j] = FALSE]
  /\ result' = [result EXCEPT ![j] = "none"]
  /\ UNCHANGED <<attempt, landing, queue, finalized, forfeits>>

\* The host looks at the output again and, while it is unspent, starts over.
Retry(j) ==
  /\ pc[j] = "done" /\ ~Renewed
  /\ Goto(j, "idle")
  /\ UNCHANGED <<attempt, prog, released, result, landing, queue, finalized, forfeits>>

-----------------------------------------------------------------------------
Event(j, b) ==
  \/ \E l \in Lifetimes: OnBatchStarted(j, b, l)
  \/ \E chunk \in VtxoChunk: OnVtxoChunk(j, b, chunk)
  \/ \E chunk \in ConnectorChunk: OnConnectorChunk(j, b, chunk)
  \/ \E c \in Commitment: \E listsUs \in BOOLEAN: OnTreeSigningStarted(j, b, c, listsUs)
  \/ \E node \in Tree \cup {"stray"}:
       \/ OnTreeNonces(j, b, node)
       \/ \E sig \in {"good", "bad"}: OnTreeSignature(j, b, node, sig)
  \/ \E c \in Commitment: OnBatchFinalization(j, b, c) \/ OnBatchFinalized(j, b, c)
  \/ OnBatchFailed(j, b)

Registration(j) ==
  \/ StartJoin(j) \/ \E a \in BOOLEAN: Land(j, a)
  \/ RefuseDuplicate(j) \/ RegisterFails(j) \/ RegisterTimesOut(j)
  \/ ClearConflict(j) \/ ClearFails(j)

Next ==
  \/ \E j \in Joiner:
       \/ Registration(j) \/ \E b \in Batch: Event(j, b)
       \/ FinalizationSubmitted(j) \/ FinalizationFails(j)
       \/ JoinTimesOut(j) \/ StreamEnds(j) \/ (\E a \in BOOLEAN: Cleanup(j, a))
       \/ Crash(j) \/ Retry(j)
  \/ Select \/ Drop \/ \E c \in Commitment: Confirm(c)

Spec == Init /\ [][Next]_vars

(***************************************************************************)
(* Only the process' own timers are fair: the deadline of the join, the    *)
(* deadline of a deletion.  arkd and the emulator may be silent forever.   *)
(***************************************************************************)
Timers ==
  \A j \in Joiner:
    /\ WF_vars(RegisterTimesOut(j)) /\ WF_vars(JoinTimesOut(j))
    /\ WF_vars(ClearFails(j)) /\ WF_vars(Cleanup(j, FALSE))

(***************************************************************************)
(* Hosts that keep trying, rounds of arkd that end, and finitely many      *)
(* failures: processes that die, and requests that fail though arkd has an *)
(* answer to them.                                                         *)
(***************************************************************************)
Failure(j) ==
  \/ Crash(j) \/ ClearFails(j)
  \/ (RegisterFails(j) \/ RegisterTimesOut(j)) /\ ENABLED RefuseDuplicate(j)

Persistence ==
  /\ \A j \in Joiner:
       /\ WF_vars(StartJoin(j)) /\ WF_vars(Retry(j))
       /\ WF_vars(RefuseDuplicate(j)) /\ WF_vars(ClearConflict(j))
  /\ WF_vars(Drop)
  /\ <>[][\A j \in Joiner: ~Failure(j)]_vars

-----------------------------------------------------------------------------
TypeOK ==
  /\ pc \in [Joiner -> {"idle", "registering", "clearing", "joining", "finalizing",
                        "deleting", "done"}]
  /\ attempt \in [Joiner -> 0..1]
  /\ released \in [Joiner -> BOOLEAN]
  /\ result \in [Joiner -> {"none", "failed", "retry", "reconcile"} \cup Commitment]
  /\ landing \subseteq Joiner
  /\ queue \in [by: Joiner, known: BOOLEAN, selected: BOOLEAN] \cup {None}
  /\ finalized \subseteq Commitment
  /\ forfeits \subseteq [by: Joiner, of: Commitment, shown: Commitment]
  /\ \A j \in Joiner:
       /\ BagToSet(prog[j].vtxo) \subseteq VtxoChunk
       /\ BagCardinality(prog[j].vtxo) \leq MaxGraphNodes
       /\ BagCardinality(prog[j].connectors) \leq MaxGraphNodes
       /\ prog[j].sigs \in [Tree -> {"none", "good", "bad"}]

\* A forfeit gives the old output away for a commitment: it leaves the process
\* only when that same commitment was shown to the emulator and holds, fully
\* and validly signed, the branch down to our exact new output.
SwapStep ==
  \A f \in forfeits' \ forfeits:
    /\ f.shown = f.of
    /\ [of: {f.of}, node: Tree] \subseteq BagToSet(prog[f.by].vtxo)
    /\ \A n \in Tree: prog[f.by].sigs[n] = "good"
SwapIsAtomic == [][SwapStep]_vars

\* A forfeit of this join that is out: the batch may complete without us.
Out(j) == pc[j] = "finalizing" \/ prog[j].step = "FinalizationSubmitted"

\* A call that answers "removed before retry" has let no forfeit go, in spite of
\* deadlines and answers lost while the forfeits were being submitted.
RetryStep == \A j \in Joiner: (pc[j] # "deleting" /\ pc'[j] = "deleting") => ~Out(j)
RetryIsSafe == [][RetryStep]_vars

\* A renewal reported as done was done: that commitment is final, our forfeit is
\* for it and no other, its branch to our output is fully signed, and it lives at
\* least as long as the intent's inputs had left.
OutcomeIsTrue ==
  \A j \in Joiner: \A c \in Commitment:
    result[j] = c =>
      /\ c \in finalized
      /\ [by |-> j, of |-> c, shown |-> c] \in forfeits
      /\ prog[j].commitment = c /\ TreeIsSigned(prog[j].sigs)
      /\ prog[j].lifetime >= InputRemaining

\* However arkd and the emulator hang, a call returns.
JoinsEnd == \A j \in Joiner: (pc[j] \notin {"idle", "done"}) ~> (pc[j] \in {"idle", "done"})

\* An intent left by a lost answer or a dead process does not block the output
\* for good: the next joins find it and clear it, whatever lands in between.
Orphaned == queue # None /\ (~queue.known \/ pc[queue.by] \notin {"joining", "finalizing"})
OrphansAreCleared == Orphaned ~> (~Orphaned \/ Renewed)
=============================================================================
