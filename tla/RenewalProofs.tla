--------------------------- MODULE RenewalProofs ---------------------------
(***************************************************************************)
(* A renewal: joining a batch, for any number of processes, batches and    *)
(* commitments and any order of events; the fee, for every fee program,    *)
(* every wallet and any number of rounds; and the announced trees, for     *)
(* graphs of any size and shape.                                           *)
(***************************************************************************)
EXTENDS MCBatchJoin, RenewalFee, BatchTree, SumTheorems

(***************************************************************************)
(* Joining a batch: giving the old output up, retrying, and what a call    *)
(* reports.                                                                *)
(***************************************************************************)
Places == {"idle", "registering", "clearing", "joining", "finalizing", "deleting", "done"}

Fields == {"step", "batch", "lifetime", "vtxo", "connectors", "commitment", "nonces",
           "submitted", "sigs", "expected"}

(* The flag is up while a forfeit of this join may be out, so that only a  *)
(* join without one deletes its intent; and once a tree was validated no   *)
(* node is added to it.                                                    *)
Tracked(j) ==
  /\ DOMAIN prog[j] = Fields
  /\ pc[j] \in {"registering", "clearing"} => prog[j].step = "Start"
  /\ Out(j) => released[j]
  /\ prog[j].step = "BatchSigningStarted" => ValidVtxoTree(prog[j].vtxo, prog[j].commitment)

JoinInv ==
  /\ pc \in [Joiner -> Places]
  /\ released \in [Joiner -> BOOLEAN]
  /\ DOMAIN prog = Joiner
  /\ \A j \in Joiner: Tracked(j)

LEMMA JoinStarts == Init => JoinInv
BY DEF Init, JoinInv, Tracked, Out, Fresh, Fields, Places

-----------------------------------------------------------------------------
\* What the process that moves must satisfy; the others are left as they are.
LEMMA OneJoin ==
  ASSUME JoinInv, NEW j \in Joiner,
         pc' \in [Joiner -> Places], released' \in [Joiner -> BOOLEAN], DOMAIN prog' = Joiner,
         \A i \in Joiner \ {j}:
           pc'[i] = pc[i] /\ released'[i] = released[i] /\ prog'[i] = prog[i],
         Tracked(j)',
         pc[j] # "deleting" /\ pc'[j] = "deleting" => ~Out(j)
  PROVE  JoinInv' /\ RetryStep
BY DEF JoinInv, Tracked, Out, RetryStep

LEMMA NoJoin ==
  ASSUME JoinInv, UNCHANGED <<pc, prog, released>>
  PROVE  JoinInv' /\ RetryStep
BY DEF JoinInv, Tracked, Out, ValidVtxoTree, RetryStep

\* The process goes elsewhere, and neither its progress nor its flag changes.
LEMMA GoesTo ==
  ASSUME JoinInv, NEW j \in Joiner, NEW where \in Places,
         pc' = [pc EXCEPT ![j] = where], UNCHANGED <<prog, released>>,
         where \in {"registering", "clearing"} => prog[j].step = "Start",
         where = "finalizing" => released[j],
         where = "deleting" => ~Out(j)
  PROVE  JoinInv' /\ RetryStep
<1>1. pc' \in [Joiner -> Places] /\ pc'[j] = where /\ \A i \in Joiner \ {j}: pc'[i] = pc[i]
  BY DEF JoinInv
<1>2. Tracked(j)'
  BY <1>1 DEF JoinInv, Tracked, Out, ValidVtxoTree
<1> QED
  BY <1>1, <1>2, OneJoin DEF JoinInv

LEMMA FailStep ==
  ASSUME JoinInv, NEW j \in Joiner, Fail(j), UNCHANGED <<prog, released>>
  PROVE  JoinInv' /\ RetryStep
<1>1. CASE released[j] /\ Return(j, "reconcile")
  BY <1>1, GoesTo DEF Return, Places
<1>2. CASE ~released[j] /\ Goto(j, "deleting")
  <2>1. ~Out(j)
    BY <1>2 DEF JoinInv, Tracked
  <2> QED
    BY <1>2, <2>1, GoesTo DEF Goto, Places
<1> QED
  BY <1>1, <1>2 DEF Fail

LEMMA AcceptStep ==
  ASSUME JoinInv, NEW j \in Joiner, NEW p, pc[j] = "joining", Accept(j, p),
         DOMAIN p = Fields,
         p.step = "FinalizationSubmitted" => prog[j].step = "FinalizationSubmitted",
         p.step = "BatchSigningStarted" => ValidVtxoTree(p.vtxo, p.commitment)
  PROVE  JoinInv' /\ RetryStep
<1>1. /\ DOMAIN prog' = Joiner /\ prog'[j] = p /\ \A i \in Joiner \ {j}: prog'[i] = prog[i]
      /\ UNCHANGED <<pc, released>>
  BY DEF Accept, JoinInv
<1>2. Tracked(j)'
  BY <1>1 DEF JoinInv, Tracked, Out, ValidVtxoTree
<1> QED
  BY <1>1, <1>2, OneJoin DEF JoinInv

-----------------------------------------------------------------------------
LEMMA RegistrationStep ==
  ASSUME JoinInv, NEW j \in Joiner, Registration(j)
  PROVE  JoinInv' /\ RetryStep
<1> USE DEF Places
<1>1. CASE StartJoin(j)
  <2>1. /\ pc' = [pc EXCEPT ![j] = "registering"]
        /\ prog' = [prog EXCEPT ![j] = Fresh]
        /\ released' = [released EXCEPT ![j] = FALSE]
    BY <1>1 DEF StartJoin, Goto
  <2>2. Tracked(j)'
    BY <2>1 DEF JoinInv, Tracked, Out, Fresh, Fields
  <2> QED
    BY <2>1, <2>2, OneJoin DEF JoinInv
<1>2. ASSUME NEW a \in BOOLEAN, Land(j, a) PROVE JoinInv' /\ RetryStep
  <2>1. CASE a
    BY <1>2, <2>1, GoesTo DEF Land
  <2>2. CASE ~a
    BY <1>2, <2>2, NoJoin DEF Land
  <2> QED
    BY <2>1, <2>2
<1>3. CASE RefuseDuplicate(j)
  <2>1. CASE pc[j] = "registering" /\ attempt[j] = 0 /\ Goto(j, "clearing")
    <3>1. prog[j].step = "Start"
      BY <2>1 DEF JoinInv, Tracked
    <3> QED
      BY <1>3, <2>1, <3>1, GoesTo DEF RefuseDuplicate, Goto
  <2>2. CASE Return(j, "failed")
    BY <1>3, <2>2, GoesTo DEF RefuseDuplicate, Return
  <2>3. CASE UNCHANGED <<pc, result>>
    BY <1>3, <2>3, NoJoin DEF RefuseDuplicate
  <2> QED
    BY <1>3, <2>1, <2>2, <2>3 DEF RefuseDuplicate
<1>4. CASE RegisterFails(j)
  BY <1>4, GoesTo DEF RegisterFails, Return
<1>5. CASE RegisterTimesOut(j)
  <2>1. ~Out(j)
    BY <1>5 DEF RegisterTimesOut, JoinInv, Tracked, Out
  <2> QED
    BY <1>5, <2>1, GoesTo DEF RegisterTimesOut, Goto
<1>6. CASE ClearConflict(j)
  <2>1. prog[j].step = "Start"
    BY <1>6 DEF ClearConflict, JoinInv, Tracked
  <2> QED
    BY <1>6, <2>1, GoesTo DEF ClearConflict, Goto
<1>7. CASE ClearFails(j)
  BY <1>7, GoesTo DEF ClearFails, Return
<1> QED
  BY <1>1, <1>2, <1>3, <1>4, <1>5, <1>6, <1>7 DEF Registration

LEMMA RejectStep ==
  ASSUME JoinInv, NEW j \in Joiner, Reject(j)
  PROVE  JoinInv' /\ RetryStep
BY FailStep DEF Reject

LEMMA EventStep ==
  ASSUME JoinInv, NEW j \in Joiner, NEW b \in Batch, Event(j, b)
  PROVE  JoinInv' /\ RetryStep
<1> DEFINE p == prog[j]
<1>0. DOMAIN p = Fields /\ (p.step = "BatchSigningStarted" => ValidVtxoTree(p.vtxo, p.commitment))
  BY DEF JoinInv, Tracked
<1>1. ASSUME NEW l \in Lifetimes, OnBatchStarted(j, b, l) PROVE JoinInv' /\ RetryStep
  <2> DEFINE q == [p EXCEPT !.step = "BatchStarted", !.batch = b, !.lifetime = l]
  <2>1. DOMAIN q = Fields /\ q.step = "BatchStarted"
    BY <1>0 DEF Fields
  <2>2. CASE Accept(j, q)
    BY <1>1, <2>1, <2>2, AcceptStep DEF OnBatchStarted
  <2> QED
    BY <1>1, <2>2, RejectStep DEF OnBatchStarted
<1>2. ASSUME NEW chunk \in VtxoChunk, OnVtxoChunk(j, b, chunk) PROVE JoinInv' /\ RetryStep
  <2> DEFINE q == [p EXCEPT !.vtxo = p.vtxo (+) SetToBag({chunk})]
  <2>1. p.step = "BatchStarted" => DOMAIN q = Fields /\ q.step = "BatchStarted"
    BY <1>0 DEF Fields
  <2>2. CASE p.step = "BatchStarted" /\ Accept(j, q)
    BY <1>2, <2>1, <2>2, AcceptStep DEF OnVtxoChunk
  <2> QED
    BY <1>2, <2>2, RejectStep DEF OnVtxoChunk
<1>3. ASSUME NEW chunk \in ConnectorChunk, OnConnectorChunk(j, b, chunk)
      PROVE  JoinInv' /\ RetryStep
  <2> DEFINE q == [p EXCEPT !.connectors = p.connectors (+) SetToBag({chunk})]
  <2>1. /\ DOMAIN q = Fields /\ q.step = p.step
        /\ q.vtxo = p.vtxo /\ q.commitment = p.commitment
    BY <1>0 DEF Fields
  <2>2. CASE Accept(j, q)
    BY <1>0, <1>3, <2>1, <2>2, AcceptStep DEF OnConnectorChunk
  <2> QED
    BY <1>3, <2>2, RejectStep DEF OnConnectorChunk
<1>4. ASSUME NEW c \in Commitment, NEW listsUs \in BOOLEAN,
             OnTreeSigningStarted(j, b, c, listsUs)
      PROVE  JoinInv' /\ RetryStep
  <2> DEFINE q == [p EXCEPT !.step = "BatchSigningStarted", !.commitment = c]
  <2>1. DOMAIN q = Fields /\ q.step = "BatchSigningStarted" /\ q.vtxo = p.vtxo /\ q.commitment = c
    BY <1>0 DEF Fields
  <2>2. CASE ValidVtxoTree(p.vtxo, c) /\ Accept(j, q)
    BY <1>4, <2>1, <2>2, AcceptStep DEF OnTreeSigningStarted
  <2> QED
    BY <1>4, <2>2, RejectStep DEF OnTreeSigningStarted
<1>5. ASSUME NEW node \in Tree \cup {"stray"}, OnTreeNonces(j, b, node)
      PROVE  JoinInv' /\ RetryStep
  <2> DEFINE nonces == p.nonces \cup {node}
             q == [p EXCEPT !.nonces = nonces, !.submitted = nonces = Tree]
  <2>1. /\ DOMAIN q = Fields /\ q.step = p.step
        /\ q.vtxo = p.vtxo /\ q.commitment = p.commitment
    BY <1>0 DEF Fields
  <2>2. CASE Accept(j, q)
    BY <1>0, <1>5, <2>1, <2>2, AcceptStep DEF OnTreeNonces
  <2> QED
    BY <1>5, <2>2, RejectStep DEF OnTreeNonces
<1>6. ASSUME NEW node \in Tree \cup {"stray"}, NEW sig \in {"good", "bad"},
             OnTreeSignature(j, b, node, sig)
      PROVE  JoinInv' /\ RetryStep
  <2> DEFINE q == [p EXCEPT !.sigs[node] = sig]
  <2>1. /\ DOMAIN q = Fields /\ q.step = p.step
        /\ q.vtxo = p.vtxo /\ q.commitment = p.commitment
    BY <1>0 DEF Fields
  <2>2. CASE Accept(j, q)
    BY <1>0, <1>6, <2>1, <2>2, AcceptStep DEF OnTreeSignature
  <2> QED
    BY <1>6, <2>2, RejectStep DEF OnTreeSignature
<1>7. ASSUME NEW c \in Commitment, OnBatchFinalization(j, b, c) PROVE JoinInv' /\ RetryStep
  <2>1. CASE MayRelease(p, c)
    <3>1. /\ released' = [released EXCEPT ![j] = TRUE]
          /\ pc' = [pc EXCEPT ![j] = "finalizing"]
          /\ prog' = prog /\ p.step = "BatchSigningStarted"
      BY <1>7, <2>1 DEF OnBatchFinalization, SetReleased, Goto, AcceptsFinalization
    <3>2. Tracked(j)'
      BY <3>1 DEF JoinInv, Tracked, Out, ValidVtxoTree, Places
    <3> QED
      BY <3>1, <3>2, OneJoin DEF JoinInv, Places
  <2> QED
    BY <1>7, <2>1, RejectStep DEF OnBatchFinalization
<1>8. ASSUME NEW c \in Commitment, OnBatchFinalized(j, b, c) PROVE JoinInv' /\ RetryStep
  <2>1. CASE Return(j, c) /\ UNCHANGED <<prog, released>>
    BY <2>1, GoesTo DEF Return, Places
  <2> QED
    BY <1>8, <2>1, RejectStep DEF OnBatchFinalized
<1>9. CASE OnBatchFailed(j, b)
  BY <1>9, RejectStep DEF OnBatchFailed
<1> QED
  BY <1>1, <1>2, <1>3, <1>4, <1>5, <1>6, <1>7, <1>8, <1>9 DEF Event

LEMMA JoinStep == JoinInv /\ [Next]_vars => JoinInv' /\ RetryStep
<1> SUFFICES ASSUME JoinInv, [Next]_vars PROVE JoinInv' /\ RetryStep
  OBVIOUS
<1>1. ASSUME NEW j \in Joiner, Registration(j) PROVE JoinInv' /\ RetryStep
  BY <1>1, RegistrationStep
<1>2. ASSUME NEW j \in Joiner, NEW b \in Batch, Event(j, b) PROVE JoinInv' /\ RetryStep
  BY <1>2, EventStep
<1>3. ASSUME NEW j \in Joiner, FinalizationSubmitted(j) PROVE JoinInv' /\ RetryStep
  <2>1. /\ pc' = [pc EXCEPT ![j] = "joining"] /\ released' = released
        /\ DOMAIN prog' = Joiner /\ \A i \in Joiner \ {j}: prog'[i] = prog[i]
        /\ prog'[j] = [prog[j] EXCEPT !.step = "FinalizationSubmitted",
                                      !.expected = prog[j].commitment]
    BY <1>3 DEF FinalizationSubmitted, Goto, JoinInv
  <2>2. DOMAIN prog'[j] = Fields /\ prog'[j].step = "FinalizationSubmitted"
    BY <2>1 DEF JoinInv, Tracked, Fields
  <2>3. Tracked(j)'
    <3>1. released[j]
      BY <1>3 DEF FinalizationSubmitted, JoinInv, Tracked, Out
    <3> QED
      BY <2>1, <2>2, <3>1 DEF JoinInv, Tracked, Places
  <2> QED
    BY <2>1, <2>3, OneJoin DEF JoinInv, Places
<1>4. ASSUME NEW j \in Joiner, FinalizationFails(j) \/ JoinTimesOut(j) \/ StreamEnds(j)
      PROVE  JoinInv' /\ RetryStep
  BY <1>4, FailStep DEF FinalizationFails, JoinTimesOut, StreamEnds
<1>5. ASSUME NEW j \in Joiner, NEW a \in BOOLEAN, Cleanup(j, a) PROVE JoinInv' /\ RetryStep
  BY <1>5, GoesTo DEF Cleanup, Return, Places
<1>6. ASSUME NEW j \in Joiner, Crash(j) PROVE JoinInv' /\ RetryStep
  <2>1. /\ pc' = [pc EXCEPT ![j] = "idle"]
        /\ prog' = [prog EXCEPT ![j] = Fresh]
        /\ released' = [released EXCEPT ![j] = FALSE]
    BY <1>6 DEF Crash, Goto
  <2>2. Tracked(j)'
    BY <2>1 DEF JoinInv, Tracked, Out, Fresh, Fields
  <2> QED
    BY <2>1, <2>2, OneJoin DEF JoinInv, Places
<1>7. ASSUME NEW j \in Joiner, Retry(j) PROVE JoinInv' /\ RetryStep
  BY <1>7, GoesTo DEF Retry, Goto, Places
<1>8. CASE Select \/ Drop \/ \E c \in Commitment: Confirm(c)
  BY <1>8, NoJoin DEF Select, Drop, Confirm
<1>9. CASE UNCHANGED vars
  BY <1>9, NoJoin DEF vars
<1> QED
  BY <1>1, <1>2, <1>3, <1>4, <1>5, <1>6, <1>7, <1>8, <1>9 DEF Next

-----------------------------------------------------------------------------
\* What a finalization event must find before a forfeit leaves.
LEMMA ReleaseStep ==
  ASSUME JoinInv, NEW j \in Joiner, NEW b \in Batch, NEW c \in Commitment,
         OnBatchFinalization(j, b, c)
  PROVE  SwapStep
<1> DEFINE p == prog[j]
<1>1. CASE ~MayRelease(p, c)
  BY <1>1 DEF OnBatchFinalization, Reject, SwapStep
<1>2. CASE MayRelease(p, c)
  <2>1. c = p.commitment /\ \A n \in Tree: p.sigs[n] = "good"
    BY <1>2 DEF MayRelease, TreeIsSigned
  <2>2. BagToSet(p.connectors) = {[of |-> c, leaves |-> Inputs]}
    BY <1>2 DEF MayRelease, ValidConnectors, BagToSet, SetToBag
  <2>3. BagToSet(p.vtxo) = [of: {c}, node: Tree]
    <3>1. ValidVtxoTree(p.vtxo, c)
      BY <1>2 DEF MayRelease, OnBatchFinalization, AcceptsFinalization, JoinInv, Tracked
    <3> QED
      BY <3>1 DEF ValidVtxoTree, BagToSet, SetToBag
  <2>4. forfeits' \ forfeits \subseteq {[by |-> j, of |-> c, shown |-> c]}
    BY <1>2, <2>2 DEF OnBatchFinalization
  <2>5. ASSUME NEW f \in forfeits' \ forfeits
        PROVE  /\ f.by = j /\ f.of = c /\ f.shown = c
               /\ [of: {f.of}, node: Tree] \subseteq BagToSet(prog[f.by].vtxo)
    <3>1. f.by = j /\ f.of = c /\ f.shown = c
      BY <2>4
    <3>2. [of: {f.of}, node: Tree] = [of: {c}, node: Tree]
      BY <3>1
    <3>3. [of: {c}, node: Tree] \subseteq BagToSet(prog[f.by].vtxo)
      BY <2>3, <3>1
    <3> QED
      BY <3>1, <3>2, <3>3
  <2> QED
    BY <2>1, <2>5 DEF SwapStep
<1> QED
  BY <1>1, <1>2

LEMMA SwapHolds == JoinInv /\ [Next]_vars => SwapStep
<1> SUFFICES ASSUME JoinInv, [Next]_vars PROVE SwapStep
  OBVIOUS
<1>1. ASSUME NEW j \in Joiner, NEW b \in Batch, NEW c \in Commitment,
             OnBatchFinalization(j, b, c)
      PROVE  SwapStep
  BY <1>1, ReleaseStep
<1>2. ASSUME NEW j \in Joiner, NEW b \in Batch, Event(j, b),
             ~ \E c \in Commitment: OnBatchFinalization(j, b, c)
      PROVE  forfeits' = forfeits
  BY <1>2 DEF Event, OnBatchStarted, OnVtxoChunk, OnConnectorChunk, OnTreeSigningStarted,
              OnTreeNonces, OnTreeSignature, OnBatchFinalized, OnBatchFailed, Accept, Reject
<1>3. ASSUME NEW j \in Joiner, Registration(j) PROVE forfeits' = forfeits
  BY <1>3 DEF Registration, StartJoin, Land, RefuseDuplicate, RegisterFails, RegisterTimesOut,
              ClearConflict, ClearFails
<1>4. ASSUME NEW j \in Joiner, FinalizationSubmitted(j) \/ FinalizationFails(j)
                \/ JoinTimesOut(j) \/ StreamEnds(j) \/ (\E a \in BOOLEAN: Cleanup(j, a))
                \/ Crash(j) \/ Retry(j)
      PROVE  forfeits' = forfeits
  BY <1>4 DEF FinalizationSubmitted, FinalizationFails, JoinTimesOut, StreamEnds, Cleanup,
              Crash, Retry
<1>5. CASE Select \/ Drop \/ (\E c \in Commitment: Confirm(c)) \/ UNCHANGED vars
  BY <1>5 DEF Select, Drop, Confirm, vars, SwapStep
<1> QED
  BY <1>1, <1>2, <1>3, <1>4, <1>5 DEF Next, SwapStep

\* The forfeit of the old output leaves a process only for the commitment whose
\* tree it validated and that is fully signed (src/batch.rs:847).
THEOREM OutputsAreSwapped == Spec => SwapIsAtomic
BY JoinStarts, JoinStep, SwapHolds, PTL DEF Spec, SwapIsAtomic

\* No call that may have let a forfeit go says that its intent was removed and the
\* renewal may be retried (src/batch.rs:442).
THEOREM RetriesAreSafe == Spec => RetryIsSafe
BY JoinStarts, JoinStep, PTL DEF Spec, RetryIsSafe

-----------------------------------------------------------------------------
\* What a process holds, and what it reports.

Answers == {"none", "failed", "retry", "reconcile"}

\* What has been collected: finitely many kinds of chunks, each a number of times.
Collects(bag, kinds) ==
  /\ DOMAIN bag \subseteq kinds /\ IsFiniteSet(DOMAIN bag)
  /\ \A e \in DOMAIN bag: bag[e] \in Nat
  /\ BagCardinality(bag) \leq MaxGraphNodes

\* Our forfeit for the commitment is out, and its branch to our output is signed.
Swapped(j) ==
  /\ prog[j].commitment \in Commitment
  /\ [by |-> j, of |-> prog[j].commitment, shown |-> prog[j].commitment] \in forfeits
  /\ TreeIsSigned(prog[j].sigs)

Reported(j) ==
  /\ result[j] \in finalized /\ prog[j].commitment = result[j]
  /\ Swapped(j) /\ prog[j].lifetime >= InputRemaining

\* The batch is followed only while it outlives the inputs, a forfeit is known to
\* its process until the call ends, and a success names the commitment expected.
Sound(j) ==
  /\ Collects(prog[j].vtxo, VtxoChunk)
  /\ Collects(prog[j].connectors, ConnectorChunk)
  /\ prog[j].sigs \in [Tree -> {"none", "good", "bad"}]
  /\ prog[j].step # "Start" => prog[j].lifetime >= InputRemaining
  /\ prog[j].step = "BatchSigningStarted" => prog[j].commitment \in Commitment
  /\ prog[j].step = "FinalizationSubmitted" => prog[j].expected = prog[j].commitment
  /\ pc[j] = "finalizing" => prog[j].step = "BatchSigningStarted"
  /\ Out(j) => Swapped(j)
  /\ result[j] \in Commitment => pc[j] \in {"idle", "done"} /\ Reported(j)

Records ==
  /\ attempt \in [Joiner -> 0..1]
  /\ result \in [Joiner -> Answers \cup Commitment]
  /\ landing \subseteq Joiner
  /\ queue \in [by: Joiner, known: BOOLEAN, selected: BOOLEAN] \cup {None}
  /\ finalized \subseteq Commitment
  /\ forfeits \subseteq [by: Joiner, of: Commitment, shown: Commitment]

SoundInv == JoinInv /\ Records /\ \A j \in Joiner: Sound(j)

-----------------------------------------------------------------------------
\* A bag's cardinality is the sum of its counts,
LEMMA BagSum ==
  ASSUME NEW B
  PROVE  BagCardinality(B) = SumFunctionOnSet(B, DOMAIN B)
BY DEF BagCardinality, SumFunctionOnSet, FoldFunctionOnSet, MapThenFoldSet

\* none at all counts zero,
LEMMA NothingCollected ==
  ASSUME NEW kinds
  PROVE  Collects(EmptyBag, kinds)
<1>1. DOMAIN EmptyBag = {}
  BY DEF EmptyBag, SetToBag
<1>2. BagCardinality(EmptyBag) = 0
  BY <1>1, BagSum, SumEmpty
<1> QED
  BY <1>1, <1>2, FS_EmptySet, BatchJoinAssumption DEF Collects

\* and one more counts one more.
LEMMA OneMore ==
  ASSUME NEW kinds, NEW B, Collects(B, kinds), BagCardinality(B) < MaxGraphNodes,
         NEW x \in kinds
  PROVE  Collects(B (+) SetToBag({x}), kinds)
<1> DEFINE C == B (+) SetToBag({x})
           D == DOMAIN B
<1>1. /\ DOMAIN C = D \cup {x}
      /\ \A e \in DOMAIN C: C[e] = (IF e \in D THEN B[e] ELSE 0) + (IF e = x THEN 1 ELSE 0)
  BY DEF SetToBag, (+)
<1> HIDE DEF C
<1>2. /\ IsFiniteSet(D) /\ IsFiniteSet(D \cup {x}) /\ \A e \in D: B[e] \in Nat
      /\ D \subseteq kinds
  BY FS_AddElement DEF Collects
<1>3. \A e \in DOMAIN C: C[e] \in Nat
  BY <1>1, <1>2
<1> DEFINE b == SumFunctionOnSet(B, D)
<1>4. b \in Nat
  BY <1>2, SumIsNat
<1>5. SumFunctionOnSet(C, D \cup {x}) = b + 1
  <2>1. CASE x \in D
    <3>1. D \cup {x} = D /\ C[x] = B[x] + 1 /\ \A e \in D \ {x}: C[e] = B[e]
      BY <1>1, <1>2, <2>1
    <3>2. \A e \in D: B[e] \in Int /\ C[e] \in Int
      BY <1>1, <1>2, <1>3, <2>1
    <3>3. SumFunctionOnSet(C, D) = b - B[x] + C[x]
      BY <1>2, <2>1, <3>1, <3>2, SumUpdate
    <3>4. B[x] \in Nat
      BY <1>2, <2>1
    <3>5. SumFunctionOnSet(C, D \cup {x}) = SumFunctionOnSet(C, D)
      BY <3>1, Zenon
    <3> DEFINE more == SumFunctionOnSet(C, D \cup {x})
               same == SumFunctionOnSet(C, D)
    <3>6. more = same /\ same = b - B[x] + C[x] /\ C[x] = B[x] + 1
      BY <3>1, <3>3, <3>5
    <3> HIDE DEF b, D, more, same
    <3>7. more = b + 1
      BY <1>4, <3>4, <3>6
    <3> QED
      BY <3>7 DEF more
  <2>2. CASE x \notin D
    <3>1. C[x] = 1 /\ \A e \in D: C[e] = B[e]
      BY <1>1, <1>2, <2>2
    <3>2. (D \cup {x}) \ {x} = D
      BY <2>2
    <3>3. \A e \in D \cup {x}: C[e] \in Int
      BY <1>1, <1>3
    <3>4. SumFunctionOnSet(C, D \cup {x}) = C[x] + SumFunctionOnSet(C, D)
      BY <1>2, <3>2, <3>3, SumRemove
    <3>5. SumFunctionOnSet(C, D) = b
      BY <1>2, <3>1, SumCongruence
    <3> HIDE DEF b, D
    <3> QED
      BY <1>4, <3>1, <3>4, <3>5
  <2> QED
    BY <2>1, <2>2
<1>6. BagCardinality(C) <= MaxGraphNodes
  <2>1. BagCardinality(C) = SumFunctionOnSet(C, D \cup {x}) /\ BagCardinality(B) = b
    BY <1>1, BagSum, Zenon
  <2>2. BagCardinality(C) = b + 1 /\ b < MaxGraphNodes
    BY <1>5, <2>1
  <2> HIDE DEF b
  <2> QED
    BY <1>4, <2>2, BatchJoinAssumption
<1>7. IsFiniteSet(DOMAIN C)
  BY <1>1, <1>2, Zenon
<1>8. DOMAIN C \subseteq kinds
  BY <1>1, <1>2
<1>9. Collects(C, kinds)
  BY <1>3, <1>6, <1>7, <1>8 DEF Collects
<1> QED
  BY <1>9 DEF C

LEMMA SoundStarts == Init => SoundInv
<1> SUFFICES ASSUME Init PROVE SoundInv
  OBVIOUS
<1>1. \A j \in Joiner: prog[j] = Fresh /\ pc[j] = "idle" /\ result[j] = "none"
  BY DEF Init
<1>2. ASSUME NEW j \in Joiner PROVE Sound(j)
  BY <1>1, NothingCollected, BatchJoinAssumption
     DEF Sound, Fresh, Unsigned, Out
<1>3. Records
  BY DEF Init, Records, Answers
<1> QED
  BY <1>2, <1>3, JoinStarts DEF SoundInv

-----------------------------------------------------------------------------
\* Only one process moves, and neither forfeits nor final commitments are taken back.
LEMMA OthersStaySound ==
  ASSUME SoundInv, NEW i \in Joiner,
         pc'[i] = pc[i], prog'[i] = prog[i], result'[i] = result[i],
         forfeits \subseteq forfeits', finalized \subseteq finalized'
  PROVE  Sound(i)'
BY DEF SoundInv, Sound, Out, Swapped, Reported, TreeIsSigned, Collects, VtxoChunk,
       ConnectorChunk, InputRemaining

\* The process goes elsewhere and reports nothing, or nothing new.
LEMMA GoesSoundly ==
  ASSUME SoundInv, NEW j \in Joiner, NEW where \in Places,
         pc' = [pc EXCEPT ![j] = where], UNCHANGED <<prog, forfeits, finalized>>,
         where # "finalizing",
         result'[j] \in Commitment => where \in {"idle", "done"} /\ Reported(j)',
         \A i \in Joiner \ {j}: result'[i] = result[i]
  PROVE  \A i \in Joiner: Sound(i)'
<1>1. pc'[j] = where /\ \A i \in Joiner \ {j}: pc'[i] = pc[i]
  BY DEF SoundInv, JoinInv
<1>2. Sound(j)'
  BY <1>1 DEF SoundInv, Sound, Out, Swapped, Reported, TreeIsSigned, Collects, VtxoChunk,
              ConnectorChunk, InputRemaining
<1> QED
  BY <1>1, <1>2, OthersStaySound

\* A call that runs has reported nothing.
LEMMA RunningIsSilent ==
  ASSUME SoundInv, NEW j \in Joiner, pc[j] \notin {"idle", "done"}
  PROVE  result[j] \notin Commitment
BY DEF SoundInv, Sound

LEMMA ReturnsSoundly ==
  ASSUME SoundInv, NEW j \in Joiner, NEW what \in Answers, Return(j, what),
         UNCHANGED <<prog, forfeits, finalized>>
  PROVE  \A i \in Joiner: Sound(i)'
<1>1. result'[j] = what /\ \A i \in Joiner \ {j}: result'[i] = result[i]
  BY DEF Return, SoundInv, Records
<1>2. what \notin Commitment
  BY BatchJoinAssumption DEF Answers
<1> QED
  BY <1>1, <1>2, GoesSoundly DEF Return, Places

LEMMA MovesSoundly ==
  ASSUME SoundInv, NEW j \in Joiner, pc[j] \notin {"idle", "done"}, NEW where \in Places,
         where # "finalizing", Goto(j, where), UNCHANGED <<prog, result, forfeits, finalized>>
  PROVE  \A i \in Joiner: Sound(i)'
BY RunningIsSilent, GoesSoundly DEF Goto

LEMMA FailsSoundly ==
  ASSUME SoundInv, NEW j \in Joiner, pc[j] \notin {"idle", "done"}, Fail(j),
         UNCHANGED <<prog, forfeits, finalized>>
  PROVE  \A i \in Joiner: Sound(i)'
<1>1. CASE Return(j, "reconcile")
  BY <1>1, ReturnsSoundly DEF Answers
<1>2. CASE Goto(j, "deleting") /\ UNCHANGED result
  BY <1>2, MovesSoundly DEF Places
<1> QED
  BY <1>1, <1>2 DEF Fail

LEMMA RejectsSoundly ==
  ASSUME SoundInv, NEW j \in Joiner, pc[j] = "joining", Reject(j)
  PROVE  \A i \in Joiner: Sound(i)'
BY FailsSoundly DEF Reject

\* A process that begins, or dies, holds nothing.
LEMMA BeginsSoundly ==
  ASSUME SoundInv, NEW j \in Joiner, NEW where \in {"idle", "registering"},
         pc' = [pc EXCEPT ![j] = where], prog' = [prog EXCEPT ![j] = Fresh],
         result' = [result EXCEPT ![j] = "none"], UNCHANGED <<forfeits, finalized>>
  PROVE  \A i \in Joiner: Sound(i)'
<1>1. /\ pc'[j] = where /\ prog'[j] = Fresh /\ result'[j] = "none"
      /\ \A i \in Joiner \ {j}: pc'[i] = pc[i] /\ prog'[i] = prog[i] /\ result'[i] = result[i]
  BY DEF SoundInv, JoinInv, Records
<1>2. Fresh.step = "Start" /\ Fresh.vtxo = EmptyBag /\ Fresh.connectors = EmptyBag
      /\ Fresh.sigs = Unsigned /\ Unsigned \in [Tree -> {"none", "good", "bad"}]
  BY DEF Fresh, Unsigned
<1>3. /\ Collects(EmptyBag, VtxoChunk)' /\ Collects(EmptyBag, ConnectorChunk)'
      /\ "none" \notin Commitment
  BY NothingCollected, BatchJoinAssumption DEF Collects, VtxoChunk, ConnectorChunk
<1>4. Sound(j)'
  BY <1>1, <1>2, <1>3 DEF Sound, Out
<1> QED
  BY <1>1, <1>4, OthersStaySound

\* What a process may know of a batch before its forfeits are out.
Knows(p) ==
  /\ Collects(p.vtxo, VtxoChunk) /\ Collects(p.connectors, ConnectorChunk)
  /\ p.sigs \in [Tree -> {"none", "good", "bad"}]
  /\ p.step \in {"BatchStarted", "BatchSigningStarted"} /\ p.lifetime >= InputRemaining
  /\ p.step = "BatchSigningStarted" => p.commitment \in Commitment

LEMMA AcceptsSoundly ==
  ASSUME SoundInv, NEW j \in Joiner, NEW p, pc[j] = "joining", Accept(j, p), Knows(p)
  PROVE  \A i \in Joiner: Sound(i)'
<1>1. /\ prog'[j] = p /\ \A i \in Joiner \ {j}: prog'[i] = prog[i]
      /\ UNCHANGED <<pc, result, forfeits, finalized>>
  BY DEF Accept, SoundInv, JoinInv
<1>2. result[j] \notin Commitment
  BY RunningIsSilent
<1>3. Sound(j)'
  BY <1>1, <1>2 DEF Sound, Knows, Out, Collects, VtxoChunk, ConnectorChunk, InputRemaining
<1> QED
  BY <1>1, <1>3, OthersStaySound

LEMMA EventsAreSound ==
  ASSUME SoundInv, NEW j \in Joiner, NEW b \in Batch, Event(j, b)
  PROVE  \A i \in Joiner: Sound(i)'
<1> DEFINE p == prog[j]
           Goal == \A i \in Joiner: Sound(i)'
<1>0. /\ DOMAIN p = Fields /\ Sound(j)
      /\ p.step \in {"BatchStarted", "BatchSigningStarted"} => Knows(p)
      /\ pc[j] \in {"joining"} => result[j] \notin Commitment
  BY RunningIsSilent DEF SoundInv, JoinInv, Tracked, Sound, Knows
<1>1. ASSUME NEW l \in Lifetimes, OnBatchStarted(j, b, l) PROVE Goal
  <2> DEFINE q == [p EXCEPT !.step = "BatchStarted", !.batch = b, !.lifetime = l]
  <2>1. /\ q.step = "BatchStarted" /\ q.lifetime = l /\ q.vtxo = p.vtxo
        /\ q.connectors = p.connectors /\ q.sigs = p.sigs
    BY <1>0 DEF Fields
  <2>2. CASE ValidBatchExpiry(l) /\ Accept(j, q)
    <3>1. Knows(q)
      BY <1>0, <2>1, <2>2 DEF Knows, Sound, ValidBatchExpiry
    <3> QED
      BY <1>1, <2>2, <3>1, AcceptsSoundly DEF OnBatchStarted
  <2> QED
    BY <1>1, <2>2, RejectsSoundly DEF OnBatchStarted
<1>2. ASSUME NEW chunk \in VtxoChunk, OnVtxoChunk(j, b, chunk) PROVE Goal
  <2> DEFINE q == [p EXCEPT !.vtxo = p.vtxo (+) SetToBag({chunk})]
  <2>1. /\ q.step = p.step /\ q.lifetime = p.lifetime /\ q.vtxo = p.vtxo (+) SetToBag({chunk})
        /\ q.connectors = p.connectors /\ q.sigs = p.sigs /\ q.commitment = p.commitment
    BY <1>0 DEF Fields
  <2>2. CASE p.step = "BatchStarted" /\ BagCardinality(p.vtxo) < MaxGraphNodes /\ Accept(j, q)
    <3>1. Collects(q.vtxo, VtxoChunk)
      BY <1>0, <2>1, <2>2, OneMore DEF Sound
    <3>2. Knows(q)
      BY <1>0, <2>1, <2>2, <3>1 DEF Knows
    <3> QED
      BY <1>2, <2>2, <3>2, AcceptsSoundly DEF OnVtxoChunk
  <2> QED
    BY <1>2, <2>2, RejectsSoundly DEF OnVtxoChunk
<1>3. ASSUME NEW chunk \in ConnectorChunk, OnConnectorChunk(j, b, chunk) PROVE Goal
  <2> DEFINE q == [p EXCEPT !.connectors = p.connectors (+) SetToBag({chunk})]
  <2>1. /\ q.step = p.step /\ q.lifetime = p.lifetime /\ q.vtxo = p.vtxo
        /\ q.connectors = p.connectors (+) SetToBag({chunk})
        /\ q.sigs = p.sigs /\ q.commitment = p.commitment
    BY <1>0 DEF Fields
  <2>2. CASE BagCardinality(p.connectors) < MaxGraphNodes /\ Accept(j, q)
    <3>1. Collects(q.connectors, ConnectorChunk)
      BY <1>0, <2>1, <2>2, OneMore DEF Sound
    <3>2. Knows(q)
      BY <1>0, <1>3, <2>1, <2>2, <3>1 DEF Knows, OnConnectorChunk, AcceptsTreeChunk
    <3> QED
      BY <1>3, <2>2, <3>2, AcceptsSoundly DEF OnConnectorChunk
  <2> QED
    BY <1>3, <2>2, RejectsSoundly DEF OnConnectorChunk
<1>4. ASSUME NEW c \in Commitment, NEW listsUs \in BOOLEAN,
             OnTreeSigningStarted(j, b, c, listsUs)
      PROVE  Goal
  <2> DEFINE q == [p EXCEPT !.step = "BatchSigningStarted", !.commitment = c]
  <2>1. /\ q.step = "BatchSigningStarted" /\ q.lifetime = p.lifetime /\ q.vtxo = p.vtxo
        /\ q.connectors = p.connectors /\ q.sigs = p.sigs /\ q.commitment = c
    BY <1>0 DEF Fields
  <2>2. CASE Accept(j, q)
    <3>1. Knows(q)
      BY <1>0, <1>4, <2>1 DEF Knows, OnTreeSigningStarted, AcceptsSigningStart
    <3> QED
      BY <1>4, <2>2, <3>1, AcceptsSoundly DEF OnTreeSigningStarted
  <2> QED
    BY <1>4, <2>2, RejectsSoundly DEF OnTreeSigningStarted
<1>5. ASSUME NEW node \in Tree \cup {"stray"}, OnTreeNonces(j, b, node) PROVE Goal
  <2> DEFINE nonces == p.nonces \cup {node}
             q == [p EXCEPT !.nonces = nonces, !.submitted = nonces = Tree]
  <2>1. /\ q.step = p.step /\ q.lifetime = p.lifetime /\ q.vtxo = p.vtxo
        /\ q.connectors = p.connectors /\ q.sigs = p.sigs /\ q.commitment = p.commitment
    BY <1>0 DEF Fields
  <2>2. CASE Accept(j, q)
    <3>1. Knows(q)
      BY <1>0, <1>5, <2>1 DEF Knows, OnTreeNonces, AcceptsNonces
    <3> QED
      BY <1>5, <2>2, <3>1, AcceptsSoundly DEF OnTreeNonces
  <2> QED
    BY <1>5, <2>2, RejectsSoundly DEF OnTreeNonces
<1>6. ASSUME NEW node \in Tree \cup {"stray"}, NEW sig \in {"good", "bad"},
             OnTreeSignature(j, b, node, sig)
      PROVE  Goal
  <2> DEFINE q == [p EXCEPT !.sigs[node] = sig]
  <2>1. /\ q.step = p.step /\ q.lifetime = p.lifetime /\ q.vtxo = p.vtxo
        /\ q.connectors = p.connectors /\ q.commitment = p.commitment
        /\ q.sigs = [p.sigs EXCEPT ![node] = sig]
    BY <1>0 DEF Fields
  <2>2. CASE node \in Tree /\ Accept(j, q)
    <3>1. Knows(q)
      BY <1>0, <1>6, <2>1, <2>2 DEF Knows, OnTreeSignature, AcceptsTreeSignature
    <3> QED
      BY <1>6, <2>2, <3>1, AcceptsSoundly DEF OnTreeSignature
  <2> QED
    BY <1>6, <2>2, RejectsSoundly DEF OnTreeSignature
<1>7. ASSUME NEW c \in Commitment, OnBatchFinalization(j, b, c) PROVE Goal
  <2>1. CASE MayRelease(p, c)
    <3>1. /\ forfeits' = forfeits \cup
               {[by |-> j, of |-> chunk.of, shown |-> c]: chunk \in BagToSet(p.connectors)}
          /\ UNCHANGED <<prog, result, finalized>> /\ pc' = [pc EXCEPT ![j] = "finalizing"]
          /\ p.step = "BatchSigningStarted" /\ pc[j] = "joining"
      BY <1>7, <2>1 DEF OnBatchFinalization, Goto, AcceptsFinalization
    <3>2. c = p.commitment /\ TreeIsSigned(p.sigs)
      BY <2>1 DEF MayRelease
    <3>3. [of |-> c, leaves |-> Inputs] \in BagToSet(p.connectors)
      BY <2>1, <3>2 DEF MayRelease, ValidConnectors, BagToSet, SetToBag
    <3>4. [by |-> j, of |-> c, shown |-> c] \in forfeits'
      BY <3>1, <3>3
    <3>5. pc'[j] = "finalizing" /\ \A i \in Joiner \ {j}: pc'[i] = pc[i]
      BY <3>1 DEF SoundInv, JoinInv
    <3>6. Swapped(j)'
      BY <3>1, <3>2, <3>4 DEF Swapped, TreeIsSigned
    <3>7. Sound(j)'
      BY <1>0, <3>1, <3>5, <3>6
         DEF Sound, Out, Collects, VtxoChunk, ConnectorChunk, InputRemaining
    <3> QED
      BY <3>1, <3>5, <3>7, OthersStaySound
  <2> QED
    BY <1>7, <2>1, RejectsSoundly DEF OnBatchFinalization
<1>8. ASSUME NEW c \in Commitment, OnBatchFinalized(j, b, c) PROVE Goal
  <2>1. CASE Finalizes(p, c) /\ Return(j, c)
              /\ UNCHANGED <<attempt, prog, released, landing, queue, finalized, forfeits>>
    <3>1. result'[j] = c /\ \A i \in Joiner \ {j}: result'[i] = result[i]
      BY <2>1 DEF Return, SoundInv, Records
    <3>2. Swapped(j) /\ p.commitment = c /\ c \in finalized /\ p.lifetime >= InputRemaining
      BY <1>0, <1>8, <2>1 DEF OnBatchFinalized, Finalizes, Sound, Out
    <3>3. Reported(j)'
      BY <2>1, <3>1, <3>2 DEF Reported, Swapped, TreeIsSigned, InputRemaining
    <3> QED
      BY <2>1, <3>1, <3>3, GoesSoundly DEF Return, Places
  <2> QED
    BY <1>8, <2>1, RejectsSoundly DEF OnBatchFinalized
<1>9. CASE OnBatchFailed(j, b)
  BY <1>9, RejectsSoundly DEF OnBatchFailed
<1> QED
  BY <1>1, <1>2, <1>3, <1>4, <1>5, <1>6, <1>7, <1>8, <1>9 DEF Event

LEMMA RegistersSoundly ==
  ASSUME SoundInv, NEW j \in Joiner, Registration(j)
  PROVE  \A i \in Joiner: Sound(i)'
<1> DEFINE Goal == \A i \in Joiner: Sound(i)'
<1> USE DEF Places, Answers
<1>1. CASE StartJoin(j)
  BY <1>1, BeginsSoundly DEF StartJoin, Goto
<1>2. ASSUME NEW a \in BOOLEAN, Land(j, a) PROVE Goal
  <2>1. CASE a
    BY <1>2, <2>1, MovesSoundly DEF Land, Goto
  <2>2. CASE ~a
    BY <1>2, <2>2, OthersStaySound DEF Land
  <2> QED
    BY <2>1, <2>2
<1>3. CASE RefuseDuplicate(j)
  <2>1. CASE pc[j] = "registering" /\ Goto(j, "clearing") /\ UNCHANGED result
    BY <1>3, <2>1, MovesSoundly DEF RefuseDuplicate
  <2>2. CASE Return(j, "failed")
    BY <1>3, <2>2, ReturnsSoundly DEF RefuseDuplicate
  <2>3. CASE UNCHANGED <<pc, result>>
    BY <1>3, <2>3, OthersStaySound DEF RefuseDuplicate
  <2> QED
    BY <1>3, <2>1, <2>2, <2>3 DEF RefuseDuplicate
<1>4. CASE RegisterFails(j)
  BY <1>4, ReturnsSoundly DEF RegisterFails
<1>5. CASE RegisterTimesOut(j)
  BY <1>5, MovesSoundly DEF RegisterTimesOut
<1>6. CASE ClearConflict(j)
  BY <1>6, MovesSoundly DEF ClearConflict
<1>7. CASE ClearFails(j)
  BY <1>7, ReturnsSoundly DEF ClearFails
<1> QED
  BY <1>1, <1>2, <1>3, <1>4, <1>5, <1>6, <1>7 DEF Registration

LEMMA StaysSound ==
  ASSUME SoundInv, [Next]_vars
  PROVE  \A i \in Joiner: Sound(i)'
<1> DEFINE Goal == \A i \in Joiner: Sound(i)'
<1>1. ASSUME NEW j \in Joiner, Registration(j) PROVE Goal
  BY <1>1, RegistersSoundly
<1>2. ASSUME NEW j \in Joiner, NEW b \in Batch, Event(j, b) PROVE Goal
  BY <1>2, EventsAreSound
<1>3. ASSUME NEW j \in Joiner, FinalizationSubmitted(j) PROVE Goal
  <2> DEFINE p == prog[j]
             q == [p EXCEPT !.step = "FinalizationSubmitted", !.expected = p.commitment]
  <2>1. /\ pc' = [pc EXCEPT ![j] = "joining"] /\ prog' = [prog EXCEPT ![j] = q]
        /\ UNCHANGED <<result, forfeits, finalized>> /\ pc[j] = "finalizing"
    BY <1>3 DEF FinalizationSubmitted, Goto
  <2>2. DOMAIN p = Fields /\ Sound(j) /\ result[j] \notin Commitment
    BY <2>1, RunningIsSilent DEF SoundInv, JoinInv, Tracked
  <2>3. /\ q.step = "FinalizationSubmitted" /\ q.lifetime = p.lifetime /\ q.vtxo = p.vtxo
        /\ q.connectors = p.connectors /\ q.sigs = p.sigs /\ q.commitment = p.commitment
        /\ q.expected = p.commitment
    BY <2>2 DEF Fields
  <2>4. /\ prog'[j] = q /\ pc'[j] = "joining"
        /\ \A i \in Joiner \ {j}: pc'[i] = pc[i] /\ prog'[i] = prog[i]
    BY <2>1 DEF SoundInv, JoinInv
  <2> HIDE DEF q
  <2>5. Swapped(j)'
    BY <2>1, <2>2, <2>3, <2>4 DEF Sound, Out, Swapped, TreeIsSigned
  <2>6. Sound(j)'
    BY <2>1, <2>2, <2>3, <2>4, <2>5
       DEF Sound, Collects, VtxoChunk, ConnectorChunk, InputRemaining
  <2> QED
    BY <2>1, <2>4, <2>6, OthersStaySound
<1>4. ASSUME NEW j \in Joiner, FinalizationFails(j) \/ JoinTimesOut(j) \/ StreamEnds(j)
      PROVE  Goal
  BY <1>4, FailsSoundly DEF FinalizationFails, JoinTimesOut, StreamEnds
<1>5. ASSUME NEW j \in Joiner, NEW a \in BOOLEAN, Cleanup(j, a) PROVE Goal
  BY <1>5, ReturnsSoundly DEF Cleanup, Answers
<1>6. ASSUME NEW j \in Joiner, Crash(j) PROVE Goal
  BY <1>6, BeginsSoundly DEF Crash, Goto
<1>7. ASSUME NEW j \in Joiner, Retry(j) PROVE Goal
  <2>1. result'[j] \in Commitment => Reported(j)'
    BY <1>7 DEF Retry, SoundInv, Sound, Reported, Swapped, TreeIsSigned, InputRemaining
  <2> QED
    BY <1>7, <2>1, GoesSoundly DEF Retry, Goto, Places
<1>8. CASE Select \/ Drop \/ (\E c \in Commitment: Confirm(c)) \/ UNCHANGED vars
  BY <1>8, OthersStaySound DEF Select, Drop, Confirm, vars
<1> QED
  BY <1>1, <1>2, <1>3, <1>4, <1>5, <1>6, <1>7, <1>8 DEF Next

-----------------------------------------------------------------------------
\* arkd's records and the calls' answers keep their types.
LEMMA EventRecords ==
  ASSUME SoundInv, NEW j \in Joiner, NEW b \in Batch, Event(j, b)
  PROVE  Records'
<1> USE DEF Records, Answers
<1>1. Records /\ \A w \in Answers: w \in Answers \cup Commitment
  BY DEF SoundInv
<1>2. ASSUME Reject(j) PROVE Records'
  BY <1>1, <1>2 DEF Reject, Fail, Return, Goto
<1>3. ASSUME NEW p, Accept(j, p) PROVE Records'
  BY <1>1, <1>3 DEF Accept
<1>4. ASSUME NEW c \in Commitment, OnBatchFinalization(j, b, c) PROVE Records'
  <2>1. CASE MayRelease(prog[j], c)
    <3>1. BagToSet(prog[j].connectors) = {[of |-> c, leaves |-> Inputs]}
      BY <2>1 DEF MayRelease, ValidConnectors, BagToSet, SetToBag
    <3>2. forfeits' \subseteq forfeits \cup {[by |-> j, of |-> c, shown |-> c]}
      BY <1>4, <2>1, <3>1 DEF OnBatchFinalization
    <3> QED
      BY <1>1, <1>4, <2>1, <3>2 DEF OnBatchFinalization
  <2> QED
    BY <1>2, <1>4, <2>1 DEF OnBatchFinalization
<1>5. ASSUME NEW c \in Commitment, OnBatchFinalized(j, b, c) PROVE Records'
  <2>1. CASE Return(j, c) /\ UNCHANGED <<attempt, prog, released, landing, queue, finalized, forfeits>>
    BY <1>1, <2>1 DEF Return
  <2> QED
    BY <1>2, <1>5, <2>1 DEF OnBatchFinalized
<1> QED
  BY <1>2, <1>3, <1>4, <1>5
     DEF Event, OnBatchStarted, OnVtxoChunk, OnConnectorChunk, OnTreeSigningStarted,
         OnTreeNonces, OnTreeSignature, OnBatchFailed

LEMMA RecordsStay ==
  ASSUME SoundInv, [Next]_vars
  PROVE  Records'
<1> USE DEF Records, Answers
<1>1. Records
  BY DEF SoundInv
<1>2. ASSUME NEW j \in Joiner, Registration(j) PROVE Records'
  <2>1. CASE StartJoin(j)
    BY <1>1, <2>1 DEF StartJoin
  <2>2. ASSUME NEW a \in BOOLEAN, Land(j, a) PROVE Records'
    BY <1>1, <2>2 DEF Land
  <2>3. CASE RefuseDuplicate(j) \/ RegisterFails(j) \/ RegisterTimesOut(j) \/ ClearFails(j)
    BY <1>1, <2>3 DEF RefuseDuplicate, RegisterFails, RegisterTimesOut, ClearFails, Return
  <2>4. CASE ClearConflict(j)
    BY <1>1, <2>4 DEF ClearConflict, Deleted
  <2> QED
    BY <1>2, <2>1, <2>2, <2>3, <2>4 DEF Registration
<1>3. ASSUME NEW j \in Joiner, NEW b \in Batch, Event(j, b) PROVE Records'
  BY <1>3, EventRecords
<1>4. ASSUME NEW j \in Joiner, FinalizationSubmitted(j) \/ FinalizationFails(j)
                \/ JoinTimesOut(j) \/ StreamEnds(j) \/ (\E a \in BOOLEAN: Cleanup(j, a))
                \/ Crash(j) \/ Retry(j)
      PROVE  Records'
  BY <1>1, <1>4 DEF FinalizationSubmitted, FinalizationFails, JoinTimesOut, StreamEnds,
     Cleanup, Crash, Retry, Fail, Return, Deleted
<1>5. CASE Select
  BY <1>1, <1>5 DEF Select
<1>6. CASE Drop \/ (\E c \in Commitment: Confirm(c)) \/ UNCHANGED vars
  BY <1>1, <1>6 DEF Drop, Confirm, vars
<1> QED
  BY <1>2, <1>3, <1>4, <1>5, <1>6 DEF Next

LEMMA SoundStep == SoundInv /\ [Next]_vars => SoundInv'
BY JoinStep, StaysSound, RecordsStay DEF SoundInv

LEMMA SoundIsEnough == SoundInv => JoinIsSound
<1> SUFFICES ASSUME SoundInv PROVE JoinIsSound
  OBVIOUS
<1>1. TypeOK
  BY DEF SoundInv, Records, JoinInv, Sound, Collects, TypeOK, Places, Answers, BagToSet
<1>2. OutcomeIsTrue
  BY DEF SoundInv, Sound, Reported, Swapped, OutcomeIsTrue
<1> QED
  BY <1>1, <1>2 DEF JoinIsSound

\* What a process holds is bounded and well formed, and a renewal reported as done
\* is final, ours, fully signed and long enough (src/batch.rs:721).
THEOREM ReportsAreTrue == Spec => []JoinIsSound
BY SoundStarts, SoundStep, SoundIsEnough, PTL DEF Spec

-----------------------------------------------------------------------------
(***************************************************************************)
(* The fee.                                                                *)
(***************************************************************************)
(* What the search has established when it stops: the fee it stopped at    *)
(* is enough for the change that this very fee leaves.                     *)
FeeInv ==
  /\ programs \subseteq Program /\ IsFiniteSet(programs) /\ Cardinality(programs) \leq 2
  /\ wallet \in Wallet
  /\ paid \in Nat
  /\ stage = "quote" => funding = Unfunded
  /\ stage \in {"search", "fund"} => funding \in wallet
  /\ stage = "fund" =>
       (CanPay(paid) => \A p \in programs: p.at[funding.sats - paid] \leq paid)
  /\ FeeIsCovered

LEMMA AtMostTwo ==
  ASSUME NEW S, IsFiniteSet(S), Cardinality(S) \leq 2, S # {}
  PROVE  \E p, q \in S: S = {p, q}
<1>1. PICK p \in S: TRUE
  OBVIOUS
<1>2. CASE S = {p}
  BY <1>2
<1>3. CASE S # {p}
  <2>1. PICK q \in S: q # p
    BY <1>1, <1>3
  <2>2. IsFiniteSet(S \ {p}) /\ Cardinality(S \ {p}) = Cardinality(S) - 1
    BY FS_RemoveElement
  <2>3. IsFiniteSet((S \ {p}) \ {q}) /\ Cardinality((S \ {p}) \ {q}) = Cardinality(S) - 2
    BY <2>1, <2>2, FS_RemoveElement, FS_CardinalityType
  <2>4. (S \ {p}) \ {q} = {}
    <3> DEFINE rest == (S \ {p}) \ {q}
    <3>1. Cardinality(rest) \in Nat /\ Cardinality(S) \in Nat
      BY <2>3, FS_CardinalityType
    <3>2. Cardinality(rest) = 0
      BY <2>3, <3>1
    <3> QED
      BY <2>3, <3>2, FS_EmptySet
  <2> QED
    BY <2>1, <2>4
<1> QED
  BY <1>2, <1>3

\* The fee that is paid is the highest any program of the connection asks.
LEMMA HighestBounds ==
  ASSUME NEW f, NEW g, f \in Nat, g \in Nat
  PROVE  f \leq Highest({f, g}) /\ g \leq Highest({f, g}) /\ Highest({f, g}) \in Nat
<1>1. \E h \in {f, g}: \A k \in {f, g}: k \leq h
  <2>1. CASE f \leq g
    BY <2>1
  <2>2. CASE g \leq f
    BY <2>2
  <2> QED
    BY <2>1, <2>2
<1> QED
  BY <1>1 DEF Highest

LEMMA FeesAreAmounts ==
  ASSUME FeeInv, NEW change \in Amount, NEW p \in programs
  PROVE  p.at[change] \in Nat
<1>1. p \in [base: Nat, at: [Amount -> Nat]]
  BY RenewalFeeAssumption DEF FeeInv
<1> QED
  BY <1>1

LEMMA RequiredFeeBounds ==
  ASSUME FeeInv, NEW change \in Amount
  PROVE  /\ RequiredFee(change) \in Nat
         /\ \A p \in programs: p.at[change] \leq RequiredFee(change)
<1>1. \A p \in programs: p.at[change] \in Nat
  BY FeesAreAmounts
<1>2. CASE programs = {}
  BY <1>2 DEF RequiredFee, Highest
<1>3. CASE programs # {}
  <2>1. PICK p, q \in programs: programs = {p, q}
    BY <1>3, AtMostTwo DEF FeeInv
  <2>2. RequiredFee(change) = Highest({p.at[change], q.at[change]})
    <3>1. {r.at[change]: r \in programs} = {p.at[change], q.at[change]}
      BY <2>1
    <3> QED
      BY <3>1 DEF RequiredFee
  <2>3. /\ p.at[change] \leq RequiredFee(change) /\ q.at[change] \leq RequiredFee(change)
        /\ RequiredFee(change) \in Nat
    BY <1>1, <2>2, HighestBounds
  <2> QED
    BY <2>1, <2>3
<1> QED
  BY <1>2, <1>3

LEMMA FundingIsAnOutput ==
  ASSUME FeeInv, funding \in wallet
  PROVE  funding # Unfunded /\ funding.sats \in Amount /\ funding.sats \in Nat
<1>1. wallet \subseteq [sats: Amount, clean: BOOLEAN, live: BOOLEAN, isState: BOOLEAN, remaining: Nat]
  BY RenewalFeeAssumption DEF FeeInv
<1>2. funding \in [sats: Amount, clean: BOOLEAN, live: BOOLEAN, isState: BOOLEAN, remaining: Nat]
  BY <1>1
<1> QED
  BY <1>2, RenewalFeeAssumption

LEMMA FeeStarts == FeeInit => FeeInv
<1> SUFFICES ASSUME FeeInit PROVE FeeInv
  OBVIOUS
<1>1. programs \subseteq Program /\ IsFiniteSet(programs) /\ Cardinality(programs) \leq 2
  BY DEF FeeInit
<1> QED
  BY <1>1 DEF FeeInit, FeeInv, FeeIsCovered

LEMMA FeeStep == FeeInv /\ [FeeNext]_feeVars => FeeInv'
<1> SUFFICES ASSUME FeeInv, [FeeNext]_feeVars PROVE FeeInv'
  OBVIOUS
<1> USE RenewalFeeAssumption
<1>1. CASE QuoteFree
  BY <1>1 DEF QuoteFree, FeeInv, FeeIsCovered, BaseFee, CanPay
<1>2. CASE QuoteFee
  BY <1>2 DEF QuoteFee, FeeInv, FeeIsCovered, Candidates, CanPay
<1>3. CASE Search
  <2>1. funding # Unfunded /\ funding.sats \in Amount /\ funding.sats \in Nat
    BY <1>3, FundingIsAnOutput DEF Search, FeeInv
  <2>2. CASE ~CanPay(paid)
    BY <1>3, <2>2 DEF Search, FeeInv, FeeIsCovered
  <2>3. CASE CanPay(paid)
    <3>1. funding.sats - paid \in Amount
      <4>1. funding.sats - paid \in 0..funding.sats
        BY <2>1, <2>3 DEF CanPay, FeeInv
      <4> QED
        BY <2>1, <4>1
    <3> DEFINE required == RequiredFee(funding.sats - paid)
    <3>2. required \in Nat /\ \A p \in programs: p.at[funding.sats - paid] \leq required
      BY <3>1, RequiredFeeBounds
    <3>3. \A p \in programs: p.at[funding.sats - paid] \in Nat
      BY <3>1, FeesAreAmounts
    <3> HIDE DEF required
    <3>4. CASE Enough(required, paid)
      <4>1. stage' = "fund" /\ UNCHANGED <<paid, programs, wallet, funding, intent>>
        BY <1>3, <2>3, <3>4 DEF Search, required
      <4>2. \A p \in programs: p.at[funding.sats - paid] \leq paid
        BY <3>2, <3>3, <3>4 DEF Enough, FeeInv
      <4> QED
        BY <1>3, <4>1, <4>2 DEF FeeInv, FeeIsCovered, Search
    <3>5. CASE ~Enough(required, paid)
      <4>1. stage' = "search" /\ paid' = required /\ UNCHANGED <<programs, wallet, funding, intent>>
        BY <1>3, <2>3, <3>5 DEF Search, required
      <4> QED
        BY <1>3, <3>2, <4>1 DEF FeeInv, FeeIsCovered, Search
    <3> QED
      BY <3>4, <3>5
  <2> QED
    BY <2>2, <2>3
<1>4. CASE GiveUp
  BY <1>4 DEF GiveUp, FeeInv, FeeIsCovered
<1>5. CASE Fund
  <2>1. funding # Unfunded /\ funding.sats \in Nat
    BY <1>5, FundingIsAnOutput DEF Fund, FeeInv
  <2>2. CASE ~CanPay(paid)
    BY <1>5, <2>2 DEF Fund, FeeInv, FeeIsCovered
  <2>3. CASE CanPay(paid)
    <3>1. /\ stage' = "bound"
          /\ intent'.change = funding.sats - paid /\ intent'.fee = paid
          /\ UNCHANGED <<programs, wallet, funding, paid>>
      BY <1>5, <2>3 DEF Fund
    <3>2. FeeIsCovered'
      <4>1. intent'.change + intent'.fee = funding.sats
        BY <2>1, <3>1 DEF FeeInv
      <4> QED
        BY <1>5, <2>1, <2>3, <3>1, <4>1 DEF FeeIsCovered, FeeInv, CanPay, Fund
    <3> QED
      BY <3>1, <3>2 DEF FeeInv
  <2> QED
    BY <2>2, <2>3
<1>6. CASE UNCHANGED feeVars
  BY <1>6 DEF feeVars, FeeInv, FeeIsCovered, BaseFee, CanPay
<1> QED
  BY <1>1, <1>2, <1>3, <1>4, <1>5, <1>6 DEF FeeNext

\* The intent that is signed pays what every fee program asks of it, its own
\* change included (src/renewal.rs:451).
THEOREM SignedIntentsPayTheirFee == FeeSpec => []FeeIsCovered
<1>1. FeeInv => FeeIsCovered
  BY DEF FeeInv
<1> QED
  BY <1>1, FeeStarts, FeeStep, PTL DEF FeeSpec

-----------------------------------------------------------------------------
(***************************************************************************)
(* The announced trees.  A node set is finite and typed, which is all the  *)
(* graph lemmas need.                                                      *)
(***************************************************************************)
ChunksAreTyped ==
  /\ batch \in DOMAIN Announced
  /\ Nodes \subseteq TxId /\ \A t \in Nodes: IsChunk(received[t])
  /\ twice \subseteq Nodes

LEMMA TypedNodes ==
  ASSUME ChunksAreTyped
  PROVE  /\ IsFiniteSet(Nodes) /\ Cardinality(Nodes) \in Nat /\ Root \notin Nodes
         /\ Len(CommitmentOut) = 2 /\ CommitmentOut \in Seq(Outputs)
         /\ \A t \in Nodes: /\ received[t].prev \in [tx: TxId \cup {Root}, vout: Nat]
                            /\ received[t].outs \in Seq(Outputs)
                            /\ Len(received[t].outs) \in Nat
                            /\ DOMAIN received[t].children \subseteq Nat
<1>1. IsFiniteSet(Nodes)
  BY FS_Subset, BatchTreeAssumption DEF ChunksAreTyped
<1>2. Cardinality(Nodes) \in Nat
  BY <1>1, FS_CardinalityType
<1>3. Len(CommitmentOut) = 2 /\ CommitmentOut \in Seq(Outputs)
  BY BatchTreeAssumption DEF ChunksAreTyped, CommitmentOut
<1>4. ASSUME NEW t \in Nodes
      PROVE  /\ received[t].prev \in [tx: TxId \cup {Root}, vout: Nat]
             /\ received[t].outs \in Seq(Outputs)
             /\ Len(received[t].outs) \in Nat
             /\ DOMAIN received[t].children \subseteq Nat
  <2>1. received[t].outs \in Seq(Outputs)
    BY <1>4 DEF ChunksAreTyped, IsChunk
  <2> QED
    BY <1>4, <2>1 DEF ChunksAreTyped, IsChunk
<1> QED
  BY <1>1, <1>2, <1>3, <1>4, BatchTreeAssumption DEF ChunksAreTyped

\* What a chunk spends is given by the two parts of its outpoint.
LEMMA PrevIs ==
  ASSUME ChunksAreTyped, NEW t \in Nodes, NEW tx, NEW vout,
         Parent(t) = tx, received[t].prev.vout = vout
  PROVE  received[t].prev = [tx |-> tx, vout |-> vout]
BY TypedNodes DEF Parent

\* A singleton, by its cardinality.
LEMMA OneMember ==
  ASSUME NEW S, IsFiniteSet(S)
  PROVE  Cardinality(S) = 1 <=> \E x: S = {x}
BY FS_Singleton

(***************************************************************************)
(* The way up.                                                             *)
(***************************************************************************)
Upwards(S) == \A u \in S: Parent(u) \in Nodes => Parent(u) \in S

LEMMA AncestryHasIt == ASSUME NEW t \in Nodes PROVE t \in Ancestry(t)
BY DEF Ancestry

\* The ancestors of a parent are ancestors of the child.
LEMMA AncestryClimbs ==
  ASSUME NEW t \in Nodes, Parent(t) \in Nodes
  PROVE  Ancestry(Parent(t)) \subseteq Ancestry(t)
BY DEF Ancestry

\* A set that is closed upwards keeps the ancestors of its members.
LEMMA AncestryStaysIn ==
  ASSUME NEW S \in SUBSET Nodes, Upwards(S), NEW t \in S
  PROVE  Ancestry(t) \subseteq S
BY DEF Ancestry, Upwards

(***************************************************************************)
(* A graph that passes the checks is a branch.                             *)
(***************************************************************************)
IsRoot(root, vout) == Roots = {root} /\ Traversed(root) /\ RootSpends(root, vout)

\* What the edges say of a node that is not the root.
LEMMA ChildOfItsParent ==
  ASSUME ChunksAreTyped, EdgesAreSpends, DeclaredOutputsExist,
         NEW root \in Nodes, Roots = {root}, NEW t \in Nodes, t # root
  PROVE  /\ Parent(t) \in Nodes
         /\ received[t].prev.vout \in DOMAIN received[Parent(t)].children
         /\ received[Parent(t)].children[received[t].prev.vout] = t
         /\ received[t].prev.vout < Len(received[Parent(t)].outs)
         /\ Total(t) = received[Parent(t)].outs[received[t].prev.vout + 1].value
<1>1. t \notin Roots
  OBVIOUS
<1>2. PICK u \in Nodes: t \in Children(u)
  BY <1>1 DEF Roots
<1>3. PICK v \in DOMAIN received[u].children: received[u].children[v] = t
  BY <1>2 DEF Children
<1>4. received[t].prev = [tx |-> u, vout |-> v] /\ Total(t) = received[u].outs[v + 1].value
  BY <1>3 DEF EdgesAreSpends
<1>5. v < Len(received[u].outs)
  BY DEF DeclaredOutputsExist
<1>6. Parent(t) = u /\ received[t].prev.vout = v
  BY <1>4 DEF Parent
<1> QED
  BY <1>3, <1>4, <1>5, <1>6

LEMMA GraphReaches ==
  ASSUME ChunksAreTyped, EdgesAreSpends, NEW root \in Nodes, Traversed(root),
         Parent(root) = Root, NEW t \in Nodes
  PROVE  ReachesCommitment(t)
<1> DEFINE S == {u \in Nodes: ReachesCommitment(u)}
<1>1. root \in S
  BY AncestryHasIt DEF ReachesCommitment
<1>2. ASSUME NEW p \in S, NEW c \in Children(p) \cap Nodes
      PROVE  c \in S
  <2>1. PICK v \in DOMAIN received[p].children: received[p].children[v] = c
    BY <1>2 DEF Children
  <2>2. received[c].prev = [tx |-> p, vout |-> v]
    BY <1>2, <2>1 DEF EdgesAreSpends
  <2>3. Parent(c) = p
    BY <2>2 DEF Parent
  <2>4. Ancestry(p) \subseteq Ancestry(c)
    BY <1>2, <2>3, AncestryClimbs
  <2> QED
    BY <1>2, <2>4 DEF ReachesCommitment
<1>3. S = Nodes
  <2> HIDE DEF S
  <2>1. S \in SUBSET Nodes
    BY DEF S
  <2>2. \A p \in S: Children(p) \cap Nodes \subseteq S
    BY <1>2
  <2> QED
    BY <1>1, <2>1, <2>2 DEF Traversed
<1> QED
  BY <1>3

LEMMA CheckedGraphIsBranch ==
  ASSUME ChunksAreTyped, NEW vout \in {0, 1}, ValidateGraph(vout)
  PROVE  HonestBranch(vout)
<1> USE TypedNodes
<1>1. PICK root \in Nodes: Roots = {root} /\ Traversed(root) /\ RootSpends(root, vout)
  BY DEF ValidateGraph
<1>2. EdgesAreSpends /\ DeclaredOutputsExist /\ CanonicalChunks
  BY DEF ValidateGraph
<1>3. Parent(root) = Root /\ received[root].prev.vout = vout /\ Total(root) = CommitmentOut[vout + 1].value
  BY <1>1 DEF RootSpends, Parent
<1>4. \A t \in Nodes \ {root}:
        /\ Parent(t) \in Nodes
        /\ received[t].prev.vout \in DOMAIN received[Parent(t)].children
        /\ received[Parent(t)].children[received[t].prev.vout] = t
        /\ received[t].prev.vout < Len(received[Parent(t)].outs)
        /\ Total(t) = received[Parent(t)].outs[received[t].prev.vout + 1].value
  BY <1>1, <1>2, ChildOfItsParent
<1>5. HonestlyDeclared
  <2>1. ASSUME NEW t \in Nodes, NEW v \in DOMAIN received[t].children
        PROVE  /\ v < Len(received[t].outs)
               /\ received[t].children[v] \in Nodes =>
                    received[received[t].children[v]].prev = [tx |-> t, vout |-> v]
    BY <1>2 DEF EdgesAreSpends, DeclaredOutputsExist
  <2>2. ASSUME NEW t \in Nodes, NEW u \in Nodes, Parent(u) = t
        PROVE  /\ received[u].prev.vout \in DOMAIN received[t].children
               /\ received[t].children[received[u].prev.vout] = u
    BY <1>3, <1>4, <2>2
  <2>3. \A t \in Nodes: received[t].canonical
    BY <1>2 DEF CanonicalChunks
  <2> QED
    BY <2>1, <2>2, <2>3 DEF HonestlyDeclared
<1>6. ASSUME NEW t \in Nodes
      PROVE  /\ OutputExists(received[t].prev)
             /\ Total(t) = Output(received[t].prev).value
             /\ Parent(t) = Root => received[t].prev.vout = vout
             /\ ReachesCommitment(t)
  <2>1. ReachesCommitment(t)
    BY <1>1, <1>2, <1>3, GraphReaches
  <2>2. CASE t = root
    <3>1. OutsOf(Root) = CommitmentOut
      BY DEF OutsOf
    <3>2. OutputExists(received[t].prev)
      <4>1. received[t].prev.tx = Root /\ received[t].prev.vout = vout
        BY <1>3, <2>2 DEF Parent
      <4>2. Len(OutsOf(Root)) = 2 /\ vout < 2
        BY <3>1, TypedNodes
      <4> QED
        BY <4>1, <4>2 DEF OutputExists
    <3>3. Output(received[t].prev) = CommitmentOut[vout + 1]
      BY <1>3, <2>2, <3>1 DEF Output, Parent
    <3> QED
      BY <1>3, <2>1, <2>2, <3>2, <3>3
  <2>3. CASE t # root
    <3>1. Parent(t) \in Nodes /\ Parent(t) # Root
      BY <1>4, <2>3
    <3>2. OutsOf(Parent(t)) = received[Parent(t)].outs
      BY <3>1 DEF OutsOf
    <3> QED
      BY <1>4, <2>1, <2>3, <3>1, <3>2 DEF OutputExists, Output, Parent
  <2> QED
    BY <2>2, <2>3
<1>7. \A t, u \in Nodes: received[t].prev = received[u].prev => t = u
  <2> SUFFICES ASSUME NEW t \in Nodes, NEW u \in Nodes, received[t].prev = received[u].prev
               PROVE  t = u
    OBVIOUS
  <2>1. Parent(t) = Parent(u) /\ received[t].prev.vout = received[u].prev.vout
    BY DEF Parent
  <2> QED
    BY <1>3, <1>4, <2>1
<1>8. {t \in Nodes: Parent(t) = Root} = {root}
  BY <1>3, <1>4
<1>9. Cardinality({t \in Nodes: Parent(t) = Root}) = 1
  BY <1>8, FS_Singleton
<1>10. twice = {} /\ Nodes # {} /\ Cardinality(Nodes) \leq MaxBatchGraphNodes
  <2>1. Cardinality(twice) = 0
    BY <1>2, FS_EmptySet DEF CanonicalChunks
  <2> QED
    BY <1>2, <2>1 DEF CanonicalChunks
<1> QED
  BY <1>5, <1>6, <1>7, <1>9, <1>10 DEF HonestBranch, IsBranchOf

(***************************************************************************)
(* A branch that is honestly declared passes the checks.                   *)
(***************************************************************************)
LEMMA BranchEdgesAreSpends ==
  ASSUME ChunksAreTyped, HonestlyDeclared, NEW vout, IsBranchOf(vout)
  PROVE  DeclaredOutputsExist /\ EdgesAreSpends
<1>1. DeclaredOutputsExist
  BY DEF HonestlyDeclared, DeclaredOutputsExist
<1>2. ASSUME NEW t \in Nodes, NEW v \in DOMAIN received[t].children,
             received[t].children[v] \in Nodes
      PROVE  LET child == received[t].children[v] IN
             /\ \A u \in Nodes \ {t}: child \notin Children(u)
             /\ \A w \in DOMAIN received[t].children \ {v}: received[t].children[w] # child
             /\ received[child].prev = [tx |-> t, vout |-> v]
             /\ Total(child) = received[t].outs[v + 1].value
  <2> DEFINE child == received[t].children[v]
  <2>1. received[child].prev = [tx |-> t, vout |-> v]
    BY <1>2 DEF HonestlyDeclared
  <2>2. received[child].prev.tx = t /\ received[child].prev.vout = v
    BY <2>1
  <2>3. ASSUME NEW u \in Nodes, child \in Children(u)
        PROVE  u = t
    <3>1. PICK w \in DOMAIN received[u].children: received[u].children[w] = child
      BY <2>3 DEF Children
    <3>2. received[child].prev = [tx |-> u, vout |-> w]
      BY <1>2, <3>1 DEF HonestlyDeclared
    <3> QED
      BY <2>2, <3>2
  <2>4. ASSUME NEW w \in DOMAIN received[t].children, received[t].children[w] = child
        PROVE  w = v
    <3>1. received[child].prev = [tx |-> t, vout |-> w]
      BY <1>2, <2>4 DEF HonestlyDeclared
    <3> QED
      BY <2>2, <3>1
  <2>5. Total(child) = Output(received[child].prev).value
    BY <1>2 DEF IsBranchOf
  <2>6. Output(received[child].prev) = received[t].outs[v + 1]
    BY <1>2, <2>2, TypedNodes DEF Output, OutsOf
  <2> HIDE DEF child
  <2>7. child = received[t].children[v]
    BY DEF child
  <2> QED
    BY <2>1, <2>3, <2>4, <2>5, <2>6, <2>7
<1> QED
  BY <1>1, <1>2 DEF EdgesAreSpends

LEMMA BranchIsTraversed ==
  ASSUME ChunksAreTyped, HonestlyDeclared, NEW vout, IsBranchOf(vout),
         NEW root \in Nodes, \A t \in Nodes: Parent(t) = Root => t = root
  PROVE  Traversed(root)
<1> SUFFICES ASSUME NEW S \in SUBSET Nodes, root \in S,
                    \A t \in S: Children(t) \cap Nodes \subseteq S,
                    NEW t \in Nodes, t \notin S
             PROVE  FALSE
  BY DEF Traversed
<1> DEFINE rest == Nodes \ S
<1>1. ASSUME NEW u \in rest, Parent(u) \in Nodes
      PROVE  Parent(u) \in rest
  <2>1. u \in Children(Parent(u))
    BY <1>1 DEF HonestlyDeclared, Children
  <2> QED
    BY <1>1, <2>1
<1>2. Ancestry(t) \subseteq rest
  <2>1. Upwards(rest) /\ rest \in SUBSET Nodes /\ t \in rest
    BY <1>1 DEF Upwards
  <2> HIDE DEF rest
  <2> QED
    BY <2>1, AncestryStaysIn
<1>3. PICK a \in Ancestry(t): Parent(a) = Root
  BY DEF IsBranchOf, ReachesCommitment
<1> QED
  BY <1>2, <1>3

LEMMA BranchPassesChecks ==
  ASSUME ChunksAreTyped, NEW vout \in {0, 1}, HonestBranch(vout)
  PROVE  ValidateGraph(vout)
<1> USE TypedNodes
<1>1. HonestlyDeclared /\ IsBranchOf(vout) /\ twice = {} /\ Nodes # {}
      /\ Cardinality(Nodes) \leq MaxBatchGraphNodes
  BY DEF HonestBranch
<1>2. DeclaredOutputsExist /\ EdgesAreSpends
  BY <1>1, BranchEdgesAreSpends
<1>3. PICK root: {t \in Nodes: Parent(t) = Root} = {root}
  <2> DEFINE S == {t \in Nodes: Parent(t) = Root}
  <2>1. IsFiniteSet(S)
    BY FS_Subset
  <2>2. Cardinality(S) = 1
    BY DEF HonestBranch
  <2> HIDE DEF S
  <2>3. \E x: S = {x}
    BY <2>1, <2>2, OneMember
  <2> QED
    BY <2>3 DEF S
<1>4. root \in Nodes /\ Parent(root) = Root /\ \A t \in Nodes: Parent(t) = Root => t = root
  BY <1>3
<1>5. CanonicalChunks
  <2>1. Cardinality(twice) = 0
    BY <1>1, FS_EmptySet
  <2>2. ASSUME NEW t \in Nodes
        PROVE  Cardinality(DOMAIN received[t].children) \leq Len(received[t].outs)
    <3> DEFINE D == DOMAIN received[t].children
               n == Len(received[t].outs)
    <3>1. D \subseteq 0..(n - 1) /\ n \in Nat
      BY <1>2 DEF DeclaredOutputsExist
    <3> HIDE DEF D, n
    <3>2. IsFiniteSet(0..(n - 1)) /\ Cardinality(0..(n - 1)) = n
      <4>1. 0 \in Int /\ n - 1 \in Int
        BY <3>1
      <4>2. /\ IsFiniteSet(0..(n - 1))
            /\ Cardinality(0..(n - 1)) = IF 0 > n - 1 THEN 0 ELSE (n - 1) - 0 + 1
        BY ONLY <4>1, FS_Interval
      <4> QED
        BY ONLY <3>1, <4>2
    <3>3. Cardinality(D) \leq n
      <4> DEFINE R == 0..(n - 1)
      <4>1. IsFiniteSet(R) /\ Cardinality(R) = n /\ D \in SUBSET R
        BY <3>1, <3>2
      <4> HIDE DEF R
      <4> QED
        BY ONLY <4>1, FS_Subset
    <3> QED
      BY <3>3 DEF D, n
  <2>3. \A t \in Nodes: received[t].canonical
    BY <1>1 DEF HonestlyDeclared
  <2>4. Cardinality(Nodes) + Cardinality(twice) \leq MaxBatchGraphNodes
    BY <1>1, <2>1
  <2> QED
    BY <1>1, <2>2, <2>3, <2>4 DEF CanonicalChunks
<1>6. Roots = {root}
  <2>1. ASSUME NEW u \in Nodes, root \in Children(u)
        PROVE  FALSE
    <3>1. PICK v \in DOMAIN received[u].children: received[u].children[v] = root
      BY <2>1 DEF Children
    <3>2. received[root].prev = [tx |-> u, vout |-> v]
      BY <1>1, <1>4, <3>1 DEF HonestlyDeclared
    <3> QED
      BY <1>4, <3>2 DEF Parent
  <2>2. ASSUME NEW t \in Nodes, t # root
        PROVE  \E u \in Nodes: t \in Children(u)
    <3>1. Parent(t) \in Nodes
      BY <1>1, <1>4, <2>2 DEF IsBranchOf, OutputExists, Parent
    <3>2. t \in Children(Parent(t))
      BY <1>1, <3>1 DEF HonestlyDeclared, Children
    <3> QED
      BY <3>1, <3>2
  <2> QED
    BY <1>4, <2>1, <2>2 DEF Roots
<1>7. Traversed(root)
  BY <1>1, <1>4, BranchIsTraversed
<1>8. RootSpends(root, vout)
  <2>1. received[root].prev.vout = vout
    BY <1>1, <1>4 DEF IsBranchOf
  <2>2. received[root].prev = [tx |-> Root, vout |-> vout]
    BY <1>4, <2>1, PrevIs
  <2>3. Output(received[root].prev) = CommitmentOut[vout + 1]
    BY <2>2 DEF Output, OutsOf
  <2>4. Total(root) = Output(received[root].prev).value
    BY <1>1, <1>4 DEF IsBranchOf
  <2> QED
    BY <2>2, <2>3, <2>4 DEF RootSpends
<1> QED
  BY <1>2, <1>4, <1>5, <1>6, <1>7, <1>8 DEF ValidateGraph

(***************************************************************************)
(* Our leaf.                                                               *)
(***************************************************************************)
LEMMA AcceptedLeaf ==
  ASSUME ChunksAreTyped, ValidateVtxoTree
  PROVE  \E leaf \in Nodes:
           /\ received[leaf].exact
           /\ \A t \in Nodes \ {leaf}: received[t].exact => DOMAIN received[t].children # {}
           /\ ReachesCommitment(leaf)
           /\ \E operator \in received[leaf].cosigners \ BatchCosigners:
                \A t \in Ancestry(leaf): {Own, operator} \subseteq Output(received[t].prev).keys
<1>1. HonestBranch(0)
  BY CheckedGraphIsBranch DEF ValidateVtxoTree
<1>2. PICK leaf: RenewalLeaves = {leaf}
  <2>1. IsFiniteSet(RenewalLeaves)
    BY TypedNodes, FS_Subset DEF RenewalLeaves
  <2> QED
    BY <2>1, OneMember DEF ValidateVtxoTree
<1>3. /\ leaf \in Nodes /\ received[leaf].exact
      /\ \A t \in Nodes \ {leaf}: received[t].exact => DOMAIN received[t].children # {}
  BY <1>2 DEF RenewalLeaves
<1>4. PICK operator: Extras(leaf) = {operator}
  <2>1. Extras(leaf) \subseteq Key
    BY <1>3 DEF ChunksAreTyped, IsChunk, Extras
  <2>2. IsFiniteSet(Extras(leaf))
    BY <2>1, FS_Subset, BatchTreeAssumption
  <2> QED
    BY <1>3, <2>2, OneMember DEF ValidateVtxoTree, CosignersBind
<1>5. ASSUME NEW t \in Nodes
      PROVE  {Own, operator} \subseteq Output(received[t].prev).keys
  <2>1. Extras(t) = {operator}
    BY <1>3, <1>4 DEF ValidateVtxoTree, CosignersBind
  <2>2. operator \in received[t].cosigners /\ Own \in received[t].cosigners
    BY <2>1 DEF Extras, ValidateVtxoTree, CosignersBind
  <2> QED
    BY <2>2 DEF ValidateVtxoTree, LockedToCosigners
<1>6. operator \in received[leaf].cosigners \ BatchCosigners
  BY <1>4 DEF Extras
<1>7. ReachesCommitment(leaf)
  BY <1>1, <1>3 DEF HonestBranch, IsBranchOf
<1>8. Ancestry(leaf) \subseteq Nodes
  BY DEF Ancestry
<1> QED
  BY <1>3, <1>5, <1>6, <1>7, <1>8

(***************************************************************************)
(* No value is lost.  What all the nodes put out is what they take in; of  *)
(* what they put out a part is taken in again, and the rest is unspent.    *)
(***************************************************************************)
AllOutpoints == UNION {OutpointsOf(t): t \in Nodes}
Values == [op \in AllOutpoints |-> Output(op).value]

LEMMA OutpointsAreTyped ==
  ASSUME ChunksAreTyped, NEW t \in Nodes, NEW op \in OutpointsOf(t)
  PROVE  /\ op \in AllOutpoints /\ op.tx = t /\ op.vout \in 0..(Len(received[t].outs) - 1)
         /\ op = [tx |-> t, vout |-> op.vout]
         /\ Output(op) = received[t].outs[op.vout + 1] /\ Output(op).value \in Nat
         /\ Values[op] = Output(op).value
<1>1. PICK i \in DOMAIN received[t].outs: op = [tx |-> t, vout |-> i - 1]
  BY DEF OutpointsOf
<1>2. i \in 1..Len(received[t].outs) /\ received[t].outs[i] \in Outputs
  BY TypedNodes
<1>3. op \in AllOutpoints
  BY DEF AllOutpoints
<1>4. op.tx = t /\ op.vout = i - 1
  BY <1>1
<1>5. Output(op) = received[t].outs[op.vout + 1]
  BY <1>4, TypedNodes DEF Output, OutsOf
<1>6. op.vout + 1 = i /\ op.vout \in 0..(Len(received[t].outs) - 1)
  BY <1>2, <1>4, TypedNodes
<1>7. Output(op).value \in Nat
  BY <1>2, <1>5, <1>6 DEF Outputs
<1>8. Values[op] = Output(op).value
  BY <1>3 DEF Values
<1> QED
  BY <1>1, <1>3, <1>4, <1>5, <1>6, <1>7, <1>8

\* What one transaction puts out.
LEMMA TotalOfOutpoints ==
  ASSUME ChunksAreTyped, NEW t \in Nodes
  PROVE  /\ IsFiniteSet(OutpointsOf(t))
         /\ Total(t) = SumFunctionOnSet(Values, OutpointsOf(t))
<1> DEFINE A == DOMAIN received[t].outs
           h == [i \in A |-> [tx |-> t, vout |-> i - 1]]
           v == [i \in A |-> received[t].outs[i].value]
<1>1. A = 1..Len(received[t].outs) /\ Len(received[t].outs) \in Nat
  BY TypedNodes
<1>2. IsFiniteSet(A)
  BY <1>1, FS_Interval
<1>3. OutpointsOf(t) = {h[i]: i \in A}
  BY DEF OutpointsOf
<1>4. ASSUME NEW i \in A, NEW j \in A, h[i] = h[j]
      PROVE  i = j
  <2>1. h[i].vout = i - 1 /\ h[j].vout = j - 1
    OBVIOUS
  <2>2. i \in Nat /\ j \in Nat
    BY <1>1
  <2> QED
    BY <1>4, <2>1, <2>2
<1>5. ASSUME NEW i \in A
      PROVE  v[i] \in Int /\ v[i] = Values[h[i]]
  <2>1. h[i] \in OutpointsOf(t)
    BY <1>3
  <2>2. h[i].vout = i - 1 /\ i \in Nat
    BY <1>1
  <2>3. Values[h[i]] = received[t].outs[h[i].vout + 1].value /\ Values[h[i]] \in Nat
    BY <2>1, OutpointsAreTyped
  <2>4. h[i].vout + 1 = i
    BY <2>2
  <2> QED
    BY <2>3, <2>4
<1>6. Total(t) = SumFunctionOnSet(v, A)
  BY DEF Total, SumOf
<1> HIDE DEF A, h, v
<1>7. SumFunctionOnSet(v, A) = SumFunctionOnSet(Values, OutpointsOf(t))
  BY <1>2, <1>3, <1>4, <1>5, SumReindex
<1>8. IsFiniteSet(OutpointsOf(t))
  BY <1>2, <1>3, <1>4, OneToOneImage
<1> QED
  BY <1>6, <1>7, <1>8

LEMMA BranchConservesValue ==
  ASSUME ChunksAreTyped, NEW vout \in {0, 1}, HonestBranch(vout)
  PROVE  Unspent = CommitmentOut[vout + 1].value
<1> DEFINE F == [t \in Nodes |-> OutpointsOf(t)]
           s == [t \in Nodes |-> Total(t)]
           spent == {op \in AllOutpoints: \E t \in Nodes: received[t].prev = op}
<1>1. /\ \A t \in Nodes: IsFiniteSet(F[t]) /\ s[t] = SumFunctionOnSet(Values, F[t])
      /\ \A t, u \in Nodes: \A op \in F[t]: op \in F[u] => t = u
      /\ \A t \in Nodes: \A op \in F[t]: Values[op] \in Int
      /\ AllOutpoints = UNION {F[t]: t \in Nodes}
  <2>1. \A t \in Nodes: IsFiniteSet(F[t]) /\ s[t] = SumFunctionOnSet(Values, F[t])
    BY TotalOfOutpoints
  <2>2. ASSUME NEW t \in Nodes, NEW u \in Nodes, NEW op \in F[t], op \in F[u]
        PROVE  t = u
    BY <2>2, OutpointsAreTyped
  <2>3. \A t \in Nodes: \A op \in F[t]: Values[op] \in Int
    BY OutpointsAreTyped
  <2>4. AllOutpoints = UNION {F[t]: t \in Nodes}
    BY DEF AllOutpoints
  <2> QED
    BY <2>1, <2>2, <2>3, <2>4
<1> HIDE DEF F, s
<1>2. /\ IsFiniteSet(AllOutpoints)
      /\ SumFunctionOnSet(s, Nodes) = SumFunctionOnSet(Values, AllOutpoints)
  <2>1. /\ IsFiniteSet(Nodes)
        /\ \A t \in Nodes: IsFiniteSet(F[t])
        /\ \A t, u \in Nodes: \A op \in F[t]: op \in F[u] => t = u
        /\ \A t \in Nodes: \A op \in F[t]: Values[op] \in Int
        /\ \A t \in Nodes: s[t] = SumFunctionOnSet(Values, F[t])
        /\ AllOutpoints = UNION {F[t]: t \in Nodes}
    BY <1>1, TypedNodes
  <2> QED
    BY ONLY <2>1, SumOfParts
<1>3. /\ spent \cup Frontier = AllOutpoints /\ spent \cap Frontier = {}
      /\ IsFiniteSet(spent) /\ IsFiniteSet(Frontier)
  <2>1. spent \cup Frontier = AllOutpoints /\ spent \cap Frontier = {}
    BY DEF Frontier, AllOutpoints
  <2>2. spent \subseteq AllOutpoints /\ Frontier \subseteq AllOutpoints
    BY <2>1
  <2> QED
    BY <1>2, <2>1, <2>2, FS_Subset
<1>4. \A op \in AllOutpoints: Values[op] \in Int
  BY OutpointsAreTyped DEF AllOutpoints
<1> HIDE DEF spent
<1>5. SumFunctionOnSet(Values, AllOutpoints)
        = SumFunctionOnSet(Values, spent) + SumFunctionOnSet(Values, Frontier)
  <2>1. SumFunctionOnSet(Values, spent \cup Frontier)
          = SumFunctionOnSet(Values, spent) + SumFunctionOnSet(Values, Frontier)
    BY <1>3, <1>4, SumUnion
  <2> QED
    BY <1>3, <2>1, Zenon
<1>6. SumFunctionOnSet(Values, Frontier) = Unspent
  <2> DEFINE u == [op \in Frontier |-> Output(op).value]
  <2>1. \A op \in Frontier: Values[op] = u[op]
    BY <1>3 DEF Values
  <2>2. Unspent = SumFunctionOnSet(u, Frontier)
    BY DEF Unspent
  <2> HIDE DEF u
  <2> QED
    BY <1>3, <2>1, <2>2, SumCongruence
<1>7. IsBranchOf(vout) /\ HonestlyDeclared
  BY DEF HonestBranch
<1>8. PICK root \in Nodes: \A t \in Nodes: Parent(t) = Root <=> t = root
  <2> DEFINE S == {t \in Nodes: Parent(t) = Root}
  <2>1. IsFiniteSet(S) /\ Cardinality(S) = 1
    BY TypedNodes, FS_Subset DEF HonestBranch
  <2> HIDE DEF S
  <2>2. PICK x: S = {x}
    BY <2>1, OneMember
  <2> QED
    BY <2>2 DEF S
<1>9. s[root] = CommitmentOut[vout + 1].value
  <2>1. received[root].prev.tx = Root /\ received[root].prev.vout = vout
    BY <1>7, <1>8 DEF IsBranchOf, Parent
  <2>2. Total(root) = Output(received[root].prev).value
    BY <1>7 DEF IsBranchOf
  <2>3. Output(received[root].prev) = CommitmentOut[vout + 1]
    BY <2>1 DEF Output, OutsOf
  <2> QED
    BY <2>2, <2>3 DEF s
<1> DEFINE others == Nodes \ {root}
           prev == [t \in others |-> received[t].prev]
<1>10. ASSUME NEW t \in others
       PROVE  /\ prev[t] \in OutpointsOf(Parent(t)) /\ prev[t] \in AllOutpoints
              /\ s[t] \in Int /\ s[t] = Values[prev[t]]
  <2>1. Parent(t) \in Nodes /\ received[t].prev.vout < Len(OutsOf(Parent(t)))
    BY <1>7, <1>8 DEF IsBranchOf, OutputExists, Parent
  <2>2. OutsOf(Parent(t)) = received[Parent(t)].outs
    BY <2>1, TypedNodes DEF OutsOf
  <2>3. received[t].prev = [tx |-> Parent(t), vout |-> received[t].prev.vout]
    BY PrevIs
  <2> DEFINE i == received[t].prev.vout + 1
  <2>4. i \in DOMAIN received[Parent(t)].outs /\ i - 1 = received[t].prev.vout
    BY <2>1, <2>2, TypedNodes
  <2>5. received[t].prev \in OutpointsOf(Parent(t))
    BY <2>3, <2>4 DEF OutpointsOf
  <2>6. received[t].prev \in AllOutpoints
    BY <2>1, <2>5 DEF AllOutpoints
  <2>7. Values[received[t].prev] = Output(received[t].prev).value /\ Output(received[t].prev).value \in Nat
    BY <2>1, <2>5, OutpointsAreTyped
  <2>8. Total(t) = Output(received[t].prev).value
    BY <1>7 DEF IsBranchOf
  <2> QED
    BY <2>5, <2>6, <2>7, <2>8 DEF s
<1>11. spent = {prev[t]: t \in others}
  <2>1. ASSUME NEW op \in spent
        PROVE  \E t \in others: op = prev[t]
    <3>1. PICK t \in Nodes: received[t].prev = op
      BY DEF spent
    <3>2. op \in AllOutpoints
      BY DEF spent
    <3>3. op.tx \in Nodes
      BY <3>2, OutpointsAreTyped DEF AllOutpoints
    <3>4. t # root
      BY <1>8, <3>1, <3>3, TypedNodes DEF Parent
    <3> QED
      BY <3>1, <3>4
  <2>2. ASSUME NEW t \in others
        PROVE  prev[t] \in spent
    BY <1>10 DEF spent
  <2> QED
    BY <2>1, <2>2
<1>12. \A t, u \in others: prev[t] = prev[u] => t = u
  BY <1>7 DEF IsBranchOf
<1>13. IsFiniteSet(others) /\ others \subseteq Nodes
  BY TypedNodes, FS_Subset
<1> HIDE DEF others, prev
<1>14. SumFunctionOnSet(s, others) = SumFunctionOnSet(Values, spent)
  BY <1>10, <1>11, <1>12, <1>13, SumReindex
<1>15. \A t \in Nodes: s[t] \in Int
  <2>1. s[root] \in Int
    <3>1. CommitmentOut[vout + 1] \in Outputs
      <4>1. CommitmentOut \in Seq(Outputs) /\ Len(CommitmentOut) = 2
        BY TypedNodes
      <4>2. vout + 1 \in 1..2
        OBVIOUS
      <4> QED
        BY ONLY <4>1, <4>2
    <3> QED
      BY <1>9, <3>1 DEF Outputs
  <2> QED
    BY <1>10, <2>1 DEF others
<1>16. SumFunctionOnSet(s, Nodes) = s[root] + SumFunctionOnSet(s, others)
  BY <1>15, TypedNodes, SumRemove DEF others
<1>17. SumFunctionOnSet(Values, spent) \in Int /\ SumFunctionOnSet(Values, Frontier) \in Int
  <2>1. \A op \in spent \cup Frontier: Values[op] \in Int
    BY <1>3, <1>4
  <2> QED
    BY <1>3, <2>1, SumType
<1>18. s[root] \in Int
  BY <1>15
<1>19. s[root] + SumFunctionOnSet(Values, spent) = SumFunctionOnSet(Values, spent) + Unspent
  BY <1>2, <1>5, <1>6, <1>14, <1>16
<1>20. s[root] = Unspent
  BY <1>6, <1>17, <1>18, <1>19
<1> QED
  BY <1>9, <1>20

(***************************************************************************)
(* A connector for each input.                                             *)
(***************************************************************************)
LEMMA AcceptedConnectors ==
  ASSUME ChunksAreTyped, ValidateConnectorTree
  PROVE  \E S \in SUBSET Frontier:
           /\ Cardinality(S) = Announced[batch].inputs
           /\ \A op \in S: /\ Output(op).value = Dust /\ Len(received[op.tx].outs) = 1
                           /\ ReachesCommitment(op.tx)
<1> DEFINE h == [t \in ConnectorLeaves |-> [tx |-> t, vout |-> 0]]
           S == {h[t]: t \in ConnectorLeaves}
<1>1. HonestBranch(1)
  BY CheckedGraphIsBranch DEF ValidateConnectorTree
<1>2. ASSUME NEW t \in ConnectorLeaves
      PROVE  /\ h[t] \in Frontier
             /\ Output(h[t]).value = Dust /\ Len(received[h[t].tx].outs) = 1
             /\ ReachesCommitment(h[t].tx)
  <2>1. /\ t \in Nodes /\ DOMAIN received[t].children = {}
        /\ Len(received[t].outs) = 1 /\ received[t].outs[1].value = Dust
    BY DEF ConnectorLeaves, ValidateConnectorTree, ConnectorLeavesAreDust
  <2>2. h[t] = [tx |-> t, vout |-> 0] /\ h[t].tx = t /\ h[t].vout = 0
    OBVIOUS
  <2>3. h[t] \in OutpointsOf(t)
    <3>1. 1 \in DOMAIN received[t].outs /\ 1 - 1 = 0
      BY <2>1, TypedNodes
    <3> QED
      BY <2>2, <3>1 DEF OutpointsOf
  <2>4. ASSUME NEW u \in Nodes, received[u].prev = h[t]
        PROVE  FALSE
    <3>1. Parent(u) = t
      BY <2>2, <2>4 DEF Parent
    <3> QED
      BY <1>1, <2>1, <3>1 DEF HonestBranch, HonestlyDeclared
  <2>5. h[t] \in Frontier
    BY <2>1, <2>3, <2>4 DEF Frontier
  <2>6. Output(h[t]).value = Dust
    <3>1. Output(h[t]) = received[t].outs[h[t].vout + 1]
      BY <2>1, <2>3, OutpointsAreTyped
    <3>2. h[t].vout + 1 = 1
      BY <2>2
    <3> QED
      BY <2>1, <3>1, <3>2
  <2>7. ReachesCommitment(t)
    BY <1>1, <2>1 DEF HonestBranch, IsBranchOf
  <2> QED
    BY <2>1, <2>2, <2>5, <2>6, <2>7
<1>3. Cardinality(S) = Announced[batch].inputs
  <2>1. IsFiniteSet(ConnectorLeaves)
    BY TypedNodes, FS_Subset DEF ConnectorLeaves
  <2>2. \A t, u \in ConnectorLeaves: h[t] = h[u] => t = u
    <3>1. \A t \in ConnectorLeaves: h[t].tx = t
      OBVIOUS
    <3> QED
      BY <3>1
  <2>3. Cardinality(S) = Cardinality(ConnectorLeaves)
    <3>1. S = {h[t]: t \in ConnectorLeaves}
      OBVIOUS
    <3> HIDE DEF S, h
    <3> QED
      BY <2>1, <2>2, <3>1, OneToOneImage
  <2> QED
    BY <2>3 DEF ValidateConnectorTree
<1>4. S \in SUBSET Frontier
  BY <1>2
<1>5. \A op \in S: /\ Output(op).value = Dust /\ Len(received[op.tx].outs) = 1
                  /\ ReachesCommitment(op.tx)
  BY <1>2
<1> HIDE DEF S
<1> QED
  BY <1>3, <1>4, <1>5

(***************************************************************************)
(* The verdict is about the chunks that were received when it was given:   *)
(* nothing is received after it.                                           *)
(***************************************************************************)
VerdictStands ==
  verdict.vtxo # "none" =>
    /\ verdict.vtxo = "accepted" => ValidateVtxoTree
    /\ verdict.connector = "accepted" => ValidateConnectorTree

TreeInv ==
  /\ TreeTypeOK
  /\ VerdictStands
  /\ verdict.vtxo = "none" <=> verdict.connector = "none"

LEMMA TreesAreTyped == ASSUME TreeTypeOK PROVE ChunksAreTyped
BY BatchTreeAssumption DEF TreeTypeOK, ChunksAreTyped

LEMMA TreeInvIsSound == TreeInv => AcceptedTreesAreSound
<1> SUFFICES ASSUME TreeInv PROVE AcceptedTreesAreSound
  OBVIOUS
<1>1. ChunksAreTyped /\ TreeTypeOK
  BY TreesAreTyped DEF TreeInv
<1>2. verdict.vtxo = "accepted" => ValidateVtxoTree
  BY DEF TreeInv, VerdictStands
<1>3. verdict.connector = "accepted" => ValidateConnectorTree
  BY DEF TreeInv, VerdictStands
<1>4. GraphIsABranch
  BY <1>1, CheckedGraphIsBranch, BranchPassesChecks DEF GraphIsABranch
<1>5. OurLeafIsReachable
  BY <1>1, <1>2, AcceptedLeaf DEF OurLeafIsReachable
<1>6. ConnectorsMatchInputs
  BY <1>1, <1>3, AcceptedConnectors DEF ConnectorsMatchInputs
<1>7. ValueIsConserved
  <2>1. ASSUME NEW vout \in {0, 1}, ValidateGraph(vout)
        PROVE  Unspent = CommitmentOut[vout + 1].value
    BY <1>1, <2>1, CheckedGraphIsBranch, BranchConservesValue
  <2>2. verdict.vtxo = "accepted" => Unspent = CommitmentOut[1].value
    <3>1. 0 + 1 = 1
      OBVIOUS
    <3> QED
      BY <1>2, <2>1, <3>1 DEF ValidateVtxoTree
  <2>3. verdict.connector = "accepted" => Unspent = CommitmentOut[2].value
    <3>1. 1 + 1 = 2
      OBVIOUS
    <3> QED
      BY <1>3, <2>1, <3>1 DEF ValidateConnectorTree
  <2> QED
    BY <2>2, <2>3 DEF ValueIsConserved
<1> QED
  BY <1>1, <1>4, <1>5, <1>6, <1>7 DEF AcceptedTreesAreSound

LEMMA TreeStarts == TreeInit => TreeInv
BY DEF TreeInit, TreeInv, TreeTypeOK, VerdictStands, Nodes

LEMMA TreeStep == TreeInv /\ [TreeNext]_treeVars => TreeInv'
<1> SUFFICES ASSUME TreeInv, [TreeNext]_treeVars PROVE TreeInv'
  OBVIOUS
<1>1. ASSUME NEW t \in TxId, NEW chunk \in Announced[batch].sent[t], Receive(t, chunk)
      PROVE  TreeInv'
  <2>1. /\ DOMAIN received' = Nodes \cup {t} /\ received'[t] = chunk
        /\ \A u \in Nodes: received'[u] = received[u]
        /\ UNCHANGED <<batch, twice, verdict>> /\ verdict.vtxo = "none"
    BY <1>1 DEF Receive
  <2>2. TreeTypeOK'
    BY <2>1 DEF TreeInv, TreeTypeOK, Nodes
  <2> QED
    BY <2>1, <2>2 DEF TreeInv, VerdictStands
<1>2. ASSUME NEW t \in TxId, ReceiveAgain(t)
      PROVE  TreeInv'
  BY <1>2 DEF ReceiveAgain, TreeInv, TreeTypeOK, VerdictStands, Nodes
<1>3. CASE Judge
  <2>1. UNCHANGED <<batch, received, twice>>
    BY <1>3 DEF Judge
  <2>2. ValidateVtxoTree' <=> ValidateVtxoTree
    BY <2>1 DEF ValidateVtxoTree, ValidateGraph, CanonicalChunks, DeclaredOutputsExist,
                EdgesAreSpends, Roots, Traversed, RootSpends, CosignersBind, LockedToCosigners,
                RenewalLeaves, Extras, Nodes, Children, Total, CommitmentOut, Own,
                BatchCosigners, Output, OutputExists, OutsOf
  <2>3. ValidateConnectorTree' <=> ValidateConnectorTree
    BY <2>1 DEF ValidateConnectorTree, ValidateGraph, CanonicalChunks, DeclaredOutputsExist,
                EdgesAreSpends, Roots, Traversed, RootSpends, ConnectorLeaves,
                ConnectorLeavesAreDust, Nodes, Children, Total, CommitmentOut
  <2>4. TreeTypeOK'
    BY <1>3, <2>1 DEF Judge, TreeInv, TreeTypeOK, Nodes
  <2>5. VerdictStands' /\ verdict'.vtxo # "none" /\ verdict'.connector # "none"
    BY <1>3, <2>2, <2>3 DEF Judge, VerdictStands
  <2> QED
    BY <2>4, <2>5 DEF TreeInv
<1>4. CASE UNCHANGED treeVars
  <2>1. UNCHANGED <<batch, received, twice, verdict>>
    BY <1>4 DEF treeVars
  <2>2. ValidateVtxoTree' <=> ValidateVtxoTree
    BY <2>1 DEF ValidateVtxoTree, ValidateGraph, CanonicalChunks, DeclaredOutputsExist,
                EdgesAreSpends, Roots, Traversed, RootSpends, CosignersBind, LockedToCosigners,
                RenewalLeaves, Extras, Nodes, Children, Total, CommitmentOut, Own,
                BatchCosigners, Output, OutputExists, OutsOf
  <2>3. ValidateConnectorTree' <=> ValidateConnectorTree
    BY <2>1 DEF ValidateConnectorTree, ValidateGraph, CanonicalChunks, DeclaredOutputsExist,
                EdgesAreSpends, Roots, Traversed, RootSpends, ConnectorLeaves,
                ConnectorLeavesAreDust, Nodes, Children, Total, CommitmentOut
  <2> QED
    BY <2>1, <2>2, <2>3 DEF TreeInv, TreeTypeOK, VerdictStands, Nodes
<1> QED
  BY <1>1, <1>2, <1>3, <1>4 DEF TreeNext

\* The graph checks, which walk the declared children, accept exactly the
\* branches of the commitment that an honest arkd would send, as the ledger reads
\* them (src/batch.rs:993).
THEOREM ChecksAcceptBranches ==
  ASSUME ChunksAreTyped, NEW vout \in {0, 1}
  PROVE  ValidateGraph(vout) <=> HonestBranch(vout)
BY CheckedGraphIsBranch, BranchPassesChecks

\* Whatever arkd declares and sends, a tree that passes leads by what its
\* transactions spend from the commitment to exactly our renewal, no value is
\* lost on the way, each output on it needs our key, and each input has a
\* connector of its own (src/batch.rs:993).
THEOREM TreesWeSignAreSound == TreeSpec => []AcceptedTreesAreSound
<1> QED
  BY TreeInvIsSound, TreeStarts, TreeStep, PTL DEF TreeSpec
=============================================================================
