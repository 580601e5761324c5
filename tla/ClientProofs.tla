---------------------------- MODULE ClientProofs ----------------------------
(***************************************************************************)
(* What the browser journals is not forgotten, for any deposits, any       *)
(* length of the chains and any number of attempts: an activation          *)
(* (Activation), and a swing (ChopJournal).  And the trees it shows are    *)
(* true, however many share a renewal batch (TreeSync).                    *)
(***************************************************************************)
EXTENDS Activation, ChopJournal, TreeSync, SequenceTheorems, TLAPS

(***************************************************************************)
(* Activation: what arkd was asked to turn into a player can be found      *)
(* again from the stored profile.                                          *)
(***************************************************************************)
ProfileOK(p) == p.journal # None => p.journal = p.asset

(* Requests are made for deposits that arrived, to finalize what arkd has. *)
LedgerInv ==
  /\ \A d \in Deposit: Submit(d) \in inflight => d \in arrived
  /\ \A d \in Deposit: Finalize(d) \in inflight => d \in accepted \cup final

(* A submission is only made for the journal that is on disk, so that the  *)
(* page and the disk agree while one is tried.                             *)
StageInv ==
  /\ pc \in Stages => mem.journal # None
  /\ pc \in Stages \ {"saving"} => disk = mem
  /\ pc = "finalizing" => mem.journal \in accepted \cup final
  /\ pc = "clearing" => mem.journal \in shown

Remembers(p) == \A d \in Submitted: p.asset = d /\ (p.journal = d \/ d \in shown)

ActivationInv ==
  /\ TypeOK
  /\ LedgerInv
  /\ ProfileOK(mem) /\ ProfileOK(disk)
  /\ StageInv
  /\ NothingIsForgotten
  /\ pc # "closed" => Remembers(mem)

LEMMA ActivationStarts == Init => ActivationInv
BY ActivationAssumption
   DEF Init, ActivationInv, TypeOK, LedgerInv, ProfileOK, StageInv, NothingIsForgotten, Remembers,
       Submitted, Profile, NoProfile, Stages, Submit, Finalize

LEMMA ActivationStep == ActivationInv /\ [Next]_vars => ActivationInv'
<1> SUFFICES ASSUME ActivationInv, [Next]_vars PROVE ActivationInv'
  OBVIOUS
<1> USE ActivationAssumption DEF ActivationInv, TypeOK, LedgerInv, ProfileOK, StageInv,
        NothingIsForgotten, Remembers, Submitted, Profile, Stages, Goto
<1>1. CASE Open
  BY <1>1 DEF Open, external
<1>2. CASE Close
  BY <1>2 DEF Close, external, NoProfile
<1>3. CASE PersistProfile
  BY <1>3 DEF PersistProfile, external
<1>4. ASSUME NEW d \in Deposit, Choose(d) PROVE ActivationInv'
  BY <1>4 DEF Choose, external
<1>5. CASE Resume
  BY <1>5 DEF Resume, external
<1>6. CASE GiveUp
  BY <1>6 DEF GiveUp, external
<1>7. CASE Save
  BY <1>7 DEF Save, external
<1>8. CASE Look
  BY <1>8 DEF Look, external
<1>9. CASE Ask
  BY <1>9 DEF Ask, external
<1>10. CASE Check
  <2>1. CASE mem.journal \in Available
    <3>1. mem.journal \in Deposit /\ mem.journal \in arrived /\ disk = mem
      BY <1>10, <2>1 DEF Check, Available
    <3>2. /\ inflight' = inflight \cup {Submit(mem.journal)} /\ pc' = "submitting"
          /\ UNCHANGED <<mem, disk, tries, arrived, lost, accepted, final, shown, spent>>
      BY <1>10, <2>1 DEF Check
    <3>3. pc = "checking"
      BY <1>10 DEF Check
    <3> QED
      BY <3>1, <3>2, <3>3 DEF Submit, Finalize, Request
  <2>2. CASE mem.journal \notin Available
    BY <1>10, <2>2 DEF Check, Submit, Finalize, Request
  <2> QED
    BY <2>1, <2>2
<1>11. CASE AttemptFinalize
  BY <1>11 DEF AttemptFinalize, Submit, Finalize, Request
<1>12. CASE Wait
  BY <1>12 DEF Wait, external
<1>13. CASE Clear
  BY <1>13 DEF Clear, external
<1>14. ASSUME NEW d \in Deposit, Arrive(d) \/ Lose(d) \/ Index(d) \/ IndexSpend(d)
       PROVE  ActivationInv'
  BY <1>14 DEF Arrive, Lose, Index, IndexSpend
<1>15. ASSUME NEW d \in Deposit, NEW answered \in BOOLEAN, LandSubmit(d, answered)
       PROVE  ActivationInv'
  BY <1>15 DEF LandSubmit, Submit, Finalize, Request
<1>16. ASSUME NEW d \in Deposit, NEW answered \in BOOLEAN, LandFinalize(d, answered)
       PROVE  ActivationInv'
  BY <1>16 DEF LandFinalize, Submit, Finalize, Request
<1>17. ASSUME NEW r \in inflight, DropRequest(r) PROVE ActivationInv'
  BY <1>17 DEF DropRequest
<1>18. CASE UNCHANGED vars
  BY <1>18 DEF vars
<1> QED
  BY <1>1, <1>2, <1>3, <1>4, <1>5, <1>6, <1>7, <1>8, <1>9, <1>10, <1>11, <1>12, <1>13, <1>14,
     <1>15, <1>16, <1>17, <1>18 DEF Next, Page, Environment

\* Nothing that arkd was asked for is forgotten: the profile names it, and its
\* journal stays until the player is shown (src/web_app.rs:1669).
THEOREM ActivationsAreRemembered == Spec => []ActivationsAreSound
<1>1. ActivationInv => ActivationsAreSound
  BY DEF ActivationInv, ActivationsAreSound
<1> QED
  BY <1>1, ActivationStarts, ActivationStep, PTL DEF Spec

-----------------------------------------------------------------------------
(***************************************************************************)
(* ChopJournal: a swing stays in the journal until it is shown or dead.    *)
(***************************************************************************)
Working == {"submitting", "settling", "applying", "outputs", "inputs", "resubmitting", "retrying"}

(* The page and the storage hold the same swing, what is applied is        *)
(* settled, and a submission that arkd refuses has no twin under way that  *)
(* could still be accepted.                                                *)
PageInv ==
  /\ pending = IF stage = "closed" THEN NoTx ELSE journal
  /\ stage \in Working => pending # NoTx
  /\ stage \in {"outputs", "inputs"} => polls < ResumeAttempts
  /\ stage = "applying" => Settled(pending)
  /\ stage = "spending" => mode \in Kinds
  /\ stage = "submitting" =>
       \A r \in requests: r.tx = pending /\ r.kind = "retry" => Dead(pending) \/ Settled(pending)

ShapeInv == {view, marked, listed} \subseteq [Kinds -> Nat]

ChopInv == JournalsAreSound /\ PageInv /\ ShapeInv

LEMMA ChopBounds ==
  /\ MaxPlayer \in Nat \ {0} /\ MaxTree \in Nat \ {0} /\ ResumeAttempts \in Nat \ {0}
  /\ \A k \in Kinds: Bound[k] \in Nat
BY ChopJournalAssumption DEF Bound, Kinds

LEMMA TransactionPairs ==
  ASSUME NEW t \in [Kinds -> Nat], \A k \in Kinds: t[k] <= Bound[k]
  PROVE  t \in Tx
<1>1. t["player"] \in 0..MaxPlayer /\ t["tree"] \in 0..MaxTree
  BY ChopBounds DEF Bound, Kinds
<1>2. t = [player |-> t["player"], tree |-> t["tree"]]
  BY DEF Kinds
<1> QED
  BY <1>1, <1>2 DEF Tx

LEMMA PairTransactions ==
  ASSUME NEW t \in Tx
  PROVE  t \in [Kinds -> Nat] /\ \A k \in Kinds: t[k] <= Bound[k]
BY ChopBounds DEF Tx, Kinds, Bound

LEMMA SwingPairs ==
  /\ \A s \in Swing: s \in Tx /\ Spends(s) = Kinds /\ \A k \in Kinds: s[k] \in Nat \ {0}
  /\ NoTx \notin Swing /\ Zero \in [Kinds -> Nat] /\ Zero \in Tx
<1>1. ASSUME NEW s \in Swing PROVE s \in Tx /\ \A k \in Kinds: s[k] \in Nat \ {0}
  BY PairTransactions DEF Swing, Kinds
<1>2. ASSUME NEW s \in Swing PROVE Spends(s) = Kinds
  BY <1>1 DEF Spends
<1>3. Zero \in [Kinds -> Nat]
  BY DEF Zero
<1>4. Zero \in Tx
  BY <1>3, TransactionPairs, ChopBounds DEF Zero
<1>5. NoTx \notin Swing
  BY <1>1 DEF NoTx, Zero, Kinds
<1> QED
  BY <1>1, <1>2, <1>3, <1>4, <1>5

(* What a step of the world leaves of the chains.                          *)
Grows ==
  /\ swept \subseteq swept'
  /\ \A k \in Kinds:
       /\ Len(chain[k]) <= Len(chain'[k]) /\ listed[k] <= listed'[k]
       /\ \A i \in 1..Len(chain[k]): chain'[k][i] = chain[k][i]
       /\ k \in swept => chain'[k] = chain[k]

LEMMA ChainTypes ==
  ASSUME ChopTypeOK
  PROVE  \A k \in Kinds: /\ chain[k] \in Seq(Tx) /\ Len(chain[k]) \in Nat /\ Tip(k) = Len(chain[k]) + 1
                         /\ marked[k] \in 0..Len(chain[k]) /\ listed[k] \in 0..Len(chain[k])
<1>1. \A k \in Kinds: chain[k] \in Seq(Tx)
  BY DEF ChopTypeOK
<1> QED
  BY <1>1, LenProperties DEF ChopTypeOK, Tip

LEMMA FatesAreFinal ==
  ASSUME ChopTypeOK, ChopTypeOK', Grows, NEW s \in Swing
  PROVE  /\ Settled(s) => Settled(s)'
         /\ Dead(s) => Dead(s)'
<1> USE ChainTypes, SwingPairs
<1>0. /\ \A k \in Kinds: Len(chain[k]) \in Nat /\ Len(chain'[k]) \in Nat /\ s[k] \in Nat \ {0}
      /\ \A k \in Kinds: Tip(k) = Len(chain[k]) + 1 /\ Tip(k)' = Len(chain'[k]) + 1
  BY DEF Tip, ChopTypeOK
<1>1. ASSUME Settled(s) PROVE Settled(s)'
  <2> SUFFICES ASSUME NEW k \in Kinds PROVE s[k] <= listed'[k] /\ chain'[k][s[k]] = s
    BY DEF Settled
  <2>1. s[k] <= listed[k] /\ chain[k][s[k]] = s /\ listed[k] <= listed'[k]
    BY <1>1 DEF Settled, Grows
  <2>2. listed[k] \in 0..Len(chain[k]) /\ listed'[k] \in 0..Len(chain'[k])
    BY DEF ChopTypeOK
  <2>3. s[k] \in 1..Len(chain[k])
    BY <1>0, <2>1, <2>2
  <2> QED
    BY <1>0, <2>1, <2>2, <2>3 DEF Grows
<1>2. ASSUME Dead(s) PROVE Dead(s)'
  <2>1. PICK k \in Kinds: (s[k] < Tip(k) /\ chain[k][s[k]] # s) \/ (k \in swept /\ s[k] = Tip(k))
    BY <1>2 DEF Dead
  <2>2. CASE s[k] < Tip(k) /\ chain[k][s[k]] # s
    <3>1. s[k] \in 1..Len(chain[k])
      BY <1>0, <2>2
    <3>2. s[k] < Tip(k)' /\ chain'[k][s[k]] # s
      BY <1>0, <2>2, <3>1 DEF Grows
    <3> QED
      BY <3>2 DEF Dead
  <2>3. CASE k \in swept /\ s[k] = Tip(k)
    <3>1. k \in swept' /\ s[k] = Tip(k)'
      BY <2>3 DEF Grows, Tip
    <3> QED
      BY <3>1 DEF Dead
  <2> QED
    BY <2>1, <2>2, <2>3
<1> QED
  BY <1>1, <1>2

(* One more spend of the chains' last outputs.                             *)
LEMMA TakeExtends ==
  ASSUME ChopTypeOK, ShapeInv, NEW t \in Tx, Spends(t) # {},
         \A k \in Spends(t): t[k] = Tip(k) /\ k \notin swept,
         Take(t), UNCHANGED <<marked, listed, swept>>
  PROVE  /\ chain' \in [Kinds -> Seq(Tx)] /\ Grows
         /\ \A k \in Kinds: /\ marked'[k] \in 0..Len(chain'[k]) /\ listed'[k] \in 0..Len(chain'[k])
                            /\ Tip(k) <= Tip(k)' /\ Tip(k) \in Nat /\ Tip(k)' \in Nat
         /\ \A s \in Swing: IsAccepted(s)' => IsAccepted(s) \/ s = t
<1>1. \A k \in Kinds: /\ chain[k] \in Seq(Tx) /\ Len(chain[k]) \in Nat
                      /\ marked[k] \in 0..Len(chain[k]) /\ listed[k] \in 0..Len(chain[k])
                      /\ Tip(k) = Len(chain[k]) + 1 /\ Tip(k)' = Len(chain'[k]) + 1
  BY ChainTypes DEF Tip
<1>2. \A k \in Kinds: chain'[k] = IF k \in Spends(t) THEN Append(chain[k], t) ELSE chain[k]
  BY DEF Take
<1>3. \A k \in Kinds:
        /\ chain'[k] \in Seq(Tx)
        /\ k \in Spends(t) => Len(chain'[k]) = Len(chain[k]) + 1 /\ chain'[k][Len(chain[k]) + 1] = t
        /\ k \notin Spends(t) => chain'[k] = chain[k]
        /\ \A i \in 1..Len(chain[k]): chain'[k][i] = chain[k][i]
  <2> SUFFICES ASSUME NEW k \in Kinds, k \in Spends(t)
               PROVE  /\ chain'[k] \in Seq(Tx)
                      /\ Len(chain'[k]) = Len(chain[k]) + 1 /\ chain'[k][Len(chain[k]) + 1] = t
                      /\ \A i \in 1..Len(chain[k]): chain'[k][i] = chain[k][i]
    BY <1>1, <1>2
  <2>1. chain'[k] = Append(chain[k], t) /\ chain[k] \in Seq(Tx)
    BY <1>1, <1>2
  <2> QED
    BY <2>1, AppendProperties
<1>4. chain' \in [Kinds -> Seq(Tx)]
  BY <1>3 DEF Take
<1>5. Grows
  <2> SUFFICES ASSUME NEW k \in Kinds
               PROVE  /\ Len(chain[k]) <= Len(chain'[k]) /\ listed[k] <= listed'[k]
                      /\ \A i \in 1..Len(chain[k]): chain'[k][i] = chain[k][i]
                      /\ k \in swept => chain'[k] = chain[k]
    BY DEF Grows
  <2>1. listed[k] <= listed'[k]
    BY <1>1
  <2>2. k \in swept => k \notin Spends(t)
    OBVIOUS
  <2> QED
    BY <1>1, <1>3, <2>1, <2>2
<1>6. \A k \in Kinds: /\ marked'[k] \in 0..Len(chain'[k]) /\ listed'[k] \in 0..Len(chain'[k])
                      /\ Tip(k) <= Tip(k)' /\ Tip(k) \in Nat /\ Tip(k)' \in Nat
  BY <1>1, <1>3
<1>7. ASSUME NEW s \in Swing, IsAccepted(s)', s # t PROVE IsAccepted(s)
  <2> SUFFICES ASSUME NEW k \in Kinds PROVE s[k] < Tip(k) /\ chain[k][s[k]] = s
    BY SwingPairs DEF IsAccepted, Kinds
  <2>1. s[k] \in Nat \ {0} /\ s[k] < Tip(k)' /\ chain'[k][s[k]] = s
    BY <1>7, SwingPairs DEF IsAccepted
  <2>2. s[k] \in 1..Len(chain[k])
    BY <1>1, <1>3, <1>7, <2>1
  <2> QED
    BY <1>1, <1>3, <2>1, <2>2
<1> QED
  BY <1>4, <1>5, <1>6, <1>7

-----------------------------------------------------------------------------
(* A swing that becomes outstanding is in the journal, and one leaves the  *)
(* journal only when its fate is known.                                    *)
LEMMA StillRemembered ==
  ASSUME JournalsAreSound, ChopTypeOK', Grows,
         \A s \in Swing: s \in Outstanding' => s \in Outstanding \/ s = journal',
         \A s \in Swing: s \in Outstanding' /\ s = journal => s = journal' \/ Settled(s)' \/ Dead(s)'
  PROVE  NoSwingIsForgotten'
<1> SUFFICES ASSUME NEW s \in Swing, s \in Outstanding' PROVE s = journal' \/ Settled(s)' \/ Dead(s)'
  BY DEF NoSwingIsForgotten, Outstanding
<1>1. (Settled(s) => Settled(s)') /\ (Dead(s) => Dead(s)')
  BY FatesAreFinal DEF JournalsAreSound
<1> QED
  BY <1>1 DEF JournalsAreSound, NoSwingIsForgotten

(* What a page does by itself.                                             *)
LEMMA PageMoves ==
  ASSUME ChopInv, UNCHANGED <<pending, journal, requests, world>>, stage # "closed",
         stage' \in ChopStages \ {"closed", "submitting"}, mode' \in Modes, polls' \in 0..ResumeAttempts,
         view' \in [Kinds -> Nat], \A k \in Kinds: view'[k] \in 0..Tip(k),
         stage' \in Working => pending # NoTx,
         stage' \in {"outputs", "inputs"} => polls' < ResumeAttempts,
         stage' = "applying" => Settled(pending), stage' = "spending" => mode' \in Kinds
  PROVE  ChopInv'
<1>1. UNCHANGED <<chain, marked, listed, swept>>
  BY DEF world
<1>2. ChopTypeOK'
  BY <1>1 DEF ChopInv, JournalsAreSound, ChopTypeOK, Tip
<1>3. NoSwingIsForgotten'
  BY <1>1 DEF ChopInv, JournalsAreSound, NoSwingIsForgotten, Outstanding, IsAccepted, Settled, Dead, Tip
<1>4. PageInv'
  BY <1>1 DEF ChopInv, PageInv, Settled
<1>5. ShapeInv'
  BY <1>1 DEF ChopInv, ShapeInv
<1> QED
  BY <1>2, <1>3, <1>4, <1>5 DEF ChopInv, JournalsAreSound

LEMMA ShownExists ==
  ASSUME ChopInv
  PROVE  /\ \A n \in PlayerShown: n \in 0..Tip("player") /\ n \in Nat
         /\ \A n \in TreeShown: n \in 0..Tip("tree") /\ n \in Nat
         /\ view \in [Kinds -> Nat] /\ \A k \in Kinds: view[k] \in 0..Tip(k) /\ Tip(k) \in Nat
         /\ "player" \in Kinds /\ "tree" \in Kinds
<1>1. \A k \in Kinds: /\ Len(chain[k]) \in Nat /\ Tip(k) = Len(chain[k]) + 1
                      /\ marked[k] \in 0..Len(chain[k]) /\ view[k] \in 0..Tip(k)
  BY ChainTypes DEF ChopInv, JournalsAreSound, ChopTypeOK
<1>2. "player" \in Kinds /\ "tree" \in Kinds
  BY DEF Kinds
<1>3. \A n \in PlayerShown: n = 0 \/ n = marked["player"] + 1
  BY DEF PlayerShown
<1>4. \A n \in TreeShown: n = view["tree"] \/ n = marked["tree"] + 1
  BY DEF TreeShown
<1>5. view \in [Kinds -> Nat]
  BY DEF ChopInv, ShapeInv
<1> QED
  BY <1>1, <1>2, <1>3, <1>4, <1>5

LEMMA PageAlone ==
  ASSUME ChopInv,
         \/ FailChop \/ Refresh \/ StartChop \/ Refuse \/ LoseAnswer \/ AwaitSettled \/ ResumeChop
         \/ RefreshWorld \/ LookOutputs \/ RetryFails \/ Withdraw \/ Regrow
  PROVE  ChopInv'
<1> USE ShownExists, ChopBounds DEF ChopStages, Modes, Working
<1>0. /\ stage \in ChopStages /\ mode \in Modes /\ polls \in 0..ResumeAttempts
      /\ pending \in Swing \cup {NoTx}
      /\ stage \in Working => pending # NoTx
      /\ stage \in {"outputs", "inputs"} => polls < ResumeAttempts
  BY DEF ChopInv, JournalsAreSound, ChopTypeOK, PageInv
<1>1. CASE FailChop
  BY <1>0, <1>1, PageMoves DEF FailChop, Back, Proceed
<1>2. CASE Refresh
  BY <1>0, <1>2, PageMoves DEF Refresh, SyncPlayer, Proceed
<1>3. CASE StartChop
  BY <1>0, <1>3, PageMoves DEF StartChop, SyncPlayer, Proceed
<1>4. CASE Refuse
  BY <1>0, <1>4, PageMoves DEF Refuse, Back, Proceed
<1>5. CASE LoseAnswer
  BY <1>0, <1>5, PageMoves DEF LoseAnswer, Reconcile, Proceed
<1>6. CASE AwaitSettled
  <2>1. pending \in Swing
    BY <1>0, <1>6 DEF AwaitSettled
  <2>2. /\ Successor(pending) \in [Kinds -> Nat]
        /\ \A k \in Kinds: Successor(pending)[k] \in 0..Tip(k)
    <3>1. \A k \in Kinds: pending[k] \in Nat \ {0} /\ pending[k] <= listed[k]
      BY <1>6, <2>1, SwingPairs DEF AwaitSettled, Settled
    <3>2. \A k \in Kinds: Len(chain[k]) \in Nat /\ Tip(k) = Len(chain[k]) + 1 /\ listed[k] \in 0..Len(chain[k])
      BY ChainTypes DEF ChopInv, JournalsAreSound
    <3>3. ASSUME NEW k \in Kinds PROVE pending[k] + 1 \in Nat /\ pending[k] + 1 \in 0..Tip(k)
      <4>1. pending[k] \in Nat /\ pending[k] <= listed[k] /\ listed[k] <= Len(chain[k]) /\ listed[k] \in Nat
        BY <3>1, <3>2
      <4> HIDE DEF ChopStages, Modes, Working
      <4> QED
        BY <3>2, <4>1
    <3> QED
      BY <3>3 DEF Successor
  <2> QED
    BY <1>0, <1>6, <2>2, PageMoves DEF AwaitSettled, Proceed
<1>7. CASE ResumeChop
  BY <1>0, <1>7, PageMoves DEF ResumeChop, Reconcile, Proceed
<1>8. CASE RefreshWorld
  <2>1. PICK p \in PlayerShown, t \in TreeShown: view' = [player |-> p, tree |-> t]
    BY <1>8 DEF RefreshWorld
  <2>2. view' \in [Kinds -> Nat] /\ \A k \in Kinds: view'[k] \in 0..Tip(k)
    BY <2>1 DEF Kinds
  <2> QED
    BY <1>0, <1>8, <2>2, PageMoves DEF RefreshWorld, Reconcile, Back, Proceed
<1>9. CASE LookOutputs
  BY <1>0, <1>9, PageMoves DEF LookOutputs, Proceed
<1>10. CASE RetryFails
  BY <1>0, <1>10, PageMoves DEF RetryFails, Reconcile, Proceed
<1>11. CASE Withdraw
  BY <1>0, <1>11, PageMoves DEF Withdraw, SpendFrom, Proceed
<1>12. CASE Regrow
  BY <1>0, <1>12, PageMoves DEF Regrow, SpendFrom, Proceed
<1> QED
  BY <1>1, <1>2, <1>3, <1>4, <1>5, <1>6, <1>7, <1>8, <1>9, <1>10, <1>11, <1>12

(* What the page does with the journal.                                    *)
LEMMA JournalMoves ==
  ASSUME ChopInv, OpenPage \/ ClosePage \/ SubmitChop \/ ApplyAccepted \/ LookInputs \/ Resubmit
  PROVE  ChopInv'
<1> USE ShownExists, ChopBounds DEF ChopStages, Modes, Working
<1>0. /\ stage \in ChopStages /\ mode \in Modes /\ polls \in 0..ResumeAttempts
      /\ pending \in Swing \cup {NoTx} /\ journal \in Swing \cup {NoTx} /\ requests \subseteq ChopRequest
      /\ stage \in Working => pending # NoTx
      /\ stage \in {"outputs", "inputs"} => polls < ResumeAttempts
      /\ stage # "closed" => pending = journal
      /\ stage = "applying" => Settled(pending)
  BY DEF ChopInv, JournalsAreSound, ChopTypeOK, PageInv
<1>1. /\ chain \in [Kinds -> Seq(Tx)] /\ swept \subseteq Kinds /\ {marked, listed} \subseteq [Kinds -> Nat]
      /\ \A k \in Kinds: marked[k] \in 0..Len(chain[k]) /\ listed[k] \in 0..Len(chain[k])
  BY DEF ChopInv, JournalsAreSound, ChopTypeOK, ShapeInv
<1>2. ASSUME UNCHANGED world PROVE Grows /\ \A k \in Kinds: Tip(k)' = Tip(k)
  BY <1>1, <1>2, ChainTypes DEF world, Grows, Tip, ChopInv, JournalsAreSound
<1>3. CASE OpenPage
  <2>1. view' \in [Kinds -> Nat] /\ \A k \in Kinds: view'[k] \in 0..Tip(k)
    BY <1>1, <1>3, ChainTypes DEF OpenPage, Kinds, ChopInv, JournalsAreSound
  <2>2. UNCHANGED <<journal, requests, chain, marked, listed, swept>>
    BY <1>3 DEF OpenPage, world
  <2>3. ChopTypeOK'
    BY <1>0, <1>1, <1>3, <2>1, <2>2 DEF OpenPage, Back, Proceed, ChopTypeOK, Tip
  <2>4. NoSwingIsForgotten'
    BY <2>2 DEF ChopInv, JournalsAreSound, NoSwingIsForgotten, Outstanding, IsAccepted, Settled, Dead, Tip
  <2>5. PageInv'
    BY <1>3, <2>2 DEF OpenPage, Back, Proceed, PageInv
  <2> QED
    BY <1>1, <2>1, <2>2, <2>3, <2>4, <2>5 DEF ChopInv, JournalsAreSound, ShapeInv
<1>4. CASE ClosePage
  <2>1. view' \in [Kinds -> Nat] /\ \A k \in Kinds: view'[k] \in 0..Tip(k)
    BY <1>4, SwingPairs DEF ClosePage, Zero
  <2>2. UNCHANGED <<journal, requests, chain, marked, listed, swept>>
    BY <1>4 DEF ClosePage, world
  <2>3. ChopTypeOK'
    BY <1>0, <1>1, <1>4, <2>1, <2>2 DEF ClosePage, Proceed, ChopTypeOK, Tip
  <2>4. NoSwingIsForgotten'
    BY <2>2 DEF ChopInv, JournalsAreSound, NoSwingIsForgotten, Outstanding, IsAccepted, Settled, Dead, Tip
  <2>5. PageInv'
    BY <1>4, <2>2 DEF ClosePage, Proceed, PageInv
  <2> QED
    BY <1>1, <2>1, <2>2, <2>3, <2>4, <2>5 DEF ChopInv, JournalsAreSound, ShapeInv
<1>5. CASE SubmitChop
  <2>1. PICK n \in TreeShown:
          /\ view' = [view EXCEPT !["tree"] = n] /\ \A k \in Kinds: IsLive(k, view'[k])
          /\ pending' = view' /\ journal' = view'
          /\ requests' = requests \cup {[kind |-> "first", tx |-> view']}
    BY <1>5 DEF SubmitChop
  <2>2. UNCHANGED <<mode, polls, chain, marked, listed, swept>> /\ stage' = "submitting"
    BY <1>5 DEF SubmitChop, Proceed, world
  <2>3. view' \in [Kinds -> Nat] /\ \A k \in Kinds: view'[k] \in 0..Tip(k)
    BY <2>1
  <2>4. \A k \in Kinds: view'[k] <= Bound[k] /\ view'[k] # 0
    BY <2>1, <2>3 DEF IsLive
  <2>5. view' \in Swing
    BY <2>3, <2>4, TransactionPairs DEF Swing, Kinds
  <2>6. view' # NoTx /\ [kind |-> "first", tx |-> view'] \in ChopRequest
    BY <2>5, SwingPairs DEF ChopRequest
  <2>7. ChopTypeOK'
    BY <1>0, <1>1, <2>1, <2>2, <2>3, <2>5, <2>6 DEF ChopTypeOK, Tip
  <2>8. journal = NoTx
    BY <1>0, <1>5 DEF SubmitChop
  <2>9. Grows
    BY <1>2, <2>2 DEF world
  <2>10. \A s \in Swing: s \in Outstanding' => s \in Outstanding \/ s = journal'
    BY <2>1, <2>2 DEF Outstanding, IsAccepted, Tip
  <2>11. NoSwingIsForgotten'
    BY <2>7, <2>8, <2>9, <2>10, StillRemembered, SwingPairs DEF ChopInv
  <2>12. ASSUME NEW r \in requests', r.tx = pending', r.kind = "retry"
         PROVE  Dead(pending') \/ Settled(pending')
    <3>1. r \in requests /\ r.tx = view'
      BY <2>1, <2>12
    <3>2. view' \in Outstanding
      BY <2>5, <3>1 DEF Outstanding
    <3>3. Dead(view') \/ Settled(view')
      BY <2>6, <2>8, <3>2 DEF ChopInv, JournalsAreSound, NoSwingIsForgotten
    <3> QED
      BY <2>1, <3>3
  <2>13. PageInv'
    <3>1. \A r \in requests': r.tx = pending' /\ r.kind = "retry" => Dead(pending)' \/ Settled(pending)'
      BY <2>2, <2>12 DEF Dead, Settled, Tip
    <3> QED
      BY <2>1, <2>2, <2>6, <3>1 DEF PageInv
  <2> QED
    BY <1>1, <2>2, <2>3, <2>7, <2>11, <2>13 DEF ChopInv, JournalsAreSound, ShapeInv
<1>6. ASSUME stage # "closed", stage' = "ready", mode' \in Modes, polls' = 0, pending' = NoTx, journal' = NoTx,
             view' \in [Kinds -> Nat], \A k \in Kinds: view'[k] \in 0..Tip(k),
             UNCHANGED <<requests, world>>, Settled(pending) \/ Dead(pending)
      PROVE  ChopInv'
  <2>1. UNCHANGED <<chain, marked, listed, swept>>
    BY <1>6 DEF world
  <2>2. ChopTypeOK'
    BY <1>0, <1>1, <1>6, <2>1 DEF ChopTypeOK, Tip
  <2>3. Grows
    BY <1>2, <1>6
  <2>5. \A s \in Swing: s \in Outstanding' => s \in Outstanding
    BY <1>6, <2>1 DEF Outstanding, IsAccepted, Tip
  <2>6. \A s \in Swing: s = journal => Settled(s)' \/ Dead(s)'
    BY <1>0, <1>6, <2>2, <2>3, FatesAreFinal DEF ChopInv, JournalsAreSound
  <2>7. NoSwingIsForgotten'
    BY <2>2, <2>3, <2>5, <2>6, StillRemembered DEF ChopInv
  <2>8. PageInv'
    BY <1>6 DEF PageInv
  <2> QED
    BY <1>1, <1>6, <2>1, <2>2, <2>7, <2>8 DEF ChopInv, JournalsAreSound, ShapeInv
<1>7. CASE ApplyAccepted
  BY <1>0, <1>6, <1>7 DEF ApplyAccepted, Back, Proceed
<1>8. CASE LookInputs
  <2>1. CASE Conflicts(pending)
    <3>1. pending \in Swing
      BY <1>0, <1>8 DEF LookInputs
    <3>2. PICK k \in Kinds: SpentBy(k, pending[k]) \notin {NoTx, pending} \/ LooksSwept(k, pending[k])
      BY <2>1, <3>1, SwingPairs DEF Conflicts
    <3>3. pending[k] \in Nat \ {0} /\ Len(chain[k]) \in Nat /\ marked[k] \in 0..Len(chain[k]) /\ Tip(k) = Len(chain[k]) + 1
      BY <3>1, SwingPairs, ChainTypes DEF ChopInv, JournalsAreSound
    <3>4. ASSUME SpentBy(k, pending[k]) \notin {NoTx, pending} PROVE Dead(pending)
      <4>1. pending[k] <= marked[k] /\ chain[k][pending[k]] # pending
        BY <3>4 DEF SpentBy
      <4>2. pending[k] < Tip(k)
        BY <3>3, <4>1
      <4> QED
        BY <3>1, <4>1, <4>2, SwingPairs DEF Dead
    <3>5. ASSUME LooksSwept(k, pending[k]) PROVE Dead(pending)
      BY <3>1, <3>5, SwingPairs DEF LooksSwept, Dead
    <3>6. Dead(pending)
      BY <3>2, <3>4, <3>5
    <3> QED
      BY <1>0, <1>6, <1>8, <2>1, <3>6 DEF LookInputs, Back, Proceed
  <2>2. CASE ~Conflicts(pending)
    BY <1>0, <1>8, <2>2, PageMoves DEF LookInputs, Back, Proceed
  <2> QED
    BY <2>1, <2>2
<1>9. CASE Resubmit
  <2>1. CASE requests' = requests
    BY <1>0, <1>9, <2>1, PageMoves DEF Resubmit, Back, Proceed
  <2>2. CASE requests' # requests
    <3>1. /\ stage' = "retrying" /\ polls' = 0 /\ stage = "resubmitting"
          /\ requests' = requests \cup {[kind |-> "retry", tx |-> pending]}
          /\ UNCHANGED <<mode, pending, journal, view, world>>
      BY <1>9, <2>2 DEF Resubmit, Back, Proceed
    <3>2. UNCHANGED <<chain, marked, listed, swept>> /\ pending \in Swing /\ pending = journal
      BY <1>0, <3>1 DEF world
    <3>3. ChopTypeOK'
      BY <1>0, <1>1, <3>1, <3>2 DEF ChopTypeOK, Tip, ChopRequest
    <3>4. Grows
      BY <1>2, <3>1
    <3>5. \A s \in Swing: s \in Outstanding' => s \in Outstanding \/ s = journal'
      BY <3>1, <3>2 DEF Outstanding, IsAccepted, Tip
    <3>6. NoSwingIsForgotten'
      BY <3>1, <3>3, <3>4, <3>5, StillRemembered DEF ChopInv
    <3>7. PageInv'
      BY <1>0, <3>1 DEF PageInv
    <3> QED
      BY <1>1, <3>1, <3>2, <3>3, <3>6, <3>7 DEF ChopInv, JournalsAreSound, ShapeInv
  <2> QED
    BY <2>1, <2>2
<1> QED
  BY <1>3, <1>4, <1>5, <1>7, <1>8, <1>9

-----------------------------------------------------------------------------
(* What arkd does, and the answer that reaches the page.                   *)
LEMMA WorldMoves ==
  ASSUME ChopInv, ChopTypeOK', ShapeInv', Grows, UNCHANGED <<pending, journal>>,
         requests' \subseteq requests, \A s \in Swing: s \in Outstanding' => s \in Outstanding,
         \/ UNCHANGED <<stage, mode, polls>>
         \/ stage # "closed" /\ stage' = "ready"
         \/ stage # "closed" /\ stage' = "settling" /\ pending # NoTx
  PROVE  ChopInv'
<1>1. NoSwingIsForgotten'
  BY StillRemembered DEF ChopInv
<1>2. \A s \in Swing: (Settled(s) => Settled(s)') /\ (Dead(s) => Dead(s)')
  BY FatesAreFinal DEF ChopInv, JournalsAreSound
<1>3. pending \in Swing \cup {NoTx}
  BY DEF ChopInv, JournalsAreSound, ChopTypeOK
<1>4. PageInv'
  <2>1. CASE UNCHANGED <<stage, mode, polls>>
    <3>1. stage' = "applying" => Settled(pending)'
      BY <1>2, <1>3, <2>1 DEF ChopInv, PageInv, Working
    <3>2. stage' = "submitting" =>
            \A r \in requests': r.tx = pending' /\ r.kind = "retry" => Dead(pending)' \/ Settled(pending)'
      BY <1>2, <1>3, <2>1 DEF ChopInv, PageInv, Working
    <3> QED
      BY <2>1, <3>1, <3>2 DEF ChopInv, PageInv
  <2>2. CASE stage # "closed" /\ stage' = "ready"
    BY <2>2 DEF ChopInv, PageInv, Working
  <2>3. CASE stage # "closed" /\ stage' = "settling" /\ pending # NoTx
    BY <2>3 DEF ChopInv, PageInv, Working
  <2> QED
    BY <2>1, <2>2, <2>3
<1> QED
  BY <1>1, <1>4 DEF ChopInv, JournalsAreSound

LEMMA OthersMove ==
  ASSUME ChopInv, OtherStep
  PROVE  ChopInv'
<1> USE ChopBounds, SwingPairs DEF ChopStages, Modes, Working
<1>0. /\ stage \in ChopStages /\ mode \in Modes /\ polls \in 0..ResumeAttempts
      /\ pending \in Swing \cup {NoTx} /\ journal \in Swing \cup {NoTx} /\ requests \subseteq ChopRequest
      /\ stage = "spending" => mode \in Kinds
      /\ stage # "closed" => pending = journal
  BY DEF ChopInv, JournalsAreSound, ChopTypeOK, PageInv
<1>1. /\ chain \in [Kinds -> Seq(Tx)] /\ swept \subseteq Kinds /\ {view, marked, listed} \subseteq [Kinds -> Nat]
      /\ \A k \in Kinds: marked[k] \in 0..Len(chain[k]) /\ listed[k] \in 0..Len(chain[k]) /\ view[k] \in 0..Tip(k)
      /\ \A k \in Kinds: Len(chain[k]) \in Nat /\ Tip(k) = Len(chain[k]) + 1
  BY ChainTypes DEF ChopInv, JournalsAreSound, ChopTypeOK, ShapeInv
(* A step that leaves the chains alone.                                    *)
<1>2. ASSUME UNCHANGED <<chain, swept, view, pending, journal>>, requests' \subseteq requests,
             {marked', listed'} \subseteq [Kinds -> Nat], \A k \in Kinds: listed[k] <= listed'[k],
             \A k \in Kinds: marked'[k] \in 0..Len(chain[k]) /\ listed'[k] \in 0..Len(chain[k]),
             \/ UNCHANGED <<stage, mode, polls>>
             \/ /\ stage # "closed" /\ stage' = "settling" /\ pending # NoTx
                /\ mode' \in Modes /\ polls' = polls
      PROVE  ChopInv'
  <2>1. ChopTypeOK' /\ ShapeInv'
    BY <1>0, <1>1, <1>2 DEF ChopTypeOK, ShapeInv, Tip
  <2>2. Grows
    BY <1>1, <1>2 DEF Grows
  <2>3. \A s \in Swing: s \in Outstanding' => s \in Outstanding
    BY <1>2 DEF Outstanding, IsAccepted, Tip
  <2> QED
    BY <1>2, <2>1, <2>2, <2>3, WorldMoves
(* One that spends from them.                                              *)
<1>3. ASSUME NEW t \in Tx, Spends(t) # {}, \A k \in Spends(t): t[k] = Tip(k) /\ k \notin swept, Take(t),
             t \in Swing => t \in Outstanding,
             UNCHANGED <<marked, listed, swept, view, pending, journal>>, requests' \subseteq requests,
             \/ UNCHANGED <<stage, mode, polls>>
             \/ stage # "closed" /\ stage' = "ready" /\ mode' = "none" /\ polls' = 0
             \/ /\ stage # "closed" /\ stage' = "settling" /\ pending # NoTx
                /\ mode' \in Modes /\ polls' = polls
      PROVE  ChopInv'
  <2>1. /\ chain' \in [Kinds -> Seq(Tx)] /\ Grows
        /\ \A k \in Kinds: /\ marked'[k] \in 0..Len(chain'[k]) /\ listed'[k] \in 0..Len(chain'[k])
                           /\ Tip(k) <= Tip(k)' /\ Tip(k) \in Nat /\ Tip(k)' \in Nat
        /\ \A s \in Swing: IsAccepted(s)' => IsAccepted(s) \/ s = t
    BY <1>3, TakeExtends DEF ChopInv, JournalsAreSound
  <2>2. \A k \in Kinds: view'[k] \in 0..Tip(k)'
    BY <1>1, <1>3, <2>1
  <2>3. ChopTypeOK' /\ ShapeInv'
    BY <1>0, <1>1, <1>3, <2>1, <2>2 DEF ChopTypeOK, ShapeInv
  <2>4. \A s \in Swing: s \in Outstanding' => s \in Outstanding
    BY <1>3, <2>1 DEF Outstanding
  <2> QED
    BY <1>3, <2>1, <2>3, <2>4, WorldMoves
<1>4. CASE SpendLands
  <2> DEFINE t == [Zero EXCEPT ![mode] = view[mode]]
  <2>1. /\ stage = "spending" /\ IsCurrent(t) /\ Take(t) /\ stage' = "ready" /\ mode' = "none" /\ polls' = 0
        /\ UNCHANGED <<pending, journal, view, requests, marked, listed, swept>>
    BY <1>4 DEF SpendLands, Back, Proceed
  <2>2. mode \in Kinds /\ t \in [Kinds -> Nat] /\ \A k \in Kinds: t[k] = IF k = mode THEN view[k] ELSE 0
    BY <1>0, <1>1, <2>1 DEF Zero
  <2>3. \A k \in Spends(t): k \in Kinds /\ t[k] = Tip(k) /\ t[k] <= Bound[k] /\ k \notin swept
    BY <2>1 DEF IsCurrent, Spends
  <2>4. t \in Tx
    <3>1. \A k \in Kinds: t[k] <= Bound[k]
      BY <2>2, <2>3 DEF Spends
    <3> QED
      BY <2>2, <3>1, TransactionPairs
  <2>5. t \notin Swing
    BY <2>2 DEF Swing, Kinds
  <2>6. CASE Spends(t) # {}
    BY <1>3, <2>1, <2>3, <2>4, <2>5, <2>6
  <2>7. CASE Spends(t) = {}
    <3>1. chain' = chain
      BY <1>1, <2>1, <2>7 DEF Take
    <3>2. ChopTypeOK' /\ ShapeInv'
      BY <1>0, <1>1, <2>1, <3>1 DEF ChopTypeOK, ShapeInv, Tip
    <3>3. Grows
      BY <1>1, <2>1, <3>1 DEF Grows
    <3>4. \A s \in Swing: s \in Outstanding' => s \in Outstanding
      BY <2>1, <3>1 DEF Outstanding, IsAccepted, Tip
    <3> QED
      BY <2>1, <3>2, <3>3, <3>4, WorldMoves
  <2> QED
    BY <2>6, <2>7
<1>5. ASSUME NEW r \in requests, Drop(r) PROVE ChopInv'
  BY <1>1, <1>2, <1>5 DEF Drop, page, world
<1>6. ASSUME NEW r \in requests, Refused(r) PROVE ChopInv'
  <2>1. /\ r.kind = "first" /\ stage = "submitting" /\ r.tx = pending /\ ~IsAccepted(pending)
        /\ requests' = requests \ {r} /\ pending' = NoTx /\ journal' = NoTx
        /\ stage' = "ready" /\ mode' = "none" /\ polls' = 0
        /\ UNCHANGED <<view, chain, marked, listed, swept>>
    BY <1>6 DEF Refused, Awaited, Back, Proceed, world
  <2>2. ChopTypeOK' /\ ShapeInv'
    BY <1>0, <1>1, <2>1 DEF ChopTypeOK, ShapeInv, Tip
  <2>3. Grows
    BY <1>1, <2>1 DEF Grows
  <2>4. \A s \in Swing: s \in Outstanding' => s \in Outstanding
    BY <2>1 DEF Outstanding, IsAccepted, Tip
  <2>5. ASSUME NEW s \in Swing, s \in Outstanding', s = journal PROVE Settled(s)' \/ Dead(s)'
    <3>1. s = pending
      BY <1>0, <2>1, <2>5
    <3>2. PICK q \in requests: q # r /\ q.tx = pending
      BY <2>1, <2>5, <3>1 DEF Outstanding, IsAccepted, Tip
    <3>3. q.kind = "retry"
      BY <1>0, <2>1, <3>2 DEF ChopRequest
    <3>4. Dead(s) \/ Settled(s)
      BY <2>1, <3>1, <3>2, <3>3 DEF ChopInv, PageInv
    <3> QED
      BY <2>2, <2>3, <3>4, FatesAreFinal DEF ChopInv, JournalsAreSound
  <2>6. NoSwingIsForgotten'
    BY <2>2, <2>3, <2>4, <2>5, StillRemembered DEF ChopInv
  <2>7. PageInv'
    BY <2>1 DEF PageInv
  <2> QED
    BY <2>2, <2>6, <2>7 DEF ChopInv, JournalsAreSound
<1>7. ASSUME NEW r \in requests, NEW answered \in BOOLEAN, Land(r, answered) PROVE ChopInv'
  <2>1. /\ r.tx \in Swing /\ r.kind \in {"first", "retry"} /\ r.tx \in Outstanding
        /\ (IsCurrent(r.tx) /\ Take(r.tx)) \/ chain' = chain
        /\ requests' \subseteq requests /\ polls' = polls
        /\ UNCHANGED <<pending, journal, view, marked, listed, swept>>
    BY <1>0, <1>7 DEF Land, ChopRequest, Outstanding
  <2>2. \/ UNCHANGED <<stage, mode, polls>>
        \/ stage # "closed" /\ stage' = "settling" /\ pending # NoTx /\ mode' \in Modes /\ polls' = polls
    BY <1>7, <2>1 DEF Land, Awaited, Proceed
  <2>3. CASE IsCurrent(r.tx) /\ Take(r.tx)
    BY <1>3, <2>1, <2>2, <2>3 DEF IsCurrent, Kinds
  <2>4. CASE chain' = chain
    <3>1. /\ {marked', listed'} \subseteq [Kinds -> Nat] /\ \A k \in Kinds: listed[k] <= listed'[k]
          /\ \A k \in Kinds: marked'[k] \in 0..Len(chain[k]) /\ listed'[k] \in 0..Len(chain[k])
      BY <1>1, <2>1
    <3> QED
      BY <1>2, <2>1, <2>2, <2>4, <3>1
  <2> QED
    BY <2>1, <2>3, <2>4
<1>8. ASSUME NEW j \in Kinds, OtherSpends(j) PROVE ChopInv'
  <2> DEFINE t == [Zero EXCEPT ![j] = Tip(j)]
  <2>1. /\ Tip(j) <= Bound[j] /\ j \notin swept /\ Take(t)
        /\ UNCHANGED <<stage, mode, polls, pending, journal, view, requests, marked, listed, swept>>
    BY <1>8 DEF OtherSpends, page
  <2>2. t \in [Kinds -> Nat] /\ \A k \in Kinds: t[k] = IF k = j THEN Tip(k) ELSE 0
    BY <1>1 DEF Zero
  <2>3. t \in Tx
    <3>1. \A k \in Kinds: t[k] <= Bound[k]
      BY <2>1, <2>2
    <3> QED
      BY <2>2, <3>1, TransactionPairs
  <2>4. t \notin Swing
    BY <2>2 DEF Swing, Kinds
  <2>5. Spends(t) = {j}
    BY <1>1, <2>2 DEF Spends
  <2> HIDE DEF t
  <2> QED
    BY <1>3, <2>1, <2>2, <2>3, <2>4, <2>5
<1>9. ASSUME NEW j \in Kinds, Mark(j) PROVE ChopInv'
  BY <1>1, <1>2, <1>9 DEF Mark, page
<1>10. ASSUME NEW j \in Kinds, List(j) PROVE ChopInv'
  BY <1>1, <1>2, <1>10 DEF List, page
<1>11. ASSUME NEW j \in Kinds, Sweep(j) PROVE ChopInv'
  <2>1. ChopTypeOK' /\ ShapeInv'
    BY <1>0, <1>1, <1>11 DEF Sweep, page, ChopTypeOK, ShapeInv, Tip
  <2>2. Grows
    BY <1>1, <1>11 DEF Sweep, Grows
  <2>3. \A s \in Swing: s \in Outstanding' => s \in Outstanding
    BY <1>11 DEF Sweep, Outstanding, IsAccepted, Tip
  <2> QED
    BY <1>11, <2>1, <2>2, <2>3, WorldMoves DEF Sweep, page
<1> QED
  BY <1>4, <1>5, <1>6, <1>7, <1>8, <1>9, <1>10, <1>11 DEF OtherStep

LEMMA ChopStarts == ChopInit => ChopInv
<1> SUFFICES ASSUME ChopInit PROVE ChopInv
  OBVIOUS
<1>1. chain \in [Kinds -> Seq(Tx)] /\ \A k \in Kinds: chain[k] = <<>> /\ Len(chain[k]) = 0
  BY DEF ChopInit
<1>2. {view, marked, listed} \subseteq [Kinds -> Nat]
  BY SwingPairs DEF ChopInit
<1>3. ChopTypeOK
  BY <1>1, ChopBounds DEF ChopInit, ChopTypeOK, ChopStages, Modes, Zero, Tip
<1>4. Outstanding = {}
  <2>1. ASSUME NEW s \in Swing, IsAccepted(s) PROVE FALSE
    BY <1>1, <2>1, SwingPairs DEF IsAccepted, Tip, Kinds
  <2> QED
    BY <2>1 DEF ChopInit, Outstanding
<1>5. PageInv
  BY DEF ChopInit, PageInv, Working
<1> QED
  BY <1>2, <1>3, <1>4, <1>5 DEF ChopInv, JournalsAreSound, NoSwingIsForgotten, ShapeInv

LEMMA ChopStep == ChopInv /\ [ChopNext]_chopVars => ChopInv'
<1> SUFFICES ASSUME ChopInv, [ChopNext]_chopVars PROVE ChopInv'
  OBVIOUS
<1>1. CASE UNCHANGED chopVars
  <2>1. UNCHANGED <<stage, mode, polls, pending, journal, view, requests, chain, marked, listed, swept>>
    BY <1>1 DEF chopVars
  <2> QED
    BY <2>1 DEF ChopInv, JournalsAreSound, ChopTypeOK, NoSwingIsForgotten, PageInv, ShapeInv, Outstanding,
       IsAccepted, Settled, Dead, Tip
<1> QED
  BY <1>1, PageAlone, JournalMoves, OthersMove DEF ChopNext, PageStep, Craft, Renew

\* A swing arkd has accepted or may still accept is in the journal until the
\* indexer lists what it made, or it can never be accepted: chop_inner and
\* reconcile_pending_chop (src/web_app.rs), wherever the page is closed.
THEOREM SwingsAreRemembered == ChopSpec => []JournalsAreSound
<1>1. ChopInv => JournalsAreSound
  BY DEF ChopInv
<1> QED
  BY <1>1, ChopStarts, ChopStep, PTL DEF ChopSpec

-----------------------------------------------------------------------------
(***************************************************************************)
(* TreeSync: what the indexer lists of a batch leads each tree to its own  *)
(* next output.                                                            *)
(***************************************************************************)
(* The chains of the trees: no two spends of a tree share a batch, and the *)
(* indexer shows what there is.                                            *)
ChainInv ==
  /\ spends \in [Tree -> Seq(Nat)]
  /\ marksUpTo \in [Tree -> Nat] /\ listsUpTo \in [Tree -> Nat]
  /\ \A k \in Tree: Len(spends[k]) <= MaxSpends /\ since[k] <= marksUpTo[k]
  /\ \A k \in Tree: \A i, j \in 1..Len(spends[k]):
       spends[k][i] = spends[k][j] /\ spends[k][i] # BySwing => i = j

(* A record in hand is of an output of its tree, no older than the one     *)
(* shown, and unspent when the attempt began unless it says otherwise.     *)
InHand(r, k) ==
  /\ r \in Record /\ r.out.tree = k
  /\ r.out.n >= heads[k].n
  /\ r.spent => r.out.n <= marksUpTo[k]
  /\ ~r.spent => r.out.n > since[k]

HeadsInv ==
  /\ phase # "idle" => \A k \in goal: heads[k] \in TreeOutput /\ heads[k].tree = k
  /\ phase \in {"following", "fetching"} => \A k \in goal: InHand(cur[k], k)
  /\ phase = "fetching" => AllHeads(cur)

SyncInv == SyncTypeOK /\ IdentityIsKept /\ ChainInv /\ HeadsInv

LEMMA SyncStarts == SyncInit => SyncInv
<1> SUFFICES ASSUME SyncInit PROVE SyncInv
  OBVIOUS
<1> USE TreeSyncAssumption
<1>1. <<>> \in Seq(Nat) /\ Len(<<>>) = 0
  OBVIOUS
<1>2. SyncTypeOK
  BY <1>1 DEF SyncInit, SyncTypeOK
<1>3. IdentityIsKept
  BY DEF SyncInit, IdentityIsKept
<1>4. ChainInv
  BY <1>1 DEF SyncInit, ChainInv
<1>5. HeadsInv
  BY DEF SyncInit, HeadsInv
<1> QED
  BY <1>2, <1>3, <1>4, <1>5 DEF SyncInv

(***************************************************************************)
(* The reads.                                                              *)
(***************************************************************************)
\* What is read of an output is in hand.
LEMMA ReadIsInHand ==
  ASSUME SyncInv, NEW k \in Tree, NEW o \in TreeOutput, o.tree = k, o.n >= heads[k].n
  PROVE  InHand(Read(o), k)
<1>1. o.n \in Nat /\ marksUpTo[k] \in Nat /\ since[k] \in Nat /\ since[k] <= marksUpTo[k]
  BY TreeSyncAssumption DEF SyncInv, ChainInv, TreeOutput, SyncTypeOK
<1>2. Read(o) \in Record /\ Read(o).out = o /\ (Read(o).spent <=> o.n <= marksUpTo[k])
  <2> DEFINE isSpent == o.n <= marksUpTo[o.tree]
             isSwept == /\ o.tree \in sweptTrees /\ o.n = LastOut(o.tree)
                        /\ marksUpTo[o.tree] = Len(spends[o.tree])
  <2>1. isSpent \in BOOLEAN /\ isSwept \in BOOLEAN
    OBVIOUS
  <2>2. Read(o) = [out |-> o, spent |-> isSpent, swept |-> isSwept]
    BY DEF Read
  <2>3. isSpent = (o.n <= marksUpTo[k])
    OBVIOUS
  <2>4. Read(o).out = o /\ Read(o).spent = isSpent
    BY <2>2
  <2> HIDE DEF isSpent, isSwept
  <2>5. Read(o) \in Record
    BY <2>1, <2>2 DEF Record
  <2> QED
    BY <2>3, <2>4, <2>5
<1> QED
  BY <1>1, <1>2 DEF InHand

\* The successor of a spent output is the next one of its tree, although a batch
\* has the successors of many.
LEMMA SuccessorIsNext ==
  ASSUME SyncInv, NEW k \in Tree, NEW n \in Nat, n >= 1, n <= marksUpTo[k],
         NEW c \in Successors(k, Out(k, n))
  PROVE  c = Out(k, n + 1)
<1> DEFINE o == Out(k, n)
<1>1. o.tree = k /\ o.n = n
  BY DEF Out
<1>2. c \in Candidates(o) /\ c.tree = k
  BY DEF Successors
<1>3. PICK j \in Tree, m \in 1..MaxSpends:
        /\ c = Out(j, m + 1) /\ m <= listsUpTo[j]
        /\ IF spends[k][n] = BySwing THEN <<j, m>> = <<k, n>> ELSE spends[j][m] = spends[k][n]
  BY <1>1, <1>2 DEF Candidates
<1>4. j = k
  BY <1>2, <1>3 DEF Out
<1>5. m = n
  <2>1. CASE spends[k][n] = BySwing
    BY <1>3, <2>1
  <2>2. CASE spends[k][n] # BySwing
    <3>1. spends[k][m] = spends[k][n]
      BY <1>3, <1>4, <2>2
    <3>2. m \in 1..Len(spends[k]) /\ n \in 1..Len(spends[k])
      BY <1>3, <1>4, TreeSyncAssumption DEF SyncInv, SyncTypeOK, ChainInv
    <3> QED
      BY <2>2, <3>1, <3>2 DEF SyncInv, ChainInv
  <2> QED
    BY <2>1, <2>2
<1> QED
  BY <1>3, <1>4, <1>5

LEMMA JudgeKeeps ==
  ASSUME SyncInv, NEW recs \in [Tree -> Record \cup {Absent}],
         phase # "idle", \A k \in goal: InHand(recs[k], k),
         Judge(recs), UNCHANGED <<viewport, treeIndex>>
  PROVE  SyncInv'
<1> USE TreeSyncAssumption
<1>1. UNCHANGED <<since, heads, viewport, spends, marksUpTo, listsUpTo, sweptTrees>>
  BY DEF Judge, treeIndex
<1>2. /\ phase' \in {"idle", "following", "fetching"}
      /\ phase' = "idle" \/ (goal' = goal /\ cur' = recs)
      /\ phase' = "fetching" => AllHeads(recs)
  BY DEF Judge, End, Enter
<1>3. SyncTypeOK'
  BY <1>1 DEF SyncInv, SyncTypeOK, Judge, End, Enter
<1>4. IdentityIsKept' /\ ChainInv'
  BY <1>1 DEF SyncInv, IdentityIsKept, ChainInv
<1>5. HeadsInv'
  BY <1>1, <1>2 DEF SyncInv, HeadsInv, InHand, AllHeads
<1> QED
  BY <1>3, <1>4, <1>5 DEF SyncInv

LEMMA ReadHeadsKeeps == SyncInv /\ ReadHeads => SyncInv'
<1> SUFFICES ASSUME SyncInv, ReadHeads PROVE SyncInv'
  OBVIOUS
<1> DEFINE recs == [k \in Tree |-> IF k \in goal THEN Read(heads[k]) ELSE Absent]
<1>1. phase = "reading" /\ Judge(recs) /\ UNCHANGED <<viewport, treeIndex>>
  BY DEF ReadHeads
<1>2. ASSUME NEW k \in goal PROVE k \in Tree /\ InHand(recs[k], k)
  <2>1. k \in Tree /\ heads[k] \in TreeOutput /\ heads[k].tree = k
    BY <1>1 DEF SyncInv, SyncTypeOK, HeadsInv
  <2>2. heads[k].n >= heads[k].n
    BY <2>1, TreeSyncAssumption DEF TreeOutput
  <2> QED
    BY <2>1, <2>2, ReadIsInHand
<1>3. recs \in [Tree -> Record \cup {Absent}]
  BY <1>2 DEF InHand
<1> HIDE DEF recs
<1> QED
  BY <1>1, <1>2, <1>3, JudgeKeeps

LEMMA FollowKeeps == SyncInv /\ Follow => SyncInv'
<1> SUFFICES ASSUME SyncInv, Follow PROVE SyncInv'
  OBVIOUS
<1>1. phase = "following" /\ UNCHANGED <<viewport, treeIndex>>
  BY DEF Follow
<1>2. PICK next \in [Behind -> TreeOutput]:
        /\ \A k \in Behind: next[k] \in Successors(k, cur[k].out)
        /\ Judge([k \in Tree |-> IF k \in Behind THEN Read(next[k]) ELSE cur[k]])
  BY DEF Follow
<1> DEFINE recs == [k \in Tree |-> IF k \in Behind THEN Read(next[k]) ELSE cur[k]]
<1>3. goal \subseteq Tree /\ \A k \in goal: InHand(cur[k], k)
  BY <1>1 DEF SyncInv, SyncTypeOK, HeadsInv
<1>4. ASSUME NEW k \in Behind PROVE InHand(Read(next[k]), k)
  <2>1. k \in Tree /\ InHand(cur[k], k) /\ cur[k].spent
    BY <1>3 DEF Behind
  <2> DEFINE n == cur[k].out.n
  <2>2. /\ cur[k].out \in TreeOutput /\ cur[k].out = Out(k, n)
        /\ n \in Nat /\ n >= 1 /\ n <= marksUpTo[k] /\ n >= heads[k].n
    BY <2>1, TreeSyncAssumption DEF InHand, Record, TreeOutput, Out
  <2>3. heads[k] \in TreeOutput
    BY <1>1, <2>1 DEF SyncInv, HeadsInv, Behind
  <2>4. next[k] = Out(k, n + 1)
    BY <1>2, <2>1, <2>2, SuccessorIsNext
  <2>5. next[k] \in TreeOutput /\ next[k].tree = k /\ next[k].n = n + 1
    BY <1>2, <2>4 DEF Out
  <2>6. next[k].n >= heads[k].n
    BY <2>2, <2>3, <2>5, TreeSyncAssumption DEF TreeOutput
  <2> QED
    BY <2>1, <2>5, <2>6, ReadIsInHand
<1>5. \A k \in goal: InHand(recs[k], k)
  BY <1>3, <1>4
<1>6. recs \in [Tree -> Record \cup {Absent}]
  <2>1. Behind \subseteq goal
    BY DEF Behind
  <2>2. cur \in [Tree -> Record \cup {Absent}]
    BY DEF SyncInv, SyncTypeOK
  <2> QED
    BY <1>4, <2>2 DEF InHand
<1> HIDE DEF recs
<1>7. Judge(recs)
  BY <1>2 DEF recs
<1> QED
  BY <1>1, <1>5, <1>6, <1>7, JudgeKeeps

(***************************************************************************)
(* The steps.                                                              *)
(***************************************************************************)
LEMMA AppKeeps == SyncInv /\ AppStep => SyncInv'
<1> SUFFICES ASSUME SyncInv, AppStep PROVE SyncInv'
  OBVIOUS
<1> USE TreeSyncAssumption
<1>0. \A k \in Tree: marksUpTo[k] \in Nat
  BY DEF SyncInv, ChainInv
<1>1. CASE Initialize
  <2>1. \A k \in Tree: Out(k, 1) \in TreeOutput /\ Out(k, 1).tree = k
    BY DEF Out, TreeOutput
  <2>2. SyncTypeOK'
    BY <1>1, <2>1 DEF Initialize, treeIndex, Enter, SyncInv, SyncTypeOK, ChainInv
  <2>3. IdentityIsKept'
    BY <1>1, <2>1 DEF Initialize, IdentityIsKept
  <2>4. ChainInv'
    BY <1>0, <1>1 DEF Initialize, treeIndex, SyncInv, ChainInv
  <2>5. HeadsInv'
    BY <1>1, <2>1 DEF Initialize, Enter, HeadsInv, SyncInv, SyncTypeOK
  <2> QED
    BY <2>2, <2>3, <2>4, <2>5 DEF SyncInv
<1>2. CASE StartSync
  <2>2. SyncTypeOK'
    BY <1>2 DEF StartSync, treeIndex, Enter, SyncInv, SyncTypeOK, ChainInv
  <2>3. IdentityIsKept'
    BY <1>2 DEF StartSync, IdentityIsKept, SyncInv
  <2>4. ChainInv'
    BY <1>0, <1>2 DEF StartSync, treeIndex, SyncInv, ChainInv
  <2>5. HeadsInv'
    BY <1>2 DEF StartSync, Enter, HeadsInv, SyncInv, SyncTypeOK, IdentityIsKept
  <2> QED
    BY <2>2, <2>3, <2>4, <2>5 DEF SyncInv
<1>3. ASSUME NEW k \in Tree, StartTree(k) PROVE SyncInv'
  <2>2. SyncTypeOK'
    BY <1>3 DEF StartTree, treeIndex, Enter, SyncInv, SyncTypeOK, ChainInv
  <2>3. IdentityIsKept'
    BY <1>3 DEF StartTree, IdentityIsKept, SyncInv
  <2>4. ChainInv'
    BY <1>0, <1>3 DEF StartTree, treeIndex, SyncInv, ChainInv
  <2>5. HeadsInv'
    BY <1>3 DEF StartTree, Enter, HeadsInv, SyncInv, SyncTypeOK, IdentityIsKept
  <2> QED
    BY <2>2, <2>3, <2>4, <2>5 DEF SyncInv
<1>4. CASE Transient
  <2>1. /\ UNCHANGED <<heads, viewport, spends, marksUpTo, listsUpTo, sweptTrees>>
        /\ since' = since \/ since' = marksUpTo
        /\ phase' = "idle" \/ (phase' = "reading" /\ goal' = goal)
    BY <1>4 DEF Transient, treeIndex, End, Enter
  <2>2. SyncTypeOK'
    BY <1>4, <2>1 DEF Transient, End, Enter, SyncInv, SyncTypeOK, ChainInv
  <2>3. IdentityIsKept'
    BY <2>1 DEF IdentityIsKept, SyncInv
  <2>4. ChainInv'
    BY <1>0, <2>1 DEF SyncInv, ChainInv
  <2>5. HeadsInv'
    BY <1>4, <2>1 DEF Transient, HeadsInv, SyncInv
  <2> QED
    BY <2>2, <2>3, <2>4, <2>5 DEF SyncInv
<1>5. CASE Finish
  <2>1. /\ UNCHANGED <<since, viewport, spends, marksUpTo, listsUpTo, sweptTrees>>
        /\ phase' = "idle" /\ phase = "fetching"
        /\ heads' = [k \in Tree |-> IF k \in goal THEN cur[k].out ELSE heads[k]]
    BY <1>5 DEF Finish, treeIndex, End, Enter
  <2>2. \A k \in goal: cur[k].out \in TreeOutput /\ cur[k].out.tree = k
    BY <2>1 DEF SyncInv, HeadsInv, InHand, Record
  <2>3. SyncTypeOK'
    BY <1>5, <2>1, <2>2 DEF Finish, End, Enter, SyncInv, SyncTypeOK
  <2>4. IdentityIsKept'
    BY <2>1, <2>2 DEF IdentityIsKept, SyncInv
  <2>5. ChainInv'
    BY <2>1 DEF SyncInv, ChainInv
  <2>6. HeadsInv'
    BY <2>1 DEF HeadsInv
  <2> QED
    BY <2>3, <2>4, <2>5, <2>6 DEF SyncInv
<1>6. CASE FailSync
  <2>1. SyncTypeOK'
    BY <1>6 DEF FailSync, treeIndex, End, Enter, SyncInv, SyncTypeOK
  <2>2. IdentityIsKept' /\ ChainInv' /\ HeadsInv'
    BY <1>6 DEF FailSync, treeIndex, End, Enter, SyncInv, IdentityIsKept, ChainInv, HeadsInv
  <2> QED
    BY <2>1, <2>2 DEF SyncInv
<1>7. ASSUME NEW trees \in SUBSET Tree, Walk(trees) PROVE SyncInv'
  <2>1. UNCHANGED <<phase, only, goal, attempts, cur, since, heads, spends, marksUpTo, listsUpTo,
                    sweptTrees>> /\ viewport' \subseteq Tree
    BY <1>7 DEF Walk, app, treeIndex
  <2>2. SyncTypeOK' /\ IdentityIsKept' /\ ChainInv'
    BY <2>1 DEF SyncInv, SyncTypeOK, IdentityIsKept, ChainInv
  <2>3. HeadsInv'
    BY <2>1 DEF SyncInv, HeadsInv, InHand, AllHeads
  <2> QED
    BY <2>2, <2>3 DEF SyncInv
<1>8. CASE ReadHeads \/ Follow
  BY <1>8, ReadHeadsKeeps, FollowKeeps
<1> QED
  BY <1>1, <1>2, <1>3, <1>4, <1>5, <1>6, <1>7, <1>8 DEF AppStep

\* A spend is added to a chain: none, a swing, or a batch later than all before.
LEMMA SpendKeeps ==
  ASSUME SyncInv, NEW trees \in SUBSET Tree, NEW b \in Nat,
         \A k \in trees: CanSpend(k),
         b = BySwing \/ \A k \in Tree: \A i \in 1..Len(spends[k]): spends[k][i] < b,
         spends' = [k \in Tree |-> IF k \in trees THEN Append(spends[k], b) ELSE spends[k]],
         UNCHANGED <<app, viewport, marksUpTo, listsUpTo, sweptTrees>>
  PROVE  SyncInv'
<1> USE TreeSyncAssumption
<1>1. UNCHANGED <<phase, only, goal, attempts, cur, since, heads, viewport, marksUpTo, listsUpTo,
                  sweptTrees>>
  BY DEF app
<1>2. ASSUME NEW k \in Tree
      PROVE  /\ spends[k] \in Seq(Nat) /\ spends'[k] \in Seq(Nat)
             /\ Len(spends[k]) \in Nat /\ Len(spends'[k]) \in Nat
             /\ Len(spends'[k]) >= Len(spends[k]) /\ Len(spends'[k]) <= MaxSpends
             /\ \A i, j \in 1..Len(spends'[k]):
                  spends'[k][i] = spends'[k][j] /\ spends'[k][i] # BySwing => i = j
  <2>1. /\ spends[k] \in Seq(Nat) /\ Len(spends[k]) \in Nat /\ Len(spends[k]) <= MaxSpends
        /\ \A i \in 1..Len(spends[k]): spends[k][i] \in Nat
        /\ \A i, j \in 1..Len(spends[k]):
             spends[k][i] = spends[k][j] /\ spends[k][i] # BySwing => i = j
    BY DEF SyncInv, ChainInv
  <2>2. CASE k \notin trees
    BY <2>1, <2>2
  <2>3. CASE k \in trees
    <3>1. spends'[k] = Append(spends[k], b) /\ Len(spends[k]) < MaxSpends
      BY <2>3 DEF CanSpend
    <3>2. /\ spends'[k] \in Seq(Nat) /\ Len(spends'[k]) = Len(spends[k]) + 1
          /\ \A i \in 1..Len(spends[k]): spends'[k][i] = spends[k][i]
          /\ spends'[k][Len(spends[k]) + 1] = b
      BY <2>1, <3>1, AppendProperties
    <3>3. b = BySwing \/ \A i \in 1..Len(spends[k]): spends[k][i] < b
      OBVIOUS
    <3>4. ASSUME NEW i \in 1..Len(spends'[k]), NEW j \in 1..Len(spends'[k]),
                 spends'[k][i] = spends'[k][j], spends'[k][i] # BySwing
          PROVE  i = j
      <4>1. CASE i \in 1..Len(spends[k]) /\ j \in 1..Len(spends[k])
        BY <2>1, <3>2, <3>4, <4>1
      <4>2. CASE i = Len(spends[k]) + 1 /\ j \in 1..Len(spends[k])
        <5>1. spends[k][j] = b /\ b # BySwing /\ spends[k][j] < b
          BY <3>2, <3>3, <3>4, <4>2
        <5> QED
          BY <5>1
      <4>3. CASE j = Len(spends[k]) + 1 /\ i \in 1..Len(spends[k])
        <5>1. spends[k][i] = b /\ b # BySwing /\ spends[k][i] < b
          BY <3>2, <3>3, <3>4, <4>3
        <5> QED
          BY <5>1
      <4> QED
        BY <2>1, <3>2, <4>1, <4>2, <4>3
    <3>5. Len(spends'[k]) \in Nat /\ Len(spends'[k]) >= Len(spends[k]) /\ Len(spends'[k]) <= MaxSpends
      BY <2>1, <3>1, <3>2
    <3>6. \A i, j \in 1..Len(spends'[k]):
            spends'[k][i] = spends'[k][j] /\ spends'[k][i] # BySwing => i = j
      BY <3>4
    <3> QED
      BY <2>1, <3>2, <3>5, <3>6
  <2> QED
    BY <2>2, <2>3
<1>3. SyncTypeOK'
  BY <1>1, <1>2 DEF SyncInv, SyncTypeOK
<1>4. IdentityIsKept'
  BY <1>1 DEF SyncInv, IdentityIsKept
<1>5. ChainInv'
  BY <1>1, <1>2 DEF SyncInv, ChainInv
<1>6. HeadsInv'
  BY <1>1 DEF SyncInv, HeadsInv, InHand, AllHeads
<1> QED
  BY <1>3, <1>4, <1>5, <1>6 DEF SyncInv

LEMMA TreeKeeps == SyncInv /\ TreeStep => SyncInv'
<1> SUFFICES ASSUME SyncInv, TreeStep PROVE SyncInv'
  OBVIOUS
<1> USE TreeSyncAssumption
<1>1. ASSUME NEW k \in Tree, ChopTree(k) PROVE SyncInv'
  <2>1. spends' = [j \in Tree |-> IF j \in {k} THEN Append(spends[j], 0) ELSE spends[j]]
    BY <1>1 DEF ChopTree, BySwing, SyncInv, ChainInv
  <2>2. CanSpend(k) /\ UNCHANGED <<app, viewport, marksUpTo, listsUpTo, sweptTrees>>
    BY <1>1 DEF ChopTree
  <2>3. {k} \in SUBSET Tree /\ 0 \in Nat /\ 0 = BySwing
    BY DEF BySwing
  <2> QED
    BY <2>1, <2>2, <2>3, SpendKeeps
<1>2. ASSUME NEW trees \in SUBSET Tree, NEW b \in 1..MaxBatch, RenewTrees(trees, b)
      PROVE  SyncInv'
  <2>1. b \in Nat
    OBVIOUS
  <2> QED
    BY <1>2, <2>1, SpendKeeps DEF RenewTrees
<1>3. ASSUME NEW k \in Tree, MarkTree(k) \/ ListTree(k) \/ SweepTree(k) PROVE SyncInv'
  <2>0. /\ marksUpTo \in [Tree -> Nat] /\ listsUpTo \in [Tree -> Nat] /\ sweptTrees \subseteq Tree
        /\ \A j \in Tree: /\ Len(spends[j]) \in Nat
                          /\ marksUpTo[j] \in 0..Len(spends[j])
                          /\ listsUpTo[j] \in 0..Len(spends[j])
    BY DEF SyncInv, SyncTypeOK, ChainInv
  <2>1. UNCHANGED <<phase, only, goal, attempts, cur, since, heads, viewport, spends>>
    BY <1>3 DEF MarkTree, ListTree, SweepTree, app
  <2>2. /\ sweptTrees' \subseteq Tree
        /\ marksUpTo' \in [Tree -> Nat] /\ listsUpTo' \in [Tree -> Nat]
        /\ \A j \in Tree: /\ marksUpTo'[j] >= marksUpTo[j]
                          /\ marksUpTo'[j] \in 0..Len(spends[j])
                          /\ listsUpTo'[j] \in 0..Len(spends[j])
    <3>1. CASE MarkTree(k)
      BY <2>0, <3>1 DEF MarkTree
    <3>2. CASE ListTree(k)
      BY <2>0, <3>2 DEF ListTree
    <3>3. CASE SweepTree(k)
      BY <2>0, <3>3 DEF SweepTree
    <3> QED
      BY <1>3, <3>1, <3>2, <3>3
  <2>3. SyncTypeOK'
    BY <2>1, <2>2 DEF SyncInv, SyncTypeOK
  <2>4. IdentityIsKept'
    BY <2>1 DEF SyncInv, IdentityIsKept
  <2>5. ChainInv'
    <3>1. \A j \in Tree: since[j] \in Nat /\ since[j] <= marksUpTo[j] /\ since[j] <= marksUpTo'[j]
      BY <2>0, <2>2 DEF SyncInv, SyncTypeOK, ChainInv
    <3> QED
      BY <2>1, <2>2, <3>1 DEF SyncInv, ChainInv
  <2>6. ASSUME NEW j \in Tree, NEW r, InHand(r, j) PROVE InHand(r, j)'
    BY <2>0, <2>1, <2>2, <2>6 DEF InHand, Record, TreeOutput
  <2>7. HeadsInv'
    BY <2>1, <2>6 DEF SyncInv, SyncTypeOK, HeadsInv, AllHeads
  <2> QED
    BY <2>3, <2>4, <2>5, <2>7 DEF SyncInv
<1> QED
  BY <1>1, <1>2, <1>3 DEF TreeStep

LEMMA SyncStep == SyncInv /\ [SyncNext]_syncVars => SyncInv'
<1> SUFFICES ASSUME SyncInv, UNCHANGED syncVars PROVE SyncInv'
  BY AppKeeps, TreeKeeps DEF SyncNext
<1>1. SyncTypeOK' /\ IdentityIsKept'
  BY DEF syncVars, SyncInv, SyncTypeOK, IdentityIsKept
<1>2. ChainInv' /\ HeadsInv'
  BY DEF syncVars, SyncInv, ChainInv, HeadsInv, InHand, AllHeads
<1> QED
  BY <1>1, <1>2 DEF SyncInv

\* The trees shown change when the application is new and when a sync ends.
LEMMA HeadsMoveForward == SyncInv /\ [SyncNext]_syncVars => FreshStep /\ ForwardStep
<1> SUFFICES ASSUME SyncInv, [SyncNext]_syncVars PROVE FreshStep /\ ForwardStep
  OBVIOUS
<1> USE TreeSyncAssumption
<1>0. \A k \in Tree: heads[k] # Absent => heads[k].n >= heads[k].n
  BY DEF SyncInv, SyncTypeOK, TreeOutput
<1>1. CASE Finish
  <2>1. /\ phase = "fetching" /\ goal \subseteq Tree
        /\ heads' = [k \in Tree |-> IF k \in goal THEN cur[k].out ELSE heads[k]]
    BY <1>1 DEF Finish, SyncInv, SyncTypeOK
  <2>2. \A k \in goal: cur[k].out.n > since[k] /\ cur[k].out.n >= heads[k].n
    BY <2>1 DEF SyncInv, HeadsInv, InHand, AllHeads
  <2> QED
    BY <1>0, <2>1, <2>2 DEF FreshStep, ForwardStep
<1>2. CASE Initialize
  BY <1>2 DEF Initialize, FreshStep, ForwardStep
<1>3. CASE UNCHANGED heads
  BY <1>0, <1>3 DEF FreshStep, ForwardStep
<1>4. Finish \/ Initialize \/ UNCHANGED heads
  <2>1. CASE AppStep
    BY <2>1 DEF AppStep, StartSync, ReadHeads, Follow, Judge, Transient, End, FailSync, StartTree,
         Walk, app
  <2>2. CASE TreeStep
    BY <2>2 DEF TreeStep, ChopTree, MarkTree, ListTree, SweepTree, RenewTrees, app
  <2>3. CASE UNCHANGED syncVars
    BY <2>3 DEF syncVars
  <2> QED
    BY <2>1, <2>2, <2>3 DEF SyncNext
<1> QED
  BY <1>1, <1>2, <1>3, <1>4

\* A tree is shown at an output of its own, unspent when the attempt began or
\* later, and never as it was before (load_current_tree_records).
THEOREM TreesAreFollowed == SyncSpec => SyncIsTrue
<1>1. SyncInv => SyncTypeOK /\ IdentityIsKept
  BY DEF SyncInv
<1>2. SyncInv /\ [SyncNext]_syncVars => [FreshStep /\ ForwardStep]_syncVars
  BY HeadsMoveForward
<1> QED
  BY <1>1, <1>2, SyncStarts, SyncStep, PTL DEF SyncSpec, SyncIsTrue
=============================================================================
