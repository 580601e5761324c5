---------------------------- MODULE ChopJournal ----------------------------
(***************************************************************************)
(* The journal of a submitted swing: chop_inner_with_options, resume_      *)
(* pending_chop_inner and reconcile_pending_chop (src/web_app.rs).  The    *)
(* page keeps at most one swing, signed, in the browser's storage from     *)
(* before its submission until the indexer shows what became of it.        *)
(*                                                                         *)
(* The player state and the tree are two chains of outputs.  An output is  *)
(* its number in its chain and a transaction is the pair of outputs it     *)
(* spends, 0 for none, so a swing spends one of each.  Player states are   *)
(* also spent by renewals, crafting, withdrawals and other programs with   *)
(* the key; trees by other players and by renewals.  Every await is a step *)
(* and the page may be closed at each.                                     *)
(***************************************************************************)
EXTENDS Naturals, Sequences

CONSTANTS
  MaxPlayer, MaxTree,  \* bound: outputs of the two chains
  ResumeAttempts       \* RESUME_RECONCILE_ATTEMPTS: 15 in the code

ASSUME ChopJournalAssumption == {MaxPlayer, MaxTree, ResumeAttempts} \subseteq Nat \ {0}

VARIABLES
  stage,     \* where the page is
  mode,      \* who asked for the reconciliation
  polls,     \* reconciliations of this recovery
  pending,   \* pending_chop of the page
  journal,   \* the same in the browser's storage
  view,      \* player_state and the tree the page shows
  requests,  \* requests on their way to the emulator
  chain,     \* arkd: the spenders of the two chains
  marked,    \* indexer: spends it shows
  listed,    \* indexer: spends whose successors it lists
  swept      \* chains whose last output can no longer be spent

chopVars == <<stage, mode, polls, pending, journal, view, requests, chain, marked, listed, swept>>
page == <<stage, mode, polls, pending, journal, view>>
world == <<chain, marked, listed, swept>>

Kinds == {"player", "tree"}
Bound == [player |-> MaxPlayer, tree |-> MaxTree]

Tx == [player: 0..MaxPlayer, tree: 0..MaxTree]
Swing == {t \in Tx: t.player # 0 /\ t.tree # 0}
ChopRequest == [kind: {"first", "retry"}, tx: Swing]

Spends(t) == {k \in Kinds: t[k] # 0}
Tip(k) == Len(chain[k]) + 1
Successor(t) == [k \in Kinds |-> t[k] + 1]

Zero == [k \in Kinds |-> 0]
NoTx == Zero

ChopInit ==
  /\ stage = "closed" /\ mode = "none" /\ polls = 0
  /\ pending = NoTx /\ journal = NoTx
  /\ view = Zero
  /\ requests = {}
  /\ chain = [k \in Kinds |-> <<>>]
  /\ marked = Zero /\ listed = Zero
  /\ swept = {}

-----------------------------------------------------------------------------
(***************************************************************************)
(* What the indexer shows.  An output is listed with its spender once that *)
(* is known.  A sweep is recorded after the spends it follows, so only an  *)
(* output whose spends are all shown can look swept.                       *)
(***************************************************************************)
Listed(k, n) == n <= listed[k] + 1
SpentBy(k, n) == IF n <= marked[k] THEN chain[k][n] ELSE NoTx
LooksSwept(k, n) == k \in swept /\ n = Tip(k) /\ marked[k] = Len(chain[k])

IsLive(k, n) == n \in 1..Bound[k] /\ Listed(k, n) /\ SpentBy(k, n) = NoTx /\ ~LooksSwept(k, n)

Settled(t) == \A k \in Spends(t): t[k] <= listed[k] /\ chain[k][t[k]] = t

\* Mutant: an output that is spent is a conflict, whoever spent it.
ConflictsBySpend(t) ==
  \E k \in Spends(t):
    /\ Listed(k, t[k])
    /\ SpentBy(k, t[k]) # NoTx \/ LooksSwept(k, t[k])

Conflicts(t) ==
  \E k \in Spends(t):
    /\ Listed(k, t[k])
    /\ SpentBy(k, t[k]) \notin {NoTx, t} \/ LooksSwept(k, t[k])

\* The output a read of spendable player states selects; two look unspent
\* while a spend is listed and not marked.
PlayerShown ==
  LET head == marked["player"] + 1
  IN IF marked["player"] = listed["player"] THEN {head}
     ELSE IF marked["player"] > listed["player"] THEN {0} ELSE {}

\* Where following the spends of the shown tree leads.
TreeShown ==
  LET head == IF view["tree"] > marked["tree"] THEN view["tree"] ELSE marked["tree"] + 1
  IN IF Listed("tree", head) /\ ~LooksSwept("tree", head) THEN {head} ELSE {}

-----------------------------------------------------------------------------
Proceed(where) == stage' = where
Back == Proceed("ready") /\ mode' = "none" /\ polls' = 0

OpenPage ==
  /\ stage = "closed"
  /\ Back
  /\ pending' = journal
  /\ view' = [player |-> 0, tree |-> 1]
  /\ UNCHANGED <<journal, requests, world>>

ClosePage ==
  /\ stage # "closed"
  /\ Proceed("closed") /\ mode' = "none"
  /\ polls' = 0 /\ pending' = NoTx /\ view' = Zero
  /\ UNCHANGED <<journal, requests, world>>

\* A read fails, an index never shows what is waited for, an answer does not
\* verify: the action ends in an error.
FailChop ==
  /\ stage \notin {"closed", "ready", "submitting", "retrying"}
  /\ Back
  /\ UNCHANGED <<pending, journal, view, requests, world>>

SyncPlayer(then) ==
  /\ \E n \in PlayerShown: view' = [view EXCEPT !["player"] = n]
  /\ Proceed(then)

\* refresh, and the reads every action starts with
Refresh ==
  /\ stage = "ready"
  /\ SyncPlayer("ready")
  /\ UNCHANGED <<mode, polls, pending, journal, requests, world>>

StartChop ==
  /\ stage = "ready"
  /\ SyncPlayer("selecting")
  /\ UNCHANGED <<mode, polls, pending, journal, requests, world>>

Refuse ==
  /\ stage = "selecting" /\ pending # NoTx
  /\ \E n \in TreeShown: view' = [view EXCEPT !["tree"] = n]
  /\ Back
  /\ UNCHANGED <<pending, journal, requests, world>>

\* The journal is on disk before the request leaves.
SubmitChop ==
  /\ stage = "selecting" /\ pending = NoTx
  /\ \E n \in TreeShown:
       /\ view' = [view EXCEPT !["tree"] = n]
       /\ \A k \in Kinds: IsLive(k, view'[k])
       /\ pending' = view' /\ journal' = view'
       /\ requests' = requests \cup {[kind |-> "first", tx |-> view']}
  /\ Proceed("submitting")
  /\ UNCHANGED <<mode, polls, world>>

Reconcile(how) == Proceed("outputs") /\ mode' = how /\ polls' = 0

\* Anything but a success or a definitive rejection: recover at once.
LoseAnswer ==
  /\ stage = "submitting"
  /\ Reconcile("poll")
  /\ UNCHANGED <<pending, journal, view, requests, world>>

\* wait_for_settled_vtxo for both outputs of an accepted swing
AwaitSettled ==
  /\ stage = "settling" /\ Settled(pending)
  /\ view' = IF mode = "first" THEN Successor(pending) ELSE view
  /\ Proceed("applying")
  /\ UNCHANGED <<mode, polls, pending, journal, requests, world>>

\* sync_tree, then clear_pending_chop
ApplyAccepted ==
  /\ stage = "applying"
  /\ \E n \in TreeShown: view' = [view EXCEPT !["tree"] = n]
  /\ pending' = NoTx /\ journal' = NoTx
  /\ Back
  /\ UNCHANGED <<requests, world>>

-----------------------------------------------------------------------------
ResumeChop ==
  /\ stage = "ready" /\ pending # NoTx
  /\ Reconcile("poll")
  /\ UNCHANGED <<pending, journal, view, requests, world>>

\* refresh_world reads both chains first.
RefreshWorld ==
  /\ stage = "ready"
  /\ \E p \in PlayerShown, t \in TreeShown: view' = [player |-> p, tree |-> t]
  /\ IF pending = NoTx THEN Back ELSE Reconcile("refresh")
  /\ UNCHANGED <<pending, journal, requests, world>>

\* reconcile_pending_chop: both successors first, the inputs in a later read
LookOutputs ==
  /\ stage = "outputs"
  /\ Proceed(IF Settled(pending) THEN "applying" ELSE "inputs")
  /\ UNCHANGED <<mode, polls, pending, journal, view, requests, world>>

LookInputs ==
  /\ stage = "inputs"
  /\ IF Conflicts(pending)
     THEN /\ pending' = NoTx /\ journal' = NoTx
          /\ Back
     ELSE /\ UNCHANGED <<pending, journal>>
          /\ IF mode # "poll" THEN Back
             ELSE /\ polls' = polls + 1
                  /\ Proceed(IF polls' < ResumeAttempts THEN "outputs" ELSE "resubmitting")
                  /\ UNCHANGED mode
  /\ UNCHANGED <<view, requests, world>>

\* The same transaction again, while its inputs look live.
Resubmit ==
  /\ stage = "resubmitting"
  /\ IF \A k \in Kinds: IsLive(k, pending[k])
     THEN /\ Proceed("retrying") /\ UNCHANGED mode /\ polls' = 0
          /\ requests' = requests \cup {[kind |-> "retry", tx |-> pending]}
     ELSE Back /\ UNCHANGED requests
  /\ UNCHANGED <<pending, journal, view, world>>

\* No answer or a rejection, which says nothing of the first request: look again.
RetryFails ==
  /\ stage = "retrying"
  /\ Reconcile("recheck")
  /\ UNCHANGED <<pending, journal, view, requests, world>>

-----------------------------------------------------------------------------
(***************************************************************************)
(* The page's other spends.  craft_axe_inner refuses while a swing is      *)
(* pending, withdraw_log_inner and renew_player_inner do not; a tree is    *)
(* regrown from what is shown of it.                                       *)
(***************************************************************************)
SpendFrom(k) ==
  /\ IsLive(k, view'[k])
  /\ Proceed("spending") /\ mode' = k
  /\ UNCHANGED <<polls, pending, journal, requests, world>>

Withdraw ==
  /\ stage = "ready"
  /\ \E n \in PlayerShown: view' = [view EXCEPT !["player"] = n]
  /\ SpendFrom("player")

Craft == pending = NoTx /\ Withdraw

Renew == Withdraw

Regrow ==
  /\ stage = "ready"
  /\ \E n \in TreeShown: view' = [view EXCEPT !["tree"] = n]
  /\ SpendFrom("tree")

-----------------------------------------------------------------------------
(***************************************************************************)
(* The emulator and arkd.                                                  *)
(***************************************************************************)
IsCurrent(t) ==
  \A k \in Spends(t): t[k] = Tip(k) /\ t[k] <= Bound[k] /\ k \notin swept

IsAccepted(t) ==
  Spends(t) # {} /\ \A k \in Spends(t): t[k] < Tip(k) /\ chain[k][t[k]] = t

Take(t) == chain' = [k \in Kinds |-> IF k \in Spends(t) THEN Append(chain[k], t) ELSE chain[k]]

Awaited(r) ==
  \/ r.kind = "first" /\ stage = "submitting" /\ r.tx = pending
  \/ r.kind = "retry" /\ stage = "retrying" /\ r.tx = pending

\* The answer reaches the page that still waits for it, or nobody.
Land(r, answered) ==
  /\ r \in requests /\ (answered => Awaited(r))
  /\ \/ IsCurrent(r.tx) /\ Take(r.tx)
     \/ IsAccepted(r.tx) /\ UNCHANGED chain
  /\ requests' = requests \ {r}
  /\ IF answered THEN Proceed("settling") /\ mode' = r.kind ELSE UNCHANGED <<stage, mode>>
  /\ UNCHANGED polls
  /\ UNCHANGED <<pending, journal, view, marked, listed, swept>>

\* A request that is refused or lost.  Only the answer to the first submission
\* is definitive, and only where it is a refusal.
Drop(r) ==
  /\ r \in requests
  /\ requests' = requests \ {r}
  /\ UNCHANGED <<page, world>>

Refused(r) ==
  /\ r.kind = "first" /\ Awaited(r) /\ ~IsAccepted(r.tx)
  /\ r \in requests
  /\ requests' = requests \ {r}
  /\ pending' = NoTx /\ journal' = NoTx
  /\ Back
  /\ UNCHANGED <<view, world>>

\* The page's own spend is accepted while it waits for it.
SpendLands ==
  LET t == [Zero EXCEPT ![mode] = view[mode]]
  IN /\ stage = "spending" /\ IsCurrent(t)
     /\ Take(t)
     /\ Back
     /\ UNCHANGED <<pending, journal, view, requests, marked, listed, swept>>

\* Everyone else, and a spend of this page's that lands late
OtherSpends(k) ==
  LET t == [Zero EXCEPT ![k] = Tip(k)]
  IN /\ Tip(k) <= Bound[k] /\ k \notin swept
     /\ Take(t)
     /\ UNCHANGED <<page, requests, marked, listed, swept>>

Mark(k) ==
  /\ marked[k] < Len(chain[k])
  /\ marked' = [marked EXCEPT ![k] = @ + 1]
  /\ UNCHANGED <<page, requests, chain, listed, swept>>

List(k) ==
  /\ listed[k] < Len(chain[k])
  /\ listed' = [listed EXCEPT ![k] = @ + 1]
  /\ UNCHANGED <<page, requests, chain, marked, swept>>

Sweep(k) ==
  /\ k \notin swept
  /\ swept' = swept \cup {k}
  /\ UNCHANGED <<page, requests, chain, marked, listed>>

-----------------------------------------------------------------------------
PageStep ==
  \/ OpenPage \/ ClosePage \/ FailChop \/ Refresh \/ StartChop \/ Refuse \/ SubmitChop
  \/ LoseAnswer \/ AwaitSettled \/ ApplyAccepted \/ ResumeChop \/ RefreshWorld
  \/ LookOutputs \/ LookInputs \/ Resubmit \/ RetryFails \/ Withdraw \/ Craft \/ Renew \/ Regrow

OtherStep ==
  \/ SpendLands
  \/ \E r \in requests: Drop(r) \/ Refused(r) \/ \E answered \in BOOLEAN: Land(r, answered)
  \/ \E k \in Kinds: OtherSpends(k) \/ Mark(k) \/ List(k) \/ Sweep(k)

ChopNext == PageStep \/ OtherStep

ChopSpec == ChopInit /\ [][ChopNext]_chopVars

(***************************************************************************)
(* The page is opened again and resumes a pending swing on its timer, what *)
(* is asked is answered, and the indexer catches up.  There are finitely   *)
(* many failures: pages closed, requests and answers lost, and reads that  *)
(* fail where they could go on.                                            *)
(***************************************************************************)
ChopAdvances == AwaitSettled \/ ApplyAccepted \/ LookOutputs \/ LookInputs \/ Resubmit
RetryAnswered == \E r \in requests: r.kind = "retry" /\ Land(r, TRUE)

ChopFailure ==
  \/ ClosePage
  \/ FailChop /\ ~ChopAdvances /\ ENABLED ChopAdvances
  \/ RetryFails /\ ENABLED RetryAnswered
  \/ \E r \in requests: Drop(r) \/ (Awaited(r) /\ Land(r, FALSE))

ChopFairness ==
  /\ WF_chopVars(OpenPage) /\ WF_chopVars(FailChop) /\ WF_chopVars(LoseAnswer)
  /\ WF_chopVars(RetryFails) /\ SF_chopVars(ResumeChop) /\ WF_chopVars(ChopAdvances)
  /\ WF_chopVars(RetryAnswered)
  /\ \A k \in Kinds: WF_chopVars(Mark(k)) /\ WF_chopVars(List(k))
  /\ <>[][~ChopFailure]_chopVars

-----------------------------------------------------------------------------
ChopStages ==
  {"closed", "ready", "selecting", "submitting", "settling", "applying", "outputs", "inputs",
   "resubmitting", "retrying", "spending"}
Modes == {"none", "first", "retry", "poll", "refresh", "recheck"} \cup Kinds

ChopTypeOK ==
  /\ stage \in ChopStages /\ mode \in Modes
  /\ polls \in 0..ResumeAttempts
  /\ pending \in Swing \cup {NoTx} /\ journal \in Swing \cup {NoTx}
  /\ \A k \in Kinds: view[k] \in 0..Tip(k)
  /\ requests \subseteq ChopRequest
  /\ chain \in [Kinds -> Seq(Tx)]
  /\ \A k \in Kinds: marked[k] \in 0..Len(chain[k]) /\ listed[k] \in 0..Len(chain[k])
  /\ swept \subseteq Kinds

\* A swing that can never be accepted any more
Dead(t) == \E k \in Spends(t): (t[k] < Tip(k) /\ chain[k][t[k]] # t) \/ (k \in swept /\ t[k] = Tip(k))

Outstanding == {s \in Swing: IsAccepted(s) \/ \E r \in requests: r.tx = s}

\* A swing arkd has accepted or may still accept is in the journal until the
\* indexer lists both of its outputs; the journal is dropped for a conflict
\* only when the swing can never be accepted.
NoSwingIsForgotten ==
  \A s \in Outstanding: journal = s \/ Settled(s) \/ Dead(s)

\* Through lost answers, closed pages and an indexer that lags
\* (src/web_app.rs:1491), no swing is forgotten that arkd has or may still get.
JournalsAreSound == ChopTypeOK /\ NoSwingIsForgotten

\* A journaled swing is settled or found dead, whatever is lost and whenever the
\* page is closed, as long as the tree it accepted lives on.
JournalIsSettled ==
  \A s \in Swing: (journal = s) ~> (journal # s \/ (IsAccepted(s) /\ "tree" \in swept))
=============================================================================
