---------------------------- MODULE OperatorWatch ----------------------------
(***************************************************************************)
(* The operator's watch loop: renew_expiring_trees and what it calls        *)
(* (src/operator.rs), the lineage scan of src/world.rs, and the margin of   *)
(* src/arkade.rs.  Every pass takes one view of all trees, picks those that *)
(* are due, earliest expiry first, and renews them in waves.  A renewal     *)
(* takes minutes, in which players chop the tree, the indexer lags and arkd *)
(* may ban the script all trees share, or begin or cease to charge.  While  *)
(* it charges, a renewal also spends an output of the wallet of the         *)
(* rollover key, which the game server's delegated renewals use as well:    *)
(* the size of a wave follows what arkd charged when the watcher connected, *)
(* the payment of a renewal what it charges when that one connects.         *)
(*                                                                         *)
(* The batch itself is one step: module BatchJoin.  Time is counted in      *)
(* units of DEFAULT_EXPIRY_MARGIN_SECS.                                     *)
(***************************************************************************)
EXTENDS Integers, Sequences, FiniteSets

CONSTANTS
  Trees,        \* tree ids
  Broken,       \* trees whose renewal fails in every batch
  Hidden,       \* trees whose next output the indexer may never list
  Concurrency,  \* RENEWAL_CONCURRENCY: 8
  Policies,     \* whether arkd charges for renewals: what it may change between
  BatchLife,    \* lifetime a batch gives its outputs
  LifeLeft,     \* what the trees have left of it when the watcher is started
  MinMargin, MaxMargin, ExpiryMargin,
  MaxTime, MaxOutputs,  \* bounds
  MaxCoins      \* bound: outputs of the wallet while the server renews from it, too

ASSUME WatchAssumption ==
  /\ Trees \subseteq Nat /\ IsFiniteSet(Trees)
  /\ Broken \subseteq Trees /\ Hidden \subseteq Trees
  /\ Concurrency \in Nat \ {0} /\ Policies \in (SUBSET BOOLEAN) \ {{}}
  /\ {BatchLife, MinMargin, MaxMargin, ExpiryMargin} \subseteq Nat
  /\ {MaxTime, MaxCoins} \subseteq Nat /\ MaxOutputs \in Nat \ {0}
  /\ ExpiryMargin < MinMargin /\ MinMargin < MaxMargin /\ MinMargin < BatchLife
  /\ LifeLeft \in 0..BatchLife

VARIABLES
  now,
  chain,     \* per tree, its outputs so far; the last one is unspent
  seen,      \* indexer: the output of the tree that it lists last
  gap,       \* indexer: whether it shows that one as spent already
  detail,    \* indexer: what it has of that one besides the listing
  banned,    \* arkd: the shared script
  charging,  \* arkd: whether a renewal pays, now
  coin,      \* the wallet's output, renewals make the next from it
  coinSeen,  \* the one the indexer lists as spendable, or 0
  fees,      \* whether arkd charged when the watcher connected for this pass
  queue,     \* candidates of the pass that no wave has taken yet
  wave,      \* the renewals of the current wave
  met        \* renewals of this pass that arkd answered with the ban

ledger == <<now, chain, banned, charging, coin>>
indexer == <<seen, gap, detail, coinSeen>>
watcher == <<fees, queue, wave, met>>
vars == <<ledger, indexer, watcher>>

-----------------------------------------------------------------------------
Output == [created: 0..MaxTime, expires: 0..(MaxTime + BatchLife), stump: BOOLEAN]

\* An output is listed at once; its transaction and its expiry come later.
Details == {"bare", "undated", "whole"}

\* A renewal under way: none, chosen, or in a batch with its funding (0: none).
Idle == [phase |-> "idle", out |-> 0, coin |-> 0]
Renewal == [phase: {"idle", "chosen", "settling"}, out: 0..MaxOutputs, coin: Nat]

Init ==
  /\ now = 0
  /\ chain = [t \in Trees |-> <<[created |-> 0, expires |-> LifeLeft, stump |-> FALSE]>>]
  /\ seen = [t \in Trees |-> 1]
  /\ gap = [t \in Trees |-> FALSE]
  /\ detail = [t \in Trees |-> "whole"]
  /\ banned = FALSE /\ charging \in Policies
  /\ coin = 1 /\ coinSeen = 1
  /\ fees = FALSE /\ queue = <<>> /\ wave = [t \in Trees |-> Idle] /\ met = 0

Clamp(x, low, high) == IF x < low THEN low ELSE IF x > high THEN high ELSE x

\* Mutant: always the longest margin.
RolloverMarginLongest(o) == MaxMargin

\* VtxoRecord::rollover_margin_seconds
RolloverMargin(o) == Clamp((o.expires - o.created) \div 2, MinMargin, MaxMargin)

\* tree_rollover_due; the stump of a tree that has no LOG left is maintained
\* like a tree, so it is not told apart from one here.
RolloverDue(o) == o.stump \/ o.expires - now < RolloverMargin(o)

Current(t) == chain[t][Len(chain[t])]
Live(o) == o.expires > now

\* Trees whose frontier the scan finds and whose expiry is reported.
Found == {t \in Trees: ~gap[t] /\ detail[t] = "whole"}

\* Mutant: a lineage with a gap fails the pass, as it does for gameplay.
CandidatesStrict ==
  IF \E t \in Trees: gap[t] THEN {}
  ELSE {t \in Found: RolloverDue(chain[t][seen[t]])}

Candidates == {t \in Found: RolloverDue(chain[t][seen[t]])}

Earlier(t, u) ==
  LET e == chain[t][seen[t]].expires
      f == chain[u][seen[u]].expires
  IN  e < f \/ (e = f /\ t < u)

-----------------------------------------------------------------------------
(***************************************************************************)
(* The watcher.                                                            *)
(***************************************************************************)
Running == {t \in Trees: wave[t].phase # "idle"}

\* connect_services, load_current_trees, which fails while the transaction of a
\* listed output of any tree is missing, and partition_rollover_candidates.
StartPass ==
  /\ queue = <<>> /\ Running = {}
  /\ \A t \in Trees: detail[t] # "bare"
  /\ Candidates # {}
  /\ \E order \in [1..Cardinality(Candidates) -> Candidates]:
       /\ \A i, j \in DOMAIN order: i < j => Earlier(order[i], order[j])
       /\ queue' = [i \in DOMAIN order |-> [tree |-> order[i], out |-> seen[order[i]]]]
  /\ met' = 0 /\ fees' = charging
  /\ UNCHANGED <<ledger, indexer, wave>>

WaveSize == IF fees THEN 1 ELSE Concurrency

\* Mutant: the pass goes on after a ban.
MayGoOnAlways == TRUE

MayGoOn == met = 0

StartWave ==
  /\ queue # <<>> /\ Running = {}
  /\ LET n == IF Len(queue) < WaveSize THEN Len(queue) ELSE WaveSize
         taken == {queue[i]: i \in 1..n}
     IN  IF MayGoOn
         THEN /\ wave' = [t \in Trees |->
                   IF \E c \in taken: c.tree = t
                   THEN [phase |-> "chosen", out |-> (CHOOSE c \in taken: c.tree = t).out, coin |-> 0]
                   ELSE Idle]
              /\ queue' = SubSeq(queue, n + 1, Len(queue))
         ELSE queue' = <<>> /\ UNCHANGED wave
  /\ UNCHANGED <<ledger, indexer, fees, met>>

\* prepare_tree's ensure_live, renewal_requires_fee as arkd answers now, and
\* find_renewal_fee_funding: the largest clean output the indexer lists as spendable.
Prepare(t) ==
  /\ wave[t].phase = "chosen"
  /\ IF /\ chain[t][wave[t].out].expires > now + ExpiryMargin
        /\ charging => coinSeen # 0
     THEN wave' = [wave EXCEPT ![t] =
            [phase |-> "settling", out |-> @.out, coin |-> IF charging THEN coinSeen ELSE 0]]
     ELSE wave' = [wave EXCEPT ![t] = Idle]
  /\ UNCHANGED <<ledger, indexer, fees, queue, met>>

\* arkd settles what is unspent and live, paid with an unspent output.
Accepted(t) ==
  /\ t \notin Broken /\ ~banned
  /\ wave[t].out = Len(chain[t]) /\ Live(Current(t))
  /\ wave[t].coin \in (IF charging THEN {coin} ELSE {0, coin})

Settle(t) ==
  /\ wave[t].phase = "settling" /\ Accepted(t) /\ Len(chain[t]) < MaxOutputs
  /\ chain' = [chain EXCEPT ![t] = Append(@,
       [created |-> now, expires |-> now + BatchLife, stump |-> FALSE])]
  /\ coin' = IF wave[t].coin # 0 THEN coin + 1 ELSE coin
  /\ wave' = [wave EXCEPT ![t] = Idle]
  /\ UNCHANGED <<now, banned, charging, indexer, fees, queue, met>>

Fail(t) ==
  /\ wave[t].phase = "settling" /\ ~banned
  /\ wave' = [wave EXCEPT ![t] = Idle]
  /\ UNCHANGED <<ledger, indexer, fees, queue, met>>

\* VTXO_BANNED
MeetBan(t) ==
  /\ wave[t].phase = "settling" /\ banned
  /\ wave' = [wave EXCEPT ![t] = Idle]
  /\ met' = met + 1
  /\ UNCHANGED <<ledger, indexer, fees, queue>>

-----------------------------------------------------------------------------
\* The server's worker renews a player with an output of the same wallet.
ServerRenewal ==
  /\ charging /\ coin < MaxCoins
  /\ coin' = coin + 1
  /\ UNCHANGED <<now, chain, banned, charging, indexer, watcher>>

(***************************************************************************)
(* Players, arkd and its indexer.                                          *)
(***************************************************************************)
Tick ==
  /\ now < MaxTime
  /\ now' = now + 1
  /\ UNCHANGED <<chain, banned, charging, coin, indexer, watcher>>

\* The successor inherits the expiry; the chop may take the last LOG.
Chop(t) ==
  /\ Len(chain[t]) < MaxOutputs - 1
  /\ Current(t).expires > now + ExpiryMargin /\ ~Current(t).stump
  /\ \E s \in BOOLEAN: chain' = [chain EXCEPT ![t] = Append(@,
       [Current(t) EXCEPT !.created = now, !.stump = s])]
  /\ UNCHANGED <<now, banned, charging, coin, indexer, watcher>>

Ban ==
  /\ ~banned /\ banned' = TRUE
  /\ UNCHANGED <<now, chain, charging, coin, indexer, watcher>>

Unban ==
  /\ banned /\ banned' = FALSE
  /\ UNCHANGED <<now, chain, charging, coin, indexer, watcher>>

ChangePolicy ==
  /\ charging' \in Policies \ {charging}
  /\ UNCHANGED <<now, chain, banned, coin, indexer, watcher>>

MarkSpent(t) ==
  /\ seen[t] < Len(chain[t]) /\ ~gap[t]
  /\ gap' = [gap EXCEPT ![t] = TRUE]
  /\ UNCHANGED <<ledger, seen, detail, coinSeen, watcher>>

ListSuccessor(t) ==
  /\ gap[t]
  /\ seen' = [seen EXCEPT ![t] = @ + 1]
  /\ gap' = [gap EXCEPT ![t] = FALSE]
  /\ detail' = [detail EXCEPT ![t] = "bare"]
  /\ UNCHANGED <<ledger, coinSeen, watcher>>

IndexTransaction(t) ==
  /\ detail[t] = "bare" /\ detail' = [detail EXCEPT ![t] = "undated"]
  /\ UNCHANGED <<ledger, seen, gap, coinSeen, watcher>>

ReportExpiry(t) ==
  /\ detail[t] = "undated" /\ detail' = [detail EXCEPT ![t] = "whole"]
  /\ UNCHANGED <<ledger, seen, gap, coinSeen, watcher>>

IndexWallet ==
  /\ coinSeen # coin
  /\ coinSeen' \in {coin} \cup (IF coinSeen = 0 THEN {} ELSE {0})
  /\ UNCHANGED <<ledger, seen, gap, detail, watcher>>

Next ==
  \/ StartPass \/ StartWave \/ ServerRenewal
  \/ \E t \in Trees: Prepare(t) \/ Settle(t) \/ Fail(t) \/ MeetBan(t)
  \/ Tick \/ Ban \/ Unban \/ ChangePolicy \/ IndexWallet
  \/ \E t \in Trees: Chop(t) \/ MarkSpent(t) \/ ListSuccessor(t)
  \/ \E t \in Trees: IndexTransaction(t) \/ ReportExpiry(t)

Spec == Init /\ [][Next]_vars

(***************************************************************************)
(* The loop runs every minute and a batch ends one way or the other; the   *)
(* batch of a healthy tree fails finitely often, and the indexer catches   *)
(* up.  Bans end, and although there may be any number of them, renewals   *)
(* run into them finitely often: the pass ends where it meets one, and the *)
(* next begins with the same trees, so the ones behind them would wait for *)
(* as long as that goes on.  Time need not go on.                          *)
(***************************************************************************)
Fairness ==
  /\ WF_vars(StartPass) /\ WF_vars(StartWave) /\ WF_vars(Unban) /\ WF_vars(IndexWallet)
  /\ \A t \in Trees: WF_vars(Prepare(t)) /\ WF_vars(Settle(t) \/ Fail(t) \/ MeetBan(t))
  /\ <>[][\A t \in Trees \ Broken: ~(Fail(t) /\ ENABLED Settle(t))]_vars
  /\ <>[][\A t \in Trees: ~MeetBan(t)]_vars
  /\ \A t \in Trees: WF_vars(IndexTransaction(t))
  /\ \A t \in Trees \ Hidden: WF_vars(MarkSpent(t)) /\ WF_vars(ListSuccessor(t)) /\ WF_vars(ReportExpiry(t))

-----------------------------------------------------------------------------
TypeOK ==
  /\ now \in 0..MaxTime
  /\ \A t \in Trees: chain[t] \in Seq(Output) /\ Len(chain[t]) \in 1..MaxOutputs
  /\ \A t \in Trees: seen[t] \in 1..Len(chain[t]) /\ (gap[t] => seen[t] < Len(chain[t]))
  /\ detail \in [Trees -> Details]
  /\ {fees, charging, banned} \subseteq BOOLEAN
  /\ coin \in Nat \ {0} /\ coinSeen \in 0..coin
  /\ \A i \in DOMAIN queue: queue[i].tree \in Trees /\ wave[queue[i].tree] = Idle
  /\ wave \in [Trees -> Renewal] /\ met \in Nat

\* A pass brings arkd's ban upon itself in one wave at most.
BansStayInOneWave == met <= WaveSize

\* Two renewals under way are paid with the same output of the wallet only in a pass
\* that connected before arkd began to charge (src/operator.rs:1462 sizes the waves by
\* what it charged then): if it charged already, no two are, whatever it does since.
FundingIsExclusive ==
  LET paying == {t \in Trees: wave[t].phase = "settling" /\ wave[t].coin # 0}
  IN  \A t, u \in paying: t # u /\ wave[t].coin = wave[u].coin => ~fees

\* A pass of `watch` (src/operator.rs:1512) meets a ban in one wave at most, and
\* once it connects to an arkd that charges, pays no two renewals with one output.
WavesAreSound == TypeOK /\ BansStayInOneWave /\ FundingIsExclusive

\* A tree is renewed only when it is due, and what the batch returns is not due
\* again: the watcher does not loop, however short batches live.
RenewalStep ==
  \A t \in Trees:
    (Len(chain'[t]) > Len(chain[t]) /\ Current(t)'.expires > Current(t).expires)
      => RolloverDue(Current(t)) /\ ~RolloverDue(Current(t))'
NoRenewalLoop == [][RenewalStep]_vars

\* What can no longer be renewed by cooperation.
TooLate(o) == o.expires <= now + ExpiryMargin

\* A due tree is renewed, or moved by a player, before it is too late, whatever
\* happens to other trees: batches that always fail, successors that are never listed
\* (src/operator.rs:1387); given that renewals meet arkd's bans finitely often.
DueTreesAreRenewed ==
  \A t \in Trees \ (Broken \cup Hidden): \A i \in 1..(MaxOutputs - 1):
    (Len(chain[t]) = i /\ RolloverDue(Current(t)) /\ ~TooLate(Current(t)))
      ~> (Len(chain[t]) > i \/ TooLate(Current(t)))
=============================================================================
