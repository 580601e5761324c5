------------------------------ MODULE Bootstrap ------------------------------
(***************************************************************************)
(* The operator's `ensure` command: ensure_world, execute_plan and          *)
(* execute_deployment_shard (src/operator.rs).  All transactions of a world *)
(* are built before the first is submitted, and the plan that holds them is *)
(* written to a file: one issuance, one distribution that splits the        *)
(* treasury over the shards, and in each shard a chain of deployments, one  *)
(* per tree, each spending the treasury the one before left.                *)
(*                                                                         *)
(* A plan is named by the deposits that pay for it; a transaction of it by  *)
(* <<shard, index>>, where shard 0 holds the issuance and the distribution. *)
(* Every request is a step, the command may stop at each, and the indexer   *)
(* lists each output, and marks each input spent, in its own time.          *)
(***************************************************************************)
EXTENDS Integers, Sequences, FiniteSets, FiniteSetsExt

CONSTANTS
  Deposits,        \* assetless outputs the deployer may receive
  Amount,          \* their amounts
  Needed,          \* world_funding_sats
  Sizes,           \* trees per shard, tree_states().chunks(DEPLOYMENT_SHARD_SIZE)
  Repeats,         \* whether arkd answers a transaction it has cosigned before
  MaxFaults,       \* bound: crashes, timeouts and lost answers
  MaxChops         \* bound: trees chopped before the world is complete

VARIABLES
  manifest,   \* the plan whose manifest is published, or NoPlan
  planFile,   \* the plan in the plan file, or NoPlan
  pc,         \* where the command is; "off" when it does not run
  plan,       \* the plan the command executes
  deployed,   \* steps whose tree was listed when it looked
  spentOut,   \* whether the issuance was marked spent when it looked
  at,         \* what each actor (0 and the shards) is doing
  pos,        \* the deployment each shard is at
  inflight,   \* requests on their way to arkd
  accepted,   \* arkd: transactions cosigned and not finalized
  final,      \* arkd: transactions finalized
  listed,     \* indexer: deposits and outputs it lists
  marked,     \* indexer: transactions whose inputs it shows as spent
  chopped,    \* indexer: trees a player has spent again
  faults

disk == <<manifest, planFile>>
command == <<pc, plan, deployed, spentOut, at, pos>>
arkd == <<accepted, final>>
index == <<listed, marked, chopped>>
ensureVars == <<disk, command, inflight, arkd, index, faults>>

-----------------------------------------------------------------------------
Shards == 1..Len(Sizes)
NoPlan == {}
Plans == (SUBSET Deposits) \ {NoPlan}

Issue == <<0, 0>>
Distribute == <<0, 1>>
Deployments == UNION {{<<s, k>>: k \in 1..Sizes[s]}: s \in Shards}
Steps == {Issue, Distribute} \cup Deployments

Tx == [plan: Plans, step: Steps]

\* The transaction that makes the output a step spends.
Before(step) == IF step = Distribute THEN Issue
                ELSE IF step[2] = 1 THEN Distribute ELSE <<step[1], step[2] - 1>>

\* An output of a plan: the treasury a step spends, or the tree a step deploys.
Source(p, step) == [plan |-> p, kind |-> "treasury", step |-> step]
TreeOut(p, step) == [plan |-> p, kind |-> "tree", step |-> step]
Out == [plan: Plans, kind: {"treasury", "tree"}, step: Steps]
Outputs(t) ==
  {Source(t.plan, step): step \in {x \in Steps \ {Issue}: Before(x) = t.step}}
    \cup {TreeOut(t.plan, step): step \in Deployments \cap {t.step}}

\* A deposit is none of them.
ASSUME BootstrapAssumption ==
  /\ Amount \in [Deposits -> Nat] /\ Needed \in Nat /\ Deposits \cap Out = {}
  /\ Sizes \in Seq(Nat \ {0}) /\ Len(Sizes) > 0
  /\ Repeats \in BOOLEAN /\ MaxFaults \in Nat /\ MaxChops \in Nat

Submit(t) == [kind |-> "submit", tx |-> t]
Finalize(t) == [kind |-> "finalize", tx |-> t]

Actors == {0} \cup Shards
\* The transaction an actor has under way.
Job(a) == [plan |-> plan,
           step |-> IF a > 0 THEN <<a, pos[a]>>
                    ELSE IF pc = "issue" THEN Issue ELSE Distribute]
Busy(a) == IF a = 0 THEN pc \in {"issue", "distribute"} ELSE pc = "deploy"

\* What the actor waits for after its transaction: wait_for_exact_vtxo.
Awaited(a) == IF a > 0 THEN {TreeOut(plan, <<a, pos[a]>>)}
              ELSE IF pc = "issue" THEN {Source(plan, Distribute)}
              ELSE {Source(plan, <<s, 1>>): s \in Shards}

-----------------------------------------------------------------------------
AllReady == [a \in Actors |-> "ready"]
FirstPos == [s \in Shards |-> 1]

EnsureInit ==
  /\ manifest = NoPlan /\ planFile = NoPlan
  /\ pc = "off" /\ plan = NoPlan /\ deployed = {} /\ spentOut = FALSE
  /\ at = AllReady /\ pos = FirstPos
  /\ inflight = {} /\ accepted = {} /\ final = {}
  /\ listed = {} /\ marked = {} /\ chopped = {}
  /\ faults = 0

Stop ==
  /\ pc' = "off" /\ plan' = NoPlan /\ deployed' = {} /\ spentOut' = FALSE
  /\ at' = AllReady /\ pos' = FirstPos

Goto(stage) == pc' = stage /\ UNCHANGED <<plan, deployed, spentOut, at, pos>>

Fault == faults < MaxFaults /\ faults' = faults + 1

\* ensure_world.  A published manifest ends the matter; a plan file is resumed.
Start ==
  /\ pc = "off" /\ manifest = NoPlan
  /\ plan' = planFile
  /\ pc' = IF planFile = NoPlan THEN "fund" ELSE "look"
  /\ UNCHANGED <<disk, deployed, spentOut, at, pos, inflight, arkd, index, faults>>

\* Deposits the indexer lists as spendable.
Spendable == {d \in Deposits: d \in listed /\ ~\E t \in marked: t.step = Issue /\ d \in t.plan}

\* select_funding: one output of exactly the amount, or all of them together.
Fundings(ds) ==
  LET exact == {d \in ds: Amount[d] = Needed}
  IN  IF exact # {} THEN {{d}: d \in exact}
      ELSE {x \in {ds} \ {{}}: MapThenSumSet(LAMBDA d: Amount[d], x) = Needed}

ChooseFunding ==
  /\ pc = "fund"
  /\ \E p \in Fundings(Spendable): plan' = p
  /\ pc' = "save"
  /\ UNCHANGED <<disk, deployed, spentOut, at, pos, inflight, arkd, index, faults>>

\* Mutant: the plan is kept in memory only.
SavePlanNever ==
  /\ pc = "save"
  /\ Goto("look")
  /\ UNCHANGED <<disk, inflight, arkd, index, faults>>

\* write_json_atomic: the file appears whole or not at all.
SavePlan ==
  /\ pc = "save"
  /\ planFile' = plan
  /\ Goto("look")
  /\ UNCHANGED <<manifest, inflight, arkd, index, faults>>

\* A deployment that was listed, spent or not, is not submitted again.
LookForTrees ==
  /\ pc = "look"
  /\ deployed' = {step \in Deployments: TreeOut(plan, step) \in listed}
  /\ pc' = "issuance"
  /\ UNCHANGED <<disk, plan, spentOut, at, pos, inflight, arkd, index, faults>>

LookForIssuance ==
  /\ pc = "issuance"
  /\ IF Source(plan, Distribute) \in listed
     THEN /\ spentOut' = ([plan |-> plan, step |-> Distribute] \in marked)
          /\ pc' = "shards"
          /\ UNCHANGED <<plan, deployed, at, pos>>
     ELSE IF deployed = {} THEN Goto("funding") ELSE Stop
  /\ UNCHANGED <<disk, inflight, arkd, index, faults>>

\* submit_direct: sign and submit.
Send(a, step) ==
  /\ at' = [at EXCEPT ![a] = "submit"]
  /\ inflight' = inflight \cup {Submit([plan |-> plan, step |-> step])}

\* The funding must be listed, unspent and clean.
CheckFunding ==
  /\ pc = "funding"
  /\ IF plan \subseteq Spendable
     THEN Send(0, Issue) /\ pc' = "issue" /\ UNCHANGED <<plan, deployed, spentOut, pos>>
     ELSE Stop /\ UNCHANGED inflight
  /\ UNCHANGED <<disk, arkd, index, faults>>

AllShardsListed == \A s \in Shards: Source(plan, <<s, 1>>) \in listed

\* The shards' outputs; incomplete, they are distributed unless the issuance
\* was already spent.
LookForShards ==
  /\ pc = "shards"
  /\ IF AllShardsListed
     THEN Goto("deploy") /\ UNCHANGED inflight
     ELSE IF spentOut THEN Stop /\ UNCHANGED inflight
     ELSE Send(0, Distribute) /\ pc' = "distribute" /\ UNCHANGED <<plan, deployed, spentOut, pos>>
  /\ UNCHANGED <<disk, arkd, index, faults>>

-----------------------------------------------------------------------------
(***************************************************************************)
(* submit_direct and the wait for its output, by the command itself for    *)
(* the first two transactions and by each shard for its deployments.  An   *)
(* error ends the command; a shard's error is collected, and the other     *)
(* shards go on.                                                           *)
(***************************************************************************)
Fails(a) == IF a = 0 THEN Stop
            ELSE at' = [at EXCEPT ![a] = "failed"] /\ UNCHANGED <<pc, plan, deployed, spentOut, pos>>

\* The actors that wait for arkd's answer about a transaction.
Waiting(t, phase) == {a \in Actors: Busy(a) /\ at[a] = phase /\ Job(a) = t}
Answer(t, phase, next) ==
  /\ at' = [a \in Actors |-> IF a \in Waiting(t, phase) THEN next ELSE at[a]]
  /\ UNCHANGED <<pc, plan, deployed, spentOut, pos>>

\* Another world already has a deposit of this issuance.
Conflicts(t) ==
  t.step = Issue /\ \E u \in accepted \cup final: u # t /\ u.step = Issue /\ u.plan \cap t.plan # {}
InputsExist(t) == t.step # Issue => [t EXCEPT !.step = Before(t.step)] \in final

LandSubmit(t) ==
  /\ Submit(t) \in inflight
  /\ t \notin final /\ (t \in accepted => Repeats)
  /\ InputsExist(t) /\ ~Conflicts(t)
  /\ inflight' = inflight \ {Submit(t)}
  /\ accepted' = accepted \cup {t}
  /\ Answer(t, "submit", "finalize")
  /\ UNCHANGED <<disk, final, index, faults>>

\* arkd refuses what conflicts, and what it has cosigned already.
Refuse(t) ==
  /\ Submit(t) \in inflight
  /\ t \in final \/ (t \in accepted /\ ~Repeats) \/ Conflicts(t)
  /\ inflight' = inflight \ {Submit(t)}
  /\ IF Waiting(t, "submit") = {} THEN UNCHANGED command
     ELSE \E a \in Waiting(t, "submit"): Fails(a)
  /\ UNCHANGED <<disk, arkd, index, faults>>

\* finalize_pending is tried again while the command lives.
SendFinalize(a) ==
  /\ Busy(a) /\ at[a] = "finalize"
  /\ inflight' = inflight \cup {Finalize(Job(a))}
  /\ UNCHANGED <<disk, command, arkd, index, faults>>

LandFinalize(t) ==
  /\ Finalize(t) \in inflight
  /\ inflight' = inflight \ {Finalize(t)}
  /\ accepted' = accepted \ {t}
  /\ final' = final \cup {t}
  /\ Answer(t, "finalize", "wait")
  /\ UNCHANGED <<disk, index, faults>>

\* wait_for_exact_vtxo returns, and the actor goes on.
Received(a) ==
  /\ Busy(a) /\ at[a] = "wait" /\ Awaited(a) \subseteq listed
  /\ at' = [at EXCEPT ![a] = "ready"]
  /\ IF a > 0
     THEN pos' = [pos EXCEPT ![a] = @ + 1] /\ UNCHANGED <<pc, spentOut>>
     ELSE /\ pc' = IF pc = "issue" THEN "shards" ELSE "deploy"
          /\ spentOut' = ([plan |-> plan, step |-> Distribute] \in marked)
          /\ UNCHANGED pos
  /\ UNCHANGED <<disk, plan, deployed, inflight, arkd, index, faults>>

\* execute_deployment_shard: the next deployment that was not listed, once its
\* treasury is listed; a treasury that is spent is an error.
NextDeployment(s) ==
  /\ pc = "deploy" /\ at[s] = "ready" /\ pos[s] <= Sizes[s]
  /\ IF <<s, pos[s]>> \in deployed
     THEN pos' = [pos EXCEPT ![s] = @ + 1] /\ UNCHANGED <<at, inflight>>
     ELSE /\ Source(plan, <<s, pos[s]>>) \in listed
          /\ UNCHANGED pos
          /\ IF Job(s) \in marked
             THEN at' = [at EXCEPT ![s] = "failed"] /\ UNCHANGED inflight
             ELSE Send(s, <<s, pos[s]>>)
  /\ UNCHANGED <<disk, pc, plan, deployed, spentOut, arkd, index, faults>>

\* The answer of a request that was lost does not come.
TimesOut(a) ==
  /\ Busy(a) /\ at[a] = "submit" /\ Submit(Job(a)) \notin inflight
  /\ Fails(a)
  /\ UNCHANGED <<disk, inflight, arkd, index, faults>>

\* Polling, a submission or a finalization runs out of attempts or time.
GiveUp(a) ==
  /\ Busy(a) /\ at[a] \in {"submit", "finalize", "wait"} /\ Fault
  /\ Fails(a)
  /\ UNCHANGED <<disk, inflight, arkd, index>>

ShardDone(s) == at[s] = "failed" \/ (at[s] = "ready" /\ pos[s] > Sizes[s])

\* All shards have ended; the manifest is published when none failed.
Publish ==
  /\ pc = "deploy" /\ \A s \in Shards: ShardDone(s)
  /\ IF \E s \in Shards: at[s] = "failed"
     THEN Stop /\ UNCHANGED disk
     ELSE manifest' = plan /\ Goto("clean") /\ UNCHANGED planFile
  /\ UNCHANGED <<inflight, arkd, index, faults>>

RemovePlan ==
  /\ pc = "clean"
  /\ planFile' = NoPlan
  /\ Stop
  /\ UNCHANGED <<manifest, inflight, arkd, index, faults>>

Crash ==
  /\ pc # "off" /\ Fault
  /\ Stop
  /\ UNCHANGED <<disk, inflight, arkd, index>>

-----------------------------------------------------------------------------
Lose(r) ==
  /\ r \in inflight /\ Fault
  /\ inflight' = inflight \ {r}
  /\ UNCHANGED <<disk, command, arkd, index>>

Arrive(d) ==
  /\ d \notin listed
  /\ listed' = listed \cup {d}
  /\ UNCHANGED <<disk, command, inflight, arkd, marked, chopped, faults>>

List(out) ==
  /\ listed' = listed \cup {out}
  /\ UNCHANGED <<disk, command, inflight, arkd, marked, chopped, faults>>

Mark(t) ==
  /\ marked' = marked \cup {t}
  /\ UNCHANGED <<disk, command, inflight, arkd, listed, chopped, faults>>

\* A player with the world's constants chops a tree as soon as it is listed.
ChopEarly(tree) ==
  /\ tree.kind = "tree" /\ Cardinality(chopped) < MaxChops
  /\ chopped' = chopped \cup {tree}
  /\ UNCHANGED <<disk, command, inflight, arkd, listed, marked, faults>>

Command ==
  \/ Start \/ ChooseFunding \/ SavePlan \/ LookForTrees \/ LookForIssuance \/ CheckFunding
  \/ LookForShards \/ Publish \/ RemovePlan

Acts(a) == SendFinalize(a) \/ Received(a) \/ TimesOut(a) \/ (a \in Shards /\ NextDeployment(a))

Failure ==
  \/ Crash
  \/ \E a \in Actors: GiveUp(a)
  \/ \E r \in inflight: Lose(r)

Lands(t) == LandSubmit(t) \/ Refuse(t) \/ LandFinalize(t)

Indexes(t) ==
  /\ t \in final
  /\ (\E out \in Outputs(t) \ listed: List(out)) \/ (t \notin marked /\ Mark(t))

EnsureNext ==
  \/ Command \/ Failure
  \/ \E a \in Actors: Acts(a)
  \/ \E r \in inflight: Lands(r.tx)
  \/ \E t \in final: Indexes(t)
  \/ \E d \in Deposits: Arrive(d)
  \/ \E tree \in listed \ (Deposits \cup chopped): ChopEarly(tree)

EnsureSpec == EnsureInit /\ [][EnsureNext]_ensureVars

(***************************************************************************)
(* The scripts run `ensure` until it succeeds; after the last fault every  *)
(* request is answered, and the indexer catches up.                        *)
(***************************************************************************)
EnsureFairness ==
  /\ WF_ensureVars(Command)
  /\ \A a \in Actors: WF_ensureVars(Acts(a))
  /\ \A t \in Tx: WF_ensureVars(Lands(t)) /\ WF_ensureVars(Indexes(t))

-----------------------------------------------------------------------------
Stages == {"off", "fund", "save", "look", "issuance", "funding", "issue", "shards", "distribute",
           "deploy", "clean"}
EnsureTypeOK ==
  /\ manifest \in Plans \cup {NoPlan} /\ planFile \in Plans \cup {NoPlan}
  /\ pc \in Stages /\ (pc \in {"off", "fund"} <=> plan = NoPlan) /\ plan \in Plans \cup {NoPlan}
  /\ deployed \subseteq Deployments /\ spentOut \in BOOLEAN
  /\ at \in [Actors -> {"ready", "submit", "finalize", "wait", "failed"}]
  /\ \A s \in Shards: pos[s] \in 1..(Sizes[s] + 1)
  /\ inflight \subseteq [kind: {"submit", "finalize"}, tx: Tx]
  /\ accepted \subseteq Tx /\ final \subseteq Tx /\ accepted \cap final = {}
  /\ listed \subseteq Deposits \cup Out /\ marked \subseteq final
  /\ chopped \subseteq listed
  /\ faults \in 0..MaxFaults

\* Nothing is ever sent to arkd that a restart would not find in the plan file,
\* or that the published manifest does not cover: one world is issued, whatever
\* deposits arrive and wherever the command dies.
NothingOutsideThePlan ==
  \A t \in accepted \cup final \cup {r.tx: r \in inflight}:
    t.plan = IF manifest = NoPlan THEN planFile ELSE manifest

\* A published manifest names trees that all exist.
ManifestIsDeployed ==
  manifest # NoPlan => \A step \in Steps: [plan |-> manifest, step |-> step] \in final

\* Wherever `ensure` dies (src/operator.rs:1154) and whatever deposits arrive, all
\* that was sent is in the plan file or under the manifest, and a published
\* manifest names a world that exists: there is one world.
OneWorld == EnsureTypeOK /\ NothingOutsideThePlan /\ ManifestIsDeployed

\* A plan once written ends in a published manifest, given that arkd answers a
\* transaction it has cosigned before (Repeats).
PlansAreCarriedOut == (planFile # NoPlan) ~> (manifest # NoPlan)
=============================================================================
