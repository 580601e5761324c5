# Formal models of woodland.sh

TLA+ modules, TLC runs and TLAPS proofs for this repository. Paths are relative
to the directory that holds `tla/`: `src/src/server.rs` is the server's source,
`src/PLAYER.md` a document of the repository.

woodland.sh is a woodcutting game on Arkade. Trees and players are outputs
(VTXOs) that carry assets and small packets; covenant scripts decide which
transactions may spend them. Nobody has to trust the client, the operator's
tools or the server for the economy: what the scripts accept is the game. The
server is a convenience: a leaderboard, and renewal of expiring player outputs
for owners who signed for it. What is left to trust, and what is hard, is that
outputs expire: they have to be renewed in time, in batches of the Ark server
(arkd), by programs that crash, race and read a lagging indexer.

## 1. Inventory

### Components

**Player luck** (`player.rs` 249-442). State: a hash-chain roll and a credit in
a corridor of two windows, carried in the player's packets. Operation:
`PlayerLuck::advance`, `material_drop`. Correct when the credit never leaves the
corridor, streaks have the published bounds and the payout follows the rates.

**Covenants** (`player.rs` 831-2050, `tree.rs` 521-1025). State: per tree its
health packet and its four reserves (LOG, XP, STONE, IRON ORE); per player its
roll, credit and axe packets, how the identity was issued, and its assets. Each
operation is a leaf script: activate, chop, craft, withdraw, renew (player);
chop, regrow, maintain (tree). A chop runs two scripts, one on each input, and
each pins only its part of the transaction. A player output need not come from a
covenant at all: anyone who owns a PLAYER_ID marker can send it to a player
script with packets of their choice. Correct when the scripts together allow
exactly the game, every honest move is accepted, nothing is minted, diverted or
stranded, and XP stays with its player.

**Client builders** (`chop.rs`, `client.rs`). They compute the successor state
in host arithmetic and assemble the transaction. Correct when the scripts accept
what they build.

**Client journal, submission and sync** (`web_app.rs`, `txbuild.rs`). State: the
profile in browser storage (PLAYER_ID and a pending activation), a pending chop,
the tree records last seen. Operations: activate and resume, chop and reconcile,
sync. Hard: the page closes at any point; the answer of a submission is lost;
accepted transactions are not final, final ones not indexed yet; a tree moves
while it is followed. Correct when what arkd was asked to do is not forgotten, no
refusal is taken for a conflict, and what is shown is not older than what was.

**Server registry** (`server.rs` 72-131, 654-1042). State: registered players
with their signed delegation consent (persisted as one JSON file), a cached
leaderboard state per player (memory only), a replay clock (memory only), a
persistence lock. Operations: register, set delegation, load, save. Hard:
handlers interleave at every await, requests are late or repeated, the process
restarts. Correct when answered consent is never lost or invented, and the file
can be loaded.

**Server workers** (`server.rs` 1203-1460, `watchtower.rs`). Refresh verifies a
moving window of the registry and applies results later; renewal queues due
players and joins one batch after another, minutes apart. Both race the handlers
and the owners' own moves. Correct when the cache does not go back, consent is
read when it matters, only due outputs are moved, and every player is reached.

**Presence, readiness** (`server.rs` 166-330, 810-886, 1044-1200). In memory: a
location per player indexed by chunk, and the progress and errors of both
workers. Correct when a response names nobody inactive, silent or twice and
omits nobody without saying so, and when readiness tells working from stuck.

**Browser: delegation view and owner fallback** (`web/app.js`). State: the
delegation shown, the time of the answer it comes from, requests in flight.
Hard: answers overlap and arrive out of order; a server that hangs says nothing.
Correct when the screen does not go back behind an answered change, and a due
output is not left to a server that cannot renew it.

**Batch participation** (`batch.rs`). State of a join: the step, batch,
validated tree, nonces, signatures, connectors, the flag `forfeits_released`.
Operations: register (one retry after a duplicate), one handler per event of
arkd's stream, deletion of the intent. Hard: events come late, twice, or for
another round; deadlines fall anywhere; after the forfeits have left nobody
knows whether the batch will complete. Correct when the old output is given up
only for its own replacement, and a retry starts only when it cannot be gone.

**Renewal intents** (`renewal.rs`). The fee is charged for an intent that the
fee itself changes. Correct when what is signed pays for itself.

**Operator** (`operator.rs`). `ensure` makes a world from a persisted plan that
is resumed after a crash: issuance, distribution, and in each shard a chain of
tree deployments. `watch` regrows and renews due trees in waves, from one
wallet, which the server uses too. Correct when there is one world, no tree is
forgotten because of another, and none is renewed in a loop.

**Arkade REST and indexer client** (`arkade.rs`). Pages of outputs, successors,
the renewal window. **World manifest, transaction shape, packet codecs, keys**
(`world.rs`, `protocol.rs`, `asset_packet.rs`, `player_template.rs`, `keys.rs`).
Formats, parsing and I/O.

### Interaction

Players and trees meet in one transaction (chop) that both covenants must
accept. The server never touches the covenants except through the watchtower
leaf, an exact self-send. Handlers and workers share the registry lock, the
persistence lock and the multiplayer state; the renewal worker depends on the
refresh worker, which alone fills the cache that says what is due. The owner's
client, the watchtower and, after a restart, either of them again join batches
for the same output: arkd keeps one intent per output and the ledger lets one
of them win. Client and operator know arkd's state only through its indexer,
which lists new outputs and marks spent ones in its own time, in any order. The
browser acts for the server when the leaderboard's answers say it must.

### Hard behaviour

`PROJECT.json` lists every hazard at its line with the properties that cover it.
In short: arbitrary packets on entry, thresholds in two arithmetics, who pins
which half of a transfer, state read before an await and used after it, replayed
and reordered requests, a crash between two writes, a lost answer to something
that happened, a deadline after which something may still happen, and lists that
move while they are read.

## 2. Modules

| module | models | from |
| --- | --- | --- |
| `PlayerLuck` | the arithmetic of a swing, every constant a parameter | `player.rs` |
| `LuckWalk` | one player's luck over a long run | `PlayerLuck::advance` |
| `GameRules` | the abstract game: five moves in host arithmetic | builders, `PlayerState` |
| `Forest` | the leaf scripts: proposals and verdicts | `player.rs`, `tree.rs` |
| `ForestProperties` | what the scripts are for; `GameRules` instantiated over `Forest` | |
| `ServerRegistry` | handlers, refresh, renewal, file, crash | `server.rs`, `watchtower.rs` |
| `Presence`, `Readiness` | locations; the workers' published status | `server.rs`, `web/app.js` |
| `ConsentView` | the delegation a browser shows | `web/app.js`, `server.rs` |
| `BatchJoin` | a renewal through an Ark batch, by several processes | `batch.rs` |
| `BatchTree` | the validation of the announced transaction graphs | `batch.rs` |
| `RenewalFee` | the search for a fee that pays for itself | `renewal.rs`, `batch.rs` |
| `Activation` | a deposit becomes a player | `web_app.rs`, `txbuild.rs` |
| `ChopJournal` | a swing is submitted and reconciled | `web_app.rs`, `txbuild.rs` |
| `TreeSync` | trees are followed through spends and batches | `web_app.rs`, `world.rs`, `arkade.rs` |
| `IndexerPages` | a list is read page by page | `arkade.rs` |
| `Bootstrap` | the operator's `ensure` | `operator.rs` |
| `OperatorWatch` | the operator's `watch` | `operator.rs`, `world.rs`, `arkade.rs` |

`MCForest`, `MCLuckWalk`, `MCServerRegistry`, `MCBatchJoin`, `MCRenewal`,
`MCClient`, `MCOperator`, `MCServices` and `MCLive` are the instances for TLC;
`LuckWalkProofs`, `ForestProofs`, `ServerRegistryProofs`, `RenewalProofs`,
`ClientProofs`, `OperatorProofs` and `ServicesProofs` hold the
theorems, and `SumTheorems` what two of them need of sums over finite sets.

### Forest and the covenants

A step of `Forest` is a transaction: somebody proposes successor packets (`next`
ranges over every roll, credit and axe), assets taken from an input and given to
the player, and the scripts accept or not. Nothing in the proposal is computed
by the rules, so a script that forgets a check lets a wrong successor through.

| action | scripts |
| --- | --- |
| `Activate` | the issuance `prepare_activation` builds: no covenant runs |
| `Enter` | any transaction that sends a marker to a player script |
| `Chop` | `player_chop_covenant_script` with `tree_covenant_script` |
| `Craft` | `player_craft_covenant_script` |
| `Withdraw` | `player_withdraw_covenant_script` |
| `RenewPlayer` | `player_renewal_covenant_script` (owner or watchtower) |
| `Regrow`, `Maintain` | `tree_regrowth_covenant_script`, `tree_maintenance_covenant_script` |

`ScriptRate`, `ScriptReward`, `ScriptMaterial` follow the opcodes: XP is read
from the input as an optional asset, thresholds are compared as the script
compares them, outcomes are bits multiplied together. `PlayerLuck` has the same
quantities as the Rust host computes them; their agreement is a property, not an
assumption. `LedgerAllows` and the single use of an output are the ledger's and
are external. Left out: signatures and closures other than the leaf in question,
anchors and sats, the encoding of packets, several inputs of one kind (the
scripts fix the input positions). The unilateral exit is outside the game.

`GameRules` has one move per game action, as a player would read the
documentation of the builders: `ForestProperties!PlaysByTheRules` says that the
covenants, seen through the players they allow to play, implement it. A player
whose entry is not canonical maps to the empty set: no swing or craft is open to
it, only plain transfers of what it brought.

### ServerRegistry and the server

One action per stretch of code between two awaits that touch shared state. A
handler goes through `ReceiveDelegation` (lock read), `HandlerVerified` (indexer
answer), `ApplyOnAction`, `Authorize`, `SetDelegation`, `StartPersist`,
`FinishPersist`; a registration through `ReceiveRegistration` (replay check),
`SnapshotRegistration` (the second lock), `HandlerVerified`, `Register`,
`StartPersist`, `FinishPersist`. `Abandon` ends a handler anywhere: a refused
guard, a failed upstream, a failed write, or the client hanging up, on which the
HTTP server drops the handler at its next await. The refresh worker is
`StartRefresh`, `RefreshVerified` or `RefreshFailed` per player in any order, and
`FinishRefresh`, which applies a pass under one lock. The renewal worker is
`StartRenewals`, then for every queued player `TakeQueued`, `FetchRecord`,
`Settle`, `SnapshotRenewed`, `VerifyRenewed`, `ApplyRenewed`, and at the end the
persist if anything changed. `TakeQueued` goes in the order of the keys, as the
map does, and reads consent again. `Crash` drops everything in memory and loads the file.

The environment: `Tick`; `Play` (the owner replaces the output, or renews it);
`Sign` (the owner signs a consent change, dated anywhere in the accepted clock
window). A signed request stays in `signed` and can be delivered any number of
times, at any later moment: loss, duplication and reordering need no action of
their own. `Verified` is the indexer: the live output, or after expiry the
output until it is swept and then nothing; between the swap of a chop's outputs
it may also be out of reach (`RefreshFailed`, `RenewalFailed`, `Abandon`).

Abstractions. The owner of a PLAYER_ID is fixed by its issuance metadata, which
the verifier checks, so the owner comparisons never fail and are left out. One
unit of time stands for seconds and for milliseconds. Rollover keys are
configured and `force_renewal_once` is off (it is a regtest switch). A crash is of the process: what was renamed into place is
there afterwards. The cached state keeps its output's version, expiry, activity
and time of verification. The renewal batch is one step, which succeeds only for
the output it was prepared for: it is `BatchJoin`. Health and error publication, which
no decision here reads, are `Readiness`.

### Presence, Readiness, ConsentView: the server's answers and who believes them

`Presence` has the browser's publishing loop (`Post`, `Answered`), the two steps
of a location on the server (`Authorize` under one lock, `UpdateLocation` under
another), and the presence request, again in two (`ReadActive`, `Respond`), so
that a player may become active or move in between. Posts are lost (`LoseRequest`), given up by
the browser and applied all the same; players lapse; the server restarts. A `scene`
fixes who plays and how much may happen.

`Readiness` has the two workers as the status they publish: `Verify` ends a
refresh, `StartPass`, `Renew`, `Fail`, `Skip` and `EndPass` are a renewal pass.
`Stall` and `Resume` are a worker that hangs; `Unplug` an HTTP side that is down or
hangs, and may answer late (`Answer`). `Poll`, `Reply`, `Observe`, `StartOwner` and
`EndOwner` are a browser whose output comes due; an answer may list its player as
delegated or not. `Change`, `Changed` and `ChangeFails` are `updateDelegation`: the server
takes a change whatever its workers do, and the browser believes its answer like an
observation of that moment. `Hinder` and `Recover` are the two guards of the renewal
loop: a swing that is not resolved, and a player that is not in sight.

Two things of the browser are left to time. The server refuses a location within 500 ms
of the last (`server.rs` 797); a browser publishes every 750 ms, the unit of `Presence`,
so only the jitter of its queue would meet that. And a post waits its turn behind other
calls of the wallet (`withApp`); a renewal of the browser's own may hold it up for longer
than a heartbeat, as a `FailToVerify` or a lost request does in the module.

`ConsentView` sends changes (`Toggle`) that the server takes or drops by their
stamp (`Apply`) and acknowledges (`Ack`), and polls (`Ask`, `ReplyConsent`) whose
answers come back in any order (`Receive`), late, or not at all (`PollFails`).

### BatchJoin, BatchTree, RenewalFee: one renewal

The stream of arkd is an alphabet: `Event(j, b)` is any event of any batch at any
time. An event the code skips is a stuttering step, so late and repeated ones
need no action of their own. `OnBatchStarted` ... `OnBatchFinalized` are the match
arms of `join_registered_batch`; `Accept` and `Reject` are a handler that goes on
or raises. `Registration` is `register_intent` with the refusal as a duplicate,
the deletion of the conflicting intent and the one retry; a registration that
timed out may still land later (`landing`). `Fail` is the split of
`settle_renewal`: forfeits released, or the intent is deleted and the call may be
repeated. The external part is small: one intent per output (`Select`, `Drop`),
commitments that become final (`Confirm`), and that a tree signature cannot
verify before our own was given.

`BatchTree` joins a batch, receives chunks (a transaction and the children declared
for it) and judges them as `validate_vtxo_tree` and `validate_connector_tree` do. The
properties are about what the ledger makes of the transactions, by what they spend
and not by what was declared. Reachability, in the code a stack and a visited set, is
stated by the sets that are closed under its steps, so that it can be proved about. `RenewalFee` is `add_fee_funding` with its choice of the
funding output and its rounds.

### Activation, ChopJournal, TreeSync, IndexerPages: the browser

Every await is a step; the page may be closed (`Close`, `ClosePage`) at any. A request
is in flight until it lands, with or without its answer (`LandSubmit`, `LandFinalize`, `Land`), or is
dropped. arkd's view (`accepted`, `final`; `chain`) and the indexer's (`shown`,
`spent`; `marked`, `listed`, `swept`; `marksUpTo`, `listsUpTo`) are separate, and the indexer lists a new
output and marks a spent one independently.

`ChopJournal` has the player state and the tree as two chains of outputs that
other players, renewals and other programs with the key move as well; a swing
spends one output of each. `TreeSync` follows every tree from the output last
seen, where a renewal batch names only a commitment whose leaves hold the
successors of many trees. `IndexerPages` reads an honest list that grows or
shrinks meanwhile, or whatever a dishonest indexer answers.

### Bootstrap, OperatorWatch: the operator

`Bootstrap` names a plan by the deposits that fund it and a transaction by shard
and index. Issuance, distribution and the chains of the shards are steps of
*actors* that share one order of steps: `Look`s at what exists, submit, finalize,
wait until listed. The command can die at each of them and is run again by its
script. `Repeats` says whether arkd answers a transaction it has cosigned before.

`OperatorWatch` connects and takes one view of all trees per pass (`StartPass`), sorted
by expiry, and renews in waves (`StartWave`; `Prepare`, `Settle`, `Fail` or `MeetBan` per
tree). The fee policy is read twice, as in the code: `fees` is what arkd charged when the
watcher connected and gives the size of a wave (`operator.rs` 1462); `charging` is what it
charges now (`ChangePolicy`), which each renewal asks again before it looks for an output
to pay with (`operator.rs` 1706-1721). An output is listed at once and its transaction and
expiry are indexed later (`detail`): without the one no pass starts, for any tree
(`operator.rs` 1340, `arkade.rs` 1257), without the other that tree is left out. Meanwhile
players chop, arkd bans and unbans, the indexer lags, and the server renews from the same
wallet (`ServerRenewal`). Renewing is one step here: it is `BatchJoin`.

## 3. Runs

| run | states | shows |
| --- | --- | --- |
| `forest_one_tree` | 34,728 | the covenants implement the game, and nine properties of it |
| `luck_walk` | 118,937 | streak and payout bounds with the real basis points |
| `registry_safe` | 1,426,038 | consent, cache and renewals through races, replays, failures, crashes |
| `registry_crowd` | 2,014,044 | two register at once where there is room for one: types, the lock, the limit |
| `registry_due` | 398,636 | a due delegated output is renewed (liveness) |
| `registry_replay` | violated | an answered registration that is not in the file |
| `batch_join` | 2,260,848 | an output is given up only for its replacement |
| `renewal_checks` | 1,443,682 | a signed intent pays its fee; an accepted tree holds our output |
| `client` | 1,322,444 | journals, sync and paging through crashes and a lagging indexer |
| `operator` | 1,853,256 | one world; waves that respect bans and fees and do not loop |
| `services` | 3,276,537 | health, owner fallback, presence and the delegation shown |
| `live` | 178,109 | joins end, journals settle, plans finish, due trees are renewed, players are verified |

Every property of a passing run has a mutant: a definition of the model changed
as a plausible bug in that code would change it, under which TLC finds the property
violated. The mutated forms stand beside the originals, marked `Mutant`.

A run often explores several components, or one under several bounds, *side by
side*: a variable of the MC module (`part`, `bounds`) is chosen at the start and
never changes, and what the others alone use keeps its first or a fixed value. The
components put together so share no state and no interaction the modules leave
out, so the product of their behaviours would add interleavings and no
case; where they do interact, the interaction is inside one module (the indexer
in the client's, the server's wallet use in `OperatorWatch`, the browser in
`Presence` and `Readiness`). A property of such a run is a conjunction, per part,
of invariants and step properties defined and commented in the component's module,
or is one of a component whose variables the other parts leave alone:

| property | parts |
| --- | --- |
| `RegistryIsSound` | `TypeOK`, `LockIsHeld`, `RoomIsKept` |
| `MovesAreAccepted` | `SwingsAreAccepted`, `CraftsAreAccepted` |
| `JoinIsSound` | `TypeOK`, `OutcomeIsTrue` |
| `AcceptedTreesAreSound` | `TreeTypeOK`, `GraphIsABranch`, `ValueIsConserved`, `OurLeafIsReachable`, `ConnectorsMatchInputs` |
| `ActivationsAreSound` | `TypeOK`, `NothingIsForgotten` |
| `JournalsAreSound` | `ChopTypeOK`, `NoSwingIsForgotten` |
| `SyncIsTrue` | `SyncTypeOK`, `IdentityIsKept`, `FreshStep`, `ForwardStep` |
| `ReadingIsExact` | types and limits (hostile), `NothingIsMissed` (growing), `NoOutputTwice` (shrinking) |
| `OneWorld` | `EnsureTypeOK`, `NothingOutsideThePlan`, `ManifestIsDeployed` |
| `WavesAreSound` | `TypeOK`, `BansStayInOneWave`, `FundingIsExclusive` |
| `HealthIsTrue` | `HealthTypeOK`, `HealthyMeansReady`, `FailureIsShown` |
| `PresenceIsTrue` | `PresenceTypeOK`, `StandingPlayersAreShown`, `ResponseStep` |
| `AnsweredChangesStayShown` | `ConsentTypeOK`, `AnsweredStep` |
| `JoinsSettle` | `JoinsEnd`, `OrphansAreCleared` |
| `ClientSettles` | `ActivationCompletes`, `JournalIsSettled`, `SyncConverges` |
| `OperatorFinishes` | `PlansAreCarriedOut`, `DueTreesAreRenewed` |
| `ServerComesRound` | `CacheCatchesUp` |

### What the properties say

*Forest.* `TreeStaysWorkable`: the chop leaf looks up every reserve and fails when
one is gone, so the materials must outlast the LOG and a stump may regrow only
with a whole cycle behind it. `EarnedStateIsCanonical`: whatever packets a marker
came in with, earned assets imply a canonical state. `SupplyIsConserved`: to the
unit, crafted axes included. `MovesAreAccepted`: what the host computes, the
scripts accept, so no honest player is stuck at a threshold.
`PlayersNeverBrick`, `XpIsSoulbound`, `AxesCostTheirRecipe`, `TreesPayPlayersOnly`
are about single steps of anyone, and `PlaysByTheRules` is the refinement.

*Luck.* `MissRunsAreBounded`, `WinRunsAreBounded` and `RewardsFollowTheRates` are
stated for every rate table and run with that of `src/PLAYER.md` 91-94.

*Registry.* `AcknowledgedConsentSurvives`: memory and file honour every answered
change or a newer one. `DelegationIsSigned`: no delegation its owner did not sign.
`CacheNeverRegresses`: no slow verification replaces a newer state.
`RevocationsAreHonoured`: no renewal begins after an answered revocation.
`OnlyDueOutputsAreRenewed`: however stale the cache that queued the player.
`RoomIsKept`: no race of registrations makes a file that the next start refuses.

*Renewal.* `SwapIsAtomic`: a forfeit leaves only for the commitment shown to the
emulator, whose validated branch to our output is fully signed. `RetryIsSafe`: a
call whose forfeit may be out never deletes its intent and answers "retry".
`OutcomeIsTrue`: what is reported as done is final, ours, and lives long enough.
`FeeIsCovered`: the signed intent leaves arkd at least its own fee.

*Client.* `NothingIsForgotten`: what arkd was asked to turn into a player is found
again from the profile on disk. `NoSwingIsForgotten`: a swing that is accepted, or
can still be, is in the journal until both outputs are listed. `FreshStep`,
`ForwardStep`: a sync shows an output that was unspent when it began or later, and
never an older one than before.

*Operator.* `NothingOutsideThePlan`: nothing is ever sent that a restart would not
find. `NoRenewalLoop`: a tree is renewed only when due, and is not due after it.
`FundingIsExclusive`: two renewals of a wave pay with one output only in a pass that
connected before arkd began to charge; once a pass starts with fees, no change of the
policy brings that back (see Observations for the pass before).

*Services.* `HealthyMeansReady`: once a failure is over and the passes it met are
through, the server says that it is ready and stays so, however long the queue.
`FailureIsShown`: until a whole pass has succeeded again it offers no delegation.
`OwnersTakeOver`: when the server's last progress is as old as the two freshness
windows together, and the last answered change of the delegation as old as the browser's,
the browser has begun the renewal of a due output itself, unless it waits for a swing to
be resolved or does not see its player.
`StandingPlayersAreShown`: one who stands still is shown where it stands, whatever
became of earlier posts. `AnsweredStep`: no poll takes the screen behind an answered
change; a poll that fails may only switch off what is shown.

### Bounds, and why they are enough

*forest_one_tree.* One tree of two cycles of two LOGs reaches a stump, one
regrowth, the last cycle and exhaustion. Two players share it, so that reserves
move to the one while the other looks on, and both crafting costs and reserve
compete. A window of five with base rate one keeps the real 20% and a corridor
of eleven credits, all of which are reached at the edges; rolls cover a sure win,
a sure loss and one that depends on level and axe. `MCEntries` has one marker of
each kind the first spend distinguishes: lucky, unlucky, beyond the corridor, free
axe, malformed direct issue, identity of another group. One unit moves per asset
and proposal (`MaxMove`): the scripts pin deltas of zero or one, and every
recipe costs at most one here; the general statement is the theorems'. Trees do not
interact with one another in any script, so one is enough for what a
script may do; the theorems hold for any number.

*luck_walk.* Basis points, bonuses and axes as in `player.rs`; the level
thresholds are moved together so that nine XP cross five of them. Starts cover
both ends, the middle and both sides of each edge. Two rolls are enough: a
rate only tells whether the bucket is below it. The walk stops at `MaxXp`,
hence `CHECK_DEADLOCK FALSE`. Runs of misses are not cut off: they end by
themselves, which is the property.

*registry_safe.* Three bounds, as the product of all is out of reach. "output":
one handler and both workers, two versions of the output, margin equal to the
lifetime so that an output is due at once and stops being so when replaced, and
two signed requests. "faults": the same with one request and a failure of either
worker. "consent": two handlers, two signed requests, a clock of two instants,
one crash: enough for reordering, a replay after the crash, an old snapshot
of the file and a registration in flight across a revocation; the output does not
change, which no consent decision reads. Handlers are interchangeable.

*registry_crowd* has two players and two requests where the registry has room for one,
and both workers, to which the one that got in matters. Nothing crashes here: what a
crash leaves is the file, whose room the invariant counts on its own.

*registry_due* has one failure, one crash that empties the cache, a change of the
output, and three instants, in each of which the output is due. That it expires first
ends the server's part and is not reached here.

*batch_join.* One process with two inputs, two commitments, two batches, and a
branch of two nodes; graphs of up to three chunks, so that one can be missing,
repeated, foreign or too many; lifetimes below and at what is left, where the output that
pays the fee has less left than the state and lowers what is promised. Two processes
run in `live`, where they can meet; the theorems hold for any number.

*renewal_checks.* Wallets of outputs of each kind the choice distinguishes (state,
dead, unclean, two sizes, two expiries), up to two programs of every form the search can meet (flat,
proportional, stepped, jumping, parity), three rounds. Trees of four batches that
vary edges, outputs and values, keys, and connectors one after the other; the whole
property is asked of each.

*client.* Three deposits, so that one can be foreign, lost or a second choice;
three finalization attempts as in the code. Chains are long on one side and short on
the other, both ways round. A swing is polled once, as each further poll repeats
the same reads. Trees are interchangeable. Pages of two with four outputs make three pages; a dishonest
indexer gets cursors beyond every limit.

*operator.* "ensure" has three deposits, one that suffices and two that do
together, a shard of two trees and one of one, a fault and a tree chopped before the
world is complete; the theorem holds for any of these. "watch" has two trees, one of
which fails in every batch, waves of two, a policy that changes at any moment, any number
of bans, the server once on the same wallet, and batches that live shorter than the
largest margin. The trees have half of a batch's life left at the start, so that three
instants are enough for an output to be fresh, due, and too old to renew.

*services.* Times are small multiples of the publishing interval, with the code's order
of heartbeat, time to live and freshness limits, which the assumptions name. One player
alone has six units and two mishaps, so that one can disturb what the other left and
there is time to recover; two players have two units, two viewports, two chunks and one
result allowed where two fit.

In `Readiness` two failures, stalls, changes or swings meet in any combination, one poll
waits unanswered and a change adds its own, so that an older answer arrives after a
newer belief. The output is due just when an offer made at the start may no longer be
believed, and has two units more before the fallback, here the shortest, takes it from
the server anyway: in these the age of what was observed decides. A pass has a player to
renew or none, and a unit may lie between any two of its steps; `HealthStaysTrue` is for
a queue of any length.

In `ConsentView` two polls are in flight, and nine browser events are two changes with
polls around both. An older consent that an identity change brought back can be switched
off by a failed poll, the one step `AnsweredStep` lets go back, only after eleven; the
theorem holds for any number.

*live.* One or two of each actor: each fair action needs one competitor at most. The
refresh window of one moves over a map that grows to two players, in either order,
with one failed verification; the cursor is kept modulo two, a multiple of every size.

`CHECK_DEADLOCK FALSE` stands where the bounds on time, versions or events end every
behaviour, or where the code stops: a published manifest, a renewed output, a page
closed for good.

### Fairness

*ServerRegistry.* `LiveSpec`, and in `live` the premise, have weak fairness of the
refresh worker's steps, of the renewal worker's steps, and, per handler, of finishing
or abandoning the request. Both workers are loops over an interval in tasks of their own that log an
error and go on (`run_renewal_pass` and the two tasks `run_cli` spawns); tokio runs
every runnable task; a handler waits for bounded HTTP calls or is dropped, so it
releases the persistence lock. Nothing is assumed of the clock, the owners, a
request being sent, or a verification succeeding: failures are bounded in
number, not excluded. The property about due outputs is about the server's part:
it ends when the output is renewed, expires, or the consent is withdrawn.

*live.* The fairness of each part is a premise of its own property (`Timers`,
`Persistence`, `Fairness`). `JoinsEnd` needs only the process' deadlines: arkd and
the emulator may be silent for ever. The others assume that

- loops and timers come round: the page refreshes and resumes on its interval, the
  watcher runs every minute, the scripts run `ensure` until it succeeds, hosts
  retry a renewal. Where the step competes with others that disable it for a
  while (a page's timer and its own operations), fairness is strong;
- what is asked is answered and the indexer catches up, as all HTTP calls have
  deadlines and both are services that keep running;
- there are finitely many failures, `<>[][~Failure]_vars`: a page closed, a lost
  answer, or giving up *while the ordinary step was possible*. Giving up where
  nothing else could be done is not excluded, it is what the code must survive.
  In `Bootstrap` the number of failures is bounded instead (`EnsureFairness`).

Nothing is assumed of players, of time going on, of trees in `Broken` (whose
batches always fail) or in `Hidden` (which the indexer never lists, though it has the
transactions of what it lists), and of other programs with the same key. Bans may come any
number of times, but renewals must run into them finitely often
(`<>[][~MeetBan(t)]_vars`): without that the property is false, see Observations.
`PlansAreCarriedOut` runs with
`Repeats`: arkd answers a transaction it has already cosigned; see Observations.

### Finding

`registry_replay`: `replayed_registration` (`src/src/server.rs` 929-950) answers
an identical registration from memory. The entry may not be in the file yet: the
first request still waits for the lock, its write failed, or its client left
before it. The second answer is success all the same, and a restart forgets the player
although `src/README.md:299` says "Registration persists". The browser signs
deterministically and registers again on load, so an identical replay is what
it normally sends; it also repairs the loss the next time it does.

### Observations

Smaller disagreements met while modelling. The modules behave as the code does;
no run is kept for them.

- `renewal.rs` 532-536 lowers the promised expiry to that of the fee-paying output,
  and `validate_batch_expiry` (`batch.rs` 933-959) compares with it alone. A state
  with a long life whose fee is paid by an output about to expire is accepted into a
  batch shorter than what the state has left. The callers notice afterwards.
- `apply_chop_reconciliation` (`web_app.rs` 1536-1538) clears the journal of an
  accepted swing once `sync_tree` succeeds. When the indexer lists both successors but
  has not marked the tree's input spent, that returns the old tree as current. The
  swing is not lost; the snapshot is older than the comment promises.
- `get_vtxos` (`arkade.rs` 1069) deduplicates across moving page boundaries. When
  an output of an earlier page is spent between two requests, the first output of
  the next page is never returned. `NothingIsMissed` holds only while lists grow.
- `submit_direct` (`operator.rs` 1608) does not resume a transaction that was accepted
  and not finalized, as `resume_tx` (`txbuild.rs` 452-495) does for players. Whether
  `ensure` gets over a lost answer there depends on arkd answering the same
  transaction again (`Repeats`).
- The watcher serializes its paid renewals so that no two select one output
  (`operator.rs` 1459-1461, `src/mainnet/README.md` 228-231). It sizes the waves of a pass by
  what arkd charged when it connected, and each renewal asks again whether it pays. When arkd
  begins to charge in between, up to eight renewals of a wave select the same largest output
  and one of them can be paid. `FundingIsExclusive` without its `~fees` is violated by
  exactly that; the next pass is serialized.
- The server runs with the same key and the same rule of choice: its renewals and the
  watcher's can select the same output, and the second registration deletes the first's
  intent.
- After a ban the watcher drops the rest of its pass (`operator.rs` 1512) and the next pass
  begins with the same trees in the same order (`operator.rs` 1431). If every wave it starts
  runs into a ban, the trees behind the first wave are never tried: without its premise on
  bans `DueTreesAreRenewed` is violated, although no ban concerns those trees.
- A tree output that is listed before its transaction can be read fails the pass for every
  tree (`operator.rs` 1340-1342, and `arkade.rs` 1257 for successors), where a missing
  successor only sets its own tree aside.
- `updateDelegation` (`web/app.js` 594-595) counts an accepted change as a fresh observation,
  and `set_delegation` (`server.rs` 888-927) accepts one whatever the workers do. A player who
  switches delegation on while they hang waits for one more freshness window. A due
  output also waits for its owner's unresolved swing (`web/app.js` 1960), however long that takes.
- `rollover_margin_seconds` (`arkade.rs` 100-107) takes half of the current output's
  own span. A chop makes an output that is created now and inherits its expiry, so
  each chop shrinks the window, down to its minimum.
- `load_current_tree_records` (`web_app.rs` 2519-2528) retries while a read says "successor is
  not indexed yet"; `arkade.rs` 1257 says "tree successor transaction is not indexed
  yet", which does not match. There the sync fails, and the next refresh tries again.
- `adoptState` (`web/app.js` 396) shows the consent listed by the last leaderboard answer
  taken when the identity changes, which may be older than an answered change;
  `AnsweredChangesStayShown` excludes that step.

## 4. Proofs

TLC covers one instance each; these theorems hold for all values of the constants
under the named assumptions.

*From which assumptions.* `RollAssumption`: rolls are some set with some
successor function, buckets are in range. `RateAssumption`: rates and bonuses add
up to at most the window. `MaterialAssumption`: material rates are numbers.
`RecipeAssumption`: a craft needs earned XP, STONE is only in the second recipe
and IRON ORE only in the third. `ForestAssumption`: a reserve is whole cycles.
`WalkAssumption`: the walk starts inside the corridor. `RegistryAssumption`,
`WatchAssumption`, `BootstrapAssumption`, `ActivationAssumption`,
`ChopJournalAssumption`, `TreeSyncAssumption`, `BatchJoinAssumption` and
`RenewalFeeAssumption` only give the constants their kinds,
and keep apart what one variable holds in turn: the renewal worker is no handler, the
words of an answer are no commitments, a deposit is no output of a plan.
`ReadinessAssumption` has the workers keep their periods while nothing hangs: a
verification pass within `worker_freshness_secs`, a renewal within
`MIN_RENEWAL_FRESHNESS_SECS`. `PresenceAssumption` has an entry outlive a heartbeat and the
way of a request, which 30 and 60 seconds do; `ConsentViewAssumption` gives the bounds
their kind. `WatchAssumption` also orders the margins as the code's constants are and lets a batch
live longer than the smallest. `BatchTreeAssumption` has chunks and outputs be of their
kinds, a commitment of two outputs and our own cosigner among those announced (a batch
without it is refused before its tree is looked at, `batch.rs` 710); which chunks arkd
may send is left open. TLC evaluates
all of them in the runs.

*Luck.* `CorridorIsKept` is one swing; its lemma `RateBounds` has the rate between
the base rate and that with every bonus. `LuckWalkProofs` proves `WalkInv`, which ties
the credit to the observers: after `m` misses in a row the credit is at least
`m` base rates, after `w` wins in a row it is at least `w` times window minus the top
rate below the top of the corridor, and credit minus budget never changes. The last of
these is an invariant relation and gives `RewardsBounded` without counting swings.

*Forest.* The inductive invariant is `ForestInv`: `TypeOK`, an absent player
holds nothing, `TreeStaysWorkable` and `EarnedStateIsCanonical`.
`EarnedStateIsCanonical` is not inductive without types and absence (a marker that enters
must bring no XP), and `TreeStaysWorkable` needs that a reward is at most one unit
and never both materials, which needs credits in range. `...Effect` lemmas turn
each script's arithmetic into plain deltas (`ChopEffect`: one LOG and one XP
or none, at most one material); `ScriptRateIsHostRate` shows the script's rate is the
host's; a `...StepInv` lemma per action preserves the invariant; the action
properties follow from the invariant and `SwingMoves`, `CraftMoves`, `KeepMoves`,
which summarise every step by the player's view.

*Supply.* `SupplyIsConserved` adds up trees and players. The library's induction
theorems take an operator, which these provers cannot instantiate; but that strict
inclusion of finite sets is well-founded is a first-order fact
(`FS_StrictSubsetOrderingWellFounded`), so a lemma about sums takes a smallest set
that refutes it and removes an element. That gives the lemmas on `SumFunctionOnSet`
(a sum over one more element, over functions that differ at one point or two, of
zeroes). Each action then moves a known amount between one tree and one player.

*Moves and rules.* `MovesAreAccepted` builds the honest proposal for a playable player
and walks it through every guard of the leaf. `PlaysByTheRules` is the refinement of
`GameRules`: initial states map to initial states, and every accepted transaction to a
swing, a craft, an entry, or a step that leaves the abstract game alone.

*Registry.* `AcknowledgedConsentSurvives` speaks of memory and disk after an
answer; what makes it true happens before one. `ConsentInv` adds the file that is
being written and, for each handler between its update and its answer, that memory
honours its request, and the file too once it holds the lock, which nobody else then
writes. Entries follow one another only by a newer consent or the same one
(`Follows`), which is why a slow registration, a refresh and a renewal cannot undo a
change; a crash loads a file that honours all that was answered. `WorkerInv` says that
what the renewal worker is about to settle was due when it was read, and that time
and the single use of an output keep it so.

`RegistryIsSound` needs more of both: `WorkerLock`, that the workers hold and leave the
lock as the handlers do, and `Room`, that what waits to be written has no more
entries than memory had under the lock, so that file and memory stay within the limit
whatever is still on its way. `CacheMovesForward` is about answers: `Versions`
says of every handler, refresh and renewal that its answer is at least as new as the
entry it was asked for and no newer than the ledger. A merge compares the entry it
finds with the one it asked for; when they are equal the answer is not older, and
when they are not it is dropped.

*Batch.* `JoinInv` says that the flag is up while a forfeit may be out and that a
validated tree is not added to afterwards. Every arm of the event loop is shown to keep
it for the process that moves (`OneJoin`), for any number of processes, batches
and nodes. `SwapIsAtomic` then is the guard of the one step that sends forfeits,
read against the tree validated steps before; `RetryIsSafe` is the flag. `JoinIsSound`
adds `SoundInv`: a batch is followed only while it outlives the inputs, the forfeit a
process has out is for the commitment it follows, whose branch is signed, and what it
has collected, counted as a bag, is within the limit.

*Fee.* The search ends in the fee it started its last round with, and both programs
ask at most that for the change it leaves (`FeeInv`); the highest of two fees is
what either asks at most (`AtMostTwo`, `HighestBounds`).

*Trees.* The graph checks walk the children arkd declares; the ledger follows inputs.
`ChecksAcceptBranches` has them agree, for graphs of any size: neither
direction needs an induction along a path, because both reachabilities are stated by
closed sets, and a closed set that leaves out a node is enough. Downwards, the nodes whose
ancestry reaches the commitment are closed under declared edges and have the root, so
they are all (`GraphReaches`). Upwards, were a node not visited, those that are not would be
closed under parents and never reach the commitment (`BranchIsTraversed`). No value is lost because
each node but the root takes a whole output of another: summing over nodes and
over their outputs counts the spent ones twice (`SumReindex`, `SumOfParts` of
`SumTheorems`), and what is left is the commitment's output. `TreeInv` ties the verdict to the
chunks, which nothing changes once it is given (`VerdictStands`).

*Activation.* `ActivationInv`: a submission is made only for the journal that is on
disk, so that page and disk agree while one is tried; a journal is cleared only
for an output that is shown; arkd's requests are for deposits that arrived and to
finalize what arkd has.

*Swings.* `ChopInv`: page and storage hold the same swing, what is applied is settled,
and while a first submission waits for its answer no retry of the same swing is under
way unless its fate is already decided. A fate is final (`FatesAreFinal`): chains
only grow, the indexer only catches up, and nothing follows on a swept chain. So a
journal that is dropped for a conflict was dropped for a swing that is dead for good,
and a new swing starts only with an empty journal.

*Sync.* `SyncInv` has what a record in hand is worth (`InHand`): it is of its own tree,
no older than the output shown, and unspent when the attempt began unless it says
otherwise, because it was read after that and marks are never taken back. A batch
lists leaves of many trees, and no two spends of one tree share a batch (`ChainInv`), so the
leaf with the tree's identity is exactly its next output (`SuccessorIsNext`): the
identity check of `load_current_tree_records` is all that is needed.

*Watcher.* `WatchInv`: what is queued or in a wave was due when seen. Outputs are only
added to a tree and time only makes them more due, so it is due when it is renewed,
whatever the indexer shows by then; the margin of a fresh output is within the
batch's life, so it is not due after it. `PassInv` counts what the wave has under way
together with the bans already met: they are one wave, so the bans of a pass are no
more, and in a pass that connected to an arkd that charges there is only one renewal to
pay for, whatever the policy has become. A tree
waits in the queue once and not while it is in the wave, or that sum would grow.

*Ensure.* `OneWorld` alone says nothing of what the command does next. `PlanInv` ties
its plan to the file and the manifest at each stage: nothing is sent before the plan
is in the file, and the file is removed only under the manifest of the same plan.
`ArkdInv` is the order of the ledger: what is accepted has its inputs final, a
finalization in flight is of what was accepted, what is listed was made by a final
transaction. `ActorInv` says that what a shard has behind it is final, whether it
waited for it or found it listed after a restart; when all shards are done, every
deployment is, and by the order of the ledger so are distribution and issuance.

*Readiness.* `Published` and `Believed` are about offers: a failure is published while
it is owed, without one the status tells of no progress later than there was, and so an
offer on its way to a browser was asked for at most the longer worker window after the
server's last progress. What a browser believes it has from such an offer or from a
change that was answered (`OwnersTakeOver` adds the browser's own window). `Verified` and `Working` are about recovery: each worker either shows its last
step in the status or is still in the pass its trouble met, or the first one after it,
each of whose players takes its time at most (`Recovering`). That counts the players done so
far and gives the bound of `HealthyMeansReady`: a full queue, and the end of the pass.

*Presence.* `PostsInOrder` has the stamps of a browser's posts distinct, the latest the
one it waits for, and the replay clock behind it until it is authorized, which is why
it is never refused for an older one. `StandsStill` follows one player from its last
disturbance: what it posted since is of the right place, and what was posted after the
requests of that time are through goes into the index after them. From then on the index
holds it, as its posts follow one another within a heartbeat and an entry lives
longer, and no response has read the registry too early to know it.

*Delegation shown.* `ConsentInv`: the registry took no more changes than its clock has
seen instants, and any poll
that the browser can still accept answers with a version no older than the last
acknowledged one, since it was asked for after the acknowledgement was shown.

Proved: `CorridorIsKept`, `WalkTypeCorrect`, `MissRunsBounded`, `WinRunsBounded`,
`RewardsBounded`; `ForestTypeCorrect`, `TreesStayWorkable`, `EarnedIsCanonical`,
`NoPlayerBricks`, `XpStaysSoulbound`, `TreesOnlyPayPlayers`, `AxesAreCrafted`,
`SupplyStaysWhole`, `HonestMovesAreAccepted`, `CovenantsPlayByTheRules`;
`ConsentIsKept`, `ConsentIsSigned`, `RevokedAreNotRenewed`, `OnlyDueIsRenewed`,
`RegistryStaysSound`, `CacheMovesForward`;
`OutputsAreSwapped`, `RetriesAreSafe`, `ReportsAreTrue`; `SignedIntentsPayTheirFee`;
`ChecksAcceptBranches`, `TreesWeSignAreSound`;
`ActivationsAreRemembered`, `SwingsAreRemembered`, `TreesAreFollowed`;
`RenewalsEnd`, `WavesStaySound`, `ThereIsOneWorld`;
`HealthStaysTrue`, `OwnersAlwaysTakeOver`, `PresenceStaysTrue`, `AnswersStayShown`.

*Only model-checked.* Liveness under fairness and ENABLED are out of the prover's
reach: `DelegatedPlayersAreRenewed` and the four properties of `live`. So is
`ReadingIsExact`: what a filter of a sequence returns is defined by recursion on it.
Every other property of a run has its theorem.

## 5. Not modelled, and next

The map covers about 31% of the implementation's lines. Most of the rest builds,
encodes, parses or draws something.

- *Formats and codecs* (`protocol.rs`, `asset_packet.rs`, `player_template.rs`, most of
  `txbuild.rs` and `client.rs`): PSBTs, packets, scripts, intent proofs and messages.
  `Forest` takes a packet by its values; `BatchJoin` a signature by whether it verifies.
- *The static world document* (`world.rs`): its parsing and validation. `Forest` takes
  the constants it pins, `TreeSync` and `OperatorWatch` its records.
- *HTTP* (`arkade.rs`, `server.rs`): requests, parsing, limits, the framing of the
  event stream. Its answers are the environment of the modules.
- *Client flows that keep no journal* (crafting, withdrawal, payments in `web_app.rs`):
  one submission whose loss the next refresh shows. Their effect is in `Forest`.
- *Chat*: a bounded list behind the authorization that `Presence` has for locations.
- *Rendering and movement* (`web/`), *keys and command lines*, the vendored fee
  calculation, deployment, scripts, tests, and unilateral exits.

Next: the owner's renewal (`web_app.rs` 1888-1960) joined with `ServerRegistry` and
`BatchJoin` in one module, where both may renew the same output.
