------------------------------- MODULE Forest -------------------------------
(***************************************************************************)
(* The forest as the covenants enforce it (src/src/player.rs, tree.rs).    *)
(* A tree and a player are each one live output whose assets and packets   *)
(* are its state.  Anyone may propose a transaction that spends them, with *)
(* any successor packets and any split of the assets the ledger allows;    *)
(* the transaction happens only if the leaf scripts it runs accept it.     *)
(* Every action below is a proposal followed by the scripts' verdict, in   *)
(* the scripts' own arithmetic rather than the host's.                     *)
(*                                                                         *)
(* The ledger itself (Arkade operator and emulator) is external: it spends *)
(* an output once and never lets a transaction create units of an asset.   *)
(***************************************************************************)
EXTENDS PlayerLuck

CONSTANTS
    Trees,
    Players,
    LogsPerTree,   \* LOGS_PER_TREE
    Reserve,       \* LOG_ = STONE_ = IRON_ORE_RESERVE_PER_TREE
    InitialRoll,   \* PlayerRoll::initial of each player's script
    Credits,       \* luck-credit packets anyone may write, canonical or not
    Entries,       \* packets anyone may create a player output with
    MaxMove        \* bound: units of one asset one proposal moves

Assets == {"logs", "xp", "stone", "ironOre"}
Holdings == [Assets -> Nat]
NoAssets == [a \in Assets |-> 0]

(* A player output.  entry is how its packets came to be: "issued" with    *)
(* the PLAYER_ID by the same transaction, so that the output's txid is the *)
(* AssetId's, "recursive" otherwise, "none" before the player exists.      *)
(* idGroup is the asset group the PLAYER_ID was issued from.               *)
EntryStates == [entry : {"issued", "recursive"}, idGroup : Nat,
                roll : Rolls, credit : Credits, axe : Axes]
PlayerStates == EntryStates \cup
    [entry : {"none"}, idGroup : {0}, roll : Rolls, credit : {0}, axe : {NoAxe}]

ASSUME ForestAssumption ==
    /\ IsFiniteSet(Trees) /\ IsFiniteSet(Players)
    /\ LogsPerTree \in Nat \ {0}
    /\ Reserve \in Nat
    /\ \E cycles \in 1..Reserve : Reserve = cycles * LogsPerTree
    /\ InitialRoll \in [Players -> Rolls]
    /\ Credits \subseteq Nat /\ 0..MaxCredit \subseteq Credits
    /\ Entries \subseteq EntryStates
    /\ MaxMove \in Nat

VARIABLES
    health,    \* health[t]: the TreeHealth packet
    reserve,   \* reserve[t]: the assets of the tree output
    state,     \* state[p]: the packets of the player output
    held,      \* held[p]: the assets of the player output
    wallet     \* LOG held by ordinary outputs

vars == <<health, reserve, state, held, wallet>>

Init ==
    /\ health = [t \in Trees |-> LogsPerTree]
    /\ reserve = [t \in Trees |-> [a \in Assets |-> Reserve]]
    /\ state = [p \in Players |->
                  [entry |-> "none", idGroup |-> 0, roll |-> InitialRoll[p],
                   credit |-> 0, axe |-> NoAxe]]
    /\ held = [p \in Players |-> NoAssets]
    /\ wallet = 0

Active(p) == state[p].entry # "none"

-----------------------------------------------------------------------------
(* Proposals.  A proposal names the successor packets and, for each asset, *)
(* the units taken from the spent output and the units given to the other  *)
(* side; the ledger burns what is taken and not given.                     *)
Packets == [roll : Rolls, credit : Credits, axe : Axes]
Moves == [Assets -> 0..MaxMove]
Healths == 0..(LogsPerTree + 1)

LedgerAllows(from, taken, given) ==
    \A a \in Assets : taken[a] <= from[a] /\ given[a] <= taken[a]

Spend(p, next) ==
    state' = [state EXCEPT ![p] =
                [entry |-> "recursive", idGroup |-> @.idGroup, roll |-> next.roll,
                 credit |-> next.credit, axe |-> next.axe]]

-----------------------------------------------------------------------------
(* The script fragments every player leaf starts with.                     *)

\* Mutant: the loop over the recipes stops after the first tier.
AxeProgressionFirstTier(p) ==
    state[p].axe = 1 => held[p]["xp"] > RequiredXp[1] - 1

(* push_player_axe_progression: an equipped axe needs its earned XP.       *)
AxeProgression(p) ==
    \A tier \in 1..3 :
        state[p].axe = tier => held[p]["xp"] > RequiredXp[tier] - 1

(* push_canonical_initial_player_luck: on the first spend after issuance   *)
(* the packets must be the canonical ones; the PLAYER_ID is group zero.    *)
CanonicalStart(p) ==
    /\ AxeProgression(p)
    /\ state[p].idGroup = 0
    /\ state[p].entry = "issued" =>
          /\ state[p].roll = InitialRoll[p]
          /\ state[p].credit = InitialCredit
          /\ state[p].axe = NoAxe

\* Mutant: the threshold itself does not count, XP + 1 was not taken.
ScriptRateStrict(p) ==
    BaseRate
    + LevelBonus * Cardinality({h \in LevelThresholds : held[p]["xp"] > h})
    + AxeBonus[state[p].axe]

(* push_log_drop_basis_points: no cap, strict comparisons on XP + 1.       *)
ScriptRate(p) ==
    BaseRate
    + LevelBonus * Cardinality({h \in LevelThresholds : held[p]["xp"] + 1 > h})
    + AxeBonus[state[p].axe]

\* Mutant: the upper edge of the corridor already forces a reward.
ScriptRewardEager(p, next) ==
    LET raw == state[p].credit + ScriptRate(p)
    IN  IF raw >= MaxCredit THEN 1
        ELSE IF raw < Window THEN 0
        ELSE IF Bucket[next.roll] < ScriptRate(p) THEN 1 ELSE 0

(* The reward bit push_advanced_player_luck leaves on the stack, from the  *)
(* roll packet of the spending transaction.                                *)
ScriptReward(p, next) ==
    LET raw == state[p].credit + ScriptRate(p)
    IN  IF raw > MaxCredit THEN 1
        ELSE IF raw < Window THEN 0
        ELSE IF Bucket[next.roll] < ScriptRate(p) THEN 1 ELSE 0

(* push_advanced_player_luck: same axe, hashed roll, canonical credits.    *)
AdvancedLuck(p, next) ==
    LET raw == state[p].credit + ScriptRate(p)
    IN  /\ next.axe = state[p].axe
        /\ next.roll = NextRoll[state[p].roll]
        /\ state[p].credit < MaxCredit + 1
        /\ next.credit < MaxCredit + 1
        /\ next.credit = raw - Window * ScriptReward(p, next)

(* push_material_drop_code gated by the reward bit: 0, 1 STONE, 2 IRON ORE *)
ScriptMaterial(p, next) ==
    LET bucket == MaterialBucket[next.roll]
        unlocked == held[p]["xp"] > IronOreUnlockXp - 1
    IN  IF ScriptReward(p, next) = 0 THEN 0
        ELSE IF unlocked /\ bucket < IronOreRate THEN 2
        ELSE IF unlocked /\ bucket < IronOreRate + StoneRate THEN 1
        ELSE IF ~unlocked /\ bucket < StoneRate THEN 1 ELSE 0

ScriptGain(p, next, a) ==
    CASE a = "stone"   -> IF ScriptMaterial(p, next) = 1 THEN 1 ELSE 0
      [] a = "ironOre" -> IF ScriptMaterial(p, next) = 2 THEN 1 ELSE 0
      [] OTHER         -> ScriptReward(p, next)

-----------------------------------------------------------------------------
(* Creating a player output: an ordinary transaction, no covenant runs.    *)

(* The reference client (prepare_activation).                              *)
Activate(p) ==
    /\ ~Active(p)
    /\ state' = [state EXCEPT ![p] =
                   [entry |-> "issued", idGroup |-> 0, roll |-> InitialRoll[p],
                    credit |-> InitialCredit, axe |-> NoAxe]]
    /\ UNCHANGED <<health, reserve, held, wallet>>

(* Anyone else: any packets, any LOG from an ordinary output.  XP, STONE   *)
(* and IRON ORE are never in ordinary outputs, so none can be brought.     *)
Enter(p) ==
    /\ ~Active(p)
    /\ \E entry \in Entries : state' = [state EXCEPT ![p] = entry]
    /\ \E logs \in 0..MaxMove :
          /\ logs <= wallet
          /\ wallet' = wallet - logs
          /\ held' = [held EXCEPT ![p]["logs"] = @ + logs]
    /\ UNCHANGED <<health, reserve>>

-----------------------------------------------------------------------------
(* Chop: the player leaf and the tree leaf both run.                       *)

(* player_chop_covenant_script, and the packets tree_covenant_script       *)
(* checks again for itself.                                                *)
ChopPackets(p, next) ==
    /\ AdvancedLuck(p, next)
    /\ CanonicalStart(p)

(* tree_covenant_script: the tree owns every reciprocal delta, and each of *)
(* its four assets must still be there, materials included.                *)
ChopHealth(p, t, next, h) ==
    /\ health[t] > 0
    /\ h + ScriptReward(p, next) = health[t]

\* Mutant: only the tree's half of the transfer is pinned.
ChopAssetsTreeHalf(p, t, next, taken, given) ==
    \A a \in Assets :
        /\ reserve[t][a] > 0
        /\ (reserve[t][a] - taken[a]) + ScriptGain(p, next, a) = reserve[t][a]

ChopAssets(p, t, next, taken, given) ==
    \A a \in Assets :
        /\ reserve[t][a] > 0
        /\ (reserve[t][a] - taken[a]) + ScriptGain(p, next, a) = reserve[t][a]
        /\ held[p][a] + given[a] = held[p][a] + ScriptGain(p, next, a)

Chop(p, t) ==
    /\ Active(p)
    /\ \E next \in Packets :
          /\ ChopPackets(p, next)
          /\ \E h \in Healths :
                /\ ChopHealth(p, t, next, h)
                /\ health' = [health EXCEPT ![t] = h]
          /\ \E taken \in Moves, given \in Moves :
                /\ LedgerAllows(reserve[t], taken, given)
                /\ ChopAssets(p, t, next, taken, given)
                /\ reserve' = [reserve EXCEPT ![t] =
                                 [a \in Assets |-> @[a] - taken[a]]]
                /\ held' = [held EXCEPT ![p] =
                              [a \in Assets |-> @[a] + given[a]]]
          /\ Spend(p, next)
    /\ UNCHANGED wallet

-----------------------------------------------------------------------------
(* Craft: one player input, one player output, the difference is burned.   *)

(* The recipe constants written into the craft script; STONE and IRON ORE  *)
(* are literal zeros where the recipe has none.                            *)
ScriptBurn(tier, a) ==
    CASE a = "logs"    -> Recipe[tier].logs
      [] a = "stone"   -> IF tier = 2 THEN Recipe[tier].stone ELSE 0
      [] a = "ironOre" -> IF tier = 3 THEN Recipe[tier].ironOre ELSE 0
      [] OTHER         -> 0

\* Mutant: the XP gate of the recipe is missing.
CraftPacketsUngated(p, next) ==
    /\ next.roll = state[p].roll
    /\ next.credit = state[p].credit
    /\ state[p].axe < 3
    /\ next.axe = state[p].axe + 1
    /\ CanonicalStart(p)

(* player_craft_covenant_script                                            *)
CraftPackets(p, next) ==
    /\ next.roll = state[p].roll
    /\ next.credit = state[p].credit
    /\ state[p].axe < 3
    /\ next.axe = state[p].axe + 1
    /\ held[p]["xp"] > RequiredXp[next.axe] - 1
    /\ CanonicalStart(p)

\* Mutant: the recipe is an upper bound on what is burned.
CraftAssetsAtMost(next, burned) ==
    \A a \in Assets : burned[a] <= ScriptBurn(next.axe, a)

CraftAssets(next, burned) ==
    \A a \in Assets : burned[a] = ScriptBurn(next.axe, a)

Craft(p) ==
    /\ Active(p)
    /\ \E next \in Packets :
          /\ CraftPackets(p, next)
          /\ \E burned \in Moves :
                /\ LedgerAllows(held[p], burned, NoAssets)
                /\ CraftAssets(next, burned)
                /\ held' = [held EXCEPT ![p] = [a \in Assets |-> @[a] - burned[a]]]
          /\ Spend(p, next)
    /\ UNCHANGED <<health, reserve, wallet>>

-----------------------------------------------------------------------------
(* Withdraw: the LOG taken from the player must reach the destination.     *)
(* Renewal: an exact self-send in a batch.                                 *)
SamePackets(p, next) ==
    /\ next.roll = state[p].roll
    /\ next.credit = state[p].credit
    /\ next.axe = state[p].axe
    /\ CanonicalStart(p)

\* Mutant: the destination output is not compared with what was taken.
WithdrawAssetsLossy(p, taken, given) ==
    /\ held[p]["logs"] > 0
    /\ \A a \in Assets \ {"logs"} : taken[a] = 0

\* Mutant: XP is missing from the list of soulbound assets.
WithdrawAssetsLooseXp(p, taken, given) ==
    /\ held[p]["logs"] > 0
    /\ taken["logs"] = given["logs"]
    /\ \A a \in Assets \ {"logs", "xp"} : taken[a] = 0

(* player_withdraw_covenant_script                                         *)
WithdrawAssets(p, taken, given) ==
    /\ held[p]["logs"] > 0
    /\ taken["logs"] = given["logs"]
    /\ \A a \in Assets \ {"logs"} : taken[a] = 0

Withdraw(p) ==
    /\ Active(p)
    /\ \E next \in Packets : SamePackets(p, next) /\ Spend(p, next)
    /\ \E taken \in Moves, given \in Moves :
          /\ LedgerAllows(held[p], taken, given)
          /\ WithdrawAssets(p, taken, given)
          /\ held' = [held EXCEPT ![p] = [a \in Assets |-> @[a] - taken[a]]]
          /\ wallet' = wallet + given["logs"]
    /\ UNCHANGED <<health, reserve>>

(* player_renewal_covenant_script                                          *)
RenewalAssets(taken) == \A a \in Assets : taken[a] = 0

RenewPlayer(p) ==
    /\ Active(p)
    /\ \E next \in Packets : SamePackets(p, next) /\ Spend(p, next)
    /\ \E taken \in Moves :
          /\ LedgerAllows(held[p], taken, NoAssets)
          /\ RenewalAssets(taken)
          /\ held' = [held EXCEPT ![p] = [a \in Assets |-> @[a] - taken[a]]]
    /\ UNCHANGED <<health, reserve, wallet>>

-----------------------------------------------------------------------------
(* Tree renewals: exact self-sends but for the health of a funded stump.   *)

(* tree_renewal_base: every asset of the tree stays.                       *)
TreeRenewalBase(taken) == \A a \in Assets : taken[a] = 0

\* Mutant: a tree may regrow before it is a stump.
TreeRegrowthCovenantEarly(t, h, taken) ==
    /\ TreeRenewalBase(taken)
    /\ reserve[t]["logs"] > 0
    /\ h = LogsPerTree

(* tree_regrowth_covenant_script                                           *)
TreeRegrowthCovenant(t, h, taken) ==
    /\ TreeRenewalBase(taken)
    /\ health[t] = 0
    /\ reserve[t]["logs"] > 0
    /\ h = LogsPerTree

\* Mutant: the health packet is parsed but not compared.
TreeMaintenanceCovenantLoose(t, h, taken) ==
    /\ TreeRenewalBase(taken)
    /\ h >= 0

(* tree_maintenance_covenant_script                                        *)
TreeMaintenanceCovenant(t, h, taken) ==
    /\ TreeRenewalBase(taken)
    /\ h = health[t]

TreeSelfSend(t, h, taken) ==
    /\ LedgerAllows(reserve[t], taken, NoAssets)
    /\ health' = [health EXCEPT ![t] = h]
    /\ reserve' = [reserve EXCEPT ![t] = [a \in Assets |-> @[a] - taken[a]]]
    /\ UNCHANGED <<state, held, wallet>>

Regrow(t) ==
    \E h \in Healths, taken \in Moves :
        TreeRegrowthCovenant(t, h, taken) /\ TreeSelfSend(t, h, taken)

Maintain(t) ==
    \E h \in Healths, taken \in Moves :
        TreeMaintenanceCovenant(t, h, taken) /\ TreeSelfSend(t, h, taken)

-----------------------------------------------------------------------------
PlayerStep(p) ==
    \/ Activate(p) \/ Enter(p)
    \/ Craft(p) \/ Withdraw(p) \/ RenewPlayer(p)

Next ==
    \/ \E p \in Players : PlayerStep(p)
    \/ \E p \in Players, t \in Trees : Chop(p, t)
    \/ \E t \in Trees : Regrow(t) \/ Maintain(t)

Spec == Init /\ [][Next]_vars

-----------------------------------------------------------------------------
TypeOK ==
    /\ health \in [Trees -> 0..LogsPerTree]
    /\ reserve \in [Trees -> Holdings]
    /\ state \in [Players -> PlayerStates]
    /\ held \in [Players -> Holdings]
    /\ wallet \in Nat
=============================================================================
