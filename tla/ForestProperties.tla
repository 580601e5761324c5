-------------------------- MODULE ForestProperties --------------------------
(***************************************************************************)
(* What the covenants are for.  Invariants of one tree and of one player,  *)
(* what a step may never do, the ledger's totals, the agreement of the     *)
(* scripts with the host's mirrors, and the refinement of GameRules.       *)
(***************************************************************************)
EXTENDS Forest, FiniteSetsExt

Materials == {"stone", "ironOre"}

(* The player covenants can still act on p: it exists, its first spend is  *)
(* canonical, its axe is backed by XP and its credit is in the corridor.   *)
Playable(p) ==
    /\ Active(p)
    /\ CanonicalStart(p)
    /\ state[p].credit <= MaxCredit

Rules == INSTANCE GameRules
    WITH hero <- [p \in Players |->
                    IF Playable(p)
                    THEN {[roll |-> state[p].roll, credit |-> state[p].credit,
                           axe |-> state[p].axe, held |-> held[p]]}
                    ELSE {}]

-----------------------------------------------------------------------------
(* A tree can always be harvested to its last LOG (tree_covenant_script,   *)
(* tree_regrowth_covenant_script): LOG and XP run down together; what is   *)
(* beyond the current health is whole cycles, so a stump regrows exactly   *)
(* as often as its reserve backs and never to a health it cannot pay; and  *)
(* the materials the chop leaf insists on outlast the LOG, because one     *)
(* chop never pays both.                                                   *)
Workable(left, r) ==
    /\ r["logs"] = r["xp"]
    /\ \E cycles \in 0..Reserve : r["logs"] = left + cycles * LogsPerTree
    /\ r["stone"] >= r["logs"]
    /\ r["ironOre"] >= r["logs"]
    /\ r["stone"] + r["ironOre"] >= r["logs"] + Reserve

TreeStaysWorkable == \A t \in Trees : Workable(health[t], reserve[t])

(* Nothing is earned outside the rules, whatever packets a marker was      *)
(* routed in with: a player that holds XP, STONE or IRON ORE has a         *)
(* canonical recursive state, and its axe its earned XP (PLAYER.md,        *)
(* "Limits"; push_canonical_initial_player_luck).                          *)
Earned(s, assets) ==
    (\E a \in Assets \ {"logs"} : assets[a] > 0) =>
        /\ s.entry = "recursive"
        /\ s.idGroup = 0
        /\ s.credit <= MaxCredit
        /\ s.axe # NoAxe => assets["xp"] >= RequiredXp[s.axe]

EarnedStateIsCanonical == \A p \in Players : Earned(state[p], held[p])

-----------------------------------------------------------------------------
(* No step of anyone makes a playable player unplayable: the corridor, the *)
(* axe gate and the canonical start are never walked out of by swinging,   *)
(* crafting, withdrawing or renewing.                                      *)
PlayersNeverBrick == [][\A p \in Players : Playable(p) => Playable(p)']_vars

(* XP is soulbound (README, "XP has one canonical representation"): it     *)
(* never leaves a player, and it arrives only as the loss of one tree that *)
(* was alive and paid the same LOG with it.                                *)
XpIsSoulbound ==
    [][\A p \in Players :
          held'[p]["xp"] # held[p]["xp"] =>
             /\ held'[p]["xp"] = held[p]["xp"] + 1
             /\ held'[p]["logs"] = held[p]["logs"] + 1
             /\ \E t \in Trees :
                   /\ health[t] > 0
                   /\ health'[t] = health[t] - 1
                   /\ reserve'[t]["xp"] = reserve[t]["xp"] - 1
                   /\ reserve'[t]["logs"] = reserve[t]["logs"] - 1]_vars

(* An active player's axe changes only to the next tier, with its XP level *)
(* reached, and for exactly the recipe; and materials leave a player in no *)
(* other way (player_craft_covenant_script).                               *)
AxesCostTheirRecipe ==
    [][\A p \in Players : Active(p) =>
          /\ \A a \in Materials :
                held'[p][a] < held[p][a] => state'[p].axe # state[p].axe
          /\ state'[p].axe # state[p].axe =>
                /\ state'[p].axe = state[p].axe + 1
                /\ held[p]["xp"] >= RequiredXp[state'[p].axe]
                /\ \A a \in Assets :
                      held'[p][a] = held[p][a] - Rules!RecipeCost(state'[p].axe, a)]_vars

(* A tree's reserve only ever moves to a player, in full.                  *)
TreesPayPlayersOnly ==
    [][\A t \in Trees, a \in Assets :
          reserve'[t][a] # reserve[t][a] =>
             \E p \in Players :
                held'[p][a] - held[p][a] = reserve[t][a] - reserve'[t][a]]_vars

-----------------------------------------------------------------------------
(* What the axe of a player cost, by its recipes; an axe that was written  *)
(* into the packets rather than crafted cost nothing.                      *)
AxeCost(axe, a) == SumFunction([tier \in 1..axe |-> Rules!RecipeCost(tier, a)])
SpentOnAxe(p, a) == IF held[p]["xp"] = 0 THEN 0 ELSE AxeCost(state[p].axe, a)

Worth(p, a) == held[p][a] + SpentOnAxe(p, a)

InTrees(a) == SumFunction([t \in Trees |-> reserve[t][a]])
WithPlayers(a) == SumFunction([p \in Players |-> Worth(p, a)])
InWallets(a) == IF a = "logs" THEN wallet ELSE 0

(* The world's fixed supply is accounted for to the unit: what trees,      *)
(* players and wallets hold and what the players' axes are made of is what *)
(* was issued (PLAYER.md, "Limits").  Nothing is minted, diverted or lost. *)
SupplyIsConserved ==
    \A a \in Assets :
        InTrees(a) + WithPlayers(a) + InWallets(a) = Reserve * Cardinality(Trees)

-----------------------------------------------------------------------------
(* The host's mirrors and the scripts agree in the other direction too: a  *)
(* playable player's swing at a living tree, computed by the host          *)
(* (PlayerLuck::advance, material_drop), is a transaction both covenant    *)
(* halves accept, so no honest client is ever refused.                     *)
SwingsAreAccepted ==
    \A p \in Players, t \in Trees :
        (Playable(p) /\ health[t] > 0) =>
            LET hero == Rules!AfterSwing([roll |-> state[p].roll,
                            credit |-> state[p].credit,
                            axe |-> state[p].axe, held |-> held[p]])
                next == [roll |-> hero.roll, credit |-> hero.credit, axe |-> hero.axe]
                gain == [a \in Assets |-> hero.held[a] - held[p][a]]
            IN  /\ LedgerAllows(reserve[t], gain, gain)
                /\ ChopPackets(p, next)
                /\ ChopHealth(p, t, next, health[t] - gain["logs"])
                /\ ChopAssets(p, t, next, gain, gain)

(* Likewise a craft the client prepares (prepare_craft) is one the covenant*)
(* accepts.                                                                *)
CraftsAreAccepted ==
    \A p \in Players :
        (/\ Playable(p)
         /\ state[p].axe < 3
         /\ held[p]["xp"] >= RequiredXp[state[p].axe + 1]
         /\ \A a \in Assets :
               held[p][a] >= Rules!RecipeCost(state[p].axe + 1, a)) =>
            LET tier == state[p].axe + 1
                next == [roll |-> state[p].roll, credit |-> state[p].credit,
                         axe |-> tier]
                burned == [a \in Assets |-> Rules!RecipeCost(tier, a)]
            IN  /\ LedgerAllows(held[p], burned, NoAssets)
                /\ CraftPackets(p, next)
                /\ CraftAssets(next, burned)

(* No honest move is refused.                                              *)
MovesAreAccepted == SwingsAreAccepted /\ CraftsAreAccepted

(* Every behaviour the covenants allow is a game played by the rules, for  *)
(* the players they allow to play.                                         *)
PlaysByTheRules == Rules!RulesSpec
=============================================================================
