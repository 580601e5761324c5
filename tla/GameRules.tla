------------------------------ MODULE GameRules ------------------------------
(***************************************************************************)
(* The game as the client computes it and as PLAYER.md and TREE.md promise *)
(* it: a hero swings at a tree, crafts the next axe, withdraws LOG; a      *)
(* funded stump regrows.  Every step is deterministic but for its actor:   *)
(* there are no transactions, scripts or proposals here.  Forest, where    *)
(* anyone may propose any transaction and only the covenants decide, is    *)
(* shown to implement this module.                                         *)
(***************************************************************************)
EXTENDS PlayerLuck

CONSTANTS
    Trees,
    Players,
    LogsPerTree,   \* LOGS_PER_TREE: the health of a mature tree
    Reserve,       \* the units of each asset a tree starts with
    MaxMove        \* bound: the LOG one new hero may bring along

Assets == {"logs", "xp", "stone", "ironOre"}
Holdings == [Assets -> Nat]

\* Heroes: a roll and a credit (PlayerLuck), an axe tier, the assets held.
Heroes == [roll : Rolls, credit : 0..MaxCredit, axe : Axes, held : Holdings]

VARIABLES
    health,    \* health[t]: TreeHealth
    reserve,   \* reserve[t]: the assets the tree holds
    hero       \* hero[p]: the set of p's hero, empty until p joins

rulesVars == <<health, reserve, hero>>

RulesInit ==
    /\ health = [t \in Trees |-> LogsPerTree]
    /\ reserve = [t \in Trees |-> [a \in Assets |-> Reserve]]
    /\ hero = [p \in Players |-> {}]

-----------------------------------------------------------------------------
(* What a swing earns (PlayerChopTransition::validate).                    *)
SwingReward(h) ==
    LET xp == h.held["xp"]
    IN  [a \in Assets |->
            CASE a = "stone"   -> StoneReward(h.roll, h.credit, xp, h.axe)
              [] a = "ironOre" -> IronOreReward(h.roll, h.credit, xp, h.axe)
              [] OTHER         -> Reward(h.roll, h.credit, xp, h.axe)]

(* The hero after the swing: luck advanced, axe kept, reward added.        *)
AfterSwing(h) ==
    LET xp == h.held["xp"]
    IN  [roll   |-> NextRoll[h.roll],
         credit |-> NextCredit(h.roll, h.credit, xp, h.axe),
         axe    |-> h.axe,
         held   |-> [a \in Assets |-> h.held[a] + SwingReward(h)[a]]]

(* AxeRecipe::log_cost, stone_cost and iron_ore_cost; XP is never spent.   *)
RecipeCost(tier, a) ==
    CASE a = "logs"    -> Recipe[tier].logs
      [] a = "stone"   -> Recipe[tier].stone
      [] a = "ironOre" -> Recipe[tier].ironOre
      [] OTHER         -> 0

(* A player joins with fresh packets.  The canonical activation is one     *)
(* choice; a marker routed through an ordinary output may pick any roll    *)
(* and any credit in the corridor, but never an axe or experience.         *)
Join(p) ==
    /\ hero[p] = {}
    /\ \E roll \in Rolls, credit \in 0..MaxCredit, logs \in 0..MaxMove :
          hero' = [hero EXCEPT ![p] =
                     {[roll |-> roll, credit |-> credit, axe |-> NoAxe,
                       held |-> [a \in Assets |-> IF a = "logs" THEN logs ELSE 0]]}]
    /\ UNCHANGED <<health, reserve>>

Swing(p, t) ==
    /\ health[t] > 0
    /\ \A a \in Assets : reserve[t][a] > 0
    /\ \E h \in hero[p] :
          /\ hero' = [hero EXCEPT ![p] = {AfterSwing(h)}]
          /\ health' = [health EXCEPT ![t] = @ - SwingReward(h)["logs"]]
          /\ reserve' = [reserve EXCEPT ![t] =
                           [a \in Assets |-> @[a] - SwingReward(h)[a]]]

CraftAxe(p) ==
    /\ \E h \in hero[p] :
          /\ h.axe < 3
          /\ h.held["xp"] >= RequiredXp[h.axe + 1]
          /\ \A a \in Assets : h.held[a] >= RecipeCost(h.axe + 1, a)
          /\ hero' = [hero EXCEPT ![p] = {[h EXCEPT
                         !.axe = @ + 1,
                         !.held = [a \in Assets |-> @[a] - RecipeCost(h.axe + 1, a)]]}]
    /\ UNCHANGED <<health, reserve>>

WithdrawLogs(p) ==
    /\ \E h \in hero[p] : \E amount \in 1..h.held["logs"] :
          hero' = [hero EXCEPT ![p] = {[h EXCEPT !.held["logs"] = @ - amount]}]
    /\ UNCHANGED <<health, reserve>>

RegrowTree(t) ==
    /\ health[t] = 0
    /\ reserve[t]["logs"] > 0
    /\ health' = [health EXCEPT ![t] = LogsPerTree]
    /\ UNCHANGED <<reserve, hero>>

RulesNext ==
    \/ \E p \in Players : Join(p) \/ CraftAxe(p) \/ WithdrawLogs(p)
    \/ \E p \in Players, t \in Trees : Swing(p, t)
    \/ \E t \in Trees : RegrowTree(t)

RulesSpec == RulesInit /\ [][RulesNext]_rulesVars
=============================================================================
