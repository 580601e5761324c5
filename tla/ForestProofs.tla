---------------------------- MODULE ForestProofs ----------------------------
(***************************************************************************)
(* The covenants keep their promises for any number of trees and players,  *)
(* any reserve, any rates, recipes and rolls, and any proposal.            *)
(*                                                                         *)
(* What the scripts accept is first brought into a normal form, one lemma  *)
(* per leaf; every later proof works on that form.  Sums over trees and    *)
(* players come next, by induction over finite sets, and with them the     *)
(* conservation of the supply; then the moves that must be accepted, and   *)
(* the refinement of GameRules.                                            *)
(***************************************************************************)
EXTENDS ForestProperties, SumTheorems

(* The arithmetic of a swing.                                              *)

(* A set of reached thresholds is a finite subset of the thresholds.       *)
LEMMA ReachedThresholds ==
    ASSUME NEW xp \in Nat
    PROVE  LET reached == {h \in LevelThresholds : xp >= h}
           IN  /\ Cardinality(reached) \in Nat
               /\ Cardinality(reached) <= Cardinality(LevelThresholds)
               /\ Cardinality(LevelThresholds) \in Nat
<1> DEFINE reached == {h \in LevelThresholds : xp >= h}
<1>1. IsFiniteSet(LevelThresholds)
  BY RateAssumption
<1>2. reached \in SUBSET LevelThresholds
  OBVIOUS
<1> QED
  BY <1>1, <1>2, FS_Subset, FS_CardinalityType

(* Without the cap the level rate is already within it: the host's min()   *)
(* (log_drop_basis_points) never takes effect, which is why the script may *)
(* leave it out.                                                           *)
LEMMA RateIsUncapped ==
    ASSUME NEW xp \in Nat, NEW axe \in Axes
    PROVE  LogDropBasisPoints(xp, axe) =
              BaseRate
              + LevelBonus * Cardinality({h \in LevelThresholds : xp >= h})
              + AxeBonus[axe]
<1> DEFINE n == Cardinality({h \in LevelThresholds : xp >= h})
           m == Cardinality(LevelThresholds)
<1>1. n \in Nat /\ m \in Nat /\ n <= m
  BY ReachedThresholds
<1>2. BaseRate \in Nat /\ LevelBonus \in Nat /\ MaxLevelRate = BaseRate + LevelBonus * m
  BY RateAssumption
<1> HIDE DEF n, m
<1>3. LevelBonus * n <= LevelBonus * m
  BY <1>1, <1>2
<1>4. ~(BaseRate + LevelBonus * n > MaxLevelRate)
  BY <1>1, <1>2, <1>3
<1> QED
  BY <1>4 DEF LogDropBasisPoints, n

(* The chance of a LOG lies between the base chance and a full window.     *)
LEMMA RateBounds ==
    ASSUME NEW xp \in Nat, NEW axe \in Axes
    PROVE  /\ LogDropBasisPoints(xp, axe) \in Nat
           /\ BaseRate <= LogDropBasisPoints(xp, axe)
           /\ LogDropBasisPoints(xp, axe) <= MaxLevelRate + AxeBonus[axe]
           /\ LogDropBasisPoints(xp, axe) <= Window
<1> DEFINE n == Cardinality({h \in LevelThresholds : xp >= h})
           m == Cardinality(LevelThresholds)
<1>1. n \in Nat /\ m \in Nat /\ n <= m
  BY ReachedThresholds
<1>2. /\ BaseRate \in Nat /\ LevelBonus \in Nat /\ AxeBonus[axe] \in Nat
      /\ MaxLevelRate = BaseRate + LevelBonus * m
      /\ Window \in Nat /\ MaxLevelRate + AxeBonus[axe] <= Window
  BY RateAssumption
<1>3. LogDropBasisPoints(xp, axe) = BaseRate + LevelBonus * n + AxeBonus[axe]
  BY RateIsUncapped
<1> HIDE DEF n, m
<1>4. LevelBonus * n \in Nat /\ LevelBonus * m \in Nat /\ LevelBonus * n <= LevelBonus * m
  BY <1>1, <1>2
<1> QED
  BY <1>1, <1>2, <1>3, <1>4

(* One swing keeps the credit in the corridor, wherever in it the swing    *)
(* starts; a reward needs a full window of credit and a miss leaves less   *)
(* than the corridor's top.                                                *)
LEMMA SwingInCorridor ==
    ASSUME NEW roll \in Rolls, NEW credit \in 0..MaxCredit,
           NEW xp \in Nat, NEW axe \in Axes
    PROVE  /\ NextCredit(roll, credit, xp, axe) \in 0..MaxCredit
           /\ Reward(roll, credit, xp, axe) \in 0..1
           /\ Reward(roll, credit, xp, axe) = 1 => RawCredit(credit, xp, axe) >= Window
           /\ Reward(roll, credit, xp, axe) = 0 => RawCredit(credit, xp, axe) <= MaxCredit
<1> DEFINE rate == LogDropBasisPoints(xp, axe)
           raw == RawCredit(credit, xp, axe)
<1>1. rate \in Nat /\ rate <= Window /\ Window \in Nat \ {0} /\ credit \in Nat
  BY RateBounds, RateAssumption DEF MaxCredit
<1>2. raw = credit + rate /\ MaxCredit = 2 * Window /\ credit <= MaxCredit
  BY RateAssumption DEF RawCredit, MaxCredit
<1>3. CASE Success(roll, credit, xp, axe)
  <2>1. Reward(roll, credit, xp, axe) = 1
    BY <1>3 DEF Reward
  <2>2. raw >= Window
    BY <1>3, <1>1, <1>2 DEF Success
  <2>3. NextCredit(roll, credit, xp, axe) = raw - Window
    BY <2>1, <1>1 DEF NextCredit
  <2> HIDE DEF rate, raw
  <2> QED
    BY <1>1, <1>2, <2>1, <2>2, <2>3 DEF raw
<1>4. CASE ~Success(roll, credit, xp, axe)
  <2>1. Reward(roll, credit, xp, axe) = 0
    BY <1>4 DEF Reward
  <2>2. ~(raw > MaxCredit)
    BY <1>4 DEF Success
  <2>3. NextCredit(roll, credit, xp, axe) = raw
    BY <2>1, <1>1, <1>2 DEF NextCredit
  <2> QED
    BY <1>1, <1>2, <2>1, <2>2, <2>3
<1> QED
  BY <1>3, <1>4
-----------------------------------------------------------------------------
(* A player that does not exist holds nothing.                             *)
AbsentHoldsNothing == \A p \in Players : ~Active(p) => held[p] = NoAssets

ForestInv ==
    /\ TypeOK
    /\ AbsentHoldsNothing
    /\ TreeStaysWorkable
    /\ EarnedStateIsCanonical

LEMMA Constants ==
    /\ Window \in Nat \ {0} /\ BaseRate \in Nat /\ BaseRate <= Window
    /\ MaxCredit = 2 * Window /\ InitialCredit \in 0..MaxCredit
    /\ LogsPerTree \in Nat \ {0} /\ Reserve \in Nat /\ MaxMove \in Nat
    /\ Credits \subseteq Nat /\ 0..MaxCredit \subseteq Credits
    /\ InitialRoll \in [Players -> Rolls]
    /\ Entries \subseteq EntryStates
BY RateAssumption, ForestAssumption DEF MaxCredit, InitialCredit

(* The fields of a player state, whatever its entry.                       *)
LEMMA StateFields ==
    ASSUME TypeOK, NEW p \in Players
    PROVE  /\ state[p].entry \in {"none", "issued", "recursive"}
           /\ state[p].idGroup \in Nat
           /\ state[p].roll \in Rolls
           /\ state[p].credit \in Nat
           /\ state[p].axe \in Axes
           /\ held[p]["xp"] \in Nat /\ held[p]["logs"] \in Nat
           /\ held[p]["stone"] \in Nat /\ held[p]["ironOre"] \in Nat
<1>1. state[p] \in PlayerStates
  BY DEF TypeOK
<1>2. held[p] \in [Assets -> Nat]
  BY DEF TypeOK, Holdings
<1>3. held[p]["xp"] \in Nat /\ held[p]["logs"] \in Nat
      /\ held[p]["stone"] \in Nat /\ held[p]["ironOre"] \in Nat
  BY <1>2 DEF Assets
<1>4. CASE state[p] \in EntryStates
  BY <1>3, <1>4, Constants DEF EntryStates
<1>5. CASE state[p] \in [entry : {"none"}, idGroup : {0}, roll : Rolls,
                         credit : {0}, axe : {NoAxe}]
  BY <1>3, <1>5 DEF NoAxe, Axes
<1> QED
  BY <1>1, <1>4, <1>5 DEF PlayerStates

-----------------------------------------------------------------------------
(* The arithmetic of the scripts.                                          *)

(* The script's rate is the host's.                                        *)
LEMMA ScriptRateIsHostRate ==
    ASSUME TypeOK, NEW p \in Players
    PROVE  /\ ScriptRate(p) = LogDropBasisPoints(held[p]["xp"], state[p].axe)
           /\ ScriptRate(p) \in Nat
           /\ ScriptRate(p) <= Window
<1>1. held[p]["xp"] \in Nat /\ state[p].axe \in Axes
  BY StateFields
<1>2. {h \in LevelThresholds : held[p]["xp"] + 1 > h}
       = {h \in LevelThresholds : held[p]["xp"] >= h}
  <2>1. \A h \in LevelThresholds : held[p]["xp"] + 1 > h <=> held[p]["xp"] >= h
    BY <1>1, RateAssumption
  <2> QED
    BY <2>1
<1>3. ScriptRate(p) = LogDropBasisPoints(held[p]["xp"], state[p].axe)
  BY <1>1, <1>2, RateIsUncapped DEF ScriptRate
<1> QED
  BY <1>1, <1>3, RateBounds

(* The reward bit is a bit; one swing pays LOG and XP alike and at most    *)
(* one material, and only with a reward.                                   *)
LEMMA GainFacts ==
    ASSUME TypeOK, NEW p \in Players, NEW next
    PROVE  /\ ScriptReward(p, next) \in 0..1
           /\ \A a \in Assets : ScriptGain(p, next, a) \in 0..1
           /\ ScriptGain(p, next, "logs") = ScriptReward(p, next)
           /\ ScriptGain(p, next, "xp") = ScriptReward(p, next)
           /\ ScriptGain(p, next, "stone") + ScriptGain(p, next, "ironOre")
                 <= ScriptReward(p, next)
<1>1. ScriptReward(p, next) \in 0..1
  BY DEF ScriptReward
<1>2. ScriptMaterial(p, next) \in 0..2
      /\ (ScriptReward(p, next) = 0 => ScriptMaterial(p, next) = 0)
  BY DEF ScriptMaterial
<1>3. /\ ScriptGain(p, next, "logs") = ScriptReward(p, next)
      /\ ScriptGain(p, next, "xp") = ScriptReward(p, next)
      /\ ScriptGain(p, next, "stone") = IF ScriptMaterial(p, next) = 1 THEN 1 ELSE 0
      /\ ScriptGain(p, next, "ironOre") = IF ScriptMaterial(p, next) = 2 THEN 1 ELSE 0
  BY DEF ScriptGain
<1> QED
  BY <1>1, <1>2, <1>3 DEF Assets

(* A packet the chop leaves accept is in the corridor, and so was the one  *)
(* it replaces.                                                            *)
LEMMA ChopPacketFacts ==
    ASSUME TypeOK, NEW p \in Players, NEW next \in Packets, ChopPackets(p, next)
    PROVE  /\ CanonicalStart(p)
           /\ next.axe = state[p].axe
           /\ next.roll = NextRoll[state[p].roll]
           /\ state[p].credit <= MaxCredit
           /\ next.credit <= MaxCredit
<1>1. next.credit \in Nat /\ state[p].credit \in Nat /\ MaxCredit \in Nat
  <2>1. next.credit \in Credits
    BY DEF Packets
  <2>2. state[p].credit \in Nat
    BY StateFields
  <2>3. MaxCredit \in Nat /\ Credits \subseteq Nat
    BY Constants
  <2> QED
    BY <2>1, <2>2, <2>3
<1>2. state[p].credit < MaxCredit + 1 /\ next.credit < MaxCredit + 1
  BY DEF ChopPackets, AdvancedLuck
<1>3. state[p].credit <= MaxCredit /\ next.credit <= MaxCredit
  BY <1>1, <1>2
<1> QED
  BY <1>3 DEF ChopPackets, AdvancedLuck

-----------------------------------------------------------------------------
(* Normal forms: what an accepted transaction does.                        *)

LEMMA ChopEffect ==
    ASSUME TypeOK, NEW p \in Players, NEW t \in Trees, Chop(p, t)
    PROVE  \E next \in Packets :
             /\ Active(p)
             /\ ChopPackets(p, next)
             /\ Spend(p, next)
             /\ health[t] > 0
             /\ \A a \in Assets : reserve[t][a] > 0
             /\ health' = [health EXCEPT ![t] = health[t] - ScriptReward(p, next)]
             /\ reserve' = [reserve EXCEPT ![t] =
                    [a \in Assets |-> reserve[t][a] - ScriptGain(p, next, a)]]
             /\ held' = [held EXCEPT ![p] =
                    [a \in Assets |-> held[p][a] + ScriptGain(p, next, a)]]
             /\ wallet' = wallet
<1>1. PICK next \in Packets :
        /\ ChopPackets(p, next)
        /\ \E h \in Healths :
              /\ ChopHealth(p, t, next, h)
              /\ health' = [health EXCEPT ![t] = h]
        /\ \E taken \in Moves, given \in Moves :
              /\ LedgerAllows(reserve[t], taken, given)
              /\ ChopAssets(p, t, next, taken, given)
              /\ reserve' = [reserve EXCEPT ![t] =
                               [a \in Assets |-> reserve[t][a] - taken[a]]]
              /\ held' = [held EXCEPT ![p] =
                            [a \in Assets |-> held[p][a] + given[a]]]
        /\ Spend(p, next)
  BY DEF Chop
<1>2. PICK h \in Healths :
        ChopHealth(p, t, next, h) /\ health' = [health EXCEPT ![t] = h]
  BY <1>1
<1>3. PICK taken \in Moves, given \in Moves :
        /\ ChopAssets(p, t, next, taken, given)
        /\ reserve' = [reserve EXCEPT ![t] = [a \in Assets |-> reserve[t][a] - taken[a]]]
        /\ held' = [held EXCEPT ![p] = [a \in Assets |-> held[p][a] + given[a]]]
  BY <1>1
<1>4. ScriptReward(p, next) \in 0..1 /\ \A a \in Assets : ScriptGain(p, next, a) \in 0..1
  BY GainFacts
<1>5. h = health[t] - ScriptReward(p, next) /\ health[t] > 0
  BY <1>2, <1>4, Constants DEF ChopHealth, Healths
<1>6. \A a \in Assets :
        /\ reserve[t][a] > 0
        /\ taken[a] = ScriptGain(p, next, a)
        /\ given[a] = ScriptGain(p, next, a)
  <2> TAKE a \in Assets
  <2>1. /\ reserve[t][a] \in Nat /\ held[p][a] \in Nat
        /\ taken[a] \in Nat /\ given[a] \in Nat /\ ScriptGain(p, next, a) \in Nat
    BY <1>4, Constants DEF TypeOK, Holdings, Moves
  <2>2. /\ reserve[t][a] > 0
        /\ (reserve[t][a] - taken[a]) + ScriptGain(p, next, a) = reserve[t][a]
        /\ held[p][a] + given[a] = held[p][a] + ScriptGain(p, next, a)
    BY <1>3 DEF ChopAssets
  <2> QED
    BY <2>1, <2>2
<1>7. /\ [a \in Assets |-> reserve[t][a] - taken[a]]
         = [a \in Assets |-> reserve[t][a] - ScriptGain(p, next, a)]
      /\ [a \in Assets |-> held[p][a] + given[a]]
         = [a \in Assets |-> held[p][a] + ScriptGain(p, next, a)]
  BY <1>6
<1> QED
  BY <1>1, <1>2, <1>3, <1>5, <1>6, <1>7 DEF Chop

LEMMA CraftEffect ==
    ASSUME TypeOK, NEW p \in Players, Craft(p)
    PROVE  \E next \in Packets :
             /\ Active(p)
             /\ CraftPackets(p, next)
             /\ Spend(p, next)
             /\ \A a \in Assets : ScriptBurn(next.axe, a) <= held[p][a]
             /\ held' = [held EXCEPT ![p] =
                    [a \in Assets |-> held[p][a] - ScriptBurn(next.axe, a)]]
             /\ UNCHANGED <<health, reserve, wallet>>
<1>1. PICK next \in Packets, burned \in Moves :
        /\ CraftPackets(p, next)
        /\ Spend(p, next)
        /\ LedgerAllows(held[p], burned, NoAssets)
        /\ CraftAssets(next, burned)
        /\ held' = [held EXCEPT ![p] = [a \in Assets |-> held[p][a] - burned[a]]]
  BY DEF Craft
<1>2. \A a \in Assets : burned[a] = ScriptBurn(next.axe, a) /\ burned[a] <= held[p][a]
  BY <1>1 DEF CraftAssets, LedgerAllows
<1>3. [a \in Assets |-> held[p][a] - burned[a]]
       = [a \in Assets |-> held[p][a] - ScriptBurn(next.axe, a)]
  BY <1>2
<1> QED
  BY <1>1, <1>2, <1>3 DEF Craft

LEMMA WithdrawEffect ==
    ASSUME TypeOK, NEW p \in Players, Withdraw(p)
    PROVE  \E next \in Packets, amount \in 0..held[p]["logs"] :
             /\ Active(p)
             /\ SamePackets(p, next)
             /\ Spend(p, next)
             /\ held' = [held EXCEPT ![p] =
                    [a \in Assets |-> IF a = "logs" THEN held[p][a] - amount
                                      ELSE held[p][a]]]
             /\ wallet' = wallet + amount
             /\ UNCHANGED <<health, reserve>>
<1>1. PICK next \in Packets : SamePackets(p, next) /\ Spend(p, next)
  BY DEF Withdraw
<1>2. PICK taken \in Moves, given \in Moves :
        /\ LedgerAllows(held[p], taken, given)
        /\ WithdrawAssets(p, taken, given)
        /\ held' = [held EXCEPT ![p] = [a \in Assets |-> held[p][a] - taken[a]]]
        /\ wallet' = wallet + given["logs"]
  BY DEF Withdraw
<1>3. \A a \in Assets : held[p][a] \in Nat /\ taken[a] \in Nat
  BY Constants DEF TypeOK, Holdings, Moves
<1>4. taken["logs"] \in 0..held[p]["logs"] /\ given["logs"] = taken["logs"]
  BY <1>2, <1>3 DEF WithdrawAssets, LedgerAllows, Assets
<1>5. \A a \in Assets : a # "logs" => held[p][a] - taken[a] = held[p][a]
  BY <1>2, <1>3 DEF WithdrawAssets
<1>6. [a \in Assets |-> held[p][a] - taken[a]]
       = [a \in Assets |-> IF a = "logs" THEN held[p][a] - taken["logs"] ELSE held[p][a]]
  BY <1>5
<1> QED
  BY <1>1, <1>2, <1>4, <1>6 DEF Withdraw

LEMMA RenewEffect ==
    ASSUME TypeOK, NEW p \in Players, RenewPlayer(p)
    PROVE  /\ Active(p)
           /\ \E next \in Packets : SamePackets(p, next) /\ Spend(p, next)
           /\ UNCHANGED <<health, reserve, held, wallet>>
<1>1. PICK taken \in Moves :
        /\ RenewalAssets(taken)
        /\ held' = [held EXCEPT ![p] = [a \in Assets |-> held[p][a] - taken[a]]]
  BY DEF RenewPlayer
<1>2. held[p] \in [Assets -> Nat] /\ held \in [Players -> Holdings]
  BY DEF TypeOK, Holdings
<1>3. [a \in Assets |-> held[p][a] - taken[a]] = held[p]
  BY <1>1, <1>2 DEF RenewalAssets
<1>4. held' = held
  BY <1>1, <1>2, <1>3
<1> QED
  BY <1>4 DEF RenewPlayer

LEMMA TreeSelfSendEffect ==
    ASSUME TypeOK, NEW t \in Trees, NEW h, NEW taken,
           TreeRenewalBase(taken), TreeSelfSend(t, h, taken)
    PROVE  /\ health' = [health EXCEPT ![t] = h]
           /\ UNCHANGED <<reserve, state, held, wallet>>
<1>1. reserve[t] \in [Assets -> Nat] /\ reserve \in [Trees -> Holdings]
  BY DEF TypeOK, Holdings
<1>2. [a \in Assets |-> reserve[t][a] - taken[a]] = reserve[t]
  BY <1>1 DEF TreeRenewalBase
<1>3. reserve' = reserve
  BY <1>1, <1>2 DEF TreeSelfSend
<1> QED
  BY <1>3 DEF TreeSelfSend

LEMMA RegrowEffect ==
    ASSUME TypeOK, NEW t \in Trees, Regrow(t)
    PROVE  /\ health[t] = 0 /\ reserve[t]["logs"] > 0
           /\ health' = [health EXCEPT ![t] = LogsPerTree]
           /\ UNCHANGED <<reserve, state, held, wallet>>
BY TreeSelfSendEffect DEF Regrow, TreeRegrowthCovenant

LEMMA MaintainEffect ==
    ASSUME TypeOK, NEW t \in Trees, Maintain(t)
    PROVE  UNCHANGED vars
<1>1. health' = [health EXCEPT ![t] = health[t]] /\ UNCHANGED <<reserve, state, held, wallet>>
  BY TreeSelfSendEffect DEF Maintain, TreeMaintenanceCovenant
<1>2. health' = health
  BY <1>1 DEF TypeOK
<1> QED
  BY <1>1, <1>2 DEF vars

(* Spending rewrites the packets of one player and makes it recursive.     *)
LEMMA SpendEffect ==
    ASSUME TypeOK, NEW p \in Players, Active(p),
           NEW next \in Packets, Spend(p, next)
    PROVE  /\ state' \in [Players -> PlayerStates]
           /\ state'[p] = [entry |-> "recursive", idGroup |-> state[p].idGroup,
                           roll |-> next.roll, credit |-> next.credit,
                           axe |-> next.axe]
           /\ \A q \in Players : q # p => state'[q] = state[q]
<1>1. state \in [Players -> PlayerStates] /\ state[p] \in EntryStates
  BY DEF TypeOK, Active, PlayerStates
<1> DEFINE after == [entry |-> "recursive", idGroup |-> state[p].idGroup,
                     roll |-> next.roll, credit |-> next.credit, axe |-> next.axe]
<1>2. after \in EntryStates
  BY <1>1 DEF EntryStates, Packets
<1>3. state' = [state EXCEPT ![p] = after]
  BY DEF Spend
<1> QED
  BY <1>1, <1>2, <1>3 DEF PlayerStates

-----------------------------------------------------------------------------
(* The inductive invariant.                                                *)

LEMMA InitInv == Init => ForestInv
<1> SUFFICES ASSUME Init PROVE ForestInv
  OBVIOUS
<1>1. NoAssets \in Holdings /\ \A a \in Assets : NoAssets[a] = 0
  BY DEF NoAssets, Holdings
<1>2. TypeOK
  <2>1. state \in [Players -> PlayerStates]
    <3>1. \A p \in Players :
            [entry |-> "none", idGroup |-> 0, roll |-> InitialRoll[p],
             credit |-> 0, axe |-> NoAxe] \in PlayerStates
      BY Constants DEF PlayerStates
    <3> QED
      BY <3>1 DEF Init
  <2>2. reserve \in [Trees -> Holdings]
    BY Constants DEF Init, Holdings
  <2>3. health \in [Trees -> 0..LogsPerTree] /\ wallet \in Nat
    BY Constants DEF Init
  <2>4. held \in [Players -> Holdings]
    BY <1>1 DEF Init
  <2> QED
    BY <2>1, <2>2, <2>3, <2>4 DEF TypeOK
<1>3. AbsentHoldsNothing
  BY DEF Init, AbsentHoldsNothing
<1>4. TreeStaysWorkable
  <2> SUFFICES ASSUME NEW t \in Trees PROVE Workable(LogsPerTree, reserve[t])
    BY DEF TreeStaysWorkable, Init
  <2>1. \A a \in Assets : reserve[t][a] = Reserve
    BY DEF Init
  <2>2. \E cycles \in 0..Reserve : Reserve = LogsPerTree + cycles * LogsPerTree
    <3>1. PICK cycles \in 1..Reserve : Reserve = cycles * LogsPerTree
      BY ForestAssumption
    <3>2. /\ cycles - 1 \in 0..Reserve
          /\ Reserve = LogsPerTree + (cycles - 1) * LogsPerTree
      BY <3>1, Constants
    <3> QED
      BY <3>2
  <2> QED
    BY <2>1, <2>2, Constants DEF Workable, Assets
<1>5. EarnedStateIsCanonical
  BY <1>1 DEF Init, EarnedStateIsCanonical, Earned
<1> QED
  BY <1>2, <1>3, <1>4, <1>5 DEF ForestInv

(* One swing moves at most one unit of each asset and keeps a tree         *)
(* workable: what lowers the reserve of LOG lowers the health as much.     *)
LEMMA ChopKeepsWorkable ==
    ASSUME TypeOK, NEW t \in Trees, Workable(health[t], reserve[t]),
           NEW p \in Players, NEW next \in Packets,
           \A a \in Assets : reserve[t][a] > 0
    PROVE  Workable(health[t] - ScriptReward(p, next),
                    [a \in Assets |-> reserve[t][a] - ScriptGain(p, next, a)])
<1> DEFINE gain(a) == ScriptGain(p, next, a)
           r == [a \in Assets |-> reserve[t][a] - gain(a)]
<1>1. /\ gain("logs") = ScriptReward(p, next) /\ gain("xp") = ScriptReward(p, next)
      /\ gain("stone") \in Nat /\ gain("ironOre") \in Nat
      /\ gain("stone") + gain("ironOre") <= ScriptReward(p, next)
      /\ ScriptReward(p, next) \in 0..1
  BY GainFacts DEF Assets
<1>2. /\ r["logs"] = reserve[t]["logs"] - gain("logs")
      /\ r["xp"] = reserve[t]["xp"] - gain("xp")
      /\ r["stone"] = reserve[t]["stone"] - gain("stone")
      /\ r["ironOre"] = reserve[t]["ironOre"] - gain("ironOre")
  BY DEF Assets
<1>3. /\ reserve[t]["logs"] \in Nat /\ reserve[t]["xp"] \in Nat
      /\ reserve[t]["stone"] \in Nat /\ reserve[t]["ironOre"] \in Nat
      /\ health[t] \in Nat
  BY Constants DEF TypeOK, Holdings, Assets
<1>4. PICK cycles \in 0..Reserve :
        reserve[t]["logs"] = health[t] + cycles * LogsPerTree
  BY DEF Workable
<1>5. r["logs"] = (health[t] - ScriptReward(p, next)) + cycles * LogsPerTree
  <2>1. cycles * LogsPerTree \in Nat
    BY <1>4, Constants
  <2> QED
    BY <1>1, <1>2, <1>3, <1>4, <2>1
<1>6. /\ r["logs"] = r["xp"]
      /\ r["stone"] >= r["logs"]
      /\ r["ironOre"] >= r["logs"]
      /\ r["stone"] + r["ironOre"] >= r["logs"] + Reserve
  <2> HIDE DEF gain, r
  <2> QED
    BY <1>1, <1>2, <1>3, Constants DEF Workable
<1> QED
  BY <1>4, <1>5, <1>6 DEF Workable

(* A swing leaves a canonical recursive player behind.                     *)
LEMMA ChopStepInv ==
    ASSUME ForestInv, NEW p \in Players, NEW t \in Trees, Chop(p, t)
    PROVE  ForestInv'
<1> USE DEF ForestInv
<1>1. PICK next \in Packets :
        /\ Active(p)
        /\ ChopPackets(p, next)
        /\ Spend(p, next)
        /\ health[t] > 0
        /\ \A a \in Assets : reserve[t][a] > 0
        /\ health' = [health EXCEPT ![t] = health[t] - ScriptReward(p, next)]
        /\ reserve' = [reserve EXCEPT ![t] =
               [a \in Assets |-> reserve[t][a] - ScriptGain(p, next, a)]]
        /\ held' = [held EXCEPT ![p] =
               [a \in Assets |-> held[p][a] + ScriptGain(p, next, a)]]
        /\ wallet' = wallet
  BY ChopEffect
<1>2. /\ ScriptReward(p, next) \in 0..1
      /\ \A a \in Assets : ScriptGain(p, next, a) \in 0..1
  BY GainFacts
<1>3. /\ state' \in [Players -> PlayerStates]
      /\ state'[p] = [entry |-> "recursive", idGroup |-> state[p].idGroup,
                      roll |-> next.roll, credit |-> next.credit, axe |-> next.axe]
      /\ \A q \in Players : q # p => state'[q] = state[q]
  BY <1>1, SpendEffect
<1>4. TypeOK'
  <2>1. health' \in [Trees -> 0..LogsPerTree]
    BY <1>1, <1>2, Constants DEF TypeOK
  <2>2. [a \in Assets |-> reserve[t][a] - ScriptGain(p, next, a)] \in Holdings
    <3> SUFFICES ASSUME NEW a \in Assets
                 PROVE  reserve[t][a] - ScriptGain(p, next, a) \in Nat
      BY DEF Holdings
    <3>1. reserve[t][a] \in Nat /\ reserve[t][a] > 0 /\ ScriptGain(p, next, a) \in 0..1
      BY <1>1, <1>2 DEF TypeOK, Holdings
    <3> QED
      BY <3>1
  <2>3. [a \in Assets |-> held[p][a] + ScriptGain(p, next, a)] \in Holdings
    <3> SUFFICES ASSUME NEW a \in Assets
                 PROVE  held[p][a] + ScriptGain(p, next, a) \in Nat
      BY DEF Holdings
    <3>1. held[p][a] \in Nat /\ ScriptGain(p, next, a) \in 0..1
      BY <1>2 DEF TypeOK, Holdings
    <3> QED
      BY <3>1
  <2> QED
    BY <1>1, <1>3, <2>1, <2>2, <2>3 DEF TypeOK
<1>5. AbsentHoldsNothing'
  BY <1>1, <1>3 DEF AbsentHoldsNothing, Active, TypeOK
<1>6. TreeStaysWorkable'
  <2> SUFFICES ASSUME NEW u \in Trees PROVE Workable(health'[u], reserve'[u])
    BY DEF TreeStaysWorkable, Workable
  <2>1. Workable(health[u], reserve[u])
    BY DEF TreeStaysWorkable
  <2>2. CASE u = t
    <3>1. Workable(health[t] - ScriptReward(p, next),
                   [a \in Assets |-> reserve[t][a] - ScriptGain(p, next, a)])
      BY <1>1, <2>1, <2>2, ChopKeepsWorkable
    <3>2. /\ health'[u] = health[t] - ScriptReward(p, next)
          /\ reserve'[u] = [a \in Assets |-> reserve[t][a] - ScriptGain(p, next, a)]
      BY <1>1, <2>2 DEF TypeOK
    <3> QED
      BY <3>1, <3>2
  <2>3. CASE u # t
    BY <1>1, <2>1, <2>3 DEF TypeOK
  <2> QED
    BY <2>2, <2>3
<1>7. EarnedStateIsCanonical'
  <2> SUFFICES ASSUME NEW q \in Players PROVE Earned(state'[q], held'[q])
    BY DEF EarnedStateIsCanonical, Earned
  <2>1. CASE q = p
    <3>1. CanonicalStart(p) /\ next.axe = state[p].axe /\ next.credit <= MaxCredit
      BY <1>1, ChopPacketFacts
    <3>2. held'[p]["xp"] = held[p]["xp"] + ScriptGain(p, next, "xp")
      BY <1>1 DEF TypeOK, Assets
    <3>3. held[p]["xp"] \in Nat /\ ScriptGain(p, next, "xp") \in Nat
          /\ state[p].axe \in Axes
      BY <1>2, StateFields DEF Assets
    <3>4. state[p].axe # NoAxe =>
            held'[p]["xp"] >= RequiredXp[state[p].axe]
      BY <3>1, <3>2, <3>3, RecipeAssumption
      DEF CanonicalStart, AxeProgression, Axes, NoAxe
    <3>5. state[p].idGroup = 0
      BY <3>1 DEF CanonicalStart
    <3> QED
      BY <2>1, <1>3, <3>1, <3>4, <3>5 DEF Earned
  <2>2. CASE q # p
    BY <1>1, <1>3, <2>2 DEF EarnedStateIsCanonical, TypeOK
  <2> QED
    BY <2>1, <2>2
<1> QED
  BY <1>4, <1>5, <1>6, <1>7

(* The other player steps change one player and leave the trees alone: it  *)
(* is enough that its new state and assets are of the right kind.          *)
LEMMA PlayerStepInv ==
    ASSUME ForestInv, NEW p \in Players,
           UNCHANGED <<health, reserve>>, wallet' \in Nat,
           state' \in [Players -> PlayerStates], held' \in [Players -> Holdings],
           state'[p].entry # "none", Earned(state'[p], held'[p]),
           \A q \in Players : q # p => state'[q] = state[q] /\ held'[q] = held[q]
    PROVE  ForestInv'
<1> USE DEF ForestInv
<1>1. TypeOK'
  BY DEF TypeOK
<1>2. AbsentHoldsNothing'
  BY DEF AbsentHoldsNothing, Active
<1>3. TreeStaysWorkable'
  BY DEF TreeStaysWorkable, Workable
<1>4. EarnedStateIsCanonical'
  <2> SUFFICES ASSUME NEW q \in Players PROVE Earned(state'[q], held'[q])
    BY DEF EarnedStateIsCanonical, Earned
  <2> QED
    BY DEF EarnedStateIsCanonical
<1> QED
  BY <1>1, <1>2, <1>3, <1>4

LEMMA ActivateStepInv ==
    ASSUME ForestInv, NEW p \in Players, Activate(p)
    PROVE  ForestInv'
<1> USE DEF ForestInv
<1>1. held[p] = NoAssets
  BY DEF Activate, AbsentHoldsNothing
<1> DEFINE fresh == [entry |-> "issued", idGroup |-> 0, roll |-> InitialRoll[p],
                     credit |-> InitialCredit, axe |-> NoAxe]
<1>2. fresh \in PlayerStates
  BY Constants DEF PlayerStates, EntryStates, Axes, NoAxe
<1>3. state' = [state EXCEPT ![p] = fresh] /\ UNCHANGED <<health, reserve, held, wallet>>
  BY DEF Activate
<1>4. Earned(state'[p], held'[p])
  BY <1>1, <1>3 DEF Earned, NoAssets
<1>5. state'[p] = fresh
  BY <1>3 DEF TypeOK
<1> QED
  BY <1>2, <1>3, <1>4, <1>5, PlayerStepInv DEF TypeOK

LEMMA EnterStepInv ==
    ASSUME ForestInv, NEW p \in Players, Enter(p)
    PROVE  ForestInv'
<1> USE DEF ForestInv
<1>1. held[p] = NoAssets
  BY DEF Enter, AbsentHoldsNothing
<1>2. PICK entry \in Entries, logs \in 0..MaxMove :
        /\ state' = [state EXCEPT ![p] = entry]
        /\ logs <= wallet
        /\ wallet' = wallet - logs
        /\ held' = [held EXCEPT ![p] = [held[p] EXCEPT !["logs"] = @ + logs]]
        /\ UNCHANGED <<health, reserve>>
  BY DEF Enter
<1>3. entry \in EntryStates /\ logs \in Nat
  BY Constants
<1>4. state'[p] = entry /\ entry.entry # "none" /\ entry \in PlayerStates
  BY <1>2, <1>3 DEF TypeOK, EntryStates, PlayerStates
<1>5. [held[p] EXCEPT !["logs"] = @ + logs]
       = [a \in Assets |-> IF a = "logs" THEN logs ELSE 0]
  BY <1>1, <1>3 DEF NoAssets, Assets
<1>6. /\ held'[p] = [a \in Assets |-> IF a = "logs" THEN logs ELSE 0]
      /\ held' \in [Players -> Holdings]
  BY <1>2, <1>3, <1>5 DEF TypeOK, Holdings
<1>7. Earned(state'[p], held'[p])
  BY <1>6 DEF Earned
<1>8. wallet' \in Nat
  BY <1>2, <1>3 DEF TypeOK
<1> QED
  BY <1>2, <1>4, <1>6, <1>7, <1>8, PlayerStepInv DEF TypeOK

(* Every recipe asks for XP, and XP is only ever held by canonical players.*)
LEMMA CraftStepInv ==
    ASSUME ForestInv, NEW p \in Players, Craft(p)
    PROVE  ForestInv'
<1> USE DEF ForestInv
<1>1. PICK next \in Packets :
        /\ Active(p)
        /\ CraftPackets(p, next)
        /\ Spend(p, next)
        /\ \A a \in Assets : ScriptBurn(next.axe, a) <= held[p][a]
        /\ held' = [held EXCEPT ![p] =
               [a \in Assets |-> held[p][a] - ScriptBurn(next.axe, a)]]
        /\ UNCHANGED <<health, reserve, wallet>>
  BY CraftEffect
<1>2. /\ state' \in [Players -> PlayerStates]
      /\ state'[p] = [entry |-> "recursive", idGroup |-> state[p].idGroup,
                      roll |-> next.roll, credit |-> next.credit, axe |-> next.axe]
      /\ \A q \in Players : q # p => state'[q] = state[q]
  BY <1>1, SpendEffect
<1>3. /\ next.axe \in 1..3 /\ next.credit = state[p].credit
      /\ held[p]["xp"] >= RequiredXp[next.axe] /\ held[p]["xp"] > 0
      /\ state[p].idGroup = 0
  <2>1. next.axe = state[p].axe + 1 /\ state[p].axe < 3
        /\ held[p]["xp"] > RequiredXp[next.axe] - 1
        /\ next.credit = state[p].credit /\ state[p].idGroup = 0
    BY <1>1 DEF CraftPackets, CanonicalStart
  <2>2. next.axe \in 1..3
    BY <2>1, StateFields DEF Axes
  <2> QED
    BY <2>1, <2>2, StateFields, RecipeAssumption
<1>4. \A a \in Assets : held[p][a] - ScriptBurn(next.axe, a) \in Nat
  <2> TAKE a \in Assets
  <2>1. ScriptBurn(next.axe, a) \in Nat
    BY <1>3, RecipeAssumption DEF ScriptBurn
  <2> QED
    BY <1>1, <2>1 DEF TypeOK, Holdings
<1>5. held' \in [Players -> Holdings]
  BY <1>1, <1>4 DEF TypeOK, Holdings
<1>6. held'[p]["xp"] = held[p]["xp"]
  BY <1>1, StateFields DEF TypeOK, Assets, ScriptBurn
<1>7. state[p].credit <= MaxCredit
  BY <1>3 DEF EarnedStateIsCanonical, Earned, Assets
<1>8. Earned(state'[p], held'[p])
  BY <1>2, <1>3, <1>6, <1>7 DEF Earned
<1> QED
  BY <1>1, <1>2, <1>5, <1>8, PlayerStepInv DEF TypeOK

LEMMA WithdrawStepInv ==
    ASSUME ForestInv, NEW p \in Players, Withdraw(p)
    PROVE  ForestInv'
<1> USE DEF ForestInv
<1>1. PICK next \in Packets, amount \in 0..held[p]["logs"] :
        /\ Active(p)
        /\ SamePackets(p, next)
        /\ Spend(p, next)
        /\ held' = [held EXCEPT ![p] =
               [a \in Assets |-> IF a = "logs" THEN held[p][a] - amount
                                 ELSE held[p][a]]]
        /\ wallet' = wallet + amount
        /\ UNCHANGED <<health, reserve>>
  BY WithdrawEffect
<1>2. /\ state' \in [Players -> PlayerStates]
      /\ state'[p] = [entry |-> "recursive", idGroup |-> state[p].idGroup,
                      roll |-> next.roll, credit |-> next.credit, axe |-> next.axe]
      /\ \A q \in Players : q # p => state'[q] = state[q]
  BY <1>1, SpendEffect
<1>3. held[p]["logs"] \in Nat /\ wallet \in Nat
  BY StateFields DEF TypeOK
<1>4. held' \in [Players -> Holdings]
  BY <1>1, <1>3 DEF TypeOK, Holdings
<1>5. \A a \in Assets : a # "logs" => held'[p][a] = held[p][a]
  BY <1>1 DEF TypeOK
<1>6. Earned(state[p], held[p])
  BY DEF EarnedStateIsCanonical
<1>7. /\ state'[p].idGroup = state[p].idGroup /\ state'[p].entry = "recursive"
      /\ state'[p].credit = state[p].credit /\ state'[p].axe = state[p].axe
  BY <1>1, <1>2 DEF SamePackets
<1>8. Earned(state'[p], held'[p])
  <2>1. "xp" \in Assets
    BY DEF Assets
  <2> QED
    BY <1>5, <1>6, <1>7, <2>1 DEF Earned
<1>9. wallet' \in Nat
  BY <1>1, <1>3
<1> QED
  BY <1>1, <1>2, <1>4, <1>7, <1>8, <1>9, PlayerStepInv DEF TypeOK

LEMMA RenewStepInv ==
    ASSUME ForestInv, NEW p \in Players, RenewPlayer(p)
    PROVE  ForestInv'
<1> USE DEF ForestInv
<1>1. PICK next \in Packets : Active(p) /\ SamePackets(p, next) /\ Spend(p, next)
  BY RenewEffect
<1>2. UNCHANGED <<health, reserve, held, wallet>>
  BY RenewEffect
<1>3. /\ state' \in [Players -> PlayerStates]
      /\ state'[p] = [entry |-> "recursive", idGroup |-> state[p].idGroup,
                      roll |-> next.roll, credit |-> next.credit, axe |-> next.axe]
      /\ \A q \in Players : q # p => state'[q] = state[q]
  BY <1>1, SpendEffect
<1>4. /\ state'[p].idGroup = state[p].idGroup /\ state'[p].entry = "recursive"
      /\ state'[p].credit = state[p].credit /\ state'[p].axe = state[p].axe
  BY <1>1, <1>3 DEF SamePackets
<1>5. Earned(state'[p], held'[p])
  BY <1>2, <1>4 DEF EarnedStateIsCanonical, Earned
<1> QED
  BY <1>2, <1>3, <1>4, <1>5, PlayerStepInv DEF TypeOK

LEMMA RegrowStepInv ==
    ASSUME ForestInv, NEW t \in Trees, Regrow(t)
    PROVE  ForestInv'
<1> USE DEF ForestInv
<1>1. /\ health[t] = 0 /\ reserve[t]["logs"] > 0
      /\ health' = [health EXCEPT ![t] = LogsPerTree]
      /\ UNCHANGED <<reserve, state, held, wallet>>
  BY RegrowEffect
<1>2. TypeOK'
  BY <1>1, Constants DEF TypeOK
<1>3. AbsentHoldsNothing' /\ EarnedStateIsCanonical'
  BY <1>1 DEF AbsentHoldsNothing, EarnedStateIsCanonical, Active, Earned
<1>4. TreeStaysWorkable'
  <2> SUFFICES ASSUME NEW u \in Trees PROVE Workable(health'[u], reserve[u])
    BY <1>1 DEF TreeStaysWorkable, Workable
  <2>1. Workable(health[u], reserve[u])
    BY DEF TreeStaysWorkable
  <2>2. CASE u = t
    <3>1. PICK cycles \in 0..Reserve :
            reserve[t]["logs"] = health[t] + cycles * LogsPerTree
      BY <2>1, <2>2 DEF Workable
    <3>2. cycles # 0
      BY <1>1, <3>1, Constants
    <3>3. /\ cycles - 1 \in 0..Reserve
          /\ reserve[t]["logs"] = LogsPerTree + (cycles - 1) * LogsPerTree
      BY <1>1, <3>1, <3>2, Constants
    <3>4. health'[u] = LogsPerTree
      BY <1>1, <2>2 DEF TypeOK
    <3> QED
      BY <2>1, <2>2, <3>3, <3>4 DEF Workable
  <2>3. CASE u # t
    BY <1>1, <2>1, <2>3 DEF TypeOK
  <2> QED
    BY <2>2, <2>3
<1> QED
  BY <1>2, <1>3, <1>4

LEMMA UnchangedInv == ForestInv /\ UNCHANGED vars => ForestInv'
BY DEF ForestInv, TypeOK, AbsentHoldsNothing, TreeStaysWorkable, Workable,
       EarnedStateIsCanonical, Earned, Active, vars

LEMMA StepInv == ForestInv /\ [Next]_vars => ForestInv'
<1> SUFFICES ASSUME ForestInv, [Next]_vars PROVE ForestInv'
  OBVIOUS
<1>1. CASE \E p \in Players : PlayerStep(p)
  BY <1>1, ActivateStepInv, EnterStepInv, CraftStepInv, WithdrawStepInv, RenewStepInv
  DEF PlayerStep
<1>2. CASE \E p \in Players, t \in Trees : Chop(p, t)
  BY <1>2, ChopStepInv
<1>3. CASE \E t \in Trees : Regrow(t) \/ Maintain(t)
  BY <1>3, RegrowStepInv, MaintainEffect, UnchangedInv DEF ForestInv
<1>4. CASE UNCHANGED vars
  BY <1>4, UnchangedInv
<1> QED
  BY <1>1, <1>2, <1>3, <1>4 DEF Next

LEMMA ForestInvAlways == Spec => []ForestInv
BY InitInv, StepInv, PTL DEF Spec

(* Whatever anyone proposes, packets and assets keep their types: health   *)
(* stays within a tree's capacity and no balance is ever negative.         *)
THEOREM ForestTypeCorrect == Spec => []TypeOK
BY ForestInvAlways, PTL DEF ForestInv

(* Every tree can be harvested to its last LOG.                            *)
THEOREM TreesStayWorkable == Spec => []TreeStaysWorkable
BY ForestInvAlways, PTL DEF ForestInv

(* Nothing is earned with packets that did not start canonically.          *)
THEOREM EarnedIsCanonical == Spec => []EarnedStateIsCanonical
BY ForestInvAlways, PTL DEF ForestInv

-----------------------------------------------------------------------------
(* What a step may never do.                                               *)

(* How one player can be affected by one step.                             *)
LEMMA PlayerCases ==
    ASSUME ForestInv, [Next]_vars, NEW p \in Players
    PROVE  \/ state'[p] = state[p] /\ held'[p] = held[p]
           \/ ~Active(p) /\ (Activate(p) \/ Enter(p))
           \/ \E t \in Trees : Chop(p, t)
           \/ Craft(p) \/ Withdraw(p) \/ RenewPlayer(p)
<1> USE DEF ForestInv
<1>1. CASE \E q \in Players : PlayerStep(q)
  <2>1. PICK q \in Players : PlayerStep(q)
    BY <1>1
  <2>2. CASE q = p
    BY <2>1, <2>2 DEF PlayerStep, Activate, Enter
  <2>3. CASE q # p
    <3>1. CASE Activate(q) \/ Enter(q)
      BY <2>3, <3>1 DEF Activate, Enter, TypeOK
    <3>2. CASE Craft(q)
      BY <2>3, <3>2, CraftEffect, SpendEffect DEF TypeOK
    <3>3. CASE Withdraw(q)
      BY <2>3, <3>3, WithdrawEffect, SpendEffect DEF TypeOK
    <3>4. CASE RenewPlayer(q)
      BY <2>3, <3>4, RenewEffect, SpendEffect
    <3> QED
      BY <2>1, <3>1, <3>2, <3>3, <3>4 DEF PlayerStep
  <2> QED
    BY <2>2, <2>3
<1>2. CASE \E q \in Players, t \in Trees : Chop(q, t)
  <2>1. PICK q \in Players, t \in Trees : Chop(q, t)
    BY <1>2
  <2>2. CASE q = p
    BY <2>1, <2>2
  <2>3. CASE q # p
    <3>1. PICK next \in Packets : Spend(q, next)
      BY <2>1 DEF Chop
    <3>2. state'[p] = state[p]
      BY <2>3, <3>1 DEF Spend, TypeOK
    <3>3. \E gain : held' = [held EXCEPT ![q] = gain]
      BY <2>1 DEF Chop
    <3> QED
      BY <2>3, <3>2, <3>3 DEF TypeOK
  <2> QED
    BY <2>2, <2>3
<1>3. CASE \E t \in Trees : Regrow(t) \/ Maintain(t)
  BY <1>3, RegrowEffect, MaintainEffect DEF vars
<1>4. CASE UNCHANGED vars
  BY <1>4 DEF vars
<1> QED
  BY <1>1, <1>2, <1>3, <1>4 DEF Next

(* How one active player's state and assets move, by cause.                *)
LEMMA SwingMoves ==
    ASSUME ForestInv, NEW p \in Players, NEW t \in Trees, Chop(p, t)
    PROVE  \E next \in Packets :
             /\ CanonicalStart(p)
             /\ state'[p] = [entry |-> "recursive", idGroup |-> state[p].idGroup,
                             roll |-> next.roll, credit |-> next.credit,
                             axe |-> state[p].axe]
             /\ next.credit <= MaxCredit
             /\ \A a \in Assets :
                   /\ ScriptGain(p, next, a) \in 0..1
                   /\ held'[p][a] = held[p][a] + ScriptGain(p, next, a)
                   /\ reserve'[t][a] = reserve[t][a] - ScriptGain(p, next, a)
             /\ ScriptGain(p, next, "logs") = ScriptReward(p, next)
             /\ ScriptGain(p, next, "xp") = ScriptReward(p, next)
             /\ health[t] > 0
             /\ health'[t] = health[t] - ScriptReward(p, next)
             /\ \A u \in Trees : u # t => reserve'[u] = reserve[u]
<1> USE DEF ForestInv
<1>1. PICK next \in Packets :
        /\ Active(p)
        /\ ChopPackets(p, next)
        /\ Spend(p, next)
        /\ health[t] > 0
        /\ \A a \in Assets : reserve[t][a] > 0
        /\ health' = [health EXCEPT ![t] = health[t] - ScriptReward(p, next)]
        /\ reserve' = [reserve EXCEPT ![t] =
               [a \in Assets |-> reserve[t][a] - ScriptGain(p, next, a)]]
        /\ held' = [held EXCEPT ![p] =
               [a \in Assets |-> held[p][a] + ScriptGain(p, next, a)]]
        /\ wallet' = wallet
  BY ChopEffect
<1>2. state'[p] = [entry |-> "recursive", idGroup |-> state[p].idGroup,
                   roll |-> next.roll, credit |-> next.credit, axe |-> next.axe]
  BY <1>1, SpendEffect
<1>3. next.axe = state[p].axe /\ CanonicalStart(p) /\ next.credit <= MaxCredit
  BY <1>1, ChopPacketFacts
<1>4. /\ \A a \in Assets : ScriptGain(p, next, a) \in 0..1
      /\ ScriptGain(p, next, "logs") = ScriptReward(p, next)
      /\ ScriptGain(p, next, "xp") = ScriptReward(p, next)
  BY GainFacts
<1>5. \A a \in Assets :
        /\ held'[p][a] = held[p][a] + ScriptGain(p, next, a)
        /\ reserve'[t][a] = reserve[t][a] - ScriptGain(p, next, a)
  BY <1>1 DEF TypeOK
<1>6. health'[t] = health[t] - ScriptReward(p, next)
  BY <1>1 DEF TypeOK
<1>7. \A u \in Trees : u # t => reserve'[u] = reserve[u]
  BY <1>1 DEF TypeOK
<1> QED
  BY <1>1, <1>2, <1>3, <1>4, <1>5, <1>6, <1>7

LEMMA CraftMoves ==
    ASSUME ForestInv, NEW p \in Players, Craft(p)
    PROVE  \E tier \in 1..3 :
             /\ Active(p) /\ CanonicalStart(p)
             /\ tier = state[p].axe + 1
             /\ held[p]["xp"] >= RequiredXp[tier]
             /\ state'[p] = [entry |-> "recursive", idGroup |-> state[p].idGroup,
                             roll |-> state[p].roll, credit |-> state[p].credit,
                             axe |-> tier]
             /\ \A a \in Assets : held'[p][a] = held[p][a] - ScriptBurn(tier, a)
<1> USE DEF ForestInv
<1>1. PICK next \in Packets :
        /\ Active(p)
        /\ CraftPackets(p, next)
        /\ Spend(p, next)
        /\ \A a \in Assets : ScriptBurn(next.axe, a) <= held[p][a]
        /\ held' = [held EXCEPT ![p] =
               [a \in Assets |-> held[p][a] - ScriptBurn(next.axe, a)]]
        /\ UNCHANGED <<health, reserve, wallet>>
  BY CraftEffect
<1>2. state'[p] = [entry |-> "recursive", idGroup |-> state[p].idGroup,
                   roll |-> next.roll, credit |-> next.credit, axe |-> next.axe]
  BY <1>1, SpendEffect
<1>3. next.axe = state[p].axe + 1 /\ state[p].axe < 3
      /\ held[p]["xp"] > RequiredXp[next.axe] - 1
      /\ next.credit = state[p].credit /\ next.roll = state[p].roll
      /\ CanonicalStart(p)
  BY <1>1 DEF CraftPackets
<1>4. next.axe \in 1..3
  BY <1>3, StateFields DEF Axes
<1>5. held[p]["xp"] >= RequiredXp[next.axe]
  BY <1>3, <1>4, StateFields, RecipeAssumption
<1>6. \A a \in Assets : held'[p][a] = held[p][a] - ScriptBurn(next.axe, a)
  BY <1>1 DEF TypeOK
<1> QED
  BY <1>1, <1>2, <1>3, <1>4, <1>5, <1>6

(* A withdrawal or a renewal keeps the packets and every asset but LOG.    *)
LEMMA KeepMoves ==
    ASSUME ForestInv, NEW p \in Players, Withdraw(p) \/ RenewPlayer(p)
    PROVE  /\ Active(p) /\ CanonicalStart(p)
           /\ state'[p] = [entry |-> "recursive", idGroup |-> state[p].idGroup,
                           roll |-> state[p].roll, credit |-> state[p].credit,
                           axe |-> state[p].axe]
           /\ \A a \in Assets : a # "logs" => held'[p][a] = held[p][a]
<1> USE DEF ForestInv
<1>1. /\ \E next \in Packets : Active(p) /\ SamePackets(p, next) /\ Spend(p, next)
      /\ \A a \in Assets : a # "logs" => held'[p][a] = held[p][a]
  <2>1. CASE Withdraw(p)
    BY <2>1, WithdrawEffect DEF TypeOK
  <2>2. CASE RenewPlayer(p)
    BY <2>2, RenewEffect
  <2> QED
    BY <2>1, <2>2
<1> QED
  BY <1>1, SpendEffect DEF SamePackets

(* A playable player stays playable in every step.                         *)
LEMMA PlayableStays ==
    ASSUME ForestInv, [Next]_vars, NEW p \in Players, Playable(p)
    PROVE  Playable(p)'
<1>1. /\ state[p].credit \in Nat /\ state[p].axe \in Axes
      /\ held[p]["xp"] \in Nat /\ "xp" \in Assets
  BY StateFields DEF ForestInv, Assets
<1>0. state[p].idGroup = 0
  BY DEF Playable, CanonicalStart
<1>2. CASE state'[p] = state[p] /\ held'[p] = held[p]
  BY <1>2 DEF Playable, Active, CanonicalStart, AxeProgression
<1>3. CASE ~Active(p)
  BY <1>3 DEF Playable
<1>4. CASE \E t \in Trees : Chop(p, t)
  <2>1. /\ state'[p].entry = "recursive" /\ state'[p].idGroup = 0
        /\ state'[p].axe = state[p].axe /\ state'[p].credit <= MaxCredit
        /\ held'[p]["xp"] >= held[p]["xp"] /\ held'[p]["xp"] \in Nat
    <3>1. PICK t \in Trees : Chop(p, t)
      BY <1>4
    <3>2. PICK next \in Packets :
            /\ state'[p] = [entry |-> "recursive", idGroup |-> state[p].idGroup,
                            roll |-> next.roll, credit |-> next.credit,
                            axe |-> state[p].axe]
            /\ next.credit <= MaxCredit
            /\ ScriptGain(p, next, "xp") \in 0..1
            /\ held'[p]["xp"] = held[p]["xp"] + ScriptGain(p, next, "xp")
      BY <1>1, <3>1, SwingMoves
    <3> QED
      BY <1>0, <1>1, <3>2
  <2>2. AxeProgression(p)'
    BY <1>1, <2>1, RecipeAssumption
    DEF Playable, CanonicalStart, AxeProgression
  <2> QED
    BY <2>1, <2>2 DEF Playable, Active, CanonicalStart
<1>5. CASE Craft(p)
  <2>1. /\ state'[p].entry = "recursive" /\ state'[p].idGroup = 0
        /\ state'[p].axe \in 1..3 /\ state'[p].credit = state[p].credit
        /\ held[p]["xp"] >= RequiredXp[state'[p].axe]
        /\ held'[p]["xp"] = held[p]["xp"]
    <3>1. PICK tier \in 1..3 :
            /\ held[p]["xp"] >= RequiredXp[tier]
            /\ state'[p] = [entry |-> "recursive", idGroup |-> state[p].idGroup,
                            roll |-> state[p].roll, credit |-> state[p].credit,
                            axe |-> tier]
            /\ held'[p]["xp"] = held[p]["xp"] - ScriptBurn(tier, "xp")
      BY <1>1, <1>5, CraftMoves
    <3>2. ScriptBurn(tier, "xp") = 0
      BY DEF ScriptBurn
    <3> QED
      BY <1>0, <1>1, <3>1, <3>2
  <2>2. AxeProgression(p)'
    BY <1>1, <2>1, RecipeAssumption DEF AxeProgression
  <2> QED
    BY <2>1, <2>2 DEF Playable, Active, CanonicalStart
<1>6. CASE Withdraw(p) \/ RenewPlayer(p)
  <2>1. /\ state'[p].entry = "recursive" /\ state'[p].idGroup = 0
        /\ state'[p].axe = state[p].axe /\ state'[p].credit = state[p].credit
        /\ held'[p]["xp"] = held[p]["xp"]
    <3>1. /\ state'[p] = [entry |-> "recursive", idGroup |-> state[p].idGroup,
                          roll |-> state[p].roll, credit |-> state[p].credit,
                          axe |-> state[p].axe]
          /\ \A a \in Assets : a # "logs" => held'[p][a] = held[p][a]
      BY <1>6, KeepMoves
    <3> QED
      BY <1>0, <1>1, <3>1
  <2>2. AxeProgression(p)'
    BY <2>1 DEF Playable, CanonicalStart, AxeProgression
  <2> QED
    BY <2>1, <2>2 DEF Playable, Active, CanonicalStart
<1> QED
  BY <1>2, <1>3, <1>4, <1>5, <1>6, PlayerCases

(* No step of anyone makes a playable player unplayable.                   *)
THEOREM NoPlayerBricks == Spec => PlayersNeverBrick
<1>1. ForestInv /\ [Next]_vars =>
        [\A p \in Players : Playable(p) => Playable(p)']_vars
  BY PlayableStays
<1> QED
  BY <1>1, ForestInvAlways, PTL DEF Spec, PlayersNeverBrick

(* XP moves only with a LOG, from one living tree to the player that swung.*)
THEOREM XpStaysSoulbound == Spec => XpIsSoulbound
<1>1. ASSUME ForestInv, [Next]_vars, NEW p \in Players,
             held'[p]["xp"] # held[p]["xp"]
      PROVE  /\ held'[p]["xp"] = held[p]["xp"] + 1
             /\ held'[p]["logs"] = held[p]["logs"] + 1
             /\ \E t \in Trees :
                   /\ health[t] > 0
                   /\ health'[t] = health[t] - 1
                   /\ reserve'[t]["xp"] = reserve[t]["xp"] - 1
                   /\ reserve'[t]["logs"] = reserve[t]["logs"] - 1
  <2>1. held[p]["xp"] \in Nat /\ "xp" \in Assets /\ "logs" \in Assets
    BY <1>1, StateFields DEF ForestInv, Assets
  <2>2. ~(~Active(p) /\ (Activate(p) \/ Enter(p)))
    BY <1>1, <2>1 DEF Activate, Enter, ForestInv, TypeOK, Holdings
  <2>3. ~Craft(p)
    <3>1. \A tier \in 1..3 : ScriptBurn(tier, "xp") = 0
      BY DEF ScriptBurn
    <3>2. ASSUME Craft(p) PROVE held'[p]["xp"] = held[p]["xp"]
      <4>1. PICK tier \in 1..3 :
              \A a \in Assets : held'[p][a] = held[p][a] - ScriptBurn(tier, a)
        BY <1>1, <3>2, CraftMoves
      <4> QED
        BY <2>1, <3>1, <4>1
    <3> QED
      BY <1>1, <3>2
  <2>4. ~(Withdraw(p) \/ RenewPlayer(p))
    BY <1>1, <2>1, KeepMoves
  <2>5. PICK t \in Trees : Chop(p, t)
    BY <1>1, <2>2, <2>3, <2>4, PlayerCases
  <2>6. PICK next \in Packets :
          /\ \A a \in Assets :
                /\ ScriptGain(p, next, a) \in 0..1
                /\ held'[p][a] = held[p][a] + ScriptGain(p, next, a)
                /\ reserve'[t][a] = reserve[t][a] - ScriptGain(p, next, a)
          /\ ScriptGain(p, next, "logs") = ScriptReward(p, next)
          /\ ScriptGain(p, next, "xp") = ScriptReward(p, next)
          /\ health[t] > 0
          /\ health'[t] = health[t] - ScriptReward(p, next)
    BY <1>1, <2>5, SwingMoves
  <2>7. ScriptReward(p, next) = 1
    BY <1>1, <2>1, <2>6
  <2> QED
    BY <2>1, <2>5, <2>6, <2>7
<1>2. ForestInv /\ [Next]_vars =>
        [\A p \in Players :
            held'[p]["xp"] # held[p]["xp"] =>
             /\ held'[p]["xp"] = held[p]["xp"] + 1
             /\ held'[p]["logs"] = held[p]["logs"] + 1
             /\ \E t \in Trees :
                   /\ health[t] > 0
                   /\ health'[t] = health[t] - 1
                   /\ reserve'[t]["xp"] = reserve[t]["xp"] - 1
                   /\ reserve'[t]["logs"] = reserve[t]["logs"] - 1]_vars
  BY <1>1
<1> QED
  BY <1>2, ForestInvAlways, PTL DEF Spec, XpIsSoulbound

(* What a tree loses, the player that swung at it receives.                *)
THEOREM TreesOnlyPayPlayers == Spec => TreesPayPlayersOnly
<1>1. ASSUME ForestInv, [Next]_vars, NEW t \in Trees, NEW a \in Assets,
             reserve'[t][a] # reserve[t][a]
      PROVE  \E p \in Players :
                held'[p][a] - held[p][a] = reserve[t][a] - reserve'[t][a]
  <2>1. PICK p \in Players, u \in Trees : Chop(p, u)
    <3>1. \A p \in Players : PlayerStep(p) => reserve' = reserve
      BY CraftEffect, WithdrawEffect, RenewEffect, <1>1
      DEF PlayerStep, Activate, Enter, ForestInv
    <3>2. \A u \in Trees : Regrow(u) \/ Maintain(u) => reserve' = reserve
      BY RegrowEffect, MaintainEffect, <1>1 DEF vars, ForestInv
    <3> QED
      BY <1>1, <3>1, <3>2 DEF Next, vars
  <2>2. PICK next \in Packets :
          /\ \A b \in Assets :
                /\ ScriptGain(p, next, b) \in 0..1
                /\ held'[p][b] = held[p][b] + ScriptGain(p, next, b)
                /\ reserve'[u][b] = reserve[u][b] - ScriptGain(p, next, b)
          /\ \A v \in Trees : v # u => reserve'[v] = reserve[v]
    <3>1. ForestInv
      BY <1>1
    <3>2. PICK next \in Packets :
            /\ CanonicalStart(p)
            /\ state'[p] = [entry |-> "recursive", idGroup |-> state[p].idGroup,
                            roll |-> next.roll, credit |-> next.credit,
                            axe |-> state[p].axe]
            /\ next.credit <= MaxCredit
            /\ \A b \in Assets :
                  /\ ScriptGain(p, next, b) \in 0..1
                  /\ held'[p][b] = held[p][b] + ScriptGain(p, next, b)
                  /\ reserve'[u][b] = reserve[u][b] - ScriptGain(p, next, b)
            /\ ScriptGain(p, next, "logs") = ScriptReward(p, next)
            /\ ScriptGain(p, next, "xp") = ScriptReward(p, next)
            /\ health[u] > 0
            /\ health'[u] = health[u] - ScriptReward(p, next)
            /\ \A v \in Trees : v # u => reserve'[v] = reserve[v]
      BY <2>1, <3>1, SwingMoves
    <3> QED
      BY <3>2
  <2>3. u = t
    BY <1>1, <2>2
  <2>4. reserve[t][a] \in Nat /\ held[p][a] \in Nat
    BY <1>1 DEF ForestInv, TypeOK, Holdings
  <2> QED
    BY <2>2, <2>3, <2>4
<1>2. ForestInv /\ [Next]_vars =>
        [\A t \in Trees, a \in Assets :
            reserve'[t][a] # reserve[t][a] =>
             \E p \in Players :
                held'[p][a] - held[p][a] = reserve[t][a] - reserve'[t][a]]_vars
  BY <1>1
<1> QED
  BY <1>2, ForestInvAlways, PTL DEF Spec, TreesPayPlayersOnly

(* The constants compiled into the craft script are the recipes.           *)
LEMMA BurnIsRecipe ==
    \A tier \in 1..3, a \in Assets :
        /\ ScriptBurn(tier, a) = Rules!RecipeCost(tier, a)
        /\ ScriptBurn(tier, a) \in Nat
BY RecipeAssumption DEF ScriptBurn, Rules!RecipeCost, Assets

(* An axe is one tier up, with its XP earned, for exactly the recipe.      *)
THEOREM AxesAreCrafted == Spec => AxesCostTheirRecipe
<1> DEFINE CostsRecipe(p) ==
      /\ \A a \in Materials :
            held'[p][a] < held[p][a] => state'[p].axe # state[p].axe
      /\ state'[p].axe # state[p].axe =>
            /\ state'[p].axe = state[p].axe + 1
            /\ held[p]["xp"] >= RequiredXp[state'[p].axe]
            /\ \A a \in Assets :
                  held'[p][a] = held[p][a] - Rules!RecipeCost(state'[p].axe, a)
<1>1. ASSUME ForestInv, [Next]_vars, NEW p \in Players, Active(p)
      PROVE  CostsRecipe(p)
  <2>1. \A a \in Assets : held[p][a] \in Nat
    BY <1>1 DEF ForestInv, TypeOK, Holdings
  <2>2. Materials \subseteq Assets /\ "logs" \notin Materials
        /\ state[p].axe \in Axes
    BY <1>1, StateFields DEF ForestInv, Materials, Assets
  <2>3. CASE state'[p] = state[p] /\ held'[p] = held[p]
    BY <2>1, <2>2, <2>3
  <2>4. CASE \E t \in Trees : Chop(p, t)
    <3>1. PICK t \in Trees : Chop(p, t)
      BY <2>4
    <3>2. PICK next \in Packets :
            /\ state'[p] = [entry |-> "recursive", idGroup |-> state[p].idGroup,
                            roll |-> next.roll, credit |-> next.credit,
                            axe |-> state[p].axe]
            /\ \A a \in Assets :
                  /\ ScriptGain(p, next, a) \in 0..1
                  /\ held'[p][a] = held[p][a] + ScriptGain(p, next, a)
      BY <1>1, <3>1, SwingMoves
    <3>3. \A a \in Assets : held'[p][a] >= held[p][a] /\ held'[p][a] \in Nat
      BY <2>1, <3>2
    <3> QED
      BY <2>1, <2>2, <3>2, <3>3
  <2>5. CASE Craft(p)
    <3>1. PICK tier \in 1..3 :
            /\ tier = state[p].axe + 1
            /\ held[p]["xp"] >= RequiredXp[tier]
            /\ state'[p] = [entry |-> "recursive", idGroup |-> state[p].idGroup,
                            roll |-> state[p].roll, credit |-> state[p].credit,
                            axe |-> tier]
            /\ \A a \in Assets : held'[p][a] = held[p][a] - ScriptBurn(tier, a)
      BY <1>1, <2>5, CraftMoves
    <3>2. state'[p].axe = tier /\ tier # state[p].axe
      BY <2>2, <3>1 DEF Axes
    <3> QED
      BY <3>1, <3>2, BurnIsRecipe
  <2>6. CASE Withdraw(p) \/ RenewPlayer(p)
    <3>1. /\ state'[p] = [entry |-> "recursive", idGroup |-> state[p].idGroup,
                          roll |-> state[p].roll, credit |-> state[p].credit,
                          axe |-> state[p].axe]
          /\ \A a \in Assets : a # "logs" => held'[p][a] = held[p][a]
      BY <1>1, <2>6, KeepMoves
    <3>2. state'[p].axe = state[p].axe
      BY <3>1
    <3> QED
      BY <2>1, <2>2, <3>1, <3>2
  <2> QED
    BY <1>1, <2>3, <2>4, <2>5, <2>6, PlayerCases
<1>2. ForestInv /\ [Next]_vars =>
        [\A p \in Players : Active(p) => CostsRecipe(p)]_vars
  BY <1>1
<1> QED
  BY <1>2, ForestInvAlways, PTL DEF Spec, AxesCostTheirRecipe

-----------------------------------------------------------------------------
(* The supply.                                                             *)

(* A recipe never costs a negative amount.                                 *)
LEMMA RecipeCosts ==
    ASSUME NEW tier \in 1..3, NEW a \in Assets
    PROVE  Rules!RecipeCost(tier, a) \in Nat
BY RecipeAssumption DEF Rules!RecipeCost, Assets

(* The cost of an axe, from nothing, by the recipe of each tier.           *)
LEMMA TierSums ==
    ASSUME NEW tier \in 0..3, NEW a \in Assets
    PROVE  /\ AxeCost(tier, a) \in Nat
           /\ tier = 0 => AxeCost(tier, a) = 0
           /\ tier < 3 => AxeCost(tier + 1, a) = AxeCost(tier, a) + Rules!RecipeCost(tier + 1, a)
<1> DEFINE cost(n) == [k \in 1..n |-> Rules!RecipeCost(k, a)]
<1>1. IsFiniteSet(1..tier) /\ IsFiniteSet(1..(tier + 1))
  BY FS_Interval
<1>2. \A k \in 1..3 : Rules!RecipeCost(k, a) \in Nat
  BY RecipeCosts
<1>3. SumFunction(cost(tier)) \in Nat
  <2>1. \A k \in 1..tier : cost(tier)[k] \in Nat
    BY <1>2
  <2> QED
    BY <1>1, <2>1, SumIsNat DEF SumFunction
<1>4. tier = 0 => SumFunction(cost(tier)) = 0
  <2>1. tier = 0 => 1..tier = {}
    OBVIOUS
  <2> QED
    BY <2>1, SumEmpty DEF SumFunction
<1>5. ASSUME tier < 3
      PROVE  SumFunction(cost(tier + 1)) = SumFunction(cost(tier)) + Rules!RecipeCost(tier + 1, a)
  <2> DEFINE w == cost(tier + 1)
             v == cost(tier)
  <2>1. /\ \A k \in 1..(tier + 1) : w[k] = Rules!RecipeCost(k, a) /\ w[k] \in Int
        /\ tier + 1 \in 1..(tier + 1) /\ (1..(tier + 1)) \ {tier + 1} = 1..tier
        /\ \A k \in 1..tier : w[k] = v[k]
    BY <1>2, <1>5
  <2>2. DOMAIN w = 1..(tier + 1) /\ DOMAIN v = 1..tier
    OBVIOUS
  <2> HIDE DEF w, v
  <2>3. SumFunctionOnSet(w, 1..(tier + 1)) = w[tier + 1] + SumFunctionOnSet(w, 1..tier)
    BY <1>1, <2>1, SumRemove
  <2>4. SumFunctionOnSet(w, 1..tier) = SumFunctionOnSet(v, 1..tier)
    BY <1>1, <2>1, SumCongruence
  <2>5. SumFunctionOnSet(v, 1..tier) \in Nat /\ w[tier + 1] \in Nat
    BY <1>2, <1>3, <1>5, <2>1, <2>2 DEF SumFunction, v
  <2> QED
    BY <2>1, <2>2, <2>3, <2>4, <2>5 DEF SumFunction, w, v
<1> QED
  BY <1>3, <1>4, <1>5 DEF AxeCost

(* Every player state names an axe.                                        *)
LEMMA StateAxe == ASSUME NEW s \in PlayerStates PROVE s.axe \in Axes
<1>1. CASE s \in EntryStates
  BY <1>1 DEF EntryStates
<1>2. CASE s \in [entry : {"none"}, idGroup : {0}, roll : Rolls, credit : {0}, axe : {NoAxe}]
  BY <1>2 DEF NoAxe, Axes
<1> QED
  BY <1>1, <1>2 DEF PlayerStates

(* What a player is worth is a natural number, before a step               *)
LEMMA WorthIsNat ==
    ASSUME TypeOK, NEW p \in Players, NEW a \in Assets
    PROVE  Worth(p, a) \in Nat /\ held[p][a] \in Nat /\ SpentOnAxe(p, a) \in Nat
<1>1. held[p][a] \in Nat /\ state[p] \in PlayerStates
  BY DEF TypeOK, Holdings
<1>2. SpentOnAxe(p, a) \in Nat
  BY <1>1, StateAxe, TierSums DEF SpentOnAxe, Axes
<1> QED
  BY <1>1, <1>2 DEF Worth

(* and after it.                                                           *)
LEMMA WorthIsNatNext ==
    ASSUME TypeOK', NEW p \in Players, NEW a \in Assets
    PROVE  Worth(p, a)' \in Nat /\ held'[p][a] \in Nat /\ SpentOnAxe(p, a)' \in Nat
<1>1. held'[p][a] \in Nat /\ state'[p] \in PlayerStates
  BY DEF TypeOK, Holdings
<1>2. SpentOnAxe(p, a)' \in Nat
  BY <1>1, StateAxe, TierSums DEF SpentOnAxe, Axes
<1> QED
  BY <1>1, <1>2 DEF Worth

\* The sums move by what the one tree and the one player of the step gain or lose.
LEMMA TreesMove ==
    ASSUME TypeOK, TypeOK', NEW t \in Trees, NEW a \in Assets,
           \A u \in Trees : u # t => reserve'[u] = reserve[u]
    PROVE  InTrees(a)' = InTrees(a) - reserve[t][a] + reserve'[t][a]
<1> DEFINE v == [u \in Trees |-> reserve[u][a]]
           w == [u \in Trees |-> reserve'[u][a]]
<1>1. /\ \A u \in Trees : v[u] \in Int /\ w[u] \in Int
      /\ \A u \in Trees \ {t} : w[u] = v[u]
      /\ v[t] = reserve[t][a] /\ w[t] = reserve'[t][a]
      /\ DOMAIN v = Trees /\ DOMAIN w = Trees
  BY DEF TypeOK, Holdings
<1>2. InTrees(a) = SumFunction(v) /\ InTrees(a)' = SumFunction(w)
  BY DEF InTrees
<1> HIDE DEF v, w
<1> QED
  BY <1>1, <1>2, SumUpdate, ForestAssumption DEF SumFunction

LEMMA PlayersMove ==
    ASSUME TypeOK, TypeOK', NEW p \in Players, NEW a \in Assets,
           \A q \in Players : q # p => state'[q] = state[q] /\ held'[q] = held[q]
    PROVE  WithPlayers(a)' = WithPlayers(a) - Worth(p, a) + Worth(p, a)'
<1> DEFINE v == [q \in Players |-> Worth(q, a)]
           w == [q \in Players |-> Worth(q, a)']
<1>1. /\ \A q \in Players : v[q] \in Int
      /\ v[p] = Worth(p, a) /\ w[p] = Worth(p, a)'
      /\ DOMAIN v = Players /\ DOMAIN w = Players
  BY WorthIsNat
<1>2. \A q \in Players : w[q] \in Int
  BY WorthIsNatNext
<1>3. \A q \in Players \ {p} : w[q] = v[q]
  BY DEF Worth, SpentOnAxe
<1>4. WithPlayers(a) = SumFunction(v) /\ WithPlayers(a)' = SumFunction(w)
  BY DEF WithPlayers
<1> HIDE DEF v, w
<1> QED
  BY <1>1, <1>2, <1>3, <1>4, SumUpdate, ForestAssumption DEF SumFunction

(* What a spend does to the axe, in particular.                            *)
LEMMA SpendAxe ==
    ASSUME TypeOK, NEW p \in Players, Active(p),
           NEW next \in Packets, Spend(p, next)
    PROVE  /\ state'[p].axe = next.axe
           /\ \A q \in Players : q # p => state'[q] = state[q]
<1>1. /\ state'[p] = [entry |-> "recursive", idGroup |-> state[p].idGroup,
                     roll |-> next.roll, credit |-> next.credit, axe |-> next.axe]
      /\ \A q \in Players : q # p => state'[q] = state[q]
  BY SpendEffect
<1> QED
  BY <1>1

(* What there is of one asset.                                             *)
Total(a) == InTrees(a) + WithPlayers(a) + InWallets(a)

(* The three parts of the supply are integers.                             *)
LEMMA TotalsAreInt ==
    ASSUME TypeOK, NEW a \in Assets
    PROVE  InTrees(a) \in Int /\ WithPlayers(a) \in Int /\ InWallets(a) \in Int
<1>1. InTrees(a) \in Int
  <2> DEFINE v == [t \in Trees |-> reserve[t][a]]
  <2>1. (\A t \in Trees : v[t] \in Int) /\ DOMAIN v = Trees
    BY DEF TypeOK, Holdings
  <2>2. InTrees(a) = SumFunction(v)
    BY DEF InTrees
  <2> HIDE DEF v
  <2> QED
    BY <2>1, <2>2, SumType, ForestAssumption DEF SumFunction
<1>2. WithPlayers(a) \in Int
  <2> DEFINE v == [p \in Players |-> Worth(p, a)]
  <2>1. (\A p \in Players : v[p] \in Int) /\ DOMAIN v = Players
    BY WorthIsNat
  <2>2. WithPlayers(a) = SumFunction(v)
    BY DEF WithPlayers
  <2> HIDE DEF v
  <2> QED
    BY <2>1, <2>2, SumType, ForestAssumption DEF SumFunction
<1>3. InWallets(a) \in Int
  BY DEF InWallets, TypeOK
<1> QED
  BY <1>1, <1>2, <1>3

(* A step that touches one player and no tree.                             *)
LEMMA PlayerTrade ==
    ASSUME TypeOK, TypeOK', NEW p \in Players, NEW a \in Assets, reserve' = reserve,
           \A q \in Players : q # p => state'[q] = state[q] /\ held'[q] = held[q],
           Worth(p, a)' + InWallets(a)' = Worth(p, a) + InWallets(a)
    PROVE  Total(a)' = Total(a)
<1>1. InTrees(a)' = InTrees(a)
  BY DEF InTrees
<1>2. WithPlayers(a)' = WithPlayers(a) - Worth(p, a) + Worth(p, a)'
  BY PlayersMove
<1>3. InWallets(a)' \in Int
  BY DEF InWallets, TypeOK
<1>4. Worth(p, a) \in Int /\ Worth(p, a)' \in Int
  BY WorthIsNat, WorthIsNatNext
<1> QED
  BY <1>1, <1>2, <1>3, <1>4, TotalsAreInt DEF Total

(* A swing moves units from a tree to a player.                            *)
LEMMA SwingTrade ==
    ASSUME ForestInv, TypeOK', NEW p \in Players, NEW t \in Trees, Chop(p, t),
           NEW a \in Assets
    PROVE  Total(a)' = Total(a)
<1> USE DEF ForestInv
<1>1. PICK next \in Packets :
        /\ Active(p) /\ ChopPackets(p, next) /\ Spend(p, next)
        /\ reserve' = [reserve EXCEPT ![t] =
               [b \in Assets |-> reserve[t][b] - ScriptGain(p, next, b)]]
        /\ held' = [held EXCEPT ![p] =
               [b \in Assets |-> held[p][b] + ScriptGain(p, next, b)]]
        /\ wallet' = wallet
  BY ChopEffect
<1>2. /\ state'[p].axe = state[p].axe /\ CanonicalStart(p)
      /\ \A q \in Players : q # p => state'[q] = state[q]
  BY <1>1, SpendAxe, ChopPacketFacts
<1>3. /\ \A b \in Assets : held'[p][b] = held[p][b] + ScriptGain(p, next, b)
      /\ \A b \in Assets : reserve'[t][b] = reserve[t][b] - ScriptGain(p, next, b)
      /\ \A u \in Trees : u # t => reserve'[u] = reserve[u]
      /\ \A q \in Players : q # p => held'[q] = held[q]
      /\ ScriptGain(p, next, a) \in 0..1 /\ ScriptGain(p, next, "xp") \in 0..1
  BY <1>1, GainFacts DEF TypeOK, Assets
<1>4. SpentOnAxe(p, a)' = SpentOnAxe(p, a)
  <2>1. held[p]["xp"] \in Nat /\ held'[p]["xp"] = held[p]["xp"] + ScriptGain(p, next, "xp")
        /\ state[p].axe \in Axes
    BY <1>3, StateFields DEF Assets
  <2>2. CASE held[p]["xp"] > 0
    BY <1>2, <1>3, <2>1, <2>2 DEF SpentOnAxe
  <2>3. CASE held[p]["xp"] = 0
    <3>1. state[p].axe = 0
      BY <1>2, <2>1, <2>3, RecipeAssumption DEF CanonicalStart, AxeProgression, Axes
    <3> QED
      BY <1>2, <2>3, <3>1, TierSums DEF SpentOnAxe
  <2> QED
    BY <2>1, <2>2, <2>3
<1>5. Worth(p, a)' = Worth(p, a) + ScriptGain(p, next, a)
  <2>1. Worth(p, a)' = held'[p][a] + SpentOnAxe(p, a)'
    BY DEF Worth
  <2> QED
    BY <1>3, <1>4, <2>1, WorthIsNat DEF Worth
<1>6. InTrees(a)' = InTrees(a) - reserve[t][a] + reserve'[t][a]
  BY <1>3, TreesMove
<1>7. WithPlayers(a)' = WithPlayers(a) - Worth(p, a) + Worth(p, a)'
  BY <1>2, <1>3, PlayersMove
<1>8. InWallets(a)' = InWallets(a)
  BY <1>1 DEF InWallets
<1>9. reserve[t][a] \in Int /\ Worth(p, a) \in Int
  BY WorthIsNat DEF TypeOK, Holdings
<1> QED
  BY <1>3, <1>5, <1>6, <1>7, <1>8, <1>9, TotalsAreInt DEF Total

(* A craft turns units into an axe.                                        *)
LEMMA CraftTrade ==
    ASSUME ForestInv, TypeOK', NEW p \in Players, Craft(p), NEW a \in Assets
    PROVE  Total(a)' = Total(a)
<1> USE DEF ForestInv
<1>1. PICK next \in Packets :
        /\ Active(p) /\ CraftPackets(p, next) /\ Spend(p, next)
        /\ held' = [held EXCEPT ![p] =
               [b \in Assets |-> held[p][b] - ScriptBurn(next.axe, b)]]
        /\ UNCHANGED <<health, reserve, wallet>>
  BY CraftEffect
<1>2. /\ state'[p].axe = next.axe
      /\ \A q \in Players : q # p => state'[q] = state[q]
  BY <1>1, SpendAxe
<1>3. /\ next.axe = state[p].axe + 1 /\ state[p].axe \in 0..2
      /\ held[p]["xp"] >= RequiredXp[next.axe] /\ held[p]["xp"] > 0
  <2>1. next.axe = state[p].axe + 1 /\ state[p].axe < 3
        /\ held[p]["xp"] > RequiredXp[next.axe] - 1
    BY <1>1 DEF CraftPackets
  <2>2. next.axe \in 1..3 /\ state[p].axe \in 0..2
    BY <2>1, StateFields DEF Axes
  <2> QED
    BY <2>1, <2>2, StateFields, RecipeAssumption
<1>4. /\ \A b \in Assets : held'[p][b] = held[p][b] - ScriptBurn(next.axe, b)
      /\ \A q \in Players : q # p => held'[q] = held[q]
  BY <1>1 DEF TypeOK
<1>5. held'[p]["xp"] = held[p]["xp"]
  BY <1>4, StateFields DEF Assets, ScriptBurn
<1>6. /\ ScriptBurn(next.axe, a) = Rules!RecipeCost(next.axe, a)
      /\ ScriptBurn(next.axe, a) \in Nat
  BY <1>3, BurnIsRecipe
<1>7. SpentOnAxe(p, a)' = SpentOnAxe(p, a) + ScriptBurn(next.axe, a)
  BY <1>2, <1>3, <1>5, <1>6, TierSums DEF SpentOnAxe
<1>8. Worth(p, a)' = held'[p][a] + SpentOnAxe(p, a)'
  BY DEF Worth
<1>9. Worth(p, a)' = Worth(p, a)
  BY <1>4, <1>6, <1>7, <1>8, WorthIsNat DEF Worth
<1>10. InWallets(a)' = InWallets(a)
  BY <1>1 DEF InWallets
<1> QED
  BY <1>1, <1>2, <1>4, <1>9, <1>10, PlayerTrade

(* A withdrawal moves LOG from a player to a wallet.                       *)
LEMMA WithdrawTrade ==
    ASSUME ForestInv, TypeOK', NEW p \in Players, Withdraw(p), NEW a \in Assets
    PROVE  Total(a)' = Total(a)
<1> USE DEF ForestInv
<1>1. PICK next \in Packets, amount \in 0..held[p]["logs"] :
        /\ Active(p) /\ SamePackets(p, next) /\ Spend(p, next)
        /\ held' = [held EXCEPT ![p] =
               [b \in Assets |-> IF b = "logs" THEN held[p][b] - amount
                                 ELSE held[p][b]]]
        /\ wallet' = wallet + amount
        /\ UNCHANGED <<health, reserve>>
  BY WithdrawEffect
<1>2. /\ state'[p].axe = state[p].axe
      /\ \A q \in Players : q # p => state'[q] = state[q]
  BY <1>1, SpendAxe DEF SamePackets
<1>0. \A q \in Players : q # p => held'[q] = held[q]
  BY <1>1 DEF TypeOK
<1>3. /\ held'[p]["xp"] = held[p]["xp"]
      /\ held'[p][a] = IF a = "logs" THEN held[p][a] - amount ELSE held[p][a]
  BY <1>1 DEF TypeOK, Assets
<1>4. SpentOnAxe(p, a)' = SpentOnAxe(p, a)
  BY <1>2, <1>3 DEF SpentOnAxe
<1>5. Worth(p, a)' = held'[p][a] + SpentOnAxe(p, a)'
  BY DEF Worth
<1>6. InWallets(a)' = IF a = "logs" THEN InWallets(a) + amount ELSE InWallets(a)
  BY <1>1 DEF InWallets
<1>7. amount \in Int
  BY StateFields
<1>8. Worth(p, a)' + InWallets(a)' = Worth(p, a) + InWallets(a)
  BY <1>3, <1>4, <1>5, <1>6, <1>7, WorthIsNat, TotalsAreInt DEF Worth
<1> QED
  BY <1>0, <1>1, <1>2, <1>8, PlayerTrade

(* A renewal moves nothing.                                                *)
LEMMA RenewTrade ==
    ASSUME ForestInv, TypeOK', NEW p \in Players, RenewPlayer(p), NEW a \in Assets
    PROVE  Total(a)' = Total(a)
<1> USE DEF ForestInv
<1>1. PICK next \in Packets : Active(p) /\ SamePackets(p, next) /\ Spend(p, next)
  BY RenewEffect
<1>2. UNCHANGED <<health, reserve, held, wallet>>
  BY RenewEffect
<1>3. /\ state'[p].axe = state[p].axe
      /\ \A q \in Players : q # p => state'[q] = state[q]
  BY <1>1, SpendAxe DEF SamePackets
<1>4. Worth(p, a)' = Worth(p, a) /\ InWallets(a)' = InWallets(a)
  BY <1>2, <1>3 DEF Worth, SpentOnAxe, InWallets
<1> QED
  BY <1>2, <1>3, <1>4, PlayerTrade

(* A new player has spent nothing: whatever axe its packets claim, it holds*)
(* no XP.                                                                  *)
LEMMA NewcomerTrade ==
    ASSUME ForestInv, TypeOK', NEW p \in Players, Activate(p) \/ Enter(p),
           NEW a \in Assets
    PROVE  Total(a)' = Total(a)
<1> USE DEF ForestInv
<1>1. held[p] = NoAssets /\ held[p]["xp"] = 0 /\ held[p][a] = 0
  BY DEF Activate, Enter, AbsentHoldsNothing, NoAssets, Assets
<1>2. PICK logs \in Int :
        /\ \A q \in Players : q # p => state'[q] = state[q] /\ held'[q] = held[q]
        /\ held'[p]["xp"] = 0
        /\ held'[p][a] = IF a = "logs" THEN logs ELSE 0
        /\ wallet' = wallet - logs
        /\ reserve' = reserve
  <2>1. CASE Activate(p)
    <3>1. wallet - 0 = wallet
      BY DEF TypeOK
    <3> QED
      BY <1>1, <2>1, <3>1 DEF Activate, TypeOK
  <2>2. CASE Enter(p)
    <3>1. PICK entry \in Entries, logs \in 0..MaxMove :
            /\ state' = [state EXCEPT ![p] = entry]
            /\ wallet' = wallet - logs
            /\ held' = [held EXCEPT ![p] = [held[p] EXCEPT !["logs"] = @ + logs]]
            /\ reserve' = reserve
      BY <2>2 DEF Enter
    <3>2. /\ held'[p]["xp"] = 0
          /\ held'[p][a] = IF a = "logs" THEN logs ELSE 0
          /\ \A q \in Players : q # p => state'[q] = state[q] /\ held'[q] = held[q]
      BY <1>1, <3>1, Constants DEF NoAssets, Assets, TypeOK, Holdings
    <3> QED
      BY <3>1, <3>2, Constants
  <2> QED
    BY <2>1, <2>2
<1>3. SpentOnAxe(p, a) = 0 /\ SpentOnAxe(p, a)' = 0
  BY <1>1, <1>2 DEF SpentOnAxe
<1>4. Worth(p, a)' = held'[p][a] + SpentOnAxe(p, a)'
  BY DEF Worth
<1>5. InWallets(a)' = IF a = "logs" THEN InWallets(a) - logs ELSE InWallets(a)
  BY <1>2 DEF InWallets
<1>6. Worth(p, a)' + InWallets(a)' = Worth(p, a) + InWallets(a)
  BY <1>1, <1>2, <1>3, <1>4, <1>5, TotalsAreInt DEF Worth
<1> QED
  BY <1>2, <1>6, PlayerTrade

(* No step changes the total of any asset,                                 *)
LEMMA SupplyStep ==
    ASSUME ForestInv, TypeOK', [Next]_vars, NEW a \in Assets
    PROVE  Total(a)' = Total(a)
<1>1. CASE \E p \in Players : PlayerStep(p)
  BY <1>1, CraftTrade, WithdrawTrade, RenewTrade, NewcomerTrade DEF PlayerStep
<1>2. CASE \E p \in Players, t \in Trees : Chop(p, t)
  BY <1>2, SwingTrade
<1>3. CASE UNCHANGED <<reserve, state, held, wallet>>
  BY <1>3 DEF Total, InTrees, WithPlayers, InWallets, Worth, SpentOnAxe
<1>4. CASE \E t \in Trees : Regrow(t) \/ Maintain(t)
  BY <1>3, <1>4, RegrowEffect, MaintainEffect DEF vars, ForestInv
<1> QED
  BY <1>1, <1>2, <1>3, <1>4 DEF Next, vars

(* and at the start the trees hold all there is.                           *)
LEMMA SupplyInit == ASSUME Init PROVE SupplyIsConserved
<1> SUFFICES ASSUME NEW a \in Assets PROVE Total(a) = Reserve * Cardinality(Trees)
  BY DEF SupplyIsConserved, Total
<1>1. InTrees(a) = Reserve * Cardinality(Trees)
  <2> DEFINE v == [t \in Trees |-> reserve[t][a]]
  <2>1. (\A t \in Trees : v[t] = Reserve) /\ DOMAIN v = Trees
    BY DEF Init
  <2>2. InTrees(a) = SumFunction(v)
    BY DEF InTrees
  <2> HIDE DEF v
  <2> QED
    BY <2>1, <2>2, SumConstant, ForestAssumption DEF SumFunction
<1>2. WithPlayers(a) = 0
  <2> DEFINE v == [p \in Players |-> Worth(p, a)]
  <2>1. \A p \in Players : Worth(p, a) = 0
    BY DEF Init, Worth, SpentOnAxe, NoAssets, Assets
  <2>2. (\A p \in Players : v[p] = 0) /\ DOMAIN v = Players
    BY <2>1
  <2>3. WithPlayers(a) = SumFunction(v)
    BY DEF WithPlayers
  <2> HIDE DEF v
  <2>4. SumFunctionOnSet(v, Players) = 0 * Cardinality(Players)
    BY <2>2, SumConstant, ForestAssumption
  <2> QED
    BY <2>2, <2>3, <2>4, FS_CardinalityType, ForestAssumption DEF SumFunction
<1>3. InWallets(a) = 0
  BY DEF Init, InWallets
<1>4. Cardinality(Trees) \in Nat /\ Reserve \in Nat
  BY FS_CardinalityType, ForestAssumption
<1> QED
  BY <1>1, <1>2, <1>3, <1>4 DEF Total

(* The world's supply is accounted for to the unit, for any number of      *)
(* trees and players and whatever anyone proposes.                         *)
THEOREM SupplyStaysWhole == Spec => []SupplyIsConserved
<1>1. Init => SupplyIsConserved
  BY SupplyInit
<1>2. ForestInv /\ ForestInv' /\ SupplyIsConserved /\ [Next]_vars => SupplyIsConserved'
  <2> SUFFICES ASSUME ForestInv, ForestInv', SupplyIsConserved, [Next]_vars,
                      NEW a \in Assets
               PROVE  Total(a)' = Reserve * Cardinality(Trees)
    BY DEF SupplyIsConserved, Total
  <2>1. Total(a)' = Total(a)
    BY SupplyStep DEF ForestInv
  <2>2. Total(a) = Reserve * Cardinality(Trees)
    BY DEF SupplyIsConserved, Total
  <2> QED
    BY <2>1, <2>2
<1> QED
  BY <1>1, <1>2, ForestInvAlways, PTL DEF Spec

-----------------------------------------------------------------------------
(* The moves the host computes.                                            *)

(* The player as a hero of the game rules.                                 *)
HeroOf(p) == [roll |-> state[p].roll, credit |-> state[p].credit,
              axe |-> state[p].axe, held |-> held[p]]

(* The rules count as the covenants do,                                    *)
LEMMA SameCardinality == \A S : Rules!Cardinality(S) = Cardinality(S)
BY DEF Rules!Cardinality, Cardinality

(* and so use the same chance of a LOG.                                    *)
LEMMA SameRate ==
    ASSUME NEW xp, NEW axe
    PROVE  Rules!LogDropBasisPoints(xp, axe) = LogDropBasisPoints(xp, axe)
<1>1. Rules!Cardinality({h \in LevelThresholds : xp >= h})
        = Cardinality({h \in LevelThresholds : xp >= h})
  BY SameCardinality
<1> QED
  BY <1>1 DEF Rules!LogDropBasisPoints, LogDropBasisPoints

(* The reward the scripts compute from the successor packets is the one    *)
(* the host computes from the packets they replace.                        *)
LEMMA GainIsReward ==
    ASSUME TypeOK, NEW p \in Players, NEW next, next.roll = NextRoll[state[p].roll]
    PROVE  /\ ScriptReward(p, next)
                = Reward(state[p].roll, state[p].credit, held[p]["xp"], state[p].axe)
           /\ \A a \in Assets : ScriptGain(p, next, a) = Rules!SwingReward(HeroOf(p))[a]
<1> DEFINE roll == state[p].roll
           credit == state[p].credit
           axe == state[p].axe
           xp == held[p]["xp"]
           rate == LogDropBasisPoints(xp, axe)
           bucket == MaterialBucket[NextRoll[roll]]
<1>1. /\ roll \in Rolls /\ credit \in Nat /\ axe \in Axes /\ xp \in Nat
      /\ ScriptRate(p) = rate /\ rate \in Nat
  BY StateFields, ScriptRateIsHostRate
<1>2. /\ NextRoll[roll] \in Rolls /\ bucket \in Nat /\ Bucket[NextRoll[roll]] \in Nat
      /\ Window \in Nat \ {0} /\ MaxCredit = 2 * Window
      /\ StoneRate \in Nat /\ IronOreRate \in Nat /\ IronOreUnlockXp \in Nat
  BY <1>1, Constants, RollAssumption, MaterialAssumption DEF Buckets
<1>3. ScriptReward(p, next) = Reward(roll, credit, xp, axe)
  BY <1>1, <1>2 DEF ScriptReward, Reward, Success, RawCredit
<1>4. /\ ScriptMaterial(p, next) = 1 <=> MaterialDrop(roll, credit, xp, axe) = "Stone"
      /\ ScriptMaterial(p, next) = 2 <=> MaterialDrop(roll, credit, xp, axe) = "IronOre"
  <2>1. ScriptReward(p, next) = 0 <=> ~Success(roll, credit, xp, axe)
    BY <1>3 DEF Reward
  <2>2. (xp > IronOreUnlockXp - 1) <=> (xp >= IronOreUnlockXp)
    BY <1>1, <1>2
  <2>3. (bucket < 0 + StoneRate <=> bucket < StoneRate) /\ ~(bucket < 0)
    BY <1>2
  <2> QED
    BY <2>1, <2>2, <2>3 DEF ScriptMaterial, MaterialDrop
<1>5. /\ ScriptGain(p, next, "stone") = StoneReward(roll, credit, xp, axe)
      /\ ScriptGain(p, next, "ironOre") = IronOreReward(roll, credit, xp, axe)
      /\ \A a \in Assets \ {"stone", "ironOre"} :
            ScriptGain(p, next, a) = Reward(roll, credit, xp, axe)
  BY <1>3, <1>4 DEF ScriptGain, StoneReward, IronOreReward, Assets
<1>6. /\ Rules!StoneReward(roll, credit, xp, axe) = StoneReward(roll, credit, xp, axe)
      /\ Rules!IronOreReward(roll, credit, xp, axe) = IronOreReward(roll, credit, xp, axe)
      /\ Rules!Reward(roll, credit, xp, axe) = Reward(roll, credit, xp, axe)
  <2>1. Rules!LogDropBasisPoints(xp, axe) = LogDropBasisPoints(xp, axe)
    BY SameRate
  <2>2. Rules!RawCredit(credit, xp, axe) = RawCredit(credit, xp, axe)
    BY <2>1 DEF Rules!RawCredit, RawCredit
  <2>3. Rules!Success(roll, credit, xp, axe) <=> Success(roll, credit, xp, axe)
    BY <2>1, <2>2 DEF Rules!Success, Success, Rules!MaxCredit, MaxCredit
  <2>4. Rules!Reward(roll, credit, xp, axe) = Reward(roll, credit, xp, axe)
    BY <2>3 DEF Rules!Reward, Reward
  <2>5. Rules!MaterialDrop(roll, credit, xp, axe) = MaterialDrop(roll, credit, xp, axe)
    BY <2>3 DEF Rules!MaterialDrop, MaterialDrop
  <2> QED
    BY <2>4, <2>5 DEF Rules!StoneReward, StoneReward, Rules!IronOreReward, IronOreReward
<1>7. ASSUME NEW a \in Assets
      PROVE  Rules!SwingReward(HeroOf(p))[a] =
               IF a = "stone" THEN StoneReward(roll, credit, xp, axe)
               ELSE IF a = "ironOre" THEN IronOreReward(roll, credit, xp, axe)
               ELSE Reward(roll, credit, xp, axe)
  <2>1. CASE a = "stone"
    BY <1>6, <2>1 DEF Rules!SwingReward, Rules!Assets, Assets, HeroOf
  <2>2. CASE a = "ironOre"
    BY <1>6, <2>2 DEF Rules!SwingReward, Rules!Assets, Assets, HeroOf
  <2>3. CASE a = "logs"
    BY <1>6, <2>3 DEF Rules!SwingReward, Rules!Assets, Assets, HeroOf
  <2>4. CASE a = "xp"
    BY <1>6, <2>4 DEF Rules!SwingReward, Rules!Assets, Assets, HeroOf
  <2> QED
    BY <2>1, <2>2, <2>3, <2>4 DEF Assets
<1> QED
  BY <1>3, <1>5, <1>7

(* The hero a swing leaves behind, field by field.                         *)
LEMMA NextCreditAgrees ==
    ASSUME TypeOK, NEW p \in Players
    PROVE  /\ Rules!AfterSwing(HeroOf(p)).roll = NextRoll[state[p].roll]
           /\ Rules!AfterSwing(HeroOf(p)).axe = state[p].axe
           /\ Rules!AfterSwing(HeroOf(p)).credit
                = NextCredit(state[p].roll, state[p].credit, held[p]["xp"], state[p].axe)
           /\ \A a \in Assets : Rules!AfterSwing(HeroOf(p)).held[a]
                                = held[p][a] + Rules!SwingReward(HeroOf(p))[a]
<1> DEFINE roll == state[p].roll
           credit == state[p].credit
           axe == state[p].axe
           xp == held[p]["xp"]
<1>1. /\ Rules!LogDropBasisPoints(xp, axe) = LogDropBasisPoints(xp, axe)
  BY SameRate
<1>2. Rules!RawCredit(credit, xp, axe) = RawCredit(credit, xp, axe)
  BY <1>1 DEF Rules!RawCredit, RawCredit
<1>3. Rules!Success(roll, credit, xp, axe) <=> Success(roll, credit, xp, axe)
  BY <1>1, <1>2 DEF Rules!Success, Success, Rules!MaxCredit, MaxCredit
<1>4. Rules!Reward(roll, credit, xp, axe) = Reward(roll, credit, xp, axe)
  BY <1>3 DEF Rules!Reward, Reward
<1>5. Rules!NextCredit(roll, credit, xp, axe) = NextCredit(roll, credit, xp, axe)
  BY <1>2, <1>4 DEF Rules!NextCredit, NextCredit
<1> QED
  BY <1>5 DEF Rules!AfterSwing, HeroOf, Rules!Assets, Assets

(* A living tree still holds a unit of every asset the chop leaf asks for. *)
LEMMA LivingTreePays ==
    ASSUME TypeOK, TreeStaysWorkable, NEW t \in Trees, health[t] > 0
    PROVE  \A a \in Assets : reserve[t][a] > 0
<1>1. Workable(health[t], reserve[t])
  BY DEF TreeStaysWorkable
<1>2. PICK cycles \in 0..Reserve : reserve[t]["logs"] = health[t] + cycles * LogsPerTree
  BY <1>1 DEF Workable
<1>3. cycles * LogsPerTree \in Nat /\ health[t] \in Nat
  BY Constants DEF TypeOK
<1>4. reserve[t]["logs"] > 0
  BY <1>2, <1>3
<1>5. \A a \in Assets : reserve[t][a] \in Nat
  BY DEF TypeOK, Holdings
<1> QED
  BY <1>1, <1>4, <1>5 DEF Workable, Assets

(* The swing a client computes is accepted by both leaves.                 *)
LEMMA SwingAccepted ==
    ASSUME ForestInv, NEW p \in Players, NEW t \in Trees, Playable(p), health[t] > 0
    PROVE  LET hero == Rules!AfterSwing(HeroOf(p))
                next == [roll |-> hero.roll, credit |-> hero.credit, axe |-> hero.axe]
                gain == [a \in Assets |-> hero.held[a] - held[p][a]]
            IN  /\ LedgerAllows(reserve[t], gain, gain)
                /\ ChopPackets(p, next)
                /\ ChopHealth(p, t, next, health[t] - gain["logs"])
                /\ ChopAssets(p, t, next, gain, gain)
<1> USE DEF ForestInv
<1> DEFINE hero == Rules!AfterSwing(HeroOf(p))
           next == [roll |-> hero.roll, credit |-> hero.credit, axe |-> hero.axe]
           gain == [a \in Assets |-> hero.held[a] - held[p][a]]
           credit == state[p].credit
           xp == held[p]["xp"]
           raw == RawCredit(credit, xp, state[p].axe)
<1>1. /\ state[p].roll \in Rolls /\ credit \in Nat /\ state[p].axe \in Axes
      /\ xp \in Nat /\ credit \in 0..MaxCredit /\ Active(p) /\ CanonicalStart(p)
      /\ MaxCredit \in Nat
  BY StateFields, Constants DEF Playable
<1>2. /\ next.roll = NextRoll[state[p].roll] /\ next.axe = state[p].axe
      /\ next.credit = NextCredit(state[p].roll, credit, xp, state[p].axe)
  BY NextCreditAgrees
<1>3. /\ \A a \in Assets : ScriptGain(p, next, a) \in 0..1
      /\ \A a \in Assets : ScriptGain(p, next, a) = Rules!SwingReward(HeroOf(p))[a]
      /\ ScriptGain(p, next, "logs") = ScriptReward(p, next)
      /\ ScriptReward(p, next) \in 0..1
      /\ ScriptReward(p, next) = Reward(state[p].roll, credit, xp, state[p].axe)
  <2> HIDE DEF next
  <2> QED
    BY <1>2, GainFacts, GainIsReward
<1>4. /\ \A a \in Assets : held[p][a] \in Nat /\ reserve[t][a] \in Nat
      /\ \A a \in Assets : reserve[t][a] > 0
      /\ health[t] \in Nat
  BY LivingTreePays, Constants DEF TypeOK, Holdings
<1>5. \A a \in Assets : gain[a] = ScriptGain(p, next, a)
  <2>1. \A a \in Assets : hero.held[a] = held[p][a] + ScriptGain(p, next, a)
    BY <1>3, NextCreditAgrees
  <2> HIDE DEF hero, next
  <2> QED
    BY <1>3, <1>4, <2>1
<1>6. next.credit \in 0..MaxCredit
  BY <1>1, <1>2, SwingInCorridor
<1> HIDE DEF next, gain
<1>7. ChopPackets(p, next)
  <2>1. credit + ScriptRate(p) = raw
    BY ScriptRateIsHostRate DEF RawCredit
  <2>2. next.credit = raw - Window * ScriptReward(p, next)
    BY <1>2, <1>3 DEF NextCredit
  <2> HIDE DEF hero, raw, credit
  <2>3. next.credit = (credit + ScriptRate(p)) - Window * ScriptReward(p, next)
    BY <2>1, <2>2
  <2>4. credit < MaxCredit + 1 /\ next.credit < MaxCredit + 1
    BY <1>1, <1>6
  <2>5. AdvancedLuck(p, next)
    BY <1>2, <2>3, <2>4 DEF AdvancedLuck, credit
  <2> QED
    BY <1>1, <2>5 DEF ChopPackets
<1>8. LedgerAllows(reserve[t], gain, gain)
  BY <1>3, <1>4, <1>5 DEF LedgerAllows
<1>9. ChopHealth(p, t, next, health[t] - gain["logs"])
  BY <1>3, <1>4, <1>5 DEF ChopHealth, Assets
<1>10. ChopAssets(p, t, next, gain, gain)
  BY <1>3, <1>4, <1>5 DEF ChopAssets
<1> QED
  BY <1>7, <1>8, <1>9, <1>10 DEF next, gain

(* So is a craft the client prepares.                                      *)
LEMMA CraftAccepted == TypeOK => CraftsAreAccepted
<1> SUFFICES ASSUME TypeOK, NEW p \in Players, Playable(p), state[p].axe < 3,
                    held[p]["xp"] >= RequiredXp[state[p].axe + 1],
                    \A a \in Assets :
                       held[p][a] >= Rules!RecipeCost(state[p].axe + 1, a)
             PROVE  LET tier == state[p].axe + 1
                        next == [roll |-> state[p].roll, credit |-> state[p].credit,
                                 axe |-> tier]
                        burned == [a \in Assets |-> Rules!RecipeCost(tier, a)]
                    IN  /\ LedgerAllows(held[p], burned, NoAssets)
                        /\ CraftPackets(p, next)
                        /\ CraftAssets(next, burned)
  BY DEF CraftsAreAccepted
<1> DEFINE tier == state[p].axe + 1
           next == [roll |-> state[p].roll, credit |-> state[p].credit, axe |-> tier]
           burned == [a \in Assets |-> Rules!RecipeCost(tier, a)]
<1>1. tier \in 1..3 /\ next.axe = tier /\ state[p].axe < 3
  BY StateFields DEF Axes
<1>2. \A a \in Assets : /\ burned[a] = ScriptBurn(tier, a) /\ burned[a] \in Nat
                        /\ burned[a] <= held[p][a] /\ held[p][a] \in Nat
  <2>1. \A a \in Assets : held[p][a] \in Nat
    BY DEF TypeOK, Holdings
  <2>2. \A a \in Assets : Rules!RecipeCost(tier, a) = ScriptBurn(tier, a)
                          /\ ScriptBurn(tier, a) \in Nat
    BY <1>1, BurnIsRecipe
  <2> QED
    BY <2>1, <2>2
<1>3. LedgerAllows(held[p], burned, NoAssets)
  <2> HIDE DEF burned
  <2> QED
    BY <1>2 DEF LedgerAllows, NoAssets
<1>4. CraftPackets(p, next)
  <2>1. held[p]["xp"] > RequiredXp[tier] - 1
    BY <1>1, StateFields, RecipeAssumption
  <2>2. CanonicalStart(p)
    BY DEF Playable
  <2> QED
    BY <1>1, <2>1, <2>2 DEF CraftPackets
<1>5. CraftAssets(next, burned)
  BY <1>1, <1>2 DEF CraftAssets
<1> QED
  BY <1>3, <1>4, <1>5

(* No honest move is ever refused: in every reachable state the covenants  *)
(* accept the swing and the craft the client computes.                     *)
THEOREM HonestMovesAreAccepted == Spec => []MovesAreAccepted
<1>1. ForestInv => SwingsAreAccepted
  BY SwingAccepted DEF SwingsAreAccepted, HeroOf
<1>2. ForestInv => MovesAreAccepted
  BY <1>1, CraftAccepted DEF MovesAreAccepted, ForestInv
<1> QED
  BY <1>2, ForestInvAlways, PTL

-----------------------------------------------------------------------------
(* The refinement of GameRules.                                            *)

HeroSet(p) == IF Playable(p) THEN {HeroOf(p)} ELSE {}

Heroes == [p \in Players |-> HeroSet(p)]

(* The forest starts as the rules start.                                   *)
LEMMA RulesStart == Init => Rules!RulesInit
<1> SUFFICES ASSUME Init PROVE Rules!RulesInit
  OBVIOUS
<1>1. \A p \in Players : ~Playable(p)
  BY DEF Init, Playable, Active
<1> QED
  BY <1>1 DEF Init, Rules!RulesInit, Rules!Assets, Assets

(* The other players' heroes do not move.                                  *)
LEMMA HeroMoves ==
    ASSUME NEW p \in Players, NEW after,
           IF Playable(p)' THEN {HeroOf(p)'} = after ELSE after = {},
           \A q \in Players : q # p => state'[q] = state[q] /\ held'[q] = held[q]
    PROVE  Heroes' = [Heroes EXCEPT ![p] = after]
<1>1. HeroSet(p)' = after
  BY DEF HeroSet
<1>2. \A q \in Players : q # p => HeroSet(q)' = HeroSet(q)
  BY DEF HeroSet, Playable, HeroOf, Active, CanonicalStart, AxeProgression
<1> QED
  BY <1>1, <1>2 DEF Heroes

(* The actions of GameRules, read with these heroes.                       *)
LEMMA RulesOfSwing ==
    ASSUME NEW p, NEW t
    PROVE  Rules!Swing(p, t) <=>
           /\ health[t] > 0
           /\ \A a \in Assets : reserve[t][a] > 0
           /\ \E h \in Heroes[p] :
                 /\ Heroes' = [Heroes EXCEPT ![p] = {Rules!AfterSwing(h)}]
                 /\ health' = [health EXCEPT
                       ![t] = health[t] - Rules!SwingReward(h)["logs"]]
                 /\ reserve' = [reserve EXCEPT
                       ![t] = [a \in Assets |->
                                 reserve[t][a] - Rules!SwingReward(h)[a]]]
BY Zenon DEF Rules!Swing, Rules!Assets, Assets, Heroes, HeroSet, HeroOf

LEMMA RulesOfCraftAxe ==
    ASSUME NEW p
    PROVE  Rules!CraftAxe(p) <=>
           /\ \E h \in Heroes[p] :
                 /\ h.axe < 3
                 /\ h.held["xp"] >= RequiredXp[h.axe + 1]
                 /\ \A a \in Assets : h.held[a] >= Rules!RecipeCost(h.axe + 1, a)
                 /\ Heroes' = [Heroes EXCEPT ![p] = {[h EXCEPT
                        !.axe = @ + 1,
                        !.held = [a \in Assets |->
                                    @[a] - Rules!RecipeCost(h.axe + 1, a)]]}]
           /\ UNCHANGED <<health, reserve>>
BY Zenon DEF Rules!CraftAxe, Rules!Assets, Assets, Heroes, HeroSet, HeroOf

LEMMA RulesOfWithdrawLogs ==
    ASSUME NEW p
    PROVE  Rules!WithdrawLogs(p) <=>
           /\ \E h \in Heroes[p] : \E amount \in 1..h.held["logs"] :
                 Heroes' = [Heroes EXCEPT
                              ![p] = {[h EXCEPT !.held["logs"] = @ - amount]}]
           /\ UNCHANGED <<health, reserve>>
BY Zenon DEF Rules!WithdrawLogs, Heroes, HeroSet, HeroOf

LEMMA RulesOfJoin ==
    ASSUME NEW p
    PROVE  Rules!Join(p) <=>
           /\ Heroes[p] = {}
           /\ \E roll \in Rolls, credit \in 0..MaxCredit, logs \in 0..MaxMove :
                 Heroes' = [Heroes EXCEPT ![p] =
                    {[roll |-> roll, credit |-> credit, axe |-> NoAxe,
                      held |-> [a \in Assets |-> IF a = "logs" THEN logs ELSE 0]]}]
           /\ UNCHANGED <<health, reserve>>
BY Zenon DEF Rules!Join, Rules!Assets, Assets, Rules!NoAxe, NoAxe, Rules!MaxCredit,
   MaxCredit, Heroes, HeroSet, HeroOf

LEMMA RulesOfRegrowTree ==
    ASSUME NEW t
    PROVE  Rules!RegrowTree(t) <=>
           /\ health[t] = 0
           /\ reserve[t]["logs"] > 0
           /\ health' = [health EXCEPT ![t] = LogsPerTree]
           /\ reserve' = reserve /\ Heroes' = Heroes
BY Zenon DEF Rules!RegrowTree, Heroes, HeroSet, HeroOf


(* An accepted swing is a swing of the rules.                              *)
LEMMA SwingRefines ==
    ASSUME ForestInv, NEW p \in Players, NEW t \in Trees, Chop(p, t)
    PROVE  Rules!Swing(p, t)
<1> USE DEF ForestInv
<1>1. PICK next \in Packets :
        /\ Active(p) /\ ChopPackets(p, next) /\ Spend(p, next)
        /\ health[t] > 0 /\ \A a \in Assets : reserve[t][a] > 0
        /\ health' = [health EXCEPT ![t] = health[t] - ScriptReward(p, next)]
        /\ reserve' = [reserve EXCEPT ![t] =
               [a \in Assets |-> reserve[t][a] - ScriptGain(p, next, a)]]
        /\ held' = [held EXCEPT ![p] =
               [a \in Assets |-> held[p][a] + ScriptGain(p, next, a)]]
        /\ wallet' = wallet
  BY ChopEffect
<1>2. /\ CanonicalStart(p) /\ next.axe = state[p].axe
      /\ next.roll = NextRoll[state[p].roll] /\ state[p].credit <= MaxCredit
  BY <1>1, ChopPacketFacts
<1>3. Playable(p) /\ Playable(p)'
  <2>1. Playable(p)
    BY <1>1, <1>2 DEF Playable
  <2> QED
    BY <2>1, PlayableStays DEF Next
<1>4. /\ ScriptReward(p, next) = Reward(state[p].roll, state[p].credit, held[p]["xp"], state[p].axe)
      /\ \A a \in Assets : ScriptGain(p, next, a) = Rules!SwingReward(HeroOf(p))[a]
      /\ ScriptGain(p, next, "logs") = ScriptReward(p, next)
      /\ "logs" \in Assets
  BY <1>2, GainIsReward, GainFacts DEF Assets
<1>5. next.credit = NextCredit(state[p].roll, state[p].credit, held[p]["xp"], state[p].axe)
  <2>0. AdvancedLuck(p, next)
    BY <1>1 DEF ChopPackets
  <2>1. next.credit = (state[p].credit + ScriptRate(p)) - Window * ScriptReward(p, next)
    BY ONLY <2>0 DEF AdvancedLuck
  <2>2. ScriptRate(p) = LogDropBasisPoints(held[p]["xp"], state[p].axe)
    BY ScriptRateIsHostRate
  <2> QED
    BY ONLY <1>4, <2>1, <2>2 DEF NextCredit, RawCredit
<1>6. /\ state'[p] = [entry |-> "recursive", idGroup |-> state[p].idGroup,
                      roll |-> next.roll, credit |-> next.credit, axe |-> next.axe]
      /\ \A q \in Players : q # p => state'[q] = state[q]
  BY <1>1, SpendEffect
<1>7. /\ held'[p] = [a \in Assets |-> held[p][a] + ScriptGain(p, next, a)]
      /\ \A q \in Players : q # p => held'[q] = held[q]
  BY <1>1 DEF TypeOK
<1>8. held'[p] = [a \in Assets |-> held[p][a] + Rules!SwingReward(HeroOf(p))[a]]
  BY <1>4, <1>7
<1>9. HeroOf(p)' = Rules!AfterSwing(HeroOf(p))
  <2>1. Rules!AfterSwing(HeroOf(p)) =
          [roll |-> Rules!AfterSwing(HeroOf(p)).roll,
           credit |-> Rules!AfterSwing(HeroOf(p)).credit,
           axe |-> Rules!AfterSwing(HeroOf(p)).axe,
           held |-> [a \in Assets |-> held[p][a] + Rules!SwingReward(HeroOf(p))[a]]]
    BY DEF Rules!AfterSwing, Rules!Assets, Assets, HeroOf
  <2>2. /\ state'[p].roll = Rules!AfterSwing(HeroOf(p)).roll
        /\ state'[p].credit = Rules!AfterSwing(HeroOf(p)).credit
        /\ state'[p].axe = Rules!AfterSwing(HeroOf(p)).axe
    BY <1>2, <1>5, <1>6, NextCreditAgrees
  <2>3. HeroOf(p)' = [roll |-> state'[p].roll, credit |-> state'[p].credit,
                      axe |-> state'[p].axe, held |-> held'[p]]
    BY DEF HeroOf
  <2> QED
    BY <1>8, <2>1, <2>2, <2>3
<1>10. Heroes' = [Heroes EXCEPT ![p] = {Rules!AfterSwing(HeroOf(p))}]
  BY <1>3, <1>6, <1>7, <1>9, HeroMoves
<1>11. HeroOf(p) \in Heroes[p]
  BY <1>3 DEF Heroes, HeroSet
<1>12. [a \in Assets |-> reserve[t][a] - ScriptGain(p, next, a)]
        = [a \in Assets |-> reserve[t][a] - Rules!SwingReward(HeroOf(p))[a]]
  BY <1>4
<1> QED
  BY <1>1, <1>4, <1>10, <1>11, <1>12, RulesOfSwing

(* An accepted craft is a craft of the rules.                              *)
LEMMA CraftRefines ==
    ASSUME ForestInv, NEW p \in Players, Craft(p)
    PROVE  Rules!CraftAxe(p)
<1> USE DEF ForestInv
<1>1. PICK next \in Packets :
        /\ Active(p)
        /\ CraftPackets(p, next)
        /\ Spend(p, next)
        /\ \A a \in Assets : ScriptBurn(next.axe, a) <= held[p][a]
        /\ held' = [held EXCEPT ![p] =
               [a \in Assets |-> held[p][a] - ScriptBurn(next.axe, a)]]
        /\ UNCHANGED <<health, reserve, wallet>>
  BY CraftEffect
<1> DEFINE tier == state[p].axe + 1
<1>2. /\ next.axe = tier /\ state[p].axe < 3 /\ CanonicalStart(p)
      /\ next.roll = state[p].roll /\ next.credit = state[p].credit
      /\ held[p]["xp"] > RequiredXp[tier] - 1
  BY <1>1 DEF CraftPackets
<1>3. tier \in 1..3 /\ held[p]["xp"] >= RequiredXp[tier] /\ held[p]["xp"] > 0
  <2>1. tier \in 1..3
    BY <1>2, StateFields DEF Axes
  <2> QED
    BY <1>2, <2>1, StateFields, RecipeAssumption
<1>4. state[p].credit <= MaxCredit
  BY <1>3 DEF EarnedStateIsCanonical, Earned, Assets
<1>5. Playable(p) /\ Playable(p)'
  <2>1. Playable(p)
    BY <1>1, <1>2, <1>4 DEF Playable
  <2> QED
    BY <2>1, PlayableStays DEF Next, PlayerStep
<1>6. /\ state'[p] = [entry |-> "recursive", idGroup |-> state[p].idGroup,
                      roll |-> next.roll, credit |-> next.credit, axe |-> next.axe]
      /\ \A q \in Players : q # p => state'[q] = state[q]
  BY <1>1, SpendEffect
<1>7. \A a \in Assets : /\ ScriptBurn(tier, a) = Rules!RecipeCost(tier, a)
                        /\ held[p][a] >= Rules!RecipeCost(tier, a)
  <2>1. \A a \in Assets : /\ ScriptBurn(tier, a) = Rules!RecipeCost(tier, a)
                          /\ ScriptBurn(tier, a) \in Nat
    BY <1>3, BurnIsRecipe
  <2>2. \A a \in Assets : held[p][a] \in Nat /\ ScriptBurn(tier, a) <= held[p][a]
    BY <1>1, <1>2 DEF TypeOK, Holdings
  <2> QED
    BY <2>1, <2>2
<1>8. /\ held'[p] = [a \in Assets |-> held[p][a] - Rules!RecipeCost(tier, a)]
      /\ \A q \in Players : q # p => held'[q] = held[q]
  <2>1. /\ held'[p] = [a \in Assets |-> held[p][a] - ScriptBurn(tier, a)]
        /\ \A q \in Players : q # p => held'[q] = held[q]
    BY <1>1, <1>2 DEF TypeOK
  <2> HIDE DEF tier
  <2>2. [a \in Assets |-> held[p][a] - ScriptBurn(tier, a)]
          = [a \in Assets |-> held[p][a] - Rules!RecipeCost(tier, a)]
    BY <1>7
  <2> QED
    BY <2>1, <2>2
<1> DEFINE after == [HeroOf(p) EXCEPT
                       !.axe = @ + 1,
                       !.held = [a \in Assets |-> @[a] - Rules!RecipeCost(tier, a)]]
<1>9. HeroOf(p)' = after
  <2>1. after = [roll |-> state[p].roll, credit |-> state[p].credit, axe |-> tier,
                 held |-> [a \in Assets |-> held[p][a] - Rules!RecipeCost(tier, a)]]
    <3> DEFINE left == [a \in Assets |-> held[p][a] - Rules!RecipeCost(tier, a)]
    <3>1. HeroOf(p).held = held[p] /\ HeroOf(p).axe = state[p].axe
      BY DEF HeroOf
    <3>2. after = [HeroOf(p) EXCEPT !.axe = tier, !.held = left]
      BY <3>1, Zenon
    <3> HIDE DEF left, tier, after
    <3>3. after = [roll |-> state[p].roll, credit |-> state[p].credit, axe |-> tier,
                   held |-> left]
      BY <3>2 DEF HeroOf
    <3> QED
      BY <3>3 DEF left
  <2>2. HeroOf(p)' = [roll |-> state'[p].roll, credit |-> state'[p].credit,
                      axe |-> state'[p].axe, held |-> held'[p]]
    BY DEF HeroOf
  <2> QED
    BY <1>2, <1>6, <1>8, <2>1, <2>2
<1> HIDE DEF after
<1>10. Heroes' = [Heroes EXCEPT ![p] = {after}]
  BY <1>5, <1>6, <1>8, <1>9, HeroMoves
<1>11. HeroOf(p) \in Heroes[p]
  BY <1>5 DEF Heroes, HeroSet
<1>12. HeroOf(p).axe = state[p].axe /\ HeroOf(p).held = held[p]
  BY DEF HeroOf
<1> QED
  BY <1>1, <1>2, <1>3, <1>7, <1>10, <1>11, <1>12, RulesOfCraftAxe DEF after

(* A withdrawal of nothing, a renewal and any spend of a player outside    *)
(* the corridor change no hero.                                            *)
LEMMA KeepRefines ==
    ASSUME ForestInv, NEW p \in Players, Withdraw(p) \/ RenewPlayer(p)
    PROVE  Rules!WithdrawLogs(p) \/ UNCHANGED <<health, reserve, Heroes>>
<1> USE DEF ForestInv
<1>1. PICK amount \in 0..held[p]["logs"] :
        /\ held'[p] = [a \in Assets |-> IF a = "logs" THEN held[p][a] - amount
                                        ELSE held[p][a]]
        /\ \A q \in Players : q # p => held'[q] = held[q]
        /\ UNCHANGED <<health, reserve>>
  <2>1. CASE Withdraw(p)
    BY <2>1, WithdrawEffect DEF TypeOK
  <2>2. CASE RenewPlayer(p)
    <3>1. held[p] = [a \in Assets |-> IF a = "logs" THEN held[p][a] - 0 ELSE held[p][a]]
      BY StateFields DEF TypeOK, Holdings
    <3>2. 0 \in 0..held[p]["logs"]
      BY StateFields
    <3> QED
      BY <2>2, <3>1, <3>2, RenewEffect
  <2> QED
    BY <2>1, <2>2
<1>2. /\ Active(p) /\ CanonicalStart(p)
      /\ state'[p] = [entry |-> "recursive", idGroup |-> state[p].idGroup,
                      roll |-> state[p].roll, credit |-> state[p].credit,
                      axe |-> state[p].axe]
  BY KeepMoves
<1>3. \A q \in Players : q # p => state'[q] = state[q]
  BY WithdrawEffect, RenewEffect, SpendEffect
<1>4. CASE ~Playable(p)
  <2>1. state[p].credit > MaxCredit
    BY <1>2, <1>4, StateFields, Constants DEF Playable
  <2>2. ~Playable(p)'
    BY <1>2, <2>1, StateFields, Constants DEF Playable, MaxCredit
  <2>3. Heroes' = [Heroes EXCEPT ![p] = {}]
    BY <1>1, <1>3, <2>2, HeroMoves
  <2>4. Heroes' = Heroes
    BY <1>4, <2>3 DEF Heroes, HeroSet
  <2> QED
    BY <1>1, <2>4
<1>5. CASE Playable(p)
  <2>1. Playable(p)'
    BY <1>5, PlayableStays DEF Next, PlayerStep
  <2> DEFINE after == [HeroOf(p) EXCEPT !.held["logs"] = @ - amount]
  <2>2. HeroOf(p)' = after
    <3>1. after = [roll |-> state[p].roll, credit |-> state[p].credit, axe |-> state[p].axe,
                   held |-> [held[p] EXCEPT !["logs"] = @ - amount]]
      BY DEF HeroOf
    <3>2. [held[p] EXCEPT !["logs"] = @ - amount] = held'[p]
      BY <1>1 DEF TypeOK, Holdings
    <3>3. HeroOf(p)' = [roll |-> state'[p].roll, credit |-> state'[p].credit,
                        axe |-> state'[p].axe, held |-> held'[p]]
      BY DEF HeroOf
    <3> QED
      BY <1>2, <3>1, <3>2, <3>3
  <2>3. Heroes' = [Heroes EXCEPT ![p] = {after}]
    <3> HIDE DEF after
    <3> QED
      BY <1>1, <1>3, <2>1, <2>2, HeroMoves
  <2>4. HeroOf(p) \in Heroes[p] /\ HeroOf(p).held = held[p]
    BY <1>5 DEF Heroes, HeroSet, HeroOf
  <2>5. CASE amount = 0
    <3>1. held'[p] = held[p]
      BY <1>1, <2>5, StateFields DEF TypeOK, Holdings
    <3>2. HeroOf(p)' = HeroOf(p)
      BY <1>2, <3>1 DEF HeroOf
    <3>3. Heroes' = [Heroes EXCEPT ![p] = {HeroOf(p)}]
      BY <2>2, <2>3, <3>2
    <3>4. Heroes' = Heroes
      BY <1>5, <3>3 DEF Heroes, HeroSet
    <3> QED
      BY <1>1, <3>4
  <2>6. CASE amount # 0
    <3>1. amount \in 1..held[p]["logs"]
      BY <2>6, StateFields
    <3> QED
      BY <1>1, <2>3, <2>4, <3>1, RulesOfWithdrawLogs
  <2> QED
    BY <2>5, <2>6
<1> QED
  BY <1>4, <1>5

(* A newcomer joins as a hero if the covenants let it play at all.         *)
LEMMA NewcomerRefines ==
    ASSUME ForestInv, NEW p \in Players, Activate(p) \/ Enter(p)
    PROVE  Rules!Join(p) \/ UNCHANGED <<health, reserve, Heroes>>
<1> USE DEF ForestInv
<1>1. ~Active(p) /\ held[p] = NoAssets /\ ~Playable(p) /\ HeroSet(p) = {}
      /\ UNCHANGED <<health, reserve>>
  BY DEF Activate, Enter, AbsentHoldsNothing, Playable, HeroSet
<1>2. PICK logs \in 0..MaxMove :
        /\ held'[p] = [a \in Assets |-> IF a = "logs" THEN logs ELSE 0]
        /\ \A q \in Players : q # p => state'[q] = state[q] /\ held'[q] = held[q]
        /\ state'[p] \in EntryStates
  <2>1. CASE Activate(p)
    <3>1. NoAssets = [a \in Assets |-> IF a = "logs" THEN 0 ELSE 0]
      BY DEF NoAssets
    <3>2. [entry |-> "issued", idGroup |-> 0, roll |-> InitialRoll[p],
           credit |-> InitialCredit, axe |-> NoAxe] \in EntryStates
      BY Constants DEF EntryStates, Axes, NoAxe
    <3>3. 0 \in 0..MaxMove
      BY Constants
    <3> QED
      BY <1>1, <2>1, <3>1, <3>2, <3>3 DEF Activate, TypeOK
  <2>2. CASE Enter(p)
    <3>1. PICK entry \in Entries, logs \in 0..MaxMove :
            /\ state' = [state EXCEPT ![p] = entry]
            /\ held' = [held EXCEPT ![p] = [held[p] EXCEPT !["logs"] = @ + logs]]
      BY <2>2 DEF Enter
    <3>2. [held[p] EXCEPT !["logs"] = @ + logs]
            = [a \in Assets |-> IF a = "logs" THEN logs ELSE 0]
      BY <1>1, Constants DEF NoAssets, Assets
    <3> QED
      BY <3>1, <3>2, Constants DEF TypeOK
  <2> QED
    BY <2>1, <2>2
<1>3. CASE ~Playable(p)'
  <2>1. Heroes' = [Heroes EXCEPT ![p] = {}]
    BY <1>2, <1>3, HeroMoves
  <2>2. Heroes' = Heroes
    BY <1>1, <2>1 DEF Heroes
  <2> QED
    BY <1>1, <2>2
<1>4. CASE Playable(p)'
  <2>1. /\ state'[p].roll \in Rolls /\ state'[p].credit \in Nat
        /\ state'[p].axe \in Axes
    BY <1>2, Constants DEF EntryStates
  <2>2. state'[p].credit \in 0..MaxCredit
    BY <1>4, <2>1, Constants DEF Playable, MaxCredit
  <2>3. state'[p].axe = NoAxe
    <3>1. \A tier \in 1..3 : state'[p].axe = tier => held'[p]["xp"] > RequiredXp[tier] - 1
      BY <1>4 DEF Playable, CanonicalStart, AxeProgression
    <3>2. held'[p]["xp"] = 0
      BY <1>2 DEF Assets
    <3> QED
      BY <2>1, <3>1, <3>2, RecipeAssumption DEF Axes, NoAxe
  <2>4. HeroOf(p)' = [roll |-> state'[p].roll, credit |-> state'[p].credit, axe |-> NoAxe,
                      held |-> [a \in Assets |-> IF a = "logs" THEN logs ELSE 0]]
    BY <1>2, <2>3 DEF HeroOf
  <2>5. Heroes' = [Heroes EXCEPT ![p] = {HeroOf(p)'}]
    BY <1>2, <1>4, HeroMoves
  <2>6. Heroes[p] = {}
    BY <1>1 DEF Heroes
  <2> QED
    BY <1>1, <2>1, <2>2, <2>4, <2>5, <2>6, RulesOfJoin
<1> QED
  BY <1>3, <1>4

(* A regrowth is a regrowth.                                               *)
LEMMA RegrowRefines ==
    ASSUME ForestInv, NEW t \in Trees, Regrow(t)
    PROVE  Rules!RegrowTree(t)
<1>1. /\ health[t] = 0 /\ reserve[t]["logs"] > 0
      /\ health' = [health EXCEPT ![t] = LogsPerTree]
      /\ UNCHANGED <<reserve, state, held>>
  BY RegrowEffect DEF ForestInv
<1>2. Heroes' = Heroes
  BY <1>1 DEF Heroes, HeroSet, HeroOf, Playable, Active, CanonicalStart, AxeProgression
<1> QED
  BY <1>1, <1>2, RulesOfRegrowTree

(* Every step of the covenants is a step of the rules or changes nothing   *)
(* the rules see.                                                          *)
LEMMA StepRefines == ForestInv /\ [Next]_vars => [Rules!RulesNext]_(Rules!rulesVars)
<1> SUFFICES ASSUME ForestInv, [Next]_vars
             PROVE  Rules!RulesNext \/ UNCHANGED Rules!rulesVars
  OBVIOUS
<1>1. UNCHANGED Rules!rulesVars <=> UNCHANGED <<health, reserve, Heroes>>
  BY Zenon DEF Rules!rulesVars, Heroes, HeroSet, HeroOf
<1>2. CASE \E p \in Players : PlayerStep(p)
  BY <1>1, <1>2, NewcomerRefines, CraftRefines, KeepRefines DEF PlayerStep, Rules!RulesNext
<1>3. CASE \E p \in Players, t \in Trees : Chop(p, t)
  BY <1>3, SwingRefines DEF Rules!RulesNext
<1>4. CASE UNCHANGED vars
  BY <1>1, <1>4 DEF vars, Heroes, HeroSet, HeroOf, Playable, Active, CanonicalStart,
                    AxeProgression
<1>5. CASE \E t \in Trees : Regrow(t) \/ Maintain(t)
  BY <1>4, <1>5, RegrowRefines, MaintainEffect DEF ForestInv, Rules!RulesNext
<1> QED
  BY <1>2, <1>3, <1>4, <1>5 DEF Next

(* Whatever anyone proposes, the players the covenants let play play by    *)
(* the rules of the game: Forest implements GameRules.                     *)
THEOREM CovenantsPlayByTheRules == Spec => PlaysByTheRules
BY RulesStart, StepRefines, ForestInvAlways, PTL DEF Spec, PlaysByTheRules, Rules!RulesSpec
=============================================================================
