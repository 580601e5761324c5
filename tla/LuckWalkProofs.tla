--------------------------- MODULE LuckWalkProofs ---------------------------
(***************************************************************************)
(* The luck corridor and the streak bounds for every rate, every roll      *)
(* function and every length of walk.                                      *)
(***************************************************************************)
EXTENDS LuckWalk, FiniteSetTheorems, TLAPS

(* The chance of a LOG lies between the base chance and a full window,     *)
(* capped or not.                                                          *)
LEMMA RateBounds ==
    ASSUME NEW level \in Nat, NEW tier \in Axes
    PROVE  /\ LogDropBasisPoints(level, tier) \in Nat
           /\ BaseRate <= LogDropBasisPoints(level, tier)
           /\ LogDropBasisPoints(level, tier) <= MaxLevelRate + AxeBonus[tier]
           /\ LogDropBasisPoints(level, tier) <= Window
<1> DEFINE n == Cardinality({h \in LevelThresholds : level >= h})
           m == Cardinality(LevelThresholds)
<1>1. n \in Nat /\ m \in Nat
  BY RateAssumption, FS_Subset, FS_CardinalityType
<1>2. /\ BaseRate \in Nat /\ LevelBonus \in Nat /\ AxeBonus[tier] \in Nat
      /\ MaxLevelRate = BaseRate + LevelBonus * m
      /\ Window \in Nat /\ MaxLevelRate + AxeBonus[tier] <= Window
  BY RateAssumption
<1> DEFINE bonus == LevelBonus * n
           top == LevelBonus * m
<1>3. bonus \in Nat /\ top \in Nat
  BY <1>1, <1>2
<1>4. LogDropBasisPoints(level, tier) =
        (IF BaseRate + bonus > MaxLevelRate THEN MaxLevelRate ELSE BaseRate + bonus)
          + AxeBonus[tier]
  BY DEF LogDropBasisPoints
<1>5. MaxLevelRate = BaseRate + top
  BY <1>2
<1> HIDE DEF bonus, top
<1> QED
  BY <1>2, <1>3, <1>4, <1>5

(* One swing keeps the credit in the corridor, wherever in it the swing    *)
(* starts; a reward needs a full window of credit and a miss leaves less   *)
(* than the corridor's top.                                                *)
THEOREM CorridorIsKept ==
    ASSUME NEW roll \in Rolls, NEW luck \in 0..MaxCredit,
           NEW level \in Nat, NEW tier \in Axes
    PROVE  /\ NextCredit(roll, luck, level, tier) \in 0..MaxCredit
           /\ Reward(roll, luck, level, tier) \in 0..1
           /\ Reward(roll, luck, level, tier) = 1 => RawCredit(luck, level, tier) >= Window
           /\ Reward(roll, luck, level, tier) = 0 => RawCredit(luck, level, tier) <= MaxCredit
<1> DEFINE rate == LogDropBasisPoints(level, tier)
           raw == RawCredit(luck, level, tier)
<1>1. rate \in Nat /\ rate <= Window /\ Window \in Nat \ {0} /\ luck \in Nat
  BY RateBounds, RateAssumption DEF MaxCredit
<1>2. raw = luck + rate /\ MaxCredit = 2 * Window /\ luck <= MaxCredit
  BY RateAssumption DEF RawCredit, MaxCredit
<1>3. CASE Success(roll, luck, level, tier)
  <2>1. Reward(roll, luck, level, tier) = 1
    BY <1>3 DEF Reward
  <2>2. raw >= Window
    BY <1>3, <1>1, <1>2 DEF Success
  <2>3. NextCredit(roll, luck, level, tier) = raw - Window
    BY <2>1, <1>1 DEF NextCredit
  <2> HIDE DEF rate, raw
  <2> QED
    BY <1>1, <1>2, <2>1, <2>2, <2>3 DEF raw
<1>4. CASE ~Success(roll, luck, level, tier)
  <2>1. Reward(roll, luck, level, tier) = 0
    BY <1>4 DEF Reward
  <2>2. ~(raw > MaxCredit)
    BY <1>4 DEF Success
  <2>3. NextCredit(roll, luck, level, tier) = raw
    BY <2>1, <1>1, <1>2 DEF NextCredit
  <2> QED
    BY <1>1, <1>2, <2>1, <2>2, <2>3
<1> QED
  BY <1>3, <1>4
-----------------------------------------------------------------------------
(* The strengthening that makes the bounds inductive: a run of misses has  *)
(* saved at least the base rate each time, a run of wins has spent at      *)
(* least the window minus the largest rate each time, and the budget is    *)
(* the credit gained since the start.                                      *)
WalkInv ==
    /\ TypeOK
    /\ misses * BaseRate <= credit
    /\ credit <= MaxCredit - wins * (Window - MaxRate)
    /\ \E start \in 0..MaxCredit : budget = credit - start

LEMMA WalkConstants ==
    /\ Window \in Nat \ {0} /\ BaseRate \in Nat /\ MaxRate \in Nat
    /\ MaxRate <= Window
    /\ MaxXp \in Nat /\ StartCredits \subseteq 0..MaxCredit
    /\ MaxCredit = 2 * Window
<1>1. /\ Window \in Nat \ {0} /\ BaseRate \in 0..Window
      /\ MaxLevelRate = BaseRate + LevelBonus * Cardinality(LevelThresholds)
      /\ AxeBonus[3] \in Nat /\ MaxLevelRate + AxeBonus[3] <= Window
  BY RateAssumption DEF Axes
<1>2. LevelBonus * Cardinality(LevelThresholds) \in Nat
  BY RateAssumption, FS_CardinalityType
<1> QED
  BY <1>1, <1>2, WalkAssumption DEF MaxRate, MaxCredit

LEMMA WalkInit == Init => WalkInv
<1> SUFFICES ASSUME Init PROVE WalkInv
  OBVIOUS
<1>1. /\ wins = 0 /\ misses = 0 /\ budget = 0
      /\ credit \in 0..MaxCredit /\ xp \in 0..MaxXp /\ axe \in Axes
  BY WalkConstants DEF Init
<1>2. TypeOK
  BY <1>1 DEF TypeOK
<1>3. misses * BaseRate = 0 /\ wins * (Window - MaxRate) = 0
  BY <1>1, WalkConstants
<1>4. \E start \in 0..MaxCredit : budget = credit - start
  BY <1>1, WalkConstants
<1> QED
  BY <1>1, <1>2, <1>3, <1>4, WalkConstants DEF WalkInv

LEMMA WalkStep == WalkInv /\ [Next]_vars => WalkInv'
<1> SUFFICES ASSUME WalkInv, [Next]_vars PROVE WalkInv'
  OBVIOUS
<1> USE WalkConstants
<1>0. /\ credit \in 0..MaxCredit /\ xp \in 0..MaxXp /\ axe \in Axes
      /\ wins \in Nat /\ misses \in Nat /\ budget \in Int
  BY DEF WalkInv, TypeOK
<1>1. CASE Swing
  <2> DEFINE rate == LogDropBasisPoints(xp, axe)
  <2>1. PICK roll \in Rolls :
          /\ credit' = NextCredit(roll, credit, xp, axe)
          /\ xp' = xp + Reward(roll, credit, xp, axe)
          /\ wins' = IF Reward(roll, credit, xp, axe) = 1 THEN wins + 1 ELSE 0
          /\ misses' = IF Reward(roll, credit, xp, axe) = 0 THEN misses + 1 ELSE 0
          /\ budget' = budget + rate - Window * Reward(roll, credit, xp, axe)
    BY <1>1 DEF Swing
  <2> DEFINE reward == Reward(roll, credit, xp, axe)
  <2>2. /\ credit' \in 0..MaxCredit /\ reward \in 0..1
        /\ xp < MaxXp /\ axe' = axe
    BY <1>0, <1>1, <2>1, CorridorIsKept DEF Swing
  <2>3. rate \in Nat /\ BaseRate <= rate /\ rate <= MaxRate
    BY <1>0, RateBounds, RateAssumption DEF MaxRate, Axes
  <2>4. credit' = credit + rate - Window * reward
    BY <1>0, <2>1, <2>2, <2>3 DEF NextCredit, RawCredit
  <2> HIDE DEF rate, reward
  <2>5. TypeOK'
    BY <1>0, <2>1, <2>2, <2>3 DEF TypeOK, reward
  <2>6. (misses * BaseRate <= credit)'
    <3>1. CASE reward = 0
      <4>1. misses' * BaseRate = misses * BaseRate + BaseRate
        BY <1>0, <2>1, <3>1 DEF reward
      <4> QED
        BY <1>0, <2>2, <2>3, <2>4, <3>1, <4>1 DEF WalkInv
    <3>2. CASE reward = 1
      <4>1. misses' * BaseRate = 0
        BY <2>1, <3>2 DEF reward
      <4> QED
        BY <2>2, <4>1
    <3> QED
      BY <2>2, <3>1, <3>2
  <2>7. (credit <= MaxCredit - wins * (Window - MaxRate))'
    <3>1. CASE reward = 0
      <4>1. wins' * (Window - MaxRate) = 0
        BY <2>1, <3>1 DEF reward
      <4> QED
        BY <2>2, <4>1
    <3>2. CASE reward = 1
      <4>1. wins' = wins + 1
        BY <2>1, <3>2 DEF reward
      <4>2. wins' * (Window - MaxRate) = wins * (Window - MaxRate) + (Window - MaxRate)
        BY <1>0, <4>1
      <4>3. wins * (Window - MaxRate) \in Int
        BY <1>0
      <4>4. credit' = credit + rate - Window
        BY <2>4, <3>2
      <4> QED
        BY <1>0, <2>3, <4>2, <4>3, <4>4 DEF WalkInv
    <3> QED
      BY <2>2, <3>1, <3>2
  <2>8. (\E start \in 0..MaxCredit : budget = credit - start)'
    <3>1. PICK start \in 0..MaxCredit : budget = credit - start
      BY DEF WalkInv
    <3>2. budget' = budget + rate - Window * reward
      BY <2>1 DEF reward
    <3>3. budget' = credit' - start
      BY <1>0, <2>2, <2>3, <2>4, <3>1, <3>2
    <3> QED
      BY <3>3
  <2> QED
    BY <2>5, <2>6, <2>7, <2>8 DEF WalkInv
<1>2. CASE CraftAxe
  BY <1>0, <1>2 DEF WalkInv, TypeOK, CraftAxe, Axes
<1>3. CASE UNCHANGED vars
  BY <1>3 DEF WalkInv, TypeOK, vars
<1> QED
  BY <1>1, <1>2, <1>3 DEF Next

LEMMA WalkInvImplies ==
    WalkInv => TypeOK /\ MissRunsAreBounded /\ WinRunsAreBounded /\ RewardsFollowTheRates
<1> SUFFICES ASSUME WalkInv
             PROVE  /\ TypeOK /\ MissRunsAreBounded
                    /\ WinRunsAreBounded /\ RewardsFollowTheRates
  OBVIOUS
<1> USE WalkConstants
<1>1. TypeOK
  BY DEF WalkInv
<1>2. MissRunsAreBounded
  BY DEF WalkInv, TypeOK, MissRunsAreBounded
<1>3. WinRunsAreBounded
  <2> SUFFICES ASSUME wins > 0
               PROVE  (wins - 1) * (Window - MaxRate) <= Window + MaxRate
    BY DEF WinRunsAreBounded
  <2>1. wins \in Nat /\ credit \in Nat
    BY DEF WalkInv, TypeOK
  <2>2. wins * (Window - MaxRate) <= 2 * Window
    BY <2>1 DEF WalkInv
  <2>3. (wins - 1) * (Window - MaxRate) = wins * (Window - MaxRate) - (Window - MaxRate)
    BY <2>1
  <2>4. wins * (Window - MaxRate) \in Int
    BY <2>1
  <2> QED
    BY <2>2, <2>3, <2>4
<1>4. RewardsFollowTheRates
  BY DEF WalkInv, TypeOK, RewardsFollowTheRates
<1> QED
  BY <1>1, <1>2, <1>3, <1>4

LEMMA WalkInvAlways == Spec => []WalkInv
BY WalkInit, WalkStep, PTL DEF Spec

(* The credit packet of a recursive player is in the corridor forever.     *)
THEOREM WalkTypeCorrect == Spec => []TypeOK
BY WalkInvAlways, WalkInvImplies, PTL

(* A miss run of n needs n base rates of credit: at 20%, at most ten.      *)
THEOREM MissRunsBounded == Spec => []MissRunsAreBounded
BY WalkInvAlways, WalkInvImplies, PTL

(* A win run is bounded by what the corridor can hold.                     *)
THEOREM WinRunsBounded == Spec => []WinRunsAreBounded
BY WalkInvAlways, WalkInvImplies, PTL

(* Pay never drifts more than two windows from the rates.                  *)
THEOREM RewardsBounded == Spec => []RewardsFollowTheRates
BY WalkInvAlways, WalkInvImplies, PTL
=============================================================================
