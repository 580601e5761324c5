----------------------------- MODULE PlayerLuck -----------------------------
(***************************************************************************)
(* The arithmetic of a swing, as the host computes it (src/src/player.rs): *)
(* the chance of a LOG, the bounded luck credit, the crafting material and *)
(* the axe recipes.  Rates and credits are basis points.  The hash chain   *)
(* of player rolls is an arbitrary function NextRoll over an arbitrary set *)
(* Rolls, and the two buckets read off a roll are arbitrary functions of   *)
(* it: nothing below depends on SHA-256.                                   *)
(***************************************************************************)
EXTENDS Integers, FiniteSets

CONSTANTS
    Rolls,            \* 32-byte player rolls
    NextRoll,         \* PlayerRoll::next, one step of the hash chain
    Bucket,           \* PlayerRoll::bucket
    MaterialBucket,   \* PlayerRoll::material_bucket
    Window,           \* LUCK_WINDOW_BASIS_POINTS = CHOP_ROLL_BASIS_POINTS
    BaseRate,         \* BASE_LOG_DROP_BASIS_POINTS
    LevelBonus,       \* LEVEL_LOG_DROP_BONUS_BASIS_POINTS
    LevelThresholds,  \* LEVEL_LOG_DROP_XP_BALANCE_THRESHOLDS
    MaxLevelRate,     \* MAX_LEVEL_LOG_DROP_BASIS_POINTS
    AxeBonus,         \* AxeTier::bonus_basis_points
    StoneRate,        \* STONE_DROP_BASIS_POINTS
    IronOreRate,      \* IRON_ORE_DROP_BASIS_POINTS
    IronOreUnlockXp,  \* IRON_ORE_UNLOCK_XP_BALANCE
    RequiredXp,       \* AxeRecipe::required_xp_balance, by the tier crafted
    Recipe            \* AXE_RECIPES, by the tier crafted

\* AxeTier: 0 is None, 1 Wooden, 2 Stone, 3 Iron.
Axes == 0..3
NoAxe == 0

Buckets == 0..(Window - 1)
MaxCredit == 2 * Window
InitialCredit == Window - BaseRate

ASSUME RollAssumption ==
    /\ NextRoll \in [Rolls -> Rolls]
    /\ Bucket \in [Rolls -> Buckets]
    /\ MaterialBucket \in [Rolls -> Buckets]

ASSUME RateAssumption ==
    /\ Window \in Nat \ {0}
    /\ BaseRate \in 0..Window
    /\ LevelBonus \in Nat
    /\ LevelThresholds \subseteq Nat /\ IsFiniteSet(LevelThresholds)
    /\ MaxLevelRate = BaseRate + LevelBonus * Cardinality(LevelThresholds)
    /\ AxeBonus \in [Axes -> Nat]
    /\ \A axe \in Axes : /\ AxeBonus[axe] <= AxeBonus[3]
                         /\ MaxLevelRate + AxeBonus[axe] <= Window

ASSUME MaterialAssumption ==
    /\ StoneRate \in Nat
    /\ IronOreRate \in Nat
    /\ IronOreUnlockXp \in Nat

\* Every craftable tier needs at least one earned XP unit; only the Stone
\* Axe is made of STONE and only the Iron Axe of IRON ORE.
ASSUME RecipeAssumption ==
    /\ RequiredXp \in [1..3 -> Nat \ {0}]
    /\ Recipe \in [1..3 -> [logs : Nat, stone : Nat, ironOre : Nat]]
    /\ \A tier \in 1..3 : /\ tier # 2 => Recipe[tier].stone = 0
                          /\ tier # 3 => Recipe[tier].ironOre = 0

-----------------------------------------------------------------------------
(* log_drop_basis_points: the base chance plus a bonus for each level      *)
(* boundary the soulbound XP balance has reached, capped, plus the axe's.  *)
LogDropBasisPoints(xp, axe) ==
    LET level == BaseRate
                 + LevelBonus * Cardinality({h \in LevelThresholds : xp >= h})
    IN  (IF level > MaxLevelRate THEN MaxLevelRate ELSE level) + AxeBonus[axe]

RawCredit(credit, xp, axe) == credit + LogDropBasisPoints(xp, axe)

\* Mutant: nothing forces a reward at the top of the corridor.
SuccessUnforced(roll, credit, xp, axe) ==
    /\ RawCredit(credit, xp, axe) >= Window
    /\ Bucket[NextRoll[roll]] < LogDropBasisPoints(xp, axe)

\* Mutant: a lucky roll pays even below the corridor.
SuccessUnfunded(roll, credit, xp, axe) ==
    \/ RawCredit(credit, xp, axe) > MaxCredit
    \/ Bucket[NextRoll[roll]] < LogDropBasisPoints(xp, axe)

(* PlayerLuck::advance, the reward bit: forced above the corridor, refused *)
(* below it, and otherwise read from the next roll's bucket.               *)
Success(roll, credit, xp, axe) ==
    LET raw == RawCredit(credit, xp, axe)
    IN  \/ raw > MaxCredit
        \/ /\ raw >= Window
           /\ Bucket[NextRoll[roll]] < LogDropBasisPoints(xp, axe)

Reward(roll, credit, xp, axe) ==
    IF Success(roll, credit, xp, axe) THEN 1 ELSE 0

\* Mutant: a reward uses up all the credit there is.
NextCreditReset(roll, credit, xp, axe) ==
    IF Success(roll, credit, xp, axe) THEN 0 ELSE RawCredit(credit, xp, axe)

(* PlayerLuck::advance, the credit carried to the next swing.              *)
NextCredit(roll, credit, xp, axe) ==
    RawCredit(credit, xp, axe) - Window * Reward(roll, credit, xp, axe)

(* material_drop: what accompanies a LOG, decided by the next roll's other *)
(* bucket; a miss finds nothing and the two ranges are disjoint.           *)
MaterialDrop(roll, credit, xp, axe) ==
    LET bucket == MaterialBucket[NextRoll[roll]]
        stoneFrom == IF xp >= IronOreUnlockXp THEN IronOreRate ELSE 0
    IN  IF ~Success(roll, credit, xp, axe) THEN "None"
        ELSE IF bucket < stoneFrom THEN "IronOre"
        ELSE IF bucket < stoneFrom + StoneRate THEN "Stone" ELSE "None"

StoneReward(roll, credit, xp, axe) ==
    IF MaterialDrop(roll, credit, xp, axe) = "Stone" THEN 1 ELSE 0

IronOreReward(roll, credit, xp, axe) ==
    IF MaterialDrop(roll, credit, xp, axe) = "IronOre" THEN 1 ELSE 0
=============================================================================
