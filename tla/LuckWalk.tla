------------------------------ MODULE LuckWalk ------------------------------
(***************************************************************************)
(* One player's luck over a long run (PlayerLuck::advance, player.rs).     *)
(* The walk starts anywhere a recursive player can be: any credit of the   *)
(* corridor, any experience, any axe.  Each swing sees an arbitrary roll,  *)
(* so whatever the hash chain turns out to be is one of the behaviours.    *)
(* wins, misses and budget observe the walk and do not influence it.       *)
(***************************************************************************)
EXTENDS PlayerLuck

CONSTANTS
    StartCredits,   \* credits the walk may start from
    MaxXp           \* bound: the experience at which the walk stops

ASSUME WalkAssumption ==
    /\ StartCredits \subseteq 0..MaxCredit
    /\ MaxXp \in Nat

VARIABLES
    credit,   \* PlayerLuck.credit
    xp,       \* the soulbound XP balance
    axe,      \* the equipped tier
    wins,     \* rewards in a row
    misses,   \* misses in a row
    budget    \* what the rates promised minus what was paid, since the start

vars == <<credit, xp, axe, wins, misses, budget>>

Init ==
    /\ credit \in StartCredits
    /\ xp \in 0..MaxXp
    /\ axe \in {tier \in Axes : tier = NoAxe \/ xp >= RequiredXp[tier]}
    /\ wins = 0 /\ misses = 0
    /\ budget = 0

Swing ==
    /\ xp < MaxXp
    /\ \E roll \in Rolls :
          LET reward == Reward(roll, credit, xp, axe)
          IN  /\ credit' = NextCredit(roll, credit, xp, axe)
              /\ xp' = xp + reward
              /\ wins' = IF reward = 1 THEN wins + 1 ELSE 0
              /\ misses' = IF reward = 0 THEN misses + 1 ELSE 0
              /\ budget' = budget + LogDropBasisPoints(xp, axe) - Window * reward
    /\ UNCHANGED axe

CraftAxe ==
    /\ axe < 3
    /\ xp >= RequiredXp[axe + 1]
    /\ axe' = axe + 1
    /\ UNCHANGED <<credit, xp, wins, misses, budget>>

Next == Swing \/ CraftAxe

Spec == Init /\ [][Next]_vars

-----------------------------------------------------------------------------
TypeOK ==
    /\ credit \in 0..MaxCredit
    /\ xp \in 0..MaxXp
    /\ axe \in Axes
    /\ wins \in Nat /\ misses \in Nat
    /\ budget \in Int

\* The largest chance anyone can have.
MaxRate == MaxLevelRate + AxeBonus[3]

(* A run of misses cannot outlast the credit it builds up: at 20% no run   *)
(* exceeds ten (PLAYER.md, "Player-Bound Luck").                           *)
MissRunsAreBounded == misses * BaseRate <= MaxCredit

(* A run of wins cannot outlast the credit it consumes: each win costs the *)
(* window minus the rate, and the last one still needed a full window.  At *)
(* the 38% cap this is three.                                              *)
WinRunsAreBounded ==
    wins > 0 => (wins - 1) * (Window - MaxRate) <= Window + MaxRate

(* From any point on, what is paid stays within two LOGs of what the rates *)
(* promise, however long the walk.                                         *)
RewardsFollowTheRates ==
    /\ budget <= 2 * Window
    /\ budget >= -(2 * Window)
=============================================================================
