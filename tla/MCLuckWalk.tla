----------------------------- MODULE MCLuckWalk -----------------------------
(***************************************************************************)
(* The real basis points of player.rs.  The level thresholds are moved     *)
(* close together, so that a run can cross several of them; two rolls, a   *)
(* bucket below every rate and one above every rate, are all a rate can    *)
(* tell apart.                                                             *)
(***************************************************************************)
EXTENDS LuckWalk, TLC

CONSTANTS low, high

MCRolls == {low, high}
MCNextRoll == (low :> high) @@ (high :> low)
MCBucket == (low :> 0) @@ (high :> 9999)
MCAxeBonus == (0 :> 0) @@ (1 :> 200) @@ (2 :> 500) @@ (3 :> 800)
MCLevelThresholds == {2, 3, 4, 6, 7}
MCRequiredXp == (1 :> 1) @@ (2 :> 3) @@ (3 :> 5)
MCRecipe == [tier \in 1..3 |-> [logs |-> 0, stone |-> 0, ironOre |-> 0]]
MCStartCredits == {0, 100, 5000, 8000, 9900, 10000, 16700, 19900, 20000}
=============================================================================
