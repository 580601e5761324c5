------------------------------ MODULE MCForest ------------------------------
(***************************************************************************)
(* A small forest for TLC.  The probabilities are those of a window of     *)
(* five instead of ten thousand: base one in five (the real 20%), one      *)
(* level bonus, and a larger bonus for every axe.  Three rolls in a cycle  *)
(* give a sure win, a sure loss and one that depends on the rate.          *)
(***************************************************************************)
EXTENDS ForestProperties, TLC

CONSTANTS r0, r1, r2, p1, p2

MCRolls == {r0, r1, r2}
MCNextRoll == (r0 :> r1) @@ (r1 :> r2) @@ (r2 :> r0)
MCBucket == (r0 :> 0) @@ (r1 :> 4) @@ (r2 :> 2)
MCMaterialBucket == (r0 :> 0) @@ (r1 :> 4) @@ (r2 :> 1)
MCInitialRoll == [p \in Players |-> IF p = p1 THEN r2 ELSE r0]

MCAxeBonus == [axe \in Axes |-> axe]
MCLevelThresholds == {2}
MCRequiredXp == (1 :> 1) @@ (2 :> 2) @@ (3 :> 3)
MCRecipe == (1 :> [logs |-> 1, stone |-> 0, ironOre |-> 0])
         @@ (2 :> [logs |-> 1, stone |-> 1, ironOre |-> 0])
         @@ (3 :> [logs |-> 1, stone |-> 0, ironOre |-> 1])

MCCredits == 0..11

\* Markers routed into player outputs: a lucky start, an unlucky one, a
\* credit beyond the corridor, a free axe, a malformed direct issue and an
\* identity from another asset group.
MCEntries ==
    {[entry |-> "recursive", idGroup |-> 0, roll |-> r2, credit |-> 10, axe |-> 0],
     [entry |-> "recursive", idGroup |-> 0, roll |-> r0, credit |-> 11, axe |-> 0],
     [entry |-> "recursive", idGroup |-> 0, roll |-> r2, credit |-> 10, axe |-> 2],
     [entry |-> "issued", idGroup |-> 0, roll |-> r1, credit |-> 10, axe |-> 0],
     [entry |-> "issued", idGroup |-> 0, roll |-> r2, credit |-> 4, axe |-> 1],
     [entry |-> "issued", idGroup |-> 1, roll |-> r2, credit |-> 4, axe |-> 0]}
=============================================================================
