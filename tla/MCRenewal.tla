----------------------------- MODULE MCRenewal -----------------------------
(***************************************************************************)
(* What a renewal checks before it signs: its own fee (RenewalFee) and the *)
(* trees arkd announces (BatchTree).  They share no state: a behaviour is  *)
(* of one of them, while the variables of the other keep a fixed value.    *)
(*                                                                         *)
(* The fee programs are flat, proportional, stepped at a threshold of the  *)
(* change, always one above what is offered, or jumping with the change.   *)
(* The trees come in four families: "shapes" varies the declared edges,    *)
(* "branches" the outputs and values, "keys" the locks and cosigners along *)
(* a chain, "connectors" the outputs below the commitment's output 1.      *)
(***************************************************************************)
EXTENDS RenewalFee, BatchTree, TLC

CONSTANTS me, peer, op1, op2, t1, t2, t3

VARIABLE part

-----------------------------------------------------------------------------
MCAmount == 0..8

MCProgram ==
  {[base |-> b, at |-> [c \in MCAmount |-> q]]: b \in {0, 1}, q \in {0, 1, 3}} \cup
  {[base |-> 1, at |-> [c \in MCAmount |-> (8 - c) \div d + 1]]: d \in {1, 2}} \cup
  {[base |-> 1, at |-> [c \in MCAmount |-> IF c > 6 THEN 1 ELSE 7 - c]]} \cup
  {[base |-> 1, at |-> [c \in MCAmount |-> IF c > k THEN 1 ELSE 4]]: k \in {4, 6}} \cup
  {[base |-> 2, at |-> [c \in MCAmount |-> IF c % 2 = 0 THEN 3 ELSE 2]]}

Coin(sats, clean, live, isState, remaining) ==
  [sats |-> sats, clean |-> clean, live |-> live, isState |-> isState, remaining |-> remaining]

MCWallet ==
  {S \cup T: S \in SUBSET {Coin(8, FALSE, TRUE, FALSE, 5), Coin(8, TRUE, FALSE, FALSE, 0),
                            Coin(8, TRUE, TRUE, TRUE, 5)},
             T \in SUBSET {Coin(n, TRUE, TRUE, FALSE, r): n \in {3, 6}, r \in {1, 5}}}

-----------------------------------------------------------------------------
Out(value, keys) == [value |-> value, keys |-> keys]
Ours == {me, op1}

Chunk(tx, vout, outs, children, cosigners, exact, canonical) ==
  [prev |-> [tx |-> tx, vout |-> vout], outs |-> outs, children |-> children,
   cosigners |-> cosigners, exact |-> exact, canonical |-> canonical]

Pair(c, d) == [v \in {0, 1} |-> IF v = 0 THEN c ELSE d]
Only(v, c) == [u \in {v} |-> c]
\* A child is one of the transactions, or a sibling that is never sent.
Kids == {t1, t2, t3, "sibling"}

ShapeNodes ==
  {Chunk(tx, 0, <<Out(1, Ours)>>, children, Ours, DOMAIN children = {}, TRUE):
     tx \in {Root, t1, t2, t3},
     children \in {<<>>} \cup {Only(v, c): v \in {0, 1}, c \in Kids}
                   \cup {Pair(c, "sibling"): c \in Kids}}

BranchNodes ==
  {Chunk(tx, vout, outs, children, Ours, DOMAIN children = {}, TRUE):
     tx \in {Root, t1, t2}, vout \in {0, 1},
     outs \in {<<Out(1, Ours)>>, <<Out(2, Ours)>>, <<Out(1, Ours), Out(1, Ours)>>},
     children \in {<<>>} \cup {Only(v, c): v \in {0, 1, 2}, c \in {t1, t2}}
                   \cup {Pair(c, d): c, d \in {t1, t2, "sibling"}}}
  \cup {Chunk(Root, 0, <<Out(2, Ours)>>, <<>>, Ours, TRUE, FALSE)}

\* A root and a leaf under it; key sets with our own key, or of one key at most.
KeySets == {S \in SUBSET {me, peer, op1, op2}: me \in S \/ S \in {{}, {peer}, {op1}, {op2}}}
KeyNodes ==
  {Chunk(Root, 0, <<Out(1, lock)>>, Only(0, t2), keys, FALSE, TRUE): lock, keys \in KeySets}
  \cup {Chunk(t1, 0, <<Out(1, {})>>, <<>>, keys, exact, TRUE): keys \in KeySets, exact \in BOOLEAN}

\* Two connector leaves under one root, or nearly.
ConnectorNodes ==
  {Chunk(Root, vout, outs, Pair(c, d), Ours, FALSE, TRUE):
     vout \in {0, 1},
     outs \in {<<Out(1, Ours), Out(1, Ours), Out(1, Ours)>>, <<Out(1, Ours), Out(2, Ours)>>},
     c, d \in {t1, t2, t3}}
  \cup {Chunk(tx, vout, outs, <<>>, Ours, TRUE, TRUE):
         tx \in {t1, t2, t3}, vout \in {0, 1},
         outs \in {<<Out(1, Ours)>>, <<Out(0, Ours)>>, <<Out(1, Ours), Out(1, Ours)>>}}

MCAnnounced ==
  LET Family(value, connectors, inputs, txs, nodes) ==
        [commitment |-> <<Out(value, Ours), Out(connectors, {})>>, own |-> me,
         cosigners |-> {me, peer}, inputs |-> inputs,
         sent |-> [t \in {t1, t2, t3} |-> IF t \in txs THEN nodes ELSE {}]]
  IN  [b \in {"shapes", "branches", "keys", "connectors"} |->
        CASE b = "shapes" -> Family(1, 1, 1, {t1, t2, t3}, ShapeNodes)
          [] b = "branches" -> Family(2, 2, 1, {t1, t2}, BranchNodes)
          [] b = "keys" -> Family(1, 1, 1, {t1, t2}, KeyNodes)
          [] b = "connectors" -> Family(1, 3, 2, {t1, t2, t3}, ConnectorNodes)]

-----------------------------------------------------------------------------
FeeIdle ==
  /\ stage = "quote" /\ programs = {} /\ wallet = {} /\ funding = Unfunded
  /\ paid = 0 /\ round = 0 /\ intent = [change |-> 0, fee |-> 0, remaining |-> Remaining]

RenewalInit ==
  /\ TreeInit
  /\ \/ part = "fee" /\ FeeInit /\ batch = "keys"
     \/ part = "trees" /\ FeeIdle

RenewalNext ==
  \/ part = "fee" /\ FeeNext /\ UNCHANGED <<part, treeVars>>
  \/ part = "trees" /\ TreeNext /\ UNCHANGED <<part, feeVars>>

RenewalSpec == RenewalInit /\ [][RenewalNext]_<<part, treeVars, feeVars>>

\* Transactions are interchangeable.  (The family "branches" uses two of them; the
\* permutation of a state of "keys" is no state of it, so none are merged there.)
Symmetry == Permutations({t1, t2, t3})
=============================================================================
