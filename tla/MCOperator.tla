----------------------------- MODULE MCOperator -----------------------------
(***************************************************************************)
(* The operator's two commands for TLC: `ensure`, which makes a world      *)
(* (Bootstrap), and `watch`, which keeps its trees alive (OperatorWatch).  *)
(* They never run together, as `watch` needs the manifest that ends        *)
(* `ensure`: a behaviour is of one of them.                                *)
(***************************************************************************)
EXTENDS Bootstrap, OperatorWatch

CONSTANTS whole, d1, d2

\* One deposit that suffices, two that do together.
MCAmount == [d \in {whole, d1, d2} |-> IF d = whole THEN 2 ELSE 1]
\* A shard of two trees and one of one.
MCSizes == <<2, 1>>

VARIABLE part

-----------------------------------------------------------------------------
OperatorInit ==
  /\ part \in {"ensure", "watch"} /\ EnsureInit /\ Init
  /\ part = "ensure" => ~charging

OperatorNext ==
  /\ UNCHANGED part
  /\ \/ part = "ensure" /\ EnsureNext /\ UNCHANGED vars
     \/ part = "watch" /\ Next /\ UNCHANGED ensureVars

OperatorSpec == OperatorInit /\ [][OperatorNext]_<<part, ensureVars, vars>>
=============================================================================
