---------------------------- MODULE MCBatchJoin ----------------------------
(***************************************************************************)
(* Instances of BatchJoin for TLC.                                         *)
(***************************************************************************)
EXTENDS BatchJoin

\* A branch of two nodes.
MCBranch == {"root", "leaf"}

\* What a process holds is well formed, and what a call reports has happened:
\* a renewal reported as done (src/batch.rs:721) is final and ours.
JoinIsSound == TypeOK /\ OutcomeIsTrue
=============================================================================
