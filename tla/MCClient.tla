------------------------------ MODULE MCClient ------------------------------
(***************************************************************************)
(* The browser's side for TLC: creating a player (Activation), submitting  *)
(* a swing (ChopJournal), following the trees (TreeSync) and reading the   *)
(* indexer (IndexerPages).  The four are about different data of the page  *)
(* and share no state: a behaviour is of one of them, named by part, while *)
(* the others stay where they begin.                                       *)
(*                                                                         *)
(* Swings and trees are explored with a long chain of one kind beside a    *)
(* short one of the other, both ways round.  The indexer answers anything  *)
(* ("hostile"), only adds to its list ("growing"), or drops outputs from   *)
(* it as well ("shifting").                                                *)
(***************************************************************************)
EXTENDS Activation, ChopJournal, TreeSync, TLC

CONSTANTS x1, x2, x3, x4

MCItem == {x1, x2, x3, x4}

VARIABLES
  part,
  list, stable, index, visited, records, outcome    \* IndexerPages

pageVars == <<list, stable, index, visited, records, outcome>>
all == <<part, vars, chopVars, syncVars, pageVars>>

Players == INSTANCE ChopJournal WITH MaxTree <- 1
Trees == INSTANCE ChopJournal WITH MaxPlayer <- 1
Swings == INSTANCE TreeSync WITH MaxBatch <- 1
Batches == INSTANCE TreeSync WITH MaxSpends <- 1
Hostile ==
  INSTANCE IndexerPages WITH Item <- {x1, x2}, PageSize <- 1, MaxPages <- 3, MaxRecords <- 3,
    Honest <- FALSE, Shrinks <- FALSE, MaxCursor <- 4
Growing ==
  INSTANCE IndexerPages WITH Item <- MCItem, PageSize <- 2, MaxPages <- 3, MaxRecords <- 4,
    Honest <- TRUE, Shrinks <- FALSE, MaxCursor <- 4
Shifting ==
  INSTANCE IndexerPages WITH Item <- MCItem, PageSize <- 2, MaxPages <- 3, MaxRecords <- 4,
    Honest <- TRUE, Shrinks <- TRUE, MaxCursor <- 4

ASSUME ClientAssumption ==
  /\ Players!ChopJournalAssumption /\ Trees!ChopJournalAssumption
  /\ Swings!TreeSyncAssumption /\ Batches!TreeSyncAssumption
  /\ Hostile!IndexerPagesAssumption /\ Growing!IndexerPagesAssumption
  /\ Shifting!IndexerPagesAssumption

-----------------------------------------------------------------------------
NoPages ==
  /\ list = <<>> /\ stable = {} /\ index = 1 /\ visited = {1} /\ records = <<>>
  /\ outcome = "done"

ClientInit ==
  /\ Init /\ ChopInit /\ SyncInit
  /\ \/ part \in {"activation", "players", "trees", "swings", "batches"} /\ NoPages
     \/ part = "hostile" /\ Hostile!Init
     \/ part = "growing" /\ Growing!Init
     \/ part = "shifting" /\ Shifting!Init

ClientNext ==
  /\ UNCHANGED part
  /\ \/ /\ part = "activation" /\ Next
        /\ UNCHANGED <<chopVars, syncVars, pageVars>>
     \/ /\ \/ part = "players" /\ Players!ChopNext
           \/ part = "trees" /\ Trees!ChopNext
        /\ UNCHANGED <<vars, syncVars, pageVars>>
     \/ /\ \/ part = "swings" /\ Swings!SyncNext
           \/ part = "batches" /\ Batches!SyncNext
        /\ UNCHANGED <<vars, chopVars, pageVars>>
     \/ /\ \/ part = "hostile" /\ Hostile!Next
           \/ part = "growing" /\ Growing!Next
           \/ part = "shifting" /\ Shifting!Next
        /\ UNCHANGED <<vars, chopVars, syncVars>>

ClientSpec == ClientInit /\ [][ClientNext]_all

-----------------------------------------------------------------------------
\* What is read page by page (src/arkade.rs) counts no output twice, whatever moves
\* between two requests, misses none while the list only grows, and ends within
\* the limits whatever the indexer answers.
ReadingIsExact ==
  /\ part = "hostile" => Hostile!TypeOK
  /\ part = "growing" => Growing!NothingIsMissed
  /\ part = "shifting" => Shifting!NoOutputTwice

\* Trees are interchangeable, and deposits are.
Symmetry == Permutations(Tree)
=============================================================================
