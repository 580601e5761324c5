------------------------------- MODULE MCLive -------------------------------
(***************************************************************************)
(* What must eventually happen, for TLC: batches end and their intents are *)
(* cleared (BatchJoin), activations complete (Activation), journals are    *)
(* settled (ChopJournal), trees are followed to their heads (TreeSync),    *)
(* plans are carried out (Bootstrap), due trees renewed (OperatorWatch)    *)
(* and players shown (ServerRegistry).  A behaviour is of one of them, at  *)
(* smaller bounds than the safety runs use, and under the fairness of that *)
(* one alone.                                                              *)
(***************************************************************************)
EXTENDS BatchJoin, Sequences

CONSTANTS j1, j2, d1, t1, t2, whole, h1

VARIABLES
  part,
  playerPc, playerMem, playerDisk, playerTries, playerInflight, arrived, lost, playerAccepted,
  playerFinal, shown, spent,
  stage, mode, polls, pending, journal, view, requests, chain, marked, listed, swept,
  phase, only, goal, attempts, cur, since, heads, viewport, spends, marksUpTo, listsUpTo,
  sweptTrees,
  manifest, planFile, bootPc, plan, deployed, spentOut, at, pos, bootInflight, bootAccepted,
  bootFinal, bootListed, bootMarked, chopped, faults,
  now, watchChain, seen, gap, detail, banned, charging, coin, coinSeen, fees, watchQueue, wave, met,
  serverNow, ledger, registry, serverDisk, lastAction, handler, writer, refresh, cursor,
  renewal, signed, acked, serverFaults, crashes

playerVars == <<
  playerPc, playerMem, playerDisk, playerTries, playerInflight, arrived, lost, playerAccepted,
  playerFinal, shown, spent>>
chopVars == <<
  stage, mode, polls, pending, journal, view, requests, chain, marked, listed, swept>>
syncVars == <<
  phase, only, goal, attempts, cur, since, heads, viewport, spends, marksUpTo, listsUpTo,
  sweptTrees>>
bootVars == <<
  manifest, planFile, bootPc, plan, deployed, spentOut, at, pos, bootInflight, bootAccepted,
  bootFinal, bootListed, bootMarked, chopped, faults>>
watchVars == <<
  now, watchChain, seen, gap, detail, banned, charging, coin, coinSeen, fees, watchQueue, wave, met>>
serverVars == <<
  serverNow, ledger, registry, serverDisk, lastAction, handler, writer, refresh, cursor,
  renewal, signed, acked, serverFaults, crashes>>
all == <<part, vars, playerVars, chopVars, syncVars, bootVars, watchVars, serverVars>>

Timed == INSTANCE BatchJoin WITH
  Joiner <- {j1}, Tree <- {"root", "leaf"}, Inputs <- 2, MaxGraphNodes <- 2,
  FundingRemaining <- 2, Lifetimes <- {1, 2}
Player == INSTANCE Activation WITH
  Deposit <- {d1}, FinalizeAttempts <- 2, pc <- playerPc, mem <- playerMem, disk <- playerDisk,
  tries <- playerTries, inflight <- playerInflight, accepted <- playerAccepted, final <-
  playerFinal
Chop == INSTANCE ChopJournal WITH MaxPlayer <- 1, MaxTree <- 1, ResumeAttempts <- 1
Sync == INSTANCE TreeSync WITH
  Tree <- {t1, t2}, MaxSpends <- 1, MaxBatch <- 1, IndexAttempts <- 2, Absent <- None
Ensure == INSTANCE Bootstrap WITH
  Deposits <- {whole}, Amount <- [d \in {whole} |-> 2], Needed <- 2, Sizes <- <<1, 1>>, Repeats
  <- TRUE, MaxFaults <- 1, MaxChops <- 1, pc <- bootPc, inflight <- bootInflight, accepted <-
  bootAccepted, final <- bootFinal, listed <- bootListed, marked <- bootMarked
Watch == INSTANCE OperatorWatch WITH
  Trees <- {1, 2}, Broken <- {1}, Hidden <- {1}, Concurrency <- 1, Policies <- {FALSE},
  MaxCoins <- 0, BatchLife <- 4, LifeLeft <- 3, MinMargin <- 3, MaxMargin <- 6,
  ExpiryMargin <- 1, MaxTime <- 2, MaxOutputs <- 3, chain <- watchChain, queue <- watchQueue
Server == INSTANCE ServerRegistry WITH
  Players <- {1, 2}, Handlers <- {h1}, Signatures <- {"s1"}, MaxPlayers <- 2, ClockSkew <- 0,
  Life <- 2, Margin <- 2, BatchSize <- 1, CursorWrap <- 2, MaxNow <- 1, MaxVersion <- 2,
  MaxSigned <- 0, MaxFaults <- 1, MaxCrashes <- 0, now <- serverNow, disk <- serverDisk,
  faults <- serverFaults

ASSUME LiveAssumption ==
  /\ Timed!BatchJoinAssumption /\ Player!ActivationAssumption /\ Chop!ChopJournalAssumption
  /\ Sync!TreeSyncAssumption /\ Ensure!BootstrapAssumption /\ Watch!WatchAssumption
  /\ Server!RegistryAssumption

-----------------------------------------------------------------------------
\* The two families of BatchJoin share their variables; a join sets them up.
LiveInit ==
  /\ part \in {"timers", "intents", "activation", "chop", "sync", "ensure", "watch", "server"}
  /\ Init /\ Player!Init /\ Chop!ChopInit /\ Sync!SyncInit /\ Ensure!EnsureInit /\ Watch!Init
  /\ Server!Init

LiveNext ==
  /\ UNCHANGED part
  /\ \/ /\ part = "timers" /\ Timed!Next
        /\ UNCHANGED <<playerVars, chopVars, syncVars, bootVars, watchVars, serverVars>>
     \/ /\ part = "intents" /\ Next
        /\ UNCHANGED <<playerVars, chopVars, syncVars, bootVars, watchVars, serverVars>>
     \/ /\ part = "activation" /\ Player!Next
        /\ UNCHANGED <<vars, chopVars, syncVars, bootVars, watchVars, serverVars>>
     \/ /\ part = "chop" /\ Chop!ChopNext
        /\ UNCHANGED <<vars, playerVars, syncVars, bootVars, watchVars, serverVars>>
     \/ /\ part = "sync" /\ Sync!SyncNext
        /\ UNCHANGED <<vars, playerVars, chopVars, bootVars, watchVars, serverVars>>
     \/ /\ part = "ensure" /\ Ensure!EnsureNext
        /\ UNCHANGED <<vars, playerVars, chopVars, syncVars, watchVars, serverVars>>
     \/ /\ part = "watch" /\ Watch!Next
        /\ UNCHANGED <<vars, playerVars, chopVars, syncVars, bootVars, serverVars>>
     \/ /\ part = "server" /\ Server!Next
        /\ UNCHANGED <<vars, playerVars, chopVars, syncVars, bootVars, watchVars>>

LiveSpec == LiveInit /\ [][LiveNext]_all

-----------------------------------------------------------------------------
\* However arkd and the emulator hang (src/batch.rs:442), a renewal returns, and an
\* intent that a lost answer or a dead process left behind is cleared by a later one.
JoinsSettle ==
  /\ part = "timers" => (Timed!Timers => Timed!JoinsEnd)
  /\ part = "intents" => (Timers /\ Persistence => OrphansAreCleared)

\* However often answers are lost and pages closed (src/web_app.rs:1491), an activation
\* completes, a journaled swing is settled or found dead, and a tree in sight is shown
\* at its head.
ClientSettles ==
  /\ part = "activation" => (Player!Fairness => Player!ActivationCompletes)
  /\ part = "chop" => (Chop!ChopFairness => Chop!JournalIsSettled)
  /\ part = "sync" => (Sync!SyncFairness => Sync!SyncConverges)

\* A plan once written becomes a published world (src/operator.rs:1154), given that arkd
\* answers a transaction it has cosigned before; and a due tree is renewed or moved in
\* time, whatever batches and the indexer do to other trees (src/operator.rs:1387), given
\* that renewals meet arkd's bans finitely often.
OperatorFinishes ==
  /\ part = "ensure" => (Ensure!EnsureFairness => Ensure!PlansAreCarriedOut)
  /\ part = "watch" => (Watch!Fairness => Watch!DueTreesAreRenewed)

\* The refresh worker gets round to every registered player, in whatever order they
\* registered (src/server.rs:1214).
ServerComesRound == part = "server" => (Server!Fairness => Server!CacheCatchesUp)
=============================================================================
