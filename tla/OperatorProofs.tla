---------------------------- MODULE OperatorProofs ----------------------------
(***************************************************************************)
(* The operator.  `watch`: a renewal is of a tree that is due and returns   *)
(* one that is not, a pass meets a ban in one wave, and pays with no output *)
(* of the wallet twice at a time unless arkd began to charge after it       *)
(* connected, for any trees, lifetimes of batches and margins, however far  *)
(* the indexer lags.  `ensure`: one world comes of it, for any deposits,    *)
(* shards and sizes, wherever it dies.                                      *)
(***************************************************************************)
EXTENDS Bootstrap, OperatorWatch, FiniteSetTheorems, SequenceTheorems, TLAPS

(* An output that was seen due is due when it is renewed: outputs are only *)
(* added to a tree, and time only makes them more due.                     *)
IsDue(t, i) == i \in 1..Len(chain[t]) /\ RolloverDue(chain[t][i])

LedgerInv ==
  /\ now \in 0..MaxTime
  /\ chain \in [Trees -> Seq(Output)]
  /\ \A t \in Trees: Len(chain[t]) \in 1..MaxOutputs
  /\ {banned, charging} \subseteq BOOLEAN
  /\ coin \in Nat \ {0}

IndexerInv ==
  /\ seen \in [Trees -> Nat] /\ gap \in [Trees -> BOOLEAN]
  /\ detail \in [Trees -> Details]
  /\ coinSeen \in 0..coin
  /\ \A t \in Trees: seen[t] \in 1..Len(chain[t])
  /\ \A t \in Trees: gap[t] => seen[t] < Len(chain[t])

QueueInv ==
  /\ queue \in Seq([tree: Trees, out: Nat])
  /\ \A i \in 1..Len(queue): IsDue(queue[i].tree, queue[i].out)

WaveInv ==
  /\ wave \in [Trees -> Renewal]
  /\ \A t \in Trees: wave[t].phase # "idle" => IsDue(t, wave[t].out)

(* A tree waits in the queue once, and not while it is in the wave.  What  *)
(* the wave has under way and the bans it met are one wave together.       *)
PassInv ==
  /\ fees \in BOOLEAN /\ met \in Nat
  /\ \A i \in 1..Len(queue): wave[queue[i].tree] = Idle
  /\ \A i, j \in 1..Len(queue): i # j => queue[i].tree # queue[j].tree
  /\ \A t \in Trees: wave[t].phase = "idle" => wave[t] = Idle
  /\ met + Cardinality(Running) <= WaveSize

WatchInv == LedgerInv /\ IndexerInv /\ QueueInv /\ WaveInv /\ PassInv

LEMMA Bounds ==
  /\ MaxTime \in Nat /\ LifeLeft \in 0..BatchLife /\ MaxCoins \in Nat /\ MaxOutputs \in Nat \ {0}
  /\ BatchLife \in Nat /\ Concurrency \in Nat \ {0}
BY WatchAssumption

LEMMA OutputNumbers ==
  ASSUME NEW o \in Output
  PROVE  /\ o.created \in 0..MaxTime /\ o.created \in Nat
         /\ o.expires \in 0..(MaxTime + BatchLife) /\ o.expires \in Nat /\ o.stump \in BOOLEAN
BY Bounds DEF Output

LEMMA MarginIsWithinBatch ==
  ASSUME NEW o \in Output, o.expires = o.created + BatchLife
  PROVE  RolloverMargin(o) \in Nat /\ RolloverMargin(o) =< BatchLife
<1>1. o.expires - o.created = BatchLife /\ BatchLife \in Nat
  BY OutputNumbers, WatchAssumption
<1>2. BatchLife \div 2 \in Nat /\ BatchLife \div 2 =< BatchLife
  BY <1>1
<1> QED
  BY <1>1, <1>2, WatchAssumption DEF RolloverMargin, Clamp

LEMMA MarginIsNat ==
  ASSUME NEW o \in Output
  PROVE  RolloverMargin(o) \in Int
<1>1. (o.expires - o.created) \div 2 \in Int
  BY OutputNumbers
<1> QED
  BY <1>1, WatchAssumption DEF RolloverMargin, Clamp

-----------------------------------------------------------------------------
LEMMA WatchStarts == Init => WatchInv
<1> SUFFICES ASSUME Init PROVE WatchInv
  OBVIOUS
<1>1. LedgerInv
  <2> DEFINE o == [created |-> 0, expires |-> LifeLeft, stump |-> FALSE]
  <2>1. o \in Output
    BY Bounds DEF Output
  <2>2. chain = [t \in Trees |-> <<o>>]
    BY DEF Init
  <2> HIDE DEF o
  <2>3. <<o>> \in Seq(Output) /\ Len(<<o>>) = 1
    BY <2>1
  <2>4. chain \in [Trees -> Seq(Output)]
    BY <2>2, <2>3
  <2>5. \A t \in Trees: Len(chain[t]) \in 1..MaxOutputs
    <3>1. 1 \in 1..MaxOutputs
      BY Bounds
    <3> QED
      BY <2>2, <2>3, <3>1
  <2>6. now \in 0..MaxTime /\ {banned, charging} \subseteq BOOLEAN /\ coin \in Nat \ {0}
    <3>1. now = 0 /\ coin = 1
      BY DEF Init
    <3>2. {banned, charging} \subseteq BOOLEAN
      BY WatchAssumption DEF Init
    <3> QED
      BY <3>1, <3>2, Bounds
  <2> QED
    BY <2>4, <2>5, <2>6 DEF LedgerInv
<1>2. IndexerInv
  BY DEF Init, IndexerInv, Details
<1>3. QueueInv
  BY DEF Init, QueueInv
<1>4. WaveInv
  BY WatchAssumption DEF Init, WaveInv, Renewal, Idle
<1>5. PassInv
  <2>1. Running = {}
    BY DEF Init, Idle, Running
  <2>2. met + Cardinality(Running) <= WaveSize
    BY <2>1, FS_EmptySet, Bounds DEF Init, WaveSize
  <2>3. fees \in BOOLEAN
    BY DEF Init
  <2>4. met = 0 /\ queue = <<>> /\ \A t \in Trees: wave[t] = Idle /\ wave[t].coin = 0
    BY DEF Init, Idle
  <2> QED
    BY <2>2, <2>3, <2>4 DEF PassInv
<1> QED
  BY <1>1, <1>2, <1>3, <1>4, <1>5 DEF WatchInv

LEMMA DueKept ==
  ASSUME WatchInv, now' \in Nat, now' >= now, chain' \in [Trees -> Seq(Output)],
         \A t \in Trees: /\ Len(chain'[t]) >= Len(chain[t])
                         /\ \A i \in 1..Len(chain[t]): chain'[t][i] = chain[t][i]
  PROVE  \A t \in Trees, i \in Nat: IsDue(t, i) => IsDue(t, i)'
<1> SUFFICES ASSUME NEW t \in Trees, NEW i \in Nat, IsDue(t, i) PROVE IsDue(t, i)'
  OBVIOUS
<1>1. /\ i \in 1..Len(chain[t]) /\ i \in 1..Len(chain'[t]) /\ chain'[t][i] = chain[t][i]
      /\ chain[t][i] \in Output
  BY DEF WatchInv, LedgerInv, IsDue
<1>2. RolloverMargin(chain[t][i]) \in Int
  BY <1>1, MarginIsNat
<1>3. RolloverMargin(chain[t][i])' = RolloverMargin(chain[t][i])
  BY <1>1 DEF RolloverMargin
<1>4. now \in Nat /\ chain[t][i].expires \in Nat
  BY <1>1, OutputNumbers DEF WatchInv, LedgerInv
<1> QED
  BY <1>1, <1>2, <1>3, <1>4 DEF IsDue, RolloverDue

\* A step of the indexer or the watcher leaves the trees, so no renewal happens.
LEMMA NoTreeChanges ==
  ASSUME UNCHANGED chain
  PROVE  RenewalStep
BY DEF RenewalStep, Current

\* The trees and the clock as they are, what was due is due.
LEMMA SameDue ==
  ASSUME UNCHANGED <<now, chain>>
  PROVE  \A t, i: IsDue(t, i)' <=> IsDue(t, i)
BY DEF IsDue, RolloverDue, RolloverMargin

\* What holds of every entry of the queue.
LEMMA QueueEntries ==
  ASSUME WatchInv
  PROVE  /\ queue \in Seq([tree: Trees, out: Nat])
         /\ \A i \in 1..Len(queue): /\ queue[i].tree \in Trees /\ queue[i].out \in Nat
                                    /\ IsDue(queue[i].tree, queue[i].out)
<1>1. queue \in Seq([tree: Trees, out: Nat])
  BY DEF WatchInv, QueueInv
<1>2. \A i \in 1..Len(queue): queue[i] \in [tree: Trees, out: Nat]
  BY <1>1, ElementOfSeq
<1> QED
  BY <1>1, <1>2 DEF WatchInv, QueueInv

\* The renewals under way are finitely many, and at most as many as a wave has.
LEMMA RunningIsFinite ==
  ASSUME WatchInv
  PROVE  /\ Running \subseteq Trees /\ IsFiniteSet(Running) /\ Cardinality(Running) \in Nat
         /\ WaveSize \in Nat \ {0}
         /\ \A t \in Trees: t \in Running <=> wave[t] # Idle
<1>1. Running \subseteq Trees /\ IsFiniteSet(Running) /\ Cardinality(Running) \in Nat
  BY WatchAssumption, FS_Subset, FS_CardinalityType DEF Running
<1>2. WaveSize \in Nat \ {0}
  BY WatchAssumption DEF WaveSize
<1> QED
  BY <1>1, <1>2 DEF Running, WatchInv, PassInv, Idle

LEMMA IdleIsRenewal == Idle \in Renewal
BY Bounds DEF Idle, Renewal

\* The pass stays as it is.
LEMMA SamePass ==
  ASSUME WatchInv, UNCHANGED watcher
  PROVE  PassInv'
<1>1. Running' = Running /\ WaveSize' = WaveSize
  BY DEF watcher, Running, WaveSize
<1> QED
  BY <1>1 DEF watcher, WatchInv, PassInv

\* One renewal moves on, or ends with a ban or without one.
LEMMA PassMoves ==
  ASSUME WatchInv, UNCHANGED <<fees, queue>>, NEW t \in Trees, NEW r \in Renewal,
         wave[t].phase # "idle", wave' = [wave EXCEPT ![t] = r],
         r.phase = "idle" => r = Idle,
         met' = met \/ (met' = met + 1 /\ r = Idle)
  PROVE  PassInv'
<1>1. \A u \in Trees: wave'[u] = IF u = t THEN r ELSE wave[u]
  BY DEF WatchInv, WaveInv
<1>2. t \in Running /\ Idle.phase = "idle"
  BY DEF Running, Idle
<1>3. \A i \in 1..Len(queue): queue[i].tree \in Trees /\ queue[i].tree # t
  BY <1>2, QueueEntries DEF WatchInv, PassInv
<1>4. met' + Cardinality(Running') <= met + Cardinality(Running)
  <2>1. Running' \subseteq Running /\ (r = Idle => Running' = Running \ {t})
    BY <1>1, <1>2 DEF Running
  <2>2. Cardinality(Running') <= Cardinality(Running) /\ Cardinality(Running') \in Nat
    BY <2>1, RunningIsFinite, FS_Subset, FS_CardinalityType
  <2>3. r = Idle => Cardinality(Running') = Cardinality(Running) - 1
    BY <1>2, <2>1, RunningIsFinite, FS_RemoveElement
  <2> QED
    BY <2>2, <2>3, RunningIsFinite DEF WatchInv, PassInv
<1>5. met' + Cardinality(Running') <= WaveSize'
  <2>1. WaveSize' = WaveSize /\ Cardinality(Running') \in Nat
    <3>1. Running' \subseteq Running
      BY <1>1, <1>2 DEF Running
    <3> QED
      BY <3>1, RunningIsFinite, FS_Subset, FS_CardinalityType DEF WaveSize
  <2> QED
    BY <1>4, <2>1, RunningIsFinite DEF WatchInv, PassInv
<1> QED
  BY <1>1, <1>3, <1>5 DEF WatchInv, PassInv

\* n numbers give at most n values.
LEMMA AtMost ==
  ASSUME NEW n \in Nat, NEW f, NEW T, f = [i \in 1..n |-> f[i]], T = {f[i]: i \in 1..n}
  PROVE  IsFiniteSet(T) /\ Cardinality(T) \in Nat /\ Cardinality(T) <= n
<1>1. f \in Surjection(1..n, T)
  BY DEF Surjection
<1>2. IsFiniteSet(1..n) /\ Cardinality(1..n) = n
  BY FS_Interval
<1> QED
  BY <1>1, <1>2, FS_Surjection, FS_CardinalityType

-----------------------------------------------------------------------------
LEMMA StartPassStep ==
  ASSUME WatchInv, StartPass
  PROVE  WatchInv' /\ RenewalStep
<1>1. RenewalStep
  BY NoTreeChanges DEF StartPass, ledger
<1>2. PICK order \in [1..Cardinality(Candidates) -> Candidates]:
        /\ \A i, j \in DOMAIN order: i < j => Earlier(order[i], order[j])
        /\ queue' = [i \in DOMAIN order |-> [tree |-> order[i], out |-> seen[order[i]]]]
  BY DEF StartPass
<1>3. Cardinality(Candidates) \in Nat
  BY WatchAssumption, FS_Subset, FS_CardinalityType DEF Candidates, Found
<1>4. \A t \in Candidates: t \in Trees /\ seen[t] \in Nat /\ IsDue(t, seen[t])
  BY DEF WatchInv, IndexerInv, Candidates, Found, IsDue
<1>5. queue' \in Seq([tree: Trees, out: Nat])
  <2> DEFINE N == Cardinality(Candidates)
             entry(t) == [tree |-> t, out |-> seen[t]]
  <2>1. queue' = [i \in 1..N |-> entry(order[i])] /\ N \in Nat
    BY <1>2, <1>3
  <2>2. \A i \in 1..N: entry(order[i]) \in [tree: Trees, out: Nat]
    BY <1>4
  <2> HIDE DEF N, entry
  <2> QED
    BY <2>1, <2>2
<1>6. Len(queue') = Cardinality(Candidates)
  BY <1>2, <1>3
<1>7. \A i \in 1..Len(queue'): IsDue(queue'[i].tree, queue'[i].out)
  BY <1>2, <1>3, <1>4, <1>6
<1>8. QueueInv'
  BY <1>5, <1>7, SameDue DEF StartPass, ledger, QueueInv
<1>9. LedgerInv' /\ IndexerInv' /\ WaveInv'
  BY SameDue DEF WatchInv, LedgerInv, IndexerInv, WaveInv, StartPass, ledger, indexer
<1>10. PassInv'
  <2>1. /\ Running = {} /\ wave' = wave /\ met' = 0 /\ fees' = charging
    BY DEF StartPass
  <2>2. \A t \in Trees: wave'[t] = Idle
    BY <2>1, RunningIsFinite
  <2>3. \A i \in 1..Len(queue'): queue'[i].tree \in Trees /\ queue'[i].tree = order[i]
    BY <1>2, <1>3, <1>4, <1>6
  <2>4. \A i, j \in 1..Len(queue'): i # j => queue'[i].tree # queue'[j].tree
    <3> SUFFICES ASSUME NEW i \in 1..Len(queue'), NEW j \in 1..Len(queue'), i < j
                 PROVE  order[i] # order[j]
      BY <1>3, <1>6, <2>3
    <3>1. Earlier(order[i], order[j])
      BY <1>2, <1>3, <1>6
    <3>2. order[i] \in Trees /\ chain[order[i]][seen[order[i]]] \in Output
      BY <2>3 DEF WatchInv, LedgerInv, IndexerInv
    <3>3. chain[order[i]][seen[order[i]]].expires \in Nat /\ order[i] \in Nat
      BY <3>2, OutputNumbers, WatchAssumption
    <3> QED
      BY <3>1, <3>3 DEF Earlier
  <2>5. Running' = {} /\ Cardinality(Running') = 0 /\ fees' \in BOOLEAN
    BY <2>1, FS_EmptySet DEF Running, WatchInv, LedgerInv
  <2>6. WaveSize' \in Nat
    BY WatchAssumption DEF WaveSize
  <2> QED
    BY <2>1, <2>2, <2>3, <2>4, <2>5, <2>6 DEF PassInv, Idle
<1> QED
  BY <1>1, <1>8, <1>9, <1>10 DEF WatchInv

LEMMA StartWaveStep ==
  ASSUME WatchInv, StartWave
  PROVE  WatchInv' /\ RenewalStep
<1> DEFINE n == IF Len(queue) < WaveSize THEN Len(queue) ELSE WaveSize
           taken == {queue[i]: i \in 1..n}
           of(t) == CHOOSE c \in taken: c.tree = t
<1>1. RenewalStep
  BY NoTreeChanges DEF StartWave, ledger
<1>2. LedgerInv' /\ IndexerInv'
  BY DEF WatchInv, LedgerInv, IndexerInv, StartWave, ledger, indexer
<1>3. n \in Nat /\ n =< Len(queue)
  BY WatchAssumption DEF WaveSize, WatchInv, QueueInv
<1>4. \A c \in taken: c.tree \in Trees /\ c.out \in Nat /\ IsDue(c.tree, c.out)
  BY <1>3, QueueEntries DEF WatchInv, QueueInv
<1>5. \A t: (\E c \in taken: c.tree = t) => of(t) \in taken /\ of(t).tree = t
  OBVIOUS
<1>6. CASE /\ met = 0
           /\ wave' = [t \in Trees |->
                IF \E c \in taken: c.tree = t
                THEN [phase |-> "chosen", out |-> of(t).out, coin |-> 0]
                ELSE Idle]
           /\ queue' = SubSeq(queue, n + 1, Len(queue))
  <2> DEFINE found(t) == \E c \in taken: c.tree = t
             chosen(t) == [phase |-> "chosen", out |-> of(t).out, coin |-> 0]
  <2>1. \A t \in Trees: found(t) => of(t).out \in Nat /\ IsDue(t, of(t).out)
    BY <1>4, <1>5
  <2>2. wave' = [t \in Trees |-> IF found(t) THEN chosen(t) ELSE Idle]
    BY <1>6
  <2>3. \A t \in Trees: /\ wave'[t] \in Renewal
                        /\ wave'[t].phase # "idle" => IsDue(t, wave'[t].out)
    <3> SUFFICES ASSUME NEW t \in Trees
                 PROVE  /\ wave'[t] \in Renewal
                        /\ wave'[t].phase # "idle" => IsDue(t, wave'[t].out)
      OBVIOUS
    <3> DEFINE o == of(t).out
    <3>1. chosen(t) = [phase |-> "chosen", out |-> o, coin |-> 0]
      OBVIOUS
    <3>2. wave'[t] = IF found(t) THEN chosen(t) ELSE Idle
      BY <2>2
    <3>3. found(t) => o \in 0..MaxOutputs /\ IsDue(t, o)
      <4>1. found(t) => o \in Nat /\ IsDue(t, o)
        BY <2>1
      <4> HIDE DEF found, o
      <4> QED
        BY <4>1, Bounds DEF WatchInv, LedgerInv, IsDue
    <3> HIDE DEF found, chosen, o
    <3>4. CASE found(t)
      BY <3>1, <3>2, <3>3, <3>4 DEF Renewal
    <3>5. CASE ~found(t)
      BY <3>2, <3>5, IdleIsRenewal DEF Idle
    <3> QED
      BY <3>4, <3>5
  <2>4. wave' \in [Trees -> Renewal]
    <3> HIDE DEF found, chosen
    <3> QED
      BY <2>2, <2>3
  <2>5. WaveInv'
    BY <2>3, <2>4, SameDue DEF WaveInv, StartWave, ledger
  <2>6. queue \in Seq([tree: Trees, out: Nat]) /\ Len(queue) \in Nat
    BY QueueEntries
  <2>7. queue' = SubSeq(queue, n + 1, Len(queue))
    BY <1>6
  <2> HIDE DEF n
  <2>8. /\ queue' \in Seq([tree: Trees, out: Nat])
        /\ Len(queue') = Len(queue) - n
        /\ \A i \in 1..Len(queue'): queue'[i] = queue[n + i]
    <3>1. \A i \in (n + 1)..Len(queue): queue[i] \in [tree: Trees, out: Nat]
      <4>1. \A i \in 1..Len(queue): queue[i] \in [tree: Trees, out: Nat]
        BY <2>6, ElementOfSeq
      <4> QED
        BY <1>3, <2>6, <4>1
    <3>2. /\ queue' \in Seq([tree: Trees, out: Nat])
          /\ Len(queue') = IF n + 1 =< Len(queue) THEN Len(queue) - (n + 1) + 1 ELSE 0
          /\ \A i \in 1..(Len(queue) - (n + 1) + 1): queue'[i] = queue[n + 1 + i - 1]
      BY <1>3, <2>6, <2>7, <3>1, SubSeqProperties
    <3>3. \A i \in 1..(Len(queue) - n): n + 1 + i - 1 = n + i
      BY <1>3, <2>6
    <3>4. Len(queue') = Len(queue) - n /\ Len(queue) - (n + 1) + 1 = Len(queue) - n
      BY <1>3, <2>6, <3>2
    <3> QED
      BY <3>2, <3>3, <3>4
  <2>9. \A i \in 1..Len(queue'): IsDue(queue'[i].tree, queue'[i].out)
    <3> SUFFICES ASSUME NEW i \in 1..Len(queue') PROVE IsDue(queue'[i].tree, queue'[i].out)
      OBVIOUS
    <3>1. n + i \in 1..Len(queue)
      BY <1>3, <2>6, <2>8
    <3> QED
      BY <2>8, <3>1, QueueEntries
  <2>10. QueueInv'
    BY <2>8, <2>9, SameDue DEF QueueInv, StartWave, ledger
  <2>11. PassInv'
    <3>1. fees' = fees /\ met' = 0 /\ WaveSize' = WaveSize /\ WaveSize \in Nat \ {0}
      BY <1>6, RunningIsFinite DEF StartWave, WaveSize
    <3>2. \A t \in Trees: found(t) <=> \E i \in 1..n: queue[i].tree = t
      OBVIOUS
    <3>3. \A t \in Trees: /\ found(t) => wave'[t].phase = "chosen" /\ wave'[t].coin = 0
                          /\ ~found(t) => wave'[t] = Idle
      <4> HIDE DEF found
      <4> QED
        BY <2>2
    <3> HIDE DEF found, taken
    <3>4. ASSUME NEW i \in 1..Len(queue')
          PROVE  /\ n + i \in 1..Len(queue) /\ queue'[i] = queue[n + i]
                 /\ queue'[i].tree \in Trees /\ ~found(queue'[i].tree)
      <4>1. n + i \in 1..Len(queue) /\ queue'[i] = queue[n + i]
        BY <1>3, <2>6, <2>8
      <4>2. queue'[i].tree \in Trees
        BY <4>1, QueueEntries
      <4>3. \A j \in 1..n: j \in 1..Len(queue) /\ j # n + i
        BY <1>3, <2>6
      <4> QED
        BY <3>2, <4>1, <4>2, <4>3 DEF WatchInv, PassInv
    <3>5. ASSUME NEW i \in 1..Len(queue'), NEW j \in 1..Len(queue'), i # j
          PROVE  queue'[i].tree # queue'[j].tree
      <4>1. n + i # n + j
        BY <1>3, <2>6, <2>8, <3>5
      <4>2. n + i \in 1..Len(queue) /\ n + j \in 1..Len(queue)
        BY <3>4
      <4>3. queue[n + i].tree # queue[n + j].tree
        BY <4>1, <4>2 DEF WatchInv, PassInv
      <4>4. queue'[i] = queue[n + i] /\ queue'[j] = queue[n + j]
        BY <3>4
      <4> QED
        BY <4>3, <4>4
    <3>6. Cardinality(Running') \in Nat /\ Cardinality(Running') <= WaveSize
      <4> DEFINE f == [i \in 1..n |-> queue[i].tree]
                 T == {f[i]: i \in 1..n}
      <4>1. IsFiniteSet(T) /\ Cardinality(T) \in Nat /\ Cardinality(T) <= n
        BY <1>3, AtMost
      <4>2. Running' \subseteq T
        BY <3>2, <3>3 DEF Running, Idle
      <4>3. Cardinality(Running') \in Nat /\ Cardinality(Running') <= Cardinality(T)
        BY <4>1, <4>2, FS_Subset, FS_CardinalityType
      <4>4. n <= WaveSize
        BY <2>6, <3>1 DEF n
      <4> HIDE DEF T
      <4> QED
        BY <1>3, <3>1, <4>1, <4>3, <4>4
    <3>7. \A t \in Trees: /\ wave'[t].phase = "idle" => wave'[t] = Idle
                          /\ wave'[t].coin = 0
      BY <3>3 DEF Idle
    <3>8. \A i \in 1..Len(queue'): wave'[queue'[i].tree] = Idle
      BY <3>3, <3>4
    <3>9. met' + Cardinality(Running') <= WaveSize'
      BY <3>1, <3>6
    <3>10. fees' \in BOOLEAN
      BY <3>1 DEF WatchInv, PassInv
    <3> QED
      BY <3>1, <3>5, <3>7, <3>8, <3>9, <3>10 DEF PassInv
  <2> QED
    BY <1>1, <1>2, <2>5, <2>10, <2>11 DEF WatchInv
<1>7. CASE queue' = <<>> /\ UNCHANGED wave
  <2>1. QueueInv'
    BY <1>7 DEF QueueInv
  <2>2. WaveInv'
    BY <1>7, SameDue DEF WatchInv, WaveInv, StartWave, ledger
  <2>3. PassInv'
    <3>1. Running' = Running /\ WaveSize' = WaveSize
      BY <1>7 DEF StartWave, Running, WaveSize
    <3> QED
      BY <1>7, <3>1 DEF StartWave, WatchInv, PassInv
  <2> QED
    BY <1>1, <1>2, <2>1, <2>2, <2>3 DEF WatchInv
<1> QED
  BY <1>6, <1>7 DEF StartWave, MayGoOn

\* One renewal moves on, and what it was chosen for stays the same.
LEMMA WaveMoves ==
  ASSUME WatchInv, UNCHANGED <<ledger, indexer, fees, queue>>, NEW t \in Trees,
         NEW r \in Renewal, wave[t].phase # "idle", wave' = [wave EXCEPT ![t] = r],
         r = Idle \/ (r.phase # "idle" /\ r.out = wave[t].out),
         met' = met \/ (met' = met + 1 /\ r = Idle)
  PROVE  WatchInv' /\ RenewalStep
<1>1. RenewalStep
  BY NoTreeChanges DEF ledger
<1>2. LedgerInv' /\ IndexerInv' /\ QueueInv'
  BY SameDue DEF WatchInv, LedgerInv, IndexerInv, QueueInv, ledger, indexer
<1>3. \A u \in Trees: wave'[u].phase # "idle" => IsDue(u, wave'[u].out)
  BY DEF WatchInv, WaveInv, Idle
<1>4. WaveInv'
  BY <1>3, SameDue DEF WatchInv, WaveInv, ledger
<1>5. PassInv'
  BY PassMoves
<1> QED
  BY <1>1, <1>2, <1>4, <1>5 DEF WatchInv

LEMMA PrepareStep ==
  ASSUME WatchInv, NEW t \in Trees, Prepare(t)
  PROVE  WatchInv' /\ RenewalStep
<1>1. UNCHANGED <<ledger, indexer, fees, queue, met>> /\ wave[t].phase = "chosen"
  BY DEF Prepare
<1>2. CASE wave' = [wave EXCEPT ![t] = Idle]
  BY <1>1, <1>2, WaveMoves, IdleIsRenewal DEF Idle
<1>3. CASE wave' = [wave EXCEPT ![t] =
             [phase |-> "settling", out |-> @.out, coin |-> IF charging THEN coinSeen ELSE 0]]
  <2> DEFINE f == IF charging THEN coinSeen ELSE 0
             r == [phase |-> "settling", out |-> wave[t].out, coin |-> f]
  <2>1. f \in Nat
    BY DEF WatchInv, LedgerInv, IndexerInv
  <2>2. wave[t].out \in 0..MaxOutputs
    BY DEF WatchInv, WaveInv, Renewal
  <2>3. wave' = [wave EXCEPT ![t] = r]
    BY <1>3 DEF WatchInv, WaveInv
  <2> HIDE DEF f
  <2>4. r \in Renewal /\ r.phase # "idle" /\ r.out = wave[t].out
    BY <2>1, <2>2 DEF Renewal
  <2> HIDE DEF r
  <2> QED
    BY <1>1, <2>3, <2>4, WaveMoves
<1> QED
  BY <1>2, <1>3 DEF Prepare

LEMMA EndStep ==
  ASSUME WatchInv, NEW t \in Trees, Fail(t) \/ MeetBan(t)
  PROVE  WatchInv' /\ RenewalStep
<1>1. /\ UNCHANGED <<ledger, indexer, fees, queue>> /\ wave[t].phase # "idle"
      /\ wave' = [wave EXCEPT ![t] = Idle] /\ met' \in {met, met + 1}
  BY DEF Fail, MeetBan
<1> QED
  BY <1>1, WaveMoves, IdleIsRenewal

-----------------------------------------------------------------------------
\* A tree gets one more output; the rest is as it was.
LEMMA TreeGrows ==
  ASSUME WatchInv, NEW t \in Trees, NEW o \in Output,
         Len(chain[t]) < MaxOutputs, chain' = [chain EXCEPT ![t] = Append(@, o)],
         coin' \in {coin, coin + 1},
         wave' = wave \/ (wave[t].phase # "idle" /\ wave' = [wave EXCEPT ![t] = Idle]),
         UNCHANGED <<now, banned, charging, indexer, fees, queue, met>>
  PROVE  /\ WatchInv'
         /\ Current(t)' = o
         /\ \A u \in Trees \ {t}: chain'[u] = chain[u]
<1>1. chain[t] \in Seq(Output) /\ Len(chain[t]) \in Nat \ {0} /\ now \in Nat
  BY Bounds DEF WatchInv, LedgerInv
<1>2. /\ chain'[t] \in Seq(Output) /\ Len(chain'[t]) = Len(chain[t]) + 1
      /\ chain'[t][Len(chain'[t])] = o
      /\ \A i \in 1..Len(chain[t]): chain'[t][i] = chain[t][i]
  BY <1>1 DEF WatchInv, LedgerInv
<1>3. \A u \in Trees \ {t}: chain'[u] = chain[u]
  BY DEF WatchInv, LedgerInv
<1>4. chain' \in [Trees -> Seq(Output)]
  BY <1>2, <1>3 DEF WatchInv, LedgerInv
<1>5. \A u \in Trees: /\ Len(chain'[u]) \in 1..MaxOutputs /\ Len(chain'[u]) >= Len(chain[u])
                      /\ \A i \in 1..Len(chain[u]): chain'[u][i] = chain[u][i]
  BY <1>1, <1>2, <1>3, Bounds DEF WatchInv, LedgerInv
<1>6. \A u \in Trees, i \in Nat: IsDue(u, i) => IsDue(u, i)'
  BY <1>1, <1>4, <1>5, DueKept
<1>7. LedgerInv'
  BY <1>4, <1>5 DEF WatchInv, LedgerInv
<1>8. IndexerInv'
  BY <1>5, Bounds DEF WatchInv, LedgerInv, IndexerInv, indexer
<1>9. QueueInv'
  BY <1>6, QueueEntries DEF QueueInv
<1>10. WaveInv'
  <2>1. wave' \in [Trees -> Renewal]
    BY IdleIsRenewal DEF WatchInv, WaveInv
  <2>2. \A u \in Trees: wave'[u].phase # "idle" => wave'[u] = wave[u] /\ wave[u].out \in Nat
    BY Bounds DEF WatchInv, WaveInv, Renewal, Idle
  <2> QED
    BY <1>6, <2>1, <2>2 DEF WatchInv, WaveInv
<1>11. PassInv'
  BY SamePass, PassMoves, IdleIsRenewal DEF watcher, Idle
<1> QED
  BY <1>2, <1>3, <1>7, <1>8, <1>9, <1>10, <1>11 DEF WatchInv, Current

LEMMA SettleStep ==
  ASSUME WatchInv, NEW t \in Trees, Settle(t)
  PROVE  WatchInv' /\ RenewalStep
<1> DEFINE o == [created |-> now, expires |-> now + BatchLife, stump |-> FALSE]
<1>1. o \in Output /\ o.expires = o.created + BatchLife /\ now \in Nat
  BY Bounds DEF Output, WatchInv, LedgerInv
<1>2. /\ WatchInv' /\ Current(t)' = o
      /\ \A u \in Trees \ {t}: chain'[u] = chain[u]
  <2>1. /\ coin' \in {coin, coin + 1} /\ chain' = [chain EXCEPT ![t] = Append(@, o)]
        /\ Len(chain[t]) < MaxOutputs
    BY DEF Settle
  <2>2. /\ UNCHANGED <<now, banned, charging, indexer, fees, queue, met>>
        /\ wave[t].phase # "idle" /\ wave' = [wave EXCEPT ![t] = Idle]
    BY DEF Settle
  <2> HIDE DEF o
  <2> QED
    BY <1>1, <2>1, <2>2, TreeGrows
<1>3. RolloverDue(Current(t))
  BY DEF Settle, Accepted, WatchInv, WaveInv, IsDue, Current
<1>4. RolloverMargin(o) \in Nat /\ RolloverMargin(o) =< BatchLife
  BY <1>1, MarginIsWithinBatch
<1>5. RolloverMargin(o)' = RolloverMargin(o) /\ o' = o /\ now' = now
  BY DEF Settle, RolloverMargin
<1>6. ~RolloverDue(Current(t))'
  BY <1>1, <1>2, <1>4, <1>5, WatchAssumption DEF RolloverDue, RolloverMargin
<1>7. \A u \in Trees \ {t}: ~(Len(chain'[u]) > Len(chain[u]))
  BY <1>2 DEF WatchInv, LedgerInv
<1> QED
  BY <1>2, <1>3, <1>6, <1>7 DEF RenewalStep

LEMMA ChopStep ==
  ASSUME WatchInv, NEW t \in Trees, Chop(t)
  PROVE  WatchInv' /\ RenewalStep
<1>1. Current(t) \in Output
  BY Bounds DEF WatchInv, LedgerInv, Current
<1>2. PICK s \in BOOLEAN: chain' = [chain EXCEPT ![t] = Append(@,
        [Current(t) EXCEPT !.created = now, !.stump = s])]
  BY DEF Chop
<1> DEFINE o == [Current(t) EXCEPT !.created = now, !.stump = s]
<1>3. o \in Output /\ o.expires = Current(t).expires
  BY <1>1, Bounds DEF Output, WatchInv, LedgerInv
<1>4. /\ WatchInv' /\ Current(t)' = o
      /\ \A u \in Trees \ {t}: chain'[u] = chain[u]
  <2>1. /\ coin' = coin /\ wave' = wave /\ UNCHANGED <<now, banned, charging, indexer, fees, queue, met>>
        /\ Len(chain[t]) < MaxOutputs
    BY Bounds DEF Chop, watcher, WatchInv, LedgerInv
  <2>2. chain' = [chain EXCEPT ![t] = Append(@, o)]
    BY <1>2
  <2> HIDE DEF o
  <2> QED
    BY <1>3, <2>1, <2>2, TreeGrows
<1>5. ~(Current(t)'.expires > Current(t).expires)
  BY <1>1, <1>3, <1>4, OutputNumbers
<1>6. \A u \in Trees \ {t}: ~(Len(chain'[u]) > Len(chain[u]))
  BY <1>4 DEF WatchInv, LedgerInv
<1> QED
  BY <1>4, <1>5, <1>6 DEF RenewalStep

LEMMA WorldStep ==
  ASSUME WatchInv, ServerRenewal \/ Tick \/ Ban \/ Unban \/ ChangePolicy \/ IndexWallet
  PROVE  WatchInv' /\ RenewalStep
<1>1. UNCHANGED <<chain, seen, gap, detail, watcher>>
  BY DEF ServerRenewal, Tick, Ban, Unban, ChangePolicy, IndexWallet, ledger, indexer
<1>2. now' \in 0..MaxTime /\ now' \in Nat /\ now' >= now
  <2>1. now' = now \/ (now < MaxTime /\ now' = now + 1)
    BY DEF ServerRenewal, Tick, Ban, Unban, ChangePolicy, IndexWallet, ledger
  <2>2. now \in 0..MaxTime
    BY DEF WatchInv, LedgerInv
  <2> QED
    BY <2>1, <2>2, Bounds
<1>3. coin' \in Nat \ {0} /\ coinSeen' \in 0..coin'
  <2>1. coin \in Nat \ {0} /\ coinSeen \in 0..coin
    BY DEF WatchInv, LedgerInv, IndexerInv
  <2>2. coin' \in {coin, coin + 1}
    BY DEF ServerRenewal, Tick, Ban, Unban, ChangePolicy, IndexWallet, ledger
  <2>3. coinSeen' = coinSeen \/ (coin' = coin /\ coinSeen' \in {coin, 0})
    BY DEF ServerRenewal, Tick, Ban, Unban, ChangePolicy, IndexWallet, ledger, indexer
  <2> QED
    BY <2>1, <2>2, <2>3
<1>4. {banned', charging'} \subseteq BOOLEAN
  <2>1. CASE ChangePolicy
    BY <2>1, WatchAssumption DEF ChangePolicy, WatchInv, LedgerInv
  <2>2. CASE charging' = charging /\ banned' \in BOOLEAN
    BY <2>2 DEF WatchInv, LedgerInv
  <2> QED
    BY <2>1, <2>2 DEF ServerRenewal, Tick, Ban, Unban, IndexWallet, ledger, WatchInv, LedgerInv
<1>5. RenewalStep
  BY <1>1, NoTreeChanges
<1>6. \A u \in Trees, i \in Nat: IsDue(u, i) => IsDue(u, i)'
  BY <1>1, <1>2, DueKept, Bounds DEF WatchInv, LedgerInv
<1>7. LedgerInv' /\ IndexerInv'
  BY <1>1, <1>2, <1>3, <1>4 DEF WatchInv, LedgerInv, IndexerInv
<1>8. queue' = queue /\ wave' = wave
  BY <1>1 DEF watcher
<1>9. QueueInv'
  BY <1>6, <1>8, QueueEntries DEF QueueInv
<1>10. WaveInv'
  <2>1. \A u \in Trees: wave[u].out \in Nat
    BY Bounds DEF WatchInv, WaveInv, Renewal
  <2> QED
    BY <1>6, <1>8, <2>1 DEF WatchInv, WaveInv
<1>11. PassInv'
  BY <1>1, SamePass
<1> QED
  BY <1>5, <1>7, <1>9, <1>10, <1>11 DEF WatchInv

LEMMA IndexerStep ==
  ASSUME WatchInv, NEW t \in Trees,
         MarkSpent(t) \/ ListSuccessor(t) \/ IndexTransaction(t) \/ ReportExpiry(t)
  PROVE  WatchInv' /\ RenewalStep
<1>1. UNCHANGED <<ledger, coinSeen, watcher>>
  BY DEF MarkSpent, ListSuccessor, IndexTransaction, ReportExpiry
<1>2. RenewalStep
  BY <1>1, NoTreeChanges DEF ledger
<1>3. LedgerInv' /\ QueueInv' /\ WaveInv'
  BY <1>1, SameDue DEF WatchInv, LedgerInv, QueueInv, WaveInv, ledger, watcher
<1>4. IndexerInv'
  <2>1. chain' = chain /\ coin' = coin /\ coinSeen' = coinSeen
    BY <1>1 DEF ledger
  <2>2. \A u \in Trees: Len(chain[u]) \in Nat
    BY Bounds DEF WatchInv, LedgerInv
  <2>3. CASE MarkSpent(t)
    BY <2>1, <2>2, <2>3 DEF MarkSpent, WatchInv, IndexerInv
  <2>4. CASE ListSuccessor(t)
    BY <2>1, <2>2, <2>4 DEF ListSuccessor, WatchInv, IndexerInv, Details
  <2>5. CASE IndexTransaction(t) \/ ReportExpiry(t)
    BY <2>1, <2>2, <2>5 DEF IndexTransaction, ReportExpiry, WatchInv, IndexerInv, Details
  <2> QED
    BY <2>3, <2>4, <2>5
<1>5. PassInv'
  BY <1>1, SamePass
<1> QED
  BY <1>2, <1>3, <1>4, <1>5 DEF WatchInv

-----------------------------------------------------------------------------
LEMMA WatchStep == WatchInv /\ [Next]_vars => WatchInv' /\ RenewalStep
<1> SUFFICES ASSUME WatchInv, [Next]_vars PROVE WatchInv' /\ RenewalStep
  OBVIOUS
<1>1. CASE UNCHANGED vars
  <2>1. RenewalStep
    BY <1>1, NoTreeChanges DEF vars, ledger
  <2>2. WatchInv'
    <3>1. PassInv'
      BY <1>1, SamePass DEF vars
    <3>2. LedgerInv' /\ IndexerInv'
      BY <1>1 DEF vars, ledger, indexer, WatchInv, LedgerInv, IndexerInv
    <3>3. QueueInv' /\ WaveInv'
      BY <1>1, SameDue DEF vars, ledger, watcher, WatchInv, QueueInv, WaveInv
    <3> QED
      BY <3>1, <3>2, <3>3 DEF WatchInv
  <2> QED
    BY <2>1, <2>2
<1>2. CASE StartPass \/ StartWave
  BY <1>2, StartPassStep, StartWaveStep
<1>3. ASSUME NEW t \in Trees, Prepare(t) \/ Settle(t) \/ Fail(t) \/ MeetBan(t)
      PROVE  WatchInv' /\ RenewalStep
  BY <1>3, PrepareStep, SettleStep, EndStep
<1>4. CASE ServerRenewal \/ Tick \/ Ban \/ Unban \/ ChangePolicy \/ IndexWallet
  BY <1>4, WorldStep
<1>5. ASSUME NEW t \in Trees,
             \/ Chop(t)
             \/ MarkSpent(t) \/ ListSuccessor(t) \/ IndexTransaction(t) \/ ReportExpiry(t)
      PROVE  WatchInv' /\ RenewalStep
  BY <1>5, ChopStep, IndexerStep
<1> QED
  BY <1>1, <1>2, <1>3, <1>4, <1>5 DEF Next

(* A tree is renewed only when it is due, and what the batch returns is    *)
(* not due again: renew_expiring_trees selects with tree_rollover_due, its *)
(* choice is still right when the batch of src/batch.rs ends, and the      *)
(* margin of src/arkade.rs is within the lifetime of any batch.            *)
THEOREM RenewalsEnd == Spec => NoRenewalLoop
<1>1. WatchInv /\ [Next]_vars => [RenewalStep]_vars
  BY WatchStep
<1> QED
  BY WatchStarts, WatchStep, <1>1, PTL DEF Spec, NoRenewalLoop

(***************************************************************************)
(* In one pass of `watch` only the renewals of one wave are answered with   *)
(* arkd's ban.  When arkd charged as the pass connected, no two renewals    *)
(* under way are paid with one output of the wallet, whatever it charges    *)
(* when they connect themselves: the wave is one renewal.                   *)
(***************************************************************************)
THEOREM WavesStaySound == Spec => []WavesAreSound
<1>1. ASSUME WatchInv
      PROVE  WavesAreSound
  <2>1. TypeOK
    <3>1. now \in 0..MaxTime /\ {banned, charging} \subseteq BOOLEAN /\ coin \in Nat \ {0}
      BY <1>1 DEF WatchInv, LedgerInv
    <3>2. \A t \in Trees: chain[t] \in Seq(Output) /\ Len(chain[t]) \in 1..MaxOutputs
      BY <1>1 DEF WatchInv, LedgerInv
    <3>3. /\ \A t \in Trees: seen[t] \in 1..Len(chain[t]) /\ (gap[t] => seen[t] < Len(chain[t]))
          /\ detail \in [Trees -> Details] /\ coinSeen \in 0..coin
      BY <1>1 DEF WatchInv, IndexerInv
    <3>4. \A i \in DOMAIN queue: queue[i].tree \in Trees /\ wave[queue[i].tree] = Idle
      <4>1. DOMAIN queue = 1..Len(queue)
        BY <1>1, QueueEntries
      <4> QED
        BY <1>1, <4>1, QueueEntries DEF WatchInv, PassInv
    <3>5. wave \in [Trees -> Renewal]
      BY <1>1 DEF WatchInv, WaveInv
    <3>6. met \in Nat /\ fees \in BOOLEAN
      BY <1>1 DEF WatchInv, PassInv
    <3>7. {fees, charging, banned} \subseteq BOOLEAN
      BY <3>1, <3>6
    <3> QED
      BY <3>1, <3>2, <3>3, <3>4, <3>5, <3>6, <3>7 DEF TypeOK
  <2>2. BansStayInOneWave
    BY <1>1, RunningIsFinite DEF WatchInv, PassInv, BansStayInOneWave
  <2>3. FundingIsExclusive
    <3> SUFFICES ASSUME NEW t \in Trees, NEW u \in Trees, t # u,
                        wave[t].phase = "settling", wave[u].phase = "settling", fees
                 PROVE  FALSE
      BY DEF FundingIsExclusive
    <3>1. met \in Nat /\ met + Cardinality(Running) <= 1
      BY <1>1 DEF WatchInv, PassInv, WaveSize
    <3>2. t \in Running /\ u \in Running
      BY DEF Running
    <3>3. IsFiniteSet(Running) /\ Cardinality(Running) \in Nat
      BY <1>1, RunningIsFinite
    <3>4. CASE Cardinality(Running) = 0
      BY <3>2, <3>3, <3>4, FS_EmptySet
    <3>5. CASE Cardinality(Running) = 1
      <4>1. PICK x: Running = {x}
        BY <3>3, <3>5, FS_Singleton
      <4> QED
        BY <3>2, <4>1
    <3> QED
      BY <3>1, <3>3, <3>4, <3>5
  <2> QED
    BY <2>1, <2>2, <2>3 DEF WavesAreSound
<1> QED
  BY WatchStarts, WatchStep, <1>1, PTL DEF Spec

-----------------------------------------------------------------------------
(***************************************************************************)
(* `ensure`.  The command has its plan from the file, and the manifest is  *)
(* the last plan there was.                                                *)
(***************************************************************************)
PlanInv ==
  /\ pc \notin {"off", "clean"} => manifest = NoPlan
  /\ pc = "clean" => manifest = plan
  /\ pc \in {"fund", "save"} => planFile = NoPlan
  /\ pc \notin {"off", "fund", "save"} => plan = planFile
  /\ manifest # NoPlan => planFile \in {NoPlan, manifest}
  /\ pc \in {"off", "fund"} => deployed = {} /\ pos = FirstPos

\* An output is listed only when the transaction that makes it is final.
Maker(out) == [plan |-> out.plan,
               step |-> IF out.kind = "tree" THEN out.step ELSE Before(out.step)]

ArkdInv ==
  /\ \A t \in accepted \cup final: InputsExist(t)
  /\ \A t \in Tx: Finalize(t) \in inflight => t \in accepted \cup final
  /\ \A out \in listed \ Deposits: Maker(out) \in final

(* An actor that finalizes has had its transaction accepted, and what a    *)
(* shard has behind it is final.                                           *)
ActorInv ==
  /\ pos \in [Shards -> Nat]
  /\ \A a \in Actors: ~Busy(a) => at[a] = "ready"
  /\ \A a \in Actors: Busy(a) /\ at[a] = "finalize" => Job(a) \in accepted \cup final
  /\ \A s \in Shards: at[s] \in {"submit", "finalize", "wait"} => pos[s] <= Sizes[s]
  /\ \A step \in deployed: [plan |-> plan, step |-> step] \in final
  /\ \A s \in Shards: \A k \in 1..(pos[s] - 1): [plan |-> plan, step |-> <<s, k>>] \in final

EnsureInv == OneWorld /\ PlanInv /\ ArkdInv /\ ActorInv

-----------------------------------------------------------------------------
(* The steps of a plan, and what each spends.                              *)
LEMMA PlanSteps ==
  /\ {Issue, Distribute} \subseteq Steps /\ Issue # Distribute /\ Issue[2] = 0
  /\ \A s \in Shards: Sizes[s] \in Nat \ {0}
  /\ \A s \in Shards: \A k \in 1..Sizes[s]: <<s, k>> \in Deployments /\ <<s, k>> \in Steps
  /\ \A step \in Deployments: step \in Steps /\ step # Issue /\ step # Distribute
  /\ Before(Distribute) = Issue
  /\ \A s \in Shards: Before(<<s, 1>>) = Distribute
  /\ \A step \in Steps \ {Issue}: Before(step) \in Steps
  /\ Shards # {}
<1>1. \A s \in Shards: s \in Nat \ {0} /\ Sizes[s] \in Nat \ {0}
  BY BootstrapAssumption, ElementOfSeq DEF Shards
<1>2. \A step \in Deployments: \E s \in Shards: \E k \in 1..Sizes[s]: step = <<s, k>>
  BY DEF Deployments
<1>3. \A s \in Shards: \A k \in 1..Sizes[s]: <<s, k>> \in Deployments
  BY DEF Deployments
<1>4. Issue # Distribute /\ {Issue, Distribute} \subseteq Steps /\ Issue[2] = 0
  BY DEF Issue, Distribute, Steps
<1>5. \A step \in Deployments: step \in Steps /\ step # Issue /\ step # Distribute
  BY <1>1, <1>2 DEF Issue, Distribute, Steps
<1>6. Before(Distribute) = Issue
  BY DEF Before
<1>7. ASSUME NEW s \in Shards, NEW k \in 1..Sizes[s]
      PROVE  Before(<<s, k>>) = IF k = 1 THEN Distribute ELSE <<s, k - 1>>
  <2>1. <<s, k>> # Distribute /\ <<s, k>>[1] = s /\ <<s, k>>[2] = k /\ s > 0
    BY <1>1 DEF Distribute
  <2> QED
    BY <2>1 DEF Before
<1>8. ASSUME NEW step \in Deployments
      PROVE  Before(step) \in Steps
  <2>1. PICK s \in Shards: \E k \in 1..Sizes[s]: step = <<s, k>>
    BY <1>2
  <2>2. PICK k \in 1..Sizes[s]: step = <<s, k>>
    BY <2>1
  <2>3. k # 1 => k - 1 \in 1..Sizes[s]
    BY <1>1
  <2>4. Before(step) \in {Distribute, <<s, k - 1>>} /\ (k = 1 => Before(step) = Distribute)
    BY <1>7, <2>2
  <2>5. Deployments \subseteq Steps
    BY <1>5
  <2>6. <<s, k - 1>> \in Steps \/ k = 1
    BY <1>3, <2>3, <2>5
  <2> QED
    BY <1>4, <2>4, <2>6
<1>9. \A s \in Shards: Before(<<s, 1>>) = Distribute
  <2> SUFFICES ASSUME NEW s \in Shards PROVE Before(<<s, 1>>) = Distribute
    OBVIOUS
  <2>1. 1 \in 1..Sizes[s]
    BY <1>1
  <2> QED
    BY <1>7, <2>1
<1>10. Shards # {}
  <2>1. Len(Sizes) \in Nat /\ Len(Sizes) > 0
    BY BootstrapAssumption
  <2> QED
    BY <2>1 DEF Shards
<1>11. \A step \in Steps \ {Issue}: Before(step) \in Steps
  BY <1>4, <1>6, <1>8 DEF Steps
<1> QED
  BY <1>1, <1>3, <1>4, <1>5, <1>6, <1>9, <1>10, <1>11

\* What an actor waits for is made by its own transaction.
LEMMA JobIsTx ==
  ASSUME EnsureInv, NEW a \in Actors, Busy(a),
         at[a] # "ready" /\ at[a] # "failed"
  PROVE  Job(a) \in Tx
<1>1. plan \in Plans
  BY DEF EnsureInv, OneWorld, EnsureTypeOK, Busy
<1>2. CASE a = 0
  BY <1>1, <1>2, PlanSteps DEF Job, Tx
<1>3. CASE a # 0
  <2>1. a \in Shards /\ a > 0 /\ pos[a] \in 1..Sizes[a]
    <3>1. a \in Shards
      BY <1>3 DEF Actors
    <3>2. at[a] \in {"submit", "finalize", "wait"} /\ pos[a] \in 1..(Sizes[a] + 1)
      BY <3>1 DEF EnsureInv, OneWorld, EnsureTypeOK
    <3>3. pos[a] <= Sizes[a] /\ Sizes[a] \in Nat
      BY <3>1, <3>2, PlanSteps DEF EnsureInv, ActorInv
    <3>4. a > 0
      BY <3>1, BootstrapAssumption DEF Shards
    <3> QED
      BY <3>1, <3>2, <3>3, <3>4
  <2> QED
    BY <1>1, <2>1, PlanSteps DEF Job, Tx
<1> QED
  BY <1>2, <1>3

LEMMA EnsureStarts == EnsureInit => EnsureInv
<1> SUFFICES ASSUME EnsureInit PROVE EnsureInv
  OBVIOUS
<1>1. EnsureTypeOK
  <2>1. \A s \in Shards: pos[s] \in 1..(Sizes[s] + 1)
    BY PlanSteps DEF EnsureInit, FirstPos
  <2>2. /\ manifest = NoPlan /\ planFile = NoPlan /\ plan = NoPlan
        /\ pc = "off" /\ deployed = {} /\ spentOut = FALSE /\ at = AllReady
        /\ inflight = {} /\ accepted = {} /\ final = {}
        /\ listed = {} /\ marked = {} /\ chopped = {} /\ faults = 0
    BY DEF EnsureInit
  <2>3. at \in [Actors -> {"ready", "submit", "finalize", "wait", "failed"}]
    BY <2>2 DEF AllReady
  <2>4. faults \in 0..MaxFaults
    BY <2>2, BootstrapAssumption
  <2> QED
    BY <2>1, <2>2, <2>3, <2>4 DEF EnsureTypeOK, Stages
<1>2. NothingOutsideThePlan /\ ManifestIsDeployed
  BY DEF EnsureInit, NothingOutsideThePlan, ManifestIsDeployed
<1>3. PlanInv
  BY DEF EnsureInit, PlanInv
<1>4. ArkdInv
  BY DEF EnsureInit, ArkdInv
<1>5. ActorInv
  <2>1. /\ deployed = {} /\ accepted = {} /\ final = {}
        /\ \A a \in Actors: at[a] = "ready"
        /\ pos \in [Shards -> Nat] /\ \A s \in Shards: pos[s] = 1 /\ at[s] = "ready"
    BY DEF EnsureInit, AllReady, FirstPos, Actors
  <2> QED
    BY <2>1 DEF ActorInv
<1> QED
  BY <1>1, <1>2, <1>3, <1>4, <1>5 DEF EnsureInv, OneWorld

-----------------------------------------------------------------------------
(* The command ends, or has ended: nothing of it is left but its file.     *)
LEMMA StopStep ==
  ASSUME EnsureInv, Stop, UNCHANGED <<manifest, arkd, index>>, inflight' \subseteq inflight,
         planFile' = planFile \/ (manifest # NoPlan /\ planFile' = NoPlan),
         faults' \in 0..MaxFaults
  PROVE  EnsureInv'
<1>1. /\ pc' = "off" /\ plan' = NoPlan /\ deployed' = {} /\ spentOut' = FALSE
      /\ at' = AllReady /\ pos' = FirstPos
      /\ UNCHANGED <<manifest, accepted, final, listed, marked, chopped>>
  BY DEF Stop, arkd, index
<1>2. at' \in [Actors -> {"ready", "submit", "finalize", "wait", "failed"}]
      /\ \A a \in Actors: at'[a] = "ready"
  BY <1>1 DEF AllReady
<1>3. pos' \in [Shards -> Nat] /\ \A s \in Shards: pos'[s] = 1
  BY <1>1 DEF FirstPos
<1>4. EnsureTypeOK'
  <2>1. \A s \in Shards: pos'[s] \in 1..(Sizes[s] + 1)
    BY <1>3, PlanSteps
  <2> QED
    BY <1>1, <1>2, <2>1 DEF EnsureInv, OneWorld, EnsureTypeOK, Stages
<1>5. NothingOutsideThePlan' /\ ManifestIsDeployed'
  BY <1>1 DEF EnsureInv, OneWorld, NothingOutsideThePlan, ManifestIsDeployed
<1>6. PlanInv'
  BY <1>1 DEF EnsureInv, PlanInv
<1>7. ArkdInv'
  BY <1>1 DEF EnsureInv, ArkdInv, InputsExist
<1>8. ActorInv'
  <2>1. \A a \in Actors: at'[a] # "finalize"
    BY <1>2
  <2>2. \A s \in Shards: at'[s] = "ready"
    BY <1>2 DEF Actors
  <2> QED
    BY <1>1, <1>2, <1>3, <2>1, <2>2 DEF ActorInv
<1> QED
  BY <1>4, <1>5, <1>6, <1>7, <1>8 DEF EnsureInv, OneWorld

(* The command goes on to another stage of the same plan.                  *)
LEMMA GotoStep ==
  ASSUME EnsureInv, NEW stage \in Stages \ {"off", "fund", "save", "issue", "distribute"},
         pc \notin {"off", "fund", "issue", "distribute", "deploy", "clean"},
         pc' = stage, stage = "clean" => FALSE,
         UNCHANGED <<manifest, plan, at, pos, inflight, arkd, index, faults>>,
         pc = "save" => planFile' = plan, pc # "save" => planFile' = planFile,
         deployed' \subseteq Deployments, \A step \in deployed': [plan |-> plan, step |-> step] \in final,
         spentOut' \in BOOLEAN
  PROVE  EnsureInv'
<1>1. /\ UNCHANGED <<manifest, plan, at, pos, inflight, accepted, final, listed, marked, chopped, faults>>
      /\ plan # NoPlan /\ manifest = NoPlan
      /\ planFile' = plan
  BY DEF arkd, index, EnsureInv, OneWorld, EnsureTypeOK, PlanInv
<1>2. EnsureTypeOK'
  BY <1>1 DEF EnsureInv, OneWorld, EnsureTypeOK
<1>3. NothingOutsideThePlan' /\ ManifestIsDeployed'
  <2>1. \A t \in accepted \cup final \cup {r.tx: r \in inflight}: t.plan = planFile /\ t.plan # NoPlan
    BY <1>1 DEF EnsureInv, OneWorld, EnsureTypeOK, NothingOutsideThePlan, Tx, Plans
  <2> QED
    BY <1>1, <2>1 DEF EnsureInv, OneWorld, PlanInv, NothingOutsideThePlan, ManifestIsDeployed
<1>4. PlanInv'
  BY <1>1 DEF EnsureInv, PlanInv
<1>5. ArkdInv'
  BY <1>1 DEF EnsureInv, ArkdInv, InputsExist
<1>6. ActorInv'
  <2>1. \A a \in Actors: ~Busy(a)
    BY PlanSteps DEF Busy
  <2> QED
    BY <1>1, <2>1 DEF EnsureInv, ActorInv
<1> QED
  BY <1>2, <1>3, <1>4, <1>5, <1>6 DEF EnsureInv, OneWorld

(* A step that only takes requests out of the way.                         *)
LEMMA StillStep ==
  ASSUME EnsureInv, UNCHANGED <<disk, command, arkd, index>>, inflight' \subseteq inflight,
         faults' \in 0..MaxFaults
  PROVE  EnsureInv'
<1>1. UNCHANGED <<manifest, planFile, pc, plan, deployed, spentOut, at, pos, accepted, final,
                  listed, marked, chopped>>
  BY DEF disk, command, arkd, index
<1>2. EnsureTypeOK'
  BY <1>1 DEF EnsureInv, OneWorld, EnsureTypeOK
<1>3. NothingOutsideThePlan' /\ ManifestIsDeployed'
  BY <1>1 DEF EnsureInv, OneWorld, NothingOutsideThePlan, ManifestIsDeployed
<1>4. PlanInv' /\ ArkdInv'
  BY <1>1 DEF EnsureInv, PlanInv, ArkdInv, InputsExist
<1>5. ActorInv'
  BY <1>1 DEF EnsureInv, ActorInv, Busy, Job
<1> QED
  BY <1>2, <1>3, <1>4, <1>5 DEF EnsureInv, OneWorld

(* The indexer learns of something that is so.                             *)
LEMMA IndexStep ==
  ASSUME EnsureInv, UNCHANGED <<disk, command, inflight, arkd, faults>>,
         listed \subseteq listed', listed' \subseteq Deposits \cup Out,
         \A out \in listed' \ Deposits: Maker(out) \in final,
         marked' \subseteq final, chopped' \subseteq listed'
  PROVE  EnsureInv'
<1>1. UNCHANGED <<manifest, planFile, pc, plan, deployed, spentOut, at, pos, inflight, accepted,
                  final, faults>>
  BY DEF disk, command, arkd
<1>2. EnsureTypeOK'
  BY <1>1 DEF EnsureInv, OneWorld, EnsureTypeOK
<1>3. NothingOutsideThePlan' /\ ManifestIsDeployed'
  BY <1>1 DEF EnsureInv, OneWorld, NothingOutsideThePlan, ManifestIsDeployed
<1>4. PlanInv' /\ ArkdInv'
  BY <1>1 DEF EnsureInv, PlanInv, ArkdInv, InputsExist
<1>5. ActorInv'
  BY <1>1 DEF EnsureInv, ActorInv, Busy, Job
<1> QED
  BY <1>2, <1>3, <1>4, <1>5 DEF EnsureInv, OneWorld

(* While the command is at work there is no manifest, and what was sent is *)
(* of its plan.                                                            *)
LEMMA AtWork ==
  ASSUME EnsureInv, pc \notin {"off", "clean", "fund", "save"}
  PROVE  /\ manifest = NoPlan /\ plan \in Plans /\ planFile = plan
         /\ \A t \in accepted \cup final \cup {r.tx: r \in inflight}: t.plan = plan
BY DEF EnsureInv, OneWorld, EnsureTypeOK, PlanInv, NothingOutsideThePlan

(* The step an actor works at is a step of the plan.                       *)
LEMMA ShardWork ==
  ASSUME EnsureInv, NEW s \in Shards, pos[s] <= Sizes[s]
  PROVE  /\ pos[s] \in 1..Sizes[s] /\ pos[s] + 1 \in 1..(Sizes[s] + 1) /\ s > 0 /\ s \in Actors
         /\ <<s, pos[s]>> \in Deployments /\ <<s, pos[s]>> \in Steps
         /\ s # 0
<1>1. pos[s] \in 1..(Sizes[s] + 1)
  BY DEF EnsureInv, OneWorld, EnsureTypeOK
<1>2. Sizes[s] \in Nat \ {0}
  BY PlanSteps
<1>3. s > 0 /\ s # 0 /\ s \in Actors
  BY BootstrapAssumption DEF Shards, Actors
<1>4. pos[s] \in 1..Sizes[s] /\ pos[s] + 1 \in 1..(Sizes[s] + 1)
  BY <1>1, <1>2
<1> QED
  BY <1>3, <1>4, PlanSteps

(* An output the indexer lists was made.                                   *)
LEMMA ListedIsMade ==
  ASSUME EnsureInv, NEW p \in Plans, NEW step \in Steps
  PROVE  /\ TreeOut(p, step) \in listed => [plan |-> p, step |-> step] \in final
         /\ Source(p, step) \in listed => [plan |-> p, step |-> Before(step)] \in final
<1>1. TreeOut(p, step) \in Out /\ Source(p, step) \in Out
  BY DEF TreeOut, Source, Out
<1>2. TreeOut(p, step) \notin Deposits /\ Source(p, step) \notin Deposits
  BY <1>1, BootstrapAssumption
<1>3. /\ Maker(TreeOut(p, step)) = [plan |-> p, step |-> step]
      /\ Maker(Source(p, step)) = [plan |-> p, step |-> Before(step)]
  BY DEF Maker, TreeOut, Source
<1> QED
  BY <1>2, <1>3 DEF EnsureInv, ArkdInv

(* The command sends the issuance or the distribution.                     *)
LEMMA SendStep ==
  ASSUME EnsureInv, NEW step \in {Issue, Distribute}, pc \in {"funding", "shards"},
         pc' \in {"issue", "distribute"}, Send(0, step),
         UNCHANGED <<disk, plan, deployed, spentOut, pos, arkd, index, faults>>
  PROVE  EnsureInv'
<1> DEFINE t0 == [plan |-> plan, step |-> step]
<1>1. /\ UNCHANGED <<manifest, planFile, plan, deployed, spentOut, pos, accepted, final,
                     listed, marked, chopped, faults>>
      /\ at' = [at EXCEPT ![0] = "submit"] /\ inflight' = inflight \cup {Submit(t0)}
  BY DEF disk, arkd, index, Send
<1>2. /\ manifest = NoPlan /\ plan \in Plans /\ planFile = plan /\ plan # NoPlan
      /\ \A t \in accepted \cup final \cup {r.tx: r \in inflight}: t.plan = plan
  BY AtWork DEF Plans
<1>3. t0 \in Tx /\ t0.plan = plan
  BY <1>2, PlanSteps DEF Tx
<1> HIDE DEF t0
<1>4. /\ Submit(t0) \in [kind: {"submit", "finalize"}, tx: Tx] /\ Submit(t0).tx = t0
      /\ \A t: Finalize(t) # Submit(t0)
  BY <1>3 DEF Submit, Finalize
<1>5. EnsureTypeOK'
  BY <1>1, <1>2, <1>4 DEF EnsureInv, OneWorld, EnsureTypeOK, Stages
<1>6. NothingOutsideThePlan' /\ ManifestIsDeployed'
  <2>1. \A t \in (accepted \cup final \cup {r.tx: r \in inflight})': t.plan = plan
    BY <1>1, <1>2, <1>3, <1>4
  <2> QED
    BY <1>1, <1>2, <2>1 DEF NothingOutsideThePlan, ManifestIsDeployed
<1>7. PlanInv'
  BY <1>1, <1>2 DEF EnsureInv, PlanInv
<1>8. ArkdInv'
  BY <1>1, <1>4 DEF EnsureInv, ArkdInv, InputsExist
<1>9. ActorInv'
  <2>1. \A a \in Actors: at[a] = "ready"
    BY PlanSteps DEF EnsureInv, ActorInv, Busy
  <2>2. at \in [Actors -> {"ready", "submit", "finalize", "wait", "failed"}] /\ 0 \notin Shards
    BY BootstrapAssumption DEF EnsureInv, OneWorld, EnsureTypeOK, Shards
  <2>3. /\ \A a \in Actors: at'[a] # "finalize" /\ (a # 0 => at'[a] = "ready")
        /\ \A s \in Shards: at'[s] = "ready"
    BY <1>1, <2>1, <2>2 DEF Actors
  <2>4. \A a \in Actors: ~Busy(a)' => a # 0
    BY DEF Busy
  <2> QED
    BY <1>1, <2>3, <2>4 DEF EnsureInv, ActorInv
<1> QED
  BY <1>5, <1>6, <1>7, <1>8, <1>9 DEF EnsureInv, OneWorld

(* An error ends the command, or the shard it is in.                       *)
LEMMA FailStep ==
  ASSUME EnsureInv, NEW a \in Actors, Busy(a), Fails(a),
         UNCHANGED <<disk, arkd, index>>, inflight' \subseteq inflight, faults' \in 0..MaxFaults
  PROVE  EnsureInv'
<1>1. CASE a = 0
  BY <1>1, StopStep DEF Fails, disk
<1>2. CASE a # 0
  <2>1. /\ UNCHANGED <<manifest, planFile, pc, plan, deployed, spentOut, pos, accepted, final,
                       listed, marked, chopped>>
        /\ at' = [at EXCEPT ![a] = "failed"]
        /\ at \in [Actors -> {"ready", "submit", "finalize", "wait", "failed"}]
    BY <1>2 DEF Fails, disk, arkd, index, EnsureInv, OneWorld, EnsureTypeOK
  <2>2. \A b \in Actors: at'[b] = IF b = a THEN "failed" ELSE at[b]
    BY <2>1
  <2>3. EnsureTypeOK'
    BY <2>1 DEF EnsureInv, OneWorld, EnsureTypeOK
  <2>4. NothingOutsideThePlan' /\ ManifestIsDeployed'
    BY <2>1 DEF EnsureInv, OneWorld, NothingOutsideThePlan, ManifestIsDeployed
  <2>5. PlanInv' /\ ArkdInv'
    BY <2>1 DEF EnsureInv, PlanInv, ArkdInv, InputsExist
  <2>6. ActorInv'
    <3>1. \A b \in Actors: (Busy(b)' <=> Busy(b)) /\ Job(b)' = Job(b)
      BY <2>1 DEF Busy, Job
    <3>2. \A s \in Shards: s \in Actors
      BY DEF Actors
    <3> QED
      BY <2>1, <2>2, <3>1, <3>2 DEF EnsureInv, ActorInv
  <2> QED
    BY <2>3, <2>4, <2>5, <2>6 DEF EnsureInv, OneWorld
<1> QED
  BY <1>1, <1>2

-----------------------------------------------------------------------------
LEMMA StartStep == ASSUME EnsureInv, Start PROVE EnsureInv'
<1>1. /\ UNCHANGED <<manifest, planFile, deployed, spentOut, at, pos, inflight, accepted, final,
                     listed, marked, chopped, faults>>
      /\ pc = "off" /\ manifest = NoPlan /\ plan' = planFile
      /\ pc' = IF planFile = NoPlan THEN "fund" ELSE "look"
  BY DEF Start, disk, arkd, index
<1>2. deployed = {} /\ pos = FirstPos /\ planFile \in Plans \cup {NoPlan}
  BY <1>1 DEF EnsureInv, OneWorld, EnsureTypeOK, PlanInv
<1>3. EnsureTypeOK'
  <2>1. pc' \in Stages /\ (pc' \in {"off", "fund"} <=> plan' = NoPlan) /\ plan' \in Plans \cup {NoPlan}
    BY <1>1, <1>2 DEF Stages
  <2> QED
    BY <1>1, <2>1 DEF EnsureInv, OneWorld, EnsureTypeOK
<1>4. NothingOutsideThePlan' /\ ManifestIsDeployed'
  BY <1>1 DEF EnsureInv, OneWorld, NothingOutsideThePlan, ManifestIsDeployed
<1>5. PlanInv' /\ ArkdInv'
  BY <1>1, <1>2 DEF EnsureInv, PlanInv, ArkdInv, InputsExist
<1>6. ActorInv'
  <2>1. /\ \A a \in Actors: at'[a] = "ready" /\ ~Busy(a)'
        /\ \A s \in Shards: s \in Actors /\ pos'[s] = 1
    BY <1>1, <1>2 DEF EnsureInv, ActorInv, Busy, FirstPos, Actors
  <2> QED
    BY <1>1, <1>2, <2>1 DEF EnsureInv, ActorInv
<1> QED
  BY <1>3, <1>4, <1>5, <1>6 DEF EnsureInv, OneWorld

(* A funding is a plan: it has deposits, and nothing else.                 *)
LEMMA FundingsArePlans ==
  ASSUME NEW p \in Fundings(Spendable) PROVE p \in Plans
BY DEF Fundings, Spendable, Plans, NoPlan

LEMMA ChooseFundingStep == ASSUME EnsureInv, ChooseFunding PROVE EnsureInv'
<1>1. /\ UNCHANGED <<manifest, planFile, deployed, spentOut, at, pos, inflight, accepted, final,
                     listed, marked, chopped, faults>>
      /\ pc = "fund" /\ pc' = "save" /\ plan' \in Plans
  BY FundingsArePlans DEF ChooseFunding, disk, arkd, index
<1>2. deployed = {} /\ pos = FirstPos /\ manifest = NoPlan /\ planFile = NoPlan /\ plan' # NoPlan
  BY <1>1 DEF EnsureInv, OneWorld, EnsureTypeOK, PlanInv, Plans
<1>3. EnsureTypeOK'
  BY <1>1, <1>2 DEF EnsureInv, OneWorld, EnsureTypeOK, Stages
<1>4. NothingOutsideThePlan' /\ ManifestIsDeployed'
  BY <1>1 DEF EnsureInv, OneWorld, NothingOutsideThePlan, ManifestIsDeployed
<1>5. PlanInv' /\ ArkdInv'
  BY <1>1, <1>2 DEF EnsureInv, PlanInv, ArkdInv, InputsExist
<1>6. ActorInv'
  <2>1. /\ \A a \in Actors: at'[a] = "ready" /\ ~Busy(a)'
        /\ \A s \in Shards: s \in Actors /\ pos'[s] = 1
    BY <1>1, <1>2 DEF EnsureInv, ActorInv, Busy, FirstPos, Actors
  <2> QED
    BY <1>1, <1>2, <2>1 DEF EnsureInv, ActorInv
<1> QED
  BY <1>3, <1>4, <1>5, <1>6 DEF EnsureInv, OneWorld

LEMMA SavePlanStep == ASSUME EnsureInv, SavePlan PROVE EnsureInv'
<1>1. /\ \A step \in deployed: [plan |-> plan, step |-> step] \in final
      /\ deployed \subseteq Deployments /\ spentOut \in BOOLEAN
  BY DEF EnsureInv, OneWorld, EnsureTypeOK, ActorInv
<1> QED
  BY <1>1, GotoStep DEF SavePlan, Goto, Stages

LEMMA LookForTreesStep == ASSUME EnsureInv, LookForTrees PROVE EnsureInv'
<1>1. pc = "look" /\ plan \in Plans /\ spentOut \in BOOLEAN
  BY AtWork DEF LookForTrees, EnsureInv, OneWorld, EnsureTypeOK
<1>2. \A step \in deployed': [plan |-> plan, step |-> step] \in final
  BY <1>1, ListedIsMade DEF LookForTrees, Steps
<1> QED
  BY <1>1, <1>2, GotoStep DEF LookForTrees, Stages, disk

LEMMA LookForIssuanceStep == ASSUME EnsureInv, LookForIssuance PROVE EnsureInv'
<1>1. /\ \A step \in deployed: [plan |-> plan, step |-> step] \in final
      /\ deployed \subseteq Deployments /\ spentOut \in BOOLEAN /\ faults \in 0..MaxFaults
  BY DEF EnsureInv, OneWorld, EnsureTypeOK, ActorInv
<1>2. CASE Source(plan, Distribute) \in listed
  BY <1>1, <1>2, GotoStep DEF LookForIssuance, Stages, disk
<1>3. CASE Source(plan, Distribute) \notin listed /\ deployed = {}
  BY <1>1, <1>3, GotoStep DEF LookForIssuance, Goto, Stages, disk
<1>4. CASE Source(plan, Distribute) \notin listed /\ deployed # {}
  BY <1>1, <1>4, StopStep DEF LookForIssuance, disk
<1> QED
  BY <1>2, <1>3, <1>4

LEMMA CheckFundingStep == ASSUME EnsureInv, CheckFunding PROVE EnsureInv'
<1>1. CASE plan \subseteq Spendable
  BY <1>1, SendStep DEF CheckFunding
<1>2. CASE ~(plan \subseteq Spendable)
  <2>1. faults \in 0..MaxFaults
    BY DEF EnsureInv, OneWorld, EnsureTypeOK
  <2> QED
    BY <1>2, <2>1, StopStep DEF CheckFunding, disk
<1> QED
  BY <1>1, <1>2

LEMMA LookForShardsStep == ASSUME EnsureInv, LookForShards PROVE EnsureInv'
<1>1. /\ \A step \in deployed: [plan |-> plan, step |-> step] \in final
      /\ deployed \subseteq Deployments /\ spentOut \in BOOLEAN /\ faults \in 0..MaxFaults
  BY DEF EnsureInv, OneWorld, EnsureTypeOK, ActorInv
<1>2. CASE AllShardsListed
  BY <1>1, <1>2, GotoStep DEF LookForShards, Goto, Stages, disk
<1>3. CASE ~AllShardsListed /\ spentOut
  BY <1>1, <1>3, StopStep DEF LookForShards, disk
<1>4. CASE ~AllShardsListed /\ ~spentOut
  BY <1>4, SendStep DEF LookForShards
<1> QED
  BY <1>2, <1>3, <1>4

-----------------------------------------------------------------------------
(* What was sent to arkd is a transaction.                                 *)
LEMMA SentIsTx ==
  ASSUME EnsureInv, NEW t, Submit(t) \in inflight \/ Finalize(t) \in inflight
  PROVE  t \in Tx /\ t \in {r.tx: r \in inflight}
<1>1. Submit(t).tx = t /\ Finalize(t).tx = t
  BY DEF Submit, Finalize
<1>2. \A r \in inflight: r.tx \in Tx /\ r.tx \in {q.tx: q \in inflight}
  BY DEF EnsureInv, OneWorld, EnsureTypeOK
<1> QED
  BY <1>1, <1>2

(* arkd's answer reaches those that wait for it, and nobody else.          *)
LEMMA AnswerStep ==
  ASSUME EnsureInv, NEW t \in accepted' \cup final', NEW phase \in {"submit", "finalize"},
         NEW next \in {"finalize", "wait"}, Answer(t, phase, next),
         accepted \cup final \subseteq accepted' \cup final', final \subseteq final'
  PROVE  /\ ActorInv'
         /\ at' \in [Actors -> {"ready", "submit", "finalize", "wait", "failed"}]
<1>1. /\ UNCHANGED <<pc, plan, deployed, spentOut, pos>>
      /\ \A a \in Actors: at'[a] = IF a \in Waiting(t, phase) THEN next ELSE at[a]
      /\ at' \in [Actors -> {"ready", "submit", "finalize", "wait", "failed"}]
  BY DEF Answer, EnsureInv, OneWorld, EnsureTypeOK
<1>2. \A a \in Actors: (Busy(a)' <=> Busy(a)) /\ Job(a)' = Job(a)
  BY <1>1 DEF Busy, Job
<1>3. \A a \in Waiting(t, phase): a \in Actors /\ Busy(a) /\ at[a] = phase /\ Job(a) = t
  BY DEF Waiting
<1>4. \A s \in Shards: s \in Actors
  BY DEF Actors
<1>5. \A a \in Actors: Busy(a)' /\ at'[a] = "finalize" => Job(a)' \in accepted' \cup final'
  BY <1>1, <1>2, <1>3 DEF EnsureInv, ActorInv
<1>6. \A s \in Shards: at'[s] \in {"submit", "finalize", "wait"} => pos'[s] <= Sizes[s]
  BY <1>1, <1>3, <1>4 DEF EnsureInv, ActorInv
<1>7. \A a \in Actors: ~Busy(a)' => at'[a] = "ready"
  BY <1>1, <1>2, <1>3 DEF EnsureInv, ActorInv
<1> QED
  BY <1>1, <1>5, <1>6, <1>7 DEF EnsureInv, ActorInv

LEMMA LandSubmitStep == ASSUME EnsureInv, NEW t, LandSubmit(t) PROVE EnsureInv'
<1>1. /\ UNCHANGED <<manifest, planFile, final, listed, marked, chopped, faults,
                     pc, plan, deployed, spentOut, pos>>
      /\ Submit(t) \in inflight /\ t \notin final /\ InputsExist(t)
      /\ inflight' = inflight \ {Submit(t)} /\ accepted' = accepted \cup {t}
  BY DEF LandSubmit, Answer, disk, index
<1>2. t \in Tx /\ t \in {r.tx: r \in inflight}
  BY <1>1, SentIsTx
<1>3. ActorInv' /\ at' \in [Actors -> {"ready", "submit", "finalize", "wait", "failed"}]
  BY <1>1, AnswerStep DEF LandSubmit
<1>4. EnsureTypeOK'
  BY <1>1, <1>2, <1>3 DEF EnsureInv, OneWorld, EnsureTypeOK
<1>5. NothingOutsideThePlan' /\ ManifestIsDeployed'
  BY <1>1, <1>2 DEF EnsureInv, OneWorld, NothingOutsideThePlan, ManifestIsDeployed
<1>6. PlanInv' /\ ArkdInv'
  BY <1>1 DEF EnsureInv, PlanInv, ArkdInv, InputsExist
<1> QED
  BY <1>3, <1>4, <1>5, <1>6 DEF EnsureInv, OneWorld

LEMMA LandFinalizeStep == ASSUME EnsureInv, NEW t, LandFinalize(t) PROVE EnsureInv'
<1>1. /\ UNCHANGED <<manifest, planFile, listed, marked, chopped, faults,
                     pc, plan, deployed, spentOut, pos>>
      /\ Finalize(t) \in inflight /\ inflight' = inflight \ {Finalize(t)}
      /\ accepted' = accepted \ {t} /\ final' = final \cup {t}
  BY DEF LandFinalize, Answer, disk, index
<1>2. t \in Tx /\ t \in accepted \cup final
  BY <1>1, SentIsTx DEF EnsureInv, ArkdInv
<1>3. accepted' \cup final' = accepted \cup final
  BY <1>1, <1>2
<1>4. ActorInv' /\ at' \in [Actors -> {"ready", "submit", "finalize", "wait", "failed"}]
  BY <1>1, <1>3, AnswerStep DEF LandFinalize
<1>5. EnsureTypeOK'
  BY <1>1, <1>2, <1>4 DEF EnsureInv, OneWorld, EnsureTypeOK
<1>6. NothingOutsideThePlan'
  <2>1. (accepted \cup final \cup {r.tx: r \in inflight})' \subseteq accepted \cup final \cup {r.tx: r \in inflight}
    BY <1>1, <1>3
  <2> QED
    BY <1>1, <2>1 DEF EnsureInv, OneWorld, NothingOutsideThePlan
<1>7. ManifestIsDeployed'
  BY <1>1 DEF EnsureInv, OneWorld, ManifestIsDeployed
<1>8. PlanInv' /\ ArkdInv'
  BY <1>1, <1>3 DEF EnsureInv, PlanInv, ArkdInv, InputsExist
<1> QED
  BY <1>4, <1>5, <1>6, <1>7, <1>8 DEF EnsureInv, OneWorld

LEMMA RefuseStep == ASSUME EnsureInv, NEW t, Refuse(t) PROVE EnsureInv'
<1>1. /\ UNCHANGED <<disk, arkd, index>> /\ inflight' \subseteq inflight /\ faults' \in 0..MaxFaults
  BY DEF Refuse, EnsureInv, OneWorld, EnsureTypeOK
<1>2. CASE Waiting(t, "submit") = {}
  BY <1>1, <1>2, StillStep DEF Refuse
<1>3. CASE Waiting(t, "submit") # {}
  <2>1. PICK a \in Waiting(t, "submit"): Fails(a)
    BY <1>3 DEF Refuse
  <2>2. a \in Actors /\ Busy(a)
    BY DEF Waiting
  <2> QED
    BY <1>1, <2>1, <2>2, FailStep
<1> QED
  BY <1>2, <1>3

LEMMA SendFinalizeStep == ASSUME EnsureInv, NEW a \in Actors, SendFinalize(a) PROVE EnsureInv'
<1>1. /\ UNCHANGED <<manifest, planFile, pc, plan, deployed, spentOut, at, pos, accepted, final,
                     listed, marked, chopped, faults>>
      /\ inflight' = inflight \cup {Finalize(Job(a))}
      /\ Job(a) \in accepted \cup final
  BY DEF SendFinalize, disk, command, arkd, index, EnsureInv, ActorInv
<1>2. Job(a) \in Tx
  BY <1>1 DEF EnsureInv, OneWorld, EnsureTypeOK
<1>3. Finalize(Job(a)) \in [kind: {"submit", "finalize"}, tx: Tx] /\ \A t: Finalize(t).tx = t
  BY <1>2 DEF Finalize
<1>4. EnsureTypeOK'
  BY <1>1, <1>3 DEF EnsureInv, OneWorld, EnsureTypeOK
<1>5. NothingOutsideThePlan' /\ ManifestIsDeployed'
  BY <1>1, <1>3 DEF EnsureInv, OneWorld, NothingOutsideThePlan, ManifestIsDeployed
<1>6. PlanInv'
  BY <1>1 DEF EnsureInv, PlanInv
<1>7. ArkdInv'
  <2>1. \A t: Finalize(t) = Finalize(Job(a)) => t = Job(a)
    BY DEF Finalize
  <2> QED
    BY <1>1, <2>1 DEF EnsureInv, ArkdInv, InputsExist
<1>8. ActorInv'
  BY <1>1 DEF EnsureInv, ActorInv, Busy, Job
<1> QED
  BY <1>4, <1>5, <1>6, <1>7, <1>8 DEF EnsureInv, OneWorld

LEMMA ReceivedStep == ASSUME EnsureInv, NEW a \in Actors, Received(a) PROVE EnsureInv'
<1>1. /\ UNCHANGED <<manifest, planFile, plan, deployed, inflight, accepted, final,
                     listed, marked, chopped, faults>>
      /\ Busy(a) /\ at[a] = "wait" /\ Awaited(a) \subseteq listed
      /\ at' = [at EXCEPT ![a] = "ready"]
      /\ at \in [Actors -> {"ready", "submit", "finalize", "wait", "failed"}]
  BY DEF Received, disk, arkd, index, EnsureInv, OneWorld, EnsureTypeOK
<1>2. /\ pc \in {"issue", "distribute", "deploy"} /\ plan \in Plans /\ plan # NoPlan
      /\ plan = planFile /\ manifest = NoPlan
  BY <1>1, AtWork DEF Busy, Plans
<1>3. \A b \in Actors: at'[b] = IF b = a THEN "ready" ELSE at[b]
  BY <1>1
<1>4. at' \in [Actors -> {"ready", "submit", "finalize", "wait", "failed"}]
  BY <1>1
<1>5. NothingOutsideThePlan' /\ ManifestIsDeployed' /\ ArkdInv'
  BY <1>1 DEF EnsureInv, OneWorld, NothingOutsideThePlan, ManifestIsDeployed, ArkdInv, InputsExist
<1>6. CASE a = 0
  <2>1. /\ pc \in {"issue", "distribute"} /\ pc' = (IF pc = "issue" THEN "shards" ELSE "deploy")
        /\ pos' = pos /\ spentOut' \in BOOLEAN
    BY <1>1, <1>6 DEF Received, Busy
  <2>2. EnsureTypeOK'
    <3>1. pc' \in {"shards", "deploy"}
      BY <2>1
    <3> QED
      BY <1>1, <1>2, <1>4, <2>1, <3>1 DEF EnsureInv, OneWorld, EnsureTypeOK, Stages
  <2>3. PlanInv'
    BY <1>1, <1>2, <2>1 DEF EnsureInv, PlanInv
  <2>4. ActorInv'
    <3>1. \A b \in Actors: at'[b] = "ready"
      BY <1>3, <1>6, <2>1 DEF EnsureInv, ActorInv, Busy
    <3>2. \A s \in Shards: at'[s] = "ready"
      BY <3>1 DEF Actors
    <3> QED
      BY <1>1, <2>1, <3>1, <3>2 DEF EnsureInv, ActorInv
  <2> QED
    BY <1>5, <2>2, <2>3, <2>4 DEF EnsureInv, OneWorld
<1>7. CASE a # 0
  <2>1. a \in Shards
    BY <1>7 DEF Actors
  <2>2. pos[a] <= Sizes[a]
    BY <1>1, <2>1 DEF EnsureInv, ActorInv
  <2>3. a > 0 /\ <<a, pos[a]>> \in Steps /\ pos[a] + 1 \in 1..(Sizes[a] + 1) /\ pos[a] \in Nat
    BY <2>1, <2>2, ShardWork
  <2>4. pos' = [pos EXCEPT ![a] = @ + 1] /\ pc' = pc /\ spentOut' = spentOut /\ pc = "deploy"
    BY <1>1, <1>7, <2>3 DEF Received, Busy
  <2>5. [plan |-> plan, step |-> <<a, pos[a]>>] \in final
    BY <1>1, <1>2, <2>3, ListedIsMade DEF Awaited
  <2>6. /\ pos' \in [Shards -> Nat]
        /\ \A s \in Shards: pos'[s] = IF s = a THEN pos[a] + 1 ELSE pos[s]
    BY <2>1, <2>3, <2>4 DEF EnsureInv, ActorInv
  <2>7. EnsureTypeOK'
    <3>1. \A s \in Shards: pos'[s] \in 1..(Sizes[s] + 1)
      BY <2>3, <2>6 DEF EnsureInv, OneWorld, EnsureTypeOK
    <3> QED
      BY <1>1, <1>4, <2>4, <3>1 DEF EnsureInv, OneWorld, EnsureTypeOK
  <2>8. PlanInv'
    BY <1>1, <2>4 DEF EnsureInv, PlanInv
  <2>9. ActorInv'
    <3>1. \A b \in Actors: Busy(b)' <=> Busy(b)
      BY <2>4 DEF Busy
    <3>2. ASSUME NEW b \in Actors, Busy(b)', at'[b] = "finalize"
          PROVE  Job(b)' \in accepted' \cup final'
      <4>1. b # a /\ at[b] = "finalize" /\ Job(b) \in accepted \cup final
        BY <1>3, <3>1, <3>2 DEF EnsureInv, ActorInv
      <4>2. b > 0 => b \in Shards
        BY DEF Actors
      <4>3. Job(b)' = Job(b)
        BY <1>1, <2>4, <2>6, <4>1, <4>2 DEF Job
      <4> QED
        BY <1>1, <4>1, <4>3
    <3>3. \A s \in Shards: at'[s] \in {"submit", "finalize", "wait"} => pos'[s] <= Sizes[s]
      BY <1>3, <2>6 DEF EnsureInv, ActorInv, Actors
    <3>4. ASSUME NEW s \in Shards, NEW k \in 1..(pos'[s] - 1)
          PROVE  [plan |-> plan, step |-> <<s, k>>] \in final
      <4>1. k \in 1..(pos[s] - 1) \/ (s = a /\ k = pos[a])
        BY <2>3, <2>6, <3>4
      <4> QED
        BY <2>5, <4>1 DEF EnsureInv, ActorInv
    <3>5. \A b \in Actors: ~Busy(b)' => at'[b] = "ready"
      BY <1>3, <3>1 DEF EnsureInv, ActorInv
    <3> QED
      BY <1>1, <2>6, <3>2, <3>3, <3>4, <3>5 DEF EnsureInv, ActorInv
  <2> QED
    BY <1>5, <2>7, <2>8, <2>9 DEF EnsureInv, OneWorld
<1> QED
  BY <1>6, <1>7

LEMMA NextDeploymentStep == ASSUME EnsureInv, NEW s \in Shards, NextDeployment(s) PROVE EnsureInv'
<1>1. /\ UNCHANGED <<manifest, planFile, pc, plan, deployed, spentOut, accepted, final,
                     listed, marked, chopped, faults>>
      /\ pc = "deploy" /\ at[s] = "ready" /\ pos[s] <= Sizes[s]
      /\ at \in [Actors -> {"ready", "submit", "finalize", "wait", "failed"}]
  BY DEF NextDeployment, disk, arkd, index, EnsureInv, OneWorld, EnsureTypeOK
<1>2. /\ s \in Actors /\ s # 0 /\ s > 0 /\ pos[s] \in Nat /\ pos[s] + 1 \in 1..(Sizes[s] + 1)
      /\ <<s, pos[s]>> \in Steps
  BY <1>1, ShardWork
<1>3. /\ manifest = NoPlan /\ plan \in Plans /\ planFile = plan
      /\ \A t \in accepted \cup final \cup {r.tx: r \in inflight}: t.plan = plan
  BY <1>1, AtWork
<1>4. PlanInv'
  BY <1>1 DEF EnsureInv, PlanInv
<1>5. \A b \in Actors: Busy(b)' <=> Busy(b)
  BY <1>1 DEF Busy
<1>6. CASE <<s, pos[s]>> \in deployed
  <2>1. pos' = [pos EXCEPT ![s] = @ + 1] /\ at' = at /\ inflight' = inflight
    BY <1>6 DEF NextDeployment
  <2>2. /\ pos' \in [Shards -> Nat]
        /\ \A q \in Shards: pos'[q] = IF q = s THEN pos[s] + 1 ELSE pos[q]
    BY <1>2, <2>1 DEF EnsureInv, ActorInv
  <2>3. EnsureTypeOK'
    <3>1. \A q \in Shards: pos'[q] \in 1..(Sizes[q] + 1)
      BY <1>2, <2>2 DEF EnsureInv, OneWorld, EnsureTypeOK
    <3> QED
      BY <1>1, <2>1, <3>1 DEF EnsureInv, OneWorld, EnsureTypeOK
  <2>4. NothingOutsideThePlan' /\ ManifestIsDeployed' /\ ArkdInv'
    BY <1>1, <2>1 DEF EnsureInv, OneWorld, NothingOutsideThePlan, ManifestIsDeployed, ArkdInv, InputsExist
  <2>5. ActorInv'
    <3>1. ASSUME NEW b \in Actors, Busy(b)', at'[b] = "finalize"
          PROVE  Job(b)' \in accepted' \cup final'
      <4>1. b # s /\ Job(b) \in accepted \cup final
        BY <1>1, <1>5, <2>1, <3>1 DEF EnsureInv, ActorInv
      <4>2. b > 0 => b \in Shards
        BY DEF Actors
      <4>3. Job(b)' = Job(b)
        BY <1>1, <2>2, <4>1, <4>2 DEF Job
      <4> QED
        BY <1>1, <4>1, <4>3
    <3>2. \A q \in Shards: at'[q] \in {"submit", "finalize", "wait"} => pos'[q] <= Sizes[q]
      BY <1>1, <2>1, <2>2 DEF EnsureInv, ActorInv
    <3>3. ASSUME NEW q \in Shards, NEW k \in 1..(pos'[q] - 1)
          PROVE  [plan |-> plan, step |-> <<q, k>>] \in final
      <4>1. k \in 1..(pos[q] - 1) \/ (q = s /\ k = pos[s])
        BY <1>2, <2>2, <3>3
      <4> QED
        BY <1>6, <4>1 DEF EnsureInv, ActorInv
    <3>4. \A b \in Actors: ~Busy(b)' => at'[b] = "ready"
      BY <1>5, <2>1 DEF EnsureInv, ActorInv
    <3> QED
      BY <1>1, <2>2, <3>1, <3>2, <3>3, <3>4 DEF EnsureInv, ActorInv
  <2> QED
    BY <1>4, <2>3, <2>4, <2>5 DEF EnsureInv, OneWorld
<1>7. CASE <<s, pos[s]>> \notin deployed /\ Job(s) \in marked
  <2>1. at' = [at EXCEPT ![s] = "failed"] /\ pos' = pos /\ inflight' = inflight
    BY <1>7 DEF NextDeployment
  <2>2. Busy(s) /\ Fails(s) /\ UNCHANGED <<disk, arkd, index>> /\ faults' \in 0..MaxFaults
    BY <1>1, <1>2, <2>1 DEF Busy, Fails, disk, arkd, index, EnsureInv, OneWorld, EnsureTypeOK
  <2> QED
    BY <1>2, <2>1, <2>2, FailStep
<1>8. CASE <<s, pos[s]>> \notin deployed /\ Job(s) \notin marked
  <2> DEFINE t0 == [plan |-> plan, step |-> <<s, pos[s]>>]
  <2>1. /\ pos' = pos /\ at' = [at EXCEPT ![s] = "submit"]
        /\ inflight' = inflight \cup {Submit(t0)}
    BY <1>8 DEF NextDeployment, Send
  <2>2. t0 \in Tx /\ t0.plan = plan
    BY <1>2, <1>3 DEF Tx
  <2> HIDE DEF t0
  <2>3. /\ Submit(t0) \in [kind: {"submit", "finalize"}, tx: Tx] /\ Submit(t0).tx = t0
        /\ \A t: Finalize(t) # Submit(t0)
    BY <2>2 DEF Submit, Finalize
  <2>4. \A b \in Actors: at'[b] = IF b = s THEN "submit" ELSE at[b]
    BY <1>1, <2>1
  <2>5. EnsureTypeOK'
    BY <1>1, <1>2, <2>1, <2>3 DEF EnsureInv, OneWorld, EnsureTypeOK
  <2>6. NothingOutsideThePlan' /\ ManifestIsDeployed'
    <3>1. \A t \in (accepted \cup final \cup {r.tx: r \in inflight})': t.plan = plan
      BY <1>1, <1>3, <2>1, <2>2, <2>3
    <3> QED
      BY <1>1, <1>3, <3>1 DEF NothingOutsideThePlan, ManifestIsDeployed
  <2>7. ArkdInv'
    BY <1>1, <2>1, <2>3 DEF EnsureInv, ArkdInv, InputsExist
  <2>8. ActorInv'
    <3>1. \A b \in Actors: Job(b)' = Job(b)
      BY <1>1, <2>1 DEF Job
    <3>2. \A q \in Shards: at'[q] \in {"submit", "finalize", "wait"} => pos'[q] <= Sizes[q]
      BY <1>1, <2>1, <2>4 DEF EnsureInv, ActorInv, Actors
    <3>3. \A b \in Actors: ~Busy(b)' => at'[b] = "ready"
      BY <1>1, <1>2, <1>5, <2>4 DEF EnsureInv, ActorInv, Busy
    <3> QED
      BY <1>1, <1>5, <2>1, <2>4, <3>1, <3>2, <3>3 DEF EnsureInv, ActorInv
  <2> QED
    BY <1>4, <2>5, <2>6, <2>7, <2>8 DEF EnsureInv, OneWorld
<1> QED
  BY <1>6, <1>7, <1>8

-----------------------------------------------------------------------------
(* When every shard is done the whole plan is final: the deployments one   *)
(* by one, and what the first of a shard spends before them.               *)
LEMMA ShardsAreWorlds ==
  ASSUME EnsureInv, pc = "deploy", \A s \in Shards: ShardDone(s) /\ at[s] # "failed"
  PROVE  /\ \A step \in Steps: [plan |-> plan, step |-> step] \in final
         /\ \A a \in Actors: at[a] = "ready"
<1>1. \A s \in Shards: at[s] = "ready" /\ pos[s] > Sizes[s] /\ pos[s] \in Nat /\ Sizes[s] \in Nat \ {0}
  BY PlanSteps DEF ShardDone, EnsureInv, ActorInv
<1>2. \A s \in Shards: \A k \in 1..Sizes[s]: [plan |-> plan, step |-> <<s, k>>] \in final
  <2> SUFFICES ASSUME NEW s \in Shards, NEW k \in 1..Sizes[s]
               PROVE  [plan |-> plan, step |-> <<s, k>>] \in final
    OBVIOUS
  <2>1. k \in 1..(pos[s] - 1)
    BY <1>1
  <2> QED
    BY <2>1 DEF EnsureInv, ActorInv
<1>3. [plan |-> plan, step |-> Distribute] \in final
  <2>1. PICK s \in Shards: TRUE
    BY PlanSteps
  <2> DEFINE t == [plan |-> plan, step |-> <<s, 1>>]
  <2>2. t \in final /\ t.step = <<s, 1>> /\ <<s, 1>> # Issue
    BY <1>1, <1>2, PlanSteps
  <2>3. [t EXCEPT !.step = Before(t.step)] \in final
    <3>1. t \in accepted \cup final
      BY <2>2
    <3> HIDE DEF t
    <3> QED
      BY <2>2, <3>1 DEF EnsureInv, ArkdInv, InputsExist, OneWorld, EnsureTypeOK
  <2>4. Before(<<s, 1>>) = Distribute
    BY PlanSteps
  <2>5. [t EXCEPT !.step = Before(t.step)] = [plan |-> plan, step |-> Distribute]
    BY <2>4
  <2> QED
    BY <2>3, <2>5
<1>4. [plan |-> plan, step |-> Issue] \in final
  <2> DEFINE t == [plan |-> plan, step |-> Distribute]
  <2>1. [t EXCEPT !.step = Before(t.step)] \in final
    <3>1. t \in accepted \cup final /\ t.step # Issue
      BY <1>3, PlanSteps
    <3> HIDE DEF t
    <3> QED
      BY <3>1 DEF EnsureInv, ArkdInv, InputsExist
  <2>2. Before(Distribute) = Issue
    BY PlanSteps
  <2>3. [t EXCEPT !.step = Before(t.step)] = [plan |-> plan, step |-> Issue]
    BY <2>2
  <2> QED
    BY <2>1, <2>3
<1>5. \A step \in Deployments: [plan |-> plan, step |-> step] \in final
  BY <1>2 DEF Deployments
<1>6. \A a \in Actors: at[a] = "ready"
  <2>1. ~Busy(0)
    BY DEF Busy
  <2> QED
    BY <1>1, <2>1 DEF Actors, EnsureInv, ActorInv
<1> QED
  BY <1>3, <1>4, <1>5, <1>6 DEF Steps

LEMMA PublishStep == ASSUME EnsureInv, Publish PROVE EnsureInv'
<1>1. CASE \E s \in Shards: at[s] = "failed"
  <2>1. faults \in 0..MaxFaults
    BY DEF EnsureInv, OneWorld, EnsureTypeOK
  <2> QED
    BY <1>1, <2>1, StopStep DEF Publish, disk
<1>2. CASE ~\E s \in Shards: at[s] = "failed"
  <2>1. /\ UNCHANGED <<planFile, plan, deployed, spentOut, at, pos, inflight, accepted, final,
                       listed, marked, chopped, faults>>
        /\ pc = "deploy" /\ pc' = "clean" /\ manifest' = plan
        /\ \A s \in Shards: ShardDone(s) /\ at[s] # "failed"
    BY <1>2 DEF Publish, Goto, arkd, index
  <2>2. /\ \A step \in Steps: [plan |-> plan, step |-> step] \in final
        /\ \A a \in Actors: at[a] = "ready"
    BY <2>1, ShardsAreWorlds
  <2>3. /\ manifest = NoPlan /\ plan \in Plans /\ planFile = plan /\ plan # NoPlan
        /\ \A t \in accepted \cup final \cup {r.tx: r \in inflight}: t.plan = plan
    BY <2>1, AtWork DEF Plans
  <2>4. EnsureTypeOK'
    BY <2>1, <2>3 DEF EnsureInv, OneWorld, EnsureTypeOK, Stages
  <2>5. NothingOutsideThePlan' /\ ManifestIsDeployed'
    BY <2>1, <2>2, <2>3 DEF NothingOutsideThePlan, ManifestIsDeployed
  <2>6. PlanInv' /\ ArkdInv'
    BY <2>1, <2>3 DEF EnsureInv, PlanInv, ArkdInv, InputsExist
  <2>7. ActorInv'
    <3>1. /\ \A a \in Actors: at'[a] = "ready"
          /\ \A s \in Shards: at'[s] = "ready"
      BY <2>1, <2>2 DEF Actors
    <3> QED
      BY <2>1, <3>1 DEF EnsureInv, ActorInv
  <2> QED
    BY <2>4, <2>5, <2>6, <2>7 DEF EnsureInv, OneWorld
<1> QED
  BY <1>1, <1>2

LEMMA RemovePlanStep == ASSUME EnsureInv, RemovePlan PROVE EnsureInv'
<1>1. manifest # NoPlan /\ faults \in 0..MaxFaults
  BY DEF RemovePlan, EnsureInv, PlanInv, OneWorld, EnsureTypeOK
<1> QED
  BY <1>1, StopStep DEF RemovePlan

(* The indexer's listings and marks are of what is final.                  *)
LEMMA IndexesStep == ASSUME EnsureInv, NEW t \in final, Indexes(t) PROVE EnsureInv'
<1>1. /\ t \in Tx /\ listed \subseteq Deposits \cup Out /\ chopped \subseteq listed /\ marked \subseteq final
      /\ \A out \in listed \ Deposits: Maker(out) \in final
  BY DEF EnsureInv, OneWorld, EnsureTypeOK, ArkdInv
<1>2. ASSUME NEW out \in Outputs(t), List(out)
      PROVE  EnsureInv'
  <2>1. t = [plan |-> t.plan, step |-> t.step] /\ t.plan \in Plans
    BY <1>1 DEF Tx
  <2>2. out \in Out /\ Maker(out) = t
    <3>1. CASE \E step \in Steps \ {Issue}: Before(step) = t.step /\ out = Source(t.plan, step)
      BY <2>1, <3>1 DEF Source, Maker, Out
    <3>2. CASE out = TreeOut(t.plan, t.step)
      <4>1. t.step \in Steps
        BY <1>1 DEF Tx
      <4> QED
        BY <2>1, <3>2, <4>1 DEF TreeOut, Maker, Out
    <3> QED
      BY <1>2, <3>1, <3>2 DEF Outputs
  <2> QED
    BY <1>1, <1>2, <2>2, IndexStep DEF List
<1>3. ASSUME Mark(t)
      PROVE  EnsureInv'
  BY <1>1, <1>3, IndexStep DEF Mark
<1> QED
  BY <1>2, <1>3 DEF Indexes

(* Every step of the operator, of arkd and of the indexer.                 *)
LEMMA EnsureSteps == ASSUME EnsureInv, [EnsureNext]_ensureVars PROVE EnsureInv'
<1>1. /\ faults \in 0..MaxFaults /\ MaxFaults \in Nat
      /\ listed \subseteq Deposits \cup Out /\ chopped \subseteq listed /\ marked \subseteq final
      /\ \A out \in listed \ Deposits: Maker(out) \in final
  BY BootstrapAssumption DEF EnsureInv, OneWorld, EnsureTypeOK, ArkdInv
<1>2. Fault => faults' \in 0..MaxFaults
  BY <1>1 DEF Fault
<1>3. CASE UNCHANGED ensureVars
  BY <1>1, <1>3, StillStep DEF ensureVars
<1>4. CASE Command
  BY <1>4, StartStep, ChooseFundingStep, SavePlanStep, LookForTreesStep, LookForIssuanceStep,
     CheckFundingStep, LookForShardsStep, PublishStep, RemovePlanStep DEF Command
<1>5. CASE Failure
  <2>1. CASE Crash
    BY <1>2, <2>1, StopStep DEF Crash, disk
  <2>2. ASSUME NEW a \in Actors, GiveUp(a)
        PROVE  EnsureInv'
    BY <1>2, <2>2, FailStep DEF GiveUp
  <2>3. ASSUME NEW r \in inflight, Lose(r)
        PROVE  EnsureInv'
    BY <1>2, <2>3, StillStep DEF Lose
  <2> QED
    BY <1>5, <2>1, <2>2, <2>3 DEF Failure
<1>6. ASSUME NEW a \in Actors, Acts(a)
      PROVE  EnsureInv'
  <2>1. CASE TimesOut(a)
    BY <1>1, <2>1, FailStep DEF TimesOut
  <2> QED
    BY <1>6, <2>1, SendFinalizeStep, ReceivedStep, NextDeploymentStep DEF Acts
<1>7. ASSUME NEW r \in inflight, Lands(r.tx)
      PROVE  EnsureInv'
  BY <1>7, LandSubmitStep, RefuseStep, LandFinalizeStep DEF Lands
<1>8. ASSUME NEW t \in final, Indexes(t)
      PROVE  EnsureInv'
  BY <1>8, IndexesStep
<1>9. ASSUME NEW d \in Deposits, Arrive(d)
      PROVE  EnsureInv'
  BY <1>1, <1>9, IndexStep DEF Arrive
<1>10. ASSUME NEW tree \in listed \ (Deposits \cup chopped), ChopEarly(tree)
       PROVE  EnsureInv'
  BY <1>1, <1>10, IndexStep DEF ChopEarly
<1> QED
  BY <1>3, <1>4, <1>5, <1>6, <1>7, <1>8, <1>9, <1>10 DEF EnsureNext

(***************************************************************************)
(* Wherever `ensure` dies, whatever request is lost or repeated, whatever  *)
(* deposits arrive and however far the indexer lags: all that was ever     *)
(* sent is in the plan file or under the published manifest, and a         *)
(* published manifest names a world that exists.                           *)
(***************************************************************************)
THEOREM ThereIsOneWorld == EnsureSpec => []OneWorld
<1>1. EnsureInit => EnsureInv
  BY EnsureStarts
<1>2. EnsureInv /\ [EnsureNext]_ensureVars => EnsureInv'
  BY EnsureSteps
<1>3. EnsureInv => OneWorld
  BY DEF EnsureInv
<1> QED
  BY <1>1, <1>2, <1>3, PTL DEF EnsureSpec
=============================================================================
