---------------------------- MODULE ServerRegistry ----------------------------
(***************************************************************************)
(* The game server's registry (src/src/server.rs, watchtower.rs): signed   *)
(* registrations and renewal consent that must survive a restart, and a    *)
(* cache of every player's live output.  Request handlers, the refresh     *)
(* worker and the renewal worker share it; each of them reads it, awaits   *)
(* the indexer for as long as that takes, and writes it under a lock.      *)
(*                                                                         *)
(* External: the ledger (a player's output, which its owner keeps          *)
(* replacing) and the owners, who sign requests that may be delivered late *)
(* and more than once.  One time unit stands for both seconds and          *)
(* milliseconds.                                                           *)
(***************************************************************************)
EXTENDS Integers, FiniteSets

CONSTANTS
    Players,       \* PLAYER_IDs, as numbers in the order of the map's keys;
                   \* each has one owner, named by its issuance metadata
    Handlers,      \* requests in flight at once
    Signatures,    \* registration signatures an owner makes
    MaxPlayers,    \* MAX_REGISTERED_PLAYERS
    ClockSkew,     \* ACTION_CLOCK_SKEW_MS
    Life,          \* lifetime of a renewed output
    Margin,        \* rollover_margin_seconds
    BatchSize,     \* VERIFY_BATCH_SIZE
    CursorWrap,    \* bound: refresh_cursor modulo a multiple of all map sizes
    MaxNow, MaxVersion, MaxSigned, MaxFaults, MaxCrashes   \* bounds

ASSUME RegistryAssumption ==
    /\ Players \subseteq Nat /\ IsFiniteSet(Players)
    /\ "none" \notin Signatures /\ "renewal" \notin Handlers
    /\ BatchSize \in Nat \ {0} /\ CursorWrap \in Nat \ {0}
    /\ MaxPlayers \in Nat /\ ClockSkew \in Nat
    /\ Life \in Nat /\ Margin \in 1..Life
    /\ MaxNow \in Nat \ {0} /\ MaxVersion \in Nat \ {0}
    /\ MaxSigned \in Nat /\ MaxFaults \in Nat /\ MaxCrashes \in Nat

VARIABLES
    now,
    ledger,     \* ledger[p]: the version and expiry of p's live output
    registry,   \* AppState.registry: entries by PLAYER_ID
    disk,       \* the registry file
    lastAction, \* MultiplayerState.action_timestamps of the delegation action
    handler,    \* the request handlers
    writer,     \* persist_lock, and the snapshot its holder is writing
    refresh,    \* the refresh worker
    cursor,     \* refresh_cursor
    renewal,    \* the renewal worker
    signed,     \* delegation requests the owners have signed
    acked,      \* requests answered with success
    faults, crashes

vars == <<now, ledger, registry, disk, lastAction, handler, writer,
          refresh, cursor, renewal, signed, acked, faults, crashes>>

-----------------------------------------------------------------------------
(* LeaderboardPlayer, reduced to what the server decides by.               *)
NoState == [version |-> 0, expires |-> 0, active |-> FALSE, updatedAt |-> 0]
PlayerStates == [version : Nat, expires : Nat,
                 active : BOOLEAN, updatedAt : 0..MaxNow]

(* RegisteredPlayer; a PLAYER_ID without an entry has signature "none".    *)
NoEntry == [signature |-> "none", delegated |-> FALSE, updatedAt |-> 0,
            state |-> NoState]
RegisteredPlayers == [signature : Signatures \cup {"none"}, delegated : BOOLEAN,
                      updatedAt : 0..MaxNow, state : PlayerStates]

Registered(p) == registry[p].signature # "none"

\* What the registry file keeps of an entry: state is #[serde(skip)].
Stored(entries) == [p \in Players |-> [entries[p] EXCEPT !.state = NoState]]

SameRegistration(entry, snapshot) == entry.signature = snapshot.signature

\* Mutant: only what is cached is updated, so a restart is never made good.
ApplyVerifiedStateCached(entry, snapshot, verified) ==
    IF SameRegistration(entry, snapshot) /\ entry.state = snapshot.state
       /\ NoState \notin {entry.state, verified}
    THEN [entry EXCEPT !.state = verified] ELSE entry

\* Mutant: a verification overwrites whatever was published meanwhile.
ApplyVerifiedStateBlind(entry, snapshot, verified) ==
    IF ~SameRegistration(entry, snapshot) THEN entry
    ELSE IF verified # NoState THEN [entry EXCEPT !.state = verified]
    ELSE IF entry.state # NoState
         THEN [entry EXCEPT !.state.active = FALSE, !.state.updatedAt = now]
    ELSE entry

(* RegisteredPlayer::apply_verified_state                                  *)
ApplyVerifiedState(entry, snapshot, verified) ==
    IF ~SameRegistration(entry, snapshot) \/ entry.state # snapshot.state THEN entry
    ELSE IF verified # NoState THEN [entry EXCEPT !.state = verified]
    ELSE IF entry.state # NoState
         THEN [entry EXCEPT !.state.active = FALSE, !.state.updatedAt = now]
    ELSE entry

(* RegisteredPlayer::renewal_due, with force_renewal_once unset.           *)
RenewalDue(entry) ==
    LET remaining == entry.state.expires - now
    IN  entry.delegated /\ entry.state.active /\ remaining > 0 /\ remaining < Margin

\* Mutant: the consent is not looked at again when the queue gets there.
QueuedRenewalAuthorizedAlways(entry, queued) == SameRegistration(entry, queued)

(* RegisteredPlayer::queued_renewal_authorized                             *)
QueuedRenewalAuthorized(entry, queued) ==
    /\ SameRegistration(entry, queued)
    /\ entry.updatedAt = queued.updatedAt
    /\ RenewalDue(entry)

-----------------------------------------------------------------------------
Requests == [player : Players, at : 1..MaxNow, enabled : BOOLEAN]

\* A registration that was answered with success, as a member of acked.
Registration(p) == [player |-> p, at |-> 0, enabled |-> FALSE]

Idle == [pc |-> "idle"]
Free == [busy |-> FALSE]

Init ==
    /\ now = 1
    /\ ledger = [p \in Players |-> [version |-> 1, expires |-> 1 + Life]]
    /\ registry = [p \in Players |-> NoEntry]
    /\ disk = [p \in Players |-> NoEntry]
    /\ lastAction = [p \in Players |-> 0]
    /\ handler = [h \in Handlers |-> Idle]
    /\ writer = Free
    /\ refresh = Idle /\ cursor = 0
    /\ renewal = Idle
    /\ signed = {} /\ acked = {}
    /\ faults = 0 /\ crashes = 0

Live(p) == ledger[p].expires > now

(* What Verifier::verify may answer now: the live output, or, once it has  *)
(* expired, that output until it is swept and nothing afterwards.          *)
Verified(p) ==
    {[version |-> ledger[p].version, expires |-> ledger[p].expires,
      active |-> Live(p), updatedAt |-> now]}
    \cup IF Live(p) THEN {} ELSE {NoState}

-----------------------------------------------------------------------------
(* The ledger, the owners and the clock.                                   *)

Tick ==
    /\ now < MaxNow
    /\ now' = now + 1
    /\ UNCHANGED <<ledger, registry, disk, lastAction, handler, writer,
                   refresh, cursor, renewal, signed, acked, faults, crashes>>

\* A chop, craft or withdrawal replaces the output within its batch; a
\* renewal by the owner moves it to a new one.
Play(p) ==
    /\ Live(p) /\ ledger[p].version < MaxVersion
    /\ \E expires \in {ledger[p].expires, now + Life} :
          ledger' = [ledger EXCEPT ![p] = [version |-> @.version + 1, expires |-> expires]]
    /\ UNCHANGED <<now, registry, disk, lastAction, handler, writer,
                   refresh, cursor, renewal, signed, acked, faults, crashes>>

\* An owner's devices may disagree on the time, within the accepted window.
InWindow(at) == at - now <= ClockSkew /\ now - at <= ClockSkew

Sign(p, at, enabled) ==
    /\ Cardinality(signed) < MaxSigned
    /\ InWindow(at)
    /\ signed' = signed \cup {[player |-> p, at |-> at, enabled |-> enabled]}
    /\ UNCHANGED <<now, ledger, registry, disk, lastAction, handler, writer,
                   refresh, cursor, renewal, acked, faults, crashes>>

-----------------------------------------------------------------------------
(* Request handlers.  A handler that stops early leaves through Abandon.   *)

\* Past its verification a handler only carries its request on.
Goto(h, pc) ==
    handler' = [handler EXCEPT ![h] =
        IF "request" \in DOMAIN @ THEN [pc |-> pc, request |-> @.request]
        ELSE [pc |-> pc, player |-> @.player]]

(* set_delegation, authorize_action: read the entry; a player the cache    *)
(* does not hold active is verified first.                                 *)
ReceiveDelegation(h, request) ==
    LET p == request.player
        state == registry[p].state
    IN  /\ handler[h] = Idle
        /\ request \in signed
        /\ Registered(p)
        /\ handler' = [handler EXCEPT ![h] =
              IF state.active /\ state.expires > now
              THEN [pc |-> "authorize", request |-> request]
              ELSE [pc |-> "verify", request |-> request,
                    snapshot |-> registry[p], verified |-> NoState]]
        /\ UNCHANGED <<now, ledger, registry, disk, lastAction, writer,
                       refresh, cursor, renewal, signed, acked, faults, crashes>>

(* register_player: an identical replay is answered from memory            *)
(* (replayed_registration).                                                *)
ReceiveRegistration(h, p, signature) ==
    /\ handler[h] = Idle
    /\ IF registry[p].signature = signature /\ registry[p].state # NoState
       THEN /\ acked' = acked \cup {Registration(p)}
            /\ UNCHANGED handler
       ELSE /\ handler' = [handler EXCEPT ![h] =
                  [pc |-> "snapshot", player |-> p, signature |-> signature]]
            /\ UNCHANGED acked
    /\ UNCHANGED <<now, ledger, registry, disk, lastAction, writer,
                   refresh, cursor, renewal, signed, faults, crashes>>

(* register_player takes the lock again for the entry it will verify.      *)
SnapshotRegistration(h) ==
    /\ handler[h].pc = "snapshot"
    /\ handler' = [handler EXCEPT ![h] =
          [pc |-> "verify", player |-> @.player, signature |-> @.signature,
           snapshot |-> registry[@.player], verified |-> NoState]]
    /\ UNCHANGED <<now, ledger, registry, disk, lastAction, writer,
                   refresh, cursor, renewal, signed, acked, faults, crashes>>

IsDelegation(h) == "request" \in DOMAIN handler[h]
PlayerOf(h) == IF IsDelegation(h) THEN handler[h].request.player ELSE handler[h].player

(* The indexer answers; an answer without a live state ends the request.   *)
HandlerVerified(h) ==
    /\ handler[h].pc = "verify"
    /\ \E verified \in Verified(PlayerOf(h)) :
          handler' = [handler EXCEPT ![h] =
              IF verified = NoState THEN Idle
              ELSE [@ EXCEPT !.pc = "verified", !.verified = verified]]
    /\ UNCHANGED <<now, ledger, registry, disk, lastAction, writer,
                   refresh, cursor, renewal, signed, acked, faults, crashes>>

(* authorize_action writes the verified state through.                     *)
ApplyOnAction(h) ==
    LET p == PlayerOf(h)
    IN  /\ handler[h].pc = "verified" /\ IsDelegation(h)
        /\ registry' = [registry EXCEPT ![p] =
              ApplyVerifiedState(@, handler[h].snapshot, handler[h].verified)]
        /\ Goto(h, "authorize")
        /\ UNCHANGED <<now, ledger, disk, lastAction, writer,
                       refresh, cursor, renewal, signed, acked, faults, crashes>>

(* authorize_action: the clock window, then the replay clock.              *)
Authorize(h) ==
    LET request == handler[h].request
    IN  /\ handler[h].pc = "authorize"
        /\ InWindow(request.at)
        /\ request.at > lastAction[request.player]
        /\ lastAction' = [lastAction EXCEPT ![request.player] = request.at]
        /\ Goto(h, "update")
        /\ UNCHANGED <<now, ledger, registry, disk, writer,
                       refresh, cursor, renewal, signed, acked, faults, crashes>>

\* Mutant: only the in-memory replay clock orders the updates.
SetDelegationUnordered(h) ==
    LET request == handler[h].request
    IN  /\ handler[h].pc = "update"
        /\ registry' = [registry EXCEPT ![request.player] =
              [@ EXCEPT !.delegated = request.enabled, !.updatedAt = request.at]]
        /\ Goto(h, "persist")
        /\ UNCHANGED <<now, ledger, disk, lastAction, writer,
                       refresh, cursor, renewal, signed, acked, faults, crashes>>

\* Mutant: the flag is written before the update is found to be stale.
SetDelegationEarly(h) ==
    LET request == handler[h].request
    IN  /\ handler[h].pc = "update"
        /\ registry' = [registry EXCEPT ![request.player] =
              [@ EXCEPT !.delegated = request.enabled,
                        !.updatedAt = IF request.at > @ THEN request.at ELSE @]]
        /\ Goto(h, "persist")
        /\ UNCHANGED <<now, ledger, disk, lastAction, writer,
                       refresh, cursor, renewal, signed, acked, faults, crashes>>

(* set_delegation: only a newer signed update changes the consent.         *)
SetDelegation(h) ==
    LET request == handler[h].request
    IN  /\ handler[h].pc = "update"
        /\ request.at > registry[request.player].updatedAt
        /\ registry' = [registry EXCEPT ![request.player] =
              [@ EXCEPT !.delegated = request.enabled, !.updatedAt = request.at]]
        /\ Goto(h, "persist")
        /\ UNCHANGED <<now, ledger, disk, lastAction, writer,
                       refresh, cursor, renewal, signed, acked, faults, crashes>>

NewEntry(signature, verified) ==
    [NoEntry EXCEPT !.signature = signature, !.state = verified]

(* merge_verified_registration: an entry made since keeps its consent.     *)
MergeVerifiedRegistration(p, snapshot, signature, verified) ==
    IF ~Registered(p) THEN NewEntry(signature, verified)
    ELSE [IF snapshot = NoEntry THEN registry[p]
          ELSE ApplyVerifiedState(registry[p], snapshot, verified)
             EXCEPT !.signature = signature]

\* Mutant: the player limit is not looked at again under the lock.
RegisterUnlimited(h) ==
    LET p == handler[h].player
    IN  /\ handler[h].pc = "verified" /\ ~IsDelegation(h)
        /\ registry' = [registry EXCEPT ![p] =
              MergeVerifiedRegistration(p, handler[h].snapshot,
                                        handler[h].signature, handler[h].verified)]
        /\ Goto(h, "persist")
        /\ UNCHANGED <<now, ledger, disk, lastAction, writer,
                       refresh, cursor, renewal, signed, acked, faults, crashes>>

Register(h) ==
    LET p == handler[h].player
    IN  /\ handler[h].pc = "verified" /\ ~IsDelegation(h)
        /\ Registered(p) \/ Cardinality({q \in Players : Registered(q)}) < MaxPlayers
        /\ registry' = [registry EXCEPT ![p] =
              MergeVerifiedRegistration(p, handler[h].snapshot,
                                        handler[h].signature, handler[h].verified)]
        /\ Goto(h, "persist")
        /\ UNCHANGED <<now, ledger, disk, lastAction, writer,
                       refresh, cursor, renewal, signed, acked, faults, crashes>>

-----------------------------------------------------------------------------
(* persist: under persist_lock, a snapshot of the registry, then a write   *)
(* to a temporary file and its rename.                                     *)

Snapshot(holder) ==
    writer' = [busy |-> TRUE, holder |-> holder, file |-> Stored(registry)]

StartPersist(h) ==
    /\ handler[h].pc = "persist"
    /\ writer = Free
    /\ Snapshot(h)
    /\ Goto(h, "saving")
    /\ UNCHANGED <<now, ledger, registry, disk, lastAction,
                   refresh, cursor, renewal, signed, acked, faults, crashes>>

FinishPersist(h) ==
    /\ handler[h].pc = "saving"
    /\ disk' = writer.file
    /\ writer' = Free
    /\ acked' = acked \cup {IF IsDelegation(h) THEN handler[h].request
                             ELSE Registration(handler[h].player)}
    /\ handler' = [handler EXCEPT ![h] = Idle]
    /\ UNCHANGED <<now, ledger, registry, lastAction,
                   refresh, cursor, renewal, signed, faults, crashes>>

(* A handler ends without success: upstream or storage fails, a guard      *)
(* refuses, or the client hangs up and the server drops the request at an  *)
(* await.  The write itself holds no await.                                *)
Abandon(h) ==
    /\ handler[h] # Idle
    /\ handler' = [handler EXCEPT ![h] = Idle]
    /\ writer' = IF handler[h].pc = "saving" THEN Free ELSE writer
    /\ UNCHANGED <<now, ledger, registry, disk, lastAction,
                   refresh, cursor, renewal, signed, acked, faults, crashes>>

-----------------------------------------------------------------------------
(* refresh_batch: a window of the registry that moves on with every pass,  *)
(* and every delegated player; results are applied together.               *)

Rank(p) == Cardinality({q \in Players : Registered(q) /\ q < p})

\* Mutant: the cursor is not advanced by a pass.
NextCursorStuck(length) == cursor

NextCursor(length) == (cursor + length) % CursorWrap

StartRefresh ==
    LET total == Cardinality({p \in Players : Registered(p)})
        length == IF BatchSize < total THEN BatchSize ELSE total
        window == {p \in Players : Registered(p)
                      /\ (Rank(p) - (cursor % total)) % total < length}
        selected == window \cup {p \in Players : Registered(p) /\ registry[p].delegated}
    IN  /\ refresh = Idle
        /\ total > 0
        /\ cursor' = NextCursor(length)
        /\ refresh' = [pc |-> "verify", pending |-> selected,
                       snapshot |-> [p \in selected |-> registry[p]],
                       verified |-> [p \in selected |-> {}]]
        /\ UNCHANGED <<now, ledger, registry, disk, lastAction, handler, writer,
                       renewal, signed, acked, faults, crashes>>

(* The verifications of a pass run concurrently; one that fails leaves no  *)
(* result.                                                                 *)
RefreshVerified(p) ==
    /\ refresh.pc = "verify" /\ p \in refresh.pending
    /\ \E verified \in Verified(p) :
          refresh' = [refresh EXCEPT !.pending = @ \ {p},
                                     !.verified[p] = {verified}]
    /\ UNCHANGED <<now, ledger, registry, disk, lastAction, handler, writer,
                   cursor, renewal, signed, acked, faults, crashes>>

RefreshFailed(p) ==
    /\ refresh.pc = "verify" /\ p \in refresh.pending
    /\ faults < MaxFaults
    /\ faults' = faults + 1
    /\ refresh' = [refresh EXCEPT !.pending = @ \ {p}]
    /\ UNCHANGED <<now, ledger, registry, disk, lastAction, handler, writer,
                   cursor, renewal, signed, acked, crashes>>

FinishRefresh ==
    /\ refresh.pc = "verify" /\ refresh.pending = {}
    /\ registry' = [p \in Players |->
          IF p \in DOMAIN refresh.snapshot /\ refresh.verified[p] # {}
          THEN LET verified == CHOOSE v \in refresh.verified[p] : TRUE
               IN  ApplyVerifiedState(registry[p], refresh.snapshot[p], verified)
          ELSE registry[p]]
    /\ refresh' = Idle
    /\ UNCHANGED <<now, ledger, disk, lastAction, handler, writer,
                   cursor, renewal, signed, acked, faults, crashes>>

-----------------------------------------------------------------------------
(* renew_delegated_players: queue what is due, and take the queue in order.*)

StartRenewals ==
    LET due == {p \in Players : RenewalDue(registry[p])}
    IN  /\ renewal = Idle
        /\ due # {}
        /\ renewal' = [pc |-> "queue", due |-> due, changed |-> FALSE,
                       queued |-> [p \in due |-> registry[p]]]
        /\ UNCHANGED <<now, ledger, registry, disk, lastAction, handler, writer,
                       refresh, cursor, signed, acked, faults, crashes>>

(* The queue is in the order of the map's keys.  The consent and the cache *)
(* are read again when the player's turn comes.                            *)
TakeQueued ==
    /\ renewal.pc = "queue"
    /\ \E p \in renewal.due :
          /\ \A q \in renewal.due : p <= q
          /\ renewal' =
                IF QueuedRenewalAuthorized(registry[p], renewal.queued[p])
                THEN [pc |-> "fetch", due |-> renewal.due \ {p}, player |-> p,
                      changed |-> renewal.changed, queued |-> renewal.queued]
                ELSE [renewal EXCEPT !.due = @ \ {p}]
    /\ UNCHANGED <<now, ledger, registry, disk, lastAction, handler, writer,
                   refresh, cursor, signed, acked, faults, crashes>>

\* Back to the queue, whatever became of the player.
Requeue(changed) ==
    renewal' = [pc |-> "queue", due |-> renewal.due, changed |-> changed,
                queued |-> renewal.queued]

\* Mutant: the live output is renewed whatever its expiry.
RolloverDueAlways(output) == output.expires > now

(* watchtower::renew_player, require_rollover_due, and ensure_live.        *)
RolloverDue(output) == output.expires > now /\ output.expires - now < Margin

(* watchtower::renew_player reads the live output and joins a batch with it*)
FetchRecord ==
    LET p == renewal.player
    IN  /\ renewal.pc = "fetch"
        /\ IF RolloverDue(ledger[p])
           THEN renewal' = [pc |-> "settle", due |-> renewal.due, player |-> p,
                            changed |-> renewal.changed, queued |-> renewal.queued,
                            output |-> ledger[p]]
           ELSE Requeue(renewal.changed)
        /\ UNCHANGED <<now, ledger, registry, disk, lastAction, handler, writer,
                       refresh, cursor, signed, acked, faults, crashes>>

(* The batch spends the very output it was prepared for, or fails.         *)
Settle ==
    LET p == renewal.player
        spendable == ledger[p] = renewal.output /\ Live(p)
    IN  /\ renewal.pc = "settle"
        /\ IF spendable
           THEN /\ ledger' = [ledger EXCEPT ![p] =
                                 [version |-> @.version + 1, expires |-> now + Life]]
                /\ renewal' = [renewal EXCEPT !.pc = "renewed"]
           ELSE Requeue(renewal.changed) /\ UNCHANGED ledger
        /\ UNCHANGED <<now, registry, disk, lastAction, handler, writer,
                       refresh, cursor, signed, acked, faults, crashes>>

(* The cache is read only after the renewal, then verified and applied.    *)
SnapshotRenewed ==
    /\ renewal.pc = "renewed"
    /\ renewal' = [pc |-> "verify", due |-> renewal.due, player |-> renewal.player,
                   changed |-> renewal.changed, queued |-> renewal.queued,
                   snapshot |-> registry[renewal.player]]
    /\ UNCHANGED <<now, ledger, registry, disk, lastAction, handler, writer,
                   refresh, cursor, signed, acked, faults, crashes>>

VerifyRenewed ==
    /\ renewal.pc = "verify"
    /\ \E verified \in Verified(renewal.player) :
          IF verified = NoState THEN Requeue(renewal.changed)
          ELSE renewal' = [pc |-> "apply", due |-> renewal.due,
                           player |-> renewal.player, changed |-> renewal.changed,
                           queued |-> renewal.queued, snapshot |-> renewal.snapshot,
                           verified |-> verified]
    /\ UNCHANGED <<now, ledger, registry, disk, lastAction, handler, writer,
                   refresh, cursor, signed, acked, faults, crashes>>

ApplyRenewed ==
    LET p == renewal.player
        applies == SameRegistration(registry[p], renewal.snapshot)
                   /\ registry[p].state = renewal.snapshot.state
    IN  /\ renewal.pc = "apply"
        /\ registry' = [registry EXCEPT ![p] =
              ApplyVerifiedState(@, renewal.snapshot, renewal.verified)]
        /\ Requeue(renewal.changed \/ applies)
        /\ UNCHANGED <<now, ledger, disk, lastAction, handler, writer,
                       refresh, cursor, signed, acked, faults, crashes>>

\* The batch, the indexer or the verification fails; the queue goes on.
RenewalFailed ==
    /\ renewal.pc \in {"fetch", "settle", "renewed", "verify"}
    /\ faults < MaxFaults
    /\ faults' = faults + 1
    /\ Requeue(renewal.changed)
    /\ UNCHANGED <<now, ledger, registry, disk, lastAction, handler, writer,
                   refresh, cursor, signed, acked, crashes>>

StartRenewalPersist ==
    /\ renewal.pc = "queue" /\ renewal.due = {}
    /\ IF renewal.changed
       THEN /\ writer = Free
            /\ Snapshot("renewal")
            /\ renewal' = [pc |-> "saving"]
       ELSE renewal' = Idle /\ UNCHANGED writer
    /\ UNCHANGED <<now, ledger, registry, disk, lastAction, handler,
                   refresh, cursor, signed, acked, faults, crashes>>

FinishRenewalPersist ==
    /\ renewal.pc = "saving"
    /\ disk' \in {writer.file, disk}
    /\ writer' = Free
    /\ renewal' = Idle
    /\ UNCHANGED <<now, ledger, registry, lastAction, handler,
                   refresh, cursor, signed, acked, faults, crashes>>

-----------------------------------------------------------------------------
(* The process dies and run_cli starts it again from the file.             *)
Crash ==
    /\ crashes < MaxCrashes
    /\ crashes' = crashes + 1
    /\ registry' = disk
    /\ lastAction' = [p \in Players |-> 0]
    /\ handler' = [h \in Handlers |-> Idle]
    /\ writer' = Free
    /\ refresh' = Idle /\ cursor' = 0
    /\ renewal' = Idle
    /\ UNCHANGED <<now, ledger, disk, signed, acked, faults>>

-----------------------------------------------------------------------------
HandlerStep(h) ==
    \/ \E request \in signed : ReceiveDelegation(h, request)
    \/ \E p \in Players, signature \in Signatures : ReceiveRegistration(h, p, signature)
    \/ SnapshotRegistration(h)
    \/ HandlerVerified(h) \/ ApplyOnAction(h) \/ Authorize(h) \/ SetDelegation(h)
    \/ Register(h)
    \/ StartPersist(h) \/ FinishPersist(h) \/ Abandon(h)

RefreshProgress ==
    StartRefresh \/ (\E p \in Players : RefreshVerified(p)) \/ FinishRefresh

RenewalProgress ==
    \/ StartRenewals \/ TakeQueued \/ FetchRecord \/ Settle \/ SnapshotRenewed
    \/ VerifyRenewed \/ ApplyRenewed \/ StartRenewalPersist \/ FinishRenewalPersist

Environment ==
    \/ Tick
    \/ \E p \in Players : Play(p)
    \/ \E p \in Players, at \in 1..MaxNow, enabled \in BOOLEAN : Sign(p, at, enabled)

Next ==
    \/ Environment
    \/ \E h \in Handlers : HandlerStep(h)
    \/ RefreshProgress \/ \E p \in Players : RefreshFailed(p)
    \/ RenewalProgress \/ RenewalFailed
    \/ Crash

Spec == Init /\ [][Next]_vars

(* Both workers run from their own interval as long as the process does,   *)
(* and the lock of a dropped request is released: tokio schedules every    *)
(* runnable task.                                                          *)
Fairness ==
    /\ WF_vars(RefreshProgress)
    /\ WF_vars(RenewalProgress)
    /\ \A h \in Handlers : WF_vars(FinishPersist(h) \/ Abandon(h))

LiveSpec == Spec /\ Fairness

-----------------------------------------------------------------------------
HandlerStates ==
    {Idle}
    \cup [pc : {"verify", "verified"}, request : Requests,
          snapshot : RegisteredPlayers, verified : PlayerStates]
    \cup [pc : {"verify", "verified"}, player : Players, signature : Signatures,
          snapshot : RegisteredPlayers, verified : PlayerStates]
    \cup [pc : {"authorize", "update", "persist", "saving"}, request : Requests]
    \cup [pc : {"snapshot"}, player : Players, signature : Signatures]
    \cup [pc : {"persist", "saving"}, player : Players]

\* Whoever is writing the file holds the lock for it (src/server.rs:709-731).
LockIsHeld ==
    /\ \A h \in Handlers :
         handler[h].pc = "saving" => writer.busy /\ writer.holder = h
    /\ renewal.pc = "saving" => writer.busy /\ writer.holder = "renewal"

TypeOK ==
    /\ now \in 1..MaxNow
    /\ ledger \in [Players -> [version : Nat, expires : Nat]]
    /\ registry \in [Players -> RegisteredPlayers]
    /\ disk \in [Players -> RegisteredPlayers]
    /\ lastAction \in [Players -> 0..MaxNow]
    /\ handler \in [Handlers -> HandlerStates]
    /\ writer = Free \/ writer.file \in [Players -> RegisteredPlayers]
    /\ cursor \in 0..(CursorWrap - 1)
    /\ signed \subseteq Requests
    /\ acked \subseteq signed \cup {Registration(p) : p \in Players}
    /\ faults \in 0..MaxFaults /\ crashes \in 0..MaxCrashes

(* An answered consent change survives everything that may follow: other   *)
(* requests and registrations in flight, replays, snapshots of the file    *)
(* taken before it, and a crash.  Only a newer signed one replaces it      *)
(* (persist, set_delegation, merge_verified_registration; SCALING.md:43,   *)
(* PLAYER.md:226).                                                         *)
Honours(entry, request) ==
    \/ entry.updatedAt > request.at
    \/ entry.updatedAt = request.at /\ entry.delegated = request.enabled

AcknowledgedConsentSurvives ==
    \A request \in acked \cap signed :
        /\ Honours(registry[request.player], request)
        /\ Honours(disk[request.player], request)

(* Whatever delegation memory or file claims, its owner signed exactly it: *)
(* none is invented by a registration, a merge or a reload.                *)
DelegationIsSigned ==
    \A p \in Players : \A entry \in {registry[p], disk[p]} :
        entry.delegated =>
            [player |-> p, at |-> entry.updatedAt, enabled |-> TRUE] \in signed

\* Neither memory nor the file grows past what load_registry accepts.
RoomIsKept ==
    \A entries \in {registry, disk} :
        Cardinality({p \in Players : entries[p].signature # "none"}) <= MaxPlayers

(* However many register at once, the server can be started again from its *)
(* own file (src/server.rs:649, 971); only the holder of the lock writes   *)
(* that file; memory, file, requests and workers are well typed.           *)
RegistryIsSound == TypeOK /\ LockIsHeld /\ RoomIsKept

(* An answered registration is in the file (README.md:299, "Registration   *)
(* persists").                                                             *)
RegistrationPersists ==
    \A p \in Players :
        Registration(p) \in acked => disk[p].signature # "none"

-----------------------------------------------------------------------------
(* While the process lives, the published state of a player never goes     *)
(* back to an output that a newer one has replaced, however slow a         *)
(* verification was ("Only update the cache that was actually read").      *)
CacheNeverRegresses ==
    [][crashes' = crashes =>
         \A p \in Players : registry'[p].state.version >= registry[p].state.version]_vars

(* The watchtower starts no renewal that an answered revocation forbids,   *)
(* even when the player was queued before it ("Honor revocation and newer  *)
(* state before starting queued work").                                    *)
RevocationStep ==
    (renewal.pc = "queue" /\ renewal'.pc = "fetch") =>
      \A request \in acked \cap signed :
         (request.player = renewal'.player /\ ~request.enabled) =>
            \E later \in signed :
               /\ later.player = request.player
               /\ later.enabled
               /\ later.at > request.at

RevocationsAreHonoured == [][RevocationStep]_vars

(* The watchtower moves an output only near its expiry, even when what the *)
(* server cached of it is out of date (PLAYER.md:228-229).                 *)
RenewalStep ==
    (renewal.pc = "settle" /\ renewal'.pc = "renewed") =>
      ledger[renewal.player].expires \in (now + 1)..(now + Margin - 1)

OnlyDueOutputsAreRenewed == [][RenewalStep]_vars

-----------------------------------------------------------------------------
(* A delegated player whose output is due is renewed while time allows,    *)
(* through restarts, failed verifications and changes of its state.        *)
DelegatedPlayersAreRenewed ==
    \A p \in Players :
        (registry[p].delegated /\ RolloverDue(ledger[p]))
            ~> (~registry[p].delegated \/ ~RolloverDue(ledger[p]))

(* The refresh window reaches every registered player: the leaderboard     *)
(* shows its live output again and again, delegated or not.                *)
CacheCatchesUp ==
    \A p \in Players :
        []<>((Registered(p) /\ Live(p)) => registry[p].state.version = ledger[p].version)
=============================================================================
