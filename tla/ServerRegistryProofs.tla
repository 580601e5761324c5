------------------------ MODULE ServerRegistryProofs -------------------------
(***************************************************************************)
(* The consent the server answered for and acts on, the room and the lock  *)
(* of its registry, and the versions it publishes, for any players,        *)
(* requests in flight, failures and crashes.                               *)
(***************************************************************************)
EXTENDS ServerRegistry, FiniteSetTheorems, TLAPS

Fields == {"signature", "delegated", "updatedAt", "state"}

EntryOK(p, e) ==
  /\ DOMAIN e = Fields /\ e.delegated \in BOOLEAN /\ e.updatedAt \in Nat
  /\ e.signature = "none" => ~e.delegated /\ e.updatedAt = 0
  /\ e.delegated => [player |-> p, at |-> e.updatedAt, enabled |-> TRUE] \in signed

FileOK(entries) ==
  /\ DOMAIN entries = Players
  /\ \A p \in Players: EntryOK(p, entries[p])

HonoursAcked(entries) ==
  \A request \in acked \cap signed: Honours(entries[request.player], request)

EntriesInv ==
  /\ FileOK(registry) /\ HonoursAcked(registry)
  /\ FileOK(disk) /\ HonoursAcked(disk)
  /\ writer.busy => FileOK(writer.file) /\ HonoursAcked(writer.file)

AcksInv == signed \subseteq Requests /\ \A a \in acked: a \in signed \/ a.at = 0

(* From its update to its answer a handler finds its request honoured: in  *)
(* memory, and once it holds the lock in the file it is about to write,    *)
(* which nobody else writes.                                               *)
HandlerOK(h) ==
  /\ "pc" \in DOMAIN handler[h]
  /\ IsDelegation(h) => handler[h].request \in signed /\ Registered(handler[h].request.player)
  /\ handler[h].pc \in {"authorize", "update"} => IsDelegation(h)
  /\ handler[h].pc = "snapshot" => ~IsDelegation(h)
  /\ handler[h].pc \in {"snapshot", "verify", "verified"} /\ ~IsDelegation(h)
       => handler[h].signature \in Signatures
  /\ handler[h].pc \in {"persist", "saving"} /\ IsDelegation(h)
       => Honours(registry[handler[h].request.player], handler[h].request)
  /\ handler[h].pc = "saving"
       => /\ writer.busy /\ writer.holder = h /\ renewal.pc # "saving"
          /\ IsDelegation(h)
               => Honours(writer.file[handler[h].request.player], handler[h].request)

HandlersInv == DOMAIN handler = Handlers /\ \A h \in Handlers: HandlerOK(h)

RenewalInv == "pc" \in DOMAIN renewal /\ (renewal.pc = "saving" => writer.busy)

ConsentInv == EntriesInv /\ AcksInv /\ HandlersInv /\ RenewalInv

-----------------------------------------------------------------------------
\* An entry changes into one with the same consent, or with a newer one.
Follows(e, f) ==
  /\ f.updatedAt > e.updatedAt \/ (f.updatedAt = e.updatedAt /\ f.delegated = e.delegated)
  /\ e.signature # "none" => f.signature # "none"

SameConsent(e, f) ==
  /\ DOMAIN f = Fields
  /\ f.updatedAt = e.updatedAt /\ f.delegated = e.delegated /\ f.signature = e.signature

LEMMA AppliedConsent ==
  ASSUME NEW e, DOMAIN e = Fields, NEW snapshot, NEW verified
  PROVE  SameConsent(e, ApplyVerifiedState(e, snapshot, verified))
BY DEF SameConsent, ApplyVerifiedState, Fields

LEMMA SameFollows ==
  ASSUME NEW p, NEW e, NEW f, EntryOK(p, e), SameConsent(e, f)
  PROVE  EntryOK(p, f) /\ Follows(e, f)
BY DEF EntryOK, SameConsent, Follows

LEMMA HonoursFollows ==
  ASSUME NEW e, NEW f, e.updatedAt \in Nat, f.updatedAt \in Nat, Follows(e, f),
         NEW request \in Requests, Honours(e, request)
  PROVE  Honours(f, request)
BY DEF Honours, Follows, Requests

LEMMA ConsentStarts == Init => ConsentInv
<1> SUFFICES ASSUME Init PROVE ConsentInv
  OBVIOUS
<1>1. EntriesInv
  BY DEF Init, EntriesInv, FileOK, EntryOK, HonoursAcked, NoEntry, Fields, Free
<1>2. AcksInv
  BY DEF Init, AcksInv
<1>3. HandlersInv
  BY DEF Init, HandlersInv, HandlerOK, IsDelegation, Idle
<1>4. RenewalInv
  BY DEF Init, RenewalInv, Idle
<1> QED
  BY <1>1, <1>2, <1>3, <1>4 DEF ConsentInv

-----------------------------------------------------------------------------
(* Memory and handlers move on, the file and the lock stay.                *)
LEMMA MemoryMoves ==
  ASSUME ConsentInv, UNCHANGED <<disk, writer, signed>>,
         \A a \in acked': a \in acked \/ a.at = 0, acked \subseteq acked',
         FileOK(registry)', \A p \in Players: Follows(registry[p], registry'[p]),
         DOMAIN handler' = Handlers,
         \A h \in Handlers: handler'[h] = handler[h] \/ HandlerOK(h)',
         "pc" \in DOMAIN renewal', renewal'.pc = "saving" => renewal.pc = "saving"
  PROVE  ConsentInv'
<1> USE DEF ConsentInv
<1>1. \A a \in acked' \cap signed': a \in acked \cap signed /\ a \in Requests
  BY DEF AcksInv, Requests
<1>2. AcksInv'
  BY DEF AcksInv
<1>3. \A p \in Players: registry[p].updatedAt \in Nat /\ registry'[p].updatedAt \in Nat
  BY DEF EntriesInv, FileOK, EntryOK
<1>4. \A request \in Requests:
        Honours(registry[request.player], request) => Honours(registry'[request.player], request)
  BY <1>3, HonoursFollows DEF Requests
<1>5. EntriesInv'
  <2>1. HonoursAcked(registry)'
    BY <1>1, <1>4 DEF EntriesInv, HonoursAcked, Honours
  <2>2. FileOK(disk)' /\ HonoursAcked(disk)'
    BY <1>1 DEF EntriesInv, HonoursAcked, Honours, FileOK, EntryOK
  <2>3. (writer.busy => FileOK(writer.file) /\ HonoursAcked(writer.file))'
    BY <1>1 DEF EntriesInv, HonoursAcked, Honours, FileOK, EntryOK
  <2> QED
    BY <2>1, <2>2, <2>3 DEF EntriesInv
<1>6. HandlersInv'
  <2> SUFFICES ASSUME NEW h \in Handlers, handler'[h] = handler[h] PROVE HandlerOK(h)'
    BY DEF HandlersInv
  <2>1. HandlerOK(h)
    BY DEF HandlersInv
  <2>2. IsDelegation(h) => handler[h].request \in Requests
    BY <2>1 DEF HandlerOK, AcksInv
  <2>3. IsDelegation(h)' = IsDelegation(h)
    BY DEF IsDelegation
  <2>4. IsDelegation(h) => Registered(handler[h].request.player)'
    BY <2>1, <2>2 DEF HandlerOK, Registered, Follows, Requests
  <2>5. IsDelegation(h) /\ Honours(registry[handler[h].request.player], handler[h].request)
          => Honours(registry'[handler[h].request.player], handler[h].request)
    BY <1>4, <2>2
  <2> QED
    BY <2>1, <2>3, <2>4, <2>5 DEF HandlerOK, RenewalInv, Honours
<1>7. RenewalInv'
  BY DEF RenewalInv
<1> QED
  BY <1>2, <1>5, <1>6, <1>7

\* Memory stays as well.
LEMMA HandlerMoves ==
  ASSUME ConsentInv, UNCHANGED <<registry, disk, writer, signed>>,
         \A a \in acked': a \in acked \/ a.at = 0, acked \subseteq acked',
         DOMAIN handler' = Handlers,
         \A h \in Handlers: handler'[h] = handler[h] \/ HandlerOK(h)',
         "pc" \in DOMAIN renewal', renewal'.pc = "saving" => renewal.pc = "saving"
  PROVE  ConsentInv'
<1>1. FileOK(registry)' /\ \A p \in Players: Follows(registry[p], registry'[p])
  BY DEF ConsentInv, EntriesInv, FileOK, EntryOK, Follows
<1> QED
  BY <1>1, MemoryMoves

\* The step of one handler.
LEMMA OneHandler ==
  ASSUME ConsentInv, NEW h \in Handlers, NEW r, handler' = [handler EXCEPT ![h] = r],
         UNCHANGED <<registry, disk, writer, renewal, signed, acked>>,
         HandlerOK(h)'
  PROVE  ConsentInv'
<1>1. DOMAIN handler' = Handlers /\ \A g \in Handlers: handler'[g] = handler[g] \/ HandlerOK(g)'
  BY DEF ConsentInv, HandlersInv
<1> QED
  BY <1>1, HandlerMoves DEF ConsentInv, RenewalInv

LEMMA ReceiveStep ==
  ASSUME ConsentInv, NEW h \in Handlers,
         \/ \E request \in signed: ReceiveDelegation(h, request)
         \/ \E p \in Players, signature \in Signatures: ReceiveRegistration(h, p, signature)
         \/ SnapshotRegistration(h) \/ HandlerVerified(h) \/ Authorize(h)
  PROVE  ConsentInv'
<1> USE DEF HandlerOK, IsDelegation, Registered
<1>0. DOMAIN handler = Handlers /\ HandlerOK(h)
  BY DEF ConsentInv, HandlersInv
<1>1. ASSUME NEW request \in signed, ReceiveDelegation(h, request) PROVE ConsentInv'
  <2> DEFINE r == IF registry[request.player].state.active /\ registry[request.player].state.expires > now
                  THEN [pc |-> "authorize", request |-> request]
                  ELSE [pc |-> "verify", request |-> request,
                        snapshot |-> registry[request.player], verified |-> NoState]
  <2>1. handler' = [handler EXCEPT ![h] = r] /\ UNCHANGED <<registry, signed>>
    BY <1>1 DEF ReceiveDelegation
  <2>2. /\ "pc" \in DOMAIN r /\ "request" \in DOMAIN r /\ r.request = request
        /\ r.pc \in {"authorize", "verify"}
    OBVIOUS
  <2>3. handler'[h] = r
    BY <1>0, <2>1
  <2>4. HandlerOK(h)'
    BY <1>1, <2>1, <2>2, <2>3 DEF ReceiveDelegation
  <2> HIDE DEF r
  <2> QED
    BY <1>1, <2>1, <2>4, OneHandler DEF ReceiveDelegation
<1>2. ASSUME NEW p \in Players, NEW signature \in Signatures, ReceiveRegistration(h, p, signature)
      PROVE  ConsentInv'
  <2>1. CASE acked' = acked \cup {Registration(p)} /\ UNCHANGED handler
    <3>1. \A a \in acked': a \in acked \/ a.at = 0
      BY <2>1 DEF Registration
    <3> QED
      BY <1>0, <1>2, <2>1, <3>1, HandlerMoves DEF ReceiveRegistration, ConsentInv, RenewalInv
  <2>2. CASE /\ handler' = [handler EXCEPT ![h] =
                   [pc |-> "snapshot", player |-> p, signature |-> signature]]
             /\ UNCHANGED acked
    <3>1. HandlerOK(h)'
      BY <1>0, <2>2
    <3> QED
      BY <1>2, <2>2, <3>1, OneHandler DEF ReceiveRegistration
  <2> QED
    BY <1>2, <2>1, <2>2 DEF ReceiveRegistration
<1>3. CASE SnapshotRegistration(h)
  <2>1. HandlerOK(h)'
    BY <1>0, <1>3 DEF SnapshotRegistration
  <2> QED
    BY <1>3, <2>1, OneHandler DEF SnapshotRegistration
<1>4. CASE HandlerVerified(h)
  <2>1. PICK v \in Verified(PlayerOf(h)): handler' = [handler EXCEPT ![h] =
          IF v = NoState THEN Idle ELSE [@ EXCEPT !.pc = "verified", !.verified = v]]
    BY <1>4 DEF HandlerVerified
  <2>2. HandlerOK(h)'
    <3>1. CASE v = NoState
      BY <1>0, <2>1, <3>1 DEF Idle
    <3>2. CASE v # NoState
      <4>1. handler'[h] = [handler[h] EXCEPT !.pc = "verified", !.verified = v]
        BY <1>0, <2>1, <3>2
      <4>2. /\ DOMAIN handler'[h] = DOMAIN handler[h] /\ handler'[h].pc = "verified"
            /\ "request" \in DOMAIN handler[h] => handler'[h].request = handler[h].request
            /\ handler'[h].signature = handler[h].signature
        BY <1>0, <4>1
      <4> QED
        BY <1>0, <1>4, <4>2 DEF HandlerVerified
    <3> QED
      BY <3>1, <3>2
  <2> QED
    BY <1>4, <2>1, <2>2, OneHandler DEF HandlerVerified
<1>5. CASE Authorize(h)
  <2>1. handler' = [handler EXCEPT ![h] = [pc |-> "update", request |-> handler[h].request]]
    BY <1>0, <1>5 DEF Authorize, Goto
  <2>2. HandlerOK(h)'
    BY <1>0, <1>5, <2>1 DEF Authorize
  <2> QED
    BY <1>5, <2>1, <2>2, OneHandler DEF Authorize
<1> QED
  BY <1>1, <1>2, <1>3, <1>4, <1>5

LEMMA ApplyOnActionStep ==
  ASSUME ConsentInv, NEW h \in Handlers, ApplyOnAction(h)
  PROVE  ConsentInv'
<1> DEFINE p == handler[h].request.player
           e == ApplyVerifiedState(registry[p], handler[h].snapshot, handler[h].verified)
<1>0. DOMAIN handler = Handlers /\ HandlerOK(h) /\ IsDelegation(h)
  BY DEF ConsentInv, HandlersInv, ApplyOnAction
<1>1. p \in Players
  BY <1>0 DEF HandlerOK, ConsentInv, AcksInv, Requests
<1>2. registry' = [registry EXCEPT ![p] = e]
  BY <1>0 DEF ApplyOnAction, PlayerOf, IsDelegation
<1>3. FileOK(registry) /\ SameConsent(registry[p], e)
  BY <1>1, AppliedConsent DEF ConsentInv, EntriesInv, FileOK, EntryOK
<1>4. EntryOK(p, e) /\ Follows(registry[p], e)
  BY <1>1, <1>3, SameFollows DEF FileOK
<1> HIDE DEF e, p
<1>5. DOMAIN registry' = Players /\ registry'[p] = e /\ \A q \in Players \ {p}: registry'[q] = registry[q]
  BY <1>1, <1>2, <1>3 DEF FileOK
<1>6. \A q \in Players: EntryOK(q, registry'[q]) /\ Follows(registry[q], registry'[q])
  BY <1>3, <1>4, <1>5 DEF FileOK, EntryOK, Follows
<1>7. FileOK(registry)'
  BY <1>5, <1>6 DEF FileOK, EntryOK, ApplyOnAction
<1>8. handler'[h] = [pc |-> "authorize", request |-> handler[h].request]
  BY <1>0 DEF ApplyOnAction, Goto, IsDelegation
<1>9. HandlerOK(h)'
  BY <1>0, <1>1, <1>6, <1>8 DEF HandlerOK, IsDelegation, Registered, Follows, ApplyOnAction, p
<1>10. DOMAIN handler' = Handlers /\ \A g \in Handlers: handler'[g] = handler[g] \/ HandlerOK(g)'
  BY <1>0, <1>9 DEF ApplyOnAction, Goto
<1> QED
  BY <1>6, <1>7, <1>10, MemoryMoves DEF ApplyOnAction, ConsentInv, RenewalInv

LEMMA SetDelegationStep ==
  ASSUME ConsentInv, NEW h \in Handlers, SetDelegation(h)
  PROVE  ConsentInv'
<1> DEFINE request == handler[h].request
           p == request.player
           e == [registry[p] EXCEPT !.delegated = request.enabled, !.updatedAt = request.at]
<1>0. DOMAIN handler = Handlers /\ HandlerOK(h) /\ IsDelegation(h)
  BY DEF ConsentInv, HandlersInv, SetDelegation, HandlerOK
<1>1. /\ p \in Players /\ request \in Requests /\ request \in signed
      /\ request = [player |-> p, at |-> request.at, enabled |-> request.enabled]
      /\ request.at \in Nat /\ request.enabled \in BOOLEAN
  BY <1>0 DEF HandlerOK, ConsentInv, AcksInv, Requests
<1>2. registry' = [registry EXCEPT ![p] = e] /\ request.at > registry[p].updatedAt
  BY <1>0 DEF SetDelegation
<1>3. FileOK(registry) /\ EntryOK(p, registry[p]) /\ registry[p].signature # "none"
  BY <1>0, <1>1 DEF ConsentInv, EntriesInv, FileOK, HandlerOK, Registered
<1>4. /\ DOMAIN e = Fields /\ e.delegated = request.enabled /\ e.updatedAt = request.at
      /\ e.signature = registry[p].signature
  BY <1>3 DEF EntryOK, Fields
<1> HIDE DEF e, p, request
<1>5. EntryOK(p, e) /\ Follows(registry[p], e) /\ Honours(e, request)
  BY <1>1, <1>2, <1>3, <1>4 DEF EntryOK, Follows, Honours
<1>6. DOMAIN registry' = Players /\ registry'[p] = e /\ \A q \in Players \ {p}: registry'[q] = registry[q]
  BY <1>1, <1>2, <1>3 DEF FileOK
<1>7. \A q \in Players: EntryOK(q, registry'[q]) /\ Follows(registry[q], registry'[q])
  BY <1>3, <1>5, <1>6 DEF FileOK, EntryOK, Follows
<1>8. FileOK(registry)'
  BY <1>6, <1>7 DEF FileOK, EntryOK, SetDelegation
<1>9. handler'[h] = [pc |-> "persist", request |-> request]
  BY <1>0 DEF SetDelegation, Goto, IsDelegation, request
<1>10. HandlerOK(h)'
  <2>1. request \in signed' /\ registry'[request.player] = e /\ e.signature # "none"
    BY <1>1, <1>3, <1>4, <1>6 DEF SetDelegation, p
  <2>2. Honours(registry'[request.player], request)
    BY <1>5, <2>1
  <2> QED
    BY <1>9, <2>1, <2>2 DEF HandlerOK, IsDelegation, Registered, Honours
<1>11. DOMAIN handler' = Handlers /\ \A g \in Handlers: handler'[g] = handler[g] \/ HandlerOK(g)'
  BY <1>0, <1>10 DEF SetDelegation, Goto
<1> QED
  BY <1>7, <1>8, <1>11, MemoryMoves DEF SetDelegation, ConsentInv, RenewalInv

LEMMA RegisterStep ==
  ASSUME ConsentInv, NEW h \in Handlers, Register(h)
  PROVE  ConsentInv'
<1> DEFINE p == handler[h].player
           signature == handler[h].signature
           snapshot == handler[h].snapshot
           verified == handler[h].verified
           e == MergeVerifiedRegistration(p, snapshot, signature, verified)
<1>0. DOMAIN handler = Handlers /\ HandlerOK(h) /\ ~IsDelegation(h)
  BY DEF ConsentInv, HandlersInv, Register
<1>1. signature # "none"
  BY <1>0, RegistryAssumption DEF HandlerOK, Register
<1>2. registry' = [registry EXCEPT ![p] = e] /\ FileOK(registry)
  BY DEF Register, ConsentInv, EntriesInv
<1>3. ASSUME p \in Players PROVE EntryOK(p, e) /\ Follows(registry[p], e)
  <2>1. EntryOK(p, registry[p])
    BY <1>2, <1>3 DEF FileOK
  <2>2. CASE ~Registered(p)
    <3>1. e = [signature |-> signature, delegated |-> FALSE, updatedAt |-> 0, state |-> verified]
      BY <2>2 DEF MergeVerifiedRegistration, NewEntry, NoEntry
    <3> HIDE DEF e
    <3> QED
      BY <1>1, <2>1, <2>2, <3>1 DEF EntryOK, Follows, Fields, Registered
  <2>3. CASE Registered(p)
    <3> DEFINE a == IF snapshot = NoEntry THEN registry[p]
                    ELSE ApplyVerifiedState(registry[p], snapshot, verified)
    <3>1. SameConsent(registry[p], a)
      BY <2>1, AppliedConsent DEF EntryOK, SameConsent
    <3>2. e = [a EXCEPT !.signature = signature]
      BY <2>3 DEF MergeVerifiedRegistration
    <3> HIDE DEF a, e
    <3>3. /\ DOMAIN e = Fields /\ e.signature = signature
          /\ e.delegated = registry[p].delegated /\ e.updatedAt = registry[p].updatedAt
      BY <3>1, <3>2 DEF SameConsent, Fields
    <3> QED
      BY <1>1, <2>1, <3>3 DEF EntryOK, Follows
  <2> QED
    BY <2>2, <2>3
<1> HIDE DEF e, p, signature, snapshot, verified
<1>4. DOMAIN registry' = Players /\ \A q \in Players: registry'[q] = IF q = p THEN e ELSE registry[q]
  BY <1>2 DEF FileOK
<1>5. \A q \in Players: EntryOK(q, registry'[q]) /\ Follows(registry[q], registry'[q])
  BY <1>2, <1>3, <1>4 DEF FileOK, EntryOK, Follows
<1>6. FileOK(registry)'
  BY <1>4, <1>5 DEF FileOK, EntryOK, Register
<1>7. handler'[h] = [pc |-> "persist", player |-> handler[h].player]
  BY <1>0 DEF Register, Goto, IsDelegation
<1>8. HandlerOK(h)'
  BY <1>7 DEF HandlerOK, IsDelegation
<1>9. DOMAIN handler' = Handlers /\ \A g \in Handlers: handler'[g] = handler[g] \/ HandlerOK(g)'
  BY <1>0, <1>8 DEF Register, Goto
<1> QED
  BY <1>5, <1>6, <1>9, MemoryMoves DEF Register, ConsentInv, RenewalInv

-----------------------------------------------------------------------------
(* The file and its lock.                                                  *)
LEMMA StoredIsOK ==
  ASSUME ConsentInv
  PROVE  FileOK(Stored(registry)) /\ HonoursAcked(Stored(registry))
<1>1. FileOK(registry) /\ HonoursAcked(registry) /\ signed \subseteq Requests
  BY DEF ConsentInv, EntriesInv, AcksInv
<1>2. \A p \in Players: SameConsent(registry[p], Stored(registry)[p])
  BY <1>1 DEF FileOK, EntryOK, SameConsent, Stored, Fields
<1>3. DOMAIN Stored(registry) = Players
  BY DEF Stored
<1>4. \A p \in Players: EntryOK(p, Stored(registry)[p]) /\ Follows(registry[p], Stored(registry)[p])
  BY <1>1, <1>2, SameFollows DEF FileOK
<1>5. HonoursAcked(Stored(registry))
  BY <1>1, <1>4, HonoursFollows DEF HonoursAcked, FileOK, EntryOK, Requests
<1> QED
  BY <1>3, <1>4, <1>5 DEF FileOK

LEMMA StartPersistStep ==
  ASSUME ConsentInv, NEW h \in Handlers, StartPersist(h)
  PROVE  ConsentInv'
<1> DEFINE file == Stored(registry)
<1>1. /\ writer' = [busy |-> TRUE, holder |-> h, file |-> file] /\ writer.busy = FALSE
      /\ UNCHANGED <<registry, disk, signed, acked, renewal>>
  BY DEF StartPersist, Snapshot, Free
<1>2. FileOK(file) /\ HonoursAcked(file)
  BY StoredIsOK
<1>3. DOMAIN handler = Handlers /\ \A g \in Handlers: HandlerOK(g)
  BY DEF ConsentInv, HandlersInv
<1>4. \A p \in Players: file[p].delegated = registry[p].delegated /\ file[p].updatedAt = registry[p].updatedAt
  BY DEF Stored, ConsentInv, EntriesInv, FileOK, EntryOK, Fields
<1> HIDE DEF file
<1>5. EntriesInv'
  BY <1>1, <1>2 DEF ConsentInv, EntriesInv, FileOK, EntryOK, HonoursAcked, Honours
<1>6. AcksInv' /\ RenewalInv'
  BY <1>1 DEF ConsentInv, AcksInv, RenewalInv
<1>7. /\ DOMAIN handler' = Handlers /\ \A g \in Handlers \ {h}: handler'[g] = handler[g]
      /\ handler'[h].pc = "saving" /\ "pc" \in DOMAIN handler'[h]
      /\ IsDelegation(h)' <=> IsDelegation(h)
      /\ IsDelegation(h) => handler'[h].request = handler[h].request
  BY <1>3 DEF StartPersist, Goto, IsDelegation
<1>8. HandlerOK(h)'
  <2>1. handler[h].pc = "persist" /\ renewal.pc # "saving"
    BY <1>1 DEF StartPersist, ConsentInv, RenewalInv
  <2>2. IsDelegation(h) => /\ handler[h].request \in signed /\ handler[h].request.player \in Players
                           /\ Honours(registry[handler[h].request.player], handler[h].request)
    BY <1>3, <2>1 DEF HandlerOK, ConsentInv, AcksInv, Requests
  <2>3. IsDelegation(h) => Honours(file[handler[h].request.player], handler[h].request)
    BY <1>4, <2>2 DEF Honours
  <2> QED
    BY <1>1, <1>3, <1>7, <2>1, <2>2, <2>3 DEF HandlerOK, Registered, Honours
<1>9. \A g \in Handlers \ {h}: HandlerOK(g)'
  BY <1>1, <1>3, <1>7 DEF HandlerOK, IsDelegation, Registered, Honours
<1> QED
  BY <1>5, <1>6, <1>7, <1>8, <1>9 DEF ConsentInv, HandlersInv

\* A handler answers or gives up; if it held the lock nobody else does.
LEMMA HandlerEnds ==
  ASSUME ConsentInv, NEW h \in Handlers, handler' = [handler EXCEPT ![h] = Idle],
         writer' = Free \/ writer' = writer,
         writer' # writer => handler[h].pc = "saving",
         FileOK(disk)', HonoursAcked(disk)', HonoursAcked(registry)', AcksInv',
         writer' = Free \/ UNCHANGED acked,
         UNCHANGED <<registry, renewal, signed>>
  PROVE  ConsentInv'
<1>1. DOMAIN handler' = Handlers /\ handler'[h] = Idle /\ \A g \in Handlers \ {h}: handler'[g] = handler[g]
  BY DEF ConsentInv, HandlersInv
<1>2. HandlerOK(h)'
  BY <1>1 DEF HandlerOK, Idle, IsDelegation
<1>3. ASSUME NEW g \in Handlers \ {h} PROVE HandlerOK(g)'
  <2>1. HandlerOK(g) /\ HandlerOK(h)
    BY DEF ConsentInv, HandlersInv
  <2>2. handler[g].pc = "saving" => writer' = writer
    BY <2>1 DEF HandlerOK
  <2> QED
    BY <1>1, <2>1, <2>2 DEF HandlerOK, IsDelegation, Registered, Honours
<1>4. EntriesInv'
  <2>1. FileOK(registry)'
    BY DEF ConsentInv, EntriesInv, FileOK, EntryOK
  <2>2. (writer.busy => FileOK(writer.file) /\ HonoursAcked(writer.file))'
    BY DEF ConsentInv, EntriesInv, FileOK, EntryOK, HonoursAcked, Honours, Free
  <2> QED
    BY <2>1, <2>2 DEF EntriesInv
<1>5. RenewalInv'
  <2>1. HandlerOK(h)
    BY DEF ConsentInv, HandlersInv
  <2> QED
    BY <2>1 DEF HandlerOK, ConsentInv, RenewalInv
<1> QED
  BY <1>1, <1>2, <1>3, <1>4, <1>5 DEF ConsentInv, HandlersInv

LEMMA FinishPersistStep ==
  ASSUME ConsentInv, NEW h \in Handlers, FinishPersist(h)
  PROVE  ConsentInv'
<1> DEFINE file == writer.file
           ack == IF IsDelegation(h) THEN handler[h].request ELSE Registration(handler[h].player)
<1>1. HandlerOK(h) /\ writer.busy
  BY DEF ConsentInv, HandlersInv, FinishPersist, HandlerOK
<1>2. FileOK(file) /\ HonoursAcked(file) /\ FileOK(registry) /\ HonoursAcked(registry)
  BY <1>1 DEF ConsentInv, EntriesInv
<1>3. ack \in signed =>
        Honours(file[ack.player], ack) /\ Honours(registry[ack.player], ack)
  <2>1. CASE IsDelegation(h)
    BY <1>1, <2>1 DEF HandlerOK, FinishPersist
  <2>2. CASE ~IsDelegation(h)
    <3>1. ack.at = 0
      BY <2>2 DEF Registration
    <3> QED
      BY <3>1 DEF ConsentInv, AcksInv, Requests
  <2> QED
    BY <2>1, <2>2
<1>4. ack \in signed \/ ack.at = 0
  BY <1>1 DEF HandlerOK, Registration
<1>5. /\ disk' = file /\ acked' = acked \cup {ack} /\ writer' = Free
      /\ UNCHANGED <<registry, renewal, signed>> /\ handler' = [handler EXCEPT ![h] = Idle]
      /\ handler[h].pc = "saving"
  BY DEF FinishPersist
<1> HIDE DEF file, ack
<1>6. AcksInv'
  BY <1>4, <1>5 DEF ConsentInv, AcksInv
<1>7. FileOK(disk)' /\ HonoursAcked(disk)' /\ HonoursAcked(registry)'
  BY <1>2, <1>3, <1>5 DEF FileOK, EntryOK, HonoursAcked, Honours
<1> QED
  BY <1>5, <1>6, <1>7, HandlerEnds

LEMMA AbandonStep ==
  ASSUME ConsentInv, NEW h \in Handlers, Abandon(h)
  PROVE  ConsentInv'
<1>1. FileOK(disk)' /\ HonoursAcked(disk)' /\ HonoursAcked(registry)' /\ AcksInv'
  BY DEF Abandon, ConsentInv, EntriesInv, AcksInv, FileOK, EntryOK, HonoursAcked, Honours
<1> QED
  BY <1>1, HandlerEnds DEF Abandon

LEMMA StartRenewalPersistStep ==
  ASSUME ConsentInv, StartRenewalPersist
  PROVE  ConsentInv'
<1>1. CASE renewal' = Idle /\ UNCHANGED writer
  BY <1>1, HandlerMoves DEF StartRenewalPersist, ConsentInv, HandlersInv, Idle
<1>2. CASE writer = Free /\ Snapshot("renewal") /\ renewal' = [pc |-> "saving"]
  <2> DEFINE file == Stored(registry)
  <2>1. /\ writer' = [busy |-> TRUE, holder |-> "renewal", file |-> file]
        /\ UNCHANGED <<registry, disk, signed, acked, handler>>
    BY <1>2 DEF StartRenewalPersist, Snapshot
  <2>2. FileOK(file) /\ HonoursAcked(file)
    BY StoredIsOK
  <2> HIDE DEF file
  <2>3. EntriesInv'
    BY <2>1, <2>2 DEF ConsentInv, EntriesInv, FileOK, EntryOK, HonoursAcked, Honours
  <2>4. \A h \in Handlers: handler[h].pc # "saving"
    BY <1>2 DEF ConsentInv, HandlersInv, HandlerOK, Free
  <2>5. HandlersInv'
    BY <2>1, <2>4 DEF ConsentInv, HandlersInv, HandlerOK, IsDelegation, Registered, Honours
  <2> QED
    BY <1>2, <2>1, <2>3, <2>5 DEF ConsentInv, AcksInv, RenewalInv
<1> QED
  BY <1>1, <1>2 DEF StartRenewalPersist

LEMMA FinishRenewalPersistStep ==
  ASSUME ConsentInv, FinishRenewalPersist
  PROVE  ConsentInv'
<1>1. writer.busy
  BY DEF FinishRenewalPersist, ConsentInv, RenewalInv
<1>2. FileOK(disk') /\ HonoursAcked(disk')
  BY <1>1 DEF FinishRenewalPersist, ConsentInv, EntriesInv
<1>3. EntriesInv'
  BY <1>2 DEF FinishRenewalPersist, ConsentInv, EntriesInv, FileOK, EntryOK, HonoursAcked, Honours, Free
<1>4. \A h \in Handlers: handler[h].pc # "saving"
  BY DEF FinishRenewalPersist, ConsentInv, HandlersInv, HandlerOK
<1>5. HandlersInv'
  BY <1>4 DEF FinishRenewalPersist, ConsentInv, HandlersInv, HandlerOK, IsDelegation, Registered, Honours
<1> QED
  BY <1>3, <1>5 DEF FinishRenewalPersist, ConsentInv, AcksInv, RenewalInv, Idle

-----------------------------------------------------------------------------
LEMMA CacheStep ==
  ASSUME ConsentInv, FinishRefresh \/ ApplyRenewed
  PROVE  ConsentInv'
<1>1. FileOK(registry)
  BY DEF ConsentInv, EntriesInv
<1>2. \A p \in Players: \A snapshot, verified:
        SameConsent(registry[p], ApplyVerifiedState(registry[p], snapshot, verified))
  BY <1>1, AppliedConsent DEF FileOK, EntryOK
<1> DEFINE Kept(p) == registry'[p] = registry[p] \/
             \E snapshot, verified: registry'[p] = ApplyVerifiedState(registry[p], snapshot, verified)
<1>8. ASSUME NEW p \in Players, Kept(p) PROVE SameConsent(registry[p], registry'[p])
  <2>1. SameConsent(registry[p], registry[p])
    BY <1>1 DEF FileOK, EntryOK, SameConsent
  <2>2. CASE registry'[p] = registry[p]
    BY <2>1, <2>2
  <2>3. ASSUME NEW snapshot, NEW verified,
               registry'[p] = ApplyVerifiedState(registry[p], snapshot, verified)
        PROVE  SameConsent(registry[p], registry'[p])
    BY <1>2, <2>3
  <2> QED
    BY <1>8, <2>2, <2>3
<1>3. DOMAIN registry' = Players /\ \A p \in Players: SameConsent(registry[p], registry'[p])
  <2>1. CASE FinishRefresh
    <3>1. \A p \in Players: Kept(p)
      BY <2>1 DEF FinishRefresh
    <3>2. DOMAIN registry' = Players
      BY <2>1 DEF FinishRefresh
    <3> QED
      BY <1>8, <3>1, <3>2
  <2>2. CASE ApplyRenewed
    <3>1. registry' = [registry EXCEPT ![renewal.player] =
             ApplyVerifiedState(@, renewal.snapshot, renewal.verified)]
      BY <2>2 DEF ApplyRenewed
    <3>2. \A p \in Players: Kept(p)
      BY <1>1, <3>1 DEF FileOK
    <3>3. DOMAIN registry' = Players
      BY <1>1, <3>1 DEF FileOK
    <3> QED
      BY <1>8, <3>2, <3>3
  <2> QED
    BY <2>1, <2>2
<1>4. \A p \in Players: EntryOK(p, registry'[p]) /\ Follows(registry[p], registry'[p])
  BY <1>1, <1>3, SameFollows DEF FileOK
<1>5. UNCHANGED <<disk, writer, signed, acked, handler>>
  BY DEF FinishRefresh, ApplyRenewed
<1>6. FileOK(registry)'
  BY <1>3, <1>4, <1>5 DEF FileOK, EntryOK
<1>7. "pc" \in DOMAIN renewal' /\ (renewal'.pc = "saving" => renewal.pc = "saving")
  BY DEF FinishRefresh, ApplyRenewed, Requeue, ConsentInv, RenewalInv
<1> QED
  BY <1>4, <1>5, <1>6, <1>7, MemoryMoves DEF ConsentInv, HandlersInv

LEMMA SignStep ==
  ASSUME ConsentInv, NEW p \in Players, NEW at \in 1..MaxNow, NEW enabled \in BOOLEAN,
         Sign(p, at, enabled)
  PROVE  ConsentInv'
<1> DEFINE request == [player |-> p, at |-> at, enabled |-> enabled]
<1>1. /\ signed' = signed \cup {request} /\ request \in Requests /\ request.at # 0
      /\ UNCHANGED <<registry, disk, handler, writer, renewal, acked>>
  BY RegistryAssumption DEF Sign, Requests
<1> HIDE DEF request
<1>2. acked' \cap signed' = acked \cap signed
  BY <1>1 DEF ConsentInv, AcksInv
<1>3. EntriesInv'
  BY <1>1, <1>2 DEF ConsentInv, EntriesInv, FileOK, EntryOK, HonoursAcked, Honours
<1>4. HandlersInv'
  BY <1>1 DEF ConsentInv, HandlersInv, HandlerOK, IsDelegation, Registered, Honours
<1> QED
  BY <1>1, <1>3, <1>4 DEF ConsentInv, AcksInv, RenewalInv

LEMMA CrashStep ==
  ASSUME ConsentInv, Crash
  PROVE  ConsentInv'
<1>1. EntriesInv'
  BY DEF Crash, ConsentInv, EntriesInv, FileOK, EntryOK, HonoursAcked, Honours, Free
<1>2. HandlersInv'
  BY DEF Crash, HandlersInv, HandlerOK, IsDelegation, Idle
<1> QED
  BY <1>1, <1>2 DEF Crash, ConsentInv, AcksInv, RenewalInv, Idle

\* The clock, the ledger and the workers on their way touch no consent.
LEMMA OtherStep ==
  ASSUME ConsentInv,
         \/ Tick \/ (\E p \in Players: Play(p) \/ RefreshVerified(p) \/ RefreshFailed(p))
         \/ StartRefresh \/ StartRenewals \/ TakeQueued \/ FetchRecord \/ Settle
         \/ SnapshotRenewed \/ VerifyRenewed \/ RenewalFailed \/ UNCHANGED vars
  PROVE  ConsentInv'
<1>1. UNCHANGED <<registry, disk, handler, writer, signed, acked>>
  BY DEF Tick, Play, RefreshVerified, RefreshFailed, StartRefresh, StartRenewals, TakeQueued,
         FetchRecord, Settle, SnapshotRenewed, VerifyRenewed, RenewalFailed, vars
<1>2. "pc" \in DOMAIN renewal
  BY DEF ConsentInv, RenewalInv
<1>3. "pc" \in DOMAIN renewal' /\ (renewal'.pc = "saving" => renewal.pc = "saving")
  <2>1. CASE \/ Tick \/ (\E p \in Players: Play(p) \/ RefreshVerified(p) \/ RefreshFailed(p))
             \/ StartRefresh \/ UNCHANGED vars
    BY <1>2, <2>1 DEF Tick, Play, RefreshVerified, RefreshFailed, StartRefresh, vars
  <2>2. CASE StartRenewals \/ SnapshotRenewed \/ RenewalFailed
    BY <2>2 DEF StartRenewals, SnapshotRenewed, RenewalFailed, Requeue
  <2>3. CASE TakeQueued
    BY <1>2, <2>3 DEF TakeQueued
  <2>4. CASE FetchRecord
    BY <2>4 DEF FetchRecord, Requeue
  <2>5. CASE Settle
    BY <1>2, <2>5 DEF Settle, Requeue
  <2>6. CASE VerifyRenewed
    BY <2>6 DEF VerifyRenewed, Requeue
  <2> QED
    BY <2>1, <2>2, <2>3, <2>4, <2>5, <2>6
<1> QED
  BY <1>1, <1>3, HandlerMoves DEF ConsentInv, HandlersInv

LEMMA ConsentStep == ConsentInv /\ [Next]_vars => ConsentInv'
<1> SUFFICES ASSUME ConsentInv, [Next]_vars PROVE ConsentInv'
  OBVIOUS
<1>1. CASE Environment
  BY <1>1, SignStep, OtherStep DEF Environment
<1>2. ASSUME NEW h \in Handlers, HandlerStep(h) PROVE ConsentInv'
  BY <1>2, ReceiveStep, ApplyOnActionStep, SetDelegationStep, RegisterStep, StartPersistStep,
     FinishPersistStep, AbandonStep DEF HandlerStep
<1>3. CASE RefreshProgress \/ \E p \in Players: RefreshFailed(p)
  BY <1>3, CacheStep, OtherStep DEF RefreshProgress
<1>4. CASE RenewalProgress \/ RenewalFailed
  BY <1>4, CacheStep, OtherStep, StartRenewalPersistStep, FinishRenewalPersistStep
     DEF RenewalProgress
<1>5. CASE Crash \/ UNCHANGED vars
  BY <1>5, CrashStep, OtherStep
<1> QED
  BY <1>1, <1>2, <1>3, <1>4, <1>5 DEF Next

LEMMA ConsentHolds == Spec => []ConsentInv
BY ConsentStarts, ConsentStep, PTL DEF Spec

(* An answered consent change is in memory and in the file, or a newer one *)
(* is (persist, set_delegation and merge_verified_registration of          *)
(* src/server.rs).                                                         *)
THEOREM ConsentIsKept == Spec => []AcknowledgedConsentSurvives
<1>1. ConsentInv => AcknowledgedConsentSurvives
  BY DEF ConsentInv, EntriesInv, HonoursAcked, AcknowledgedConsentSurvives
<1> QED
  BY ConsentHolds, <1>1, PTL

(* A delegation in memory or in the file is one its owner signed, whatever *)
(* is registered, merged, refreshed or loaded after a crash.               *)
THEOREM ConsentIsSigned == Spec => []DelegationIsSigned
<1>1. ConsentInv => DelegationIsSigned
  BY DEF ConsentInv, EntriesInv, FileOK, EntryOK, DelegationIsSigned
<1> QED
  BY ConsentHolds, <1>1, PTL

-----------------------------------------------------------------------------
(* The renewal worker.                                                     *)
Turns == {"fetch", "settle", "renewed", "verify", "apply"}

(* It works on players of the queue, and what it is about to settle was    *)
(* read when it was due, which time does not undo.                         *)
WorkerInv ==
  /\ now \in Nat /\ ledger \in [Players -> [version: Nat, expires: Nat]]
  /\ "pc" \in DOMAIN renewal
  /\ renewal.pc \in Turns \cup {"queue"}
       => "due" \in DOMAIN renewal /\ renewal.due \subseteq Players
  /\ renewal.pc \in Turns => "player" \in DOMAIN renewal /\ renewal.player \in Players
  /\ renewal.pc = "settle" => renewal.output.expires \in Nat /\ renewal.output.expires - now < Margin

LEMMA WorkerStarts == Init => WorkerInv
BY RegistryAssumption DEF Init, WorkerInv, Turns, Idle

LEMMA WorkerWaits ==
  ASSUME WorkerInv, renewal' = renewal, now' \in Nat, now' >= now,
         ledger' \in [Players -> [version: Nat, expires: Nat]]
  PROVE  WorkerInv'
BY RegistryAssumption DEF WorkerInv, Turns

LEMMA WorkerRests ==
  ASSUME WorkerInv, renewal' = Idle \/ renewal' = [pc |-> "saving"], UNCHANGED <<now, ledger>>
  PROVE  WorkerInv'
BY DEF WorkerInv, Turns, Idle

LEMMA PlayStep ==
  ASSUME WorkerInv, NEW p \in Players, Play(p)
  PROVE  WorkerInv'
<1>1. PICK expires \in {ledger[p].expires, now + Life}:
        ledger' = [ledger EXCEPT ![p] = [version |-> @.version + 1, expires |-> expires]]
  BY DEF Play
<1>2. expires \in Nat /\ ledger[p].version + 1 \in Nat
  BY RegistryAssumption DEF WorkerInv
<1>3. ledger' \in [Players -> [version: Nat, expires: Nat]]
  BY <1>1, <1>2 DEF WorkerInv
<1> QED
  BY <1>3, WorkerWaits DEF Play, WorkerInv

LEMMA QueueSteps ==
  ASSUME WorkerInv, StartRenewals \/ TakeQueued
  PROVE  WorkerInv'
<1>1. UNCHANGED <<now, ledger>>
  BY DEF StartRenewals, TakeQueued
<1>2. CASE StartRenewals
  BY <1>1, <1>2 DEF StartRenewals, WorkerInv, Turns
<1>3. CASE TakeQueued
  <2>1. PICK p \in renewal.due: renewal' =
          IF QueuedRenewalAuthorized(registry[p], renewal.queued[p])
          THEN [pc |-> "fetch", due |-> renewal.due \ {p}, player |-> p,
                changed |-> renewal.changed, queued |-> renewal.queued]
          ELSE [renewal EXCEPT !.due = @ \ {p}]
    BY <1>3 DEF TakeQueued
  <2>2. renewal.pc = "queue"
    BY <1>3 DEF TakeQueued
  <2> QED
    BY <1>1, <2>1, <2>2 DEF WorkerInv, Turns
<1> QED
  BY <1>2, <1>3

LEMMA TurnSteps ==
  ASSUME WorkerInv,
         FetchRecord \/ Settle \/ SnapshotRenewed \/ VerifyRenewed \/ ApplyRenewed \/ RenewalFailed
  PROVE  WorkerInv'
<1> USE DEF WorkerInv, Turns, Requeue
<1>1. CASE FetchRecord
  BY <1>1 DEF FetchRecord, RolloverDue
<1>2. CASE Settle
  <2> DEFINE p == renewal.player
             renewed == [version |-> ledger[p].version + 1, expires |-> now + Life]
  <2>1. /\ p \in Players /\ renewed \in [version: Nat, expires: Nat]
        /\ "due" \in DOMAIN renewal /\ "player" \in DOMAIN renewal /\ now' = now
    BY <1>2, RegistryAssumption DEF Settle
  <2>2. CASE ledger' = [ledger EXCEPT ![p] = renewed] /\ renewal' = [renewal EXCEPT !.pc = "renewed"]
    <3>1. ledger' \in [Players -> [version: Nat, expires: Nat]]
      BY <2>1, <2>2
    <3>2. /\ renewal'.pc = "renewed" /\ renewal'.due = renewal.due /\ renewal'.player = renewal.player
          /\ DOMAIN renewal' = DOMAIN renewal
      BY <2>1, <2>2
    <3> QED
      BY <1>2, <2>1, <3>1, <3>2 DEF Settle
  <2>3. CASE Requeue(renewal.changed) /\ UNCHANGED ledger
    BY <1>2, <2>1, <2>3 DEF Settle
  <2> QED
    BY <1>2, <2>2, <2>3 DEF Settle
<1>3. CASE SnapshotRenewed
  BY <1>3 DEF SnapshotRenewed
<1>4. CASE VerifyRenewed
  BY <1>4 DEF VerifyRenewed
<1>5. CASE ApplyRenewed
  BY <1>5 DEF ApplyRenewed
<1>6. CASE RenewalFailed
  BY <1>6 DEF RenewalFailed
<1> QED
  BY <1>1, <1>2, <1>3, <1>4, <1>5, <1>6

LEMMA HandlersLeaveWorker ==
  ASSUME NEW h \in Handlers, HandlerStep(h)
  PROVE  UNCHANGED <<renewal, now, ledger>>
BY DEF HandlerStep, ReceiveDelegation, ReceiveRegistration, SnapshotRegistration, HandlerVerified,
       ApplyOnAction, Authorize, SetDelegation, Register, StartPersist, FinishPersist, Abandon

LEMMA WorkerStep == WorkerInv /\ [Next]_vars => WorkerInv'
<1> SUFFICES ASSUME WorkerInv, [Next]_vars PROVE WorkerInv'
  OBVIOUS
<1>1. CASE Tick
  BY <1>1, WorkerWaits DEF Tick, WorkerInv
<1>2. ASSUME NEW p \in Players, Play(p) PROVE WorkerInv'
  BY <1>2, PlayStep
<1>3. ASSUME NEW p \in Players, NEW at \in 1..MaxNow, NEW enabled \in BOOLEAN, Sign(p, at, enabled)
      PROVE  WorkerInv'
  BY <1>3, WorkerWaits DEF Sign, WorkerInv
<1>4. ASSUME NEW h \in Handlers, HandlerStep(h) PROVE WorkerInv'
  BY <1>4, HandlersLeaveWorker, WorkerWaits DEF WorkerInv
<1>5. CASE RefreshProgress \/ (\E p \in Players: RefreshFailed(p)) \/ UNCHANGED vars
  BY <1>5, WorkerWaits
     DEF RefreshProgress, StartRefresh, RefreshVerified, RefreshFailed, FinishRefresh, vars, WorkerInv
<1>6. CASE RenewalProgress \/ RenewalFailed
  <2>1. CASE StartRenewalPersist \/ FinishRenewalPersist
    BY <2>1, WorkerRests DEF StartRenewalPersist, FinishRenewalPersist
  <2> QED
    BY <1>6, <2>1, QueueSteps, TurnSteps DEF RenewalProgress
<1>7. CASE Crash
  BY <1>7, WorkerRests DEF Crash
<1> QED
  BY <1>1, <1>2, <1>3, <1>4, <1>5, <1>6, <1>7 DEF Next, Environment

LEMMA WorkerHolds == Spec => []WorkerInv
BY WorkerStarts, WorkerStep, PTL DEF Spec

\* The step that takes a player off the queue is the only one to begin a renewal.
LEMMA OnlyTakeQueued ==
  ASSUME WorkerInv, [Next]_vars, renewal.pc = "queue", renewal'.pc = "fetch"
  PROVE  TakeQueued
<1>1. CASE renewal' = renewal
  BY <1>1
<1>2. CASE Crash \/ FinishRenewalPersist \/ StartRenewalPersist
  BY <1>2 DEF Crash, FinishRenewalPersist, StartRenewalPersist, Idle
<1>3. CASE Tick \/ (\E p \in Players: Play(p) \/ RefreshVerified(p) \/ RefreshFailed(p))
           \/ StartRefresh \/ FinishRefresh \/ UNCHANGED vars
  BY <1>1, <1>3 DEF Tick, Play, RefreshVerified, RefreshFailed, StartRefresh, FinishRefresh, vars
<1>4. ASSUME NEW p \in Players, NEW at \in 1..MaxNow, NEW enabled \in BOOLEAN, Sign(p, at, enabled)
      PROVE  TakeQueued
  BY <1>1, <1>4 DEF Sign
<1>5. ASSUME NEW h \in Handlers, HandlerStep(h) PROVE TakeQueued
  BY <1>1, <1>5, HandlersLeaveWorker
<1>6. CASE RenewalFailed \/ StartRenewals \/ FetchRecord \/ Settle \/ SnapshotRenewed \/ VerifyRenewed
           \/ ApplyRenewed
  BY <1>6 DEF RenewalFailed, StartRenewals, FetchRecord, Settle, SnapshotRenewed, VerifyRenewed,
              ApplyRenewed, Requeue
<1> QED
  BY <1>2, <1>3, <1>4, <1>5, <1>6 DEF Next, Environment, RefreshProgress, RenewalProgress

LEMMA RevocationHolds == ConsentInv /\ WorkerInv /\ [Next]_vars => RevocationStep
<1> SUFFICES ASSUME ConsentInv, WorkerInv, [Next]_vars, renewal.pc = "queue", renewal'.pc = "fetch",
                    NEW request \in acked \cap signed,
                    request.player = renewal'.player, ~request.enabled
             PROVE  \E later \in signed :
                      /\ later.player = request.player
                      /\ later.enabled
                      /\ later.at > request.at
  BY DEF RevocationStep
<1> DEFINE p == request.player
           e == registry[p]
<1>1. p \in Players /\ request.at \in Nat
  BY DEF ConsentInv, AcksInv, Requests
<1>2. PICK q \in renewal.due: renewal' =
        IF QueuedRenewalAuthorized(registry[q], renewal.queued[q])
        THEN [pc |-> "fetch", due |-> renewal.due \ {q}, player |-> q,
              changed |-> renewal.changed, queued |-> renewal.queued]
        ELSE [renewal EXCEPT !.due = @ \ {q}]
  BY OnlyTakeQueued DEF TakeQueued
<1>3. QueuedRenewalAuthorized(registry[q], renewal.queued[q]) /\ q = p
  BY <1>2 DEF WorkerInv
<1>4. e.delegated
  BY <1>3 DEF QueuedRenewalAuthorized, RenewalDue
<1>5. EntryOK(p, e) /\ Honours(e, request)
  BY <1>1 DEF ConsentInv, EntriesInv, FileOK, HonoursAcked
<1>6. e.updatedAt > request.at
  BY <1>4, <1>5 DEF Honours, EntryOK
<1>7. [player |-> p, at |-> e.updatedAt, enabled |-> TRUE] \in signed
  BY <1>4, <1>5 DEF EntryOK
<1> QED
  BY <1>6, <1>7

LEMMA RenewalHolds == WorkerInv /\ [Next]_vars => RenewalStep
<1> SUFFICES ASSUME WorkerInv, [Next]_vars, renewal.pc = "settle", renewal'.pc = "renewed"
             PROVE  ledger[renewal.player].expires \in (now + 1)..(now + Margin - 1)
  BY DEF RenewalStep
<1>1. Settle
  <2>1. CASE renewal' = renewal
    BY <2>1
  <2>2. CASE Crash \/ FinishRenewalPersist \/ StartRenewalPersist
    BY <2>2 DEF Crash, FinishRenewalPersist, StartRenewalPersist, Idle
  <2>3. CASE Tick \/ (\E p \in Players: Play(p) \/ RefreshVerified(p) \/ RefreshFailed(p))
             \/ StartRefresh \/ FinishRefresh \/ UNCHANGED vars
    BY <2>1, <2>3 DEF Tick, Play, RefreshVerified, RefreshFailed, StartRefresh, FinishRefresh, vars
  <2>4. ASSUME NEW p \in Players, NEW at \in 1..MaxNow, NEW enabled \in BOOLEAN, Sign(p, at, enabled)
        PROVE  Settle
    BY <2>1, <2>4 DEF Sign
  <2>5. ASSUME NEW h \in Handlers, HandlerStep(h) PROVE Settle
    BY <2>1, <2>5, HandlersLeaveWorker
  <2>6. CASE RenewalFailed \/ StartRenewals \/ TakeQueued \/ FetchRecord \/ SnapshotRenewed
             \/ VerifyRenewed \/ ApplyRenewed
    BY <2>6 DEF RenewalFailed, StartRenewals, TakeQueued, FetchRecord, SnapshotRenewed,
                VerifyRenewed, ApplyRenewed, Requeue
  <2> QED
    BY <2>2, <2>3, <2>4, <2>5, <2>6 DEF Next, Environment, RefreshProgress, RenewalProgress
<1>2. ledger[renewal.player] = renewal.output /\ renewal.output.expires > now
  BY <1>1 DEF Settle, Requeue, Live
<1> QED
  BY <1>2, RegistryAssumption DEF WorkerInv

(* No renewal is begun for a player whose answered revocation is not       *)
(* followed by a newer signed consent (queued_renewal_authorized of        *)
(* src/server.rs).                                                         *)
THEOREM RevokedAreNotRenewed == Spec => RevocationsAreHonoured
BY ConsentStarts, ConsentStep, WorkerStarts, WorkerStep, RevocationHolds, PTL
   DEF Spec, RevocationsAreHonoured

(* The batch that renews a player spends an output near its expiry, even   *)
(* when what the server cached is out of date (require_rollover_due of     *)
(* src/watchtower.rs).                                                     *)
THEOREM OnlyDueIsRenewed == Spec => OnlyDueOutputsAreRenewed
BY WorkerStarts, WorkerStep, RenewalHolds, PTL DEF Spec, OnlyDueOutputsAreRenewed

-----------------------------------------------------------------------------
(* Types, the lock and the limit.                                          *)

Entries == [Players -> RegisteredPlayers]

(* A refresh pass knows, of each player it selected, what it read and at   *)
(* most one answer.                                                        *)
RefreshTyped ==
  \/ refresh = Idle
  \/ /\ DOMAIN refresh = {"pc", "pending", "snapshot", "verified"}
     /\ DOMAIN refresh.snapshot \subseteq Players
     /\ \A p \in DOMAIN refresh.snapshot:
          /\ refresh.snapshot[p] \in RegisteredPlayers
          /\ refresh.verified[p] \subseteq PlayerStates
     /\ DOMAIN refresh.verified = DOMAIN refresh.snapshot
     /\ refresh.pending \subseteq DOMAIN refresh.snapshot

(* The renewal worker knows what the cache held, then what it was told.    *)
RenewalTyped ==
  /\ renewal.pc \in {"verify", "apply"} => renewal.snapshot \in RegisteredPlayers
  /\ renewal.pc = "apply" => renewal.verified \in PlayerStates

RegistryTyped ==
  /\ TypeOK /\ RefreshTyped /\ RenewalTyped
  /\ writer.busy => writer.file \in Entries

(* As many entries as there are is room for.                               *)
Count(entries) == Cardinality({p \in Players: entries[p].signature # "none"})

Room ==
  /\ Count(registry) <= MaxPlayers /\ Count(disk) <= MaxPlayers
  /\ writer.busy => Count(writer.file) <= MaxPlayers

(* The renewal worker, too, holds the lock it writes under.                *)
WorkerLock == renewal.pc = "saving" => writer.busy /\ writer.holder = "renewal"

-----------------------------------------------------------------------------
LEMMA Answers ==
  ASSUME TypeOK, NEW p \in Players, NEW v \in Verified(p)
  PROVE  v \in PlayerStates
<1>1. /\ now \in 1..MaxNow /\ ledger[p] \in [version: Nat, expires: Nat]
      /\ Live(p) \in BOOLEAN
  BY DEF TypeOK, Live
<1>2. NoState \in PlayerStates
  BY RegistryAssumption DEF NoState, PlayerStates
<1>3. [version |-> ledger[p].version, expires |-> ledger[p].expires,
       active |-> Live(p), updatedAt |-> now] \in PlayerStates
  BY <1>1, RegistryAssumption DEF PlayerStates
<1> QED
  BY <1>2, <1>3 DEF Verified

LEMMA AppliedEntry ==
  ASSUME now \in 0..MaxNow, NEW e \in RegisteredPlayers, NEW snapshot, NEW v \in PlayerStates
  PROVE  ApplyVerifiedState(e, snapshot, v) \in RegisteredPlayers
<1>1. e.state \in PlayerStates /\ e.state.active \in BOOLEAN
  BY DEF RegisteredPlayers, PlayerStates
<1>2. [e EXCEPT !.state = v] \in RegisteredPlayers
  BY DEF RegisteredPlayers
<1>3. [e.state EXCEPT !.active = FALSE, !.updatedAt = now] \in PlayerStates
  BY <1>1 DEF PlayerStates
<1>4. [e EXCEPT !.state.active = FALSE, !.state.updatedAt = now] \in RegisteredPlayers
  BY <1>3 DEF RegisteredPlayers
<1> QED
  BY <1>2, <1>4, Zenon DEF ApplyVerifiedState

LEMMA TypesStart == Init => RegistryTyped /\ Room /\ WorkerLock
<1> SUFFICES ASSUME Init PROVE RegistryTyped /\ Room /\ WorkerLock
  OBVIOUS
<1>1. NoEntry \in RegisteredPlayers
  BY RegistryAssumption DEF NoEntry, NoState, RegisteredPlayers, PlayerStates
<1>2. TypeOK
  <2>1. registry \in Entries /\ disk \in Entries /\ handler \in [Handlers -> HandlerStates]
    BY <1>1 DEF Init, Entries, HandlerStates
  <2>2. ledger \in [Players -> [version: Nat, expires: Nat]] /\ now \in 1..MaxNow
    BY RegistryAssumption DEF Init
  <2> QED
    BY <2>1, <2>2, RegistryAssumption DEF Init, TypeOK, Entries
<1>3. RefreshTyped /\ RenewalTyped /\ ~writer.busy
  BY DEF Init, RefreshTyped, RenewalTyped, Idle, Free
<1>4. Count(registry) = 0 /\ Count(disk) = 0
  <2>1. {p \in Players: registry[p].signature # "none"} = {}
        /\ {p \in Players: disk[p].signature # "none"} = {}
    BY DEF Init, NoEntry
  <2> QED
    BY <2>1, FS_EmptySet DEF Count
<1>5. WorkerLock
  BY DEF Init, WorkerLock, Idle
<1>6. Room
  BY <1>3, <1>4, RegistryAssumption DEF Room
<1>7. RegistryTyped
  BY <1>2, <1>3 DEF RegistryTyped
<1> QED
  BY <1>5, <1>6, <1>7

\* A step keeps the types if whatever it changes stays typed.
LEMMA TypesKept ==
  ASSUME RegistryTyped,
         now' = now \/ now' \in 1..MaxNow,
         ledger' = ledger \/ ledger' \in [Players -> [version: Nat, expires: Nat]],
         registry' = registry \/ registry' \in Entries,
         disk' = disk \/ disk' \in Entries,
         lastAction' = lastAction \/ lastAction' \in [Players -> 0..MaxNow],
         handler' = handler \/ handler' \in [Handlers -> HandlerStates],
         writer' = writer \/ writer' = Free \/ (writer' # Free /\ writer'.file \in Entries),
         refresh' = refresh \/ RefreshTyped',
         renewal' = renewal \/ RenewalTyped',
         cursor' = cursor \/ cursor' \in 0..(CursorWrap - 1),
         signed \subseteq signed' /\ signed' \subseteq Requests,
         acked' \subseteq acked \cup signed' \cup {Registration(p): p \in Players},
         faults' = faults \/ faults' \in 0..MaxFaults,
         crashes' = crashes \/ crashes' \in 0..MaxCrashes
  PROVE  RegistryTyped'
<1>1. (writer = Free \/ writer.file \in [Players -> RegisteredPlayers])'
  BY DEF RegistryTyped, TypeOK, Entries
<1>2. TypeOK'
  BY <1>1 DEF RegistryTyped, TypeOK, Entries
<1>3. RefreshTyped' /\ RenewalTyped'
  BY DEF RegistryTyped, RefreshTyped, RenewalTyped
<1>4. (writer.busy => writer.file \in Entries)'
  BY DEF RegistryTyped, Free
<1> QED
  BY <1>2, <1>3, <1>4 DEF RegistryTyped

LEMMA HandlerTyped ==
  ASSUME RegistryTyped, NEW h \in Handlers, NEW r \in HandlerStates,
         handler' = [handler EXCEPT ![h] = r]
  PROVE  handler' \in [Handlers -> HandlerStates]
BY DEF RegistryTyped, TypeOK

(* The fields of a handler in each of its stages.                          *)
LEMMA HandlerFields ==
  ASSUME RegistryTyped, ConsentInv, NEW h \in Handlers
  PROVE  /\ handler[h].pc = "verify" =>
              /\ PlayerOf(h) \in Players /\ handler[h].snapshot \in RegisteredPlayers
              /\ \A v \in PlayerStates:
                   [handler[h] EXCEPT !.pc = "verified", !.verified = v] \in HandlerStates
         /\ handler[h].pc = "verified" =>
              /\ PlayerOf(h) \in Players /\ handler[h].snapshot \in RegisteredPlayers
              /\ handler[h].verified \in PlayerStates
              /\ ~IsDelegation(h) => handler[h].player \in Players /\ handler[h].signature \in Signatures
         /\ IsDelegation(h) => handler[h].request \in Requests
         /\ handler[h].pc \in {"snapshot", "persist", "saving"} /\ ~IsDelegation(h)
              => handler[h].player \in Players
         /\ handler[h].pc = "snapshot" => handler[h].signature \in Signatures
<1>1. handler[h] \in HandlerStates
  BY DEF RegistryTyped, TypeOK
<1>2. CASE handler[h] = Idle
  BY <1>2 DEF Idle, IsDelegation
<1>3. CASE handler[h] \in [pc: {"verify", "verified"}, request: Requests,
                           snapshot: RegisteredPlayers, verified: PlayerStates]
  BY <1>3 DEF HandlerStates, IsDelegation, PlayerOf, Requests
<1>4. CASE handler[h] \in [pc: {"verify", "verified"}, player: Players, signature: Signatures,
                           snapshot: RegisteredPlayers, verified: PlayerStates]
  BY <1>4 DEF HandlerStates, IsDelegation, PlayerOf
<1>5. CASE handler[h] \in [pc: {"authorize", "update", "persist", "saving"}, request: Requests]
  BY <1>5 DEF IsDelegation
<1>6. CASE handler[h] \in [pc: {"snapshot"}, player: Players, signature: Signatures]
  BY <1>6 DEF IsDelegation
<1>7. CASE handler[h] \in [pc: {"persist", "saving"}, player: Players]
  BY <1>7 DEF IsDelegation
<1> QED
  BY <1>1, <1>2, <1>3, <1>4, <1>5, <1>6, <1>7 DEF HandlerStates

LEMMA ReceiveTypes ==
  ASSUME RegistryTyped, ConsentInv, NEW h \in Handlers,
         \/ \E request \in signed: ReceiveDelegation(h, request)
         \/ \E p \in Players, signature \in Signatures: ReceiveRegistration(h, p, signature)
         \/ SnapshotRegistration(h) \/ HandlerVerified(h) \/ Authorize(h)
  PROVE  RegistryTyped'
<1>0. signed \subseteq Requests /\ registry \in Entries /\ NoState \in PlayerStates
  BY RegistryAssumption DEF RegistryTyped, TypeOK, Entries, NoState, PlayerStates
<1>1. ASSUME NEW request \in signed, ReceiveDelegation(h, request) PROVE RegistryTyped'
  <2> DEFINE r == IF registry[request.player].state.active /\ registry[request.player].state.expires > now
                  THEN [pc |-> "authorize", request |-> request]
                  ELSE [pc |-> "verify", request |-> request,
                        snapshot |-> registry[request.player], verified |-> NoState]
  <2>1. handler' = [handler EXCEPT ![h] = r]
    BY <1>1 DEF ReceiveDelegation
  <2>2. request \in Requests /\ registry[request.player] \in RegisteredPlayers
    BY <1>0 DEF Requests, Entries
  <2>3. r \in HandlerStates
    BY <1>0, <2>2 DEF HandlerStates
  <2> HIDE DEF r
  <2>4. handler' \in [Handlers -> HandlerStates]
    BY <2>1, <2>3, HandlerTyped
  <2> QED
    BY <1>0, <1>1, <2>4, TypesKept DEF ReceiveDelegation
<1>2. ASSUME NEW p \in Players, NEW signature \in Signatures, ReceiveRegistration(h, p, signature)
      PROVE  RegistryTyped'
  <2> DEFINE r == [pc |-> "snapshot", player |-> p, signature |-> signature]
  <2>1. r \in HandlerStates
    BY DEF HandlerStates
  <2>2. handler' = [handler EXCEPT ![h] = r] => handler' \in [Handlers -> HandlerStates]
    BY <2>1, HandlerTyped
  <2>3. acked' \subseteq acked \cup signed' \cup {Registration(q): q \in Players}
    BY <1>2 DEF ReceiveRegistration
  <2> QED
    BY <1>0, <1>2, <2>2, <2>3, TypesKept DEF ReceiveRegistration
<1>3. CASE SnapshotRegistration(h)
  <2> DEFINE r == [pc |-> "verify", player |-> handler[h].player, signature |-> handler[h].signature,
                   snapshot |-> registry[handler[h].player], verified |-> NoState]
  <2>1. handler' = [handler EXCEPT ![h] = r] /\ handler[h].pc = "snapshot"
    BY <1>3 DEF SnapshotRegistration
  <2>2. ~IsDelegation(h)
    BY <2>1 DEF ConsentInv, HandlersInv, HandlerOK
  <2>3. handler[h].player \in Players /\ handler[h].signature \in Signatures
    BY <2>1, <2>2, HandlerFields
  <2>4. r \in HandlerStates
    BY <1>0, <2>3 DEF HandlerStates, Entries
  <2> HIDE DEF r
  <2>5. handler' \in [Handlers -> HandlerStates]
    BY <2>1, <2>4, HandlerTyped
  <2> QED
    BY <1>0, <1>3, <2>5, TypesKept DEF SnapshotRegistration
<1>4. CASE HandlerVerified(h)
  <2>1. PICK v \in Verified(PlayerOf(h)): handler' = [handler EXCEPT ![h] =
          IF v = NoState THEN Idle ELSE [@ EXCEPT !.pc = "verified", !.verified = v]]
    BY <1>4 DEF HandlerVerified
  <2>2. PlayerOf(h) \in Players /\ \A u \in PlayerStates:
          [handler[h] EXCEPT !.pc = "verified", !.verified = u] \in HandlerStates
    BY <1>4, HandlerFields DEF HandlerVerified
  <2>3. v \in PlayerStates
    BY <2>2, Answers DEF RegistryTyped
  <2>4. Idle \in HandlerStates
    BY DEF HandlerStates
  <2> DEFINE r == IF v = NoState THEN Idle ELSE [handler[h] EXCEPT !.pc = "verified", !.verified = v]
  <2>5. r \in HandlerStates /\ handler' = [handler EXCEPT ![h] = r]
    BY <2>1, <2>2, <2>3, <2>4
  <2> HIDE DEF r
  <2>6. handler' \in [Handlers -> HandlerStates]
    BY <2>5, HandlerTyped
  <2> QED
    BY <1>0, <1>4, <2>6, TypesKept DEF HandlerVerified
<1>5. CASE Authorize(h)
  <2> DEFINE r == [pc |-> "update", request |-> handler[h].request]
  <2>1. IsDelegation(h) /\ handler[h].request \in Requests
    BY <1>5, HandlerFields DEF ConsentInv, HandlersInv, HandlerOK, Authorize
  <2>2. handler' = [handler EXCEPT ![h] = r]
    BY <1>5, <2>1 DEF Authorize, Goto, IsDelegation
  <2>3. r \in HandlerStates
    BY <2>1 DEF HandlerStates
  <2> HIDE DEF r
  <2>4. handler' \in [Handlers -> HandlerStates]
    BY <2>2, <2>3, HandlerTyped
  <2>5. lastAction' \in [Players -> 0..MaxNow]
    BY <1>5, <2>1 DEF Authorize, Requests, RegistryTyped, TypeOK
  <2> QED
    BY <1>0, <1>5, <2>4, <2>5, TypesKept DEF Authorize
<1> QED
  BY <1>1, <1>2, <1>3, <1>4, <1>5

\* Past its verification a handler carries on a request or a player.
LEMMA CarryOn ==
  ASSUME RegistryTyped, NEW h \in Handlers,
         NEW pc \in {"authorize", "update", "persist", "saving"}, Goto(h, pc),
         IsDelegation(h) => handler[h].request \in Requests,
         ~IsDelegation(h) => handler[h].player \in Players /\ pc \in {"persist", "saving"}
  PROVE  handler' \in [Handlers -> HandlerStates]
<1>1. CASE IsDelegation(h)
  <2> DEFINE r == [pc |-> pc, request |-> handler[h].request]
  <2>1. r \in HandlerStates
    BY <1>1 DEF HandlerStates
  <2>2. handler' = [handler EXCEPT ![h] = r]
    BY <1>1 DEF Goto, IsDelegation
  <2> QED
    BY <2>1, <2>2, HandlerTyped
<1>2. CASE ~IsDelegation(h)
  <2> DEFINE r == [pc |-> pc, player |-> handler[h].player]
  <2>1. r \in HandlerStates
    BY <1>2 DEF HandlerStates
  <2>2. handler' = [handler EXCEPT ![h] = r]
    BY <1>2 DEF Goto, IsDelegation
  <2> QED
    BY <2>1, <2>2, HandlerTyped
<1> QED
  BY <1>1, <1>2

LEMMA MergedEntry ==
  ASSUME RegistryTyped, NEW p \in Players, NEW snapshot, NEW signature \in Signatures,
         NEW v \in PlayerStates
  PROVE  MergeVerifiedRegistration(p, snapshot, signature, v) \in RegisteredPlayers
<1>1. registry[p] \in RegisteredPlayers /\ now \in 0..MaxNow
  BY DEF RegistryTyped, TypeOK
<1>2. CASE ~Registered(p)
  <2>1. NoEntry \in RegisteredPlayers
    BY RegistryAssumption DEF NoEntry, NoState, RegisteredPlayers, PlayerStates
  <2>2. NewEntry(signature, v) \in RegisteredPlayers
    BY <2>1 DEF NewEntry, RegisteredPlayers
  <2> QED
    BY <1>2, <2>2 DEF MergeVerifiedRegistration
<1>3. CASE Registered(p)
  <2> DEFINE a == IF snapshot = NoEntry THEN registry[p] ELSE ApplyVerifiedState(registry[p], snapshot, v)
  <2>1. a \in RegisteredPlayers
    BY <1>1, AppliedEntry
  <2>2. MergeVerifiedRegistration(p, snapshot, signature, v) = [a EXCEPT !.signature = signature]
    BY <1>3 DEF MergeVerifiedRegistration
  <2> HIDE DEF a
  <2> QED
    BY <2>1, <2>2 DEF RegisteredPlayers
<1> QED
  BY <1>2, <1>3

LEMMA UpdateTypes ==
  ASSUME RegistryTyped, ConsentInv, NEW h \in Handlers,
         ApplyOnAction(h) \/ SetDelegation(h) \/ Register(h)
  PROVE  RegistryTyped'
<1>0. signed \subseteq Requests /\ registry \in Entries /\ now \in 0..MaxNow /\ HandlerOK(h)
  BY DEF RegistryTyped, TypeOK, Entries, ConsentInv, HandlersInv
<1>1. CASE ApplyOnAction(h)
  <2> DEFINE p == PlayerOf(h)
             e == ApplyVerifiedState(registry[p], handler[h].snapshot, handler[h].verified)
  <2>1. IsDelegation(h) /\ handler[h].request \in Requests /\ p \in Players /\ handler[h].verified \in PlayerStates
    BY <1>1, HandlerFields DEF ApplyOnAction
  <2>2. e \in RegisteredPlayers
    BY <1>0, <2>1, AppliedEntry DEF Entries
  <2>3. registry' = [registry EXCEPT ![p] = e]
    BY <1>1 DEF ApplyOnAction
  <2> HIDE DEF e, p
  <2>4. registry' \in Entries
    BY <1>0, <2>2, <2>3 DEF Entries
  <2>5. handler' \in [Handlers -> HandlerStates]
    BY <1>1, <2>1, CarryOn DEF ApplyOnAction
  <2> QED
    BY <1>0, <1>1, <2>4, <2>5, TypesKept DEF ApplyOnAction
<1>2. CASE SetDelegation(h)
  <2> DEFINE request == handler[h].request
             e == [registry[request.player] EXCEPT !.delegated = request.enabled, !.updatedAt = request.at]
  <2>1. IsDelegation(h) /\ request \in Requests
    BY <1>0, <1>2, HandlerFields DEF SetDelegation, HandlerOK
  <2>2. e \in RegisteredPlayers
    <3>1. request.player \in Players /\ request.enabled \in BOOLEAN /\ request.at \in 0..MaxNow
      BY <2>1 DEF Requests
    <3>2. registry[request.player] \in RegisteredPlayers
      BY <1>0, <3>1 DEF Entries
    <3> QED
      BY <3>1, <3>2 DEF RegisteredPlayers
  <2>3. registry' = [registry EXCEPT ![request.player] = e]
    BY <1>2 DEF SetDelegation
  <2> HIDE DEF e
  <2>4. registry' \in Entries
    BY <1>0, <2>2, <2>3 DEF Entries
  <2>5. handler' \in [Handlers -> HandlerStates]
    BY <1>2, <2>1, CarryOn DEF SetDelegation
  <2> QED
    BY <1>0, <1>2, <2>4, <2>5, TypesKept DEF SetDelegation
<1>3. CASE Register(h)
  <2> DEFINE p == handler[h].player
             e == MergeVerifiedRegistration(p, handler[h].snapshot, handler[h].signature, handler[h].verified)
  <2>1. ~IsDelegation(h) /\ p \in Players /\ handler[h].verified \in PlayerStates
        /\ handler[h].signature \in Signatures
    BY <1>3, HandlerFields DEF Register
  <2>2. e \in RegisteredPlayers
    BY <2>1, MergedEntry
  <2>3. registry' = [registry EXCEPT ![p] = e]
    BY <1>3 DEF Register
  <2> HIDE DEF e, p
  <2>4. registry' \in Entries
    BY <1>0, <2>2, <2>3 DEF Entries
  <2>5. handler' \in [Handlers -> HandlerStates]
    BY <1>3, <2>1, CarryOn DEF Register, p
  <2> QED
    BY <1>0, <1>3, <2>4, <2>5, TypesKept DEF Register
<1> QED
  BY <1>1, <1>2, <1>3

LEMMA StoredTyped ==
  ASSUME registry \in Entries
  PROVE  Stored(registry) \in Entries
<1>1. NoState \in PlayerStates
  BY RegistryAssumption DEF NoState, PlayerStates
<1>2. \A p \in Players: [registry[p] EXCEPT !.state = NoState] \in RegisteredPlayers
  BY <1>1 DEF Entries, RegisteredPlayers
<1> QED
  BY <1>2 DEF Stored, Entries

LEMMA PersistTypes ==
  ASSUME RegistryTyped, ConsentInv, NEW h \in Handlers,
         StartPersist(h) \/ FinishPersist(h) \/ Abandon(h)
  PROVE  RegistryTyped'
<1>0. /\ signed \subseteq Requests /\ registry \in Entries /\ HandlerOK(h) /\ AcksInv
      /\ IsDelegation(h) => handler[h].request \in signed
  BY DEF RegistryTyped, TypeOK, Entries, ConsentInv, HandlersInv, HandlerOK
<1>1. CASE StartPersist(h)
  <2>1. handler' \in [Handlers -> HandlerStates]
    BY <1>0, <1>1, HandlerFields, CarryOn DEF StartPersist
  <2>2. writer' # Free /\ writer'.file \in Entries
    <3>1. writer'.busy /\ writer'.file = Stored(registry)
      BY <1>1 DEF StartPersist, Snapshot
    <3> QED
      BY <1>0, <3>1, StoredTyped DEF Free
  <2> QED
    BY <1>0, <1>1, <2>1, <2>2, TypesKept DEF StartPersist
<1>2. ASSUME handler' = [handler EXCEPT ![h] = Idle] PROVE handler' \in [Handlers -> HandlerStates]
  <2>1. Idle \in HandlerStates
    BY DEF HandlerStates
  <2> QED
    BY <1>2, <2>1, HandlerTyped
<1>3. CASE FinishPersist(h)
  <2>1. disk' \in Entries
    BY <1>0, <1>3 DEF FinishPersist, HandlerOK, RegistryTyped
  <2>2. ~IsDelegation(h) => handler[h].player \in Players
    BY <1>3, HandlerFields DEF FinishPersist
  <2>3. acked' \subseteq acked \cup signed' \cup {Registration(q): q \in Players}
    BY <1>0, <1>3, <2>2 DEF FinishPersist
  <2> QED
    BY <1>0, <1>2, <1>3, <2>1, <2>3, TypesKept DEF FinishPersist
<1>4. CASE Abandon(h)
  BY <1>0, <1>2, <1>4, TypesKept DEF Abandon
<1> QED
  BY <1>1, <1>3, <1>4

LEMMA RefreshTypes ==
  ASSUME RegistryTyped, RefreshProgress \/ \E p \in Players: RefreshFailed(p)
  PROVE  RegistryTyped'
<1>0. signed \subseteq Requests /\ registry \in Entries /\ now \in 0..MaxNow /\ RefreshTyped
  BY DEF RegistryTyped, TypeOK, Entries
<1>1. CASE StartRefresh
  <2>1. PICK selected \in SUBSET Players:
          refresh' = [pc |-> "verify", pending |-> selected,
                      snapshot |-> [p \in selected |-> registry[p]],
                      verified |-> [p \in selected |-> {}]]
    BY <1>1 DEF StartRefresh
  <2>2. RefreshTyped'
    BY <1>0, <2>1 DEF RefreshTyped, Entries
  <2>3. cursor' \in 0..(CursorWrap - 1)
    <3> DEFINE total == Cardinality({p \in Players : Registered(p)})
               length == IF BatchSize < total THEN BatchSize ELSE total
    <3>1. total \in Nat
      BY RegistryAssumption, FS_Subset, FS_CardinalityType
    <3>2. cursor' = (cursor + length) % CursorWrap
      BY <1>1 DEF StartRefresh, NextCursor
    <3>3. length \in Nat /\ cursor \in Nat
      BY <3>1, RegistryAssumption DEF RegistryTyped, TypeOK
    <3> HIDE DEF length
    <3> QED
      BY <3>2, <3>3, RegistryAssumption
  <2> QED
    BY <1>0, <1>1, <2>2, <2>3, TypesKept DEF StartRefresh
<1>2. ASSUME NEW p \in Players, RefreshVerified(p) PROVE RegistryTyped'
  <2>1. PICK v \in Verified(p): refresh' = [refresh EXCEPT !.pending = @ \ {p}, !.verified[p] = {v}]
    BY <1>2 DEF RefreshVerified
  <2>2. v \in PlayerStates
    BY Answers DEF RegistryTyped
  <2>3. /\ DOMAIN refresh = {"pc", "pending", "snapshot", "verified"}
        /\ DOMAIN refresh.snapshot \subseteq Players
        /\ DOMAIN refresh.verified = DOMAIN refresh.snapshot
        /\ refresh.pending \subseteq DOMAIN refresh.snapshot
        /\ \A q \in DOMAIN refresh.snapshot:
              refresh.snapshot[q] \in RegisteredPlayers /\ refresh.verified[q] \subseteq PlayerStates
    BY <1>0, <1>2 DEF RefreshVerified, RefreshTyped, Idle
  <2>4. /\ DOMAIN refresh' = {"pc", "pending", "snapshot", "verified"}
        /\ refresh'.snapshot = refresh.snapshot /\ refresh'.pending \subseteq refresh.pending
        /\ refresh'.verified = [refresh.verified EXCEPT ![p] = {v}]
    BY <2>1, <2>3
  <2>5. RefreshTyped'
    BY <2>2, <2>3, <2>4 DEF RefreshTyped
  <2> QED
    BY <1>0, <1>2, <2>5, TypesKept DEF RefreshVerified
<1>3. ASSUME NEW p \in Players, RefreshFailed(p) PROVE RegistryTyped'
  <2>1. RefreshTyped'
    BY <1>0, <1>3 DEF RefreshFailed, RefreshTyped, Idle
  <2>2. faults' \in 0..MaxFaults
    BY <1>3, RegistryAssumption DEF RefreshFailed, RegistryTyped, TypeOK
  <2> QED
    BY <1>0, <1>3, <2>1, <2>2, TypesKept DEF RefreshFailed
<1>4. CASE FinishRefresh
  <2>1. refresh # Idle
    BY <1>4 DEF FinishRefresh, Idle
  <2>2. \A p \in Players: registry'[p] \in RegisteredPlayers
    <3> TAKE p \in Players
    <3>1. registry[p] \in RegisteredPlayers
      BY <1>0 DEF Entries
    <3>2. CASE p \in DOMAIN refresh.snapshot /\ refresh.verified[p] # {}
      <4> DEFINE v == CHOOSE u \in refresh.verified[p] : TRUE
      <4>1. v \in PlayerStates
        BY <1>0, <2>1, <3>2 DEF RefreshTyped
      <4>2. registry'[p] = ApplyVerifiedState(registry[p], refresh.snapshot[p], v)
        BY <1>4, <3>2 DEF FinishRefresh
      <4> HIDE DEF v
      <4> QED
        BY <1>0, <3>1, <4>1, <4>2, AppliedEntry
    <3>3. CASE ~(p \in DOMAIN refresh.snapshot /\ refresh.verified[p] # {})
      BY <1>4, <3>1, <3>3 DEF FinishRefresh
    <3> QED
      BY <3>2, <3>3
  <2>3. registry' = [p \in Players |-> registry'[p]]
    BY <1>4 DEF FinishRefresh
  <2>4. registry' \in Entries
    BY <2>2, <2>3 DEF Entries
  <2>5. RefreshTyped'
    BY <1>4 DEF FinishRefresh, RefreshTyped
  <2> QED
    BY <1>0, <1>4, <2>4, <2>5, TypesKept DEF FinishRefresh
<1> QED
  BY <1>1, <1>2, <1>3, <1>4 DEF RefreshProgress

LEMMA WorkerTypes ==
  ASSUME RegistryTyped, ConsentInv, WorkerInv, RenewalProgress \/ RenewalFailed
  PROVE  RegistryTyped'
<1>0. /\ signed \subseteq Requests /\ registry \in Entries /\ now \in 0..MaxNow /\ RenewalTyped
      /\ ledger' \in [Players -> [version: Nat, expires: Nat]]
  <2>1. WorkerInv'
    BY WorkerStep DEF Next
  <2> QED
    BY <2>1 DEF RegistryTyped, TypeOK, Entries, WorkerInv
<1>1. renewal'.pc \notin {"verify", "apply"} => RenewalTyped'
  BY DEF RenewalTyped
<1>2. CASE \/ StartRenewals \/ FetchRecord \/ Settle \/ SnapshotRenewed \/ VerifyRenewed
  <2>1. RenewalTyped'
    <3>1. CASE StartRenewals
      BY <1>1, <3>1 DEF StartRenewals
    <3>2. CASE FetchRecord
      BY <1>1, <3>2 DEF FetchRecord, Requeue
    <3>3. CASE Settle
      <4>1. "pc" \in DOMAIN renewal
        BY DEF WorkerInv
      <4> QED
        BY <1>1, <3>3, <4>1 DEF Settle, Requeue
    <3>4. CASE SnapshotRenewed
      <4>1. registry[renewal.player] \in RegisteredPlayers
        BY <1>0, <3>4 DEF SnapshotRenewed, Entries, WorkerInv, Turns
      <4>2. renewal'.pc = "verify" /\ renewal'.snapshot = registry[renewal.player]
        BY <3>4 DEF SnapshotRenewed
      <4> QED
        BY <4>1, <4>2 DEF RenewalTyped
    <3>5. CASE VerifyRenewed
      <4>1. renewal.player \in Players /\ renewal.snapshot \in RegisteredPlayers
        BY <1>0, <3>5 DEF VerifyRenewed, WorkerInv, Turns, RenewalTyped
      <4>2. \A v \in Verified(renewal.player): v \in PlayerStates
        BY <4>1, Answers DEF RegistryTyped
      <4>3. PICK v \in Verified(renewal.player):
              \/ renewal'.pc = "queue"
              \/ renewal'.pc = "apply" /\ renewal'.snapshot = renewal.snapshot /\ renewal'.verified = v
        BY <3>5 DEF VerifyRenewed, Requeue
      <4> QED
        BY <1>1, <4>1, <4>2, <4>3 DEF RenewalTyped
    <3> QED
      BY <1>2, <3>1, <3>2, <3>3, <3>4, <3>5
  <2> QED
    BY <1>0, <1>2, <2>1, TypesKept
       DEF StartRenewals, FetchRecord, Settle, SnapshotRenewed, VerifyRenewed
<1>3. CASE TakeQueued
  <2>1. PICK p \in renewal.due: renewal' =
          IF QueuedRenewalAuthorized(registry[p], renewal.queued[p])
          THEN [pc |-> "fetch", due |-> renewal.due \ {p}, player |-> p,
                changed |-> renewal.changed, queued |-> renewal.queued]
          ELSE [renewal EXCEPT !.due = @ \ {p}]
    BY <1>3 DEF TakeQueued
  <2>2. renewal.pc = "queue" /\ "pc" \in DOMAIN renewal
    BY <1>3 DEF TakeQueued, WorkerInv
  <2>3. RenewalTyped'
    BY <2>1, <2>2 DEF RenewalTyped
  <2> QED
    BY <1>0, <1>3, <2>3, TypesKept DEF TakeQueued
<1>4. CASE ApplyRenewed
  <2> DEFINE p == renewal.player
             e == ApplyVerifiedState(registry[p], renewal.snapshot, renewal.verified)
  <2>1. p \in Players /\ renewal.verified \in PlayerStates
    BY <1>0, <1>4 DEF ApplyRenewed, WorkerInv, Turns, RenewalTyped
  <2>2. e \in RegisteredPlayers
    BY <1>0, <2>1, AppliedEntry DEF Entries
  <2>3. registry' = [registry EXCEPT ![p] = e]
    BY <1>4 DEF ApplyRenewed
  <2> HIDE DEF e, p
  <2>4. registry' \in Entries
    BY <1>0, <2>2, <2>3 DEF Entries
  <2>5. RenewalTyped'
    BY <1>1, <1>4 DEF ApplyRenewed, Requeue
  <2> QED
    BY <1>0, <1>4, <2>4, <2>5, TypesKept DEF ApplyRenewed
<1>5. CASE StartRenewalPersist
  <2>1. RenewalTyped'
    BY <1>5 DEF StartRenewalPersist, RenewalTyped, Idle
  <2>2. writer' = writer \/ (writer' # Free /\ writer'.file \in Entries)
    <3>1. writer' = writer \/ (writer'.busy /\ writer'.file = Stored(registry))
      BY <1>5 DEF StartRenewalPersist, Snapshot
    <3> QED
      BY <1>0, <3>1, StoredTyped DEF Free
  <2> QED
    BY <1>0, <1>5, <2>1, <2>2, TypesKept DEF StartRenewalPersist
<1>6. CASE FinishRenewalPersist
  <2>1. disk' = disk \/ disk' \in Entries
    BY <1>6 DEF FinishRenewalPersist, RegistryTyped, ConsentInv, RenewalInv
  <2>2. RenewalTyped'
    BY <1>6 DEF FinishRenewalPersist, RenewalTyped, Idle
  <2> QED
    BY <1>0, <1>6, <2>1, <2>2, TypesKept DEF FinishRenewalPersist
<1>7. CASE RenewalFailed
  <2>1. RenewalTyped'
    BY <1>1, <1>7 DEF RenewalFailed, Requeue
  <2>2. faults' \in 0..MaxFaults
    BY <1>7, RegistryAssumption DEF RenewalFailed, RegistryTyped, TypeOK
  <2> QED
    BY <1>0, <1>7, <2>1, <2>2, TypesKept DEF RenewalFailed
<1> QED
  BY <1>2, <1>3, <1>4, <1>5, <1>6, <1>7 DEF RenewalProgress

LEMMA TypesStep ==
  ASSUME RegistryTyped, ConsentInv, WorkerInv, [Next]_vars
  PROVE  RegistryTyped'
<1>0. /\ signed \subseteq Requests /\ disk \in Entries
      /\ ledger' \in [Players -> [version: Nat, expires: Nat]]
  <2>1. WorkerInv'
    BY WorkerStep
  <2> QED
    BY <2>1 DEF RegistryTyped, TypeOK, Entries, WorkerInv
<1>1. CASE Tick \/ (\E p \in Players: Play(p)) \/ UNCHANGED vars
  <2>1. now' \in 1..MaxNow
    BY <1>1, RegistryAssumption DEF Tick, Play, vars, RegistryTyped, TypeOK
  <2> QED
    BY <1>0, <1>1, <2>1, TypesKept DEF Tick, Play, vars
<1>2. ASSUME NEW p \in Players, NEW at \in 1..MaxNow, NEW enabled \in BOOLEAN, Sign(p, at, enabled)
      PROVE  RegistryTyped'
  <2>1. signed \subseteq signed' /\ signed' \subseteq Requests
    BY <1>0, <1>2 DEF Sign, Requests
  <2> QED
    BY <1>2, <2>1, TypesKept DEF Sign
<1>3. ASSUME NEW h \in Handlers, HandlerStep(h) PROVE RegistryTyped'
  BY <1>3, ReceiveTypes, UpdateTypes, PersistTypes DEF HandlerStep
<1>4. CASE RefreshProgress \/ \E p \in Players: RefreshFailed(p)
  BY <1>4, RefreshTypes
<1>5. CASE RenewalProgress \/ RenewalFailed
  BY <1>5, WorkerTypes
<1>6. CASE Crash
  <2>1. RefreshTyped' /\ RenewalTyped'
    BY <1>6 DEF Crash, RefreshTyped, RenewalTyped, Idle
  <2>2. /\ handler' \in [Handlers -> HandlerStates] /\ lastAction' \in [Players -> 0..MaxNow]
        /\ crashes' \in 0..MaxCrashes /\ cursor' \in 0..(CursorWrap - 1)
    BY <1>6, RegistryAssumption DEF Crash, HandlerStates, RegistryTyped, TypeOK
  <2> QED
    BY <1>0, <1>6, <2>1, <2>2, TypesKept DEF Crash
<1> QED
  BY <1>1, <1>2, <1>3, <1>4, <1>5, <1>6 DEF Next, Environment

-----------------------------------------------------------------------------
(* Room and lock.                                                          *)
LEMMA SameRoom ==
  ASSUME NEW e, NEW f,
         \A p \in Players: f[p].signature # "none" <=> e[p].signature # "none"
  PROVE  Count(f) = Count(e)
<1>1. {p \in Players: f[p].signature # "none"} = {p \in Players: e[p].signature # "none"}
  OBVIOUS
<1> QED
  BY <1>1, Zenon DEF Count

\* An update of one entry, or of the whole cache, registers nobody.
LEMMA SignaturesStay ==
  ASSUME RegistryTyped, ConsentInv, WorkerInv,
         \/ \E h \in Handlers: ApplyOnAction(h) \/ SetDelegation(h)
         \/ FinishRefresh \/ ApplyRenewed
  PROVE  \A p \in Players: registry'[p].signature = registry[p].signature
<1>1. registry \in Entries
  BY DEF RegistryTyped, TypeOK, Entries
<1>2. \A p \in Players: \A s, v: SameConsent(registry[p], ApplyVerifiedState(registry[p], s, v))
  BY <1>1, AppliedConsent DEF Entries, RegisteredPlayers, Fields
<1>3. \A p \in Players: \A s, v: ApplyVerifiedState(registry[p], s, v).signature = registry[p].signature
  BY <1>2 DEF SameConsent
<1>4. \A p \in Players: registry'[p].signature = registry[p].signature
  <2>1. ASSUME NEW h \in Handlers, ApplyOnAction(h)
        PROVE  \A p \in Players: registry'[p].signature = registry[p].signature
    <3>1. PlayerOf(h) \in Players
      BY <2>1, HandlerFields DEF ApplyOnAction
    <3> QED
      BY <1>1, <1>3, <2>1, <3>1 DEF ApplyOnAction, Entries
  <2>2. ASSUME NEW h \in Handlers, SetDelegation(h)
        PROVE  \A p \in Players: registry'[p].signature = registry[p].signature
    <3> TAKE p \in Players
    <3>1. CASE p = handler[h].request.player
      <4>1. registry'[p] = [registry[p] EXCEPT !.delegated = handler[h].request.enabled,
                                               !.updatedAt = handler[h].request.at]
        BY <1>1, <2>1, <2>2, <3>1 DEF SetDelegation, Entries
      <4> QED
        BY <1>1, <4>1 DEF Entries, RegisteredPlayers
    <3>2. CASE p # handler[h].request.player
      BY <1>1, <2>2, <3>2 DEF SetDelegation, Entries
    <3> QED
      BY <3>1, <3>2
  <2>3. CASE FinishRefresh
    BY <1>3, <2>3 DEF FinishRefresh
  <2>4. CASE ApplyRenewed
    <3>1. renewal.player \in Players
      BY <2>4 DEF ApplyRenewed, WorkerInv, Turns
    <3> QED
      BY <1>1, <1>3, <2>4, <3>1 DEF ApplyRenewed, Entries
  <2> QED
    BY <2>1, <2>2, <2>3, <2>4
<1> QED
  BY <1>4

LEMMA RegisterKeepsRoom ==
  ASSUME RegistryTyped, ConsentInv, Room, NEW h \in Handlers, Register(h)
  PROVE  Count(registry') <= MaxPlayers
<1> DEFINE p == handler[h].player
           e == MergeVerifiedRegistration(p, handler[h].snapshot, handler[h].signature, handler[h].verified)
           R == {q \in Players: registry[q].signature # "none"}
<1>1. /\ registry' = [registry EXCEPT ![p] = e] /\ registry \in Entries
      /\ Registered(p) \/ Cardinality({q \in Players : Registered(q)}) < MaxPlayers
  BY DEF Register, RegistryTyped, TypeOK, Entries
<1>2. IsFiniteSet(R) /\ Cardinality(R) \in Nat /\ Cardinality(R) <= MaxPlayers
  <2>1. IsFiniteSet(R)
    BY RegistryAssumption, FS_Subset
  <2> QED
    BY <2>1, FS_CardinalityType DEF Room, Count
<1> HIDE DEF e, p
<1>3. {q \in Players: registry'[q].signature # "none"} \subseteq R \cup {p}
  BY <1>1 DEF Entries
<1>4. CASE p \in R
  <2>1. {q \in Players: registry'[q].signature # "none"} \subseteq R
    BY <1>3, <1>4
  <2> QED
    BY <1>2, <2>1, FS_Subset, FS_CardinalityType, RegistryAssumption DEF Count
<1>5. CASE p \notin R /\ p \in Players
  <2>1. {q \in Players : Registered(q)} = R
    BY DEF Registered
  <2>2. Cardinality({q \in Players : Registered(q)}) = Cardinality(R)
    BY <2>1, Zenon
  <2>3. Cardinality(R) < MaxPlayers
    BY <1>1, <1>5, <2>2 DEF Registered
  <2> HIDE DEF R
  <2>4. IsFiniteSet(R \cup {p}) /\ Cardinality(R \cup {p}) = Cardinality(R) + 1
    BY <1>2, <1>5, FS_AddElement
  <2>5. Cardinality({q \in Players: registry'[q].signature # "none"}) <= Cardinality(R \cup {p})
    BY <1>3, <2>4, FS_Subset
  <2>6. Cardinality({q \in Players: registry'[q].signature # "none"}) \in Nat
    BY <1>3, <2>4, FS_Subset, FS_CardinalityType
  <2> QED
    BY <1>2, <2>3, <2>4, <2>5, <2>6, RegistryAssumption DEF Count
<1>6. p \in Players
  BY HandlerFields DEF Register, p
<1> QED
  BY <1>4, <1>5, <1>6

LEMMA RoomKept ==
  ASSUME Room, RegistryTyped,
         registry' = registry \/ Count(registry') <= MaxPlayers,
         disk' = disk \/ (writer.busy /\ disk' = writer.file),
         writer' = writer \/ writer' = Free \/ writer'.file = Stored(registry)
  PROVE  Room'
<1>1. Count(Stored(registry)) = Count(registry)
  <2>1. \A p \in Players: Stored(registry)[p].signature = registry[p].signature
    BY DEF Stored, RegistryTyped, TypeOK, RegisteredPlayers
  <2> QED
    BY <2>1, SameRoom
<1>2. Count(registry') <= MaxPlayers
  BY DEF Room
<1>3. Count(disk') <= MaxPlayers
  BY DEF Room
<1>4. writer'.busy => Count(writer'.file) <= MaxPlayers
  BY <1>1 DEF Room, Free
<1> QED
  BY <1>2, <1>3, <1>4 DEF Room, Count

\* The file is replaced by what the holder of the lock took from memory.
LEMMA FileMoves ==
  ASSUME ConsentInv, [Next]_vars
  PROVE  /\ disk' = disk \/ (writer.busy /\ disk' = writer.file)
         /\ writer' = writer \/ writer' = Free \/ writer'.file = Stored(registry)
<1>1. ASSUME NEW h \in Handlers, StartPersist(h) \/ FinishPersist(h) \/ Abandon(h)
      PROVE  /\ disk' = disk \/ (writer.busy /\ disk' = writer.file)
             /\ writer' = writer \/ writer' = Free \/ writer'.file = Stored(registry)
  <2>1. handler[h].pc = "saving" => writer.busy
    BY DEF ConsentInv, HandlersInv, HandlerOK
  <2> QED
    BY <1>1, <2>1 DEF StartPersist, Snapshot, FinishPersist, Abandon
<1>2. ASSUME NEW h \in Handlers,
             \/ \E request \in signed: ReceiveDelegation(h, request)
             \/ \E p \in Players, signature \in Signatures: ReceiveRegistration(h, p, signature)
             \/ SnapshotRegistration(h) \/ HandlerVerified(h) \/ Authorize(h)
             \/ ApplyOnAction(h) \/ SetDelegation(h) \/ Register(h)
      PROVE  UNCHANGED <<disk, writer>>
  BY <1>2 DEF ReceiveDelegation, ReceiveRegistration, SnapshotRegistration, HandlerVerified,
              Authorize, ApplyOnAction, SetDelegation, Register
<1>3. CASE RefreshProgress \/ \E p \in Players: RefreshFailed(p)
  BY <1>3 DEF RefreshProgress, StartRefresh, RefreshVerified, RefreshFailed, FinishRefresh
<1>4. CASE \/ StartRenewals \/ TakeQueued \/ FetchRecord \/ Settle \/ SnapshotRenewed
           \/ VerifyRenewed \/ RenewalFailed \/ ApplyRenewed
  BY <1>4 DEF StartRenewals, TakeQueued, FetchRecord, Settle, SnapshotRenewed,
              VerifyRenewed, RenewalFailed, ApplyRenewed
<1>5. CASE StartRenewalPersist
  BY <1>5 DEF StartRenewalPersist, Snapshot
<1>6. CASE FinishRenewalPersist
  BY <1>6 DEF FinishRenewalPersist, ConsentInv, RenewalInv
<1>7. CASE Crash \/ Environment \/ UNCHANGED vars
  BY <1>7 DEF Crash, Environment, Tick, Play, Sign, vars
<1> QED
  BY <1>1, <1>2, <1>3, <1>4, <1>5, <1>6, <1>7 DEF Next, HandlerStep, RenewalProgress

\* Memory changes in the steps that write the cache, and in a crash.
LEMMA CacheWriters ==
  ASSUME [Next]_vars, registry' # registry
  PROVE  \/ \E h \in Handlers: ApplyOnAction(h) \/ SetDelegation(h) \/ Register(h)
         \/ FinishRefresh \/ ApplyRenewed \/ Crash
<1>1. \A h \in Handlers: HandlerStep(h) => ApplyOnAction(h) \/ SetDelegation(h) \/ Register(h)
  BY DEF HandlerStep, ReceiveDelegation, ReceiveRegistration, SnapshotRegistration,
         HandlerVerified, Authorize, StartPersist, FinishPersist, Abandon
<1>2. RefreshProgress \/ (\E p \in Players: RefreshFailed(p)) => FinishRefresh
  BY DEF RefreshProgress, StartRefresh, RefreshVerified, RefreshFailed
<1>3. RenewalProgress \/ RenewalFailed => ApplyRenewed
  BY DEF RenewalProgress, StartRenewals, TakeQueued, FetchRecord, Settle, SnapshotRenewed,
         VerifyRenewed, RenewalFailed, StartRenewalPersist, FinishRenewalPersist
<1>4. ~Environment /\ ~UNCHANGED vars
  BY DEF Environment, Tick, Play, Sign, vars
<1> QED
  BY <1>1, <1>2, <1>3, <1>4 DEF Next

LEMMA RoomStep ==
  ASSUME RegistryTyped, ConsentInv, WorkerInv, Room, [Next]_vars
  PROVE  Room'
<1>1. registry' = registry \/ Count(registry') <= MaxPlayers
  <2>1. ASSUME \/ \E h \in Handlers: ApplyOnAction(h) \/ SetDelegation(h)
               \/ FinishRefresh \/ ApplyRenewed
        PROVE  Count(registry') <= MaxPlayers
    <3>1. Count(registry') = Count(registry)
      BY <2>1, SignaturesStay, SameRoom
    <3> QED
      BY <3>1 DEF Room
  <2>2. Crash => Count(registry') <= MaxPlayers
    BY DEF Crash, Room
  <2> QED
    BY <2>1, <2>2, CacheWriters, RegisterKeepsRoom
<1> QED
  BY <1>1, FileMoves, RoomKept

\* Only the worker itself leaves the lock it holds.
LEMMA LockStep ==
  ASSUME ConsentInv, WorkerInv, WorkerLock, [Next]_vars
  PROVE  WorkerLock'
<1>1. \A h \in Handlers: renewal.pc = "saving" => handler[h].pc # "saving" /\ writer # Free
  BY DEF ConsentInv, HandlersInv, HandlerOK, RenewalInv, Free
<1>2. ASSUME NEW h \in Handlers, HandlerStep(h) PROVE WorkerLock'
  <2>1. renewal.pc = "saving" => writer' = writer
    BY <1>1, <1>2 DEF HandlerStep, ReceiveDelegation, ReceiveRegistration, SnapshotRegistration,
       HandlerVerified, ApplyOnAction, Authorize, SetDelegation, Register, StartPersist,
       FinishPersist, Abandon
  <2> QED
    BY <1>2, <2>1, HandlersLeaveWorker DEF WorkerLock
<1>3. CASE StartRenewals \/ FetchRecord \/ SnapshotRenewed \/ VerifyRenewed \/ ApplyRenewed
           \/ RenewalFailed
  <2>1. renewal'.pc # "saving"
    BY <1>3 DEF StartRenewals, FetchRecord, SnapshotRenewed, VerifyRenewed, ApplyRenewed,
                RenewalFailed, Requeue
  <2> QED
    BY <2>1 DEF WorkerLock
<1>4. CASE TakeQueued \/ Settle
  <2>1. renewal'.pc # "saving"
    BY <1>4 DEF TakeQueued, Settle, Requeue, WorkerInv
  <2> QED
    BY <2>1 DEF WorkerLock
<1>5. CASE StartRenewalPersist
  BY <1>5 DEF StartRenewalPersist, Snapshot, WorkerLock, Idle
<1>6. CASE FinishRenewalPersist \/ Crash
  BY <1>6 DEF FinishRenewalPersist, Crash, WorkerLock, Idle
<1>7. CASE \/ Environment \/ UNCHANGED vars \/ RefreshProgress
           \/ \E p \in Players: RefreshFailed(p)
  BY <1>7 DEF Environment, Tick, Play, Sign, vars, RefreshProgress, StartRefresh, RefreshVerified,
              FinishRefresh, RefreshFailed, WorkerLock
<1> QED
  BY <1>2, <1>3, <1>4, <1>5, <1>6, <1>7 DEF Next, RenewalProgress

RegistryInv == ConsentInv /\ WorkerInv /\ RegistryTyped /\ Room /\ WorkerLock

LEMMA RegistryStarts == Init => RegistryInv
BY ConsentStarts, WorkerStarts, TypesStart DEF RegistryInv

LEMMA RegistryStep == RegistryInv /\ [Next]_vars => RegistryInv'
BY ConsentStep, WorkerStep, TypesStep, RoomStep, LockStep DEF RegistryInv

(* Memory, file, requests and workers keep their shape, the file is        *)
(* written under its lock, and neither memory nor the file holds more      *)
(* players than load_registry accepts, for any number of requests at once. *)
THEOREM RegistryStaysSound == Spec => []RegistryIsSound
<1>1. RegistryInv => RegistryIsSound
  <2> SUFFICES ASSUME RegistryInv PROVE RegistryIsSound
    OBVIOUS
  <2>1. TypeOK
    BY DEF RegistryInv, RegistryTyped
  <2>2. LockIsHeld
    BY DEF RegistryInv, WorkerLock, LockIsHeld, ConsentInv, HandlersInv, HandlerOK
  <2>3. RoomIsKept
    BY DEF RegistryInv, Room, RoomIsKept, Count
  <2> QED
    BY <2>1, <2>2, <2>3 DEF RegistryIsSound
<1> QED
  BY RegistryStarts, RegistryStep, <1>1, PTL DEF Spec

-----------------------------------------------------------------------------
(* The published versions.                                                 *)

\* An answer is at least as new as what it was asked for, and not invented.
Fresh(p, snapshot, v) ==
  /\ snapshot.state.version <= v.version
  /\ v.version <= ledger[p].version

CacheFresh ==
  \A p \in Players:
    /\ registry[p].state.version <= ledger[p].version
    /\ ~Registered(p) => registry[p].state.version = 0

(* The file knows of no state: a restart has nothing older to publish.     *)
FileFresh ==
  /\ \A p \in Players: disk[p].state = NoState
  /\ writer.busy => \A p \in Players: writer.file[p].state = NoState

HandlerFresh(h) ==
  /\ handler[h].pc \in {"verify", "verified"} =>
       /\ IsDelegation(h) => handler[h].snapshot.signature # "none"
       /\ handler[h].snapshot.state.version <= ledger[PlayerOf(h)].version
  /\ handler[h].pc = "verified" => Fresh(PlayerOf(h), handler[h].snapshot, handler[h].verified)

RefreshFresh ==
  refresh # Idle =>
    \A p \in DOMAIN refresh.snapshot:
      /\ refresh.snapshot[p].signature # "none"
      /\ refresh.snapshot[p].state.version <= ledger[p].version
      /\ \A v \in refresh.verified[p]: v = NoState \/ Fresh(p, refresh.snapshot[p], v)

RenewalFresh ==
  /\ renewal.pc \in Turns => Registered(renewal.player)
  /\ renewal.pc \in {"verify", "apply"} =>
       /\ renewal.snapshot.signature # "none"
       /\ renewal.snapshot.state.version <= ledger[renewal.player].version
  /\ renewal.pc = "apply" => Fresh(renewal.player, renewal.snapshot, renewal.verified)

Versions ==
  CacheFresh /\ FileFresh /\ (\A h \in Handlers: HandlerFresh(h)) /\ RefreshFresh /\ RenewalFresh

\* What a step of a living process does to an entry of the cache.
EntryMoves(p) ==
  /\ registry'[p].state.version >= registry[p].state.version
  /\ registry'[p].state.version <= ledger'[p].version
  /\ Registered(p) => registry'[p].signature # "none"
  /\ registry'[p].signature = "none" => registry'[p].state.version = 0

LEMMA VersionsStart == Init => Versions
<1> SUFFICES ASSUME Init PROVE Versions
  OBVIOUS
<1>1. CacheFresh /\ FileFresh
  <2>1. NoEntry.state = NoState /\ NoState.version = 0
    BY DEF NoEntry, NoState
  <2>2. CacheFresh
    BY <2>1 DEF Init, CacheFresh
  <2>3. FileFresh
    BY <2>1 DEF Init, FileFresh, Free
  <2> QED
    BY <2>2, <2>3
<1>2. \A h \in Handlers: HandlerFresh(h)
  BY DEF Init, HandlerFresh, Idle
<1>3. RefreshFresh /\ RenewalFresh
  BY DEF Init, RefreshFresh, RenewalFresh, Idle, Turns
<1> QED
  BY <1>1, <1>2, <1>3 DEF Versions

LEMMA AppliedVersion ==
  ASSUME NEW e \in RegisteredPlayers, NEW s, NEW v \in PlayerStates,
         v = NoState \/ s.state.version <= v.version
  PROVE  LET f == ApplyVerifiedState(e, s, v)
         IN  /\ f.state.version >= e.state.version
             /\ f.state.version = e.state.version \/ (v # NoState /\ f.state.version = v.version)
             /\ f # e => e.signature = s.signature
             /\ f.signature = e.signature
<1>1. e.state \in PlayerStates /\ e.state.version \in Nat /\ v.version \in Nat
  BY DEF RegisteredPlayers, PlayerStates
<1>2. [e EXCEPT !.state = v].state = v /\ [e EXCEPT !.state = v].signature = e.signature
  BY DEF RegisteredPlayers
<1> DEFINE d == [e EXCEPT !.state.active = FALSE, !.state.updatedAt = now]
<1>3. d.state.version = e.state.version /\ d.signature = e.signature
  BY <1>1 DEF RegisteredPlayers, PlayerStates
<1> HIDE DEF d
<1> DEFINE f == ApplyVerifiedState(e, s, v)
<1>4. \/ f = e
      \/ /\ e.signature = s.signature /\ e.state = s.state
         /\ f = d \/ (v # NoState /\ f = [e EXCEPT !.state = v])
  BY DEF ApplyVerifiedState, SameRegistration, d
<1> HIDE DEF f
<1>5. /\ f.state.version = e.state.version \/ (v # NoState /\ f.state.version = v.version)
      /\ f # e => e.signature = s.signature
      /\ f.signature = e.signature
  BY <1>2, <1>3, <1>4
<1>6. f.state.version >= e.state.version
  <2>1. CASE f = e \/ f = d
    BY <1>1, <1>3, <2>1
  <2>2. CASE v # NoState /\ f = [e EXCEPT !.state = v] /\ e.state = s.state
    BY <1>1, <1>2, <2>2
  <2> QED
    BY <1>4, <2>1, <2>2
<1> QED
  BY <1>5, <1>6 DEF f

LEMMA LedgerGrows ==
  ASSUME RegistryInv, [Next]_vars
  PROVE  \A p \in Players: ledger'[p].version >= ledger[p].version /\ ledger[p].version \in Nat
<1>1. ledger \in [Players -> [version: Nat, expires: Nat]]
  BY DEF RegistryInv, WorkerInv
<1>2. CASE ledger' = ledger
  BY <1>1, <1>2
<1>3. ASSUME NEW p \in Players, Play(p)
      PROVE  \A q \in Players: ledger'[q].version >= ledger[q].version
  BY <1>1, <1>3 DEF Play
<1>4. CASE Settle
  BY <1>1, <1>4 DEF Settle
<1>5. ASSUME NEW h \in Handlers, HandlerStep(h) PROVE ledger' = ledger
  BY <1>5, HandlersLeaveWorker
<1>6. CASE RenewalProgress \/ RenewalFailed
  BY <1>1, <1>2, <1>4, <1>6 DEF RenewalProgress, StartRenewals, TakeQueued, FetchRecord,
     SnapshotRenewed, VerifyRenewed, ApplyRenewed, StartRenewalPersist, FinishRenewalPersist,
     RenewalFailed
<1>7. CASE RefreshProgress \/ (\E p \in Players: RefreshFailed(p)) \/ Crash \/ UNCHANGED vars
  BY <1>2, <1>7 DEF RefreshProgress, StartRefresh, RefreshVerified, RefreshFailed, FinishRefresh,
     Crash, vars
<1>8. CASE Environment
  BY <1>1, <1>2, <1>3, <1>8 DEF Environment, Tick, Sign
<1> QED
  BY <1>1, <1>2, <1>3, <1>5, <1>6, <1>7, <1>8 DEF Next

LEMMA EntryRests ==
  ASSUME RegistryInv, Versions, [Next]_vars, NEW p \in Players,
         registry'[p].state.version = registry[p].state.version,
         registry'[p].signature # "none" <=> registry[p].signature # "none"
  PROVE  EntryMoves(p)
<1>1. registry[p].state.version \in Nat
  BY DEF RegistryInv, RegistryTyped, TypeOK, RegisteredPlayers, PlayerStates
<1>2. ledger'[p].version >= ledger[p].version /\ ledger[p].version \in Nat /\ ledger'[p].version \in Int
  <2>1. RegistryInv'
    BY RegistryStep
  <2> QED
    BY <2>1, LedgerGrows DEF RegistryInv, WorkerInv
<1> QED
  BY <1>1, <1>2 DEF EntryMoves, Versions, CacheFresh, Registered

LEMMA EntryApplied ==
  ASSUME RegistryInv, Versions, [Next]_vars, UNCHANGED ledger, NEW p \in Players,
         NEW s, s.signature # "none",
         NEW v \in PlayerStates, v = NoState \/ Fresh(p, s, v),
         registry'[p] = ApplyVerifiedState(registry[p], s, v)
  PROVE  EntryMoves(p)
<1> DEFINE e == registry[p]
           f == ApplyVerifiedState(e, s, v)
<1>1. e \in RegisteredPlayers
  BY DEF RegistryInv, RegistryTyped, TypeOK
<1>2. /\ f.state.version >= e.state.version
      /\ f.state.version = e.state.version \/ (v # NoState /\ f.state.version = v.version)
      /\ f # e => e.signature = s.signature
      /\ f.signature = e.signature
  BY <1>1, AppliedVersion DEF Fresh
<1>3. CASE f = e
  BY <1>3, EntryRests
<1>4. CASE f # e
  <2>1. e.signature # "none" /\ f.signature # "none"
    BY <1>2, <1>4
  <2>2. registry'[p] = f
    OBVIOUS
  <2>3. e.state.version <= ledger[p].version /\ (v # NoState => v.version <= ledger[p].version)
    BY DEF Versions, CacheFresh, Fresh
  <2> HIDE DEF e, f
  <2>4. f.state.version <= ledger'[p].version
    BY <1>2, <2>3
  <2> QED
    BY <1>2, <2>1, <2>2, <2>4 DEF EntryMoves, Registered, e
<1> QED
  BY <1>3, <1>4

LEMMA RegisterMoves ==
  ASSUME RegistryInv, Versions, [Next]_vars, NEW h \in Handlers, Register(h)
  PROVE  \A p \in Players: EntryMoves(p)
<1> DEFINE p == handler[h].player
           s == handler[h].snapshot
           signature == handler[h].signature
           v == handler[h].verified
           e == registry[p]
           m == MergeVerifiedRegistration(p, s, signature, v)
<1>1. /\ registry' = [registry EXCEPT ![p] = m] /\ UNCHANGED ledger
      /\ handler[h].pc = "verified" /\ ~IsDelegation(h)
  BY DEF Register
<1>2. p \in Players /\ s \in RegisteredPlayers /\ v \in PlayerStates /\ signature \in Signatures
  BY <1>1, HandlerFields DEF RegistryInv
<1>3. Fresh(p, s, v) /\ e \in RegisteredPlayers /\ registry \in Entries
  BY <1>1, <1>2 DEF Versions, HandlerFresh, PlayerOf, RegistryInv, RegistryTyped, TypeOK, Entries
<1>4. m.signature # "none" /\ m.state.version >= e.state.version
      /\ m.state.version \in {e.state.version, v.version}
  <2>1. signature # "none"
    BY <1>2, RegistryAssumption
  <2>2. CASE ~Registered(p)
    <3>1. m = NewEntry(signature, v)
      BY <2>2 DEF MergeVerifiedRegistration
    <3>2. NewEntry(signature, v).state = v /\ NewEntry(signature, v).signature = signature
      BY DEF NewEntry, NoEntry
    <3>3. e.state.version = 0 /\ v.version \in Nat
      BY <1>2, <2>2 DEF Versions, CacheFresh, PlayerStates
    <3> HIDE DEF m, e, v, signature
    <3> QED
      BY <2>1, <3>1, <3>2, <3>3
  <2>3. CASE Registered(p)
    <3> DEFINE a == IF s = NoEntry THEN e ELSE ApplyVerifiedState(e, s, v)
    <3>1. m = [a EXCEPT !.signature = signature]
      BY <2>3 DEF MergeVerifiedRegistration
    <3>2. a \in RegisteredPlayers
      BY <1>2, <1>3, AppliedEntry DEF RegistryInv, RegistryTyped, TypeOK
    <3>3. a.state.version >= e.state.version /\ a.state.version \in {e.state.version, v.version}
      BY <1>2, <1>3, AppliedVersion DEF Fresh, RegisteredPlayers, PlayerStates
    <3> HIDE DEF m, e, v, signature, a
    <3>4. m.state = a.state /\ m.signature = signature
      BY <3>1, <3>2 DEF RegisteredPlayers
    <3> QED
      BY <2>1, <3>3, <3>4
  <2> QED
    BY <2>2, <2>3
<1>5. e.state.version <= ledger[p].version /\ v.version <= ledger[p].version
  BY <1>2, <1>3 DEF Versions, CacheFresh, Fresh
<1>6. EntryMoves(p)
  <2>1. registry'[p] = m
    BY <1>1, <1>2, <1>3 DEF Entries
  <2> HIDE DEF m, v
  <2> QED
    BY <1>1, <1>4, <1>5, <2>1 DEF EntryMoves, Registered
<1>7. ASSUME NEW q \in Players, q # p PROVE EntryMoves(q)
  <2>1. registry'[q] = registry[q]
    BY <1>1, <1>3, <1>7 DEF Entries
  <2> QED
    BY <2>1, EntryRests
<1> QED
  BY <1>6, <1>7

LEMMA CacheStepsForward ==
  ASSUME RegistryInv, Versions, [Next]_vars, crashes' = crashes
  PROVE  \A p \in Players: EntryMoves(p)
<1>0. registry \in Entries /\ ~Crash
  BY DEF RegistryInv, RegistryTyped, TypeOK, Entries, Crash
<1>1. CASE registry' = registry
  BY <1>1, EntryRests
<1>2. ASSUME NEW h \in Handlers, ApplyOnAction(h) PROVE \A p \in Players: EntryMoves(p)
  <2> TAKE p \in Players
  <2>1. /\ PlayerOf(h) \in Players /\ handler[h].verified \in PlayerStates
        /\ handler[h].pc = "verified" /\ IsDelegation(h) /\ UNCHANGED ledger
        /\ registry' = [registry EXCEPT ![PlayerOf(h)] =
              ApplyVerifiedState(@, handler[h].snapshot, handler[h].verified)]
    BY <1>2, HandlerFields DEF ApplyOnAction, RegistryInv
  <2>2. CASE p = PlayerOf(h)
    <3>1. registry'[p] = ApplyVerifiedState(registry[p], handler[h].snapshot, handler[h].verified)
      BY <1>0, <2>1, <2>2 DEF Entries
    <3>2. Fresh(p, handler[h].snapshot, handler[h].verified) /\ handler[h].snapshot.signature # "none"
      BY <2>1, <2>2 DEF Versions, HandlerFresh
    <3> QED
      BY <2>1, <3>1, <3>2, EntryApplied
  <2>3. CASE p # PlayerOf(h)
    <3>1. registry'[p] = registry[p]
      BY <1>0, <2>1, <2>3 DEF Entries
    <3> QED
      BY <3>1, EntryRests
  <2> QED
    BY <2>2, <2>3
<1>3. ASSUME NEW h \in Handlers, SetDelegation(h) PROVE \A p \in Players: EntryMoves(p)
  <2> TAKE p \in Players
  <2>1. registry'[p] = registry[p] \/
        registry'[p] = [registry[p] EXCEPT !.delegated = handler[h].request.enabled,
                                           !.updatedAt = handler[h].request.at]
    BY <1>0, <1>3 DEF SetDelegation, Entries
  <2>2. registry'[p].state = registry[p].state /\ registry'[p].signature = registry[p].signature
    BY <1>0, <2>1 DEF Entries, RegisteredPlayers
  <2> QED
    BY <2>2, EntryRests
<1>4. CASE FinishRefresh
  <2> TAKE p \in Players
  <2>1. refresh # Idle /\ UNCHANGED ledger
    BY <1>4 DEF FinishRefresh, Idle
  <2>2. CASE p \in DOMAIN refresh.snapshot /\ refresh.verified[p] # {}
    <3> DEFINE v == CHOOSE u \in refresh.verified[p] : TRUE
    <3>1. v \in refresh.verified[p]
      BY <2>2
    <3>2. registry'[p] = ApplyVerifiedState(registry[p], refresh.snapshot[p], v)
      BY <1>4, <2>2 DEF FinishRefresh
    <3> HIDE DEF v
    <3>3. v \in PlayerStates
      BY <2>1, <2>2, <3>1 DEF RegistryInv, RegistryTyped, RefreshTyped
    <3>4. /\ refresh.snapshot[p].signature # "none"
          /\ v = NoState \/ Fresh(p, refresh.snapshot[p], v)
      BY <2>1, <2>2, <3>1 DEF Versions, RefreshFresh
    <3> QED
      BY <2>1, <3>2, <3>3, <3>4, EntryApplied
  <2>3. CASE ~(p \in DOMAIN refresh.snapshot /\ refresh.verified[p] # {})
    <3>1. registry'[p] = registry[p]
      BY <1>4, <2>3 DEF FinishRefresh
    <3> QED
      BY <3>1, EntryRests
  <2> QED
    BY <2>2, <2>3
<1>5. CASE ApplyRenewed
  <2> TAKE p \in Players
  <2>1. /\ renewal.pc = "apply" /\ UNCHANGED ledger /\ renewal.verified \in PlayerStates
        /\ registry' = [registry EXCEPT ![renewal.player] =
              ApplyVerifiedState(@, renewal.snapshot, renewal.verified)]
    BY <1>5 DEF ApplyRenewed, RegistryInv, RegistryTyped, RenewalTyped
  <2>2. CASE p = renewal.player
    <3>1. registry'[p] = ApplyVerifiedState(registry[p], renewal.snapshot, renewal.verified)
      BY <1>0, <2>1, <2>2 DEF Entries
    <3>2. Fresh(p, renewal.snapshot, renewal.verified) /\ renewal.snapshot.signature # "none"
      BY <2>1, <2>2 DEF Versions, RenewalFresh
    <3> QED
      BY <2>1, <3>1, <3>2, EntryApplied
  <2>3. CASE p # renewal.player
    <3>1. registry'[p] = registry[p]
      BY <1>0, <2>1, <2>3 DEF Entries
    <3> QED
      BY <3>1, EntryRests
  <2> QED
    BY <2>2, <2>3
<1> QED
  BY <1>0, <1>1, <1>2, <1>3, <1>4, <1>5, CacheWriters, RegisterMoves

LEMMA FileFreshStep ==
  ASSUME RegistryInv, FileFresh, [Next]_vars
  PROVE  FileFresh'
<1>1. \A p \in Players: Stored(registry)[p].state = NoState
  BY DEF Stored, RegistryInv, RegistryTyped, TypeOK, RegisteredPlayers
<1> QED
  BY <1>1, FileMoves DEF RegistryInv, FileFresh, Free

\* What was asked and answered stays what it was when the ledger moves on.
LEMMA FreshLater ==
  ASSUME NEW p \in Players, NEW s, NEW v, Fresh(p, s, v), v.version \in Nat,
         ledger[p].version \in Nat, ledger'[p].version >= ledger[p].version, ledger'[p].version \in Nat
  PROVE  s.state.version <= v.version /\ v.version <= ledger'[p].version
BY DEF Fresh

LEMMA VersionTypes ==
  ASSUME RegistryInv, [Next]_vars
  PROVE  /\ \A p \in Players:
              /\ ledger[p].version \in Nat /\ ledger'[p].version \in Nat
              /\ ledger'[p].version >= ledger[p].version
         /\ \A e \in RegisteredPlayers: e.state.version \in Nat
         /\ \A v \in PlayerStates: v.version \in Nat
<1>1. RegistryInv'
  BY RegistryStep
<1> QED
  BY <1>1, LedgerGrows DEF RegistryInv, WorkerInv, RegisteredPlayers, PlayerStates

\* An answer the indexer gives now.
LEMMA AnswerIsFresh ==
  ASSUME NEW p \in Players, NEW s, NEW v \in Verified(p), v # NoState,
         s.state.version <= ledger[p].version, ledger[p].version \in Nat
  PROVE  Fresh(p, s, v)
<1>1. v.version = ledger[p].version
  BY DEF Verified
<1> QED
  BY <1>1 DEF Fresh

LEMMA HandlerRests ==
  ASSUME RegistryInv, [Next]_vars, NEW h \in Handlers, HandlerFresh(h), handler'[h] = handler[h]
  PROVE  HandlerFresh(h)'
<1>1. IsDelegation(h)' = IsDelegation(h) /\ PlayerOf(h)' = PlayerOf(h)
  BY DEF IsDelegation, PlayerOf
<1>2. CASE handler[h].pc \notin {"verify", "verified"}
  BY <1>2 DEF HandlerFresh
<1>3. CASE handler[h].pc \in {"verify", "verified"}
  <2> DEFINE p == PlayerOf(h)
             s == handler[h].snapshot
  <2>1. p \in Players /\ s \in RegisteredPlayers
    BY <1>3, HandlerFields DEF RegistryInv
  <2>2. handler[h].pc = "verified" => handler[h].verified \in PlayerStates
    BY HandlerFields DEF RegistryInv
  <2>3. s.state.version <= ledger'[p].version
    BY <1>3, <2>1, VersionTypes DEF HandlerFresh
  <2>4. handler[h].pc = "verified" =>
          s.state.version <= handler[h].verified.version /\ handler[h].verified.version <= ledger'[p].version
    BY <2>1, <2>2, VersionTypes, FreshLater DEF HandlerFresh
  <2> QED
    BY <1>1, <1>3, <2>3, <2>4 DEF HandlerFresh, Fresh
<1> QED
  BY <1>2, <1>3

LEMMA HandlerMovesFresh ==
  ASSUME RegistryInv, Versions, [Next]_vars, NEW h \in Handlers, HandlerStep(h)
  PROVE  HandlerFresh(h)'
<1>0. /\ ledger' = ledger /\ registry \in Entries /\ DOMAIN handler = Handlers
      /\ HandlerOK(h) /\ HandlerFresh(h)
  BY HandlersLeaveWorker DEF RegistryInv, RegistryTyped, TypeOK, Entries, ConsentInv, HandlersInv, Versions
<1>1. ASSUME handler'[h].pc \notin {"verify", "verified"} PROVE HandlerFresh(h)'
  BY <1>1 DEF HandlerFresh
<1>2. ASSUME NEW request \in signed, ReceiveDelegation(h, request) PROVE HandlerFresh(h)'
  <2>1. request.player \in Players /\ registry[request.player].signature # "none"
    BY <1>2 DEF ReceiveDelegation, Registered, RegistryInv, RegistryTyped, TypeOK, Requests
  <2>2. CASE handler'[h] = [pc |-> "authorize", request |-> request]
    BY <1>1, <2>2
  <2>3. CASE handler'[h] = [pc |-> "verify", request |-> request,
                            snapshot |-> registry[request.player], verified |-> NoState]
    <3>1. registry[request.player].state.version <= ledger'[request.player].version
      BY <1>0, <2>1 DEF Versions, CacheFresh
    <3>2. PlayerOf(h)' = request.player
      BY <2>3 DEF PlayerOf, IsDelegation
    <3> QED
      BY <2>1, <2>3, <3>1, <3>2 DEF HandlerFresh
  <2> QED
    BY <1>0, <1>2, <2>2, <2>3 DEF ReceiveDelegation
<1>3. CASE SnapshotRegistration(h)
  <2> DEFINE p == handler[h].player
  <2>1. ~IsDelegation(h) /\ p \in Players
    BY <1>0, <1>3, HandlerFields DEF SnapshotRegistration, HandlerOK, RegistryInv
  <2>2. handler'[h] = [pc |-> "verify", player |-> p, signature |-> handler[h].signature,
                       snapshot |-> registry[p], verified |-> NoState]
    BY <1>0, <1>3 DEF SnapshotRegistration
  <2>3. registry[p].state.version <= ledger'[p].version
    BY <1>0, <2>1 DEF Versions, CacheFresh
  <2>4. handler'[h].player = p /\ ~IsDelegation(h)'
    BY <2>2 DEF IsDelegation
  <2>5. PlayerOf(h)' = handler'[h].player
    BY <2>4 DEF PlayerOf
  <2> QED
    BY <2>2, <2>3, <2>4, <2>5 DEF HandlerFresh
<1>4. CASE HandlerVerified(h)
  <2>1. PICK v \in Verified(PlayerOf(h)): handler' = [handler EXCEPT ![h] =
          IF v = NoState THEN Idle ELSE [@ EXCEPT !.pc = "verified", !.verified = v]]
    BY <1>4 DEF HandlerVerified
  <2>2. CASE v = NoState
    BY <1>0, <1>1, <2>1, <2>2 DEF Idle
  <2>3. CASE v # NoState
    <3>1. handler[h].pc = "verify" /\ PlayerOf(h) \in Players
      BY <1>4, HandlerFields DEF HandlerVerified, RegistryInv
    <3>2. handler'[h] = [handler[h] EXCEPT !.pc = "verified", !.verified = v]
      BY <1>0, <2>1, <2>3
    <3>3. /\ DOMAIN handler[h] \in {{"pc", "request", "snapshot", "verified"},
                                   {"pc", "player", "signature", "snapshot", "verified"}}
      BY <1>0, <3>1 DEF RegistryInv, RegistryTyped, TypeOK, HandlerStates, Idle
    <3>4. /\ DOMAIN handler'[h] = DOMAIN handler[h] /\ handler'[h].snapshot = handler[h].snapshot
          /\ handler'[h].pc = "verified" /\ handler'[h].verified = v
          /\ handler'[h].player = handler[h].player /\ handler'[h].request = handler[h].request
      BY <3>2, <3>3
    <3>5. PlayerOf(h)' = PlayerOf(h) /\ (IsDelegation(h)' <=> IsDelegation(h))
      BY <3>4 DEF PlayerOf, IsDelegation
    <3>6. Fresh(PlayerOf(h), handler[h].snapshot, v)
      BY <1>0, <2>3, <3>1, AnswerIsFresh, VersionTypes DEF HandlerFresh
    <3> QED
      BY <1>0, <3>1, <3>4, <3>5, <3>6 DEF HandlerFresh, Fresh
  <2> QED
    BY <2>2, <2>3
<1>5. CASE ApplyOnAction(h) \/ Authorize(h) \/ SetDelegation(h) \/ Register(h) \/ StartPersist(h)
  BY <1>0, <1>1, <1>5 DEF ApplyOnAction, Authorize, SetDelegation, Register, StartPersist, Goto
<1>6. CASE FinishPersist(h) \/ Abandon(h)
  BY <1>0, <1>1, <1>6 DEF FinishPersist, Abandon, Idle
<1>7. ASSUME NEW p \in Players, NEW signature \in Signatures, ReceiveRegistration(h, p, signature)
      PROVE  HandlerFresh(h)'
  BY <1>0, <1>1, <1>7, HandlerRests DEF ReceiveRegistration
<1> QED
  BY <1>2, <1>3, <1>4, <1>5, <1>6, <1>7 DEF HandlerStep

\* Nothing but a crash counts as one.
LEMMA CrashesCount ==
  ASSUME [Next]_vars, ~Crash
  PROVE  crashes' = crashes
<1>1. \A h \in Handlers: HandlerStep(h) => crashes' = crashes
  BY DEF HandlerStep, ReceiveDelegation, ReceiveRegistration, SnapshotRegistration,
     HandlerVerified, ApplyOnAction, Authorize, SetDelegation, Register, StartPersist,
     FinishPersist, Abandon
<1>2. RefreshProgress \/ (\E p \in Players: RefreshFailed(p)) => crashes' = crashes
  BY DEF RefreshProgress, StartRefresh, RefreshVerified, RefreshFailed, FinishRefresh
<1>3. RenewalProgress \/ RenewalFailed => crashes' = crashes
  BY DEF RenewalProgress, StartRenewals, TakeQueued, FetchRecord, Settle, SnapshotRenewed,
     VerifyRenewed, ApplyRenewed, StartRenewalPersist, FinishRenewalPersist, RenewalFailed
<1>4. Environment \/ UNCHANGED vars => crashes' = crashes
  BY DEF Environment, Tick, Play, Sign, vars
<1> QED
  BY <1>1, <1>2, <1>3, <1>4 DEF Next

LEMMA HandlersFreshStep ==
  ASSUME RegistryInv, Versions, [Next]_vars
  PROVE  \A h \in Handlers: HandlerFresh(h)'
<1> TAKE g \in Handlers
<1>0. HandlerFresh(g) /\ DOMAIN handler = Handlers
  BY DEF Versions, RegistryInv, ConsentInv, HandlersInv
<1>1. ASSUME NEW h \in Handlers, HandlerStep(h) PROVE HandlerFresh(g)'
  <2>1. g # h => handler'[g] = handler[g]
    BY <1>0, <1>1 DEF HandlerStep, ReceiveDelegation, ReceiveRegistration, SnapshotRegistration,
       HandlerVerified, ApplyOnAction, Authorize, SetDelegation, Register, StartPersist,
       FinishPersist, Abandon, Goto
  <2> QED
    BY <1>0, <1>1, <2>1, HandlerRests, HandlerMovesFresh
<1>2. CASE Crash
  BY <1>2 DEF Crash, HandlerFresh, Idle
<1>3. CASE handler' = handler
  BY <1>0, <1>3, HandlerRests
<1>4. CASE \/ Environment \/ UNCHANGED vars \/ RefreshProgress
           \/ \E p \in Players: RefreshFailed(p)
  BY <1>3, <1>4 DEF Environment, Tick, Play, Sign, vars, RefreshProgress, StartRefresh,
     RefreshVerified, FinishRefresh, RefreshFailed
<1>5. CASE RenewalProgress \/ RenewalFailed
  BY <1>3, <1>5 DEF RenewalProgress, StartRenewals, TakeQueued, FetchRecord, Settle,
     SnapshotRenewed, VerifyRenewed, ApplyRenewed, StartRenewalPersist, FinishRenewalPersist,
     RenewalFailed
<1> QED
  BY <1>1, <1>2, <1>4, <1>5 DEF Next

\* What a refresh pass knows of a player stays fresh.
LEMMA PassRests ==
  ASSUME RegistryInv, [Next]_vars, RefreshFresh, refresh # Idle,
         refresh'.snapshot = refresh.snapshot,
         \A p \in DOMAIN refresh.snapshot: \A v \in refresh'.verified[p]:
           /\ v \in PlayerStates
           /\ v \in refresh.verified[p] \/ v = NoState \/ Fresh(p, refresh.snapshot[p], v)
  PROVE  RefreshFresh'
<1> SUFFICES ASSUME NEW p \in DOMAIN refresh.snapshot
             PROVE  /\ refresh.snapshot[p].signature # "none"
                    /\ refresh.snapshot[p].state.version <= ledger'[p].version
                    /\ \A v \in refresh'.verified[p]: v = NoState \/
                         (/\ refresh.snapshot[p].state.version <= v.version
                          /\ v.version <= ledger'[p].version)
  BY DEF RefreshFresh, Fresh
<1>1. p \in Players /\ refresh.snapshot[p] \in RegisteredPlayers
  BY DEF RegistryInv, RegistryTyped, RefreshTyped
<1>2. refresh.snapshot[p].signature # "none" /\ refresh.snapshot[p].state.version <= ledger[p].version
  BY DEF RefreshFresh
<1>3. \A v \in refresh'.verified[p]:
        v \in PlayerStates /\ (v = NoState \/ Fresh(p, refresh.snapshot[p], v))
  BY DEF RefreshFresh
<1> QED
  BY <1>1, <1>2, <1>3, VersionTypes DEF Fresh

LEMMA RefreshFreshStep ==
  ASSUME RegistryInv, Versions, [Next]_vars
  PROVE  RefreshFresh'
<1>0. /\ RefreshTyped /\ RefreshTyped' /\ RefreshFresh /\ CacheFresh
      /\ registry \in Entries
  BY RegistryStep DEF RegistryInv, RegistryTyped, TypeOK, Entries, Versions
<1>1. CASE refresh' = refresh
  <2>1. CASE refresh = Idle
    BY <1>1, <2>1 DEF RefreshFresh
  <2>2. CASE refresh # Idle
    BY <1>0, <1>1, <2>2, PassRests DEF RefreshTyped
  <2> QED
    BY <2>1, <2>2
<1>2. CASE Crash \/ FinishRefresh
  BY <1>2 DEF Crash, FinishRefresh, RefreshFresh
<1>3. CASE StartRefresh
  <2>1. PICK selected \in SUBSET {p \in Players: Registered(p)}:
          refresh' = [pc |-> "verify", pending |-> selected,
                      snapshot |-> [p \in selected |-> registry[p]],
                      verified |-> [p \in selected |-> {}]]
    BY <1>3 DEF StartRefresh
  <2>2. ledger' = ledger
    BY <1>3 DEF StartRefresh
  <2> QED
    BY <1>0, <2>1, <2>2 DEF RefreshFresh, CacheFresh, Registered
<1>4. ASSUME NEW p \in Players, RefreshVerified(p) PROVE RefreshFresh'
  <2>1. PICK v \in Verified(p): refresh' = [refresh EXCEPT !.pending = @ \ {p}, !.verified[p] = {v}]
    BY <1>4 DEF RefreshVerified
  <2>2. refresh # Idle /\ p \in DOMAIN refresh.snapshot /\ refresh' # Idle
    BY <1>0, <1>4, <2>1 DEF RefreshVerified, RefreshTyped, Idle
  <2>3. refresh'.snapshot = refresh.snapshot /\ refresh'.verified = [refresh.verified EXCEPT ![p] = {v}]
    BY <1>0, <2>1, <2>2 DEF RefreshTyped
  <2>4. v = NoState \/ Fresh(p, refresh.snapshot[p], v)
    BY <1>0, <2>2, AnswerIsFresh, VersionTypes DEF RefreshFresh
  <2>5. \A q \in DOMAIN refresh.snapshot: \A u \in refresh'.verified[q]:
          u \in refresh.verified[q] \/ u = NoState \/ Fresh(q, refresh.snapshot[q], u)
    BY <1>0, <2>2, <2>3, <2>4 DEF RefreshTyped
  <2> QED
    BY <1>0, <2>2, <2>3, <2>5, PassRests DEF RefreshTyped
<1>5. ASSUME NEW p \in Players, RefreshFailed(p) PROVE RefreshFresh'
  <2>1. refresh # Idle /\ refresh' # Idle /\ refresh'.snapshot = refresh.snapshot
        /\ refresh'.verified = refresh.verified
    BY <1>0, <1>5 DEF RefreshFailed, RefreshTyped, Idle
  <2> QED
    BY <1>0, <2>1, PassRests DEF RefreshTyped
<1>6. ASSUME NEW h \in Handlers, HandlerStep(h) PROVE refresh' = refresh
  BY <1>6 DEF HandlerStep, ReceiveDelegation, ReceiveRegistration, SnapshotRegistration,
     HandlerVerified, ApplyOnAction, Authorize, SetDelegation, Register, StartPersist,
     FinishPersist, Abandon
<1>7. CASE RenewalProgress \/ RenewalFailed
  BY <1>1, <1>7 DEF RenewalProgress, StartRenewals, TakeQueued, FetchRecord, Settle,
     SnapshotRenewed, VerifyRenewed, ApplyRenewed, StartRenewalPersist, FinishRenewalPersist,
     RenewalFailed
<1>8. CASE Environment \/ UNCHANGED vars
  BY <1>1, <1>8 DEF Environment, Tick, Play, Sign, vars
<1> QED
  BY <1>1, <1>2, <1>3, <1>4, <1>5, <1>6, <1>7, <1>8 DEF Next, RefreshProgress

\* The worker carries its player, and what it knows of it, along.
LEMMA TurnRests ==
  ASSUME RegistryInv, Versions, [Next]_vars, crashes' = crashes, renewal.pc \in Turns,
         renewal'.player = renewal.player,
         renewal'.pc \in {"settle", "renewed"} \/ renewal' = renewal
  PROVE  RenewalFresh'
<1> DEFINE p == renewal.player
<1>1. p \in Players /\ registry[p].signature # "none"
  BY DEF RegistryInv, WorkerInv, Versions, RenewalFresh, Registered
<1>2. registry'[p].signature # "none"
  BY <1>1, CacheStepsForward DEF EntryMoves, Registered
<1>3. Registered(renewal.player)'
  BY <1>2 DEF Registered
<1>4. CASE renewal'.pc \in {"settle", "renewed"}
  BY <1>3, <1>4 DEF RenewalFresh
<1>5. CASE renewal' = renewal
  <2>1. renewal.pc \in {"verify", "apply"} =>
          /\ renewal.snapshot \in RegisteredPlayers /\ renewal.snapshot.signature # "none"
          /\ renewal.snapshot.state.version <= ledger'[p].version
    BY <1>1, VersionTypes DEF RegistryInv, RegistryTyped, RenewalTyped, Versions, RenewalFresh
  <2>2. renewal.pc = "apply" =>
          /\ renewal.snapshot.state.version <= renewal.verified.version
          /\ renewal.verified.version <= ledger'[p].version
    BY <1>1, VersionTypes, FreshLater DEF RegistryInv, RegistryTyped, RenewalTyped, Versions, RenewalFresh
  <2> QED
    BY <1>3, <1>5, <2>1, <2>2 DEF RenewalFresh, Fresh
<1> QED
  BY <1>4, <1>5

LEMMA RenewalFreshStep ==
  ASSUME RegistryInv, Versions, [Next]_vars
  PROVE  RenewalFresh'
<1>0. WorkerInv /\ ConsentInv /\ RegistryTyped /\ CacheFresh /\ RenewalFresh
  BY DEF RegistryInv, Versions
<1>1. CASE renewal'.pc \notin Turns
  BY <1>1 DEF RenewalFresh, Turns
<1>2. CASE Crash
  BY <1>1, <1>2 DEF Crash, Idle, Turns
<1>3. CASE renewal' = renewal /\ ~Crash
  <2>1. crashes' = crashes \/ renewal'.pc \notin Turns
    BY <1>3, CrashesCount
  <2> QED
    BY <1>1, <1>3, <2>1, TurnRests
<1>4. CASE StartRenewals \/ StartRenewalPersist \/ FinishRenewalPersist \/ ApplyRenewed \/ RenewalFailed
  BY <1>1, <1>3, <1>4 DEF StartRenewals, StartRenewalPersist, FinishRenewalPersist, ApplyRenewed,
     RenewalFailed, Requeue, Idle, Turns
<1>5. CASE TakeQueued
  <2>1. PICK p \in renewal.due: renewal' =
          IF QueuedRenewalAuthorized(registry[p], renewal.queued[p])
          THEN [pc |-> "fetch", due |-> renewal.due \ {p}, player |-> p,
                changed |-> renewal.changed, queued |-> renewal.queued]
          ELSE [renewal EXCEPT !.due = @ \ {p}]
    BY <1>5 DEF TakeQueued
  <2>2. renewal.pc = "queue" /\ UNCHANGED registry /\ p \in Players
    BY <1>0, <1>5 DEF TakeQueued, WorkerInv
  <2>3. CASE QueuedRenewalAuthorized(registry[p], renewal.queued[p])
    <3>1. registry[p].delegated
      BY <2>3 DEF QueuedRenewalAuthorized, RenewalDue
    <3>2. registry[p].signature # "none"
      BY <1>0, <2>2, <3>1 DEF ConsentInv, EntriesInv, FileOK, EntryOK
    <3>3. renewal'.pc = "fetch" /\ renewal'.player = p
      BY <2>1, <2>3
    <3> QED
      BY <2>2, <3>2, <3>3 DEF RenewalFresh, Registered
  <2>4. CASE ~QueuedRenewalAuthorized(registry[p], renewal.queued[p])
    BY <1>0, <1>1, <2>1, <2>2, <2>4 DEF WorkerInv, Turns
  <2> QED
    BY <2>3, <2>4
<1>6. CASE FetchRecord \/ Settle
  <2>1. renewal.pc \in {"fetch", "settle"} /\ crashes' = crashes
    BY <1>6 DEF FetchRecord, Settle
  <2>2. \/ renewal'.pc = "queue"
        \/ renewal'.pc \in {"settle", "renewed"} /\ renewal'.player = renewal.player
    BY <1>0, <1>6 DEF FetchRecord, Settle, Requeue, WorkerInv, Turns
  <2> QED
    BY <1>1, <2>1, <2>2, TurnRests DEF Turns
<1>7. CASE SnapshotRenewed
  <2>1. /\ renewal'.pc = "verify" /\ renewal'.player = renewal.player
        /\ renewal'.snapshot = registry[renewal.player] /\ UNCHANGED <<registry, ledger>>
        /\ renewal.pc = "renewed"
    BY <1>7 DEF SnapshotRenewed
  <2>2. renewal.player \in Players /\ registry[renewal.player].signature # "none"
    BY <1>0, <2>1 DEF WorkerInv, RenewalFresh, Turns, Registered
  <2> QED
    BY <1>0, <2>1, <2>2 DEF RenewalFresh, CacheFresh, Registered
<1>8. CASE VerifyRenewed
  <2>1. PICK v \in Verified(renewal.player):
          \/ renewal'.pc = "queue"
          \/ /\ v # NoState /\ renewal'.pc = "apply" /\ renewal'.player = renewal.player
             /\ renewal'.snapshot = renewal.snapshot /\ renewal'.verified = v
    BY <1>8 DEF VerifyRenewed, Requeue
  <2>2. renewal.pc = "verify" /\ UNCHANGED <<registry, ledger>>
    BY <1>8 DEF VerifyRenewed
  <2>3. renewal.player \in Players /\ registry[renewal.player].signature # "none"
    BY <1>0, <2>2 DEF WorkerInv, RenewalFresh, Turns, Registered
  <2>4. v # NoState => Fresh(renewal.player, renewal.snapshot, v)
    BY <1>0, <2>2, <2>3, AnswerIsFresh, VersionTypes DEF RenewalFresh
  <2>5. CASE renewal'.pc = "queue"
    BY <1>1, <2>5 DEF Turns
  <2>6. CASE renewal'.pc # "queue"
    BY <1>0, <2>1, <2>2, <2>3, <2>4, <2>6 DEF RenewalFresh, Fresh, Registered
  <2> QED
    BY <2>5, <2>6
<1>9. ASSUME NEW h \in Handlers, HandlerStep(h) PROVE renewal' = renewal
  BY <1>9, HandlersLeaveWorker
<1>10. CASE Environment \/ UNCHANGED vars \/ RefreshProgress \/ \E p \in Players: RefreshFailed(p)
  <2>1. renewal' = renewal
    BY <1>10 DEF Environment, Tick, Play, Sign, vars, RefreshProgress, StartRefresh,
       RefreshVerified, FinishRefresh, RefreshFailed
  <2> QED
    BY <1>2, <1>3, <2>1
<1> QED
  BY <1>2, <1>3, <1>4, <1>5, <1>6, <1>7, <1>8, <1>9, <1>10 DEF Next, RenewalProgress

LEMMA VersionsStep == RegistryInv /\ Versions /\ [Next]_vars => Versions'
<1> SUFFICES ASSUME RegistryInv, Versions, [Next]_vars PROVE Versions'
  OBVIOUS
<1>1. CacheFresh'
  <2>1. CASE Crash
    <3>1. \A p \in Players: registry'[p].state.version = 0 /\ ledger'[p].version \in Nat
      BY <2>1, VersionTypes DEF Crash, Versions, FileFresh, NoState
    <3> QED
      BY <3>1 DEF CacheFresh
  <2>2. CASE ~Crash
    BY <2>2, CrashesCount, CacheStepsForward DEF EntryMoves, CacheFresh, Registered
  <2> QED
    BY <2>1, <2>2
<1> QED
  BY <1>1, FileFreshStep, HandlersFreshStep, RefreshFreshStep, RenewalFreshStep DEF Versions

(* While the process lives, no answer of the indexer, however late it is   *)
(* applied, takes the published state back to an output that a newer one   *)
(* has replaced (apply_verified_state of src/server.rs).                   *)
THEOREM CacheMovesForward == Spec => CacheNeverRegresses
<1>1. RegistryInv /\ Versions /\ [Next]_vars =>
        (crashes' = crashes =>
           \A p \in Players : registry'[p].state.version >= registry[p].state.version)
  BY CacheStepsForward DEF EntryMoves
<1> QED
  BY <1>1, RegistryStarts, RegistryStep, VersionsStart, VersionsStep, PTL
     DEF Spec, CacheNeverRegresses
=============================================================================
