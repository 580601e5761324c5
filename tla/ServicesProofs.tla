--------------------------- MODULE ServicesProofs ---------------------------
(***************************************************************************)
(* What the server tells the browsers, for any number of players, places,  *)
(* polls and events, any latencies and windows in the code's order, and    *)
(* whatever fails in between.                                              *)
(***************************************************************************)
EXTENDS Readiness, Presence, ConsentView, FiniteSetTheorems, TLAPS

(***************************************************************************)
(* ConsentView.                                                            *)
(***************************************************************************)

(* A consent's version is the number of changes the registry took, at most *)
(* one for each event; what the browser will be answered, or can still     *)
(* accept from a poll, is no older than the last answered change.          *)
ConsentInv ==
  /\ ConsentTypeOK
  /\ IsFiniteSet(asked)
  /\ consent.version = 0 \/ consent.version \leq delegationClock
  /\ post # NoPost => post.got.version \leq consent.version
  /\ \A p \in asked:
       /\ p.reply # NotYet => p.reply.version \in 0..consent.version
       /\ p.reply # NotYet /\ p.at >= delegationObservedAt => p.reply.version >= acked

LEMMA ConsentStarts == ConsentInit => ConsentInv
<1> SUFFICES ASSUME ConsentInit PROVE ConsentInv
  OBVIOUS
<1> USE ConsentViewAssumption DEF ConsentInit
<1>1. Cardinality(asked) = 0 /\ IsFiniteSet(asked)
  BY FS_EmptySet
<1>2. NoConsent \in Consent /\ NoConsent.version = 0
  BY DEF Consent, NoConsent
<1>3. ConsentTypeOK
  <2>1. events = 0 /\ available = FALSE /\ consent = NoConsent /\ listed = NoConsent /\ shown = NoConsent
    OBVIOUS
  <2>2. delegationClock = -1 /\ delegationObservedAt = -1 /\ acked = 0 /\ sent = {} /\ asked = {}
    BY DEF Never
  <2>3. post = NoPost /\ MaxEvents \in Nat /\ MaxAsked \in Nat
    OBVIOUS
  <2>4. sent \subseteq [at: 1..events, on: BOOLEAN]
    BY <2>2
  <2>5. asked \subseteq [at: 1..events, reply: Consent \cup {NotYet}]
    BY <2>2
  <2>6. Cardinality(asked) \leq MaxAsked
    BY <1>1, <2>3
  <2>7. consent \in Consent /\ listed \in Consent /\ shown \in Consent
    BY <1>2, <2>1
  <2>8. /\ listed.version <= consent.version /\ shown.version <= consent.version
        /\ acked \in 0..consent.version
    BY <1>2, <2>1, <2>2
  <2>9. available \in BOOLEAN
    BY <2>1, Zenon
  <2>10. events \in 0..MaxEvents /\ delegationClock \in Never..events /\ delegationObservedAt \in Never..events
    BY ONLY <2>1, <2>2, <2>3 DEF Never
  <2> QED
    BY ONLY <2>10, <2>3, <2>4, <2>5, <2>6, <2>7, <2>8, <2>9 DEF ConsentTypeOK
<1> QED
  BY <1>1, <1>2, <1>3 DEF ConsentInv

LEMMA AskedCount ==
  ASSUME IsFiniteSet(asked), Cardinality(asked) \leq MaxAsked, NEW p \in asked
  PROVE  /\ IsFiniteSet(asked \ {p}) /\ Cardinality(asked \ {p}) \leq MaxAsked
         /\ \A q: /\ IsFiniteSet((asked \ {p}) \cup {q})
                  /\ Cardinality((asked \ {p}) \cup {q}) \leq MaxAsked
<1>1. IsFiniteSet(asked \ {p}) /\ Cardinality(asked \ {p}) = Cardinality(asked) - 1
  BY FS_RemoveElement
<1>2. Cardinality(asked) \in Nat /\ MaxAsked \in Nat
  BY FS_CardinalityType, ConsentViewAssumption
<1>3. ASSUME NEW q
      PROVE  /\ IsFiniteSet((asked \ {p}) \cup {q})
             /\ Cardinality((asked \ {p}) \cup {q}) \leq MaxAsked
  <2>1. /\ IsFiniteSet((asked \ {p}) \cup {q})
        /\ \/ Cardinality((asked \ {p}) \cup {q}) = Cardinality(asked \ {p})
           \/ Cardinality((asked \ {p}) \cup {q}) = Cardinality(asked \ {p}) + 1
    BY <1>1, FS_AddElement
  <2> QED
    BY <1>1, <1>2, <2>1
<1> QED
  BY <1>1, <1>2, <1>3

LEMMA ConsentStep == ConsentInv /\ [ConsentNext]_consentVars => ConsentInv' /\ AnsweredStep
<1> SUFFICES ASSUME ConsentInv, [ConsentNext]_consentVars PROVE ConsentInv' /\ AnsweredStep
  OBVIOUS
<1> USE ConsentViewAssumption DEF Never
<1>1. CASE Toggle
  <2>1. IsFiniteSet(asked') /\ Cardinality(asked') \leq MaxAsked
    BY <1>1 DEF Toggle, ConsentInv, ConsentTypeOK
  <2>2. ConsentTypeOK'
    <3>1. events' \in 0..MaxEvents /\ available' \in BOOLEAN
      BY <1>1 DEF Toggle, Event, NotYet, Outdated, Off, ConsentInv, ConsentTypeOK, Consent, NoPost
    <3>2. consent' \in Consent /\ listed' \in Consent /\ shown' \in Consent
      BY <1>1 DEF Toggle, Event, NotYet, Outdated, Off, ConsentInv, ConsentTypeOK, Consent, NoPost
    <3>3. /\ listed'.version <= consent'.version /\ shown'.version <= consent'.version
          /\ acked' \in 0..consent'.version
      BY <1>1 DEF Toggle, Event, NotYet, Outdated, Off, ConsentInv, ConsentTypeOK, Consent, NoPost
    <3>4. delegationClock' \in Never..events' /\ delegationObservedAt' \in Never..events'
      BY <1>1 DEF Toggle, Event, NotYet, Outdated, Off, ConsentInv, ConsentTypeOK, Consent, NoPost
    <3>5. sent' \subseteq [at: 1..events', on: BOOLEAN]
      <4>1. sent' = sent \cup {[at |-> events', on |-> ~shown.on]} /\ events' = events + 1
        BY <1>1 DEF Toggle, Event
      <4>2. sent \subseteq [at: 1..events, on: BOOLEAN] /\ events \in Nat
        BY DEF ConsentInv, ConsentTypeOK
      <4> DEFINE on == ~shown.on
      <4>3. on \in BOOLEAN
        OBVIOUS
      <4>4. sent' = sent \cup {[at |-> events', on |-> on]}
        BY <4>1
      <4> HIDE DEF on
      <4> QED
        BY <4>1, <4>2, <4>3, <4>4
    <3>6. post' = NoPost \/ post' \in [stage: {"sent", "applied"}, at: 1..events', got: Consent]
      BY <1>1 DEF Toggle, Event, NotYet, Outdated, Off, ConsentInv, ConsentTypeOK, Consent, NoPost, NoConsent
    <3>7. asked' \subseteq [at: 1..events', reply: Consent \cup {NotYet}]
      BY <1>1 DEF Toggle, Event, NotYet, Outdated, Off, ConsentInv, ConsentTypeOK, Consent, NoPost
    <3> QED
      BY <2>1, <3>1, <3>2, <3>3, <3>4, <3>5, <3>6, <3>7 DEF ConsentTypeOK
  <2>3. /\ consent'.version = 0 \/ consent'.version \leq delegationClock'
        /\ post' # NoPost => post'.got.version \leq consent'.version
    BY <1>1 DEF Toggle, Event, NotYet, Outdated, Off, ConsentInv, ConsentTypeOK, Consent, NoPost, NoConsent
  <2>4. \A q \in asked':
          /\ q.reply # NotYet => q.reply.version \in 0..consent'.version
          /\ q.reply # NotYet /\ q.at >= delegationObservedAt' => q.reply.version >= acked'
    BY <1>1 DEF Toggle, Event, NotYet, Outdated, Off, ConsentInv, ConsentTypeOK, Consent, NoPost
  <2>5. AnsweredStep
    BY <1>1 DEF Toggle, Event, NotYet, Outdated, Off, ConsentInv, ConsentTypeOK, Consent, NoPost, AnsweredStep
  <2> QED
    BY <2>1, <2>2, <2>3, <2>4, <2>5 DEF ConsentInv
<1>2. CASE Ack
  <2>1. IsFiniteSet(asked') /\ Cardinality(asked') \leq MaxAsked
    BY <1>2 DEF Ack, ConsentInv, ConsentTypeOK
  <2>2. ConsentTypeOK'
    BY <1>2, <2>1 DEF Ack, Event, NotYet, Outdated, Off, ConsentInv, ConsentTypeOK, Consent, NoPost, NoConsent
  <2>3. /\ consent'.version = 0 \/ consent'.version \leq delegationClock'
        /\ post' # NoPost => post'.got.version \leq consent'.version
    BY <1>2 DEF Ack, Event, NotYet, Outdated, Off, ConsentInv, ConsentTypeOK, Consent, NoPost, NoConsent
  <2>4. \A q \in asked':
          /\ q.reply # NotYet => q.reply.version \in 0..consent'.version
          /\ q.reply # NotYet /\ q.at >= delegationObservedAt' => q.reply.version >= acked'
    BY <1>2 DEF Ack, Event, NotYet, Outdated, Off, ConsentInv, ConsentTypeOK, Consent, NoPost
  <2>5. AnsweredStep
    BY <1>2 DEF Ack, Event, NotYet, Outdated, Off, ConsentInv, ConsentTypeOK, Consent, NoPost, AnsweredStep
  <2> QED
    BY <2>1, <2>2, <2>3, <2>4, <2>5 DEF ConsentInv
<1>3. CASE GiveUp
  <2>1. IsFiniteSet(asked') /\ Cardinality(asked') \leq MaxAsked
    BY <1>3 DEF GiveUp, ConsentInv, ConsentTypeOK
  <2>2. ConsentTypeOK'
    BY <1>3, <2>1 DEF GiveUp, Event, NotYet, Outdated, Off, ConsentInv, ConsentTypeOK, Consent, NoPost, NoConsent
  <2>3. /\ consent'.version = 0 \/ consent'.version \leq delegationClock'
        /\ post' # NoPost => post'.got.version \leq consent'.version
    BY <1>3 DEF GiveUp, Event, NotYet, Outdated, Off, ConsentInv, ConsentTypeOK, Consent, NoPost, NoConsent
  <2>4. \A q \in asked':
          /\ q.reply # NotYet => q.reply.version \in 0..consent'.version
          /\ q.reply # NotYet /\ q.at >= delegationObservedAt' => q.reply.version >= acked'
    BY <1>3 DEF GiveUp, Event, NotYet, Outdated, Off, ConsentInv, ConsentTypeOK, Consent, NoPost
  <2>5. AnsweredStep
    BY <1>3 DEF GiveUp, Event, NotYet, Outdated, Off, ConsentInv, ConsentTypeOK, Consent, NoPost, AnsweredStep
  <2> QED
    BY <2>1, <2>2, <2>3, <2>4, <2>5 DEF ConsentInv
<1>4. ASSUME NEW m \in sent, Apply(m)
      PROVE  ConsentInv' /\ AnsweredStep
  <2>1. IsFiniteSet(asked') /\ Cardinality(asked') \leq MaxAsked
    BY <1>4 DEF Apply, ConsentInv, ConsentTypeOK
  <2>2. ConsentTypeOK'
    <3>1. events' \in 0..MaxEvents /\ available' \in BOOLEAN
      BY <1>4 DEF Apply, Event, NotYet, Outdated, Off, ConsentInv, ConsentTypeOK, Consent, NoPost
    <3>2. consent' \in Consent /\ listed' \in Consent /\ shown' \in Consent
      BY <1>4 DEF Apply, Event, NotYet, Outdated, Off, ConsentInv, ConsentTypeOK, Consent, NoPost
    <3>3. /\ listed'.version <= consent'.version /\ shown'.version <= consent'.version
          /\ acked' \in 0..consent'.version
      BY <1>4 DEF Apply, Event, NotYet, Outdated, Off, ConsentInv, ConsentTypeOK, Consent, NoPost
    <3>4. delegationClock' \in Never..events' /\ delegationObservedAt' \in Never..events'
      BY <1>4 DEF Apply, Event, NotYet, Outdated, Off, ConsentInv, ConsentTypeOK, Consent, NoPost
    <3>5. sent' \subseteq [at: 1..events', on: BOOLEAN]
      BY <1>4 DEF Apply, Event, NotYet, Outdated, Off, ConsentInv, ConsentTypeOK, Consent, NoPost
    <3>6. post' = NoPost \/ post' \in [stage: {"sent", "applied"}, at: 1..events', got: Consent]
      <4>1. post' = post \/ (post # NoPost /\ post' = [post EXCEPT !.stage = "applied", !.got = consent'])
        BY <1>4 DEF Apply
      <4>2. post = NoPost \/ post \in [stage: {"sent", "applied"}, at: 1..events, got: Consent]
        BY DEF ConsentInv, ConsentTypeOK
      <4>3. events' = events
        BY <1>4 DEF Apply
      <4> QED
        BY <3>2, <4>1, <4>2, <4>3
    <3>7. asked' \subseteq [at: 1..events', reply: Consent \cup {NotYet}]
      BY <1>4 DEF Apply, Event, NotYet, Outdated, Off, ConsentInv, ConsentTypeOK, Consent, NoPost
    <3> QED
      BY <2>1, <3>1, <3>2, <3>3, <3>4, <3>5, <3>6, <3>7 DEF ConsentTypeOK
  <2>3. /\ consent'.version = 0 \/ consent'.version \leq delegationClock'
        /\ post' # NoPost => post'.got.version \leq consent'.version
    BY <1>4 DEF Apply, Event, NotYet, Outdated, Off, ConsentInv, ConsentTypeOK, Consent, NoPost, NoConsent
  <2>4. \A q \in asked':
          /\ q.reply # NotYet => q.reply.version \in 0..consent'.version
          /\ q.reply # NotYet /\ q.at >= delegationObservedAt' => q.reply.version >= acked'
    BY <1>4 DEF Apply, Event, NotYet, Outdated, Off, ConsentInv, ConsentTypeOK, Consent, NoPost
  <2>5. AnsweredStep
    BY <1>4 DEF Apply, Event, NotYet, Outdated, Off, ConsentInv, ConsentTypeOK, Consent, NoPost, AnsweredStep
  <2> QED
    BY <2>1, <2>2, <2>3, <2>4, <2>5 DEF ConsentInv
<1>5. ASSUME NEW m \in sent, LoseConsent(m)
      PROVE  ConsentInv' /\ AnsweredStep
  <2>1. IsFiniteSet(asked') /\ Cardinality(asked') \leq MaxAsked
    BY <1>5 DEF LoseConsent, ConsentInv, ConsentTypeOK
  <2>2. ConsentTypeOK'
    BY <1>5, <2>1 DEF LoseConsent, Event, NotYet, Outdated, Off, ConsentInv, ConsentTypeOK, Consent, NoPost, NoConsent
  <2>3. /\ consent'.version = 0 \/ consent'.version \leq delegationClock'
        /\ post' # NoPost => post'.got.version \leq consent'.version
    BY <1>5 DEF LoseConsent, Event, NotYet, Outdated, Off, ConsentInv, ConsentTypeOK, Consent, NoPost, NoConsent
  <2>4. \A q \in asked':
          /\ q.reply # NotYet => q.reply.version \in 0..consent'.version
          /\ q.reply # NotYet /\ q.at >= delegationObservedAt' => q.reply.version >= acked'
    BY <1>5 DEF LoseConsent, Event, NotYet, Outdated, Off, ConsentInv, ConsentTypeOK, Consent, NoPost
  <2>5. AnsweredStep
    BY <1>5 DEF LoseConsent, Event, NotYet, Outdated, Off, ConsentInv, ConsentTypeOK, Consent, NoPost, AnsweredStep
  <2> QED
    BY <2>1, <2>2, <2>3, <2>4, <2>5 DEF ConsentInv
<1>6. CASE Ask
  <2>1. IsFiniteSet(asked') /\ Cardinality(asked') \leq MaxAsked
    <3>1. Cardinality(asked) \in Nat /\ Cardinality(asked) < MaxAsked /\ IsFiniteSet(asked)
      BY <1>6, FS_CardinalityType DEF Ask, ConsentInv
    <3>2. \A q: /\ IsFiniteSet(asked \cup {q})
               /\ \/ Cardinality(asked \cup {q}) = Cardinality(asked)
                  \/ Cardinality(asked \cup {q}) = Cardinality(asked) + 1
      BY <3>1, FS_AddElement
    <3> QED
      BY <1>6, <3>1, <3>2 DEF Ask
  <2>2. ConsentTypeOK'
    <3>1. events' \in 0..MaxEvents /\ available' \in BOOLEAN
      BY <1>6 DEF Ask, Event, NotYet, Outdated, Off, ConsentInv, ConsentTypeOK, Consent, NoPost
    <3>2. consent' \in Consent /\ listed' \in Consent /\ shown' \in Consent
      BY <1>6 DEF Ask, Event, NotYet, Outdated, Off, ConsentInv, ConsentTypeOK, Consent, NoPost
    <3>3. /\ listed'.version <= consent'.version /\ shown'.version <= consent'.version
          /\ acked' \in 0..consent'.version
      BY <1>6 DEF Ask, Event, NotYet, Outdated, Off, ConsentInv, ConsentTypeOK, Consent, NoPost
    <3>4. delegationClock' \in Never..events' /\ delegationObservedAt' \in Never..events'
      BY <1>6 DEF Ask, Event, NotYet, Outdated, Off, ConsentInv, ConsentTypeOK, Consent, NoPost
    <3>5. sent' \subseteq [at: 1..events', on: BOOLEAN]
      BY <1>6 DEF Ask, Event, NotYet, Outdated, Off, ConsentInv, ConsentTypeOK, Consent, NoPost
    <3>6. post' = NoPost \/ post' \in [stage: {"sent", "applied"}, at: 1..events', got: Consent]
      BY <1>6 DEF Ask, Event, NotYet, Outdated, Off, ConsentInv, ConsentTypeOK, Consent, NoPost, NoConsent
    <3>7. asked' \subseteq [at: 1..events', reply: Consent \cup {NotYet}]
      BY <1>6 DEF Ask, Event, NotYet, Outdated, Off, ConsentInv, ConsentTypeOK, Consent, NoPost
    <3> QED
      BY <2>1, <3>1, <3>2, <3>3, <3>4, <3>5, <3>6, <3>7 DEF ConsentTypeOK
  <2>3. /\ consent'.version = 0 \/ consent'.version \leq delegationClock'
        /\ post' # NoPost => post'.got.version \leq consent'.version
    BY <1>6 DEF Ask, Event, NotYet, Outdated, Off, ConsentInv, ConsentTypeOK, Consent, NoPost, NoConsent
  <2>4. \A q \in asked':
          /\ q.reply # NotYet => q.reply.version \in 0..consent'.version
          /\ q.reply # NotYet /\ q.at >= delegationObservedAt' => q.reply.version >= acked'
    <3> DEFINE new == [at |-> events', reply |-> NotYet]
    <3>1. asked' = asked \cup {new} /\ new.reply = NotYet
      BY <1>6 DEF Ask
    <3>2. UNCHANGED <<consent, delegationObservedAt, acked>>
      BY <1>6 DEF Ask
    <3> HIDE DEF new
    <3> QED
      BY <3>1, <3>2 DEF ConsentInv
  <2>5. AnsweredStep
    BY <1>6 DEF Ask, Event, NotYet, Outdated, Off, ConsentInv, ConsentTypeOK, Consent, NoPost, AnsweredStep
  <2> QED
    BY <2>1, <2>2, <2>3, <2>4, <2>5 DEF ConsentInv
<1>7. ASSUME NEW p \in asked, ReplyConsent(p)
      PROVE  ConsentInv' /\ AnsweredStep
  <2>1. IsFiniteSet(asked') /\ Cardinality(asked') \leq MaxAsked
    BY <1>7, AskedCount DEF ReplyConsent, ConsentInv, ConsentTypeOK
  <2>2. ConsentTypeOK'
    BY <1>7, <2>1 DEF ReplyConsent, Event, NotYet, Outdated, Off, ConsentInv, ConsentTypeOK, Consent, NoPost, NoConsent
  <2>3. /\ consent'.version = 0 \/ consent'.version \leq delegationClock'
        /\ post' # NoPost => post'.got.version \leq consent'.version
    BY <1>7 DEF ReplyConsent, Event, NotYet, Outdated, Off, ConsentInv, ConsentTypeOK, Consent, NoPost, NoConsent
  <2>4. \A q \in asked':
          /\ q.reply # NotYet => q.reply.version \in 0..consent'.version
          /\ q.reply # NotYet /\ q.at >= delegationObservedAt' => q.reply.version >= acked'
    BY <1>7 DEF ReplyConsent, Event, NotYet, Outdated, Off, ConsentInv, ConsentTypeOK, Consent, NoPost
  <2>5. AnsweredStep
    BY <1>7 DEF ReplyConsent, Event, NotYet, Outdated, Off, ConsentInv, ConsentTypeOK, Consent, NoPost, AnsweredStep
  <2> QED
    BY <2>1, <2>2, <2>3, <2>4, <2>5 DEF ConsentInv
<1>8. ASSUME NEW p \in asked, Receive(p)
      PROVE  ConsentInv' /\ AnsweredStep
  <2>1. IsFiniteSet(asked') /\ Cardinality(asked') \leq MaxAsked
    BY <1>8, AskedCount DEF Receive, ConsentInv, ConsentTypeOK
  <2>2. ConsentTypeOK'
    <3>1. events' \in 0..MaxEvents /\ available' \in BOOLEAN
      BY <1>8 DEF Receive, Event, NotYet, Outdated, Off, ConsentInv, ConsentTypeOK, Consent, NoPost
    <3>2. consent' \in Consent /\ listed' \in Consent /\ shown' \in Consent
      BY <1>8 DEF Receive, Event, NotYet, Outdated, Off, ConsentInv, ConsentTypeOK, Consent, NoPost
    <3>3. /\ listed'.version <= consent'.version /\ shown'.version <= consent'.version
          /\ acked' \in 0..consent'.version
      BY <1>8 DEF Receive, Event, NotYet, Outdated, Off, ConsentInv, ConsentTypeOK, Consent, NoPost
    <3>4. delegationClock' \in Never..events' /\ delegationObservedAt' \in Never..events'
      BY <1>8 DEF Receive, Event, NotYet, Outdated, Off, ConsentInv, ConsentTypeOK, Consent, NoPost
    <3>5. sent' \subseteq [at: 1..events', on: BOOLEAN]
      BY <1>8 DEF Receive, Event, NotYet, Outdated, Off, ConsentInv, ConsentTypeOK, Consent, NoPost
    <3>6. post' = NoPost \/ post' \in [stage: {"sent", "applied"}, at: 1..events', got: Consent]
      BY <1>8 DEF Receive, Event, NotYet, Outdated, Off, ConsentInv, ConsentTypeOK, Consent, NoPost, NoConsent
    <3>7. asked' \subseteq [at: 1..events', reply: Consent \cup {NotYet}]
      BY <1>8 DEF Receive, Event, NotYet, Outdated, Off, ConsentInv, ConsentTypeOK, Consent, NoPost
    <3> QED
      BY <2>1, <3>1, <3>2, <3>3, <3>4, <3>5, <3>6, <3>7 DEF ConsentTypeOK
  <2>3. /\ consent'.version = 0 \/ consent'.version \leq delegationClock'
        /\ post' # NoPost => post'.got.version \leq consent'.version
    BY <1>8 DEF Receive, Event, NotYet, Outdated, Off, ConsentInv, ConsentTypeOK, Consent, NoPost, NoConsent
  <2>4. \A q \in asked':
          /\ q.reply # NotYet => q.reply.version \in 0..consent'.version
          /\ q.reply # NotYet /\ q.at >= delegationObservedAt' => q.reply.version >= acked'
    BY <1>8 DEF Receive, Event, NotYet, Outdated, Off, ConsentInv, ConsentTypeOK, Consent, NoPost
  <2>5. AnsweredStep
    BY <1>8 DEF Receive, Event, NotYet, Outdated, Off, ConsentInv, ConsentTypeOK, Consent, NoPost, AnsweredStep
  <2> QED
    BY <2>1, <2>2, <2>3, <2>4, <2>5 DEF ConsentInv
<1>9. ASSUME NEW p \in asked, PollFails(p)
      PROVE  ConsentInv' /\ AnsweredStep
  <2>1. IsFiniteSet(asked') /\ Cardinality(asked') \leq MaxAsked
    BY <1>9, AskedCount DEF PollFails, ConsentInv, ConsentTypeOK
  <2>2. ConsentTypeOK'
    <3>1. events' \in 0..MaxEvents /\ available' \in BOOLEAN
      <4>1. available' = available \/ available' = FALSE
        BY <1>9 DEF PollFails
      <4>2. available \in BOOLEAN /\ events' = events + 1 /\ events < MaxEvents /\ events \in Nat
        BY <1>9 DEF PollFails, Event, ConsentInv, ConsentTypeOK
      <4>3. available' \in BOOLEAN
        BY <4>1, <4>2, Zenon
      <4> QED
        BY <4>2, <4>3
    <3>2. consent' \in Consent /\ listed' \in Consent /\ shown' \in Consent
      BY <1>9 DEF PollFails, Event, NotYet, Outdated, Off, ConsentInv, ConsentTypeOK, Consent, NoPost
    <3>3. /\ listed'.version <= consent'.version /\ shown'.version <= consent'.version
          /\ acked' \in 0..consent'.version
      BY <1>9 DEF PollFails, Event, NotYet, Outdated, Off, ConsentInv, ConsentTypeOK, Consent, NoPost
    <3>4. delegationClock' \in Never..events' /\ delegationObservedAt' \in Never..events'
      BY <1>9 DEF PollFails, Event, NotYet, Outdated, Off, ConsentInv, ConsentTypeOK, Consent, NoPost
    <3>5. sent' \subseteq [at: 1..events', on: BOOLEAN]
      BY <1>9 DEF PollFails, Event, NotYet, Outdated, Off, ConsentInv, ConsentTypeOK, Consent, NoPost
    <3>6. post' = NoPost \/ post' \in [stage: {"sent", "applied"}, at: 1..events', got: Consent]
      BY <1>9 DEF PollFails, Event, NotYet, Outdated, Off, ConsentInv, ConsentTypeOK, Consent, NoPost, NoConsent
    <3>7. asked' \subseteq [at: 1..events', reply: Consent \cup {NotYet}]
      BY <1>9 DEF PollFails, Event, NotYet, Outdated, Off, ConsentInv, ConsentTypeOK, Consent, NoPost
    <3> QED
      BY <2>1, <3>1, <3>2, <3>3, <3>4, <3>5, <3>6, <3>7 DEF ConsentTypeOK
  <2>3. /\ consent'.version = 0 \/ consent'.version \leq delegationClock'
        /\ post' # NoPost => post'.got.version \leq consent'.version
    BY <1>9 DEF PollFails, Event, NotYet, Outdated, Off, ConsentInv, ConsentTypeOK, Consent, NoPost, NoConsent
  <2>4. \A q \in asked':
          /\ q.reply # NotYet => q.reply.version \in 0..consent'.version
          /\ q.reply # NotYet /\ q.at >= delegationObservedAt' => q.reply.version >= acked'
    BY <1>9 DEF PollFails, Event, NotYet, Outdated, Off, ConsentInv, ConsentTypeOK, Consent, NoPost
  <2>5. AnsweredStep
    BY <1>9 DEF PollFails, Event, NotYet, Outdated, Off, ConsentInv, ConsentTypeOK, Consent, NoPost, AnsweredStep
  <2> QED
    BY <2>1, <2>2, <2>3, <2>4, <2>5 DEF ConsentInv
<1>10. CASE IdentityChanges
  <2>1. IsFiniteSet(asked') /\ Cardinality(asked') \leq MaxAsked
    BY <1>10 DEF IdentityChanges, ConsentInv, ConsentTypeOK
  <2>2. ConsentTypeOK'
    <3>1. events' \in 0..MaxEvents /\ available' \in BOOLEAN
      BY <1>10 DEF IdentityChanges, Event, NotYet, Outdated, Off, ConsentInv, ConsentTypeOK, Consent, NoPost
    <3>2. consent' \in Consent /\ listed' \in Consent /\ shown' \in Consent
      BY <1>10 DEF IdentityChanges, Event, NotYet, Outdated, Off, ConsentInv, ConsentTypeOK, Consent, NoPost
    <3>3. /\ listed'.version <= consent'.version /\ shown'.version <= consent'.version
          /\ acked' \in 0..consent'.version
      BY <1>10 DEF IdentityChanges, Event, NotYet, Outdated, Off, ConsentInv, ConsentTypeOK, Consent, NoPost
    <3>4. delegationClock' \in Never..events' /\ delegationObservedAt' \in Never..events'
      BY <1>10 DEF IdentityChanges, Event, NotYet, Outdated, Off, ConsentInv, ConsentTypeOK, Consent, NoPost
    <3>5. sent' \subseteq [at: 1..events', on: BOOLEAN]
      BY <1>10 DEF IdentityChanges, Event, NotYet, Outdated, Off, ConsentInv, ConsentTypeOK, Consent, NoPost
    <3>6. post' = NoPost \/ post' \in [stage: {"sent", "applied"}, at: 1..events', got: Consent]
      BY <1>10 DEF IdentityChanges, Event, NotYet, Outdated, Off, ConsentInv, ConsentTypeOK, Consent, NoPost, NoConsent
    <3>7. asked' \subseteq [at: 1..events', reply: Consent \cup {NotYet}]
      BY <1>10 DEF IdentityChanges, Event, NotYet, Outdated, Off, ConsentInv, ConsentTypeOK, Consent, NoPost
    <3> QED
      BY <2>1, <3>1, <3>2, <3>3, <3>4, <3>5, <3>6, <3>7 DEF ConsentTypeOK
  <2>3. /\ consent'.version = 0 \/ consent'.version \leq delegationClock'
        /\ post' # NoPost => post'.got.version \leq consent'.version
    BY <1>10 DEF IdentityChanges, Event, NotYet, Outdated, Off, ConsentInv, ConsentTypeOK, Consent, NoPost, NoConsent
  <2>4. \A q \in asked':
          /\ q.reply # NotYet => q.reply.version \in 0..consent'.version
          /\ q.reply # NotYet /\ q.at >= delegationObservedAt' => q.reply.version >= acked'
    BY <1>10 DEF IdentityChanges, Event, NotYet, Outdated, Off, ConsentInv, ConsentTypeOK, Consent, NoPost
  <2>5. AnsweredStep
    BY <1>10 DEF IdentityChanges, Event, NotYet, Outdated, Off, ConsentInv, ConsentTypeOK, Consent, NoPost, AnsweredStep
  <2> QED
    BY <2>1, <2>2, <2>3, <2>4, <2>5 DEF ConsentInv
<1>11. CASE UNCHANGED consentVars
  BY <1>11 DEF consentVars, ConsentInv, ConsentTypeOK, AnsweredStep
<1> QED
  BY <1>1, <1>2, <1>3, <1>4, <1>5, <1>6, <1>7, <1>8, <1>9, <1>10, <1>11 DEF ConsentNext

\* A browser goes back behind an answered change of delegation only with its
\* identity, and shows only what the registry held (web/app.js:457).
THEOREM AnswersStayShown == ConsentSpec => AnsweredChangesStayShown
<1>1. ConsentInv => ConsentTypeOK
  BY DEF ConsentInv
<1> QED
  BY <1>1, ConsentStarts, ConsentStep, PTL DEF ConsentSpec, AnsweredChangesStayShown

(***************************************************************************)
(* Readiness: when the workers are well the status follows them within     *)
(* their periods, and what a browser believes is as old as the progress,   *)
(* or as the last answered change of the delegation.                       *)
(***************************************************************************)
HealthTimes ==
  /\ now \in 0..Expiry
  /\ refreshAt \in None..now /\ renewalAt \in None..now /\ polled \in None..now
  /\ observedAt \in None..now /\ owner \in None..now
  /\ verified \in 0..now /\ worked \in 0..now /\ trouble \in 0..now
  /\ grounds \in 0..(now + Window)
  /\ queue \in None..MaxQueue
  /\ stalled \subseteq {"verify", "renew"} /\ http \in {"up", "down", "hanging"}
  /\ change \in {"none", "enable", "disable"} /\ player \in {"active", "swinging", "missing"}

HealthFlags ==
  /\ error \in BOOLEAN /\ renewalError \in BOOLEAN /\ failed \in BOOLEAN
  /\ offered \in BOOLEAN /\ delegated \in BOOLEAN /\ renewed \in BOOLEAN /\ owed \in BOOLEAN

(* A failure is published while it is owed, and within the pass it befell. *)
Published ==
  /\ owed => renewalError
  /\ queue # None /\ failed => renewalError

(* Without one, the status tells of no later progress than there was, and  *)
(* an offer that a browser is about to get, or what it believes already,   *)
(* from an offer or from a change that was answered, has the same grounds. *)
Believed ==
  /\ ~renewalError => renewalAt + Window \leq grounds
  /\ \A p \in polls: p.reply = "available" => p.at \leq grounds
  /\ delegated => observedAt \leq grounds

PollsAreTyped ==
  polls \subseteq [at: 0..now, reply: {"none", "available", "unavailable"}]

(* Verification keeps its period; an error, or a status that lags behind,  *)
(* is of the last trouble.                                                 *)
Verified ==
  /\ "verify" \notin stalled => now - verified \leq VerifyTime
  /\ error => verified \leq trouble
  /\ refreshAt = verified \/ verified \leq trouble

(* The renewal worker is past its trouble when the status has its last     *)
(* step.  Until then it is in the pass the trouble met or the first after  *)
(* it, and each step since the trouble took its time at most.              *)
Recovered == ~renewalError /\ renewalAt = worked /\ (queue # None => ~failed)

Recovering ==
  /\ queue = None => worked \leq trouble
  /\ queue # None => worked \leq trouble + (MaxQueue - queue) * BatchTime

Working ==
  "renew" \notin stalled => now - worked \leq BatchTime /\ (Recovered \/ Recovering)

HealthInv ==
  HealthTimes /\ HealthFlags /\ PollsAreTyped /\ Published /\ Believed /\ Verified /\ Working

LEMMA HealthNumbers ==
  /\ VerifyTime \in Nat \ {0} /\ BatchTime \in Nat \ {0} /\ MaxAge \in Nat \ {0}
  /\ MinRenewalAge \in Nat \ {0} /\ Fresh \in Nat \ {0} /\ Fallback \in Nat \ {0}
  /\ MaxQueue \in Nat \ {0} /\ MaxPolls \in Nat \ {0}
  /\ Due \in Nat /\ Expiry \in Nat /\ MaxFaults \in Nat
  /\ VerifyTime \leq MaxAge /\ BatchTime \leq MinRenewalAge
  /\ Window \in Nat /\ MaxAge \leq Window /\ MinRenewalAge \leq Window
BY ReadinessAssumption DEF Window, Longer

\* A queue one shorter leaves a renewal more of time.
LEMMA OneMoreBatch ==
  ASSUME NEW q \in 1..MaxQueue
  PROVE  /\ (MaxQueue - (q - 1)) * BatchTime = (MaxQueue - q) * BatchTime + BatchTime
         /\ (MaxQueue - q) * BatchTime \in Nat
         /\ (MaxQueue - (q - 1)) * BatchTime \in Nat
<1>1. MaxQueue - q \in Nat /\ BatchTime \in Nat
  BY HealthNumbers
<1>2. \A k \in Nat, b \in Nat: (k + 1) * b = k * b + b /\ k * b \in Nat
  OBVIOUS
<1>3. MaxQueue - (q - 1) = (MaxQueue - q) + 1
  BY HealthNumbers
<1> QED
  BY <1>1, <1>2, <1>3

LEMMA BatchesAreTime ==
  ASSUME NEW q \in 0..MaxQueue
  PROVE  /\ (MaxQueue - q) * BatchTime \in Nat
         /\ (MaxQueue - q) * BatchTime \leq MaxQueue * BatchTime
         /\ (MaxQueue + 1) * BatchTime = MaxQueue * BatchTime + BatchTime
         /\ MaxQueue * BatchTime \in Nat
<1>1. MaxQueue - q \in Nat /\ q \in Nat /\ BatchTime \in Nat /\ MaxQueue \in Nat
  BY HealthNumbers
<1>2. \A k \in Nat, b \in Nat: (k + 1) * b = k * b + b /\ k * b \in Nat
  OBVIOUS
<1>3. \A k \in Nat, l \in Nat, b \in Nat: (k + l) * b = k * b + l * b
  OBVIOUS
<1>4. MaxQueue = (MaxQueue - q) + q
  BY <1>1
<1>5. MaxQueue * BatchTime = (MaxQueue - q) * BatchTime + q * BatchTime
  BY <1>1, <1>3, <1>4
<1> QED
  BY <1>1, <1>2, <1>5

LEMMA HealthStarts == HealthInit => HealthInv
<1> SUFFICES ASSUME HealthInit PROVE HealthInv
  OBVIOUS
<1> USE DEF HealthInit
<1>1. HealthTimes
  BY HealthNumbers DEF HealthTimes, None
<1>2. HealthFlags
  BY Zenon DEF HealthFlags
<1>3. PollsAreTyped
  BY DEF PollsAreTyped
<1>4. Published /\ Believed
  BY HealthNumbers DEF Published, Believed, None
<1>5. Verified /\ Working
  BY HealthNumbers DEF Verified, Working, Recovering, None
<1> QED
  BY <1>1, <1>2, <1>3, <1>4, <1>5 DEF HealthInv

LEMMA TimesStep == HealthInv /\ [HealthNext]_healthVars => HealthTimes'
<1> SUFFICES ASSUME HealthInv, [HealthNext]_healthVars PROVE HealthTimes'
  OBVIOUS
<1> USE HealthNumbers DEF None
<1>1. CASE Verify
  BY <1>1 DEF Verify, healthVars, status, workers, browser, history, Fault, Advance, Longer, HealthInv, HealthTimes
<1>2. CASE StartPass
  BY <1>2 DEF StartPass, healthVars, status, workers, browser, history, Fault, Advance, Longer, HealthInv, HealthTimes
<1>3. CASE Renew
  BY <1>3 DEF Renew, healthVars, status, workers, browser, history, Fault, Advance, Longer, HealthInv, HealthTimes
<1>4. CASE Fail
  BY <1>4 DEF Fail, healthVars, status, workers, browser, history, Fault, Advance, Longer, HealthInv, HealthTimes
<1>5. CASE Skip
  BY <1>5 DEF Skip, healthVars, status, workers, browser, history, Fault, Advance, Longer, HealthInv, HealthTimes
<1>6. CASE EndPass
  BY <1>6 DEF EndPass, healthVars, status, workers, browser, history, Fault, Advance, Longer, HealthInv, HealthTimes
<1>7. ASSUME NEW w \in {"verify", "renew"}, Stall(w)
      PROVE  HealthTimes'
  BY <1>7 DEF Stall, healthVars, status, workers, browser, history, Fault, Advance, Longer, HealthInv, HealthTimes
<1>8. ASSUME NEW w \in {"verify", "renew"}, Resume(w)
      PROVE  HealthTimes'
  BY <1>8 DEF Resume, healthVars, status, workers, browser, history, Fault, Advance, Longer, HealthInv, HealthTimes
<1>9. ASSUME NEW how \in {"down", "hanging"}, Unplug(how)
      PROVE  HealthTimes'
  BY <1>9 DEF Unplug, healthVars, status, workers, browser, history, Fault, Advance, Longer, HealthInv, HealthTimes
<1>10. CASE Poll
  BY <1>10 DEF Poll, healthVars, status, workers, browser, history, Fault, Advance, Longer, HealthInv, HealthTimes
<1>11. ASSUME NEW p \in polls, Reply(p)
      PROVE  HealthTimes'
  BY <1>11 DEF Reply, healthVars, status, workers, browser, history, Fault, Advance, Longer, HealthInv, HealthTimes
<1>12. ASSUME NEW p \in polls, Observe(p)
      PROVE  HealthTimes'
  <2>1. p.at \in 0..now
    BY DEF HealthInv, PollsAreTyped
  <2>2. observedAt' = observedAt \/ observedAt' = p.at
    BY <1>12 DEF Observe
  <2>3. observedAt' \in None..now
    BY <2>1, <2>2 DEF HealthInv, HealthTimes
  <2>4. /\ UNCHANGED <<now, refreshAt, renewalAt, polled, owner, verified, worked, trouble>>
        /\ UNCHANGED <<grounds, queue, stalled, http, change, player>>
    BY <1>12 DEF Observe, status, workers, history
  <2> QED
    BY <2>3, <2>4 DEF HealthInv, HealthTimes
<1>13. CASE StartOwner
  BY <1>13 DEF StartOwner, healthVars, status, workers, browser, history, Fault, Advance, Longer, HealthInv, HealthTimes
<1>14. CASE EndOwner
  BY <1>14 DEF EndOwner, healthVars, status, workers, browser, history, Fault, Advance, Longer, HealthInv, HealthTimes
<1>15. CASE Tick
  BY <1>15 DEF Tick, healthVars, status, workers, browser, history, Fault, Advance, Longer, HealthInv, HealthTimes
<1>16. CASE Answer
  BY <1>16 DEF Answer, healthVars, status, workers, browser, history, Fault, Advance, Longer, HealthInv, HealthTimes
<1>17. CASE Change
  BY <1>17 DEF Change, healthVars, status, workers, browser, history, Fault, Advance, Longer, HealthInv, HealthTimes
<1>18. CASE Changed
  BY <1>18 DEF Changed, healthVars, status, workers, browser, history, Fault, Advance, Longer, HealthInv, HealthTimes
<1>19. CASE ChangeFails
  BY <1>19 DEF ChangeFails, healthVars, status, workers, browser, history, Fault, Advance, Longer, HealthInv, HealthTimes
<1>20. CASE Recover
  BY <1>20 DEF Recover, healthVars, status, workers, browser, history, Fault, Advance, Longer, HealthInv, HealthTimes
<1>21. ASSUME NEW how \in {"swinging", "missing"}, Hinder(how)
      PROVE  HealthTimes'
  BY <1>21 DEF Hinder, healthVars, status, workers, browser, history, Fault, Advance, Longer, HealthInv, HealthTimes
<1>22. CASE UNCHANGED healthVars
  BY <1>22 DEF healthVars, status, workers, browser, history, Fault, Advance, Longer, HealthInv, HealthTimes
<1> QED
  BY <1>1, <1>2, <1>3, <1>4, <1>5, <1>6, <1>7, <1>8,
     <1>9, <1>10, <1>11, <1>12, <1>13, <1>14, <1>15, <1>16,
     <1>17, <1>18, <1>19, <1>20, <1>21, <1>22 DEF HealthNext

LEMMA FlagsStep == HealthInv /\ [HealthNext]_healthVars => HealthFlags'
<1> SUFFICES ASSUME HealthInv, [HealthNext]_healthVars PROVE HealthFlags'
  OBVIOUS
<1> USE HealthNumbers DEF None
<1>1. CASE Verify
  BY <1>1, Zenon DEF Verify, healthVars, status, workers, browser, history, Fault, Advance, Longer, HealthInv, HealthFlags
<1>2. CASE StartPass
  BY <1>2, Zenon DEF StartPass, healthVars, status, workers, browser, history, Fault, Advance, Longer, HealthInv, HealthFlags
<1>3. CASE Renew
  BY <1>3, Zenon DEF Renew, healthVars, status, workers, browser, history, Fault, Advance, Longer, HealthInv, HealthFlags
<1>4. CASE Fail
  BY <1>4, Zenon DEF Fail, healthVars, status, workers, browser, history, Fault, Advance, Longer, HealthInv, HealthFlags
<1>5. CASE Skip
  BY <1>5, Zenon DEF Skip, healthVars, status, workers, browser, history, Fault, Advance, Longer, HealthInv, HealthFlags
<1>6. CASE EndPass
  BY <1>6, Zenon DEF EndPass, healthVars, status, workers, browser, history, Fault, Advance, Longer, HealthInv, HealthFlags
<1>7. ASSUME NEW w \in {"verify", "renew"}, Stall(w)
      PROVE  HealthFlags'
  BY <1>7, Zenon DEF Stall, healthVars, status, workers, browser, history, Fault, Advance, Longer, HealthInv, HealthFlags
<1>8. ASSUME NEW w \in {"verify", "renew"}, Resume(w)
      PROVE  HealthFlags'
  BY <1>8, Zenon DEF Resume, healthVars, status, workers, browser, history, Fault, Advance, Longer, HealthInv, HealthFlags
<1>9. ASSUME NEW how \in {"down", "hanging"}, Unplug(how)
      PROVE  HealthFlags'
  BY <1>9, Zenon DEF Unplug, healthVars, status, workers, browser, history, Fault, Advance, Longer, HealthInv, HealthFlags
<1>10. CASE Poll
  BY <1>10, Zenon DEF Poll, healthVars, status, workers, browser, history, Fault, Advance, Longer, HealthInv, HealthFlags
<1>11. ASSUME NEW p \in polls, Reply(p)
      PROVE  HealthFlags'
  BY <1>11, Zenon DEF Reply, healthVars, status, workers, browser, history, Fault, Advance, Longer, HealthInv, HealthFlags
<1>12. ASSUME NEW p \in polls, Observe(p)
      PROVE  HealthFlags'
  BY <1>12, Zenon DEF Observe, healthVars, status, workers, browser, history, Fault, Advance, Longer, HealthInv, HealthFlags
<1>13. CASE StartOwner
  BY <1>13, Zenon DEF StartOwner, healthVars, status, workers, browser, history, Fault, Advance, Longer, HealthInv, HealthFlags
<1>14. CASE EndOwner
  BY <1>14, Zenon DEF EndOwner, healthVars, status, workers, browser, history, Fault, Advance, Longer, HealthInv, HealthFlags
<1>15. CASE Tick
  BY <1>15, Zenon DEF Tick, healthVars, status, workers, browser, history, Fault, Advance, Longer, HealthInv, HealthFlags
<1>16. CASE Answer
  BY <1>16, Zenon DEF Answer, healthVars, status, workers, browser, history, Fault, Advance, Longer, HealthInv, HealthFlags
<1>17. CASE Change
  BY <1>17, Zenon DEF Change, healthVars, status, workers, browser, history, Fault, Advance, Longer, HealthInv, HealthFlags
<1>18. CASE Changed
  BY <1>18, Zenon DEF Changed, healthVars, status, workers, browser, history, Fault, Advance, Longer, HealthInv, HealthFlags
<1>19. CASE ChangeFails
  BY <1>19, Zenon DEF ChangeFails, healthVars, status, workers, browser, history, Fault, Advance, Longer, HealthInv, HealthFlags
<1>20. CASE Recover
  BY <1>20, Zenon DEF Recover, healthVars, status, workers, browser, history, Fault, Advance, Longer, HealthInv, HealthFlags
<1>21. ASSUME NEW how \in {"swinging", "missing"}, Hinder(how)
      PROVE  HealthFlags'
  BY <1>21, Zenon DEF Hinder, healthVars, status, workers, browser, history, Fault, Advance, Longer, HealthInv, HealthFlags
<1>22. CASE UNCHANGED healthVars
  BY <1>22, Zenon DEF healthVars, status, workers, browser, history, Fault, Advance, Longer, HealthInv, HealthFlags
<1> QED
  BY <1>1, <1>2, <1>3, <1>4, <1>5, <1>6, <1>7, <1>8,
     <1>9, <1>10, <1>11, <1>12, <1>13, <1>14, <1>15, <1>16,
     <1>17, <1>18, <1>19, <1>20, <1>21, <1>22 DEF HealthNext

LEMMA PollsStep == HealthInv /\ [HealthNext]_healthVars => PollsAreTyped'
<1> SUFFICES ASSUME HealthInv, [HealthNext]_healthVars PROVE PollsAreTyped'
  OBVIOUS
<1> USE HealthNumbers DEF None
<1>1. CASE Verify
  BY <1>1 DEF Verify, healthVars, status, workers, browser, history, Fault, Advance, Longer, HealthInv, PollsAreTyped
<1>2. CASE StartPass
  BY <1>2 DEF StartPass, healthVars, status, workers, browser, history, Fault, Advance, Longer, HealthInv, PollsAreTyped
<1>3. CASE Renew
  BY <1>3 DEF Renew, healthVars, status, workers, browser, history, Fault, Advance, Longer, HealthInv, PollsAreTyped
<1>4. CASE Fail
  BY <1>4 DEF Fail, healthVars, status, workers, browser, history, Fault, Advance, Longer, HealthInv, PollsAreTyped
<1>5. CASE Skip
  BY <1>5 DEF Skip, healthVars, status, workers, browser, history, Fault, Advance, Longer, HealthInv, PollsAreTyped
<1>6. CASE EndPass
  BY <1>6 DEF EndPass, healthVars, status, workers, browser, history, Fault, Advance, Longer, HealthInv, PollsAreTyped
<1>7. ASSUME NEW w \in {"verify", "renew"}, Stall(w)
      PROVE  PollsAreTyped'
  BY <1>7 DEF Stall, healthVars, status, workers, browser, history, Fault, Advance, Longer, HealthInv, PollsAreTyped
<1>8. ASSUME NEW w \in {"verify", "renew"}, Resume(w)
      PROVE  PollsAreTyped'
  BY <1>8 DEF Resume, healthVars, status, workers, browser, history, Fault, Advance, Longer, HealthInv, PollsAreTyped
<1>9. ASSUME NEW how \in {"down", "hanging"}, Unplug(how)
      PROVE  PollsAreTyped'
  BY <1>9 DEF Unplug, healthVars, status, workers, browser, history, Fault, Advance, Longer, HealthInv, PollsAreTyped
<1>10. CASE Poll
  BY <1>10 DEF Poll, healthVars, status, workers, browser, history, Fault, Advance, Longer, HealthInv, PollsAreTyped, HealthTimes
<1>11. ASSUME NEW p \in polls, Reply(p)
      PROVE  PollsAreTyped'
  BY <1>11 DEF Reply, healthVars, status, workers, browser, history, Fault, Advance, Longer, HealthInv, PollsAreTyped
<1>12. ASSUME NEW p \in polls, Observe(p)
      PROVE  PollsAreTyped'
  BY <1>12 DEF Observe, healthVars, status, workers, browser, history, Fault, Advance, Longer, HealthInv, PollsAreTyped
<1>13. CASE StartOwner
  BY <1>13 DEF StartOwner, healthVars, status, workers, browser, history, Fault, Advance, Longer, HealthInv, PollsAreTyped
<1>14. CASE EndOwner
  BY <1>14 DEF EndOwner, healthVars, status, workers, browser, history, Fault, Advance, Longer, HealthInv, PollsAreTyped
<1>15. CASE Tick
  BY <1>15 DEF Tick, healthVars, status, workers, browser, history, Fault, Advance, Longer, HealthInv, PollsAreTyped, HealthTimes
<1>16. CASE Answer
  BY <1>16 DEF Answer, healthVars, status, workers, browser, history, Fault, Advance, Longer, HealthInv, PollsAreTyped
<1>17. CASE Change
  BY <1>17 DEF Change, healthVars, status, workers, browser, history, Fault, Advance, Longer, HealthInv, PollsAreTyped
<1>18. CASE Changed
  BY <1>18 DEF Changed, healthVars, status, workers, browser, history, Fault, Advance, Longer, HealthInv, PollsAreTyped, HealthTimes
<1>19. CASE ChangeFails
  BY <1>19 DEF ChangeFails, healthVars, status, workers, browser, history, Fault, Advance, Longer, HealthInv, PollsAreTyped
<1>20. CASE Recover
  BY <1>20 DEF Recover, healthVars, status, workers, browser, history, Fault, Advance, Longer, HealthInv, PollsAreTyped
<1>21. ASSUME NEW how \in {"swinging", "missing"}, Hinder(how)
      PROVE  PollsAreTyped'
  BY <1>21 DEF Hinder, healthVars, status, workers, browser, history, Fault, Advance, Longer, HealthInv, PollsAreTyped
<1>22. CASE UNCHANGED healthVars
  BY <1>22 DEF healthVars, status, workers, browser, history, Fault, Advance, Longer, HealthInv, PollsAreTyped
<1> QED
  BY <1>1, <1>2, <1>3, <1>4, <1>5, <1>6, <1>7, <1>8,
     <1>9, <1>10, <1>11, <1>12, <1>13, <1>14, <1>15, <1>16,
     <1>17, <1>18, <1>19, <1>20, <1>21, <1>22 DEF HealthNext

LEMMA PublishedStep == HealthInv /\ [HealthNext]_healthVars => Published'
<1> SUFFICES ASSUME HealthInv, [HealthNext]_healthVars PROVE Published'
  OBVIOUS
<1> USE HealthNumbers DEF None
<1>1. CASE Verify
  BY <1>1 DEF Verify, healthVars, status, workers, browser, history, Fault, Advance, Longer, HealthInv, Published, HealthFlags, HealthTimes
<1>2. CASE StartPass
  BY <1>2 DEF StartPass, healthVars, status, workers, browser, history, Fault, Advance, Longer, HealthInv, Published, HealthFlags, HealthTimes
<1>3. CASE Renew
  BY <1>3 DEF Renew, healthVars, status, workers, browser, history, Fault, Advance, Longer, HealthInv, Published, HealthFlags, HealthTimes
<1>4. CASE Fail
  BY <1>4 DEF Fail, healthVars, status, workers, browser, history, Fault, Advance, Longer, HealthInv, Published, HealthFlags, HealthTimes
<1>5. CASE Skip
  BY <1>5 DEF Skip, healthVars, status, workers, browser, history, Fault, Advance, Longer, HealthInv, Published, HealthFlags, HealthTimes
<1>6. CASE EndPass
  BY <1>6 DEF EndPass, healthVars, status, workers, browser, history, Fault, Advance, Longer, HealthInv, Published, HealthFlags, HealthTimes
<1>7. ASSUME NEW w \in {"verify", "renew"}, Stall(w)
      PROVE  Published'
  BY <1>7 DEF Stall, healthVars, status, workers, browser, history, Fault, Advance, Longer, HealthInv, Published, HealthFlags, HealthTimes
<1>8. ASSUME NEW w \in {"verify", "renew"}, Resume(w)
      PROVE  Published'
  BY <1>8 DEF Resume, healthVars, status, workers, browser, history, Fault, Advance, Longer, HealthInv, Published, HealthFlags, HealthTimes
<1>9. ASSUME NEW how \in {"down", "hanging"}, Unplug(how)
      PROVE  Published'
  BY <1>9 DEF Unplug, healthVars, status, workers, browser, history, Fault, Advance, Longer, HealthInv, Published, HealthFlags, HealthTimes
<1>10. CASE Poll
  BY <1>10 DEF Poll, healthVars, status, workers, browser, history, Fault, Advance, Longer, HealthInv, Published, HealthFlags, HealthTimes
<1>11. ASSUME NEW p \in polls, Reply(p)
      PROVE  Published'
  BY <1>11 DEF Reply, healthVars, status, workers, browser, history, Fault, Advance, Longer, HealthInv, Published, HealthFlags, HealthTimes
<1>12. ASSUME NEW p \in polls, Observe(p)
      PROVE  Published'
  BY <1>12 DEF Observe, healthVars, status, workers, browser, history, Fault, Advance, Longer, HealthInv, Published, HealthFlags, HealthTimes
<1>13. CASE StartOwner
  BY <1>13 DEF StartOwner, healthVars, status, workers, browser, history, Fault, Advance, Longer, HealthInv, Published, HealthFlags, HealthTimes
<1>14. CASE EndOwner
  BY <1>14 DEF EndOwner, healthVars, status, workers, browser, history, Fault, Advance, Longer, HealthInv, Published, HealthFlags, HealthTimes
<1>15. CASE Tick
  BY <1>15 DEF Tick, healthVars, status, workers, browser, history, Fault, Advance, Longer, HealthInv, Published, HealthFlags, HealthTimes
<1>16. CASE Answer
  BY <1>16 DEF Answer, healthVars, status, workers, browser, history, Fault, Advance, Longer, HealthInv, Published, HealthFlags, HealthTimes
<1>17. CASE Change
  BY <1>17 DEF Change, healthVars, status, workers, browser, history, Fault, Advance, Longer, HealthInv, Published, HealthFlags, HealthTimes
<1>18. CASE Changed
  BY <1>18 DEF Changed, healthVars, status, workers, browser, history, Fault, Advance, Longer, HealthInv, Published, HealthFlags, HealthTimes
<1>19. CASE ChangeFails
  BY <1>19 DEF ChangeFails, healthVars, status, workers, browser, history, Fault, Advance, Longer, HealthInv, Published, HealthFlags, HealthTimes
<1>20. CASE Recover
  BY <1>20 DEF Recover, healthVars, status, workers, browser, history, Fault, Advance, Longer, HealthInv, Published, HealthFlags, HealthTimes
<1>21. ASSUME NEW how \in {"swinging", "missing"}, Hinder(how)
      PROVE  Published'
  BY <1>21 DEF Hinder, healthVars, status, workers, browser, history, Fault, Advance, Longer, HealthInv, Published, HealthFlags, HealthTimes
<1>22. CASE UNCHANGED healthVars
  BY <1>22 DEF healthVars, status, workers, browser, history, Fault, Advance, Longer, HealthInv, Published, HealthFlags, HealthTimes
<1> QED
  BY <1>1, <1>2, <1>3, <1>4, <1>5, <1>6, <1>7, <1>8,
     <1>9, <1>10, <1>11, <1>12, <1>13, <1>14, <1>15, <1>16,
     <1>17, <1>18, <1>19, <1>20, <1>21, <1>22 DEF HealthNext

\* An offer is at most as young as its window allows after the last progress.
LEMMA BelievedStep == HealthInv /\ [HealthNext]_healthVars => Believed'
<1> SUFFICES ASSUME HealthInv, [HealthNext]_healthVars PROVE Believed'
  OBVIOUS
<1> USE HealthNumbers DEF None
<1>1. CASE Verify
  BY <1>1 DEF Verify, healthVars, status, workers, browser, history, Fault, Advance, Longer, HealthInv, HealthTimes, PollsAreTyped, Published, Believed
<1>2. CASE StartPass
  BY <1>2 DEF StartPass, healthVars, status, workers, browser, history, Fault, Advance, Longer, HealthInv, HealthTimes, PollsAreTyped, Published, Believed
<1>3. CASE Renew
  BY <1>3 DEF Renew, healthVars, status, workers, browser, history, Fault, Advance, Longer, HealthInv, HealthTimes, PollsAreTyped, Published, Believed
<1>4. CASE Fail
  BY <1>4 DEF Fail, healthVars, status, workers, browser, history, Fault, Advance, Longer, HealthInv, HealthTimes, PollsAreTyped, Published, Believed
<1>5. CASE Skip
  BY <1>5 DEF Skip, healthVars, status, workers, browser, history, Fault, Advance, Longer, HealthInv, HealthTimes, PollsAreTyped, Published, Believed
<1>6. CASE EndPass
  BY <1>6 DEF EndPass, healthVars, status, workers, browser, history, Fault, Advance, Longer, HealthInv, HealthTimes, PollsAreTyped, Published, Believed
<1>7. ASSUME NEW w \in {"verify", "renew"}, Stall(w)
      PROVE  Believed'
  BY <1>7 DEF Stall, healthVars, status, workers, browser, history, Fault, Advance, Longer, HealthInv, HealthTimes, PollsAreTyped, Published, Believed
<1>8. ASSUME NEW w \in {"verify", "renew"}, Resume(w)
      PROVE  Believed'
  BY <1>8 DEF Resume, healthVars, status, workers, browser, history, Fault, Advance, Longer, HealthInv, HealthTimes, PollsAreTyped, Published, Believed
<1>9. ASSUME NEW how \in {"down", "hanging"}, Unplug(how)
      PROVE  Believed'
  BY <1>9 DEF Unplug, healthVars, status, workers, browser, history, Fault, Advance, Longer, HealthInv, HealthTimes, PollsAreTyped, Published, Believed
<1>10. CASE Poll
  BY <1>10 DEF Poll, healthVars, status, workers, browser, history, Fault, Advance, Longer, HealthInv, HealthTimes, PollsAreTyped, Published, Believed
<1>11. ASSUME NEW p \in polls, Reply(p)
      PROVE  Believed'
  BY <1>11 DEF Reply, healthVars, status, workers, browser, history, Fault, Advance, Longer, HealthInv, HealthTimes, PollsAreTyped, Published, Believed, RenewalAvailable, IsFresh, Window
<1>12. ASSUME NEW p \in polls, Observe(p)
      PROVE  Believed'
  <2>1. p.at \in 0..now /\ UNCHANGED <<renewalError, renewalAt, grounds>> /\ polls' \subseteq polls
    BY <1>12 DEF Observe, healthVars, status, workers, browser, history, Fault, Advance, Longer, HealthInv, PollsAreTyped
  <2>2. CASE observedAt # None /\ p.at < observedAt
    BY <1>12, <2>1, <2>2 DEF Observe, HealthInv, Believed
  <2>3. CASE ~(observedAt # None /\ p.at < observedAt)
    <3>1. observedAt' = p.at /\ (delegated' => p.reply = "available")
      BY <1>12, <2>3 DEF Observe
    <3> QED
      BY <2>1, <3>1 DEF HealthInv, HealthTimes, Believed
  <2> QED
    BY <2>2, <2>3
<1>13. CASE StartOwner
  BY <1>13 DEF StartOwner, healthVars, status, workers, browser, history, Fault, Advance, Longer, HealthInv, HealthTimes, PollsAreTyped, Published, Believed
<1>14. CASE EndOwner
  BY <1>14 DEF EndOwner, healthVars, status, workers, browser, history, Fault, Advance, Longer, HealthInv, HealthTimes, PollsAreTyped, Published, Believed
<1>15. CASE Tick
  BY <1>15 DEF Tick, healthVars, status, workers, browser, history, Fault, Advance, Longer, HealthInv, HealthTimes, PollsAreTyped, Published, Believed
<1>16. CASE Answer
  BY <1>16 DEF Answer, healthVars, status, workers, browser, history, Fault, Advance, Longer, HealthInv, HealthTimes, PollsAreTyped, Published, Believed
<1>17. CASE Change
  BY <1>17 DEF Change, healthVars, status, workers, browser, history, Fault, Advance, Longer, HealthInv, HealthTimes, PollsAreTyped, Published, Believed
<1>18. CASE Changed
  BY <1>18 DEF Changed, healthVars, status, workers, browser, history, Fault, Advance, Longer, HealthInv, HealthTimes, PollsAreTyped, Published, Believed
<1>19. CASE ChangeFails
  BY <1>19 DEF ChangeFails, healthVars, status, workers, browser, history, Fault, Advance, Longer, HealthInv, HealthTimes, PollsAreTyped, Published, Believed
<1>20. CASE Recover
  BY <1>20 DEF Recover, healthVars, status, workers, browser, history, Fault, Advance, Longer, HealthInv, HealthTimes, PollsAreTyped, Published, Believed
<1>21. ASSUME NEW how \in {"swinging", "missing"}, Hinder(how)
      PROVE  Believed'
  BY <1>21 DEF Hinder, healthVars, status, workers, browser, history, Fault, Advance, Longer, HealthInv, HealthTimes, PollsAreTyped, Published, Believed
<1>22. CASE UNCHANGED healthVars
  BY <1>22 DEF healthVars, status, workers, browser, history, Fault, Advance, Longer, HealthInv, HealthTimes, PollsAreTyped, Published, Believed
<1> QED
  BY <1>1, <1>2, <1>3, <1>4, <1>5, <1>6, <1>7, <1>8,
     <1>9, <1>10, <1>11, <1>12, <1>13, <1>14, <1>15, <1>16,
     <1>17, <1>18, <1>19, <1>20, <1>21, <1>22 DEF HealthNext

LEMMA VerifiedStep == HealthInv /\ [HealthNext]_healthVars => Verified'
<1> SUFFICES ASSUME HealthInv, [HealthNext]_healthVars PROVE Verified'
  OBVIOUS
<1> USE HealthNumbers DEF None
<1>1. CASE Verify
  BY <1>1 DEF Verify, healthVars, status, workers, browser, history, Fault, Advance, Longer, HealthInv, HealthTimes, Verified
<1>2. CASE StartPass
  BY <1>2 DEF StartPass, healthVars, status, workers, browser, history, Fault, Advance, Longer, HealthInv, HealthTimes, Verified
<1>3. CASE Renew
  BY <1>3 DEF Renew, healthVars, status, workers, browser, history, Fault, Advance, Longer, HealthInv, HealthTimes, Verified
<1>4. CASE Fail
  BY <1>4 DEF Fail, healthVars, status, workers, browser, history, Fault, Advance, Longer, HealthInv, HealthTimes, Verified
<1>5. CASE Skip
  BY <1>5 DEF Skip, healthVars, status, workers, browser, history, Fault, Advance, Longer, HealthInv, HealthTimes, Verified
<1>6. CASE EndPass
  BY <1>6 DEF EndPass, healthVars, status, workers, browser, history, Fault, Advance, Longer, HealthInv, HealthTimes, Verified
<1>7. ASSUME NEW w \in {"verify", "renew"}, Stall(w)
      PROVE  Verified'
  BY <1>7 DEF Stall, healthVars, status, workers, browser, history, Fault, Advance, Longer, HealthInv, HealthTimes, Verified
<1>8. ASSUME NEW w \in {"verify", "renew"}, Resume(w)
      PROVE  Verified'
  BY <1>8 DEF Resume, healthVars, status, workers, browser, history, Fault, Advance, Longer, HealthInv, HealthTimes, Verified
<1>9. ASSUME NEW how \in {"down", "hanging"}, Unplug(how)
      PROVE  Verified'
  BY <1>9 DEF Unplug, healthVars, status, workers, browser, history, Fault, Advance, Longer, HealthInv, HealthTimes, Verified
<1>10. CASE Poll
  BY <1>10 DEF Poll, healthVars, status, workers, browser, history, Fault, Advance, Longer, HealthInv, HealthTimes, Verified
<1>11. ASSUME NEW p \in polls, Reply(p)
      PROVE  Verified'
  BY <1>11 DEF Reply, healthVars, status, workers, browser, history, Fault, Advance, Longer, HealthInv, HealthTimes, Verified
<1>12. ASSUME NEW p \in polls, Observe(p)
      PROVE  Verified'
  BY <1>12 DEF Observe, healthVars, status, workers, browser, history, Fault, Advance, Longer, HealthInv, HealthTimes, Verified
<1>13. CASE StartOwner
  BY <1>13 DEF StartOwner, healthVars, status, workers, browser, history, Fault, Advance, Longer, HealthInv, HealthTimes, Verified
<1>14. CASE EndOwner
  BY <1>14 DEF EndOwner, healthVars, status, workers, browser, history, Fault, Advance, Longer, HealthInv, HealthTimes, Verified
<1>15. CASE Tick
  BY <1>15 DEF Tick, healthVars, status, workers, browser, history, Fault, Advance, Longer, HealthInv, HealthTimes, Verified
<1>16. CASE Answer
  BY <1>16 DEF Answer, healthVars, status, workers, browser, history, Fault, Advance, Longer, HealthInv, HealthTimes, Verified
<1>17. CASE Change
  BY <1>17 DEF Change, healthVars, status, workers, browser, history, Fault, Advance, Longer, HealthInv, HealthTimes, Verified
<1>18. CASE Changed
  BY <1>18 DEF Changed, healthVars, status, workers, browser, history, Fault, Advance, Longer, HealthInv, HealthTimes, Verified
<1>19. CASE ChangeFails
  BY <1>19 DEF ChangeFails, healthVars, status, workers, browser, history, Fault, Advance, Longer, HealthInv, HealthTimes, Verified
<1>20. CASE Recover
  BY <1>20 DEF Recover, healthVars, status, workers, browser, history, Fault, Advance, Longer, HealthInv, HealthTimes, Verified
<1>21. ASSUME NEW how \in {"swinging", "missing"}, Hinder(how)
      PROVE  Verified'
  BY <1>21 DEF Hinder, healthVars, status, workers, browser, history, Fault, Advance, Longer, HealthInv, HealthTimes, Verified
<1>22. CASE UNCHANGED healthVars
  BY <1>22 DEF healthVars, status, workers, browser, history, Fault, Advance, Longer, HealthInv, HealthTimes, Verified
<1> QED
  BY <1>1, <1>2, <1>3, <1>4, <1>5, <1>6, <1>7, <1>8,
     <1>9, <1>10, <1>11, <1>12, <1>13, <1>14, <1>15, <1>16,
     <1>17, <1>18, <1>19, <1>20, <1>21, <1>22 DEF HealthNext

\* The pass the trouble met is through in its time, or has itself been trouble.
LEMMA WorkingStep == HealthInv /\ [HealthNext]_healthVars => Working'
<1> SUFFICES ASSUME HealthInv, [HealthNext]_healthVars PROVE Working'
  OBVIOUS
<1> USE HealthNumbers DEF None
<1>1. CASE Verify
  BY <1>1, OneMoreBatch, BatchesAreTime DEF Verify, healthVars, status, workers, browser, history, Fault, Advance, Longer, HealthInv, HealthTimes, Published, Working, Recovered, Recovering
<1>2. CASE StartPass
  <2>1. /\ queue = None /\ queue' \in 0..MaxQueue /\ failed' = FALSE
        /\ UNCHANGED <<now, renewalError, renewalAt, worked, trouble, stalled>>
    BY <1>2 DEF StartPass, status, history
  <2>2. Recovered => Recovered'
    BY <2>1 DEF Recovered
  <2>3. Recovering => Recovering'
    <3> DEFINE room == (MaxQueue - queue') * BatchTime
    <3>1. room \in Nat
      BY <2>1, BatchesAreTime
    <3> HIDE DEF room
    <3>2. queue' # None /\ (Recovering => worked' \leq trouble' + room)
      BY <2>1, <3>1 DEF Recovering, HealthInv, HealthTimes
    <3> QED
      BY <3>2 DEF Recovering, room
  <2> QED
    BY <2>1, <2>2, <2>3 DEF HealthInv, Working
<1>3. CASE Renew
  BY <1>3, OneMoreBatch, BatchesAreTime DEF Renew, healthVars, status, workers, browser, history, Fault, Advance, Longer, HealthInv, HealthTimes, Published, Working, Recovered, Recovering
<1>4. CASE Fail
  BY <1>4, OneMoreBatch, BatchesAreTime DEF Fail, healthVars, status, workers, browser, history, Fault, Advance, Longer, HealthInv, HealthTimes, Published, Working, Recovered, Recovering
<1>5. CASE Skip
  BY <1>5, OneMoreBatch, BatchesAreTime DEF Skip, healthVars, status, workers, browser, history, Fault, Advance, Longer, HealthInv, HealthTimes, Published, Working, Recovered, Recovering
<1>6. CASE EndPass
  BY <1>6, OneMoreBatch, BatchesAreTime DEF EndPass, healthVars, status, workers, browser, history, Fault, Advance, Longer, HealthInv, HealthTimes, Published, Working, Recovered, Recovering
<1>7. ASSUME NEW w \in {"verify", "renew"}, Stall(w)
      PROVE  Working'
  BY <1>7, OneMoreBatch, BatchesAreTime DEF Stall, healthVars, status, workers, browser, history, Fault, Advance, Longer, HealthInv, HealthTimes, Published, Working, Recovered, Recovering
<1>8. ASSUME NEW w \in {"verify", "renew"}, Resume(w)
      PROVE  Working'
  BY <1>8, OneMoreBatch, BatchesAreTime DEF Resume, healthVars, status, workers, browser, history, Fault, Advance, Longer, HealthInv, HealthTimes, Published, Working, Recovered, Recovering
<1>9. ASSUME NEW how \in {"down", "hanging"}, Unplug(how)
      PROVE  Working'
  BY <1>9, OneMoreBatch, BatchesAreTime DEF Unplug, healthVars, status, workers, browser, history, Fault, Advance, Longer, HealthInv, HealthTimes, Published, Working, Recovered, Recovering
<1>10. CASE Poll
  BY <1>10, OneMoreBatch, BatchesAreTime DEF Poll, healthVars, status, workers, browser, history, Fault, Advance, Longer, HealthInv, HealthTimes, Published, Working, Recovered, Recovering
<1>11. ASSUME NEW p \in polls, Reply(p)
      PROVE  Working'
  BY <1>11, OneMoreBatch, BatchesAreTime DEF Reply, healthVars, status, workers, browser, history, Fault, Advance, Longer, HealthInv, HealthTimes, Published, Working, Recovered, Recovering
<1>12. ASSUME NEW p \in polls, Observe(p)
      PROVE  Working'
  BY <1>12, OneMoreBatch, BatchesAreTime DEF Observe, healthVars, status, workers, browser, history, Fault, Advance, Longer, HealthInv, HealthTimes, Published, Working, Recovered, Recovering
<1>13. CASE StartOwner
  BY <1>13, OneMoreBatch, BatchesAreTime DEF StartOwner, healthVars, status, workers, browser, history, Fault, Advance, Longer, HealthInv, HealthTimes, Published, Working, Recovered, Recovering
<1>14. CASE EndOwner
  BY <1>14, OneMoreBatch, BatchesAreTime DEF EndOwner, healthVars, status, workers, browser, history, Fault, Advance, Longer, HealthInv, HealthTimes, Published, Working, Recovered, Recovering
<1>15. CASE Tick
  BY <1>15, OneMoreBatch, BatchesAreTime DEF Tick, healthVars, status, workers, browser, history, Fault, Advance, Longer, HealthInv, HealthTimes, Published, Working, Recovered, Recovering
<1>16. CASE Answer
  BY <1>16, OneMoreBatch, BatchesAreTime DEF Answer, healthVars, status, workers, browser, history, Fault, Advance, Longer, HealthInv, HealthTimes, Published, Working, Recovered, Recovering
<1>17. CASE Change
  BY <1>17, OneMoreBatch, BatchesAreTime DEF Change, healthVars, status, workers, browser, history, Fault, Advance, Longer, HealthInv, HealthTimes, Published, Working, Recovered, Recovering
<1>18. CASE Changed
  BY <1>18, OneMoreBatch, BatchesAreTime DEF Changed, healthVars, status, workers, browser, history, Fault, Advance, Longer, HealthInv, HealthTimes, Published, Working, Recovered, Recovering
<1>19. CASE ChangeFails
  BY <1>19, OneMoreBatch, BatchesAreTime DEF ChangeFails, healthVars, status, workers, browser, history, Fault, Advance, Longer, HealthInv, HealthTimes, Published, Working, Recovered, Recovering
<1>20. CASE Recover
  BY <1>20, OneMoreBatch, BatchesAreTime DEF Recover, healthVars, status, workers, browser, history, Fault, Advance, Longer, HealthInv, HealthTimes, Published, Working, Recovered, Recovering
<1>21. ASSUME NEW how \in {"swinging", "missing"}, Hinder(how)
      PROVE  Working'
  BY <1>21, OneMoreBatch, BatchesAreTime DEF Hinder, healthVars, status, workers, browser, history, Fault, Advance, Longer, HealthInv, HealthTimes, Published, Working, Recovered, Recovering
<1>22. CASE UNCHANGED healthVars
  BY <1>22, OneMoreBatch, BatchesAreTime DEF healthVars, status, workers, browser, history, Fault, Advance, Longer, HealthInv, HealthTimes, Published, Working, Recovered, Recovering
<1> QED
  BY <1>1, <1>2, <1>3, <1>4, <1>5, <1>6, <1>7, <1>8,
     <1>9, <1>10, <1>11, <1>12, <1>13, <1>14, <1>15, <1>16,
     <1>17, <1>18, <1>19, <1>20, <1>21, <1>22 DEF HealthNext

LEMMA HealthStep == HealthInv /\ [HealthNext]_healthVars => HealthInv'
BY TimesStep, FlagsStep, PollsStep, PublishedStep, BelievedStep, VerifiedStep, WorkingStep
DEF HealthInv

LEMMA HealthIsEnough == HealthInv => HealthIsTrue /\ OwnersTakeOver
<1> SUFFICES ASSUME HealthInv PROVE HealthIsTrue /\ OwnersTakeOver
  OBVIOUS
<1> USE HealthNumbers DEF None
<1>1. HealthTypeOK
  <2>1. {refreshAt, renewalAt, polled, observedAt, owner} \subseteq None..now
    BY DEF HealthInv, HealthTimes
  <2>2. {error, renewalError, failed, offered, delegated, renewed, owed} \subseteq BOOLEAN
    BY Zenon DEF HealthInv, HealthFlags
  <2> QED
    BY <2>1, <2>2 DEF HealthTypeOK, HealthInv, HealthTimes, PollsAreTyped, Published
<1>2. FailureIsShown
  BY DEF FailureIsShown, RenewalAvailable, HealthInv, Published
<1>3. HealthyMeansReady
  <2> SUFFICES ASSUME stalled = {}, now - trouble > Longer(VerifyTime, (MaxQueue + 1) * BatchTime)
               PROVE  Ready
    BY DEF HealthyMeansReady
  <2>1. /\ (MaxQueue + 1) * BatchTime \in Nat
        /\ now - trouble > VerifyTime /\ now - trouble > (MaxQueue + 1) * BatchTime
    BY BatchesAreTime DEF Longer, HealthInv, HealthTimes
  <2>2. ~error /\ IsFresh(refreshAt, MaxAge)
    BY <2>1 DEF HealthInv, HealthTimes, Verified, IsFresh
  <2>3. Recovered
    <3>1. CASE queue = None
      BY <2>1, <3>1, BatchesAreTime DEF HealthInv, HealthTimes, Working, Recovering
    <3>2. CASE queue # None
      <4>1. queue \in 0..MaxQueue
        BY <3>2 DEF HealthInv, HealthTimes
      <4> QED
        BY <2>1, <3>2, <4>1, BatchesAreTime DEF HealthInv, HealthTimes, Working, Recovering
    <3> QED
      BY <3>1, <3>2
  <2>4. IsFresh(renewalAt, Window)
    BY <2>3 DEF Recovered, HealthInv, HealthTimes, Working, IsFresh, Window
  <2> QED
    BY <2>2, <2>3, <2>4 DEF Recovered, Ready, RenewalAvailable
<1>4. OwnersTakeOver
  BY DEF OwnersTakeOver, OwnerShould, BelievesServer, HealthInv, HealthTimes, Believed, Window, Longer
<1> QED
  BY <1>1, <1>2, <1>3, <1>4 DEF HealthIsTrue

\* The server says it is ready soon after a failure or a stall is over, through
\* any queue, and offers no delegation before (src/server.rs:294).
THEOREM HealthStaysTrue == HealthSpec => []HealthIsTrue
BY HealthStarts, HealthStep, HealthIsEnough, PTL DEF HealthSpec

\* The owner's browser, unless it waits for a swing or does not see its player,
\* renews a due output that the server does not, however the server fails, however
\* its answers are delayed and whenever the delegation is changed (README.md:286, 295).
THEOREM OwnersAlwaysTakeOver == HealthSpec => []OwnersTakeOver
BY HealthStarts, HealthStep, HealthIsEnough, PTL DEF HealthSpec

-----------------------------------------------------------------------------
(***************************************************************************)
(* Presence: a player that stands still is shown where it stands, and what *)
(* a response says of the others is true.                                  *)
(***************************************************************************)
PresenceTypes ==
  /\ scene \in Scenes
  /\ time \in Nat /\ time \leq scene.time
  /\ open \subseteq Player
  /\ spot \in [Player -> Spot] /\ live \in [Player -> BOOLEAN] /\ waiting \in [Player -> BOOLEAN]
  /\ locationClock \in [Player -> Int] /\ nextPost \in [Player -> Nat]
  /\ \A p \in Player: locationClock[p] \in -1..time /\ nextPost[p] \in 0..time + 1
  /\ posts \subseteq [player: Player, spot: Spot, stamp: Nat, stage: {"sent", "authorized", "applied"}]
  /\ \A m \in posts: m.stamp \leq time /\ time - m.stamp \leq Latency
  /\ published \in [Player -> {NoRequest} \cup [stage: {"done"}, spot: Spot, at: Nat]]
  /\ \A p \in Player: published[p] # NoRequest => published[p].at \leq time
  /\ steady \in [Player -> Nat]
  /\ \A p \in Player: steady[p] \leq time
  /\ view # NoRequest => /\ view.active \subseteq Player
                         /\ view.at \in Nat /\ view.at \leq time /\ time - view.at \leq Latency

(* The index and its mirror by chunk.                                      *)
IndexTypes ==
  /\ DOMAIN byPlayer \subseteq Player
  /\ \A p \in DOMAIN byPlayer: byPlayer[p].spot \in Spot /\ byPlayer[p].at \in Nat /\ byPlayer[p].at \leq time
  /\ \A p \in DOMAIN byPlayer: byPlayer[p] \in [spot: Spot, at: Nat]
  /\ chunks = {<<Chunk[byPlayer[p].spot], p>>: p \in DOMAIN byPlayer}

(* A browser's posts have stamps of their own; it waits for the latest, and *)
(* the replay clock is behind that one until it is authorized.  A page that *)
(* is open has posted within a heartbeat.                                   *)
PostsInOrder ==
  /\ \A m \in posts: m.stamp < nextPost[m.player]
  /\ \A m, n \in posts: m.player = n.player /\ m.stamp = n.stamp => m = n
  /\ \A p \in Player: waiting[p] => \E m \in posts: m.player = p /\ m.stamp + 1 = nextPost[p]
  /\ \A p \in Player: locationClock[p] < nextPost[p]
  /\ \A m \in posts: m.stage = "sent" /\ m.stamp + 1 = nextPost[m.player]
                       => locationClock[m.player] < m.stamp
  /\ \A p \in Player: published[p] # NoRequest => published[p].at < nextPost[p]
  /\ \A p \in open: nextPost[p] > time - Heartbeat

InIndex(p, since) ==
  p \in DOMAIN byPlayer /\ byPlayer[p].spot = spot[p] /\ byPlayer[p].at >= since

(* Once the requests of the last disturbance are through, a player's posts *)
(* are of the place where it stands, all are answered, and what has been   *)
(* applied or answered is in the index and stays there.                    *)
StandsStill(p) ==
  /\ view # NoRequest /\ view.at > steady[p] => p \in view.active
  /\ \A m \in posts: m.player = p /\ m.stamp > steady[p] => m.spot = spot[p] /\ Latest(m)
  /\ published[p] # NoRequest /\ published[p].at > steady[p] => published[p].spot = spot[p]
  /\ ~waiting[p] /\ nextPost[p] > steady[p] + 1
       => published[p] # NoRequest /\ published[p].at + 1 = nextPost[p]
  /\ waiting[p] /\ nextPost[p] > steady[p] + Heartbeat + 1
       => published[p] # NoRequest /\ published[p].at + Heartbeat + 1 >= nextPost[p]
  /\ \A m \in posts: m.player = p /\ m.stage = "applied" /\ m.stamp > steady[p] + 1
       => InIndex(p, m.stamp)
  /\ published[p] # NoRequest /\ published[p].at > steady[p] + 1 => InIndex(p, published[p].at)

PresenceInv ==
  /\ PresenceTypes /\ IndexTypes /\ PostsInOrder
  /\ \A p \in open: live[p] => StandsStill(p)

LEMMA PresenceNumbers ==
  /\ Heartbeat \in Nat \ {0} /\ TTL \in Nat \ {0} /\ MaxResults \in Nat \ {0}
  /\ Heartbeat + 1 \leq TTL /\ Latency = 1
BY PresenceAssumption DEF Latency

LEMMA SceneNumbers ==
  ASSUME NEW s \in Scenes
  PROVE  IsFiniteSet(s.players) /\ s.time \in Nat /\ s.walks \in Nat /\ s.mishaps \in Nat
BY PresenceAssumption

\* Right after a disturbance nothing is asked of the player yet.
LEMMA Disturbed ==
  ASSUME PresenceTypes, NEW p \in Player, steady[p] = time
  PROVE  StandsStill(p)
<1>1. \A m \in posts: m.stamp \leq time
  BY DEF PresenceTypes
<1>2. nextPost[p] \in Nat /\ nextPost[p] \leq time + 1 /\ time \in Nat
  BY DEF PresenceTypes
<1>3. view # NoRequest => view.at \leq time /\ view.at \in Nat
  BY DEF PresenceTypes
<1>4. published[p] # NoRequest => published[p].at \leq time /\ published[p].at \in Nat
  BY DEF PresenceTypes
<1>5. \A m \in posts: m.stamp \in Nat
  BY DEF PresenceTypes
<1> QED
  BY <1>1, <1>2, <1>3, <1>4, <1>5, PresenceNumbers DEF StandsStill

LEMMA PresenceStarts == PresenceInit => PresenceInv
<1> SUFFICES ASSUME PresenceInit PROVE PresenceInv
  OBVIOUS
<1> USE PresenceNumbers DEF PresenceInit
<1>1. PresenceTypes
  BY SceneNumbers DEF PresenceTypes
<1>2. IndexTypes
  BY DEF IndexTypes
<1>3. PostsInOrder
  BY DEF PostsInOrder
<1>4. \A p \in open: StandsStill(p)
  BY <1>1, Disturbed
<1> QED
  BY <1>1, <1>2, <1>3, <1>4 DEF PresenceInv

LEMMA PresenceTypesStep == PresenceInv /\ [PresenceNext]_presenceVars => PresenceTypes'
<1> SUFFICES ASSUME PresenceInv, [PresenceNext]_presenceVars PROVE PresenceTypes'
  OBVIOUS
<1> USE PresenceNumbers
<1>1. ASSUME NEW p \in Player, Post(p)
      PROVE  PresenceTypes'
  <2>1. scene' \in Scenes /\ time' \in Nat /\ time' \leq scene'.time /\ open' \subseteq Player'
    BY <1>1, SceneNumbers DEF Post, PostDue, presenceVars, page, index, Disturb, Mishap, Player, PresenceInv, PresenceTypes
  <2>2. spot' \in [Player' -> Spot]
    BY <1>1 DEF Post, PostDue, presenceVars, page, index, Disturb, Mishap, Player, PresenceInv, PresenceTypes
  <2>3. live' \in [Player' -> BOOLEAN] /\ waiting' \in [Player' -> BOOLEAN]
    BY <1>1 DEF Post, PostDue, presenceVars, page, index, Disturb, Mishap, Player, PresenceInv, PresenceTypes
  <2>4. /\ locationClock' \in [Player' -> Int] /\ nextPost' \in [Player' -> Nat]
        /\ \A q \in Player': locationClock'[q] \in -1..time' /\ nextPost'[q] \in 0..time' + 1
    BY <1>1 DEF Post, PostDue, presenceVars, page, index, Disturb, Mishap, Player, PresenceInv, PresenceTypes
  <2>5. posts' \subseteq [player: Player', spot: Spot, stamp: Nat, stage: {"sent", "authorized", "applied"}]
    BY <1>1 DEF Post, PostDue, presenceVars, page, index, Disturb, Mishap, Player, PresenceInv, PresenceTypes
  <2>6. \A k \in posts': k.stamp \leq time' /\ time' - k.stamp \leq Latency
    BY <1>1 DEF Post, PostDue, presenceVars, page, index, Disturb, Mishap, Player, PresenceInv, PresenceTypes
  <2>7. /\ published' \in [Player' -> {NoRequest} \cup [stage: {"done"}, spot: Spot, at: Nat]]
        /\ \A q \in Player': published'[q] # NoRequest => published'[q].at \leq time'
    BY <1>1 DEF Post, PostDue, presenceVars, page, index, Disturb, Mishap, Player, PresenceInv, PresenceTypes, NoRequest
  <2>8. steady' \in [Player' -> Nat] /\ \A q \in Player': steady'[q] \leq time'
    BY <1>1 DEF Post, PostDue, presenceVars, page, index, Disturb, Mishap, Player, PresenceInv, PresenceTypes
  <2>9. view' # NoRequest => /\ view'.active \subseteq Player'
                             /\ view'.at \in Nat /\ view'.at \leq time' /\ time' - view'.at \leq Latency
    BY <1>1 DEF Post, PostDue, presenceVars, page, index, Disturb, Mishap, Player, PresenceInv, PresenceTypes
  <2> QED
    BY <2>1, <2>2, <2>3, <2>4, <2>5, <2>6, <2>7, <2>8, <2>9 DEF PresenceTypes
<1>2. ASSUME NEW p \in Player, Close(p)
      PROVE  PresenceTypes'
  <2>1. scene' \in Scenes /\ time' \in Nat /\ time' \leq scene'.time /\ open' \subseteq Player'
    BY <1>2, SceneNumbers DEF Close, presenceVars, page, index, Disturb, Mishap, Player, PresenceInv, PresenceTypes
  <2>2. spot' \in [Player' -> Spot]
    BY <1>2 DEF Close, presenceVars, page, index, Disturb, Mishap, Player, PresenceInv, PresenceTypes
  <2>3. live' \in [Player' -> BOOLEAN] /\ waiting' \in [Player' -> BOOLEAN]
    BY <1>2 DEF Close, presenceVars, page, index, Disturb, Mishap, Player, PresenceInv, PresenceTypes
  <2>4. /\ locationClock' \in [Player' -> Int] /\ nextPost' \in [Player' -> Nat]
        /\ \A q \in Player': locationClock'[q] \in -1..time' /\ nextPost'[q] \in 0..time' + 1
    BY <1>2 DEF Close, presenceVars, page, index, Disturb, Mishap, Player, PresenceInv, PresenceTypes
  <2>5. posts' \subseteq [player: Player', spot: Spot, stamp: Nat, stage: {"sent", "authorized", "applied"}]
    BY <1>2 DEF Close, presenceVars, page, index, Disturb, Mishap, Player, PresenceInv, PresenceTypes
  <2>6. \A k \in posts': k.stamp \leq time' /\ time' - k.stamp \leq Latency
    BY <1>2 DEF Close, presenceVars, page, index, Disturb, Mishap, Player, PresenceInv, PresenceTypes
  <2>7. /\ published' \in [Player' -> {NoRequest} \cup [stage: {"done"}, spot: Spot, at: Nat]]
        /\ \A q \in Player': published'[q] # NoRequest => published'[q].at \leq time'
    BY <1>2 DEF Close, presenceVars, page, index, Disturb, Mishap, Player, PresenceInv, PresenceTypes, NoRequest
  <2>8. steady' \in [Player' -> Nat] /\ \A q \in Player': steady'[q] \leq time'
    BY <1>2 DEF Close, presenceVars, page, index, Disturb, Mishap, Player, PresenceInv, PresenceTypes
  <2>9. view' # NoRequest => /\ view'.active \subseteq Player'
                             /\ view'.at \in Nat /\ view'.at \leq time' /\ time' - view'.at \leq Latency
    BY <1>2 DEF Close, presenceVars, page, index, Disturb, Mishap, Player, PresenceInv, PresenceTypes
  <2> QED
    BY <2>1, <2>2, <2>3, <2>4, <2>5, <2>6, <2>7, <2>8, <2>9 DEF PresenceTypes
<1>3. ASSUME NEW p \in Player, Lapse(p)
      PROVE  PresenceTypes'
  <2>1. scene' \in Scenes /\ time' \in Nat /\ time' \leq scene'.time /\ open' \subseteq Player'
    BY <1>3, SceneNumbers DEF Lapse, presenceVars, page, index, Disturb, Mishap, Player, PresenceInv, PresenceTypes
  <2>2. spot' \in [Player' -> Spot]
    BY <1>3 DEF Lapse, presenceVars, page, index, Disturb, Mishap, Player, PresenceInv, PresenceTypes
  <2>3. live' \in [Player' -> BOOLEAN] /\ waiting' \in [Player' -> BOOLEAN]
    BY <1>3 DEF Lapse, presenceVars, page, index, Disturb, Mishap, Player, PresenceInv, PresenceTypes
  <2>4. /\ locationClock' \in [Player' -> Int] /\ nextPost' \in [Player' -> Nat]
        /\ \A q \in Player': locationClock'[q] \in -1..time' /\ nextPost'[q] \in 0..time' + 1
    BY <1>3 DEF Lapse, presenceVars, page, index, Disturb, Mishap, Player, PresenceInv, PresenceTypes
  <2>5. posts' \subseteq [player: Player', spot: Spot, stamp: Nat, stage: {"sent", "authorized", "applied"}]
    BY <1>3 DEF Lapse, presenceVars, page, index, Disturb, Mishap, Player, PresenceInv, PresenceTypes
  <2>6. \A k \in posts': k.stamp \leq time' /\ time' - k.stamp \leq Latency
    BY <1>3 DEF Lapse, presenceVars, page, index, Disturb, Mishap, Player, PresenceInv, PresenceTypes
  <2>7. /\ published' \in [Player' -> {NoRequest} \cup [stage: {"done"}, spot: Spot, at: Nat]]
        /\ \A q \in Player': published'[q] # NoRequest => published'[q].at \leq time'
    BY <1>3 DEF Lapse, presenceVars, page, index, Disturb, Mishap, Player, PresenceInv, PresenceTypes, NoRequest
  <2>8. steady' \in [Player' -> Nat] /\ \A q \in Player': steady'[q] \leq time'
    BY <1>3 DEF Lapse, presenceVars, page, index, Disturb, Mishap, Player, PresenceInv, PresenceTypes
  <2>9. view' # NoRequest => /\ view'.active \subseteq Player'
                             /\ view'.at \in Nat /\ view'.at \leq time' /\ time' - view'.at \leq Latency
    BY <1>3 DEF Lapse, presenceVars, page, index, Disturb, Mishap, Player, PresenceInv, PresenceTypes
  <2> QED
    BY <2>1, <2>2, <2>3, <2>4, <2>5, <2>6, <2>7, <2>8, <2>9 DEF PresenceTypes
<1>4. ASSUME NEW p \in Player, NEW s \in Spot, Walk(p, s)
      PROVE  PresenceTypes'
  <2>1. scene' \in Scenes /\ time' \in Nat /\ time' \leq scene'.time /\ open' \subseteq Player'
    BY <1>4, SceneNumbers DEF Walk, presenceVars, page, index, Disturb, Mishap, Player, PresenceInv, PresenceTypes
  <2>2. spot' \in [Player' -> Spot]
    BY <1>4 DEF Walk, presenceVars, page, index, Disturb, Mishap, Player, PresenceInv, PresenceTypes
  <2>3. live' \in [Player' -> BOOLEAN] /\ waiting' \in [Player' -> BOOLEAN]
    BY <1>4 DEF Walk, presenceVars, page, index, Disturb, Mishap, Player, PresenceInv, PresenceTypes
  <2>4. /\ locationClock' \in [Player' -> Int] /\ nextPost' \in [Player' -> Nat]
        /\ \A q \in Player': locationClock'[q] \in -1..time' /\ nextPost'[q] \in 0..time' + 1
    BY <1>4 DEF Walk, presenceVars, page, index, Disturb, Mishap, Player, PresenceInv, PresenceTypes
  <2>5. posts' \subseteq [player: Player', spot: Spot, stamp: Nat, stage: {"sent", "authorized", "applied"}]
    BY <1>4 DEF Walk, presenceVars, page, index, Disturb, Mishap, Player, PresenceInv, PresenceTypes
  <2>6. \A k \in posts': k.stamp \leq time' /\ time' - k.stamp \leq Latency
    BY <1>4 DEF Walk, presenceVars, page, index, Disturb, Mishap, Player, PresenceInv, PresenceTypes
  <2>7. /\ published' \in [Player' -> {NoRequest} \cup [stage: {"done"}, spot: Spot, at: Nat]]
        /\ \A q \in Player': published'[q] # NoRequest => published'[q].at \leq time'
    BY <1>4 DEF Walk, presenceVars, page, index, Disturb, Mishap, Player, PresenceInv, PresenceTypes, NoRequest
  <2>8. steady' \in [Player' -> Nat] /\ \A q \in Player': steady'[q] \leq time'
    BY <1>4 DEF Walk, presenceVars, page, index, Disturb, Mishap, Player, PresenceInv, PresenceTypes
  <2>9. view' # NoRequest => /\ view'.active \subseteq Player'
                             /\ view'.at \in Nat /\ view'.at \leq time' /\ time' - view'.at \leq Latency
    BY <1>4 DEF Walk, presenceVars, page, index, Disturb, Mishap, Player, PresenceInv, PresenceTypes
  <2> QED
    BY <2>1, <2>2, <2>3, <2>4, <2>5, <2>6, <2>7, <2>8, <2>9 DEF PresenceTypes
<1>5. ASSUME NEW m \in posts, Authorize(m)
      PROVE  PresenceTypes'
  <2>1. scene' \in Scenes /\ time' \in Nat /\ time' \leq scene'.time /\ open' \subseteq Player'
    BY <1>5, SceneNumbers DEF Authorize, Refused, At, presenceVars, page, index, Disturb, Mishap, Player, PresenceInv, PresenceTypes
  <2>2. spot' \in [Player' -> Spot]
    BY <1>5 DEF Authorize, Refused, At, presenceVars, page, index, Disturb, Mishap, Player, PresenceInv, PresenceTypes
  <2>3. live' \in [Player' -> BOOLEAN] /\ waiting' \in [Player' -> BOOLEAN]
    BY <1>5 DEF Authorize, Refused, At, presenceVars, page, index, Disturb, Mishap, Player, PresenceInv, PresenceTypes
  <2>4. /\ locationClock' \in [Player' -> Int] /\ nextPost' \in [Player' -> Nat]
        /\ \A q \in Player': locationClock'[q] \in -1..time' /\ nextPost'[q] \in 0..time' + 1
    BY <1>5 DEF Authorize, Refused, At, presenceVars, page, index, Disturb, Mishap, Player, PresenceInv, PresenceTypes
  <2>5. posts' \subseteq [player: Player', spot: Spot, stamp: Nat, stage: {"sent", "authorized", "applied"}]
    BY <1>5 DEF Authorize, Refused, At, presenceVars, page, index, Disturb, Mishap, Player, PresenceInv, PresenceTypes
  <2>6. \A k \in posts': k.stamp \leq time' /\ time' - k.stamp \leq Latency
    BY <1>5 DEF Authorize, Refused, At, presenceVars, page, index, Disturb, Mishap, Player, PresenceInv, PresenceTypes
  <2>7. /\ published' \in [Player' -> {NoRequest} \cup [stage: {"done"}, spot: Spot, at: Nat]]
        /\ \A q \in Player': published'[q] # NoRequest => published'[q].at \leq time'
    BY <1>5 DEF Authorize, Refused, At, presenceVars, page, index, Disturb, Mishap, Player, PresenceInv, PresenceTypes, NoRequest
  <2>8. steady' \in [Player' -> Nat] /\ \A q \in Player': steady'[q] \leq time'
    BY <1>5 DEF Authorize, Refused, At, presenceVars, page, index, Disturb, Mishap, Player, PresenceInv, PresenceTypes
  <2>9. view' # NoRequest => /\ view'.active \subseteq Player'
                             /\ view'.at \in Nat /\ view'.at \leq time' /\ time' - view'.at \leq Latency
    BY <1>5 DEF Authorize, Refused, At, presenceVars, page, index, Disturb, Mishap, Player, PresenceInv, PresenceTypes
  <2> QED
    BY <2>1, <2>2, <2>3, <2>4, <2>5, <2>6, <2>7, <2>8, <2>9 DEF PresenceTypes
<1>6. ASSUME NEW m \in posts, FailToVerify(m)
      PROVE  PresenceTypes'
  <2>1. scene' \in Scenes /\ time' \in Nat /\ time' \leq scene'.time /\ open' \subseteq Player'
    BY <1>6, SceneNumbers DEF FailToVerify, Refused, presenceVars, page, index, Disturb, Mishap, Player, PresenceInv, PresenceTypes
  <2>2. spot' \in [Player' -> Spot]
    BY <1>6 DEF FailToVerify, Refused, presenceVars, page, index, Disturb, Mishap, Player, PresenceInv, PresenceTypes
  <2>3. live' \in [Player' -> BOOLEAN] /\ waiting' \in [Player' -> BOOLEAN]
    BY <1>6 DEF FailToVerify, Refused, presenceVars, page, index, Disturb, Mishap, Player, PresenceInv, PresenceTypes
  <2>4. /\ locationClock' \in [Player' -> Int] /\ nextPost' \in [Player' -> Nat]
        /\ \A q \in Player': locationClock'[q] \in -1..time' /\ nextPost'[q] \in 0..time' + 1
    BY <1>6 DEF FailToVerify, Refused, presenceVars, page, index, Disturb, Mishap, Player, PresenceInv, PresenceTypes
  <2>5. posts' \subseteq [player: Player', spot: Spot, stamp: Nat, stage: {"sent", "authorized", "applied"}]
    BY <1>6 DEF FailToVerify, Refused, presenceVars, page, index, Disturb, Mishap, Player, PresenceInv, PresenceTypes
  <2>6. \A k \in posts': k.stamp \leq time' /\ time' - k.stamp \leq Latency
    BY <1>6 DEF FailToVerify, Refused, presenceVars, page, index, Disturb, Mishap, Player, PresenceInv, PresenceTypes
  <2>7. /\ published' \in [Player' -> {NoRequest} \cup [stage: {"done"}, spot: Spot, at: Nat]]
        /\ \A q \in Player': published'[q] # NoRequest => published'[q].at \leq time'
    BY <1>6 DEF FailToVerify, Refused, presenceVars, page, index, Disturb, Mishap, Player, PresenceInv, PresenceTypes, NoRequest
  <2>8. steady' \in [Player' -> Nat] /\ \A q \in Player': steady'[q] \leq time'
    BY <1>6 DEF FailToVerify, Refused, presenceVars, page, index, Disturb, Mishap, Player, PresenceInv, PresenceTypes
  <2>9. view' # NoRequest => /\ view'.active \subseteq Player'
                             /\ view'.at \in Nat /\ view'.at \leq time' /\ time' - view'.at \leq Latency
    BY <1>6 DEF FailToVerify, Refused, presenceVars, page, index, Disturb, Mishap, Player, PresenceInv, PresenceTypes
  <2> QED
    BY <2>1, <2>2, <2>3, <2>4, <2>5, <2>6, <2>7, <2>8, <2>9 DEF PresenceTypes
<1>7. ASSUME NEW m \in posts, UpdateLocation(m)
      PROVE  PresenceTypes'
  <2>1. scene' \in Scenes /\ time' \in Nat /\ time' \leq scene'.time /\ open' \subseteq Player'
    BY <1>7, SceneNumbers DEF UpdateLocation, At, Upsert, presenceVars, page, index, Disturb, Mishap, Player, PresenceInv, PresenceTypes
  <2>2. spot' \in [Player' -> Spot]
    BY <1>7 DEF UpdateLocation, At, Upsert, presenceVars, page, index, Disturb, Mishap, Player, PresenceInv, PresenceTypes
  <2>3. live' \in [Player' -> BOOLEAN] /\ waiting' \in [Player' -> BOOLEAN]
    BY <1>7 DEF UpdateLocation, At, Upsert, presenceVars, page, index, Disturb, Mishap, Player, PresenceInv, PresenceTypes
  <2>4. /\ locationClock' \in [Player' -> Int] /\ nextPost' \in [Player' -> Nat]
        /\ \A q \in Player': locationClock'[q] \in -1..time' /\ nextPost'[q] \in 0..time' + 1
    BY <1>7 DEF UpdateLocation, At, Upsert, presenceVars, page, index, Disturb, Mishap, Player, PresenceInv, PresenceTypes
  <2>5. posts' \subseteq [player: Player', spot: Spot, stamp: Nat, stage: {"sent", "authorized", "applied"}]
    BY <1>7 DEF UpdateLocation, At, Upsert, presenceVars, page, index, Disturb, Mishap, Player, PresenceInv, PresenceTypes
  <2>6. \A k \in posts': k.stamp \leq time' /\ time' - k.stamp \leq Latency
    BY <1>7 DEF UpdateLocation, At, Upsert, presenceVars, page, index, Disturb, Mishap, Player, PresenceInv, PresenceTypes
  <2>7. /\ published' \in [Player' -> {NoRequest} \cup [stage: {"done"}, spot: Spot, at: Nat]]
        /\ \A q \in Player': published'[q] # NoRequest => published'[q].at \leq time'
    BY <1>7 DEF UpdateLocation, At, Upsert, presenceVars, page, index, Disturb, Mishap, Player, PresenceInv, PresenceTypes, NoRequest
  <2>8. steady' \in [Player' -> Nat] /\ \A q \in Player': steady'[q] \leq time'
    BY <1>7 DEF UpdateLocation, At, Upsert, presenceVars, page, index, Disturb, Mishap, Player, PresenceInv, PresenceTypes
  <2>9. view' # NoRequest => /\ view'.active \subseteq Player'
                             /\ view'.at \in Nat /\ view'.at \leq time' /\ time' - view'.at \leq Latency
    BY <1>7 DEF UpdateLocation, At, Upsert, presenceVars, page, index, Disturb, Mishap, Player, PresenceInv, PresenceTypes
  <2> QED
    BY <2>1, <2>2, <2>3, <2>4, <2>5, <2>6, <2>7, <2>8, <2>9 DEF PresenceTypes
<1>8. ASSUME NEW m \in posts, Answered(m)
      PROVE  PresenceTypes'
  <2>1. scene' \in Scenes /\ time' \in Nat /\ time' \leq scene'.time /\ open' \subseteq Player'
    BY <1>8, SceneNumbers DEF Answered, presenceVars, page, index, Disturb, Mishap, Player, PresenceInv, PresenceTypes
  <2>2. spot' \in [Player' -> Spot]
    BY <1>8 DEF Answered, presenceVars, page, index, Disturb, Mishap, Player, PresenceInv, PresenceTypes
  <2>3. live' \in [Player' -> BOOLEAN] /\ waiting' \in [Player' -> BOOLEAN]
    BY <1>8 DEF Answered, presenceVars, page, index, Disturb, Mishap, Player, PresenceInv, PresenceTypes
  <2>4. /\ locationClock' \in [Player' -> Int] /\ nextPost' \in [Player' -> Nat]
        /\ \A q \in Player': locationClock'[q] \in -1..time' /\ nextPost'[q] \in 0..time' + 1
    BY <1>8 DEF Answered, presenceVars, page, index, Disturb, Mishap, Player, PresenceInv, PresenceTypes
  <2>5. posts' \subseteq [player: Player', spot: Spot, stamp: Nat, stage: {"sent", "authorized", "applied"}]
    BY <1>8 DEF Answered, presenceVars, page, index, Disturb, Mishap, Player, PresenceInv, PresenceTypes
  <2>6. \A k \in posts': k.stamp \leq time' /\ time' - k.stamp \leq Latency
    BY <1>8 DEF Answered, presenceVars, page, index, Disturb, Mishap, Player, PresenceInv, PresenceTypes
  <2>7. /\ published' \in [Player' -> {NoRequest} \cup [stage: {"done"}, spot: Spot, at: Nat]]
        /\ \A q \in Player': published'[q] # NoRequest => published'[q].at \leq time'
    BY <1>8 DEF Answered, presenceVars, page, index, Disturb, Mishap, Player, PresenceInv, PresenceTypes, NoRequest
  <2>8. steady' \in [Player' -> Nat] /\ \A q \in Player': steady'[q] \leq time'
    BY <1>8 DEF Answered, presenceVars, page, index, Disturb, Mishap, Player, PresenceInv, PresenceTypes
  <2>9. view' # NoRequest => /\ view'.active \subseteq Player'
                             /\ view'.at \in Nat /\ view'.at \leq time' /\ time' - view'.at \leq Latency
    BY <1>8 DEF Answered, presenceVars, page, index, Disturb, Mishap, Player, PresenceInv, PresenceTypes
  <2> QED
    BY <2>1, <2>2, <2>3, <2>4, <2>5, <2>6, <2>7, <2>8, <2>9 DEF PresenceTypes
<1>9. ASSUME NEW m \in posts, LoseRequest(m)
      PROVE  PresenceTypes'
  <2>1. scene' \in Scenes /\ time' \in Nat /\ time' \leq scene'.time /\ open' \subseteq Player'
    BY <1>9, SceneNumbers DEF LoseRequest, presenceVars, page, index, Disturb, Mishap, Player, PresenceInv, PresenceTypes
  <2>2. spot' \in [Player' -> Spot]
    BY <1>9 DEF LoseRequest, presenceVars, page, index, Disturb, Mishap, Player, PresenceInv, PresenceTypes
  <2>3. live' \in [Player' -> BOOLEAN] /\ waiting' \in [Player' -> BOOLEAN]
    BY <1>9 DEF LoseRequest, presenceVars, page, index, Disturb, Mishap, Player, PresenceInv, PresenceTypes
  <2>4. /\ locationClock' \in [Player' -> Int] /\ nextPost' \in [Player' -> Nat]
        /\ \A q \in Player': locationClock'[q] \in -1..time' /\ nextPost'[q] \in 0..time' + 1
    BY <1>9 DEF LoseRequest, presenceVars, page, index, Disturb, Mishap, Player, PresenceInv, PresenceTypes
  <2>5. posts' \subseteq [player: Player', spot: Spot, stamp: Nat, stage: {"sent", "authorized", "applied"}]
    BY <1>9 DEF LoseRequest, presenceVars, page, index, Disturb, Mishap, Player, PresenceInv, PresenceTypes
  <2>6. \A k \in posts': k.stamp \leq time' /\ time' - k.stamp \leq Latency
    BY <1>9 DEF LoseRequest, presenceVars, page, index, Disturb, Mishap, Player, PresenceInv, PresenceTypes
  <2>7. /\ published' \in [Player' -> {NoRequest} \cup [stage: {"done"}, spot: Spot, at: Nat]]
        /\ \A q \in Player': published'[q] # NoRequest => published'[q].at \leq time'
    BY <1>9 DEF LoseRequest, presenceVars, page, index, Disturb, Mishap, Player, PresenceInv, PresenceTypes, NoRequest
  <2>8. steady' \in [Player' -> Nat] /\ \A q \in Player': steady'[q] \leq time'
    BY <1>9 DEF LoseRequest, presenceVars, page, index, Disturb, Mishap, Player, PresenceInv, PresenceTypes
  <2>9. view' # NoRequest => /\ view'.active \subseteq Player'
                             /\ view'.at \in Nat /\ view'.at \leq time' /\ time' - view'.at \leq Latency
    BY <1>9 DEF LoseRequest, presenceVars, page, index, Disturb, Mishap, Player, PresenceInv, PresenceTypes
  <2> QED
    BY <2>1, <2>2, <2>3, <2>4, <2>5, <2>6, <2>7, <2>8, <2>9 DEF PresenceTypes
<1>10. ASSUME NEW v \in Viewports, ReadActive(v)
      PROVE  PresenceTypes'
  <2>1. scene' \in Scenes /\ time' \in Nat /\ time' \leq scene'.time /\ open' \subseteq Player'
    BY <1>10, SceneNumbers DEF ReadActive, presenceVars, page, index, Disturb, Mishap, Player, PresenceInv, PresenceTypes
  <2>2. spot' \in [Player' -> Spot]
    BY <1>10 DEF ReadActive, presenceVars, page, index, Disturb, Mishap, Player, PresenceInv, PresenceTypes
  <2>3. live' \in [Player' -> BOOLEAN] /\ waiting' \in [Player' -> BOOLEAN]
    BY <1>10 DEF ReadActive, presenceVars, page, index, Disturb, Mishap, Player, PresenceInv, PresenceTypes
  <2>4. /\ locationClock' \in [Player' -> Int] /\ nextPost' \in [Player' -> Nat]
        /\ \A q \in Player': locationClock'[q] \in -1..time' /\ nextPost'[q] \in 0..time' + 1
    BY <1>10 DEF ReadActive, presenceVars, page, index, Disturb, Mishap, Player, PresenceInv, PresenceTypes
  <2>5. posts' \subseteq [player: Player', spot: Spot, stamp: Nat, stage: {"sent", "authorized", "applied"}]
    BY <1>10 DEF ReadActive, presenceVars, page, index, Disturb, Mishap, Player, PresenceInv, PresenceTypes
  <2>6. \A k \in posts': k.stamp \leq time' /\ time' - k.stamp \leq Latency
    BY <1>10 DEF ReadActive, presenceVars, page, index, Disturb, Mishap, Player, PresenceInv, PresenceTypes
  <2>7. /\ published' \in [Player' -> {NoRequest} \cup [stage: {"done"}, spot: Spot, at: Nat]]
        /\ \A q \in Player': published'[q] # NoRequest => published'[q].at \leq time'
    BY <1>10 DEF ReadActive, presenceVars, page, index, Disturb, Mishap, Player, PresenceInv, PresenceTypes, NoRequest
  <2>8. steady' \in [Player' -> Nat] /\ \A q \in Player': steady'[q] \leq time'
    BY <1>10 DEF ReadActive, presenceVars, page, index, Disturb, Mishap, Player, PresenceInv, PresenceTypes
  <2>9. view' # NoRequest => /\ view'.active \subseteq Player'
                             /\ view'.at \in Nat /\ view'.at \leq time' /\ time' - view'.at \leq Latency
    BY <1>10 DEF ReadActive, presenceVars, page, index, Disturb, Mishap, Player, PresenceInv, PresenceTypes
  <2> QED
    BY <2>1, <2>2, <2>3, <2>4, <2>5, <2>6, <2>7, <2>8, <2>9 DEF PresenceTypes
<1>11. CASE Respond
  <2>1. scene' \in Scenes /\ time' \in Nat /\ time' \leq scene'.time /\ open' \subseteq Player'
    BY <1>11, SceneNumbers DEF Respond, WithoutPlayers, presenceVars, page, index, Disturb, Mishap, Player, PresenceInv, PresenceTypes
  <2>2. spot' \in [Player' -> Spot]
    BY <1>11 DEF Respond, WithoutPlayers, presenceVars, page, index, Disturb, Mishap, Player, PresenceInv, PresenceTypes
  <2>3. live' \in [Player' -> BOOLEAN] /\ waiting' \in [Player' -> BOOLEAN]
    BY <1>11 DEF Respond, WithoutPlayers, presenceVars, page, index, Disturb, Mishap, Player, PresenceInv, PresenceTypes
  <2>4. /\ locationClock' \in [Player' -> Int] /\ nextPost' \in [Player' -> Nat]
        /\ \A q \in Player': locationClock'[q] \in -1..time' /\ nextPost'[q] \in 0..time' + 1
    BY <1>11 DEF Respond, WithoutPlayers, presenceVars, page, index, Disturb, Mishap, Player, PresenceInv, PresenceTypes
  <2>5. posts' \subseteq [player: Player', spot: Spot, stamp: Nat, stage: {"sent", "authorized", "applied"}]
    BY <1>11 DEF Respond, WithoutPlayers, presenceVars, page, index, Disturb, Mishap, Player, PresenceInv, PresenceTypes
  <2>6. \A k \in posts': k.stamp \leq time' /\ time' - k.stamp \leq Latency
    BY <1>11 DEF Respond, WithoutPlayers, presenceVars, page, index, Disturb, Mishap, Player, PresenceInv, PresenceTypes
  <2>7. /\ published' \in [Player' -> {NoRequest} \cup [stage: {"done"}, spot: Spot, at: Nat]]
        /\ \A q \in Player': published'[q] # NoRequest => published'[q].at \leq time'
    BY <1>11 DEF Respond, WithoutPlayers, presenceVars, page, index, Disturb, Mishap, Player, PresenceInv, PresenceTypes, NoRequest
  <2>8. steady' \in [Player' -> Nat] /\ \A q \in Player': steady'[q] \leq time'
    BY <1>11 DEF Respond, WithoutPlayers, presenceVars, page, index, Disturb, Mishap, Player, PresenceInv, PresenceTypes
  <2>9. view' # NoRequest => /\ view'.active \subseteq Player'
                             /\ view'.at \in Nat /\ view'.at \leq time' /\ time' - view'.at \leq Latency
    BY <1>11 DEF Respond, WithoutPlayers, presenceVars, page, index, Disturb, Mishap, Player, PresenceInv, PresenceTypes
  <2> QED
    BY <2>1, <2>2, <2>3, <2>4, <2>5, <2>6, <2>7, <2>8, <2>9 DEF PresenceTypes
<1>12. CASE Restart
  <2>1. scene' \in Scenes /\ time' \in Nat /\ time' \leq scene'.time /\ open' \subseteq Player'
    BY <1>12, SceneNumbers DEF Restart, presenceVars, page, index, Disturb, Mishap, Player, PresenceInv, PresenceTypes
  <2>2. spot' \in [Player' -> Spot]
    BY <1>12 DEF Restart, presenceVars, page, index, Disturb, Mishap, Player, PresenceInv, PresenceTypes
  <2>3. live' \in [Player' -> BOOLEAN] /\ waiting' \in [Player' -> BOOLEAN]
    BY <1>12 DEF Restart, presenceVars, page, index, Disturb, Mishap, Player, PresenceInv, PresenceTypes
  <2>4. /\ locationClock' \in [Player' -> Int] /\ nextPost' \in [Player' -> Nat]
        /\ \A q \in Player': locationClock'[q] \in -1..time' /\ nextPost'[q] \in 0..time' + 1
    BY <1>12 DEF Restart, presenceVars, page, index, Disturb, Mishap, Player, PresenceInv, PresenceTypes
  <2>5. posts' \subseteq [player: Player', spot: Spot, stamp: Nat, stage: {"sent", "authorized", "applied"}]
    BY <1>12 DEF Restart, presenceVars, page, index, Disturb, Mishap, Player, PresenceInv, PresenceTypes
  <2>6. \A k \in posts': k.stamp \leq time' /\ time' - k.stamp \leq Latency
    BY <1>12 DEF Restart, presenceVars, page, index, Disturb, Mishap, Player, PresenceInv, PresenceTypes
  <2>7. /\ published' \in [Player' -> {NoRequest} \cup [stage: {"done"}, spot: Spot, at: Nat]]
        /\ \A q \in Player': published'[q] # NoRequest => published'[q].at \leq time'
    BY <1>12 DEF Restart, presenceVars, page, index, Disturb, Mishap, Player, PresenceInv, PresenceTypes, NoRequest
  <2>8. steady' \in [Player' -> Nat] /\ \A q \in Player': steady'[q] \leq time'
    BY <1>12 DEF Restart, presenceVars, page, index, Disturb, Mishap, Player, PresenceInv, PresenceTypes
  <2>9. view' # NoRequest => /\ view'.active \subseteq Player'
                             /\ view'.at \in Nat /\ view'.at \leq time' /\ time' - view'.at \leq Latency
    BY <1>12 DEF Restart, presenceVars, page, index, Disturb, Mishap, Player, PresenceInv, PresenceTypes
  <2> QED
    BY <2>1, <2>2, <2>3, <2>4, <2>5, <2>6, <2>7, <2>8, <2>9 DEF PresenceTypes
<1>13. CASE PresenceTick
  <2>1. scene' \in Scenes /\ time' \in Nat /\ time' \leq scene'.time /\ open' \subseteq Player'
    BY <1>13, SceneNumbers DEF PresenceTick, presenceVars, page, index, Disturb, Mishap, Player, PresenceInv, PresenceTypes
  <2>2. spot' \in [Player' -> Spot]
    BY <1>13 DEF PresenceTick, presenceVars, page, index, Disturb, Mishap, Player, PresenceInv, PresenceTypes
  <2>3. live' \in [Player' -> BOOLEAN] /\ waiting' \in [Player' -> BOOLEAN]
    BY <1>13 DEF PresenceTick, presenceVars, page, index, Disturb, Mishap, Player, PresenceInv, PresenceTypes
  <2>4. /\ locationClock' \in [Player' -> Int] /\ nextPost' \in [Player' -> Nat]
        /\ \A q \in Player': locationClock'[q] \in -1..time' /\ nextPost'[q] \in 0..time' + 1
    BY <1>13 DEF PresenceTick, presenceVars, page, index, Disturb, Mishap, Player, PresenceInv, PresenceTypes
  <2>5. posts' \subseteq [player: Player', spot: Spot, stamp: Nat, stage: {"sent", "authorized", "applied"}]
    BY <1>13 DEF PresenceTick, presenceVars, page, index, Disturb, Mishap, Player, PresenceInv, PresenceTypes
  <2>6. \A k \in posts': k.stamp \leq time' /\ time' - k.stamp \leq Latency
    BY <1>13 DEF PresenceTick, presenceVars, page, index, Disturb, Mishap, Player, PresenceInv, PresenceTypes
  <2>7. /\ published' \in [Player' -> {NoRequest} \cup [stage: {"done"}, spot: Spot, at: Nat]]
        /\ \A q \in Player': published'[q] # NoRequest => published'[q].at \leq time'
    BY <1>13 DEF PresenceTick, presenceVars, page, index, Disturb, Mishap, Player, PresenceInv, PresenceTypes, NoRequest
  <2>8. steady' \in [Player' -> Nat] /\ \A q \in Player': steady'[q] \leq time'
    BY <1>13 DEF PresenceTick, presenceVars, page, index, Disturb, Mishap, Player, PresenceInv, PresenceTypes
  <2>9. view' # NoRequest => /\ view'.active \subseteq Player'
                             /\ view'.at \in Nat /\ view'.at \leq time' /\ time' - view'.at \leq Latency
    BY <1>13 DEF PresenceTick, presenceVars, page, index, Disturb, Mishap, Player, PresenceInv, PresenceTypes
  <2> QED
    BY <2>1, <2>2, <2>3, <2>4, <2>5, <2>6, <2>7, <2>8, <2>9 DEF PresenceTypes
<1>14. CASE UNCHANGED presenceVars
  <2>1. scene' \in Scenes /\ time' \in Nat /\ time' \leq scene'.time /\ open' \subseteq Player'
    BY <1>14, SceneNumbers DEF presenceVars, page, index, Disturb, Mishap, Player, PresenceInv, PresenceTypes
  <2>2. spot' \in [Player' -> Spot]
    BY <1>14 DEF presenceVars, page, index, Disturb, Mishap, Player, PresenceInv, PresenceTypes
  <2>3. live' \in [Player' -> BOOLEAN] /\ waiting' \in [Player' -> BOOLEAN]
    BY <1>14 DEF presenceVars, page, index, Disturb, Mishap, Player, PresenceInv, PresenceTypes
  <2>4. /\ locationClock' \in [Player' -> Int] /\ nextPost' \in [Player' -> Nat]
        /\ \A q \in Player': locationClock'[q] \in -1..time' /\ nextPost'[q] \in 0..time' + 1
    BY <1>14 DEF presenceVars, page, index, Disturb, Mishap, Player, PresenceInv, PresenceTypes
  <2>5. posts' \subseteq [player: Player', spot: Spot, stamp: Nat, stage: {"sent", "authorized", "applied"}]
    BY <1>14 DEF presenceVars, page, index, Disturb, Mishap, Player, PresenceInv, PresenceTypes
  <2>6. \A k \in posts': k.stamp \leq time' /\ time' - k.stamp \leq Latency
    BY <1>14 DEF presenceVars, page, index, Disturb, Mishap, Player, PresenceInv, PresenceTypes
  <2>7. /\ published' \in [Player' -> {NoRequest} \cup [stage: {"done"}, spot: Spot, at: Nat]]
        /\ \A q \in Player': published'[q] # NoRequest => published'[q].at \leq time'
    BY <1>14 DEF presenceVars, page, index, Disturb, Mishap, Player, PresenceInv, PresenceTypes, NoRequest
  <2>8. steady' \in [Player' -> Nat] /\ \A q \in Player': steady'[q] \leq time'
    BY <1>14 DEF presenceVars, page, index, Disturb, Mishap, Player, PresenceInv, PresenceTypes
  <2>9. view' # NoRequest => /\ view'.active \subseteq Player'
                             /\ view'.at \in Nat /\ view'.at \leq time' /\ time' - view'.at \leq Latency
    BY <1>14 DEF presenceVars, page, index, Disturb, Mishap, Player, PresenceInv, PresenceTypes
  <2> QED
    BY <2>1, <2>2, <2>3, <2>4, <2>5, <2>6, <2>7, <2>8, <2>9 DEF PresenceTypes
<1> QED
  BY <1>1, <1>2, <1>3, <1>4, <1>5, <1>6, <1>7, <1>8,
     <1>9, <1>10, <1>11, <1>12, <1>13, <1>14 DEF PresenceNext

\* The mirror by chunk follows the index.
LEMMA IndexStep == PresenceInv /\ [PresenceNext]_presenceVars => IndexTypes'
<1> SUFFICES ASSUME PresenceInv, [PresenceNext]_presenceVars PROVE IndexTypes'
  OBVIOUS
<1> USE PresenceNumbers
<1>1. ASSUME NEW p \in Player, Post(p)
      PROVE  IndexTypes'
  BY <1>1 DEF Post, PostDue, presenceVars, page, index, Disturb, Mishap, Player, PresenceInv, PresenceTypes, IndexTypes
<1>2. ASSUME NEW p \in Player, Close(p)
      PROVE  IndexTypes'
  BY <1>2 DEF Close, presenceVars, page, index, Disturb, Mishap, Player, PresenceInv, PresenceTypes, IndexTypes
<1>3. ASSUME NEW p \in Player, Lapse(p)
      PROVE  IndexTypes'
  BY <1>3 DEF Lapse, presenceVars, page, index, Disturb, Mishap, Player, PresenceInv, PresenceTypes, IndexTypes
<1>4. ASSUME NEW p \in Player, NEW s \in Spot, Walk(p, s)
      PROVE  IndexTypes'
  BY <1>4 DEF Walk, presenceVars, page, index, Disturb, Mishap, Player, PresenceInv, PresenceTypes, IndexTypes
<1>5. ASSUME NEW m \in posts, Authorize(m)
      PROVE  IndexTypes'
  BY <1>5 DEF Authorize, Refused, At, presenceVars, page, index, Disturb, Mishap, Player, PresenceInv, PresenceTypes, IndexTypes
<1>6. ASSUME NEW m \in posts, FailToVerify(m)
      PROVE  IndexTypes'
  BY <1>6 DEF FailToVerify, Refused, presenceVars, page, index, Disturb, Mishap, Player, PresenceInv, PresenceTypes, IndexTypes
<1>7. ASSUME NEW m \in posts, UpdateLocation(m)
      PROVE  IndexTypes'
  <2>1. /\ byPlayer' = [q \in DOMAIN byPlayer \cup {m.player} |->
                         IF q = m.player THEN [spot |-> m.spot, at |-> time] ELSE byPlayer[q]]
        /\ chunks' = {c \in chunks: c[2] # m.player} \cup {<<Chunk[m.spot], m.player>>}
        /\ time' = time /\ scene' = scene /\ m.player \in Player /\ m.spot \in Spot
    BY <1>7 DEF UpdateLocation, At, Upsert, presenceVars, page, index, Disturb, Mishap, Player, PresenceInv, PresenceTypes, IndexTypes
  <2>2. DOMAIN byPlayer' = DOMAIN byPlayer \cup {m.player}
    BY <2>1
  <2>3. \A q \in DOMAIN byPlayer': /\ q = m.player => byPlayer'[q] = [spot |-> m.spot, at |-> time]
                                  /\ q # m.player => q \in DOMAIN byPlayer /\ byPlayer'[q] = byPlayer[q]
    BY <2>1
  <2>4. /\ DOMAIN byPlayer' \subseteq Player'
        /\ \A q \in DOMAIN byPlayer': byPlayer'[q] \in [spot: Spot, at: Nat] /\ byPlayer'[q].at \leq time'
    BY <2>1, <2>2, <2>3 DEF PresenceInv, PresenceTypes, IndexTypes, Player
  <2>5. ASSUME NEW c \in chunks'
        PROVE  \E q \in DOMAIN byPlayer': c = <<Chunk[byPlayer'[q].spot], q>>
    <3>1. CASE c = <<Chunk[m.spot], m.player>>
      <4>1. m.player \in DOMAIN byPlayer'
        BY <2>2
      <4>2. byPlayer'[m.player] = [spot |-> m.spot, at |-> time]
        BY <2>1
      <4>3. byPlayer'[m.player].spot = m.spot
        BY <4>2
      <4> QED
        BY <3>1, <4>1, <4>3
    <3>2. CASE c \in chunks /\ c[2] # m.player
      <4>1. PICK q \in DOMAIN byPlayer: c = <<Chunk[byPlayer[q].spot], q>>
        BY <3>2 DEF PresenceInv, IndexTypes
      <4> QED
        BY <2>2, <2>3, <3>2, <4>1
    <3> QED
      BY <2>1, <3>1, <3>2
  <2>6. ASSUME NEW q \in DOMAIN byPlayer'
        PROVE  <<Chunk[byPlayer'[q].spot], q>> \in chunks'
    <3>1. CASE q = m.player
      BY <2>1, <2>3, <3>1
    <3>2. CASE q # m.player
      BY <2>1, <2>3, <3>2 DEF PresenceInv, IndexTypes
    <3> QED
      BY <3>1, <3>2
  <2> QED
    BY <2>4, <2>5, <2>6 DEF IndexTypes
<1>8. ASSUME NEW m \in posts, Answered(m)
      PROVE  IndexTypes'
  BY <1>8 DEF Answered, presenceVars, page, index, Disturb, Mishap, Player, PresenceInv, PresenceTypes, IndexTypes
<1>9. ASSUME NEW m \in posts, LoseRequest(m)
      PROVE  IndexTypes'
  BY <1>9 DEF LoseRequest, presenceVars, page, index, Disturb, Mishap, Player, PresenceInv, PresenceTypes, IndexTypes
<1>10. ASSUME NEW v \in Viewports, ReadActive(v)
      PROVE  IndexTypes'
  BY <1>10 DEF ReadActive, presenceVars, page, index, Disturb, Mishap, Player, PresenceInv, PresenceTypes, IndexTypes
<1>11. CASE Respond
  <2>1. PICK gone: gone = Stale(view.active, view.at - TTL)
    OBVIOUS
  <2>2. byPlayer' = Restrict(byPlayer, DOMAIN byPlayer \ gone) /\ chunks' = {c \in chunks: c[2] \notin gone}
        /\ time' = time /\ scene' = scene
    BY <1>11, <2>1 DEF Respond, WithoutPlayers
  <2>3. /\ DOMAIN byPlayer' = DOMAIN byPlayer \ gone
        /\ \A q \in DOMAIN byPlayer \ gone: byPlayer'[q] = byPlayer[q]
    BY <2>2 DEF Restrict
  <2>4. /\ DOMAIN byPlayer' \subseteq Player'
        /\ \A q \in DOMAIN byPlayer': byPlayer'[q] \in [spot: Spot, at: Nat] /\ byPlayer'[q].at \leq time'
    BY <2>2, <2>3 DEF PresenceInv, IndexTypes, Player
  <2>5. chunks' = {<<Chunk[byPlayer'[q].spot], q>>: q \in DOMAIN byPlayer'}
    <3>1. ASSUME NEW c \in chunks'
          PROVE  \E q \in DOMAIN byPlayer': c = <<Chunk[byPlayer'[q].spot], q>>
      <4>1. c \in chunks /\ c[2] \notin gone
        BY <2>2
      <4>2. PICK q \in DOMAIN byPlayer: c = <<Chunk[byPlayer[q].spot], q>>
        BY <4>1 DEF PresenceInv, IndexTypes
      <4> QED
        BY <2>3, <4>1, <4>2
    <3>2. ASSUME NEW q \in DOMAIN byPlayer'
          PROVE  <<Chunk[byPlayer'[q].spot], q>> \in chunks'
      <4>1. q \in DOMAIN byPlayer \ gone /\ byPlayer'[q] = byPlayer[q]
        BY <2>3
      <4>2. <<Chunk[byPlayer[q].spot], q>> \in chunks
        BY <4>1 DEF PresenceInv, IndexTypes
      <4> QED
        BY <2>2, <4>1, <4>2
    <3> QED
      BY <3>1, <3>2
  <2> QED
    BY <2>4, <2>5 DEF IndexTypes
<1>12. CASE Restart
  BY <1>12 DEF Restart, presenceVars, page, index, Disturb, Mishap, Player, PresenceInv, PresenceTypes, IndexTypes
<1>13. CASE PresenceTick
  BY <1>13 DEF PresenceTick, presenceVars, page, index, Disturb, Mishap, Player, PresenceInv, PresenceTypes, IndexTypes
<1>14. CASE UNCHANGED presenceVars
  BY <1>14 DEF presenceVars, page, index, Disturb, Mishap, Player, PresenceInv, PresenceTypes, IndexTypes
<1> QED
  BY <1>1, <1>2, <1>3, <1>4, <1>5, <1>6, <1>7, <1>8,
     <1>9, <1>10, <1>11, <1>12, <1>13, <1>14 DEF PresenceNext

\* A request that comes further at the server is still its player's.
LEMMA StageMoves ==
  ASSUME PresenceTypes, NEW m \in posts, NEW stage, posts' = At(m, stage)
  PROVE  \A k \in posts: \E l \in posts': l.player = k.player /\ l.stamp = k.stamp
<1> DEFINE moved == [m EXCEPT !.stage = stage]
<1>1. moved.player = m.player /\ moved.stamp = m.stamp
  BY DEF PresenceTypes
<1>2. posts' = (posts \ {m}) \cup {moved}
  BY DEF At
<1> HIDE DEF moved
<1> QED
  BY <1>1, <1>2

LEMMA PostsStep == PresenceInv /\ [PresenceNext]_presenceVars => PostsInOrder'
<1> SUFFICES ASSUME PresenceInv, [PresenceNext]_presenceVars PROVE PostsInOrder'
  OBVIOUS
<1> USE PresenceNumbers
<1>1. ASSUME NEW p \in Player, Post(p)
      PROVE  PostsInOrder'
  <2>1. \A k \in posts': k.stamp < nextPost'[k.player]
    BY <1>1 DEF Post, PostDue, presenceVars, page, index, Disturb, Mishap, Player, PresenceInv, PresenceTypes, PostsInOrder
  <2>2. \A k, l \in posts': k.player = l.player /\ k.stamp = l.stamp => k = l
    BY <1>1 DEF Post, PostDue, presenceVars, page, index, Disturb, Mishap, Player, PresenceInv, PresenceTypes, PostsInOrder
  <2>3. \A q \in Player': waiting'[q] => \E k \in posts': k.player = q /\ k.stamp + 1 = nextPost'[q]
    <3> DEFINE new == [player |-> p, spot |-> spot[p], stamp |-> time, stage |-> "sent"]
    <3>1. new.player = p /\ new.stamp = time /\ posts' = posts \cup {new}
      BY <1>1 DEF Post
    <3> HIDE DEF new
    <3>2. /\ waiting' = [waiting EXCEPT ![p] = TRUE]
          /\ nextPost' = [nextPost EXCEPT ![p] = time + 1] /\ scene' = scene
      BY <1>1 DEF Post
    <3>3. waiting \in [Player -> BOOLEAN] /\ nextPost \in [Player -> Nat]
      BY DEF PresenceInv, PresenceTypes
    <3> QED
      BY <3>1, <3>2, <3>3 DEF PresenceInv, PostsInOrder, Player
  <2>4. \A q \in Player': locationClock'[q] < nextPost'[q]
    BY <1>1 DEF Post, PostDue, presenceVars, page, index, Disturb, Mishap, Player, PresenceInv, PresenceTypes, PostsInOrder
  <2>5. \A k \in posts': k.stage = "sent" /\ k.stamp + 1 = nextPost'[k.player]
                     => locationClock'[k.player] < k.stamp
    BY <1>1 DEF Post, PostDue, presenceVars, page, index, Disturb, Mishap, Player, PresenceInv, PresenceTypes, PostsInOrder
  <2>6. \A q \in Player': published'[q] # NoRequest => published'[q].at < nextPost'[q]
    BY <1>1 DEF Post, PostDue, presenceVars, page, index, Disturb, Mishap, Player, PresenceInv, PresenceTypes, PostsInOrder, NoRequest
  <2>7. \A q \in open': nextPost'[q] > time' - Heartbeat
    BY <1>1 DEF Post, PostDue, presenceVars, page, index, Disturb, Mishap, Player, PresenceInv, PresenceTypes, PostsInOrder
  <2> QED
    BY <2>1, <2>2, <2>3, <2>4, <2>5, <2>6, <2>7 DEF PostsInOrder
<1>2. ASSUME NEW p \in Player, Close(p)
      PROVE  PostsInOrder'
  <2>1. \A k \in posts': k.stamp < nextPost'[k.player]
    BY <1>2 DEF Close, presenceVars, page, index, Disturb, Mishap, Player, PresenceInv, PresenceTypes, PostsInOrder
  <2>2. \A k, l \in posts': k.player = l.player /\ k.stamp = l.stamp => k = l
    BY <1>2 DEF Close, presenceVars, page, index, Disturb, Mishap, Player, PresenceInv, PresenceTypes, PostsInOrder
  <2>3. \A q \in Player': waiting'[q] => \E k \in posts': k.player = q /\ k.stamp + 1 = nextPost'[q]
    BY <1>2 DEF Close, presenceVars, page, index, Disturb, Mishap, Player, PresenceInv, PresenceTypes, PostsInOrder
  <2>4. \A q \in Player': locationClock'[q] < nextPost'[q]
    BY <1>2 DEF Close, presenceVars, page, index, Disturb, Mishap, Player, PresenceInv, PresenceTypes, PostsInOrder
  <2>5. \A k \in posts': k.stage = "sent" /\ k.stamp + 1 = nextPost'[k.player]
                     => locationClock'[k.player] < k.stamp
    BY <1>2 DEF Close, presenceVars, page, index, Disturb, Mishap, Player, PresenceInv, PresenceTypes, PostsInOrder
  <2>6. \A q \in Player': published'[q] # NoRequest => published'[q].at < nextPost'[q]
    BY <1>2 DEF Close, presenceVars, page, index, Disturb, Mishap, Player, PresenceInv, PresenceTypes, PostsInOrder, NoRequest
  <2>7. \A q \in open': nextPost'[q] > time' - Heartbeat
    BY <1>2 DEF Close, presenceVars, page, index, Disturb, Mishap, Player, PresenceInv, PresenceTypes, PostsInOrder
  <2> QED
    BY <2>1, <2>2, <2>3, <2>4, <2>5, <2>6, <2>7 DEF PostsInOrder
<1>3. ASSUME NEW p \in Player, Lapse(p)
      PROVE  PostsInOrder'
  <2>1. \A k \in posts': k.stamp < nextPost'[k.player]
    BY <1>3 DEF Lapse, presenceVars, page, index, Disturb, Mishap, Player, PresenceInv, PresenceTypes, PostsInOrder
  <2>2. \A k, l \in posts': k.player = l.player /\ k.stamp = l.stamp => k = l
    BY <1>3 DEF Lapse, presenceVars, page, index, Disturb, Mishap, Player, PresenceInv, PresenceTypes, PostsInOrder
  <2>3. \A q \in Player': waiting'[q] => \E k \in posts': k.player = q /\ k.stamp + 1 = nextPost'[q]
    BY <1>3 DEF Lapse, presenceVars, page, index, Disturb, Mishap, Player, PresenceInv, PresenceTypes, PostsInOrder
  <2>4. \A q \in Player': locationClock'[q] < nextPost'[q]
    BY <1>3 DEF Lapse, presenceVars, page, index, Disturb, Mishap, Player, PresenceInv, PresenceTypes, PostsInOrder
  <2>5. \A k \in posts': k.stage = "sent" /\ k.stamp + 1 = nextPost'[k.player]
                     => locationClock'[k.player] < k.stamp
    BY <1>3 DEF Lapse, presenceVars, page, index, Disturb, Mishap, Player, PresenceInv, PresenceTypes, PostsInOrder
  <2>6. \A q \in Player': published'[q] # NoRequest => published'[q].at < nextPost'[q]
    BY <1>3 DEF Lapse, presenceVars, page, index, Disturb, Mishap, Player, PresenceInv, PresenceTypes, PostsInOrder, NoRequest
  <2>7. \A q \in open': nextPost'[q] > time' - Heartbeat
    BY <1>3 DEF Lapse, presenceVars, page, index, Disturb, Mishap, Player, PresenceInv, PresenceTypes, PostsInOrder
  <2> QED
    BY <2>1, <2>2, <2>3, <2>4, <2>5, <2>6, <2>7 DEF PostsInOrder
<1>4. ASSUME NEW p \in Player, NEW s \in Spot, Walk(p, s)
      PROVE  PostsInOrder'
  <2>1. \A k \in posts': k.stamp < nextPost'[k.player]
    BY <1>4 DEF Walk, presenceVars, page, index, Disturb, Mishap, Player, PresenceInv, PresenceTypes, PostsInOrder
  <2>2. \A k, l \in posts': k.player = l.player /\ k.stamp = l.stamp => k = l
    BY <1>4 DEF Walk, presenceVars, page, index, Disturb, Mishap, Player, PresenceInv, PresenceTypes, PostsInOrder
  <2>3. \A q \in Player': waiting'[q] => \E k \in posts': k.player = q /\ k.stamp + 1 = nextPost'[q]
    BY <1>4 DEF Walk, presenceVars, page, index, Disturb, Mishap, Player, PresenceInv, PresenceTypes, PostsInOrder
  <2>4. \A q \in Player': locationClock'[q] < nextPost'[q]
    BY <1>4 DEF Walk, presenceVars, page, index, Disturb, Mishap, Player, PresenceInv, PresenceTypes, PostsInOrder
  <2>5. \A k \in posts': k.stage = "sent" /\ k.stamp + 1 = nextPost'[k.player]
                     => locationClock'[k.player] < k.stamp
    BY <1>4 DEF Walk, presenceVars, page, index, Disturb, Mishap, Player, PresenceInv, PresenceTypes, PostsInOrder
  <2>6. \A q \in Player': published'[q] # NoRequest => published'[q].at < nextPost'[q]
    BY <1>4 DEF Walk, presenceVars, page, index, Disturb, Mishap, Player, PresenceInv, PresenceTypes, PostsInOrder, NoRequest
  <2>7. \A q \in open': nextPost'[q] > time' - Heartbeat
    BY <1>4 DEF Walk, presenceVars, page, index, Disturb, Mishap, Player, PresenceInv, PresenceTypes, PostsInOrder
  <2> QED
    BY <2>1, <2>2, <2>3, <2>4, <2>5, <2>6, <2>7 DEF PostsInOrder
<1>5. ASSUME NEW m \in posts, Authorize(m)
      PROVE  PostsInOrder'
  <2>1. \A k \in posts': k.stamp < nextPost'[k.player]
    BY <1>5 DEF Authorize, Refused, At, presenceVars, page, index, Disturb, Mishap, Player, PresenceInv, PresenceTypes, PostsInOrder, Latest
  <2>2. \A k, l \in posts': k.player = l.player /\ k.stamp = l.stamp => k = l
    BY <1>5 DEF Authorize, Refused, At, presenceVars, page, index, Disturb, Mishap, Player, PresenceInv, PresenceTypes, PostsInOrder, Latest
  <2>3. \A q \in Player': waiting'[q] => \E k \in posts': k.player = q /\ k.stamp + 1 = nextPost'[q]
    <3>1. CASE m.stamp > locationClock[m.player]
      <4>1. \A k \in posts: \E l \in posts': l.player = k.player /\ l.stamp = k.stamp
        BY <1>5, <3>1, StageMoves DEF Authorize, PresenceInv
      <4>2. UNCHANGED <<waiting, nextPost, scene>>
        BY <1>5, <3>1 DEF Authorize, page
      <4> QED
        BY <4>1, <4>2 DEF PresenceInv, PostsInOrder, Player
    <3>2. CASE ~(m.stamp > locationClock[m.player])
      BY <1>5, <3>2 DEF Authorize, Refused, At, presenceVars, page, index, Disturb, Mishap, Player, PresenceInv, PresenceTypes, PostsInOrder, Latest
    <3> QED
      BY <3>1, <3>2
  <2>4. \A q \in Player': locationClock'[q] < nextPost'[q]
    BY <1>5 DEF Authorize, Refused, At, presenceVars, page, index, Disturb, Mishap, Player, PresenceInv, PresenceTypes, PostsInOrder, Latest
  <2>5. \A k \in posts': k.stage = "sent" /\ k.stamp + 1 = nextPost'[k.player]
                     => locationClock'[k.player] < k.stamp
    <3> SUFFICES ASSUME NEW k \in posts', k.stage = "sent", k.stamp + 1 = nextPost'[k.player]
                 PROVE  locationClock'[k.player] < k.stamp
      OBVIOUS
    <3>1. CASE m.stamp > locationClock[m.player]
      <4>1. k \in posts /\ k # m
        BY <1>5, <3>1 DEF Authorize, At, PresenceInv, PresenceTypes
      <4>2. /\ UNCHANGED nextPost /\ locationClock' = [locationClock EXCEPT ![m.player] = m.stamp]
            /\ m.player \in Player /\ k.player \in Player
        BY <1>5, <3>1, <4>1 DEF Authorize, page, PresenceInv, PresenceTypes
      <4>3. locationClock[k.player] < k.stamp /\ m.stamp < nextPost[m.player]
            /\ (k.player = m.player => k.stamp # m.stamp)
        BY <4>1, <4>2 DEF PresenceInv, PostsInOrder
      <4>4. k.stamp \in Nat /\ m.stamp \in Nat
        BY <4>1 DEF PresenceInv, PresenceTypes
      <4> QED
        BY <4>2, <4>3, <4>4 DEF PresenceInv, PresenceTypes
    <3>2. CASE ~(m.stamp > locationClock[m.player])
      BY <1>5, <3>2 DEF Authorize, Refused, PresenceInv, PostsInOrder
    <3> QED
      BY <3>1, <3>2
  <2>6. \A q \in Player': published'[q] # NoRequest => published'[q].at < nextPost'[q]
    BY <1>5 DEF Authorize, Refused, At, presenceVars, page, index, Disturb, Mishap, Player, PresenceInv, PresenceTypes, PostsInOrder, Latest, NoRequest
  <2>7. \A q \in open': nextPost'[q] > time' - Heartbeat
    BY <1>5 DEF Authorize, Refused, At, presenceVars, page, index, Disturb, Mishap, Player, PresenceInv, PresenceTypes, PostsInOrder, Latest
  <2> QED
    BY <2>1, <2>2, <2>3, <2>4, <2>5, <2>6, <2>7 DEF PostsInOrder
<1>6. ASSUME NEW m \in posts, FailToVerify(m)
      PROVE  PostsInOrder'
  <2>1. \A k \in posts': k.stamp < nextPost'[k.player]
    BY <1>6 DEF FailToVerify, Refused, presenceVars, page, index, Disturb, Mishap, Player, PresenceInv, PresenceTypes, PostsInOrder, Latest
  <2>2. \A k, l \in posts': k.player = l.player /\ k.stamp = l.stamp => k = l
    BY <1>6 DEF FailToVerify, Refused, presenceVars, page, index, Disturb, Mishap, Player, PresenceInv, PresenceTypes, PostsInOrder, Latest
  <2>3. \A q \in Player': waiting'[q] => \E k \in posts': k.player = q /\ k.stamp + 1 = nextPost'[q]
    BY <1>6 DEF FailToVerify, Refused, presenceVars, page, index, Disturb, Mishap, Player, PresenceInv, PresenceTypes, PostsInOrder, Latest
  <2>4. \A q \in Player': locationClock'[q] < nextPost'[q]
    BY <1>6 DEF FailToVerify, Refused, presenceVars, page, index, Disturb, Mishap, Player, PresenceInv, PresenceTypes, PostsInOrder, Latest
  <2>5. \A k \in posts': k.stage = "sent" /\ k.stamp + 1 = nextPost'[k.player]
                     => locationClock'[k.player] < k.stamp
    BY <1>6 DEF FailToVerify, Refused, presenceVars, page, index, Disturb, Mishap, Player, PresenceInv, PresenceTypes, PostsInOrder, Latest
  <2>6. \A q \in Player': published'[q] # NoRequest => published'[q].at < nextPost'[q]
    BY <1>6 DEF FailToVerify, Refused, presenceVars, page, index, Disturb, Mishap, Player, PresenceInv, PresenceTypes, PostsInOrder, Latest, NoRequest
  <2>7. \A q \in open': nextPost'[q] > time' - Heartbeat
    BY <1>6 DEF FailToVerify, Refused, presenceVars, page, index, Disturb, Mishap, Player, PresenceInv, PresenceTypes, PostsInOrder, Latest
  <2> QED
    BY <2>1, <2>2, <2>3, <2>4, <2>5, <2>6, <2>7 DEF PostsInOrder
<1>7. ASSUME NEW m \in posts, UpdateLocation(m)
      PROVE  PostsInOrder'
  <2>1. \A k \in posts': k.stamp < nextPost'[k.player]
    BY <1>7 DEF UpdateLocation, At, Upsert, presenceVars, page, index, Disturb, Mishap, Player, PresenceInv, PresenceTypes, PostsInOrder
  <2>2. \A k, l \in posts': k.player = l.player /\ k.stamp = l.stamp => k = l
    BY <1>7 DEF UpdateLocation, At, Upsert, presenceVars, page, index, Disturb, Mishap, Player, PresenceInv, PresenceTypes, PostsInOrder
  <2>3. \A q \in Player': waiting'[q] => \E k \in posts': k.player = q /\ k.stamp + 1 = nextPost'[q]
    <3>1. \A k \in posts: \E l \in posts': l.player = k.player /\ l.stamp = k.stamp
      BY <1>7, StageMoves DEF UpdateLocation, PresenceInv
    <3>2. UNCHANGED <<waiting, nextPost, scene>>
      BY <1>7 DEF UpdateLocation, page
    <3> QED
      BY <3>1, <3>2 DEF PresenceInv, PostsInOrder, Player
  <2>4. \A q \in Player': locationClock'[q] < nextPost'[q]
    BY <1>7 DEF UpdateLocation, At, Upsert, presenceVars, page, index, Disturb, Mishap, Player, PresenceInv, PresenceTypes, PostsInOrder
  <2>5. \A k \in posts': k.stage = "sent" /\ k.stamp + 1 = nextPost'[k.player]
                     => locationClock'[k.player] < k.stamp
    BY <1>7 DEF UpdateLocation, At, Upsert, presenceVars, page, index, Disturb, Mishap, Player, PresenceInv, PresenceTypes, PostsInOrder
  <2>6. \A q \in Player': published'[q] # NoRequest => published'[q].at < nextPost'[q]
    BY <1>7 DEF UpdateLocation, At, Upsert, presenceVars, page, index, Disturb, Mishap, Player, PresenceInv, PresenceTypes, PostsInOrder, NoRequest
  <2>7. \A q \in open': nextPost'[q] > time' - Heartbeat
    BY <1>7 DEF UpdateLocation, At, Upsert, presenceVars, page, index, Disturb, Mishap, Player, PresenceInv, PresenceTypes, PostsInOrder
  <2> QED
    BY <2>1, <2>2, <2>3, <2>4, <2>5, <2>6, <2>7 DEF PostsInOrder
<1>8. ASSUME NEW m \in posts, Answered(m)
      PROVE  PostsInOrder'
  <2>1. \A k \in posts': k.stamp < nextPost'[k.player]
    BY <1>8 DEF Answered, presenceVars, page, index, Disturb, Mishap, Player, PresenceInv, PresenceTypes, PostsInOrder, Latest
  <2>2. \A k, l \in posts': k.player = l.player /\ k.stamp = l.stamp => k = l
    BY <1>8 DEF Answered, presenceVars, page, index, Disturb, Mishap, Player, PresenceInv, PresenceTypes, PostsInOrder, Latest
  <2>3. \A q \in Player': waiting'[q] => \E k \in posts': k.player = q /\ k.stamp + 1 = nextPost'[q]
    BY <1>8 DEF Answered, presenceVars, page, index, Disturb, Mishap, Player, PresenceInv, PresenceTypes, PostsInOrder, Latest
  <2>4. \A q \in Player': locationClock'[q] < nextPost'[q]
    BY <1>8 DEF Answered, presenceVars, page, index, Disturb, Mishap, Player, PresenceInv, PresenceTypes, PostsInOrder, Latest
  <2>5. \A k \in posts': k.stage = "sent" /\ k.stamp + 1 = nextPost'[k.player]
                     => locationClock'[k.player] < k.stamp
    BY <1>8 DEF Answered, presenceVars, page, index, Disturb, Mishap, Player, PresenceInv, PresenceTypes, PostsInOrder, Latest
  <2>6. \A q \in Player': published'[q] # NoRequest => published'[q].at < nextPost'[q]
    BY <1>8 DEF Answered, presenceVars, page, index, Disturb, Mishap, Player, PresenceInv, PresenceTypes, PostsInOrder, Latest, NoRequest
  <2>7. \A q \in open': nextPost'[q] > time' - Heartbeat
    BY <1>8 DEF Answered, presenceVars, page, index, Disturb, Mishap, Player, PresenceInv, PresenceTypes, PostsInOrder, Latest
  <2> QED
    BY <2>1, <2>2, <2>3, <2>4, <2>5, <2>6, <2>7 DEF PostsInOrder
<1>9. ASSUME NEW m \in posts, LoseRequest(m)
      PROVE  PostsInOrder'
  <2>1. \A k \in posts': k.stamp < nextPost'[k.player]
    BY <1>9 DEF LoseRequest, presenceVars, page, index, Disturb, Mishap, Player, PresenceInv, PresenceTypes, PostsInOrder, Latest
  <2>2. \A k, l \in posts': k.player = l.player /\ k.stamp = l.stamp => k = l
    BY <1>9 DEF LoseRequest, presenceVars, page, index, Disturb, Mishap, Player, PresenceInv, PresenceTypes, PostsInOrder, Latest
  <2>3. \A q \in Player': waiting'[q] => \E k \in posts': k.player = q /\ k.stamp + 1 = nextPost'[q]
    BY <1>9 DEF LoseRequest, presenceVars, page, index, Disturb, Mishap, Player, PresenceInv, PresenceTypes, PostsInOrder, Latest
  <2>4. \A q \in Player': locationClock'[q] < nextPost'[q]
    BY <1>9 DEF LoseRequest, presenceVars, page, index, Disturb, Mishap, Player, PresenceInv, PresenceTypes, PostsInOrder, Latest
  <2>5. \A k \in posts': k.stage = "sent" /\ k.stamp + 1 = nextPost'[k.player]
                     => locationClock'[k.player] < k.stamp
    BY <1>9 DEF LoseRequest, presenceVars, page, index, Disturb, Mishap, Player, PresenceInv, PresenceTypes, PostsInOrder, Latest
  <2>6. \A q \in Player': published'[q] # NoRequest => published'[q].at < nextPost'[q]
    BY <1>9 DEF LoseRequest, presenceVars, page, index, Disturb, Mishap, Player, PresenceInv, PresenceTypes, PostsInOrder, Latest, NoRequest
  <2>7. \A q \in open': nextPost'[q] > time' - Heartbeat
    BY <1>9 DEF LoseRequest, presenceVars, page, index, Disturb, Mishap, Player, PresenceInv, PresenceTypes, PostsInOrder, Latest
  <2> QED
    BY <2>1, <2>2, <2>3, <2>4, <2>5, <2>6, <2>7 DEF PostsInOrder
<1>10. ASSUME NEW v \in Viewports, ReadActive(v)
      PROVE  PostsInOrder'
  <2>1. \A k \in posts': k.stamp < nextPost'[k.player]
    BY <1>10 DEF ReadActive, presenceVars, page, index, Disturb, Mishap, Player, PresenceInv, PresenceTypes, PostsInOrder
  <2>2. \A k, l \in posts': k.player = l.player /\ k.stamp = l.stamp => k = l
    BY <1>10 DEF ReadActive, presenceVars, page, index, Disturb, Mishap, Player, PresenceInv, PresenceTypes, PostsInOrder
  <2>3. \A q \in Player': waiting'[q] => \E k \in posts': k.player = q /\ k.stamp + 1 = nextPost'[q]
    BY <1>10 DEF ReadActive, presenceVars, page, index, Disturb, Mishap, Player, PresenceInv, PresenceTypes, PostsInOrder
  <2>4. \A q \in Player': locationClock'[q] < nextPost'[q]
    BY <1>10 DEF ReadActive, presenceVars, page, index, Disturb, Mishap, Player, PresenceInv, PresenceTypes, PostsInOrder
  <2>5. \A k \in posts': k.stage = "sent" /\ k.stamp + 1 = nextPost'[k.player]
                     => locationClock'[k.player] < k.stamp
    BY <1>10 DEF ReadActive, presenceVars, page, index, Disturb, Mishap, Player, PresenceInv, PresenceTypes, PostsInOrder
  <2>6. \A q \in Player': published'[q] # NoRequest => published'[q].at < nextPost'[q]
    BY <1>10 DEF ReadActive, presenceVars, page, index, Disturb, Mishap, Player, PresenceInv, PresenceTypes, PostsInOrder, NoRequest
  <2>7. \A q \in open': nextPost'[q] > time' - Heartbeat
    BY <1>10 DEF ReadActive, presenceVars, page, index, Disturb, Mishap, Player, PresenceInv, PresenceTypes, PostsInOrder
  <2> QED
    BY <2>1, <2>2, <2>3, <2>4, <2>5, <2>6, <2>7 DEF PostsInOrder
<1>11. CASE Respond
  <2>1. \A k \in posts': k.stamp < nextPost'[k.player]
    BY <1>11 DEF Respond, WithoutPlayers, presenceVars, page, index, Disturb, Mishap, Player, PresenceInv, PresenceTypes, PostsInOrder
  <2>2. \A k, l \in posts': k.player = l.player /\ k.stamp = l.stamp => k = l
    BY <1>11 DEF Respond, WithoutPlayers, presenceVars, page, index, Disturb, Mishap, Player, PresenceInv, PresenceTypes, PostsInOrder
  <2>3. \A q \in Player': waiting'[q] => \E k \in posts': k.player = q /\ k.stamp + 1 = nextPost'[q]
    BY <1>11 DEF Respond, WithoutPlayers, presenceVars, page, index, Disturb, Mishap, Player, PresenceInv, PresenceTypes, PostsInOrder
  <2>4. \A q \in Player': locationClock'[q] < nextPost'[q]
    BY <1>11 DEF Respond, WithoutPlayers, presenceVars, page, index, Disturb, Mishap, Player, PresenceInv, PresenceTypes, PostsInOrder
  <2>5. \A k \in posts': k.stage = "sent" /\ k.stamp + 1 = nextPost'[k.player]
                     => locationClock'[k.player] < k.stamp
    BY <1>11 DEF Respond, WithoutPlayers, presenceVars, page, index, Disturb, Mishap, Player, PresenceInv, PresenceTypes, PostsInOrder
  <2>6. \A q \in Player': published'[q] # NoRequest => published'[q].at < nextPost'[q]
    BY <1>11 DEF Respond, WithoutPlayers, presenceVars, page, index, Disturb, Mishap, Player, PresenceInv, PresenceTypes, PostsInOrder, NoRequest
  <2>7. \A q \in open': nextPost'[q] > time' - Heartbeat
    BY <1>11 DEF Respond, WithoutPlayers, presenceVars, page, index, Disturb, Mishap, Player, PresenceInv, PresenceTypes, PostsInOrder
  <2> QED
    BY <2>1, <2>2, <2>3, <2>4, <2>5, <2>6, <2>7 DEF PostsInOrder
<1>12. CASE Restart
  <2>1. \A k \in posts': k.stamp < nextPost'[k.player]
    BY <1>12 DEF Restart, presenceVars, page, index, Disturb, Mishap, Player, PresenceInv, PresenceTypes, PostsInOrder
  <2>2. \A k, l \in posts': k.player = l.player /\ k.stamp = l.stamp => k = l
    BY <1>12 DEF Restart, presenceVars, page, index, Disturb, Mishap, Player, PresenceInv, PresenceTypes, PostsInOrder
  <2>3. \A q \in Player': waiting'[q] => \E k \in posts': k.player = q /\ k.stamp + 1 = nextPost'[q]
    BY <1>12 DEF Restart, presenceVars, page, index, Disturb, Mishap, Player, PresenceInv, PresenceTypes, PostsInOrder
  <2>4. \A q \in Player': locationClock'[q] < nextPost'[q]
    BY <1>12 DEF Restart, presenceVars, page, index, Disturb, Mishap, Player, PresenceInv, PresenceTypes, PostsInOrder
  <2>5. \A k \in posts': k.stage = "sent" /\ k.stamp + 1 = nextPost'[k.player]
                     => locationClock'[k.player] < k.stamp
    BY <1>12 DEF Restart, presenceVars, page, index, Disturb, Mishap, Player, PresenceInv, PresenceTypes, PostsInOrder
  <2>6. \A q \in Player': published'[q] # NoRequest => published'[q].at < nextPost'[q]
    BY <1>12 DEF Restart, presenceVars, page, index, Disturb, Mishap, Player, PresenceInv, PresenceTypes, PostsInOrder, NoRequest
  <2>7. \A q \in open': nextPost'[q] > time' - Heartbeat
    BY <1>12 DEF Restart, presenceVars, page, index, Disturb, Mishap, Player, PresenceInv, PresenceTypes, PostsInOrder
  <2> QED
    BY <2>1, <2>2, <2>3, <2>4, <2>5, <2>6, <2>7 DEF PostsInOrder
<1>13. CASE PresenceTick
  <2>1. \A k \in posts': k.stamp < nextPost'[k.player]
    BY <1>13 DEF PresenceTick, presenceVars, page, index, Disturb, Mishap, Player, PresenceInv, PresenceTypes, PostsInOrder
  <2>2. \A k, l \in posts': k.player = l.player /\ k.stamp = l.stamp => k = l
    BY <1>13 DEF PresenceTick, presenceVars, page, index, Disturb, Mishap, Player, PresenceInv, PresenceTypes, PostsInOrder
  <2>3. \A q \in Player': waiting'[q] => \E k \in posts': k.player = q /\ k.stamp + 1 = nextPost'[q]
    BY <1>13 DEF PresenceTick, presenceVars, page, index, Disturb, Mishap, Player, PresenceInv, PresenceTypes, PostsInOrder
  <2>4. \A q \in Player': locationClock'[q] < nextPost'[q]
    BY <1>13 DEF PresenceTick, presenceVars, page, index, Disturb, Mishap, Player, PresenceInv, PresenceTypes, PostsInOrder
  <2>5. \A k \in posts': k.stage = "sent" /\ k.stamp + 1 = nextPost'[k.player]
                     => locationClock'[k.player] < k.stamp
    BY <1>13 DEF PresenceTick, presenceVars, page, index, Disturb, Mishap, Player, PresenceInv, PresenceTypes, PostsInOrder
  <2>6. \A q \in Player': published'[q] # NoRequest => published'[q].at < nextPost'[q]
    BY <1>13 DEF PresenceTick, presenceVars, page, index, Disturb, Mishap, Player, PresenceInv, PresenceTypes, PostsInOrder, NoRequest
  <2>7. \A q \in open': nextPost'[q] > time' - Heartbeat
    BY <1>13 DEF PresenceTick, presenceVars, page, index, Disturb, Mishap, Player, PresenceInv, PresenceTypes, PostsInOrder, PostDue
  <2> QED
    BY <2>1, <2>2, <2>3, <2>4, <2>5, <2>6, <2>7 DEF PostsInOrder
<1>14. CASE UNCHANGED presenceVars
  <2>1. \A k \in posts': k.stamp < nextPost'[k.player]
    BY <1>14 DEF presenceVars, page, index, Disturb, Mishap, Player, PresenceInv, PresenceTypes, PostsInOrder
  <2>2. \A k, l \in posts': k.player = l.player /\ k.stamp = l.stamp => k = l
    BY <1>14 DEF presenceVars, page, index, Disturb, Mishap, Player, PresenceInv, PresenceTypes, PostsInOrder
  <2>3. \A q \in Player': waiting'[q] => \E k \in posts': k.player = q /\ k.stamp + 1 = nextPost'[q]
    BY <1>14 DEF presenceVars, page, index, Disturb, Mishap, Player, PresenceInv, PresenceTypes, PostsInOrder
  <2>4. \A q \in Player': locationClock'[q] < nextPost'[q]
    BY <1>14 DEF presenceVars, page, index, Disturb, Mishap, Player, PresenceInv, PresenceTypes, PostsInOrder
  <2>5. \A k \in posts': k.stage = "sent" /\ k.stamp + 1 = nextPost'[k.player]
                     => locationClock'[k.player] < k.stamp
    BY <1>14 DEF presenceVars, page, index, Disturb, Mishap, Player, PresenceInv, PresenceTypes, PostsInOrder
  <2>6. \A q \in Player': published'[q] # NoRequest => published'[q].at < nextPost'[q]
    BY <1>14 DEF presenceVars, page, index, Disturb, Mishap, Player, PresenceInv, PresenceTypes, PostsInOrder, NoRequest
  <2>7. \A q \in open': nextPost'[q] > time' - Heartbeat
    BY <1>14 DEF presenceVars, page, index, Disturb, Mishap, Player, PresenceInv, PresenceTypes, PostsInOrder
  <2> QED
    BY <2>1, <2>2, <2>3, <2>4, <2>5, <2>6, <2>7 DEF PostsInOrder
<1> QED
  BY <1>1, <1>2, <1>3, <1>4, <1>5, <1>6, <1>7, <1>8,
     <1>9, <1>10, <1>11, <1>12, <1>13, <1>14 DEF PresenceNext

\* The same of the next state: after a disturbance nothing is asked yet.
LEMMA DisturbedNext ==
  ASSUME PresenceTypes', NEW q \in Player', steady'[q] = time'
  PROVE  StandsStill(q)'
<1>1. \A m \in posts': m.stamp \leq time' /\ m.stamp \in Nat
  BY DEF PresenceTypes
<1>2. nextPost'[q] \in Nat /\ nextPost'[q] \leq time' + 1 /\ time' \in Nat
  BY DEF PresenceTypes
<1>3. view' # NoRequest => view'.at \leq time' /\ view'.at \in Nat
  BY DEF PresenceTypes
<1>4. published'[q] # NoRequest => published'[q].at \leq time' /\ published'[q].at \in Nat
  BY DEF PresenceTypes
<1> QED
  BY <1>1, <1>2, <1>3, <1>4, PresenceNumbers DEF StandsStill

\* A response leaves in the index whom it was read to be active and is heard of in time.
LEMMA StaysListed ==
  ASSUME PresenceInv, Respond, NEW q \in open, q \in Player, live[q], NEW since \in Nat,
         since > steady[q] + 1, since >= time - TTL, InIndex(q, since)
  PROVE  InIndex(q, since)'
<1> USE PresenceNumbers
<1>1. byPlayer' = Restrict(byPlayer, DOMAIN byPlayer \ Stale(view.active, view.at - TTL))
      /\ view # NoRequest /\ spot' = spot
  BY DEF Respond, WithoutPlayers, page
<1>2. /\ view.at \in Nat /\ time \in Nat /\ view.at \leq time /\ time - view.at \leq 1
      /\ steady[q] \in Nat
  BY <1>1 DEF PresenceInv, PresenceTypes
<1>3. q \in DOMAIN byPlayer /\ byPlayer[q].at \in Nat /\ byPlayer[q].at \leq time /\ byPlayer[q].at >= since
  BY DEF InIndex, PresenceInv, IndexTypes
<1>4. q \in view.active
  BY <1>1, <1>2, <1>3 DEF PresenceInv, StandsStill
<1>5. q \notin Stale(view.active, view.at - TTL)
  BY <1>2, <1>3, <1>4 DEF Stale
<1>6. q \in DOMAIN byPlayer' /\ byPlayer'[q] = byPlayer[q]
  BY <1>1, <1>3, <1>5 DEF Restrict
<1> QED
  BY <1>1, <1>6 DEF InIndex

LEMMA StandingStep == PresenceInv /\ [PresenceNext]_presenceVars => \A q \in open': live'[q] => StandsStill(q)'
<1> SUFFICES ASSUME PresenceInv, [PresenceNext]_presenceVars PROVE \A q \in open': live'[q] => StandsStill(q)'
  OBVIOUS
<1> USE PresenceNumbers
<1>1. ASSUME NEW p \in Player, Post(p)
      PROVE  \A q \in open': live'[q] => StandsStill(q)'
  <2> SUFFICES ASSUME NEW q \in open', live'[q] PROVE StandsStill(q)'
    OBVIOUS
  <2>1. CASE steady'[q] = time'
    <3>1. PresenceTypes' /\ q \in Player'
      BY PresenceTypesStep DEF PresenceTypes
    <3> QED
      BY <2>1, <3>1, DisturbedNext
  <2>2. CASE steady'[q] # time'
    <3>1. q \in open /\ q \in Player /\ live[q] /\ steady'[q] = steady[q] /\ spot'[q] = spot[q]
      BY <1>1, <2>2 DEF Post, PostDue, presenceVars, page, index, Disturb, Mishap, Player, PresenceInv, PresenceTypes
    <3>2. StandsStill(q)
      BY <3>1 DEF PresenceInv
    <3>3. view' # NoRequest /\ view'.at > steady[q] => q \in view'.active
      BY <1>1, <2>2, <3>1, <3>2 DEF Post, PostDue, presenceVars, page, index, Disturb, Mishap, PresenceInv, PresenceTypes, PostsInOrder, StandsStill, Latest, InIndex, Player
    <3>4. \A k \in posts': k.player = q /\ k.stamp > steady[q] => k.spot = spot[q] /\ Latest(k)'
      BY <1>1, <2>2, <3>1, <3>2 DEF Post, PostDue, presenceVars, page, index, Disturb, Mishap, PresenceInv, PresenceTypes, PostsInOrder, StandsStill, Latest, InIndex, Player
    <3>5. published'[q] # NoRequest /\ published'[q].at > steady[q] => published'[q].spot = spot[q]
      BY <1>1, <2>2, <3>1, <3>2 DEF Post, PostDue, presenceVars, page, index, Disturb, Mishap, PresenceInv, PresenceTypes, PostsInOrder, StandsStill, Latest, InIndex, Player
    <3>6. ~waiting'[q] /\ nextPost'[q] > steady[q] + 1
            => published'[q] # NoRequest /\ published'[q].at + 1 = nextPost'[q]
      BY <1>1, <2>2, <3>1, <3>2 DEF Post, PostDue, presenceVars, page, index, Disturb, Mishap, PresenceInv, PresenceTypes, PostsInOrder, StandsStill, Latest, InIndex, Player
    <3>7. waiting'[q] /\ nextPost'[q] > steady[q] + Heartbeat + 1
            => published'[q] # NoRequest /\ published'[q].at + Heartbeat + 1 >= nextPost'[q]
      BY <1>1, <2>2, <3>1, <3>2 DEF Post, PostDue, presenceVars, page, index, Disturb, Mishap, PresenceInv, PresenceTypes, PostsInOrder, StandsStill, Latest, InIndex, Player
    <3>8. \A k \in posts': k.player = q /\ k.stage = "applied" /\ k.stamp > steady[q] + 1
            => InIndex(q, k.stamp)'
      BY <1>1, <2>2, <3>1, <3>2 DEF Post, PostDue, presenceVars, page, index, Disturb, Mishap, PresenceInv, PresenceTypes, PostsInOrder, StandsStill, Latest, InIndex, Player
    <3>9. published'[q] # NoRequest /\ published'[q].at > steady[q] + 1 => InIndex(q, published[q].at)'
      BY <1>1, <2>2, <3>1, <3>2 DEF Post, PostDue, presenceVars, page, index, Disturb, Mishap, PresenceInv, PresenceTypes, PostsInOrder, StandsStill, Latest, InIndex, Player
    <3> QED
      BY <3>1, <3>3, <3>4, <3>5, <3>6, <3>7, <3>8, <3>9 DEF StandsStill
  <2> QED
    BY <2>1, <2>2
<1>2. ASSUME NEW p \in Player, Close(p)
      PROVE  \A q \in open': live'[q] => StandsStill(q)'
  <2> SUFFICES ASSUME NEW q \in open', live'[q] PROVE StandsStill(q)'
    OBVIOUS
  <2>1. CASE steady'[q] = time'
    <3>1. PresenceTypes' /\ q \in Player'
      BY PresenceTypesStep DEF PresenceTypes
    <3> QED
      BY <2>1, <3>1, DisturbedNext
  <2>2. CASE steady'[q] # time'
    <3>1. q \in open /\ q \in Player /\ live[q] /\ steady'[q] = steady[q] /\ spot'[q] = spot[q]
      BY <1>2, <2>2 DEF Close, presenceVars, page, index, Disturb, Mishap, Player, PresenceInv, PresenceTypes
    <3>2. StandsStill(q)
      BY <3>1 DEF PresenceInv
    <3>3. view' # NoRequest /\ view'.at > steady[q] => q \in view'.active
      BY <1>2, <2>2, <3>1, <3>2 DEF Close, presenceVars, page, index, Disturb, Mishap, PresenceInv, PresenceTypes, PostsInOrder, StandsStill, Latest, InIndex, Player
    <3>4. \A k \in posts': k.player = q /\ k.stamp > steady[q] => k.spot = spot[q] /\ Latest(k)'
      BY <1>2, <2>2, <3>1, <3>2 DEF Close, presenceVars, page, index, Disturb, Mishap, PresenceInv, PresenceTypes, PostsInOrder, StandsStill, Latest, InIndex, Player
    <3>5. published'[q] # NoRequest /\ published'[q].at > steady[q] => published'[q].spot = spot[q]
      BY <1>2, <2>2, <3>1, <3>2 DEF Close, presenceVars, page, index, Disturb, Mishap, PresenceInv, PresenceTypes, PostsInOrder, StandsStill, Latest, InIndex, Player
    <3>6. ~waiting'[q] /\ nextPost'[q] > steady[q] + 1
            => published'[q] # NoRequest /\ published'[q].at + 1 = nextPost'[q]
      BY <1>2, <2>2, <3>1, <3>2 DEF Close, presenceVars, page, index, Disturb, Mishap, PresenceInv, PresenceTypes, PostsInOrder, StandsStill, Latest, InIndex, Player
    <3>7. waiting'[q] /\ nextPost'[q] > steady[q] + Heartbeat + 1
            => published'[q] # NoRequest /\ published'[q].at + Heartbeat + 1 >= nextPost'[q]
      BY <1>2, <2>2, <3>1, <3>2 DEF Close, presenceVars, page, index, Disturb, Mishap, PresenceInv, PresenceTypes, PostsInOrder, StandsStill, Latest, InIndex, Player
    <3>8. \A k \in posts': k.player = q /\ k.stage = "applied" /\ k.stamp > steady[q] + 1
            => InIndex(q, k.stamp)'
      BY <1>2, <2>2, <3>1, <3>2 DEF Close, presenceVars, page, index, Disturb, Mishap, PresenceInv, PresenceTypes, PostsInOrder, StandsStill, Latest, InIndex, Player
    <3>9. published'[q] # NoRequest /\ published'[q].at > steady[q] + 1 => InIndex(q, published[q].at)'
      BY <1>2, <2>2, <3>1, <3>2 DEF Close, presenceVars, page, index, Disturb, Mishap, PresenceInv, PresenceTypes, PostsInOrder, StandsStill, Latest, InIndex, Player
    <3> QED
      BY <3>1, <3>3, <3>4, <3>5, <3>6, <3>7, <3>8, <3>9 DEF StandsStill
  <2> QED
    BY <2>1, <2>2
<1>3. ASSUME NEW p \in Player, Lapse(p)
      PROVE  \A q \in open': live'[q] => StandsStill(q)'
  <2> SUFFICES ASSUME NEW q \in open', live'[q] PROVE StandsStill(q)'
    OBVIOUS
  <2>1. CASE steady'[q] = time'
    <3>1. PresenceTypes' /\ q \in Player'
      BY PresenceTypesStep DEF PresenceTypes
    <3> QED
      BY <2>1, <3>1, DisturbedNext
  <2>2. CASE steady'[q] # time'
    <3>1. q \in open /\ q \in Player /\ live[q] /\ steady'[q] = steady[q] /\ spot'[q] = spot[q]
      BY <1>3, <2>2 DEF Lapse, presenceVars, page, index, Disturb, Mishap, Player, PresenceInv, PresenceTypes
    <3>2. StandsStill(q)
      BY <3>1 DEF PresenceInv
    <3>3. view' # NoRequest /\ view'.at > steady[q] => q \in view'.active
      BY <1>3, <2>2, <3>1, <3>2 DEF Lapse, presenceVars, page, index, Disturb, Mishap, PresenceInv, PresenceTypes, PostsInOrder, StandsStill, Latest, InIndex, Player
    <3>4. \A k \in posts': k.player = q /\ k.stamp > steady[q] => k.spot = spot[q] /\ Latest(k)'
      BY <1>3, <2>2, <3>1, <3>2 DEF Lapse, presenceVars, page, index, Disturb, Mishap, PresenceInv, PresenceTypes, PostsInOrder, StandsStill, Latest, InIndex, Player
    <3>5. published'[q] # NoRequest /\ published'[q].at > steady[q] => published'[q].spot = spot[q]
      BY <1>3, <2>2, <3>1, <3>2 DEF Lapse, presenceVars, page, index, Disturb, Mishap, PresenceInv, PresenceTypes, PostsInOrder, StandsStill, Latest, InIndex, Player
    <3>6. ~waiting'[q] /\ nextPost'[q] > steady[q] + 1
            => published'[q] # NoRequest /\ published'[q].at + 1 = nextPost'[q]
      BY <1>3, <2>2, <3>1, <3>2 DEF Lapse, presenceVars, page, index, Disturb, Mishap, PresenceInv, PresenceTypes, PostsInOrder, StandsStill, Latest, InIndex, Player
    <3>7. waiting'[q] /\ nextPost'[q] > steady[q] + Heartbeat + 1
            => published'[q] # NoRequest /\ published'[q].at + Heartbeat + 1 >= nextPost'[q]
      BY <1>3, <2>2, <3>1, <3>2 DEF Lapse, presenceVars, page, index, Disturb, Mishap, PresenceInv, PresenceTypes, PostsInOrder, StandsStill, Latest, InIndex, Player
    <3>8. \A k \in posts': k.player = q /\ k.stage = "applied" /\ k.stamp > steady[q] + 1
            => InIndex(q, k.stamp)'
      BY <1>3, <2>2, <3>1, <3>2 DEF Lapse, presenceVars, page, index, Disturb, Mishap, PresenceInv, PresenceTypes, PostsInOrder, StandsStill, Latest, InIndex, Player
    <3>9. published'[q] # NoRequest /\ published'[q].at > steady[q] + 1 => InIndex(q, published[q].at)'
      BY <1>3, <2>2, <3>1, <3>2 DEF Lapse, presenceVars, page, index, Disturb, Mishap, PresenceInv, PresenceTypes, PostsInOrder, StandsStill, Latest, InIndex, Player
    <3> QED
      BY <3>1, <3>3, <3>4, <3>5, <3>6, <3>7, <3>8, <3>9 DEF StandsStill
  <2> QED
    BY <2>1, <2>2
<1>4. ASSUME NEW p \in Player, NEW s \in Spot, Walk(p, s)
      PROVE  \A q \in open': live'[q] => StandsStill(q)'
  <2> SUFFICES ASSUME NEW q \in open', live'[q] PROVE StandsStill(q)'
    OBVIOUS
  <2>1. CASE steady'[q] = time'
    <3>1. PresenceTypes' /\ q \in Player'
      BY PresenceTypesStep DEF PresenceTypes
    <3> QED
      BY <2>1, <3>1, DisturbedNext
  <2>2. CASE steady'[q] # time'
    <3>1. q \in open /\ q \in Player /\ live[q] /\ steady'[q] = steady[q] /\ spot'[q] = spot[q]
      BY <1>4, <2>2 DEF Walk, presenceVars, page, index, Disturb, Mishap, Player, PresenceInv, PresenceTypes
    <3>2. StandsStill(q)
      BY <3>1 DEF PresenceInv
    <3>3. view' # NoRequest /\ view'.at > steady[q] => q \in view'.active
      BY <1>4, <2>2, <3>1, <3>2 DEF Walk, presenceVars, page, index, Disturb, Mishap, PresenceInv, PresenceTypes, PostsInOrder, StandsStill, Latest, InIndex, Player
    <3>4. \A k \in posts': k.player = q /\ k.stamp > steady[q] => k.spot = spot[q] /\ Latest(k)'
      BY <1>4, <2>2, <3>1, <3>2 DEF Walk, presenceVars, page, index, Disturb, Mishap, PresenceInv, PresenceTypes, PostsInOrder, StandsStill, Latest, InIndex, Player
    <3>5. published'[q] # NoRequest /\ published'[q].at > steady[q] => published'[q].spot = spot[q]
      BY <1>4, <2>2, <3>1, <3>2 DEF Walk, presenceVars, page, index, Disturb, Mishap, PresenceInv, PresenceTypes, PostsInOrder, StandsStill, Latest, InIndex, Player
    <3>6. ~waiting'[q] /\ nextPost'[q] > steady[q] + 1
            => published'[q] # NoRequest /\ published'[q].at + 1 = nextPost'[q]
      BY <1>4, <2>2, <3>1, <3>2 DEF Walk, presenceVars, page, index, Disturb, Mishap, PresenceInv, PresenceTypes, PostsInOrder, StandsStill, Latest, InIndex, Player
    <3>7. waiting'[q] /\ nextPost'[q] > steady[q] + Heartbeat + 1
            => published'[q] # NoRequest /\ published'[q].at + Heartbeat + 1 >= nextPost'[q]
      BY <1>4, <2>2, <3>1, <3>2 DEF Walk, presenceVars, page, index, Disturb, Mishap, PresenceInv, PresenceTypes, PostsInOrder, StandsStill, Latest, InIndex, Player
    <3>8. \A k \in posts': k.player = q /\ k.stage = "applied" /\ k.stamp > steady[q] + 1
            => InIndex(q, k.stamp)'
      BY <1>4, <2>2, <3>1, <3>2 DEF Walk, presenceVars, page, index, Disturb, Mishap, PresenceInv, PresenceTypes, PostsInOrder, StandsStill, Latest, InIndex, Player
    <3>9. published'[q] # NoRequest /\ published'[q].at > steady[q] + 1 => InIndex(q, published[q].at)'
      BY <1>4, <2>2, <3>1, <3>2 DEF Walk, presenceVars, page, index, Disturb, Mishap, PresenceInv, PresenceTypes, PostsInOrder, StandsStill, Latest, InIndex, Player
    <3> QED
      BY <3>1, <3>3, <3>4, <3>5, <3>6, <3>7, <3>8, <3>9 DEF StandsStill
  <2> QED
    BY <2>1, <2>2
<1>5. ASSUME NEW m \in posts, Authorize(m)
      PROVE  \A q \in open': live'[q] => StandsStill(q)'
  <2> SUFFICES ASSUME NEW q \in open', live'[q] PROVE StandsStill(q)'
    OBVIOUS
  <2>1. CASE steady'[q] = time'
    <3>1. PresenceTypes' /\ q \in Player'
      BY PresenceTypesStep DEF PresenceTypes
    <3> QED
      BY <2>1, <3>1, DisturbedNext
  <2>2. CASE steady'[q] # time'
    <3>1. q \in open /\ q \in Player /\ live[q] /\ steady'[q] = steady[q] /\ spot'[q] = spot[q]
      BY <1>5, <2>2 DEF Authorize, Refused, At, presenceVars, page, index, Disturb, Mishap, Player, PresenceInv, PresenceTypes
    <3>2. StandsStill(q)
      BY <3>1 DEF PresenceInv
    <3>3. view' # NoRequest /\ view'.at > steady[q] => q \in view'.active
      BY <1>5, <2>2, <3>1, <3>2 DEF Authorize, Refused, At, presenceVars, page, index, Disturb, Mishap, PresenceInv, PresenceTypes, PostsInOrder, StandsStill, Latest, InIndex, Player
    <3>4. \A k \in posts': k.player = q /\ k.stamp > steady[q] => k.spot = spot[q] /\ Latest(k)'
      BY <1>5, <2>2, <3>1, <3>2 DEF Authorize, Refused, At, presenceVars, page, index, Disturb, Mishap, PresenceInv, PresenceTypes, PostsInOrder, StandsStill, Latest, InIndex, Player
    <3>5. published'[q] # NoRequest /\ published'[q].at > steady[q] => published'[q].spot = spot[q]
      BY <1>5, <2>2, <3>1, <3>2 DEF Authorize, Refused, At, presenceVars, page, index, Disturb, Mishap, PresenceInv, PresenceTypes, PostsInOrder, StandsStill, Latest, InIndex, Player
    <3>6. ~waiting'[q] /\ nextPost'[q] > steady[q] + 1
            => published'[q] # NoRequest /\ published'[q].at + 1 = nextPost'[q]
      BY <1>5, <2>2, <3>1, <3>2 DEF Authorize, Refused, At, presenceVars, page, index, Disturb, Mishap, PresenceInv, PresenceTypes, PostsInOrder, StandsStill, Latest, InIndex, Player
    <3>7. waiting'[q] /\ nextPost'[q] > steady[q] + Heartbeat + 1
            => published'[q] # NoRequest /\ published'[q].at + Heartbeat + 1 >= nextPost'[q]
      BY <1>5, <2>2, <3>1, <3>2 DEF Authorize, Refused, At, presenceVars, page, index, Disturb, Mishap, PresenceInv, PresenceTypes, PostsInOrder, StandsStill, Latest, InIndex, Player
    <3>8. \A k \in posts': k.player = q /\ k.stage = "applied" /\ k.stamp > steady[q] + 1
            => InIndex(q, k.stamp)'
      BY <1>5, <2>2, <3>1, <3>2 DEF Authorize, Refused, At, presenceVars, page, index, Disturb, Mishap, PresenceInv, PresenceTypes, PostsInOrder, StandsStill, Latest, InIndex, Player
    <3>9. published'[q] # NoRequest /\ published'[q].at > steady[q] + 1 => InIndex(q, published[q].at)'
      BY <1>5, <2>2, <3>1, <3>2 DEF Authorize, Refused, At, presenceVars, page, index, Disturb, Mishap, PresenceInv, PresenceTypes, PostsInOrder, StandsStill, Latest, InIndex, Player
    <3> QED
      BY <3>1, <3>3, <3>4, <3>5, <3>6, <3>7, <3>8, <3>9 DEF StandsStill
  <2> QED
    BY <2>1, <2>2
<1>6. ASSUME NEW m \in posts, FailToVerify(m)
      PROVE  \A q \in open': live'[q] => StandsStill(q)'
  <2> SUFFICES ASSUME NEW q \in open', live'[q] PROVE StandsStill(q)'
    OBVIOUS
  <2>1. CASE steady'[q] = time'
    <3>1. PresenceTypes' /\ q \in Player'
      BY PresenceTypesStep DEF PresenceTypes
    <3> QED
      BY <2>1, <3>1, DisturbedNext
  <2>2. CASE steady'[q] # time'
    <3>1. q \in open /\ q \in Player /\ live[q] /\ steady'[q] = steady[q] /\ spot'[q] = spot[q]
      BY <1>6, <2>2 DEF FailToVerify, Refused, presenceVars, page, index, Disturb, Mishap, Player, PresenceInv, PresenceTypes
    <3>2. StandsStill(q)
      BY <3>1 DEF PresenceInv
    <3>3. view' # NoRequest /\ view'.at > steady[q] => q \in view'.active
      BY <1>6, <2>2, <3>1, <3>2 DEF FailToVerify, Refused, presenceVars, page, index, Disturb, Mishap, PresenceInv, PresenceTypes, PostsInOrder, StandsStill, Latest, InIndex, Player
    <3>4. \A k \in posts': k.player = q /\ k.stamp > steady[q] => k.spot = spot[q] /\ Latest(k)'
      BY <1>6, <2>2, <3>1, <3>2 DEF FailToVerify, Refused, presenceVars, page, index, Disturb, Mishap, PresenceInv, PresenceTypes, PostsInOrder, StandsStill, Latest, InIndex, Player
    <3>5. published'[q] # NoRequest /\ published'[q].at > steady[q] => published'[q].spot = spot[q]
      BY <1>6, <2>2, <3>1, <3>2 DEF FailToVerify, Refused, presenceVars, page, index, Disturb, Mishap, PresenceInv, PresenceTypes, PostsInOrder, StandsStill, Latest, InIndex, Player
    <3>6. ~waiting'[q] /\ nextPost'[q] > steady[q] + 1
            => published'[q] # NoRequest /\ published'[q].at + 1 = nextPost'[q]
      BY <1>6, <2>2, <3>1, <3>2 DEF FailToVerify, Refused, presenceVars, page, index, Disturb, Mishap, PresenceInv, PresenceTypes, PostsInOrder, StandsStill, Latest, InIndex, Player
    <3>7. waiting'[q] /\ nextPost'[q] > steady[q] + Heartbeat + 1
            => published'[q] # NoRequest /\ published'[q].at + Heartbeat + 1 >= nextPost'[q]
      BY <1>6, <2>2, <3>1, <3>2 DEF FailToVerify, Refused, presenceVars, page, index, Disturb, Mishap, PresenceInv, PresenceTypes, PostsInOrder, StandsStill, Latest, InIndex, Player
    <3>8. \A k \in posts': k.player = q /\ k.stage = "applied" /\ k.stamp > steady[q] + 1
            => InIndex(q, k.stamp)'
      BY <1>6, <2>2, <3>1, <3>2 DEF FailToVerify, Refused, presenceVars, page, index, Disturb, Mishap, PresenceInv, PresenceTypes, PostsInOrder, StandsStill, Latest, InIndex, Player
    <3>9. published'[q] # NoRequest /\ published'[q].at > steady[q] + 1 => InIndex(q, published[q].at)'
      BY <1>6, <2>2, <3>1, <3>2 DEF FailToVerify, Refused, presenceVars, page, index, Disturb, Mishap, PresenceInv, PresenceTypes, PostsInOrder, StandsStill, Latest, InIndex, Player
    <3> QED
      BY <3>1, <3>3, <3>4, <3>5, <3>6, <3>7, <3>8, <3>9 DEF StandsStill
  <2> QED
    BY <2>1, <2>2
<1>7. ASSUME NEW m \in posts, UpdateLocation(m)
      PROVE  \A q \in open': live'[q] => StandsStill(q)'
  <2> SUFFICES ASSUME NEW q \in open', live'[q] PROVE StandsStill(q)'
    OBVIOUS
  <2>1. CASE steady'[q] = time'
    <3>1. PresenceTypes' /\ q \in Player'
      BY PresenceTypesStep DEF PresenceTypes
    <3> QED
      BY <2>1, <3>1, DisturbedNext
  <2>2. CASE steady'[q] # time'
    <3>1. q \in open /\ q \in Player /\ live[q] /\ steady'[q] = steady[q] /\ spot'[q] = spot[q]
      BY <1>7, <2>2 DEF UpdateLocation, At, Upsert, presenceVars, page, index, Disturb, Mishap, Player, PresenceInv, PresenceTypes
    <3>2. StandsStill(q)
      BY <3>1 DEF PresenceInv
    <3>3. view' # NoRequest /\ view'.at > steady[q] => q \in view'.active
      BY <1>7, <2>2, <3>1, <3>2 DEF UpdateLocation, At, Upsert, presenceVars, page, index, Disturb, Mishap, PresenceInv, PresenceTypes, PostsInOrder, StandsStill, Latest, InIndex, Player
    <3>4. \A k \in posts': k.player = q /\ k.stamp > steady[q] => k.spot = spot[q] /\ Latest(k)'
      BY <1>7, <2>2, <3>1, <3>2 DEF UpdateLocation, At, Upsert, presenceVars, page, index, Disturb, Mishap, PresenceInv, PresenceTypes, PostsInOrder, StandsStill, Latest, InIndex, Player
    <3>5. published'[q] # NoRequest /\ published'[q].at > steady[q] => published'[q].spot = spot[q]
      BY <1>7, <2>2, <3>1, <3>2 DEF UpdateLocation, At, Upsert, presenceVars, page, index, Disturb, Mishap, PresenceInv, PresenceTypes, PostsInOrder, StandsStill, Latest, InIndex, Player
    <3>6. ~waiting'[q] /\ nextPost'[q] > steady[q] + 1
            => published'[q] # NoRequest /\ published'[q].at + 1 = nextPost'[q]
      BY <1>7, <2>2, <3>1, <3>2 DEF UpdateLocation, At, Upsert, presenceVars, page, index, Disturb, Mishap, PresenceInv, PresenceTypes, PostsInOrder, StandsStill, Latest, InIndex, Player
    <3>7. waiting'[q] /\ nextPost'[q] > steady[q] + Heartbeat + 1
            => published'[q] # NoRequest /\ published'[q].at + Heartbeat + 1 >= nextPost'[q]
      BY <1>7, <2>2, <3>1, <3>2 DEF UpdateLocation, At, Upsert, presenceVars, page, index, Disturb, Mishap, PresenceInv, PresenceTypes, PostsInOrder, StandsStill, Latest, InIndex, Player
    <3>8. \A k \in posts': k.player = q /\ k.stage = "applied" /\ k.stamp > steady[q] + 1
            => InIndex(q, k.stamp)'
      BY <1>7, <2>2, <3>1, <3>2 DEF UpdateLocation, At, Upsert, presenceVars, page, index, Disturb, Mishap, PresenceInv, PresenceTypes, PostsInOrder, StandsStill, Latest, InIndex, Player
    <3>9. published'[q] # NoRequest /\ published'[q].at > steady[q] + 1 => InIndex(q, published[q].at)'
      BY <1>7, <2>2, <3>1, <3>2 DEF UpdateLocation, At, Upsert, presenceVars, page, index, Disturb, Mishap, PresenceInv, PresenceTypes, PostsInOrder, StandsStill, Latest, InIndex, Player
    <3> QED
      BY <3>1, <3>3, <3>4, <3>5, <3>6, <3>7, <3>8, <3>9 DEF StandsStill
  <2> QED
    BY <2>1, <2>2
<1>8. ASSUME NEW m \in posts, Answered(m)
      PROVE  \A q \in open': live'[q] => StandsStill(q)'
  <2> SUFFICES ASSUME NEW q \in open', live'[q] PROVE StandsStill(q)'
    OBVIOUS
  <2>1. CASE steady'[q] = time'
    <3>1. PresenceTypes' /\ q \in Player'
      BY PresenceTypesStep DEF PresenceTypes
    <3> QED
      BY <2>1, <3>1, DisturbedNext
  <2>2. CASE steady'[q] # time'
    <3>1. q \in open /\ q \in Player /\ live[q] /\ steady'[q] = steady[q] /\ spot'[q] = spot[q]
      BY <1>8, <2>2 DEF Answered, presenceVars, page, index, Disturb, Mishap, Player, PresenceInv, PresenceTypes
    <3>2. StandsStill(q)
      BY <3>1 DEF PresenceInv
    <3>3. view' # NoRequest /\ view'.at > steady[q] => q \in view'.active
      BY <1>8, <2>2, <3>1, <3>2 DEF Answered, presenceVars, page, index, Disturb, Mishap, PresenceInv, PresenceTypes, PostsInOrder, StandsStill, Latest, InIndex, Player
    <3>4. \A k \in posts': k.player = q /\ k.stamp > steady[q] => k.spot = spot[q] /\ Latest(k)'
      <4> SUFFICES ASSUME NEW k \in posts', k.player = q, k.stamp > steady[q]
                   PROVE  k.spot = spot[q] /\ Latest(k)'
        BY <3>1
      <4>1. k \in posts /\ k # m /\ m.stage = "applied" /\ nextPost' = nextPost
        BY <1>8 DEF Answered
      <4>2. k.spot = spot[q] /\ waiting[q] /\ k.stamp + 1 = nextPost[q]
        BY <3>2, <4>1 DEF StandsStill, Latest
      <4>3. CASE Latest(m)
        <5>1. m.player # q
          <6>1. m.stamp \in Nat /\ k.stamp \in Nat
            BY <4>1 DEF PresenceInv, PresenceTypes
          <6> QED
            BY <4>1, <4>2, <4>3, <6>1 DEF Latest, PresenceInv, PostsInOrder
        <5>2. waiting' = [waiting EXCEPT ![m.player] = FALSE]
          BY <1>8, <4>3 DEF Answered
        <5>3. waiting'[q] = waiting[q]
          BY <3>1, <5>1, <5>2 DEF PresenceInv, PresenceTypes
        <5> QED
          BY <4>1, <4>2, <5>3 DEF Latest
      <4>4. CASE ~Latest(m)
        <5>1. waiting' = waiting
          BY <1>8, <4>4 DEF Answered
        <5> QED
          BY <4>1, <4>2, <5>1 DEF Latest
      <4> QED
        BY <4>3, <4>4
    <3>5. published'[q] # NoRequest /\ published'[q].at > steady[q] => published'[q].spot = spot[q]
      BY <1>8, <2>2, <3>1, <3>2 DEF Answered, presenceVars, page, index, Disturb, Mishap, PresenceInv, PresenceTypes, PostsInOrder, StandsStill, Latest, InIndex, Player, NoRequest
    <3>6. ~waiting'[q] /\ nextPost'[q] > steady[q] + 1
            => published'[q] # NoRequest /\ published'[q].at + 1 = nextPost'[q]
      BY <1>8, <2>2, <3>1, <3>2 DEF Answered, presenceVars, page, index, Disturb, Mishap, PresenceInv, PresenceTypes, PostsInOrder, StandsStill, Latest, InIndex, Player, NoRequest
    <3>7. waiting'[q] /\ nextPost'[q] > steady[q] + Heartbeat + 1
            => published'[q] # NoRequest /\ published'[q].at + Heartbeat + 1 >= nextPost'[q]
      BY <1>8, <2>2, <3>1, <3>2 DEF Answered, presenceVars, page, index, Disturb, Mishap, PresenceInv, PresenceTypes, PostsInOrder, StandsStill, Latest, InIndex, Player
    <3>8. \A k \in posts': k.player = q /\ k.stage = "applied" /\ k.stamp > steady[q] + 1
            => InIndex(q, k.stamp)'
      BY <1>8, <2>2, <3>1, <3>2 DEF Answered, presenceVars, page, index, Disturb, Mishap, PresenceInv, PresenceTypes, PostsInOrder, StandsStill, Latest, InIndex, Player
    <3>9. published'[q] # NoRequest /\ published'[q].at > steady[q] + 1 => InIndex(q, published[q].at)'
      BY <1>8, <2>2, <3>1, <3>2 DEF Answered, presenceVars, page, index, Disturb, Mishap, PresenceInv, PresenceTypes, PostsInOrder, StandsStill, Latest, InIndex, Player
    <3> QED
      BY <3>1, <3>3, <3>4, <3>5, <3>6, <3>7, <3>8, <3>9 DEF StandsStill
  <2> QED
    BY <2>1, <2>2
<1>9. ASSUME NEW m \in posts, LoseRequest(m)
      PROVE  \A q \in open': live'[q] => StandsStill(q)'
  <2> SUFFICES ASSUME NEW q \in open', live'[q] PROVE StandsStill(q)'
    OBVIOUS
  <2>1. CASE steady'[q] = time'
    <3>1. PresenceTypes' /\ q \in Player'
      BY PresenceTypesStep DEF PresenceTypes
    <3> QED
      BY <2>1, <3>1, DisturbedNext
  <2>2. CASE steady'[q] # time'
    <3>1. q \in open /\ q \in Player /\ live[q] /\ steady'[q] = steady[q] /\ spot'[q] = spot[q]
      BY <1>9, <2>2 DEF LoseRequest, presenceVars, page, index, Disturb, Mishap, Player, PresenceInv, PresenceTypes
    <3>2. StandsStill(q)
      BY <3>1 DEF PresenceInv
    <3>3. view' # NoRequest /\ view'.at > steady[q] => q \in view'.active
      BY <1>9, <2>2, <3>1, <3>2 DEF LoseRequest, presenceVars, page, index, Disturb, Mishap, PresenceInv, PresenceTypes, PostsInOrder, StandsStill, Latest, InIndex, Player
    <3>4. \A k \in posts': k.player = q /\ k.stamp > steady[q] => k.spot = spot[q] /\ Latest(k)'
      BY <1>9, <2>2, <3>1, <3>2 DEF LoseRequest, presenceVars, page, index, Disturb, Mishap, PresenceInv, PresenceTypes, PostsInOrder, StandsStill, Latest, InIndex, Player
    <3>5. published'[q] # NoRequest /\ published'[q].at > steady[q] => published'[q].spot = spot[q]
      BY <1>9, <2>2, <3>1, <3>2 DEF LoseRequest, presenceVars, page, index, Disturb, Mishap, PresenceInv, PresenceTypes, PostsInOrder, StandsStill, Latest, InIndex, Player
    <3>6. ~waiting'[q] /\ nextPost'[q] > steady[q] + 1
            => published'[q] # NoRequest /\ published'[q].at + 1 = nextPost'[q]
      BY <1>9, <2>2, <3>1, <3>2 DEF LoseRequest, presenceVars, page, index, Disturb, Mishap, PresenceInv, PresenceTypes, PostsInOrder, StandsStill, Latest, InIndex, Player
    <3>7. waiting'[q] /\ nextPost'[q] > steady[q] + Heartbeat + 1
            => published'[q] # NoRequest /\ published'[q].at + Heartbeat + 1 >= nextPost'[q]
      BY <1>9, <2>2, <3>1, <3>2 DEF LoseRequest, presenceVars, page, index, Disturb, Mishap, PresenceInv, PresenceTypes, PostsInOrder, StandsStill, Latest, InIndex, Player
    <3>8. \A k \in posts': k.player = q /\ k.stage = "applied" /\ k.stamp > steady[q] + 1
            => InIndex(q, k.stamp)'
      BY <1>9, <2>2, <3>1, <3>2 DEF LoseRequest, presenceVars, page, index, Disturb, Mishap, PresenceInv, PresenceTypes, PostsInOrder, StandsStill, Latest, InIndex, Player
    <3>9. published'[q] # NoRequest /\ published'[q].at > steady[q] + 1 => InIndex(q, published[q].at)'
      BY <1>9, <2>2, <3>1, <3>2 DEF LoseRequest, presenceVars, page, index, Disturb, Mishap, PresenceInv, PresenceTypes, PostsInOrder, StandsStill, Latest, InIndex, Player
    <3> QED
      BY <3>1, <3>3, <3>4, <3>5, <3>6, <3>7, <3>8, <3>9 DEF StandsStill
  <2> QED
    BY <2>1, <2>2
<1>10. ASSUME NEW v \in Viewports, ReadActive(v)
      PROVE  \A q \in open': live'[q] => StandsStill(q)'
  <2> SUFFICES ASSUME NEW q \in open', live'[q] PROVE StandsStill(q)'
    OBVIOUS
  <2>1. CASE steady'[q] = time'
    <3>1. PresenceTypes' /\ q \in Player'
      BY PresenceTypesStep DEF PresenceTypes
    <3> QED
      BY <2>1, <3>1, DisturbedNext
  <2>2. CASE steady'[q] # time'
    <3>1. q \in open /\ q \in Player /\ live[q] /\ steady'[q] = steady[q] /\ spot'[q] = spot[q]
      BY <1>10, <2>2 DEF ReadActive, presenceVars, page, index, Disturb, Mishap, Player, PresenceInv, PresenceTypes
    <3>2. StandsStill(q)
      BY <3>1 DEF PresenceInv
    <3>3. view' # NoRequest /\ view'.at > steady[q] => q \in view'.active
      BY <1>10, <2>2, <3>1, <3>2 DEF ReadActive, presenceVars, page, index, Disturb, Mishap, PresenceInv, PresenceTypes, PostsInOrder, StandsStill, Latest, InIndex, Player
    <3>4. \A k \in posts': k.player = q /\ k.stamp > steady[q] => k.spot = spot[q] /\ Latest(k)'
      BY <1>10, <2>2, <3>1, <3>2 DEF ReadActive, presenceVars, page, index, Disturb, Mishap, PresenceInv, PresenceTypes, PostsInOrder, StandsStill, Latest, InIndex, Player
    <3>5. published'[q] # NoRequest /\ published'[q].at > steady[q] => published'[q].spot = spot[q]
      BY <1>10, <2>2, <3>1, <3>2 DEF ReadActive, presenceVars, page, index, Disturb, Mishap, PresenceInv, PresenceTypes, PostsInOrder, StandsStill, Latest, InIndex, Player
    <3>6. ~waiting'[q] /\ nextPost'[q] > steady[q] + 1
            => published'[q] # NoRequest /\ published'[q].at + 1 = nextPost'[q]
      BY <1>10, <2>2, <3>1, <3>2 DEF ReadActive, presenceVars, page, index, Disturb, Mishap, PresenceInv, PresenceTypes, PostsInOrder, StandsStill, Latest, InIndex, Player
    <3>7. waiting'[q] /\ nextPost'[q] > steady[q] + Heartbeat + 1
            => published'[q] # NoRequest /\ published'[q].at + Heartbeat + 1 >= nextPost'[q]
      BY <1>10, <2>2, <3>1, <3>2 DEF ReadActive, presenceVars, page, index, Disturb, Mishap, PresenceInv, PresenceTypes, PostsInOrder, StandsStill, Latest, InIndex, Player
    <3>8. \A k \in posts': k.player = q /\ k.stage = "applied" /\ k.stamp > steady[q] + 1
            => InIndex(q, k.stamp)'
      BY <1>10, <2>2, <3>1, <3>2 DEF ReadActive, presenceVars, page, index, Disturb, Mishap, PresenceInv, PresenceTypes, PostsInOrder, StandsStill, Latest, InIndex, Player
    <3>9. published'[q] # NoRequest /\ published'[q].at > steady[q] + 1 => InIndex(q, published[q].at)'
      BY <1>10, <2>2, <3>1, <3>2 DEF ReadActive, presenceVars, page, index, Disturb, Mishap, PresenceInv, PresenceTypes, PostsInOrder, StandsStill, Latest, InIndex, Player
    <3> QED
      BY <3>1, <3>3, <3>4, <3>5, <3>6, <3>7, <3>8, <3>9 DEF StandsStill
  <2> QED
    BY <2>1, <2>2
<1>11. CASE Respond
  <2> SUFFICES ASSUME NEW q \in open', live'[q] PROVE StandsStill(q)'
    OBVIOUS
  <2>1. CASE steady'[q] = time'
    <3>1. PresenceTypes' /\ q \in Player'
      BY PresenceTypesStep DEF PresenceTypes
    <3> QED
      BY <2>1, <3>1, DisturbedNext
  <2>2. CASE steady'[q] # time'
    <3>1. q \in open /\ q \in Player /\ live[q] /\ steady'[q] = steady[q] /\ spot'[q] = spot[q]
      BY <1>11, <2>2 DEF Respond, WithoutPlayers, presenceVars, page, index, Disturb, Mishap, Player, PresenceInv, PresenceTypes
    <3>2. StandsStill(q)
      BY <3>1 DEF PresenceInv
    <3>3. view' # NoRequest /\ view'.at > steady[q] => q \in view'.active
      BY <1>11, <2>2, <3>1, <3>2 DEF Respond, WithoutPlayers, presenceVars, page, index, Disturb, Mishap, PresenceInv, PresenceTypes, PostsInOrder, StandsStill, Latest, InIndex, Player
    <3>4. \A k \in posts': k.player = q /\ k.stamp > steady[q] => k.spot = spot[q] /\ Latest(k)'
      BY <1>11, <2>2, <3>1, <3>2 DEF Respond, WithoutPlayers, presenceVars, page, index, Disturb, Mishap, PresenceInv, PresenceTypes, PostsInOrder, StandsStill, Latest, InIndex, Player
    <3>5. published'[q] # NoRequest /\ published'[q].at > steady[q] => published'[q].spot = spot[q]
      BY <1>11, <2>2, <3>1, <3>2 DEF Respond, WithoutPlayers, presenceVars, page, index, Disturb, Mishap, PresenceInv, PresenceTypes, PostsInOrder, StandsStill, Latest, InIndex, Player
    <3>6. ~waiting'[q] /\ nextPost'[q] > steady[q] + 1
            => published'[q] # NoRequest /\ published'[q].at + 1 = nextPost'[q]
      BY <1>11, <2>2, <3>1, <3>2 DEF Respond, WithoutPlayers, presenceVars, page, index, Disturb, Mishap, PresenceInv, PresenceTypes, PostsInOrder, StandsStill, Latest, InIndex, Player
    <3>7. waiting'[q] /\ nextPost'[q] > steady[q] + Heartbeat + 1
            => published'[q] # NoRequest /\ published'[q].at + Heartbeat + 1 >= nextPost'[q]
      BY <1>11, <2>2, <3>1, <3>2 DEF Respond, WithoutPlayers, presenceVars, page, index, Disturb, Mishap, PresenceInv, PresenceTypes, PostsInOrder, StandsStill, Latest, InIndex, Player
    <3>8. \A k \in posts': k.player = q /\ k.stage = "applied" /\ k.stamp > steady[q] + 1
            => InIndex(q, k.stamp)'
      <4> SUFFICES ASSUME NEW k \in posts', k.player = q, k.stage = "applied", k.stamp > steady[q] + 1
                   PROVE  InIndex(q, k.stamp)'
        BY <3>1
      <4>1. k \in posts /\ k.stamp \in Nat /\ time - k.stamp \leq 1
        BY <1>11 DEF Respond, PresenceInv, PresenceTypes
      <4>2. InIndex(q, k.stamp)
        BY <3>2, <4>1 DEF StandsStill
      <4>3. k.stamp >= time - TTL /\ k.stamp > steady[q] + 1
        BY <4>1 DEF PresenceInv, PresenceTypes
      <4> HIDE DEF PresenceInv
      <4> QED
        BY <1>11, <3>1, <4>1, <4>2, <4>3, StaysListed
    <3>9. published'[q] # NoRequest /\ published'[q].at > steady[q] + 1 => InIndex(q, published[q].at)'
      <4> SUFFICES ASSUME published'[q] # NoRequest, published'[q].at > steady[q] + 1
                   PROVE  InIndex(q, published[q].at)'
        OBVIOUS
      <4>1. UNCHANGED <<published, waiting, nextPost, posts>>
        BY <1>11 DEF Respond, page
      <4>2. InIndex(q, published[q].at)
        BY <3>2, <4>1 DEF StandsStill
      <4>3. /\ published[q].at \in Nat /\ steady[q] \in Nat /\ time \in Nat /\ nextPost[q] \in Nat
            /\ published[q].at < nextPost[q] /\ nextPost[q] > time - Heartbeat
        BY <3>1, <4>1 DEF PresenceInv, PresenceTypes, PostsInOrder
      <4>4. published[q].at >= time - TTL
        <5>1. CASE ~waiting[q]
          BY <3>2, <4>1, <4>3, <5>1 DEF StandsStill
        <5>2. CASE waiting[q]
          <6>1. PICK k \in posts: k.player = q /\ k.stamp + 1 = nextPost[q]
            BY <3>1, <5>2 DEF PresenceInv, PostsInOrder
          <6>2. nextPost[q] >= time
            BY <4>3, <6>1 DEF PresenceInv, PresenceTypes
          <6> QED
            BY <3>2, <4>1, <4>3, <5>2, <6>2 DEF StandsStill
        <5> QED
          BY <5>1, <5>2
      <4> QED
        BY <1>11, <3>1, <4>1, <4>2, <4>3, <4>4, StaysListed
    <3> QED
      BY <3>1, <3>3, <3>4, <3>5, <3>6, <3>7, <3>8, <3>9 DEF StandsStill
  <2> QED
    BY <2>1, <2>2
<1>12. CASE Restart
  <2> SUFFICES ASSUME NEW q \in open', live'[q] PROVE StandsStill(q)'
    OBVIOUS
  <2>1. CASE steady'[q] = time'
    <3>1. PresenceTypes' /\ q \in Player'
      BY PresenceTypesStep DEF PresenceTypes
    <3> QED
      BY <2>1, <3>1, DisturbedNext
  <2>2. CASE steady'[q] # time'
    <3>1. q \in open /\ q \in Player /\ live[q] /\ steady'[q] = steady[q] /\ spot'[q] = spot[q]
      BY <1>12, <2>2 DEF Restart, presenceVars, page, index, Disturb, Mishap, Player, PresenceInv, PresenceTypes
    <3>2. StandsStill(q)
      BY <3>1 DEF PresenceInv
    <3>3. view' # NoRequest /\ view'.at > steady[q] => q \in view'.active
      BY <1>12, <2>2, <3>1, <3>2 DEF Restart, presenceVars, page, index, Disturb, Mishap, PresenceInv, PresenceTypes, PostsInOrder, StandsStill, Latest, InIndex, Player
    <3>4. \A k \in posts': k.player = q /\ k.stamp > steady[q] => k.spot = spot[q] /\ Latest(k)'
      BY <1>12, <2>2, <3>1, <3>2 DEF Restart, presenceVars, page, index, Disturb, Mishap, PresenceInv, PresenceTypes, PostsInOrder, StandsStill, Latest, InIndex, Player
    <3>5. published'[q] # NoRequest /\ published'[q].at > steady[q] => published'[q].spot = spot[q]
      BY <1>12, <2>2, <3>1, <3>2 DEF Restart, presenceVars, page, index, Disturb, Mishap, PresenceInv, PresenceTypes, PostsInOrder, StandsStill, Latest, InIndex, Player
    <3>6. ~waiting'[q] /\ nextPost'[q] > steady[q] + 1
            => published'[q] # NoRequest /\ published'[q].at + 1 = nextPost'[q]
      BY <1>12, <2>2, <3>1, <3>2 DEF Restart, presenceVars, page, index, Disturb, Mishap, PresenceInv, PresenceTypes, PostsInOrder, StandsStill, Latest, InIndex, Player
    <3>7. waiting'[q] /\ nextPost'[q] > steady[q] + Heartbeat + 1
            => published'[q] # NoRequest /\ published'[q].at + Heartbeat + 1 >= nextPost'[q]
      BY <1>12, <2>2, <3>1, <3>2 DEF Restart, presenceVars, page, index, Disturb, Mishap, PresenceInv, PresenceTypes, PostsInOrder, StandsStill, Latest, InIndex, Player
    <3>8. \A k \in posts': k.player = q /\ k.stage = "applied" /\ k.stamp > steady[q] + 1
            => InIndex(q, k.stamp)'
      BY <1>12, <2>2, <3>1, <3>2 DEF Restart, presenceVars, page, index, Disturb, Mishap, PresenceInv, PresenceTypes, PostsInOrder, StandsStill, Latest, InIndex, Player
    <3>9. published'[q] # NoRequest /\ published'[q].at > steady[q] + 1 => InIndex(q, published[q].at)'
      BY <1>12, <2>2, <3>1, <3>2 DEF Restart, presenceVars, page, index, Disturb, Mishap, PresenceInv, PresenceTypes, PostsInOrder, StandsStill, Latest, InIndex, Player
    <3> QED
      BY <3>1, <3>3, <3>4, <3>5, <3>6, <3>7, <3>8, <3>9 DEF StandsStill
  <2> QED
    BY <2>1, <2>2
<1>13. CASE PresenceTick
  <2> SUFFICES ASSUME NEW q \in open', live'[q] PROVE StandsStill(q)'
    OBVIOUS
  <2>1. CASE steady'[q] = time'
    <3>1. PresenceTypes' /\ q \in Player'
      BY PresenceTypesStep DEF PresenceTypes
    <3> QED
      BY <2>1, <3>1, DisturbedNext
  <2>2. CASE steady'[q] # time'
    <3>1. q \in open /\ q \in Player /\ live[q] /\ steady'[q] = steady[q] /\ spot'[q] = spot[q]
      BY <1>13, <2>2 DEF PresenceTick, presenceVars, page, index, Disturb, Mishap, Player, PresenceInv, PresenceTypes
    <3>2. StandsStill(q)
      BY <3>1 DEF PresenceInv
    <3>3. view' # NoRequest /\ view'.at > steady[q] => q \in view'.active
      BY <1>13, <2>2, <3>1, <3>2 DEF PresenceTick, presenceVars, page, index, Disturb, Mishap, PresenceInv, PresenceTypes, PostsInOrder, StandsStill, Latest, InIndex, Player
    <3>4. \A k \in posts': k.player = q /\ k.stamp > steady[q] => k.spot = spot[q] /\ Latest(k)'
      BY <1>13, <2>2, <3>1, <3>2 DEF PresenceTick, presenceVars, page, index, Disturb, Mishap, PresenceInv, PresenceTypes, PostsInOrder, StandsStill, Latest, InIndex, Player
    <3>5. published'[q] # NoRequest /\ published'[q].at > steady[q] => published'[q].spot = spot[q]
      BY <1>13, <2>2, <3>1, <3>2 DEF PresenceTick, presenceVars, page, index, Disturb, Mishap, PresenceInv, PresenceTypes, PostsInOrder, StandsStill, Latest, InIndex, Player
    <3>6. ~waiting'[q] /\ nextPost'[q] > steady[q] + 1
            => published'[q] # NoRequest /\ published'[q].at + 1 = nextPost'[q]
      BY <1>13, <2>2, <3>1, <3>2 DEF PresenceTick, presenceVars, page, index, Disturb, Mishap, PresenceInv, PresenceTypes, PostsInOrder, StandsStill, Latest, InIndex, Player
    <3>7. waiting'[q] /\ nextPost'[q] > steady[q] + Heartbeat + 1
            => published'[q] # NoRequest /\ published'[q].at + Heartbeat + 1 >= nextPost'[q]
      BY <1>13, <2>2, <3>1, <3>2 DEF PresenceTick, presenceVars, page, index, Disturb, Mishap, PresenceInv, PresenceTypes, PostsInOrder, StandsStill, Latest, InIndex, Player
    <3>8. \A k \in posts': k.player = q /\ k.stage = "applied" /\ k.stamp > steady[q] + 1
            => InIndex(q, k.stamp)'
      BY <1>13, <2>2, <3>1, <3>2 DEF PresenceTick, presenceVars, page, index, Disturb, Mishap, PresenceInv, PresenceTypes, PostsInOrder, StandsStill, Latest, InIndex, Player
    <3>9. published'[q] # NoRequest /\ published'[q].at > steady[q] + 1 => InIndex(q, published[q].at)'
      BY <1>13, <2>2, <3>1, <3>2 DEF PresenceTick, presenceVars, page, index, Disturb, Mishap, PresenceInv, PresenceTypes, PostsInOrder, StandsStill, Latest, InIndex, Player
    <3> QED
      BY <3>1, <3>3, <3>4, <3>5, <3>6, <3>7, <3>8, <3>9 DEF StandsStill
  <2> QED
    BY <2>1, <2>2
<1>14. CASE UNCHANGED presenceVars
  <2> SUFFICES ASSUME NEW q \in open', live'[q] PROVE StandsStill(q)'
    OBVIOUS
  <2>1. CASE steady'[q] = time'
    <3>1. PresenceTypes' /\ q \in Player'
      BY PresenceTypesStep DEF PresenceTypes
    <3> QED
      BY <2>1, <3>1, DisturbedNext
  <2>2. CASE steady'[q] # time'
    <3>1. q \in open /\ q \in Player /\ live[q] /\ steady'[q] = steady[q] /\ spot'[q] = spot[q]
      BY <1>14, <2>2 DEF presenceVars, page, index, Disturb, Mishap, Player, PresenceInv, PresenceTypes
    <3>2. StandsStill(q)
      BY <3>1 DEF PresenceInv
    <3>3. view' # NoRequest /\ view'.at > steady[q] => q \in view'.active
      BY <1>14, <2>2, <3>1, <3>2 DEF presenceVars, page, index, Disturb, Mishap, PresenceInv, PresenceTypes, PostsInOrder, StandsStill, Latest, InIndex, Player
    <3>4. \A k \in posts': k.player = q /\ k.stamp > steady[q] => k.spot = spot[q] /\ Latest(k)'
      BY <1>14, <2>2, <3>1, <3>2 DEF presenceVars, page, index, Disturb, Mishap, PresenceInv, PresenceTypes, PostsInOrder, StandsStill, Latest, InIndex, Player
    <3>5. published'[q] # NoRequest /\ published'[q].at > steady[q] => published'[q].spot = spot[q]
      BY <1>14, <2>2, <3>1, <3>2 DEF presenceVars, page, index, Disturb, Mishap, PresenceInv, PresenceTypes, PostsInOrder, StandsStill, Latest, InIndex, Player
    <3>6. ~waiting'[q] /\ nextPost'[q] > steady[q] + 1
            => published'[q] # NoRequest /\ published'[q].at + 1 = nextPost'[q]
      BY <1>14, <2>2, <3>1, <3>2 DEF presenceVars, page, index, Disturb, Mishap, PresenceInv, PresenceTypes, PostsInOrder, StandsStill, Latest, InIndex, Player
    <3>7. waiting'[q] /\ nextPost'[q] > steady[q] + Heartbeat + 1
            => published'[q] # NoRequest /\ published'[q].at + Heartbeat + 1 >= nextPost'[q]
      BY <1>14, <2>2, <3>1, <3>2 DEF presenceVars, page, index, Disturb, Mishap, PresenceInv, PresenceTypes, PostsInOrder, StandsStill, Latest, InIndex, Player
    <3>8. \A k \in posts': k.player = q /\ k.stage = "applied" /\ k.stamp > steady[q] + 1
            => InIndex(q, k.stamp)'
      BY <1>14, <2>2, <3>1, <3>2 DEF presenceVars, page, index, Disturb, Mishap, PresenceInv, PresenceTypes, PostsInOrder, StandsStill, Latest, InIndex, Player
    <3>9. published'[q] # NoRequest /\ published'[q].at > steady[q] + 1 => InIndex(q, published[q].at)'
      BY <1>14, <2>2, <3>1, <3>2 DEF presenceVars, page, index, Disturb, Mishap, PresenceInv, PresenceTypes, PostsInOrder, StandsStill, Latest, InIndex, Player
    <3> QED
      BY <3>1, <3>3, <3>4, <3>5, <3>6, <3>7, <3>8, <3>9 DEF StandsStill
  <2> QED
    BY <2>1, <2>2
<1> QED
  BY <1>1, <1>2, <1>3, <1>4, <1>5, <1>6, <1>7, <1>8,
     <1>9, <1>10, <1>11, <1>12, <1>13, <1>14 DEF PresenceNext

LEMMA PresenceStep == PresenceInv /\ [PresenceNext]_presenceVars => PresenceInv'
BY PresenceTypesStep, IndexStep, PostsStep, StandingStep DEF PresenceInv

LEMMA PresenceIsEnough == PresenceInv => PresenceTypeOK /\ StandingPlayersAreShown
<1> SUFFICES ASSUME PresenceInv PROVE PresenceTypeOK /\ StandingPlayersAreShown
  OBVIOUS
<1> USE PresenceNumbers
<1>1. PresenceTypeOK
  <2>1. /\ scene \in Scenes /\ time \in 0..scene.time /\ open \subseteq Player
        /\ spot \in [Player -> Spot] /\ live \in [Player -> BOOLEAN] /\ waiting \in [Player -> BOOLEAN]
    BY SceneNumbers DEF PresenceInv, PresenceTypes
  <2>2. locationClock \in [Player -> -1..time] /\ nextPost \in [Player -> 0..time + 1]
    BY DEF PresenceInv, PresenceTypes
  <2>3. posts \subseteq [player: Player, spot: Spot, stamp: 0..time,
                       stage: {"sent", "authorized", "applied"}]
    BY DEF PresenceInv, PresenceTypes
  <2>4. \A p \in DOMAIN byPlayer: byPlayer[p] \in [spot: Spot, at: 0..time]
    BY DEF PresenceInv, PresenceTypes, IndexTypes
  <2> QED
    BY <2>1, <2>2, <2>3, <2>4 DEF PresenceTypeOK, PresenceInv, IndexTypes
<1>2. StandingPlayersAreShown
  <2> SUFFICES ASSUME NEW p \in Player, p \in open, live[p],
                      time - steady[p] > Heartbeat + 2 * Latency
               PROVE  p \in DOMAIN byPlayer /\ byPlayer[p].spot = spot[p]
    BY DEF StandingPlayersAreShown
  <2>1. StandsStill(p)
    BY DEF PresenceInv
  <2>2. /\ time \in Nat /\ steady[p] \in Nat /\ nextPost[p] \in Nat
        /\ nextPost[p] > time - Heartbeat
        /\ published[p] # NoRequest => published[p].at \in Nat
    BY DEF PresenceInv, PresenceTypes, PostsInOrder
  <2>3. published[p] # NoRequest /\ published[p].at > steady[p] + 1
    <3>1. CASE ~waiting[p]
      BY <2>1, <2>2, <3>1 DEF StandsStill
    <3>2. CASE waiting[p]
      <4>1. PICK k \in posts: k.player = p /\ k.stamp + 1 = nextPost[p]
        BY <3>2 DEF PresenceInv, PostsInOrder
      <4>2. nextPost[p] >= time
        BY <2>2, <4>1 DEF PresenceInv, PresenceTypes
      <4> QED
        BY <2>1, <2>2, <3>2, <4>2 DEF StandsStill
    <3> QED
      BY <3>1, <3>2
  <2> QED
    BY <2>1, <2>3 DEF StandsStill, InIndex
<1> QED
  BY <1>1, <1>2

\* The index is by player, so that a chunk names nobody twice.
LEMMA RespondHolds == ASSUME PresenceInv, IndexTypes', Respond PROVE ResponseStep
<1> DEFINE found == Listed(view.viewport) \cap chunks'
<1>1. PICK s \in SUBSET found:
        /\ answer' = [players |-> {[player |-> c[2], chunk |-> c[1], at |-> byPlayer'[c[2]].at]: c \in s},
                      truncated |-> Cardinality(found) > MaxResults,
                      at |-> view.at, viewport |-> view.viewport]
        /\ Cardinality(found) > MaxResults \/ s = found
  BY DEF Respond
<1>2. /\ byPlayer' = Restrict(byPlayer, DOMAIN byPlayer \ Stale(view.active, view.at - TTL))
      /\ view # NoRequest
  BY DEF Respond, WithoutPlayers
<1>3. \A q \in DOMAIN byPlayer': /\ q \in DOMAIN byPlayer /\ byPlayer'[q] = byPlayer[q]
                                /\ q \notin Stale(view.active, view.at - TTL)
  BY <1>2 DEF Restrict
<1>4. \A q \in DOMAIN byPlayer: q \notin Stale(view.active, view.at - TTL) => q \in DOMAIN byPlayer'
  BY <1>2 DEF Restrict
<1>5. \A c \in found: /\ c[2] \in DOMAIN byPlayer' /\ c = <<Chunk[byPlayer'[c[2]].spot], c[2]>>
  BY DEF IndexTypes
<1>6. view.at \in Nat /\ \A q \in DOMAIN byPlayer: byPlayer[q].at \in Nat
  BY <1>2 DEF PresenceInv, PresenceTypes, IndexTypes
<1>7. answer'.truncated <=> Cardinality(found) > MaxResults
  BY <1>1, Zenon
<1>8. answer'.players = {[player |-> c[2], chunk |-> c[1], at |-> byPlayer'[c[2]].at]: c \in s}
  BY <1>1
<1>9. ASSUME NEW a \in answer'.players, NEW b \in answer'.players, a.player = b.player
      PROVE  a = b
  <2>1. PICK c \in s: a = [player |-> c[2], chunk |-> c[1], at |-> byPlayer'[c[2]].at]
    BY <1>8
  <2>2. PICK d \in s: b = [player |-> d[2], chunk |-> d[1], at |-> byPlayer'[d[2]].at]
    BY <1>8
  <2> HIDE DEF found
  <2>3. c[2] = d[2]
    BY <1>9, <2>1, <2>2
  <2>4. c = d
    BY <1>5, <2>3
  <2> QED
    BY <2>1, <2>2, <2>4
<1>10. ASSUME NEW a \in answer'.players
       PROVE  a.player \in view.active /\ a.at >= view.at - TTL
  <2>1. PICK c \in s: a = [player |-> c[2], chunk |-> c[1], at |-> byPlayer'[c[2]].at]
    BY <1>8
  <2>2. c \in found
    BY <2>1
  <2> HIDE DEF found
  <2>3. c[2] \in DOMAIN byPlayer'
    BY <1>5, <2>2
  <2>4. c[2] \notin Stale(view.active, view.at - TTL) /\ c[2] \in DOMAIN byPlayer
        /\ byPlayer'[c[2]].at = byPlayer[c[2]].at
    BY <1>3, <2>3
  <2>5. c[2] \in view.active /\ byPlayer[c[2]].at >= view.at - TTL
    BY <1>6, <2>4, PresenceNumbers DEF Stale
  <2> QED
    BY <2>1, <2>4, <2>5
<1>11. ASSUME ~answer'.truncated, NEW p \in view.active \cap DOMAIN byPlayer,
              byPlayer[p].at >= view.at - TTL, byPlayer[p].spot \in view.viewport
       PROVE  \E a \in answer'.players: a.player = p
  <2>1. p \notin Stale(view.active, view.at - TTL)
    BY <1>6, <1>11, PresenceNumbers DEF Stale
  <2>2. p \in DOMAIN byPlayer' /\ byPlayer'[p] = byPlayer[p]
    BY <1>3, <1>4, <2>1
  <2> DEFINE c == <<Chunk[byPlayer'[p].spot], p>>
  <2>3. c \in chunks' /\ c[2] = p /\ c[1] = Chunk[byPlayer[p].spot]
    BY <2>2 DEF IndexTypes
  <2>4. c \in chunks
    BY <2>2 DEF PresenceInv, IndexTypes
  <2> HIDE DEF c
  <2>5. c \in found
    BY <1>11, <2>2, <2>3, <2>4 DEF Listed
  <2> HIDE DEF found
  <2>6. c \in s
    BY <1>1, <1>7, <1>11, <2>5
  <2>7. [player |-> c[2], chunk |-> c[1], at |-> byPlayer'[c[2]].at] \in answer'.players
    BY <1>8, <2>6
  <2> QED
    BY <2>3, <2>7
<1> QED
  BY <1>9, <1>10, <1>11 DEF ResponseStep

LEMMA ResponseHolds == PresenceInv /\ [PresenceNext]_presenceVars => ResponseStep
<1> SUFFICES ASSUME PresenceInv, [PresenceNext]_presenceVars, view # NoRequest, view' = NoRequest,
                    answer' # answer
             PROVE  ResponseStep
  BY DEF ResponseStep
<1>1. Respond
  BY DEF PresenceNext, presenceVars, Post, Close, Lapse, Walk, Authorize, FailToVerify,
     UpdateLocation, Answered, LoseRequest, ReadActive, Restart, PresenceTick
<1> QED
  BY <1>1, IndexStep, RespondHolds

\* Whoever stands still is shown there, whatever was lost, late or out of order
\* before, and no response tells more or less of the others than it says
\* (src/server.rs:212).
THEOREM PresenceStaysTrue == PresenceSpec => PresenceIsTrue
<1>1. PresenceInv /\ [PresenceNext]_presenceVars => [ResponseStep]_presenceVars
  BY ResponseHolds
<1> QED
  BY <1>1, PresenceStarts, PresenceStep, PresenceIsEnough, PTL DEF PresenceSpec, PresenceIsTrue
=============================================================================
