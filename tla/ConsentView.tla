---------------------------- MODULE ConsentView -----------------------------
(***************************************************************************)
(* The delegation a browser shows and acts on: updateDelegation,           *)
(* refreshLeaderboard and adoptState of web/app.js against the server's    *)
(* registry (set_delegation and leaderboard of src/server.rs).  Polls      *)
(* overlap and their answers arrive in any order; a request the browser    *)
(* has given up may still reach the server.  A consent carries its version *)
(* in the registry.  Browser events have distinct times.                   *)
(***************************************************************************)
EXTENDS Integers, FiniteSets

CONSTANTS
  MaxEvents,   \* bound: requests sent and answers received by the browser
  MaxAsked     \* bound: leaderboard requests in flight

ASSUME ConsentViewAssumption == {MaxEvents, MaxAsked} \subseteq Nat

VARIABLES
  events,                 \* browser events so far
  consent,                \* the registry's consent: [version, on]
  delegationClock,        \* the server's replay clock of the delegation action
  sent,                   \* delegation requests on their way: [at, on]
  post,                   \* the one the browser waits for: [stage, at, got], or NoPost
  asked,                  \* leaderboard requests: [at, reply]
  available,              \* delegationAvailable
  listed,                 \* delegatedPlayerAssets: the consent last listed
  shown,                  \* delegatedRenewal, as the consent it stands for
  delegationObservedAt,   \* when the answer was asked for that is shown
  acked                   \* history: the version of the last change that was answered

consentVars == <<events, consent, delegationClock, sent, post, asked, available, listed, shown,
                 delegationObservedAt, acked>>

NoPost == [stage |-> "none"]
Never == -1
NoConsent == [version |-> 0, on |-> FALSE]

ConsentInit ==
  /\ events = 0
  /\ consent = NoConsent /\ listed = NoConsent /\ shown = NoConsent
  /\ delegationClock = Never /\ sent = {} /\ post = NoPost
  /\ asked = {} /\ available = FALSE /\ delegationObservedAt = Never /\ acked = 0

Event == events < MaxEvents /\ events' = events + 1

-----------------------------------------------------------------------------
(* updateDelegation; one at a time (socialPosting) *)

\* The opposite of what is shown is asked for.
Toggle ==
  /\ post = NoPost /\ available /\ Event
  /\ sent' = sent \cup {[at |-> events', on |-> ~shown.on]}
  /\ post' = [stage |-> "sent", at |-> events', got |-> NoConsent]
  /\ UNCHANGED <<consent, delegationClock, asked, available, listed, shown, delegationObservedAt, acked>>

\* set_delegation; an older request than the last authorized one is refused.
Apply(m) ==
  /\ sent' = sent \ {m}
  /\ m.at > delegationClock /\ delegationClock' = m.at
  /\ consent' = [version |-> consent.version + 1, on |-> m.on]
  /\ post' = IF post # NoPost /\ post.at = m.at THEN [post EXCEPT !.stage = "applied", !.got = consent'] ELSE post
  /\ UNCHANGED <<events, asked, available, listed, shown, delegationObservedAt, acked>>

LoseConsent(m) ==
  /\ sent' = sent \ {m}
  /\ UNCHANGED <<events, consent, delegationClock, post, asked, available, listed, shown, delegationObservedAt, acked>>

Ack ==
  /\ post # NoPost /\ post.stage = "applied" /\ Event
  /\ post' = NoPost /\ acked' = post.got.version
  /\ shown' = post.got /\ delegationObservedAt' = events'
  /\ UNCHANGED <<consent, delegationClock, sent, asked, available, listed>>

\* No answer comes; nothing changes on the screen.
GiveUp ==
  /\ post # NoPost /\ Event
  /\ post' = NoPost
  /\ UNCHANGED <<consent, delegationClock, sent, asked, available, listed, shown, delegationObservedAt, acked>>

-----------------------------------------------------------------------------
(* refreshLeaderboard *)

NotYet == [version |-> Never, on |-> FALSE]

Ask ==
  /\ Cardinality(asked) < MaxAsked /\ Event
  /\ asked' = asked \cup {[at |-> events', reply |-> NotYet]}
  /\ UNCHANGED <<consent, delegationClock, sent, post, available, listed, shown, delegationObservedAt, acked>>

ReplyConsent(p) ==
  /\ p.reply = NotYet
  /\ asked' = (asked \ {p}) \cup {[p EXCEPT !.reply = consent]}
  /\ UNCHANGED <<events, consent, delegationClock, sent, post, available, listed, shown, delegationObservedAt, acked>>

\* Mutant: answers are taken in the order they arrive.
OutdatedNever(p) == FALSE

Outdated(p) == delegationObservedAt # Never /\ p.at < delegationObservedAt

Off(seen) == [seen EXCEPT !.on = FALSE]

\* The server may offer no delegation at the time.
Receive(p) ==
  /\ p.reply # NotYet /\ Event
  /\ asked' = asked \ {p}
  /\ IF Outdated(p)
     THEN UNCHANGED <<available, listed, shown, delegationObservedAt>>
     ELSE /\ delegationObservedAt' = p.at
          /\ listed' = p.reply
          /\ available' \in BOOLEAN
          /\ shown' = IF available' THEN p.reply ELSE Off(p.reply)
  /\ UNCHANGED <<consent, delegationClock, sent, post, acked>>

PollFails(p) ==
  /\ Event
  /\ asked' = asked \ {p}
  /\ IF Outdated(p)
     THEN UNCHANGED <<available, shown, delegationObservedAt>>
     ELSE delegationObservedAt' = p.at /\ available' = FALSE /\ shown' = Off(shown)
  /\ UNCHANGED <<consent, delegationClock, sent, post, listed, acked>>

\* adoptState: another player, or one that was out of sight, is back.
IdentityChanges ==
  /\ Event
  /\ shown' = IF available THEN listed ELSE Off(listed)
  /\ UNCHANGED <<consent, delegationClock, sent, post, asked, available, listed, delegationObservedAt, acked>>

ConsentNext ==
  \/ Toggle \/ Ack \/ GiveUp
  \/ \E m \in sent: Apply(m) \/ LoseConsent(m)
  \/ Ask \/ \E p \in asked: ReplyConsent(p) \/ Receive(p) \/ PollFails(p)
  \/ IdentityChanges

ConsentSpec == ConsentInit /\ [][ConsentNext]_consentVars

-----------------------------------------------------------------------------
Consent == [version: 0..MaxEvents, on: BOOLEAN]

\* Nothing is shown or listed that the registry has not held.
ConsentTypeOK ==
  /\ events \in 0..MaxEvents /\ available \in BOOLEAN
  /\ consent \in Consent /\ listed \in Consent /\ shown \in Consent
  /\ listed.version <= consent.version /\ shown.version <= consent.version
  /\ acked \in 0..consent.version
  /\ delegationClock \in Never..events /\ delegationObservedAt \in Never..events
  /\ sent \subseteq [at: 1..events, on: BOOLEAN]
  /\ post = NoPost \/ post \in [stage: {"sent", "applied"}, at: 1..events, got: Consent]
  /\ asked \subseteq [at: 1..events, reply: Consent \cup {NotYet}] /\ Cardinality(asked) <= MaxAsked

\* No leaderboard answer takes the screen back behind a change of delegation
\* that was answered: one asked for before the change and arriving after it
\* is dropped (web/app.js:457).  A failed poll only switches off what is shown;
\* a change of identity, which reads the list of an earlier answer, can go back
\* (web/app.js:396).
AnsweredStep ==
  shown' \notin {shown, Off(shown)} /\ ~IdentityChanges => shown'.version >= acked'

\* An answered change stays on the screen, and nothing is shown or listed that
\* the registry has not held (web/app.js:457).
AnsweredChangesStayShown == []ConsentTypeOK /\ [][AnsweredStep]_consentVars
=============================================================================
