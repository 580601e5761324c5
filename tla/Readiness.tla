----------------------------- MODULE Readiness ------------------------------
(***************************************************************************)
(* What the server says of its own health, and who acts on it: the status  *)
(* the two workers publish (RefreshStatus, refresh_batch,                  *)
(* renew_delegated_players, run_renewal_pass of src/server.rs) and the     *)
(* browser of a player that may delegate its renewal and is due, which     *)
(* polls the leaderboard and renews by itself when the server cannot       *)
(* (refreshLeaderboard, updateDelegation and the poll loop of web/app.js). *)
(*                                                                         *)
(* Which delegation the server has and the browser shows is ConsentView's: *)
(* here an answer may list the player or not.                              *)
(***************************************************************************)
EXTENDS Integers, FiniteSets

CONSTANTS
  VerifyTime,     \* bound: between the ends of two verification passes
  BatchTime,      \* bound: one player's renewal, the wait for a pass included
  MaxAge,         \* worker_freshness_secs
  MinRenewalAge,  \* MIN_RENEWAL_FRESHNESS_SECS
  Fresh,          \* DELEGATION_FRESHNESS_MS
  Fallback,       \* OWNER_RENEWAL_FALLBACK_SECONDS
  Due, Expiry,    \* when the player's output becomes due, and when it expires
  MaxQueue,       \* bound: players due in one pass
  MaxPolls,       \* bound: unanswered requests above which the timer adds none
  MaxFaults       \* bound: failures, stalls, swings and changes, all together

ASSUME ReadinessAssumption ==
  /\ {VerifyTime, BatchTime, MaxAge, MinRenewalAge, Fresh, Fallback, MaxQueue, MaxPolls} \subseteq Nat \ {0}
  /\ {Due, Expiry, MaxFaults} \subseteq Nat
  /\ VerifyTime <= MaxAge /\ BatchTime <= MinRenewalAge

None == -1

VARIABLES
  now,
  refreshAt, error,          \* RefreshStatus.last_refresh_at, last_error
  renewalAt, renewalError,   \* RefreshStatus.last_renewal_at, last_renewal_error
  verified,   \* when the last verification pass ended
  queue,      \* players left in the renewal pass, None between two passes
  failed,     \* first_error of the pass
  worked,     \* when the renewal worker finished its last step
  stalled,    \* workers that hang
  http,       \* whether the server's HTTP side is "up", "down" or "hanging"
  polls,      \* leaderboard requests in flight: [at, reply]
  polled,     \* when the last one was sent
  observedAt, \* delegationObservedAt
  offered,    \* delegationAvailable
  delegated,  \* delegatedRenewal
  change,     \* the change of it that is under way
  player,     \* "active", "swinging" (pendingChopTxid), or "missing" (not playerActive)
  owner,      \* since when the browser itself renews, or None
  renewed,    \* the output was renewed, by anyone
  owed,       \* history: a renewal failed, and no whole pass has passed since
  trouble,    \* history: when something last failed, hung or came back
  grounds,    \* history: until when the last progress, or an answered change, may be believed
  faults

status == <<refreshAt, error, renewalAt, renewalError>>
workers == <<verified, queue, failed, worked, stalled>>
browser == <<polls, polled, observedAt, offered, delegated, change, player, owner>>
history == <<owed, trouble, grounds>>
healthVars == <<now, status, workers, http, browser, renewed, history, faults>>

Longer(a, b) == IF a > b THEN a ELSE b
Window == Longer(MaxAge, MinRenewalAge)

HealthInit ==
  /\ now = 0
  /\ refreshAt = None /\ error = FALSE /\ renewalAt = None /\ renewalError = FALSE
  /\ verified = 0 /\ queue = None /\ failed = FALSE /\ worked = 0 /\ stalled = {}
  /\ http = "up"
  /\ polls = {} /\ polled = None /\ observedAt = None /\ offered = FALSE /\ delegated = FALSE
  /\ change = "none" /\ player = "active" /\ owner = None
  /\ renewed = FALSE
  /\ owed = FALSE /\ trouble = 0 /\ grounds = Window /\ faults = 0

Fault == faults < MaxFaults /\ faults' = faults + 1

IsFresh(timestamp, age) == timestamp # None /\ now - timestamp \in 0..age

RenewalAvailable ==
  /\ ~error /\ ~renewalError
  /\ IsFresh(refreshAt, MaxAge)
  /\ IsFresh(renewalAt, Window)

Ready == ~error /\ IsFresh(refreshAt, MaxAge) /\ RenewalAvailable

-----------------------------------------------------------------------------
(* The workers *)

\* A verification pass ends, with an error if any player's verification failed.
Verify ==
  /\ "verify" \notin stalled
  /\ refreshAt' = now /\ verified' = now
  /\ \/ error' = FALSE /\ UNCHANGED <<faults, trouble>>
     \/ error' = TRUE /\ Fault /\ trouble' = now
  /\ UNCHANGED <<now, renewalAt, renewalError, queue, failed, worked, stalled, http, browser, renewed, owed, grounds>>

StartPass ==
  /\ "renew" \notin stalled /\ queue = None
  /\ queue' \in 0..MaxQueue /\ failed' = FALSE
  /\ UNCHANGED <<now, status, verified, worked, stalled, http, browser, renewed, history, faults>>

Advance == grounds' = IF owed' THEN grounds ELSE now + Window

\* The browser's player, or another, is renewed.
Renew ==
  /\ "renew" \notin stalled /\ queue > 0
  /\ queue' = queue - 1 /\ worked' = now
  /\ renewalAt' = IF failed THEN renewalAt ELSE now
  /\ renewed' \in {renewed, renewed \/ now >= Due}
  /\ owed' = owed /\ Advance
  /\ UNCHANGED <<now, refreshAt, error, renewalError, verified, failed, stalled, http, browser, trouble, faults>>

\* Mutant: a failure is kept until the pass ends.
FailQuietly ==
  /\ "renew" \notin stalled /\ queue > 0 /\ Fault
  /\ queue' = queue - 1 /\ worked' = now /\ failed' = TRUE
  /\ owed' = TRUE /\ trouble' = now
  /\ UNCHANGED <<now, status, verified, stalled, http, browser, renewed, grounds>>

\* The failure is published at once, however long the queue still is.
Fail ==
  /\ "renew" \notin stalled /\ queue > 0 /\ Fault
  /\ queue' = queue - 1 /\ worked' = now /\ failed' = TRUE
  /\ renewalError' = TRUE
  /\ owed' = TRUE /\ trouble' = now
  /\ UNCHANGED <<now, refreshAt, error, renewalAt, verified, stalled, http, browser, renewed, grounds>>

\* A player that is no longer due, or has revoked, is passed over.
Skip ==
  /\ "renew" \notin stalled /\ queue > 0
  /\ queue' = queue - 1
  /\ UNCHANGED <<now, status, verified, failed, worked, stalled, http, browser, renewed, history, faults>>

\* run_renewal_pass; writing the registry is the pass's last step and may fail.
EndPass ==
  /\ "renew" \notin stalled /\ queue = 0
  /\ queue' = None /\ failed' = FALSE /\ worked' = now
  /\ \/ /\ ~failed
        /\ renewalAt' = now /\ renewalError' = FALSE
        /\ owed' = FALSE /\ Advance /\ UNCHANGED <<faults, trouble>>
     \/ /\ IF failed THEN UNCHANGED faults ELSE Fault
        /\ renewalError' = TRUE /\ UNCHANGED <<renewalAt, grounds>>
        /\ owed' = TRUE /\ trouble' = now
  /\ UNCHANGED <<now, refreshAt, error, verified, stalled, http, browser, renewed>>

Stall(w) ==
  /\ w \notin stalled /\ Fault
  /\ stalled' = stalled \cup {w} /\ trouble' = now
  /\ UNCHANGED <<now, status, verified, queue, failed, worked, http, browser, renewed, owed, grounds>>

Resume(w) ==
  /\ w \in stalled
  /\ stalled' = stalled \ {w} /\ trouble' = now
  /\ verified' = IF w = "verify" THEN now ELSE verified
  /\ worked' = IF w = "renew" THEN now ELSE worked
  /\ UNCHANGED <<now, status, queue, failed, http, browser, renewed, owed, grounds, faults>>

Unplug(how) ==
  /\ http = "up" /\ Fault
  /\ http' = how /\ trouble' = now
  /\ UNCHANGED <<now, status, workers, browser, renewed, owed, grounds>>

\* A server that hung answers again, late.
Answer ==
  /\ http = "hanging" /\ http' = "up"
  /\ UNCHANGED <<now, status, workers, browser, renewed, history, faults>>

-----------------------------------------------------------------------------
(* The browser *)

\* A poll every interval, whatever became of the earlier ones.
Poll ==
  /\ polled # now /\ Cardinality(polls) < MaxPolls
  /\ polls' = polls \cup {[at |-> now, reply |-> "none"]} /\ polled' = now
  /\ UNCHANGED <<now, status, workers, http, observedAt, offered, delegated, change, player, owner,
                 renewed, history, faults>>

Reply(p) ==
  /\ http = "up" /\ p.reply = "none"
  /\ polls' = (polls \ {p}) \cup {[p EXCEPT !.reply = IF RenewalAvailable THEN "available" ELSE "unavailable"]}
  /\ UNCHANGED <<now, status, workers, http, polled, observedAt, offered, delegated, change, player,
                 owner, renewed, history, faults>>

\* Answers and failures older than what was last observed are dropped.
Observe(p) ==
  /\ p.reply # "none" \/ http = "down"
  /\ polls' = polls \ {p}
  /\ IF observedAt # None /\ p.at < observedAt
     THEN UNCHANGED <<observedAt, offered, delegated>>
     ELSE /\ observedAt' = p.at /\ offered' = (p.reply = "available")
          /\ delegated' \in {FALSE, offered'}
  /\ UNCHANGED <<now, status, workers, http, polled, change, player, owner, renewed, history, faults>>

\* updateDelegation: its button is shown while the server offers it.
Change ==
  /\ offered /\ change = "none" /\ player # "missing" /\ Fault
  /\ change' = IF delegated THEN "disable" ELSE "enable"
  /\ UNCHANGED <<now, status, workers, http, polls, polled, observedAt, offered, delegated, player,
                 owner, renewed, history>>

\* The server accepts a change whatever its workers do, and the browser takes the
\* answer for an observation of its own, before it asks again.  (The next change
\* would wait for that request, and does not here.)
Changed ==
  /\ change # "none" /\ http = "up"
  /\ delegated' = (change = "enable") /\ observedAt' = now /\ change' = "none"
  /\ polls' = polls \cup {[at |-> now, reply |-> "none"]}
  /\ grounds' = Longer(grounds, now)
  /\ UNCHANGED <<now, status, workers, http, polled, offered, player, owner, renewed, owed, trouble, faults>>

\* It is refused, or the server is gone.
ChangeFails ==
  /\ change # "none" /\ http # "hanging"
  /\ change' = "none"
  /\ UNCHANGED <<now, status, workers, http, polls, polled, observedAt, offered, delegated, player,
                 owner, renewed, history, faults>>

\* A swing is submitted and not resolved yet, or the player's state is out of sight.
Hinder(how) ==
  /\ player = "active" /\ Fault
  /\ player' = how
  /\ UNCHANGED <<now, status, workers, http, polls, polled, observedAt, offered, delegated, change,
                 owner, renewed, history>>

Recover ==
  /\ player # "active" /\ player' = "active"
  /\ UNCHANGED <<now, status, workers, http, polls, polled, observedAt, offered, delegated, change,
                 owner, renewed, history, faults>>

\* Mutant: what was observed once is believed for ever.
BelievesServerForever == delegated /\ observedAt # None /\ Expiry - now > Fallback

BelievesServer ==
  /\ delegated
  /\ observedAt # None /\ now - observedAt < Fresh
  /\ Expiry - now > Fallback

OwnerShould ==
  /\ player = "active" /\ ~renewed /\ owner = None
  /\ now \in Due..Expiry - 1 /\ ~BelievesServer

StartOwner ==
  /\ OwnerShould
  /\ owner' = now
  /\ UNCHANGED <<now, status, workers, http, polls, polled, observedAt, offered, delegated, change,
                 player, renewed, history, faults>>

\* The browser's own batch ends, with the output renewed or not.
EndOwner ==
  /\ owner # None
  /\ owner' = None
  /\ \/ renewed' = TRUE /\ UNCHANGED faults
     \/ Fault /\ UNCHANGED renewed
  /\ UNCHANGED <<now, status, workers, http, polls, polled, observedAt, offered, delegated, change,
                 player, history>>

-----------------------------------------------------------------------------
\* Time passes when everything that has its time has happened: passes and
\* renewals that do not hang, the browser's poll and its check, and answers
\* (a hanging server gives none).
Tick ==
  /\ now < Expiry /\ now' = now + 1
  /\ "verify" \notin stalled => now - verified < VerifyTime
  /\ "renew" \notin stalled => queue # None /\ now - worked < BatchTime
  /\ polled = now \/ Cardinality(polls) >= MaxPolls
  /\ http # "hanging" => change = "none" /\ \A p \in polls: p.at = now
  /\ ~OwnerShould
  /\ owner # None => now - owner < BatchTime
  /\ UNCHANGED <<status, workers, http, browser, renewed, history, faults>>

HealthNext ==
  \/ Verify \/ StartPass \/ Renew \/ Fail \/ Skip \/ EndPass
  \/ \E w \in {"verify", "renew"}: Stall(w) \/ Resume(w)
  \/ \E how \in {"down", "hanging"}: Unplug(how)
  \/ Answer
  \/ Poll \/ Change \/ Changed \/ ChangeFails \/ Recover \/ StartOwner \/ EndOwner
  \/ \E how \in {"swinging", "missing"}: Hinder(how)
  \/ \E p \in polls: Reply(p) \/ Observe(p)
  \/ Tick

HealthSpec == HealthInit /\ [][HealthNext]_healthVars

-----------------------------------------------------------------------------
HealthTypeOK ==
  /\ now \in 0..Expiry
  /\ {refreshAt, renewalAt, polled, observedAt, owner} \subseteq None..now
  /\ {error, renewalError, failed, offered, delegated, renewed, owed} \subseteq BOOLEAN
  /\ queue \in None..MaxQueue
  /\ queue # None /\ failed => renewalError
  /\ change \in {"none", "enable", "disable"} /\ player \in {"active", "swinging", "missing"}
  /\ stalled \subseteq {"verify", "renew"} /\ http \in {"up", "down", "hanging"}
  /\ polls \subseteq [at: 0..now, reply: {"none", "available", "unavailable"}]

\* After something went wrong and is over, the server is ready again as soon as
\* the passes it met are through, and stays ready through any queue ("Each
\* completed player renewal advances progress during a long queue",
\* mainnet/README.md:356).
HealthyMeansReady ==
  stalled = {} /\ now - trouble > Longer(VerifyTime, (MaxQueue + 1) * BatchTime) => Ready

\* From a failed renewal until a later pass has succeeded as a whole, the
\* server does not offer delegation (src/server.rs:1376-1381, 1396-1404).
FailureIsShown == owed => ~RenewalAvailable

\* Until a failure or a stall is over the server offers no delegation, and after it
\* the server says that it is ready and stays so (src/server.rs:294).
HealthIsTrue == HealthTypeOK /\ HealthyMeansReady /\ FailureIsShown

\* An output that is due is not left to a server that makes no progress: its owner's
\* browser, unless it waits for a swing to be resolved or does not see its player,
\* renews the output once the last progress, what was observed of it, and the last
\* answered change of the delegation are older than their windows, whether the workers
\* fail, hang, or the server answers nothing any more (README.md:286, 295).
OwnersTakeOver ==
  /\ player = "active" /\ ~renewed /\ now \in Due..Expiry - 1
  /\ now - grounds >= Fresh
  => OwnerShould \/ owner # None
=============================================================================
