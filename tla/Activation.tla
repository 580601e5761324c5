----------------------------- MODULE Activation -----------------------------
(***************************************************************************)
(* Creating a player from a deposit: activate_inner, recover_activation    *)
(* and resume_activation_inner (src/web_app.rs) with resume_tx and what it *)
(* calls (src/txbuild.rs).  The profile in the browser's storage holds the *)
(* PLAYER_ID and, until the activation is seen settled, the journal: the   *)
(* signed transaction itself.  One page writes (the Web Lock of app.js).   *)
(*                                                                         *)
(* A deposit determines its activation, so a deposit names the transaction *)
(* and the PLAYER_ID it issues.  Every await is a step, and the page may   *)
(* be closed at each of them.                                              *)
(***************************************************************************)
EXTENDS Naturals, FiniteSets

CONSTANTS
  Deposit,           \* wallet outputs of exactly the activation's value
  FinalizeAttempts,  \* attempts of finalize_checkpoints: 3 in the code
  None

ASSUME ActivationAssumption ==
  /\ None \notin Deposit /\ FinalizeAttempts \in Nat \ {0}

VARIABLES
  pc,        \* where the page is
  mem,       \* the profile of the page
  disk,      \* the profile in the browser's storage
  tries,     \* attempts to finalize
  inflight,  \* requests on their way to arkd
  arrived,   \* deposits the indexer lists
  lost,      \* deposits another transaction spent, or that were swept
  accepted,  \* arkd: activations cosigned and not finalized
  final,     \* arkd: activations finalized
  shown,     \* indexer: activations whose output it shows
  spent      \* indexer: deposits it shows as spent or swept

vars == <<pc, mem, disk, tries, inflight, arrived, lost, accepted, final, shown, spent>>
external == <<inflight, arrived, lost, accepted, final, shown, spent>>

Request == [kind: {"submit", "finalize"}, tx: Deposit]
Submit(d) == [kind |-> "submit", tx |-> d]
Finalize(d) == [kind |-> "finalize", tx |-> d]

Profile == [asset: Deposit \cup {None}, journal: Deposit \cup {None}]
NoProfile == [asset |-> None, journal |-> None]

Stages == {"saving", "looking", "asking", "checking", "submitting", "finalizing", "waiting",
           "clearing"}

Init ==
  /\ pc = "closed"
  /\ mem = NoProfile
  /\ disk = NoProfile
  /\ tries = 0
  /\ inflight = {}
  /\ arrived = {} /\ lost = {}
  /\ accepted = {} /\ final = {}
  /\ shown = {} /\ spent = {}

Goto(where) == pc' = where

-----------------------------------------------------------------------------
\* A page is opened: WoodlandApp::init takes the stored profile.
Open ==
  /\ pc = "closed"
  /\ Goto("ready")
  /\ mem' = disk
  /\ UNCHANGED <<disk, tries, external>>

Close ==
  /\ pc # "closed"
  /\ Goto("closed")
  /\ mem' = NoProfile
  /\ UNCHANGED <<disk, tries, external>>

\* app.js stores the profile after every action, whatever came of it.
PersistProfile ==
  /\ pc = "ready"
  /\ disk' = mem
  /\ UNCHANGED <<pc, mem, tries, external>>

Available == arrived \ spent

\* Mutant: a new activation replaces the PLAYER_ID of the profile.
ChooseAnew(d) ==
  /\ pc = "ready" /\ mem.journal = None
  /\ Available = {d}
  /\ mem' = [asset |-> d, journal |-> d]
  /\ Goto("saving")
  /\ UNCHANGED <<disk, tries, external>>

\* activate_inner.  sync_player may not show a player that exists: its output
\* may be spent and the successor not indexed.  A profile that names a PLAYER_ID
\* takes no other.
Choose(d) ==
  /\ pc = "ready" /\ mem.journal = None
  /\ Available = {d} /\ mem.asset \in {None, d}
  /\ mem' = [asset |-> d, journal |-> d]
  /\ Goto("saving")
  /\ UNCHANGED <<disk, tries, external>>

Resume ==
  /\ pc = "ready" /\ mem.journal # None
  /\ Goto("saving")
  /\ UNCHANGED <<mem, disk, tries, external>>

-----------------------------------------------------------------------------
(***************************************************************************)
(* resume_activation_inner.  An error at any stage, and any outcome but    *)
(* Finalized, leaves the journal for the next attempt.                     *)
(***************************************************************************)
GiveUp ==
  /\ pc \in Stages
  /\ Goto("ready")
  /\ UNCHANGED <<mem, disk, tries, external>>

Save ==
  /\ pc = "saving"
  /\ disk' = mem
  /\ Goto("looking")
  /\ UNCHANGED <<mem, tries, external>>

\* find_settled_vtxo; resume_tx looks once more at the same output.
Look ==
  /\ pc = "looking"
  /\ Goto(IF mem.journal \in shown THEN "clearing" ELSE "asking")
  /\ UNCHANGED <<mem, disk, tries, external>>

\* get_pending_txs by a proof of ownership of the deposit.
Ask ==
  /\ pc = "asking"
  /\ IF mem.journal \in accepted
     THEN Goto("finalizing") /\ tries' = 0
     ELSE Goto("checking") /\ UNCHANGED tries
  /\ UNCHANGED <<mem, disk, external>>

\* The deposit must still be indexed, unspent and live.
Check ==
  /\ pc = "checking"
  /\ IF mem.journal \in Available
     THEN Goto("submitting") /\ inflight' = inflight \cup {Submit(mem.journal)}
     ELSE Goto("ready") /\ UNCHANGED inflight
  /\ UNCHANGED <<mem, disk, tries, arrived, lost, accepted, final, shown, spent>>

\* submit_prepared: arkd cosigns a new transaction once.  The answer, verified,
\* reaches the page if it is still waiting, or is lost.
LandSubmit(d, answered) ==
  /\ Submit(d) \in inflight
  /\ d \notin accepted \cup final \cup lost
  /\ answered => pc = "submitting" /\ mem.journal = d
  /\ inflight' = inflight \ {Submit(d)}
  /\ accepted' = accepted \cup {d}
  /\ IF answered THEN Goto("finalizing") /\ tries' = 0 ELSE UNCHANGED <<pc, tries>>
  /\ UNCHANGED <<mem, disk, arrived, lost, final, shown, spent>>

\* arkd refuses what it has already seen, or the request is lost.  The page
\* learns of it through GiveUp: definitive or not, the journal stays.
DropRequest(r) ==
  /\ r \in inflight
  /\ inflight' = inflight \ {r}
  /\ UNCHANGED <<pc, mem, disk, tries, arrived, lost, accepted, final, shown, spent>>

\* finalize_checkpoints: the next attempt starts when the last one failed.
AttemptFinalize ==
  /\ pc = "finalizing" /\ tries < FinalizeAttempts
  /\ tries' = tries + 1
  /\ inflight' = inflight \cup {Finalize(mem.journal)}
  /\ UNCHANGED <<pc, mem, disk, arrived, lost, accepted, final, shown, spent>>

LandFinalize(d, answered) ==
  /\ Finalize(d) \in inflight
  /\ answered => pc = "finalizing" /\ mem.journal = d
  /\ inflight' = inflight \ {Finalize(d)}
  /\ accepted' = accepted \ {d}
  /\ final' = final \cup {d}
  /\ IF answered THEN Goto("waiting") ELSE UNCHANGED pc
  /\ UNCHANGED <<mem, disk, tries, arrived, lost, shown, spent>>

\* wait_for_settled_vtxo
Wait ==
  /\ pc = "waiting" /\ mem.journal \in shown
  /\ Goto("clearing")
  /\ UNCHANGED <<mem, disk, tries, external>>

\* The journal is taken out; a profile that cannot be written gets it back.
Clear ==
  /\ pc = "clearing"
  /\ Goto("ready")
  /\ mem' = [mem EXCEPT !.journal = None]
  /\ disk' = mem'
  /\ UNCHANGED <<tries, external>>

-----------------------------------------------------------------------------
(***************************************************************************)
(* The wallet's owner, arkd and its indexer.                               *)
(***************************************************************************)
Arrive(d) ==
  /\ d \notin arrived
  /\ arrived' = arrived \cup {d}
  /\ UNCHANGED <<pc, mem, disk, tries, inflight, lost, accepted, final, shown, spent>>

\* Another program with the same key spends the deposit, or it expires.
Lose(d) ==
  /\ d \in arrived \ (accepted \cup final \cup lost)
  /\ lost' = lost \cup {d}
  /\ UNCHANGED <<pc, mem, disk, tries, inflight, arrived, accepted, final, shown, spent>>

Index(d) ==
  /\ d \in final \ shown
  /\ shown' = shown \cup {d}
  /\ UNCHANGED <<pc, mem, disk, tries, inflight, arrived, lost, accepted, final, spent>>

IndexSpend(d) ==
  /\ d \in (final \cup lost) \ spent
  /\ spent' = spent \cup {d}
  /\ UNCHANGED <<pc, mem, disk, tries, inflight, arrived, lost, accepted, final, shown>>

-----------------------------------------------------------------------------
Page ==
  \/ Open \/ Close \/ PersistProfile \/ Resume \/ (\E d \in Deposit: Choose(d))
  \/ GiveUp \/ Save \/ Look \/ Ask \/ Check \/ AttemptFinalize \/ Wait \/ Clear

Environment ==
  \/ \E d \in Deposit: Arrive(d) \/ Lose(d) \/ Index(d) \/ IndexSpend(d)
  \/ \E d \in Deposit: \E answered \in BOOLEAN:
       LandSubmit(d, answered) \/ LandFinalize(d, answered)
  \/ \E r \in inflight: DropRequest(r)

Next == Page \/ Environment

Spec == Init /\ [][Next]_vars

(***************************************************************************)
(* Pages are opened and the app retries on every refresh; what is asked is *)
(* answered and the indexer catches up.  There are finitely many failures: *)
(* pages closed, answers lost, and attempts given up that could go on.     *)
(***************************************************************************)
Advance == Save \/ Look \/ Ask \/ Check \/ AttemptFinalize \/ Wait \/ Clear
Answer(d) == LandSubmit(d, TRUE) \/ LandFinalize(d, TRUE)

Failure ==
  \/ Close
  \/ GiveUp /\ ~Advance /\ ENABLED (Advance \/ \E d \in Deposit: Answer(d))
  \/ \E d \in Deposit: DropRequest(Finalize(d)) \/ (DropRequest(Submit(d)) /\ ENABLED LandSubmit(d, FALSE))
  \/ \E d \in Deposit: LandSubmit(d, FALSE) \/ LandFinalize(d, FALSE)

Fairness ==
  /\ WF_vars(Open) /\ WF_vars(Resume) /\ WF_vars(GiveUp) /\ WF_vars(Advance)
  /\ \A d \in Deposit: WF_vars(Answer(d)) /\ WF_vars(Index(d))
  /\ <>[][~Failure]_vars

-----------------------------------------------------------------------------
TypeOK ==
  /\ pc \in Stages \cup {"closed", "ready"}
  /\ mem \in Profile /\ disk \in Profile
  /\ tries \in 0..FinalizeAttempts
  /\ inflight \subseteq Request
  /\ arrived \subseteq Deposit /\ lost \subseteq arrived
  /\ accepted \subseteq arrived /\ final \subseteq arrived
  /\ shown \subseteq final /\ spent \subseteq final \cup lost

\* Activations arkd has, or may still get.
Submitted == accepted \cup final \cup {d \in Deposit: Submit(d) \in inflight}

\* Whatever was submitted can be found again by the storage alone: it is the one
\* PLAYER_ID of the profile, and its journal stays until its output is shown.
\* So no second deposit is ever turned into a player.
NothingIsForgotten ==
  \A d \in Submitted: disk.asset = d /\ (disk.journal = d \/ d \in shown)

\* Wherever the page is closed and whatever answer is lost (src/web_app.rs:1669),
\* no activation is forgotten.
ActivationsAreSound == TypeOK /\ NothingIsForgotten

\* A journaled activation gets through, however often answers are lost and pages
\* closed, unless its deposit was spent elsewhere.
ActivationCompletes ==
  \A d \in Deposit: (disk.journal = d) ~> (d \in lost \/ (d \in shown /\ disk.journal # d))
=============================================================================
