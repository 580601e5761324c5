----------------------------- MODULE MCServices -----------------------------
(***************************************************************************)
(* What the server tells the browsers, for TLC: who is where (Presence),   *)
(* whether it can renew (Readiness), and which delegation holds            *)
(* (ConsentView).  Each is its own endpoint with its own state: a          *)
(* behaviour is of one of them.                                            *)
(***************************************************************************)
EXTENDS Readiness, Presence, ConsentView

CONSTANTS p1, p2

VARIABLES part

all == <<part, healthVars, presenceVars, consentVars>>

\* Two spots, in two chunks; a browser asks for one of them or both.
MCSpot == {1, 2}
MCChunk == [s \in MCSpot |-> IF s = 1 THEN "west" ELSE "east"]
MCViewports == {{1}, MCSpot}

\* One player and what may go wrong for long enough, or two of whom a response
\* may name one.
MCScenes ==
  {[players |-> {p1}, time |-> 6, walks |-> 1, mishaps |-> 2],
   [players |-> {p1, p2}, time |-> 2, walks |-> 1, mishaps |-> 0]}

-----------------------------------------------------------------------------
PresenceIdle ==
  /\ PresenceInit
  /\ scene.mishaps = 0 /\ spot = [p \in Player |-> 1] /\ live = [p \in Player |-> FALSE]

ServicesInit ==
  /\ HealthInit /\ ConsentInit
  /\ \/ part \in {"health", "consent"} /\ PresenceIdle
     \/ part = "presence" /\ PresenceInit

ServicesNext ==
  \/ part = "health" /\ HealthNext /\ UNCHANGED <<part, presenceVars, consentVars>>
  \/ part = "presence" /\ PresenceNext /\ UNCHANGED <<part, healthVars, consentVars>>
  \/ part = "consent" /\ ConsentNext /\ UNCHANGED <<part, healthVars, presenceVars>>

ServicesSpec == ServicesInit /\ [][ServicesNext]_all
=============================================================================
