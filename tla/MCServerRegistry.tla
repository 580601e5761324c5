--------------------------- MODULE MCServerRegistry ---------------------------
(***************************************************************************)
(* The registry for TLC, under three bounds, each wide where one question  *)
(* needs it; a behaviour is of one of them.  The cfg gives the first:      *)
(*   "output"   one request against both workers, while the output         *)
(*              changes, comes due and expires;                            *)
(*   "faults"   the same with one request, and a failure of either worker; *)
(*   "consent"  two requests delivered late and twice, and a crash.        *)
(* PLAYER_IDs are 1..n, request handlers are interchangeable.              *)
(***************************************************************************)
EXTENDS ServerRegistry, TLC

CONSTANTS h1, h2

VARIABLE bounds

Faulty == INSTANCE ServerRegistry WITH MaxSigned <- 1, MaxFaults <- 1

Consent ==
    INSTANCE ServerRegistry WITH
        Handlers <- {h1, h2}, ClockSkew <- 1, Margin <- 1, MaxVersion <- 1,
        MaxCrashes <- 1

BoundedInit ==
    \/ bounds = "output" /\ Init
    \/ bounds = "faults" /\ Faulty!Init
    \/ bounds = "consent" /\ Consent!Init

BoundedNext ==
    /\ bounds' = bounds
    /\ \/ bounds = "output" /\ Next
       \/ bounds = "faults" /\ Faulty!Next
       \/ bounds = "consent" /\ Consent!Next

BoundedSpec == BoundedInit /\ [][BoundedNext]_<<vars, bounds>>

HandlerSymmetry == Permutations({h1, h2})
=============================================================================
