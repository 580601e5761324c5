---------------------------- MODULE RenewalFee -----------------------------
(***************************************************************************)
(* Paying for a renewal intent: BatchServices::settle_renewal and          *)
(* find_renewal_fee_funding (src/batch.rs), estimate_base_fee,             *)
(* estimate_sponsored_fee and add_fee_funding (src/renewal.rs).            *)
(*                                                                         *)
(* arkd charges by its current fee program and, while one is scheduled, by *)
(* that one too.  A program looks at the intent itself, so the fee depends *)
(* on the change that is left after the fee: it is searched for, from 0    *)
(* upward, and the search is given up after a number of rounds.            *)
(***************************************************************************)
EXTENDS Integers, FiniteSets

CONSTANTS
  Amount,      \* sats a wallet output or its change may have: 0..n
  MinChange,   \* the smallest output arkd accepts
  MaxRounds,   \* rounds of the search: 64 in the code
  Program,     \* fee programs: the fee unfunded, and by change
  Wallet,      \* the sets of outputs at the wallet's address
  Remaining,   \* seconds until the state output expires
  Unfunded

ASSUME RenewalFeeAssumption ==
  /\ Amount \subseteq Nat /\ (\A a \in Amount: 0..a \subseteq Amount)
  /\ MinChange \in Nat /\ MaxRounds \in Nat \ {0}
  /\ Program \subseteq [base: Nat, at: [Amount -> Nat]]
  /\ Wallet \subseteq SUBSET [sats: Amount, clean: BOOLEAN, live: BOOLEAN,
                              isState: BOOLEAN, remaining: Nat]
  /\ Remaining \in Nat
  /\ Unfunded \notin [sats: Amount, clean: BOOLEAN, live: BOOLEAN, isState: BOOLEAN, remaining: Nat]

VARIABLES
  stage,      \* "quote", "select", "search", then how the call goes on
  programs,   \* the programs of this connection
  wallet,     \* what the indexer lists for the wallet's address
  funding,    \* the output chosen to pay
  paid,       \* the fee tried
  round,      \* rounds done
  intent      \* the intent to be signed: its change, fee and expiry

feeVars == <<stage, programs, wallet, funding, paid, round, intent>>

\* The largest fee of the programs; an empty policy asks for nothing.
Highest(fees) == IF fees = {} THEN 0 ELSE CHOOSE f \in fees: \A g \in fees: g \leq f

BaseFee == Highest({p.base: p \in programs})

RequiredFee(change) == Highest({p.at[change]: p \in programs})

\* Wallet outputs fit to pay: never the state, never one that carries assets.
Candidates ==
  {v \in wallet: ~v.isState /\ v.clean /\ v.live /\ v.sats >= MinChange}

FeeInit ==
  /\ stage = "quote"
  /\ programs \in {S \in SUBSET Program: IsFiniteSet(S) /\ Cardinality(S) \leq 2}
  /\ wallet \in Wallet
  /\ funding = Unfunded
  /\ paid = 0
  /\ round = 0
  /\ intent = [change |-> 0, fee |-> 0, remaining |-> Remaining]

\* No fee, no funding: the intent stays the exact self-send.
QuoteFree ==
  /\ stage = "quote" /\ BaseFee = 0
  /\ stage' = "bound"
  /\ UNCHANGED <<programs, wallet, funding, paid, round, intent>>

QuoteFee ==
  /\ stage = "quote" /\ BaseFee > 0
  /\ stage' = IF Candidates = {} THEN "unfunded" ELSE "search"
  /\ funding' \in IF Candidates = {} THEN {Unfunded}
                  ELSE {v \in Candidates: \A w \in Candidates: w.sats \leq v.sats}
  /\ UNCHANGED <<programs, wallet, paid, round, intent>>

\* checked_sub and the minimum.
CanPay(fee) == fee \leq funding.sats /\ funding.sats - fee >= MinChange

\* Mutant: one short is near enough.
EnoughNearly(required, offered) == required \leq offered + 1

Enough(required, offered) == required \leq offered

\* One round of estimate_sponsored_fee.
Search ==
  /\ stage = "search" /\ round < MaxRounds
  /\ IF ~CanPay(paid)
     THEN stage' = "too poor" /\ UNCHANGED <<paid, round>>
     ELSE LET required == RequiredFee(funding.sats - paid) IN
          IF Enough(required, paid)
          THEN stage' = "fund" /\ UNCHANGED <<paid, round>>
          ELSE /\ paid' = required
               /\ round' = round + 1
               /\ UNCHANGED stage
  /\ UNCHANGED <<programs, wallet, funding, intent>>

GiveUp ==
  /\ stage = "search" /\ round = MaxRounds
  /\ stage' = "diverged"
  /\ UNCHANGED <<programs, wallet, funding, paid, round, intent>>

\* add_fee_funding: the change goes back to the same script.
Fund ==
  /\ stage = "fund"
  /\ stage' = IF CanPay(paid) THEN "bound" ELSE "too poor"
  /\ intent' = IF CanPay(paid)
               THEN [change |-> funding.sats - paid, fee |-> paid,
                     remaining |-> IF funding.remaining < Remaining THEN funding.remaining
                                   ELSE Remaining]
               ELSE intent
  /\ UNCHANGED <<programs, wallet, funding, paid, round>>

FeeNext == QuoteFree \/ QuoteFee \/ Search \/ GiveUp \/ Fund

FeeSpec == FeeInit /\ [][FeeNext]_feeVars

-----------------------------------------------------------------------------
FeeTypeOK ==
  /\ stage \in {"quote", "search", "fund", "bound", "unfunded", "too poor", "diverged"}
  /\ programs \subseteq Program
  /\ wallet \in Wallet
  /\ funding \in wallet \cup {Unfunded}
  /\ paid \in Nat
  /\ round \in 0..MaxRounds
  /\ intent \in [change: Amount, fee: Nat, remaining: Nat]

\* The intent that is signed pays what every program asks of that very intent,
\* its own change included, and the wallet loses the fee and nothing else.
FeeIsCovered ==
  stage = "bound" =>
    IF funding = Unfunded THEN BaseFee = 0
    ELSE /\ intent.change + intent.fee = funding.sats
         /\ intent.change >= MinChange
         /\ \A p \in programs: p.at[intent.change] \leq intent.fee
=============================================================================
