----------------------------- MODULE RiskLadder -----------------------------
(***************************************************************************)
(* The scorer walked one observation at a time: every feature a rule reads *)
(* has a ladder of values ordered by risk, a step takes one feature one    *)
(* rung up, and the properties compare what the scorer says before and     *)
(* after.  This is what tests/test_risk_properties.py samples.             *)
(***************************************************************************)
EXTENDS RiskScoring

CONSTANTS Ladders,    \* scored feature -> its values from harmless to risky, an unmeasured one first or nowhere
          MaxWorse    \* bound: features off their lowest rung at the same time

VARIABLES rung,       \* feature -> the rung it is on
          verdict     \* what the scorer says of it

vars == <<rung, verdict>>

ScoredFeatures == {FACTOR_RULES[i].feature : i \in DOMAIN FACTOR_RULES}

Observed(at) == [f \in DOMAIN at |-> Ladders[f][at[f]]]

Init ==
    /\ rung = [f \in ScoredFeatures |-> 1]
    /\ verdict = Scored(Observed(rung))

Worsen(f) ==
    /\ rung[f] < Len(Ladders[f])
    /\ rung' = [rung EXCEPT ![f] = @ + 1]
    /\ verdict' \in {Scored(features) : features \in {Observed(rung')}}

Next ==
    LET worse == {f \in DOMAIN rung : rung[f] > 1}
    IN  \E f \in IF Cardinality(worse) < MaxWorse THEN DOMAIN rung ELSE worse : Worsen(f)

Spec == Init /\ [][Next]_vars

----------------------------------------------------------------------------
(* The calibration the tiers are documented with (config.py, WEAK to       *)
(* SEVERE): one full SEVERE signal reads HIGH and two read CRITICAL, one   *)
(* full STRONG signal reads MEDIUM and two read HIGH, one MODERATE or WEAK *)
(* concern cannot leave LOW alone, and three MODERATE ones alone reach     *)
(* MEDIUM and not HIGH.                                                    *)
TiersReadAsWritten ==
    LET factors   == {verdict.factors[i] : i \in DOMAIN verdict.factors}
        Full(w)   == Cardinality({f \in factors : f.weight = w /\ f.contribution = w * ONE})
        level     == BAND_ORDER[verdict.band]
        alone     == Cardinality(factors) = 1
    IN  /\ Full(SEVERE) >= 1 => level >= BAND_ORDER.HIGH
        /\ Full(SEVERE) >= 2 => level = BAND_ORDER.CRITICAL
        /\ Full(STRONG) >= 1 => level >= BAND_ORDER.MEDIUM
        /\ Full(STRONG) >= 2 => level >= BAND_ORDER.HIGH
        /\ alone /\ (\A f \in factors : f.weight <= MODERATE) => level = BAND_ORDER.LOW
        /\ Cardinality(factors) = 3 /\ Full(MODERATE) = 3 => level = BAND_ORDER.MEDIUM

(* One fact is scored once (heuristic.py, requires_feature_true): a        *)
(* merchant that is not in the registry has trust zero by construction, so *)
(* it is never charged for being unknown and for its low trust at once.    *)
OneFactOnce ==
    ~ {"MERCHANT_UNKNOWN", "MERCHANT_TRUST_BELOW_PREFERRED"} \subseteq
          {verdict.factors[i].code : i \in DOMAIN verdict.factors}

(* All along the ladders the tiers read as written, no fact is scored      *)
(* twice, and the engine says PROCEED exactly below the threshold at which *)
(* the evaluation harness counts a case as flagged (config.py,             *)
(* review_threshold).                                                      *)
Calibrated ==
    /\ TiersReadAsWritten /\ OneFactOnce
    /\ verdict.recommendation = "PROCEED" <=> verdict.index < BandConfig.review_threshold

(* "More of a risky thing never contributes less risk" (config.py, ramp    *)
(* and heuristic.py, Shape): whatever else was observed, one observation   *)
(* getting worse, or being measured at all, lowers neither the index nor   *)
(* the band the reader is shown.                                           *)
MoreNeverLess ==
    [][/\ verdict'.index >= verdict.index
       /\ BAND_ORDER[verdict'.band] >= BAND_ORDER[verdict.band]]_vars
=============================================================================
