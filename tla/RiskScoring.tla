---------------------------- MODULE RiskScoring ----------------------------
(***************************************************************************)
(* The deterministic scorer of the advisory risk engine                    *)
(* (services/risk_engine/config.py, heuristic.py, models.py): a table of   *)
(* rules, each turning one measured feature into points, the points summed *)
(* and normalized into an index, the index read as a band and the band as  *)
(* a recommendation.                                                       *)
(*                                                                         *)
(* Numbers.  The code computes in floats.  Here a measured value is an     *)
(* integer number of thousandths, so is a fraction of a weight and so is a *)
(* weight; points and the index are their product, in millionths.  The     *)
(* quotient of a ramp is rounded down to a thousandth, which keeps the     *)
(* case the code treats specially: a fraction too small to contribute.     *)
(***************************************************************************)
EXTENDS Integers, Sequences, FiniteSets, FiniteSetsExt, TLC

ONE == 1000
POINT == ONE * ONE

----------------------------------------------------------------------------
(* Configuration.                                                          *)

WEAK == 50

MODERATE == 150

STRONG == 350

SEVERE == 600

(* Where a ramp starts and where it saturates; a count starts at zero.     *)
Graded(weight, lo, hi) == [weight |-> weight, lo |-> lo, hi |-> hi]
Counted(weight, at) == Graded(weight, 0, at * ONE)
Flagged(weight) == Graded(weight, 0, ONE)

SATURATION_POINTS == ONE

BandConfig == [medium_at |-> 250000, high_at |-> 500000, critical_at |-> 750000, review_threshold |-> 250000]

AmountConfig ==
    [amount_hard_limit  |-> Graded(MODERATE, 750, 1000),
     amount_soft_budget |-> Graded(WEAK, 1000, 1500),
     amount_anomaly     |-> Graded(MODERATE, 1500, 3000)]

MerchantConfig ==
    [merchant_trust             |-> Graded(MODERATE, 0, 800),
     merchant_unknown           |-> Flagged(STRONG),
     merchant_identity_mismatch |-> Counted(SEVERE, 1),
     merchant_escalation        |-> Counted(STRONG, 2),
     merchant_failure_ratio     |-> Graded(MODERATE, 200, 600)]

AuthorizationConfig ==
    [replay_attempt     |-> Counted(SEVERE, 1),
     binding_failure    |-> Counted(SEVERE, 1),
     mission_escalation |-> Counted(STRONG, 2),
     authorization_age  |-> Graded(WEAK, 800, 1000)]

PaymentConfig ==
    [payment_attempt      |-> Graded(MODERATE, ONE, 4 * ONE),
     provider_timeout     |-> Counted(MODERATE, 2),
     provider_mismatch    |-> Counted(STRONG, 1),
     idempotency_conflict |-> Counted(STRONG, 1),
     webhook_anomaly      |-> Counted(WEAK, 3),
     reconciliation       |-> Graded(WEAK, ONE, 3 * ONE)]

IntegrityConfig ==
    [audit_integrity |-> Flagged(SEVERE),
     invalid_offer   |-> Graded(WEAK, 340, 1000)]

RiskConfig == AmountConfig @@ MerchantConfig @@ AuthorizationConfig @@ PaymentConfig @@ IntegrityConfig

(* ramp refuses a degenerate ramp: in the configuration the system uses    *)
(* none is.                                                                *)
ASSUME RampsOrdered == \A f \in DOMAIN RiskConfig : RiskConfig[f].lo < RiskConfig[f].hi

ramp(value, lo, hi) ==
    IF value <= lo THEN 0 ELSE IF value >= hi THEN ONE ELSE ((value - lo) * ONE) \div (hi - lo)

----------------------------------------------------------------------------
(* Features: where each comes from, and whether the record tells of        *)
(* something an untrusted party did.                                       *)

Read(source) == [source |-> source, untrusted |-> FALSE]
Told == [source |-> "AUDIT_LEDGER", untrusted |-> TRUE]

FEATURE_SPECS ==
    [amount_to_hard_limit_ratio            |-> Read("POLICY_DECISION"),
     amount_to_soft_budget_ratio           |-> Read("POLICY_DECISION"),
     requested_amount_inr                  |-> Read("POLICY_DECISION"),
     quantity                              |-> Read("MISSION_ROW"),
     merchant_trust                        |-> Read("MERCHANT_REGISTRY"),
     merchant_known                        |-> Read("MERCHANT_REGISTRY"),
     merchant_identity_mismatch_events     |-> Told,
     merchant_authority_escalation_events  |-> Told,
     merchant_failed_payment_ratio         |-> Read("PAYMENT_INTENT_ROW"),
     merchant_payment_observations         |-> Read("PAYMENT_INTENT_ROW"),
     authorization_replay_attempts         |-> Told,
     transaction_binding_failures          |-> Told,
     mission_authority_escalation_attempts |-> Told,
     authorization_lifetime_used_ratio     |-> Read("AUTHORIZATION_ROW"),
     authorization_age_seconds             |-> Read("AUTHORIZATION_ROW"),
     payment_attempts                      |-> Read("PAYMENT_INTENT_ROW"),
     provider_timeout_events               |-> Read("AUDIT_LEDGER"),
     provider_response_mismatch_events     |-> Told,
     idempotency_conflict_events           |-> Told,
     webhook_anomaly_events                |-> Told,
     reconciliation_events                 |-> Read("AUDIT_LEDGER"),
     audit_chain_valid                     |-> Read("AUDIT_LEDGER"),
     invalid_offer_ratio                   |-> Read("MISSION_ROW"),
     amount_vs_merchant_median_ratio       |-> Read("AUTHORIZATION_ROW"),
     merchant_amount_observations          |-> Read("AUTHORIZATION_ROW")]

Features == DOMAIN FEATURE_SPECS

(* A measured value, and a value that was not measured and why.            *)
Value(v) == [available |-> TRUE, value |-> v, why |-> "measured"]
Unavailable(why) == [available |-> FALSE, value |-> 0, why |-> why]

UNAVAILABLE_REASONS == {"INSUFFICIENT_HISTORY", "NO_POLICY_DECISION", "NO_AUTHORIZATION",
                        "NO_PAYMENT_INTENT", "NO_OFFERS", "NO_SELECTED_MERCHANT"}

----------------------------------------------------------------------------
(* Rules.                                                                  *)

Rule(code, feature, shape, field) ==
    [code |-> code, feature |-> feature, shape |-> shape, field |-> field]

SECURITY_RULES == <<
    Rule("MERCHANT_IDENTITY_MISMATCH_HISTORY", "merchant_identity_mismatch_events", "COUNT", "merchant_identity_mismatch"),
    Rule("AUTHORIZATION_REPLAY_HISTORY", "authorization_replay_attempts", "COUNT", "replay_attempt"),
    Rule("TRANSACTION_BINDING_FAILURE_HISTORY", "transaction_binding_failures", "COUNT", "binding_failure"),
    Rule("AUDIT_CHAIN_INVALID", "audit_chain_valid", "ABSENT_FLAG", "audit_integrity")>>

BEHAVIOUR_RULES == <<
    Rule("MERCHANT_AUTHORITY_ESCALATION_HISTORY", "merchant_authority_escalation_events", "COUNT", "merchant_escalation"),
    Rule("MISSION_AUTHORITY_ESCALATION_ATTEMPTS", "mission_authority_escalation_attempts", "COUNT", "mission_escalation"),
    Rule("PROVIDER_RESPONSE_MISMATCH_HISTORY", "provider_response_mismatch_events", "COUNT", "provider_mismatch"),
    Rule("IDEMPOTENCY_CONFLICT_HISTORY", "idempotency_conflict_events", "COUNT", "idempotency_conflict"),
    Rule("MERCHANT_UNKNOWN", "merchant_known", "ABSENT_FLAG", "merchant_unknown")>>

CONCERN_RULES == <<
    Rule("MERCHANT_TRUST_BELOW_PREFERRED", "merchant_trust", "SHORTFALL", "merchant_trust"),
    Rule("AMOUNT_NEAR_HARD_LIMIT", "amount_to_hard_limit_ratio", "RATIO", "amount_hard_limit"),
    Rule("MERCHANT_FAILED_PAYMENT_RATIO", "merchant_failed_payment_ratio", "RATIO", "merchant_failure_ratio"),
    Rule("PAYMENT_RETRY_PRESSURE", "payment_attempts", "RATIO", "payment_attempt"),
    Rule("PROVIDER_TIMEOUT_HISTORY", "provider_timeout_events", "COUNT", "provider_timeout"),
    Rule("AMOUNT_ABOVE_MERCHANT_HISTORY_MEDIAN", "amount_vs_merchant_median_ratio", "RATIO", "amount_anomaly")>>

MILD_RULES == <<
    Rule("AMOUNT_ABOVE_SOFT_BUDGET", "amount_to_soft_budget_ratio", "RATIO", "amount_soft_budget"),
    Rule("AUTHORIZATION_NEAR_EXPIRY", "authorization_lifetime_used_ratio", "RATIO", "authorization_age"),
    Rule("WEBHOOK_ANOMALY_HISTORY", "webhook_anomaly_events", "COUNT", "webhook_anomaly"),
    Rule("RECONCILIATION_PRESSURE", "reconciliation_events", "RATIO", "reconciliation"),
    Rule("HIGH_INVALID_OFFER_RATIO", "invalid_offer_ratio", "RATIO", "invalid_offer")>>

FACTOR_RULES == SECURITY_RULES \o BEHAVIOUR_RULES \o CONCERN_RULES \o MILD_RULES

(* Mutation: a shortfall is measured from the wrong side.                  *)
Bug_ShortfallReversed(rule, observed) ==
    LET c == RiskConfig[rule.field]
    IN  CASE rule.shape = "SHORTFALL"   -> ramp(observed - c.hi, -c.hi, 0)
          [] rule.shape = "ABSENT_FLAG" -> IF observed = 0 THEN ONE ELSE 0
          [] OTHER                      -> ramp(observed, c.lo, c.hi)

(* The fraction of a rule's weight that an observation earns.  SHORTFALL   *)
(* grades the distance below the preferred level, held in hi.              *)
fraction(rule, observed) ==
    LET c == RiskConfig[rule.field]
    IN  CASE rule.shape = "SHORTFALL"   -> ramp(c.hi - observed, 0, c.hi)
          [] rule.shape = "ABSENT_FLAG" -> IF observed = 0 THEN ONE ELSE 0
          [] OTHER                      -> ramp(observed, c.lo, c.hi)

(* A rule is read only on a measured feature, and the trust shortfall only *)
(* for a merchant that is in the registry.                                 *)
applies(rule, features) ==
    /\ features[rule.feature].available
    /\ rule.code = "MERCHANT_TRUST_BELOW_PREFERRED" =>
           features.merchant_known.available /\ features.merchant_known.value # 0

Factor(rule, features) ==
    LET weight == RiskConfig[rule.field].weight
    IN  [code         |-> rule.code,
         weight       |-> weight,
         contribution |-> weight * fraction(rule, features[rule.feature].value),
         untrusted    |-> FEATURE_SPECS[rule.feature].untrusted]

(* score: the factors that moved the number, strongest first.              *)
score(features) ==
    LET Contributes(rule) == applies(rule, features) /\ Factor(rule, features).contribution > 0
        fired == SelectSeq(FACTOR_RULES, Contributes)
    IN  SortSeq([i \in DOMAIN fired |-> Factor(fired[i], features)],
                LAMBDA a, b : a.contribution > b.contribution)

raw_points(factors) == MapThenSumSet(LAMBDA i : factors[i].contribution, DOMAIN factors)

normalize(raw) == IF raw >= SATURATION_POINTS * ONE THEN POINT ELSE (raw * ONE) \div SATURATION_POINTS

BAND_ORDER == [LOW |-> 0, MEDIUM |-> 1, HIGH |-> 2, CRITICAL |-> 3]

band_for(index) ==
    IF index >= BandConfig.critical_at THEN "CRITICAL"
    ELSE IF index >= BandConfig.high_at THEN "HIGH"
    ELSE IF index >= BandConfig.medium_at THEN "MEDIUM" ELSE "LOW"

recommendation_for ==
    [LOW |-> "PROCEED", MEDIUM |-> "REVIEW", HIGH |-> "REQUIRE_STRONGER_APPROVAL", CRITICAL |-> "ESCALATE"]

(* What scoring a feature vector yields.                                   *)
Scored(features) ==
    LET factors == score(features)
        index   == normalize(raw_points(factors))
        band    == band_for(index)
    IN  [factors |-> factors, index |-> index, band |-> band, recommendation |-> recommendation_for[band]]
=============================================================================
