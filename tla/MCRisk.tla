------------------------------- MODULE MCRisk -------------------------------
(***************************************************************************)
(* The risk engine in one run: sys chooses the mission of the              *)
(* configuration, whose chain is written while it is assessed and the      *)
(* assessments are recorded; missions that trade with the same merchants;  *)
(* or the scorer walked up its ladders.                                    *)
(***************************************************************************)
EXTENDS RiskEngine

CONSTANTS mia, mel,   \* merchants
          Trading     \* missions that share them

MCRegistry == mia :> [known |-> TRUE, trust |-> 700] @@ mel :> [known |-> FALSE, trust |-> 0]

Row(decision, amount, selected, authorized, invalid) ==
    [decision |-> decision, amount |-> amount, hard |-> 10, soft |-> 5, quantity |-> 1, selected |-> selected,
     authorized |-> authorized, offers |-> 2, invalid |-> invalid]

Violation(reason, by, claimed) == [reason_code |-> reason, by |-> by, claimed |-> claimed]
Left(r, violations) == [row |-> r, violations |-> violations]

(* Small and large purchases; a purchase over the ceiling; nothing to buy; *)
(* mel speaking in mia's name and trying to write the user's policy; a     *)
(* refusal to bind, which leaves a decision and no authorization.          *)
AllAdmissions ==
    {Left(Row("ALLOW", 2, mia, TRUE, 0), <<>>),
     Left(Row("REQUIRE_APPROVAL", 8, mia, TRUE, 1),
          <<Violation("MERCHANT_IDENTITY_MISMATCH", mel, mia)>>),
     Left(Row("ALLOW", 3, mel, TRUE, 0), <<Violation("AUTHORITY_ESCALATION", mel, mia)>>),
     Left(Row("DENY", 12, mia, FALSE, 0), <<>>),
     Left(Row("DENY", None, None, FALSE, 2), <<>>),
     Left(Row("ALLOW", 4, mia, FALSE, 0), <<Violation("BIND_REFUSED_OFFER_CHANGED", None, None)>>)}

Traded == {p \in AllAdmissions : p.row.authorized}
Watched == {p \in AllAdmissions : p.row.invalid > 0 \/ p.row.decision = "DENY" \/ ~p.row.authorized}

Kind(type, reason) == [type |-> type, reason_code |-> reason]
MCKinds ==
    {Kind("AUTHORIZATION_REPLAY_DETECTED", None), Kind("PAYMENT_PROVIDER_TIMEOUT", None),
     Kind("PAYMENT_PROVIDER_TIMEOUT", "PROVIDER_RESPONSE_MISMATCH"), Kind("DUPLICATE_WEBHOOK_IGNORED", None)}

----------------------------------------------------------------------------
(* The scorer's features, each with the values at and around its ramp.     *)
Counts(n) == [i \in 1..(n + 1) |-> Value((i - 1) * ONE)]
Flag == <<Unavailable("NO_SELECTED_MERCHANT"), Value(ONE), Value(0)>>
Ratio(why, lo, mid, hi) == <<Unavailable(why), Value(lo), Value(mid), Value(hi + 1)>>

MCLadders ==
    [merchant_identity_mismatch_events     |-> Counts(2),
     authorization_replay_attempts         |-> Counts(2),
     transaction_binding_failures          |-> Counts(1),
     audit_chain_valid                     |-> <<Value(ONE), Value(0)>>,
     merchant_authority_escalation_events  |-> Counts(3),
     mission_authority_escalation_attempts |-> Counts(2),
     provider_response_mismatch_events     |-> Counts(2),
     idempotency_conflict_events           |-> Counts(1),
     merchant_known                        |-> Flag,
     merchant_trust                        |-> <<Unavailable("NO_SELECTED_MERCHANT"), Value(900), Value(799), Value(400), Value(0)>>,
     amount_to_hard_limit_ratio            |-> Ratio("NO_POLICY_DECISION", 750, 751, 1000),
     merchant_failed_payment_ratio         |-> Ratio("INSUFFICIENT_HISTORY", 200, 400, 600),
     payment_attempts                      |-> <<Unavailable("NO_PAYMENT_INTENT")>> \o Tail(Counts(5)),
     provider_timeout_events               |-> Counts(2),
     amount_vs_merchant_median_ratio       |-> Ratio("INSUFFICIENT_HISTORY", 1500, 2000, 3000),
     amount_to_soft_budget_ratio           |-> Ratio("NO_POLICY_DECISION", 1000, 1250, 1500),
     authorization_lifetime_used_ratio     |-> Ratio("NO_AUTHORIZATION", 800, 900, 1000),
     webhook_anomaly_events                |-> Counts(3),
     reconciliation_events                 |-> Counts(3),
     invalid_offer_ratio                   |-> Ratio("NO_OFFERS", 340, 500, 999)]

----------------------------------------------------------------------------
VARIABLES sys, rung, verdict

Market == INSTANCE RiskEngine
            WITH Missions <- Trading, Admissions <- Traded, Kinds <- {}, Verbs <- {"GET"}, MaxEvents <- 0,
                 MaxPayments <- 1, MaxAttempts <- 1, MaxAltered <- 0, MaxClock <- 0,
                 MaxAssessments <- 1
Ladder == INSTANCE RiskLadder WITH Ladders <- MCLadders, MaxWorse <- 3

NoEngine ==
    /\ row = << >> /\ admitted = <<>> /\ intent = << >> /\ opened = <<>>
    /\ ledger = <<>> /\ altered = {} /\ clock = 0 /\ reader = << >> /\ reported = << >>

SumInit ==
    \/ sys = "findings" /\ Init /\ Ladder!Init
    \/ sys = "market" /\ Market!Init /\ Ladder!Init
    \/ sys = "ladder" /\ NoEngine /\ Ladder!Init

SumNext ==
    \/ sys = "findings" /\ Next /\ UNCHANGED <<sys, rung, verdict>>
    \/ sys = "market" /\ Market!Next /\ UNCHANGED <<sys, rung, verdict>>
    \/ sys = "ladder" /\ Ladder!Next /\ UNCHANGED <<sys, vars>>

SumSpec == SumInit /\ [][SumNext]_<<sys, vars, rung, verdict>>

(* The history an assessment compares with is other missions' own.         *)
(* (features.py, anomaly.py)                                               *)
HistoryFair == sys = "market" => Market!NoInventedHistory

(* A lasting finding is reported again, and advice does not feed on advice.*)
(* (features.py, engine.py)                                                *)
FindingsKept == sys = "findings" => FindingsPersist

(* Every observation getting worse raises the index and the band or leaves *)
(* them, and the tiers read as they are documented. (config.py,            *)
(* heuristic.py)                                                           *)
ScoreMonotone == [](sys = "ladder" => Ladder!Calibrated) /\ Ladder!MoreNeverLess
=============================================================================
