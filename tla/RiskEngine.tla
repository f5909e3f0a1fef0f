----------------------------- MODULE RiskEngine -----------------------------
(***************************************************************************)
(* The advisory risk engine at work (services/risk_engine/features.py,     *)
(* anomaly.py, engine.py, explain.py and apps/api/pactra/api/              *)
(* routes_risk.py).  Assessments run beside the missions they are about:   *)
(* each reads rows, then the mission's chain, then the merchant's amounts, *)
(* then its payment outcomes, then the recent violations, every SELECT     *)
(* seeing what has committed by then; a POST records its verdict as one    *)
(* more event of the chain.                                                *)
(*                                                                         *)
(* The ledger is kept as one sequence in commit order; a mission's chain   *)
(* is its own events.  What the other components write is given by Admit,  *)
(* Happens, Attempt and Settle, which leave the rows and events those      *)
(* components leave.                                                       *)
(***************************************************************************)
EXTENDS RiskScoring, SequencesExt

CONSTANTS
    Missions, Assessors,
    Registry,        \* merchant -> [known, trust]
    Admissions,      \* what admitting a mission may leave behind
    Kinds,           \* events the later life of a mission may leave behind
    Verbs,           \* GET computes an assessment, POST also records it
    None,            \* no merchant, no row, no value
    Lifetime,        \* of an authorization, in ticks of the clock
    MinHistory,      \* RiskConfig.min_history_observations
    MinPayments,     \* RiskConfig.min_merchant_payment_history
    HistoryWindow,   \* HISTORY_WINDOW, 200 in the code
    SecurityWindow,  \* SECURITY_HISTORY_WINDOW, 500 in the code
    MaxEvents, MaxPayments, MaxAttempts, MaxAltered, MaxClock, MaxAssessments   \* bounds

ASSUME ConfigBounds == MinHistory >= 2 /\ MinPayments >= 1 /\ Lifetime >= 1

VARIABLES
    row,       \* mission -> what admission left, or None
    admitted,  \* the missions in the order of admission: authorizations by issued_at
    intent,    \* mission -> its payment intent, or None
    opened,    \* the missions in the order of their intents' created_at
    ledger,    \* every committed audit event
    altered,   \* missions whose chain was edited outside the program
    clock,
    reader,    \* assessor -> the assessment it is making
    reported   \* mission -> codes every later assessment of it must report again

vars == <<row, admitted, intent, opened, ledger, altered, clock, reader, reported>>
world == <<row, admitted, intent, opened, altered, clock>>

MIN_OFFERS_FOR_RATIO == 2

Event(m, type, reason, by, claimed) ==
    [mission |-> m, type |-> type, reason_code |-> reason, by |-> by, claimed |-> claimed]

ChainOf(m) == SelectSeq(ledger, LAMBDA e : e.mission = m)

----------------------------------------------------------------------------
(* What an assessment reads.                                               *)

(* The merchant the mission settled on: the authorization's, or else the   *)
(* selected offer's.  Both are the authenticated identity.                 *)
selected_merchant(r) == r.selected

Recent(s, n) == SubSeq(s, Max({1, Len(s) - n + 1}), Len(s))

(* Mutation: the mission's own amount is part of its history.              *)
Bug_OwnAmountCounts(merchant, m) ==
    LET Prior(n) == row[n].authorized /\ row[n].selected = merchant
    IN  [i \in DOMAIN Recent(SelectSeq(admitted, Prior), HistoryWindow) |->
            row[Recent(SelectSeq(admitted, Prior), HistoryWindow)[i]].amount]

(* load_merchant_history: two SELECTs, both leaving out the mission that   *)
(* is being assessed.                                                      *)
prior_amounts(merchant, m) ==
    LET Prior(n) == n # m /\ row[n].authorized /\ row[n].selected = merchant
        window   == Recent(SelectSeq(admitted, Prior), HistoryWindow)
    IN  [i \in DOMAIN window |-> row[window[i]].amount]

prior_states(merchant, m) ==
    LET Prior(n) == n # m /\ row[n].selected = merchant
        window   == Recent(SelectSeq(opened, Prior), HistoryWindow)
    IN  [i \in DOMAIN window |-> intent[window[i]].state]

(* _merchant_violation_counts: the newest violations of any mission, those *)
(* that name this merchant as the one that authenticated.                  *)
merchant_violation_counts(events, merchant) ==
    LET window == Recent(SelectSeq(events, LAMBDA e : e.type = "SECURITY_VIOLATION"), SecurityWindow)
        Naming(reason) == Len(SelectSeq(window, LAMBDA e : e.reason_code = reason /\ e.by = merchant))
    IN  [mismatches |-> Naming("MERCHANT_IDENTITY_MISMATCH"), escalations |-> Naming("AUTHORITY_ESCALATION")]

----------------------------------------------------------------------------
(* What it makes of it.                                                    *)

empty_history == [observations |-> 0, double_median |-> 0, settled |-> 0, failed |-> 0,
                  available |-> FALSE, cold_start |-> TRUE]

(* Twice the median, so that the middle of two amounts stays an integer.   *)
DoubleMedian(s) ==
    LET sorted == SortSeq(s, <)
    IN  sorted[(Len(s) + 1) \div 2] + sorted[(Len(s) + 2) \div 2]

merchant_history(amounts, states) ==
    [observations  |-> Len(amounts),
     double_median |-> IF Len(amounts) >= MinHistory THEN DoubleMedian(amounts) ELSE 0,
     settled       |-> Len(SelectSeq(states, LAMBDA s : s = "SUCCEEDED")),
     failed        |-> Len(SelectSeq(states, LAMBDA s : s = "FAILED_TERMINAL")),
     available     |-> Len(amounts) >= MinHistory,
     cold_start    |-> amounts = <<>> /\ states = <<>>]

History(facts) ==
    IF selected_merchant(facts.row) = None THEN empty_history ELSE merchant_history(facts.amounts, facts.states)

Counted1(events, types) == Value(ONE * Len(SelectSeq(events, LAMBDA e : e.type \in types)))
Reasoned(events, types, reason) ==
    Value(ONE * Len(SelectSeq(events, LAMBDA e : e.type \in types /\ e.reason_code = reason)))

When(measured, why, value) == IF measured THEN Value(value) ELSE Unavailable(why)

amount_features(facts, history) ==
    LET r == facts.row
        Of(limit) == When(r.amount # None, "NO_POLICY_DECISION", IF r.amount = None THEN 0 ELSE (r.amount * ONE) \div limit)
    IN  [requested_amount_inr        |-> Of(ONE),
         amount_to_hard_limit_ratio  |-> Of(r.hard),
         amount_to_soft_budget_ratio |-> Of(r.soft),
         quantity                    |-> Value(r.quantity * ONE),
         merchant_amount_observations |-> Value(history.observations * ONE),
         amount_vs_merchant_median_ratio |->
             IF r.amount = None THEN Unavailable("NO_POLICY_DECISION")
             ELSE When(history.available, "INSUFFICIENT_HISTORY",
                       IF history.available THEN (2 * r.amount * ONE) \div history.double_median ELSE 0)]

merchant_features(facts, history) ==
    LET merchant == selected_merchant(facts.row)
        paid     == history.settled + history.failed
        Known(v) == When(merchant # None, "NO_SELECTED_MERCHANT", v)
    IN  [merchant_trust |-> Known(IF merchant = None THEN 0 ELSE Registry[merchant].trust),
         merchant_known |-> Known(IF merchant # None /\ Registry[merchant].known THEN ONE ELSE 0),
         merchant_payment_observations |-> Value(paid * ONE),
         merchant_failed_payment_ratio |->
             When(paid >= MinPayments, "INSUFFICIENT_HISTORY",
                  IF paid = 0 THEN 0 ELSE (history.failed * ONE) \div paid),
         merchant_identity_mismatch_events    |-> Known(facts.counts.mismatches * ONE),
         merchant_authority_escalation_events |-> Known(facts.counts.escalations * ONE)]

(* The moment of an assessment is taken before its SELECTs, so the         *)
(* authorization it finds may be younger than the moment.                  *)
authorization_age(facts) ==
    LET r == facts.row  elapsed == Max({0, facts.moment - r.issued})
        Used(v) == When(r.authorized, "NO_AUTHORIZATION", v)
    IN  [authorization_age_seconds         |-> Used(elapsed * ONE),
         authorization_lifetime_used_ratio |-> Used((elapsed * ONE) \div (r.expires - r.issued))]

AnyType(events) == {events[i].type : i \in DOMAIN events}

event_features(facts) ==
    LET ev == facts.events
    IN  [authorization_replay_attempts         |-> Counted1(ev, {"AUTHORIZATION_REPLAY_DETECTED"}),
         transaction_binding_failures          |-> Counted1(ev, {"TRANSACTION_BINDING_FAILURE"}),
         mission_authority_escalation_attempts |-> Reasoned(ev, {"SECURITY_VIOLATION"}, "AUTHORITY_ESCALATION"),
         payment_attempts                      |-> When(facts.intent # None, "NO_PAYMENT_INTENT",
                                                        IF facts.intent = None THEN 0 ELSE facts.intent.attempts * ONE),
         provider_timeout_events               |-> Counted1(ev, {"PAYMENT_PROVIDER_TIMEOUT"}),
         provider_response_mismatch_events     |-> Reasoned(ev, AnyType(ev), "PROVIDER_RESPONSE_MISMATCH"),
         idempotency_conflict_events           |-> Counted1(ev, {"IDEMPOTENCY_CONFLICT"}),
         webhook_anomaly_events                |-> Counted1(ev, {"DUPLICATE_WEBHOOK_IGNORED", "WEBHOOK_OUT_OF_ORDER_IGNORED"}),
         reconciliation_events                 |-> Counted1(ev, {"PAYMENT_RECONCILED"})]

integrity_features(facts) ==
    LET r == facts.row
    IN  [audit_chain_valid   |-> Value(IF facts.intact THEN ONE ELSE 0),
         invalid_offer_ratio |-> When(r.offers >= MIN_OFFERS_FOR_RATIO, "NO_OFFERS",
                                      IF r.offers = 0 THEN 0 ELSE (r.invalid * ONE) \div r.offers)]

extract_features(facts) ==
    LET history == History(facts)
    IN  amount_features(facts, history) @@ merchant_features(facts, history)
            @@ authorization_age(facts) @@ event_features(facts) @@ integrity_features(facts)

(* build_explanation, as the kinds of line it prints: the verdict, a line  *)
(* per factor, what there was to work with, the scope, and the decision    *)
(* the engine did not make.                                                *)
build_explanation(factors, history, facts) ==
    <<"verdict">>
    \o (IF factors = <<>> THEN <<"no risk factors contributed">> ELSE [i \in DOMAIN factors |-> factors[i].code])
    \o <<IF history.cold_start THEN "cold start" ELSE IF history.available THEN "baseline" ELSE "thin history">>
    \o (IF facts.intact THEN <<>> ELSE <<"chain not verified">>)
    \o <<"counts", "scope", "policy decision">>

(* assess_mission: one assessment, from the facts it loaded and the        *)
(* features extracted from them.                                           *)
Assessment(facts, features) ==
    LET verdict == Scored(features)
        history == History(facts)
    IN  [codes |-> {verdict.factors[i].code : i \in DOMAIN verdict.factors},
         index |-> verdict.index, band |-> verdict.band, recommendation |-> verdict.recommendation,
         decision |-> facts.row.decision,
         quality |-> [history_available |-> history.available, history_observations |-> history.observations,
                      cold_start |-> history.cold_start, audit_chain_verified |-> facts.intact],
         explanation |-> build_explanation(verdict.factors, history, facts)]

(* Mutation: an assessment repeats a reason code it has scored.            *)
Bug_RepeatsReason(m, assessment) ==
    Event(m, "RISK_ASSESSED", IF assessment.codes = {} THEN None ELSE "PROVIDER_RESPONSE_MISMATCH", None, None)

(* audit_payload: the verdict, the factor codes and the versions; no       *)
(* reason code, and no merchant.                                           *)
audit_event(m, assessment) == Event(m, "RISK_ASSESSED", None, None, None)

----------------------------------------------------------------------------
(* The missions' own life.                                                 *)

Admit(m, p) ==
    /\ row[m] = None
    /\ row' = [row EXCEPT ![m] = p.row @@ [issued |-> clock, expires |-> clock + Lifetime]]
    /\ admitted' = Append(admitted, m)
    /\ ledger' = ledger \o [i \in DOMAIN p.violations |->
                               Event(m, "SECURITY_VIOLATION", p.violations[i].reason_code,
                                     p.violations[i].by, p.violations[i].claimed)]
    /\ UNCHANGED <<intent, opened, altered, clock, reader, reported>>

Happened == Cardinality({i \in DOMAIN ledger : ledger[i].type \notin {"SECURITY_VIOLATION", "RISK_ASSESSED", "EDITED"}})

Happens(m, k) ==
    /\ row[m] # None /\ row[m].authorized
    /\ Happened < MaxEvents
    /\ ledger' = Append(ledger, Event(m, k.type, k.reason_code, None, None))
    /\ UNCHANGED <<world, reader, reported>>

Attempt(m) ==
    /\ row[m] # None /\ row[m].authorized
    /\ \/ /\ intent[m] = None /\ Len(opened) < MaxPayments
          /\ intent' = [intent EXCEPT ![m] = [state |-> "PROCESSING", attempts |-> 1]]
          /\ opened' = Append(opened, m)
       \/ /\ intent[m] # None /\ intent[m].state = "PROCESSING" /\ intent[m].attempts < MaxAttempts
          /\ intent' = [intent EXCEPT ![m].attempts = @ + 1]
          /\ UNCHANGED opened
    /\ UNCHANGED <<row, admitted, ledger, altered, clock, reader, reported>>

Settle(m) ==
    /\ intent[m] # None /\ intent[m].state = "PROCESSING"
    /\ \E s \in {"SUCCEEDED", "FAILED_TERMINAL"} : intent' = [intent EXCEPT ![m].state = s]
    /\ UNCHANGED <<row, admitted, opened, ledger, altered, clock, reader, reported>>

(* Somebody edits the chain in the database: one of the events kept here,  *)
(* which no longer tells what it told, or one that no feature counts.      *)
Alter(m) ==
    LET own == {i \in DOMAIN ledger : ledger[i].mission = m}
    IN  /\ row[m] # None /\ m \notin altered /\ Cardinality(altered) < MaxAltered
        /\ altered' = altered \union {m}
        /\ ledger' \in {ledger} \union {[ledger EXCEPT ![i] = Event(m, "EDITED", None, None, None)] : i \in own}
        /\ UNCHANGED <<row, admitted, intent, opened, clock, reader, reported>>

Tick ==
    /\ clock < MaxClock /\ clock' = clock + 1
    /\ UNCHANGED <<row, admitted, intent, opened, ledger, altered, reader, reported>>

----------------------------------------------------------------------------
(* An assessment, one SELECT at a time.                                    *)

NoFacts == [row |-> None, intent |-> None, events |-> <<>>, intact |-> TRUE, amounts |-> <<>>,
            states |-> <<>>, counts |-> [mismatches |-> 0, escalations |-> 0], moment |-> 0]
Idle == [pc |-> "idle", mission |-> None, recording |-> FALSE, facts |-> NoFacts,
         result |-> None, before |-> {}, made |-> 0]

Begin(a, m, verb) ==
    /\ reader[a].pc = "idle" /\ reader[a].made < MaxAssessments
    /\ reader' = [reader EXCEPT ![a] =
                     [Idle EXCEPT !.pc = "rows", !.mission = m, !.recording = verb = "POST",
                                  !.facts = [NoFacts EXCEPT !.moment = clock],
                                  !.before = reported[m], !.made = reader[a].made]]
    /\ UNCHANGED <<world, ledger, reported>>

ReadRows(a) ==
    LET m == reader[a].mission
    IN  /\ reader[a].pc = "rows"
        /\ reader' = [reader EXCEPT ![a] =
                         IF row[m] = None THEN [Idle EXCEPT !.made = reader[a].made + 1]
                         ELSE [reader[a] EXCEPT !.pc = "events", !.facts.row = row[m], !.facts.intent = intent[m]]]
        /\ UNCHANGED <<world, ledger, reported>>

ReadEvents(a) ==
    LET m == reader[a].mission
    IN  /\ reader[a].pc = "events"
        /\ reader' = [reader EXCEPT ![a].pc = "amounts", ![a].facts.events = ChainOf(m),
                                    ![a].facts.intact = m \notin altered]
        /\ UNCHANGED <<world, ledger, reported>>

ReadAmounts(a) ==
    LET m == reader[a].mission
        merchant == selected_merchant(reader[a].facts.row)
    IN  /\ reader[a].pc = "amounts"
        /\ reader' = [reader EXCEPT ![a].pc = "states",
                         ![a].facts.amounts = IF merchant = None THEN <<>> ELSE prior_amounts(merchant, m)]
        /\ UNCHANGED <<world, ledger, reported>>

ReadStates(a) ==
    LET m == reader[a].mission
        merchant == selected_merchant(reader[a].facts.row)
    IN  /\ reader[a].pc = "states"
        /\ reader' = [reader EXCEPT ![a].pc = "violations",
                         ![a].facts.states = IF merchant = None THEN <<>> ELSE prior_states(merchant, m)]
        /\ UNCHANGED <<world, ledger, reported>>

(* The findings that only add up over a mission's life: everything but     *)
(* what is measured against other missions or a sliding window.            *)
Lasting(codes) == codes \ {"AMOUNT_ABOVE_MERCHANT_HISTORY_MEDIAN", "MERCHANT_FAILED_PAYMENT_RATIO",
                           "MERCHANT_IDENTITY_MISMATCH_HISTORY", "MERCHANT_AUTHORITY_ESCALATION_HISTORY"}

Assess(a) ==
    LET merchant == selected_merchant(reader[a].facts.row)
        counts   == IF merchant = None THEN NoFacts.counts ELSE merchant_violation_counts(ledger, merchant)
        facts    == [reader[a].facts EXCEPT !.counts = counts]
    IN  /\ reader[a].pc = "violations"
        /\ \E result \in {Assessment(facts, features) : features \in {extract_features(facts)}} :
              /\ reader' = [reader EXCEPT ![a].pc = "assessed", ![a].facts = facts, ![a].result = result]
              /\ reported' = [reported EXCEPT ![reader[a].mission] = @ \union Lasting(result.codes)]
        /\ UNCHANGED <<world, ledger>>

(* The answer; a POST first appends its event and commits.                 *)
Answer(a) ==
    /\ reader[a].pc = "assessed"
    /\ ledger' = IF reader[a].recording THEN Append(ledger, audit_event(reader[a].mission, reader[a].result))
                 ELSE ledger
    /\ reader' = [reader EXCEPT ![a] = [Idle EXCEPT !.made = reader[a].made + 1]]
    /\ UNCHANGED <<world, reported>>

Init ==
    /\ row = [m \in Missions |-> None] /\ admitted = <<>>
    /\ intent = [m \in Missions |-> None] /\ opened = <<>>
    /\ ledger = <<>> /\ altered = {} /\ clock = 0
    /\ reader = [a \in Assessors |-> Idle]
    /\ reported = [m \in Missions |-> {}]

Next ==
    \/ \E m \in Missions :
        \/ \E p \in Admissions : Admit(m, p)
        \/ \E k \in Kinds : Happens(m, k)
        \/ Attempt(m) \/ Settle(m) \/ Alter(m)
        \/ \E a \in Assessors, verb \in Verbs : Begin(a, m, verb)
    \/ \E a \in Assessors :
        ReadRows(a) \/ ReadEvents(a) \/ ReadAmounts(a) \/ ReadStates(a) \/ Assess(a) \/ Answer(a)
    \/ Tick

Spec == Init /\ [][Next]_vars

----------------------------------------------------------------------------
(* Properties.                                                             *)

Results == {reader[a] : a \in {b \in Assessors : reader[b].pc = "assessed"}}

(* Every feature an assessment scored is declared, and is a count, a ratio *)
(* or a duration, never negative, or has a reason for being unavailable.   *)
WellMeasured(f) ==
    /\ DOMAIN f = Features
    /\ \A x \in DOMAIN f : IF f[x].available THEN f[x].value \in Nat ELSE f[x].why \in UNAVAILABLE_REASONS

(* A finding about a mission is never forgotten (features.py,              *)
(* load_mission_facts): an assessment that began after another was made    *)
(* reports every lasting finding the other reported, whatever was being    *)
(* written while it read; a finding can be lost only to an edit of the     *)
(* chain, and then the broken chain is itself among the findings. And      *)
(* advice does not feed on advice (engine.py, record_assessment): what an  *)
(* assessment measures is what it would have measured with the recorded    *)
(* assessments left out of the chain it read.                              *)
FindingsPersist ==
    \A r \in Results :
        /\ r.result.index \in 0..POINT
        /\ r.before \subseteq r.result.codes \/ "AUDIT_CHAIN_INVALID" \in r.result.codes
        /\ LET own == SelectSeq(r.facts.events, LAMBDA e : e.type # "RISK_ASSESSED")
           IN  \A f \in {extract_features(r.facts)} :
                   WellMeasured(f) /\ extract_features([r.facts EXCEPT !.events = own]) = f

(* The victim of an impersonation is not blamed for it (features.py,       *)
(* _AUTHENTICATED_MERCHANT_KEY): a merchant is charged with a violation    *)
(* only if it authenticated as the party that committed one.               *)
VictimNotBlamed(r) ==
    LET By(reason) == \E i \in DOMAIN ledger :
            /\ ledger[i].type = "SECURITY_VIOLATION" /\ ledger[i].reason_code = reason
            /\ ledger[i].by = r.facts.row.selected
    IN  /\ "MERCHANT_IDENTITY_MISMATCH_HISTORY" \in r.result.codes => By("MERCHANT_IDENTITY_MISMATCH")
        /\ "MERCHANT_AUTHORITY_ESCALATION_HISTORY" \in r.result.codes => By("AUTHORITY_ESCALATION")

(* No history is invented (anomaly.py): a merchant is not charged with     *)
(* what others did in its name, and a mission is never part of the history *)
(* it is compared with.  A merchant with no other mission by the time of   *)
(* the verdict is a cold start, is told to be one, and is charged with no  *)
(* deviation; with fewer than the minimum there is no median.              *)
NoInventedHistory ==
    \A r \in Results :
        LET Others == {m \in Missions \ {r.mission} : row[m] # None /\ row[m].authorized
                                                       /\ row[m].selected = r.facts.row.selected}
            told   == ToSet(r.result.explanation)
        IN  /\ VictimNotBlamed(r)
            /\ Others = {} => /\ "cold start" \in told /\ r.result.quality.cold_start
                              /\ "MERCHANT_FAILED_PAYMENT_RATIO" \notin r.result.codes
            /\ Cardinality(Others) < MinHistory => "AMOUNT_ABOVE_MERCHANT_HISTORY_MEDIAN" \notin r.result.codes
=============================================================================
