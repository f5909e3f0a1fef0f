------------------------------- MODULE Replay -------------------------------
(***************************************************************************)
(* The replay reducer and the decision trace                               *)
(* (services/audit_ledger/replay.py): pure functions of a mission's audit  *)
(* events, which rebuild the mission, its authorization and its payment    *)
(* without reading their rows. An event keeps the payload fields that some *)
(* rule reads; "none" is an absent field.                                  *)
(***************************************************************************)
EXTENDS Integers, SequencesExt, MissionStates

LOCAL Payment == INSTANCE PaymentStates

EventType ==
    {"MISSION_CREATED", "INTENT_PARSED", "DISCOVERY_STARTED", "OFFERS_RECEIVED",
     "OFFERS_NORMALIZED", "OFFERS_RANKED", "POLICY_DECISION", "APPROVAL_REQUESTED",
     "MISSION_DENIED", "SECURITY_VIOLATION", "AUTHORIZATION_CREATED",
     "AUTHORIZATION_ACTIVATED", "AUTHORIZATION_CONSUMED", "AUTHORIZATION_EXPIRED",
     "AUTHORIZATION_REVOKED", "AUTHORIZATION_REPLAY_DETECTED",
     "TRANSACTION_BINDING_FAILURE", "PAYMENT_INTENT_CREATED", "PAYMENT_QUEUED",
     "PAYMENT_ATTEMPTED", "PAYMENT_PROVIDER_TIMEOUT", "PAYMENT_PROVIDER_UNCERTAIN",
     "PAYMENT_RETRY_SCHEDULED", "PAYMENT_RECONCILED", "PAYMENT_SUCCEEDED",
     "PAYMENT_FAILED", "PAYMENT_INTENT_REUSED", "IDEMPOTENCY_CONFLICT",
     "OUTBOX_EVENT_DEAD_LETTERED", "WEBHOOK_VERIFIED", "WEBHOOK_REJECTED",
     "DUPLICATE_WEBHOOK_IGNORED", "WEBHOOK_OUT_OF_ORDER_IGNORED", "RISK_ASSESSED"}

PolicyOutcome == {"ALLOW", "REQUIRE_APPROVAL", "DENY"}

(* An event whose payload has none of the fields a rule reads.             *)
Event(type) ==
    [type |-> type, state |-> "none", status |-> "none", decision |-> "none",
     scheme |-> "none", bind_refused |-> FALSE]

(* The accumulator of the fold.                                            *)
ReplayState ==
    [mission_state |-> "none", policy_decision |-> "none",
     approval_required |-> FALSE, approval_granted |-> FALSE,
     authorization |-> "none", scheme |-> "none", replay_detected |-> FALSE,
     binding_failures |-> 0, payment |-> "none", counts |-> <<>>,
     intent_reused |-> FALSE, dead_lettered |-> FALSE,
     security_events |-> <<>>, skipped_transitions |-> <<>>,
     risk_assessments |-> 0, events_replayed |-> 0, refused |-> FALSE]

(* The events whose presence is security history.                          *)
SECURITY_EVENT_TYPES ==
    {"SECURITY_VIOLATION", "AUTHORIZATION_REPLAY_DETECTED",
     "TRANSACTION_BINDING_FAILURE", "IDEMPOTENCY_CONFLICT", "WEBHOOK_REJECTED",
     "DUPLICATE_WEBHOOK_IGNORED", "WEBHOOK_OUT_OF_ORDER_IGNORED", "MISSION_DENIED"}

refuse(s) == [s EXCEPT !.refused = TRUE]

(* A field of the payload, or what was known before.                       *)
field_or(new, old) == IF new = "none" THEN old ELSE new

record_security(s, e) == [s EXCEPT !.security_events = Append(@, e.type)]

(* The mission moves where its state machine permits; a move it does not   *)
(* permit is recorded and skipped.                                         *)
advance(s, e, target) ==
    IF s.mission_state \in {"none", target} THEN [s EXCEPT !.mission_state = target]
    ELSE IF can_transition(s.mission_state, target) THEN [s EXCEPT !.mission_state = target]
    ELSE [s EXCEPT !.skipped_transitions = Append(@, e.type)]
-----------------------------------------------------------------------------
(* The mission state an admission event stands for.                        *)
AdmissionTarget ==
    [MISSION_CREATED    |-> "CREATED",           INTENT_PARSED      |-> "INTENT_PARSED",
     DISCOVERY_STARTED  |-> "DISCOVERING",       OFFERS_RECEIVED    |-> "OFFERS_RECEIVED",
     OFFERS_NORMALIZED  |-> "OFFERS_NORMALIZED", OFFERS_RANKED      |-> "RANKED",
     POLICY_DECISION    |-> "POLICY_CHECKED",    APPROVAL_REQUESTED |-> "AWAITING_APPROVAL",
     MISSION_DENIED     |-> "CANCELLED"]

on_admission(s, e) ==
    IF e.type = "POLICY_DECISION" /\ e.decision \notin PolicyOutcome \cup {"none"}
    THEN refuse(s)
    ELSE LET t == [s EXCEPT !.policy_decision = field_or(e.decision, @),
                            !.approval_required = @ \/ e.type = "APPROVAL_REQUESTED"]
         IN  advance(IF e.type = "MISSION_DENIED" THEN record_security(t, e) ELSE t,
                     e, AdmissionTarget[e.type])

(* The status an authorization event stands for when its payload has none. *)
DefaultStatus ==
    [AUTHORIZATION_CREATED |-> "PENDING",  AUTHORIZATION_ACTIVATED |-> "ACTIVE",
     AUTHORIZATION_CONSUMED |-> "CONSUMED", AUTHORIZATION_EXPIRED |-> "EXPIRED",
     AUTHORIZATION_REVOKED |-> "REVOKED"]

on_authorization(s, e) ==
    LET t == [s EXCEPT !.authorization = field_or(e.status, DefaultStatus[e.type]),
                       !.scheme = IF e.type = "AUTHORIZATION_CREATED" THEN e.scheme
                                  ELSE field_or(e.scheme, @),
                       !.approval_granted =
                           \/ @
                           \/ e.type = "AUTHORIZATION_ACTIVATED" /\ s.approval_required]
    IN  IF e.type = "AUTHORIZATION_ACTIVATED" THEN advance(t, e, "AUTHORIZED") ELSE t

(* The refused use changed nothing: the status is the one it met.          *)
on_authorization_replay_detected(s, e) ==
    record_security([s EXCEPT !.replay_detected = TRUE,
                              !.authorization = field_or(e.status, @)], e)

on_transaction_binding_failure(s, e) ==
    record_security([s EXCEPT !.binding_failures = @ + 1], e)
-----------------------------------------------------------------------------
(* The kinds of payment event the projection counts.                       *)
Counted ==
    {"PAYMENT_ATTEMPTED", "PAYMENT_PROVIDER_TIMEOUT", "PAYMENT_PROVIDER_UNCERTAIN",
     "PAYMENT_RETRY_SCHEDULED", "PAYMENT_RECONCILED", "WEBHOOK_VERIFIED",
     "DUPLICATE_WEBHOOK_IGNORED", "WEBHOOK_OUT_OF_ORDER_IGNORED"}

count(s, e) ==
    IF e.type \in Counted THEN [s EXCEPT !.counts = Append(@, e.type)] ELSE s

(* Adopt the payment state a transition stamped into its payload.          *)
payment_state_from_payload(s, e) ==
    IF e.state = "none" THEN s
    ELSE IF e.state \notin Payment!PaymentIntentState THEN refuse(s)
    ELSE [s EXCEPT !.payment = e.state]

(* Only a terminal failure moves the mission.                              *)
on_payment_failed(s, e) ==
    IF s.payment = "FAILED_TERMINAL" THEN advance(s, e, "PAYMENT_FAILED") ELSE s

on_payment_transition(s, e) ==
    LET t == count(payment_state_from_payload(s, e), e) IN
    CASE e.type = "PAYMENT_QUEUED"        -> advance(t, e, "PAYMENT_PENDING")
      [] e.type = "PAYMENT_SUCCEEDED"     -> advance(t, e, "PAYMENT_SUCCEEDED")
      [] e.type = "PAYMENT_FAILED"        -> on_payment_failed(t, e)
      [] e.type = "PAYMENT_INTENT_REUSED" -> [t EXCEPT !.intent_reused = TRUE]
      [] OTHER                            -> t

(* Narration: whatever state such a payload mentions is not adopted.       *)
on_payment_narration(s, e) ==
    LET t == count([s EXCEPT !.dead_lettered = @ \/ e.type = "OUTBOX_EVENT_DEAD_LETTERED"], e)
    IN  IF e.type \in SECURITY_EVENT_TYPES THEN record_security(t, e) ELSE t

(* Advice is recorded and touches nothing else.                            *)
on_risk_assessed(s) == [s EXCEPT !.risk_assessments = @ + 1]

PaymentTransitions ==
    {"PAYMENT_QUEUED", "PAYMENT_ATTEMPTED", "PAYMENT_PROVIDER_UNCERTAIN",
     "PAYMENT_RETRY_SCHEDULED", "PAYMENT_SUCCEEDED", "PAYMENT_FAILED",
     "PAYMENT_INTENT_REUSED"}

PaymentNarration ==
    {"PAYMENT_INTENT_CREATED", "PAYMENT_PROVIDER_TIMEOUT", "PAYMENT_RECONCILED",
     "OUTBOX_EVENT_DEAD_LETTERED", "WEBHOOK_VERIFIED", "DUPLICATE_WEBHOOK_IGNORED",
     "WEBHOOK_OUT_OF_ORDER_IGNORED"}

(* The table of handlers.                                                  *)
HANDLERS(s, e) ==
    CASE e.type \in DOMAIN AdmissionTarget           -> on_admission(s, e)
      [] e.type \in DOMAIN DefaultStatus             -> on_authorization(s, e)
      [] e.type = "AUTHORIZATION_REPLAY_DETECTED"    -> on_authorization_replay_detected(s, e)
      [] e.type = "TRANSACTION_BINDING_FAILURE"      -> on_transaction_binding_failure(s, e)
      [] e.type \in PaymentTransitions               -> on_payment_transition(s, e)
      [] e.type \in PaymentNarration                 -> on_payment_narration(s, e)
      [] e.type = "RISK_ASSESSED"                    -> on_risk_assessed(s)
      [] e.type \in {"SECURITY_VIOLATION", "IDEMPOTENCY_CONFLICT", "WEBHOOK_REJECTED"}
                                                     -> record_security(s, e)

(* Once an event is refused the fold is abandoned.                         *)
apply_event(s, e) ==
    IF s.refused THEN s
    ELSE IF e.type \notin EventType THEN refuse(s)
    ELSE [HANDLERS(s, e) EXCEPT !.events_replayed = s.events_replayed + 1]

reduce_events(events) == FoldLeft(apply_event, ReplayState, events)

(* Agreement of one field; "none" when neither side has it.                *)
matches(replayed, persisted) ==
    IF replayed = "none" /\ persisted = "none" THEN "none"
    ELSE IF replayed = persisted THEN "true" ELSE "false"

compare_with_persisted(s, mission, authorization, intent) ==
    [mission       |-> IF s.mission_state = mission THEN "true" ELSE "false",
     authorization |-> matches(s.authorization, authorization),
     payment       |-> matches(s.payment, intent)]
-----------------------------------------------------------------------------
(* The decision trace                                                      *)

Bind ==
    {"APPROVAL_REQUESTED", "AUTHORIZATION_REPLAY_DETECTED", "TRANSACTION_BINDING_FAILURE"}
        \cup DOMAIN DefaultStatus
Execute ==
    PaymentTransitions \cup PaymentNarration \cup {"IDEMPOTENCY_CONFLICT", "WEBHOOK_REJECTED"}

(* A violation met while binding belongs to BIND, any other to ADMIT.      *)
trace_stage(e) ==
    CASE e.type \in Bind \/ (e.type = "SECURITY_VIOLATION" /\ e.bind_refused) -> "BIND"
      [] e.type \in Execute                                                 -> "EXECUTE"
      [] OTHER                                                              -> "ADMIT"

Refusals ==
    {"MISSION_DENIED", "SECURITY_VIOLATION", "AUTHORIZATION_EXPIRED",
     "AUTHORIZATION_REVOKED", "AUTHORIZATION_REPLAY_DETECTED",
     "TRANSACTION_BINDING_FAILURE", "IDEMPOTENCY_CONFLICT", "WEBHOOK_REJECTED"}
Pending ==
    {"APPROVAL_REQUESTED", "AUTHORIZATION_CREATED", "PAYMENT_QUEUED",
     "PAYMENT_ATTEMPTED", "PAYMENT_PROVIDER_TIMEOUT", "PAYMENT_PROVIDER_UNCERTAIN",
     "PAYMENT_RETRY_SCHEDULED", "PAYMENT_RECONCILED"}

trace_verdict(e) ==
    CASE e.type = "RISK_ASSESSED" -> "ADVISORY"
      [] e.type \in Refusals \/ e.decision = "DENY" -> "REFUSED"
      [] e.type \in Pending \/ e.decision = "REQUIRE_APPROVAL" -> "PENDING"
      [] e.type \in {"DUPLICATE_WEBHOOK_IGNORED", "WEBHOOK_OUT_OF_ORDER_IGNORED"} -> "IGNORED"
      [] e.type = "PAYMENT_SUCCEEDED" -> "SUCCEEDED"
      [] e.type \in {"PAYMENT_FAILED", "OUTBOX_EVENT_DEAD_LETTERED"} -> "FAILED"
      [] OTHER -> "ACCEPTED"

(* Mutation: whatever failed may be tried again.                           *)
Bug_RetryAnyFailure(e) ==
    IF e.type = "PAYMENT_FAILED" THEN "RETRY_PAYMENT" ELSE "NONE"

(* What a reader of this entry is told to do next.                         *)
trace_next_action(e) ==
    LET stage == trace_stage(e) IN
    CASE e.type \in {"RISK_ASSESSED", "PAYMENT_SUCCEEDED", "OUTBOX_EVENT_DEAD_LETTERED"}
            \cup (Refusals \ {"SECURITY_VIOLATION"}) -> "NONE"
      [] e.type = "SECURITY_VIOLATION" -> IF stage = "BIND" THEN "NONE" ELSE "CONTINUE_ADMIT"
      [] e.type = "POLICY_DECISION" -> IF e.decision = "DENY" THEN "NONE" ELSE "CONTINUE_BIND"
      [] \/ e.type = "APPROVAL_REQUESTED"
         \/ e.type = "AUTHORIZATION_CREATED" /\ e.scheme = "USER_ED25519"
                                              -> "AWAIT_USER_SIGNATURE"
      [] e.type = "AUTHORIZATION_ACTIVATED"   -> "CREATE_PAYMENT_INTENT"
      [] \/ e.type \in {"AUTHORIZATION_CONSUMED", "PAYMENT_INTENT_CREATED", "PAYMENT_QUEUED"}
         \/ e.type = "PAYMENT_INTENT_REUSED" /\ e.state = "QUEUED"
                                              -> "DISPATCH_PAYMENT"
      [] e.type \in {"PAYMENT_PROVIDER_TIMEOUT", "PAYMENT_PROVIDER_UNCERTAIN"}
                                              -> "RECONCILE_PAYMENT"
      [] \/ e.type = "PAYMENT_RETRY_SCHEDULED"
         \/ e.type = "PAYMENT_FAILED" /\ e.state = "FAILED_RETRYABLE"
                                              -> "RETRY_PAYMENT"
      [] \/ e.type = "PAYMENT_FAILED" /\ e.state # "FAILED_RETRYABLE"
         \/ /\ e.type = "PAYMENT_INTENT_REUSED"
            /\ e.state \notin {"QUEUED", "PROCESSING", "PROVIDER_PENDING"}
                                              -> "NONE"
      [] OTHER -> CASE stage = "ADMIT" -> "CONTINUE_ADMIT"
                    [] stage = "BIND"  -> "CONTINUE_BIND"
                    [] OTHER           -> "AWAIT_PROVIDER"

(* One entry per event, in the chain's order.                              *)
decision_trace_from_events(events) ==
    [i \in DOMAIN events |->
        [stage |-> trace_stage(events[i]), verdict |-> trace_verdict(events[i]),
         advisory |-> events[i].type = "RISK_ASSESSED",
         next_action |-> trace_next_action(events[i])]]
=============================================================================
