--------------------------- MODULE MissionHistory ---------------------------
(***************************************************************************)
(* One mission from admission to settlement, told twice: by its rows       *)
(* (mission, authorization, payment intent), which the code enforces       *)
(* against, and by its audit chain, from which services/audit_ledger/      *)
(* replay.py rebuilds them. Every action is one committed transaction      *)
(* with the events it appends, in their order; AuditLedger has the         *)
(* interleaving inside a transaction. What is read before a lock is taken  *)
(* (an approval's mission, a payment request's existing intent) is a step  *)
(* of its own.                                                             *)
(***************************************************************************)
EXTENDS Replay

CONSTANTS
    Approvers,     \* concurrent POST .../authorization/approve requests
    Requests,      \* concurrent payment requests with one idempotency key
    Idempotent,    \* the provider's create is idempotent
    MaxViolations, \* bound: merchant claims refused during admission
    MaxWork,       \* bound: worker and webhook transactions
    MaxNotes       \* bound: stored risk assessments

VARIABLES mission, auth, scheme, late, pay, seen, chain, approver, req, work, notes

vars == <<mission, auth, scheme, late, pay, seen, chain, approver, req, work, notes>>

P == INSTANCE PaymentStates

NoPayment == [state |-> "none", fenced |-> FALSE, ambiguous |-> FALSE, linked |-> FALSE,
              polled |-> FALSE]

Append2Chain(events) == chain' = chain \o events
-----------------------------------------------------------------------------
(* Admission: create_mission runs the orchestrator and commits its events  *)

Stamped(type, status, s) == [Event(type) EXCEPT !.status = status, !.scheme = s]

(* Refused claims and refused identities are recorded one after another,   *)
(* between the offers' arrival and their normalization.                    *)
Admission(violations, outcome) ==
    <<Event("MISSION_CREATED"), Event("INTENT_PARSED"), Event("DISCOVERY_STARTED"),
      Event("OFFERS_RECEIVED")>>
    \o [i \in 1..violations |-> Event("SECURITY_VIOLATION")]
    \o <<Event("OFFERS_NORMALIZED"), Event("OFFERS_RANKED"),
         [Event("POLICY_DECISION") EXCEPT !.decision = outcome]>>

(* A denied mission is cancelled; one whose offer changed under it stays   *)
(* where the policy left it; the others get an authorization.              *)
run(violations, outcome, changed) ==
    LET head == Admission(violations, outcome) IN
    /\ chain = <<>>
    /\ \/ /\ outcome = "DENY" /\ ~changed
          /\ mission' = "CANCELLED" /\ UNCHANGED <<auth, scheme>>
          /\ Append2Chain(head \o <<Event("MISSION_DENIED")>>)
       \/ /\ outcome # "DENY" /\ changed
          /\ mission' = "POLICY_CHECKED" /\ UNCHANGED <<auth, scheme>>
          /\ Append2Chain(head \o
                <<[Event("SECURITY_VIOLATION") EXCEPT !.bind_refused = TRUE]>>)
       \/ /\ outcome = "REQUIRE_APPROVAL" /\ ~changed
          /\ mission' = "AWAITING_APPROVAL" /\ auth' = "PENDING" /\ scheme' = "USER_ED25519"
          /\ Append2Chain(head \o
                <<Stamped("AUTHORIZATION_CREATED", "PENDING", "USER_ED25519"),
                  Stamped("APPROVAL_REQUESTED", "none", "USER_ED25519")>>)
       \/ /\ outcome = "ALLOW" /\ ~changed
          /\ mission' = "AUTHORIZED" /\ auth' = "ACTIVE" /\ scheme' = "POLICY_AUTO"
          /\ Append2Chain(head \o
                <<Stamped("AUTHORIZATION_CREATED", "PENDING", "POLICY_AUTO"),
                  Stamped("AUTHORIZATION_ACTIVATED", "ACTIVE", "POLICY_AUTO")>>)
    /\ UNCHANGED <<late, pay, seen, approver, req, work, notes>>

-----------------------------------------------------------------------------
(* The authorization                                                       *)

Expires ==
    /\ ~late /\ late' = TRUE
    /\ UNCHANGED <<mission, auth, scheme, pay, seen, chain, approver, req, work, notes>>

(* The route reads the mission without a lock and goes on only from        *)
(* AWAITING_APPROVAL.                                                      *)
approve_authorization(a) ==
    /\ approver[a] = "idle" /\ mission = "AWAITING_APPROVAL"
    /\ approver' = [approver EXCEPT ![a] = "checked"]
    /\ UNCHANGED <<mission, auth, scheme, late, pay, seen, chain, req, work, notes>>

(* classify_and_raise reports the status it met.                           *)
replay_detected == Stamped("AUTHORIZATION_REPLAY_DETECTED", auth, "none")

(* With the authorization row locked: activate it, or refuse. A refusal's  *)
(* events and a demotion are committed all the same.                       *)
approve_authorization_with_signature(a, proven) ==
    /\ approver[a] = "checked"
    /\ approver' = [approver EXCEPT ![a] = "done"]
    /\ \/ /\ auth = "PENDING" /\ ~late /\ proven
          /\ auth' = "ACTIVE" /\ mission' = "AUTHORIZED"
          /\ Append2Chain(<<Stamped("AUTHORIZATION_ACTIVATED", "ACTIVE", "USER_ED25519")>>)
       \/ /\ auth = "PENDING" /\ ~late /\ ~proven
          /\ Append2Chain(<<Event("SECURITY_VIOLATION")>>) /\ UNCHANGED <<auth, mission>>
       \/ /\ auth = "CONSUMED"
          /\ Append2Chain(<<replay_detected>>) /\ UNCHANGED <<auth, mission>>
       \/ /\ auth \in {"PENDING", "ACTIVE"} /\ late
          /\ auth' = "EXPIRED" /\ UNCHANGED mission
          /\ Append2Chain(<<Stamped("AUTHORIZATION_EXPIRED", "EXPIRED", "none")>>)
       \/ /\ auth \in {"EXPIRED", "REVOKED"} \/ (auth = "ACTIVE" /\ ~late)
          /\ UNCHANGED <<auth, mission, chain>>
    /\ UNCHANGED <<scheme, late, pay, seen, req, work, notes>>

revoke_authorization ==
    /\ auth \in {"PENDING", "ACTIVE"}
    /\ auth' = "REVOKED"
    /\ Append2Chain(<<Stamped("AUTHORIZATION_REVOKED", "REVOKED", "none")>>)
    /\ UNCHANGED <<mission, scheme, late, pay, seen, approver, req, work, notes>>

-----------------------------------------------------------------------------
(* The payment request                                                     *)

(* find_by_idempotency_key, without a lock.                                *)
FindExisting(r) ==
    /\ req[r] = "idle"
    /\ pay.state # "none" \/ mission = "AUTHORIZED"
    /\ req' = [req EXCEPT ![r] = IF pay.state = "none" THEN "create" ELSE pay.state]
    /\ UNCHANGED <<mission, auth, scheme, late, pay, seen, chain, approver, work, notes>>

(* The intent, its consumed authorization and its events in one commit; an *)
(* authorization that cannot be consumed rolls everything back, and the    *)
(* loser of a race reads the winner's row.                                 *)
create_payment_intent(r) ==
    /\ req[r] = "create"
    /\ \/ /\ pay.state = "none" /\ auth = "ACTIVE" /\ ~late
          /\ pay' = [NoPayment EXCEPT !.state = "QUEUED"]
          /\ auth' = "CONSUMED" /\ mission' = "PAYMENT_PENDING"
          /\ Append2Chain(<<Stamped("AUTHORIZATION_CONSUMED", "CONSUMED", "none"),
                            Event("PAYMENT_INTENT_CREATED"),
                            [Event("PAYMENT_QUEUED") EXCEPT !.state = "QUEUED"]>>)
          /\ req' = [req EXCEPT ![r] = "done"]
       \/ /\ pay.state = "none" /\ (auth # "ACTIVE" \/ late)
          /\ req' = [req EXCEPT ![r] = "done"]
          /\ UNCHANGED <<pay, auth, mission, chain>>
       \/ /\ pay.state # "none"
          /\ req' = [req EXCEPT ![r] = pay.state]
          /\ UNCHANGED <<pay, auth, mission, chain>>
    /\ UNCHANGED <<scheme, late, seen, approver, work, notes>>

(* The reuse is recorded, under the mission lock, with the state that was  *)
(* read before it.                                                         *)
resolve_existing(r) ==
    /\ req[r] \in P!PaymentIntentState
    /\ Append2Chain(<<[Event("PAYMENT_INTENT_REUSED") EXCEPT !.state = req[r]]>>)
    /\ req' = [req EXCEPT ![r] = "done"]
    /\ UNCHANGED <<mission, auth, scheme, late, pay, seen, approver, work, notes>>
-----------------------------------------------------------------------------
(* A worker's transaction x: the rows it will commit and the events it has *)
(* appended so far                                                         *)

Txn == [pay |-> pay, mission |-> mission, events |-> <<>>]

Say(x, e) == [x EXCEPT !.events = Append(@, e)]

apply_payment_transition(x, target, type) ==
    Say([x EXCEPT !.pay.state = target], [Event(type) EXCEPT !.state = target])

apply_mission_state(x, target) ==
    [x EXCEPT !.mission = IF can_transition(@, target) THEN target ELSE @]

record_payment_attempt(x) ==
    IF x.pay.state \in {"QUEUED", "FAILED_RETRYABLE"}
    THEN apply_payment_transition(x, "PROCESSING", "PAYMENT_ATTEMPTED") ELSE x

(* What was observed, then what was concluded from it.                     *)
mark_uncertain(x, ambiguity, timed_out) ==
    LET y == [x EXCEPT !.pay.ambiguous = @ \/ ambiguity, !.pay.polled = TRUE]
        z == IF timed_out THEN Say(y, Event("PAYMENT_PROVIDER_TIMEOUT")) ELSE y
    IN  apply_payment_transition(z, "PROVIDER_PENDING", "PAYMENT_PROVIDER_UNCERTAIN")

Status == {"PENDING", "SUCCEEDED"} \cup (IF Idempotent THEN {"FAILED"} ELSE {})

Settled(target) ==
    CASE target = "SUCCEEDED"       -> [type |-> "PAYMENT_SUCCEEDED", mission |-> "PAYMENT_SUCCEEDED"]
      [] target = "FAILED_TERMINAL" -> [type |-> "PAYMENT_FAILED", mission |-> "PAYMENT_FAILED"]
      [] OTHER                      -> [type |-> "PAYMENT_PROVIDER_UNCERTAIN", mission |-> "none"]

apply_provider_payment(x, status) ==
    LET target == P!provider_status_to_state(status)
        y == [x EXCEPT !.pay.linked = TRUE,
                       !.pay.polled = @ \/ target = "PROVIDER_PENDING"]
    IN  IF x.pay.state = target \/ P!is_terminal(x.pay.state) THEN y
        ELSE apply_mission_state(apply_payment_transition(y, target, Settled(target).type),
                                 Settled(target).mission)

audit_retry(x, retried) ==
    Say(x, Event(IF retried THEN "PAYMENT_RETRY_SCHEDULED" ELSE "OUTBOX_EVENT_DEAD_LETTERED"))

(* Narration of the state the transaction has already moved to.            *)
Reconciled(x) == Say(x, [Event("PAYMENT_RECONCILED") EXCEPT !.state = x.pay.state])

LookupFailed(x) ==
    {mark_uncertain(x, FALSE, t) : t \in BOOLEAN}
        \cup (IF Idempotent THEN {} ELSE {mark_uncertain(x, TRUE, FALSE)})

finish_existing_before_create(x) ==
    IF x.pay.ambiguous THEN {mark_uncertain(x, TRUE, FALSE)}
    ELSE {mark_uncertain(x, FALSE, FALSE)} \cup
         {Reconciled(apply_provider_payment(record_payment_attempt(x), s)) : s \in Status}

recover_fenced_create(x) ==
    LookupFailed(x) \cup finish_existing_before_create(x) \cup {mark_uncertain(x, FALSE, FALSE)}

FinishCreate(x) ==
    LET y == record_payment_attempt(x) IN
    {mark_uncertain(y, FALSE, t) : t \in BOOLEAN}
    \cup {apply_provider_payment(y, s) : s \in Status}
    \cup {apply_mission_state(apply_payment_transition(y, "FAILED_TERMINAL", "PAYMENT_FAILED"),
                              "PAYMENT_FAILED")}
    \cup (IF Idempotent
          THEN {audit_retry(apply_payment_transition(y, "FAILED_RETRYABLE", "PAYMENT_FAILED"), r) :
                   r \in BOOLEAN}
          ELSE {})

(* The transactions in which dispatch_create may end; a row that is still  *)
(* PROVIDER_PENDING is left to reconciliation without an event.            *)
dispatch_create ==
    LET x == [Txn EXCEPT !.pay.fenced = ~Idempotent] IN
    IF ~Idempotent /\ pay.fenced THEN recover_fenced_create(x)
    ELSE IF pay.state = "PROVIDER_PENDING" THEN {}
    ELSE LookupFailed(x) \cup finish_existing_before_create(x) \cup FinishCreate(x)

(* Mutation: a row without provider payment is retried without a record.   *)
Bug_RetryUnstamped(x) ==
    Say([Say(x, Event("PAYMENT_RECONCILED")) EXCEPT !.pay.state = "FAILED_RETRYABLE"],
        Event("PAYMENT_RETRY_SCHEDULED"))

(* Not a payment transition in the code: the row and the retry event are   *)
(* written apart, and the event carries the new state.                     *)
resolve_no_provider_payment(x) ==
    Say([Say(x, Event("PAYMENT_RECONCILED")) EXCEPT !.pay.state = "FAILED_RETRYABLE"],
        [Event("PAYMENT_RETRY_SCHEDULED") EXCEPT !.state = "FAILED_RETRYABLE"])

Uncertain(x) == apply_payment_transition(x, "PROVIDER_PENDING", "PAYMENT_PROVIDER_UNCERTAIN")

(* The row stays uncertain; only a row that was not is said to become so.  *)
StillUncertain(x) == IF x.pay.state = "PROVIDER_PENDING" THEN x ELSE Uncertain(x)

(* The transactions in which reconcile_intent may end.                     *)
reconcile_intent ==
    LET x == [Txn EXCEPT !.pay.fenced = ~Idempotent]
        bare == Event("PAYMENT_RECONCILED") IN
    {audit_retry(x, r) : r \in BOOLEAN}
    \cup (IF Idempotent THEN {}
          ELSE {audit_retry(Uncertain([x EXCEPT !.pay.ambiguous = TRUE]), r) : r \in BOOLEAN})
    \cup CASE pay.ambiguous -> {Say(StillUncertain(x), bare)}
           [] ~pay.ambiguous ->
                {Reconciled(apply_provider_payment(record_payment_attempt(x), s)) : s \in Status}
                \cup (CASE pay.linked -> {audit_retry(Say(x, bare), r) : r \in BOOLEAN}
                        [] ~pay.linked /\ ~Idempotent ->
                             {audit_retry(Say(StillUncertain(x), bare), r) : r \in BOOLEAN}
                        [] OTHER ->
                             IF P!can_transition(pay.state, "FAILED_RETRYABLE")
                             THEN {resolve_no_provider_payment(x)} ELSE {})

(* Mutation: a delivery is applied whatever the payment has become.        *)
Bug_AppliesLateDelivery(t) ==
    LET target == P!webhook_type_to_state(t) IN
    apply_mission_state(apply_payment_transition(Txn, target, Settled(target).type),
                        Settled(target).mission)

(* A verified delivery of type t about the linked payment.                 *)
handle_webhook(t) ==
    LET x == Say(Txn, Event("WEBHOOK_VERIFIED"))
        target == P!webhook_type_to_state(t) IN
    IF t \in seen
    THEN Say(Txn, [Event("DUPLICATE_WEBHOOK_IGNORED") EXCEPT !.state = pay.state])
    ELSE IF pay.ambiguous \/ (pay.state = target /\ target = "PROVIDER_PENDING")
    THEN Say(x, [Event("PAYMENT_PROVIDER_UNCERTAIN") EXCEPT !.state = pay.state])
    ELSE IF ~P!can_transition(pay.state, target)
    THEN Say(x, Event("WEBHOOK_OUT_OF_ORDER_IGNORED"))
    ELSE apply_mission_state(apply_payment_transition(x, target, Settled(target).type),
                             Settled(target).mission)
-----------------------------------------------------------------------------
Commit(x) ==
    /\ work < MaxWork /\ work' = work + 1
    /\ pay' = x.pay /\ mission' = x.mission /\ Append2Chain(x.events)
    /\ UNCHANGED <<auth, scheme, late, approver, req, notes>>

Open == pay.state # "none" /\ ~P!is_terminal(pay.state)

Dispatch == /\ Open /\ \E x \in dispatch_create : Commit(x)
            /\ UNCHANGED seen
Reconcile == /\ Open /\ pay.polled /\ \E x \in reconcile_intent : Commit(x)
             /\ UNCHANGED seen

(* The fence is committed before the provider is called; the worker dies.  *)
FenceThenCrash ==
    /\ Open /\ ~Idempotent /\ ~pay.fenced
    /\ Commit([Txn EXCEPT !.pay.fenced = TRUE])
    /\ UNCHANGED seen

Webhook(t) == /\ pay.linked /\ (t = "payment.failed" => Idempotent)
              /\ Commit(handle_webhook(t))
              /\ seen' = seen \cup {t}

(* POST .../risk: the stored assessment's audit event.                     *)
record_assessment ==
    /\ chain # <<>> /\ notes < MaxNotes /\ notes' = notes + 1
    /\ Append2Chain(<<Event("RISK_ASSESSED")>>)
    /\ UNCHANGED <<mission, auth, scheme, late, pay, seen, approver, req, work>>

Init ==
    /\ mission = "none" /\ auth = "none" /\ scheme = "none" /\ late = FALSE
    /\ pay = NoPayment /\ seen = {} /\ chain = <<>>
    /\ approver = [a \in Approvers |-> "idle"] /\ req = [r \in Requests |-> "idle"]
    /\ work = 0 /\ notes = 0

Next ==
    \/ \E n \in 0..MaxViolations, o \in PolicyOutcome, changed \in BOOLEAN : run(n, o, changed)
    \/ Expires \/ revoke_authorization \/ record_assessment
    \/ \E a \in Approvers :
          \/ approve_authorization(a)
          \/ \E proven \in BOOLEAN : approve_authorization_with_signature(a, proven)
    \/ \E r \in Requests : FindExisting(r) \/ create_payment_intent(r) \/ resolve_existing(r)
    \/ Dispatch \/ Reconcile \/ FenceThenCrash
    \/ \E t \in P!WebhookEventType : Webhook(t)

Spec == Init /\ [][Next]_vars
-----------------------------------------------------------------------------
(* Properties                                                              *)

(* Not a reuse event, which may carry a state read before its lock.        *)
Fresh(e) == e.type # "PAYMENT_INTENT_REUSED"

Comparison == compare_with_persisted(reduce_events(SelectSeq(chain, Fresh)), mission, auth, pay.state)

(* Replay of an untouched chain tells the truth after every commit.        *)
(* Whatever order approvals, requests, workers and webhooks commit in, the *)
(* chain is never refused and no transition has to be skipped; the         *)
(* replayed mission and authorization are the persisted ones; and, leaving *)
(* aside the reuse events, so is the payment: no handler moves the row     *)
(* without an event that carries the state.                                *)
ReplayFaithful ==
    LET s == reduce_events(chain)
        c == Comparison
    IN
    /\ ~s.refused /\ s.skipped_transitions = <<>>
    /\ chain # <<>> => c.mission = "true" /\ c.authorization # "false" /\ c.payment # "false"

(* "The same guard here is what makes the replayed state equal the         *)
(* persisted state": with every event folded, reuse included.              *)
ReplayEqualsPersisted ==
    chain # <<>> =>
        compare_with_persisted(reduce_events(chain), mission, auth, pay.state).payment # "false"

(* A risk assessment never changes anything replay reconstructs but its    *)
(* own list, wherever in the chain it stands.                              *)
RiskInert ==
    LET with == reduce_events(chain)
        without == reduce_events(SelectSeq(chain, LAMBDA e : e.type # "RISK_ASSESSED"))
    IN  without = [with EXCEPT !.risk_assessments = 0,
                               !.events_replayed = @ - with.risk_assessments]

(* What the newest entry of the decision trace tells its reader to do is   *)
(* what the rows permit: a signature is awaited only while the             *)
(* authorization is pending, a payment is created only from an active one, *)
(* and nobody is told to dispatch, retry or reconcile a settled payment.   *)
TraceGuides ==
    LET events == SelectSeq(chain, LAMBDA e : Fresh(e) /\ e.type # "RISK_ASSESSED")
        act == trace_next_action(Last(events)) IN
    events # <<>> =>
        CASE act = "AWAIT_USER_SIGNATURE"  -> auth = "PENDING"
          [] act = "CREATE_PAYMENT_INTENT" -> auth = "ACTIVE" /\ pay.state = "none"
          [] act = "DISPATCH_PAYMENT"      -> pay.state = "QUEUED"
          [] act = "RECONCILE_PAYMENT"     -> pay.state = "PROVIDER_PENDING"
          [] act = "RETRY_PAYMENT"         -> Open
          [] OTHER                         -> TRUE

(* The trace shows a success exactly when the payment succeeded, and once. *)
OneSuccessEntry ==
    LET trace == decision_trace_from_events(chain)
        wins == {i \in DOMAIN trace : trace[i].verdict = "SUCCEEDED"} IN
    /\ wins # {} <=> pay.state = "SUCCEEDED"
    /\ \A i, j \in wins : i = j
=============================================================================
