--------------------------- MODULE PaymentExecutor ---------------------------
(***************************************************************************)
(* EXECUTE: one payment intent from its durable PAYMENT_CREATE_REQUESTED   *)
(* event to settlement. Workers claim outbox events under a lease, hold    *)
(* the intent's row lock while they talk to the provider, and commit what  *)
(* they learnt; a signed webhook can settle the same row in between. A     *)
(* worker may crash at any step, fail in its handler, or outlive its lease.*)
(*                                                                         *)
(* Handlers touch only the rows of their own intent, so one intent is      *)
(* modelled. A step that lies between two commits or two provider calls is *)
(* atomic: the row lock hides everything else. Time is abstracted to two   *)
(* facts: a lease may lapse, and a queued event is due.                    *)
(***************************************************************************)
EXTENDS PaymentStates, Naturals, FiniteSets

CONSTANTS
    Workers,        \* worker processes
    Routed,         \* the workers started for the provider this intent names
    SharedWorkerId, \* TRUE: all run under the default --worker-id
    Events,         \* outbox row slots (a settled, unheld slot is reused)
    Orders,         \* payments the provider can hold for this key or receipt
    Idempotent,     \* the provider's create_retries_are_idempotent
    MaxAttempts,    \* max_attempts of an outbox row
    MaxFaults,      \* bound: crashes and unexpected handler exceptions
    MaxLapses,      \* bound: leases that lapse under a live worker
    None

ASSUME ConstantsAssumption ==
    /\ Routed \subseteq Workers
    /\ {SharedWorkerId, Idempotent} \subseteq BOOLEAN
    /\ MaxAttempts \in Nat \ {0}
    /\ MaxFaults \in Nat /\ MaxLapses \in Nat
    /\ None \notin Workers \cup Events \cup Orders /\ Events # {}

VARIABLES
    intent,   \* the payment_intents row
    mission,  \* missions.state
    outbox,   \* the intent's outbox_events rows
    worker,   \* each worker's stage, claimed event and provider answer
    lock,     \* holder of the intent's row lock
    orders,   \* the provider's own records
    sent,     \* webhook events the provider has emitted
    seen,     \* webhook_events: ids already consumed
    posts,    \* create_payment calls issued so far: none, one, or more (2)
    dead,     \* some event of this intent was dead-lettered
    faults, lapses

vars == <<intent, mission, outbox, worker, lock, orders, sent, seen, posts,
          dead, faults, lapses>>
local == <<intent, mission, outbox, lock, seen, dead>>
remote == <<orders, sent, posts>>
budget == <<faults, lapses>>

IntentRow == [state : PaymentIntentState, fenced : BOOLEAN, ambiguous : BOOLEAN,
              linked : Orders \cup {None}]

OutboxStatus == {"PENDING", "IN_PROGRESS", "PROCESSED", "FAILED"}

OutboxRow == [type : {"CREATE", "RECONCILE"}, status : OutboxStatus,
              attempts : 0..MaxAttempts, claimed_by : Workers \cup {None},
              leased : BOOLEAN]

(* A provider answer: a payment ("ok"), no payment, or a ProviderError.    *)
AnswerKind == {"", "ok", "none", "error", "ambiguous", "timeout", "transient",
               "terminal"}
Answer == [kind : AnswerKind, order : Orders \cup {None},
           status : ProviderPaymentStatus]
Said(k) == [kind |-> k, order |-> None, status |-> "PENDING"]
Unasked == Said("")

Stage == {"idle", "claimed", "loaded", "fenced", "recover", "preflight",
          "create", "reconcile", "raised"}
Holding == {"recover", "preflight", "create", "reconcile"}
Idle == [pc |-> "idle", event |-> None, attempts |-> 0, answer |-> Unasked]

(* The provider's record of one order. "own" orders came from a create of  *)
(* this system; "fits" is agreement with the intent's amount and currency; *)
(* an order is found by a receipt search only once it is "visible".        *)
OrderRecord == [status : ProviderPaymentStatus \cup {"absent"},
                own : BOOLEAN, fits : BOOLEAN, visible : BOOLEAN]

-----------------------------------------------------------------------------
(* The outbox                                                              *)

Live(row) == row.status \in {"PENDING", "IN_PROGRESS"}
Held(e) == \E w \in Workers : worker[w].event = e
FreeSlots == {e \in Events : ~Live(outbox[e]) /\ ~Held(e)}

enqueue_outbox_event(t) ==
    [type |-> t, status |-> "PENDING", attempts |-> 0, claimed_by |-> None,
     leased |-> FALSE]

complete_event(row) == [row EXCEPT !.status = "PROCESSED", !.leased = FALSE]

(* Mutation: an event is retried whatever its attempts.                    *)
Bug_NeverDeadLetters(row, n) ==
    [row EXCEPT !.status = "PENDING", !.leased = FALSE]

(* Only the comparison with max_attempts is ever made, so the counter      *)
(* saturates there. "n" is the attempt count of the caller's copy.         *)
reschedule_event(row, n) ==
    [row EXCEPT !.status = IF n >= MaxAttempts THEN "FAILED" ELSE "PENDING",
                !.leased = FALSE]

worker_id(w) == IF SharedWorkerId THEN CHOOSE x \in Workers : TRUE ELSE w

due(row) == \/ row.status = "PENDING"
            \/ row.status = "IN_PROGRESS" /\ ~row.leased

claim_next_event(w, e) ==
    LET n == outbox[e].attempts IN
    /\ worker[w].pc = "idle"
    /\ due(outbox[e])
    /\ outbox' = [outbox EXCEPT ![e] =
                    [@ EXCEPT !.status = "IN_PROGRESS", !.leased = TRUE,
                              !.claimed_by = worker_id(w),
                              !.attempts = IF n < MaxAttempts THEN n + 1 ELSE n]]
    /\ worker' = [worker EXCEPT ![w] = [Idle EXCEPT !.pc = "claimed", !.event = e]]
    /\ UNCHANGED <<intent, mission, lock, seen, dead, remote, budget>>

(* run_once reads its claim back in a new transaction; a claim that has    *)
(* moved to another worker is an error that reschedules nothing.           *)
LoadClaim(w) ==
    LET row == outbox[worker[w].event] IN
    /\ worker[w].pc = "claimed"
    /\ worker' = [worker EXCEPT ![w] =
                    IF row.claimed_by = worker_id(w)
                    THEN [@ EXCEPT !.pc = "loaded", !.attempts = row.attempts]
                    ELSE Idle]
    /\ UNCHANGED <<local, remote, budget>>

-----------------------------------------------------------------------------
(* How a handler ends                                                      *)

(* Mutation: a failed payment leaves its mission open.                     *)
Bug_MissionIgnoresFailure(s) ==
    IF s = "SUCCEEDED" THEN "PAYMENT_SUCCEEDED" ELSE mission

(* The mission follows a settlement, if its own state machine permits.     *)
apply_mission_state(s) ==
    CASE mission = "PAYMENT_PENDING" /\ s = "SUCCEEDED"       -> "PAYMENT_SUCCEEDED"
      [] mission = "PAYMENT_PENDING" /\ s = "FAILED_TERMINAL" -> "PAYMENT_FAILED"
      [] OTHER -> mission

Release(w) == lock' = IF lock = w THEN None ELSE lock

(* The work transaction commits: the intent becomes "row", the claimed     *)
(* event becomes "done", and events of the types "next" join the queue.    *)
Commit(w, row, done, next) ==
    LET e == worker[w].event IN
    /\ intent' = row
    /\ mission' = apply_mission_state(row.state)
    /\ \/ /\ next = {}
          /\ outbox' = [outbox EXCEPT ![e] = done]
       \/ \E t \in next : \E s \in FreeSlots :
             /\ s = CHOOSE x \in FreeSlots : TRUE
             /\ outbox' = [outbox EXCEPT ![e] = done, ![s] = enqueue_outbox_event(t)]
    /\ dead' = (dead \/ done.status = "FAILED")
    /\ worker' = [worker EXCEPT ![w] = Idle]
    /\ Release(w)
    /\ UNCHANGED <<seen, remote, budget>>

Complete(w, row, next) ==
    Commit(w, row, complete_event(outbox[worker[w].event]), next)

Retry(w, row) ==
    Commit(w, row, reschedule_event(outbox[worker[w].event], worker[w].attempts), {})

(* The handler raises: its transaction rolls back and frees the row.       *)
Raise(w) ==
    /\ worker' = [worker EXCEPT ![w] = [@ EXCEPT !.pc = "raised", !.answer = Unasked]]
    /\ Release(w)
    /\ UNCHANGED <<intent, mission, outbox, seen, dead, remote, budget>>

(* The handler keeps the row lock and goes on to provider I/O.             *)
Hold(w, stage) ==
    /\ lock' = w
    /\ worker' = [worker EXCEPT ![w] = [@ EXCEPT !.pc = stage, !.answer = Unasked]]
    /\ UNCHANGED <<intent, mission, outbox, seen, dead, remote, budget>>

(* Mutation: the fence is set in the session and never reaches the row.    *)
Bug_FenceNotDurable(w, row, stage) ==
    /\ intent' = row
    /\ worker' = [worker EXCEPT ![w] = [@ EXCEPT !.pc = stage]]
    /\ UNCHANGED <<mission, outbox, lock, seen, dead, remote, budget>>

(* A one-way fence is committed; the row lock goes with the transaction.   *)
Fence(w, row, stage) ==
    /\ intent' = [row EXCEPT !.fenced = TRUE]
    /\ worker' = [worker EXCEPT ![w] = [@ EXCEPT !.pc = stage]]
    /\ UNCHANGED <<mission, outbox, lock, seen, dead, remote, budget>>

(* run_once's recovery transaction: it re-reads the row and reschedules it *)
(* whatever its status and owner have become.                              *)
Recovery(w) ==
    LET e == worker[w].event
        done == reschedule_event(outbox[e], outbox[e].attempts) IN
    /\ worker[w].pc = "raised"
    /\ outbox' = [outbox EXCEPT ![e] = done]
    /\ dead' = (dead \/ done.status = "FAILED")
    /\ worker' = [worker EXCEPT ![w] = Idle]
    /\ UNCHANGED <<intent, mission, lock, seen, remote, budget>>

-----------------------------------------------------------------------------
(* What a provider answer does to the row                                  *)

requeued(row) ==
    [row EXCEPT !.state = IF @ = "FAILED_RETRYABLE" THEN "QUEUED" ELSE @]

record_payment_attempt(row) ==
    [row EXCEPT !.state = IF @ \in {"QUEUED", "FAILED_RETRYABLE"} THEN "PROCESSING" ELSE @]

(* Mutation: amount and currency of the answer are not compared.           *)
Bug_AmountUnchecked(row, a) == row.linked \notin {None, a.order}

(* validate_provider_payment and link_provider_payment refuse a payment    *)
(* that disagrees with the intent or with an earlier link.                 *)
ProviderPaymentMismatch(row, a) ==
    \/ ~orders[a.order].fits
    \/ row.linked \notin {None, a.order}

(* Mutation: a payment that is still open keeps the attempt's state.       *)
Bug_PendingKeepsAttempt(row, a) ==
    [row EXCEPT !.linked = a.order,
                !.state = IF is_terminal(@) \/ a.status = "PENDING" THEN @
                          ELSE provider_status_to_state(a.status)]

apply_provider_payment(row, a) ==
    [row EXCEPT !.linked = a.order,
                !.state = IF is_terminal(@) THEN @
                          ELSE provider_status_to_state(a.status)]

(* Legal unless the state is already the target or terminal.               *)
Applicable(row, a) ==
    LET target == provider_status_to_state(a.status) IN
    row.state = target \/ is_terminal(row.state) \/ can_transition(row.state, target)

(* Mutation: the provider's own word for an open payment is stored.        *)
Bug_ProviderVocabulary(row, ambiguity) ==
    [row EXCEPT !.state = "PENDING", !.ambiguous = @ \/ ambiguity]

uncertain(row, ambiguity) ==
    [row EXCEPT !.state = "PROVIDER_PENDING", !.ambiguous = @ \/ ambiguity]

(* mark_uncertain, then  complete_event: the payment waits for             *)
(* reconciliation. From a settled state the transition is illegal.         *)
mark_uncertain(w, row, ambiguity) ==
    \/ /\ row.state = "PROVIDER_PENDING" \/ can_transition(row.state, "PROVIDER_PENDING")
       /\ Complete(w, uncertain(row, ambiguity), {"RECONCILE"})
    \/ /\ row.state # "PROVIDER_PENDING" /\ ~can_transition(row.state, "PROVIDER_PENDING")
       /\ Raise(w)

(* Adopt a validated payment: settle it, or leave it to reconciliation.    *)
Adopt(w, row, a) ==
    LET next == apply_provider_payment(row, a) IN
    \/ /\ Applicable(row, a)
       /\ Complete(w, next, IF next.state = "PROVIDER_PENDING" THEN {"RECONCILE"} ELSE {})
    \/ ~Applicable(row, a) /\ Raise(w)

finish_existing_before_create(w, row) ==
    LET a == worker[w].answer IN
    \/ /\ row.ambiguous
       /\ mark_uncertain(w, row, TRUE)
    \/ /\ ~row.ambiguous /\ ProviderPaymentMismatch(row, a)
       /\ mark_uncertain(w, row, FALSE)
    \/ /\ ~row.ambiguous /\ ~ProviderPaymentMismatch(row, a)
       /\ Adopt(w, record_payment_attempt(row), a)

-----------------------------------------------------------------------------
(* dispatch_create: the handler of a CREATE event                          *)

(* The handler takes the row lock before it looks at anything.             *)
Locks(w, t) ==
    /\ worker[w].pc = "loaded" /\ lock = None
    /\ outbox[worker[w].event].type = t

(* A worker of another provider refuses the event.                         *)
validate_provider_route(w) == w \in Routed

Sendable == {"QUEUED", "FAILED_RETRYABLE"}

dispatch_create(w) ==
    /\ Locks(w, "CREATE")
    /\ \/ ~validate_provider_route(w) /\ Raise(w)
       \/ /\ validate_provider_route(w) /\ is_terminal(intent.state)
          /\ Complete(w, intent, {})
       \/ /\ validate_provider_route(w) /\ ~is_terminal(intent.state)
          /\ ~Idempotent /\ intent.fenced
          /\ Hold(w, "recover")
       \/ /\ validate_provider_route(w) /\ (Idempotent \/ ~intent.fenced)
          /\ \/ /\ intent.state = "PROVIDER_PENDING"
                /\ Complete(w, intent, {"RECONCILE"})
             \/ /\ intent.state \in {"CREATED", "PROCESSING"}
                /\ Raise(w)
             \/ /\ intent.state \in Sendable /\ Idempotent
                /\ Hold(w, "preflight")
             \/ /\ intent.state \in Sendable /\ ~Idempotent
                /\ Fence(w, requeued(intent), "fenced")

(* The fence winner locks the row again: only a row that is still QUEUED   *)
(* may be sent; anything else is recovered by search.                      *)
Relock(w) ==
    /\ worker[w].pc = "fenced" /\ lock = None
    /\ Hold(w, IF intent.state = "QUEUED" THEN "preflight" ELSE "recover")

Asked(w, stage) == worker[w].pc = stage /\ worker[w].answer # Unasked

(* Mutation: an empty search after the fence licenses a create.            *)
Bug_EmptySearchCreates(w) ==
    /\ Asked(w, "recover")
    /\ \/ /\ worker[w].answer.kind \in {"error", "ambiguous"}
          /\ mark_uncertain(w, intent, worker[w].answer.kind = "ambiguous")
       \/ worker[w].answer.kind = "none" /\ Hold(w, "create")
       \/ /\ worker[w].answer.kind = "ok"
          /\ finish_existing_before_create(w, intent)

recover_fenced_create(w) ==
    /\ Asked(w, "recover")
    /\ \/ /\ worker[w].answer.kind \in {"error", "ambiguous", "none"}
          /\ mark_uncertain(w, intent, worker[w].answer.kind = "ambiguous")
       \/ /\ worker[w].answer.kind = "ok"
          /\ finish_existing_before_create(w, intent)

(* The lookup before the create: only an empty answer lets it go on.       *)
Preflight(w) ==
    /\ Asked(w, "preflight")
    /\ \/ /\ worker[w].answer.kind \in {"error", "ambiguous"}
          /\ mark_uncertain(w, requeued(intent), worker[w].answer.kind = "ambiguous")
       \/ /\ worker[w].answer.kind = "ok"
          /\ finish_existing_before_create(w, requeued(intent))
       \/ /\ worker[w].answer.kind = "none"
          /\ Hold(w, "create")

(* Mutation: a create that timed out is taken for a refusal.               *)
Bug_TimeoutIsRefusal(w) ==
    /\ Asked(w, "create")
    /\ worker[w].answer.kind \in {"timeout", "terminal"}
    /\ Complete(w, [intent EXCEPT !.state = "FAILED_TERMINAL"], {})

FinishCreate(w) ==
    LET a == worker[w].answer
        row == record_payment_attempt(requeued(intent)) IN
    /\ Asked(w, "create")
    /\ \/ /\ a.kind = "timeout" \/ (a.kind = "transient" /\ ~Idempotent)
          /\ mark_uncertain(w, row, FALSE)
       \/ /\ a.kind = "transient" /\ Idempotent
          /\ Retry(w, [row EXCEPT !.state = "FAILED_RETRYABLE"])
       \/ /\ a.kind = "terminal"
          /\ Complete(w, [row EXCEPT !.state = "FAILED_TERMINAL"], {})
       \/ /\ a.kind = "ok" /\ ProviderPaymentMismatch(row, a)
          /\ mark_uncertain(w, row, FALSE)
       \/ /\ a.kind = "ok" /\ ~ProviderPaymentMismatch(row, a)
          /\ Adopt(w, row, a)

-----------------------------------------------------------------------------
(* reconcile_intent: the handler of a RECONCILE event                      *)

(* An unfenced row of a fenced provider is fenced first, and the handler   *)
(* then starts over on the row it locks again.                             *)
reconcile_intent(w) ==
    /\ Locks(w, "RECONCILE")
    /\ \/ ~validate_provider_route(w) /\ Raise(w)
       \/ /\ validate_provider_route(w) /\ is_terminal(intent.state)
          /\ Complete(w, intent, {})
       \/ /\ validate_provider_route(w) /\ ~is_terminal(intent.state)
          /\ ~Idempotent /\ ~intent.fenced
          /\ Fence(w, intent, "loaded")
       \/ /\ validate_provider_route(w) /\ ~is_terminal(intent.state)
          /\ (Idempotent \/ intent.fenced)
          /\ Hold(w, "reconcile")

(* Keep (or make) the payment uncertain and poll again later.              *)
StayUncertain(w, ambiguity) ==
    \/ /\ intent.state = "PROVIDER_PENDING" \/ can_transition(intent.state, "PROVIDER_PENDING")
       /\ Retry(w, uncertain(intent, ambiguity))
    \/ /\ intent.state # "PROVIDER_PENDING" /\ ~can_transition(intent.state, "PROVIDER_PENDING")
       /\ Raise(w)

(* The provider answered that it holds nothing for this key.               *)
resolve_no_provider_payment(w) ==
    \/ /\ can_transition(intent.state, "FAILED_RETRYABLE")
       /\ Complete(w, [intent EXCEPT !.state = "FAILED_RETRYABLE"], {"CREATE"})
    \/ /\ ~can_transition(intent.state, "FAILED_RETRYABLE")
       /\ Raise(w)

(* The row a refused payment leaves behind: a payment that fits but        *)
(* contradicts the link is refused after the attempt was recorded.         *)
Refused(a) ==
    IF orders[a.order].fits THEN record_payment_attempt(intent) ELSE intent

(* Mutation: a lookup that failed is repeated in place, under the lock.    *)
Bug_RetryInPlace(w) ==
    /\ Asked(w, "reconcile")
    /\ \/ worker[w].answer.kind \in {"error", "none"} /\ Hold(w, "reconcile")
       \/ /\ worker[w].answer.kind \notin {"error", "none"}
          /\ Complete(w, uncertain(intent, FALSE), {})

FinishReconcile(w) ==
    LET a == worker[w].answer
        row == record_payment_attempt(intent)
        next == apply_provider_payment(row, a) IN
    /\ Asked(w, "reconcile")
    /\ \/ a.kind = "error" /\ Retry(w, intent)
       \/ a.kind = "ambiguous" /\ StayUncertain(w, TRUE)
       \/ /\ a.kind \in {"ok", "none"} /\ intent.ambiguous
          /\ StayUncertain(w, TRUE)
       \/ /\ a.kind = "none" /\ ~intent.ambiguous
          /\ \/ intent.linked # None /\ Retry(w, intent)
             \/ intent.linked = None /\ ~Idempotent /\ StayUncertain(w, FALSE)
             \/ intent.linked = None /\ Idempotent /\ resolve_no_provider_payment(w)
       \/ /\ a.kind = "ok" /\ ~intent.ambiguous
          /\ \/ ProviderPaymentMismatch(intent, a) /\ Retry(w, Refused(a))
             \/ /\ ~ProviderPaymentMismatch(intent, a)
                /\ \/ ~Applicable(row, a) /\ Raise(w)
                   \/ /\ Applicable(row, a) /\ next.state = "PROVIDER_PENDING"
                      /\ Retry(w, next)
                   \/ /\ Applicable(row, a) /\ next.state # "PROVIDER_PENDING"
                      /\ Complete(w, next, {})

-----------------------------------------------------------------------------
(* handle_webhook: one verified delivery of event <<o, t>>, one transaction*)

(* Mutation: one-order evidence settles an ambiguous payment.              *)
Bug_WebhookIgnoresAmbiguity(o, t) ==
    LET target == webhook_type_to_state(t) IN
    /\ <<o, t>> \in sent \ seen
    /\ intent.linked = o /\ lock = None
    /\ seen' = seen \cup {<<o, t>>}
    /\ can_transition(intent.state, target)
    /\ intent' = [intent EXCEPT !.state = target]
    /\ mission' = apply_mission_state(target)
    /\ UNCHANGED <<outbox, worker, lock, dead, remote, budget>>

(* Mutation: a delivery is deduplicated before its payment is resolved.    *)
Bug_DedupeBeforeResolve(o, t) ==
    /\ <<o, t>> \in sent \ seen /\ lock = None
    /\ seen' = seen \cup {<<o, t>>}
    /\ intent' = IF intent.linked = o /\ ~intent.ambiguous
                    /\ can_transition(intent.state, webhook_type_to_state(t))
                 THEN [intent EXCEPT !.state = webhook_type_to_state(t)] ELSE intent
    /\ mission' = apply_mission_state(intent'.state)
    /\ UNCHANGED <<outbox, worker, lock, dead, remote, budget>>

(* Mutation: a late delivery is applied whatever the state machine says.   *)
Bug_WebhookRegresses(o, t) ==
    /\ <<o, t>> \in sent \ seen
    /\ intent.linked = o /\ lock = None
    /\ seen' = seen \cup {<<o, t>>}
    /\ intent' = [intent EXCEPT !.state = webhook_type_to_state(t)]
    /\ UNCHANGED <<mission, outbox, worker, lock, dead, remote, budget>>

(* An unlinked payment, a duplicate and a rejected delivery change nothing.*)
handle_webhook(o, t) ==
    LET target == webhook_type_to_state(t) IN
    /\ <<o, t>> \in sent \ seen
    /\ intent.linked = o /\ lock = None
    /\ seen' = seen \cup {<<o, t>>}
    /\ \/ /\ ~intent.ambiguous /\ can_transition(intent.state, target)
          /\ intent' = [intent EXCEPT !.state = target]
          /\ mission' = apply_mission_state(target)
       \/ /\ intent.ambiguous \/ ~can_transition(intent.state, target)
          /\ UNCHANGED <<intent, mission>>
    /\ UNCHANGED <<outbox, worker, lock, dead, remote, budget>>

-----------------------------------------------------------------------------
(* The provider (external), as the adapters in providers/ present it       *)

Present == {o \in Orders : orders[o].status # "absent"}
Found == {o \in Present : orders[o].visible}
Holds(o) == [kind |-> "ok", order |-> o, status |-> orders[o].status]

(* get_payment by idempotency key: every exact match must be unique.       *)
Search ==
    {Said("error")} \cup
    CASE Found = {} -> {Said("none")}
      [] Cardinality(Found) = 1 -> {Holds(o) : o \in Found}
      [] OTHER -> {Said("ambiguous")}

(* get_payment by provider id; a fenced provider may lose sight of it.     *)
Fetch(o) ==
    {Said("error")} \cup (IF o \in Present THEN {Holds(o)} ELSE {})
                   \cup (IF Idempotent THEN {} ELSE {Said("none")})

get_payment(w) ==
    /\ worker[w].pc \in {"recover", "preflight", "reconcile"}
    /\ worker[w].answer = Unasked
    /\ \E a \in IF worker[w].pc = "reconcile" /\ intent.linked # None
                 THEN Fetch(intent.linked) ELSE Search :
          worker' = [worker EXCEPT ![w].answer = a]
    /\ UNCHANGED <<local, remote, budget>>

(* create_payment: the call may or may not take effect, and the answer may *)
(* or may not arrive. An idempotent provider returns what the key already  *)
(* holds; the other one makes a new order whenever the call takes effect.  *)
create_payment(w) ==
    /\ worker[w].pc = "create" /\ worker[w].answer = Unasked
    /\ posts' = IF posts < 2 THEN posts + 1 ELSE posts
    /\ \/ /\ \E k \in {"timeout", "transient", "terminal"} :
                worker' = [worker EXCEPT ![w].answer = Said(k)]
          /\ UNCHANGED orders
       \/ \E o \in Orders, s \in {"PENDING", "SUCCEEDED"}, v \in BOOLEAN,
             k \in {"ok", "timeout"} \cup (IF Idempotent THEN {} ELSE {"transient"}) :
             /\ \/ /\ Idempotent /\ o \in Present
                   /\ UNCHANGED orders
                \/ /\ o \notin Present /\ (Idempotent => Present = {} /\ v)
                   /\ Idempotent \/ s = "PENDING"
                   /\ orders' = [orders EXCEPT ![o] =
                         [status |-> s, own |-> TRUE, fits |-> TRUE, visible |-> v]]
             /\ worker' = [worker EXCEPT ![w].answer =
                   IF k = "ok" THEN [kind |-> "ok", order |-> o, status |-> orders'[o].status]
                   ELSE Said(k)]
    /\ UNCHANGED <<local, sent, budget>>

(* The provider settles an order, or reports on one that is still open.    *)
Settle(o, s) ==
    /\ orders[o].status = "PENDING"
    /\ s = "FAILED" => Idempotent
    /\ orders' = [orders EXCEPT ![o].status = s]
    /\ UNCHANGED <<local, worker, sent, posts, budget>>

Notice(s) == CASE s = "SUCCEEDED" -> "payment.succeeded"
               [] s = "FAILED"    -> "payment.failed"
               [] s = "PENDING"   -> "payment.pending"

Emit(o) ==
    /\ o \in Present /\ <<o, Notice(orders[o].status)>> \notin sent
    /\ sent' = sent \cup {<<o, Notice(orders[o].status)>>}
    /\ UNCHANGED <<local, worker, orders, posts, budget>>

(* A fenced provider's search index lags, and orders that are not of this  *)
(* system's making can carry the same receipt.                             *)
Index(o) ==
    /\ o \in Present \ Found
    /\ orders' = [orders EXCEPT ![o].visible = TRUE]
    /\ UNCHANGED <<local, worker, sent, posts, budget>>

ForeignOrder(o, fits) ==
    /\ ~Idempotent /\ o \notin Present
    /\ \A x \in Present : orders[x].own
    /\ orders' = [orders EXCEPT ![o] =
          [status |-> "PENDING", own |-> FALSE, fits |-> fits, visible |-> TRUE]]
    /\ UNCHANGED <<local, worker, sent, posts, budget>>

-----------------------------------------------------------------------------
(* Faults                                                                  *)

(* The process dies: its transaction rolls back, its claim stays.          *)
Crash(w) ==
    /\ worker[w].pc # "idle" /\ faults < MaxFaults
    /\ faults' = faults + 1
    /\ worker' = [worker EXCEPT ![w] = Idle]
    /\ Release(w)
    /\ UNCHANGED <<intent, mission, outbox, seen, dead, remote, lapses>>

(* Any other exception in the handler, a failed commit included.           *)
Fail(w) ==
    /\ worker[w].pc \in {"loaded", "fenced"} \cup Holding /\ faults < MaxFaults
    /\ faults' = faults + 1
    /\ worker' = [worker EXCEPT ![w] = [@ EXCEPT !.pc = "raised", !.answer = Unasked]]
    /\ Release(w)
    /\ UNCHANGED <<intent, mission, outbox, seen, dead, remote, lapses>>

(* The lease of a claim runs out, after a crash or under a slow worker.    *)
LeaseLapses(e) ==
    /\ outbox[e].status = "IN_PROGRESS" /\ outbox[e].leased
    /\ Held(e) => lapses < MaxLapses
    /\ lapses' = IF Held(e) THEN lapses + 1 ELSE lapses
    /\ outbox' = [outbox EXCEPT ![e].leased = FALSE]
    /\ UNCHANGED <<intent, mission, worker, lock, seen, dead, remote, faults>>

-----------------------------------------------------------------------------
Absent == [status |-> "absent", own |-> FALSE, fits |-> FALSE, visible |-> FALSE]
Row(s, f) == [state |-> s, fenced |-> f, ambiguous |-> FALSE, linked |-> None]
Queue(row) ==
    outbox = [e \in Events |-> IF e = CHOOSE x \in Events : TRUE THEN row
                               ELSE complete_event(enqueue_outbox_event("CREATE"))]

(* A new payment as create_payment_intent leaves it.                       *)
Fresh ==
    /\ intent = Row("QUEUED", FALSE)
    /\ Queue(enqueue_outbox_event("CREATE"))
    /\ orders = [o \in Orders |-> Absent] /\ posts = 0

(* A payment of a fenced provider that migration 0009 found claimed by an  *)
(* older worker, which may have reached the provider.                      *)
Legacy ==
    /\ ~Idempotent
    /\ \E s \in {"QUEUED", "FAILED_RETRYABLE", "PROVIDER_PENDING"} : intent = Row(s, TRUE)
    /\ Queue([enqueue_outbox_event("CREATE") EXCEPT !.attempts = 1])
    /\ posts = 1
    /\ \/ orders = [o \in Orders |-> Absent]
       \/ \E x \in Orders : orders = [o \in Orders |-> IF o = x
             THEN [status |-> "PENDING", own |-> TRUE, fits |-> TRUE, visible |-> FALSE]
             ELSE Absent]

Init ==
    /\ Fresh \/ Legacy
    /\ mission = "PAYMENT_PENDING"
    /\ worker = [w \in Workers |-> Idle] /\ lock = None
    /\ sent = {} /\ seen = {} /\ dead = FALSE
    /\ faults = 0 /\ lapses = 0

Step(w) ==
    \/ \E e \in Events : claim_next_event(w, e)
    \/ LoadClaim(w) \/ dispatch_create(w) \/ Relock(w)
    \/ recover_fenced_create(w) \/ Preflight(w) \/ FinishCreate(w)
    \/ reconcile_intent(w) \/ FinishReconcile(w) \/ Recovery(w)
    \/ get_payment(w) \/ create_payment(w)

Environment ==
    \/ \E o \in Orders, t \in WebhookEventType : handle_webhook(o, t)
    \/ \E o \in Orders : Emit(o) \/ Index(o)
    \/ \E o \in Orders, s \in {"SUCCEEDED", "FAILED"} : Settle(o, s)
    \/ \E o \in Orders, fits \in BOOLEAN : ForeignOrder(o, fits)
    \/ \E w \in Workers : Crash(w) \/ Fail(w)
    \/ \E e \in Events : LeaseLapses(e)

(* With every event settled and every worker idle the system may rest.     *)
Drained ==
    /\ \A e \in Events : ~Live(outbox[e])
    /\ \A w \in Workers : worker[w].pc = "idle"
    /\ UNCHANGED vars

Next == Environment \/ Drained \/ \E w \in Workers : Step(w)

Spec == Init /\ [][Next]_vars

(* Workers loop for ever (run_forever), and the clock that ends an         *)
(* abandoned lease advances.                                               *)
Fairness ==
    /\ \A w \in Workers : WF_vars(Step(w))
    /\ \A e \in Events : WF_vars(~Held(e) /\ LeaseLapses(e))

(* A provider with idempotent create does not fail on every lookup before  *)
(* a create nor on every create. The code has no bound of its own here:    *)
(* each replacement CREATE event starts with a new retry budget.           *)
ProviderAnswers ==
    \A w \in Workers :
        /\ SF_vars(/\ worker[w].pc = "preflight" /\ get_payment(w)
                   /\ worker'[w].answer.kind # "error")
        /\ SF_vars(create_payment(w) /\ worker'[w].answer.kind = "ok")

LiveSpec == Spec /\ Fairness

AnsweredSpec == LiveSpec /\ ProviderAnswers

-----------------------------------------------------------------------------
(* Properties                                                              *)

(* Every variable has its type.                                            *)
TypeOK ==
    /\ intent \in IntentRow
    /\ mission \in {"PAYMENT_PENDING", "PAYMENT_SUCCEEDED", "PAYMENT_FAILED"}
    /\ outbox \in [Events -> OutboxRow]
    /\ worker \in [Workers -> [pc : Stage, event : Events \cup {None},
                                attempts : 0..MaxAttempts, answer : Answer]]
    /\ lock \in Workers \cup {None}
    /\ orders \in [Orders -> OrderRecord]
    /\ sent \subseteq Orders \X WebhookEventType /\ seen \subseteq sent
    /\ posts \in 0..2 /\ dead \in BOOLEAN
    /\ faults \in 0..MaxFaults /\ lapses \in 0..MaxLapses

(* A provider without idempotent create is asked to create at most once    *)
(* for a payment, over every crash, lapsed lease, retried event and        *)
(* reconciliation: the fence of acquire_provider_create_fence is one-way   *)
(* and every later path only searches.                                     *)
SingleCreate == ~Idempotent => posts <= 1

(* Through all retries the provider ends up with at most one order of this *)
(* system's making, whichever kind of create it offers.                    *)
OneOwnOrder == \A o, p \in Orders : orders[o].own /\ orders[p].own => o = p

(* What the rows record of the outcome is true. A payment recorded         *)
(* SUCCEEDED is linked to an order that fits the intent and that the       *)
(* provider itself holds as SUCCEEDED; one recorded FAILED_TERMINAL has no *)
(* order of this system's making that is still open or was paid; and the   *)
(* mission ends as its payment ends, in the same commit. No stale answer,  *)
(* late webhook or mismatching response settles anything.                  *)
RecordBacked ==
    /\ intent.state = "SUCCEEDED" =>
          /\ intent.linked # None
          /\ orders[intent.linked].fits /\ orders[intent.linked].status = "SUCCEEDED"
    /\ intent.state = "FAILED_TERMINAL" =>
          \A o \in Orders : orders[o].own => orders[o].status = "FAILED"
    /\ mission = "PAYMENT_SUCCEEDED" <=> intent.state = "SUCCEEDED"
    /\ mission = "PAYMENT_FAILED" <=> intent.state = "FAILED_TERMINAL"

(* An unsettled payment is never forgotten: some event of its queue is     *)
(* still live, or one was dead-lettered for an operator. complete_event    *)
(* and a stale worker's writes never strand it silently. Nor is it parked  *)
(* in PROCESSING, which dispatch_create would refuse for ever: a handler   *)
(* that records an attempt records its outcome in the same transaction.    *)
NeverStranded ==
    /\ intent.state # "PROCESSING"
    /\ \/ is_terminal(intent.state) \/ dead
       \/ \E e \in Events : Live(outbox[e])

(* Once several orders with one receipt were observed, the payment stays   *)
(* uncertain until an operator acts: no later answer, webhook or retry     *)
(* moves it out of PROVIDER_PENDING.                                       *)
AmbiguityHoldsPending == intent.ambiguous => intent.state = "PROVIDER_PENDING"

(* A verified payment.succeeded event that was consumed (its dedupe row is *)
(* durable, so a redelivery is ignored) did settle the payment, unless an  *)
(* ambiguity forbids it.                                                   *)
ConsumedSuccessSettles ==
    (\E o \in Orders : <<o, "payment.succeeded">> \in seen) =>
        intent.state = "SUCCEEDED" \/ intent.ambiguous

(* No step takes back what is durable: a settled state is final, and the   *)
(* fence, the ambiguity marker and the provider link are set once.         *)
OneWay ==
    [][/\ is_terminal(intent.state) => intent'.state = intent.state
       /\ intent.fenced => intent'.fenced
       /\ intent.ambiguous => intent'.ambiguous
       /\ intent.linked # None => intent'.linked = intent.linked]_vars

(* Every payment is settled in the end, or handed to an operator by a dead *)
(* letter: no interleaving of crashes, lapsed leases, refused routes and   *)
(* unanswered lookups keeps it spinning or forgotten for ever.             *)
EventuallyResolved == <>(is_terminal(intent.state) \/ dead)

(* Whoever takes the row lock gives it back, so webhooks and other workers *)
(* are never shut out for good.                                            *)
LockReleased == lock # None ~> lock = None

(* "Mark an event permanently done" (complete_event): a processed event    *)
(* that a worker still refers to never becomes claimable again.            *)
ProcessedIsPermanent ==
    [][\A e \in Events :
          outbox[e].status = "PROCESSED" /\ Held(e) => outbox'[e].status = "PROCESSED"]_vars
=============================================================================
