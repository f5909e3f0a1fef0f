----------------------- MODULE PaymentExecutorProofs -----------------------
(***************************************************************************)
(* Proofs about PaymentExecutor for any number of workers, outbox rows,    *)
(* provider orders, crashes and lapsed leases: the one permission to       *)
(* create, and what the payment_intents row, its queue and its lock keep   *)
(* through every handler, webhook, crash and lapsed lease.                 *)
(***************************************************************************)
EXTENDS PaymentExecutor, TLAPS

(* A step is left to Zenon, then to SMT, for at most 30 seconds each; one  *)
(* that needs arithmetic, sequences or records names SMT.                  *)
USE ZenonT(30), SMTT(30)

-----------------------------------------------------------------------------
(* Type correctness                                                        *)

(* A worker that is not idle refers to an outbox row: run_once leaves the  *)
(* claim transaction with an event or returns.                             *)
Claimed == \A w \in Workers : worker[w].pc # "idle" => worker[w].event \in Events

TypeInv == TypeOK /\ Claimed

(* The tables of PaymentStates stay inside the state vocabulary.           *)
LEMMA TablesTyped ==
    /\ \A p \in ProviderPaymentStatus : provider_status_to_state(p) \in PaymentIntentState
    /\ \A t \in WebhookEventType : webhook_type_to_state(t) \in PaymentIntentState
BY DEF ProviderPaymentStatus, provider_status_to_state, PaymentIntentState,
       WebhookEventType, webhook_type_to_state

(* Whatever a provider answer does to a row, the result is a row.          *)
LEMMA RowsTyped ==
    ASSUME NEW row \in IntentRow
    PROVE  /\ requeued(row) \in IntentRow
           /\ record_payment_attempt(row) \in IntentRow
           /\ \A b \in BOOLEAN : uncertain(row, b) \in IntentRow
           /\ \A s \in PaymentIntentState : [row EXCEPT !.state = s] \in IntentRow
           /\ [row EXCEPT !.fenced = TRUE] \in IntentRow
           /\ \A a \in Answer : apply_provider_payment(row, a) \in IntentRow
BY TablesTyped DEF IntentRow, requeued, record_payment_attempt, uncertain,
       PaymentIntentState, apply_provider_payment, Answer

(* A settled or rescheduled outbox row is an outbox row.                   *)
LEMMA OutboxTyped ==
    ASSUME NEW row \in OutboxRow
    PROVE  /\ complete_event(row) \in OutboxRow
           /\ \A n \in 0..MaxAttempts : reschedule_event(row, n) \in OutboxRow
BY DEF OutboxRow, OutboxStatus, complete_event, reschedule_event

(* A new outbox row is an outbox row.                                      *)
LEMMA EnqueueTyped ==
    ASSUME NEW t \in {"CREATE", "RECONCILE"}
    PROVE  enqueue_outbox_event(t) \in OutboxRow
BY ConstantsAssumption, SMTT(30) DEF OutboxRow, OutboxStatus, enqueue_outbox_event

(* The idle worker record has its type.                                    *)
LEMMA IdleTyped ==
    /\ Idle \in [pc : Stage, event : Events \cup {None}, attempts : 0..MaxAttempts,
                 answer : Answer]
    /\ Unasked \in Answer /\ \A k \in AnswerKind : Said(k) \in Answer
BY ConstantsAssumption, SMTT(30) DEF Idle, Stage, Unasked, Said, Answer, AnswerKind,
       ProviderPaymentStatus

(* A commit with a typed row, event and continuation keeps the types.      *)
LEMMA CommitTyped ==
    ASSUME TypeInv, NEW w \in Workers, NEW row \in IntentRow, NEW done \in OutboxRow,
           NEW next \in SUBSET {"CREATE", "RECONCILE"}, Commit(w, row, done, next)
    PROVE  TypeInv'
<1>1. outbox' \in [Events -> OutboxRow]
    <2>1. CASE outbox' = [outbox EXCEPT ![worker[w].event] = done]
        BY <2>1 DEF TypeInv, TypeOK
    <2>2. ASSUME NEW t \in next, NEW s \in FreeSlots,
                 outbox' = [outbox EXCEPT ![worker[w].event] = done,
                                          ![s] = enqueue_outbox_event(t)]
          PROVE  outbox' \in [Events -> OutboxRow]
        BY <2>2, EnqueueTyped DEF TypeInv, TypeOK
    <2> QED BY <2>1, <2>2 DEF Commit
<1>2. mission' \in {"PAYMENT_PENDING", "PAYMENT_SUCCEEDED", "PAYMENT_FAILED"}
    BY DEF Commit, apply_mission_state, TypeInv, TypeOK
<1>3. lock' \in Workers \cup {None}
    BY DEF Commit, Release, TypeInv, TypeOK
<1>4. /\ worker' \in [Workers -> [pc : Stage, event : Events \cup {None},
                                  attempts : 0..MaxAttempts, answer : Answer]]
      /\ Claimed'
    BY IdleTyped DEF Commit, TypeInv, TypeOK, Claimed, Idle
<1>5. dead' \in BOOLEAN
    BY DEF Commit, TypeInv, TypeOK
<1> QED BY <1>1, <1>2, <1>3, <1>4, <1>5 DEF Commit, TypeInv, TypeOK, remote, budget

(* Completing the claimed event with a typed row keeps the types.          *)
LEMMA CompleteTyped ==
    ASSUME TypeInv, NEW w \in Workers, worker[w].pc # "idle", NEW row \in IntentRow,
           NEW next \in SUBSET {"CREATE", "RECONCILE"}, Complete(w, row, next)
    PROVE  TypeInv'
<1>1. outbox[worker[w].event] \in OutboxRow
    BY DEF TypeInv, TypeOK, Claimed
<1>2. complete_event(outbox[worker[w].event]) \in OutboxRow
    BY <1>1, OutboxTyped
<1> QED BY <1>2, CommitTyped DEF Complete

(* Rescheduling the claimed event with a typed row keeps the types.        *)
LEMMA RetryTyped ==
    ASSUME TypeInv, NEW w \in Workers, worker[w].pc # "idle", NEW row \in IntentRow,
           Retry(w, row)
    PROVE  TypeInv'
<1>1. outbox[worker[w].event] \in OutboxRow /\ worker[w].attempts \in 0..MaxAttempts
    BY DEF TypeInv, TypeOK, Claimed
<1>2. reschedule_event(outbox[worker[w].event], worker[w].attempts) \in OutboxRow
    BY <1>1, OutboxTyped
<1> QED BY <1>2, CommitTyped, SMTT(30) DEF Retry

(* Raising, holding the lock and fencing keep the types.                   *)
LEMMA StageTyped ==
    ASSUME TypeInv, NEW w \in Workers, worker[w].pc # "idle",
           NEW stage \in Stage, NEW row \in IntentRow,
           Raise(w) \/ Hold(w, stage) \/ Fence(w, row, stage)
    PROVE  TypeInv'
<1>1. CASE Raise(w)
    BY <1>1, IdleTyped DEF Raise, Release, TypeInv, TypeOK, Claimed, Stage, remote, budget
<1>2. CASE Hold(w, stage)
    BY <1>2, IdleTyped DEF Hold, TypeInv, TypeOK, Claimed, remote, budget
<1>3. CASE Fence(w, row, stage)
    BY <1>3, RowsTyped DEF Fence, TypeInv, TypeOK, Claimed, remote, budget
<1> QED BY <1>1, <1>2, <1>3

(* Marking a payment uncertain keeps the types.                            *)
LEMMA UncertainTyped ==
    ASSUME TypeInv, NEW w \in Workers, worker[w].pc # "idle", NEW row \in IntentRow,
           NEW b \in BOOLEAN, mark_uncertain(w, row, b)
    PROVE  TypeInv'
<1>1. uncertain(row, b) \in IntentRow
    BY RowsTyped
<1>2. CASE Complete(w, uncertain(row, b), {"RECONCILE"})
    BY <1>1, <1>2, CompleteTyped
<1>3. CASE Raise(w)
    BY <1>3, StageTyped DEF Stage
<1> QED BY <1>2, <1>3 DEF mark_uncertain

(* Adopting a provider payment keeps the types.                            *)
LEMMA AdoptTyped ==
    ASSUME TypeInv, NEW w \in Workers, worker[w].pc # "idle", NEW row \in IntentRow,
           NEW a \in Answer, Adopt(w, row, a)
    PROVE  TypeInv'
<1> DEFINE next == apply_provider_payment(row, a)
<1>1. next \in IntentRow
    BY RowsTyped
<1>2. ASSUME NEW n \in SUBSET {"CREATE", "RECONCILE"}, Complete(w, next, n)
      PROVE  TypeInv'
    BY <1>1, <1>2, CompleteTyped
<1>3. CASE Raise(w)
    BY <1>3, StageTyped DEF Stage
<1> QED BY <1>2, <1>3 DEF Adopt

(* Finishing on an existing provider payment keeps the types.              *)
LEMMA FinishTyped ==
    ASSUME TypeInv, NEW w \in Workers, worker[w].pc # "idle", NEW row \in IntentRow,
           finish_existing_before_create(w, row)
    PROVE  TypeInv'
<1>1. worker[w].answer \in Answer /\ record_payment_attempt(row) \in IntentRow
    BY RowsTyped DEF TypeInv, TypeOK
<1> QED BY <1>1, UncertainTyped, AdoptTyped DEF finish_existing_before_create

(* The initial states, fresh and migrated, are typed.                      *)
LEMMA InitTyped == Init => TypeInv
<1> SUFFICES ASSUME Init PROVE TypeInv
    OBVIOUS
<1>1. intent \in IntentRow
    <2>1. \A s \in PaymentIntentState, f \in BOOLEAN : Row(s, f) \in IntentRow
        BY DEF Row, IntentRow
    <2>2. CASE Fresh
        BY <2>1, <2>2 DEF Fresh, PaymentIntentState
    <2>3. CASE Legacy
        BY <2>1, <2>3 DEF Legacy, PaymentIntentState
    <2> QED BY <2>2, <2>3 DEF Init
<1>2. outbox \in [Events -> OutboxRow]
    <2>1. enqueue_outbox_event("CREATE") \in OutboxRow
        BY EnqueueTyped
    <2>2. /\ complete_event(enqueue_outbox_event("CREATE")) \in OutboxRow
          /\ [enqueue_outbox_event("CREATE") EXCEPT !.attempts = 1] \in OutboxRow
        BY <2>1, OutboxTyped, ConstantsAssumption, SMTT(30) DEF OutboxRow
    <2> QED BY <2>1, <2>2 DEF Init, Fresh, Legacy, Queue
<1>3. orders \in [Orders -> OrderRecord] /\ posts \in 0..2
    <2>1. /\ Absent \in OrderRecord
          /\ [status |-> "PENDING", own |-> TRUE, fits |-> TRUE, visible |-> FALSE]
                \in OrderRecord
        BY DEF Absent, OrderRecord, ProviderPaymentStatus
    <2>2. CASE Fresh
        BY <2>1, <2>2, SMTT(30) DEF Fresh
    <2>3. CASE Legacy
        <3>1. CASE orders = [o \in Orders |-> Absent]
            BY <2>1, <2>3, <3>1, SMTT(30) DEF Legacy
        <3>2. ASSUME NEW x \in Orders,
                     orders = [o \in Orders |-> IF o = x
                       THEN [status |-> "PENDING", own |-> TRUE, fits |-> TRUE,
                             visible |-> FALSE]
                       ELSE Absent]
              PROVE  orders \in [Orders -> OrderRecord]
            BY <2>1, <3>2
        <3>3. posts \in 0..2
            BY <2>3, SMTT(30) DEF Legacy
        <3> QED BY <2>3, <3>1, <3>2, <3>3 DEF Legacy
    <2> QED BY <2>2, <2>3 DEF Init
<1>4. /\ worker \in [Workers -> [pc : Stage, event : Events \cup {None},
                                 attempts : 0..MaxAttempts, answer : Answer]]
      /\ Claimed
    BY IdleTyped DEF Init, Claimed, Idle
<1>5. /\ mission = "PAYMENT_PENDING" /\ lock = None /\ dead \in BOOLEAN
      /\ sent = {} /\ seen = {} /\ faults = 0 /\ lapses = 0
    BY DEF Init
<1>6. faults \in 0..MaxFaults /\ lapses \in 0..MaxLapses
    BY <1>5, ConstantsAssumption, SMTT(30)
<1> QED BY <1>1, <1>2, <1>3, <1>4, <1>5, <1>6 DEF TypeInv, TypeOK

(* Every worker step keeps the types.                                      *)
LEMMA StepTyped ==
    ASSUME TypeInv, NEW w \in Workers, Step(w)
    PROVE  TypeInv'
<1> USE DEF TypeInv
<1>0. intent \in IntentRow /\ worker[w].answer \in Answer
    BY DEF TypeOK
<1>1. ASSUME NEW e \in Events, claim_next_event(w, e) PROVE TypeInv'
    <2>1. worker_id(w) \in Workers
        BY DEF worker_id
    <2>2. outbox' \in [Events -> OutboxRow]
        <3>1. /\ outbox \in [Events -> OutboxRow]
              /\ outbox[e].attempts \in 0..MaxAttempts
            BY DEF TypeOK, OutboxRow
        <3>2. (IF outbox[e].attempts < MaxAttempts THEN outbox[e].attempts + 1
               ELSE outbox[e].attempts) \in 0..MaxAttempts
            BY <3>1, ConstantsAssumption, SMTT(30)
        <3>3. PICK n \in 0..MaxAttempts : outbox' = [outbox EXCEPT ![e] =
                 [outbox[e] EXCEPT !.status = "IN_PROGRESS", !.leased = TRUE,
                                   !.claimed_by = worker_id(w), !.attempts = n]]
            BY <1>1, <3>2 DEF claim_next_event
        <3>4. [outbox[e] EXCEPT !.status = "IN_PROGRESS", !.leased = TRUE,
                               !.claimed_by = worker_id(w), !.attempts = n] \in OutboxRow
            BY <2>1, <3>1 DEF OutboxRow, OutboxStatus
        <3> QED BY <3>1, <3>3, <3>4
    <2>3. /\ worker' \in [Workers -> [pc : Stage, event : Events \cup {None},
                                      attempts : 0..MaxAttempts, answer : Answer]]
          /\ Claimed'
        BY <1>1, IdleTyped DEF claim_next_event, TypeOK, Claimed, Stage, Idle
    <2> QED BY <1>1, <2>2, <2>3 DEF claim_next_event, TypeOK, remote, budget
<1>2. CASE LoadClaim(w)
    <2>1. outbox[worker[w].event].attempts \in 0..MaxAttempts
        BY <1>2 DEF LoadClaim, TypeOK, Claimed, OutboxRow
    <2> QED BY <1>2, <2>1, IdleTyped
            DEF LoadClaim, TypeOK, Claimed, Stage, Idle, local, remote, budget
<1>4. CASE dispatch_create(w)
    <2>1. requeued(intent) \in IntentRow /\ worker[w].pc # "idle"
        BY <1>0, <1>4, RowsTyped DEF dispatch_create, Locks
    <2> QED BY <1>4, <1>0, <2>1, StageTyped, CompleteTyped DEF dispatch_create, Stage
<1>5. CASE Relock(w)
    BY <1>5, <1>0, StageTyped DEF Relock, Stage
<1>6. CASE recover_fenced_create(w)
    <2>1. worker[w].pc # "idle" /\ (worker[w].answer.kind = "ambiguous") \in BOOLEAN
        BY <1>6 DEF recover_fenced_create, Asked
    <2> QED BY <1>6, <1>0, <2>1, UncertainTyped, FinishTyped DEF recover_fenced_create
<1>7. CASE Preflight(w)
    <2>1. /\ worker[w].pc # "idle" /\ (worker[w].answer.kind = "ambiguous") \in BOOLEAN
          /\ requeued(intent) \in IntentRow
        BY <1>7, <1>0, RowsTyped DEF Preflight, Asked
    <2> QED BY <1>7, <1>0, <2>1, UncertainTyped, FinishTyped, StageTyped DEF Preflight, Stage
<1>8. CASE FinishCreate(w)
    <2> DEFINE row == record_payment_attempt(requeued(intent))
    <2>1. /\ worker[w].pc # "idle" /\ row \in IntentRow
          /\ [row EXCEPT !.state = "FAILED_RETRYABLE"] \in IntentRow
          /\ [row EXCEPT !.state = "FAILED_TERMINAL"] \in IntentRow
        BY <1>8, <1>0, RowsTyped DEF FinishCreate, Asked, PaymentIntentState
    <2>2. CASE mark_uncertain(w, row, FALSE)
        BY <2>1, <2>2, UncertainTyped
    <2>3. CASE Retry(w, [row EXCEPT !.state = "FAILED_RETRYABLE"])
        BY <2>1, <2>3, RetryTyped
    <2>4. CASE Complete(w, [row EXCEPT !.state = "FAILED_TERMINAL"], {})
        BY <2>1, <2>4, CompleteTyped, SMTT(30)
    <2>5. CASE Adopt(w, row, worker[w].answer)
        BY <1>0, <2>1, <2>5, AdoptTyped
    <2> QED BY <1>8, <2>2, <2>3, <2>4, <2>5 DEF FinishCreate
<1>9. CASE reconcile_intent(w)
    BY <1>9, <1>0, StageTyped, CompleteTyped DEF reconcile_intent, Locks, Stage
<1>10. CASE FinishReconcile(w)
    <2> DEFINE next == apply_provider_payment(record_payment_attempt(intent), worker[w].answer)
    <2>1. /\ worker[w].pc # "idle" /\ next \in IntentRow
          /\ Refused(worker[w].answer) \in IntentRow
          /\ uncertain(intent, TRUE) \in IntentRow
          /\ uncertain(intent, FALSE) \in IntentRow
          /\ [intent EXCEPT !.state = "FAILED_RETRYABLE"] \in IntentRow
        BY <1>10, <1>0, RowsTyped DEF FinishReconcile, Asked, Refused, PaymentIntentState
    <2>2. ASSUME NEW row \in IntentRow, Retry(w, row) PROVE TypeInv'
        BY <2>1, <2>2, RetryTyped
    <2>3. ASSUME NEW row \in IntentRow, NEW n \in SUBSET {"CREATE", "RECONCILE"},
                 Complete(w, row, n)
          PROVE  TypeInv'
        BY <2>1, <2>3, CompleteTyped
    <2>4. ASSUME Raise(w) PROVE TypeInv'
        BY <2>1, <2>4, <1>0, StageTyped DEF Stage
    <2>5. ASSUME NEW b \in BOOLEAN, StayUncertain(w, b) PROVE TypeInv'
        BY <1>0, <2>1, <2>2, <2>4, <2>5, RowsTyped DEF StayUncertain
    <2>6. ASSUME resolve_no_provider_payment(w) PROVE TypeInv'
        BY <2>1, <2>3, <2>4, <2>6 DEF resolve_no_provider_payment
    <2>7. Retry(w, intent) => TypeInv'
        BY <1>0, <2>2
    <2>8. Retry(w, Refused(worker[w].answer)) => TypeInv'
        BY <2>1, <2>2
    <2>9. Retry(w, next) => TypeInv'
        BY <2>1, <2>2
    <2>10. Complete(w, next, {}) => TypeInv'
        <3> HIDE DEF next
        <3> QED BY <2>1, <2>3
    <2> QED BY <1>10, <2>4, <2>5, <2>6, <2>7, <2>8, <2>9, <2>10 DEF FinishReconcile
<1>11. CASE Recovery(w)
    <2>1. outbox[worker[w].event] \in OutboxRow
        BY <1>11 DEF Recovery, TypeOK, Claimed
    <2>2. reschedule_event(outbox[worker[w].event], outbox[worker[w].event].attempts)
              \in OutboxRow
        BY <2>1, OutboxTyped DEF OutboxRow
    <2> QED BY <1>11, <2>2, IdleTyped DEF Recovery, TypeOK, Claimed, Idle, remote, budget
<1>12. CASE get_payment(w)
    <2>0. /\ \A o \in Present : Holds(o) \in Answer
          /\ {Said("error"), Said("none"), Said("ambiguous")} \subseteq Answer
        BY IdleTyped DEF Holds, Present, Answer, AnswerKind, TypeOK, OrderRecord
    <2>1. ASSUME NEW o \in Orders PROVE Fetch(o) \subseteq Answer
        BY <2>0 DEF Fetch
    <2>2. Search \subseteq Answer
        BY <2>0 DEF Search, Found
    <2>3. PICK a \in Answer : worker' = [worker EXCEPT ![w].answer = a]
        <3>1. intent.linked # None => intent.linked \in Orders
            BY <1>0 DEF IntentRow
        <3> QED BY <1>12, <2>1, <2>2, <3>1 DEF get_payment
    <2> QED BY <1>12, <2>3, SMTT(30) DEF get_payment, TypeOK, Claimed, local, remote, budget
<1>13. CASE create_payment(w)
    <2>1. /\ orders' \in [Orders -> OrderRecord]
          /\ \E a \in Answer : worker' = [worker EXCEPT ![w].answer = a]
        <3>1. ASSUME NEW k \in {"timeout", "transient", "terminal"},
                     worker' = [worker EXCEPT ![w].answer = Said(k)], UNCHANGED orders
              PROVE  <2>1!1 /\ <2>1!2
            BY <3>1, IdleTyped DEF TypeOK, AnswerKind
        <3>2. ASSUME NEW o \in Orders, NEW s \in {"PENDING", "SUCCEEDED"}, NEW v \in BOOLEAN,
                     NEW k \in {"ok", "timeout", "transient"},
                     \/ o \in Present /\ UNCHANGED orders
                     \/ orders' = [orders EXCEPT ![o] =
                          [status |-> s, own |-> TRUE, fits |-> TRUE, visible |-> v]],
                     worker' = [worker EXCEPT ![w].answer =
                       IF k = "ok"
                       THEN [kind |-> "ok", order |-> o, status |-> orders'[o].status]
                       ELSE Said(k)]
              PROVE  <2>1!1 /\ <2>1!2
            <4>1. orders' \in [Orders -> OrderRecord]
                <5>1. [status |-> s, own |-> TRUE, fits |-> TRUE, visible |-> v] \in OrderRecord
                    BY DEF OrderRecord, ProviderPaymentStatus
                <5> QED BY <3>2, <5>1 DEF TypeOK
            <4>2. orders'[o].status \in ProviderPaymentStatus
                BY <3>2, SMTT(30) DEF TypeOK, OrderRecord, ProviderPaymentStatus, Present
            <4>3. [kind |-> "ok", order |-> o, status |-> orders'[o].status] \in Answer
                BY <4>2 DEF Answer, AnswerKind
            <4> QED BY <3>2, <4>1, <4>3, IdleTyped DEF AnswerKind
        <3> QED BY <1>13, <3>1, <3>2, SMTT(30) DEF create_payment
    <2>2. posts' \in 0..2
        BY <1>13, SMTT(30) DEF create_payment, TypeOK
    <2> QED BY <1>13, <2>1, <2>2, SMTT(30) DEF create_payment, TypeOK, Claimed, local, budget
<1> QED BY <1>1, <1>2, <1>4, <1>5, <1>6, <1>7, <1>8, <1>9, <1>10, <1>11, <1>12,
           <1>13 DEF Step

(* Webhooks, the provider, faults and the clock keep the types.            *)
LEMMA EnvironmentTyped ==
    ASSUME TypeInv, Environment
    PROVE  TypeInv'
<1> USE DEF TypeInv
<1>1. ASSUME NEW o \in Orders, NEW t \in WebhookEventType, handle_webhook(o, t)
      PROVE  TypeInv'
    <2>1. intent' \in IntentRow
        <3>1. /\ intent \in IntentRow
              /\ [intent EXCEPT !.state = webhook_type_to_state(t)] \in IntentRow
            BY TablesTyped, RowsTyped DEF TypeOK
        <3> QED BY <1>1, <3>1 DEF handle_webhook
    <2>2. mission' \in {"PAYMENT_PENDING", "PAYMENT_SUCCEEDED", "PAYMENT_FAILED"}
        BY <1>1 DEF handle_webhook, apply_mission_state, TypeOK
    <2> QED BY <1>1, <2>1, <2>2 DEF handle_webhook, TypeOK, Claimed, remote, budget
<1>2. ASSUME NEW o \in Orders, Emit(o) PROVE TypeInv'
    <2>1. Notice(orders[o].status) \in WebhookEventType
        BY <1>2 DEF Emit, Present, Notice, TypeOK, OrderRecord, ProviderPaymentStatus,
               WebhookEventType
    <2> QED BY <1>2, <2>1, SMTT(30) DEF Emit, TypeOK, Claimed, local, budget
<1>3. ASSUME NEW o \in Orders, Index(o) PROVE TypeInv'
    BY <1>3 DEF Index, TypeOK, OrderRecord, Claimed, local, budget
<1>4. ASSUME NEW o \in Orders, NEW s \in {"SUCCEEDED", "FAILED"}, Settle(o, s)
      PROVE  TypeInv'
    BY <1>4 DEF Settle, TypeOK, OrderRecord, ProviderPaymentStatus, Claimed, local, budget
<1>5. ASSUME NEW o \in Orders, NEW fits \in BOOLEAN, ForeignOrder(o, fits)
      PROVE  TypeInv'
    <2>1. [status |-> "PENDING", own |-> FALSE, fits |-> fits, visible |-> TRUE]
              \in OrderRecord
        BY DEF OrderRecord, ProviderPaymentStatus
    <2> QED BY <1>5, <2>1 DEF ForeignOrder, TypeOK, Claimed, local, budget
<1>6. ASSUME NEW w \in Workers, Crash(w) \/ Fail(w) PROVE TypeInv'
    <2>1. faults' \in 0..MaxFaults /\ lock' \in Workers \cup {None}
        BY <1>6, ConstantsAssumption, SMTT(30) DEF Crash, Fail, Release, TypeOK
    <2>2. /\ worker' \in [Workers -> [pc : Stage, event : Events \cup {None},
                                      attempts : 0..MaxAttempts, answer : Answer]]
          /\ Claimed'
        <3>1. CASE Crash(w)
            BY <3>1, IdleTyped DEF Crash, TypeOK, Claimed, Idle
        <3>2. CASE Fail(w)
            <4>1. worker[w].event \in Events
                BY <3>2 DEF Fail, Holding, Claimed
            <4> QED BY <3>2, <4>1, IdleTyped DEF Fail, TypeOK, Claimed, Stage
        <3> QED BY <1>6, <3>1, <3>2
    <2> QED BY <1>6, <2>1, <2>2 DEF Crash, Fail, TypeOK, remote
<1>7. ASSUME NEW e \in Events, LeaseLapses(e) PROVE TypeInv'
    <2>1. lapses' \in 0..MaxLapses
        BY <1>7, ConstantsAssumption, SMTT(30) DEF LeaseLapses, TypeOK
    <2>2. outbox' \in [Events -> OutboxRow]
        <3>1. [outbox[e] EXCEPT !.leased = FALSE] \in OutboxRow
            BY <1>7 DEF TypeOK, OutboxRow
        <3>2. outbox' = [outbox EXCEPT ![e] = [outbox[e] EXCEPT !.leased = FALSE]]
            BY <1>7 DEF LeaseLapses
        <3> QED BY <3>1, <3>2 DEF TypeOK
    <2> QED BY <1>7, <2>1, <2>2 DEF LeaseLapses, TypeOK, Claimed, remote
<1> QED BY <1>1, <1>2, <1>3, <1>4, <1>5, <1>6, <1>7 DEF Environment

(* Every step of the system keeps the types.                               *)
LEMMA NextTyped == TypeInv /\ [Next]_vars => TypeInv'
<1> SUFFICES ASSUME TypeInv, [Next]_vars PROVE TypeInv'
    OBVIOUS
<1>1. CASE UNCHANGED vars
    BY <1>1 DEF vars, TypeInv, TypeOK, Claimed
<1>2. CASE Environment
    BY <1>2, EnvironmentTyped
<1>3. ASSUME NEW w \in Workers, Step(w) PROVE TypeInv'
    BY <1>3, StepTyped
<1> QED BY <1>1, <1>2, <1>3 DEF Next, Drained

(* The executor is type correct: no handler, webhook, crash or recovery    *)
(* leaves the durable rows outside their vocabulary.                       *)
THEOREM TypeCorrect == Spec => []TypeOK
<1>1. Init => TypeInv
    BY InitTyped
<1>2. TypeInv /\ [Next]_vars => TypeInv'
    BY NextTyped
<1>3. TypeInv => TypeOK
    BY DEF TypeInv
<1> QED BY <1>1, <1>2, <1>3, PTL DEF Spec

-----------------------------------------------------------------------------
(* At most one create                                                      *)

(* A worker that may still issue the create: it committed the fence and    *)
(* has not yet called create_payment.                                      *)
Permitted(w) ==
    \/ worker[w].pc \in {"fenced", "preflight"}
    \/ worker[w].pc = "create" /\ worker[w].answer = Unasked

(* The strengthening of SingleCreate: the permission to create exists only *)
(* behind a durable fence, only before the first call, and in one worker.  *)
OnePermission ==
    ~Idempotent =>
        /\ posts <= 1
        /\ posts # 0 => intent.fenced
        /\ \A w \in Workers : Permitted(w) => intent.fenced /\ posts = 0
        /\ \A v, w \in Workers : Permitted(v) /\ Permitted(w) => v = w

(* A step that issues no create, keeps the fence and gives no worker a     *)
(* permission it did not have keeps the invariant.                         *)
LEMMA NoNewPermission ==
    ASSUME OnePermission, posts' = posts, intent.fenced => intent'.fenced,
           \A w \in Workers : Permitted(w)' => Permitted(w)
    PROVE  OnePermission'
BY DEF OnePermission

(* Ending a handler, or entering a stage that only searches, gives no      *)
(* permission.                                                             *)
LEMMA EndsKeepPermission ==
    ASSUME TypeInv, OnePermission, NEW w \in Workers, NEW row, NEW done, NEW next,
           row.fenced = intent.fenced,
           \/ Commit(w, row, done, next) \/ Raise(w)
           \/ Hold(w, "recover") \/ Hold(w, "reconcile")
    PROVE  OnePermission'
<1>1. posts' = posts /\ (intent.fenced => intent'.fenced)
    BY DEF Commit, Raise, Hold, remote
<1>2. \A v \in Workers : Permitted(v)' => Permitted(v)
    <2>1. CASE Commit(w, row, done, next)
        BY <2>1 DEF Commit, Permitted, Idle, TypeInv, TypeOK
    <2>2. CASE Raise(w)
        BY <2>2 DEF Raise, Permitted, TypeInv, TypeOK
    <2>3. CASE Hold(w, "recover") \/ Hold(w, "reconcile")
        BY <2>3 DEF Hold, Permitted, TypeInv, TypeOK
    <2> QED BY <2>1, <2>2, <2>3
<1> QED BY <1>1, <1>2, NoNewPermission

(* The rows handlers commit carry the fence of the row they read.          *)
LEMMA RowsKeepFence ==
    ASSUME NEW row \in IntentRow
    PROVE  /\ requeued(row).fenced = row.fenced
           /\ record_payment_attempt(row).fenced = row.fenced
           /\ \A b \in BOOLEAN : uncertain(row, b).fenced = row.fenced
           /\ \A s : [row EXCEPT !.state = s].fenced = row.fenced
           /\ \A a : apply_provider_payment(row, a).fenced = row.fenced
BY DEF IntentRow, requeued, record_payment_attempt, uncertain, apply_provider_payment

(* So do the composed endings of the create and reconcile handlers.        *)
LEMMA HandlersKeepPermission ==
    ASSUME TypeInv, OnePermission, NEW w \in Workers, NEW row \in IntentRow,
           row.fenced = intent.fenced,
           \/ \E b \in BOOLEAN : mark_uncertain(w, row, b)
           \/ \E a : Adopt(w, row, a)
           \/ finish_existing_before_create(w, row)
    PROVE  OnePermission'
<1>1. ASSUME NEW r \in IntentRow, r.fenced = intent.fenced, NEW b \in BOOLEAN,
             mark_uncertain(w, r, b)
      PROVE  OnePermission'
    <2>1. uncertain(r, b).fenced = intent.fenced
        BY <1>1, RowsKeepFence
    <2> QED BY <1>1, <2>1, EndsKeepPermission DEF mark_uncertain, Complete
<1>2. ASSUME NEW r \in IntentRow, r.fenced = intent.fenced, NEW a, Adopt(w, r, a)
      PROVE  OnePermission'
    <2>1. apply_provider_payment(r, a).fenced = intent.fenced
        BY <1>2, RowsKeepFence, SMTT(30)
    <2> QED BY <1>2, <2>1, EndsKeepPermission DEF Adopt, Complete
<1>3. ASSUME finish_existing_before_create(w, row) PROVE OnePermission'
    <2>1. /\ record_payment_attempt(row) \in IntentRow
          /\ record_payment_attempt(row).fenced = intent.fenced
        BY RowsTyped, RowsKeepFence
    <2> QED BY <1>1, <1>2, <1>3, <2>1 DEF finish_existing_before_create
<1> QED BY <1>1, <1>2, <1>3

(* The only step that grants the permission finds no fence and commits one,*)
(* and the only step that uses it leaves the stage that holds it.          *)
LEMMA StepKeepsPermission ==
    ASSUME TypeInv, OnePermission, NEW w \in Workers, Step(w)
    PROVE  OnePermission'
<1>0. /\ intent \in IntentRow /\ requeued(intent) \in IntentRow
      /\ requeued(intent).fenced = intent.fenced
    BY RowsTyped, RowsKeepFence DEF TypeInv, TypeOK
<1>1. ASSUME NEW e \in Events, claim_next_event(w, e) PROVE OnePermission'
    <2>1. \A v \in Workers : Permitted(v)' => Permitted(v)
        BY <1>1 DEF claim_next_event, Permitted, Idle, TypeInv, TypeOK
    <2> QED BY <1>1, <2>1, NoNewPermission DEF claim_next_event, remote
<1>2. CASE LoadClaim(w)
    <2>1. \A v \in Workers : Permitted(v)' => Permitted(v)
        BY <1>2 DEF LoadClaim, Permitted, Idle, TypeInv, TypeOK
    <2> QED BY <1>2, <2>1, NoNewPermission DEF LoadClaim, local, remote
<1>4. CASE dispatch_create(w)
    <2>1. CASE Idempotent
        BY <2>1 DEF OnePermission
    <2>2. CASE ~Idempotent /\ ~intent.fenced /\ Fence(w, requeued(intent), "fenced")
        <3>1. intent'.fenced /\ posts' = posts /\ posts = 0
            BY <1>0, <2>2 DEF Fence, remote, OnePermission, IntentRow
        <3>2. \A v \in Workers : Permitted(v)' => v = w
            BY <2>2 DEF Fence, OnePermission, Permitted, TypeInv, TypeOK
        <3> QED BY <3>1, <3>2 DEF OnePermission
    <2>3. CASE \/ \E n : Complete(w, intent, n)
               \/ Raise(w) \/ Hold(w, "recover")
        BY <2>3, EndsKeepPermission DEF Complete
    <2> QED BY <1>4, <2>1, <2>2, <2>3 DEF dispatch_create
<1>5. CASE Relock(w)
    <2>1. CASE Hold(w, "preflight")
        <3>1. \A v \in Workers : Permitted(v)' => Permitted(v)
            BY <1>5, <2>1 DEF Relock, Hold, Permitted, TypeInv, TypeOK
        <3> QED BY <2>1, <3>1, NoNewPermission DEF Hold, remote
    <2>2. CASE Hold(w, "recover")
        BY <2>2, EndsKeepPermission
    <2> QED BY <1>5, <2>1, <2>2 DEF Relock
<1>6. CASE recover_fenced_create(w)
    BY <1>0, <1>6, HandlersKeepPermission DEF recover_fenced_create
<1>7. CASE Preflight(w)
    <2>1. CASE Hold(w, "create")
        <3>1. \A v \in Workers : Permitted(v)' => Permitted(v)
            BY <1>7, <2>1 DEF Preflight, Asked, Hold, Permitted, TypeInv, TypeOK
        <3> QED BY <2>1, <3>1, NoNewPermission DEF Hold, remote
    <2> QED BY <1>0, <1>7, <2>1, HandlersKeepPermission DEF Preflight
<1>8. CASE FinishCreate(w)
    <2> DEFINE row == record_payment_attempt(requeued(intent))
    <2>1. /\ row \in IntentRow /\ row.fenced = intent.fenced
          /\ [row EXCEPT !.state = "FAILED_RETRYABLE"].fenced = intent.fenced
          /\ [row EXCEPT !.state = "FAILED_TERMINAL"].fenced = intent.fenced
        <3>1. row \in IntentRow
            BY <1>0, RowsTyped
        <3>2. row.fenced = intent.fenced
            BY <1>0, RowsKeepFence
        <3> HIDE DEF row
        <3> QED BY <3>1, <3>2, RowsKeepFence
    <2>2. CASE Retry(w, [row EXCEPT !.state = "FAILED_RETRYABLE"])
        BY <2>1, <2>2, EndsKeepPermission DEF Retry
    <2>3. CASE Complete(w, [row EXCEPT !.state = "FAILED_TERMINAL"], {})
        BY <2>1, <2>3, EndsKeepPermission DEF Complete
    <2>4. CASE mark_uncertain(w, row, FALSE) \/ Adopt(w, row, worker[w].answer)
        BY <2>1, <2>4, HandlersKeepPermission
    <2> QED BY <1>8, <2>2, <2>3, <2>4 DEF FinishCreate
<1>9. CASE reconcile_intent(w)
    <2>1. CASE Fence(w, intent, "loaded")
        <3>1. /\ posts' = posts /\ intent'.fenced
              /\ \A v \in Workers : Permitted(v)' => Permitted(v)
            BY <1>0, <2>1 DEF Fence, remote, IntentRow, Permitted, TypeInv, TypeOK
        <3> QED BY <3>1, NoNewPermission
    <2>2. CASE Complete(w, intent, {}) \/ Hold(w, "reconcile") \/ Raise(w)
        BY <2>2, EndsKeepPermission DEF Complete
    <2> QED BY <1>9, <2>1, <2>2 DEF reconcile_intent
<1>10. CASE FinishReconcile(w)
    <2> DEFINE next == apply_provider_payment(record_payment_attempt(intent), worker[w].answer)
    <2>1. /\ next.fenced = intent.fenced
          /\ Refused(worker[w].answer).fenced = intent.fenced
          /\ uncertain(intent, TRUE).fenced = intent.fenced
          /\ uncertain(intent, FALSE).fenced = intent.fenced
          /\ [intent EXCEPT !.state = "FAILED_RETRYABLE"].fenced = intent.fenced
        BY <1>0, RowsTyped, RowsKeepFence DEF Refused
    <2>2. ASSUME NEW row, row.fenced = intent.fenced, NEW n,
                 Retry(w, row) \/ Complete(w, row, n) \/ Raise(w)
          PROVE  OnePermission'
        BY <2>2, EndsKeepPermission DEF Retry, Complete
    <2>3. CASE \/ Retry(w, intent) \/ Retry(w, Refused(worker[w].answer))
               \/ Retry(w, next) \/ Complete(w, next, {}) \/ Raise(w)
        <3> HIDE DEF next
        <3> QED BY <2>1, <2>2, <2>3
    <2>4. CASE StayUncertain(w, TRUE) \/ StayUncertain(w, FALSE)
        BY <2>1, <2>2, <2>4 DEF StayUncertain
    <2>5. CASE resolve_no_provider_payment(w)
        BY <2>1, <2>2, <2>5 DEF resolve_no_provider_payment
    <2> QED BY <1>10, <2>3, <2>4, <2>5 DEF FinishReconcile
<1>11. CASE Recovery(w)
    <2>1. \A v \in Workers : Permitted(v)' => Permitted(v)
        BY <1>11 DEF Recovery, Permitted, Idle, TypeInv, TypeOK
    <2> QED BY <1>11, <2>1, NoNewPermission DEF Recovery, remote
<1>12. CASE get_payment(w)
    <2>1. \A v \in Workers : Permitted(v)' => Permitted(v)
        BY <1>12, SMTT(30) DEF get_payment, Permitted, TypeInv, TypeOK
    <2> QED BY <1>12, <2>1, NoNewPermission DEF get_payment, local, remote
<1>13. CASE create_payment(w)
    <2>1. Permitted(w)
        BY <1>13 DEF create_payment, Permitted
    <2>2. CASE Idempotent
        BY <2>2 DEF OnePermission
    <2>3. CASE ~Idempotent
        <3>1. intent.fenced /\ posts = 0 /\ \A v \in Workers : Permitted(v) => v = w
            BY <2>1, <2>3 DEF OnePermission
        <3>2. intent' = intent /\ posts' = 1
            BY <1>13, <3>1, SMTT(30) DEF create_payment, local
        <3>3. \E a : worker' = [worker EXCEPT ![w].answer = a] /\ a # Unasked
            <4>1. ASSUME NEW k \in {"timeout", "transient", "terminal"},
                         worker' = [worker EXCEPT ![w].answer = Said(k)]
                  PROVE  <3>3
                <5>1. Said(k) # Unasked
                    BY DEF Said, Unasked
                <5> QED BY <4>1, <5>1
            <4>2. ASSUME NEW o, worker' = [worker EXCEPT ![w].answer =
                           [kind |-> "ok", order |-> o, status |-> orders'[o].status]]
                  PROVE  <3>3
                <5>1. [kind |-> "ok", order |-> o, status |-> orders'[o].status] # Unasked
                    BY DEF Said, Unasked
                <5> QED BY <4>2, <5>1
            <4> QED BY <1>13, <4>1, <4>2 DEF create_payment
        <3>4. \A v \in Workers : ~Permitted(v)'
            BY <1>13, <3>1, <3>3, SMTT(30) DEF create_payment, Permitted, TypeInv, TypeOK
        <3> QED BY <3>1, <3>2, <3>4, SMTT(30) DEF OnePermission
    <2> QED BY <2>2, <2>3
<1> QED BY <1>1, <1>2, <1>4, <1>5, <1>6, <1>7, <1>8, <1>9, <1>10, <1>11, <1>12,
           <1>13 DEF Step

(* Webhooks, the provider, faults and the clock neither grant nor use it.  *)
LEMMA EnvironmentKeepsPermission ==
    ASSUME TypeInv, OnePermission, Environment
    PROVE  OnePermission'
<1>1. ASSUME NEW o \in Orders, NEW t \in WebhookEventType, handle_webhook(o, t)
      PROVE  OnePermission'
    <2>1. intent'.fenced = intent.fenced
        <3>1. [intent EXCEPT !.state = webhook_type_to_state(t)].fenced = intent.fenced
            BY RowsKeepFence DEF TypeInv, TypeOK
        <3> QED BY <1>1, <3>1 DEF handle_webhook
    <2> QED BY <1>1, <2>1, NoNewPermission DEF handle_webhook, Permitted, remote
<1>2. ASSUME UNCHANGED <<intent, posts, worker>> PROVE OnePermission'
    BY <1>2, NoNewPermission DEF Permitted
<1>3. ASSUME NEW w \in Workers, Crash(w) \/ Fail(w) PROVE OnePermission'
    <2>1. \A v \in Workers : Permitted(v)' => Permitted(v)
        <3>1. CASE Crash(w)
            BY <3>1 DEF Crash, Permitted, Idle, TypeInv, TypeOK
        <3>2. CASE Fail(w)
            BY <3>2 DEF Fail, Permitted, TypeInv, TypeOK
        <3> QED BY <1>3, <3>1, <3>2
    <2> QED BY <1>3, <2>1, NoNewPermission DEF Crash, Fail, remote
<1> QED BY <1>1, <1>2, <1>3
        DEF Environment, Emit, Index, Settle, ForeignOrder, LeaseLapses, local, remote

(* The permission is an invariant, together with the types.                *)
LEMMA PermissionInvariant ==
    /\ Init => TypeInv /\ OnePermission
    /\ TypeInv /\ OnePermission /\ [Next]_vars => (TypeInv /\ OnePermission)'
<1>1. ASSUME Init PROVE OnePermission
    BY <1>1, SMTT(30) DEF Init, Fresh, Legacy, Row, OnePermission, Permitted, Idle
<1>2. ASSUME TypeInv, OnePermission, [Next]_vars PROVE OnePermission'
    <2>1. CASE UNCHANGED vars
        BY <1>2, <2>1, NoNewPermission DEF vars, Permitted
    <2>2. CASE Environment
        BY <1>2, <2>2, EnvironmentKeepsPermission
    <2>3. ASSUME NEW w \in Workers, Step(w) PROVE OnePermission'
        BY <1>2, <2>3, StepKeepsPermission
    <2> QED BY <1>2, <2>1, <2>2, <2>3 DEF Next, Drained
<1> QED BY <1>1, <1>2, InitTyped, NextTyped

(* A provider without idempotent create is asked to create at most once,   *)
(* for any number of workers, events, crashes and lapsed leases.           *)
THEOREM AtMostOneCreate == Spec => []SingleCreate
<1>1. TypeInv /\ OnePermission => SingleCreate
    BY DEF OnePermission, SingleCreate
<1> QED BY <1>1, PermissionInvariant, PTL DEF Spec

-----------------------------------------------------------------------------
(* The row: an unsettled payment is never forgotten, an ambiguous one      *)
(* stays uncertain, and nothing durable is taken back                      *)

(* Every committed row: no attempt without its outcome, nothing to send    *)
(* once an order is linked, and uncertain as long as it is ambiguous.      *)
Lawful(row) ==
    /\ row.state # "PROCESSING"
    /\ row.linked # None => row.state \notin Sendable
    /\ row.ambiguous => row.state = "PROVIDER_PENDING"

(* What a handler in a holding stage relies on: it has the row lock, and a *)
(* handler about to create still finds the row it may send.                *)
Locking ==
    \A w \in Workers :
        /\ worker[w].pc \in Holding => lock = w
        /\ worker[w].pc \in {"preflight", "create"} => intent.state \in Sendable

(* The mission ends with its payment and not before.                       *)
MissionFollows ==
    /\ mission = "PAYMENT_SUCCEEDED" <=> intent.state = "SUCCEEDED"
    /\ mission = "PAYMENT_FAILED" <=> intent.state = "FAILED_TERMINAL"

Remembered ==
    \/ is_terminal(intent.state) \/ dead
    \/ \E e \in Events : Live(outbox[e])

RowInv == Lawful(intent) /\ Locking /\ MissionFollows /\ Remembered

(* The row may become "row" without taking anything back.                  *)
Follows(row) ==
    /\ is_terminal(intent.state) => row.state = intent.state
    /\ intent.fenced => row.fenced
    /\ intent.ambiguous => row.ambiguous
    /\ intent.linked # None => row.linked = intent.linked

(* A handler's working copy of the row, before it records an outcome.      *)
Copy(row) ==
    /\ row \in IntentRow
    /\ row.fenced = intent.fenced /\ row.ambiguous = intent.ambiguous
    /\ row.linked = intent.linked
    /\ is_terminal(row.state) <=> is_terminal(intent.state)
    /\ is_terminal(intent.state) => row.state = intent.state

(* The handlers' first writes leave a copy.                                *)
LEMMA Copies ==
    ASSUME intent \in IntentRow
    PROVE  /\ Copy(intent) /\ Copy(requeued(intent))
           /\ Copy(record_payment_attempt(intent))
           /\ Copy(record_payment_attempt(requeued(intent)))
BY DEF Copy, requeued, record_payment_attempt, IntentRow, is_terminal,
       TERMINAL_PAYMENT_STATES, PaymentIntentState

(* While the lock is free or w's, no other worker is in a holding stage.   *)
LEMMA OthersOutside ==
    ASSUME Locking, NEW w \in Workers, lock \in {None, w}
    PROVE  \A v \in Workers : v # w => worker[v].pc \notin Holding
BY ConstantsAssumption DEF Locking

(* A commit keeps the invariant if its row is lawful and follows the old   *)
(* one, and the payment is settled or its queue goes on.                   *)
LEMMA CommitKeeps ==
    ASSUME TypeInv, RowInv, NEW w \in Workers, worker[w].pc # "idle", lock \in {None, w},
           NEW row \in IntentRow, Lawful(row), Follows(row),
           NEW done, NEW next, Commit(w, row, done, next),
           \/ is_terminal(row.state) \/ next # {} \/ Live(done) \/ done.status = "FAILED"
    PROVE  RowInv' /\ Follows(intent')
<1>1. intent' = row /\ worker' = [worker EXCEPT ![w] = Idle]
    BY DEF Commit
<1>2. Lawful(intent') /\ Follows(intent')
    BY <1>1
<1>3. Locking'
    <2>1. \A v \in Workers : worker'[v].pc \notin Holding
        BY <1>1, OthersOutside DEF RowInv, TypeInv, TypeOK, Idle, Holding
    <2> QED BY <2>1 DEF Locking, Holding
<1>4. MissionFollows'
    BY <1>1, <1>2 DEF Commit, apply_mission_state, RowInv, MissionFollows, Follows,
       is_terminal, TERMINAL_PAYMENT_STATES, TypeInv, TypeOK
<1>5. Remembered'
    <2>0. worker[w].event \in Events /\ outbox \in [Events -> OutboxRow]
        BY DEF TypeInv, TypeOK, Claimed
    <2>1. CASE is_terminal(row.state)
        BY <1>1, <2>1 DEF Remembered
    <2>2. CASE done.status = "FAILED"
        BY <2>2 DEF Commit, Remembered
    <2>3. CASE next = {} /\ Live(done)
        BY <2>0, <2>3 DEF Commit, Remembered
    <2>4. CASE next # {}
        <3>1. PICK t \in next, s \in FreeSlots :
                 outbox' = [outbox EXCEPT ![worker[w].event] = done,
                                          ![s] = enqueue_outbox_event(t)]
            BY <2>4 DEF Commit
        <3>2. s \in Events /\ outbox'[s] = enqueue_outbox_event(t)
            BY <2>0, <3>1 DEF FreeSlots
        <3>3. Live(outbox'[s])
            BY <3>2, SMTT(30) DEF Live, enqueue_outbox_event
        <3> QED BY <3>2, <3>3 DEF Remembered
    <2> QED BY <2>1, <2>2, <2>3, <2>4
<1> QED BY <1>2, <1>3, <1>4, <1>5 DEF RowInv

(* A rescheduled event is queued again or dead-lettered.                   *)
LEMMA Rescheduled ==
    ASSUME NEW row \in OutboxRow, NEW n
    PROVE  Live(reschedule_event(row, n)) \/ reschedule_event(row, n).status = "FAILED"
BY DEF OutboxRow, reschedule_event, Live

(* So a retry keeps the invariant with any lawful row.                     *)
LEMMA RetryKeeps ==
    ASSUME TypeInv, RowInv, NEW w \in Workers, worker[w].pc # "idle", lock \in {None, w},
           NEW row \in IntentRow, Lawful(row), Follows(row), Retry(w, row)
    PROVE  RowInv' /\ Follows(intent')
<1>1. outbox[worker[w].event] \in OutboxRow
    BY DEF TypeInv, TypeOK, Claimed
<1> QED BY <1>1, Rescheduled, CommitKeeps DEF Retry

(* A raised handler leaves the row alone and gives the lock back.          *)
LEMMA RaiseKeeps ==
    ASSUME TypeInv, RowInv, NEW w \in Workers, Raise(w)
    PROVE  RowInv' /\ Follows(intent')
<1>1. Locking'
    BY ConstantsAssumption DEF RowInv, Locking, Raise, Release, Holding, TypeInv, TypeOK
<1> QED BY <1>1 DEF Raise, RowInv, Lawful, MissionFollows, Remembered, Follows

(* So does marking a copy of the row uncertain.                            *)
LEMMA UncertainKeeps ==
    ASSUME TypeInv, RowInv, NEW w \in Workers, worker[w].pc # "idle", lock \in {None, w},
           NEW row, Copy(row), NEW b \in BOOLEAN,
           mark_uncertain(w, row, b) \/ (row = intent /\ StayUncertain(w, b))
    PROVE  RowInv' /\ Follows(intent')
<1>1. CASE Raise(w)
    BY <1>1, RaiseKeeps
<1>2. CASE row.state = "PROVIDER_PENDING" \/ can_transition(row.state, "PROVIDER_PENDING")
    <2>1. uncertain(row, b) \in IntentRow
        BY RowsTyped DEF Copy
    <2>2. ~is_terminal(row.state)
        BY <1>2 DEF is_terminal, TERMINAL_PAYMENT_STATES, can_transition,
           ALLOWED_PAYMENT_TRANSITIONS
    <2>3. Lawful(uncertain(row, b)) /\ Follows(uncertain(row, b))
        BY <2>2 DEF Copy, IntentRow, uncertain, Lawful, Follows, Sendable
    <2>4. CASE Complete(w, uncertain(row, b), {"RECONCILE"})
        BY <2>1, <2>3, <2>4, CommitKeeps DEF Complete
    <2>5. CASE Retry(w, uncertain(row, b))
        BY <2>1, <2>3, <2>5, RetryKeeps
    <2> QED BY <1>1, <1>2, <2>4, <2>5 DEF mark_uncertain, StayUncertain
<1> QED BY <1>1, <1>2 DEF mark_uncertain, StayUncertain

(* What a provider payment makes of a copy that is not ambiguous and that  *)
(* it agrees with: settled, or uncertain and linked.                       *)
LEMMA AppliedRow ==
    ASSUME NEW row, Copy(row), ~row.ambiguous, NEW a \in Answer,
           row.linked \in {None, a.order}
    PROVE  LET next == apply_provider_payment(row, a)
           IN  /\ next \in IntentRow /\ Lawful(next) /\ Follows(next)
               /\ is_terminal(next.state) \/ next.state = "PROVIDER_PENDING"
<1> DEFINE next == apply_provider_payment(row, a)
<1>1. next \in IntentRow
    BY RowsTyped DEF Copy
<1>2. /\ next.linked = a.order /\ next.fenced = row.fenced /\ next.ambiguous = row.ambiguous
      /\ next.state = IF is_terminal(row.state) THEN row.state
                      ELSE provider_status_to_state(a.status)
    BY DEF apply_provider_payment, Copy, IntentRow
<1>3. provider_status_to_state(a.status) \in {"SUCCEEDED", "FAILED_TERMINAL", "PROVIDER_PENDING"}
    BY DEF Answer, ProviderPaymentStatus, provider_status_to_state
<1>4. is_terminal(next.state) \/ next.state = "PROVIDER_PENDING"
    BY <1>2, <1>3 DEF is_terminal, TERMINAL_PAYMENT_STATES
<1>5. Lawful(next)
    <2>1. next.state \notin Sendable \cup {"PROCESSING"}
        BY <1>4 DEF is_terminal, TERMINAL_PAYMENT_STATES, Sendable
    <2> HIDE DEF next
    <2> QED BY <1>2, <2>1 DEF Lawful
<1>6. Follows(next)
    <2> HIDE DEF next
    <2> QED BY <1>2 DEF Follows, Copy
<1> QED BY <1>1, <1>4, <1>5, <1>6

(* Adopting a payment keeps the invariant.                                 *)
LEMMA AdoptKeeps ==
    ASSUME TypeInv, RowInv, NEW w \in Workers, worker[w].pc # "idle", lock \in {None, w},
           NEW row, Copy(row), ~row.ambiguous, NEW a \in Answer,
           ~ProviderPaymentMismatch(row, a), Adopt(w, row, a)
    PROVE  RowInv' /\ Follows(intent')
<1> DEFINE next == apply_provider_payment(row, a)
<1>1. row.linked \in {None, a.order}
    BY DEF ProviderPaymentMismatch
<1>2. /\ next \in IntentRow /\ Lawful(next) /\ Follows(next)
      /\ is_terminal(next.state) \/ next.state = "PROVIDER_PENDING"
    BY <1>1, AppliedRow
<1>3. CASE Raise(w)
    BY <1>3, RaiseKeeps
<1>4. CASE Complete(w, next, IF next.state = "PROVIDER_PENDING" THEN {"RECONCILE"} ELSE {})
    <2> HIDE DEF next
    <2> QED BY <1>2, <1>4, CommitKeeps DEF Complete
<1> QED BY <1>3, <1>4 DEF Adopt

(* Finishing on a payment found before the create keeps the invariant.     *)
LEMMA FinishKeeps ==
    ASSUME TypeInv, RowInv, NEW w \in Workers, worker[w].pc # "idle", lock \in {None, w},
           NEW row \in {intent, requeued(intent)}, finish_existing_before_create(w, row)
    PROVE  RowInv' /\ Follows(intent')
<1>1. /\ Copy(row) /\ Copy(record_payment_attempt(row))
      /\ record_payment_attempt(row).linked = row.linked
      /\ record_payment_attempt(row).ambiguous = row.ambiguous
    BY Copies DEF TypeInv, TypeOK, Copy
<1>2. worker[w].answer \in Answer
    BY DEF TypeInv, TypeOK
<1>3. CASE \E b \in BOOLEAN : mark_uncertain(w, row, b)
    BY <1>1, <1>3, UncertainKeeps
<1>4. CASE /\ ~row.ambiguous /\ ~ProviderPaymentMismatch(row, worker[w].answer)
           /\ Adopt(w, record_payment_attempt(row), worker[w].answer)
    <2>1. ~ProviderPaymentMismatch(record_payment_attempt(row), worker[w].answer)
        BY <1>1, <1>4 DEF ProviderPaymentMismatch
    <2> QED BY <1>1, <1>2, <1>4, <2>1, AdoptKeeps
<1> QED BY <1>3, <1>4 DEF finish_existing_before_create

(* Taking the lock, or keeping it, for a stage whose premise holds.        *)
LEMMA HoldKeeps ==
    ASSUME TypeInv, RowInv, NEW w \in Workers, lock \in {None, w}, NEW stage,
           stage \in {"preflight", "create"} => intent.state \in Sendable, Hold(w, stage)
    PROVE  RowInv' /\ Follows(intent')
<1>1. Locking'
    <2>1. \A v \in Workers : v # w => worker'[v].pc \notin Holding
        BY OthersOutside DEF RowInv, Hold, TypeInv, TypeOK
    <2>2. worker'[w].pc = stage /\ lock' = w /\ intent' = intent
        BY DEF Hold, TypeInv, TypeOK
    <2> QED BY <2>1, <2>2 DEF Locking, Holding
<1> QED BY <1>1 DEF Hold, RowInv, Lawful, MissionFollows, Remembered, Follows

(* Committing the fence, with the row free and unsettled.                  *)
LEMMA FenceKeeps ==
    ASSUME TypeInv, RowInv, NEW w \in Workers, lock = None, ~is_terminal(intent.state),
           NEW row \in {intent, requeued(intent)}, NEW stage \in {"fenced", "loaded"},
           Fence(w, row, stage)
    PROVE  RowInv' /\ Follows(intent')
<1>1. Copy(row)
    BY Copies DEF TypeInv, TypeOK
<1>2. /\ intent'.state = row.state /\ intent'.fenced
      /\ intent'.ambiguous = row.ambiguous /\ intent'.linked = row.linked
    BY <1>1 DEF Fence, Copy, IntentRow
<1>3. \/ row.state = intent.state
      \/ row.state = "QUEUED" /\ intent.state = "FAILED_RETRYABLE"
    BY DEF requeued, TypeInv, TypeOK, IntentRow
<1>4. Lawful(intent')
    BY <1>1, <1>2, <1>3 DEF RowInv, Lawful, Copy, Sendable
<1>5. Follows(intent')
    BY <1>1, <1>2 DEF Follows, Copy
<1>6. Locking'
    <2>1. \A v \in Workers : worker'[v].pc \notin Holding
        BY OthersOutside DEF RowInv, Fence, TypeInv, TypeOK, Holding
    <2> QED BY <2>1 DEF Locking, Holding
<1>7. MissionFollows'
    BY <1>2, <1>3 DEF RowInv, MissionFollows, Fence
<1>8. Remembered'
    BY DEF RowInv, Remembered, Fence
<1> QED BY <1>4, <1>5, <1>6, <1>7, <1>8 DEF RowInv

(* Every worker step keeps the invariant and takes nothing back.           *)
LEMMA StepKeepsRow ==
    ASSUME TypeInv, RowInv, NEW w \in Workers, Step(w)
    PROVE  RowInv' /\ Follows(intent')
<1> DEFINE Goal == RowInv' /\ Follows(intent')
<1>0. /\ intent \in IntentRow /\ worker[w].answer \in Answer
      /\ Copy(intent) /\ Copy(requeued(intent)) /\ Copy(record_payment_attempt(intent))
      /\ Copy(record_payment_attempt(requeued(intent)))
      /\ Lawful(intent) /\ Follows(intent)
    BY Copies DEF TypeInv, TypeOK, RowInv, Follows
<1>a. worker[w].pc \in Holding => lock = w
    BY DEF RowInv, Locking
<1>1. ASSUME NEW e \in Events, claim_next_event(w, e) PROVE Goal
    <2>1. Locking'
        BY <1>1 DEF claim_next_event, RowInv, Locking, Idle, Holding, TypeInv, TypeOK
    <2>2. Remembered'
        <3>1. /\ outbox \in [Events -> OutboxRow]
              /\ outbox'[e].status = "IN_PROGRESS"
            BY <1>1 DEF claim_next_event, TypeInv, TypeOK, OutboxRow
        <3> QED BY <3>1 DEF Remembered, Live
    <2> QED BY <1>0, <1>1, <2>1, <2>2 DEF claim_next_event, RowInv, MissionFollows
<1>2. CASE LoadClaim(w)
    <2>1. Locking'
        BY <1>2 DEF LoadClaim, RowInv, Locking, Idle, Holding, TypeInv, TypeOK, local
    <2> QED BY <1>0, <1>2, <2>1 DEF LoadClaim, RowInv, MissionFollows, Remembered, local
<1>4. CASE dispatch_create(w)
    <2>1. worker[w].pc # "idle" /\ lock = None
        BY <1>4 DEF dispatch_create, Locks
    <2>2. CASE is_terminal(intent.state) /\ Complete(w, intent, {})
        BY <1>0, <2>1, <2>2, CommitKeeps DEF Complete
    <2>3. CASE Complete(w, intent, {"RECONCILE"})
        BY <1>0, <2>1, <2>3, CommitKeeps DEF Complete
    <2>4. CASE Raise(w)
        BY <2>4, RaiseKeeps
    <2>5. CASE Hold(w, "recover") \/ (intent.state \in Sendable /\ Hold(w, "preflight"))
        BY <2>1, <2>5, HoldKeeps
    <2>6. CASE intent.state \in Sendable /\ Fence(w, requeued(intent), "fenced")
        <3>1. ~is_terminal(intent.state)
            BY <2>6 DEF Sendable, is_terminal, TERMINAL_PAYMENT_STATES
        <3> QED BY <2>1, <2>6, <3>1, FenceKeeps
    <2> QED BY <1>4, <2>2, <2>3, <2>4, <2>5, <2>6 DEF dispatch_create
<1>5. CASE Relock(w)
    <2>1. "QUEUED" \in Sendable
        BY DEF Sendable
    <2> QED BY <1>5, <2>1, HoldKeeps DEF Relock
<1>6. CASE recover_fenced_create(w)
    <2>1. worker[w].pc # "idle" /\ lock \in {None, w}
        BY <1>6, <1>a DEF recover_fenced_create, Asked, Holding
    <2> QED BY <1>0, <1>6, <2>1, UncertainKeeps, FinishKeeps DEF recover_fenced_create
<1>7. CASE Preflight(w)
    <2>1. /\ worker[w].pc # "idle" /\ lock \in {None, w}
          /\ intent.state \in Sendable
        BY <1>7, <1>a DEF Preflight, Asked, Holding, RowInv, Locking
    <2> QED BY <1>0, <1>7, <2>1, UncertainKeeps, FinishKeeps, HoldKeeps DEF Preflight
<1>8. CASE FinishCreate(w)
    <2> DEFINE row == record_payment_attempt(requeued(intent))
    <2>1. /\ worker[w].pc # "idle" /\ lock \in {None, w}
          /\ intent.state \in Sendable
        BY <1>8, <1>a DEF FinishCreate, Asked, Holding, RowInv, Locking
    <2>2. ~intent.ambiguous /\ intent.linked = None /\ ~is_terminal(intent.state)
        BY <1>0, <2>1 DEF Lawful, Sendable, is_terminal, TERMINAL_PAYMENT_STATES
    <2>3. Copy(row)
        BY <1>0
    <2> HIDE DEF row
    <2>4. \A s \in {"FAILED_RETRYABLE", "FAILED_TERMINAL"} :
             LET r == [row EXCEPT !.state = s]
             IN  r \in IntentRow /\ Lawful(r) /\ Follows(r) /\ r.state = s
        BY <2>2, <2>3 DEF Copy, IntentRow, PaymentIntentState, Lawful, Follows
    <2>5. CASE mark_uncertain(w, row, FALSE)
        BY <2>1, <2>3, <2>5, UncertainKeeps
    <2>6. CASE Retry(w, [row EXCEPT !.state = "FAILED_RETRYABLE"])
        BY <2>1, <2>4, <2>6, RetryKeeps
    <2>7. CASE Complete(w, [row EXCEPT !.state = "FAILED_TERMINAL"], {})
        <3>1. is_terminal("FAILED_TERMINAL")
            BY DEF is_terminal, TERMINAL_PAYMENT_STATES
        <3> QED BY <2>1, <2>4, <2>7, <3>1, CommitKeeps DEF Complete
    <2>8. CASE /\ ~ProviderPaymentMismatch(row, worker[w].answer)
               /\ Adopt(w, row, worker[w].answer)
        <3>1. ~row.ambiguous
            BY <2>2, <2>3 DEF Copy
        <3> QED BY <1>0, <2>1, <2>3, <2>8, <3>1, AdoptKeeps
    <2> QED BY <1>8, <2>5, <2>6, <2>7, <2>8 DEF FinishCreate, row
<1>9. CASE reconcile_intent(w)
    <2>1. worker[w].pc # "idle" /\ lock = None
        BY <1>9 DEF reconcile_intent, Locks
    <2>2. CASE is_terminal(intent.state) /\ Complete(w, intent, {})
        BY <1>0, <2>1, <2>2, CommitKeeps DEF Complete
    <2>3. CASE ~is_terminal(intent.state) /\ Fence(w, intent, "loaded")
        BY <2>1, <2>3, FenceKeeps
    <2>4. CASE Hold(w, "reconcile")
        BY <2>1, <2>4, HoldKeeps
    <2>5. CASE Raise(w)
        BY <2>5, RaiseKeeps
    <2> QED BY <1>9, <2>2, <2>3, <2>4, <2>5 DEF reconcile_intent
<1>10. CASE FinishReconcile(w)
    <2> DEFINE a == worker[w].answer
               next == apply_provider_payment(record_payment_attempt(intent), a)
    <2>1. worker[w].pc # "idle" /\ lock \in {None, w}
        BY <1>10, <1>a DEF FinishReconcile, Asked, Holding
    <2>2. CASE Raise(w)
        BY <2>2, RaiseKeeps
    <2>3. CASE Retry(w, intent)
        BY <1>0, <2>1, <2>3, RetryKeeps
    <2>4. CASE StayUncertain(w, TRUE) \/ StayUncertain(w, FALSE)
        BY <1>0, <2>1, <2>4, UncertainKeeps
    <2>5. CASE intent.linked = None /\ ~intent.ambiguous /\ resolve_no_provider_payment(w)
        <3>1. CASE can_transition(intent.state, "FAILED_RETRYABLE")
            <4> DEFINE r == [intent EXCEPT !.state = "FAILED_RETRYABLE"]
            <4>1. ~is_terminal(intent.state)
                BY <3>1 DEF can_transition, ALLOWED_PAYMENT_TRANSITIONS, is_terminal,
                   TERMINAL_PAYMENT_STATES
            <4>2. r \in IntentRow /\ Lawful(r) /\ Follows(r)
                BY <1>0, <2>5, <4>1 DEF IntentRow, PaymentIntentState, Lawful, Follows
            <4> HIDE DEF r
            <4> QED BY <2>1, <2>2, <2>5, <4>2, CommitKeeps
                    DEF resolve_no_provider_payment, Complete, r
        <3> QED BY <2>2, <2>5, <3>1 DEF resolve_no_provider_payment
    <2>6. CASE ProviderPaymentMismatch(intent, a) /\ Retry(w, Refused(a))
        <3>1. Refused(a) \in IntentRow /\ Lawful(Refused(a)) /\ Follows(Refused(a))
            <4>1. CASE orders[a.order].fits
                <5>1. intent.linked # None
                    BY <2>6, <4>1 DEF ProviderPaymentMismatch
                <5>2. Refused(a) \in IntentRow /\ Refused(a).state = intent.state
                      /\ Refused(a).linked = intent.linked
                      /\ Refused(a).ambiguous = intent.ambiguous
                      /\ Refused(a).fenced = intent.fenced
                    BY <1>0, <4>1, <5>1 DEF Refused, record_payment_attempt, Lawful,
                       Sendable, IntentRow
                <5> QED BY <1>0, <5>2 DEF Lawful, Follows
            <4> QED BY <1>0, <4>1 DEF Refused
        <3> QED BY <2>1, <2>6, <3>1, RetryKeeps
    <2>7. CASE /\ ~intent.ambiguous /\ ~ProviderPaymentMismatch(intent, a)
               /\ \/ Retry(w, next)
                  \/ next.state # "PROVIDER_PENDING" /\ Complete(w, next, {})
        <3>1. /\ record_payment_attempt(intent).linked \in {None, a.order}
              /\ ~record_payment_attempt(intent).ambiguous
            BY <1>0, <2>7 DEF ProviderPaymentMismatch, Copy
        <3>2. /\ next \in IntentRow /\ Lawful(next) /\ Follows(next)
              /\ is_terminal(next.state) \/ next.state = "PROVIDER_PENDING"
            BY <1>0, <3>1, AppliedRow
        <3> HIDE DEF next
        <3> QED BY <2>1, <2>7, <3>2, RetryKeeps, CommitKeeps DEF Complete
    <2> QED BY <1>10, <2>2, <2>3, <2>4, <2>5, <2>6, <2>7 DEF FinishReconcile
<1>11. CASE Recovery(w)
    <2>1. Locking'
        BY <1>11 DEF Recovery, RowInv, Locking, Idle, Holding, TypeInv, TypeOK
    <2>2. Remembered'
        <3>1. /\ worker[w].event \in Events /\ outbox \in [Events -> OutboxRow]
              /\ outbox[worker[w].event] \in OutboxRow
            BY <1>11 DEF Recovery, TypeInv, TypeOK, Claimed
        <3> QED BY <1>11, <3>1, Rescheduled DEF Recovery, Remembered
    <2> QED BY <1>0, <1>11, <2>1, <2>2 DEF Recovery, RowInv, MissionFollows
<1>12. CASE get_payment(w)
    <2>1. Locking'
        BY <1>12, SMTT(30) DEF get_payment, RowInv, Locking, TypeInv, TypeOK, local
    <2> QED BY <1>0, <1>12, <2>1 DEF get_payment, RowInv, MissionFollows, Remembered, local
<1>13. CASE create_payment(w)
    <2>1. \A v \in Workers : worker'[v].pc = worker[v].pc
        BY <1>13, SMTT(30) DEF create_payment, TypeInv, TypeOK
    <2>2. Locking'
        BY <1>13, <2>1 DEF create_payment, RowInv, Locking, local
    <2> QED BY <1>0, <1>13, <2>2 DEF create_payment, RowInv, MissionFollows, Remembered, local
<1> QED BY <1>1, <1>2, <1>4, <1>5, <1>6, <1>7, <1>8, <1>9, <1>10, <1>11, <1>12,
           <1>13 DEF Step

(* So does everything around the workers.                                  *)
LEMMA EnvironmentKeepsRow ==
    ASSUME TypeInv, RowInv, Environment
    PROVE  RowInv' /\ Follows(intent')
<1>1. ASSUME NEW o \in Orders, NEW t \in WebhookEventType, handle_webhook(o, t)
      PROVE  RowInv' /\ Follows(intent')
    <2> DEFINE target == webhook_type_to_state(t)
    <2>0. target \in {"SUCCEEDED", "FAILED_TERMINAL", "PROVIDER_PENDING"}
        BY DEF WebhookEventType, webhook_type_to_state
    <2>1. CASE UNCHANGED <<intent, mission>>
        BY <1>1, <2>1 DEF handle_webhook, RowInv, Lawful, Locking, MissionFollows,
           Remembered, Follows
    <2>2. CASE /\ ~intent.ambiguous /\ can_transition(intent.state, target)
               /\ intent' = [intent EXCEPT !.state = target]
               /\ mission' = apply_mission_state(target)
        <3>1. ~is_terminal(intent.state)
            BY <2>2 DEF can_transition, ALLOWED_PAYMENT_TRANSITIONS, is_terminal,
               TERMINAL_PAYMENT_STATES
        <3>2. /\ intent'.state = target /\ intent'.ambiguous = intent.ambiguous
              /\ intent'.fenced = intent.fenced /\ intent'.linked = intent.linked
            BY <2>2 DEF TypeInv, TypeOK, IntentRow
        <3> HIDE DEF target
        <3>3. Lawful(intent') /\ Follows(intent')
            BY <2>0, <2>2, <3>1, <3>2 DEF Lawful, Follows, Sendable
        <3>4. Locking'
            <4>1. lock = None /\ worker' = worker /\ lock' = lock
                BY <1>1 DEF handle_webhook
            <4>2. \A v \in Workers : worker'[v].pc \notin Holding
                BY <4>1, ConstantsAssumption DEF RowInv, Locking
            <4> QED BY <4>2 DEF Locking, Holding
        <3>5. MissionFollows'
            BY <2>0, <2>2, <3>1, <3>2 DEF RowInv, MissionFollows, apply_mission_state,
               is_terminal, TERMINAL_PAYMENT_STATES, TypeInv, TypeOK
        <3>6. Remembered'
            BY <1>1, <3>1 DEF handle_webhook, RowInv, Remembered
        <3> QED BY <3>3, <3>4, <3>5, <3>6 DEF RowInv
    <2> QED BY <1>1, <2>1, <2>2 DEF handle_webhook
<1>2. ASSUME UNCHANGED <<intent, mission, outbox, worker, lock, dead>>
      PROVE  RowInv' /\ Follows(intent')
    BY <1>2 DEF RowInv, Lawful, Locking, MissionFollows, Remembered, Follows
<1>3. ASSUME NEW w \in Workers, Crash(w) \/ Fail(w) PROVE RowInv' /\ Follows(intent')
    <2>1. worker'[w].pc \notin Holding /\ \A v \in Workers : v # w => worker'[v] = worker[v]
        <3>0. worker \in [Workers -> [pc : Stage, event : Events \cup {None},
                                     attempts : 0..MaxAttempts, answer : Answer]]
            BY DEF TypeInv, TypeOK
        <3>1. CASE Crash(w)
            BY <3>0, <3>1 DEF Crash, Idle, Holding
        <3>2. CASE Fail(w)
            BY <3>0, <3>2 DEF Fail, Holding
        <3> QED BY <1>3, <3>1, <3>2
    <2>2. lock' = IF lock = w THEN None ELSE lock
        BY <1>3 DEF Crash, Fail, Release
    <2>3. Locking'
        BY <1>3, <2>1, <2>2 DEF Crash, Fail, RowInv, Locking, Holding
    <2> QED BY <1>3, <2>3 DEF Crash, Fail, RowInv, Lawful, MissionFollows, Remembered, Follows
<1>4. ASSUME NEW e \in Events, LeaseLapses(e) PROVE RowInv' /\ Follows(intent')
    <2>1. Remembered'
        <3>1. \A x \in Events : outbox'[x].status = outbox[x].status
            BY <1>4 DEF LeaseLapses, TypeInv, TypeOK, OutboxRow
        <3> QED BY <1>4, <3>1 DEF LeaseLapses, RowInv, Remembered, Live
    <2> QED BY <1>4, <2>1 DEF LeaseLapses, RowInv, Lawful, Locking, MissionFollows, Follows
<1> QED BY <1>1, <1>2, <1>3, <1>4
        DEF Environment, Emit, Index, Settle, ForeignOrder, local

(* The invariant holds initially and every step keeps it.                  *)
LEMMA RowInvariant ==
    /\ Init => TypeInv /\ RowInv
    /\ TypeInv /\ RowInv /\ [Next]_vars => (TypeInv /\ RowInv)' /\ Follows(intent')
<1>1. ASSUME Init PROVE RowInv
    <2>1. /\ intent.state \in {"QUEUED", "FAILED_RETRYABLE", "PROVIDER_PENDING"}
          /\ ~intent.ambiguous /\ intent.linked = None
        BY <1>1, SMTT(30) DEF Init, Fresh, Legacy, Row
    <2>2. Lawful(intent) /\ MissionFollows
        BY <1>1, <2>1 DEF Init, Lawful, MissionFollows
    <2>3. Locking
        BY <1>1 DEF Init, Locking, Idle, Holding
    <2>4. Remembered
        <3> DEFINE first == CHOOSE x \in Events : TRUE
        <3>1. first \in Events
            BY ConstantsAssumption
        <3>2. \/ outbox[first] = enqueue_outbox_event("CREATE")
              \/ outbox[first] = [enqueue_outbox_event("CREATE") EXCEPT !.attempts = 1]
            BY <1>1, <3>1 DEF Init, Fresh, Legacy, Queue
        <3>3. Live(outbox[first])
            BY <3>2, SMTT(30) DEF Live, enqueue_outbox_event
        <3> QED BY <3>1, <3>3 DEF Remembered
    <2> QED BY <2>2, <2>3, <2>4 DEF RowInv
<1>2. ASSUME TypeInv, RowInv, [Next]_vars PROVE RowInv' /\ Follows(intent')
    <2>1. CASE UNCHANGED vars
        BY <1>2, <2>1 DEF vars, RowInv, Lawful, Locking, MissionFollows, Remembered, Follows
    <2>2. CASE Environment
        BY <1>2, <2>2, EnvironmentKeepsRow
    <2>3. ASSUME NEW w \in Workers, Step(w) PROVE RowInv' /\ Follows(intent')
        BY <1>2, <2>3, StepKeepsRow
    <2> QED BY <1>2, <2>1, <2>2, <2>3 DEF Next, Drained
<1> QED BY <1>1, <1>2, InitTyped, NextTyped

(* An unsettled payment is never forgotten nor parked in PROCESSING,       *)
(* whatever crashes, lapses and overtakes: every handler that completes    *)
(* its event settles the payment or enqueues the next one in one commit.   *)
THEOREM NeverForgotten == Spec => []NeverStranded
<1>1. TypeInv /\ RowInv => NeverStranded
    BY DEF RowInv, Lawful, Remembered, NeverStranded
<1> QED BY <1>1, RowInvariant, PTL DEF Spec

(* An ambiguous payment stays PROVIDER_PENDING: no handler or webhook      *)
(* settles it.                                                             *)
THEOREM AmbiguousStaysPending == Spec => []AmbiguityHoldsPending
<1>1. TypeInv /\ RowInv => AmbiguityHoldsPending
    BY DEF RowInv, Lawful, AmbiguityHoldsPending
<1> QED BY <1>1, RowInvariant, PTL DEF Spec

(* No step takes back a settled state, the fence, the ambiguity marker or  *)
(* the provider link: a stale handler never overwrites what a webhook or   *)
(* another worker committed.                                               *)
THEOREM NothingUndone == Spec => OneWay
<1> DEFINE Kept == /\ is_terminal(intent.state) => intent'.state = intent.state
                   /\ intent.fenced => intent'.fenced
                   /\ intent.ambiguous => intent'.ambiguous
                   /\ intent.linked # None => intent'.linked = intent.linked
<1>1. TypeInv /\ RowInv /\ [Next]_vars => [Kept]_vars
    BY RowInvariant DEF Follows
<1>2. Spec => [][Kept]_vars
    BY <1>1, RowInvariant, PTL DEF Spec
<1> QED BY <1>2 DEF OneWay
=============================================================================
