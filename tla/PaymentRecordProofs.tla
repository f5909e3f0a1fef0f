------------------------ MODULE PaymentRecordProofs ------------------------
(***************************************************************************)
(* What the executor records is what the provider holds, for any number of *)
(* workers, outbox rows, provider orders, crashes and lapsed leases; and   *)
(* PaymentExecutor implements LogicalPayment: the mapping shows the        *)
(* provider's one order of each making, which the invariant shows unique.  *)
(***************************************************************************)
EXTENDS PaymentExecutorProofs, PaymentRefinement, FiniteSetTheorems

(* A step is left to Zenon, then to SMT, for at most 30 seconds each; one  *)
(* that needs arithmetic, sequences or records names SMT.                  *)
USE ZenonT(30), SMTT(30)

-----------------------------------------------------------------------------
(* The inductive invariant                                                 *)

Exists(o) == o \in Orders /\ orders[o].status # "absent"
NoneOwn == \A o \in Orders : ~orders[o].own

(* The provider's side: one order of this system's making, at most one of  *)
(* anybody else's, and notices that stay true.                             *)
ProviderInv ==
    /\ \A o \in Orders : orders[o].own => Exists(o)
    /\ \A o, p \in Orders : Exists(o) /\ Exists(p) /\ orders[o].own = orders[p].own => o = p
    /\ Idempotent => \A o \in Orders : Exists(o) => orders[o].own /\ orders[o].visible
    /\ \A o \in Orders : orders[o].status = "FAILED" => Idempotent
    /\ ~Idempotent /\ posts = 0 => NoneOwn
    /\ \A o \in Orders : <<o, "payment.succeeded">> \in sent => orders[o].status = "SUCCEEDED"
    /\ \A o \in Orders : <<o, "payment.failed">> \in sent => orders[o].status = "FAILED"

(* A row that may be committed: its link and its outcome are backed.       *)
Backed(row) ==
    /\ row.state \notin {"CREATED", "CANCELLED"}
    /\ row.linked # None => Exists(row.linked) /\ orders[row.linked].fits
    /\ row.state = "SUCCEEDED" => row.linked # None /\ orders[row.linked].status = "SUCCEEDED"
    /\ row.state = "FAILED_TERMINAL" =>
          /\ \A o \in Orders : orders[o].own => orders[o].status = "FAILED"
          /\ row.linked # None => orders[row.linked].status = "FAILED"
          /\ ~Idempotent => posts # 0

(* A worker that was told there is no order, or that its create was        *)
(* refused, and has not acted on it yet.                                   *)
ToldNone(w) ==
    \/ worker[w].pc = "preflight" /\ worker[w].answer.kind = "none"
    \/ worker[w].pc = "create" /\ worker[w].answer.kind \in {"", "terminal"}

(* What a worker holds of the provider's answers is still true when it     *)
(* acts: settled orders stay so, and the row lock keeps out other creates. *)
Told(w) ==
    /\ worker[w].answer.kind = "ok" =>
          /\ Exists(worker[w].answer.order)
          /\ worker[w].answer.status \in {"PENDING", orders[worker[w].answer.order].status}
    /\ ToldNone(w) => NoneOwn
    /\ worker[w].pc = "create" /\ worker[w].answer # Unasked => posts # 0
    /\ worker[w].pc \in {"recover", "reconcile"} => intent.state # "FAILED_TERMINAL"
    /\ Idempotent => worker[w].pc \notin {"fenced", "recover"}

Truth ==
    /\ ProviderInv /\ Backed(intent) /\ ConsumedSuccessSettles
    /\ \A w \in Workers : Told(w)

-----------------------------------------------------------------------------
(* Frames                                                                  *)

(* The provider forgets no order and takes back no settlement.             *)
Grows ==
    \A o \in Orders : Exists(o) =>
        /\ Exists(o)' /\ orders'[o].own = orders[o].own /\ orders'[o].fits = orders[o].fits
        /\ orders[o].status # "PENDING" => orders'[o].status = orders[o].status

(* A provider whose records do not change grows.                           *)
LEMMA SameGrows ==
    ASSUME UNCHANGED orders
    PROVE  Grows
BY DEF Grows, Exists

(* What a worker was told stays true when it is left alone, unless the     *)
(* step changes the row or creates an order while it holds the lock.       *)
LEMMA StillTold ==
    ASSUME NEW v \in Workers, Told(v), worker'[v] = worker[v], Grows,
           posts # 0 => posts' # 0,
           worker[v].pc \in Holding =>
               intent'.state = intent.state /\ (NoneOwn => NoneOwn')
    PROVE  Told(v)'
<1>1. worker[v].answer.kind = "ok" =>
          /\ Exists(worker[v].answer.order)'
          /\ worker[v].answer.status \in {"PENDING", orders'[worker[v].answer.order].status}
    BY DEF Told, Grows, Exists
<1>2. ToldNone(v)' => NoneOwn'
    BY DEF Told, ToldNone, Holding
<1>3. worker[v].pc \in {"recover", "reconcile"} => intent'.state # "FAILED_TERMINAL"
    BY DEF Told, Holding
<1> QED BY <1>1, <1>2, <1>3 DEF Told

(* A worker that is not in a holding stage and holds no answer was told    *)
(* nothing.                                                                *)
LEMMA NotTold ==
    ASSUME NEW v \in Workers, worker'[v].answer.kind # "ok", worker'[v].pc \notin Holding,
           Idempotent => worker'[v].pc # "fenced"
    PROVE  Told(v)'
BY DEF Told, ToldNone, Holding

(* An idle worker has asked nothing.                                       *)
LEMMA Unsaid == Unasked.kind = "" /\ Idle.pc = "idle" /\ Idle.answer = Unasked
<1>1. Unasked.kind = ""
    BY DEF Unasked, Said
<1>2. Idle.pc = "idle" /\ Idle.answer = Unasked
    BY DEF Idle
<1> QED BY <1>1, <1>2

(* What is said of the provider stays true while its records do.           *)
LEMMA SameProvider ==
    ASSUME ProviderInv, UNCHANGED <<orders, sent, posts>>
    PROVE  ProviderInv'
BY DEF ProviderInv, Exists, NoneOwn

(* A backed row stays backed while the provider's records do.              *)
LEMMA SameBacked ==
    ASSUME NEW row, Backed(row), UNCHANGED <<orders, posts>>
    PROVE  Backed(row)'
BY DEF Backed, Exists

(* A consumed success stays settled: neither the settled state nor the     *)
(* ambiguity is taken back.                                                *)
LEMMA SameConsumed ==
    ASSUME ConsumedSuccessSettles, seen' = seen, Follows(intent')
    PROVE  ConsumedSuccessSettles'
BY DEF ConsumedSuccessSettles, Follows, is_terminal, TERMINAL_PAYMENT_STATES

-----------------------------------------------------------------------------
(* How a handler ends                                                      *)

(* A commit of a backed row keeps the truth: nobody else is in a holding   *)
(* stage.                                                                  *)
LEMMA CommitTruth ==
    ASSUME TypeInv, RowInv, Truth, NEW w \in Workers, lock \in {None, w},
           NEW row, Backed(row), NEW done, NEW next, Commit(w, row, done, next),
           Follows(intent')
    PROVE  Truth'
<1>1. /\ intent' = row /\ seen' = seen /\ UNCHANGED <<orders, sent, posts>>
      /\ worker' = [worker EXCEPT ![w] = Idle]
    BY DEF Commit, remote
<1>2. ProviderInv' /\ Backed(intent)' /\ ConsumedSuccessSettles'
    BY <1>1, SameProvider, SameConsumed DEF Truth, Backed, Exists
<1>3. ASSUME NEW v \in Workers PROVE Told(v)'
    <2>1. CASE v = w
        <3>1. worker'[v] = Idle
            BY <1>1, <2>1 DEF TypeInv, TypeOK
        <3>2. worker'[v].pc = "idle" /\ worker'[v].answer.kind = ""
            BY <3>1, Unsaid
        <3> QED BY <3>2, NotTold DEF Holding
    <2>2. CASE v # w
        <3>1. worker'[v] = worker[v] /\ worker[v].pc \notin Holding
            BY <1>1, <2>2, OthersOutside DEF RowInv, TypeInv, TypeOK
        <3> QED BY <1>1, <3>1, StillTold, SameGrows DEF Truth
    <2> QED BY <2>1, <2>2
<1> QED BY <1>2, <1>3 DEF Truth

(* A step that leaves the row and the provider alone keeps the truth, if a *)
(* worker that moves, moves to a stage that relies on no answer.           *)
LEMMA QuietTruth ==
    ASSUME Truth, UNCHANGED <<intent, seen, orders, sent, posts>>,
           \A v \in Workers :
               \/ worker'[v] = worker[v]
               \/ /\ worker'[v].pc \notin Holding \cup {"fenced"}
                  /\ worker'[v].answer \in {worker[v].answer, Unasked}
    PROVE  Truth'
<1>1. ProviderInv' /\ Backed(intent)' /\ ConsumedSuccessSettles'
    BY SameProvider DEF Truth, Backed, Exists, ConsumedSuccessSettles
<1>2. ASSUME NEW v \in Workers PROVE Told(v)'
    <2>0. Told(v)
        BY DEF Truth
    <2>1. CASE worker'[v] = worker[v]
        BY <2>0, <2>1, StillTold, SameGrows DEF NoneOwn
    <2>2. CASE /\ worker'[v].pc \notin Holding \cup {"fenced"}
               /\ worker'[v].answer \in {worker[v].answer, Unasked}
        BY <2>0, <2>2, Unsaid DEF Told, ToldNone, Holding, Exists
    <2> QED BY <2>1, <2>2
<1> QED BY <1>1, <1>2 DEF Truth

(* A raised handler forgets what it was told and leaves the row alone.     *)
LEMMA RaiseTruth ==
    ASSUME TypeInv, Truth, NEW w \in Workers, Raise(w)
    PROVE  Truth'
<1>1. \A v \in Workers :
          \/ worker'[v] = worker[v]
          \/ worker'[v].pc = "raised" /\ worker'[v].answer = Unasked
    BY DEF Raise, TypeInv, TypeOK
<1> QED BY <1>1, QuietTruth DEF Raise, remote, Holding

(* A handler that goes on to provider I/O has not been told anything yet.  *)
LEMMA HoldTruth ==
    ASSUME TypeInv, Truth, NEW w \in Workers, NEW stage, Hold(w, stage), Follows(intent'),
           stage \in {"recover", "reconcile"} => intent.state # "FAILED_TERMINAL",
           stage = "create" => NoneOwn,
           Idempotent => stage \notin {"fenced", "recover"}
    PROVE  Truth'
<1>1. /\ intent' = intent /\ seen' = seen /\ UNCHANGED <<orders, sent, posts>>
      /\ worker' = [worker EXCEPT ![w] = [worker[w] EXCEPT !.pc = stage, !.answer = Unasked]]
    BY DEF Hold, remote
<1>2. ProviderInv' /\ Backed(intent)' /\ ConsumedSuccessSettles'
    BY <1>1, SameProvider, SameConsumed DEF Truth, Backed, Exists
<1>3. ASSUME NEW v \in Workers PROVE Told(v)'
    <2>1. CASE v = w
        <3>1. worker'[v].pc = stage /\ worker'[v].answer = Unasked
            BY <1>1, <2>1 DEF TypeInv, TypeOK
        <3> QED BY <1>1, <3>1, Unsaid DEF Told, ToldNone, NoneOwn
    <2>2. CASE v # w
        <3>1. worker'[v] = worker[v]
            BY <1>1, <2>2 DEF TypeInv, TypeOK
        <3> QED BY <1>1, <3>1, StillTold, SameGrows DEF Truth, NoneOwn
    <2> QED BY <2>1, <2>2
<1> QED BY <1>2, <1>3 DEF Truth

(* The fence changes nothing the provider knows.                           *)
LEMMA FenceTruth ==
    ASSUME TypeInv, RowInv, Truth, NEW w \in Workers, lock = None, ~Idempotent,
           NEW row \in IntentRow, Backed(row), NEW stage \in {"fenced", "loaded"},
           worker[w].pc = "loaded", Fence(w, row, stage), Follows(intent')
    PROVE  Truth'
<1>1. /\ intent' = [row EXCEPT !.fenced = TRUE] /\ seen' = seen
      /\ UNCHANGED <<orders, sent, posts>>
      /\ worker' = [worker EXCEPT ![w] = [worker[w] EXCEPT !.pc = stage]]
    BY DEF Fence, remote
<1>2. intent'.state = row.state /\ intent'.linked = row.linked
    BY <1>1 DEF IntentRow
<1>3. ProviderInv' /\ Backed(intent)' /\ ConsumedSuccessSettles'
    BY <1>1, <1>2, SameProvider, SameConsumed DEF Truth, Backed, Exists
<1>4. ASSUME NEW v \in Workers PROVE Told(v)'
    <2>1. CASE v = w
        <3>1. worker'[v].pc = stage /\ worker'[v].answer = worker[v].answer
            BY <1>1, <2>1 DEF TypeInv, TypeOK
        <3>2. Told(v)
            BY DEF Truth
        <3> QED BY <1>1, <3>1, <3>2 DEF Told, ToldNone, Exists
    <2>2. CASE v # w
        <3>1. worker'[v] = worker[v] /\ worker[v].pc \notin Holding
            BY <1>1, <2>2, OthersOutside DEF RowInv, TypeInv, TypeOK
        <3> QED BY <1>1, <3>1, StillTold, SameGrows DEF Truth
    <2> QED BY <2>1, <2>2
<1> QED BY <1>3, <1>4 DEF Truth

-----------------------------------------------------------------------------
(* The rows handlers commit                                                *)

(* A row that leaves the outcome open is backed like the row before it.    *)
LEMMA OpenBacked ==
    ASSUME Backed(intent), NEW row, row.linked = intent.linked,
           row.state \in {"QUEUED", "PROCESSING", "PROVIDER_PENDING", "FAILED_RETRYABLE"}
    PROVE  Backed(row)
BY DEF Backed

(* Requeueing and marking uncertain leave it open.                         *)
LEMMA CopiesBacked ==
    ASSUME intent \in IntentRow, Backed(intent)
    PROVE  /\ Backed(requeued(intent))
           /\ \A row, b : Copy(row) => Backed(uncertain(row, b))
<1>1. Backed(requeued(intent))
    <2>1. /\ requeued(intent).linked = intent.linked
          /\ requeued(intent).state \in {intent.state, "QUEUED"}
        BY DEF requeued, IntentRow
    <2>2. CASE requeued(intent).state = "QUEUED"
        BY <2>1, <2>2, OpenBacked
    <2>3. CASE requeued(intent).state = intent.state
        BY <2>1, <2>3 DEF Backed
    <2> QED BY <2>1, <2>2, <2>3
<1>2. ASSUME NEW row, NEW b, Copy(row) PROVE Backed(uncertain(row, b))
    <2>1. /\ uncertain(row, b).linked = intent.linked
          /\ uncertain(row, b).state = "PROVIDER_PENDING"
        BY <1>2 DEF uncertain, Copy, IntentRow
    <2> QED BY <2>1, OpenBacked
<1> QED BY <1>1, <1>2

(* An answer as a worker may hold it: the order exists, and a settlement   *)
(* it reports is the provider's.                                           *)
True(a) ==
    /\ a \in Answer /\ a.kind = "ok" /\ Exists(a.order)
    /\ a.status \in {"PENDING", orders[a.order].status}

(* Adopting a true answer that fits gives a backed row, unless the payment *)
(* was already recorded as failed.                                         *)
LEMMA AppliedBacked ==
    ASSUME TypeInv, Truth, NEW a, True(a), NEW row, Copy(row),
           ~ProviderPaymentMismatch(row, a), intent.state # "FAILED_TERMINAL"
    PROVE  Backed(apply_provider_payment(row, a))
<1> DEFINE next == apply_provider_payment(row, a)
<1>1. /\ next.linked = a.order
      /\ next.state = IF is_terminal(row.state) THEN row.state
                      ELSE provider_status_to_state(a.status)
    BY DEF apply_provider_payment, Copy, IntentRow
<1> SUFFICES Backed(next)
    OBVIOUS
<1> HIDE DEF next
<1>2. Exists(a.order) /\ orders[a.order].fits /\ row.linked \in {None, a.order}
    BY DEF True, ProviderPaymentMismatch
<1>3. CASE is_terminal(row.state)
    <2>1. /\ row.state = intent.state /\ intent.state = "SUCCEEDED"
          /\ row.linked = intent.linked
        BY <1>3 DEF Copy, Truth, Backed, is_terminal, TERMINAL_PAYMENT_STATES
    <2>2. intent.linked = a.order /\ a.order # None /\ orders[a.order].status = "SUCCEEDED"
        BY <1>2, <2>1 DEF Truth, Backed
    <2> QED BY <1>1, <1>2, <1>3, <2>1, <2>2 DEF Backed
<1>4. CASE ~is_terminal(row.state)
    <2>1. next.state = provider_status_to_state(a.status) /\ a.order # None
        BY <1>1, <1>2, <1>4, ConstantsAssumption DEF Exists
    <2>2. CASE a.status = "PENDING"
        <3>1. next.state = "PROVIDER_PENDING"
            BY <2>1, <2>2 DEF provider_status_to_state
        <3> QED BY <1>1, <1>2, <3>1 DEF Backed
    <2>3. CASE a.status = "SUCCEEDED"
        <3>1. next.state = "SUCCEEDED"
            BY <2>1, <2>3 DEF provider_status_to_state
        <3> QED BY <1>1, <1>2, <2>1, <2>3, <3>1 DEF Backed, True
    <2>4. CASE a.status = "FAILED"
        <3>1. next.state = "FAILED_TERMINAL"
            BY <2>1, <2>4 DEF provider_status_to_state
        <3>2. orders[a.order].status = "FAILED" /\ a.order \in Orders
            BY <2>4, <1>2 DEF True, Exists
        <3>3. Idempotent /\ orders[a.order].own
            BY <3>2, <1>2 DEF Truth, ProviderInv
        <3>4. \A o \in Orders : orders[o].own => o = a.order
            BY <3>2, <3>3 DEF Truth, ProviderInv, Exists
        <3> QED BY <1>1, <1>2, <3>1, <3>2, <3>3, <3>4 DEF Backed
    <2> QED BY <2>2, <2>3, <2>4 DEF True, Answer, ProviderPaymentStatus
<1> QED BY <1>3, <1>4

(* Marking uncertain keeps the truth, in either handler.                   *)
LEMMA UncertainTruth ==
    ASSUME TypeInv, RowInv, Truth, NEW w \in Workers, lock \in {None, w}, Follows(intent'),
           NEW row, Copy(row), NEW b \in BOOLEAN,
           mark_uncertain(w, row, b) \/ (row = intent /\ StayUncertain(w, b))
    PROVE  Truth'
<1>1. Backed(uncertain(row, b))
    BY CopiesBacked DEF TypeInv, TypeOK, Truth
<1>2. CASE Raise(w)
    BY <1>2, RaiseTruth
<1>3. CASE Complete(w, uncertain(row, b), {"RECONCILE"})
    BY <1>1, <1>3, CommitTruth DEF Complete
<1>4. CASE Retry(w, uncertain(row, b))
    BY <1>1, <1>4, CommitTruth DEF Retry
<1> QED BY <1>2, <1>3, <1>4 DEF mark_uncertain, StayUncertain

(* Adopting a true answer keeps it.                                        *)
LEMMA AdoptTruth ==
    ASSUME TypeInv, RowInv, Truth, NEW w \in Workers, lock \in {None, w}, Follows(intent'),
           NEW row, Copy(row), NEW a, True(a), ~ProviderPaymentMismatch(row, a),
           intent.state # "FAILED_TERMINAL", Adopt(w, row, a)
    PROVE  Truth'
<1> DEFINE next == apply_provider_payment(row, a)
<1>1. Backed(next)
    BY AppliedBacked
<1>2. CASE Raise(w)
    BY <1>2, RaiseTruth
<1>3. CASE Complete(w, next, IF next.state = "PROVIDER_PENDING" THEN {"RECONCILE"} ELSE {})
    <2> HIDE DEF next
    <2> QED BY <1>1, <1>3, CommitTruth DEF Complete
<1> QED BY <1>2, <1>3 DEF Adopt

(* So does finishing on an order found before the create.                  *)
LEMMA FinishTruth ==
    ASSUME TypeInv, RowInv, Truth, NEW w \in Workers, lock \in {None, w}, Follows(intent'),
           NEW row \in {intent, requeued(intent)}, True(worker[w].answer),
           intent.state # "FAILED_TERMINAL", finish_existing_before_create(w, row)
    PROVE  Truth'
<1>1. /\ Copy(row) /\ Copy(record_payment_attempt(row))
      /\ record_payment_attempt(row).linked = row.linked
    BY Copies DEF TypeInv, TypeOK, Copy
<1>2. CASE \E b \in BOOLEAN : mark_uncertain(w, row, b)
    BY <1>1, <1>2, UncertainTruth
<1>3. CASE /\ ~ProviderPaymentMismatch(row, worker[w].answer)
           /\ Adopt(w, record_payment_attempt(row), worker[w].answer)
    <2> DEFINE a == worker[w].answer
    <2>1. ~ProviderPaymentMismatch(record_payment_attempt(row), a)
        BY <1>1, <1>3 DEF ProviderPaymentMismatch
    <2> QED BY <1>1, <1>3, <2>1, AdoptTruth
<1> QED BY <1>2, <1>3 DEF finish_existing_before_create

-----------------------------------------------------------------------------
(* The provider's answers                                                  *)

(* A lookup is answered with what the provider holds now.                  *)
LEMMA GetTruth ==
    ASSUME TypeInv, RowInv, OnePermission, Truth, NEW w \in Workers, get_payment(w)
    PROVE  Truth'
<1>0. Told(w) /\ ProviderInv /\ intent \in IntentRow
    BY DEF Truth, TypeInv, TypeOK
<1>1. PICK a : /\ worker' = [worker EXCEPT ![w].answer = a]
               /\ a \in (IF worker[w].pc = "reconcile" /\ intent.linked # None
                         THEN Fetch(intent.linked) ELSE Search)
    BY DEF get_payment
<1>2. UNCHANGED <<intent, seen, orders, sent, posts>>
    BY DEF get_payment, local, remote
<1>3. /\ worker'[w].pc = worker[w].pc /\ worker'[w].answer = a
      /\ \A v \in Workers \ {w} : worker'[v] = worker[v]
    BY <1>1 DEF TypeInv, TypeOK
<1>4. a.kind = "ok" => Exists(a.order) /\ a.status = orders[a.order].status
    <2>1. a \in {Said("error"), Said("none"), Said("ambiguous")} \cup {Holds(o) : o \in Present}
        BY <1>1 DEF Fetch, Search, Found
    <2> QED BY <2>1, SMTT(30) DEF Said, Holds, Present, Exists
<1>5. worker[w].pc = "preflight" /\ a.kind = "none" => NoneOwn
    <2> SUFFICES ASSUME worker[w].pc = "preflight", a.kind = "none" PROVE NoneOwn
        OBVIOUS
    <2>1. Found = {}
        <3>1. a \in Search
            BY <1>1
        <3>2. Said("error").kind = "error" /\ Said("ambiguous").kind = "ambiguous"
              /\ \A o : Holds(o).kind = "ok"
            BY DEF Said, Holds
        <3> QED BY <3>1, <3>2 DEF Search
    <2>2. CASE Idempotent
        BY <1>0, <2>1, <2>2 DEF ProviderInv, Found, Present, Exists, NoneOwn
    <2>3. CASE ~Idempotent
        BY <1>0, <2>3 DEF OnePermission, Permitted, ProviderInv
    <2> QED BY <2>2, <2>3
<1>6. Told(w)'
    BY <1>0, <1>2, <1>3, <1>4, <1>5 DEF Told, ToldNone, get_payment, NoneOwn, Exists
<1>7. ASSUME NEW v \in Workers \ {w} PROVE Told(v)'
    BY <1>2, <1>3, StillTold, SameGrows DEF Truth, NoneOwn
<1> QED BY <1>2, <1>6, <1>7, SameProvider DEF Truth, Backed, Exists, ConsumedSuccessSettles

(* A create is issued under the row lock by a worker that knows there is   *)
(* no order of this system's making, so what it makes is the only one.     *)
LEMMA CreateTruth ==
    ASSUME TypeInv, RowInv, Truth, NEW w \in Workers, create_payment(w)
    PROVE  Truth'
<1>0. /\ Told(w) /\ ProviderInv /\ Backed(intent) /\ ConsumedSuccessSettles /\ NoneOwn
      /\ orders \in [Orders -> OrderRecord] /\ posts \in 0..2
    BY Unsaid DEF Truth, TypeInv, TypeOK, create_payment, Told, ToldNone
<1>1. /\ intent' = intent /\ seen' = seen /\ sent' = sent /\ posts' # 0
      /\ worker[w].pc = "create"
    BY <1>0, SMTT(30) DEF create_payment, local
<1>2. /\ intent.state \in Sendable /\ intent.linked = None
      /\ \A v \in Workers \ {w} : worker[v].pc \notin Holding
    BY <1>1, OthersOutside DEF RowInv, Locking, Lawful, Holding
<1>3. Backed(intent)' /\ ConsumedSuccessSettles'
    BY <1>0, <1>1, <1>2 DEF Backed, ConsumedSuccessSettles, Sendable
<1>4. ASSUME NEW a, worker' = [worker EXCEPT ![w].answer = a], Grows, ProviderInv',
             a.kind = "ok" => Exists(a.order)' /\ a.status = orders'[a.order].status,
             a.kind \in {"", "terminal"} => NoneOwn'
      PROVE  Truth'
    <2>1. /\ worker'[w].pc = "create" /\ worker'[w].answer = a
          /\ \A v \in Workers \ {w} : worker'[v] = worker[v]
        BY <1>1, <1>4 DEF TypeInv, TypeOK
    <2>2. Told(w)'
        BY <1>1, <1>4, <2>1 DEF Told, ToldNone
    <2>3. ASSUME NEW v \in Workers \ {w} PROVE Told(v)'
        BY <1>1, <1>2, <1>4, <2>1, StillTold DEF Truth
    <2> QED BY <1>3, <1>4, <2>2, <2>3 DEF Truth
<1>5. ASSUME NEW k \in {"timeout", "transient", "terminal"}, UNCHANGED orders,
             worker' = [worker EXCEPT ![w].answer = Said(k)]
      PROVE  Truth'
    <2>1. ProviderInv' /\ NoneOwn' /\ Grows
        BY <1>0, <1>1, <1>5, SameGrows DEF ProviderInv, NoneOwn, Exists
    <2>2. Said(k).kind = k
        BY DEF Said
    <2> QED BY <1>4, <1>5, <2>1, <2>2
<1>6. ASSUME NEW o \in Orders, NEW s \in {"PENDING", "SUCCEEDED"}, NEW v \in BOOLEAN,
             NEW k \in {"ok", "timeout", "transient"},
             \/ /\ Idempotent /\ o \in Present /\ UNCHANGED orders
             \/ /\ o \notin Present /\ (Idempotent => Present = {} /\ v)
                /\ orders' = [orders EXCEPT ![o] =
                      [status |-> s, own |-> TRUE, fits |-> TRUE, visible |-> v]],
             worker' = [worker EXCEPT ![w].answer =
                IF k = "ok" THEN [kind |-> "ok", order |-> o, status |-> orders'[o].status]
                ELSE Said(k)]
      PROVE  Truth'
    <2>1. ~(Idempotent /\ o \in Present)
        BY <1>0 DEF ProviderInv, NoneOwn, Present, Exists
    <2>2. /\ orders'[o].status = s /\ orders'[o].own = TRUE /\ orders'[o].visible = v
          /\ \A x \in Orders \ {o} : orders'[x] = orders[x]
          /\ orders[o].status = "absent"
        BY <1>0, <1>6, <2>1, SMTT(30) DEF Present
    <2>3. Grows
        BY <2>2 DEF Grows, Exists
    <2>4. ProviderInv'
        <3>1. \A x \in Orders : Exists(x)' <=> Exists(x) \/ x = o
            BY <2>2 DEF Exists
        <3>2. \A x \in Orders : orders'[x].own <=> x = o
            BY <1>0, <2>2 DEF NoneOwn
        <3>3. \A x, y \in Orders :
                 Exists(x)' /\ Exists(y)' /\ orders'[x].own = orders'[y].own => x = y
            BY <1>0, <2>2, <3>1, <3>2, SMTT(30) DEF ProviderInv, NoneOwn
        <3>4. Idempotent => \A x \in Orders : Exists(x)' => orders'[x].own /\ orders'[x].visible
            BY <1>6, <2>1, <2>2, <3>1, <3>2 DEF Present, Exists
        <3>5. \A x \in Orders : orders'[x].status = "FAILED" => Idempotent
            BY <1>0, <2>2 DEF ProviderInv
        <3>6. /\ \A x \in Orders : <<x, "payment.succeeded">> \in sent =>
                    orders'[x].status = "SUCCEEDED"
              /\ \A x \in Orders : <<x, "payment.failed">> \in sent =>
                    orders'[x].status = "FAILED"
            BY <1>0, <2>2 DEF ProviderInv
        <3> QED BY <1>1, <3>1, <3>2, <3>3, <3>4, <3>5, <3>6 DEF ProviderInv
    <2>5. CASE k = "ok"
        <3> DEFINE a == [kind |-> "ok", order |-> o, status |-> orders'[o].status]
        <3>1. worker' = [worker EXCEPT ![w].answer = a]
            BY <1>6, <2>5
        <3>2. a.kind = "ok" /\ a.order = o /\ a.status = orders'[o].status
            OBVIOUS
        <3>3. Exists(o)'
            BY <2>2 DEF Exists
        <3> HIDE DEF a
        <3> QED BY <1>4, <2>3, <2>4, <3>1, <3>2, <3>3
    <2>6. CASE k # "ok"
        <3>1. worker' = [worker EXCEPT ![w].answer = Said(k)] /\ Said(k).kind = k
            BY <1>6, <2>6 DEF Said
        <3> QED BY <1>4, <2>3, <2>4, <2>6, <3>1
    <2> QED BY <2>5, <2>6
<1> QED BY <1>5, <1>6, SMTT(30) DEF create_payment

-----------------------------------------------------------------------------
(* Every step                                                              *)

(* Every worker step keeps the truth.                                      *)
LEMMA StepKeepsTruth ==
    ASSUME TypeInv, RowInv, OnePermission, Truth, NEW w \in Workers, Step(w),
           Follows(intent')
    PROVE  Truth'
<1>0. /\ intent \in IntentRow /\ worker[w].answer \in Answer
      /\ Copy(intent) /\ Copy(requeued(intent)) /\ Copy(record_payment_attempt(intent))
      /\ Copy(record_payment_attempt(requeued(intent)))
      /\ Backed(intent) /\ Backed(requeued(intent)) /\ Told(w) /\ Lawful(intent)
    BY Copies, CopiesBacked DEF TypeInv, TypeOK, Truth, RowInv
<1>a. worker[w].pc \in Holding => lock = w
    BY DEF RowInv, Locking
<1>b. worker[w].answer.kind = "ok" => True(worker[w].answer)
    BY <1>0 DEF Told, True
<1>c. ~is_terminal(intent.state) => intent.state # "FAILED_TERMINAL"
    BY DEF is_terminal, TERMINAL_PAYMENT_STATES
<1>d. intent.state \in Sendable => intent.state # "FAILED_TERMINAL"
    BY DEF Sendable
<1>1. ASSUME NEW e \in Events, claim_next_event(w, e) PROVE Truth'
    <2>1. \A v \in Workers :
              \/ worker'[v] = worker[v]
              \/ worker'[v].pc = "claimed" /\ worker'[v].answer = Unasked
        BY <1>1 DEF claim_next_event, Idle, TypeInv, TypeOK
    <2> QED BY <1>1, <2>1, QuietTruth DEF claim_next_event, remote, Holding
<1>2. CASE LoadClaim(w)
    <2>1. \A v \in Workers :
              \/ worker'[v] = worker[v]
              \/ /\ worker'[v].pc \in {"loaded", "idle"}
                 /\ worker'[v].answer \in {worker[v].answer, Unasked}
        BY <1>2, Unsaid DEF LoadClaim, TypeInv, TypeOK
    <2> QED BY <1>2, <2>1, QuietTruth DEF LoadClaim, local, remote, Holding
<1>3. CASE Recovery(w)
    <2>1. \A v \in Workers :
              \/ worker'[v] = worker[v]
              \/ worker'[v].pc = "idle" /\ worker'[v].answer = Unasked
        BY <1>3, Unsaid DEF Recovery, TypeInv, TypeOK
    <2> QED BY <1>3, <2>1, QuietTruth DEF Recovery, remote, Holding
<1>4. CASE dispatch_create(w)
    <2>1. lock = None /\ worker[w].pc = "loaded"
        BY <1>4 DEF dispatch_create, Locks
    <2>2. CASE \E n : Complete(w, intent, n)
        BY <1>0, <2>1, <2>2, CommitTruth DEF Complete
    <2>3. CASE Raise(w)
        BY <2>3, RaiseTruth
    <2>4. CASE ~is_terminal(intent.state) /\ ~Idempotent /\ Hold(w, "recover")
        BY <1>c, <2>4, HoldTruth
    <2>5. CASE Hold(w, "preflight")
        BY <2>5, HoldTruth
    <2>6. CASE ~Idempotent /\ Fence(w, requeued(intent), "fenced")
        <3>1. requeued(intent) \in IntentRow
            BY <1>0 DEF Copy
        <3> QED BY <1>0, <2>1, <2>6, <3>1, FenceTruth
    <2> QED BY <1>4, <2>2, <2>3, <2>4, <2>5, <2>6 DEF dispatch_create
<1>5. CASE Relock(w)
    <2>1. ~Idempotent /\ posts = 0
        BY <1>0, <1>5 DEF Relock, Told, OnePermission, Permitted
    <2>2. intent.state # "FAILED_TERMINAL"
        BY <1>0, <2>1 DEF Backed
    <2> QED BY <1>5, <2>1, <2>2, HoldTruth DEF Relock
<1>6. CASE recover_fenced_create(w)
    <2>1. lock \in {None, w} /\ intent.state # "FAILED_TERMINAL"
        BY <1>0, <1>6, <1>a DEF recover_fenced_create, Asked, Holding, Told
    <2>2. CASE \E b \in BOOLEAN : mark_uncertain(w, intent, b)
        BY <1>0, <2>1, <2>2, UncertainTruth
    <2>3. CASE worker[w].answer.kind = "ok" /\ finish_existing_before_create(w, intent)
        BY <1>b, <2>1, <2>3, FinishTruth
    <2> QED BY <1>6, <2>2, <2>3 DEF recover_fenced_create
<1>7. CASE Preflight(w)
    <2>1. lock \in {None, w} /\ intent.state # "FAILED_TERMINAL" /\ worker[w].pc = "preflight"
        BY <1>7, <1>a, <1>d DEF Preflight, Asked, Holding, RowInv, Locking
    <2>2. CASE \E b \in BOOLEAN : mark_uncertain(w, requeued(intent), b)
        BY <1>0, <2>1, <2>2, UncertainTruth
    <2>3. CASE /\ worker[w].answer.kind = "ok"
               /\ finish_existing_before_create(w, requeued(intent))
        BY <1>b, <2>1, <2>3, FinishTruth
    <2>4. CASE worker[w].answer.kind = "none" /\ Hold(w, "create")
        <3>1. NoneOwn
            BY <1>0, <2>1, <2>4 DEF Told, ToldNone
        <3> QED BY <2>4, <3>1, HoldTruth
    <2> QED BY <1>7, <2>2, <2>3, <2>4 DEF Preflight
<1>8. CASE FinishCreate(w)
    <2> DEFINE row == record_payment_attempt(requeued(intent))
    <2>1. /\ lock \in {None, w} /\ intent.state \in Sendable /\ worker[w].pc = "create"
          /\ worker[w].answer # Unasked
        BY <1>8, <1>a DEF FinishCreate, Asked, Holding, RowInv, Locking
    <2>2. Copy(row) /\ intent.linked = None
        BY <1>0, <2>1 DEF Lawful
    <2> HIDE DEF row
    <2>3. CASE mark_uncertain(w, row, FALSE)
        BY <2>1, <2>2, <2>3, UncertainTruth
    <2>4. CASE Retry(w, [row EXCEPT !.state = "FAILED_RETRYABLE"])
        <3>1. Backed([row EXCEPT !.state = "FAILED_RETRYABLE"])
            BY <1>0, <2>2, OpenBacked DEF Copy, IntentRow
        <3> QED BY <2>1, <2>4, <3>1, CommitTruth DEF Retry
    <2>5. CASE /\ worker[w].answer.kind = "terminal"
               /\ Complete(w, [row EXCEPT !.state = "FAILED_TERMINAL"], {})
        <3>1. NoneOwn /\ posts # 0
            BY <1>0, <2>1, <2>5 DEF Told, ToldNone
        <3>2. Backed([row EXCEPT !.state = "FAILED_TERMINAL"])
            BY <2>2, <3>1 DEF Backed, Copy, IntentRow, NoneOwn
        <3> QED BY <2>1, <2>5, <3>2, CommitTruth DEF Complete
    <2>6. CASE /\ worker[w].answer.kind = "ok"
               /\ ~ProviderPaymentMismatch(row, worker[w].answer)
               /\ Adopt(w, row, worker[w].answer)
        BY <1>b, <1>d, <2>1, <2>2, <2>6, AdoptTruth
    <2> QED BY <1>8, <2>3, <2>4, <2>5, <2>6 DEF FinishCreate, row
<1>9. CASE reconcile_intent(w)
    <2>1. lock = None /\ worker[w].pc = "loaded"
        BY <1>9 DEF reconcile_intent, Locks
    <2>2. CASE Complete(w, intent, {})
        BY <1>0, <2>1, <2>2, CommitTruth DEF Complete
    <2>3. CASE Raise(w)
        BY <2>3, RaiseTruth
    <2>4. CASE ~Idempotent /\ Fence(w, intent, "loaded")
        BY <1>0, <2>1, <2>4, FenceTruth
    <2>5. CASE ~is_terminal(intent.state) /\ Hold(w, "reconcile")
        BY <1>c, <2>5, HoldTruth
    <2> QED BY <1>9, <2>2, <2>3, <2>4, <2>5 DEF reconcile_intent
<1>10. CASE FinishReconcile(w)
    <2> DEFINE a == worker[w].answer
               row == record_payment_attempt(intent)
               next == apply_provider_payment(row, a)
    <2>0. worker[w].pc = "reconcile"
        BY <1>10 DEF FinishReconcile, Asked
    <2>1. lock \in {None, w} /\ intent.state # "FAILED_TERMINAL"
        BY <1>0, <1>a, <2>0 DEF Holding, Told
    <2>2. CASE Raise(w)
        BY <2>2, RaiseTruth
    <2>3. CASE Retry(w, intent)
        BY <1>0, <2>1, <2>3, CommitTruth DEF Retry
    <2>4. CASE StayUncertain(w, TRUE) \/ StayUncertain(w, FALSE)
        BY <1>0, <2>1, <2>4, UncertainTruth
    <2>5. CASE resolve_no_provider_payment(w)
        <3>1. Backed([intent EXCEPT !.state = "FAILED_RETRYABLE"])
            BY <1>0, OpenBacked DEF IntentRow
        <3> QED BY <2>1, <2>2, <2>5, <3>1, CommitTruth
                DEF resolve_no_provider_payment, Complete
    <2>6. CASE Retry(w, Refused(a))
        <3>1. row.linked = intent.linked /\ row.state \in {intent.state, "PROCESSING"}
            BY <1>0 DEF record_payment_attempt, IntentRow
        <3>2. Backed(row)
            BY <1>0, <3>1, OpenBacked DEF Backed
        <3>3. Backed(Refused(a))
            BY <1>0, <3>2 DEF Refused
        <3> QED BY <2>1, <2>6, <3>3, CommitTruth DEF Retry
    <2>7. CASE /\ a.kind = "ok" /\ ~ProviderPaymentMismatch(intent, a)
               /\ Retry(w, next) \/ Complete(w, next, {})
        <3>1. ~ProviderPaymentMismatch(row, a)
            BY <1>0, <2>7 DEF ProviderPaymentMismatch, Copy
        <3>2. Backed(next)
            BY <1>0, <1>b, <2>1, <2>7, <3>1, AppliedBacked
        <3> HIDE DEF next
        <3> QED BY <2>1, <2>7, <3>2, CommitTruth DEF Retry, Complete
    <2> QED BY <1>10, <2>2, <2>3, <2>4, <2>5, <2>6, <2>7 DEF FinishReconcile
<1>11. CASE get_payment(w)
    BY <1>11, GetTruth
<1>12. CASE create_payment(w)
    BY <1>12, CreateTruth
<1> QED BY <1>1, <1>2, <1>3, <1>4, <1>5, <1>6, <1>7, <1>8, <1>9, <1>10, <1>11, <1>12
        DEF Step

(* What the provider does on its own keeps the truth: it forgets nothing,  *)
(* takes nothing back and makes no order in this system's name.            *)
LEMMA ProviderTruth ==
    ASSUME TypeInv, Truth, UNCHANGED <<intent, seen, worker, posts>>, Grows, ProviderInv',
           \A o \in Orders : orders'[o].own = orders[o].own
    PROVE  Truth'
<1>1. NoneOwn => NoneOwn'
    BY DEF NoneOwn
<1>2. \A v \in Workers : Told(v)'
    BY <1>1, StillTold DEF Truth
<1>3. Backed(intent)'
    <2>1. intent.linked # None =>
              /\ Exists(intent.linked)' /\ orders'[intent.linked].fits
              /\ orders[intent.linked].status # "PENDING" =>
                     orders'[intent.linked].status = orders[intent.linked].status
        BY DEF Truth, Backed, Grows, Exists
    <2>2. \A o \in Orders : orders'[o].own /\ orders[o].status = "FAILED" =>
              orders'[o].status = "FAILED"
        BY DEF Grows, Exists
    <2> QED BY <2>1, <2>2 DEF Truth, Backed
<1> QED BY <1>2, <1>3 DEF Truth, ConsumedSuccessSettles

(* A delivered notice is true of the order it names, and finds no handler  *)
(* in a holding stage.                                                     *)
LEMMA WebhookTruth ==
    ASSUME TypeInv, RowInv, Truth, NEW o \in Orders, NEW t \in WebhookEventType,
           handle_webhook(o, t), Follows(intent')
    PROVE  Truth'
<1> DEFINE target == webhook_type_to_state(t)
<1>0. /\ intent \in IntentRow /\ Lawful(intent) /\ Backed(intent) /\ ProviderInv
      /\ intent.linked = o /\ o # None /\ lock = None
      /\ <<o, t>> \in sent /\ seen' = seen \cup {<<o, t>>}
      /\ UNCHANGED <<worker, orders, sent, posts>>
    BY ConstantsAssumption DEF handle_webhook, remote, Truth, RowInv, TypeInv, TypeOK
<1>1. /\ t = "payment.succeeded" => target = "SUCCEEDED" /\ orders[o].status = "SUCCEEDED"
      /\ t = "payment.failed" => target = "FAILED_TERMINAL" /\ orders[o].status = "FAILED"
      /\ t = "payment.pending" => target = "PROVIDER_PENDING"
      /\ t \in {"payment.succeeded", "payment.failed", "payment.pending"}
    BY <1>0 DEF webhook_type_to_state, WebhookEventType, ProviderInv
<1> HIDE DEF target
<1>2. \A v \in Workers : Told(v)'
    <2>1. \A v \in Workers : worker[v].pc \notin Holding
        BY <1>0, ConstantsAssumption DEF RowInv, Locking
    <2> QED BY <1>0, <2>1, StillTold, SameGrows DEF Truth
<1>3. CASE /\ ~intent.ambiguous /\ can_transition(intent.state, target)
           /\ intent' = [intent EXCEPT !.state = target]
    <2>1. intent'.state = target /\ intent'.linked = o
        BY <1>0, <1>3 DEF IntentRow
    <2>2. t = "payment.failed" => \A p \in Orders : orders[p].own => orders[p].status = "FAILED"
        BY <1>0, <1>1 DEF ProviderInv, Exists
    <2>3. t = "payment.failed" => Idempotent
        BY <1>0, <1>1 DEF ProviderInv
    <2>4. Exists(o) /\ orders[o].fits
        BY <1>0 DEF Backed
    <2>5. Backed(intent)'
        BY <1>0, <1>1, <2>1, <2>2, <2>3, <2>4 DEF Backed, Exists
    <2>6. ConsumedSuccessSettles'
        <3>1. t = "payment.succeeded" => intent'.state = "SUCCEEDED"
            BY <1>1, <2>1
        <3>2. intent.state # "SUCCEEDED"
            BY <1>3 DEF can_transition, ALLOWED_PAYMENT_TRANSITIONS
        <3>3. \A p \in Orders : <<p, "payment.succeeded">> \notin seen
            BY <1>3, <3>2 DEF Truth, ConsumedSuccessSettles
        <3> QED BY <1>0, <3>1, <3>3 DEF ConsumedSuccessSettles
    <2> QED BY <1>0, <1>2, <2>5, <2>6, SameProvider DEF Truth
<1>4. CASE /\ intent.ambiguous \/ ~can_transition(intent.state, target)
           /\ UNCHANGED intent
    <2>1. t = "payment.succeeded" => intent.state = "SUCCEEDED" \/ intent.ambiguous
        <3> SUFFICES ASSUME t = "payment.succeeded", ~intent.ambiguous
                     PROVE  intent.state = "SUCCEEDED"
            OBVIOUS
        <3>1. intent.state \in {"SUCCEEDED", "FAILED_TERMINAL", "PROVIDER_PENDING"}
            BY <1>0 DEF Lawful, Backed, Sendable, IntentRow, PaymentIntentState
        <3>2. intent.state # "PROVIDER_PENDING"
            <4>1. ~can_transition(intent.state, "SUCCEEDED")
                BY <1>1, <1>4
            <4> QED BY <4>1 DEF can_transition, ALLOWED_PAYMENT_TRANSITIONS
        <3>3. intent.state # "FAILED_TERMINAL"
            BY <1>0, <1>1 DEF Backed
        <3> QED BY <3>1, <3>2, <3>3
    <2>2. ConsumedSuccessSettles'
        BY <1>0, <1>4, <2>1 DEF Truth, ConsumedSuccessSettles
    <2> QED BY <1>0, <1>2, <1>4, <2>2, SameProvider DEF Truth, Backed, Exists
<1> QED BY <1>3, <1>4 DEF handle_webhook, target

(* So does every step of the provider, a webhook, a fault or the clock.    *)
LEMMA EnvironmentKeepsTruth ==
    ASSUME TypeInv, RowInv, Truth, Environment, Follows(intent')
    PROVE  Truth'
<1>0. ProviderInv /\ orders \in [Orders -> OrderRecord]
    BY DEF Truth, TypeInv, TypeOK
<1>1. ASSUME NEW o \in Orders, NEW t \in WebhookEventType, handle_webhook(o, t)
      PROVE  Truth'
    BY <1>1, WebhookTruth
<1>2. ASSUME NEW o \in Orders, Emit(o) PROVE Truth'
    <2>1. /\ UNCHANGED <<intent, seen, worker, posts, orders>>
          /\ sent' = sent \cup {<<o, Notice(orders[o].status)>>}
        BY <1>2 DEF Emit, local
    <2>2. /\ Notice(orders[o].status) = "payment.succeeded" => orders[o].status = "SUCCEEDED"
          /\ Notice(orders[o].status) = "payment.failed" => orders[o].status = "FAILED"
        BY <1>0, <1>2 DEF Emit, Present, Notice, OrderRecord, ProviderPaymentStatus
    <2>3. ProviderInv'
        BY <1>0, <2>1, <2>2 DEF ProviderInv, Exists, NoneOwn
    <2> QED BY <2>1, <2>3, ProviderTruth, SameGrows
<1>3. ASSUME NEW o \in Orders, Index(o) PROVE Truth'
    <2>1. /\ UNCHANGED <<intent, seen, worker, posts, sent>>
          /\ orders' = [orders EXCEPT ![o].visible = TRUE]
        BY <1>3 DEF Index, local
    <2>2. \A p \in Orders :
              /\ orders'[p].status = orders[p].status /\ orders'[p].own = orders[p].own
              /\ orders'[p].fits = orders[p].fits
              /\ orders[p].visible => orders'[p].visible
        BY <1>0, <2>1 DEF OrderRecord
    <2>3. ProviderInv'
        BY <1>0, <2>1, <2>2, SMTT(30) DEF ProviderInv, Exists, NoneOwn
    <2>4. Grows
        BY <2>2 DEF Grows, Exists
    <2> QED BY <2>1, <2>2, <2>3, <2>4, ProviderTruth
<1>4. ASSUME NEW o \in Orders, NEW s \in {"SUCCEEDED", "FAILED"}, Settle(o, s) PROVE Truth'
    <2>1. /\ UNCHANGED <<intent, seen, worker, posts, sent>>
          /\ orders' = [orders EXCEPT ![o].status = s]
          /\ orders[o].status = "PENDING" /\ (s = "FAILED" => Idempotent)
        BY <1>4 DEF Settle, local
    <2>2. \A p \in Orders :
              /\ orders'[p].status = (IF p = o THEN s ELSE orders[p].status)
              /\ orders'[p].own = orders[p].own /\ orders'[p].fits = orders[p].fits
              /\ orders'[p].visible = orders[p].visible
        BY <1>0, <2>1 DEF OrderRecord
    <2>3. ProviderInv'
        BY <1>0, <2>1, <2>2, SMTT(30) DEF ProviderInv, Exists, NoneOwn
    <2>4. Grows
        BY <2>1, <2>2 DEF Grows, Exists
    <2> QED BY <2>1, <2>2, <2>3, <2>4, ProviderTruth
<1>5. ASSUME NEW o \in Orders, NEW fits \in BOOLEAN, ForeignOrder(o, fits) PROVE Truth'
    <2>1. /\ UNCHANGED <<intent, seen, worker, posts, sent>>
          /\ ~Idempotent /\ ~Exists(o)
          /\ \A p \in Orders : Exists(p) => orders[p].own
        BY <1>5 DEF ForeignOrder, local, Present, Exists
    <2>2. /\ orders'[o].status = "PENDING" /\ ~orders'[o].own /\ orders'[o].own \in BOOLEAN
          /\ \A p \in Orders : p # o => orders'[p] = orders[p]
        BY <1>0, <1>5 DEF ForeignOrder
    <2>3. ~orders[o].own /\ orders[o].own \in BOOLEAN /\ orders[o].status = "absent"
        BY <1>0, <2>1 DEF ProviderInv, OrderRecord, Exists
    <2>4. ProviderInv'
        BY <1>0, <2>1, <2>2, <2>3, SMTT(30) DEF ProviderInv, Exists, NoneOwn, OrderRecord
    <2>5. Grows
        BY <2>1, <2>2 DEF Grows, Exists
    <2>6. \A p \in Orders : orders'[p].own = orders[p].own
        BY <2>2, <2>3
    <2> QED BY <2>1, <2>4, <2>5, <2>6, ProviderTruth
<1>6. ASSUME NEW w \in Workers, Crash(w) \/ Fail(w) PROVE Truth'
    <2>1. \A v \in Workers :
              \/ worker'[v] = worker[v]
              \/ worker'[v].pc \in {"idle", "raised"} /\ worker'[v].answer = Unasked
        <3>1. CASE Crash(w)
            BY <3>1, Unsaid DEF Crash, TypeInv, TypeOK
        <3>2. CASE Fail(w)
            BY <3>2 DEF Fail, TypeInv, TypeOK
        <3> QED BY <1>6, <3>1, <3>2
    <2> QED BY <1>6, <2>1, QuietTruth DEF Crash, Fail, remote, Holding
<1>7. ASSUME NEW e \in Events, LeaseLapses(e) PROVE Truth'
    BY <1>7, QuietTruth DEF LeaseLapses, remote
<1> QED BY <1>1, <1>2, <1>3, <1>4, <1>5, <1>6, <1>7 DEF Environment

-----------------------------------------------------------------------------
(* The invariants                                                          *)

(* A new payment, or one taken over from an older worker, starts out true. *)
LEMMA InitTruth == Init => Truth
<1> SUFFICES ASSUME Init PROVE Truth
    OBVIOUS
<1>1. /\ intent.state \in {"QUEUED", "FAILED_RETRYABLE", "PROVIDER_PENDING"}
      /\ intent.linked = None
    BY SMTT(30) DEF Init, Fresh, Legacy, Row
<1>2. Backed(intent) /\ ConsumedSuccessSettles
    BY <1>1 DEF Init, Backed, ConsumedSuccessSettles
<1>3. ASSUME NEW w \in Workers PROVE Told(w)
    <2>1. worker[w].pc = "idle" /\ worker[w].answer.kind = ""
        BY Unsaid DEF Init
    <2> QED BY <2>1 DEF Told, ToldNone
<1>4. ProviderInv
    <2>1. CASE orders = [o \in Orders |-> Absent]
        BY <2>1 DEF Init, ProviderInv, Exists, NoneOwn, Absent
    <2>2. ASSUME ~Idempotent, posts = 1, NEW x \in Orders,
                 orders = [o \in Orders |-> IF o = x
                    THEN [status |-> "PENDING", own |-> TRUE, fits |-> TRUE, visible |-> FALSE]
                    ELSE Absent]
          PROVE  ProviderInv
        <3>1. orders[x].status = "PENDING" /\ orders[x].own
            BY <2>2
        <3>2. \A o \in Orders : o # x => orders[o].status = "absent" /\ ~orders[o].own
            BY <2>2 DEF Absent
        <3>3. sent = {} /\ ~Idempotent /\ posts # 0
            BY <2>2, SMTT(30) DEF Init
        <3> QED BY <3>1, <3>2, <3>3 DEF ProviderInv, Exists
    <2> QED BY <2>1, <2>2 DEF Init, Fresh, Legacy
<1> QED BY <1>2, <1>3, <1>4 DEF Truth

RecordInv == TypeInv /\ RowInv /\ OnePermission /\ Truth

(* The truth is inductive together with the types, the row and the         *)
(* permission to create.                                                   *)
LEMMA RecordInvariant ==
    /\ Init => RecordInv
    /\ RecordInv /\ [Next]_vars => RecordInv' /\ Follows(intent')
<1>1. Init => RecordInv
    BY InitTruth, RowInvariant, PermissionInvariant DEF RecordInv
<1>2. ASSUME RecordInv, [Next]_vars PROVE RecordInv' /\ Follows(intent')
    <2>1. /\ TypeInv /\ RowInv /\ OnePermission /\ Truth
          /\ TypeInv' /\ RowInv' /\ OnePermission' /\ Follows(intent')
        BY <1>2, RowInvariant, PermissionInvariant DEF RecordInv
    <2>2. CASE UNCHANGED vars
        BY <2>1, <2>2, QuietTruth DEF vars, RecordInv
    <2>3. CASE Environment
        BY <2>1, <2>3, EnvironmentKeepsTruth DEF RecordInv
    <2>4. ASSUME NEW w \in Workers, Step(w) PROVE Truth'
        BY <2>1, <2>4, StepKeepsTruth
    <2> QED BY <1>2, <2>1, <2>2, <2>3, <2>4 DEF Next, Drained, RecordInv
<1> QED BY <1>1, <1>2

(* Through every retry, crash and reconciliation the provider ends up with *)
(* at most one order of this system's making, whichever kind of create it  *)
(* offers: a handler creates only after a lookup that was empty, under the *)
(* row lock it still holds.                                                *)
THEOREM OneOrderIsMade == Spec => []OneOwnOrder
<1>1. RecordInv => OneOwnOrder
    BY DEF RecordInv, Truth, ProviderInv, OneOwnOrder, TypeInv, TypeOK, OrderRecord
<1> QED BY <1>1, RecordInvariant, PTL DEF Spec

(* What the payment row and the mission record of the outcome is what the  *)
(* provider holds: no stale answer, late webhook or mismatching response   *)
(* settles anything.                                                       *)
THEOREM RecordsAreTrue == Spec => []RecordBacked
<1>1. RecordInv => RecordBacked
    BY DEF RecordInv, Truth, Backed, RowInv, MissionFollows, RecordBacked
<1> QED BY <1>1, RecordInvariant, PTL DEF Spec

(* A consumed success notice did settle the payment, unless an ambiguity   *)
(* forbids it: handle_webhook marks no notice as seen without applying it. *)
THEOREM ConsumedNoticesSettle == Spec => []ConsumedSuccessSettles
<1>1. RecordInv => ConsumedSuccessSettles
    BY DEF RecordInv, Truth
<1> QED BY <1>1, RecordInvariant, PTL DEF Spec
-----------------------------------------------------------------------------
(* The refinement mapping                                                  *)

(* What the logical payment calls an order of this status.                 *)
Word(s) == IF s = "PENDING" THEN "open" ELSE IF s = "SUCCEEDED" THEN "paid" ELSE "failed"

(* What it shows, read off the provider's records.                         *)
Pictured ==
    \A own \in BOOLEAN :
        /\ (\A o \in Orders : Exists(o) => orders[o].own # own) => OrderMade(own) = "none"
        /\ \A o \in Orders :
              Exists(o) /\ orders[o].own = own => OrderMade(own) = Word(orders[o].status)

(* The provider never holds two orders of one making, so the mapping shows *)
(* the one there is.                                                       *)
LEMMA OrdersPictured == RecordInv => Pictured
<1> SUFFICES ASSUME RecordInv, NEW own \in BOOLEAN
             PROVE  /\ (\A o \in Orders : Exists(o) => orders[o].own # own) =>
                           OrderMade(own) = "none"
                    /\ \A o \in Orders : Exists(o) /\ orders[o].own = own =>
                           OrderMade(own) = Word(orders[o].status)
    BY DEF Pictured
<1> DEFINE made == {o \in Orders : orders[o].status # "absent" /\ orders[o].own = own}
           held == {orders[o].status : o \in made}
           case == CASE made = {}              -> "none"
                     [] Cardinality(made) > 1  -> "several"
                     [] held = {"PENDING"}     -> "open"
                     [] held = {"SUCCEEDED"}   -> "paid"
                     [] held = {"FAILED"}      -> "failed"
<1>0. OrderMade(own) = case
    BY DEF OrderMade
<1>1. ASSUME \A o \in Orders : Exists(o) => orders[o].own # own
      PROVE  case = "none"
    <2>1. made = {} /\ held = {}
        BY <1>1 DEF Exists
    <2>2. ~(Cardinality(made) > 1)
        BY <2>1, FS_EmptySet, SMTT(30)
    <2> HIDE DEF made, held
    <2> QED BY <2>1, <2>2
<1>2. ASSUME NEW x \in Orders, Exists(x), orders[x].own = own
      PROVE  case = Word(orders[x].status)
    <2>1. made = {x}
        BY <1>2 DEF RecordInv, Truth, ProviderInv, Exists
    <2>2. held = {orders[x].status}
        BY <2>1
    <2>3. ~(Cardinality(made) > 1)
        BY <2>1, FS_Singleton, SMTT(30)
    <2>4. orders[x].status \in {"PENDING", "SUCCEEDED", "FAILED"}
        BY <1>2 DEF RecordInv, TypeInv, TypeOK, OrderRecord, ProviderPaymentStatus, Exists
    <2> HIDE DEF made, held
    <2>5. CASE orders[x].status = "PENDING"
        BY <2>1, <2>2, <2>3, <2>5 DEF Word
    <2>6. CASE orders[x].status = "SUCCEEDED"
        BY <2>1, <2>2, <2>3, <2>6 DEF Word
    <2>7. CASE orders[x].status = "FAILED"
        BY <2>1, <2>2, <2>3, <2>7 DEF Word
    <2> QED BY <2>4, <2>5, <2>6, <2>7
<1> HIDE DEF case
<1> QED BY <1>0, <1>1, <1>2

(* The picture of an order that keeps its status does not change.          *)
LEMMA SamePicture ==
    ASSUME Pictured, Pictured', NEW own \in BOOLEAN,
           \A o \in Orders :
               (Exists(o)' /\ orders'[o].own = own) <=> (Exists(o) /\ orders[o].own = own),
           \A o \in Orders :
               Exists(o) /\ orders[o].own = own => orders'[o].status = orders[o].status
    PROVE  OrderMade(own)' = OrderMade(own)
<1>1. CASE \A o \in Orders : Exists(o) => orders[o].own # own
    <2>1. OrderMade(own) = "none"
        BY <1>1 DEF Pictured
    <2>2. OrderMade(own)' = "none"
        BY <1>1 DEF Pictured
    <2> QED BY <2>1, <2>2
<1>2. ASSUME NEW o \in Orders, Exists(o), orders[o].own = own
      PROVE  OrderMade(own)' = OrderMade(own)
    <2>1. OrderMade(own) = Word(orders[o].status)
        BY <1>2 DEF Pictured
    <2>2. OrderMade(own)' = Word(orders'[o].status)
        BY <1>2 DEF Pictured
    <2> QED BY <1>2, <2>1, <2>2
<1> QED BY <1>1, <1>2

(* What the row records, in the words of the logical payment.              *)
LEMMA RecordedIs ==
    /\ intent.state = "SUCCEEDED" => Recorded = "paid"
    /\ intent.state = "FAILED_TERMINAL" => Recorded = "failed"
    /\ intent.state \notin {"SUCCEEDED", "FAILED_TERMINAL"} => Recorded = "open"
BY DEF Recorded

(* A payment starts open, with at most the order of an older worker.       *)
LEMMA InitLogical ==
    ASSUME Init, RecordInv, Pictured
    PROVE  Logical!PInit
<1>1. Recorded = "open"
    BY RecordedIs, SMTT(30) DEF Init, Fresh, Legacy, Row
<1>2. CASE orders = [o \in Orders |-> Absent]
    <2>1. \A o \in Orders : ~Exists(o)
        BY <1>2 DEF Exists, Absent
    <2>2. OrderMade(TRUE) = "none" /\ OrderMade(FALSE) = "none"
        BY <2>1 DEF Pictured
    <2> QED BY <1>1, <2>2 DEF Init, Logical!PInit
<1>3. ASSUME NEW x \in Orders,
             orders = [o \in Orders |-> IF o = x
                THEN [status |-> "PENDING", own |-> TRUE, fits |-> TRUE, visible |-> FALSE]
                ELSE Absent]
      PROVE  Logical!PInit
    <2>1. orders[x].status = "PENDING" /\ orders[x].own = TRUE /\ Exists(x)
        BY <1>3 DEF Exists
    <2>2. \A o \in Orders : Exists(o) => o = x
        BY <1>3 DEF Exists, Absent
    <2>3. OrderMade(TRUE) = "open"
        BY <2>1 DEF Pictured, Word
    <2>4. OrderMade(FALSE) = "none"
        BY <2>1, <2>2 DEF Pictured
    <2> QED BY <1>1, <2>3, <2>4 DEF Init, Logical!PInit
<1> QED BY <1>2, <1>3 DEF Init, Fresh, Legacy

(* Only a create, a settlement, the search index and a foreign order touch *)
(* the provider's records.                                                 *)
LEMMA OrdersChange ==
    ASSUME [Next]_vars
    PROVE  \/ UNCHANGED orders
           \/ \E w \in Workers : create_payment(w)
           \/ \E o \in Orders, s \in {"SUCCEEDED", "FAILED"} : Settle(o, s)
           \/ \E o \in Orders : Index(o)
           \/ \E o \in Orders, fits \in BOOLEAN : ForeignOrder(o, fits)
<1>1. CASE UNCHANGED vars
    BY <1>1 DEF vars
<1>2. CASE Environment
    BY <1>2 DEF Environment, handle_webhook, Emit, Crash, Fail, LeaseLapses, remote
<1>3. ASSUME NEW w \in Workers, Step(w), ~create_payment(w) PROVE UNCHANGED orders
    <2>1. ASSUME NEW row, NEW done, NEW next, Commit(w, row, done, next)
          PROVE  UNCHANGED orders
        BY <2>1 DEF Commit, remote
    <2>2. CASE Raise(w) \/ \E stage : Hold(w, stage)
        BY <2>2 DEF Raise, Hold, remote
    <2>3. ASSUME NEW row, NEW b, mark_uncertain(w, row, b) PROVE UNCHANGED orders
        BY <2>1, <2>2, <2>3 DEF mark_uncertain, Complete
    <2>4. ASSUME NEW row, NEW a, Adopt(w, row, a) PROVE UNCHANGED orders
        BY <2>1, <2>2, <2>4 DEF Adopt, Complete
    <2>5. ASSUME NEW row, finish_existing_before_create(w, row) PROVE UNCHANGED orders
        BY <2>3, <2>4, <2>5 DEF finish_existing_before_create
    <2>6. ASSUME NEW e \in Events, claim_next_event(w, e) PROVE UNCHANGED orders
        BY <2>6 DEF claim_next_event, remote
    <2>7. CASE LoadClaim(w) \/ Recovery(w) \/ get_payment(w)
        BY <2>7 DEF LoadClaim, Recovery, get_payment, remote
    <2>8. CASE dispatch_create(w)
        BY <2>1, <2>2, <2>8 DEF dispatch_create, Complete, Fence, remote
    <2>9. CASE Relock(w)
        BY <2>2, <2>9 DEF Relock
    <2>10. CASE recover_fenced_create(w) \/ Preflight(w)
        BY <2>2, <2>3, <2>5, <2>10 DEF recover_fenced_create, Preflight
    <2>11. CASE FinishCreate(w)
        BY <2>1, <2>3, <2>4, <2>11 DEF FinishCreate, Complete, Retry
    <2>12. CASE reconcile_intent(w)
        BY <2>1, <2>2, <2>12 DEF reconcile_intent, Complete, Fence, remote
    <2>13. CASE FinishReconcile(w)
        <3>1. ASSUME NEW b, StayUncertain(w, b) PROVE UNCHANGED orders
            BY <2>1, <2>2, <3>1 DEF StayUncertain, Retry
        <3>2. CASE resolve_no_provider_payment(w)
            BY <2>1, <2>2, <3>2 DEF resolve_no_provider_payment, Complete
        <3> QED BY <2>1, <2>2, <2>13, <3>1, <3>2 DEF FinishReconcile, Complete, Retry
    <2> QED BY <1>3, <2>6, <2>7, <2>8, <2>9, <2>10, <2>11, <2>12, <2>13 DEF Step
<1> QED BY <1>1, <1>2, <1>3 DEF Next, Drained

(* Every step of the executor is a step of the logical payment, or leaves  *)
(* it alone.                                                               *)
LEMMA StepLogical ==
    ASSUME RecordInv, RecordInv', Pictured, Pictured', Follows(intent'), [Next]_vars
    PROVE  [Logical!PNext]_(Logical!pvars)
<1> USE DEF Logical!pvars
<1>0. /\ TypeInv /\ TypeOK /\ RowInv /\ Truth /\ ProviderInv /\ MissionFollows
      /\ orders \in [Orders -> OrderRecord] /\ TypeOK' /\ Truth' /\ MissionFollows'
    BY DEF RecordInv, TypeInv, TypeOK, RowInv, Truth
<1>1. CASE UNCHANGED orders
    <2>1. UNCHANGED <<OrderMade(TRUE), OrderMade(FALSE)>>
        BY <1>1, SMTT(30) DEF OrderMade
    <2>2. CASE is_terminal(intent.state)
        <3>1. intent'.state = intent.state
            BY <2>2 DEF Follows
        <3>2. Recorded' = Recorded
            BY <3>1 DEF Recorded
        <3>3. mission' = mission
            BY <1>0, <3>1, SMTT(30) DEF MissionFollows, TypeOK
        <3> QED BY <2>1, <3>2, <3>3
    <2>3. CASE ~is_terminal(intent.state) /\ ~is_terminal(intent'.state)
        <3>1. /\ intent.state \notin {"SUCCEEDED", "FAILED_TERMINAL"}
              /\ intent'.state \notin {"SUCCEEDED", "FAILED_TERMINAL"}
            BY <2>3 DEF is_terminal, TERMINAL_PAYMENT_STATES
        <3>2. Recorded' = Recorded
            BY <3>1 DEF Recorded
        <3>3. mission' = mission
            BY <1>0, <3>1, SMTT(30) DEF MissionFollows, TypeOK
        <3> QED BY <2>1, <3>2, <3>3
    <2>4. CASE ~is_terminal(intent.state) /\ is_terminal(intent'.state)
        <3>1. intent.state \notin {"SUCCEEDED", "FAILED_TERMINAL"}
            BY <2>4 DEF is_terminal, TERMINAL_PAYMENT_STATES
        <3>2. Recorded = "open"
            BY <3>1, RecordedIs
        <3>3. intent'.state \in {"SUCCEEDED", "FAILED_TERMINAL"}
            BY <1>0, <2>4 DEF is_terminal, TERMINAL_PAYMENT_STATES, Truth, Backed
        <3>4. CASE intent'.state = "SUCCEEDED"
            <4>1. Recorded' = "paid" /\ mission' = "PAYMENT_SUCCEEDED"
                BY <1>0, <3>4 DEF Recorded, MissionFollows
            <4>2. PICK o \in Orders : o = intent'.linked
                BY <1>0, <3>4 DEF Truth, Backed, Exists
            <4>3. Exists(o) /\ orders[o].status = "SUCCEEDED"
                BY <1>0, <1>1, <3>4, <4>2 DEF Truth, Backed, Exists
            <4>4. orders[o].own \in BOOLEAN
                BY <1>0 DEF OrderRecord
            <4>5. OrderMade(orders[o].own) = "paid"
                BY <4>3, <4>4 DEF Pictured, Word
            <4>6. "paid" \in {OrderMade(TRUE), OrderMade(FALSE)}
                BY <4>4, <4>5
            <4> QED BY <2>1, <3>2, <4>1, <4>6
                    DEF Logical!PNext, Logical!RecordPaid, Logical!Settled
        <3>5. CASE intent'.state = "FAILED_TERMINAL"
            <4>1. Recorded' = "failed" /\ mission' = "PAYMENT_FAILED"
                BY <1>0, <3>5 DEF Recorded, MissionFollows
            <4>2. \A o \in Orders : orders[o].own => orders[o].status = "FAILED"
                BY <1>0, <1>1, <3>5 DEF Truth, Backed
            <4>3. OrderMade(TRUE) \in {"none", "failed"}
                <5>1. CASE \A o \in Orders : Exists(o) => orders[o].own # TRUE
                    BY <5>1 DEF Pictured
                <5>2. ASSUME NEW o \in Orders, Exists(o), orders[o].own = TRUE
                      PROVE  OrderMade(TRUE) = "failed"
                    BY <4>2, <5>2 DEF Pictured, Word
                <5> QED BY <5>1, <5>2
            <4> QED BY <2>1, <3>2, <4>1, <4>3
                    DEF Logical!PNext, Logical!RecordFailed, Logical!Settled
        <3> QED BY <3>3, <3>4, <3>5
    <2> QED BY <2>2, <2>3, <2>4
<1>2. ASSUME intent' = intent PROVE Recorded' = Recorded
    BY <1>2 DEF Recorded
<1>3. ASSUME NEW w \in Workers, create_payment(w), orders' # orders
      PROVE  Logical!PNext
    <2>1. UNCHANGED <<intent, mission>> /\ worker[w].pc = "create" /\ worker[w].answer = Unasked
        BY <1>3 DEF create_payment, local
    <2>2. NoneOwn
        BY <1>0, <2>1, Unsaid DEF Truth, Told, ToldNone
    <2>3. Recorded = "open"
        BY <1>0, <2>1, RecordedIs DEF RowInv, Locking, Sendable
    <2>4. PICK o \in Orders, s \in {"PENDING", "SUCCEEDED"}, v \in BOOLEAN :
              /\ ~Exists(o)
              /\ orders' = [orders EXCEPT ![o] =
                    [status |-> s, own |-> TRUE, fits |-> TRUE, visible |-> v]]
        BY <1>3 DEF create_payment, Present, Exists
    <2>5. /\ orders'[o].status = s /\ orders'[o].own = TRUE /\ Exists(o)'
          /\ \A p \in Orders : p # o => orders'[p] = orders[p]
        BY <1>0, <2>4 DEF Exists
    <2>6. \A p \in Orders : orders[p].own = FALSE
        BY <1>0, <2>2 DEF NoneOwn, OrderRecord
    <2>7. OrderMade(TRUE) = "none"
        BY <2>6 DEF Pictured
    <2>8. OrderMade(TRUE)' \in {"open", "paid"}
        BY <2>5 DEF Pictured, Word
    <2>9. OrderMade(FALSE)' = OrderMade(FALSE)
        BY <2>4, <2>5, <2>6, SamePicture DEF Exists
    <2> QED BY <1>2, <2>1, <2>3, <2>7, <2>8, <2>9 DEF Logical!PNext, Logical!Charge
<1>4. ASSUME NEW o \in Orders, NEW s \in {"SUCCEEDED", "FAILED"}, Settle(o, s)
      PROVE  Logical!PNext
    <2>1. /\ UNCHANGED <<intent, mission>> /\ orders[o].status = "PENDING" /\ Exists(o)
          /\ orders' = [orders EXCEPT ![o].status = s]
        BY <1>4 DEF Settle, local, Exists
    <2>2. \A p \in Orders :
              /\ orders'[p].own = orders[p].own /\ orders[p].own \in BOOLEAN
              /\ orders'[p].status = (IF p = o THEN s ELSE orders[p].status)
        BY <1>0, <2>1 DEF OrderRecord
    <2>3. /\ OrderMade(orders[o].own) = "open"
          /\ \A own \in BOOLEAN : own = orders[o].own => OrderMade(own)' \in {"paid", "failed"}
        <3>1. OrderMade(orders[o].own) = "open"
            BY <2>1, <2>2 DEF Pictured, Word
        <3>2. Exists(o)' /\ orders'[o].status = s
            BY <2>2 DEF Exists
        <3>3. ASSUME NEW own \in BOOLEAN, own = orders[o].own
              PROVE  OrderMade(own)' \in {"paid", "failed"}
            <4>1. OrderMade(own)' = Word(orders'[o].status)
                BY <2>2, <3>2, <3>3 DEF Pictured
            <4> QED BY <3>2, <4>1 DEF Word
        <3> QED BY <3>1, <3>3
    <2>4. \A own \in BOOLEAN : own # orders[o].own => OrderMade(own)' = OrderMade(own)
        BY <2>2, SamePicture DEF Exists
    <2>5. CASE orders[o].own = TRUE
        BY <1>2, <2>1, <2>3, <2>4, <2>5 DEF Logical!PNext, Logical!ProviderSettles
    <2>6. CASE orders[o].own = FALSE
        BY <1>2, <2>1, <2>3, <2>4, <2>6 DEF Logical!PNext, Logical!ProviderSettles
    <2> QED BY <2>2, <2>5, <2>6
<1>5. ASSUME NEW o \in Orders, Index(o) PROVE UNCHANGED Logical!pvars
    <2>1. UNCHANGED <<intent, mission>> /\ orders' = [orders EXCEPT ![o].visible = TRUE]
        BY <1>5 DEF Index, local
    <2>2. \A p \in Orders :
              orders'[p].own = orders[p].own /\ orders'[p].status = orders[p].status
        BY <1>0, <2>1 DEF OrderRecord
    <2>3. \A own \in BOOLEAN : OrderMade(own)' = OrderMade(own)
        BY <2>2, SamePicture DEF Exists
    <2> QED BY <1>2, <2>1, <2>3
<1>6. ASSUME NEW o \in Orders, NEW fits \in BOOLEAN, ForeignOrder(o, fits)
      PROVE  Logical!PNext
    <2>1. /\ UNCHANGED <<intent, mission>> /\ ~Exists(o)
          /\ \A p \in Orders : Exists(p) => orders[p].own
        BY <1>6 DEF ForeignOrder, local, Present, Exists
    <2>2. /\ orders'[o].status = "PENDING" /\ orders'[o].own = FALSE /\ Exists(o)'
          /\ \A p \in Orders : p # o => orders'[p] = orders[p]
        BY <1>0, <1>6 DEF ForeignOrder, Exists
    <2>3. OrderMade(FALSE) = "none"
        BY <2>1 DEF Pictured
    <2>4. OrderMade(FALSE)' = "open"
        BY <2>2 DEF Pictured, Word
    <2>5. OrderMade(TRUE)' = OrderMade(TRUE)
        BY <2>1, <2>2, SamePicture DEF Exists
    <2> QED BY <1>2, <2>1, <2>3, <2>4, <2>5 DEF Logical!PNext, Logical!OtherOrder
<1> QED BY <1>1, <1>3, <1>4, <1>5, <1>6, OrdersChange

(* The executor implements the logical payment: one charge, one truthful   *)
(* record, made once, whatever crashes, lapses, races and retries lie in   *)
(* between, for every number of workers, outbox rows and orders.           *)
THEOREM ImplementsLogicalPayment == Spec => RefinesLogicalPayment
<1>1. Init => Logical!PInit
    BY RecordInvariant, OrdersPictured, InitLogical
<1>2. /\ RecordInv /\ RecordInv' /\ Pictured /\ Pictured' /\ [Next]_vars
      => [Logical!PNext]_(Logical!pvars)
    BY RecordInvariant, StepLogical
<1>3. Spec => Logical!PSpec
    BY <1>1, <1>2, RecordInvariant, OrdersPictured, PTL DEF Spec, Logical!PSpec
<1> QED BY <1>3 DEF RefinesLogicalPayment
=============================================================================
