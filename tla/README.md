# PACTRA in TLA+

PACTRA lets a buyer agent shop and pay under deterministic control. A mission is
*admitted* (offers are normalised, ranked and judged by a policy), *bound* (an
authorization commits to one exact transaction) and *executed* (one durable
payment is driven to settlement at a provider). A hash-chained audit ledger
records every step, a reducer replays it, an advisory risk engine reads it, and
protocol adapters stand before the kernel. This directory models all of these.

## The system and its models

| Part | Source | Model |
|---|---|---|
| Outbox, worker loop | `payment_executor/outbox.py`, `worker.py`, `run_worker.py` | `PaymentExecutor` |
| Create, fence, recovery, reconciliation, webhooks | `payment_executor/executor.py`, `reconciliation.py`, `webhooks.py` | `PaymentExecutor` |
| Payment states and translations | `payment_executor/state_machine.py`, `packages/schemas/payment.py` | `PaymentStates` |
| What EXECUTE promises | the parts above | `LogicalPayment`, `PaymentRefinement` |
| Providers | `payment_executor/providers/` | answers and records in `PaymentExecutor` (external) |
| Payment intents, authorization lifecycle, routes | `intents.py`, `security_kernel/authorization.py`, `approval.py`, `routes_*.py` | `PaymentRequests` |
| Audit ledger and verifier | `audit_ledger/ledger.py`, `hashing.py`, `verify.py` | `AuditChain`, `AuditLedger` |
| Replay and decision trace | `audit_ledger/replay.py` | `Replay`, composed with the writers in `MissionHistory` |
| Mission states | `agent_orchestrator/state_machine.py` | `MissionStates` |
| Orchestrator, policy, binding | `orchestrator.py`, `policy_engine/`, `binding.py`, `transaction.py`, `canonical.py` | `PolicyEngine`, `Orchestrator` |
| Authority and capability kernel | `security_kernel/` | `SecurityKernel`, `KernelGates` |
| Protocol adapters | `adapters/` | `Translation`, `AdapterBoundary` |
| Risk engine | `risk_engine/`, `routes_risk.py` | `RiskScoring`, `RiskLadder`, `RiskEngine` |
| Evaluation harnesses | `attack_lab/`, `risk_engine/evaluation.py` | `Harness`, `AttackLab`, `RiskEvaluation` |
| Migrations 0006, 0009 | `apps/api/alembic/versions/` | initial states `Legacy` |

The components meet at commits. `Orchestrator` ends with the authorization that
`PaymentRequests!create_mission` takes as one transaction. `PaymentRequests!Commit`
makes an intent and its CREATE event durable, and `PaymentExecutor!Fresh` starts
there; in the other direction `PaymentRequests!SettlePayment` stands for the
settlement `PaymentExecutor` details. `verify_intent_authorization_before_provider_io`
needs the authorization to stay CONSUMED and proved while the executor runs: that is
`NothingTakenBack` with `IntentAtomic` and `PaymentApproved`, so `PaymentExecutor`
takes the check to pass. `MissionHistory` composes admission, approval, payment and
settlement, one committed transaction a step with the events it appends, and folds
the chain with `Replay`. `AuditLedger` has the interleaving inside such a transaction.

MC modules instantiate components for TLC. Several of them hold two or three systems
in one graph: a variable that never changes chooses the system, and the variables
of the others stay at one value.

## PaymentExecutor

One payment intent. Handlers touch only rows of their own intent, so intents do
not interact. `intent`, `mission` and `outbox` are the database rows, `lock` is the
row lock of `lock_payment_intent`, `worker` is each process with its claimed event
and the provider's last answer, `orders`, `sent` and `seen` are the provider's
records, the webhooks it sent and the `webhook_events` rows. `posts` and `dead` are
history: creates issued, and whether any event was dead-lettered.

A step is what lies between two commits or two provider calls; the row lock hides
anything finer. One worker turn is

    claim_next_event -> LoadClaim -> dispatch_create | reconcile_intent
      fence: Fence -> Relock -> get_payment -> Preflight -> create_payment -> FinishCreate
      fenced before: get_payment -> recover_fenced_create
      reconcile: get_payment -> FinishReconcile
      any exception: Raise -> Recovery

`handle_webhook` is one transaction of the API process. `Crash`, `Fail` and
`LeaseLapses` can happen at any stage. Things worth knowing:

* A worker keeps the attempt count it loaded with its claim (`expire_on_commit` is
  off), so `reschedule_event` takes that count as a parameter; `Recovery` re-reads.
* Nothing checks ownership when an event is completed or rescheduled. The model
  writes the row as the code does, whoever holds it by then.
* `validate_provider_route`: a worker started for another provider
  claims the event all the same and refuses it.
* `Legacy` holds the rows migration 0009 fences: an older worker may have created.
* The provider is external. With `Idempotent` it answers a repeated key with the
  payment it holds; without, each create that takes effect makes an order, a search
  may lag behind (`visible`), and orders of other origin can carry the receipt.

Abstractions: time is "a lease may lapse" and "a queued event is due"; amounts and
currencies are "fits"; CREATED and PENDING of the provider, and the two non-settling
webhook types, are translated alike by the code and are one value. Attempts saturate
at `MaxAttempts`, the only value they are compared with. A settled event that no
worker refers to is inert, and its slot is reused for the next event; with three
slots and two workers a free slot always exists when a handler commits. Isolation
is PostgreSQL's; the SQLite claim variant is left out.

`LogicalPayment` is the promise without workers, leases, fences or messages: one
charge, one record, made when the provider's order says so. `PaymentRefinement` maps
the rows and orders to it.

## PaymentRequests

HTTP requests against two missions. `mission`, `auth`, `intents` and `outbox` are
committed rows, `expired` the authorizations whose time has passed, and `req` each
request's transaction with the copies it has read: `seen` (mission state), `copy`
(authorization status) and `late` (its clock was past `expires_at`). A payment
request runs

    request_payment -> LoadAuthorization -> FindExisting -> Insert
      -> consume_authorization -> Commit

one statement a step, since under READ COMMITTED other requests commit in between.
`Insert` waits for an uncommitted row that clashes on a unique key; the consume
and revocation wait for an authorization row that is locked (`Locked`). `Abort`
is a lost connection or a dead process at any point, and `Commit` may succeed
without the caller hearing of it. A refusal of the payment route rolls everything
back; a refusal of the approval route commits its expiry demotion, as the route does.

A mission has one authorization, named by the mission. All else a fingerprint
covers comes from the authorization row, so a request is its mission, key and
provider. The foreign-key share locks of the insert are in `AuditLedger`.

## AuditChain and AuditLedger

`AuditChain` has the rows, the hash (its preimage, as SHA-256 is taken to be free of
collisions) and the verifier; the k-th event listed is the one that k - 1 precede.
`AuditLedger` runs the transactions that append to one mission's chain, each as the list
of statements its handler issues: payment requests, expiries and revocations, provider
answers, webhooks and risk notes. A statement that needs a lock held in a conflicting
mode waits, and a transaction in a cycle of waiters may be aborted by the deadlock
detector. The ledger starts with the mission's first event, and for a mission already
paid with the events of its payment.

## Replay and MissionHistory

`Replay` is the reducer, rule by rule, with the next action its decision trace names.
`MissionHistory` is one mission told twice, by its rows and by its chain; what is read
before a lock (an approval's mission, a payment request's existing intent) is a step
of its own.

## SecurityKernel, PolicyEngine, KernelGates and Orchestrator

`SecurityKernel` has provenance, the authority lattice, the protected register, the
capability firewall, the canonical encoding and the two digests. A digest is its
domain and the type-tagged fields it covers. `PolicyEngine` has ingress,
normalisation, ranking and the decision; prices are in half rupees and ratings in
thousandths so that Python's rounding is there. `KernelGates` puts the register and
the privileged boundaries under any sequence of calls. `Orchestrator` is
`Orchestrator.run` step by step inside its one transaction, with rows of the offers
table edited between selection and bind (`Drift`), on a database that drops or keeps
the zone of a timestamp. Whatever raises on the way rolls the whole request back
(`fail`): an adapter, an infinite price (`ingest_raises`), a timestamp without a zone, an
amount beyond an Integer column (`Fits`), a text or value that the encoders or the store
refuse (`writable`), or a best price that rounds to zero and is refused at the bind.

## Translation and AdapterBoundary

`Translation` is the work of the three adapters on a JSON document. A value is its kind
and what the code compares; a key is a name and a spelling. `AdapterBoundary` is the
registry from import to seal and after, `translate` with the checks of its result, and
the firewall an operation then meets. A draft adapter added to the list may return
anything.

## RiskScoring, RiskLadder and RiskEngine

`RiskScoring` is the rule table, the normalisation and the bands on integers
(thousandths and millionths). `RiskLadder` takes the features from harmless to risky
one rung at a time. `RiskEngine` assesses missions while they go on: each SELECT of an
assessment is a step, and a POST records its verdict in the chain. `Alter` is an edit
of the chain behind the program's back, which takes an event's meaning away.

## Harness, AttackLab and RiskEvaluation

The two evaluation commands: selection, isolation, statuses, metrics, findings, the
threshold sweep and the exit codes. A scenario is what it declares and what running it
may yield. A risk score keeps one digit beyond the nine decimals that `_determinism`
compares (`FINE`): scores that agree to nine decimals can lie on both sides of a threshold.

## Runs

| Run | Bounds | Shows |
|---|---|---|
| `fenced` | 2 workers, 3 event slots, 2 orders, 2 attempts, 1 fault, 1 lapse under a live worker | safety with a provider whose create is not idempotent |
| `idempotent` | the same, 1 order | the refinement of `LogicalPayment`, with an idempotent provider |
| `live` | three deployments, 2 workers, 1 order, up to 1 fault and 1 lapse | resolution and lock release: a misrouted worker, an idempotent provider, two workers under one id |
| `requests` | 2 missions, keys and providers, 3 requests | safety of intent creation |
| `transactions` | 2 requests; ledgers with 5 transactions while paying and while settling | ledger and rows agree, alterations are located, everything ends |
| `history` | three missions: 2 approvers, or 2 requests and 4 worker transactions | replay and trace are faithful |
| `admission` | 2 merchants, offers one edit away from a good one, columns that hold up to 15, 1 drift; 2 fields and 3 values; documents one edit away from a good one | kernel, orchestrator and adapter boundary |
| `advisory` | 3 missions of which 1 pays, 1 assessor; 1 mission, 2 recorded assessments, 1 edit, an authorization that runs out; 3 features worse at a time; 5 scenarios, up to 2 iterations, 2 server changes; corpora of up to 3 | history, findings and score; green exits and reports |
| `permanent`, `duplicate`, `replay_reuse`, `exit_code` | small instances | the divergences below |

Two workers suffice for every pairwise race on a row, and a crash or a lapse is
what brings a third claim of the same event. Two attempts are the least for which
"retry" and "dead-letter" differ. Two orders are what ambiguity takes. Three
requests let two race while a third arrives after the winner. Two merchants are what
an impersonation takes, two amounts what a median takes. Documents are edited once:
every check of an adapter looks at one member or compares two. Histories longer than
the windows occur, since the windows are two here. Prices lie on both sides of the
columns' 15, alone and times the quantity.

Symmetry is used where the constants are interchangeable and no liveness is checked.
`Drained`, `Quiet` and `Done` let the payment systems and the ledger rest, so a deadlock is still reported.
Missions, documents, assessments and batches come to an end, so `history`, `admission`
and `advisory` do not ask for a next step.

What the properties say, beyond one state machine each:

* `SingleCreate`, `OneOwnOrder`: at most one create, and one order of our making.
  `RecordBacked`: payment and mission record what the provider holds.
  `NeverStranded`: no open payment without a live or dead-lettered event, and none left
  PROCESSING. `AmbiguityHoldsPending`, `ConsumedSuccessSettles`, `OneWay`: ambiguity pins
  PROVIDER_PENDING, a consumed success has settled, nothing durable is taken back.
* `OnePayment`, `IntentAtomic`, `PaymentApproved`, `AnswerBacked`, `NothingTakenBack`: one
  payment per key and authorization, all or nothing, on a user's proof or the policy's;
  no status or mission moves back. `Served`: every request ends.
* `LedgerTellsRows`, `AlterationLocated`, `AppendsUndisturbed`, `EveryTransactionEnds`.
  Provider answers and webhooks are never deadlock victims; payment requests and
  demotions can be, and are rolled back whole.
* `ReplayFaithful` (recorded assessments change nothing else), `TraceGuides`,
  `OneSuccessEntry`.
* `UserValueStands`, `NoSelfDealing`, `MandateKept`, `EvidenceComplete`,
  `BoundRowIsJudged`: the user's policy and mandate are kept, the best acceptable offer
  is bound as it was judged, and only drift refuses a bind. The evidence of a violation
  is complete, or the request was rolled back for one of the reasons `Unkeepable` lists
  and left nothing at all.
* `EnvelopeSound`, `NothingIgnored`, `RegistryStands`: what leaves the boundary is
  marked, complete and grants nothing; every member a document states is kept, or the
  document is refused; the sealed registry is final.
* `HistoryFair`, `FindingsKept` (a finding is lost only to an edit, which is then itself
  a finding), `ScoreMonotone`; `GreenEarned` (no hostile run went through and the
  critical ones were measured), `ReportsAgree`, `EveryBatchEnds`.

### Fairness

Each worker's step is weakly fair: `run_forever` loops and goes on after any
exception. An abandoned lease lapses because time passes (weak fairness); a lease
under a live worker never has to. Nothing is assumed of the provider, of webhooks or
of faults for a fenced provider. For an idempotent one the code sets no bound: each
empty lookup queues a new CREATE event with a new retry budget, so CREATE and
RECONCILE can alternate for ever while creates fail. Its deployment therefore
assumes that the lookup before a create, and a create, succeed if tried again and
again (`ProviderAnswers`). Requests, transactions and the attack lab's batches proceed by
weak fairness: the process runs the handler it started, and PostgreSQL resolves a
deadlock.

### Divergences

* `permanent`: `complete_event` is documented as "Mark an event permanently done."
  Two workers come to hold one RECONCILE event when the first one's lease runs out during
  its lookup. The first completes the event; the second's own lookup fails, and
  `reconcile_intent` (`reconciliation.py:169`) reschedules the processed row. One that
  raises instead gets there a step later, by the recovery transaction (`worker.py:145`).
  Payments are unharmed, as the handlers are idempotent.
* `duplicate`: a concurrency test requires every duplicate to be answered with
  the payment. One that read its authorization before the winner's commit and
  looked up the key after it is refused with AUTHORIZATION_NOT_ACTIVE. A retry succeeds.
* `replay_reuse`: PAYMENT_INTENT_REUSED records a payment state read before the wait
  for the mission lock, and replay adopts it. `ReplayFaithful` leaves the reuse events
  aside for the payment's state.
* `exit_code`: `attack_lab/run.py:22` (and `docs/architecture.md:800`, `README.md:1284`)
  says that exit code 0 means every hostile scenario was blocked. A hostile scenario that
  is not critical and raises is an ERROR, which `decide_exit_code` does not look at.

Met while modelling, present in the models, without a run of their own:

* `domain.py:208` keeps claims to types that serialize, as each is written to the ledger;
  a claim can still hold what the store refuses, and then the whole request is rolled
  back, evidence of its violations included (`adjudicate_claim`, `Unrecordable`). So it is
  for one offer among many whose price is infinite or too large (`normalize`).
* `transaction.py:137` says any change to an offer's content changes its version; the
  rating is rounded to hundredths first (`compute_offer_version`).
* `adapters/__init__.py:108` says a different adapter under a taken id raises;
  `_register_all` skips it (`Step`).
* `adapters/errors.py:3` says every boundary failure has its own reason code; a too
  long document-level merchant id and an integer too large for a float leave the
  commerce adapter as other exceptions (`UNCAUGHT`).
* `adapters/fields.py:145` refuses a field stated twice; a key repeated literally has
  been reduced to its last value by `json.loads` (`Parsed`).
* `risk_engine/config.py:159` says an amount above the ceiling never reaches its
  factor; a mission denied for it keeps the amount and is scored.
* `attack_lab/run.py:33` says an inconclusive run does not fail by default; a critical
  one does (`critical_failures`). `runner.py:9` promises INCONCLUSIVE for an absent
  backend; a server lost in mid-batch ends the batch without a report.

## Proofs

`PaymentExecutorProofs` (creates, the payment row) and `PaymentRecordProofs` (record and
provider, refinement) hold for any sets of workers, events and orders and any bounds
(`ConstantsAssumption`); the other proof modules for any constants of theirs, with the
assumption named. The model's one bound that the constants do not lift is
`ForeignOrder`'s: at most one order of another origin. Each inductive invariant was
checked by TLC, on the instances of the runs, before it was proved.

**Creates.** `TypeCorrect` (`TypeOK`) and `AtMostOneCreate` (`SingleCreate`).
`SingleCreate` is not inductive: what matters is who may still create. `IInv` adds
`OnePermission`. Without idempotent create, a worker on its way to a create (fenced, in
its preflight or in the create, with no answer yet) exists only when the row is fenced
and nothing was posted, and there is one such worker at most. The fence is taken from
an unfenced row only and never given back, so a second permission cannot arise, and a
posted create ends the permission.

**The payment row.** `NeverForgotten` (`NeverStranded`), `AmbiguousStaysPending`
(`AmbiguityHoldsPending`) and `NothingUndone` (`OneWay`), for both kinds of provider.
None is inductive, because a handler acts on a row it read earlier. `RowInv` says why
that is safe: a row is never PROCESSING, never sendable once linked and stays pending
while ambiguous (`Lawful`); a worker in a stage that holds the row lock does hold it,
and one about to create still finds a sendable row (`Locking`); the mission ends with
its payment (`MissionFollows`); an unsettled payment has a live event or was
dead-lettered (`Remembered`). Every action's lemma gives `RowInv'` and `Follows(intent')`,
that nothing of the old row is taken back; the worker's lemmas go through `Copy`, the
handler's working copy of the row before it records an outcome.

**Record and provider.** `OneOrderIsMade` (`OneOwnOrder`), `RecordsAreTrue`
(`RecordBacked`) and `ConsumedNoticesSettle` (`ConsumedSuccessSettles`). `RecordInv` adds
`Truth` to the two invariants above: what the provider holds and has announced
(`ProviderInv`), what a row that may be committed needs of it (`Backed`), and what each
worker has been told (`Told`). An answer may be stale when it is used; what matters is
that a settled order stays settled, and that "there is no order" stays true while the
worker that was told so holds the row lock. The step from "told none" to a create is
where `OnePermission` and `Locking` are needed together.

**Refinement.** `ImplementsLogicalPayment` (`RefinesLogicalPayment`): every step of the
executor is a step of `LogicalPayment` or leaves it alone. The mapping reads one order of
each making off the provider's records; `RecordInv` shows there is no second one
(`OrdersPictured`). The lemmas then take the steps that change the orders, those that
change the row, and those that change neither.

**Requests.** `PaymentRequestsProofs`, for any missions, keys, providers and concurrent
requests with a `None` outside them (`NoneAssumption`): `KeysNameOnePayment`
(`OnePayment`), `IntentIsAtomic` (`IntentAtomic`), `PaymentsAreApproved`
(`PaymentApproved`), `AnswersAreBacked` (`AnswerBacked`) and `NothingIsTakenBack`
(`NothingTakenBack`, an action property). A request acts on a mission state and an
authorization it read statements ago. `Inv` says what it may rely on at each stage
(`Relies`): after its insert nobody else holds its unique keys, after its conditional
UPDATE the authorization is still active. Uncommitted rows never clash (`Apart`), and the
rows of a mission agree (`Agrees`). `OthersRely` is the frame: what the others keep while
one request commits.

**Ledger.** `AuditLedgerProofs`, for any number of transactions of each kind, the mission
paid or not at the start: `LedgerAndRowsAgree` (`LedgerTellsRows`), `LedgerIsOneChain` (the
committed rows are `Chained`: sequence numbers without gap or repetition, each event
linked to the one before) and `AppendsAreUndisturbed` (`AppendsUndisturbed`). The argument
is about programs. Every handler's list of statements is `Orderly`: it locks the mission
row before it reads the last event, reads it right before each insert, writes before it
appends, and locks the row it writes first. `Issued` says where in its program a
transaction is and what it therefore holds, has written and has appended. Locks that
exclude each other have one holder (`Exclusive`), so whoever has appended or is about to
holds the mission row alone, and what it extends is still the end of the committed chain
(`Sound`). When one that has appended commits, the others have appended nothing and hold
no last event they are about to use (`OthersSound`). So no insert meets the unique
sequence.

That no settlement, delivery or note is in a cycle of waiters needs one more invariant
(`QueueInv`): a transaction that has the intent's row still to lock holds nothing, and
these kinds hold the mission row in whole or not at all. A transaction is `Deadlocked`
when every set closed under "is waited for by" that holds its blockers holds it too, so
one closed set without it is enough. Whoever waits for one of these while it waits itself
is waiting for the intent's row and holds nothing (`WaiterHoldsNothing`), so nobody waits
for them: the transactions that do not wait for it are such a set. The assumption
`KindsApart` says that a transaction of these kinds is not also a payment request or a
demotion.

**Verifier.** `AuditVerifierProofs` proves `AlterationsAreLocated` (`AlterationLocated`) for
ledgers of any length. Sorting puts every row in the place its rank says (`Listed`), and a
committed row's rank is its sequence number, since none is missing (`Numbered`, `Written`).
An altered row keeps its identifier and passes the hash check only if it was not altered
(`Replaces`). So the events before the first failure are the ones written there
(`PassedIsWritten`), the one at the failure is not, and a ledger with no failure is the
whole one: a row missing before the last would leave the last beyond its place
(`Detected`). The hash is its preimage here; what is proved is that the checks of
`verify_events` suffice if SHA-256 has no collisions.

**Mission runs.** `OrchestratorProofs`, for any requests, merchants, answers and edits of
the offers table: `MandateIsKept` (`MandateKept`), `EvidenceIsComplete` (`EvidenceComplete`)
and `BoundRowWasJudged` (`BoundRowIsJudged`), from `RunInvariant`. `RunInv` says what each
phase has established: how far the mission got (`Phase`); that the register is the user's
policy, and that the violations recorded and those the claims still to be adjudicated
will cause add up (`Adjudicated`); that offers, ranking and decision are functions of the
request, and the rows those of the offers until one is edited (`Derived`); that what the
binding checked still holds (`BoundAsChecked`); and why a request is rolled back
(`FailureExplained`). The lemmas on `PolicyEngine` say that normalisation drops and adds no
offer and keeps who made it (`NormalizeOffers`) and that the ranking starts with a best
acceptable offer, or is empty because there is none (`RankOffers`). Assumed are
`TrustIsScored` (trust scores are integers), `RequestsWellFormed` (what
the schemas of request and offer enforce, which does not exclude an infinite price) and
`ColumnsHoldNumbers` (the columns' largest value is a natural number).

**Kernel and adapter boundary.** `KernelProofs` proves `UserPolicyStands`
(`UserValueStands`) and `DutiesSeparated` (`NoSelfDealing`) for any fields, values and
presented capability sets. The first rests on `Owned`: a protected field is held at the
user's authority, which no other source reaches. For any documents, principals and draft
adapters it proves `EnvelopesAreSound` (`EnvelopeSound`) and `RegistryIsStable`
(`RegistryStands`). `BoundaryInv`: the registry holds entries of the list only, under their
own ids and below the authority ceiling (`Registered`); all of them once it is sealed
(`Complete`), and it is sealed exactly when the import has succeeded; an accepted result
is `Sound`; what was granted is a buyer agent's. The lemmas on `Translation` follow each
adapter's checks in order (`CommerceTyped`, `IntentTyped`, `McpTyped`): a document that meets
no refusal yields a payload of the adapter's family. `DraftsTyped` says of a draft adapter
only what the types of `AdapterResult` enforce.

**Induction.** The library's induction theorems take an operator as a parameter, which
the provers cannot instantiate. `DataInduction` does without: a set of naturals that holds
0 and every successor is all of them (`NatSet`), from the well-foundedness of `<`. What a
recursive function over a sequence collects (`LaidElements`) and that a finite ordered set
has a first element (`FirstElement`) follow, and the proofs above use these.

Checked by TLC only:

* all liveness (`EventuallyResolved`, `LockReleased`, `Served`, `EveryTransactionEnds`,
  `EveryBatchEnds`): fairness and ENABLED are outside the prover;
* `NothingIgnored`, which names the parts of the sample documents;
* replay (`ReplayFaithful`, `TraceGuides`, `OneSuccessEntry`): the reducer folds some twenty
  rules over a chain, and an inductive statement would have to list what every prefix of
  a history yields;
* risk (`HistoryFair`, `FindingsKept`, `ScoreMonotone`), made of sums and sorted windows, and
  the reports of the harnesses (`GreenEarned`, `ReportsAgree`): library folds and sorts,
  which would first have to be restated as recursive functions.

## Not modelled

* What attack-lab and risk-evaluation scenarios do: they are tests of the components
  above. The per-category tables, layout and wording of reports and explanations.
* The web application, the mock merchants' sample data, read-only routes and the
  command lines that only print.
* HTTP transport, JSON decoding, receipts and the environment registry of the payment
  providers; cryptographic primitives, which are their verdicts.
* SQLite's writer lock and claim variant; PostgreSQL is the authoritative backend.
* Migrations other than 0006 and 0009: schema definitions.
* The race of `replay_mission` itself, which reads chain and rows in separate SELECTs:
  it shows only in a diagnostic flag that the next call corrects.
