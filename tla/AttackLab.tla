----------------------------- MODULE AttackLab -----------------------------
(***************************************************************************)
(* The evaluation harness of the attack lab (services/attack_lab/run.py,   *)
(* runner.py, evaluation.py, metrics.py, models.py): select scenarios, run *)
(* each in a fresh database, fold the results into metrics, derive the     *)
(* findings and an exit code.  A scenario is known only by what it         *)
(* declares and by what running it may yield; what the scenarios do is not *)
(* modelled.                                                               *)
(***************************************************************************)
EXTENDS Harness

CONSTANTS
    Scenario,      \* id -> [category, backend, expected, reason, critical]
    Registered,    \* the registry: ids in the order of registration
    Baseline,      \* PHASE6_CANONICAL_SCENARIOS
    REPLAY_SCENARIO_IDS, DUPLICATE_PAYMENT_SCENARIO_IDS,
    Arguments,     \* the command lines considered
    Outcomes,      \* what a scenario's setup and execute may do
    MaxFlaps       \* bound: times the PostgreSQL server comes or goes

VARIABLES
    args,      \* the command line
    phase,     \* start, running, done, aborted
    todo,      \* ids still to run, in order
    results,   \* AttackResults so far
    server,    \* whether a PostgreSQL server answers
    engine,    \* the executor's engine: none, open or failed (_pg_error)
    flaps,     \* times the server came or went
    exit       \* exit code, -1 before there is one

vars == <<args, phase, todo, results, server, engine, flaps, exit>>

EXIT_OK == 0
EXIT_SECURITY_FAILURE == 1
EXIT_USAGE == 2

MALICIOUS_CATEGORIES == {"INPUT_TRUST", "AUTHORITY", "TRANSACTION", "PAYMENT_RELIABILITY", "WEBHOOK",
                         "AUDIT", "CONCURRENCY", "ADAPTER"}
AttackCategory == MALICIOUS_CATEGORIES \union {"BENIGN_CONTROL", "KNOWN_LIMITATION"}

is_decisive(r) == r.status \in {"BLOCKED", "NOT_BLOCKED"}
is_malicious(r) == Scenario[r.id].category \in MALICIOUS_CATEGORIES

----------------------------------------------------------------------------
(* One run.                                                                *)

(* _result: the only place a status becomes a record.                      *)
Result(id, status, observation, error) ==
    LET expected == Scenario[id].reason
    IN  [id |-> id, status |-> status, error |-> error, execute_ms |-> observation.ms,
         effect |-> observation.effect, invariant_preserved |-> observation.invariant,
         reason_match |->
             IF expected # "none" /\ observation.reason # "none"
             THEN (IF observation.reason = expected THEN "yes" ELSE "no")
             ELSE IF expected # "none" /\ status \in {"BLOCKED", "NOT_BLOCKED"} THEN "no"
             ELSE "unknown"]

NoObservation(ms) == [blocked |-> FALSE, reason |-> "none", invariant |-> "unknown", effect |-> FALSE, ms |-> ms]

Verdict(observation) == IF observation.blocked THEN "BLOCKED" ELSE "NOT_BLOCKED"

(* run_scenario: a fixture that fails is inconclusive, an attack that      *)
(* raises is an error, and only a measurement is a verdict.                *)
run_scenario(id, outcome) ==
    CASE outcome.raises = "setup"   -> Result(id, "INCONCLUSIVE", NoObservation(0), "setup failed")
      [] outcome.raises = "execute" -> Result(id, "ERROR", NoObservation(outcome.observation.ms), "execute raised")
      [] OTHER -> Result(id, Verdict(outcome.observation), outcome.observation, "none")

unavailable(id) == Result(id, "INCONCLUSIVE", NoObservation(0), "BACKEND_UNAVAILABLE")

----------------------------------------------------------------------------
(* Metrics, findings and the exit code.                                    *)

Ids(rs) == {r.id : r \in ToSet(rs)}

Status(rs, status) == CountOf(rs, LAMBDA r : r.status = status)
Rate(rs, status) == rate(Status(rs, status), Status(rs, "BLOCKED") + Status(rs, "NOT_BLOCKED"))

by_category(rs) ==
    [c \in {Scenario[rs[i].id].category : i \in DOMAIN rs} |->
        LET runs == SelectSeq(rs, LAMBDA r : Scenario[r.id].category = c)
        IN  [runs |-> Len(runs), blocked |-> Status(runs, "BLOCKED"), not_blocked |-> Status(runs, "NOT_BLOCKED"),
             errors |-> Status(runs, "ERROR"), inconclusive |-> Status(runs, "INCONCLUSIVE"),
             block_rate |-> Rate(runs, "BLOCKED")]]

(* Mutation: a critical scenario that did not run is no failure.           *)
Bug_DecisiveFailuresOnly(rs) ==
    Ids(SelectSeq(rs, LAMBDA r : Scenario[r.id].critical /\ is_decisive(r) /\ r.status # Scenario[r.id].expected))

critical_failures(rs) == Ids(SelectSeq(rs, LAMBDA r : Scenario[r.id].critical /\ r.status # Scenario[r.id].expected))

(* _replay_counts and _duplicate_payment_counts: over decisive runs only;  *)
(* "effect" is the measured effect each set of scenarios publishes.        *)
Decisive(rs, ids) == SelectSeq(rs, LAMBDA r : r.id \in ids /\ is_decisive(r))
replay_rate(rs) ==
    LET attempts == Decisive(rs, REPLAY_SCENARIO_IDS)
    IN  rate(CountOf(attempts, LAMBDA r : r.effect \/ r.status = "NOT_BLOCKED"), Len(attempts))
duplicate_payment_rate(rs) ==
    LET attempts == Decisive(rs, DUPLICATE_PAYMENT_SCENARIO_IDS)
    IN  rate(CountOf(attempts, LAMBDA r : r.effect), Len(attempts))

LatencyOf(rs) ==
    LET decisive == SelectSeq(rs, is_decisive)
    IN  latency([i \in DOMAIN decisive |-> decisive[i].execute_ms])

compute_metrics(rs) ==
    LET attacks  == SelectSeq(rs, is_malicious)
        controls == SelectSeq(rs, LAMBDA r : Scenario[r.id].category = "BENIGN_CONTROL")
        checked  == SelectSeq(rs, LAMBDA r : r.reason_match # "unknown")
        measured == SelectSeq(rs, LAMBDA r : r.invariant_preserved # "unknown")
    IN  [total_runs          |-> Len(rs),
         attacks_blocked     |-> Status(attacks, "BLOCKED"),
         attacks_not_blocked |-> Status(attacks, "NOT_BLOCKED"),
         controls_blocked    |-> Status(controls, "BLOCKED"),
         errors              |-> Status(rs, "ERROR"),
         inconclusive        |-> Status(rs, "INCONCLUSIVE"),
         rates |-> [block     |-> Rate(attacks, "BLOCKED"),
                    success   |-> Rate(attacks, "NOT_BLOCKED"),
                    false_pos |-> Rate(controls, "BLOCKED"),
                    invariant |-> rate(CountOf(measured, LAMBDA r : r.invariant_preserved = "held"), Len(measured)),
                    reason    |-> rate(CountOf(checked, LAMBDA r : r.reason_match = "yes"), Len(checked)),
                    replay    |-> replay_rate(rs),
                    duplicate |-> duplicate_payment_rate(rs)],
         latency             |-> LatencyOf(rs),
         by_category         |-> by_category(rs),
         bypassed_scenarios  |-> Ids(SelectSeq(attacks, LAMBDA r : r.status = "NOT_BLOCKED")),
         critical_failures   |-> critical_failures(rs)]

(* derive_findings: one finding per scenario that was bypassed, with how   *)
(* often.                                                                  *)
derive_findings(rs) ==
    [id \in Ids(SelectSeq(rs, LAMBDA r : is_malicious(r) /\ r.status = "NOT_BLOCKED")) |->
        CountOf(rs, LAMBDA r : r.id = id /\ r.status = "NOT_BLOCKED")]

postgres_exercised(rs) == \E i \in DOMAIN rs : Scenario[rs[i].id].backend = "POSTGRES" /\ is_decisive(rs[i])

decide_exit_code(rs, require_postgres) ==
    LET metrics == compute_metrics(rs)
    IN  IF \/ metrics.attacks_not_blocked > 0
           \/ metrics.controls_blocked > 0
           \/ metrics.critical_failures # {}
           \/ require_postgres /\ ~ postgres_exercised(rs)
        THEN EXIT_SECURITY_FAILURE ELSE EXIT_OK

----------------------------------------------------------------------------
(* The batch.                                                              *)

Known == ToSet(Registered)

(* run, up to evaluate: what the command line selects, or a usage error.   *)
usage_error(a) ==
    \/ ~ a.all /\ ~ a.baseline /\ a.scenarios = <<>> /\ a.categories = {}
    \/ a.baseline /\ (a.all \/ a.scenarios # <<>> \/ a.categories # {})
    \/ a.iterations < 1
    \/ ~ a.categories \subseteq AttackCategory
    \/ ~ ToSet(a.scenarios) \subseteq Known

(* resolve_scenarios: named ids first, then categories, else everything.   *)
resolve_scenarios(a) ==
    IF a.baseline THEN Baseline
    ELSE IF a.scenarios # <<>> THEN a.scenarios
    ELSE IF a.categories # {} THEN SelectSeq(Registered, LAMBDA id : Scenario[id].category \in a.categories)
    ELSE Registered

Start ==
    /\ phase = "start"
    /\ IF usage_error(args)
       THEN phase' = "done" /\ exit' = EXIT_USAGE /\ UNCHANGED todo
       ELSE /\ phase' = "running" /\ UNCHANGED exit
            /\ todo' = FlattenSeq([i \in 1..args.iterations |-> resolve_scenarios(args)])
    /\ UNCHANGED <<args, results, server, engine, flaps>>

Record(r) == results' = Append(results, r) /\ todo' = Tail(todo)

NextIs(backend) == phase = "running" /\ todo # <<>> /\ Scenario[Head(todo)].backend = backend

(* A SQLite scenario: a database of its own.                               *)
ExecuteSqlite ==
    /\ NextIs("SQLITE")
    /\ \E outcome \in Outcomes : Record(run_scenario(Head(todo), outcome))
    /\ UNCHANGED <<args, phase, server, engine, flaps, exit>>

(* execute, on a scenario whose backend was excluded from the batch.       *)
ExcludePostgres ==
    /\ NextIs("POSTGRES") /\ args.sqlite_only
    /\ Record(unavailable(Head(todo)))
    /\ UNCHANGED <<args, phase, server, engine, flaps, exit>>

(* _postgres_engine opens the engine the first time it is wanted.          *)
OpenPostgres ==
    /\ NextIs("POSTGRES") /\ ~ args.sqlite_only /\ engine = "none" /\ server = "up"
    /\ engine' = "open"
    /\ UNCHANGED <<args, phase, todo, results, server, flaps, exit>>

(* Mutation: the batch waits for the server to come back.                  *)
Bug_WaitsForServer ==
    /\ NextIs("POSTGRES") /\ ~ args.sqlite_only
    /\ engine = "failed" \/ (engine = "none" /\ server = "down")
    /\ UNCHANGED vars

(* No server when the engine is first wanted: remembered in _pg_error, so  *)
(* that every later PostgreSQL scenario of the batch is unavailable too.   *)
MissPostgres ==
    /\ NextIs("POSTGRES") /\ ~ args.sqlite_only
    /\ engine = "failed" \/ (engine = "none" /\ server = "down")
    /\ engine' = "failed"
    /\ Record(unavailable(Head(todo)))
    /\ UNCHANGED <<args, phase, server, flaps, exit>>

(* A PostgreSQL scenario on the truncated schema.                          *)
ExecutePostgres ==
    /\ NextIs("POSTGRES") /\ ~ args.sqlite_only /\ engine = "open" /\ server = "up"
    /\ \E outcome \in Outcomes : Record(run_scenario(Head(todo), outcome))
    /\ UNCHANGED <<args, phase, server, engine, flaps, exit>>

(* The engine is open and the server is gone: make_postgres_context raises *)
(* an error that is not PostgresUnavailable, so it leaves evaluate and run *)
(* by way of the finally that closes the engine.  The process ends with    *)
(* the interpreter's status for an uncaught exception.                     *)
LosePostgres ==
    /\ NextIs("POSTGRES") /\ ~ args.sqlite_only /\ engine = "open" /\ server = "down"
    /\ phase' = "aborted" /\ engine' = "none" /\ exit' = 1
    /\ UNCHANGED <<args, todo, results, server, flaps>>

(* The last result is in: close the engine, fold and decide.               *)
Finish ==
    /\ phase = "running" /\ todo = <<>>
    /\ phase' = "done" /\ engine' = IF engine = "open" THEN "none" ELSE engine
    /\ exit' = decide_exit_code(results, args.require_postgres)
    /\ UNCHANGED <<args, todo, results, server, flaps>>

(* The server comes or goes while the batch runs.                          *)
Flap ==
    /\ phase = "running" /\ flaps < MaxFlaps
    /\ server' = IF server = "up" THEN "down" ELSE "up"
    /\ flaps' = flaps + 1
    /\ UNCHANGED <<args, phase, todo, results, engine, exit>>

Init ==
    /\ args \in Arguments /\ phase = "start" /\ todo = <<>> /\ results = <<>>
    /\ server \in {"up", "down"} /\ engine = "none" /\ flaps = 0 /\ exit = -1

Batch == Start \/ ExecuteSqlite \/ ExcludePostgres \/ OpenPostgres \/ MissPostgres \/ ExecutePostgres
            \/ LosePostgres \/ Finish

Next == Batch \/ Flap

Spec == Init /\ [][Next]_vars

----------------------------------------------------------------------------
(* Properties.                                                             *)

(* Exit code 0 is earned (run.py decide_exit_code): every selected         *)
(* scenario was run in every iteration, no hostile run went through, no    *)
(* control was refused, and every critical run measured its expected       *)
(* outcome, none of them by an exception. Of the runs that are not         *)
(* critical only a measured failure counts: an attack that raised is as    *)
(* good as one that was blocked.                                           *)
ExitZeroEarned ==
    exit = EXIT_OK =>
        /\ phase = "done" /\ Len(results) = args.iterations * Len(resolve_scenarios(args))
        /\ \A i \in DOMAIN results :
              LET r == results[i]
                  s == Scenario[r.id]
              IN  /\ is_malicious(r) => r.status # "NOT_BLOCKED"
                  /\ s.category = "BENIGN_CONTROL" => r.status # "BLOCKED"
                  /\ s.critical => r.status = s.expected /\ r.error = "none"
        /\ args.require_postgres => \E i \in DOMAIN results :
              Scenario[results[i].id].backend = "POSTGRES" /\ results[i].error = "none"

(* One batch measures one backend (runner.py ScenarioExecutor): although   *)
(* the server comes and goes, either every PostgreSQL run of the batch was *)
(* unavailable or none was, and no engine outlives the batch.              *)
OneBackendPerBatch ==
    /\ phase \in {"start", "done", "aborted"} => engine # "open"
    /\ \A i, j \in DOMAIN results :
        Scenario[results[i].id].backend = "POSTGRES" /\ Scenario[results[j].id].backend = "POSTGRES" =>
            ((results[i].error = "BACKEND_UNAVAILABLE") <=> (results[j].error = "BACKEND_UNAVAILABLE"))

Total(f, D) == FoldSet(LAMBDA x, sum : f[x] + sum, 0, D)

(* A percentile is a duration some decisive run took, and at least that    *)
(* share of the decisive runs took no longer (metrics.py percentile).      *)
PercentilesObserved(l) ==
    LET Within(ms) == CountOf(results, LAMBDA r : is_decisive(r) /\ r.execute_ms <= ms)
    IN  l.samples > 0 =>
            \A q \in {<<50, l.p50>>, <<95, l.p95>>, <<99, l.p99>>} :
                /\ \E i \in DOMAIN results : is_decisive(results[i]) /\ results[i].execute_ms = q[2]
                /\ 100 * Within(q[2]) >= q[1] * l.samples

(* The report tells one story (metrics.py compute_metrics, evaluation.py   *)
(* derive_findings): a run without a verdict moves no rate and no          *)
(* percentile; every run is in one category and one outcome; the hostile   *)
(* categories add up to the headline counts, and the findings are exactly  *)
(* the bypassed scenarios, each as often as it was bypassed.               *)
ReportAgrees ==
    phase = "done" =>
        LET m == compute_metrics(results)
            decided == compute_metrics(SelectSeq(results, is_decisive))
            c == m.by_category
            hostile == DOMAIN c \intersect MALICIOUS_CATEGORIES
            findings == derive_findings(results)
        IN  /\ m.rates = decided.rates /\ m.latency = decided.latency
            /\ PercentilesObserved(m.latency)
            /\ Total([k \in DOMAIN c |-> c[k].blocked + c[k].not_blocked + c[k].errors + c[k].inconclusive], DOMAIN c)
                  = m.total_runs
            /\ Total([k \in hostile |-> c[k].blocked], hostile) = m.attacks_blocked
            /\ Total(findings, DOMAIN findings) = m.attacks_not_blocked
            /\ DOMAIN findings = m.bypassed_scenarios
=============================================================================
