----------------------------- MODULE MCAdvisory -----------------------------
(***************************************************************************)
(* What advises and measures, none of which decides, in one run: sys       *)
(* chooses a system of MCRisk, the attack lab or the risk evaluation.      *)
(***************************************************************************)
EXTENDS MCRisk

MCScenario ==
    [replay |-> [category |-> "AUTHORITY", backend |-> "SQLITE", expected |-> "BLOCKED",
                 reason |-> "REPLAYED", critical |-> TRUE],
     stale  |-> [category |-> "TRANSACTION", backend |-> "SQLITE", expected |-> "BLOCKED",
                 reason |-> "none", critical |-> FALSE],
     race   |-> [category |-> "CONCURRENCY", backend |-> "POSTGRES", expected |-> "BLOCKED",
                 reason |-> "REPLAYED", critical |-> TRUE],
     honest |-> [category |-> "BENIGN_CONTROL", backend |-> "SQLITE", expected |-> "NOT_BLOCKED",
                 reason |-> "none", critical |-> FALSE],
     limit  |-> [category |-> "KNOWN_LIMITATION", backend |-> "SQLITE", expected |-> "NOT_BLOCKED",
                 reason |-> "none", critical |-> FALSE]]

MCRegistered == <<"replay", "stale", "race", "honest", "limit">>
MCBaseline == <<"replay", "race">>

Seen(blocked, reason, invariant, effect, ms) ==
    [blocked |-> blocked, reason |-> reason, invariant |-> invariant, effect |-> effect, ms |-> ms]
Silent(ms) == Seen(FALSE, "none", "unknown", FALSE, ms)
Ran(o) == [raises |-> "none", observation |-> o]

MCOutcomes ==
    {[raises |-> "setup", observation |-> Silent(0)],
     [raises |-> "execute", observation |-> Silent(7)],
     Ran(Seen(TRUE, "REPLAYED", "held", FALSE, 2)),
     Ran(Seen(TRUE, "none", "unknown", TRUE, 5)),
     Ran(Seen(FALSE, "none", "broken", TRUE, 3))}

Line(scenarios, categories, iterations) ==
    [all |-> FALSE, baseline |-> FALSE, scenarios |-> scenarios, categories |-> categories,
     iterations |-> iterations, sqlite_only |-> FALSE, require_postgres |-> FALSE]

MCArguments ==
    {Line(<<>>, {}, 1), Line(<<"nobody">>, {}, 1), Line(<<>>, {"NOTHING"}, 1), Line(<<"race">>, {}, 0),
     Line(<<"stale">>, {}, 1),
     Line(<<"race", "replay">>, {}, 2), Line(<<>>, {"AUTHORITY", "BENIGN_CONTROL"}, 2),
     [Line(<<>>, {}, 1) EXCEPT !.all = TRUE],
     [Line(<<>>, {}, 2) EXCEPT !.baseline = TRUE, !.sqlite_only = TRUE],
     [Line(<<>>, {}, 2) EXCEPT !.baseline = TRUE, !.require_postgres = TRUE],
     [Line(<<"race">>, {}, 1) EXCEPT !.baseline = TRUE]}

MCLabel == [drained |-> "RISKY", replayed |-> "RISKY", ordinary |-> "BENIGN"]
MCCorpora == {<<"ordinary">>, <<"drained", "ordinary">>, <<"drained", "replayed", "ordinary">>}

VARIABLES
    args, phase, results, server, engine, flaps,   \* the lab's
    iterations, corpus, outcomes,                  \* the risk evaluation's
    todo, exit                                     \* of either

labvars == <<args, phase, results, server, engine, flaps>>
riskvars == <<iterations, corpus, outcomes>>

Lab == INSTANCE AttackLab
         WITH Scenario <- MCScenario, Registered <- MCRegistered, Baseline <- MCBaseline,
              REPLAY_SCENARIO_IDS <- {"replay", "race"},
              DUPLICATE_PAYMENT_SCENARIO_IDS <- {"stale"},
              Arguments <- MCArguments, Outcomes <- MCOutcomes, MaxFlaps <- 2
Risk == INSTANCE RiskEvaluation
         WITH Label <- MCLabel, Corpora <- MCCorpora, Iterations <- {0, 1, 2},
              Scores <- {990000, 2499999, 2500000}, Durations <- {3, 5}

NoLab ==
    args = << >> /\ phase = "start" /\ results = << >> /\ server = "up" /\ engine = "none" /\ flaps = 0
NoRisk == iterations = 0 /\ corpus = << >> /\ outcomes = << >>

harness == <<labvars, riskvars, todo, exit>>
engines == <<vars, rung, verdict>>

(* One of the harnesses, and nothing of the engine beside it.              *)
HarnessInit ==
    /\ \/ sys = "lab" /\ Lab!Init /\ NoRisk
       \/ sys = "risk" /\ Risk!Init /\ NoLab
    /\ NoEngine /\ Ladder!Init

AdvisoryInit ==
    \/ HarnessInit
    \/ SumInit /\ NoLab /\ NoRisk /\ todo = <<>> /\ exit = -1

LabRuns == sys = "lab" /\ Lab!Batch /\ UNCHANGED <<sys, engines, riskvars>>
LabServer == sys = "lab" /\ Lab!Flap /\ UNCHANGED <<sys, engines, riskvars>>
RiskRuns == sys = "risk" /\ Risk!Next /\ UNCHANGED <<sys, engines, labvars>>

AdvisoryNext == LabRuns \/ LabServer \/ RiskRuns \/ (SumNext /\ UNCHANGED harness)

(* One process runs the lab's batch from start to end; a scenario's setup  *)
(* and execute are taken to return or raise.                               *)
AdvisorySpec ==
    /\ AdvisoryInit /\ [][AdvisoryNext]_<<sys, engines, harness>>
    /\ WF_<<sys, engines, harness>>(LabRuns)

(* The harnesses alone.                                                    *)
HarnessSpec == HarnessInit /\ [][AdvisoryNext]_<<sys, engines, harness>>

(* A green exit code is earned as far as it goes: everything selected was  *)
(* run on one backend, no hostile run went through and no control was      *)
(* refused, and the critical ones measured what they expect; the risk      *)
(* corpus was measured throughout with the same scores.  It does not say   *)
(* that a hostile scenario which is not critical measured anything         *)
(* (ZeroMeansBlocked). (run.py decide_exit_code, runner.py;                *)
(* risk_engine/run.py _evaluate)                                           *)
GreenEarned ==
    /\ sys = "lab" => Lab!ExitZeroEarned /\ Lab!OneBackendPerBatch
    /\ sys = "risk" => Risk!GreenIsReproduced

(* The parts of a report agree, and a run without a verdict has no weight. *)
(* (metrics.py and evaluation.py, both compute_metrics)                    *)
ReportsAgree ==
    /\ sys = "lab" => Lab!ReportAgrees
    /\ sys = "risk" => Risk!OneMeasurement

(* Every batch of the lab ends with an exit code, whatever the server      *)
(* does. (attack_lab/run.py run)                                           *)
EveryBatchEnds == sys = "lab" => <>(exit # -1)

(* What run.py:22 says of exit code 0: every hostile scenario was blocked. *)
(* The runs that run.py excuses by name, the INCONCLUSIVE ones, are left   *)
(* out. (attack_lab/run.py decide_exit_code)                               *)
ZeroMeansBlocked ==
    sys = "lab" /\ exit = Lab!EXIT_OK =>
        \A i \in DOMAIN results :
            Lab!is_malicious(results[i]) => results[i].status \in {"BLOCKED", "INCONCLUSIVE"}
=============================================================================
