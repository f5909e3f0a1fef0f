--------------------------- MODULE RiskEvaluation ---------------------------
(***************************************************************************)
(* The evaluation harness of the risk engine                               *)
(* (services/risk_engine/evaluation.py, run.py): a labelled corpus is      *)
(* assessed several times over, each run in a database of its own, and the *)
(* outcomes are folded into detection rates at the configured threshold, a *)
(* sweep over thresholds and an exit code.  What a scenario builds is      *)
(* abstracted to the index its assessment may yield.                       *)
(***************************************************************************)
EXTENDS Harness, RiskScoring

CONSTANTS
    Label,       \* scenario id -> RISKY or BENIGN
    Corpora,     \* the sequences of scenario ids considered
    Iterations,  \* the values of --iterations considered
    Scores,      \* what an assessment may score, see FINE
    Durations    \* what an assessment may take

VARIABLES iterations, corpus, todo, outcomes, exit

vars == <<iterations, corpus, todo, outcomes, exit>>

(* A score counts FINE for each millionth of an index.  Its last digit     *)
(* stands for what the float holds beyond its ninth decimal, which the     *)
(* thresholds see and the comparison of iterations does not.               *)
FINE == 10
nine_decimals(s) == ((s + 5) \div FINE) * FINE

SWEEP_THRESHOLDS == {100000, 250000, 500000, 750000}

measured(o) == ~ o.error
Measured(os, label) == SelectSeq(os, LAMBDA o : measured(o) /\ Label[o.id] = label)
Flagged_at(os, threshold) == CountOf(os, LAMBDA o : o.score >= threshold * FINE)
Sum_of(os) == FoldSeq(LAMBDA o, sum : o.score + sum, 0, os)

(* An assessment that was made, and the placeholder for one that was not.  *)
Assessed(id, score_, ms) ==
    [id |-> id, score |-> score_, recommendation |-> recommendation_for[band_for(score_ \div FINE)], ms |-> ms, error |-> FALSE]
Errored(id) == [id |-> id, score |-> 0, recommendation |-> "PROCEED", ms |-> 0, error |-> TRUE]

(* _sweep, with the configured threshold among the points.                 *)
sweep(os, configured) ==
    [t \in SWEEP_THRESHOLDS \union {configured} |->
        [risky_flagged  |-> Flagged_at(Measured(os, "RISKY"), t),
         benign_flagged |-> Flagged_at(Measured(os, "BENIGN"), t),
         configured     |-> t = configured]]

(* _determinism: the scenarios that did not score the same every time, to  *)
(* nine decimals.                                                          *)
nondeterministic_scenarios(os) ==
    {id \in {os[i].id : i \in DOMAIN os} :
        Cardinality({nine_decimals(os[i].score) : i \in {j \in DOMAIN os : os[j].id = id /\ measured(os[j])}}) > 1}

LatencyOf(os) ==
    LET made == SelectSeq(os, measured)
    IN  latency([i \in DOMAIN made |-> made[i].ms])

compute_metrics(os) ==
    LET made      == SelectSeq(os, measured)
        risky     == Measured(os, "RISKY")
        benign    == Measured(os, "BENIGN")
        threshold == BandConfig.review_threshold
        hit       == Flagged_at(risky, threshold)
    IN  [errors              |-> Len(os) - Len(made),
         risky_flagged       |-> hit,
         benign_flagged      |-> Flagged_at(benign, threshold),
         risk_detection_rate |-> rate(hit, Len(risky)),
         false_negative_rate |-> rate(Len(risky) - hit, Len(risky)),
         false_positive_rate |-> rate(Flagged_at(benign, threshold), Len(benign)),
         mean_score          |-> rate(Sum_of(made), Len(made)),
         risky_mean_score    |-> rate(Sum_of(risky), Len(risky)),
         benign_mean_score   |-> rate(Sum_of(benign), Len(benign)),
         recommendation_distribution |->
             [r \in {made[i].recommendation : i \in DOMAIN made} |-> CountOf(made, LAMBDA o : o.recommendation = r)],
         threshold_sweep     |-> sweep(os, threshold),
         latency             |-> LatencyOf(os),
         drifting            |-> nondeterministic_scenarios(os)]

(* _evaluate: a usage error, or the corpus once per iteration.             *)
Begin ==
    /\ exit = -1 /\ todo = <<>> /\ outcomes = <<>> /\ corpus = <<>>
    /\ IF iterations < 1
       THEN exit' = 2 /\ UNCHANGED <<corpus, todo>>
       ELSE \E c \in Corpora :
                /\ corpus' = c /\ UNCHANGED exit
                /\ todo' = FlattenSeq([i \in 1..iterations |-> c])
    /\ UNCHANGED <<iterations, outcomes>>

(* run_scenario: an assessment, or an error outcome when building or       *)
(* assessing raises.                                                       *)
RunScenario ==
    /\ exit = -1 /\ todo # <<>>
    /\ \E o \in {Assessed(Head(todo), s, ms) : s \in Scores, ms \in Durations} \union {Errored(Head(todo))} :
           outcomes' = Append(outcomes, o)
    /\ todo' = Tail(todo)
    /\ UNCHANGED <<iterations, corpus, exit>>

Report ==
    /\ exit = -1 /\ todo = <<>> /\ corpus # <<>>
    /\ LET metrics == compute_metrics(outcomes)
       IN  exit' = IF metrics.errors > 0 \/ metrics.drifting # {} THEN 1 ELSE 0
    /\ UNCHANGED <<iterations, corpus, todo, outcomes>>

Init == iterations \in Iterations /\ corpus = <<>> /\ todo = <<>> /\ outcomes = <<>> /\ exit = -1

Next == Begin \/ RunScenario \/ Report

Spec == Init /\ [][Next]_vars

----------------------------------------------------------------------------
(* Properties.                                                             *)

Reported == exit \in {0, 1}

(* The report is one measurement (evaluation.py compute_metrics, _sweep):  *)
(* a run that failed is neither a detection nor a miss and, apart from its *)
(* own count, changes nothing; raising the threshold never flags more, and *)
(* the point marked as configured repeats the headline counts; and flagged *)
(* by the harness is exactly not told to proceed by the engine.            *)
OneMeasurement ==
    Reported =>
        LET m       == compute_metrics(outcomes)
            points  == m.threshold_sweep
            proceed == IF "PROCEED" \in DOMAIN m.recommendation_distribution
                       THEN m.recommendation_distribution["PROCEED"] ELSE 0
        IN  /\ [m EXCEPT !.errors = 0] = compute_metrics(SelectSeq(outcomes, measured))
            /\ \A t, u \in DOMAIN points : t <= u =>
                  /\ points[t].risky_flagged >= points[u].risky_flagged
                  /\ points[t].benign_flagged >= points[u].benign_flagged
            /\ \A t \in DOMAIN points : points[t].configured =>
                  /\ points[t].risky_flagged = m.risky_flagged
                  /\ points[t].benign_flagged = m.benign_flagged
            /\ m.risky_flagged + m.benign_flagged + proceed + m.errors = Len(outcomes)

(* Exit code 0 (run.py _evaluate) means the whole corpus was measured in   *)
(* every iteration and every scenario scored the same each time, to nine   *)
(* decimals: one that stays within them may still cross the threshold.     *)
GreenIsReproduced ==
    exit = 0 =>
        /\ Len(outcomes) = iterations * Len(corpus)
        /\ \A i \in DOMAIN outcomes : measured(outcomes[i])
        /\ \A i, j \in DOMAIN outcomes : outcomes[i].id = outcomes[j].id =>
              nine_decimals(outcomes[i].score) = nine_decimals(outcomes[j].score)
=============================================================================
