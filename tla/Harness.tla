------------------------------ MODULE Harness ------------------------------
(***************************************************************************)
(* The arithmetic both evaluation harnesses use                            *)
(* (services/attack_lab/metrics.py, services/risk_engine/evaluation.py):   *)
(* a rate that has no value over an empty denominator, and a percentile    *)
(* that is always a sample some run produced.                              *)
(***************************************************************************)
EXTENDS Integers, Sequences, FiniteSets, TLC, SequencesExt

NoRate == <<0, 0>>

(* A rate as the pair it is computed from.                                 *)
rate(numerator, denominator) == IF denominator = 0 THEN NoRate ELSE <<numerator, denominator>>

CountOf(s, Test(_)) == Len(SelectSeq(s, Test))

(* Mutation: the rank is rounded down.                                     *)
Bug_FloorRank(samples, percent) ==
    IF samples = <<>> THEN -1
    ELSE LET ordered == SortSeq(samples, <)
             count   == Len(ordered)
         IN  ordered[Max({1, Min({count, (percent * count) \div 100})})]

(* Nearest rank, by ceiling division on integers, clamped into the list;   *)
(* -1 stands for None.                                                     *)
percentile(samples, percent) ==
    IF samples = <<>> THEN -1
    ELSE LET ordered == SortSeq(samples, <)
             count   == Len(ordered)
             rank    == (percent * count + 99) \div 100
         IN  ordered[Max({1, Min({count, rank})})]

latency(samples) ==
    [samples |-> Len(samples), p50 |-> percentile(samples, 50), p95 |-> percentile(samples, 95),
     p99 |-> percentile(samples, 99)]
=============================================================================
