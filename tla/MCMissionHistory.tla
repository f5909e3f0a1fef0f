--------------------------- MODULE MCMissionHistory ---------------------------
(***************************************************************************)
(* MissionHistory for TLC: three missions in one graph. One is approved by *)
(* two users' requests and assessed; the others are paid through two       *)
(* requests, by a provider with idempotent create and by one without.      *)
(* Which of them it is never changes.                                      *)
(***************************************************************************)
EXTENDS TLC

CONSTANTS a1, a2, r1, r2

VARIABLES kind, mission, auth, scheme, late, pay, seen, chain, approver, req, work, notes

all == <<kind, mission, auth, scheme, late, pay, seen, chain, approver, req, work, notes>>

Approved == INSTANCE MissionHistory WITH
    Approvers <- {a1, a2}, Requests <- {r1}, Idempotent <- TRUE,
    MaxViolations <- 1, MaxWork <- 1, MaxNotes <- 1

Retried == INSTANCE MissionHistory WITH
    Approvers <- {}, Requests <- {r1, r2}, Idempotent <- TRUE,
    MaxViolations <- 0, MaxWork <- 4, MaxNotes <- 0

Fenced == INSTANCE MissionHistory WITH
    Approvers <- {}, Requests <- {r1, r2}, Idempotent <- FALSE,
    MaxViolations <- 0, MaxWork <- 4, MaxNotes <- 0

Symmetry == Permutations({a1, a2}) \cup Permutations({r1, r2})

Init ==
    \/ kind = "approved" /\ Approved!Init
    \/ kind = "retried" /\ Retried!Init
    \/ kind = "fenced" /\ Fenced!Init

Next ==
    /\ UNCHANGED kind
    /\ \/ kind = "approved" /\ Approved!Next
       \/ kind = "retried" /\ Retried!Next
       \/ kind = "fenced" /\ Fenced!Next

Spec == Init /\ [][Next]_all

(* Replay of an untouched chain tells the truth after every commit, and a  *)
(* risk assessment in it changes nothing else that replay reconstructs     *)
(* (MissionHistory; only the approved mission is assessed).                *)
ReplayFaithful ==
    /\ Approved!ReplayFaithful
    /\ kind = "approved" => Approved!RiskInert

(* The newest entry of the decision trace tells its reader to do what the  *)
(* rows permit (MissionHistory).                                           *)
TraceGuides == Approved!TraceGuides

(* The trace shows a success exactly when the payment succeeded, and once  *)
(* (MissionHistory).                                                       *)
OneSuccessEntry == Approved!OneSuccessEntry
=============================================================================
