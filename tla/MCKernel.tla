------------------------------ MODULE MCKernel ------------------------------
(***************************************************************************)
(* The security kernel and what stands before it, in one run: sys chooses  *)
(* the gates, a mission run on a database that drops (SQLite) or keeps     *)
(* (PostgreSQL) the zone of its timestamps, or the adapter boundary. The   *)
(* state of the systems not chosen stays at one value.                     *)
(***************************************************************************)
EXTENDS KernelGates, Orchestrator, AdapterBoundary, SampleMissions, SampleDeliveries

VARIABLE sys

SamplePresented ==
    Registry \cup
    {CapabilitySet(p, a, d) :
        p \in {"buyer-agent", "security-kernel", "payment-executor", "stranger"},
        a \in SUBSET Privileged, d \in SUBSET Privileged}

PostgreSQL == INSTANCE Orchestrator WITH Requests <- FewRequests, KeepsZone <- TRUE

NoGates ==
    /\ users = [f \in Fields |-> CHOOSE v \in Values : TRUE]
    /\ protected_register = [f \in Fields |-> authoritative(users[f], "user-policy")]
    /\ passed = {}

NoMission ==
    /\ req = << >> /\ mission = "ABSENT" /\ register = << >> /\ claims = << >>
    /\ violations = 0 /\ normalized = << >> /\ rows = << >> /\ ranked = << >>
    /\ decision = NoDecision /\ auth = NoAuth
    /\ outcome = "none" /\ drifts = 0

NoBoundary ==
    /\ draft = "none" /\ registry = << >> /\ sealed = FALSE /\ imported = FALSE
    /\ call = NoCall /\ granted = {}

SumInit ==
    \/ sys = "gates" /\ GatesInit /\ NoMission /\ NoBoundary
    \/ sys = "sqlite" /\ NoGates /\ Init /\ NoBoundary
    \/ sys = "postgresql" /\ NoGates /\ PostgreSQL!Init /\ NoBoundary
    \/ sys = "boundary" /\ NoGates /\ NoMission /\ BoundaryInit

Gates == sys = "gates" /\ GatesNext /\ UNCHANGED <<sys, vars, avars>>
Adapt == sys = "boundary" /\ BoundaryNext /\ UNCHANGED <<sys, gvars, vars>>

RunSQLite == sys = "sqlite" /\ Run /\ UNCHANGED <<sys, gvars, avars>>
RunPostgreSQL == sys = "postgresql" /\ PostgreSQL!Run /\ UNCHANGED <<sys, gvars, avars>>
DriftSQLite == sys = "sqlite" /\ Drift /\ UNCHANGED <<sys, gvars, avars>>
DriftPostgreSQL ==
    sys = "postgresql" /\ PostgreSQL!Drift /\ UNCHANGED <<sys, gvars, avars>>

SumNext ==
    Gates \/ Adapt \/ RunSQLite \/ RunPostgreSQL \/ DriftSQLite \/ DriftPostgreSQL

SumSpec == SumInit /\ [][SumNext]_<<sys, gvars, vars, avars>>
=============================================================================
