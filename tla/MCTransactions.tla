--------------------------- MODULE MCTransactions ---------------------------
(***************************************************************************)
(* The properties of concurrent database transactions that need fairness,  *)
(* on three small systems in one graph: requests for two missions          *)
(* (PaymentRequests), and the ledger of a mission while it is being paid   *)
(* and demoted, and while its payment settles (AuditLedger). Which system  *)
(* runs never changes; the variables of the others stay as they are.       *)
(***************************************************************************)
EXTENDS AuditLedger

CONSTANTS m1, m2, k1, k2, p1, r1, r2, None,    \* requests
          c1, c2, d1, w1, w2, h1, n1           \* transactions on the ledger

VARIABLES system, mission, status, expired, intents, outbox, req

requested == <<mission, status, expired, intents, outbox, req>>
all       == <<system, requested, vars>>

Requests == INSTANCE PaymentRequests WITH
    Missions <- {m1, m2}, Keys <- {k1, k2}, Providers <- {p1}, Requests <- {r1, r2},
    auth <- status

NoRequests ==
    /\ mission = None /\ status = None /\ expired = None
    /\ intents = None /\ outbox = None /\ req = None

(* The transactions that run on the ledger.                                *)
Active ==
    CASE system = "requests" -> {}
      [] system = "paying"   -> {c1, c2, d1, w1, n1}
      [] system = "settling" -> {c1, w1, w2, h1, n1}

MCInit ==
    /\ Init
    /\ \/ system = "requests" /\ auth = "ACTIVE" /\ Requests!Init
       \/ system = "paying" /\ auth = "ACTIVE" /\ NoRequests
       \/ system = "settling" /\ auth = "CONSUMED" /\ NoRequests

MCNext ==
    /\ UNCHANGED system
    /\ \/ system = "requests" /\ Requests!Next /\ UNCHANGED vars
       \/ (\E t \in Active : Act(t)) /\ UNCHANGED requested
       \/ system # "requests" /\ Finished(Active) /\ UNCHANGED <<vars, requested>>

(* The fairness of LiveSpec of each module.                                *)
Serve(r) ==
    /\ system = "requests" /\ Requests!Serve(r) /\ UNCHANGED <<system, vars>>

Database ==
    /\ \E t \in Active : Step(t) \/ DeadlockVictim(t)
    /\ UNCHANGED <<system, requested>>

MCLiveSpec ==
    /\ MCInit /\ [][MCNext]_all
    /\ \A r \in {r1, r2} : WF_all(Serve(r))
    /\ WF_all(Database)

(* Every request is answered: waiting for another request's unique key or  *)
(* for its row lock always ends. A request is served once, so all of them  *)
(* are answered exactly when again and again none is under way.            *)
Served ==
    []<>(system = "requests" => \A r \in {r1, r2} : req[r].pc \in {"idle", "done"})

(* Every transaction on the ledger that has begun ends: no writer waits    *)
(* for ever for the mission row, and a deadlock is broken. A transaction   *)
(* runs once, so again and again none is running.                          *)
EveryTransactionEnds == []<>(\A t \in Txns : ~Running(t))
=============================================================================
