----------------------------- MODULE AuditLedger -----------------------------
(***************************************************************************)
(* Concurrent transactions that append to one mission's audit ledger, on   *)
(* PostgreSQL at READ COMMITTED. A transaction is the list of statements   *)
(* its handler issues; a statement that needs a row lock another           *)
(* transaction holds in a conflicting mode waits, and PostgreSQL's         *)
(* deadlock detector aborts a transaction of a cycle of waiters. Locks are *)
(* held until the transaction ends.                                        *)
(***************************************************************************)
EXTENDS AuditChain

CONSTANTS
    Creates,      \* POST /payment requests carrying one idempotency key
    Demotions,    \* transactions that expire or revoke the authorization
    Dispatches,   \* worker transactions that record a provider's answer
    Webhooks,     \* verified webhook deliveries
    Notes         \* transactions that only append (a risk assessment)

(* A transaction that appends for a settlement, a delivery or a note       *)
(* creates no payment and demotes no authorization.                        *)
ASSUME KindsApart ==
    (Creates \cup Demotions) \cap (Dispatches \cup Webhooks \cup Notes) = {}

VARIABLES
    rows,         \* the committed audit_events of the mission
    auth,         \* the committed status of the authorization
    exists,       \* has the payment intent been committed?
    tx,           \* what every transaction holds and has still to issue
    clash         \* has an insert met the UNIQUE (mission_id, sequence)?

vars == <<rows, auth, exists, tx, clash>>

Txns == Creates \cup Demotions \cup Dispatches \cup Webhooks \cup Notes

(* The row-level lock modes that exclude each other.                       *)
conflicts(m, n) ==
    \/ "UPDATE" \in {m, n}
    \/ m = "NO KEY UPDATE" /\ n = "NO KEY UPDATE"

lock(row, mode) == [op |-> "lock", row |-> row, mode |-> mode]
Do(op)          == [op |-> op, row |-> "mission", mode |-> "KEY SHARE"]

(* Mutation: the mission row is not locked, the UNIQUE constraint alone    *)
(* orders the appends.                                                     *)
Bug_AppendUnlocked == <<Do("last"), Do("insert")>>

(* SELECT the mission row FOR UPDATE, SELECT the last event, INSERT.       *)
append_event == <<lock("mission", "UPDATE"), Do("last"), Do("insert")>>

(* The intent, whose foreign keys share-lock the rows they reference; the  *)
(* consumption with its event; the intent's two events; the mission state. *)
create_payment_intent ==
    <<lock("idempotency_key", "UPDATE"), Do("insert intent"),
      lock("mission", "KEY SHARE"), lock("authorization", "KEY SHARE"),
      lock("authorization", "NO KEY UPDATE"), Do("consume")>>
    \o append_event \o append_event \o append_event
    \o <<lock("mission", "NO KEY UPDATE")>>

(* expire_if_stale and revoke_authorization: one conditional UPDATE and    *)
(* its event.                                                              *)
demote_authorization ==
    <<lock("authorization", "NO KEY UPDATE"), Do("demote")>> \o append_event

(* The answer of a provider applied under the intent's row lock.           *)
apply_provider_payment ==
    <<lock("intent", "UPDATE")>> \o append_event \o <<lock("mission", "NO KEY UPDATE")>>

(* WEBHOOK_VERIFIED and then the transition, under the intent's row lock.  *)
handle_webhook ==
    <<lock("intent", "UPDATE")>> \o append_event \o append_event
    \o <<lock("mission", "NO KEY UPDATE")>>

(* The statements of a transaction. A payment request that finds its key   *)
(* taken only records PAYMENT_INTENT_REUSED.                               *)
Program(t) ==
    CASE t \in Creates    -> IF exists THEN append_event ELSE create_payment_intent
      [] t \in Demotions  -> demote_authorization
      [] t \in Dispatches -> apply_provider_payment
      [] t \in Webhooks   -> handle_webhook
      [] t \in Notes      -> append_event
-----------------------------------------------------------------------------
Idle == [phase |-> "idle", left |-> <<>>, held |-> {}, prev |-> {}, new |-> {},
         writes |-> {}]

Running(t) == tx[t].phase = "running"

(* The transactions whose locks keep t from its next statement.            *)
Blockers(t) ==
    {u \in Txns \ {t} :
        /\ Running(t) /\ tx[t].left # <<>> /\ Head(tx[t].left).op = "lock"
        /\ \E h \in tx[u].held : /\ h[1] = Head(tx[t].left).row
                                 /\ conflicts(h[2], Head(tx[t].left).mode)}

(* Does t wait for itself, directly or through others? It does not exactly *)
(* when some set without t has all that t waits for, and all they wait for.*)
Deadlocked(t) ==
    ~ \E W \in SUBSET (Txns \ {t}) :
        Blockers(t) \subseteq W /\ \A u \in W : Blockers(u) \subseteq W

Ready(t, op) == Running(t) /\ tx[t].left # <<>> /\ Head(tx[t].left).op = op

(* The statement is done; it has left the transaction as "next".           *)
Proceed(t, next) ==
    tx' = [tx EXCEPT ![t] = [next EXCEPT !.left = Tail(next.left)]]

(* What a transaction sees of the ledger: committed rows and its own.      *)
Visible(t) == rows \cup tx[t].new

Ended(phase) == [Idle EXCEPT !.phase = phase]

(* Dispatches and webhooks are about an intent that has been committed.    *)
Begin(t) ==
    /\ tx[t].phase = "idle"
    /\ t \in Dispatches \cup Webhooks => exists
    /\ tx' = [tx EXCEPT ![t] = [Idle EXCEPT !.phase = "running", !.left = Program(t)]]
    /\ UNCHANGED <<rows, auth, exists, clash>>

Lock(t) ==
    /\ Ready(t, "lock")
    /\ Blockers(t) = {}
    /\ LET asked == <<Head(tx[t].left).row, Head(tx[t].left).mode>>
       IN  Proceed(t, [tx[t] EXCEPT !.held = @ \cup {asked}])
    /\ UNCHANGED <<rows, auth, exists, clash>>

(* The UNIQUE keys of payment_intents: the insert waits for a transaction  *)
(* that has inserted the key; when it committed, the savepoint is rolled   *)
(* back and the winner is returned with its event.                         *)
InsertIntent(t) ==
    /\ Ready(t, "insert intent")
    /\ IF exists
       THEN tx' = [tx EXCEPT ![t].left = append_event, ![t].held = {}]
       ELSE Proceed(t, [tx[t] EXCEPT !.writes = {"intent"}])
    /\ UNCHANGED <<rows, auth, exists, clash>>

(* Mutation: the refused consumption leaves its transaction open.          *)
Bug_NoRollback(t) ==
    /\ Ready(t, "consume")
    /\ IF auth = "ACTIVE"
       THEN Proceed(t, [tx[t] EXCEPT !.writes = @ \cup {"CONSUMED"}])
       ELSE tx' = [tx EXCEPT ![t].phase = "aborted"]
    /\ UNCHANGED <<rows, auth, exists, clash>>

(* The conditional UPDATE matches, or the transaction is rolled back.      *)
Consume(t) ==
    /\ Ready(t, "consume")
    /\ IF auth = "ACTIVE"
       THEN Proceed(t, [tx[t] EXCEPT !.writes = @ \cup {"CONSUMED"}])
       ELSE tx' = [tx EXCEPT ![t] = Ended("aborted")]
    /\ UNCHANGED <<rows, auth, exists, clash>>

Demote(t) ==
    /\ Ready(t, "demote")
    /\ IF auth = "ACTIVE"
       THEN Proceed(t, [tx[t] EXCEPT !.writes = {"DEMOTED"}])
       ELSE tx' = [tx EXCEPT ![t] = Ended("aborted")]
    /\ UNCHANGED <<rows, auth, exists, clash>>

LastEvent(t) ==
    /\ Ready(t, "last")
    /\ Proceed(t, [tx[t] EXCEPT !.prev = {last_event(Visible(t))}])
    /\ UNCHANGED <<rows, auth, exists, clash>>

(* The k-th event of transaction t, for what its handler has written.      *)
Body(t) == <<t, Cardinality(tx[t].new) + 1, tx[t].writes>>

(* The UNIQUE constraint makes the insert wait for a transaction that has  *)
(* inserted the same sequence number, and fails it when that committed.    *)
Insert(t) ==
    /\ Ready(t, "insert")
    /\ LET prev == CHOOSE r \in tx[t].prev : TRUE
           row  == NextRow(prev.event_id + 1, Body(t), prev)
           same(S) == {r \in S : r.sequence = row.sequence}
       IN  /\ \A u \in Txns \ {t} : same(tx[u].new) = {}
           /\ IF same(rows) = {}
              THEN /\ Proceed(t, [tx[t] EXCEPT !.new = @ \cup {row}])
                   /\ UNCHANGED clash
              ELSE /\ tx' = [tx EXCEPT ![t] = Ended("aborted")]
                   /\ clash' = TRUE
    /\ UNCHANGED <<rows, auth, exists>>

(* Mutation: an authorization is consumed outside the ledger's transaction.*)
Bug_ConsumedApart(t) ==
    /\ Running(t)
    /\ tx' = [tx EXCEPT ![t] = Ended("committed")]
    /\ rows' = IF tx[t].left = <<>> THEN rows \cup tx[t].new ELSE rows
    /\ exists' = (exists \/ (tx[t].left = <<>> /\ "intent" \in tx[t].writes))
    /\ auth' = IF "CONSUMED" \in tx[t].writes THEN "CONSUMED"
               ELSE IF "DEMOTED" \in tx[t].writes THEN "DEMOTED" ELSE auth
    /\ UNCHANGED clash

(* All of it becomes durable and every lock is released.                   *)
Commit(t) ==
    /\ Running(t)
    /\ tx[t].left = <<>>
    /\ tx' = [tx EXCEPT ![t] = Ended("committed")]
    /\ rows' = rows \cup tx[t].new
    /\ exists' = (exists \/ "intent" \in tx[t].writes)
    /\ auth' = IF "CONSUMED" \in tx[t].writes THEN "CONSUMED"
               ELSE IF "DEMOTED" \in tx[t].writes THEN "DEMOTED" ELSE auth
    /\ UNCHANGED clash

(* The process or its connection dies: nothing of the transaction remains. *)
Crash(t) ==
    /\ Running(t)
    /\ tx' = [tx EXCEPT ![t] = Ended("aborted")]
    /\ UNCHANGED <<rows, auth, exists, clash>>

DeadlockVictim(t) ==
    /\ Deadlocked(t)
    /\ tx' = [tx EXCEPT ![t] = Ended("aborted")]
    /\ UNCHANGED <<rows, auth, exists, clash>>

Step(t) ==
    \/ Lock(t) \/ InsertIntent(t) \/ Consume(t) \/ Demote(t)
    \/ LastEvent(t) \/ Insert(t) \/ Commit(t)

(* What one transaction does next.                                         *)
Act(t) == Begin(t) \/ Step(t) \/ Crash(t) \/ DeadlockVictim(t)

(* The rows S and one more event that append_event has added to them.      *)
Extended(S, body) ==
    S \cup {NextRow(last_event(S).event_id + 1, body, last_event(S))}

(* The ledger of a mission that was created, and of one that was paid too. *)
Created == {FirstRow(0, <<"mission created", 1, {}>>)}
PaidFor ==
    LET body(k) == <<"payment created", k, {"intent", "CONSUMED"}>>
    IN  Extended(Extended(Extended(Created, body(1)), body(2)), body(3))

Init ==
    /\ \/ rows = Created /\ auth = "ACTIVE" /\ exists = FALSE
       \/ rows = PaidFor /\ auth = "CONSUMED" /\ exists = TRUE
    /\ tx = [t \in Txns |-> Idle]
    /\ clash = FALSE

(* Nothing is left to do for the transactions T.                           *)
Finished(T) ==
    \A t \in T : \/ tx[t].phase \in {"committed", "aborted"}
                 \/ t \in Dispatches \cup Webhooks /\ ~exists

Done == Finished(Txns) /\ UNCHANGED vars

Next == (\E t \in Txns : Act(t)) \/ Done

Spec == Init /\ [][Next]_vars

(* While some handler can issue its next statement, or the database can    *)
(* break a deadlock (deadlock_timeout), one of these happens.              *)
LiveSpec == Spec /\ WF_vars(\E t \in Txns : Step(t) \/ DeadlockVictim(t))
-----------------------------------------------------------------------------
(* The ledger and the rows it narrates change together: the authorization  *)
(* is consumed exactly when the ledger holds the consumption with all the  *)
(* events of its payment, and demoted exactly when it holds the demotion.  *)
LedgerTellsRows ==
    LET told(w) == Cardinality({r \in rows : w \in r.body[3]}) IN
    /\ told("CONSUMED") = IF auth = "CONSUMED" THEN 3 ELSE 0
    /\ told("DEMOTED") = IF auth = "DEMOTED" THEN 1 ELSE 0
    /\ exists = (auth = "CONSUMED")

(* The rows left when some row is edited in place, given another place, or *)
(* deleted, by anything but append_event. Only the last row may not be the *)
(* one deleted: a shorter ledger is a ledger (verify.py says so).          *)
Edited(r) ==
    LET other   == <<"other", 1, {}>>
        foreign == compute_event_hash(0, other, GENESIS_HASH)
    IN
    {[r EXCEPT !.body = other], [r EXCEPT !.previous_hash = foreign],
     [r EXCEPT !.event_hash = foreign], [r EXCEPT !.wellformed = FALSE]}
    \cup {[r EXCEPT !.sequence = n] : n \in (-1 .. Cardinality(rows)) \ {r.sequence}}

Alterations ==
    (UNION {{(rows \ {r}) \cup {e} : e \in Edited(r)} : r \in rows})
    \cup {(rows \ {r, s}) \cup {[r EXCEPT !.sequence = s.sequence],
                                [s EXCEPT !.sequence = r.sequence]} :
              r, s \in rows}
    \cup {rows \ {r} : r \in rows \ {last_event(rows)}}

(* However transactions interleave, crash or are chosen as deadlock        *)
(* victims, the committed ledger verifies. Any one edit, exchange or       *)
(* deletion of committed events is detected, and reported at the first     *)
(* position that differs from what was appended: "only the FIRST failure   *)
(* is reported", and everything before it is intact (verify_events).       *)
(* Alterations are tried between transactions: every committed ledger is   *)
(* also the ledger of a state in which nothing runs.                       *)
AlterationLocated ==
    /\ verify_events(rows) = [valid |-> TRUE, events_checked |-> Cardinality(rows),
                              reason_code |-> "AUDIT_VALID"]
    /\ (\A t \in Txns : ~Running(t)) =>
       \A altered \in Alterations \ {rows} :
          LET verdict == verify_events(altered)
              found   == list_events(altered)
              written == list_events(rows)
          IN  /\ ~verdict.valid
              /\ \A i \in 1 .. verdict.events_checked : found[i] = written[i]
              /\ \/ verdict.events_checked >= Len(written)
                 \/ found[verdict.events_checked + 1] # written[verdict.events_checked + 1]

(* No append fails for another's sake. "Only this row lock makes           *)
(* concurrent legitimate appends wait and then observe the sequence        *)
(* committed by the prior writer": none ever meets the UNIQUE (mission_id, *)
(* sequence) constraint. And settlements, deliveries and notes lock the    *)
(* intent before the mission: none of them is ever in a cycle of waiters,  *)
(* so no provider answer and no webhook is lost to the deadlock detector.  *)
(* Payment requests and demotions of an authorization can be (the foreign  *)
(* key's share lock on the mission against the ledger's lock of that row). *)
AppendsUndisturbed ==
    /\ ~clash
    /\ \A t \in Dispatches \cup Webhooks \cup Notes : ~Deadlocked(t)
=============================================================================
