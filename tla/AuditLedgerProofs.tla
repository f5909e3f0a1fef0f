------------------------- MODULE AuditLedgerProofs -------------------------
(***************************************************************************)
(* The audit ledger of one mission under any number of concurrent          *)
(* transactions, crashes and deadlock victims: the lock of the mission row *)
(* orders the appends, so that the ledger is one chain, the ledger and the *)
(* rows it narrates change together, and no append fails for another's     *)
(* sake.                                                                   *)
(***************************************************************************)
EXTENDS AuditLedger, FiniteSetTheorems, TLAPS

(* A step is left to Zenon, then to SMT, for at most 30 seconds each; one  *)
(* that needs arithmetic, sequences or records names SMT.                  *)
USE ZenonT(30), SMTT(30)

-----------------------------------------------------------------------------
(* The inductive invariant                                                 *)

Programs ==
    {append_event, create_payment_intent, demote_authorization,
     apply_provider_payment, handle_webhook}

(* What is left of a program after k statements.                           *)
Drop(p, k) == [i \in 1 .. (Len(p) - k) |-> p[i + k]]

Past(p, k, op) == \E i \in 1 .. k : p[i].op = op

Inserts(p, k) == {i \in 1 .. k : p[i].op = "insert"}

(* A transaction with record x has issued the first k statements of        *)
(* program p over the committed rows S, and holds, has written and has     *)
(* appended what they say.                                                 *)
Issued(x, S, p, k) ==
    /\ x.left = Drop(p, k)
    /\ \A i \in 1 .. k : p[i].op = "lock" => <<p[i].row, p[i].mode>> \in x.held
    /\ "intent" \in x.writes <=> Past(p, k, "insert intent")
    /\ "CONSUMED" \in x.writes <=> Past(p, k, "consume")
    /\ "DEMOTED" \in x.writes <=> Past(p, k, "demote")
    /\ Cardinality(x.new) = Cardinality(Inserts(p, k))
    /\ k > 0 /\ p[k].op = "last" => x.prev = {last_event(S \cup x.new)}

(* An audit_events row has these columns and no other.                     *)
Columns ==
    {"event_id", "sequence", "body", "previous_hash", "event_hash", "wellformed"}

Row(r) == r = [c \in Columns |-> r[c]]

(* One chain: what verify_events checks of each event and its predecessor, *)
(* said of the set of rows. append_event numbers and identifies the rows in*)
(* the same order.                                                         *)
Chained(S) ==
    /\ \A r, s \in S : r.sequence = s.sequence => r = s
    /\ \A r \in S :
          /\ Row(r) /\ r.event_id = r.sequence
          /\ r.sequence \in Nat /\ r.wellformed
          /\ r.event_hash = compute_event_hash(r.sequence, r.body, r.previous_hash)
          /\ r.sequence = 0 => r.previous_hash = GENESIS_HASH
          /\ r.sequence # 0 => \E s \in S : /\ s.sequence = r.sequence - 1
                                            /\ r.previous_hash = s.event_hash

HasLast(S) == \E r \in S : \A s \in S : s.sequence <= r.sequence

(* A running transaction is somewhere in its program; another leaves       *)
(* nothing behind. What it appends tells what it has written, and extends  *)
(* the chain it sees. What it has written was not so before (a and e: the  *)
(* committed status of the authorization, and whether the intent exists).  *)
Sound(x, S, a, e) ==
    /\ IF x.phase = "running"
       THEN \E p \in Programs : \E k \in 0 .. Len(p) : Issued(x, S, p, k)
       ELSE x.held = {} /\ x.new = {} /\ x.writes = {}
    /\ IsFiniteSet(x.new) /\ \A r \in x.new : r.body[3] = x.writes
    /\ Chained(S \cup x.new) /\ HasLast(S \cup x.new)
    /\ "CONSUMED" \in x.writes \/ "DEMOTED" \in x.writes => a = "ACTIVE"
    /\ "intent" \in x.writes => ~e

(* No two transactions hold a row in modes that exclude each other.        *)
Exclusive ==
    \A t, u \in Txns : t # u =>
        \A g \in tx[t].held, h \in tx[u].held : g[1] = h[1] => ~conflicts(g[2], h[2])

(* A transaction's record has the fields of Idle.                          *)
Shaped(x) ==
    x = [phase |-> x.phase, left |-> x.left, held |-> x.held, prev |-> x.prev,
         new |-> x.new, writes |-> x.writes]

Typed ==
    /\ auth \in {"ACTIVE", "CONSUMED", "DEMOTED"} /\ exists \in BOOLEAN
    /\ tx = [t \in Txns |-> tx[t]]
    /\ \A t \in Txns :
          Shaped(tx[t]) /\ tx[t].writes \subseteq {"intent", "CONSUMED", "DEMOTED"}

LedgerInv ==
    /\ Typed /\ Exclusive
    /\ \A t \in Txns : Sound(tx[t], rows, auth, exists)
    /\ IsFiniteSet(rows) /\ Chained(rows) /\ HasLast(rows)
    /\ LedgerTellsRows /\ ~clash
-----------------------------------------------------------------------------
(* The programs                                                            *)

Writes == {"insert intent", "consume", "demote"}

Statement ==
    [op : Writes \cup {"lock", "last", "insert"},
     row : {"mission", "authorization", "intent", "idempotency_key"},
     mode : {"KEY SHARE", "NO KEY UPDATE", "UPDATE"}]

(* What the proofs use of a program: an insert follows a read of the last  *)
(* event, which follows the lock of the mission row; an authorization is   *)
(* written right after its row is locked, an intent after its key; nothing *)
(* is written after an event has been appended; a consumption comes with   *)
(* an intent and three events, a demotion with one event.                  *)
Orderly(p) ==
    /\ p \in Seq(Statement)
    /\ \A i \in 1 .. Len(p) : p[i].op = "insert" => i > 1 /\ p[i - 1].op = "last"
    /\ \A i \in 1 .. Len(p) :
          p[i].op = "last" => i > 1 /\ p[i - 1] = lock("mission", "UPDATE")
    /\ \A i \in 1 .. Len(p) : p[i].op \in {"consume", "demote"} =>
          i > 1 /\ p[i - 1] = lock("authorization", "NO KEY UPDATE")
    /\ \A i \in 1 .. Len(p) : p[i].op = "insert intent" =>
          i = 2 /\ p[1] = lock("idempotency_key", "UPDATE")
    /\ \A i, j \in 1 .. Len(p) : p[i].op = "insert" /\ p[j].op \in Writes => j < i
    /\ Past(p, Len(p), "insert intent") <=> Past(p, Len(p), "consume")
    /\ Past(p, Len(p), "consume") =>
          ~Past(p, Len(p), "demote") /\ Cardinality(Inserts(p, Len(p))) = 3
    /\ Past(p, Len(p), "demote") => Cardinality(Inserts(p, Len(p))) = 1

(* The operations of the statements the handlers issue.                    *)
LEMMA Operations ==
    /\ lock("mission", "UPDATE").op = "lock" /\ lock("mission", "NO KEY UPDATE").op = "lock"
    /\ lock("mission", "KEY SHARE").op = "lock" /\ lock("intent", "UPDATE").op = "lock"
    /\ lock("authorization", "KEY SHARE").op = "lock"
    /\ lock("authorization", "NO KEY UPDATE").op = "lock"
    /\ lock("idempotency_key", "UPDATE").op = "lock"
    /\ Do("last").op = "last" /\ Do("insert").op = "insert"
    /\ Do("insert intent").op = "insert intent" /\ Do("consume").op = "consume"
    /\ Do("demote").op = "demote"
BY DEF lock, Do

(* A handler that only appends is orderly.                                 *)
LEMMA AppendOrderly == Orderly(append_event)
<1> DEFINE p == append_event
<1>1. /\ p[1].op = "lock" /\ p[2].op = "last" /\ p[3].op = "insert"
  BY DEF append_event, lock, Do
<1>2. Len(p) = 3 /\ p \in Seq(Statement) /\ p[1] = lock("mission", "UPDATE")
  BY SMTT(30) DEF append_event, lock, Do, Statement, Writes
<1> HIDE DEF p
<1>3. \A i \in 1 .. 3 : i = 1 \/ i = 2 \/ i = 3
  BY SMTT(30)
<1>4. \A i \in 1 .. 3 : p[i].op \notin Writes
  BY <1>1, <1>3 DEF Writes
<1>5. ~Past(p, 3, "consume") /\ ~Past(p, 3, "demote") /\ ~Past(p, 3, "insert intent")
  BY <1>4 DEF Past, Writes
<1>6. \A i \in 1 .. 3 : p[i].op = "insert" => i > 1 /\ p[i - 1].op = "last"
  BY <1>1, <1>3, SMTT(30)
<1>7. \A i \in 1 .. 3 : p[i].op = "last" => i > 1 /\ p[i - 1] = p[1]
  BY <1>1, <1>3, SMTT(30)
<1>8. Orderly(p)
  BY <1>2, <1>4, <1>5, <1>6, <1>7 DEF Orderly, Writes
<1> QED
  BY <1>8 DEF p

(* One statement after others.                                             *)
LEMMA OneMore ==
    ASSUME NEW s \in Seq(Statement), NEW c \in Statement
    PROVE  /\ s \o <<c>> \in Seq(Statement) /\ Len(s \o <<c>>) = Len(s) + 1
           /\ \A i \in 1 .. Len(s) : (s \o <<c>>)[i] = s[i]
           /\ (s \o <<c>>)[Len(s) + 1] = c
BY SMTT(30)

(* The number of the events of a payment.                                  *)
LEMMA ThreeElements == Cardinality({9, 12, 15}) = 3
<1>1. IsFiniteSet({9}) /\ Cardinality({9}) = 1
  BY FS_Singleton
<1>2. IsFiniteSet({9} \cup {12}) /\ Cardinality({9} \cup {12}) = 2
  BY <1>1, FS_AddElement, SMTT(30)
<1>3. Cardinality(({9} \cup {12}) \cup {15}) = 3
  BY <1>2, FS_AddElement, SMTT(30)
<1>4. ({9} \cup {12}) \cup {15} = {9, 12, 15}
  OBVIOUS
<1> QED
  BY <1>3, <1>4

(* A demotion of the authorization is orderly.                             *)
LEMMA DemoteOrderly == Orderly(demote_authorization)
<1> DEFINE p == demote_authorization
<1>1. p \in Seq(Statement)
  BY SMTT(30) DEF demote_authorization, append_event, lock, Do, Statement, Writes
<1>2. Len(p) = 5
  BY SMTT(30) DEF demote_authorization, append_event
<1>3. /\ p[1] = lock("authorization", "NO KEY UPDATE") /\ p[2] = Do("demote")
      /\ p[3] = lock("mission", "UPDATE") /\ p[4] = Do("last")
      /\ p[5] = Do("insert")
  BY SMTT(30) DEF demote_authorization, append_event
<1> HIDE DEF p
<1>4. /\ p[1].op = "lock" /\ p[2].op = "demote" /\ p[3].op = "lock"
      /\ p[4].op = "last" /\ p[5].op = "insert"
  BY <1>3, Operations
<1>5. \A i \in 1 .. Len(p) :
          \/ i = 1 \/ i = 2 \/ i = 3 \/ i = 4 \/ i = 5
  BY <1>2, SMTT(30)
<1>6. \A i \in 1 .. Len(p) :
          /\ p[i].op = "insert" => i = 5
          /\ p[i].op = "last" => i = 4
          /\ p[i].op # "insert intent"
          /\ p[i].op # "consume"
          /\ p[i].op = "demote" => i = 2
  BY <1>4, <1>5
<1>7. /\ ~Past(p, Len(p), "insert intent") /\ ~Past(p, Len(p), "consume")
  BY <1>6 DEF Past
<1>8. Past(p, Len(p), "demote")
  <2>1. 2 \in 1 .. Len(p)
    BY <1>2, SMTT(30)
  <2> QED
    BY <2>1, <1>4 DEF Past
<1>9. Cardinality(Inserts(p, Len(p))) = 1
  <2>1. 5 \in 1 .. Len(p)
    BY <1>2, SMTT(30)
  <2>2. Inserts(p, Len(p)) = {5}
    BY <2>1, <1>4, <1>6 DEF Inserts
  <2> QED
    BY <2>2, FS_Singleton
<1>10. \A i \in 1 .. Len(p) : p[i].op = "insert" => i > 1 /\ p[i - 1].op = "last"
  <2> SUFFICES ASSUME NEW i \in 1 .. Len(p), p[i].op = "insert"
               PROVE  i > 1 /\ p[i - 1].op = "last"
    OBVIOUS
  <2>1. i = 5
    BY <1>6
  <2>2. i > 1 /\ (i - 1 = 4)
    BY <2>1, SMTT(30)
  <2> QED
    BY <2>2, <1>4
<1> DEFINE l == lock("mission", "UPDATE")
           n == lock("authorization", "NO KEY UPDATE")
<1>11. /\ p[3] = l /\ p[1] = n
  BY <1>3
<1> HIDE DEF l, n
<1>12. \A i \in 1 .. Len(p) : p[i].op = "last" => i > 1 /\ p[i - 1] = l
  <2> SUFFICES ASSUME NEW i \in 1 .. Len(p), p[i].op = "last"
               PROVE  i > 1 /\ p[i - 1] = l
    OBVIOUS
  <2>1. i = 4
    BY <1>6
  <2> QED
    BY <2>1, <1>11, SMTT(30)
<1>13. \A i \in 1 .. Len(p) : p[i].op \in {"consume", "demote"} => i > 1 /\ p[i - 1] = n
  <2> SUFFICES ASSUME NEW i \in 1 .. Len(p), p[i].op \in {"consume", "demote"}
               PROVE  i > 1 /\ p[i - 1] = n
    OBVIOUS
  <2>1. i = 2
    BY <1>6
  <2> QED
    BY <2>1, <1>11, SMTT(30)
<1>14. \A i, j \in 1 .. Len(p) : p[i].op = "insert" /\ p[j].op \in Writes => j < i
  <2> SUFFICES ASSUME NEW i \in 1 .. Len(p), NEW j \in 1 .. Len(p), p[i].op = "insert",
                      p[j].op \in Writes
               PROVE  j < i
    OBVIOUS
  <2>1. i = 5
    BY <1>6
  <2>2. j = 2
    BY <1>6 DEF Writes
  <2> QED
    BY <2>1, <2>2, SMTT(30)
<1>15. \A i \in 1 .. Len(p) : p[i].op # "insert intent"
  BY <1>6
<1>16. Orderly(p)
  BY <1>1, <1>7, <1>8, <1>9, <1>10, <1>12, <1>13, <1>14, <1>15
     DEF Orderly, l, n
<1> QED
  BY <1>16 DEF p

(* Recording the answer of a provider is orderly.                          *)
LEMMA ApplyOrderly == Orderly(apply_provider_payment)
<1> DEFINE p == apply_provider_payment
<1>1. p \in Seq(Statement)
  BY SMTT(30) DEF apply_provider_payment, append_event, lock, Do, Statement, Writes
<1>2. Len(p) = 5
  BY SMTT(30) DEF apply_provider_payment, append_event
<1>3. /\ p[1] = lock("intent", "UPDATE") /\ p[2] = lock("mission", "UPDATE")
      /\ p[3] = Do("last") /\ p[4] = Do("insert")
  BY SMTT(30) DEF apply_provider_payment, append_event
<1>4. p[5] = lock("mission", "NO KEY UPDATE")
  <2> DEFINE q == <<lock("intent", "UPDATE")>> \o append_event
             c == lock("mission", "NO KEY UPDATE")
  <2>1. Len(q) = 4 /\ q \in Seq(Statement) /\ c \in Statement
    BY SMTT(30) DEF append_event, lock, Do, Statement, Writes
  <2>2. p = q \o <<c>>
    BY DEF apply_provider_payment
  <2> HIDE DEF p, q, c
  <2>3. (q \o <<c>>)[Len(q) + 1] = c
    BY <2>1, OneMore
  <2>4. Len(q) + 1 = 5
    BY <2>1, SMTT(30)
  <2> QED
    BY <2>2, <2>3, <2>4 DEF c
<1> HIDE DEF p
<1>5. /\ p[1].op = "lock" /\ p[2].op = "lock" /\ p[3].op = "last"
      /\ p[4].op = "insert" /\ p[5].op = "lock"
  BY <1>3, <1>4, Operations
<1>6. \A i \in 1 .. Len(p) :
          \/ i = 1 \/ i = 2 \/ i = 3 \/ i = 4 \/ i = 5
  BY <1>2, SMTT(30)
<1>7. \A i \in 1 .. Len(p) :
          /\ p[i].op = "insert" => i = 4
          /\ p[i].op = "last" => i = 3
          /\ p[i].op # "insert intent"
          /\ p[i].op # "consume"
          /\ p[i].op # "demote"
  BY <1>5, <1>6
<1>8. /\ ~Past(p, Len(p), "insert intent") /\ ~Past(p, Len(p), "consume")
      /\ ~Past(p, Len(p), "demote")
  BY <1>7 DEF Past
<1>9. \A i \in 1 .. Len(p) : p[i].op = "insert" => i > 1 /\ p[i - 1].op = "last"
  <2> SUFFICES ASSUME NEW i \in 1 .. Len(p), p[i].op = "insert"
               PROVE  i > 1 /\ p[i - 1].op = "last"
    OBVIOUS
  <2>1. i = 4
    BY <1>7
  <2>2. i > 1 /\ (i - 1 = 3)
    BY <2>1, SMTT(30)
  <2> QED
    BY <2>2, <1>5
<1> DEFINE l == lock("mission", "UPDATE")
<1>10. p[2] = l
  BY <1>3, <1>4
<1> HIDE DEF l
<1>11. \A i \in 1 .. Len(p) : p[i].op = "last" => i > 1 /\ p[i - 1] = l
  <2> SUFFICES ASSUME NEW i \in 1 .. Len(p), p[i].op = "last"
               PROVE  i > 1 /\ p[i - 1] = l
    OBVIOUS
  <2>1. i = 3
    BY <1>7
  <2> QED
    BY <2>1, <1>10, SMTT(30)
<1>12. \A i \in 1 .. Len(p) : p[i].op \notin {"consume", "demote"}
  BY <1>7
<1>13. \A i, j \in 1 .. Len(p) : p[i].op = "insert" /\ p[j].op \in Writes => j < i
  BY <1>7 DEF Writes
<1>14. \A i \in 1 .. Len(p) : p[i].op # "insert intent"
  BY <1>7
<1>15. Orderly(p)
  BY <1>1, <1>8, <1>9, <1>11, <1>12, <1>13, <1>14
     DEF Orderly, l
<1> QED
  BY <1>15 DEF p

(* Handling a webhook is orderly.                                          *)
LEMMA WebhookOrderly == Orderly(handle_webhook)
<1> DEFINE p == handle_webhook
<1>1. p \in Seq(Statement)
  BY SMTT(30) DEF handle_webhook, append_event, lock, Do, Statement, Writes
<1>2. Len(p) = 8
  BY SMTT(30) DEF handle_webhook, append_event
<1>3. /\ p[1] = lock("intent", "UPDATE") /\ p[2] = lock("mission", "UPDATE")
      /\ p[3] = Do("last") /\ p[4] = Do("insert")
  BY SMTT(30) DEF handle_webhook, append_event
<1>4. /\ p[5] = lock("mission", "UPDATE") /\ p[6] = Do("last")
      /\ p[7] = Do("insert")
  BY SMTT(30) DEF handle_webhook, append_event
<1>5. p[8] = lock("mission", "NO KEY UPDATE")
  <2> DEFINE q == <<lock("intent", "UPDATE")>> \o append_event \o append_event
             c == lock("mission", "NO KEY UPDATE")
  <2>1. Len(q) = 7 /\ q \in Seq(Statement) /\ c \in Statement
    BY SMTT(30) DEF append_event, lock, Do, Statement, Writes
  <2>2. p = q \o <<c>>
    BY DEF handle_webhook
  <2> HIDE DEF p, q, c
  <2>3. p[Len(q) + 1] = c
    BY <2>1, <2>2, OneMore
  <2>4. Len(q) + 1 = 8
    BY <2>1, SMTT(30)
  <2> QED
    BY <2>3, <2>4 DEF c
<1> HIDE DEF p
<1>6. /\ p[1].op = "lock" /\ p[2].op = "lock" /\ p[3].op = "last"
      /\ p[4].op = "insert" /\ p[5].op = "lock" /\ p[6].op = "last"
      /\ p[7].op = "insert" /\ p[8].op = "lock"
  BY <1>3, <1>4, <1>5, Operations
<1>7. \A i \in 1 .. Len(p) :
          \/ i = 1 \/ i = 2 \/ i = 3 \/ i = 4 \/ i = 5 \/ i = 6 \/ i = 7
          \/ i = 8
  BY <1>2, SMTT(30)
<1>8. \A i \in 1 .. Len(p) :
          /\ p[i].op = "insert" => i = 4 \/ i = 7
          /\ p[i].op = "last" => i = 3 \/ i = 6
          /\ p[i].op # "insert intent"
          /\ p[i].op # "consume"
          /\ p[i].op # "demote"
  BY <1>6, <1>7
<1>9. /\ ~Past(p, Len(p), "insert intent") /\ ~Past(p, Len(p), "consume")
      /\ ~Past(p, Len(p), "demote")
  BY <1>8 DEF Past
<1>10. \A i \in 1 .. Len(p) : p[i].op = "insert" => i > 1 /\ p[i - 1].op = "last"
  <2> SUFFICES ASSUME NEW i \in 1 .. Len(p), p[i].op = "insert"
               PROVE  i > 1 /\ p[i - 1].op = "last"
    OBVIOUS
  <2>1. i = 4 \/ i = 7
    BY <1>8
  <2>2. i > 1 /\ (i - 1 = 3 \/ i - 1 = 6)
    BY <2>1, SMTT(30)
  <2> QED
    BY <2>2, <1>6
<1> DEFINE l == lock("mission", "UPDATE")
<1>11. /\ p[2] = l /\ p[5] = l
  BY <1>3, <1>4, <1>5
<1> HIDE DEF l
<1>12. \A i \in 1 .. Len(p) : p[i].op = "last" => i > 1 /\ p[i - 1] = l
  <2> SUFFICES ASSUME NEW i \in 1 .. Len(p), p[i].op = "last"
               PROVE  i > 1 /\ p[i - 1] = l
    OBVIOUS
  <2>1. i = 3 \/ i = 6
    BY <1>8
  <2> QED
    BY <2>1, <1>11, SMTT(30)
<1>13. \A i \in 1 .. Len(p) : p[i].op \notin {"consume", "demote"}
  BY <1>8
<1>14. \A i, j \in 1 .. Len(p) : p[i].op = "insert" /\ p[j].op \in Writes => j < i
  BY <1>8 DEF Writes
<1>15. \A i \in 1 .. Len(p) : p[i].op # "insert intent"
  BY <1>8
<1>16. Orderly(p)
  BY <1>1, <1>9, <1>10, <1>12, <1>13, <1>14, <1>15
     DEF Orderly, l
<1> QED
  BY <1>16 DEF p

(* Creating a payment intent is orderly.                                   *)
LEMMA CreateOrderly == Orderly(create_payment_intent)
<1> DEFINE p == create_payment_intent
<1>1. p \in Seq(Statement)
  BY SMTT(30) DEF create_payment_intent, append_event, lock, Do, Statement, Writes
<1>2. Len(p) = 16
  BY SMTT(30) DEF create_payment_intent, append_event
<1>3. /\ p[1] = lock("idempotency_key", "UPDATE")
      /\ p[2] = Do("insert intent") /\ p[3] = lock("mission", "KEY SHARE")
      /\ p[4] = lock("authorization", "KEY SHARE")
      /\ p[5] = lock("authorization", "NO KEY UPDATE") /\ p[6] = Do("consume")
  BY SMTT(30) DEF create_payment_intent, append_event
<1>4. /\ p[7] = lock("mission", "UPDATE") /\ p[8] = Do("last")
      /\ p[9] = Do("insert") /\ p[10] = lock("mission", "UPDATE")
      /\ p[11] = Do("last") /\ p[12] = Do("insert")
  BY SMTT(30) DEF create_payment_intent, append_event
<1>5. /\ p[13] = lock("mission", "UPDATE") /\ p[14] = Do("last")
      /\ p[15] = Do("insert")
  BY SMTT(30) DEF create_payment_intent, append_event
<1>6. p[16] = lock("mission", "NO KEY UPDATE")
  <2> DEFINE q == <<lock("idempotency_key", "UPDATE"), Do("insert intent"),
                    lock("mission", "KEY SHARE"), lock("authorization", "KEY SHARE"),
                    lock("authorization", "NO KEY UPDATE"), Do("consume")>>
                  \o append_event \o append_event \o append_event
             c == lock("mission", "NO KEY UPDATE")
  <2>1. Len(q) = 15 /\ q \in Seq(Statement) /\ c \in Statement
    BY SMTT(30) DEF append_event, lock, Do, Statement, Writes
  <2>2. p = q \o <<c>>
    BY DEF create_payment_intent
  <2> HIDE DEF p, q, c
  <2>3. p[Len(q) + 1] = c
    BY <2>1, <2>2, OneMore
  <2>4. Len(q) + 1 = 16
    BY <2>1, SMTT(30)
  <2> QED
    BY <2>3, <2>4 DEF c
<1> HIDE DEF p
<1>7. /\ p[1].op = "lock" /\ p[2].op = "insert intent" /\ p[3].op = "lock"
      /\ p[4].op = "lock" /\ p[5].op = "lock" /\ p[6].op = "consume"
      /\ p[7].op = "lock" /\ p[8].op = "last" /\ p[9].op = "insert"
      /\ p[10].op = "lock" /\ p[11].op = "last" /\ p[12].op = "insert"
      /\ p[13].op = "lock" /\ p[14].op = "last" /\ p[15].op = "insert"
      /\ p[16].op = "lock"
  BY <1>3, <1>4, <1>5, <1>6, Operations
<1>8. \A i \in 1 .. Len(p) :
          \/ i = 1 \/ i = 2 \/ i = 3 \/ i = 4 \/ i = 5 \/ i = 6 \/ i = 7
          \/ i = 8 \/ i = 9 \/ i = 10 \/ i = 11 \/ i = 12 \/ i = 13
          \/ i = 14 \/ i = 15 \/ i = 16
  BY <1>2, SMTT(30)
<1>9. \A i \in 1 .. Len(p) :
          /\ p[i].op = "insert" => i = 9 \/ i = 12 \/ i = 15
          /\ p[i].op = "last" => i = 8 \/ i = 11 \/ i = 14
          /\ p[i].op = "insert intent" => i = 2
          /\ p[i].op = "consume" => i = 6
          /\ p[i].op # "demote"
  BY <1>7, <1>8
<1>10. /\ ~Past(p, Len(p), "demote")
  BY <1>9 DEF Past
<1>11. Past(p, Len(p), "insert intent")
  <2>1. 2 \in 1 .. Len(p)
    BY <1>2, SMTT(30)
  <2> QED
    BY <2>1, <1>7 DEF Past
<1>12. Past(p, Len(p), "consume")
  <2>1. 6 \in 1 .. Len(p)
    BY <1>2, SMTT(30)
  <2> QED
    BY <2>1, <1>7 DEF Past
<1>13. Cardinality(Inserts(p, Len(p))) = 3
  <2>1. 9 \in 1 .. Len(p) /\ 12 \in 1 .. Len(p) /\ 15 \in 1 .. Len(p)
    BY <1>2, SMTT(30)
  <2>2. Inserts(p, Len(p)) = {9, 12, 15}
    BY <2>1, <1>7, <1>9 DEF Inserts
  <2> QED
    BY <2>2, ThreeElements
<1>14. \A i \in 1 .. Len(p) : p[i].op = "insert" => i > 1 /\ p[i - 1].op = "last"
  <2> SUFFICES ASSUME NEW i \in 1 .. Len(p), p[i].op = "insert"
               PROVE  i > 1 /\ p[i - 1].op = "last"
    OBVIOUS
  <2>1. i = 9 \/ i = 12 \/ i = 15
    BY <1>9
  <2>2. i > 1 /\ (i - 1 = 8 \/ i - 1 = 11 \/ i - 1 = 14)
    BY <2>1, SMTT(30)
  <2> QED
    BY <2>2, <1>7
<1> DEFINE l == lock("mission", "UPDATE")
           n == lock("authorization", "NO KEY UPDATE")
           k == lock("idempotency_key", "UPDATE")
<1>15. /\ p[7] = l /\ p[10] = l /\ p[13] = l /\ p[5] = n /\ p[1] = k
  BY <1>3, <1>4, <1>5, <1>6
<1> HIDE DEF l, n, k
<1>16. \A i \in 1 .. Len(p) : p[i].op = "last" => i > 1 /\ p[i - 1] = l
  <2> SUFFICES ASSUME NEW i \in 1 .. Len(p), p[i].op = "last"
               PROVE  i > 1 /\ p[i - 1] = l
    OBVIOUS
  <2>1. i = 8 \/ i = 11 \/ i = 14
    BY <1>9
  <2> QED
    BY <2>1, <1>15, SMTT(30)
<1>17. \A i \in 1 .. Len(p) : p[i].op \in {"consume", "demote"} => i > 1 /\ p[i - 1] = n
  <2> SUFFICES ASSUME NEW i \in 1 .. Len(p), p[i].op \in {"consume", "demote"}
               PROVE  i > 1 /\ p[i - 1] = n
    OBVIOUS
  <2>1. i = 6
    BY <1>9
  <2> QED
    BY <2>1, <1>15, SMTT(30)
<1>18. \A i, j \in 1 .. Len(p) : p[i].op = "insert" /\ p[j].op \in Writes => j < i
  <2> SUFFICES ASSUME NEW i \in 1 .. Len(p), NEW j \in 1 .. Len(p), p[i].op = "insert",
                      p[j].op \in Writes
               PROVE  j < i
    OBVIOUS
  <2>1. i = 9 \/ i = 12 \/ i = 15
    BY <1>9
  <2>2. j = 2 \/ j = 6
    BY <1>9 DEF Writes
  <2> QED
    BY <2>1, <2>2, SMTT(30)
<1>19. \A i \in 1 .. Len(p) : p[i].op = "insert intent" => i = 2 /\ p[1] = k
  BY <1>9, <1>15
<1>20. Orderly(p)
  BY <1>1, <1>10, <1>11, <1>12, <1>13, <1>14, <1>16, <1>17, <1>18, <1>19
     DEF Orderly, l, n, k
<1> QED
  BY <1>20 DEF p

(* Every handler's program is orderly.                                     *)
LEMMA ProgramsOrderly == \A p \in Programs : Orderly(p)
BY AppendOrderly, DemoteOrderly, ApplyOrderly, WebhookOrderly, CreateOrderly
   DEF Programs
-----------------------------------------------------------------------------
(* One more statement                                                      *)

(* Lists with the same statements are the same.                            *)
LEMMA SameStatements ==
    ASSUME NEW a \in Seq(Statement), NEW b \in Seq(Statement), Len(a) = Len(b),
           \A i \in 1 .. Len(a) : a[i] = b[i]
    PROVE  a = b
BY SMTT(30)

(* What is left of a program: its next statement and the rest.             *)
LEMMA Dropped ==
    ASSUME NEW p \in Seq(Statement), NEW k \in 0 .. Len(p)
    PROVE  /\ Drop(p, k) \in Seq(Statement)
           /\ Drop(p, k) = <<>> <=> k = Len(p)
           /\ k < Len(p) => /\ Head(Drop(p, k)) = p[k + 1]
                            /\ Tail(Drop(p, k)) = Drop(p, k + 1)
<1> DEFINE d == Drop(p, k)
<1>1. Len(p) \in Nat /\ Len(p) - k \in Nat /\ \A i \in 1 .. Len(p) : p[i] \in Statement
  BY SMTT(30)
<1>2. /\ d \in Seq(Statement) /\ Len(d) = Len(p) - k
      /\ \A i \in 1 .. (Len(p) - k) : d[i] = p[i + k]
  BY <1>1, SMTT(30) DEF Drop
<1>3. d = <<>> <=> k = Len(p)
  BY <1>1, <1>2, SMTT(30)
<1>4. ASSUME k < Len(p)
      PROVE  Head(d) = p[k + 1] /\ Tail(d) = Drop(p, k + 1)
  <2>1. d # <<>> /\ 1 \in 1 .. (Len(p) - k)
    BY <1>1, <1>3, <1>4, SMTT(30)
  <2>2. Head(d) = d[1]
    BY <1>2, <2>1, SMTT(30)
  <2> DEFINE r == Drop(p, k + 1)
  <2>3. /\ r \in Seq(Statement) /\ Len(r) = Len(p) - (k + 1)
        /\ \A i \in 1 .. (Len(p) - (k + 1)) : r[i] = p[i + (k + 1)]
    BY <1>1, <1>4, SMTT(30) DEF Drop
  <2>4. \A i \in 1 .. (Len(p) - (k + 1)) : d[i + 1] = p[i + (k + 1)]
    BY <1>1, <1>2, <1>4, SMTT(30)
  <2> HIDE DEF d, r
  <2>5. /\ Tail(d) \in Seq(Statement) /\ Len(Tail(d)) = Len(d) - 1
        /\ \A i \in 1 .. (Len(d) - 1) : Tail(d)[i] = d[i + 1]
    BY <1>2, <2>1, SMTT(30)
  <2>6. Tail(d) = r
    <3>1. Len(Tail(d)) = Len(r) /\ \A i \in 1 .. Len(Tail(d)) : Tail(d)[i] = r[i]
      BY <1>1, <1>2, <2>3, <2>4, <2>5, SMTT(30)
    <3> QED
      BY <2>3, <2>5, <3>1, SameStatements
  <2> QED
    BY <1>1, <1>2, <2>1, <2>2, <2>6, SMTT(30) DEF r
<1> QED
  BY <1>2, <1>3, <1>4

(* Nothing has been issued of a program that begins.                       *)
LEMMA DroppedNone == ASSUME NEW p \in Seq(Statement) PROVE Drop(p, 0) = p
BY SMTT(30) DEF Drop

(* The statements issued after one more.                                   *)
LEMMA PastMore ==
    ASSUME NEW p, NEW k \in Nat, NEW o
    PROVE  Past(p, k + 1, o) <=> (Past(p, k, o) \/ p[k + 1].op = o)
<1>1. \A i : i \in 1 .. (k + 1) <=> (i \in 1 .. k \/ i = k + 1)
  BY SMTT(30)
<1> QED
  BY <1>1 DEF Past

(* The appends issued after one more.                                      *)
LEMMA InsertsMore ==
    ASSUME NEW p, NEW k \in Nat
    PROVE  /\ IsFiniteSet(Inserts(p, k)) /\ Cardinality(Inserts(p, k)) \in Nat
           /\ Cardinality(Inserts(p, k + 1)) =
                 IF p[k + 1].op = "insert" THEN Cardinality(Inserts(p, k)) + 1
                 ELSE Cardinality(Inserts(p, k))
<1>0. 1 \in Int /\ k \in Int
  BY SMTT(30)
<1>1. IsFiniteSet(Inserts(p, k))
  BY <1>0, FS_Interval, FS_Subset, Inserts(p, k) \subseteq 1 .. k DEF Inserts
<1>2. \A i : i \in 1 .. (k + 1) <=> (i \in 1 .. k \/ i = k + 1)
  BY SMTT(30)
<1>3. k + 1 \notin Inserts(p, k)
  BY SMTT(30) DEF Inserts
<1>4. CASE p[k + 1].op = "insert"
  <2>1. Inserts(p, k + 1) = Inserts(p, k) \cup {k + 1}
    BY <1>2, <1>4 DEF Inserts
  <2> QED
    BY <1>1, <1>3, <1>4, <2>1, FS_AddElement, FS_CardinalityType
<1>5. CASE p[k + 1].op # "insert"
  <2>1. Inserts(p, k + 1) = Inserts(p, k)
    BY <1>2, <1>5 DEF Inserts
  <2> QED
    BY <1>1, <1>5, <2>1, FS_CardinalityType
<1> QED
  BY <1>4, <1>5

(* What statement c leaves of a transaction's record x: y.                 *)
Does(c, x, y, S) ==
    /\ x.held \subseteq y.held
    /\ c.op = "lock" => <<c.row, c.mode>> \in y.held
    /\ "intent" \in y.writes <=> ("intent" \in x.writes \/ c.op = "insert intent")
    /\ "CONSUMED" \in y.writes <=> ("CONSUMED" \in x.writes \/ c.op = "consume")
    /\ "DEMOTED" \in y.writes <=> ("DEMOTED" \in x.writes \/ c.op = "demote")
    /\ Cardinality(y.new) = IF c.op = "insert" THEN Cardinality(x.new) + 1
                            ELSE Cardinality(x.new)
    /\ c.op = "last" => y.prev = {last_event(S \cup y.new)}

(* The statement a transaction issues next.                                *)
LEMMA NextStatement ==
    ASSUME NEW p \in Programs, NEW k \in 0 .. Len(p), NEW x, NEW S,
           Issued(x, S, p, k), x.left # <<>>
    PROVE  /\ k \in Nat /\ k + 1 \in 1 .. Len(p) /\ k + 1 \in 0 .. Len(p)
           /\ Head(x.left) = p[k + 1] /\ Tail(x.left) = Drop(p, k + 1)
<1>1. p \in Seq(Statement)
  BY ProgramsOrderly DEF Orderly
<1>2. Len(p) \in Nat /\ k \in Nat
  BY <1>1, SMTT(30)
<1>3. x.left = Drop(p, k)
  BY DEF Issued
<1>4. k # Len(p)
  BY <1>1, <1>3, Dropped
<1>5. k < Len(p)
  BY <1>2, <1>4, SMTT(30)
<1>6. Head(Drop(p, k)) = p[k + 1] /\ Tail(Drop(p, k)) = Drop(p, k + 1)
  BY <1>1, <1>5, Dropped
<1> QED
  BY <1>2, <1>3, <1>5, <1>6, SMTT(30)

(* A transaction issues its next statement and does what it says.          *)
LEMMA NextIssued ==
    ASSUME NEW p \in Programs, NEW k \in 0 .. Len(p), NEW x, NEW S, NEW y,
           Issued(x, S, p, k), x.left # <<>>, y.left = Tail(x.left),
           Does(Head(x.left), x, y, S)
    PROVE  k + 1 \in 0 .. Len(p) /\ Issued(y, S, p, k + 1)
<1> DEFINE c == p[k + 1]
<1>1. k \in Nat /\ k + 1 \in 0 .. Len(p) /\ Tail(x.left) = Drop(p, k + 1)
  BY NextStatement
<1>2. Does(c, x, y, S)
  BY NextStatement
<1> HIDE DEF c
<1>3. y.left = Drop(p, k + 1)
  BY <1>1
<1>4. \A i \in 1 .. (k + 1) : p[i].op = "lock" => <<p[i].row, p[i].mode>> \in y.held
  <2>1. \A i \in 1 .. (k + 1) : i \in 1 .. k \/ i = k + 1
    BY <1>1, SMTT(30)
  <2>2. \A i \in 1 .. k : p[i].op = "lock" => <<p[i].row, p[i].mode>> \in x.held
    BY DEF Issued
  <2>3. x.held \subseteq y.held /\ (c.op = "lock" => <<c.row, c.mode>> \in y.held)
    BY <1>2 DEF Does
  <2> QED
    BY <2>1, <2>2, <2>3 DEF c
<1>5. /\ "intent" \in y.writes <=> Past(p, k + 1, "insert intent")
      /\ "CONSUMED" \in y.writes <=> Past(p, k + 1, "consume")
      /\ "DEMOTED" \in y.writes <=> Past(p, k + 1, "demote")
  <2>1. /\ "intent" \in x.writes <=> Past(p, k, "insert intent")
        /\ "CONSUMED" \in x.writes <=> Past(p, k, "consume")
        /\ "DEMOTED" \in x.writes <=> Past(p, k, "demote")
    BY DEF Issued
  <2>2. /\ Past(p, k + 1, "insert intent") <=> (Past(p, k, "insert intent") \/ c.op = "insert intent")
        /\ Past(p, k + 1, "consume") <=> (Past(p, k, "consume") \/ c.op = "consume")
        /\ Past(p, k + 1, "demote") <=> (Past(p, k, "demote") \/ c.op = "demote")
    BY <1>1, PastMore DEF c
  <2> QED
    BY <1>2, <2>1, <2>2 DEF Does
<1>6. Cardinality(y.new) = Cardinality(Inserts(p, k + 1))
  <2>1. Cardinality(x.new) = Cardinality(Inserts(p, k))
    BY DEF Issued
  <2>2. Cardinality(y.new) = IF c.op = "insert" THEN Cardinality(x.new) + 1
                             ELSE Cardinality(x.new)
    BY <1>2 DEF Does
  <2>3. Cardinality(Inserts(p, k + 1)) = IF c.op = "insert" THEN Cardinality(Inserts(p, k)) + 1
                                         ELSE Cardinality(Inserts(p, k))
    BY <1>1, InsertsMore DEF c
  <2> QED
    BY <2>1, <2>2, <2>3, SMTT(30)
<1>7. p[k + 1].op = "last" => y.prev = {last_event(S \cup y.new)}
  BY <1>2 DEF Does, c
<1> QED
  BY <1>1, <1>3, <1>4, <1>5, <1>6, <1>7 DEF Issued

(* The highest row is the one last_event finds.                            *)
LEMMA LastIsLast ==
    ASSUME NEW S, HasLast(S)
    PROVE  last_event(S) \in S /\ \A s \in S : s.sequence <= last_event(S).sequence
BY DEF HasLast, last_event

(* r is the row append_event makes of this body after the last row of S.   *)
Follows(r, S, body) ==
    r = NextRow(last_event(S).event_id + 1, body, last_event(S))

(* The row append_event inserts after the last one extends the chain, and  *)
(* takes a sequence number no row has.                                     *)
LEMMA ChainExtended ==
    ASSUME NEW S, Chained(S), HasLast(S), NEW body, NEW r, Follows(r, S, body)
    PROVE  /\ Chained(S \cup {r}) /\ HasLast(S \cup {r})
           /\ \A s \in S : s.sequence # r.sequence
           /\ r.body = body
<1> DEFINE l == last_event(S)
<1>1. l \in S /\ \A s \in S : s.sequence <= l.sequence
  BY LastIsLast
<1> r = NextRow(l.event_id + 1, body, l)
  BY DEF Follows
<1>2. /\ r.event_id = l.event_id + 1 /\ Row(r)
  BY DEF NextRow, AuditEventRow, Row, Columns
<1>3. /\ r.sequence = l.sequence + 1 /\ r.body = body /\ r.previous_hash = l.event_hash
      /\ r.event_hash = compute_event_hash(l.sequence + 1, body, l.event_hash)
  BY DEF NextRow, AuditEventRow
<1>4. r.wellformed
  BY DEF NextRow, AuditEventRow
<1> HIDE DEF l
<1>5. \A s \in S : s.sequence \in Nat /\ s.event_id = s.sequence
  BY DEF Chained
<1>6. /\ l.sequence \in Nat /\ r.sequence \in Nat /\ r.sequence # 0
      /\ r.event_id = r.sequence
  BY <1>1, <1>2, <1>3, <1>5, SMTT(30)
<1>7. \A s \in S : s.sequence < r.sequence /\ s.sequence # r.sequence
  BY <1>1, <1>3, <1>5, <1>6, SMTT(30)
<1>8. HasLast(S \cup {r})
  BY <1>5, <1>6, <1>7, SMTT(30) DEF HasLast
<1>9. r.event_hash = compute_event_hash(r.sequence, r.body, r.previous_hash)
  BY <1>3
<1>10. \E s \in S : s.sequence = r.sequence - 1 /\ r.previous_hash = s.event_hash
  BY <1>1, <1>3, <1>6, SMTT(30)
<1>11. \A q, s \in S \cup {r} : q.sequence = s.sequence => q = s
  BY <1>7 DEF Chained
<1>12. \A q \in S \cup {r} :
          /\ Row(q) /\ q.event_id = q.sequence
          /\ q.sequence \in Nat /\ q.wellformed
          /\ q.event_hash = compute_event_hash(q.sequence, q.body, q.previous_hash)
          /\ q.sequence = 0 => q.previous_hash = GENESIS_HASH
          /\ q.sequence # 0 => \E s \in S \cup {r} : /\ s.sequence = q.sequence - 1
                                                     /\ q.previous_hash = s.event_hash
  BY <1>2, <1>4, <1>6, <1>9, <1>10, SMTT(30) DEF Chained
<1> QED
  BY <1>3, <1>7, <1>8, <1>11, <1>12 DEF Chained
-----------------------------------------------------------------------------
(* What a transaction has done when it issues a statement                  *)

(* A transaction that has appended, or has read the last event to append,  *)
(* holds the mission row; one that has written the authorization or the    *)
(* intent holds the row and the key.                                       *)
LEMMA LocksHeld ==
    ASSUME NEW p \in Programs, NEW k \in 0 .. Len(p), NEW x, NEW S,
           Issued(x, S, p, k), IsFiniteSet(x.new)
    PROVE  /\ x.new # {} => <<"mission", "UPDATE">> \in x.held
           /\ k > 0 /\ p[k].op = "last" => <<"mission", "UPDATE">> \in x.held
           /\ "CONSUMED" \in x.writes \/ "DEMOTED" \in x.writes =>
                 <<"authorization", "NO KEY UPDATE">> \in x.held
           /\ "intent" \in x.writes => <<"idempotency_key", "UPDATE">> \in x.held
<1>1. Orderly(p)
  BY ProgramsOrderly
<1>2. Len(p) \in Nat /\ k \in Nat /\ \A i \in 1 .. k : i \in 1 .. Len(p)
  <2>1. p \in Seq(Statement)
    BY <1>1 DEF Orderly
  <2> QED
    BY <2>1, SMTT(30)
<1>3. ASSUME NEW i \in 1 .. k, NEW r, NEW m, p[i] = lock(r, m)
      PROVE  <<r, m>> \in x.held
  <2>1. p[i].op = "lock" /\ p[i].row = r /\ p[i].mode = m
    BY <1>3, SMTT(30) DEF lock
  <2>2. p[i].op = "lock" => <<p[i].row, p[i].mode>> \in x.held
    BY DEF Issued
  <2> QED
    BY <2>1, <2>2
<1>4. ASSUME NEW i \in 1 .. k, p[i].op = "last"
      PROVE  <<"mission", "UPDATE">> \in x.held
  <2>1. i > 1 /\ p[i - 1] = lock("mission", "UPDATE")
    BY <1>1, <1>2, <1>4 DEF Orderly
  <2>2. i - 1 \in 1 .. k
    BY <1>2, <2>1, SMTT(30)
  <2> QED
    BY <1>3, <2>1, <2>2
<1>5. ASSUME x.new # {}
      PROVE  <<"mission", "UPDATE">> \in x.held
  <2>1. Cardinality(x.new) # 0
    BY <1>5, FS_EmptySet
  <2>2. Inserts(p, k) # {}
    BY <2>1, FS_EmptySet DEF Issued
  <2>3. PICK i \in 1 .. k : p[i].op = "insert"
    BY <2>2 DEF Inserts
  <2>4. i > 1 /\ p[i - 1].op = "last"
    BY <1>1, <1>2, <2>3 DEF Orderly
  <2>5. i - 1 \in 1 .. k
    BY <1>2, <2>4, SMTT(30)
  <2> QED
    BY <1>4, <2>4, <2>5
<1>6. k > 0 /\ p[k].op = "last" => <<"mission", "UPDATE">> \in x.held
  BY <1>2, <1>4, SMTT(30)
<1>7. ASSUME "CONSUMED" \in x.writes \/ "DEMOTED" \in x.writes
      PROVE  <<"authorization", "NO KEY UPDATE">> \in x.held
  <2>1. PICK i \in 1 .. k : p[i].op \in {"consume", "demote"}
    BY <1>7 DEF Issued, Past
  <2>2. i > 1 /\ p[i - 1] = lock("authorization", "NO KEY UPDATE")
    BY <1>1, <1>2, <2>1 DEF Orderly
  <2>3. i > 1
    BY <2>2
  <2>4. i - 1 \in 1 .. k
    BY <1>2, <2>3, SMTT(30)
  <2> QED
    BY <1>3, <2>2, <2>4
<1>8. ASSUME "intent" \in x.writes
      PROVE  <<"idempotency_key", "UPDATE">> \in x.held
  <2>1. PICK i \in 1 .. k : p[i].op = "insert intent"
    BY <1>8 DEF Issued, Past
  <2>2. i = 2 /\ p[1] = lock("idempotency_key", "UPDATE")
    BY <1>1, <1>2, <2>1 DEF Orderly
  <2>3. 1 \in 1 .. k
    BY <1>2, <2>2, SMTT(30)
  <2> QED
    BY <1>3, <2>2, <2>3
<1> QED
  BY <1>5, <1>6, <1>7, <1>8

(* Before it writes the intent or the authorization a transaction has      *)
(* appended nothing; before it writes the intent it has written nothing,   *)
(* and one that demotes the authorization writes nothing else.             *)
LEMMA BeforeWriting ==
    ASSUME NEW p \in Programs, NEW k \in 0 .. Len(p), NEW x, NEW S,
           Issued(x, S, p, k), IsFiniteSet(x.new), x.left # <<>>,
           Head(x.left).op \in Writes
    PROVE  /\ x.new = {}
           /\ Head(x.left).op \in {"insert intent", "demote"} =>
                 "intent" \notin x.writes /\ "CONSUMED" \notin x.writes
           /\ Head(x.left).op = "insert intent" => "DEMOTED" \notin x.writes
<1> DEFINE c == p[k + 1]
<1>1. Orderly(p)
  BY ProgramsOrderly
<1>2. /\ k \in Nat /\ k + 1 \in 1 .. Len(p) /\ c = Head(x.left)
      /\ \A i \in 1 .. k : i \in 1 .. Len(p) /\ i < k + 1 /\ i # k + 1
  BY NextStatement, SMTT(30)
<1>3. c.op \in Writes
  BY <1>2
<1>4. x.new = {}
  <2>1. \A i \in 1 .. k : p[i].op # "insert"
    <3>1. \A i, j \in 1 .. Len(p) : p[i].op = "insert" /\ p[j].op \in Writes => j < i
      BY <1>1 DEF Orderly
    <3>2. \A i \in 1 .. k : i \in 1 .. Len(p) /\ ~(k + 1 < i)
      BY <1>2, SMTT(30)
    <3> QED
      BY <1>2, <1>3, <3>1, <3>2
  <2>2. Inserts(p, k) = {}
    BY <2>1 DEF Inserts
  <2>3. Cardinality(x.new) = 0
    BY <2>2, FS_EmptySet DEF Issued
  <2> QED
    BY <2>3, FS_EmptySet
<1>5. CASE c.op = "insert intent"
  <2>place. k + 1 = 2 /\ p[1] = lock("idempotency_key", "UPDATE")
    BY <1>1, <1>2, <1>5 DEF Orderly
  <2>1. k = 1 /\ p[1] = lock("idempotency_key", "UPDATE")
    BY <1>2, <2>place, SMTT(30)
  <2>2. p[1].op = "lock"
    BY <2>1, Operations
  <2>3. \A i \in 1 .. k : p[i].op = "lock"
    BY <2>1, <2>2, SMTT(30)
  <2>4. ~Past(p, k, "insert intent") /\ ~Past(p, k, "consume") /\ ~Past(p, k, "demote")
    BY <2>3 DEF Past
  <2> QED
    BY <1>2, <1>4, <2>4 DEF Issued
<1>6. CASE c.op = "demote"
  <2>1. Past(p, Len(p), "demote")
    BY <1>2, <1>6 DEF Past
  <2>2. ~Past(p, Len(p), "consume") /\ ~Past(p, Len(p), "insert intent")
    BY <1>1, <2>1 DEF Orderly
  <2>3. ~Past(p, k, "consume") /\ ~Past(p, k, "insert intent")
    BY <1>2, <2>2 DEF Past
  <2> QED
    BY <1>2, <1>4, <1>6, <2>3 DEF Issued
<1> QED
  BY <1>2, <1>4, <1>5, <1>6

(* A transaction reads the last event right before it appends.             *)
LEMMA BeforeAppending ==
    ASSUME NEW p \in Programs, NEW k \in 0 .. Len(p), NEW x, NEW S,
           Issued(x, S, p, k), x.left # <<>>, Head(x.left).op = "insert"
    PROVE  /\ k > 0 /\ p[k].op = "last"
           /\ x.prev = {last_event(S \cup x.new)}
<1>1. Orderly(p)
  BY ProgramsOrderly
<1>2. k \in Nat /\ k + 1 \in 1 .. Len(p) /\ p[k + 1].op = "insert"
  BY NextStatement
<1>3. k + 1 > 1 /\ p[k + 1 - 1].op = "last"
  <2>1. \A i \in 1 .. Len(p) : p[i].op = "insert" => i > 1 /\ p[i - 1].op = "last"
    BY <1>1 DEF Orderly
  <2> QED
    BY <1>2, <2>1, SMTT(30)
<1>4. k + 1 - 1 = k /\ k > 0
  BY <1>2, <1>3, SMTT(30)
<1> QED
  BY <1>3, <1>4 DEF Issued

(* A handler that has issued every statement has written an intent exactly *)
(* when it has consumed the authorization, with three events; it has       *)
(* demoted it with one.                                                    *)
LEMMA AllIssued ==
    ASSUME NEW p \in Programs, NEW k \in 0 .. Len(p), NEW x, NEW S,
           Issued(x, S, p, k), x.left = <<>>
    PROVE  /\ "intent" \in x.writes <=> "CONSUMED" \in x.writes
           /\ "CONSUMED" \in x.writes =>
                 "DEMOTED" \notin x.writes /\ Cardinality(x.new) = 3
           /\ "DEMOTED" \in x.writes => Cardinality(x.new) = 1
<1>1. Orderly(p)
  BY ProgramsOrderly
<1>2. p \in Seq(Statement) /\ Drop(p, k) = <<>>
  BY <1>1 DEF Orderly, Issued
<1>3. k = Len(p)
  BY <1>2, Dropped
<1> QED
  BY <1>1, <1>3 DEF Orderly, Issued
-----------------------------------------------------------------------------
(* The steps of a transaction that leave the committed rows alone          *)

(* Such a step replaces the record of one transaction by another sound     *)
(* one, whose locks exclude no other's.                                    *)
LEMMA Stepped ==
    ASSUME LedgerInv, NEW t \in Txns, NEW y, tx' = [tx EXCEPT ![t] = y],
           rows' = rows, auth' = auth, exists' = exists, ~clash',
           Shaped(y), y.writes \subseteq {"intent", "CONSUMED", "DEMOTED"},
           Sound(y, rows, auth, exists),
           \A u \in Txns \ {t} : \A g \in y.held, h \in tx[u].held :
               g[1] = h[1] => ~conflicts(g[2], h[2])
    PROVE  LedgerInv'
<1>1. /\ tx'[t] = y /\ \A u \in Txns \ {t} : tx'[u] = tx[u]
      /\ tx' = [u \in Txns |-> tx'[u]]
  BY DEF LedgerInv, Typed
<1>2. Typed'
  <2>1. \A u \in Txns : /\ Shaped(tx'[u])
                        /\ tx'[u].writes \subseteq {"intent", "CONSUMED", "DEMOTED"}
    BY <1>1 DEF LedgerInv, Typed
  <2> QED
    BY <1>1, <2>1 DEF LedgerInv, Typed
<1>3. Exclusive'
  <2> SUFFICES ASSUME NEW u \in Txns, NEW v \in Txns, u # v,
                      NEW g \in tx'[u].held, NEW h \in tx'[v].held, g[1] = h[1]
               PROVE  ~conflicts(g[2], h[2])
    BY DEF Exclusive
  <2>1. CASE u = t
    BY <1>1, <2>1
  <2>2. CASE v = t
    <3>1. ~conflicts(h[2], g[2])
      BY <1>1, <2>2
    <3> QED
      BY <3>1 DEF conflicts
  <2>3. CASE u # t /\ v # t
    BY <1>1, <2>3 DEF LedgerInv, Exclusive
  <2> QED
    BY <2>1, <2>2, <2>3
<1>4. \A u \in Txns : Sound(tx'[u], rows, auth, exists)
  BY <1>1 DEF LedgerInv
<1>5. LedgerTellsRows'
  BY DEF LedgerInv, LedgerTellsRows
<1> QED
  BY <1>2, <1>3, <1>4, <1>5 DEF LedgerInv

(* A transaction that has not begun.                                       *)
LEMMA IdleShaped ==
    /\ Shaped(Idle) /\ Idle.phase = "idle" /\ Idle.left = <<>> /\ Idle.held = {}
    /\ Idle.prev = {} /\ Idle.new = {} /\ Idle.writes = {}
<1> DEFINE x == Idle
           none == <<>>
<1>1. x = [phase |-> "idle", left |-> none, held |-> {}, prev |-> {}, new |-> {},
           writes |-> {}]
  BY DEF Idle
<1> HIDE DEF x, none
<1>2. /\ Shaped(x) /\ x.phase = "idle" /\ x.left = none /\ x.held = {} /\ x.prev = {}
      /\ x.new = {} /\ x.writes = {}
  BY <1>1 DEF Shaped
<1> QED
  BY <1>2 DEF x, none

(* A transaction that ends leaves nothing behind.                          *)
LEMMA EndedSound ==
    ASSUME NEW f \in {"aborted", "committed"}, NEW S, NEW a, NEW e, Chained(S), HasLast(S)
    PROVE  /\ Shaped(Ended(f)) /\ Sound(Ended(f), S, a, e)
           /\ Ended(f).held = {} /\ Ended(f).writes = {}
<1> DEFINE y == Ended(f)
<1>1. y.phase = f /\ y.held = {} /\ y.new = {} /\ y.writes = {}
  BY DEF Ended, Idle
<1>2. Shaped(y)
  BY IdleShaped, SMTT(30) DEF Ended, Shaped
<1>3. IsFiniteSet({}) /\ S \cup {} = S
  BY FS_EmptySet
<1>4. f # "running"
  OBVIOUS
<1> HIDE DEF y
<1>5. Sound(y, S, a, e)
  BY <1>1, <1>3, <1>4 DEF Sound
<1> QED
  BY <1>1, <1>2, <1>5 DEF y

(* A crash, a deadlock victim and a refused statement end the transaction. *)
LEMMA EndedStep ==
    ASSUME LedgerInv, NEW t \in Txns, tx' = [tx EXCEPT ![t] = Ended("aborted")],
           UNCHANGED <<rows, auth, exists, clash>>
    PROVE  LedgerInv'
<1>1. Chained(rows) /\ HasLast(rows) /\ ~clash
  BY DEF LedgerInv
<1>2. /\ Shaped(Ended("aborted")) /\ Sound(Ended("aborted"), rows, auth, exists)
      /\ Ended("aborted").held = {} /\ Ended("aborted").writes = {}
  BY <1>1, EndedSound
<1> QED
  BY <1>1, <1>2, Stepped

(* A statement keeps a transaction's record sound.                         *)
LEMMA ProceedSound ==
    ASSUME NEW x, NEW y, NEW S, NEW a, NEW e, Sound(x, S, a, e),
           x.phase = "running", y.phase = "running", x.left # <<>>,
           y.left = Tail(x.left), Does(Head(x.left), x, y, S),
           IsFiniteSet(y.new), \A r \in y.new : r.body[3] = y.writes,
           Chained(S \cup y.new), HasLast(S \cup y.new),
           "CONSUMED" \in y.writes \/ "DEMOTED" \in y.writes => a = "ACTIVE",
           "intent" \in y.writes => ~e
    PROVE  Sound(y, S, a, e)
<1>1. PICK p \in Programs : \E k \in 0 .. Len(p) : Issued(x, S, p, k)
  BY DEF Sound
<1>2. PICK k \in 0 .. Len(p) : Issued(x, S, p, k)
  BY <1>1
<1>3. k + 1 \in 0 .. Len(p) /\ Issued(y, S, p, k + 1)
  BY <1>2, NextIssued
<1> QED
  BY <1>3 DEF Sound

(* A transaction's next statement is done and has left its record as n.    *)
LEMMA Proceeded ==
    ASSUME LedgerInv, NEW t \in Txns, tx[t].phase = "running", tx[t].left # <<>>,
           NEW n, Proceed(t, n), rows' = rows, auth' = auth, exists' = exists, ~clash',
           Shaped(n), n.phase = "running", n.left = tx[t].left,
           n.writes \subseteq {"intent", "CONSUMED", "DEMOTED"},
           Does(Head(tx[t].left), tx[t], n, rows),
           IsFiniteSet(n.new), \A r \in n.new : r.body[3] = n.writes,
           Chained(rows \cup n.new), HasLast(rows \cup n.new),
           "CONSUMED" \in n.writes \/ "DEMOTED" \in n.writes => auth = "ACTIVE",
           "intent" \in n.writes => ~exists,
           \A u \in Txns \ {t} : \A g \in n.held, h \in tx[u].held :
               g[1] = h[1] => ~conflicts(g[2], h[2])
    PROVE  LedgerInv'
<1> DEFINE x == tx[t]
           y == [n EXCEPT !.left = Tail(n.left)]
<1>1. /\ y.phase = n.phase /\ y.left = Tail(n.left) /\ y.held = n.held /\ y.prev = n.prev
      /\ y.new = n.new /\ y.writes = n.writes /\ Shaped(y)
  BY SMTT(30) DEF Shaped
<1>2. tx' = [tx EXCEPT ![t] = y]
  BY DEF Proceed
<1>3. Sound(x, rows, auth, exists)
  BY DEF LedgerInv
<1> HIDE DEF x, y
<1>4. Does(Head(x.left), x, y, rows)
  BY <1>1 DEF Does, x
<1>5. Sound(y, rows, auth, exists)
  BY <1>1, <1>3, <1>4, ProceedSound DEF x
<1> QED
  BY <1>1, <1>2, <1>5, Stepped

(* What the invariant says of a running transaction.                       *)
LEMMA RunningIs ==
    ASSUME LedgerInv, NEW t \in Txns
    PROVE  /\ Shaped(tx[t]) /\ tx[t].writes \subseteq {"intent", "CONSUMED", "DEMOTED"}
           /\ IsFiniteSet(tx[t].new) /\ \A r \in tx[t].new : r.body[3] = tx[t].writes
           /\ Chained(rows \cup tx[t].new) /\ HasLast(rows \cup tx[t].new)
           /\ "CONSUMED" \in tx[t].writes \/ "DEMOTED" \in tx[t].writes => auth = "ACTIVE"
           /\ "intent" \in tx[t].writes => ~exists
           /\ ~clash
           /\ \A u \in Txns \ {t} : \A g \in tx[t].held, h \in tx[u].held :
                  g[1] = h[1] => ~conflicts(g[2], h[2])
           /\ tx[t].phase = "running" =>
                 \E p \in Programs : \E k \in 0 .. Len(p) : Issued(tx[t], rows, p, k)
<1>1. Sound(tx[t], rows, auth, exists)
  BY DEF LedgerInv
<1>2. \A u \in Txns \ {t} : \A g \in tx[t].held, h \in tx[u].held :
         g[1] = h[1] => ~conflicts(g[2], h[2])
  BY DEF LedgerInv, Exclusive
<1>3. Shaped(tx[t]) /\ tx[t].writes \subseteq {"intent", "CONSUMED", "DEMOTED"} /\ ~clash
  BY DEF LedgerInv, Typed
<1> QED
  BY <1>1, <1>2, <1>3 DEF Sound

(* A row lock is granted only when it excludes no lock another holds.      *)
LEMMA LockStep ==
    ASSUME LedgerInv, NEW t \in Txns, Lock(t)
    PROVE  LedgerInv'
<1> DEFINE x == tx[t]
           c == Head(x.left)
           asked == <<c.row, c.mode>>
           n == [x EXCEPT !.held = x.held \cup {asked}]
<1>1. /\ x.phase = "running" /\ x.left # <<>> /\ c.op = "lock" /\ Blockers(t) = {}
      /\ Proceed(t, n) /\ UNCHANGED <<rows, auth, exists, clash>>
  BY DEF Lock, Ready, Running
<1>2. Shaped(x)
  BY RunningIs
<1> HIDE DEF x, c, asked
<1>3. /\ n.phase = x.phase /\ n.left = x.left /\ n.held = x.held \cup {asked}
      /\ n.prev = x.prev /\ n.new = x.new /\ n.writes = x.writes /\ Shaped(n)
  BY <1>2, SMTT(30) DEF Shaped
<1> HIDE DEF n
<1>4. \A u \in Txns \ {t} : \A g \in n.held, h \in tx[u].held :
         g[1] = h[1] => ~conflicts(g[2], h[2])
  <2> SUFFICES ASSUME NEW u \in Txns \ {t}, NEW g \in n.held, NEW h \in tx[u].held,
                      g[1] = h[1]
               PROVE  ~conflicts(g[2], h[2])
    OBVIOUS
  <2>1. CASE g \in x.held
    BY <2>1, RunningIs DEF x
  <2>2. CASE g = asked
    <3>1. g[1] = c.row /\ g[2] = c.mode
      BY <2>2 DEF asked
    <3>2. ~(h[1] = c.row /\ conflicts(h[2], c.mode))
      BY <1>1 DEF Blockers, Running, x, c
    <3> QED
      BY <3>1, <3>2 DEF conflicts
  <2> QED
    BY <1>3, <2>1, <2>2
<1>5. Does(c, x, n, rows)
  BY <1>1, <1>3 DEF Does, asked
<1> QED
  BY <1>1, <1>3, <1>4, <1>5, RunningIs, Proceeded DEF x, c

(* A program none of whose statements has been issued.                     *)
LEMMA NothingIssued ==
    ASSUME NEW p \in Programs, NEW x, NEW S, x.left = p, x.new = {},
           "intent" \notin x.writes, "CONSUMED" \notin x.writes, "DEMOTED" \notin x.writes
    PROVE  0 \in 0 .. Len(p) /\ Issued(x, S, p, 0)
<1>1. p \in Seq(Statement)
  BY ProgramsOrderly DEF Orderly
<1>2. 0 \in 0 .. Len(p) /\ Drop(p, 0) = p
  BY <1>1, DroppedNone, SMTT(30)
<1>3. \A i \in 1 .. 0 : FALSE
  BY SMTT(30)
<1>4. \A o : ~Past(p, 0, o)
  BY <1>3 DEF Past
<1>5. Inserts(p, 0) = x.new
  BY <1>3 DEF Inserts
<1>6. ~(0 > 0)
  BY SMTT(30)
<1> QED
  BY <1>2, <1>3, <1>4, <1>5, <1>6 DEF Issued

(* A transaction begins with the program of its handler.                   *)
LEMMA BeginStep ==
    ASSUME LedgerInv, NEW t \in Txns, Begin(t)
    PROVE  LedgerInv'
<1> DEFINE p == Program(t)
           x == Idle
           f == "running"
           z == [x EXCEPT !.phase = f]
           y == [z EXCEPT !.left = p]
<1>1. tx' = [tx EXCEPT ![t] = y] /\ UNCHANGED <<rows, auth, exists, clash>>
  BY DEF Begin
<1>2. p \in Programs
  BY DEF Program, Programs, Txns
<1>3. /\ y.phase = "running" /\ y.left = p /\ y.held = {} /\ y.new = {} /\ y.writes = {}
      /\ Shaped(y)
  <2>1. Shaped(x)
    BY IdleShaped
  <2> HIDE DEF p, x, f
  <2>2. /\ z.phase = f /\ z.left = x.left /\ z.held = x.held /\ z.prev = x.prev
        /\ z.new = x.new /\ z.writes = x.writes /\ Shaped(z)
    BY <2>1, SMTT(30) DEF Shaped
  <2> HIDE DEF z
  <2>3. /\ y.phase = z.phase /\ y.left = p /\ y.held = z.held /\ y.prev = z.prev
        /\ y.new = z.new /\ y.writes = z.writes /\ Shaped(y)
    BY <2>2, SMTT(30) DEF Shaped
  <2> HIDE DEF y
  <2> QED
    BY <2>2, <2>3, IdleShaped DEF x, f
<1> HIDE DEF p, y
<1>4. Chained(rows) /\ HasLast(rows) /\ ~clash
  BY DEF LedgerInv
<1>5. 0 \in 0 .. Len(p) /\ Issued(y, rows, p, 0)
  BY <1>2, <1>3, NothingIssued
<1>6. IsFiniteSet(y.new) /\ rows \cup y.new = rows
  BY <1>3, FS_EmptySet
<1>7. Sound(y, rows, auth, exists)
  BY <1>2, <1>3, <1>4, <1>5, <1>6 DEF Sound
<1> QED
  BY <1>1, <1>3, <1>4, <1>7, Stepped

(* The intent is inserted where none is committed; where one is, the       *)
(* request lets go of its key and only records the reuse.                  *)
LEMMA InsertIntentStep ==
    ASSUME LedgerInv, NEW t \in Txns, InsertIntent(t)
    PROVE  LedgerInv'
<1> DEFINE x == tx[t]
           c == Head(x.left)
<1>1. /\ x.phase = "running" /\ x.left # <<>> /\ c.op = "insert intent"
      /\ UNCHANGED <<rows, auth, exists, clash>> /\ ~clash
  BY DEF InsertIntent, Ready, Running, LedgerInv
<1>2. IsFiniteSet(x.new)
  BY RunningIs
<1>shaped. Shaped(x)
  BY RunningIs
<1>3. PICK p \in Programs : \E k \in 0 .. Len(p) : Issued(x, rows, p, k)
  BY <1>1, RunningIs
<1>4. PICK k \in 0 .. Len(p) : Issued(x, rows, p, k)
  BY <1>3
<1>5. /\ x.new = {} /\ "intent" \notin x.writes /\ "CONSUMED" \notin x.writes
      /\ "DEMOTED" \notin x.writes
  BY <1>1, <1>2, <1>4, BeforeWriting DEF Writes
<1>6. CASE exists
  <2> DEFINE q == append_event
             none == {}
             z == [x EXCEPT !.left = q]
             y == [z EXCEPT !.held = none]
  <2>1. tx' = [tx EXCEPT ![t] = y]
    <3>1. tx' = [tx EXCEPT ![t].left = append_event, ![t].held = {}]
      BY <1>6 DEF InsertIntent
    <3> QED
      BY <3>1 DEF LedgerInv, Typed
  <2> HIDE DEF x, c, q, none
  <2>2. /\ y.phase = x.phase /\ y.left = q /\ y.held = none /\ y.prev = x.prev
        /\ y.new = x.new /\ y.writes = x.writes /\ Shaped(y)
    <3>1. /\ z.phase = x.phase /\ z.left = q /\ z.held = x.held /\ z.prev = x.prev
          /\ z.new = x.new /\ z.writes = x.writes /\ Shaped(z)
      BY <1>shaped, SMTT(30) DEF Shaped
    <3> HIDE DEF z
    <3> QED
      BY <3>1, SMTT(30) DEF Shaped
  <2> HIDE DEF y
  <2>3. q \in Programs
    BY DEF Programs, q
  <2>4. 0 \in 0 .. Len(q) /\ Issued(y, rows, q, 0)
    BY <1>5, <2>2, <2>3, NothingIssued
  <2>5. Sound(x, rows, auth, exists)
    BY DEF LedgerInv, x
  <2>6. Sound(y, rows, auth, exists)
    BY <1>1, <2>2, <2>3, <2>4, <2>5 DEF Sound
  <2>7. y.writes \subseteq {"intent", "CONSUMED", "DEMOTED"}
    BY <2>2, RunningIs DEF x
  <2> QED
    BY <1>1, <2>1, <2>2, <2>6, <2>7, Stepped DEF none
<1>7. CASE ~exists
  <2> DEFINE w == {"intent"}
             n == [x EXCEPT !.writes = w]
  <2>1. Proceed(t, n)
    BY <1>7 DEF InsertIntent
  <2> HIDE DEF x, c, w
  <2>2. /\ n.phase = x.phase /\ n.left = x.left /\ n.held = x.held /\ n.prev = x.prev
        /\ n.new = x.new /\ n.writes = w /\ Shaped(n)
    BY <1>shaped, SMTT(30) DEF Shaped
  <2> HIDE DEF n
  <2>3. Does(c, x, n, rows)
    BY <1>1, <1>5, <2>2 DEF Does, w
  <2> QED
    BY <1>1, <1>5, <1>7, <2>1, <2>2, <2>3, RunningIs, Proceeded DEF x, c, w
<1> QED
  BY <1>6, <1>7

(* The authorization is consumed where it is active, or the transaction is *)
(* rolled back.                                                            *)
LEMMA ConsumeStep ==
    ASSUME LedgerInv, NEW t \in Txns, Consume(t)
    PROVE  LedgerInv'
<1> DEFINE x == tx[t]
           c == Head(x.left)
           w == x.writes \cup {"CONSUMED"}
           n == [x EXCEPT !.writes = w]
<1>1. /\ x.phase = "running" /\ x.left # <<>> /\ c.op = "consume"
      /\ UNCHANGED <<rows, auth, exists, clash>> /\ ~clash
  BY DEF Consume, Ready, Running, LedgerInv
<1>2. CASE auth # "ACTIVE"
  BY <1>1, <1>2, EndedStep DEF Consume
<1>3. CASE auth = "ACTIVE"
  <2>1. Proceed(t, n)
    BY <1>3 DEF Consume
  <2>2. IsFiniteSet(x.new)
    BY RunningIs
  <2>shaped. Shaped(x)
    BY RunningIs
  <2>3. PICK p \in Programs : \E k \in 0 .. Len(p) : Issued(x, rows, p, k)
    BY <1>1, RunningIs
  <2>4. PICK k \in 0 .. Len(p) : Issued(x, rows, p, k)
    BY <2>3
  <2>5. x.new = {}
    BY <1>1, <2>2, <2>4, BeforeWriting DEF Writes
  <2> HIDE DEF x, c, w
  <2>6. /\ n.phase = x.phase /\ n.left = x.left /\ n.held = x.held /\ n.prev = x.prev
        /\ n.new = x.new /\ n.writes = w /\ Shaped(n)
    BY <2>shaped, SMTT(30) DEF Shaped
  <2> HIDE DEF n
  <2>7. Does(c, x, n, rows)
    BY <1>1, <2>6 DEF Does, w
  <2> QED
    BY <1>1, <1>3, <2>1, <2>5, <2>6, <2>7, RunningIs, Proceeded DEF x, c, w
<1> QED
  BY <1>2, <1>3

(* The authorization is expired or revoked where it is active.             *)
LEMMA DemoteStep ==
    ASSUME LedgerInv, NEW t \in Txns, Demote(t)
    PROVE  LedgerInv'
<1> DEFINE x == tx[t]
           c == Head(x.left)
           w == {"DEMOTED"}
           n == [x EXCEPT !.writes = w]
<1>1. /\ x.phase = "running" /\ x.left # <<>> /\ c.op = "demote"
      /\ UNCHANGED <<rows, auth, exists, clash>> /\ ~clash
  BY DEF Demote, Ready, Running, LedgerInv
<1>2. CASE auth # "ACTIVE"
  BY <1>1, <1>2, EndedStep DEF Demote
<1>3. CASE auth = "ACTIVE"
  <2>1. Proceed(t, n)
    BY <1>3 DEF Demote
  <2>2. IsFiniteSet(x.new)
    BY RunningIs
  <2>shaped. Shaped(x)
    BY RunningIs
  <2>3. PICK p \in Programs : \E k \in 0 .. Len(p) : Issued(x, rows, p, k)
    BY <1>1, RunningIs
  <2>4. PICK k \in 0 .. Len(p) : Issued(x, rows, p, k)
    BY <2>3
  <2>5. x.new = {} /\ "intent" \notin x.writes /\ "CONSUMED" \notin x.writes
    BY <1>1, <2>2, <2>4, BeforeWriting DEF Writes
  <2> HIDE DEF x, c, w
  <2>6. /\ n.phase = x.phase /\ n.left = x.left /\ n.held = x.held /\ n.prev = x.prev
        /\ n.new = x.new /\ n.writes = w /\ Shaped(n)
    BY <2>shaped, SMTT(30) DEF Shaped
  <2> HIDE DEF n
  <2>7. Does(c, x, n, rows)
    BY <1>1, <2>5, <2>6 DEF Does, w
  <2> QED
    BY <1>1, <1>3, <2>1, <2>5, <2>6, <2>7, RunningIs, Proceeded DEF x, c, w
<1> QED
  BY <1>2, <1>3

(* The last event is read from the committed rows and the transaction's    *)
(* own.                                                                    *)
LEMMA LastEventStep ==
    ASSUME LedgerInv, NEW t \in Txns, LastEvent(t)
    PROVE  LedgerInv'
<1> DEFINE x == tx[t]
           c == Head(x.left)
           v == {last_event(rows \cup x.new)}
           n == [x EXCEPT !.prev = v]
<1>1. /\ x.phase = "running" /\ x.left # <<>> /\ c.op = "last"
      /\ UNCHANGED <<rows, auth, exists, clash>> /\ ~clash
  BY DEF LastEvent, Ready, Running, LedgerInv
<1>2. Proceed(t, n)
  BY DEF LastEvent, Visible
<1>3. Shaped(x)
  BY RunningIs
<1> HIDE DEF x, c, v
<1>4. /\ n.phase = x.phase /\ n.left = x.left /\ n.held = x.held /\ n.prev = v
      /\ n.new = x.new /\ n.writes = x.writes /\ Shaped(n)
  BY <1>3, SMTT(30) DEF Shaped
<1> HIDE DEF n
<1>5. Does(c, x, n, rows)
  BY <1>1, <1>4 DEF Does, v
<1> QED
  BY <1>1, <1>2, <1>4, <1>5, RunningIs, Proceeded DEF x, c

(* The event inserted extends the chain the transaction sees: the lock of  *)
(* the mission row has kept the last event it read the last one, so that   *)
(* the insert meets no event with its sequence number.                     *)
LEMMA InsertStep ==
    ASSUME LedgerInv, NEW t \in Txns, Insert(t)
    PROVE  LedgerInv'
<1> DEFINE x == tx[t]
           c == Head(x.left)
           S == rows \cup x.new
           l == last_event(S)
           r == NextRow(l.event_id + 1, Body(t), l)
           v == x.new \cup {r}
           n == [x EXCEPT !.new = v]
<1>1. /\ x.phase = "running" /\ x.left # <<>> /\ c.op = "insert"
      /\ UNCHANGED <<rows, auth, exists>> /\ ~clash
  BY DEF Insert, Ready, Running, LedgerInv
<1>2. IsFiniteSet(x.new) /\ Chained(S) /\ HasLast(S) /\ \A q \in x.new : q.body[3] = x.writes
  BY RunningIs
<1>3. PICK p \in Programs : \E k \in 0 .. Len(p) : Issued(x, rows, p, k)
  BY <1>1, RunningIs
<1>4. PICK k \in 0 .. Len(p) : Issued(x, rows, p, k)
  BY <1>3
<1>5. x.prev = {l}
  BY <1>1, <1>4, BeforeAppending
<1>6. (CHOOSE q \in x.prev : TRUE) = l
  BY <1>5
<1>7. /\ Chained(S \cup {r}) /\ HasLast(S \cup {r})
      /\ \A q \in S : q.sequence # r.sequence
      /\ r.body = Body(t)
  <2> DEFINE b == Body(t)
  <2>1. Follows(r, S, b) /\ Chained(S) /\ HasLast(S)
    BY <1>2 DEF Follows
  <2> HIDE DEF S, r, b
  <2>2. /\ Chained(S \cup {r}) /\ HasLast(S \cup {r})
        /\ \A q \in S : q.sequence # r.sequence
        /\ r.body = b
    BY <2>1, ChainExtended
  <2> QED
    BY <2>2 DEF b
<1>8. Proceed(t, n) /\ clash' = clash
  <2>1. {q \in rows : q.sequence = r.sequence} = {}
    BY <1>7
  <2> QED
    BY <1>6, <2>1 DEF Insert
<1>9. r.body[3] = x.writes
  <2>1. Body(t)[3] = x.writes
    BY DEF Body
  <2> QED
    BY <1>7, <2>1
<1>10. Shaped(x)
  BY RunningIs
<1> HIDE DEF x, c, S, l, r
<1>11. /\ IsFiniteSet(v) /\ Cardinality(v) = Cardinality(x.new) + 1
       /\ rows \cup v = S \cup {r} /\ \A q \in v : q.body[3] = x.writes
  <2>1. r \notin x.new
    BY <1>7 DEF S
  <2> QED
    BY <1>2, <1>9, <2>1, FS_AddElement DEF S
<1> HIDE DEF v
<1>12. /\ n.phase = x.phase /\ n.left = x.left /\ n.held = x.held /\ n.prev = x.prev
       /\ n.new = v /\ n.writes = x.writes /\ Shaped(n)
  BY <1>10, SMTT(30) DEF Shaped
<1> HIDE DEF n
<1>13. Does(c, x, n, rows)
  BY <1>1, <1>11, <1>12 DEF Does
<1>14. Chained(rows \cup n.new) /\ HasLast(rows \cup n.new)
  BY <1>7, <1>11, <1>12
<1>15. IsFiniteSet(n.new) /\ \A q \in n.new : q.body[3] = n.writes
  BY <1>11, <1>12
<1> QED
  BY <1>1, <1>8, <1>12, <1>13, <1>14, <1>15, RunningIs, Proceeded DEF x, c
-----------------------------------------------------------------------------
(* Commit                                                                  *)

(* The rows that say what was written.                                     *)
Telling(S, w) == {r \in S : w \in r.body[3]}

(* What a commit makes durable is disturbed by no other transaction, and   *)
(* disturbs none: whoever has appended, or is about to, holds the mission  *)
(* row, and whoever has written the authorization or the intent holds the  *)
(* row or the key.                                                         *)
LEMMA OthersSound ==
    ASSUME LedgerInv, NEW t \in Txns, Commit(t), NEW u \in Txns, u # t
    PROVE  Sound(tx[u], rows', auth', exists')
<1> DEFINE x == tx[t]
           z == tx[u]
<1>1. /\ x.phase = "running" /\ rows' = rows \cup x.new
      /\ exists' = (exists \/ "intent" \in x.writes)
      /\ auth' = IF "CONSUMED" \in x.writes THEN "CONSUMED"
                 ELSE IF "DEMOTED" \in x.writes THEN "DEMOTED" ELSE auth
  BY DEF Commit, Running
<1>2. Sound(x, rows, auth, exists) /\ Sound(z, rows, auth, exists)
  BY DEF LedgerInv
<1>3. \A g \in x.held, h \in z.held : g[1] = h[1] => ~conflicts(g[2], h[2])
  BY DEF LedgerInv, Exclusive
<1> HIDE DEF x, z
<1>4. Chained(rows') /\ HasLast(rows')
  BY <1>1, <1>2 DEF Sound
<1>5. CASE z.phase # "running"
  <2>1. z.held = {} /\ z.new = {} /\ z.writes = {} /\ IsFiniteSet(z.new)
    BY <1>2, <1>5 DEF Sound
  <2>2. rows' \cup z.new = rows'
    BY <2>1
  <2> QED
    BY <1>4, <1>5, <2>1, <2>2 DEF Sound, z
<1>6. CASE z.phase = "running"
  <2>1. PICK q \in Programs : \E j \in 0 .. Len(q) : Issued(z, rows, q, j)
    BY <1>2, <1>6 DEF Sound
  <2>2. PICK j \in 0 .. Len(q) : Issued(z, rows, q, j)
    BY <2>1
  <2>3. PICK p \in Programs : \E k \in 0 .. Len(p) : Issued(x, rows, p, k)
    BY <1>1, <1>2 DEF Sound
  <2>4. PICK k \in 0 .. Len(p) : Issued(x, rows, p, k)
    BY <2>3
  <2>5. IsFiniteSet(z.new) /\ IsFiniteSet(x.new)
    BY <1>2 DEF Sound
  <2>6. /\ x.new # {} => <<"mission", "UPDATE">> \in x.held
        /\ "CONSUMED" \in x.writes \/ "DEMOTED" \in x.writes =>
              <<"authorization", "NO KEY UPDATE">> \in x.held
        /\ "intent" \in x.writes => <<"idempotency_key", "UPDATE">> \in x.held
    BY <2>4, <2>5, LocksHeld
  <2>7. /\ z.new # {} => <<"mission", "UPDATE">> \in z.held
        /\ j > 0 /\ q[j].op = "last" => <<"mission", "UPDATE">> \in z.held
        /\ "CONSUMED" \in z.writes \/ "DEMOTED" \in z.writes =>
              <<"authorization", "NO KEY UPDATE">> \in z.held
        /\ "intent" \in z.writes => <<"idempotency_key", "UPDATE">> \in z.held
    BY <2>2, <2>5, LocksHeld
  <2>8. \A row, mode : <<row, mode>> \in x.held /\ <<row, mode>> \in z.held
                       => ~conflicts(mode, mode)
    BY <1>3
  <2>9. conflicts("UPDATE", "UPDATE") /\ conflicts("NO KEY UPDATE", "NO KEY UPDATE")
    BY DEF conflicts
  <2>10. x.new = {} \/ (z.new = {} /\ ~(j > 0 /\ q[j].op = "last"))
    BY <2>6, <2>7, <2>8, <2>9
  <2>11. "CONSUMED" \in z.writes \/ "DEMOTED" \in z.writes => auth' = "ACTIVE"
    <3>1. "CONSUMED" \in z.writes \/ "DEMOTED" \in z.writes => auth = "ACTIVE"
      BY <1>2 DEF Sound
    <3>2. "CONSUMED" \in z.writes \/ "DEMOTED" \in z.writes =>
             "CONSUMED" \notin x.writes /\ "DEMOTED" \notin x.writes
      BY <2>6, <2>7, <2>8, <2>9
    <3> QED
      BY <1>1, <3>1, <3>2
  <2>12. "intent" \in z.writes => ~exists'
    <3>1. "intent" \in z.writes => ~exists
      BY <1>2 DEF Sound
    <3>2. "intent" \in z.writes => "intent" \notin x.writes
      BY <2>6, <2>7, <2>8, <2>9
    <3> QED
      BY <1>1, <3>1, <3>2
  <2>13. Chained(rows' \cup z.new) /\ HasLast(rows' \cup z.new)
    <3>1. CASE x.new = {}
      <4>1. rows' = rows
        BY <1>1, <3>1
      <4> QED
        BY <1>2, <4>1 DEF Sound
    <3>2. CASE z.new = {}
      <4>1. rows' \cup z.new = rows'
        BY <3>2
      <4> QED
        BY <1>4, <4>1
    <3> QED
      BY <2>10, <3>1, <3>2
  <2>14. Issued(z, rows', q, j)
    <3>1. CASE x.new = {}
      <4>1. rows' = rows
        BY <1>1, <3>1
      <4> QED
        BY <2>2, <4>1
    <3>2. CASE ~(j > 0 /\ q[j].op = "last")
      BY <2>2, <3>2 DEF Issued
    <3> QED
      BY <2>10, <3>1, <3>2
  <2>15. \A r \in z.new : r.body[3] = z.writes
    BY <1>2 DEF Sound
  <2>16. \E pp \in Programs : \E kk \in 0 .. Len(pp) : Issued(z, rows', pp, kk)
    BY <2>14
  <2>17. Sound(z, rows', auth', exists')
    BY <1>6, <2>5, <2>11, <2>12, <2>13, <2>15, <2>16 DEF Sound
  <2> QED
    BY <2>17 DEF z
<1> QED
  BY <1>5, <1>6

(* What the ledger tells of the rows, with the sets named.                 *)
LEMMA TellsIs ==
    LedgerTellsRows <=>
       /\ Cardinality(Telling(rows, "CONSUMED")) = IF auth = "CONSUMED" THEN 3 ELSE 0
       /\ Cardinality(Telling(rows, "DEMOTED")) = IF auth = "DEMOTED" THEN 1 ELSE 0
       /\ exists = (auth = "CONSUMED")
BY DEF LedgerTellsRows, Telling

(* The events of a payment or of a demotion are committed with the row.    *)
LEMMA CommitTells ==
    ASSUME LedgerInv, NEW t \in Txns, Commit(t)
    PROVE  LedgerTellsRows'
<1> DEFINE x == tx[t]
           C == Telling(rows, "CONSUMED")
           D == Telling(rows, "DEMOTED")
<1>1. /\ x.phase = "running" /\ x.left = <<>> /\ rows' = rows \cup x.new
      /\ exists' = (exists \/ "intent" \in x.writes)
      /\ auth' = IF "CONSUMED" \in x.writes THEN "CONSUMED"
                 ELSE IF "DEMOTED" \in x.writes THEN "DEMOTED" ELSE auth
  BY DEF Commit, Running
<1>2. /\ Cardinality(C) = IF auth = "CONSUMED" THEN 3 ELSE 0
      /\ Cardinality(D) = IF auth = "DEMOTED" THEN 1 ELSE 0
      /\ exists = (auth = "CONSUMED")
  BY TellsIs DEF LedgerInv
<1>3. /\ \A r \in x.new : r.body[3] = x.writes
      /\ "CONSUMED" \in x.writes \/ "DEMOTED" \in x.writes => auth = "ACTIVE"
  BY RunningIs
<1>4. PICK p \in Programs : \E k \in 0 .. Len(p) : Issued(x, rows, p, k)
  BY <1>1, RunningIs
<1>5. PICK k \in 0 .. Len(p) : Issued(x, rows, p, k)
  BY <1>4
<1>6. /\ "intent" \in x.writes <=> "CONSUMED" \in x.writes
      /\ "CONSUMED" \in x.writes =>
            "DEMOTED" \notin x.writes /\ Cardinality(x.new) = 3
      /\ "DEMOTED" \in x.writes => Cardinality(x.new) = 1
  BY <1>1, <1>5, AllIssued
<1>7. IsFiniteSet(C) /\ IsFiniteSet(D)
  <2>1. IsFiniteSet(rows) /\ C \subseteq rows /\ D \subseteq rows
    BY DEF LedgerInv, Telling
  <2> QED
    BY <2>1, FS_Subset
<1>8. (Cardinality(C) = 0 => C = {}) /\ (Cardinality(D) = 0 => D = {})
  BY <1>7, FS_EmptySet
<1> SUFFICES /\ Cardinality(Telling(rows', "CONSUMED"))
                  = IF auth' = "CONSUMED" THEN 3 ELSE 0
             /\ Cardinality(Telling(rows', "DEMOTED")) = IF auth' = "DEMOTED" THEN 1 ELSE 0
             /\ exists' = (auth' = "CONSUMED")
  BY DEF LedgerTellsRows, Telling
<1> HIDE DEF x, C, D
<1>9. CASE "CONSUMED" \in x.writes
  <2>1. /\ auth = "ACTIVE" /\ auth' = "CONSUMED" /\ "DEMOTED" \notin x.writes
        /\ Cardinality(x.new) = 3
    BY <1>1, <1>2, <1>3, <1>6, <1>9
  <2>2. C = {} /\ Cardinality(D) = 0
    BY <1>2, <1>8, <2>1
  <2>3. Telling(rows', "CONSUMED") = x.new /\ Telling(rows', "DEMOTED") = D
    BY <1>1, <1>3, <1>9, <2>1, <2>2 DEF C, D, Telling
  <2>4. exists' = TRUE
    BY <1>1, <1>6, <1>9
  <2> QED
    BY <2>1, <2>2, <2>3, <2>4
<1>10. CASE "DEMOTED" \in x.writes
  <2>1. /\ auth = "ACTIVE" /\ auth' = "DEMOTED" /\ "CONSUMED" \notin x.writes
        /\ Cardinality(x.new) = 1
    BY <1>1, <1>2, <1>3, <1>6, <1>10
  <2>2. D = {} /\ Cardinality(C) = 0
    BY <1>2, <1>8, <2>1
  <2>3. Telling(rows', "DEMOTED") = x.new /\ Telling(rows', "CONSUMED") = C
    BY <1>1, <1>3, <1>10, <2>1, <2>2 DEF C, D, Telling
  <2>4. exists' = FALSE
    BY <1>1, <1>2, <1>6, <2>1
  <2> QED
    BY <2>1, <2>2, <2>3, <2>4
<1>11. CASE "CONSUMED" \notin x.writes /\ "DEMOTED" \notin x.writes
  <2>1. auth' = auth /\ "intent" \notin x.writes
    BY <1>1, <1>6, <1>11
  <2>2. Telling(rows', "DEMOTED") = D /\ Telling(rows', "CONSUMED") = C
    BY <1>1, <1>3, <1>11 DEF C, D, Telling
  <2>3. exists' = exists
    BY <1>1, <1>2, <2>1
  <2> QED
    BY <1>2, <2>1, <2>2, <2>3
<1> QED
  BY <1>9, <1>10, <1>11

(* A commit keeps the invariant.                                           *)
LEMMA CommitStep ==
    ASSUME LedgerInv, NEW t \in Txns, Commit(t)
    PROVE  LedgerInv'
<1> DEFINE x == tx[t]
           y == Ended("committed")
<1>1. /\ tx' = [tx EXCEPT ![t] = y] /\ rows' = rows \cup x.new /\ clash' = clash
      /\ exists' = (exists \/ "intent" \in x.writes)
      /\ auth' = IF "CONSUMED" \in x.writes THEN "CONSUMED"
                 ELSE IF "DEMOTED" \in x.writes THEN "DEMOTED" ELSE auth
  BY DEF Commit
<1>2. /\ Chained(rows') /\ HasLast(rows') /\ IsFiniteSet(x.new) /\ ~clash
  BY <1>1, RunningIs
<1>3. IsFiniteSet(rows')
  BY <1>1, <1>2, FS_Union DEF LedgerInv
<1>4. Shaped(y) /\ Sound(y, rows', auth', exists') /\ y.held = {} /\ y.writes = {}
  BY <1>2, EndedSound
<1> HIDE DEF y
<1>5. /\ tx'[t] = y /\ \A u \in Txns \ {t} : tx'[u] = tx[u]
      /\ tx' = [u \in Txns |-> tx'[u]]
  BY <1>1 DEF LedgerInv, Typed
<1>6. Typed'
  <2>1. \A u \in Txns : /\ Shaped(tx'[u])
                        /\ tx'[u].writes \subseteq {"intent", "CONSUMED", "DEMOTED"}
    BY <1>4, <1>5 DEF LedgerInv, Typed
  <2>2. auth' \in {"ACTIVE", "CONSUMED", "DEMOTED"} /\ exists' \in BOOLEAN
    BY <1>1 DEF LedgerInv, Typed
  <2> QED
    BY <1>5, <2>1, <2>2 DEF Typed
<1>7. Exclusive'
  <2> SUFFICES ASSUME NEW u \in Txns, NEW v \in Txns, u # v,
                      NEW g \in tx'[u].held, NEW h \in tx'[v].held, g[1] = h[1]
               PROVE  ~conflicts(g[2], h[2])
    BY DEF Exclusive
  <2>1. u # t /\ v # t
    BY <1>4, <1>5
  <2> QED
    BY <1>5, <2>1 DEF LedgerInv, Exclusive
<1>8. \A u \in Txns : Sound(tx'[u], rows', auth', exists')
  BY <1>4, <1>5, OthersSound
<1>9. LedgerTellsRows'
  BY CommitTells
<1> QED
  BY <1>1, <1>2, <1>3, <1>6, <1>7, <1>8, <1>9 DEF LedgerInv
-----------------------------------------------------------------------------
(* The invariant and what follows                                          *)

(* The mission's first event alone is a chain.                             *)
LEMMA FirstChained ==
    ASSUME NEW body, body[3] = {}, NEW r, r = FirstRow(0, body)
    PROVE  /\ Chained({r}) /\ HasLast({r})
           /\ \A w : Telling({r}, w) = {}
<1>1. /\ r.sequence = 0 /\ r.previous_hash = GENESIS_HASH /\ r.body = body
      /\ r.event_hash = compute_event_hash(0, body, GENESIS_HASH)
      /\ r.event_id = 0
  BY DEF FirstRow, AuditEventRow
<1>2. r.wellformed
  BY DEF FirstRow, AuditEventRow
<1>3. Row(r)
  BY DEF FirstRow, AuditEventRow, Row, Columns
<1>4. Chained({r})
  <2>1. r.event_hash = compute_event_hash(r.sequence, r.body, r.previous_hash)
    BY <1>1
  <2> QED
    BY <1>1, <1>2, <1>3, <2>1, SMTT(30) DEF Chained
<1>5. HasLast({r})
  BY <1>1, SMTT(30) DEF HasLast
<1> QED
  BY <1>1, <1>4, <1>5 DEF Telling

(* What an append to committed rows leaves told.                           *)
LEMMA AppendTells ==
    ASSUME NEW S, Chained(S), HasLast(S), IsFiniteSet(S), NEW body, NEW T,
           T = Extended(S, body)
    PROVE  /\ Chained(T) /\ HasLast(T) /\ IsFiniteSet(T)
           /\ \A w : IF w \in body[3]
                     THEN Cardinality(Telling(T, w)) = Cardinality(Telling(S, w)) + 1
                     ELSE Cardinality(Telling(T, w)) = Cardinality(Telling(S, w))
<1>1. PICK r : Follows(r, S, body) /\ T = S \cup {r}
  BY DEF Extended, Follows
<1>2. /\ Chained(T) /\ HasLast(T) /\ r.body = body
      /\ \A s \in S : s.sequence # r.sequence
  BY <1>1, ChainExtended, SMTT(30)
<1>3. IsFiniteSet(T) /\ r \notin S
  BY <1>1, <1>2, FS_AddElement
<1>4. ASSUME NEW w, w \in body[3]
      PROVE  Cardinality(Telling(T, w)) = Cardinality(Telling(S, w)) + 1
  <2>1. /\ Telling(T, w) = Telling(S, w) \cup {r} /\ r \notin Telling(S, w)
        /\ Telling(S, w) \subseteq S
    BY <1>1, <1>2, <1>3, <1>4 DEF Telling
  <2>2. IsFiniteSet(Telling(S, w))
    BY <2>1, FS_Subset
  <2> QED
    BY <2>1, <2>2, FS_AddElement
<1>5. ASSUME NEW w, w \notin body[3]
      PROVE  Telling(T, w) = Telling(S, w)
  BY <1>1, <1>2, <1>5 DEF Telling
<1> QED
  BY <1>2, <1>3, <1>4, <1>5

(* The ledgers a mission may start with here: created only, or paid too.   *)
LEMMA CreatedTells ==
    /\ Chained(Created) /\ HasLast(Created) /\ IsFiniteSet(Created)
    /\ \A w : Cardinality(Telling(Created, w)) = 0
<1>1. PICK body, r : body[3] = {} /\ r = FirstRow(0, body) /\ Created = {r}
  <2> DEFINE b == <<"mission created", 1, {}>>
  <2>1. b[3] = {}
    OBVIOUS
  <2>2. Created = {FirstRow(0, b)}
    BY DEF Created
  <2> HIDE DEF b
  <2> QED
    BY <2>1, <2>2
<1>2. Chained(Created) /\ HasLast(Created) /\ \A w : Telling(Created, w) = {}
  BY <1>1, FirstChained
<1> QED
  BY <1>1, <1>2, FS_Singleton, FS_EmptySet

(* The ledger of a paid mission tells the payment in three events.         *)
LEMMA PaidTells ==
    /\ Chained(PaidFor) /\ HasLast(PaidFor) /\ IsFiniteSet(PaidFor)
    /\ Cardinality(Telling(PaidFor, "CONSUMED")) = 3
    /\ Cardinality(Telling(PaidFor, "DEMOTED")) = 0
<1> DEFINE body(k) == <<"payment created", k, {"intent", "CONSUMED"}>>
           b1 == body(1)
           b2 == body(2)
           b3 == body(3)
           S1 == Extended(Created, b1)
           S2 == Extended(S1, b2)
           S3 == Extended(S2, b3)
<1>1. PaidFor = S3
  BY DEF PaidFor
<1>2. /\ "CONSUMED" \in b1[3] /\ "CONSUMED" \in b2[3] /\ "CONSUMED" \in b3[3]
      /\ "DEMOTED" \notin b1[3] /\ "DEMOTED" \notin b2[3] /\ "DEMOTED" \notin b3[3]
  OBVIOUS
<1> HIDE DEF b1, b2, b3
<1>3. /\ Chained(S1) /\ HasLast(S1) /\ IsFiniteSet(S1)
      /\ Cardinality(Telling(S1, "CONSUMED")) = 1
      /\ Cardinality(Telling(S1, "DEMOTED")) = 0
  BY <1>2, CreatedTells, AppendTells, SMTT(30)
<1> HIDE DEF S1
<1>4. /\ Chained(S2) /\ HasLast(S2) /\ IsFiniteSet(S2)
      /\ Cardinality(Telling(S2, "CONSUMED")) = 2
      /\ Cardinality(Telling(S2, "DEMOTED")) = 0
  BY <1>2, <1>3, AppendTells, SMTT(30)
<1> HIDE DEF S2
<1>5. /\ Chained(S3) /\ HasLast(S3) /\ IsFiniteSet(S3)
      /\ Cardinality(Telling(S3, "CONSUMED")) = 3
      /\ Cardinality(Telling(S3, "DEMOTED")) = 0
  BY <1>2, <1>4, AppendTells, SMTT(30)
<1> QED
  BY <1>1, <1>5

(* A mission that was just created or paid satisfies the invariant.        *)
LEMMA InitLedger == Init => LedgerInv
<1> SUFFICES ASSUME Init PROVE LedgerInv
  OBVIOUS
<1>1. ~clash /\ tx = [t \in Txns |-> Idle] /\ \A t \in Txns : tx[t] = Idle
  BY DEF Init
<1>2. /\ Chained(rows) /\ HasLast(rows) /\ IsFiniteSet(rows)
      /\ LedgerTellsRows
      /\ auth \in {"ACTIVE", "CONSUMED", "DEMOTED"} /\ exists \in BOOLEAN
  <2>1. CASE rows = Created /\ auth = "ACTIVE" /\ exists = FALSE
    BY <2>1, CreatedTells, TellsIs
  <2>2. CASE rows = PaidFor /\ auth = "CONSUMED" /\ exists = TRUE
    BY <2>2, PaidTells, TellsIs
  <2> QED
    BY <2>1, <2>2 DEF Init
<1>3. Typed
  <2>1. tx = [t \in Txns |-> tx[t]]
    BY <1>1
  <2> QED
    BY <1>1, <1>2, <2>1, IdleShaped DEF Typed
<1>4. Exclusive
  BY <1>1, IdleShaped DEF Exclusive
<1>5. Sound(Idle, rows, auth, exists)
  <2>1. rows \cup {} = rows /\ IsFiniteSet({})
    BY FS_EmptySet
  <2> QED
    BY <1>2, <2>1, IdleShaped DEF Sound
<1> QED
  BY <1>1, <1>2, <1>3, <1>4, <1>5 DEF LedgerInv

(* Every statement, commit, crash and deadlock victim keeps the invariant. *)
LEMMA NextLedger == LedgerInv /\ [Next]_vars => LedgerInv'
<1> SUFFICES ASSUME LedgerInv, [Next]_vars PROVE LedgerInv'
  OBVIOUS
<1>1. ASSUME NEW t \in Txns, Begin(t) PROVE LedgerInv'
  BY <1>1, BeginStep
<1>2. ASSUME NEW t \in Txns, Step(t) PROVE LedgerInv'
  <2>1. CASE Lock(t)
    BY <2>1, LockStep
  <2>2. CASE InsertIntent(t)
    BY <2>2, InsertIntentStep
  <2>3. CASE Consume(t)
    BY <2>3, ConsumeStep
  <2>4. CASE Demote(t)
    BY <2>4, DemoteStep
  <2>5. CASE LastEvent(t)
    BY <2>5, LastEventStep
  <2>6. CASE Insert(t)
    BY <2>6, InsertStep
  <2>7. CASE Commit(t)
    BY <2>7, CommitStep
  <2> QED
    BY <1>2, <2>1, <2>2, <2>3, <2>4, <2>5, <2>6, <2>7 DEF Step
<1>3. ASSUME NEW t \in Txns, Crash(t) PROVE LedgerInv'
  BY <1>3, EndedStep DEF Crash
<1>4. ASSUME NEW t \in Txns, DeadlockVictim(t) PROVE LedgerInv'
  BY <1>4, EndedStep DEF DeadlockVictim
<1>5. CASE UNCHANGED vars
  BY <1>5 DEF vars, LedgerInv, Typed, Exclusive, LedgerTellsRows
<1> QED
  BY <1>1, <1>2, <1>3, <1>4, <1>5 DEF Next, Act, Done

(* However many handlers append to a mission's ledger at a time.           *)
LEMMA LedgerInvariant == Spec => []LedgerInv
BY InitLedger, NextLedger, PTL DEF Spec

(* The ledger and the rows it narrates change together, whichever handlers *)
(* run, crash or are deadlock victims: an authorization is consumed        *)
(* exactly when the ledger holds all three events of its payment           *)
(* (create_payment_intent), and demoted exactly when it holds the          *)
(* demotion.                                                               *)
THEOREM LedgerAndRowsAgree == Spec => []LedgerTellsRows
<1>1. LedgerInv => LedgerTellsRows
  BY DEF LedgerInv
<1> QED
  BY <1>1, LedgerInvariant, PTL

(* The committed ledger is always one chain: no two events share a         *)
(* sequence number, none is missing before another, and each commits to    *)
(* its own content and to the hash of the one before it (append_event).    *)
THEOREM LedgerIsOneChain == Spec => []Chained(rows)
<1>1. LedgerInv => Chained(rows)
  BY DEF LedgerInv
<1> QED
  BY <1>1, LedgerInvariant, PTL
-----------------------------------------------------------------------------
(* Who waits for whom                                                      *)

Settlers == Dispatches \cup Webhooks \cup Notes

Whole == <<"mission", "UPDATE">>

(* The intent's row is locked by a program's first statement or never.     *)
IntentFirst(p) == \A i \in 1 .. Len(p) : p[i].row = "intent" => i = 1

(* Of the rows these programs lock, and the rows h they hold already, the  *)
(* mission's comes after the intent's, and first in the mode that excludes *)
(* every other.                                                            *)
Settling(p, h) ==
    \A i \in 1 .. Len(p) : p[i].op = "lock" =>
        \/ p[i].row = "intent"
        \/ /\ p[i].row = "mission"
           /\ \/ p[i].mode = "UPDATE" \/ Whole \in h
              \/ \E j \in 1 .. (i - 1) : p[j] = lock("mission", "UPDATE")

(* A transaction with record x that has the intent's row still to lock     *)
(* holds nothing, so that nobody waits for it; and a settlement, delivery  *)
(* or note holds the mission's row in whole or not at all.                 *)
Queued(t, x) ==
    /\ x.left \in Seq(Statement) /\ IntentFirst(x.left)
    /\ \A i \in 1 .. Len(x.left) : x.left[i].row = "intent" => x.held = {}
    /\ t \in Settlers =>
          /\ Settling(x.left, x.held)
          /\ \A h \in x.held : h[1] = "intent" \/ (h[1] = "mission" /\ Whole \in x.held)

QueueInv == \A t \in Txns : Queued(t, tx[t])

(* Statements after statements: where the intent's row is not locked.      *)
LEMMA JoinIntent ==
    ASSUME NEW p \in Seq(Statement), NEW q \in Seq(Statement), IntentFirst(p),
           \A i \in 1 .. Len(q) : q[i].row # "intent"
    PROVE  p \o q \in Seq(Statement) /\ IntentFirst(p \o q)
<1>1. /\ p \o q \in Seq(Statement) /\ Len(p \o q) = Len(p) + Len(q)
      /\ \A i \in 1 .. Len(p) : (p \o q)[i] = p[i]
      /\ \A i \in (Len(p) + 1) .. (Len(p) + Len(q)) : (p \o q)[i] = q[i - Len(p)]
  BY SMTT(30)
<1> DEFINE r == p \o q
<1> HIDE DEF r
<1>2. ASSUME NEW i \in 1 .. Len(r), r[i].row = "intent" PROVE i = 1
  <2>1. CASE i \in 1 .. Len(p)
    BY <1>1, <1>2, <2>1 DEF IntentFirst, r
  <2>2. CASE i \in (Len(p) + 1) .. (Len(p) + Len(q))
    <3>1. i - Len(p) \in 1 .. Len(q) /\ r[i] = q[i - Len(p)]
      BY <1>1, <2>2, SMTT(30) DEF r
    <3> QED
      BY <1>2, <3>1
  <2> QED
    BY <1>1, <2>1, <2>2, SMTT(30) DEF r
<1> QED
  BY <1>1, <1>2 DEF IntentFirst, r

(* Statements after statements of which one locks the mission's row whole. *)
LEMMA JoinSettling ==
    ASSUME NEW p \in Seq(Statement), NEW q \in Seq(Statement), Settling(p, {}),
           \/ Settling(q, {})
           \/ /\ \E j \in 1 .. Len(p) : p[j] = lock("mission", "UPDATE")
              /\ Settling(q, {Whole})
    PROVE  Settling(p \o q, {})
<1> DEFINE r == p \o q
           l == lock("mission", "UPDATE")
<1>1. /\ Len(r) = Len(p) + Len(q)
      /\ \A i \in 1 .. Len(p) : r[i] = p[i]
      /\ \A i \in (Len(p) + 1) .. (Len(p) + Len(q)) : r[i] = q[i - Len(p)]
  BY SMTT(30)
<1> HIDE DEF r, l
<1> SUFFICES ASSUME NEW i \in 1 .. Len(r), r[i].op = "lock", r[i].row # "intent"
             PROVE  /\ r[i].row = "mission"
                    /\ r[i].mode = "UPDATE" \/ \E j \in 1 .. (i - 1) : r[j] = l
  BY DEF Settling, r, l
<1>2. CASE i \in 1 .. Len(p)
  <2>1. /\ p[i].row = "mission"
        /\ p[i].mode = "UPDATE" \/ \E j \in 1 .. (i - 1) : p[j] = l
    BY <1>1, <1>2 DEF Settling, l
  <2>2. ASSUME NEW j \in 1 .. (i - 1), p[j] = l PROVE j \in 1 .. Len(p) /\ r[j] = l
    BY <1>1, <1>2, <2>2, SMTT(30)
  <2> QED
    BY <1>1, <1>2, <2>1, <2>2
<1>3. CASE i \in (Len(p) + 1) .. (Len(p) + Len(q))
  <2> DEFINE k == i - Len(p)
  <2>1. k \in 1 .. Len(q) /\ r[i] = q[k]
    BY <1>1, <1>3, SMTT(30)
  <2>2. CASE Settling(q, {})
    <3>1. /\ q[k].row = "mission"
          /\ q[k].mode = "UPDATE" \/ \E j \in 1 .. (k - 1) : q[j] = l
      BY <2>1, <2>2 DEF Settling, l
    <3>2. ASSUME NEW j \in 1 .. (k - 1), q[j] = l
          PROVE  \E m \in 1 .. (i - 1) : r[m] = l
      <4> DEFINE m == j + Len(p)
      <4>1. /\ m \in 1 .. (i - 1) /\ m \in (Len(p) + 1) .. (Len(p) + Len(q))
            /\ m - Len(p) = j
        BY <2>1, <3>2, SMTT(30)
      <4> QED
        BY <1>1, <3>2, <4>1
    <3> QED
      BY <2>1, <3>1, <3>2
  <2>3. CASE (\E j \in 1 .. Len(p) : p[j] = l) /\ Settling(q, {Whole})
    <3>1. q[k].row = "mission"
      BY <2>1, <2>3 DEF Settling
    <3>2. \A j \in 1 .. Len(p) : j \in 1 .. (i - 1) /\ r[j] = p[j]
      BY <1>1, <1>3, SMTT(30)
    <3> QED
      BY <2>1, <2>3, <3>1, <3>2
  <2> QED
    BY <2>2, <2>3 DEF l
<1> QED
  BY <1>1, <1>2, <1>3, SMTT(30)

(* The rows the statements are about.                                      *)
LEMMA Targets ==
    /\ lock("mission", "UPDATE").row = "mission" /\ lock("mission", "UPDATE").mode = "UPDATE"
    /\ lock("mission", "KEY SHARE").row = "mission"
    /\ lock("authorization", "KEY SHARE").row = "authorization"
    /\ lock("authorization", "NO KEY UPDATE").row = "authorization"
    /\ lock("idempotency_key", "UPDATE").row = "idempotency_key"
    /\ \A o : Do(o).row = "mission"
BY DEF lock, Do

(* The first of the statements after others.                               *)
LEMMA JoinFinds ==
    ASSUME NEW p \in Seq(Statement), NEW q \in Seq(Statement), NEW l, q # <<>>, q[1] = l
    PROVE  \E j \in 1 .. Len(p \o q) : (p \o q)[j] = l
<1> DEFINE m == Len(p) + 1
<1>1. m \in 1 .. Len(p \o q) /\ (p \o q)[m] = q[1]
  BY SMTT(30)
<1> QED
  BY <1>1

(* The programs lock the intent's row first, if at all, and those of       *)
(* settlements, deliveries and notes lock the mission's row after it.      *)
LEMMA ProgramsQueue ==
    /\ \A p \in Programs : p \in Seq(Statement) /\ IntentFirst(p)
    /\ \A p \in {append_event, apply_provider_payment, handle_webhook} : Settling(p, {})
<1> DEFINE a == append_event
           i == <<lock("intent", "UPDATE")>>
           k == <<lock("idempotency_key", "UPDATE"), Do("insert intent"),
                  lock("mission", "KEY SHARE"), lock("authorization", "KEY SHARE"),
                  lock("authorization", "NO KEY UPDATE"), Do("consume")>>
           d == <<lock("authorization", "NO KEY UPDATE"), Do("demote")>>
           n == <<lock("mission", "NO KEY UPDATE")>>
<1>1. /\ a \in Seq(Statement) /\ Len(a) = 3 /\ a[1] = lock("mission", "UPDATE")
      /\ a[1].row = "mission" /\ a[1].mode = "UPDATE" /\ a[2].row = "mission"
      /\ a[3].row = "mission" /\ a[2].op = "last" /\ a[3].op = "insert"
  <2>1. a \in Seq(Statement) /\ Len(a) = 3
    BY SMTT(30) DEF append_event, lock, Do, Statement, Writes
  <2>2. a[1] = lock("mission", "UPDATE") /\ a[2] = Do("last") /\ a[3] = Do("insert")
    BY DEF append_event
  <2> HIDE DEF a
  <2> QED
    BY <2>1, <2>2, Operations, Targets
<1>2. i \in Seq(Statement) /\ Len(i) = 1 /\ i[1].row = "intent"
  BY SMTT(30) DEF lock, Statement, Writes
<1>3. /\ k \in Seq(Statement) /\ Len(k) = 6 /\ \A j \in 1 .. 6 : k[j].row # "intent"
  <2>1. k \in Seq(Statement) /\ Len(k) = 6
    BY SMTT(30) DEF lock, Do, Statement, Writes
  <2>2. /\ k[1] = lock("idempotency_key", "UPDATE") /\ k[2] = Do("insert intent")
        /\ k[3] = lock("mission", "KEY SHARE") /\ k[4] = lock("authorization", "KEY SHARE")
        /\ k[5] = lock("authorization", "NO KEY UPDATE") /\ k[6] = Do("consume")
    OBVIOUS
  <2>3. \A j \in 1 .. 6 : j = 1 \/ j = 2 \/ j = 3 \/ j = 4 \/ j = 5 \/ j = 6
    BY SMTT(30)
  <2> HIDE DEF k
  <2> QED
    BY <2>1, <2>2, <2>3, Targets
<1>4. /\ d \in Seq(Statement) /\ Len(d) = 2 /\ \A j \in 1 .. 2 : d[j].row # "intent"
  <2>1. d \in Seq(Statement) /\ Len(d) = 2
    BY SMTT(30) DEF lock, Do, Statement, Writes
  <2>2. d[1] = lock("authorization", "NO KEY UPDATE") /\ d[2] = Do("demote")
    OBVIOUS
  <2>3. \A j \in 1 .. 2 : j = 1 \/ j = 2
    BY SMTT(30)
  <2> HIDE DEF d
  <2> QED
    BY <2>1, <2>2, <2>3, Targets
<1>5. /\ n \in Seq(Statement) /\ Len(n) = 1 /\ n[1].row = "mission"
  <2> DEFINE c == lock("mission", "NO KEY UPDATE")
  <2>1. c \in Statement /\ c.row = "mission" /\ n = <<c>>
    BY DEF lock, Statement, Writes
  <2> HIDE DEF c, n
  <2> QED
    BY <2>1, SMTT(30)
<1>6. /\ create_payment_intent = (((k \o a) \o a) \o a) \o n
      /\ demote_authorization = d \o a
      /\ apply_provider_payment = (i \o a) \o n
      /\ handle_webhook = ((i \o a) \o a) \o n
  BY DEF create_payment_intent, demote_authorization, apply_provider_payment, handle_webhook
<1> HIDE DEF a, i, k, d, n
<1>7. /\ \A j \in 1 .. Len(a) : a[j].row # "intent"
      /\ \A j \in 1 .. Len(n) : n[j].row # "intent"
  BY <1>1, <1>5, SMTT(30)
<1>8. IntentFirst(a) /\ IntentFirst(i) /\ IntentFirst(k) /\ IntentFirst(d)
  BY <1>1, <1>2, <1>3, <1>4, SMTT(30) DEF IntentFirst
<1>9. /\ i \o a \in Seq(Statement) /\ IntentFirst(i \o a)
      /\ k \o a \in Seq(Statement) /\ IntentFirst(k \o a)
      /\ d \o a \in Seq(Statement) /\ IntentFirst(d \o a)
  BY <1>1, <1>2, <1>3, <1>4, <1>7, <1>8, JoinIntent
<1>10. /\ (i \o a) \o a \in Seq(Statement) /\ IntentFirst((i \o a) \o a)
       /\ (k \o a) \o a \in Seq(Statement) /\ IntentFirst((k \o a) \o a)
  BY <1>1, <1>7, <1>9, JoinIntent
<1>11. /\ ((k \o a) \o a) \o a \in Seq(Statement) /\ IntentFirst(((k \o a) \o a) \o a)
  BY <1>1, <1>7, <1>10, JoinIntent
<1>12. /\ create_payment_intent \in Seq(Statement) /\ IntentFirst(create_payment_intent)
       /\ apply_provider_payment \in Seq(Statement) /\ IntentFirst(apply_provider_payment)
       /\ handle_webhook \in Seq(Statement) /\ IntentFirst(handle_webhook)
       /\ demote_authorization \in Seq(Statement) /\ IntentFirst(demote_authorization)
  BY <1>5, <1>6, <1>7, <1>9, <1>10, <1>11, JoinIntent
<1>13. Settling(a, {}) /\ Settling(i, {}) /\ Settling(n, {Whole})
  BY <1>1, <1>2, <1>5, SMTT(30) DEF Settling
<1>14. Settling(i \o a, {}) /\ Settling((i \o a) \o a, {})
  BY <1>1, <1>2, <1>9, <1>13, JoinSettling
<1>15. /\ \E j \in 1 .. Len(i \o a) : (i \o a)[j] = lock("mission", "UPDATE")
       /\ \E j \in 1 .. Len((i \o a) \o a) : ((i \o a) \o a)[j] = lock("mission", "UPDATE")
  <2> DEFINE l == lock("mission", "UPDATE")
  <2>1. a # <<>> /\ a[1] = l /\ a \in Seq(Statement)
    BY <1>1, SMTT(30)
  <2> HIDE DEF l
  <2>2. ASSUME NEW c \in Seq(Statement)
        PROVE  \E j \in 1 .. Len(c \o a) : (c \o a)[j] = l
    BY <2>1, JoinFinds, SMTT(30)
  <2> QED
    BY <1>2, <1>9, <2>2 DEF l
<1>16. Settling((i \o a) \o n, {}) /\ Settling(((i \o a) \o a) \o n, {})
  BY <1>2, <1>5, <1>9, <1>10, <1>13, <1>14, <1>15, JoinSettling
<1> QED
  BY <1>1, <1>6, <1>8, <1>12, <1>13, <1>16 DEF Programs, a

(* A transaction that holds nothing and has nothing issued, or nothing     *)
(* left to issue.                                                          *)
LEMMA QueuedAnew ==
    ASSUME NEW t, NEW y, y.held = {}, y.left = <<>> \/ y.left \in Programs,
           t \in Settlers /\ y.left # <<>> => Settling(y.left, {})
    PROVE  Queued(t, y)
<1>1. CASE y.left = <<>>
  <2>1. y.left \in Seq(Statement) /\ \A i \in 1 .. Len(y.left) : FALSE
    BY <1>1, SMTT(30)
  <2> QED
    BY <2>1 DEF Queued, IntentFirst, Settling
<1>2. CASE y.left # <<>>
  BY <1>2, ProgramsQueue DEF Queued
<1> QED
  BY <1>1, <1>2

(* A transaction's next statement is done; if it is a lock, it is held.    *)
LEMMA QueuedNext ==
    ASSUME NEW t, NEW x, NEW y, Queued(t, x), x.left # <<>>, y.left = Tail(x.left),
           y.held = IF Head(x.left).op = "lock"
                    THEN x.held \cup {<<Head(x.left).row, Head(x.left).mode>>} ELSE x.held
    PROVE  Queued(t, y)
<1> DEFINE p == x.left
           q == y.left
           c == Head(x.left)
           asked == <<c.row, c.mode>>
<1>1. /\ p \in Seq(Statement) /\ q \in Seq(Statement) /\ Len(q) = Len(p) - 1 /\ p[1] = c
      /\ \A i \in 1 .. Len(q) : i + 1 \in 1 .. Len(p) /\ q[i] = p[i + 1]
  BY SMTT(30) DEF Queued
<1>2. \A i \in 1 .. Len(q) : q[i].row # "intent"
  BY <1>1, SMTT(30) DEF Queued, IntentFirst
<1>3. asked[1] = c.row /\ asked[2] = c.mode
  OBVIOUS
<1>4. y.held = IF c.op = "lock" THEN x.held \cup {asked} ELSE x.held
  OBVIOUS
<1>held. x.held \subseteq y.held
  BY <1>4
<1>5. ASSUME t \in Settlers
      PROVE  /\ Settling(q, y.held)
             /\ \A h \in y.held : h[1] = "intent" \/ (h[1] = "mission" /\ Whole \in y.held)
  <2>1. /\ Settling(p, x.held)
        /\ \A h \in x.held : h[1] = "intent" \/ (h[1] = "mission" /\ Whole \in x.held)
    BY <1>5 DEF Queued
  <2>2. c.op = "lock" => \/ c.row = "intent"
                         \/ c.row = "mission" /\ (c.mode = "UPDATE" \/ Whole \in x.held)
    <3>1. 1 \in 1 .. Len(p) /\ \A j \in 1 .. (1 - 1) : FALSE
      BY <1>1, SMTT(30)
    <3> QED
      BY <1>1, <2>1, <3>1 DEF Settling
  <2>3. c = lock("mission", "UPDATE") => c.op = "lock" /\ asked = Whole
    BY SMTT(30) DEF lock, Whole
  <2>4. c.row = "mission" /\ c.mode = "UPDATE" => asked = Whole
    BY DEF Whole
  <2> DEFINE l == lock("mission", "UPDATE")
  <2> HIDE DEF p, q, c, asked, l
  <2>5. \A h \in y.held : h[1] = "intent" \/ (h[1] = "mission" /\ Whole \in y.held)
    <3> SUFFICES ASSUME NEW h \in y.held
                 PROVE  h[1] = "intent" \/ (h[1] = "mission" /\ Whole \in y.held)
      OBVIOUS
    <3>1. CASE h \in x.held
      BY <1>held, <2>1, <3>1
    <3>2. CASE h = asked /\ c.op = "lock"
      <4>1. h[1] = c.row /\ asked \in y.held
        BY <1>3, <1>4, <3>2
      <4> QED
        <5>1. CASE c.row = "intent"
          BY <4>1, <5>1
        <5>2. CASE c.row = "mission" /\ c.mode = "UPDATE"
          BY <2>4, <4>1, <5>2
        <5>3. CASE c.row = "mission" /\ Whole \in x.held
          BY <1>held, <4>1, <5>3
        <5> QED
          BY <2>2, <3>2, <5>1, <5>2, <5>3
    <3> QED
      BY <1>4, <3>1, <3>2
  <2>6. Settling(q, y.held)
    <3> SUFFICES ASSUME NEW i \in 1 .. Len(q), q[i].op = "lock", q[i].row # "intent"
                 PROVE  /\ q[i].row = "mission"
                        /\ \/ q[i].mode = "UPDATE" \/ Whole \in y.held
                           \/ \E j \in 1 .. (i - 1) : q[j] = l
      BY DEF Settling, l
    <3>1. /\ q[i].row = "mission"
          /\ \/ q[i].mode = "UPDATE" \/ Whole \in x.held
             \/ \E j \in 1 .. i : p[j] = l
      <4>1. i + 1 \in 1 .. Len(p) /\ q[i] = p[i + 1] /\ (i + 1) - 1 = i
        BY <1>1, SMTT(30)
      <4> QED
        BY <2>1, <4>1 DEF Settling, l
    <3>2. ASSUME NEW j \in 1 .. i, p[j] = l
          PROVE  Whole \in y.held \/ \E m \in 1 .. (i - 1) : q[m] = l
      <4>1. CASE j = 1
        BY <1>1, <1>4, <2>3, <3>2, <4>1 DEF l
      <4>2. CASE j > 1
        <5> DEFINE m == j - 1
        <5>1. m \in 1 .. (i - 1) /\ m \in 1 .. Len(q) /\ m + 1 = j
          BY <1>1, <4>2, SMTT(30)
        <5> QED
          BY <1>1, <3>2, <5>1
      <4> QED
        BY <4>1, <4>2, SMTT(30)
    <3> QED
      BY <1>held, <3>1, <3>2
  <2> QED
    BY <2>5, <2>6 DEF q
<1> QED
  BY <1>1, <1>2, <1>5 DEF Queued, IntentFirst

(* A step replaces one record.                                             *)
LEMMA QueueMoves ==
    ASSUME LedgerInv, QueueInv, NEW t \in Txns, NEW y, tx' = [tx EXCEPT ![t] = y],
           Queued(t, y)
    PROVE  QueueInv'
<1>1. tx'[t] = y /\ \A u \in Txns \ {t} : tx'[u] = tx[u]
  BY DEF LedgerInv, Typed
<1>2. ASSUME NEW u \in Txns PROVE Queued(u, tx'[u])
  <2>1. CASE u = t
    BY <1>1, <2>1
  <2>2. CASE u # t
    BY <1>1, <2>2 DEF QueueInv
  <2> QED
    BY <2>1, <2>2
<1> QED
  BY <1>2 DEF QueueInv, Queued, IntentFirst, Settling

(* A transaction that ends.                                                *)
LEMMA QueueEnds ==
    ASSUME LedgerInv, QueueInv, NEW t \in Txns, NEW f, tx' = [tx EXCEPT ![t] = Ended(f)]
    PROVE  QueueInv'
<1>1. Ended(f).held = {} /\ Ended(f).left = <<>>
  BY DEF Ended, Idle
<1>2. Queued(t, Ended(f))
  BY <1>1, QueuedAnew
<1> QED
  BY <1>2, QueueMoves

(* A transaction whose next statement has left its record as n.            *)
LEMMA QueueProceeds ==
    ASSUME LedgerInv, QueueInv, NEW t \in Txns, tx[t].left # <<>>, NEW n, Proceed(t, n),
           Shaped(n), n.left = tx[t].left,
           n.held = IF Head(tx[t].left).op = "lock"
                    THEN tx[t].held \cup {<<Head(tx[t].left).row, Head(tx[t].left).mode>>}
                    ELSE tx[t].held
    PROVE  QueueInv'
<1> DEFINE y == [n EXCEPT !.left = Tail(n.left)]
<1>1. y.left = Tail(n.left) /\ y.held = n.held
  BY DEF Shaped
<1>2. tx' = [tx EXCEPT ![t] = y]
  BY DEF Proceed
<1>3. Queued(t, tx[t])
  BY DEF QueueInv
<1> HIDE DEF y
<1>4. Queued(t, y)
  BY <1>1, <1>3, QueuedNext
<1> QED
  BY <1>2, <1>4, QueueMoves

(* The records the statements leave.                                       *)
LEMMA OneField ==
    ASSUME NEW x, Shaped(x), NEW v, NEW n,
           \/ n = [x EXCEPT !.writes = v]
           \/ n = [x EXCEPT !.prev = v]
           \/ n = [x EXCEPT !.new = v]
    PROVE  Shaped(n) /\ n.left = x.left /\ n.held = x.held
BY DEF Shaped

(* The record a granted lock leaves.                                       *)
LEMMA HeldField ==
    ASSUME NEW x, Shaped(x), NEW v
    PROVE  LET n == [x EXCEPT !.held = v]
           IN  Shaped(n) /\ n.left = x.left /\ n.held = v
BY SMTT(30) DEF Shaped

(* A statement that locks nothing.                                         *)
LEMMA QueueKept ==
    ASSUME LedgerInv, QueueInv, NEW t \in Txns, tx[t].left # <<>>,
           Head(tx[t].left).op # "lock", NEW n, NEW v, Proceed(t, n),
           \/ n = [tx[t] EXCEPT !.writes = v]
           \/ n = [tx[t] EXCEPT !.prev = v]
           \/ n = [tx[t] EXCEPT !.new = v]
    PROVE  QueueInv'
<1>1. Shaped(tx[t])
  BY RunningIs
<1>2. Shaped(n) /\ n.left = tx[t].left /\ n.held = tx[t].held
  BY <1>1, OneField, SMTT(30)
<1> QED
  BY <1>2, QueueProceeds

(* A transaction begins at the head of its program, and holds nothing.     *)
LEMMA QueueBegins ==
    ASSUME LedgerInv, QueueInv, NEW t \in Txns, Begin(t)
    PROVE  QueueInv'
<1> DEFINE p == Program(t)
           f == "running"
           x == Idle
           z == [x EXCEPT !.phase = f]
           y == [z EXCEPT !.left = p]
<1>1. tx' = [tx EXCEPT ![t] = y]
  BY DEF Begin
<1>2. p \in Programs
  BY DEF Program, Programs, Txns
<1>3. t \in Settlers => p \in {append_event, apply_provider_payment, handle_webhook}
  BY KindsApart DEF Program, Settlers
<1>4. y.left = p /\ y.held = {}
  <2>1. Shaped(x) /\ x.held = {}
    BY IdleShaped
  <2> HIDE DEF p, f, x
  <2>2. z.held = x.held /\ Shaped(z)
    BY <2>1, SMTT(30) DEF Shaped
  <2> HIDE DEF z
  <2> QED
    BY <2>1, <2>2 DEF Shaped
<1> HIDE DEF p, y
<1>5. t \in Settlers => Settling(p, {})
  BY <1>3, ProgramsQueue
<1>6. Queued(t, y)
  BY <1>2, <1>4, <1>5, QueuedAnew
<1> QED
  BY <1>1, <1>6, QueueMoves

(* A row lock is granted.                                                  *)
LEMMA QueueLocks ==
    ASSUME LedgerInv, QueueInv, NEW t \in Txns, Lock(t)
    PROVE  QueueInv'
<1> DEFINE x == tx[t]
           c == Head(x.left)
           v == x.held \cup {<<c.row, c.mode>>}
           n == [x EXCEPT !.held = v]
<1>1. x.left # <<>> /\ c.op = "lock" /\ Proceed(t, n)
  BY DEF Lock, Ready
<1>2. Shaped(x)
  BY RunningIs
<1>3. Shaped(n) /\ n.left = x.left /\ n.held = v
  <2> HIDE DEF x, v
  <2> QED
    BY <1>2, HeldField
<1> HIDE DEF n
<1> QED
  BY <1>1, <1>3, QueueProceeds

(* Whatever the transactions do, the order of their locks is kept.         *)
LEMMA NextQueue == LedgerInv /\ QueueInv /\ [Next]_vars => QueueInv'
<1> SUFFICES ASSUME LedgerInv, QueueInv, [Next]_vars PROVE QueueInv'
  OBVIOUS
<1>1. ASSUME NEW t \in Txns, Begin(t) PROVE QueueInv'
  BY <1>1, QueueBegins
<1>2. ASSUME NEW t \in Txns, Step(t) PROVE QueueInv'
  <2>1. CASE Lock(t)
    BY <2>1, QueueLocks
  <2>2. CASE InsertIntent(t)
    <3>1. tx[t].left # <<>> /\ Head(tx[t].left).op = "insert intent"
      BY <2>2 DEF InsertIntent, Ready
    <3>2. CASE exists
      <4> DEFINE x == tx[t]
                 q == append_event
                 none == {}
                 z == [x EXCEPT !.left = q]
                 y == [z EXCEPT !.held = none]
      <4>1. tx' = [tx EXCEPT ![t] = y]
        <5>1. tx' = [tx EXCEPT ![t].left = append_event, ![t].held = {}]
          BY <2>2, <3>2 DEF InsertIntent
        <5> QED
          BY <5>1 DEF LedgerInv, Typed
      <4>2. Shaped(x)
        BY RunningIs
      <4>3. y.left = q /\ y.held = none
        <5> HIDE DEF x, q, none
        <5>1. z.left = q /\ Shaped(z)
          BY <4>2, SMTT(30) DEF Shaped
        <5> HIDE DEF z
        <5> QED
          BY <5>1 DEF Shaped
      <4> HIDE DEF y
      <4>4. q \in Programs /\ Settling(q, {})
        BY ProgramsQueue DEF Programs
      <4>5. Queued(t, y)
        BY <4>3, <4>4, QueuedAnew
      <4> QED
        BY <4>1, <4>5, QueueMoves
    <3>3. CASE ~exists
      BY <2>2, <3>1, <3>3, QueueKept DEF InsertIntent
    <3> QED
      BY <3>2, <3>3
  <2>3. CASE Consume(t)
    <3>1. tx[t].left # <<>> /\ Head(tx[t].left).op = "consume"
      BY <2>3 DEF Consume, Ready
    <3>2. CASE auth = "ACTIVE"
      BY <2>3, <3>1, <3>2, QueueKept DEF Consume
    <3>3. CASE auth # "ACTIVE"
      BY <2>3, <3>3, QueueEnds DEF Consume
    <3> QED
      BY <3>2, <3>3
  <2>4. CASE Demote(t)
    <3>1. tx[t].left # <<>> /\ Head(tx[t].left).op = "demote"
      BY <2>4 DEF Demote, Ready
    <3>2. CASE auth = "ACTIVE"
      BY <2>4, <3>1, <3>2, QueueKept DEF Demote
    <3>3. CASE auth # "ACTIVE"
      BY <2>4, <3>3, QueueEnds DEF Demote
    <3> QED
      BY <3>2, <3>3
  <2>5. CASE LastEvent(t)
    <3>1. tx[t].left # <<>> /\ Head(tx[t].left).op = "last"
      BY <2>5 DEF LastEvent, Ready
    <3> QED
      BY <2>5, <3>1, QueueKept DEF LastEvent
  <2>6. CASE Insert(t)
    <3>1. tx[t].left # <<>> /\ Head(tx[t].left).op = "insert"
      BY <2>6 DEF Insert, Ready
    <3>2. \/ \E v : Proceed(t, [tx[t] EXCEPT !.new = v])
          \/ tx' = [tx EXCEPT ![t] = Ended("aborted")]
      BY <2>6 DEF Insert
    <3> QED
      BY <3>1, <3>2, QueueKept, QueueEnds
  <2>7. CASE Commit(t)
    BY <2>7, QueueEnds DEF Commit
  <2> QED
    BY <1>2, <2>1, <2>2, <2>3, <2>4, <2>5, <2>6, <2>7 DEF Step
<1>3. ASSUME NEW t \in Txns, Crash(t) PROVE QueueInv'
  BY <1>3, QueueEnds DEF Crash
<1>4. ASSUME NEW t \in Txns, DeadlockVictim(t) PROVE QueueInv'
  BY <1>4, QueueEnds DEF DeadlockVictim
<1>5. CASE UNCHANGED vars
  BY <1>5 DEF vars, QueueInv
<1> QED
  BY <1>1, <1>2, <1>3, <1>4, <1>5 DEF Next, Act, Done

(* Nothing waits before the first statement.                               *)
LEMMA InitQueue == Init => QueueInv
<1> SUFFICES ASSUME Init, NEW t \in Txns PROVE Queued(t, tx[t])
  BY DEF QueueInv
<1>1. tx[t].held = {} /\ tx[t].left = <<>>
  BY DEF Init, Idle
<1> QED
  BY <1>1, QueuedAnew

(* Who waits for a settlement, delivery or note that itself waits, waits   *)
(* for the intent's row, and so holds nothing.                             *)
LEMMA WaiterHoldsNothing ==
    ASSUME LedgerInv, QueueInv, NEW t \in Settlers, t \in Txns, Blockers(t) # {},
           NEW u \in Txns, t \in Blockers(u)
    PROVE  tx[u].held = {}
<1>1. Queued(t, tx[t]) /\ Queued(u, tx[u])
  BY DEF QueueInv
<1> DEFINE p == tx[t].left
           q == tx[u].left
<1>2. PICK h \in tx[t].held : q # <<>> /\ h[1] = Head(q).row /\ u # t
  BY DEF Blockers
<1>3. q \in Seq(Statement) /\ Head(q) = q[1] /\ 1 \in 1 .. Len(q)
  BY <1>1, <1>2, SMTT(30) DEF Queued
<1>4. h[1] = "intent" \/ (h[1] = "mission" /\ Whole \in tx[t].held)
  BY <1>1 DEF Queued
<1>5. CASE h[1] = "intent"
  BY <1>1, <1>2, <1>3, <1>5 DEF Queued
<1>6. CASE Whole \in tx[t].held
  <2>1. PICK v \in Txns \ {t} : /\ p # <<>> /\ Head(p).op = "lock"
                                /\ \E g \in tx[v].held : g[1] = Head(p).row
    BY DEF Blockers
  <2>2. PICK g \in tx[v].held : g[1] = Head(p).row
    BY <2>1
  <2>3. p \in Seq(Statement) /\ Head(p) = p[1] /\ 1 \in 1 .. Len(p)
    BY <1>1, <2>1, SMTT(30) DEF Queued
  <2>4. p[1].row # "intent"
    BY <1>1, <1>6, <2>3 DEF Queued
  <2>5. p[1].row = "mission"
    BY <1>1, <2>1, <2>3, <2>4 DEF Queued, Settling
  <2>6. Whole[1] = "mission" /\ Whole[2] = "UPDATE"
    BY DEF Whole
  <2>7. ~conflicts(Whole[2], g[2])
    BY <1>6, <2>1, <2>2, <2>3, <2>5, <2>6 DEF LedgerInv, Exclusive
  <2> QED
    BY <2>6, <2>7 DEF conflicts
<1> QED
  BY <1>4, <1>5, <1>6

(* So none of these is ever in a cycle of waiters.                         *)
LEMMA SettlersNeverDeadlock ==
    ASSUME LedgerInv, QueueInv, NEW t \in Settlers
    PROVE  ~Deadlocked(t)
<1>1. t \in Txns
  BY DEF Settlers, Txns
<1>2. CASE Blockers(t) = {}
  <2>1. {} \in SUBSET (Txns \ {t}) /\ Blockers(t) \subseteq {}
    BY <1>2
  <2> QED
    BY <2>1 DEF Deadlocked
<1>3. CASE Blockers(t) # {}
  <2> DEFINE W == {u \in Txns \ {t} : t \notin Blockers(u)}
  <2>1. ASSUME NEW u \in Txns, NEW v \in Blockers(u), v # t PROVE v \in W
    <3>1. v \in Txns /\ tx[v].held # {}
      BY <2>1 DEF Blockers
    <3> QED
      BY <1>1, <1>3, <2>1, <3>1, WaiterHoldsNothing
  <2>2. t \notin Blockers(t)
    BY DEF Blockers
  <2>3. Blockers(t) \subseteq W
    BY <1>1, <2>1, <2>2
  <2>4. \A u \in W : Blockers(u) \subseteq W
    BY <2>1
  <2>5. W \in SUBSET (Txns \ {t})
    OBVIOUS
  <2> HIDE DEF W
  <2> QED
    BY <2>3, <2>4, <2>5 DEF Deadlocked
<1> QED
  BY <1>2, <1>3

(* No append fails for another's sake, however many handlers run. The lock *)
(* of the mission row makes a second writer wait and read the sequence     *)
(* number the first one committed (append_event), so no insert meets the   *)
(* UNIQUE (mission_id, sequence) constraint; and settlements, deliveries   *)
(* and notes lock the intent before the mission (apply_provider_payment,   *)
(* handle_webhook), so none of them is ever in a cycle of waiters, for all *)
(* that payment requests and demotions may be.                             *)
THEOREM AppendsAreUndisturbed == Spec => []AppendsUndisturbed
<1>1. LedgerInv /\ QueueInv => AppendsUndisturbed
  <2> SUFFICES ASSUME LedgerInv, QueueInv PROVE AppendsUndisturbed
    OBVIOUS
  <2>1. ~clash
    BY DEF LedgerInv
  <2> QED
    BY <2>1, SettlersNeverDeadlock DEF AppendsUndisturbed, Settlers
<1>2. Spec => []QueueInv
  BY InitQueue, NextQueue, LedgerInvariant, PTL DEF Spec
<1> QED
  BY <1>1, <1>2, LedgerInvariant, PTL
=============================================================================
