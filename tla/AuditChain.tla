----------------------------- MODULE AuditChain -----------------------------
(***************************************************************************)
(* The rows of one mission's audit ledger, the hash that chains them, and  *)
(* the verifier (services/audit_ledger/hashing.py, ledger.py, verify.py).  *)
(* Everything here is a pure function of the rows.                         *)
(***************************************************************************)
EXTENDS Integers, Sequences, FiniteSets, TLC

(* An audit_events row. The body stands for the hashed columns the caller  *)
(* gives (event_type, actor, payload, created_at); wellformed for the shape*)
(* of the columns, which no append gets wrong.                             *)
AuditEventRow(id, sequence, body, previous_hash, event_hash) ==
    [event_id |-> id, sequence |-> sequence, body |-> body,
     previous_hash |-> previous_hash, event_hash |-> event_hash,
     wellformed |-> TRUE]

GENESIS_HASH == <<>>

(* SHA-256 over the canonical JSON of the hashed columns, taken to be free *)
(* of collisions: the hash is the preimage itself.                         *)
compute_event_hash(sequence, body, previous_hash) ==
    <<sequence, body, previous_hash>>

(* Mutation: the row commits to what its predecessor linked to.            *)
Bug_LinksAcross(id, body, prev) ==
    LET n == prev.sequence + 1
    IN  AuditEventRow(id, n, body, prev.previous_hash,
                      compute_event_hash(n, body, prev.previous_hash))

(* The row append_event inserts after the row prev of a non-empty ledger.  *)
NextRow(id, body, prev) ==
    LET n == prev.sequence + 1
    IN  AuditEventRow(id, n, body, prev.event_hash,
                      compute_event_hash(n, body, prev.event_hash))

FirstRow(id, body) ==
    AuditEventRow(id, 0, body, GENESIS_HASH,
                  compute_event_hash(0, body, GENESIS_HASH))

(* The row with the highest sequence number.                               *)
last_event(rows) == CHOOSE r \in rows : \A s \in rows : s.sequence <= r.sequence

(* The order of the events: sorted by (sequence, event_id).                *)
Precedes(r, s) ==
    \/ r.sequence < s.sequence
    \/ r.sequence = s.sequence /\ r.event_id < s.event_id

(* The k-th event listed is the one that k - 1 events precede.             *)
list_events(rows) ==
    [k \in 1 .. Cardinality(rows) |->
        CHOOSE r \in rows : Cardinality({s \in rows : Precedes(s, r)}) = k - 1]

structural_failure(event) == ~event.wellformed \/ event.sequence < 0

(* Does the event at a position link to the one before it?                 *)
linked(ordered, index) ==
    ordered[index + 1].previous_hash
        = IF index = 0 THEN GENESIS_HASH ELSE ordered[index].event_hash

(* What the verifier finds wrong with the event at a position of the sorted*)
(* ledger; the checks are made in this order.                              *)
event_failure(ordered, index) ==
    LET event == ordered[index + 1] IN
    IF structural_failure(event) THEN "AUDIT_EVENT_MALFORMED"
    ELSE IF event.sequence # index THEN "AUDIT_SEQUENCE_GAP"
    ELSE IF ~linked(ordered, index)
         THEN IF index = 0 THEN "AUDIT_GENESIS_INVALID" ELSE "AUDIT_PREVIOUS_HASH_MISMATCH"
    ELSE IF compute_event_hash(event.sequence, event.body, event.previous_hash)
            # event.event_hash THEN "AUDIT_EVENT_HASH_MISMATCH"
    ELSE "AUDIT_VALID"

(* The verdict names the first failing position only.                      *)
verify_events(rows) ==
    LET ordered == list_events(rows)
        failing == {i \in 0 .. Len(ordered) - 1 :
                        event_failure(ordered, i) # "AUDIT_VALID"}
        first   == CHOOSE i \in failing : \A j \in failing : i <= j
    IN  IF failing = {}
        THEN [valid |-> TRUE, events_checked |-> Len(ordered),
              reason_code |-> "AUDIT_VALID"]
        ELSE [valid |-> FALSE, events_checked |-> first,
              reason_code |-> event_failure(ordered, first)]
=============================================================================
