------------------------ MODULE AuditVerifierProofs ------------------------
(***************************************************************************)
(* What verify_events says of a mission's ledger: the committed rows       *)
(* verify, and any one edit, exchange or deletion of them is reported at   *)
(* the first position that differs from what was appended.                 *)
(***************************************************************************)
EXTENDS AuditLedgerProofs, DataInduction

(* A step is left to Zenon, then to SMT, for at most 30 seconds each; one  *)
(* that needs arithmetic, sequences or records names SMT.                  *)
USE ZenonT(30), SMTT(30)

-----------------------------------------------------------------------------
(* Listing a ledger                                                        *)

(* Rows that no two of share an identifier, so that sorting them leaves    *)
(* nothing to chance.                                                      *)
Sortable(S) ==
    /\ IsFiniteSet(S)
    /\ \A r \in S : r.sequence \in Int /\ r.event_id \in Int
    /\ \A r, s \in S : r.event_id = s.event_id => r = s

Earlier(r, S) == {s \in S : Precedes(s, r)}

(* Of two rows one precedes the other, and every row is preceded by its own*)
(* number of rows, less than there are.                                    *)
LEMMA Ranks ==
    ASSUME NEW S, Sortable(S)
    PROVE  /\ Cardinality(S) \in Nat
           /\ \A r \in S : Cardinality(Earlier(r, S)) \in 0 .. (Cardinality(S) - 1)
           /\ \A r, s \in S : Cardinality(Earlier(r, S)) = Cardinality(Earlier(s, S)) => r = s
<1>1. IsFiniteSet(S) /\ Cardinality(S) \in Nat
  BY FS_CardinalityType DEF Sortable
<1>2. ASSUME NEW r \in S, NEW T \in SUBSET S, T \subseteq Earlier(r, S)
      PROVE  IsFiniteSet(T) /\ Cardinality(T) \in Nat
  BY <1>1, FS_Subset, FS_CardinalityType
<1>3. \A r \in S : ~Precedes(r, r)
  BY SMTT(30) DEF Sortable, Precedes
<1>4. ASSUME NEW r \in S
      PROVE  Cardinality(Earlier(r, S)) \in 0 .. (Cardinality(S) - 1)
  <2> DEFINE T == S \ {r}
  <2>1. IsFiniteSet(T) /\ Cardinality(T) = Cardinality(S) - 1
    BY <1>1, FS_RemoveElement
  <2>2. Earlier(r, S) \in SUBSET T
    BY <1>3 DEF Earlier
  <2>3. /\ IsFiniteSet(Earlier(r, S))
        /\ Cardinality(Earlier(r, S)) <= Cardinality(T)
    BY <2>1, <2>2, FS_Subset
  <2>4. Cardinality(Earlier(r, S)) \in Nat
    BY <2>3, FS_CardinalityType
  <2> QED
    BY <1>1, <2>1, <2>3, <2>4, SMTT(30)
<1>5. ASSUME NEW r \in S, NEW s \in S, Precedes(r, s)
      PROVE  Cardinality(Earlier(r, S)) < Cardinality(Earlier(s, S))
  <2>1. Earlier(r, S) \in SUBSET Earlier(s, S)
    BY <1>5, SMTT(30) DEF Earlier, Precedes, Sortable
  <2>2. r \in Earlier(s, S) /\ r \notin Earlier(r, S)
    BY <1>3, <1>5 DEF Earlier
  <2>3. IsFiniteSet(Earlier(s, S))
    BY <1>1, FS_Subset DEF Earlier
  <2>4. /\ Cardinality(Earlier(r, S)) <= Cardinality(Earlier(s, S))
        /\ Cardinality(Earlier(r, S)) # Cardinality(Earlier(s, S))
    BY <2>1, <2>2, <2>3, FS_Subset
  <2> QED
    BY <1>4, <2>4, SMTT(30)
<1>6. \A r, s \in S : r = s \/ Precedes(r, s) \/ Precedes(s, r)
  BY SMTT(30) DEF Sortable, Precedes
<1>7. \A r, s \in S : Cardinality(Earlier(r, S)) = Cardinality(Earlier(s, S)) => r = s
  <2> SUFFICES ASSUME NEW r \in S, NEW s \in S, r # s
               PROVE  Cardinality(Earlier(r, S)) # Cardinality(Earlier(s, S))
    OBVIOUS
  <2>1. \/ Cardinality(Earlier(r, S)) < Cardinality(Earlier(s, S))
        \/ Cardinality(Earlier(s, S)) < Cardinality(Earlier(r, S))
    BY <1>5, <1>6
  <2> QED
    BY <1>4, <2>1, SMTT(30)
<1> QED
  BY <1>1, <1>4, <1>7

(* list_events lists every row, and only rows, each in its place.          *)
LEMMA Listed ==
    ASSUME NEW S, Sortable(S)
    PROVE  /\ Cardinality(S) \in Nat /\ Len(list_events(S)) = Cardinality(S)
           /\ \A k \in 1 .. Cardinality(S) :
                 /\ list_events(S)[k] \in S
                 /\ Cardinality(Earlier(list_events(S)[k], S)) = k - 1
           /\ \A r \in S : \E k \in 1 .. Cardinality(S) : list_events(S)[k] = r
<1> DEFINE n == Cardinality(S)
           rank == [r \in S |-> Cardinality(Earlier(r, S))]
           pick(k) == CHOOSE r \in S : Cardinality(Earlier(r, S)) = k - 1
           L == list_events(S)
<1>1. n \in Nat /\ IsFiniteSet(S)
  BY Ranks DEF Sortable
<1>2. L = [k \in 1 .. n |-> pick(k)]
  BY DEF list_events, Earlier
<1>3. rank \in Injection(S, 0 .. (n - 1))
  <2>1. rank \in [S -> 0 .. (n - 1)]
    BY Ranks
  <2>2. \A r, s \in S : rank[r] = rank[s] => r = s
    BY Ranks
  <2> QED
    BY <2>1, <2>2 DEF Injection, IsInjective
<1>4. IsFiniteSet(0 .. (n - 1)) /\ Cardinality(0 .. (n - 1)) = n
  BY <1>1, FS_Interval, SMTT(30)
<1>5. rank \in Surjection(S, 0 .. (n - 1))
  BY <1>3, <1>4, FS_Injection
<1>6. ASSUME NEW k \in 1 .. n
      PROVE  L[k] \in S /\ Cardinality(Earlier(L[k], S)) = k - 1
  <2>1. k - 1 \in 0 .. (n - 1)
    BY <1>1, SMTT(30)
  <2>2. \E r \in S : Cardinality(Earlier(r, S)) = k - 1
    BY <1>5, <2>1 DEF Surjection
  <2>3. L[k] = pick(k)
    BY <1>2
  <2> QED
    BY <2>2, <2>3
<1>7. ASSUME NEW r \in S PROVE \E k \in 1 .. n : L[k] = r
  <2> DEFINE k == Cardinality(Earlier(r, S)) + 1
  <2>1. Cardinality(Earlier(r, S)) \in 0 .. (n - 1)
    BY Ranks
  <2>2. k \in 1 .. n /\ k - 1 = Cardinality(Earlier(r, S))
    BY <1>1, <2>1, SMTT(30)
  <2> HIDE DEF k
  <2>3. L[k] \in S /\ Cardinality(Earlier(L[k], S)) = Cardinality(Earlier(r, S))
    BY <1>6, <2>2
  <2>4. L[k] = r
    BY <2>3, Ranks
  <2> QED
    BY <2>2, <2>4
<1>8. Len(L) = n
  BY <1>1, <1>2, SMTT(30)
<1> QED
  BY <1>1, <1>6, <1>7, <1>8
-----------------------------------------------------------------------------
(* The committed ledger                                                    *)

(* No sequence number is missing before another.                           *)
LEMMA NoGap ==
    ASSUME NEW S, Chained(S), NEW r \in S, NEW q \in 0 .. r.sequence
    PROVE  \E s \in S : s.sequence = q
<1>1. \A s \in S : /\ s.sequence \in Nat
                   /\ s.sequence # 0 => \E p \in S : p.sequence = s.sequence - 1
  BY DEF Chained
<1> DEFINE T == {n \in Nat : n <= r.sequence => \E s \in S : s.sequence = r.sequence - n}
<1>2. 0 \in T
  BY <1>1, SMTT(30)
<1>3. ASSUME NEW n \in T PROVE n + 1 \in T
  <2> SUFFICES ASSUME n + 1 <= r.sequence
               PROVE  \E s \in S : s.sequence = r.sequence - (n + 1)
    BY SMTT(30)
  <2>1. n \in Nat /\ r.sequence \in Nat
    BY <1>1
  <2>2. PICK s \in S : s.sequence = r.sequence - n
    BY <2>1, SMTT(30)
  <2>3. s.sequence # 0
    BY <2>1, <2>2, SMTT(30)
  <2> QED
    BY <1>1, <2>1, <2>2, <2>3, SMTT(30)
<1>4. T = Nat
  <2> HIDE DEF T
  <2>1. T \in SUBSET Nat
    BY DEF T
  <2> QED
    BY <1>2, <1>3, <2>1, NatSet
<1>5. r.sequence - q \in T /\ r.sequence \in Nat /\ q \in Nat
  BY <1>1, <1>4, SMTT(30)
<1> QED
  BY <1>5, SMTT(30)

(* As many rows come before a sequence number as it says.                  *)
LEMMA Numbered ==
    ASSUME NEW S, Chained(S), NEW q \in Nat,
           \A i \in 0 .. (q - 1) : \E s \in S : s.sequence = i
    PROVE  Cardinality({s \in S : s.sequence < q}) = q
<1> DEFINE I == 0 .. (q - 1)
           T == {s \in S : s.sequence < q}
           f == [i \in I |-> CHOOSE s \in S : s.sequence = i]
<1>1. \A r, s \in S : r.sequence = s.sequence => r = s
  BY DEF Chained
<1>2. \A s \in S : s.sequence \in Nat
  BY DEF Chained
<1>3. \A i \in I : f[i] \in S /\ f[i].sequence = i
  OBVIOUS
<1>4. f \in [I -> T]
  BY <1>3, SMTT(30)
<1>5. \A i, j \in I : f[i] = f[j] => i = j
  BY <1>3
<1>6. \A s \in T : \E i \in I : f[i] = s
  <2> SUFFICES ASSUME NEW s \in T PROVE f[s.sequence] = s /\ s.sequence \in I
    OBVIOUS
  <2>1. s \in S /\ s.sequence \in I
    BY <1>2, SMTT(30)
  <2> QED
    BY <1>1, <1>3, <2>1
<1>7. IsFiniteSet(I) /\ Cardinality(I) = q
  BY FS_Interval, SMTT(30)
<1> HIDE DEF f, T
<1>8. f \in Bijection(I, T)
  <2>1. DOMAIN f = I
    BY <1>4
  <2>2. IsInjective(f)
    BY <1>5, <2>1 DEF IsInjective
  <2> QED
    BY <1>4, <1>6, <2>2 DEF Bijection, Injection, Surjection
<1>9. ExistsBijection(I, T)
  BY <1>8 DEF ExistsBijection
<1>10. Cardinality(T) = q
  BY <1>7, <1>9, FS_Bijection
<1> QED
  BY <1>10 DEF T

Ledger(S) == IsFiniteSet(S) /\ Chained(S) /\ HasLast(S)

(* The committed rows are listed in the order they were appended in.       *)
LEMMA Written ==
    ASSUME NEW S, Ledger(S)
    PROVE  /\ Sortable(S) /\ last_event(S) \in S
           /\ last_event(S).sequence = Cardinality(S) - 1
           /\ \A r \in S : r.sequence \in 0 .. (Cardinality(S) - 1)
           /\ \A k \in 1 .. Cardinality(S) :
                 list_events(S)[k] \in S /\ list_events(S)[k].sequence = k - 1
<1> DEFINE l == last_event(S)
           L == list_events(S)
<1>1. l \in S /\ \A r \in S : r.sequence <= l.sequence
  BY LastIsLast DEF Ledger
<1>2. \A r \in S : r.sequence \in Nat /\ r.event_id = r.sequence
  BY DEF Ledger, Chained
<1>3. \A r, s \in S : r.sequence = s.sequence => r = s
  BY DEF Ledger, Chained
<1>4. Sortable(S)
  BY <1>2, <1>3, SMTT(30) DEF Sortable, Ledger
<1>5. ASSUME NEW r \in S
      PROVE  Cardinality({s \in S : s.sequence < r.sequence}) = r.sequence
  <2>1. r.sequence \in Nat /\ Chained(S)
    BY <1>2 DEF Ledger
  <2>2. \A i \in 0 .. (r.sequence - 1) : i \in 0 .. r.sequence
    BY <2>1, SMTT(30)
  <2>3. \A i \in 0 .. (r.sequence - 1) : \E s \in S : s.sequence = i
    BY <2>1, <2>2, NoGap
  <2> QED
    BY <2>1, <2>3, Numbered
<1>6. Cardinality(S) = l.sequence + 1
  <2> DEFINE q == l.sequence + 1
  <2>1. q \in Nat /\ Chained(S) /\ q - 1 = l.sequence
    BY <1>1, <1>2, SMTT(30) DEF Ledger
  <2>2. {s \in S : s.sequence < q} = S
    BY <1>1, <1>2, SMTT(30)
  <2>3. \A i \in 0 .. (q - 1) : \E s \in S : s.sequence = i
    BY <1>1, <2>1, NoGap
  <2> HIDE DEF q
  <2>4. Cardinality({s \in S : s.sequence < q}) = q
    BY <2>1, <2>3, Numbered
  <2> QED
    BY <2>2, <2>4 DEF q
<1>7. \A r \in S : Earlier(r, S) = {s \in S : s.sequence < r.sequence}
  BY <1>2 DEF Earlier, Precedes
<1>8. \A k \in 1 .. Cardinality(S) : L[k] \in S /\ L[k].sequence = k - 1
  BY <1>4, <1>5, <1>7, Listed, SMTT(30)
<1>9. \A r \in S : r.sequence \in 0 .. (Cardinality(S) - 1)
  BY <1>1, <1>2, <1>6, SMTT(30)
<1>10. l.sequence = Cardinality(S) - 1
  BY <1>1, <1>2, <1>6, SMTT(30)
<1> QED
  BY <1>1, <1>4, <1>8, <1>9, <1>10
-----------------------------------------------------------------------------
(* The verifier                                                            *)

Hashed(e) == e.event_hash = compute_event_hash(e.sequence, e.body, e.previous_hash)

Passes(ordered, i) == event_failure(ordered, i) = "AUDIT_VALID"

(* An event passes when every check of it does.                            *)
LEMMA PassesIs ==
    ASSUME NEW L, NEW i
    PROVE  Passes(L, i) <=>
              /\ L[i + 1].wellformed /\ ~(L[i + 1].sequence < 0)
              /\ L[i + 1].sequence = i /\ linked(L, i) /\ Hashed(L[i + 1])
<1> DEFINE e == L[i + 1]
<1>1. Passes(L, i) <=>
         "AUDIT_VALID" =
            IF structural_failure(e) THEN "AUDIT_EVENT_MALFORMED"
            ELSE IF e.sequence # i THEN "AUDIT_SEQUENCE_GAP"
            ELSE IF ~linked(L, i)
                 THEN IF i = 0 THEN "AUDIT_GENESIS_INVALID"
                      ELSE "AUDIT_PREVIOUS_HASH_MISMATCH"
            ELSE IF compute_event_hash(e.sequence, e.body, e.previous_hash) # e.event_hash
                 THEN "AUDIT_EVENT_HASH_MISMATCH"
            ELSE "AUDIT_VALID"
  BY DEF Passes, event_failure
<1>2. structural_failure(e) <=> ~e.wellformed \/ e.sequence < 0
  BY DEF structural_failure
<1>3. (compute_event_hash(e.sequence, e.body, e.previous_hash) = e.event_hash) <=> Hashed(e)
  BY DEF Hashed
<1> HIDE DEF e
<1>4. Passes(L, i) <=>
         ~structural_failure(e) /\ e.sequence = i /\ linked(L, i) /\ Hashed(e)
  BY <1>1, <1>3
<1> QED
  BY <1>2, <1>4 DEF e

(* The verdict: valid when every event passes, and otherwise the number of *)
(* events before the first that does not.                                  *)
LEMMA Verdict ==
    ASSUME NEW S, NEW L, L = list_events(S), Len(L) \in Nat
    PROVE  /\ (\A i \in 0 .. (Len(L) - 1) : Passes(L, i)) =>
                 verify_events(S) = [valid |-> TRUE, events_checked |-> Len(L),
                                     reason_code |-> "AUDIT_VALID"]
           /\ ~(\A i \in 0 .. (Len(L) - 1) : Passes(L, i)) =>
                 /\ ~verify_events(S).valid
                 /\ verify_events(S).events_checked \in 0 .. (Len(L) - 1)
                 /\ ~Passes(L, verify_events(S).events_checked)
                 /\ \A i \in 0 .. (verify_events(S).events_checked - 1) : Passes(L, i)
<1> DEFINE F == {i \in 0 .. (Len(L) - 1) : event_failure(L, i) # "AUDIT_VALID"}
           first == CHOOSE i \in F : \A j \in F : i <= j
<1>1. F = {i \in 0 .. (Len(L) - 1) : ~Passes(L, i)}
  BY DEF Passes
<1>2. verify_events(S) =
         IF F = {}
         THEN [valid |-> TRUE, events_checked |-> Len(L), reason_code |-> "AUDIT_VALID"]
         ELSE [valid |-> FALSE, events_checked |-> first,
               reason_code |-> event_failure(L, first)]
  BY DEF verify_events
<1>3. ASSUME F # {}
      PROVE  first \in F /\ \A j \in F : first <= j
  <2>1. F \in SUBSET Nat
    BY SMTT(30)
  <2> HIDE DEF F
  <2>2. \E i \in F : \A j \in F : i <= j
    BY <1>3, <2>1, LeastNat
  <2> QED
    BY <2>2
<1> HIDE DEF F, first
<1>4. CASE F = {}
  BY <1>1, <1>2, <1>4
<1>5. CASE F # {}
  <2>1. /\ verify_events(S).events_checked = first
    BY <1>2, <1>5, SMTT(30)
  <2>2. ~verify_events(S).valid
    BY <1>2, <1>5, SMTT(30)
  <2>3. first \in 0 .. (Len(L) - 1) /\ ~Passes(L, first)
    BY <1>1, <1>3, <1>5
  <2>4. \A i \in 0 .. (first - 1) : Passes(L, i)
    BY <1>1, <1>3, <1>5, <2>3, SMTT(30)
  <2> QED
    BY <1>5, <2>1, <2>2, <2>3, <2>4
<1> QED
  BY <1>4, <1>5

(* Every committed event passes.                                           *)
LEMMA WrittenPasses ==
    ASSUME NEW S, Ledger(S), NEW i \in 0 .. (Cardinality(S) - 1)
    PROVE  Passes(list_events(S), i)
<1> DEFINE L == list_events(S)
           n == Cardinality(S)
<1>1. n \in Nat
  BY FS_CardinalityType DEF Ledger
<1>2. i + 1 \in 1 .. n /\ (i + 1) - 1 = i
  BY <1>1, SMTT(30)
<1>3. \A k \in 1 .. n : L[k] \in S /\ L[k].sequence = k - 1
  BY Written
<1> HIDE DEF L, n
<1>4. L[i + 1] \in S /\ L[i + 1].sequence = i
  BY <1>2, <1>3
<1>5. /\ L[i + 1].wellformed /\ Hashed(L[i + 1])
      /\ i = 0 => L[i + 1].previous_hash = GENESIS_HASH
      /\ i # 0 => \E s \in S : s.sequence = i - 1 /\ L[i + 1].previous_hash = s.event_hash
  BY <1>4, SMTT(30) DEF Ledger, Chained, Hashed
<1>6. linked(L, i)
  <2>1. CASE i = 0
    BY <1>5, <2>1 DEF linked
  <2>2. CASE i # 0
    <3>1. PICK s \in S : s.sequence = i - 1 /\ L[i + 1].previous_hash = s.event_hash
      BY <1>5, <2>2
    <3>2. i \in 1 .. n
      BY <1>1, <2>2, SMTT(30) DEF n
    <3>3. L[i] \in S /\ L[i].sequence = i - 1
      BY <1>3, <3>2
    <3>4. s = L[i]
      BY <3>1, <3>3, SMTT(30) DEF Ledger, Chained
    <3> QED
      BY <2>2, <3>1, <3>4 DEF linked
  <2> QED
    BY <2>1, <2>2
<1>7. ~(L[i + 1].sequence < 0)
  BY <1>4, SMTT(30)
<1> QED
  BY <1>4, <1>5, <1>6, <1>7, PassesIs DEF L
-----------------------------------------------------------------------------
(* Alterations                                                             *)

(* Changing one column of a row leaves the others.                         *)
LEMMA Changed ==
    ASSUME NEW r, Row(r), NEW c \in Columns, NEW v, NEW e, e = [r EXCEPT ![c] = v]
    PROVE  /\ e[c] = v /\ (v = r[c] => e = r)
           /\ \A d \in Columns \ {c} : e[d] = r[d]
<1>1. r = [d \in Columns |-> r[d]]
  BY DEF Row
<1>2. DOMAIN r = Columns
  BY <1>1
<1>3. e = [d \in Columns |-> IF d = c THEN v ELSE r[d]]
  BY <1>2
<1>4. e[c] = v /\ \A d \in Columns \ {c} : e[d] = r[d]
  BY <1>3
<1>5. ASSUME v = r[c] PROVE e = r
  <2>1. \A d \in Columns : (IF d = c THEN v ELSE r[d]) = r[d]
    BY <1>5
  <2> QED
    BY <1>1, <1>3, <2>1
<1> QED
  BY <1>4, <1>5

(* The row e takes the place of r: it has the identifier of r, and has a   *)
(* hash of its content only when it is r.                                  *)
Replaces(e, r) ==
    /\ e.event_id = r.event_id /\ e.sequence \in Int
    /\ e.wellformed /\ Hashed(e) => e = r

(* A row replaces itself.                                                  *)
LEMMA Unedited ==
    ASSUME NEW S, Ledger(S), NEW r \in S
    PROVE  Replaces(r, r)
<1>1. r.sequence \in Nat
  BY DEF Ledger, Chained
<1> QED
  BY <1>1, SMTT(30) DEF Replaces

(* Another sequence number is another hash.                                *)
LEMMA Renumbered ==
    ASSUME NEW S, Ledger(S), NEW r \in S, NEW n \in Int, NEW e,
           e = [r EXCEPT !.sequence = n]
    PROVE  Replaces(e, r)
<1>1. Row(r) /\ Hashed(r)
  BY DEF Ledger, Chained, Hashed
<1>2. /\ e["sequence"] = n /\ (n = r["sequence"] => e = r)
      /\ \A d \in Columns \ {"sequence"} : e[d] = r[d]
  BY <1>1, Changed, SMTT(30) DEF Columns
<1>3. /\ e.sequence = n /\ (n = r.sequence => e = r) /\ e.event_id = r.event_id
      /\ e.event_hash = r.event_hash
  BY <1>2 DEF Columns
<1>4. Hashed(e) => n = r.sequence
  BY <1>1, <1>3, SMTT(30) DEF Hashed, compute_event_hash
<1> QED
  BY <1>3, <1>4 DEF Replaces

(* A row edited in place, in any column that verify_events reads.          *)
LEMMA EditedReplaces ==
    ASSUME Ledger(rows), NEW r \in rows, NEW e \in Edited(r)
    PROVE  Replaces(e, r)
<1> DEFINE other == <<"other", 1, {}>>
           foreign == compute_event_hash(0, other, GENESIS_HASH)
<1>1. Row(r) /\ Hashed(r) /\ r.sequence \in Int
  BY SMTT(30) DEF Ledger, Chained, Hashed
<1>2. Cardinality(rows) \in Nat
  BY FS_CardinalityType DEF Ledger
<1>3. \/ e = [r EXCEPT !.body = other] \/ e = [r EXCEPT !.previous_hash = foreign]
      \/ e = [r EXCEPT !.event_hash = foreign] \/ e = [r EXCEPT !.wellformed = FALSE]
      \/ \E n \in Int : e = [r EXCEPT !.sequence = n]
  <2> DEFINE N == (-1 .. Cardinality(rows)) \ {r.sequence}
  <2>1. N \subseteq Int
    BY <1>2, SMTT(30)
  <2>2. Edited(r) = {[r EXCEPT !.body = other], [r EXCEPT !.previous_hash = foreign],
                     [r EXCEPT !.event_hash = foreign], [r EXCEPT !.wellformed = FALSE]}
                    \cup {[r EXCEPT !.sequence = n] : n \in N}
    BY DEF Edited
  <2> HIDE DEF N, other, foreign
  <2> QED
    BY <2>1, <2>2
<1> HIDE DEF other, foreign
<1>4. CASE e = [r EXCEPT !.body = other]
  <2>1. /\ e["body"] = other /\ (other = r["body"] => e = r)
        /\ \A d \in Columns \ {"body"} : e[d] = r[d]
    BY <1>1, <1>4, Changed, SMTT(30) DEF Columns
  <2>2. /\ e.body = other /\ (other = r.body => e = r) /\ e.event_id = r.event_id
        /\ e.event_hash = r.event_hash /\ e.sequence = r.sequence
    BY <2>1 DEF Columns
  <2>3. Hashed(e) => other = r.body
    BY <1>1, <2>2, SMTT(30) DEF Hashed, compute_event_hash
  <2> QED
    BY <1>1, <2>2, <2>3 DEF Replaces
<1>5. CASE e = [r EXCEPT !.previous_hash = foreign]
  <2>1. /\ e["previous_hash"] = foreign /\ (foreign = r["previous_hash"] => e = r)
        /\ \A d \in Columns \ {"previous_hash"} : e[d] = r[d]
    BY <1>1, <1>5, Changed, SMTT(30) DEF Columns
  <2>2. /\ e.previous_hash = foreign /\ (foreign = r.previous_hash => e = r)
        /\ e.event_id = r.event_id
        /\ e.event_hash = r.event_hash /\ e.sequence = r.sequence
    BY <2>1 DEF Columns
  <2>3. Hashed(e) => foreign = r.previous_hash
    BY <1>1, <2>2, SMTT(30) DEF Hashed, compute_event_hash
  <2> QED
    BY <1>1, <2>2, <2>3 DEF Replaces
<1>6. CASE e = [r EXCEPT !.event_hash = foreign]
  <2>1. /\ e["event_hash"] = foreign /\ (foreign = r["event_hash"] => e = r)
        /\ \A d \in Columns \ {"event_hash"} : e[d] = r[d]
    BY <1>1, <1>6, Changed, SMTT(30) DEF Columns
  <2>2. /\ e.event_hash = foreign /\ (foreign = r.event_hash => e = r)
        /\ e.event_id = r.event_id /\ e.body = r.body
        /\ e.previous_hash = r.previous_hash /\ e.sequence = r.sequence
    BY <2>1 DEF Columns
  <2>3. Hashed(e) => foreign = r.event_hash
    BY <1>1, <2>2 DEF Hashed
  <2> QED
    BY <1>1, <2>2, <2>3 DEF Replaces
<1>7. CASE e = [r EXCEPT !.wellformed = FALSE]
  <2>1. /\ e["wellformed"] = FALSE
        /\ \A d \in Columns \ {"wellformed"} : e[d] = r[d]
    BY <1>1, <1>7, Changed, SMTT(30) DEF Columns
  <2>2. e.event_id = r.event_id /\ e.sequence = r.sequence
    BY <2>1 DEF Columns
  <2>3. ~e.wellformed
    BY <2>1
  <2> QED
    BY <1>1, <2>2, <2>3 DEF Replaces
<1>8. ASSUME NEW n \in Int, e = [r EXCEPT !.sequence = n] PROVE Replaces(e, r)
  BY <1>8, Renumbered
<1> QED
  BY <1>3, <1>4, <1>5, <1>6, <1>7, <1>8

(* What altering the ledger S leaves: rows that replace rows of S, for     *)
(* every row of S or for all but one that is not the last.                 *)
Altered(A, S) ==
    /\ Sortable(A)
    /\ \A e \in A : \E r \in S : Replaces(e, r)
    /\ \/ \A r \in S : \E e \in A : e.event_id = r.event_id
       \/ \E r \in S \ {last_event(S)} : A = S \ {r}

(* Rows of which some were replaced, each by one row.                      *)
LEMMA Replaced ==
    ASSUME NEW S, Ledger(S), NEW A, NEW f \in Surjection(S, A),
           \A r \in S : Replaces(f[r], r)
    PROVE  Altered(A, S)
<1> (f \in [S -> A]) /\ \A e \in A : \E r \in S : e = f[r]
  BY DEF Surjection
<1>1. \A r \in S : f[r].event_id = r.event_id /\ f[r].sequence \in Int
  BY DEF Replaces
<1>2. \A r, s \in S : r.event_id = s.event_id => r = s
  BY Written DEF Sortable
<1>3. \A r \in S : r.event_id \in Int
  BY Written DEF Sortable
<1>4. IsFiniteSet(A)
  <2>1. IsFiniteSet(S)
    BY DEF Ledger
  <2> QED
    BY <2>1, FS_Surjection
<1>5. Sortable(A)
  BY <1>1, <1>2, <1>3, <1>4, SMTT(30) DEF Sortable
<1>6. \A e \in A : \E r \in S : Replaces(e, r)
  OBVIOUS
<1>7. \A r \in S : \E e \in A : e.event_id = r.event_id
  BY <1>1
<1> QED
  BY <1>5, <1>6, <1>7 DEF Altered

(* Every edit, exchange and deletion is such an alteration.                *)
LEMMA AlterationsAre ==
    ASSUME Ledger(rows), NEW A \in Alterations
    PROVE  Altered(A, rows)
<1>1. \A r \in rows : Replaces(r, r)
  BY Unedited
<1>2. CASE \E r \in rows : \E e \in Edited(r) : A = (rows \ {r}) \cup {e}
  <2>0. PICK r \in rows : \E e \in Edited(r) : A = (rows \ {r}) \cup {e}
    BY <1>2
  <2>1. PICK e \in Edited(r) : A = (rows \ {r}) \cup {e}
    BY <2>0
  <2> DEFINE f == [q \in rows |-> IF q = r THEN e ELSE q]
  <2>2. Replaces(e, r)
    BY EditedReplaces
  <2>3. \A q \in rows : Replaces(f[q], q)
    BY <1>1, <2>2
  <2>4. f \in Surjection(rows, A)
    BY <2>1 DEF Surjection
  <2> HIDE DEF f
  <2> QED
    BY <2>3, <2>4, Replaced
<1>3. CASE \E r, s \in rows : A = (rows \ {r, s}) \cup {[r EXCEPT !.sequence = s.sequence],
                                                        [s EXCEPT !.sequence = r.sequence]}
  <2>1. PICK r \in rows, s \in rows :
           A = (rows \ {r, s}) \cup {[r EXCEPT !.sequence = s.sequence],
                                     [s EXCEPT !.sequence = r.sequence]}
    BY <1>3
  <2>2. r.sequence \in Int /\ s.sequence \in Int
    BY SMTT(30) DEF Ledger, Chained
  <2> DEFINE d == [r EXCEPT !.sequence = s.sequence]
             e == [s EXCEPT !.sequence = r.sequence]
             f == [q \in rows |-> IF q = r THEN d ELSE IF q = s THEN e ELSE q]
  <2>3. Replaces(d, r) /\ Replaces(e, s)
    BY <2>2, Renumbered
  <2>4. r = s => d = e
    OBVIOUS
  <2>5. A = (rows \ {r, s}) \cup {d, e}
    BY <2>1
  <2> HIDE DEF d, e
  <2>6. \A q \in rows : Replaces(f[q], q)
    BY <1>1, <2>3
  <2>7. f \in Surjection(rows, A)
    BY <2>4, <2>5 DEF Surjection
  <2> HIDE DEF f
  <2> QED
    BY <2>6, <2>7, Replaced
<1>4. CASE \E r \in rows \ {last_event(rows)} : A = rows \ {r}
  <2>1. A \in SUBSET rows
    BY <1>4
  <2>2. IsFiniteSet(A)
    BY <2>1, FS_Subset DEF Ledger
  <2>3. Sortable(A)
    BY <2>1, <2>2, Written, SMTT(30) DEF Sortable
  <2> QED
    BY <1>1, <1>4, <2>1, <2>3 DEF Altered
<1> DEFINE edits == UNION {{(rows \ {r}) \cup {e} : e \in Edited(r)} : r \in rows}
           exchanges == {(rows \ {r, s}) \cup {[r EXCEPT !.sequence = s.sequence],
                                                [s EXCEPT !.sequence = r.sequence]} :
                             r, s \in rows}
           deletions == {rows \ {r} : r \in rows \ {last_event(rows)}}
<1>5. Alterations = edits \cup exchanges \cup deletions
  BY SMTT(30) DEF Alterations
<1>6. CASE A \in edits
  BY <1>2, <1>6
<1>7. CASE A \in exchanges
  BY <1>3, <1>7, SMTT(30)
<1>8. CASE A \in deletions
  BY <1>4, <1>8
<1> HIDE DEF edits, exchanges, deletions
<1> QED
  BY <1>5, <1>6, <1>7, <1>8
-----------------------------------------------------------------------------
(* What the verifier makes of them                                         *)

(* Events that pass are the events written in their places.                *)
LEMMA PassedIsWritten ==
    ASSUME NEW S, Ledger(S), NEW A, Altered(A, S),
           NEW i \in 0 .. (Cardinality(A) - 1), Passes(list_events(A), i)
    PROVE  /\ list_events(A)[i + 1] \in S /\ i < Cardinality(S)
           /\ list_events(A)[i + 1] = list_events(S)[i + 1]
<1> DEFINE e == list_events(A)[i + 1]
<1>1. Cardinality(A) \in Nat /\ Cardinality(S) \in Nat
  BY Listed, Written DEF Altered
<1>2. i + 1 \in 1 .. Cardinality(A)
  BY <1>1, SMTT(30)
<1>3. e \in A
  BY <1>2, Listed DEF Altered
<1>4. e.wellformed /\ Hashed(e) /\ e.sequence = i
  BY PassesIs
<1> HIDE DEF e
<1>5. e \in S
  <2>1. PICK r \in S : Replaces(e, r)
    BY <1>3 DEF Altered
  <2> QED
    BY <1>4, <2>1 DEF Replaces
<1>6. i \in 0 .. (Cardinality(S) - 1)
  BY <1>4, <1>5, Written
<1>7. i + 1 \in 1 .. Cardinality(S) /\ i < Cardinality(S) /\ (i + 1) - 1 = i
  BY <1>1, <1>6, SMTT(30)
<1>8. list_events(S)[i + 1] \in S /\ list_events(S)[i + 1].sequence = i
  BY <1>7, Written
<1>9. list_events(S)[i + 1] = e
  BY <1>4, <1>5, <1>8 DEF Ledger, Chained
<1> QED
  BY <1>5, <1>7, <1>9 DEF e

(* No alteration passes as a whole: the rows that stay and pass are as     *)
(* many as were listed, so that none can be missing before the last.       *)
LEMMA Detected ==
    ASSUME NEW S, Ledger(S), NEW A, Altered(A, S),
           \A i \in 0 .. (Cardinality(A) - 1) : Passes(list_events(A), i)
    PROVE  A = S
<1> DEFINE L == list_events(A)
           n == Cardinality(A)
<1>1. n \in Nat /\ \A e \in A : \E k \in 1 .. n : L[k] = e
  BY Listed DEF Altered
<1>2. \A e \in A : e \in S /\ e.sequence < n
  <2> SUFFICES ASSUME NEW e \in A PROVE e \in S /\ e.sequence < n
    OBVIOUS
  <2>1. PICK k \in 1 .. n : L[k] = e
    BY <1>1
  <2> DEFINE i == k - 1
  <2>2. i \in 0 .. (n - 1) /\ i + 1 = k /\ i < n
    BY <1>1, SMTT(30)
  <2> HIDE DEF i
  <2>3. Passes(L, i)
    BY <2>2
  <2>4. L[i + 1] \in S
    BY <2>2, <2>3, PassedIsWritten
  <2>5. L[i + 1].sequence = i
    BY <2>3, PassesIs
  <2> QED
    BY <2>1, <2>2, <2>4, <2>5
<1>3. CASE \A r \in S : \E e \in A : e.event_id = r.event_id
  <2>1. \A r, s \in S : r.event_id = s.event_id => r = s
    BY Written DEF Sortable
  <2> QED
    BY <1>2, <1>3, <2>1, SMTT(30)
<1>4. CASE \E r \in S \ {last_event(S)} : A = S \ {r}
  <2>1. PICK r \in S \ {last_event(S)} : A = S \ {r}
    BY <1>4
  <2>2. last_event(S) \in A /\ last_event(S).sequence = Cardinality(S) - 1
    BY <2>1, Written
  <2>3. n = Cardinality(S) - 1
    BY <2>1, FS_RemoveElement DEF Ledger
  <2>4. last_event(S).sequence < n
    BY <1>2, <2>2
  <2> QED
    BY <1>1, <2>2, <2>3, <2>4, SMTT(30)
<1> QED
  BY <1>3, <1>4 DEF Altered

(* The verdict on an altered ledger names the first position that differs. *)
LEMMA Located ==
    ASSUME NEW S, Ledger(S), NEW A, Altered(A, S), A # S
    PROVE  LET verdict == verify_events(A)
               found   == list_events(A)
               written == list_events(S)
           IN  /\ ~verdict.valid
               /\ \A i \in 1 .. verdict.events_checked : found[i] = written[i]
               /\ \/ verdict.events_checked >= Len(written)
                  \/ found[verdict.events_checked + 1] # written[verdict.events_checked + 1]
<1> DEFINE L == list_events(A)
           W == list_events(S)
           v == verify_events(A)
           f == v.events_checked
<1>1. /\ Cardinality(A) \in Nat /\ Len(L) = Cardinality(A)
      /\ Cardinality(S) \in Nat /\ Len(W) = Cardinality(S)
  BY Listed, Written DEF Altered
<1>2. ~(\A i \in 0 .. (Len(L) - 1) : Passes(L, i))
  BY <1>1, Detected
<1>3. /\ ~v.valid /\ f \in 0 .. (Len(L) - 1) /\ ~Passes(L, f)
      /\ \A i \in 0 .. (f - 1) : Passes(L, i)
  BY <1>1, <1>2, Verdict
<1>4. ASSUME NEW k \in 1 .. f PROVE L[k] = W[k]
  <2> DEFINE i == k - 1
  <2>1. i \in 0 .. (f - 1) /\ i \in 0 .. (Cardinality(A) - 1) /\ i + 1 = k
    BY <1>1, <1>3, SMTT(30)
  <2> HIDE DEF i
  <2>2. Passes(L, i)
    BY <1>3, <2>1
  <2>3. L[i + 1] = W[i + 1]
    BY <2>1, <2>2, PassedIsWritten
  <2> QED
    BY <2>1, <2>3
<1>5. ASSUME f < Len(W), L[f + 1] = W[f + 1] PROVE FALSE
  <2>1. f \in 0 .. (Cardinality(S) - 1)
    BY <1>1, <1>3, <1>5, SMTT(30)
  <2>2. Passes(W, f)
    BY <2>1, WrittenPasses
  <2>3. f = 0 \/ L[f] = W[f]
    <3>1. f = 0 \/ f \in 1 .. f
      BY <1>3, SMTT(30)
    <3> QED
      BY <1>4, <3>1
  <2> HIDE DEF L, W, f
  <2>4. linked(W, f) <=> linked(L, f)
    BY <1>5, <2>3 DEF linked
  <2>5. Passes(L, f)
    BY <1>5, <2>2, <2>4, PassesIs
  <2> QED
    BY <1>3, <2>5
<1>6. f >= Len(W) \/ L[f + 1] # W[f + 1]
  BY <1>1, <1>3, <1>5, SMTT(30)
<1> QED
  BY <1>3, <1>4, <1>6

(* The committed ledger verifies, whichever handlers append to it, crash   *)
(* or are deadlock victims, and verify_events reports every edit, exchange *)
(* and deletion of committed events (but the last one's deletion), at the  *)
(* first position that differs from what append_event wrote.               *)
THEOREM AlterationsAreLocated == Spec => []AlterationLocated
<1>1. LedgerInv => AlterationLocated
  <2> SUFFICES ASSUME LedgerInv PROVE AlterationLocated
    OBVIOUS
  <2>1. Ledger(rows)
    BY DEF LedgerInv, Ledger
  <2>2. Len(list_events(rows)) = Cardinality(rows) /\ Cardinality(rows) \in Nat
    BY <2>1, Listed, Written
  <2>3. \A i \in 0 .. (Len(list_events(rows)) - 1) : Passes(list_events(rows), i)
    BY <2>1, <2>2, WrittenPasses
  <2>4. verify_events(rows) = [valid |-> TRUE, events_checked |-> Cardinality(rows),
                               reason_code |-> "AUDIT_VALID"]
    BY <2>2, <2>3, Verdict
  <2>5. ASSUME NEW altered \in Alterations \ {rows}
        PROVE  LET verdict == verify_events(altered)
                   found   == list_events(altered)
                   written == list_events(rows)
               IN  /\ ~verdict.valid
                   /\ \A i \in 1 .. verdict.events_checked : found[i] = written[i]
                   /\ \/ verdict.events_checked >= Len(written)
                      \/ found[verdict.events_checked + 1]
                            # written[verdict.events_checked + 1]
    <3>1. Altered(altered, rows) /\ altered # rows
      BY <2>1, AlterationsAre
    <3> QED
      BY <2>1, <3>1, Located
  <2> QED
    BY <2>4, <2>5 DEF AlterationLocated
<1> QED
  BY <1>1, LedgerInvariant, PTL
=============================================================================
