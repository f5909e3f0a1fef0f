------------------------- MODULE OrchestratorProofs -------------------------
(***************************************************************************)
(* Proofs about Orchestrator.run for any requests the schemas let through, *)
(* any merchants' answers, any trust registry and either database.         *)
(***************************************************************************)
EXTENDS Orchestrator, DataInduction

(* A step is left to Zenon, then to SMT, for at most 30 seconds each; one  *)
(* that needs arithmetic, sequences or records names SMT.                  *)
USE ZenonT(30), SMTT(30)

-----------------------------------------------------------------------------
(* Ingress                                                                 *)

(* A finite price rounds to a whole number of rupees.                      *)
LEMMA RoundHalfNat ==
    /\ \A h \in Nat : RoundHalf(h) \in Nat
    /\ \A h \in Nat \cup {Infinity} : RoundHalf(h) \in Int
BY SMTT(30) DEF RoundHalf, Infinity

(* Every merchant has a score.                                             *)
LEMMA TrustScored == \A m : trust_for(m) \in Int
BY TrustIsScored, SMTT(30) DEF trust_for, UNKNOWN_TRUST

(* The provenance constructors and map do not touch the value.             *)
LEMMA ProvenancedValues ==
    ASSUME NEW v, NEW w, NEW s
    PROVE  /\ authoritative(v, s).value = v /\ authoritative(v, s).authority = 60
           /\ system_value(v, s).value = v /\ trusted_value(v, s).value = v
           /\ untrusted(v, s).value = v /\ untrusted(v, s).authority = 10
           /\ MapTo(untrusted(v, s), w).value = w
<1>1. /\ authoritative(v, s).value = v /\ authoritative(v, s).authority = 60
      /\ system_value(v, s).value = v /\ trusted_value(v, s).value = v
      /\ untrusted(v, s).value = v /\ untrusted(v, s).authority = 10
  BY DEF authoritative, system_value, trusted_value, untrusted, Provenanced, AuthorityLevel
<1>2. MapTo(untrusted(v, s), w).value = w
  BY DEF MapTo, untrusted, Provenanced
<1> QED
  BY <1>1, <1>2

(* Where the values of an ingested offer come from.                        *)
Ingested(o, m, raw) ==
    /\ o.merchant_id.value = m /\ o.merchant_trust.value = trust_for(m)
    /\ o.claimed_merchant_id.value = raw.merchant_id
    /\ o.product_id.value = raw.product_id
    /\ o.amount_inr.value = RoundHalf(raw.price)
    /\ o.currency.value = Upper(raw.currency)
    /\ o.rating.value = raw.rating /\ o.in_stock.value = raw.in_stock
    /\ o.offered_at.value = normalized_instant(raw.offered_at)

(* ingest_merchant_offer takes the values from the offer and the identity  *)
(* from the connection.                                                    *)
LEMMA IngestedValues ==
    ASSUME NEW m, NEW raw
    PROVE  Ingested(ingest_merchant_offer(raw, connect(m)), m, raw)
<1> DEFINE c == connect(m)
           o == ingest_merchant_offer(raw, c)
           s == <<"merchant", c.merchant_id>>
<1>1. c.merchant_id = m /\ c.trust = trust_for(m)
  BY DEF connect
<1>2. /\ o.merchant_id = trusted_value(m, <<"merchant-identity", m>>)
      /\ o.merchant_trust = system_value(trust_for(m), <<"merchant-registry", m>>)
      /\ o.claimed_merchant_id = untrusted(raw.merchant_id, s)
      /\ o.product_id = untrusted(raw.product_id, s)
      /\ o.amount_inr = MapTo(untrusted(raw.price, s), RoundHalf(raw.price))
      /\ o.currency = untrusted(Upper(raw.currency), s)
      /\ o.rating = untrusted(raw.rating, s)
      /\ o.in_stock = untrusted(raw.in_stock, s)
      /\ o.offered_at = untrusted(normalized_instant(raw.offered_at), s)
  <2> HIDE DEF c
  <2> QED
    BY <1>1 DEF ingest_merchant_offer
<1> HIDE DEF o, s
<1>3. \A v, w, t : /\ system_value(v, t).value = v /\ trusted_value(v, t).value = v
                   /\ untrusted(v, t).value = v /\ MapTo(untrusted(v, t), w).value = w
  BY ProvenancedValues, SMTT(30)
<1>4. o.merchant_id.value = m /\ o.merchant_trust.value = trust_for(m)
  BY <1>2, <1>3, SMTT(30)
<1>5. /\ o.claimed_merchant_id.value = raw.merchant_id
      /\ o.product_id.value = raw.product_id
  BY <1>2, <1>3, SMTT(30)
<1>6. o.amount_inr.value = RoundHalf(raw.price)
  BY <1>2, <1>3, SMTT(30)
<1>7. o.currency.value = Upper(raw.currency) /\ o.rating.value = raw.rating
  BY <1>2, <1>3, SMTT(30)
<1>8. o.in_stock.value = raw.in_stock
  BY <1>2, <1>3, SMTT(30)
<1>9. o.offered_at.value = normalized_instant(raw.offered_at)
  BY <1>2, <1>3, SMTT(30)
<1> QED
  BY <1>4, <1>5, <1>6, <1>7, <1>8, <1>9 DEF o, Ingested

(* What the schemas say of an offer that was made.                         *)
LEMMA OfferedWellFormed ==
    ASSUME req \in Requests, NEW o \in Offered
    PROVE  o.merchant \in Int /\ WellFormed(o.raw)
<1>1. PICK a \in Range(req.answers) :
          \E raw \in Range(a.offers) : o = [merchant |-> a.merchant, raw |-> raw]
  BY DEF Offered
<1>2. PICK raw \in Range(a.offers) : o = [merchant |-> a.merchant, raw |-> raw]
  BY <1>1
<1>3. a.merchant \in Int /\ WellFormed(raw)
  BY RequestsWellFormed
<1>4. o.merchant = a.merchant /\ o.raw = raw
  BY <1>2
<1> QED
  BY <1>3, <1>4

(* Joined sequences have the elements of every one, and no other.          *)
LEMMA JoinedElements ==
    ASSUME NEW S, NEW ss \in Seq(Seq(S))
    PROVE  /\ Joined(ss) \in Seq(S)
           /\ \A x : In(x, Joined(ss)) <=> \E i \in 1 .. Len(ss) : In(x, ss[i])
<1> DEFINE f == CHOOSE g : Laid(g, ss, Len(ss))
<1>1. Joined(ss) = f[Len(ss)]
  BY DEF Joined, Laid
<1>2. Laid(f, ss, Len(ss))
  <2>1. Len(ss) \in Nat
    BY SMTT(30)
  <2> QED
    BY <2>1, LaidExists
<1> HIDE DEF f
<1> QED
  BY <1>1, <1>2, LaidElements

(* The n-th normalized offer, made of the offer o: its values are those of *)
(* the merchant's offer, and it is valid exactly when the user's           *)
(* constraints accept that offer.                                          *)
NormalOf(n, i, o) ==
    /\ n.id = i /\ Ingested(n.fields, o.merchant, o.raw)
    /\ n.valid <=> Acceptable(o)

(* normalize_offer makes such an offer of every offer made.                *)
LEMMA NormalizeOffer ==
    ASSUME req \in Requests, NEW o \in Offered, NEW i
    PROVE  NormalOf(normalize_offer(i, o.raw, connect(o.merchant), req.constraints), i, o)
<1> DEFINE f == ingest_merchant_offer(o.raw, connect(o.merchant))
           c == req.constraints
           n == normalize_offer(i, o.raw, connect(o.merchant), c)
<1>1. Ingested(f, o.merchant, o.raw)
  BY IngestedValues
<1>2. n.id = i /\ n.fields = f
  <2> HIDE DEF f
  <2> QED
    BY DEF normalize_offer, f
<1>3. n.valid <=> rejection_reasons(f, c) = {}
  <2> HIDE DEF f
  <2> QED
    BY DEF normalize_offer, f
<1> HIDE DEF f, c, n
<1>4. WellFormed(o.raw) /\ c.min_rating \in Int /\ c.min_merchant_trust \in Int
  BY OfferedWellFormed, RequestsWellFormed DEF c
<1>5. rejection_reasons(f, c) = {} <=>
        /\ ~identity_mismatch(f) /\ f.currency.value = c.currency /\ f.in_stock.value
        /\ ~(f.rating.value < c.min_rating)
        /\ ~(f.merchant_trust.value < c.min_merchant_trust)
        /\ f.merchant_id.value \in c.allowed_merchants
        /\ f.merchant_id.value \notin c.blocked_merchants
  BY DEF rejection_reasons
<1>6. /\ ~(f.rating.value < c.min_rating) <=> o.raw.rating >= c.min_rating
      /\ ~(f.merchant_trust.value < c.min_merchant_trust)
            <=> trust_for(o.merchant) >= c.min_merchant_trust
  BY <1>1, <1>4, TrustScored, SMTT(30) DEF Ingested, WellFormed
<1>7. rejection_reasons(f, c) = {} <=> Acceptable(o)
  BY <1>1, <1>5, <1>6 DEF Ingested, identity_mismatch, Acceptable, c
<1> QED
  BY <1>1, <1>2, <1>3, <1>7 DEF NormalOf, n, c

(* Normalized are all the offers made, and nothing else.                   *)
Normal(offers) ==
    /\ offers = [i \in 1 .. Len(offers) |-> offers[i]] /\ Len(offers) \in Nat
    /\ \A i \in 1 .. Len(offers) : \E o \in Offered : NormalOf(offers[i], i, o)
    /\ \A o \in Offered : \E i \in 1 .. Len(offers) : NormalOf(offers[i], i, o)

(* normalize_offers drops no offer the merchants made and adds none.       *)
LEMMA NormalizeOffers ==
    ASSUME req \in Requests
    PROVE  Normal(normalize_offers(collect(req.answers), req.constraints))
<1> DEFINE as == req.answers
           c == req.constraints
           qs == collect(as)
           S == {<<o.raw, connect(o.merchant)>> : o \in Offered}
           ss == [q \in DOMAIN qs |->
                    [i \in DOMAIN qs[q].offers |-> <<qs[q].offers[i], qs[q].context>>]]
           all == Joined(ss)
           N == normalize_offers(qs, c)
<1>1. as \in Seq(Range(as)) /\ \A a \in Range(as) : a.offers \in Seq(Range(a.offers))
  BY RequestsWellFormed
<1>2. /\ DOMAIN as = 1 .. Len(as) /\ Len(as) \in Nat
      /\ \A q \in 1 .. Len(as) : as[q] \in Range(as)
      /\ \A q \in 1 .. Len(as) : /\ DOMAIN as[q].offers = 1 .. Len(as[q].offers)
                                 /\ Len(as[q].offers) \in Nat
  <2>1. DOMAIN as = 1 .. Len(as) /\ Len(as) \in Nat
    BY <1>1, SMTT(30)
  <2>2. \A q \in 1 .. Len(as) : as[q] \in Range(as)
    BY <2>1 DEF Range
  <2>3. ASSUME NEW q \in 1 .. Len(as)
        PROVE  DOMAIN as[q].offers = 1 .. Len(as[q].offers) /\ Len(as[q].offers) \in Nat
    BY <1>1, <2>2, SMTT(30)
  <2> QED
    BY <2>1, <2>2, <2>3
<1>3. /\ DOMAIN qs = 1 .. Len(as)
      /\ \A q \in 1 .. Len(as) : /\ qs[q].offers = as[q].offers
                                 /\ qs[q].context = connect(as[q].merchant)
  BY <1>2 DEF collect
<1>4. ASSUME NEW q \in 1 .. Len(as), NEW i \in 1 .. Len(as[q].offers)
      PROVE  [merchant |-> as[q].merchant, raw |-> as[q].offers[i]] \in Offered
  <2>1. as[q] \in Range(as) /\ as[q].offers[i] \in Range(as[q].offers)
    BY <1>2 DEF Range
  <2> DEFINE X(a) == {[merchant |-> a.merchant, raw |-> raw] : raw \in Range(a.offers)}
  <2>2. [merchant |-> as[q].merchant, raw |-> as[q].offers[i]] \in X(as[q])
    BY <2>1
  <2>3. X(as[q]) \subseteq UNION {X(a) : a \in Range(as)}
    <3> HIDE DEF X
    <3> QED
      BY <2>1
  <2> QED
    BY <2>2, <2>3 DEF Offered
<1>5. ASSUME NEW o \in Offered
      PROVE  \E q \in 1 .. Len(as) : \E i \in 1 .. Len(as[q].offers) :
                o.merchant = as[q].merchant /\ o.raw = as[q].offers[i]
  <2>1. PICK a \in Range(as) :
            \E raw \in Range(a.offers) : o = [merchant |-> a.merchant, raw |-> raw]
    BY DEF Offered
  <2>2. PICK raw \in Range(a.offers) : o = [merchant |-> a.merchant, raw |-> raw]
    BY <2>1
  <2>3. PICK q \in 1 .. Len(as) : as[q] = a
    BY <1>2 DEF Range
  <2>4. PICK i \in 1 .. Len(as[q].offers) : as[q].offers[i] = raw
    BY <1>2, <2>3 DEF Range
  <2>5. o.merchant = a.merchant /\ o.raw = raw
    BY <2>2
  <2> QED
    BY <2>3, <2>4, <2>5
<1> HIDE DEF qs, as
<1>6. /\ ss = [q \in 1 .. Len(as) |-> ss[q]]
      /\ \A q \in 1 .. Len(as) : /\ ss[q] = [i \in 1 .. Len(as[q].offers) |-> ss[q][i]]
                                 /\ \A i \in 1 .. Len(as[q].offers) :
                                      ss[q][i] = <<as[q].offers[i], connect(as[q].merchant)>>
  BY <1>2, <1>3
<1> HIDE DEF ss
<1>7. ASSUME NEW q \in 1 .. Len(as), NEW i \in 1 .. Len(as[q].offers)
      PROVE  ss[q][i] \in S
  <2> DEFINE o == [merchant |-> as[q].merchant, raw |-> as[q].offers[i]]
  <2>1. o \in Offered /\ o.merchant = as[q].merchant /\ o.raw = as[q].offers[i]
    BY <1>4
  <2> HIDE DEF o
  <2> QED
    BY <1>6, <2>1
<1>8. ss \in Seq(Seq(S)) /\ Len(ss) = Len(as)
        /\ \A q \in 1 .. Len(as) : Len(ss[q]) = Len(as[q].offers)
  <2> HIDE DEF S
  <2>1. ASSUME NEW q \in 1 .. Len(as)
        PROVE  ss[q] \in Seq(S) /\ Len(ss[q]) = Len(as[q].offers)
    <3> DEFINE k == Len(as[q].offers)
               s == ss[q]
    <3>1. k \in Nat /\ s = [i \in 1 .. k |-> s[i]] /\ \A i \in 1 .. k : s[i] \in S
      BY <1>2, <1>6, <1>7
    <3> HIDE DEF k, s
    <3>2. s \in Seq(S) /\ Len(s) = k
      BY <3>1, IsSequence
    <3> QED
      BY <3>2 DEF k, s
  <2> QED
    BY <1>2, <1>6, <2>1, IsSequence
<1>9. /\ all \in Seq(S)
      /\ \A x : In(x, all) <=> \E q \in 1 .. Len(ss) : In(x, ss[q])
  <2> HIDE DEF S
  <2> QED
    BY <1>8, JoinedElements
<1>10. N = [i \in DOMAIN all |-> normalize_offer(i, all[i][1], all[i][2], c)]
  BY DEF normalize_offers, ss
<1> HIDE DEF all, N
<1>11. /\ DOMAIN all = 1 .. Len(all) /\ Len(all) \in Nat
       /\ Len(N) = Len(all) /\ N = [i \in 1 .. Len(N) |-> N[i]]
       /\ \A i \in 1 .. Len(all) : N[i] = normalize_offer(i, all[i][1], all[i][2], c)
  <2> HIDE DEF S
  <2> QED
    BY <1>9, <1>10, SMTT(30)
<1>12. ASSUME NEW i \in 1 .. Len(N) PROVE \E o \in Offered : NormalOf(N[i], i, o)
  <2>1. all[i] \in S
    <3> HIDE DEF S
    <3> QED
      BY <1>9, <1>11, SMTT(30)
  <2>2. PICK o \in Offered : all[i] = <<o.raw, connect(o.merchant)>>
    BY <2>1
  <2>3. N[i] = normalize_offer(i, o.raw, connect(o.merchant), c)
    BY <1>11, <2>2, SMTT(30)
  <2> QED
    BY <2>3, NormalizeOffer
<1>13. ASSUME NEW o \in Offered PROVE \E i \in 1 .. Len(N) : NormalOf(N[i], i, o)
  <2>1. PICK q \in 1 .. Len(as) : \E i \in 1 .. Len(as[q].offers) :
                o.merchant = as[q].merchant /\ o.raw = as[q].offers[i]
    BY <1>5
  <2>2. PICK k \in 1 .. Len(as[q].offers) :
                o.merchant = as[q].merchant /\ o.raw = as[q].offers[k]
    BY <2>1
  <2> DEFINE x == <<o.raw, connect(o.merchant)>>
  <2>3. ss[q][k] = x /\ k \in 1 .. Len(ss[q]) /\ q \in 1 .. Len(ss)
    BY <1>6, <1>8, <2>2
  <2>4. In(x, all)
    <3> HIDE DEF x
    <3>1. In(x, ss[q])
      BY <2>3 DEF In
    <3> QED
      BY <1>9, <2>3, <3>1
  <2>5. PICK i \in 1 .. Len(all) : all[i] = x
    BY <2>4 DEF In
  <2>6. N[i] = normalize_offer(i, o.raw, connect(o.merchant), c)
    BY <1>11, <2>5, SMTT(30)
  <2> QED
    BY <1>11, <2>6, NormalizeOffer
<1>14. Normal(N)
  BY <1>11, <1>12, <1>13 DEF Normal
<1> QED
  BY <1>14 DEF N, qs, as

-----------------------------------------------------------------------------
(* Ranking                                                                 *)

Keys == [1 .. 6 -> Int]

(* The lexicographic order of the sort keys is a strict order.             *)
LEMMA LexStrict ==
    /\ \A a \in Keys : ~LexLess(a, a)
    /\ \A a, b, c \in Keys : LexLess(a, b) /\ LexLess(b, c) => LexLess(a, c)
<1>1. ASSUME NEW a \in Keys PROVE ~LexLess(a, a)
  BY SMTT(30) DEF Keys, LexLess
<1>2. ASSUME NEW a \in Keys, NEW b \in Keys, NEW c \in Keys, LexLess(a, b), LexLess(b, c)
      PROVE  LexLess(a, c)
  <2>1. PICK i \in 1 .. 6 : a[i] < b[i] /\ \A j \in 1 .. (i - 1) : a[j] = b[j]
    BY <1>2 DEF LexLess, Keys
  <2>2. PICK k \in 1 .. 6 : b[k] < c[k] /\ \A j \in 1 .. (k - 1) : b[j] = c[j]
    BY <1>2 DEF LexLess, Keys
  <2>3. CASE i <= k
    <3>1. a[i] < c[i]
      BY <2>1, <2>2, <2>3, SMTT(30) DEF Keys
    <3>2. \A j \in 1 .. (i - 1) : a[j] = c[j]
      BY <2>1, <2>2, <2>3, SMTT(30) DEF Keys
    <3> QED
      BY <3>1, <3>2 DEF LexLess, Keys
  <2>4. CASE ~(i <= k)
    <3>1. a[k] < c[k]
      BY <2>1, <2>2, <2>4, SMTT(30) DEF Keys
    <3>2. \A j \in 1 .. (k - 1) : a[j] = c[j]
      BY <2>1, <2>2, <2>4, SMTT(30) DEF Keys
    <3> QED
      BY <3>1, <3>2 DEF LexLess, Keys
  <2> QED
    BY <2>3, <2>4
<1> QED
  BY <1>1, <1>2

(* A normalized offer has a key, which begins with the rating and price.   *)
LEMMA KeyOf ==
    ASSUME req \in Requests, NEW o \in Offered, NEW n, NEW i \in Int, NormalOf(n, i, o)
    PROVE  /\ sort_key(n) \in Keys
           /\ sort_key(n)[1] = -o.raw.rating
           /\ sort_key(n)[2] = RoundHalf(o.raw.price)
<1>1. o.merchant \in Int /\ WellFormed(o.raw)
  BY OfferedWellFormed
<1> DEFINE r == n.fields.rating.value
           p == n.fields.amount_inr.value
           t == n.fields.merchant_trust.value
           m == n.fields.merchant_id.value
           d == n.fields.product_id.value
<1>2. /\ r = o.raw.rating /\ p = RoundHalf(o.raw.price) /\ r \in Int /\ p \in Int
      /\ t \in Int /\ m \in Int /\ d \in Int /\ n.id \in Int
  <2>1. Ingested(n.fields, o.merchant, o.raw) /\ n.id = i
    BY DEF NormalOf
  <2>2. /\ o.raw.rating \in Int /\ o.raw.price \in Nat \cup {Infinity}
        /\ o.raw.product_id \in Int /\ o.merchant \in Int
    BY <1>1 DEF WellFormed
  <2>3. r = o.raw.rating /\ p = RoundHalf(o.raw.price)
    BY <2>1 DEF Ingested
  <2>4. t = trust_for(o.merchant) /\ m = o.merchant /\ d = o.raw.product_id
    BY <2>1 DEF Ingested
  <2>5. p \in Int
    BY <2>2, <2>3, RoundHalfNat
  <2>6. t \in Int
    BY <2>4, TrustScored
  <2> HIDE DEF r, p, t, m, d
  <2> QED
    BY <2>1, <2>2, <2>3, <2>4, <2>5, <2>6
<1>3. sort_key(n) = <<-r, p, -t, m, d, n.id>>
  BY DEF sort_key
<1> HIDE DEF r, p, t, m, d
<1>4. -r \in Int /\ -t \in Int
  BY <1>2, SMTT(30)
<1> QED
  BY <1>2, <1>3, <1>4, SMTT(30) DEF Keys

(* What the ranking puts first: nothing if no offer is acceptable, else an *)
(* acceptable offer that no other is rated higher than, or rated the same  *)
(* and cheaper.                                                            *)
Best(r, offers) ==
    \E i \in 1 .. Len(offers), o \in Offered :
        /\ r = offers[i] /\ NormalOf(r, i, o) /\ Acceptable(o)
        /\ \A p \in Offered : Acceptable(p) =>
              \/ p.raw.rating < o.raw.rating
              \/ /\ p.raw.rating = o.raw.rating
                 /\ RoundHalf(p.raw.price) >= RoundHalf(o.raw.price)

(* rank_offers puts the best offer first, and ranks nothing only when no   *)
(* offer is acceptable.                                                    *)
LEMMA RankOffers ==
    ASSUME req \in Requests, NEW offers, Normal(offers)
    PROVE  IF rank_offers(offers) = << >>
           THEN \A o \in Offered : ~Acceptable(o)
           ELSE Best(rank_offers(offers)[1], offers)
<1> DEFINE V == {n \in Range(offers) : n.valid}
           R == {x \in V \X V : Before(x[1], x[2])}
           card == Cardinality(V)
           pick(k) == CHOOSE n \in V : Cardinality({p \in V : Before(p, n)}) = k - 1
           ranking == rank_offers(offers)
<1>1. ranking = [k \in 1 .. card |-> pick(k)]
  BY DEF rank_offers
<1>2. DOMAIN offers = 1 .. Len(offers) /\ Len(offers) \in Nat
  BY DEF Normal
<1>3. ASSUME NEW n \in V
      PROVE  \E i \in 1 .. Len(offers), o \in Offered :
                n = offers[i] /\ NormalOf(n, i, o) /\ Acceptable(o)
  <2>1. PICK i \in 1 .. Len(offers) : n = offers[i]
    BY <1>2 DEF Range
  <2>2. PICK o \in Offered : NormalOf(offers[i], i, o)
    BY DEF Normal
  <2> QED
    BY <2>1, <2>2 DEF NormalOf
<1>4. ASSUME NEW o \in Offered, Acceptable(o)
      PROVE  \E i \in 1 .. Len(offers) : offers[i] \in V /\ NormalOf(offers[i], i, o)
  <2>1. PICK i \in 1 .. Len(offers) : NormalOf(offers[i], i, o)
    BY DEF Normal
  <2>2. offers[i] \in Range(offers) /\ offers[i].valid
    BY <1>2, <1>4, <2>1 DEF Range, NormalOf
  <2> QED
    BY <2>1, <2>2
<1>5. IsFiniteSet(V)
  <2>1. IsFiniteSet(1 .. Len(offers))
    BY <1>2, FS_Interval, SMTT(30)
  <2>2. offers \in Surjection(1 .. Len(offers), Range(offers))
    <3>1. offers = [i \in 1 .. Len(offers) |-> offers[i]]
      BY DEF Normal
    <3> QED
      BY <1>2, <3>1 DEF Surjection, Range
  <2>3. IsFiniteSet(Range(offers))
    BY <2>1, <2>2, FS_Surjection
  <2> QED
    BY <2>3, FS_Subset
<1>6. \A n \in V : sort_key(n) \in Keys
  <2> SUFFICES ASSUME NEW n \in V PROVE sort_key(n) \in Keys
    OBVIOUS
  <2>1. PICK i \in 1 .. Len(offers), o \in Offered : NormalOf(n, i, o)
    BY <1>3
  <2> QED
    BY <2>1, KeyOf, SMTT(30)
<1> HIDE DEF V
<1>7. \A x, y \in V : <<x, y>> \in R <=> Before(x, y)
  OBVIOUS
<1> HIDE DEF R
<1>8. Transitive(R, V) /\ \A x \in V : <<x, x>> \notin R
  <2>1. ASSUME NEW x \in V, NEW y \in V, NEW z \in V, Before(x, y), Before(y, z)
        PROVE  Before(x, z)
    BY <1>6, <2>1, LexStrict DEF Before
  <2>2. \A x \in V : ~Before(x, x)
    BY <1>6, LexStrict DEF Before
  <2> QED
    BY <1>7, <2>1, <2>2 DEF Transitive
<1>9. CASE V = {}
  <2>1. card = 0
    BY <1>9, FS_EmptySet
  <2>2. ranking = << >>
    BY <1>1, <2>1, SMTT(30)
  <2>3. \A o \in Offered : ~Acceptable(o)
    BY <1>4, <1>9
  <2> QED
    BY <2>2, <2>3
<1>10. CASE V # {}
  <2>1. card \in Nat /\ card # 0
    BY <1>5, <1>10, FS_EmptySet, FS_CardinalityType
  <2> DEFINE first == pick(1)
  <2>2. ranking # << >> /\ ranking[1] = first
    <3> HIDE DEF card, pick, ranking
    <3>1. 1 \in 1 .. card
      BY <2>1, SMTT(30)
    <3>2. DOMAIN ranking = 1 .. card /\ ranking[1] = pick(1)
      BY <1>1, <3>1
    <3>3. DOMAIN << >> = {}
      BY SMTT(30)
    <3> QED
      BY <3>1, <3>2, <3>3
  <2>3. PICK m \in V : \A x \in V : ~Before(x, m)
    BY <1>5, <1>7, <1>8, <1>10, FirstElement
  <2>4. Cardinality({p \in V : Before(p, m)}) = 1 - 1
    <3>1. {p \in V : Before(p, m)} = {}
      BY <2>3
    <3> QED
      BY <3>1, FS_EmptySet, SMTT(30)
  <2>5. first \in V /\ Cardinality({p \in V : Before(p, first)}) = 1 - 1
    BY <2>3, <2>4
  <2> HIDE DEF first
  <2>6. \A p \in V : ~Before(p, first)
    <3>1. IsFiniteSet({p \in V : Before(p, first)})
      BY <1>5, FS_Subset
    <3>2. {p \in V : Before(p, first)} = {}
      BY <2>5, <3>1, FS_EmptySet, SMTT(30)
    <3> QED
      BY <3>2
  <2>7. PICK i \in 1 .. Len(offers), o \in Offered :
            first = offers[i] /\ NormalOf(first, i, o) /\ Acceptable(o)
    BY <1>3, <2>5
  <2>8. ASSUME NEW p \in Offered, Acceptable(p)
        PROVE  \/ p.raw.rating < o.raw.rating
               \/ /\ p.raw.rating = o.raw.rating
                  /\ RoundHalf(p.raw.price) >= RoundHalf(o.raw.price)
    <3>1. PICK k \in 1 .. Len(offers) : offers[k] \in V /\ NormalOf(offers[k], k, p)
      BY <1>4, <2>8
    <3> DEFINE a == sort_key(offers[k])
               b == sort_key(first)
    <3>2. /\ a \in Keys /\ a[1] = -p.raw.rating /\ a[2] = RoundHalf(p.raw.price)
          /\ b \in Keys /\ b[1] = -o.raw.rating /\ b[2] = RoundHalf(o.raw.price)
      BY <2>7, <3>1, KeyOf, SMTT(30)
    <3>3. ~LexLess(a, b)
      BY <2>6, <3>1 DEF Before
    <3> HIDE DEF a, b
    <3>4. ~(a[1] < b[1]) /\ ~(a[2] < b[2] /\ a[1] = b[1])
      <4>1. \A h \in 1 .. 6 : ~(a[h] < b[h] /\ \A j \in 1 .. (h - 1) : a[j] = b[j])
        BY <3>2, <3>3 DEF LexLess, Keys
      <4>2. \A j \in 1 .. (1 - 1) : a[j] = b[j]
        BY SMTT(30)
      <4>3. a[1] = b[1] => \A j \in 1 .. (2 - 1) : a[j] = b[j]
        BY SMTT(30)
      <4> QED
        BY <4>1, <4>2, <4>3, SMTT(30)
    <3>5. /\ p.raw.rating \in Int /\ o.raw.rating \in Int
          /\ RoundHalf(p.raw.price) \in Int /\ RoundHalf(o.raw.price) \in Int
      <4>1. WellFormed(p.raw) /\ WellFormed(o.raw)
        BY OfferedWellFormed
      <4>2. /\ p.raw.rating \in Int /\ o.raw.rating \in Int
            /\ p.raw.price \in Nat \cup {Infinity} /\ o.raw.price \in Nat \cup {Infinity}
        BY <4>1 DEF WellFormed
      <4>3. RoundHalf(p.raw.price) \in Int /\ RoundHalf(o.raw.price) \in Int
        BY <4>2, RoundHalfNat
      <4> QED
        BY <4>2, <4>3
    <3> QED
      BY <3>2, <3>4, <3>5, SMTT(30)
  <2>9. Best(first, offers)
    BY <2>7, <2>8 DEF Best
  <2> QED
    BY <2>2, <2>9 DEF first
<1> QED
  BY <1>9, <1>10

-----------------------------------------------------------------------------
(* The inductive invariant                                                 *)

Early == {"CREATED", "INTENT_PARSED", "DISCOVERING"}
Bound == {"AWAITING_APPROVAL", "AUTHORIZED"}
Decided == {"POLICY_CHECKED", "CANCELLED"} \cup Bound
Late == {"OFFERS_NORMALIZED", "RANKED"} \cup Decided

Quotes == collect(req.answers)
Mismatches(offers) == Cardinality({i \in DOMAIN offers : identity_mismatch(offers[i].fields)})
EscalationsIn(cs) == Cardinality(ProtectedClaims(cs))

(* How far the mission got, and how the run stands.                        *)
Phase ==
    \/ /\ outcome = "running"
       /\ mission \in Early \cup {"OFFERS_RECEIVED", "OFFERS_NORMALIZED", "RANKED",
                                  "POLICY_CHECKED"}
    \/ outcome = "answered" /\ mission \in {"CANCELLED"} \cup Bound
    \/ outcome = "refused" /\ mission = "POLICY_CHECKED" /\ drifts > 0
    \/ outcome = "failed" /\ mission = "ABSENT"

(* The register is the user's policy; the entries made so far and those    *)
(* the claims still to be adjudicated will cause add up.                   *)
Adjudicated ==
    /\ mission \notin Early \cup {"ABSENT"} =>
         register = protected_policy_values(req.constraints)
    /\ mission \notin {"OFFERS_RECEIVED", "ABSENT"} => claims = << >>
    /\ mission \in Early => violations = 0
    /\ mission = "OFFERS_RECEIVED" =>
         /\ claims \in Seq(Range(claims)) /\ Range(claims) \subseteq Range(AllClaims(Quotes))
         /\ violations \in Nat
         /\ violations + EscalationsIn(claims) = EscalationsIn(AllClaims(Quotes))

(* The kernel's offers, ranking and decision are functions of the request; *)
(* the rows are those of the offers until one is edited.                   *)
Derived ==
    /\ mission \in Late =>
         /\ normalized = normalize_offers(Quotes, req.constraints)
         /\ \A o \in Offered : o.raw.price # Infinity
         /\ \A i \in DOMAIN normalized : Encodable(OfferValues(normalized[i]).offered_at)
         /\ violations = EscalationsIn(AllClaims(Quotes)) + Mismatches(normalized)
                           + IF outcome = "refused" THEN 1 ELSE 0
         /\ drifts = 0 => rows = [i \in DOMAIN normalized |-> Row(normalized[i])]
    /\ mission \in Late \ {"OFFERS_NORMALIZED"} => ranked = rank_offers(normalized)
    /\ decision = IF mission \in Decided
                  THEN evaluate(req.constraints, ranked, req.quantity)
                  ELSE NoDecision

(* What the binding checked still holds of the row and the authorization.  *)
BoundAsChecked ==
    IF mission \in Bound
    THEN LET id == ranked[1].id
         IN /\ decision.decision # "DENY"
            /\ StillSelected(id, offer_version(ranked[1])) /\ Buildable(id)
            /\ auth = issued(BoundTransaction(id))
    ELSE auth = NoAuth

(* Why a request is rolled back.                                           *)
FailureExplained == outcome = "failed" => Unkeepable

RunInv ==
    /\ req \in Requests /\ drifts \in Nat
    /\ Phase /\ Adjudicated /\ Derived /\ BoundAsChecked /\ FailureExplained

(* The claims of all the offers are one sequence.                          *)
LEMMA ClaimsAreSequence ==
    ASSUME req \in Requests
    PROVE  AllClaims(Quotes) \in Seq(Range(AllClaims(Quotes)))
<1> DEFINE as == req.answers
           qs == Quotes
           claim(q, i, k) == [merchant |-> qs[q].context.merchant_id,
                              field    |-> qs[q].offers[i].claims[k].field,
                              value    |-> qs[q].offers[i].claims[k].value,
                              writable |-> qs[q].offers[i].claims[k].writable]
           S == {claim(q, i, k) : q \in Nat, i \in Nat, k \in Nat}
           of(q, i) == [k \in DOMAIN qs[q].offers[i].claims |-> claim(q, i, k)]
           from(q) == [i \in DOMAIN qs[q].offers |-> of(q, i)]
           ss == [q \in DOMAIN qs |-> Joined(from(q))]
<1>1. as \in Seq(Range(as)) /\ \A a \in Range(as) : a.offers \in Seq(Range(a.offers))
  BY RequestsWellFormed
<1>2. \A a \in Range(as) : \A raw \in Range(a.offers) : raw.claims \in Seq(Range(raw.claims))
  BY RequestsWellFormed DEF WellFormed
<1>3. /\ DOMAIN as = 1 .. Len(as) /\ Len(as) \in Nat
      /\ \A q \in 1 .. Len(as) : as[q] \in Range(as)
  BY <1>1, SMTT(30) DEF Range
<1>4. DOMAIN qs = 1 .. Len(as) /\ \A q \in 1 .. Len(as) : qs[q].offers = as[q].offers
  BY <1>3 DEF collect, Quotes
<1> HIDE DEF qs, as
<1>5. ASSUME NEW q \in 1 .. Len(as)
      PROVE  /\ DOMAIN qs[q].offers = 1 .. Len(qs[q].offers) /\ Len(qs[q].offers) \in Nat
             /\ \A i \in 1 .. Len(qs[q].offers) :
                  /\ DOMAIN qs[q].offers[i].claims = 1 .. Len(qs[q].offers[i].claims)
                  /\ Len(qs[q].offers[i].claims) \in Nat
  <2> DEFINE os == qs[q].offers
  <2>1. os \in Seq(Range(os)) /\ \A raw \in Range(os) : raw.claims \in Seq(Range(raw.claims))
    BY <1>1, <1>2, <1>3, <1>4
  <2> HIDE DEF os
  <2>2. DOMAIN os = 1 .. Len(os) /\ Len(os) \in Nat
    BY <2>1, SMTT(30)
  <2>3. ASSUME NEW i \in 1 .. Len(os)
        PROVE  DOMAIN os[i].claims = 1 .. Len(os[i].claims) /\ Len(os[i].claims) \in Nat
    <3>1. os[i].claims \in Seq(Range(os[i].claims))
      BY <2>1, <2>2 DEF Range
    <3> QED
      BY <3>1, SMTT(30)
  <2> QED
    BY <2>2, <2>3 DEF os
<1>6. ASSUME NEW q \in 1 .. Len(as), NEW i \in 1 .. Len(qs[q].offers)
      PROVE  of(q, i) \in Seq(S)
  <2> DEFINE k == Len(qs[q].offers[i].claims)
             s == of(q, i)
  <2>1. k \in Nat /\ DOMAIN qs[q].offers[i].claims = 1 .. k
    BY <1>5
  <2>2. q \in Nat /\ i \in Nat
    BY <1>3, <1>5, SMTT(30)
  <2>3. \A j \in 1 .. k : claim(q, i, j) \in S
    <3> HIDE DEF claim
    <3> QED
      BY <2>1, <2>2, SMTT(30)
  <2> HIDE DEF k, S, claim
  <2>4. s = [j \in 1 .. k |-> s[j]] /\ \A j \in 1 .. k : s[j] \in S
    BY <2>1, <2>3
  <2> HIDE DEF s
  <2>5. s \in Seq(S)
    BY <2>1, <2>4, IsSequence
  <2> QED
    BY <2>5 DEF s
<1> HIDE DEF S, of
<1>7. ASSUME NEW q \in 1 .. Len(as)
      PROVE  Joined(from(q)) \in Seq(S)
  <2> DEFINE k == Len(qs[q].offers)
             s == from(q)
             T == Seq(S)
  <2>1. k \in Nat /\ DOMAIN qs[q].offers = 1 .. k
    BY <1>5
  <2>2. \A i \in 1 .. k : of(q, i) \in T
    BY <1>6
  <2> HIDE DEF k, T
  <2>3. s = [i \in 1 .. k |-> s[i]] /\ \A i \in 1 .. k : s[i] \in T
    BY <2>1, <2>2
  <2> HIDE DEF s
  <2>4. s \in Seq(T)
    BY <2>1, <2>3, IsSequence
  <2>5. Joined(s) \in Seq(S)
    BY <2>4, JoinedElements DEF T
  <2> QED
    BY <2>5 DEF s
<1> HIDE DEF from
<1>8. Joined(ss) \in Seq(S)
  <2> DEFINE k == Len(as)
             T == Seq(S)
  <2>1. k \in Nat /\ DOMAIN qs = 1 .. k /\ \A q \in 1 .. k : Joined(from(q)) \in T
    BY <1>3, <1>4, <1>7
  <2> HIDE DEF k, T
  <2>2. ss = [q \in 1 .. k |-> ss[q]] /\ \A q \in 1 .. k : ss[q] \in T
    BY <2>1
  <2> HIDE DEF ss
  <2>3. ss \in Seq(T)
    BY <2>1, <2>2, IsSequence
  <2> QED
    BY <2>3, JoinedElements DEF T
<1>9. AllClaims(qs) = Joined(ss)
  BY DEF AllClaims, from, of
<1> HIDE DEF ss
<1> DEFINE r == Joined(ss)
<1>10. r \in Seq(Range(r))
  <2>1. r \in Seq(S)
    BY <1>8
  <2> HIDE DEF r
  <2>2. Len(r) \in Nat /\ r = [i \in 1 .. Len(r) |-> r[i]]
    BY <2>1, SMTT(30)
  <2>3. \A i \in 1 .. Len(r) : r[i] \in Range(r)
    BY <2>1, <2>2 DEF Range
  <2> QED
    BY <2>2, <2>3, IsSequence
<1> QED
  BY <1>9, <1>10 DEF qs

(* The tail of a sequence, place by place.                                 *)
LEMMA TailOf ==
    ASSUME NEW S, NEW s \in Seq(S), s # << >>
    PROVE  /\ Len(s) \in Nat /\ Len(s) > 0 /\ Head(s) = s[1]
           /\ DOMAIN Tail(s) = 1 .. (Len(s) - 1)
           /\ Tail(s) = [i \in 1 .. (Len(s) - 1) |-> Tail(s)[i]]
           /\ \A i \in 1 .. (Len(s) - 1) : Tail(s)[i] = s[i + 1]
<1>1. Len(s) \in Nat /\ Len(s) > 0 /\ Head(s) = s[1]
  BY SMTT(30)
<1>2. Tail(s) \in Seq(S) /\ Len(Tail(s)) = Len(s) - 1
  BY <1>1, SMTT(30)
<1>3. DOMAIN Tail(s) = 1 .. (Len(s) - 1)
  BY <1>1, <1>2, SMTT(30)
<1>4. Tail(s) = [i \in 1 .. (Len(s) - 1) |-> Tail(s)[i]]
  <2> DEFINE t == Tail(s)
             m == Len(s) - 1
  <2>1. t \in Seq(S) /\ Len(t) = m /\ DOMAIN t = 1 .. m
    BY <1>2, <1>3
  <2> HIDE DEF t, m
  <2>2. t = [i \in 1 .. m |-> t[i]]
    BY <2>1, SMTT(30)
  <2> QED
    BY <2>2 DEF t, m
<1>5. \A i \in 1 .. (Len(s) - 1) : Tail(s)[i] = s[i + 1]
  BY <1>1, <1>2, SMTT(30)
<1> QED
  BY <1>1, <1>3, <1>4, <1>5

(* Taking the first claim off the list takes it off the count.             *)
LEMMA EscalationsAhead ==
    ASSUME NEW cs, cs \in Seq(Range(cs))
    PROVE  /\ EscalationsIn(cs) \in Nat
           /\ cs = << >> => EscalationsIn(cs) = 0
           /\ cs # << >> =>
                /\ Tail(cs) \in Seq(Range(Tail(cs)))
                /\ EscalationsIn(Tail(cs)) \in Nat
                /\ EscalationsIn(cs) = EscalationsIn(Tail(cs))
                     + IF Head(cs).field \in PROTECTED_POLICY_FIELDS THEN 1 ELSE 0
<1> DEFINE n == Len(cs)
           P == ProtectedClaims(cs)
<1>1. n \in Nat /\ DOMAIN cs = 1 .. n /\ cs = [i \in 1 .. n |-> cs[i]]
  BY SMTT(30)
<1>2. P \subseteq 1 .. n /\ IsFiniteSet(P) /\ Cardinality(P) \in Nat
  <2>1. P \subseteq 1 .. n
    <3>1. P \subseteq DOMAIN cs
      BY DEF ProtectedClaims
    <3> HIDE DEF P, n
    <3> QED
      BY <1>1, <3>1
  <2> HIDE DEF P, n
  <2>2. IsFiniteSet(1 .. n)
    <3>1. 1 \in Int /\ n \in Int
      BY <1>1, SMTT(30)
    <3> QED
      BY <3>1, FS_Interval
  <2> QED
    BY <2>1, <2>2, FS_Subset, FS_CardinalityType
<1>3. ASSUME cs = << >> PROVE Cardinality(P) = 0
  <2>1. n = 0
    BY <1>3
  <2>2. P = {}
    BY <1>2, <2>1, SMTT(30)
  <2> QED
    BY <2>2, FS_EmptySet
<1>4. ASSUME cs # << >>
      PROVE  /\ Tail(cs) \in Seq(Range(Tail(cs)))
             /\ EscalationsIn(Tail(cs)) \in Nat
             /\ Cardinality(P) = EscalationsIn(Tail(cs))
                  + IF Head(cs).field \in PROTECTED_POLICY_FIELDS THEN 1 ELSE 0
  <2> DEFINE t == Tail(cs)
             Q == ProtectedClaims(t)
             R == P \ {1}
             f == [i \in Q |-> i + 1]
  <2>1. n > 0 /\ n - 1 \in Nat /\ Head(cs) = cs[1]
    BY <1>1, <1>4, SMTT(30)
  <2>2. /\ DOMAIN t = 1 .. (n - 1) /\ t = [i \in 1 .. (n - 1) |-> t[i]]
        /\ \A i \in 1 .. (n - 1) : t[i] = cs[i + 1]
    BY <1>4, TailOf
  <2> HIDE DEF t, n
  <2>3. t \in Seq(Range(t))
    <3>1. \A i \in 1 .. (n - 1) : t[i] \in Range(t)
      BY <2>2 DEF Range
    <3> DEFINE m == n - 1
               T == Range(t)
    <3>2. m \in Nat /\ t = [i \in 1 .. m |-> t[i]] /\ \A i \in 1 .. m : t[i] \in T
      BY <2>1, <2>2, <3>1
    <3> HIDE DEF m, T
    <3>3. t \in Seq(T)
      BY <3>2, IsSequence
    <3> QED
      BY <3>3 DEF T
  <2>4. Q \subseteq 1 .. (n - 1) /\ IsFiniteSet(Q)
    <3>1. Q \subseteq 1 .. (n - 1)
      BY <2>2 DEF ProtectedClaims
    <3>2. IsFiniteSet(1 .. (n - 1))
      BY <2>1, FS_Interval, SMTT(30)
    <3> HIDE DEF Q
    <3> QED
      BY <3>1, <3>2, FS_Subset
  <2>5. \A i \in 1 .. (n - 1) : i \in Q <=> i + 1 \in P
    <3> SUFFICES ASSUME NEW i \in 1 .. (n - 1) PROVE i \in Q <=> i + 1 \in P
      OBVIOUS
    <3> DEFINE j == i + 1
    <3>0. j \in 1 .. n
      BY <1>1, SMTT(30)
    <3>1. i \in DOMAIN t /\ i + 1 \in DOMAIN cs /\ t[i] = cs[i + 1]
      <4>1. i \in DOMAIN t /\ t[i] = cs[j]
        BY <2>2
      <4> HIDE DEF j
      <4>2. j \in DOMAIN cs
        BY <1>1, <3>0
      <4> QED
        BY <4>1, <4>2 DEF j
    <3>2. i \in Q <=> t[i].field \in PROTECTED_POLICY_FIELDS
      BY <3>1 DEF ProtectedClaims
    <3>3. i + 1 \in P <=> cs[i + 1].field \in PROTECTED_POLICY_FIELDS
      BY <3>1 DEF ProtectedClaims
    <3> QED
      BY <3>1, <3>2, <3>3
  <2>6. 1 \in P <=> Head(cs).field \in PROTECTED_POLICY_FIELDS
    BY <1>1, <2>1, SMTT(30) DEF ProtectedClaims
  <2> HIDE DEF P, Q
  <2>7. f \in Bijection(Q, R)
    <3>1. \A i \in Q : i + 1 \in R
      BY <2>4, <2>5, SMTT(30)
    <3>2. \A i, j \in Q : i + 1 = j + 1 => i = j
      BY <2>4, SMTT(30)
    <3>3. ASSUME NEW j \in R PROVE \E i \in Q : i + 1 = j
      <4>1. j \in 2 .. n
        BY <1>1, <1>2, SMTT(30)
      <4>2. j - 1 \in 1 .. (n - 1) /\ (j - 1) + 1 = j
        BY <1>1, <4>1, SMTT(30)
      <4> QED
        BY <2>5, <4>2
    <3> HIDE DEF R
    <3>4. f \in [Q -> R] /\ \A i \in Q : f[i] = i + 1
      BY <3>1
    <3> HIDE DEF f
    <3>5. f \in Injection(Q, R)
      <4>1. \A i, j \in Q : f[i] = f[j] => i = j
        BY <3>2, <3>4
      <4> QED
        BY <3>4, <4>1 DEF Injection, IsInjective
    <3>6. f \in Surjection(Q, R)
      BY <3>3, <3>4 DEF Surjection
    <3> QED
      BY <3>5, <3>6 DEF Bijection
  <2>8. Cardinality(R) = Cardinality(Q) /\ IsFiniteSet(R) /\ Cardinality(Q) \in Nat
    <3>1. ExistsBijection(Q, R)
      BY <2>7 DEF ExistsBijection
    <3> HIDE DEF R
    <3> QED
      BY <2>4, <3>1, FS_Bijection, FS_CardinalityType
  <2>9. Cardinality(P) = Cardinality(Q) + IF 1 \in P THEN 1 ELSE 0
    <3>1. CASE 1 \in P
      BY <1>2, <2>8, <3>1, FS_RemoveElement, SMTT(30)
    <3>2. CASE 1 \notin P
      <4>1. R = P
        BY <3>2
      <4> HIDE DEF R
      <4> QED
        BY <2>8, <3>2, <4>1, SMTT(30)
    <3> QED
      BY <3>1, <3>2
  <2> QED
    BY <2>3, <2>6, <2>8, <2>9 DEF EscalationsIn, Q, t
<1> QED
  BY <1>2, <1>3, <1>4 DEF EscalationsIn

(* A merchant's claim on a protected field escalates and writes nothing.   *)
LEMMA ClaimEscalates ==
    ASSUME NEW c, NEW f \in PROTECTED_POLICY_FIELDS, NEW v, NEW s
    PROVE  LET policy == protected_policy_values(c)
           IN /\ is_protected(policy, f)
              /\ apply(policy, f, untrusted(v, s)).register = policy
              /\ apply(policy, f, untrusted(v, s)).escalation
<1> DEFINE policy == protected_policy_values(c)
           m == merge_keep_higher(policy[f], untrusted(v, s))
<1>1. /\ policy = [g \in PROTECTED_POLICY_FIELDS |-> policy[g]]
      /\ policy[f] = authoritative(c[f], <<"user-policy", f>>)
  BY DEF protected_policy_values
<1>2. policy[f].authority = 60 /\ untrusted(v, s).authority = 10
  BY <1>1, ProvenancedValues, SMTT(30)
<1> HIDE DEF policy
<1>3. m.value = policy[f] /\ m.escalation
  BY <1>2, SMTT(30) DEF merge_keep_higher, can_write
<1> HIDE DEF m
<1>4. /\ apply(policy, f, untrusted(v, s)).register = [policy EXCEPT ![f] = m.value]
      /\ apply(policy, f, untrusted(v, s)).escalation = m.escalation
  BY DEF apply, m
<1>5. [policy EXCEPT ![f] = m.value] = policy
  BY <1>1, <1>3
<1> QED
  BY <1>1, <1>3, <1>4, <1>5 DEF is_protected, policy

(* The register holds the user's values, and no field but the protected.   *)
LEMMA PolicyValues ==
    ASSUME NEW c
    PROVE  LET policy == protected_policy_values(c)
           IN /\ DOMAIN policy = PROTECTED_POLICY_FIELDS
              /\ \A f \in PROTECTED_POLICY_FIELDS : policy[f].value = c[f]
<1> DEFINE policy == protected_policy_values(c)
<1>1. DOMAIN policy = PROTECTED_POLICY_FIELDS
  BY DEF protected_policy_values
<1>2. ASSUME NEW f \in PROTECTED_POLICY_FIELDS PROVE policy[f].value = c[f]
  <2>1. policy[f] = authoritative(c[f], <<"user-policy", f>>)
    BY DEF protected_policy_values
  <2> QED
    BY <2>1, ProvenancedValues, SMTT(30)
<1> QED
  BY <1>1, <1>2

(* The two capabilities the run asks for are registered.                   *)
LEMMA RunIsCapable ==
    /\ permits(capabilities_for("buyer-agent"), "payment.propose")
    /\ enforce_registered(capabilities_for("security-kernel"), "authorization.issue")
<1> DEFINE b == buyer_agent_capabilities
           k == security_kernel_capabilities
           x == payment_executor_capabilities
<1>1. /\ b.principal = "buyer-agent" /\ k.principal = "security-kernel"
      /\ x.principal = "payment-executor"
  BY DEF buyer_agent_capabilities, security_kernel_capabilities,
         payment_executor_capabilities, CapabilitySet
<1>2. "payment.propose" \notin b.deny /\ "payment.propose" \in b.allow
  BY DEF buyer_agent_capabilities, CapabilitySet
<1>3. "authorization.issue" \notin k.deny /\ "authorization.issue" \in k.allow
  BY DEF security_kernel_capabilities, CapabilitySet
<1>4. Registry = {b, k, x}
  BY DEF Registry
<1> HIDE DEF b, k, x
<1>5. capabilities_for("buyer-agent") = b /\ capabilities_for("security-kernel") = k
  BY <1>1, <1>4 DEF capabilities_for
<1>6. permits(capabilities_for("buyer-agent"), "payment.propose")
  BY <1>2, <1>5 DEF permits
<1>7. enforce_registered(capabilities_for("security-kernel"), "authorization.issue")
  BY <1>1, <1>3, <1>5 DEF enforce_registered, permits
<1> QED
  BY <1>6, <1>7

(* Equal fingerprints are fingerprints of equal values, as far as the      *)
(* binding reads them.                                                     *)
LEMMA VersionTells ==
    ASSUME NEW a, NEW b, compute_offer_version(a) = compute_offer_version(b)
    PROVE  /\ a.merchant_id = b.merchant_id /\ a.product_id = b.product_id
           /\ a.amount_inr = b.amount_inr /\ a.currency = b.currency
<1>1. \A o : /\ compute_offer_version(o).fields.merchant_id = Text(o.merchant_id)
             /\ compute_offer_version(o).fields.product_id = Text(o.product_id)
             /\ compute_offer_version(o).fields.amount_inr = Number(o.amount_inr)
             /\ compute_offer_version(o).fields.currency = Text(o.currency)
  BY DEF compute_offer_version, canonical_digest
<1>2. \A v : Text(v)[2] = v /\ Number(v)[2] = v
  BY DEF Text, Number
<1> QED
  BY <1>1, <1>2, SMTT(30)

(* The values of an offer that go into its row and its fingerprint.        *)
LEMMA ValuesOf ==
    ASSUME NEW n
    PROVE  /\ OfferValues(n).merchant_id = n.fields.merchant_id.value
           /\ OfferValues(n).product_id = n.fields.product_id.value
           /\ OfferValues(n).amount_inr = n.fields.amount_inr.value
           /\ OfferValues(n).currency = n.fields.currency.value
           /\ OfferValues(n).rating = n.fields.rating.value
           /\ OfferValues(n).in_stock = n.fields.in_stock.value
           /\ OfferValues(n).offered_at = n.fields.offered_at.value
BY DEF OfferValues

(* An offer can be fingerprinted exactly when its timestamp came with a    *)
(* zone, and then the fingerprint survives the trip through the database.  *)
LEMMA RowKeepsVersion ==
    ASSUME req \in Requests, NEW o \in Offered, NEW n, NEW i, NormalOf(n, i, o)
    PROVE  /\ Encodable(OfferValues(n).offered_at) <=> o.raw.offered_at.aware
           /\ Encodable(OfferValues(n).offered_at) =>
                compute_offer_version(Live(Row(n))) = offer_version(n)
<1> DEFINE t == o.raw.offered_at
           u == OfferValues(n).offered_at
           v == OfferValues(n)
           w == Live(Row(n))
<1>1. t \in [clock : Int, aware : BOOLEAN, offset : Int]
  BY OfferedWellFormed DEF WellFormed
<1>2. u = normalized_instant(t)
  BY ValuesOf DEF NormalOf, Ingested
<1> HIDE DEF t, u
<1>3. u.aware <=> t.aware
  BY <1>1, <1>2 DEF normalized_instant, as_utc, Aware
<1>4. ASSUME u.aware PROVE compute_offer_version(w) = compute_offer_version(v)
  <2>1. u.clock \in Int /\ u.offset = 0
    BY <1>1, <1>2, <1>3, <1>4, SMTT(30) DEF normalized_instant, as_utc, Aware, Instant
  <2>2. Instant(as_utc(Stored(u))) = Instant(u)
    BY <2>1, SMTT(30) DEF Stored, as_utc, Aware, Naive, Instant
  <2>3. Row(n).values = [v EXCEPT !.offered_at = Stored(u)]
    BY DEF Row, u
  <2>4. w = [Row(n).values EXCEPT !.offered_at = as_utc(Row(n).values.offered_at)]
    BY DEF Live
  <2>5. v = [f \in {"merchant_id", "product_id", "amount_inr", "currency", "rating",
                    "in_stock", "offered_at"} |-> v[f]]
    BY DEF OfferValues
  <2> HIDE DEF v, w
  <2>6. /\ w.merchant_id = v.merchant_id /\ w.product_id = v.product_id
        /\ w.amount_inr = v.amount_inr /\ w.currency = v.currency
        /\ w.rating = v.rating /\ w.in_stock = v.in_stock
        /\ w.offered_at = as_utc(Stored(u))
    BY <2>3, <2>4, <2>5
  <2>7. Time(w.offered_at) = Time(v.offered_at)
    BY <2>2, <2>6 DEF Time, u, v
  <2> QED
    BY <2>6, <2>7 DEF compute_offer_version
<1> QED
  BY <1>3, <1>4 DEF t, u, Encodable, offer_version

(* The offer o stands first: the kernel's r was made of it, the user       *)
(* accepts it, and no acceptable offer is better.                          *)
Chosen(r, o) ==
    /\ r.id \in DOMAIN normalized /\ r.id # NoOffer /\ r = normalized[r.id]
    /\ NormalOf(r, r.id, o) /\ Acceptable(o)
    /\ \A p \in Offered : Acceptable(p) =>
          \/ p.raw.rating < o.raw.rating
          \/ /\ p.raw.rating = o.raw.rating
             /\ RoundHalf(p.raw.price) >= RoundHalf(o.raw.price)

(* rank_offers on what normalize_offers returned.                          *)
LEMMA RankedFirst ==
    ASSUME req \in Requests, normalized = normalize_offers(Quotes, req.constraints),
           ranked = rank_offers(normalized)
    PROVE  IF ranked = << >>
           THEN \A o \in Offered : ~Acceptable(o)
           ELSE \E o \in Offered : Chosen(ranked[1], o)
<1>1. Normal(normalized)
  BY NormalizeOffers DEF Quotes
<1>2. IF ranked = << >>
      THEN \A o \in Offered : ~Acceptable(o)
      ELSE Best(ranked[1], normalized)
  BY <1>1, RankOffers
<1>3. ASSUME Best(ranked[1], normalized)
      PROVE  \E o \in Offered : Chosen(ranked[1], o)
  <2> DEFINE r == ranked[1]
  <2>1. PICK i \in 1 .. Len(normalized), o \in Offered :
            /\ r = normalized[i] /\ NormalOf(r, i, o) /\ Acceptable(o)
            /\ \A p \in Offered : Acceptable(p) =>
                  \/ p.raw.rating < o.raw.rating
                  \/ /\ p.raw.rating = o.raw.rating
                     /\ RoundHalf(p.raw.price) >= RoundHalf(o.raw.price)
    BY <1>3 DEF Best
  <2> HIDE DEF r
  <2>2. r.id = i
    BY <2>1 DEF NormalOf
  <2>3. i \in DOMAIN normalized /\ i # NoOffer
    BY <1>1, SMTT(30) DEF Normal, NoOffer
  <2>4. Chosen(r, o)
    BY <2>1, <2>2, <2>3 DEF Chosen
  <2> QED
    BY <2>4 DEF r
<1> QED
  BY <1>2, <1>3

(* A price times a quantity is a whole number, and zero only for a price   *)
(* of zero.                                                                *)
LEMMA Amounts ==
    \A p \in Nat, q \in Nat \ {0} : p * q \in Nat /\ (p # 0 => p * q >= 1)
BY SMTT(30)

(* The decision on a ranking: for the first offer, within the limits.      *)
LEMMA Evaluated ==
    ASSUME req \in Requests, NEW o \in Offered, ranked # << >>, Chosen(ranked[1], o),
           \A p \in Offered : p.raw.price # Infinity,
           decision = evaluate(req.constraints, ranked, req.quantity)
    PROVE  /\ decision.selected = ranked[1].id
           /\ decision.amount = RoundHalf(o.raw.price) * req.quantity
           /\ ranked[1].fields.amount_inr.value = RoundHalf(o.raw.price)
           /\ decision.amount \in Nat
           /\ RoundHalf(o.raw.price) # 0 => decision.amount >= 1
           /\ decision.decision \in {"DENY", "ALLOW", "REQUIRE_APPROVAL"}
           /\ decision.decision # "DENY" => decision.amount <= req.constraints.hard_limit_inr
           /\ decision.decision = "ALLOW" =>
                decision.amount <= req.constraints.soft_budget_inr
           /\ decision.decision = "REQUIRE_APPROVAL" =>
                decision.amount > req.constraints.soft_budget_inr
<1> DEFINE r == ranked[1]
           p == RoundHalf(o.raw.price)
           q == req.quantity
           hard == req.constraints.hard_limit_inr
           soft == req.constraints.soft_budget_inr
<1>1. r.fields.amount_inr.value = p
  BY DEF Chosen, NormalOf, Ingested
<1>2. o.raw.price \in Nat
  BY OfferedWellFormed DEF WellFormed
<1>3. p \in Nat
  BY <1>2, RoundHalfNat
<1>4. q \in Nat \ {0} /\ hard \in Int /\ soft \in Int
  BY RequestsWellFormed
<1>5. /\ decision.selected = r.id /\ decision.amount = r.fields.amount_inr.value * q
      /\ decision.decision = IF r.fields.amount_inr.value * q > hard THEN "DENY"
                             ELSE IF r.fields.amount_inr.value * q > soft
                                  THEN "REQUIRE_APPROVAL" ELSE "ALLOW"
  BY DEF evaluate
<1> DEFINE a == p * q
<1>6. a \in Nat /\ (p # 0 => a >= 1)
  BY <1>3, <1>4, Amounts
<1>7. /\ decision.selected = r.id /\ decision.amount = a
      /\ decision.decision = IF a > hard THEN "DENY"
                             ELSE IF a > soft THEN "REQUIRE_APPROVAL" ELSE "ALLOW"
  BY <1>1, <1>5
<1> HIDE DEF r, p, q, hard, soft, a
<1>8. /\ decision.decision \in {"DENY", "ALLOW", "REQUIRE_APPROVAL"}
      /\ decision.decision # "DENY" => a <= hard
      /\ decision.decision = "ALLOW" => a <= soft
      /\ decision.decision = "REQUIRE_APPROVAL" => a > soft
  BY <1>4, <1>6, <1>7, SMTT(30)
<1> QED
  BY <1>1, <1>6, <1>7, <1>8 DEF r, p, q, hard, soft, a

-----------------------------------------------------------------------------
(* The invariant holds at the start and is kept by every step              *)

(* A request just received.                                                *)
LEMMA InitRun == Init => RunInv
BY SMTT(30) DEF Init, RunInv, Phase, Adjudicated, Derived, BoundAsChecked, FailureExplained,
       Early, Bound, Decided, Late

(* A rollback with a reason.                                               *)
LEMMA FailKeeps ==
    ASSUME RunInv, fail, Unkeepable PROVE RunInv'
<1> USE DEF Early, Bound, Decided, Late
<1>1. /\ outcome' = "failed" /\ mission' = "ABSENT" /\ decision' = NoDecision
      /\ auth' = NoAuth
      /\ UNCHANGED <<req, claims, ranked, drifts>>
  BY DEF fail
<1>2. req' \in Requests /\ drifts' \in Nat /\ Phase'
  BY <1>1 DEF RunInv, Phase
<1>3. Adjudicated'
  BY <1>1 DEF Adjudicated
<1>4. Derived'
  BY <1>1 DEF Derived
<1>5. BoundAsChecked'
  BY <1>1 DEF BoundAsChecked
<1>6. FailureExplained'
  <2>1. Offered' = Offered
    BY <1>1 DEF Offered
  <2>2. Unkeepable'
    BY <1>1, <2>1 DEF Unkeepable, Unpayable
  <2> QED
    BY <2>2 DEF FailureExplained
<1> QED
  BY <1>2, <1>3, <1>4, <1>5, <1>6 DEF RunInv

(* Parsing the intent and discovery only move the mission, unless the      *)
(* user's limits do not fit.                                               *)
LEMMA DiscoverKeeps ==
    ASSUME RunInv, parse_intent \/ discover PROVE RunInv'
<1> USE DEF Early, Bound, Decided, Late
<1>1. CASE fail
  <2> DEFINE soft == req.constraints.soft_budget_inr
             hard == req.constraints.hard_limit_inr
  <2>1. ~req.writable \/ ~(soft <= MaxInteger) \/ ~(hard <= MaxInteger)
    BY <1>1 DEF parse_intent, discover, fail, transition, Fits
  <2>2. soft \in Int /\ hard \in Int /\ soft <= hard /\ MaxInteger \in Nat
    BY RequestsWellFormed, ColumnsHoldNumbers DEF RunInv
  <2> HIDE DEF soft, hard
  <2>3. ~req.writable \/ hard > MaxInteger
    BY <2>1, <2>2, SMTT(30)
  <2> QED
    BY <1>1, <2>3, FailKeeps DEF Unkeepable, hard
<1>2. CASE ~fail
  <2>1. /\ outcome = "running" /\ mission \in {"CREATED", "INTENT_PARSED"}
        /\ mission' \in {"INTENT_PARSED", "DISCOVERING"}
        /\ UNCHANGED <<req, claims, violations, decision, auth, outcome, drifts>>
    BY <1>2 DEF parse_intent, discover, transition
  <2>2. req' \in Requests /\ drifts' \in Nat /\ Phase'
    BY <2>1 DEF RunInv, Phase
  <2>3. Adjudicated'
    BY <2>1 DEF RunInv, Adjudicated
  <2>4. Derived'
    BY <2>1 DEF RunInv, Derived
  <2>5. BoundAsChecked'
    BY <2>1 DEF RunInv, BoundAsChecked
  <2>6. FailureExplained'
    BY <2>1 DEF FailureExplained
  <2> QED
    BY <2>2, <2>3, <2>4, <2>5, <2>6 DEF RunInv
<1> QED
  BY <1>1, <1>2

(* Receiving the offers installs the user's policy and lists the claims.   *)
LEMMA ReceiveKeeps ==
    ASSUME RunInv, receive_offers PROVE RunInv'
<1> USE DEF Early, Bound, Decided, Late
<1>1. CASE \E a \in Range(req.answers) : a.raises
  <2>1. fail
    BY <1>1 DEF receive_offers
  <2> QED
    BY <1>1, <2>1, FailKeeps DEF Unkeepable
<1>2. CASE ~\E a \in Range(req.answers) : a.raises
  <2>1. /\ outcome = "running" /\ mission = "DISCOVERING" /\ mission' = "OFFERS_RECEIVED"
        /\ register' = protected_policy_values(req.constraints)
        /\ claims' = AllClaims(Quotes)
        /\ UNCHANGED <<req, violations, decision, auth, outcome, drifts>>
    BY <1>2 DEF receive_offers, transition, Quotes
  <2>2. req \in Requests /\ req' \in Requests /\ drifts' \in Nat /\ Phase'
    BY <2>1 DEF RunInv, Phase
  <2>3. Adjudicated'
    <3> DEFINE cs == AllClaims(Quotes)
    <3>1. cs \in Seq(Range(cs)) /\ EscalationsIn(cs) \in Nat
      BY <2>2, ClaimsAreSequence, EscalationsAhead
    <3>2. violations = 0
      BY <2>1 DEF RunInv, Adjudicated
    <3>3. Quotes' = Quotes
      BY <2>1 DEF Quotes
    <3>4. claims' = cs /\ cs' = cs
      BY <2>1, <3>3
    <3> HIDE DEF cs
    <3> QED
      BY <2>1, <3>1, <3>2, <3>4, SMTT(30) DEF Adjudicated, cs
  <2>4. Derived'
    BY <2>1 DEF RunInv, Derived
  <2>5. BoundAsChecked'
    BY <2>1 DEF RunInv, BoundAsChecked
  <2>6. FailureExplained'
    BY <2>1 DEF FailureExplained
  <2> QED
    BY <2>2, <2>3, <2>4, <2>5, <2>6 DEF RunInv
<1> QED
  BY <1>1, <1>2

(* What adjudicating a claim does: one on a protected field leaves an      *)
(* entry, or ends the run if it cannot be written; and either way the      *)
(* register stands.                                                        *)
LEMMA Adjudication ==
    ASSUME RunInv, adjudicate_claim
    PROVE  LET protected == Head(claims).field \in PROTECTED_POLICY_FIELDS
           IN /\ outcome = "running" /\ mission = "OFFERS_RECEIVED" /\ claims # << >>
              /\ IF protected /\ ~Head(claims).writable
                 THEN fail
                 ELSE /\ claims' = Tail(claims)
                      /\ register' = protected_policy_values(req.constraints)
                      /\ violations' = violations + IF protected THEN 1 ELSE 0
                      /\ UNCHANGED <<req, mission, normalized, rows, ranked, decision,
                                     auth, outcome, drifts>>
<1> DEFINE policy == protected_policy_values(req.constraints)
           c == Head(claims)
           f == c.field
           u == untrusted(c.value, <<"merchant", c.merchant>>)
<1>1. outcome = "running" /\ claims # << >>
  BY DEF adjudicate_claim
<1>2. mission = "OFFERS_RECEIVED"
  BY <1>1 DEF RunInv, Phase, Adjudicated, Early
<1>3. register = policy /\ violations \in Nat
  BY <1>2 DEF RunInv, Adjudicated, Early
<1>4. CASE f \in PROTECTED_POLICY_FIELDS
  <2>1. /\ is_protected(policy, f) /\ apply(policy, f, u).register = policy
        /\ apply(policy, f, u).escalation
    BY <1>4, ClaimEscalates, SMTT(30)
  <2> HIDE DEF policy
  <2>2. CASE ~c.writable
    BY <1>1, <1>2, <1>3, <1>4, <2>1, <2>2 DEF adjudicate_claim
  <2>3. CASE c.writable
    <3>1. /\ claims' = Tail(claims) /\ register' = apply(register, f, u).register
          /\ violations' = violations + IF apply(register, f, u).escalation THEN 1 ELSE 0
          /\ UNCHANGED <<req, mission, normalized, rows, ranked, decision, auth, outcome,
                         drifts>>
      BY <1>3, <2>1, <2>3 DEF adjudicate_claim
    <3>2. register' = policy /\ violations' = violations + 1
      <4> HIDE DEF f, u
      <4> QED
        BY <1>3, <2>1, <3>1
    <3> QED
      BY <1>1, <1>2, <1>4, <2>3, <3>1, <3>2 DEF policy
  <2> QED
    BY <2>2, <2>3
<1>5. CASE f \notin PROTECTED_POLICY_FIELDS
  <2>1. ~is_protected(policy, f)
    BY <1>5, PolicyValues DEF is_protected
  <2> HIDE DEF policy
  <2>2. /\ claims' = Tail(claims) /\ register' = register /\ violations' = violations
        /\ UNCHANGED <<req, mission, normalized, rows, ranked, decision, auth, outcome,
                       drifts>>
    BY <1>3, <2>1 DEF adjudicate_claim
  <2>3. violations' = violations + 0
    BY <1>3, <2>2, SMTT(30)
  <2> QED
    BY <1>1, <1>2, <1>3, <1>5, <2>2, <2>3 DEF policy
<1> QED
  BY <1>4, <1>5

(* One claim less to adjudicate, and its entry made.                       *)
LEMMA AdjudicateKeeps ==
    ASSUME RunInv, adjudicate_claim PROVE RunInv'
<1> USE DEF Early, Bound, Decided, Late
<1> DEFINE f == Head(claims).field
           total == EscalationsIn(AllClaims(Quotes))
<1>1. /\ outcome = "running" /\ claims # << >> /\ mission = "OFFERS_RECEIVED"
  BY Adjudication
<1>2. /\ claims \in Seq(Range(claims)) /\ Range(claims) \subseteq Range(AllClaims(Quotes))
      /\ violations \in Nat /\ violations + EscalationsIn(claims) = total
  BY <1>1 DEF RunInv, Adjudicated
<1>3. CASE f \in PROTECTED_POLICY_FIELDS /\ ~Head(claims).writable
  <2>1. fail
    BY <1>3, Adjudication
  <2>2. Head(claims) = claims[1] /\ 1 \in DOMAIN claims
    BY <1>1, <1>2, SMTT(30)
  <2>3. Head(claims) \in Range(AllClaims(collect(req.answers)))
    BY <1>2, <2>2 DEF Range, Quotes
  <2> QED
    BY <1>3, <2>1, <2>3, FailKeeps DEF Unkeepable
<1>4. CASE ~(f \in PROTECTED_POLICY_FIELDS /\ ~Head(claims).writable)
  <2>1. /\ claims' = Tail(claims) /\ register' = protected_policy_values(req.constraints)
        /\ violations' = violations + IF f \in PROTECTED_POLICY_FIELDS THEN 1 ELSE 0
        /\ UNCHANGED <<req, mission, normalized, rows, ranked, decision, auth, outcome,
                       drifts>>
    BY <1>4, Adjudication
  <2>2. req' \in Requests /\ drifts' \in Nat /\ Phase'
    BY <1>1, <2>1 DEF RunInv, Phase
  <2>3. Adjudicated'
    <3>1. /\ Tail(claims) \in Seq(Range(Tail(claims)))
          /\ EscalationsIn(claims) \in Nat /\ EscalationsIn(Tail(claims)) \in Nat
          /\ EscalationsIn(claims) = EscalationsIn(Tail(claims))
               + IF f \in PROTECTED_POLICY_FIELDS THEN 1 ELSE 0
      BY <1>1, <1>2, EscalationsAhead
    <3>2. Quotes' = Quotes /\ total' = total
      BY <2>1 DEF Quotes
    <3>3. violations' \in Nat /\ violations' + EscalationsIn(claims') = total'
      <4> HIDE DEF f, total
      <4> QED
        BY <1>2, <2>1, <3>1, <3>2, SMTT(30)
    <3>4. Range(Tail(claims)) \subseteq Range(claims)
      <4>1. /\ Len(claims) \in Nat /\ DOMAIN claims = 1 .. Len(claims)
            /\ DOMAIN Tail(claims) = 1 .. (Len(claims) - 1)
            /\ \A i \in 1 .. (Len(claims) - 1) : Tail(claims)[i] = claims[i + 1]
        BY <1>1, <1>2, TailOf, SMTT(30)
      <4>2. \A i \in 1 .. (Len(claims) - 1) : i + 1 \in 1 .. Len(claims)
        BY <4>1, SMTT(30)
      <4> QED
        BY <4>1, <4>2 DEF Range
    <3>5. Range(claims') \subseteq Range(AllClaims(Quotes'))
      BY <1>2, <2>1, <3>2, <3>4
    <3> HIDE DEF f
    <3> QED
      BY <1>1, <2>1, <3>1, <3>3, <3>5 DEF Adjudicated
  <2>4. Derived'
    BY <1>1, <2>1 DEF RunInv, Derived
  <2>5. BoundAsChecked'
    BY <1>1, <2>1 DEF RunInv, BoundAsChecked
  <2>6. FailureExplained'
    BY <1>1, <2>1 DEF FailureExplained
  <2> QED
    BY <2>2, <2>3, <2>4, <2>5, <2>6 DEF RunInv
<1> QED
  BY <1>3, <1>4

(* The entries to expect are a number.                                     *)
LEMMA CountsAreNat ==
    ASSUME req \in Requests
    PROVE  /\ EscalationsIn(AllClaims(Quotes)) \in Nat
           /\ Mismatches(normalize_offers(Quotes, req.constraints)) \in Nat
<1> DEFINE offers == normalize_offers(Quotes, req.constraints)
           M == {i \in DOMAIN offers : identity_mismatch(offers[i].fields)}
<1>1. EscalationsIn(AllClaims(Quotes)) \in Nat
  BY ClaimsAreSequence, EscalationsAhead
<1>2. Normal(offers)
  BY NormalizeOffers DEF Quotes
<1> HIDE DEF offers
<1>3. DOMAIN offers = 1 .. Len(offers) /\ Len(offers) \in Nat
  BY <1>2 DEF Normal
<1>4. IsFiniteSet(DOMAIN offers)
  BY <1>3, FS_Interval, SMTT(30)
<1>5. IsFiniteSet(M)
  BY <1>4, FS_Subset
<1>6. Mismatches(offers) \in Nat
  BY <1>5, FS_CardinalityType DEF Mismatches
<1> QED
  BY <1>1, <1>6 DEF offers

(* An offer that cannot be stored came as one that cannot be recorded.     *)
LEMMA StorableOffer ==
    ASSUME req \in Requests, NEW o \in Offered, NEW n, NEW i, NormalOf(n, i, o),
           ~Storable(n)
    PROVE  Unrecordable(o)
<1>1. CASE ~Encodable(OfferValues(n).offered_at)
  BY <1>1, RowKeepsVersion DEF Unrecordable
<1>2. CASE ~Fits(OfferValues(n).amount_inr)
  <2> DEFINE p == RoundHalf(o.raw.price)
  <2>1. OfferValues(n).amount_inr = p
    BY ValuesOf DEF NormalOf, Ingested
  <2>2. o.raw.price \in Nat \cup {Infinity}
    BY OfferedWellFormed DEF WellFormed
  <2>3. p \in Int /\ MaxInteger \in Nat
    BY <2>2, RoundHalfNat, ColumnsHoldNumbers
  <2>4. ~(p <= MaxInteger)
    BY <1>2, <2>1 DEF Fits
  <2> HIDE DEF p
  <2>5. p > MaxInteger
    BY <2>3, <2>4, SMTT(30)
  <2> QED
    BY <2>5 DEF Unrecordable, p
<1> QED
  BY <1>1, <1>2 DEF Storable

(* Normalization fails for an offer that cannot be recorded only, and      *)
(* counts the offers under a false name.                                   *)
LEMMA NormalizeKeeps ==
    ASSUME RunInv, normalize PROVE RunInv'
<1> USE DEF Early, Bound, Decided, Late
<1> DEFINE offers == normalize_offers(Quotes, req.constraints)
           Unkept == \/ \E o \in Offered : o.raw.price = Infinity \/ ~o.raw.writable
                     \/ \E i \in DOMAIN offers : ~Storable(offers[i])
<1>1. /\ outcome = "running" /\ mission = "OFFERS_RECEIVED" /\ claims = << >>
      /\ req \in Requests
      /\ IF ~ProtectedUnchanged \/ Unkept
         THEN fail
         ELSE /\ normalized' = offers
              /\ rows' = [i \in DOMAIN offers |-> Row(offers[i])]
              /\ violations' = violations + Mismatches(offers)
              /\ mission' = "OFFERS_NORMALIZED"
              /\ UNCHANGED <<req, register, claims, ranked, decision, auth, outcome, drifts>>
  BY DEF normalize, transition, Quotes, Mismatches, RunInv, ingest_raises
<1>2. ProtectedUnchanged
  <2>1. register = protected_policy_values(req.constraints)
    BY <1>1 DEF RunInv, Adjudicated
  <2> QED
    BY <2>1, PolicyValues DEF ProtectedUnchanged
<1>3. CASE Unkept
  <2>1. fail
    BY <1>1, <1>3
  <2>2. \E o \in Offered : Unrecordable(o)
    <3>1. CASE \E o \in Offered : o.raw.price = Infinity \/ ~o.raw.writable
      BY <3>1 DEF Unrecordable
    <3>2. ASSUME NEW i \in DOMAIN offers, ~Storable(offers[i])
          PROVE  \E o \in Offered : Unrecordable(o)
      <4>1. Normal(offers)
        BY <1>1, NormalizeOffers DEF Quotes
      <4> HIDE DEF offers
      <4>2. i \in 1 .. Len(offers)
        BY <3>2, <4>1 DEF Normal
      <4>3. PICK o \in Offered : NormalOf(offers[i], i, o)
        BY <4>1, <4>2 DEF Normal
      <4> QED
        BY <1>1, <3>2, <4>3, StorableOffer
    <3> QED
      BY <1>3, <3>1, <3>2
  <2> QED
    BY <2>1, <2>2, FailKeeps DEF Unkeepable
<1>4. CASE ~Unkept
  <2>1. /\ normalized' = offers
        /\ rows' = [i \in DOMAIN offers |-> Row(offers[i])]
        /\ violations' = violations + Mismatches(offers)
        /\ mission' = "OFFERS_NORMALIZED"
        /\ UNCHANGED <<req, register, claims, ranked, decision, auth, outcome, drifts>>
    <3> HIDE DEF Unkept, offers
    <3> QED
      BY <1>1, <1>2, <1>4
  <2>2. req' \in Requests /\ drifts' \in Nat /\ Phase'
    BY <1>1, <2>1 DEF RunInv, Phase
  <2>3. Adjudicated'
    BY <1>1, <2>1 DEF RunInv, Adjudicated
  <2>4. Derived'
    <3> DEFINE total == EscalationsIn(AllClaims(Quotes))
    <3>1. violations = total
      <4>1. EscalationsIn(claims) = 0
        BY <1>1, EscalationsAhead DEF RunInv, Adjudicated
      <4>2. violations \in Nat /\ violations + EscalationsIn(claims) = total
        BY <1>1 DEF RunInv, Adjudicated
      <4> HIDE DEF total
      <4> QED
        BY <4>1, <4>2, SMTT(30)
    <3>2. Quotes' = Quotes
      BY <2>1 DEF Quotes
    <3>3. normalized' = normalize_offers(Quotes', req'.constraints)
      BY <2>1, <3>2
    <3>4. /\ \A i \in DOMAIN normalized' : Encodable(OfferValues(normalized'[i]).offered_at)
          /\ \A o \in Offered' : o.raw.price # Infinity
      <4>1. Offered' = Offered
        BY <2>1 DEF Offered
      <4> HIDE DEF offers
      <4> QED
        BY <1>4, <2>1, <4>1 DEF Storable
    <3>5. violations' = EscalationsIn(AllClaims(Quotes')) + Mismatches(normalized') + 0
      <4>1. Mismatches(offers) \in Nat
        BY <1>1, CountsAreNat
      <4>2. violations \in Nat
        BY <1>1 DEF RunInv, Adjudicated
      <4> HIDE DEF offers
      <4> QED
        BY <2>1, <3>1, <3>2, <4>1, <4>2, SMTT(30)
    <3>6. rows' = [i \in DOMAIN normalized' |-> Row(normalized'[i])]
      <4> HIDE DEF offers
      <4> QED
        BY <2>1
    <3>7. decision' = NoDecision
      BY <1>1, <2>1 DEF RunInv, Derived
    <3> QED
      BY <1>1, <2>1, <3>3, <3>4, <3>5, <3>6, <3>7 DEF Derived
  <2>5. BoundAsChecked'
    BY <1>1, <2>1 DEF RunInv, BoundAsChecked
  <2>6. FailureExplained'
    BY <1>1, <2>1 DEF FailureExplained
  <2> QED
    BY <2>2, <2>3, <2>4, <2>5, <2>6 DEF RunInv
<1> QED
  BY <1>3, <1>4

(* Ranking, the decision and a denial leave what they were computed from;  *)
(* the decision fails for an amount too large.                             *)
LEMMA JudgeKeeps ==
    ASSUME RunInv, rank \/ decide \/ deny PROVE RunInv'
<1> USE DEF Early, Bound, Decided, Late
<1>1. CASE decide /\ fail
  <2> DEFINE p == ranked[1].fields.amount_inr.value
             q == req.quantity
  <2>1. ~(evaluate(req.constraints, ranked, q).amount <= MaxInteger) /\ mission = "RANKED"
    BY <1>1, RunIsCapable DEF decide, Fits, fail, transition
  <2>2. /\ req \in Requests /\ normalized = normalize_offers(Quotes, req.constraints)
        /\ ranked = rank_offers(normalized) /\ \A o \in Offered : o.raw.price # Infinity
    BY <2>1 DEF RunInv, Derived
  <2>3. MaxInteger \in Nat
    BY ColumnsHoldNumbers
  <2>4. ranked # << >>
    <3>1. ~(0 > MaxInteger) /\ 0 <= MaxInteger
      BY <2>3, SMTT(30)
    <3> QED
      BY <2>1, <3>1 DEF evaluate
  <2>5. p * q \in Nat
    <3>1. PICK o \in Offered : Chosen(ranked[1], o)
      BY <2>2, <2>4, RankedFirst
    <3>2. o.raw.price \in Nat
      BY <2>2, OfferedWellFormed DEF WellFormed
    <3>3. p = RoundHalf(o.raw.price)
      BY <3>1 DEF Chosen, NormalOf, Ingested
    <3>4. p \in Nat /\ q \in Nat \ {0}
      BY <2>2, <3>2, <3>3, RoundHalfNat, RequestsWellFormed
    <3> HIDE DEF p, q
    <3> QED
      BY <3>4, Amounts
  <2>6. ~(p * q <= MaxInteger)
    BY <2>1, <2>4 DEF evaluate
  <2> DEFINE a == p * q
  <2>7. a > MaxInteger
    <3> HIDE DEF a
    <3>1. a \in Nat /\ ~(a <= MaxInteger)
      BY <2>5, <2>6 DEF a
    <3> QED
      BY <2>3, <3>1, SMTT(30)
  <2> QED
    BY <1>1, <2>4, <2>7, FailKeeps DEF Unkeepable, Unpayable
<1>2. CASE ~(decide /\ fail)
  <2>1. /\ outcome = "running" /\ outcome' \in {"running", "answered"}
        /\ mission \in {"OFFERS_NORMALIZED", "RANKED", "POLICY_CHECKED"}
        /\ mission' \in {"RANKED", "POLICY_CHECKED", "CANCELLED"}
        /\ outcome' = "answered" <=> mission' = "CANCELLED"
        /\ mission' = "RANKED" => ranked' = rank_offers(normalized) /\ decision' = decision
        /\ mission' = "RANKED" => mission = "OFFERS_NORMALIZED"
        /\ mission' = "POLICY_CHECKED" =>
             /\ decision' = evaluate(req.constraints, ranked, req.quantity)
             /\ mission = "RANKED" /\ ranked' = ranked
        /\ mission' = "CANCELLED" =>
             /\ mission = "POLICY_CHECKED" /\ ranked' = ranked /\ decision' = decision
        /\ UNCHANGED <<req, register, claims, violations, normalized, rows, auth, drifts>>
    <3>1. CASE rank
      BY <3>1 DEF rank, transition
    <3>2. CASE decide
      BY <1>2, <3>2, RunIsCapable DEF decide, transition
    <3>3. CASE deny
      BY <3>3 DEF deny, transition
    <3> QED
      BY <3>1, <3>2, <3>3
  <2>2. req' \in Requests /\ drifts' \in Nat /\ Phase'
    BY <2>1 DEF RunInv, Phase
  <2>3. Adjudicated'
    BY <2>1 DEF RunInv, Adjudicated
  <2>4. Derived'
    <3>1. Quotes' = Quotes /\ Offered' = Offered
      BY <2>1 DEF Quotes, Offered
    <3>2. /\ normalized' = normalize_offers(Quotes', req'.constraints)
          /\ \A o \in Offered' : o.raw.price # Infinity
          /\ \A i \in DOMAIN normalized' : Encodable(OfferValues(normalized'[i]).offered_at)
          /\ violations' = EscalationsIn(AllClaims(Quotes')) + Mismatches(normalized')
                             + IF outcome' = "refused" THEN 1 ELSE 0
          /\ drifts' = 0 => rows' = [i \in DOMAIN normalized' |-> Row(normalized'[i])]
      BY <2>1, <3>1 DEF RunInv, Derived
    <3>3. ranked' = rank_offers(normalized')
      BY <2>1 DEF RunInv, Derived
    <3>4. decision' = IF mission' \in Decided
                      THEN evaluate(req'.constraints, ranked', req'.quantity)
                      ELSE NoDecision
      BY <2>1 DEF RunInv, Derived
    <3> QED
      BY <2>1, <3>2, <3>3, <3>4 DEF Derived
  <2>5. BoundAsChecked'
    BY <2>1 DEF RunInv, BoundAsChecked
  <2>6. FailureExplained'
    BY <2>1 DEF FailureExplained
  <2> QED
    BY <2>2, <2>3, <2>4, <2>5, <2>6 DEF RunInv
<1> QED
  BY <1>1, <1>2

(* An edit of a row changes nothing but the rows, and is counted.          *)
LEMMA DriftKeeps ==
    ASSUME RunInv, Drift PROVE RunInv'
<1> USE DEF Early, Bound, Decided, Late
<1>1. /\ outcome = "running" /\ mission \in {"OFFERS_NORMALIZED", "RANKED", "POLICY_CHECKED"}
      /\ drifts' = drifts + 1
      /\ UNCHANGED <<req, mission, register, claims, violations, normalized, ranked,
                     decision, auth, outcome>>
  BY DEF Drift
<1>2. req' \in Requests /\ drifts' \in Nat /\ Phase' /\ drifts' # 0
  BY <1>1, SMTT(30) DEF RunInv, Phase
<1>3. Adjudicated'
  BY <1>1 DEF RunInv, Adjudicated
<1>4. Derived'
  <2>1. Quotes' = Quotes /\ Offered' = Offered
    BY <1>1 DEF Quotes, Offered
  <2> QED
    BY <1>1, <1>2, <2>1 DEF RunInv, Derived
<1>5. BoundAsChecked'
  BY <1>1 DEF RunInv, BoundAsChecked
<1>6. FailureExplained'
  BY <1>1 DEF FailureExplained
<1> QED
  BY <1>2, <1>3, <1>4, <1>5, <1>6 DEF RunInv

(* At and after the binding there is a first offer, and an unedited row    *)
(* passes.                                                                 *)
LEMMA AtBinding ==
    ASSUME RunInv, mission \in Decided, decision.decision # "DENY"
    PROVE  /\ req \in Requests /\ ranked # << >>
           /\ decision = evaluate(req.constraints, ranked, req.quantity)
           /\ \A o \in Offered : o.raw.price # Infinity
           /\ \E o \in Offered : Chosen(ranked[1], o)
           /\ drifts = 0 => StillSelected(ranked[1].id, offer_version(ranked[1]))
<1> USE DEF Early, Bound, Decided, Late
<1>1. /\ req \in Requests
      /\ normalized = normalize_offers(Quotes, req.constraints)
      /\ \A o \in Offered : o.raw.price # Infinity
      /\ \A i \in DOMAIN normalized : Encodable(OfferValues(normalized[i]).offered_at)
      /\ drifts = 0 => rows = [i \in DOMAIN normalized |-> Row(normalized[i])]
      /\ ranked = rank_offers(normalized)
      /\ decision = evaluate(req.constraints, ranked, req.quantity)
  BY DEF RunInv, Derived
<1>2. ranked # << >>
  BY <1>1 DEF evaluate
<1>3. \E o \in Offered : Chosen(ranked[1], o)
  BY <1>1, <1>2, RankedFirst
<1>4. ASSUME drifts = 0 PROVE StillSelected(ranked[1].id, offer_version(ranked[1]))
  <2> DEFINE r == ranked[1]
             id == r.id
  <2>1. PICK o \in Offered : Chosen(r, o)
    BY <1>3
  <2> HIDE DEF r
  <2>2. /\ id \in DOMAIN normalized /\ r = normalized[id]
        /\ NormalOf(r, id, o) /\ Acceptable(o)
    BY <2>1 DEF Chosen
  <2>3. compute_offer_version(Live(Row(r))) = offer_version(r)
    BY <1>1, <2>2, RowKeepsVersion
  <2>4. id \in DOMAIN rows /\ rows[id] = Row(r)
    BY <1>1, <1>4, <2>2
  <2>5. Row(r).version = offer_version(r) /\ Row(r).valid
    <3>1. Row(r).version = offer_version(r) /\ Row(r).valid = r.valid
      BY DEF Row
    <3>2. r.valid
      BY <2>2 DEF NormalOf
    <3> QED
      BY <3>1, <3>2
  <2>6. StillSelected(id, offer_version(r))
    BY <2>3, <2>4, <2>5 DEF StillSelected
  <2> QED
    BY <2>6 DEF r
<1> QED
  BY <1>1, <1>2, <1>3, <1>4

(* A row that passes gives a transaction, unless the price is zero.        *)
LEMMA SelectedIsBuildable ==
    ASSUME RunInv, mission = "POLICY_CHECKED", decision.decision # "DENY",
           StillSelected(ranked[1].id, offer_version(ranked[1])),
           ranked[1].fields.amount_inr.value # 0
    PROVE  Buildable(ranked[1].id)
<1> USE DEF Decided
<1> DEFINE r == ranked[1]
           id == r.id
           row == rows[id]
<1>1. PICK o \in Offered : Chosen(r, o)
  BY AtBinding
<1>2. /\ decision.selected = id /\ decision.amount = RoundHalf(o.raw.price) * req.quantity
      /\ r.fields.amount_inr.value = RoundHalf(o.raw.price)
      /\ RoundHalf(o.raw.price) # 0 => decision.amount >= 1
      /\ decision.decision \in {"DENY", "ALLOW", "REQUIRE_APPROVAL"}
  BY <1>1, AtBinding, Evaluated
<1>3. row.valid /\ compute_offer_version(Live(row)) = compute_offer_version(OfferValues(r))
  BY DEF StillSelected, offer_version
<1>4. row.values.amount_inr = r.fields.amount_inr.value
  <2>1. Live(row).amount_inr = OfferValues(r).amount_inr
    BY <1>3, VersionTells
  <2>2. Live(row).amount_inr = row.values.amount_inr
    BY SMTT(30) DEF Live
  <2> QED
    BY <2>1, <2>2, ValuesOf
<1> QED
  BY <1>2, <1>3, <1>4 DEF Buildable

(* The binding: refused only after an edit, rolled back only for a price   *)
(* of zero, else the authorization is for what was checked.                *)
LEMMA BindKeeps ==
    ASSUME RunInv, bind PROVE RunInv'
<1> USE DEF Early, Bound, Decided, Late
<1> DEFINE id == ranked[1].id
           ok == StillSelected(id, offer_version(ranked[1]))
<1>1. /\ outcome = "running" /\ mission = "POLICY_CHECKED" /\ decision.decision # "DENY"
      /\ claims = << >>
  BY DEF bind, RunInv, Adjudicated
<1>2. req \in Requests /\ drifts \in Nat
  BY DEF RunInv
<1>3. CASE ~ok
  <2>1. /\ outcome' = "refused" /\ violations' = violations + 1
        /\ UNCHANGED <<req, mission, register, claims, normalized, rows, ranked, decision,
                       auth, drifts>>
    BY <1>3 DEF bind
  <2>2. drifts > 0
    BY <1>1, <1>2, <1>3, AtBinding, SMTT(30)
  <2>3. req' \in Requests /\ drifts' \in Nat /\ Phase'
    BY <1>1, <1>2, <2>1, <2>2 DEF Phase
  <2>4. Adjudicated'
    BY <1>1, <2>1 DEF RunInv, Adjudicated
  <2>5. Derived'
    <3> DEFINE e == EscalationsIn(AllClaims(Quotes))
               m == Mismatches(normalized)
    <3>1. Quotes' = Quotes /\ Offered' = Offered
      BY <2>1 DEF Quotes, Offered
    <3>2. violations = e + m + 0 /\ normalized = normalize_offers(Quotes, req.constraints)
      BY <1>1 DEF RunInv, Derived
    <3>3. e \in Nat /\ m \in Nat
      BY <1>2, <3>2, CountsAreNat
    <3>4. e' = e /\ m' = m
      BY <2>1, <3>1
    <3>5. violations' = e' + m' + 1
      <4> HIDE DEF e, m
      <4> QED
        BY <2>1, <3>2, <3>3, <3>4, SMTT(30)
    <3> QED
      BY <1>1, <2>1, <3>1, <3>5 DEF RunInv, Derived
  <2>6. BoundAsChecked'
    BY <1>1, <2>1 DEF RunInv, BoundAsChecked
  <2>7. FailureExplained'
    BY <2>1 DEF FailureExplained
  <2> QED
    BY <2>3, <2>4, <2>5, <2>6, <2>7 DEF RunInv
<1>4. CASE ok /\ ~Buildable(id)
  <2>1. fail
    BY <1>4 DEF bind
  <2>2. ranked # << >> /\ ranked[1].fields.amount_inr.value = 0
    BY <1>1, <1>4, AtBinding, SelectedIsBuildable
  <2> QED
    BY <2>1, <2>2, FailKeeps DEF Unkeepable, Unpayable
<1>5. CASE ok /\ Buildable(id)
  <2>1. /\ auth' = issued(BoundTransaction(id)) /\ outcome' = "answered"
        /\ mission' \in {"AWAITING_APPROVAL", "AUTHORIZED"}
        /\ UNCHANGED <<req, register, claims, violations, normalized, rows, ranked,
                       decision, drifts>>
    BY <1>5, RunIsCapable DEF bind, transition
  <2>2. req' \in Requests /\ drifts' \in Nat /\ Phase'
    BY <1>2, <2>1 DEF Phase
  <2>3. Adjudicated'
    BY <1>1, <2>1 DEF RunInv, Adjudicated
  <2>4. Derived'
    <3>1. Quotes' = Quotes /\ Offered' = Offered
      BY <2>1 DEF Quotes, Offered
    <3> QED
      BY <1>1, <2>1, <3>1 DEF RunInv, Derived
  <2>5. BoundAsChecked'
    <3>1. ok' = ok
      BY <2>1 DEF StillSelected
    <3>2. id' = id /\ Buildable(id)' = Buildable(id)
      BY <2>1 DEF Buildable
    <3>3. issued(BoundTransaction(id))' = issued(BoundTransaction(id))
      BY <2>1 DEF issued, BoundTransaction
    <3> QED
      BY <1>1, <1>5, <2>1, <3>1, <3>2, <3>3 DEF BoundAsChecked
  <2>6. FailureExplained'
    BY <2>1 DEF FailureExplained
  <2> QED
    BY <2>2, <2>3, <2>4, <2>5, <2>6 DEF RunInv
<1> QED
  BY <1>3, <1>4, <1>5

(* Every step keeps the invariant.                                         *)
LEMMA NextRun == RunInv /\ [Next]_vars => RunInv'
<1> SUFFICES ASSUME RunInv, [Next]_vars PROVE RunInv'
  OBVIOUS
<1>1. CASE UNCHANGED vars
  <2> USE <1>1 DEF vars
  <2>1. Quotes' = Quotes /\ Offered' = Offered
    BY DEF Quotes, Offered
  <2>2. Phase' /\ Adjudicated' /\ Derived'
    BY <2>1 DEF RunInv, Phase, Adjudicated, Derived
  <2>3. BoundAsChecked'
    BY DEF RunInv, BoundAsChecked, StillSelected, Buildable, issued, BoundTransaction
  <2>4. FailureExplained'
    BY <2>1 DEF RunInv, FailureExplained, Unkeepable, Unpayable
  <2> QED
    BY <2>2, <2>3, <2>4 DEF RunInv
<1>2. CASE parse_intent \/ discover
  BY <1>2, DiscoverKeeps
<1>3. CASE receive_offers
  BY <1>3, ReceiveKeeps
<1>4. CASE adjudicate_claim
  BY <1>4, AdjudicateKeeps
<1>5. CASE normalize
  BY <1>5, NormalizeKeeps
<1>6. CASE rank \/ decide \/ deny
  BY <1>6, JudgeKeeps
<1>7. CASE bind
  BY <1>7, BindKeeps
<1>8. CASE Drift
  BY <1>8, DriftKeeps
<1> QED
  BY <1>1, <1>2, <1>3, <1>4, <1>5, <1>6, <1>7, <1>8 DEF Next, Run

(* The invariant holds in every state of every run.                        *)
THEOREM RunInvariant == Spec => []RunInv
BY InitRun, NextRun, PTL DEF Spec

-----------------------------------------------------------------------------
(* What the run promises                                                   *)

(* An authorization is for the first offer, at its price, within limits.   *)
LEMMA AuthorizationKept ==
    ASSUME RunInv, auth # NoAuth
    PROVE  LET txn == auth.txn
           IN /\ \E o \in Offered :
                   /\ Acceptable(o)
                   /\ txn.merchant_id = o.merchant /\ txn.product_id = o.raw.product_id
                   /\ txn.currency = req.constraints.currency
                   /\ txn.amount_inr = RoundHalf(o.raw.price) * req.quantity
              /\ txn.amount_inr \in 1..req.constraints.hard_limit_inr
              /\ (txn.amount_inr > req.constraints.soft_budget_inr)
                   <=> (auth.scheme = "USER_ED25519" /\ auth.status = "PENDING")
<1> DEFINE r == ranked[1]
           id == r.id
           row == rows[id]
           txn == auth.txn
<1>1. /\ mission \in Decided /\ decision.decision # "DENY"
      /\ StillSelected(id, offer_version(r)) /\ Buildable(id)
      /\ auth = issued(BoundTransaction(id))
  BY DEF RunInv, BoundAsChecked, Decided
<1>2. PICK o \in Offered : Chosen(r, o)
  BY <1>1, AtBinding
<1>3. req \in Requests /\ ranked # << >> /\ decision = evaluate(req.constraints, ranked, req.quantity)
  BY <1>1, AtBinding
<1>4. /\ decision.amount = RoundHalf(o.raw.price) * req.quantity
      /\ decision.decision \in {"ALLOW", "REQUIRE_APPROVAL"}
      /\ decision.amount \in Nat /\ decision.amount <= req.constraints.hard_limit_inr
      /\ decision.decision = "ALLOW" => decision.amount <= req.constraints.soft_budget_inr
      /\ decision.decision = "REQUIRE_APPROVAL" =>
           decision.amount > req.constraints.soft_budget_inr
  BY <1>1, <1>2, <1>3, AtBinding, Evaluated
<1>5. /\ req.constraints.hard_limit_inr \in Int /\ req.constraints.soft_budget_inr \in Int
      /\ decision.amount >= 1
  <2>1. decision.amount >= 1
    BY <1>1 DEF Buildable
  <2>2. /\ req.constraints.hard_limit_inr \in Int
        /\ req.constraints.soft_budget_inr \in Int
    BY <1>3, RequestsWellFormed
  <2> QED
    BY <2>1, <2>2
<1>6. /\ txn = BoundTransaction(id)
      /\ auth.status = IF decision.decision = "REQUIRE_APPROVAL" THEN "PENDING" ELSE "ACTIVE"
      /\ auth.scheme = IF decision.decision = "REQUIRE_APPROVAL"
                       THEN "USER_ED25519" ELSE "POLICY_AUTO"
  BY <1>1 DEF issued
<1>7. /\ txn.merchant_id = row.values.merchant_id /\ txn.product_id = row.values.product_id
      /\ txn.currency = row.values.currency /\ txn.amount_inr = decision.amount
  BY <1>6, SMTT(30) DEF BoundTransaction
<1>8. /\ row.values.merchant_id = r.fields.merchant_id.value
      /\ row.values.product_id = r.fields.product_id.value
      /\ row.values.currency = r.fields.currency.value
  <2>1. compute_offer_version(Live(row)) = compute_offer_version(OfferValues(r))
    BY <1>1 DEF StillSelected, offer_version
  <2>2. /\ Live(row).merchant_id = OfferValues(r).merchant_id
        /\ Live(row).product_id = OfferValues(r).product_id
        /\ Live(row).currency = OfferValues(r).currency
    BY <2>1, VersionTells
  <2>3. /\ Live(row).merchant_id = row.values.merchant_id
        /\ Live(row).product_id = row.values.product_id
        /\ Live(row).currency = row.values.currency
    BY SMTT(30) DEF Live
  <2> QED
    BY <2>2, <2>3, ValuesOf
<1>9. /\ Acceptable(o) /\ r.fields.merchant_id.value = o.merchant
      /\ r.fields.product_id.value = o.raw.product_id
      /\ r.fields.currency.value = Upper(o.raw.currency)
  BY <1>2 DEF Chosen, NormalOf, Ingested
<1>10. Upper(o.raw.currency) = req.constraints.currency
  BY <1>9 DEF Acceptable
<1> HIDE DEF r, id, row, txn
<1>11. /\ Acceptable(o) /\ txn.merchant_id = o.merchant /\ txn.product_id = o.raw.product_id
       /\ txn.currency = req.constraints.currency
       /\ txn.amount_inr = RoundHalf(o.raw.price) * req.quantity
  BY <1>4, <1>7, <1>8, <1>9, <1>10
<1>12. txn.amount_inr \in 1..req.constraints.hard_limit_inr
  BY <1>4, <1>5, <1>7, SMTT(30)
<1>13. (txn.amount_inr > req.constraints.soft_budget_inr)
         <=> (auth.scheme = "USER_ED25519" /\ auth.status = "PENDING")
  BY <1>4, <1>5, <1>6, <1>7, SMTT(30)
<1> QED
  BY <1>11, <1>12, <1>13 DEF txn

(* A decision is about the best acceptable offer, or there was none.       *)
LEMMA DecisionKept ==
    ASSUME RunInv, decision # NoDecision
    PROVE  LET chosen == normalized[decision.selected].fields
           IN IF decision.selected = NoOffer
              THEN \A o \in Offered : ~Acceptable(o)
              ELSE \A o \in Offered :
                       Acceptable(o) =>
                           \/ o.raw.rating < chosen.rating.value
                           \/ /\ o.raw.rating = chosen.rating.value
                              /\ RoundHalf(o.raw.price) >= chosen.amount_inr.value
<1>1. /\ req \in Requests /\ mission \in Decided
      /\ normalized = normalize_offers(Quotes, req.constraints)
      /\ ranked = rank_offers(normalized) /\ \A o \in Offered : o.raw.price # Infinity
      /\ decision = evaluate(req.constraints, ranked, req.quantity)
  BY DEF RunInv, Derived, Decided, Late, Bound
<1>2. CASE ranked = << >>
  <2>1. decision.selected = NoOffer
    BY <1>1, <1>2 DEF evaluate
  <2>2. \A o \in Offered : ~Acceptable(o)
    BY <1>1, <1>2, RankedFirst
  <2> QED
    BY <2>1, <2>2
<1>3. CASE ranked # << >>
  <2> DEFINE r == ranked[1]
  <2>1. PICK o \in Offered : Chosen(r, o)
    BY <1>1, <1>3, RankedFirst
  <2>2. decision.selected = r.id
    BY <1>1, <1>3, <2>1, Evaluated
  <2> HIDE DEF r
  <2>3. decision.selected # NoOffer /\ normalized[decision.selected] = r
    BY <2>1, <2>2 DEF Chosen
  <2>4. r.fields.rating.value = o.raw.rating
        /\ r.fields.amount_inr.value = RoundHalf(o.raw.price)
    BY <2>1 DEF Chosen, NormalOf, Ingested
  <2> QED
    BY <2>1, <2>3, <2>4 DEF Chosen
<1> QED
  BY <1>2, <1>3

(* For all requests, merchants' answers, trust scores and drifts: an       *)
(* authorization is for an offer a merchant made under its own name and    *)
(* the user's constraints accept, at its price and within the limits, and  *)
(* no better acceptable offer is passed over.                              *)
THEOREM MandateIsKept == Spec => []MandateKept
<1>1. RunInv => MandateKept
  <2> SUFFICES ASSUME RunInv PROVE MandateKept
    OBVIOUS
  <2> QED
    BY AuthorizationKept, DecisionKept DEF MandateKept
<1> QED
  BY <1>1, RunInvariant, PTL

(* For the same: the chain has one entry per claim on a protected field,   *)
(* per offer under a false name and per refused bind, the register is      *)
(* still the user's policy, and as long as the database works a rollback   *)
(* is for something the user or a merchant sent that cannot be kept.       *)
THEOREM EvidenceIsComplete == Spec => []EvidenceComplete
<1>1. RunInv => EvidenceComplete
  <2> SUFFICES ASSUME RunInv PROVE EvidenceComplete
    OBVIOUS
  <2>1. ASSUME mission \in Late
        PROVE  /\ violations =
                    Cardinality(ProtectedClaims(AllClaims(collect(req.answers))))
                    + Cardinality({i \in DOMAIN normalized :
                          normalized[i].fields.claimed_merchant_id.value
                              # normalized[i].fields.merchant_id.value})
                    + IF outcome = "refused" THEN 1 ELSE 0
               /\ \A f \in PROTECTED_POLICY_FIELDS : register[f].value = req.constraints[f]
    <3>1. violations = EscalationsIn(AllClaims(Quotes)) + Mismatches(normalized)
                         + IF outcome = "refused" THEN 1 ELSE 0
      BY <2>1 DEF RunInv, Derived
    <3>2. register = protected_policy_values(req.constraints)
      BY <2>1 DEF RunInv, Adjudicated, Early, Late, Decided, Bound
    <3>3. \A f \in PROTECTED_POLICY_FIELDS : register[f].value = req.constraints[f]
      BY <3>2, PolicyValues
    <3> QED
      BY <3>1, <3>3 DEF EscalationsIn, Mismatches, Quotes, identity_mismatch
  <2>2. ASSUME outcome = "failed"
        PROVE  mission = "ABSENT" /\ auth = NoAuth /\ Unkeepable
    <3>1. mission = "ABSENT"
      BY <2>2 DEF RunInv, Phase
    <3>2. auth = NoAuth
      BY <3>1 DEF RunInv, BoundAsChecked, Bound
    <3> QED
      BY <2>2, <3>1, <3>2 DEF RunInv, FailureExplained
  <2> QED
    BY <2>1, <2>2 DEF EvidenceComplete, Late, Decided, Bound
<1> QED
  BY <1>1, RunInvariant, PTL

(* For the same, on either kind of database: what is bound is the row that *)
(* was judged, and an untouched row is never refused.                      *)
THEOREM BoundRowWasJudged == Spec => []BoundRowIsJudged
<1>1. RunInv => BoundRowIsJudged
  <2> SUFFICES ASSUME RunInv PROVE BoundRowIsJudged
    OBVIOUS
  <2>1. ASSUME auth # NoAuth
        PROVE  /\ decision.selected \in DOMAIN rows
               /\ rows[decision.selected].valid
               /\ compute_offer_version(Live(rows[decision.selected]))
                    = offer_version(normalized[decision.selected])
    <3> DEFINE r == ranked[1]
    <3>1. /\ mission \in Decided /\ decision.decision # "DENY"
          /\ StillSelected(r.id, offer_version(r))
      BY <2>1 DEF RunInv, BoundAsChecked, Decided
    <3>2. PICK o \in Offered : Chosen(r, o)
      BY <3>1, AtBinding
    <3>3. decision.selected = r.id
      BY <3>1, <3>2, AtBinding, Evaluated
    <3> HIDE DEF r
    <3>4. normalized[r.id] = r
      BY <3>2 DEF Chosen
    <3> QED
      BY <3>1, <3>3, <3>4 DEF StillSelected
  <2>2. ASSUME outcome = "refused"
        PROVE  drifts > 0 /\ mission = "POLICY_CHECKED" /\ auth = NoAuth
    <3>1. drifts > 0 /\ mission = "POLICY_CHECKED"
      BY <2>2 DEF RunInv, Phase
    <3> QED
      BY <3>1 DEF RunInv, BoundAsChecked, Bound
  <2> QED
    BY <2>1, <2>2 DEF BoundRowIsJudged
<1> QED
  BY <1>1, RunInvariant, PTL
=============================================================================
