---------------------------- MODULE PolicyEngine ----------------------------
(***************************************************************************)
(* The deterministic half of ADMIT: merchants' identity and trust, the     *)
(* ingress of their offers, normalization, ranking and the policy decision.*)
(*                                                                         *)
(* Merchants and products are numbers, so that ranking's tie-break on ids  *)
(* has an order; prices are in half rupees, ratings in thousandths and     *)
(* trust in percent.                                                       *)
(***************************************************************************)
EXTENDS SecurityKernel, Sequences, FiniteSets, Functions

CONSTANT
    Trust   \* merchant registry: known merchants -> server-owned trust score

ASSUME TrustIsScored == \A m \in DOMAIN Trust : Trust[m] \in Int

UNKNOWN_TRUST == 0

trust_for(merchant) ==
    IF merchant \in DOMAIN Trust THEN Trust[merchant] ELSE UNKNOWN_TRUST

(* The transport's context comes from the adapter's registration.          *)
connect(merchant) == [merchant_id |-> merchant, trust |-> trust_for(merchant)]

(* collect: what each merchant answered, beside the identity it came from. *)
collect(answers) ==
    [i \in DOMAIN answers |->
        [context |-> connect(answers[i].merchant), offers |-> answers[i].offers]]

(* Python's round on halves: a tie goes to the even integer.               *)
RoundHalf(halves) ==
    LET floor == halves \div 2
    IN IF halves % 2 = 0 \/ floor % 2 = 0 THEN floor ELSE floor + 1

(* The float infinity, which the schema's lower bound on a price lets      *)
(* through; no price is negative, so the number is free.                   *)
Infinity == -1

(* What ingest_merchant_offer raises for: int(round(inf)) overflows.       *)
ingest_raises(raw) == raw.price = Infinity

(* An aware timestamp collapses to the UTC instant; a naive one is left.   *)
normalized_instant(t) == IF t.aware THEN as_utc(t) ELSE t

(* str.upper on the currency codes in use.                                 *)
Upper(currency) == IF currency = "inr" THEN "INR" ELSE currency

PROTECTED_POLICY_FIELDS ==
    {"soft_budget_inr", "hard_limit_inr", "currency", "min_rating",
     "allowed_merchants", "blocked_merchants", "min_merchant_trust"}

protected_policy_values(c) ==
    [f \in PROTECTED_POLICY_FIELDS |-> authoritative(c[f], <<"user-policy", f>>)]

(* The payload's merchant id is kept as a claim; identity and trust come   *)
(* from the context. The result where ingest_raises is never used.         *)
ingest_merchant_offer(raw, context) ==
    LET source == <<"merchant", context.merchant_id>>
    IN [merchant_id         |-> trusted_value(context.merchant_id,
                                    <<"merchant-identity", context.merchant_id>>),
        merchant_trust      |-> system_value(context.trust,
                                    <<"merchant-registry", context.merchant_id>>),
        claimed_merchant_id |-> untrusted(raw.merchant_id, source),
        product_id          |-> untrusted(raw.product_id, source),
        amount_inr          |-> MapTo(untrusted(raw.price, source),
                                      RoundHalf(raw.price)),
        currency            |-> untrusted(Upper(raw.currency), source),
        rating              |-> untrusted(raw.rating, source),
        in_stock            |-> untrusted(raw.in_stock, source),
        offered_at          |-> untrusted(normalized_instant(raw.offered_at), source)]

identity_mismatch(o) == o.claimed_merchant_id.value # o.merchant_id.value

(* Mutation: an offer is judged by the merchant it claims to be from.      *)
Bug_ClaimedIdentity(o, c) ==
    (IF o.currency.value # c.currency THEN {"CURRENCY_NOT_ALLOWED"} ELSE {})
    \cup (IF ~o.in_stock.value THEN {"OUT_OF_STOCK"} ELSE {})
    \cup (IF o.rating.value < c.min_rating THEN {"RATING_BELOW_MIN"} ELSE {})
    \cup (IF o.merchant_trust.value < c.min_merchant_trust
          THEN {"MERCHANT_TRUST_TOO_LOW"} ELSE {})
    \cup (IF o.claimed_merchant_id.value \notin c.allowed_merchants
          THEN {"MERCHANT_NOT_ALLOWED"} ELSE {})
    \cup (IF o.claimed_merchant_id.value \in c.blocked_merchants
          THEN {"BLOCKED_MERCHANT"} ELSE {})

(* Why an ingested offer is rejected (an absent allow list is the set of   *)
(* all merchants). The order of the list carries nothing.                  *)
rejection_reasons(o, c) ==
    (IF identity_mismatch(o) THEN {"MERCHANT_IDENTITY_MISMATCH"} ELSE {})
    \cup (IF o.currency.value # c.currency THEN {"CURRENCY_NOT_ALLOWED"} ELSE {})
    \cup (IF ~o.in_stock.value THEN {"OUT_OF_STOCK"} ELSE {})
    \cup (IF o.rating.value < c.min_rating THEN {"RATING_BELOW_MIN"} ELSE {})
    \cup (IF o.merchant_trust.value < c.min_merchant_trust
          THEN {"MERCHANT_TRUST_TOO_LOW"} ELSE {})
    \cup (IF o.merchant_id.value \notin c.allowed_merchants
          THEN {"MERCHANT_NOT_ALLOWED"} ELSE {})
    \cup (IF o.merchant_id.value \in c.blocked_merchants
          THEN {"BLOCKED_MERCHANT"} ELSE {})

(* The sequences of ss end to end: what a loop within a loop appends.      *)
Joined(ss) ==
    LET upto[n \in 0..Len(ss)] == IF n = 0 THEN << >> ELSE upto[n - 1] \o ss[n]
    IN upto[Len(ss)]

(* Normalized offers: the offers of all quotes, numbered in the order they *)
(* were received, each with the fields a decision reads and its verdict.   *)
normalize_offer(id, raw, context, c) ==
    LET o == ingest_merchant_offer(raw, context)
    IN [id |-> id, fields |-> o, valid |-> rejection_reasons(o, c) = {}]

normalize_offers(quotes, c) ==
    LET all == Joined([q \in DOMAIN quotes |->
                   [i \in DOMAIN quotes[q].offers |->
                       <<quotes[q].offers[i], quotes[q].context>>]])
    IN [i \in DOMAIN all |-> normalize_offer(i, all[i][1], all[i][2], c)]

(* The key of _sort_key, with the position of the offer last: sorted() is  *)
(* stable.                                                                 *)
sort_key(o) ==
    <<-o.fields.rating.value, o.fields.amount_inr.value,
      -o.fields.merchant_trust.value, o.fields.merchant_id.value,
      o.fields.product_id.value, o.id>>

LexLess(a, b) ==
    \E i \in DOMAIN a : a[i] < b[i] /\ \A j \in 1..(i - 1) : a[j] = b[j]

Before(o, p) == LexLess(sort_key(o), sort_key(p))

(* The valid offers sorted: in place k is the one that k - 1 come before.  *)
rank_offers(offers) ==
    LET valid == {o \in Range(offers) : o.valid}
    IN [k \in 1..Cardinality(valid) |->
           CHOOSE o \in valid : Cardinality({p \in valid : Before(p, o)}) = k - 1]

NoOffer == 0
POLICY_VERSION == "policy-v1"

(* The policy decision on the best ranked offer.                           *)
evaluate(c, ranked, quantity) ==
    IF ranked = << >>
    THEN [decision |-> "DENY", amount |-> 0, selected |-> NoOffer]
    ELSE LET amount == ranked[1].fields.amount_inr.value * quantity
         IN [decision |-> IF amount > c.hard_limit_inr THEN "DENY"
                          ELSE IF amount > c.soft_budget_inr THEN "REQUIRE_APPROVAL"
                          ELSE "ALLOW",
             amount   |-> amount,
             selected |-> ranked[1].id]
=============================================================================
