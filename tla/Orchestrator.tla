---------------------------- MODULE Orchestrator ----------------------------
(***************************************************************************)
(* POST /missions: Orchestrator.run, from the request to the authorization.*)
(* The run is one database transaction. It ends with a commit (an answer,  *)
(* or a bind refusal kept as evidence) or, when anything raises (one of    *)
(* the program's own invariants or schemas, a conversion, a merchant's     *)
(* adapter, the store refusing a value), with a rollback of everything.    *)
(*                                                                         *)
(* The server holds the offers as rows from normalization on, and BIND     *)
(* reads the selected row again. Drift is an edit of such a row in         *)
(* between, as the bind-refusal tests make it.                             *)
(***************************************************************************)
EXTENDS PolicyEngine, MissionStates

CONSTANTS
    Requests,     \* the requests: [constraints, quantity, answers, writable]
    KeepsZone,    \* the database returns aware timestamps
    MaxInteger,   \* the largest number its Integer columns hold
    MaxDrifts     \* edits of offer rows per mission

ASSUME ColumnsHoldNumbers == MaxInteger \in Nat

(* What the schemas of the request and of RawMerchantOffer let through.    *)
(* They bound no amount from above and no text but in length: writable     *)
(* says whether the encoders and the columns take the texts (no NUL, no    *)
(* lone surrogate, no code that upper() lengthens), the instant and, of a  *)
(* claim, the value that came with it.                                     *)
WellFormed(raw) ==
    /\ raw.merchant_id \in Int /\ raw.product_id \in Int
    /\ raw.price \in Nat \cup {Infinity} /\ raw.rating \in Int
    /\ raw.in_stock \in BOOLEAN /\ raw.writable \in BOOLEAN
    /\ raw.offered_at \in [clock : Int, aware : BOOLEAN, offset : Int]
    /\ raw.claims \in Seq(Range(raw.claims))

ASSUME RequestsWellFormed ==
    \A r \in Requests :
        /\ r.quantity \in Nat \ {0} /\ r.writable \in BOOLEAN
        /\ r.constraints.soft_budget_inr \in Int /\ r.constraints.hard_limit_inr \in Int
        /\ r.constraints.soft_budget_inr <= r.constraints.hard_limit_inr
        /\ r.constraints.min_rating \in Int /\ r.constraints.min_merchant_trust \in Int
        /\ r.answers \in Seq(Range(r.answers))
        /\ \A a \in Range(r.answers) :
              /\ a.merchant \in Int /\ a.raises \in BOOLEAN
              /\ a.offers \in Seq(Range(a.offers))
              /\ \A raw \in Range(a.offers) : WellFormed(raw)

VARIABLES
    req,          \* the request and the merchants' answers to it
    mission,      \* missions.state, or "ABSENT"
    register,     \* the protected policy register
    claims,       \* claims of the received offers still to be adjudicated
    violations,   \* SECURITY_VIOLATION entries of the mission's chain
    normalized,   \* the kernel's offers
    rows,         \* the offers table
    ranked,       \* the ranked valid offers
    decision,     \* the policy decision
    auth,         \* the authorizations row
    outcome,      \* running, answered, refused or failed
    drifts        \* edits made so far

vars == <<req, mission, register, claims, violations, normalized, rows,
          ranked, decision, auth, outcome, drifts>>

NoDecision == [decision |-> "none", amount |-> 0, selected |-> NoOffer]
NoAuth == [status |-> "none"]

Init ==
    /\ req \in Requests
    /\ mission = "CREATED"
    /\ register = << >> /\ claims = << >> /\ violations = 0
    /\ normalized = << >> /\ rows = << >> /\ ranked = << >>
    /\ decision = NoDecision /\ auth = NoAuth
    /\ outcome = "running" /\ drifts = 0

(* _transition: assert the move, then write it.                            *)
transition(target) ==
    /\ can_transition(mission, target)
    /\ mission' = target

(* The request's exception handler: the dependency rolls everything back.  *)
fail ==
    /\ outcome' = "failed"
    /\ mission' = "ABSENT"
    /\ violations' = 0 /\ rows' = << >> /\ decision' = NoDecision
    /\ auth' = NoAuth
    /\ UNCHANGED <<req, register, claims, normalized, ranked, drifts>>

(***************************************************************************)
(* Discovery and adjudication                                              *)
(***************************************************************************)

(* The user's limits are written to Integer columns.                       *)
Fits(amount) == amount <= MaxInteger

parse_intent ==
    /\ outcome = "running" /\ mission = "CREATED"
    /\ IF \/ ~req.writable
          \/ ~Fits(req.constraints.soft_budget_inr)
          \/ ~Fits(req.constraints.hard_limit_inr)
       THEN fail
       ELSE /\ transition("INTENT_PARSED")
            /\ UNCHANGED <<req, register, claims, violations, normalized,
                           rows, ranked, decision, auth, outcome, drifts>>

discover ==
    /\ outcome = "running" /\ mission = "INTENT_PARSED"
    /\ transition("DISCOVERING")
    /\ UNCHANGED <<req, register, claims, violations, normalized, rows,
                   ranked, decision, auth, outcome, drifts>>

(* Every claim with the authenticated merchant it came from.               *)
AllClaims(quotes) ==
    Joined([q \in DOMAIN quotes |->
        Joined([i \in DOMAIN quotes[q].offers |->
            [k \in DOMAIN quotes[q].offers[i].claims |->
                [merchant |-> quotes[q].context.merchant_id,
                 field    |-> quotes[q].offers[i].claims[k].field,
                 value    |-> quotes[q].offers[i].claims[k].value,
                 writable |-> quotes[q].offers[i].claims[k].writable]]])])

receive_offers ==
    /\ outcome = "running" /\ mission = "DISCOVERING"
    /\ IF \E a \in Range(req.answers) : a.raises
       THEN fail
       ELSE /\ transition("OFFERS_RECEIVED")
            /\ register' = protected_policy_values(req.constraints)
            /\ claims' = AllClaims(collect(req.answers))
            /\ UNCHANGED <<req, violations, normalized, rows, ranked, decision,
                           auth, outcome, drifts>>

(* Mutation: a claim on an unprotected field ends the loop.                *)
Bug_BreakForContinue ==
    /\ outcome = "running" /\ claims # << >>
    /\ IF is_protected(register, Head(claims).field)
       THEN /\ violations' = violations + 1
            /\ claims' = Tail(claims)
       ELSE claims' = << >> /\ UNCHANGED violations
    /\ UNCHANGED <<req, mission, register, normalized, rows, ranked, decision,
                   auth, outcome, drifts>>

(* A protected field's write raises AuthorityEscalation, which is recorded *)
(* with the attempted value; a claim on any other field is skipped.        *)
adjudicate_claim ==
    /\ outcome = "running" /\ claims # << >>
    /\ LET claim   == Head(claims)
           applied == apply(register, claim.field,
                            untrusted(claim.value, <<"merchant", claim.merchant>>))
           next    == /\ claims' = Tail(claims)
                      /\ UNCHANGED <<req, mission, normalized, rows, ranked,
                                     decision, auth, outcome, drifts>>
       IN IF ~is_protected(register, claim.field)
          THEN next /\ UNCHANGED <<register, violations>>
          ELSE IF applied.escalation /\ ~claim.writable
          THEN fail
          ELSE /\ register' = applied.register
               /\ violations' = violations + IF applied.escalation THEN 1 ELSE 0
               /\ next

(***************************************************************************)
(* Normalization, ranking and policy                                       *)
(***************************************************************************)

(* What a timestamp column returns: SQLite keeps the clock reading only.   *)
Stored(t) == IF KeepsZone THEN as_utc(t) ELSE Naive(t.clock)

OfferValues(o) ==
    [f \in {"merchant_id", "product_id", "amount_inr", "currency", "rating",
            "in_stock", "offered_at"} |-> o.fields[f].value]

offer_version(o) == compute_offer_version(OfferValues(o))

(* The row of an offer: its values, verdict and fingerprint.               *)
Row(o) == [values  |-> [OfferValues(o) EXCEPT !.offered_at = Stored(@)],
           valid   |-> o.valid,
           version |-> offer_version(o)]

ProtectedUnchanged ==
    \A f \in DOMAIN register : register[f].value = req.constraints[f]

(* What the merchants' answers hold, with the merchant that answered.      *)
Offered ==
    UNION {{[merchant |-> a.merchant, raw |-> raw] : raw \in Range(a.offers)} :
               a \in Range(req.answers)}

(* A naive timestamp has no fingerprint: the canonical encoder raises. The *)
(* rows are flushed with the next event.                                   *)
Storable(o) ==
    Encodable(OfferValues(o).offered_at) /\ Fits(OfferValues(o).amount_inr)

normalize ==
    /\ outcome = "running" /\ mission = "OFFERS_RECEIVED" /\ claims = << >>
    /\ LET offers == normalize_offers(collect(req.answers), req.constraints)
       IN IF \/ ~ProtectedUnchanged
             \/ \E o \in Offered : ingest_raises(o.raw) \/ ~o.raw.writable
             \/ \E i \in DOMAIN offers : ~Storable(offers[i])
          THEN fail
          ELSE /\ normalized' = offers
               /\ rows' = [i \in DOMAIN offers |-> Row(offers[i])]
               /\ violations' = violations
                    + Cardinality({i \in DOMAIN offers : identity_mismatch(offers[i].fields)})
               /\ transition("OFFERS_NORMALIZED")
               /\ UNCHANGED <<req, register, claims, ranked, decision, auth,
                              outcome, drifts>>

rank ==
    /\ outcome = "running" /\ mission = "OFFERS_NORMALIZED"
    /\ ranked' = rank_offers(normalized)
    /\ transition("RANKED")
    /\ UNCHANGED <<req, register, claims, violations, normalized, rows,
                   decision, auth, outcome, drifts>>

(* The buyer agent may propose; the decision is the policy engine's, and   *)
(* its row holds the amount for the whole quantity.                        *)
decide ==
    /\ outcome = "running" /\ mission = "RANKED"
    /\ LET decided == evaluate(req.constraints, ranked, req.quantity)
       IN IF \/ /\ ranked # << >>
                /\ ~permits(capabilities_for("buyer-agent"), "payment.propose")
             \/ ~Fits(decided.amount)
          THEN fail
          ELSE /\ decision' = decided
               /\ transition("POLICY_CHECKED")
               /\ UNCHANGED <<req, register, claims, violations, normalized,
                              rows, ranked, auth, outcome, drifts>>

deny ==
    /\ outcome = "running" /\ mission = "POLICY_CHECKED"
    /\ decision.decision = "DENY"
    /\ transition("CANCELLED")
    /\ outcome' = "answered"
    /\ UNCHANGED <<req, register, claims, violations, normalized, rows,
                   ranked, decision, auth, drifts>>

(***************************************************************************)
(* Binding                                                                 *)
(***************************************************************************)
Live(row) == [row.values EXCEPT !.offered_at = as_utc(@)]

(* Mutation: the version stored with the row is not recomputed.            *)
Bug_TrustsStoredVersion(id, selected_version) ==
    /\ id \in DOMAIN rows
    /\ rows[id].version = selected_version
    /\ rows[id].valid

(* The bind-time reading of the selected row, under its lock.              *)
StillSelected(id, selected_version) ==
    /\ id \in DOMAIN rows
    /\ LET current == compute_offer_version(Live(rows[id]))
       IN rows[id].version = current /\ current = selected_version
    /\ rows[id].valid

(* _build_bound_transaction_from_values raises unless these hold; the      *)
(* schema of BoundTransaction wants a positive amount.                     *)
Buildable(id) ==
    /\ decision.decision \in {"ALLOW", "REQUIRE_APPROVAL"}
    /\ rows[id].valid
    /\ decision.selected = id
    /\ decision.amount = rows[id].values.amount_inr * req.quantity
    /\ decision.amount >= 1

BoundTransaction(id) ==
    [merchant_id    |-> rows[id].values.merchant_id,
     product_id     |-> rows[id].values.product_id,
     quantity       |-> req.quantity,
     amount_inr     |-> decision.amount,
     currency       |-> rows[id].values.currency,
     policy_version |-> POLICY_VERSION,
     offer_version  |-> compute_offer_version(Live(rows[id])),
     expires_at     |-> Aware(1, 0),
     nonce          |-> "nonce"]

(* issue_authorization mints it PENDING; an ALLOW is activated at once.    *)
issued(txn) ==
    LET approval == decision.decision = "REQUIRE_APPROVAL"
    IN [status |-> IF approval THEN "PENDING" ELSE "ACTIVE",
        scheme |-> IF approval THEN "USER_ED25519" ELSE "POLICY_AUTO",
        txn    |-> txn,
        digest |-> digest(txn)]

bind ==
    /\ outcome = "running" /\ mission = "POLICY_CHECKED"
    /\ decision.decision # "DENY"
    /\ LET id == ranked[1].id
       IN IF ~StillSelected(id, offer_version(ranked[1]))
          THEN /\ outcome' = "refused"
               /\ violations' = violations + 1
               /\ UNCHANGED <<req, mission, register, claims, normalized, rows,
                              ranked, decision, auth, drifts>>
          ELSE IF ~Buildable(id)
                  \/ ~enforce_registered(capabilities_for("security-kernel"),
                                         "authorization.issue")
          THEN fail
          ELSE /\ auth' = issued(BoundTransaction(id))
               /\ transition(IF decision.decision = "REQUIRE_APPROVAL"
                             THEN "AWAITING_APPROVAL" ELSE "AUTHORIZED")
               /\ outcome' = "answered"
               /\ UNCHANGED <<req, register, claims, violations, normalized,
                              rows, ranked, decision, drifts>>

(***************************************************************************)
(* Environment                                                             *)
(***************************************************************************)
Recomputed(row) == [row EXCEPT !.version = compute_offer_version(Live(row))]

(* Another amount or rating, with or without its fingerprint; a rejection. *)
Edits(row) ==
    LET dearer == [row EXCEPT !.values.amount_inr = @ + 1]
        worse(by) == [row EXCEPT !.values.rating = @ - by]
    IN {dearer, Recomputed(dearer), worse(2), worse(20), Recomputed(worse(20)),
        [row EXCEPT !.valid = FALSE]}

Drift ==
    /\ outcome = "running" /\ mission \in {"OFFERS_NORMALIZED", "RANKED", "POLICY_CHECKED"}
    /\ drifts < MaxDrifts
    /\ drifts' = drifts + 1
    /\ \E id \in DOMAIN rows :
         \/ \E edited \in Edits(rows[id]) : rows' = [rows EXCEPT ![id] = edited]
         \/ rows' = [i \in DOMAIN rows \ {id} |-> rows[i]]
    /\ UNCHANGED <<req, mission, register, claims, violations, normalized,
                   ranked, decision, auth, outcome>>

Run ==
    \/ parse_intent \/ discover \/ receive_offers \/ adjudicate_claim
    \/ normalize \/ rank \/ decide \/ deny \/ bind

Next == Run \/ Drift

Spec == Init /\ [][Next]_vars

(***************************************************************************)
(* Properties                                                              *)
(***************************************************************************)

(* What the user asked for, said of merchants' raw answers and not of the  *)
(* kernel's representation of them.                                        *)
Acceptable(o) ==
    /\ o.raw.merchant_id = o.merchant
    /\ o.merchant \in req.constraints.allowed_merchants \ req.constraints.blocked_merchants
    /\ trust_for(o.merchant) >= req.constraints.min_merchant_trust
    /\ o.raw.in_stock
    /\ o.raw.rating >= req.constraints.min_rating
    /\ Upper(o.raw.currency) = req.constraints.currency

(* The user's mandate is kept. An authorization is bound to an offer some  *)
(* merchant made under its own name and the user's constraints accept, for *)
(* that offer's price times the quantity, at most the hard limit; above    *)
(* the soft budget it waits for the user's signature. And no acceptable    *)
(* offer is passed over for a worse one: none is rated higher than the     *)
(* selected offer, or rated the same and cheaper; a mission is denied for  *)
(* want of offers only when there is none.                                 *)
(* (Orchestrator.run, normalize_offer, rank_offers, evaluate, the binding) *)
MandateKept ==
    /\ auth # NoAuth =>
        LET txn == auth.txn
        IN /\ \E o \in Offered :
                /\ Acceptable(o)
                /\ txn.merchant_id = o.merchant /\ txn.product_id = o.raw.product_id
                /\ txn.currency = req.constraints.currency
                /\ txn.amount_inr = RoundHalf(o.raw.price) * req.quantity
           /\ txn.amount_inr \in 1..req.constraints.hard_limit_inr
           /\ (txn.amount_inr > req.constraints.soft_budget_inr)
                <=> (auth.scheme = "USER_ED25519" /\ auth.status = "PENDING")
    /\ decision # NoDecision =>
        LET chosen == normalized[decision.selected].fields
        IN IF decision.selected = NoOffer
           THEN \A o \in Offered : ~Acceptable(o)
           ELSE \A o \in Offered :
                    Acceptable(o) =>
                        \/ o.raw.rating < chosen.rating.value
                        \/ /\ o.raw.rating = chosen.rating.value
                           /\ RoundHalf(o.raw.price) >= chosen.amount_inr.value

(* The claims of a list that name a protected field.                       *)
ProtectedClaims(cs) == {i \in DOMAIN cs : cs[i].field \in PROTECTED_POLICY_FIELDS}

(* What no answer may hold if the run is to be kept.                       *)
Unrecordable(o) ==
    \/ o.raw.price = Infinity \/ RoundHalf(o.raw.price) > MaxInteger
    \/ ~o.raw.offered_at.aware \/ ~o.raw.writable

(* The first offer's price is nothing, or too much for the quantity.       *)
Unpayable(best) ==
    \/ best.fields.amount_inr.value = 0
    \/ best.fields.amount_inr.value * req.quantity > MaxInteger

(* Every reason there is to roll a request back.                           *)
Unkeepable ==
    \/ ~req.writable \/ req.constraints.hard_limit_inr > MaxInteger
    \/ \E a \in Range(req.answers) : a.raises
    \/ \E c \in Range(AllClaims(collect(req.answers))) :
          c.field \in PROTECTED_POLICY_FIELDS /\ ~c.writable
    \/ \E o \in Offered : Unrecordable(o)
    \/ ranked # << >> /\ Unpayable(ranked[1])

(* The evidence is complete: once the offers are normalized, the chain has *)
(* one SECURITY_VIOLATION for every claim on a protected field, one for    *)
(* every offer under a false name, and one for a refused bind; and the     *)
(* policy is still the user's. As long as the database works, a request is *)
(* rolled back, evidence and all, only for what a user or a merchant sent: *)
(* limits or an offer, a claim or an amount the store cannot hold, an      *)
(* infinite price, a naive timestamp, an adapter that raises, or a best    *)
(* offer that rounds to zero. The program's own invariants never fire.     *)
EvidenceComplete ==
    /\ mission \in {"OFFERS_NORMALIZED", "RANKED", "POLICY_CHECKED", "CANCELLED",
                    "AWAITING_APPROVAL", "AUTHORIZED"} =>
        /\ violations =
             Cardinality(ProtectedClaims(AllClaims(collect(req.answers))))
             + Cardinality({i \in DOMAIN normalized :
                   normalized[i].fields.claimed_merchant_id.value
                       # normalized[i].fields.merchant_id.value})
             + IF outcome = "refused" THEN 1 ELSE 0
        /\ \A f \in PROTECTED_POLICY_FIELDS : register[f].value = req.constraints[f]
    /\ outcome = "failed" => mission = "ABSENT" /\ auth = NoAuth /\ Unkeepable

(* No authorization is bound from a row that is not the one judged: at     *)
(* the bind the selected row is present and valid, and its content has     *)
(* the fingerprint the selection saw, whatever the version column says.    *)
(* And a bind is refused only because the row changed: an offer nobody     *)
(* touched still fingerprints the same after its trip through the          *)
(* database, whatever offset its timestamp came with. A refusal leaves the *)
(* mission at POLICY_CHECKED without an authorization.                     *)
BoundRowIsJudged ==
    /\ auth # NoAuth =>
        /\ decision.selected \in DOMAIN rows
        /\ rows[decision.selected].valid
        /\ compute_offer_version(Live(rows[decision.selected]))
             = offer_version(normalized[decision.selected])
    /\ outcome = "refused" =>
        /\ drifts > 0
        /\ mission = "POLICY_CHECKED" /\ auth = NoAuth
=============================================================================
