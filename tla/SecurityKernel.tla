--------------------------- MODULE SecurityKernel ---------------------------
(***************************************************************************)
(* The deterministic kernel of ADMIT and BIND: provenance and the          *)
(* authority lattice, the protected policy register, the capability        *)
(* firewall, the canonical encoding and the two digests computed with it.  *)
(*                                                                         *)
(* A digest is modelled as the domain and the type-tagged fields it        *)
(* covers, which is what SHA-256 of an unambiguous encoding stands for.    *)
(***************************************************************************)
EXTENDS Integers

(***************************************************************************)
(* Provenance and authority                                                *)
(***************************************************************************)
AuthorityLevel ==
    [MERCHANT_DATA            |-> 10,
     AGENT_PROPOSAL           |-> 20,
     TRUSTED_INTERNAL_SERVICE |-> 30,
     AUTHORIZATION            |-> 40,
     SYSTEM_SECURITY_POLICY   |-> 50,
     USER_POLICY              |-> 60]

Level == {AuthorityLevel[l] : l \in DOMAIN AuthorityLevel}

Provenanced(value, source, authority, tainted) ==
    [value |-> value, source |-> source, authority |-> authority,
     tainted |-> tainted, transformed |-> FALSE]

(* The constructors; only what an agent or a merchant says is tainted.      *)
authoritative(value, source) ==
    Provenanced(value, source, AuthorityLevel.USER_POLICY, FALSE)
system_value(value, source) ==
    Provenanced(value, source, AuthorityLevel.SYSTEM_SECURITY_POLICY, FALSE)
trusted_value(value, source) ==
    Provenanced(value, source, AuthorityLevel.TRUSTED_INTERNAL_SERVICE, FALSE)
untrusted(value, source) ==
    Provenanced(value, source, AuthorityLevel.MERCHANT_DATA, TRUE)

(* Provenanced.map: a new value under the old provenance.                  *)
MapTo(p, value) == [p EXCEPT !.value = value, !.transformed = TRUE]

can_write(source, target) == source >= target

(* Mutation: every write is accepted.                                      *)
Bug_LastWriteWins(current, incoming) ==
    [value |-> incoming, escalation |-> FALSE]

(* The protected policy register: field -> provenanced value. A write of   *)
(* less authority than the value's raises and leaves the register alone.   *)
merge_keep_higher(current, incoming) ==
    IF can_write(incoming.authority, current.authority)
    THEN [value |-> incoming, escalation |-> FALSE]
    ELSE [value |-> current, escalation |-> TRUE]

is_protected(register, field) == field \in DOMAIN register

apply(register, field, incoming) ==
    LET merged == merge_keep_higher(register[field], incoming)
    IN [register   |-> [register EXCEPT ![field] = merged.value],
        escalation |-> merged.escalation]

(***************************************************************************)
(* The capability firewall                                                 *)
(***************************************************************************)
(* The spending limits a set also carries are read by nothing.             *)
CapabilitySet(principal, allow, deny) ==
    [principal |-> principal, allow |-> allow, deny |-> deny]

buyer_agent_capabilities ==
    CapabilitySet("buyer-agent",
        {"catalog.read", "merchant.discover", "offer.request", "offer.rank",
         "payment.propose"},
        {"payment.execute", "refund.execute", "policy.modify",
         "authorization.issue", "merchant.modify"})

security_kernel_capabilities ==
    CapabilitySet("security-kernel",
        {"authorization.issue", "payment.propose"},
        {"payment.execute", "refund.execute", "policy.modify",
         "merchant.modify"})

payment_executor_capabilities ==
    CapabilitySet("payment-executor",
        {"payment.execute", "payment.propose"},
        {"authorization.issue", "refund.execute", "policy.modify",
         "merchant.modify"})

Registry ==
    {buyer_agent_capabilities, security_kernel_capabilities,
     payment_executor_capabilities}

(* An unknown principal gets the empty set.                                *)
capabilities_for(principal) ==
    IF \E s \in Registry : s.principal = principal
    THEN CHOOSE s \in Registry : s.principal = principal
    ELSE CapabilitySet(principal, {}, {})

permits(capset, capability) ==
    capability \notin capset.deny /\ capability \in capset.allow

(* Mutation: a boundary trusts the grants the caller sends.                *)
Bug_SelfCertified(capset, capability) == permits(capset, capability)

(* A privileged boundary passes only the registry's own set.               *)
enforce_registered(capset, capability) ==
    LET authoritative_set == capabilities_for(capset.principal)
    IN capset = authoritative_set /\ permits(authoritative_set, capability)

(***************************************************************************)
(* Instants and the canonical encoding                                     *)
(***************************************************************************)

(* A datetime: the clock reading and, if aware, the offset it was read at. *)
Aware(clock, offset) == [clock |-> clock, aware |-> TRUE, offset |-> offset]
Naive(clock) == [clock |-> clock, aware |-> FALSE, offset |-> 0]
Instant(t) == t.clock - t.offset

as_utc(t) == Aware(Instant(t), 0)

(* encode_timestamp and _encode_value: a tag for the type, then the value. *)
(* A naive datetime names no instant and is not encoded.                   *)
Encodable(t) == t.aware
Text(v)   == <<"s", v>>
Number(v) == <<"i", v>>
Bool(v)   == <<"b", v>>
Time(t)   == <<"t", Instant(t)>>

canonical_digest(domain, fields) == [domain |-> domain, fields |-> fields]

(* The fingerprint of an offer. Ratings are in thousandths here and enter  *)
(* in hundredths, rounded (no rating used lies half way, where the binary  *)
(* float decides).                                                         *)
Centis(rating) == (rating + 5) \div 10

compute_offer_version(o) ==
    canonical_digest("pactra-offer-version-v1",
        [merchant_id   |-> Text(o.merchant_id),
         product_id    |-> Text(o.product_id),
         amount_inr    |-> Number(o.amount_inr),
         currency      |-> Text(o.currency),
         rating_centis |-> Number(Centis(o.rating)),
         in_stock      |-> Bool(o.in_stock),
         offered_at    |-> Time(o.offered_at)])

(* BoundTransaction.digest, over every bound field.                        *)
digest(txn) ==
    canonical_digest("pactra-txn-bind-v1",
        [merchant_id    |-> Text(txn.merchant_id),
         product_id     |-> Text(txn.product_id),
         quantity       |-> Number(txn.quantity),
         amount_inr     |-> Number(txn.amount_inr),
         currency       |-> Text(txn.currency),
         policy_version |-> Text(txn.policy_version),
         offer_version  |-> Text(txn.offer_version),
         expires_at     |-> Time(txn.expires_at),
         nonce          |-> Text(txn.nonce)])
=============================================================================
