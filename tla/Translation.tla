---------------------------- MODULE Translation ----------------------------
(***************************************************************************)
(* The protocol adapters' translation: how one external JSON document      *)
(* becomes a canonical candidate with provenance, or is refused.           *)
(*                                                                         *)
(* A JSON value is its kind and, where the code compares it, its content.  *)
(* A key is the name it normalizes to and the style it is spelled in;      *)
(* "defined" is the spelling the protocol defines. A delivery's objects    *)
(* are its parts; a value of kind "object" names one, one of kind "array"  *)
(* stands for the delivery's offers. Lengths and ranges are abstracted to  *)
(* the kinds "long" (over the limit of its place) and "excess" (an integer *)
(* out of the range of its place); "huge" is one no float holds.           *)
(***************************************************************************)
EXTENDS SecurityKernel, Sequences, FiniteSetsExt, TLC

J(kind, is) == [kind |-> kind, is |-> is]
Null == J("null", "")
Strings  == {"text", "empty", "long", "time", "naive", "uuid"}
Integral == {"int", "excess", "huge"}
Scalars  == Strings \cup Integral \cup {"float", "bool"}

Key(name, style) == [name |-> name, style |-> style]
K(name) == Key(name, "defined")

(* json.loads: of two members with the same key the last one stays.        *)
Parsed(members) ==
    [k \in {members[i][1] : i \in DOMAIN members} |->
        LET last == Max({i \in DOMAIN members : members[i][1] = k})
        IN members[last][2]]

Has(m, name) == K(name) \in DOMAIN m
Get(m, name) == IF Has(m, name) THEN m[K(name)] ELSE Null

(* The first check that fails gives the refusal, as the first raise does.  *)
(* A check is a condition and the refusal it raises, or a function called  *)
(* for the refusal it may raise.                                           *)
FirstRefusal(checks) ==
    LET failing == {i \in DOMAIN checks : checks[i][1]}
    IN IF failing = {} THEN "none" ELSE checks[Min(failing)][2]

Calls(refusal) == <<refusal # "none", refusal>>

UNREGISTERED == "ADAPTER_NOT_REGISTERED"
MISMATCHED   == "ADAPTER_FAMILY_MISMATCH"
VERSION      == "ADAPTER_PROTOCOL_VERSION_UNSUPPORTED"
PROTOCOL     == "ADAPTER_PROTOCOL_MISMATCH"
MALFORMED    == "ADAPTER_PAYLOAD_MALFORMED"
AMBIGUOUS    == "ADAPTER_AMBIGUOUS_FIELD"
RESERVED     == "ADAPTER_RESERVED_FIELD_REJECTED"
OPERATION    == "ADAPTER_OPERATION_UNSUPPORTED"
CEILING      == "ADAPTER_AUTHORITY_CEILING"
INCOMPLETE   == "ADAPTER_PROVENANCE_INCOMPLETE"
TAINT        == "ADAPTER_TAINT_STRIPPED"
GENERIC      == "ADAPTER_ERROR"

(* An exception that is no AdapterError: it reaches the caller as it is.   *)
UNCAUGHT == "ValidationError or OverflowError"

(***************************************************************************)
(* The key-level checks                                                    *)
(***************************************************************************)
RESERVED_SECURITY_FIELDS ==
    {"authority", "authoritylevel", "capability", "capabilities",
     "capabilityset", "paymentexecute", "refundexecute", "policymodify",
     "authorizationissue", "merchantmodify", "trust", "trusted", "trustlevel",
     "tainted", "taint", "principal", "system", "systempolicy", "provenance",
     "authorization", "authorizationid", "authorizationvalid",
     "authorizationstatus", "nonce", "transactiondigest", "digest",
     "signature", "signed", "verified", "consumedat", "bindingversion",
     "policyoverride", "policyversion", "softbudgetinr", "hardlimitinr",
     "minrating", "allowedmerchants", "blockedmerchants", "minmerchanttrust",
     "merchanttrust", "merchanttrustscore", "trustscore", "merchantname",
     "adapterid", "adapterfamily", "adapterversion",
     "riskscore", "riskband", "riskrecommendation"}

normalize_key(key) == key.name

(* reject_aliased_keys, then reject_reserved_fields.                       *)
guard_payload_keys(m) ==
    FirstRefusal(
      << <<\E k, l \in DOMAIN m : k # l /\ normalize_key(k) = normalize_key(l),
           AMBIGUOUS>>,
         <<\E k \in DOMAIN m : normalize_key(k) \in RESERVED_SECURITY_FIELDS,
           RESERVED>> >>)

(***************************************************************************)
(* Candidates and their provenance                                         *)
(***************************************************************************)
MAX_ADAPTER_AUTHORITY == AuthorityLevel.AGENT_PROPOSAL

Descriptor(id, family, versions) ==
    [adapter_id |-> id, family |-> family, versions |-> versions,
     emits_authority |-> MAX_ADAPTER_AUTHORITY]

(* An entry of _ADAPTERS: the descriptor, and the implementation by its    *)
(* base class and name.                                                    *)
Entry(descriptor, base, reads) ==
    [descriptor |-> descriptor, base |-> base, reads |-> reads]

external_provenance ==
    [authority |-> AuthorityLevel.AGENT_PROPOSAL, tainted |-> TRUE, trusted |-> FALSE]

(* The place of a value in a candidate: "", an offer's index, or arguments.*)
At(part, name) == [part |-> part, name |-> name]

OPERATION_CAPABILITY ==
    [CATALOG_SEARCH    |-> "catalog.read",
     MERCHANT_DISCOVER |-> "merchant.discover",
     OFFER_REQUEST     |-> "offer.request",
     OFFER_RANK        |-> "offer.rank",
     PURCHASE_PROPOSE  |-> "payment.propose"]

PRIVILEGED_CAPABILITIES ==
    {"payment.execute", "refund.execute", "policy.modify",
     "authorization.issue", "merchant.modify"}

FAMILY_PAYLOAD_TYPES ==
    [COMMERCE              |-> {"CandidateCommerceCatalog", "CandidateCommerceOffer"},
     TOOL                  |-> {"CandidateOperation"},
     PAYMENT_AUTHORIZATION |-> {"CandidateAuthorizationRequest"}]

OFFER_FIELDS ==
    {"merchantid", "productid", "title", "description", "price", "currency",
     "rating", "instock", "offeredat", "claims"}

(* The values a candidate holds that came off the wire. metadata is the    *)
(* set of the names kept as untrusted metadata.                            *)
offer_keys(i, metadata) ==
    {At(i, f) : f \in OFFER_FIELDS}
    \cup (IF metadata # {} THEN {At(i, "metadata")} ELSE {})

(* A type without a rule would raise, but _check_result lets no such type  *)
(* come here: every type of FAMILY_PAYLOAD_TYPES has its rule.             *)
required_provenance_keys(p) ==
    CASE p.type = "CandidateCommerceCatalog" ->
             {At("", "claimedmerchantid")}
             \cup UNION {offer_keys(ToString(i), p.offers[i]) : i \in DOMAIN p.offers}
             \cup (IF p.metadata # {} THEN {At("", "metadata")} ELSE {})
      [] p.type = "CandidateCommerceOffer" ->
             {At("", "claimedmerchantid")} \cup offer_keys("", p.metadata)
      [] p.type = "CandidateOperation" ->
             {At("", "operation"), At("", "toolname")}
             \cup {At("arguments", k.name) : k \in p.arguments}
      [] p.type = "CandidateAuthorizationRequest" ->
             {At("", f) : f \in {"merchantid", "productid", "quantity",
                                 "amountinr", "currency"} \cup p.optional}
             \cup (IF p.metadata # {} THEN {At("", "metadata")} ELSE {})

Refuse(reason) == [refusal |-> reason]
Translated(payload, keys, warnings) ==
    [refusal |-> "none", payload |-> payload,
     provenance |-> [k \in keys |-> external_provenance], warnings |-> warnings]

(* The end of a translation: what was raised, or the candidate.            *)
Ending(refusal, payload, keys, warnings) ==
    IF refusal # "none" THEN Refuse(refusal) ELSE Translated(payload, keys, warnings)

(* Mutation: an unknown member that is an object is dropped.               *)
Bug_DropsNested(m, known) == {k \in DOMAIN m : m[k].kind # "object"} \ {K(n) : n \in known}

(* _unknown_fields: the members a protocol does not define, kept.          *)
unknown_fields(m, known) == DOMAIN m \ {K(n) : n \in known}

NonEmptyStr(v) == v.kind \in Strings \ {"empty"}

(* What they may hold: scalars and lists of strings.                       *)
Keepable(m, keys) == \A k \in keys : m[k].kind \in Scalars \cup {"null", "strings"}

(***************************************************************************)
(* mcp.tools-call.v1                                                       *)
(***************************************************************************)
TOOL_NAMES ==
    [catalog_search    |-> "CATALOG_SEARCH",
     merchant_discover |-> "MERCHANT_DISCOVER",
     offer_request     |-> "OFFER_REQUEST",
     offer_rank        |-> "OFFER_RANK",
     purchase_propose  |-> "PURCHASE_PROPOSE"]

MAX_ARGUMENTS == 3

(* parts is the delivery's objects by name, top the document itself.       *)
Object(v, parts) == IF v.kind = "object" THEN Parsed(parts[v.is]) ELSE << >>

mcp_params(top, parts) == Object(Get(Object(top, parts), "params"), parts)
mcp_arguments(top, parts) == Object(Get(mcp_params(top, parts), "arguments"), parts)

(* The JSON-RPC request, its params and their arguments, one after another. *)
request_refusal(message) ==
    FirstRefusal(
      << Calls(guard_payload_keys(message)),
         <<unknown_fields(message, {"jsonrpc", "id", "method", "params"}) # {}, MALFORMED>>,
         <<Get(message, "jsonrpc") # J("text", "2.0"), PROTOCOL>>,
         <<Get(message, "id").kind \notin Strings \cup Integral, MALFORMED>>,
         <<Get(message, "method").kind \notin Strings, MALFORMED>>,
         <<Get(message, "method") # J("text", "tools/call"), OPERATION>>,
         <<Get(message, "params").kind # "object", MALFORMED>> >>)

params_refusal(params) ==
    FirstRefusal(
      << Calls(guard_payload_keys(params)),
         <<unknown_fields(params, {"name", "arguments"}) # {}, MALFORMED>>,
         <<~NonEmptyStr(Get(params, "name")), MALFORMED>>,
         <<Get(params, "name").is \notin DOMAIN TOOL_NAMES, OPERATION>>,
         <<Get(params, "arguments").kind \notin {"object", "null"}, MALFORMED>> >>)

arguments_refusal(arguments) ==
    FirstRefusal(
      << <<Cardinality(DOMAIN arguments) > MAX_ARGUMENTS, MALFORMED>>,
         Calls(guard_payload_keys(arguments)),
         <<~Keepable(arguments, DOMAIN arguments)
           \/ \E k \in DOMAIN arguments : arguments[k].kind = "long", MALFORMED>> >>)

mcp_refusal(top, parts) ==
    FirstRefusal(
      << <<top.kind # "object", MALFORMED>>,
         Calls(request_refusal(Object(top, parts))),
         Calls(params_refusal(mcp_params(top, parts))),
         Calls(arguments_refusal(mcp_arguments(top, parts))) >>)

mcp_translate(top, parts) ==
    LET arguments == DOMAIN mcp_arguments(top, parts)
    IN Ending(mcp_refusal(top, parts),
              [type |-> "CandidateOperation",
               operation |-> TOOL_NAMES[Get(mcp_params(top, parts), "name").is],
               arguments |-> arguments],
              {At("", "operation"), At("", "toolname")}
                \cup {At("arguments", k.name) : k \in arguments},
              {"CLAIMED_IDENTITY_NOT_AUTHENTICATED"})

(***************************************************************************)
(* pactra.commerce.v1                                                      *)
(***************************************************************************)
CATALOG_FIELDS == {"protocol", "merchantid", "offers"}
MAX_OFFERS == 2

(* One offer: the adapter's own type checks, RawMerchantOffer's ranges and *)
(* lengths, and the unknown members.                                       *)
offer_refusal(m, claims) ==
  FirstRefusal(
    << Calls(guard_payload_keys(m)),
       <<\E f \in {"merchantid", "productid", "title"} : ~NonEmptyStr(Get(m, f)),
         MALFORMED>>,
       <<Get(m, "price").kind \notin Integral \cup {"float"}, MALFORMED>>,
       <<Get(m, "price").kind = "huge", UNCAUGHT>>,
       <<~NonEmptyStr(Get(m, "currency")), MALFORMED>>,
       <<Get(m, "rating").kind \notin Integral \cup {"float"}, MALFORMED>>,
       <<Get(m, "rating").kind = "huge", UNCAUGHT>>,
       <<Get(m, "instock").kind # "bool", MALFORMED>>,
       <<Get(m, "offeredat").kind # "time", MALFORMED>>,
       <<Get(m, "claims").kind \notin {"object", "null"}, MALFORMED>>,
       <<~Keepable(claims, DOMAIN claims), MALFORMED>>,
       <<Has(m, "description") /\ Get(m, "description").kind \notin Strings, MALFORMED>>,
       <<\/ \E f \in OFFER_FIELDS : Get(m, f).kind \in {"long", "excess"}
         \/ Get(m, "currency").is \notin {"INR", "inr"}, MALFORMED>>,
       <<~Keepable(m, unknown_fields(m, OFFER_FIELDS)), MALFORMED>> >>)

commerce_refusal(top, parts, offers) ==
    LET document  == Object(top, parts)
        extras    == unknown_fields(document, CATALOG_FIELDS)
        Offer(i)  == Object(offers[i], parts)
    IN FirstRefusal(
          << <<top.kind # "object", MALFORMED>>,
             Calls(guard_payload_keys(document)),
             <<Get(document, "protocol") \notin {Null, J("text", "pactra.commerce")},
               PROTOCOL>>,
             <<~NonEmptyStr(Get(document, "merchantid")), MALFORMED>>,
             <<Get(document, "offers").kind # "array", MALFORMED>>,
             <<Len(offers) \notin 1..MAX_OFFERS, MALFORMED>>,
             <<~Keepable(document, extras), MALFORMED>>,
             Calls(FirstRefusal([i \in DOMAIN offers |->
               IF offers[i].kind # "object" THEN <<TRUE, MALFORMED>>
               ELSE Calls(offer_refusal(Offer(i), Object(Get(Offer(i), "claims"), parts)))])),
             \* CandidateCommerceCatalog is built outside the try.
             <<Get(document, "merchantid").kind = "long", UNCAUGHT>> >>)

commerce_translate(top, parts, offers) ==
    LET extras == unknown_fields(Object(top, parts), CATALOG_FIELDS)
        kept   == [i \in DOMAIN offers |->
                      unknown_fields(Object(offers[i], parts), OFFER_FIELDS)]
    IN Ending(commerce_refusal(top, parts, offers),
              [type |-> "CandidateCommerceCatalog", offers |-> kept, metadata |-> extras],
              {At("", "claimedmerchantid")}
                \cup (IF extras # {} THEN {At("", "metadata")} ELSE {})
                \cup UNION {offer_keys(ToString(i), kept[i]) : i \in DOMAIN offers},
              {"CLAIMED_IDENTITY_NOT_AUTHENTICATED",
               "MERCHANT_TRUST_NOT_ASSIGNED_BY_ADAPTER"}
                \cup (IF extras # {} \/ \E i \in DOMAIN offers : kept[i] # {}
                      THEN {"UNKNOWN_FIELDS_KEPT_AS_UNTRUSTED_METADATA"} ELSE {}))

(***************************************************************************)
(* pactra.authorization-intent.v1                                          *)
(***************************************************************************)
INTENT_FIELDS ==
    {"protocol", "missionid", "merchantid", "productid", "quantity",
     "amountinr", "currency", "expiresat", "externalauthorizationreference"}

intent_refusal(top, parts) ==
    LET document  == Object(top, parts)
        reference == Get(document, "externalauthorizationreference")
        extras    == unknown_fields(document, INTENT_FIELDS)
    IN FirstRefusal(
          << <<top.kind # "object", MALFORMED>>,
             Calls(guard_payload_keys(document)),
             <<Get(document, "protocol")
                 \notin {Null, J("text", "pactra.authorization-intent")}, PROTOCOL>>,
             <<Get(document, "missionid").kind \notin {"null", "uuid"}, MALFORMED>>,
             <<reference.kind \notin Strings \cup {"null"}, MALFORMED>>,
             <<\E f \in {"merchantid", "productid", "currency"} :
                  ~NonEmptyStr(Get(document, f)), MALFORMED>>,
             <<\E f \in {"quantity", "amountinr"} :
                  Get(document, f).kind \notin Integral, MALFORMED>>,
             <<Get(document, "expiresat").kind \notin {"null", "time"}, MALFORMED>>,
             <<~Keepable(document, extras), MALFORMED>>,
             <<\/ \E f \in INTENT_FIELDS : Get(document, f).kind \in {"long", "excess"}
               \/ Get(document, "quantity").kind = "huge"
               \/ Get(document, "currency").is \notin {"INR", "inr"}, MALFORMED>> >>)

intent_translate(top, parts) ==
    LET document == Object(top, parts)
        extras   == unknown_fields(document, INTENT_FIELDS)
        optional == {f \in {"missionid", "expiresat", "externalauthorizationreference"} :
                        Get(document, f) # Null}
    IN Ending(intent_refusal(top, parts),
              [type |-> "CandidateAuthorizationRequest", optional |-> optional,
               metadata |-> extras],
              \* the mission and the expiry are marked whether or not they came
              {At("", f) : f \in (INTENT_FIELDS \ {"protocol", "externalauthorizationreference"})
                                 \cup optional}
                \cup (IF extras # {} THEN {At("", "metadata")} ELSE {}),
              {"CLAIMED_IDENTITY_NOT_AUTHENTICATED"}
                \cup (IF "externalauthorizationreference" \in optional
                      THEN {"EXTERNAL_AUTHORIZATION_REFERENCE_NOT_VERIFIED"} ELSE {})
                \cup (IF extras # {}
                      THEN {"UNKNOWN_FIELDS_KEPT_AS_UNTRUSTED_METADATA"} ELSE {}))
=============================================================================
