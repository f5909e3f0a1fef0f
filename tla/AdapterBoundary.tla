-------------------------- MODULE AdapterBoundary --------------------------
(***************************************************************************)
(* The adapter registry and the one entry point through it: the package's  *)
(* import registers _ADAPTERS and seals, later registrations are refused,  *)
(* translate resolves an adapter, has it read the payload and checks what  *)
(* it returns; an operation so obtained meets the capability firewall.     *)
(*                                                                         *)
(* The list registered is the three adapters of the repository and, where  *)
(* Drafts offers one, a further entry somebody adds to it. A draft states  *)
(* its descriptor, its base class and what its translate_payload returns.  *)
(***************************************************************************)
EXTENDS Translation

CONSTANTS
    Deliveries,   \* calls of translate: adapter_id, family, version, payload
    Drafts,       \* entries that may be added to _ADAPTERS, "none" for none
    Principals    \* callers of authorize_operation

(* What the types of the code fix of a draft: its level is an              *)
(* AuthorityLevel, its operation one of CandidateOperationType.            *)
ASSUME DraftsTyped ==
    /\ "none" \notin DOMAIN Drafts
    /\ \A d \in DOMAIN Drafts :
         LET r == Drafts[d].result
         IN /\ Drafts[d].entry.reads = "draft"
            /\ Drafts[d].entry.descriptor.emits_authority \in Level
            /\ r.refusal = "none" =>
                 /\ r.payload.type = "CandidateOperation" =>
                      r.payload.operation \in DOMAIN OPERATION_CAPABILITY
                 /\ \A k \in DOMAIN r.provenance : r.provenance[k].authority \in Level

VARIABLES
    draft,        \* the entry added to the list
    registry,     \* REGISTRY._adapters
    sealed,       \* REGISTRY._sealed
    imported,     \* the import of services.adapters has succeeded
    call,         \* the translation in hand: the delivery and its result
    granted       \* <<principal, capability>> pairs authorize_operation passed
                  \* for it

avars == <<draft, registry, sealed, imported, call, granted>>

TRANSLATING_FAMILIES == {"COMMERCE", "PAYMENT_AUTHORIZATION", "TOOL"}

(* _ADAPTERS, in its order, and then the draft.                            *)
Commerce ==
    Entry(Descriptor("pactra.commerce.v1", "COMMERCE", {"1.0"}), "COMMERCE", "commerce")
Intent ==
    Entry(Descriptor("pactra.authorization-intent.v1", "PAYMENT_AUTHORIZATION", {"1.0"}),
          "PAYMENT_AUTHORIZATION", "intent")
Mcp ==
    Entry(Descriptor("mcp.tools-call.v1", "TOOL", {"2024-11-05", "2025-03-26", "2025-06-18"}),
          "TOOL", "mcp")

(***************************************************************************)
(* Registration                                                            *)
(***************************************************************************)

(* Mutation: the seal and the taken ids are not consulted.                 *)
Bug_OpenAfterSeal(entry, entries, closed) ==
    FirstRefusal(
      << <<entry.descriptor.family \notin TRANSLATING_FAMILIES,
           "ADAPTER_REGISTRATION_REFUSED">>,
         <<entry.base # entry.descriptor.family, "ADAPTER_REGISTRATION_REFUSED">> >>)

(* AdapterRegistry.register, its refusals in order. An implementation's    *)
(* family is its base class's.                                             *)
register_refusal(entry, entries, closed) ==
    FirstRefusal(
      << <<closed, "ADAPTER_REGISTRATION_REFUSED">>,
         <<entry.descriptor.adapter_id \in DOMAIN entries, "ADAPTER_ID_CONFLICT">>,
         <<entry.descriptor.family \notin TRANSLATING_FAMILIES,
           "ADAPTER_REGISTRATION_REFUSED">>,
         <<entry.base # entry.descriptor.family, "ADAPTER_REGISTRATION_REFUSED">>,
         <<entry.descriptor.emits_authority > MAX_ADAPTER_AUTHORITY,
           "ADAPTER_REGISTRATION_REFUSED">> >>)

Extend(entries, entry) ==
    [id \in DOMAIN entries \cup {entry.descriptor.adapter_id} |->
        IF id = entry.descriptor.adapter_id THEN entry ELSE entries[id]]

(* _register_all: an id already there is passed over; a refused entry ends *)
(* the import with what was registered before it.                          *)
Step(acc, entry) ==
    LET known   == entry.descriptor.adapter_id \in DOMAIN acc.entries
        refused == register_refusal(entry, acc.entries, sealed) # "none"
    IN [entries |-> IF acc.failed \/ known \/ refused THEN acc.entries
                    ELSE Extend(acc.entries, entry),
        failed  |-> acc.failed \/ (~known /\ refused)]

Import ==
    LET ours == Step(Step(Step([entries |-> registry, failed |-> FALSE],
                               Commerce), Intent), Mcp)
        done == IF draft = "none" THEN ours ELSE Step(ours, Drafts[draft].entry)
    IN /\ registry' = done.entries
       /\ imported' = ~done.failed
       /\ sealed' = (sealed \/ ~done.failed)
       /\ UNCHANGED <<draft, call, granted>>

(* REGISTRY.register called by anything but the import.                    *)
RegisterLater(d) ==
    /\ imported
    /\ registry' = IF register_refusal(Drafts[d].entry, registry, sealed) = "none"
                   THEN Extend(registry, Drafts[d].entry) ELSE registry
    /\ UNCHANGED <<draft, sealed, imported, call, granted>>

(***************************************************************************)
(* Translation                                                             *)
(***************************************************************************)

(* as_bytes_and_object; a dict is taken as it is.                          *)
payload_refusal(d) ==
    FirstRefusal(
      << <<d.form = "other", MALFORMED>>, <<d.form = "oversize", MALFORMED>>,
         <<d.form = "not_json", MALFORMED>> >>)

translate_payload(entry, d) ==
    CASE entry.reads = "mcp"      -> mcp_translate(d.top, d.parts)
      [] entry.reads = "commerce" -> commerce_translate(d.top, d.parts, d.offers)
      [] entry.reads = "intent"   -> intent_translate(d.top, d.parts)
      [] entry.reads = "draft"    -> Drafts[draft].result

(* Mutation: the limits are the adapter's own descriptor's only.           *)
Bug_TrustsAdapter(descriptor, result) ==
    FirstRefusal(
      << <<result.payload.type \notin FAMILY_PAYLOAD_TYPES[descriptor.family], GENERIC>>,
         <<DOMAIN result.provenance = {}, GENERIC>>,
         <<\E k \in DOMAIN result.provenance :
              result.provenance[k].authority > descriptor.emits_authority, CEILING>>,
         <<\E k \in DOMAIN result.provenance :
              ~result.provenance[k].tainted \/ result.provenance[k].trusted, TAINT>> >>)

(* _check_result. A result wrong in two ways is refused for the first (the *)
(* order of its entries, which decides between the last two, is left out). *)
check_result(descriptor, result) ==
    IF result.payload.type \notin FAMILY_PAYLOAD_TYPES[descriptor.family]
    THEN GENERIC
    ELSE FirstRefusal(
      << <<DOMAIN result.provenance = {}, GENERIC>>,
         <<required_provenance_keys(result.payload)
             \ DOMAIN result.provenance # {}, INCOMPLETE>>,
         <<\E k \in DOMAIN result.provenance :
              result.provenance[k].authority > descriptor.emits_authority, CEILING>>,
         <<\E k \in DOMAIN result.provenance :
              ~result.provenance[k].tainted \/ result.provenance[k].trusted, TAINT>> >>)

resolve_refusal(d) ==
    IF d.adapter_id \notin DOMAIN registry THEN UNREGISTERED
    ELSE FirstRefusal(
      << <<registry[d.adapter_id].descriptor.family # d.family, MISMATCHED>>,
         <<d.version \notin registry[d.adapter_id].descriptor.versions, VERSION>>,
         Calls(payload_refusal(d)) >>)

(* The envelope: identity from the descriptor, the rest from the result.   *)
envelope(descriptor, result) ==
    [refusal |-> "none", adapter_id |-> descriptor.adapter_id,
     family |-> descriptor.family, payload |-> result.payload,
     provenance |-> result.provenance, warnings |-> result.warnings]

translated(d) ==
    IF resolve_refusal(d) # "none" THEN Refuse(resolve_refusal(d))
    ELSE LET entry  == registry[d.adapter_id]
             result == translate_payload(entry, d)
             check  == IF result.refusal # "none" THEN result.refusal
                       ELSE check_result(entry.descriptor, result)
         IN IF check = "none" THEN envelope(entry.descriptor, result) ELSE Refuse(check)

NoCall == [delivery |-> << >>, result |-> Refuse("no call")]

(* A synchronous function: one call, and the caller uses its result.       *)
translate ==
    /\ imported /\ call = NoCall
    /\ \E d \in Deliveries : call' = [delivery |-> d, result |-> translated(d)]
    /\ UNCHANGED <<draft, registry, sealed, imported, granted>>

Done ==
    /\ call # NoCall
    /\ call' = NoCall /\ granted' = {}
    /\ UNCHANGED <<draft, registry, sealed, imported>>

Accepted == call.result.refusal = "none"

authorize_operation(principal) ==
    /\ Accepted /\ call.result.payload.type = "CandidateOperation"
    /\ LET capability == OPERATION_CAPABILITY[call.result.payload.operation]
       IN /\ permits(capabilities_for(principal), capability)
          /\ granted' = granted \cup {<<principal, capability>>}
    /\ UNCHANGED <<draft, registry, sealed, imported, call>>

BoundaryInit ==
    /\ draft \in DOMAIN Drafts \cup {"none"}
    /\ registry = << >> /\ sealed = FALSE /\ imported = FALSE
    /\ call = NoCall /\ granted = {}

BoundaryNext ==
    \/ Import \/ translate \/ Done
    \/ \E d \in DOMAIN Drafts : RegisterLater(d)
    \/ \E p \in Principals : authorize_operation(p)

BoundarySpec == BoundaryInit /\ [][BoundaryNext]_avars

(***************************************************************************)
(* The support matrix                                                      *)
(***************************************************************************)
Support(protocol, family, status, adapter_id) ==
    [protocol |-> protocol, family |-> family, status |-> status,
     adapter_id |-> adapter_id]

PROTOCOL_SUPPORT ==
    {Support("Razorpay", "PAYMENT_RAIL", "PARTIAL", "none"),
     Support("MCP", "TOOL", "PARTIAL", "mcp.tools-call.v1"),
     Support("AP2", "PAYMENT_AUTHORIZATION", "PLANNED", "none"),
     Support("x402", "none", "PLANNED", "none"),
     Support("ACP", "none", "PLANNED", "none"),
     Support("pactra.commerce.v1", "COMMERCE", "IMPLEMENTED", "pactra.commerce.v1"),
     Support("pactra.authorization-intent.v1", "PAYMENT_AUTHORIZATION", "IMPLEMENTED",
             "pactra.authorization-intent.v1")}

(***************************************************************************)
(* Properties                                                              *)
(***************************************************************************)

(* "an adapter cannot exempt itself": whatever an adapter returns, an      *)
(* envelope carries the family and the id the caller named, a payload that *)
(* family may emit, and for every value of it a provenance entry, none     *)
(* above AGENT_PROPOSAL, untainted or trusted (_check_result). And an      *)
(* operation so obtained grants nothing the buyer agent did not already    *)
(* have: whoever calls, what is passed is one of its capabilities and      *)
(* never a privileged one (authorize_operation, OPERATION_CAPABILITY).     *)
EnvelopeSound ==
    /\ Accepted =>
        LET e == call.result
        IN /\ e.adapter_id = call.delivery.adapter_id
           /\ e.family = call.delivery.family
           /\ e.payload.type \in FAMILY_PAYLOAD_TYPES[e.family]
           /\ required_provenance_keys(e.payload) \subseteq DOMAIN e.provenance
           /\ \A k \in DOMAIN e.provenance :
                e.provenance[k].authority <= AuthorityLevel.AGENT_PROPOSAL
                /\ e.provenance[k].tainted /\ ~e.provenance[k].trusted
    /\ \A g \in granted :
        g[2] \in buyer_agent_capabilities.allow \ PRIVILEGED_CAPABILITIES

(* The members the documents of a delivery state, in order, by part;       *)
(* merchant claims are left to the authority lattice.                      *)
Stated(part) == call.delivery.parts[part]
Refers(part, to) ==
    \E k \in DOMAIN Parsed(Stated(part)) : Parsed(Stated(part))[k] = J("object", to)
ReadParts ==
    {part \in {"doc", "params", "arguments", "offer"} \cap DOMAIN call.delivery.parts :
        part \in {"doc", "offer"} \/ \E from \in {"doc", "params"} : Refers(from, part)}

(* The candidate's own reading of a part: what its type keeps of it.       *)
KeptOf(part) ==
    LET p == call.result.payload
    IN CASE p.type = "CandidateOperation" -> p.arguments
         [] p.type = "CandidateCommerceCatalog" ->
              IF part = "offer" THEN p.offers[1] ELSE p.metadata
         [] p.type = "CandidateAuthorizationRequest" -> p.metadata

DefinedIn(part) ==
    CASE part = "params"    -> {"name", "arguments"}
      [] part = "arguments" -> {}
      [] part = "offer"     -> OFFER_FIELDS
      [] part = "doc"       ->
           CASE call.delivery.family = "TOOL"     -> {"jsonrpc", "id", "method", "params"}
             [] call.delivery.family = "COMMERCE" -> CATALOG_FIELDS
             [] call.delivery.family = "PAYMENT_AUTHORIZATION" -> INTENT_FIELDS

FromRepository == registry[call.delivery.adapter_id].reads # "draft"

(* "Neither adapter ever IGNORES one": the key of every member an accepted *)
(* document states is one its protocol defines there, in the spelling it   *)
(* defines, or is kept on the candidate; none names security state, in any *)
(* spelling; and no two spell one field differently (guard_payload_keys on *)
(* every object read). This is about keys. A key stated twice letter for   *)
(* letter passes, with its last value: json.loads has dropped the first    *)
(* one before the guard, which would refuse the pair, sees the document.   *)
NothingIgnored ==
    Accepted /\ FromRepository =>
        \A part \in ReadParts : \A i \in DOMAIN Stated(part) :
            LET k == Stated(part)[i][1]
            IN /\ k \in KeptOf(part) \cup {K(n) : n \in DefinedIn(part)}
               /\ k.name \notin RESERVED_SECURITY_FIELDS
               /\ \A j \in DOMAIN Stated(part) :
                    Stated(part)[j][1].name = k.name => Stated(part)[j][1] = k

(* What the support matrix promises of the process: every adapter it names *)
(* resolves under its family, and a planned protocol names none.           *)
MatrixTrue ==
    imported =>
        \A row \in PROTOCOL_SUPPORT :
            IF row.adapter_id = "none" THEN row.status # "IMPLEMENTED"
            ELSE /\ row.status \in {"IMPLEMENTED", "PARTIAL"}
                 /\ row.adapter_id \in DOMAIN registry
                 /\ registry[row.adapter_id].descriptor.family = row.family

(* The support matrix stays true, whatever else was added to the list, and *)
(* once the import has sealed the registry, what an id resolves to never   *)
(* changes again, by another import or a late registration.                *)
RegistryStands ==
    [](MatrixTrue) /\ [][sealed => sealed' /\ registry' = registry]_avars
=============================================================================
