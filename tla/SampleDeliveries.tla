------------------------- MODULE SampleDeliveries -------------------------
(* Deliveries for AdapterBoundary: a well-formed document for each adapter *)
(* and every document one edit away from it, and the calls that name the   *)
(* wrong adapter, family or version.                                       *)
EXTENDS Translation, SequencesExt

T(is) == J("text", is)

Samples ==
    {Null, T("x"), J("empty", ""), J("long", ""), J("int", ""), J("excess", ""),
     J("huge", ""), J("float", ""), J("bool", ""), J("strings", ""),
     J("mixed", ""), J("object", "other"), J("array", ""), J("time", ""),
     J("naive", ""), J("uuid", "")}

EditsOf(members) ==
    {RemoveAt(members, i) : i \in DOMAIN members}
    \cup {[members EXCEPT ![i][2] = v] : i \in DOMAIN members, v \in Samples}
    \cup {Append(members, <<K("extra"), v>>) : v \in Samples}
    \cup {Append(members, <<Key("meta", "alt"), T("x")>>),
          Append(members, <<K("trusted"), J("bool", "")>>),
          Append(members, <<Key("trusted", "alt"), J("bool", "")>>)}
    \cup {Append(members, <<Key(members[i][1].name, style), members[i][2]>>) :
            i \in DOMAIN members, style \in {"defined", "alt"}}

Delivery(id, family, version, form, parts, offers) ==
    [adapter_id |-> id, family |-> family, version |-> version, form |-> form,
     top |-> J("object", "doc"), parts |-> parts, offers |-> offers]

McpParts(tool) ==
    [doc |-> << <<K("jsonrpc"), T("2.0")>>, <<K("id"), J("int", "")>>,
                <<K("method"), T("tools/call")>>, <<K("params"), J("object", "params")>> >>,
     params |-> << <<K("name"), T(tool)>>, <<K("arguments"), J("object", "arguments")>> >>,
     arguments |-> << <<K("query"), T("x")>>, <<K("limit"), J("int", "")>> >>,
     other |-> << >>]

CommerceParts ==
    [doc |-> << <<K("protocol"), T("pactra.commerce")>>, <<K("merchantid"), T("m")>>,
                <<K("offers"), J("array", "")>> >>,
     offer |-> << <<K("merchantid"), T("m")>>, <<K("productid"), T("p")>>,
                  <<K("title"), T("t")>>, <<K("description"), T("d")>>,
                  <<K("price"), J("float", "")>>, <<K("currency"), T("INR")>>,
                  <<K("rating"), J("float", "")>>, <<K("instock"), J("bool", "")>>,
                  <<K("offeredat"), J("time", "")>>,
                  <<K("claims"), J("object", "claims")>> >>,
     claims |-> << <<K("hardlimitinr"), J("int", "")>> >>,
     other |-> << >>]

IntentParts ==
    [doc |-> << <<K("protocol"), T("pactra.authorization-intent")>>,
                <<K("missionid"), J("uuid", "")>>, <<K("merchantid"), T("m")>>,
                <<K("productid"), T("p")>>, <<K("quantity"), J("int", "")>>,
                <<K("amountinr"), J("int", "")>>, <<K("currency"), T("inr")>>,
                <<K("expiresat"), J("time", "")>>,
                <<K("externalauthorizationreference"), T("r")>> >>,
     other |-> << >>]

OneEdit(parts) ==
    {parts} \cup UNION {{[parts EXCEPT ![p] = m] : m \in EditsOf(parts[p])} :
                           p \in DOMAIN parts \ {"other"}}

OneOffer == <<J("object", "offer")>>

McpCall(parts) == Delivery("mcp.tools-call.v1", "TOOL", "2025-06-18", "bytes", parts, << >>)

SampleDeliveries ==
    {McpCall(parts) : parts \in OneEdit(McpParts("purchase_propose"))}
    \cup {McpCall(McpParts(t)) : t \in DOMAIN TOOL_NAMES}
    \cup {Delivery("pactra.commerce.v1", "COMMERCE", "1.0", "bytes", parts, OneOffer) :
            parts \in OneEdit(CommerceParts)}
    \cup {Delivery("pactra.commerce.v1", "COMMERCE", "1.0", "bytes", CommerceParts, offers) :
            offers \in {<< >>, OneOffer \o OneOffer, OneOffer \o OneOffer \o OneOffer,
                        <<Null>>}}
    \cup {Delivery("pactra.authorization-intent.v1", "PAYMENT_AUTHORIZATION", "1.0",
                   "bytes", parts, << >>) : parts \in OneEdit(IntentParts)}
    \cup {Delivery(id, family, version, form, McpParts("offer_rank"), << >>) :
            id \in {"mcp.tools-call.v1", "draft.v1", "unknown"},
            family \in {"TOOL", "COMMERCE", "PAYMENT_RAIL"}, version \in {"2025-06-18", "9"},
            form \in {"bytes", "dict", "other", "oversize", "not_json"}}

Marked(meta) == [k \in {At("", "operation"), At("", "toolname")} |-> meta]
Returned(type, provenance) ==
    [refusal |-> "none",
     payload |-> [type |-> type, operation |-> "OFFER_RANK", arguments |-> {}],
     provenance |-> provenance, warnings |-> {}]

(* A single offer, with metadata, marked at the places given.              *)
OneCandidate(places) ==
    [refusal |-> "none",
     payload |-> [type |-> "CandidateCommerceOffer", metadata |-> {K("extra")}],
     provenance |-> [k \in places |-> external_provenance], warnings |-> {}]
OfferPlaces == {At("", f) : f \in OFFER_FIELDS \cup {"metadata", "claimedmerchantid"}}

DraftOf(family, base, authority, result) ==
    [entry  |-> Entry([Descriptor("draft.v1", family, {"2025-06-18"})
                          EXCEPT !.emits_authority = authority], base, "draft"),
     result |-> result]

Agent == AuthorityLevel.AGENT_PROPOSAL
Good  == Returned("CandidateOperation", Marked(external_provenance))

SampleDrafts ==
    [good       |-> DraftOf("TOOL", "TOOL", Agent, Good),
     rail       |-> DraftOf("PAYMENT_RAIL", "PAYMENT_RAIL", Agent, Good),
     otherbase  |-> DraftOf("TOOL", "COMMERCE", Agent, Good),
     ambitious  |-> DraftOf("TOOL", "TOOL", AuthorityLevel.USER_POLICY, Good),
     wrongtype  |-> DraftOf("TOOL", "TOOL", Agent,
                       Returned("CandidateCommerceOffer", Marked(external_provenance))),
     offer      |-> DraftOf("COMMERCE", "COMMERCE", Agent, OneCandidate(OfferPlaces)),
     anonymous  |-> DraftOf("COMMERCE", "COMMERCE", Agent,
                       OneCandidate(OfferPlaces \ {At("", "claimedmerchantid")})),
     unmarked   |-> DraftOf("TOOL", "TOOL", Agent, Returned("CandidateOperation", << >>)),
     half       |-> DraftOf("TOOL", "TOOL", Agent,
                       Returned("CandidateOperation",
                                [k \in {At("", "operation")} |-> external_provenance])),
     raised     |-> DraftOf("TOOL", "TOOL", Agent,
                       Returned("CandidateOperation",
                                Marked([external_provenance EXCEPT
                                          !.authority = AuthorityLevel.USER_POLICY]))),
     cleaned    |-> DraftOf("TOOL", "TOOL", Agent,
                       Returned("CandidateOperation",
                                Marked([external_provenance EXCEPT !.tainted = FALSE]))),
     taken      |-> [entry |-> Entry(Descriptor("mcp.tools-call.v1", "COMMERCE", {"1.0"}),
                                     "COMMERCE", "draft"),
                     result |-> Good]]

SamplePrincipals == {"buyer-agent", "payment-executor", "unknown"}
=============================================================================
