---------------------------- MODULE KernelProofs ----------------------------
(***************************************************************************)
(* Proofs about the kernel's two gates, for any fields, values and         *)
(* presented capability sets, and about the adapter boundary in front of   *)
(* them, for any deliveries, principals and well-typed draft adapters.     *)
(***************************************************************************)
EXTENDS KernelGates, AdapterBoundary, DataInduction

(* A step is left to Zenon, then to SMT, for at most 30 seconds each; one  *)
(* that needs arithmetic, sequences or records names SMT.                  *)
USE ZenonT(30), SMTT(30)

-----------------------------------------------------------------------------
(* The register                                                            *)

(* The value of a protected field is the user's and is held at the user's  *)
(* authority, so that no other source reaches it.                          *)
Owned ==
    /\ users \in [Fields -> Values]
    /\ DOMAIN protected_register = Fields
    /\ \A f \in Fields : protected_register[f].value = users[f]
    /\ \A f \in Fields : protected_register[f].authority = 60

(* What a write leaves in its field: the incoming value if its authority   *)
(* is not below the current one's, else the current value.                 *)
LEMMA MergeKeepsHigher ==
    ASSUME NEW current, NEW incoming
    PROVE  merge_keep_higher(current, incoming).value =
               IF incoming.authority >= current.authority THEN incoming ELSE current
BY DEF merge_keep_higher, can_write

(* A write keeps the user's value, or is the user's.                       *)
LEMMA WriteOwned ==
    ASSUME Owned, NEW f \in Fields, NEW level \in Level, NEW v \in Values,
           Write(f, level, v)
    PROVE  Owned'
<1> DEFINE incoming == Provenanced(v, "source", level, FALSE)
<1>1. level \in Int /\ level <= 60
    BY SMTT(30) DEF Level, AuthorityLevel
<1>2. incoming.value = v /\ incoming.authority = level
    BY DEF Provenanced
<1>0. /\ protected_register' = [protected_register EXCEPT ![f] =
             merge_keep_higher(protected_register[f], incoming).value]
      /\ protected_register[f].authority = 60
    <2>1. protected_register' = apply(protected_register, f, incoming).register
        BY DEF Write
    <2>2. protected_register[f].authority = 60
        BY DEF Owned
    <2>3. apply(protected_register, f, incoming).register =
              [protected_register EXCEPT ![f] =
                  merge_keep_higher(protected_register[f], incoming).value]
        BY DEF apply
    <2> QED BY <2>1, <2>2, <2>3
<1> HIDE DEF incoming
<1>3. CASE level = 60
    <2>0. merge_keep_higher(protected_register[f], incoming).value = incoming
        BY <1>0, <1>2, <1>3, MergeKeepsHigher, SMTT(30)
    <2>1. protected_register' = [protected_register EXCEPT ![f] = incoming]
        BY <1>0, <2>0
    <2>2. users' = [users EXCEPT ![f] = v]
        BY <1>3 DEF Write, AuthorityLevel
    <2> QED BY <2>1, <2>2, <1>2, <1>3 DEF Owned
<1>4. CASE level # 60
    <2>0. merge_keep_higher(protected_register[f], incoming).value = protected_register[f]
        BY <1>0, <1>1, <1>2, <1>4, MergeKeepsHigher, SMTT(30)
    <2>1. protected_register' = [protected_register EXCEPT ![f] = protected_register[f]]
        BY <1>0, <2>0
    <2>2. users' = users
        BY <1>4 DEF Write, AuthorityLevel
    <2> QED BY <2>1, <2>2 DEF Owned
<1> QED BY <1>3, <1>4

(* Whatever is written, in any order and by whomever, the user's values    *)
(* stand (merge_keep_higher).                                              *)
THEOREM UserPolicyStands == GatesSpec => []UserValueStands
<1>1. GatesInit => Owned
    BY SMTT(30) DEF GatesInit, Owned, authoritative, Provenanced, AuthorityLevel
<1>2. Owned /\ [GatesNext]_gvars => Owned'
    <2> SUFFICES ASSUME Owned, [GatesNext]_gvars PROVE Owned'
        OBVIOUS
    <2>1. ASSUME NEW f \in Fields, NEW level \in Level, NEW v \in Values,
                 Write(f, level, v)
          PROVE  Owned'
        BY <2>1, WriteOwned
    <2>2. ASSUME NEW capset \in Presented, NEW capability \in Privileged,
                 Present(capset, capability)
          PROVE  Owned'
        BY <2>2 DEF Present, Owned
    <2>3. CASE UNCHANGED gvars
        BY <2>3 DEF gvars, Owned
    <2> QED BY <2>1, <2>2, <2>3 DEF GatesNext
<1>3. Owned => UserValueStands
    BY DEF Owned, UserValueStands
<1> QED BY <1>1, <1>2, <1>3, PTL DEF GatesSpec

-----------------------------------------------------------------------------
(* The boundaries                                                          *)

(* No set of the registry permits both issuing and executing, and the sets *)
(* of the registry are told apart by their principals.                     *)
LEMMA RegistrySplitsDuties ==
    \A s \in Registry : ~(permits(s, "authorization.issue") /\ permits(s, "payment.execute"))
BY SMTT(30) DEF Registry, permits, buyer_agent_capabilities, security_kernel_capabilities,
       payment_executor_capabilities, CapabilitySet

(* What the server grants a principal, known or not, never spans both.     *)
LEMMA GrantsSplitDuties ==
    ASSUME NEW p
    PROVE  ~(permits(capabilities_for(p), "authorization.issue")
             /\ permits(capabilities_for(p), "payment.execute"))
<1>1. CASE \E s \in Registry : s.principal = p
    <2>1. capabilities_for(p) \in Registry
        BY <1>1 DEF capabilities_for
    <2> QED BY <2>1, RegistrySplitsDuties
<1>2. CASE ~ \E s \in Registry : s.principal = p
    <2>1. capabilities_for(p) = CapabilitySet(p, {}, {})
        BY <1>2 DEF capabilities_for
    <2> QED BY <2>1, SMTT(30) DEF permits, CapabilitySet
<1> QED BY <1>1, <1>2

(* Everything that passed was granted by the server's own registry.        *)
Granted == \A p \in passed : permits(capabilities_for(p[1]), p[2])

(* Separation of duties holds for every capability set anyone can present. *)
THEOREM DutiesSeparated == GatesSpec => []NoSelfDealing
<1>1. GatesInit => Granted
    BY DEF GatesInit, Granted
<1>2. Granted /\ [GatesNext]_gvars => Granted'
    <2> SUFFICES ASSUME Granted, [GatesNext]_gvars PROVE Granted'
        OBVIOUS
    <2>1. ASSUME NEW f \in Fields, NEW level \in Level, NEW v \in Values,
                 Write(f, level, v)
          PROVE  Granted'
        BY <2>1 DEF Write, Granted
    <2>2. ASSUME NEW capset \in Presented, NEW capability \in Privileged,
                 Present(capset, capability)
          PROVE  Granted'
        BY <2>2, SMTT(30) DEF Present, Granted, enforce_registered
    <2>3. CASE UNCHANGED gvars
        BY <2>3 DEF gvars, Granted
    <2> QED BY <2>1, <2>2, <2>3 DEF GatesNext
<1>3. Granted => NoSelfDealing
    BY GrantsSplitDuties DEF Granted, NoSelfDealing
<1> QED BY <1>1, <1>2, <1>3, PTL DEF GatesSpec

-----------------------------------------------------------------------------
(* Lists of checks                                                         *)

(* A list of checks refuses nothing exactly when none of them fails.       *)
LEMMA NoRefusal ==
    ASSUME NEW checks, DOMAIN checks \subseteq Nat,
           \A i \in DOMAIN checks : checks[i][1] => checks[i][2] # "none"
    PROVE  FirstRefusal(checks) = "none" <=> \A i \in DOMAIN checks : ~checks[i][1]
<1> DEFINE failing == {i \in DOMAIN checks : checks[i][1]}
<1>1. CASE failing = {}
  <2>1. FirstRefusal(checks) = "none"
    BY <1>1 DEF FirstRefusal
  <2> QED
    BY <1>1, <2>1
<1>2. CASE failing # {}
  <2>1. PICK m \in failing : \A n \in failing : m <= n
    BY <1>2, LeastNat
  <2>2. Min(failing) \in failing
    BY <2>1 DEF Min
  <2>3. FirstRefusal(checks) = checks[Min(failing)][2]
    BY <1>2 DEF FirstRefusal
  <2> QED
    BY <2>2, <2>3
<1> QED
  BY <1>1, <1>2

(* A delivery that resolves names a registered adapter and its family.     *)
LEMMA Resolved ==
    ASSUME NEW d, resolve_refusal(d) = "none"
    PROVE  /\ d.adapter_id \in DOMAIN registry
           /\ registry[d.adapter_id].descriptor.family = d.family
<1> DEFINE e == registry[d.adapter_id].descriptor
           a == e.family # d.family
           b == d.version \notin e.versions
           checks == << <<a, MISMATCHED>>, <<b, VERSION>>, Calls(payload_refusal(d)) >>
<1>1. d.adapter_id \in DOMAIN registry /\ FirstRefusal(checks) = "none"
  BY DEF resolve_refusal, UNREGISTERED
<1>2. /\ DOMAIN checks = 1 .. 3
      /\ checks[1] = <<a, MISMATCHED>> /\ checks[2] = <<b, VERSION>>
      /\ checks[3] = Calls(payload_refusal(d))
  <2> HIDE DEF a, b
  <2> QED
    BY SMTT(30)
<1> HIDE DEF checks, a, b
<1>3. /\ checks[1][1] = a /\ checks[1][2] # "none" /\ checks[2][2] # "none"
      /\ checks[3][1] => checks[3][2] # "none"
  <2>1. checks[1][1] = a /\ checks[1][2] # "none" /\ checks[2][2] # "none"
    BY <1>2, SMTT(30) DEF MISMATCHED, VERSION
  <2>2. checks[3][1] = (payload_refusal(d) # "none") /\ checks[3][2] = payload_refusal(d)
    BY <1>2, SMTT(30) DEF Calls
  <2> QED
    BY <2>1, <2>2
<1>4. \A i \in DOMAIN checks : checks[i][1] => checks[i][2] # "none"
  BY <1>2, <1>3, SMTT(30)
<1>5. ~checks[1][1]
  BY <1>1, <1>2, <1>4, NoRefusal, SMTT(30)
<1> QED
  BY <1>1, <1>3, <1>5 DEF a

(* What _check_result lets through.                                        *)
LEMMA Checked ==
    ASSUME NEW descriptor, NEW result, check_result(descriptor, result) = "none"
    PROVE  /\ result.payload.type \in FAMILY_PAYLOAD_TYPES[descriptor.family]
           /\ required_provenance_keys(result.payload) \subseteq DOMAIN result.provenance
           /\ \A k \in DOMAIN result.provenance :
                /\ ~(result.provenance[k].authority > descriptor.emits_authority)
                /\ result.provenance[k].tainted /\ ~result.provenance[k].trusted
<1> DEFINE p == result.provenance
           a == DOMAIN p = {}
           b == required_provenance_keys(result.payload) \ DOMAIN p # {}
           c == \E k \in DOMAIN p : p[k].authority > descriptor.emits_authority
           e == \E k \in DOMAIN p : ~p[k].tainted \/ p[k].trusted
           checks == << <<a, GENERIC>>, <<b, INCOMPLETE>>, <<c, CEILING>>, <<e, TAINT>> >>
<1>1. /\ result.payload.type \in FAMILY_PAYLOAD_TYPES[descriptor.family]
      /\ FirstRefusal(checks) = "none"
  BY DEF check_result, GENERIC
<1>2. /\ DOMAIN checks = 1 .. 4
      /\ checks[1] = <<a, GENERIC>> /\ checks[2] = <<b, INCOMPLETE>>
      /\ checks[3] = <<c, CEILING>> /\ checks[4] = <<e, TAINT>>
  <2> HIDE DEF a, b, c, e
  <2> QED
    BY SMTT(30)
<1> HIDE DEF checks, a, b, c, e
<1>3. /\ checks[2][1] = b /\ checks[3][1] = c /\ checks[4][1] = e
      /\ \A i \in DOMAIN checks : checks[i][2] # "none"
  BY <1>2, SMTT(30) DEF GENERIC, INCOMPLETE, CEILING, TAINT
<1>4. ~checks[2][1] /\ ~checks[3][1] /\ ~checks[4][1]
  BY <1>1, <1>2, <1>3, NoRefusal, SMTT(30)
<1>5. ~b /\ ~c /\ ~e
  BY <1>3, <1>4
<1> QED
  BY <1>1, <1>5 DEF b, c, e

-----------------------------------------------------------------------------
(* What the adapters return                                                *)

(* A candidate operation is one of the five, and a level is a level.       *)
Typed(r) ==
    r.refusal = "none" =>
        /\ r.payload.type = "CandidateOperation" =>
             r.payload.operation \in DOMAIN OPERATION_CAPABILITY
        /\ \A k \in DOMAIN r.provenance : r.provenance[k].authority \in Level

(* The two constructors of a result.                                       *)
LEMMA Results ==
    /\ \A x : Refuse(x).refusal = x
    /\ \A p, keys, w : /\ Translated(p, keys, w).payload = p
                       /\ DOMAIN Translated(p, keys, w).provenance = keys
                       /\ \A k \in keys : Translated(p, keys, w).provenance[k].authority \in Level
<1>1. external_provenance.authority \in Level
  BY DEF external_provenance, Level, AuthorityLevel
<1>2. \A x : Refuse(x).refusal = x
  BY DEF Refuse
<1>3. ASSUME NEW p, NEW keys, NEW w
      PROVE  /\ Translated(p, keys, w).payload = p
             /\ DOMAIN Translated(p, keys, w).provenance = keys
             /\ \A k \in keys : Translated(p, keys, w).provenance[k].authority \in Level
  <2>1. /\ Translated(p, keys, w).payload = p
        /\ Translated(p, keys, w).provenance = [k \in keys |-> external_provenance]
    BY DEF Translated
  <2> QED
    BY <1>1, <2>1
<1> QED
  BY <1>2, <1>3

(* Calling a function that may raise is a check that fails when it raises. *)
LEMMA CallsRefuse ==
    ASSUME NEW x
    PROVE  /\ Calls(x)[1] <=> x # "none"
           /\ Calls(x)[1] => Calls(x)[2] # "none"
BY DEF Calls

(* The MCP adapter raises for a tool name it does not know.                *)
LEMMA McpTool ==
    ASSUME NEW top, NEW parts, mcp_refusal(top, parts) = "none"
    PROVE  Get(mcp_params(top, parts), "name").is \in DOMAIN TOOL_NAMES
<1> DEFINE params == mcp_params(top, parts)
           r == request_refusal(Object(top, parts))
           s == arguments_refusal(mcp_arguments(top, parts))
           t == top.kind # "object"
           outer == << <<t, MALFORMED>>, Calls(r), Calls(params_refusal(params)), Calls(s) >>
<1>1. FirstRefusal(outer) = "none"
  BY DEF mcp_refusal
<1> HIDE DEF params, r, s, t
<1>2. /\ DOMAIN outer = 1 .. 4 /\ outer[3] = Calls(params_refusal(params))
      /\ \A i \in 1 .. 4 : outer[i][1] => outer[i][2] # "none"
  BY CallsRefuse, SMTT(30) DEF MALFORMED
<1> HIDE DEF outer
<1>3. ~outer[3][1]
  BY <1>1, <1>2, NoRefusal, SMTT(30)
<1>4. params_refusal(params) = "none"
  BY <1>2, <1>3, CallsRefuse
<1> DEFINE g == guard_payload_keys(params)
           a == unknown_fields(params, {"name", "arguments"}) # {}
           b == ~NonEmptyStr(Get(params, "name"))
           c == Get(params, "name").is \notin DOMAIN TOOL_NAMES
           e == Get(params, "arguments").kind \notin {"object", "null"}
           inner == << Calls(g), <<a, MALFORMED>>, <<b, MALFORMED>>, <<c, OPERATION>>,
                       <<e, MALFORMED>> >>
<1>5. FirstRefusal(inner) = "none"
  BY <1>4 DEF params_refusal
<1> HIDE DEF g, a, b, c, e
<1>6. /\ DOMAIN inner = 1 .. 5 /\ inner[4] = <<c, OPERATION>>
      /\ \A i \in 1 .. 5 : inner[i][1] => inner[i][2] # "none"
  BY CallsRefuse, SMTT(30) DEF MALFORMED, OPERATION
<1> HIDE DEF inner
<1>7. ~inner[4][1]
  BY <1>5, <1>6, NoRefusal, SMTT(30)
<1>8. ~c
  BY <1>6, <1>7, SMTT(30)
<1> QED
  BY <1>8 DEF c, params

(* A translation ends with a refusal or with a typed candidate.            *)
LEMMA EndingTyped ==
    ASSUME NEW x, NEW p, NEW keys, NEW w,
           x = "none" /\ p.type = "CandidateOperation" =>
               p.operation \in DOMAIN OPERATION_CAPABILITY
    PROVE  Typed(Ending(x, p, keys, w))
<1>1. CASE x # "none"
  BY <1>1, Results DEF Typed, Ending
<1>2. CASE x = "none"
  <2>1. Typed(Translated(p, keys, w))
    BY <1>2, Results, SMTT(30) DEF Typed
  <2> QED
    BY <1>2, <2>1 DEF Ending
<1> QED
  BY <1>1, <1>2

(* A catalog holds no operation.                                           *)
LEMMA CommerceTyped ==
    ASSUME NEW top, NEW parts, NEW offers
    PROVE  Typed(commerce_translate(top, parts, offers))
<1>1. PICK x, kept, extras, keys, w :
        commerce_translate(top, parts, offers) =
            Ending(x, [type |-> "CandidateCommerceCatalog", offers |-> kept,
                       metadata |-> extras], keys, w)
  BY DEF commerce_translate
<1> QED
  BY <1>1, EndingTyped

(* The same for a payment intent.                                          *)
LEMMA IntentTyped ==
    ASSUME NEW top, NEW parts
    PROVE  Typed(intent_translate(top, parts))
<1>1. PICK x, optional, extras, keys, w :
        intent_translate(top, parts) =
            Ending(x, [type |-> "CandidateAuthorizationRequest", optional |-> optional,
                       metadata |-> extras], keys, w)
  BY DEF intent_translate
<1> QED
  BY <1>1, EndingTyped

(* An operation the MCP adapter returns is the one of a tool name it knows. *)
LEMMA McpTyped ==
    ASSUME NEW top, NEW parts
    PROVE  Typed(mcp_translate(top, parts))
<1> DEFINE op == TOOL_NAMES[Get(mcp_params(top, parts), "name").is]
<1>1. ASSUME mcp_refusal(top, parts) = "none"
      PROVE  op \in DOMAIN OPERATION_CAPABILITY
  <2>1. Get(mcp_params(top, parts), "name").is \in DOMAIN TOOL_NAMES
    BY <1>1, McpTool
  <2> QED
    BY <2>1, SMTT(30) DEF TOOL_NAMES, OPERATION_CAPABILITY
<1>2. PICK arguments, keys, w :
        mcp_translate(top, parts) =
            Ending(mcp_refusal(top, parts),
                   [type |-> "CandidateOperation", operation |-> op,
                    arguments |-> arguments], keys, w)
  BY DEF mcp_translate
<1> QED
  BY <1>1, <1>2, EndingTyped
-----------------------------------------------------------------------------
(* The registry                                                            *)

IdOf(entry) == entry.descriptor.adapter_id
Ours == {Commerce, Intent, Mcp}

(* What registration leaves in the registry: under its own id an entry of  *)
(* the list, one of the repository's or the draft, which emits nothing     *)
(* above AGENT_PROPOSAL; and no other entry has the id of one of ours.     *)
Registered(entries) ==
    /\ \A id \in DOMAIN entries :
         /\ IdOf(entries[id]) = id
         /\ \/ entries[id] \in Ours
            \/ /\ draft \in DOMAIN Drafts
               /\ entries[id] = Drafts[draft].entry
         /\ entries[id].descriptor.emits_authority \in Level
         /\ ~(entries[id].descriptor.emits_authority > MAX_ADAPTER_AUTHORITY)
    /\ \A o \in Ours : IdOf(o) \in DOMAIN entries => entries[IdOf(o)] = o

(* The whole list is there.                                                *)
Complete(entries) ==
    /\ \A o \in Ours : IdOf(o) \in DOMAIN entries
    /\ draft # "none" => IdOf(Drafts[draft].entry) \in DOMAIN entries

(* The three adapters' ids differ, and none of them exceeds the ceiling.   *)
LEMMA OursApart ==
    /\ \A o, p \in Ours : IdOf(o) = IdOf(p) => o = p
    /\ \A o \in Ours : /\ o.descriptor.emits_authority \in Level
                       /\ ~(o.descriptor.emits_authority > MAX_ADAPTER_AUTHORITY)
                       /\ o.reads \in {"commerce", "intent", "mcp"}
<1>1. /\ IdOf(Commerce) = "pactra.commerce.v1" /\ Commerce.reads = "commerce"
      /\ Commerce.descriptor.emits_authority = MAX_ADAPTER_AUTHORITY
  BY DEF Commerce, IdOf, Entry, Descriptor
<1>2. /\ IdOf(Intent) = "pactra.authorization-intent.v1" /\ Intent.reads = "intent"
      /\ Intent.descriptor.emits_authority = MAX_ADAPTER_AUTHORITY
  BY DEF Intent, IdOf, Entry, Descriptor
<1>3. /\ IdOf(Mcp) = "mcp.tools-call.v1" /\ Mcp.reads = "mcp"
      /\ Mcp.descriptor.emits_authority = MAX_ADAPTER_AUTHORITY
  BY DEF Mcp, IdOf, Entry, Descriptor
<1>4. MAX_ADAPTER_AUTHORITY \in Level /\ MAX_ADAPTER_AUTHORITY = 20
  BY DEF MAX_ADAPTER_AUTHORITY, Level, AuthorityLevel
<1> QED
  BY <1>1, <1>2, <1>3, <1>4, SMTT(30) DEF Ours

(* The registration of an entry is refused after the seal, and when it     *)
(* would emit more than AGENT_PROPOSAL.                                    *)
LEMMA RegistrationRefused ==
    ASSUME NEW entry, NEW entries, NEW closed,
           register_refusal(entry, entries, closed) = "none"
    PROVE  ~closed /\ ~(entry.descriptor.emits_authority > MAX_ADAPTER_AUTHORITY)
<1> DEFINE a == entry.descriptor.adapter_id \in DOMAIN entries
           b == entry.descriptor.family \notin TRANSLATING_FAMILIES
           c == entry.base # entry.descriptor.family
           e == entry.descriptor.emits_authority > MAX_ADAPTER_AUTHORITY
           checks == << <<closed, "ADAPTER_REGISTRATION_REFUSED">>,
                        <<a, "ADAPTER_ID_CONFLICT">>, <<b, "ADAPTER_REGISTRATION_REFUSED">>,
                        <<c, "ADAPTER_REGISTRATION_REFUSED">>,
                        <<e, "ADAPTER_REGISTRATION_REFUSED">> >>
<1>1. FirstRefusal(checks) = "none"
  BY DEF register_refusal
<1> HIDE DEF a, b, c, e
<1>2. /\ DOMAIN checks = 1 .. 5
      /\ checks[1] = <<closed, "ADAPTER_REGISTRATION_REFUSED">>
      /\ checks[5] = <<e, "ADAPTER_REGISTRATION_REFUSED">>
      /\ \A i \in 1 .. 5 : checks[i][2] # "none"
  BY SMTT(30)
<1> HIDE DEF checks
<1>3. ~checks[1][1] /\ ~checks[5][1]
  BY <1>1, <1>2, NoRefusal, SMTT(30)
<1>4. ~closed /\ ~e
  BY <1>2, <1>3, SMTT(30)
<1> QED
  BY <1>4 DEF e

(* One entry of the list: it is there already, it is added, or the import  *)
(* ends; nothing that was there is touched.                                *)
LEMMA StepEffect ==
    ASSUME NEW acc, NEW entry
    PROVE  LET s == Step(acc, entry)
           IN /\ \/ s.entries = acc.entries
                 \/ /\ s.entries = Extend(acc.entries, entry)
                    /\ ~acc.failed
                    /\ IdOf(entry) \notin DOMAIN acc.entries
                    /\ register_refusal(entry, acc.entries, sealed) = "none"
              /\ ~s.failed => ~acc.failed /\ IdOf(entry) \in DOMAIN s.entries
              /\ IdOf(entry) \in DOMAIN acc.entries => s.entries = acc.entries
              /\ IdOf(entry) \in DOMAIN acc.entries /\ ~acc.failed => ~s.failed
              /\ DOMAIN acc.entries \subseteq DOMAIN s.entries
<1> DEFINE known   == entry.descriptor.adapter_id \in DOMAIN acc.entries
           refused == register_refusal(entry, acc.entries, sealed) # "none"
           s == Step(acc, entry)
<1>1. s.entries = IF acc.failed \/ known \/ refused THEN acc.entries
                  ELSE Extend(acc.entries, entry)
  BY DEF Step
<1>2. s.failed = (acc.failed \/ (~known /\ refused))
  BY DEF Step
<1>3. DOMAIN Extend(acc.entries, entry) = DOMAIN acc.entries \cup {IdOf(entry)}
  BY DEF Extend, IdOf
<1>4. known <=> IdOf(entry) \in DOMAIN acc.entries
  BY DEF IdOf
<1>5. refused <=> register_refusal(entry, acc.entries, sealed) # "none"
  OBVIOUS
<1> HIDE DEF s, known, refused
<1> QED
  BY <1>1, <1>2, <1>3, <1>4, <1>5 DEF s

(* An entry of ours, or the draft after all of ours, keeps the registry    *)
(* as it should be.                                                        *)
LEMMA ExtendKeeps ==
    ASSUME NEW entries, NEW entry, Registered(entries),
           \/ entry \in Ours
           \/ /\ draft \in DOMAIN Drafts /\ entry = Drafts[draft].entry
              /\ \A o \in Ours : IdOf(o) \in DOMAIN entries,
           IdOf(entry) \notin DOMAIN entries,
           register_refusal(entry, entries, sealed) = "none"
    PROVE  Registered(Extend(entries, entry))
<1> DEFINE new == Extend(entries, entry)
<1>1. /\ DOMAIN new = DOMAIN entries \cup {IdOf(entry)}
      /\ new[IdOf(entry)] = entry
      /\ \A id \in DOMAIN entries : new[id] = entries[id]
  BY DEF Extend, IdOf
<1>2. entry.descriptor.emits_authority \in Level
  BY OursApart, DraftsTyped
<1>3. ~(entry.descriptor.emits_authority > MAX_ADAPTER_AUTHORITY)
  BY RegistrationRefused
<1>4. ASSUME NEW o \in Ours, IdOf(o) \in DOMAIN new
      PROVE  new[IdOf(o)] = o
  BY <1>1, <1>4, OursApart DEF Registered
<1> HIDE DEF new
<1>5. Registered(new)
  BY <1>1, <1>2, <1>3, <1>4 DEF Registered
<1> QED
  BY <1>5 DEF new

(* _register_all as a whole.                                               *)
LEMMA ImportEffect ==
    ASSUME Registered(registry), draft \in DOMAIN Drafts \cup {"none"}, Import,
           sealed \in BOOLEAN
    PROVE  /\ Registered(registry')
           /\ imported' => Complete(registry')
           /\ Complete(registry) => registry' = registry /\ imported'
<1> DEFINE s0 == [entries |-> registry, failed |-> FALSE]
           s1 == Step(s0, Commerce)
           s2 == Step(s1, Intent)
           s3 == Step(s2, Mcp)
           s4 == IF draft = "none" THEN s3 ELSE Step(s3, Drafts[draft].entry)
<1>1. registry' = s4.entries /\ imported' = ~s4.failed
  BY DEF Import
<1>2. s0.entries = registry /\ s0.failed = FALSE
  OBVIOUS
<1> HIDE DEF s0
<1>3. Registered(s1.entries)
  BY <1>2, StepEffect, ExtendKeeps, SMTT(30) DEF Ours
<1>4. /\ ~s1.failed => IdOf(Commerce) \in DOMAIN s1.entries
      /\ Complete(registry) => s1.entries = registry /\ ~s1.failed
  BY <1>2, StepEffect DEF Ours, Complete
<1> HIDE DEF s1
<1>5. Registered(s2.entries)
  BY <1>3, StepEffect, ExtendKeeps, SMTT(30) DEF Ours
<1>6. /\ ~s2.failed => {IdOf(Commerce), IdOf(Intent)} \subseteq DOMAIN s2.entries
      /\ Complete(registry) => s2.entries = registry /\ ~s2.failed
  BY <1>4, StepEffect, SMTT(30) DEF Ours, Complete
<1> HIDE DEF s2
<1>7. Registered(s3.entries)
  BY <1>5, StepEffect, ExtendKeeps, SMTT(30) DEF Ours
<1>8. /\ ~s3.failed => \A o \in Ours : IdOf(o) \in DOMAIN s3.entries
      /\ Complete(registry) => s3.entries = registry /\ ~s3.failed
  BY <1>6, StepEffect DEF Ours, Complete
<1> HIDE DEF s3
<1>9. CASE draft = "none"
  <2>1. s4 = s3
    BY <1>9
  <2> QED
    BY <1>1, <1>7, <1>8, <1>9, <2>1 DEF Complete
<1>10. CASE draft # "none"
  <2>1. s4 = Step(s3, Drafts[draft].entry) /\ draft \in DOMAIN Drafts
    BY <1>10
  <2>2. Registered(s4.entries)
    BY <1>7, <1>8, <2>1, StepEffect, ExtendKeeps, SMTT(30)
  <2>3. ~s4.failed => Complete(s4.entries)
    BY <1>8, <2>1, StepEffect DEF Complete
  <2>4. Complete(registry) => s4.entries = registry /\ ~s4.failed
    BY <1>8, <1>10, <2>1, StepEffect DEF Complete
  <2> HIDE DEF s4
  <2> QED
    BY <1>1, <2>2, <2>3, <2>4
<1> QED
  BY <1>9, <1>10
-----------------------------------------------------------------------------
(* The boundary                                                            *)

(* Every registered adapter returns a typed result.                        *)
LEMMA AdapterTyped ==
    ASSUME Registered(registry), NEW id \in DOMAIN registry, NEW d
    PROVE  Typed(translate_payload(registry[id], d))
<1> DEFINE entry == registry[id]
<1>1. CASE entry.reads = "commerce"
  <2>1. translate_payload(entry, d) = commerce_translate(d.top, d.parts, d.offers)
    BY <1>1 DEF translate_payload
  <2> QED
    BY <2>1, CommerceTyped
<1>2. CASE entry.reads = "intent"
  <2>1. translate_payload(entry, d) = intent_translate(d.top, d.parts)
    BY <1>2 DEF translate_payload
  <2> QED
    BY <2>1, IntentTyped
<1>3. CASE entry.reads = "mcp"
  <2>1. translate_payload(entry, d) = mcp_translate(d.top, d.parts)
    BY <1>3 DEF translate_payload
  <2> QED
    BY <2>1, McpTyped
<1>4. CASE entry = Drafts[draft].entry /\ draft \in DOMAIN Drafts
  <2>1. translate_payload(entry, d) = Drafts[draft].result
    BY <1>4, DraftsTyped DEF translate_payload
  <2>2. Typed(Drafts[draft].result)
    BY <1>4, DraftsTyped DEF Typed
  <2> QED
    BY <2>1, <2>2
<1> QED
  BY <1>1, <1>2, <1>3, <1>4, OursApart DEF Registered

(* What translate hands out, if it does not refuse.                        *)
Sound(d, e) ==
    /\ e.adapter_id = d.adapter_id
    /\ e.family = d.family
    /\ e.payload.type \in FAMILY_PAYLOAD_TYPES[e.family]
    /\ required_provenance_keys(e.payload) \subseteq DOMAIN e.provenance
    /\ \A k \in DOMAIN e.provenance :
         /\ e.provenance[k].authority <= AuthorityLevel.AGENT_PROPOSAL
         /\ e.provenance[k].tainted /\ ~e.provenance[k].trusted
    /\ e.payload.type = "CandidateOperation" =>
         e.payload.operation \in DOMAIN OPERATION_CAPABILITY

(* The dispatcher's checks make every envelope sound, whatever the adapter *)
(* it resolved returned.                                                   *)
LEMMA TranslatedSound ==
    ASSUME Registered(registry), NEW d, translated(d).refusal = "none"
    PROVE  Sound(d, translated(d))
<1> DEFINE entry  == registry[d.adapter_id]
           result == translate_payload(entry, d)
           check  == IF result.refusal # "none" THEN result.refusal
                     ELSE check_result(entry.descriptor, result)
           e == envelope(entry.descriptor, result)
<1>1. resolve_refusal(d) = "none"
  BY DEF translated, Refuse
<1>2. /\ d.adapter_id \in DOMAIN registry
      /\ entry.descriptor.family = d.family
  BY <1>1, Resolved
<1>3. translated(d) = IF check = "none" THEN e ELSE Refuse(check)
  BY <1>1 DEF translated
<1>4. Typed(result)
  BY <1>2, AdapterTyped
<1>5. /\ IdOf(entry) = d.adapter_id
      /\ entry.descriptor.emits_authority \in Level
      /\ ~(entry.descriptor.emits_authority > MAX_ADAPTER_AUTHORITY)
  BY <1>2 DEF Registered
<1> HIDE DEF entry, result
<1>6. check = "none"
  BY <1>3, Results
<1>7. /\ translated(d) = e /\ result.refusal = "none"
      /\ check_result(entry.descriptor, result) = "none"
  BY <1>3, <1>6
<1>8. /\ e.adapter_id = entry.descriptor.adapter_id /\ e.family = entry.descriptor.family
      /\ e.payload = result.payload /\ e.provenance = result.provenance
  BY DEF envelope
<1>9. Level \subseteq Int /\ MAX_ADAPTER_AUTHORITY = 20 /\ AuthorityLevel.AGENT_PROPOSAL = 20
  BY SMTT(30) DEF Level, AuthorityLevel, MAX_ADAPTER_AUTHORITY
<1>10. ASSUME NEW k \in DOMAIN result.provenance
       PROVE  result.provenance[k].authority <= AuthorityLevel.AGENT_PROPOSAL
  <2>1. result.provenance[k].authority \in Level
    BY <1>4, <1>7 DEF Typed
  <2>2. ~(result.provenance[k].authority > entry.descriptor.emits_authority)
    BY <1>7, Checked
  <2>3. result.provenance[k].authority \in Int /\ entry.descriptor.emits_authority \in Int
    BY <1>5, <1>9, <2>1
  <2>4. ~(entry.descriptor.emits_authority > 20)
    BY <1>5, <1>9
  <2>5. result.provenance[k].authority <= 20
    BY <2>2, <2>3, <2>4, SMTT(30)
  <2> QED
    BY <1>9, <2>5
<1> HIDE DEF e
<1>11. /\ result.payload.type \in FAMILY_PAYLOAD_TYPES[entry.descriptor.family]
       /\ required_provenance_keys(result.payload) \subseteq DOMAIN result.provenance
       /\ \A k \in DOMAIN result.provenance :
            result.provenance[k].tainted /\ ~result.provenance[k].trusted
  BY <1>7, Checked
<1>12. result.payload.type = "CandidateOperation" =>
         result.payload.operation \in DOMAIN OPERATION_CAPABILITY
  BY <1>4, <1>7 DEF Typed
<1>13. Sound(d, e)
  BY <1>2, <1>5, <1>8, <1>10, <1>11, <1>12 DEF Sound, IdOf
<1> QED
  BY <1>7, <1>13

(* The capabilities of the five operations are the buyer agent's.          *)
LEMMA OperationsAreBuyers ==
    \A o \in DOMAIN OPERATION_CAPABILITY :
        OPERATION_CAPABILITY[o] \in buyer_agent_capabilities.allow \ PRIVILEGED_CAPABILITIES
BY SMTT(30) DEF OPERATION_CAPABILITY, PRIVILEGED_CAPABILITIES, buyer_agent_capabilities, CapabilitySet

(* The inductive invariant of the boundary: the registry holds entries of  *)
(* the list only, all of it once sealed, sealed and imported go together,  *)
(* and what is in hand is sound.                                           *)
BoundaryInv ==
    /\ draft \in DOMAIN Drafts \cup {"none"}
    /\ sealed \in BOOLEAN /\ imported = sealed
    /\ Registered(registry)
    /\ sealed => Complete(registry)
    /\ Accepted => Sound(call.delivery, call.result)
    /\ \A g \in granted : g[2] \in buyer_agent_capabilities.allow \ PRIVILEGED_CAPABILITIES

(* Between calls nothing is accepted.                                      *)
LEMMA NoCallRefused == NoCall.result.refusal # "none"
BY DEF NoCall, Refuse

(* The boundary starts in it: nothing registered, nothing in hand.         *)
LEMMA BoundaryInitInv == BoundaryInit => BoundaryInv
<1> SUFFICES ASSUME BoundaryInit PROVE BoundaryInv
  OBVIOUS
<1>1. DOMAIN registry = {}
  BY SMTT(30) DEF BoundaryInit
<1>2. Registered(registry)
  BY <1>1 DEF Registered
<1>3. ~Accepted /\ granted = {}
  BY NoCallRefused DEF BoundaryInit, Accepted
<1> QED
  BY <1>2, <1>3 DEF BoundaryInit, BoundaryInv

(* Every action keeps it, and none changes a sealed registry.              *)
LEMMA BoundaryStep ==
    ASSUME BoundaryInv, [BoundaryNext]_avars
    PROVE  BoundaryInv' /\ (sealed => sealed' /\ registry' = registry)
<1> USE DEF BoundaryInv
<1>1. CASE Import
  <2>1. /\ Registered(registry') /\ (imported' => Complete(registry'))
        /\ Complete(registry) => registry' = registry /\ imported'
    BY <1>1, ImportEffect
  <2>2. UNCHANGED <<draft, call, granted>>
    BY <1>1 DEF Import
  <2>3. sealed' \in BOOLEAN /\ imported' = sealed'
    BY <1>1, <2>1 DEF Import
  <2>4. /\ Registered(registry)' /\ (sealed' => Complete(registry)')
        /\ sealed => sealed' /\ registry' = registry
    BY <2>1, <2>2, <2>3 DEF Registered, Complete
  <2> QED
    BY <2>2, <2>3, <2>4 DEF Accepted
<1>2. ASSUME NEW x \in DOMAIN Drafts, RegisterLater(x)
      PROVE  BoundaryInv' /\ (sealed => sealed' /\ registry' = registry)
  <2>1. sealed
    BY <1>2 DEF RegisterLater
  <2>2. register_refusal(Drafts[x].entry, registry, sealed) # "none"
    BY <2>1, RegistrationRefused
  <2>3. UNCHANGED avars
    BY <1>2, <2>2 DEF RegisterLater, avars
  <2> QED
    BY <2>1, <2>3 DEF avars, Registered, Complete, Accepted
<1>3. CASE translate
  <2>1. UNCHANGED <<draft, registry, sealed, imported, granted>>
    BY <1>3 DEF translate
  <2>2. PICK d \in Deliveries : call' = [delivery |-> d, result |-> translated(d)]
    BY <1>3 DEF translate
  <2>3. call'.delivery = d /\ call'.result = translated(d)
    BY <2>2
  <2>4. Accepted' => Sound(call'.delivery, call'.result)
    BY <2>3, TranslatedSound DEF Accepted
  <2> QED
    BY <2>1, <2>4 DEF Registered, Complete, Sound
<1>4. CASE Done
  BY <1>4, NoCallRefused DEF Done, Accepted, Registered, Complete
<1>5. ASSUME NEW p \in Principals, authorize_operation(p)
      PROVE  BoundaryInv' /\ (sealed => sealed' /\ registry' = registry)
  <2> DEFINE capability == OPERATION_CAPABILITY[call.result.payload.operation]
  <2>1. UNCHANGED <<draft, registry, sealed, imported, call>>
    BY <1>5 DEF authorize_operation
  <2>2. granted' = granted \cup {<<p, capability>>}
    BY <1>5 DEF authorize_operation
  <2>3. call.result.payload.operation \in DOMAIN OPERATION_CAPABILITY
    BY <1>5 DEF authorize_operation, Sound
  <2>4. capability \in buyer_agent_capabilities.allow \ PRIVILEGED_CAPABILITIES
    BY <2>3, OperationsAreBuyers
  <2> HIDE DEF capability
  <2> QED
    BY <2>1, <2>2, <2>4, SMTT(30) DEF Registered, Complete, Accepted
<1>6. CASE UNCHANGED avars
  BY <1>6 DEF avars, Registered, Complete, Accepted
<1> QED
  BY <1>1, <1>2, <1>3, <1>4, <1>5, <1>6 DEF BoundaryNext

(* The invariant holds throughout, whatever imports, late registrations,   *)
(* deliveries and authorizations come in whatever order.                   *)
THEOREM BoundaryInvariant == BoundarySpec => []BoundaryInv
<1>1. BoundaryInv /\ [BoundaryNext]_avars => BoundaryInv'
  BY BoundaryStep
<1> QED
  BY <1>1, BoundaryInitInv, PTL DEF BoundarySpec

(* An adapter cannot exempt itself from the dispatcher's limits, and an    *)
(* operation it returns opens nothing but the buyer agent's capabilities   *)
(* (_check_result, authorize_operation).                                   *)
THEOREM EnvelopesAreSound == BoundarySpec => []EnvelopeSound
<1>1. BoundaryInv => EnvelopeSound
  BY DEF BoundaryInv, EnvelopeSound, Sound
<1> QED
  BY <1>1, BoundaryInvariant, PTL

(* The rows of the support matrix that name an adapter name ours.          *)
LEMMA MatrixHolds == BoundaryInv => MatrixTrue
<1> SUFFICES ASSUME BoundaryInv, imported, NEW row \in PROTOCOL_SUPPORT
             PROVE  IF row.adapter_id = "none" THEN row.status # "IMPLEMENTED"
                    ELSE /\ row.status \in {"IMPLEMENTED", "PARTIAL"}
                         /\ row.adapter_id \in DOMAIN registry
                         /\ registry[row.adapter_id].descriptor.family = row.family
  BY DEF MatrixTrue
<1>1. \A o \in Ours : IdOf(o) \in DOMAIN registry /\ registry[IdOf(o)] = o
  BY DEF BoundaryInv, Complete, Registered
<1>2. /\ "pactra.commerce.v1" \in DOMAIN registry
      /\ registry["pactra.commerce.v1"].descriptor.family = "COMMERCE"
  BY <1>1, SMTT(30) DEF Ours, Commerce, IdOf, Entry, Descriptor
<1>3. /\ "pactra.authorization-intent.v1" \in DOMAIN registry
      /\ registry["pactra.authorization-intent.v1"].descriptor.family = "PAYMENT_AUTHORIZATION"
  BY <1>1, SMTT(30) DEF Ours, Intent, IdOf, Entry, Descriptor
<1>4. /\ "mcp.tools-call.v1" \in DOMAIN registry
      /\ registry["mcp.tools-call.v1"].descriptor.family = "TOOL"
  BY <1>1, SMTT(30) DEF Ours, Mcp, IdOf, Entry, Descriptor
<1> QED
  BY <1>2, <1>3, <1>4, SMTT(30) DEF PROTOCOL_SUPPORT, Support

(* Once imported the support matrix is true of the registry, and what an   *)
(* id resolves to never changes again (_register_all, register, seal).     *)
THEOREM RegistryIsStable == BoundarySpec => RegistryStands
<1>1. BoundaryInv /\ [BoundaryNext]_avars => [sealed => sealed' /\ registry' = registry]_avars
  BY BoundaryStep
<1> QED
  BY <1>1, MatrixHolds, BoundaryInvariant, PTL DEF BoundarySpec, RegistryStands
=============================================================================
