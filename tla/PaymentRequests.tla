--------------------------- MODULE PaymentRequests ---------------------------
(***************************************************************************)
(* BIND to EXECUTE: an approved mission becomes one durable payment.       *)
(* HTTP requests ask for a payment (create_payment_intent) or approve an   *)
(* authorization (approve_authorization_with_signature) concurrently, each *)
(* in one READ COMMITTED transaction; authorizations also expire and are   *)
(* revoked. A step of a request is one statement whose result later steps  *)
(* rely on; an uncommitted insert or update makes a conflicting statement  *)
(* of another transaction wait.                                            *)
(*                                                                         *)
(* A mission has at most one authorization, so it is named by its mission. *)
(* Amount, currency, merchant and digest come from the authorization row,  *)
(* so a request's fingerprint is its mission and its provider.             *)
(***************************************************************************)
EXTENDS MissionStates

CONSTANTS
    Missions, Keys, Providers,
    Requests,   \* bound: HTTP requests served, each by its own transaction
    None

ASSUME NoneAssumption == None \notin Missions \cup Keys \cup Providers

VARIABLES
    mission,  \* missions.state, "absent" before the mission is created
    auth,     \* the mission's authorizations row
    expired,  \* missions whose authorization's expires_at has passed
    intents,  \* payment_intents: committed rows
    outbox,   \* payments with a durable PAYMENT_CREATE_REQUESTED event
    req       \* each request's transaction

vars == <<mission, auth, expired, intents, outbox, req>>
durable == <<mission, auth, expired, intents, outbox>>

(* The stages with an uncommitted row, "consumed" also with an uncommitted *)
(* CONSUMED status of its authorization.                                   *)
InFlight == {"inserted", "consumed"}

(* "seen" is the mission state and "copy" the authorization status as this *)
(* transaction read them; "late" says its clock was past expires_at.       *)
Unread == [pc |-> "idle", key |-> None, mission |-> None, provider |-> None,
           late |-> FALSE, seen |-> "absent", copy |-> "none", answer |-> ""]
NoAuthorization == [status |-> "none", scheme |-> "none", proof |-> FALSE]

Row(r) == [key |-> req[r].key, mission |-> req[r].mission, provider |-> req[r].provider]

(* The transaction ends, and with it what it had read; only an answer that *)
(* names a payment still speaks of the request.                            *)
Answer(r, a) ==
    LET named == IF a \in {"created", "reused"} THEN Row(r)
                 ELSE [key |-> None, mission |-> None, provider |-> None] IN
    req' = [req EXCEPT ![r] = [Unread EXCEPT !.pc = "done", !.answer = a, !.key = named.key,
                                   !.mission = named.mission, !.provider = named.provider]]
Refuse(r, a) == Answer(r, a) /\ UNCHANGED durable

(* An uncommitted UPDATE holds the authorization row.                      *)
Locked(m) == \E r \in Requests : req[r].pc = "consumed" /\ req[r].mission = m

-----------------------------------------------------------------------------
(* The mission and its authorization                                       *)

(* Orchestrator.run, one transaction: policy decides, and a decision other *)
(* than DENY mints an authorization, active at once under ALLOW. A bind    *)
(* that is refused leaves a checked mission without one.                   *)
create_mission(m, decision) ==
    /\ mission[m] = "absent"
    /\ mission' = [mission EXCEPT ![m] =
          CASE decision = "ALLOW"            -> "AUTHORIZED"
            [] decision = "REQUIRE_APPROVAL" -> "AWAITING_APPROVAL"
            [] decision = "DENY"             -> "CANCELLED"
            [] decision = "BIND_REFUSED"     -> "POLICY_CHECKED"]
    /\ auth' = [auth EXCEPT ![m] =
          CASE decision = "ALLOW" ->
                  [status |-> "ACTIVE", scheme |-> "POLICY_AUTO", proof |-> FALSE]
            [] decision = "REQUIRE_APPROVAL" ->
                  [status |-> "PENDING", scheme |-> "USER_ED25519", proof |-> FALSE]
            [] OTHER -> NoAuthorization]
    /\ UNCHANGED <<expired, intents, outbox, req>>

revoke_authorization(m) ==
    /\ auth[m].status \in {"PENDING", "ACTIVE"} /\ ~Locked(m)
    /\ auth' = [auth EXCEPT ![m].status = "REVOKED"]
    /\ UNCHANGED <<mission, expired, intents, outbox, req>>

(* The clock passes expires_at; the row keeps its status. Once that is     *)
(* final nothing reads the clock against it.                               *)
Expires(m) ==
    /\ auth[m].status \in {"PENDING", "ACTIVE"} /\ m \notin expired
    /\ expired' = expired \cup {m}
    /\ UNCHANGED <<mission, auth, intents, outbox, req>>

(* The approve route reads the mission, and goes on if it awaits approval. *)
ReceiveApproval(r, m) ==
    /\ req[r].pc = "idle" /\ mission[m] = "AWAITING_APPROVAL"
    /\ req' = [req EXCEPT ![r] =
                 [Unread EXCEPT !.pc = "approving", !.mission = m, !.late = m \in expired,
                                !.seen = mission[m]]]
    /\ UNCHANGED durable

(* A stale authorization is demoted.                                       *)
expire_if_stale(row, late) ==
    IF late /\ row.status \in {"PENDING", "ACTIVE"} THEN [row EXCEPT !.status = "EXPIRED"]
    ELSE row

(* Mutation: the approval trusts the mission state it read at the start.   *)
Bug_StaleApproval(r, valid) ==
    LET m == req[r].mission IN
    /\ req[r].pc = "approving" /\ ~Locked(m) /\ valid
    /\ auth' = [auth EXCEPT ![m] = [@ EXCEPT !.status = "ACTIVE", !.proof = TRUE]]
    /\ mission' = [mission EXCEPT ![m] = "AUTHORIZED"]
    /\ Answer(r, "approved")
    /\ UNCHANGED <<expired, intents, outbox>>

(* The row is locked, judged and activated in one transaction. A refusal   *)
(* is committed with its demotion; the mission is written from "seen".     *)
approve_authorization_with_signature(r, valid) ==
    LET m == req[r].mission
        row == auth[m]
        pending == row.status = "PENDING" /\ ~req[r].late
        proved == row.scheme = "USER_ED25519" /\ valid IN
    /\ req[r].pc = "approving" /\ ~Locked(m)
    /\ \/ /\ pending /\ proved
          /\ auth' = [auth EXCEPT ![m] = [row EXCEPT !.status = "ACTIVE", !.proof = TRUE]]
          /\ can_transition(req[r].seen, "AUTHORIZED")
          /\ mission' = [mission EXCEPT ![m] = "AUTHORIZED"]
          /\ Answer(r, "approved")
       \/ /\ ~pending \/ ~proved
          /\ auth' = [auth EXCEPT ![m] = IF pending THEN row
                                         ELSE expire_if_stale(row, req[r].late)]
          /\ Answer(r, "refused")
          /\ UNCHANGED mission
    /\ UNCHANGED <<expired, intents, outbox>>

-----------------------------------------------------------------------------
(* create_payment_intent                                                   *)

(* request_payment reads the mission first; the session keeps that copy.   *)
(* Without an authorization there is nothing to ask for.                   *)
request_payment(r, m, k, p) ==
    /\ req[r].pc = "idle"
    /\ \/ auth[m].status = "none" /\ Refuse(r, "refused")
       \/ /\ auth[m].status # "none"
          /\ req' = [req EXCEPT ![r] =
                       [Unread EXCEPT !.pc = "received", !.mission = m, !.key = k,
                                      !.provider = p, !.late = m \in expired,
                                      !.seen = mission[m]]]
          /\ UNCHANGED durable

LoadAuthorization(r) ==
    /\ req[r].pc = "received"
    /\ req' = [req EXCEPT ![r].pc = "loaded", ![r].copy = auth[req[r].mission].status]
    /\ UNCHANGED durable

find_by_idempotency_key(k) == {i \in intents : i.key = k}

(* The status the authorization must have: a retry's own is already spent. *)
ExpectedStatus(r) ==
    IF \E i \in find_by_idempotency_key(req[r].key) : i.mission = req[r].mission
    THEN "CONSUMED" ELSE "ACTIVE"

(* Mutation: any active authorization pays, whoever activated it.          *)
Bug_OriginUnchecked(r) ==
    req[r].copy = ExpectedStatus(r) /\ (ExpectedStatus(r) = "ACTIVE" => ~req[r].late)

(* verify_authorization_for_payment, on the copy this transaction read.    *)
Verified(r) ==
    LET row == auth[req[r].mission] IN
    /\ req[r].copy = ExpectedStatus(r)
    /\ ExpectedStatus(r) = "ACTIVE" => ~req[r].late
    /\ row.scheme = "POLICY_AUTO" \/ (row.scheme = "USER_ED25519" /\ row.proof)

(* Mutation: the key alone identifies a request.                           *)
Bug_ReuseByKey(r) == Refuse(r, "reused")

(* A held key answers an equal request and refuses any other.              *)
resolve_existing(r) ==
    IF Row(r) \in intents THEN Refuse(r, "reused") ELSE Refuse(r, "conflict")

FindExisting(r) ==
    LET existing == find_by_idempotency_key(req[r].key)
        open == existing # {} \/ req[r].seen = "AUTHORIZED" IN
    /\ req[r].pc = "loaded"
    /\ \/ ~(open /\ Verified(r)) /\ Refuse(r, "refused")
       \/ open /\ Verified(r) /\ existing # {} /\ resolve_existing(r)
       \/ /\ open /\ Verified(r) /\ existing = {}
          /\ req' = [req EXCEPT ![r].pc = "verified"]
          /\ UNCHANGED durable

(* Mutation: the idempotency key has no unique index.                      *)
Bug_KeyNotUnique(i, j) == i.mission = j.mission

(* The UNIQUE keys of payment_intents.                                     *)
Clash(i, j) == i.key = j.key \/ i.mission = j.mission

(* The insert waits for an uncommitted row with one of its unique keys. A  *)
(* committed one makes it fail: the key's winner answers, if it was that.  *)
Insert(r) ==
    /\ req[r].pc = "verified"
    /\ \A q \in Requests : req[q].pc \in InFlight => ~Clash(Row(q), Row(r))
    /\ \/ /\ \A i \in intents : ~Clash(i, Row(r))
          /\ req' = [req EXCEPT ![r].pc = "inserted"]
          /\ UNCHANGED durable
       \/ /\ find_by_idempotency_key(req[r].key) # {}
          /\ resolve_existing(r)
       \/ /\ find_by_idempotency_key(req[r].key) = {}
          /\ \E i \in intents : Clash(i, Row(r))
          /\ Refuse(r, "error")

(* Mutation: the consume commits on its own, ahead of the payment.         *)
Bug_ConsumeCommits(r) ==
    /\ req[r].pc = "inserted" /\ ~Locked(req[r].mission)
    /\ auth[req[r].mission].status = "ACTIVE" /\ ~req[r].late
    /\ req' = [req EXCEPT ![r].pc = "consumed"]
    /\ auth' = [auth EXCEPT ![req[r].mission].status = "CONSUMED"]
    /\ UNCHANGED <<mission, expired, intents, outbox>>

(* Mutation: a consume that matches nothing does not end the transaction.  *)
Bug_LoserHangs(r) ==
    /\ req[r].pc = "inserted" /\ ~Locked(req[r].mission)
    /\ auth[req[r].mission].status = "ACTIVE" /\ ~req[r].late
    /\ req' = [req EXCEPT ![r].pc = "consumed"]
    /\ UNCHANGED durable

(* The conditional UPDATE; when it matches nothing the savepoint and then  *)
(* the transaction roll back.                                              *)
consume_authorization(r) ==
    LET matches == auth[req[r].mission].status = "ACTIVE" /\ ~req[r].late IN
    /\ req[r].pc = "inserted" /\ ~Locked(req[r].mission)
    /\ \/ /\ matches
          /\ req' = [req EXCEPT ![r].pc = "consumed"]
          /\ UNCHANGED durable
       \/ ~matches /\ Refuse(r, "refused")

(* Everything the savepoint wrote becomes durable, and only then does the  *)
(* caller hear of it, if the connection still stands.                      *)
Commit(r) ==
    LET m == req[r].mission IN
    /\ req[r].pc = "consumed"
    /\ auth' = [auth EXCEPT ![m].status = "CONSUMED"]
    /\ intents' = intents \cup {Row(r)}
    /\ outbox' = outbox \cup {Row(r)}
    /\ mission' = IF can_transition(req[r].seen, "PAYMENT_PENDING")
                  THEN [mission EXCEPT ![m] = "PAYMENT_PENDING"] ELSE mission
    /\ Answer(r, "created") \/ Answer(r, "lost")
    /\ UNCHANGED expired

(* The process or its connection dies: the transaction rolls back.         *)
Abort(r) ==
    /\ req[r].pc \notin {"idle", "done"}
    /\ Refuse(r, "lost")

(* The executor settles the payment and moves the mission with it.         *)
SettlePayment(m, s) ==
    /\ can_transition(mission[m], s)
    /\ \E i \in outbox : i.mission = m
    /\ mission' = [mission EXCEPT ![m] = s]
    /\ UNCHANGED <<auth, expired, intents, outbox, req>>

-----------------------------------------------------------------------------
(* Migration 0006 leaves authorizations of an older release, approved by   *)
(* the server or still waiting, under LEGACY_SERVER.                       *)
Legacy(s) == [status |-> s, scheme |-> "LEGACY_SERVER", proof |-> FALSE]

Init ==
    /\ auth \in [Missions -> {NoAuthorization, Legacy("ACTIVE"), Legacy("PENDING")}]
    /\ mission = [m \in Missions |-> CASE auth[m].status = "ACTIVE"  -> "AUTHORIZED"
                                        [] auth[m].status = "PENDING" -> "AWAITING_APPROVAL"
                                        [] OTHER -> "absent"]
    /\ expired = {} /\ intents = {} /\ outbox = {}
    /\ req = [r \in Requests |-> Unread]

Decision == {"ALLOW", "REQUIRE_APPROVAL", "DENY", "BIND_REFUSED"}

Serve(r) ==
    \/ LoadAuthorization(r) \/ FindExisting(r) \/ Insert(r) \/ consume_authorization(r)
    \/ Commit(r)
    \/ \E valid \in BOOLEAN : approve_authorization_with_signature(r, valid)

Environment ==
    \/ \E m \in Missions, d \in Decision : create_mission(m, d)
    \/ \E m \in Missions : revoke_authorization(m) \/ Expires(m)
    \/ \E m \in Missions, s \in {"PAYMENT_SUCCEEDED", "PAYMENT_FAILED"} : SettlePayment(m, s)
    \/ \E r \in Requests, m \in Missions : ReceiveApproval(r, m)
    \/ \E r \in Requests, m \in Missions, k \in Keys, p \in Providers : request_payment(r, m, k, p)
    \/ \E r \in Requests : Abort(r)

(* The server may rest while it has no request to serve.                   *)
Quiet == (\A r \in Requests : req[r].pc \in {"idle", "done"}) /\ UNCHANGED vars

Next == Environment \/ Quiet \/ \E r \in Requests : Serve(r)

Spec == Init /\ [][Next]_vars

(* The server runs every handler it has started.                           *)
LiveSpec == Spec /\ \A r \in Requests : WF_vars(Serve(r))

-----------------------------------------------------------------------------
(* Properties                                                              *)

(* However requests interleave, one idempotency key names at most one      *)
(* payment and one authorization backs at most one.                        *)
OnePayment == \A i, j \in intents : i.key = j.key \/ i.mission = j.mission => i = j

(* create_payment_intent is all or nothing: an authorization is CONSUMED   *)
(* exactly when a payment holds it, when that payment's CREATE event is    *)
(* durable, and when its mission has left AUTHORIZED for payment.          *)
IntentAtomic ==
    /\ outbox = intents
    /\ \A m \in Missions :
          LET paid == \E i \in intents : i.mission = m IN
          /\ paid <=> auth[m].status = "CONSUMED"
          /\ paid <=> mission[m] \in {"PAYMENT_PENDING", "PAYMENT_SUCCEEDED", "PAYMENT_FAILED"}

(* Every payment rests on a policy that allowed it outright or on a user's *)
(* verified signature, never on a migrated server approval.                *)
PaymentApproved ==
    \A i \in intents :
        LET row == auth[i.mission] IN
        row.scheme = "POLICY_AUTO" \/ (row.scheme = "USER_ED25519" /\ row.proof)

(* What a caller is told is true: a created or reused answer names the     *)
(* durable payment of exactly that request, and one payment is announced   *)
(* as created at most once.                                                *)
AnswerBacked ==
    /\ \A r \in Requests : req[r].answer \in {"created", "reused"} => Row(r) \in intents
    /\ \A r, q \in Requests :
          req[r].answer = "created" /\ req[q].answer = "created" /\ Row(r) = Row(q) => r = q

(* No step takes back what a request committed: an authorization that was  *)
(* consumed, expired or revoked stays so, whatever approval or payment     *)
(* began earlier; and a mission only moves along its state machine,        *)
(* although requests write it from a copy they read at their start.        *)
NothingTakenBack ==
    [][\A m \in Missions :
          /\ auth[m].status \in {"CONSUMED", "EXPIRED", "REVOKED"} =>
                auth'[m].status = auth[m].status
          /\ mission[m] \notin {mission'[m], "absent"} =>
                can_transition(mission[m], mission'[m])]_vars

(* "duplicate requests failed": a request whose payment already exists     *)
(* under the same key, mission and provider is answered with it.           *)
DuplicateReturnsPayment ==
    [][\A r \in Requests :
          /\ req[r].pc # "done" /\ req'[r].pc = "done" /\ req'[r].answer # "lost"
          /\ Row(r) \in intents
          => req'[r].answer = "reused"]_vars
=============================================================================
