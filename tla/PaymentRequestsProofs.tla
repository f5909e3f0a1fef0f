----------------------- MODULE PaymentRequestsProofs -----------------------
(***************************************************************************)
(* Proofs about PaymentRequests for any number of missions, keys,          *)
(* providers and concurrent requests.                                      *)
(***************************************************************************)
EXTENDS PaymentRequests, TLAPS

(* A step is left to Zenon, then to SMT, for at most 30 seconds each; one  *)
(* that needs arithmetic, sequences or records names SMT.                  *)
USE ZenonT(30), SMTT(30)

-----------------------------------------------------------------------------
(* Types                                                                   *)

AuthorizationRow ==
    [status : {"none", "PENDING", "ACTIVE", "CONSUMED", "EXPIRED", "REVOKED"},
     scheme : {"none", "POLICY_AUTO", "USER_ED25519", "LEGACY_SERVER"},
     proof : BOOLEAN]

PaymentRow == [key : Keys, mission : Missions, provider : Providers]

Stage == {"idle", "approving", "received", "loaded", "verified", "inserted", "consumed",
          "done"}

Outcome == {"", "approved", "refused", "reused", "conflict", "error", "created", "lost"}

Transaction ==
    [pc : Stage, key : Keys \cup {None}, mission : Missions \cup {None},
     provider : Providers \cup {None}, late : BOOLEAN, seen : MissionState \cup {"absent"},
     copy : {"none", "PENDING", "ACTIVE", "CONSUMED", "EXPIRED", "REVOKED"},
     answer : Outcome]

Typed ==
    /\ mission \in [Missions -> MissionState \cup {"absent"}]
    /\ auth \in [Missions -> AuthorizationRow]
    /\ intents \subseteq PaymentRow
    /\ req \in [Requests -> Transaction]

-----------------------------------------------------------------------------
(* The inductive invariant                                                 *)

Paid(m) == \E i \in intents : i.mission = m
PaidStates == {"PAYMENT_PENDING", "PAYMENT_SUCCEEDED", "PAYMENT_FAILED"}

(* What a payment needs of its authorization, apart from its status.       *)
Approved(row) == row.scheme = "POLICY_AUTO" \/ (row.scheme = "USER_ED25519" /\ row.proof)

(* The rows of one mission agree: they are written together, although the  *)
(* mission is written from a state that was read earlier.                  *)
Agrees(m) ==
    /\ mission[m] = "absent" => auth[m].status = "none"
    /\ auth[m].status = "ACTIVE" => mission[m] = "AUTHORIZED"
    /\ auth[m].status = "PENDING" => mission[m] = "AWAITING_APPROVAL"
    /\ Paid(m) <=> auth[m].status = "CONSUMED"
    /\ Paid(m) <=> mission[m] \in PaidStates
    /\ Paid(m) => Approved(auth[m])

Asking == {"received", "loaded", "verified", "inserted", "consumed"}
Checked == {"verified", "inserted", "consumed"}

(* What a request under way relies on in each of its stages. That nobody   *)
(* else holds its unique keys starts with its insert; that the             *)
(* authorization is still active starts with its UPDATE.                   *)
Relies(r) ==
    /\ req[r].pc = "approving" => req[r].mission \in Missions
    /\ req[r].pc \in Asking => Row(r) \in PaymentRow /\ auth[req[r].mission].status # "none"
    /\ req[r].pc \in Checked => req[r].seen = "AUTHORIZED" /\ Approved(auth[req[r].mission])
    /\ req[r].pc \in InFlight => \A i \in intents : ~Clash(i, Row(r))
    /\ req[r].pc = "consumed" => auth[req[r].mission].status = "ACTIVE"
    /\ req[r].pc # "done" => req[r].answer = ""
    /\ req[r].answer \in {"created", "reused"} => Row(r) \in intents

(* Uncommitted rows keep out of each other's way.                          *)
Apart ==
    \A q, r \in Requests :
        q # r /\ req[q].pc \in InFlight /\ req[r].pc \in InFlight => ~Clash(Row(q), Row(r))

CreatedOnce ==
    \A r, q \in Requests :
        req[r].answer = "created" /\ req[q].answer = "created" /\ Row(r) = Row(q) => r = q

Inv ==
    /\ Typed
    /\ \A m \in Missions : Agrees(m)
    /\ \A r \in Requests : Relies(r)
    /\ Apart /\ CreatedOnce
    /\ OnePayment
    /\ outbox = intents

-----------------------------------------------------------------------------
(* Lemmas                                                                  *)

(* Only the clock may move without touching what the invariant is about.   *)
LEMMA SameKeeps ==
    ASSUME Inv, UNCHANGED <<mission, auth, intents, outbox, req>>
    PROVE  Inv'
<1>1. Typed' /\ OnePayment' /\ (outbox = intents)'
    BY DEF Inv, Typed, OnePayment
<1>2. \A n \in Missions : Agrees(n)'
    BY DEF Inv, Agrees, Paid
<1>3. \A q \in Requests : Relies(q)'
    BY DEF Inv, Relies, Row
<1>4. Apart' /\ CreatedOnce'
    BY DEF Inv, Apart, CreatedOnce, Row
<1> QED BY <1>1, <1>2, <1>3, <1>4 DEF Inv

(* A request that a step leaves alone still has what it relies on, when    *)
(* the rows it uses only change in the ways other transactions may change  *)
(* them.                                                                   *)
LEMMA OthersRely ==
    ASSUME Inv, NEW q \in Requests, req'[q] = req[q], intents \subseteq intents',
           req[q].pc \in Asking =>
               /\ auth'[req[q].mission].status # "none"
               /\ Approved(auth[req[q].mission]) => Approved(auth'[req[q].mission]),
           req[q].pc \in InFlight => \A i \in intents' : ~Clash(i, Row(q)),
           req[q].pc = "consumed" => auth'[req[q].mission].status = "ACTIVE"
    PROVE  Relies(q)'
<1>1. Relies(q) /\ Row(q)' = Row(q)
    BY DEF Inv, Row
<1> QED BY <1>1 DEF Relies, Asking, Checked, InFlight

(* A step that keeps the payments, and the requests or answers one without *)
(* naming a payment, keeps the invariant if the mission's rows agree       *)
(* afterwards and it respects the row lock.                                *)
LEMMA RowStep ==
    ASSUME Inv, UNCHANGED <<intents, outbox>>, Typed',
           \A q \in Requests :
               \/ req'[q] = req[q]
               \/ req'[q].pc = "done" /\ req'[q].answer \notin {"created", "reused"},
           NEW m \in Missions, Agrees(m)',
           auth[m].status # "none" => auth'[m].status # "none",
           Approved(auth[m]) => Approved(auth'[m]),
           Locked(m) => auth'[m].status = auth[m].status,
           \A n \in Missions \ {m} : auth'[n] = auth[n] /\ mission'[n] = mission[n]
    PROVE  Inv'
<1>1. \A n \in Missions : Agrees(n)'
    BY SMTT(30) DEF Inv, Agrees, Paid
<1>2. ASSUME NEW q \in Requests PROVE Relies(q)'
    <2>0. Relies(q)
        BY DEF Inv
    <2>1. CASE req'[q].pc = "done" /\ req'[q].answer \notin {"created", "reused"}
        BY <2>1 DEF Relies, Asking, Checked, InFlight
    <2>2. CASE req'[q] = req[q]
        <3>1. req[q].pc \in Asking => req[q].mission \in Missions
            BY <2>0 DEF Relies, Row, PaymentRow
        <3>2. req[q].pc \in Asking =>
                   /\ auth'[req[q].mission].status # "none"
                   /\ Approved(auth[req[q].mission]) => Approved(auth'[req[q].mission])
            BY <2>0, <3>1 DEF Relies
        <3>3. req[q].pc \in InFlight => \A i \in intents' : ~Clash(i, Row(q))
            BY <2>0 DEF Relies
        <3>4. req[q].pc = "consumed" => auth'[req[q].mission].status = "ACTIVE"
            BY <2>0, <3>1 DEF Relies, Locked, Asking
        <3> QED BY <2>2, <3>2, <3>3, <3>4, OthersRely
    <2> QED BY <2>1, <2>2
<1>3. Apart'
    <2> SUFFICES ASSUME NEW p \in Requests, NEW q \in Requests, p # q,
                        req'[p].pc \in InFlight, req'[q].pc \in InFlight
                 PROVE  ~Clash(Row(p)', Row(q)')
        BY DEF Apart, Clash
    <2>1. req'[p] = req[p] /\ req'[q] = req[q]
        BY DEF InFlight
    <2> QED BY <2>1 DEF Inv, Apart, Row
<1>4. CreatedOnce'
    BY SMTT(30) DEF Inv, CreatedOnce, Row
<1> QED BY <1>1, <1>2, <1>3, <1>4 DEF Inv, OnePayment

(* A step of one request that writes nothing durable keeps the invariant   *)
(* if the request has what it relies on afterwards, keeps its row out of   *)
(* the others' way and announces no payment as created.                    *)
LEMMA RequestStep ==
    ASSUME Inv, NEW r \in Requests, NEW t \in Transaction,
           req' = [req EXCEPT ![r] = t], UNCHANGED durable, Relies(r)',
           t.answer # "created",
           t.pc \in InFlight =>
               \A q \in Requests \ {r} : req[q].pc \in InFlight => ~Clash(Row(q), Row(r)')
    PROVE  Inv'
<1>0. /\ req'[r] = t /\ DOMAIN req = Requests
      /\ \A q \in Requests \ {r} : req'[q] = req[q] /\ Row(q)' = Row(q)
    BY DEF Inv, Typed, Row
<1>1. Typed'
    BY DEF Inv, Typed, durable
<1>2. \A m \in Missions : Agrees(m)'
    BY DEF Inv, Agrees, Paid, durable
<1>3. ASSUME NEW q \in Requests PROVE Relies(q)'
    <2>1. CASE q = r
        BY <2>1
    <2>2. CASE q # r
        BY <2>2, <1>0, OthersRely DEF Inv, Relies, durable
    <2> QED BY <2>1, <2>2
<1>4. Apart'
    <2> SUFFICES ASSUME NEW p \in Requests, NEW q \in Requests, p # q,
                        req'[p].pc \in InFlight, req'[q].pc \in InFlight
                 PROVE  ~Clash(Row(p)', Row(q)')
        BY DEF Apart, Clash
    <2>1. CASE p # r /\ q # r
        BY <2>1, <1>0 DEF Inv, Apart
    <2>2. CASE p = r \/ q = r
        BY <2>2, <1>0 DEF Clash
    <2> QED BY <2>1, <2>2
<1>5. CreatedOnce'
    BY <1>0, SMTT(30) DEF Inv, CreatedOnce
<1> QED BY <1>1, <1>2, <1>3, <1>4, <1>5 DEF Inv, OnePayment, durable

(* What a request is left with when it is answered.                        *)
LEMMA AnswerLeaves ==
    ASSUME Inv, NEW r \in Requests, NEW a \in Outcome, Answer(r, a),
           a \in {"created", "reused"} => Row(r) \in PaymentRow
    PROVE  \E t \in Transaction :
              /\ req' = [req EXCEPT ![r] = t]
              /\ t.pc = "done" /\ t.answer = a
              /\ a \in {"created", "reused"} => Row(r)' = Row(r)
<1> DEFINE named == IF a \in {"created", "reused"} THEN Row(r)
                    ELSE [key |-> None, mission |-> None, provider |-> None]
           t == [Unread EXCEPT !.pc = "done", !.answer = a, !.key = named.key,
                               !.mission = named.mission, !.provider = named.provider]
<1>1. req' = [req EXCEPT ![r] = t]
    BY DEF Answer
<1>2. /\ named.key \in Keys \cup {None} /\ named.mission \in Missions \cup {None}
      /\ named.provider \in Providers \cup {None}
    BY DEF PaymentRow
<1> HIDE DEF named
<1>3. /\ t.pc = "done" /\ t.answer = a /\ t.key = named.key
      /\ t.mission = named.mission /\ t.provider = named.provider
    BY DEF Unread
<1>4. t \in Transaction
    BY <1>2 DEF Unread, Transaction, Stage
<1>5. a \in {"created", "reused"} => Row(r)' = Row(r)
    <2>1. req'[r] = t
        BY <1>1 DEF Inv, Typed
    <2> QED BY <2>1, <1>3 DEF Row, named
<1> QED BY <1>1, <1>3, <1>4, <1>5

(* A transaction that rolls back, or that only read, leaves the invariant. *)
LEMMA RefuseStep ==
    ASSUME Inv, NEW r \in Requests, NEW a \in Outcome \ {"created"}, Refuse(r, a),
           a = "reused" => Row(r) \in intents
    PROVE  Inv'
<1>1. intents \subseteq PaymentRow
    BY DEF Inv, Typed
<1>2. PICK t \in Transaction :
          /\ req' = [req EXCEPT ![r] = t]
          /\ t.pc = "done" /\ t.answer = a
          /\ a \in {"created", "reused"} => Row(r)' = Row(r)
    BY <1>1, AnswerLeaves DEF Refuse
<1>3. req'[r] = t
    BY <1>2 DEF Inv, Typed
<1>4. Relies(r)'
    BY <1>2, <1>3 DEF Relies, Refuse, durable, Asking, Checked, InFlight
<1> QED BY <1>2, <1>4, RequestStep DEF Refuse, InFlight

-----------------------------------------------------------------------------
(* The mission and its authorization                                       *)

(* A mission is created once, so nothing refers to it yet.                 *)
LEMMA CreateMissionKeeps ==
    ASSUME Inv, NEW m \in Missions, NEW d \in Decision, create_mission(m, d)
    PROVE  Inv'
<1>1. Typed /\ Agrees(m) /\ mission[m] = "absent" /\ auth[m].status = "none" /\ ~Paid(m)
    BY DEF Inv, create_mission, Agrees
<1>2. /\ mission' \in [Missions -> MissionState \cup {"absent"}]
      /\ auth' \in [Missions -> AuthorizationRow]
      /\ mission'[m] \in MissionState \ PaidStates
      /\ auth'[m].status \in {"none", "ACTIVE", "PENDING"}
      /\ auth'[m].status = "ACTIVE" => mission'[m] = "AUTHORIZED"
      /\ auth'[m].status = "PENDING" => mission'[m] = "AWAITING_APPROVAL"
      /\ \A n \in Missions \ {m} : auth'[n] = auth[n] /\ mission'[n] = mission[n]
    <2>1. CASE d = "ALLOW"
        <3>1. /\ mission' = [mission EXCEPT ![m] = "AUTHORIZED"]
              /\ auth' = [auth EXCEPT ![m] = [status |-> "ACTIVE", scheme |-> "POLICY_AUTO", proof |-> FALSE]]
            BY <2>1 DEF create_mission
        <3> QED BY <1>1, <3>1 DEF Typed, MissionState, AuthorizationRow, PaidStates
    <2>2. CASE d = "REQUIRE_APPROVAL"
        <3>1. /\ mission' = [mission EXCEPT ![m] = "AWAITING_APPROVAL"]
              /\ auth' = [auth EXCEPT ![m] = [status |-> "PENDING", scheme |-> "USER_ED25519", proof |-> FALSE]]
            BY <2>2 DEF create_mission
        <3> QED BY <1>1, <3>1 DEF Typed, MissionState, AuthorizationRow, PaidStates
    <2>3. CASE d = "DENY"
        <3>1. /\ mission' = [mission EXCEPT ![m] = "CANCELLED"]
              /\ auth' = [auth EXCEPT ![m] = [status |-> "none", scheme |-> "none", proof |-> FALSE]]
            BY <2>3 DEF create_mission, NoAuthorization
        <3> QED BY <1>1, <3>1 DEF Typed, MissionState, AuthorizationRow, PaidStates
    <2>4. CASE d = "BIND_REFUSED"
        <3>1. /\ mission' = [mission EXCEPT ![m] = "POLICY_CHECKED"]
              /\ auth' = [auth EXCEPT ![m] = [status |-> "none", scheme |-> "none", proof |-> FALSE]]
            BY <2>4 DEF create_mission, NoAuthorization
        <3> QED BY <1>1, <3>1 DEF Typed, MissionState, AuthorizationRow, PaidStates
    <2> QED BY <2>1, <2>2, <2>3, <2>4 DEF Decision
<1>3. UNCHANGED <<intents, outbox, req>>
    BY DEF create_mission
<1>4. Typed'
    BY <1>1, <1>2, <1>3 DEF Typed
<1>5. ASSUME NEW n \in Missions PROVE Agrees(n)'
    <2>1. CASE n = m
        BY <1>1, <1>2, <1>3, <2>1 DEF Agrees, Paid, Typed, MissionState
    <2>2. CASE n # m
        BY <1>1, <1>2, <1>3, <2>2, SMTT(30) DEF Inv, Agrees, Paid, Typed
    <2> QED BY <2>1, <2>2
<1>6. ASSUME NEW q \in Requests PROVE Relies(q)'
    <2>1. Relies(q)
        BY DEF Inv
    <2>2. req[q].pc \in Asking => req[q].mission \in Missions \ {m}
        BY <1>1, <2>1 DEF Relies, Row, PaymentRow
    <2>3. req[q].pc \in Asking => auth'[req[q].mission] = auth[req[q].mission]
        BY <1>1, <1>2, <2>2 DEF Typed
    <2> QED BY <1>3, <2>1, <2>3, OthersRely DEF Relies, Asking
<1> QED BY <1>3, <1>4, <1>5, <1>6 DEF Inv, Apart, CreatedOnce, OnePayment, Row

(* Only an authorization that was not used is revoked, and not while a     *)
(* payment holds it.                                                       *)
LEMMA RevokeKeeps ==
    ASSUME Inv, NEW m \in Missions, revoke_authorization(m)
    PROVE  Inv'
<1>1. Typed /\ Agrees(m) /\ auth[m].status \in {"PENDING", "ACTIVE"} /\ ~Locked(m)
    BY DEF Inv, revoke_authorization
<1>2. /\ UNCHANGED <<mission, intents, outbox, req>>
      /\ auth' = [auth EXCEPT ![m].status = "REVOKED"]
    BY DEF revoke_authorization
<1>3. /\ auth'[m].status = "REVOKED" /\ auth'[m].scheme = auth[m].scheme
      /\ auth'[m].proof = auth[m].proof /\ auth'[m] \in AuthorizationRow
      /\ \A n \in Missions \ {m} : auth'[n] = auth[n]
    BY <1>1, <1>2 DEF Typed, AuthorizationRow
<1>4. Typed'
    BY <1>1, <1>2, <1>3 DEF Typed
<1>5. Agrees(m)'
    BY <1>1, <1>2, <1>3 DEF Agrees, Paid, MissionState
<1> QED BY <1>1, <1>2, <1>3, <1>4, <1>5, RowStep DEF Approved

(* Passing expires_at writes nothing.                                      *)
LEMMA ExpiresKeeps ==
    ASSUME Inv, NEW m \in Missions, Expires(m)
    PROVE  Inv'
BY SameKeeps DEF Expires

(* The executor moves the mission of a payment that exists, among the      *)
(* states a paid mission may have.                                         *)
LEMMA SettleKeeps ==
    ASSUME Inv, NEW m \in Missions, NEW s \in {"PAYMENT_SUCCEEDED", "PAYMENT_FAILED"},
           SettlePayment(m, s)
    PROVE  Inv'
<1>1. Typed /\ Agrees(m) /\ Paid(m)
    BY DEF Inv, SettlePayment, Paid
<1>2. /\ UNCHANGED <<auth, intents, outbox, req>>
      /\ mission' = [mission EXCEPT ![m] = s]
    BY DEF SettlePayment
<1>3. mission'[m] = s /\ \A n \in Missions \ {m} : mission'[n] = mission[n]
    BY <1>1, <1>2 DEF Typed
<1>4. Typed'
    BY <1>1, <1>2 DEF Typed, MissionState
<1>5. Agrees(m)' /\ auth[m].status # "none"
    BY <1>1, <1>2, <1>3 DEF Agrees, Paid, PaidStates
<1> QED BY <1>2, <1>3, <1>4, <1>5, RowStep

(* The approve route starts by reading.                                    *)
LEMMA ReceiveApprovalKeeps ==
    ASSUME Inv, NEW r \in Requests, NEW m \in Missions, ReceiveApproval(r, m)
    PROVE  Inv'
<1> DEFINE late == m \in expired
           t == [Unread EXCEPT !.pc = "approving", !.mission = m, !.late = late,
                               !.seen = mission[m]]
<1>1. req' = [req EXCEPT ![r] = t] /\ UNCHANGED durable
    BY DEF ReceiveApproval
<1>0. late \in BOOLEAN
    BY SMTT(30)
<1> HIDE DEF late
<1>2. t \in Transaction /\ t.pc = "approving" /\ t.mission = m /\ t.answer = ""
    BY <1>0 DEF Inv, Typed, Unread, Transaction, Stage, Outcome
<1> HIDE DEF t
<1>3. req'[r] = t
    BY <1>1 DEF Inv, Typed
<1>4. Relies(r)'
    BY <1>2, <1>3 DEF Relies, Asking, Checked, InFlight
<1> QED BY <1>1, <1>2, <1>4, RequestStep DEF InFlight

(* The approval judges the row itself, not what it read before: a pending  *)
(* one becomes active with its proof, any other at most expires.           *)
LEMMA ApproveKeeps ==
    ASSUME Inv, NEW r \in Requests, NEW valid \in BOOLEAN,
           approve_authorization_with_signature(r, valid)
    PROVE  Inv'
<1>0. PICK m \in Missions : m = req[r].mission
    BY DEF Inv, Relies, approve_authorization_with_signature
<1>1. /\ Typed /\ Agrees(m) /\ ~Locked(m)
      /\ UNCHANGED <<intents, outbox>> /\ auth[m] \in AuthorizationRow
    BY <1>0 DEF Inv, Typed, approve_authorization_with_signature
<1>2. /\ req' \in [Requests -> Transaction]
      /\ \A q \in Requests :
            \/ req'[q] = req[q]
            \/ req'[q].pc = "done" /\ req'[q].answer \notin {"created", "reused"}
    <2>1. PICK a \in {"approved", "refused"} : Answer(r, a)
        BY DEF approve_authorization_with_signature
    <2>2. PICK t \in Transaction :
              /\ req' = [req EXCEPT ![r] = t] /\ t.pc = "done" /\ t.answer = a
              /\ a \in {"created", "reused"} => Row(r)' = Row(r)
        <3>1. a \in Outcome /\ a \notin {"created", "reused"}
            BY <2>1 DEF Outcome
        <3> QED BY <2>1, <3>1, AnswerLeaves, SMTT(30)
    <2> QED BY <2>1, <2>2, <1>1 DEF Typed
<1>3. CASE /\ auth[m].status = "PENDING" /\ auth[m].scheme = "USER_ED25519"
           /\ auth' = [auth EXCEPT ![m] = [auth[m] EXCEPT !.status = "ACTIVE", !.proof = TRUE]]
           /\ mission' = [mission EXCEPT ![m] = "AUTHORIZED"]
    <2>1. /\ auth'[m] \in AuthorizationRow /\ auth'[m].status = "ACTIVE"
          /\ auth'[m].scheme = "USER_ED25519" /\ auth'[m].proof = TRUE
          /\ mission'[m] = "AUTHORIZED"
          /\ \A n \in Missions \ {m} : auth'[n] = auth[n] /\ mission'[n] = mission[n]
        BY <1>1, <1>3 DEF Typed, AuthorizationRow
    <2>2. Typed'
        BY <1>1, <1>2, <1>3, <2>1 DEF Typed, MissionState
    <2>3. Agrees(m)' /\ Approved(auth'[m])
        BY <1>1, <1>3, <2>1 DEF Agrees, Paid, PaidStates, Approved
    <2> QED BY <1>1, <1>2, <2>1, <2>2, <2>3, RowStep
<1>4. CASE /\ \/ auth' = [auth EXCEPT ![m] = auth[m]]
              \/ auth' = [auth EXCEPT ![m] = expire_if_stale(auth[m], req[r].late)]
           /\ mission' = mission
    <2>1. /\ auth'[m] \in AuthorizationRow
          /\ auth'[m].scheme = auth[m].scheme /\ auth'[m].proof = auth[m].proof
          /\ \/ auth'[m].status = auth[m].status
             \/ auth'[m].status = "EXPIRED" /\ auth[m].status \in {"PENDING", "ACTIVE"}
          /\ \A n \in Missions \ {m} : auth'[n] = auth[n]
        BY <1>1, <1>4, SMTT(30) DEF Typed, AuthorizationRow, expire_if_stale
    <2>2. Typed'
        BY <1>1, <1>2, <1>4, <2>1 DEF Typed, MissionState
    <2>3. Agrees(m)' /\ (Approved(auth[m]) => Approved(auth'[m]))
        BY <1>1, <1>4, <2>1 DEF Agrees, Paid, PaidStates, Approved
    <2> QED BY <1>1, <1>2, <1>4, <2>1, <2>2, <2>3, RowStep
<1> QED BY <1>0, <1>3, <1>4 DEF approve_authorization_with_signature

-----------------------------------------------------------------------------
(* create_payment_intent                                                   *)

(* The payment route starts by reading, and refuses a mission without an   *)
(* authorization.                                                          *)
LEMMA RequestPaymentKeeps ==
    ASSUME Inv, NEW r \in Requests, NEW m \in Missions, NEW k \in Keys, NEW p \in Providers,
           request_payment(r, m, k, p)
    PROVE  Inv'
<1> DEFINE late == m \in expired
           t == [Unread EXCEPT !.pc = "received", !.mission = m, !.key = k, !.provider = p,
                               !.late = late, !.seen = mission[m]]
<1>1. CASE Refuse(r, "refused")
    BY <1>1, RefuseStep DEF Outcome
<1>2. CASE /\ auth[m].status # "none" /\ UNCHANGED durable
           /\ req' = [req EXCEPT ![r] = t]
    <2>0. late \in BOOLEAN
        BY SMTT(30)
    <2> HIDE DEF late
    <2>1. /\ t.pc = "received" /\ t.mission = m /\ t.key = k /\ t.provider = p
          /\ t.answer = ""
        BY DEF Unread
    <2>2. t \in Transaction
        BY <2>0 DEF Inv, Typed, Unread, Transaction, Stage, Outcome
    <2> HIDE DEF t
    <2>3. req'[r] = t
        BY <1>2 DEF Inv, Typed
    <2>4. Row(r)' \in PaymentRow /\ auth' = auth
        BY <1>2, <2>1, <2>3 DEF Row, PaymentRow, durable
    <2>5. Relies(r)'
        BY <1>2, <2>1, <2>3, <2>4 DEF Relies, Checked, InFlight
    <2> QED BY <1>2, <2>1, <2>2, <2>5, RequestStep DEF InFlight
<1> QED BY <1>1, <1>2 DEF request_payment

(* The transaction takes its copy of the authorization.                    *)
LEMMA LoadKeeps ==
    ASSUME Inv, NEW r \in Requests, LoadAuthorization(r)
    PROVE  Inv'
<1> DEFINE t == [req[r] EXCEPT !.pc = "loaded", !.copy = auth[req[r].mission].status]
<1>1. Relies(r) /\ req[r] \in Transaction /\ req[r].pc = "received" /\ Typed
    BY DEF Inv, Typed, LoadAuthorization
<1>2. req' = [req EXCEPT ![r] = t] /\ UNCHANGED durable
    BY DEF LoadAuthorization
<1>3. req[r].mission \in Missions
    BY <1>1 DEF Relies, Asking, Row, PaymentRow
<1>4. /\ t.pc = "loaded" /\ t.mission = req[r].mission /\ t.key = req[r].key
      /\ t.provider = req[r].provider /\ t.answer = req[r].answer
    BY <1>1 DEF Transaction
<1>5. t \in Transaction
    BY <1>1, <1>3 DEF Typed, Transaction, Stage, AuthorizationRow
<1> HIDE DEF t
<1>6. req'[r] = t
    BY <1>1, <1>2 DEF Typed
<1>7. Row(r)' = Row(r)
    BY <1>4, <1>6 DEF Row
<1>8. Relies(r)'
    BY <1>1, <1>2, <1>4, <1>6, <1>7 DEF Relies, Asking, Checked, InFlight, durable
<1> QED BY <1>1, <1>2, <1>4, <1>5, <1>8, RequestStep DEF InFlight, Relies

(* A request that goes on to its next stage needs what that stage relies   *)
(* on; the rest it has already.                                            *)
LEMMA AdvanceStep ==
    ASSUME Inv, NEW r \in Requests, NEW s \in Checked, req[r].pc \in Asking,
           req' = [req EXCEPT ![r].pc = s], UNCHANGED durable,
           req[r].seen = "AUTHORIZED" /\ Approved(auth[req[r].mission]),
           s \in InFlight =>
               /\ \A i \in intents : ~Clash(i, Row(r))
               /\ \A q \in Requests \ {r} : req[q].pc \in InFlight => ~Clash(Row(q), Row(r)),
           s = "consumed" => auth[req[r].mission].status = "ACTIVE"
    PROVE  Inv'
<1> DEFINE t == [req[r] EXCEPT !.pc = s]
<1>1. Relies(r) /\ req[r] \in Transaction /\ Typed
    BY DEF Inv, Typed
<1>2. req' = [req EXCEPT ![r] = t]
    OBVIOUS
<1>3. t \in Transaction
    BY <1>1 DEF Transaction, Stage, Checked
<1>4. /\ t.pc = s /\ t.mission = req[r].mission /\ t.key = req[r].key /\ t.seen = req[r].seen
      /\ t.provider = req[r].provider /\ t.answer = req[r].answer
    BY <1>1 DEF Transaction
<1> HIDE DEF t
<1>5. req'[r] = t
    BY <1>1, <1>2 DEF Typed
<1>6. Row(r)' = Row(r)
    BY <1>4, <1>5 DEF Row
<1>7. req[r].answer = ""
    BY <1>1 DEF Relies, Asking
<1>8. Relies(r)'
    BY <1>1, <1>4, <1>5, <1>6, <1>7 DEF Relies, Asking, Checked, InFlight, durable
<1> QED BY <1>2, <1>3, <1>4, <1>6, <1>7, <1>8, RequestStep

(* A payment found under the request's key answers it or refuses it.       *)
LEMMA ResolveKeeps ==
    ASSUME Inv, NEW r \in Requests, resolve_existing(r)
    PROVE  Inv'
BY RefuseStep DEF resolve_existing, Outcome

(* A request passes verification only for a mission it read as AUTHORIZED  *)
(* and an approval that still stands.                                      *)
LEMMA FindExistingKeeps ==
    ASSUME Inv, NEW r \in Requests, FindExisting(r)
    PROVE  Inv'
<1>1. CASE Refuse(r, "refused")
    BY <1>1, RefuseStep DEF Outcome
<1>2. CASE resolve_existing(r)
    BY <1>2, ResolveKeeps
<1>3. CASE /\ find_by_idempotency_key(req[r].key) = {} /\ Verified(r)
           /\ find_by_idempotency_key(req[r].key) # {} \/ req[r].seen = "AUTHORIZED"
           /\ req' = [req EXCEPT ![r].pc = "verified"] /\ UNCHANGED durable
    <2>1. req[r].pc \in Asking
        BY DEF FindExisting, Asking
    <2>2. req[r].seen = "AUTHORIZED" /\ Approved(auth[req[r].mission])
        BY <1>3 DEF Verified, Approved
    <2> QED BY <1>3, <2>1, <2>2, AdvanceStep DEF Checked, InFlight
<1> QED BY <1>1, <1>2, <1>3 DEF FindExisting

(* The unique indexes keep an insert away from every committed row and     *)
(* from every uncommitted one.                                             *)
LEMMA InsertKeeps ==
    ASSUME Inv, NEW r \in Requests, Insert(r)
    PROVE  Inv'
<1>1. CASE resolve_existing(r)
    BY <1>1, ResolveKeeps
<1>2. CASE Refuse(r, "error")
    BY <1>2, RefuseStep DEF Outcome
<1>3. CASE /\ \A i \in intents : ~Clash(i, Row(r))
           /\ req' = [req EXCEPT ![r].pc = "inserted"] /\ UNCHANGED durable
    <2>1. /\ req[r].pc = "verified"
          /\ \A q \in Requests : req[q].pc \in InFlight => ~Clash(Row(q), Row(r))
        BY DEF Insert
    <2>2. req[r].seen = "AUTHORIZED" /\ Approved(auth[req[r].mission])
        BY <2>1 DEF Inv, Relies, Checked
    <2> QED BY <1>3, <2>1, <2>2, AdvanceStep DEF Checked, Asking
<1> QED BY <1>1, <1>2, <1>3 DEF Insert

(* The conditional UPDATE takes an active authorization or rolls back.     *)
LEMMA ConsumeKeeps ==
    ASSUME Inv, NEW r \in Requests, consume_authorization(r)
    PROVE  Inv'
<1>1. CASE Refuse(r, "refused")
    BY <1>1, RefuseStep DEF Outcome
<1>2. CASE /\ auth[req[r].mission].status = "ACTIVE"
           /\ req' = [req EXCEPT ![r].pc = "consumed"] /\ UNCHANGED durable
    <2>1. req[r].pc = "inserted" /\ Relies(r) /\ Apart
        BY DEF Inv, consume_authorization
    <2>2. req[r].seen = "AUTHORIZED" /\ Approved(auth[req[r].mission])
        BY <2>1 DEF Relies, Checked
    <2>3. /\ \A i \in intents : ~Clash(i, Row(r))
          /\ \A q \in Requests \ {r} : req[q].pc \in InFlight => ~Clash(Row(q), Row(r))
        BY <2>1 DEF Relies, Apart, InFlight
    <2> QED BY <1>2, <2>1, <2>2, <2>3, AdvanceStep DEF Checked, Asking
<1> QED BY <1>1, <1>2 DEF consume_authorization

(* The commit publishes a row nobody else has the keys of, consumes an     *)
(* authorization that is still active, and moves a mission that is still   *)
(* AUTHORIZED, as it was when the request read it.                         *)
LEMMA CommitKeeps ==
    ASSUME Inv, NEW r \in Requests, Commit(r)
    PROVE  Inv'
<1>1. PICK m \in Missions : m = req[r].mission
    BY DEF Inv, Relies, Commit, Asking, Row, PaymentRow
<1>2. PICK row \in PaymentRow : row = Row(r)
    BY DEF Inv, Relies, Commit, Asking
<1>3. /\ Typed /\ Agrees(m) /\ Apart /\ CreatedOnce /\ OnePayment /\ outbox = intents
      /\ auth[m].status = "ACTIVE" /\ Approved(auth[m]) /\ mission[m] = "AUTHORIZED"
      /\ req[r].seen = "AUTHORIZED" /\ req[r].pc = "consumed"
      /\ \A i \in intents : ~Clash(i, row)
      /\ row.mission = m
    <2>1. Relies(r) /\ req[r].pc = "consumed"
        BY DEF Inv, Commit
    <2>2. auth[m].status = "ACTIVE" /\ Approved(auth[m]) /\ req[r].seen = "AUTHORIZED"
        BY <1>1, <2>1 DEF Relies, Checked
    <2>3. \A i \in intents : ~Clash(i, row)
        BY <1>2, <2>1 DEF Relies, InFlight
    <2> QED BY <1>1, <1>2, <2>1, <2>2, <2>3 DEF Inv, Agrees, Row
<1>4. /\ auth' = [auth EXCEPT ![m].status = "CONSUMED"]
      /\ intents' = intents \cup {row} /\ outbox' = outbox \cup {row}
      /\ mission' = [mission EXCEPT ![m] = "PAYMENT_PENDING"]
    <2>1. can_transition(req[r].seen, "PAYMENT_PENDING")
        BY <1>3 DEF can_transition, ALLOWED_TRANSITIONS
    <2> QED BY <1>1, <1>2, <2>1 DEF Commit
<1>5. PICK a \in {"created", "lost"} : Answer(r, a)
    BY DEF Commit
<1>6. PICK t \in Transaction :
          /\ req' = [req EXCEPT ![r] = t]
          /\ t.pc = "done" /\ t.answer = a
          /\ a \in {"created", "reused"} => Row(r)' = Row(r)
    <2>1. a \in Outcome
        BY DEF Outcome
    <2> QED BY <1>2, <1>5, <2>1, AnswerLeaves
<1>7. /\ req'[r] = t
      /\ \A q \in Requests \ {r} : req'[q] = req[q] /\ Row(q)' = Row(q)
    BY <1>3, <1>6 DEF Typed, Row
<1>8. /\ auth'[m] \in AuthorizationRow /\ auth'[m].status = "CONSUMED" /\ Approved(auth'[m])
      /\ mission'[m] = "PAYMENT_PENDING"
      /\ \A n \in Missions \ {m} : auth'[n] = auth[n] /\ mission'[n] = mission[n]
    <2>1. auth[m] \in AuthorizationRow
        BY <1>3 DEF Typed
    <2>2. /\ auth'[m] = [auth[m] EXCEPT !.status = "CONSUMED"]
          /\ mission'[m] = "PAYMENT_PENDING"
          /\ \A n \in Missions \ {m} : auth'[n] = auth[n] /\ mission'[n] = mission[n]
        BY <1>3, <1>4 DEF Typed
    <2> QED BY <1>3, <2>1, <2>2 DEF AuthorizationRow, Approved
<1>9. Typed'
    BY <1>3, <1>4, <1>6, <1>8 DEF Typed, MissionState
<1>10. ASSUME NEW n \in Missions PROVE Agrees(n)'
    <2>1. CASE n = m
        <3>1. Paid(n)'
            BY <1>3, <1>4, <2>1 DEF Paid
        <3> QED BY <1>8, <2>1, <3>1 DEF Agrees, PaidStates
    <2>2. CASE n # m
        <3>1. Paid(n)' <=> Paid(n)
            BY <1>3, <1>4, <2>2 DEF Paid
        <3> QED BY <1>8, <2>2, <3>1 DEF Inv, Agrees
    <2> QED BY <2>1, <2>2
<1>11. ASSUME NEW q \in Requests PROVE Relies(q)'
    <2>1. CASE q = r
        BY <1>2, <1>4, <1>6, <1>7, <2>1 DEF Relies, Asking, Checked, InFlight
    <2>2. CASE q # r
        <3>0. Relies(q) /\ req'[q] = req[q]
            BY <1>7, <2>2 DEF Inv
        <3>1. req[q].pc \in Asking => req[q].mission \in Missions
            BY <3>0 DEF Relies, Row, PaymentRow
        <3>2. req[q].pc \in InFlight => ~Clash(row, Row(q)) /\ req[q].mission # m
            BY <1>2, <1>3, <2>2 DEF Apart, InFlight, Clash, Row
        <3>3. req[q].pc \in Asking =>
                   /\ auth'[req[q].mission].status # "none"
                   /\ Approved(auth[req[q].mission]) => Approved(auth'[req[q].mission])
            BY <1>8, <3>0, <3>1 DEF Relies
        <3>4. req[q].pc \in InFlight => \A i \in intents' : ~Clash(i, Row(q))
            BY <1>4, <3>0, <3>2 DEF Relies
        <3>5. req[q].pc = "consumed" => auth'[req[q].mission].status = "ACTIVE"
            BY <1>8, <3>0, <3>1, <3>2 DEF Relies, Asking, InFlight
        <3> QED BY <1>4, <3>0, <3>3, <3>4, <3>5, OthersRely
    <2> QED BY <2>1, <2>2
<1>12. Apart'
    <2> SUFFICES ASSUME NEW p \in Requests, NEW q \in Requests, p # q,
                        req'[p].pc \in InFlight, req'[q].pc \in InFlight
                 PROVE  ~Clash(Row(p)', Row(q)')
        BY DEF Apart, Clash
    <2>1. p # r /\ q # r
        BY <1>6, <1>7 DEF InFlight
    <2> QED BY <1>3, <1>7, <2>1 DEF Apart
<1>13. CreatedOnce'
    <2>1. ASSUME NEW q \in Requests \ {r}, req[q].answer = "created" PROVE Row(q) # row
        <3>1. Row(q) \in intents
            BY <2>1 DEF Inv, Relies
        <3> QED BY <1>3, <3>1 DEF Clash
    <2>2. a = "created" => Row(r)' = row
        BY <1>2, <1>6
    <2> SUFFICES ASSUME NEW p \in Requests, NEW q \in Requests, p # q,
                        req'[p].answer = "created", req'[q].answer = "created"
                 PROVE  Row(p)' # Row(q)'
        BY DEF CreatedOnce
    <2>3. CASE p # r /\ q # r
        BY <1>3, <1>7, <2>3, SMTT(30) DEF CreatedOnce
    <2>4. CASE p = r
        BY <1>6, <1>7, <2>1, <2>2, <2>4, SMTT(30)
    <2>5. CASE q = r
        BY <1>6, <1>7, <2>1, <2>2, <2>5, SMTT(30)
    <2> QED BY <2>3, <2>4, <2>5
<1>14. OnePayment' /\ (outbox = intents)'
    BY <1>3, <1>4 DEF OnePayment, Clash
<1> QED BY <1>9, <1>10, <1>11, <1>12, <1>13, <1>14 DEF Inv

-----------------------------------------------------------------------------
(* The theorems                                                            *)

(* Migrated rows agree, and nothing is under way.                          *)
LEMMA InitInv == Init => Inv
<1> SUFFICES ASSUME Init PROVE Inv
    OBVIOUS
<1>1. /\ intents = {} /\ outbox = {}
      /\ \A r \in Requests : req[r] = Unread
    BY DEF Init
<1>2. /\ Unread \in Transaction /\ Unread.pc = "idle" /\ Unread.answer = ""
    BY DEF Unread, Transaction, Stage, Outcome, MissionState
<1>3. ASSUME NEW m \in Missions
      PROVE  /\ auth[m] \in AuthorizationRow /\ mission[m] \in MissionState \cup {"absent"}
             /\ Agrees(m)
    <2>1. auth[m] \in {NoAuthorization, Legacy("ACTIVE"), Legacy("PENDING")}
        BY DEF Init
    <2>2. CASE auth[m] = NoAuthorization
        <3>1. mission[m] = "absent"
            BY <2>2, SMTT(30) DEF Init, NoAuthorization
        <3> QED BY <1>1, <2>2, <3>1, SMTT(30) DEF NoAuthorization, AuthorizationRow, Agrees, Paid,
                                        PaidStates
    <2>3. CASE auth[m] = Legacy("ACTIVE")
        <3>1. mission[m] = "AUTHORIZED"
            BY <2>3, SMTT(30) DEF Init, Legacy
        <3> QED BY <1>1, <2>3, <3>1, SMTT(30) DEF Legacy, AuthorizationRow, Agrees, Paid, PaidStates,
                                        MissionState
    <2>4. CASE auth[m] = Legacy("PENDING")
        <3>1. mission[m] = "AWAITING_APPROVAL"
            BY <2>4, SMTT(30) DEF Init, Legacy
        <3> QED BY <1>1, <2>4, <3>1, SMTT(30) DEF Legacy, AuthorizationRow, Agrees, Paid, PaidStates,
                                        MissionState
    <2> QED BY <2>1, <2>2, <2>3, <2>4
<1>4. Typed
    <2>1. /\ DOMAIN auth = Missions /\ auth = [m \in Missions |-> auth[m]]
          /\ mission = [m \in Missions |-> mission[m]]
          /\ req = [r \in Requests |-> Unread]
        BY DEF Init
    <2> QED BY <1>1, <1>2, <1>3, <2>1 DEF Typed
<1>5. \A r \in Requests : Relies(r)
    BY <1>1, <1>2 DEF Relies, Asking, Checked, InFlight
<1>6. Apart /\ CreatedOnce
    BY <1>1, <1>2 DEF Apart, CreatedOnce, InFlight
<1> QED BY <1>1, <1>3, <1>4, <1>5, <1>6 DEF Inv, OnePayment

(* Every step keeps the invariant.                                         *)
LEMMA NextInv == Inv /\ [Next]_vars => Inv'
<1> SUFFICES ASSUME Inv, [Next]_vars PROVE Inv'
    OBVIOUS
<1>1. CASE Environment
    <2>1. ASSUME NEW r \in Requests, Abort(r) PROVE Inv'
        BY <2>1, RefuseStep DEF Abort, Outcome
    <2> QED BY <1>1, <2>1, CreateMissionKeeps, RevokeKeeps, ExpiresKeeps, SettleKeeps,
               ReceiveApprovalKeeps, RequestPaymentKeeps DEF Environment
<1>2. ASSUME NEW r \in Requests, Serve(r) PROVE Inv'
    BY <1>2, LoadKeeps, FindExistingKeeps, InsertKeeps, ConsumeKeeps, CommitKeeps,
       ApproveKeeps DEF Serve
<1>3. CASE UNCHANGED vars
    BY <1>3, SameKeeps DEF vars
<1> QED BY <1>1, <1>2, <1>3 DEF Next, Quiet

(* The invariant holds in every reachable state.                           *)
LEMMA RequestsInvariant == Spec => []Inv
BY InitInv, NextInv, PTL DEF Spec

(* One key names one payment and one authorization backs one, however many *)
(* requests race (create_payment_intent and the unique indexes).           *)
THEOREM KeysNameOnePayment == Spec => []OnePayment
<1>1. Inv => OnePayment
    BY DEF Inv
<1> QED BY <1>1, RequestsInvariant, PTL

(* The payment, the consumed authorization, the outbox event and the       *)
(* mission's move are durable together or not at all.                      *)
THEOREM IntentIsAtomic == Spec => []IntentAtomic
<1>1. Inv => IntentAtomic
    BY DEF Inv, Agrees, Paid, PaidStates, IntentAtomic
<1> QED BY <1>1, RequestsInvariant, PTL

(* Every payment was allowed outright by policy or signed by the user,     *)
(* whatever the migration left behind (verify_authorization_for_payment).  *)
THEOREM PaymentsAreApproved == Spec => []PaymentApproved
<1>1. Inv => PaymentApproved
    BY DEF Inv, Typed, PaymentRow, Agrees, Paid, Approved, PaymentApproved
<1> QED BY <1>1, RequestsInvariant, PTL

(* A created or reused answer names the durable payment of that request,   *)
(* and one payment is announced as created once.                           *)
THEOREM AnswersAreBacked == Spec => []AnswerBacked
<1>1. Inv => AnswerBacked
    BY DEF Inv, Relies, CreatedOnce, AnswerBacked
<1> QED BY <1>1, RequestsInvariant, PTL

(* What one step may do to a mission and its authorization.                *)
Kept(m) ==
    /\ auth[m].status \in {"CONSUMED", "EXPIRED", "REVOKED"} => auth'[m].status = auth[m].status
    /\ mission[m] \notin {mission'[m], "absent"} => can_transition(mission[m], mission'[m])

(* An authorization that reached a final status keeps it, and a mission    *)
(* moves along its state machine although it is written from a copy that   *)
(* a request read at its start.                                            *)
THEOREM NothingIsTakenBack == Spec => NothingTakenBack
<1>1. ASSUME Inv, Next, NEW m \in Missions PROVE Kept(m)
    <2>0. Typed /\ Agrees(m)
        BY <1>1 DEF Inv
    <2>1. CASE UNCHANGED <<mission, auth>>
        BY <2>1 DEF Kept
    <2>2. ASSUME NEW n \in Missions, NEW d \in Decision, create_mission(n, d) PROVE Kept(m)
        <3>1. CASE n = m
            BY <2>0, <2>2, <3>1 DEF create_mission, Agrees, Kept
        <3>2. CASE n # m
            BY <2>0, <2>2, <3>2 DEF create_mission, Typed, Kept
        <3> QED BY <3>1, <3>2
    <2>3. ASSUME NEW n \in Missions, revoke_authorization(n) PROVE Kept(m)
        BY <2>0, <2>3 DEF revoke_authorization, Typed, Kept
    <2>4. ASSUME NEW n \in Missions, NEW s \in {"PAYMENT_SUCCEEDED", "PAYMENT_FAILED"},
                 SettlePayment(n, s)
          PROVE  Kept(m)
        BY <2>0, <2>4 DEF SettlePayment, Typed, Kept
    <2>5. ASSUME NEW r \in Requests, NEW valid \in BOOLEAN,
                 approve_authorization_with_signature(r, valid)
          PROVE  Kept(m)
        <3>1. CASE req[r].mission # m
            BY <2>0, <2>5, <3>1 DEF approve_authorization_with_signature, Typed, Kept
        <3>2. CASE req[r].mission = m
            <4>1. CASE /\ auth[m].status = "PENDING"
                       /\ mission' = [mission EXCEPT ![m] = "AUTHORIZED"]
                <5>1. mission[m] = "AWAITING_APPROVAL" /\ mission'[m] = "AUTHORIZED"
                    BY <2>0, <4>1 DEF Agrees, Typed
                <5> QED BY <4>1, <5>1, SMTT(30) DEF Kept, can_transition, ALLOWED_TRANSITIONS
            <4>2. CASE /\ \/ auth' = [auth EXCEPT ![m] = auth[m]]
                          \/ auth' = [auth EXCEPT ![m] = expire_if_stale(auth[m], req[r].late)]
                       /\ mission' = mission
                BY <2>0, <4>2 DEF Typed, expire_if_stale, Kept
            <4> QED BY <2>5, <3>2, <4>1, <4>2 DEF approve_authorization_with_signature
        <3> QED BY <3>1, <3>2
    <2>6. ASSUME NEW r \in Requests, Commit(r) PROVE Kept(m)
        <3>1. CASE req[r].mission # m
            BY <2>0, <2>6, <3>1 DEF Commit, Typed, Kept
        <3>2. CASE req[r].mission = m
            <4>1. auth[m].status = "ACTIVE" /\ mission[m] = "AUTHORIZED"
                BY <1>1, <2>0, <2>6, <3>2 DEF Inv, Relies, Agrees, Commit
            <4>2. mission'[m] \in {mission[m], "PAYMENT_PENDING"}
                BY <2>0, <2>6, <3>2 DEF Commit, Typed
            <4> QED BY <4>1, <4>2 DEF Kept, can_transition, ALLOWED_TRANSITIONS
        <3> QED BY <3>1, <3>2
    <2>7. CASE Environment
        <3>1. ASSUME NEW n \in Missions, Expires(n) PROVE UNCHANGED <<mission, auth>>
            BY <3>1 DEF Expires
        <3>2. ASSUME NEW r \in Requests, NEW n \in Missions, ReceiveApproval(r, n)
              PROVE  UNCHANGED <<mission, auth>>
            BY <3>2 DEF ReceiveApproval, durable
        <3>3. ASSUME NEW r \in Requests, NEW n \in Missions, NEW k \in Keys,
                     NEW p \in Providers, request_payment(r, n, k, p)
              PROVE  UNCHANGED <<mission, auth>>
            BY <3>3 DEF request_payment, Refuse, durable
        <3>4. ASSUME NEW r \in Requests, Abort(r) PROVE UNCHANGED <<mission, auth>>
            BY <3>4 DEF Abort, Refuse, durable
        <3> QED BY <2>1, <2>2, <2>3, <2>4, <2>7, <3>1, <3>2, <3>3, <3>4 DEF Environment
    <2>8. ASSUME NEW r \in Requests, Serve(r) PROVE Kept(m)
        <3>1. LoadAuthorization(r) => UNCHANGED <<mission, auth>>
            BY DEF LoadAuthorization, durable
        <3>2. FindExisting(r) => UNCHANGED <<mission, auth>>
            BY DEF FindExisting, resolve_existing, Refuse, durable
        <3>3. Insert(r) => UNCHANGED <<mission, auth>>
            BY DEF Insert, resolve_existing, Refuse, durable
        <3>4. consume_authorization(r) => UNCHANGED <<mission, auth>>
            BY DEF consume_authorization, Refuse, durable
        <3> QED BY <2>1, <2>5, <2>6, <2>8, <3>1, <3>2, <3>3, <3>4 DEF Serve
    <2> QED BY <1>1, <2>1, <2>7, <2>8 DEF Next, Quiet, vars
<1>2. Inv /\ [Next]_vars => [\A m \in Missions : Kept(m)]_vars
    BY <1>1
<1>3. Spec => [][\A m \in Missions : Kept(m)]_vars
    BY <1>2, RequestsInvariant, PTL DEF Spec
<1> QED BY <1>3 DEF Kept, NothingTakenBack
=============================================================================
