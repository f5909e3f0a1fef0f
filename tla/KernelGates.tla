---------------------------- MODULE KernelGates ----------------------------
(***************************************************************************)
(* The two gates of the security kernel under any sequence of calls: the   *)
(* protected policy register, written by sources of every authority, and   *)
(* the privileged boundaries that issue an authorization and execute a     *)
(* payment, called with whatever capability set the caller presents.       *)
(***************************************************************************)
EXTENDS SecurityKernel

CONSTANTS
    Fields,      \* protected fields
    Values,      \* their values
    Presented    \* capability sets a caller may present

VARIABLES
    protected_register,   \* the protected policy register
    users,                \* per field, the last value the user's policy gave it
    passed                \* <<principal, capability>> pairs a boundary let through

gvars == <<protected_register, users, passed>>

Privileged == {"authorization.issue", "payment.execute"}

(* protected_policy_values: every field starts at USER_POLICY.             *)
GatesInit ==
    /\ users \in [Fields -> Values]
    /\ protected_register = [f \in Fields |-> authoritative(users[f], "user-policy")]
    /\ passed = {}

(* register.apply with a value of any authority; an escalation is raised.  *)
Write(f, level, v) ==
    /\ protected_register' =
         apply(protected_register, f, Provenanced(v, "source", level, FALSE)).register
    /\ users' = IF level = AuthorityLevel.USER_POLICY
                THEN [users EXCEPT ![f] = v] ELSE users
    /\ UNCHANGED passed

(* issue_authorization and the executor's entry points call                *)
(* enforce_registered before anything else.                                *)
Present(capset, capability) ==
    /\ enforce_registered(capset, capability)
    /\ passed' = passed \cup {<<capset.principal, capability>>}
    /\ UNCHANGED <<protected_register, users>>

GatesNext ==
    \/ \E f \in Fields, level \in Level, v \in Values : Write(f, level, v)
    \/ \E capset \in Presented, capability \in Privileged : Present(capset, capability)

GatesSpec == GatesInit /\ [][GatesNext]_gvars

(* Whatever merchants, agents and services have written, in any order, a   *)
(* protected field holds what the user's policy last said.                 *)
(* (ProtectedPolicyRegister.apply through merge_keep_higher)               *)
UserValueStands == \A f \in Fields : protected_register[f].value = users[f]

(* Separation of duties: no principal ever gets past both the boundary     *)
(* that issues authorizations and the one that spends them, whatever       *)
(* capability sets it presents. (capability_registry, enforce_registered)  *)
NoSelfDealing ==
    \A p, q \in passed :
        p[2] = "authorization.issue" /\ q[2] = "payment.execute" => p[1] # q[1]
=============================================================================
