----------------------------- MODULE AuthCheck -----------------------------
(***************************************************************************)
(* One authorization check of                                             *)
(* src/radix-engine/src/system/system_modules/auth/authorization.rs,      *)
(* evaluated once over every small input and compared with the meaning    *)
(* spec section 4.6 gives access rules.                                    *)
(*                                                                         *)
(* An input is either an access rule (check_authorization_against_access_ *)
(* rule) or a role list (check_authorization_against_role_list).  The     *)
(* walk answers are inputs (see AuthRules); AuthZoneWalk checks the walk.  *)
(***************************************************************************)
EXTENDS AuthRules

CONSTANTS
    Resources,    \* resources and non-fungibles named by rules
    Amounts,      \* amounts in AmountOf rules
    MaxAmount,    \* largest proof amount held
    Counts,       \* counts in CountOf rules (a u8)
    RoleKeys,     \* role keys other than SELF_ROLE
    NonGlobalRoleAssignments  \* whether a checked role assignment may belong to a
                              \* node that is not global (a vault, an auth zone)

ASSUME Counts \subseteq 0 .. 255 /\ GlobalCallerSelf \notin Resources
ASSUME NonGlobalRoleAssignments \in BOOLEAN

VARIABLES
    env,          \* the walk's answers, see AuthRules
    rule,         \* the access rule checked, or NoInput for a role list
    roleList,     \* the role list checked
    roles,        \* role key -> access rule, or NoRule
    owner,        \* the owner role's rule
    outcome       \* "pending", then the check's outcome

vars == <<env, rule, roleList, roles, owner, outcome>>

Evidence == Resources \cup {GlobalCallerSelf}
SeqsUpTo2(S) == {<<>>} \cup {<<x>> : x \in S} \cup {<<x, y>> : x \in S, y \in S}

(* Walk answers: a resource with a proof of some amount is also matched by *)
(* auth_zone_stack_matches_rule, which looks at the same proofs.            *)
Envs ==
    {e \in [matched : [Evidence -> BOOLEAN], largest : [Resources -> 0 .. MaxAmount],
            profile : {"debug", "release"}, selfGlobal : BOOLEAN] :
        /\ \A r \in Resources : e.largest[r] > 0 => e.matched[r]
        /\ ~e.selfGlobal => NonGlobalRoleAssignments /\ ~e.matched[GlobalCallerSelf]}

ProofRules ==
    {Require(r) : r \in Resources} \cup {AmountOf(a, r) : a \in Amounts, r \in Resources}
      \cup {AllOfRes(s) : s \in SeqsUpTo2(Resources)}
      \cup {AnyOfRes(s) : s \in SeqsUpTo2(Resources)}
      \cup {CountOf(n, s) : n \in Counts, s \in SeqsUpTo2(Resources)}

\* AnyOf and AllOf nodes over lists of up to two children from S.
Combined(S) == {AnyOfNode(s) : s \in SeqsUpTo2(S)} \cup {AllOfNode(s) : s \in SeqsUpTo2(S)}
Leaves == {ProofNode(p) : p \in ProofRules}
AllInOrder(S) == CHOOSE s \in SeqsUpTo2(S) : Len(s) = Cardinality(S) /\ {s[i] : i \in DOMAIN s} = S
\* Leaves for the second nesting level: Require, and CountOf of every resource.
SmallLeaves == {ProofNode(Require(r)) : r \in Resources}
                 \cup {ProofNode(CountOf(n, AllInOrder(Resources))) : n \in Counts}
Nodes == Leaves \cup Combined(Leaves) \cup Combined(Combined(SmallLeaves))
AccessRules == {AllowAll, DenyAll} \cup {Protected(n) : n \in Nodes}

\* Rules a role or the owner is given.
RoleRules == {AllowAll, DenyAll} \cup {Protected(ProofNode(Require(r))) : r \in Resources}

NoInput == [kind |-> "None"]

RuleInit ==
    /\ env \in Envs
    /\ rule \in AccessRules
    /\ roleList = <<>> /\ roles = [k \in RoleKeys |-> NoRule] /\ owner = DenyAll
    /\ outcome = "pending"

RoleInit ==
    /\ env \in Envs
    /\ rule = NoInput
    /\ roleList \in SeqsUpTo2(RoleKeys \cup {SelfRole})
    /\ roles \in [RoleKeys -> RoleRules \cup {NoRule}]
    /\ owner \in RoleRules
    /\ outcome = "pending"

CheckRule ==
    /\ outcome = "pending" /\ rule # NoInput
    /\ outcome' = CheckAccessRule(rule, env)
    /\ UNCHANGED <<env, rule, roleList, roles, owner>>

CheckRoles ==
    /\ outcome = "pending" /\ rule = NoInput
    /\ outcome' = CheckRoleList(roleList, roles, owner, env)
    /\ UNCHANGED <<env, rule, roleList, roles, owner>>

Init == RuleInit \/ RoleInit
Next == CheckRule \/ CheckRoles
Spec == Init /\ [][Next]_vars

(************************* reference semantics ****************************)

Matches(r) == env.matched[r]
MatchCount(s) == Cardinality({i \in DOMAIN s : Matches(s[i])})

\* Spec 4.6: what each rule asks of the auth-zone stack.
RECURSIVE Holds(_)
Holds(n) ==
    CASE n.kind = "ProofRule" ->
           LET p == n.rule IN
           (CASE p.kind = "Require" -> Matches(p.res)
             [] p.kind = "AmountOf" -> env.largest[p.res] >= p.amount
             [] p.kind = "AllOf" -> \A i \in DOMAIN p.list : Matches(p.list[i])
             [] p.kind = "AnyOf" -> \E i \in DOMAIN p.list : Matches(p.list[i])
             [] p.kind = "CountOf" -> MatchCount(p.list) >= p.count)
      [] n.kind = "AnyOf" -> \E i \in DOMAIN n.children : Holds(n.children[i])
      [] n.kind = "AllOf" -> \A i \in DOMAIN n.children : Holds(n.children[i])

RuleHolds(r) ==
    CASE r.kind = "AllowAll" -> TRUE
      [] r.kind = "DenyAll" -> FALSE
      [] r.kind = "Protected" -> Holds(r.node)

(* The rule a role key stands for: SELF_ROLE, a call from the global       *)
(* object the role assignment belongs to (none, for a node that is not     *)
(* global); another key its own rule, else the owner's.                    *)
RoleMeaning(k) ==
    IF k = SelfRole THEN env.selfGlobal /\ Matches(GlobalCallerSelf)
    ELSE RuleHolds(IF roles[k] = NoRule THEN owner ELSE roles[k])

(******************************* properties *******************************)

(* verify_auth_rule / verify_proof_rule, with their early returns, the u8  *)
(* CountOf counter and nesting, authorize an access rule exactly when the  *)
(* rule holds of the stack, and never panic.                                *)
RuleMatchesReference ==
    outcome # "pending" /\ rule # NoInput => outcome = AsOutcome(RuleHolds(rule))

(* The role-list check (check_authorization_against_role_key_internal per  *)
(* key) never panics -- the FIXME at SELF_ROLE asks that new_or_panic's    *)
(* panic be prevented -- and authorizes exactly when some listed role's    *)
(* rule holds, an undefined role standing for the owner role.              *)
RoleListMatchesReference ==
    outcome # "pending" /\ rule = NoInput =>
        outcome = AsOutcome(\E i \in DOMAIN roleList : RoleMeaning(roleList[i]))
=============================================================================
