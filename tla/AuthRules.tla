----------------------------- MODULE AuthRules -----------------------------
(***************************************************************************)
(* Access-rule evaluation of                                              *)
(* src/radix-engine/src/system/system_modules/auth/authorization.rs:      *)
(* verify_proof_rule, verify_auth_rule, the access-rule check, role-key   *)
(* resolution and the role-list check, as pure operators.                 *)
(*                                                                         *)
(* The auth-zone walk itself (AuthZoneWalk.tla) is summarised by an       *)
(* environment env = [matched, largest, profile]:                          *)
(*   matched[r] : auth_zone_stack_matches_rule holds for resource r        *)
(*   largest[r] : the largest single proof of r the walk sees (0: none),   *)
(*                which decides auth_zone_stack_has_amount                 *)
(*   profile    : "debug" (integer overflow panics) or "release" (wraps)   *)
(*   selfGlobal : the role assignment's node is a global object          *)
(* An outcome is "Authorized", "Failed", or "Panic" when the Rust code     *)
(* panics, which aborts the whole check.                                   *)
(***************************************************************************)
EXTENDS Integers, Sequences, FiniteSets

(***************************** proof rules ********************************)

\* ProofRule values.
Require(r) == [kind |-> "Require", res |-> r]
AmountOf(a, r) == [kind |-> "AmountOf", amount |-> a, res |-> r]
AllOfRes(rs) == [kind |-> "AllOf", list |-> rs]
AnyOfRes(rs) == [kind |-> "AnyOf", list |-> rs]
CountOf(n, rs) == [kind |-> "CountOf", count |-> n, list |-> rs]

Authorized == "Authorized"
Failed == "Failed"
Panic == "Panic"
AsOutcome(b) == IF b THEN Authorized ELSE Failed

\* `left -= 1` on a u8: at 0 it panics with overflow checks (debug) and
\* wraps to 255 without them (release).
U8Underflows(n, profile) == n = 0 /\ profile = "debug"
U8Decrement(n) == (n + 255) % 256

(* ProofRule::CountOf: count the matching resources down from count and    *)
(* succeed when the counter reaches 0 just after a decrement.              *)
RECURSIVE CountOfLoop(_, _, _, _)
CountOfLoop(rs, i, left, env) ==
    IF i > Len(rs) THEN Failed
    ELSE IF ~env.matched[rs[i]] THEN CountOfLoop(rs, i + 1, left, env)
    ELSE IF U8Underflows(left, env.profile) THEN Panic
    ELSE LET l2 == U8Decrement(left) IN
         IF l2 = 0 THEN Authorized
         ELSE CountOfLoop(rs, i + 1, l2, env)

\* A mutant of AllOf that stops at the first matching resource.
VerifyProofRuleAllOfAsAny(p, env) ==
    CASE p.kind = "Require" -> AsOutcome(env.matched[p.res])
      [] p.kind = "AmountOf" -> AsOutcome(env.largest[p.res] >= p.amount)
      [] p.kind = "AllOf" -> AsOutcome(\E i \in DOMAIN p.list : env.matched[p.list[i]])
      [] p.kind = "AnyOf" -> AsOutcome(\E i \in DOMAIN p.list : env.matched[p.list[i]])
      [] p.kind = "CountOf" -> CountOfLoop(p.list, 1, p.count, env)

(* verify_proof_rule: Require and AmountOf ask the walk once; AllOf fails  *)
(* at the first resource not matched; AnyOf succeeds at the first matched; *)
(* CountOf counts down.                                                     *)
VerifyProofRule(p, env) ==
    CASE p.kind = "Require" -> AsOutcome(env.matched[p.res])
      [] p.kind = "AmountOf" -> AsOutcome(env.largest[p.res] >= p.amount)
      [] p.kind = "AllOf" -> AsOutcome(\A i \in DOMAIN p.list : env.matched[p.list[i]])
      [] p.kind = "AnyOf" -> AsOutcome(\E i \in DOMAIN p.list : env.matched[p.list[i]])
      [] p.kind = "CountOf" -> CountOfLoop(p.list, 1, p.count, env)

(************************** access rule nodes *****************************)

ProofNode(p) == [kind |-> "ProofRule", rule |-> p]
AnyOfNode(ns) == [kind |-> "AnyOf", children |-> ns]
AllOfNode(ns) == [kind |-> "AllOf", children |-> ns]

(* verify_auth_rule: AnyOf returns the first Authorized child, AllOf the   *)
(* first Failed one; a panic in any child aborts the check.                *)
RECURSIVE VerifyAuthRule(_, _), AnyOfLoop(_, _, _), AllOfLoop(_, _, _)
AnyOfLoop(ns, i, env) ==
    IF i > Len(ns) THEN Failed
    ELSE LET o == VerifyAuthRule(ns[i], env) IN
         IF o = Failed THEN AnyOfLoop(ns, i + 1, env) ELSE o
AllOfLoop(ns, i, env) ==
    IF i > Len(ns) THEN Authorized
    ELSE LET o == VerifyAuthRule(ns[i], env) IN
         IF o = Authorized THEN AllOfLoop(ns, i + 1, env) ELSE o
VerifyAuthRule(n, env) ==
    CASE n.kind = "ProofRule" -> VerifyProofRule(n.rule, env)
      [] n.kind = "AnyOf" -> AnyOfLoop(n.children, 1, env)
      [] n.kind = "AllOf" -> AllOfLoop(n.children, 1, env)

(***************************** access rules *******************************)

AllowAll == [kind |-> "AllowAll"]
DenyAll == [kind |-> "DenyAll"]
Protected(n) == [kind |-> "Protected", node |-> n]

\* check_authorization_against_access_rule_internal.
CheckAccessRule(rule, env) ==
    CASE rule.kind = "AllowAll" -> Authorized
      [] rule.kind = "DenyAll" -> Failed
      [] rule.kind = "Protected" -> VerifyAuthRule(rule.node, env)

(******************************** roles ***********************************)

SelfRole == "_self_"
\* The evidence of being called by the role assignment's own global object.
GlobalCallerSelf == "global_caller_self"
NoRule == [kind |-> "NoRule"]

\* A mutant of role resolution that denies an undefined role instead of
\* falling back to the owner role.
RoleRuleDenyingUndefined(key, roles, owner) ==
    IF key = SelfRole THEN Protected(ProofNode(Require(GlobalCallerSelf)))
    ELSE IF roles[key] # NoRule THEN roles[key] ELSE DenyAll

(* check_authorization_against_role_key_internal: SELF_ROLE requires the   *)
(* object's own global caller; any other key reads its role entry          *)
(* (virtualized to an empty entry) and falls back to the owner role.       *)
RoleRule(key, roles, owner) ==
    IF key = SelfRole THEN Protected(ProofNode(Require(GlobalCallerSelf)))
    ELSE IF roles[key] # NoRule THEN roles[key] ELSE owner

(* The role-key check: SELF_ROLE builds its rule with                     *)
(* GlobalAddress::new_or_panic, which panics when the role assignment      *)
(* belongs to a node that is not global (env.selfGlobal false).             *)
CheckRoleKey(key, roles, owner, env) ==
    IF key = SelfRole /\ ~env.selfGlobal THEN Panic
    ELSE CheckAccessRule(RoleRule(key, roles, owner), env)

(* check_authorization_against_role_list: Authorized at the first role     *)
(* that authorizes, else Failed with every role's failure.                 *)
RECURSIVE RoleListLoop(_, _, _, _, _)
RoleListLoop(list, i, roles, owner, env) ==
    IF i > Len(list) THEN Failed
    ELSE LET o == CheckRoleKey(list[i], roles, owner, env) IN
         IF o = Failed THEN RoleListLoop(list, i + 1, roles, owner, env) ELSE o

CheckRoleList(list, roles, owner, env) == RoleListLoop(list, 1, roles, owner, env)

=============================================================================
