----------------------------- MODULE MCFunctions -----------------------------
(***************************************************************************)
(* The pure functions of the engine checked in one run, in four parts that *)
(* share nothing (part picks one):                                         *)
(*   - "sbor": the SBOR decoder against its grammar (SborCheck);           *)
(*   - "address": the address codecs (AddressCodec);                       *)
(*   - "walk": the auth-zone stack walk of authorization.rs, evaluated     *)
(*     once (AuthZoneWalk);                                                *)
(*   - "rules": an access rule or a role list evaluated once against the   *)
(*     walk's answers (AuthCheck).                                          *)
(* Each behaviour is one part: the other parts' variables stay at fixed    *)
(* placeholder values, on which their properties hold vacuously.           *)
(***************************************************************************)
EXTENDS SborCheck, AddressCodec

CONSTANTS k1, k2, r1, r2, minter, burner
CONSTANTS MaxDepth, Resources, Amounts, MaxAmount, Counts, RoleKeys, NonGlobalRoleAssignments

VARIABLES
    part,                                       \* "sbor", "address", "walk" or "rules"
    zones, location, accept, walkResult,        \* AuthZoneWalk
    env, rule, roleList, roles, owner, outcome  \* AuthCheck

Walk == INSTANCE AuthZoneWalk WITH result <- walkResult
Rules == INSTANCE AuthCheck

walkVars == <<zones, location, accept, walkResult>>
ruleVars == <<env, rule, roleList, roles, owner, outcome>>

\* Distinct ids for the entity types (EntityType::id; any injective choice).
MCEntityId ==
    [e \in EntityTypes |->
        CASE e = "NormalComponent" -> 0 [] e = "AccountComponent" -> 1
          [] e = "IdentityComponent" -> 2 [] e = "Clock" -> 3
          [] e = "EpochManager" -> 4 [] e = "Validator" -> 5
          [] e = "EcdsaSecp256k1VirtualAccountComponent" -> 6
          [] e = "EddsaEd25519VirtualAccountComponent" -> 7
          [] e = "EddsaEd25519VirtualIdentityComponent" -> 8
          [] e = "EcdsaSecp256k1VirtualIdentityComponent" -> 9
          [] e = "AccessControllerComponent" -> 10
          [] e = "Resource" -> 11 [] e = "Package" -> 12]

\* One key per curve, whose hashes' low bytes collide.
MCCurveOf == (k1 :> "EcdsaSecp256k1") @@ (k2 :> "EddsaEd25519")
MCKeyHash == (k1 :> <<1, 0>>) @@ (k2 :> <<1, 0>>)

(* The decoded types: every decode_value implementation of decode.rs other *)
(* than the signed and wider integers (the same code as u16) and (),       *)
(* nested so that each composite holds a scalar and a composite.           *)
MCTypes ==
    {BoolT, U8T, U16T, StringT,
     OptionT(BoolT), OptionT(OptionT(U8T)), BoxT(U8T),
     ArrayT(BoolT, 2), VecT(U8T), VecT(VecT(BoolT)),
     TupleT(<<U8T, BoolT>>), TupleT(<<OptionT(U8T), VecT(BoolT), BoxT(BoolT)>>),
     MapT(U8T, BoolT), MapT(U8T, VecT(U8T)), BoxT(MapT(U8T, U8T))}

SborIdle ==
    /\ type = BoolT /\ meta = FALSE /\ input = <<>> /\ expect = Err("NotRun")
    /\ done = FALSE /\ result = Err("NotRun")
AddressIdle == case = Case("none", NoAddress, <<>>, <<>>)
WalkIdle == zones = <<>> /\ location = "none" /\ accept = {} /\ walkResult = "pending"
RulesIdle ==
    /\ env = "none" /\ rule = Rules!NoInput /\ roleList = <<>> /\ roles = <<>>
    /\ owner = Rules!DenyAll /\ outcome = "pending"

MCInit ==
    \/ part = "sbor" /\ Init /\ AddressIdle /\ WalkIdle /\ RulesIdle
    \/ part = "address" /\ AddressInit /\ SborIdle /\ WalkIdle /\ RulesIdle
    \/ part = "walk" /\ Walk!Init /\ SborIdle /\ AddressIdle /\ RulesIdle
    \/ part = "rules" /\ Rules!Init /\ SborIdle /\ AddressIdle /\ WalkIdle

\* Each address case is checked in its initial state; the others evaluate once.
MCNext ==
    \/ part = "sbor" /\ Evaluate /\ UNCHANGED <<part, case, walkVars, ruleVars>>
    \/ part = "walk" /\ Walk!Evaluate /\ UNCHANGED <<part, case, vars, ruleVars>>
    \/ part = "rules" /\ Rules!Next /\ UNCHANGED <<part, case, vars, walkVars>>

MCSpec == MCInit /\ [][MCNext]_<<part, case, vars, walkVars, ruleVars>>

(* The walk authorises exactly as spec 4.6 reads it (AuthZoneWalk).        *)
WalkMatchesReference == Walk!WalkMatchesReference
(* Access rules are authorized exactly when they hold (AuthCheck).         *)
RuleMatchesReference == Rules!RuleMatchesReference
(* Role lists authorize exactly when a listed role does, and never panic   *)
(* (AuthCheck).                                                              *)
RoleListMatchesReference == Rules!RoleListMatchesReference
=============================================================================
