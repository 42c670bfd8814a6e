---------------------------- MODULE AddressCodec ----------------------------
(***************************************************************************)
(* The binary and hex forms of global addresses: ComponentAddress          *)
(* (src/radix-engine-common/src/data/scrypto/model/address_component.rs)   *)
(* and ResourceAddress (src/radix-engine-interface/src/blueprints/         *)
(* resource/resource_manager.rs).  An address is one entity-type byte and  *)
(* an ADDRESS_HASH_LENGTH-byte suffix; try_from(&[u8]) checks the length,  *)
(* reads the entity type and picks the variant, to_vec writes them back.   *)
(* Virtual account and identity addresses are derived from a public key:   *)
(* the curve picks the variant and the key's hash the suffix.              *)
(*                                                                         *)
(* An address value is a record [kind, hash]: kind is the enum variant,    *)
(* hash the suffix as a byte sequence.  Results reuse SborDecode's Ok/Err. *)
(***************************************************************************)
EXTENDS SborDecode, FiniteSets, Functions

CONSTANTS
    EntityId,           \* EntityType -> its u8 id (EntityType::id)
    AddressHashLength,  \* ADDRESS_HASH_LENGTH (26 in the code)
    HashBytes,          \* byte values the suffixes are drawn from
    PublicKeys,         \* public keys
    CurveOf,            \* key -> "EcdsaSecp256k1" | "EddsaEd25519" (the PublicKey variant)
    KeyHash             \* key -> hash(public_key.to_vec()).lower_26_bytes()

\* The EntityType variants address_component.rs matches on.
EntityTypes ==
    {"NormalComponent", "AccountComponent", "IdentityComponent", "Clock",
     "EpochManager", "Validator",
     "EcdsaSecp256k1VirtualAccountComponent", "EddsaEd25519VirtualAccountComponent",
     "EddsaEd25519VirtualIdentityComponent", "EcdsaSecp256k1VirtualIdentityComponent",
     "AccessControllerComponent", "Resource", "Package"}

ASSUME EntityId \in [EntityTypes -> 0 .. 255] /\ IsInjective(EntityId)
ASSUME AddressHashLength \in Nat \ {0} /\ HashBytes \subseteq 0 .. 255
ASSUME CurveOf \in [PublicKeys -> {"EcdsaSecp256k1", "EddsaEd25519"}]
ASSUME KeyHash \in [PublicKeys -> [1 .. AddressHashLength -> HashBytes]]

\* ADDRESS_LENGTH: the entity byte and the suffix.
AddressLength == 1 + AddressHashLength

Hashes == [1 .. AddressHashLength -> HashBytes]

\* EntityType::try_from(u8): the entity type with that id, if any.
IsEntityId(b) == \E e \in EntityTypes : EntityId[e] = b
EntityOfId(b) == CHOOSE e \in EntityTypes : EntityId[e] = b

\* EntityType::component(&ComponentAddress): the entity type of each variant.
ComponentEntity ==
    [Normal |-> "NormalComponent", Account |-> "AccountComponent",
     Identity |-> "IdentityComponent", Clock |-> "Clock",
     EpochManager |-> "EpochManager", Validator |-> "Validator",
     EcdsaSecp256k1VirtualAccount |-> "EcdsaSecp256k1VirtualAccountComponent",
     EddsaEd25519VirtualAccount |-> "EddsaEd25519VirtualAccountComponent",
     EcdsaSecp256k1VirtualIdentity |-> "EcdsaSecp256k1VirtualIdentityComponent",
     EddsaEd25519VirtualIdentity |-> "EddsaEd25519VirtualIdentityComponent",
     AccessController |-> "AccessControllerComponent"]

ComponentKinds == DOMAIN ComponentEntity
ComponentAddresses == [kind : ComponentKinds, hash : Hashes]
ResourceAddresses == [kind : {"Normal"}, hash : Hashes]

NoVariant == "InvalidEntityTypeId"

\* A mutant of the match with a catch-all arm in place of the error arm
\* for Resource | Package.
ComponentArmCatchAll ==
    [e \in EntityTypes |->
        IF e \in {"Resource", "Package"} THEN "Normal"
        ELSE CHOOSE k \in ComponentKinds : ComponentEntity[k] = e]

(* The match of ComponentAddress::try_from: the variant each entity type    *)
(* decodes to, and InvalidEntityTypeId for Resource and Package.            *)
ComponentArm ==
    [e \in EntityTypes |->
        IF e \in {"Resource", "Package"} THEN NoVariant
        ELSE CHOOSE k \in ComponentKinds : ComponentEntity[k] = e]

\* ComponentAddress::try_from(&[u8]).
ComponentTryFrom(slice) ==
    IF Len(slice) # AddressLength THEN Err("InvalidLength")
    ELSE IF ~IsEntityId(slice[1]) \/ ComponentArm[EntityOfId(slice[1])] = NoVariant
         THEN Err(NoVariant)
         ELSE Ok([kind |-> ComponentArm[EntityOfId(slice[1])], hash |-> Tail(slice)], Len(slice))

\* ComponentAddress::to_vec: the variant's entity id, then the suffix.
ComponentToVec(a) == <<EntityId[ComponentEntity[a.kind]]>> \o a.hash

\* ResourceAddress::try_from(&[u8]): only the Resource entity type.
ResourceTryFrom(slice) ==
    IF Len(slice) # AddressLength THEN Err("InvalidLength")
    ELSE IF ~IsEntityId(slice[1]) \/ EntityOfId(slice[1]) # "Resource"
         THEN Err(NoVariant)
         ELSE Ok([kind |-> "Normal", hash |-> Tail(slice)], Len(slice))

\* ResourceAddress::to_vec, with EntityType::resource's id.
ResourceToVec(a) == <<EntityId["Resource"]>> \o a.hash

(* to_hex / try_from_hex: hex::encode writes two lower-case digits per byte *)
(* (high nibble first); hex::decode refuses an odd length or a non-digit   *)
(* with HexDecodingError.  A hex string is a sequence of digit values, a   *)
(* letter digit being its value; Invalid stands for any other character.   *)
Invalid == 16
HexEncode(bytes) ==
    [i \in 1 .. 2 * Len(bytes) |->
        IF i % 2 = 1 THEN bytes[(i + 1) \div 2] \div 16 ELSE bytes[i \div 2] % 16]
HexDecode(str) ==
    IF Len(str) % 2 = 1 \/ \E i \in DOMAIN str : str[i] = Invalid THEN Err("HexDecodingError")
    ELSE Ok([i \in 1 .. Len(str) \div 2 |-> 16 * str[2 * i - 1] + str[2 * i]], Len(str))

ComponentToHex(a) == HexEncode(ComponentToVec(a))
ComponentTryFromHex(str) ==
    LET d == HexDecode(str) IN IF ~d.ok THEN d ELSE ComponentTryFrom(d.val)

\* A mutant that derives the Ed25519 identity as an Ed25519 account.
VirtualIdentityAsAccount(k) ==
    [kind |-> IF CurveOf[k] = "EcdsaSecp256k1" THEN "EcdsaSecp256k1VirtualIdentity"
              ELSE "EddsaEd25519VirtualAccount",
     hash |-> KeyHash[k]]

\* ComponentAddress::virtual_account_from_public_key.
VirtualAccountFromPublicKey(k) ==
    [kind |-> IF CurveOf[k] = "EcdsaSecp256k1" THEN "EcdsaSecp256k1VirtualAccount"
              ELSE "EddsaEd25519VirtualAccount",
     hash |-> KeyHash[k]]

\* ComponentAddress::virtual_identity_from_public_key.
VirtualIdentityFromPublicKey(k) ==
    [kind |-> IF CurveOf[k] = "EcdsaSecp256k1" THEN "EcdsaSecp256k1VirtualIdentity"
              ELSE "EddsaEd25519VirtualIdentity",
     hash |-> KeyHash[k]]


(********************************* the check ******************************)
(* One test case per state: a component or resource address to encode and  *)
(* decode back, a byte slice to decode, or a pair of public keys to derive  *)
(* virtual addresses from.                                                  *)

VARIABLE case

\* A byte that is no entity type's id.
NotAnEntityId == CHOOSE b \in 0 .. 255 : ~IsEntityId(b)

\* Every slice of one byte and a suffix one shorter, as long or one longer.
Slices ==
    {<<b>> \o h : b \in Range(EntityId) \cup {NotAnEntityId},
                  h \in UNION {[1 .. n -> HashBytes] : n \in AddressHashLength - 1 .. AddressHashLength + 1}}

\* A case: which test, and its address, bytes or keys (the others unused).
NoAddress == [kind |-> "Normal", hash |-> [i \in 1 .. AddressHashLength |-> 0]]
Case(test, addr, bytes, keys) == [test |-> test, addr |-> addr, bytes |-> bytes, keys |-> keys]

Cases ==
    {Case("component", a, <<>>, <<>>) : a \in ComponentAddresses}
      \cup {Case("resource", a, <<>>, <<>>) : a \in ResourceAddresses}
      \cup {Case("slice", NoAddress, s, <<>>) : s \in Slices}
      \cup {Case("keys", NoAddress, <<>>, <<p, q>>) : p, q \in PublicKeys}

AddressInit == case \in Cases
AddressSpec == AddressInit /\ [][FALSE]_case

(******************************* properties *******************************)

(* The codecs of address_component.rs and resource_manager.rs are exact     *)
(* inverses on disjoint byte sets: every component address survives to_hex *)
(* and try_from_hex, every resource address to_vec and try_from, neither    *)
(* kind of bytes is accepted as the other kind, and whatever try_from       *)
(* accepts is the to_vec of what it returns (so two addresses never share   *)
(* bytes and an address is never read as another entity).                   *)
AddressCodecIsExact ==
    LET x == case.addr
        s == case.bytes
    IN
    CASE case.test = "component" ->
            /\ ComponentTryFromHex(ComponentToHex(x)) = Ok(x, AddressLength)
            /\ ~ResourceTryFrom(ComponentToVec(x)).ok
      [] case.test = "resource" ->
            /\ ResourceTryFrom(ResourceToVec(x)) = Ok(x, AddressLength)
            /\ ~ComponentTryFrom(ResourceToVec(x)).ok
      [] case.test = "slice" ->
            /\ ComponentTryFrom(s).ok => ComponentToVec(ComponentTryFrom(s).val) = s
            /\ ResourceTryFrom(s).ok => ResourceToVec(ResourceTryFrom(s).val) = s
      [] OTHER -> TRUE

(* The virtual account and identity addresses derived from public keys     *)
(* never share bytes: not an account with an identity, even of the same     *)
(* key, nor two keys of different curves whose hashes' low bytes collide;  *)
(* the lock-fault hook that materialises a virtual address picks the       *)
(* blueprint from these bytes alone.                                        *)
VirtualAddressesAreDistinct ==
    case.test = "keys" =>
        LET k1 == case.keys[1]
            k2 == case.keys[2]
            acc(k) == ComponentToVec(VirtualAccountFromPublicKey(k))
            idn(k) == ComponentToVec(VirtualIdentityFromPublicKey(k))
        IN  /\ acc(k1) # idn(k2)
            /\ CurveOf[k1] # CurveOf[k2] => acc(k1) # acc(k2) /\ idn(k1) # idn(k2)

=============================================================================
