# TLA+ models of the Radix engine

This directory holds TLA+ models of parts of the Radix engine (the Rust
sources under `src/`). TLC checks them. Each module is translated from the
code. `PROJECT.json` maps every definition to the lines it models.

## 1. The system

| Part | Source | State | Operations |
|---|---|---|---|
| Substate Track | `radix-engine/src/track/track.rs` | `updates` (node → module → key → `TrackedSubstateKey`), `force_updates`, `locks` (handle → node/module/key/flags), `next_lock_id` | `create_node`, `set_substate`, `delete_substate`, `read_sorted_substates`, `acquire_lock_virtualize`, `release_lock`, `read_substate`, `update_substate`, `revert_non_force_write_changes`, `finalize` |
| Epoch manager | `radix-engine/src/blueprints/epoch_manager/epoch_manager.rs` | `EpochManagerSubstate` (epoch, round, rounds_per_epoch), current and preparing `ValidatorSetSubstate` | `create`, `get_current_epoch`, `next_round`, `set_epoch`, `create_validator`, `update_validator` |
| Transaction processor | `radix-engine/src/model/transaction_processor.rs` | manifest → real bucket and proof id maps, outputs | one arm per manifest instruction: take / return / assert on the worktop, auth-zone pop / push / clear / create-proof, proof clone / drop, call function / method (auto-moving returned proofs and buckets), call with all resources, publish |
| Authorization | `radix-engine/src/system/system_modules/auth/authorization.rs` | none (reads the auth-zone stack) | barrier-aware auth-zone stack walk, proof rules (Require, AmountOf, AllOf, AnyOf, CountOf), role resolution |
| System callbacks | `radix-engine/src/system/system_callback.rs` | frame / module state through the kernel | invocation checks, `auto_drop`, `on_substate_lock_fault` (virtual accounts), `on_drop_node`, `on_move_node`, `on_persist_node` |
| SBOR decoder | `sbor/src/decode.rs` | byte cursor | length-prefixed decoding of scalars, arrays, maps |
| Scrypto data guards | `scrypto/src/core/data.rs` | the blueprint's live `DataRef` / `DataRefMut` (lock handle and decoded copy) | `DataPointer::get`, `get_mut`, `DerefMut`, the `Drop` of each guard |
| Address codecs | `radix-engine-common/.../address_component.rs`, `radix-engine-interface/.../resource_manager.rs` | none | `try_from(&[u8])`, `to_vec`, `to_hex`, `try_from_hex`, virtual account / identity derivation |
| Account blueprint | `assets/account/src/lib.rs` | `vaults` (resource → Vault) per account | `new`, `with_bucket`, `deposit_batch` / `deposit`, `withdraw`, `withdraw_with_auth`, `withdraw_non_fungibles`, `withdraw_non_fungibles_with_auth` |
| Others | proof getters, costing table, WASM interpreter, the rest of the Scrypto guest library, the identity blueprint, HRP and Display formatting, schema, tests | — | declarations, pure conversions or harnesses |

How the parts interact. The transaction processor turns each manifest
instruction into kernel invocations. The kernel runs system callbacks around
each one, and authorization checks every method call against the auth-zone
stack. Blueprints such as the epoch manager read and write their substates
through kernel locks; a Scrypto blueprint does so through the guards of
`data.rs`, whose every call is a kernel lock, read, write or unlock. Every substate lock and write ends up in the Track.
When a transaction fails, the Track is reverted so that only force writes
survive; these are fee locking. Finalize then turns what is left into the
state updates.

Hard behaviours in this code:
- Several handles lock the same substate. Lock state must then be carried
  across the entry conversions that `set_substate` and `update_substate` do.
- A failed call leaves state behind. For example, `acquire_lock` caches what
  it loaded even when it returns an error.
- A revert on failure must keep exactly the fee-locking writes.
- An epoch change writes three substates under three locks.
- Arbitrary orders of legal calls can reach `unwrap()`s in the Track.

## 2. Modules

### `SubstateStore.tla`: what the Track promises

This is an abstract transactional store. Its state is:
- `view`: one value per (node, key), starting from the database;
- `durable`: values that survive a revert;
- `phase`;
- `committed`.

Its actions are `Write` (the values of one node), `Persist` (a force write),
`Revert`, `Finalize` and `Abort` (a panic).

### `Track.tla`: the Track

A `(ModuleId, SubstateKey)` pair is one element of `SubstateKeys`. A tracked
key is a record whose fields are the `TrackedSubstateKey` variant, the `Read`
and `Write` parts, the value (or `NoValue` when `get_substate` is `None`), and
the `SubstateLockState`. `Read(n)` is written as `n` and `Write` as
`WriteLock`.

| Code | Definition |
|---|---|
| `Track::updates` / `TrackedNode::is_new` | `updates`, `isNew` |
| `force_updates`, `locks`, `next_lock_id` | same names |
| `try_lock` / `unlock` / `is_locked` | `CanLock`, `TryLock`, `Unlock`, `IsLocked` |
| `get_tracked_substate_virtualize` / `get_tracked_substate` | `Load`, `Tracked` |
| ReadOnly → ReadAndWrite with the lock copied | `Written` |
| `new_lock_handle` | `NewLockHandle` |
| each `SubstateStore` method | the action of the same name |
| `revert_non_force_write_changes` / `finalize` | `RevertNonForceWriteChanges` / `Finalize` (+ `StateUpdateOf`) |

Each action covers the whole method. That includes error returns that still
change state: a failed `delete_substate` or `acquire_lock` keeps the entry it
loaded. A `panic!`, `unwrap` or `expect` that fails ends the process, so the
model sets `phase = "panicked"` and records `panic_site`.

`read_substate` changes nothing, so it is not an action. `LockAccounting`
shows that its `expect` cannot fail. `read_sorted_substates` ignores its
`count` argument.

A refinement mapping (`Store`) shows that `Track` implements
`SubstateStore`:
- `view` is what reads through the track return;
- `durable` is `force_updates`;
- `committed` is the database with finalize's `StateUpdates` applied;
- a panic is an abort.

### `EpochManager.tla`: the epoch manager

The variables `epoch`, `round`, `current` and `preparing` are the three
substates. `create` is `Init`, and it ranges over every genesis validator
map. The actions are `NextRound(r)` (which ends the epoch through
`EndEpoch`), `SetEpoch(e)` and `UpdateValidator(addr, Register|Unregister)`.

Each method holds its locks for the whole invocation, and a failed invocation
is reverted by the Track. A method is therefore one atomic step, and an error
return is no step at all. `get_current_epoch` and `create_validator` change no
epoch-manager state.

### `TransactionProcessor.tla`: the transaction processor and the end of its frame

This module follows `TransactionProcessor::main` in
`model/transaction_processor.rs`, one action per instruction arm. Its state
is as follows.

| Code | Variable |
|---|---|
| `bucket_id_mapping`, `proof_id_mapping` | `bucketMap`, `proofMap` (manifest id → kernel id) |
| buckets and proofs owned by the processor frame | `buckets` (id → resource and amount), `proofs` (id → resource) |
| the worktop and the auth zone's proof stack | `worktop`, `authZone` |
| the component called (one vault) | `vault` |
| the id allocator | `nextId`, `nextNode`, with bounds `MaxIds` and `MaxNodes` |
| the instruction loop and the frame's end | `steps` and `phase` |

Every arm's early return (`?` on a missing id, an allocator error, an
insufficient worktop, or a proof of an empty bucket, which the bucket refuses
with `EmptyProofNotAllowed`) becomes `Fail`, which ends `main`. Both
`CallFunction` and `CallMethod` are covered by `Call(bs, ps, ret)`:
- it passes buckets and proofs to the callee;
- the callee returns a bucket and a proof;
- `AutoMove` puts returned buckets on the worktop and pushes returned proofs
  onto the auth zone (lines 351-377).

`CallMethodWithAllResources` hands over the whole worktop and does no
auto-move. `EndOfManifest` moves the model to `phase = "done"`. After that,
`AutoDrop` models `SystemConfig::auto_drop` (system_callback.rs 526-612) in
its own order:
1. drop the proofs the frame owns;
2. detach the auth zone's proofs, drop them, and drop the auth zone.

The transaction `"finished"` if no bucket and no worktop balance is left.
Otherwise it `"failed"`, because the kernel rejects dangling nodes.

The worktop, the auth zone and the callee are not under `src/`. They follow
spec §4.5 and §4.7 and are marked `spec_modelled` in `PROJECT.json`. Note
that `transaction_processor.rs` is written against an older engine API than
`system_callback.rs`. The model composes the processor's instruction
semantics with the newer `auto_drop`.

### `AuthZoneWalk.tla`, `AuthRules.tla`, `AuthCheck.tla`: authorization

These modules cover `system_modules/auth/authorization.rs`.
- `AuthZoneWalk` follows `auth_zone_stack_matches`. It is a `RECURSIVE`
  walk over a stack of zones. Each zone is a barrier or not and holds
  evidence: proofs, virtual global-caller proofs or local call-frame proofs.
  The walk carries the same loop state as the code:
  - `is_first_barrier`;
  - `waiting_for_barrier`;
  - `remaining_barrier_crossings_allowed`;
  - `skip`;
  - `rev_index`.
- `AuthRules` has pure operators:
  - `verify_proof_rule`, including CountOf's u8 counter, with both
    overflow-check profiles;
  - `verify_auth_rule`, with the AnyOf/AllOf early returns;
  - the access-rule check;
  - role-key resolution: `SELF_ROLE` calls `new_or_panic`, and an undefined
    role falls back to the owner;
  - the role-list loop.
- `AuthCheck` evaluates one check over every small input. An input is an
  access rule nested to depth 3, or a role list of up to two keys. The walk
  is summarised by which resources the stack matches and the largest single
  proof amount. The constant `NonGlobalRoleAssignments` says whether a role
  assignment may belong to a node that is not global (a vault or an auth
  zone, as the FIXME at authorization.rs:336 says can happen).

Each of these modules compares the code's result with a declarative
reference reading of spec §4.6. For role lists the reference follows the
FIXME at `SELF_ROLE`: the check never panics, and `SELF_ROLE` of a node
that is not global is a role no caller satisfies.

### `SborDecode.tla`, `SborCheck.tla`: the SBOR decoder

`SborDecode` follows `sbor/src/decode.rs`:
- the `Decoder` helpers (`require`, `read_u8`, `read_len`, `check_type`,
  `check_len`);
- one operator per `decode_value` implementation: bool, u8, u16, String,
  Option, `[T; N]`, Vec, tuples, BTreeMap and Box.

A result is `Ok(value, offset)` or `Err(DecodeError variant)`.

`SborCheck` builds the encoding grammar, which is the layout of the decoder's
own test vectors. A grammar encoding records, at every byte where the
decoder takes a decision, the error it must report when that byte is
corrupted. The check inputs are:
- every encoding;
- every encoding with a trailing byte;
- every truncation;
- every corruption.

### `SystemFrames.tla`: the system callbacks around call frames

`SystemFrames` covers the node-lifecycle callbacks of
`system/system_callback.rs` over a stack of call frames. The kernel that
calls them is not under `src/`, so its part follows spec §3, §4.2, §4.5 and
S2 and is marked `spec_modelled`:
- a frame owns nodes, and the proofs on its auth zone are owned by the auth
  zone;
- a call pushes a frame and moves nodes down into it;
- a return auto-drops, fails on a dangling node, pops, and moves the
  returned nodes up;
- every error aborts the transaction.

State: `frames` (the actors, each with its barrier flag and blueprint),
`owner` (the frame index of each node, or unborn, dropped or stored),
`zone` (each frame's auth-zone proofs), `addressOf` (what each reservation
reserves) and `status`. Two history variables record what the hooks were
told: `seen` holds the last `OnMoveInput` of each node, and `retried` holds the addresses whose faulted lock was retried.

Actions and the code they model:
- `Invoke` is a call. `before_push_frame` runs `on_move_node` for every moved
  node. Then `invoke_upstream` checks the function (`FnNotFound`), the
  input schema and the receiver (`ReceiverMatches`), in that order.
- `EndFrame` is a return. It runs `invoke_upstream`'s output check (a hook's
  output must decode and so carries no node), then both rounds of
  `auto_drop`, the dangling check, the pop and `after_pop_frame`, whose
  `current_actor` is the frame returned to.
- `DropNode` is `on_drop_node` (the OnDrop hook).
- `PersistNode` is `on_persist_node`: transient objects and reservations
  are refused.
- `LockFault` is `on_substate_lock_fault`. A virtual account or identity
  address whose blueprint exports OnVirtualize gets a reservation, and the
  hook runs as a frame that receives it. Any other address fails the lock.
- `Globalize` is the hook's account creation: it consumes the reservation
  and makes the address global (spec S2).
- `CreateNode` and `PushToAuthZone` are the kernel's and auth zone's.

An OnMove or OnDrop hook is abstracted to a call that returns or fails.
Schema validation is abstracted to pass or fail.

### `ScryptoData.tla`: the Scrypto data guards over the Track

`ScryptoData` extends `Track` with the guest side of `scrypto/src/core/data.rs`.
`guards` maps each lock handle the blueprint holds to its guard: node, key,
whether it is a `DataRefMut`, the value decoded when it was made (`base`),
the blueprint's copy (`val`) and whether its drop has made the Write call.
`guest` is `running`, `trapped` or `returned`; `lastDropped` is a history
variable holding the value each key's last `DataRefMut` was dropped with.

| Code | Action |
|---|---|
| `DataPointer::get` / `get_mut`: `sys_lock_substate(.., mutable).unwrap()`, `sys_read`, decode | `GetData(n, k, mut)`: Track's `AcquireLock` with `{MUTABLE}` or no flags; a refusal (`LockRefused`) traps |
| `DerefMut for DataRefMut` | `MutateData` |
| `Drop for DataRef`: `DropLock` | `DropDataRef`: `ReleaseLock` |
| `Drop for DataRefMut`: `Write`, then `DropLock` | `WriteDataRefMut` (`UpdateSubstate`), then `DropDataRefMut` (`ReleaseLock`) |
| the method returns; the kernel commits it, or reverts it after a trap | `Return`, `Commit`, `Abort`, `CommitReverted` (`spec_modelled`) |

The guest is one WASM thread, so between its two calls a `DataRefMut` drop
lets nothing else run (`Running`). Every `.unwrap()` of `data.rs` on an
engine error is a WASM trap, which ends the invocation; the kernel then
reverts the Track. A re-entrant `get_mut` while a guard on the same
substate is alive is such a trap.

### `AddressCodec.tla`: binary and hex address codecs

`AddressCodec` follows `ComponentAddress::try_from(&[u8])`, `to_vec`,
`to_hex` and `try_from_hex` (address_component.rs 30-112), the
`ResourceAddress` codec (resource_manager.rs 220-268) and
`virtual_account_from_public_key` / `virtual_identity_from_public_key`
(address_component.rs 114-142). An address is a record `[kind, hash]`; the
hex form is a sequence of digit values. `EntityType` and its ids are not
under `src/`: the set of types and `EntityType::component` are
`spec_modelled`, and the ids are a constant that must be injective. Each
state of the check is one test case: an address, a byte slice or a pair of
public keys.

### `Account.tla`: the Account blueprint

`Account` follows `assets/account/src/lib.rs`. `accounts` maps each
account address to its LazyMap, written as a fungible balance per resource
and a set of non-fungible keys, each `NoVault` until the first deposit
creates the vault; `world` holds what is in no account; `call` is the key
loop of a non-fungible withdrawal in progress; `caller` is a history
variable naming the badge the last call presented.

| Code | Action |
|---|---|
| `new`, `with_bucket` | `New`, `WithBucket` |
| `deposit_batch`, looping over `deposit` (get, then put or insert) | `DepositBatch`, folding `Deposited` over the Vec |
| `withdraw`, `withdraw_with_auth` | `Withdraw`: `OwnerCheck`, vault lookup, `CanTake`, and the auth badge |
| `withdraw_non_fungibles(_with_auth)` | `StartWithdrawNonFungibles` (check, lookup, new bucket), one `TakeNonFungible` per key, `FinishWithdrawNonFungibles` |

Vault, Bucket, BucketRef and LazyMap are not under `src/` and are modelled
from the spec (`spec_modelled`). Each call is a transaction: a panic
aborts it and the Track's revert (spec §4.8) undoes it, which for the key
loop is `AbortRestoring`. The badge check is abstracted to which account
the caller signs for.

### MC modules

`MCTrack`, `MCEpochManager`, `MCAuthCheck`, `MCTransactionProcessor` and
`MCFunctions` give the constants model values and small definitions.
`MCFunctions` runs the engine's pure functions as four parts of one
behaviour set: `part` picks which one, and the others' variables stay at
fixed placeholder values, on which their properties hold vacuously. Its
parts are `sbor` (the decoder, `SborCheck`), `address` (`AddressCodec`),
`walk` (`AuthZoneWalk`) and `rules` (`AuthCheck`). `MCTrack` has a `track` part, where any caller
drives the Track's operations, and a `guest` part, where a blueprint drives
it through `ScryptoData`. `MCEpochManager` has an `epoch`
part and an `account` part (`Account`). `MCSystemFrames` does the same with two
instances of `SystemFrames`, described under the bounds below.

## 3. Runs

| Run | Cfg | Expect | What it shows |
|---|---|---|---|
| track_safety | `MCTrack.cfg` | pass | Checks seven properties over both parts:<br>• `TypeOK`; `GuestTypeOK`: no guard is kept for a refused lock, and while the invocation runs every guard's handle is a lock the Track holds on the guard's substate, `MUTABLE` exactly for a `DataRefMut`;<br>• `LockAccounting`: every key's lock state is exactly what its outstanding handles imply, and every handle's substate exists;<br>• `RevertKeepsOnlyForceWrites`: after a revert, the view is the database plus the last force-written values;<br>• `GuardsSeeTheirSubstate`: while a blueprint runs, every live `DataRef` / `DataRefMut` sees the substate unchanged since it decoded it, until its own Write;<br>• `CommitKeepsGuestWrites`: a committed invocation commits every key with the value its last `DataRefMut` was dropped with;<br>• `TrackImplementsStore`: the Track refines `SubstateStore`. |
| track_set_after_failed_lock | `MCTrack_SetSubstateNeverPanics.cfg` | violation | A failed lock on an absent key, followed by `set_substate` on it, panics at track.rs:357. |
| track_scan_deleted | `MCTrack_ReadSortedNeverPanics.cfg` | violation | On a new node, `set_substate`, `delete_substate` and then `read_sorted_substates` panics at track.rs:427. |
| epoch_safety | `MCEpochManager.cfg` | pass | Checks six properties over both parts:<br>• `TypeOK`: round < rounds_per_epoch; `AccountTypeOK`: no vault goes below zero;<br>• `PreparingIsNextEpoch`;<br>• `EpochChangeInstallsPrepared`: rounds never go back, and the current set changes only when `next_round` installs the preparing set;<br>• `AssetsConserved`: every fungible's supply is split between the world and the vaults, and every non-fungible key is in exactly one place, also while a key loop runs and after it panics half-way;<br>• `OnlyOwnerWithdraws`: a step that takes anything from an account is a call with that account's badge. |
| epoch_s6 | `MCEpochManager_EpochAdvancesByOne.cfg` | violation | After `set_epoch(0)`, an epoch change jumps from 0 to 2. `next_round` takes the epoch from the preparing set, while spec S6 says epoch += 1. |
| auth_self_role | `MCAuthCheck_SelfRoleNonGlobal.cfg` | violation | A role list that reaches `SELF_ROLE` for a node that is not global panics in `GlobalAddress::new_or_panic` (authorization.rs:338). The FIXME at line 336 says this panic must be prevented. |
| auth_count_zero | `MCAuthCheck_CountZero.cfg` | violation | `CountOf(0, ..)` never authorizes, and it panics in a debug build. Spec §4.6 reads it as "at least 0". |
| tp_safety | `MCTransactionProcessor.cfg` | pass | Checks four properties over every manifest of up to 5 instructions:<br>• `TypeOK`;<br>• `Conservation`: vault, buckets and worktop always sum to the supply;<br>• `NamesAreExclusive`: the id maps and the auth zone never name a dead or shared bucket or proof;<br>• `NoResourceOutlivesTransaction`: a finished transaction leaves nothing after `auto_drop`. |
| tp_clear_auth_zone | `MCTransactionProcessor_ForgottenProofsDropped.cfg` | violation | `ClearAuthZone` forgets named proofs without dropping them (transaction_processor.rs:191). In the trace, a call returns a proof of the component's vault, `PopFromAuthZone` names it, and `ClearAuthZone` forgets the name while the proof lives on. |
| system_frames | `MCSystemFrames.cfg` | pass | Checks four properties over every sequence of creates, pushes, drops, persists, calls, returns and lock faults to depth 3, where hooks and schema checks may fail:<br>• `TypeOK`;<br>• `NoNodeOutlivesFrame`: every node is unborn, dropped, stored or owned by a live frame;<br>• `MoveHookSeesOwner`: a node's OnMove hook was last told the barrier flag, blueprint and direction of the frame the node is in now;<br>• `VirtualizedBeforeRetry`: a lock retried after `on_substate_lock_fault` finds its address global. |
| functions | `MCFunctions.cfg` | pass | Checks six properties, one or more per part:<br>• `DecodeMatchesGrammar`: for 15 nested types, with and without metadata, every encoding decodes to its value and length, every truncation fails with `Underflow`, and every corrupted decision byte fails with its `DecodeError`;<br>• `AddressCodecIsExact`: over every address, 4-byte slice and key pair, component and resource codecs round-trip, reject each other's bytes, and accept only what they re-encode;<br>• `VirtualAddressesAreDistinct`: virtual account and identity addresses never share bytes;<br>• `WalkMatchesReference`: over every stack of up to 4 zones, every acting location and every kind of evidence, the walk authorises exactly what §4.6 allows;<br>• `RuleMatchesReference`: every rule nested to depth 3 is authorized exactly when it holds, in debug and release builds;<br>• `RoleListMatchesReference`: a role list of a global object's role assignment authorizes exactly when some listed role (or the owner, for an undefined role) does. |
| sbor_canonical | `MCFunctions_DecodeIsCanonical.cfg` | violation | A map with a repeated key is accepted, so the bytes consumed are not the canonical encoding of the value. This is spec P7 failing at decode.rs:358. |

Each property of a passing run has a mutant in `PROJECT.json`. The mutant
is a plausible bug in the mapped code, and TLC finds the property violated
when it is substituted. The mutants are:
- Track:
  - an unlock that decrements a `Write` lock;
  - a lost lock copy;
  - `or_insert` for force updates;
  - a finalize arm that deletes `WriteOnly(Update)`.
- Epoch manager:
  - an off-by-one rollover;
  - a preparing epoch that is never bumped;
  - a missing `InvalidRoundUpdate` check.
- Authorization:
  - a local barrier that allows no crossing;
  - AllOf evaluated as AnyOf;
  - an undefined role denied instead of falling back to the owner.
- Transaction processor:
  - a take with no balance check;
  - an auto-move that skips buckets;
  - a push that keeps the manifest id;
  - an `auto_drop` whose first round drops nothing.
- System callbacks:
  - a call with no depth limit;
  - an `auto_drop` that skips round 2;
  - `after_pop_frame` telling the hook the popped actor;
  - `on_persist_node` accepting a reservation.
- SBOR: a map insert that keeps the first value of a key.
- Account: a `take` without its balance check; a revert that forgets the
  keys the loop already took; a badge check that accepts any badge.
- Addresses: a catch-all arm decoding Resource / Package bytes as a normal
  component; an Ed25519 identity derived as an account.
- Scrypto data guards: a `get` that keeps a guard for a refused lock;
  `try_lock` granting `MUTABLE` over read locks; a `DataRefMut` drop that
  skips its Write call.

### Bounds and why they suffice

`MCTrack` has these bounds:
- Two nodes: `n1` is in the database with substate `k1`. `n2` is absent, so it
  can be virtualized, written blindly or created fresh.
- One key per node. Keys are independent in every Track method; the only
  cross-key behaviour is the node-level `is_new` flag, which `n2` exercises.
- Two values, so a write is visible and two force writes can differ.
- Two lock handles, so two readers can share a key, or a reader and a writer
  conflict, and two force releases can happen in turn.

All 8 flag sets and all three virtualizer results are enumerated. The
`guest` part uses the same constants: `n1.k1` can be read, written and
re-entered (two handles are enough for a `DataRef` and a refused or, in a
mutant, granted `DataRefMut` on the same key), and `n2.k1` is absent, so a
`get` on it traps and the kernel reverts. The run
finds 150,200 distinct states (120 of them in the guest part) in about 35 s. A run with two keys per node
took more than 15 minutes and was stopped before it finished.

`MCEpochManager` has two addresses, two registrations, `RoundsPerEpoch = 2`,
round inputs `0..3` (at and beyond the epoch end) and epochs up to 4. That is
enough for two epoch changes, set_epoch to any value, and registrations
between changes. The address symmetry is sound because no method orders
addresses. Its `account` part has two accounts, one fungible of supply 2
and one non-fungible with keys {1, 2}: enough for a deposit into an
existing and a new vault, a batch of two buckets, a withdrawal by the
wrong badge, and a two-key withdrawal whose second key is missing after
the first was taken. The run reaches about 27,000 states in 8 s.

`MCFunctions`' walk part enumerates every stack of up to 4 zones. That
allows two barriers plus the zones before and after them. Every location
starts at most one crossing, so 4 zones reach every case of the counters.
That part is 1.68M states.

Its rule part (and `MCAuthCheck` in the violation run) uses:
- two resources;
- amounts and proof sizes 1..2;
- counts 1..2 (and 0..1 in the violation run);
- two role keys plus `SELF_ROLE`, for the role assignment of a global
  object (and, in the `auth_self_role` violation run, of a non-global node).

Two resources are enough for AllOf and AnyOf to differ and for the counter to
go past a match.

`MCTransactionProcessor` has one resource of supply 2, 3 manifest ids, 6
kernel nodes and 5 instructions. That is enough to take, prove, push, clear
and call, and to see a proof outlive its name. It reaches 25,878 states.

`MCFunctions`' sbor part has 15 types, with each composite nested over a scalar and a
composite. It uses U8 values {0,1,2}, one ASCII string byte, BadByte 200 (a
UTF-8 lead byte, so that it invalidates a string) and collections of up to 2
elements. Two map entries are enough for a repeated key and an out-of-order
pair. The `address` part uses `AddressHashLength = 2` (26 in the code: the
codecs treat every suffix byte alike, so two bytes already separate a
length off by one), suffix bytes {0,1}, all 13 entity ids plus one that is
no entity's, and two keys of different curves whose hashes collide, the
case where only the entity byte keeps a derived account and identity
apart. With the walk and rule parts, the run reaches 2,676,898 states in
about 60 s.

`MCSystemFrames` has two parts:
- The "calls" part has two proofs (each with OnMove and OnDrop hooks), a
  bucket (OnMove) and a vault. It calls a component function at a barrier
  and a vault method directly, below one, at most 3 frames deep. This
  covers a proof pushed to the auth zone and one owned by the frame, both
  dropped at the same return. It also covers a node moved down two frames
  and returned one at a time, and every hook failing at each of its points.
- The "virtual" part has a proof, a bucket, a virtual account address
  (OnVirtualize) and one reservation node. It adds a normal call of the
  direct-access method (`ReceiverNotMatch`), a missing function
  (`FnNotFound`), and failing input and output schema checks. A lock fault
  can happen at any depth below 3, so the hook frame can itself call and
  return the reservation.

A single reservation node means a nested fault on the same address cannot
allocate. The run reaches 943,512 states in about 100 s. With all six nodes
in one instance, it did not finish in 5 minutes.

### Fairness

No liveness property is stated, so no specification assumes fairness. The
instructions of a manifest are its author's choice and carry no fairness,
and nothing in the Track, the epoch manager or the callbacks schedules
itself: calls come from the kernel and from validators. That `auto_drop`
runs when `main` returns is the kernel's doing. The model takes it as the
step after `EndOfManifest`, and `NoResourceOutlivesTransaction` checks what
it leaves once it has run.

The following runs use `CHECK_DEADLOCK FALSE`, each because its final
states are real:
- `MCTrack`: `finalize` consumes the Track and a panic ends the process; a
  guest that returned or trapped is committed or reverted and stops.
- The authorization and SBOR / address checks evaluate one call that
  returns.
- The transaction processor: a transaction ends in `finished` or `failed`.
- `MCSystemFrames`: a transaction ends when the root frame ends or an error
  aborts it.

`MCEpochManager` checks deadlock: a validator can always call
`next_round`, and an account can always be called (a call that panics is a
step too).

## 4. Not modelled, and the plan

Modelled so far:
- the Track and its abstract store;
- the epoch manager;
- the transaction processor, with `auto_drop`;
- the system callbacks around call frames: `before_push_frame`,
  `after_pop_frame`, `invoke_upstream`'s checks, `on_drop_node`,
  `on_move_node`, `on_persist_node`, `on_substate_lock_fault` and
  `auto_drop`;
- the auth-zone walk and the rule, role and role-list checks;
- the SBOR decoder;
- the Account blueprint;
- the binary and hex address codecs and virtual address derivation;
- the Scrypto data guards of `data.rs`, composed with the Track.

At most 12 runs are kept. So a new question either replaces a weaker one or
joins an existing run.

Next, in order:
1. `SystemFrames` composed with `Track`: the lock retry after a fault, as
   a Track lock on the new substates.
2. The auth zone's own push/pop/clear with barriers, linking
   `TransactionProcessor`'s `authZone` to `AuthZoneWalk`'s stacks.
3. Liveness of `main` itself, if a bound on the manifest's instructions is
   made part of the model (the instructions are the author's choice).

Not modelled:
- `on_persist_node`'s blueprint-definition cache (it panics at :813 on a miss,
  and the cache is kernel code not under `src/`);
- the `SystemModuleMixer` delegations (system_callback.rs 97-370:
  costing, limits, auth, events), which forward to module state not under
  `src/`;
- `invoke_upstream`'s read of the blueprint's dependencies (a read-only open
  with a default, which changes nothing);
- the receiver check's reading of `RefTypes`. A normal call of a receiver
  declaring `NORMAL | DIRECT_ACCESS` is refused. This is one comparison,
  which `ReceiverMatches` keeps as written; it is listed as a hazard, and no
  property decides it;
- `check_name`, and the MaybeUninit memory handling of the array decode;
- in `data.rs`, a key-value entry holding `None` (`substate.0.unwrap()`
  traps) and the `Unsupported substate` panic of `DataRefMut::drop` for an
  offset other than a key-value entry or component state: the model's
  values are always present and its keys are component state; the Display
  impls are formatting;
- `EntityType` and its ids (not under `src/`, so the ids are a constant),
  the HRP strings and the Display / `contextual_format` of addresses;
- the identity blueprint (`blueprints/identity/package.rs`): export
  dispatch and `create`, which only builds and globalizes an access-rules
  object through kernel calls not under `src/`;
- the costing table (`costing_entry.rs`), which only dispatches to a fee
  table that is not under `src/`.

Out of TLC's reach or without state: the WASM interpreter, the costing
table, address and HRP formatting, schema types, tests, benches and the
resources tracker macro.
