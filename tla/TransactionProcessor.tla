------------------------- MODULE TransactionProcessor -------------------------
(***************************************************************************)
(* TransactionProcessor::main of                                           *)
(* src/radix-engine/src/model/transaction_processor.rs: one action per     *)
(* manifest instruction, run in manifest order.  The processor keeps two   *)
(* id maps, manifest id -> kernel id, for its buckets and its proofs, and  *)
(* calls the worktop, the auth zone, buckets, proofs and components.       *)
(*                                                                         *)
(* The worktop, the auth zone, the id allocator and ScryptoValue's         *)
(* replace_ids are not under src/; they are modelled from spec 4.5 / 4.7:  *)
(*   worktop    : an amount per resource; take fails if short, put merges  *)
(*   auth zone  : a stack of proofs; pop fails when empty, clear drops all *)
(*   allocator  : sequential manifest ids, IdAllocatorError when exhausted *)
(*   replace_ids: every id in an argument is looked up and moved out of    *)
(*                its map, a missing one is BucketNotFound / ProofNotFound *)
(* A component is one vault: it keeps the buckets passed to it, drops the  *)
(* proofs passed to it when its frame ends (spec 4.2), and returns a       *)
(* bucket withdrawn from the vault and / or a proof of it, or an error.    *)
(* An error in any instruction ends main with Err: phase "failed".         *)
(***************************************************************************)
EXTENDS Integers, Sequences, FiniteSets, Functions, TLC

CONSTANTS
    Res,          \* resource addresses
    Total,        \* [Res -> Nat]: each resource's supply, in the component's vault at start
    MaxIds,       \* manifest ids the allocator hands out
    MaxNodes,     \* kernel ids for buckets and proofs created in the transaction
    MaxSteps,     \* instructions in the manifest
    MaxAmount     \* largest amount an instruction names

ASSUME Total \in [Res -> Nat] /\ MaxIds \in Nat /\ MaxNodes \in Nat /\ MaxSteps \in Nat
ASSUME MaxAmount \in Nat

VARIABLES
    worktop,      \* resource -> amount on the worktop
    vault,        \* resource -> amount in the component's vault
    buckets,      \* live buckets of the processor frame: kernel id -> [res, amt]
    proofs,       \* live proofs of the processor frame or its auth zone: kernel id -> res
    authZone,     \* the auth zone's proof stack (kernel ids)
    bucketMap,    \* bucket_id_mapping: manifest id -> kernel id
    proofMap,     \* proof_id_mapping: manifest id -> kernel id
    nextId,       \* the id allocator's next manifest id
    nextNode,     \* next kernel id
    steps,        \* instructions run
    phase         \* "running", "done" (main returned Ok), "finished" (the frame
                  \* ended cleanly) or "failed" (an Err)

vars == <<worktop, vault, buckets, proofs, authZone, bucketMap, proofMap, nextId, nextNode, steps, phase>>

ManifestIds == 0 .. MaxIds - 1
All == -1   \* TakeFromWorktop (take_all) rather than an amount

\* f without key k: HashMap::remove.
Without(f, k) == Restrict(f, DOMAIN f \ {k})
\* f with k |-> v: HashMap::insert.
Put(f, k, v) == (k :> v) @@ f

Init ==
    /\ worktop = [r \in Res |-> 0]
    /\ vault = Total
    /\ buckets = <<>> /\ proofs = <<>> /\ authZone = <<>>
    /\ bucketMap = <<>> /\ proofMap = <<>>
    /\ nextId = 0 /\ nextNode = 1 /\ steps = 0
    /\ phase = "running"

(* Every instruction: main is running and the manifest has one more; its  *)
(* `?` on an Err stops main.                                               *)
Instruction == phase = "running" /\ steps < MaxSteps
Fail == phase' = "failed" /\ UNCHANGED <<worktop, vault, buckets, proofs, authZone, bucketMap, proofMap, nextId, nextNode, steps>>
Done == steps' = steps + 1 /\ UNCHANGED phase
\* id_allocator.new_bucket_id / new_proof_id, and a kernel id for the new node.
CanAllocate == nextId < MaxIds
NewNode == nextNode < MaxNodes

\* A mutant of the take that does not fail on a short worktop.
TakeFromWorktopUnchecked(r, a) ==
    LET amt == IF a = All THEN worktop[r] ELSE a IN
    /\ Instruction
    /\ IF ~CanAllocate THEN Fail
       ELSE /\ NewNode
            /\ buckets' = Put(buckets, nextNode, [res |-> r, amt |-> amt])
            /\ worktop' = [worktop EXCEPT ![r] = @ - amt]
            /\ bucketMap' = Put(bucketMap, nextId, nextNode)
            /\ nextId' = nextId + 1 /\ nextNode' = nextNode + 1
            /\ Done
            /\ UNCHANGED <<vault, proofs, authZone, proofMap>>

(* TakeFromWorktop / ByAmount / ByIds: allocate the manifest id, take into *)
(* a new bucket (all of the resource, or an amount that must be there),    *)
(* map the id to it.                                                        *)
TakeFromWorktop(r, a) ==
    LET amt == IF a = All THEN worktop[r] ELSE a IN
    /\ Instruction
    /\ IF ~CanAllocate \/ amt > worktop[r] THEN Fail
       ELSE /\ NewNode
            /\ buckets' = Put(buckets, nextNode, [res |-> r, amt |-> amt])
            /\ worktop' = [worktop EXCEPT ![r] = @ - amt]
            /\ bucketMap' = Put(bucketMap, nextId, nextNode)
            /\ nextId' = nextId + 1 /\ nextNode' = nextNode + 1
            /\ Done
            /\ UNCHANGED <<vault, proofs, authZone, proofMap>>

(* ReturnToWorktop: remove the manifest id, then put its bucket on the    *)
(* worktop; an unknown id is BucketNotFound.                                *)
ReturnToWorktop(m) ==
    /\ Instruction
    /\ IF m \notin DOMAIN bucketMap THEN Fail
       ELSE LET b == bucketMap[m] IN
            /\ bucketMap' = Without(bucketMap, m)
            /\ worktop' = [worktop EXCEPT ![buckets[b].res] = @ + buckets[b].amt]
            /\ buckets' = Without(buckets, b)
            /\ Done
            /\ UNCHANGED <<vault, proofs, authZone, proofMap, nextId, nextNode>>

\* AssertWorktopContains / ByAmount / ByIds: read-only, fails when short.
AssertWorktopContains(r, a) ==
    /\ Instruction
    /\ IF worktop[r] < a THEN Fail
       ELSE Done /\ UNCHANGED <<worktop, vault, buckets, proofs, authZone, bucketMap, proofMap, nextId, nextNode>>

(* PopFromAuthZone: allocate the manifest id, pop the top proof into the  *)
(* processor frame (an empty auth zone is an error), map the id to it.     *)
PopFromAuthZone ==
    /\ Instruction
    /\ IF ~CanAllocate \/ authZone = <<>> THEN Fail
       ELSE /\ proofMap' = Put(proofMap, nextId, authZone[Len(authZone)])
            /\ authZone' = SubSeq(authZone, 1, Len(authZone) - 1)
            /\ nextId' = nextId + 1
            /\ Done
            /\ UNCHANGED <<worktop, vault, buckets, proofs, bucketMap, nextNode>>

(* ClearAuthZone: forget every manifest proof id, then clear the auth     *)
(* zone, which drops the proofs on its stack.                              *)
ClearAuthZone ==
    /\ Instruction
    /\ proofMap' = <<>>
    /\ proofs' = Restrict(proofs, DOMAIN proofs \ Range(authZone))
    /\ authZone' = <<>>
    /\ Done
    /\ UNCHANGED <<worktop, vault, buckets, bucketMap, nextId, nextNode>>

\* A mutant of the push that reads the proof id with get instead of remove.
PushToAuthZoneKeepingId(m) ==
    /\ Instruction
    /\ IF m \notin DOMAIN proofMap THEN Fail
       ELSE /\ authZone' = Append(authZone, proofMap[m])
            /\ Done
            /\ UNCHANGED <<worktop, vault, buckets, proofs, bucketMap, proofMap, nextId, nextNode>>

(* PushToAuthZone: remove the manifest id (ProofNotFound if unknown) and  *)
(* push its proof.                                                          *)
PushToAuthZone(m) ==
    /\ Instruction
    /\ IF m \notin DOMAIN proofMap THEN Fail
       ELSE /\ proofMap' = Without(proofMap, m)
            /\ authZone' = Append(authZone, proofMap[m])
            /\ Done
            /\ UNCHANGED <<worktop, vault, buckets, proofs, bucketMap, nextId, nextNode>>

\* A new proof of resource r owned by the processor, named by the next manifest id.
NewProof(r) ==
    /\ NewNode
    /\ proofs' = Put(proofs, nextNode, r)
    /\ proofMap' = Put(proofMap, nextId, nextNode)
    /\ nextId' = nextId + 1 /\ nextNode' = nextNode + 1

(* CreateProofFromAuthZone / ByAmount / ByIds: allocate the manifest id,  *)
(* ask the auth zone for a proof of r (an error when its stack holds none), *)
(* map the id to the new proof.                                             *)
CreateProofFromAuthZone(r) ==
    /\ Instruction
    /\ IF ~CanAllocate \/ \A i \in DOMAIN authZone : proofs[authZone[i]] # r THEN Fail
       ELSE NewProof(r) /\ Done /\ UNCHANGED <<worktop, vault, buckets, authZone, bucketMap>>

(* CreateProofFromBucket: allocate the manifest id, look the bucket up    *)
(* (BucketNotFound, reported with the new id), create a proof of it; a     *)
(* proof of an empty bucket is refused (ProofError::EmptyProofNotAllowed). *)
CreateProofFromBucket(m) ==
    /\ Instruction
    /\ IF ~CanAllocate \/ m \notin DOMAIN bucketMap \/ buckets[bucketMap[m]].amt = 0 THEN Fail
       ELSE NewProof(buckets[bucketMap[m]].res) /\ Done
            /\ UNCHANGED <<worktop, vault, buckets, authZone, bucketMap>>

(* CloneProof: allocate the manifest id, look the proof up (ProofNotFound) *)
(* and map the id to its clone.                                             *)
CloneProof(m) ==
    /\ Instruction
    /\ IF ~CanAllocate \/ m \notin DOMAIN proofMap THEN Fail
       ELSE NewProof(proofs[proofMap[m]]) /\ Done
            /\ UNCHANGED <<worktop, vault, buckets, authZone, bucketMap>>

\* DropProof: remove the manifest id (ProofNotFound) and drop its proof.
DropProof(m) ==
    /\ Instruction
    /\ IF m \notin DOMAIN proofMap THEN Fail
       ELSE /\ proofMap' = Without(proofMap, m)
            /\ proofs' = Without(proofs, proofMap[m])
            /\ Done
            /\ UNCHANGED <<worktop, vault, buckets, authZone, bucketMap, nextId, nextNode>>


(***************************** calls **************************************)

\* What a callee returns: a bucket of amt (0: none) of res, and possibly a
\* proof of res; or CalleeError.
Returns == [res : Res, amt : 0 .. MaxAmount, proof : BOOLEAN]
CalleeError == [error |-> TRUE]

\* Per resource, what the buckets named by manifest ids ms hold.
Holding(ms, r) ==
    SumFunction([m \in {x \in ms : buckets[bucketMap[x]].res = r} |-> buckets[bucketMap[m]].amt])

\* The callee keeps what it was given and pays out ret from its vault; a
\* proof it returns is of a non-empty container (EmptyProofNotAllowed).
Callee(given, ret) ==
    /\ ret.amt <= vault[ret.res] + given[ret.res]
    /\ ret.proof => vault[ret.res] + given[ret.res] > 0
    /\ vault' = [r \in Res |-> vault[r] + given[r] - IF r = ret.res THEN ret.amt ELSE 0]

\* A mutant of the auto-move that pushes the returned proof but never puts
\* the returned bucket on the worktop.
AutoMoveSkippingBuckets(ret, keptProofs) ==
    /\ worktop' = worktop
    /\ IF ret.proof /\ NewNode
       THEN /\ proofs' = Put(keptProofs, nextNode, ret.res)
            /\ authZone' = Append(authZone, nextNode)
            /\ nextNode' = nextNode + 1
       ELSE proofs' = keptProofs /\ UNCHANGED <<authZone, nextNode>>

(* The auto-move after CallFunction / CallMethod: push every returned      *)
(* proof onto the auth zone, then put every returned bucket on the         *)
(* worktop.  A returned proof needs a kernel id; without one the callee    *)
(* returns none.                                                            *)
AutoMove(ret, keptProofs) ==
    /\ worktop' = [worktop EXCEPT ![ret.res] = @ + ret.amt]
    /\ IF ret.proof /\ NewNode
       THEN /\ proofs' = Put(keptProofs, nextNode, ret.res)
            /\ authZone' = Append(authZone, nextNode)
            /\ nextNode' = nextNode + 1
       ELSE proofs' = keptProofs /\ UNCHANGED <<authZone, nextNode>>

(* CallFunction / CallMethod: replace_ids moves the buckets bs and proofs  *)
(* ps named in the argument out of the maps (an unknown id is an error),   *)
(* the callee runs, and what it returns is auto-moved.  The proofs passed  *)
(* are dropped when the callee's frame ends.                               *)
Call(bs, ps, ret) ==
    /\ Instruction
    /\ IF ~(bs \subseteq DOMAIN bucketMap /\ ps \subseteq DOMAIN proofMap) \/ ret = CalleeError
       THEN Fail
       ELSE LET given == [r \in Res |-> Holding(bs, r)] IN
            /\ Callee(given, ret)
            /\ buckets' = Restrict(buckets, DOMAIN buckets \ {bucketMap[m] : m \in bs})
            /\ bucketMap' = Restrict(bucketMap, DOMAIN bucketMap \ bs)
            /\ proofMap' = Restrict(proofMap, DOMAIN proofMap \ ps)
            /\ AutoMove(ret, Restrict(proofs, DOMAIN proofs \ {proofMap[m] : m \in ps}))
            /\ Done
            /\ UNCHANGED nextId

(* CallMethodWithAllResources: clear the auth zone (dropping its proofs),  *)
(* drop every proof the proof map names and empty it, drain the worktop,   *)
(* and pass those buckets and every bucket the bucket map names, emptying  *)
(* it.  What the callee returns stays in the processor frame: this arm has *)
(* no auto-move.                                                            *)
CallMethodWithAllResources(ret) ==
    /\ Instruction
    /\ IF ret = CalleeError THEN Fail
       ELSE LET given == [r \in Res |-> worktop[r] + Holding(DOMAIN bucketMap, r)]
                kept == Restrict(proofs, DOMAIN proofs \ (Range(authZone) \cup Range(proofMap)))
                returnsBucket == ret.amt > 0 /\ NewNode
                retBucketId == nextNode
                retProofId == IF returnsBucket THEN nextNode + 1 ELSE nextNode
                returnsProof == ret.proof /\ retProofId < MaxNodes
            IN
            /\ Callee(given, [ret EXCEPT !.amt = IF returnsBucket THEN @ ELSE 0])
            /\ authZone' = <<>>
            /\ proofMap' = <<>>
            /\ worktop' = [r \in Res |-> 0]
            /\ bucketMap' = <<>>
            /\ buckets' = IF returnsBucket
                          THEN retBucketId :> [res |-> ret.res, amt |-> ret.amt]
                               @@ Restrict(buckets, DOMAIN buckets \ Range(bucketMap))
                          ELSE Restrict(buckets, DOMAIN buckets \ Range(bucketMap))
            /\ proofs' = IF returnsProof THEN Put(kept, retProofId, ret.res) ELSE kept
            /\ nextNode' = nextNode + (IF returnsBucket THEN 1 ELSE 0) + (IF returnsProof THEN 1 ELSE 0)
            /\ Done
            /\ UNCHANGED nextId

(* PublishPackage: decoding the package fails with InvalidPackage, else    *)
(* the package is published; no bucket or proof is touched.                 *)
PublishPackage(decodes) ==
    /\ Instruction
    /\ IF ~decodes THEN Fail
       ELSE Done /\ UNCHANGED <<worktop, vault, buckets, proofs, authZone, bucketMap, proofMap, nextId, nextNode>>

\* main returns Ok after the last instruction.
EndOfManifest ==
    /\ phase = "running"
    /\ phase' = "done"
    /\ UNCHANGED <<worktop, vault, buckets, proofs, authZone, bucketMap, proofMap, nextId, nextNode, steps>>

(************************** end of the frame *****************************)
(* When main returns, the kernel auto-drops the frame's nodes             *)
(* (SystemConfig::auto_drop in src/radix-engine/src/system/               *)
(* system_callback.rs) and then checks for dangling nodes (spec 4.2: a    *)
(* dangling bucket is fatal), and the worktop must be empty (spec 4.7).   *)

\* A mutant of round 1 that drops none of the frame's own proofs.
DropOwnedProofsNone(ps) == ps

\* Round 1: drop every proof among the frame's owned nodes; the auth zone's
\* proofs are owned by the auth zone node, not the frame.
DropOwnedProofs(ps) == Restrict(ps, DOMAIN ps \cap Range(authZone))

\* Round 2: detach the auth zone's proofs, drop each, then drop the auth zone.
DropAuthZoneProofs(ps) == Restrict(ps, DOMAIN ps \ Range(authZone))

AutoDrop ==
    /\ phase = "done"
    /\ proofs' = DropAuthZoneProofs(DropOwnedProofs(proofs))
    /\ authZone' = <<>>
    /\ bucketMap' = <<>> /\ proofMap' = <<>>   \* the processor is gone with main
    /\ phase' = IF buckets = <<>> /\ \A r \in Res : worktop[r] = 0 THEN "finished" ELSE "failed"
    /\ UNCHANGED <<worktop, vault, buckets, nextId, nextNode, steps>>

\* Argument id sets: no id, or one.
ArgIds == {{}} \cup {{m} : m \in ManifestIds}

Next ==
    \/ \E r \in Res, a \in {All} \cup 1 .. MaxAmount : TakeFromWorktop(r, a)
    \/ \E m \in ManifestIds :
          \/ ReturnToWorktop(m) \/ PushToAuthZone(m) \/ CreateProofFromBucket(m)
          \/ CloneProof(m) \/ DropProof(m)
    \/ \E r \in Res, a \in 1 .. MaxAmount : AssertWorktopContains(r, a)
    \/ PopFromAuthZone
    \/ ClearAuthZone
    \/ \E r \in Res : CreateProofFromAuthZone(r)
    \/ \E bs, ps \in ArgIds, ret \in Returns \cup {CalleeError} : Call(bs, ps, ret)
    \/ \E ret \in Returns \cup {CalleeError} : CallMethodWithAllResources(ret)
    \/ \E decodes \in BOOLEAN : PublishPackage(decodes)
    \/ EndOfManifest
    \/ AutoDrop

Spec == Init /\ [][Next]_vars



(******************************* properties *******************************)

TypeOK ==
    /\ worktop \in [Res -> Nat] /\ vault \in [Res -> Nat]
    /\ DOMAIN buckets \subseteq 1 .. MaxNodes
    /\ \A b \in DOMAIN buckets : buckets[b] \in [res : Res, amt : Nat]
    /\ DOMAIN proofs \subseteq 1 .. MaxNodes /\ Range(proofs) \subseteq Res
    /\ authZone \in Seq(1 .. MaxNodes)
    /\ DOMAIN bucketMap \subseteq ManifestIds /\ DOMAIN proofMap \subseteq ManifestIds
    /\ nextId \in 0 .. MaxIds /\ nextNode \in 1 .. MaxNodes /\ steps \in 0 .. MaxSteps
    /\ phase \in {"running", "done", "finished", "failed"}

\* The amount of r the processor frame holds in buckets.
InBuckets(r) == SumFunction([b \in {x \in DOMAIN buckets : buckets[x].res = r} |-> buckets[b].amt])

(* Spec P1, conservation: through takes, returns, calls and the            *)
(* all-resources call, each resource's supply is always split between the  *)
(* worktop, the processor's buckets and the component's vault.              *)
Conservation ==
    \A r \in Res : worktop[r] + InBuckets(r) + vault[r] = Total[r]

(* Spec P2: a transaction that finishes leaves no bucket or proof behind: *)
(* auto_drop's first round drops the proofs the processor frame still owns *)
(* (including those ClearAuthZone left without a manifest id), the second  *)
(* those on the auth zone, and a leftover bucket fails the transaction.    *)
NoResourceOutlivesTransaction ==
    phase = "finished" => DOMAIN proofs = {} /\ DOMAIN buckets = {} /\ authZone = <<>>

\* s has no repeated element.
Distinct(s) == \A i, j \in DOMAIN s : s[i] = s[j] => i = j

(* No double spend through the id maps: every manifest id names a live     *)
(* bucket or proof, no two ids name the same one, and a proof is never     *)
(* both named by the manifest and on the auth zone, nor twice on it.       *)
NamesAreExclusive ==
    /\ Range(bucketMap) \subseteq DOMAIN buckets /\ IsInjective(bucketMap)
    /\ Range(proofMap) \subseteq DOMAIN proofs /\ IsInjective(proofMap)
    /\ Range(authZone) \subseteq DOMAIN proofs /\ Distinct(authZone)
    /\ Range(proofMap) \cap Range(authZone) = {}

(* Every proof whose manifest id goes away is dropped, pushed onto the     *)
(* auth zone or moved to a callee: the manifest can always still drop the  *)
(* proofs of the processor frame, which lock their buckets.                *)
ForgottenProofsDropped ==
    [][\A m \in DOMAIN proofMap :
          m \notin DOMAIN proofMap' =>
             proofMap[m] \notin DOMAIN proofs' \/ proofMap[m] \in Range(authZone')]_vars

=============================================================================
