--------------------------- MODULE MCSystemFrames ---------------------------
(***************************************************************************)
(* SystemFrames in two instances, checked in one run (part picks one):     *)
(*   - "calls": two proofs, a bucket and a vault, passed through calls and *)
(*     returns at and below a barrier, three frames deep;                  *)
(*   - "virtual": a proof, a bucket, a virtual account address and a       *)
(*     global address reservation for it, so that a lock fault runs the    *)
(*     account's OnVirtualize hook at any depth.                           *)
(* The callees: a component function and a vault method with a            *)
(* direct-access receiver called directly; the "virtual" part also calls   *)
(* that method normally, and a missing function, and lets schema checks   *)
(* fail; hooks may fail in both.                                           *)
(***************************************************************************)
EXTENDS TLC

CONSTANTS p1, p2, bucket, vault, acct, res
CONSTANTS ProofBp, AuthZoneBp, BucketBp, VaultBp, ComponentBp, AccountBp, NoBp, NoNode, MaxDepth

VARIABLES part, frames, owner, zone, seen, addressOf, retried, status

MCBlueprints == {ProofBp, BucketBp, VaultBp, AuthZoneBp, ComponentBp, AccountBp}
MCTypeOf ==
    (p1 :> ProofBp) @@ (p2 :> ProofBp) @@ (bucket :> BucketBp) @@ (vault :> VaultBp)
      @@ (acct :> AccountBp) @@ (res :> "GlobalAddressReservation")
\* Proofs, buckets and auth zones are transient; vaults, components and accounts persist.
MCTransient == [b \in MCBlueprints |-> b \in {ProofBp, BucketBp, AuthZoneBp}]
MCHookExports ==
    (ProofBp :> {"OnDrop", "OnMove"}) @@ (BucketBp :> {"OnMove"}) @@ (VaultBp :> {})
      @@ (AuthZoneBp :> {"OnDrop"}) @@ (ComponentBp :> {}) @@ (AccountBp :> {"OnVirtualize"})
MCIdents == {"new", "recall"}
\* A component function "new", and a vault method "recall" whose receiver
\* takes NORMAL and DIRECT_ACCESS references.
MCInterface ==
    [b \in MCBlueprints |->
        [f \in MCIdents |->
            [fn |-> \/ b = ComponentBp /\ f = "new"
                    \/ b = VaultBp /\ f = "recall",
             receiver |-> b = VaultBp,
             refTypes |-> IF b = VaultBp THEN {"NORMAL", "DIRECT_ACCESS"} ELSE {}]]]
\* The calls that pass invoke_upstream's checks ...
GoodCallees ==
    {[bp |-> ComponentBp, ident |-> "new", node |-> FALSE, direct |-> FALSE, barrier |-> TRUE],
     [bp |-> VaultBp, ident |-> "recall", node |-> TRUE, direct |-> TRUE, barrier |-> FALSE]}
\* ... and with them a normal call of the vault method and a missing function.
MCCallees ==
    GoodCallees \cup
    {[bp |-> VaultBp, ident |-> "recall", node |-> TRUE, direct |-> FALSE, barrier |-> FALSE],
     [bp |-> ComponentBp, ident |-> "recall", node |-> TRUE, direct |-> FALSE, barrier |-> TRUE]}

CallNodes == {p1, p2, bucket, vault}
VirtualNodes == {p1, bucket, acct, res}

Calls == INSTANCE SystemFrames WITH
    Nodes <- CallNodes, Blueprints <- MCBlueprints, TypeOf <- [n \in CallNodes |-> MCTypeOf[n]],
    Transient <- MCTransient, HookExports <- MCHookExports, Idents <- MCIdents,
    Interface <- MCInterface, Callees <- GoodCallees, Virtual <- {},
    Faults <- {"none", "hook"}
Virt == INSTANCE SystemFrames WITH
    Nodes <- VirtualNodes, Blueprints <- MCBlueprints, TypeOf <- [n \in VirtualNodes |-> MCTypeOf[n]],
    Transient <- MCTransient, HookExports <- MCHookExports, Idents <- MCIdents,
    Interface <- MCInterface, Callees <- MCCallees, Virtual <- {acct},
    Faults <- {"none", "hook", "input", "output"}

frameVars == <<frames, owner, zone, seen, addressOf, retried, status>>

Init ==
    \/ part = "calls" /\ Calls!Init
    \/ part = "virtual" /\ Virt!Init

Next ==
    \/ part = "calls" /\ Calls!Next /\ UNCHANGED part
    \/ part = "virtual" /\ Virt!Next /\ UNCHANGED part

Spec == Init /\ [][Next]_<<part, frameVars>>

TypeOK == IF part = "calls" THEN Calls!TypeOK ELSE Virt!TypeOK

(* No node outlives the frame that owns it (SystemFrames). *)
NoNodeOutlivesFrame == IF part = "calls" THEN Calls!NoNodeOutlivesFrame ELSE Virt!NoNodeOutlivesFrame

(* Every OnMove hook was last told the frame its node is in (SystemFrames). *)
MoveHookSeesOwner == IF part = "calls" THEN Calls!MoveHookSeesOwner ELSE Virt!MoveHookSeesOwner

(* A lock retried after on_substate_lock_fault finds its virtual address   *)
(* global (SystemFrames).                                                   *)
VirtualizedBeforeRetry == Virt!VirtualizedBeforeRetry
=============================================================================
