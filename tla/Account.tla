------------------------------- MODULE Account -------------------------------
(***************************************************************************)
(* The Account blueprint of src/assets/account/src/lib.rs: a component     *)
(* with a public key and a LazyMap from resource definition to Vault.     *)
(* deposit puts a bucket into the resource's vault, creating the vault on  *)
(* first use; every withdrawal first checks the caller's ECDSA_TOKEN badge *)
(* against the account's key, then takes from the vault.                   *)
(*                                                                         *)
(* Vault, Bucket, BucketRef and LazyMap are not under src/ and follow the  *)
(* spec: a fungible vault holds an amount and take panics when it is       *)
(* short; a non-fungible vault holds a set of keys and take_non_fungible   *)
(* panics on a key it lacks.  Each call is a transaction: a panic aborts   *)
(* it and the Track's revert (spec 4.8) undoes what it did.  The world     *)
(* holds every resource that is in no account; the badge a caller         *)
(* presents is the account it signs for, or Nobody.                        *)
(***************************************************************************)
EXTENDS Integers, FiniteSets, FiniteSetsExt, Functions, SequencesExt

CONSTANTS
    Accounts,     \* component addresses, each with its own public key
    Fungibles,    \* fungible resource definitions
    NFRes,        \* a non-fungible resource definition
    NFKeys,       \* its non-fungible keys (a BTreeSet iterates them in order)
    Supply,       \* [Fungibles -> Nat]: each fungible's supply, all in the world at start
    Nobody,       \* a caller with no ECDSA_TOKEN badge of any account
    NoVault,      \* LazyMap::get returned None
    NoCall        \* no withdraw_non_fungibles loop in progress

ASSUME Supply \in [Fungibles -> Nat] /\ NFKeys \subseteq Nat

VARIABLES
    accounts,     \* address -> [bal : fungible -> amount | NoVault, nfs : keys | NoVault], or NoVault before new
    world,        \* [bal, nfs]: what is in no account
    call,         \* the withdraw_non_fungibles loop: [acct, todo, taken, signer, auth] or NoCall
    caller        \* history: the badge presented by the last call, Nobody for deposits

accountVars == <<accounts, world, call, caller>>

Signers == Accounts \cup {Nobody}
Res == Fungibles \cup {NFRes}
Holding == [bal : [Fungibles -> Nat \cup {NoVault}], nfs : SUBSET NFKeys \cup {NoVault}]
Bucket == [res : Res, amt : Nat, keys : SUBSET NFKeys]

\* LazyMap::new: no vault for any resource.
EmptyHolding == [bal |-> [r \in Fungibles |-> NoVault], nfs |-> NoVault]

AccountInit ==
    /\ accounts = [a \in Accounts |-> NoVault]
    /\ world = [bal |-> Supply, nfs |-> NFKeys]
    /\ call = NoCall
    /\ caller = Nobody

\* Calls run one transaction at a time.
Idle == call = NoCall

\* The buckets a caller can pass: any part of what the world holds.
WorldBuckets ==
    UNION {{[res |-> r, amt |-> n, keys |-> {}] : n \in 0 .. world.bal[r]} : r \in Fungibles}
      \cup {[res |-> NFRes, amt |-> 0, keys |-> ks] : ks \in SUBSET world.nfs}

\* The world after a bucket leaves it.
Spent(w, b) ==
    IF b.res = NFRes THEN [w EXCEPT !.nfs = @ \ b.keys]
    ELSE [w EXCEPT !.bal[b.res] = @ - b.amt]

(* deposit: vaults.get(resource); Some(v) => v.put(bucket), None =>        *)
(* vaults.insert(resource, Vault::with_bucket(bucket)).                    *)
Deposited(h, b) ==
    IF b.res = NFRes
    THEN [h EXCEPT !.nfs = IF @ = NoVault THEN b.keys ELSE @ \cup b.keys]
    ELSE [h EXCEPT !.bal[b.res] = IF @ = NoVault THEN b.amt ELSE @ + b.amt]

\* Account::new: instantiate with an empty LazyMap.
New(a) ==
    /\ Idle
    /\ accounts[a] = NoVault
    /\ accounts' = [accounts EXCEPT ![a] = EmptyHolding]
    /\ caller' = Nobody
    /\ UNCHANGED <<world, call>>

\* Account::with_bucket: instantiate with one vault holding the bucket.
WithBucket(a, b) ==
    /\ Idle
    /\ accounts[a] = NoVault
    /\ accounts' = [accounts EXCEPT ![a] = Deposited(EmptyHolding, b)]
    /\ world' = Spent(world, b)
    /\ caller' = Nobody
    /\ UNCHANGED call

\* deposit_batch: deposit every bucket of the Vec in turn.
DepositBatch(a, bs) ==
    /\ Idle
    /\ accounts[a] # NoVault
    /\ accounts' = [accounts EXCEPT ![a] = FoldLeft(Deposited, @, bs)]
    /\ world' = FoldLeft(Spent, world, bs)
    /\ caller' = Nobody
    /\ UNCHANGED call

\* A mutant of check_non_fungible_key that accepts any badge.
OwnerCheckAnyBadge(a, signer) == TRUE

(* account_auth.check_non_fungible_key(ECDSA_TOKEN, |key| key ==           *)
(* &self.non_fungible_key()): the badge must hold this account's key.      *)
OwnerCheck(a, signer) == signer = a

\* A mutant of Vault::take without its balance check.
CanTakeUnchecked(h, r, amt) == h.bal[r] # NoVault

\* Vault::take: the vault exists (else "Insufficient balance") and holds amt.
CanTake(h, r, amt) == h.bal[r] # NoVault /\ amt =< h.bal[r]

(* withdraw / withdraw_with_auth: the owner check, the vault lookup and    *)
(* the take; a panic in any of them aborts the call and changes nothing.   *)
(* withdraw_with_auth's take_with_auth also panics unless the auth badge   *)
(* satisfies the resource's withdraw rule (auth).                          *)
Withdraw(a, r, amt, signer, auth) ==
    LET h == accounts[a] IN
    /\ Idle
    /\ h # NoVault
    /\ caller' = signer
    /\ UNCHANGED call
    /\ IF OwnerCheck(a, signer) /\ CanTake(h, r, amt) /\ auth
       THEN /\ accounts' = [accounts EXCEPT ![a].bal[r] = @ - amt]
            /\ world' = [world EXCEPT !.bal[r] = @ + amt]
       ELSE UNCHANGED <<accounts, world>>

(* withdraw_non_fungibles(_with_auth), entry: the owner check and the      *)
(* vault lookup, then a new empty bucket and the loop over the keys.       *)
StartWithdrawNonFungibles(a, keys, signer, auth) ==
    /\ Idle
    /\ accounts[a] # NoVault
    /\ caller' = signer
    /\ IF OwnerCheck(a, signer) /\ accounts[a].nfs # NoVault
       THEN call' = [acct |-> a, todo |-> keys, taken |-> {}, signer |-> signer, auth |-> auth]
       ELSE UNCHANGED call
    /\ UNCHANGED <<accounts, world>>

\* A mutant of the abort that drops the bucket the loop filled.
AbortLosingTaken(c) == accounts

\* The transaction's revert: the keys the loop took go back to the vault.
AbortRestoring(c) == [accounts EXCEPT ![c.acct].nfs = @ \cup c.taken]

(* One turn of the loop: bucket.put(vault.take_non_fungible(&key)) for the *)
(* smallest key left; a key the vault lacks (or, with auth, a clone of a   *)
(* badge the rule refuses) panics, and the call is reverted.               *)
TakeNonFungible ==
    LET c == call
        k == Min(c.todo)
    IN
    /\ c # NoCall
    /\ c.todo # {}
    /\ caller' = c.signer
    /\ IF k \in accounts[c.acct].nfs /\ c.auth
       THEN /\ accounts' = [accounts EXCEPT ![c.acct].nfs = @ \ {k}]
            /\ call' = [c EXCEPT !.todo = @ \ {k}, !.taken = @ \cup {k}]
       ELSE /\ accounts' = AbortRestoring(c)
            /\ call' = NoCall
    /\ UNCHANGED world

\* The loop is over: the bucket is returned to the caller.
FinishWithdrawNonFungibles ==
    /\ call # NoCall
    /\ call.todo = {}
    /\ world' = [world EXCEPT !.nfs = @ \cup call.taken]
    /\ call' = NoCall
    /\ caller' = call.signer
    /\ UNCHANGED accounts

\* Two buckets the world can fill at once: their amounts fit, their keys differ.
Affordable(b1, b2) ==
    /\ \A r \in Fungibles :
          (IF b1.res = r THEN b1.amt ELSE 0) + (IF b2.res = r THEN b2.amt ELSE 0) =< world.bal[r]
    /\ b1.keys \cap b2.keys = {}

\* The Vec<Bucket> of deposit_batch: one or two buckets.
Batches ==
    {<<b>> : b \in WorldBuckets}
      \cup {p \in {<<b1, b2>> : b1, b2 \in WorldBuckets} : Affordable(p[1], p[2])}

AccountNext ==
    \/ \E a \in Accounts : New(a)
    \/ \E a \in Accounts, b \in WorldBuckets : WithBucket(a, b)
    \/ \E a \in Accounts, bs \in Batches : DepositBatch(a, bs)
    \/ \E a \in Accounts, r \in Fungibles, s \in Signers, auth \in BOOLEAN :
        \E amt \in 0 .. Supply[r] : Withdraw(a, r, amt, s, auth)
    \/ \E a \in Accounts, ks \in SUBSET NFKeys, s \in Signers, auth \in BOOLEAN :
          StartWithdrawNonFungibles(a, ks, s, auth)
    \/ TakeNonFungible
    \/ FinishWithdrawNonFungibles

AccountSpec == AccountInit /\ [][AccountNext]_accountVars

(******************************* properties *******************************)

(* Every vault balance is a natural number: a take never leaves a vault    *)
(* short, and the loop's bucket only holds keys of the resource.           *)
AccountTypeOK ==
    /\ \A a \in Accounts : accounts[a] \in Holding \cup {NoVault}
    /\ world \in [bal : [Fungibles -> Nat], nfs : SUBSET NFKeys]
    /\ call = NoCall \/ call.taken \subseteq NFKeys
    /\ caller \in Signers

Created == {a \in Accounts : accounts[a] # NoVault}
Amount(a, r) == IF accounts[a].bal[r] = NoVault THEN 0 ELSE accounts[a].bal[r]
Keys(a) == IF accounts[a].nfs = NoVault THEN {} ELSE accounts[a].nfs
InFlight == IF call = NoCall THEN {} ELSE call.taken

(* Resources are conserved by deposit, deposit_batch and the withdrawals,  *)
(* a withdraw_non_fungibles that panics half-way included: every fungible's *)
(* supply is split between the world and the accounts' vaults, and every   *)
(* non-fungible key is in exactly one place: the world, one vault, or the  *)
(* bucket of the loop in progress.                                         *)
AssetsConserved ==
    /\ \A r \in Fungibles :
          world.bal[r] + SumFunction([a \in Created |-> Amount(a, r)]) = Supply[r]
    /\ \A k \in NFKeys :
          Cardinality({a \in Created : k \in Keys(a)}) + (IF k \in world.nfs THEN 1 ELSE 0)
            + (IF k \in InFlight THEN 1 ELSE 0) = 1

\* What an account holds, vault by vault.
Holds(a, r) == IF r = NFRes THEN Keys(a) ELSE 0 .. Amount(a, r) - 1

(* Only an account's owner takes from it (the ECDSA_TOKEN check of every    *)
(* withdraw method): a step that lessens what an account holds of any       *)
(* resource, other than a revert, is a call whose badge is that account's. *)
OnlyOwnerWithdraws ==
    [][\A a \in Created, r \in Res :
          ~(Holds(a, r) \subseteq Holds(a, r)') => caller' = a]_accountVars
=============================================================================
