--------------------------- MODULE MCEpochManager ---------------------------
(***************************************************************************)
(* The two blueprints for TLC, as two parts of one run.                   *)
(* "epoch": EpochManager with two validator addresses, two registrations, *)
(* two rounds per epoch, round numbers up to one past the epoch length so *)
(* next_round sees both a round at and one beyond rounds_per_epoch.       *)
(* "account": Account with two accounts, one fungible resource of supply  *)
(* 2 and one non-fungible resource with two keys.                          *)
(***************************************************************************)
EXTENDS EpochManager, Account, TLC

CONSTANTS a1, a2, i1, i2, c1, c2, xrd, nfr

VARIABLE part

\* Validator addresses are interchangeable: no method orders them.
Symmetry == Permutations(Addresses)

MCSupply == [r \in {xrd} |-> 2]

MCInit == part \in {"epoch", "account"} /\ Init /\ AccountInit

MCNext ==
    \/ part = "epoch" /\ Next /\ UNCHANGED <<part, accountVars>>
    \/ part = "account" /\ AccountNext /\ UNCHANGED <<part, vars>>

MCSpec == MCInit /\ [][MCNext]_<<part, vars, accountVars>>
=============================================================================
