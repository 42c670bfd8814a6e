---------------------------- MODULE EpochManager ----------------------------
(***************************************************************************)
(* The epoch manager blueprint of                                          *)
(* src/radix-engine/src/blueprints/epoch_manager/epoch_manager.rs.         *)
(*                                                                         *)
(* Its node holds three substates: the EpochManagerSubstate (epoch, round, *)
(* rounds_per_epoch), the current validator set and the preparing          *)
(* validator set, each a validator map with an epoch.  Every method runs   *)
(* as one invocation holding its substate locks, so each is one atomic     *)
(* step here; a method that returns an error changes nothing.  A validator *)
(* map is a function from validator addresses to the registered            *)
(* (key, stake), or NoValidator.                                           *)
(***************************************************************************)
EXTENDS Naturals

CONSTANTS
    Addresses,        \* validator component addresses
    ValidatorInfos,   \* (key, stake) pairs a validator is registered with
    NoValidator,      \* marks an address absent from a validator map
    InitialEpoch,     \* EpochManagerCreateInput.initial_epoch
    RoundsPerEpoch,   \* EpochManagerCreateInput.rounds_per_epoch
    MaxRound,         \* bound on the round numbers submitted to next_round
    MaxEpoch          \* bound on epochs (a u64 in the code)

ASSUME InitialEpoch \in Nat /\ RoundsPerEpoch \in Nat \ {0}
ASSUME MaxRound >= RoundsPerEpoch /\ MaxEpoch > InitialEpoch + 1

VARIABLES
    epoch,            \* EpochManagerSubstate.epoch
    round,            \* EpochManagerSubstate.round
    current,          \* CurrentValidatorSet substate: [validators, epoch]
    preparing         \* PreparingValidatorSet substate: [validators, epoch]

vars == <<epoch, round, current, preparing>>

ValidatorMap == [Addresses -> ValidatorInfos \cup {NoValidator}]
\* UpdateValidator::Register(key, stake) and UpdateValidator::Unregister.
Updates == [kind : {"Register"}, info : ValidatorInfos] \cup {[kind |-> "Unregister", info |-> NoValidator]}

(* create: epoch = initial_epoch, round 0; both sets start as the genesis   *)
(* validators, the current one at initial_epoch, the preparing one at       *)
(* initial_epoch + 1.                                                       *)
Init ==
    \E genesis \in ValidatorMap :
        /\ epoch = InitialEpoch
        /\ round = 0
        /\ current = [validators |-> genesis, epoch |-> InitialEpoch]
        /\ preparing = [validators |-> genesis, epoch |-> InitialEpoch + 1]

\* A mutant of the rollover check off by one.
RolloverDuePastEnd(r) == r > RoundsPerEpoch

\* next_round's check that switches to the next epoch.
RolloverDue(r) == r >= RoundsPerEpoch

(* next_round, rollover branch: lock the preparing set, take its epoch as  *)
(* prepared_epoch and bump it, set epoch := prepared_epoch and round := 0, *)
(* then install the preparing validators as the current set at             *)
(* prepared_epoch.                                                          *)
EndEpochKeepingPreparingEpoch ==
    LET prepared_epoch == preparing.epoch IN
    /\ epoch' = prepared_epoch
    /\ round' = 0
    /\ current' = [validators |-> preparing.validators, epoch |-> prepared_epoch]
    /\ UNCHANGED preparing

EndEpoch ==
    LET prepared_epoch == preparing.epoch IN
    /\ prepared_epoch < MaxEpoch
    /\ preparing' = [preparing EXCEPT !.epoch = prepared_epoch + 1]
    /\ epoch' = prepared_epoch
    /\ round' = 0
    /\ current' = [validators |-> preparing.validators, epoch |-> prepared_epoch]

\* A mutant of next_round without the InvalidRoundUpdate check.
NextRoundUnchecked(r) ==
    IF RolloverDue(r) THEN EndEpoch
    ELSE round' = r /\ UNCHANGED <<epoch, current, preparing>>

(* next_round: a round not above the current one is InvalidRoundUpdate; a  *)
(* round at or past rounds_per_epoch ends the epoch; any other becomes the *)
(* round.                                                                   *)
NextRound(r) ==
    /\ r > round
    /\ IF RolloverDue(r) THEN EndEpoch
       ELSE round' = r /\ UNCHANGED <<epoch, current, preparing>>

(* set_epoch (system role, "only used for debugging"): overwrite the epoch *)
(* and nothing else.                                                        *)
SetEpoch(e) ==
    /\ epoch' = e
    /\ UNCHANGED <<round, current, preparing>>

(* update_validator: Register inserts (or replaces) the validator in the   *)
(* preparing set, Unregister removes it.                                    *)
UpdateValidator(addr, update) ==
    /\ preparing' = [preparing EXCEPT !.validators[addr] =
                        IF update.kind = "Register" THEN update.info ELSE NoValidator]
    /\ UNCHANGED <<epoch, round, current>>

Next ==
    \/ \E r \in 0 .. MaxRound : NextRound(r)
    \/ \E e \in 0 .. MaxEpoch : SetEpoch(e)
    \/ \E a \in Addresses, u \in Updates : UpdateValidator(a, u)

Spec == Init /\ [][Next]_vars

(******************************* properties *******************************)

(* Types, with the round inside its epoch: next_round's rollover check      *)
(* keeps round below rounds_per_epoch.                                      *)
TypeOK ==
    /\ epoch \in 0 .. MaxEpoch
    /\ round \in 0 .. RoundsPerEpoch - 1
    /\ current \in [validators : ValidatorMap, epoch : 0 .. MaxEpoch]
    /\ preparing \in [validators : ValidatorMap, epoch : 0 .. MaxEpoch]

(* The preparing validator set is always for the epoch after the current   *)
(* set's: create starts them one apart and next_round moves both together  *)
(* under two different substate locks.                                      *)
PreparingIsNextEpoch == preparing.epoch = current.epoch + 1

(* Rounds never go back and the current validator set never changes except *)
(* when next_round ends an epoch, and then round restarts at 0, epoch and  *)
(* the current set become the preparing set's, and the preparing epoch     *)
(* moves on by one.                                                         *)
EpochChangeInstallsPrepared ==
    [][(round' < round \/ current' # current) =>
          /\ round' = 0
          /\ epoch' = preparing.epoch
          /\ current' = [validators |-> preparing.validators, epoch |-> preparing.epoch]
          /\ preparing' = [preparing EXCEPT !.epoch = @ + 1]]_vars

(* Spec S6: next_round past rounds_per_epoch advances the epoch by one.     *)
(* next_round instead sets the epoch to the preparing set's epoch, which    *)
(* set_epoch does not move.                                                 *)
EpochAdvancesByOne ==
    [][preparing'.epoch # preparing.epoch => epoch' = epoch + 1]_vars
=============================================================================
