----------------------- MODULE MCTransactionProcessor -----------------------
(* One resource whose supply of 2 starts in the component's vault. *)
EXTENDS TransactionProcessor

CONSTANTS xrd

MCTotal == [r \in {xrd} |-> 2]
====
