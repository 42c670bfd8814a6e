------------------------------ MODULE MCTrack ------------------------------
(***************************************************************************)
(* Track instantiated for TLC.  Node n1 exists in the database with its   *)
(* substate k1; node n2 has none, so a virtualizer can fill it, or it can *)
(* be created as a fresh node.  The run has two parts: in "track" any     *)
(* caller drives the Track's operations, in "guest" a Scrypto blueprint    *)
(* drives it through data.rs (ScryptoData).                                *)
(***************************************************************************)
EXTENDS ScryptoData

CONSTANTS n1, n2, k1, v1, v2

VARIABLE part

MCDbContent ==
    [n \in Nodes |-> [k \in SubstateKeys |->
        IF n = n1 /\ k = k1 THEN v1 ELSE NoValue]]

MCInit == part \in {"track", "guest"} /\ GuestInit

MCNext ==
    \/ part = "track" /\ Next /\ UNCHANGED <<part, guestVars>>
    \/ part = "guest" /\ GuestNext /\ UNCHANGED part

MCSpec == MCInit /\ [][MCNext]_<<part, vars, guestVars>>
=============================================================================
