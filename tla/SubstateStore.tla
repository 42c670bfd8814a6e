--------------------------- MODULE SubstateStore ---------------------------
(***************************************************************************)
(* What the substate Track promises, without its bookkeeping: a           *)
(* transaction sees one logical value per (node, substate key), starting   *)
(* from the database.  Writes change that view; a force-write makes the   *)
(* current value durable; a revert throws away every change except the    *)
(* durable ones; finalize commits the view.  A process abort commits      *)
(* nothing.  Track.tla is shown to implement this specification.          *)
(***************************************************************************)
EXTENDS Naturals

CONSTANTS
    Nodes,          \* node ids the transaction touches
    SubstateKeys,   \* (partition, substate key) pairs, collapsed into one set
    Values,         \* substate values
    NoValue,        \* marks an absent substate
    DbContent       \* the read-only database: [Nodes -> [SubstateKeys -> Values \cup {NoValue}]]

VARIABLES
    view,           \* the transaction's logical value of every substate
    durable,        \* values that survive a revert
    phase,          \* "executing", "reverted", "finalized" or "aborted"
    committed       \* what finalize commits, or NoCommit

vars == <<view, durable, phase, committed>>

Slot == Values \cup {NoValue}
NoCommit == [n \in Nodes |-> [k \in SubstateKeys |-> NoValue]]
Nothing == [n \in Nodes |-> [k \in SubstateKeys |-> NoValue]]

\* The database with the durable values laid over it.
Overlay(db, over) ==
    [n \in Nodes |-> [k \in SubstateKeys |->
        IF over[n][k] # NoValue THEN over[n][k] ELSE db[n][k]]]

Init ==
    /\ view = DbContent
    /\ durable = Nothing
    /\ phase = "executing"
    /\ committed = NoCommit

\* One operation changes the substates of one node (create_node sets several).
Write(n, vals) ==
    /\ phase = "executing"
    /\ view' = [view EXCEPT ![n] = vals]
    /\ UNCHANGED <<durable, phase, committed>>

Persist(n, k) ==
    /\ phase = "executing"
    /\ view[n][k] # NoValue
    /\ durable' = [durable EXCEPT ![n][k] = view[n][k]]
    /\ UNCHANGED <<view, phase, committed>>

Revert ==
    /\ phase = "executing"
    /\ view' = Overlay(DbContent, durable)
    /\ durable' = Nothing
    /\ phase' = "reverted"
    /\ UNCHANGED committed

Finalize ==
    /\ phase \in {"executing", "reverted"}
    /\ committed' = view
    /\ phase' = "finalized"
    /\ UNCHANGED <<view, durable>>

Abort ==
    /\ phase \in {"executing", "reverted"}
    /\ phase' = "aborted"
    /\ UNCHANGED <<view, durable, committed>>

Next ==
    \/ \E n \in Nodes, vals \in [SubstateKeys -> Slot] : Write(n, vals)
    \/ \E n \in Nodes, k \in SubstateKeys : Persist(n, k)
    \/ Revert
    \/ Finalize
    \/ Abort

Spec == Init /\ [][Next]_vars
=============================================================================
