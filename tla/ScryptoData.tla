---------------------------- MODULE ScryptoData ----------------------------
(***************************************************************************)
(* The Scrypto side of substate access, src/scrypto/src/core/data.rs,      *)
(* composed with the Track it reaches through the kernel.  A blueprint     *)
(* reads component state through DataPointer::get (a DataRef holding a     *)
(* read lock and a decoded copy) and writes it through get_mut (a          *)
(* DataRefMut holding a MUTABLE lock); dropping a DataRefMut calls Write   *)
(* with the copy and then DropLock, dropping a DataRef only DropLock.      *)
(*                                                                         *)
(* sys_lock_substate(node, offset, mutable) reaches Track::acquire_lock    *)
(* with {MUTABLE} or no flags; Write reaches update_substate and DropLock  *)
(* release_lock.  Every .unwrap() of data.rs on an error is a WASM trap:   *)
(* the guest stops and the kernel reverts the transaction.  The guest is   *)
(* one WASM thread, so its guards are used one call at a time; the copy a  *)
(* guard holds is the decoded value, a Values element.                     *)
(***************************************************************************)
EXTENDS Track

VARIABLES
    guards,       \* live DataRef / DataRefMut: handle -> [node, key, mut, base, val, writing]
    guest,        \* "running", "trapped" (an unwrap failed) or "returned"
    lastDropped   \* history: per key, the value the last DataRefMut was dropped with

guestVars == <<guards, guest, lastDropped>>

Guard == [node : Nodes, key : SubstateKeys, mut : BOOLEAN, base : Values,
          val : Values, writing : BOOLEAN]

GuestInit ==
    /\ Init
    /\ guards = <<>>
    /\ guest = "running"
    /\ lastDropped = Nothing

\* The guest runs between its calls; inside DataRefMut::drop it makes the
\* Write and the DropLock call back to back.
Running ==
    /\ guest = "running"
    /\ \A h \in DOMAIN guards : ~guards[h].writing

\* A mutant of get / get_mut that uses the lock result without unwrapping it.
GetDataIgnoringError(n, k, mut) ==
    LET e == Tracked(n, k, NoValue) IN
    /\ Running
    /\ AcquireLock(n, k, IF mut THEN {"MUTABLE"} ELSE {}, NoValue)
    /\ guards' = guards @@ (next_lock_id :> [node |-> n, key |-> k, mut |-> mut,
                              base |-> e.value, val |-> e.value, writing |-> FALSE])
    /\ UNCHANGED <<guest, lastDropped>>

(* DataPointer::get / get_mut: sys_lock_substate(...).unwrap() and          *)
(* sys_read(handle).unwrap(), then decode into a DataRef / DataRefMut.  A    *)
(* refused lock (the substate is missing or locked against this request,   *)
(* as by a DataRefMut still held) traps; the Track keeps what it loaded.   *)
GetData(n, k, mut) ==
    LET flags == IF mut THEN {"MUTABLE"} ELSE {}
        e == Tracked(n, k, NoValue)
    IN
    /\ Running
    /\ AcquireLock(n, k, flags, NoValue)
    /\ IF LockRefused(e, flags)
       THEN /\ guest' = "trapped"
            /\ UNCHANGED <<guards, lastDropped>>
       ELSE /\ guards' = guards @@ (next_lock_id :> [node |-> n, key |-> k, mut |-> mut,
                                      base |-> e.value, val |-> e.value, writing |-> FALSE])
            /\ UNCHANGED <<guest, lastDropped>>

\* DerefMut of DataRefMut: the blueprint changes its copy.
MutateData(h, v) ==
    /\ Running
    /\ h \in DOMAIN guards
    /\ guards[h].mut
    /\ guards' = [guards EXCEPT ![h].val = v]
    /\ UNCHANGED <<guest, lastDropped>>
    /\ UNCHANGED vars

\* Drop for DataRef: DropLock(lock_handle).
DropDataRef(h) ==
    /\ Running
    /\ h \in DOMAIN guards
    /\ ~guards[h].mut
    /\ ReleaseLock(h)
    /\ guards' = Restrict(guards, DOMAIN guards \ {h})
    /\ UNCHANGED <<guest, lastDropped>>

\* A mutant of DataRefMut::drop that never makes the Write call.
WriteSkipped(h) ==
    /\ Running
    /\ h \in DOMAIN guards
    /\ guards[h].mut
    /\ guards' = [guards EXCEPT ![h].writing = TRUE]
    /\ UNCHANGED <<guest, lastDropped>>
    /\ UNCHANGED vars

(* Drop for DataRefMut, first call: Write(lock_handle, substate), the copy  *)
(* re-encoded as the KeyValueStoreEntry or ComponentState substate.        *)
WriteDataRefMut(h) ==
    /\ Running
    /\ h \in DOMAIN guards
    /\ guards[h].mut
    /\ UpdateSubstate(h, guards[h].val)
    /\ guards' = [guards EXCEPT ![h].writing = TRUE]
    /\ UNCHANGED <<guest, lastDropped>>

\* Drop for DataRefMut, second call: DropLock(lock_handle).
DropDataRefMut(h) ==
    /\ guest = "running"
    /\ h \in DOMAIN guards
    /\ guards[h].writing
    /\ ReleaseLock(h)
    /\ guards' = Restrict(guards, DOMAIN guards \ {h})
    /\ lastDropped' = [lastDropped EXCEPT ![guards[h].node][guards[h].key] = guards[h].val]
    /\ UNCHANGED guest

\* The method returns once every guard it made has been dropped.
Return ==
    /\ Running
    /\ guards = <<>>
    /\ Executing
    /\ guest' = "returned"
    /\ UNCHANGED <<guards, lastDropped>>
    /\ UNCHANGED vars

\* The kernel commits a returned invocation, and reverts a trapped one.
Commit == guest = "returned" /\ Finalize /\ UNCHANGED guestVars
Abort == guest = "trapped" /\ RevertNonForceWriteChanges /\ UNCHANGED guestVars
CommitReverted == guest = "trapped" /\ phase = "reverted" /\ Finalize /\ UNCHANGED guestVars

GuestNext ==
    \/ \E n \in Nodes, k \in SubstateKeys, mut \in BOOLEAN : GetData(n, k, mut)
    \/ \E h \in DOMAIN guards, v \in Values : MutateData(h, v)
    \/ \E h \in DOMAIN guards : DropDataRef(h) \/ WriteDataRefMut(h) \/ DropDataRefMut(h)
    \/ Return
    \/ Commit
    \/ Abort
    \/ CommitReverted

GuestSpec == GuestInit /\ [][GuestNext]_<<vars, guestVars>>

(******************************* properties *******************************)

(* The guard table holds only decoded values of locks the Track granted:   *)
(* get / get_mut never keep a guard whose sys_lock_substate failed, and     *)
(* while the invocation runs every guard's handle is a lock the Track      *)
(* holds on the guard's own substate, MUTABLE exactly for a DataRefMut.     *)
GuestTypeOK ==
    /\ \A h \in DOMAIN guards : guards[h] \in Guard
    /\ phase = "executing" =>
          \A h \in DOMAIN guards :
              /\ h \in DOMAIN locks
              /\ locks[h].node = guards[h].node /\ locks[h].key = guards[h].key
              /\ ("MUTABLE" \in locks[h].flags) = guards[h].mut
    /\ guest \in {"running", "trapped", "returned"}
    /\ lastDropped \in [Nodes -> [SubstateKeys -> Slot]]

(* A guard's copy is never stale (the read / write exclusion of the Track's *)
(* SubstateLockState as DataPointer uses it): while the invocation runs,    *)
(* every live DataRef or DataRefMut sees the substate the Track holds       *)
(* unchanged since it was decoded, until its own Write puts its copy there. *)
GuardsSeeTheirSubstate ==
    phase = "executing" /\ guest # "trapped" =>
        \A h \in DOMAIN guards :
            View(guards[h].node, guards[h].key) =
                IF guards[h].writing THEN guards[h].val ELSE guards[h].base

(* No write through a DataRefMut is lost (DataRefMut::drop's Write, then     *)
(* update_substate and finalize): when a returned invocation is committed, *)
(* every key a DataRefMut was dropped on is committed with the value the   *)
(* last one held.                                                          *)
CommitKeepsGuestWrites ==
    phase = "finalized" /\ guest = "returned" =>
        \A n \in Nodes, k \in SubstateKeys :
            lastDropped[n][k] # NoValue => Applied(state_updates)[n][k] = lastDropped[n][k]
=============================================================================
