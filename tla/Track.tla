------------------------------- MODULE Track -------------------------------
(***************************************************************************)
(* The substate Track of src/radix-engine/src/track/track.rs: the         *)
(* transactional overlay the kernel reads and writes substates through.   *)
(*                                                                         *)
(* A (ModuleId, SubstateKey) pair is collapsed into one SubstateKeys       *)
(* element; a substate value is a model value of Values.  Each tracked     *)
(* key holds a TrackedSubstateKey, written here as a record:              *)
(*   tag   : "New" | "ReadOnly" | "ReadAndWrite" | "WriteOnly"             *)
(*   read  : "Existent" | "NonExistent" (ReadOnly / ReadAndWrite only)     *)
(*   write : "Update" | "Delete" (ReadAndWrite / WriteOnly only)           *)
(*   value : the RuntimeSubstate value, NoValue when get_substate is None  *)
(*   lock  : the SubstateLockState: Read(n) is n, Write is WriteLock       *)
(* A panic of the Rust code ends the process: phase becomes "panicked"     *)
(* and panic_site names the operation.                                     *)
(***************************************************************************)
EXTENDS Integers, FiniteSets, Functions, TLC

CONSTANTS
    Nodes,          \* node ids
    SubstateKeys,   \* (module, substate key) pairs
    Values,         \* substate values
    NoValue,        \* absent value (Option::None)
    DbContent,      \* the substate database: [Nodes -> [SubstateKeys -> Values \cup {NoValue}]]
    MaxLockHandles  \* bound on next_lock_id (a u32 in the code)

ASSUME DbContent \in [Nodes -> [SubstateKeys -> Values \cup {NoValue}]]
ASSUME MaxLockHandles \in Nat \ {0}

VARIABLES
    updates,        \* Track.updates: per node and key, an entry or Untracked
    isNew,          \* TrackedNode.is_new of every node
    force_updates,  \* Track.force_updates: value force-written per key, or NoValue
    locks,          \* Track.locks: handle -> [node, key, flags]
    next_lock_id,   \* Track.next_lock_id
    scan,           \* result of the last read_sorted_substates, or NoScan
    phase,          \* "executing", "reverted", "finalized" or "panicked"
    panic_site,     \* the operation that panicked, or "none"
    state_updates,  \* StateUpdates produced by finalize: (node, key) -> update
    lastForced      \* history: the last value each key was force-written with

vars == <<updates, isNew, force_updates, locks, next_lock_id, scan, phase,
          panic_site, state_updates, lastForced>>

Flags == {"MUTABLE", "UNMODIFIED_BASE", "FORCE_WRITE"}
WriteLock == -1
Untracked == [tag |-> "Untracked", read |-> "None", write |-> "None", value |-> NoValue, lock |-> 0]
NoScan == [node |-> "None", items |-> {}]
Slot == Values \cup {NoValue}
Handles == 0 .. MaxLockHandles - 1
LockState == {WriteLock} \cup 0 .. MaxLockHandles

Entry == [tag : {"New", "ReadOnly", "ReadAndWrite", "WriteOnly"},
          read : {"Existent", "NonExistent", "None"},
          write : {"Update", "Delete", "None"},
          value : Slot, lock : LockState]
StateUpdate == [kind : {"Create", "Update", "Delete"}, value : Slot]

(*************************** entry constructors ***************************)
NewEntry(v) == [tag |-> "New", read |-> "None", write |-> "None", value |-> v, lock |-> 0]
ReadOnlyEntry(v) ==
    [tag |-> "ReadOnly", read |-> IF v = NoValue THEN "NonExistent" ELSE "Existent",
     write |-> "None", value |-> v, lock |-> 0]
ReadAndWriteEntry(r, v) ==
    [tag |-> "ReadAndWrite", read |-> r, write |-> IF v = NoValue THEN "Delete" ELSE "Update",
     value |-> v, lock |-> 0]
WriteOnlyEntry(v) ==
    [tag |-> "WriteOnly", read |-> "None", write |-> IF v = NoValue THEN "Delete" ELSE "Update",
     value |-> v, lock |-> 0]

\* TrackedSubstateKey::get_substate: Some exactly when a value is held.
HasSubstate(e) == e # Untracked /\ e.value # NoValue
IsDelete(e) == e.write = "Delete"

(**************************** SubstateLockState ***************************)
IsLocked(l) == l # 0

\* A mutant of try_lock that grants a MUTABLE lock over read locks.
CanLockOverReaders(l, flags) == l # WriteLock

\* try_lock: whether it succeeds, and the state it leaves.
CanLock(l, flags) ==
    IF "MUTABLE" \in flags THEN l = 0 ELSE l # WriteLock
TryLock(l, flags) ==
    IF "MUTABLE" \in flags THEN WriteLock ELSE l + 1

\* A mutant of unlock that decrements a Write lock as if it were a read count.
UnlockAsCount(l) == l - 1

Unlock(l) == IF l = WriteLock THEN 0 ELSE l - 1

(******************************* the view *********************************)
\* The value the transaction sees for a key: tracked entry, else the database.
View(n, k) == IF updates[n][k] = Untracked THEN DbContent[n][k] ELSE updates[n][k].value
ViewMap == [n \in Nodes |-> [k \in SubstateKeys |-> View(n, k)]]

\* get_tracked_substate_virtualize: the entry a vacant key is loaded as.
Load(n, k, virt) ==
    IF DbContent[n][k] # NoValue THEN ReadOnlyEntry(DbContent[n][k])
    ELSE IF virt # NoValue THEN ReadAndWriteEntry("NonExistent", virt)
    ELSE ReadOnlyEntry(NoValue)

Tracked(n, k, virt) ==
    IF updates[n][k] = Untracked THEN Load(n, k, virt) ELSE updates[n][k]

\* A mutant of the ReadOnly -> ReadAndWrite conversion that forgets to copy
\* the lock state of the old entry.
WrittenDroppingLock(old, v) == ReadAndWriteEntry(old.read, v)

\* set_substate / update_substate on a ReadOnly entry: ReadAndWrite(read,
\* Update(v)) carrying the old lock state over.  The Rust code reads the old
\* lock with old.get_substate().unwrap(), which panics on ReadOnly(NonExistent).
Written(old, v) == [ReadAndWriteEntry(old.read, v) EXCEPT !.lock = old.lock]

\* A mutant of release_lock's force_updates insert as or_insert: a key
\* keeps its first force-written value.
ForceRecordFirst(old, v) == IF old # NoValue THEN old ELSE v

\* release_lock with FORCE_WRITE: insert overwrites the key's force update.
ForceRecord(old, v) == v

\* A mutant of finalize whose delete arm matches WriteOnly(_) as a whole.
StateUpdateDeletingWriteOnly(e) ==
    CASE e.tag = "New" -> [kind |-> "Create", value |-> e.value]
      [] e.tag = "ReadAndWrite" /\ e.write = "Update" -> [kind |-> "Update", value |-> e.value]
      [] e.tag = "ReadOnly" /\ e.read = "Existent" -> [kind |-> "Update", value |-> e.value]
      [] OTHER -> [kind |-> "Delete", value |-> NoValue]

\* finalize: the StateUpdate of one tracked key.
StateUpdateOf(e) ==
    CASE e.tag = "New" -> [kind |-> "Create", value |-> e.value]
      [] e.tag = "WriteOnly" /\ e.write = "Update" -> [kind |-> "Create", value |-> e.value]
      [] e.tag = "ReadAndWrite" /\ e.write = "Update" -> [kind |-> "Update", value |-> e.value]
      [] e.tag = "ReadOnly" /\ e.read = "Existent" -> [kind |-> "Update", value |-> e.value]
      [] OTHER -> [kind |-> "Delete", value |-> NoValue]

\* The database after applying a StateUpdates map.
Applied(su) ==
    [n \in Nodes |-> [k \in SubstateKeys |->
        IF <<n, k>> \notin DOMAIN su THEN DbContent[n][k]
        ELSE IF su[<<n, k>>].kind = "Delete" THEN NoValue
        ELSE su[<<n, k>>].value]]
Nothing == [n \in Nodes |-> [k \in SubstateKeys |-> NoValue]]

(***************************** Track::new *********************************)
Init ==
    /\ updates = [n \in Nodes |-> [k \in SubstateKeys |-> Untracked]]
    /\ isNew = [n \in Nodes |-> FALSE]
    /\ force_updates = Nothing
    /\ locks = [h \in {} |-> 0]
    /\ next_lock_id = 0
    /\ scan = NoScan
    /\ phase = "executing"
    /\ panic_site = "none"
    /\ state_updates = [p \in {} |-> 0]
    /\ lastForced = Nothing

Executing == phase = "executing"

\* A step that only replaces the tracked entry of one key.
TrackStep(n, k, e) ==
    /\ updates' = [updates EXCEPT ![n][k] = e]
    /\ UNCHANGED <<isNew, force_updates, locks, next_lock_id, scan, phase,
                   panic_site, state_updates, lastForced>>

\* A panic unwinds the process; nothing the Track holds survives it.
Panic(site) ==
    /\ phase' = "panicked"
    /\ panic_site' = site
    /\ UNCHANGED <<updates, isNew, force_updates, locks, next_lock_id, scan,
                   state_updates, lastForced>>

\* new_lock_handle: insert (overwriting) under next_lock_id, then increment.
NewLockHandle(n, k, flags) ==
    /\ next_lock_id < MaxLockHandles
    /\ locks' = (next_lock_id :> [node |-> n, key |-> k, flags |-> flags]) @@ locks
    /\ next_lock_id' = next_lock_id + 1

(* create_node: the whole TrackedNode is inserted with is_new = true and    *)
(* every substate New.  The kernel only creates nodes under freshly        *)
(* allocated ids, which neither the database nor the track knows.          *)
Fresh(n) ==
    /\ ~isNew[n]
    /\ \A k \in SubstateKeys : updates[n][k] = Untracked /\ DbContent[n][k] = NoValue

CreateNode(n, substates) ==
    /\ Executing
    /\ Fresh(n)
    /\ updates' = [updates EXCEPT ![n] = [k \in SubstateKeys |->
                      IF k \in DOMAIN substates THEN NewEntry(substates[k]) ELSE Untracked]]
    /\ isNew' = [isNew EXCEPT ![n] = TRUE]
    /\ UNCHANGED <<force_updates, locks, next_lock_id, scan, phase, panic_site,
                   state_updates, lastForced>>

(* set_substate: a vacant key becomes WriteOnly(Update); a locked one is an *)
(* error; an Update is overwritten; a ReadOnly becomes ReadAndWrite with the*)
(* old lock state, unwrapping the old substate; a Delete becomes Update.   *)
SetSubstate(n, k, v) ==
    LET e == updates[n][k] IN
    /\ Executing
    /\ IF e = Untracked THEN TrackStep(n, k, WriteOnlyEntry(v))
       ELSE /\ ~(HasSubstate(e) /\ IsLocked(e.lock))
            /\ CASE e.tag = "ReadOnly" /\ ~HasSubstate(e) -> Panic("set_substate")
                 [] e.tag = "ReadOnly" -> TrackStep(n, k, Written(e, v))
                 [] IsDelete(e) -> TrackStep(n, k, [e EXCEPT !.write = "Update", !.value = v, !.lock = 0])
                 [] OTHER -> TrackStep(n, k, [e EXCEPT !.value = v])

(* delete_substate: the key is loaded first (a failed call keeps what it    *)
(* loaded); a locked key is an error; New is removed; any other entry       *)
(* records Write::Delete.                                                   *)
DeleteSubstate(n, k) ==
    LET e == Tracked(n, k, NoValue) IN
    /\ Executing
    /\ IF HasSubstate(e) /\ IsLocked(e.lock) THEN TrackStep(n, k, e)
       ELSE TrackStep(n, k,
              CASE e.tag = "New" -> Untracked
                [] e.tag = "WriteOnly" -> WriteOnlyEntry(NoValue)
                [] OTHER -> ReadAndWriteEntry(e.read, NoValue))

(* acquire_lock_virtualize: load (virtualizing a key absent from the       *)
(* database), then fail on UNMODIFIED_BASE over WriteOnly / ReadAndWrite,   *)
(* on a missing substate, or on a conflicting lock; else lock and hand out  *)
(* a new handle.  A failed call keeps the entry it loaded.                  *)
LockRefused(e, flags) ==
    \/ "UNMODIFIED_BASE" \in flags /\ e.tag \in {"WriteOnly", "ReadAndWrite"}
    \/ ~HasSubstate(e)
    \/ ~CanLock(e.lock, flags)

AcquireLock(n, k, flags, virt) ==
    LET e == Tracked(n, k, virt) IN
    /\ Executing
    /\ IF LockRefused(e, flags)
       THEN TrackStep(n, k, e)
       ELSE /\ updates' = [updates EXCEPT ![n][k] = [e EXCEPT !.lock = TryLock(e.lock, flags)]]
            /\ NewLockHandle(n, k, flags)
            /\ UNCHANGED <<isNew, force_updates, scan, phase, panic_site,
                           state_updates, lastForced>>

(* release_lock: remove the handle, unlock the substate (expecting it to    *)
(* exist), and with FORCE_WRITE record its value in force_updates as        *)
(* ReadAndWrite(Existent, Update(value)).  Unlocking Read(0) underflows.    *)
ReleaseLock(h) ==
    LET l == locks[h]
        e == Tracked(l.node, l.key, NoValue)
        forced == "FORCE_WRITE" \in l.flags
    IN
    /\ Executing
    /\ h \in DOMAIN locks
    /\ IF ~HasSubstate(e) \/ e.lock = 0 THEN Panic("release_lock")
       ELSE
        /\ locks' = Restrict(locks, DOMAIN locks \ {h})
        /\ updates' = [updates EXCEPT ![l.node][l.key] = [e EXCEPT !.lock = Unlock(e.lock)]]
        /\ force_updates' = IF forced
              THEN [force_updates EXCEPT ![l.node][l.key] = ForceRecord(@, e.value)]
              ELSE force_updates
        /\ lastForced' = IF forced THEN [lastForced EXCEPT ![l.node][l.key] = e.value]
                         ELSE lastForced
        /\ UNCHANGED <<isNew, next_lock_id, scan, phase, panic_site, state_updates>>

(* update_substate: panics without MUTABLE; overwrites an Update; turns a   *)
(* ReadOnly into ReadAndWrite keeping the lock; panics on a Delete.         *)
UpdateSubstate(h, v) ==
    LET l == locks[h]
        e == Tracked(l.node, l.key, NoValue)
    IN
    /\ Executing
    /\ h \in DOMAIN locks
    /\ CASE "MUTABLE" \notin l.flags -> Panic("update_substate")
         [] IsDelete(e) \/ ~HasSubstate(e) -> Panic("update_substate")
         [] e.tag = "ReadOnly" -> TrackStep(l.node, l.key, Written(e, v))
         [] OTHER -> TrackStep(l.node, l.key, [e EXCEPT !.value = v])

(* read_sorted_substates: for a node created in this transaction, the      *)
(* tracked entries, unwrapping each one's substate; for any other node, the *)
(* database listing.  The count argument is taken as unbounded.             *)
ReadSortedSubstates(n) ==
    LET tracked == {k \in SubstateKeys : updates[n][k] # Untracked}
        dbKeys == {k \in SubstateKeys : DbContent[n][k] # NoValue}
    IN
    /\ Executing
    /\ IF isNew[n] /\ \E k \in tracked : ~HasSubstate(updates[n][k])
       THEN Panic("read_sorted_substates")
       ELSE
        /\ scan' = [node |-> n,
                    items |-> IF isNew[n] THEN {<<k, updates[n][k].value>> : k \in tracked}
                              ELSE {<<k, DbContent[n][k]>> : k \in dbKeys}]
        /\ UNCHANGED <<updates, isNew, force_updates, locks, next_lock_id, phase,
                       panic_site, state_updates, lastForced>>

(* revert_non_force_write_changes: updates := mem::take(force_updates).     *)
RevertNonForceWriteChanges ==
    /\ Executing
    /\ updates' = [n \in Nodes |-> [k \in SubstateKeys |->
                     IF force_updates[n][k] # NoValue
                     THEN ReadAndWriteEntry("Existent", force_updates[n][k])
                     ELSE Untracked]]
    /\ isNew' = [n \in Nodes |-> FALSE]
    /\ force_updates' = Nothing
    /\ phase' = "reverted"
    /\ UNCHANGED <<locks, next_lock_id, scan, panic_site, state_updates, lastForced>>

(* finalize: one StateUpdate per tracked key; consumes the Track.           *)
Finalize ==
    /\ phase \in {"executing", "reverted"}
    /\ state_updates' = [p \in {<<n, k>> \in Nodes \X SubstateKeys : updates[n][k] # Untracked}
                           |-> StateUpdateOf(updates[p[1]][p[2]])]
    /\ phase' = "finalized"
    /\ UNCHANGED <<updates, isNew, force_updates, locks, next_lock_id, scan,
                   panic_site, lastForced>>

\* Substate maps create_node is called with: a value for some keys.
NodeSubstates == UNION {[S -> Values] : S \in SUBSET SubstateKeys \ {{}}}
VirtualizerResults == Slot
LockFlagSets == SUBSET Flags

Next ==
    \/ \E n \in Nodes, s \in NodeSubstates : CreateNode(n, s)
    \/ \E n \in Nodes, k \in SubstateKeys, v \in Values : SetSubstate(n, k, v)
    \/ \E n \in Nodes, k \in SubstateKeys : DeleteSubstate(n, k)
    \/ \E n \in Nodes, k \in SubstateKeys, f \in LockFlagSets, virt \in VirtualizerResults :
          AcquireLock(n, k, f, virt)
    \/ \E h \in DOMAIN locks : ReleaseLock(h)
    \/ \E h \in DOMAIN locks, v \in Values : UpdateSubstate(h, v)
    \/ \E n \in Nodes : ReadSortedSubstates(n)
    \/ RevertNonForceWriteChanges
    \/ Finalize

Spec == Init /\ [][Next]_vars

(******************************* properties *******************************)

TypeOK ==
    /\ updates \in [Nodes -> [SubstateKeys -> Entry \cup {Untracked}]]
    /\ isNew \in [Nodes -> BOOLEAN]
    /\ force_updates \in [Nodes -> [SubstateKeys -> Slot]]
    /\ DOMAIN locks \subseteq Handles
    /\ \A h \in DOMAIN locks : locks[h] \in [node : Nodes, key : SubstateKeys, flags : LockFlagSets]
    /\ next_lock_id \in 0 .. MaxLockHandles
    /\ phase \in {"executing", "reverted", "finalized", "panicked"}
    /\ state_updates \in [DOMAIN state_updates -> StateUpdate]
    /\ lastForced \in [Nodes -> [SubstateKeys -> Slot]]

HandlesOn(n, k) == {h \in DOMAIN locks : locks[h].node = n /\ locks[h].key = k}

(* Lock accounting (the lock exclusivity of acquire_lock / release_lock and *)
(* the lock state carried across set_substate / update_substate): while the *)
(* transaction executes, the SubstateLockState of every key is exactly what *)
(* its outstanding handles imply -- Write for one MUTABLE handle and no     *)
(* other, Read(n) for n read handles -- and every handle's substate exists, *)
(* so release_lock / read_substate never hit their expect.                  *)
LockAccounting ==
    Executing =>
      \A n \in Nodes, k \in SubstateKeys :
        LET hs == HandlesOn(n, k)
            e == updates[n][k]
        IN IF hs = {} THEN e = Untracked \/ e.lock = 0
           ELSE /\ HasSubstate(e)
                /\ IF \E h \in hs : "MUTABLE" \in locks[h].flags
                   THEN e.lock = WriteLock /\ Cardinality(hs) = 1
                   ELSE e.lock = Cardinality(hs)

\* The database overlaid with the values last force-written.
ForceOverlay == [n \in Nodes |-> [k \in SubstateKeys |->
                   IF lastForced[n][k] # NoValue THEN lastForced[n][k] ELSE DbContent[n][k]]]

(* Fee locking survives failure (revert_non_force_write_changes with the    *)
(* FORCE_WRITE release of release_lock): after a revert, the transaction    *)
(* sees the database except for the last value every FORCE_WRITE lock was   *)
(* released with.                                                           *)
RevertKeepsOnlyForceWrites ==
    phase = "reverted" => ViewMap = ForceOverlay

(* The Track implements SubstateStore: view is what a read through the      *)
(* track returns, durable is force_updates, a panic is an abort, and the    *)
(* committed state is the database with finalize's StateUpdates applied.   *)
Store == INSTANCE SubstateStore WITH
    view <- ViewMap,
    durable <- force_updates,
    phase <- IF phase = "panicked" THEN "aborted" ELSE phase,
    committed <- IF phase = "finalized" THEN Applied(state_updates) ELSE Nothing

TrackImplementsStore == Store!Spec

(************** properties the code is checked against and fails ***********)

(* set_substate never panics: a failed acquire_lock leaves                  *)
(* ReadOnly(NonExistent) cached, and a later set_substate on that key       *)
(* unwraps the old entry's missing substate to copy its lock state.         *)
SetSubstateNeverPanics == panic_site # "set_substate"

(* read_sorted_substates never panics: for a node created in this           *)
(* transaction it unwraps the substate of every tracked entry, including    *)
(* entries deleted since.                                                   *)
ReadSortedNeverPanics == panic_site # "read_sorted_substates"
=============================================================================
