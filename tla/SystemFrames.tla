---------------------------- MODULE SystemFrames ----------------------------
(***************************************************************************)
(* The callbacks of SystemConfig in src/radix-engine/src/system/           *)
(* system_callback.rs over a stack of call frames: before_push_frame and   *)
(* after_pop_frame (on_move_node for every node a message moves), the      *)
(* checks of invoke_upstream around a call, on_drop_node, on_persist_node, *)
(* on_substate_lock_fault (a virtual address made global by its            *)
(* OnVirtualize hook, run as a frame of its own), and auto_drop at the end *)
(* of a frame.                                                             *)
(*                                                                         *)
(* The kernel that calls them is not under src/; its part is modelled from *)
(* spec 3, 4.2, 4.5, 4.9 and S2:                                           *)
(*   - a frame owns nodes; proofs pushed to its auth zone are owned by the *)
(*     auth zone instead;                                                  *)
(*   - a call moves nodes down into a new frame with an empty auth zone;   *)
(*   - a return auto-drops the frame's nodes that are not returned, fails  *)
(*     on any node left (dangling), pops, and moves the returned nodes up; *)
(*   - a lock on a missing substate calls on_substate_lock_fault and, when *)
(*     it returns true, retries the lock;                                  *)
(*   - every error aborts the transaction.                                 *)
(* An OnMove or OnDrop hook is a call that returns or fails.               *)
(***************************************************************************)
EXTENDS Integers, Sequences, FiniteSets

CONSTANTS
    Nodes,        \* node ids
    Blueprints,   \* blueprints of the objects among Nodes, and the auth zone's
    TypeOf,       \* node -> its type info: a blueprint, or a non-object kind
    ProofBp,      \* FUNGIBLE_PROOF_BLUEPRINT
    AuthZoneBp,   \* the auth zone's blueprint
    Transient,    \* blueprint -> BlueprintDefinition.is_transient
    HookExports,  \* blueprint -> the hooks its definition exports
    Idents,       \* function and method names
    Interface,    \* blueprint -> ident -> [fn: it exists, receiver: it is a method,
                  \*                       refTypes: the receiver's RefTypes]
    Callees,      \* the actors a frame may call: [bp, ident, node, direct, barrier]
    Virtual,      \* the nodes whose entity type is GlobalVirtual*Account / Identity
    NoBp,         \* the root actor's blueprint_id(): None
    NoNode,       \* no node
    Faults,       \* the steps that may fail: "hook", "input", "output", or "none"
    MaxDepth      \* the deepest call-frame stack (the depth limit)

NonObjects == {"KeyValueStore", "GlobalAddressReservation", "GlobalAddressPhantom"}
Hooks == {"OnDrop", "OnMove", "OnVirtualize"}
ASSUME /\ ProofBp \in Blueprints /\ AuthZoneBp \in Blueprints
       /\ TypeOf \in [Nodes -> Blueprints \cup NonObjects]
       /\ HookExports \in [Blueprints -> SUBSET Hooks]
       /\ Transient \in [Blueprints -> BOOLEAN]
       /\ Interface \in [Blueprints -> [Idents -> [fn : BOOLEAN, receiver : BOOLEAN,
                                                  refTypes : SUBSET {"NORMAL", "DIRECT_ACCESS"}]]]
       /\ Callees \subseteq [bp : Blueprints, ident : Idents, node : BOOLEAN, direct : BOOLEAN, barrier : BOOLEAN]
       /\ Virtual \subseteq {n \in Nodes : TypeOf[n] \in Blueprints}
       /\ NoNode \notin Nodes
       /\ "none" \in Faults /\ Faults \subseteq {"none", "hook", "input", "output"}

VARIABLES
    frames,       \* the call-frame stack of actors [bp, barrier, hookFor]; frames[1] is the root
    owner,        \* node -> the index of the frame owning it, or Unborn / Dropped / Stored
    zone,         \* frame index -> the proofs on that frame's auth zone
    seen,         \* node -> the last OnMoveInput its hook was given (with the frame
                  \* it left), or NoMove
    addressOf,    \* global address reservation -> the address it reserves, or NoNode
    retried,      \* the virtual addresses whose faulted lock the kernel has retried
    status        \* "running", "finished", or the error that aborted the transaction

vars == <<frames, owner, zone, seen, addressOf, retried, status>>

Unborn == 0
Dropped == -1
Stored == -2
NoMove == [none |-> TRUE]
Root == [bp |-> NoBp, barrier |-> FALSE, hookFor |-> NoNode]
\* Actor::Function of the proof blueprint's drop function.
DropFn == [bp |-> ProofBp, barrier |-> TRUE, hookFor |-> NoNode]

Init ==
    /\ frames = <<Root>>
    /\ owner = [n \in Nodes |-> Unborn]
    /\ zone = [i \in 1 .. MaxDepth |-> {}]
    /\ seen = [n \in Nodes |-> NoMove]
    /\ addressOf = [n \in Nodes |-> NoNode]
    /\ retried = {}
    /\ status = "running"

Top == Len(frames)
Running == status = "running"
IsProof(n) == TypeOf[n] = ProofBp
IsObject(n) == TypeOf[n] \in Blueprints
\* load_blueprint_definition(..).hook_exports.contains_key(hook).
HasHook(n, h) == IsObject(n) /\ h \in HookExports[TypeOf[n]]
Hooked(ns, h) == {n \in ns : HasHook(n, h)}
Abort(why) == status' = why /\ UNCHANGED <<frames, owner, zone, seen, addressOf, retried>>

\* The frame's owned nodes: the proofs on its auth zone belong to the auth zone.
Owned(i) == {n \in Nodes : owner[n] = i} \ zone[i]

(* on_move_node for each node of ns: an object whose blueprint exports     *)
(* OnMove has its hook invoked with OnMoveInput { is_moving_down,          *)
(* is_to_barrier, destination_blueprint_id }, recorded over s; from is the *)
(* frame the node leaves.                                                   *)
OnMoveNode(s, ns, down, actor, from) ==
    [n \in Nodes |-> IF n \in Hooked(ns, "OnMove")
                     THEN [down |-> down, barrier |-> actor.barrier, dest |-> actor.bp, from |-> from]
                     ELSE s[n]]

\* before_push_frame: on_move_node(node, true, callee.is_barrier(), callee.blueprint_id()).
BeforePushFrame(ms, callee) == OnMoveNode(seen, ms, TRUE, callee, Top)

\* A mutant of after_pop_frame that takes the popped frame's actor.
AfterPopFrameWithDroppedActor(s, ms, popped) == OnMoveNode(s, ms, FALSE, frames[popped], popped)

(* after_pop_frame: on_move_node(node, false, current_actor.is_barrier(),  *)
(* current_actor.blueprint_id()), the current actor being the frame        *)
(* returned to.                                                             *)
AfterPopFrame(s, ms, popped) == OnMoveNode(s, ms, FALSE, frames[popped - 1], popped)

\* A mutant of on_persist_node that lets a global address reservation persist.
PersistAllowedReservation(n) ==
    IF IsObject(n) THEN ~Transient[TypeOf[n]]
    ELSE TypeOf[n] \in {"KeyValueStore", "GlobalAddressPhantom", "GlobalAddressReservation"}

\* on_persist_node: whether the type info allows the node into the store.
PersistAllowed(n) ==
    IF IsObject(n) THEN ~Transient[TypeOf[n]]
    ELSE TypeOf[n] \in {"KeyValueStore", "GlobalAddressPhantom"}

(* invoke_upstream's receiver check: a method must be called directly      *)
(* exactly when its receiver's ref types contain DIRECT_ACCESS, and a      *)
(* function has no receiver.                                                *)
ReceiverMatches(f, c) ==
    \/ f.receiver /\ c.node /\ c.direct = ("DIRECT_ACCESS" \in f.refTypes)
    \/ ~f.receiver /\ ~c.node

(* The checks of invoke_upstream before C::invoke, in the code's order:    *)
(* the function's input type (FnNotFound), the input against its schema,   *)
(* the receiver; "none" when all pass.                                      *)
UpstreamError(c, inputValid) ==
    LET f == Interface[c.bp][c.ident] IN
    CASE ~f.fn -> "FnNotFound"
      [] ~inputValid -> "InputSchemaNotMatch"
      [] ~ReceiverMatches(f, c) -> "ReceiverNotMatch"
      [] OTHER -> "none"

\* The kernel pushes a frame for actor and moves ms into it, after before_push_frame.
PushFrame(actor, ms) ==
    /\ seen' = BeforePushFrame(ms, actor)
    /\ frames' = Append(frames, actor)
    /\ owner' = [n \in Nodes |-> IF n \in ms THEN Top + 1 ELSE owner[n]]
    /\ zone' = [zone EXCEPT ![Top + 1] = {}]

(****************************** actions ***********************************)

\* The current frame creates node n (kernel create_node); virtual addresses
\* and reservations only come from on_substate_lock_fault.
CreateNode(n) ==
    /\ Running /\ owner[n] = Unborn
    /\ n \notin Virtual /\ TypeOf[n] # "GlobalAddressReservation"
    /\ owner' = [owner EXCEPT ![n] = Top]
    /\ UNCHANGED <<frames, zone, seen, addressOf, retried, status>>

\* The current frame pushes a proof it owns onto its auth zone.
PushToAuthZone(n) ==
    /\ Running /\ IsProof(n) /\ n \in Owned(Top)
    /\ zone' = [zone EXCEPT ![Top] = @ \cup {n}]
    /\ UNCHANGED <<frames, owner, seen, addressOf, retried, status>>

\* A mutant of the call without the depth limit.
InvokeUnbounded(c, ms, fault) ==
    /\ Running /\ ms \subseteq Owned(Top)
    /\ CASE fault = "hook" /\ Hooked(ms, "OnMove") # {} -> Abort("HookFailed")
         [] UpstreamError(c, fault # "input") # "none" -> Abort(UpstreamError(c, fault # "input"))
         [] OTHER -> /\ PushFrame([bp |-> c.bp, barrier |-> c.barrier, hookFor |-> NoNode], ms)
                     /\ UNCHANGED <<addressOf, retried, status>>

(* A call of c moving the nodes ms down: before_push_frame runs the OnMove *)
(* hooks, the callee's frame is pushed with an empty auth zone, and        *)
(* invoke_upstream checks the function, input and receiver before running  *)
(* the callee; fault picks the failing step, if any.                        *)
Invoke(c, ms, fault) ==
    /\ Running /\ Top < MaxDepth /\ ms \subseteq Owned(Top)
    /\ CASE fault = "hook" /\ Hooked(ms, "OnMove") # {} -> Abort("HookFailed")
         [] UpstreamError(c, fault # "input") # "none" -> Abort(UpstreamError(c, fault # "input"))
         [] OTHER -> /\ PushFrame([bp |-> c.bp, barrier |-> c.barrier, hookFor |-> NoNode], ms)
                     /\ UNCHANGED <<addressOf, retried, status>>

(* The current frame drops an object it owns (drop_node): on_drop_node      *)
(* invokes the OnDrop hook if the blueprint exports it; a non-object cannot *)
(* be dropped through the system API.                                       *)
DropNode(n, fail) ==
    /\ Running /\ n \in Owned(Top) /\ IsObject(n)
    /\ IF fail /\ HasHook(n, "OnDrop") THEN Abort("HookFailed")
       ELSE /\ owner' = [owner EXCEPT ![n] = Dropped]
            /\ UNCHANGED <<frames, zone, seen, addressOf, retried, status>>

(* The current frame writes a node it owns into the store: on_persist_node *)
(* refuses a transient object and a global address reservation.            *)
PersistNode(n) ==
    /\ Running /\ n \in Owned(Top)
    /\ IF PersistAllowed(n)
       THEN /\ owner' = [owner EXCEPT ![n] = Stored]
            /\ UNCHANGED <<frames, zone, seen, addressOf, retried, status>>
       ELSE Abort("PersistenceProhibited")

(* The current frame locks a substate of the object n, which has none.     *)
(* on_substate_lock_fault returns false (the lock fails) unless n's entity *)
(* type is a virtual account or identity whose blueprint exports           *)
(* OnVirtualize; then it allocates a reservation r of n's address and      *)
(* invokes the hook, in a frame that receives r.                            *)
LockFault(n) ==
    /\ Running /\ owner[n] = Unborn /\ IsObject(n)
    /\ IF n \notin Virtual \/ ~HasHook(n, "OnVirtualize") THEN Abort("SubstateNotFound")
       ELSE \E r \in Nodes :
              /\ Top < MaxDepth
              /\ TypeOf[r] = "GlobalAddressReservation" /\ owner[r] = Unborn
              /\ addressOf' = [addressOf EXCEPT ![r] = n]
              /\ PushFrame([bp |-> TypeOf[n], barrier |-> TRUE, hookFor |-> n], {r})
              /\ UNCHANGED <<retried, status>>

(* The current frame globalizes the address its reservation r holds (the  *)
(* account or identity the OnVirtualize hook creates); r is consumed.      *)
Globalize(r) ==
    /\ Running /\ r \in Owned(Top) /\ addressOf[r] # NoNode
    /\ owner' = [owner EXCEPT ![r] = Dropped, ![addressOf[r]] = Stored]
    /\ UNCHANGED <<frames, zone, seen, addressOf, retried, status>>

(******************************* auto_drop ********************************)

\* A mutant of round 2 that leaves the auth zone's proofs where they are.
RoundTwoSkipped(i) == {}

\* Round 1: the proofs among the nodes of frame i (other nodes are no-ops).
RoundOne(i, ms) == {n \in Owned(i) \ ms : IsProof(n)}

\* Round 2: the proofs detached from frame i's auth zone.
RoundTwo(i) == zone[i]

(* The current frame returns the nodes ms (the root returns none).  For a  *)
(* call, invoke_upstream checks the output against the function's schema;  *)
(* an OnVirtualize hook's output must decode as OnVirtualizeOutput, which  *)
(* holds no node.  auto_drop then calls the proof drop function for each   *)
(* proof of round 1, then of round 2 (each call runs the proof's OnMove    *)
(* hook, the drop its OnDrop hook), then drops the auth zone (its OnDrop   *)
(* hook).  A node left after that is dangling.  The frame is popped and    *)
(* after_pop_frame runs the OnMove hooks of the returned nodes.  After an  *)
(* OnVirtualize hook, on_substate_lock_fault returns true and the kernel   *)
(* retries the lock.  The root's end ends the transaction.                 *)
EndFrame(ms, fault) ==
    LET i == Top
        hook == frames[i].hookFor
        dropped == RoundOne(i, ms) \cup RoundTwo(i)
        dropHooks == \/ Hooked(dropped, "OnMove") \cup Hooked(dropped, "OnDrop") # {}
                     \/ "OnDrop" \in HookExports[AuthZoneBp]
        afterDrop == OnMoveNode(seen, dropped, TRUE, DropFn, i)
    IN
    /\ Running /\ ms \subseteq Owned(i) /\ (i = 1 => ms = {} /\ fault # "output")
    /\ CASE fault = "output" \/ (hook # NoNode /\ ms # {}) -> Abort("OutputNotMatch")
         [] fault = "hook" /\ dropHooks -> Abort("HookFailed")
         [] Owned(i) \ (ms \cup RoundOne(i, ms)) # {} -> Abort("DanglingNode")
         [] fault = "hook" /\ i > 1 /\ Hooked(ms, "OnMove") # {} -> Abort("HookFailed")
         [] OTHER ->
              /\ owner' = [n \in Nodes |-> IF n \in dropped THEN Dropped
                                          ELSE IF n \in ms THEN i - 1 ELSE owner[n]]
              /\ seen' = IF i > 1 THEN AfterPopFrame(afterDrop, ms, i) ELSE afterDrop
              /\ frames' = SubSeq(frames, 1, i - 1)
              /\ zone' = [zone EXCEPT ![i] = {}]
              /\ retried' = IF hook # NoNode THEN retried \cup {hook} ELSE retried
              /\ status' = IF i = 1 THEN "finished" ELSE status
              /\ UNCHANGED addressOf

Next ==
    \/ \E n \in Nodes :
          \/ CreateNode(n) \/ PushToAuthZone(n) \/ PersistNode(n) \/ LockFault(n) \/ Globalize(n)
    \/ \E n \in Nodes, fail \in BOOLEAN : DropNode(n, fail)
    \/ \E c \in Callees, ms \in SUBSET Nodes, fault \in Faults \ {"output"} : Invoke(c, ms, fault)
    \/ \E ms \in SUBSET Nodes, fault \in Faults \ {"input"} : EndFrame(ms, fault)

Spec == Init /\ [][Next]_vars

(******************************* properties *******************************)

Errors == {"HookFailed", "DanglingNode", "PersistenceProhibited", "SubstateNotFound",
           "FnNotFound", "InputSchemaNotMatch", "ReceiverNotMatch", "OutputNotMatch"}

TypeOK ==
    /\ frames \in Seq([bp : Blueprints \cup {NoBp}, barrier : BOOLEAN, hookFor : Nodes \cup {NoNode}])
    /\ Len(frames) <= MaxDepth
    /\ owner \in [Nodes -> {Unborn, Dropped, Stored} \cup 1 .. MaxDepth]
    /\ zone \in [1 .. MaxDepth -> SUBSET Nodes]
    /\ addressOf \in [Nodes -> Nodes \cup {NoNode}]
    /\ retried \subseteq Virtual
    /\ status \in {"running", "finished"} \cup Errors

(* Spec 3 (lifecycles): no node outlives the frame that owns it.  When a   *)
(* frame ends, auto_drop has dropped the proofs it owns and, after         *)
(* detaching them, the proofs on its auth zone; every other node was       *)
(* returned, stored or dropped, or the return failed as dangling.          *)
NoNodeOutlivesFrame ==
    \A n \in Nodes : owner[n] \in {Unborn, Dropped, Stored} \cup 1 .. Len(frames)

(* Spec 4.3 (on_move): a node's OnMove hook was last told about the frame  *)
(* the node is in now -- that frame's barrier flag and blueprint, and      *)
(* whether it got there by moving down -- across calls, returns and the    *)
(* moves of auto_drop.                                                      *)
MoveHookSeesOwner ==
    \A n \in Nodes :
        owner[n] \in 1 .. Len(frames) /\ seen[n] # NoMove =>
            /\ seen[n].barrier = frames[owner[n]].barrier
            /\ seen[n].dest = frames[owner[n]].bp
            /\ seen[n].down = (owner[n] > seen[n].from)

(* Spec S2 (virtual accounts): on_substate_lock_fault tells the kernel to  *)
(* retry the lock only after the OnVirtualize hook's frame returned, and   *)
(* by then the virtual address is global, so the retry finds the object.   *)
(* The hook frame holds the address reservation, which on_persist_node     *)
(* refuses, drop_node cannot drop, the hook's output cannot carry and      *)
(* auto_drop leaves dangling: the hook can only return by globalizing.     *)
VirtualizedBeforeRetry == \A n \in retried : owner[n] = Stored
====
