---------------------------- MODULE AuthZoneWalk ----------------------------
(***************************************************************************)
(* The auth-zone stack walk of Authorization::auth_zone_stack_matches in  *)
(* src/radix-engine/src/system/system_modules/auth/authorization.rs.      *)
(*                                                                         *)
(* The walk starts at the caller's auth zone and follows parent links.    *)
(* A zone is a record: whether it is a barrier, and which kinds of         *)
(* evidence it holds -- "proof" (its proofs, virtual resources and virtual *)
(* non-fungibles, which every visited zone offers), "global" (virtual      *)
(* global-caller proofs, offered only at the first barrier) and "local"    *)
(* (virtual local-call-frame proofs, offered only at the first zone        *)
(* checked).  The check closure is abstracted to the set of evidence (accept)  *)
(* it is satisfied by.  zones[1] is the caller's zone and zones[i+1] the   *)
(* parent of zones[i].                                                     *)
(*                                                                         *)
(* The walk is a pure function; the specification picks an input, applies *)
(* the walk once and compares it with a declarative reference.            *)
(***************************************************************************)
EXTENDS Integers, Sequences, FiniteSets

CONSTANTS
    MaxDepth      \* longest auth-zone stack considered

Evidence == {"proof", "global", "local"}
\* The package-of-direct-caller badge checked before the walk.
PackageBadge == "package"
Locations == {"AtBarrier", "AtLocalBarrier", "InCallFrame"}
Zone == [barrier : BOOLEAN, items : SUBSET Evidence]
Stacks == UNION {[1 .. n -> Zone] : n \in 1 .. MaxDepth}

VARIABLES
    zones,        \* the auth-zone stack
    location,     \* the ActingLocation
    accept,       \* the evidence the check closure accepts
    result        \* "pending", then the walk's "pass" or "fail"

vars == <<zones, location, accept, result>>

(******************************* the walk *********************************)

\* The loop state: is_first_barrier, waiting_for_barrier,
\* remaining_barrier_crossings_allowed, skip, and rev_index.
\* A mutant of the initial state that allows no crossing at a local barrier.
InitialWalkStateNoLocalCrossing(loc) ==
    CASE loc = "AtBarrier" -> [first |-> TRUE, waiting |-> 0, remaining |-> 0, skip |-> 0, rev |-> 0]
      [] loc = "AtLocalBarrier" -> [first |-> FALSE, waiting |-> 1, remaining |-> 0, skip |-> 0, rev |-> 0]
      [] loc = "InCallFrame" -> [first |-> FALSE, waiting |-> 1, remaining |-> 1, skip |-> 1, rev |-> 0]

InitialWalkState(loc) ==
    CASE loc = "AtBarrier" -> [first |-> TRUE, waiting |-> 0, remaining |-> 0, skip |-> 0, rev |-> 0]
      [] loc = "AtLocalBarrier" -> [first |-> FALSE, waiting |-> 1, remaining |-> 1, skip |-> 0, rev |-> 0]
      [] loc = "InCallFrame" -> [first |-> FALSE, waiting |-> 1, remaining |-> 1, skip |-> 1, rev |-> 0]

\* The evidence a non-skipped zone offers the check.
Offered(z, st) ==
    ({"proof"} \cap z.items)
      \cup (IF st.first THEN {"global"} \cap z.items ELSE {})
      \cup (IF st.rev = 0 THEN {"local"} \cap z.items ELSE {})

\* A mutant of the progress step that keeps is_first_barrier past its zone.
ProgressKeepingFirst(z, st) ==
    LET waiting2 == IF z.barrier /\ st.waiting > 0 THEN st.waiting - 1 ELSE st.waiting
    IN [st EXCEPT !.remaining = IF z.barrier THEN @ - 1 ELSE @,
                  !.waiting = waiting2,
                  !.first = @ \/ (z.barrier /\ st.waiting > 0 /\ waiting2 = 0)]

(* The "Progress" part of one iteration, after the check: clear            *)
(* is_first_barrier; at a barrier spend a crossing and, when the awaited   *)
(* barrier is reached, mark the next zone as the first barrier.  (The      *)
(* break on an exhausted crossing count is taken by the caller.)           *)
Progress(z, st) ==
    LET waiting2 == IF z.barrier /\ st.waiting > 0 THEN st.waiting - 1 ELSE st.waiting
    IN [st EXCEPT !.remaining = IF z.barrier THEN @ - 1 ELSE @,
                  !.waiting = waiting2,
                  !.first = z.barrier /\ st.waiting > 0 /\ waiting2 = 0]

\* The skip / check part of one iteration.
Visit(z, st) ==
    IF st.skip > 0 THEN [st EXCEPT !.skip = @ - 1] ELSE [st EXCEPT !.rev = @ + 1]

(* The loop from zone i on: check the zone unless skipped, stop on a       *)
(* barrier with no crossing left or at the root, else go to the parent.    *)
RECURSIVE WalkFrom(_, _, _, _)
WalkFrom(stack, i, st, acc) ==
    LET z == stack[i] IN
    IF st.skip = 0 /\ Offered(z, st) \cap acc # {} THEN TRUE
    ELSE LET st2 == Visit(z, st) IN
         IF z.barrier /\ st2.remaining = 0 THEN FALSE
         ELSE IF i = Len(stack) THEN FALSE
         ELSE WalkFrom(stack, i + 1, Progress(z, st2), acc)

(* auth_zone_stack_matches: the package-of-direct-caller badge first, then *)
(* the walk from the caller's zone.                                         *)
AuthZoneStackMatches(stack, loc, acc) ==
    \/ PackageBadge \in acc
    \/ WalkFrom(stack, 1, InitialWalkState(loc), acc)

(**************************** the specification ***************************)

\* Both check closures (matches_rule, has_amount) succeed when any single
\* piece of evidence matches, so probing one kind at a time covers them.
Probes == {{e} : e \in Evidence \cup {PackageBadge}}

Init ==
    /\ zones \in Stacks
    /\ location \in Locations
    /\ accept \in Probes
    /\ result = "pending"

Verdict(b) == IF b THEN "pass" ELSE "fail"

Evaluate ==
    /\ result = "pending"
    /\ result' = Verdict(AuthZoneStackMatches(zones, location, accept))
    /\ UNCHANGED <<zones, location, accept>>

Spec == Init /\ [][Evaluate]_vars

(******************************* properties *******************************)

\* How many barrier crossings and skipped zones each location allows.
Crossings(loc) == IF loc = "AtBarrier" THEN 0 ELSE 1
Skipped(loc) == IF loc = "InCallFrame" THEN 1 ELSE 0
BarriersBefore(stack, i) == Cardinality({j \in 1 .. i - 1 : stack[j].barrier})

(* Zone i is reached when no more barriers than the location allows lie    *)
(* before it, and checked when it is also past the skipped zones.  Global  *)
(* caller proofs count at the first barrier: the caller's own zone when    *)
(* acting at a barrier, else the zone just across the first barrier.       *)
(* Local call-frame proofs count only in the first zone checked.           *)
Checked(stack, loc, i) == BarriersBefore(stack, i) <= Crossings(loc) /\ i > Skipped(loc)
GlobalAt(stack, loc, i) ==
    IF loc = "AtBarrier" THEN i = 1
    ELSE i > 1 /\ stack[i - 1].barrier /\ BarriersBefore(stack, i) = 1
LocalAt(loc, i) == i = Skipped(loc) + 1

ReferenceMatches(stack, loc, acc) ==
    \/ PackageBadge \in acc
    \/ \E i \in DOMAIN stack :
          /\ Checked(stack, loc, i)
          /\ \/ "proof" \in stack[i].items \cap acc
             \/ "global" \in stack[i].items \cap acc /\ GlobalAt(stack, loc, i)
             \/ "local" \in stack[i].items \cap acc /\ LocalAt(loc, i)

(* Spec 4.6: the walk authorises exactly when some evidence the rule       *)
(* accepts sits in a zone within the location's allowed barrier crossings, *)
(* virtual global-caller proofs only at the first barrier and local        *)
(* call-frame proofs only in the first zone checked.                        *)
WalkMatchesReference ==
    result # "pending" => result = Verdict(ReferenceMatches(zones, location, accept))
=============================================================================
