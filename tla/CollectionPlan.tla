--------------------------- MODULE CollectionPlan ---------------------------
(***************************************************************************)
(* The retention plan of srcdiffvisual/artifacts/lifecycle.py: which       *)
(* published artifacts a manual collection removes.  The algorithm walks   *)
(* the artifacts from the oldest to the newest and keeps running totals;   *)
(* Reference states its result without walking.                            *)
(*                                                                         *)
(* An item is [id, size, created, integrity, protected].  Only a valid     *)
(* artifact has a creation time; the others carry Never, which sorts last  *)
(* as datetime.max does.  Plan identifiers are SHA-256 digests of a JSON   *)
(* document, represented by the fields of the document.                    *)
(***************************************************************************)
EXTENDS Sorting, FiniteSetsExt, Sequences

CONSTANTS
    NoLimit,  \* a limit the policy leaves out (None)
    Never,    \* the creation time of an unreadable artifact
    Inventories, Policies, Times  \* what plans are looked at for

\* What the artifact directory is listed as: artifacts are told apart by identifier.
IsInventory(inventory) ==
    /\ IsFiniteSet(inventory)
    /\ \A item \in inventory :
          item.id \in Int /\ item.size \in Nat /\ item.created \in Int
    /\ \A x, y \in inventory : x.id = y.id => x = y

\* An age limit is a number of seconds, where there is one.
IsPolicy(policy) == policy.maxAge = NoLimit \/ policy.maxAge \in Nat

ASSUME PlansAreForInventories ==
    /\ \A inventory \in Inventories : IsInventory(inventory)
    /\ \A policy \in Policies : IsPolicy(policy)
    /\ Times \subseteq Int

Exceeds(amount, limit) == limit # NoLimit /\ amount > limit

\* _inventory_sort_key.
Older(x, y) == x.created < y.created \/ (x.created = y.created /\ x.id < y.id)

TotalBytes(items) == MapThenSumSet(LAMBDA item : item.size, items)

Eligible(inventory) ==
    {item \in inventory : item.integrity = "valid" /\ ~item.protected}

Aged(inventory, policy, clock) ==
    {item \in Eligible(inventory) :
        policy.maxAge # NoLimit /\ item.created <= clock - policy.maxAge}

Candidate(item, reasons) == [id |-> item.id, size |-> item.size, reasons |-> reasons]

\* Mutant: an artifact is removed while the limits are met, not exceeded.
ReasonsAtLimit(totals, policy) ==
    {reason \in {"count", "bytes"} :
        IF reason = "count" THEN Exceeds(totals.count + 1, policy.maxArtifacts)
        ELSE Exceeds(totals.bytes + 1, policy.maxBytes)}

\* Why an artifact is removed while the totals are what they are.
Reasons(totals, policy) ==
    {reason \in {"count", "bytes"} :
        IF reason = "count" THEN Exceeds(totals.count, policy.maxArtifacts)
        ELSE Exceeds(totals.bytes, policy.maxBytes)}

\* What is selected, and the running totals, once the aged artifacts are chosen.
\* Only eligible artifacts are ever selected; no reasons: not selected.
TotalsAfterAge(inventory, aged) ==
    [reasons |-> [item \in Eligible(inventory) |-> IF item \in aged THEN {"age"} ELSE {}],
     count |-> Cardinality(inventory) - Cardinality(aged),
     bytes |-> TotalBytes(inventory) - TotalBytes(aged)]

\* One turn of the loop over the eligible artifacts.
Visit(totals, item, policy) ==
    IF Reasons(totals, policy) = {} THEN totals
    ELSE [reasons |-> [totals.reasons EXCEPT ![item] = Reasons(totals, policy)],
          count |-> totals.count - 1, bytes |-> totals.bytes - item.size]

\* The running totals after each turn.
Walk(inventory, policy, clock) ==
    LET aged == Aged(inventory, policy, clock)
        order == Sorted(Eligible(inventory) \ aged, Older)
        totals[k \in 0 .. Len(order)] ==
            IF k = 0 THEN TotalsAfterAge(inventory, aged)
            ELSE Visit(totals[k - 1], order[k], policy)
    IN  totals[Len(order)]

\* plan_artifact_collection.  The candidates are listed in a fixed order, so a
\* set stands for them.  (satisfies_policy's clause on ages holds always: every
\* artifact it could fail for is a candidate.)
Plan(inventory, policy, clock) ==
    LET end == Walk(inventory, policy, clock)
        selected == {item \in Eligible(inventory) : end.reasons[item] # {}}
    IN  [policy |-> policy,
         candidates |-> {Candidate(item, end.reasons[item]) : item \in selected},
         remainingArtifacts |-> end.count, remainingBytes |-> end.bytes,
         satisfies |-> ~Exceeds(end.count, policy.maxArtifacts)
                       /\ ~Exceeds(end.bytes, policy.maxBytes)]

\* What the plan's identifier is computed from.
PlanId(plan) == <<plan.policy, plan.candidates, plan.remainingArtifacts, plan.remainingBytes>>

ChosenIds(plan) == {candidate.id : candidate \in plan.candidates}
Leftover(inventory, plan) == {item \in inventory : item.id \notin ChosenIds(plan)}

-----------------------------------------------------------------------------
(* What the plan should be.                                                *)

WithinLimits(items, policy) ==
    /\ ~Exceeds(Cardinality(items), policy.maxArtifacts)
    /\ ~Exceeds(TotalBytes(items), policy.maxBytes)

\* The eligible artifacts up to and including one, and the empty choice.
OldestFirst(inventory) ==
    {{}} \cup {{x \in Eligible(inventory) : x = y \/ Older(x, y)} : y \in Eligible(inventory)}

\* The smallest run of oldest artifacts that holds every aged one and leaves the
\* inventory within the limits, or all of them when nothing less does.
Reference(inventory, policy, clock) ==
    LET enough == {chosen \in OldestFirst(inventory) :
                      /\ Aged(inventory, policy, clock) \subseteq chosen
                      /\ \/ WithinLimits(inventory \ chosen, policy)
                         \/ chosen = Eligible(inventory)}
    IN  CHOOSE chosen \in enough : \A other \in enough : chosen \subseteq other

\* The walk chooses exactly the artifacts the policy asks for, its running totals
\* are those of the artifacts it leaves, and satisfies_policy says what they mean.
PlanMatches(inventory, policy, clock) ==
    LET plan == Plan(inventory, policy, clock)
        left == Leftover(inventory, plan)
    IN  /\ ChosenIds(plan) = {item.id : item \in Reference(inventory, policy, clock)}
        /\ plan.remainingArtifacts = Cardinality(left)
        /\ plan.remainingBytes = TotalBytes(left)
        /\ plan.satisfies <=> WithinLimits(left, policy) /\ Aged(left, policy, clock) = {}

=============================================================================
