-------------------------- MODULE IdentityRegistry --------------------------
(***************************************************************************)
(* What the identity pool promises (docs/ARCHITECTURE.md, "Identity        *)
(* invariant"): an identity has at most one owner, it passes to an owner   *)
(* only when free, it returns to free only from its owner, and an owner    *)
(* never has two.  Module IdentityPool implements this one.                *)
(***************************************************************************)
CONSTANTS Identity, Allocation, None

VARIABLE owner

Init == owner = [v \in Identity |-> None]

\* A free identity gets an owner that has none.
Reserve(v, a) ==
    /\ owner[v] = None
    /\ \A w \in Identity : owner[w] # a
    /\ owner' = [owner EXCEPT ![v] = a]

Free(v) ==
    /\ owner[v] # None
    /\ owner' = [owner EXCEPT ![v] = None]

Next == \E v \in Identity : Free(v) \/ \E a \in Allocation : Reserve(v, a)

Spec == Init /\ [][Next]_owner
=============================================================================
