--------------------------- MODULE MCIdentityPool ---------------------------
(* Instances of IdentityPool, with the cleanup that releases identities,   *)
(* for TLC: more allocations than VMIDs, so that the pool runs out and     *)
(* released identities are drawn again.                                    *)
EXTENDS BackupCleanup

CONSTANTS a1, a2, a3
MCAllocation == {a1, a2, a3}
FullTemplate == {"allocation_id", "vmid"}
=============================================================================
