---------------------------- MODULE IdentityPool ----------------------------
(***************************************************************************)
(* reserve_identity and the release of identities: many allocations draw   *)
(* VMIDs from one bounded pool, each VMID fixes an IPv4 address and, with  *)
(* the site's template, a host name, and an identity is drawn again only   *)
(* after the recovery backup of its retired VM was deleted.                *)
(*                                                                         *)
(* reserve_identity is several actions: it takes the Allocation row, then  *)
(* the VMIdentityPool row, reads the used VMIDs, and inserts the VM row;   *)
(* other transactions commit in between (READ COMMITTED).                  *)
(***************************************************************************)
EXTENDS Naturals, FiniteSets

CONSTANTS
    Allocation,         \* primary keys of VM allocations
    VmidMin, VmidMax,   \* configuration.vmid_min, vmid_max
    PoolStart, PoolEnd, \* configuration.ipv4_pool_start, ipv4_pool_end, as integers
    Gateway,            \* configuration.gateway
    TemplateFields,     \* fields hostname_template uses: "allocation_id", "vmid"
    MaxAborts,          \* bound: transactions that die or are rolled back
    None                \* no allocation

\* What ProvisionerConfiguration.clean admits.
ASSUME PoolAssumption ==
    /\ VmidMin \in Nat /\ VmidMax \in Nat /\ VmidMin <= VmidMax
    /\ PoolStart \in Nat /\ PoolEnd \in Nat /\ PoolStart <= PoolEnd
    /\ VmidMax - VmidMin <= PoolEnd - PoolStart
    /\ Gateway \in Nat /\ (Gateway < PoolStart \/ PoolEnd < Gateway)
ASSUME TemplateAssumption == TemplateFields \subseteq {"allocation_id", "vmid"}
ASSUME NamesAssumption == None \notin Allocation /\ MaxAborts \in Nat

VARIABLES
    row,      \* the VirtualMachine row of an allocation, or NoRow
    phase,    \* how far the allocation's reserve_identity has come
    used,     \* the VMIDs it read as used
    holder,   \* the reservation that holds the VMIdentityPool row
    aborts    \* aborts spent, at most MaxAborts

vars == <<row, phase, used, holder, aborts>>

Vmid  == VmidMin..VmidMax
NoRow == [status |-> "Absent"]

\* ip_reservation_status: Reserved, Held for recovery, or Released once
\* retirement_backup_deleted_at is set.
RowStatus == {"Reserved", "Held", "Released"}

\* ipv4_for_vmid and hostname_for.
Ipv4(vmid) == PoolStart + (vmid - VmidMin)

\* Mistake: the host name leaves out the allocation.
HostnameOfVmid(a, vmid) ==
    [allocation |-> None, vmid |-> IF "vmid" \in TemplateFields THEN vmid ELSE 0]

Hostname(a, vmid) == [allocation |-> IF "allocation_id" \in TemplateFields THEN a ELSE None,
                      vmid       |-> IF "vmid" \in TemplateFields THEN vmid ELSE 0]

Exists(a)   == row[a].status # "Absent"
Live(a)     == row[a].status \in {"Reserved", "Held"}
LiveVmids   == {row[a].vmid : a \in {b \in Allocation : Live(b)}}
HostTaken(h) == \E b \in Allocation : Exists(b) /\ Hostname(b, row[b].vmid) = h

\* Mistake: the VMID after the highest used one.
CandidateAfterHighest(a) ==
    IF used[a] = {} THEN VmidMin
    ELSE 1 + CHOOSE v \in used[a] : \A w \in used[a] : w <= v

\* The first candidate of range(vmid_min, vmid_max + 1) that is not used.
Candidate(a) == CHOOSE v \in Vmid \ used[a] : \A w \in Vmid \ used[a] : v <= w

Init ==
    /\ row = [a \in Allocation |-> NoRow]
    /\ phase = [a \in Allocation |-> "idle"]
    /\ used = [a \in Allocation |-> {}]
    /\ holder = None
    /\ aborts = 0

-----------------------------------------------------------------------------
\* The Allocation row is locked: it is Active, has no VM, and its term, flavor
\* and SSH key pass.  An allocation with a VM, retired or not, reserves nothing.
BeginReserve(a) ==
    /\ phase[a] = "idle" /\ ~Exists(a)
    /\ phase' = [phase EXCEPT ![a] = "validated"]
    /\ UNCHANGED <<row, used, holder, aborts>>

\* Mistake: the pool row is read but not locked.
LockPoolShared(a) ==
    /\ phase[a] = "validated"
    /\ holder' = a
    /\ phase' = [phase EXCEPT ![a] = "locked"]
    /\ UNCHANGED <<row, used, aborts>>

\* VMIdentityPool.objects.select_for_update().get_or_create(singleton=1)
LockPool(a) ==
    /\ phase[a] = "validated" /\ holder = None
    /\ holder' = a
    /\ phase' = [phase EXCEPT ![a] = "locked"]
    /\ UNCHANGED <<row, used, aborts>>

\* Mistake: the identities held for recovery count as free.
ReadUsedReserved(a) ==
    /\ phase[a] = "locked"
    /\ used' = [used EXCEPT ![a] =
                  {row[b].vmid : b \in {d \in Allocation : row[d].status = "Reserved"}}]
    /\ phase' = [phase EXCEPT ![a] = "read"]
    /\ UNCHANGED <<row, holder, aborts>>

ReadUsed(a) ==
    /\ phase[a] = "locked"
    /\ used' = [used EXCEPT ![a] = LiveVmids]
    /\ phase' = [phase EXCEPT ![a] = "read"]
    /\ UNCHANGED <<row, holder, aborts>>

\* Mistake: the lock outlives the transaction.
EndReserveHolding(a) ==
    /\ phase' = [phase EXCEPT ![a] = "idle"]
    /\ used' = [used EXCEPT ![a] = {}]
    /\ UNCHANGED holder

\* The end of the transaction releases its locks.
EndReserve(a) ==
    /\ phase' = [phase EXCEPT ![a] = "idle"]
    /\ used' = [used EXCEPT ![a] = {}]
    /\ holder' = IF holder = a THEN None ELSE holder

\* VirtualMachine.objects.create.  The unique host name is the one constraint
\* the pool lock does not already guarantee.
Insert(a) ==
    /\ phase[a] = "read" /\ Vmid \ used[a] # {}
    /\ ~HostTaken(Hostname(a, Candidate(a)))
    /\ row' = [row EXCEPT ![a] = [status |-> "Reserved", vmid |-> Candidate(a)]]
    /\ EndReserve(a)
    /\ UNCHANGED aborts

\* The pool is exhausted, or the host name collides with another row's.
Refuse(a) ==
    /\ phase[a] = "read"
    /\ \/ Vmid \ used[a] = {}
       \/ Vmid \ used[a] # {} /\ HostTaken(Hostname(a, Candidate(a)))
    /\ EndReserve(a)
    /\ UNCHANGED <<row, aborts>>

\* The process dies anywhere in the transaction.
Abort(a) ==
    /\ phase[a] # "idle" /\ aborts < MaxAborts
    /\ EndReserve(a)
    /\ aborts' = aborts + 1
    /\ UNCHANGED row

\* The retirement worker sets state Retired ...
Retire(a) ==
    /\ row[a].status = "Reserved"
    /\ row' = [row EXCEPT ![a].status = "Held"]
    /\ UNCHANGED <<phase, used, holder, aborts>>

\* ... and, after retention, _record_retirement_backup_deleted frees the VMID
\* without taking the pool row.
Release(a) ==
    /\ row[a].status = "Held"
    /\ row' = [row EXCEPT ![a].status = "Released"]
    /\ UNCHANGED <<phase, used, holder, aborts>>

\* create_provisioning_job read the VM before it was Retired and queues it now: its
\* identity is in use again.
Requeue(a) ==
    /\ row[a].status = "Held"
    /\ row' = [row EXCEPT ![a].status = "Reserved"]
    /\ UNCHANGED <<phase, used, holder, aborts>>

Next ==
    \E a \in Allocation :
        \/ BeginReserve(a) \/ LockPool(a) \/ ReadUsed(a)
        \/ Insert(a) \/ Refuse(a) \/ Abort(a)
        \/ Retire(a) \/ Release(a) \/ Requeue(a)

Spec == Init /\ [][Next]_vars

\* Database locks are granted and transactions proceed.
Fairness ==
    \A a \in Allocation :
        /\ SF_vars(LockPool(a))
        /\ WF_vars(ReadUsed(a) \/ Insert(a) \/ Refuse(a))

-----------------------------------------------------------------------------
TypeOK ==
    /\ row \in [Allocation -> [status : RowStatus, vmid : Vmid] \cup {NoRow}]
    /\ phase \in [Allocation -> {"idle", "validated", "locked", "read"}]
    /\ used \in [Allocation -> SUBSET Vmid]
    /\ holder \in Allocation \cup {None}
    /\ aborts \in 0..MaxAborts

\* Two live or recoverable VMs never share a VMID or an IPv4 address, and no
\* address is the gateway's or outside the pool: the pool row, held from before
\* the used VMIDs are read until the insert commits, is enough although releases
\* and retirements do not take it.  The unique constraints pve_one_live_vmid and
\* pve_one_live_ipv4 are never needed.
LiveIdentitiesDistinct ==
    \A a, b \in Allocation :
        Live(a) =>
            /\ Ipv4(row[a].vmid) \in PoolStart..PoolEnd
            /\ Ipv4(row[a].vmid) # Gateway
            /\ Live(b) /\ a # b => /\ row[a].vmid # row[b].vmid
                                   /\ Ipv4(row[a].vmid) # Ipv4(row[b].vmid)

\* What the pool row protects, and why LiveIdentitiesDistinct is inductive: one
\* reservation at a time is past LockPool, what it read as free cannot be taken
\* until it inserts, and it inserts for an allocation that has no VM.
PoolLockProtects ==
    \A a \in Allocation :
        /\ phase[a] \in {"locked", "read"} <=> holder = a
        /\ phase[a] = "read" => LiveVmids \subseteq used[a]
        /\ phase[a] # "idle" => ~Exists(a)

\* Every reservation that begins ends: pool rows are not held for ever.
ReservationsEnd == \A a \in Allocation : phase[a] # "idle" ~> phase[a] = "idle"

\* docs/CONFIGURATION.md: a later VM safely reuses a released address.  A free
\* VMID that a reservation is about to take is never refused for its host name,
\* although released rows keep theirs and the column is unique over all rows.
\* It takes a template that names the allocation, as the default does.
ReleasedIsReusable ==
    \A a \in Allocation :
        "allocation_id" \in TemplateFields /\ phase[a] = "read" /\ Vmid \ used[a] # {}
            => ~HostTaken(Hostname(a, Candidate(a)))

-----------------------------------------------------------------------------
(* Refinement: a registry in which a VMID has at most one owner.           *)

owner == [v \in Vmid |->
            IF v \in LiveVmids THEN CHOOSE a \in Allocation : Live(a) /\ row[a].vmid = v
            ELSE None]

Registry == INSTANCE IdentityRegistry WITH Identity <- Vmid

\* Reservation is mutual exclusion: identities pass from free to one owner and
\* back, and an allocation draws at most one identity in its life.
ImplementsRegistry == Registry!Spec
=============================================================================
