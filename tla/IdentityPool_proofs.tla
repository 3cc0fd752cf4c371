------------------------- MODULE IdentityPool_proofs -------------------------
(***************************************************************************)
(* Theorems about IdentityPool for every set of allocations and every pool *)
(* that the configuration admits: live identities are distinct, released   *)
(* ones can be drawn again, and the pool implements the registry in which  *)
(* an identity has one owner.                                              *)
(***************************************************************************)
EXTENDS IdentityPool, WellFoundedInduction, TLAPS

-----------------------------------------------------------------------------
(* Lemmas about rows and candidates.                                       *)

\* What the type of the rows says of an allocation's row.
LEMMA RowType ==
    ASSUME TypeOK, NEW a \in Allocation
    PROVE  /\ row[a] \in [status : RowStatus, vmid : Vmid] \/ row[a] = NoRow
           /\ Exists(a) => row[a] \in [status : RowStatus, vmid : Vmid]
           /\ Live(a) => Exists(a)
           /\ row[a].status = "Reserved" \/ row[a].status = "Held" => Live(a)
  <1>1. row[a] \in [status : RowStatus, vmid : Vmid] \/ row[a] = NoRow
    BY DEF TypeOK
  <1>2. row[a] = NoRow => ~Exists(a)
    BY DEF Exists, NoRow
  <1> QED BY <1>1, <1>2 DEF Exists, Live

\* The live VMIDs are VMIDs of the pool.
LEMMA LiveVmidsType ==
    ASSUME TypeOK
    PROVE  LiveVmids \subseteq Vmid
  <1>1. \A a \in Allocation : Live(a) => row[a].vmid \in Vmid
    BY RowType
  <1> QED BY <1>1 DEF LiveVmids

\* When a VMID is free, the first candidate is one: a nonempty set of natural
\* numbers has a smallest element.
LEMMA CandidateFree ==
    ASSUME NEW a \in Allocation, Vmid \ used[a] # {}
    PROVE  Candidate(a) \in Vmid \ used[a]
  <1> DEFINE free == Vmid \ used[a]
  <1>1. free \subseteq Nat
    BY PoolAssumption DEF Vmid
  <1> HIDE DEF free
  <1>2. free # {}
    BY DEF free
  <1>3. PICK v \in free : \A w \in free : <<w, v>> \notin OpToRel(<, Nat)
    BY <1>1, <1>2, WFMin, NatLessThanWellFounded, Zenon
  <1>4. \A w \in free : ~(w < v)
    BY <1>1, <1>3, Zenon DEF OpToRel
  <1>5. \A w \in free : v <= w
    BY <1>1, <1>4
  <1>6. \E u \in free : \A w \in free : u <= w
    BY <1>5
  <1> QED BY <1>6, Zenon DEF Candidate, free

-----------------------------------------------------------------------------
(* The inductive invariant: the pool row's holder is the only reservation past
   LockPool, and no VMID it read as free has become live since.            *)

\* LiveIdentitiesDistinct without the arithmetic of addresses.
VmidsDistinct ==
    \A a, b \in Allocation : Live(a) /\ Live(b) /\ a # b => row[a].vmid # row[b].vmid

\* The inductive invariant.
IInv == TypeOK /\ PoolLockProtects /\ VmidsDistinct

\* The empty pool satisfies it.
LEMMA InvInit == Init => IInv
  <1> SUFFICES ASSUME Init PROVE IInv
    OBVIOUS
  <1>1. \A a \in Allocation : ~Live(a) /\ ~Exists(a)
    BY DEF Init, Live, Exists, NoRow
  <1>2. TypeOK
    BY NamesAssumption DEF Init, TypeOK
  <1>3. PoolLockProtects
    BY <1>1, NamesAssumption DEF Init, PoolLockProtects
  <1> QED BY <1>1, <1>2, <1>3 DEF IInv, VmidsDistinct

\* A step of a reservation that leaves the VM rows alone.
LEMMA KeepRows ==
    ASSUME UNCHANGED row
    PROVE  /\ LiveVmids' = LiveVmids /\ (VmidsDistinct' <=> VmidsDistinct)
           /\ \A a \in Allocation : Exists(a)' <=> Exists(a)
  BY DEF LiveVmids, Live, VmidsDistinct, Exists

\* The end of a reservation keeps the types and gives up the pool row.
LEMMA EndReserveType ==
    ASSUME IInv, NEW a \in Allocation, EndReserve(a)
    PROVE  /\ phase' \in [Allocation -> {"idle", "validated", "locked", "read"}]
           /\ used' \in [Allocation -> SUBSET Vmid]
           /\ holder' \in Allocation \cup {None}
           /\ phase'[a] = "idle" /\ holder' # a
           /\ \A b \in Allocation \ {a} : /\ phase'[b] = phase[b] /\ used'[b] = used[b]
                                          /\ holder' = b <=> holder = b
  BY NamesAssumption DEF IInv, TypeOK, EndReserve

\* Retirement, release and requeueing change the status of a row and nothing else.
LEMMA StatusRow ==
    ASSUME IInv, NEW a \in Allocation, NEW s \in RowStatus, Live(a),
           row' = [row EXCEPT ![a].status = s], UNCHANGED <<phase, used, holder, aborts>>
    PROVE  IInv'
  <1>1. row[a] \in [status : RowStatus, vmid : Vmid]
    BY RowType DEF IInv
  <1>2. row'[a] = [row[a] EXCEPT !.status = s]
    BY DEF IInv, TypeOK
  <1>3. row'[a] \in [status : RowStatus, vmid : Vmid] /\ row'[a].vmid = row[a].vmid
    BY <1>1, <1>2 DEF RowStatus
  <1>4. \A b \in Allocation \ {a} : row'[b] = row[b]
    BY DEF IInv, TypeOK
  <1>5. row'[a].status = s
    BY <1>1, <1>2
  <1>6. TypeOK'
    BY <1>3, <1>4 DEF IInv, TypeOK
  <1>7. \A b \in Allocation : /\ Live(b)' => Live(b)
                              /\ row'[b].vmid = row[b].vmid
                              /\ Exists(b)' <=> Exists(b)
    <2>1. Exists(a) /\ Exists(a)'
      BY <1>5, RowType DEF IInv, Exists, RowStatus
    <2> QED BY <1>3, <1>4, <2>1 DEF Live, Exists
  <1>8. LiveVmids' \subseteq LiveVmids
    BY <1>7 DEF LiveVmids
  <1>9. PoolLockProtects'
    BY <1>7, <1>8 DEF IInv, PoolLockProtects
  <1>10. VmidsDistinct'
    BY <1>7 DEF IInv, VmidsDistinct
  <1> QED BY <1>6, <1>9, <1>10 DEF IInv

\* The row a reservation inserts: the only live one with its VMID.
LEMMA InsertRow ==
    ASSUME IInv, NEW a \in Allocation, Insert(a)
    PROVE  /\ row'[a] \in [status : RowStatus, vmid : Vmid]
           /\ row'[a].status = "Reserved" /\ row'[a].vmid = Candidate(a)
           /\ \A b \in Allocation \ {a} : row'[b] = row[b]
           /\ ~Live(a) /\ Live(a)' /\ Candidate(a) \in Vmid \ LiveVmids
  <1>1. Candidate(a) \in Vmid \ used[a]
    BY CandidateFree DEF Insert
  <1>2. phase[a] = "read" /\ LiveVmids \subseteq used[a] /\ ~Exists(a)
    BY DEF IInv, PoolLockProtects, Insert
  <1>3. row'[a] = [status |-> "Reserved", vmid |-> Candidate(a)]
    BY DEF Insert, IInv, TypeOK
  <1>4. \A b \in Allocation \ {a} : row'[b] = row[b]
    BY DEF Insert, IInv, TypeOK
  <1>5. row'[a].status = "Reserved" /\ row'[a].vmid = Candidate(a)
    BY <1>3
  <1>6. row'[a] \in [status : RowStatus, vmid : Vmid]
    BY <1>1, <1>3 DEF RowStatus
  <1>7. ~Live(a) /\ Live(a)'
    BY <1>2, <1>5, RowType DEF IInv, Live
  <1> QED BY <1>1, <1>2, <1>4, <1>5, <1>6, <1>7

\* Every step of a reservation, a retirement and a release keeps it.
LEMMA InvStep ==
    ASSUME IInv, [Next]_vars
    PROVE  IInv'
  <1>1. ASSUME NEW a \in Allocation, BeginReserve(a) PROVE IInv'
    <2>1. TypeOK'
      BY <1>1 DEF BeginReserve, IInv, TypeOK
    <2>2. PoolLockProtects'
      BY <1>1, KeepRows DEF BeginReserve, IInv, TypeOK, PoolLockProtects
    <2> QED BY <1>1, <2>1, <2>2, KeepRows DEF BeginReserve, IInv
  <1>2. ASSUME NEW a \in Allocation, LockPool(a) PROVE IInv'
    <2>1. TypeOK'
      BY <1>2 DEF LockPool, IInv, TypeOK
    <2>2. PoolLockProtects'
      BY <1>2, KeepRows, NamesAssumption DEF LockPool, IInv, TypeOK, PoolLockProtects
    <2> QED BY <1>2, <2>1, <2>2, KeepRows DEF LockPool, IInv
  <1>3. ASSUME NEW a \in Allocation, ReadUsed(a) PROVE IInv'
    <2>1. TypeOK'
      BY <1>3, LiveVmidsType DEF ReadUsed, IInv, TypeOK
    <2>2. PoolLockProtects'
      BY <1>3, KeepRows DEF ReadUsed, IInv, TypeOK, PoolLockProtects
    <2> QED BY <1>3, <2>1, <2>2, KeepRows DEF ReadUsed, IInv
  <1>4. ASSUME NEW a \in Allocation, Insert(a) PROVE IInv'
    <2>1. EndReserve(a) /\ aborts' = aborts /\ phase[a] = "read"
      BY <1>4 DEF Insert
    <2>2. TypeOK'
      <3>1. row' \in [Allocation -> [status : RowStatus, vmid : Vmid] \cup {NoRow}]
        BY <1>4, InsertRow DEF Insert, IInv, TypeOK
      <3> QED BY <2>1, <3>1, EndReserveType DEF IInv, TypeOK
    <2>3. PoolLockProtects'
      <3>1. \A b \in Allocation \ {a} : phase[b] \notin {"locked", "read"}
        BY <2>1 DEF IInv, PoolLockProtects
      <3>2. \A b \in Allocation \ {a} : Exists(b)' <=> Exists(b)
        BY <1>4, InsertRow DEF Exists
      <3> QED BY <2>1, <3>1, <3>2, EndReserveType DEF IInv, PoolLockProtects
    <2>4. VmidsDistinct'
      <3>1. \A b \in Allocation \ {a} :
              /\ Live(b)' <=> Live(b)
              /\ row'[b].vmid = row[b].vmid
              /\ Live(b) => row[b].vmid # Candidate(a)
        BY <1>4, InsertRow DEF Live, LiveVmids
      <3>2. row'[a].vmid = Candidate(a)
        BY <1>4, InsertRow
      <3> QED BY <3>1, <3>2 DEF IInv, VmidsDistinct
    <2> QED BY <2>2, <2>3, <2>4 DEF IInv
  <1>5. ASSUME NEW a \in Allocation, EndReserve(a), UNCHANGED row,
               aborts' \in 0..MaxAborts
        PROVE  IInv'
    <2>1. TypeOK'
      BY <1>5, EndReserveType DEF IInv, TypeOK
    <2>2. PoolLockProtects'
      BY <1>5, EndReserveType, KeepRows DEF IInv, PoolLockProtects
    <2> QED BY <1>5, <2>1, <2>2, KeepRows DEF IInv
  <1>6. ASSUME NEW a \in Allocation, Refuse(a) \/ Abort(a) PROVE IInv'
    <2>1. aborts' \in 0..MaxAborts
      BY <1>6, NamesAssumption DEF Refuse, Abort, IInv, TypeOK
    <2> QED BY <1>5, <1>6, <2>1 DEF Refuse, Abort
  <1>7. ASSUME NEW a \in Allocation, Retire(a) \/ Release(a) \/ Requeue(a) PROVE IInv'
    <2>1. Live(a)
      BY <1>7 DEF Retire, Release, Requeue, Live
    <2> QED BY <1>7, <2>1, StatusRow DEF Retire, Release, Requeue, RowStatus
  <1>8. CASE UNCHANGED vars
    BY <1>8, KeepRows DEF vars, IInv, TypeOK, PoolLockProtects
  <1> QED BY <1>1, <1>2, <1>3, <1>4, <1>6, <1>7, <1>8 DEF Next

\* Distinct VMIDs of the pool give distinct addresses of the pool, none of them
\* the gateway's.
LEMMA AddressesDistinct ==
    ASSUME TypeOK, VmidsDistinct
    PROVE  LiveIdentitiesDistinct
  <1>1. \A a \in Allocation : Live(a) => row[a].vmid \in Vmid
    BY RowType
  <1>2. ASSUME NEW v \in Vmid
        PROVE  Ipv4(v) \in PoolStart..PoolEnd /\ Ipv4(v) # Gateway
    BY PoolAssumption DEF Vmid, Ipv4
  <1>3. ASSUME NEW v \in Vmid, NEW w \in Vmid, v # w PROVE Ipv4(v) # Ipv4(w)
    BY <1>3, PoolAssumption DEF Vmid, Ipv4
  <1> QED BY <1>1, <1>2, <1>3 DEF LiveIdentitiesDistinct, VmidsDistinct

\* IInv holds in every state: the pool row serialises reservations.
THEOREM IInvInvariant == Spec => []IInv
  BY InvInit, InvStep, PTL DEF Spec

\* Every row has a VMID of the pool and at most one reservation holds the pool.
THEOREM TypeCorrect == Spec => []TypeOK
  <1>1. IInv => TypeOK
    BY DEF IInv
  <1> QED BY <1>1, IInvInvariant, PTL

\* Two live or recoverable VMs never share a VMID or an address, and addresses
\* stay in the pool and off the gateway.
THEOREM IdentitiesDistinct == Spec => []LiveIdentitiesDistinct
  <1>1. IInv => LiveIdentitiesDistinct
    BY AddressesDistinct DEF IInv
  <1> QED BY <1>1, IInvInvariant, PTL

\* The row locked in VMIdentityPool serialises reservations.
THEOREM LockProtects == Spec => []PoolLockProtects
  <1>1. IInv => PoolLockProtects
    BY DEF IInv
  <1> QED BY <1>1, IInvInvariant, PTL

\* A free VMID is never refused for its host name: with the allocation in the
\* template, only a row of the same allocation could hold the name, and a
\* reservation runs only for an allocation without a row.
THEOREM ReleasedReusable == Spec => []ReleasedIsReusable
  <1>1. IInv => ReleasedIsReusable
    <2> SUFFICES ASSUME IInv, NEW a \in Allocation, "allocation_id" \in TemplateFields,
                        phase[a] = "read"
                 PROVE  ~HostTaken(Hostname(a, Candidate(a)))
      BY DEF ReleasedIsReusable
    <2>1. ~Exists(a)
      BY DEF IInv, PoolLockProtects
    <2>2. \A b \in Allocation : \A v, w : Hostname(b, v) = Hostname(a, w) => b = a
      BY DEF Hostname
    <2> QED BY <2>1, <2>2, Zenon DEF HostTaken
  <1> QED BY <1>1, IInvInvariant, PTL

-----------------------------------------------------------------------------
(* Refinement of IdentityRegistry.                                         *)

\* The mapping: a live VMID is owned by its one live row, any other is free.
LEMMA OwnerOf ==
    ASSUME TypeOK, VmidsDistinct
    PROVE  /\ DOMAIN owner = Vmid
           /\ \A v \in Vmid \ LiveVmids : owner[v] = None
           /\ \A a \in Allocation : Live(a) => owner[row[a].vmid] = a
  <1>1. ASSUME NEW a \in Allocation, Live(a) PROVE owner[row[a].vmid] = a
    <2>1. row[a].vmid \in Vmid /\ row[a].vmid \in LiveVmids
      BY <1>1, RowType DEF LiveVmids
    <2>2. (CHOOSE b \in Allocation : Live(b) /\ row[b].vmid = row[a].vmid) = a
      BY <1>1 DEF VmidsDistinct
    <2> QED BY <2>1, <2>2 DEF owner
  <1> QED BY <1>1 DEF owner

\* The same after a step.
LEMMA OwnerOfNext ==
    ASSUME TypeOK', VmidsDistinct', \A a \in Allocation : Live(a)' => row'[a].vmid \in Vmid
    PROVE  /\ DOMAIN owner' = Vmid
           /\ \A v \in Vmid \ LiveVmids' : owner'[v] = None
           /\ \A a \in Allocation : Live(a)' => owner'[row'[a].vmid] = a
  <1>1. ASSUME NEW a \in Allocation, Live(a)' PROVE owner'[row'[a].vmid] = a
    <2>1. row'[a].vmid \in Vmid /\ row'[a].vmid \in LiveVmids'
      BY <1>1 DEF LiveVmids
    <2>2. (CHOOSE b \in Allocation : Live(b)' /\ row'[b].vmid = row'[a].vmid) = a
      BY <1>1 DEF VmidsDistinct
    <2> QED BY <2>1, <2>2 DEF owner
  <1> QED BY <1>1 DEF owner

\* owner is a function on the VMIDs, before and after a step.
LEMMA OwnerIsFunction ==
    /\ owner = [w \in Vmid |-> owner[w]]
    /\ owner' = [w \in Vmid |-> owner'[w]]
  <1>1. \A w \in Vmid : owner[w] = IF w \in LiveVmids
             THEN CHOOSE a \in Allocation : Live(a) /\ row[a].vmid = w ELSE None
    BY DEF owner
  <1>2. \A w \in Vmid : owner'[w] = IF w \in LiveVmids'
             THEN CHOOSE a \in Allocation : Live(a)' /\ row'[a].vmid = w ELSE None
    BY DEF owner
  <1>3. owner = [w \in Vmid |-> owner[w]]
    BY <1>1 DEF owner
  <1>4. owner' = [w \in Vmid |-> owner'[w]]
    BY <1>2 DEF owner
  <1> QED BY <1>3, <1>4

\* A reservation that inserts takes a free VMID for an allocation without one.
LEMMA InsertReserves ==
    ASSUME IInv, IInv', NEW a \in Allocation, Insert(a)
    PROVE  Registry!Reserve(Candidate(a), a)
  <1> DEFINE v == Candidate(a)
  <1>1. v \in Vmid \ LiveVmids /\ ~Live(a) /\ Live(a)' /\ row'[a].vmid = v
    BY InsertRow
  <1>2. \A b \in Allocation \ {a} : (Live(b)' <=> Live(b)) /\ row'[b].vmid = row[b].vmid
    BY InsertRow DEF Live
  <1>3. LiveVmids' = LiveVmids \cup {v}
    BY <1>1, <1>2 DEF LiveVmids
  <1>4. /\ DOMAIN owner = Vmid /\ DOMAIN owner' = Vmid
        /\ \A w \in Vmid \ LiveVmids : owner[w] = None
        /\ \A w \in Vmid \ LiveVmids' : owner'[w] = None
        /\ \A b \in Allocation : Live(b) => owner[row[b].vmid] = b
        /\ \A b \in Allocation : Live(b)' => owner'[row'[b].vmid] = b
    <2>1. \A b \in Allocation : Live(b)' => row'[b].vmid \in Vmid
      BY <1>1, <1>2, RowType DEF IInv
    <2> QED BY <2>1, OwnerOf, OwnerOfNext DEF IInv
  <1>5. owner[v] = None /\ owner'[v] = a
    BY <1>1, <1>4
  <1>6. \A w \in Vmid : owner[w] # a
    <2>1. \A w \in LiveVmids : \E b \in Allocation : Live(b) /\ row[b].vmid = w
      BY DEF LiveVmids
    <2> QED BY <1>1, <1>4, <2>1, NamesAssumption
  <1>7. \A w \in Vmid \ {v} : owner'[w] = owner[w]
    <2>1. \A w \in LiveVmids : \E b \in Allocation : Live(b) /\ row[b].vmid = w
      BY DEF LiveVmids
    <2> QED BY <1>1, <1>2, <1>3, <1>4, <2>1
  <1> HIDE DEF v
  <1>8. owner' = [owner EXCEPT ![v] = a]
    <2>1. owner = [w \in Vmid |-> owner[w]] /\ owner' = [w \in Vmid |-> owner'[w]]
      BY OwnerIsFunction
    <2> QED BY <1>5, <1>7, <2>1
  <1> QED BY <1>5, <1>6, <1>8 DEF Registry!Reserve, v

\* A release frees the VMID of the row.
LEMMA ReleaseFrees ==
    ASSUME IInv, IInv', NEW a \in Allocation, Release(a)
    PROVE  Registry!Free(row[a].vmid) /\ row[a].vmid \in Vmid
  <1> DEFINE v == row[a].vmid
  <1>1. Live(a) /\ row[a] \in [status : RowStatus, vmid : Vmid]
    BY RowType DEF IInv, Release
  <1>2. row'[a] = [row[a] EXCEPT !.status = "Released"]
    BY DEF Release, IInv, TypeOK
  <1>3. ~Live(a)' /\ v \in Vmid
    BY <1>1, <1>2 DEF Live
  <1>4. \A b \in Allocation \ {a} : (Live(b)' <=> Live(b)) /\ row'[b].vmid = row[b].vmid
    BY DEF Live, Release, IInv, TypeOK
  <1>5. LiveVmids' = LiveVmids \ {v}
    BY <1>1, <1>3, <1>4 DEF LiveVmids, IInv, VmidsDistinct
  <1>6. /\ DOMAIN owner = Vmid /\ DOMAIN owner' = Vmid
        /\ \A w \in Vmid \ LiveVmids : owner[w] = None
        /\ \A w \in Vmid \ LiveVmids' : owner'[w] = None
        /\ \A b \in Allocation : Live(b) => owner[row[b].vmid] = b
        /\ \A b \in Allocation : Live(b)' => owner'[row'[b].vmid] = b
    <2>1. \A b \in Allocation : Live(b)' => row'[b].vmid \in Vmid
      BY <1>3, <1>4, RowType DEF IInv
    <2> QED BY <2>1, OwnerOf, OwnerOfNext DEF IInv
  <1>7. owner[v] # None /\ owner'[v] = None
    BY <1>1, <1>3, <1>5, <1>6, NamesAssumption
  <1>8. \A w \in Vmid \ {v} : owner'[w] = owner[w]
    <2>1. \A w \in LiveVmids : \E b \in Allocation : Live(b) /\ row[b].vmid = w
      BY DEF LiveVmids
    <2> QED BY <1>3, <1>4, <1>5, <1>6, <2>1
  <1> HIDE DEF v
  <1>9. owner' = [owner EXCEPT ![v] = None]
    <2>1. owner = [w \in Vmid |-> owner[w]] /\ owner' = [w \in Vmid |-> owner'[w]]
      BY OwnerIsFunction
    <2> QED BY <1>7, <1>8, <2>1
  <1> QED BY <1>3, <1>7, <1>9 DEF Registry!Free, v

\* Holding a VM for recovery changes no owner, nor does queueing it again.
LEMMA RetireKeeps ==
    ASSUME IInv, IInv', NEW a \in Allocation, Retire(a) \/ Requeue(a)
    PROVE  owner' = owner
  <1>1. row[a] \in [status : RowStatus, vmid : Vmid] /\ Live(a)
    BY RowType DEF IInv, Retire, Requeue, Live
  <1>2. PICK s \in {"Reserved", "Held"} : row'[a] = [row[a] EXCEPT !.status = s]
    BY DEF Retire, Requeue, IInv, TypeOK
  <1>3. Live(a) /\ Live(a)' /\ row'[a].vmid = row[a].vmid
    BY <1>1, <1>2 DEF Live
  <1>4. \A b \in Allocation : (Live(b)' <=> Live(b)) /\ row'[b].vmid = row[b].vmid
    BY <1>3 DEF Live, Retire, Requeue, IInv, TypeOK
  <1>5. LiveVmids' = LiveVmids
    BY <1>4 DEF LiveVmids
  <1>6. /\ \A w \in Vmid \ LiveVmids : owner[w] = None
        /\ \A w \in Vmid \ LiveVmids' : owner'[w] = None
        /\ \A b \in Allocation : Live(b) => owner[row[b].vmid] = b
        /\ \A b \in Allocation : Live(b)' => owner'[row'[b].vmid] = b
    <2>1. \A b \in Allocation : Live(b)' => row'[b].vmid \in Vmid
      BY <1>4, RowType DEF IInv
    <2> QED BY <2>1, OwnerOf, OwnerOfNext DEF IInv
  <1>7. \A w \in Vmid : owner'[w] = owner[w]
    <2>1. \A w \in LiveVmids : \E b \in Allocation : Live(b) /\ row[b].vmid = w
      BY DEF LiveVmids
    <2> QED BY <1>4, <1>5, <1>6, <2>1
  <1>8. owner = [w \in Vmid |-> owner[w]] /\ owner' = [w \in Vmid |-> owner'[w]]
    BY OwnerIsFunction
  <1> QED BY <1>7, <1>8

\* Reservation, retirement and release implement the registry: an identity
\* passes from free to one owner and back, and an owner has one identity.
THEOREM PoolImplementsRegistry == Spec => ImplementsRegistry
  <1>1. Init => Registry!Init
    <2> SUFFICES ASSUME Init PROVE owner = [v \in Vmid |-> None]
      BY DEF Registry!Init
    <2>1. LiveVmids = {}
      BY DEF Init, LiveVmids, Live, NoRow
    <2> QED BY <2>1, Zenon DEF owner
  <1>2. IInv /\ IInv' /\ [Next]_vars => [Registry!Next]_owner
    <2> SUFFICES ASSUME IInv, IInv', [Next]_vars PROVE [Registry!Next]_owner
      OBVIOUS
    <2>1. ASSUME UNCHANGED row PROVE owner' = owner
      BY <2>1 DEF owner, LiveVmids, Live
    <2>2. ASSUME NEW a \in Allocation, Insert(a) PROVE Registry!Next
      <3>1. Candidate(a) \in Vmid
        BY <2>2, InsertRow
      <3> QED BY <2>2, <3>1, InsertReserves DEF Registry!Next
    <2>3. ASSUME NEW a \in Allocation, Release(a) PROVE Registry!Next
      BY <2>3, ReleaseFrees DEF Registry!Next
    <2>4. ASSUME NEW a \in Allocation,
                 BeginReserve(a) \/ LockPool(a) \/ ReadUsed(a) \/ Refuse(a) \/ Abort(a)
          PROVE  owner' = owner
      BY <2>1, <2>4 DEF BeginReserve, LockPool, ReadUsed, Refuse, Abort
    <2>5. CASE UNCHANGED vars
      BY <2>1, <2>5 DEF vars
    <2> QED BY <2>2, <2>3, <2>4, <2>5, RetireKeeps DEF Next
  <1> QED BY <1>1, <1>2, IInvInvariant, PTL DEF Spec, ImplementsRegistry, Registry!Spec
=============================================================================
