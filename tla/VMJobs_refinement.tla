-------------------------- MODULE VMJobs_refinement --------------------------
(***************************************************************************)
(* The job table of one VM implements the single slot of module JobSlot:   *)
(* initial states map to the empty slot, and every step of VMJobs is a     *)
(* step of the slot or leaves it alone.  The mapping takes the open job, of *)
(* which SingleOpenJob says that there is at most one.                     *)
(***************************************************************************)
EXTENDS VMJobs_proofs

-----------------------------------------------------------------------------
(* The refinement mapping, before and after a step.                        *)

\* With one job open the slot holds it.
LEMMA SlotHolds ==
    ASSUME SingleOpenJob, NEW j \in Job, Open(j)
    PROVE  theSlot = job[j]
  <1>1. j \in OpenJobs
    BY DEF OpenJobs
  <1>2. (CHOOSE i \in Job : Open(i)) = j
    BY DEF SingleOpenJob
  <1> QED BY <1>1, <1>2 DEF theSlot

\* The same after a step.
LEMMA SlotHoldsNext ==
    ASSUME SingleOpenJob', NEW j \in Job, Open(j)'
    PROVE  theSlot' = job'[j]
  <1>1. j \in OpenJobs'
    BY DEF OpenJobs
  <1>2. (CHOOSE i \in Job : Open(i)') = j
    BY DEF SingleOpenJob
  <1> QED BY <1>1, <1>2 DEF theSlot

\* With no job open the slot is empty.
LEMMA SlotEmpty ==
    ASSUME \A j \in Job : ~Open(j)
    PROVE  theSlot = Slot!Empty
  BY DEF theSlot, OpenJobs, Slot!Empty

\* The same after a step.
LEMMA SlotEmptyNext ==
    ASSUME \A j \in Job : ~Open(j)'
    PROVE  theSlot' = Slot!Empty
  BY DEF theSlot, OpenJobs, Slot!Empty

-----------------------------------------------------------------------------
(* The steps of the slot.                                                  *)

\* A job created while none is open enters the slot.
LEMMA CreateEnters ==
    ASSUME TypeOK, SingleOpenJob', OpenJobs = {}, NEW j \in Job, NEW a \in Actions,
           CreateJob(j, a)
    PROVE  Slot!Enter(a)
  <1>1. job'[j] = [status |-> "Queued", action |-> a, attempts |-> 0]
    BY DEF CreateJob, TypeOK
  <1> DEFINE row == [status |-> "Queued", action |-> a, attempts |-> 0]
  <1>2. row.status = "Queued"
    OBVIOUS
  <1>3. job'[j].status = "Queued"
    BY <1>1, <1>2, Zenon
  <1>4. Open(j)'
    BY <1>3, Zenon DEF Open, OpenStatus
  <1>5. theSlot' = row
    BY <1>1, <1>4, SlotHoldsNext
  <1>6. theSlot = Slot!Empty
    BY SlotEmpty DEF OpenJobs
  <1> QED BY <1>5, <1>6, Zenon DEF Slot!Enter

\* A Running job that is handed back goes back to the queue.
LEMMA RequeueRequeues ==
    ASSUME TypeOK, SingleOpenJob, SingleOpenJob', NEW j \in Job,
           job[j].status = "Running", job[j].attempts < MaxAttempts,
           job' = [job EXCEPT ![j].status = "Queued"]
    PROVE  Slot!Requeue
  <1>1. job'[j].status = "Queued" /\ job'[j] = [job[j] EXCEPT !.status = "Queued"]
    BY StatusRow
  <1>2. Open(j) /\ Open(j)'
    BY <1>1, Zenon DEF Open, OpenStatus
  <1>3. theSlot = job[j] /\ theSlot' = job'[j]
    BY <1>2, SlotHolds, SlotHoldsNext
  <1> QED BY <1>1, <1>3, Zenon DEF Slot!Requeue

\* A Running job that is closed leaves the slot.
LEMMA CloseLeaves ==
    ASSUME TypeOK, SingleOpenJob, NEW j \in Job, job[j].status = "Running",
           NEW s \in JobStatus \ OpenStatus, job' = [job EXCEPT ![j].status = s]
    PROVE  Slot!Leave
  <1>1. job'[j].status = s /\ \A i \in Job \ {j} : job'[i] = job[i]
    BY StatusRow
  <1>2. Open(j)
    BY Zenon DEF Open, OpenStatus
  <1>3. ~Open(j)'
    BY <1>1 DEF Open
  <1>4. \A i \in Job \ {j} : ~Open(i)'
    BY <1>1, <1>2 DEF SingleOpenJob, Open
  <1>5. theSlot' = Slot!Empty
    BY <1>3, <1>4, SlotEmptyNext
  <1>6. theSlot = job[j]
    BY <1>2, SlotHolds
  <1> QED BY <1>5, <1>6, Zenon DEF Slot!Leave

\* A step that leaves the jobs alone leaves the slot alone.
LEMMA KeepSlot ==
    ASSUME job' = job
    PROVE  theSlot' = theSlot
  BY DEF theSlot, OpenJobs, Open

-----------------------------------------------------------------------------
\* Every step of the job table is one of these four, or none.
LEMMA SlotStep ==
    ASSUME IInv, IInv', [Next]_vars
    PROVE  [Slot!Next]_theSlot
  <1> USE DEF IInv, Ownership
  <1>1. CASE Environment
    BY <1>1, KeepSlot
       DEF Environment, Activate, EndAllocation, ChangeMembership, EditPolicy
  <1>2. ASSUME Services PROVE [Slot!Next]_theSlot
    <2>1. ASSUME NEW j \in Job, ReserveAndQueue(j) PROVE [Slot!Next]_theSlot
      <3>1. OpenJobs = {}
        BY <2>1 DEF ReserveAndQueue, OpenJobs, JobFitsState, TypeOK, JobRow, Actions,
                    GuestWork
      <3> QED BY <2>1, <3>1, CreateEnters DEF ReserveAndQueue, Slot!Next, Actions
    <2>2. ASSUME NEW j \in Job, QueueProvisioning(j) PROVE [Slot!Next]_theSlot
      BY <2>2, CreateEnters DEF QueueProvisioning, Slot!Next, Actions
    <2>3. ASSUME NEW j \in Job, QueueRetirement(j) PROVE [Slot!Next]_theSlot
      BY <2>3, CreateEnters DEF QueueRetirement, Slot!Next, Actions
    <2>4. ASSUME NEW j \in Job, QueueReconcile(j) PROVE [Slot!Next]_theSlot
      <3>1. OpenJobs = {}
        BY <2>4 DEF QueueReconcile, Reconcilable, OpenOf, OpenJobs, JobFitsState,
                    TypeOK, JobRow, Actions, GuestWork
      <3> QED BY <2>4, <3>1, CreateEnters DEF QueueReconcile, Slot!Next, Actions
    <2>5. ASSUME NEW j \in Job, QueuePatch(j) PROVE [Slot!Next]_theSlot
      <3>1. OpenJobs = {}
        BY <2>5 DEF QueuePatch, Patchable, OpenOf, OpenJobs, JobFitsState,
                    TypeOK, JobRow, Actions, GuestWork
      <3> QED BY <2>5, <3>1, CreateEnters DEF QueuePatch, Slot!Next, Actions
    <2>6. CASE \/ \E k \in Kinds : LoseCallback(k)
               \/ NothingToProvision \/ ReadExisting \/ AbortReserve
               \/ RequireRetirementReview \/ NothingToRetire \/ NothingToReconcile
      BY <2>6, KeepSlot
         DEF LoseCallback, NothingToProvision, ReadExisting, AbortReserve,
             RequireRetirementReview, NothingToRetire, NothingToReconcile
    <2>7. CASE ReturnOpenJob \/ ReturnOpenInsteadOfRetire \/ ReturnOpenReconcile
                 \/ ReturnOpenPatch
      BY <2>7, KeepSlot
         DEF ReturnOpenJob, ReturnOpenInsteadOfRetire, ReturnOpenReconcile,
             ReturnOpenPatch, ReturnJob
    <2> QED BY <1>2, <2>1, <2>2, <2>3, <2>4, <2>5, <2>6, <2>7 DEF Services
  <1>3. ASSUME NEW j \in Job, JobStep(j) PROVE [Slot!Next]_theSlot
    <2>1. ASSUME Claim(j) PROVE Slot!Claim
      <3>1. job'[j] = [job[j] EXCEPT !.status = "Running", !.attempts = @ + 1]
        BY <2>1, Zenon DEF Claim, TypeOK
      <3>2. job[j].status = "Queued" /\ job'[j].status = "Running"
        BY <2>1 DEF Claim, TypeOK, JobRow
      <3>3. Open(j) /\ Open(j)'
        BY <3>2, Zenon DEF Open, OpenStatus
      <3>4. theSlot = job[j] /\ theSlot' = job'[j]
        BY <3>3, SlotHolds, SlotHoldsNext
      <3>5. job[j].attempts < MaxAttempts
        BY <3>2 DEF QueuedIsClaimable
      <3> QED BY <3>1, <3>2, <3>4, <3>5, Zenon DEF Slot!Claim
    <2>2. CASE \/ IgnoreTask(j) \/ Redispatch(j) \/ WorkerDies(j)
               \/ CheckProvision(j) \/ CheckRetire(j) \/ CheckGuest(j)
      BY <2>2, KeepSlot
         DEF IgnoreTask, Redispatch, WorkerDies, CheckProvision, CheckRetire,
             CheckGuest, Decide
    <2>3. ASSUME ReclaimStale(j) PROVE Slot!Requeue
      BY <2>3, RequeueRequeues DEF ReclaimStale
    <2>4. ASSUME worker[j] # "idle" PROVE job[j].status = "Running"
      BY <2>4 DEF WorkerHoldsItsJob
    <2>5. ASSUME RetryProvision(j) PROVE Slot!Requeue
      BY <2>4, <2>5, RequeueRequeues DEF RetryProvision
    <2>6. CASE ProvisionSucceeds(j) \/ ProvisionEndsBadly(j)
      <3>1. Slot!Leave
        BY <2>4, <2>6, CloseLeaves
           DEF ProvisionSucceeds, ProvisionEndsBadly, Finish, JobStatus, OpenStatus
      <3> QED BY <3>1 DEF Slot!Next
    <2>7. ASSUME RetireFinishes(j) PROVE Slot!Leave
      BY <2>4, <2>7, CloseLeaves DEF RetireFinishes, Finish, JobStatus, OpenStatus
    <2>8. ASSUME GuestJobFinishes(j) PROVE Slot!Leave
      <3>1. PICK s \in {"Blocked", "Succeeded", "Failed"} :
              job' = [job EXCEPT ![j].status = s]
        BY <2>8 DEF GuestJobFinishes
      <3>2. job[j].status = "Running"
        BY <2>4, <2>8 DEF GuestJobFinishes
      <3> QED BY <3>1, <3>2, CloseLeaves DEF JobStatus, OpenStatus
    <2> QED BY <1>3, <2>1, <2>2, <2>3, <2>5, <2>6, <2>7, <2>8 DEF JobStep, Slot!Next
  <1>4. CASE Workers BY <1>3, <1>4 DEF Workers, JobStep
  <1>5. CASE UNCHANGED vars BY <1>5, KeepSlot DEF vars
  <1> QED BY <1>1, <1>2, <1>4, <1>5 DEF Next

\* The job table of one VM behaves as a single slot, for every set of jobs and
\* every bound: a job enters Queued, is claimed at most MaxAttempts times, and
\* leaves only from Running.
THEOREM TableImplementsSlot == Spec => ImplementsSlot
  <1>1. Init => Slot!Init
    BY SlotEmpty DEF Init, Open, OpenStatus, Slot!Init
  <1>2. IInv /\ IInv' /\ [Next]_vars => [Slot!Next]_theSlot
    BY SlotStep
  <1> QED BY <1>1, <1>2, IInvInvariant, PTL DEF Spec, ImplementsSlot, Slot!Spec

-----------------------------------------------------------------------------
(* The lifecycle of the VM.  The mapping takes the action of the open job.  *)

\* With one job open its action is seen.
LEMMA ActionHolds ==
    ASSUME SingleOpenJob, NEW j \in Job, Open(j)
    PROVE  openAction = job[j].action
  <1>1. OpenJobs # {}
    BY DEF OpenJobs
  <1> QED BY <1>1, SlotHolds DEF openAction

\* The same after a step.
LEMMA ActionHoldsNext ==
    ASSUME SingleOpenJob', NEW j \in Job, Open(j)'
    PROVE  openAction' = job'[j].action
  <1>1. OpenJobs' # {}
    BY DEF OpenJobs
  <1> QED BY <1>1, SlotHoldsNext DEF openAction

\* With no job open, none.
LEMMA NoAction ==
    ASSUME OpenJobs = {}
    PROVE  openAction = "none"
  BY DEF openAction

\* A step that leaves the jobs alone.
LEMMA KeepAction ==
    ASSUME job' = job
    PROVE  openAction' = openAction
  BY KeepSlot DEF openAction, OpenJobs, Open

\* A job created while none is open.
LEMMA CreateAction ==
    ASSUME TypeOK, SingleOpenJob', OpenJobs = {}, NEW j \in Job, NEW a \in Actions,
           CreateJob(j, a)
    PROVE  openAction = "none" /\ openAction' = a
  <1> DEFINE row == [status |-> "Queued", action |-> a, attempts |-> 0]
  <1>1. row.status = "Queued" /\ row.action = a
    OBVIOUS
  <1>2. job'[j] = row
    BY DEF CreateJob, TypeOK
  <1>3. job'[j].status = "Queued" /\ job'[j].action = a
    BY <1>1, <1>2, Zenon
  <1>4. Open(j)'
    BY <1>3, Zenon DEF Open, OpenStatus
  <1> QED BY <1>3, <1>4, ActionHoldsNext, NoAction

\* A job whose status changes and that stays open.
LEMMA SameAction ==
    ASSUME SingleOpenJob, SingleOpenJob', NEW j \in Job, Open(j), Open(j)',
           job'[j].action = job[j].action
    PROVE  openAction = job[j].action /\ openAction' = openAction
  BY ActionHolds, ActionHoldsNext

\* A job that is closed.
LEMMA CloseAction ==
    ASSUME TypeOK, SingleOpenJob, NEW j \in Job, job[j].status = "Running",
           NEW s \in JobStatus \ OpenStatus, job' = [job EXCEPT ![j].status = s]
    PROVE  openAction = job[j].action /\ openAction' = "none"
  <1>1. job'[j].status = s /\ \A i \in Job \ {j} : job'[i] = job[i]
    BY StatusRow
  <1>2. Open(j)
    BY Zenon DEF Open, OpenStatus
  <1>3. ~Open(j)'
    BY <1>1 DEF Open
  <1>4. \A i \in Job \ {j} : ~Open(i)'
    BY <1>1, <1>2 DEF SingleOpenJob, Open
  <1>5. OpenJobs' = {}
    BY <1>3, <1>4 DEF OpenJobs
  <1> QED BY <1>2, <1>5, ActionHolds DEF openAction

\* Every step of the services, which create jobs, is a step of the lifecycle.
LEMMA LifeService ==
    ASSUME IInv, IInv', Services
    PROVE  [Life!Next]_(Life!vars)
  <1> USE DEF IInv, Ownership
  <1>1. ASSUME NEW j \in Job, ReserveAndQueue(j) PROVE Life!Reserve
    <2>1. OpenJobs = {}
      BY <1>1 DEF ReserveAndQueue, OpenJobs, JobFitsState, TypeOK, JobRow, Actions,
                  GuestWork
    <2>2. openAction = "none" /\ openAction' = "Provision"
      BY <1>1, <2>1, CreateAction DEF ReserveAndQueue, Actions
    <2> QED BY <1>1, <2>2 DEF ReserveAndQueue, Life!Reserve
  <1>2. ASSUME NEW j \in Job, QueueProvisioning(j) PROVE Life!QueueProvisioning
    <2>1. openAction = "none" /\ openAction' = "Provision"
      BY <1>2, CreateAction DEF QueueProvisioning, Actions
    <2> QED BY <1>2, <2>1 DEF QueueProvisioning, Life!QueueProvisioning
  <1>3. ASSUME NEW j \in Job, QueueRetirement(j) PROVE Life!QueueRetirement
    <2>1. openAction = "none" /\ openAction' = "Retire"
      BY <1>3, CreateAction DEF QueueRetirement, Actions
    <2> QED BY <1>3, <2>1 DEF QueueRetirement, Retirable, Life!QueueRetirement
  <1>4. ASSUME NEW j \in Job, QueueReconcile(j) PROVE Life!QueueGuestJob("Reconcile")
    <2>1. OpenJobs = {}
      BY <1>4 DEF QueueReconcile, Reconcilable, OpenOf, OpenJobs, JobFitsState,
                  TypeOK, JobRow, Actions, GuestWork
    <2>2. openAction = "none" /\ openAction' = "Reconcile"
      BY <1>4, <2>1, CreateAction DEF QueueReconcile, Actions
    <2> QED BY <1>4, <2>2 DEF QueueReconcile, Reconcilable, Life!QueueGuestJob
  <1>5. ASSUME NEW j \in Job, QueuePatch(j) PROVE Life!QueueGuestJob("Patch")
    <2>1. OpenJobs = {}
      BY <1>5 DEF QueuePatch, Patchable, OpenOf, OpenJobs, JobFitsState,
                  TypeOK, JobRow, Actions, GuestWork
    <2>2. openAction = "none" /\ openAction' = "Patch"
      BY <1>5, <2>1, CreateAction DEF QueuePatch, Actions
    <2> QED BY <1>5, <2>2 DEF QueuePatch, Patchable, Life!QueueGuestJob
  <1>6. CASE RequireRetirementReview
    <2>1. openAction' = openAction
      BY <1>6, KeepAction DEF RequireRetirementReview
    <2> QED BY <1>6, <2>1 DEF RequireRetirementReview, Life!Next, Life!Review, Life!vars
  <1>7. CASE ReadExisting
    <2>1. openAction' = openAction
      BY <1>7, KeepAction DEF ReadExisting
    <2> QED BY <1>7, <2>1 DEF ReadExisting, Life!Next, Life!Read
  <1>8. CASE ReturnOpenJob \/ AbortReserve
    <2>1. openAction' = openAction
      BY <1>8, KeepAction DEF ReturnOpenJob, ReturnJob, AbortReserve
    <2> QED BY <1>8, <2>1 DEF ReturnOpenJob, AbortReserve, Life!Next, Life!Return
  <1>9. CASE \/ \E k \in Kinds : LoseCallback(k)
             \/ NothingToProvision \/ NothingToRetire \/ NothingToReconcile
    <2>1. UNCHANGED <<job, allocation, state, reserving>>
      BY <1>9 DEF LoseCallback, NothingToProvision, NothingToRetire, NothingToReconcile
    <2> QED BY <2>1, KeepAction DEF Life!vars
  <1>10. CASE ReturnOpenInsteadOfRetire \/ ReturnOpenReconcile \/ ReturnOpenPatch
    <2>1. UNCHANGED <<job, allocation, state, reserving>>
      BY <1>10 DEF ReturnOpenInsteadOfRetire, ReturnOpenReconcile, ReturnOpenPatch,
                   ReturnJob
    <2> QED BY <2>1, KeepAction DEF Life!vars
  <1> QED BY <1>1, <1>2, <1>3, <1>4, <1>5, <1>6, <1>7, <1>8, <1>9, <1>10
          DEF Services, Life!Next, Life!Guest

\* So is every step of a worker, the broker or the scheduler.
LEMMA LifeJob ==
    ASSUME IInv, IInv', NEW j \in Job, JobStep(j)
    PROVE  [Life!Next]_(Life!vars)
  <1> USE DEF IInv, Ownership
  <1>1. ASSUME worker[j] # "idle" PROVE job[j].status = "Running" /\ Open(j)
    BY <1>1 DEF WorkerHoldsItsJob, Open, OpenStatus
  <1>2. CASE Claim(j)
    <2>1. /\ job[j].status = "Queued" /\ job'[j].status = "Running"
          /\ job'[j].action = job[j].action
      BY <1>2 DEF Claim, TypeOK, JobRow
    <2>2. Open(j) /\ Open(j)'
      BY <2>1, Zenon DEF Open, OpenStatus
    <2>3. openAction = job[j].action /\ openAction' = openAction
      BY <2>1, <2>2, SameAction
    <2>4. \/ job[j].action = "Retire" /\ state' = "Retiring"
          \/ job[j].action = "Provision" /\ state' = "Provisioning"
          \/ state' = state
      BY <1>2 DEF Claim, TypeOK, JobRow, Actions
    <2>5. ~reserving /\ UNCHANGED <<allocation, reserving>>
      BY <1>2 DEF Claim
    <2> QED BY <2>3, <2>4, <2>5
            DEF Life!Next, Life!ClaimProvision, Life!ClaimRetire, Life!vars
  <1>3. CASE \/ IgnoreTask(j) \/ Redispatch(j) \/ WorkerDies(j)
             \/ CheckProvision(j) \/ CheckRetire(j) \/ CheckGuest(j)
    <2>1. UNCHANGED <<job, allocation, state, reserving>>
      BY <1>3 DEF IgnoreTask, Redispatch, WorkerDies, CheckProvision, CheckRetire,
                  CheckGuest, Decide
    <2> QED BY <2>1, KeepAction DEF Life!vars
  <1>4. ASSUME job[j].status = "Running", job' = [job EXCEPT ![j].status = "Queued"]
        PROVE  openAction = job[j].action /\ openAction' = openAction
    <2>1. job'[j].status = "Queued" /\ job'[j].action = job[j].action
      BY <1>4, StatusRow
    <2>2. Open(j) /\ Open(j)'
      BY <1>4, <2>1, Zenon DEF Open, OpenStatus
    <2> QED BY <2>1, <2>2, SameAction
  <1>5. CASE ReclaimStale(j)
    BY <1>4, <1>5 DEF ReclaimStale, Life!vars
  <1>6. CASE RetryProvision(j)
    BY <1>1, <1>4, <1>6 DEF RetryProvision, Life!Next, Life!Requeue
  <1>7. ASSUME NEW s \in JobStatus \ OpenStatus, worker[j] # "idle",
               job' = [job EXCEPT ![j].status = s]
        PROVE  openAction = job[j].action /\ openAction' = "none"
    BY <1>1, <1>7, CloseAction
  <1>8. CASE ProvisionSucceeds(j) \/ ProvisionEndsBadly(j)
    <2>1. openAction = "Provision" /\ openAction' = "none"
      BY <1>7, <1>8
         DEF ProvisionSucceeds, ProvisionEndsBadly, Finish, JobStatus, OpenStatus
    <2>2. \E s \in {"Active", "Blocked", "Failed"} : Life!EndProvision(s)
      BY <1>8, <2>1
         DEF ProvisionSucceeds, ProvisionEndsBadly, Finish, Life!EndProvision
    <2> QED BY <2>2 DEF Life!Next
  <1>9. CASE RetireFinishes(j)
    <2>1. openAction = "Retire" /\ openAction' = "none"
      BY <1>7, <1>9 DEF RetireFinishes, Finish, JobStatus, OpenStatus
    <2>2. \E s \in {"Retirement Review", "Retired"} : Life!EndRetire(s)
      BY <1>9, <2>1 DEF RetireFinishes, Finish, Life!EndRetire
    <2> QED BY <2>2 DEF Life!Next
  <1>10. CASE GuestJobFinishes(j)
    <2>1. PICK s \in {"Blocked", "Succeeded", "Failed"} :
            job' = [job EXCEPT ![j].status = s]
      BY <1>10 DEF GuestJobFinishes
    <2>2. worker[j] # "idle" /\ job[j].action \in GuestWork
      BY <1>10 DEF GuestJobFinishes
    <2>3. openAction = job[j].action /\ openAction' = "none"
      BY <1>7, <2>1, <2>2 DEF JobStatus, OpenStatus
    <2>4. state \notin {"Retiring", "Retired"}
      BY <1>1, <2>2 DEF JobFitsState
    <2>5. Life!EndGuestJob
      BY <1>10, <2>2, <2>3, <2>4
         DEF GuestJobFinishes, StateAfterGuestJob, GuestWork, Life!EndGuestJob, Life!Guest
    <2> QED BY <2>5 DEF Life!Next
  <1> QED BY <1>2, <1>3, <1>5, <1>6, <1>8, <1>9, <1>10 DEF JobStep

\* Every step of VMJobs is a step of the lifecycle, or leaves it alone.
LEMMA LifeStep ==
    ASSUME IInv, IInv', [Next]_vars
    PROVE  [Life!Next]_(Life!vars)
  <1>1. ASSUME Environment PROVE [Life!Next]_(Life!vars)
    <2>1. openAction' = openAction
      BY <1>1, KeepAction
         DEF Environment, Activate, EndAllocation, ChangeMembership, EditPolicy
    <2> QED BY <1>1, <2>1
            DEF Environment, Activate, EndAllocation, ChangeMembership, EditPolicy,
                Life!Next, Life!Activate, Life!End, Life!vars
  <1>2. CASE Services BY <1>2, LifeService
  <1>3. CASE Workers BY <1>3, LifeJob DEF Workers, JobStep
  <1>4. CASE UNCHANGED vars
    <2>1. openAction' = openAction
      BY <1>4, KeepAction DEF vars
    <2> QED BY <1>4, <2>1 DEF vars, Life!vars
  <1> QED BY <1>1, <1>2, <1>3, <1>4 DEF Next

\* The VM, its allocation and its open job change only as the lifecycle says, for
\* every set of jobs, every policy and every number of faults.
THEOREM TableImplementsLifecycle == Spec => ImplementsLifecycle
  <1>1. ASSUME Init PROVE Life!Init
    <2>1. OpenJobs = {}
      BY <1>1 DEF Init, OpenJobs, Open, OpenStatus
    <2> QED BY <1>1, <2>1, NoAction DEF Init, Life!Init
  <1>2. IInv /\ IInv' /\ [Next]_vars => [Life!Next]_(Life!vars)
    BY LifeStep
  <1> QED BY <1>1, <1>2, IInvInvariant, PTL DEF Spec, ImplementsLifecycle, Life!Spec

\* A VM is taken out of Retired only by the race of create_provisioning_job, which
\* read the VM before: without it no callback, command, worker or scheduler touches
\* the VM again.
THEOREM RetiredStays == Spec => RetiredIsFinal
  <1> DEFINE Quiet == state = "Retired" => openAction = "none"
  <1> DEFINE Final == state = "Retired" /\ ~reserving
                        => UNCHANGED <<state, openAction, reserving>>
  <1>1. ASSUME IInv PROVE Quiet
    <2>1. SUFFICES ASSUME state = "Retired" PROVE OpenJobs = {}
      BY NoAction
    <2> QED BY <1>1, <2>1 DEF IInv, Ownership, JobFitsState, OpenJobs, TypeOK, JobRow,
                              Actions, GuestWork
  <1>2. ASSUME Quiet, [Life!Next]_(Life!vars) PROVE Final
    BY <1>2 DEF Life!Next, Life!vars, Life!Activate, Life!End, Life!Review, Life!Reserve,
                Life!Read, Life!Return, Life!QueueProvisioning, Life!QueueRetirement,
                Life!QueueGuestJob, Life!Guest, Life!ClaimProvision, Life!ClaimRetire,
                Life!Requeue, Life!EndProvision, Life!EndRetire, Life!EndGuestJob
  <1>3. IInv /\ IInv' /\ [Next]_vars => [Final]_(Life!vars)
    BY <1>1, <1>2, LifeStep
  <1> QED BY <1>3, IInvInvariant, PTL DEF Spec, RetiredIsFinal, Life!RetiredIsFinal

\* At most one worker is busy with the VM, whatever is delivered twice or claimed
\* again: what the modules of the single workers take for granted.
OneWorker == \A i, j \in Job : worker[i] # "idle" /\ worker[j] # "idle" => i = j

\* Two workers are never busy with one VM, so the modules of the Provision, Retire
\* and guest jobs may take their worker as the only one.
THEOREM WorkersAlone == Spec => []OneWorker
  <1>1. IInv => OneWorker
    BY DEF IInv, Ownership, WorkerHoldsItsJob, SingleOpenJob, Open, OpenStatus, OneWorker
  <1> QED BY <1>1, IInvInvariant, PTL
=============================================================================
