---------------------------- MODULE VMJobs_proofs ----------------------------
(***************************************************************************)
(* Theorems about VMJobs for every set of jobs, every bound, and every     *)
(* setting: type correctness, at most one open job, and that the job table *)
(* of one VM implements the single slot of module JobSlot.                 *)
(***************************************************************************)
EXTENDS VMJobs, TLAPS

-----------------------------------------------------------------------------
(* Lemmas about the operators the actions share.                           *)

\* One more callback of a kind stays within the bound.
LEMMA RaiseType ==
    ASSUME TypeOK, NEW k \in Kinds
    PROVE  Raise(k) \in [Kinds -> 0..MaxPending]
  BY BoundsAssumption DEF TypeOK, Raise

\* A callback that runs is one less.
LEMMA TriggerType ==
    ASSUME TypeOK, NEW k \in Kinds, Trigger(k)
    PROVE  pending' \in [Kinds -> 0..MaxPending]
  BY BoundsAssumption DEF TypeOK, Trigger

\* Dispatching a job adds no task but its own.
LEMMA MayDispatchType ==
    ASSUME TypeOK, NEW j \in Job, MayDispatch(j)
    PROVE  tasks' \subseteq Job
  BY DEF TypeOK, MayDispatch

\* A new job is a well-formed row.
LEMMA CreateJobType ==
    ASSUME TypeOK, NEW j \in Job, NEW a \in Actions, CreateJob(j, a)
    PROVE  job' \in [Job -> JobRow] /\ tasks' \subseteq Job
  <1>1. [status |-> "Queued", action |-> a, attempts |-> 0] \in JobRow
    BY MaxAttemptsAssumption DEF JobRow, JobStatus, OpenStatus
  <1> QED BY <1>1, MayDispatchType DEF CreateJob, TypeOK

\* Returning an open job changes at most the broker's tasks.
LEMMA ReturnJobType ==
    ASSUME TypeOK, NEW acts, ReturnJob(acts)
    PROVE  job' = job /\ tasks' \subseteq Job
  BY MayDispatchType DEF ReturnJob, OpenOf, OpenJobs

\* Changing the status of a row to a status keeps it a row.
LEMMA StatusType ==
    ASSUME TypeOK, NEW j \in Job, NEW s \in JobStatus
    PROVE  [job EXCEPT ![j].status = s] \in [Job -> JobRow]
  BY DEF TypeOK, JobRow

\* The follow-up callbacks of a guest job stay within the bound.
LEMMA FollowUpType ==
    ASSUME TypeOK, NEW j \in Job
    PROVE  PendingAfterGuestJob(j) \in [Kinds -> 0..MaxPending]
  <1> DEFINE one(k) == IF pending[k] < MaxPending THEN pending[k] + 1 ELSE pending[k]
  <1> DEFINE x == IF allocation # "Active" THEN one("review") ELSE pending["review"]
  <1> DEFINE y == IF \/ worker[j] = "disabled" \/ job[j].action = "Patch"
                     \/ job'[j].status = "Succeeded"
                  THEN one("reconcile") ELSE pending["reconcile"]
  <1>1. \A k \in Kinds : pending[k] \in 0..MaxPending /\ one(k) \in 0..MaxPending
    BY BoundsAssumption DEF TypeOK
  <1>2. "review" \in Kinds /\ "reconcile" \in Kinds
    BY DEF Kinds
  <1>3. x \in 0..MaxPending /\ y \in 0..MaxPending
    BY <1>1, <1>2
  <1>4. PendingAfterGuestJob(j) = [pending EXCEPT !["review"] = x, !["reconcile"] = y]
    BY Zenon DEF PendingAfterGuestJob
  <1> HIDE DEF x, y
  <1> QED BY <1>3, <1>4 DEF TypeOK, Kinds

\* What _finish leaves is well typed.
LEMMA FinishType ==
    ASSUME TypeOK, QueuedIsClaimable, NEW j \in Job,
           NEW s \in JobStatus \ {"Queued"}, NEW st \in VMState, Finish(j, s, st),
           pending' \in [Kinds -> 0..MaxPending]
    PROVE  TypeOK' /\ QueuedIsClaimable'
  <1>1. job' \in [Job -> JobRow]
    BY StatusType DEF Finish
  <1>2. worker' \in [Job -> WorkerPhase] /\ state' \in VMState /\ provisioned' \in BOOLEAN
    BY DEF Finish, TypeOK, WorkerPhase
  <1>3. TypeOK'
    BY <1>1, <1>2 DEF TypeOK, Finish
  <1>4. QueuedIsClaimable'
    BY DEF QueuedIsClaimable, Finish, TypeOK, JobRow
  <1> QED BY <1>3, <1>4

-----------------------------------------------------------------------------
(* Type correctness.  Only _claim_job increments the attempts, untested: what
   keeps them within MaxAttempts is that every transaction that queues a job
   leaves an attempt, hence the two invariants together.                   *)

\* The initial state is well typed and has no queued job.
LEMMA TypeInit == Init => TypeOK /\ QueuedIsClaimable
  <1> SUFFICES ASSUME Init PROVE TypeOK /\ QueuedIsClaimable
    OBVIOUS
  <1>1. job \in [Job -> JobRow] /\ QueuedIsClaimable
    BY MaxAttemptsAssumption
       DEF Init, QueuedIsClaimable, JobRow, JobStatus, OpenStatus, Actions
  <1>2. pending \in [Kinds -> 0..MaxPending] /\ faults \in 0..MaxFaults
    BY BoundsAssumption DEF Init
  <1>3. worker \in [Job -> WorkerPhase] /\ state \in VMState /\ tasks \subseteq Job
    BY DEF Init, WorkerPhase, VMState
  <1> QED BY <1>1, <1>2, <1>3 DEF Init, TypeOK

\* A disjunct of Workers for one job.
JobStep(j) ==
    \/ Claim(j) \/ IgnoreTask(j) \/ ReclaimStale(j) \/ Redispatch(j)
    \/ CheckProvision(j) \/ CheckRetire(j) \/ CheckGuest(j)
    \/ ProvisionSucceeds(j) \/ ProvisionEndsBadly(j) \/ RetryProvision(j)
    \/ RetireFinishes(j) \/ GuestJobFinishes(j) \/ WorkerDies(j)

\* Every step keeps the types and an attempt for every queued job.
LEMMA TypeStep ==
    ASSUME TypeOK, QueuedIsClaimable, [Next]_vars
    PROVE  TypeOK' /\ QueuedIsClaimable'
  <1>1. ASSUME Environment PROVE TypeOK' /\ QueuedIsClaimable'
    <2>1. CASE Activate
      BY <2>1, RaiseType DEF Activate, TypeOK, QueuedIsClaimable, Kinds
    <2>2. CASE EndAllocation
      BY <2>2, RaiseType DEF EndAllocation, TypeOK, QueuedIsClaimable, Kinds
    <2>3. CASE ChangeMembership
      BY <2>3, RaiseType DEF ChangeMembership, TypeOK, QueuedIsClaimable, Kinds
    <2>4. CASE EditPolicy
      BY <2>4 DEF EditPolicy, TypeOK, QueuedIsClaimable
    <2> QED BY <1>1, <2>1, <2>2, <2>3, <2>4 DEF Environment
  <1>2. ASSUME Services PROVE TypeOK' /\ QueuedIsClaimable'
    <2>1. CASE \E k \in Kinds : LoseCallback(k)
      BY <2>1, BoundsAssumption DEF LoseCallback, TypeOK, QueuedIsClaimable
    <2>2. ASSUME NEW j \in Job, NEW a \in Actions, CreateJob(j, a),
                 state' \in VMState, pending' \in [Kinds -> 0..MaxPending],
                 reserving' \in BOOLEAN,
                 UNCHANGED <<allocation, provisioned, worker, policy, faults>>
          PROVE  TypeOK' /\ QueuedIsClaimable'
      <3>1. TypeOK' BY <2>2, CreateJobType DEF TypeOK
      <3>2. QueuedIsClaimable'
        BY <2>2, MaxAttemptsAssumption DEF CreateJob, QueuedIsClaimable, TypeOK
      <3> QED BY <3>1, <3>2
    <2>3. ASSUME NEW j \in Job, ReserveAndQueue(j) PROVE TypeOK' /\ QueuedIsClaimable'
      <3>1. pending' \in [Kinds -> 0..MaxPending]
        BY <2>3, TriggerType DEF ReserveAndQueue, Kinds
      <3> QED BY <2>2, <2>3, <3>1 DEF ReserveAndQueue, Actions, VMState, TypeOK
    <2>4. ASSUME NEW j \in Job, QueueProvisioning(j) PROVE TypeOK' /\ QueuedIsClaimable'
      BY <2>2, <2>4 DEF QueueProvisioning, Actions, VMState, TypeOK
    <2>5. ASSUME NEW j \in Job, QueueRetirement(j) PROVE TypeOK' /\ QueuedIsClaimable'
      <3>1. pending' \in [Kinds -> 0..MaxPending]
        BY <2>5, TriggerType DEF QueueRetirement, Kinds
      <3> QED BY <2>2, <2>5, <3>1 DEF QueueRetirement, Actions, VMState, TypeOK
    <2>6. ASSUME NEW j \in Job, QueueReconcile(j) PROVE TypeOK' /\ QueuedIsClaimable'
      <3>1. pending' \in [Kinds -> 0..MaxPending]
        BY <2>6, TriggerType DEF QueueReconcile, Kinds
      <3> QED BY <2>2, <2>6, <3>1 DEF QueueReconcile, Actions, VMState, TypeOK
    <2>7. ASSUME NEW j \in Job, QueuePatch(j) PROVE TypeOK' /\ QueuedIsClaimable'
      BY <2>2, <2>7 DEF QueuePatch, Actions, VMState, TypeOK
    <2>8. CASE NothingToProvision
      BY <2>8, BoundsAssumption DEF NothingToProvision, TypeOK, QueuedIsClaimable, Kinds
    <2>9. CASE ReadExisting
      BY <2>9, TriggerType DEF ReadExisting, TypeOK, QueuedIsClaimable, Kinds
    <2>10. CASE ReturnOpenJob
      BY <2>10, ReturnJobType DEF ReturnOpenJob, TypeOK, QueuedIsClaimable
    <2>11. CASE AbortReserve
      <3>1. faults' \in 0..MaxFaults
        BY <2>11, BoundsAssumption DEF AbortReserve, TypeOK
      <3> QED BY <2>11, <3>1 DEF AbortReserve, TypeOK, QueuedIsClaimable
    <2>12. CASE RequireRetirementReview
      <3>1. pending' \in [Kinds -> 0..MaxPending]
        <4> DEFINE x == pending["review"] - 1
        <4> DEFINE y == IF pending["retire"] < MaxPending THEN pending["retire"] + 1
                        ELSE pending["retire"]
        <4>1. pending["review"] \in 0..MaxPending /\ pending["retire"] \in 0..MaxPending
          BY DEF TypeOK, Kinds
        <4>2. x \in 0..MaxPending /\ y \in 0..MaxPending
          <5>1. pending["review"] > 0
            BY <2>12, Zenon DEF RequireRetirementReview
          <5> QED BY <4>1, <5>1, BoundsAssumption
        <4>3. pending' = [pending EXCEPT !["review"] = x, !["retire"] = y]
          BY <2>12, Zenon DEF RequireRetirementReview
        <4> HIDE DEF x, y
        <4> QED BY <4>2, <4>3 DEF TypeOK, Kinds
      <3> QED BY <2>12, <3>1 DEF RequireRetirementReview, TypeOK, QueuedIsClaimable, VMState
    <2>13. CASE NothingToRetire
      BY <2>13, BoundsAssumption DEF NothingToRetire, TypeOK, QueuedIsClaimable, Kinds
    <2>14. CASE ReturnOpenInsteadOfRetire
      BY <2>14, ReturnJobType, TriggerType
         DEF ReturnOpenInsteadOfRetire, TypeOK, QueuedIsClaimable, Kinds
    <2>15. CASE NothingToReconcile
      BY <2>15, BoundsAssumption DEF NothingToReconcile, TypeOK, QueuedIsClaimable, Kinds
    <2>16. CASE ReturnOpenReconcile
      BY <2>16, ReturnJobType, TriggerType
         DEF ReturnOpenReconcile, TypeOK, QueuedIsClaimable, Kinds
    <2>17. CASE ReturnOpenPatch
      BY <2>17, ReturnJobType DEF ReturnOpenPatch, TypeOK, QueuedIsClaimable
    <2> QED BY <1>2, <2>1, <2>3, <2>4, <2>5, <2>6, <2>7, <2>8, <2>9, <2>10, <2>11,
               <2>12, <2>13, <2>14, <2>15, <2>16, <2>17 DEF Services
  <1>3. ASSUME NEW j \in Job, JobStep(j) PROVE TypeOK' /\ QueuedIsClaimable'
    <2>1. ASSUME Claim(j) PROVE TypeOK' /\ QueuedIsClaimable'
      <3>1. job[j].attempts + 1 \in 0..MaxAttempts
        BY <2>1, MaxAttemptsAssumption DEF Claim, QueuedIsClaimable, TypeOK, JobRow
      <3>2. job' = [job EXCEPT ![j] =
                      [status |-> "Running", action |-> job[j].action,
                       attempts |-> job[j].attempts + 1]]
        BY <2>1 DEF Claim, TypeOK, JobRow
      <3>3. job' \in [Job -> JobRow]
        BY <3>1, <3>2 DEF TypeOK, JobRow, JobStatus, OpenStatus
      <3>4. state' \in VMState
        BY <2>1 DEF Claim, TypeOK, VMState
      <3>5. TypeOK'
        BY <2>1, <3>3, <3>4 DEF Claim, TypeOK, WorkerPhase
      <3>6. QueuedIsClaimable'
        BY <2>1, <3>2 DEF QueuedIsClaimable, TypeOK
      <3> QED BY <3>5, <3>6
    <2>2. ASSUME IgnoreTask(j) PROVE TypeOK' /\ QueuedIsClaimable'
      BY <2>2 DEF IgnoreTask, TypeOK, QueuedIsClaimable
    <2>3. ASSUME ReclaimStale(j) PROVE TypeOK' /\ QueuedIsClaimable'
      <3>1. job' \in [Job -> JobRow]
        BY <2>3, StatusType DEF ReclaimStale, JobStatus, OpenStatus
      <3>2. TypeOK'
        BY <2>3, <3>1, MayDispatchType DEF ReclaimStale, TypeOK
      <3>3. QueuedIsClaimable'
        BY <2>3 DEF ReclaimStale, QueuedIsClaimable, TypeOK, JobRow
      <3> QED BY <3>2, <3>3
    <2>4. ASSUME Redispatch(j) PROVE TypeOK' /\ QueuedIsClaimable'
      BY <2>4 DEF Redispatch, TypeOK, QueuedIsClaimable
    <2>5. ASSUME NEW v \in WorkerPhase, Decide(j, v) PROVE TypeOK' /\ QueuedIsClaimable'
      BY <2>5 DEF Decide, TypeOK, QueuedIsClaimable
    <2>6. ASSUME CheckProvision(j) PROVE TypeOK' /\ QueuedIsClaimable'
      BY <2>5, <2>6 DEF CheckProvision, WorkerPhase
    <2>7. ASSUME CheckRetire(j) PROVE TypeOK' /\ QueuedIsClaimable'
      BY <2>5, <2>7 DEF CheckRetire, WorkerPhase
    <2>8. ASSUME CheckGuest(j) PROVE TypeOK' /\ QueuedIsClaimable'
      BY <2>5, <2>8 DEF CheckGuest, WorkerPhase
    <2>9. ASSUME ProvisionSucceeds(j) PROVE TypeOK' /\ QueuedIsClaimable'
      <3>1. pending' \in [Kinds -> 0..MaxPending]
        BY <2>9, RaiseType DEF ProvisionSucceeds, Kinds
      <3> QED BY <2>9, <3>1, FinishType DEF ProvisionSucceeds, JobStatus, VMState
    <2>10. ASSUME ProvisionEndsBadly(j) PROVE TypeOK' /\ QueuedIsClaimable'
      <3>1. pending' \in [Kinds -> 0..MaxPending]
        BY <2>10 DEF ProvisionEndsBadly, TypeOK
      <3> QED BY <2>10, <3>1, FinishType DEF ProvisionEndsBadly, JobStatus, VMState
    <2>11. ASSUME RetryProvision(j) PROVE TypeOK' /\ QueuedIsClaimable'
      <3>1. job' \in [Job -> JobRow]
        BY <2>11, StatusType DEF RetryProvision, JobStatus, OpenStatus
      <3>2. TypeOK'
        BY <2>11, <3>1 DEF RetryProvision, TypeOK, VMState, WorkerPhase
      <3>3. QueuedIsClaimable'
        BY <2>11 DEF RetryProvision, QueuedIsClaimable, TypeOK, JobRow
      <3> QED BY <3>2, <3>3
    <2>12. ASSUME RetireFinishes(j) PROVE TypeOK' /\ QueuedIsClaimable'
      <3>1. pending' \in [Kinds -> 0..MaxPending]
        BY <2>12 DEF RetireFinishes, TypeOK
      <3> QED BY <2>12, <3>1, FinishType DEF RetireFinishes, JobStatus, VMState
    <2>13. ASSUME GuestJobFinishes(j) PROVE TypeOK' /\ QueuedIsClaimable'
      <3>1. PICK s \in {"Blocked", "Succeeded", "Failed"} :
              job' = [job EXCEPT ![j].status = s]
        BY <2>13 DEF GuestJobFinishes
      <3>2. job' \in [Job -> JobRow]
        BY <3>1, StatusType DEF JobStatus
      <3>3. state' \in VMState
        BY <2>13 DEF GuestJobFinishes, StateAfterGuestJob, TypeOK, VMState
      <3>4. pending' \in [Kinds -> 0..MaxPending]
        BY <2>13, FollowUpType DEF GuestJobFinishes
      <3>5. TypeOK'
        BY <2>13, <3>2, <3>3, <3>4 DEF GuestJobFinishes, TypeOK, WorkerPhase
      <3>6. QueuedIsClaimable'
        BY <3>1 DEF QueuedIsClaimable, TypeOK, JobRow
      <3> QED BY <3>5, <3>6
    <2>14. ASSUME WorkerDies(j) PROVE TypeOK' /\ QueuedIsClaimable'
      BY <2>14, BoundsAssumption DEF WorkerDies, TypeOK, QueuedIsClaimable, WorkerPhase
    <2> QED BY <1>3, <2>1, <2>2, <2>3, <2>4, <2>6, <2>7, <2>8, <2>9, <2>10, <2>11,
               <2>12, <2>13, <2>14 DEF JobStep
  <1>4. CASE Workers BY <1>3, <1>4 DEF Workers, JobStep
  <1>5. CASE UNCHANGED vars BY <1>5 DEF vars, TypeOK, QueuedIsClaimable
  <1> QED BY <1>1, <1>2, <1>4, <1>5 DEF Next

-----------------------------------------------------------------------------
(* Ownership: the four invariants that keep one job per VM.  The lemmas are
   the four things a step can do to the job table: leave it, add a job while no
   job is open, hand a Running job back to the queue, and close a job.      *)

\* One job per VM, in a state that fits it, closed only by its own worker.
Ownership ==
    /\ WorkerHoldsItsJob
    /\ SingleOpenJob
    /\ JobFitsState
    /\ OwnedStates

\* What an assignment to the status of one row leaves.
LEMMA StatusRow ==
    ASSUME TypeOK, NEW j \in Job, NEW s, job' = [job EXCEPT ![j].status = s]
    PROVE  /\ job'[j].status = s
           /\ job'[j].action = job[j].action
           /\ job'[j] = [job[j] EXCEPT !.status = s]
           /\ \A i \in Job \ {j} : job'[i] = job[i]
  <1>1. job[j] \in JobRow
    BY DEF TypeOK
  <1>2. job'[j] = [job[j] EXCEPT !.status = s]
    BY DEF TypeOK
  <1>3. job'[j].status = s /\ job'[j].action = job[j].action
    BY <1>1, <1>2 DEF JobRow
  <1>4. \A i \in Job \ {j} : job'[i] = job[i]
    BY DEF TypeOK
  <1> QED BY <1>2, <1>3, <1>4

\* A step that leaves jobs, workers and state alone.
LEMMA KeepOwnership ==
    ASSUME Ownership, UNCHANGED <<job, worker, state>>
    PROVE  Ownership'
  BY DEF Ownership, WorkerHoldsItsJob, SingleOpenJob, JobFitsState, OwnedStates,
         Open, OpenOf, OpenJobs

\* A job created while none is open.
LEMMA CreateOwnership ==
    ASSUME TypeOK, Ownership, OpenJobs = {}, NEW j \in Job, NEW a \in Actions,
           CreateJob(j, a), UNCHANGED worker,
           \/ a = "Provision" /\ state' = "Queued"
           \/ a = "Retire" /\ state' = "Retirement Review"
           \/ a \in GuestWork /\ state' = state /\ state \in {"Active", "Blocked", "Failed"}
    PROVE  Ownership'
  <1>1. job'[j] = [status |-> "Queued", action |-> a, attempts |-> 0]
    BY DEF CreateJob, TypeOK
  <1>2. \A i \in Job \ {j} : job'[i] = job[i]
    BY DEF CreateJob, TypeOK
  <1>3. \A i \in Job \ {j} : ~Open(i)'
    BY <1>2 DEF OpenJobs, Open
  <1>4. Open(j)' /\ job'[j].action = a
    <2> DEFINE row == [status |-> "Queued", action |-> a, attempts |-> 0]
    <2>1. row.status = "Queued" /\ row.action = a
      OBVIOUS
    <2>2. job'[j].status = "Queued" /\ job'[j].action = a
      BY <1>1, <2>1, Zenon
    <2> QED BY <2>2, Zenon DEF Open, OpenStatus
  <1>5. WorkerHoldsItsJob'
    BY <1>2 DEF Ownership, WorkerHoldsItsJob, CreateJob, Unused
  <1>6. SingleOpenJob' /\ JobFitsState'
    BY <1>3, <1>4 DEF SingleOpenJob, JobFitsState, GuestWork
  <1>7. OwnedStates'
    BY <1>4 DEF OwnedStates, OpenOf, OpenJobs
  <1> QED BY <1>5, <1>6, <1>7 DEF Ownership

\* A Running job handed back to the queue, by a retry or after a dead worker.
LEMMA RequeueOwnership ==
    ASSUME TypeOK, Ownership, NEW j \in Job, job[j].status = "Running",
           job' = [job EXCEPT ![j].status = "Queued"],
           worker' = [worker EXCEPT ![j] = "idle"],
           state' = state \/ (state' = "Queued" /\ job[j].action = "Provision")
    PROVE  Ownership'
  <1>1. \A i \in Job : (Open(i)' <=> Open(i)) /\ job'[i].action = job[i].action
    BY StatusRow DEF Open, OpenStatus
  <1>2. WorkerHoldsItsJob'
    BY StatusRow DEF Ownership, WorkerHoldsItsJob, TypeOK
  <1>3. SingleOpenJob'
    BY <1>1 DEF Ownership, SingleOpenJob
  <1>4. JobFitsState'
    <2>1. CASE state' = state
      BY <1>1, <2>1 DEF Ownership, JobFitsState
    <2>2. CASE state' = "Queued" /\ job[j].action = "Provision"
      <3>1. \A i \in Job : Open(i) => i = j
        BY DEF Ownership, SingleOpenJob, Open, OpenStatus
      <3> QED BY <1>1, <2>2, <3>1 DEF JobFitsState, GuestWork
    <2> QED BY <2>1, <2>2
  <1>5. OwnedStates'
    BY <1>1 DEF Ownership, OwnedStates, OpenOf, OpenJobs, Open, OpenStatus
  <1> QED BY <1>2, <1>3, <1>4, <1>5 DEF Ownership

\* A worker closes its job: no job is open afterwards.
LEMMA CloseOwnership ==
    ASSUME TypeOK, Ownership, NEW j \in Job, worker[j] # "idle",
           NEW s \in JobStatus \ OpenStatus, job' = [job EXCEPT ![j].status = s],
           worker' = [worker EXCEPT ![j] = "idle"],
           state' \notin {"Queued", "Provisioning", "Retiring"}
    PROVE  Ownership'
  <1>1. Open(j)
    BY DEF Ownership, WorkerHoldsItsJob, Open, OpenStatus
  <1>2. \A i \in Job : ~Open(i)'
    <2>1. job'[j].status = s /\ \A i \in Job \ {j} : job'[i] = job[i]
      BY StatusRow
    <2>2. ~Open(j)'
      BY <2>1 DEF Open
    <2>3. \A i \in Job \ {j} : ~Open(i)'
      BY <1>1, <2>1 DEF Ownership, SingleOpenJob, Open
    <2> QED BY <2>2, <2>3
  <1>3. WorkerHoldsItsJob'
    BY StatusRow DEF Ownership, WorkerHoldsItsJob, TypeOK
  <1> QED BY <1>2, <1>3 DEF Ownership, SingleOpenJob, JobFitsState, OwnedStates

\* No VM, no job.
LEMMA OwnershipInit == Init => Ownership
  BY DEF Init, Ownership, WorkerHoldsItsJob, SingleOpenJob, JobFitsState, OwnedStates,
         Open, OpenStatus

\* Every step keeps the ownership.
LEMMA OwnershipStep ==
    ASSUME TypeOK, Ownership, [Next]_vars
    PROVE  Ownership'
  <1>1. CASE Environment
    BY <1>1, KeepOwnership
       DEF Environment, Activate, EndAllocation, ChangeMembership, EditPolicy
  <1>2. ASSUME Services PROVE Ownership'
    <2>1. ASSUME NEW j \in Job, ReserveAndQueue(j) PROVE Ownership'
      <3>1. OpenJobs = {}
        BY <2>1 DEF ReserveAndQueue, OpenJobs, Ownership, JobFitsState, TypeOK, JobRow,
                    Actions, GuestWork
      <3> QED BY <2>1, <3>1, CreateOwnership DEF ReserveAndQueue, Actions
    <2>2. ASSUME NEW j \in Job, QueueProvisioning(j) PROVE Ownership'
      BY <2>2, CreateOwnership DEF QueueProvisioning, Actions
    <2>3. ASSUME NEW j \in Job, QueueRetirement(j) PROVE Ownership'
      BY <2>3, CreateOwnership DEF QueueRetirement, Actions
    <2>4. ASSUME NEW j \in Job, QueueReconcile(j) PROVE Ownership'
      <3>1. OpenJobs = {}
        BY <2>4 DEF QueueReconcile, Reconcilable, OpenOf, OpenJobs, Ownership,
                    JobFitsState, TypeOK, JobRow, Actions, GuestWork
      <3> QED BY <2>4, <3>1, CreateOwnership
              DEF QueueReconcile, Reconcilable, Actions, GuestWork
    <2>5. ASSUME NEW j \in Job, QueuePatch(j) PROVE Ownership'
      <3>1. OpenJobs = {}
        BY <2>5 DEF QueuePatch, Patchable, OpenOf, OpenJobs, Ownership,
                    JobFitsState, TypeOK, JobRow, Actions, GuestWork
      <3> QED BY <2>5, <3>1, CreateOwnership DEF QueuePatch, Patchable, Actions, GuestWork
    <2>6. CASE RequireRetirementReview
      <3>1. UNCHANGED <<job, worker>>
            /\ (state' = state \/ state' = "Retirement Review")
        BY <2>6 DEF RequireRetirementReview
      <3> QED BY <3>1 DEF Ownership, WorkerHoldsItsJob, SingleOpenJob, JobFitsState,
                          OwnedStates, Open, OpenOf, OpenJobs
    <2>7. CASE \E k \in Kinds : LoseCallback(k)
      BY <2>7, KeepOwnership DEF LoseCallback
    <2>8. CASE NothingToProvision \/ ReadExisting \/ AbortReserve \/ NothingToRetire
                 \/ NothingToReconcile
      BY <2>8, KeepOwnership
         DEF NothingToProvision, ReadExisting, AbortReserve, NothingToRetire,
             NothingToReconcile
    <2>9. CASE ReturnOpenJob \/ ReturnOpenInsteadOfRetire \/ ReturnOpenReconcile
                 \/ ReturnOpenPatch
      BY <2>9, KeepOwnership
         DEF ReturnOpenJob, ReturnOpenInsteadOfRetire, ReturnOpenReconcile,
             ReturnOpenPatch, ReturnJob
    <2> QED BY <1>2, <2>1, <2>2, <2>3, <2>4, <2>5, <2>6, <2>7, <2>8, <2>9 DEF Services
  <1>3. ASSUME NEW j \in Job, JobStep(j) PROVE Ownership'
    <2>1. ASSUME Claim(j) PROVE Ownership'
      <3>1. job'[j].status = "Running" /\ job'[j].action = job[j].action
        BY <2>1 DEF Claim, TypeOK, JobRow
      <3>2. \A i \in Job \ {j} : job'[i] = job[i]
        BY <2>1 DEF Claim, TypeOK
      <3>3. Open(j) /\ \A i \in Job : (Open(i)' <=> Open(i)) /\ job'[i].action = job[i].action
        <4>1. job[j].status = "Queued"
          BY <2>1 DEF Claim
        <4>2. Open(j) /\ Open(j)'
          BY <3>1, <4>1, Zenon DEF Open, OpenStatus
        <4>3. \A i \in Job \ {j} : (Open(i)' <=> Open(i)) /\ job'[i].action = job[i].action
          BY <3>2 DEF Open
        <4> QED BY <3>1, <4>2, <4>3
      <3>4. WorkerHoldsItsJob'
        BY <2>1, <3>1, <3>2 DEF Claim, Ownership, WorkerHoldsItsJob, TypeOK
      <3>5. SingleOpenJob'
        BY <3>3 DEF Ownership, SingleOpenJob
      <3>6. \/ job[j].action = "Retire" /\ state' = "Retiring"
            \/ job[j].action = "Provision" /\ state' = "Provisioning"
            \/ job[j].action \in GuestWork /\ state' = state
        BY <2>1 DEF Claim, TypeOK, JobRow, Actions, GuestWork
      <3>7. JobFitsState'
        BY <3>3, <3>6 DEF Ownership, JobFitsState, SingleOpenJob, GuestWork
      <3>8. OwnedStates'
        BY <3>3, <3>6 DEF Ownership, OwnedStates, OpenOf, OpenJobs
      <3> QED BY <3>4, <3>5, <3>7, <3>8 DEF Ownership
    <2>2. CASE IgnoreTask(j) \/ Redispatch(j)
      BY <2>2, KeepOwnership DEF IgnoreTask, Redispatch
    <2>3. ASSUME ReclaimStale(j) PROVE Ownership'
      <3>1. worker' = [worker EXCEPT ![j] = "idle"]
        BY <2>3 DEF ReclaimStale, TypeOK
      <3>2. job[j].status = "Running" /\ state' = state
        BY <2>3 DEF ReclaimStale
      <3>3. job' = [job EXCEPT ![j].status = "Queued"]
        BY <2>3 DEF ReclaimStale
      <3> QED BY <3>1, <3>2, <3>3, RequeueOwnership
    <2>4. ASSUME NEW v, worker[j] = "claimed", Decide(j, v) PROVE Ownership'
      <3>1. WorkerHoldsItsJob'
        BY <2>4 DEF Decide, Ownership, WorkerHoldsItsJob, TypeOK
      <3> QED BY <2>4, <3>1 DEF Decide, Ownership, SingleOpenJob, JobFitsState,
                                OwnedStates, Open, OpenOf, OpenJobs
    <2>5. CASE CheckProvision(j) \/ CheckRetire(j) \/ CheckGuest(j)
      BY <2>4, <2>5 DEF CheckProvision, CheckRetire, CheckGuest
    <2>6. ASSUME ProvisionSucceeds(j) PROVE Ownership'
      BY <2>6, CloseOwnership DEF ProvisionSucceeds, Finish, JobStatus, OpenStatus
    <2>7. ASSUME ProvisionEndsBadly(j) PROVE Ownership'
      BY <2>7, CloseOwnership DEF ProvisionEndsBadly, Finish, JobStatus, OpenStatus
    <2>8. ASSUME RetryProvision(j) PROVE Ownership'
      <3>1. job[j].status = "Running"
        BY <2>8 DEF RetryProvision, Ownership, WorkerHoldsItsJob
      <3> QED BY <2>8, <3>1, RequeueOwnership DEF RetryProvision
    <2>9. ASSUME RetireFinishes(j) PROVE Ownership'
      BY <2>9, CloseOwnership DEF RetireFinishes, Finish, JobStatus, OpenStatus
    <2>10. ASSUME GuestJobFinishes(j) PROVE Ownership'
      <3>1. PICK s \in {"Blocked", "Succeeded", "Failed"} :
              job' = [job EXCEPT ![j].status = s]
        BY <2>10 DEF GuestJobFinishes
      <3>2. Open(j) /\ worker[j] # "idle" /\ job[j].action \in GuestWork
        BY <2>10 DEF GuestJobFinishes, Ownership, WorkerHoldsItsJob, Open, OpenStatus
      <3>3. state' \notin {"Queued", "Provisioning", "Retiring"}
        BY <2>10, <3>2
           DEF GuestJobFinishes, StateAfterGuestJob, Ownership, JobFitsState
      <3> QED BY <2>10, <3>1, <3>2, <3>3, CloseOwnership
              DEF GuestJobFinishes, JobStatus, OpenStatus
    <2>11. ASSUME WorkerDies(j) PROVE Ownership'
      <3>1. WorkerHoldsItsJob'
        BY <2>11 DEF WorkerDies, Ownership, WorkerHoldsItsJob, TypeOK
      <3> QED BY <2>11, <3>1 DEF WorkerDies, Ownership, SingleOpenJob, JobFitsState,
                                 OwnedStates, Open, OpenOf, OpenJobs
    <2> QED BY <1>3, <2>1, <2>2, <2>3, <2>5, <2>6, <2>7, <2>8, <2>9, <2>10, <2>11
            DEF JobStep
  <1>4. CASE Workers BY <1>3, <1>4 DEF Workers, JobStep
  <1>5. CASE UNCHANGED vars BY <1>5, KeepOwnership DEF vars
  <1> QED BY <1>1, <1>2, <1>4, <1>5 DEF Next

-----------------------------------------------------------------------------
(* The inductive invariant.  SingleOpenJob is not inductive by itself: a guest
   job may be queued when no other guest job is open, which is safe only because
   the VM's state (JobFitsState) rules out an open Provision or Retire job; that
   in turn needs workers to act on Running jobs only (WorkerHoldsItsJob).   *)

\* The inductive invariant.
IInv == TypeOK /\ QueuedIsClaimable /\ Ownership

\* IInv holds in every state.
THEOREM IInvInvariant == Spec => []IInv
  <1>1. Init => IInv
    BY TypeInit, OwnershipInit DEF IInv
  <1>2. IInv /\ [Next]_vars => IInv'
    BY TypeStep, OwnershipStep DEF IInv
  <1> QED BY <1>1, <1>2, PTL DEF Spec

\* Every row, state and counter keeps its type; no job is claimed more often
\* than MaxAttempts although _claim_job does not test the counter.
THEOREM TypeCorrect == Spec => []TypeOK
  <1>1. IInv => TypeOK BY DEF IInv
  <1> QED BY <1>1, IInvInvariant, PTL

\* A VM never has two open jobs.
THEOREM OneOpenJob == Spec => []SingleOpenJob
  <1>1. IInv => SingleOpenJob BY DEF IInv, Ownership
  <1> QED BY <1>1, IInvInvariant, PTL

\* No job is closed, requeued or reclaimed under its live worker.
THEOREM WorkersHold == Spec => []WorkerHoldsItsJob
  <1>1. IInv => WorkerHoldsItsJob BY DEF IInv, Ownership
  <1> QED BY <1>1, IInvInvariant, PTL

\* Every Queued job can still be picked up by dispatch_queued_jobs.
THEOREM Claimable == Spec => []QueuedIsClaimable
  <1>1. IInv => QueuedIsClaimable BY DEF IInv
  <1> QED BY <1>1, IInvInvariant, PTL

\* While a job is open the VM is in one of the states its kind allows.
THEOREM JobsFitTheState == Spec => []JobFitsState
  <1>1. IInv => JobFitsState BY DEF IInv, Ownership
  <1> QED BY <1>1, IInvInvariant, PTL

\* Queued, Provisioning and Retiring never outlive the job they belong to.
THEOREM StatesAreOwned == Spec => []OwnedStates
  <1>1. IInv => OwnedStates BY DEF IInv, Ownership
  <1> QED BY <1>1, IInvInvariant, PTL

-----------------------------------------------------------------------------
(* The retirement controls.  The policy is tested when the job is created and
   again by its worker, the settings gates by the worker alone.  What makes the
   first test last is that clean() freezes retirement_enabled once a VM exists,
   and that an open job implies a VM (JobFitsState).                        *)

\* KillSwitchHolds, carried back to the open Retire job and its worker.
RetireAllowed ==
    /\ state \in {"Retiring", "Retired"} => "retirement" \in policy
    /\ state = "Retired" => Gates = AllGates
    /\ \A j \in Job : Open(j) /\ job[j].action = "Retire" => "retirement" \in policy
    /\ \A j \in Job : worker[j] = "working" /\ job[j].action = "Retire" => Gates = AllGates

\* A step that leaves jobs, workers and policy alone, and retires nothing.
LEMMA KeepAllowed ==
    ASSUME RetireAllowed, UNCHANGED <<job, worker, policy>>,
           state' = state \/ state' \notin {"Retiring", "Retired"}
    PROVE  RetireAllowed'
  BY DEF RetireAllowed, Open

\* A job is created; a Retire job only under the policy.
LEMMA CreateAllowed ==
    ASSUME TypeOK, RetireAllowed, NEW j \in Job, NEW a \in Actions, CreateJob(j, a),
           UNCHANGED <<worker, policy>>,
           state' = state \/ state' \notin {"Retiring", "Retired"},
           a = "Retire" => "retirement" \in policy
    PROVE  RetireAllowed'
  <1> DEFINE row == [status |-> "Queued", action |-> a, attempts |-> 0]
  <1>1. row.action = a
    OBVIOUS
  <1>2. job'[j].action = a /\ worker'[j] = "idle"
    BY <1>1 DEF CreateJob, Unused, TypeOK
  <1>3. \A i \in Job \ {j} : job'[i] = job[i]
    BY DEF CreateJob, TypeOK
  <1> QED BY <1>2, <1>3 DEF RetireAllowed, Open

\* A worker lets its job go, closed or queued again.
LEMMA StatusAllowed ==
    ASSUME TypeOK, RetireAllowed, NEW j \in Job, NEW s, Open(j),
           job' = [job EXCEPT ![j].status = s], UNCHANGED policy,
           worker' = [worker EXCEPT ![j] = "idle"],
           \/ state' = state
           \/ state' \notin {"Retiring", "Retired"}
           \/ job[j].action = "Retire" /\ Gates = AllGates
    PROVE  RetireAllowed'
  <1>1. /\ job'[j].action = job[j].action /\ worker'[j] = "idle"
        /\ \A i \in Job \ {j} : job'[i] = job[i] /\ worker'[i] = worker[i]
    BY StatusRow DEF TypeOK
  <1>2. \A i \in Job : Open(i)' /\ job'[i].action = "Retire" => "retirement" \in policy
    BY <1>1 DEF RetireAllowed, Open
  <1>3. \A i \in Job : worker'[i] = "working" /\ job'[i].action = "Retire"
                         => Gates = AllGates
    BY <1>1 DEF RetireAllowed
  <1>4. /\ state' \in {"Retiring", "Retired"} => "retirement" \in policy
        /\ state' = "Retired" => Gates = AllGates
    BY DEF RetireAllowed
  <1> QED BY <1>2, <1>3, <1>4 DEF RetireAllowed

\* Every step, edits of the policy included, keeps it.
LEMMA AllowedStep ==
    ASSUME IInv, RetireAllowed, [Next]_vars
    PROVE  RetireAllowed'
  <1> USE DEF IInv
  <1>1. CASE Environment
    <2>1. CASE Activate \/ EndAllocation \/ ChangeMembership
      BY <2>1, KeepAllowed DEF Activate, EndAllocation, ChangeMembership
    <2>2. CASE EditPolicy
      <3>1. CASE state = "None"
        <4>1. \A j \in Job : ~Open(j)
          BY <3>1 DEF Ownership, JobFitsState, TypeOK, JobRow, Actions, GuestWork
        <4> QED BY <2>2, <3>1, <4>1 DEF EditPolicy, RetireAllowed, Open
      <3>2. CASE state # "None"
        BY <2>2, <3>2 DEF EditPolicy, RetireAllowed, Open
      <3> QED BY <3>1, <3>2
    <2> QED BY <1>1, <2>1, <2>2 DEF Environment
  <1>2. ASSUME Services PROVE RetireAllowed'
    <2>1. ASSUME NEW j \in Job, ReserveAndQueue(j) \/ QueueProvisioning(j)
          PROVE  RetireAllowed'
      BY <2>1, CreateAllowed DEF ReserveAndQueue, QueueProvisioning, Actions
    <2>2. ASSUME NEW j \in Job, QueueRetirement(j) PROVE RetireAllowed'
      BY <2>2, CreateAllowed DEF QueueRetirement, Retirable, Actions
    <2>3. ASSUME NEW j \in Job, QueueReconcile(j) \/ QueuePatch(j) PROVE RetireAllowed'
      BY <2>3, CreateAllowed DEF QueueReconcile, QueuePatch, Actions
    <2>4. CASE RequireRetirementReview
      BY <2>4, KeepAllowed DEF RequireRetirementReview
    <2>5. CASE \E k \in Kinds : LoseCallback(k)
      BY <2>5, KeepAllowed DEF LoseCallback
    <2>6. CASE NothingToProvision \/ ReadExisting \/ AbortReserve \/ NothingToRetire
                 \/ NothingToReconcile
      BY <2>6, KeepAllowed
         DEF NothingToProvision, ReadExisting, AbortReserve, NothingToRetire,
             NothingToReconcile
    <2>7. CASE ReturnOpenJob \/ ReturnOpenInsteadOfRetire \/ ReturnOpenReconcile
                 \/ ReturnOpenPatch
      BY <2>7, KeepAllowed
         DEF ReturnOpenJob, ReturnOpenInsteadOfRetire, ReturnOpenReconcile,
             ReturnOpenPatch, ReturnJob
    <2> QED BY <1>2, <2>1, <2>2, <2>3, <2>4, <2>5, <2>6, <2>7 DEF Services
  <1>3. ASSUME NEW j \in Job, JobStep(j) PROVE RetireAllowed'
    <2>1. ASSUME Claim(j) PROVE RetireAllowed'
      <3>1. /\ job[j].status = "Queued" /\ job'[j].action = job[j].action
            /\ \A i \in Job \ {j} : job'[i] = job[i] /\ worker'[i] = worker[i]
            /\ worker'[j] = "claimed" /\ policy' = policy
        BY <2>1 DEF Claim, TypeOK, JobRow
      <3>2. job[j].action = "Retire" \/ state' = state \/ state' = "Provisioning"
        BY <2>1 DEF Claim, TypeOK, JobRow, Actions
      <3>3. state' = state \/ state' \in {"Retiring", "Provisioning"}
        BY <2>1 DEF Claim, TypeOK, JobRow, Actions
      <3>4. Open(j)
        BY <3>1, Zenon DEF Open, OpenStatus
      <3> QED BY <3>1, <3>2, <3>3, <3>4 DEF RetireAllowed, Open
    <2>2. CASE IgnoreTask(j) \/ Redispatch(j)
      BY <2>2, KeepAllowed DEF IgnoreTask, Redispatch
    <2>3. ASSUME ReclaimStale(j) PROVE RetireAllowed'
      <3>1. worker' = [worker EXCEPT ![j] = "idle"] /\ Open(j)
        BY <2>3 DEF ReclaimStale, TypeOK, Open, OpenStatus
      <3>2. job' = [job EXCEPT ![j].status = "Queued"] /\ UNCHANGED <<state, policy>>
        BY <2>3 DEF ReclaimStale
      <3> QED BY <3>1, <3>2, StatusAllowed
    <2>4. CASE CheckProvision(j) \/ CheckRetire(j) \/ CheckGuest(j)
      <3>1. UNCHANGED <<job, state, policy>> /\ \A i \in Job \ {j} : worker'[i] = worker[i]
        BY <2>4 DEF CheckProvision, CheckRetire, CheckGuest, Decide, TypeOK
      <3>2. worker'[j] = "working" /\ job[j].action = "Retire" => Gates = AllGates
        BY <2>4 DEF CheckProvision, CheckRetire, CheckGuest, Decide, TypeOK, GuestWork
      <3> QED BY <3>1, <3>2 DEF RetireAllowed, Open
    <2>5. ASSUME worker[j] # "idle" PROVE Open(j)
      BY <2>5 DEF Ownership, WorkerHoldsItsJob, Open, OpenStatus
    <2>6. ASSUME ProvisionSucceeds(j) PROVE RetireAllowed'
      BY <2>5, <2>6, StatusAllowed DEF ProvisionSucceeds, Finish
    <2>7. ASSUME ProvisionEndsBadly(j) PROVE RetireAllowed'
      BY <2>5, <2>7, StatusAllowed DEF ProvisionEndsBadly, Finish
    <2>8. ASSUME RetryProvision(j) PROVE RetireAllowed'
      BY <2>5, <2>8, StatusAllowed DEF RetryProvision
    <2>9. ASSUME RetireFinishes(j) PROVE RetireAllowed'
      <3>1. CASE worker[j] = "working"
        <4>1. Gates = AllGates
          BY <2>9, <3>1 DEF RetireFinishes, RetireAllowed
        <4> QED BY <2>5, <2>9, <3>1, <4>1, StatusAllowed DEF RetireFinishes, Finish
      <3>2. CASE worker[j] # "working"
        BY <2>5, <2>9, <3>2, StatusAllowed DEF RetireFinishes, Finish
      <3> QED BY <3>1, <3>2
    <2>10. ASSUME GuestJobFinishes(j) PROVE RetireAllowed'
      <3>1. PICK s \in {"Blocked", "Succeeded", "Failed"} :
              job' = [job EXCEPT ![j].status = s]
        BY <2>10 DEF GuestJobFinishes
      <3>2. state' = state \/ state' \notin {"Retiring", "Retired"}
        BY <2>10 DEF GuestJobFinishes, StateAfterGuestJob
      <3>3. Open(j) /\ worker' = [worker EXCEPT ![j] = "idle"] /\ policy' = policy
        BY <2>5, <2>10 DEF GuestJobFinishes
      <3> QED BY <3>1, <3>2, <3>3, StatusAllowed
    <2>11. ASSUME WorkerDies(j) PROVE RetireAllowed'
      BY <2>11 DEF WorkerDies, RetireAllowed, Open, TypeOK
    <2> QED BY <1>3, <2>1, <2>2, <2>3, <2>4, <2>6, <2>7, <2>8, <2>9, <2>10, <2>11
            DEF JobStep
  <1>4. CASE Workers BY <1>3, <1>4 DEF Workers, JobStep
  <1>5. CASE UNCHANGED vars BY <1>5, KeepAllowed DEF vars
  <1> QED BY <1>1, <1>2, <1>4, <1>5 DEF Next

\* No VM is ever retired unless both settings gates are True and the policy
\* allows retirement, whatever is edited while jobs are open.
THEOREM KillSwitch == Spec => []KillSwitchHolds
  <1>1. Init => RetireAllowed
    BY DEF Init, RetireAllowed, Open, OpenStatus
  <1>2. IInv /\ RetireAllowed /\ [Next]_vars => RetireAllowed'
    BY AllowedStep
  <1>3. RetireAllowed => KillSwitchHolds
    BY DEF RetireAllowed, KillSwitchHolds
  <1> QED BY <1>1, <1>2, <1>3, IInvInvariant, PTL DEF Spec

=============================================================================
