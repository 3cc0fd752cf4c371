------------------------------- MODULE VMJobs -------------------------------
(***************************************************************************)
(* The durable jobs of one VM allocation: how approvals, expiries, member- *)
(* ship changes and management commands become ProvisioningJob rows, how   *)
(* Django-Q workers claim, run, retry and finish them, and how the         *)
(* once-a-minute scheduler recovers the claims of dead workers.            *)
(*                                                                         *)
(* One action is one database transaction (services.py and tasks.py lock   *)
(* the rows they change with select_for_update) or one step of a worker    *)
(* between two transactions.  create_provisioning_job is two actions: it   *)
(* locks only the Allocation row and reads the VM and its jobs in separate *)
(* READ COMMITTED statements, so _finish, which locks the job and VM rows  *)
(* alone, may commit between them.                                         *)
(*                                                                         *)
(* The work a job does outside the database (PVE, NetBox, PBS, the guest)  *)
(* is reduced to its outcome here; module Retirement opens it up.          *)
(***************************************************************************)
EXTENDS Naturals, FiniteSets

CONSTANTS
    Job,          \* rows of ProvisioningJob; a closed row may stand for a later one
    MaxAttempts,  \* claims a job may consume (3 in the source)
    MaxPending,   \* bound: outstanding callbacks of one kind
    MaxFaults,    \* bound: dead workers, dead web processes, aborted transactions
    Gates,        \* the settings gates that are True, a subset of AllGates
    Policies,     \* values the admin policy may take, sets of AllPolicy elements
    Commands      \* kinds of job an operator may request by management command

AllGates  == {"execute", "retire"}
AllPolicy == {"enabled", "retirement", "guest", "patch"}
Kinds     == {"provision", "review", "retire", "reconcile"}

ASSUME MaxAttemptsAssumption == MaxAttempts \in Nat \ {0}
ASSUME BoundsAssumption == MaxPending \in Nat \ {0} /\ MaxFaults \in Nat
ASSUME SettingsAssumption ==
    /\ Gates \subseteq AllGates
    /\ Policies \subseteq SUBSET AllPolicy
    /\ Policies # {}
    /\ Commands \subseteq {"provision", "retire", "reconcile", "patch"}

VARIABLES
    allocation,   \* Allocation.status: "New", "Active", or "Ended" (denied, revoked, expired)
    state,        \* VirtualMachine.state; "None" while the row does not exist
    provisioned,  \* VirtualMachine.provisioned_at is set
    job,          \* the ProvisioningJob rows
    worker,       \* what the Django-Q worker that claimed the job is about to do
    tasks,        \* jobs with a run_job task in the Django-Q broker
    pending,      \* on-commit callbacks not yet run, per kind
    reserving,    \* create_provisioning_job has read the VM and holds the Allocation row
    policy,       \* the enabled parts of ProvisionerConfiguration
    faults        \* faults spent, at most MaxFaults

vars == <<allocation, state, provisioned, job, worker, tasks, pending,
          reserving, policy, faults>>

Actions    == {"Provision", "Reconcile", "Patch", "Retire"}
GuestWork  == {"Reconcile", "Patch"}
OpenStatus == {"Queued", "Running"}
JobStatus  == OpenStatus \cup {"None", "Succeeded", "Blocked", "Failed"}
VMState    == {"None", "Queued", "Provisioning", "Active", "Blocked", "Failed",
               "Retirement Review", "Retiring", "Retired"}

\* A worker has "claimed" its job, then holds a verdict to record ("blocked",
\* "disabled", "failed") or is doing the external work ("working").
WorkerPhase == {"idle", "claimed", "blocked", "disabled", "failed", "working"}

JobRow == [status : JobStatus, action : Actions, attempts : 0..MaxAttempts]

Open(j)       == job[j].status \in OpenStatus
OpenJobs      == {j \in Job : Open(j)}
OpenOf(acts)  == {j \in OpenJobs : job[j].action \in acts}
Enabled       == "enabled" \in policy
GuestManaged  == "guest" \in policy

\* A row that may hold a new job: closed, and forgotten by workers and broker.
Unused(j) == ~Open(j) /\ worker[j] = "idle" /\ j \notin tasks

\* One more callback of a kind; past the bound it coincides with the last one.
Raise(k) == [pending EXCEPT ![k] = IF @ < MaxPending THEN @ + 1 ELSE @]

\* A callback of this kind runs, or an operator's command calls the same service.
Trigger(k) ==
    \/ pending[k] > 0 /\ pending' = [pending EXCEPT ![k] = @ - 1]
    \/ k \in Commands /\ UNCHANGED pending

\* dispatch_job, unless the job already has a task id or the process dies first.
MayDispatch(j) == tasks' \in {tasks, tasks \cup {j}}

CreateJob(j, a) ==
    /\ Unused(j)
    /\ job' = [job EXCEPT ![j] = [status |-> "Queued", action |-> a, attempts |-> 0]]
    /\ MayDispatch(j)

\* A service that finds open jobs returns one of them and may dispatch it again.
ReturnJob(acts) ==
    /\ \E j \in OpenOf(acts) : MayDispatch(j)
    /\ UNCHANGED job

Init ==
    /\ allocation = "New"
    /\ state = "None"
    /\ provisioned = FALSE
    /\ job = [j \in Job |-> [status |-> "None", action |-> "Provision", attempts |-> 0]]
    /\ worker = [j \in Job |-> "idle"]
    /\ tasks = {}
    /\ pending = [k \in Kinds |-> 0]
    /\ reserving = FALSE
    /\ policy \in Policies
    /\ faults = 0

-----------------------------------------------------------------------------
(* ColdFront, its signals, and the administrator.                          *)

\* allocation_activate: queue_approved_vm registers safe_queue_allocation.
Activate ==
    /\ allocation # "Active" /\ ~reserving
    /\ allocation' = "Active"
    /\ pending' = Raise("provision")
    /\ UNCHANGED <<state, provisioned, job, worker, tasks, reserving, policy, faults>>

\* allocation_disable, or any save of an Expired allocation.
EndAllocation ==
    /\ allocation # "New" /\ ~reserving
    /\ allocation' = "Ended"
    /\ pending' = Raise("review")
    /\ UNCHANGED <<state, provisioned, job, worker, tasks, reserving, policy, faults>>

\* An AllocationUser is saved or deleted.
ChangeMembership ==
    /\ allocation # "New"
    /\ pending' = Raise("reconcile")
    /\ UNCHANGED <<allocation, state, provisioned, job, worker, tasks, reserving,
                   policy, faults>>

\* ProvisionerConfiguration is edited in Django admin.  Its clean() freezes
\* retirement_enabled once a VM exists; the other switches stay editable.
EditPolicy ==
    /\ policy' \in Policies \ {policy}
    /\ state # "None" => ("retirement" \in policy' <=> "retirement" \in policy)
    /\ UNCHANGED <<allocation, state, provisioned, job, worker, tasks, pending,
                   reserving, faults>>

\* A callback that raises (the safe_queue_* functions log and swallow) or whose
\* process dies.  With the plugin disabled every callback raises.
LoseCallback(k) ==
    /\ pending[k] > 0
    /\ pending' = [pending EXCEPT ![k] = @ - 1]
    /\ \/ ~Enabled /\ UNCHANGED faults
       \/ Enabled /\ faults < MaxFaults /\ faults' = faults + 1
    /\ UNCHANGED <<allocation, state, provisioned, job, worker, tasks, reserving, policy>>

-----------------------------------------------------------------------------
(* services.py: one transaction per callback or command.                   *)

\* reserve_identity creates the VM and its job is queued in the same
\* transaction, so the state Reserved is never committed.
ReserveAndQueue(j) ==
    /\ Enabled /\ ~reserving /\ Trigger("provision")
    /\ allocation = "Active" /\ state = "None"
    /\ state' = "Queued"
    /\ CreateJob(j, "Provision")
    /\ UNCHANGED <<allocation, provisioned, worker, reserving, policy, faults>>

\* create_provisioning_job has nothing to do: the allocation is not Active, its
\* VM is retired (reserve_identity raises) or is already Active.
NothingToProvision ==
    /\ Enabled /\ ~reserving /\ pending["provision"] > 0
    /\ \/ allocation # "Active"
       \/ state \in {"Retired", "Active"}
    /\ pending' = [pending EXCEPT !["provision"] = @ - 1]
    /\ UNCHANGED <<allocation, state, provisioned, job, worker, tasks, reserving,
                   policy, faults>>

\* reserve_identity returns the existing VM; the Allocation row stays locked.
ReadExisting ==
    /\ Enabled /\ ~reserving /\ Trigger("provision")
    /\ allocation = "Active"
    /\ state \notin {"None", "Retired", "Active"}
    /\ reserving' = TRUE
    /\ UNCHANGED <<allocation, state, provisioned, job, worker, tasks, policy, faults>>

\* ... then its open jobs are read and, if there is none, one is created.
QueueProvisioning(j) ==
    /\ Enabled /\ reserving
    /\ OpenJobs = {}
    /\ CreateJob(j, "Provision")
    /\ state' = "Queued"
    /\ reserving' = FALSE
    /\ UNCHANGED <<allocation, provisioned, worker, pending, policy, faults>>

\* Mistake: the VM is marked Queued before the open job is returned.
ReturnOpenJobAndQueue ==
    /\ reserving
    /\ ReturnJob(Actions)
    /\ reserving' = FALSE
    /\ state' = "Queued"
    /\ UNCHANGED <<allocation, provisioned, worker, pending, policy, faults>>

ReturnOpenJob ==
    /\ reserving
    /\ ReturnJob(Actions)
    /\ reserving' = FALSE
    /\ UNCHANGED <<allocation, state, provisioned, worker, pending, policy, faults>>

\* The transaction is rolled back: its process dies or the plugin is disabled.
AbortReserve ==
    /\ reserving
    /\ reserving' = FALSE
    /\ \/ ~Enabled /\ UNCHANGED faults
       \/ Enabled /\ faults < MaxFaults /\ faults' = faults + 1
    /\ UNCHANGED <<allocation, state, provisioned, job, worker, tasks, pending, policy>>

\* First transaction of safe_queue_retirement.
RequireRetirementReview ==
    /\ Enabled /\ pending["review"] > 0
    /\ state' = IF state \in {"None", "Retired"} THEN state ELSE "Retirement Review"
    /\ pending' = [pending EXCEPT
                     !["review"] = @ - 1,
                     !["retire"] = IF @ < MaxPending THEN @ + 1 ELSE @]
    /\ UNCHANGED <<allocation, provisioned, job, worker, tasks, reserving, policy, faults>>

\* Second transaction: create_retirement_job.
NothingToRetire ==
    /\ Enabled /\ ~reserving /\ pending["retire"] > 0
    /\ \/ "retirement" \notin policy
       \/ state \in {"None", "Retired"}
       \/ allocation = "Active"
    /\ pending' = [pending EXCEPT !["retire"] = @ - 1]
    /\ UNCHANGED <<allocation, state, provisioned, job, worker, tasks, reserving,
                   policy, faults>>

\* Mistakes: the allocation's status is not looked at, though it may have been
\* reactivated since the callback was registered; Retired is not refused.
RetirableAlthoughActive ==
    /\ Enabled /\ ~reserving /\ "retirement" \in policy
    /\ state \notin {"None", "Retired"}

RetirableAgain ==
    /\ Enabled /\ ~reserving /\ "retirement" \in policy
    /\ allocation # "Active"
    /\ state # "None"

Retirable ==
    /\ Enabled /\ ~reserving /\ "retirement" \in policy
    /\ allocation # "Active"
    /\ state \notin {"None", "Retired"}

ReturnOpenInsteadOfRetire ==
    /\ Retirable /\ Trigger("retire")
    /\ ReturnJob(Actions)
    /\ UNCHANGED <<allocation, state, provisioned, worker, reserving, policy, faults>>

QueueRetirement(j) ==
    /\ Retirable /\ Trigger("retire")
    /\ OpenJobs = {}
    /\ CreateJob(j, "Retire")
    /\ state' = "Retirement Review"
    /\ UNCHANGED <<allocation, provisioned, worker, reserving, policy, faults>>

\* Mistake: the states Queued and Provisioning are left out of the refusals.
ReconcilableEarly ==
    /\ Enabled /\ ~reserving /\ GuestManaged
    /\ allocation = "Active"
    /\ state \in {"Active", "Blocked", "Failed", "Queued", "Provisioning"}

\* create_access_reconciliation_job accepts a VM in these states.
Reconcilable ==
    /\ Enabled /\ ~reserving /\ GuestManaged
    /\ allocation = "Active"
    /\ state \in {"Active", "Blocked", "Failed"}

\* The users and the policy a guest was last given are not part of this module:
\* it may or may not be out of date, so the trigger may have no effect.
NothingToReconcile ==
    /\ Enabled /\ ~reserving /\ pending["reconcile"] > 0
    /\ pending' = [pending EXCEPT !["reconcile"] = @ - 1]
    /\ UNCHANGED <<allocation, state, provisioned, job, worker, tasks, reserving,
                   policy, faults>>

ReturnOpenReconcile ==
    /\ Reconcilable /\ Trigger("reconcile")
    /\ ReturnJob({"Reconcile"})
    /\ UNCHANGED <<allocation, state, provisioned, worker, reserving, policy, faults>>

QueueReconcile(j) ==
    /\ Reconcilable /\ Trigger("reconcile")
    /\ OpenOf(GuestWork) = {}
    /\ CreateJob(j, "Reconcile")
    /\ UNCHANGED <<allocation, state, provisioned, worker, reserving, policy, faults>>

\* The daily schedule (queue_due_guest_patch_jobs) or patch_pve_vm.
Patchable ==
    /\ Enabled /\ ~reserving /\ {"guest", "patch"} \subseteq policy
    /\ "patch" \in Commands
    /\ allocation = "Active" /\ state = "Active"

ReturnOpenPatch ==
    /\ Patchable
    /\ ReturnJob({"Patch"})
    /\ UNCHANGED <<allocation, state, provisioned, worker, pending, reserving, policy,
                   faults>>

QueuePatch(j) ==
    /\ Patchable
    /\ OpenOf(GuestWork) = {}
    /\ CreateJob(j, "Patch")
    /\ UNCHANGED <<allocation, state, provisioned, worker, pending, reserving, policy,
                   faults>>

-----------------------------------------------------------------------------
(* Django-Q delivery (at least once) and the scheduler.                    *)

\* Mistake: guest maintenance is not exempt from the state change.
ClaimMovingGuestJobs(j) ==
    /\ Enabled /\ ~reserving
    /\ j \in tasks /\ job[j].status = "Queued"
    /\ tasks' \in {tasks, tasks \ {j}}
    /\ job' = [job EXCEPT ![j].status = "Running", ![j].attempts = @ + 1]
    /\ state' = IF job[j].action = "Retire" THEN "Retiring" ELSE "Provisioning"
    /\ worker' = [worker EXCEPT ![j] = "claimed"]
    /\ UNCHANGED <<allocation, provisioned, pending, reserving, policy, faults>>

\* _claim_job; the broker may redeliver the task later.
Claim(j) ==
    /\ Enabled /\ ~reserving
    /\ j \in tasks /\ job[j].status = "Queued"
    /\ tasks' \in {tasks, tasks \ {j}}
    /\ job' = [job EXCEPT ![j].status = "Running", ![j].attempts = @ + 1]
    /\ state' = CASE job[j].action = "Retire" -> "Retiring"
                  [] job[j].action = "Provision" -> "Provisioning"
                  [] OTHER -> state
    /\ worker' = [worker EXCEPT ![j] = "claimed"]
    /\ UNCHANGED <<allocation, provisioned, pending, reserving, policy, faults>>

\* A task whose job is not Queued is ignored; with the plugin disabled the claim
\* raises and is rolled back.
IgnoreTask(j) ==
    /\ j \in tasks
    /\ job[j].status # "Queued" \/ ~Enabled
    /\ tasks' = tasks \ {j}
    /\ UNCHANGED <<allocation, state, provisioned, job, worker, pending, reserving,
                   policy, faults>>

\* Mistakes: attempts__lte, a window shorter than the worker's time limit, and
\* attempts counted afresh.
ReclaimExhausted(j) ==
    /\ job[j].status = "Running" /\ job[j].attempts <= MaxAttempts
    /\ worker[j] = "idle"
    /\ job' = [job EXCEPT ![j].status = "Queued"]
    /\ MayDispatch(j)
    /\ UNCHANGED <<allocation, state, provisioned, worker, pending, reserving, policy,
                   faults>>

ReclaimLive(j) ==
    /\ job[j].status = "Running" /\ job[j].attempts < MaxAttempts
    /\ job' = [job EXCEPT ![j].status = "Queued"]
    /\ MayDispatch(j)
    /\ UNCHANGED <<allocation, state, provisioned, worker, pending, reserving, policy,
                   faults>>

ReclaimAfresh(j) ==
    /\ job[j].status = "Running" /\ job[j].attempts < MaxAttempts
    /\ worker[j] = "idle"
    /\ job' = [job EXCEPT ![j].status = "Queued", ![j].attempts = 0]
    /\ MayDispatch(j)
    /\ UNCHANGED <<allocation, state, provisioned, worker, pending, reserving, policy,
                   faults>>

\* dispatch_queued_jobs: a Running claim older than retry + 60 seconds is queued
\* again.  Django-Q has killed a worker of that age (its timeout is below retry).
ReclaimStale(j) ==
    /\ job[j].status = "Running" /\ job[j].attempts < MaxAttempts
    /\ worker[j] = "idle"
    /\ job' = [job EXCEPT ![j].status = "Queued"]
    /\ MayDispatch(j)
    /\ UNCHANGED <<allocation, state, provisioned, worker, pending, reserving, policy,
                   faults>>

\* Mistake: only jobs never claimed are dispatched again.
RedispatchFresh(j) ==
    /\ job[j].status = "Queued" /\ job[j].attempts = 0
    /\ tasks' = tasks \cup {j}
    /\ UNCHANGED <<allocation, state, provisioned, job, worker, pending, reserving,
                   policy, faults>>

Redispatch(j) ==
    /\ job[j].status = "Queued" /\ job[j].attempts < MaxAttempts
    /\ tasks' = tasks \cup {j}
    /\ UNCHANGED <<allocation, state, provisioned, job, worker, pending, reserving,
                   policy, faults>>

-----------------------------------------------------------------------------
(* tasks.py: the worker of a claimed job.                                  *)

Decide(j, verdict) ==
    /\ worker' = [worker EXCEPT ![j] = verdict]
    /\ UNCHANGED <<allocation, state, provisioned, job, tasks, pending, reserving,
                   policy, faults>>

CheckProvision(j) ==
    /\ worker[j] = "claimed" /\ job[j].action = "Provision"
    /\ Decide(j, IF "execute" \in Gates THEN "working" ELSE "blocked")

\* Mistake: the settings gates are not consulted.
CheckRetireUngated(j) ==
    /\ Enabled /\ worker[j] = "claimed" /\ job[j].action = "Retire"
    /\ Decide(j, IF "retirement" \notin policy THEN "blocked"
                 ELSE IF allocation = "Active" THEN "failed" ELSE "working")

\* The order of the refusals is that of _run_retirement_job.
CheckRetire(j) ==
    /\ Enabled /\ worker[j] = "claimed" /\ job[j].action = "Retire"
    /\ Decide(j, IF "retirement" \notin policy THEN "blocked"
                 ELSE IF allocation = "Active" THEN "failed"
                 ELSE IF Gates = AllGates THEN "working" ELSE "blocked")

GuestFeature(a) == a = "Reconcile" \/ "patch" \in policy

CheckGuest(j) ==
    /\ Enabled /\ worker[j] = "claimed" /\ job[j].action \in GuestWork
    /\ Decide(j, IF allocation # "Active" \/ state # "Active" THEN "blocked"
                 ELSE IF ~GuestManaged \/ ~GuestFeature(job[j].action) THEN "disabled"
                 ELSE IF "execute" \in Gates THEN "working" ELSE "blocked")

\* _finish: no test of the job's status, no lock on the Allocation row.
Finish(j, status, newState) ==
    /\ Enabled
    /\ job' = [job EXCEPT ![j].status = status]
    /\ state' = newState
    /\ provisioned' = (provisioned \/ newState = "Active")
    /\ worker' = [worker EXCEPT ![j] = "idle"]
    /\ UNCHANGED <<allocation, tasks, reserving, policy, faults>>

\* The VM is active and safe_queue_access_reconciliation follows.
ProvisionSucceeds(j) ==
    /\ worker[j] = "working" /\ job[j].action = "Provision"
    /\ Finish(j, "Succeeded", "Active")
    /\ pending' = Raise("reconcile")

ProvisionEndsBadly(j) ==
    /\ job[j].action = "Provision"
    /\ \/ worker[j] = "blocked" /\ Finish(j, "Blocked", "Blocked")
       \/ worker[j] = "working" /\ Finish(j, "Failed", "Failed")
    /\ UNCHANGED pending

\* Mistake: job.attempts > MaxAttempts.
RetryProvisionOnceMore(j) ==
    /\ Enabled
    /\ worker[j] = "working" /\ job[j].action = "Provision"
    /\ job[j].attempts <= MaxAttempts
    /\ job' = [job EXCEPT ![j].status = "Queued"]
    /\ state' = "Queued"
    /\ worker' = [worker EXCEPT ![j] = "idle"]
    /\ UNCHANGED <<allocation, provisioned, tasks, pending, reserving, policy, faults>>

\* _schedule_transient_retry after an error it classifies as an outage.
RetryProvision(j) ==
    /\ Enabled
    /\ worker[j] = "working" /\ job[j].action = "Provision"
    /\ job[j].attempts < MaxAttempts
    /\ job' = [job EXCEPT ![j].status = "Queued"]
    /\ state' = "Queued"
    /\ worker' = [worker EXCEPT ![j] = "idle"]
    /\ UNCHANGED <<allocation, provisioned, tasks, pending, reserving, policy, faults>>

RetireFinishes(j) ==
    /\ job[j].action = "Retire"
    /\ \/ worker[j] = "blocked" /\ Finish(j, "Blocked", "Retirement Review")
       \/ worker[j] = "failed"  /\ Finish(j, "Failed", "Retirement Review")
       \/ worker[j] = "working" /\ Finish(j, "Failed", "Retirement Review")
       \/ worker[j] = "working" /\ Finish(j, "Succeeded", "Retired")
    /\ UNCHANGED pending

\* The VM state _finish_guest_job leaves behind.
StateAfterGuestJob ==
    IF state \in {"Retiring", "Retired"} THEN state
    ELSE IF allocation = "Active" THEN "Active" ELSE "Retirement Review"

\* Mistake: no follow-up of an allocation that ended meanwhile.
PendingWithoutFollowUp(j) ==
    [pending EXCEPT !["reconcile"] = IF @ < MaxPending THEN @ + 1 ELSE @]

\* Callbacks after a guest job: safe_queue_retirement when the allocation ended
\* meanwhile, and a second look at the guest after a success, a disabled
\* feature, and every patch.
PendingAfterGuestJob(j) ==
    LET again == worker[j] = "disabled" \/ job[j].action = "Patch"
                   \/ job'[j].status = "Succeeded"
        one(k) == IF pending[k] < MaxPending THEN pending[k] + 1 ELSE pending[k]
    IN  [pending EXCEPT
           !["review"]    = IF allocation # "Active" THEN one("review") ELSE @,
           !["reconcile"] = IF again THEN one("reconcile") ELSE @]

\* _finish_guest_job, which locks the Allocation row too.
GuestJobFinishes(j) ==
    /\ Enabled /\ ~reserving /\ job[j].action \in GuestWork
    /\ \/ worker[j] \in {"blocked", "disabled"}
          /\ job' = [job EXCEPT ![j].status = "Blocked"]
       \/ worker[j] = "working"
          /\ \E s \in {"Succeeded", "Failed"} : job' = [job EXCEPT ![j].status = s]
    /\ state' = StateAfterGuestJob
    /\ pending' = PendingAfterGuestJob(j)
    /\ worker' = [worker EXCEPT ![j] = "idle"]
    /\ UNCHANGED <<allocation, provisioned, tasks, reserving, policy, faults>>

\* The worker is killed, or raises out of run_job: with the plugin disabled the
\* next save of the VM does, and leaves the job Running.
WorkerDies(j) ==
    /\ worker[j] # "idle"
    /\ worker' = [worker EXCEPT ![j] = "idle"]
    /\ \/ ~Enabled /\ UNCHANGED faults
       \/ Enabled /\ faults < MaxFaults /\ faults' = faults + 1
    /\ UNCHANGED <<allocation, state, provisioned, job, tasks, pending, reserving, policy>>

-----------------------------------------------------------------------------
Environment == Activate \/ EndAllocation \/ ChangeMembership \/ EditPolicy

Services ==
    \/ \E k \in Kinds : LoseCallback(k)
    \/ \E j \in Job : \/ ReserveAndQueue(j)
                      \/ QueueProvisioning(j)
                      \/ QueueRetirement(j)
                      \/ QueueReconcile(j)
                      \/ QueuePatch(j)
    \/ NothingToProvision \/ ReadExisting \/ ReturnOpenJob \/ AbortReserve
    \/ RequireRetirementReview \/ NothingToRetire \/ ReturnOpenInsteadOfRetire
    \/ NothingToReconcile \/ ReturnOpenReconcile \/ ReturnOpenPatch

Workers ==
    \E j \in Job :
        \/ Claim(j) \/ IgnoreTask(j) \/ ReclaimStale(j) \/ Redispatch(j)
        \/ CheckProvision(j) \/ CheckRetire(j) \/ CheckGuest(j)
        \/ ProvisionSucceeds(j) \/ ProvisionEndsBadly(j) \/ RetryProvision(j)
        \/ RetireFinishes(j) \/ GuestJobFinishes(j) \/ WorkerDies(j)

Next == Environment \/ Services \/ Workers

Spec == Init /\ [][Next]_vars
-----------------------------------------------------------------------------
(* Fairness: the broker delivers what it holds, a live worker takes its next
   step, callbacks run, and the scheduler ticks.  A step that waits for the
   Allocation row gets it eventually although others take it in between, as row
   locks are granted in order of arrival: strong fairness.  ColdFront, the
   administrator, operators and faults are not fair.                       *)
RunCallback(k) ==
    \/ k = "provision" /\ (NothingToProvision \/ ReadExisting
                             \/ \E j \in Job : ReserveAndQueue(j))
    \/ k = "review" /\ RequireRetirementReview
    \/ k = "retire" /\ (NothingToRetire \/ ReturnOpenInsteadOfRetire
                          \/ \E j \in Job : QueueRetirement(j))
    \/ k = "reconcile" /\ NothingToReconcile

WorkerSteps(j) ==
    \/ CheckProvision(j) \/ CheckRetire(j) \/ CheckGuest(j) \/ ProvisionSucceeds(j)
    \/ ProvisionEndsBadly(j) \/ RetryProvision(j) \/ RetireFinishes(j)
    \/ GuestJobFinishes(j)

Fairness ==
    /\ WF_vars(ReturnOpenJob \/ \E j \in Job : QueueProvisioning(j))
    /\ \A k \in Kinds : SF_vars(RunCallback(k))
    /\ \A j \in Job : /\ SF_vars(Claim(j))
                      /\ WF_vars(IgnoreTask(j))
                      /\ WF_vars(ReclaimStale(j))
                      /\ WF_vars(Redispatch(j))
                      /\ SF_vars(WorkerSteps(j))

FairSpec == Spec /\ Fairness

-----------------------------------------------------------------------------
(* Invariants.                                                             *)

\* Every variable has its type; that a job is never claimed more often than
\* MaxAttempts is part of it (_claim_job itself does not test the counter).
TypeOK ==
    /\ allocation \in {"New", "Active", "Ended"}
    /\ state \in VMState
    /\ provisioned \in BOOLEAN
    /\ job \in [Job -> JobRow]
    /\ worker \in [Job -> WorkerPhase]
    /\ tasks \subseteq Job
    /\ pending \in [Kinds -> 0..MaxPending]
    /\ reserving \in BOOLEAN
    /\ policy \in Policies
    /\ faults \in 0..MaxFaults

\* A VM never has two open jobs, whatever callbacks, commands, schedules,
\* retries and stale-claim recoveries race: the open_job queries of services.py,
\* though each service looks only for the kinds of job it fears.
SingleOpenJob == \A i, j \in Job : Open(i) /\ Open(j) => i = j

\* A worker only ever acts on a job that is Running: nothing closes, requeues or
\* reclaims a job under its live worker, so no job has two workers.
WorkerHoldsItsJob == \A j \in Job : worker[j] # "idle" => job[j].status = "Running"

\* A Queued job always has an attempt left, else dispatch_queued_jobs would never
\* pick it up and it would stay open for ever.
QueuedIsClaimable ==
    \A j \in Job : job[j].status = "Queued" => job[j].attempts < MaxAttempts

\* The VM state tells which job owns the VM: Queued and Provisioning never
\* outlive the Provision job, nor Retiring the Retire job, through crashes,
\* retries and reclaimed claims (progress views and create_access_
\* reconciliation_job rely on it).
OwnedStates ==
    /\ state \in {"Queued", "Provisioning"} => OpenOf({"Provision"}) # {}
    /\ state = "Retiring" => OpenOf({"Retire"}) # {}

\* The states a VM may be in while a job of each kind is open: what makes the
\* partial open-job tests of the services sufficient.
JobFitsState ==
    \A j \in Job : Open(j) =>
        /\ job[j].action = "Provision" =>
             state \in {"Queued", "Provisioning", "Retirement Review"}
        /\ job[j].action = "Retire" => state \in {"Retirement Review", "Retiring"}
        /\ job[j].action \in GuestWork =>
             state \in {"Active", "Blocked", "Failed", "Retirement Review"}

\* The three controls of README: no VM is ever retired unless both
\* settings gates are True and retirement was enabled before the VM existed,
\* whatever the administrator edits while jobs are open.
KillSwitchHolds ==
    state \in {"Retiring", "Retired"}
        => "retirement" \in policy /\ (state = "Retired" => Gates = AllGates)

-----------------------------------------------------------------------------
(* Refinement: the open job of the VM is the content of a JobSlot.         *)

theSlot ==
    IF OpenJobs = {} THEN [status |-> "Empty"]
    ELSE job[CHOOSE j \in Job : Open(j)]

Slot == INSTANCE JobSlot WITH slot <- theSlot

\* The job table of one VM behaves as a single slot: at most one job, entered
\* Queued, claimed at most MaxAttempts times, left only from Running.
ImplementsSlot == Slot!Spec

\* The action of the open job.
openAction == IF OpenJobs = {} THEN "none" ELSE theSlot.action

Life == INSTANCE VMLifecycle WITH job <- openAction

\* Whoever does a job's external work sees its VM, the allocation and the open job
\* change only as module VMLifecycle says: no job starts or ends in a state its
\* kind does not expect, and nothing but the race of create_provisioning_job
\* takes a VM out of Retired.
ImplementsLifecycle == Life!Spec

\* reserve_identity: "A retired VM allocation cannot be reactivated".  Once Retired,
\* a VM keeps its state and gets no job, whatever callbacks, commands, tasks and
\* reclaims are still under way, unless a create_provisioning_job read it before.
RetiredIsFinal == Life!RetiredIsFinal

-----------------------------------------------------------------------------
(* What the documentation says and the code does not keep; see README.     *)

\* README "Worker lifecycle": only a VM whose provisioning finished is Active.
ActiveMeansProvisioned == state = "Active" => provisioned

\* ARCHITECTURE: an ended allocation takes its VM to Retirement Review.  Once
\* nothing is left to run and nothing failed, an ended allocation has no VM in
\* another state.
EndedIsUnderReview ==
    (allocation = "Ended" /\ OpenJobs = {} /\ ~reserving /\ faults = 0
       /\ \A k \in Kinds : pending[k] = 0)
      => state \in {"None", "Retirement Review", "Retired"}

\* ARCHITECTURE: exhausted jobs fail, so every open job is closed in the end.
JobsClose == \A j \in Job : Open(j) ~> ~Open(j)

-----------------------------------------------------------------------------
(* Liveness.                                                               *)

\* The one way a job stays open: its last attempt's worker died.
Wedged(j) ==
    /\ job[j].status = "Running" /\ job[j].attempts = MaxAttempts
    /\ worker[j] = "idle"

\* Every job is closed, through lost tasks, dead workers and outages, unless the
\* worker of its last attempt dies.
JobsCloseOrWedge == \A j \in Job : Open(j) ~> (~Open(j) \/ Wedged(j))

\* An allocation that ends while a guest job is open has its retirement queued
\* after that job although create_retirement_job found the VM busy: the
\* follow-up of _finish_guest_job.  Faults that come after that moment may lose
\* the callback, and a wedged job is never finished.
GuestJobYieldsToRetirement ==
    (allocation = "Ended" /\ OpenOf(GuestWork) # {} /\ faults = MaxFaults)
      ~> (\/ allocation = "Active"
          \/ OpenOf({"Retire"}) # {}
          \/ \E j \in Job : Wedged(j))
=============================================================================
