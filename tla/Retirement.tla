----------------------------- MODULE Retirement -----------------------------
(***************************************************************************)
(* _run_retirement_job against the systems it destroys things in: Proxmox  *)
(* VE, its backup storage (PBS) and NetBox, with the worker dying between  *)
(* any two steps and starting again from what it recorded, external calls  *)
(* failing, and ColdFront reactivating the allocation at any moment; and   *)
(* cleanup_expired_retirement_backups, which ends the recovery window.     *)
(*                                                                         *)
(* One VM, whose allocation, state and open job change only as module      *)
(* VMLifecycle says: the steps of everything but the retirement worker are *)
(* the lifecycle's, with what they do to the guest added where they do     *)
(* something.  Every step is one database transaction or one external call *)
(* of the worker.  A service period is the time between an activation of   *)
(* the allocation and the next: what users stored in a period is lost      *)
(* unless a backup taken in it survives.  Both settings gates are on.      *)
(***************************************************************************)
EXTENDS Naturals, FiniteSets

CONSTANTS
    NetBoxEnabled,      \* configuration.netbox_enabled, frozen with the first VM
    Cleaner,            \* concurrent runs of the cleanup schedule
    MaxBackups,         \* bound: vzdump tasks ever started
    MaxBackupFailures,  \* bound: vzdump tasks that fail
    MaxErrors,          \* bound: other external calls that fail
    MaxCrashes,         \* bound: workers and cleaners that die
    MaxReactivations    \* bound: activations after the first

ASSUME RetirementAssumption ==
    /\ NetBoxEnabled \in BOOLEAN
    /\ MaxBackups \in Nat \ {0} /\ MaxBackupFailures \in Nat
    /\ MaxErrors \in Nat /\ MaxCrashes \in Nat /\ MaxReactivations \in Nat

VARIABLES
    allocation,  \* "Active" or "Ended"
    period,      \* the current service period
    state,       \* VirtualMachine.state
    job,         \* the action of the open job, or "none"
    reserving,   \* create_provisioning_job has read the VM, not yet its jobs
    pc,          \* the step the retirement worker is at
    found,       \* the backup or task the worker has in hand, 0 for none
    db,          \* the retirement columns of the VirtualMachine row
    events,      \* the intents among the VM's ProvisioningEvents
    pve,         \* period of the data on the PVE guest, or Absent
    task,        \* vzdump tasks: "none", "running", "ok", "failed"
    backups,     \* exact retirement backups in PBS: [id, period]
    snapshot,    \* period of the data a vzdump task copies
    netbox,      \* the three mirrored records: "exact", "partial", "absent"
    cleaner,     \* the step each cleanup run is at
    spent        \* faults spent, against the bounds

vars == <<allocation, period, state, job, reserving, pc, found, db, events, pve, task,
          backups, snapshot, netbox, cleaner, spent>>
external == <<pve, task, backups, snapshot, netbox>>
admin    == <<allocation, period, reserving>>

Life == INSTANCE VMLifecycle

Absent  == 0
Backup  == 1..MaxBackups
Intents == {"Retirement Backup Intent", "Proxmox Retirement Intent",
            "NetBox Retirement Intent", "Retirement Backup Cleanup Intent"}
States  == Life!States \ {"None", "Blocked"}
Steps   == {"idle", "check", "validate", "find", "start", "recordUpid", "wait",
            "refind", "recordBackup", "verify", "delete", "recordPve", "netbox",
            "deleteNetbox", "recordNetbox", "finish"}
CleanerSteps == {"idle", "verify", "intend", "delete", "deleteAgain", "record"}

BackupIds == {b.id : b \in backups}

\* Mistake: backups counted from one too many.
NewestBackupMiscounted == IF backups = {} THEN 0 ELSE Cardinality(backups) + 1

\* find_exact_retirement_backup: the newest by ctime, 0 if there is none.
NewestBackup ==
    IF backups = {} THEN 0
    ELSE CHOOSE i \in BackupIds : \A k \in BackupIds : k <= i

Spend(what) == spent' = [spent EXCEPT ![what] = @ + 1]

\* A provisioned VM; or one whose provisioning failed with or without a guest,
\* which has no target_node.  Its NetBox records, created first, are complete.
Init ==
    /\ allocation = "Active" /\ period = 1
    /\ state \in {"Active", "Failed"}
    /\ job = "none" /\ reserving = FALSE /\ pc = "idle" /\ found = 0
    /\ db = [upid |-> 0, volume |-> 0, pveDeleted |-> FALSE, netboxDeleted |-> FALSE,
             backupDeleted |-> FALSE, node |-> state = "Active"]
    /\ events = {}
    /\ pve \in {Absent, 1} /\ (state = "Active" => pve = 1)
    /\ task = [i \in Backup |-> "none"]
    /\ backups = {}
    /\ snapshot = [i \in Backup |-> 0]
    /\ netbox = "exact"
    /\ cleaner = [c \in Cleaner |-> "idle"]
    /\ spent = [crashes |-> 0, errors |-> 0, failures |-> 0]

-----------------------------------------------------------------------------
(* ColdFront and the other jobs.                                           *)

\* A step of the lifecycle that touches nothing the retirement works on.
OnlyLife == UNCHANGED <<period, pc, found, db, events, external, cleaner, spent>>

\* create_provisioning_job, which may queue a VM that was Retired since it read it;
\* the claim of a Provision job; the creation of guest jobs; the review callback of
\* an allocation that ended, however late.
Elsewhere ==
    /\ \/ Life!End \/ Life!Review
       \/ Life!Read \/ Life!Return \/ Life!QueueProvisioning
       \/ Life!ClaimProvision
       \/ \E a \in Life!Guest : Life!QueueGuestJob(a)
    /\ OnlyLife

GuestJobEnds == Life!EndGuestJob /\ OnlyLife

\* Users get the VM back, if there is one, and store data of a new period on it.
Reactivate ==
    /\ period <= MaxReactivations
    /\ Life!Activate
    /\ period' = period + 1
    /\ pve' = IF pve = Absent THEN pve ELSE period + 1
    /\ UNCHANGED <<pc, found, db, events, task, backups, snapshot, netbox, cleaner, spent>>

\* create_retirement_job with no job open; from the callback or from retire_pve_vm,
\* so a failed retirement may be run again.
QueueRetirement == Life!QueueRetirement /\ OnlyLife

\* The Provision job: ensure_vm clones an absent guest ...
Clone ==
    /\ job = "Provision" /\ pve = Absent
    /\ NetBoxEnabled => netbox = "exact"
    /\ pve' = period
    /\ UNCHANGED <<admin, state, job, pc, found, db, events, task, backups, snapshot,
                   netbox, cleaner, spent>>

\* ... and _finish records the outcome and, now first known, the target_node.  The
\* retirement columns are left alone.
ProvisionSucceeds ==
    /\ job = "Provision" /\ pve # Absent
    /\ NetBoxEnabled => netbox = "exact"
    /\ Life!EndProvision("Active")
    /\ db' = [db EXCEPT !.node = TRUE]
    /\ UNCHANGED <<period, pc, found, events, external, cleaner, spent>>

\* Replaced NetBox records that _record_netbox_identity refuses, or an external
\* error: the job fails or, after an outage, is queued again.
ProvisionFails ==
    /\ \/ Life!EndProvision("Failed") /\ NetBoxEnabled /\ netbox # "exact"
          /\ UNCHANGED spent
       \/ (Life!EndProvision("Failed") \/ Life!Requeue)
          /\ spent.errors < MaxErrors /\ Spend("errors")
    /\ UNCHANGED <<period, pc, found, db, events, external, cleaner>>

-----------------------------------------------------------------------------
(* The retirement worker.                                                  *)

At(step)   == job = "Retire" /\ pc = step
Goto(step) == pc' = step

\* _claim_job, the first time or after the stale claim of a dead worker.
Claim ==
    /\ At("idle")
    /\ Life!ClaimRetire
    /\ Goto("check") /\ found' = 0
    /\ UNCHANGED <<period, db, events, external, cleaner, spent>>

\* _finish of the retirement job.
FinishAs(newState) ==
    /\ Life!EndRetire(newState)
    /\ Goto("idle") /\ found' = 0
    /\ UNCHANGED <<period, db, events, external, cleaner>>

\* The only look at the allocation's status.
CheckAllocation ==
    /\ At("check")
    /\ \/ allocation = "Active" /\ FinishAs("Retirement Review") /\ UNCHANGED spent
       \/ /\ allocation # "Active"
          /\ Goto(IF db.pveDeleted THEN "netbox" ELSE "validate")
          /\ UNCHANGED <<admin, state, job, found, db, events, external, cleaner, spent>>

\* A step of the worker that changes nothing but its own row and position.
Local == UNCHANGED <<admin, state, job, external, cleaner, spent>>

\* validate_exact_managed_records before the first destructive action.
Validate ==
    /\ At("validate")
    /\ NetBoxEnabled => netbox = "exact"
    /\ Goto(IF db.volume = 0 THEN "find" ELSE "verify")
    /\ Local /\ UNCHANGED <<found, db, events>>

\* Mistake: an intent on record counts as a backup taken.
FindTrustingIntent ==
    /\ At("find")
    /\ "Retirement Backup Intent" \in events \/ pve # Absent
    /\ events' = events \cup {"Retirement Backup Intent"}
    /\ Goto(IF "Retirement Backup Intent" \in events THEN "delete"
            ELSE IF db.upid = 0 THEN "start" ELSE "wait")
    /\ Local /\ UNCHANGED <<db, found>>

\* Mistake: a task on record is not waited for, another one is started.
FindRestarting ==
    /\ At("find") /\ db.node
    /\ \/ /\ NewestBackup # 0
          /\ found' = NewestBackup
          /\ Goto("recordBackup")
          /\ UNCHANGED events
       \/ /\ NewestBackup = 0
          /\ "Retirement Backup Intent" \in events \/ pve # Absent
          /\ events' = events \cup {"Retirement Backup Intent"}
          /\ Goto("start")
          /\ UNCHANGED found
    /\ Local /\ UNCHANGED db

\* A backup left by an earlier run is adopted; else the intent is recorded once
\* (require_exact_vm first) and a recorded task is waited for, not restarted.  The
\* backups are those PVE lists on target_node.
Find ==
    /\ At("find") /\ db.node
    /\ \/ /\ NewestBackup # 0
          /\ found' = NewestBackup
          /\ Goto("recordBackup")
          /\ UNCHANGED events
       \/ /\ NewestBackup = 0
          /\ "Retirement Backup Intent" \in events \/ pve # Absent
          /\ events' = events \cup {"Retirement Backup Intent"}
          /\ Goto(IF db.upid = 0 THEN "start" ELSE "wait")
          /\ UNCHANGED found
    /\ Local /\ UNCHANGED db

\* PVE accepts a vzdump request; the tasks are numbered as they are started.
Starts(i) ==
    /\ task[i] = "none" /\ \A k \in Backup : k < i => task[k] # "none"
    /\ task' = [task EXCEPT ![i] = "running"]
    /\ snapshot' = [snapshot EXCEPT ![i] = pve]

\* start_retirement_backup, which returns the upid of the task.
StartBackup ==
    /\ At("start") /\ pve # Absent
    /\ \E i \in Backup : Starts(i) /\ found' = i
    /\ Goto("recordUpid")
    /\ UNCHANGED <<admin, state, job, db, events, pve, backups, netbox, cleaner, spent>>

RecordUpid ==
    /\ At("recordUpid") /\ db.upid \in {0, found}
    /\ db' = [db EXCEPT !.upid = found]
    /\ Goto("wait") /\ found' = 0
    /\ Local /\ UNCHANGED events

WaitForBackup ==
    /\ At("wait") /\ task[db.upid] = "ok"
    /\ Goto("refind")
    /\ Local /\ UNCHANGED <<found, db, events>>

FindAgain ==
    /\ At("refind") /\ NewestBackup # 0
    /\ found' = NewestBackup
    /\ Goto("recordBackup")
    /\ Local /\ UNCHANGED <<db, events>>

RecordBackup ==
    /\ At("recordBackup") /\ db.volume \in {0, found}
    /\ db' = [db EXCEPT !.volume = found]
    /\ Goto("verify") /\ found' = 0
    /\ Local /\ UNCHANGED events


\* require_exact_retirement_backup, then the intent (require_exact_vm unless it
\* is already recorded).
VerifyAndIntend ==
    /\ At("verify")
    /\ db.volume \in BackupIds
    /\ "Proxmox Retirement Intent" \in events \/ pve # Absent
    /\ events' = events \cup {"Proxmox Retirement Intent"}
    /\ Goto("delete")
    /\ Local /\ UNCHANGED <<found, db>>

\* delete_exact_vm(allow_absent=True): shut down, unprotect, purge.
DeleteGuest ==
    /\ At("delete")
    /\ pve' = Absent
    /\ Goto("recordPve")
    /\ UNCHANGED <<admin, state, job, found, db, events, task, backups, snapshot, netbox,
                   cleaner, spent>>

RecordPve ==
    /\ At("recordPve")
    /\ db' = [db EXCEPT !.pveDeleted = TRUE]
    /\ Goto("netbox")
    /\ Local /\ UNCHANGED <<found, events>>

\* Mistake: an intent on record counts as a deletion done.
IntendNetBoxOnce ==
    /\ At("netbox")
    /\ IF NetBoxEnabled /\ "NetBox Retirement Intent" \notin events
       THEN /\ netbox = "exact"
            /\ events' = events \cup {"NetBox Retirement Intent"}
            /\ Goto("deleteNetbox")
       ELSE Goto("finish") /\ UNCHANGED events
    /\ Local /\ UNCHANGED <<found, db>>

IntendNetBox ==
    /\ At("netbox")
    /\ \/ /\ NetBoxEnabled /\ ~db.netboxDeleted
          /\ "NetBox Retirement Intent" \in events \/ netbox = "exact"
          /\ events' = events \cup {"NetBox Retirement Intent"}
          /\ Goto("deleteNetbox")
       \/ /\ ~NetBoxEnabled \/ db.netboxDeleted
          /\ Goto("finish")
          /\ UNCHANGED events
    /\ Local /\ UNCHANGED <<found, db>>

\* delete_exact_managed_records removes three records one by one; the worker may
\* die or fail with some of them left.
DeleteNetBox ==
    /\ At("deleteNetbox")
    /\ \/ netbox = "exact" /\ netbox' = "partial" /\ UNCHANGED pc
       \/ netbox' = "absent" /\ Goto("recordNetbox")
    /\ UNCHANGED <<admin, state, job, found, db, events, pve, task, backups, snapshot,
                   cleaner, spent>>

RecordNetBox ==
    /\ At("recordNetbox")
    /\ db' = [db EXCEPT !.netboxDeleted = TRUE]
    /\ Goto("finish")
    /\ Local /\ UNCHANGED <<found, events>>

Succeed == At("finish") /\ FinishAs("Retired") /\ UNCHANGED spent

\* A guard of the step does not hold: the call raises and the job fails.
Refused ==
    \/ At("validate") /\ NetBoxEnabled /\ netbox # "exact"
    \/ At("find") /\ ~db.node
    \/ At("find") /\ NewestBackup = 0 /\ pve = Absent
                  /\ "Retirement Backup Intent" \notin events
    \/ At("start") /\ pve = Absent
    \/ At("wait") /\ task[db.upid] = "failed"
    \/ At("refind") /\ NewestBackup = 0
    \/ At("recordUpid") /\ db.upid \notin {0, found}
    \/ At("recordBackup") /\ db.volume \notin {0, found}
    \/ At("verify") /\ db.volume \notin BackupIds
    \/ At("verify") /\ pve = Absent /\ "Proxmox Retirement Intent" \notin events
    \/ At("netbox") /\ NetBoxEnabled /\ ~db.netboxDeleted /\ netbox # "exact"
                    /\ "NetBox Retirement Intent" \notin events

\* A step that calls PVE or NetBox, any of which may be out of reach.
Calling == \E s \in {"validate", "find", "start", "wait", "refind", "verify", "delete",
                     "netbox", "deleteNetbox"} : At(s)

Fail ==
    /\ FinishAs("Retirement Review")
    /\ \/ Refused /\ UNCHANGED spent
       \/ Calling /\ spent.errors < MaxErrors /\ Spend("errors")

\* PVE does what it was asked to do, but its answer is lost, or wait_task gives up.
Unanswered ==
    /\ \/ /\ At("start") /\ pve # Absent
          /\ \E i \in Backup : Starts(i)
          /\ UNCHANGED pve
       \/ At("delete") /\ pve' = Absent /\ UNCHANGED <<task, snapshot>>
    /\ Life!EndRetire("Retirement Review")
    /\ Goto("idle") /\ found' = 0
    /\ spent.errors < MaxErrors /\ Spend("errors")
    /\ UNCHANGED <<period, db, events, backups, netbox, cleaner>>

\* The worker dies; its job stays Running and is claimed again later.
Crash ==
    /\ job = "Retire" /\ pc # "idle" /\ spent.crashes < MaxCrashes
    /\ Goto("idle") /\ found' = 0
    /\ Spend("crashes")
    /\ UNCHANGED <<admin, state, job, db, events, external, cleaner>>

\* PVE ends a vzdump task, watched or not.
BackupEnds(i) ==
    /\ task[i] = "running"
    /\ \/ /\ task' = [task EXCEPT ![i] = "ok"]
          /\ backups' = backups \cup {[id |-> i, period |-> snapshot[i]]}
          /\ UNCHANGED spent
       \/ /\ spent.failures < MaxBackupFailures
          /\ task' = [task EXCEPT ![i] = "failed"]
          /\ Spend("failures")
          /\ UNCHANGED backups
    /\ UNCHANGED <<admin, state, job, pc, found, db, events, pve, snapshot, netbox, cleaner>>

-----------------------------------------------------------------------------
(* cleanup_expired_retirement_backups, after the retention period.         *)

\* Mistake: the backup must be there although an earlier run may have deleted it.
CleanupReadsStrictly(c) ==
    /\ cleaner[c] = "idle"
    /\ state = "Retired" /\ ~reserving /\ db.volume # 0 /\ ~db.backupDeleted
    /\ cleaner' = [cleaner EXCEPT ![c] = "verify"]
    /\ UNCHANGED <<admin, state, job, pc, found, db, events, external, spent>>

\* The run reads the due VMs and notes whether an earlier run left its intent.  A
\* transaction that read the VM before it was Retired has ended when the retention,
\* of days, has passed.
CleanupReads(c) ==
    /\ cleaner[c] = "idle"
    /\ state = "Retired" /\ ~reserving /\ db.volume # 0 /\ ~db.backupDeleted
    /\ cleaner' = [cleaner EXCEPT
         ![c] = IF "Retirement Backup Cleanup Intent" \in events THEN "deleteAgain"
                ELSE "verify"]
    /\ UNCHANGED <<admin, state, job, pc, found, db, events, external, spent>>

\* require_exact_retirement_backup; if it raises the run ends.
CleanupVerifies(c) ==
    /\ cleaner[c] = "verify"
    /\ cleaner' = [cleaner EXCEPT ![c] = IF db.volume \in BackupIds THEN "intend" ELSE "idle"]
    /\ UNCHANGED <<admin, state, job, pc, found, db, events, external, spent>>

\* Mistake: the intent is not recorded.
CleanupIntendsSilently(c) ==
    /\ cleaner[c] = "intend"
    /\ cleaner' = [cleaner EXCEPT ![c] = "delete"]
    /\ UNCHANGED <<admin, state, job, pc, found, db, events, external, spent>>

CleanupIntends(c) ==
    /\ cleaner[c] = "intend"
    /\ cleaner' = [cleaner EXCEPT ![c] = "delete"]
    /\ events' = events \cup {"Retirement Backup Cleanup Intent"}
    /\ UNCHANGED <<admin, state, job, pc, found, db, external, spent>>

\* Mistake: an earlier run's intent counts as its deletion.
CleanupDeletesOnce(c) ==
    /\ cleaner[c] \in {"delete", "deleteAgain"}
    /\ cleaner' = [cleaner EXCEPT ![c] = "record"]
    /\ backups' = IF cleaner[c] = "deleteAgain" THEN backups
                  ELSE {b \in backups : b.id # db.volume}
    /\ UNCHANGED <<admin, state, job, pc, found, db, events, pve, task, snapshot, netbox,
                   spent>>

\* delete_exact_retirement_backup tolerates an absent backup only after an
\* earlier run's intent; otherwise it raises and the run ends.
CleanupDeletes(c) ==
    /\ cleaner[c] \in {"delete", "deleteAgain"}
    /\ LET present == db.volume \in BackupIds
       IN  cleaner' = [cleaner EXCEPT ![c] = IF present \/ cleaner[c] = "deleteAgain"
                                             THEN "record" ELSE "idle"]
    /\ backups' = {b \in backups : b.id # db.volume}
    /\ UNCHANGED <<admin, state, job, pc, found, db, events, pve, task, snapshot, netbox,
                   spent>>

\* _record_retirement_backup_deleted: the VMID may be reserved again.
CleanupRecords(c) ==
    /\ cleaner[c] = "record"
    /\ db' = [db EXCEPT !.backupDeleted = TRUE]
    /\ cleaner' = [cleaner EXCEPT ![c] = "idle"]
    /\ UNCHANGED <<admin, state, job, pc, found, events, external, spent>>

CleanupCrashes(c) ==
    /\ cleaner[c] # "idle" /\ spent.crashes < MaxCrashes
    /\ cleaner' = [cleaner EXCEPT ![c] = "idle"]
    /\ Spend("crashes")
    /\ UNCHANGED <<admin, state, job, pc, found, db, events, external>>

-----------------------------------------------------------------------------
CleanupWorks(c) ==
    CleanupVerifies(c) \/ CleanupIntends(c) \/ CleanupDeletes(c) \/ CleanupRecords(c)

WorkerStep ==
    \/ CheckAllocation \/ Validate \/ Find \/ StartBackup \/ RecordUpid
    \/ WaitForBackup \/ FindAgain \/ RecordBackup \/ VerifyAndIntend \/ DeleteGuest
    \/ RecordPve \/ IntendNetBox \/ DeleteNetBox \/ RecordNetBox \/ Succeed \/ Fail
    \/ Unanswered

OtherJobs ==
    Elsewhere \/ GuestJobEnds \/ Reactivate \/ Clone \/ ProvisionSucceeds \/ ProvisionFails

Next ==
    \/ OtherJobs
    \/ QueueRetirement \/ Claim \/ WorkerStep \/ Crash
    \/ \E i \in Backup : BackupEnds(i)
    \/ \E c \in Cleaner : CleanupReads(c) \/ CleanupWorks(c) \/ CleanupCrashes(c)

Spec == Init /\ [][Next]_vars

\* Live workers proceed, those of other jobs too, dead ones' jobs are reclaimed,
\* vzdump tasks end, the cleanup schedule runs, and operators run a failed
\* retirement again (retire_pve_vm).
FairSpec ==
    /\ Spec
    /\ WF_vars(QueueRetirement) /\ WF_vars(Claim) /\ WF_vars(WorkerStep)
    /\ WF_vars(Clone \/ ProvisionSucceeds \/ ProvisionFails) /\ WF_vars(GuestJobEnds)
    /\ \A i \in Backup : WF_vars(BackupEnds(i))
    /\ \A c \in Cleaner : WF_vars(CleanupReads(c)) /\ WF_vars(CleanupWorks(c))

-----------------------------------------------------------------------------
Period  == 1..(MaxReactivations + 1)
Columns == [upid : 0..MaxBackups, volume : 0..MaxBackups, pveDeleted : BOOLEAN,
            netboxDeleted : BOOLEAN, backupDeleted : BOOLEAN, node : BOOLEAN]
Faults  == [crashes : 0..MaxCrashes, errors : 0..MaxErrors, failures : 0..MaxBackupFailures]
TaskStatus == {"none", "running", "ok", "failed"}

TypeOK ==
    /\ allocation \in {"Active", "Ended"}
    /\ period \in Period
    /\ state \in States
    /\ job \in Life!Guest \cup {"none", "Retire", "Provision"}
    /\ reserving \in BOOLEAN
    /\ pc \in Steps
    /\ found \in 0..MaxBackups
    /\ db \in Columns
    /\ events \subseteq Intents
    /\ pve \in {Absent} \cup Period
    /\ task \in [Backup -> TaskStatus]
    /\ backups \subseteq [id : Backup, period : Period]
    /\ snapshot \in [Backup -> {0} \cup Period]
    /\ netbox \in {"exact", "partial", "absent"}
    /\ cleaner \in [Cleaner -> CleanerSteps]
    /\ spent \in Faults

Deleting == pve # Absent /\ pve' = Absent

\* The guest is destroyed only with both intents on record and its recorded
\* backup in PBS, whichever steps were done by workers that died.
DeleteOnlyWithBackup ==
    [][Deleting => /\ db.volume \in BackupIds
                   /\ "Proxmox Retirement Intent" \in events]_vars

\* Once the guest was destroyed, the recorded backup stays in PBS until the
\* cleanup records its intent: runs of the cleanup, dying and overlapping, never
\* delete it earlier.
RecoverableUntilCleanup ==
    db.pveDeleted /\ "Retirement Backup Cleanup Intent" \notin events
        => db.volume \in BackupIds

\* The identity is released (retirement_backup_deleted_at) only for a retired VM
\* whose recorded backup is gone, not merely about to go.
ReleasedOnlyWithoutBackup ==
    db.backupDeleted => state = "Retired" /\ db.volume # 0 /\ db.volume \notin BackupIds

\* ARCHITECTURE, retirement: a Retired VM has no guest left and no mirrored
\* records.
RetiredIsGone ==
    state = "Retired" => pve = Absent /\ (NetBoxEnabled => netbox = "absent")

\* README: a retirement creates and verifies a snapshot before it deletes.  What
\* is deleted is in the recorded backup: that backup was taken in the service
\* period the guest's data belongs to.
DeletedIsInBackup ==
    [][Deleting => \E b \in backups : b.id = db.volume /\ b.period = pve]_vars

\* RetiredIsGone holds of an allocation that was never reactivated: a retirement
\* that is taken up again after a crash skips nothing that was not done.
RetiredOnceIsGone == period = 1 => RetiredIsGone

\* ARCHITECTURE: each phase is resumable.  No retry, no rerun of a failed job and no
\* later retirement of the VM starts a second vzdump task: one more costs a worker
\* that died, or whose answer was lost, before the upid was recorded.
TasksAreFew ==
    \A i \in Backup : task[i] # "none" => i <= 1 + spent.crashes + spent.errors


\* A retired VM's identity is released in the end although cleanups die between
\* intent, deletion and record, unless the VM is about to be queued again.
RetiredIsReleased == state = "Retired" /\ ~reserving ~> db.backupDeleted
=============================================================================
