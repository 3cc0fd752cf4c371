-------------------------- MODULE Retirement_proofs --------------------------
(***************************************************************************)
(* Theorems about Retirement for every number of cleaners, backups, faults *)
(* and reactivations: a guest is deleted only with its backup, the backup  *)
(* stays until a cleanup means to delete it, an identity is released only  *)
(* after that, a retirement of the first service period skips nothing, and *)
(* no run of a job starts a vzdump task that an earlier run has on record. *)
(*                                                                         *)
(* One lemma per conjunct of the inductive invariant shows that every step *)
(* preserves it.                                                           *)
(***************************************************************************)
EXTENDS Retirement, WellFoundedInduction, TLAPS

-----------------------------------------------------------------------------
(* The inductive invariant.                                                *)

\* The steps belong to a retirement; a step that follows a deletion finds it done
\* or recorded.
PhaseInv ==
    /\ job # "Retire" => pc = "idle"
    /\ pc \in {"netbox", "deleteNetbox", "recordNetbox", "finish"} => db.pveDeleted
    /\ pc = "recordNetbox" => netbox = "absent"
    /\ pc = "finish" /\ NetBoxEnabled => db.netboxDeleted
    /\ db.netboxDeleted => netbox = "absent"

\* Recorded backups were made by tasks that ended, so none appears anew.
TaskInv ==
    /\ \A b \in backups : task[b.id] = "ok"
    /\ db.volume # 0 => task[db.volume] = "ok"
    /\ pc = "recordBackup" => found # 0 /\ task[found] = "ok"
    /\ \A i \in Backup : task[i] = "running" => snapshot[i] # 0

\* A reservation holds the allocation.  Retired VMs have no job; cleanups run for
\* those that no reservation has read, which no job touches any more.
CleanInv ==
    /\ reserving => allocation = "Active"
    /\ state = "Retired" => /\ job = "none" /\ db.pveDeleted
                            /\ NetBoxEnabled => db.netboxDeleted
    /\ \A c \in Cleaner : cleaner[c] # "idle" =>
         /\ state = "Retired" /\ ~reserving /\ db.volume # 0
         /\ \/ cleaner[c] \in {"verify", "intend"}
            \/ "Retirement Backup Cleanup Intent" \in events
    /\ \A c \in Cleaner : cleaner[c] = "record" => db.volume \notin BackupIds
    /\ db.backupDeleted => ~reserving
    /\ ReleasedOnlyWithoutBackup

\* The recorded backup is there from its verification on.
BackupInv ==
    /\ pc \in {"delete", "recordPve"} => db.volume \in BackupIds
    /\ pc = "delete" => "Proxmox Retirement Intent" \in events
    /\ RecoverableUntilCleanup

\* In the first service period a deleted guest stays deleted.
OnceInv ==
    period = 1 =>
        /\ job = "Retire" => allocation = "Ended"
        /\ pc = "recordPve" => pve = Absent
        /\ db.pveDeleted => pve = Absent /\ allocation = "Ended" /\ job # "Provision"

\* A task is started while none is on record, and unless its upid is in hand or
\* recorded a fault was spent for each.
StartInv ==
    /\ pc = "start" => db.upid = 0
    /\ pc = "recordUpid" => found # 0
    /\ TasksAreFew
    /\ db.upid = 0 /\ pc # "recordUpid" =>
         \A i \in Backup : task[i] # "none" => i <= spent.crashes + spent.errors

\* Steps belong to jobs, backups to tasks, cleanups to retired VMs.
IInv == TypeOK /\ PhaseInv /\ TaskInv /\ CleanInv /\ BackupInv /\ OnceInv /\ StartInv

-----------------------------------------------------------------------------
(* Lemmas about backups.                                                   *)

\* The ids of backups are ids of tasks.
LEMMA BackupIdsType ==
    ASSUME TypeOK
    PROVE  BackupIds \subseteq Backup
  BY DEF TypeOK, BackupIds

\* The newest backup is one of them: a nonempty set of numbers up to MaxBackups
\* has a largest element.
LEMMA NewestIsBackup ==
    ASSUME TypeOK, NewestBackup # 0
    PROVE  NewestBackup \in BackupIds /\ NewestBackup \in Backup
  <1> DEFINE age == {MaxBackups - i : i \in BackupIds}
  <1>1. BackupIds # {}
    BY DEF NewestBackup, BackupIds
  <1>2. age \subseteq Nat /\ age # {}
    BY <1>1, BackupIdsType, RetirementAssumption DEF Backup
  <1> HIDE DEF age
  <1>3. PICK a \in age : \A b \in age : <<b, a>> \notin OpToRel(<, Nat)
    BY <1>2, WFMin, NatLessThanWellFounded, Zenon
  <1>4. \A b \in age : ~(b < a)
    BY <1>2, <1>3, Zenon DEF OpToRel
  <1>5. PICK i \in BackupIds : a = MaxBackups - i
    BY DEF age
  <1>6. \A k \in BackupIds : ~(MaxBackups - k < MaxBackups - i)
    BY <1>4, <1>5 DEF age
  <1>7. \A k \in BackupIds : k <= i
    BY <1>6, BackupIdsType, RetirementAssumption DEF Backup
  <1>8. backups # {}
    BY <1>1 DEF BackupIds
  <1>9. NewestBackup \in BackupIds
    BY <1>7, <1>8, Zenon DEF NewestBackup
  <1> QED BY <1>9, BackupIdsType

\* It is a number the worker may have in hand; so is none.
LEMMA FoundType ==
    ASSUME TypeOK
    PROVE  0 \in 0..MaxBackups /\ (NewestBackup # 0 => NewestBackup \in 0..MaxBackups)
  BY NewestIsBackup, RetirementAssumption DEF Backup

\* A task that ends is not that of a recorded backup.
LEMMA EndsAnother ==
    ASSUME TypeOK, TaskInv, NEW i \in Backup, BackupEnds(i)
    PROVE  /\ \A k \in Backup : k # i => task'[k] = task[k]
           /\ \A b \in backups' : b \in backups \/ (b.id = i /\ task'[i] = "ok")
           /\ \A b \in backups : b.id \in Backup /\ b.id # i
           /\ BackupIds \subseteq BackupIds' /\ BackupIds' \subseteq BackupIds \cup {i}
           /\ db.volume # 0 => db.volume \in Backup /\ db.volume # i
           /\ pc = "recordBackup" => found \in Backup /\ found # i
  <1>1. \A k \in Backup : k # i => task'[k] = task[k]
    BY DEF BackupEnds, TypeOK
  <1>2. task[i] = "running" /\ (task'[i] = "ok" \/ (task'[i] = "failed" /\ backups' = backups))
    BY DEF BackupEnds, TypeOK
  <1>3. /\ \A b \in backups' : b \in backups \/ (b.id = i /\ task'[i] = "ok")
        /\ backups \subseteq backups'
    BY <1>2 DEF BackupEnds
  <1>4. \A b \in backups : b.id \in Backup /\ b.id # i
    BY <1>2 DEF TaskInv, TypeOK
  <1>5. db.volume \in 0..MaxBackups /\ found \in 0..MaxBackups
    BY DEF TypeOK, Columns
  <1>6. db.volume # 0 => db.volume \in Backup /\ db.volume # i
    BY <1>2, <1>5, RetirementAssumption DEF Backup, TaskInv
  <1>7. pc = "recordBackup" => found \in Backup /\ found # i
    BY <1>2, <1>5, RetirementAssumption DEF Backup, TaskInv
  <1>8. BackupIds \subseteq BackupIds' /\ BackupIds' \subseteq BackupIds \cup {i}
    BY <1>3 DEF BackupIds
  <1> QED BY <1>1, <1>3, <1>4, <1>6, <1>7, <1>8

-----------------------------------------------------------------------------
(* Lemmas about the row, the faults and failed jobs.                       *)

\* Each update of the row sets one column.
LEMMA OneColumn ==
    ASSUME TypeOK
    PROVE  /\ db' = [db EXCEPT !.node = TRUE] \/ db' = [db EXCEPT !.upid = found] =>
                /\ db'.volume = db.volume /\ db'.pveDeleted = db.pveDeleted
                /\ db'.netboxDeleted = db.netboxDeleted
                /\ db'.backupDeleted = db.backupDeleted
           /\ db' = [db EXCEPT !.node = TRUE] => db'.upid = db.upid
           /\ db' = [db EXCEPT !.upid = found] => db'.upid = found
           /\ db' = [db EXCEPT !.volume = found] =>
                /\ db'.volume = found /\ db'.pveDeleted = db.pveDeleted
                /\ db'.netboxDeleted = db.netboxDeleted
                /\ db'.backupDeleted = db.backupDeleted /\ db'.upid = db.upid
           /\ db' = [db EXCEPT !.pveDeleted = TRUE] =>
                /\ db'.volume = db.volume /\ db'.pveDeleted
                /\ db'.netboxDeleted = db.netboxDeleted
                /\ db'.backupDeleted = db.backupDeleted /\ db'.upid = db.upid
           /\ db' = [db EXCEPT !.netboxDeleted = TRUE] =>
                /\ db'.volume = db.volume /\ db'.pveDeleted = db.pveDeleted
                /\ db'.netboxDeleted /\ db'.backupDeleted = db.backupDeleted
                /\ db'.upid = db.upid
           /\ db' = [db EXCEPT !.backupDeleted = TRUE] =>
                /\ db'.volume = db.volume /\ db'.pveDeleted = db.pveDeleted
                /\ db'.netboxDeleted = db.netboxDeleted /\ db'.backupDeleted
                /\ db'.upid = db.upid
  BY DEF TypeOK, Columns

\* What the steps of others leave alone.
LEMMA OthersKeep ==
    ASSUME Elsewhere \/ GuestJobEnds
    PROVE  /\ UNCHANGED <<period, pc, found, db, events, cleaner, spent>>
           /\ UNCHANGED <<pve, task, backups, snapshot, netbox>>
  BY DEF Elsewhere, GuestJobEnds, OnlyLife, external

\* What they do to the lifecycle: they neither create nor end a retirement, queue a
\* provisioning only after a reservation, and retire nothing.
LEMMA OthersLife ==
    ASSUME Elsewhere \/ GuestJobEnds
    PROVE  /\ job' = "Retire" <=> job = "Retire"
           /\ job' = "Provision" => job = "Provision" \/ reserving
           /\ allocation' = allocation \/ (allocation' = "Ended" /\ ~reserving')
           /\ state' = "Retired" => state = "Retired" /\ job' = job
  <1>1. CASE Life!End BY <1>1 DEF Life!End
  <1>2. CASE Life!Review BY <1>2 DEF Life!Review
  <1>3. CASE Life!Read BY <1>3 DEF Life!Read
  <1>4. CASE Life!Return BY <1>4 DEF Life!Return
  <1>5. CASE Life!QueueProvisioning BY <1>5 DEF Life!QueueProvisioning
  <1>6. CASE Life!ClaimProvision BY <1>6 DEF Life!ClaimProvision
  <1>7. CASE Life!EndGuestJob BY <1>7 DEF Life!EndGuestJob, Life!Guest
  <1>8. CASE \E a \in Life!Guest : Life!QueueGuestJob(a)
    BY <1>8 DEF Life!QueueGuestJob, Life!Guest
  <1> QED BY <1>1, <1>2, <1>3, <1>4, <1>5, <1>6, <1>7, <1>8 DEF Elsewhere, GuestJobEnds

\* A reservation is of an active allocation and of a VM that is not retired; a
\* retired VM without one is final.
LEMMA OthersReserve ==
    ASSUME Elsewhere \/ GuestJobEnds
    PROVE  /\ reserving' => reserving \/ allocation = "Active"
           /\ state = "Retired" /\ job = "none" /\ ~reserving =>
                state' = "Retired" /\ ~reserving'
  <1>1. CASE Life!End BY <1>1 DEF Life!End
  <1>2. CASE Life!Review BY <1>2 DEF Life!Review
  <1>3. CASE Life!Read BY <1>3 DEF Life!Read
  <1>4. CASE Life!Return BY <1>4 DEF Life!Return
  <1>5. CASE Life!QueueProvisioning BY <1>5 DEF Life!QueueProvisioning
  <1>6. CASE Life!ClaimProvision BY <1>6 DEF Life!ClaimProvision
  <1>7. CASE Life!EndGuestJob BY <1>7 DEF Life!EndGuestJob, Life!Guest
  <1>8. CASE \E a \in Life!Guest : Life!QueueGuestJob(a)
    BY <1>8 DEF Life!QueueGuestJob, Life!Guest
  <1> QED BY <1>1, <1>2, <1>3, <1>4, <1>5, <1>6, <1>7, <1>8 DEF Elsewhere, GuestJobEnds

\* They keep the types of the lifecycle.
LEMMA OthersType ==
    ASSUME TypeOK, Elsewhere \/ GuestJobEnds
    PROVE  /\ allocation' \in {"Active", "Ended"} /\ state' \in States
           /\ job' \in Life!Guest \cup {"none", "Retire", "Provision"}
           /\ reserving' \in BOOLEAN
  BY DEF TypeOK, States, Life!States, Elsewhere, GuestJobEnds, OnlyLife, Life!End,
         Life!Review, Life!Read, Life!Return, Life!QueueProvisioning,
         Life!ClaimProvision, Life!QueueGuestJob, Life!Guest, Life!EndGuestJob

\* A VM with a job is not retired, so no cleanup is at work on it.
LEMMA BusyIsUnclean ==
    ASSUME CleanInv, job # "none"
    PROVE  /\ state # "Retired" /\ ~db.backupDeleted
           /\ \A c \in Cleaner : cleaner[c] = "idle"
  BY DEF CleanInv, ReleasedOnlyWithoutBackup

\* Errors are spent within their bound.
LEMMA ErrorsType ==
    ASSUME TypeOK, spent.errors < MaxErrors, Spend("errors")
    PROVE  spent' \in Faults
  BY RetirementAssumption DEF TypeOK, Spend, Faults

\* A fault spent is one more of its kind.
LEMMA Spent ==
    ASSUME TypeOK
    PROVE  /\ spent.crashes \in Nat /\ spent.errors \in Nat
           /\ Spend("crashes") => /\ spent'.crashes = spent.crashes + 1
                                  /\ spent'.errors = spent.errors
           /\ Spend("errors") => /\ spent'.crashes = spent.crashes
                                 /\ spent'.errors = spent.errors + 1
           /\ Spend("failures") => /\ spent'.crashes = spent.crashes
                                   /\ spent'.errors = spent.errors
  BY RetirementAssumption DEF TypeOK, Faults, Spend

\* A new task runs; the others are left alone.
LEMMA NewTask ==
    ASSUME TypeOK, pve # Absent, NEW i \in Backup, Starts(i)
    PROVE  /\ task' \in [Backup -> TaskStatus] /\ snapshot' \in [Backup -> {0} \cup Period]
           /\ task[i] = "none" /\ task'[i] = "running" /\ snapshot'[i] # 0
           /\ \A k \in Backup : k # i => task'[k] = task[k] /\ snapshot'[k] = snapshot[k]
           /\ \A k \in Backup : k < i => task[k] # "none"
  BY DEF TypeOK, Starts, TaskStatus, Absent

\* If every task so far cost a fault, the new one is the first without.
LEMMA NextTask ==
    ASSUME TypeOK, pve # Absent, NEW i \in Backup, Starts(i), NEW n \in Nat,
           \A k \in Backup : task[k] # "none" => k <= n
    PROVE  \A k \in Backup : task'[k] # "none" => k <= n + 1
  <1>1. i <= n + 1
    <2>1. CASE i = 1
      BY <2>1
    <2>2. CASE i # 1
      <3>1. i - 1 \in Backup /\ i - 1 < i
        BY <2>2, RetirementAssumption DEF Backup
      <3>2. i - 1 <= n
        BY <3>1, NewTask
      <3> QED BY <3>1, <3>2, RetirementAssumption DEF Backup
    <2> QED BY <2>1, <2>2
  <1>2. \A k \in Backup : k \in Nat
    BY RetirementAssumption DEF Backup
  <1> QED BY <1>1, <1>2, NewTask

\* A lost answer leaves a task nobody knows, or an absent guest, and a failed job.
LEMMA LostAnswer ==
    ASSUME TypeOK, Unanswered
    PROVE  /\ job = "Retire" /\ job' = "none" /\ state' = "Retirement Review"
           /\ pc' = "idle" /\ found' = 0
           /\ spent' \in Faults /\ Spend("errors")
           /\ UNCHANGED <<allocation, reserving, period, db, events, backups, netbox,
                          cleaner>>
           /\ \/ pc = "delete" /\ pve' = Absent /\ UNCHANGED <<task, snapshot>>
              \/ pc = "start" /\ pve # Absent /\ pve' = pve /\ \E i \in Backup : Starts(i)
  BY ErrorsType DEF Unanswered, Life!EndRetire, At, Goto

\* Only a retirement fails as one.
LEMMA FailIsRetirement ==
    ASSUME Fail
    PROVE  job = "Retire"
  BY DEF Fail, Refused, Calling, At

-----------------------------------------------------------------------------
(* Every step preserves each conjunct.                                     *)

\* Every step keeps the types.
LEMMA TypeStep ==
    ASSUME TypeOK, TaskInv, Next
    PROVE  TypeOK'
  <1>1. CASE Elsewhere
    BY <1>1, OthersKeep, OthersType DEF TypeOK
  <1>2. CASE Reactivate
    BY <1>2, RetirementAssumption
       DEF TypeOK, Reactivate, Life!Activate, admin, Period, Absent
  <1>3. CASE QueueRetirement
    BY <1>3
       DEF TypeOK, QueueRetirement, OnlyLife, Life!QueueRetirement, external,
           States, Life!States, Life!Guest
  <1>4. CASE GuestJobEnds
    BY <1>4, OthersKeep, OthersType DEF TypeOK, States, Life!States
  <1>5. CASE Clone
    BY <1>5 DEF TypeOK, Clone, external, admin
  <1>6. CASE ProvisionSucceeds
    BY <1>6
       DEF TypeOK, ProvisionSucceeds, Life!EndProvision, external, admin,
           States, Life!States, Columns
  <1>7. CASE ProvisionFails
    BY <1>7, ErrorsType
       DEF TypeOK, ProvisionFails, Life!EndProvision, Life!Requeue, external,
           admin, Spend, States, Life!States
  <1>8. CASE Claim
    BY <1>8, FoundType
       DEF TypeOK, Claim, Life!ClaimRetire, external, admin, At, Goto, States,
           Life!States, Steps
  <1>9. CASE CheckAllocation
    BY <1>9, FoundType
       DEF TypeOK, CheckAllocation, FinishAs, Life!EndRetire, external, admin,
           At, Goto, States, Life!States, Steps
  <1>10. CASE Validate
    BY <1>10 DEF TypeOK, Validate, Local, external, admin, At, Goto, Steps
  <1>11. CASE Find
    <2>1. found' \in 0..MaxBackups
      <3>1. CASE found' = NewestBackup /\ NewestBackup # 0
        BY <3>1, FoundType
      <3>2. CASE found' = found
        BY <3>2 DEF TypeOK
      <3> QED BY <1>11, <3>1, <3>2 DEF Find
    <2>2. pc' \in Steps
      BY <1>11 DEF Find, Goto, Steps
    <2>3. events' \subseteq Intents
      BY <1>11 DEF Find, TypeOK, Intents
    <2> QED BY <1>11, <2>1, <2>2, <2>3 DEF TypeOK, Find, Local, external, admin
  <1>12. CASE StartBackup
    BY <1>12, RetirementAssumption
       DEF TypeOK, StartBackup, Starts, admin, At, Goto, Steps, Backup, TaskStatus,
           Absent
  <1>13. CASE RecordUpid
    BY <1>13, FoundType
       DEF TypeOK, RecordUpid, Local, external, admin, At, Goto, Steps, Columns
  <1>14. CASE WaitForBackup
    BY <1>14 DEF TypeOK, WaitForBackup, Local, external, admin, At, Goto, Steps
  <1>15. CASE FindAgain
    BY <1>15, FoundType
       DEF TypeOK, FindAgain, Local, external, admin, At, Goto, Steps, Backup
  <1>16. CASE RecordBackup
    BY <1>16, FoundType
       DEF TypeOK, RecordBackup, Local, external, admin, At, Goto, Steps, Columns
  <1>17. CASE VerifyAndIntend
    BY <1>17
       DEF TypeOK, VerifyAndIntend, Local, external, admin, At, Goto, Steps,
           Intents
  <1>18. CASE DeleteGuest
    BY <1>18 DEF TypeOK, DeleteGuest, admin, At, Goto, Steps
  <1>19. CASE RecordPve
    BY <1>19 DEF TypeOK, RecordPve, Local, external, admin, At, Goto, Steps, Columns
  <1>20. CASE IntendNetBox
    BY <1>20 DEF TypeOK, IntendNetBox, Local, external, admin, At, Goto, Steps, Intents
  <1>21. CASE DeleteNetBox
    BY <1>21 DEF TypeOK, DeleteNetBox, admin, At, Goto, Steps
  <1>22. CASE RecordNetBox
    BY <1>22 DEF TypeOK, RecordNetBox, Local, external, admin, At, Goto, Steps, Columns
  <1>23. CASE Succeed
    BY <1>23, FoundType
       DEF TypeOK, Succeed, FinishAs, Life!EndRetire, external, admin, At,
           Goto, Steps, States, Life!States
  <1>24. CASE Fail
    BY <1>24, FoundType, ErrorsType
       DEF TypeOK, Fail, FinishAs, Life!EndRetire, external, admin, Spend,
           Goto, States, Life!States, Steps
  <1>25. CASE Crash
    BY <1>25, RetirementAssumption, FoundType
       DEF TypeOK, Crash, external, admin, Spend, At, Goto, Steps, Faults
  <1>26. ASSUME NEW i \in Backup, BackupEnds(i) PROVE TypeOK'
    BY <1>26, RetirementAssumption
       DEF TypeOK, BackupEnds, admin, Spend, TaskStatus, TaskInv, Faults
  <1>27. ASSUME NEW c \in Cleaner, CleanupReads(c) PROVE TypeOK'
    BY <1>27 DEF TypeOK, CleanupReads, external, admin, CleanerSteps, Intents
  <1>28. ASSUME NEW c \in Cleaner, CleanupDeletes(c) PROVE TypeOK'
    BY <1>28 DEF TypeOK, CleanupDeletes, admin, CleanerSteps
  <1>29. ASSUME NEW c \in Cleaner, CleanupRecords(c) PROVE TypeOK'
    BY <1>29, RetirementAssumption
       DEF TypeOK, CleanupRecords, external, admin, CleanerSteps, Columns
  <1>30. ASSUME NEW c \in Cleaner, CleanupCrashes(c) PROVE TypeOK'
    BY <1>30, RetirementAssumption
       DEF TypeOK, CleanupCrashes, external, admin, Spend, CleanerSteps, Faults
  <1>31. ASSUME NEW c \in Cleaner, CleanupVerifies(c) PROVE TypeOK'
    BY <1>31 DEF TypeOK, CleanupVerifies, external, admin, CleanerSteps, Intents
  <1>32. ASSUME NEW c \in Cleaner, CleanupIntends(c) PROVE TypeOK'
    BY <1>32 DEF TypeOK, CleanupIntends, external, admin, CleanerSteps, Intents
  <1>33. CASE Unanswered
    <2>1. task' \in [Backup -> TaskStatus] /\ snapshot' \in [Backup -> {0} \cup Period]
      BY <1>33, LostAnswer, NewTask DEF TypeOK
    <2>2. state' \in States /\ pc' \in Steps /\ found' \in 0..MaxBackups
      BY <1>33, LostAnswer, FoundType DEF States, Life!States, Steps
    <2> QED BY <1>33, <2>1, <2>2, LostAnswer DEF TypeOK
  <1> QED
    BY <1>1, <1>2, <1>3, <1>4, <1>5, <1>6, <1>7, <1>8, <1>9, <1>10,
       <1>11, <1>12, <1>13, <1>14, <1>15, <1>16, <1>17, <1>18, <1>19, <1>20,
       <1>21, <1>22, <1>23, <1>24, <1>25, <1>26, <1>27, <1>28, <1>29, <1>30,
       <1>31, <1>32, <1>33
    DEF Next, OtherJobs, WorkerStep, CleanupWorks

\* A step of a retirement follows its deletions.
LEMMA PhaseStep ==
    ASSUME TypeOK, PhaseInv, Next
    PROVE  PhaseInv'
  <1>1. CASE Elsewhere
    BY <1>1, OthersKeep, OthersLife DEF PhaseInv
  <1>2. CASE Reactivate
    BY <1>2 DEF PhaseInv, Reactivate, Life!Activate, admin
  <1>3. CASE QueueRetirement
    BY <1>3 DEF PhaseInv, QueueRetirement, OnlyLife, Life!QueueRetirement, external
  <1>4. CASE GuestJobEnds
    BY <1>4, OthersKeep, OthersLife DEF PhaseInv
  <1>5. CASE Clone
    BY <1>5 DEF PhaseInv, Clone, external, admin
  <1>6. CASE ProvisionSucceeds
    BY <1>6, OneColumn
       DEF PhaseInv, ProvisionSucceeds, Life!EndProvision, external, admin
  <1>7. CASE ProvisionFails
    BY <1>7
       DEF PhaseInv, ProvisionFails, Life!EndProvision, Life!Requeue, external,
           admin, Spend
  <1>8. CASE Claim
    BY <1>8 DEF PhaseInv, Claim, Life!ClaimRetire, external, admin, At, Goto
  <1>9. CASE CheckAllocation
    BY <1>9
       DEF PhaseInv, CheckAllocation, FinishAs, Life!EndRetire, external,
           admin, At, Goto
  <1>10. CASE Validate
    BY <1>10 DEF PhaseInv, Validate, Local, external, admin, At, Goto
  <1>11. CASE Find
    BY <1>11 DEF PhaseInv, Find, Local, external, admin, At, Goto
  <1>12. CASE StartBackup
    BY <1>12 DEF PhaseInv, StartBackup, Starts, admin, At, Goto
  <1>13. CASE RecordUpid
    BY <1>13, OneColumn DEF PhaseInv, RecordUpid, Local, external, admin, At, Goto
  <1>14. CASE WaitForBackup
    BY <1>14 DEF PhaseInv, WaitForBackup, Local, external, admin, At, Goto
  <1>15. CASE FindAgain
    BY <1>15 DEF PhaseInv, FindAgain, Local, external, admin, At, Goto
  <1>16. CASE RecordBackup
    BY <1>16, OneColumn DEF PhaseInv, RecordBackup, Local, external, admin, At, Goto
  <1>17. CASE VerifyAndIntend
    BY <1>17 DEF PhaseInv, VerifyAndIntend, Local, external, admin, At, Goto
  <1>18. CASE DeleteGuest
    BY <1>18 DEF PhaseInv, DeleteGuest, admin, At, Goto
  <1>19. CASE RecordPve
    BY <1>19, OneColumn DEF PhaseInv, RecordPve, Local, external, admin, At, Goto
  <1>20. CASE IntendNetBox
    BY <1>20 DEF PhaseInv, IntendNetBox, Local, external, admin, At, Goto
  <1>21. CASE DeleteNetBox
    BY <1>21 DEF PhaseInv, DeleteNetBox, admin, At, Goto
  <1>22. CASE RecordNetBox
    BY <1>22, OneColumn DEF PhaseInv, RecordNetBox, Local, external, admin, At, Goto
  <1>23. CASE Succeed
    BY <1>23
       DEF PhaseInv, Succeed, FinishAs, Life!EndRetire, external, admin, At,
           Goto
  <1>24. CASE Fail
    BY <1>24, FailIsRetirement
       DEF PhaseInv, Fail, FinishAs, Life!EndRetire, external, admin, Spend,
           Goto
  <1>25. CASE Crash
    BY <1>25 DEF PhaseInv, Crash, external, admin, Spend, At, Goto
  <1>26. ASSUME NEW i \in Backup, BackupEnds(i) PROVE PhaseInv'
    BY <1>26 DEF PhaseInv, BackupEnds, admin, Spend
  <1>27. ASSUME NEW c \in Cleaner, CleanupReads(c) PROVE PhaseInv'
    BY <1>27 DEF PhaseInv, CleanupReads, external, admin
  <1>28. ASSUME NEW c \in Cleaner, CleanupDeletes(c) PROVE PhaseInv'
    BY <1>28 DEF PhaseInv, CleanupDeletes, admin
  <1>29. ASSUME NEW c \in Cleaner, CleanupRecords(c) PROVE PhaseInv'
    BY <1>29, OneColumn DEF PhaseInv, CleanupRecords, external, admin
  <1>30. ASSUME NEW c \in Cleaner, CleanupCrashes(c) PROVE PhaseInv'
    BY <1>30 DEF PhaseInv, CleanupCrashes, external, admin, Spend
  <1>31. ASSUME NEW c \in Cleaner, CleanupVerifies(c) PROVE PhaseInv'
    BY <1>31 DEF PhaseInv, CleanupVerifies, external, admin
  <1>32. ASSUME NEW c \in Cleaner, CleanupIntends(c) PROVE PhaseInv'
    BY <1>32 DEF PhaseInv, CleanupIntends, external, admin
  <1>33. CASE Unanswered
    BY <1>33 DEF PhaseInv, Unanswered, Starts, Life!EndRetire, admin, Spend, At, Goto
  <1> QED
    BY <1>1, <1>2, <1>3, <1>4, <1>5, <1>6, <1>7, <1>8, <1>9, <1>10,
       <1>11, <1>12, <1>13, <1>14, <1>15, <1>16, <1>17, <1>18, <1>19, <1>20,
       <1>21, <1>22, <1>23, <1>24, <1>25, <1>26, <1>27, <1>28, <1>29, <1>30,
       <1>31, <1>32, <1>33
    DEF Next, OtherJobs, WorkerStep, CleanupWorks

\* A backup is recorded only from a task that ended well, and such tasks never run again.
LEMMA TaskStep ==
    ASSUME TypeOK, PhaseInv, TaskInv, Next
    PROVE  TaskInv'
  <1>1. CASE Elsewhere
    BY <1>1, OthersKeep DEF TaskInv
  <1>2. CASE Reactivate
    BY <1>2 DEF TaskInv, Reactivate, Life!Activate, admin
  <1>3. CASE QueueRetirement
    BY <1>3 DEF TaskInv, QueueRetirement, OnlyLife, Life!QueueRetirement, external
  <1>4. CASE GuestJobEnds
    BY <1>4, OthersKeep DEF TaskInv
  <1>5. CASE Clone
    BY <1>5 DEF TaskInv, Clone, external, admin
  <1>6. CASE ProvisionSucceeds
    BY <1>6, OneColumn
       DEF TaskInv, ProvisionSucceeds, Life!EndProvision, external, admin
  <1>7. CASE ProvisionFails
    BY <1>7
       DEF TaskInv, ProvisionFails, Life!EndProvision, Life!Requeue, external,
           admin, Spend
  <1>8. CASE Claim
    BY <1>8 DEF TaskInv, Claim, Life!ClaimRetire, external, admin, At, Goto
  <1>9. CASE CheckAllocation
    BY <1>9
       DEF TaskInv, CheckAllocation, FinishAs, Life!EndRetire, external, admin,
           At, Goto
  <1>10. CASE Validate
    BY <1>10 DEF TaskInv, Validate, Local, external, admin, At, Goto
  <1>11. CASE Find
    BY <1>11, NewestIsBackup
       DEF TaskInv, Find, Local, external, admin, At, Goto, BackupIds
  <1>12. CASE StartBackup
    BY <1>12
       DEF TaskInv, StartBackup, Starts, admin, At, Goto, TypeOK, Columns, Backup,
           Absent, Period
  <1>13. CASE RecordUpid
    BY <1>13, OneColumn DEF TaskInv, RecordUpid, Local, external, admin, At, Goto
  <1>14. CASE WaitForBackup
    BY <1>14 DEF TaskInv, WaitForBackup, Local, external, admin, At, Goto
  <1>15. CASE FindAgain
    BY <1>15, NewestIsBackup
       DEF TaskInv, FindAgain, Local, external, admin, At, Goto, BackupIds
  <1>16. CASE RecordBackup
    BY <1>16, OneColumn DEF TaskInv, RecordBackup, Local, external, admin, At, Goto
  <1>17. CASE VerifyAndIntend
    BY <1>17 DEF TaskInv, VerifyAndIntend, Local, external, admin, At, Goto
  <1>18. CASE DeleteGuest
    BY <1>18 DEF TaskInv, DeleteGuest, admin, At, Goto
  <1>19. CASE RecordPve
    BY <1>19, OneColumn DEF TaskInv, RecordPve, Local, external, admin, At, Goto
  <1>20. CASE IntendNetBox
    BY <1>20 DEF TaskInv, IntendNetBox, Local, external, admin, At, Goto
  <1>21. CASE DeleteNetBox
    BY <1>21 DEF TaskInv, DeleteNetBox, admin, At, Goto
  <1>22. CASE RecordNetBox
    BY <1>22, OneColumn DEF TaskInv, RecordNetBox, Local, external, admin, At, Goto
  <1>23. CASE Succeed
    BY <1>23
       DEF TaskInv, Succeed, FinishAs, Life!EndRetire, external, admin, At,
           Goto
  <1>24. CASE Fail
    BY <1>24
       DEF TaskInv, Fail, FinishAs, Life!EndRetire, external, admin, Spend,
           Goto
  <1>25. CASE Crash
    BY <1>25 DEF TaskInv, Crash, external, admin, Spend, At, Goto
  <1>26. ASSUME NEW i \in Backup, BackupEnds(i) PROVE TaskInv'
    BY <1>26, EndsAnother DEF TaskInv, BackupEnds, admin, Spend
  <1>27. ASSUME NEW c \in Cleaner, CleanupReads(c) PROVE TaskInv'
    BY <1>27 DEF TaskInv, CleanupReads, external, admin
  <1>28. ASSUME NEW c \in Cleaner, CleanupDeletes(c) PROVE TaskInv'
    BY <1>28 DEF TaskInv, CleanupDeletes, admin
  <1>29. ASSUME NEW c \in Cleaner, CleanupRecords(c) PROVE TaskInv'
    BY <1>29, OneColumn DEF TaskInv, CleanupRecords, external, admin
  <1>30. ASSUME NEW c \in Cleaner, CleanupCrashes(c) PROVE TaskInv'
    BY <1>30 DEF TaskInv, CleanupCrashes, external, admin, Spend
  <1>31. ASSUME NEW c \in Cleaner, CleanupVerifies(c) PROVE TaskInv'
    BY <1>31 DEF TaskInv, CleanupVerifies, external, admin
  <1>32. ASSUME NEW c \in Cleaner, CleanupIntends(c) PROVE TaskInv'
    BY <1>32 DEF TaskInv, CleanupIntends, external, admin
  <1>33. CASE Unanswered
    <2>1. pc' # "recordBackup" /\ UNCHANGED <<db, backups>>
      BY <1>33, LostAnswer
    <2>2. CASE UNCHANGED <<task, snapshot>>
      BY <2>1, <2>2 DEF TaskInv
    <2>3. CASE pve # Absent /\ \E i \in Backup : Starts(i)
      <3>1. PICK i \in Backup : Starts(i)
        BY <2>3
      <3>2. db.volume # 0 => db.volume \in Backup
        BY RetirementAssumption DEF TypeOK, Columns, Backup
      <3>3. \A b \in backups : b.id \in Backup
        BY DEF TypeOK
      <3> QED BY <2>1, <2>3, <3>1, <3>2, <3>3, NewTask DEF TaskInv
    <2> QED BY <1>33, <2>2, <2>3, LostAnswer
  <1> QED
    BY <1>1, <1>2, <1>3, <1>4, <1>5, <1>6, <1>7, <1>8, <1>9, <1>10,
       <1>11, <1>12, <1>13, <1>14, <1>15, <1>16, <1>17, <1>18, <1>19, <1>20,
       <1>21, <1>22, <1>23, <1>24, <1>25, <1>26, <1>27, <1>28, <1>29, <1>30,
       <1>31, <1>32, <1>33
    DEF Next, OtherJobs, WorkerStep, CleanupWorks

\* No job touches a retired VM; an identity is released once its backup is gone.
LEMMA CleanStep ==
    ASSUME TypeOK, PhaseInv, TaskInv, CleanInv, Next
    PROVE  CleanInv'
  <1>1. CASE Elsewhere
    BY <1>1, OthersKeep, OthersLife, OthersReserve
       DEF CleanInv, ReleasedOnlyWithoutBackup, BackupIds
  <1>2. CASE Reactivate
    BY <1>2
       DEF CleanInv, ReleasedOnlyWithoutBackup, BackupIds, Reactivate,
           Life!Activate, admin
  <1>3. CASE QueueRetirement
    BY <1>3
       DEF CleanInv, ReleasedOnlyWithoutBackup, BackupIds, QueueRetirement,
           OnlyLife, Life!QueueRetirement, external
  <1>4. CASE GuestJobEnds
    BY <1>4, OthersKeep, OthersLife, OthersReserve
       DEF CleanInv, ReleasedOnlyWithoutBackup, BackupIds
  <1>5. CASE Clone
    BY <1>5 DEF CleanInv, ReleasedOnlyWithoutBackup, BackupIds, Clone, external, admin
  <1>6. CASE ProvisionSucceeds
    BY <1>6, OneColumn
       DEF CleanInv, ReleasedOnlyWithoutBackup, BackupIds, ProvisionSucceeds,
           Life!EndProvision, external, admin
  <1>7. CASE ProvisionFails
    <2>1. /\ job = "Provision" /\ state' # "Retired"
          /\ UNCHANGED <<allocation, reserving, db, cleaner>>
      BY <1>7 DEF ProvisionFails, Life!EndProvision, Life!Requeue
    <2> QED BY <2>1, BusyIsUnclean DEF CleanInv, ReleasedOnlyWithoutBackup
  <1>8. CASE Claim
    BY <1>8
       DEF CleanInv, ReleasedOnlyWithoutBackup, BackupIds, Claim,
           Life!ClaimRetire, external, admin, At, Goto
  <1>9. CASE CheckAllocation
    <2>1. /\ job = "Retire" /\ (state' = state \/ state' # "Retired")
          /\ UNCHANGED <<allocation, reserving, db, cleaner>>
      BY <1>9 DEF CheckAllocation, FinishAs, Life!EndRetire, admin, At
    <2> QED BY <2>1, BusyIsUnclean DEF CleanInv, ReleasedOnlyWithoutBackup
  <1>10. CASE Validate
    BY <1>10
       DEF CleanInv, ReleasedOnlyWithoutBackup, BackupIds, Validate, Local,
           external, admin, At, Goto
  <1>11. CASE Find
    BY <1>11
       DEF CleanInv, ReleasedOnlyWithoutBackup, BackupIds, Find, Local, external,
           admin, At, Goto
  <1>12. CASE StartBackup
    BY <1>12
       DEF CleanInv, ReleasedOnlyWithoutBackup, BackupIds, StartBackup, Starts, admin,
           At, Goto
  <1>13. CASE RecordUpid
    BY <1>13, OneColumn
       DEF CleanInv, ReleasedOnlyWithoutBackup, BackupIds, RecordUpid, Local,
           external, admin, At, Goto
  <1>14. CASE WaitForBackup
    BY <1>14
       DEF CleanInv, ReleasedOnlyWithoutBackup, BackupIds, WaitForBackup, Local,
           external, admin, At, Goto
  <1>15. CASE FindAgain
    BY <1>15
       DEF CleanInv, ReleasedOnlyWithoutBackup, BackupIds, FindAgain, Local,
           external, admin, At, Goto
  <1>16. CASE RecordBackup
    BY <1>16, OneColumn
       DEF CleanInv, ReleasedOnlyWithoutBackup, BackupIds, RecordBackup, Local,
           external, admin, At, Goto
  <1>17. CASE VerifyAndIntend
    BY <1>17
       DEF CleanInv, ReleasedOnlyWithoutBackup, BackupIds, VerifyAndIntend,
           Local, external, admin, At, Goto
  <1>18. CASE DeleteGuest
    BY <1>18
       DEF CleanInv, ReleasedOnlyWithoutBackup, BackupIds, DeleteGuest, admin,
           At, Goto
  <1>19. CASE RecordPve
    BY <1>19, OneColumn
       DEF CleanInv, ReleasedOnlyWithoutBackup, BackupIds, RecordPve, Local,
           external, admin, At, Goto
  <1>20. CASE IntendNetBox
    BY <1>20
       DEF CleanInv, ReleasedOnlyWithoutBackup, BackupIds, IntendNetBox, Local,
           external, admin, At, Goto
  <1>21. CASE DeleteNetBox
    BY <1>21
       DEF CleanInv, ReleasedOnlyWithoutBackup, BackupIds, DeleteNetBox, admin,
           At, Goto
  <1>22. CASE RecordNetBox
    BY <1>22, OneColumn
       DEF CleanInv, ReleasedOnlyWithoutBackup, BackupIds, RecordNetBox, Local,
           external, admin, At, Goto
  <1>23. CASE Succeed
    BY <1>23
       DEF CleanInv, ReleasedOnlyWithoutBackup, BackupIds, Succeed, FinishAs,
           Life!EndRetire, external, admin, At, Goto, PhaseInv
  <1>24. CASE Fail
    BY <1>24, FailIsRetirement
       DEF CleanInv, ReleasedOnlyWithoutBackup, BackupIds, Fail, FinishAs,
           Life!EndRetire, external, admin, Spend, Goto
  <1>25. CASE Crash
    BY <1>25
       DEF CleanInv, ReleasedOnlyWithoutBackup, BackupIds, Crash, external,
           admin, Spend, At, Goto
  <1>26. ASSUME NEW i \in Backup, BackupEnds(i) PROVE CleanInv'
    BY <1>26, EndsAnother
       DEF CleanInv, ReleasedOnlyWithoutBackup, BackupEnds, admin, Spend
  <1>27. ASSUME NEW c \in Cleaner, CleanupReads(c) PROVE CleanInv'
    BY <1>27
       DEF CleanInv, ReleasedOnlyWithoutBackup, BackupIds, CleanupReads,
           external, admin, TypeOK
  <1>28. ASSUME NEW c \in Cleaner, CleanupDeletes(c) PROVE CleanInv'
    BY <1>28
       DEF CleanInv, ReleasedOnlyWithoutBackup, BackupIds, CleanupDeletes, admin,
           TypeOK
  <1>29. ASSUME NEW c \in Cleaner, CleanupRecords(c) PROVE CleanInv'
    BY <1>29, OneColumn
       DEF CleanInv, ReleasedOnlyWithoutBackup, BackupIds, CleanupRecords,
           external, admin, TypeOK
  <1>30. ASSUME NEW c \in Cleaner, CleanupCrashes(c) PROVE CleanInv'
    BY <1>30
       DEF CleanInv, ReleasedOnlyWithoutBackup, BackupIds, CleanupCrashes,
           external, admin, Spend, TypeOK
  <1>31. ASSUME NEW c \in Cleaner, CleanupVerifies(c) PROVE CleanInv'
    BY <1>31
       DEF CleanInv, ReleasedOnlyWithoutBackup, BackupIds, CleanupVerifies,
           external, admin, TypeOK
  <1>32. ASSUME NEW c \in Cleaner, CleanupIntends(c) PROVE CleanInv'
    BY <1>32
       DEF CleanInv, ReleasedOnlyWithoutBackup, BackupIds, CleanupIntends,
           external, admin, TypeOK
  <1>33. CASE Unanswered
    <2>1. /\ job = "Retire" /\ state' = "Retirement Review"
          /\ UNCHANGED <<allocation, reserving, db, cleaner, backups>>
      BY <1>33, LostAnswer
    <2>2. state # "Retired" /\ ~db.backupDeleted /\ \A c \in Cleaner : cleaner[c] = "idle"
      BY <2>1 DEF CleanInv, ReleasedOnlyWithoutBackup
    <2> QED BY <2>1, <2>2 DEF CleanInv, ReleasedOnlyWithoutBackup, BackupIds
  <1> QED
    BY <1>1, <1>2, <1>3, <1>4, <1>5, <1>6, <1>7, <1>8, <1>9, <1>10,
       <1>11, <1>12, <1>13, <1>14, <1>15, <1>16, <1>17, <1>18, <1>19, <1>20,
       <1>21, <1>22, <1>23, <1>24, <1>25, <1>26, <1>27, <1>28, <1>29, <1>30,
       <1>31, <1>32, <1>33
    DEF Next, OtherJobs, WorkerStep, CleanupWorks

\* The verified backup stays until a cleanup's intent.
LEMMA BackupStep ==
    ASSUME TypeOK, PhaseInv, TaskInv, CleanInv, BackupInv, Next
    PROVE  BackupInv'
  <1>1. CASE Elsewhere
    BY <1>1, OthersKeep DEF BackupInv, RecoverableUntilCleanup, BackupIds
  <1>2. CASE Reactivate
    BY <1>2
       DEF BackupInv, RecoverableUntilCleanup, BackupIds, Reactivate,
           Life!Activate, admin
  <1>3. CASE QueueRetirement
    BY <1>3
       DEF BackupInv, RecoverableUntilCleanup, BackupIds, QueueRetirement,
           OnlyLife, Life!QueueRetirement, external
  <1>4. CASE GuestJobEnds
    BY <1>4, OthersKeep DEF BackupInv, RecoverableUntilCleanup, BackupIds
  <1>5. CASE Clone
    BY <1>5 DEF BackupInv, RecoverableUntilCleanup, BackupIds, Clone, external, admin
  <1>6. CASE ProvisionSucceeds
    BY <1>6, OneColumn
       DEF BackupInv, RecoverableUntilCleanup, BackupIds, ProvisionSucceeds,
           Life!EndProvision, external, admin
  <1>7. CASE ProvisionFails
    BY <1>7
       DEF BackupInv, RecoverableUntilCleanup, BackupIds, ProvisionFails,
           Life!EndProvision, Life!Requeue, external, admin, Spend
  <1>8. CASE Claim
    BY <1>8
       DEF BackupInv, RecoverableUntilCleanup, BackupIds, Claim,
           Life!ClaimRetire, external, admin, At, Goto
  <1>9. CASE CheckAllocation
    BY <1>9
       DEF BackupInv, RecoverableUntilCleanup, BackupIds, CheckAllocation,
           FinishAs, Life!EndRetire, external, admin, At, Goto
  <1>10. CASE Validate
    BY <1>10
       DEF BackupInv, RecoverableUntilCleanup, BackupIds, Validate, Local,
           external, admin, At, Goto
  <1>11. CASE Find
    BY <1>11
       DEF BackupInv, RecoverableUntilCleanup, BackupIds, Find, Local, external,
           admin, At, Goto
  <1>12. CASE StartBackup
    BY <1>12
       DEF BackupInv, RecoverableUntilCleanup, BackupIds, StartBackup, Starts, admin, At,
           Goto
  <1>13. CASE RecordUpid
    BY <1>13, OneColumn
       DEF BackupInv, RecoverableUntilCleanup, BackupIds, RecordUpid, Local,
           external, admin, At, Goto
  <1>14. CASE WaitForBackup
    BY <1>14
       DEF BackupInv, RecoverableUntilCleanup, BackupIds, WaitForBackup, Local,
           external, admin, At, Goto
  <1>15. CASE FindAgain
    BY <1>15
       DEF BackupInv, RecoverableUntilCleanup, BackupIds, FindAgain, Local,
           external, admin, At, Goto
  <1>16. CASE RecordBackup
    <2>1. db'.volume = found /\ db'.pveDeleted = db.pveDeleted
      BY <1>16, OneColumn DEF RecordBackup
    <2>2. db.volume \in BackupIds => found = db.volume
      BY <1>16, BackupIdsType, RetirementAssumption DEF RecordBackup, Backup
    <2> QED BY <1>16, <2>1, <2>2
           DEF BackupInv, RecoverableUntilCleanup, BackupIds, RecordBackup, Local,
               external, Goto
  <1>17. CASE VerifyAndIntend
    BY <1>17
       DEF BackupInv, RecoverableUntilCleanup, BackupIds, VerifyAndIntend, Local,
           external, admin, At, Goto
  <1>18. CASE DeleteGuest
    BY <1>18
       DEF BackupInv, RecoverableUntilCleanup, BackupIds, DeleteGuest, admin, At,
           Goto
  <1>19. CASE RecordPve
    BY <1>19, OneColumn
       DEF BackupInv, RecoverableUntilCleanup, BackupIds, RecordPve, Local,
           external, admin, At, Goto
  <1>20. CASE IntendNetBox
    BY <1>20
       DEF BackupInv, RecoverableUntilCleanup, BackupIds, IntendNetBox, Local,
           external, admin, At, Goto
  <1>21. CASE DeleteNetBox
    BY <1>21
       DEF BackupInv, RecoverableUntilCleanup, BackupIds, DeleteNetBox, admin,
           At, Goto
  <1>22. CASE RecordNetBox
    BY <1>22, OneColumn
       DEF BackupInv, RecoverableUntilCleanup, BackupIds, RecordNetBox, Local,
           external, admin, At, Goto
  <1>23. CASE Succeed
    BY <1>23
       DEF BackupInv, RecoverableUntilCleanup, BackupIds, Succeed, FinishAs,
           Life!EndRetire, external, admin, At, Goto
  <1>24. CASE Fail
    BY <1>24
       DEF BackupInv, RecoverableUntilCleanup, BackupIds, Fail, FinishAs,
           Life!EndRetire, external, admin, Spend, Goto
  <1>25. CASE Crash
    BY <1>25
       DEF BackupInv, RecoverableUntilCleanup, BackupIds, Crash, external, admin,
           Spend, At, Goto
  <1>26. ASSUME NEW i \in Backup, BackupEnds(i) PROVE BackupInv'
    BY <1>26, EndsAnother
       DEF BackupInv, RecoverableUntilCleanup, BackupEnds, admin, Spend
  <1>27. ASSUME NEW c \in Cleaner, CleanupReads(c) PROVE BackupInv'
    BY <1>27
       DEF BackupInv, RecoverableUntilCleanup, BackupIds, CleanupReads,
           external, admin
  <1>28. ASSUME NEW c \in Cleaner, CleanupDeletes(c) PROVE BackupInv'
    BY <1>28
       DEF BackupInv, RecoverableUntilCleanup, BackupIds, CleanupDeletes, admin,
           CleanInv, PhaseInv
  <1>29. ASSUME NEW c \in Cleaner, CleanupRecords(c) PROVE BackupInv'
    BY <1>29, OneColumn
       DEF BackupInv, RecoverableUntilCleanup, BackupIds, CleanupRecords,
           external, admin
  <1>30. ASSUME NEW c \in Cleaner, CleanupCrashes(c) PROVE BackupInv'
    BY <1>30
       DEF BackupInv, RecoverableUntilCleanup, BackupIds, CleanupCrashes,
           external, admin, Spend
  <1>31. ASSUME NEW c \in Cleaner, CleanupVerifies(c) PROVE BackupInv'
    BY <1>31
       DEF BackupInv, RecoverableUntilCleanup, BackupIds, CleanupVerifies,
           external, admin
  <1>32. ASSUME NEW c \in Cleaner, CleanupIntends(c) PROVE BackupInv'
    BY <1>32
       DEF BackupInv, RecoverableUntilCleanup, BackupIds, CleanupIntends,
           external, admin
  <1>33. CASE Unanswered
    BY <1>33, LostAnswer DEF BackupInv, RecoverableUntilCleanup, BackupIds
  <1> QED
    BY <1>1, <1>2, <1>3, <1>4, <1>5, <1>6, <1>7, <1>8, <1>9, <1>10,
       <1>11, <1>12, <1>13, <1>14, <1>15, <1>16, <1>17, <1>18, <1>19, <1>20,
       <1>21, <1>22, <1>23, <1>24, <1>25, <1>26, <1>27, <1>28, <1>29, <1>30,
       <1>31, <1>32, <1>33
    DEF Next, OtherJobs, WorkerStep, CleanupWorks

\* A guest deleted in the first service period is not cloned in it.
LEMMA OnceStep ==
    ASSUME TypeOK, PhaseInv, CleanInv, OnceInv, Next
    PROVE  OnceInv'
  <1>1. CASE Elsewhere
    BY <1>1, OthersKeep, OthersLife DEF OnceInv, PhaseInv, CleanInv, Absent
  <1>2. CASE Reactivate
    BY <1>2, RetirementAssumption
       DEF OnceInv, PhaseInv, Absent, Reactivate, Life!Activate, admin, TypeOK,
           Period
  <1>3. CASE QueueRetirement
    BY <1>3
       DEF OnceInv, PhaseInv, Absent, QueueRetirement, OnlyLife,
           Life!QueueRetirement, external, TypeOK
  <1>4. CASE GuestJobEnds
    BY <1>4, OthersKeep, OthersLife DEF OnceInv, PhaseInv, CleanInv, Absent
  <1>5. CASE Clone
    BY <1>5 DEF OnceInv, PhaseInv, Absent, Clone, external, admin
  <1>6. CASE ProvisionSucceeds
    BY <1>6, OneColumn
       DEF OnceInv, PhaseInv, Absent, ProvisionSucceeds, Life!EndProvision,
           external, admin
  <1>7. CASE ProvisionFails
    BY <1>7
       DEF OnceInv, PhaseInv, Absent, ProvisionFails, Life!EndProvision,
           Life!Requeue, external, admin, Spend
  <1>8. CASE Claim
    BY <1>8
       DEF OnceInv, PhaseInv, Absent, Claim, Life!ClaimRetire, external, admin,
           At, Goto
  <1>9. CASE CheckAllocation
    BY <1>9
       DEF OnceInv, PhaseInv, Absent, CheckAllocation, FinishAs,
           Life!EndRetire, external, admin, At, Goto
  <1>10. CASE Validate
    BY <1>10 DEF OnceInv, PhaseInv, Absent, Validate, Local, external, admin, At, Goto
  <1>11. CASE Find
    BY <1>11 DEF OnceInv, PhaseInv, Absent, Find, Local, external, admin, At, Goto
  <1>12. CASE StartBackup
    BY <1>12 DEF OnceInv, PhaseInv, Absent, StartBackup, Starts, admin, At, Goto
  <1>13. CASE RecordUpid
    BY <1>13, OneColumn
       DEF OnceInv, PhaseInv, Absent, RecordUpid, Local, external, admin, At,
           Goto
  <1>14. CASE WaitForBackup
    BY <1>14
       DEF OnceInv, PhaseInv, Absent, WaitForBackup, Local, external, admin, At,
           Goto
  <1>15. CASE FindAgain
    BY <1>15 DEF OnceInv, PhaseInv, Absent, FindAgain, Local, external, admin, At, Goto
  <1>16. CASE RecordBackup
    BY <1>16, OneColumn
       DEF OnceInv, PhaseInv, Absent, RecordBackup, Local, external, admin, At,
           Goto
  <1>17. CASE VerifyAndIntend
    BY <1>17
       DEF OnceInv, PhaseInv, Absent, VerifyAndIntend, Local, external, admin,
           At, Goto
  <1>18. CASE DeleteGuest
    BY <1>18 DEF OnceInv, PhaseInv, Absent, DeleteGuest, admin, At, Goto
  <1>19. CASE RecordPve
    BY <1>19, OneColumn
       DEF OnceInv, PhaseInv, Absent, RecordPve, Local, external, admin, At, Goto
  <1>20. CASE IntendNetBox
    BY <1>20
       DEF OnceInv, PhaseInv, Absent, IntendNetBox, Local, external, admin, At,
           Goto
  <1>21. CASE DeleteNetBox
    BY <1>21 DEF OnceInv, PhaseInv, Absent, DeleteNetBox, admin, At, Goto
  <1>22. CASE RecordNetBox
    BY <1>22, OneColumn
       DEF OnceInv, PhaseInv, Absent, RecordNetBox, Local, external, admin, At,
           Goto
  <1>23. CASE Succeed
    BY <1>23
       DEF OnceInv, PhaseInv, Absent, Succeed, FinishAs, Life!EndRetire,
           external, admin, At, Goto
  <1>24. CASE Fail
    BY <1>24
       DEF OnceInv, PhaseInv, Absent, Fail, FinishAs, Life!EndRetire, external,
           admin, Spend, Goto
  <1>25. CASE Crash
    BY <1>25 DEF OnceInv, PhaseInv, Absent, Crash, external, admin, Spend, At, Goto
  <1>26. ASSUME NEW i \in Backup, BackupEnds(i) PROVE OnceInv'
    BY <1>26 DEF OnceInv, PhaseInv, Absent, BackupEnds, admin, Spend
  <1>27. ASSUME NEW c \in Cleaner, CleanupReads(c) PROVE OnceInv'
    BY <1>27 DEF OnceInv, PhaseInv, Absent, CleanupReads, external, admin
  <1>28. ASSUME NEW c \in Cleaner, CleanupDeletes(c) PROVE OnceInv'
    BY <1>28 DEF OnceInv, PhaseInv, Absent, CleanupDeletes, admin
  <1>29. ASSUME NEW c \in Cleaner, CleanupRecords(c) PROVE OnceInv'
    BY <1>29, OneColumn DEF OnceInv, PhaseInv, Absent, CleanupRecords, external, admin
  <1>30. ASSUME NEW c \in Cleaner, CleanupCrashes(c) PROVE OnceInv'
    BY <1>30 DEF OnceInv, PhaseInv, Absent, CleanupCrashes, external, admin, Spend
  <1>31. ASSUME NEW c \in Cleaner, CleanupVerifies(c) PROVE OnceInv'
    BY <1>31 DEF OnceInv, PhaseInv, Absent, CleanupVerifies, external, admin
  <1>32. ASSUME NEW c \in Cleaner, CleanupIntends(c) PROVE OnceInv'
    BY <1>32 DEF OnceInv, PhaseInv, Absent, CleanupIntends, external, admin
  <1>33. CASE Unanswered
    BY <1>33 DEF OnceInv, Unanswered, Starts, Life!EndRetire, admin, Spend, At, Goto
  <1> QED
    BY <1>1, <1>2, <1>3, <1>4, <1>5, <1>6, <1>7, <1>8, <1>9, <1>10,
       <1>11, <1>12, <1>13, <1>14, <1>15, <1>16, <1>17, <1>18, <1>19, <1>20,
       <1>21, <1>22, <1>23, <1>24, <1>25, <1>26, <1>27, <1>28, <1>29, <1>30,
       <1>31, <1>32, <1>33
    DEF Next, OtherJobs, WorkerStep, CleanupWorks

\* A second task costs a fault.
LEMMA StartStep ==
    ASSUME TypeOK, StartInv, Next
    PROVE  StartInv'
  <1>1. CASE Elsewhere
    BY <1>1, OthersKeep DEF StartInv, TasksAreFew
  <1>2. CASE Reactivate
    BY <1>2, RetirementAssumption
       DEF StartInv, TasksAreFew, Reactivate, Life!Activate, admin, TypeOK, Period, Absent
  <1>3. CASE QueueRetirement
    BY <1>3
       DEF StartInv, TasksAreFew, QueueRetirement, OnlyLife, Life!QueueRetirement,
           external
  <1>4. CASE GuestJobEnds
    BY <1>4, OthersKeep DEF StartInv, TasksAreFew
  <1>5. CASE Clone
    BY <1>5, RetirementAssumption
       DEF StartInv, TasksAreFew, Clone, external, admin, TypeOK, Period, Absent
  <1>6. CASE ProvisionSucceeds
    BY <1>6, OneColumn
       DEF StartInv, TasksAreFew, ProvisionSucceeds, Life!EndProvision, external, admin
  <1>7. CASE ProvisionFails
    <2>1. \A k \in Backup : k \in Nat
      BY DEF Backup
    <2>2. UNCHANGED <<pc, found, db, task>>
      BY <1>7 DEF ProvisionFails, PhaseInv, Life!EndProvision, Life!Requeue, external
    <2>3. UNCHANGED spent \/ Spend("errors")
      BY <1>7 DEF ProvisionFails
    <2> QED BY <2>1, <2>2, <2>3, Spent DEF StartInv, TasksAreFew
  <1>8. CASE Claim
    BY <1>8 DEF StartInv, TasksAreFew, Claim, Life!ClaimRetire, external, admin, At, Goto
  <1>9. CASE CheckAllocation
    BY <1>9
       DEF StartInv, TasksAreFew, CheckAllocation, FinishAs, Life!EndRetire, external,
           admin, At, Goto
  <1>10. CASE Validate
    BY <1>10 DEF StartInv, TasksAreFew, Validate, Local, external, admin, At, Goto
  <1>11. CASE Find
    BY <1>11 DEF StartInv, TasksAreFew, Find, Local, external, admin, At, Goto
  <1>12. CASE StartBackup
    <2>1. PICK i \in Backup : Starts(i) /\ found' = i
      BY <1>12 DEF StartBackup
    <2>2. pc = "start" /\ pc' = "recordUpid" /\ pve # Absent /\ UNCHANGED <<db, spent>>
      BY <1>12 DEF StartBackup, At, Goto
    <2>3. \A k \in Backup : task[k] # "none" => k <= spent.crashes + spent.errors
      BY <2>2 DEF StartInv
    <2>4. \A k \in Backup : task'[k] # "none" => k <= (spent.crashes + spent.errors) + 1
      BY <2>1, <2>2, <2>3, Spent, NextTask
    <2>5. \A k \in Backup : k \in Nat /\ k # 0
      BY DEF Backup
    <2> QED BY <2>1, <2>2, <2>4, <2>5, Spent DEF StartInv, TasksAreFew
  <1>13. CASE RecordUpid
    BY <1>13, OneColumn
       DEF StartInv, TasksAreFew, RecordUpid, Local, external, admin, At, Goto
  <1>14. CASE WaitForBackup
    BY <1>14 DEF StartInv, TasksAreFew, WaitForBackup, Local, external, admin, At, Goto
  <1>15. CASE FindAgain
    BY <1>15 DEF StartInv, TasksAreFew, FindAgain, Local, external, admin, At, Goto
  <1>16. CASE RecordBackup
    BY <1>16, OneColumn
       DEF StartInv, TasksAreFew, RecordBackup, Local, external, admin, At, Goto
  <1>17. CASE VerifyAndIntend
    BY <1>17 DEF StartInv, TasksAreFew, VerifyAndIntend, Local, external, admin, At, Goto
  <1>18. CASE DeleteGuest
    BY <1>18, RetirementAssumption
       DEF StartInv, TasksAreFew, DeleteGuest, admin, At, Goto, TypeOK, Period, Absent
  <1>19. CASE RecordPve
    BY <1>19, OneColumn
       DEF StartInv, TasksAreFew, RecordPve, Local, external, admin, At, Goto
  <1>20. CASE IntendNetBox
    BY <1>20 DEF StartInv, TasksAreFew, IntendNetBox, Local, external, admin, At, Goto
  <1>21. CASE DeleteNetBox
    BY <1>21 DEF StartInv, TasksAreFew, DeleteNetBox, admin, At, Goto
  <1>22. CASE RecordNetBox
    BY <1>22, OneColumn
       DEF StartInv, TasksAreFew, RecordNetBox, Local, external, admin, At, Goto
  <1>23. CASE Succeed
    BY <1>23
       DEF StartInv, TasksAreFew, Succeed, FinishAs, Life!EndRetire, external, admin, At,
           Goto
  <1>24. CASE Fail
    <2>1. \A k \in Backup : k \in Nat
      BY DEF Backup
    <2>2. /\ pc' = "idle" /\ UNCHANGED <<db, task>>
          /\ pc = "recordUpid" => db.upid # 0 \/ Spend("errors")
          /\ UNCHANGED spent \/ Spend("errors")
      BY <1>24 DEF StartInv, Fail, FinishAs, Refused, Goto, At, external
    <2> QED BY <2>1, <2>2, Spent DEF StartInv, TasksAreFew
  <1>25. CASE Crash
    <2>1. \A k \in Backup : k \in Nat
      BY DEF Backup
    <2>2. pc' = "idle" /\ Spend("crashes") /\ UNCHANGED <<db, task>>
      BY <1>25 DEF Crash, Goto, external
    <2> QED BY <2>1, <2>2, Spent DEF StartInv, TasksAreFew
  <1>26. ASSUME NEW i \in Backup, BackupEnds(i) PROVE StartInv'
    BY <1>26 DEF StartInv, TasksAreFew, BackupEnds, admin, Spend, TypeOK, Faults, Backup
  <1>27. ASSUME NEW c \in Cleaner, CleanupReads(c) PROVE StartInv'
    BY <1>27 DEF StartInv, TasksAreFew, CleanupReads, external, admin
  <1>28. ASSUME NEW c \in Cleaner, CleanupDeletes(c) PROVE StartInv'
    BY <1>28 DEF StartInv, TasksAreFew, CleanupDeletes, admin
  <1>29. ASSUME NEW c \in Cleaner, CleanupRecords(c) PROVE StartInv'
    BY <1>29, OneColumn DEF StartInv, TasksAreFew, CleanupRecords, external, admin
  <1>30. ASSUME NEW c \in Cleaner, CleanupCrashes(c) PROVE StartInv'
    <2>1. \A k \in Backup : k \in Nat
      BY DEF Backup
    <2>2. Spend("crashes") /\ UNCHANGED <<pc, found, db, task>>
      BY <1>30 DEF CleanupCrashes, external
    <2> QED BY <2>1, <2>2, Spent DEF StartInv, TasksAreFew
  <1>31. ASSUME NEW c \in Cleaner, CleanupVerifies(c) PROVE StartInv'
    BY <1>31 DEF StartInv, TasksAreFew, CleanupVerifies, external, admin
  <1>32. ASSUME NEW c \in Cleaner, CleanupIntends(c) PROVE StartInv'
    BY <1>32 DEF StartInv, TasksAreFew, CleanupIntends, external, admin
  <1>33. CASE Unanswered
    <2>5. pc' = "idle" /\ db' = db /\ Spend("errors")
      BY <1>33 DEF Unanswered, Goto
    <2>6. \A k \in Backup : k \in Nat
      BY DEF Backup
    <2>1. /\ pc' = "idle" /\ db' = db /\ Spend("errors")
          /\ \A k \in Backup : k \in Nat
      BY <2>5, <2>6
    <2>2. CASE pc = "delete" /\ task' = task
      BY <2>1, <2>2, Spent DEF StartInv, TasksAreFew
    <2>3. CASE pc = "start" /\ pve # Absent /\ \E i \in Backup : Starts(i)
      <3>1. \A k \in Backup : task[k] # "none" => k <= spent.crashes + spent.errors
        BY <2>3 DEF StartInv
      <3>2. \A k \in Backup : task'[k] # "none" => k <= (spent.crashes + spent.errors) + 1
        BY <2>3, <3>1, Spent, NextTask
      <3> QED BY <2>1, <3>2, Spent DEF StartInv, TasksAreFew
    <2>4. \/ pc = "delete" /\ task' = task
          \/ pc = "start" /\ pve # Absent /\ \E i \in Backup : Starts(i)
      BY <1>33, LostAnswer
    <2> QED BY <2>2, <2>3, <2>4
  <1> QED
    BY <1>1, <1>2, <1>3, <1>4, <1>5, <1>6, <1>7, <1>8, <1>9, <1>10,
       <1>11, <1>12, <1>13, <1>14, <1>15, <1>16, <1>17, <1>18, <1>19, <1>20,
       <1>21, <1>22, <1>23, <1>24, <1>25, <1>26, <1>27, <1>28, <1>29, <1>30,
       <1>31, <1>32, <1>33
    DEF Next, OtherJobs, WorkerStep, CleanupWorks

-----------------------------------------------------------------------------
(* The invariant and what follows from it.                                 *)

\* The initial states satisfy it.
LEMMA InvInit == Init => IInv
  <1> SUFFICES ASSUME Init PROVE IInv
    OBVIOUS
  <1>1. TypeOK
    <2>1. db \in Columns /\ spent \in Faults
      BY RetirementAssumption DEF Init, Columns, Faults
    <2>2. period \in Period /\ pve \in {Absent} \cup Period /\ found \in 0..MaxBackups
      BY RetirementAssumption DEF Init, Period, Absent
    <2>3. /\ task \in [Backup -> TaskStatus] /\ snapshot \in [Backup -> {0} \cup Period]
          /\ cleaner \in [Cleaner -> CleanerSteps]
      BY DEF Init, TaskStatus, CleanerSteps
    <2> QED BY <2>1, <2>2, <2>3 DEF Init, TypeOK, States, Life!States, Steps
  <1>2. PhaseInv /\ OnceInv
    BY DEF Init, PhaseInv, OnceInv
  <1>3. TaskInv
    BY DEF Init, TaskInv, Backup
  <1>4. CleanInv /\ BackupInv
    BY DEF Init, CleanInv, BackupInv, ReleasedOnlyWithoutBackup, RecoverableUntilCleanup
  <1>5. StartInv
    BY DEF Init, StartInv, TasksAreFew
  <1> QED BY <1>1, <1>2, <1>3, <1>4, <1>5 DEF IInv

\* Every step preserves it.
LEMMA InvStep == IInv /\ [Next]_vars => IInv'
  <1> SUFFICES ASSUME IInv, [Next]_vars PROVE IInv'
    OBVIOUS
  <1>1. CASE Next
    BY <1>1, TypeStep, PhaseStep, TaskStep, CleanStep, BackupStep, OnceStep, StartStep
       DEF IInv
  <1>2. CASE UNCHANGED vars
    <2>1. TypeOK' /\ PhaseInv' /\ OnceInv'
      BY <1>2 DEF IInv, vars, TypeOK, PhaseInv, OnceInv
    <2>2. TaskInv' /\ StartInv'
      BY <1>2 DEF IInv, vars, TaskInv, StartInv, TasksAreFew
    <2>3. CleanInv' /\ BackupInv'
      BY <1>2 DEF IInv, vars, CleanInv, BackupInv, ReleasedOnlyWithoutBackup,
                  RecoverableUntilCleanup, BackupIds
    <2> QED BY <2>1, <2>2, <2>3 DEF IInv
  <1> QED BY <1>1, <1>2

\* IInv holds in every state.
THEOREM IInvInvariant == Spec => []IInv
  BY InvInit, InvStep, PTL DEF Spec

\* Every variable keeps its type: the worker's step, the recorded task and backup,
\* and the cleanups'.
THEOREM TypeCorrect == Spec => []TypeOK
  <1>1. IInv => TypeOK
    BY DEF IInv
  <1> QED BY <1>1, IInvInvariant, PTL

\* A deleted guest's backup stays in PBS until a cleanup records its intent.
THEOREM Recoverable == Spec => []RecoverableUntilCleanup
  <1>1. IInv => RecoverableUntilCleanup
    BY DEF IInv, BackupInv
  <1> QED BY <1>1, IInvInvariant, PTL

\* An identity is released only for a retired VM whose backup is gone.
THEOREM ReleasedWithoutBackup == Spec => []ReleasedOnlyWithoutBackup
  <1>1. IInv => ReleasedOnlyWithoutBackup
    BY DEF IInv, CleanInv
  <1> QED BY <1>1, IInvInvariant, PTL

\* A VM retired in its first service period has no guest and no NetBox records.
THEOREM RetiredOnce == Spec => []RetiredOnceIsGone
  <1>1. IInv => RetiredOnceIsGone
    BY DEF IInv, CleanInv, PhaseInv, OnceInv, RetiredOnceIsGone, RetiredIsGone
  <1> QED BY <1>1, IInvInvariant, PTL

\* Only lost workers and lost answers lead to a second vzdump task.
THEOREM FewTasks == Spec => []TasksAreFew
  <1>1. IInv => TasksAreFew
    BY DEF IInv, StartInv
  <1> QED BY <1>1, IInvInvariant, PTL

-----------------------------------------------------------------------------
(* What a deletion finds.                                                  *)

\* Only at "delete" is a guest taken away.
LEMMA OnlyAtDelete ==
    ASSUME TypeOK, Next, Deleting
    PROVE  pc = "delete"
  <1>1. ASSUME OtherJobs PROVE FALSE
    BY <1>1, RetirementAssumption, OthersKeep
       DEF TypeOK, Period, Deleting, Absent, OtherJobs, Reactivate, Clone,
           ProvisionSucceeds, ProvisionFails, external, admin
  <1>2. ASSUME QueueRetirement \/ Claim \/ Crash PROVE FALSE
    BY <1>2 DEF Deleting, QueueRetirement, OnlyLife, Claim, Crash, external
  <1>3. ASSUME CheckAllocation \/ Succeed \/ Fail PROVE FALSE
    BY <1>3 DEF Deleting, CheckAllocation, Succeed, Fail, FinishAs, external
  <1>4. ASSUME \/ Validate \/ Find \/ RecordUpid \/ WaitForBackup \/ FindAgain \/ RecordBackup
               \/ VerifyAndIntend \/ RecordPve \/ IntendNetBox \/ RecordNetBox
        PROVE  FALSE
    BY <1>4
       DEF Deleting, Validate, Find, RecordUpid, WaitForBackup, FindAgain,
           RecordBackup,
       VerifyAndIntend, RecordPve, IntendNetBox, RecordNetBox, Local, external
  <1>5. ASSUME StartBackup \/ DeleteNetBox PROVE FALSE
    BY <1>5 DEF Deleting, StartBackup, Starts, DeleteNetBox
  <1>6. ASSUME NEW i \in Backup, BackupEnds(i) PROVE FALSE
    BY <1>6 DEF Deleting, BackupEnds
  <1>7. ASSUME NEW c \in Cleaner,
               CleanupReads(c) \/ CleanupWorks(c) \/ CleanupCrashes(c)
        PROVE  FALSE
    BY <1>7
       DEF Deleting, CleanupReads, CleanupWorks, CleanupVerifies, CleanupIntends,
           CleanupDeletes, CleanupRecords, CleanupCrashes, external
  <1>8. CASE DeleteGuest \/ Unanswered
    BY <1>8 DEF Deleting, DeleteGuest, Unanswered, At
  <1> QED BY <1>1, <1>2, <1>3, <1>4, <1>5, <1>6, <1>7, <1>8 DEF Next, WorkerStep

\* The guest is deleted only with its intent on record and its backup in PBS.
THEOREM DeletedWithBackup == Spec => DeleteOnlyWithBackup
  <1>1. IInv /\ [Next]_vars => [Deleting => /\ db.volume \in BackupIds
                                           /\ "Proxmox Retirement Intent" \in events]_vars
    <2> SUFFICES ASSUME IInv, Next, Deleting
                 PROVE  db.volume \in BackupIds /\ "Proxmox Retirement Intent" \in events
      OBVIOUS
    <2>1. pc = "delete"
      BY OnlyAtDelete DEF IInv
    <2> QED BY <2>1 DEF IInv, BackupInv
  <1> QED BY <1>1, IInvInvariant, PTL DEF Spec, DeleteOnlyWithBackup
=============================================================================
