--------------------------- MODULE BackupCleanup ----------------------------
(***************************************************************************)
(* The identity pool of a site together with the one schedule that gives   *)
(* identities back: cleanup_expired_retirement_backups takes the VMs whose *)
(* retention has ended in the order of their expiry and, one after the     *)
(* other, deletes the backup and releases the identity.  A VM whose backup *)
(* is not in PBS although no cleanup began to delete it raises out of the  *)
(* loop: the rest of the run is lost, and so is that of every later run.   *)
(*                                                                         *)
(* One VM's part is atomic here, but for a run that dies within it; module *)
(* Retirement has its steps and overlapping runs.  Retention has ended for *)
(* every retired VM.                                                       *)
(***************************************************************************)
EXTENDS IdentityPool, SequencesExt

CONSTANT MaxFaults   \* bound: backups that vanish from PBS, runs that die

ASSUME FaultsAssumption == MaxFaults \in Nat

VARIABLES
    queue,     \* retired VMs in the order of retirement_backup_expires_at
    due,       \* those the current run has still to visit
    backup,    \* of a VM's retirement: "none" taken, "kept" in PBS, or "gone"
    intended,  \* VMs with the event Retirement Backup Cleanup Intent
    faults     \* at most MaxFaults

cleanup  == <<queue, due, backup, intended, faults>>
siteVars == <<vars, cleanup>>

SiteInit ==
    /\ Init
    /\ queue = <<>> /\ due = <<>>
    /\ backup = [a \in Allocation |-> "none"] /\ intended = {}
    /\ faults = 0

Fault == faults < MaxFaults /\ faults' = faults + 1

Reservations ==
    /\ \E a \in Allocation : \/ BeginReserve(a) \/ LockPool(a) \/ ReadUsed(a)
                             \/ Insert(a) \/ Refuse(a) \/ Abort(a)
    /\ UNCHANGED cleanup

\* _finish as Retired.  The retention period is frozen with the first VM, so VMs
\* expire in the order they are retired in.  A VM that is retired again expires
\* anew and keeps the backup on record: its pve_deleted_at is set, no other is taken.
RetireVm(a) ==
    /\ Retire(a)
    /\ queue' = Append(queue, a)
    /\ backup' = [backup EXCEPT ![a] = IF @ = "none" THEN "kept" ELSE @]
    /\ UNCHANGED <<due, intended, faults>>

\* The transaction that queues a VM just Retired does not outlast the retention,
\* of days, before which no run visits the VM.
RequeueVm(a) ==
    /\ Requeue(a)
    /\ a \notin Range(due) \cup intended
    /\ queue' = Remove(queue, a)
    /\ UNCHANGED <<due, backup, intended, faults>>

\* Someone prunes a backup in PBS.
LoseBackup(a) ==
    /\ backup[a] = "kept" /\ backup' = [backup EXCEPT ![a] = "gone"]
    /\ Fault
    /\ UNCHANGED <<vars, queue, due, intended>>

\* Mistake: the VM whose backup expires last comes first.
LatestFirst == Reverse(queue)

\* The query of a run, evaluated once.
ExpiryOrder == queue

RunBegins ==
    /\ due = <<>> /\ queue # <<>>
    /\ due' = ExpiryOrder
    /\ UNCHANGED <<vars, queue, backup, intended, faults>>

\* An absent backup is tolerated once an earlier run recorded its intent.
Deletable(a) == backup[a] = "kept" \/ a \in intended

CleanNext(a) ==
    /\ due # <<>> /\ a = Head(due) /\ Deletable(a)
    /\ Release(a)
    /\ queue' = Remove(queue, a)
    /\ backup' = [backup EXCEPT ![a] = "gone"]
    /\ intended' = intended \cup {a}
    /\ due' = Tail(due)
    /\ UNCHANGED faults

\* require_exact_retirement_backup raises; nothing catches it within the loop.
RunRaises ==
    /\ due # <<>> /\ ~Deletable(Head(due))
    /\ due' = <<>>
    /\ UNCHANGED <<vars, queue, backup, intended, faults>>

\* The process dies, or PVE does not answer, before or after the deletion.
RunDies ==
    /\ due # <<>> /\ Deletable(Head(due)) /\ Fault
    /\ backup' \in {backup, [backup EXCEPT ![Head(due)] = "gone"]}
    /\ intended' = intended \cup {Head(due)}
    /\ due' = <<>>
    /\ UNCHANGED <<vars, queue>>

SiteNext ==
    \/ Reservations
    \/ \E a \in Allocation : RetireVm(a) \/ RequeueVm(a) \/ LoseBackup(a) \/ CleanNext(a)
    \/ RunBegins \/ RunRaises \/ RunDies

SiteSpec == SiteInit /\ [][SiteNext]_siteVars

\* The schedule runs the cleanup every day, and a run proceeds.
SiteFairSpec ==
    /\ SiteSpec /\ Fairness
    /\ WF_siteVars(RunBegins) /\ WF_siteVars(RunRaises)
    /\ \A a \in Allocation : WF_siteVars(CleanNext(a))

-----------------------------------------------------------------------------
\* a waits behind, or is, a VM whose backup is missing.
Starved(a) ==
    \E i, k \in 1..Len(queue) : i <= k /\ queue[k] = a /\ ~Deletable(queue[i])

\* docs/ARCHITECTURE.md: cleanup deletes the backup after retention and releases
\* the identity only after that deletion.  A retired VM that is not queued again
\* has its identity released in the end although runs die at any point, and
\* although VMs that expire later have lost their backups; not, as the code is,
\* when one that expires earlier has.
HeldIsReleased ==
    \A a \in Allocation : row[a].status = "Held" ~> (row[a].status # "Held" \/ Starved(a))
=============================================================================
