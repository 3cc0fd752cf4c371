----------------------------- MODULE GuestSync ------------------------------
(***************************************************************************)
(* How the guest of one VM is kept in step with its allocation's users and *)
(* the administrator's guest policy: the Provision job that first applies  *)
(* both, Reconcile and Patch jobs, the helpers they run in the guest, and  *)
(* what ColdFront records of all this.  The desired state changes at any   *)
(* time; a job works with the users and the policy it once read.           *)
(*                                                                         *)
(* The allocation is Active, or ends and is activated again in one step:   *)
(* QueueProvision, or ProvisionAnew when its retirement had destroyed the  *)
(* guest.  Its end and retirement are in VMJobs and Retirement; VMJobs     *)
(* also proves what is assumed here, that a VM has one open job at a time. *)
(***************************************************************************)
EXTENDS GuestHelper

CONSTANTS
    Switchings,   \* values the switches may take, sets of AllSwitches elements
    MaxAttempts,  \* claims a job may consume (3 in the source)
    MaxEdits,     \* bound: changes of the desired state
    MaxPatches,   \* bound: Patch jobs
    MaxFaults     \* bound: deaths, failed or abandoned helpers, lost callbacks

Component   == {"access", "policy"}
AllSwitches == Component \cup {"membership", "patch"}

ASSUME SwitchingsAssumption == Switchings \subseteq SUBSET AllSwitches
ASSUME AttemptsAssumption == MaxAttempts \in Nat \ {0}
ASSUME BoundsAssumption == MaxEdits \in Nat /\ MaxPatches \in Nat /\ MaxFaults \in Nat

VARIABLES
    site,     \* desired users, managed files, policy columns, and the switches
    vm,       \* VirtualMachine columns: what was applied, and errors
    job,      \* the open ProvisioningJob
    worker,   \* the process that claimed it
    helper,   \* the helper the worker waits for
    orphan,   \* a running helper whose worker no longer waits for it
    pending,  \* calls of safe_queue_access_reconciliation to come: Callback, SecondLook
    history,  \* of the model only: why the recorded state may be untrue or stale
    spent     \* use of the bounds

vars == <<guest, site, vm, job, worker, helper, orphan, pending, history, spent>>
db   == <<vm, job>>

Action == {"Provision", "Reconcile", "Patch"}
NoJob  == [status |-> "None"]
Idle   == [step |-> "idle"]
Open   == job # NoJob

Callback   == "after a membership change"
SecondLook == "after a job"
On     == Component \cap site.switches

NewJob(a, needs) == [status |-> "Queued", action |-> a, needs |-> needs, attempts |-> 0]

\* render_guest_policy(configuration, vm, users, apply_updates=False), now.
Render(u) == [files |-> site.files, fields |-> site.fields, users |-> u]

Init ==
    /\ site \in [users : Users, files : Files, fields : Fields, switches : Switchings]
    /\ guest = NewGuest
    /\ vm = [state |-> "Queued", node |-> "unset", applied |-> NoUsers, digest |-> Nothing,
             errors |-> {}, failed |-> FALSE]
    /\ job = NoJob
    /\ worker = Idle
    /\ helper = NoHelper /\ orphan = NoHelper
    /\ pending = {}
    /\ history = [unseen |-> {}, overlapped |-> {}, dropped |-> {}, recloned |-> {},
                  halted |-> FALSE, unlisted |-> FALSE, refiled |-> FALSE]
    /\ spent = [edits |-> 0, patches |-> 0, faults |-> 0]

Fault == spent.faults < MaxFaults /\ spent' = [spent EXCEPT !.faults = @ + 1]

-----------------------------------------------------------------------------
(* The desired state.  Only membership rows raise a callback: a policy edit *)
(* or a deactivated user account is seen when something looks.              *)

Edit == spent.edits < MaxEdits /\ spent' = [spent EXCEPT !.edits = @ + 1]

ChangeMembership ==
    /\ Edit
    /\ \E u \in Users \ {site.users} : site' = [site EXCEPT !.users = u]
    /\ pending' = pending \cup {Callback}
    /\ UNCHANGED <<guest, db, worker, helper, orphan, history>>

EditUnannounced ==
    /\ Edit
    /\ \/ \E u \in Users    : site' = [site EXCEPT !.users = u]
       \/ \E f \in Files    : site' = [site EXCEPT !.files = f]
       \/ \E f \in Fields   : site' = [site EXCEPT !.fields = f]
       \/ \E s \in Switchings : site' = [site EXCEPT !.switches = s]
    /\ site' # site
    /\ history' = [history EXCEPT !.unseen = Component]
    /\ UNCHANGED <<guest, db, worker, helper, orphan, pending>>

-----------------------------------------------------------------------------
(* services.py: looking for drift.                                         *)

Drifted == {k \in Component :
              \/ k \in vm.errors
              \/ k = "access" /\ vm.applied # site.users
              \/ k = "policy" /\ vm.digest # Render(site.users)}

\* create_access_reconciliation_job.  An open Reconcile job is returned as it is,
\* an open Patch job leaves it to the look that follows it, and a VM that is queued
\* or being provisioned is refused, but not one that failed to provision.
Look(asked) ==
    /\ job' = IF vm.state # "Queued" /\ ~Open /\ asked \cap Drifted # {}
              THEN NewJob("Reconcile", asked \cap Drifted) ELSE job
    /\ history' = [history EXCEPT !.unseen = Component \ asked]

\* safe_queue_access_reconciliation, on commit of a membership change or after a job.
RunPending(c) ==
    /\ c \in pending /\ pending' = pending \ {c}
    /\ Look(IF c = SecondLook \/ "membership" \in site.switches THEN On
            ELSE On \cap {"access"})
    /\ UNCHANGED <<guest, site, vm, worker, helper, orphan, spent>>

\* It raises, or its process dies.
LosePending(c) ==
    /\ c \in pending /\ pending' = pending \ {c} /\ Fault
    /\ history' = [history EXCEPT !.unseen = Component]
    /\ UNCHANGED <<guest, site, db, worker, helper, orphan>>

\* sync_pve_access
SyncCommand ==
    /\ Look(On)
    /\ UNCHANGED <<guest, site, vm, worker, helper, orphan, pending, spent>>

\* Approval, and queue_pve_vm after a failure.  An Active VM gets a Provision job
\* when its allocation ends and is activated again, and from a transaction that
\* read it before a guest job made it Active.
QueueProvision ==
    /\ ~Open
    /\ IF vm.state = "Active" THEN Edit ELSE UNCHANGED spent
    /\ job' = NewJob("Provision", Component)
    /\ vm' = [vm EXCEPT !.state = "Queued"]
    /\ UNCHANGED <<guest, site, worker, helper, orphan, pending, history>>

\* The same after a Retire job destroyed the guest and the allocation was activated
\* again: ensure_vm clones a new one, while the columns tell of the old.
ProvisionAnew ==
    /\ ~Open /\ vm.node = "exact" /\ Edit
    /\ job' = NewJob("Provision", Component)
    /\ vm' = [vm EXCEPT !.state = "Queued", !.node = "stale"]
    /\ guest' = NewGuest /\ orphan' = NoHelper
    /\ history' = [history EXCEPT !.recloned = Component, !.halted = FALSE,
                                  !.unlisted = FALSE]
    /\ UNCHANGED <<site, worker, helper, pending>>

\* create_guest_patch_job, by patch_pve_vm or queue_due_guest_patch_jobs.
QueuePatch ==
    /\ vm.state = "Active" /\ ~Open
    /\ {"policy", "patch"} \subseteq site.switches
    /\ spent.patches < MaxPatches /\ spent' = [spent EXCEPT !.patches = @ + 1]
    /\ job' = NewJob("Patch", {"policy"})
    /\ UNCHANGED <<guest, site, vm, worker, helper, orphan, pending, history>>

-----------------------------------------------------------------------------
(* tasks.py: the worker.  Its helper runs in the guest while it waits.     *)

Wait(k) == /\ worker.step = "wait" /\ helper.kind = k

\* dispatch_queued_jobs and the broker deliver a queued job.
Claim ==
    /\ Open /\ job.status = "Queued" /\ worker = Idle
    /\ job' = [job EXCEPT !.status = "Running", !.attempts = @ + 1]
    /\ worker' = [step |-> "claimed"]
    /\ UNCHANGED <<guest, site, vm, helper, orphan, pending, history, spent>>

\* What the job asks for and the switches still allow.  A Provision job has no
\* metadata; a Patch job is refused unless patching is still switched on.
Asked == IF job.action = "Patch"
         THEN IF {"policy", "patch"} \subseteq site.switches THEN {"policy"} ELSE {}
         ELSE job.needs \cap On

\* Components left out now that an earlier attempt may have begun.
Drop == history' = [history EXCEPT !.dropped =
          IF job.attempts > 1 THEN @ \cup (job.needs \ Asked) ELSE @]

\* A guest job goes on only with the exact guest of an Active VM.
Ready == \/ job.action = "Provision"
         \/ vm.state = "Active" /\ vm.node = "exact" /\ Asked # {}

\* The configuration is read once.
Begin ==
    /\ worker.step = "claimed" /\ Ready
    /\ worker' = [step |-> "asked", users |-> NoUsers, asked |-> Asked,
                  todo |-> Asked, bad |-> {}]
    /\ Drop
    /\ UNCHANGED <<guest, site, db, helper, orphan, pending, spent>>

\* The users are read once too, later, before the first helper starts.
ReadUsers ==
    /\ worker.step = "asked"
    /\ worker' = [worker EXCEPT !.step = "next", !.users = site.users]
    /\ UNCHANGED <<guest, site, db, helper, orphan, pending, history, spent>>

\* _finish_guest_job: the VM becomes Active whatever it was; a look follows.
EndGuestJob(failed, errors, look) ==
    /\ job' = NoJob
    /\ vm' = [vm EXCEPT !.state = "Active", !.failed = failed, !.errors = errors]
    /\ worker' = Idle
    /\ pending' = IF look THEN pending \cup {SecondLook} ELSE pending

\* Mistake: every refusal is followed by a look.
RefuseLooking ==
    /\ worker.step = "claimed" /\ job.action # "Provision"
    /\ IF Ready THEN Fault ELSE UNCHANGED spent
    /\ EndGuestJob(TRUE,
                   vm.errors \cup IF job.action = "Patch" THEN {"policy"} ELSE Asked, TRUE)
    /\ Drop
    /\ UNCHANGED <<guest, site, helper, orphan>>

\* Refused: nothing is switched on any more, the VM is not Active, the gate is
\* closed, or require_exact_vm fails, as it does without a recorded node or with
\* the guest on another one.
Refuse ==
    /\ worker.step = "claimed" /\ job.action # "Provision"
    /\ IF Ready THEN Fault ELSE UNCHANGED spent
    /\ EndGuestJob(TRUE,
                   vm.errors \cup IF job.action = "Patch" THEN {"policy"} ELSE Asked,
                   job.action = "Patch" \/ (vm.state = "Active" /\ Asked = {}))
    /\ Drop
    /\ UNCHANGED <<guest, site, helper, orphan>>

\* Provisioning applies the policy first, reconciliation the accounts first.
NextComponent ==
    CASE worker.todo = Component -> IF job.action = "Provision" THEN "policy" ELSE "access"
      [] OTHER -> CHOOSE k \in worker.todo : TRUE

\* guest_exec starts a helper with the users read before and the policy of now.
Call ==
    /\ worker.step = "next" /\ worker.todo # {}
    /\ LET k == NextComponent IN
         /\ helper' = IF k = "access" THEN AccessHelper(worker.users)
                      ELSE PolicyHelper(Render(worker.users), job.action = "Patch")
         /\ history' = [history EXCEPT
              !.overlapped = IF Running(orphan) /\ orphan.kind = k THEN @ \cup {k} ELSE @ \ {k}]
    /\ worker' = [worker EXCEPT !.step = "wait"]
    /\ UNCHANGED <<guest, site, db, orphan, pending, spent>>

\* The unit is reloaded, or passed over by a run that changed something.
NoteUnits(h) ==
    history' = [history EXCEPT
        !.halted   = @ /\ ~Reloads(h),
        !.unlisted = ~Reloads(h) /\ (@ \/ (h.stage = "units" /\ h.changed))]

HelperWorks ==
    /\ Running(helper)
    /\ helper' = AfterStage(helper)
    /\ guest' = GuestAfterStage(helper)
    /\ NoteUnits(helper)
    /\ UNCHANGED <<site, db, worker, orphan, pending, spent>>

\* A fixed command of the helper fails, before or after its effect.
HelperFails ==
    /\ Running(helper) /\ Fault
    /\ helper' = [helper EXCEPT !.stage = "failed"]
    /\ guest' \in {guest, GuestAfterStage(helper)}
    /\ history' = [history EXCEPT !.halted = @ \/ helper.kind = "policy"]
    /\ UNCHANGED <<site, db, worker, orphan, pending>>

\* guest_exec gives up waiting; nothing stops the helper.
WaitEnds ==
    /\ Running(helper) /\ orphan = NoHelper /\ Fault
    /\ orphan' = helper
    /\ helper' = [helper EXCEPT !.stage = "failed"]
    /\ UNCHANGED <<guest, site, db, worker, pending, history>>

OrphanWorks ==
    /\ Running(orphan)
    /\ LET h == AfterStage(orphan) IN orphan' = IF Running(h) THEN h ELSE NoHelper
    /\ guest' = GuestAfterStage(orphan)
    /\ NoteUnits(orphan)
    /\ UNCHANGED <<site, db, worker, helper, pending, spent>>

Done(k) == [worker EXCEPT !.step = "next", !.todo = @ \ {k}]

\* Mistake: what is recorded is the users of this moment.
RecordAccessFresh ==
    /\ Wait("access") /\ helper.stage = "done"
    /\ vm' = [vm EXCEPT !.applied = site.users, !.errors = @ \ {"access"}]
    /\ worker' = Done("access")
    /\ history' = [history EXCEPT !.dropped = @ \ {"access"}, !.recloned = @ \ {"access"}]
    /\ helper' = NoHelper
    /\ UNCHANGED <<guest, site, job, orphan, pending, spent>>

\* _record_access_sync
RecordAccess ==
    /\ Wait("access") /\ helper.stage = "done"
    /\ vm' = [vm EXCEPT !.applied = helper.users, !.errors = @ \ {"access"}]
    /\ worker' = Done("access")
    /\ history' = [history EXCEPT !.dropped = @ \ {"access"}, !.recloned = @ \ {"access"}]
    /\ helper' = NoHelper
    /\ UNCHANGED <<guest, site, job, orphan, pending, spent>>

\* _record_guest_policy_sync.  After a Patch the digest is rendered again: from
\* the columns read before, but from the managed files of this moment.
RecordPolicy ==
    /\ Wait("policy") /\ helper.stage = "done"
    /\ LET digest == IF helper.updates THEN [helper.payload EXCEPT !.files = site.files]
                     ELSE helper.payload
       IN  /\ vm' = [vm EXCEPT !.digest = digest, !.errors = @ \ {"policy"}]
           /\ history' = [history EXCEPT !.dropped = @ \ {"policy"},
                                         !.recloned = @ \ {"policy"},
                                         !.refiled = digest # helper.payload]
    /\ worker' = Done("policy")
    /\ helper' = NoHelper
    /\ UNCHANGED <<guest, site, job, orphan, pending, spent>>

\* A component failed; the other one of a Reconcile job is still run.
NoteFailure ==
    /\ worker.step = "wait" /\ helper.stage = "failed" /\ job.action # "Provision"
    /\ worker' = [Done(helper.kind) EXCEPT !.bad = @ \cup {helper.kind}]
    /\ helper' = NoHelper
    /\ UNCHANGED <<guest, site, db, orphan, pending, history, spent>>

\* What this job may have begun and has not recorded.
Begun == IF worker.step \in {"next", "wait"} THEN worker.todo
         ELSE IF job.attempts > 1 THEN job.needs ELSE {}

\* A helper, or a step before or after it, fails: _schedule_transient_retry, or
\* Failed, without an error for any component.  By then a new guest may have been
\* cloned on the node recorded for the old one.
ProvisionFails ==
    /\ \/ worker.step \in {"claimed", "asked", "next"} /\ Fault
       \/ worker.step = "wait" /\ helper.stage = "failed" /\ UNCHANGED spent
    /\ job.action = "Provision"
    /\ \E node \in {vm.node, IF vm.node = "stale" THEN "exact" ELSE vm.node} :
         \/ /\ job.attempts < MaxAttempts
            /\ job' = [job EXCEPT !.status = "Queued"]
            /\ vm' = [vm EXCEPT !.failed = TRUE, !.node = node]
            /\ UNCHANGED history
         \/ /\ job' = NoJob
            /\ vm' = [vm EXCEPT !.failed = TRUE, !.state = "Failed", !.node = node]
            /\ history' = [history EXCEPT !.dropped = @ \cup Begun]
    /\ worker' = Idle
    /\ helper' = NoHelper
    /\ UNCHANGED <<guest, site, orphan, pending>>

Finished == worker.step = "next" /\ worker.todo = {}

\* _finish leaves the component errors alone.
ProvisionSucceeds ==
    /\ Finished /\ job.action = "Provision"
    /\ job' = NoJob
    /\ vm' = [vm EXCEPT !.state = "Active", !.node = "exact", !.failed = FALSE]
    /\ worker' = Idle
    /\ pending' = pending \cup {SecondLook}
    /\ UNCHANGED <<guest, site, helper, orphan, history, spent>>

\* Mistake: only a Patch job is followed by a look.
FinishBlindly ==
    /\ Finished /\ job.action # "Provision"
    /\ EndGuestJob(worker.bad # {}, (vm.errors \ worker.asked) \cup worker.bad,
                   job.action = "Patch")
    /\ UNCHANGED <<guest, site, helper, orphan, history, spent>>

\* With an error, only a Patch job is followed by a look.
FinishGuestJob ==
    /\ Finished /\ job.action # "Provision"
    /\ EndGuestJob(worker.bad # {}, (vm.errors \ worker.asked) \cup worker.bad,
                   job.action = "Patch" \/ worker.bad = {})
    /\ UNCHANGED <<guest, site, helper, orphan, history, spent>>

\* The worker dies; its helper goes on.
WorkerDies ==
    /\ worker # Idle /\ worker' = Idle /\ Fault
    /\ Running(helper) => orphan = NoHelper
    /\ orphan' = IF Running(helper) THEN helper ELSE orphan
    /\ helper' = NoHelper
    /\ UNCHANGED <<guest, site, db, pending, history>>

\* Mistake: the reclaim counts the lost attempt once more.
ReclaimCounting ==
    /\ Open /\ job.status = "Running" /\ worker = Idle /\ job.attempts < MaxAttempts
    /\ job' = [job EXCEPT !.status = "Queued", !.attempts = @ + 1]
    /\ UNCHANGED <<guest, site, vm, worker, helper, orphan, pending, history, spent>>

\* dispatch_queued_jobs reclaims the claim of a dead worker.
Reclaim ==
    /\ Open /\ job.status = "Running" /\ worker = Idle /\ job.attempts < MaxAttempts
    /\ job' = [job EXCEPT !.status = "Queued"]
    /\ UNCHANGED <<guest, site, vm, worker, helper, orphan, pending, history, spent>>

WorkerStep ==
    \/ Begin \/ ReadUsers \/ Refuse \/ Call \/ RecordAccess \/ RecordPolicy \/ NoteFailure
    \/ ProvisionFails \/ ProvisionSucceeds \/ FinishGuestJob

Next ==
    \/ ChangeMembership \/ EditUnannounced
    \/ \E c \in {Callback, SecondLook} : RunPending(c) \/ LosePending(c)
    \/ SyncCommand \/ QueueProvision \/ ProvisionAnew \/ QueuePatch
    \/ Claim \/ WorkerStep \/ WorkerDies \/ Reclaim
    \/ HelperWorks \/ HelperFails \/ WaitEnds \/ OrphanWorks

Spec == Init /\ [][Next]_vars

\* The dispatcher and the callbacks run, live workers and helpers proceed.
Fairness ==
    /\ WF_vars(Claim) /\ WF_vars(Reclaim)
    /\ WF_vars(RunPending(Callback)) /\ WF_vars(RunPending(SecondLook))
    /\ WF_vars(WorkerStep) /\ WF_vars(HelperWorks) /\ WF_vars(OrphanWorks)

FairSpec == Spec /\ Fairness
-----------------------------------------------------------------------------
Jobs    == [status : {"Queued", "Running"}, action : Action, needs : SUBSET Component,
            attempts : 0..MaxAttempts]
Working == [step : {"asked", "next", "wait"}, users : Users, asked : SUBSET Component,
            todo : SUBSET Component, bad : SUBSET Component]
Columns == [state : {"Queued", "Active", "Failed"},
            node : {"unset", "stale", "exact"},   \* target_node: is the guest there?
            applied : Users, digest : Manifest \cup {Nothing},
            errors : SUBSET Component, failed : BOOLEAN]
Notes   == [unseen : SUBSET Component, overlapped : SUBSET Component,
            dropped : SUBSET Component, recloned : SUBSET Component,
            halted : BOOLEAN, unlisted : BOOLEAN, refiled : BOOLEAN]
Sites    == [users : Users, files : Files, fields : Fields, switches : Switchings]
Expenses == [edits : 0..MaxEdits, patches : 0..MaxPatches, faults : 0..MaxFaults]

TypeOK ==
    /\ guest \in Guest
    /\ site \in Sites
    /\ vm \in Columns
    /\ job \in Jobs \cup {NoJob}
    /\ worker \in Working \cup {Idle, [step |-> "claimed"]}
    /\ helper \in Helper \cup {NoHelper}
    /\ orphan \in {h \in Helper : Running(h)} \cup {NoHelper}
    /\ pending \subseteq {Callback, SecondLook}
    /\ history \in Notes
    /\ spent \in Expenses

\* access_applied_users is [] by default: a guest never given a user list counts
\* as given the empty one.
Accounts == IF guest.accounts = Nothing THEN NoUsers ELSE guest.accounts

\* Components of which the recorded state may be untrue.
Untrue == history.overlapped \cup history.dropped \cup history.recloned

\* The users and the policy digest ColdFront shows without an error are what the
\* guest was really given, although users, files and policy change during every
\* helper run, helpers fail half-way and a guest is provisioned again (tasks.py,
\* _apply_guest_policy and _record_access_sync).  Five cases are excluded, each a
\* weakness of the code: two helpers of a component ran at once, a retried job
\* skipped a component switched off meanwhile, a Provision job failed for good
\* with a component begun, the guest was destroyed and cloned again while the
\* columns told of the old one, or managed files were edited during a Patch.
RecordedIsReal ==
    ~Open =>
        /\ "access" \notin vm.errors \cup Untrue => vm.applied = Accounts
        /\ "policy" \notin vm.errors \cup Untrue /\ ~history.refiled
              => vm.digest = guest.policy

Wanted(k) == IF k = "access" THEN Accounts = site.users
             ELSE guest.policy = Render(site.users)

\* docs/ARCHITECTURE.md: drift and membership changes create durable Reconcile
\* jobs.  At rest, with no error on the VM, each component that is switched on is
\* as wanted now, unless the last change was never announced or its callback lost,
\* or what is recorded is untrue.  It takes the look after each job: a membership
\* change during a job finds that job open, or the VM not yet active, and queues
\* nothing.
NoSilentDrift ==
    vm.state = "Active" /\ ~Open /\ pending = {} /\ ~vm.failed =>
        \A k \in On \ (history.unseen \cup Untrue) :
            Wanted(k) \/ (k = "policy" /\ history.refiled)

\* docs/GUEST-POLICY.md: file changes also reload the units.  A unit lags behind the
\* files only while a helper is between the two; after one failed there, because
\* the next run finds the files unchanged and reloads nothing; or after files
\* changed under a policy that did not name the unit, even if one does by now.
UnitsServeFiles ==
    \/ guest.loaded = Content(guest.policy)
    \/ history.halted \/ history.unlisted
    \/ \E h \in {helper, orphan} : h.stage = "units" /\ h.changed

\* Nobody looks or works any more, or the job's last worker died.
AtRest == ~Open /\ pending = {}
Wedged == Open /\ job.status = "Running" /\ job.attempts = MaxAttempts /\ worker = Idle

\* Looks and jobs do not chase each other for ever, although a look follows every
\* success and every Patch: maintenance comes to rest again and again, where
\* NoSilentDrift says what the guest is.
Settles == []<>(AtRest \/ Wedged)
=============================================================================
