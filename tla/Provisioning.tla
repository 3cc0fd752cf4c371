---------------------------- MODULE Provisioning ----------------------------
(***************************************************************************)
(* The Provision job of one VM against Proxmox VE and NetBox: run_job with *)
(* NetBoxClient.ensure_foundation, ensure_reservation and activate,        *)
(* ProxmoxClient.ensure_vm, the guest helpers, and what survives when the  *)
(* worker dies or a call fails between any two of these: half of the       *)
(* NetBox records, a clone still running, a guest without its              *)
(* configuration.  Every later attempt starts from the first step and      *)
(* finds what earlier ones left, and what other VMs' workers created.      *)
(*                                                                         *)
(* One worker at a time (module VMJobs, WorkerHoldsItsJob), with the       *)
(* PVE_PROVISIONER_EXECUTE gate open.  An action is one external call or   *)
(* one transaction; a call whose answer is lost is the call followed by an *)
(* error of the next step.  The event that a call is done is recorded      *)
(* before the next call, whether that succeeds or not.                     *)
(***************************************************************************)
EXTENDS Naturals

CONSTANTS
    Node,            \* configuration.allowed_node_list
    NetBoxEnabled,   \* configuration.netbox_enabled
    GuestManaged,    \* a guest helper runs before the VM becomes active
    MaxAttempts,     \* claims a job may consume (3 in the source)
    MaxJobs,         \* bound: Provision jobs, the first and operators' new ones
    MaxOutages,      \* bound: calls that fail with a transient error
    MaxErrors,       \* bound: calls and clone tasks that fail for good
    MaxCrashes,      \* bound: workers that die
    MaxSlow,         \* bound: waits and claims that a clone outlives
    MaxForeign,      \* bound: guests an administrator creates at the VMID
    MaxErased,       \* bound: times an administrator erases the NetBox records
    MaxRivals,       \* bound: shared records that other VMs' workers create
    NoNode           \* no node

ASSUME ProvisioningAssumption ==
    /\ NetBoxEnabled \in BOOLEAN /\ GuestManaged \in BOOLEAN
    /\ MaxAttempts \in Nat \ {0} /\ MaxJobs \in Nat \ {0}
    /\ MaxOutages \in Nat /\ MaxErrors \in Nat /\ MaxCrashes \in Nat
    /\ MaxSlow \in Nat /\ MaxForeign \in Nat /\ MaxErased \in Nat /\ MaxRivals \in Nat
    /\ NoNode \notin Node

VARIABLES
    state,     \* VirtualMachine.state
    status,    \* status of the current Provision job
    attempts,  \* its attempts
    pc,        \* the step its worker is at
    target,    \* the node the worker has in hand
    guest,     \* what PVE has at the VMID, where, and whether it was configured
    shared,    \* how many of each shared record NetBox has
    need,      \* the shared record the worker is at
    mirror,    \* the NetBox records of the VM; vm and ip count or, for vm, identify
    db,        \* NetBox ids recorded, target_node, and the progress its events show
    spent      \* jobs, failures, crashes, foreign guests, and so on, so far

netbox == <<shared, need, mirror>>
vars == <<state, status, attempts, pc, target, guest, netbox, db, spent>>

States   == {"Queued", "Provisioning", "Active", "Failed"}
Statuses == {"Queued", "Running", "Succeeded", "Failed"}
Steps    == {"idle", "seek", "create", "mirrorVm", "mirrorInterface", "mirrorIp", "mirrorPrimary",
             "recordIds", "find", "clone", "waitClone", "configure", "start", "ssh",
             "guest", "activateIp", "activateVm", "finish"}
Absent   == [what |-> "absent", node |-> NoNode, configured |-> FALSE]

At(step)     == status = "Running" /\ pc = step
Goto(step)   == pc' = step
Spend(what)  == spent' = [spent EXCEPT ![what] = @ + 1]
FirstStep    == IF NetBoxEnabled THEN "seek" ELSE "find"
AfterGuest   == IF NetBoxEnabled THEN "activateIp" ELSE "finish"
Ours         == guest.what \in {"stopped", "running"}
Taken        == guest.what = "foreign" /\ guest.configured

Foundation == 1..3   \* cluster type, cluster, tag

\* A worker's step that leaves its job, the VM row, the bounds and what VMs share alone.
Working == UNCHANGED <<state, status, attempts, db, spent, shared, need>>

\* provisioning_progress: the most advanced milestone among all events so far.
Shown(milestone) == IF milestone > db.shown THEN milestone ELSE db.shown

\* The milestone whose event is recorded before the call of the worker's step.
Due == CASE pc = "find" -> 25
         [] pc = "configure" -> 40
         [] pc = "start" -> 55
         [] pc = "ssh" -> 65
         [] pc = "guest" -> 85
         [] pc = "activateIp" -> IF GuestManaged THEN 92 ELSE 75
         [] OTHER -> 0

Record(milestone) == db' = [db EXCEPT !.shown = Shown(milestone)]

\* Working, after the event due was recorded.
WorkingPast ==
    /\ Record(Due)
    /\ UNCHANGED <<state, status, attempts, spent, shared, need>>

NoMirror == [vm |-> 0, interface |-> 0, ip |-> 0, primary |-> FALSE,
             ipActive |-> FALSE, vmActive |-> FALSE]

Init ==
    /\ state = "Queued" /\ status = "Queued" /\ attempts = 0
    /\ pc = "idle" /\ target = NoNode
    /\ guest = Absent
    /\ shared = [k \in Foundation |-> 0] /\ need = 1
    /\ mirror = NoMirror
    /\ db = [ids |-> 0, node |-> NoNode, shown |-> 10]
    /\ spent = [jobs |-> 1, outages |-> 0, errors |-> 0, crashes |-> 0, slow |-> 0,
                 foreign |-> 0, erased |-> 0, rivals |-> 0, lost |-> 0, half |-> 0]

-----------------------------------------------------------------------------
(* The job: claim, reclaim, a new job, and its ends.                       *)

\* _claim_job.  A clone that an earlier attempt left has mostly ended by then.
Claim ==
    /\ status = "Queued" /\ attempts < MaxAttempts
    /\ \/ guest.what # "cloning" /\ UNCHANGED spent
       \/ guest.what = "cloning" /\ spent.slow < MaxSlow /\ Spend("slow")
    /\ status' = "Running" /\ attempts' = attempts + 1
    /\ state' = "Provisioning"
    /\ Goto(FirstStep) /\ need' = 1
    /\ Record(15)
    /\ UNCHANGED <<target, guest, shared, mirror>>

\* The worker dies, before or after it records the event due;
\* dispatch_queued_jobs queues the stale claim again.
Crash ==
    /\ status = "Running" /\ pc # "idle" /\ spent.crashes < MaxCrashes
    /\ Goto("idle") /\ target' = NoNode
    /\ Spend("crashes")
    /\ Record(Due) \/ UNCHANGED db
    /\ UNCHANGED <<state, status, attempts, guest, netbox>>

Reclaim ==
    /\ At("idle") /\ attempts < MaxAttempts
    /\ status' = "Queued"
    /\ UNCHANGED <<state, attempts, pc, target, guest, netbox, db, spent>>

\* queue_pve_vm after a failure.
QueueAgain ==
    /\ status = "Failed" /\ spent.jobs < MaxJobs
    /\ status' = "Queued" /\ attempts' = 0 /\ state' = "Queued"
    /\ spent' = [spent EXCEPT !.jobs = @ + 1, !.lost = 0]
    /\ UNCHANGED <<pc, target, guest, netbox, db>>

\* run_job's except clause: _schedule_transient_retry, else _finish as Failed.
Fail(transient) ==
    /\ IF transient /\ attempts < MaxAttempts
       THEN status' = "Queued" /\ state' = "Queued"
       ELSE status' = "Failed" /\ state' = "Failed"
    /\ Goto("idle") /\ target' = NoNode
    /\ Record(Due)
    /\ UNCHANGED <<attempts, guest, netbox>>

\* Mistake: activation and success are recorded without the node.
FinishWithoutNode ==
    /\ At("finish")
    /\ status' = "Succeeded" /\ state' = "Active"
    /\ Goto("idle") /\ target' = NoNode
    /\ UNCHANGED <<attempts, guest, netbox, db, spent>>

\* _finish as Active; only here the node is recorded.
Finish ==
    /\ At("finish")
    /\ status' = "Succeeded" /\ state' = "Active"
    /\ db' = [db EXCEPT !.node = target, !.shown = 100]
    /\ Goto("idle") /\ target' = NoNode
    /\ UNCHANGED <<attempts, guest, netbox, spent>>

-----------------------------------------------------------------------------
(* NetBoxClient.ensure_foundation: the records all VMs share, each looked up
   by its name and created when there is none.                              *)

NextNeed ==
    IF need = 3 THEN Goto("mirrorVm") /\ UNCHANGED need
    ELSE Goto("seek") /\ need' = need + 1

Seek ==
    /\ At("seek")
    /\ \/ shared[need] = 0 /\ Goto("create") /\ UNCHANGED need
       \/ shared[need] = 1 /\ NextNeed
    /\ UNCHANGED <<state, status, attempts, target, guest, shared, mirror, db, spent>>

\* one() raises when there are two of them.
SeekRefuses ==
    /\ At("seek") /\ shared[need] > 1
    /\ Fail(FALSE) /\ UNCHANGED spent

\* A second one is created when NetBox does not hold the name to be unique.
Create ==
    /\ At("create")
    /\ shared' = [shared EXCEPT ![need] = IF @ = 0 THEN 1 ELSE 2]
    /\ NextNeed
    /\ UNCHANGED <<state, status, attempts, target, guest, mirror, db, spent>>

\* Another worker created it after Seek: HTTP 400, which is never retried.
CreateRefused ==
    /\ At("create") /\ shared[need] > 0
    /\ Fail(FALSE) /\ Spend("lost")

\* The worker of another VM does the same.
RivalCreates ==
    /\ spent.rivals < MaxRivals /\ Spend("rivals")
    /\ \E k \in Foundation :
         /\ \A j \in Foundation : j < k => shared[j] > 0
         /\ shared' = [shared EXCEPT ![k] = IF @ = 0 THEN 1 ELSE 2]
    /\ UNCHANGED <<state, status, attempts, pc, target, guest, need, mirror, db>>

-----------------------------------------------------------------------------
(* ensure_reservation and activate: the VM's own records, each looked up by
   its exact identity and created when there is none.                       *)

MirrorVm ==
    /\ At("mirrorVm")
    /\ mirror' = IF mirror.vm = 0 THEN [mirror EXCEPT !.vm = 1 + spent.erased] ELSE mirror
    /\ Goto("mirrorInterface")
    /\ Working /\ UNCHANGED <<target, guest>>

\* Mistake: the interface is created without being looked up.
MirrorInterfaceAgain ==
    /\ At("mirrorInterface")
    /\ mirror' = [mirror EXCEPT !.interface = @ + 1]
    /\ Goto("mirrorIp")
    /\ Working /\ UNCHANGED <<target, guest>>

MirrorInterface ==
    /\ At("mirrorInterface")
    /\ mirror' = IF mirror.interface = 0 THEN [mirror EXCEPT !.interface = 1] ELSE mirror
    /\ Goto("mirrorIp")
    /\ Working /\ UNCHANGED <<target, guest>>

MirrorIp ==
    /\ At("mirrorIp")
    /\ mirror' = IF mirror.ip = 0 THEN [mirror EXCEPT !.ip = 1] ELSE mirror
    /\ Goto("mirrorPrimary")
    /\ Working /\ UNCHANGED <<target, guest>>

MirrorPrimary ==
    /\ At("mirrorPrimary")
    /\ mirror' = [mirror EXCEPT !.primary = TRUE]
    /\ Goto("recordIds")
    /\ Working /\ UNCHANGED <<target, guest>>

\* _record_netbox_identity never replaces recorded ids.
RecordIds ==
    /\ At("recordIds") /\ db.ids \in {0, mirror.vm}
    /\ db' = [db EXCEPT !.ids = mirror.vm, !.shown = Shown(25)]
    /\ Goto("find")
    /\ UNCHANGED <<state, status, attempts, target, guest, netbox, spent>>

RecordIdsRefuses ==
    /\ At("recordIds") /\ db.ids \notin {0, mirror.vm}
    /\ Fail(FALSE) /\ UNCHANGED spent

\* An administrator erases the records in NetBox while no worker creates them.
Erase ==
    /\ mirror.vm # 0 /\ spent.erased < MaxErased /\ Spend("erased")
    /\ pc \notin {"mirrorInterface", "mirrorIp", "mirrorPrimary", "recordIds"}
    /\ mirror' = NoMirror
    /\ UNCHANGED <<state, status, attempts, pc, target, guest, shared, need, db>>

\* The recorded ids are gone: HTTP 404.
ActivateRefused ==
    /\ pc \in {"activateIp", "activateVm"} /\ status = "Running" /\ mirror.vm = 0
    /\ Fail(FALSE) /\ UNCHANGED spent

ActivateIp ==
    /\ At("activateIp") /\ mirror.vm # 0
    /\ mirror' = [mirror EXCEPT !.ipActive = TRUE]
    /\ Goto("activateVm")
    /\ WorkingPast /\ UNCHANGED <<target, guest>>

ActivateVm ==
    /\ At("activateVm") /\ mirror.vm # 0
    /\ mirror' = [mirror EXCEPT !.vmActive = TRUE]
    /\ Goto("finish")
    /\ Working /\ UNCHANGED <<target, guest>>

-----------------------------------------------------------------------------
(* ProxmoxClient.ensure_vm and the guest helpers.                          *)

\* Mistake: a guest that exists is not configured again.
FindConfigured ==
    /\ At("find")
    /\ \/ guest.what = "absent" /\ Goto("clone") /\ UNCHANGED target
       \/ Ours /\ target' = guest.node /\ Goto("start")
    /\ Working /\ UNCHANGED <<guest, mirror>>

\* Mistake: the guest of an earlier attempt counts as a collision.
FindNoGuest ==
    /\ At("find") /\ guest.what = "absent" /\ Goto("clone") /\ UNCHANGED target
    /\ Working /\ UNCHANGED <<guest, mirror>>

\* Mistake: whatever holds the VMID is adopted, the name unread.
FindAnyGuest ==
    /\ At("find")
    /\ \/ guest.what = "absent" /\ Goto("clone") /\ UNCHANGED target
       \/ guest.what # "absent" /\ target' = guest.node /\ Goto("configure")
    /\ Working /\ UNCHANGED <<guest, mirror>>

\* existing_vm: our guest is adopted where it is, an absent one is cloned.
Find ==
    /\ At("find")
    /\ \/ guest.what = "absent" /\ Goto("clone") /\ UNCHANGED target
       \/ Ours /\ target' = guest.node /\ Goto("configure")
    /\ WorkingPast /\ UNCHANGED <<guest, mirror>>

\* A clone still running that shows its name already is taken for the guest, and
\* "Proxmox VM Confirmed" will be recorded of it.
FindHalf ==
    /\ At("find") /\ guest.what = "cloning"
    /\ target' = guest.node /\ Goto("configure")
    /\ Record(Due) /\ spent' = [spent EXCEPT !.half = 1]
    /\ UNCHANGED <<state, status, attempts, guest, netbox>>

\* Another guest holds the VMID, or a clone that shows no name yet: refusing
\* collision, never retried.
FindRefuses ==
    /\ At("find") /\ guest.what \in {"foreign", "cloning"}
    /\ Fail(FALSE) /\ UNCHANGED spent

\* Mistake: the clone counts as there once it is asked for.
CloneConfirmed ==
    /\ At("clone") /\ guest.what = "absent"
    /\ \E n \in Node : /\ target' = n
                       /\ guest' = [what |-> "cloning", node |-> n, configured |-> FALSE]
    /\ Goto("waitClone")
    /\ Record(40)
    /\ UNCHANGED <<state, status, attempts, spent, shared, need, mirror>>

\* choose_target_node, then the clone request, which PVE accepts for a free VMID.
Clone ==
    /\ At("clone") /\ guest.what = "absent"
    /\ \E n \in Node : /\ target' = n
                       /\ guest' = [what |-> "cloning", node |-> n, configured |-> FALSE]
    /\ Goto("waitClone")
    /\ Working /\ UNCHANGED mirror

\* The VMID was taken after Find; whatever class PVE's error has.
CloneRefused ==
    /\ At("clone") /\ guest.what # "absent"
    /\ \E transient \in BOOLEAN : Fail(transient)
    /\ UNCHANGED spent

WaitClone ==
    /\ At("waitClone") /\ guest.what = "stopped"
    /\ Goto("configure")
    /\ Working /\ UNCHANGED <<target, guest, mirror>>

\* The task failed (its guest is gone): permanent.  It timed out: transient.
CloneFails ==
    /\ At("waitClone")
    /\ \/ guest.what \in {"absent", "foreign"} /\ Fail(FALSE) /\ UNCHANGED spent
       \/ guest.what = "cloning" /\ Fail(TRUE) /\ spent.slow < MaxSlow /\ Spend("slow")

\* Without another look at the name: if the half clone found is gone and another's
\* guest with the same bridge has its VMID by now, that one is configured.
Configure ==
    /\ At("configure") /\ (Ours \/ guest.what = "foreign") /\ guest.node = target
    /\ guest' = [guest EXCEPT !.configured = TRUE]
    /\ Goto("start")
    /\ WorkingPast /\ UNCHANGED <<target, mirror>>

\* The half clone has no interface yet or is locked by PVE (HTTP 500), or it is
\* gone, or another's guest with another interface is there.
ConfigureRefused ==
    /\ At("configure") /\ ~Ours
    /\ \E transient \in BOOLEAN : Fail(transient)
    /\ UNCHANGED spent

Start ==
    /\ At("start")
    /\ guest' = [guest EXCEPT !.what = IF Taken THEN @ ELSE "running"]
    /\ Goto("ssh")
    /\ WorkingPast /\ UNCHANGED <<target, mirror>>

\* wait_for_ssh and wait_for_guest_agent_ready.
WaitSsh ==
    /\ At("ssh")
    /\ Goto(IF GuestManaged THEN "guest" ELSE AfterGuest)
    /\ WorkingPast /\ UNCHANGED <<target, guest, mirror>>

\* _apply_guest_policy and the access helper; both may be applied again.
ApplyPolicy ==
    /\ At("guest")
    /\ Goto(AfterGuest)
    /\ WorkingPast /\ UNCHANGED <<target, guest, mirror>>

\* A call of the worker raises what _is_transient_provisioning_error calls an
\* outage (a timeout, HTTP 5xx), or anything else.
ExternalError ==
    /\ status = "Running" /\ pc \notin {"idle", "recordIds", "finish"}
    /\ \/ spent.outages < MaxOutages /\ Fail(TRUE) /\ Spend("outages")
       \/ spent.errors < MaxErrors /\ Fail(FALSE) /\ Spend("errors")

\* PVE ends a clone task, watched or not; it removes what a failed one left.
CloneEnds ==
    /\ guest.what = "cloning"
    /\ \/ guest' = [guest EXCEPT !.what = "stopped"] /\ UNCHANGED spent
       \/ guest' = Absent /\ spent.errors < MaxErrors /\ Spend("errors")
    /\ UNCHANGED <<state, status, attempts, pc, target, netbox, db>>

\* An administrator creates another guest with this VMID.
ForeignGuest ==
    /\ guest.what = "absent" /\ spent.foreign < MaxForeign
    /\ \E n \in Node : guest' = [what |-> "foreign", node |-> n, configured |-> FALSE]
    /\ Spend("foreign")
    /\ UNCHANGED <<state, status, attempts, pc, target, netbox, db>>

-----------------------------------------------------------------------------
WorkerStep ==
    \/ Seek \/ SeekRefuses \/ Create \/ CreateRefused
    \/ MirrorVm \/ MirrorInterface \/ MirrorIp \/ MirrorPrimary
    \/ RecordIds \/ RecordIdsRefuses
    \/ Find \/ FindHalf \/ FindRefuses \/ Clone \/ CloneRefused \/ WaitClone \/ CloneFails
    \/ Configure \/ ConfigureRefused \/ Start \/ WaitSsh \/ ApplyPolicy
    \/ ActivateIp \/ ActivateVm \/ ActivateRefused \/ Finish

Next ==
    \/ Claim \/ Crash \/ Reclaim \/ QueueAgain
    \/ WorkerStep \/ ExternalError
    \/ CloneEnds \/ ForeignGuest \/ RivalCreates \/ Erase

Spec == Init /\ [][Next]_vars

\* Workers, the scheduler and PVE's tasks proceed; operators need not.
FairSpec ==
    /\ Spec
    /\ WF_vars(Claim) /\ WF_vars(Reclaim) /\ WF_vars(WorkerStep) /\ WF_vars(CloneEnds)

-----------------------------------------------------------------------------
Guests   == [what : {"absent", "foreign", "cloning", "stopped", "running"},
             node : Node \cup {NoNode}, configured : BOOLEAN]
Mirrors  == [vm : 0..(1 + MaxErased), interface : 0..1, ip : 0..1, primary : BOOLEAN,
             ipActive : BOOLEAN, vmActive : BOOLEAN]
Columns  == [ids : 0..(1 + MaxErased), node : Node \cup {NoNode}, shown : 0..100]
Expenses == [jobs : 1..MaxJobs, outages : 0..MaxOutages, errors : 0..MaxErrors,
             crashes : 0..MaxCrashes, slow : 0..MaxSlow, foreign : 0..MaxForeign,
             erased : 0..MaxErased, rivals : 0..MaxRivals, lost : 0..1, half : 0..1]

TypeOK ==
    /\ state \in States
    /\ status \in Statuses
    /\ attempts \in 0..MaxAttempts
    /\ pc \in Steps
    /\ target \in Node \cup {NoNode}
    /\ guest \in Guests
    /\ shared \in [Foundation -> 0..2] /\ need \in Foundation
    /\ mirror \in Mirrors
    /\ db \in Columns
    /\ spent \in Expenses

Mirrored == mirror.vm # 0 /\ mirror.interface = 1 /\ mirror.ip = 1 /\ mirror.primary
Leased   == mirror.ipActive /\ mirror.vmActive

\* README "Worker lifecycle": the milestones are reached in order whatever died
\* in between.  An active NetBox record has a running guest, a running guest was
\* configured with its address and key, a configured guest has its complete
\* reservation, under the ids recorded in ColdFront unless an administrator erased
\* it, and a reservation has the records it shares with other VMs.  Another's guest
\* is configured in ours' place only where a half clone was taken for the guest.
MilestonesInOrder ==
    /\ mirror.ipActive \/ mirror.vmActive =>
         (guest.what = "running" \/ Taken) /\ mirror.vm = db.ids
    /\ guest.what = "running" => guest.configured
    /\ guest.configured => Ours \/ (Taken /\ spent.half > 0)
    /\ guest.configured /\ NetBoxEnabled =>
         db.ids # 0 /\ ((Mirrored /\ mirror.vm = db.ids) \/ spent.erased > 0)
    /\ mirror.vm # 0 => \A k \in Foundation : shared[k] > 0

\* An Active VM has all of it: a running, configured guest on the node ColdFront
\* recorded, which retirement later demands exactly, and NetBox records that are
\* active and the recorded ones, or erased since, never others.  The guest is ours
\* unless a half clone was once taken for it.
ActiveIsComplete ==
    state = "Active" =>
        /\ guest.what = "running" \/ (Taken /\ spent.half > 0)
        /\ guest.configured
        /\ db.node = guest.node
        /\ NetBoxEnabled =>
             /\ db.ids # 0
             /\ mirror.vm = 0 \/ (mirror.vm = db.ids /\ Mirrored /\ Leased)

\* The progress page shows durable milestones: what it shows as reached has been
\* reached, and still is, in whichever attempt, although each event is recorded
\* after its call and a retry starts from the beginning.  Not so "VM clone
\* confirmed" once a half clone was taken for the guest: that one may still vanish.
ProgressIsTrue ==
    /\ db.shown >= 25 /\ NetBoxEnabled => db.ids # 0
    /\ db.shown >= 40 => Ours \/ spent.half > 0
    /\ db.shown >= 55 => guest.configured
    /\ db.shown >= 65 => guest.what = "running" \/ Taken
    /\ db.shown >= 100 => state = "Active"

\* README "Safety model": a failed provisioning destroys and releases nothing.  A
\* guest of ours never disappears or moves, another's is never touched, recorded
\* ids are never replaced, and nobody but an administrator takes a record of
\* NetBox back.  Only where a half clone was taken for the guest may the VMID
\* change hands before it is configured.
TakesNothingBack ==
    /\ Ours => guest'.what \in {"stopped", "running"} /\ guest'.node = guest.node
    /\ guest.what = "foreign" => guest' = guest \/ (pc = "configure" /\ spent.half > 0)
    /\ guest.what = "running" => guest'.what = "running"
    /\ db.ids # 0 => db'.ids = db.ids
    /\ Mirrored => mirror'.vm = mirror.vm \/ spent'.erased > spent.erased
    /\ \A k \in Foundation : shared[k] <= shared'[k]

NothingIsTakenBack == [][TakesNothingBack]_vars

\* What no retry of the job makes up for: a permanent error, the VMID in other
\* hands, a half clone taken for a collision, a creation lost to another worker,
\* no attempt left; and what no later job does: erased or doubled records.
Hopeless ==
    \/ spent.errors > 0 \/ spent.foreign > 0 \/ spent.slow > 0 \/ spent.lost > 0
    \/ spent.outages + spent.crashes >= MaxAttempts
    \/ spent.erased > 0 \/ \E k \in Foundation : shared[k] > 1

\* README "Worker lifecycle": outages are retried with the same identity.  A
\* queued VM becomes Active although outages and dead workers take all but one
\* of the job's attempts, from whatever half of the work those left behind, and
\* although workers of other VMs create the shared records at the same time.
OutagesAreSurvived == status = "Queued" ~> (state = "Active" \/ Hopeless)
=============================================================================
