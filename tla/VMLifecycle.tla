---------------------------- MODULE VMLifecycle ----------------------------
(***************************************************************************)
(* What the job table promises about one VM to whoever does a job's        *)
(* external work: which job may be open in which state of the VM and of    *)
(* its allocation, and which way a job may leave both.  Rows, attempts,    *)
(* tasks, callbacks, policy and dead workers are hidden.                   *)
(*                                                                         *)
(* Module VMJobs is shown to implement this one.  Module Retirement takes  *)
(* the steps of everything but the retirement worker from it.              *)
(***************************************************************************)

VARIABLES
    allocation,  \* "New", "Active" or "Ended"
    state,       \* VirtualMachine.state; "None" while the row does not exist
    job,         \* the action of the open job, or "none"
    reserving    \* create_provisioning_job has read the VM and holds the Allocation row

vars == <<allocation, state, job, reserving>>

Guest  == {"Reconcile", "Patch"}
States == {"None", "Queued", "Provisioning", "Active", "Blocked", "Failed",
           "Retirement Review", "Retiring", "Retired"}

TypeOK ==
    /\ allocation \in {"New", "Active", "Ended"}
    /\ state \in States
    /\ job \in Guest \cup {"none", "Provision", "Retire"}
    /\ reserving \in BOOLEAN

Init == allocation = "New" /\ state = "None" /\ job = "none" /\ reserving = FALSE

-----------------------------------------------------------------------------
(* The allocation.  Its row is locked while a reservation is under way.    *)

Activate ==
    /\ allocation # "Active" /\ ~reserving
    /\ allocation' = "Active"
    /\ UNCHANGED <<state, job, reserving>>

End ==
    /\ allocation # "New" /\ ~reserving
    /\ allocation' = "Ended"
    /\ UNCHANGED <<state, job, reserving>>

\* The callback of an ended allocation, which may run after a reactivation.
Review ==
    /\ state \notin {"None", "Retired"}
    /\ state' = "Retirement Review"
    /\ UNCHANGED <<allocation, job, reserving>>

-----------------------------------------------------------------------------
(* Jobs are created.                                                       *)

Reserve ==
    /\ allocation = "Active" /\ state = "None" /\ job = "none" /\ ~reserving
    /\ state' = "Queued" /\ job' = "Provision"
    /\ UNCHANGED <<allocation, reserving>>

Read ==
    /\ allocation = "Active" /\ ~reserving
    /\ state \notin {"None", "Retired", "Active"}
    /\ reserving' = TRUE
    /\ UNCHANGED <<allocation, state, job>>

Return ==
    /\ reserving /\ reserving' = FALSE
    /\ UNCHANGED <<allocation, state, job>>

\* The state is not looked at again: the VM may be Active or Retired by now.
QueueProvisioning ==
    /\ reserving /\ job = "none"
    /\ state' = "Queued" /\ job' = "Provision" /\ reserving' = FALSE
    /\ UNCHANGED allocation

QueueRetirement ==
    /\ allocation # "Active" /\ ~reserving
    /\ state \notin {"None", "Retired"} /\ job = "none"
    /\ state' = "Retirement Review" /\ job' = "Retire"
    /\ UNCHANGED <<allocation, reserving>>

QueueGuestJob(a) ==
    /\ allocation = "Active" /\ ~reserving /\ job = "none"
    /\ state \in {"Active"} \cup (IF a = "Patch" THEN {} ELSE {"Blocked", "Failed"})
    /\ job' = a
    /\ UNCHANGED <<allocation, state, reserving>>

-----------------------------------------------------------------------------
(* Jobs are worked on.                                                     *)

\* The claim of a guest job leaves the state alone.
ClaimProvision ==
    /\ job = "Provision" /\ ~reserving
    /\ state' = "Provisioning"
    /\ UNCHANGED <<allocation, job, reserving>>

ClaimRetire ==
    /\ job = "Retire" /\ ~reserving
    /\ state' = "Retiring"
    /\ UNCHANGED <<allocation, job, reserving>>

Requeue ==
    /\ job = "Provision"
    /\ state' = "Queued"
    /\ UNCHANGED <<allocation, job, reserving>>

EndProvision(newState) ==
    /\ job = "Provision"
    /\ job' = "none" /\ state' = newState
    /\ UNCHANGED <<allocation, reserving>>

EndRetire(newState) ==
    /\ job = "Retire"
    /\ job' = "none" /\ state' = newState
    /\ UNCHANGED <<allocation, reserving>>

EndGuestJob ==
    /\ job \in Guest /\ ~reserving
    /\ job' = "none"
    /\ state' = IF allocation = "Active" THEN "Active" ELSE "Retirement Review"
    /\ UNCHANGED <<allocation, reserving>>

Next ==
    \/ Activate \/ End \/ Review
    \/ Reserve \/ Read \/ Return \/ QueueProvisioning \/ QueueRetirement
    \/ \E a \in Guest : QueueGuestJob(a)
    \/ ClaimProvision \/ ClaimRetire \/ Requeue
    \/ \E s \in {"Active", "Blocked", "Failed"} : EndProvision(s)
    \/ \E s \in {"Retirement Review", "Retired"} : EndRetire(s)
    \/ EndGuestJob

Spec == Init /\ [][Next]_vars

-----------------------------------------------------------------------------
\* A retired VM is left alone for good, unless create_provisioning_job read it
\* before it was Retired and queues it afterwards.
RetiredIsFinal ==
    [][state = "Retired" /\ ~reserving => UNCHANGED <<state, job, reserving>>]_vars
=============================================================================
