-------------------------- MODULE GuestSync_proofs --------------------------
(***************************************************************************)
(* Theorems about GuestSync for any users, managed files, policy columns,  *)
(* switch settings, attempts and faults: what ColdFront records of a guest *)
(* is what the guest was given, drift does not stay unnoticed, and units   *)
(* serve the files on disk.                                                *)
(*                                                                         *)
(* One lemma per conjunct of the inductive invariant shows that every step *)
(* preserves it.                                                           *)
(***************************************************************************)
EXTENDS GuestSync, TLAPS

-----------------------------------------------------------------------------
(* The inductive invariant.                                                *)

\* The worker knows what to run; k is still to be run, or was run and failed.
AtWork  == worker.step \in {"asked", "next", "wait"}
Left(k) == k \in worker.todo \cup worker.bad

\* The first claim of the job has done nothing yet.
Fresh == job.attempts = 0 \/ (job.attempts = 1 /\ worker.step \in {"claimed", "asked"})

\* The open job has begun, or may have begun, with k and will take it up again.
Redone(k) == Open /\ k \in job.needs /\ ~Fresh /\ (AtWork => Left(k))

\* A helper of k nobody waits for may still change the guest.
Loose(k) == Running(orphan) /\ orphan.kind = k

\* What is recorded of k is what the guest was given.
Real(k) == IF k = "access" THEN vm.applied = Accounts
           ELSE vm.digest = guest.policy \/ history.refiled

Excused(k) == k \in history.overlapped \cup history.dropped \cup history.recloned
                     \cup vm.errors

\* The job and its worker.
WorkInv ==
    /\ job.status = "Queued" => job.attempts < MaxAttempts
    /\ job.status = "Running" => job.attempts > 0
    /\ worker # Idle => job.status = "Running"
    /\ helper # NoHelper <=> worker.step = "wait"
    /\ worker.step = "wait" => helper.kind \in worker.todo
    /\ AtWork => /\ worker.asked \subseteq job.needs
                 /\ worker.todo \cup worker.bad \subseteq worker.asked
                 /\ worker.todo \cap worker.bad = {}
    /\ Open /\ job.action = "Patch" => job.needs = {"policy"}
    /\ Open /\ job.action = "Provision" =>
         /\ job.needs = Component
         /\ AtWork => worker.bad = {}

\* The helper the worker waits for has done what it shows, alone or overlapped.
HelperInv ==
    helper # NoHelper /\ helper.stage # "failed" /\ helper.kind \notin history.overlapped =>
        /\ ~Loose(helper.kind)
        /\ helper.kind = "access" /\ helper.stage = "done" => guest.accounts = helper.users
        /\ helper.kind = "policy" /\ helper.stage # "begun" => guest.policy = helper.payload

\* What is recorded of a component is real unless the open job still sees to it.
SyncInv == \A k \in Component :
    Redone(k) \/ Excused(k) \/ (Real(k) /\ ~Loose(k))

\* A component the worker has recorded has no error.
RecordInv == AtWork => \A k \in worker.asked : Left(k) \/ k \notin vm.errors

\* Drift is known to someone: a look is due, or a job will be followed by one.
DriftInv ==
    vm.state = "Active" /\ ~Open /\ ~vm.failed /\ pending = {} =>
        \A k \in On : k \in history.unseen \/ k \notin Drifted

\* Whoever reads or changes what ColdFront records of the guest may rely on this.
IInv == TypeOK /\ WorkInv /\ HelperInv /\ SyncInv /\ RecordInv /\ DriftInv /\ UnitsServeFiles

-----------------------------------------------------------------------------
(* Lemmas about the records.                                               *)

\* A helper has the fields of its kind.
LEMMA HelperKinds ==
    /\ \A h \in AccessHelpers : h.kind = "access" /\ h.stage # "units" /\ h.stage # "none"
    /\ \A h \in PolicyHelpers : h.kind = "policy" /\ h.stage # "none"
    /\ NoHelper.stage = "none"
    /\ \A h \in Helper : \/ h.kind = "access" /\ h \in AccessHelpers
                         \/ h.kind = "policy" /\ h \in PolicyHelpers
    /\ \A h \in Helper \cup {NoHelper} : Running(h) => h \in Helper
    /\ NoHelper \notin Helper
  BY DEF AccessHelpers, PolicyHelpers, NoHelper, Helper, Running

\* What a helper's stage makes of it and of the guest.
LEMMA Stage ==
    ASSUME guest \in Guest, NEW h \in Helper, Running(h)
    PROVE  /\ h \in AccessHelpers =>
                /\ AfterStage(h) \in AccessHelpers /\ AfterStage(h).stage = "done"
                /\ AfterStage(h).users = h.users
                /\ GuestAfterStage(h) = [guest EXCEPT !.accounts = h.users]
           /\ h \in PolicyHelpers /\ h.stage = "begun" =>
                /\ AfterStage(h) \in PolicyHelpers /\ AfterStage(h).stage = "units"
                /\ AfterStage(h).payload = h.payload
                /\ Content(h.payload) # Content(guest.policy) => AfterStage(h).changed
                /\ GuestAfterStage(h) = [guest EXCEPT !.policy = h.payload]
           /\ h \in PolicyHelpers /\ h.stage # "begun" =>
                /\ h.stage = "units"
                /\ AfterStage(h) \in PolicyHelpers /\ AfterStage(h).stage = "done"
                /\ AfterStage(h).payload = h.payload
                /\ GuestAfterStage(h) =
                     IF Reloads(h) THEN [guest EXCEPT !.loaded = Content(guest.policy)]
                     ELSE guest
  <1>1. CASE h \in AccessHelpers
    <2>1. h.kind = "access" /\ h \notin PolicyHelpers
      BY <1>1 DEF AccessHelpers, PolicyHelpers
    <2>2. AfterStage(h) = [h EXCEPT !.stage = "done"]
      BY <2>1 DEF AfterStage
    <2>3. GuestAfterStage(h) = [guest EXCEPT !.accounts = h.users]
      BY <2>1 DEF GuestAfterStage
    <2> QED BY <1>1, <2>1, <2>2, <2>3 DEF AccessHelpers
  <1>2. CASE h \in PolicyHelpers /\ h.stage = "begun"
    <2>1. h.kind = "policy" /\ h \notin AccessHelpers
      BY <1>2 DEF AccessHelpers, PolicyHelpers
    <2>2. AfterStage(h) = [h EXCEPT !.stage = "units", !.changed = InputsChanged(h)]
      BY <1>2, <2>1 DEF AfterStage
    <2>3. GuestAfterStage(h) = [guest EXCEPT !.policy = h.payload]
      BY <1>2, <2>1 DEF GuestAfterStage
    <2>4. InputsChanged(h) \in BOOLEAN
      BY <1>2 DEF InputsChanged, PolicyHelpers
    <2>5. Content(h.payload) # Content(guest.policy) => InputsChanged(h)
      BY DEF InputsChanged
    <2> QED BY <1>2, <2>1, <2>2, <2>3, <2>4, <2>5 DEF PolicyHelpers
  <1>3. CASE h \in PolicyHelpers /\ h.stage # "begun"
    <2>1. h.kind = "policy" /\ h \notin AccessHelpers /\ h.stage = "units"
      BY <1>3 DEF AccessHelpers, PolicyHelpers, Running
    <2>2. AfterStage(h) = [h EXCEPT !.stage = "done"]
      BY <2>1 DEF AfterStage
    <2>3. GuestAfterStage(h) =
            IF Reloads(h) THEN [guest EXCEPT !.loaded = Content(guest.policy)] ELSE guest
      BY <2>1 DEF GuestAfterStage
    <2> QED BY <1>3, <2>1, <2>2, <2>3 DEF PolicyHelpers
  <1> QED BY <1>1, <1>2, <1>3 DEF Helper

\* A guest stays a guest.
LEMMA StageType ==
    ASSUME guest \in Guest, NEW h \in Helper, Running(h)
    PROVE  GuestAfterStage(h) \in Guest /\ AfterStage(h) \in Helper
  <1>1. Content(guest.policy) \in Contents \cup {Nothing}
    BY DEF Guest, Content, Contents, Manifest
  <1>2. h \in AccessHelpers => h.users \in Users
    BY DEF AccessHelpers
  <1>3. h \in PolicyHelpers => h.payload \in Manifest
    BY DEF PolicyHelpers
  <1> QED BY <1>1, <1>2, <1>3, Stage DEF Guest, Helper

\* The worker's next helper is one it still has to run.
LEMMA NextLeft ==
    ASSUME worker.todo \subseteq Component, worker.todo # {}
    PROVE  NextComponent \in worker.todo /\ NextComponent \in Component
  <1>1. CASE worker.todo = Component
    BY <1>1 DEF NextComponent, Component
  <1>2. CASE worker.todo # Component
    <2>1. NextComponent = CHOOSE k \in worker.todo : TRUE
      BY <1>2 DEF NextComponent
    <2> QED BY <2>1
  <1> QED BY <1>1, <1>2

\* A worker at work has its fields, a claimed or an idle one has none.
LEMMA WorkerKinds ==
    ASSUME TypeOK
    PROVE  /\ AtWork <=> worker \in Working
           /\ AtWork => /\ worker.asked \subseteq Component /\ worker.todo \subseteq Component
                        /\ worker.bad \subseteq Component /\ worker.users \in Users
           /\ worker \notin Working => worker = Idle \/ worker = [step |-> "claimed"]
           /\ Idle.step = "idle" /\ [step |-> "claimed"].step = "claimed"
           /\ worker.step = "idle" <=> worker = Idle
           /\ worker.step = "claimed" <=> worker = [step |-> "claimed"]
           /\ worker.step \in {"idle", "claimed", "asked", "next", "wait"}
  BY DEF TypeOK, AtWork, Working, Idle

\* An open job has its fields.
LEMMA JobKinds ==
    ASSUME TypeOK
    PROVE  /\ Open <=> job \in Jobs
           /\ ~Open <=> job.status = "None"
           /\ Open => /\ job.status \in {"Queued", "Running"} /\ job.action \in Action
                      /\ job.needs \subseteq Component /\ job.attempts \in 0..MaxAttempts
  BY DEF TypeOK, Open, NoJob, Jobs

\* A job that is claimed or queued again.
LEMMA JobUpdate ==
    ASSUME TypeOK, Open
    PROVE  /\ job' = [job EXCEPT !.status = "Queued"] =>
                /\ job' \in Jobs /\ job'.status = "Queued" /\ job'.action = job.action
                /\ job'.needs = job.needs /\ job'.attempts = job.attempts
           /\ job' = [job EXCEPT !.status = "Running", !.attempts = @ + 1]
              /\ job.attempts < MaxAttempts =>
                /\ job' \in Jobs /\ job'.status = "Running" /\ job'.action = job.action
                /\ job'.needs = job.needs /\ job'.attempts = job.attempts + 1
  <1>1. job.attempts < MaxAttempts => job.attempts + 1 \in 0..MaxAttempts
    BY JobKinds, AttemptsAssumption
  <1>2. job' = [job EXCEPT !.status = "Queued"] =>
                /\ job' \in Jobs /\ job'.status = "Queued" /\ job'.action = job.action
                /\ job'.needs = job.needs /\ job'.attempts = job.attempts
    BY JobKinds DEF Jobs
  <1>3. job' = [job EXCEPT !.status = "Running", !.attempts = @ + 1]
        /\ job.attempts < MaxAttempts =>
                /\ job' \in Jobs /\ job'.status = "Running" /\ job'.action = job.action
                /\ job'.needs = job.needs /\ job'.attempts = job.attempts + 1
    BY <1>1, JobKinds DEF Jobs
  <1> QED BY <1>2, <1>3

\* What a worker claimed is an open job.
LEMMA ClaimedJob ==
    ASSUME TypeOK, WorkInv, worker # Idle
    PROVE  Open /\ job.status = "Running" /\ job.needs \subseteq Component
           /\ job.attempts \in 1..MaxAttempts /\ job.action \in Action
           /\ job \in Jobs
  BY JobKinds, AttemptsAssumption DEF WorkInv

\* A new job is an open one.
LEMMA NewJobType ==
    ASSUME NEW a \in Action, NEW needs \in SUBSET Component
    PROVE  /\ NewJob(a, needs) \in Jobs /\ NewJob(a, needs) # NoJob
           /\ NewJob(a, needs).status = "Queued" /\ NewJob(a, needs).action = a
           /\ NewJob(a, needs).needs = needs /\ NewJob(a, needs).attempts = 0
  BY AttemptsAssumption DEF NewJob, Jobs, NoJob

\* A policy rendered now is a manifest.
LEMMA RenderType ==
    ASSUME TypeOK, NEW u \in Users
    PROVE  Render(u) \in Manifest
  BY DEF TypeOK, Sites, Render, Manifest

-----------------------------------------------------------------------------
(* Every step preserves each conjunct.                                     *)

\* Every step keeps the types.
LEMMA TypeStep ==
    ASSUME TypeOK, WorkInv, Next
    PROVE  TypeOK'
  <1>1. CASE ChangeMembership
    <2>1. spent' \in Expenses
      BY <1>1, BoundsAssumption DEF TypeOK, ChangeMembership, Edit, Expenses
    <2>2. site' \in Sites
      BY <1>1 DEF TypeOK, ChangeMembership, Sites
    <2> QED BY <1>1, <2>1, <2>2 DEF TypeOK, ChangeMembership, db
  <1>2. CASE EditUnannounced
    <2>1. spent' \in Expenses
      BY <1>2, BoundsAssumption DEF TypeOK, EditUnannounced, Edit, Expenses
    <2>2. site' \in Sites
      BY <1>2 DEF TypeOK, EditUnannounced, Sites
    <2>3. history' \in Notes
      BY <1>2 DEF TypeOK, EditUnannounced, Notes
    <2> QED BY <1>2, <2>1, <2>2, <2>3 DEF TypeOK, EditUnannounced, db
  <1>3. ASSUME NEW c \in {Callback, SecondLook}, RunPending(c) PROVE TypeOK'
    <2>1. job' \in Jobs \cup {NoJob}
      BY <1>3, NewJobType DEF TypeOK, RunPending, Look, Drifted, On, Action
    <2>2. history' \in Notes
      BY <1>3 DEF TypeOK, RunPending, Look, Notes
    <2> QED BY <1>3, <2>1, <2>2 DEF TypeOK, RunPending, db, Look
  <1>4. ASSUME NEW c \in {Callback, SecondLook}, LosePending(c) PROVE TypeOK'
    <2>1. spent' \in Expenses
      BY <1>4, BoundsAssumption DEF TypeOK, LosePending, Fault, Expenses
    <2>2. history' \in Notes
      BY <1>4 DEF TypeOK, LosePending, Notes
    <2> QED BY <1>4, <2>1, <2>2 DEF TypeOK, LosePending, db
  <1>5. CASE SyncCommand
    <2>1. job' \in Jobs \cup {NoJob}
      BY <1>5, NewJobType DEF TypeOK, SyncCommand, Look, Drifted, Action
    <2>2. history' \in Notes
      BY <1>5 DEF TypeOK, SyncCommand, Look, Notes
    <2> QED BY <1>5, <2>1, <2>2 DEF TypeOK, SyncCommand, db, Look
  <1>6. CASE QueueProvision
    <2>1. job' \in Jobs \cup {NoJob}
      BY <1>6, NewJobType DEF TypeOK, QueueProvision, Action
    <2>2. vm' \in Columns
      BY <1>6 DEF TypeOK, QueueProvision, Columns
    <2>3. spent' \in Expenses
      BY <1>6, BoundsAssumption DEF TypeOK, QueueProvision, Edit, Expenses
    <2> QED BY <1>6, <2>1, <2>2, <2>3 DEF TypeOK, QueueProvision, db
  <1>7. CASE QueuePatch
    <2>1. job' \in Jobs \cup {NoJob}
      BY <1>7, NewJobType DEF TypeOK, QueuePatch, Action, Component
    <2>2. spent' \in Expenses
      BY <1>7, BoundsAssumption DEF TypeOK, QueuePatch, Expenses
    <2> QED BY <1>7, <2>1, <2>2 DEF TypeOK, QueuePatch, db
  <1>8. CASE Claim
    <2>1. job' \in Jobs \cup {NoJob}
      BY <1>8, JobUpdate DEF TypeOK, Claim, WorkInv
    <2> QED BY <1>8, <2>1 DEF TypeOK, Claim, db
  <1>9. CASE Begin
    <2>1. worker' \in Working \cup {Idle, [step |-> "claimed"]}
      BY <1>9, UsersAssumption, ClaimedJob, WorkerKinds
         DEF TypeOK, Begin, Working, Asked, Component, On
    <2>2. history' \in Notes
      BY <1>9, ClaimedJob, WorkerKinds DEF TypeOK, Begin, Drop, Notes
    <2> QED BY <1>9, <2>1, <2>2 DEF TypeOK, Begin, db
  <1>10. CASE Refuse
    <2>1. spent' \in Expenses
      BY <1>10, BoundsAssumption DEF TypeOK, Refuse, Fault, Expenses
    <2>2. vm' \in Columns
      BY <1>10 DEF TypeOK, Refuse, EndGuestJob, Columns, Asked, Component, On
    <2>3. job' \in Jobs \cup {NoJob}
      BY <1>10 DEF TypeOK, Refuse, EndGuestJob
    <2>4. worker' \in Working \cup {Idle, [step |-> "claimed"]}
      BY <1>10 DEF TypeOK, Refuse, EndGuestJob
    <2>5. pending' \subseteq {Callback, SecondLook}
      BY <1>10 DEF TypeOK, Refuse, EndGuestJob
    <2>6. history' \in Notes
      BY <1>10, ClaimedJob, WorkerKinds DEF TypeOK, Refuse, Drop, Notes
    <2> QED BY <1>10, <2>1, <2>2, <2>3, <2>4, <2>5, <2>6
               DEF TypeOK, Refuse, db, EndGuestJob
  <1>11. CASE Call
    <2>1. worker' \in Working \cup {Idle, [step |-> "claimed"]}
      BY <1>11, WorkerKinds DEF TypeOK, Call, Working, AtWork
    <2>2. helper' \in Helper \cup {NoHelper}
      BY <1>11, WorkerKinds, RenderType, NextLeft
         DEF TypeOK, Call, AtWork, Component, AccessHelper, PolicyHelper,
             Helper, AccessHelpers, PolicyHelpers
    <2>3. history' \in Notes
      BY <1>11, WorkerKinds, NextLeft DEF TypeOK, Call, AtWork, Notes
    <2> QED BY <1>11, <2>1, <2>2, <2>3 DEF TypeOK, Call, db
  <1>12. CASE RecordAccess
    <2>1. worker' \in Working \cup {Idle, [step |-> "claimed"]}
      BY <1>12, WorkerKinds DEF TypeOK, RecordAccess, Working, AtWork, Done, Wait
    <2>2. vm' \in Columns
      BY <1>12, HelperKinds
         DEF TypeOK, RecordAccess, Wait, Columns, AccessHelpers, NoHelper
    <2>3. history' \in Notes
      BY <1>12 DEF TypeOK, RecordAccess, Notes
    <2> QED BY <1>12, <2>1, <2>2, <2>3 DEF TypeOK, RecordAccess, db
  <1>13. CASE RecordPolicy
    <2>1. worker' \in Working \cup {Idle, [step |-> "claimed"]}
      BY <1>13, WorkerKinds DEF TypeOK, RecordPolicy, Working, AtWork, Done, Wait
    <2>2. vm' \in Columns
      <3>1. helper.payload \in Manifest
        BY <1>13, HelperKinds DEF TypeOK, RecordPolicy, Wait, PolicyHelpers
      <3>2. [helper.payload EXCEPT !.files = site.files] \in Manifest
        BY <3>1 DEF TypeOK, Manifest, Sites
      <3> QED BY <1>13, <3>1, <3>2 DEF TypeOK, RecordPolicy, Columns
    <2>3. history' \in Notes
      BY <1>13 DEF TypeOK, RecordPolicy, Notes
    <2> QED BY <1>13, <2>1, <2>2, <2>3 DEF TypeOK, RecordPolicy, db
  <1>14. CASE NoteFailure
    <2>1. worker' \in Working \cup {Idle, [step |-> "claimed"]}
      BY <1>14, WorkerKinds, HelperKinds
         DEF TypeOK, NoteFailure, Working, AtWork, Done, Component
    <2> QED BY <1>14, <2>1 DEF TypeOK, NoteFailure, db
  <1>15. CASE ProvisionFails
    <2>1. spent' \in Expenses
      BY <1>15, BoundsAssumption DEF TypeOK, ProvisionFails, Fault, Expenses
    <2>2. vm' \in Columns
      BY <1>15 DEF TypeOK, ProvisionFails, Columns
    <2>3. job' \in Jobs \cup {NoJob}
      BY <1>15, JobUpdate, ClaimedJob, WorkerKinds DEF TypeOK, ProvisionFails
    <2>4. history' \in Notes
      <3>1. Begun \subseteq Component
        BY <1>15, ClaimedJob, WorkerKinds DEF ProvisionFails, Begun, AtWork
      <3> QED BY <1>15, <3>1 DEF TypeOK, ProvisionFails, Notes
    <2> QED BY <1>15, <2>1, <2>2, <2>3, <2>4 DEF TypeOK, ProvisionFails, db
  <1>16. CASE ProvisionSucceeds
    <2>1. vm' \in Columns
      BY <1>16 DEF TypeOK, ProvisionSucceeds, Columns
    <2> QED BY <1>16, <2>1 DEF TypeOK, ProvisionSucceeds, db
  <1>17. CASE FinishGuestJob
    <2>1. vm' \in Columns
      BY <1>17, WorkerKinds
         DEF TypeOK, FinishGuestJob, EndGuestJob, Columns, Finished, AtWork
    <2>2. job' \in Jobs \cup {NoJob}
      BY <1>17 DEF TypeOK, FinishGuestJob, EndGuestJob
    <2>3. worker' \in Working \cup {Idle, [step |-> "claimed"]}
      BY <1>17 DEF TypeOK, FinishGuestJob, EndGuestJob
    <2>4. pending' \subseteq {Callback, SecondLook}
      BY <1>17 DEF TypeOK, FinishGuestJob, EndGuestJob
    <2> QED BY <1>17, <2>1, <2>2, <2>3, <2>4 DEF TypeOK, FinishGuestJob, db, EndGuestJob
  <1>18. CASE WorkerDies
    <2>1. spent' \in Expenses
      BY <1>18, BoundsAssumption DEF TypeOK, WorkerDies, Fault, Expenses
    <2>2. orphan' \in {h \in Helper : Running(h)} \cup {NoHelper}
      BY <1>18, HelperKinds DEF TypeOK, WorkerDies
    <2> QED BY <1>18, <2>1, <2>2 DEF TypeOK, WorkerDies, db
  <1>19. CASE Reclaim
    <2>1. job' \in Jobs \cup {NoJob}
      BY <1>19, JobUpdate DEF TypeOK, Reclaim
    <2> QED BY <1>19, <2>1 DEF TypeOK, Reclaim, db
  <1>20. CASE HelperWorks
    <2>1. helper' \in Helper \cup {NoHelper}
      BY <1>20, HelperKinds, StageType DEF TypeOK, HelperWorks
    <2>2. guest' \in Guest
      BY <1>20, HelperKinds, StageType DEF TypeOK, HelperWorks
    <2>3. history' \in Notes
      BY <1>20 DEF TypeOK, HelperWorks, NoteUnits, Reloads, Notes
    <2> QED BY <1>20, <2>1, <2>2, <2>3 DEF TypeOK, HelperWorks, db
  <1>21. CASE HelperFails
    <2>1. spent' \in Expenses
      BY <1>21, BoundsAssumption DEF TypeOK, HelperFails, Fault, Expenses
    <2>2. helper' \in Helper \cup {NoHelper}
      BY <1>21, HelperKinds
         DEF TypeOK, HelperFails, Helper, AccessHelpers, PolicyHelpers
    <2>3. guest' \in Guest
      BY <1>21, HelperKinds, StageType DEF TypeOK, HelperFails
    <2>4. history' \in Notes
      BY <1>21 DEF TypeOK, HelperFails, Notes
    <2> QED BY <1>21, <2>1, <2>2, <2>3, <2>4 DEF TypeOK, HelperFails, db
  <1>22. CASE WaitEnds
    <2>1. spent' \in Expenses
      BY <1>22, BoundsAssumption DEF TypeOK, WaitEnds, Fault, Expenses
    <2>2. helper' \in Helper \cup {NoHelper}
      BY <1>22, HelperKinds DEF TypeOK, WaitEnds, Helper, AccessHelpers, PolicyHelpers
    <2>3. orphan' \in {h \in Helper : Running(h)} \cup {NoHelper}
      BY <1>22, HelperKinds DEF TypeOK, WaitEnds
    <2> QED BY <1>22, <2>1, <2>2, <2>3 DEF TypeOK, WaitEnds, db
  <1>23. CASE OrphanWorks
    <2>1. orphan' \in {h \in Helper : Running(h)} \cup {NoHelper}
      BY <1>23, HelperKinds, StageType DEF TypeOK, OrphanWorks
    <2>2. guest' \in Guest
      BY <1>23, HelperKinds, StageType DEF TypeOK, OrphanWorks
    <2>3. history' \in Notes
      BY <1>23 DEF TypeOK, OrphanWorks, NoteUnits, Reloads, Notes
    <2> QED BY <1>23, <2>1, <2>2, <2>3 DEF TypeOK, OrphanWorks, db
  <1>24. CASE ProvisionAnew
    <2>1. job' \in Jobs \cup {NoJob}
      BY <1>24, NewJobType DEF TypeOK, ProvisionAnew, Action
    <2>2. vm' \in Columns /\ history' \in Notes
      BY <1>24 DEF TypeOK, ProvisionAnew, Columns, Notes
    <2>3. guest' \in Guest
      BY <1>24 DEF ProvisionAnew, NewGuest, Guest
    <2>4. spent' \in Expenses
      BY <1>24, BoundsAssumption DEF TypeOK, ProvisionAnew, Edit, Expenses
    <2> QED BY <1>24, <2>1, <2>2, <2>3, <2>4 DEF TypeOK, ProvisionAnew
  <1>25. CASE ReadUsers
    <2>1. worker' \in Working
      BY <1>25, WorkerKinds DEF TypeOK, ReadUsers, Sites, AtWork, Working
    <2> QED BY <1>25, <2>1 DEF TypeOK, ReadUsers, db
  <1> QED
    BY <1>1, <1>2, <1>3, <1>4, <1>5, <1>6, <1>7, <1>8, <1>9, <1>10,
       <1>11, <1>12, <1>13, <1>14, <1>15, <1>16, <1>17, <1>18, <1>19, <1>20,
       <1>21, <1>22, <1>23, <1>24, <1>25
    DEF Next, WorkerStep

\* Job, worker and helper belong to each other.
LEMMA WorkStep ==
    ASSUME TypeOK, WorkInv, Next
    PROVE  WorkInv'
  <1>1. CASE ChangeMembership
    BY <1>1 DEF WorkInv, ChangeMembership, db, Open, AtWork
  <1>2. CASE EditUnannounced
    BY <1>2 DEF WorkInv, EditUnannounced, db, Open, AtWork
  <1>3. ASSUME NEW c \in {Callback, SecondLook}, RunPending(c) PROVE WorkInv'
    <2>1. CASE job' = job
      BY <1>3, <2>1 DEF WorkInv, RunPending, Open, AtWork
    <2>2. CASE job' # job
      <3>1. ~Open /\ worker = Idle /\ helper = NoHelper
        BY <1>3, <2>2, JobKinds, WorkerKinds DEF WorkInv, RunPending, Look
      <3>2. PICK a \in Action, needs \in SUBSET Component :
              /\ job' = NewJob(a, needs)
              /\ a = "Patch" => needs = {"policy"}
              /\ a = "Provision" => needs = Component
        BY <1>3, <2>2 DEF RunPending, Look, Action, Drifted, Component
      <3> QED
        BY <1>3, <3>1, <3>2, NewJobType, WorkerKinds, AttemptsAssumption
           DEF WorkInv, RunPending, Open, AtWork, TypeOK, Columns
    <2> QED BY <2>1, <2>2
  <1>4. ASSUME NEW c \in {Callback, SecondLook}, LosePending(c) PROVE WorkInv'
    BY <1>4 DEF WorkInv, LosePending, db, Open, AtWork
  <1>5. CASE SyncCommand
    <2>1. CASE job' = job
      BY <1>5, <2>1 DEF WorkInv, SyncCommand, Open, AtWork
    <2>2. CASE job' # job
      <3>1. ~Open /\ worker = Idle /\ helper = NoHelper
        BY <1>5, <2>2, JobKinds, WorkerKinds DEF WorkInv, SyncCommand, Look
      <3>2. PICK a \in Action, needs \in SUBSET Component :
              /\ job' = NewJob(a, needs)
              /\ a = "Patch" => needs = {"policy"}
              /\ a = "Provision" => needs = Component
        BY <1>5, <2>2 DEF SyncCommand, Look, Action, Drifted, Component
      <3> QED
        BY <1>5, <3>1, <3>2, NewJobType, WorkerKinds, AttemptsAssumption
           DEF WorkInv, SyncCommand, Open, AtWork, TypeOK, Columns
    <2> QED BY <2>1, <2>2
  <1>6. CASE QueueProvision
    <2>1. CASE job' = job
      BY <1>6, <2>1 DEF WorkInv, QueueProvision, Open, AtWork
    <2>2. CASE job' # job
      <3>1. ~Open /\ worker = Idle /\ helper = NoHelper
        BY <1>6, <2>2, JobKinds, WorkerKinds DEF WorkInv, QueueProvision, Look
      <3>2. PICK a \in Action, needs \in SUBSET Component :
              /\ job' = NewJob(a, needs)
              /\ a = "Patch" => needs = {"policy"}
              /\ a = "Provision" => needs = Component
        BY <1>6, <2>2 DEF QueueProvision, Look, Action, Drifted, Component
      <3> QED
        BY <1>6, <3>1, <3>2, NewJobType, WorkerKinds, AttemptsAssumption
           DEF WorkInv, QueueProvision, Open, AtWork, TypeOK, Columns
    <2> QED BY <2>1, <2>2
  <1>7. CASE QueuePatch
    <2>1. CASE job' = job
      BY <1>7, <2>1 DEF WorkInv, QueuePatch, Open, AtWork
    <2>2. CASE job' # job
      <3>1. ~Open /\ worker = Idle /\ helper = NoHelper
        BY <1>7, <2>2, JobKinds, WorkerKinds DEF WorkInv, QueuePatch, Look
      <3>2. PICK a \in Action, needs \in SUBSET Component :
              /\ job' = NewJob(a, needs)
              /\ a = "Patch" => needs = {"policy"}
              /\ a = "Provision" => needs = Component
        BY <1>7, <2>2 DEF QueuePatch, Look, Action, Drifted, Component
      <3> QED
        BY <1>7, <3>1, <3>2, NewJobType, WorkerKinds, AttemptsAssumption
           DEF WorkInv, QueuePatch, Open, AtWork, TypeOK, Columns
    <2> QED BY <2>1, <2>2
  <1>8. CASE Claim
    BY <1>8, JobUpdate, JobKinds, WorkerKinds, HelperKinds
       DEF TypeOK, WorkInv, Claim, db, AtWork
  <1>9. CASE Begin
    BY <1>9, WorkerKinds, JobKinds, HelperKinds
       DEF TypeOK, WorkInv, Begin, Drop, db, AtWork, Ready, Asked, Working
  <1>10. CASE Refuse
    <2>1. job' = NoJob /\ worker' = Idle /\ helper' = NoHelper
      BY <1>10, WorkerKinds, ClaimedJob
         DEF WorkInv, Refuse, EndGuestJob, Columns, TypeOK, AtWork
    <2> QED BY <2>1 DEF WorkInv, Open, NoJob, Idle, AtWork
  <1>11. CASE Call
    BY <1>11, NextLeft, WorkerKinds, JobKinds, HelperKinds
       DEF TypeOK, WorkInv, Call, db, AtWork, AccessHelper, PolicyHelper,
           NoHelper, Working, Component
  <1>12. CASE RecordAccess
    BY <1>12, WorkerKinds, JobKinds, HelperKinds
       DEF TypeOK, WorkInv, RecordAccess, Wait, Done, db, AtWork, Working,
           Columns
  <1>13. CASE RecordPolicy
    BY <1>13, WorkerKinds, JobKinds, HelperKinds
       DEF TypeOK, WorkInv, RecordPolicy, Wait, Done, db, AtWork, Working,
           Columns
  <1>14. CASE NoteFailure
    BY <1>14, WorkerKinds, JobKinds, HelperKinds
       DEF TypeOK, WorkInv, NoteFailure, Done, db, AtWork, Working
  <1>15. CASE ProvisionFails
    <2>1. worker' = Idle /\ helper' = NoHelper
      BY <1>15 DEF ProvisionFails
    <2>2. CASE job' = NoJob
      BY <2>1, <2>2 DEF WorkInv, Open, NoJob, Idle, AtWork
    <2>3. CASE job' # NoJob
      <3>1. job' = [job EXCEPT !.status = "Queued"] /\ job.attempts < MaxAttempts
        BY <1>15, <2>3 DEF ProvisionFails
      <3>2. Open /\ job.needs = Component /\ job.action = "Provision"
        BY <1>15, ClaimedJob, WorkerKinds DEF WorkInv, ProvisionFails
      <3> QED BY <2>1, <3>1, <3>2, JobUpdate DEF WorkInv, Open, NoJob, Idle, AtWork
    <2> QED BY <2>2, <2>3
  <1>16. CASE ProvisionSucceeds
    <2>1. job' = NoJob /\ worker' = Idle /\ helper' = NoHelper
      BY <1>16, WorkerKinds, ClaimedJob
         DEF WorkInv, ProvisionSucceeds, Finished, Columns, TypeOK, AtWork
    <2> QED BY <2>1 DEF WorkInv, Open, NoJob, Idle, AtWork
  <1>17. CASE FinishGuestJob
    <2>1. job' = NoJob /\ worker' = Idle /\ helper' = NoHelper
      BY <1>17, WorkerKinds, ClaimedJob
         DEF WorkInv, FinishGuestJob, Finished, EndGuestJob, Columns, TypeOK,
             AtWork
    <2> QED BY <2>1 DEF WorkInv, Open, NoJob, Idle, AtWork
  <1>18. CASE WorkerDies
    BY <1>18, WorkerKinds, JobKinds, HelperKinds
       DEF TypeOK, WorkInv, WorkerDies, Fault, db, AtWork
  <1>19. CASE Reclaim
    BY <1>19, JobUpdate, JobKinds, WorkerKinds, HelperKinds
       DEF TypeOK, WorkInv, Reclaim, db, AtWork
  <1>20. CASE HelperWorks
    <2>1. helper' # NoHelper /\ helper'.kind = helper.kind
      BY <1>20, HelperKinds, Stage, StageType DEF TypeOK, HelperWorks, Helper
    <2> QED BY <1>20, <2>1, HelperKinds
               DEF TypeOK, WorkInv, HelperWorks, db, Open, AtWork
  <1>21. CASE HelperFails
    BY <1>21, WorkerKinds, JobKinds, HelperKinds
       DEF TypeOK, WorkInv, HelperFails, Fault, db, AtWork, Helper,
           AccessHelpers, PolicyHelpers
  <1>22. CASE WaitEnds
    BY <1>22, WorkerKinds, JobKinds, HelperKinds
       DEF TypeOK, WorkInv, WaitEnds, Fault, db, AtWork, Helper, AccessHelpers,
           PolicyHelpers
  <1>23. CASE OrphanWorks
    BY <1>23 DEF WorkInv, OrphanWorks, db, Open, AtWork
  <1>24. CASE ProvisionAnew
    <2>1. ~Open /\ worker = Idle /\ helper = NoHelper
      BY <1>24, JobKinds, WorkerKinds DEF WorkInv, ProvisionAnew
    <2>2. job' = NewJob("Provision", Component)
      BY <1>24 DEF ProvisionAnew
    <2> QED
      BY <1>24, <2>1, <2>2, NewJobType, WorkerKinds, AttemptsAssumption
         DEF WorkInv, ProvisionAnew, Open, AtWork, Action
  <1>25. CASE ReadUsers
    <2>1. /\ AtWork /\ worker'.asked = worker.asked /\ worker'.todo = worker.todo
          /\ worker'.bad = worker.bad /\ worker'.step = "next" /\ worker # Idle
      BY <1>25, WorkerKinds DEF ReadUsers, AtWork, Working
    <2> QED BY <1>25, <2>1 DEF WorkInv, ReadUsers, db, Open, AtWork
  <1> QED
    BY <1>1, <1>2, <1>3, <1>4, <1>5, <1>6, <1>7, <1>8, <1>9, <1>10,
       <1>11, <1>12, <1>13, <1>14, <1>15, <1>16, <1>17, <1>18, <1>19, <1>20,
       <1>21, <1>22, <1>23, <1>24, <1>25
    DEF Next, WorkerStep

\* What the worker's helper shows stays done.
LEMMA HelperStep ==
    ASSUME TypeOK, WorkInv, HelperInv, Next
    PROVE  HelperInv'
  <1>1. CASE ChangeMembership
    BY <1>1 DEF HelperInv, Loose, ChangeMembership, Edit, db, TypeOK, Notes
  <1>2. CASE EditUnannounced
    BY <1>2 DEF HelperInv, Loose, EditUnannounced, Edit, db, TypeOK, Notes
  <1>3. ASSUME NEW c \in {Callback, SecondLook}, RunPending(c) PROVE HelperInv'
    BY <1>3 DEF HelperInv, Loose, RunPending, Look, On, db, TypeOK, Notes
  <1>4. ASSUME NEW c \in {Callback, SecondLook}, LosePending(c) PROVE HelperInv'
    BY <1>4 DEF HelperInv, Loose, LosePending, Fault, db, TypeOK, Notes
  <1>5. CASE SyncCommand
    BY <1>5 DEF HelperInv, Loose, SyncCommand, Look, On, db, TypeOK, Notes
  <1>6. CASE QueueProvision
    BY <1>6 DEF HelperInv, Loose, QueueProvision, db, TypeOK, Notes
  <1>7. CASE QueuePatch
    BY <1>7 DEF HelperInv, Loose, QueuePatch, db, TypeOK, Notes
  <1>8. CASE Claim
    BY <1>8 DEF HelperInv, Loose, Claim, db, TypeOK, Notes
  <1>9. CASE Begin
    BY <1>9, WorkerKinds, HelperKinds DEF TypeOK, WorkInv, HelperInv, Begin
  <1>10. CASE Refuse
    BY <1>10, WorkerKinds, HelperKinds DEF TypeOK, WorkInv, HelperInv, Refuse
  <1>11. CASE Call
    <2>1. PICK k \in Component :
            /\ helper'.kind = k /\ helper'.stage = "begun" /\ helper' # NoHelper
            /\ history'.overlapped = IF Running(orphan) /\ orphan.kind = k
                                     THEN history.overlapped \cup {k}
                                     ELSE history.overlapped \ {k}
      BY <1>11, NextLeft, WorkerKinds
         DEF Call, AtWork, AccessHelper, PolicyHelper, NoHelper, Component, TypeOK, Notes
    <2> QED BY <1>11, <2>1 DEF Call, HelperInv, Loose, db
  <1>12. CASE RecordAccess
    BY <1>12, WorkerKinds, HelperKinds DEF TypeOK, WorkInv, HelperInv, RecordAccess
  <1>13. CASE RecordPolicy
    BY <1>13, WorkerKinds, HelperKinds DEF TypeOK, WorkInv, HelperInv, RecordPolicy
  <1>14. CASE NoteFailure
    BY <1>14, WorkerKinds, HelperKinds DEF TypeOK, WorkInv, HelperInv, NoteFailure
  <1>15. CASE ProvisionFails
    BY <1>15, WorkerKinds, HelperKinds DEF TypeOK, WorkInv, HelperInv, ProvisionFails
  <1>16. CASE ProvisionSucceeds
    BY <1>16, WorkerKinds, HelperKinds
       DEF TypeOK, WorkInv, HelperInv, ProvisionSucceeds, Finished
  <1>17. CASE FinishGuestJob
    BY <1>17, WorkerKinds, HelperKinds
       DEF TypeOK, WorkInv, HelperInv, FinishGuestJob, Finished
  <1>18. CASE WorkerDies
    BY <1>18, WorkerKinds, HelperKinds DEF TypeOK, WorkInv, HelperInv, WorkerDies
  <1>19. CASE Reclaim
    BY <1>19 DEF HelperInv, Loose, Reclaim, db, TypeOK, Notes
  <1>20. CASE HelperWorks
    <2>1. helper \in Helper /\ Running(helper) /\ helper # NoHelper /\ helper.stage # "failed"
      BY <1>20, HelperKinds DEF TypeOK, HelperWorks, Running
    <2>2. helper'.kind = helper.kind /\ helper'.stage # "failed"
      BY <1>20, <2>1, HelperKinds, Stage DEF TypeOK, HelperWorks
    <2>3. helper \in AccessHelpers => guest'.accounts = helper'.users
      BY <1>20, <2>1, Stage DEF TypeOK, HelperWorks, Guest
    <2>4. helper \in PolicyHelpers /\ helper.stage = "begun" => guest'.policy = helper'.payload
      BY <1>20, <2>1, Stage DEF TypeOK, HelperWorks, Guest
    <2>5. helper \in PolicyHelpers /\ helper.stage # "begun" =>
            guest'.policy = guest.policy /\ helper'.payload = helper.payload
      BY <1>20, <2>1, Stage DEF TypeOK, HelperWorks, Guest
    <2>6. /\ history'.overlapped = history.overlapped
          /\ Loose(helper.kind)' <=> Loose(helper.kind)
      BY <1>20, <2>2 DEF TypeOK, HelperWorks, NoteUnits, Notes, Loose
    <2> QED BY <2>1, <2>2, <2>3, <2>4, <2>5, <2>6, HelperKinds DEF HelperInv, Loose
  <1>21. CASE HelperFails
    BY <1>21
       DEF TypeOK, HelperInv, HelperFails, Helper, AccessHelpers, PolicyHelpers,
           NoHelper, Running
  <1>22. CASE WaitEnds
    BY <1>22
       DEF TypeOK, HelperInv, WaitEnds, Helper, AccessHelpers, PolicyHelpers,
           NoHelper, Running
  <1>23. CASE OrphanWorks
    <2>1. SUFFICES ASSUME helper # NoHelper, helper.stage # "failed",
                          helper.kind \notin history.overlapped
                   PROVE  HelperInv'
      BY <1>23 DEF OrphanWorks, NoteUnits, HelperInv, Notes, TypeOK
    <2>2. orphan \in Helper /\ Running(orphan) /\ orphan.kind # helper.kind
      BY <1>23, <2>1, HelperKinds DEF TypeOK, OrphanWorks, HelperInv, Loose
    <2>3. helper.kind = "access" => guest'.accounts = guest.accounts
      BY <1>23, <2>2, Stage, HelperKinds DEF TypeOK, OrphanWorks, Guest
    <2>4. helper.kind = "policy" => guest'.policy = guest.policy
      BY <1>23, <2>2, Stage, HelperKinds DEF TypeOK, OrphanWorks, Guest
    <2>5. orphan' = NoHelper \/ orphan'.kind = orphan.kind
      BY <1>23, <2>2, Stage, HelperKinds DEF TypeOK, OrphanWorks
    <2>6. helper' = helper /\ ~Loose(helper.kind)'
      BY <1>23, <2>2, <2>5, HelperKinds DEF OrphanWorks, Loose, Running
    <2> QED BY <2>1, <2>2, <2>3, <2>4, <2>6, HelperKinds DEF TypeOK, HelperInv
  <1>24. CASE ProvisionAnew
    <2>1. helper' = NoHelper
      BY <1>24, JobKinds, WorkerKinds DEF WorkInv, ProvisionAnew
    <2> QED BY <2>1 DEF HelperInv
  <1>25. CASE ReadUsers
    BY <1>25 DEF HelperInv, Loose, ReadUsers
  <1> QED
    BY <1>1, <1>2, <1>3, <1>4, <1>5, <1>6, <1>7, <1>8, <1>9, <1>10,
       <1>11, <1>12, <1>13, <1>14, <1>15, <1>16, <1>17, <1>18, <1>19, <1>20,
       <1>21, <1>22, <1>23, <1>24, <1>25
    DEF Next, WorkerStep

\* What is recorded in this attempt has no error.
LEMMA RecordStep ==
    ASSUME TypeOK, WorkInv, RecordInv, Next
    PROVE  RecordInv'
  <1>1. CASE ChangeMembership
    BY <1>1 DEF RecordInv, AtWork, Left, ChangeMembership, Edit, db, TypeOK
  <1>2. CASE EditUnannounced
    BY <1>2 DEF RecordInv, AtWork, Left, EditUnannounced, Edit, db, TypeOK
  <1>3. ASSUME NEW c \in {Callback, SecondLook}, RunPending(c) PROVE RecordInv'
    BY <1>3 DEF RecordInv, AtWork, Left, RunPending, Look, On, db, TypeOK
  <1>4. ASSUME NEW c \in {Callback, SecondLook}, LosePending(c) PROVE RecordInv'
    BY <1>4 DEF RecordInv, AtWork, Left, LosePending, Fault, db, TypeOK
  <1>5. CASE SyncCommand
    BY <1>5 DEF RecordInv, AtWork, Left, SyncCommand, Look, On, db, TypeOK
  <1>6. CASE QueueProvision
    BY <1>6, JobKinds, WorkerKinds DEF QueueProvision, WorkInv, AtWork, RecordInv
  <1>7. CASE QueuePatch
    BY <1>7 DEF RecordInv, AtWork, Left, QueuePatch, db, TypeOK
  <1>8. CASE Claim
    BY <1>8 DEF RecordInv, AtWork, Left, Claim, db, TypeOK
  <1>9. CASE Begin
    BY <1>9 DEF RecordInv, AtWork, Left, Begin, Drop, db, TypeOK
  <1>10. CASE Refuse
    BY <1>10 DEF RecordInv, AtWork, Left, Refuse, EndGuestJob, Drop, Fault, db, Idle
  <1>11. CASE Call
    <2>1. worker'.asked = worker.asked /\ worker'.bad = worker.bad /\ worker'.todo = worker.todo
      BY <1>11, WorkerKinds DEF TypeOK, Call, AtWork, Working
    <2> QED BY <1>11, <2>1 DEF Call, db, RecordInv, AtWork, Left
  <1>12. CASE RecordAccess
    <2>1. /\ worker'.asked = worker.asked /\ worker'.bad = worker.bad
          /\ worker'.todo = worker.todo \ {helper.kind}
          /\ vm'.errors = vm.errors \ {helper.kind}
      BY <1>12, WorkerKinds
         DEF TypeOK, RecordAccess, Wait, Done, AtWork, Working, Columns
    <2> QED BY <1>12, <2>1 DEF RecordAccess, Wait, RecordInv, AtWork, Left
  <1>13. CASE RecordPolicy
    <2>1. /\ worker'.asked = worker.asked /\ worker'.bad = worker.bad
          /\ worker'.todo = worker.todo \ {helper.kind}
          /\ vm'.errors = vm.errors \ {helper.kind}
      BY <1>13, WorkerKinds
         DEF TypeOK, RecordPolicy, Wait, Done, AtWork, Working, Columns
    <2> QED BY <1>13, <2>1 DEF RecordPolicy, Wait, RecordInv, AtWork, Left
  <1>14. CASE NoteFailure
    <2>1. /\ worker'.asked = worker.asked /\ worker'.bad = worker.bad \cup {helper.kind}
          /\ worker'.todo = worker.todo \ {helper.kind}
      BY <1>14, WorkerKinds DEF TypeOK, NoteFailure, Done, AtWork, Working
    <2> QED BY <1>14, <2>1 DEF NoteFailure, db, RecordInv, AtWork, Left
  <1>15. CASE ProvisionFails
    BY <1>15 DEF RecordInv, AtWork, Left, ProvisionFails, Fault, db, Idle
  <1>16. CASE ProvisionSucceeds
    BY <1>16 DEF RecordInv, AtWork, Left, ProvisionSucceeds, Finished, db, Idle
  <1>17. CASE FinishGuestJob
    BY <1>17
       DEF RecordInv, AtWork, Left, FinishGuestJob, Finished, EndGuestJob, db,
           Idle
  <1>18. CASE WorkerDies
    BY <1>18 DEF RecordInv, AtWork, Left, WorkerDies, Fault, db, Idle
  <1>19. CASE Reclaim
    BY <1>19 DEF RecordInv, AtWork, Left, Reclaim, db, TypeOK
  <1>20. CASE HelperWorks
    BY <1>20 DEF RecordInv, AtWork, Left, HelperWorks, db, TypeOK
  <1>21. CASE HelperFails
    BY <1>21 DEF RecordInv, AtWork, Left, HelperFails, Fault, db, TypeOK
  <1>22. CASE WaitEnds
    BY <1>22 DEF RecordInv, AtWork, Left, WaitEnds, Fault, db, TypeOK
  <1>23. CASE OrphanWorks
    BY <1>23 DEF RecordInv, AtWork, Left, OrphanWorks, db, TypeOK
  <1>24. CASE ProvisionAnew
    BY <1>24, JobKinds, WorkerKinds DEF ProvisionAnew, WorkInv, AtWork, RecordInv
  <1>25. CASE ReadUsers
    <2>1. /\ AtWork /\ worker'.asked = worker.asked /\ worker'.todo = worker.todo
          /\ worker'.bad = worker.bad
      BY <1>25, WorkerKinds DEF ReadUsers, AtWork, Working
    <2> QED BY <1>25, <2>1 DEF RecordInv, ReadUsers, db, Left
  <1> QED
    BY <1>1, <1>2, <1>3, <1>4, <1>5, <1>6, <1>7, <1>8, <1>9, <1>10,
       <1>11, <1>12, <1>13, <1>14, <1>15, <1>16, <1>17, <1>18, <1>19, <1>20,
       <1>21, <1>22, <1>23, <1>24, <1>25
    DEF Next, WorkerStep

\* What is recorded is real, or someone sees to it.
LEMMA SyncStep ==
    ASSUME TypeOK, WorkInv, HelperInv, RecordInv, SyncInv, Next
    PROVE  SyncInv'
  <1>1. CASE ChangeMembership
    BY <1>1
       DEF TypeOK, ChangeMembership, db, Notes, SyncInv, Redone,
           Excused, Real, Loose, Accounts, AtWork, Left, Fresh, Open
  <1>2. CASE EditUnannounced
    BY <1>2
       DEF TypeOK, EditUnannounced, db, Notes, SyncInv, Redone,
           Excused, Real, Loose, Accounts, AtWork, Left, Fresh, Open
  <1>3. ASSUME NEW c \in {Callback, SecondLook}, RunPending(c) PROVE SyncInv'
    <2>1. CASE job' = job
      BY <1>3, <2>1
         DEF TypeOK, RunPending, Look, Notes, SyncInv, Redone,
             Excused, Real, Loose, Accounts, AtWork, Left, Fresh, Open
    <2>2. CASE job' # job
      <3>1. ~Open /\ worker = Idle
        BY <1>3, <2>2, JobKinds, WorkerKinds DEF WorkInv, RunPending, Look, Look
      <3>2. job'.attempts = 0
        BY <1>3, <2>2, NewJobType DEF RunPending, Look, Look, Action, Drifted, Component
      <3>3. \A k \in Component : Excused(k) \/ (Real(k) /\ ~Loose(k))
        BY <3>1 DEF SyncInv, Redone
      <3>4. \A k \in Component : Excused(k)' \/ (Real(k) /\ ~Loose(k))'
        BY <1>3, <3>1, <3>3, WorkerKinds
           DEF RunPending, Look, Notes, Columns, TypeOK, Excused, Real, Loose,
               Accounts, AtWork
      <3> QED BY <3>4 DEF SyncInv
    <2> QED BY <2>1, <2>2
  <1>4. ASSUME NEW c \in {Callback, SecondLook}, LosePending(c) PROVE SyncInv'
    BY <1>4
       DEF TypeOK, LosePending, db, Notes, SyncInv, Redone, Excused,
           Real, Loose, Accounts, AtWork, Left, Fresh, Open
  <1>5. CASE SyncCommand
    <2>1. CASE job' = job
      BY <1>5, <2>1
         DEF TypeOK, SyncCommand, Look, Notes, SyncInv, Redone,
             Excused, Real, Loose, Accounts, AtWork, Left, Fresh, Open
    <2>2. CASE job' # job
      <3>1. ~Open /\ worker = Idle
        BY <1>5, <2>2, JobKinds, WorkerKinds DEF WorkInv, SyncCommand, Look, Look
      <3>2. job'.attempts = 0
        BY <1>5, <2>2, NewJobType
           DEF SyncCommand, Look, Look, Action, Drifted, Component
      <3>3. \A k \in Component : Excused(k) \/ (Real(k) /\ ~Loose(k))
        BY <3>1 DEF SyncInv, Redone
      <3>4. \A k \in Component : Excused(k)' \/ (Real(k) /\ ~Loose(k))'
        BY <1>5, <3>1, <3>3, WorkerKinds
           DEF SyncCommand, Look, Notes, Columns, TypeOK, Excused, Real, Loose,
               Accounts, AtWork
      <3> QED BY <3>4 DEF SyncInv
    <2> QED BY <2>1, <2>2
  <1>6. CASE QueueProvision
    <2>1. CASE job' = job
      BY <1>6, <2>1
         DEF TypeOK, QueueProvision, Notes, SyncInv, Redone, Excused,
             Real, Loose, Accounts, AtWork, Left, Fresh, Open
    <2>2. CASE job' # job
      <3>1. ~Open /\ worker = Idle
        BY <1>6, <2>2, JobKinds, WorkerKinds DEF WorkInv, QueueProvision, Look
      <3>2. job'.attempts = 0
        BY <1>6, <2>2, NewJobType DEF QueueProvision, Look, Action, Drifted, Component
      <3>3. \A k \in Component : Excused(k) \/ (Real(k) /\ ~Loose(k))
        BY <3>1 DEF SyncInv, Redone
      <3>4. \A k \in Component : Excused(k)' \/ (Real(k) /\ ~Loose(k))'
        BY <1>6, <3>1, <3>3, WorkerKinds
           DEF QueueProvision, Notes, Columns, TypeOK, Excused, Real, Loose,
               Accounts, AtWork
      <3> QED BY <3>4 DEF SyncInv
    <2> QED BY <2>1, <2>2
  <1>7. CASE QueuePatch
    <2>1. CASE job' = job
      BY <1>7, <2>1
         DEF TypeOK, QueuePatch, Notes, SyncInv, Redone, Excused,
             Real, Loose, Accounts, AtWork, Left, Fresh, Open
    <2>2. CASE job' # job
      <3>1. ~Open /\ worker = Idle
        BY <1>7, <2>2, JobKinds, WorkerKinds DEF WorkInv, QueuePatch, Look
      <3>2. job'.attempts = 0
        BY <1>7, <2>2, NewJobType DEF QueuePatch, Look, Action, Drifted, Component
      <3>3. \A k \in Component : Excused(k) \/ (Real(k) /\ ~Loose(k))
        BY <3>1 DEF SyncInv, Redone
      <3>4. \A k \in Component : Excused(k)' \/ (Real(k) /\ ~Loose(k))'
        BY <1>7, <3>1, <3>3, WorkerKinds
           DEF QueuePatch, Notes, Columns, TypeOK, Excused, Real, Loose,
               Accounts, AtWork
      <3> QED BY <3>4 DEF SyncInv
    <2> QED BY <2>1, <2>2
  <1>8. CASE Claim
    <2>1. /\ Open /\ Open' /\ ~AtWork /\ ~AtWork' /\ job.attempts \in Nat
          /\ job'.needs = job.needs /\ UNCHANGED <<guest, vm, orphan, history>>
      BY <1>8, JobKinds, JobUpdate, AttemptsAssumption
         DEF Claim, AtWork, Idle, WorkInv, Open, NoJob, Jobs
    <2>2. Fresh' => Fresh
      BY <1>8, <2>1, JobUpdate DEF Claim, Fresh, Idle, WorkInv
    <2> QED
      BY <2>1, <2>2 DEF SyncInv, Redone, Excused, Real, Loose, Accounts
  <1>9. CASE Begin
    <2>1. Open /\ job.needs \subseteq Component /\ job.attempts \in 1..MaxAttempts /\ ~AtWork
      BY <1>9, ClaimedJob, WorkerKinds DEF Begin, AtWork
    <2>2. /\ worker'.todo = Asked /\ worker'.bad = {} /\ worker'.step = "asked"
          /\ UNCHANGED <<guest, vm, job, orphan>>
      BY <1>9 DEF Begin, db
    <2>3. /\ history'.overlapped = history.overlapped /\ history'.refiled = history.refiled
          /\ history'.recloned = history.recloned /\ history.dropped \subseteq history'.dropped
          /\ job.attempts > 1 => job.needs \ Asked \subseteq history'.dropped
      BY <1>9 DEF TypeOK, Notes, Begin, Drop
    <2>4. job.attempts > 1 => ~Fresh'
      BY <2>1, <2>2 DEF Fresh
    <2>5. ASSUME NEW k \in Component
          PROVE  (Redone(k) \/ Excused(k) \/ (Real(k) /\ ~Loose(k)))'
      <3>1. CASE k \in Asked /\ k \in job.needs /\ job.attempts > 1
        BY <2>1, <2>2, <2>4, <3>1 DEF Redone, Open, Left
      <3>2. CASE k \in job.needs \ Asked /\ job.attempts > 1
        BY <2>3, <3>2 DEF Excused
      <3>3. CASE k \notin job.needs \/ job.attempts <= 1
        <4>1. ~Redone(k)
          BY <1>9, <2>1, <3>3 DEF Redone, Fresh, Begin
        <4> QED
          BY <2>2, <2>3, <4>1 DEF SyncInv, Excused, Real, Loose, Accounts
      <3> QED BY <2>1, <3>1, <3>2, <3>3
    <2> QED BY <2>5 DEF SyncInv
  <1>10. CASE Refuse
    <2>1. Open /\ job.needs \subseteq Component /\ job.attempts \in 1..MaxAttempts /\ ~AtWork
          /\ job.action # "Provision"
      BY <1>10, ClaimedJob, WorkerKinds DEF Refuse, AtWork
    <2>2. /\ job' = NoJob /\ worker' = Idle /\ UNCHANGED <<guest, orphan>>
          /\ vm'.applied = vm.applied
          /\ vm'.digest = vm.digest /\ vm.errors \subseteq vm'.errors
          /\ job.needs \cap Asked \subseteq vm'.errors
      BY <1>10, <2>1 DEF TypeOK, Columns, Refuse, EndGuestJob, WorkInv, Asked
    <2>3. /\ history'.overlapped = history.overlapped /\ history'.refiled = history.refiled
          /\ history'.recloned = history.recloned /\ history.dropped \subseteq history'.dropped
          /\ job.attempts > 1 => job.needs \ Asked \subseteq history'.dropped
      BY <1>10 DEF TypeOK, Notes, Refuse, Drop
    <2>4. ASSUME NEW k \in Component
          PROVE  (Excused(k) \/ (Real(k) /\ ~Loose(k)))'
      <3>1. CASE k \in job.needs /\ job.attempts > 1
        BY <2>2, <2>3, <3>1 DEF Excused
      <3>2. CASE k \notin job.needs \/ job.attempts <= 1
        <4>1. ~Redone(k)
          BY <1>10, <2>1, <3>2 DEF Redone, Fresh, Refuse
        <4> QED
          BY <2>1, <2>2, <2>3, <4>1
             DEF SyncInv, Excused, Real, Loose, Accounts, AtWork, Idle
      <3> QED BY <2>1, <3>1, <3>2
    <2> QED BY <2>4 DEF SyncInv
  <1>11. CASE Call
    <2>1. PICK k \in worker.todo :
            /\ k \in Component
            /\ history'.overlapped \cup {k} = history.overlapped \cup {k}
      BY <1>11, NextLeft, WorkerKinds DEF Call, AtWork, TypeOK, Notes
    <2>2. /\ worker'.todo = worker.todo /\ worker'.bad = worker.bad /\ worker'.step = "wait"
          /\ worker.step = "next" /\ UNCHANGED <<guest, vm, job, orphan>>
          /\ history'.dropped = history.dropped /\ history'.refiled = history.refiled
          /\ history'.recloned = history.recloned
      BY <1>11, WorkerKinds DEF TypeOK, Call, AtWork, Working, db, Notes
    <2>3. Redone(k)'
      <3>1. Open /\ worker.todo \subseteq job.needs /\ job.attempts >= 1 /\ job.attempts \in Nat
        BY <1>11, ClaimedJob, WorkerKinds DEF WorkInv, AtWork, Call
      <3> QED BY <2>1, <2>2, <3>1 DEF Redone, Open, Fresh, Left
    <2>4. ASSUME NEW j \in Component, j # k
          PROVE  (Redone(j) \/ Excused(j) \/ (Real(j) /\ ~Loose(j)))'
      BY <2>1, <2>2, <2>4
         DEF SyncInv, Redone, Excused, Real, Loose, Accounts, AtWork,
             Left, Fresh, Open
    <2> QED BY <2>3, <2>4 DEF SyncInv
  <1>12. CASE RecordAccess
    <2>1. /\ worker.step = "wait" /\ helper.kind = "access" /\ helper.stage = "done"
          /\ helper # NoHelper /\ worker'.step = "next" /\ UNCHANGED <<guest, job, orphan>>
          /\ worker'.todo = worker.todo \ {"access"} /\ worker'.bad = worker.bad
      BY <1>12, WorkerKinds
         DEF TypeOK, WorkInv, RecordAccess, Wait, Done, AtWork, Working
    <2>2. /\ vm'.errors = vm.errors \ {"access"}
          /\ history'.overlapped = history.overlapped
          /\ history'.dropped = history.dropped \ {"access"}
          /\ history'.recloned = history.recloned \ {"access"}
      BY <1>12 DEF TypeOK, RecordAccess, Columns, Notes
    <2>3. (Excused("access") \/ (Real("access") /\ ~Loose("access")))'
      <3>1. CASE "access" \in history.overlapped
        BY <2>2, <3>1 DEF Excused
      <3>2. CASE "access" \notin history.overlapped
        <4>1. guest.accounts = helper.users /\ ~Loose("access")
          BY <2>1, <3>2 DEF HelperInv
        <4>2. helper.users \in Users /\ helper.users # Nothing
          BY <2>1, HelperKinds, NothingAssumption DEF TypeOK, AccessHelpers
        <4>3. vm'.applied = helper.users
          BY <1>12 DEF TypeOK, RecordAccess, Columns
        <4> QED BY <2>1, <4>1, <4>2, <4>3 DEF Real, Accounts, Loose
      <3> QED BY <3>1, <3>2
    <2>4. ASSUME NEW j \in Component, j # "access"
          PROVE  (Redone(j) \/ Excused(j) \/ (Real(j) /\ ~Loose(j)))'
      <3>1. Real(j) => Real(j)'
        BY <1>12, <2>4
           DEF RecordAccess, TypeOK, Columns, Notes, Real, Accounts,
               Component
      <3> QED
        BY <2>1, <2>2, <2>4, <3>1
           DEF SyncInv, Redone, Excused, Loose, AtWork, Left, Fresh, Open
    <2> QED BY <2>3, <2>4 DEF SyncInv
  <1>13. CASE RecordPolicy
    <2>1. /\ worker.step = "wait" /\ helper.kind = "policy" /\ helper.stage = "done"
          /\ helper # NoHelper /\ worker'.step = "next" /\ UNCHANGED <<guest, job, orphan>>
          /\ worker'.todo = worker.todo \ {"policy"} /\ worker'.bad = worker.bad
      BY <1>13, WorkerKinds
         DEF TypeOK, WorkInv, RecordPolicy, Wait, Done, AtWork, Working
    <2>2. /\ vm'.errors = vm.errors \ {"policy"}
          /\ history'.overlapped = history.overlapped
          /\ history'.dropped = history.dropped \ {"policy"}
          /\ history'.recloned = history.recloned \ {"policy"}
      BY <1>13 DEF TypeOK, RecordPolicy, Columns, Notes
    <2>3. (Excused("policy") \/ (Real("policy") /\ ~Loose("policy")))'
      <3>1. CASE "policy" \in history.overlapped
        BY <2>2, <3>1 DEF Excused
      <3>2. CASE "policy" \notin history.overlapped
        <4>1. guest.policy = helper.payload /\ ~Loose("policy")
          BY <2>1, <3>2 DEF HelperInv
        <4>2. vm'.digest = helper.payload \/ history'.refiled
          BY <1>13 DEF TypeOK, RecordPolicy, Columns, Notes
        <4> QED BY <2>1, <4>1, <4>2 DEF Real, Loose
      <3> QED BY <3>1, <3>2
    <2>4. ASSUME NEW j \in Component, j # "policy"
          PROVE  (Redone(j) \/ Excused(j) \/ (Real(j) /\ ~Loose(j)))'
      <3>1. Real(j) => Real(j)'
        BY <1>13, <2>4
           DEF RecordPolicy, TypeOK, Columns, Notes, Real, Accounts,
               Component
      <3> QED
        BY <2>1, <2>2, <2>4, <3>1
           DEF SyncInv, Redone, Excused, Loose, AtWork, Left, Fresh, Open
    <2> QED BY <2>3, <2>4 DEF SyncInv
  <1>14. CASE NoteFailure
    <2>1. /\ worker.step = "wait" /\ worker'.step = "next"
          /\ UNCHANGED <<guest, vm, job, orphan, history>>
          /\ worker'.todo = worker.todo \ {helper.kind}
          /\ worker'.bad = worker.bad \cup {helper.kind}
      BY <1>14, WorkerKinds DEF TypeOK, NoteFailure, db, Done, AtWork, Working
    <2> QED
      BY <2>1
         DEF SyncInv, Redone, Excused, Real, Loose, Accounts, AtWork,
             Left, Fresh, Open
  <1>15. CASE ProvisionFails
    <2>1. /\ Open /\ job.needs = Component /\ job.attempts \in 1..MaxAttempts
          /\ worker' = Idle /\ ~AtWork' /\ UNCHANGED <<guest, orphan>>
          /\ vm'.applied = vm.applied /\ vm'.digest = vm.digest /\ vm'.errors = vm.errors
      BY <1>15, ClaimedJob, WorkerKinds
         DEF TypeOK, WorkInv, Columns, ProvisionFails, AtWork, Idle
    <2>2. CASE job' = NoJob
      <3>1. /\ history'.overlapped = history.overlapped /\ history'.refiled = history.refiled
            /\ history'.recloned = history.recloned
            /\ history'.dropped = history.dropped \cup Begun
        BY <1>15, <2>1, <2>2, JobUpdate DEF TypeOK, Notes, ProvisionFails, Jobs, NoJob
      <3>2. ASSUME NEW k \in Component
            PROVE  (Excused(k) \/ (Real(k) /\ ~Loose(k)))'
        <4>1. CASE k \in Begun
          BY <3>1, <4>1 DEF Excused
        <4>2. CASE k \notin Begun
          <5>1. ~Redone(k)
            BY <1>15, <2>1, <4>2, WorkerKinds
               DEF Redone, Begun, Fresh, Left, AtWork, WorkInv, ProvisionFails
          <5> QED BY <2>1, <3>1, <5>1 DEF SyncInv, Excused, Real, Loose, Accounts
        <4> QED BY <4>1, <4>2
      <3> QED BY <3>2 DEF SyncInv
    <2>3. CASE job' # NoJob
      <3>1. Open' /\ job'.needs = Component /\ job'.attempts = job.attempts
        BY <1>15, <2>1, <2>3, JobUpdate DEF ProvisionFails, Open
      <3> QED BY <2>1, <3>1 DEF SyncInv, Redone, Fresh, Idle
    <2> QED BY <2>2, <2>3
  <1>16. CASE ProvisionSucceeds
    <2>1. /\ AtWork /\ worker.todo = {} /\ worker.bad = {} /\ job.action = "Provision"
          /\ UNCHANGED <<guest, orphan, history>>
          /\ vm'.applied = vm.applied /\ vm'.digest = vm.digest /\ vm'.errors = vm.errors
      BY <1>16, ClaimedJob, WorkerKinds
         DEF TypeOK, WorkInv, Columns, ProvisionSucceeds, Finished, AtWork
    <2>2. \A k \in Component : Excused(k) \/ (Real(k) /\ ~Loose(k))
      BY <2>1 DEF SyncInv, Redone, Left
    <2> QED BY <2>1, <2>2 DEF SyncInv, Excused, Real, Loose, Accounts
  <1>17. CASE FinishGuestJob
    <2>1. /\ AtWork /\ worker.todo = {} /\ job.action # "Provision"
          /\ UNCHANGED <<guest, orphan, history>>
          /\ vm'.applied = vm.applied /\ vm'.digest = vm.digest
          /\ vm'.errors = (vm.errors \ worker.asked) \cup worker.bad
      BY <1>17, WorkerKinds
         DEF TypeOK, WorkInv, Columns, FinishGuestJob, Finished, EndGuestJob, AtWork
    <2>2. ASSUME NEW k \in Component
          PROVE  (Excused(k) \/ (Real(k) /\ ~Loose(k)))'
      <3>1. CASE k \in worker.bad
        BY <2>1, <3>1 DEF Excused
      <3>2. CASE k \notin worker.bad
        <4>1. Excused(k) \/ (Real(k) /\ ~Loose(k))
          BY <2>1, <3>2 DEF SyncInv, Redone, Left
        <4>2. k \in worker.asked => k \notin vm.errors
          BY <2>1, <3>2 DEF RecordInv, Left
        <4> QED BY <2>1, <4>1, <4>2 DEF Excused, Real, Loose, Accounts
      <3> QED BY <3>1, <3>2
    <2> QED BY <2>2 DEF SyncInv
  <1>18. CASE WorkerDies
    <2>1. /\ Open /\ job.attempts >= 1 /\ job.attempts \in Nat
          /\ worker' = Idle /\ UNCHANGED <<guest, vm, job, history>>
      BY <1>18, ClaimedJob DEF WorkerDies, db
    <2>2. ~AtWork' /\ ~Fresh'
      BY <2>1 DEF AtWork, Fresh, Idle
    <2>3. ASSUME NEW k \in Component
          PROVE  (Redone(k) \/ Excused(k) \/ (Real(k) /\ ~Loose(k)))'
      <3>1. CASE k \in job.needs
        BY <2>1, <2>2, <3>1 DEF Redone, Open
      <3>2. CASE k \notin job.needs
        <4>1. Running(helper) => helper.kind # k
          BY <3>2, HelperKinds, WorkerKinds DEF TypeOK, WorkInv, AtWork, Running
        <4>2. Loose(k)' => Loose(k)
          BY <1>18, <4>1 DEF WorkerDies, Loose
        <4> QED BY <2>1, <3>2, <4>2 DEF SyncInv, Redone, Excused, Real, Accounts
      <3> QED BY <3>1, <3>2
    <2> QED BY <2>3 DEF SyncInv
  <1>19. CASE Reclaim
    <2>1. /\ Open /\ Open' /\ ~AtWork /\ ~AtWork' /\ job.attempts \in Nat
          /\ job'.needs = job.needs /\ UNCHANGED <<guest, vm, orphan, history>>
      BY <1>19, JobKinds, JobUpdate, AttemptsAssumption
         DEF Reclaim, AtWork, Idle, WorkInv, Open, NoJob, Jobs
    <2>2. Fresh' => Fresh
      BY <1>19, <2>1, JobUpdate DEF Reclaim, Fresh, Idle, WorkInv
    <2> QED
      BY <2>1, <2>2 DEF SyncInv, Redone, Excused, Real, Loose, Accounts
  <1>20. CASE HelperWorks
    <2>1. PICK k \in Component :
            /\ k = helper.kind /\ k \in worker.todo /\ k \in job.needs
            /\ Open /\ job.attempts >= 1 /\ job.attempts \in Nat /\ worker.step = "wait"
      BY <1>20, ClaimedJob, WorkerKinds, HelperKinds
         DEF TypeOK, WorkInv, AtWork, HelperWorks, Running
    <2>2. UNCHANGED <<vm, job, worker>>
      BY <1>20 DEF HelperWorks, db
    <2>3. Redone(k)'
      BY <2>1, <2>2 DEF Redone, Open, Fresh, AtWork, Left
    <2>4. /\ history'.overlapped = history.overlapped /\ history'.dropped = history.dropped
          /\ history'.refiled = history.refiled /\ history'.recloned = history.recloned
      BY <1>20 DEF TypeOK, HelperWorks, NoteUnits, Notes
    <2>5. ASSUME NEW j \in Component, j # k
          PROVE  (Real(j) <=> Real(j)') /\ (Loose(j)' => Loose(j))
      <3>1. helper \in Helper /\ Running(helper)
        BY <1>20, HelperKinds DEF TypeOK, HelperWorks
      <3>2. /\ helper.kind = "access" => guest'.policy = guest.policy
            /\ helper.kind = "policy" => guest'.accounts = guest.accounts
        BY <1>20, <3>1, Stage, HelperKinds DEF TypeOK, HelperWorks, Guest
      <3> QED
        BY <1>20, <2>1, <2>2, <2>4, <2>5, <3>1, <3>2, HelperKinds
           DEF HelperWorks, Real, Loose, Accounts, Component
    <2> QED
      BY <2>2, <2>3, <2>4, <2>5
         DEF SyncInv, Redone, Excused, AtWork, Left, Fresh, Open
  <1>21. CASE HelperFails
    <2>1. PICK k \in Component :
            /\ k = helper.kind /\ k \in worker.todo /\ k \in job.needs
            /\ Open /\ job.attempts >= 1 /\ job.attempts \in Nat /\ worker.step = "wait"
      BY <1>21, ClaimedJob, WorkerKinds, HelperKinds
         DEF TypeOK, WorkInv, AtWork, HelperFails, Running
    <2>2. UNCHANGED <<vm, job, worker>>
      BY <1>21 DEF HelperFails, db
    <2>3. Redone(k)'
      BY <2>1, <2>2 DEF Redone, Open, Fresh, AtWork, Left
    <2>4. /\ history'.overlapped = history.overlapped /\ history'.dropped = history.dropped
          /\ history'.refiled = history.refiled /\ history'.recloned = history.recloned
      BY <1>21 DEF TypeOK, HelperFails, Notes
    <2>5. ASSUME NEW j \in Component, j # k
          PROVE  (Real(j) <=> Real(j)') /\ (Loose(j)' => Loose(j))
      <3>1. helper \in Helper /\ Running(helper)
        BY <1>21, HelperKinds DEF TypeOK, HelperFails
      <3>2. /\ helper.kind = "access" => guest'.policy = guest.policy
            /\ helper.kind = "policy" => guest'.accounts = guest.accounts
        BY <1>21, <3>1, Stage, HelperKinds DEF TypeOK, HelperFails, Guest
      <3> QED
        BY <1>21, <2>1, <2>2, <2>4, <2>5, <3>1, <3>2, HelperKinds
           DEF HelperFails, Real, Loose, Accounts, Component
    <2> QED
      BY <2>2, <2>3, <2>4, <2>5
         DEF SyncInv, Redone, Excused, AtWork, Left, Fresh, Open
  <1>22. CASE WaitEnds
    <2>1. PICK k \in Component :
            /\ k = helper.kind /\ k \in worker.todo /\ k \in job.needs
            /\ Open /\ job.attempts >= 1 /\ job.attempts \in Nat /\ worker.step = "wait"
      BY <1>22, ClaimedJob, WorkerKinds, HelperKinds
         DEF TypeOK, WorkInv, AtWork, WaitEnds, Running
    <2>2. UNCHANGED <<vm, job, worker>>
      BY <1>22 DEF WaitEnds, db
    <2>3. Redone(k)'
      BY <2>1, <2>2 DEF Redone, Open, Fresh, AtWork, Left
    <2>4. /\ history'.overlapped = history.overlapped /\ history'.dropped = history.dropped
          /\ history'.refiled = history.refiled /\ history'.recloned = history.recloned
      BY <1>22 DEF TypeOK, WaitEnds, Notes
    <2>5. ASSUME NEW j \in Component, j # k
          PROVE  (Real(j) <=> Real(j)') /\ (Loose(j)' => Loose(j))
      BY <1>22, <2>1, <2>2, <2>4, <2>5
         DEF WaitEnds, Real, Loose, Accounts, NoHelper, Running
    <2> QED
      BY <2>2, <2>3, <2>4, <2>5
         DEF SyncInv, Redone, Excused, AtWork, Left, Fresh, Open
  <1>23. CASE OrphanWorks
    <2>1. orphan \in Helper /\ Running(orphan)
      BY <1>23, HelperKinds DEF TypeOK, OrphanWorks
    <2>2. orphan' = NoHelper \/ (Running(orphan') /\ orphan'.kind = orphan.kind)
      BY <1>23, <2>1, HelperKinds, Stage DEF OrphanWorks, TypeOK
    <2>3. /\ history'.overlapped = history.overlapped /\ history'.dropped = history.dropped
          /\ history'.refiled = history.refiled /\ history'.recloned = history.recloned
          /\ UNCHANGED <<vm, job, worker>>
      BY <1>23 DEF TypeOK, OrphanWorks, NoteUnits, Notes, db
    <2>4. /\ orphan.kind = "access" => guest'.policy = guest.policy
          /\ orphan.kind = "policy" => guest'.accounts = guest.accounts
      BY <1>23, <2>1, Stage, HelperKinds DEF TypeOK, OrphanWorks, Guest
    <2>5. ASSUME NEW j \in Component, j # orphan.kind
          PROVE  (Real(j) <=> Real(j)') /\ ~Loose(j)'
      BY <2>1, <2>2, <2>3, <2>4, <2>5, HelperKinds
         DEF Real, Loose, Accounts, Component, Running
    <2>6. Loose(orphan.kind)
      BY <2>1 DEF Loose
    <2> QED
      BY <2>3, <2>5, <2>6
         DEF SyncInv, Redone, Excused, AtWork, Left, Fresh, Open
  <1>24. CASE ProvisionAnew
    <2>1. history'.recloned = Component
      BY <1>24 DEF TypeOK, Notes, ProvisionAnew
    <2> QED BY <2>1 DEF SyncInv, Excused
  <1>25. CASE ReadUsers
    <2>1. /\ AtWork /\ AtWork' /\ worker'.todo = worker.todo /\ worker'.bad = worker.bad
          /\ worker'.step = "next" /\ UNCHANGED <<guest, vm, job, orphan, history>>
      BY <1>25, WorkerKinds DEF ReadUsers, AtWork, Working, db
    <2>2. worker # Idle
      BY <2>1, WorkerKinds DEF AtWork
    <2>3. Open /\ job.attempts \in 1..MaxAttempts
      BY <2>2, ClaimedJob
    <2>4. ASSUME NEW k \in Component, Redone(k) PROVE Redone(k)'
      BY <2>1, <2>3, <2>4 DEF Redone, Fresh, Open, Left
    <2> QED BY <2>1, <2>4 DEF SyncInv, Excused, Real, Loose, Accounts
  <1> QED
    BY <1>1, <1>2, <1>3, <1>4, <1>5, <1>6, <1>7, <1>8, <1>9, <1>10,
       <1>11, <1>12, <1>13, <1>14, <1>15, <1>16, <1>17, <1>18, <1>19, <1>20,
       <1>21, <1>22, <1>23, <1>24, <1>25
    DEF Next, WorkerStep

\* A look is due where there is drift.
LEMMA DriftStep ==
    ASSUME TypeOK, WorkInv, DriftInv, Next
    PROVE  DriftInv'
  <1>1. CASE ChangeMembership
    BY <1>1 DEF ChangeMembership, DriftInv
  <1>2. CASE EditUnannounced
    BY <1>2 DEF EditUnannounced, DriftInv, On, TypeOK, Notes
  <1>3. ASSUME NEW c \in {Callback, SecondLook}, RunPending(c) PROVE DriftInv'
    <2>1. Look(IF c = SecondLook \/ "membership" \in site.switches THEN On
               ELSE On \cap {"access"})
      BY <1>3 DEF RunPending
    <2> QED
      BY <1>3, <2>1, NewJobType
         DEF RunPending, db, Look, TypeOK, Notes, Columns, Action, DriftInv, Drifted,
             Render, On, Open
  <1>4. ASSUME NEW c \in {Callback, SecondLook}, LosePending(c) PROVE DriftInv'
    BY <1>4 DEF LosePending, DriftInv, On, TypeOK, Notes
  <1>5. CASE SyncCommand
    <2>1. Look(On)
      BY <1>5 DEF SyncCommand
    <2> QED
      BY <1>5, <2>1, NewJobType
         DEF SyncCommand, db, Look, TypeOK, Notes, Columns, Action, DriftInv, Drifted,
             Render, On, Open
  <1>6. CASE QueueProvision
    <2>1. Open'
      BY <1>6, NewJobType DEF QueueProvision, Action, Component, Open
    <2> QED BY <2>1 DEF DriftInv
  <1>7. CASE QueuePatch
    <2>1. Open'
      BY <1>7, NewJobType DEF QueuePatch, Action, Component, Open
    <2> QED BY <2>1 DEF DriftInv
  <1>8. CASE Claim
    <2>1. Open'
      BY <1>8, JobUpdate DEF Claim, WorkInv, Open, Jobs, NoJob
    <2> QED BY <2>1 DEF DriftInv
  <1>9. CASE Begin
    <2>1. Open'
      BY <1>9, ClaimedJob, WorkerKinds DEF Begin, Wait, db, Open
    <2> QED BY <2>1 DEF DriftInv
  <1>10. CASE Refuse
    <2>1. vm'.failed \/ pending' # {}
      BY <1>10 DEF TypeOK, Columns, Refuse, EndGuestJob
    <2> QED BY <2>1 DEF DriftInv
  <1>11. CASE Call
    <2>1. Open'
      BY <1>11, ClaimedJob, WorkerKinds DEF Call, Wait, db, Open
    <2> QED BY <2>1 DEF DriftInv
  <1>12. CASE RecordAccess
    <2>1. Open'
      BY <1>12, ClaimedJob, WorkerKinds DEF RecordAccess, Wait, db, Open
    <2> QED BY <2>1 DEF DriftInv
  <1>13. CASE RecordPolicy
    <2>1. Open'
      BY <1>13, ClaimedJob, WorkerKinds DEF RecordPolicy, Wait, db, Open
    <2> QED BY <2>1 DEF DriftInv
  <1>14. CASE NoteFailure
    <2>1. Open'
      BY <1>14, ClaimedJob, WorkerKinds DEF NoteFailure, Wait, db, Open
    <2> QED BY <2>1 DEF DriftInv
  <1>15. CASE ProvisionFails
    <2>1. vm'.failed \/ pending' # {}
      BY <1>15 DEF TypeOK, Columns, ProvisionFails, EndGuestJob
    <2> QED BY <2>1 DEF DriftInv
  <1>16. CASE ProvisionSucceeds
    <2>1. vm'.failed \/ pending' # {}
      BY <1>16 DEF TypeOK, Columns, ProvisionSucceeds, EndGuestJob
    <2> QED BY <2>1 DEF DriftInv
  <1>17. CASE FinishGuestJob
    <2>1. vm'.failed \/ pending' # {}
      BY <1>17 DEF TypeOK, Columns, FinishGuestJob, EndGuestJob
    <2> QED BY <2>1 DEF DriftInv
  <1>18. CASE WorkerDies
    BY <1>18 DEF WorkerDies, db, DriftInv, Drifted, Render, On, Open
  <1>19. CASE Reclaim
    <2>1. Open'
      BY <1>19, JobUpdate DEF Reclaim, WorkInv, Open, Jobs, NoJob
    <2> QED BY <2>1 DEF DriftInv
  <1>20. CASE HelperWorks
    BY <1>20 DEF HelperWorks, NoteUnits, db, Notes, TypeOK, DriftInv, Drifted, Render, On, Open
  <1>21. CASE HelperFails
    BY <1>21 DEF HelperFails, db, Notes, TypeOK, DriftInv, Drifted, Render, On, Open
  <1>22. CASE WaitEnds
    BY <1>22 DEF WaitEnds, db, DriftInv, Drifted, Render, On, Open
  <1>23. CASE OrphanWorks
    BY <1>23 DEF OrphanWorks, NoteUnits, db, Notes, TypeOK, DriftInv, Drifted, Render, On, Open
  <1>24. CASE ProvisionAnew
    <2>1. Open'
      BY <1>24, NewJobType DEF ProvisionAnew, Action, Component, Open
    <2> QED BY <2>1 DEF DriftInv
  <1>25. CASE ReadUsers
    BY <1>25 DEF ReadUsers, db, DriftInv, Drifted, Render, On, Open
  <1> QED
    BY <1>1, <1>2, <1>3, <1>4, <1>5, <1>6, <1>7, <1>8, <1>9, <1>10,
       <1>11, <1>12, <1>13, <1>14, <1>15, <1>16, <1>17, <1>18, <1>19, <1>20,
       <1>21, <1>22, <1>23, <1>24, <1>25
    DEF Next, WorkerStep

\* Units serve the files, or a helper is about to reload them.
LEMMA UnitsStep ==
    ASSUME TypeOK, WorkInv, UnitsServeFiles, Next
    PROVE  UnitsServeFiles'
  <1>1. CASE ChangeMembership
    BY <1>1 DEF TypeOK, Notes, UnitsServeFiles, ChangeMembership, db
  <1>2. CASE EditUnannounced
    BY <1>2 DEF TypeOK, Notes, UnitsServeFiles, EditUnannounced, db
  <1>3. ASSUME NEW c \in {Callback, SecondLook}, RunPending(c) PROVE UnitsServeFiles'
    BY <1>3 DEF TypeOK, Notes, UnitsServeFiles, RunPending, Look, db
  <1>4. ASSUME NEW c \in {Callback, SecondLook}, LosePending(c) PROVE UnitsServeFiles'
    BY <1>4 DEF TypeOK, Notes, UnitsServeFiles, LosePending, db
  <1>5. CASE SyncCommand
    BY <1>5 DEF TypeOK, Notes, UnitsServeFiles, SyncCommand, Look, db
  <1>6. CASE QueueProvision
    BY <1>6 DEF TypeOK, Notes, UnitsServeFiles, QueueProvision, db
  <1>7. CASE QueuePatch
    BY <1>7 DEF TypeOK, Notes, UnitsServeFiles, QueuePatch, db
  <1>8. CASE Claim
    BY <1>8 DEF TypeOK, Notes, UnitsServeFiles, Claim, db
  <1>9. CASE Begin
    <2>1. helper.stage # "units" /\ helper'.stage # "units" /\ UNCHANGED <<orphan, guest>>
      BY <1>9, WorkerKinds, HelperKinds
         DEF Begin, WorkInv, NoHelper, AccessHelper, PolicyHelper, db
    <2>2. history'.halted = history.halted /\ history'.unlisted = history.unlisted
      BY <1>9 DEF TypeOK, Notes, Begin, Drop
    <2> QED BY <2>1, <2>2 DEF UnitsServeFiles
  <1>10. CASE Refuse
    <2>1. helper.stage # "units" /\ helper'.stage # "units" /\ UNCHANGED <<orphan, guest>>
      BY <1>10, WorkerKinds, HelperKinds
         DEF Refuse, WorkInv, NoHelper, AccessHelper, PolicyHelper, db
    <2>2. history'.halted = history.halted /\ history'.unlisted = history.unlisted
      BY <1>10 DEF TypeOK, Notes, Refuse, Drop
    <2> QED BY <2>1, <2>2 DEF UnitsServeFiles
  <1>11. CASE Call
    <2>1. helper.stage # "units" /\ helper'.stage # "units" /\ UNCHANGED <<orphan, guest>>
      BY <1>11, WorkerKinds, HelperKinds
         DEF Call, WorkInv, NoHelper, AccessHelper, PolicyHelper, db
    <2>2. history'.halted = history.halted /\ history'.unlisted = history.unlisted
      BY <1>11 DEF TypeOK, Notes, Call, Drop
    <2> QED BY <2>1, <2>2 DEF UnitsServeFiles
  <1>12. CASE RecordAccess
    <2>1. helper.stage # "units" /\ helper'.stage # "units" /\ UNCHANGED <<orphan, guest>>
      BY <1>12, WorkerKinds, HelperKinds
         DEF RecordAccess, WorkInv, NoHelper, AccessHelper, PolicyHelper, db
    <2>2. history'.halted = history.halted /\ history'.unlisted = history.unlisted
      BY <1>12 DEF TypeOK, Notes, RecordAccess, Drop
    <2> QED BY <2>1, <2>2 DEF UnitsServeFiles
  <1>13. CASE RecordPolicy
    <2>1. helper.stage # "units" /\ helper'.stage # "units" /\ UNCHANGED <<orphan, guest>>
      BY <1>13, WorkerKinds, HelperKinds
         DEF RecordPolicy, WorkInv, NoHelper, AccessHelper, PolicyHelper, db
    <2>2. history'.halted = history.halted /\ history'.unlisted = history.unlisted
      BY <1>13 DEF TypeOK, Notes, RecordPolicy, Drop
    <2> QED BY <2>1, <2>2 DEF UnitsServeFiles
  <1>14. CASE NoteFailure
    <2>1. helper.stage # "units" /\ helper'.stage # "units" /\ UNCHANGED <<orphan, guest>>
      BY <1>14, WorkerKinds, HelperKinds
         DEF NoteFailure, WorkInv, NoHelper, AccessHelper, PolicyHelper, db
    <2>2. history'.halted = history.halted /\ history'.unlisted = history.unlisted
      BY <1>14 DEF TypeOK, Notes, NoteFailure, Drop
    <2> QED BY <2>1, <2>2 DEF UnitsServeFiles
  <1>15. CASE ProvisionFails
    <2>1. helper.stage # "units" /\ helper'.stage # "units" /\ UNCHANGED <<orphan, guest>>
      BY <1>15, WorkerKinds, HelperKinds
         DEF ProvisionFails, WorkInv, NoHelper, AccessHelper, PolicyHelper, db
    <2>2. history'.halted = history.halted /\ history'.unlisted = history.unlisted
      BY <1>15 DEF TypeOK, Notes, ProvisionFails
    <2> QED BY <2>1, <2>2 DEF UnitsServeFiles
  <1>16. CASE ProvisionSucceeds
    <2>1. helper.stage # "units" /\ helper'.stage # "units" /\ UNCHANGED <<orphan, guest>>
      BY <1>16, WorkerKinds, HelperKinds
         DEF ProvisionSucceeds, Finished, WorkInv, NoHelper, AccessHelper, PolicyHelper, db
    <2>2. history'.halted = history.halted /\ history'.unlisted = history.unlisted
      BY <1>16 DEF TypeOK, Notes, ProvisionSucceeds, Drop
    <2> QED BY <2>1, <2>2 DEF UnitsServeFiles
  <1>17. CASE FinishGuestJob
    <2>1. helper.stage # "units" /\ helper'.stage # "units" /\ UNCHANGED <<orphan, guest>>
      BY <1>17, WorkerKinds, HelperKinds
         DEF FinishGuestJob, Finished, WorkInv, NoHelper, AccessHelper, PolicyHelper, db
    <2>2. history'.halted = history.halted /\ history'.unlisted = history.unlisted
      BY <1>17 DEF TypeOK, Notes, FinishGuestJob, Drop
    <2> QED BY <2>1, <2>2 DEF UnitsServeFiles
  <1>18. CASE WorkerDies
    <2>1. guest' = guest /\ history' = history
          /\ (helper.stage = "units" => orphan = NoHelper /\ orphan' = helper)
          /\ (helper.stage # "units" /\ orphan.stage = "units" => orphan' = orphan)
      BY <1>18 DEF WorkerDies, Running, NoHelper
    <2> QED BY <2>1, HelperKinds DEF UnitsServeFiles
  <1>19. CASE Reclaim
    BY <1>19 DEF TypeOK, Notes, UnitsServeFiles, Reclaim, db
  <1>20. CASE HelperWorks
    <2>1. helper \in Helper /\ Running(helper)
      BY <1>20, HelperKinds DEF TypeOK, HelperWorks
    <2>2. /\ history'.halted = (history.halted /\ ~Reloads(helper))
          /\ history'.unlisted = (/\ ~Reloads(helper)
                                  /\ \/ history.unlisted
                                     \/ helper.stage = "units" /\ helper.changed)
      BY <1>20 DEF TypeOK, Notes, HelperWorks, NoteUnits
    <2>3. CASE helper \in AccessHelpers
      <3>1. guest'.policy = guest.policy /\ guest'.loaded = guest.loaded /\ ~Reloads(helper)
            /\ helper.stage # "units" /\ helper'.stage # "units" /\ orphan' = orphan
        BY <1>20, <2>1, <2>3, Stage, HelperKinds
           DEF TypeOK, HelperWorks, Reloads, Guest, NoHelper
      <3> QED BY <2>2, <3>1 DEF UnitsServeFiles
    <2>4. CASE helper \in PolicyHelpers /\ helper.stage = "begun"
      <3>1. /\ guest'.policy = helper.payload /\ guest'.loaded = guest.loaded /\ ~Reloads(helper)
            /\ helper'.stage = "units" /\ orphan' = orphan
            /\ Content(helper.payload) # Content(guest.policy) => helper'.changed
        BY <1>20, <2>1, <2>4, Stage, HelperKinds
           DEF TypeOK, HelperWorks, Reloads, Guest, Running
      <3>2. Content(guest.policy)' = Content(helper.payload)
        BY <3>1 DEF Content
      <3> QED BY <2>2, <2>4, <3>1, <3>2 DEF UnitsServeFiles
    <2>5. CASE helper \in PolicyHelpers /\ helper.stage # "begun"
      <3>1. /\ guest'.policy = guest.policy /\ helper.stage = "units" /\ orphan' = orphan
            /\ guest'.loaded = IF Reloads(helper) THEN Content(guest.policy) ELSE guest.loaded
        BY <1>20, <2>1, <2>5, Stage DEF TypeOK, HelperWorks, Guest
      <3>2. Content(guest.policy)' = Content(guest.policy)
        BY <3>1 DEF Content
      <3> QED BY <2>2, <3>1, <3>2 DEF UnitsServeFiles
    <2> QED BY <2>1, <2>3, <2>4, <2>5 DEF Helper
  <1>21. CASE HelperFails
    <2>1. helper \in Helper /\ Running(helper)
      BY <1>21, HelperKinds DEF TypeOK, HelperFails
    <2>2. history'.halted = (history.halted \/ helper.kind = "policy") /\ orphan' = orphan
          /\ history'.unlisted = history.unlisted
      BY <1>21 DEF TypeOK, Notes, HelperFails
    <2>3. CASE helper \in AccessHelpers
      <3>1. guest'.policy = guest.policy /\ guest'.loaded = guest.loaded
            /\ helper.stage # "units"
        BY <1>21, <2>1, <2>3, Stage, HelperKinds DEF TypeOK, HelperFails, Guest
      <3>2. helper'.stage # "units"
        BY <1>21, <2>3 DEF HelperFails, AccessHelpers
      <3> QED BY <2>2, <3>1, <3>2 DEF UnitsServeFiles
    <2>4. CASE helper \in PolicyHelpers
      BY <2>2, <2>4, HelperKinds DEF UnitsServeFiles
    <2> QED BY <2>1, <2>3, <2>4 DEF Helper
  <1>22. CASE WaitEnds
    <2>1. orphan.stage # "units" /\ orphan' = helper /\ guest' = guest /\ history' = history
      BY <1>22 DEF WaitEnds, NoHelper
    <2> QED BY <2>1 DEF UnitsServeFiles
  <1>23. CASE OrphanWorks
    <2>1. orphan \in Helper /\ Running(orphan)
      BY <1>23, HelperKinds DEF TypeOK, OrphanWorks
    <2>2. /\ history'.halted = (history.halted /\ ~Reloads(orphan))
          /\ history'.unlisted = (/\ ~Reloads(orphan)
                                  /\ \/ history.unlisted
                                     \/ orphan.stage = "units" /\ orphan.changed)
      BY <1>23 DEF TypeOK, Notes, OrphanWorks, NoteUnits
    <2>3. CASE orphan \in AccessHelpers
      <3>1. guest'.policy = guest.policy /\ guest'.loaded = guest.loaded /\ ~Reloads(orphan)
            /\ orphan.stage # "units" /\ orphan'.stage # "units" /\ helper' = helper
        BY <1>23, <2>1, <2>3, Stage, HelperKinds
           DEF TypeOK, OrphanWorks, Reloads, Guest, NoHelper
      <3> QED BY <2>2, <3>1 DEF UnitsServeFiles
    <2>4. CASE orphan \in PolicyHelpers /\ orphan.stage = "begun"
      <3>1. /\ guest'.policy = orphan.payload /\ guest'.loaded = guest.loaded /\ ~Reloads(orphan)
            /\ orphan'.stage = "units" /\ helper' = helper
            /\ Content(orphan.payload) # Content(guest.policy) => orphan'.changed
        BY <1>23, <2>1, <2>4, Stage, HelperKinds
           DEF TypeOK, OrphanWorks, Reloads, Guest, Running
      <3>2. Content(guest.policy)' = Content(orphan.payload)
        BY <3>1 DEF Content
      <3> QED BY <2>2, <2>4, <3>1, <3>2 DEF UnitsServeFiles
    <2>5. CASE orphan \in PolicyHelpers /\ orphan.stage # "begun"
      <3>1. /\ guest'.policy = guest.policy /\ orphan.stage = "units" /\ helper' = helper
            /\ guest'.loaded = IF Reloads(orphan) THEN Content(guest.policy) ELSE guest.loaded
        BY <1>23, <2>1, <2>5, Stage DEF TypeOK, OrphanWorks, Guest
      <3>2. Content(guest.policy)' = Content(guest.policy)
        BY <3>1 DEF Content
      <3> QED BY <2>2, <3>1, <3>2 DEF UnitsServeFiles
    <2> QED BY <2>1, <2>3, <2>4, <2>5 DEF Helper
  <1>24. CASE ProvisionAnew
    <2>1. guest'.loaded = Nothing /\ guest'.policy = Nothing
      BY <1>24 DEF ProvisionAnew, NewGuest
    <2> QED BY <2>1 DEF UnitsServeFiles, Content
  <1>25. CASE ReadUsers
    BY <1>25 DEF UnitsServeFiles, ReadUsers, Content
  <1> QED
    BY <1>1, <1>2, <1>3, <1>4, <1>5, <1>6, <1>7, <1>8, <1>9, <1>10,
       <1>11, <1>12, <1>13, <1>14, <1>15, <1>16, <1>17, <1>18, <1>19, <1>20,
       <1>21, <1>22, <1>23, <1>24, <1>25
    DEF Next, WorkerStep

-----------------------------------------------------------------------------
(* The invariant and what follows from it.                                 *)

\* The initial states satisfy it.
LEMMA InvInit == Init => IInv
  <1> SUFFICES ASSUME Init PROVE IInv
    OBVIOUS
  <1>1. TypeOK
    <2>1. guest \in Guest /\ site \in Sites
      BY DEF Init, NewGuest, Guest, Sites
    <2>2. vm \in Columns /\ history \in Notes
      BY UsersAssumption DEF Init, Columns, Notes
    <2>3. spent \in Expenses
      BY BoundsAssumption DEF Init, Expenses
    <2> QED BY <2>1, <2>2, <2>3 DEF Init, TypeOK
  <1>2. ~Open /\ ~AtWork /\ job.status = "None" /\ helper = NoHelper
    BY DEF Init, Open, AtWork, Idle, NoJob
  <1>3. WorkInv
    BY <1>2 DEF Init, WorkInv, Idle
  <1>4. HelperInv /\ SyncInv /\ RecordInv /\ DriftInv
    BY <1>2, HelperKinds
       DEF Init, NewGuest, HelperInv, SyncInv, RecordInv, DriftInv, Real, Accounts,
           Loose, Running
  <1>5. UnitsServeFiles
    BY DEF Init, NewGuest, UnitsServeFiles, Content
  <1> QED BY <1>1, <1>3, <1>4, <1>5 DEF IInv

\* Every step preserves it.
LEMMA InvStep == IInv /\ [Next]_vars => IInv'
  <1> SUFFICES ASSUME IInv, [Next]_vars PROVE IInv'
    OBVIOUS
  <1>1. CASE Next
    BY <1>1, TypeStep, WorkStep, HelperStep, SyncStep, RecordStep, DriftStep, UnitsStep
       DEF IInv
  <1>2. CASE UNCHANGED vars
    <2>1. TypeOK' /\ WorkInv' /\ HelperInv'
      BY <1>2 DEF IInv, vars, db, TypeOK, WorkInv, HelperInv, Open, AtWork, Loose
    <2>2. SyncInv' /\ RecordInv'
      BY <1>2
         DEF IInv, vars, db, SyncInv, RecordInv, Redone, Excused,
             Real, Loose,
                  Accounts, AtWork, Left, Fresh, Open
    <2>3. DriftInv' /\ UnitsServeFiles'
      BY <1>2
         DEF IInv, vars, db, DriftInv, Drifted, Render, On, Open,
             UnitsServeFiles, Content
    <2> QED BY <2>1, <2>2, <2>3 DEF IInv
  <1> QED BY <1>1, <1>2

\* IInv holds in every state.
THEOREM IInvInvariant == Spec => []IInv
  BY InvInit, InvStep, PTL DEF Spec

\* Every variable keeps its type; no job is claimed more often than MaxAttempts.
THEOREM TypeCorrect == Spec => []TypeOK
  <1>1. IInv => TypeOK
    BY DEF IInv
  <1> QED BY <1>1, IInvInvariant, PTL

\* What ColdFront shows without an error is what the guest was given.
THEOREM Recorded == Spec => []RecordedIsReal
  <1>1. IInv => RecordedIsReal
    <2> SUFFICES ASSUME IInv, ~Open PROVE RecordedIsReal
      BY DEF RecordedIsReal
    <2>1. \A k \in Component : Excused(k) \/ Real(k)
      BY DEF IInv, SyncInv, Redone
    <2> QED BY <2>1 DEF RecordedIsReal, Untrue, Component, Excused, Real
  <1> QED BY <1>1, IInvInvariant, PTL

\* At rest and without an error, each component that is switched on is as wanted,
\* or the last change was never announced to it.
THEOREM DriftIsSeen == Spec => []NoSilentDrift
  <1>1. IInv => NoSilentDrift
    <2> SUFFICES ASSUME IInv, vm.state = "Active", ~Open, pending = {}, ~vm.failed,
                        NEW k \in On, k \notin history.unseen,
                        k \notin Untrue
                 PROVE  Wanted(k) \/ (k = "policy" /\ history.refiled)
      BY DEF NoSilentDrift
    <2>1. k \notin Drifted /\ k \in Component
      BY DEF IInv, DriftInv, On
    <2>2. k \notin vm.errors
      BY <2>1 DEF Drifted
    <2>3. Real(k)
      BY <2>1, <2>2 DEF IInv, SyncInv, Redone, Excused, Untrue
    <2> QED BY <2>1, <2>3 DEF Drifted, Real, Wanted, Component
  <1> QED BY <1>1, IInvInvariant, PTL

\* Units serve the files on disk, or a helper is about to reload them or failed.
THEOREM UnitsServe == Spec => []UnitsServeFiles
  <1>1. IInv => UnitsServeFiles
    BY DEF IInv
  <1> QED BY <1>1, IInvInvariant, PTL

=============================================================================
