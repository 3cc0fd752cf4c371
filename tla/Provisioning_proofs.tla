------------------------- MODULE Provisioning_proofs -------------------------
(***************************************************************************)
(* Theorems about Provisioning for any nodes, bounds, attempts and faults, *)
(* with NetBox and the guest helpers or without them: whatever half of the *)
(* work earlier attempts left, the milestones are reached in order, an     *)
(* Active VM is complete, what the progress page shows is true, and        *)
(* nothing is taken back.                                                  *)
(*                                                                         *)
(* One lemma per conjunct of the inductive invariant shows that every step *)
(* preserves it.                                                           *)
(***************************************************************************)
EXTENDS Provisioning, TLAPS

-----------------------------------------------------------------------------
(* The inductive invariant.                                                *)

\* Steps of a worker: those in NetBox before the guest, those after the records'
\* identity is recorded, and of these, those with the guest in hand.
Mirroring   == {"mirrorInterface", "mirrorIp", "mirrorPrimary", "recordIds"}
Reserving   == {"seek", "create", "mirrorVm"} \cup Mirroring
Activating  == {"activateIp", "activateVm"}
Accessible  == {"guest", "finish"} \cup Activating
Building    == {"configure", "start", "ssh"} \cup Accessible
Provisioned == {"find", "clone", "waitClone"} \cup Building

\* Only a Running job has a worker; an Active VM's job has succeeded.
JobInv ==
    /\ status # "Running" => pc = "idle"
    /\ state = "Active" <=> status = "Succeeded"
    /\ spent.lost # 0 => status = "Failed"

\* The VM's records follow the shared ones, and each other.
ReserveInv ==
    /\ pc \in Reserving \cup Activating => NetBoxEnabled
    /\ pc \in {"seek", "create"} => \A k \in Foundation : k < need => shared[k] > 0
    /\ pc = "mirrorVm" \/ mirror.vm # 0 => \A k \in Foundation : shared[k] > 0
    /\ mirror.vm = 0 => mirror = NoMirror
    /\ pc \in Mirroring => mirror.vm # 0
    /\ pc \in {"mirrorIp", "mirrorPrimary", "recordIds"} => mirror.interface = 1
    /\ pc \in {"mirrorPrimary", "recordIds"} => mirror.ip = 1
    /\ pc = "recordIds" => mirror.primary

\* Past RecordIds the records in NetBox are the recorded ones or erased.
IdentityInv ==
    /\ pc \in Provisioned /\ NetBoxEnabled =>
         db.ids # 0 /\ (mirror.vm = 0 \/ (Mirrored /\ mirror.vm = db.ids))
    /\ db.ids # 0 => (Mirrored /\ mirror.vm = db.ids) \/ spent.erased > 0
    /\ mirror.ipActive \/ mirror.vmActive => mirror.vm = db.ids
    /\ pc = "activateVm" => mirror.vm = 0 \/ mirror.ipActive
    /\ pc = "finish" /\ NetBoxEnabled => mirror.vm = 0 \/ Leased

\* The guest the worker has in hand, and what was done to it.
GuestInv ==
    /\ guest.configured => Ours \/ (Taken /\ spent.half > 0)
    /\ guest.what = "running" => guest.configured
    /\ pc \in {"waitClone", "configure"} /\ (Ours \/ guest.what = "cloning")
         => guest.node = target
    /\ pc = "configure" => Ours \/ spent.half > 0
    /\ pc \in Building \ {"configure"} => guest.configured /\ guest.node = target
    /\ pc \in Accessible \cup {"ssh"} => guest.what = "running" \/ Taken
    /\ guest.configured /\ NetBoxEnabled => db.ids # 0
    /\ mirror.ipActive \/ mirror.vmActive => guest.what = "running" \/ Taken

\* What a worker may rely on at each step, whoever did the steps before.
IInv == TypeOK /\ JobInv /\ ReserveInv /\ IdentityInv /\ GuestInv
          /\ ActiveIsComplete /\ ProgressIsTrue

-----------------------------------------------------------------------------
(* Lemmas about the records: an update sets its field and no other.        *)

\* The guest in PVE.
LEMMA GuestUpdate ==
    ASSUME TypeOK
    PROVE  /\ guest' = [guest EXCEPT !.configured = TRUE] =>
                /\ guest' \in Guests /\ guest'.configured
                /\ guest'.what = guest.what /\ guest'.node = guest.node
           /\ guest' = [guest EXCEPT !.what = "stopped"] =>
                /\ guest' \in Guests /\ guest'.what = "stopped"
                /\ guest'.configured = guest.configured /\ guest'.node = guest.node
           /\ guest' = [guest EXCEPT !.what = IF Taken THEN @ ELSE "running"] =>
                /\ guest' \in Guests
                /\ guest'.what = IF Taken THEN guest.what ELSE "running"
                /\ guest'.configured = guest.configured /\ guest'.node = guest.node
                /\ Taken => guest' = guest
  BY DEF TypeOK, Guests

\* A guest that is cloned, or another's, or none.
LEMMA NewGuest ==
    ASSUME NEW w \in {"cloning", "foreign"}, NEW n \in Node
    PROVE  [what |-> w, node |-> n, configured |-> FALSE] \in Guests /\ Absent \in Guests
  BY DEF Guests, Absent

\* The VM's records in NetBox.
LEMMA MirrorUpdate ==
    ASSUME TypeOK
    PROVE  /\ mirror' = [mirror EXCEPT !.vm = 1 + spent.erased] =>
                /\ mirror' \in Mirrors /\ mirror'.vm # 0
                /\ mirror'.interface = mirror.interface
                /\ mirror'.ip = mirror.ip
                /\ mirror'.ipActive = mirror.ipActive /\ mirror'.vmActive = mirror.vmActive
           /\ mirror' = [mirror EXCEPT !.interface = 1] =>
                /\ mirror' \in Mirrors /\ mirror'.interface = 1
                /\ mirror'.vm = mirror.vm
                /\ mirror'.ip = mirror.ip
                /\ mirror'.ipActive = mirror.ipActive /\ mirror'.vmActive = mirror.vmActive
           /\ mirror' = [mirror EXCEPT !.ip = 1] =>
                /\ mirror' \in Mirrors /\ mirror'.ip = 1
                /\ mirror'.vm = mirror.vm
                /\ mirror'.interface = mirror.interface
                /\ mirror'.ipActive = mirror.ipActive /\ mirror'.vmActive = mirror.vmActive
           /\ mirror' = [mirror EXCEPT !.primary = TRUE] =>
                /\ mirror' \in Mirrors /\ mirror'.primary
                /\ mirror'.vm = mirror.vm
                /\ mirror'.interface = mirror.interface
                /\ mirror'.ipActive = mirror.ipActive /\ mirror'.vmActive = mirror.vmActive
           /\ mirror' = [mirror EXCEPT !.ipActive = TRUE] =>
                /\ mirror' \in Mirrors /\ mirror'.ipActive
                /\ mirror'.vm = mirror.vm
                /\ mirror'.interface = mirror.interface
                /\ mirror'.primary = mirror.primary /\ mirror'.vmActive = mirror.vmActive
           /\ mirror' = [mirror EXCEPT !.vmActive = TRUE] =>
                /\ mirror' \in Mirrors /\ mirror'.vmActive
                /\ mirror'.vm = mirror.vm
                /\ mirror'.interface = mirror.interface
                /\ mirror'.primary = mirror.primary /\ mirror'.ipActive = mirror.ipActive
  <1>0. 1 + spent.erased \in 1..(1 + MaxErased)
    BY ProvisioningAssumption DEF TypeOK, Expenses
  <1>1. mirror' = [mirror EXCEPT !.vm = 1 + spent.erased] =>
                /\ mirror' \in Mirrors /\ mirror'.vm # 0
                /\ mirror'.interface = mirror.interface
                /\ mirror'.ip = mirror.ip
                /\ mirror'.ipActive = mirror.ipActive /\ mirror'.vmActive = mirror.vmActive
    BY <1>0, ProvisioningAssumption DEF TypeOK, Mirrors
  <1>2. mirror' = [mirror EXCEPT !.interface = 1] =>
                /\ mirror' \in Mirrors /\ mirror'.interface = 1
                /\ mirror'.vm = mirror.vm
                /\ mirror'.ip = mirror.ip
                /\ mirror'.ipActive = mirror.ipActive /\ mirror'.vmActive = mirror.vmActive
    BY <1>0, ProvisioningAssumption DEF TypeOK, Mirrors
  <1>3. mirror' = [mirror EXCEPT !.ip = 1] =>
                /\ mirror' \in Mirrors /\ mirror'.ip = 1
                /\ mirror'.vm = mirror.vm
                /\ mirror'.interface = mirror.interface
                /\ mirror'.ipActive = mirror.ipActive /\ mirror'.vmActive = mirror.vmActive
    BY <1>0, ProvisioningAssumption DEF TypeOK, Mirrors
  <1>4. mirror' = [mirror EXCEPT !.primary = TRUE] =>
                /\ mirror' \in Mirrors /\ mirror'.primary
                /\ mirror'.vm = mirror.vm
                /\ mirror'.interface = mirror.interface
                /\ mirror'.ipActive = mirror.ipActive /\ mirror'.vmActive = mirror.vmActive
    BY <1>0, ProvisioningAssumption DEF TypeOK, Mirrors
  <1>5. mirror' = [mirror EXCEPT !.ipActive = TRUE] =>
                /\ mirror' \in Mirrors /\ mirror'.ipActive
                /\ mirror'.vm = mirror.vm
                /\ mirror'.interface = mirror.interface
                /\ mirror'.primary = mirror.primary /\ mirror'.vmActive = mirror.vmActive
    BY <1>0, ProvisioningAssumption DEF TypeOK, Mirrors
  <1>6. mirror' = [mirror EXCEPT !.vmActive = TRUE] =>
                /\ mirror' \in Mirrors /\ mirror'.vmActive
                /\ mirror'.vm = mirror.vm
                /\ mirror'.interface = mirror.interface
                /\ mirror'.primary = mirror.primary /\ mirror'.ipActive = mirror.ipActive
    BY <1>0, ProvisioningAssumption DEF TypeOK, Mirrors
  <1> QED BY <1>1, <1>2, <1>3, <1>4, <1>5, <1>6

\* No records are records.
LEMMA NoMirrorType == NoMirror \in Mirrors
  BY ProvisioningAssumption DEF NoMirror, Mirrors

\* A milestone due is one of the page's.
LEMMA DueType == Due \in 0..100
  BY DEF Due

\* The columns of the VirtualMachine row, and the milestone its events show.
LEMMA ColumnsUpdate ==
    ASSUME TypeOK
    PROVE  /\ Record(15) =>
                /\ db' \in Columns /\ db'.ids = db.ids /\ db'.node = db.node
                /\ db'.shown = db.shown \/ db'.shown = 15
           /\ Record(Due) =>
                /\ db' \in Columns /\ db'.ids = db.ids /\ db'.node = db.node
                /\ db'.shown = db.shown \/ db'.shown = Due
           /\ \A m \in 0..100 : db' = [db EXCEPT !.ids = mirror.vm, !.shown = Shown(m)] =>
                /\ db' \in Columns /\ db'.ids = mirror.vm /\ db'.node = db.node
                /\ db'.shown = db.shown \/ db'.shown = m
           /\ db' = [db EXCEPT !.node = target, !.shown = 100] =>
                /\ db' \in Columns /\ db'.ids = db.ids /\ db'.node = target
                /\ db'.shown = 100
  <1>1. mirror.vm \in 0..(1 + MaxErased)
    BY DEF TypeOK, Mirrors
  <1>2. \A m \in 0..100 : Shown(m) \in 0..100 /\ (Shown(m) = db.shown \/ Shown(m) = m)
    BY DEF Shown, TypeOK, Columns
  <1>3. ASSUME NEW m \in 0..100, Record(m)
        PROVE  /\ db' \in Columns /\ db'.ids = db.ids /\ db'.node = db.node
               /\ db'.shown = db.shown \/ db'.shown = m
    BY <1>2, <1>3 DEF TypeOK, Columns, Record
  <1>4. \A m \in 0..100 : db' = [db EXCEPT !.ids = mirror.vm, !.shown = Shown(m)] =>
               /\ db' \in Columns /\ db'.ids = mirror.vm /\ db'.node = db.node
               /\ db'.shown = db.shown \/ db'.shown = m
    BY <1>1, <1>2 DEF TypeOK, Columns
  <1>5. db' = [db EXCEPT !.node = target, !.shown = 100] =>
               /\ db' \in Columns /\ db'.ids = db.ids /\ db'.node = target
               /\ db'.shown = 100
    <2>1. 100 \in 0..100
      OBVIOUS
    <2>2. db \in Columns /\ target \in Node \cup {NoNode}
      BY DEF TypeOK
    <2> QED BY <2>1, <2>2 DEF Columns
  <1>6. 15 \in 0..100
    OBVIOUS
  <1> QED BY <1>3, <1>4, <1>5, <1>6, DueType

\* What is spent stays within its bound, and counts what it is spent on.
LEMMA SpendType ==
    ASSUME TypeOK,
           \/ Spend("outages") /\ spent.outages < MaxOutages
           \/ Spend("errors")  /\ spent.errors < MaxErrors
           \/ Spend("crashes") /\ spent.crashes < MaxCrashes
           \/ Spend("slow")    /\ spent.slow < MaxSlow
           \/ Spend("foreign") /\ spent.foreign < MaxForeign
           \/ Spend("rivals")  /\ spent.rivals < MaxRivals
    PROVE  /\ spent' \in Expenses /\ spent'.erased = spent.erased
           /\ spent'.lost = spent.lost /\ spent'.half = spent.half
  BY ProvisioningAssumption DEF TypeOK, Spend, Expenses

\* The same of an erasure, of a creation lost to a rival, of a new job and of a half
\* clone taken for the guest.
LEMMA SpendOther ==
    ASSUME TypeOK
    PROVE  /\ Spend("erased") /\ spent.erased < MaxErased =>
                /\ spent' \in Expenses /\ spent'.erased > spent.erased
                /\ spent'.erased > 0 /\ spent'.lost = spent.lost
                /\ spent'.half = spent.half
           /\ Spend("lost") /\ spent.lost = 0 =>
                /\ spent' \in Expenses /\ spent'.erased = spent.erased
                /\ spent'.half = spent.half
           /\ spent' = [spent EXCEPT !.jobs = @ + 1, !.lost = 0] /\ spent.jobs < MaxJobs =>
                /\ spent' \in Expenses /\ spent'.erased = spent.erased /\ spent'.lost = 0
                /\ spent'.half = spent.half
           /\ spent' = [spent EXCEPT !.half = 1] =>
                /\ spent' \in Expenses /\ spent'.erased = spent.erased
                /\ spent'.lost = spent.lost /\ spent'.half = 1
  <1>1. spent.erased \in 0..MaxErased /\ spent.jobs \in 1..MaxJobs
    BY DEF TypeOK, Expenses
  <1>2. Spend("erased") /\ spent.erased < MaxErased =>
                /\ spent' \in Expenses /\ spent'.erased = spent.erased + 1
                /\ spent'.lost = spent.lost /\ spent'.half = spent.half
    BY ProvisioningAssumption DEF TypeOK, Spend, Expenses
  <1>3. Spend("lost") /\ spent.lost = 0 =>
                /\ spent' \in Expenses /\ spent'.erased = spent.erased
                /\ spent'.half = spent.half
    BY ProvisioningAssumption DEF TypeOK, Spend, Expenses
  <1>4. spent' = [spent EXCEPT !.jobs = @ + 1, !.lost = 0] /\ spent.jobs < MaxJobs =>
                /\ spent' \in Expenses /\ spent'.erased = spent.erased /\ spent'.lost = 0
                /\ spent'.half = spent.half
    <2>1. spent.jobs < MaxJobs => spent.jobs + 1 \in 1..MaxJobs
      BY <1>1, ProvisioningAssumption
    <2>2. spent.lost \in 0..1 /\ 0 \in 0..1
      BY DEF TypeOK, Expenses
    <2> QED BY <2>1, <2>2 DEF TypeOK, Expenses
  <1>5. spent.erased + 1 > spent.erased /\ spent.erased + 1 > 0
    BY <1>1, ProvisioningAssumption
  <1>6. spent' = [spent EXCEPT !.half = 1] =>
               /\ spent' \in Expenses /\ spent'.erased = spent.erased
               /\ spent'.lost = spent.lost /\ spent'.half = 1
    BY DEF TypeOK, Expenses
  <1> QED BY <1>6, <1>2, <1>3, <1>4, <1>5

-----------------------------------------------------------------------------
(* Every step preserves each conjunct.                                     *)

\* Every step keeps the types.
LEMMA TypeStep ==
    ASSUME TypeOK, JobInv, GuestInv, Next
    PROVE  TypeOK'
  <1>1. CASE Claim
    BY <1>1, ColumnsUpdate, SpendType, ProvisioningAssumption
       DEF TypeOK, Claim, At, Goto, netbox, States, Statuses, Steps, FirstStep,
           Foundation
  <1>2. CASE Crash
    BY <1>2, ColumnsUpdate, SpendType DEF TypeOK, Crash, Goto, netbox, Steps
  <1>3. CASE Reclaim
    BY <1>3 DEF TypeOK, Reclaim, At, netbox, Statuses
  <1>4. CASE QueueAgain
    BY <1>4, SpendOther, ProvisioningAssumption
       DEF TypeOK, QueueAgain, netbox, States, Statuses
  <1>5. CASE Seek
    BY <1>5 DEF TypeOK, Seek, NextNeed, At, Goto, netbox, Steps, Foundation
  <1>6. CASE SeekRefuses
    BY <1>6, ColumnsUpdate
       DEF TypeOK, SeekRefuses, Fail, At, Goto, netbox, States, Statuses, Steps
  <1>7. CASE Create
    BY <1>7 DEF TypeOK, Create, NextNeed, At, Goto, netbox, Steps, Foundation
  <1>8. CASE CreateRefused
    BY <1>8, ColumnsUpdate, SpendOther
       DEF TypeOK, CreateRefused, Fail, At, Goto, netbox, States, Statuses,
           Steps, JobInv
  <1>9. CASE MirrorVm
    BY <1>9, MirrorUpdate DEF TypeOK, MirrorVm, Working, At, Goto, netbox, Steps
  <1>10. CASE MirrorInterface
    BY <1>10, MirrorUpdate DEF TypeOK, MirrorInterface, Working, At, Goto, netbox, Steps
  <1>11. CASE MirrorIp
    BY <1>11, MirrorUpdate DEF TypeOK, MirrorIp, Working, At, Goto, netbox, Steps
  <1>12. CASE MirrorPrimary
    BY <1>12, MirrorUpdate DEF TypeOK, MirrorPrimary, Working, At, Goto, netbox, Steps
  <1>13. CASE RecordIds
    BY <1>13, ColumnsUpdate DEF TypeOK, RecordIds, At, Goto, netbox, Steps
  <1>14. CASE RecordIdsRefuses
    BY <1>14, ColumnsUpdate
       DEF TypeOK, RecordIdsRefuses, Fail, At, Goto, netbox, States, Statuses,
           Steps
  <1>15. CASE Find
    BY <1>15, ColumnsUpdate
       DEF TypeOK, Find, WorkingPast, At, Goto, netbox, Steps, Guests
  <1>16. CASE FindRefuses
    BY <1>16, ColumnsUpdate
       DEF TypeOK, FindRefuses, Fail, At, Goto, netbox, States, Statuses, Steps
  <1>17. CASE Clone
    BY <1>17, NewGuest DEF TypeOK, Clone, Working, At, Goto, netbox, Steps
  <1>18. CASE CloneRefused
    BY <1>18, ColumnsUpdate
       DEF TypeOK, CloneRefused, Fail, At, Goto, netbox, States, Statuses, Steps
  <1>19. CASE WaitClone
    BY <1>19 DEF TypeOK, WaitClone, Working, At, Goto, netbox, Steps
  <1>20. CASE CloneFails
    BY <1>20, ColumnsUpdate, SpendType
       DEF TypeOK, CloneFails, Fail, At, Goto, netbox, States, Statuses, Steps
  <1>21. CASE Configure
    <2>1. guest' \in Guests
      BY <1>21, GuestUpdate DEF Configure
    <2>2. db' \in Columns
      BY <1>21, ColumnsUpdate DEF Configure, WorkingPast
    <2> QED BY <1>21, <2>1, <2>2 DEF TypeOK, Configure, WorkingPast, Goto, Steps
  <1>22. CASE Start
    BY <1>22, GuestUpdate, ColumnsUpdate
       DEF TypeOK, Start, WorkingPast, At, Goto, netbox, Steps
  <1>23. CASE WaitSsh
    BY <1>23, ColumnsUpdate
       DEF TypeOK, WaitSsh, WorkingPast, At, Goto, netbox, Steps, AfterGuest
  <1>24. CASE ApplyPolicy
    BY <1>24, ColumnsUpdate
       DEF TypeOK, ApplyPolicy, WorkingPast, At, Goto, netbox, Steps, AfterGuest
  <1>25. CASE ActivateIp
    <2>1. mirror' \in Mirrors
      BY <1>25, MirrorUpdate DEF ActivateIp
    <2>2. db' \in Columns
      BY <1>25, ColumnsUpdate DEF ActivateIp, WorkingPast
    <2> QED BY <1>25, <2>1, <2>2 DEF TypeOK, ActivateIp, WorkingPast, Goto, Steps
  <1>26. CASE ActivateVm
    BY <1>26, MirrorUpdate DEF TypeOK, ActivateVm, Working, At, Goto, netbox, Steps
  <1>27. CASE ActivateRefused
    BY <1>27, ColumnsUpdate
       DEF TypeOK, ActivateRefused, Fail, Goto, netbox, States, Statuses, Steps
  <1>28. CASE Finish
    BY <1>28, ColumnsUpdate
       DEF TypeOK, Finish, At, Goto, netbox, States, Statuses, Steps
  <1>29. CASE ExternalError
    BY <1>29, ColumnsUpdate, SpendType
       DEF TypeOK, ExternalError, Fail, Goto, netbox, States, Statuses, Steps
  <1>30. CASE CloneEnds
    <2>1. guest' \in Guests
      <3>1. Absent \in Guests
        BY DEF Absent, Guests
      <3> QED BY <1>30, <3>1, GuestUpdate DEF CloneEnds
    <2>2. spent' \in Expenses
      BY <1>30, SpendType DEF CloneEnds, TypeOK
    <2> QED BY <1>30, <2>1, <2>2 DEF TypeOK, CloneEnds, netbox
  <1>31. CASE ForeignGuest
    BY <1>31, NewGuest, SpendType DEF TypeOK, ForeignGuest, netbox
  <1>32. CASE RivalCreates
    BY <1>32, SpendType DEF TypeOK, RivalCreates, netbox, Foundation
  <1>33. CASE Erase
    BY <1>33, NoMirrorType, SpendOther DEF TypeOK, Erase, netbox
  <1>34. CASE FindHalf
    BY <1>34, ColumnsUpdate, SpendOther
       DEF TypeOK, FindHalf, At, Goto, netbox, Steps, Guests
  <1>35. CASE ConfigureRefused
    BY <1>35, ColumnsUpdate
       DEF TypeOK, ConfigureRefused, Fail, At, Goto, netbox, States, Statuses, Steps
  <1> QED
    BY <1>1, <1>2, <1>3, <1>4, <1>5, <1>6, <1>7, <1>8, <1>9, <1>10,
       <1>11, <1>12, <1>13, <1>14, <1>15, <1>16, <1>17, <1>18, <1>19, <1>20,
       <1>21, <1>22, <1>23, <1>24, <1>25, <1>26, <1>27, <1>28, <1>29, <1>30,
       <1>31, <1>32, <1>33, <1>34, <1>35
    DEF Next, WorkerStep

\* A worker has a Running job; success is final.
LEMMA JobStep ==
    ASSUME TypeOK, JobInv, Next
    PROVE  JobInv'
  <1>1. CASE Claim
    BY <1>1, ColumnsUpdate, SpendType DEF JobInv, Claim, At, Goto, netbox
  <1>2. CASE Crash
    BY <1>2, ColumnsUpdate, SpendType DEF JobInv, Crash, Goto, netbox
  <1>3. CASE Reclaim
    BY <1>3 DEF JobInv, Reclaim, At, netbox
  <1>4. CASE QueueAgain
    BY <1>4, SpendOther DEF JobInv, QueueAgain, netbox
  <1>5. CASE Seek
    BY <1>5 DEF JobInv, Seek, NextNeed, At, Goto, netbox
  <1>6. CASE SeekRefuses
    BY <1>6, ColumnsUpdate DEF JobInv, SeekRefuses, Fail, At, Goto, netbox
  <1>7. CASE Create
    BY <1>7 DEF JobInv, Create, NextNeed, At, Goto, netbox
  <1>8. CASE CreateRefused
    BY <1>8, ColumnsUpdate, SpendOther DEF JobInv, CreateRefused, Fail, At, Goto, netbox
  <1>9. CASE MirrorVm
    BY <1>9, MirrorUpdate DEF JobInv, MirrorVm, Working, At, Goto, netbox
  <1>10. CASE MirrorInterface
    BY <1>10, MirrorUpdate DEF JobInv, MirrorInterface, Working, At, Goto, netbox
  <1>11. CASE MirrorIp
    BY <1>11, MirrorUpdate DEF JobInv, MirrorIp, Working, At, Goto, netbox
  <1>12. CASE MirrorPrimary
    BY <1>12, MirrorUpdate DEF JobInv, MirrorPrimary, Working, At, Goto, netbox
  <1>13. CASE RecordIds
    BY <1>13, ColumnsUpdate DEF JobInv, RecordIds, At, Goto, netbox
  <1>14. CASE RecordIdsRefuses
    BY <1>14, ColumnsUpdate DEF JobInv, RecordIdsRefuses, Fail, At, Goto, netbox
  <1>15. CASE Find
    BY <1>15, ColumnsUpdate DEF JobInv, Find, WorkingPast, At, Goto, netbox
  <1>16. CASE FindRefuses
    BY <1>16, ColumnsUpdate DEF JobInv, FindRefuses, Fail, At, Goto, netbox
  <1>17. CASE Clone
    BY <1>17, NewGuest DEF JobInv, Clone, Working, At, Goto, netbox
  <1>18. CASE CloneRefused
    BY <1>18, ColumnsUpdate DEF JobInv, CloneRefused, Fail, At, Goto, netbox
  <1>19. CASE WaitClone
    BY <1>19 DEF JobInv, WaitClone, Working, At, Goto, netbox
  <1>20. CASE CloneFails
    BY <1>20, ColumnsUpdate, SpendType DEF JobInv, CloneFails, Fail, At, Goto, netbox
  <1>21. CASE Configure
    BY <1>21, GuestUpdate, ColumnsUpdate
       DEF JobInv, Configure, WorkingPast, At, Goto, netbox
  <1>22. CASE Start
    BY <1>22, GuestUpdate, ColumnsUpdate
       DEF JobInv, Start, WorkingPast, At, Goto, netbox
  <1>23. CASE WaitSsh
    BY <1>23, ColumnsUpdate DEF JobInv, WaitSsh, WorkingPast, At, Goto, netbox
  <1>24. CASE ApplyPolicy
    BY <1>24, ColumnsUpdate DEF JobInv, ApplyPolicy, WorkingPast, At, Goto, netbox
  <1>25. CASE ActivateIp
    BY <1>25, MirrorUpdate, ColumnsUpdate
       DEF JobInv, ActivateIp, WorkingPast, At, Goto, netbox
  <1>26. CASE ActivateVm
    BY <1>26, MirrorUpdate DEF JobInv, ActivateVm, Working, At, Goto, netbox
  <1>27. CASE ActivateRefused
    BY <1>27, ColumnsUpdate DEF JobInv, ActivateRefused, Fail, Goto, netbox
  <1>28. CASE Finish
    BY <1>28, ColumnsUpdate DEF JobInv, Finish, At, Goto, netbox
  <1>29. CASE ExternalError
    BY <1>29, ColumnsUpdate, SpendType DEF JobInv, ExternalError, Fail, Goto, netbox
  <1>30. CASE CloneEnds
    BY <1>30, GuestUpdate, NewGuest, SpendType DEF JobInv, CloneEnds, netbox
  <1>31. CASE ForeignGuest
    BY <1>31, NewGuest, SpendType DEF JobInv, ForeignGuest, netbox
  <1>32. CASE RivalCreates
    BY <1>32, SpendType DEF JobInv, RivalCreates, netbox
  <1>33. CASE Erase
    BY <1>33, NoMirrorType, SpendOther DEF JobInv, Erase, netbox
  <1>34. CASE FindHalf
    BY <1>34, ColumnsUpdate, SpendOther DEF JobInv, FindHalf, At, Goto, netbox
  <1>35. CASE ConfigureRefused
    BY <1>35, ColumnsUpdate DEF JobInv, ConfigureRefused, Fail, At, Goto, netbox
  <1> QED
    BY <1>1, <1>2, <1>3, <1>4, <1>5, <1>6, <1>7, <1>8, <1>9, <1>10,
       <1>11, <1>12, <1>13, <1>14, <1>15, <1>16, <1>17, <1>18, <1>19, <1>20,
       <1>21, <1>22, <1>23, <1>24, <1>25, <1>26, <1>27, <1>28, <1>29, <1>30,
       <1>31, <1>32, <1>33, <1>34, <1>35
    DEF Next, WorkerStep

\* The VM's records follow those it shares with other VMs.
LEMMA ReserveStep ==
    ASSUME TypeOK, JobInv, ReserveInv, Next
    PROVE  ReserveInv'
  <1>1. CASE Claim
    BY <1>1, ColumnsUpdate, SpendType
       DEF ReserveInv, Reserving, Mirroring, Activating, Claim, At, Goto, netbox,
           FirstStep, Foundation
  <1>2. CASE Crash
    BY <1>2, ColumnsUpdate, SpendType
       DEF ReserveInv, Reserving, Mirroring, Activating, Crash, Goto, netbox
  <1>3. CASE Reclaim
    BY <1>3 DEF ReserveInv, Reserving, Mirroring, Activating, Reclaim, At, netbox
  <1>4. CASE QueueAgain
    BY <1>4, SpendOther
       DEF ReserveInv, Reserving, Mirroring, Activating, QueueAgain, netbox
  <1>5. CASE Seek
    BY <1>5
       DEF ReserveInv, Reserving, Mirroring, Activating, Seek, NextNeed, At,
           Goto, netbox, TypeOK, Foundation
  <1>6. CASE SeekRefuses
    BY <1>6, ColumnsUpdate
       DEF ReserveInv, Reserving, Mirroring, Activating, SeekRefuses, Fail, At,
           Goto, netbox
  <1>7. CASE Create
    BY <1>7
       DEF ReserveInv, Reserving, Mirroring, Activating, Create, NextNeed, At,
           Goto, netbox, TypeOK, Foundation
  <1>8. CASE CreateRefused
    BY <1>8, ColumnsUpdate, SpendOther
       DEF ReserveInv, Reserving, Mirroring, Activating, CreateRefused, Fail, At,
           Goto, netbox
  <1>9. CASE MirrorVm
    BY <1>9, MirrorUpdate
       DEF ReserveInv, Reserving, Mirroring, Activating, MirrorVm, Working, At,
           Goto, netbox
  <1>10. CASE MirrorInterface
    BY <1>10, MirrorUpdate
       DEF ReserveInv, Reserving, Mirroring, Activating, MirrorInterface,
           Working, At, Goto, netbox, TypeOK, Mirrors
  <1>11. CASE MirrorIp
    BY <1>11, MirrorUpdate
       DEF ReserveInv, Reserving, Mirroring, Activating, MirrorIp, Working, At,
           Goto, netbox, TypeOK, Mirrors
  <1>12. CASE MirrorPrimary
    BY <1>12, MirrorUpdate
       DEF ReserveInv, Reserving, Mirroring, Activating, MirrorPrimary, Working,
           At, Goto, netbox
  <1>13. CASE RecordIds
    BY <1>13, ColumnsUpdate
       DEF ReserveInv, Reserving, Mirroring, Activating, RecordIds, At, Goto,
           netbox
  <1>14. CASE RecordIdsRefuses
    BY <1>14, ColumnsUpdate
       DEF ReserveInv, Reserving, Mirroring, Activating, RecordIdsRefuses, Fail,
           At, Goto, netbox
  <1>15. CASE Find
    BY <1>15, ColumnsUpdate
       DEF ReserveInv, Reserving, Mirroring, Activating, Find, WorkingPast, At,
           Goto, netbox
  <1>16. CASE FindRefuses
    BY <1>16, ColumnsUpdate
       DEF ReserveInv, Reserving, Mirroring, Activating, FindRefuses, Fail, At,
           Goto, netbox
  <1>17. CASE Clone
    BY <1>17, NewGuest
       DEF ReserveInv, Reserving, Mirroring, Activating, Clone, Working, At,
           Goto, netbox
  <1>18. CASE CloneRefused
    BY <1>18, ColumnsUpdate
       DEF ReserveInv, Reserving, Mirroring, Activating, CloneRefused, Fail, At,
           Goto, netbox
  <1>19. CASE WaitClone
    BY <1>19
       DEF ReserveInv, Reserving, Mirroring, Activating, WaitClone, Working, At,
           Goto, netbox
  <1>20. CASE CloneFails
    BY <1>20, ColumnsUpdate, SpendType
       DEF ReserveInv, Reserving, Mirroring, Activating, CloneFails, Fail, At,
           Goto, netbox
  <1>21. CASE Configure
    BY <1>21, GuestUpdate, ColumnsUpdate
       DEF ReserveInv, Reserving, Mirroring, Activating, Configure, WorkingPast,
           At, Goto, netbox
  <1>22. CASE Start
    BY <1>22, GuestUpdate, ColumnsUpdate
       DEF ReserveInv, Reserving, Mirroring, Activating, Start, WorkingPast, At,
           Goto, netbox
  <1>23. CASE WaitSsh
    BY <1>23, ColumnsUpdate
       DEF ReserveInv, Reserving, Mirroring, Activating, WaitSsh, WorkingPast,
           At, Goto, netbox, AfterGuest
  <1>24. CASE ApplyPolicy
    BY <1>24, ColumnsUpdate
       DEF ReserveInv, Reserving, Mirroring, Activating, ApplyPolicy,
           WorkingPast, At, Goto, netbox, AfterGuest
  <1>25. CASE ActivateIp
    BY <1>25, MirrorUpdate, ColumnsUpdate
       DEF ReserveInv, Reserving, Mirroring, Activating, ActivateIp, WorkingPast,
           At, Goto, netbox
  <1>26. CASE ActivateVm
    BY <1>26, MirrorUpdate
       DEF ReserveInv, Reserving, Mirroring, Activating, ActivateVm, Working, At,
           Goto, netbox
  <1>27. CASE ActivateRefused
    BY <1>27, ColumnsUpdate
       DEF ReserveInv, Reserving, Mirroring, Activating, ActivateRefused, Fail,
           Goto, netbox
  <1>28. CASE Finish
    BY <1>28, ColumnsUpdate
       DEF ReserveInv, Reserving, Mirroring, Activating, Finish, At, Goto, netbox
  <1>29. CASE ExternalError
    BY <1>29, ColumnsUpdate, SpendType
       DEF ReserveInv, Reserving, Mirroring, Activating, ExternalError, Fail,
           Goto, netbox
  <1>30. CASE CloneEnds
    BY <1>30, GuestUpdate, NewGuest, SpendType
       DEF ReserveInv, Reserving, Mirroring, Activating, CloneEnds, netbox
  <1>31. CASE ForeignGuest
    BY <1>31, NewGuest, SpendType
       DEF ReserveInv, Reserving, Mirroring, Activating, ForeignGuest, netbox
  <1>32. CASE RivalCreates
    BY <1>32, SpendType
       DEF ReserveInv, Reserving, Mirroring, Activating, RivalCreates, netbox,
           TypeOK, Foundation
  <1>33. CASE Erase
    BY <1>33, NoMirrorType, SpendOther
       DEF ReserveInv, Reserving, Mirroring, Activating, Erase, netbox, NoMirror
  <1>34. CASE FindHalf
    BY <1>34, ColumnsUpdate, SpendOther
       DEF ReserveInv, Reserving, Mirroring, Activating, FindHalf, At,
           Goto, netbox
  <1>35. CASE ConfigureRefused
    BY <1>35, ColumnsUpdate
       DEF ReserveInv, Reserving, Mirroring, Activating, ConfigureRefused, Fail, At,
           Goto, netbox
  <1> QED
    BY <1>1, <1>2, <1>3, <1>4, <1>5, <1>6, <1>7, <1>8, <1>9, <1>10,
       <1>11, <1>12, <1>13, <1>14, <1>15, <1>16, <1>17, <1>18, <1>19, <1>20,
       <1>21, <1>22, <1>23, <1>24, <1>25, <1>26, <1>27, <1>28, <1>29, <1>30,
       <1>31, <1>32, <1>33, <1>34, <1>35
    DEF Next, WorkerStep

\* Past RecordIds the records in NetBox are the recorded ones or erased.
LEMMA IdentityStep ==
    ASSUME TypeOK, JobInv, ReserveInv, IdentityInv, Next
    PROVE  IdentityInv'
  <1>1. CASE Claim
    BY <1>1, ColumnsUpdate, SpendType
       DEF IdentityInv, Mirrored, Leased, Mirroring, Reserving, Activating,
           Accessible, Building, Provisioned, Claim, At, Goto, netbox, FirstStep
  <1>2. CASE Crash
    BY <1>2, ColumnsUpdate, SpendType
       DEF IdentityInv, Mirrored, Leased, Mirroring, Reserving, Activating,
           Accessible, Building, Provisioned, Crash, Goto, netbox
  <1>3. CASE Reclaim
    BY <1>3
       DEF IdentityInv, Mirrored, Leased, Mirroring, Reserving, Activating,
           Accessible, Building, Provisioned, Reclaim, At, netbox
  <1>4. CASE QueueAgain
    BY <1>4, SpendOther
       DEF IdentityInv, Mirrored, Leased, Mirroring, Reserving, Activating,
           Accessible, Building, Provisioned, QueueAgain, netbox
  <1>5. CASE Seek
    BY <1>5
       DEF IdentityInv, Mirrored, Leased, Mirroring, Reserving, Activating,
           Accessible, Building, Provisioned, Seek, NextNeed, At, Goto, netbox,
           ReserveInv
  <1>6. CASE SeekRefuses
    BY <1>6, ColumnsUpdate
       DEF IdentityInv, Mirrored, Leased, Mirroring, Reserving, Activating,
           Accessible, Building, Provisioned, SeekRefuses, Fail, At, Goto, netbox
  <1>7. CASE Create
    BY <1>7
       DEF IdentityInv, Mirrored, Leased, Mirroring, Reserving, Activating,
           Accessible, Building, Provisioned, Create, NextNeed, At, Goto, netbox,
           ReserveInv
  <1>8. CASE CreateRefused
    BY <1>8, ColumnsUpdate, SpendOther
       DEF IdentityInv, Mirrored, Leased, Mirroring, Reserving, Activating,
           Accessible, Building, Provisioned, CreateRefused, Fail, At, Goto,
           netbox, JobInv
  <1>9. CASE MirrorVm
    BY <1>9, MirrorUpdate
       DEF IdentityInv, Mirrored, Leased, Mirroring, Reserving, Activating,
           Accessible, Building, Provisioned, MirrorVm, Working, At, Goto,
           netbox, ReserveInv, NoMirror
  <1>10. CASE MirrorInterface
    BY <1>10, MirrorUpdate
       DEF IdentityInv, Mirrored, Leased, Mirroring, Reserving, Activating,
           Accessible, Building, Provisioned, MirrorInterface, Working, At, Goto,
           netbox, ReserveInv
  <1>11. CASE MirrorIp
    BY <1>11, MirrorUpdate
       DEF IdentityInv, Mirrored, Leased, Mirroring, Reserving, Activating,
           Accessible, Building, Provisioned, MirrorIp, Working, At, Goto,
           netbox, ReserveInv
  <1>12. CASE MirrorPrimary
    BY <1>12, MirrorUpdate
       DEF IdentityInv, Mirrored, Leased, Mirroring, Reserving, Activating,
           Accessible, Building, Provisioned, MirrorPrimary, Working, At, Goto,
           netbox, ReserveInv
  <1>13. CASE RecordIds
    BY <1>13, ColumnsUpdate
       DEF IdentityInv, Mirrored, Leased, Mirroring, Reserving, Activating,
           Accessible, Building, Provisioned, RecordIds, At, Goto, netbox,
           ReserveInv
  <1>14. CASE RecordIdsRefuses
    BY <1>14, ColumnsUpdate
       DEF IdentityInv, Mirrored, Leased, Mirroring, Reserving, Activating,
           Accessible, Building, Provisioned, RecordIdsRefuses, Fail, At, Goto,
           netbox
  <1>15. CASE Find
    BY <1>15, ColumnsUpdate
       DEF IdentityInv, Mirrored, Leased, Mirroring, Reserving, Activating,
           Accessible, Building, Provisioned, Find, WorkingPast, At, Goto, netbox
  <1>16. CASE FindRefuses
    BY <1>16, ColumnsUpdate
       DEF IdentityInv, Mirrored, Leased, Mirroring, Reserving, Activating,
           Accessible, Building, Provisioned, FindRefuses, Fail, At, Goto, netbox
  <1>17. CASE Clone
    BY <1>17, NewGuest
       DEF IdentityInv, Mirrored, Leased, Mirroring, Reserving, Activating,
           Accessible, Building, Provisioned, Clone, Working, At, Goto, netbox
  <1>18. CASE CloneRefused
    BY <1>18, ColumnsUpdate
       DEF IdentityInv, Mirrored, Leased, Mirroring, Reserving, Activating,
           Accessible, Building, Provisioned, CloneRefused, Fail, At, Goto,
           netbox
  <1>19. CASE WaitClone
    BY <1>19
       DEF IdentityInv, Mirrored, Leased, Mirroring, Reserving, Activating,
           Accessible, Building, Provisioned, WaitClone, Working, At, Goto,
           netbox
  <1>20. CASE CloneFails
    BY <1>20, ColumnsUpdate, SpendType
       DEF IdentityInv, Mirrored, Leased, Mirroring, Reserving, Activating,
           Accessible, Building, Provisioned, CloneFails, Fail, At, Goto, netbox
  <1>21. CASE Configure
    BY <1>21, GuestUpdate, ColumnsUpdate
       DEF IdentityInv, Mirrored, Leased, Mirroring, Reserving, Activating,
           Accessible, Building, Provisioned, Configure, WorkingPast, At, Goto,
           netbox
  <1>22. CASE Start
    BY <1>22, GuestUpdate, ColumnsUpdate
       DEF IdentityInv, Mirrored, Leased, Mirroring, Reserving, Activating,
           Accessible, Building, Provisioned, Start, WorkingPast, At, Goto,
           netbox
  <1>23. CASE WaitSsh
    BY <1>23, ColumnsUpdate
       DEF IdentityInv, Mirrored, Leased, Mirroring, Reserving, Activating,
           Accessible, Building, Provisioned, WaitSsh, WorkingPast, At, Goto,
           netbox, AfterGuest
  <1>24. CASE ApplyPolicy
    BY <1>24, ColumnsUpdate
       DEF IdentityInv, Mirrored, Leased, Mirroring, Reserving, Activating,
           Accessible, Building, Provisioned, ApplyPolicy, WorkingPast, At, Goto,
           netbox, AfterGuest
  <1>25. CASE ActivateIp
    <2>1. db'.ids = db.ids
      BY <1>25, ColumnsUpdate DEF ActivateIp, WorkingPast
    <2>2. mirror'.vm = mirror.vm /\ mirror'.ipActive /\ mirror'.vmActive = mirror.vmActive
      BY <1>25, MirrorUpdate DEF ActivateIp
    <2>3. Mirrored' <=> Mirrored
      BY <1>25, MirrorUpdate DEF ActivateIp, Mirrored
    <2>4. mirror.vm = db.ids /\ mirror.vm # 0
      BY <1>25
         DEF ActivateIp, At, IdentityInv, Provisioned, Building, Accessible,
             Activating, ReserveInv
    <2>5. Mirrored /\ db.ids # 0
      BY <1>25, <2>4
         DEF ActivateIp, At, IdentityInv, Provisioned, Building, Accessible,
             Activating, ReserveInv
    <2>6. pc' = "activateVm"
      BY <1>25 DEF ActivateIp, Goto
    <2> QED BY <2>1, <2>2, <2>3, <2>4, <2>5, <2>6 DEF IdentityInv
  <1>26. CASE ActivateVm
    BY <1>26, MirrorUpdate
       DEF IdentityInv, Mirrored, Leased, Mirroring, Reserving, Activating,
           Accessible, Building, Provisioned, ActivateVm, Working, At, Goto,
           netbox
  <1>27. CASE ActivateRefused
    BY <1>27, ColumnsUpdate
       DEF IdentityInv, Mirrored, Leased, Mirroring, Reserving, Activating,
           Accessible, Building, Provisioned, ActivateRefused, Fail, Goto, netbox
  <1>28. CASE Finish
    BY <1>28, ColumnsUpdate
       DEF IdentityInv, Mirrored, Leased, Mirroring, Reserving, Activating,
           Accessible, Building, Provisioned, Finish, At, Goto, netbox
  <1>29. CASE ExternalError
    BY <1>29, ColumnsUpdate, SpendType
       DEF IdentityInv, Mirrored, Leased, Mirroring, Reserving, Activating,
           Accessible, Building, Provisioned, ExternalError, Fail, Goto, netbox
  <1>30. CASE CloneEnds
    BY <1>30, GuestUpdate, NewGuest, SpendType
       DEF IdentityInv, Mirrored, Leased, Mirroring, Reserving, Activating,
           Accessible, Building, Provisioned, CloneEnds, netbox
  <1>31. CASE ForeignGuest
    BY <1>31, NewGuest, SpendType
       DEF IdentityInv, Mirrored, Leased, Mirroring, Reserving, Activating,
           Accessible, Building, Provisioned, ForeignGuest, netbox
  <1>32. CASE RivalCreates
    BY <1>32, SpendType
       DEF IdentityInv, Mirrored, Leased, Mirroring, Reserving, Activating,
           Accessible, Building, Provisioned, RivalCreates, netbox
  <1>33. CASE Erase
    BY <1>33, NoMirrorType, SpendOther
       DEF IdentityInv, Mirrored, Leased, Mirroring, Reserving, Activating,
           Accessible, Building, Provisioned, Erase, netbox, NoMirror
  <1>34. CASE FindHalf
    BY <1>34, ColumnsUpdate, SpendOther
       DEF IdentityInv, Mirrored, Leased, Mirroring, Reserving, Activating,
           Accessible, Building, Provisioned, FindHalf, At, Goto, netbox
  <1>35. CASE ConfigureRefused
    BY <1>35, ColumnsUpdate
       DEF IdentityInv, Mirrored, Leased, Mirroring, Reserving, Activating,
           Accessible, Building, Provisioned, ConfigureRefused, Fail, At, Goto,
           netbox
  <1> QED
    BY <1>1, <1>2, <1>3, <1>4, <1>5, <1>6, <1>7, <1>8, <1>9, <1>10,
       <1>11, <1>12, <1>13, <1>14, <1>15, <1>16, <1>17, <1>18, <1>19, <1>20,
       <1>21, <1>22, <1>23, <1>24, <1>25, <1>26, <1>27, <1>28, <1>29, <1>30,
       <1>31, <1>32, <1>33, <1>34, <1>35
    DEF Next, WorkerStep

\* The guest the worker has in hand stays, configured once it is.
LEMMA GuestStep ==
    ASSUME TypeOK, JobInv, ReserveInv, IdentityInv, GuestInv, Next
    PROVE  GuestInv'
  <1>1. CASE Claim
    BY <1>1, ColumnsUpdate, SpendType
       DEF GuestInv, Ours, Taken, Mirroring, Reserving, Activating, Accessible,
           Building, Provisioned, Claim, At, Goto, netbox, FirstStep
  <1>2. CASE Crash
    BY <1>2, ColumnsUpdate, SpendType
       DEF GuestInv, Ours, Taken, Mirroring, Reserving, Activating, Accessible,
           Building, Provisioned, Crash, Goto, netbox
  <1>3. CASE Reclaim
    BY <1>3
       DEF GuestInv, Ours, Taken, Mirroring, Reserving, Activating, Accessible,
           Building, Provisioned, Reclaim, At, netbox
  <1>4. CASE QueueAgain
    BY <1>4, SpendOther
       DEF GuestInv, Ours, Taken, Mirroring, Reserving, Activating, Accessible,
           Building, Provisioned, QueueAgain, netbox
  <1>5. CASE Seek
    BY <1>5
       DEF GuestInv, Ours, Taken, Mirroring, Reserving, Activating, Accessible,
           Building, Provisioned, Seek, NextNeed, At, Goto, netbox
  <1>6. CASE SeekRefuses
    BY <1>6, ColumnsUpdate
       DEF GuestInv, Ours, Taken, Mirroring, Reserving, Activating, Accessible,
           Building, Provisioned, SeekRefuses, Fail, At, Goto, netbox
  <1>7. CASE Create
    BY <1>7
       DEF GuestInv, Ours, Taken, Mirroring, Reserving, Activating, Accessible,
           Building, Provisioned, Create, NextNeed, At, Goto, netbox
  <1>8. CASE CreateRefused
    BY <1>8, ColumnsUpdate, SpendOther
       DEF GuestInv, Ours, Taken, Mirroring, Reserving, Activating, Accessible,
           Building, Provisioned, CreateRefused, Fail, At, Goto, netbox,
           JobInv
  <1>9. CASE MirrorVm
    BY <1>9, MirrorUpdate
       DEF GuestInv, Ours, Taken, Mirroring, Reserving, Activating, Accessible,
           Building, Provisioned, MirrorVm, Working, At, Goto, netbox,
           ReserveInv, NoMirror
  <1>10. CASE MirrorInterface
    BY <1>10, MirrorUpdate
       DEF GuestInv, Ours, Taken, Mirroring, Reserving, Activating, Accessible,
           Building, Provisioned, MirrorInterface, Working, At, Goto, netbox
  <1>11. CASE MirrorIp
    BY <1>11, MirrorUpdate
       DEF GuestInv, Ours, Taken, Mirroring, Reserving, Activating, Accessible,
           Building, Provisioned, MirrorIp, Working, At, Goto, netbox
  <1>12. CASE MirrorPrimary
    BY <1>12, MirrorUpdate
       DEF GuestInv, Ours, Taken, Mirroring, Reserving, Activating, Accessible,
           Building, Provisioned, MirrorPrimary, Working, At, Goto, netbox
  <1>13. CASE RecordIds
    BY <1>13, ColumnsUpdate
       DEF GuestInv, Ours, Taken, Mirroring, Reserving, Activating, Accessible,
           Building, Provisioned, RecordIds, At, Goto, netbox, ReserveInv
  <1>14. CASE RecordIdsRefuses
    BY <1>14, ColumnsUpdate
       DEF GuestInv, Ours, Taken, Mirroring, Reserving, Activating, Accessible,
           Building, Provisioned, RecordIdsRefuses, Fail, At, Goto, netbox
  <1>15. CASE Find
    BY <1>15, ColumnsUpdate
       DEF GuestInv, Ours, Taken, Mirroring, Reserving, Activating, Accessible,
           Building, Provisioned, Find, WorkingPast, At, Goto, netbox
  <1>16. CASE FindRefuses
    BY <1>16, ColumnsUpdate
       DEF GuestInv, Ours, Taken, Mirroring, Reserving, Activating, Accessible,
           Building, Provisioned, FindRefuses, Fail, At, Goto, netbox
  <1>17. CASE Clone
    BY <1>17, NewGuest
       DEF GuestInv, Ours, Taken, Mirroring, Reserving, Activating, Accessible,
           Building, Provisioned, Clone, Working, At, Goto, netbox
  <1>18. CASE CloneRefused
    BY <1>18, ColumnsUpdate
       DEF GuestInv, Ours, Taken, Mirroring, Reserving, Activating, Accessible,
           Building, Provisioned, CloneRefused, Fail, At, Goto, netbox
  <1>19. CASE WaitClone
    BY <1>19
       DEF GuestInv, Ours, Taken, Mirroring, Reserving, Activating, Accessible,
           Building, Provisioned, WaitClone, Working, At, Goto, netbox
  <1>20. CASE CloneFails
    BY <1>20, ColumnsUpdate, SpendType
       DEF GuestInv, Ours, Taken, Mirroring, Reserving, Activating, Accessible,
           Building, Provisioned, CloneFails, Fail, At, Goto, netbox
  <1>21. CASE Configure
    BY <1>21, GuestUpdate, ColumnsUpdate
       DEF GuestInv, Ours, Taken, Mirroring, Reserving, Activating, Accessible,
           Building, Provisioned, Configure, WorkingPast, At, Goto, netbox,
           IdentityInv
  <1>22. CASE Start
    BY <1>22, GuestUpdate, ColumnsUpdate
       DEF GuestInv, Ours, Taken, Mirroring, Reserving, Activating, Accessible,
           Building, Provisioned, Start, WorkingPast, At, Goto, netbox
  <1>23. CASE WaitSsh
    BY <1>23, ColumnsUpdate
       DEF GuestInv, Ours, Taken, Mirroring, Reserving, Activating, Accessible,
           Building, Provisioned, WaitSsh, WorkingPast, At, Goto, netbox,
           AfterGuest
  <1>24. CASE ApplyPolicy
    BY <1>24, ColumnsUpdate
       DEF GuestInv, Ours, Taken, Mirroring, Reserving, Activating, Accessible,
           Building, Provisioned, ApplyPolicy, WorkingPast, At, Goto, netbox,
           AfterGuest
  <1>25. CASE ActivateIp
    BY <1>25, MirrorUpdate, ColumnsUpdate
       DEF GuestInv, Ours, Taken, Mirroring, Reserving, Activating, Accessible,
           Building, Provisioned, ActivateIp, WorkingPast, At, Goto, netbox
  <1>26. CASE ActivateVm
    BY <1>26, MirrorUpdate
       DEF GuestInv, Ours, Taken, Mirroring, Reserving, Activating, Accessible,
           Building, Provisioned, ActivateVm, Working, At, Goto, netbox
  <1>27. CASE ActivateRefused
    BY <1>27, ColumnsUpdate
       DEF GuestInv, Ours, Taken, Mirroring, Reserving, Activating, Accessible,
           Building, Provisioned, ActivateRefused, Fail, Goto, netbox
  <1>28. CASE Finish
    BY <1>28, ColumnsUpdate
       DEF GuestInv, Ours, Taken, Mirroring, Reserving, Activating, Accessible,
           Building, Provisioned, Finish, At, Goto, netbox, JobInv
  <1>29. CASE ExternalError
    BY <1>29, ColumnsUpdate, SpendType
       DEF GuestInv, Ours, Taken, Mirroring, Reserving, Activating, Accessible,
           Building, Provisioned, ExternalError, Fail, Goto, netbox
  <1>30. CASE CloneEnds
    BY <1>30, GuestUpdate, NewGuest, SpendType
       DEF GuestInv, Ours, Taken, Mirroring, Reserving, Activating, Accessible,
           Building, Provisioned, CloneEnds, netbox, Absent
  <1>31. CASE ForeignGuest
    BY <1>31, NewGuest, SpendType
       DEF GuestInv, Ours, Taken, Mirroring, Reserving, Activating, Accessible,
           Building, Provisioned, ForeignGuest, netbox
  <1>32. CASE RivalCreates
    BY <1>32, SpendType
       DEF GuestInv, Ours, Taken, Mirroring, Reserving, Activating, Accessible,
           Building, Provisioned, RivalCreates, netbox
  <1>33. CASE Erase
    BY <1>33, NoMirrorType, SpendOther
       DEF GuestInv, Ours, Taken, Mirroring, Reserving, Activating, Accessible,
           Building, Provisioned, Erase, netbox, NoMirror
  <1>34. CASE FindHalf
    BY <1>34, ColumnsUpdate, SpendOther
       DEF GuestInv, Ours, Taken, Mirroring, Reserving, Activating, Accessible,
           Building, Provisioned, FindHalf, At, Goto, netbox
  <1>35. CASE ConfigureRefused
    BY <1>35, ColumnsUpdate
       DEF GuestInv, Ours, Taken, Mirroring, Reserving, Activating, Accessible,
           Building, Provisioned, ConfigureRefused, Fail, At, Goto, netbox
  <1> QED
    BY <1>1, <1>2, <1>3, <1>4, <1>5, <1>6, <1>7, <1>8, <1>9, <1>10,
       <1>11, <1>12, <1>13, <1>14, <1>15, <1>16, <1>17, <1>18, <1>19, <1>20,
       <1>21, <1>22, <1>23, <1>24, <1>25, <1>26, <1>27, <1>28, <1>29, <1>30,
       <1>31, <1>32, <1>33, <1>34, <1>35
    DEF Next, WorkerStep

\* An Active VM stays complete.
LEMMA CompleteStep ==
    ASSUME TypeOK, JobInv, ReserveInv, IdentityInv, GuestInv, ActiveIsComplete, Next
    PROVE  ActiveIsComplete'
  <1>1. CASE Claim
    BY <1>1, ColumnsUpdate, SpendType
       DEF ActiveIsComplete, JobInv, Claim, At, Goto, netbox
  <1>2. CASE Crash
    BY <1>2, ColumnsUpdate, SpendType DEF ActiveIsComplete, JobInv, Crash, Goto, netbox
  <1>3. CASE Reclaim
    BY <1>3 DEF ActiveIsComplete, JobInv, Reclaim, At, netbox
  <1>4. CASE QueueAgain
    BY <1>4, SpendOther DEF ActiveIsComplete, JobInv, QueueAgain, netbox
  <1>5. CASE Seek
    BY <1>5 DEF ActiveIsComplete, JobInv, Seek, NextNeed, At, Goto, netbox
  <1>6. CASE SeekRefuses
    BY <1>6, ColumnsUpdate
       DEF ActiveIsComplete, JobInv, SeekRefuses, Fail, At, Goto, netbox
  <1>7. CASE Create
    BY <1>7 DEF ActiveIsComplete, JobInv, Create, NextNeed, At, Goto, netbox
  <1>8. CASE CreateRefused
    BY <1>8, ColumnsUpdate, SpendOther
       DEF ActiveIsComplete, JobInv, CreateRefused, Fail, At, Goto, netbox
  <1>9. CASE MirrorVm
    BY <1>9, MirrorUpdate
       DEF ActiveIsComplete, JobInv, MirrorVm, Working, At, Goto, netbox
  <1>10. CASE MirrorInterface
    BY <1>10, MirrorUpdate
       DEF ActiveIsComplete, JobInv, MirrorInterface, Working, At, Goto, netbox
  <1>11. CASE MirrorIp
    BY <1>11, MirrorUpdate
       DEF ActiveIsComplete, JobInv, MirrorIp, Working, At, Goto, netbox
  <1>12. CASE MirrorPrimary
    BY <1>12, MirrorUpdate
       DEF ActiveIsComplete, JobInv, MirrorPrimary, Working, At, Goto, netbox
  <1>13. CASE RecordIds
    BY <1>13, ColumnsUpdate DEF ActiveIsComplete, JobInv, RecordIds, At, Goto, netbox
  <1>14. CASE RecordIdsRefuses
    BY <1>14, ColumnsUpdate
       DEF ActiveIsComplete, JobInv, RecordIdsRefuses, Fail, At, Goto, netbox
  <1>15. CASE Find
    BY <1>15, ColumnsUpdate
       DEF ActiveIsComplete, JobInv, Find, WorkingPast, At, Goto, netbox
  <1>16. CASE FindRefuses
    BY <1>16, ColumnsUpdate
       DEF ActiveIsComplete, JobInv, FindRefuses, Fail, At, Goto, netbox
  <1>17. CASE Clone
    BY <1>17, NewGuest DEF ActiveIsComplete, JobInv, Clone, Working, At, Goto, netbox
  <1>18. CASE CloneRefused
    BY <1>18, ColumnsUpdate
       DEF ActiveIsComplete, JobInv, CloneRefused, Fail, At, Goto, netbox
  <1>19. CASE WaitClone
    BY <1>19 DEF ActiveIsComplete, JobInv, WaitClone, Working, At, Goto, netbox
  <1>20. CASE CloneFails
    BY <1>20, ColumnsUpdate, SpendType
       DEF ActiveIsComplete, JobInv, CloneFails, Fail, At, Goto, netbox
  <1>21. CASE Configure
    BY <1>21, GuestUpdate, ColumnsUpdate
       DEF ActiveIsComplete, JobInv, Configure, WorkingPast, At, Goto, netbox
  <1>22. CASE Start
    BY <1>22, GuestUpdate, ColumnsUpdate
       DEF ActiveIsComplete, JobInv, Start, WorkingPast, At, Goto, netbox
  <1>23. CASE WaitSsh
    BY <1>23, ColumnsUpdate
       DEF ActiveIsComplete, JobInv, WaitSsh, WorkingPast, At, Goto, netbox
  <1>24. CASE ApplyPolicy
    BY <1>24, ColumnsUpdate
       DEF ActiveIsComplete, JobInv, ApplyPolicy, WorkingPast, At, Goto, netbox
  <1>25. CASE ActivateIp
    BY <1>25, MirrorUpdate, ColumnsUpdate
       DEF ActiveIsComplete, JobInv, ActivateIp, WorkingPast, At, Goto, netbox
  <1>26. CASE ActivateVm
    BY <1>26, MirrorUpdate
       DEF ActiveIsComplete, JobInv, ActivateVm, Working, At, Goto, netbox
  <1>27. CASE ActivateRefused
    BY <1>27, ColumnsUpdate
       DEF ActiveIsComplete, JobInv, ActivateRefused, Fail, Goto, netbox
  <1>28. CASE Finish
    <2>1. db'.node = target /\ db'.ids = db.ids
      BY <1>28, ColumnsUpdate DEF Finish
    <2>2. /\ guest.what = "running" \/ (Taken /\ spent.half > 0)
          /\ guest.configured /\ guest.node = target
      BY <1>28 DEF Finish, At, GuestInv, Building, Accessible, Ours, Taken
    <2>3. NetBoxEnabled => /\ db.ids # 0
                           /\ mirror.vm = 0 \/ (mirror.vm = db.ids /\ Mirrored /\ Leased)
      BY <1>28 DEF Finish, At, IdentityInv, Provisioned, Building, Accessible
    <2> QED BY <1>28, <2>1, <2>2, <2>3
               DEF ActiveIsComplete, Finish, netbox, Mirrored, Leased, Taken
  <1>29. CASE ExternalError
    BY <1>29, ColumnsUpdate, SpendType
       DEF ActiveIsComplete, JobInv, ExternalError, Fail, Goto, netbox
  <1>30. CASE CloneEnds
    BY <1>30, GuestUpdate, NewGuest, SpendType
       DEF ActiveIsComplete, Taken, CloneEnds, netbox, Mirrored, Leased
  <1>31. CASE ForeignGuest
    BY <1>31, SpendType
       DEF ActiveIsComplete, Taken, ForeignGuest, netbox, Mirrored, Leased
  <1>32. CASE RivalCreates
    BY <1>32, SpendType DEF ActiveIsComplete, Taken, RivalCreates, Mirrored, Leased
  <1>33. CASE Erase
    BY <1>33, NoMirrorType, SpendOther
       DEF ActiveIsComplete, Taken, Erase, NoMirror
  <1>34. CASE FindHalf
    BY <1>34, ColumnsUpdate, SpendOther
       DEF ActiveIsComplete, JobInv, FindHalf, At, Goto, netbox
  <1>35. CASE ConfigureRefused
    BY <1>35, ColumnsUpdate
       DEF ActiveIsComplete, JobInv, ConfigureRefused, Fail, At, Goto, netbox
  <1> QED
    BY <1>1, <1>2, <1>3, <1>4, <1>5, <1>6, <1>7, <1>8, <1>9, <1>10,
       <1>11, <1>12, <1>13, <1>14, <1>15, <1>16, <1>17, <1>18, <1>19, <1>20,
       <1>21, <1>22, <1>23, <1>24, <1>25, <1>26, <1>27, <1>28, <1>29, <1>30,
       <1>31, <1>32, <1>33, <1>34, <1>35
    DEF Next, WorkerStep

\* The milestone due at a step has been reached.
LEMMA DueTrue ==
    ASSUME TypeOK, IdentityInv, GuestInv
    PROVE  /\ Due >= 25 /\ NetBoxEnabled => db.ids # 0
           /\ Due >= 40 => Ours \/ spent.half > 0
           /\ Due >= 55 => guest.configured
           /\ Due >= 65 => guest.what = "running" \/ Taken
           /\ Due < 100
  <1>1. CASE pc \in {"start", "ssh", "guest", "activateIp"}
    <2>1. guest.configured /\ (Ours \/ spent.half > 0) /\ (NetBoxEnabled => db.ids # 0)
      BY <1>1
         DEF GuestInv, IdentityInv, Provisioned, Building, Accessible, Activating, Taken
    <2>2. pc # "start" => guest.what = "running" \/ Taken
      BY <1>1 DEF GuestInv, Accessible, Activating
    <2>3. (pc = "start" => Due = 55) /\ Due < 100
      BY <1>1 DEF Due
    <2> QED BY <2>1, <2>2, <2>3, <1>1
  <1>2. CASE pc = "configure"
    BY <1>2 DEF Due, GuestInv, IdentityInv, Provisioned, Building, Accessible, Activating
  <1>3. CASE pc = "find"
    BY <1>3 DEF Due, IdentityInv, Provisioned
  <1>4. CASE pc \notin {"find", "configure", "start", "ssh", "guest", "activateIp"}
    BY <1>4 DEF Due
  <1> QED BY <1>1, <1>2, <1>3, <1>4

\* A step that takes nothing back and records at most the milestone due.
LEMMA ShowsTrue ==
    ASSUME TypeOK, JobInv, IdentityInv, GuestInv, ProgressIsTrue,
           db'.ids = db.ids, db'.shown = db.shown \/ db'.shown = Due,
           Ours => Ours', guest.configured => guest'.configured,
           guest.what = "running" \/ Taken => guest'.what = "running" \/ Taken',
           spent.half > 0 => spent'.half > 0,
           state = "Active" => state' = "Active"
    PROVE  ProgressIsTrue'
  <1>1. db.shown \in 0..100 /\ Due \in 0..100
    BY DueType DEF TypeOK, Columns
  <1>2. db'.shown >= 25 /\ NetBoxEnabled => db'.ids # 0
    BY <1>1, DueTrue DEF ProgressIsTrue
  <1>3. db'.shown >= 40 => Ours' \/ spent'.half > 0
    BY <1>1, DueTrue DEF ProgressIsTrue
  <1>4. db'.shown >= 55 => guest'.configured
    BY <1>1, DueTrue DEF ProgressIsTrue
  <1>5. db'.shown >= 65 => guest'.what = "running" \/ Taken'
    BY <1>1, DueTrue DEF ProgressIsTrue
  <1>6. db'.shown >= 100 => state' = "Active"
    BY <1>1, DueTrue DEF ProgressIsTrue
  <1> QED BY <1>2, <1>3, <1>4, <1>5, <1>6 DEF ProgressIsTrue

\* A step that leaves the row and the guest alone.
LEMMA StillTrue ==
    ASSUME TypeOK, ProgressIsTrue, db' = db, guest' = guest, spent'.half = spent.half,
           state = "Active" => state' = "Active"
    PROVE  ProgressIsTrue'
  BY DEF ProgressIsTrue, Ours, Taken

\* A guest comes or goes while none of ours is there: shown is 40 at most.
LEMMA NoGuestShown ==
    ASSUME TypeOK, GuestInv, ProgressIsTrue, ~Ours, ~Taken,
           db' = db, spent'.half = spent.half, state' = state
    PROVE  ProgressIsTrue'
  <1>1. ~guest.configured
    BY DEF GuestInv
  <1>2. db.shown < 55 /\ (db.shown >= 40 => spent.half > 0)
    BY <1>1 DEF ProgressIsTrue, TypeOK, Columns
  <1> QED BY <1>2 DEF ProgressIsTrue, TypeOK, Columns

\* What is shown stays true.
LEMMA ProgressStep ==
    ASSUME TypeOK, JobInv, ReserveInv, IdentityInv, GuestInv, ProgressIsTrue, Next
    PROVE  ProgressIsTrue'
  <1>1. CASE Claim
    BY <1>1, ColumnsUpdate, SpendType
       DEF ProgressIsTrue, JobInv, Ours, Taken, Claim, netbox
  <1>2. CASE Crash
    BY <1>2, ShowsTrue, ColumnsUpdate, SpendType DEF Crash, netbox, Ours, Taken
  <1>3. CASE Reclaim
    BY <1>3, StillTrue DEF Reclaim, netbox
  <1>4. CASE QueueAgain
    BY <1>4, StillTrue, SpendOther DEF QueueAgain, JobInv, netbox
  <1>5. CASE Seek
    BY <1>5, StillTrue DEF Seek, netbox
  <1>6. CASE SeekRefuses
    BY <1>6, ShowsTrue, ColumnsUpdate
       DEF SeekRefuses, Fail, At, netbox, Ours, Taken, JobInv
  <1>7. CASE Create
    BY <1>7, StillTrue DEF Create, netbox
  <1>8. CASE CreateRefused
    BY <1>8, ShowsTrue, ColumnsUpdate, SpendOther
       DEF CreateRefused, Fail, At, netbox, Ours, Taken, JobInv
  <1>9. CASE MirrorVm
    BY <1>9, StillTrue DEF MirrorVm, Working, netbox
  <1>10. CASE MirrorInterface
    BY <1>10, StillTrue DEF MirrorInterface, Working, netbox
  <1>11. CASE MirrorIp
    BY <1>11, StillTrue DEF MirrorIp, Working, netbox
  <1>12. CASE MirrorPrimary
    BY <1>12, StillTrue DEF MirrorPrimary, Working, netbox
  <1>13. CASE RecordIds
    <2>1. db'.ids # 0
      BY <1>13, ColumnsUpdate DEF RecordIds, At, ReserveInv, Mirroring
    <2>2. db'.shown = db.shown \/ db'.shown = 25
      BY <1>13, ColumnsUpdate DEF RecordIds
    <2> QED
      BY <1>13, <2>1, <2>2 DEF ProgressIsTrue, Ours, Taken, RecordIds, At
  <1>14. CASE RecordIdsRefuses
    BY <1>14, ShowsTrue, ColumnsUpdate
       DEF RecordIdsRefuses, Fail, At, netbox, Ours, Taken, JobInv
  <1>15. CASE Find
    BY <1>15, ShowsTrue, ColumnsUpdate DEF Find, WorkingPast, netbox, Ours, Taken
  <1>16. CASE FindRefuses
    BY <1>16, ShowsTrue, ColumnsUpdate
       DEF FindRefuses, Fail, At, netbox, Ours, Taken, JobInv
  <1>17. CASE Clone
    BY <1>17, NoGuestShown DEF Clone, Working, Ours, Taken
  <1>18. CASE CloneRefused
    BY <1>18, ShowsTrue, ColumnsUpdate
       DEF CloneRefused, Fail, At, netbox, Ours, Taken, JobInv
  <1>19. CASE WaitClone
    BY <1>19, StillTrue DEF WaitClone, Working, netbox
  <1>20. CASE CloneFails
    BY <1>20, ShowsTrue, ColumnsUpdate, SpendType
       DEF CloneFails, Fail, At, netbox, Ours, Taken, JobInv
  <1>21. CASE Configure
    BY <1>21, ShowsTrue, ColumnsUpdate, GuestUpdate
       DEF Configure, WorkingPast, netbox, Ours, Taken, GuestInv
  <1>22. CASE Start
    BY <1>22, ShowsTrue, ColumnsUpdate, GuestUpdate
       DEF Start, WorkingPast, netbox, Ours, Taken, At, GuestInv, Building,
           Accessible, Activating
  <1>23. CASE WaitSsh
    BY <1>23, ShowsTrue, ColumnsUpdate DEF WaitSsh, WorkingPast, netbox, Ours, Taken
  <1>24. CASE ApplyPolicy
    BY <1>24, ShowsTrue, ColumnsUpdate DEF ApplyPolicy, WorkingPast, netbox, Ours, Taken
  <1>25. CASE ActivateIp
    BY <1>25, ShowsTrue, ColumnsUpdate DEF ActivateIp, WorkingPast, netbox, Ours, Taken
  <1>26. CASE ActivateVm
    BY <1>26, StillTrue DEF ActivateVm, Working, netbox
  <1>27. CASE ActivateRefused
    BY <1>27, ShowsTrue, ColumnsUpdate
       DEF ActivateRefused, Fail, At, netbox, Ours, Taken, JobInv
  <1>28. CASE Finish
    <2>1. /\ guest.configured /\ (Ours \/ spent.half > 0) /\ (NetBoxEnabled => db.ids # 0)
          /\ guest.what = "running" \/ Taken
      BY <1>28
         DEF Finish, At, GuestInv, IdentityInv, Provisioned, Building, Accessible, Taken
    <2> QED BY <1>28, <2>1, ColumnsUpdate DEF ProgressIsTrue, Finish, netbox, Ours, Taken
  <1>29. CASE ExternalError
    BY <1>29, ShowsTrue, ColumnsUpdate, SpendType
       DEF ExternalError, Fail, At, netbox, Ours, Taken, JobInv
  <1>30. CASE CloneEnds
    BY <1>30, NoGuestShown, SpendType DEF CloneEnds, Ours, Taken, netbox
  <1>31. CASE ForeignGuest
    BY <1>31, NoGuestShown, SpendType DEF ForeignGuest, Ours, Taken, netbox
  <1>32. CASE RivalCreates
    BY <1>32, StillTrue, SpendType DEF RivalCreates, netbox
  <1>33. CASE Erase
    BY <1>33, StillTrue, SpendOther DEF Erase, netbox
  <1>34. CASE FindHalf
    BY <1>34, ShowsTrue, ColumnsUpdate, SpendOther DEF FindHalf, netbox, Ours, Taken
  <1>35. CASE ConfigureRefused
    BY <1>35, ShowsTrue, ColumnsUpdate
       DEF ConfigureRefused, Fail, At, netbox, Ours, Taken, JobInv
  <1> QED
    BY <1>1, <1>2, <1>3, <1>4, <1>5, <1>6, <1>7, <1>8, <1>9, <1>10,
       <1>11, <1>12, <1>13, <1>14, <1>15, <1>16, <1>17, <1>18, <1>19, <1>20,
       <1>21, <1>22, <1>23, <1>24, <1>25, <1>26, <1>27, <1>28, <1>29, <1>30,
       <1>31, <1>32, <1>33, <1>34, <1>35
    DEF Next, WorkerStep

\* Nothing is lost of what VMs share in a step that leaves it alone.
LEMMA SharedSteady ==
    ASSUME TypeOK, shared' = shared
    PROVE  \A k \in Foundation : shared[k] <= shared'[k]
  BY DEF TypeOK

\* No step takes anything back.
LEMMA TakeStep ==
    ASSUME TypeOK, JobInv, ReserveInv, IdentityInv, GuestInv, Next
    PROVE  TakesNothingBack
  <1>1. CASE Claim
    BY <1>1, ColumnsUpdate, SpendType, SharedSteady
       DEF TakesNothingBack, Ours, Taken, Mirrored, Claim, At, Goto, netbox
  <1>2. CASE Crash
    BY <1>2, ColumnsUpdate, SpendType, SharedSteady
       DEF TakesNothingBack, Ours, Taken, Mirrored, Crash, Goto, netbox
  <1>3. CASE Reclaim
    BY <1>3, SharedSteady DEF TakesNothingBack, Ours, Taken, Mirrored, Reclaim, At, netbox
  <1>4. CASE QueueAgain
    BY <1>4, SpendOther, SharedSteady
       DEF TakesNothingBack, Ours, Taken, Mirrored, QueueAgain, netbox
  <1>5. CASE Seek
    BY <1>5, SharedSteady
       DEF TakesNothingBack, Ours, Taken, Mirrored, Seek, NextNeed, At, Goto, netbox
  <1>6. CASE SeekRefuses
    BY <1>6, ColumnsUpdate, SharedSteady
       DEF TakesNothingBack, Ours, Taken, Mirrored, SeekRefuses, Fail, At, Goto, netbox
  <1>7. CASE Create
    BY <1>7
       DEF TakesNothingBack, Ours, Taken, Mirrored, Create, NextNeed, At, Goto, netbox,
           TypeOK
  <1>8. CASE CreateRefused
    BY <1>8, ColumnsUpdate, SpendOther, SharedSteady
       DEF TakesNothingBack, Ours, Taken, Mirrored, CreateRefused, Fail, At, Goto,
           netbox
  <1>9. CASE MirrorVm
    BY <1>9, MirrorUpdate, SharedSteady
       DEF TakesNothingBack, Ours, Taken, Mirrored, MirrorVm, Working, At, Goto, netbox
  <1>10. CASE MirrorInterface
    BY <1>10, MirrorUpdate, SharedSteady
       DEF TakesNothingBack, Ours, Taken, Mirrored, MirrorInterface, Working, At, Goto,
           netbox
  <1>11. CASE MirrorIp
    BY <1>11, MirrorUpdate, SharedSteady
       DEF TakesNothingBack, Ours, Taken, Mirrored, MirrorIp, Working, At, Goto, netbox
  <1>12. CASE MirrorPrimary
    BY <1>12, MirrorUpdate, SharedSteady
       DEF TakesNothingBack, Ours, Taken, Mirrored, MirrorPrimary, Working, At, Goto,
           netbox
  <1>13. CASE RecordIds
    BY <1>13, ColumnsUpdate, SharedSteady
       DEF TakesNothingBack, Ours, Taken, Mirrored, RecordIds, At, Goto, netbox
  <1>14. CASE RecordIdsRefuses
    BY <1>14, ColumnsUpdate, SharedSteady
       DEF TakesNothingBack, Ours, Taken, Mirrored, RecordIdsRefuses, Fail, At, Goto,
           netbox
  <1>15. CASE Find
    BY <1>15, ColumnsUpdate, SharedSteady
       DEF TakesNothingBack, Ours, Taken, Mirrored, Find, WorkingPast, At, Goto, netbox
  <1>16. CASE FindRefuses
    BY <1>16, ColumnsUpdate, SharedSteady
       DEF TakesNothingBack, Ours, Taken, Mirrored, FindRefuses, Fail, At, Goto, netbox
  <1>17. CASE Clone
    BY <1>17, NewGuest, SharedSteady
       DEF TakesNothingBack, Ours, Taken, Mirrored, Clone, Working, At, Goto, netbox
  <1>18. CASE CloneRefused
    BY <1>18, ColumnsUpdate, SharedSteady
       DEF TakesNothingBack, Ours, Taken, Mirrored, CloneRefused, Fail, At, Goto, netbox
  <1>19. CASE WaitClone
    BY <1>19, SharedSteady
       DEF TakesNothingBack, Ours, Taken, Mirrored, WaitClone, Working, At, Goto, netbox
  <1>20. CASE CloneFails
    BY <1>20, ColumnsUpdate, SpendType, SharedSteady
       DEF TakesNothingBack, Ours, Taken, Mirrored, CloneFails, Fail, At, Goto, netbox
  <1>21. CASE Configure
    BY <1>21, GuestUpdate, ColumnsUpdate, SharedSteady
       DEF TakesNothingBack, Ours, Taken, Mirrored, Configure, WorkingPast, At, Goto,
           netbox, GuestInv, Building, Accessible, Activating
  <1>22. CASE Start
    BY <1>22, GuestUpdate, ColumnsUpdate, SharedSteady
       DEF TakesNothingBack, Ours, Taken, Mirrored, Start, WorkingPast, At, Goto,
           netbox, GuestInv, Building, Accessible, Activating
  <1>23. CASE WaitSsh
    BY <1>23, ColumnsUpdate, SharedSteady
       DEF TakesNothingBack, Ours, Taken, Mirrored, WaitSsh, WorkingPast, At, Goto,
           netbox
  <1>24. CASE ApplyPolicy
    BY <1>24, ColumnsUpdate, SharedSteady
       DEF TakesNothingBack, Ours, Taken, Mirrored, ApplyPolicy, WorkingPast, At, Goto,
           netbox
  <1>25. CASE ActivateIp
    BY <1>25, MirrorUpdate, ColumnsUpdate, SharedSteady
       DEF TakesNothingBack, Ours, Taken, Mirrored, ActivateIp, WorkingPast, At, Goto,
           netbox
  <1>26. CASE ActivateVm
    BY <1>26, MirrorUpdate, SharedSteady
       DEF TakesNothingBack, Ours, Taken, Mirrored, ActivateVm, Working, At, Goto,
           netbox
  <1>27. CASE ActivateRefused
    BY <1>27, ColumnsUpdate, SharedSteady
       DEF TakesNothingBack, Ours, Taken, Mirrored, ActivateRefused, Fail, Goto, netbox
  <1>28. CASE Finish
    BY <1>28, ColumnsUpdate, SharedSteady
       DEF TakesNothingBack, Ours, Taken, Mirrored, Finish, At, Goto, netbox
  <1>29. CASE ExternalError
    BY <1>29, ColumnsUpdate, SpendType, SharedSteady
       DEF TakesNothingBack, Ours, Taken, Mirrored, ExternalError, Fail, Goto, netbox
  <1>30. CASE CloneEnds
    BY <1>30, GuestUpdate, NewGuest, SpendType, SharedSteady
       DEF TakesNothingBack, Ours, Taken, Mirrored, CloneEnds, netbox
  <1>31. CASE ForeignGuest
    BY <1>31, NewGuest, SpendType, SharedSteady
       DEF TakesNothingBack, Ours, Taken, Mirrored, ForeignGuest, netbox
  <1>32. CASE RivalCreates
    BY <1>32, SpendType
       DEF TakesNothingBack, Ours, Taken, Mirrored, RivalCreates, netbox, TypeOK
  <1>33. CASE Erase
    BY <1>33, NoMirrorType, SpendOther, SharedSteady
       DEF TakesNothingBack, Ours, Taken, Mirrored, Erase, netbox
  <1>34. CASE FindHalf
    BY <1>34, ColumnsUpdate, SpendOther, SharedSteady
       DEF TakesNothingBack, Ours, Taken, Mirrored, FindHalf, At, Goto, netbox
  <1>35. CASE ConfigureRefused
    BY <1>35, ColumnsUpdate, SharedSteady
       DEF TakesNothingBack, Ours, Taken, Mirrored, ConfigureRefused, Fail, At, Goto,
           netbox
  <1> QED
    BY <1>1, <1>2, <1>3, <1>4, <1>5, <1>6, <1>7, <1>8, <1>9, <1>10,
       <1>11, <1>12, <1>13, <1>14, <1>15, <1>16, <1>17, <1>18, <1>19, <1>20,
       <1>21, <1>22, <1>23, <1>24, <1>25, <1>26, <1>27, <1>28, <1>29, <1>30,
       <1>31, <1>32, <1>33, <1>34, <1>35
    DEF Next, WorkerStep

-----------------------------------------------------------------------------
(* The invariant and what follows from it.                                 *)

\* The initial state satisfies it.
LEMMA InvInit == Init => IInv
  <1> SUFFICES ASSUME Init PROVE IInv
    OBVIOUS
  <1>1. TypeOK
    <2>1. spent \in Expenses /\ db \in Columns /\ guest \in Guests /\ mirror \in Mirrors
      BY ProvisioningAssumption, NoMirrorType
         DEF Init, Expenses, Columns, Guests, Absent
    <2>2. attempts \in 0..MaxAttempts
      BY ProvisioningAssumption DEF Init
    <2> QED BY <2>1, <2>2 DEF Init, TypeOK, States, Statuses, Steps, Foundation
  <1>2. JobInv
    BY DEF Init, JobInv
  <1>3. ReserveInv /\ IdentityInv
    BY DEF Init, ReserveInv, IdentityInv, NoMirror, Mirroring, Reserving, Activating,
           Accessible, Building, Provisioned
  <1>4. GuestInv
    BY DEF Init, GuestInv, NoMirror, Absent, Activating, Accessible, Building
  <1>5. ActiveIsComplete /\ ProgressIsTrue
    BY DEF Init, ActiveIsComplete, ProgressIsTrue
  <1> QED BY <1>1, <1>2, <1>3, <1>4, <1>5 DEF IInv

\* Every step preserves it.
LEMMA InvStep == IInv /\ [Next]_vars => IInv'
  <1> SUFFICES ASSUME IInv, [Next]_vars PROVE IInv'
    OBVIOUS
  <1>1. CASE Next
    BY <1>1, TypeStep, JobStep, ReserveStep, IdentityStep, GuestStep, CompleteStep,
       ProgressStep
       DEF IInv
  <1>2. CASE UNCHANGED vars
    <2>1. TypeOK' /\ JobInv'
      BY <1>2 DEF IInv, vars, netbox, TypeOK, JobInv
    <2>2. ReserveInv' /\ IdentityInv'
      BY <1>2 DEF IInv, vars, netbox, ReserveInv, IdentityInv, Mirrored, Leased
    <2>3. GuestInv' /\ ActiveIsComplete' /\ ProgressIsTrue'
      BY <1>2 DEF IInv, vars, netbox, GuestInv, ActiveIsComplete, ProgressIsTrue, Ours,
                  Taken, Mirrored, Leased
    <2> QED BY <2>1, <2>2, <2>3 DEF IInv
  <1> QED BY <1>1, <1>2

\* IInv holds in every state.
THEOREM IInvInvariant == Spec => []IInv
  BY InvInit, InvStep, PTL DEF Spec

\* Every variable keeps its type: there is never a second interface or address,
\* and no job is claimed more often than MaxAttempts.
THEOREM TypeCorrect == Spec => []TypeOK
  <1>1. IInv => TypeOK
    BY DEF IInv
  <1> QED BY <1>1, IInvInvariant, PTL

\* Whatever died in between, the milestones are reached in order.
THEOREM InOrder == Spec => []MilestonesInOrder
  <1>1. IInv => MilestonesInOrder
    BY DEF IInv, MilestonesInOrder, GuestInv, IdentityInv, ReserveInv
  <1> QED BY <1>1, IInvInvariant, PTL

\* An Active VM has its guest, its node and its records.
THEOREM Complete == Spec => []ActiveIsComplete
  <1>1. IInv => ActiveIsComplete
    BY DEF IInv
  <1> QED BY <1>1, IInvInvariant, PTL

\* The progress page shows only what has been reached.
THEOREM Progress == Spec => []ProgressIsTrue
  <1>1. IInv => ProgressIsTrue
    BY DEF IInv
  <1> QED BY <1>1, IInvInvariant, PTL

\* A failed attempt destroys and releases nothing, nor does any other step.
THEOREM TakesBack == Spec => NothingIsTakenBack
  <1>1. IInv /\ [Next]_vars => [TakesNothingBack]_vars
    BY TakeStep DEF IInv
  <1> QED BY <1>1, IInvInvariant, PTL DEF NothingIsTakenBack, Spec
=============================================================================
