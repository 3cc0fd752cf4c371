------------------------ MODULE BackupCleanup_proofs -------------------------
(***************************************************************************)
(* What is proved of the identity pool holds of a site whose identities    *)
(* are released by cleanup runs that die, raise and skip VMs: by its       *)
(* definition the site's behaviours are behaviours of the pool.            *)
(***************************************************************************)
EXTENDS BackupCleanup, IdentityPool_proofs, TLAPS

\* Every step of the site is a step of the pool or leaves the pool alone.
LEMMA StepImplementsPool == [SiteNext]_siteVars => [Next]_vars
  <1> SUFFICES ASSUME [SiteNext]_siteVars PROVE [Next]_vars
    OBVIOUS
  <1>1. CASE Reservations
    BY <1>1 DEF Reservations, Next
  <1>2. ASSUME NEW a \in Allocation, RetireVm(a) \/ RequeueVm(a) \/ CleanNext(a)
        PROVE  Next
    BY <1>2 DEF RetireVm, RequeueVm, CleanNext, Next
  <1>3. ASSUME NEW a \in Allocation, LoseBackup(a) PROVE UNCHANGED vars
    BY <1>3 DEF LoseBackup
  <1>4. CASE RunBegins \/ RunRaises \/ RunDies
    BY <1>4 DEF RunBegins, RunRaises, RunDies
  <1>5. CASE UNCHANGED siteVars
    BY <1>5 DEF siteVars
  <1> QED BY <1>1, <1>2, <1>3, <1>4, <1>5 DEF SiteNext

\* So the behaviours of the site are behaviours of the pool.
LEMMA SiteIsPool == SiteSpec => Spec
  <1>1. SiteInit => Init
    BY DEF SiteInit
  <1> QED BY <1>1, StepImplementsPool, PTL DEF SiteSpec, Spec

\* Live and recoverable VMs of the site never share a VMID or an address.
THEOREM SiteIdentitiesDistinct == SiteSpec => []LiveIdentitiesDistinct
  BY IdentitiesDistinct, SiteIsPool, PTL

\* Of the site, too, an identity has at most one owner, whoever releases it.
THEOREM SiteImplementsRegistry == SiteSpec => ImplementsRegistry
  BY PoolImplementsRegistry, SiteIsPool, PTL
=============================================================================
