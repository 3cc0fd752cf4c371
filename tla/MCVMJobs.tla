------------------------------ MODULE MCVMJobs ------------------------------
(* Instances of VMJobs for TLC.                                            *)
EXTENDS VMJobs, TLC

CONSTANTS j1, j2
MCJob == {j1, j2}
OneJob == {j1}
Symmetry == Permutations(MCJob)

FullPolicy == {AllPolicy}
NoGuestPolicy == {{"enabled", "retirement"}}
\* The plugin switched off and on, and each optional part switched off alone.
EditedPolicies == {AllPolicy, {"enabled", "guest", "patch"}, {"enabled", "guest"},
                   {"enabled", "retirement"}, {"retirement", "guest", "patch"}}
AllCommands == {"provision", "retire", "reconcile", "patch"}
NoCommands == {}
OnlyPatch == {"patch"}
NoRetireGate == {"execute"}
=============================================================================
