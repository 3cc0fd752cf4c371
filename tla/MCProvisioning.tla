--------------------------- MODULE MCProvisioning ---------------------------
(* Instances of Provisioning for TLC: two nodes, so that a guest may be     *)
(* left on another node than the one a later attempt would choose.         *)
EXTENDS Provisioning

CONSTANTS n1, n2
TwoNodes == {n1, n2}
=============================================================================
