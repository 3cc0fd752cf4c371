---------------------------- MODULE MCRetirement ----------------------------
(* Instances of Retirement for TLC.                                        *)
EXTENDS Retirement

CONSTANTS c1, c2
TwoCleaners == {c1, c2}
OneCleaner == {c1}
=============================================================================
