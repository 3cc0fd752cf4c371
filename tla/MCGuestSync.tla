---------------------------- MODULE MCGuestSync -----------------------------
(* Instances of GuestSync for TLC.                                         *)
EXTENDS GuestSync

CONSTANTS none, alice, before, after, served, packaged
MCUsers == {none, alice}
MCFiles == {before, after}
\* Columns that name the unit, and columns that name a package only.
MCFields == {served, packaged}
MCInstalling == {packaged}
MCListing == {served}
\* Everything on; each component alone; patching without membership changes.
MCSwitchings == {AllSwitches, {"access"}, {"policy", "patch"}}

\* Start from one of the interchangeable files, and without packages.
MCInit == Init /\ site.files = before /\ site.fields = served
MCFairSpec == MCInit /\ [][Next]_vars /\ Fairness
=============================================================================
