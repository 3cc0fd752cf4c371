---------------------------- MODULE GuestHelper -----------------------------
(***************************************************************************)
(* The helpers that guest_exec runs in a guest: the access helper, which   *)
(* sets the accounts allowed to log in, and the policy helper, which       *)
(* installs packages, replaces managed files and reloads units.  A helper  *)
(* is a process of the guest: it outlives the worker that started it.      *)
(*                                                                         *)
(* Of the units one stands for all: one that runs from the first boot on.  *)
(* A unit that is started later starts with the files of that moment.      *)
(***************************************************************************)
EXTENDS Naturals, FiniteSets

CONSTANTS
    Users,       \* user lists an allocation may have
    NoUsers,     \* the empty one
    Files,       \* contents the enabled managed files may have, as templates
    Fields,      \* values of the package and unit columns of the configuration
    Installing,  \* those of Fields that name a package
    Listing,     \* those of Fields that name the unit
    Nothing      \* neither users nor files nor a policy

ASSUME FieldsAssumption == Installing \subseteq Fields /\ Listing \subseteq Fields
ASSUME UsersAssumption == NoUsers \in Users

VARIABLE guest   \* accounts, policy last applied, and file contents its unit loaded

NoHelper == [stage |-> "none"]

\* render_guest_policy without updates; its SHA-256 identifies it.
Manifest == [files : Files, fields : Fields, users : Users]

\* Templates are rendered with the users, so both decide what is on disk.
Content(p) == IF p = Nothing THEN Nothing ELSE [files |-> p.files, users |-> p.users]

Contents == [files : Files, users : Users]

ASSUME NothingAssumption == Nothing \notin Users \cup Manifest \cup Contents

Guest == [accounts : Users \cup {Nothing},
          policy   : Manifest \cup {Nothing},
          loaded   : Contents \cup {Nothing}]

\* A clone of the template.
NewGuest == [accounts |-> Nothing, policy |-> Nothing, loaded |-> Nothing]

AccessHelpers == [kind : {"access"}, stage : {"begun", "done", "failed"}, users : Users]
PolicyHelpers == [kind    : {"policy"},
                  stage   : {"begun", "units", "done", "failed"},
                  payload : Manifest,
                  updates : BOOLEAN,   \* patch_mode is not "none"
                  changed : BOOLEAN]   \* inputs_changed
Helper == AccessHelpers \cup PolicyHelpers

AccessHelper(u) == [kind |-> "access", stage |-> "begun", users |-> u]

PolicyHelper(p, updates) ==
    [kind |-> "policy", stage |-> "begun", payload |-> p, updates |-> updates,
     changed |-> FALSE]

Running(h) == h.stage \in {"begun", "units"}

\* Mistake: only package work counts as a change.
InputsChangedByPackages(h) == h.payload.fields \in Installing \/ h.updates

InputsChanged(h) ==
    \/ h.payload.fields \in Installing
    \/ h.updates
    \/ Content(h.payload) # Content(guest.policy)

\* The next stage of h: packages and files, then units.
AfterStage(h) ==
    IF h.kind = "access" \/ h.stage = "units" THEN [h EXCEPT !.stage = "done"]
    ELSE [h EXCEPT !.stage = "units", !.changed = InputsChanged(h)]

\* The units stage of h reloads the unit: something changed, and its manifest, not
\* that of another run, names the unit.
Reloads(h) == h.stage = "units" /\ h.changed /\ h.payload.fields \in Listing

GuestAfterStage(h) ==
    CASE h.kind = "access" -> [guest EXCEPT !.accounts = h.users]
      [] h.kind = "policy" /\ h.stage = "begun" -> [guest EXCEPT !.policy = h.payload]
      [] OTHER -> IF Reloads(h) THEN [guest EXCEPT !.loaded = Content(guest.policy)]
                               ELSE guest
=============================================================================
