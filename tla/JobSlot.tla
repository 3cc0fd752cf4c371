------------------------------ MODULE JobSlot -------------------------------
(***************************************************************************)
(* What the job table promises about one VM: a slot that holds at most one *)
(* job.  A job enters the slot Queued, is claimed at most MaxAttempts      *)
(* times, may go back to the queue while an attempt is left (an outage, a  *)
(* dead worker), and leaves only from Running.  A job is never exchanged   *)
(* for another, never changes its action, and its attempts only grow.      *)
(* Module VMJobs is shown to implement this one.                           *)
(***************************************************************************)
EXTENDS Naturals

CONSTANTS Actions, MaxAttempts

VARIABLE slot

Empty == [status |-> "Empty"]
Held  == [status : {"Queued", "Running"}, action : Actions, attempts : 0..MaxAttempts]

TypeOK == slot \in Held \cup {Empty}

Init == slot = Empty

Enter(a) ==
    /\ slot = Empty
    /\ slot' = [status |-> "Queued", action |-> a, attempts |-> 0]

Claim ==
    /\ slot.status = "Queued" /\ slot.attempts < MaxAttempts
    /\ slot' = [slot EXCEPT !.status = "Running", !.attempts = @ + 1]

Requeue ==
    /\ slot.status = "Running" /\ slot.attempts < MaxAttempts
    /\ slot' = [slot EXCEPT !.status = "Queued"]

Leave ==
    /\ slot.status = "Running"
    /\ slot' = Empty

Next == (\E a \in Actions : Enter(a)) \/ Claim \/ Requeue \/ Leave

Spec == Init /\ [][Next]_slot
=============================================================================
