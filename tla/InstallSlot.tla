---------------------------- MODULE InstallSlot ----------------------------
(***************************************************************************)
(* What the installer daemon promises about installations: one runs at a   *)
(* time and never beside a change of the partitions or a reboot, each ends *)
(* once, one whose cancellation was accepted is never reported as done,    *)
(* and none is reported as cancelled without an accepted cancellation.     *)
(***************************************************************************)
EXTENDS Sequences, Naturals

CONSTANT Clients

VARIABLES
    outcome,     \* of every installation started so far, in order
    cancel,      \* cancellation of the running one was accepted
    operating    \* clients changing partitions or rebooting

slotVars == <<outcome, cancel, operating>>

Running == outcome # <<>> /\ outcome[Len(outcome)] = "running"

SlotInit == outcome = <<>> /\ cancel = FALSE /\ operating = {}

Start ==
    /\ ~Running /\ operating = {}
    /\ outcome' = Append(outcome, "running")
    /\ cancel' = FALSE
    /\ UNCHANGED operating

Cancel ==
    /\ Running
    /\ cancel' = TRUE
    /\ UNCHANGED <<outcome, operating>>

\* "refused": the worker could not be started.
Finish(ending) ==
    /\ Running
    /\ ending = "done" => ~cancel
    /\ ending = "cancelled" => cancel
    /\ outcome' = [outcome EXCEPT ![Len(outcome)] = ending]
    /\ cancel' = FALSE
    /\ UNCHANGED operating

Operate(c) ==
    /\ ~Running
    /\ operating' = operating \cup {c}
    /\ UNCHANGED <<outcome, cancel>>

Stop(c) ==
    /\ c \in operating
    /\ operating' = operating \ {c}
    /\ UNCHANGED <<outcome, cancel>>

SlotNext ==
    \/ Start
    \/ Cancel
    \/ \E ending \in {"done", "error", "cancelled", "refused"} : Finish(ending)
    \/ \E c \in Clients : Operate(c) \/ Stop(c)

SlotSpec == SlotInit /\ [][SlotNext]_slotVars
=============================================================================
