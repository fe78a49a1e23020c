---------------------------- MODULE AtomicDisk ----------------------------
(* What the file-system log promises (kernel/log.c): operations see and      *)
(* change one view of the blocks; when the last of them ends, the whole view *)
(* is saved in one step before another begins; and a crash returns to what   *)
(* was saved last, so that an operation survives entirely or not at all.     *)
EXTENDS Naturals

CONSTANTS Home, Contents

VARIABLES
    stable,   \* what a crash leaves
    view,     \* what the operations see
    active,   \* the number of operations in progress
    saving    \* the last one has ended and its changes are being saved

vars == <<stable, view, active, saving>>

Init ==
    /\ stable \in [Home -> Contents]
    /\ view = stable
    /\ active = 0
    /\ saving = FALSE

Begin == ~saving /\ active' = active + 1 /\ UNCHANGED <<stable, view, saving>>

Write ==
    /\ active > 0
    /\ \E b \in Home, v \in Contents : view' = [view EXCEPT ![b] = v]
    /\ UNCHANGED <<stable, active, saving>>

End ==
    /\ active > 0
    /\ active' = active - 1
    /\ saving' = (active = 1)
    /\ UNCHANGED <<stable, view>>

Save == saving /\ stable' = view /\ UNCHANGED <<view, active, saving>>

Saved == saving /\ stable = view /\ saving' = FALSE /\ UNCHANGED <<stable, view, active>>

Crash == view' = stable /\ active' = 0 /\ saving' = FALSE /\ UNCHANGED stable

Next == Begin \/ Write \/ End \/ Save \/ Saved \/ Crash

Spec == Init /\ [][Next]_vars
===========================================================================
