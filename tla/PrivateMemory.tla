--------------------------- MODULE PrivateMemory ----------------------------
(***************************************************************************)
(* What fork, sbrk and the page-fault handler promise to user programs:    *)
(* every live process has a memory of its own, fork copies it, and only    *)
(* the process itself, or a system call it makes, changes it.              *)
(***************************************************************************)
EXTENDS Integers

CONSTANTS Procs, NPAGES, Vals, Zero

VARIABLES
    live,       \* the processes that have a memory
    view        \* its pages, from 0 on

vars == <<live, view>>

Empty == [v \in {} |-> Zero]

Init ==
    \E p \in Procs, n \in 0 .. NPAGES :
        /\ live = {p}
        /\ view = [q \in Procs |-> IF q = p THEN [v \in 0 .. n - 1 |-> Zero] ELSE Empty]

Write(p, v, x) ==
    /\ p \in live
    /\ v \in DOMAIN view[p]
    /\ view' = [view EXCEPT ![p][v] = x]
    /\ UNCHANGED live

(* sbrk: pages come zeroed and go from the end. *)
Resize(p, n) ==
    /\ p \in live
    /\ view' = [view EXCEPT ![p] = [v \in 0 .. n - 1 |-> IF v \in DOMAIN @ THEN @[v] ELSE Zero]]
    /\ UNCHANGED live

Fork(p, c) ==
    /\ p \in live
    /\ c \in Procs \ live
    /\ live' = live \cup {c}
    /\ view' = [view EXCEPT ![c] = view[p]]

Exit(p) ==
    /\ p \in live
    /\ live' = live \ {p}
    /\ view' = [view EXCEPT ![p] = Empty]

Next ==
    \E p \in Procs :
        \/ \E v \in 0 .. NPAGES - 1, x \in Vals : Write(p, v, x)
        \/ \E n \in 0 .. NPAGES : Resize(p, n)
        \/ \E c \in Procs : Fork(p, c)
        \/ Exit(p)

Spec == Init /\ [][Next]_vars

=============================================================================
