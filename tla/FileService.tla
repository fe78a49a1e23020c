---------------------------- MODULE FileService -----------------------------
(***************************************************************************)
(* What LAZY promises its users, with neither threads nor locks nor time:  *)
(* a request is pending, then served or refused, once; readers and one     *)
(* writer may share a file, up to c of them; a deletion has the file to    *)
(* itself and is the last operation on it.                                 *)
(***************************************************************************)
EXTENDS Integers, FiniteSets

CONSTANTS Requests, Files, c

VARIABLES
    req,        \* [Requests -> request], as in LazyFile
    stage,      \* what has become of each request
    gone        \* which files have been deleted

vars == <<req, stage, gone>>

READ == 1
WRITE == 2
DELETE == 3

Busy(f) == {q \in Requests : req[q].file = f /\ stage[q] = "busy"}

Init ==
    /\ req \in [Requests -> [file : Files, op : {READ, WRITE, DELETE}, time : Nat]]
    /\ stage = [q \in Requests |-> "pending"]
    /\ gone = [f \in Files |-> FALSE]

(* May q be served beside those that use its file? *)
Admissible(q) ==
    LET others == Busy(req[q].file) IN
    /\ \A p \in others : req[p].op # DELETE
    /\ req[q].op # DELETE => Cardinality(others) < c
    /\ req[q].op = WRITE => \A p \in others : req[p].op # WRITE
    /\ req[q].op = DELETE => others = {}

Serve(q) ==
    /\ stage[q] = "pending"
    /\ ~gone[req[q].file]
    /\ Admissible(q)
    /\ stage' = [stage EXCEPT ![q] = "busy"]
    /\ UNCHANGED <<req, gone>>

Complete(q) ==
    /\ stage[q] = "busy"
    /\ stage' = [stage EXCEPT ![q] = "completed"]
    /\ gone' = [gone EXCEPT ![req[q].file] = @ \/ req[q].op = DELETE]
    /\ UNCHANGED req

Decline(q) ==
    /\ stage[q] = "pending"
    /\ gone[req[q].file]
    /\ stage' = [stage EXCEPT ![q] = "declined"]
    /\ UNCHANGED <<req, gone>>

GiveUp(q) ==
    /\ stage[q] = "pending"
    /\ stage' = [stage EXCEPT ![q] = "cancelled"]
    /\ UNCHANGED <<req, gone>>

Next == \E q \in Requests : Serve(q) \/ Complete(q) \/ Decline(q) \/ GiveUp(q)

Spec == Init /\ [][Next]_vars

=============================================================================
