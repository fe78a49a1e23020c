----------------------------- MODULE MCKernel -----------------------------
(* The jobs that the shell runs: lines, and the repository's tests. *)
EXTENDS Kernel

Line(ts) == [sh |-> Sh(ShellChild(ts)), preempts |-> 0]
Test(steps, bound) == [sh |-> Sh(steps), preempts |-> bound]

MCJobs ==
    [exitwait |-> Test(exitwait(2), 1),
     killstatus |-> Test(killstatus, 0),
     reparent |-> Test(reparent, 0),
     reparent2 |-> Test(reparent2, 0),
     twochildren |-> Test(twochildren, 0),
     forktest |-> Test(forktest(0, 4), 0),
     pipe1 |-> Test(pipe1(2, 3), 0),
     preempt |-> Test(preempt(1), 0),
     schedulertest |-> Test(schedulertest, 0),
     pipeline |-> Line(<<"echo", "a", "|", "cat">>),
     list |-> Line(<<"(", "echo", "a", ";", "nosuch", ")", ">", "console", "&">>),
     unread |-> Line(<<"echo", "a", "|", "nosuch">>),
     syntax |-> Line(<<"echo", "a", "|", "(", "cat">>),
     eof |-> [Test(<<>>, 0) EXCEPT !.sh = Exit(0)]]

MCOutput ==
    [j \in {"exitwait", "killstatus", "reparent", "reparent2", "twochildren", "forktest", "pipe1",
             "preempt", "schedulertest", "pipeline", "list", "unread", "syntax", "eof"} |->
        IF j \in {"pipeline", "list"} THEN <<"a", "\n">> ELSE <<>>]
===========================================================================
