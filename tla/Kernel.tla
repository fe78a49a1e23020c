------------------------------- MODULE Kernel -------------------------------
(* User processes on the kernel: system calls, traps (kernel/trap.c,         *)
(* kernel/syscall.c) and what a program does with a result. The first        *)
(* process is init, which starts a shell that runs one job.                  *)
EXTENDS Pipe, Programs

CONSTANTS
    Jobs,   \* job -> [sh: the shell that runs it,
            \*         preempts: how often a busy process is taken off its CPU]
    Output, \* job -> what it writes to the console
    Scarce, \* the jobs in which memory may run out
    BUFSZ   \* the size of a program's buffer

VARIABLES
    user,  \* the system calls that a program has before it
    mem,   \* the process numbers and file descriptors that it has stored
    job    \* the job of this behaviour

vars == <<procVars, pipeVars, user, mem, job>>

Init ==
    /\ job \in DOMAIN Jobs
    /\ proc = [i \in Slots |->
          IF i = initproc THEN [FreeSlot EXCEPT !.state = "RUNNABLE", !.pid = 1] ELSE FreeSlot]
    /\ lock = <<>> /\ cpu = [c \in CPUs |-> Nobody]
    /\ code = [i \in Slots \cup {Nobody} |-> <<>>]
    /\ ret = [i \in Slots |-> [val |-> 0, data |-> <<>>]]
    /\ ticks = 0 /\ nextpid = 2 /\ preempts = Jobs[job].preempts /\ panic = FALSE
    /\ ftable = [f \in Files |->
          IF f = 1 THEN [Console EXCEPT !.ref = 3] ELSE FreeFile]
    /\ ofile = [i \in Slots |-> [fd \in Fds |-> IF i = initproc /\ fd < 3 THEN 1 ELSE NoFile]]
    /\ pipe = [k \in Pipes |-> FreePipe] /\ tty = <<>>
    /\ user = [i \in Slots |-> IF i = initproc THEN InitProgram(Jobs[job].sh) ELSE <<>>]
    /\ mem = [i \in Slots |-> <<>>]

(* An argument: a number, or the n-th value stored. *)
Value(p, arg) == IF arg < 0 THEN mem[p][-arg] ELSE arg

exit(p, status) ==
    LET Nth(n) == CHOOSE fd \in OpenFds(p) : Cardinality({g \in OpenFds(p) : g < fd}) = n - 1
    IN  [n \in 1 .. Cardinality(OpenFds(p)) |-> <<"close", Nth(n)>>] \o << <<"reparent", status>> >>

(* syscall: the kernel routine of a call. *)
syscall(p, c) ==
    CASE c.call = "fork" -> fork
      [] c.call \in {"wait", "waitok", "waitnone", "initwait"} -> wait
      [] c.call = "kill" -> kill(Value(p, c.arg))
      [] c.call = "sleep" -> sys_sleep(c.arg)
      [] c.call = "pipe" -> << <<"pipe">> >>
      [] c.call \in {"dup", "close"} -> << <<c.call, Value(p, c.arg)>> >>
      [] c.call = "open" -> << <<"open", c.file>> >>
      [] c.call \in {"write", "writeall"} -> << <<"write", Value(p, c.arg), c.bytes>> >>
      [] c.call = "readall" -> << <<"read", Value(p, c.arg), c.cc>> >>
      [] c.call \in {"read", "read1", "cat"} -> << <<"read", Value(p, c.arg), BUFSZ>> >>
      [] OTHER -> << >>   \* getpid and exec change nothing that another process sees

(* A process that exits, by itself or killed, runs no more of its program. *)
Exiting(p, status) ==
    /\ code' = [code EXCEPT ![p] = exit(p, status)]
    /\ user' = [user EXCEPT ![p] = <<>>]
    /\ mem' = [mem EXCEPT ![p] = <<>>]

(* usertrap, for a system call. *)
Trap(p) ==
    LET c == Head(user[p])
    IN  /\ ~panic /\ OnCpu(p) /\ code[p] = <<>> /\ c.call # "spin" /\ Free(PLock(p))
        /\ IF proc[p].killed THEN Exiting(p, -1)
           ELSE IF c.call \in {"exit", "fail"} THEN Exiting(p, c.arg)
           ELSE /\ code' = [code EXCEPT ![p] = syscall(p, c) \o << <<"usertrapret">> >>]
                /\ UNCHANGED <<user, mem>>
        /\ UNCHANGED <<proc, lock, cpu, ret, ticks, nextpid, preempts, panic, pipeVars, job>>

(* usertrap, for a timer interrupt: a program that computes is taken off its *)
(* CPU again and again, another one as often as the job's bound allows.          *)
Timer(p) ==
    LET spinning == Head(user[p]).call = "spin"
    IN  /\ ~panic /\ OnCpu(p) /\ code[p] = <<>> /\ Free(PLock(p))
        /\ spinning \/ preempts > 0
        /\ preempts' = IF spinning THEN preempts ELSE preempts - 1
        /\ IF proc[p].killed
           THEN Exiting(p, -1) /\ UNCHANGED <<proc, cpu>>
           ELSE GiveUpCpu(p) /\ UNCHANGED <<code, user, mem>>
        /\ UNCHANGED <<lock, ret, ticks, nextpid, panic, pipeVars, job>>

(* What the program does next, and what it stores. *)
After(p, c) ==
    LET r == ret[p].val
        data == ret[p].data
        Go(steps) == [user |-> steps, mem |-> mem[p]]
        Store(values) == [user |-> Tail(user[p]), mem |-> mem[p] \o values]
        Check(good) == Go(IF good THEN Tail(user[p]) ELSE Fail)
    IN  CASE c.call = "fork" -> IF r < 0 THEN Go(c.fail) ELSE Store(<<r>>)
          [] c.call = "wait" -> Check(/\ c.pid # 0 => r = Value(p, c.pid)
                                      /\ c.status # AnyValue => data[1] = c.status)
          [] c.call = "waitok" -> Check(r >= 0)
          [] c.call = "waitnone" -> Check(r = -1)
          [] c.call = "initwait" ->
                IF r = Last(mem[p]) THEN [user |-> InitProgram(getcmd), mem |-> <<>>]
                ELSE Go(IF r < 0 THEN Fail ELSE user[p])
          [] c.call = "pipe" -> IF r < 0 THEN Go(Fail) ELSE Store(data)
          [] c.call = "open" -> Go(IF r < 0 THEN Exit(1) ELSE Tail(user[p]))
          [] c.call = "writeall" -> Check(r = Len(c.bytes))
          [] c.call = "read1" -> Check(r = 1)
          [] c.call = "readall" ->
                IF r <= 0 THEN Check(c.bytes = <<>>)
                ELSE Go(IF IsPrefix(data, c.bytes)
                        THEN << [c EXCEPT !.cc = Min({2 * @, BUFSZ}),
                                          !.bytes = SubSeq(@, r + 1, Len(@))] >> \o Tail(user[p])
                        ELSE Fail)
          [] c.call = "cat" ->
                Go(IF r > 0 THEN << WriteAll(1, data) >> \o user[p]
                   ELSE IF r < 0 THEN Exit(1) ELSE Tail(user[p]))
          [] c.call = "read" -> Go(Exit(0))
          [] c.call = "getpid" -> Store(<<proc[p].pid>>)
          [] c.call = "exec" -> Go(IF c.argv[1] \in Installed THEN Program(c.argv) ELSE Tail(user[p]))
          [] OTHER -> Go(Tail(user[p]))

(* The end of usertrap, and the program's own steps up to the next call. *)
UserTrapRet(p) ==
    LET a == After(p, Head(user[p]))
    IN  /\ At(p, "usertrapret") /\ Free(PLock(p))
        /\ IF proc[p].killed THEN Exiting(p, -1)
           ELSE /\ user' = [user EXCEPT ![p] = a.user]
                /\ mem' = [mem EXCEPT ![p] = a.mem]
                /\ Continue(p)
        /\ ret' = [ret EXCEPT ![p] = [val |-> 0, data |-> <<>>]]
        /\ UNCHANGED <<proc, lock, cpu, ticks, nextpid, preempts, panic, pipeVars, job>>

(* fork copies the memory and the open files. Bound: memory runs out only in *)
(* scarce jobs, and not before a program's second fork.                      *)
ForkStep(p) ==
    \E short \in BOOLEAN :
        /\ At(p, "allocproc")
        /\ short => job \in Scarce /\ mem[p] # <<>> /\ FoundSlot(p)
        /\ AllocProc(p, short)
        /\ IF FoundSlot(p) /\ ~short
           THEN /\ FilesDup(p, Arg(p, 2))
                /\ user' = [user EXCEPT ![Arg(p, 2)] = Head(user[p]).child]
                /\ mem' = [mem EXCEPT ![Arg(p, 2)] = mem[p]]
           ELSE UNCHANGED <<pipeVars, user, mem>>
        /\ UNCHANGED job

(* A step of the process table leaves files and programs alone, one of an    *)
(* open file the programs.                                                   *)
OnlyProc == UNCHANGED <<pipeVars, user, mem, job>>
OnlyFiles == UNCHANGED <<user, mem, job>>

ProcStep(p) ==
    \/ Acquire(p) /\ OnlyProc
    \/ Release(p) /\ OnlyProc
    \/ Wakeup(p) /\ OnlyProc
    \/ Sleep(p) /\ OnlyProc
    \/ Swtch(p) /\ OnlyProc
    \/ Yield(p) /\ OnlyProc
    \/ SetParent(p) /\ OnlyProc
    \/ MakeRunnable(p) /\ OnlyProc
    \/ Reparent(p) /\ OnlyProc
    \/ Zombie(p) /\ OnlyProc
    \/ Scan(p) /\ OnlyProc
    \/ Kill(p) /\ OnlyProc
    \/ GetTime(p) /\ OnlyProc
    \/ TickSleep(p) /\ OnlyProc
    \/ Clock(p) /\ OnlyProc
    \/ UpdateTime(p) /\ OnlyProc
    \/ Unlock(p) /\ OnlyProc

FileStep(p) ==
    \/ Dup(p) /\ OnlyFiles
    \/ Open(p) /\ OnlyFiles
    \/ PipeCall(p) /\ OnlyFiles
    \/ Close(p) /\ OnlyFiles
    \/ PipeClose(p) /\ OnlyFiles
    \/ PipeFree(p) /\ OnlyFiles
    \/ Read(p) /\ OnlyFiles
    \/ Write(p) /\ OnlyFiles
    \/ ConsoleRead(p) /\ OnlyFiles
    \/ PipeWrite(p) /\ OnlyFiles
    \/ PipeRead(p) /\ OnlyFiles

Step(p) == ProcStep(p) \/ (p # Nobody /\ (FileStep(p) \/ ForkStep(p) \/ Trap(p) \/ UserTrapRet(p)))

Interrupt(p) == ClockInterrupt(p) /\ OnlyProc
Dispatch(p) == Schedule(p) /\ OnlyProc

Next ==
    \/ \E p \in Slots : Dispatch(p) \/ Timer(p) \/ (Preempt(p) /\ OnlyProc)
    \/ \E p \in Slots : FileStep(p) \/ ForkStep(p) \/ Trap(p) \/ UserTrapRet(p)
    \/ \E p \in Slots \cup {Nobody} : ProcStep(p) \/ Interrupt(p)

(* A process that can run runs, the scheduler's round robin comes to every   *)
(* runnable process, and timer interrupts do not stop.                       *)
Fairness ==
    /\ \A p \in Slots : WF_vars(Step(p) \/ Timer(p)) /\ SF_vars(Dispatch(p))
    /\ WF_vars(Step(Nobody))
    /\ SF_vars(\E p \in Slots \cup {Nobody} : Interrupt(p))

Spec == Init /\ [][Next]_vars /\ Fairness

---------------------------------------------------------------------------
(* Properties *)

(* The repository's own tests pass in every interleaving: no test finds a    *)
(* wrong child, a wrong exit status, a byte lost, doubled or out of order    *)
(* (user/usertests.c), and what the console shows of a shell line is what    *)
(* its commands write, in the order of the line (user/sh.c).                 *)
TestsPass ==
    /\ \A p \in Slots : user[p] # <<>> => Head(user[p]).call # "fail"
    /\ IsPrefix(tty, Output[job])

(* The kernel does not panic. A process is on one CPU at most, and on one    *)
(* exactly while it runs; its slot is not freed while it is still on the way *)
(* out (proc.c:421, 390-399). No two processes have one number, a process's  *)
(* parent is alive whenever wait_lock is free (proc.c:342), and a process    *)
(* has run no longer than it exists, but for the tick that is being counted  *)
(* when it is created (proc.c:735).                                          *)
TableSound ==
    /\ ~panic
    /\ \A p \in Slots :
        LET on == {c \in CPUs : cpu[c] = p}
        IN  /\ Cardinality(on) <= 1
            /\ proc[p].state = "RUNNING" => on # {}
            /\ on # {} => proc[p].state = "RUNNING" \/ (proc[p].state # "UNUSED" /\ ~Free(PLock(p)))
            /\ proc[p].state # "UNUSED" =>
                  /\ \A q \in Slots \ {p} : proc[q].pid # proc[p].pid
                  /\ proc[p].rtime <= ticks - proc[p].ctime + 1
            /\ proc[p].parent # Nobody /\ Free(wait_lock) =>
                  proc[proc[p].parent].state \notin {"UNUSED", "ZOMBIE"}

(* A step that some process still has before it. *)
Pending(step) == \E p \in Slots : \E n \in DOMAIN code[p] : code[p][n] = step

(* An open file has as many references as descriptors name it; an end of a   *)
(* pipe is open as long as an open file refers to it or is being closed, and *)
(* the page is kept as long as an end is (file.c:60, pipe.c:59).             *)
FilesExact ==
    /\ \A f \in Files :
        ftable[f].ref = Cardinality({<<p, fd>> \in Slots \X Fds : ofile[p][fd] = f})
    /\ \A k \in Pipes :
        LET Open_(w) == \/ \E f \in Files : /\ ftable[f].ref > 0 /\ ftable[f].pipe = k
                                            /\ ftable[f].type = "FD_PIPE" /\ ftable[f].writable = w
                        \/ Pending(<<"pipeclose", k, w>>)
        IN  /\ pipe[k].writeopen = Open_(TRUE)
            /\ pipe[k].readopen = Open_(FALSE)
            /\ pipe[k].live = (pipe[k].readopen \/ pipe[k].writeopen \/ Pending(<<"pipefree", k>>))

(* Every job comes to its end: no wakeup is lost (proc.c:555), whoever reads *)
(* a pipe without writers or writes one without readers returns, killed      *)
(* processes go, and every child is waited for, by init if not by its parent.*)
Finishes ==
    <>[](/\ \A p \in Slots : proc[p].state = (IF p <= 2 THEN "SLEEPING" ELSE "UNUSED")
         /\ tty = Output[job])
===========================================================================
