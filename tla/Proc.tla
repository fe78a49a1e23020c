------------------------------- MODULE Proc -------------------------------
(* The process table (kernel/proc.c), its spin locks (kernel/spinlock.c) and *)
(* the clock (kernel/trap.c, kernel/sysproc.c), on several CPUs. A kernel    *)
(* routine is a sequence of steps that a process works off; a step is what   *)
(* happens from taking one lock to giving it back or to taking the next.     *)
EXTENDS Integers, Sequences, FiniteSets, SequencesExt

CONSTANTS
    NPROC,        \* the number of slots of the process table
    CPUs, Cpu0    \* the processors, and the one that runs clockintr

VARIABLES
    proc,      \* the table: [state, pid, parent, chan, killed, xstate, rtime, ctime, etime]
    lock,      \* the spin locks that are held -> the CPU that holds them
    cpu,       \* CPU -> the slot of the process it runs, or Nobody
    code,      \* the kernel steps that a process has before it; <<>> in user mode
    ret,       \* what the last system call returned: [val, data]
    ticks,     \* the clock
    nextpid,   \* the next process number
    preempts,  \* bound: the timer interrupts that may still take a busy process off its CPU
    panic      \* the kernel has stopped

procVars == <<proc, lock, cpu, code, ret, ticks, nextpid, preempts, panic>>

Slots == 1 .. NPROC
Nobody == 0
initproc == 1
NoChan == <<>>
NoLock == <<>>
wait_lock == <<"wait_lock">>
tickslock == <<"tickslock">>
PLock(i) == <<"proc", i>>
TicksChan == <<"ticks">>

(* A slot as freeproc leaves it. *)
FreeSlot ==
    [state |-> "UNUSED", pid |-> 0, parent |-> Nobody, chan |-> NoChan, killed |-> FALSE,
     xstate |-> 0, rtime |-> 0, ctime |-> 0, etime |-> 0]

---------------------------------------------------------------------------
(* Spin locks. A CPU holds a lock, and its interrupts are off while it does. *)
(* Slot Nobody stands for the scheduler of CPU 0.                            *)

mycpu(p) == IF p = Nobody THEN Cpu0 ELSE CHOOSE c \in CPUs : cpu[c] = p
OnCpu(p) == IF p = Nobody THEN cpu[Cpu0] = Nobody ELSE \E c \in CPUs : cpu[c] = p
Free(l) == l \notin DOMAIN lock
holding(p, l) == ~Free(l) /\ lock[l] = mycpu(p)
Locked(l, p) == lock @@ (l :> mycpu(p))
Unlocked(l) == [k \in DOMAIN lock \ {l} |-> lock[k]]
noff(p) == Cardinality({l \in DOMAIN lock : lock[l] = mycpu(p)})

Panic ==
    /\ panic' = TRUE
    /\ UNCHANGED <<proc, lock, cpu, code, ret, ticks, nextpid, preempts>>

At(p, step) == ~panic /\ OnCpu(p) /\ code[p] # <<>> /\ code[p][1][1] = step
Arg(p, n) == code[p][1][n]
Goto(p, steps) == code' = [code EXCEPT ![p] = steps \o Tail(@)]
Continue(p) == Goto(p, <<>>)
Return(p, val, data) == ret' = [ret EXCEPT ![p] = [val |-> val, data |-> data]]

(* A process number of its own for every process. *)
allocpid == nextpid' = nextpid + 1

(* acquire: it spins while another CPU holds the lock. *)
Acquire(p) ==
    LET l == Arg(p, 2)
    IN  /\ At(p, "acquire")
        /\ IF holding(p, l) THEN Panic
           ELSE /\ Free(l)
                /\ lock' = Locked(l, p)
                /\ Continue(p)
                /\ UNCHANGED <<proc, cpu, ret, ticks, nextpid, preempts, panic>>

(* release, at the end of a routine that returns a value. *)
Release(p) ==
    LET l == Arg(p, 2)
    IN  /\ At(p, "release")
        /\ IF ~holding(p, l) THEN Panic
           ELSE /\ lock' = Unlocked(l)
                /\ ret' = [ret EXCEPT ![p].val = Arg(p, 3)]
                /\ Continue(p)
                /\ UNCHANGED <<proc, cpu, ticks, nextpid, preempts, panic>>

---------------------------------------------------------------------------
(* Sleep, wakeup and the scheduler *)

wakeup(chan) == [i \in Slots |-> <<"wakeup", i, chan>>]

(* Mutant: the condition's lock is given back before the process's is taken. *)
sleep_ReleaseFirst(chan, l) ==
    << <<"release", l, 0>>, <<"sleep", chan, NoLock>>, <<"swtch">>, <<"acquire", l>> >>

sleep(chan, l) == << <<"sleep", chan, l>>, <<"swtch">>, <<"acquire", l>> >>

(* One round of the loop of wakeup. *)
Wakeup(p) ==
    LET i == Arg(p, 2)
        asleep == i # p /\ proc[i].state = "SLEEPING" /\ proc[i].chan = Arg(p, 3)
    IN  /\ At(p, "wakeup")
        /\ i # p => Free(PLock(i))
        /\ proc' = [proc EXCEPT ![i].state = IF asleep THEN "RUNNABLE" ELSE @]
        /\ Continue(p)
        /\ UNCHANGED <<lock, cpu, ret, ticks, nextpid, preempts, panic>>

(* sleep up to the call of sched: p->lock is taken, then lk given back. *)
Sleep(p) ==
    LET l == Arg(p, 3)
    IN  /\ At(p, "sleep")
        /\ IF l # NoLock /\ ~holding(p, l) THEN Panic
           ELSE /\ Free(PLock(p))
                /\ lock' = Unlocked(l) @@ (PLock(p) :> mycpu(p))
                /\ proc' = [proc EXCEPT ![p].chan = Arg(p, 2), ![p].state = "SLEEPING"]
                /\ Continue(p)
                /\ UNCHANGED <<cpu, ret, ticks, nextpid, preempts, panic>>

(* sched: the CPU goes back to its scheduler, which gives p->lock back. *)
Swtch(p) ==
    /\ At(p, "swtch")
    /\ IF ~holding(p, PLock(p)) \/ noff(p) # 1 \/ proc[p].state = "RUNNING" THEN Panic
       ELSE /\ cpu' = [cpu EXCEPT ![mycpu(p)] = Nobody]
            /\ lock' = Unlocked(PLock(p))
            /\ Continue(p)
            /\ UNCHANGED <<proc, ret, ticks, nextpid, preempts, panic>>

(* scheduler: an idle CPU takes a runnable process. The process wakes with   *)
(* its lock held and gives it back at once (forkret, sleep, yield).          *)
Schedule(p) ==
    /\ ~panic
    /\ proc[p].state = "RUNNABLE" /\ Free(PLock(p))
    /\ \E c \in CPUs :
        /\ cpu[c] = Nobody /\ (c = Cpu0 => code[Nobody] = <<>>)
        /\ cpu' = [cpu EXCEPT ![c] = p]
    /\ proc' = [proc EXCEPT ![p].state = "RUNNING", ![p].chan = NoChan]
    /\ UNCHANGED <<lock, code, ret, ticks, nextpid, preempts, panic>>

(* The effect of yield. *)
GiveUpCpu(p) ==
    /\ Free(PLock(p))
    /\ proc' = [proc EXCEPT ![p].state = "RUNNABLE"]
    /\ cpu' = [cpu EXCEPT ![mycpu(p)] = Nobody]

Yield(p) ==
    /\ At(p, "yield")
    /\ IF noff(p) # 0 THEN Panic
       ELSE /\ GiveUpCpu(p)
            /\ Continue(p)
            /\ UNCHANGED <<lock, ret, ticks, nextpid, preempts, panic>>

(* Interrupts are off under a lock and in an interrupt handler. *)
IntrOn(p) ==
    noff(p) = 0 /\ \A n \in DOMAIN code[p] : code[p][n][1] \notin {"clock", "yield"}

(* kerneltrap: a timer interrupt in the middle of a system call. *)
Preempt(p) ==
    /\ ~panic /\ OnCpu(p) /\ code[p] # <<>> /\ IntrOn(p) /\ preempts > 0
    /\ preempts' = preempts - 1
    /\ GiveUpCpu(p)
    /\ UNCHANGED <<lock, code, ret, ticks, nextpid, panic>>

---------------------------------------------------------------------------
(* fork, exit, wait, kill *)

fork == << <<"allocproc", 1>> >>

(* One round of the search of allocproc. With a free slot, the rest of fork  *)
(* up to the first release of np->lock; short says that memory ran out.      *)
FoundSlot(p) == Arg(p, 2) <= NPROC /\ proc[Arg(p, 2)].state = "UNUSED"

AllocProc(p, short) ==
    LET i == Arg(p, 2)
    IN  /\ At(p, "allocproc")
        /\ i <= NPROC => Free(PLock(i))
        /\ IF ~FoundSlot(p) \/ short
           THEN /\ IF i > NPROC \/ FoundSlot(p)
                   THEN Continue(p) /\ Return(p, -1, <<>>)
                   ELSE Goto(p, << <<"allocproc", i + 1>> >>) /\ UNCHANGED ret
                /\ proc' = IF FoundSlot(p) THEN [proc EXCEPT ![i] = FreeSlot] ELSE proc
           ELSE /\ proc' = [proc EXCEPT ![i].state = "USED", ![i].pid = nextpid,
                                        ![i].rtime = 0, ![i].etime = 0, ![i].ctime = ticks]
                /\ Goto(p, << <<"setparent", i>>, <<"runnable", i, nextpid>> >>)
                /\ UNCHANGED ret
        /\ IF FoundSlot(p) THEN allocpid ELSE UNCHANGED nextpid
        /\ UNCHANGED <<lock, cpu, ticks, preempts, panic>>

SetParent(p) ==
    /\ At(p, "setparent") /\ Free(wait_lock)
    /\ proc' = [proc EXCEPT ![Arg(p, 2)].parent = p]
    /\ Continue(p)
    /\ UNCHANGED <<lock, cpu, ret, ticks, nextpid, preempts, panic>>

MakeRunnable(p) ==
    /\ At(p, "runnable") /\ Free(PLock(Arg(p, 2)))
    /\ proc' = [proc EXCEPT ![Arg(p, 2)].state = "RUNNABLE"]
    /\ Continue(p)
    /\ Return(p, Arg(p, 3), <<>>)
    /\ UNCHANGED <<lock, cpu, ticks, nextpid, preempts, panic>>

(* exit after the files are closed: under wait_lock, the children go to init *)
(* and the parent is woken. The lock stays held until the process is a zombie *)
(* and has its own lock.                                                     *)
Children(p) == {i \in Slots : proc[i].parent = p}
Times(n, steps) == [k \in 1 .. n * Len(steps) |-> steps[((k - 1) % Len(steps)) + 1]]

Reparent(p) ==
    /\ At(p, "reparent")
    /\ IF p = initproc THEN Panic
       ELSE /\ Free(wait_lock)
            /\ lock' = Locked(wait_lock, p)
            /\ proc' = [i \in Slots |->
                 IF proc[i].parent = p THEN [proc[i] EXCEPT !.parent = initproc] ELSE proc[i]]
            /\ Goto(p, Times(Cardinality(Children(p)), wakeup(PLock(initproc)))
                       \o wakeup(PLock(proc[p].parent))
                       \o << <<"zombie", Arg(p, 2)>>, <<"swtch">> >>)
            /\ UNCHANGED <<cpu, ret, ticks, nextpid, preempts, panic>>

Zombie(p) ==
    /\ At(p, "zombie") /\ Free(PLock(p))
    /\ proc' = [proc EXCEPT ![p].xstate = Arg(p, 2), ![p].state = "ZOMBIE", ![p].etime = ticks]
    /\ lock' = Unlocked(wait_lock) @@ (PLock(p) :> mycpu(p))
    /\ Continue(p)
    /\ UNCHANGED <<cpu, ret, ticks, nextpid, preempts, panic>>

(* wait and waitx *)
wait == << <<"acquire", wait_lock>>, <<"scan", 1, FALSE>> >>

(* Mutant: the child's lock is not taken before its state is read. *)
ChildReady_Unlocked(i) == TRUE

(* "make sure the child isn't still in exit() or swtch()" *)
ChildReady(i) == Free(PLock(i))

WaitTime(i) == proc[i].etime - proc[i].ctime - proc[i].rtime

(* The search for a child from slot i on; at the end of it, the process      *)
(* returns or sleeps and begins again.                                       *)
Scan(p) ==
    LET kids == {i \in Slots : i >= Arg(p, 2) /\ proc[i].parent = p}
        kid == CHOOSE i \in kids : \A j \in kids : i <= j
    IN  /\ At(p, "scan")
        /\ IF kids # {}
           THEN /\ ChildReady(kid)
                /\ IF proc[kid].state = "ZOMBIE"
                   THEN /\ Return(p, proc[kid].pid, <<proc[kid].xstate, WaitTime(kid)>>)
                        /\ proc' = [proc EXCEPT ![kid] = FreeSlot]
                        /\ lock' = Unlocked(wait_lock)
                        /\ Continue(p)
                   ELSE /\ Goto(p, << <<"scan", kid + 1, TRUE>> >>)
                        /\ UNCHANGED <<proc, lock, ret>>
           ELSE /\ Free(PLock(p))
                /\ IF ~Arg(p, 3) \/ proc[p].killed
                   THEN /\ Return(p, -1, <<0, 0>>)
                        /\ lock' = Unlocked(wait_lock)
                        /\ Continue(p)
                   ELSE /\ Goto(p, sleep(PLock(p), wait_lock) \o << <<"scan", 1, FALSE>> >>)
                        /\ UNCHANGED <<lock, ret>>
                /\ UNCHANGED proc
        /\ UNCHANGED <<cpu, ticks, nextpid, preempts, panic>>

(* kill, one slot at a time. *)
kill(pid) == << <<"kill", pid, 1>> >>

Kill(p) ==
    LET i == Arg(p, 3)
        found == i <= NPROC /\ proc[i].pid = Arg(p, 2)
    IN  /\ At(p, "kill")
        /\ i <= NPROC => Free(PLock(i))
        /\ IF found
           THEN proc' = [proc EXCEPT ![i].killed = TRUE,
                                     ![i].state = IF @ = "SLEEPING" THEN "RUNNABLE" ELSE @]
           ELSE UNCHANGED proc
        /\ IF found \/ i > NPROC
           THEN Continue(p) /\ Return(p, IF found THEN 0 ELSE -1, <<>>)
           ELSE Goto(p, << <<"kill", Arg(p, 2), i + 1>> >>) /\ UNCHANGED ret
        /\ UNCHANGED <<lock, cpu, ticks, nextpid, preempts, panic>>

---------------------------------------------------------------------------
(* The clock *)

sys_sleep(n) == << <<"gettime", n>> >>

GetTime(p) ==
    /\ At(p, "gettime") /\ Free(tickslock)
    /\ lock' = Locked(tickslock, p)
    /\ Goto(p, << <<"ticksleep", Arg(p, 2), ticks>> >>)
    /\ UNCHANGED <<proc, cpu, ret, ticks, nextpid, preempts, panic>>

TickSleep(p) ==
    /\ At(p, "ticksleep") /\ Free(PLock(p))
    /\ IF ticks - Arg(p, 3) < Arg(p, 2) /\ ~proc[p].killed
       THEN Goto(p, sleep(TicksChan, tickslock) \o <<code[p][1]>>) /\ UNCHANGED <<lock, ret>>
       ELSE /\ lock' = Unlocked(tickslock)
            /\ Return(p, IF ticks - Arg(p, 3) < Arg(p, 2) THEN -1 ELSE 0, <<>>)
            /\ Continue(p)
    /\ UNCHANGED <<proc, cpu, ticks, nextpid, preempts, panic>>

clockintr ==
    << <<"clock">> >> \o [i \in Slots |-> <<"update_time", i>>]
    \o wakeup(TicksChan) \o << <<"unlock", tickslock>> >>

(* Bound: the clock ticks only while a process is in sys_sleep and its time  *)
(* is not up. CPU 0 takes the interrupt, busy or idle.                       *)
ClockDue ==
    \E q \in Slots : \E n \in DOMAIN code[q] :
        code[q][n][1] = "ticksleep" /\ ticks - code[q][n][3] < code[q][n][2]

ClockInterrupt(p) ==
    /\ ~panic /\ ClockDue
    /\ OnCpu(p) /\ mycpu(p) = Cpu0 /\ IntrOn(p)
    /\ code' = [code EXCEPT ![p] = clockintr \o (IF p = Nobody THEN <<>> ELSE << <<"yield">> >>) \o @]
    /\ UNCHANGED <<proc, lock, cpu, ret, ticks, nextpid, preempts, panic>>

Clock(p) ==
    /\ At(p, "clock") /\ Free(tickslock)
    /\ lock' = Locked(tickslock, p)
    /\ ticks' = ticks + 1
    /\ Continue(p)
    /\ UNCHANGED <<proc, cpu, ret, nextpid, preempts, panic>>

UpdateTime(p) ==
    LET i == Arg(p, 2)
    IN  /\ At(p, "update_time") /\ Free(PLock(i))
        /\ proc' = [proc EXCEPT ![i].rtime = IF proc[i].state = "RUNNING" THEN @ + 1 ELSE @]
        /\ Continue(p)
        /\ UNCHANGED <<lock, cpu, ret, ticks, nextpid, preempts, panic>>

Unlock(p) ==
    /\ At(p, "unlock")
    /\ lock' = Unlocked(Arg(p, 2))
    /\ Continue(p)
    /\ UNCHANGED <<proc, cpu, ret, ticks, nextpid, preempts, panic>>
===========================================================================
