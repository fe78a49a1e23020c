------------------------------- MODULE Pipe -------------------------------
(* Open files (kernel/file.c), file descriptors (kernel/sysfile.c) and pipes *)
(* (kernel/pipe.c). The console is a device without input.                   *)
EXTENDS Proc, FiniteSetsExt

CONSTANTS
    NFILE,     \* the number of open files
    NOFILE,    \* the number of file descriptors of a process
    NPIPE,     \* bound: the pages that kalloc gives to pipes
    PIPESIZE,  \* the bytes a pipe holds
    UINT       \* 2^w for the width w of nread and nwrite

ASSUME PipeAssumption == UINT % PIPESIZE = 0 /\ UINT > PIPESIZE

VARIABLES
    ftable,  \* the open files: [ref, type, readable, writable, pipe]
    ofile,   \* process -> file descriptor -> open file, or NoFile
    pipe,    \* the pipes: [live, data, nread, nwrite, readopen, writeopen]
    tty      \* what has been written to the console

pipeVars == <<ftable, ofile, pipe, tty>>

Files == 1 .. NFILE
Fds == 0 .. NOFILE - 1
Pipes == 1 .. NPIPE
NoFile == 0
FreeFile == [ref |-> 0, type |-> "FD_NONE", readable |-> FALSE, writable |-> FALSE, pipe |-> 0]
Console == [ref |-> 1, type |-> "FD_DEVICE", readable |-> TRUE, writable |-> TRUE, pipe |-> 0]
FreePipe ==
    [live |-> FALSE, data |-> [i \in 0 .. PIPESIZE - 1 |-> ""], nread |-> 0, nwrite |-> 0,
     readopen |-> FALSE, writeopen |-> FALSE]

PipeLock(k) == <<"pipe", k>>
NReadChan(k) == <<"nread", k>>
NWriteChan(k) == <<"nwrite", k>>
ConsChan == <<"cons">>
ConsLock == <<"conslock">>

---------------------------------------------------------------------------
(* Descriptors *)

OpenFds(p) == {fd \in Fds : ofile[p][fd] # NoFile}
argfd(p, fd) == fd \in OpenFds(p)
FreeFds(p) == Fds \ OpenFds(p)

(* fork's loop of filedup: a reference more for every descriptor. *)
FilesDup(p, np) ==
    /\ ofile' = [ofile EXCEPT ![np] = ofile[p]]
    /\ ftable' = [f \in Files |->
          [ftable[f] EXCEPT !.ref = @ + Cardinality({fd \in Fds : ofile[p][fd] = f})]]
    /\ UNCHANGED <<pipe, tty>>

(* sys_dup. Mutant: the reference is not counted. *)
DupRef_Forgotten == 0

DupRef == 1

Dup(p) ==
    LET fd == Arg(p, 2)
        new == Min(FreeFds(p))
    IN  /\ At(p, "dup")
        /\ IF ~argfd(p, fd) \/ FreeFds(p) = {}
           THEN Return(p, -1, <<>>) /\ UNCHANGED <<ofile, ftable>>
           ELSE /\ ofile' = [ofile EXCEPT ![p][new] = ofile[p][fd]]
                /\ ftable' = [ftable EXCEPT ![ofile[p][fd]].ref = @ + DupRef]
                /\ Return(p, new, <<>>)
        /\ Continue(p)
        /\ UNCHANGED <<pipe, tty, proc, lock, cpu, ticks, nextpid, preempts, panic>>

(* sys_open, for the console: the only file here. *)
Open(p) ==
    LET free == {f \in Files : ftable[f].ref = 0}
        f == Min(free)
        fd == Min(FreeFds(p))
    IN  /\ At(p, "open")
        /\ IF Arg(p, 2) # "console" \/ free = {} \/ FreeFds(p) = {}
           THEN Return(p, -1, <<>>) /\ UNCHANGED <<ftable, ofile>>
           ELSE /\ ftable' = [ftable EXCEPT ![f] = Console]
                /\ ofile' = [ofile EXCEPT ![p][fd] = f]
                /\ Return(p, fd, <<>>)
        /\ Continue(p)
        /\ UNCHANGED <<pipe, tty, proc, lock, cpu, ticks, nextpid, preempts, panic>>

(* sys_pipe with pipealloc: two open files, a page and two descriptors, or   *)
(* all is given back.                                                        *)
PipeCall(p) ==
    LET free == {f \in Files : ftable[f].ref = 0}
        f0 == Min(free)
        f1 == Min(free \ {f0})
        pages == {k \in Pipes : ~pipe[k].live}
        k == Min(pages)
        fd0 == Min(FreeFds(p))
        fd1 == Min(FreeFds(p) \ {fd0})
        End(w) == [ref |-> 1, type |-> "FD_PIPE", readable |-> ~w, writable |-> w, pipe |-> k]
    IN  /\ At(p, "pipe")
        /\ IF Cardinality(free) < 2 \/ pages = {} \/ Cardinality(FreeFds(p)) < 2
           THEN Return(p, -1, <<>>) /\ UNCHANGED <<ftable, ofile, pipe>>
           ELSE /\ ftable' = [ftable EXCEPT ![f0] = End(FALSE), ![f1] = End(TRUE)]
                /\ ofile' = [ofile EXCEPT ![p][fd0] = f0, ![p][fd1] = f1]
                /\ pipe' = [pipe EXCEPT ![k].live = TRUE, ![k].readopen = TRUE,
                              ![k].writeopen = TRUE, ![k].nread = 0, ![k].nwrite = 0]
                /\ Return(p, 0, <<fd0, fd1>>)
        /\ Continue(p)
        /\ UNCHANGED <<tty, proc, lock, cpu, ticks, nextpid, preempts, panic>>

(* sys_close, and the loop of exit: the descriptor is freed and fileclose    *)
(* gives its reference up; the last one closes the pipe's end.               *)
Close(p) ==
    LET fd == Arg(p, 2)
        f == ofile[p][fd]
        last == ftable[f].ref = 1
        k == ftable[f].pipe
    IN  /\ At(p, "close")
        /\ IF ~argfd(p, fd)
           THEN Return(p, -1, <<>>) /\ Continue(p) /\ UNCHANGED <<ofile, ftable, panic>>
           ELSE IF ftable[f].ref < 1
           THEN panic' = TRUE /\ UNCHANGED <<ofile, ftable, code, ret>>
           ELSE /\ ofile' = [ofile EXCEPT ![p][fd] = NoFile]
                /\ ftable' = [ftable EXCEPT
                     ![f] = IF last THEN [@ EXCEPT !.ref = 0, !.type = "FD_NONE"]
                                    ELSE [@ EXCEPT !.ref = @ - 1]]
                /\ Return(p, 0, <<>>)
                /\ Goto(p, IF last /\ ftable[f].type = "FD_PIPE"
                           THEN << <<"acquire", PipeLock(k)>>, <<"pipeclose", k, ftable[f].writable>> >>
                           ELSE <<>>)
                /\ UNCHANGED panic
        /\ UNCHANGED <<pipe, tty, proc, lock, cpu, ticks, nextpid, preempts>>

PipeClose(p) ==
    LET k == Arg(p, 2)
        writable == Arg(p, 3)
    IN  /\ At(p, "pipeclose")
        /\ pipe' = [pipe EXCEPT ![k].writeopen = @ /\ ~writable, ![k].readopen = @ /\ writable]
        /\ Goto(p, wakeup(IF writable THEN NReadChan(k) ELSE NWriteChan(k)) \o << <<"pipefree", k>> >>)
        /\ UNCHANGED <<ftable, ofile, tty, proc, lock, cpu, ret, ticks, nextpid, preempts, panic>>

PipeFree(p) ==
    LET k == Arg(p, 2)
    IN  /\ At(p, "pipefree")
        /\ pipe' = [pipe EXCEPT ![k] =
             IF @.readopen \/ @.writeopen THEN @ ELSE FreePipe]
        /\ lock' = Unlocked(PipeLock(k))
        /\ Continue(p)
        /\ UNCHANGED <<ftable, ofile, tty, proc, cpu, ret, ticks, nextpid, preempts, panic>>

---------------------------------------------------------------------------
(* Reading and writing *)

(* sys_read and fileread. *)
Read(p) ==
    LET fd == Arg(p, 2)
        f == ftable[ofile[p][fd]]
    IN  /\ At(p, "read")
        /\ IF ~argfd(p, fd) \/ ~f.readable
           THEN Return(p, -1, <<>>) /\ Continue(p) /\ UNCHANGED panic
           ELSE IF f.type = "FD_NONE"
           THEN panic' = TRUE /\ UNCHANGED <<code, ret>>
           ELSE /\ Goto(p, IF f.type = "FD_PIPE"
                           THEN << <<"acquire", PipeLock(f.pipe)>>, <<"piperead", f.pipe, Arg(p, 3)>> >>
                           ELSE << <<"acquire", ConsLock>>, <<"consoleread">> >>)
                /\ UNCHANGED <<ret, panic>>
        /\ UNCHANGED <<pipeVars, proc, lock, cpu, ticks, nextpid, preempts>>

(* sys_write and filewrite. *)
Write(p) ==
    LET fd == Arg(p, 2)
        f == ftable[ofile[p][fd]]
    IN  /\ At(p, "write")
        /\ IF ~argfd(p, fd) \/ ~f.writable
           THEN Return(p, -1, <<>>) /\ Continue(p) /\ UNCHANGED <<tty, panic>>
           ELSE IF f.type = "FD_NONE"
           THEN panic' = TRUE /\ UNCHANGED <<code, ret, tty>>
           ELSE IF f.type = "FD_PIPE"
           THEN /\ Goto(p, << <<"acquire", PipeLock(f.pipe)>>, <<"pipewrite", f.pipe, Arg(p, 3), 0>> >>)
                /\ UNCHANGED <<ret, tty, panic>>
           ELSE /\ tty' = tty \o Arg(p, 3)
                /\ Return(p, Len(Arg(p, 3)), <<>>)
                /\ Continue(p) /\ UNCHANGED panic
        /\ UNCHANGED <<ftable, ofile, pipe, proc, lock, cpu, ticks, nextpid, preempts>>

(* A process that waits for console input sleeps until it is killed. *)
ConsoleRead(p) ==
    /\ At(p, "consoleread") /\ Free(PLock(p))
    /\ Goto(p, IF proc[p].killed THEN << <<"release", ConsLock, -1>> >>
               ELSE sleep(ConsChan, ConsLock) \o <<code[p][1]>>)
    /\ UNCHANGED <<pipeVars, proc, lock, cpu, ret, ticks, nextpid, preempts, panic>>

(* One round of the loop of pipewrite. Mutant: one byte too many fits. *)
Full_OffByOne(k) == pipe[k].nwrite = (pipe[k].nread + PIPESIZE + 1) % UINT

Full(k) == pipe[k].nwrite = (pipe[k].nread + PIPESIZE) % UINT
Empty(k) == pipe[k].nread = pipe[k].nwrite

PipeWrite(p) ==
    LET k == Arg(p, 2)
        bytes == Arg(p, 3)
        i == Arg(p, 4)
    IN  /\ At(p, "pipewrite") /\ Free(PLock(p))
        /\ IF ~pipe[k].live
           THEN panic' = TRUE /\ UNCHANGED <<code, pipe>>
           ELSE /\ IF i = Len(bytes)
                   THEN /\ Goto(p, wakeup(NReadChan(k)) \o << <<"release", PipeLock(k), i>> >>)
                        /\ UNCHANGED pipe
                   ELSE IF ~pipe[k].readopen \/ proc[p].killed
                   THEN Goto(p, << <<"release", PipeLock(k), -1>> >>) /\ UNCHANGED pipe
                   ELSE IF Full(k)
                   THEN /\ Goto(p, wakeup(NReadChan(k)) \o sleep(NWriteChan(k), PipeLock(k))
                                   \o <<code[p][1]>>)
                        /\ UNCHANGED pipe
                   ELSE /\ pipe' = [pipe EXCEPT ![k].data[pipe[k].nwrite % PIPESIZE] = bytes[i + 1],
                                                ![k].nwrite = (@ + 1) % UINT]
                        /\ Goto(p, << <<"pipewrite", k, bytes, i + 1>> >>)
                /\ UNCHANGED panic
        /\ UNCHANGED <<ftable, ofile, tty, proc, lock, cpu, ret, ticks, nextpid, preempts>>

(* piperead: it waits for a byte or for the last writer, then takes what     *)
(* there is, at most n bytes.                                                *)
PipeRead(p) ==
    LET k == Arg(p, 2)
        n == Min({Arg(p, 3), (pipe[k].nwrite - pipe[k].nread) % UINT})
        bytes == [j \in 1 .. n |-> pipe[k].data[(pipe[k].nread + j - 1) % PIPESIZE]]
    IN  /\ At(p, "piperead") /\ Free(PLock(p))
        /\ IF ~pipe[k].live
           THEN panic' = TRUE /\ UNCHANGED <<code, pipe, ret>>
           ELSE /\ IF Empty(k) /\ pipe[k].writeopen
                   THEN /\ Goto(p, IF proc[p].killed THEN << <<"release", PipeLock(k), -1>> >>
                                   ELSE sleep(NReadChan(k), PipeLock(k)) \o <<code[p][1]>>)
                        /\ UNCHANGED <<pipe, ret>>
                   ELSE /\ pipe' = [pipe EXCEPT ![k].nread = (@ + n) % UINT]
                        /\ Return(p, n, bytes)
                        /\ Goto(p, wakeup(NWriteChan(k)) \o << <<"release", PipeLock(k), n>> >>)
                /\ UNCHANGED panic
        /\ UNCHANGED <<ftable, ofile, tty, proc, lock, cpu, ticks, nextpid, preempts>>
===========================================================================
