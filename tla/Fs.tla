-------------------------------- MODULE Fs --------------------------------
(* The system calls on files and directories (kernel/sysfile.c, file.c,      *)
(* exec.c and the path walk of fs.c), on the inodes of module Inode, and on  *)
(* the console, with the interrupts of its line. A call is a sequence of     *)
(* steps; between two steps other processes run. A step ends where the code  *)
(* takes or gives up a lock that others wait for.                            *)
EXTENDS Mkfs, Console

CONSTANTS
    Procs,     \* the processes, numbers from 1 on
    NFILE,     \* the open files
    NOFILE,    \* the file descriptors of a process
    NDEV,      \* the major numbers that a device may have
    MaxOps,    \* the operations that the log has room for
    MaxWrite,  \* the cells that filewrite writes in one transaction
    Jobs,      \* job -> the program of the first process
    Keys       \* job -> what the user types, for some jobs

VARIABLES
    fs,           \* the file system: [dinode, used, data, itable, panic]
    committed,    \* the disk after the last commit
    outstanding,  \* the operations between begin_op and end_op
    ftable,       \* the open files: [ref, type, ip, major, off, readable, writable]
    ofile,        \* process -> descriptor -> open file, or NoFile
    cwd,          \* process -> the inode of its directory, or 0
    code,         \* the steps that a process has before it
    reg,          \* its local variables: [ip, dp, name, val, data]
    user,         \* the calls that its program has before it
    status,       \* "none", "run", "zombie": it ended, "failed": it ended with an error
    con           \* the console

vars == <<fs, committed, outstanding, ftable, ofile, cwd, code, reg, user, status, con>>

Files == 1 .. NFILE
Fds == 0 .. NOFILE - 1
NoFile == 0
CONSOLE == 1
FreeFile ==
    [ref |-> 0, type |-> "FD_NONE", ip |-> 0, major |-> 0, off |-> 0, readable |-> FALSE, writable |-> FALSE]
NoRegs == [ip |-> 0, dp |-> 0, name |-> "", val |-> 0, data |-> <<>>]
Disk(w) == <<w.dinode, w.used, w.data>>

---------------------------------------------------------------------------
(* The routine of a call *)

begin_op == << <<"begin">> >>
end_op(val) == << <<"end", val>> >>
iput(i) == << <<"iput", i>> >>
namei(path) == << <<"namex", path, FALSE>> >>
nameiparent(path) == << <<"namex", path, TRUE>> >>
create(path, type, major) == nameiparent(path) \o << <<"create", type, major>> >>
fileclose(fd) == << <<"close", fd>> >>

OpenFds(p) == {fd \in Fds : ofile[p][fd] # NoFile}

exit(p, st) ==
    LET Nth(n) == CHOOSE fd \in OpenFds(p) : Cardinality({g \in OpenFds(p) : g < fd}) = n - 1
    IN  [n \in 1 .. Cardinality(OpenFds(p)) |-> <<"close", Nth(n)>>]
        \o begin_op \o iput(cwd[p]) \o end_op(0) \o << <<"exited", st>> >>

syscall(p, c) ==
    CASE c.call = "open" ->
            begin_op \o (IF "create" \in c.mode THEN create(c.path, "file", 0)
                         ELSE namei(c.path) \o << <<"openlock", c.mode>> >>)
                     \o << <<"openfile", c.mode>> >>
      [] c.call = "mkdir" -> begin_op \o create(c.path, "dir", 0) \o << <<"made">> >>
      [] c.call = "mknod" -> begin_op \o create(c.path, "dev", c.major) \o << <<"made">> >>
      [] c.call = "link" -> begin_op \o namei(c.old) \o << <<"link", c.path>> >>
      [] c.call = "unlink" -> begin_op \o nameiparent(c.path) \o << <<"unlink">> >>
      [] c.call \in {"chdir", "exec"} -> begin_op \o namei(c.path) \o << <<c.call>> >>
      [] c.call = "close" -> fileclose(IF c.fd = -1 THEN reg[p].val ELSE c.fd)
      [] c.call = "read" -> << <<"read", c.fd, c.n>> >>
      [] c.call = "write" -> << <<"write", c.fd, c.cells, Len(c.cells)>> >>
      [] c.call \in {"dup", "stat"} -> << <<c.call, c.fd>> >>
      [] c.call \in {"fork", "wait"} -> << <<c.call>> >>

(* A call with its way back to the program, or the end of the program. *)
Routine(p, c) == IF c.call = "exit" THEN exit(p, "zombie") ELSE syscall(p, c) \o << <<"return">> >>

At(p, step) == ~fs.panic /\ code[p] # <<>> /\ code[p][1][1] = step
Arg(p, n) == code[p][1][n]
Goto(p, steps) == code' = [code EXCEPT ![p] = steps \o Tail(@)]
Continue(p) == Goto(p, <<>>)
Set(p, r) == reg' = [reg EXCEPT ![p] = r]
Return(p, val, data) == Set(p, [reg[p] EXCEPT !.val = val, !.data = data])
Unlocked(i) == fs.itable[i].lock = NoProc
Ino(w, i) == w.itable[i].ino

(* The link count of a locked inode, in memory and on disk. *)
Linked(w, i, n) == iupdate([w EXCEPT !.itable[i].ino.nlink = @ + n], i)

---------------------------------------------------------------------------
(* Transactions, references and paths *)

(* begin_op, with the blocks that are logged already left out of its sum.    *)
Begin(p) ==
    /\ At(p, "begin") /\ outstanding < MaxOps
    /\ outstanding' = outstanding + 1
    /\ Continue(p)
    /\ UNCHANGED <<fs, committed, ftable, ofile, cwd, reg, user, status, con>>

(* end_op: the last operation commits them all. *)
End(p) ==
    /\ At(p, "end")
    /\ outstanding' = outstanding - 1
    /\ committed' = IF outstanding = 1 THEN Disk(fs) ELSE committed
    /\ Return(p, Arg(p, 2), <<>>)
    /\ Continue(p)
    /\ UNCHANGED <<fs, ftable, ofile, cwd, user, status, con>>

(* iput, in its three parts. An inode that is freed must not be locked. *)
Iput(p) ==
    LET i == Arg(p, 2)
    IN  /\ At(p, "iput")
        /\ IF LastUse(fs, i)
           THEN /\ fs' = IF Unlocked(i) THEN [fs EXCEPT !.itable[i].lock = p] ELSE panicked(fs)
                /\ Goto(p, << <<"ifree", i>>, <<"unref", i>> >>)
           ELSE fs' = unref(fs, i) /\ Continue(p)
        /\ UNCHANGED <<committed, outstanding, ftable, ofile, cwd, reg, user, status, con>>

InodeStep(p, step, w) ==
    /\ At(p, step)
    /\ fs' = w
    /\ Continue(p)
    /\ UNCHANGED <<committed, outstanding, ftable, ofile, cwd, reg, user, status, con>>

Ifree(p) == InodeStep(p, "ifree", iunlock(ifree(fs, Arg(p, 2)), p, Arg(p, 2)))
Unref(p) == InodeStep(p, "unref", unref(fs, Arg(p, 2)))
Iunlock(p) == InodeStep(p, "iunlock", iunlock(fs, p, Arg(p, 2)))

NameX(p) ==
    LET path == Arg(p, 2)
        root == path # <<>> /\ path[1] = "/"
    IN  /\ At(p, "namex")
        /\ fs' = IF root THEN iget(fs, ROOTINO) ELSE idup(fs, cwd[p])
        /\ Goto(p, << IF root THEN <<"walk", Tail(path), Arg(p, 3), ROOTINO>>
                      ELSE <<"walk", path, Arg(p, 3), cwd[p]>> >>)
        /\ UNCHANGED <<committed, outstanding, ftable, ofile, cwd, reg, user, status, con>>

(* One round of the loop of namex: the directory's lock is held for the      *)
(* look-up only.                                                             *)
Walk(p) ==
    LET path == Arg(p, 2)
        parent == Arg(p, 3)
        i == Arg(p, 4)
        name == skipelem(path[1])
        w == ilock(fs, p, i)
        off == dirlookup(w, i, name)
        next == Entries(w, i)[off + 1][2]
        Result(ip) == Set(p, IF parent THEN [reg[p] EXCEPT !.dp = ip, !.name = IF path = <<>> THEN "" ELSE name]
                             ELSE [reg[p] EXCEPT !.ip = ip])
    IN  /\ At(p, "walk")
        /\ IF path = <<>>
           THEN /\ Result(IF parent THEN 0 ELSE i)
                /\ Goto(p, IF parent THEN iput(i) ELSE <<>>)
                /\ UNCHANGED fs
           ELSE /\ Unlocked(i)
                /\ IF w.panic THEN fs' = w /\ UNCHANGED <<code, reg>>
                   ELSE IF Ino(w, i).type # "dir"
                   THEN fs' = iunlock(w, p, i) /\ Result(0) /\ Goto(p, iput(i))
                   ELSE IF parent /\ Len(path) = 1
                   THEN fs' = iunlock(w, p, i) /\ Result(i) /\ Continue(p)
                   ELSE IF off < 0
                   THEN fs' = iunlock(w, p, i) /\ Result(0) /\ Goto(p, iput(i))
                   ELSE /\ fs' = iunlock(iget(w, next), p, i)
                        /\ Goto(p, iput(i) \o << <<"walk", Tail(path), parent, next>> >>)
                        /\ UNCHANGED reg
        /\ UNCHANGED <<committed, outstanding, ftable, ofile, cwd, user, status, con>>

---------------------------------------------------------------------------
(* link and unlink *)

Link(p) ==
    LET i == reg[p].ip
        w == ilock(fs, p, i)
    IN  /\ At(p, "link")
        /\ IF i = 0 THEN Goto(p, end_op(-1)) /\ UNCHANGED fs
           ELSE /\ Unlocked(i)
                /\ IF Ino(w, i).type = "dir"
                   THEN fs' = iunlock(w, p, i) /\ Goto(p, iput(i) \o end_op(-1))
                   ELSE /\ fs' = iunlock(Linked(w, i, 1), p, i)
                        /\ Goto(p, nameiparent(Arg(p, 2)) \o << <<"linkdir">> >>)
        /\ UNCHANGED <<committed, outstanding, ftable, ofile, cwd, reg, user, status, con>>

LinkDir(p) ==
    LET i == reg[p].ip
        dp == reg[p].dp
        r == dirlink(LockDir(fs, p, dp), dp, reg[p].name, i)
    IN  /\ At(p, "linkdir")
        /\ IF dp = 0 THEN Goto(p, << <<"linkbad">> >>) /\ UNCHANGED fs
           ELSE /\ Unlocked(dp)
                /\ fs' = iunlock(r.w, p, dp)
                /\ Goto(p, iput(dp) \o IF r.ok THEN iput(i) \o end_op(0) ELSE << <<"linkbad">> >>)
        /\ UNCHANGED <<committed, outstanding, ftable, ofile, cwd, reg, user, status, con>>

LinkBad(p) ==
    LET i == reg[p].ip
    IN  /\ At(p, "linkbad") /\ Unlocked(i)
        /\ fs' = iunlock(Linked(ilock(fs, p, i), i, -1), p, i)
        /\ Goto(p, iput(i) \o end_op(-1))
        /\ UNCHANGED <<committed, outstanding, ftable, ofile, cwd, reg, user, status, con>>

Unlink(p) ==
    LET dp == reg[p].dp
        w == LockDir(fs, p, dp)
        off == dirlookup(w, dp, reg[p].name)
        i == Entries(w, dp)[off + 1][2]
    IN  /\ At(p, "unlink")
        /\ IF dp = 0 THEN Goto(p, end_op(-1)) /\ UNCHANGED <<fs, reg>>
           ELSE /\ Unlocked(dp)
                /\ IF w.panic THEN fs' = w /\ UNCHANGED <<code, reg>>
                   ELSE IF reg[p].name \in {".", ".."} \/ off < 0
                   THEN /\ fs' = iunlock(w, p, dp)
                        /\ Goto(p, iput(dp) \o end_op(-1))
                        /\ UNCHANGED reg
                   ELSE /\ fs' = iget(w, i)
                        /\ Set(p, [reg[p] EXCEPT !.ip = i])
                        /\ Goto(p, << <<"erase">> >>)
        /\ UNCHANGED <<committed, outstanding, ftable, ofile, cwd, user, status, con>>

(* The entry goes, under both locks; then the directory's lock. *)
Erase(p) ==
    LET dp == reg[p].dp
        i == reg[p].ip
        w == ilock(fs, p, i)
        dir == Ino(w, i).type = "dir"
        v == writei(w, dp, dirlookup(w, dp, reg[p].name), <<Zero>>)
        u == IF dir THEN Linked(v.w, dp, -1) ELSE v.w
    IN  /\ At(p, "erase") /\ Unlocked(i)
        /\ IF w.panic \/ Ino(w, i).nlink < 1 THEN fs' = panicked(w) /\ UNCHANGED code
           ELSE IF dir /\ ~isdirempty(w, i)
           THEN /\ fs' = iunlock(w, p, i)
                /\ Goto(p, iput(i) \o << <<"iunlock", dp>> >> \o iput(dp) \o end_op(-1))
           ELSE /\ fs' = IF v.n = 1 THEN iunlock(u, p, dp) ELSE panicked(w)
                /\ Goto(p, iput(dp) \o << <<"unlinked">> >>)
        /\ UNCHANGED <<committed, outstanding, ftable, ofile, cwd, reg, user, status, con>>

Unlinked(p) ==
    LET i == reg[p].ip
    IN  /\ At(p, "unlinked")
        /\ fs' = iunlock(Linked(fs, i, -1), p, i)
        /\ Goto(p, iput(i) \o end_op(0))
        /\ UNCHANGED <<committed, outstanding, ftable, ofile, cwd, reg, user, status, con>>

---------------------------------------------------------------------------
(* create, for open, mkdir and mknod; it leaves the new inode locked *)

Create(p) ==
    LET dp == reg[p].dp
        type == Arg(p, 2)
        w == LockDir(fs, p, dp)
        off == dirlookup(w, dp, reg[p].name)
        a == ialloc(w, type)
        Inode(ip) == Set(p, [reg[p] EXCEPT !.ip = ip])
    IN  /\ At(p, "create")
        /\ IF dp = 0 THEN Inode(0) /\ Continue(p) /\ UNCHANGED fs
           ELSE /\ Unlocked(dp)
                /\ IF w.panic THEN fs' = w /\ UNCHANGED <<code, reg>>
                   ELSE IF off >= 0
                   THEN LET i == Entries(w, dp)[off + 1][2]
                        IN  /\ fs' = iunlock(iget(w, i), p, dp)
                            /\ Inode(i)
                            /\ Goto(p, iput(dp) \o << <<"exists", type>> >>)
                   ELSE IF a.ip = 0
                   THEN fs' = iunlock(w, p, dp) /\ Inode(0) /\ Goto(p, iput(dp))
                   ELSE fs' = a.w /\ Inode(a.ip) /\ Goto(p, << <<"fill", type, Arg(p, 3)>> >>)
        /\ UNCHANGED <<committed, outstanding, ftable, ofile, cwd, user, status, con>>

Exists(p) ==
    LET i == reg[p].ip
        w == ilock(fs, p, i)
    IN  /\ At(p, "exists") /\ Unlocked(i)
        /\ IF w.panic \/ (Arg(p, 2) = "file" /\ Ino(w, i).type \in {"file", "dev"})
           THEN fs' = w /\ Continue(p) /\ UNCHANGED reg
           ELSE /\ fs' = iunlock(w, p, i)
                /\ Set(p, [reg[p] EXCEPT !.ip = 0])
                /\ Goto(p, iput(i))
        /\ UNCHANGED <<committed, outstanding, ftable, ofile, cwd, user, status, con>>

Fill(p) ==
    LET i == reg[p].ip
        dp == reg[p].dp
    IN  /\ At(p, "fill") /\ Unlocked(i)
        /\ fs' = Linked([ilock(fs, p, i) EXCEPT !.itable[i].ino.major = Arg(p, 3)], i, 1)
        /\ Goto(p, (IF Arg(p, 2) = "dir" THEN << <<"dirlink", i, ".", i>>, <<"dirlink", i, "..", dp>> >>
                    ELSE <<>>)
                   \o << <<"dirlink", dp, reg[p].name, i>>, <<"filled", Arg(p, 2)>> >>)
        /\ UNCHANGED <<committed, outstanding, ftable, ofile, cwd, reg, user, status, con>>

(* One dirlink of create; if it fails, the new inode is given back. *)
DirLink(p) ==
    LET r == dirlink(fs, Arg(p, 2), Arg(p, 3), Arg(p, 4))
        end == CHOOSE n \in DOMAIN code[p] : code[p][n][1] = "filled"
    IN  /\ At(p, "dirlink")
        /\ fs' = r.w
        /\ IF r.ok THEN Continue(p)
           ELSE code' = [code EXCEPT ![p] = << <<"unfill">> >> \o SubSeq(@, end + 1, Len(@))]
        /\ UNCHANGED <<committed, outstanding, ftable, ofile, cwd, reg, user, status, con>>

Filled(p) ==
    LET dp == reg[p].dp
    IN  /\ At(p, "filled")
        /\ fs' = iunlock(IF Arg(p, 2) = "dir" THEN Linked(fs, dp, 1) ELSE fs, p, dp)
        /\ Goto(p, iput(dp))
        /\ UNCHANGED <<committed, outstanding, ftable, ofile, cwd, reg, user, status, con>>

Unfill(p) ==
    LET i == reg[p].ip
    IN  /\ At(p, "unfill")
        /\ fs' = iunlock(Linked(fs, i, -1), p, i)
        /\ Set(p, [reg[p] EXCEPT !.ip = 0])
        /\ Goto(p, iput(i) \o << <<"iunlock", reg[p].dp>> >> \o iput(reg[p].dp))
        /\ UNCHANGED <<committed, outstanding, ftable, ofile, cwd, user, status, con>>

(* The end of sys_mkdir and sys_mknod. *)
Made(p) ==
    LET i == reg[p].ip
    IN  /\ At(p, "made")
        /\ IF i = 0 THEN Goto(p, end_op(-1)) /\ UNCHANGED fs
           ELSE fs' = iunlock(fs, p, i) /\ Goto(p, iput(i) \o end_op(0))
        /\ UNCHANGED <<committed, outstanding, ftable, ofile, cwd, reg, user, status, con>>

---------------------------------------------------------------------------
(* open, chdir, exec *)

OpenLock(p) ==
    LET i == reg[p].ip
        w == ilock(fs, p, i)
    IN  /\ At(p, "openlock")
        /\ IF i = 0 THEN Continue(p) /\ UNCHANGED <<fs, reg>>
           ELSE /\ Unlocked(i)
                /\ IF Ino(w, i).type = "dir" /\ Arg(p, 2) # {}
                   THEN /\ fs' = iunlock(w, p, i)
                        /\ Set(p, [reg[p] EXCEPT !.ip = 0])
                        /\ Goto(p, iput(i))
                   ELSE fs' = w /\ Continue(p) /\ UNCHANGED reg
        /\ UNCHANGED <<committed, outstanding, ftable, ofile, cwd, user, status, con>>

OpenFile(p) ==
    LET i == reg[p].ip
        mode == Arg(p, 2)
        free == {f \in Files : ftable[f].ref = 0}
        fds == Fds \ OpenFds(p)
        f == Min(free)
        file == Ino(fs, i).type = "file"
    IN  /\ At(p, "openfile")
        /\ IF i = 0
           THEN Goto(p, end_op(-1)) /\ UNCHANGED <<fs, ftable, ofile>>
           ELSE IF \/ Ino(fs, i).type = "dev" /\ Ino(fs, i).major \notin 0 .. NDEV - 1
                   \/ free = {} \/ fds = {}
           THEN /\ fs' = iunlock(fs, p, i)
                /\ Goto(p, iput(i) \o end_op(-1))
                /\ UNCHANGED <<ftable, ofile>>
           ELSE /\ ftable' = [ftable EXCEPT ![f] =
                     [ref |-> 1, type |-> IF Ino(fs, i).type = "dev" THEN "FD_DEVICE" ELSE "FD_INODE",
                      ip |-> i, major |-> Ino(fs, i).major, off |-> 0, readable |-> "wronly" \notin mode,
                      writable |-> mode \cap {"wronly", "rdwr"} # {}]]
                /\ ofile' = [ofile EXCEPT ![p][Min(fds)] = f]
                /\ fs' = iunlock(IF "trunc" \in mode /\ file THEN itrunc(fs, i) ELSE fs, p, i)
                /\ Goto(p, end_op(Min(fds)))
        /\ UNCHANGED <<committed, outstanding, cwd, reg, user, status, con>>

Chdir(p) ==
    LET i == reg[p].ip
        w == ilock(fs, p, i)
    IN  /\ At(p, "chdir")
        /\ IF i = 0 THEN Goto(p, end_op(-1)) /\ UNCHANGED <<fs, cwd>>
           ELSE /\ Unlocked(i)
                /\ fs' = iunlock(w, p, i)
                /\ IF Ino(w, i).type # "dir"
                   THEN Goto(p, iput(i) \o end_op(-1)) /\ UNCHANGED cwd
                   ELSE Goto(p, iput(cwd[p]) \o end_op(0)) /\ cwd' = [cwd EXCEPT ![p] = i]
        /\ UNCHANGED <<committed, outstanding, ftable, ofile, reg, user, status, con>>

(* exec up to the end of its transaction: the file is read under its lock    *)
(* and must be a program.                                                    *)
Exec(p) ==
    LET i == reg[p].ip
        w == ilock(fs, p, i)
    IN  /\ At(p, "exec")
        /\ IF i = 0 THEN Goto(p, end_op(-1)) /\ UNCHANGED fs
           ELSE /\ Unlocked(i)
                /\ fs' = iunlock(w, p, i)
                /\ Goto(p, iput(i) \o end_op(IF readi(w, i, 0, 1) = <<ELF>> THEN 0 ELSE -1))
        /\ UNCHANGED <<committed, outstanding, ftable, ofile, cwd, reg, user, status, con>>

---------------------------------------------------------------------------
(* Open files *)

Dup(p) ==
    LET f == ofile[p][Arg(p, 2)]
        fds == Fds \ OpenFds(p)
    IN  /\ At(p, "dup")
        /\ IF f = NoFile \/ fds = {}
           THEN Return(p, -1, <<>>) /\ UNCHANGED <<ofile, ftable>>
           ELSE /\ ofile' = [ofile EXCEPT ![p][Min(fds)] = f]
                /\ ftable' = [ftable EXCEPT ![f].ref = @ + 1]
                /\ Return(p, Min(fds), <<>>)
        /\ Continue(p)
        /\ UNCHANGED <<fs, committed, outstanding, cwd, user, status, con>>

Close(p) ==
    LET fd == Arg(p, 2)
        f == ofile[p][fd]
    IN  /\ At(p, "close")
        /\ IF fd \notin OpenFds(p)
           THEN Return(p, -1, <<>>) /\ Continue(p) /\ UNCHANGED <<ofile, ftable>>
           ELSE /\ ofile' = [ofile EXCEPT ![p][fd] = NoFile]
                /\ ftable' = [ftable EXCEPT ![f] = IF @.ref = 1 THEN FreeFile ELSE [@ EXCEPT !.ref = @ - 1]]
                /\ Return(p, 0, <<>>)
                /\ Goto(p, IF ftable[f].ref = 1 THEN begin_op \o iput(ftable[f].ip) \o end_op(0) ELSE <<>>)
        /\ UNCHANGED <<fs, committed, outstanding, cwd, user, status, con>>

(* sys_fstat and filestat. *)
Stat(p) ==
    LET f == ofile[p][Arg(p, 2)]
        i == ftable[f].ip
        w == ilock(fs, p, i)
    IN  /\ At(p, "stat")
        /\ IF f = NoFile THEN Return(p, -1, <<>>) /\ UNCHANGED fs
           ELSE /\ Unlocked(i)
                /\ fs' = iunlock(w, p, i)
                /\ Return(p, 0, stati(Ino(w, i)))
        /\ Continue(p)
        /\ UNCHANGED <<committed, outstanding, ftable, ofile, cwd, user, status, con>>

(* fileread and filewrite; the only device with a driver is the console. *)
(* A device that consoleinit did not enter in devsw. *)
NoDevice(f) == ftable[f].type = "FD_DEVICE" /\ ftable[f].major # CONSOLE

Read(p) ==
    LET fd == Arg(p, 2)
        f == ofile[p][fd]
        i == ftable[f].ip
        w == ilock(fs, p, i)
        r == readi(w, i, ftable[f].off, Arg(p, 3))
    IN  /\ At(p, "read")
        /\ IF fd \notin OpenFds(p) \/ ~ftable[f].readable \/ NoDevice(f)
           THEN Return(p, -1, <<>>) /\ Continue(p) /\ UNCHANGED <<fs, ftable>>
           ELSE IF ftable[f].type = "FD_DEVICE"
           THEN Goto(p, << <<"consoleread", Arg(p, 3), <<>> >> >>) /\ UNCHANGED <<fs, ftable, reg>>
           ELSE /\ Unlocked(i)
                /\ fs' = iunlock(w, p, i)
                /\ ftable' = [ftable EXCEPT ![f].off = @ + Len(r)]
                /\ Return(p, Len(r), r) /\ Continue(p)
        /\ UNCHANGED <<committed, outstanding, ofile, cwd, user, status, con>>

(* filewrite: a transaction for every MaxWrite cells. *)
Write(p) ==
    LET fd == Arg(p, 2)
        cells == Arg(p, 3)
        m == Min({Len(cells), MaxWrite})
        f == ofile[p][fd]
    IN  /\ At(p, "write")
        /\ IF fd \notin OpenFds(p) \/ ~ftable[f].writable \/ NoDevice(f)
           THEN Return(p, -1, <<>>) /\ Continue(p)
           ELSE IF ftable[f].type = "FD_DEVICE"
           THEN /\ Goto(p, consolewrite(cells))
                /\ Return(p, Len(cells), <<>>)
           ELSE /\ Goto(p, begin_op \o << <<"writei", f, SubSeq(cells, 1, m)>> >> \o end_op(Arg(p, 4))
                           \o IF m = Len(cells) THEN <<>>
                              ELSE << <<"write", fd, SubSeq(cells, m + 1, Len(cells)), Arg(p, 4)>> >>)
                /\ UNCHANGED reg
        /\ UNCHANGED <<fs, committed, outstanding, ftable, ofile, cwd, user, status, con>>

(* One block of writei, under the inode's lock. *)
WriteBlock(p) ==
    LET f == Arg(p, 2)
        cells == Arg(p, 3)
        i == ftable[f].ip
        r == writei(IF Unlocked(i) THEN ilock(fs, p, i) ELSE fs, i, ftable[f].off, cells)
    IN  /\ At(p, "writei") /\ fs.itable[i].lock \in {NoProc, p}
        /\ IF r.n <= 0
           THEN /\ fs' = iunlock(r.w, p, i)
                /\ code' = [code EXCEPT ![p] = end_op(-1) \o << <<"return">> >>]
                /\ UNCHANGED ftable
           ELSE /\ fs' = IF r.n = Len(cells) THEN iunlock(r.w, p, i) ELSE r.w
                /\ ftable' = [ftable EXCEPT ![f].off = @ + r.n]
                /\ Goto(p, IF r.n = Len(cells) THEN <<>>
                           ELSE << <<"writei", f, SubSeq(cells, r.n + 1, Len(cells))>> >>)
        /\ UNCHANGED <<committed, outstanding, ofile, cwd, reg, user, status, con>>

---------------------------------------------------------------------------
(* The console *)

fileVars == <<fs, committed, outstanding, ftable, ofile, cwd, user, status>>

(* consoleread, once round its loop with cons.lock, until it sleeps or ends. *)
ConsoleRead(p) ==
    LET got == Arg(p, 3)
        r == consoleread(con, Arg(p, 2), Len(got))
        data == got \o r.data
    IN  /\ At(p, "consoleread") /\ p \notin con.readers /\ ~ConsLocked(con)
        /\ IF r.more
           THEN /\ con' = [r.c EXCEPT !.readers = @ \cup {p}]
                /\ Goto(p, << <<"consoleread", Arg(p, 2) - Len(r.data), data>> >>)
                /\ UNCHANGED reg
           ELSE con' = r.c /\ Return(p, Len(data), data) /\ Continue(p)
        /\ UNCHANGED fileVars

(* uartputc: it sleeps while the ring is full.                               *)
UartPutc(p) ==
    /\ At(p, "uartputc") /\ con.tx_lock = "nobody" /\ p \notin con.writers
    /\ IF Full(con) THEN con' = [con EXCEPT !.writers = @ \cup {p}] /\ UNCHANGED code
       ELSE con' = [uartputc(con, Arg(p, 2)) EXCEPT !.tx_lock = "writer"] /\ Continue(p)
    /\ UNCHANGED <<reg, fileVars>>

(* Once round the loop of uartstart, up to the write to the line. *)
UartStart(p) ==
    /\ At(p, "uartstart")
    /\ IF CanStart(con) THEN con' = Taken(con) /\ Goto(p, << <<"thr", NextChar(con)>>, <<"uartstart">> >>)
       ELSE con' = [con EXCEPT !.tx_lock = "nobody"] /\ Continue(p)
    /\ UNCHANGED <<reg, fileVars>>

Thr(p) ==
    /\ At(p, "thr")
    /\ con' = Transmit(con, Arg(p, 2))
    /\ Continue(p)
    /\ UNCHANGED <<reg, fileVars>>

(* The handler, on any hart. *)
Isr(step) == ~fs.panic /\ con.isr # <<>> /\ con.isr[1][1] = step
IsrNext(c, steps) == [c EXCEPT !.isr = steps \o Tail(@)]

Handler ==
    \/ Isr("getc") /\ con' = uartgetc(con)
    \/ Isr("idle") /\ con.thr = <<>> /\ con' = IsrNext(con, <<>>)
    \/ Isr("acquire") /\ con.tx_lock = "nobody" /\ con' = IsrNext([con EXCEPT !.tx_lock = "handler"], <<>>)
    \/ Isr("start") /\ con' = IF CanStart(con)
                              THEN IsrNext(Taken(con), << <<"thr", NextChar(con)>>, <<"start">> >>)
                              ELSE IsrNext([con EXCEPT !.tx_lock = "nobody"], <<>>)
    \/ Isr("thr") /\ con' = IsrNext(Transmit(con, con.isr[1][2]), <<>>)

(* The user, the line and the interrupt. *)
Line ==
    /\ \/ UserReady(con) /\ con' = Typed(con)
       \/ con.thr # <<>> /\ con' = Sent(con)
       \/ con.irq /\ con.isr = <<>> /\ con' = Interrupted(con)
       \/ Handler
    /\ UNCHANGED <<code, reg, fileVars>>

---------------------------------------------------------------------------
(* Processes *)

(* fork: the child shares the open files and the directory. *)
Fork(p) ==
    LET c == Head(user[p])
        q == c.child
    IN  /\ At(p, "fork")
        /\ ofile' = [ofile EXCEPT ![q] = ofile[p]]
        /\ ftable' = [f \in Files |->
             [ftable[f] EXCEPT !.ref = @ + Cardinality({fd \in Fds : ofile[p][fd] = f})]]
        /\ cwd' = [cwd EXCEPT ![q] = cwd[p]]
        /\ fs' = idup(fs, cwd[p])
        /\ user' = [user EXCEPT ![q] = c.prog]
        /\ code' = [code EXCEPT ![q] = Routine(p, Head(c.prog)), ![p] = Tail(@)]
        /\ status' = [status EXCEPT ![q] = "run"]
        /\ Return(p, 0, <<>>)
        /\ UNCHANGED <<committed, outstanding, con>>

(* Only the first process has children in these programs. *)
Wait(p) ==
    /\ At(p, "wait")
    /\ \E q \in Procs :
        /\ status[q] \in {"zombie", "failed"}
        /\ Return(p, IF status[q] = "zombie" THEN 0 ELSE 1, <<>>)
        /\ status' = [status EXCEPT ![q] = "none"]
    /\ Continue(p)
    /\ UNCHANGED <<fs, committed, outstanding, ftable, ofile, cwd, user, con>>

Exited(p) ==
    /\ At(p, "exited")
    /\ status' = [status EXCEPT ![p] = Arg(p, 2)]
    /\ user' = [user EXCEPT ![p] = <<>>]
    /\ cwd' = [cwd EXCEPT ![p] = 0]
    /\ Set(p, NoRegs)
    /\ Continue(p)
    /\ UNCHANGED <<fs, committed, outstanding, ftable, ofile, con>>

(* What concreate looks for in a directory: every name, and each once. *)
NamesRead(entries, names) ==
    \A name \in names : Cardinality({k \in DOMAIN entries : entries[k][1] = name /\ entries[k][2] # 0}) = 1

(* The program looks at what the call returned and goes on to the next one,  *)
(* or fails. exec starts another program.                                    *)
Back(p) ==
    LET c == Head(user[p])
        good == /\ reg[p].val \in c.ok
                /\ "data" \in DOMAIN c => reg[p].data \in c.data
                /\ "names" \in DOMAIN c => NamesRead(reg[p].data, c.names)
        next == IF c.call = "exec" /\ reg[p].val = 0 THEN c.prog ELSE Tail(user[p])
    IN  /\ At(p, "return")
        /\ user' = [user EXCEPT ![p] = IF good THEN next ELSE <<>>]
        /\ code' = [code EXCEPT ![p] = IF good THEN Routine(p, Head(next)) ELSE exit(p, "failed")]
        /\ Set(p, [NoRegs EXCEPT !.val = reg[p].val])
        /\ UNCHANGED <<fs, committed, outstanding, ftable, ofile, cwd, status, con>>

---------------------------------------------------------------------------
(* The specification *)

(* userinit: the first process sits in the root. *)
Init ==
    /\ fs = iget(mkfs, ROOTINO) /\ committed = Disk(fs) /\ outstanding = 0
    /\ ftable = [f \in Files |-> FreeFile]
    /\ ofile = [p \in Procs |-> [fd \in Fds |-> NoFile]]
    /\ cwd = [p \in Procs |-> IF p = 1 THEN ROOTINO ELSE 0]
    /\ reg = [p \in Procs |-> NoRegs]
    /\ status = [p \in Procs |-> IF p = 1 THEN "run" ELSE "none"]
    /\ \E job \in DOMAIN Jobs :
         /\ user = [p \in Procs |-> IF p = 1 THEN Jobs[job] ELSE <<>>]
         /\ con = consoleinit(IF job \in DOMAIN Keys THEN Keys[job] ELSE <<>>)
    /\ code = [p \in Procs |-> IF p = 1 THEN Routine(p, Head(user[p])) ELSE <<>>]

Step(p) ==
    \/ Begin(p) \/ End(p) \/ Iput(p) \/ Ifree(p) \/ Unref(p) \/ Iunlock(p)
    \/ NameX(p) \/ Walk(p)
    \/ Link(p) \/ LinkDir(p) \/ LinkBad(p)
    \/ Unlink(p) \/ Erase(p) \/ Unlinked(p)
    \/ Create(p) \/ Exists(p) \/ Fill(p) \/ DirLink(p) \/ Filled(p) \/ Unfill(p) \/ Made(p)
    \/ OpenLock(p) \/ OpenFile(p) \/ Chdir(p) \/ Exec(p)
    \/ Dup(p) \/ Close(p) \/ Stat(p) \/ Read(p) \/ Write(p) \/ WriteBlock(p)
    \/ ConsoleRead(p) \/ UartPutc(p) \/ UartStart(p) \/ Thr(p)
    \/ Fork(p) \/ Wait(p) \/ Exited(p) \/ Back(p)

(* All programs have ended. *)
Done ==
    /\ \A p \in Procs : status[p] # "run"
    /\ UNCHANGED vars

Next == (\E p \in Procs : Step(p)) \/ Line \/ Done

Spec == Init /\ [][Next]_vars

---------------------------------------------------------------------------
(* Properties *)

(* No test of usertests.c fails: every call of its programs returns what the *)
(* program checks for, in every interleaving of its processes.               *)
FsTestsPass == \A p \in Procs : status[p] # "failed"

(* A disk as a file system that nobody uses. *)
Mounted(d) ==
    [dinode |-> d[1], used |-> d[2], data |-> d[3], panic |-> FALSE,
     itable |-> [i \in Inums |-> [Unreferenced EXCEPT !.ino = d[1][i]]]]
Allocated(w) == {i \in Inums : w.dinode[i].type # "none"}
Directories(w) == {i \in Inums : w.dinode[i].type = "dir"}

(* The entries that name an inode: not ".", nor the ".." of a directory that *)
(* was removed.                                                              *)
NamesOf(w, i) ==
    UNION {LET e == Entries(w, dp)
               names == {k \in DOMAIN e : e[k][2] = i /\ e[k][1] # "."
                                          /\ (e[k][1] = ".." => w.dinode[dp].nlink > 0)}
           IN  {dp} \X names : dp \in Directories(w)}

(* The disk of every commit, which is the disk after a crash at any time, is *)
(* a file system: what a linked directory names is allocated and has at      *)
(* least that many links, no name is there twice, and a block belongs to one *)
(* inode at most and is marked as used.                                      *)
DiskSound ==
    LET w == Mounted(committed)
        Blks(i) == Contents(w, w.dinode[i])
    IN  /\ \A dp \in {i \in Directories(w) : w.dinode[i].nlink > 0} :
             LET e == Entries(w, dp)
                 taken == {k \in DOMAIN e : e[k][2] # 0}
             IN  /\ \A k \in taken : e[k][2] \in Allocated(w)
                 /\ \A m, n \in taken : e[m][1] = e[n][1] => m = n
        /\ \A i \in Inums : w.dinode[i].nlink >= Cardinality(NamesOf(w, i))
        /\ \A i \in Allocated(w) : Blks(i) \subseteq w.used
        /\ \A i, j \in Allocated(w) : i # j => Blks(i) \cap Blks(j) = {}

(* A process between two calls. *)
Between(p) == code[p] = <<>> \/ (user[p] # <<>> /\ code[p] = Routine(p, Head(user[p])))

Quiet == \A p \in Procs : Between(p)

(* The open files and the processes that use an inode. *)
Users(i) ==
    Cardinality({f \in Files : ftable[f].ref > 0 /\ ftable[f].ip = i})
    + Cardinality({p \in Procs : cwd[p] = i})

(* Between calls, an inode that nothing names and nobody uses is free: iput  *)
(* frees it with its last reference, as the comment at fs.c:332 has it.      *)
LastIputFrees == Quiet => \A i \in Allocated(fs) : fs.dinode[i].nlink > 0 \/ Users(i) > 0

(* Between calls nothing is lost or left behind: every reference to an inode *)
(* or an open file has a holder, no lock is held, all is committed, a block  *)
(* is used exactly if an inode has it, an inode has as many links as names   *)
(* and is free once it has neither a name nor a user.                        *)
QuietExact ==
    Quiet =>
        /\ ~fs.panic /\ outstanding = 0 /\ committed = Disk(fs)
        /\ \A i \in Inums : Unlocked(i) /\ fs.itable[i].ref = Users(i)
        /\ \A f \in Files : ftable[f].ref = Cardinality({h \in Procs \X Fds : ofile[h[1]][h[2]] = f})
        /\ fs.used = UNION {Contents(fs, fs.dinode[i]) : i \in Allocated(fs)}
        /\ \A i \in Allocated(fs) : fs.dinode[i].nlink = Cardinality(NamesOf(Mounted(committed), i))
        /\ LastIputFrees

(* The inode whose lock the next step of a process takes, or 0. *)
Needs(p) ==
    LET step == code[p][1][1]
        FileOf(f) == IF f = NoFile THEN 0 ELSE ftable[f].ip
    IN  CASE step \in {"unlink", "create", "linkdir"} -> reg[p].dp
          [] step \in {"link", "linkbad", "erase", "exists", "fill", "openlock", "chdir", "exec"} -> reg[p].ip
          [] step = "walk" -> IF Arg(p, 2) = <<>> THEN 0 ELSE Arg(p, 4)
          [] step \in {"read", "stat"} -> IF Arg(p, 2) \in Fds THEN FileOf(ofile[p][Arg(p, 2)]) ELSE 0
          [] step = "writei" /\ fs.itable[ftable[Arg(p, 2)].ip].lock # p -> FileOf(Arg(p, 2))
          [] OTHER -> 0

(* It sleeps: for a lock, for room in the log, for the console, or for a child. *)
Sleeps(p) ==
    \/ Needs(p) # 0 /\ ~Unlocked(Needs(p))
    \/ code[p][1][1] = "begin" /\ outstanding >= MaxOps
    \/ p \in con.readers \cup con.writers
    \/ code[p][1][1] = "wait" /\ \A q \in Procs : status[q] \notin {"zombie", "failed"}

(* The processes never all wait for each other, for inode locks taken        *)
(* parent before child, for the log or for children, nor for a console that  *)
(* has nothing more to do, and the kernel does not panic. A program is       *)
(* finite, and so is what the user types, so each program ends.              *)
NeverStuck ==
    LET running == {p \in Procs : status[p] = "run"}
        console == UserReady(con) \/ con.irq \/ con.isr # <<>> \/ con.thr # <<>>
    IN  running # {} => ~fs.panic /\ (console \/ \E p \in running : ~Sleeps(p))

(* What programs write to the console goes out complete, once and in the     *)
(* order of the writes, through a ring that sleeping writers share with the  *)
(* interrupt handler, and with the echoes that take no lock in between.      *)
OutputInOrder ==
    LET Written(ch) == ch[2] >= 0
        ring == [n \in 1 .. con.tx_w - con.tx_r |-> con.tx_buf[OutSlot(con.tx_r + n - 1)]]
    IN  con.tx_lock = "nobody" => SelectSeq(con.sent \o con.thr, Written) \o ring = con.wrote
===========================================================================
