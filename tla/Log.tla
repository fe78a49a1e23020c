-------------------------------- MODULE Log --------------------------------
(* The file-system log (kernel/log.c) on the buffer cache: operations that   *)
(* run concurrently between begin_op and end_op, the commit by the last of   *)
(* them, a crash between any two steps, and recovery. The routines of log.c  *)
(* are sequences of steps that a process works off; a critical section of    *)
(* log.lock is one step, and sleeping on the log is explicit.                *)
EXTENDS Bcache

CONSTANTS
    Home,          \* the blocks that operations change
    OpBlocks,      \* process -> the blocks that its operation logs, in order
    Reads,         \* process -> the blocks that it reads, outside a transaction
    MAXOPBLOCKS,   \* the blocks that begin_op sets aside for an operation
    LOGSIZE,       \* the blocks that begin_op hands out
    NLOG,          \* the blocks of the log on the disk, its header included
    BootProc,      \* the process that runs fsinit
    MaxCrashes     \* bound: the crashes of a behaviour

(* The log starts at block 0; mkfs makes it LOGSIZE blocks long.             *)
Header == 0
LogBlock(tail) == tail
OnDisk == Home \cup (0 .. NLOG - 1)

ASSUME LogAssumption ==
    /\ MAXOPBLOCKS \in Nat /\ LOGSIZE \in Nat /\ NLOG \in Nat
    /\ Home \subseteq Nat /\ Home \cap (0 .. NLOG - 1) = {}
    /\ BootProc \in Procs /\ NoProc \notin Procs
    /\ \A p \in Procs : Len(OpBlocks[p]) <= MAXOPBLOCKS

VARIABLES
    log,      \* the log in memory: [lh, outstanding, committing]
    code,     \* the steps that a process has before it
    asleep,   \* the processes that sleep in begin_op
    booted,   \* recovery is done
    started,  \* the processes that have begun their operation
    crashes   \* the number of crashes so far

logVars == <<log, code, asleep, booted, started, crashes>>
vars == <<bcacheVars, logVars>>

EmptyLog == [lh |-> <<>>, outstanding |-> 0, committing |-> FALSE]

---------------------------------------------------------------------------
(* The routines. A step is its name and the blocks it is about.              *)

Bread(b) == << <<"bget", b>>, <<"lock", b>> >>
virtio_disk_rw(b, write) == << <<"start_io", b, write>>, <<"end_io", b>> >>
Bwrite(b) == virtio_disk_rw(b, TRUE)
Brelse(b) == << <<"releasesleep", b>>, <<"unref", b>> >>

(* Copy modified blocks from cache to log. *)
write_log(lh) ==
    FlattenSeq([tail \in DOMAIN lh |->
        Bread(LogBlock(tail)) \o Bread(lh[tail])
        \o << <<"memmove", LogBlock(tail), lh[tail]>> >> \o Bwrite(LogBlock(tail))
        \o Brelse(lh[tail]) \o Brelse(LogBlock(tail))])

(* Copy committed blocks from the log to their home location. *)
install_trans(lh, recovering) ==
    FlattenSeq([tail \in DOMAIN lh |->
        Bread(LogBlock(tail)) \o Bread(lh[tail])
        \o << <<"memmove", lh[tail], LogBlock(tail)>> >> \o Bwrite(lh[tail])
        \o (IF recovering THEN <<>> ELSE << <<"bunpin", lh[tail]>> >>)
        \o Brelse(LogBlock(tail)) \o Brelse(lh[tail])])

write_head == Bread(Header) \o << <<"put_head", Header>> >> \o Bwrite(Header) \o Brelse(Header)
read_head == Bread(Header) \o << <<"get_head", Header>> >> \o Brelse(Header)

commit_HeadFirst(lh) ==
    IF lh = <<>> THEN <<>>
    ELSE write_head \o write_log(lh) \o install_trans(lh, FALSE) \o << <<"clear">> >> \o write_head

commit(lh) ==
    IF lh = <<>> THEN <<>>
    ELSE write_log(lh) \o write_head \o install_trans(lh, FALSE) \o << <<"clear">> >> \o write_head

(* The header is read first; what follows depends on it. *)
recover_from_log == read_head \o << <<"replay">> >>

(* A system call: it may read blocks first, outside a transaction; then it   *)
(* reads, changes and logs one block after another.                          *)
Operation(p) ==
    FlattenSeq([i \in DOMAIN Reads[p] |-> Bread(Reads[p][i]) \o Brelse(Reads[p][i])])
    \o << <<"begin_op">> >>
    \o FlattenSeq([i \in DOMAIN OpBlocks[p] |->
          LET b == OpBlocks[p][i] IN Bread(b) \o << <<"log_write", b>> >> \o Brelse(b)])
    \o << <<"end_op">> >>

---------------------------------------------------------------------------
(* The steps *)

Init ==
    /\ disk = [b \in OnDisk |-> IF b = Header THEN <<>> ELSE <<NoProc>>]
    /\ binit
    /\ vd = virtio_disk_init
    /\ panic = FALSE
    /\ log = EmptyLog
    /\ code = [p \in Procs |-> IF p = BootProc THEN recover_from_log ELSE <<>>]
    /\ asleep = {} /\ booted = FALSE /\ started = {} /\ crashes = 0

(* The process is at the step named. *)
At(p, step) == ~panic /\ code[p] # <<>> /\ code[p][1][1] = step

Block(p) == code[p][1][2]

Goto(p, steps) == code' = [code EXCEPT ![p] = steps]
Continue(p) == Goto(p, Tail(code[p]))

(* A system call of the file system starts in an idle process. *)
Start(p) ==
    /\ booted /\ ~panic /\ code[p] = <<>> /\ p \notin started
    /\ Goto(p, Operation(p))
    /\ started' = started \cup {p}
    /\ UNCHANGED <<bcacheVars, log, asleep, booted, crashes>>

(* begin_op, once round its loop: it sleeps, or counts itself in. *)
NoRoom_IgnoresActive == Len(log.lh) + MAXOPBLOCKS > LOGSIZE

NoRoom == Len(log.lh) + (log.outstanding + 1) * MAXOPBLOCKS > LOGSIZE

BeginOp(p) ==
    /\ At(p, "begin_op") /\ p \notin asleep
    /\ IF log.committing \/ NoRoom
       THEN asleep' = asleep \cup {p} /\ UNCHANGED <<log, code>>
       ELSE /\ log' = [log EXCEPT !.outstanding = @ + 1]
            /\ Continue(p) /\ UNCHANGED asleep
    /\ UNCHANGED <<bcacheVars, booted, started, crashes>>

(* end_op up to the release of the lock: the last operation commits, another *)
(* one wakes those that wait for room.                                       *)
EndOp(p) ==
    /\ At(p, "end_op")
    /\ IF log.committing
       THEN Panic /\ UNCHANGED logVars
       ELSE /\ IF log.outstanding = 1
               THEN /\ log' = [log EXCEPT !.outstanding = 0, !.committing = TRUE]
                    /\ Goto(p, commit(log.lh) \o << <<"committed">> >>)
                    /\ UNCHANGED asleep
               ELSE /\ log' = [log EXCEPT !.outstanding = @ - 1]
                    /\ Continue(p)
                    /\ asleep' = {}
            /\ UNCHANGED <<bcacheVars, booted, started, crashes>>

(* The rest of end_op, after the commit. *)
Committed(p) ==
    /\ At(p, "committed")
    /\ log' = [log EXCEPT !.committing = FALSE]
    /\ asleep' = {}
    /\ Continue(p)
    /\ UNCHANGED <<bcacheVars, booted, started, crashes>>

(* The caller has changed the buffer; log_write records its number, unless   *)
(* it is recorded already, and pins it.                                      *)
LogWrite(p) ==
    LET b == Block(p)
        i == hold[p][b]
        new == \A l \in DOMAIN log.lh : log.lh[l] # b
        written == [buf EXCEPT ![i].data = <<p>>]
    IN  /\ At(p, "log_write")
        /\ IF Len(log.lh) >= LOGSIZE \/ Len(log.lh) >= NLOG - 1 \/ log.outstanding < 1
           THEN Panic /\ UNCHANGED logVars
           ELSE /\ buf' = [written EXCEPT ![i].refcnt = IF new THEN @ + 1 ELSE @]
                /\ log' = [log EXCEPT !.lh = IF new THEN Append(@, b) ELSE @]
                /\ Continue(p)
                /\ UNCHANGED <<disk, vd, lru, hold, panic, asleep, booted, started, crashes>>

(* memmove from the buffer of one block to the buffer of another. *)
Memmove(p) ==
    LET to == hold[p][Block(p)]
        from == hold[p][code[p][1][3]]
    IN  /\ At(p, "memmove")
        /\ buf' = [buf EXCEPT ![to].data = buf[from].data]
        /\ Continue(p)
        /\ UNCHANGED <<disk, vd, lru, hold, panic, log, asleep, booted, started, crashes>>

(* write_head fills the header's buffer from the log in memory, read_head    *)
(* does the opposite.                                                        *)
PutHead(p) ==
    /\ At(p, "put_head")
    /\ buf' = [buf EXCEPT ![hold[p][Header]].data = log.lh]
    /\ Continue(p)
    /\ UNCHANGED <<disk, vd, lru, hold, panic, log, asleep, booted, started, crashes>>

GetHead(p) ==
    /\ At(p, "get_head")
    /\ log' = [log EXCEPT !.lh = buf[hold[p][Header]].data]
    /\ Continue(p)
    /\ UNCHANGED <<bcacheVars, asleep, booted, started, crashes>>

Replay(p) ==
    /\ At(p, "replay")
    /\ Goto(p, install_trans(log.lh, TRUE) \o << <<"clear">> >> \o write_head \o << <<"recovered">> >>)
    /\ UNCHANGED <<bcacheVars, log, asleep, booted, started, crashes>>

Clear(p) ==
    /\ At(p, "clear")
    /\ log' = [log EXCEPT !.lh = <<>>]
    /\ Continue(p)
    /\ UNCHANGED <<bcacheVars, asleep, booted, started, crashes>>

Recovered(p) ==
    /\ At(p, "recovered")
    /\ booted' = TRUE
    /\ Continue(p)
    /\ UNCHANGED <<bcacheVars, log, asleep, started, crashes>>

(* The steps of the buffer cache. *)
Cache(p) ==
    /\ \/ At(p, "bget") /\ Bget(p, Block(p)) /\ Continue(p)
       \/ /\ At(p, "lock") /\ Lock(p, Block(p))
          /\ Goto(p, (IF buf[hold[p][Block(p)]].valid THEN <<>> ELSE virtio_disk_rw(Block(p), FALSE))
                     \o Tail(code[p]))
       \/ At(p, "start_io") /\ StartIO(p, Block(p), code[p][1][3]) /\ Continue(p)
       \/ At(p, "end_io") /\ EndIO(p, Block(p)) /\ Continue(p)
       \/ At(p, "releasesleep") /\ Releasesleep(p, Block(p)) /\ Continue(p)
       \/ At(p, "unref") /\ Unref(p, Block(p)) /\ Continue(p)
       \/ /\ At(p, "bunpin") /\ Continue(p)
          /\ buf' = Pinned(hold[p][Block(p)], -1)
          /\ UNCHANGED <<disk, vd, lru, hold, panic>>
    /\ UNCHANGED <<log, asleep, booted, started, crashes>>

(* A process sleeps until the holder of the buffer releases it, or until     *)
(* there are descriptors for its transfer.                                   *)
SleepOnLock(p) == At(p, "lock") /\ AcquireSleep(p, Block(p)) /\ UNCHANGED logVars
SleepOnRoom(p) == At(p, "start_io") /\ WaitForRoom(p) /\ UNCHANGED logVars

(* The steps of the disk. *)
Disk ==
    /\ ~panic
    /\ \/ \E h \in vd.busy : Device(h)
       \/ Acknowledge
       \/ Collect
    /\ UNCHANGED <<lru, hold, panic, logVars>>

(* The machine stops and starts again: the disk is what is left. Before the  *)
(* first operation that would be the initial state again.                    *)
Crash ==
    /\ crashes < MaxCrashes /\ ~panic /\ started # {}
    /\ crashes' = crashes + 1
    /\ buf' = [i \in Bufs |-> NewBuf]
    /\ lru' = [i \in Bufs |-> NBUF + 1 - i]
    /\ hold' = [p \in Procs |-> <<>>]
    /\ vd' = virtio_disk_init
    /\ log' = EmptyLog
    /\ code' = [p \in Procs |-> IF p = BootProc THEN recover_from_log ELSE <<>>]
    /\ asleep' = {} /\ booted' = FALSE
    /\ UNCHANGED <<disk, panic, started>>

Step(p) ==
    \/ BeginOp(p) \/ EndOp(p) \/ Committed(p) \/ LogWrite(p) \/ Memmove(p) \/ PutHead(p)
    \/ GetHead(p) \/ Replay(p) \/ Clear(p) \/ Recovered(p) \/ Cache(p)
    \/ SleepOnLock(p) \/ SleepOnRoom(p)

Work == (\E p \in Procs : Step(p)) \/ Disk

Next == Work \/ (\E p \in Procs : Start(p)) \/ Crash

(* Something happens as long as a process can run or the disk has work to    *)
(* do; nothing makes a program call the file system, or the machine crash.   *)
Spec == Init /\ [][Next]_vars /\ WF_vars(Work)

---------------------------------------------------------------------------
(* Properties *)

(* What recovery would make of the disk: the blocks named in the header on   *)
(* the disk come from the log, the last one counts.                          *)
Stable ==
    [b \in Home |->
        LET logged == {t \in DOMAIN disk[Header] : disk[Header][t] = b}
        IN  IF logged = {} THEN disk[b]
            ELSE disk[LogBlock(CHOOSE t \in logged : \A u \in logged : u <= t)]]

(* What a process that reads a block now gets. *)
View ==
    IF ~booted THEN Stable
    ELSE [b \in Home |->
            LET cached == {i \in Bufs : buf[i].blockno = b /\ buf[i].valid}
            IN  IF cached = {} THEN disk[b] ELSE buf[CHOOSE i \in cached : TRUE].data]

Atomic ==
    INSTANCE AtomicDisk WITH
        Home <- Home, Contents <- {<<p>> : p \in Procs \cup {NoProc}},
        stable <- Stable, view <- View,
        active <- log.outstanding, saving <- log.committing

(* The log implements an atomic disk: what a crash would leave changes only  *)
(* when no operation is in progress, and then to the whole of what they      *)
(* wrote (log.c:193); it is all saved before the next operation begins; and  *)
(* a cached change is never lost or seen late, whatever block the buffer     *)
(* cache recycles.                                                           *)
ImplementsAtomicDisk == Atomic!Spec

(* The kernel does not panic: begin_op admits no more operations than the    *)
(* log on the disk has room for (log.c:133, 221), a buffer is free whenever  *)
(* bget needs one (bio.c:88), the locks are given back by their holders.     *)
NoPanic == ~panic

(* The blocks of the log in memory are pinned until they are installed.      *)
PinnedBlock(b) ==
    /\ \E t \in DOMAIN log.lh : log.lh[t] = b
    /\ log.committing =>
          \E p \in Procs : \E n \in DOMAIN code[p] : code[p][n] = <<"bunpin", b>>

(* Two buffers never hold one block, and a buffer's count is the number of   *)
(* processes that have got it, plus one while the log has its block pinned.  *)
RefcntExact ==
    \A i \in Bufs :
        /\ buf[i].blockno # NoBlock => \A j \in Bufs \ {i} : buf[j].blockno # buf[i].blockno
        /\ buf[i].refcnt = Cardinality({p \in Procs : \E b \in DOMAIN hold[p] : hold[p][b] = i})
                           + (IF booted /\ PinnedBlock(buf[i].blockno) THEN 1 ELSE 0)

(* The descriptors are free or belong to one request, whose buffer is        *)
(* locked; and a buffer is with the disk exactly until its request has been  *)
(* reported and looked at (virtio_disk.c:202, 289, 312).                     *)
DescriptorsExact ==
    LET heads == DOMAIN vd.info
        Pending(h) == h \in vd.busy \/ \E k \in Descs : vd.used[k] = h
    IN  /\ Cardinality(vd.free) + 3 * Cardinality(heads) = NUM
        /\ \A h \in heads :
             /\ vd.info[h].chain \cap vd.free = {}
             /\ buf[vd.info[h].buf].lock # NoProc
             /\ buf[vd.info[h].buf].disk <=> Pending(h)
             /\ \A g \in heads \ {h} :
                  vd.info[g].chain \cap vd.info[h].chain = {} /\ vd.info[g].buf # vd.info[h].buf
        /\ \A i \in Bufs : buf[i].disk => \E h \in heads : vd.info[h].buf = i

(* Again and again no process is in a file-system call, so every call        *)
(* returns: whoever sleeps in begin_op is woken when there is room           *)
(* (log.c:155, 168), whoever waits for descriptors or for the disk when the  *)
(* interrupt comes (virtio_disk.c:232, 285), and the commit and recovery     *)
(* come to their end.                                                        *)
CallsReturn == []<>(\A p \in Procs : code[p] = <<>>)
===========================================================================
