------------------------------ MODULE Bcache ------------------------------
(* The buffer cache (kernel/bio.c) with its sleep locks (kernel/sleeplock.c) *)
(* on the disk driver. A critical section of bcache.lock is one step; what a *)
(* caller does between two of them is not.                                   *)
EXTENDS Virtio, Sequences, SequencesExt

CONSTANTS
    Procs, NoProc,  \* the processes, and nobody
    NBUF,           \* the number of buffers
    NoBlock         \* the block number of a buffer that was never used

VARIABLES
    lru,    \* the buffers, the most recently used first
    hold,   \* the buffers that a process has got: block number -> buffer
    panic   \* the kernel has stopped

bcacheVars == <<disk, buf, vd, lru, hold, panic>>

Bufs == 1 .. NBUF

NewBuf == [blockno |-> NoBlock, valid |-> FALSE, refcnt |-> 0, data |-> <<>>, lock |-> NoProc,
           asleep |-> {}, disk |-> FALSE]

(* binit puts each buffer at the head of the list. *)
binit ==
    /\ buf = [i \in Bufs |-> NewBuf]
    /\ lru = [i \in Bufs |-> NBUF + 1 - i]
    /\ hold = [p \in Procs |-> <<>>]

Panic ==
    /\ panic' = TRUE
    /\ UNCHANGED <<disk, buf, vd, lru, hold>>

(* The buffers that bget may give to another block. *)
Unused_Any(i) == TRUE

Unused(i) == buf[i].refcnt = 0

(* bget up to the release of bcache.lock: the buffer of the block, or the    *)
(* least recently used one that nobody refers to.                            *)
Bget(p, b) ==
    LET cached == {i \in Bufs : buf[i].blockno = b}
        unused == {n \in Bufs : Unused(lru[n])}
        last == lru[CHOOSE n \in unused : \A l \in unused : l <= n]
        Take(i, new) ==
            /\ buf' = [buf EXCEPT ![i] = new]
            /\ hold' = [hold EXCEPT ![p] = @ @@ (b :> i)]
            /\ UNCHANGED <<disk, vd, lru, panic>>
    IN  IF cached # {}
        THEN LET i == CHOOSE i \in cached : TRUE
             IN  Take(i, [buf[i] EXCEPT !.refcnt = @ + 1])
        ELSE IF unused # {}
        THEN Take(last, [buf[last] EXCEPT !.blockno = b, !.valid = FALSE, !.refcnt = 1])
        ELSE Panic

(* The sleep lock of a buffer: its holder, and who sleeps on it. *)
holdingsleep(i, p) == buf[i].lock = p

(* acquiresleep, once round its loop: it sleeps, or takes the lock. *)
AcquireSleep(p, b) ==
    LET i == hold[p][b]
    IN  /\ buf[i].lock # NoProc /\ p \notin buf[i].asleep
        /\ buf' = [buf EXCEPT ![i].asleep = @ \cup {p}]
        /\ UNCHANGED <<disk, vd, lru, hold, panic>>

Lock(p, b) ==
    LET i == hold[p][b]
    IN  /\ buf[i].lock = NoProc /\ p \notin buf[i].asleep
        /\ buf' = [buf EXCEPT ![i].lock = p]
        /\ UNCHANGED <<disk, vd, lru, hold, panic>>

(* The steps of a transfer by the holder of the buffer, for bread, when the  *)
(* buffer is not valid, and for bwrite. Nobody else has vdisk_lock.          *)
DiskReady(p) == ~vd.handling /\ p \notin vd.waiting

StartIO(p, b, write) ==
    LET i == hold[p][b]
    IN  /\ DiskReady(p)
        /\ IF write /\ ~holdingsleep(i, p) THEN Panic
           ELSE Request(p, i, write) /\ UNCHANGED <<lru, hold, panic>>

WaitForRoom(p) == DiskReady(p) /\ NoDescriptors(p) /\ UNCHANGED <<lru, hold, panic>>

EndIO(p, b) ==
    LET i == hold[p][b]
    IN  /\ DiskReady(p)
        /\ Finish(p, i)
        /\ buf' = [buf EXCEPT ![i].valid = TRUE]
        /\ UNCHANGED <<lru, hold, panic>>

(* releasesleep wakes all who sleep on the lock. *)
releasesleep(i) == [buf EXCEPT ![i].lock = NoProc, ![i].asleep = {}]

(* brelse gives the lock back first ... *)
Releasesleep(p, b) ==
    LET i == hold[p][b]
    IN  IF ~holdingsleep(i, p) THEN Panic
        ELSE buf' = releasesleep(i) /\ UNCHANGED <<disk, vd, lru, hold, panic>>

(* ... then its reference; an unreferenced buffer becomes the most recent. *)
Unref(p, b) ==
    LET i == hold[p][b]
    IN  /\ buf' = [buf EXCEPT ![i].refcnt = @ - 1]
        /\ lru' = IF buf[i].refcnt = 1 THEN <<i>> \o Remove(lru, i) ELSE lru
        /\ hold' = [hold EXCEPT ![p] = Restrict(@, DOMAIN @ \ {b})]
        /\ UNCHANGED <<disk, vd, panic>>

(* bpin and bunpin. *)
Pinned(i, change) == [buf EXCEPT ![i].refcnt = @ + change]
===========================================================================
