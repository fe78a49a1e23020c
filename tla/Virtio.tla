------------------------------ MODULE Virtio ------------------------------
(* The disk and its driver (kernel/virtio_disk.c). A request is a chain of   *)
(* three descriptors; the device works on the requests that it was notified  *)
(* of in any order and reports the finished ones in the used ring; the       *)
(* handler of its interrupt hands the buffers back. A step is a critical     *)
(* section of vdisk_lock, but for the handler, which is two: the device may  *)
(* finish a request between the acknowledgement and the look at the ring.    *)
EXTENDS Integers, FiniteSets, FiniteSetsExt, Functions, TLC

CONSTANTS
    NUM,      \* the descriptors, and the size of the rings
    IdxSize   \* the values of a ring index (2^16), a multiple of NUM

ASSUME VirtioAssumption == NUM \in Nat /\ NUM >= 3 /\ IdxSize % NUM = 0

VARIABLES
    disk,   \* block number -> contents
    buf,    \* the buffers: [blockno, valid, refcnt, data, lock, asleep, disk]
    vd      \* the driver, the rings and the device

Descs == 0 .. NUM - 1
NoDesc == NUM

(* info: the requests by their first descriptor; busy: those the device      *)
(* works on; used, idx: the used ring, a slot that was looked at is cleared; *)
(* used_idx: how far the handler has looked; irq: the device interrupts;     *)
(* handling: the handler has the lock; waiting: who sleeps on free[0].       *)
virtio_disk_init ==
    [free |-> Descs, info |-> <<>>, busy |-> {}, used |-> [k \in Descs |-> NoDesc], idx |-> 0,
     used_idx |-> 0, irq |-> FALSE, handling |-> FALSE, waiting |-> {}]

(* The first three free descriptors. *)
alloc3_desc == {d \in vd.free : Cardinality({e \in vd.free : e < d}) < 3}

(* virtio_disk_rw until it sleeps on the buffer. Without three descriptors   *)
(* it sleeps on free[0]; giving back the one or two that it got wakes the    *)
(* others that sleep there.                                                  *)
Request(p, i, write) ==
    LET chain == alloc3_desc
        head == Min(chain)
    IN  /\ Cardinality(chain) = 3
        /\ vd' = [vd EXCEPT !.free = @ \ chain, !.busy = @ \cup {head},
                            !.info = @ @@ (head :> [buf |-> i, write |-> write, chain |-> chain])]
        /\ buf' = [buf EXCEPT ![i].disk = TRUE]
        /\ UNCHANGED disk

NoDescriptors(p) ==
    /\ Cardinality(vd.free) < 3
    /\ vd' = [vd EXCEPT !.waiting = IF vd.free = {} THEN @ \cup {p} ELSE {p}]
    /\ UNCHANGED <<disk, buf>>

(* The rest of virtio_disk_rw: free_chain wakes whoever sleeps on free[0].   *)
(* Mutants: only the first descriptor of the chain is freed; nobody is woken. *)
free_chain_Head(chain) == [vd EXCEPT !.free = @ \cup {Min(chain)}, !.waiting = {}]

free_chain_NoWakeup(chain) == [vd EXCEPT !.free = @ \cup chain]

free_chain(chain) == [vd EXCEPT !.free = @ \cup chain, !.waiting = {}]

Finish(p, i) ==
    LET h == CHOOSE h \in DOMAIN vd.info : vd.info[h].buf = i
    IN  /\ ~buf[i].disk
        /\ vd' = [free_chain(vd.info[h].chain) EXCEPT !.info = Restrict(@, DOMAIN @ \ {h})]
        /\ UNCHANGED disk

(* The device does what a request asks for, and interrupts. *)
Device(h) ==
    LET r == vd.info[h]
        b == buf[r.buf].blockno
    IN  /\ h \in vd.busy
        /\ disk' = IF r.write THEN [disk EXCEPT ![b] = buf[r.buf].data] ELSE disk
        /\ buf' = IF r.write THEN buf ELSE [buf EXCEPT ![r.buf].data = disk[b]]
        /\ vd' = [vd EXCEPT !.busy = @ \ {h}, !.used[vd.idx % NUM] = h,
                            !.idx = (@ + 1) % IdxSize, !.irq = TRUE]

(* virtio_disk_intr *)
Acknowledge ==
    /\ vd.irq /\ ~vd.handling
    /\ vd' = [vd EXCEPT !.irq = FALSE, !.handling = TRUE]
    /\ UNCHANGED <<disk, buf>>

(* The used ring from used_idx to the device's index. *)
Reported == {k \in 0 .. IdxSize - 1 : (k - vd.used_idx) % IdxSize < (vd.idx - vd.used_idx) % IdxSize}

Collect ==
    LET done == {vd.info[vd.used[k % NUM]].buf : k \in Reported}
    IN  /\ vd.handling
        /\ buf' = [i \in DOMAIN buf |-> IF i \in done THEN [buf[i] EXCEPT !.disk = FALSE] ELSE buf[i]]
        /\ vd' = [vd EXCEPT !.used = [d \in Descs |-> IF \E k \in Reported : k % NUM = d THEN NoDesc ELSE @[d]],
                            !.used_idx = (@ + Cardinality(Reported)) % IdxSize, !.handling = FALSE]
        /\ UNCHANGED disk
===========================================================================
