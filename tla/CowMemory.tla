----------------------------- MODULE CowMemory ------------------------------
(***************************************************************************)
(* Copy-on-write user memory of the xv6 kernel: the page allocator with    *)
(* its reference counts (kalloc.c), fork's sharing of pages and the calls  *)
(* that give pages back (vm.c), and the page-fault handler (trap.c).       *)
(*                                                                         *)
(* Every process runs on its own CPU; what a process does under            *)
(* ref_page_lock or kmem.lock is one step, and so is what it does to its   *)
(* own page table, which nobody else looks at.  Only frames that hold user *)
(* pages are modelled.  Page tables, trapframes and pipes come from the    *)
(* same allocator, so kalloc may fail at any time.                         *)
(***************************************************************************)
EXTENDS Integers, FiniteSets

CONSTANTS
    Procs,          \* process slots
    Frames,         \* physical page frames
    NoFrame,        \* the target of an invalid PTE
    NPAGES,         \* most pages of a process
    TEXT,           \* pages 0 .. TEXT - 1 are program text, mapped without PTE_W
    IMAGE,          \* pages of the first process
    Buffers,        \* the pages that system calls are given as destination
    Vals, Zero, Junk    \* contents of a page: user data, zeroes, memset junk

VPages == 0 .. NPAGES - 1

ASSUME ConstantsAssumption ==
    /\ IsFiniteSet(Procs)
    /\ NoFrame \notin Frames
    /\ NPAGES \in Nat
    /\ TEXT \in Nat
    /\ IMAGE \in 0 .. NPAGES
    /\ Buffers \subseteq VPages
    /\ Zero \in Vals
    /\ Junk \notin Vals

VARIABLES
    pc,         \* where the process is: in user mode, in a call, zombie, ...
    k,          \* the local variables of its call
    sz,         \* p->sz, in pages
    pt,         \* page tables
    ref,        \* reference_counter
    free,       \* kmem.freelist
    mem,        \* contents of the frames
    panicked

vars == <<pc, k, sz, pt, ref, free, mem, panicked>>

(* op: the call whose pages are allocated or freed; va: the page it is at;   *)
(* end: where its uvmunmap loop stops; arg: the size that sbrk asks for;     *)
(* new: what kalloc returned; old: what kfree was called with; child: the    *)
(* process that fork is building.                                            *)
NoLocals(p) == [op |-> "none", va |-> 0, end |-> 0, arg |-> 0,
                new |-> NoFrame, old |-> NoFrame, child |-> p]

Unmapped == [pa |-> NoFrame, w |-> FALSE, cow |-> FALSE]
PTE == [pa : Frames \cup {NoFrame}, w : BOOLEAN, cow : BOOLEAN]

(* kinit has freed every page (count 1 to 0) and the first program has been *)
(* loaded: its text pages are not writable.                                 *)
Init ==
    \E first \in Procs, frame \in [0 .. IMAGE - 1 -> Frames] :
        /\ \A i, j \in 0 .. IMAGE - 1 : frame[i] = frame[j] => i = j
        /\ pc = [p \in Procs |-> IF p = first THEN "user" ELSE "unused"]
        /\ sz = [p \in Procs |-> IF p = first THEN IMAGE ELSE 0]
        /\ pt = [p \in Procs |-> [v \in VPages |->
                    IF p = first /\ v < IMAGE
                    THEN [pa |-> frame[v], w |-> v >= TEXT, cow |-> FALSE]
                    ELSE Unmapped]]
        /\ ref = [f \in Frames |-> IF \E v \in 0 .. IMAGE - 1 : frame[v] = f THEN 1 ELSE 0]
        /\ free = {f \in Frames : \A v \in 0 .. IMAGE - 1 : frame[v] # f}
        /\ mem = [f \in Frames |-> IF \E v \in 0 .. IMAGE - 1 : frame[v] = f THEN Zero ELSE Junk]
        /\ k = [p \in Procs |-> NoLocals(p)]
        /\ panicked = FALSE

(* p goes on at a label, or returns from its call and its locals are gone. *)
Goto(p, label) == pc' = [pc EXCEPT ![p] = label]
Return(p, label) == Goto(p, label) /\ k' = [k EXCEPT ![p] = NoLocals(p)]

-----------------------------------------------------------------------------
(* User mode                                                               *)

UserWrite(p, v, x) ==
    /\ pc[p] = "user"
    /\ pt[p][v].w
    /\ mem' = [mem EXCEPT ![pt[p][v].pa] = x]
    /\ UNCHANGED <<pc, k, sz, pt, ref, free, panicked>>

(* exit(), or the end of a killed process: any access that is neither legal *)
(* nor a copy-on-write fault ends here.  The memory stays until wait().     *)
Exit(p) ==
    /\ pc[p] = "user"
    /\ Return(p, "zombie")
    /\ UNCHANGED <<sz, pt, ref, free, mem, panicked>>

-----------------------------------------------------------------------------
(* kalloc, in the two steps its two locks make, and the calls that need it  *)

StartAlloc(p, o, v, n) ==
    /\ Goto(p, "alloc")
    /\ k' = [k EXCEPT ![p].op = o, ![p].va = v, ![p].arg = n]

(* usertrap on a copy-on-write page (iscowpage).  The count is read under   *)
(* ref_page_lock; a page nobody shares is made writable again.              *)
PageFault(p, v) ==
    /\ pc[p] = "user"
    /\ v < sz[p]
    /\ pt[p][v].cow
    /\ LET count == ref[pt[p][v].pa] IN
       \/ /\ count > 1
          /\ StartAlloc(p, "fault", v, 0)
          /\ UNCHANGED pt
       \/ /\ count = 1
          /\ pt' = [pt EXCEPT ![p][v].w = TRUE, ![p][v].cow = FALSE]
          /\ UNCHANGED <<pc, k>>
       \/ /\ count <= 0
          /\ Return(p, "zombie")
          /\ UNCHANGED pt
    /\ UNCHANGED <<sz, ref, free, mem, panicked>>

(* Mutation: copyout as it was before copy-on-write. *)
CopyOut_IgnoresCow(p, v, x) ==
    /\ pc[p] = "user"
    /\ v \in Buffers
    /\ pt[p][v].pa # NoFrame
    /\ mem' = [mem EXCEPT ![pt[p][v].pa] = x]
    /\ UNCHANGED <<pc, k, sz, pt, ref, free, panicked>>

(* copyout to one page, called by read, wait, fstat, pipe, ...: a           *)
(* copy-on-write page is copied first, whether it is shared or not; any     *)
(* other valid page is written as it is.                                    *)
CopyOut(p, v, x) ==
    /\ pc[p] = "user"
    /\ v \in Buffers
    /\ pt[p][v].pa # NoFrame
    /\ \/ /\ pt[p][v].cow
          /\ ref[pt[p][v].pa] > 0
          /\ StartAlloc(p, "copyout", v, 0)
          /\ UNCHANGED mem
       \/ /\ ~pt[p][v].cow
          /\ mem' = [mem EXCEPT ![pt[p][v].pa] = x]
          /\ UNCHANGED <<pc, k>>
    /\ UNCHANGED <<sz, pt, ref, free, panicked>>

(* growproc(n) for n > 0: uvmalloc. *)
SbrkGrow(p, n) ==
    /\ pc[p] = "user"
    /\ n \in sz[p] + 1 .. NPAGES
    /\ StartAlloc(p, "grow", sz[p], n)
    /\ UNCHANGED <<sz, pt, ref, free, mem, panicked>>

(* The first half of kalloc: a frame leaves the free list. *)
KallocPop(p, f) ==
    /\ pc[p] = "alloc"
    /\ f \in free
    /\ free' = free \ {f}
    /\ k' = [k EXCEPT ![p].new = f]
    /\ mem' = [mem EXCEPT ![f] = Junk]
    /\ Goto(p, "count")
    /\ UNCHANGED <<sz, pt, ref, panicked>>

(* The second half: its reference count becomes 1. *)
KallocCount(p) ==
    /\ pc[p] = "count"
    /\ ref' = [ref EXCEPT ![k[p].new] = 1]
    /\ Goto(p, IF k[p].op = "grow" THEN "fill" ELSE "move")
    /\ UNCHANGED <<k, sz, pt, free, mem, panicked>>

(* uvmunmap(from, to - from pages, do_free) on behalf of o. *)
StartUnmap(p, o, from, to) ==
    /\ Goto(p, "check")
    /\ k' = [k EXCEPT ![p].op = o, ![p].va = from, ![p].end = to]

(* Mutation: uvmalloc leaves the pages it has mapped. *)
UndoGrow_Forgets(p, v) == Return(p, "user")

(* uvmdealloc(v, sz) at the end of an unsuccessful uvmalloc. *)
UndoGrow(p, v) ==
    IF v > sz[p] THEN StartUnmap(p, "undo", sz[p], v) ELSE Return(p, "user")

(* Mutation: no memory, no progress. *)
KallocFails_Retries(p) == pc[p] = "alloc" /\ UNCHANGED vars

(* kalloc returns 0: the fault kills the process, copyout returns -1,       *)
(* uvmalloc undoes what it has done.                                        *)
KallocFails(p) ==
    /\ pc[p] = "alloc"
    /\ \/ k[p].op = "fault"   /\ Return(p, "zombie")
       \/ k[p].op = "copyout" /\ Return(p, "user")
       \/ k[p].op = "grow"    /\ UndoGrow(p, k[p].va)
    /\ UNCHANGED <<sz, pt, ref, free, mem, panicked>>

(* Mutation: the new page is mapped without the memmove. *)
CopyPage_Forgotten(p) ==
    /\ pc[p] = "move"
    /\ StartUnmap(p, k[p].op, k[p].va, k[p].va + 1)
    /\ UNCHANGED <<sz, pt, ref, free, mem, panicked>>

(* memmove of the shared page into the new one, then uvmunmap of the old. *)
CopyPage(p) ==
    /\ pc[p] = "move"
    /\ mem' = [mem EXCEPT ![k[p].new] = mem[pt[p][k[p].va].pa]]
    /\ StartUnmap(p, k[p].op, k[p].va, k[p].va + 1)
    /\ UNCHANGED <<sz, pt, ref, free, panicked>>

(* mappages of the copy, writable and no longer copy-on-write.  The         *)
(* page-table page is there, so it cannot fail.  copyout then writes.       *)
MapCopy(p, x) ==
    /\ pc[p] = "map"
    /\ pt' = [pt EXCEPT ![p][k[p].va] = [pa |-> k[p].new, w |-> TRUE, cow |-> FALSE]]
    /\ mem' = IF k[p].op = "copyout" THEN [mem EXCEPT ![k[p].new] = x] ELSE mem
    /\ Return(p, "user")
    /\ UNCHANGED <<sz, ref, free, panicked>>

(* uvmalloc's memset and mappages for one more page, and growproc's new size *)
(* after the last one.                                                       *)
FillPage(p) ==
    /\ pc[p] = "fill"
    /\ mem' = [mem EXCEPT ![k[p].new] = Zero]
    /\ pt' = [pt EXCEPT ![p][k[p].va] = [pa |-> k[p].new, w |-> TRUE, cow |-> FALSE]]
    /\ IF k[p].va + 1 = k[p].arg
       THEN /\ sz' = [sz EXCEPT ![p] = k[p].arg]
            /\ Return(p, "user")
       ELSE /\ StartAlloc(p, "grow", k[p].va + 1, k[p].arg)
            /\ UNCHANGED sz
    /\ UNCHANGED <<ref, free, panicked>>

(* mappages finds no memory for a page-table page: uvmalloc calls           *)
(* kfree(mem) before it undoes the rest.                                    *)
FillFails(p) ==
    /\ pc[p] = "fill"
    /\ mem' = [mem EXCEPT ![k[p].new] = Zero]
    /\ StartUnmap(p, "discard", k[p].va, k[p].va + 1)
    /\ UNCHANGED <<sz, pt, ref, free, panicked>>

-----------------------------------------------------------------------------
(* kfree, in its three critical sections, and the uvmunmap loop around it  *)

(* growproc(n) for n < 0: uvmdealloc. *)
SbrkShrink(p, n) ==
    /\ pc[p] = "user"
    /\ n \in 0 .. sz[p] - 1
    /\ Goto(p, "check")
    /\ k' = [k EXCEPT ![p].op = "shrink", ![p].va = n, ![p].end = sz[p], ![p].arg = n]
    /\ UNCHANGED <<sz, pt, ref, free, mem, panicked>>

(* wait() by the parent, or by init, finds the zombie: freeproc, uvmfree. *)
Reap(p) ==
    /\ pc[p] = "zombie"
    /\ IF sz[p] > 0 THEN StartUnmap(p, "freeproc", 0, sz[p]) ELSE Return(p, "unused")
    /\ UNCHANGED <<sz, pt, ref, free, mem, panicked>>

(* The frame that kfree is called with. *)
Victim(p) == IF k[p].op = "discard" THEN k[p].new ELSE pt[p][k[p].va].pa

(* The count is tested, and ref_page_lock released again. *)
KfreeCheck(p) ==
    /\ pc[p] = "check"
    /\ IF ref[Victim(p)] <= 0
       THEN panicked' = TRUE /\ UNCHANGED pc
       ELSE Goto(p, "drop") /\ UNCHANGED panicked
    /\ UNCHANGED <<k, sz, pt, ref, free, mem>>

(* Mutation: kfree puts the page on the free list although it is shared. *)
KfreeDrop_Always(p) ==
    /\ pc[p] = "drop"
    /\ ref' = [ref EXCEPT ![Victim(p)] = @ - 1]
    /\ pt' = [pt EXCEPT ![p][k[p].va] = Unmapped]
    /\ k' = [k EXCEPT ![p].old = Victim(p)]
    /\ Goto(p, "push")
    /\ UNCHANGED <<sz, free, mem, panicked>>

(* The count is taken down, and the frame of the last reference is filled   *)
(* with junk.  At 0 the code does nothing and never releases the lock: this *)
(* action is disabled.  uvmunmap clears the PTE when kfree returns (there   *)
(* is none when uvmalloc discards its page).                                *)
KfreeDrop(p) ==
    /\ pc[p] = "drop"
    /\ ref[Victim(p)] > 0
    /\ ref' = [ref EXCEPT ![Victim(p)] = @ - 1]
    /\ pt' = [pt EXCEPT ![p][k[p].va] = Unmapped]
    /\ k' = [k EXCEPT ![p].old = Victim(p)]
    /\ IF ref[Victim(p)] = 1
       THEN /\ mem' = [mem EXCEPT ![Victim(p)] = Junk]
            /\ Goto(p, "push")
       ELSE /\ Goto(p, "freed")
            /\ UNCHANGED mem
    /\ UNCHANGED <<sz, free, panicked>>

(* The frame goes back on the free list. *)
KfreePush(p) ==
    /\ pc[p] = "push"
    /\ free' = free \cup {k[p].old}
    /\ Goto(p, "freed")
    /\ UNCHANGED <<k, sz, pt, ref, mem, panicked>>

(* The next page of the loop. *)
NextPage(p) ==
    /\ pc[p] = "freed"
    /\ k[p].va + 1 < k[p].end
    /\ StartUnmap(p, k[p].op, k[p].va + 1, k[p].end)
    /\ UNCHANGED <<sz, pt, ref, free, mem, panicked>>

-----------------------------------------------------------------------------
(* fork                                                                     *)

(* allocproc has found a free slot and the memory for it. *)
Fork(p, c) ==
    /\ pc[p] = "user"
    /\ pc[c] = "unused"
    /\ pc' = [pc EXCEPT ![p] = "fork", ![c] = "embryo"]
    /\ k' = [k EXCEPT ![p].child = c]
    /\ UNCHANGED <<sz, pt, ref, free, mem, panicked>>

(* What uvmcopy makes of a PTE: a writable page becomes copy-on-write. *)
Shared(pte) == IF pte.w THEN [pte EXCEPT !.w = FALSE, !.cow = TRUE] ELSE pte

(* Mutation: uvmcopy does not count the child's reference. *)
ForkPage_NoCount(p) ==
    /\ pc[p] = "fork"
    /\ k[p].va < sz[p]
    /\ LET pte == Shared(pt[p][k[p].va]) IN
       pt' = [pt EXCEPT ![p][k[p].va] = pte, ![k[p].child][k[p].va] = pte]
    /\ k' = [k EXCEPT ![p].va = @ + 1]
    /\ UNCHANGED <<pc, sz, ref, free, mem, panicked>>

(* Mutation: the parent's PTE stays writable. *)
ForkPage_ChildOnly(p) ==
    /\ pc[p] = "fork"
    /\ k[p].va < sz[p]
    /\ LET pte == Shared(pt[p][k[p].va]) IN
       /\ pt' = [pt EXCEPT ![k[p].child][k[p].va] = pte]
       /\ ref' = [ref EXCEPT ![pte.pa] = @ + 1]
    /\ k' = [k EXCEPT ![p].va = @ + 1]
    /\ UNCHANGED <<pc, sz, free, mem, panicked>>

(* One page of uvmcopy: parent and child share it. *)
ForkPage(p) ==
    /\ pc[p] = "fork"
    /\ k[p].va < sz[p]
    /\ LET pte == Shared(pt[p][k[p].va]) IN
       /\ pt' = [pt EXCEPT ![p][k[p].va] = pte, ![k[p].child][k[p].va] = pte]
       /\ ref' = [ref EXCEPT ![pte.pa] = @ + 1]
    /\ k' = [k EXCEPT ![p].va = @ + 1]
    /\ UNCHANGED <<pc, sz, free, mem, panicked>>

(* mappages fails: the pages shared so far are given back and freeproc      *)
(* clears the slot, while the parent waits.  The parent's pages stay        *)
(* copy-on-write.                                                           *)
ForkFails(p) ==
    /\ pc[p] = "fork"
    /\ k[p].va < sz[p]
    /\ pt' = [pt EXCEPT ![p][k[p].va] = Shared(@)]
    /\ IF k[p].va = 0
       THEN /\ pc' = [pc EXCEPT ![p] = "user", ![k[p].child] = "unused"]
            /\ k' = [k EXCEPT ![p] = NoLocals(p)]
       ELSE /\ pc' = [pc EXCEPT ![p] = "unfork", ![k[p].child] = "check"]
            /\ k' = [k EXCEPT ![k[p].child].op = "freeproc", ![k[p].child].end = k[p].va]
    /\ UNCHANGED <<sz, ref, free, mem, panicked>>

(* The child has its size and is made RUNNABLE. *)
ForkReturns(p) ==
    /\ pc[p] = "fork"
    /\ k[p].va = sz[p]
    /\ sz' = [sz EXCEPT ![k[p].child] = sz[p]]
    /\ pc' = [pc EXCEPT ![p] = "user", ![k[p].child] = "user"]
    /\ k' = [k EXCEPT ![p] = NoLocals(p)]
    /\ UNCHANGED <<pt, ref, free, mem, panicked>>

(* The failed fork returns -1 once freeproc(np) is done. *)
Unforking(p, c) == pc[p] = "unfork" /\ k[p].child = c

-----------------------------------------------------------------------------
(* uvmunmap returns to the call that asked for it.                          *)
UnmapReturns(p) ==
    /\ pc[p] = "freed"
    /\ k[p].va + 1 = k[p].end
    /\ \/ /\ k[p].op \in {"fault", "copyout"}
          /\ Goto(p, "map")
          /\ UNCHANGED <<k, sz>>
       \/ /\ k[p].op = "discard"
          /\ UndoGrow(p, k[p].va)
          /\ UNCHANGED sz
       \/ /\ k[p].op = "undo"
          /\ Return(p, "user")
          /\ UNCHANGED sz
       \/ /\ k[p].op = "shrink"
          /\ sz' = [sz EXCEPT ![p] = k[p].arg]
          /\ Return(p, "user")
       \/ /\ k[p].op = "freeproc"
          /\ sz' = [sz EXCEPT ![p] = 0]
          /\ pc' = [q \in Procs |-> IF q = p THEN "unused"
                                    ELSE IF Unforking(q, p) THEN "user" ELSE pc[q]]
          /\ k' = [q \in Procs |-> IF q = p \/ Unforking(q, p) THEN NoLocals(q) ELSE k[q]]
    /\ UNCHANGED <<pt, ref, free, mem, panicked>>

-----------------------------------------------------------------------------
Step(p) ==
    \/ KallocCount(p) \/ KallocFails(p) \/ CopyPage(p) \/ FillPage(p) \/ FillFails(p)
    \/ Exit(p) \/ Reap(p)
    \/ KfreeCheck(p) \/ KfreeDrop(p) \/ KfreePush(p) \/ NextPage(p) \/ UnmapReturns(p)
    \/ ForkPage(p) \/ ForkFails(p) \/ ForkReturns(p)
    \/ \E f \in Frames : KallocPop(p, f)
    \/ \E v \in VPages : PageFault(p, v)
    \/ \E v \in VPages, x \in Vals : UserWrite(p, v, x) \/ CopyOut(p, v, x)
    \/ \E x \in Vals : MapCopy(p, x)
    \/ \E n \in 0 .. NPAGES : SbrkGrow(p, n) \/ SbrkShrink(p, n)
    \/ \E c \in Procs : Fork(p, c)

(* Every process has ended. *)
Halted == (\A p \in Procs : pc[p] = "unused") /\ UNCHANGED vars

Next == (~panicked /\ \E p \in Procs : Step(p)) \/ Halted

Spec == Init /\ [][Next]_vars

(* A call that has been started goes on: the scheduler is preemptive and     *)
(* round-robin, and the two locks are held for a few instructions only.      *)
Idle == {"user", "zombie", "unused", "embryo", "unfork"}
Fairness == \A p \in Procs : WF_vars(~panicked /\ pc[p] \notin Idle /\ Step(p))
FairSpec == Spec /\ Fairness

-----------------------------------------------------------------------------
(* Properties                                                               *)

Labels == Idle \cup {"alloc", "count", "move", "fill", "map", "check", "drop",
                     "push", "freed", "fork"}
Ops == {"none", "fault", "copyout", "grow", "discard", "undo", "shrink", "freeproc"}
Locals == [op : Ops, va : Nat, end : Nat, arg : Nat,
           new : Frames \cup {NoFrame}, old : Frames \cup {NoFrame}, child : Procs]

(* Shape of the state: reference_counter is never negative. *)
TypeOK ==
    /\ pc \in [Procs -> Labels]
    /\ k \in [Procs -> Locals]
    /\ sz \in [Procs -> 0 .. NPAGES]
    /\ pt \in [Procs -> [VPages -> PTE]]
    /\ ref \in [Frames -> Nat]
    /\ free \in SUBSET Frames
    /\ mem \in [Frames -> Vals \cup {Junk}]
    /\ panicked \in BOOLEAN

(* The references to frames are the page-table entries, and the pointer     *)
(* `new_page' or `mem' (slot HELD) of a call that has not mapped or freed   *)
(* its new frame yet.                                                       *)
HELD == -1
Slots == Procs \X (VPages \cup {HELD})

Holding(p) ==
    \/ pc[p] \in {"move", "fill"}
    \/ pc[p] \in {"check", "drop", "push", "freed", "map"} /\ k[p].op \in {"fault", "copyout"}
    \/ pc[p] \in {"check", "drop"} /\ k[p].op = "discard"

Target(s) ==
    IF s[2] # HELD THEN pt[s[1]][s[2]].pa
    ELSE IF Holding(s[1]) THEN k[s[1]].new ELSE NoFrame

Refs(f) == {s \in Slots : Target(s) = f}

(* The count of a frame is the number of references to it, at every moment  *)
(* between the critical sections of kalloc, kfree, uvmcopy and the          *)
(* page-fault handler.                                                      *)
CountsExact == \A f \in Frames : ref[f] = Cardinality(Refs(f))

(* The calls that hold a frame without a reference: kalloc before it sets   *)
(* the count, kfree after it has cleared it.                                *)
Carriers(f) == {p \in Procs : (pc[p] = "count" /\ k[p].new = f) \/ (pc[p] = "push" /\ k[p].old = f)}

(* No frame is lost, handed out twice or freed while it is in use: a frame  *)
(* is on the free list, or has a positive count, or is carried by exactly   *)
(* one call, and never two of these.                                        *)
NoFrameLost ==
    \A f \in Frames :
        /\ f \in free => ref[f] = 0
        /\ Cardinality(Carriers(f)) = IF f \in free \/ ref[f] > 0 THEN 0 ELSE 1

(* A page that a process can write without a fault is its own: the          *)
(* page-fault handler gives PTE_W to sole owners only, also when the count  *)
(* it read has changed since, and uvmcopy takes PTE_W away from both.       *)
WritableIsPrivate ==
    \A s, t \in Slots :
        s[2] # HELD /\ pt[s[1]][s[2]].w /\ Target(t) = Target(s) => s = t

(* kfree's two critical sections agree: it neither panics ("decrementing    *)
(* freed page") nor finds the count at 0 the second time, which would leave *)
(* ref_page_lock held for ever.                                             *)
KfreeIsSafe ==
    /\ ~panicked
    /\ \A p \in Procs : pc[p] = "drop" => ref[Victim(p)] > 0

(* The pages below the size of a process that is not inside sbrk are        *)
(* present and those above are not: uvmunmap ("not mapped"), uvmcopy        *)
(* ("page not present"), mappages ("remap") and freewalk ("leaf") never     *)
(* panic.                                                                   *)
SizeIsMapped ==
    \A p \in Procs : pc[p] \in {"user", "zombie", "fork"} =>
        \A v \in VPages : (pt[p][v].pa # NoFrame) <=> (v < sz[p])

(* A frame that is shared is not written: whoever wants to write it gets a  *)
(* copy first, in the page-fault handler or in copyout ("If either process  *)
(* attempts to write to a shared page, a new copy of that page is created", *)
(* root README).                                                            *)
SharedIsKept == [][\A f \in Frames : ref[f] > 1 => mem'[f] = mem[f]]_vars

(* Every call comes to its end. *)
CallsReturn == \A p \in Procs : pc[p] \notin Idle ~> pc[p] \in {"user", "zombie", "unused"}

-----------------------------------------------------------------------------
(* What fork promises, whoever shares what: a memory of one's own.          *)

Live(p) == pc[p] \notin {"zombie", "unused", "embryo"} /\ k[p].op # "freeproc"
Size(p) == IF k[p].op = "shrink" THEN k[p].arg ELSE sz[p]
FrameOf(p, v) == IF pt[p][v].pa = NoFrame THEN k[p].new ELSE pt[p][v].pa

Private == INSTANCE PrivateMemory WITH
    live <- {p \in Procs : Live(p)},
    view <- [p \in Procs |-> IF Live(p) THEN [v \in 0 .. Size(p) - 1 |-> mem[FrameOf(p, v)]]
                             ELSE [v \in {} |-> Zero]]

(* Copy-on-write is invisible: processes behave as if fork had copied the   *)
(* memory, and what one of them or the kernel on its behalf writes, no      *)
(* other one sees.                                                          *)
ImplementsPrivate == Private!Spec

-----------------------------------------------------------------------------
(* The inductive invariant behind the safety properties.                    *)

Mapped(p, v) == pt[p][v].pa # NoFrame
Looping(p) == pc[p] \in {"check", "drop", "push", "freed"}
Copying(p) == k[p].op \in {"fault", "copyout"}

(* The pages that an uvmunmap loop has still before it. *)
ToGo(p, v) ==
    /\ k[p].va <= v /\ v < k[p].end
    /\ pc[p] \in {"check", "drop"} \/ k[p].va # v

(* The pages of p that should be mapped. *)
Present(p, v) ==
    IF Looping(p) \/ pc[p] = "map"
    THEN \/ Copying(p) /\ v < sz[p] /\ (v # k[p].va \/ ToGo(p, v))
         \/ k[p].op = "discard" /\ v < k[p].va
         \/ k[p].op = "undo" /\ (v < sz[p] \/ ToGo(p, v))
         \/ k[p].op = "shrink" /\ (v < k[p].arg \/ ToGo(p, v))
         \/ k[p].op = "freeproc" /\ ToGo(p, v)
    ELSE v < IF k[p].op = "grow" THEN k[p].va ELSE sz[p]

MapOK(p) == pc[p] # "embryo" => \A v \in VPages : Mapped(p, v) <=> Present(p, v)

(* Where the call is, and what its locals are good for there. *)
CallOK(p) ==
    /\ pc[p] \in {"user", "zombie", "unused", "embryo"} => k[p] = NoLocals(p)
    /\ pc[p] \in {"unused", "embryo"} => sz[p] = 0
    /\ pc[p] \in {"fork", "unfork"} => k[p].op = "none" /\ k[p].va <= sz[p]
    /\ pc[p] \in {"alloc", "count"} => Copying(p) \/ k[p].op = "grow"
    /\ pc[p] \in {"move", "map"} => Copying(p)
    /\ pc[p] = "fill" => k[p].op = "grow"
    /\ pc[p] \in {"count", "move", "fill", "map"} => k[p].new \in Frames
    /\ Looping(p) =>
          /\ Copying(p) \/ k[p].op \in {"discard", "undo", "shrink", "freeproc"}
          /\ k[p].va < k[p].end
          /\ k[p].end <= NPAGES
    /\ Copying(p) => k[p].va < sz[p]
    /\ Copying(p) /\ (Looping(p) \/ pc[p] = "map") => k[p].new \in Frames /\ k[p].end = k[p].va + 1
    /\ k[p].op = "grow" => sz[p] <= k[p].va /\ k[p].va < k[p].arg /\ k[p].arg <= NPAGES
    /\ k[p].op = "discard" => /\ k[p].new \in Frames
                              /\ sz[p] <= k[p].va
                              /\ k[p].end = k[p].va + 1
    /\ k[p].op = "undo" => sz[p] <= k[p].va
    /\ k[p].op = "shrink" => k[p].arg <= k[p].va /\ k[p].end = sz[p]
    /\ k[p].op \in {"discard", "undo", "shrink", "freeproc"} => Looping(p)
    /\ pc[p] = "push" => k[p].old \in Frames

(* PTE_W and PTE_COW exclude each other and belong to valid entries. *)
PteOK(p) ==
    \A v \in VPages :
        /\ ~(pt[p][v].w /\ pt[p][v].cow)
        /\ ~Mapped(p, v) => ~pt[p][v].w /\ ~pt[p][v].cow

LocalInv == \A p \in Procs : CallOK(p) /\ MapOK(p) /\ PteOK(p)

(* fork has filled the pages of its child up to va; nobody else has it. *)
ForkInv ==
    \A p \in Procs : pc[p] = "fork" =>
        /\ pc[k[p].child] = "embryo"
        /\ \A v \in VPages : Mapped(k[p].child, v) <=> v < k[p].va
        /\ \A q \in Procs : pc[q] = "fork" /\ k[q].child = k[p].child => q = p

(* The frames between kalloc's two steps, or between kfree's last two. *)
Carried(p) ==
    IF pc[p] = "count" THEN k[p].new ELSE IF pc[p] = "push" THEN k[p].old ELSE NoFrame

FrameInv ==
    /\ \A f \in free : ref[f] = 0
    /\ \A p \in Procs : Carried(p) \in Frames => Carried(p) \notin free /\ ref[Carried(p)] = 0
    /\ \A p, q \in Procs : Carried(p) \in Frames /\ Carried(p) = Carried(q) => p = q
    /\ \A f \in Frames : f \notin free /\ ref[f] = 0 => \E p \in Procs : Carried(p) = f

(* A page that can be written, or is being prepared, has one reference. *)
Exclusive(s) == IF s[2] = HELD THEN Holding(s[1]) ELSE pt[s[1]][s[2]].w

OwnerInv == \A s, t \in Slots : Exclusive(s) /\ Target(t) = Target(s) => t = s

(* Only program text is mapped neither writable nor copy-on-write. *)
TextInv == \A p \in Procs, v \in VPages :
    Mapped(p, v) /\ ~pt[p][v].w /\ ~pt[p][v].cow => v < TEXT

(* What holds between any two critical sections of kalloc, kfree, uvmcopy   *)
(* and usertrap, and is kept by each of them: the locals of a call agree    *)
(* with the page tables, the child of a fork is a prefix of its parent, the *)
(* counts are exact, a frame in transit is carried by one call only, and a  *)
(* reference that may be written through is the only one.                   *)
MemoryInv ==
    /\ TypeOK /\ ~panicked
    /\ LocalInv /\ ForkInv
    /\ CountsExact /\ FrameInv /\ OwnerInv

(* What ImplementsPrivate needs besides: fork has given its child the       *)
(* frames of the parent, a copy that is not mapped yet equals its original, *)
(* and the pages that sbrk has added so far are zero.                       *)
ViewInv ==
    \A p \in Procs :
        /\ pc[p] = "fork" =>
              \A v \in VPages : v < k[p].va => pt[k[p].child][v].pa = pt[p][v].pa
        /\ Copying(p) /\ pc[p] \in {"check", "drop"} =>
              mem[k[p].new] = mem[pt[p][k[p].va].pa]
        /\ k[p].op = "grow" =>
              \A v \in VPages : sz[p] <= v /\ v < k[p].va => mem[pt[p][v].pa] = Zero

=============================================================================
