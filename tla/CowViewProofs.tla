--------------------------- MODULE CowViewProofs ----------------------------
(***************************************************************************)
(* What user programs see of the page tables and frames of CowMemory: only *)
(* the process itself, or a call that it makes, changes its pages.  The    *)
(* steps of user mode and of fork, seen from there.                        *)
(***************************************************************************)
EXTENDS CowMemoryProofs

(* What the user programs see: who has a memory, and its contents. *)
Lives == {p \in Procs : Live(p)}
ViewOf(p) == IF Live(p) THEN [v \in 0 .. Size(p) - 1 |-> mem[FrameOf(p, v)]]
             ELSE [v \in {} |-> Zero]
Views == [p \in Procs |-> ViewOf(p)]

(* A step that nobody sees. *)
LEMMA AsStutter ==
    ASSUME Lives' = Lives, Views' = Views
    PROVE  UNCHANGED Private!vars
BY DEF Private!vars, Lives, Views, ViewOf

(* A store of the process, or of copyout for it: one page changes. *)
LEMMA AsWrite ==
    ASSUME NEW p \in Procs, NEW v \in VPages, NEW x \in Vals, p \in Lives,
           v \in DOMAIN Views[p], Lives' = Lives, Views' = [Views EXCEPT ![p][v] = x]
    PROVE  Private!Next
<1>1. Private!Write(p, v, x)
  BY DEF Private!Write, Lives, Views, ViewOf
<1> QED
  BY <1>1 DEF Private!Next, VPages

(* sbrk, seen by its caller: a new size, and zero pages if it is larger. *)
LEMMA AsResize ==
    ASSUME NEW p \in Procs, NEW n \in 0 .. NPAGES, p \in Lives, Lives' = Lives,
           Views' = [Views EXCEPT ![p] =
                        [v \in 0 .. n - 1 |-> IF v \in DOMAIN @ THEN @[v] ELSE Zero]]
    PROVE  Private!Next
<1>1. Private!Resize(p, n)
  BY DEF Private!Resize, Lives, Views, ViewOf
<1> QED
  BY <1>1 DEF Private!Next

(* fork: a new process with the pages of its parent. *)
LEMMA AsFork ==
    ASSUME NEW p \in Procs, NEW c \in Procs, p \in Lives, c \notin Lives,
           Lives' = Lives \cup {c}, Views' = [Views EXCEPT ![c] = Views[p]]
    PROVE  Private!Next
<1>1. Private!Fork(p, c)
  BY DEF Private!Fork, Lives, Views, ViewOf
<1> QED
  BY <1>1 DEF Private!Next

(* exit, or the end of a killed process: its memory can no longer be seen. *)
LEMMA AsExit ==
    ASSUME NEW p \in Procs, p \in Lives, Lives' = Lives \ {p},
           Views' = [Views EXCEPT ![p] = [v \in {} |-> Zero]]
    PROVE  Private!Next
<1>1. Private!Exit(p)
  BY DEF Private!Exit, Private!Empty, Lives, Views, ViewOf
<1> QED
  BY <1>1 DEF Private!Next

-----------------------------------------------------------------------------
(* Who refers to the frames that a step writes.                             *)

(* A frame that a call has allocated and not mapped is nobody else's. *)
LEMMA HeldAlone ==
    ASSUME MemoryInv, NEW p \in Procs, Holding(p)
    PROVE  /\ k[p].new \in Frames
           /\ \A q \in Procs, v \in VPages : pt[q][v].pa # k[p].new
           /\ \A q \in Procs : Holding(q) /\ k[q].new = k[p].new => q = p
<1>1. /\ <<p, HELD>> \in Slots /\ Exclusive(<<p, HELD>>) /\ Target(<<p, HELD>>) = k[p].new
  BY SlotKinds DEF Held
<1>2. k[p].new \in Frames
  BY <1>1, OwnedIsFrame, SplitTypes DEF MemoryInv
<1>3. ASSUME NEW q \in Procs, NEW v \in VPages
      PROVE  pt[q][v].pa # k[p].new
  <2>1. <<q, v>> \in Slots /\ Target(<<q, v>>) = pt[q][v].pa /\ <<q, v>> # <<p, HELD>>
    BY SlotKinds, HeldIsNoPage
  <2> QED
    BY <1>1, <2>1 DEF MemoryInv, OwnerInv
<1>4. ASSUME NEW q \in Procs, Holding(q), k[q].new = k[p].new
      PROVE  q = p
  <2>1. <<q, HELD>> \in Slots /\ Target(<<q, HELD>>) = k[q].new
    BY <1>4, SlotKinds DEF Held
  <2>2. <<q, HELD>> = <<p, HELD>>
    BY <1>1, <1>4, <2>1 DEF MemoryInv, OwnerInv
  <2> QED
    BY <2>2
<1> QED
  BY <1>2, <1>3, <1>4

(* A reference that is the only one of its frame. *)
Alone(p, v) ==
    /\ pt[p][v].pa \in Frames
    /\ \A q \in Procs, u \in VPages : pt[q][u].pa = pt[p][v].pa => q = p /\ u = v
    /\ \A q \in Procs : Holding(q) => k[q].new # pt[p][v].pa

(* A page with PTE_W, or with the count 1, is such a reference. *)
LEMMA WriterAlone ==
    ASSUME MemoryInv, NEW p \in Procs, NEW v \in VPages,
           pt[p][v].w \/ (pt[p][v].pa \in Frames /\ ref[pt[p][v].pa] = 1)
    PROVE  Alone(p, v)
<1>0. ControlTypes /\ MemoryTypes /\ LocalInv /\ CountsExact
  BY SplitTypes DEF MemoryInv
<1>1. /\ <<p, v>> \in Slots /\ Target(<<p, v>>) = pt[p][v].pa
      /\ Exclusive(<<p, v>>) <=> pt[p][v].w
  BY SlotKinds
<1>2. pt[p][v].pa \in Frames /\ \A t \in Slots : Target(t) = pt[p][v].pa => t = <<p, v>>
  <2>1. CASE pt[p][v].w
    BY <1>0, <1>1, <2>1, OwnedIsFrame DEF MemoryInv, OwnerInv
  <2>2. CASE ~pt[p][v].w
    BY <1>0, <1>1, <2>2, Referred
  <2> QED
    BY <2>1, <2>2
<1>3. ASSUME NEW q \in Procs, NEW u \in VPages, pt[q][u].pa = pt[p][v].pa
      PROVE  q = p /\ u = v
  <2>1. <<q, u>> \in Slots /\ Target(<<q, u>>) = pt[q][u].pa
    BY SlotKinds
  <2>2. <<q, u>> = <<p, v>>
    BY <1>2, <1>3, <2>1
  <2> QED
    BY <2>2
<1>4. ASSUME NEW q \in Procs, Holding(q)
      PROVE  k[q].new # pt[p][v].pa
  BY <1>4, HeldAlone
<1> QED
  BY <1>2, <1>3, <1>4 DEF Alone

(* A frame on the free list is nobody's. *)
LEMMA FreeAlone ==
    ASSUME MemoryInv, NEW f \in free
    PROVE  /\ f \in Frames
           /\ \A q \in Procs, u \in VPages : pt[q][u].pa # f
           /\ \A q \in Procs : Holding(q) => k[q].new # f
<1>1. MemoryTypes /\ CountsExact /\ f \in Frames /\ ref[f] = 0
  BY SplitTypes DEF MemoryInv, FrameInv, MemoryTypes
<1>2. \A s \in Slots : Target(s) # f
  BY <1>1, Unreferred
<1> QED
  BY <1>1, <1>2, SlotKinds DEF Held

(* The frames of q, mapped or on their way to be, keep their contents. *)
Unwritten(q) ==
    /\ \A v \in VPages : Mapped(q, v) => mem'[pt[q][v].pa] = mem[pt[q][v].pa]
    /\ Holding(q) => mem'[k[q].new] = mem[k[q].new]

(* No system call is given a destination in the program text. *)
NoTextBuffers == \A v \in Buffers : ~(v < TEXT)

(* What the process itself, or copyout for it, writes: a writable page. *)
LEMMA WritesWritable ==
    ASSUME NoTextBuffers, TextInv, NEW p \in Procs, NEW v \in VPages, NEW x,
           UserWrite(p, v, x) \/ CopyOut(p, v, x)
    PROVE  mem' = mem \/ (pt[p][v].w /\ mem' = [mem EXCEPT ![pt[p][v].pa] = x])
BY DEF NoTextBuffers, TextInv, Mapped, UserWrite, CopyOut

(* So a step of one process changes no page that another one refers to. *)
LEMMA OthersUnwritten ==
    ASSUME NoTextBuffers, MemoryInv, TextInv, NEW p \in Procs,
           UserStep(p) \/ AllocStep(p) \/ FreeStep(p) \/ ForkStep(p),
           NEW q \in Procs \ {p}
    PROVE  Unwritten(q)
<1>0. ControlTypes /\ MemoryTypes /\ LocalInv /\ CountsExact
  BY SplitTypes DEF MemoryInv
<1>a. /\ \A v \in VPages : Mapped(q, v) => pt[q][v].pa \in Frames
      /\ Holding(q) => k[q].new \in Frames
  BY <1>0, HeldAlone DEF MemoryTypes, PTE, Mapped
<1>1. CASE mem' = mem
  BY <1>1 DEF Unwritten
<1>2. ASSUME NEW g, NEW x, mem' = [mem EXCEPT ![g] = x],
             \A v \in VPages : pt[q][v].pa # g, Holding(q) => k[q].new # g
      PROVE  Unwritten(q)
  BY <1>0, <1>a, <1>2 DEF Unwritten, MemoryTypes
<1>3. ASSUME NEW v \in VPages, NEW x, UserWrite(p, v, x) \/ CopyOut(p, v, x)
      PROVE  Unwritten(q)
  <2>1. mem' = mem \/ (pt[p][v].w /\ mem' = [mem EXCEPT ![pt[p][v].pa] = x])
    BY <1>3, WritesWritable
  <2>2. CASE pt[p][v].w /\ mem' = [mem EXCEPT ![pt[p][v].pa] = x]
    <3>1. Alone(p, v)
      BY <2>2, WriterAlone
    <3>2. /\ \A u \in VPages : pt[q][u].pa # pt[p][v].pa
          /\ Holding(q) => k[q].new # pt[p][v].pa
      BY <3>1 DEF Alone
    <3> QED
      BY Zenon, <1>2, <2>2, <3>2
  <2> QED
    BY <1>1, <2>1, <2>2
<1>4. ASSUME NEW f \in Frames, KallocPop(p, f)
      PROVE  Unwritten(q)
  <2>1. f \in free /\ mem' = [mem EXCEPT ![f] = Junk]
    BY <1>4 DEF KallocPop
  <2> QED
    BY <1>2, <2>1, FreeAlone
<1>5. ASSUME \/ CopyPage(p) \/ FillPage(p) \/ FillFails(p) \/ \E x \in Vals : MapCopy(p, x)
      PROVE  Unwritten(q)
  <2>1. /\ pc[p] \in {"move", "fill", "map"}
        /\ mem' = mem \/ \E x : mem' = [mem EXCEPT ![k[p].new] = x]
    BY <1>5 DEF CopyPage, FillPage, FillFails, MapCopy
  <2>2. Holding(p)
    BY <1>0, <2>1 DEF LocalInv, CallOK, Copying, Holding
  <2> QED
    BY <1>1, <1>2, <2>1, <2>2, HeldAlone
<1>6. CASE KfreeDrop(p)
  <2>1. pc[p] = "drop" /\ (mem' = mem \/ (ref[Victim(p)] = 1 /\ mem' = [mem EXCEPT ![Victim(p)] = Junk]))
    BY <1>6 DEF KfreeDrop
  <2>2. k[p].va \in VPages /\ Victim(p) \in Frames
    BY <1>0, <2>1, VictimIsFrame DEF Looping
  <2>3. CASE k[p].op = "discard"
    <3>1. Holding(p) /\ Victim(p) = k[p].new
      BY <2>1, <2>3 DEF Holding, Victim
    <3> QED
      BY <1>1, <1>2, <2>1, <3>1, HeldAlone
  <2>4. CASE k[p].op # "discard" /\ ref[Victim(p)] = 1
    <3>1. Alone(p, k[p].va) /\ Victim(p) = pt[p][k[p].va].pa
      BY <2>2, <2>4, WriterAlone DEF Victim
    <3> QED
      BY <1>1, <1>2, <2>1, <3>1 DEF Alone
  <2> QED
    BY <1>1, <2>1, <2>3, <2>4
<1>7. CASE UserStep(p)
  <2>1. mem' = mem \/ \E v \in VPages, x \in Vals : UserWrite(p, v, x) \/ CopyOut(p, v, x)
    BY Zenon, <1>7 DEF UserStep, Exit, Reap, PageFault, SbrkGrow, SbrkShrink
  <2> QED
    BY <1>1, <1>3, <2>1
<1>8. CASE AllocStep(p)
  <2>1. \/ mem' = mem \/ \E g \in Frames : KallocPop(p, g)
        \/ CopyPage(p) \/ FillPage(p) \/ FillFails(p) \/ \E x \in Vals : MapCopy(p, x)
    BY <1>8 DEF AllocStep, KallocCount, KallocFails
  <2> QED
    BY <1>1, <1>4, <1>5, <2>1
<1>9. CASE FreeStep(p)
  <2>1. mem' = mem \/ KfreeDrop(p)
    BY <1>9 DEF FreeStep, KfreeCheck, KfreePush, NextPage, UnmapReturns
  <2> QED
    BY <1>1, <1>6, <2>1
<1>10. CASE ForkStep(p)
  <2>1. mem' = mem
    BY Zenon, <1>10 DEF ForkStep, Fork, ForkPage, ForkFails, ForkReturns
  <2> QED
    BY <1>1, <2>1
<1> QED
  BY <1>7, <1>8, <1>9, <1>10

-----------------------------------------------------------------------------
(* What the program sees, from the page table.                              *)

(* Every page of a live process is there: it is mapped, or it is the page    *)
(* whose copy the page-fault handler or copyout is about to map.             *)
LEMMA Covered ==
    ASSUME MemoryInv, NEW p \in Procs, Live(p), NEW v \in 0 .. Size(p) - 1
    PROVE  /\ v \in VPages
           /\ FrameOf(p, v) \in Frames
           /\ \/ Mapped(p, v) /\ FrameOf(p, v) = pt[p][v].pa
              \/ /\ ~Mapped(p, v) /\ FrameOf(p, v) = k[p].new
                 /\ Holding(p) /\ Copying(p) /\ v = k[p].va
                 /\ pc[p] \in {"push", "freed", "map"}
<1>0. /\ ControlTypes /\ MemoryTypes /\ CallOK(p) /\ MapOK(p) /\ NPAGES \in Nat
      /\ sz[p] \in Nat /\ sz[p] <= NPAGES
      /\ k[p].va \in Nat /\ k[p].end \in Nat /\ k[p].arg \in Nat
  BY SplitTypes, SizeIsNat, LocalsFields, ConstantsAssumption DEF MemoryInv, LocalInv, ControlTypes
<1>1. Size(p) \in Nat /\ Size(p) <= NPAGES
  BY <1>0 DEF Size, CallOK
<1>2. v \in VPages /\ v < Size(p)
  BY <1>0, <1>1 DEF VPages
<1>3. Mapped(p, v) => FrameOf(p, v) = pt[p][v].pa /\ pt[p][v].pa \in Frames
  BY <1>0, <1>2 DEF MemoryTypes, PTE, Mapped, FrameOf
<1>4. ~Mapped(p, v) => FrameOf(p, v) = k[p].new
  BY DEF Mapped, FrameOf
<1>5. Mapped(p, v) <=> Present(p, v)
  BY <1>0, <1>2 DEF MapOK, Live
<1>6. ~Present(p, v) => Copying(p) /\ v = k[p].va /\ pc[p] \in {"push", "freed", "map"}
  <2>1. CASE Looping(p) \/ pc[p] = "map"
    BY <1>0, <1>2, <2>1 DEF Present, ToGo, CallOK, Size, Live, Looping, Copying, VPages
  <2>2. CASE ~(Looping(p) \/ pc[p] = "map")
    BY <1>0, <1>2, <2>2 DEF Present, CallOK, Size, VPages
  <2> QED
    BY <2>1, <2>2
<1>7. ~Present(p, v) => Holding(p)
  BY <1>6 DEF Holding, Copying
<1>8. ~Present(p, v) => k[p].new \in Frames
  BY <1>7, HeldAlone
<1> QED
  BY <1>2, <1>3, <1>4, <1>5, <1>6, <1>7, <1>8

(* A process that a step touches neither in its locals nor in its frames    *)
(* sees nothing of it.                                                      *)
Unseen(q) == (Live(q)' <=> Live(q)) /\ ViewOf(q)' = ViewOf(q)

(* Nobody sees a step that leaves the process and its frames alone. *)
LEMMA SameUnseen ==
    ASSUME MemoryInv, NEW q \in Procs, Same(q), Unwritten(q)
    PROVE  Unseen(q)
<1>1. (Live(q)' <=> Live(q)) /\ Size(q)' = Size(q) /\ \A v : FrameOf(q, v)' = FrameOf(q, v)
  BY DEF Same, Live, Size, FrameOf
<1>2. ASSUME Live(q), NEW v \in 0 .. Size(q) - 1
      PROVE  mem'[FrameOf(q, v)] = mem[FrameOf(q, v)]
  BY <1>2, Covered DEF Unwritten
<1> QED
  BY <1>1, <1>2 DEF Unseen, ViewOf

(* Nor does the process itself, if its pages keep their contents. *)
LEMMA SelfUnseen ==
    ASSUME MemoryInv, NEW p \in Procs, Live(p), Live(p)', Size(p)' = Size(p),
           \A v \in 0 .. Size(p) - 1 : mem'[FrameOf(p, v)'] = mem[FrameOf(p, v)]
    PROVE  Unseen(p)
BY DEF Unseen, ViewOf

(* Nobody sees anything of a process without a memory. *)
LEMMA DeadUnseen ==
    ASSUME NEW p \in Procs, ~Live(p), ~Live(p)'
    PROVE  Unseen(p)
BY DEF Unseen, ViewOf

(* A step of CowMemory is a step of PrivateMemory or unseen. *)
Refines == Private!Next \/ UNCHANGED Private!vars

(* A step that no process sees is allowed. *)
LEMMA RefinesStutter ==
    ASSUME \A q \in Procs : Unseen(q)
    PROVE  Refines
<1>1. Lives' = Lives
  BY DEF Unseen, Lives
<1>2. Views' = Views
  BY DEF Unseen, Views
<1> QED
  BY <1>1, <1>2, AsStutter DEF Refines

(* So is the end of one process, in exit or after a fatal fault. *)
LEMMA RefinesExit ==
    ASSUME NEW p \in Procs, Live(p), ~Live(p)', \A q \in Procs \ {p} : Unseen(q)
    PROVE  Refines
<1>1. p \in Lives /\ Lives' = Lives \ {p}
  BY DEF Unseen, Lives
<1>2. ViewOf(p)' = [v \in {} |-> Zero]
  BY DEF ViewOf
<1>3. Views' = [Views EXCEPT ![p] = [v \in {} |-> Zero]]
  BY <1>2 DEF Unseen, Views
<1> QED
  BY <1>1, <1>3, AsExit DEF Refines

(* So is a new value in one page of one process: a store, or copyout. *)
LEMMA RefinesWrite ==
    ASSUME MemoryInv, NEW p \in Procs, Live(p), Live(p)', \A q \in Procs \ {p} : Unseen(q),
           NEW v \in 0 .. Size(p) - 1, NEW x \in Vals, Size(p)' = Size(p),
           mem'[FrameOf(p, v)'] = x,
           \A u \in 0 .. Size(p) - 1 : u # v => mem'[FrameOf(p, u)'] = mem[FrameOf(p, u)]
    PROVE  Refines
<1>1. p \in Lives /\ Lives' = Lives
  BY DEF Unseen, Lives
<1>2. ViewOf(p) = [u \in 0 .. Size(p) - 1 |-> mem[FrameOf(p, u)]]
  BY DEF ViewOf
<1>3. ViewOf(p)' = [ViewOf(p) EXCEPT ![v] = x]
  <2>1. ViewOf(p)' = [u \in 0 .. Size(p) - 1 |-> mem'[FrameOf(p, u)']]
    BY DEF ViewOf
  <2> QED
    BY Zenon, <1>2, <2>1
<1>4. Views' = [Views EXCEPT ![p][v] = x]
  BY <1>3 DEF Unseen, Views
<1>5. v \in VPages /\ v \in DOMAIN Views[p]
  BY <1>2, Covered DEF Views
<1> QED
  BY <1>1, <1>4, <1>5, AsWrite DEF Refines

(* So is a new size, if the pages that sbrk adds are zero. *)
LEMMA RefinesResize ==
    ASSUME NEW p \in Procs, Live(p), Live(p)', \A q \in Procs \ {p} : Unseen(q),
           Size(p) \in Nat, Size(p)' \in 0 .. NPAGES,
           \A v \in 0 .. Size(p)' - 1 :
               mem'[FrameOf(p, v)'] = IF v < Size(p) THEN mem[FrameOf(p, v)] ELSE Zero
    PROVE  Refines
<1>1. p \in Lives /\ Lives' = Lives
  BY DEF Unseen, Lives
<1>2. ViewOf(p) = [u \in 0 .. Size(p) - 1 |-> mem[FrameOf(p, u)]]
  BY DEF ViewOf
<1>3. ViewOf(p)' = [v \in 0 .. Size(p)' - 1 |->
                      IF v \in DOMAIN ViewOf(p) THEN ViewOf(p)[v] ELSE Zero]
  <2>1. ViewOf(p)' = [u \in 0 .. Size(p)' - 1 |-> mem'[FrameOf(p, u)']]
    BY DEF ViewOf
  <2> QED
    BY <1>2, <2>1
<1>4. Views' = [Views EXCEPT ![p] = [v \in 0 .. Size(p)' - 1 |->
                                       IF v \in DOMAIN @ THEN @[v] ELSE Zero]]
  BY <1>3 DEF Unseen, Views
<1> QED
  BY <1>1, <1>4, AsResize DEF Refines

(* So is a new process that has the pages of its parent. *)
LEMMA RefinesFork ==
    ASSUME NEW p \in Procs, NEW c \in Procs, p # c, Live(p), ~Live(c), Live(c)',
           \A q \in Procs \ {c} : Unseen(q), Size(c)' = Size(p),
           \A v \in 0 .. Size(p) - 1 : mem'[FrameOf(c, v)'] = mem[FrameOf(p, v)]
    PROVE  Refines
<1>1. p \in Lives /\ c \notin Lives /\ Lives' = Lives \cup {c}
  BY DEF Unseen, Lives
<1>2. ViewOf(c)' = ViewOf(p)
  BY DEF ViewOf
<1>3. Views' = [Views EXCEPT ![c] = Views[p]]
  BY <1>2 DEF Unseen, Views
<1> QED
  BY <1>1, <1>3, AsFork DEF Refines

-----------------------------------------------------------------------------
(* The invariant ViewInv, one process at a time.                            *)

ViewOK(p) ==
    /\ pc[p] = "fork" =>
          \A v \in VPages : v < k[p].va => pt[k[p].child][v].pa = pt[p][v].pa
    /\ Copying(p) /\ pc[p] \in {"check", "drop"} =>
          mem[k[p].new] = mem[pt[p][k[p].va].pa]
    /\ k[p].op = "grow" =>
          \A v \in VPages : sz[p] <= v /\ v < k[p].va => mem[pt[p][v].pa] = Zero

(* It is the conjunction of these. *)
LEMMA ViewSplit == ViewInv <=> \A p \in Procs : ViewOK(p)
BY DEF ViewInv, ViewOK

(* It says nothing of most calls. *)
LEMMA NothingToSee ==
    ASSUME NEW p \in Procs, pc'[p] # "fork", k'[p].op # "grow",
           k'[p].op \notin {"fault", "copyout"} \/ pc'[p] \notin {"check", "drop"}
    PROVE  ViewOK(p)'
BY DEF ViewOK, Copying

(* The page that is being copied is mapped until kfree has dropped it, and  *)
(* the pages that uvmalloc has added are mapped.                            *)
LEMMA InTheTable ==
    ASSUME MemoryInv, NEW p \in Procs
    PROVE  /\ Copying(p) /\ pc[p] \in {"alloc", "count", "move", "check", "drop"} =>
                 k[p].va \in VPages /\ Mapped(p, k[p].va)
           /\ k[p].op = "grow" => \A v \in VPages : v < k[p].va => Mapped(p, v)
<1>0. /\ CallOK(p) /\ MapOK(p) /\ NPAGES \in Nat
      /\ sz[p] \in Nat /\ sz[p] <= NPAGES
      /\ k[p].va \in Nat /\ k[p].end \in Nat
  BY SplitTypes, SizeIsNat, LocalsFields, ConstantsAssumption DEF MemoryInv, LocalInv, ControlTypes
<1>1. ASSUME Copying(p), pc[p] \in {"alloc", "count", "move", "check", "drop"}
      PROVE  k[p].va \in VPages /\ Mapped(p, k[p].va)
  <2>1. k[p].va \in VPages /\ k[p].va < sz[p]
    BY <1>0, <1>1 DEF CallOK, VPages
  <2>2. Present(p, k[p].va)
    BY <1>0, <1>1, <2>1 DEF Present, ToGo, Copying, Looping, CallOK
  <2> QED
    BY <1>0, <1>1, <2>1, <2>2 DEF MapOK
<1>2. ASSUME k[p].op = "grow", NEW v \in VPages, v < k[p].va
      PROVE  Mapped(p, v)
  <2>1. pc[p] \notin {"embryo", "map"} /\ ~Looping(p)
    BY SMTT(30), <1>0, <1>2, NoLocalsFields DEF CallOK, Copying
  <2> QED
    BY <1>0, <1>2, <2>1 DEF MapOK, Present
<1> QED
  BY <1>1, <1>2

(* A process that the step does not touch keeps what is said of it. *)
LEMMA SameViewOK ==
    ASSUME MemoryInv, NEW q \in Procs, ViewOK(q), Same(q), Unwritten(q),
           pc[q] = "fork" => Same(k[q].child)
    PROVE  ViewOK(q)'
<1>1. pc'[q] = "fork" =>
         \A v \in VPages : v < k'[q].va => pt'[k'[q].child][v].pa = pt'[q][v].pa
  BY DEF ViewOK, Same
<1>2. ASSUME Copying(q), pc[q] \in {"check", "drop"}
      PROVE  mem'[k[q].new] = mem'[pt[q][k[q].va].pa]
  <2>1. Holding(q) /\ k[q].va \in VPages /\ Mapped(q, k[q].va)
    BY <1>2, InTheTable DEF Holding, Copying
  <2> QED
    BY <1>2, <2>1 DEF Unwritten, ViewOK
<1>3. ASSUME k[q].op = "grow", NEW v \in VPages, sz[q] <= v, v < k[q].va
      PROVE  mem'[pt[q][v].pa] = Zero
  <2>1. Mapped(q, v)
    BY <1>3, InTheTable
  <2> QED
    BY <1>3, <2>1 DEF Unwritten, ViewOK
<1> QED
  BY <1>1, <1>2, <1>3 DEF ViewOK, Same, Copying

-----------------------------------------------------------------------------
(* The steps of one process.                                                *)

(* What holds between any two steps. *)
PrivateInv == MemoryInv /\ TextInv /\ ViewInv

(* All but fork and the end of freeproc touch only the process that takes   *)
(* them.                                                                    *)
LEMMA OthersSame ==
    ASSUME MemoryInv, NEW p \in Procs, UserStep(p) \/ AllocStep(p) \/ FreeStep(p),
           ~(UnmapReturns(p) /\ k[p].op = "freeproc")
    PROVE  \A q \in Procs \ {p} : Same(q)
<1>0. /\ pc \in [Procs -> Labels] /\ k \in [Procs -> Locals] /\ sz \in [Procs -> 0 .. NPAGES]
      /\ pt \in [Procs -> [VPages -> PTE]]
  BY DEF MemoryInv, TypeOK
<1>1. CASE UserStep(p)
  <2>1. /\ sz' = sz
        /\ pt' = pt \/ \E y : pt' = [pt EXCEPT ![p] = y]
        /\ pc' = pc \/ \E y : pc' = [pc EXCEPT ![p] = y]
        /\ k' = k \/ \E y : k' = [k EXCEPT ![p] = y]
    BY ZenonT(30), <1>1 DEF UserStep, Exit, Reap, PageFault, UserWrite, CopyOut, SbrkGrow, SbrkShrink,
                StartAlloc, StartUnmap, Return, Goto
  <2> QED
    BY SMTT(30), <1>0, <2>1 DEF Same
<1>2. CASE AllocStep(p)
  <2>1. /\ sz' = sz \/ \E y : sz' = [sz EXCEPT ![p] = y]
        /\ pt' = pt \/ \E y : pt' = [pt EXCEPT ![p] = y]
        /\ pc' = pc \/ \E y : pc' = [pc EXCEPT ![p] = y]
        /\ k' = k \/ \E y : k' = [k EXCEPT ![p] = y]
    BY ZenonT(30), <1>2 DEF AllocStep, KallocPop, KallocCount, KallocFails, UndoGrow, CopyPage, FillPage,
                FillFails, MapCopy, StartAlloc, StartUnmap, Return, Goto
  <2> QED
    BY SMTT(30), <1>0, <2>1 DEF Same
<1>3. CASE FreeStep(p)
  <2>1. /\ sz' = sz \/ \E y : sz' = [sz EXCEPT ![p] = y]
        /\ pt' = pt \/ \E y : pt' = [pt EXCEPT ![p] = y]
        /\ pc' = pc \/ \E y : pc' = [pc EXCEPT ![p] = y]
        /\ k' = k \/ \E y : k' = [k EXCEPT ![p] = y]
    BY ZenonT(30), <1>3 DEF FreeStep, KfreeCheck, KfreeDrop, KfreePush, NextPage, UnmapReturns, UndoGrow,
                StartUnmap, Return, Goto
  <2> QED
    BY SMTT(30), <1>0, <2>1 DEF Same
<1> QED
  BY <1>1, <1>2, <1>3

(* So nobody else sees anything of them, and ViewInv need only be looked at *)
(* for that process.                                                        *)
LEMMA OthersUnseen ==
    ASSUME NoTextBuffers, PrivateInv, NEW p \in Procs, UserStep(p) \/ AllocStep(p) \/ FreeStep(p),
           ~(UnmapReturns(p) /\ k[p].op = "freeproc")
    PROVE  /\ \A q \in Procs \ {p} : Unseen(q)
           /\ ViewOK(p)' => ViewInv'
<1>0. MemoryInv /\ TextInv /\ ControlTypes /\ MemoryTypes /\ LocalInv /\ ForkInv
  BY SplitTypes DEF PrivateInv, MemoryInv
<1>1. \A q \in Procs \ {p} : Same(q) /\ Unwritten(q)
  BY <1>0, OthersSame, OthersUnwritten
<1>2. Aside
  BY <1>0, LocalUser, LocalAlloc, LocalFree
<1>3. ASSUME NEW q \in Procs \ {p}
      PROVE  ViewOK(q)'
  <2>1. pc[q] = "fork" => Same(k[q].child)
    BY <1>0, <1>2, Forking DEF Aside
  <2> QED
    BY <1>0, <1>1, <2>1, SameViewOK, ViewSplit DEF PrivateInv
<1>4. ViewOK(p)' => \A q \in Procs : ViewOK(q)'
  BY <1>3
<1>5. ViewInv' <=> \A q \in Procs : ViewOK(q)'
  BY DEF ViewInv, ViewOK
<1> QED
  BY <1>0, <1>1, <1>4, <1>5, SameUnseen

(* Outside the copy of a page, every page of a live process is mapped. *)
LEMMA AllThere ==
    ASSUME MemoryInv, NEW p \in Procs, Live(p),
           ~(Copying(p) /\ pc[p] \in {"push", "freed", "map"})
    PROVE  \A v \in 0 .. Size(p) - 1 :
              /\ v \in VPages /\ Mapped(p, v)
              /\ FrameOf(p, v) = pt[p][v].pa /\ pt[p][v].pa \in Frames
<1> SUFFICES ASSUME NEW v \in 0 .. Size(p) - 1
             PROVE  /\ v \in VPages /\ Mapped(p, v)
                    /\ FrameOf(p, v) = pt[p][v].pa /\ pt[p][v].pa \in Frames
  OBVIOUS
<1> QED
  BY Covered

(* It sees nothing of a step that keeps their frames and contents. *)
LEMMA TableUnseen ==
    ASSUME MemoryInv, NEW p \in Procs, Live(p), Live(p)', Size(p)' = Size(p),
           ~(Copying(p) /\ pc[p] \in {"push", "freed", "map"}),
           \A v \in 0 .. Size(p) - 1 :
               pt'[p][v].pa = pt[p][v].pa /\ mem'[pt[p][v].pa] = mem[pt[p][v].pa]
    PROVE  Unseen(p)
<1>1. ASSUME NEW v \in 0 .. Size(p) - 1
      PROVE  mem'[FrameOf(p, v)'] = mem[FrameOf(p, v)]
  <2>1. Mapped(p, v) /\ FrameOf(p, v) = pt[p][v].pa
    BY AllThere
  <2> QED
    BY <2>1 DEF FrameOf, Mapped
<1> QED
  BY <1>1, SelfUnseen

(* In user mode. *)
LEMMA InUser ==
    ASSUME MemoryInv, NEW p \in Procs, pc[p] = "user"
    PROVE  /\ CallTypes /\ Live(p) /\ Size(p) = sz[p] /\ k[p].op = "none" /\ ~Copying(p)
           /\ sz[p] \in Nat /\ sz[p] <= NPAGES /\ NPAGES \in Nat
           /\ \A v \in VPages : Mapped(p, v) => v \in 0 .. sz[p] - 1
           /\ \A v \in 0 .. sz[p] - 1 : v \in VPages /\ Mapped(p, v)
<1>0. /\ CallTypes /\ CallOK(p) /\ MapOK(p) /\ NPAGES \in Nat
      /\ sz[p] \in Nat /\ sz[p] <= NPAGES
  BY SplitTypes, SizeIsNat, ConstantsAssumption DEF MemoryInv, LocalInv, ControlTypes
<1>1. k[p].op = "none"
  BY <1>0, NoLocalsFields DEF CallOK
<1>2. Live(p) /\ Size(p) = sz[p] /\ ~Copying(p)
  BY <1>1 DEF Live, Size, Copying
<1>3. \A v \in VPages : Mapped(p, v) <=> v < sz[p]
  BY <1>0, <1>1 DEF MapOK, Present, Looping
<1> QED
  BY <1>0, <1>1, <1>2, <1>3 DEF VPages

(* A store to a writable page is a write of PrivateMemory. *)
LEMMA PrivateWrite ==
    ASSUME NoTextBuffers, PrivateInv, NEW p \in Procs, NEW v \in VPages, NEW x \in Vals,
           UserWrite(p, v, x) \/ (CopyOut(p, v, x) /\ ~pt[p][v].cow)
    PROVE  Refines /\ ViewInv'
<1>0. MemoryInv /\ TextInv /\ pc[p] = "user"
  BY DEF PrivateInv, UserWrite, CopyOut
<1>1. /\ pt[p][v].w /\ mem' = [mem EXCEPT ![pt[p][v].pa] = x]
      /\ UNCHANGED <<pc, k, sz, pt>>
  BY <1>0 DEF UserWrite, CopyOut, TextInv, NoTextBuffers, Mapped
<1>2. Alone(p, v) /\ mem \in [Frames -> Vals \cup {Junk}]
  BY SMTT(30), <1>0, <1>1, WriterAlone DEF MemoryInv, TypeOK
<1>3. Live(p) /\ Size(p) = sz[p] /\ k[p].op = "none" /\ ~Copying(p) /\ v \in 0 .. sz[p] - 1
  BY <1>0, <1>1, InUser DEF MemoryInv, LocalInv, PteOK
<1>4. Live(p)' /\ Size(p)' = Size(p) /\ \A u : FrameOf(p, u)' = FrameOf(p, u)
  BY <1>1, <1>3 DEF Live, Size, FrameOf
<1>5. \A u \in 0 .. sz[p] - 1 : u \in VPages /\ FrameOf(p, u) = pt[p][u].pa /\ pt[p][u].pa \in Frames
  BY <1>0, <1>3, AllThere
<1>6. /\ mem'[FrameOf(p, v)] = x
      /\ \A u \in 0 .. sz[p] - 1 : u # v => mem'[FrameOf(p, u)] = mem[FrameOf(p, u)]
  BY <1>1, <1>2, <1>3, <1>5 DEF Alone
<1>7. ViewOK(p)'
  BY <1>0, <1>1, <1>3, NothingToSee
<1>8. UserStep(p) /\ ~UnmapReturns(p)
  BY <1>0 DEF UserStep, UnmapReturns
<1>9. (\A q \in Procs \ {p} : Unseen(q)) /\ ViewInv'
  BY <1>7, <1>8, OthersUnseen
<1> QED
  BY SMTT(30), <1>0, <1>3, <1>4, <1>6, <1>9, RefinesWrite

(* exit, and a page fault that kills: an exit of PrivateMemory. *)
LEMMA PrivateExit ==
    ASSUME NoTextBuffers, PrivateInv, NEW p \in Procs, UserStep(p) \/ AllocStep(p),
           pc[p] \in {"user", "alloc"}, Live(p), Return(p, "zombie")
    PROVE  Refines /\ ViewInv'
<1>0. MemoryInv /\ CallTypes
  BY SplitTypes DEF PrivateInv, MemoryInv, ControlTypes
<1>1. pc'[p] = "zombie" /\ k'[p].op = "none"
  BY <1>0, Names, ReturnEffect
<1>2. ~UnmapReturns(p)
  BY DEF UnmapReturns
<1>3. ~Live(p)' /\ ViewOK(p)'
  BY <1>1, NothingToSee DEF Live
<1> QED
  BY <1>2, <1>3, OthersUnseen, RefinesExit

(* A step of user mode that leaves the table alone is not seen, whatever    *)
(* call it begins.                                                          *)
LEMMA PrivateCall ==
    ASSUME NoTextBuffers, PrivateInv, NEW p \in Procs, UserStep(p), pc[p] = "user",
           pc'[p] \in {"user", "alloc"}, k'[p].op \in {"none", "fault", "copyout", "grow"},
           \A v \in VPages : pt'[p][v].pa = pt[p][v].pa,
           sz' = sz, mem' = mem, k'[p].op = "grow" => k'[p].va = sz[p]
    PROVE  Refines /\ ViewInv'
<1>0. MemoryInv
  BY DEF PrivateInv
<1>1. /\ Live(p) /\ Size(p) = sz[p] /\ ~Copying(p) /\ sz[p] \in Nat
      /\ \A v \in 0 .. sz[p] - 1 : v \in VPages
  BY <1>0, InUser
<1>2. Live(p)' /\ Size(p)' = sz[p]
  BY DEF Live, Size
<1>3. Unseen(p)
  BY <1>0, <1>1, <1>2, TableUnseen
<1>4. ~UnmapReturns(p)
  BY DEF UnmapReturns
<1>5. ViewOK(p)'
  BY <1>1 DEF ViewOK, Copying, VPages
<1> QED
  BY <1>3, <1>4, <1>5, OthersUnseen, RefinesStutter

(* sbrk to a smaller size: the pages are out of sight when uvmdealloc begins. *)
LEMMA PrivateShrink ==
    ASSUME NoTextBuffers, PrivateInv, NEW p \in Procs, NEW n \in 0 .. NPAGES, SbrkShrink(p, n)
    PROVE  Refines /\ ViewInv'
<1>0. MemoryInv /\ pc[p] = "user" /\ n \in 0 .. sz[p] - 1 /\ UNCHANGED <<sz, pt, mem>>
  BY DEF PrivateInv, SbrkShrink
<1>1. /\ CallTypes /\ Live(p) /\ Size(p) = sz[p] /\ ~Copying(p) /\ sz[p] \in Nat
  BY <1>0, InUser
<1>2. pc'[p] = "check" /\ k'[p].op = "shrink" /\ k'[p].arg = n
  BY <1>1 DEF SbrkShrink, Goto, CallTypes, Locals
<1>3. Live(p)' /\ Size(p)' = n
  BY <1>2 DEF Live, Size
<1>4. ASSUME NEW v \in 0 .. n - 1
      PROVE  mem'[FrameOf(p, v)'] = mem[FrameOf(p, v)] /\ v < Size(p)
  <2>1. v \in 0 .. sz[p] - 1
    BY <1>0, <1>1
  <2>2. Mapped(p, v)
    BY <1>0, <2>1, InUser
  <2> QED
    BY <1>0, <1>1, <2>1, <2>2 DEF FrameOf, Mapped
<1>5. ViewOK(p)' /\ UserStep(p) /\ ~UnmapReturns(p)
  BY <1>0, <1>2, NothingToSee DEF UserStep, UnmapReturns
<1>6. (\A q \in Procs \ {p} : Unseen(q)) /\ ViewInv'
  BY <1>5, OthersUnseen
<1> QED
  BY <1>1, <1>3, <1>4, <1>6, RefinesResize

(* The steps of user mode. *)
LEMMA PrivateUser ==
    ASSUME NoTextBuffers, PrivateInv, NEW p \in Procs, UserStep(p)
    PROVE  Refines /\ ViewInv'
<1>0. MemoryInv /\ CallTypes /\ NPAGES \in Nat
  BY SplitTypes, ConstantsAssumption DEF PrivateInv, MemoryInv, ControlTypes
<1>1. CASE Exit(p)
  <2>1. pc[p] = "user" /\ Return(p, "zombie")
    BY <1>1 DEF Exit
  <2> QED
    BY <1>0, <2>1, InUser, PrivateExit
<1>2. CASE Reap(p)
  <2>1. pc[p] = "zombie" /\ sz[p] \in Nat
    BY <1>0, <1>2, SizeIsNat, SplitTypes DEF Reap, MemoryInv
  <2>2. \/ pc'[p] = "check" /\ k'[p].op = "freeproc"
        \/ pc'[p] = "unused" /\ k'[p].op = "none"
    BY ZenonT(30), <1>0, <1>2, <2>1, Names, UnmapEffect, ReturnEffect DEF Reap
  <2>3. ~Live(p) /\ ~Live(p)' /\ ViewOK(p)' /\ ~UnmapReturns(p)
    BY <2>1, <2>2, NothingToSee DEF Live, UnmapReturns
  <2> QED
    BY <2>3, DeadUnseen, OthersUnseen, RefinesStutter
<1>3. ASSUME NEW v \in VPages, PageFault(p, v)
      PROVE  Refines /\ ViewInv'
  <2>1. pc[p] = "user" /\ sz' = sz /\ mem' = mem /\ v \in Nat
    BY <1>0, <1>3 DEF PageFault, VPages
  <2>2. Live(p) /\ k[p].op = "none"
    BY <1>0, <2>1, InUser
  <2>3. CASE Return(p, "zombie")
    BY <2>1, <2>2, <2>3, PrivateExit
  <2>4. CASE StartAlloc(p, "fault", v, 0) /\ pt' = pt
    <3>1. pc'[p] = "alloc" /\ k'[p].op = "fault"
      BY <1>0, <2>1, <2>4, Names, AllocEffect
    <3> QED
      BY <2>1, <2>4, <3>1, PrivateCall
  <2>5. CASE pt' = [pt EXCEPT ![p][v].w = TRUE, ![p][v].cow = FALSE] /\ UNCHANGED <<pc, k>>
    <3>1. \A u \in VPages : pt'[p][u].pa = pt[p][u].pa
      BY <1>0, <2>5 DEF MemoryInv, TypeOK, PTE
    <3> QED
      BY <2>1, <2>2, <2>5, <3>1, PrivateCall
  <2> QED
    BY <1>3, <2>3, <2>4, <2>5 DEF PageFault
<1>4. ASSUME NEW v \in VPages, NEW x \in Vals, UserWrite(p, v, x) \/ CopyOut(p, v, x)
      PROVE  Refines /\ ViewInv'
  <2>1. CASE CopyOut(p, v, x) /\ pt[p][v].cow
    <3>1. /\ pc[p] = "user" /\ sz' = sz /\ mem' = mem /\ pt' = pt /\ v \in Nat
          /\ StartAlloc(p, "copyout", v, 0)
      BY <1>0, <2>1 DEF CopyOut, VPages
    <3>2. pc'[p] = "alloc" /\ k'[p].op = "copyout"
      BY <1>0, <3>1, Names, AllocEffect
    <3> QED
      BY <3>1, <3>2, PrivateCall
  <2> QED
    BY <1>4, <2>1, PrivateWrite
<1>5. ASSUME NEW n \in 0 .. NPAGES, SbrkGrow(p, n)
      PROVE  Refines /\ ViewInv'
  <2>1. /\ pc[p] = "user" /\ sz' = sz /\ mem' = mem /\ pt' = pt
        /\ StartAlloc(p, "grow", sz[p], n) /\ sz[p] \in Nat /\ n \in Nat
    BY <1>0, <1>5, InUser DEF SbrkGrow
  <2>2. pc'[p] = "alloc" /\ k'[p].op = "grow" /\ k'[p].va = sz[p]
    BY <1>0, <2>1, Names, AllocEffect
  <2> QED
    BY <2>1, <2>2, PrivateCall
<1> QED
  BY <1>1, <1>2, <1>3, <1>4, <1>5, PrivateShrink DEF UserStep

-----------------------------------------------------------------------------
(* fork.                                                                    *)

(* It touches the parent and the child only, and writes no page. *)
LEMMA ForkUnseen ==
    ASSUME PrivateInv, NEW p \in Procs, NEW c \in Procs, mem' = mem,
           \A q \in Procs \ {p, c} : Same(q),
           \A q \in Procs \ {p, c} : pc[q] = "fork" => k[q].child \in Procs \ {p, c}
    PROVE  /\ \A q \in Procs \ {p, c} : Unseen(q)
           /\ ViewOK(p)' /\ ViewOK(c)' => ViewInv'
<1>0. MemoryInv /\ \A q \in Procs : ViewOK(q)
  BY ViewSplit DEF PrivateInv
<1>1. ASSUME NEW q \in Procs \ {p, c}
      PROVE  Unseen(q) /\ ViewOK(q)'
  <2>1. Same(q) /\ Unwritten(q) /\ (pc[q] = "fork" => Same(k[q].child))
    BY DEF Unwritten
  <2> QED
    BY <1>0, <2>1, SameUnseen, SameViewOK
<1>2. ViewInv' <=> \A q \in Procs : ViewOK(q)'
  BY DEF ViewInv, ViewOK
<1> QED
  BY <1>1, <1>2

(* fork begins: nobody sees a process that is being built. *)
LEMMA PrivateForkStart ==
    ASSUME PrivateInv, NEW p \in Procs, NEW c \in Procs, Fork(p, c)
    PROVE  Refines /\ ViewInv'
<1>0. /\ MemoryInv /\ CallTypes /\ ForkInv /\ CallOK(p) /\ CallOK(c)
      /\ pc[p] = "user" /\ pc[c] = "unused" /\ p # c
      /\ UNCHANGED <<sz, pt, mem>>
  BY SplitTypes DEF PrivateInv, MemoryInv, LocalInv, ControlTypes, Fork
<1>1. /\ pc'[p] = "fork" /\ pc'[c] = "embryo" /\ k'[c] = k[c]
      /\ k'[p].op = k[p].op /\ k'[p].va = k[p].va
      /\ \A q \in Procs \ {p, c} : Same(q)
  BY SMTT(30), <1>0 DEF Fork, CallTypes, Locals, Same
<1>2. k[p].op = "none" /\ k[p].va = 0 /\ k[c].op = "none"
  BY SMTT(30), <1>0, NoLocalsFields DEF CallOK
<1>3. \A q \in Procs \ {p, c} : pc[q] = "fork" => k[q].child \in Procs \ {p, c}
  BY <1>0, LocalsFields DEF ForkInv
<1>4. Unseen(p)
  <2>1. Live(p) /\ Live(p)' /\ Size(p)' = Size(p) /\ ~Copying(p)
    BY <1>0, <1>1, <1>2 DEF Live, Size, Copying
  <2> QED
    BY <1>0, <2>1, TableUnseen
<1>5. Unseen(c)
  BY SMTT(30), <1>0, <1>1, DeadUnseen DEF Live
<1>6. ViewOK(p)' /\ ViewOK(c)'
  BY SMTT(30), <1>1, <1>2, NothingToSee DEF ViewOK, Copying, VPages
<1>7. (\A q \in Procs \ {p, c} : Unseen(q)) /\ ViewInv'
  BY SMTT(30), <1>0, <1>1, <1>3, <1>6, ForkUnseen
<1> QED
  BY <1>4, <1>5, <1>7, RefinesStutter

(* The parent and its child while uvmcopy runs. *)
LEMMA InFork ==
    ASSUME PrivateInv, NEW p \in Procs, pc[p] = "fork"
    PROVE  /\ MemoryInv /\ CallTypes /\ MemoryTypes /\ sz \in [Procs -> 0 .. NPAGES]
           /\ k[p].child \in Procs \ {p} /\ pc[k[p].child] = "embryo"
           /\ k[k[p].child].op = "none" /\ ~Live(k[p].child)
           /\ k[p].op = "none" /\ k[p].va \in Nat /\ sz[p] \in Nat /\ sz[p] <= NPAGES
           /\ NPAGES \in Nat /\ Live(p) /\ Size(p) = sz[p] /\ ~Copying(p)
           /\ \A v \in VPages : v < k[p].va => pt[k[p].child][v].pa = pt[p][v].pa
           /\ \A q \in Procs \ {p, k[p].child} :
                 pc[q] = "fork" => k[q].child \in Procs \ {p, k[p].child}
<1>0. /\ MemoryInv /\ ControlTypes /\ CallTypes /\ MemoryTypes /\ LocalInv /\ ForkInv /\ ViewOK(p)
      /\ sz \in [Procs -> 0 .. NPAGES]
  BY SplitTypes, ViewSplit DEF PrivateInv, MemoryInv, ControlTypes
<1>1. /\ sz[p] \in Nat /\ sz[p] <= NPAGES /\ NPAGES \in Nat /\ k[p].va \in Nat
  BY SMTT(30), <1>0, SizeIsNat, LocalsFields, ConstantsAssumption
<1>2. /\ k[p].child \in Procs \ {p} /\ pc[k[p].child] = "embryo"
      /\ k[k[p].child].op = "none" /\ k[p].op = "none"
      /\ \A q \in Procs \ {p, k[p].child} :
            pc[q] = "fork" => k[q].child \in Procs \ {p, k[p].child}
  BY <1>0, Forking
<1>3. ~Live(k[p].child) /\ Live(p) /\ Size(p) = sz[p] /\ ~Copying(p)
  BY <1>2 DEF Live, Size, Copying
<1>4. \A v \in VPages : v < k[p].va => pt[k[p].child][v].pa = pt[p][v].pa
  BY <1>0 DEF ViewOK
<1> QED
  BY <1>0, <1>1, <1>2, <1>3, <1>4

(* One page of uvmcopy: the parent's page becomes copy-on-write, and stays   *)
(* where it is.                                                             *)
LEMMA PrivateForkPage ==
    ASSUME PrivateInv, NEW p \in Procs, ForkPage(p)
    PROVE  Refines /\ ViewInv'
<1>c. PICK c \in Procs, va \in Nat : c = k[p].child /\ va = k[p].va /\ pc[p] = "fork"
  BY InFork DEF ForkPage
<1>0. pc[p] = "fork" /\ va < sz[p] /\ UNCHANGED <<pc, sz, mem>> /\ k' = [k EXCEPT ![p].va = @ + 1]
  BY <1>c DEF ForkPage
<1>1. /\ MemoryInv /\ CallTypes /\ MemoryTypes /\ c \in Procs \ {p} /\ pc[c] = "embryo"
      /\ k[c].op = "none" /\ ~Live(c) /\ k[p].op = "none" /\ va \in Nat /\ sz[p] \in Nat
      /\ sz[p] <= NPAGES /\ NPAGES \in Nat /\ Live(p) /\ Size(p) = sz[p] /\ ~Copying(p)
      /\ \A v \in VPages : v < va => pt[c][v].pa = pt[p][v].pa
      /\ \A q \in Procs \ {p, c} : pc[q] = "fork" => k[q].child \in Procs \ {p, c}
  BY <1>c, InFork
<1>2. va \in VPages /\ pt[p][va] \in PTE
  BY <1>0, <1>1 DEF VPages, MemoryTypes
<1>3. pt' = [pt EXCEPT ![p][va] = Shared(pt[p][va]), ![c][va] = Shared(pt[p][va])]
  BY SMTT(30), <1>c DEF ForkPage
<1>4. /\ pt'[p][va].pa = pt[p][va].pa /\ pt'[c][va].pa = pt[p][va].pa
      /\ \A v \in VPages \ {va} : pt'[p][v] = pt[p][v] /\ pt'[c][v] = pt[c][v]
      /\ \A q \in Procs \ {p, c} : pt'[q] = pt[q]
  BY <1>1, <1>2, <1>3, SharedEffect DEF MemoryTypes
<1>5. /\ k'[p].op = k[p].op /\ k'[p].va = va + 1 /\ k'[p].child = c
      /\ \A q \in Procs \ {p} : k'[q] = k[q]
  BY <1>c, <1>0, <1>1 DEF CallTypes, Locals
<1>6. \A q \in Procs \ {p, c} : Same(q)
  BY <1>0, <1>4, <1>5 DEF Same
<1>7. Unseen(p)
  <2>1. Live(p)' /\ Size(p)' = Size(p)
    BY SMTT(30), <1>0, <1>1, <1>5 DEF Live, Size
  <2>2. \A v \in 0 .. Size(p) - 1 : pt'[p][v].pa = pt[p][v].pa
    BY <1>1, <1>4 DEF VPages
  <2> QED
    BY <1>0, <1>1, <2>1, <2>2, TableUnseen
<1>8. Unseen(c)
  BY <1>0, <1>1, DeadUnseen DEF Live
<1>9. ViewOK(p)' /\ ViewOK(c)'
  <2>1. ASSUME NEW v \in VPages, v < va + 1
        PROVE  pt'[c][v].pa = pt'[p][v].pa
    <3>1. v = va \/ v < va
      BY SMTT(30), <1>1, <2>1 DEF VPages
    <3> QED
      BY <1>1, <1>2, <1>4, <3>1
  <2>2. ViewOK(p)'
    BY <1>1, <1>5, <2>1 DEF ViewOK, Copying
  <2> QED
    BY SMTT(30), <1>0, <1>1, <1>5, <2>2, NothingToSee
<1>10. (\A q \in Procs \ {p, c} : Unseen(q)) /\ ViewInv'
  BY <1>0, <1>1, <1>6, <1>9, ForkUnseen
<1> QED
  BY SMTT(30), <1>7, <1>8, <1>10, RefinesStutter

(* uvmcopy runs out of memory. *)
LEMMA PrivateForkFails ==
    ASSUME PrivateInv, NEW p \in Procs, ForkFails(p)
    PROVE  Refines /\ ViewInv'
<1>c. PICK c \in Procs, va \in Nat : c = k[p].child /\ va = k[p].va /\ pc[p] = "fork"
  BY InFork DEF ForkFails
<1>0. /\ pc[p] = "fork" /\ va < sz[p] /\ UNCHANGED <<sz, mem>>
      /\ pt' = [pt EXCEPT ![p][va] = Shared(@)]
  BY <1>c DEF ForkFails
<1>1. /\ MemoryInv /\ CallTypes /\ MemoryTypes /\ c \in Procs \ {p} /\ pc[c] = "embryo"
      /\ k[c].op = "none" /\ ~Live(c) /\ k[p].op = "none" /\ va \in Nat /\ sz[p] \in Nat
      /\ sz[p] <= NPAGES /\ NPAGES \in Nat /\ Live(p) /\ Size(p) = sz[p] /\ ~Copying(p)
      /\ \A q \in Procs \ {p, c} : pc[q] = "fork" => k[q].child \in Procs \ {p, c}
  BY SMTT(30), <1>c, InFork
<1>2. va \in VPages /\ pt[p][va] \in PTE
  BY <1>0, <1>1 DEF VPages, MemoryTypes
<1>3. /\ pc'[p] \in {"user", "unfork"} /\ k'[p].op = "none"
      /\ \/ pc'[c] = "unused" /\ k'[c].op = "none"
         \/ pc'[c] = "check" /\ k'[c].op = "freeproc"
      /\ \A q \in Procs \ {p, c} : pc'[q] = pc[q] /\ k'[q] = k[q]
  BY SMTT(30), <1>c, <1>1, NoLocalsFields DEF ForkFails, CallTypes, Locals
<1>4. /\ \A v \in VPages : pt'[p][v].pa = pt[p][v].pa
      /\ \A q \in Procs \ {p} : pt'[q] = pt[q]
  BY <1>0, <1>1, <1>2, SharedEffect DEF MemoryTypes
<1>5. \A q \in Procs \ {p, c} : Same(q)
  BY <1>0, <1>3, <1>4 DEF Same
<1>6. Unseen(p)
  <2>1. Live(p)' /\ Size(p)' = Size(p)
    BY <1>0, <1>1, <1>3 DEF Live, Size
  <2>2. \A v \in 0 .. Size(p) - 1 : pt'[p][v].pa = pt[p][v].pa
    BY <1>1, <1>4 DEF VPages
  <2> QED
    BY <1>0, <1>1, <2>1, <2>2, TableUnseen
<1>7. Unseen(c)
  <2>1. ~Live(c)'
    BY <1>3 DEF Live
  <2> QED
    BY <1>1, <2>1, DeadUnseen
<1>8. ViewOK(p)' /\ ViewOK(c)'
  BY <1>1, <1>3, NothingToSee
<1>9. (\A q \in Procs \ {p, c} : Unseen(q)) /\ ViewInv'
  BY SMTT(30), <1>0, <1>1, <1>5, <1>8, ForkUnseen
<1> QED
  BY <1>6, <1>7, <1>9, RefinesStutter

(* fork returns, and the child has the memory that the parent has then. *)
LEMMA PrivateForkReturns ==
    ASSUME PrivateInv, NEW p \in Procs, ForkReturns(p)
    PROVE  Refines /\ ViewInv'
<1>c. PICK c \in Procs : c = k[p].child /\ pc[p] = "fork"
  BY InFork DEF ForkReturns
<1>0. pc[p] = "fork" /\ k[p].va = sz[p] /\ UNCHANGED <<pt, mem>>
  BY <1>c DEF ForkReturns
<1>1. /\ MemoryInv /\ CallTypes /\ MemoryTypes /\ sz \in [Procs -> 0 .. NPAGES]
      /\ c \in Procs \ {p} /\ pc[c] = "embryo"
      /\ k[c].op = "none" /\ ~Live(c) /\ k[p].op = "none" /\ sz[p] \in Nat
      /\ sz[p] <= NPAGES /\ NPAGES \in Nat /\ Live(p) /\ Size(p) = sz[p] /\ ~Copying(p)
      /\ \A v \in VPages : v < k[p].va => pt[c][v].pa = pt[p][v].pa
      /\ \A q \in Procs \ {p, c} : pc[q] = "fork" => k[q].child \in Procs \ {p, c}
  BY <1>c, InFork
<1>2. /\ pc'[p] = "user" /\ k'[p].op = "none" /\ pc'[c] = "user" /\ k'[c] = k[c]
      /\ sz'[c] = sz[p] /\ sz'[p] = sz[p]
      /\ \A q \in Procs \ {p, c} : pc'[q] = pc[q] /\ k'[q] = k[q] /\ sz'[q] = sz[q]
  BY SMTT(30), <1>c, <1>1, NoLocalsFields DEF ForkReturns, CallTypes
<1>3. \A q \in Procs \ {p, c} : Same(q)
  BY <1>0, <1>2 DEF Same
<1>4. Unseen(p)
  <2>1. Live(p)' /\ Size(p)' = Size(p)
    BY <1>1, <1>2 DEF Live, Size
  <2> QED
    BY SMTT(30), <1>0, <1>1, <2>1, TableUnseen
<1>5. Live(c)' /\ Size(c)' = Size(p)
  BY <1>1, <1>2 DEF Live, Size
<1>6. ASSUME NEW v \in 0 .. Size(p) - 1
      PROVE  mem'[FrameOf(c, v)'] = mem[FrameOf(p, v)]
  <2>1. v \in VPages /\ Mapped(p, v) /\ FrameOf(p, v) = pt[p][v].pa /\ v < sz[p]
    BY <1>1, AllThere
  <2>2. pt'[c][v].pa = pt[p][v].pa
    BY <1>0, <1>1, <2>1
  <2>3. FrameOf(c, v)' = pt[p][v].pa
    BY <2>1, <2>2 DEF FrameOf, Mapped
  <2> QED
    BY SMTT(30), <1>0, <2>1, <2>3
<1>7. ViewOK(p)' /\ ViewOK(c)'
  BY SMTT(30), <1>1, <1>2, NothingToSee
<1>8. (\A q \in Procs \ {p, c} : Unseen(q)) /\ ViewInv'
  BY SMTT(30), <1>0, <1>1, <1>3, <1>7, ForkUnseen
<1>9. \A q \in Procs \ {c} : Unseen(q)
  BY <1>4, <1>8
<1> QED
  BY SMTT(30), <1>1, <1>5, <1>6, <1>8, <1>9, RefinesFork

=============================================================================
