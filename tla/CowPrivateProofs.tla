-------------------------- MODULE CowPrivateProofs --------------------------
(***************************************************************************)
(* Copy-on-write is invisible: the page tables, counts and frames of       *)
(* CowMemory implement the private memories of PrivateMemory.              *)
(***************************************************************************)
EXTENDS CowViewProofs

-----------------------------------------------------------------------------
(* The steps of the calls that allocate.                                    *)

(* While a call waits for its page, or fills it. *)
LEMMA InAlloc ==
    ASSUME MemoryInv, NEW p \in Procs, pc[p] \in {"alloc", "count", "move", "fill"}
    PROVE  /\ CallTypes /\ Live(p) /\ Size(p) = sz[p] /\ ~UnmapReturns(p)
           /\ ~(Copying(p) /\ pc[p] \in {"push", "freed", "map"})
           /\ sz[p] \in Nat /\ sz[p] <= NPAGES /\ NPAGES \in Nat
           /\ k[p].va \in Nat /\ k[p].arg \in Nat /\ k[p].end \in Nat
           /\ k[p].op \in {"fault", "copyout", "grow"} /\ k[p].op \in Ops
           /\ \A v \in 0 .. sz[p] - 1 : v \in VPages /\ Mapped(p, v)
<1>0. /\ CallTypes /\ CallOK(p) /\ NPAGES \in Nat
      /\ sz[p] \in Nat /\ sz[p] <= NPAGES
      /\ k[p].va \in Nat /\ k[p].arg \in Nat /\ k[p].end \in Nat /\ k[p].op \in Ops
  BY SplitTypes, SizeIsNat, LocalsFields, ConstantsAssumption DEF MemoryInv, LocalInv, ControlTypes
<1>1. k[p].op \in {"fault", "copyout", "grow"}
  BY <1>0 DEF CallOK, Copying
<1>2. Live(p) /\ Size(p) = sz[p]
  BY <1>1 DEF Live, Size
<1>3. ~(Copying(p) /\ pc[p] \in {"push", "freed", "map"}) /\ ~UnmapReturns(p)
  BY DEF UnmapReturns
<1>4. \A v \in 0 .. sz[p] - 1 : v \in VPages /\ Mapped(p, v)
  BY <1>2, <1>3, AllThere
<1> QED
  BY <1>0, <1>1, <1>2, <1>3, <1>4

(* A step of these that leaves the table alone and does not write its       *)
(* frames is not seen.                                                      *)
LEMMA PrivateWait ==
    ASSUME NoTextBuffers, PrivateInv, NEW p \in Procs, AllocStep(p),
           pc[p] \in {"alloc", "count", "move", "fill"},
           pc'[p] \notin {"zombie", "unused", "embryo"},
           k'[p].op \notin {"freeproc", "shrink"},
           pt' = pt, sz' = sz, ViewOK(p)',
           \A v \in VPages : Mapped(p, v) => mem'[pt[p][v].pa] = mem[pt[p][v].pa]
    PROVE  Refines /\ ViewInv'
<1>0. MemoryInv
  BY DEF PrivateInv
<1>1. /\ Live(p) /\ Size(p) = sz[p] /\ ~(Copying(p) /\ pc[p] \in {"push", "freed", "map"})
      /\ ~UnmapReturns(p) /\ \A v \in 0 .. sz[p] - 1 : v \in VPages /\ Mapped(p, v)
  BY <1>0, InAlloc
<1>2. Live(p)' /\ Size(p)' = sz[p]
  BY DEF Live, Size
<1>3. Unseen(p)
  BY <1>0, <1>1, <1>2, TableUnseen
<1> QED
  BY <1>1, <1>3, OthersUnseen, RefinesStutter

(* The pages that uvmalloc has filled so far stay zero. *)
LEMMA StillZero ==
    ASSUME PrivateInv, NEW p \in Procs, pc'[p] \in {"count", "fill", "move"},
           k'[p].op = k[p].op, k'[p].va = k[p].va, pt' = pt, sz' = sz,
           \A v \in VPages : Mapped(p, v) => mem'[pt[p][v].pa] = mem[pt[p][v].pa]
    PROVE  ViewOK(p)'
<1>1. ASSUME k[p].op = "grow", NEW v \in VPages, sz[p] <= v, v < k[p].va
      PROVE  mem'[pt[p][v].pa] = Zero
  <2>1. MemoryInv /\ ViewOK(p)
    BY ViewSplit DEF PrivateInv
  <2>2. Mapped(p, v)
    BY <1>1, <2>1, InTheTable
  <2> QED
    BY <1>1, <2>1, <2>2 DEF ViewOK
<1> QED
  BY <1>1 DEF ViewOK

(* kalloc. *)
LEMMA PrivateKalloc ==
    ASSUME NoTextBuffers, PrivateInv, NEW p \in Procs,
           (\E f \in Frames : KallocPop(p, f)) \/ KallocCount(p) \/ KallocFails(p)
    PROVE  Refines /\ ViewInv'
<1>0. MemoryInv /\ MemoryTypes /\ pc[p] \in {"alloc", "count"} /\ AllocStep(p)
  BY SplitTypes DEF PrivateInv, MemoryInv, KallocPop, KallocCount, KallocFails, AllocStep
<1>1. /\ CallTypes /\ k[p].op \in {"fault", "copyout", "grow"} /\ Live(p)
      /\ sz[p] \in Nat /\ k[p].va \in Nat
  BY <1>0, InAlloc
<1>2. ASSUME NEW f \in Frames, KallocPop(p, f)
      PROVE  Refines /\ ViewInv'
  <2>1. /\ f \in free /\ mem' = [mem EXCEPT ![f] = Junk] /\ pt' = pt /\ sz' = sz
        /\ pc'[p] = "count" /\ k'[p].op = k[p].op /\ k'[p].va = k[p].va
    BY <1>1, <1>2 DEF KallocPop, Goto, CallTypes, Locals
  <2>2. \A v \in VPages : Mapped(p, v) => mem'[pt[p][v].pa] = mem[pt[p][v].pa]
    <3>1. \A v \in VPages : pt[p][v].pa # f
      BY <1>0, <2>1, FreeAlone
    <3> QED
      BY <1>0, <2>1, <3>1 DEF MemoryTypes, PTE, Mapped
  <2>3. ViewOK(p)'
    BY <2>1, <2>2, StillZero
  <2> QED
    BY <1>0, <1>1, <2>1, <2>2, <2>3, PrivateWait
<1>3. CASE KallocCount(p)
  <2>1. /\ pc'[p] \in {"fill", "move"} /\ k' = k /\ pt' = pt /\ sz' = sz /\ mem' = mem
    BY <1>1, <1>3 DEF KallocCount, Goto, CallTypes
  <2>2. ViewOK(p)'
    BY <2>1, StillZero
  <2> QED
    BY <1>0, <1>1, <2>1, <2>2, PrivateWait
<1>4. CASE KallocFails(p)
  <2>1. pc[p] = "alloc" /\ pt' = pt /\ sz' = sz /\ mem' = mem
    BY <1>4 DEF KallocFails
  <2>2. \/ Return(p, "zombie")
        \/ Return(p, "user")
        \/ StartUnmap(p, "undo", sz[p], k[p].va)
    BY <1>4 DEF KallocFails, UndoGrow
  <2>3. CASE Return(p, "zombie")
    BY <1>0, <1>1, <2>1, <2>3, PrivateExit
  <2>4. CASE ~Return(p, "zombie")
    <3>1. \/ pc'[p] = "user" /\ k'[p].op = "none"
          \/ pc'[p] = "check" /\ k'[p].op = "undo"
      BY <1>1, <2>2, <2>4, Names, ReturnEffect, UnmapEffect
    <3>2. ViewOK(p)'
      BY <3>1, NothingToSee
    <3> QED
      BY <1>0, <2>1, <3>1, <3>2, PrivateWait
  <2> QED
    BY <2>3, <2>4
<1> QED
  BY <1>2, <1>3, <1>4

(* Writing the frame that a call holds changes no mapped page. *)
LEMMA HeldWrite ==
    ASSUME MemoryInv, NEW p \in Procs, Holding(p), NEW x, mem' = [mem EXCEPT ![k[p].new] = x]
    PROVE  /\ mem'[k[p].new] = x
           /\ \A v \in VPages : Mapped(p, v) => mem'[pt[p][v].pa] = mem[pt[p][v].pa]
<1>1. MemoryTypes
  BY SplitTypes DEF MemoryInv
<1>2. k[p].new \in Frames /\ \A v \in VPages : pt[p][v].pa # k[p].new
  BY HeldAlone
<1> QED
  BY <1>1, <1>2 DEF MemoryTypes, PTE, Mapped

(* The copy of a page, which nobody sees yet, and the page that uvmalloc     *)
(* cannot map.                                                              *)
LEMMA PrivateCopy ==
    ASSUME NoTextBuffers, PrivateInv, NEW p \in Procs, CopyPage(p) \/ FillFails(p)
    PROVE  Refines /\ ViewInv'
<1>0. MemoryInv /\ pc[p] \in {"move", "fill"} /\ AllocStep(p) /\ Holding(p) /\ pt' = pt /\ sz' = sz
  BY DEF PrivateInv, CopyPage, FillFails, AllocStep, Holding
<1>1. /\ CallTypes /\ k[p].op \in {"fault", "copyout", "grow"} /\ k[p].op \in Ops
      /\ k[p].va \in Nat /\ k[p].va + 1 \in Nat
  BY <1>0, InAlloc
<1>2. CASE CopyPage(p)
  <2>1. /\ pc[p] = "move" /\ mem' = [mem EXCEPT ![k[p].new] = mem[pt[p][k[p].va].pa]]
        /\ StartUnmap(p, k[p].op, k[p].va, k[p].va + 1)
    BY <1>2 DEF CopyPage
  <2>2. pc'[p] = "check" /\ k'[p].op = k[p].op /\ k'[p].va = k[p].va /\ k'[p].new = k[p].new
    BY SMTT(30), <1>1, <2>1, UnmapEffect
  <2>3. /\ mem'[k[p].new] = mem[pt[p][k[p].va].pa]
        /\ \A v \in VPages : Mapped(p, v) => mem'[pt[p][v].pa] = mem[pt[p][v].pa]
    BY ZenonT(30), <1>0, <2>1, HeldWrite
  <2>4. Copying(p) /\ k[p].va \in VPages /\ Mapped(p, k[p].va)
    <3>1. Copying(p)
      BY SMTT(30), <1>0, <2>1 DEF MemoryInv, LocalInv, CallOK
    <3> QED
      BY SMTT(30), <1>0, <2>1, <3>1, InTheTable
  <2>5. ViewOK(p)'
    BY <1>0, <2>2, <2>3, <2>4 DEF ViewOK, Copying
  <2> QED
    BY SMTT(30), <1>0, <1>1, <2>2, <2>3, <2>5, PrivateWait
<1>3. CASE FillFails(p)
  <2>1. /\ mem' = [mem EXCEPT ![k[p].new] = Zero]
        /\ StartUnmap(p, "discard", k[p].va, k[p].va + 1)
    BY <1>3 DEF FillFails
  <2>2. pc'[p] = "check" /\ k'[p].op = "discard"
    BY <1>1, <2>1, Names, UnmapEffect
  <2>3. \A v \in VPages : Mapped(p, v) => mem'[pt[p][v].pa] = mem[pt[p][v].pa]
    BY <1>0, <2>1, HeldWrite
  <2>4. ViewOK(p)'
    BY <2>2, NothingToSee
  <2> QED
    BY <1>0, <2>2, <2>3, <2>4, PrivateWait
<1> QED
  BY <1>2, <1>3

(* The copy is mapped; copyout also writes to it. *)
LEMMA PrivateMap ==
    ASSUME NoTextBuffers, PrivateInv, NEW p \in Procs, NEW x \in Vals, MapCopy(p, x)
    PROVE  Refines /\ ViewInv'
<1>0. /\ MemoryInv /\ ControlTypes /\ MemoryTypes /\ CallOK(p) /\ MapOK(p)
      /\ pc[p] = "map" /\ AllocStep(p) /\ ~UnmapReturns(p) /\ sz' = sz
      /\ pt' = [pt EXCEPT ![p][k[p].va] = [pa |-> k[p].new, w |-> TRUE, cow |-> FALSE]]
  BY SplitTypes DEF PrivateInv, MemoryInv, LocalInv, MapCopy, AllocStep, UnmapReturns
<1>1. /\ sz[p] \in Nat /\ sz[p] <= NPAGES /\ NPAGES \in Nat
      /\ k[p].va \in Nat /\ k[p].end \in Nat
  BY <1>0, SizeIsNat, LocalsFields, ConstantsAssumption DEF ControlTypes
<1>2. Copying(p) /\ k[p].va < sz[p] /\ k[p].va \in VPages /\ Holding(p)
  BY <1>0, <1>1 DEF CallOK, VPages, Holding, Copying
<1>3. k[p].new \in Frames /\ \A u \in VPages : pt[p][u].pa # k[p].new
  BY <1>0, <1>2, HeldAlone
<1>4. ~Mapped(p, k[p].va)
  BY <1>0, <1>1, <1>2 DEF MapOK, Present, ToGo, Looping, Copying
<1>5. /\ pc'[p] = "user" /\ k'[p].op = "none"
  BY <1>0, Names, ReturnEffect DEF MapCopy, ControlTypes
<1>6. Live(p) /\ Live(p)' /\ Size(p) = sz[p] /\ Size(p)' = Size(p)
  BY <1>0, <1>2, <1>5 DEF Live, Size, Copying
<1>7. ASSUME NEW u \in 0 .. sz[p] - 1
      PROVE  /\ FrameOf(p, u)' = FrameOf(p, u) /\ FrameOf(p, u) \in Frames
             /\ u # k[p].va => FrameOf(p, u) # k[p].new
  <2>1. u \in VPages /\ FrameOf(p, u) \in Frames /\ (u # k[p].va => Mapped(p, u) /\ FrameOf(p, u) = pt[p][u].pa)
    BY SMTT(30), <1>0, <1>6, Covered
  <2>2. CASE u = k[p].va
    <3>1. pt'[p][u].pa = k[p].new
      BY <1>0, <1>2, <2>2 DEF MemoryTypes
    <3> QED
      BY <1>3, <1>4, <2>1, <2>2, <3>1, ConstantsAssumption DEF FrameOf, Mapped
  <2>3. CASE u # k[p].va
    <3>1. pt'[p][u] = pt[p][u]
      BY <1>0, <1>2, <2>1, <2>3 DEF MemoryTypes
    <3> QED
      BY <1>3, <2>1, <2>3, <3>1 DEF FrameOf, Mapped
  <2> QED
    BY <2>2, <2>3
<1>8. ViewOK(p)'
  BY <1>5, NothingToSee
<1>9. (\A q \in Procs \ {p} : Unseen(q)) /\ ViewInv'
  BY <1>0, <1>8, OthersUnseen
<1>10. CASE mem' = mem
  <2>1. Unseen(p)
    BY <1>0, <1>6, <1>7, <1>10, SelfUnseen
  <2> QED
    BY <1>9, <2>1, RefinesStutter
<1>11. CASE mem' = [mem EXCEPT ![k[p].new] = x]
  <2>1. PICK v \in 0 .. sz[p] - 1 : v = k[p].va
    BY <1>1, <1>2
  <2>2. FrameOf(p, v) = k[p].new
    BY <1>4, <2>1 DEF FrameOf, Mapped
  <2>3. mem'[FrameOf(p, v)'] = x
    <3>1. FrameOf(p, v)' = k[p].new
      BY <1>7, <2>2
    <3> QED
      BY <1>0, <1>3, <1>11, <3>1 DEF MemoryTypes
  <2>4. ASSUME NEW u \in 0 .. sz[p] - 1, u # v
        PROVE  mem'[FrameOf(p, u)'] = mem[FrameOf(p, u)]
    <3>1. FrameOf(p, u)' = FrameOf(p, u) /\ FrameOf(p, u) \in Frames /\ FrameOf(p, u) # k[p].new
      BY <1>7, <2>1, <2>4
    <3> QED
      BY <1>0, <1>11, <3>1 DEF MemoryTypes
  <2> QED
    BY SMTT(30), <1>0, <1>6, <1>9, <2>3, <2>4, RefinesWrite
<1> QED
  BY <1>10, <1>11 DEF MapCopy

(* uvmalloc maps a zero page.  The process sees the new pages, all at once, *)
(* when growproc sets its size.                                             *)
LEMMA PrivateFill ==
    ASSUME NoTextBuffers, PrivateInv, NEW p \in Procs, FillPage(p)
    PROVE  Refines /\ ViewInv'
<1>0. /\ MemoryInv /\ MemoryTypes /\ CallOK(p) /\ ViewOK(p)
      /\ pc[p] = "fill" /\ AllocStep(p) /\ Holding(p)
      /\ pt' = [pt EXCEPT ![p][k[p].va] = [pa |-> k[p].new, w |-> TRUE, cow |-> FALSE]]
      /\ mem' = [mem EXCEPT ![k[p].new] = Zero]
  BY SplitTypes, ViewSplit DEF PrivateInv, MemoryInv, LocalInv, FillPage, AllocStep, Holding
<1>1. /\ CallTypes /\ Live(p) /\ Size(p) = sz[p] /\ ~UnmapReturns(p)
      /\ ~(Copying(p) /\ pc[p] \in {"push", "freed", "map"})
      /\ sz[p] \in Nat /\ sz[p] <= NPAGES /\ NPAGES \in Nat
      /\ k[p].va \in Nat /\ k[p].arg \in Nat
  BY <1>0, InAlloc
<1>2. /\ k[p].op = "grow" /\ sz[p] <= k[p].va /\ k[p].va < k[p].arg /\ k[p].arg <= NPAGES
      /\ k[p].va \in VPages
  BY <1>0, <1>1 DEF CallOK, VPages
<1>3. /\ k[p].new # NoFrame /\ mem'[k[p].new] = Zero
      /\ \A v \in VPages : Mapped(p, v) => mem'[pt[p][v].pa] = mem[pt[p][v].pa]
  BY ZenonT(30), <1>0, HeldWrite, HeldAlone, ConstantsAssumption
<1>4. pt'[p][k[p].va].pa = k[p].new /\ \A v \in VPages : v # k[p].va => pt'[p][v] = pt[p][v]
  BY <1>0, <1>2 DEF MemoryTypes
<1>5. ASSUME NEW v \in VPages, v < k[p].va
      PROVE  /\ Mapped(p, v) /\ pt'[p][v].pa = pt[p][v].pa
             /\ mem'[pt'[p][v].pa] = IF v < sz[p] THEN mem[pt[p][v].pa] ELSE Zero
  <2>1. Mapped(p, v) /\ pt'[p][v] = pt[p][v] /\ v \in Int
    BY SMTT(30), <1>0, <1>1, <1>2, <1>4, <1>5, InTheTable DEF VPages
  <2> QED
    BY SMTT(30), <1>0, <1>1, <1>2, <1>3, <1>5, <2>1 DEF ViewOK
<1>6. CASE k[p].va + 1 = k[p].arg
  <2>1. pc'[p] = "user" /\ k'[p].op = "none" /\ sz'[p] = k[p].arg
    BY <1>0, <1>1, <1>6, Names, ReturnEffect, SplitTypes DEF FillPage, MemoryInv, ControlTypes
  <2>2. Live(p)' /\ Size(p)' = k[p].arg /\ ViewOK(p)'
    BY <2>1, NothingToSee DEF Live, Size
  <2>3. ASSUME NEW v \in 0 .. k[p].arg - 1
        PROVE  mem'[FrameOf(p, v)'] = IF v < sz[p] THEN mem[FrameOf(p, v)] ELSE Zero
    <3>1. v \in VPages
      BY <1>1, <1>2 DEF VPages
    <3>2. CASE v < k[p].va
      BY SMTT(30), <1>5, <3>1, <3>2 DEF FrameOf, Mapped
    <3>3. CASE ~(v < k[p].va)
      <4>1. v = k[p].va /\ ~(v < sz[p])
        BY <1>1, <1>2, <1>6, <3>3
      <4> QED
        BY <1>3, <1>4, <4>1 DEF FrameOf
    <3> QED
      BY <3>2, <3>3
  <2>4. (\A q \in Procs \ {p} : Unseen(q)) /\ ViewInv'
    BY <1>0, <1>1, <2>2, OthersUnseen
  <2>5. k[p].arg \in 0 .. NPAGES
    BY <1>1, <1>2
  <2> QED
    BY SMTT(30), <1>1, <2>2, <2>3, <2>4, <2>5, RefinesResize
<1>7. CASE k[p].va + 1 # k[p].arg
  <2>0. StartAlloc(p, "grow", k[p].va + 1, k[p].arg) /\ sz' = sz /\ k[p].va + 1 \in Nat
    BY <1>1, <1>7 DEF FillPage
  <2>1. pc'[p] = "alloc" /\ k'[p].op = "grow" /\ k'[p].va = k[p].va + 1
    BY <1>1, <2>0, Names, AllocEffect
  <2>2. Live(p)' /\ Size(p)' = sz[p]
    BY <2>0, <2>1 DEF Live, Size
  <2>3. ASSUME NEW v \in VPages, sz[p] <= v, v < k[p].va + 1
        PROVE  mem'[pt'[p][v].pa] = Zero
    <3>1. ~(v < sz[p]) /\ (v < k[p].va \/ v = k[p].va)
      BY <1>1, <2>3 DEF VPages
    <3> QED
      BY <1>3, <1>4, <1>5, <3>1
  <2>4. ViewOK(p)'
    BY <2>0, <2>1, <2>3 DEF ViewOK, Copying
  <2>5. ASSUME NEW v \in 0 .. sz[p] - 1
        PROVE  pt'[p][v].pa = pt[p][v].pa /\ mem'[pt[p][v].pa] = mem[pt[p][v].pa]
    <3>1. v \in VPages /\ v < k[p].va /\ v < sz[p]
      BY <1>1, <1>2 DEF VPages
    <3> QED
      BY <1>5, <3>1
  <2>6. Unseen(p)
    BY <1>0, <1>1, <2>2, <2>5, TableUnseen
  <2> QED
    BY SMTT(30), <1>0, <1>1, <2>4, <2>6, OthersUnseen, RefinesStutter
<1> QED
  BY <1>6, <1>7

(* The steps of the calls that allocate. *)
LEMMA PrivateAlloc ==
    ASSUME NoTextBuffers, PrivateInv, NEW p \in Procs, AllocStep(p)
    PROVE  Refines /\ ViewInv'
BY ZenonT(30), PrivateKalloc, PrivateCopy, PrivateMap, PrivateFill DEF AllocStep

-----------------------------------------------------------------------------
(* The steps of the calls that free.                                        *)

(* In the uvmunmap loop: what the locals say of the page that is freed. *)
LEMMA InFree ==
    ASSUME MemoryInv, NEW p \in Procs, Looping(p)
    PROVE  /\ CallTypes /\ MemoryTypes /\ NPAGES \in Nat /\ sz[p] \in Nat
           /\ k[p].op \in Ops /\ k[p].va \in Nat /\ k[p].end \in Nat /\ k[p].arg \in Nat
           /\ k[p].va \in VPages /\ Size(p) \in Nat
           /\ Live(p) <=> k[p].op # "freeproc"
           /\ k[p].op \in {"fault", "copyout", "discard", "undo", "shrink", "freeproc"}
           /\ Copying(p) => k[p].end = k[p].va + 1
           /\ Live(p) => Copying(p) \/ Size(p) <= k[p].va
<1>0. /\ CallTypes /\ MemoryTypes /\ CallOK(p) /\ NPAGES \in Nat /\ sz[p] \in Nat
      /\ k[p].op \in Ops /\ k[p].va \in Nat /\ k[p].end \in Nat /\ k[p].arg \in Nat
  BY SMTT(30), SplitTypes, SizeIsNat, LocalsFields, ConstantsAssumption DEF MemoryInv, LocalInv, ControlTypes
<1>1. /\ k[p].op \in {"fault", "copyout", "discard", "undo", "shrink", "freeproc"}
      /\ k[p].va < k[p].end /\ k[p].end <= NPAGES
  BY <1>0 DEF CallOK, Copying
<1>2. k[p].va \in VPages /\ Size(p) \in Nat
  BY <1>0, <1>1 DEF VPages, Size
<1>3. (Live(p) <=> k[p].op # "freeproc") /\ (Copying(p) => k[p].end = k[p].va + 1)
  BY <1>0 DEF Live, Looping, CallOK
<1>4. Live(p) => Copying(p) \/ Size(p) <= k[p].va
  BY <1>0, <1>1, <1>3 DEF CallOK, Size, Copying
<1> QED
  BY SMTT(30), <1>0, <1>1, <1>2, <1>3, <1>4

(* A step of the loop that changes neither tables nor memory is not seen. *)
LEMMA PrivateLoop ==
    ASSUME NoTextBuffers, PrivateInv, NEW p \in Procs, FreeStep(p), Looping(p),
           ~(UnmapReturns(p) /\ k[p].op = "freeproc"),
           pt' = pt, mem' = mem, Live(p)' <=> Live(p), Live(p) => Size(p)' = Size(p),
           Live(p) => k'[p].new = k[p].new \/ ~Copying(p), ViewOK(p)'
    PROVE  Refines /\ ViewInv'
<1>0. MemoryInv
  BY DEF PrivateInv
<1>1. CASE ~Live(p)
  BY <1>1, DeadUnseen, OthersUnseen, RefinesStutter
<1>2. CASE Live(p)
  <2>1. ASSUME NEW v \in 0 .. Size(p) - 1
        PROVE  FrameOf(p, v)' = FrameOf(p, v)
    <3>1. Mapped(p, v) \/ Copying(p)
      BY <1>0, <1>2, Covered
    <3> QED
      BY <1>2, <3>1 DEF FrameOf, Mapped
  <2>2. Unseen(p)
    BY <1>0, <1>2, <2>1, SelfUnseen
  <2> QED
    BY <2>2, OthersUnseen, RefinesStutter
<1> QED
  BY <1>1, <1>2

(* kfree drops a reference: the page is above the size of the process, or   *)
(* its copy takes its place.                                                *)
LEMMA PrivateDrop ==
    ASSUME NoTextBuffers, PrivateInv, NEW p \in Procs, KfreeDrop(p)
    PROVE  Refines /\ ViewInv'
<1>0. /\ MemoryInv /\ ViewOK(p) /\ pc[p] = "drop" /\ Looping(p) /\ FreeStep(p) /\ ~UnmapReturns(p)
      /\ sz' = sz /\ pt' = [pt EXCEPT ![p][k[p].va] = Unmapped]
  BY ViewSplit DEF PrivateInv, KfreeDrop, FreeStep, Looping, UnmapReturns
<1>1. /\ CallTypes /\ MemoryTypes /\ k[p].va \in VPages /\ Size(p) \in Nat
      /\ k[p].op \in {"fault", "copyout", "discard", "undo", "shrink", "freeproc"}
      /\ Live(p) => Copying(p) \/ Size(p) <= k[p].va
  BY <1>0, InFree
<1>2. /\ pc'[p] \in {"push", "freed"}
      /\ k'[p].op = k[p].op /\ k'[p].arg = k[p].arg /\ k'[p].new = k[p].new
  BY <1>1 DEF KfreeDrop, Goto, CallTypes, Locals
<1>3. (Live(p)' <=> Live(p)) /\ Size(p)' = Size(p) /\ ViewOK(p)'
  BY SMTT(30), <1>0, <1>1, <1>2, NothingToSee DEF Live, Size
<1>4. pt'[p][k[p].va] = Unmapped /\ \A v \in VPages : v # k[p].va => pt'[p][v] = pt[p][v]
  BY <1>0, <1>1 DEF MemoryTypes
<1>5. /\ \A v \in VPages : Mapped(p, v) /\ v # k[p].va => mem'[pt[p][v].pa] = mem[pt[p][v].pa]
      /\ Copying(p) => mem'[k[p].new] = mem[k[p].new]
  <2>1. \/ mem' = mem
        \/ ref[Victim(p)] = 1 /\ mem' = [mem EXCEPT ![Victim(p)] = Junk]
    BY DEF KfreeDrop
  <2>2. CASE k[p].op = "discard" /\ mem' = [mem EXCEPT ![Victim(p)] = Junk]
    <3>1. Holding(p) /\ Victim(p) = k[p].new /\ ~Copying(p)
      BY SMTT(30), <1>0, <2>2 DEF Holding, Victim, Copying
    <3> QED
      BY ZenonT(30), <1>0, <2>2, <3>1, HeldWrite
  <2>3. CASE k[p].op # "discard" /\ ref[Victim(p)] = 1 /\ mem' = [mem EXCEPT ![Victim(p)] = Junk]
    <3>1. Victim(p) = pt[p][k[p].va].pa /\ Victim(p) \in Frames
      BY SMTT(30), <1>0, <2>3, VictimIsFrame, SplitTypes DEF Victim, MemoryInv
    <3>2. Alone(p, k[p].va)
      BY SMTT(30), <1>0, <1>1, <2>3, <3>1, WriterAlone
    <3>3. Copying(p) => k[p].new \in Frames /\ k[p].new # Victim(p)
      BY <1>0, <3>1, <3>2, HeldAlone DEF Alone, Holding, Copying
    <3> QED
      BY SMTT(30), <1>1, <2>3, <3>1, <3>2, <3>3 DEF Alone, MemoryTypes, PTE, Mapped
  <2> QED
    BY <2>1, <2>2, <2>3
<1>6. ASSUME Live(p), NEW v \in 0 .. Size(p) - 1
      PROVE  mem'[FrameOf(p, v)'] = mem[FrameOf(p, v)]
  <2>1. v \in VPages /\ Mapped(p, v) /\ FrameOf(p, v) = pt[p][v].pa
    BY <1>0, <1>6, AllThere
  <2>2. CASE v # k[p].va
    BY SMTT(30), <1>4, <1>5, <2>1, <2>2 DEF FrameOf, Mapped
  <2>3. CASE v = k[p].va
    <3>1. Copying(p)
      BY <1>1, <1>6, <2>3 DEF VPages
    <3>2. FrameOf(p, v)' = k[p].new
      BY <1>2, <1>4, <2>3 DEF FrameOf, Unmapped
    <3> QED
      BY SMTT(30), <1>0, <1>5, <2>1, <2>3, <3>1, <3>2 DEF ViewOK
  <2> QED
    BY <2>2, <2>3
<1>7. Unseen(p)
  BY SMTT(30), <1>0, <1>3, <1>6, SelfUnseen, DeadUnseen
<1> QED
  BY SMTT(30), <1>0, <1>3, <1>7, OthersUnseen, RefinesStutter

(* freeproc(np) is done: the slot is free again, and the parent of a failed *)
(* fork goes on.                                                            *)
LEMMA PrivateFreed ==
    ASSUME NoTextBuffers, PrivateInv, NEW p \in Procs, UnmapReturns(p), k[p].op = "freeproc"
    PROVE  Refines /\ ViewInv'
<1>0. /\ MemoryInv /\ ControlTypes /\ LocalInv /\ ForkInv /\ FreeStep(p)
      /\ pc[p] = "freed" /\ UNCHANGED <<pt, mem>>
      /\ sz' = [sz EXCEPT ![p] = 0]
      /\ pc' = [q \in Procs |-> IF q = p THEN "unused"
                                ELSE IF Unforking(q, p) THEN "user" ELSE pc[q]]
      /\ k' = [q \in Procs |-> IF q = p \/ Unforking(q, p) THEN NoLocals(q) ELSE k[q]]
  BY SplitTypes DEF PrivateInv, MemoryInv, UnmapReturns, FreeStep
<1>1. \A q \in Procs : Unwritten(q)
  BY <1>0 DEF Unwritten
<1>2. Aside
  BY <1>0, LocalFree, SplitTypes DEF MemoryInv
<1>3. Unseen(p) /\ ViewOK(p)'
  <2>1. pc'[p] = "unused" /\ k'[p].op = "none"
    BY <1>0, NoLocalsFields
  <2>2. ~Live(p) /\ ~Live(p)'
    BY <2>1 DEF Live
  <2> QED
    BY <2>1, <2>2, DeadUnseen, NothingToSee
<1>4. ASSUME NEW q \in Procs \ {p}, ~Unforking(q, p)
      PROVE  Unseen(q) /\ ViewOK(q)'
  <2>1. Same(q)
    BY <1>0, <1>4 DEF Same, ControlTypes
  <2>2. pc[q] = "fork" => Same(k[q].child)
    BY SMTT(30), <1>0, <1>2, Forking DEF Aside
  <2> QED
    BY SMTT(30), <1>0, <1>1, <2>1, <2>2, SameUnseen, SameViewOK, ViewSplit DEF PrivateInv
<1>5. ASSUME NEW q \in Procs \ {p}, Unforking(q, p)
      PROVE  Unseen(q) /\ ViewOK(q)'
  <2>1. pc[q] = "unfork" /\ k[q].op = "none"
    BY SMTT(30), <1>0, <1>5 DEF Unforking, LocalInv, CallOK
  <2>2. pc'[q] = "user" /\ k'[q].op = "none" /\ sz'[q] = sz[q]
    BY <1>0, <1>5, NoLocalsFields DEF ControlTypes
  <2>3. Live(q) /\ Live(q)' /\ Size(q)' = Size(q) /\ ~Copying(q)
    BY <2>1, <2>2 DEF Live, Size, Copying
  <2> QED
    BY SMTT(30), <1>0, <2>2, <2>3, TableUnseen, NothingToSee
<1>6. \A q \in Procs : Unseen(q) /\ ViewOK(q)'
  BY <1>3, <1>4, <1>5
<1>7. ViewInv' <=> \A q \in Procs : ViewOK(q)'
  BY DEF ViewInv, ViewOK
<1> QED
  BY <1>6, <1>7, RefinesStutter

(* The rest of kfree and of the loop. *)
LEMMA PrivateFree ==
    ASSUME NoTextBuffers, PrivateInv, NEW p \in Procs, FreeStep(p)
    PROVE  Refines /\ ViewInv'
<1>0. MemoryInv /\ ViewOK(p) /\ Looping(p)
  BY ViewSplit DEF PrivateInv, FreeStep, KfreeCheck, KfreeDrop, KfreePush, NextPage, UnmapReturns, Looping
<1>1. /\ CallTypes /\ k[p].op \in Ops /\ k[p].va \in Nat /\ k[p].end \in Nat /\ sz[p] \in Nat
      /\ k[p].op \in {"fault", "copyout", "discard", "undo", "shrink", "freeproc"}
      /\ Copying(p) => k[p].end = k[p].va + 1
      /\ Live(p) <=> k[p].op # "freeproc"
  BY <1>0, InFree
<1>2. CASE KfreeCheck(p)
  <2>1. pc[p] = "check" /\ pc'[p] \in {"check", "drop"} /\ UNCHANGED <<k, sz, pt, mem>> /\ ~UnmapReturns(p)
    BY <1>1, <1>2 DEF KfreeCheck, Goto, CallTypes, UnmapReturns
  <2>2. (Live(p)' <=> Live(p)) /\ Size(p)' = Size(p) /\ k'[p].new = k[p].new
    BY <2>1 DEF Live, Size
  <2>3. ViewOK(p)'
    BY SMTT(30), <1>0, <1>1, <2>1 DEF ViewOK, Copying
  <2> QED
    BY SMTT(30), <1>0, <2>1, <2>2, <2>3, PrivateLoop
<1>3. CASE KfreePush(p)
  <2>1. pc[p] = "push" /\ pc'[p] = "freed" /\ UNCHANGED <<k, sz, pt, mem>> /\ ~UnmapReturns(p)
    BY <1>1, <1>3 DEF KfreePush, Goto, CallTypes, UnmapReturns
  <2>2. (Live(p)' <=> Live(p)) /\ Size(p)' = Size(p) /\ k'[p].new = k[p].new
    BY <2>1 DEF Live, Size
  <2>3. ViewOK(p)'
    BY SMTT(30), <1>1, <2>1, NothingToSee
  <2> QED
    BY SMTT(30), <1>0, <2>1, <2>2, <2>3, PrivateLoop
<1>4. CASE NextPage(p)
  <2>0. /\ pc[p] = "freed" /\ k[p].va + 1 < k[p].end /\ k[p].va + 1 \in Nat
        /\ StartUnmap(p, k[p].op, k[p].va + 1, k[p].end) /\ UNCHANGED <<sz, pt, mem>>
    BY <1>1, <1>4 DEF NextPage
  <2>1. /\ pc'[p] = "check" /\ k'[p].op = k[p].op /\ k'[p].arg = k[p].arg /\ k'[p].new = k[p].new
    BY <1>1, <2>0, UnmapEffect
  <2>2. ~Copying(p) /\ ~UnmapReturns(p)
    BY <1>1, <2>0 DEF UnmapReturns
  <2>3. (Live(p)' <=> Live(p)) /\ Size(p)' = Size(p)
    BY <2>0, <2>1 DEF Live, Size
  <2>4. ViewOK(p)'
    BY SMTT(30), <1>1, <2>1, <2>2, NothingToSee DEF Copying
  <2> QED
    BY SMTT(30), <1>0, <2>0, <2>1, <2>2, <2>3, <2>4, PrivateLoop
<1>5. CASE UnmapReturns(p) /\ k[p].op # "freeproc"
  <2>0. pc[p] = "freed" /\ Live(p) /\ UNCHANGED <<pt, mem>>
    BY SMTT(30), <1>1, <1>5 DEF UnmapReturns
  <2>1. /\ pc'[p] \in {"map", "user", "check"}
        /\ pc'[p] = "map" => k' = k /\ sz' = sz
        /\ pc'[p] # "map" => k'[p].op \in {"none", "undo"} /\ ~Copying(p)
        /\ k[p].op = "shrink" => k'[p].op = "none" /\ sz'[p] = k[p].arg
        /\ k[p].op # "shrink" => sz' = sz
    <3>1. CASE Copying(p)
      BY SMTT(30), <1>1, <1>5, <3>1 DEF UnmapReturns, Copying, Goto, CallTypes
    <3>2. CASE k[p].op = "discard"
      BY <1>1, <1>5, <3>2, Names, ReturnEffect, UnmapEffect DEF UnmapReturns, UndoGrow, Copying
    <3>3. CASE k[p].op = "undo"
      BY SMTT(30), <1>1, <1>5, <3>3, Names, ReturnEffect DEF UnmapReturns, Copying
    <3>4. CASE k[p].op = "shrink"
      BY SMTT(30), <1>0, <1>1, <1>5, <3>4, Names, ReturnEffect DEF UnmapReturns, Copying, MemoryInv, TypeOK
    <3> QED
      BY SMTT(30), <1>1, <1>5, <3>1, <3>2, <3>3, <3>4 DEF Copying
  <2>2. Live(p)' /\ Size(p)' = Size(p)
    BY SMTT(30), <1>1, <1>5, <2>0, <2>1 DEF Live, Size
  <2>3. ViewOK(p)'
    BY <1>1, <2>1, NothingToSee DEF Copying
  <2> QED
    BY SMTT(30), <1>0, <1>5, <2>0, <2>1, <2>2, <2>3, PrivateLoop
<1> QED
  BY SMTT(30), <1>2, <1>3, <1>4, <1>5, PrivateDrop, PrivateFreed DEF FreeStep

-----------------------------------------------------------------------------
(* The refinement.                                                          *)

(* Every step keeps ViewInv, and is a step of PrivateMemory or not seen. *)
LEMMA PrivateStep ==
    ASSUME NoTextBuffers, PrivateInv, [Next]_vars
    PROVE  Refines /\ ViewInv'
<1>1. CASE UNCHANGED vars
  <2>1. Lives' = Lives /\ Views' = Views
    BY <1>1 DEF vars, Lives, Views, ViewOf, Live, Size, FrameOf
  <2>2. ViewInv'
    BY <1>1 DEF PrivateInv, ViewInv, vars, Copying
  <2> QED
    BY <2>1, <2>2, AsStutter DEF Refines
<1>2. ASSUME NEW p \in Procs, UserStep(p) \/ AllocStep(p) \/ FreeStep(p) \/ ForkStep(p)
      PROVE  Refines /\ ViewInv'
  <2>1. CASE ForkStep(p)
    BY <2>1, PrivateForkStart, PrivateForkPage, PrivateForkFails, PrivateForkReturns DEF ForkStep
  <2> QED
    BY <1>2, <2>1, PrivateUser, PrivateAlloc, PrivateFree
<1> QED
  BY <1>1, <1>2, StepCases

(* The first process has its memory, all zero, and nobody else has one. *)
LEMMA PrivateInit == Init => Private!Init /\ TextInv /\ ViewInv
<1> SUFFICES ASSUME Init PROVE Private!Init /\ TextInv /\ ViewInv
  OBVIOUS
<1>0. IMAGE \in 0 .. NPAGES /\ NPAGES \in Nat /\ TEXT \in Nat /\ NoFrame \notin Frames
  BY ConstantsAssumption
<1>1. PICK first \in Procs, frame \in [0 .. IMAGE - 1 -> Frames] :
        /\ pc = [p \in Procs |-> IF p = first THEN "user" ELSE "unused"]
        /\ sz = [p \in Procs |-> IF p = first THEN IMAGE ELSE 0]
        /\ pt = [p \in Procs |-> [v \in VPages |->
                    IF p = first /\ v < IMAGE
                    THEN [pa |-> frame[v], w |-> v >= TEXT, cow |-> FALSE]
                    ELSE Unmapped]]
        /\ mem = [f \in Frames |-> IF \E v \in 0 .. IMAGE - 1 : frame[v] = f THEN Zero ELSE Junk]
        /\ k = [p \in Procs |-> NoLocals(p)]
  BY Zenon DEF Init
<1>2. \A p \in Procs : /\ k[p].op = "none"
                       /\ (Live(p) <=> p = first)
                       /\ pc[p] # "fork"
  BY <1>1, NoLocalsFields DEF Live
<1>3. Size(first) = IMAGE
  BY <1>1, <1>2 DEF Size
<1>4. ASSUME NEW v \in 0 .. IMAGE - 1
      PROVE  mem[FrameOf(first, v)] = Zero
  <2>1. v \in VPages /\ v < IMAGE
    BY <1>0 DEF VPages
  <2>2. pt[first][v].pa = frame[v] /\ frame[v] \in Frames
    BY <1>1, <2>1
  <2>3. FrameOf(first, v) = frame[v]
    BY <1>0, <2>2 DEF FrameOf
  <2> QED
    BY <1>1, <2>2, <2>3
<1>5. ViewOf(first) = [v \in 0 .. IMAGE - 1 |-> Zero]
  BY <1>2, <1>3, <1>4 DEF ViewOf
<1>6. Lives = {first} /\ Views = [q \in Procs |-> IF q = first THEN [v \in 0 .. IMAGE - 1 |-> Zero]
                                                  ELSE [v \in {} |-> Zero]]
  <2>1. Lives = {first}
    BY <1>2 DEF Lives
  <2>2. \A q \in Procs : q # first => ViewOf(q) = [v \in {} |-> Zero]
    BY <1>2 DEF ViewOf
  <2> QED
    BY <1>5, <2>1, <2>2 DEF Views
<1>7. Private!Init
  BY <1>0, <1>6 DEF Private!Init, Private!Empty, Lives, Views, ViewOf
<1>8. ViewInv
  BY <1>2 DEF ViewInv, Copying
<1>9. TextInv
  BY TextAtFirst
<1> QED
  BY <1>7, <1>8, <1>9

(* If no system call is given a buffer in the program text, copy-on-write   *)
(* is invisible: for any number of processes, pages and frames, fork, the   *)
(* page-fault handler, copyout, sbrk, exit and wait behave as if every      *)
(* process had its own memory, copied whole by fork, and written only by    *)
(* the process itself and by system calls that it makes.                    *)
THEOREM CopyOnWriteIsInvisible ==
    (\A v \in Buffers : ~(v < TEXT)) => (Spec => ImplementsPrivate)
<1> SUFFICES ASSUME \A v \in Buffers : ~(v < TEXT)
             PROVE  Spec => ImplementsPrivate
  OBVIOUS
<1>0. NoTextBuffers
  BY DEF NoTextBuffers
<1>1. Init => PrivateInv /\ Private!Init
  BY InitInv, PrivateInit DEF PrivateInv
<1>2. PrivateInv /\ [Next]_vars => PrivateInv' /\ [Private!Next]_(Private!vars)
  BY <1>0, PrivateStep, StepInv, TextStep DEF PrivateInv, Refines
<1> QED
  BY <1>1, <1>2, PTL DEF Spec, ImplementsPrivate, Private!Spec

=============================================================================
