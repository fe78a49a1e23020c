--------------------------- MODULE CowCallProofs ----------------------------
(***************************************************************************)
(* What the steps of the calls that have got a frame (uvmalloc, the        *)
(* page-fault handler, copyout), and of kfree and its callers (uvmunmap in *)
(* sbrk, in wait, in the page-fault handler and in copyout), keep of a     *)
(* process.                                                                *)
(***************************************************************************)
EXTENDS CowLocalProofs

(* The fault handler and copyout copy the page. *)
LEMMA LocalCopyPage ==
    ASSUME ControlTypes, MemoryTypes, LocalInv, NEW p \in Procs, CopyPage(p)
    PROVE  ControlTypes' /\ LocalInv' /\ Aside /\ (Quiet \/ Counting(p))
<1>t. /\ CallTypes /\ sz[p] \in Nat /\ sz[p] <= NPAGES /\ NPAGES \in Nat
      /\ k[p].va \in Nat /\ k[p].end \in Nat /\ k[p].arg \in Nat
      /\ k[p].op \in Ops /\ NoFrame \notin Frames
      /\ NoLocals(p).op = "none" /\ NoLocals(p).va = 0
  BY ConstantsAssumption, NoLocalsFields, SizeIsNat, LocalsFields DEF ControlTypes
<1>i. CallOK(p) /\ MapOK(p) /\ PteOK(p)
  BY DEF LocalInv
<1>1. StartUnmap(p, k[p].op, k[p].va, k[p].va + 1)
  BY DEF CopyPage
<1>2. /\ CallTypes'
      /\ pc'[p] = "check"
      /\ k'[p].op = k[p].op /\ k'[p].va = k[p].va /\ k'[p].end = k[p].va + 1
      /\ k'[p].new = k[p].new
      /\ \A q \in Procs \ {p} : pc'[q] = pc[q] /\ k'[q] = k[q]
  BY Names, <1>t, <1>1, UnmapEffect
<1>3. /\ ControlTypes'
      /\ pc[p] = "move"
      /\ sz' = sz /\ pt' = pt
      /\ ref' = ref /\ free' = free
      /\ \A q \in Procs \ {p} : Same(q)
  BY <1>t, <1>1, <1>2 DEF CopyPage, ControlTypes, Same
<1>4. LocalOK(p)'
  <2>1. CallOK(p)'
    BY <1>t, <1>i, <1>2, <1>3 DEF CallOK, Looping, Copying
  <2>2. \A v \in VPages : Present(p, v)' <=> Present(p, v)
    BY <1>t, <1>i, <1>2, <1>3 DEF CallOK, Looping, Copying, Present, ToGo, VPages
  <2> QED
    BY <1>i, <1>2, <1>3, <2>1, <2>2, TableKept
<1>5. Keeps(p)
  BY <1>t, <1>i, <1>2, <1>3 DEF Keeps, Held, Holding, Carried, CallOK, Looping, Copying
<1> QED
  BY <1>2, <1>3, <1>4, <1>5, OneProcess, OthersKeep

(* uvmalloc maps its last page. *)
LEMMA LocalFilled ==
    ASSUME ControlTypes, MemoryTypes, LocalInv, NEW p \in Procs, FillPage(p) /\ k[p].va + 1 = k[p].arg
    PROVE  ControlTypes' /\ LocalInv' /\ Aside /\ (Quiet \/ Counting(p))
<1>t. /\ CallTypes /\ sz[p] \in Nat /\ sz[p] <= NPAGES /\ NPAGES \in Nat
      /\ k[p].va \in Nat /\ k[p].end \in Nat /\ k[p].arg \in Nat
      /\ k[p].op \in Ops /\ NoFrame \notin Frames
      /\ NoLocals(p).op = "none" /\ NoLocals(p).va = 0
  BY ConstantsAssumption, NoLocalsFields, SizeIsNat, LocalsFields DEF ControlTypes
<1>i. CallOK(p) /\ MapOK(p) /\ PteOK(p)
  BY DEF LocalInv
<1>1. Return(p, "user") /\ sz' = [sz EXCEPT ![p] = k[p].arg]
  BY DEF FillPage
<1>2. k[p].arg \in 0 .. NPAGES
  BY <1>t, <1>i DEF FillPage, CallOK, Copying, VPages
<1>3. k[p].va \in VPages /\ k[p].new \in Frames
  BY <1>t, <1>i DEF FillPage, CallOK, Copying, VPages
<1>4. /\ CallTypes'
      /\ pc'[p] = "user" /\ k'[p] = NoLocals(p) /\ k'[p].op = "none"
      /\ \A q \in Procs \ {p} : pc'[q] = pc[q] /\ k'[q] = k[q]
  BY Names, <1>t, <1>1, <1>2, <1>3, ReturnEffect
<1>5. /\ ControlTypes'
      /\ pc[p] = "fill"
      /\ sz'[p] = k[p].va + 1
      /\ pt'[p][k[p].va].pa = k[p].new /\ pt'[p][k[p].va].w /\ ~pt'[p][k[p].va].cow
      /\ \A v \in VPages \ {k[p].va} : pt'[p][v] = pt[p][v]
      /\ \A q \in Procs \ {p} : Same(q)
  BY <1>t, <1>1, <1>2, <1>3, <1>4 DEF FillPage, ControlTypes, Same, MemoryTypes
<1>6. LocalOK(p)'
  <2>1. CallOK(p)'
    BY <1>t, <1>i, <1>2, <1>3, <1>4, <1>5 DEF CallOK, Looping, Copying
  <2>2. MapOK(p)'
    <3>1. pc[p] = "fill" /\ k[p].op = "grow"
      BY <1>i, <1>5 DEF CallOK, Looping, Copying
    <3>2. \A v \in VPages : Mapped(p, v) <=> v < k[p].va
      BY <1>t, <1>i, <3>1 DEF MapOK, Looping, Copying, Present, ToGo, VPages
    <3>3. \A v \in VPages : Mapped(p, v)' <=> v < sz'[p]
      BY <1>t, <1>3, <1>4, <1>5, <3>1, <3>2 DEF Mapped, VPages
    <3>4. \A v \in VPages : Present(p, v)' <=> v < sz'[p]
      BY <1>t, <1>3, <1>4, <1>5 DEF Looping, Copying, Present
    <3> QED
      BY <3>3, <3>4 DEF MapOK
  <2>3. PteOK(p)'
    BY <1>t, <1>i, <1>3, <1>4, <1>5 DEF PteOK, Mapped
  <2> QED
    BY <2>1, <2>2, <2>3 DEF LocalOK
<1> QED
  BY <1>4, <1>5, <1>6, OneProcess DEF Counting

(* uvmalloc maps a page and goes on. *)
LEMMA LocalFillPage ==
    ASSUME ControlTypes, MemoryTypes, LocalInv, NEW p \in Procs, FillPage(p) /\ k[p].va + 1 # k[p].arg
    PROVE  ControlTypes' /\ LocalInv' /\ Aside /\ (Quiet \/ Counting(p))
<1>t. /\ CallTypes /\ sz[p] \in Nat /\ sz[p] <= NPAGES /\ NPAGES \in Nat
      /\ k[p].va \in Nat /\ k[p].end \in Nat /\ k[p].arg \in Nat
      /\ k[p].op \in Ops /\ NoFrame \notin Frames
      /\ NoLocals(p).op = "none" /\ NoLocals(p).va = 0
  BY ConstantsAssumption, NoLocalsFields, SizeIsNat, LocalsFields DEF ControlTypes
<1>i. CallOK(p) /\ MapOK(p) /\ PteOK(p)
  BY DEF LocalInv
<1>1. StartAlloc(p, "grow", k[p].va + 1, k[p].arg) /\ sz' = sz
  BY DEF FillPage
<1>2. k[p].va \in VPages /\ k[p].new \in Frames
  BY <1>t, <1>i DEF FillPage, CallOK, Copying, VPages
<1>3. /\ CallTypes'
      /\ pc'[p] = "alloc"
      /\ k'[p].op = "grow" /\ k'[p].va = k[p].va + 1 /\ k'[p].arg = k[p].arg
      /\ \A q \in Procs \ {p} : pc'[q] = pc[q] /\ k'[q] = k[q]
  <2>1. CallTypes /\ "grow" \in Ops /\ k[p].va + 1 \in Nat /\ k[p].arg \in Nat
    BY Names, <1>t
  <2> QED
    BY <1>1, <2>1, AllocEffect
<1>4. /\ ControlTypes'
      /\ pc[p] = "fill"
      /\ sz' = sz
      /\ pt'[p][k[p].va].pa = k[p].new /\ pt'[p][k[p].va].w /\ ~pt'[p][k[p].va].cow
      /\ \A v \in VPages \ {k[p].va} : pt'[p][v] = pt[p][v]
      /\ \A q \in Procs \ {p} : Same(q)
  BY <1>t, <1>1, <1>2, <1>3 DEF FillPage, ControlTypes, Same, MemoryTypes
<1>5. LocalOK(p)'
  <2>1. CallOK(p)'
    BY <1>t, <1>i, <1>2, <1>3, <1>4 DEF CallOK, Looping, Copying
  <2>2. MapOK(p)'
    <3>1. pc[p] = "fill" /\ k[p].op = "grow"
      BY <1>i, <1>4 DEF CallOK, Looping, Copying
    <3>2. \A v \in VPages : Mapped(p, v) <=> v < k[p].va
      BY <1>t, <1>i, <3>1 DEF MapOK, Looping, Copying, Present, ToGo, VPages
    <3>3. \A v \in VPages : Mapped(p, v)' <=> v < k'[p].va
      BY <1>t, <1>2, <1>3, <1>4, <3>1, <3>2 DEF Mapped, VPages
    <3>4. \A v \in VPages : Present(p, v)' <=> v < k'[p].va
      BY <1>t, <1>2, <1>3, <1>4 DEF Looping, Copying, Present
    <3> QED
      BY <3>3, <3>4 DEF MapOK
  <2>3. PteOK(p)'
    BY <1>t, <1>i, <1>2, <1>3, <1>4 DEF PteOK, Mapped
  <2> QED
    BY <2>1, <2>2, <2>3 DEF LocalOK
<1> QED
  BY <1>3, <1>4, <1>5, OneProcess DEF Counting

(* mappages fails and uvmalloc gives its frame back. *)
LEMMA LocalFillFails ==
    ASSUME ControlTypes, MemoryTypes, LocalInv, NEW p \in Procs, FillFails(p)
    PROVE  ControlTypes' /\ LocalInv' /\ Aside /\ (Quiet \/ Counting(p))
<1>t. /\ CallTypes /\ sz[p] \in Nat /\ sz[p] <= NPAGES /\ NPAGES \in Nat
      /\ k[p].va \in Nat /\ k[p].end \in Nat /\ k[p].arg \in Nat
      /\ k[p].op \in Ops /\ NoFrame \notin Frames
      /\ NoLocals(p).op = "none" /\ NoLocals(p).va = 0
  BY ConstantsAssumption, NoLocalsFields, SizeIsNat, LocalsFields DEF ControlTypes
<1>i. CallOK(p) /\ MapOK(p) /\ PteOK(p)
  BY DEF LocalInv
<1>1. StartUnmap(p, "discard", k[p].va, k[p].va + 1)
  BY DEF FillFails
<1>2. /\ CallTypes'
      /\ pc'[p] = "check"
      /\ k'[p].op = "discard" /\ k'[p].va = k[p].va /\ k'[p].end = k[p].va + 1
      /\ k'[p].new = k[p].new
      /\ \A q \in Procs \ {p} : pc'[q] = pc[q] /\ k'[q] = k[q]
  BY Names, <1>t, <1>1, UnmapEffect
<1>3. /\ ControlTypes'
      /\ pc[p] = "fill"
      /\ sz' = sz /\ pt' = pt
      /\ ref' = ref /\ free' = free
      /\ \A q \in Procs \ {p} : Same(q)
  BY <1>t, <1>1, <1>2 DEF FillFails, ControlTypes, Same
<1>4. LocalOK(p)'
  <2>1. CallOK(p)'
    BY <1>t, <1>i, <1>2, <1>3 DEF CallOK, Looping, Copying
  <2>2. \A v \in VPages : Present(p, v)' <=> Present(p, v)
    BY <1>t, <1>i, <1>2, <1>3 DEF CallOK, Looping, Copying, Present, ToGo, VPages
  <2> QED
    BY <1>i, <1>2, <1>3, <2>1, <2>2, TableKept
<1>5. Keeps(p)
  BY <1>t, <1>i, <1>2, <1>3 DEF Keeps, Held, Holding, Carried, CallOK, Looping, Copying
<1> QED
  BY <1>2, <1>3, <1>4, <1>5, OneProcess, OthersKeep

(* The fault handler and copyout map the copy. *)
LEMMA LocalMapCopy ==
    ASSUME ControlTypes, MemoryTypes, LocalInv, NEW p \in Procs, NEW x \in Vals, MapCopy(p, x)
    PROVE  ControlTypes' /\ LocalInv' /\ Aside /\ (Quiet \/ Counting(p))
<1>t. /\ CallTypes /\ sz[p] \in Nat /\ sz[p] <= NPAGES /\ NPAGES \in Nat
      /\ k[p].va \in Nat /\ k[p].end \in Nat /\ k[p].arg \in Nat
      /\ k[p].op \in Ops /\ NoFrame \notin Frames
      /\ NoLocals(p).op = "none" /\ NoLocals(p).va = 0
  BY ConstantsAssumption, NoLocalsFields, SizeIsNat, LocalsFields DEF ControlTypes
<1>i. CallOK(p) /\ MapOK(p) /\ PteOK(p)
  BY DEF LocalInv
<1>1. Return(p, "user")
  BY DEF MapCopy
<1>2. k[p].va \in VPages /\ k[p].new \in Frames
  BY <1>t, <1>i DEF MapCopy, CallOK, Copying, VPages
<1>3. /\ CallTypes'
      /\ pc'[p] = "user" /\ k'[p] = NoLocals(p) /\ k'[p].op = "none"
      /\ \A q \in Procs \ {p} : pc'[q] = pc[q] /\ k'[q] = k[q]
  BY Names, <1>t, <1>1, <1>2, ReturnEffect
<1>4. /\ ControlTypes'
      /\ pc[p] = "map"
      /\ sz' = sz
      /\ pt'[p][k[p].va].pa = k[p].new /\ pt'[p][k[p].va].w /\ ~pt'[p][k[p].va].cow
      /\ \A v \in VPages \ {k[p].va} : pt'[p][v] = pt[p][v]
      /\ \A q \in Procs \ {p} : Same(q)
  BY <1>t, <1>1, <1>2, <1>3 DEF MapCopy, ControlTypes, Same, MemoryTypes
<1>5. LocalOK(p)'
  <2>1. CallOK(p)'
    BY <1>t, <1>i, <1>2, <1>3, <1>4 DEF CallOK, Looping, Copying
  <2>2. MapOK(p)'
    <3>1. pc[p] = "map" /\ Copying(p) /\ k[p].va < sz[p] /\ k[p].end = k[p].va + 1
      BY <1>i, <1>4 DEF CallOK, Looping, Copying
    <3>2. \A v \in VPages : Mapped(p, v) <=> v < sz[p] /\ v # k[p].va
      BY <1>t, <1>i, <3>1 DEF MapOK, Looping, Copying, Present, ToGo, VPages
    <3>3. \A v \in VPages : Mapped(p, v)' <=> v < sz'[p]
      BY <1>t, <1>2, <1>3, <1>4, <3>1, <3>2 DEF Mapped, VPages
    <3>4. \A v \in VPages : Present(p, v)' <=> v < sz'[p]
      BY <1>t, <1>2, <1>3, <1>4 DEF Looping, Copying, Present
    <3> QED
      BY <3>3, <3>4 DEF MapOK
  <2>3. PteOK(p)'
    BY <1>t, <1>i, <1>2, <1>3, <1>4 DEF PteOK, Mapped
  <2> QED
    BY <2>1, <2>2, <2>3 DEF LocalOK
<1> QED
  BY <1>3, <1>4, <1>5, OneProcess DEF Counting

(* Each step of kalloc, and of the calls that need it, keeps LocalInv. *)
LEMMA LocalAlloc ==
    ASSUME ControlTypes, MemoryTypes, LocalInv, NEW p \in Procs, AllocStep(p)
    PROVE  ControlTypes' /\ LocalInv' /\ Aside /\ (Quiet \/ Counting(p))
<1>1. CASE KallocFails(p)
  <2>1. sz[p] \in Nat /\ k[p].va \in Nat /\ k[p].op \in {"fault", "copyout", "grow"}
    BY <1>1, SizeIsNat, LocalsFields DEF ControlTypes, KallocFails, LocalInv, CallOK, Copying
  <2> QED
    BY <1>1, <2>1, LocalFaultFails, LocalCopyoutFails, LocalGrowFails
<1> QED
  BY <1>1, LocalKallocPop, LocalKallocCount, LocalCopyPage, LocalFilled, LocalFillPage,
     LocalFillFails, LocalMapCopy DEF AllocStep

(* Steps of kalloc and of the calls that need it keep the types of page
   tables, counts and memory. *)
LEMMA TypesAlloc ==
    ASSUME ControlTypes, MemoryTypes, LocalInv, ~panicked, NEW p \in Procs, AllocStep(p)
    PROVE  MemoryTypes' /\ ~panicked'
<1>1. CASE (\E f \in Frames : KallocPop(p, f)) \/ KallocFails(p)
  BY <1>1 DEF KallocPop, KallocFails, MemoryTypes
<1>2. CASE KallocCount(p)
  BY Zenon, <1>2 DEF KallocCount, MemoryTypes
<1>3. ASSUME pc[p] \in {"move", "fill", "map"}
      PROVE  k[p].new \in Frames /\ k[p].va \in VPages
  <2>1. /\ CallOK(p) /\ k[p].va \in Nat /\ k[p].arg \in Nat
        /\ sz[p] \in Nat /\ sz[p] <= NPAGES /\ NPAGES \in Nat
    BY LocalsFields, SizeIsNat, ConstantsAssumption DEF LocalInv, ControlTypes
  <2> QED
    BY <1>3, <2>1 DEF CallOK, Copying, VPages
<1>4. CASE CopyPage(p)
  <2>1. Mapped(p, k[p].va) /\ k[p].va \in VPages
    <3>1. CallOK(p) /\ MapOK(p) /\ pc[p] = "move" /\ k[p].va \in VPages
      BY <1>3, <1>4 DEF LocalInv, CopyPage
    <3> QED
      BY <3>1 DEF CallOK, MapOK, Present, Copying, Looping
  <2>2. mem[pt[p][k[p].va].pa] \in Vals \cup {Junk}
    BY <2>1 DEF MemoryTypes, PTE, Mapped
  <2> QED
    BY <1>3, <1>4, <2>2 DEF CopyPage, MemoryTypes
<1>5. CASE FillPage(p) \/ FillFails(p) \/ \E x \in Vals : MapCopy(p, x)
  <2>1. k[p].new \in Frames /\ k[p].va \in VPages
    BY <1>3, <1>5 DEF FillPage, FillFails, MapCopy
  <2>2. /\ [pa |-> k[p].new, w |-> TRUE, cow |-> FALSE] \in PTE
        /\ Zero \in Vals
    BY <2>1, ConstantsAssumption DEF PTE
  <2>3. /\ ref' = ref /\ free' = free /\ panicked' = panicked
        /\ \/ pt' = pt
           \/ pt' = [pt EXCEPT ![p][k[p].va] = [pa |-> k[p].new, w |-> TRUE, cow |-> FALSE]]
        /\ mem' = mem \/ \E x \in Vals : mem' = [mem EXCEPT ![k[p].new] = x]
    BY Zenon, <1>5, <2>2 DEF FillPage, FillFails, MapCopy
  <2>4. pt' \in [Procs -> [VPages -> PTE]]
    BY <2>1, <2>2, <2>3 DEF MemoryTypes
  <2>5. mem' \in [Frames -> Vals \cup {Junk}]
    BY <2>1, <2>3 DEF MemoryTypes
  <2> QED
    BY <2>3, <2>4, <2>5 DEF MemoryTypes
<1> QED
  BY <1>1, <1>2, <1>4, <1>5 DEF AllocStep

-----------------------------------------------------------------------------
(* kfree and the uvmunmap loop.                                             *)

(* kfree is called with a frame, on behalf of a page of the loop. *)
LEMMA VictimIsFrame ==
    ASSUME ControlTypes, MemoryTypes, LocalInv, NEW p \in Procs
    PROVE  /\ Looping(p) => k[p].va \in VPages
           /\ pc[p] \in {"check", "drop"} => Victim(p) \in Frames
           /\ pc[p] \in {"check", "drop"} /\ k[p].op # "discard" => Mapped(p, k[p].va)
           /\ pc[p] \in {"check", "drop"} /\ k[p].op = "discard" =>
                 ~Mapped(p, k[p].va) /\ Victim(p) = k[p].new
<1> USE ConstantsAssumption
<1>1. k[p].va \in Nat /\ k[p].end \in Nat /\ k[p].op \in Ops
  BY LocalsFields DEF ControlTypes
<1>2. Looping(p) => k[p].va \in VPages
  BY <1>1 DEF LocalInv, CallOK, VPages
<1>3. ASSUME pc[p] \in {"check", "drop"}, k[p].op # "discard"
      PROVE  Mapped(p, k[p].va) /\ pt[p][k[p].va].pa \in Frames
  <2>1. ToGo(p, k[p].va) /\ Looping(p)
    BY <1>1, <1>3 DEF ToGo, Looping, LocalInv, CallOK
  <2>2. Mapped(p, k[p].va)
    BY SMTT(30), <1>1, <1>2, <1>3, <2>1 DEF LocalInv, CallOK, MapOK, Present, Copying
  <2> QED
    BY <1>2, <2>1, <2>2 DEF MemoryTypes, PTE, Mapped
<1>4. ASSUME pc[p] \in {"check", "drop"}, k[p].op = "discard"
      PROVE  k[p].new \in Frames /\ ~Mapped(p, k[p].va)
  BY <1>1, <1>2, <1>4 DEF LocalInv, CallOK, MapOK, Present, Copying, Looping
<1> QED
  BY <1>2, <1>3, <1>4 DEF Victim

(* So have kfree's. *)
LEMMA OldLocals ==
    ASSUME NEW r \in Locals, NEW f \in Frames
    PROVE  [r EXCEPT !.old = f] \in Locals
BY DEF Locals

(* kfree's test of the frame keeps it. *)
LEMMA LocalKfreeCheck ==
    ASSUME ControlTypes, MemoryTypes, LocalInv, NEW p \in Procs, KfreeCheck(p)
    PROVE  ControlTypes' /\ LocalInv' /\ Aside /\ (Quiet \/ Counting(p))
<1>t. /\ CallTypes /\ sz[p] \in Nat /\ sz[p] <= NPAGES /\ NPAGES \in Nat
      /\ k[p].va \in Nat /\ k[p].end \in Nat /\ k[p].arg \in Nat
      /\ k[p].op \in Ops /\ NoFrame \notin Frames
      /\ NoLocals(p).op = "none" /\ NoLocals(p).va = 0
  BY ConstantsAssumption, NoLocalsFields, SizeIsNat, LocalsFields DEF ControlTypes
<1>i. CallOK(p) /\ MapOK(p) /\ PteOK(p)
  BY DEF LocalInv
<1>1. /\ ControlTypes'
      /\ pc[p] = "check" /\ pc'[p] \in {"check", "drop"}
      /\ k' = k /\ sz' = sz /\ pt' = pt
      /\ ref' = ref /\ free' = free
      /\ \A q \in Procs \ {p} : Same(q)
  BY Names, <1>t DEF KfreeCheck, ControlTypes, CallTypes, Goto, Same
<1>2. LocalOK(p)'
  <2>1. CallOK(p)'
    BY <1>t, <1>i, <1>1 DEF CallOK, Looping, Copying
  <2>2. \A v \in VPages : Present(p, v)' <=> Present(p, v)
    BY <1>t, <1>i, <1>1 DEF CallOK, Looping, Copying, Present, ToGo, VPages
  <2> QED
    BY <1>i, <1>1, <2>1, <2>2, TableKept
<1>3. Keeps(p)
  BY SMTT(30), <1>t, <1>i, <1>1 DEF Keeps, Held, Holding, Carried, CallOK, Looping, Copying
<1> QED
  BY <1>1, <1>2, <1>3, OneProcess, OthersKeep

(* kfree's decrement of the reference count keeps it, and lets go of the page. *)
LEMMA LocalKfreeDrop ==
    ASSUME ControlTypes, MemoryTypes, LocalInv, NEW p \in Procs, KfreeDrop(p)
    PROVE  ControlTypes' /\ LocalInv' /\ Aside /\ (Quiet \/ Counting(p))
<1>t. /\ CallTypes /\ sz[p] \in Nat /\ sz[p] <= NPAGES /\ NPAGES \in Nat
      /\ k[p].va \in Nat /\ k[p].end \in Nat /\ k[p].arg \in Nat
      /\ k[p].op \in Ops /\ NoFrame \notin Frames
      /\ NoLocals(p).op = "none" /\ NoLocals(p).va = 0
  BY ConstantsAssumption, NoLocalsFields, SizeIsNat, LocalsFields DEF ControlTypes
<1>i. CallOK(p) /\ MapOK(p) /\ PteOK(p)
  BY DEF LocalInv
<1>1. k[p].va \in VPages /\ Victim(p) \in Frames
  BY VictimIsFrame DEF KfreeDrop, Looping
<1>2. k' = [k EXCEPT ![p] = [k[p] EXCEPT !.old = Victim(p)]]
  BY <1>t DEF KfreeDrop, CallTypes
<1>3. CallTypes'
  BY Names, <1>t, <1>1, <1>2, OldLocals DEF KfreeDrop, CallTypes, Goto
<1>4. /\ k'[p].op = k[p].op /\ k'[p].va = k[p].va /\ k'[p].end = k[p].end
      /\ k'[p].arg = k[p].arg /\ k'[p].new = k[p].new /\ k'[p].old = Victim(p)
  BY <1>t, <1>2 DEF CallTypes, Locals
<1>5. /\ ControlTypes'
      /\ pc[p] = "drop" /\ pc'[p] \in {"push", "freed"}
      /\ sz' = sz
      /\ pt'[p][k[p].va] = Unmapped
      /\ \A v \in VPages \ {k[p].va} : pt'[p][v] = pt[p][v]
      /\ \A q \in Procs \ {p} : Same(q)
  BY Names, <1>t, <1>1, <1>2, <1>3, <1>4 DEF KfreeDrop, ControlTypes, CallTypes, Goto, Same, MemoryTypes
<1>6. LocalOK(p)'
  <2>1. CallOK(p)'
    BY <1>t, <1>i, <1>1, <1>2, <1>3, <1>4, <1>5 DEF CallOK, Looping, Copying
  <2>2. MapOK(p)'
    BY <1>t, <1>i, <1>1, <1>2, <1>3, <1>4, <1>5 DEF CallOK, MapOK, Mapped, Looping, Copying, Present, ToGo, VPages, Unmapped
  <2>3. PteOK(p)'
    BY <1>t, <1>i, <1>1, <1>2, <1>3, <1>4, <1>5 DEF PteOK, Mapped, Unmapped
  <2> QED
    BY <2>1, <2>2, <2>3 DEF LocalOK
<1> QED
  BY <1>5, <1>6, OneProcess DEF Counting

(* kfree's push of the frame on the free list keeps it. *)
LEMMA LocalKfreePush ==
    ASSUME ControlTypes, MemoryTypes, LocalInv, NEW p \in Procs, KfreePush(p)
    PROVE  ControlTypes' /\ LocalInv' /\ Aside /\ (Quiet \/ Counting(p))
<1>t. /\ CallTypes /\ sz[p] \in Nat /\ sz[p] <= NPAGES /\ NPAGES \in Nat
      /\ k[p].va \in Nat /\ k[p].end \in Nat /\ k[p].arg \in Nat
      /\ k[p].op \in Ops /\ NoFrame \notin Frames
      /\ NoLocals(p).op = "none" /\ NoLocals(p).va = 0
  BY ConstantsAssumption, NoLocalsFields, SizeIsNat, LocalsFields DEF ControlTypes
<1>i. CallOK(p) /\ MapOK(p) /\ PteOK(p)
  BY DEF LocalInv
<1>1. /\ ControlTypes'
      /\ pc[p] = "push" /\ pc'[p] = "freed"
      /\ k' = k /\ sz' = sz /\ pt' = pt
      /\ \A q \in Procs \ {p} : Same(q)
  BY Names, <1>t DEF KfreePush, ControlTypes, CallTypes, Goto, Same
<1>2. LocalOK(p)'
  <2>1. CallOK(p)'
    BY <1>t, <1>i, <1>1 DEF CallOK, Looping, Copying
  <2>2. \A v \in VPages : Present(p, v)' <=> Present(p, v)
    BY <1>t, <1>i, <1>1 DEF CallOK, Looping, Copying, Present, ToGo, VPages
  <2> QED
    BY <1>i, <1>1, <2>1, <2>2, TableKept
<1> QED
  BY <1>1, <1>2, OneProcess DEF Counting

(* The step to the next page of uvmunmap's loop keeps it. *)
LEMMA LocalNextPage ==
    ASSUME ControlTypes, MemoryTypes, LocalInv, NEW p \in Procs, NextPage(p)
    PROVE  ControlTypes' /\ LocalInv' /\ Aside /\ (Quiet \/ Counting(p))
<1>t. /\ CallTypes /\ sz[p] \in Nat /\ sz[p] <= NPAGES /\ NPAGES \in Nat
      /\ k[p].va \in Nat /\ k[p].end \in Nat /\ k[p].arg \in Nat
      /\ k[p].op \in Ops /\ NoFrame \notin Frames
      /\ NoLocals(p).op = "none" /\ NoLocals(p).va = 0
  BY ConstantsAssumption, NoLocalsFields, SizeIsNat, LocalsFields DEF ControlTypes
<1>i. CallOK(p) /\ MapOK(p) /\ PteOK(p)
  BY DEF LocalInv
<1>1. StartUnmap(p, k[p].op, k[p].va + 1, k[p].end)
  BY DEF NextPage
<1>2. k[p].op \in {"undo", "shrink", "freeproc"}
  BY <1>t, <1>i DEF NextPage, CallOK, Looping, Copying
<1>3. /\ CallTypes'
      /\ pc'[p] = "check"
      /\ k'[p].op = k[p].op /\ k'[p].va = k[p].va + 1 /\ k'[p].end = k[p].end
      /\ k'[p].arg = k[p].arg /\ k'[p].new = k[p].new
      /\ \A q \in Procs \ {p} : pc'[q] = pc[q] /\ k'[q] = k[q]
  <2>1. CallTypes /\ k[p].op \in Ops /\ k[p].va + 1 \in Nat /\ k[p].end \in Nat
    BY <1>t
  <2> QED
    BY <1>1, <2>1, UnmapEffect
<1>4. /\ ControlTypes'
      /\ pc[p] = "freed" /\ k[p].va + 1 < k[p].end
      /\ sz' = sz /\ pt' = pt
      /\ ref' = ref /\ free' = free
      /\ \A q \in Procs \ {p} : Same(q)
  BY <1>t, <1>1, <1>2, <1>3 DEF NextPage, ControlTypes, Same
<1>5. LocalOK(p)'
  <2>1. CallOK(p)'
    BY <1>t, <1>i, <1>2, <1>3, <1>4 DEF CallOK, Looping, Copying
  <2>2. \A v \in VPages : Present(p, v)' <=> Present(p, v)
    BY <1>t, <1>i, <1>2, <1>3, <1>4 DEF CallOK, Looping, Copying, Present, ToGo, VPages
  <2> QED
    BY SMTT(30), <1>i, <1>3, <1>4, <2>1, <2>2, TableKept
<1>6. Keeps(p)
  BY Zenon, <1>t, <1>i, <1>2, <1>3, <1>4 DEF Keeps, Held, Holding, Carried, CallOK, Looping, Copying
<1> QED
  BY <1>3, <1>4, <1>5, <1>6, OneProcess, OthersKeep

(* So each step of kfree, and the step to the next page, keeps LocalInv. *)
LEMMA LocalKfree ==
    ASSUME ControlTypes, MemoryTypes, LocalInv, NEW p \in Procs,
           KfreeCheck(p) \/ KfreeDrop(p) \/ KfreePush(p) \/ NextPage(p)
    PROVE  ControlTypes' /\ LocalInv' /\ Aside /\ (Quiet \/ Counting(p))
BY LocalKfreeCheck, LocalKfreeDrop, LocalKfreePush, LocalNextPage

(* The end of uvmunmap in the page-fault handler and in copyout keeps it. *)
LEMMA LocalCopyUnmapped ==
    ASSUME ControlTypes, MemoryTypes, LocalInv, NEW p \in Procs,
           UnmapReturns(p) /\ Copying(p)
    PROVE  ControlTypes' /\ LocalInv' /\ Aside /\ (Quiet \/ Counting(p))
<1>t. /\ CallTypes /\ sz[p] \in Nat /\ sz[p] <= NPAGES /\ NPAGES \in Nat
      /\ k[p].va \in Nat /\ k[p].end \in Nat /\ k[p].arg \in Nat
      /\ k[p].op \in Ops /\ NoFrame \notin Frames
      /\ NoLocals(p).op = "none" /\ NoLocals(p).va = 0
  BY ConstantsAssumption, NoLocalsFields, SizeIsNat, LocalsFields DEF ControlTypes
<1>i. CallOK(p) /\ MapOK(p) /\ PteOK(p)
  BY DEF LocalInv
<1>1. /\ ControlTypes'
      /\ pc[p] = "freed" /\ pc'[p] = "map" /\ k[p].va + 1 = k[p].end
      /\ k' = k /\ sz' = sz /\ pt' = pt
      /\ ref' = ref /\ free' = free
      /\ \A q \in Procs \ {p} : Same(q)
  BY Names, <1>t DEF UnmapReturns, ControlTypes, CallTypes, Goto, Same, Copying
<1>2. LocalOK(p)'
  <2>1. CallOK(p)'
    BY <1>t, <1>i, <1>1 DEF CallOK, Looping, Copying
  <2>2. \A v \in VPages : Present(p, v)' <=> Present(p, v)
    BY SMTT(30), <1>t, <1>i, <1>1 DEF CallOK, Looping, Copying, Present, ToGo, VPages
  <2> QED
    BY SMTT(30), <1>i, <1>1, <2>1, <2>2, TableKept
<1>3. Keeps(p)
  BY SMTT(30), <1>t, <1>i, <1>1 DEF Keeps, Held, Holding, Carried, CallOK, Looping, Copying
<1> QED
  BY <1>1, <1>2, <1>3, OneProcess, OthersKeep

(* The end of kfree in uvmalloc, with pages to undo, keeps it. *)
LEMMA LocalDiscarded ==
    ASSUME ControlTypes, MemoryTypes, LocalInv, NEW p \in Procs,
           UnmapReturns(p) /\ k[p].op = "discard" /\ k[p].va > sz[p]
    PROVE  ControlTypes' /\ LocalInv' /\ Aside /\ (Quiet \/ Counting(p))
<1>t. /\ CallTypes /\ sz[p] \in Nat /\ sz[p] <= NPAGES /\ NPAGES \in Nat
      /\ k[p].va \in Nat /\ k[p].end \in Nat /\ k[p].arg \in Nat
      /\ k[p].op \in Ops /\ NoFrame \notin Frames
      /\ NoLocals(p).op = "none" /\ NoLocals(p).va = 0
  BY ConstantsAssumption, NoLocalsFields, SizeIsNat, LocalsFields DEF ControlTypes
<1>i. CallOK(p) /\ MapOK(p) /\ PteOK(p)
  BY DEF LocalInv
<1>1. StartUnmap(p, "undo", sz[p], k[p].va)
  BY DEF UnmapReturns, UndoGrow
<1>2. /\ CallTypes'
      /\ pc'[p] = "check"
      /\ k'[p].op = "undo" /\ k'[p].va = sz[p] /\ k'[p].end = k[p].va
      /\ \A q \in Procs \ {p} : pc'[q] = pc[q] /\ k'[q] = k[q]
  BY Names, <1>t, <1>1, UnmapEffect
<1>3. /\ ControlTypes'
      /\ pc[p] = "freed" /\ k[p].va + 1 = k[p].end
      /\ sz' = sz /\ pt' = pt
      /\ ref' = ref /\ free' = free
      /\ \A q \in Procs \ {p} : Same(q)
  BY <1>t, <1>1, <1>2 DEF UnmapReturns, ControlTypes, Same
<1>4. LocalOK(p)'
  <2>1. CallOK(p)'
    BY <1>t, <1>i, <1>2, <1>3 DEF CallOK, Looping, Copying
  <2>2. MapOK(p)'
    <3>1. \A v \in VPages : Present(p, v)' <=> Present(p, v)
      <4>1. k[p].op = "discard" /\ sz[p] < k[p].va
        BY <1>t
      <4>2. \A v \in VPages : Present(p, v) <=> v < k[p].va
        BY SMTT(30), <1>3, <4>1 DEF Looping, Copying, Present
      <4>3. \A v \in VPages : Present(p, v)' <=> v < k[p].va
        BY SMTT(30), <1>t, <1>2, <1>3, <4>1 DEF Looping, Copying, Present, ToGo, VPages
      <4> QED
        BY <4>2, <4>3
    <3> QED
      BY Zenon, <1>i, <1>2, <1>3, <3>1 DEF MapOK, Mapped
  <2>3. PteOK(p)'
    BY <1>t, <1>i, <1>2, <1>3 DEF PteOK, Mapped
  <2> QED
    BY <2>1, <2>2, <2>3 DEF LocalOK
<1>5. Keeps(p)
  BY <1>t, <1>i, <1>2, <1>3 DEF Keeps, Held, Holding, Carried, CallOK, Looping, Copying
<1> QED
  BY <1>2, <1>3, <1>4, <1>5, OneProcess, OthersKeep

(* The end of uvmalloc's uvmdealloc, or of a kfree with nothing to undo, keeps it. *)
LEMMA LocalUndone ==
    ASSUME ControlTypes, MemoryTypes, LocalInv, NEW p \in Procs,
           UnmapReturns(p) /\ (k[p].op = "undo" \/ (k[p].op = "discard" /\ ~(k[p].va > sz[p])))
    PROVE  ControlTypes' /\ LocalInv' /\ Aside /\ (Quiet \/ Counting(p))
<1>t. /\ CallTypes /\ sz[p] \in Nat /\ sz[p] <= NPAGES /\ NPAGES \in Nat
      /\ k[p].va \in Nat /\ k[p].end \in Nat /\ k[p].arg \in Nat
      /\ k[p].op \in Ops /\ NoFrame \notin Frames
      /\ NoLocals(p).op = "none" /\ NoLocals(p).va = 0
  BY ConstantsAssumption, NoLocalsFields, SizeIsNat, LocalsFields DEF ControlTypes
<1>i. CallOK(p) /\ MapOK(p) /\ PteOK(p)
  BY DEF LocalInv
<1>1. Return(p, "user") /\ sz' = sz
  BY DEF UnmapReturns, UndoGrow
<1>2. /\ CallTypes'
      /\ pc'[p] = "user"
      /\ k'[p] = NoLocals(p) /\ k'[p].op = "none"
      /\ \A q \in Procs \ {p} : pc'[q] = pc[q] /\ k'[q] = k[q]
  BY Names, <1>t, <1>1, ReturnEffect
<1>3. /\ ControlTypes'
      /\ pc[p] = "freed" /\ k[p].va + 1 = k[p].end
      /\ sz' = sz /\ pt' = pt
      /\ ref' = ref /\ free' = free
      /\ \A q \in Procs \ {p} : Same(q)
  BY <1>t, <1>1, <1>2 DEF UnmapReturns, ControlTypes, Same
<1>4. LocalOK(p)'
  <2>1. CallOK(p)'
    BY Zenon, <1>t, <1>i, <1>2, <1>3 DEF CallOK, Looping, Copying
  <2>2. MapOK(p)'
    <3>1. ASSUME NEW v \in VPages PROVE Present(p, v)' <=> Present(p, v)
      <4>1. Present(p, v)' <=> v < sz[p]
        BY <1>2, <1>3 DEF Present, Looping
      <4>2. ~ToGo(p, v)
        BY <1>t, <1>3 DEF ToGo, VPages
      <4>3. Present(p, v) <=> v < sz[p]
        BY SMTT(30), <1>t, <1>i, <1>3, <4>2 DEF CallOK, Looping, Copying, Present, VPages
      <4> QED
        BY <4>1, <4>3
    <3> QED
      BY Zenon, <1>i, <1>2, <1>3, <3>1 DEF MapOK, Mapped
  <2>3. PteOK(p)'
    BY <1>t, <1>i, <1>2, <1>3 DEF PteOK, Mapped
  <2> QED
    BY <2>1, <2>2, <2>3 DEF LocalOK
<1>5. Keeps(p)
  BY SMTT(30), <1>t, <1>i, <1>2, <1>3 DEF Keeps, Held, Holding, Carried, CallOK, Looping, Copying
<1> QED
  BY <1>2, <1>3, <1>4, <1>5, OneProcess, OthersKeep

(* The end of growproc's uvmdealloc keeps it. *)
LEMMA LocalShrunk ==
    ASSUME ControlTypes, MemoryTypes, LocalInv, NEW p \in Procs,
           UnmapReturns(p) /\ k[p].op = "shrink"
    PROVE  ControlTypes' /\ LocalInv' /\ Aside /\ (Quiet \/ Counting(p))
<1>t. /\ CallTypes /\ sz[p] \in Nat /\ sz[p] <= NPAGES /\ NPAGES \in Nat
      /\ k[p].va \in Nat /\ k[p].end \in Nat /\ k[p].arg \in Nat
      /\ k[p].op \in Ops /\ NoFrame \notin Frames
      /\ NoLocals(p).op = "none" /\ NoLocals(p).va = 0
  BY ConstantsAssumption, NoLocalsFields, SizeIsNat, LocalsFields DEF ControlTypes
<1>i. CallOK(p) /\ MapOK(p) /\ PteOK(p)
  BY DEF LocalInv
<1>1. Return(p, "user") /\ sz' = [sz EXCEPT ![p] = k[p].arg]
  BY DEF UnmapReturns
<1>2. k[p].arg \in 0 .. NPAGES
  BY <1>t, <1>i DEF UnmapReturns, CallOK, Looping
<1>3. /\ CallTypes'
      /\ pc'[p] = "user"
      /\ k'[p] = NoLocals(p) /\ k'[p].op = "none"
      /\ \A q \in Procs \ {p} : pc'[q] = pc[q] /\ k'[q] = k[q]
  BY Names, <1>t, <1>1, <1>2, ReturnEffect
<1>4. /\ ControlTypes'
      /\ pc[p] = "freed" /\ k[p].va + 1 = k[p].end
      /\ sz'[p] = k[p].arg /\ pt' = pt
      /\ ref' = ref /\ free' = free
      /\ \A q \in Procs \ {p} : Same(q)
  BY <1>t, <1>1, <1>2, <1>3 DEF UnmapReturns, ControlTypes, Same
<1>5. LocalOK(p)'
  <2>1. CallOK(p)'
    BY <1>t, <1>i, <1>2, <1>3, <1>4 DEF CallOK, Looping, Copying
  <2>2. MapOK(p)'
    <3>1. ASSUME NEW v \in VPages PROVE Present(p, v)' <=> Present(p, v)
      <4>1. Present(p, v)' <=> v < k[p].arg
        BY <1>3, <1>4 DEF Present, Looping
      <4>2. ~ToGo(p, v)
        BY <1>t, <1>4 DEF ToGo, VPages
      <4>3. Present(p, v) <=> v < k[p].arg
        BY <1>4, <4>2 DEF Looping, Copying, Present
      <4> QED
        BY <4>1, <4>3
    <3> QED
      BY Zenon, <1>i, <1>3, <1>4, <3>1 DEF MapOK, Mapped
  <2>3. PteOK(p)'
    BY Zenon, <1>t, <1>i, <1>2, <1>3, <1>4 DEF PteOK, Mapped
  <2> QED
    BY <2>1, <2>2, <2>3 DEF LocalOK
<1>6. Keeps(p)
  BY Zenon, <1>t, <1>i, <1>2, <1>3, <1>4 DEF Keeps, Held, Holding, Carried, CallOK, Looping, Copying
<1> QED
  BY <1>3, <1>4, <1>5, <1>6, OneProcess, OthersKeep

(* The end of freeproc keeps it, for the process and for one whose fork failed. *)
LEMMA LocalFreed ==
    ASSUME ControlTypes, MemoryTypes, LocalInv, NEW p \in Procs,
           UnmapReturns(p) /\ k[p].op = "freeproc"
    PROVE  ControlTypes' /\ LocalInv' /\ Aside /\ (Quiet \/ Counting(p))
<1>t. /\ CallTypes /\ sz[p] \in Nat /\ sz[p] <= NPAGES /\ NPAGES \in Nat
      /\ k[p].va \in Nat /\ k[p].end \in Nat /\ k[p].arg \in Nat
      /\ k[p].op \in Ops /\ NoFrame \notin Frames
      /\ NoLocals(p).op = "none" /\ NoLocals(p).va = 0
  BY ConstantsAssumption, NoLocalsFields, SizeIsNat, LocalsFields DEF ControlTypes
<1>i. CallOK(p) /\ MapOK(p) /\ PteOK(p)
  BY DEF LocalInv
<1>1. /\ pc[p] = "freed" /\ k[p].va + 1 = k[p].end
      /\ pt' = pt
      /\ sz' = [sz EXCEPT ![p] = 0]
      /\ pc' = [q \in Procs |-> IF q = p THEN "unused"
                                ELSE IF Unforking(q, p) THEN "user" ELSE pc[q]]
      /\ k' = [q \in Procs |-> IF q = p \/ Unforking(q, p) THEN NoLocals(q) ELSE k[q]]
  BY DEF UnmapReturns
<1>2. ControlTypes'
  BY Names, <1>t, <1>1, NoLocalsType DEF ControlTypes, CallTypes
<1>3. LocalOK(p)'
  <2>1. pc'[p] = "unused" /\ k'[p] = NoLocals(p) /\ sz'[p] = 0 /\ pt'[p] = pt[p]
    BY <1>1 DEF ControlTypes
  <2>2. CallOK(p)'
    BY <2>1, NoLocalsFields DEF CallOK, Looping, Copying
  <2>3. MapOK(p)'
    <3>1. \A v \in VPages : ~Mapped(p, v)
      BY <1>t, <1>i, <1>1 DEF MapOK, Looping, Copying, Present, ToGo, VPages
    <3>2. \A v \in VPages : ~Mapped(p, v)' /\ ~Present(p, v)'
      BY <2>1, <3>1, NoLocalsFields DEF Mapped, Looping, Copying, Present, VPages
    <3> QED
      BY <3>2 DEF MapOK
  <2>4. PteOK(p)'
    BY <2>1 DEF LocalInv, PteOK, Mapped
  <2> QED
    BY <2>2, <2>3, <2>4 DEF LocalOK
<1>4. ASSUME NEW q \in Procs \ {p}, ~Unforking(q, p)
      PROVE  LocalOK(q)'
  BY <1>1, <1>4, LocalFrame DEF Same, ControlTypes
<1>5. ASSUME NEW q \in Procs \ {p}, Unforking(q, p)
      PROVE  LocalOK(q)'
  <2>1. /\ pc[q] = "unfork" /\ pc'[q] = "user" /\ k'[q] = NoLocals(q)
        /\ sz'[q] = sz[q] /\ pt'[q] = pt[q]
    BY <1>1, <1>5 DEF ControlTypes, Unforking
  <2>2. CallOK(q)'
    BY SMTT(30), <2>1, NoLocalsFields DEF CallOK, Looping, Copying
  <2>3. MapOK(q)'
    <3>1. CallOK(q) /\ MapOK(q)
      BY DEF LocalInv
    <3> QED
      BY <2>1, <3>1, NoLocalsFields DEF CallOK, MapOK, Mapped, Looping, Copying, Present
  <2>4. PteOK(q)'
    BY <2>1 DEF LocalInv, PteOK, Mapped
  <2> QED
    BY <2>2, <2>3, <2>4 DEF LocalOK
<1>6. Aside
  BY <1>1 DEF Aside, Same, ControlTypes, Unforking
<1>7. \A q \in Procs : Keeps(q)
  BY <1>1 DEF Keeps, Held, Holding, Carried, Unforking
<1>8. Quiet
  BY <1>7 DEF Quiet, UnmapReturns
<1> QED
  BY <1>2, <1>3, <1>4, <1>5, <1>6, <1>8 DEF LocalInv, LocalOK

(* So does the end of the uvmunmap loop. *)
LEMMA LocalUnmapped ==
    ASSUME ControlTypes, MemoryTypes, LocalInv, NEW p \in Procs, UnmapReturns(p)
    PROVE  ControlTypes' /\ LocalInv' /\ Aside /\ (Quiet \/ Counting(p))
<1>1. sz[p] \in Nat /\ k[p].va \in Nat
  BY SizeIsNat, LocalsFields DEF ControlTypes
<1> QED
  BY <1>1, LocalCopyUnmapped, LocalDiscarded, LocalUndone, LocalShrunk, LocalFreed
     DEF UnmapReturns, Copying

(* Together, so does each step that frees a page. *)
LEMMA LocalFree ==
    ASSUME ControlTypes, MemoryTypes, LocalInv, NEW p \in Procs, FreeStep(p)
    PROVE  ControlTypes' /\ LocalInv' /\ Aside /\ (Quiet \/ Counting(p))
BY LocalKfree, LocalUnmapped DEF FreeStep

=============================================================================
