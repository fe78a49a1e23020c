--------------------------- MODULE CowLocalProofs ----------------------------
(***************************************************************************)
(* Lemmas about CowMemory, one process at a time: where each call is, what *)
(* its locals are good for, which pages it has mapped, and that only a few *)
(* steps move references to frames.                                        *)
(***************************************************************************)
EXTENDS CowMemory, TLAPS

(* The steps of a process, grouped by what they change. *)
UserStep(p) ==
    \/ Exit(p) \/ Reap(p)
    \/ \E v \in VPages : PageFault(p, v)
    \/ \E v \in VPages, x \in Vals : UserWrite(p, v, x) \/ CopyOut(p, v, x)
    \/ \E n \in 0 .. NPAGES : SbrkGrow(p, n) \/ SbrkShrink(p, n)

AllocStep(p) ==
    \/ \E f \in Frames : KallocPop(p, f)
    \/ KallocCount(p) \/ KallocFails(p) \/ CopyPage(p) \/ FillPage(p) \/ FillFails(p)
    \/ \E x \in Vals : MapCopy(p, x)

FreeStep(p) ==
    KfreeCheck(p) \/ KfreeDrop(p) \/ KfreePush(p) \/ NextPage(p) \/ UnmapReturns(p)

ForkStep(p) ==
    (\E c \in Procs : Fork(p, c)) \/ ForkPage(p) \/ ForkFails(p) \/ ForkReturns(p)

(* Every step is one of these, or changes nothing. *)
LEMMA StepCases ==
    ASSUME [Next]_vars
    PROVE  \/ UNCHANGED vars
           \/ \E p \in Procs : UserStep(p) \/ AllocStep(p) \/ FreeStep(p) \/ ForkStep(p)
BY DEF Next, Step, Halted, UserStep, AllocStep, FreeStep, ForkStep

-----------------------------------------------------------------------------
(* Program counters, locals and sizes have their types. *)
CallTypes == pc \in [Procs -> Labels] /\ k \in [Procs -> Locals]
ControlTypes == CallTypes /\ sz \in [Procs -> 0 .. NPAGES]

(* The names of labels and operations, so that the sets need no expanding. *)
LEMMA Names ==
    /\ "user" \in Labels /\ "zombie" \in Labels /\ "unused" \in Labels /\ "embryo" \in Labels
    /\ "unfork" \in Labels /\ "alloc" \in Labels /\ "count" \in Labels /\ "move" \in Labels
    /\ "fill" \in Labels /\ "map" \in Labels /\ "check" \in Labels /\ "drop" \in Labels
    /\ "push" \in Labels /\ "freed" \in Labels /\ "fork" \in Labels
    /\ "none" \in Ops /\ "fault" \in Ops /\ "copyout" \in Ops /\ "grow" \in Ops
    /\ "discard" \in Ops /\ "undo" \in Ops /\ "shrink" \in Ops /\ "freeproc" \in Ops
BY DEF Labels, Idle, Ops

(* The locals of a process that is in no call have their types. *)
LEMMA NoLocalsType == \A p \in Procs : NoLocals(p) \in Locals
BY Names DEF NoLocals, Locals

(* Its fields. *)
LEMMA NoLocalsFields ==
    \A p : /\ NoLocals(p).op = "none" /\ NoLocals(p).va = 0 /\ NoLocals(p).end = 0
          /\ NoLocals(p).arg = 0 /\ NoLocals(p).new = NoFrame /\ NoLocals(p).old = NoFrame
          /\ NoLocals(p).child = p
BY DEF NoLocals

(* What the steps that begin or end a call do to its process, and to no     *)
(* other one.                                                               *)
LEMMA ReturnEffect ==
    ASSUME CallTypes, NEW p \in Procs, NEW label \in Labels, Return(p, label)
    PROVE  /\ CallTypes'
           /\ pc'[p] = label /\ k'[p] = NoLocals(p) /\ k'[p].op = "none" /\ k'[p].va = 0
           /\ \A q \in Procs \ {p} : pc'[q] = pc[q] /\ k'[q] = k[q]
BY NoLocalsType, NoLocalsFields DEF CallTypes, Return, Goto

(* A call asks kalloc for a frame. *)
LEMMA AllocEffect ==
    ASSUME CallTypes, NEW p \in Procs, NEW o \in Ops, NEW v \in Nat, NEW n \in Nat,
           StartAlloc(p, o, v, n)
    PROVE  /\ CallTypes'
           /\ pc'[p] = "alloc"
           /\ k'[p].op = o /\ k'[p].va = v /\ k'[p].arg = n
           /\ k'[p].end = k[p].end /\ k'[p].new = k[p].new /\ k'[p].old = k[p].old
           /\ k'[p].child = k[p].child
           /\ \A q \in Procs \ {p} : pc'[q] = pc[q] /\ k'[q] = k[q]
<1> USE Names
<1>1. k' \in [Procs -> Locals]
  BY ZenonT(30) DEF CallTypes, StartAlloc, Locals
<1> QED
  BY <1>1 DEF CallTypes, StartAlloc, Goto, Locals

(* A call enters the uvmunmap loop. *)
LEMMA UnmapEffect ==
    ASSUME CallTypes, NEW p \in Procs, NEW o \in Ops, NEW from \in Nat, NEW to \in Nat,
           StartUnmap(p, o, from, to)
    PROVE  /\ CallTypes'
           /\ pc'[p] = "check"
           /\ k'[p].op = o /\ k'[p].va = from /\ k'[p].end = to
           /\ k'[p].arg = k[p].arg /\ k'[p].new = k[p].new /\ k'[p].old = k[p].old
           /\ k'[p].child = k[p].child
           /\ \A q \in Procs \ {p} : pc'[q] = pc[q] /\ k'[q] = k[q]
<1> USE Names
<1>1. k' \in [Procs -> Locals]
  BY ZenonT(30) DEF CallTypes, StartUnmap, Locals
<1> QED
  BY <1>1 DEF CallTypes, StartUnmap, Goto, Locals

(* A process that a step does not touch keeps what the invariant says of it. *)
Same(q) == pc'[q] = pc[q] /\ k'[q] = k[q] /\ sz'[q] = sz[q] /\ pt'[q] = pt[q]

LocalOK(p) == CallOK(p) /\ MapOK(p) /\ PteOK(p)

(* No fork is begun, and those that go on are left alone. *)
Aside ==
    \A q \in Procs : /\ pc[q] \in {"fork", "embryo"} => Same(q)
                     /\ pc'[q] = "fork" => pc[q] = "fork"

(* What is said of an untouched process stays true. *)
LEMMA LocalFrame ==
    ASSUME LocalInv, NEW q \in Procs, Same(q)
    PROVE  LocalOK(q)'
BY DEF LocalInv, LocalOK, Same, CallOK, MapOK, PteOK, Mapped, Looping, Copying, Present, ToGo

(* A step that leaves the page table alone, and what it should map. *)
LEMMA TableKept ==
    ASSUME NEW p \in Procs, MapOK(p), PteOK(p), CallOK(p)', pt' = pt, pc[p] # "embryo",
           \A v \in VPages : Present(p, v)' <=> Present(p, v)
    PROVE  LocalOK(p)'
BY DEF LocalOK, MapOK, PteOK, Mapped

(* A step of one process that is not fork need only look at that process. *)
LEMMA OneProcess ==
    ASSUME LocalInv, NEW p \in Procs, LocalOK(p)', \A q \in Procs \ {p} : Same(q),
           pc[p] \notin {"fork", "embryo"}, pc'[p] # "fork"
    PROVE  LocalInv' /\ Aside
<1>1. \A q \in Procs : LocalOK(q)'
  BY LocalFrame
<1>2. LocalInv'
  BY <1>1 DEF LocalInv, LocalOK
<1>3. Aside
  BY DEF Aside, Same
<1> QED
  BY <1>2, <1>3

(* A process keeps its references to frames, and gains no right to write. *)
Held(p) == IF Holding(p) THEN k[p].new ELSE NoFrame

Keeps(q) ==
    /\ Held(q)' = Held(q) /\ (Holding(q)' => Holding(q))
    /\ Carried(q)' = Carried(q)
    /\ \A v \in VPages : pt'[q][v].pa = pt[q][v].pa /\ (pt'[q][v].w => pt[q][v].w)

(* A step that moves no reference, and the steps that do. *)
Quiet == ref' = ref /\ free' = free /\ \A q \in Procs : Keeps(q)

Counting(p) ==
    \/ \E v \in VPages : PageFault(p, v) /\ ref[pt[p][v].pa] = 1
    \/ \E f \in Frames : KallocPop(p, f)
    \/ \E x \in Vals : MapCopy(p, x)
    \/ KallocCount(p) \/ FillPage(p) \/ KfreeDrop(p) \/ KfreePush(p) \/ ForkPage(p)

(* An untouched process keeps its references. *)
LEMMA SameKeeps == \A q \in Procs : Same(q) => Keeps(q)
BY DEF Same, Keeps, Held, Holding, Carried

(* A step of one process is quiet if that process keeps its references. *)
LEMMA OthersKeep ==
    ASSUME NEW p \in Procs, \A q \in Procs \ {p} : Same(q), Keeps(p),
           ref' = ref, free' = free
    PROVE  Quiet
BY SameKeeps DEF Quiet

(* The rest of the types: page tables and memory. *)
MemoryTypes ==
    /\ pt \in [Procs -> [VPages -> PTE]]
    /\ ref \in [Frames -> Nat]
    /\ free \in SUBSET Frames
    /\ mem \in [Frames -> Vals \cup {Junk}]
    /\ panicked \in BOOLEAN

(* The two halves of TypeOK. *)
LEMMA SplitTypes == TypeOK <=> ControlTypes /\ MemoryTypes
BY DEF TypeOK, ControlTypes, CallTypes, MemoryTypes

(* Sizes are natural numbers. *)
LEMMA SizeIsNat == ControlTypes => \A p \in Procs : sz[p] \in Nat /\ sz[p] <= NPAGES
BY ConstantsAssumption DEF ControlTypes

(* The locals of a call, field by field. *)
LEMMA LocalsFields ==
    ASSUME CallTypes, NEW p \in Procs
    PROVE  /\ k[p].op \in Ops /\ k[p].va \in Nat /\ k[p].end \in Nat /\ k[p].arg \in Nat
           /\ k[p].new \in Frames \cup {NoFrame} /\ k[p].old \in Frames \cup {NoFrame}
           /\ k[p].child \in Procs
BY DEF CallTypes, Locals

(* sbrk's locals have their types when it shrinks. *)
LEMMA ShrinkLocals ==
    ASSUME NEW r \in Locals, NEW n \in Nat, NEW m \in Nat
    PROVE  [r EXCEPT !.op = "shrink", !.va = n, !.end = m, !.arg = n] \in Locals
BY Zenon, Names DEF Locals

(* exit leaves a zombie and its pages. *)
LEMMA LocalExit ==
    ASSUME ControlTypes, MemoryTypes, LocalInv, NEW p \in Procs, Exit(p)
    PROVE  ControlTypes' /\ LocalInv' /\ Aside /\ (Quiet \/ Counting(p))
<1>t. /\ CallTypes /\ sz[p] \in Nat /\ sz[p] <= NPAGES /\ NPAGES \in Nat
      /\ k[p].va \in Nat /\ k[p].end \in Nat /\ k[p].arg \in Nat
      /\ k[p].op \in Ops /\ NoFrame \notin Frames
      /\ NoLocals(p).op = "none" /\ NoLocals(p).va = 0
  BY ConstantsAssumption, NoLocalsFields, SizeIsNat, LocalsFields DEF ControlTypes
<1>i. CallOK(p) /\ MapOK(p) /\ PteOK(p)
  BY DEF LocalInv
<1>1. Return(p, "zombie")
  BY DEF Exit
<1>2. /\ CallTypes'
      /\ pc'[p] = "zombie" /\ k'[p] = NoLocals(p) /\ k'[p].op = "none"
      /\ \A q \in Procs \ {p} : pc'[q] = pc[q] /\ k'[q] = k[q]
  BY Names, <1>t, <1>1, ReturnEffect
<1>3. /\ ControlTypes'
      /\ pc[p] = "user"
      /\ sz' = sz /\ pt' = pt
      /\ ref' = ref /\ free' = free
      /\ \A q \in Procs \ {p} : Same(q)
  BY <1>t, <1>1, <1>2 DEF Exit, ControlTypes, Same
<1>4. LocalOK(p)'
  <2>1. CallOK(p)'
    BY <1>t, <1>i, <1>2, <1>3 DEF CallOK, Looping, Copying
  <2>2. \A v \in VPages : Present(p, v)' <=> Present(p, v)
    BY <1>t, <1>i, <1>2, <1>3 DEF CallOK, Looping, Copying, Present, ToGo, VPages
  <2> QED
    BY <1>i, <1>2, <1>3, <2>1, <2>2, TableKept
<1>5. Keeps(p)
  BY <1>t, <1>i, <1>2, <1>3 DEF Keeps, Held, Holding, Carried, CallOK, Looping, Copying
<1> QED
  BY <1>2, <1>3, <1>4, <1>5, OneProcess, OthersKeep

(* wait frees a zombie with no page. *)
LEMMA LocalReapEmpty ==
    ASSUME ControlTypes, MemoryTypes, LocalInv, NEW p \in Procs, Reap(p) /\ sz[p] = 0
    PROVE  ControlTypes' /\ LocalInv' /\ Aside /\ (Quiet \/ Counting(p))
<1>t. /\ CallTypes /\ sz[p] \in Nat /\ sz[p] <= NPAGES /\ NPAGES \in Nat
      /\ k[p].va \in Nat /\ k[p].end \in Nat /\ k[p].arg \in Nat
      /\ k[p].op \in Ops /\ NoFrame \notin Frames
      /\ NoLocals(p).op = "none" /\ NoLocals(p).va = 0
  BY ConstantsAssumption, NoLocalsFields, SizeIsNat, LocalsFields DEF ControlTypes
<1>i. CallOK(p) /\ MapOK(p) /\ PteOK(p)
  BY DEF LocalInv
<1>1. Return(p, "unused")
  BY DEF Reap
<1>2. /\ CallTypes'
      /\ pc'[p] = "unused" /\ k'[p] = NoLocals(p) /\ k'[p].op = "none"
      /\ \A q \in Procs \ {p} : pc'[q] = pc[q] /\ k'[q] = k[q]
  BY Names, <1>t, <1>1, ReturnEffect
<1>3. /\ ControlTypes'
      /\ pc[p] = "zombie"
      /\ sz' = sz /\ pt' = pt
      /\ ref' = ref /\ free' = free
      /\ \A q \in Procs \ {p} : Same(q)
  BY <1>t, <1>1, <1>2 DEF Reap, ControlTypes, Same
<1>4. LocalOK(p)'
  <2>1. CallOK(p)'
    BY <1>t, <1>i, <1>2, <1>3 DEF CallOK, Looping, Copying
  <2>2. \A v \in VPages : Present(p, v)' <=> Present(p, v)
    BY <1>t, <1>i, <1>2, <1>3 DEF CallOK, Looping, Copying, Present, ToGo, VPages
  <2> QED
    BY <1>i, <1>2, <1>3, <2>1, <2>2, TableKept
<1>5. Keeps(p)
  BY <1>t, <1>i, <1>2, <1>3 DEF Keeps, Held, Holding, Carried, CallOK, Looping, Copying
<1> QED
  BY <1>2, <1>3, <1>4, <1>5, OneProcess, OthersKeep

(* wait starts to free the pages of a zombie. *)
LEMMA LocalReap ==
    ASSUME ControlTypes, MemoryTypes, LocalInv, NEW p \in Procs, Reap(p) /\ sz[p] > 0
    PROVE  ControlTypes' /\ LocalInv' /\ Aside /\ (Quiet \/ Counting(p))
<1>t. /\ CallTypes /\ sz[p] \in Nat /\ sz[p] <= NPAGES /\ NPAGES \in Nat
      /\ k[p].va \in Nat /\ k[p].end \in Nat /\ k[p].arg \in Nat
      /\ k[p].op \in Ops /\ NoFrame \notin Frames
      /\ NoLocals(p).op = "none" /\ NoLocals(p).va = 0
  BY ConstantsAssumption, NoLocalsFields, SizeIsNat, LocalsFields DEF ControlTypes
<1>i. CallOK(p) /\ MapOK(p) /\ PteOK(p)
  BY DEF LocalInv
<1>1. StartUnmap(p, "freeproc", 0, sz[p])
  BY DEF Reap
<1>2. /\ CallTypes'
      /\ pc'[p] = "check"
      /\ k'[p].op = "freeproc" /\ k'[p].va = 0 /\ k'[p].end = sz[p]
      /\ \A q \in Procs \ {p} : pc'[q] = pc[q] /\ k'[q] = k[q]
  <2>1. CallTypes /\ "freeproc" \in Ops /\ 0 \in Nat /\ sz[p] \in Nat
    BY Names, <1>t
  <2> QED
    BY <1>1, <2>1, UnmapEffect
<1>3. /\ ControlTypes'
      /\ pc[p] = "zombie"
      /\ sz' = sz /\ pt' = pt
      /\ ref' = ref /\ free' = free
      /\ \A q \in Procs \ {p} : Same(q)
  BY <1>t, <1>1, <1>2 DEF Reap, ControlTypes, Same
<1>4. LocalOK(p)'
  <2>1. CallOK(p)'
    BY <1>t, <1>i, <1>2, <1>3 DEF CallOK, Looping, Copying
  <2>2. \A v \in VPages : Present(p, v)' <=> Present(p, v)
    BY <1>t, <1>i, <1>2, <1>3 DEF CallOK, Looping, Copying, Present, ToGo, VPages
  <2> QED
    BY <1>i, <1>2, <1>3, <2>1, <2>2, TableKept
<1>5. Keeps(p)
  BY <1>t, <1>i, <1>2, <1>3 DEF Keeps, Held, Holding, Carried, CallOK, Looping, Copying
<1> QED
  BY <1>2, <1>3, <1>4, <1>5, OneProcess, OthersKeep

(* An exit and a wait keep the types and what is said of each process. *)
LEMMA LocalLeave ==
    ASSUME ControlTypes, MemoryTypes, LocalInv, NEW p \in Procs, Exit(p) \/ Reap(p)
    PROVE  ControlTypes' /\ LocalInv' /\ Aside /\ (Quiet \/ Counting(p))
BY LocalExit, LocalReapEmpty, LocalReap, SizeIsNat DEF Reap

(* So does the fault of a page. *)
LEMMA LocalFault ==
    ASSUME ControlTypes, MemoryTypes, LocalInv, NEW p \in Procs, NEW v \in VPages, PageFault(p, v)
    PROVE  ControlTypes' /\ LocalInv' /\ Aside /\ (Quiet \/ Counting(p))
<1>t. /\ CallTypes /\ sz[p] \in Nat /\ sz[p] <= NPAGES /\ NPAGES \in Nat
      /\ k[p].va \in Nat /\ k[p].end \in Nat /\ k[p].arg \in Nat
      /\ k[p].op \in Ops /\ NoFrame \notin Frames
      /\ NoLocals(p).op = "none" /\ NoLocals(p).va = 0
  BY ConstantsAssumption, NoLocalsFields, SizeIsNat, LocalsFields DEF ControlTypes
<1>i. CallOK(p) /\ MapOK(p) /\ PteOK(p)
  BY DEF LocalInv
<1>1. CASE ref[pt[p][v].pa] > 1
  <2>1. v \in Nat
    BY <1>t DEF VPages
  <2>2. StartAlloc(p, "fault", v, 0)
    BY <1>i, <1>1 DEF PageFault, MemoryTypes, PTE, PteOK, Mapped
  <2>3. /\ CallTypes'
        /\ pc'[p] = "alloc"
        /\ k'[p].op = "fault" /\ k'[p].va = v
        /\ \A q \in Procs \ {p} : pc'[q] = pc[q] /\ k'[q] = k[q]
    BY Names, <1>t, <2>1, <2>2, AllocEffect
  <2>4. /\ ControlTypes'
        /\ pc[p] = "user" /\ v < sz[p]
        /\ sz' = sz /\ pt' = pt
        /\ ref' = ref /\ free' = free
        /\ \A q \in Procs \ {p} : Same(q)
    BY <1>t, <1>1, <2>1, <2>2, <2>3 DEF PageFault, ControlTypes, Same
  <2>5. LocalOK(p)'
    <3>1. CallOK(p)'
      BY <1>t, <1>i, <2>3, <2>4 DEF CallOK, Looping, Copying
    <3>2. \A u \in VPages : Present(p, u)' <=> Present(p, u)
      BY <1>t, <1>i, <2>3, <2>4 DEF CallOK, Looping, Copying, Present, ToGo, VPages
    <3> QED
      BY <1>i, <2>3, <2>4, <3>1, <3>2, TableKept
  <2>6. Keeps(p)
    BY <1>t, <1>i, <2>3, <2>4 DEF Keeps, Held, Holding, Carried, CallOK, Looping, Copying
  <2> QED
    BY <2>3, <2>4, <2>5, <2>6, OneProcess, OthersKeep
<1>2. CASE ref[pt[p][v].pa] = 1
  <2>1. /\ ControlTypes'
        /\ pc[p] = "user" /\ pc' = pc /\ k' = k /\ sz' = sz
        /\ pt[p][v].cow /\ pt'[p][v] = [pa |-> pt[p][v].pa, w |-> TRUE, cow |-> FALSE]
        /\ \A u \in VPages \ {v} : pt'[p][u] = pt[p][u]
        /\ \A q \in Procs \ {p} : Same(q)
    BY <1>2 DEF PageFault, ControlTypes, CallTypes, Same, MemoryTypes, PTE
  <2>2. LocalOK(p)'
    <3>1. CallOK(p)'
      BY <1>t, <1>i, <2>1 DEF CallOK, Looping, Copying
    <3>2. MapOK(p)'
      BY <1>t, <1>i, <2>1 DEF CallOK, MapOK, Mapped, Looping, Copying, Present, ToGo, VPages
    <3>3. PteOK(p)'
      BY <1>t, <1>i, <2>1 DEF PteOK, Mapped
    <3> QED
      BY <3>1, <3>2, <3>3 DEF LocalOK
  <2> QED
    BY <1>2, <2>1, <2>2, OneProcess DEF Counting
<1>3. CASE ref[pt[p][v].pa] <= 0
  <2>1. Return(p, "zombie")
    BY <1>i, <1>3 DEF PageFault, MemoryTypes, PTE, PteOK, Mapped
  <2>2. /\ CallTypes'
        /\ pc'[p] = "zombie" /\ k'[p] = NoLocals(p) /\ k'[p].op = "none"
        /\ \A q \in Procs \ {p} : pc'[q] = pc[q] /\ k'[q] = k[q]
    BY Names, <1>t, <2>1, ReturnEffect
  <2>3. /\ ControlTypes'
        /\ pc[p] = "user"
        /\ sz' = sz /\ pt' = pt
        /\ ref' = ref /\ free' = free
        /\ \A q \in Procs \ {p} : Same(q)
    BY SMTT(30), <1>t, <1>3, <2>1, <2>2 DEF PageFault, ControlTypes, Same
  <2>4. LocalOK(p)'
    <3>1. CallOK(p)'
      BY <1>t, <1>i, <2>2, <2>3 DEF CallOK, Looping, Copying
    <3>2. \A u \in VPages : Present(p, u)' <=> Present(p, u)
      BY <1>t, <1>i, <2>2, <2>3 DEF CallOK, Looping, Copying, Present, ToGo, VPages
    <3> QED
      BY <1>i, <2>2, <2>3, <3>1, <3>2, TableKept
  <2>5. Keeps(p)
    BY <1>t, <1>i, <2>2, <2>3 DEF Keeps, Held, Holding, Carried, CallOK, Looping, Copying
  <2> QED
    BY <2>2, <2>3, <2>4, <2>5, OneProcess, OthersKeep
<1> QED
  BY <1>1, <1>2, <1>3 DEF PageFault

(* copyout to a shared page starts a copy of it. *)
LEMMA LocalCopyOut ==
    ASSUME ControlTypes, MemoryTypes, LocalInv, NEW p \in Procs, NEW v \in VPages, NEW x \in Vals, CopyOut(p, v, x), pt[p][v].cow
    PROVE  ControlTypes' /\ LocalInv' /\ Aside /\ (Quiet \/ Counting(p))
<1>t. /\ CallTypes /\ sz[p] \in Nat /\ sz[p] <= NPAGES /\ NPAGES \in Nat
      /\ k[p].va \in Nat /\ k[p].end \in Nat /\ k[p].arg \in Nat
      /\ k[p].op \in Ops /\ NoFrame \notin Frames
      /\ NoLocals(p).op = "none" /\ NoLocals(p).va = 0
  BY ConstantsAssumption, NoLocalsFields, SizeIsNat, LocalsFields DEF ControlTypes
<1>i. CallOK(p) /\ MapOK(p) /\ PteOK(p)
  BY DEF LocalInv
<1>1. v \in Nat
  BY <1>t DEF VPages
<1>2. StartAlloc(p, "copyout", v, 0)
  BY DEF CopyOut
<1>3. /\ CallTypes'
      /\ pc'[p] = "alloc"
      /\ k'[p].op = "copyout" /\ k'[p].va = v
      /\ \A q \in Procs \ {p} : pc'[q] = pc[q] /\ k'[q] = k[q]
  BY Names, <1>t, <1>1, <1>2, AllocEffect
<1>4. /\ ControlTypes'
      /\ pc[p] = "user" /\ Mapped(p, v)
      /\ sz' = sz /\ pt' = pt
      /\ ref' = ref /\ free' = free
      /\ \A q \in Procs \ {p} : Same(q)
  BY <1>t, <1>1, <1>2, <1>3 DEF CopyOut, ControlTypes, Same, Mapped
<1>5. LocalOK(p)'
  <2>1. CallOK(p)'
    BY SMTT(30), <1>t, <1>i, <1>1, <1>2, <1>3, <1>4 DEF CallOK, MapOK, Mapped, Present, Looping, Copying
  <2>2. \A u \in VPages : Present(p, u)' <=> Present(p, u)
    BY SMTT(30), <1>t, <1>i, <1>1, <1>2, <1>3, <1>4 DEF CallOK, Looping, Copying, Present, ToGo, VPages
  <2> QED
    BY <1>i, <1>3, <1>4, <2>1, <2>2, TableKept
<1>6. Keeps(p)
  BY <1>t, <1>i, <1>1, <1>2, <1>3, <1>4 DEF Keeps, Held, Holding, Carried, CallOK, Looping, Copying
<1> QED
  BY <1>3, <1>4, <1>5, <1>6, OneProcess, OthersKeep

(* A write to a page of its own, by the process or by copyout, changes no table. *)
LEMMA LocalWrite ==
    ASSUME ControlTypes, MemoryTypes, LocalInv, NEW p \in Procs, NEW v \in VPages, NEW x \in Vals,
           UserWrite(p, v, x) \/ (CopyOut(p, v, x) /\ ~pt[p][v].cow)
    PROVE  ControlTypes' /\ LocalInv' /\ Aside /\ (Quiet \/ Counting(p))
<1>t. /\ CallTypes /\ sz[p] \in Nat /\ sz[p] <= NPAGES /\ NPAGES \in Nat
      /\ k[p].va \in Nat /\ k[p].end \in Nat /\ k[p].arg \in Nat
      /\ k[p].op \in Ops /\ NoFrame \notin Frames
      /\ NoLocals(p).op = "none" /\ NoLocals(p).va = 0
  BY ConstantsAssumption, NoLocalsFields, SizeIsNat, LocalsFields DEF ControlTypes
<1>i. CallOK(p) /\ MapOK(p) /\ PteOK(p)
  BY DEF LocalInv
<1>1. /\ ControlTypes' /\ \A q \in Procs : Same(q)
      /\ ref' = ref /\ free' = free
  BY DEF UserWrite, CopyOut, ControlTypes, CallTypes, Same
<1>2. LocalInv' /\ Aside
  BY <1>1, LocalFrame DEF LocalInv, LocalOK, Aside, Same
<1> QED
  BY <1>1, <1>2, SameKeeps DEF Quiet

(* sbrk starts to grow the process. *)
LEMMA LocalGrow ==
    ASSUME ControlTypes, MemoryTypes, LocalInv, NEW p \in Procs, NEW n \in 0 .. NPAGES, SbrkGrow(p, n)
    PROVE  ControlTypes' /\ LocalInv' /\ Aside /\ (Quiet \/ Counting(p))
<1>t. /\ CallTypes /\ sz[p] \in Nat /\ sz[p] <= NPAGES /\ NPAGES \in Nat
      /\ k[p].va \in Nat /\ k[p].end \in Nat /\ k[p].arg \in Nat
      /\ k[p].op \in Ops /\ NoFrame \notin Frames
      /\ NoLocals(p).op = "none" /\ NoLocals(p).va = 0
  BY ConstantsAssumption, NoLocalsFields, SizeIsNat, LocalsFields DEF ControlTypes
<1>i. CallOK(p) /\ MapOK(p) /\ PteOK(p)
  BY DEF LocalInv
<1>1. StartAlloc(p, "grow", sz[p], n)
  BY DEF SbrkGrow
<1>2. /\ CallTypes'
      /\ pc'[p] = "alloc"
      /\ k'[p].op = "grow" /\ k'[p].va = sz[p] /\ k'[p].arg = n
      /\ \A q \in Procs \ {p} : pc'[q] = pc[q] /\ k'[q] = k[q]
  BY Names, <1>t, <1>1, AllocEffect
<1>3. /\ ControlTypes'
      /\ pc[p] = "user" /\ sz[p] < n
      /\ sz' = sz /\ pt' = pt
      /\ ref' = ref /\ free' = free
      /\ \A q \in Procs \ {p} : Same(q)
  BY <1>t, <1>1, <1>2 DEF SbrkGrow, ControlTypes, Same
<1>4. LocalOK(p)'
  <2>1. CallOK(p)'
    BY <1>t, <1>i, <1>2, <1>3 DEF CallOK, Looping, Copying
  <2>2. \A v \in VPages : Present(p, v)' <=> Present(p, v)
    BY <1>t, <1>i, <1>2, <1>3 DEF CallOK, Looping, Copying, Present, ToGo, VPages
  <2> QED
    BY <1>i, <1>2, <1>3, <2>1, <2>2, TableKept
<1>5. Keeps(p)
  BY <1>t, <1>i, <1>2, <1>3 DEF Keeps, Held, Holding, Carried, CallOK, Looping, Copying
<1> QED
  BY <1>2, <1>3, <1>4, <1>5, OneProcess, OthersKeep

(* sbrk starts to shrink the process. *)
LEMMA LocalShrink ==
    ASSUME ControlTypes, MemoryTypes, LocalInv, NEW p \in Procs, NEW n \in 0 .. NPAGES, SbrkShrink(p, n)
    PROVE  ControlTypes' /\ LocalInv' /\ Aside /\ (Quiet \/ Counting(p))
<1>t. /\ CallTypes /\ sz[p] \in Nat /\ sz[p] <= NPAGES /\ NPAGES \in Nat
      /\ k[p].va \in Nat /\ k[p].end \in Nat /\ k[p].arg \in Nat
      /\ k[p].op \in Ops /\ NoFrame \notin Frames
      /\ NoLocals(p).op = "none" /\ NoLocals(p).va = 0
  BY ConstantsAssumption, NoLocalsFields, SizeIsNat, LocalsFields DEF ControlTypes
<1>i. CallOK(p) /\ MapOK(p) /\ PteOK(p)
  BY DEF LocalInv
<1>1. n \in Nat /\ n < sz[p]
  BY <1>t DEF SbrkShrink
<1>2. k' = [k EXCEPT ![p] = [k[p] EXCEPT !.op = "shrink", !.va = n, !.end = sz[p], !.arg = n]]
  BY Zenon, <1>t DEF SbrkShrink, CallTypes
<1>3. [k[p] EXCEPT !.op = "shrink", !.va = n, !.end = sz[p], !.arg = n] \in Locals
  BY Zenon, <1>t, <1>1, ShrinkLocals DEF CallTypes
<1>4. k' \in [Procs -> Locals]
  BY <1>t, <1>2, <1>3 DEF CallTypes
<1>5. /\ ControlTypes'
      /\ pc[p] = "user" /\ pc'[p] = "check" /\ n < sz[p]
      /\ k'[p].op = "shrink" /\ k'[p].va = n /\ k'[p].end = sz[p] /\ k'[p].arg = n
      /\ sz' = sz /\ pt' = pt
      /\ ref' = ref /\ free' = free
      /\ \A q \in Procs \ {p} : Same(q)
  BY Names, <1>t, <1>1, <1>2, <1>3, <1>4 DEF SbrkShrink, ControlTypes, CallTypes, Locals, Goto, Same
<1>6. LocalOK(p)'
  <2>1. CallOK(p)'
    BY <1>t, <1>i, <1>1, <1>2, <1>3, <1>4, <1>5 DEF CallOK, Looping, Copying
  <2>2. \A v \in VPages : Present(p, v)' <=> Present(p, v)
    BY <1>t, <1>i, <1>1, <1>2, <1>3, <1>4, <1>5 DEF CallOK, Looping, Copying, Present, ToGo, VPages
  <2> QED
    BY <1>i, <1>5, <2>1, <2>2, TableKept
<1>7. Keeps(p)
  BY <1>t, <1>i, <1>1, <1>2, <1>3, <1>4, <1>5 DEF Keeps, Held, Holding, Carried, CallOK, Looping, Copying
<1> QED
  BY <1>5, <1>6, <1>7, OneProcess, OthersKeep

(* So does each step of user mode. *)
LEMMA LocalUser ==
    ASSUME ControlTypes, MemoryTypes, LocalInv, NEW p \in Procs, UserStep(p)
    PROVE  ControlTypes' /\ LocalInv' /\ Aside /\ (Quiet \/ Counting(p))
BY LocalCopyOut, LocalWrite, LocalGrow, LocalShrink, LocalLeave, LocalFault DEF UserStep

(* Steps of user mode keep the types of page tables, counts and memory. *)
LEMMA TypesUser ==
    ASSUME ControlTypes, MemoryTypes, LocalInv, ~panicked, NEW p \in Procs, UserStep(p)
    PROVE  MemoryTypes' /\ ~panicked'
<1>1. ASSUME NEW v \in VPages, PageFault(p, v)
      PROVE  MemoryTypes' /\ ~panicked'
  <2>1. /\ UNCHANGED <<ref, free, mem, panicked>>
        /\ pt' = pt \/ pt' = [pt EXCEPT ![p][v].w = TRUE, ![p][v].cow = FALSE]
    BY Zenon, <1>1 DEF PageFault
  <2>2. [pt EXCEPT ![p][v].w = TRUE, ![p][v].cow = FALSE] \in [Procs -> [VPages -> PTE]]
    <3>1. pt[p][v] \in PTE
      BY DEF MemoryTypes
    <3>2. [pt[p][v] EXCEPT !.w = TRUE, !.cow = FALSE] \in PTE
      BY Zenon, <3>1 DEF PTE
    <3>3. [pt EXCEPT ![p][v].w = TRUE, ![p][v].cow = FALSE]
            = [pt EXCEPT ![p] = [pt[p] EXCEPT ![v] = [pt[p][v] EXCEPT !.w = TRUE, !.cow = FALSE]]]
      BY Zenon DEF MemoryTypes, PTE
    <3>4. [pt[p] EXCEPT ![v] = [pt[p][v] EXCEPT !.w = TRUE, !.cow = FALSE]]
             \in [VPages -> PTE]
      BY <3>2 DEF MemoryTypes
    <3> QED
      BY <3>3, <3>4 DEF MemoryTypes
  <2> QED
    BY Zenon, <2>1, <2>2 DEF MemoryTypes
<1>2. ASSUME NEW v \in VPages, NEW x \in Vals, UserWrite(p, v, x) \/ CopyOut(p, v, x)
      PROVE  MemoryTypes' /\ ~panicked'
  BY <1>2 DEF UserWrite, CopyOut, MemoryTypes
<1>3. CASE Exit(p) \/ Reap(p) \/ \E n \in 0 .. NPAGES : SbrkGrow(p, n) \/ SbrkShrink(p, n)
  <2>1. UNCHANGED <<pt, ref, free, mem, panicked>>
    BY Zenon, <1>3 DEF Exit, Reap, SbrkGrow, SbrkShrink
  <2> QED
    BY <2>1 DEF MemoryTypes
<1> QED
  BY <1>1, <1>2, <1>3 DEF UserStep

-----------------------------------------------------------------------------
(* kalloc, and the calls that it fails.                                     *)

(* kalloc takes a frame from the free list. *)
LEMMA LocalKallocPop ==
    ASSUME ControlTypes, MemoryTypes, LocalInv, NEW p \in Procs, NEW f \in Frames, KallocPop(p, f)
    PROVE  ControlTypes' /\ LocalInv' /\ Aside /\ (Quiet \/ Counting(p))
<1>t. /\ CallTypes /\ sz[p] \in Nat /\ sz[p] <= NPAGES /\ NPAGES \in Nat
      /\ k[p].va \in Nat /\ k[p].end \in Nat /\ k[p].arg \in Nat
      /\ k[p].op \in Ops /\ NoFrame \notin Frames
      /\ NoLocals(p).op = "none" /\ NoLocals(p).va = 0
  BY ConstantsAssumption, NoLocalsFields, SizeIsNat, LocalsFields DEF ControlTypes
<1>i. CallOK(p) /\ MapOK(p) /\ PteOK(p)
  BY DEF LocalInv
<1>1. k' \in [Procs -> Locals]
  BY <1>t DEF KallocPop, CallTypes, Locals
<1>2. /\ ControlTypes'
      /\ pc[p] = "alloc" /\ pc'[p] = "count" /\ k'[p] = [k[p] EXCEPT !.new = f]
      /\ sz' = sz /\ pt' = pt
      /\ \A q \in Procs \ {p} : Same(q)
  BY Names, <1>t, <1>1 DEF KallocPop, ControlTypes, CallTypes, Goto, Same
<1>3. LocalOK(p)'
  <2>1. CallOK(p)'
    BY <1>t, <1>i, <1>1, <1>2 DEF CallOK, Looping, Copying
  <2>2. \A v \in VPages : Present(p, v)' <=> Present(p, v)
    BY <1>t, <1>i, <1>1, <1>2 DEF CallOK, Looping, Copying, Present, ToGo, VPages
  <2> QED
    BY <1>i, <1>2, <2>1, <2>2, TableKept
<1> QED
  BY <1>2, <1>3, OneProcess DEF Counting

(* kalloc counts the new frame. *)
LEMMA LocalKallocCount ==
    ASSUME ControlTypes, MemoryTypes, LocalInv, NEW p \in Procs, KallocCount(p)
    PROVE  ControlTypes' /\ LocalInv' /\ Aside /\ (Quiet \/ Counting(p))
<1>t. /\ CallTypes /\ sz[p] \in Nat /\ sz[p] <= NPAGES /\ NPAGES \in Nat
      /\ k[p].va \in Nat /\ k[p].end \in Nat /\ k[p].arg \in Nat
      /\ k[p].op \in Ops /\ NoFrame \notin Frames
      /\ NoLocals(p).op = "none" /\ NoLocals(p).va = 0
  BY ConstantsAssumption, NoLocalsFields, SizeIsNat, LocalsFields DEF ControlTypes
<1>i. CallOK(p) /\ MapOK(p) /\ PteOK(p)
  BY DEF LocalInv
<1>1. /\ ControlTypes'
      /\ pc[p] = "count" /\ pc'[p] = (IF k[p].op = "grow" THEN "fill" ELSE "move")
      /\ k' = k /\ sz' = sz /\ pt' = pt
      /\ \A q \in Procs \ {p} : Same(q)
  BY Names, <1>t DEF KallocCount, ControlTypes, CallTypes, Goto, Same
<1>2. LocalOK(p)'
  <2>1. CallOK(p)'
    BY <1>t, <1>i, <1>1 DEF CallOK, Looping, Copying
  <2>2. \A v \in VPages : Present(p, v)' <=> Present(p, v)
    BY <1>t, <1>i, <1>1 DEF CallOK, Looping, Copying, Present, ToGo, VPages
  <2> QED
    BY <1>i, <1>1, <2>1, <2>2, TableKept
<1> QED
  BY <1>1, <1>2, OneProcess DEF Counting

(* The fault handler finds no memory: the process is killed. *)
LEMMA LocalFaultFails ==
    ASSUME ControlTypes, MemoryTypes, LocalInv, NEW p \in Procs,
           KallocFails(p) /\ k[p].op = "fault"
    PROVE  ControlTypes' /\ LocalInv' /\ Aside /\ (Quiet \/ Counting(p))
<1>t. /\ CallTypes /\ sz[p] \in Nat /\ sz[p] <= NPAGES /\ NPAGES \in Nat
      /\ k[p].va \in Nat /\ k[p].end \in Nat /\ k[p].arg \in Nat
      /\ k[p].op \in Ops /\ NoFrame \notin Frames
      /\ NoLocals(p).op = "none" /\ NoLocals(p).va = 0
  BY ConstantsAssumption, NoLocalsFields, SizeIsNat, LocalsFields DEF ControlTypes
<1>i. CallOK(p) /\ MapOK(p) /\ PteOK(p)
  BY DEF LocalInv
<1>1. Return(p, "zombie")
  BY DEF KallocFails
<1>2. /\ CallTypes'
      /\ pc'[p] = "zombie" /\ k'[p] = NoLocals(p) /\ k'[p].op = "none"
      /\ \A q \in Procs \ {p} : pc'[q] = pc[q] /\ k'[q] = k[q]
  BY Names, <1>t, <1>1, ReturnEffect
<1>3. /\ ControlTypes'
      /\ pc[p] = "alloc"
      /\ sz' = sz /\ pt' = pt
      /\ ref' = ref /\ free' = free
      /\ \A q \in Procs \ {p} : Same(q)
  BY <1>t, <1>1, <1>2 DEF KallocFails, ControlTypes, Same
<1>4. LocalOK(p)'
  <2>1. CallOK(p)'
    BY <1>t, <1>i, <1>2, <1>3 DEF CallOK, Looping, Copying
  <2>2. \A v \in VPages : Present(p, v)' <=> Present(p, v)
    BY SMTT(30), <1>t, <1>i, <1>2, <1>3 DEF CallOK, Looping, Copying, Present, ToGo, VPages
  <2> QED
    BY SMTT(30), <1>i, <1>2, <1>3, <2>1, <2>2, TableKept
<1>5. Keeps(p)
  BY SMTT(30), <1>t, <1>i, <1>2, <1>3 DEF Keeps, Held, Holding, Carried, CallOK, Looping, Copying
<1> QED
  BY <1>2, <1>3, <1>4, <1>5, OneProcess, OthersKeep

(* copyout, or sbrk's first page, finds no memory. *)
LEMMA LocalCopyoutFails ==
    ASSUME ControlTypes, MemoryTypes, LocalInv, NEW p \in Procs,
           KallocFails(p) /\ (k[p].op = "copyout" \/ (k[p].op = "grow" /\ k[p].va <= sz[p]))
    PROVE  ControlTypes' /\ LocalInv' /\ Aside /\ (Quiet \/ Counting(p))
<1>t. /\ CallTypes /\ sz[p] \in Nat /\ sz[p] <= NPAGES /\ NPAGES \in Nat
      /\ k[p].va \in Nat /\ k[p].end \in Nat /\ k[p].arg \in Nat
      /\ k[p].op \in Ops /\ NoFrame \notin Frames
      /\ NoLocals(p).op = "none" /\ NoLocals(p).va = 0
  BY ConstantsAssumption, NoLocalsFields, SizeIsNat, LocalsFields DEF ControlTypes
<1>i. CallOK(p) /\ MapOK(p) /\ PteOK(p)
  BY DEF LocalInv
<1>1. Return(p, "user")
  BY <1>t, LocalsFields DEF KallocFails, UndoGrow
<1>2. /\ CallTypes'
      /\ pc'[p] = "user" /\ k'[p] = NoLocals(p) /\ k'[p].op = "none"
      /\ \A q \in Procs \ {p} : pc'[q] = pc[q] /\ k'[q] = k[q]
  BY Names, <1>t, <1>1, ReturnEffect
<1>3. /\ ControlTypes'
      /\ pc[p] = "alloc"
      /\ sz' = sz /\ pt' = pt
      /\ ref' = ref /\ free' = free
      /\ \A q \in Procs \ {p} : Same(q)
  BY <1>t, <1>1, <1>2 DEF KallocFails, ControlTypes, Same
<1>4. LocalOK(p)'
  <2>1. CallOK(p)'
    BY <1>t, <1>i, <1>2, <1>3 DEF CallOK, Looping, Copying
  <2>2. \A v \in VPages : Present(p, v)' <=> Present(p, v)
    BY SMTT(30), <1>t, <1>i, <1>2, <1>3 DEF CallOK, Looping, Copying, Present, ToGo, VPages
  <2> QED
    BY SMTT(30), <1>i, <1>2, <1>3, <2>1, <2>2, TableKept
<1>5. Keeps(p)
  BY SMTT(30), <1>t, <1>i, <1>2, <1>3 DEF Keeps, Held, Holding, Carried, CallOK, Looping, Copying
<1> QED
  BY <1>2, <1>3, <1>4, <1>5, OneProcess, OthersKeep

(* uvmalloc finds no memory and starts to undo its pages. *)
LEMMA LocalGrowFails ==
    ASSUME ControlTypes, MemoryTypes, LocalInv, NEW p \in Procs,
           KallocFails(p) /\ k[p].op = "grow" /\ k[p].va > sz[p]
    PROVE  ControlTypes' /\ LocalInv' /\ Aside /\ (Quiet \/ Counting(p))
<1>t. /\ CallTypes /\ sz[p] \in Nat /\ sz[p] <= NPAGES /\ NPAGES \in Nat
      /\ k[p].va \in Nat /\ k[p].end \in Nat /\ k[p].arg \in Nat
      /\ k[p].op \in Ops /\ NoFrame \notin Frames
      /\ NoLocals(p).op = "none" /\ NoLocals(p).va = 0
  BY ConstantsAssumption, NoLocalsFields, SizeIsNat, LocalsFields DEF ControlTypes
<1>i. CallOK(p) /\ MapOK(p) /\ PteOK(p)
  BY DEF LocalInv
<1>1. StartUnmap(p, "undo", sz[p], k[p].va)
  BY <1>t DEF KallocFails, UndoGrow
<1>2. /\ CallTypes'
      /\ pc'[p] = "check"
      /\ k'[p].op = "undo" /\ k'[p].va = sz[p] /\ k'[p].end = k[p].va
      /\ \A q \in Procs \ {p} : pc'[q] = pc[q] /\ k'[q] = k[q]
  BY Names, <1>t, <1>1, UnmapEffect
<1>3. /\ ControlTypes'
      /\ pc[p] = "alloc"
      /\ sz' = sz /\ pt' = pt
      /\ ref' = ref /\ free' = free
      /\ \A q \in Procs \ {p} : Same(q)
  BY <1>t, <1>1, <1>2 DEF KallocFails, ControlTypes, Same
<1>4. LocalOK(p)'
  <2>1. CallOK(p)'
    BY <1>t, <1>i, <1>2, <1>3 DEF CallOK, Looping, Copying
  <2>2. \A v \in VPages : Present(p, v)' <=> Present(p, v)
    BY SMTT(30), <1>t, <1>i, <1>2, <1>3 DEF CallOK, Looping, Copying, Present, ToGo, VPages
  <2> QED
    BY SMTT(30), <1>i, <1>2, <1>3, <2>1, <2>2, TableKept
<1>5. Keeps(p)
  BY <1>t, <1>i, <1>2, <1>3 DEF Keeps, Held, Holding, Carried, CallOK, Looping, Copying
<1> QED
  BY <1>2, <1>3, <1>4, <1>5, OneProcess, OthersKeep

=============================================================================
