---------------------------- MODULE CowForkProofs ---------------------------
(***************************************************************************)
(* What the steps of fork keep: its child is filled page by page and       *)
(* belongs to this fork alone.                                             *)
(***************************************************************************)
EXTENDS CowCallProofs

(* A fork that is left alone keeps its child. *)
LEMMA ForkFrame ==
    ASSUME CallTypes, ForkInv, Aside
    PROVE  ForkInv'
<1> SUFFICES ASSUME NEW p \in Procs, pc'[p] = "fork"
             PROVE  /\ pc'[k'[p].child] = "embryo"
                    /\ \A v \in VPages : Mapped(k[p].child, v)' <=> v < k'[p].va
                    /\ \A q \in Procs : pc'[q] = "fork" /\ k'[q].child = k'[p].child => q = p
  BY DEF ForkInv
<1>1. pc[p] = "fork" /\ Same(p) /\ k[p].child \in Procs
  BY LocalsFields DEF Aside
<1>2. pc[k[p].child] = "embryo" /\ Same(k[p].child)
  BY <1>1 DEF ForkInv, Aside
<1>3. \A q \in Procs : pc'[q] = "fork" => pc[q] = "fork" /\ Same(q)
  BY DEF Aside
<1> QED
  BY <1>1, <1>2, <1>3 DEF ForkInv, Same, Mapped

(* And fork's. *)
LEMMA ForkLocals ==
    ASSUME NEW r \in Locals, NEW c \in Procs, NEW n \in Nat
    PROVE  /\ [r EXCEPT !.child = c] \in Locals
           /\ [r EXCEPT !.va = n] \in Locals
           /\ [r EXCEPT !.op = "freeproc", !.end = n] \in Locals
BY Zenon, Names DEF Locals

(* What uvmcopy makes of an entry keeps its frame and is no longer writable. *)
LEMMA SharedEffect ==
    ASSUME NEW pte \in PTE
    PROVE  /\ Shared(pte) \in PTE
           /\ Shared(pte).pa = pte.pa /\ ~Shared(pte).w
           /\ Shared(pte).cow <=> (pte.w \/ pte.cow)
BY Zenon DEF Shared, PTE

(* A parent in the middle of fork, and its child. *)
LEMMA Forking ==
    ASSUME ControlTypes, LocalInv, ForkInv, NEW p \in Procs, pc[p] = "fork"
    PROVE  /\ k[p].child \in Procs /\ k[p].child # p /\ pc[k[p].child] = "embryo"
           /\ k[k[p].child] = NoLocals(k[p].child) /\ sz[k[p].child] = 0
           /\ k[k[p].child].op = "none" /\ k[k[p].child].va = 0
           /\ k[p].op = "none" /\ k[p].va <= sz[p]
           /\ \A v \in VPages : Mapped(k[p].child, v) <=> v < k[p].va
           /\ \A v \in VPages : Mapped(p, v) <=> v < sz[p]
           /\ \A q \in Procs : pc[q] = "fork" /\ q # p =>
                 k[q].child \in Procs \ {p, k[p].child}
<1>0. /\ CallTypes /\ sz[p] \in Nat /\ sz[p] <= NPAGES /\ NPAGES \in Nat
      /\ k[p].va \in Nat /\ k[p].child \in Procs
  BY ConstantsAssumption, SizeIsNat, LocalsFields DEF ControlTypes
<1>1. k[p].child # p /\ pc[k[p].child] = "embryo"
  BY <1>0 DEF ForkInv
<1>2. k[k[p].child] = NoLocals(k[p].child) /\ sz[k[p].child] = 0
  BY <1>0, <1>1 DEF LocalInv, CallOK
<1> k[k[p].child].op = "none" /\ k[k[p].child].va = 0
  BY <1>2, NoLocalsFields
<1>3. k[p].op = "none" /\ k[p].va <= sz[p]
  BY <1>0 DEF LocalInv, CallOK
<1>4. \A v \in VPages : Mapped(p, v) <=> v < sz[p]
  BY <1>0, <1>3 DEF LocalInv, MapOK, Present, Looping, Copying
<1>5. ASSUME NEW q \in Procs, pc[q] = "fork", q # p
      PROVE  k[q].child \in Procs \ {p, k[p].child}
  BY <1>0, <1>5, LocalsFields DEF ForkInv
<1> QED
  BY <1>0, <1>1, <1>2, <1>3, <1>4, <1>5 DEF ForkInv

(* What is said of a fork holds after a step of the parent that leaves the   *)
(* other processes alone.                                                    *)
LEMMA ForkOthers ==
    ASSUME ControlTypes, LocalInv, ForkInv, NEW p \in Procs, NEW c \in Procs, c = k[p].child,
           pc[p] = "fork", \A q \in Procs \ {p, c} : Same(q), pc'[c] # "fork",
           pc'[p] = "fork" =>
              /\ pc'[c] = "embryo" /\ k'[p].child = c
              /\ \A v \in VPages : Mapped(c, v)' <=> v < k'[p].va
    PROVE  ForkInv'
<1>1. ASSUME NEW q \in Procs, pc'[q] = "fork", q # p
      PROVE  /\ pc[q] = "fork" /\ Same(q)
             /\ k[q].child \in Procs \ {p, c} /\ Same(k[q].child)
  BY Forking, <1>1 DEF Same
<1>2. ASSUME NEW q \in Procs, pc'[q] = "fork", q # p
      PROVE  /\ pc'[k'[q].child] = "embryo"
             /\ \A v \in VPages : Mapped(k[q].child, v)' <=> v < k'[q].va
             /\ \A r \in Procs : pc'[r] = "fork" /\ k'[r].child = k'[q].child => r = q
  <2>1. /\ pc[q] = "fork" /\ Same(q)
        /\ k[q].child \in Procs \ {p, c} /\ Same(k[q].child)
    BY <1>1, <1>2
  <2>2. \A r \in Procs : pc'[r] = "fork" /\ k'[r].child = k'[q].child => r = q
    BY <1>1, <2>1 DEF ForkInv, Same
  <2> QED
    BY <2>1, <2>2 DEF ForkInv, Same, Mapped
<1>3. ASSUME pc'[p] = "fork"
      PROVE  \A r \in Procs : pc'[r] = "fork" /\ k'[r].child = k'[p].child => r = p
  BY <1>1, <1>3 DEF Same
<1> QED
  BY <1>2, <1>3 DEF ForkInv

(* A step that changes two processes. *)
LEMMA TwoProcesses ==
    ASSUME LocalInv, NEW p \in Procs, NEW c \in Procs, LocalOK(p)', LocalOK(c)',
           \A q \in Procs \ {p, c} : Same(q)
    PROVE  LocalInv'
<1>1. \A q \in Procs : LocalOK(q)'
  BY LocalFrame
<1> QED
  BY <1>1 DEF LocalInv, LocalOK

(* A page that becomes shared is not writable. *)
LEMMA SharedPte ==
    ASSUME NEW p \in Procs, NEW v0 \in VPages, PteOK(p), NEW pte \in PTE, pte.pa # NoFrame,
           pt'[p][v0] = Shared(pte), \A v \in VPages \ {v0} : pt'[p][v] = pt[p][v]
    PROVE  PteOK(p)'
BY SharedEffect DEF PteOK, Mapped

(* fork runs out of memory: the pages that the child got are freed. *)
LEMMA LocalForkFails ==
    ASSUME ControlTypes, MemoryTypes, LocalInv, ForkInv, NEW p \in Procs, ForkFails(p)
    PROVE  ControlTypes' /\ LocalInv' /\ ForkInv' /\ (Quiet \/ Counting(p))
<1>0. /\ CallTypes /\ sz[p] \in Nat /\ sz[p] <= NPAGES /\ NPAGES \in Nat
      /\ k[p].va \in Nat /\ k[p].child \in Procs
  BY ConstantsAssumption, SizeIsNat, LocalsFields DEF ControlTypes
<1>1. ASSUME pc[p] = "fork"
      PROVE  /\ k[p].child \in Procs /\ k[p].child # p /\ pc[k[p].child] = "embryo"
             /\ k[k[p].child] = NoLocals(k[p].child) /\ sz[k[p].child] = 0
             /\ k[k[p].child].op = "none" /\ k[k[p].child].va = 0
             /\ k[p].op = "none" /\ k[p].va <= sz[p]
             /\ \A v \in VPages : Mapped(k[p].child, v) <=> v < k[p].va
             /\ \A v \in VPages : Mapped(p, v) <=> v < sz[p]
             /\ \A q \in Procs : pc[q] = "fork" /\ q # p =>
                   k[q].child \in Procs \ {p, k[p].child}
  BY <1>1, Forking
<1> SUFFICES ASSUME NEW c \in Procs, c = k[p].child, NEW v0 \in Nat, v0 = k[p].va
             PROVE  ControlTypes' /\ LocalInv' /\ ForkInv' /\ (Quiet \/ Counting(p))
  BY <1>0
<1>2. /\ pc[p] = "fork" /\ v0 < sz[p] /\ v0 \in VPages /\ sz' = sz
      /\ \A q \in Procs \ {p} : pt'[q] = pt[q]
      /\ \A v \in VPages : Mapped(p, v)' <=> Mapped(p, v)
      /\ PteOK(p)' /\ PteOK(c)'
      /\ ref' = ref /\ free' = free
      /\ \A v \in VPages : pt'[p][v].pa = pt[p][v].pa /\ (pt'[p][v].w => pt[p][v].w)
  <2>1. pc[p] = "fork" /\ v0 < sz[p] /\ v0 \in VPages /\ sz' = sz
    BY <1>0 DEF ForkFails, VPages
  <2>2. /\ pt'[p][v0] = Shared(pt[p][v0])
        /\ \A v \in VPages \ {v0} : pt'[p][v] = pt[p][v]
        /\ \A q \in Procs \ {p} : pt'[q] = pt[q]
    BY <2>1 DEF ForkFails, MemoryTypes
  <2>3. Shared(pt[p][v0]).pa = pt[p][v0].pa /\ ~Shared(pt[p][v0]).w /\ Mapped(p, v0)
    BY <1>1, <2>1, SharedEffect DEF MemoryTypes
  <2>4. \A v \in VPages : Mapped(p, v)' <=> Mapped(p, v)
    BY Zenon, <2>1, <2>2, <2>3 DEF Mapped
  <2>5. PteOK(p) /\ PteOK(c) /\ c # p /\ c \in Procs
    BY <1>1, <2>1 DEF LocalInv
  <2>6. PteOK(p)'
    BY <2>1, <2>2, <2>3, <2>5, SharedPte DEF Mapped, MemoryTypes
  <2>7. PteOK(c)'
    BY ZenonT(30), <2>2, <2>5 DEF PteOK, Mapped
  <2> QED
    BY <2>1, <2>2, <2>3, <2>4, <2>6, <2>7 DEF ForkFails
<1>3. CASE v0 = 0
  <2>1. /\ ControlTypes'
        /\ pc'[p] = "user" /\ k'[p] = NoLocals(p) /\ k'[p].op = "none"
        /\ pc'[c] = "unused" /\ k'[c] = k[c]
        /\ \A q \in Procs \ {p, c} : Same(q)
    BY <1>0, <1>1, <1>2, <1>3, Names, NoLocalsType, NoLocalsFields DEF ForkFails, ControlTypes, CallTypes, Same
  <2>2. CallOK(p)' /\ CallOK(c)'
    <3>1. CallOK(p)'
      BY <1>0, <1>1, <1>2, <1>3, <2>1 DEF CallOK, Looping, Copying
    <3>2. CallOK(c)'
      BY <1>0, <1>1, <1>2, <1>3, <2>1 DEF CallOK, Looping, Copying
    <3> QED
      BY <3>1, <3>2
  <2>3. MapOK(p)' /\ MapOK(c)'
    <3>1. MapOK(p)'
      BY <1>0, <1>1, <1>2, <1>3, <2>1 DEF MapOK, Mapped, Present, Looping, Copying, VPages
    <3>2. MapOK(c)'
      BY <1>0, <1>1, <1>2, <1>3, <2>1 DEF MapOK, Mapped, Present, Looping, Copying, VPages
    <3> QED
      BY <3>1, <3>2
  <2>4. Keeps(p) /\ Keeps(c)
    BY <1>1, <1>2, <1>3, <2>1 DEF Keeps, Held, Holding, Carried
  <2> QED
    BY ForkOthers, TwoProcesses, <1>2, <1>3, <2>1, <2>2, <2>3, <2>4, SameKeeps DEF LocalOK, Quiet
<1>4. CASE v0 # 0
  <2>1. k' = [k EXCEPT ![c] = [k[c] EXCEPT !.op = "freeproc", !.end = v0]]
    BY Zenon, <1>0, <1>1, <1>2, <1>4 DEF ForkFails, CallTypes
  <2>2. [k[c] EXCEPT !.op = "freeproc", !.end = v0] \in Locals
    BY Zenon, <1>0, <1>1, <1>2, ForkLocals DEF CallTypes
  <2>3. /\ ControlTypes'
        /\ pc'[p] = "unfork" /\ k'[p] = k[p]
        /\ pc'[c] = "check"
        /\ \A q \in Procs \ {p, c} : Same(q)
    BY Names, <1>0, <1>1, <1>2, <1>4, <2>1, <2>2 DEF ForkFails, ControlTypes, CallTypes, Same
  <2>4. k'[c].op = "freeproc" /\ k'[c].va = 0 /\ k'[c].end = v0
    BY <1>0, <1>1, <1>2, <1>4, <2>1 DEF CallTypes, Locals
  <2>5. CallOK(p)' /\ CallOK(c)'
    <3>1. CallOK(p)'
      BY <1>0, <1>1, <1>2, <1>4, <2>3, <2>4 DEF CallOK, Looping, Copying
    <3>2. CallOK(c)'
      BY <1>0, <1>1, <1>2, <1>4, <2>3, <2>4 DEF CallOK, Looping, Copying
    <3> QED
      BY <3>1, <3>2
  <2>6. MapOK(p)' /\ MapOK(c)'
    <3>1. MapOK(p)'
      BY <1>0, <1>1, <1>2, <1>4, <2>3, <2>4 DEF MapOK, Mapped, Present, Looping, Copying, ToGo, VPages
    <3>2. MapOK(c)'
      BY <1>0, <1>1, <1>2, <1>4, <2>3, <2>4 DEF MapOK, Mapped, Present, Looping, Copying, ToGo, VPages
    <3> QED
      BY <3>1, <3>2
  <2>7. Keeps(p) /\ Keeps(c)
    BY <1>1, <1>2, <1>4, <2>3, <2>4 DEF Keeps, Held, Holding, Carried
  <2> QED
    BY ForkOthers, TwoProcesses, <1>2, <1>4, <2>3, <2>5, <2>6, <2>7, SameKeeps DEF LocalOK, Quiet
<1> QED
  BY <1>3, <1>4

(* fork takes a free slot: the parent and the child stay well formed. *)
LEMMA LocalForkStart ==
    ASSUME ControlTypes, MemoryTypes, LocalInv, ForkInv, NEW p \in Procs, NEW c \in Procs, Fork(p, c)
    PROVE  ControlTypes' /\ LocalInv' /\ ForkInv' /\ (Quiet \/ Counting(p))
<1>t. /\ CallTypes /\ sz[p] \in Nat /\ sz[p] <= NPAGES /\ NPAGES \in Nat
      /\ k[p].va \in Nat /\ k[p].child \in Procs
  BY ConstantsAssumption, SizeIsNat, LocalsFields DEF ControlTypes
<1>1. /\ pc[p] = "user" /\ pc[c] = "unused" /\ p # c
      /\ sz' = sz /\ pt' = pt
  BY DEF Fork
<1>2. /\ k[p] = NoLocals(p) /\ k[c] = NoLocals(c) /\ sz[c] = 0
  BY <1>1 DEF LocalInv, CallOK
<1>3. k' = [k EXCEPT ![p] = [k[p] EXCEPT !.child = c]]
  BY <1>t DEF Fork, CallTypes
<1>4. ControlTypes'
  <2>1. [k[p] EXCEPT !.child = c] \in Locals
    BY Zenon, <1>t, ForkLocals DEF CallTypes
  <2> QED
    BY Names, <1>t, <1>1, <1>3, <2>1 DEF Fork, ControlTypes, CallTypes
<1>5. /\ pc'[p] = "fork" /\ pc'[c] = "embryo" /\ k'[c] = k[c]
      /\ k'[p].op = "none" /\ k'[p].va = 0 /\ k'[p].child = c
      /\ \A q \in Procs \ {p, c} : Same(q)
  BY <1>t, <1>1, <1>2, <1>3, NoLocalsFields DEF Fork, CallTypes, Same, Locals
<1>6. LocalOK(p)'
  <2>1. CallOK(p) /\ MapOK(p) /\ PteOK(p) /\ k[p].op = "none"
    BY <1>2, NoLocalsFields DEF LocalInv
  <2>2. CallOK(p)'
    BY <1>t, <1>1, <1>5 DEF CallOK, Looping, Copying
  <2>3. MapOK(p)'
    BY <1>1, <1>5, <2>1 DEF MapOK, Mapped, Present, Looping, Copying
  <2>4. PteOK(p)'
    BY <1>1, <2>1 DEF PteOK, Mapped
  <2> QED
    BY <2>2, <2>3, <2>4 DEF LocalOK
<1>7. LocalOK(c)'
  <2>1. PteOK(c) /\ k[c].op = "none"
    BY <1>2, NoLocalsFields DEF LocalInv
  <2>2. CallOK(c)' /\ MapOK(c)'
    BY <1>1, <1>2, <1>5, <2>1 DEF CallOK, MapOK, Looping, Copying
  <2>3. PteOK(c)'
    BY <1>1, <2>1 DEF PteOK, Mapped
  <2> QED
    BY <2>2, <2>3 DEF LocalOK
<1>8. LocalInv'
  BY <1>5, <1>6, <1>7, LocalFrame DEF LocalInv, LocalOK
<1>9. \A v \in VPages : ~Mapped(c, v)
  <2>1. MapOK(c) /\ k[c].op = "none"
    BY <1>2, NoLocalsFields DEF LocalInv
  <2> QED
    BY <1>t, <1>1, <1>2, <2>1 DEF MapOK, Present, Looping, Copying, VPages
<1>10. ForkInv'
  <2>1. ASSUME NEW q \in Procs, pc'[q] = "fork", q # p
        PROVE  pc[q] = "fork" /\ Same(q) /\ k[q].child \in Procs /\ k[q].child # c
               /\ k[q].child # p
    BY <1>1, <1>5, <2>1, <1>t, LocalsFields DEF ForkInv, Same
  <2>2. ASSUME NEW q \in Procs, pc'[q] = "fork", q # p
        PROVE  pc'[k'[q].child] = "embryo" /\ Same(k[q].child)
    BY <1>5, <2>1, <2>2 DEF ForkInv, Same
  <2>3. ASSUME NEW q \in Procs, pc'[q] = "fork", q # p
        PROVE  /\ \A v \in VPages : Mapped(k[q].child, v)' <=> v < k'[q].va
               /\ \A r \in Procs : pc'[r] = "fork" /\ k'[r].child = k'[q].child => r = q
    <3>1. pc[q] = "fork" /\ Same(q) /\ Same(k[q].child) /\ k[q].child # c
      BY <2>1, <2>2, <2>3
    <3>2. \A r \in Procs : pc'[r] = "fork" /\ k'[r].child = k'[q].child => r = q
      BY <1>5, <2>1, <3>1 DEF ForkInv, Same
    <3> QED
      BY <3>1, <3>2 DEF ForkInv, Same, Mapped
  <2>4. /\ pc'[k'[p].child] = "embryo"
        /\ \A v \in VPages : Mapped(k[p].child, v)' <=> v < k'[p].va
        /\ \A r \in Procs : pc'[r] = "fork" /\ k'[r].child = k'[p].child => r = p
    <3>1. \A v \in VPages : ~Mapped(c, v)' /\ ~(v < 0)
      BY <1>t, <1>1, <1>9 DEF Mapped, VPages
    <3>2. \A r \in Procs : pc'[r] = "fork" /\ k'[r].child = c => r = p
      BY <2>1 DEF Same
    <3> QED
      BY <1>5, <3>1, <3>2 DEF Mapped
  <2> QED
    BY <2>2, <2>3, <2>4 DEF ForkInv
<1>11. ref' = ref /\ free' = free /\ Keeps(p) /\ Keeps(c)
  BY <1>1, <1>5 DEF Fork, Keeps, Held, Holding, Carried
<1> QED
  BY <1>4, <1>5, <1>8, <1>10, <1>11, SameKeeps DEF Quiet

(* uvmcopy shares one page: it changes the parent and the child. *)
LEMMA LocalForkPage ==
    ASSUME ControlTypes, MemoryTypes, LocalInv, ForkInv, NEW p \in Procs, ForkPage(p)
    PROVE  ControlTypes' /\ LocalInv' /\ ForkInv' /\ (Quiet \/ Counting(p))
<1>t. /\ CallTypes /\ sz[p] \in Nat /\ sz[p] <= NPAGES /\ NPAGES \in Nat
      /\ k[p].va \in Nat /\ k[p].child \in Procs
  BY ConstantsAssumption, SizeIsNat, LocalsFields DEF ControlTypes
<1>f. ASSUME pc[p] = "fork"
      PROVE  /\ k[p].child \in Procs /\ k[p].child # p /\ pc[k[p].child] = "embryo"
             /\ k[k[p].child] = NoLocals(k[p].child) /\ sz[k[p].child] = 0
             /\ k[k[p].child].op = "none" /\ k[k[p].child].va = 0
             /\ k[p].op = "none" /\ k[p].va <= sz[p]
             /\ \A v \in VPages : Mapped(k[p].child, v) <=> v < k[p].va
             /\ \A v \in VPages : Mapped(p, v) <=> v < sz[p]
             /\ \A q \in Procs : pc[q] = "fork" /\ q # p =>
                   k[q].child \in Procs \ {p, k[p].child}
  BY <1>f, Forking
<1> SUFFICES ASSUME NEW c \in Procs, c = k[p].child, NEW v0 \in Nat, v0 = k[p].va
             PROVE  ControlTypes' /\ LocalInv' /\ ForkInv' /\ (Quiet \/ Counting(p))
  BY <1>t
<1>1. /\ pc[p] = "fork" /\ v0 < sz[p] /\ v0 \in VPages /\ v0 + 1 \in Nat
      /\ pc' = pc /\ sz' = sz
  BY <1>t DEF ForkPage, VPages
<1>2. pt[p][v0] \in PTE
  BY <1>1 DEF MemoryTypes
<1>3. k' = [k EXCEPT ![p] = [k[p] EXCEPT !.va = v0 + 1]]
  BY <1>t DEF ForkPage, CallTypes
<1>4. [k[p] EXCEPT !.va = v0 + 1] \in Locals
  BY Zenon, <1>t, <1>1, ForkLocals DEF CallTypes
<1>5. /\ ControlTypes'
      /\ k'[p].op = k[p].op /\ k'[p].va = v0 + 1 /\ k'[p].child = c /\ k'[c] = k[c]
  BY <1>t, <1>f, <1>1, <1>3, <1>4 DEF ControlTypes, CallTypes, Locals
<1>6. /\ pt'[p] = [pt[p] EXCEPT ![v0] = Shared(pt[p][v0])]
      /\ pt'[c] = [pt[c] EXCEPT ![v0] = Shared(pt[p][v0])]
      /\ \A q \in Procs \ {p, c} : Same(q)
  <2>1. pt' = [pt EXCEPT ![p][v0] = Shared(pt[p][v0]), ![c][v0] = Shared(pt[p][v0])]
    BY DEF ForkPage
  <2>2. p # c /\ c \in Procs /\ pt \in [Procs -> [VPages -> PTE]]
    BY <1>f, <1>1 DEF MemoryTypes
  <2>3. /\ pt'[p] = [pt[p] EXCEPT ![v0] = Shared(pt[p][v0])]
        /\ pt'[c] = [pt[c] EXCEPT ![v0] = Shared(pt[p][v0])]
        /\ \A q \in Procs \ {p, c} : pt'[q] = pt[q]
    BY Zenon, <2>1, <2>2
  <2>4. \A q \in Procs \ {p, c} : k'[q] = k[q]
    BY <1>t, <1>3 DEF CallTypes
  <2> QED
    BY <1>1, <2>3, <2>4 DEF Same
<1>7. /\ pt'[p][v0] = Shared(pt[p][v0]) /\ pt'[c][v0] = Shared(pt[p][v0])
      /\ \A v \in VPages \ {v0} : pt'[p][v] = pt[p][v] /\ pt'[c][v] = pt[c][v]
  BY <1>f, <1>1, <1>6 DEF MemoryTypes
<1>8. Shared(pt[p][v0]).pa = pt[p][v0].pa /\ ~Shared(pt[p][v0]).w /\ Mapped(p, v0)
  BY <1>f, <1>1, <1>2, SharedEffect
<1>9. /\ \A v \in VPages : Mapped(p, v)' <=> Mapped(p, v)
      /\ \A v \in VPages : Mapped(c, v)' <=> v < v0 + 1
  <2>1. \A v \in VPages : Mapped(p, v)' <=> Mapped(p, v)
    BY <1>1, <1>7, <1>8 DEF Mapped
  <2>2. ASSUME NEW v \in VPages
        PROVE  Mapped(c, v)' <=> v < v0 + 1
    <3>1. CASE v = v0
      BY <1>t, <1>1, <1>7, <1>8, <3>1 DEF Mapped
    <3>2. CASE v # v0
      <4>1. Mapped(c, v)' <=> Mapped(c, v)
        BY <1>7, <3>2 DEF Mapped
      <4> QED
        BY <1>t, <1>f, <1>1, <3>2, <4>1 DEF VPages
    <3> QED
      BY <3>1, <3>2
  <2> QED
    BY <2>1, <2>2
<1>10. PteOK(p)' /\ PteOK(c)'
  <2>1. PteOK(p) /\ PteOK(c)
    BY <1>f, <1>1 DEF LocalInv
  <2> QED
    BY <1>1, <1>2, <1>7, <1>8, <2>1, SharedPte DEF Mapped
<1>11. CallOK(p)' /\ CallOK(c)'
  <2>1. CallOK(p)'
    BY <1>t, <1>f, <1>1, <1>5 DEF CallOK, Looping, Copying
  <2>2. CallOK(c)'
    BY <1>t, <1>f, <1>1, <1>5 DEF CallOK, Looping, Copying
  <2> QED
    BY <2>1, <2>2
<1>12. MapOK(p)' /\ MapOK(c)'
  <2>1. MapOK(p)'
    BY <1>t, <1>f, <1>1, <1>5, <1>9 DEF MapOK, Present, Looping, Copying, VPages
  <2>2. MapOK(c)'
    BY <1>t, <1>f, <1>1, <1>5, <1>9 DEF MapOK, Present, Looping, Copying, VPages
  <2> QED
    BY <2>1, <2>2
<1> QED
  BY <1>f, ForkOthers, TwoProcesses, <1>1, <1>5, <1>6, <1>9, <1>10, <1>11, <1>12
     DEF LocalOK, Counting

(* fork returns: the child can run. *)
LEMMA LocalForkReturns ==
    ASSUME ControlTypes, MemoryTypes, LocalInv, ForkInv, NEW p \in Procs, ForkReturns(p)
    PROVE  ControlTypes' /\ LocalInv' /\ ForkInv' /\ (Quiet \/ Counting(p))
<1>t. /\ CallTypes /\ sz[p] \in Nat /\ sz[p] <= NPAGES /\ NPAGES \in Nat
      /\ k[p].va \in Nat /\ k[p].child \in Procs
  BY ConstantsAssumption, SizeIsNat, LocalsFields DEF ControlTypes
<1>f. ASSUME pc[p] = "fork"
      PROVE  /\ k[p].child \in Procs /\ k[p].child # p /\ pc[k[p].child] = "embryo"
             /\ k[k[p].child] = NoLocals(k[p].child) /\ sz[k[p].child] = 0
             /\ k[k[p].child].op = "none" /\ k[k[p].child].va = 0
             /\ k[p].op = "none" /\ k[p].va <= sz[p]
             /\ \A v \in VPages : Mapped(k[p].child, v) <=> v < k[p].va
             /\ \A v \in VPages : Mapped(p, v) <=> v < sz[p]
             /\ \A q \in Procs : pc[q] = "fork" /\ q # p =>
                   k[q].child \in Procs \ {p, k[p].child}
  BY <1>f, Forking
<1> SUFFICES ASSUME NEW c \in Procs, c = k[p].child, NEW v0 \in Nat, v0 = k[p].va
             PROVE  ControlTypes' /\ LocalInv' /\ ForkInv' /\ (Quiet \/ Counting(p))
  BY <1>t
<1>1. /\ pc[p] = "fork" /\ v0 = sz[p] /\ pt' = pt
      /\ ControlTypes'
      /\ pc'[p] = "user" /\ k'[p] = NoLocals(p) /\ k'[p].op = "none" /\ sz'[p] = sz[p]
      /\ pc'[c] = "user" /\ k'[c] = k[c] /\ sz'[c] = sz[p]
      /\ \A q \in Procs \ {p, c} : Same(q)
  BY SMTT(30), <1>t, <1>f, Names, NoLocalsType, NoLocalsFields DEF ForkReturns, ControlTypes, CallTypes, Same
<1>2. PteOK(p)' /\ PteOK(c)'
  BY SMTT(30), <1>f, <1>1 DEF LocalInv, PteOK, Mapped
<1>3. CallOK(p)' /\ CallOK(c)'
  <2>1. CallOK(p)'
    BY <1>t, <1>f, <1>1 DEF CallOK, Looping, Copying
  <2>2. CallOK(c)'
    BY <1>t, <1>f, <1>1 DEF CallOK, Looping, Copying
  <2> QED
    BY <2>1, <2>2
<1>4. MapOK(p)' /\ MapOK(c)'
  <2>1. MapOK(p)'
    BY <1>t, <1>f, <1>1 DEF MapOK, Mapped, Present, Looping, Copying, VPages
  <2>2. MapOK(c)'
    BY <1>t, <1>f, <1>1 DEF MapOK, Mapped, Present, Looping, Copying, VPages
  <2> QED
    BY <2>1, <2>2
<1>5. ref' = ref /\ free' = free /\ Keeps(p) /\ Keeps(c)
  BY <1>f, <1>1 DEF ForkReturns, Keeps, Held, Holding, Carried
<1> QED
  BY ForkOthers, TwoProcesses, <1>1, <1>2, <1>3, <1>4, <1>5, SameKeeps DEF LocalOK, Quiet

(* The steps of fork: they change the parent and the child. *)
LEMMA LocalFork ==
    ASSUME ControlTypes, MemoryTypes, LocalInv, ForkInv, NEW p \in Procs, ForkStep(p)
    PROVE  ControlTypes' /\ LocalInv' /\ ForkInv' /\ (Quiet \/ Counting(p))
BY LocalForkStart, LocalForkPage, LocalForkReturns, LocalForkFails DEF ForkStep

(* Steps of fork keep the types of page tables, counts and memory. *)
LEMMA TypesFork ==
    ASSUME ControlTypes, MemoryTypes, ~panicked, NEW p \in Procs, ForkStep(p)
    PROVE  MemoryTypes' /\ ~panicked'
<1>1. CASE (\E c \in Procs : Fork(p, c)) \/ ForkReturns(p)
  BY <1>1 DEF Fork, ForkReturns, MemoryTypes
<1>2. ASSUME k[p].va < sz[p]
      PROVE  /\ k[p].va \in VPages /\ k[p].child \in Procs
             /\ Shared(pt[p][k[p].va]) \in PTE
  <2>1. k[p].va \in VPages /\ k[p].child \in Procs
    BY <1>2, LocalsFields, SizeIsNat, ConstantsAssumption DEF ControlTypes, VPages
  <2> QED
    BY <2>1, SharedEffect DEF MemoryTypes
<1>3. CASE ForkPage(p)
  <2>1. /\ k[p].va \in VPages /\ k[p].child \in Procs
        /\ Shared(pt[p][k[p].va]) \in PTE
    BY <1>2, <1>3 DEF ForkPage
  <2>2. ref' \in [Frames -> Nat]
    <3>1. PICK f : ref' = [ref EXCEPT ![f] = ref[f] + 1]
      BY Zenon, <1>3 DEF ForkPage
    <3>2. \A g \in Frames : ref'[g] \in Nat
      BY <3>1 DEF MemoryTypes
    <3> QED
      BY Zenon, <3>1, <3>2 DEF MemoryTypes
  <2>3. pt' \in [Procs -> [VPages -> PTE]]
    <3>1. pt' = [pt EXCEPT ![p][k[p].va] = Shared(pt[p][k[p].va]),
                           ![k[p].child][k[p].va] = Shared(pt[p][k[p].va])]
      BY <1>3 DEF ForkPage
    <3> QED
      BY Zenon, <2>1, <3>1 DEF MemoryTypes
  <2> QED
    BY Zenon, <1>3, <2>2, <2>3 DEF ForkPage, MemoryTypes
<1>4. CASE ForkFails(p)
  <2>1. k[p].va \in VPages /\ Shared(pt[p][k[p].va]) \in PTE
    BY <1>2, <1>4 DEF ForkFails
  <2> QED
    BY <1>4, <2>1 DEF ForkFails, MemoryTypes
<1> QED
  BY <1>1, <1>3, <1>4 DEF ForkStep

=============================================================================
