--------------------------- MODULE CowMemoryProofs ---------------------------
(***************************************************************************)
(* Theorems about CowMemory, for any number of processes, frames and       *)
(* pages: the reference counts are exact, no frame is lost, whoever can    *)
(* write a page is alone with it, and kfree never panics.                  *)
(***************************************************************************)
EXTENDS CowForkProofs, FiniteSetTheorems

-----------------------------------------------------------------------------
(* Slots, what they refer to and how many refer to a frame.                 *)

(* A slot is a page of a process, or its HELD pointer. *)
LEMMA SlotShape ==
    \A s \in Slots : /\ s[1] \in Procs
                     /\ s[2] \in VPages \/ s[2] = HELD
                     /\ s = <<s[1], s[2]>>
BY DEF Slots

(* HELD is no page number. *)
LEMMA HeldIsNoPage == HELD \notin VPages
BY ConstantsAssumption DEF VPages, HELD

(* The two kinds of slot. *)
LEMMA SlotKinds ==
    ASSUME NEW q \in Procs
    PROVE  /\ <<q, HELD>> \in Slots
           /\ Target(<<q, HELD>>) = Held(q)
           /\ Exclusive(<<q, HELD>>) <=> Holding(q)
           /\ \A v \in VPages : /\ <<q, v>> \in Slots
                                /\ <<q, v>> # <<q, HELD>>
                                /\ Target(<<q, v>>) = pt[q][v].pa
                                /\ Exclusive(<<q, v>>) <=> pt[q][v].w
BY HeldIsNoPage DEF Slots, Target, Exclusive, Held

(* There are finitely many slots, so references can be counted. *)
LEMMA SlotsFinite == IsFiniteSet(Slots)
<1>1. IsFiniteSet(0 .. NPAGES - 1)
  BY ConstantsAssumption, FS_Interval
<1>2. IsFiniteSet(VPages \cup {HELD})
  BY Zenon, <1>1, FS_AddElement DEF VPages
<1> QED
  BY <1>2, ConstantsAssumption, FS_Product DEF Slots

(* So the references to a frame are finitely many. *)
LEMMA RefsFinite ==
    ASSUME NEW f
    PROVE  IsFiniteSet(Refs(f)) /\ Cardinality(Refs(f)) \in Nat
BY SlotsFinite, FS_Subset, FS_CardinalityType DEF Refs

(* Processes that keep their references keep their slots. *)
SameSlot(s) == Target(s)' = Target(s) /\ (Exclusive(s)' => Exclusive(s))

(* A process that keeps its references keeps its slots. *)
LEMMA KeepsSlots ==
    ASSUME NEW q \in Procs, Keeps(q)
    PROVE  \A s \in Slots : s[1] = q => SameSlot(s)
<1> SUFFICES ASSUME NEW s \in Slots, s[1] = q
             PROVE  SameSlot(s)
  OBVIOUS
<1>1. CASE s[2] = HELD
  BY <1>1 DEF Target, Exclusive, Keeps, Held, SameSlot
<1>2. CASE s[2] # HELD
  BY <1>2, SlotShape DEF Target, Exclusive, Keeps, SameSlot
<1> QED
  BY <1>1, <1>2

(* Only frames are owned. *)
LEMMA OwnedIsFrame ==
    ASSUME ControlTypes, MemoryTypes, LocalInv, NEW s \in Slots
    PROVE  /\ Target(s) \in Frames \cup {NoFrame}
           /\ Exclusive(s) => Target(s) \in Frames
<1>1. s[1] \in Procs /\ (s[2] \in VPages \/ s[2] = HELD)
  BY SlotShape
<1>2. CASE s[2] = HELD
  <2>1. k[s[1]].new \in Frames \cup {NoFrame}
    BY <1>1, LocalsFields DEF ControlTypes
  <2>2. CallOK(s[1])
    BY <1>1 DEF LocalInv
  <2>3. Holding(s[1]) => k[s[1]].new \in Frames
    BY <2>2 DEF CallOK, Holding, Looping, Copying
  <2> QED
    BY <1>2, <2>1, <2>3 DEF Target, Exclusive
<1>3. CASE s[2] # HELD
  <2>1. pt[s[1]][s[2]] \in PTE /\ s[2] \in VPages
    BY <1>1, <1>3 DEF MemoryTypes
  <2>2. pt[s[1]][s[2]].w => Mapped(s[1], s[2])
    BY <1>1, <2>1 DEF LocalInv, PteOK
  <2> QED
    BY <1>3, <2>1, <2>2 DEF Target, Exclusive, PTE, Mapped
<1> QED
  BY <1>2, <1>3

-----------------------------------------------------------------------------
(* How the counting invariants survive each kind of step.                   *)

Counted == CountsExact /\ FrameInv /\ OwnerInv

(* A reference that appears, and one that goes. *)
LEMMA OneMore ==
    ASSUME NEW f, NEW s \in Slots, Target(s) # f, Target(s)' = f,
           \A t \in Slots \ {s} : Target(t)' = f <=> Target(t) = f
    PROVE  Cardinality(Refs(f))' = Cardinality(Refs(f)) + 1
<1>1. Refs(f)' = Refs(f) \cup {s} /\ s \notin Refs(f)
  BY DEF Refs, Slots
<1>2. Cardinality(Refs(f) \cup {s}) = Cardinality(Refs(f)) + 1
  BY <1>1, RefsFinite, FS_AddElement
<1> QED
  BY <1>1, <1>2

(* One reference is dropped. *)
LEMMA OneLess ==
    ASSUME NEW f, NEW s \in Slots, Target(s) = f, Target(s)' # f,
           \A t \in Slots \ {s} : Target(t)' = f <=> Target(t) = f
    PROVE  Cardinality(Refs(f))' = Cardinality(Refs(f)) - 1
<1>1. Refs(f)' = Refs(f) \ {s} /\ s \in Refs(f)
  BY DEF Refs, Slots
<1>2. Cardinality(Refs(f) \ {s}) = Cardinality(Refs(f)) - 1
  BY <1>1, RefsFinite, FS_RemoveElement
<1> QED
  BY <1>1, <1>2

(* References to other frames do not matter. *)
LEMMA NoneMoved ==
    ASSUME NEW f, \A t \in Slots : Target(t)' = f <=> Target(t) = f
    PROVE  Cardinality(Refs(f))' = Cardinality(Refs(f))
<1>1. Refs(f)' = Refs(f)
  BY DEF Refs, Slots
<1> QED
  BY <1>1

(* A frame that is referred to has a positive count, and is alone at 1. *)
LEMMA Referred ==
    ASSUME MemoryTypes, CountsExact, NEW s \in Slots, Target(s) \in Frames
    PROVE  /\ ref[Target(s)] \in Nat /\ ref[Target(s)] > 0
           /\ ref[Target(s)] = 1 => \A t \in Slots : Target(t) = Target(s) => t = s
<1>1. ref[Target(s)] = Cardinality(Refs(Target(s))) /\ s \in Refs(Target(s))
  BY DEF CountsExact, Refs
<1>2. Cardinality(Refs(Target(s))) \in Nat /\ Cardinality(Refs(Target(s))) # 0
  BY <1>1, RefsFinite, FS_EmptySet
<1>3. ASSUME ref[Target(s)] = 1, NEW t \in Slots, Target(t) = Target(s)
      PROVE  t = s
  <2>1. PICK x : Refs(Target(s)) = {x}
    BY Zenon, <1>1, <1>3, RefsFinite, FS_Singleton
  <2> QED
    BY <1>1, <1>3, <2>1 DEF Refs
<1> QED
  BY <1>1, <1>2, <1>3

(* No slot refers to a frame whose count is 0. *)
LEMMA Unreferred ==
    ASSUME MemoryTypes, CountsExact, NEW f \in Frames, ref[f] = 0
    PROVE  \A s \in Slots : Target(s) # f
BY Referred

(* Steps that move no reference. *)
LEMMA CountQuiet ==
    ASSUME Counted, Quiet
    PROVE  Counted'
<1>1. /\ \A s \in Slots : SameSlot(s)
      /\ \A q \in Procs : Carried(q)' = Carried(q)
      /\ ref' = ref /\ free' = free
  BY SlotShape, KeepsSlots DEF Quiet, Keeps
<1>2. CountsExact'
  BY <1>1, NoneMoved DEF Counted, CountsExact, SameSlot
<1>3. FrameInv'
  BY <1>1 DEF Counted, FrameInv
<1>4. OwnerInv'
  BY <1>1 DEF Counted, OwnerInv, SameSlot, Slots
<1> QED
  BY <1>2, <1>3, <1>4 DEF Counted

(* The page-fault handler makes a page writable whose count is 1. *)
LEMMA CountOwn ==
    ASSUME ControlTypes, MemoryTypes, LocalInv, Counted,
           NEW p \in Procs, NEW v \in VPages, PageFault(p, v), ref[pt[p][v].pa] = 1
    PROVE  Counted'
<1>1. /\ pc' = pc /\ k' = k /\ ref' = ref /\ free' = free
      /\ pt' = [pt EXCEPT ![p] = [pt[p] EXCEPT ![v] =
                    [pt[p][v] EXCEPT !.w = TRUE, !.cow = FALSE]]]
  <2> DEFINE count == ref[pt[p][v].pa]
  <2>1. count = 1 /\ ~(count > 1) /\ ~(count <= 0)
    OBVIOUS
  <2>2. /\ pc' = pc /\ k' = k /\ ref' = ref /\ free' = free
        /\ pt' = [pt EXCEPT ![p][v].w = TRUE, ![p][v].cow = FALSE]
    BY <2>1, Zenon DEF PageFault
  <2> QED
    BY Zenon, <2>2 DEF MemoryTypes, PTE
<1>2. /\ \A q \in Procs : Carried(q)' = Carried(q)
      /\ \A s \in Slots : Target(s)' = Target(s)
      /\ \A s \in Slots \ {<<p, v>>} : Exclusive(s)' => Exclusive(s)
  <2>1. \A q \in Procs : /\ Carried(q)' = Carried(q) /\ Held(q)' = Held(q)
                         /\ Holding(q)' = Holding(q)
    BY <1>1 DEF Carried, Held, Holding
  <2>2. \A q \in Procs, u \in VPages :
           /\ pt'[q][u].pa = pt[q][u].pa
           /\ <<q, u>> # <<p, v>> => pt'[q][u].w = pt[q][u].w
    <3>1. /\ \A q \in Procs \ {p} : pt'[q] = pt[q]
          /\ \A u \in VPages \ {v} : pt'[p][u] = pt[p][u]
          /\ pt'[p][v] = [pt[p][v] EXCEPT !.w = TRUE, !.cow = FALSE]
      BY Zenon, <1>1 DEF MemoryTypes
    <3>2. pt'[p][v].pa = pt[p][v].pa
      BY <3>1 DEF MemoryTypes, PTE
    <3> QED
      BY Zenon, <3>1, <3>2
  <2> QED
    BY <2>1, <2>2, SlotShape DEF Target, Exclusive, Held
<1>3. CountsExact'
  BY <1>1, <1>2, NoneMoved DEF Counted, CountsExact
<1>4. FrameInv'
  BY <1>1, <1>2 DEF Counted, FrameInv
<1>5. \A t \in Slots : Target(t) = Target(<<p, v>>) => t = <<p, v>>
  <2>1. <<p, v>> \in Slots /\ Target(<<p, v>>) = pt[p][v].pa
    BY Zenon, SlotKinds
  <2>2. Target(<<p, v>>) \in Frames
    BY <2>1 DEF PageFault, LocalInv, PteOK, Mapped, MemoryTypes, PTE
  <2> QED
    BY <2>1, <2>2, Referred DEF Counted
<1>6. OwnerInv'
  BY <1>2, <1>5 DEF Counted, OwnerInv, Slots
<1> QED
  BY <1>3, <1>4, <1>6 DEF Counted

(* kalloc takes a frame from the free list. *)
LEMMA CountPop ==
    ASSUME ControlTypes, MemoryTypes, LocalInv, Counted,
           NEW p \in Procs, NEW f \in Frames, KallocPop(p, f)
    PROVE  Counted'
<1>1. /\ pc[p] = "alloc" /\ f \in free /\ free' = free \ {f} /\ ref' = ref /\ pt' = pt
      /\ pc'[p] = "count" /\ k'[p].new = f
      /\ \A q \in Procs \ {p} : pc'[q] = pc[q] /\ k'[q] = k[q]
  BY DEF KallocPop, Goto, ControlTypes, CallTypes, Locals
<1>2. /\ Carried(p) = NoFrame /\ Carried(p)' = f
      /\ \A q \in Procs \ {p} : Carried(q)' = Carried(q)
      /\ \A q \in Procs : Held(q)' = Held(q) /\ Holding(q)' = Holding(q)
  BY <1>1 DEF Carried, Held, Holding
<1>3. \A s \in Slots : SameSlot(s)
  BY <1>1, <1>2, SlotShape DEF SameSlot, Target, Exclusive, Held
<1>4. CountsExact'
  BY <1>1, <1>3, NoneMoved DEF Counted, CountsExact, SameSlot
<1>5. OwnerInv'
  BY <1>3 DEF Counted, OwnerInv, SameSlot, Slots
<1>6. FrameInv'
  BY <1>1, <1>2, ConstantsAssumption DEF Counted, FrameInv
<1> QED
  BY <1>4, <1>5, <1>6 DEF Counted

(* kalloc sets the count of its frame to 1. *)
LEMMA CountCount ==
    ASSUME ControlTypes, MemoryTypes, LocalInv, Counted, NEW p \in Procs, KallocCount(p)
    PROVE  Counted'
<1> DEFINE s0 == <<p, HELD>>
<1>0. pc[p] = "count" /\ k[p].new \in Frames
  BY DEF KallocCount, LocalInv, CallOK
<1> SUFFICES ASSUME NEW f \in Frames, f = k[p].new
             PROVE  Counted'
  BY <1>0
<1>1. /\ pc[p] = "count" /\ k' = k /\ free' = free /\ pt' = pt
      /\ ref' = [ref EXCEPT ![f] = 1]
      /\ pc'[p] \in {"fill", "move"}
      /\ \A q \in Procs \ {p} : pc'[q] = pc[q]
  BY DEF KallocCount, Goto, ControlTypes, CallTypes
<1>3. /\ Carried(p) = f /\ Carried(p)' = NoFrame
      /\ \A q \in Procs \ {p} : Carried(q)' = Carried(q)
      /\ ~Holding(p) /\ Holding(p)'
      /\ \A q \in Procs \ {p} : Held(q)' = Held(q) /\ Holding(q)' = Holding(q)
  BY <1>1 DEF Carried, Held, Holding
<1>4. s0 \in Slots /\ Target(s0) = NoFrame /\ Target(s0)' = f
  BY <1>1, <1>3 DEF Target, Slots
<1>5. \A t \in Slots \ {s0} : SameSlot(t)
  BY <1>1, <1>3, SlotShape DEF SameSlot, Target, Exclusive, Held
<1>6. ref[f] = 0 /\ \A t \in Slots : Target(t) # f
  BY <1>3, Unreferred DEF Counted, FrameInv
<1>7. CountsExact'
  <2>1. Cardinality(Refs(f))' = Cardinality(Refs(f)) + 1
    BY <1>4, <1>5, <1>6, OneMore DEF SameSlot
  <2>2. \A g \in Frames \ {f} : Cardinality(Refs(g))' = Cardinality(Refs(g))
    BY <1>4, <1>5, NoneMoved, ConstantsAssumption DEF SameSlot
  <2>3. \A g \in Frames : ref[g] = Cardinality(Refs(g))
    BY DEF Counted, CountsExact
  <2> QED
    BY <1>1, <1>6, <2>1, <2>2, <2>3 DEF CountsExact, MemoryTypes
<1>8. OwnerInv'
  <2>1. ASSUME NEW s \in Slots, NEW t \in Slots, Exclusive(s)', Target(t)' = Target(s)'
        PROVE  t = s
    <3>1. CASE s = s0
      BY <1>4, <1>5, <1>6, <2>1, <3>1 DEF SameSlot
    <3>2. CASE s # s0
      <4>1. Exclusive(s) /\ Target(s)' = Target(s) /\ Target(s) # f
        BY <1>5, <1>6, <2>1, <3>2 DEF SameSlot
      <4>2. t # s0 /\ Target(t)' = Target(t)
        BY <1>4, <1>5, <2>1, <4>1 DEF SameSlot
      <4> QED
        BY Zenon, <2>1, <4>1, <4>2 DEF Counted, OwnerInv
    <3> QED
      BY <3>1, <3>2
  <2> QED
    BY <2>1 DEF OwnerInv, Slots
<1>9. FrameInv'
  <2>1. /\ \A g \in Frames \ {f} : ref'[g] = ref[g]
        /\ ref'[f] = 1
    BY <1>1 DEF MemoryTypes
  <2> QED
    BY <1>1, <1>3, <2>1, ConstantsAssumption DEF Counted, FrameInv, MemoryTypes
<1> QED
  BY <1>7, <1>8, <1>9 DEF Counted

(* kfree puts its frame on the free list. *)
LEMMA CountPush ==
    ASSUME ControlTypes, MemoryTypes, LocalInv, Counted, NEW p \in Procs, KfreePush(p)
    PROVE  Counted'
<1>1. /\ pc[p] = "push" /\ pc'[p] = "freed" /\ k' = k /\ ref' = ref /\ pt' = pt
      /\ free' = free \cup {k[p].old}
      /\ \A q \in Procs \ {p} : pc'[q] = pc[q]
  BY DEF KfreePush, Goto, ControlTypes, CallTypes
<1>2. /\ Carried(p) = k[p].old /\ Carried(p)' = NoFrame /\ k[p].old \in Frames
      /\ \A q \in Procs \ {p} : Carried(q)' = Carried(q)
      /\ \A q \in Procs : Held(q)' = Held(q) /\ Holding(q)' = Holding(q)
  BY <1>1 DEF Carried, Held, Holding, LocalInv, CallOK
<1>3. \A s \in Slots : SameSlot(s)
  BY <1>1, <1>2, SlotShape DEF SameSlot, Target, Exclusive, Held
<1>4. CountsExact'
  BY <1>1, <1>3, NoneMoved DEF Counted, CountsExact, SameSlot
<1>5. OwnerInv'
  BY <1>3 DEF Counted, OwnerInv, SameSlot, Slots
<1>6. FrameInv'
  BY <1>1, <1>2, ConstantsAssumption DEF Counted, FrameInv
<1> QED
  BY <1>4, <1>5, <1>6 DEF Counted

(* kfree takes the count down; uvmunmap, or uvmalloc, drops its reference. *)
LEMMA CountDrop ==
    ASSUME ControlTypes, MemoryTypes, LocalInv, Counted, NEW p \in Procs, KfreeDrop(p)
    PROVE  Counted'
<1>0. /\ pc[p] = "drop" /\ k[p].va \in VPages /\ Victim(p) \in Frames
      /\ k[p].op # "discard" => Victim(p) = pt[p][k[p].va].pa
      /\ k[p].op = "discard" => /\ Victim(p) = k[p].new
                                /\ pt[p][k[p].va].pa = NoFrame /\ ~pt[p][k[p].va].w
  <2>1. pc[p] = "drop"
    BY DEF KfreeDrop
  <2>2. k[p].va \in VPages /\ Victim(p) \in Frames
    BY <2>1, VictimIsFrame DEF Looping
  <2>3. k[p].op = "discard" => ~Mapped(p, k[p].va)
    BY <2>1, VictimIsFrame
  <2> QED
    BY <2>1, <2>2, <2>3 DEF Victim, Mapped, LocalInv, PteOK
<1> SUFFICES ASSUME NEW f \in Frames, f = Victim(p), NEW v \in VPages, v = k[p].va,
                    NEW s0 \in Slots,
                    s0 = IF k[p].op = "discard" THEN <<p, HELD>> ELSE <<p, v>>
             PROVE  Counted'
  BY Zenon, <1>0, SlotKinds
<1>1. /\ ref[f] > 0 /\ ref' = [ref EXCEPT ![f] = ref[f] - 1] /\ free' = free
      /\ pt' = [pt EXCEPT ![p] = [pt[p] EXCEPT ![v] = Unmapped]]
      /\ k'[p].op = k[p].op /\ k'[p].new = k[p].new /\ k'[p].old = f
      /\ pc'[p] = IF ref[f] = 1 THEN "push" ELSE "freed"
      /\ \A q \in Procs \ {p} : pc'[q] = pc[q] /\ k'[q] = k[q]
  BY <1>0 DEF KfreeDrop, Goto, ControlTypes, CallTypes, Locals, MemoryTypes
<1>2. /\ \A q \in Procs \ {p} : pt'[q] = pt[q]
      /\ \A u \in VPages \ {v} : pt'[p][u] = pt[p][u]
      /\ pt'[p][v].pa = NoFrame /\ ~pt'[p][v].w
  BY <1>1 DEF MemoryTypes, Unmapped
<1>3. /\ Carried(p) = NoFrame
      /\ Carried(p)' = IF ref[f] = 1 THEN f ELSE NoFrame
      /\ \A q \in Procs \ {p} : Carried(q)' = Carried(q)
  BY <1>0, <1>1 DEF Carried
<1>4. /\ \A q \in Procs \ {p} : Held(q)' = Held(q) /\ Holding(q)' = Holding(q)
      /\ k[p].op = "discard" => Held(p) = k[p].new /\ ~Holding(p)' /\ Held(p)' = NoFrame
      /\ k[p].op # "discard" => Held(p)' = Held(p) /\ Holding(p)' = Holding(p)
  BY <1>0, <1>1 DEF Held, Holding
<1>5. Target(s0) = f /\ Target(s0)' = NoFrame /\ ~Exclusive(s0)'
  <2>1. CASE k[p].op = "discard"
    BY SMTT(30), <1>0, <1>4, <2>1, SlotKinds DEF Target, Exclusive
  <2>2. CASE k[p].op # "discard"
    BY <1>0, <1>2, <2>2, HeldIsNoPage DEF Target, Exclusive
  <2> QED
    BY <2>1, <2>2
<1>6. \A t \in Slots \ {s0} : SameSlot(t)
  <2> SUFFICES ASSUME NEW t \in Slots \ {s0}
               PROVE  SameSlot(t)
    OBVIOUS
  <2>1. t[1] \in Procs /\ (t[2] \in VPages \/ t[2] = HELD) /\ t = <<t[1], t[2]>>
    BY SlotShape
  <2>2. CASE t[2] = HELD
    BY <1>4, <2>1, <2>2 DEF SameSlot, Target, Exclusive, Held
  <2>3. CASE t[2] # HELD
    BY <1>0, <1>2, <2>1, <2>3 DEF SameSlot, Target, Exclusive
  <2> QED
    BY <2>2, <2>3
<1>7. CountsExact'
  <2>1. Cardinality(Refs(f))' = Cardinality(Refs(f)) - 1
    BY <1>5, <1>6, OneLess, ConstantsAssumption DEF SameSlot
  <2>2. \A g \in Frames \ {f} : Cardinality(Refs(g))' = Cardinality(Refs(g))
    BY <1>5, <1>6, NoneMoved, ConstantsAssumption DEF SameSlot
  <2>3. \A g \in Frames : ref[g] = Cardinality(Refs(g))
    BY DEF Counted, CountsExact
  <2> QED
    BY <1>1, <2>1, <2>2, <2>3 DEF CountsExact, MemoryTypes
<1>8. OwnerInv'
  <2>1. ASSUME NEW s \in Slots, NEW t \in Slots, Exclusive(s)', Target(t)' = Target(s)'
        PROVE  t = s
    <3>1. s # s0 /\ Exclusive(s) /\ Target(s)' = Target(s) /\ Target(s) \in Frames
      BY <1>5, <1>6, <2>1, OwnedIsFrame DEF SameSlot
    <3>2. t # s0 /\ Target(t)' = Target(t)
      BY <1>5, <1>6, <2>1, <3>1, ConstantsAssumption DEF SameSlot
    <3> QED
      BY Zenon, <2>1, <3>1, <3>2 DEF Counted, OwnerInv
  <2> QED
    BY <2>1 DEF OwnerInv, Slots
<1>9. FrameInv'
  <2>1. /\ \A g \in Frames \ {f} : ref'[g] = ref[g]
        /\ ref'[f] = ref[f] - 1 /\ ref[f] \in Nat /\ f \notin free
    BY <1>1 DEF MemoryTypes, Counted, FrameInv
  <2>2. \A q \in Procs : Carried(q) # f
    BY <1>1 DEF Counted, FrameInv
  <2>3. CASE ref[f] = 1
    BY <1>1, <1>3, <2>1, <2>2, <2>3, ConstantsAssumption DEF Counted, FrameInv, MemoryTypes
  <2>4. CASE ref[f] # 1
    BY <1>1, <1>3, <2>1, <2>2, <2>4, ConstantsAssumption DEF Counted, FrameInv, MemoryTypes
  <2> QED
    BY <2>3, <2>4
<1> QED
  BY <1>7, <1>8, <1>9 DEF Counted

(* mappages gives the page table the reference that the call has held. *)
LEMMA CountMove ==
    ASSUME ControlTypes, MemoryTypes, LocalInv, Counted, NEW p \in Procs,
           (\E x \in Vals : MapCopy(p, x)) \/ FillPage(p)
    PROVE  Counted'
<1>0. /\ pc[p] \in {"map", "fill"} /\ k[p].va \in VPages /\ k[p].new \in Frames
      /\ Holding(p) /\ ~Mapped(p, k[p].va)
  <2>1. pc[p] \in {"map", "fill"}
    BY DEF MapCopy, FillPage
  <2>2. /\ CallOK(p) /\ MapOK(p)
        /\ k[p].va \in Nat /\ sz[p] \in Nat /\ NPAGES \in Nat /\ sz[p] <= NPAGES
        /\ k[p].arg \in Nat
    BY LocalsFields, SizeIsNat, ConstantsAssumption DEF LocalInv, ControlTypes
  <2>3. k[p].va \in VPages /\ k[p].new \in Frames /\ Holding(p)
    BY <2>1, <2>2 DEF CallOK, Copying, Holding, VPages
  <2>4. ~Present(p, k[p].va)
    BY <2>1, <2>2 DEF CallOK, Copying, Looping, Present, ToGo
  <2> QED
    BY <2>1, <2>2, <2>3, <2>4 DEF MapOK
<1> SUFFICES ASSUME NEW f \in Frames, f = k[p].new, NEW v \in VPages, v = k[p].va
             PROVE  Counted'
  BY <1>0
<1> DEFINE s0 == <<p, v>>
           s1 == <<p, HELD>>
<1>1. /\ ref' = ref /\ free' = free
      /\ pt' = [pt EXCEPT ![p] = [pt[p] EXCEPT ![v] = [pa |-> f, w |-> TRUE, cow |-> FALSE]]]
      /\ pc'[p] \in {"user", "alloc"}
      /\ \A q \in Procs \ {p} : pc'[q] = pc[q] /\ k'[q] = k[q]
  BY Zenon DEF MapCopy, FillPage, Return, StartAlloc, Goto, ControlTypes, CallTypes, MemoryTypes
<1>2. /\ \A q \in Procs \ {p} : pt'[q] = pt[q]
      /\ \A u \in VPages \ {v} : pt'[p][u] = pt[p][u]
      /\ pt'[p][v].pa = f
  BY <1>1 DEF MemoryTypes
<1>3. /\ \A q \in Procs : Carried(q)' = Carried(q)
      /\ \A q \in Procs \ {p} : Held(q)' = Held(q) /\ Holding(q)' = Holding(q)
      /\ Held(p) = f /\ ~Holding(p)' /\ Held(p)' = NoFrame
  BY <1>0, <1>1 DEF Carried, Held, Holding
<1>4. /\ s0 \in Slots /\ Target(s0) = NoFrame /\ Target(s0)' = f
      /\ s1 \in Slots /\ Target(s1) = f /\ Target(s1)' = NoFrame
      /\ s0 # s1 /\ Exclusive(s1) /\ ~Exclusive(s1)'
  BY <1>0, <1>2, <1>3, HeldIsNoPage DEF Slots, Target, Exclusive, Held, Mapped
<1>5. \A t \in Slots \ {s0, s1} : SameSlot(t)
  <2> SUFFICES ASSUME NEW t \in Slots \ {s0, s1}
               PROVE  SameSlot(t)
    OBVIOUS
  <2>1. t[1] \in Procs /\ (t[2] \in VPages \/ t[2] = HELD) /\ t = <<t[1], t[2]>>
    BY SlotShape
  <2>2. CASE t[2] = HELD
    BY <1>3, <2>1, <2>2 DEF SameSlot, Target, Exclusive, Held
  <2>3. CASE t[2] # HELD
    BY <1>2, <2>1, <2>3 DEF SameSlot, Target, Exclusive
  <2> QED
    BY <2>2, <2>3
<1>6. CountsExact'
  <2>1. Cardinality(Refs(f))' = Cardinality(Refs(f))
    <3>1. Refs(f)' = (Refs(f) \ {s1}) \cup {s0} /\ s1 \in Refs(f) /\ s0 \notin Refs(f)
      BY <1>4, <1>5, ConstantsAssumption DEF Refs, SameSlot, Slots
    <3>2. /\ IsFiniteSet(Refs(f)) /\ Cardinality(Refs(f)) \in Nat
          /\ IsFiniteSet(Refs(f) \ {s1})
          /\ Cardinality(Refs(f) \ {s1}) = Cardinality(Refs(f)) - 1
      BY <3>1, RefsFinite, FS_RemoveElement
    <3>3. Cardinality((Refs(f) \ {s1}) \cup {s0}) = Cardinality(Refs(f) \ {s1}) + 1
      BY Zenon, <3>1, <3>2, FS_AddElement
    <3> QED
      BY <3>1, <3>2, <3>3
  <2>2. \A g \in Frames \ {f} : Cardinality(Refs(g))' = Cardinality(Refs(g))
    <3> SUFFICES ASSUME NEW g \in Frames \ {f}
                 PROVE  Cardinality(Refs(g))' = Cardinality(Refs(g))
      OBVIOUS
    <3>1. \A t \in Slots : Target(t)' = g <=> Target(t) = g
      BY <1>4, <1>5, ConstantsAssumption DEF SameSlot
    <3> QED
      BY <3>1, NoneMoved
  <2> QED
    BY <1>1, <2>1, <2>2 DEF Counted, CountsExact
<1>7. OwnerInv'
  <2>1. \A t \in Slots : Target(t) = f => t = s1
    BY <1>4 DEF Counted, OwnerInv
  <2>2. ASSUME NEW s \in Slots, NEW t \in Slots, Exclusive(s)', Target(t)' = Target(s)'
        PROVE  t = s
    <3>1. CASE s = s0
      BY <1>4, <1>5, <2>1, <2>2, <3>1, ConstantsAssumption DEF SameSlot
    <3>2. CASE s # s0
      <4>1. /\ s # s1 /\ Exclusive(s) /\ Target(s)' = Target(s) /\ Target(s) \in Frames
            /\ Target(s) # f
        BY <1>4, <1>5, <2>1, <2>2, <3>2, OwnedIsFrame DEF SameSlot
      <4>2. t # s0 /\ t # s1 /\ Target(t)' = Target(t)
        BY <1>4, <1>5, <2>2, <4>1, ConstantsAssumption DEF SameSlot
      <4> QED
        BY Zenon, <2>2, <4>1, <4>2 DEF Counted, OwnerInv
    <3> QED
      BY <3>1, <3>2
  <2> QED
    BY <2>2 DEF OwnerInv, Slots
<1>8. FrameInv'
  BY <1>1, <1>3 DEF Counted, FrameInv
<1> QED
  BY <1>6, <1>7, <1>8 DEF Counted

(* A slot that nobody owned joins another one: whoever owns a frame still   *)
(* owns it alone.                                                           *)
LEMMA OwnersShare ==
    ASSUME OwnerInv, NEW f, NEW s0 \in Slots, NEW s1 \in Slots,
           Target(s0)' = f, ~Exclusive(s0)', Target(s1) = f, Target(s1)' = f, ~Exclusive(s1)',
           \A t \in Slots \ {s0, s1} : SameSlot(t)
    PROVE  OwnerInv'
<1>1. ASSUME NEW s \in Slots, NEW t \in Slots, Exclusive(s)', Target(t)' = Target(s)'
      PROVE  t = s
  <2>1. s \notin {s0, s1} /\ Exclusive(s) /\ Target(s)' = Target(s)
    BY <1>1 DEF SameSlot
  <2>2. Target(s) # f
    BY <2>1 DEF OwnerInv
  <2>3. t \notin {s0, s1} /\ Target(t)' = Target(t)
    BY <1>1, <2>1, <2>2 DEF SameSlot
  <2> QED
    BY Zenon, <1>1, <2>1, <2>3 DEF OwnerInv
<1> QED
  BY <1>1 DEF OwnerInv, Slots

(* fork shares one page: neither side may write it any more. *)
LEMMA CountShare ==
    ASSUME ControlTypes, MemoryTypes, LocalInv, ForkInv, Counted, NEW p \in Procs, ForkPage(p)
    PROVE  Counted'
<1>0. /\ pc[p] = "fork" /\ k[p].va \in VPages /\ k[p].child \in Procs /\ k[p].child # p
      /\ Mapped(p, k[p].va) /\ ~Mapped(k[p].child, k[p].va)
  <2>1. /\ k[p].va \in Nat /\ sz[p] \in Nat /\ NPAGES \in Nat /\ sz[p] <= NPAGES
        /\ k[p].child \in Procs
    BY LocalsFields, SizeIsNat, ConstantsAssumption DEF ControlTypes
  <2>2. pc[p] = "fork" /\ k[p].va < sz[p] /\ k[p].va \in VPages
    BY <2>1 DEF ForkPage, VPages
  <2>3. pc[k[p].child] = "embryo" /\ ~Mapped(k[p].child, k[p].va)
    BY <2>1, <2>2 DEF ForkInv
  <2>4. Mapped(p, k[p].va)
    <3>1. CallOK(p) /\ MapOK(p)
      BY DEF LocalInv
    <3> QED
      BY <2>2, <3>1 DEF CallOK, MapOK, Present, Looping
  <2> QED
    BY <2>1, <2>2, <2>3, <2>4
<1> SUFFICES ASSUME NEW c \in Procs, c = k[p].child, NEW v \in VPages, v = k[p].va,
                    NEW f \in Frames, f = pt[p][v].pa
             PROVE  Counted'
  BY <1>0 DEF Mapped, MemoryTypes, PTE
<1> DEFINE s0 == <<c, v>>
           s1 == <<p, v>>
<1>1. /\ pt[p][v] \in PTE
      /\ Shared(pt[p][v]).pa = f /\ ~Shared(pt[p][v]).w
  BY SharedEffect DEF MemoryTypes
<1>2. /\ ref' = [ref EXCEPT ![f] = ref[f] + 1] /\ free' = free /\ pc' = pc
      /\ pt' = [pt EXCEPT ![p][v] = Shared(pt[p][v]), ![c][v] = Shared(pt[p][v])]
      /\ \A q \in Procs \ {p} : k'[q] = k[q]
  BY SMTT(30), <1>1 DEF ForkPage, ControlTypes, CallTypes, MemoryTypes
<1>3. /\ \A q \in Procs \ {p, c} : pt'[q] = pt[q]
      /\ \A u \in VPages \ {v} : pt'[p][u] = pt[p][u] /\ pt'[c][u] = pt[c][u]
      /\ pt'[p][v].pa = f /\ pt'[c][v].pa = f /\ ~pt'[p][v].w /\ ~pt'[c][v].w
  <2>1. /\ pt'[p] = [pt[p] EXCEPT ![v] = Shared(pt[p][v])]
        /\ pt'[c] = [pt[c] EXCEPT ![v] = Shared(pt[p][v])]
        /\ \A q \in Procs \ {p, c} : pt'[q] = pt[q]
    BY ZenonT(30), <1>0, <1>2 DEF MemoryTypes
  <2> QED
    BY <1>1, <2>1 DEF MemoryTypes
<1>4. /\ \A q \in Procs : Carried(q)' = Carried(q)
      /\ \A q \in Procs : Held(q)' = Held(q) /\ Holding(q)' = Holding(q)
  BY <1>0, <1>2 DEF Carried, Held, Holding
<1>5. /\ s0 \in Slots /\ Target(s0) = NoFrame /\ Target(s0)' = f /\ ~Exclusive(s0)'
      /\ s1 \in Slots /\ Target(s1) = f /\ Target(s1)' = f /\ ~Exclusive(s1)'
      /\ s0 # s1
  BY Zenon, <1>0, <1>3, HeldIsNoPage DEF Slots, Target, Exclusive, Mapped
<1>6. \A t \in Slots \ {s0, s1} : SameSlot(t)
  <2> SUFFICES ASSUME NEW t \in Slots \ {s0, s1}
               PROVE  SameSlot(t)
    OBVIOUS
  <2>1. t[1] \in Procs /\ (t[2] \in VPages \/ t[2] = HELD) /\ t = <<t[1], t[2]>>
    BY SlotShape
  <2>2. CASE t[2] = HELD
    BY SMTT(30), <1>4, <2>1, <2>2 DEF SameSlot, Target, Exclusive, Held
  <2>3. CASE t[2] # HELD
    BY SMTT(30), <1>3, <2>1, <2>3 DEF SameSlot, Target, Exclusive
  <2> QED
    BY <2>2, <2>3
<1>7. CountsExact'
  <2>1. Cardinality(Refs(f))' = Cardinality(Refs(f)) + 1
    BY <1>5, <1>6, OneMore, ConstantsAssumption DEF SameSlot
  <2>2. \A g \in Frames \ {f} : Cardinality(Refs(g))' = Cardinality(Refs(g))
    BY <1>5, <1>6, NoneMoved, ConstantsAssumption DEF SameSlot
  <2>3. \A g \in Frames : ref[g] = Cardinality(Refs(g))
    BY DEF Counted, CountsExact
  <2> QED
    BY SMTT(30), <1>2, <2>1, <2>2, <2>3 DEF CountsExact, MemoryTypes
<1>8. OwnerInv'
  BY ZenonT(30), <1>5, <1>6, OwnersShare DEF Counted
<1>9. FrameInv'
  <2>1. /\ \A g \in Frames \ {f} : ref'[g] = ref[g]
        /\ ref'[f] = ref[f] + 1 /\ ref[f] \in Nat /\ ref[f] > 0
    BY ZenonT(30), <1>2, <1>5, Referred DEF MemoryTypes, Counted
  <2>2. \A g \in Frames : ref'[g] = 0 <=> ref[g] = 0
    BY <2>1
  <2>3. free \subseteq Frames
    BY DEF MemoryTypes
  <2> QED
    BY <1>2, <1>4, <2>2, <2>3 DEF Counted, FrameInv
<1> QED
  BY <1>7, <1>8, <1>9 DEF Counted

-----------------------------------------------------------------------------
(* Page tables, counts and memory keep their types, and kfree does not      *)
(* panic: what it is called with has a reference.                           *)

(* What kfree is called with is referred to, so its count is positive. *)
LEMMA VictimCounted ==
    ASSUME ControlTypes, MemoryTypes, LocalInv, CountsExact,
           NEW p \in Procs, pc[p] \in {"check", "drop"}
    PROVE  Victim(p) \in Frames /\ ref[Victim(p)] \in Nat /\ ref[Victim(p)] > 0
<1>1. Victim(p) \in Frames /\ k[p].va \in VPages
  BY VictimIsFrame DEF Looping
<1>2. CASE k[p].op = "discard"
  <2>1. Target(<<p, HELD>>) = Victim(p) /\ <<p, HELD>> \in Slots
    BY <1>2, SlotKinds DEF Victim, Held, Holding
  <2> QED
    BY <1>1, <2>1, Referred
<1>3. CASE k[p].op # "discard"
  <2>1. Target(<<p, k[p].va>>) = Victim(p) /\ <<p, k[p].va>> \in Slots
    BY Zenon, <1>1, <1>3, SlotKinds DEF Victim
  <2> QED
    BY <1>1, <2>1, Referred
<1> QED
  BY <1>2, <1>3

(* Steps of kfree and of the uvmunmap loop. *)
LEMMA TypesFree ==
    ASSUME ControlTypes, MemoryTypes, LocalInv, CountsExact, ~panicked,
           NEW p \in Procs, FreeStep(p)
    PROVE  MemoryTypes' /\ ~panicked'
<1>1. CASE KfreeCheck(p)
  <2>1. ref[Victim(p)] \in Nat /\ ref[Victim(p)] > 0
    BY <1>1, VictimCounted DEF KfreeCheck
  <2> QED
    BY <1>1, <2>1 DEF KfreeCheck, MemoryTypes
<1>2. CASE KfreeDrop(p)
  <2>1. /\ Victim(p) \in Frames /\ ref[Victim(p)] \in Nat /\ ref[Victim(p)] > 0
        /\ k[p].va \in VPages
    BY <1>2, VictimCounted, VictimIsFrame DEF KfreeDrop, Looping
  <2>2. pt' \in [Procs -> [VPages -> PTE]]
    <3>1. Unmapped \in PTE
      BY DEF Unmapped, PTE
    <3> QED
      BY <1>2, <2>1, <3>1 DEF KfreeDrop, MemoryTypes
  <2>3. ref' \in [Frames -> Nat]
    BY <1>2, <2>1 DEF KfreeDrop, MemoryTypes
  <2> QED
    BY <1>2, <2>1, <2>2, <2>3 DEF KfreeDrop, MemoryTypes
<1>3. CASE KfreePush(p)
  <2>1. k[p].old \in Frames
    BY <1>3 DEF KfreePush, LocalInv, CallOK
  <2> QED
    BY SMTT(30), <1>3, <2>1 DEF KfreePush, MemoryTypes
<1>4. CASE NextPage(p) \/ UnmapReturns(p)
  BY <1>4 DEF NextPage, UnmapReturns, MemoryTypes
<1> QED
  BY <1>1, <1>2, <1>3, <1>4 DEF FreeStep

-----------------------------------------------------------------------------
(* The invariant holds in every reachable state.                            *)

(* One image has been loaded, into different frames. *)
LEMMA InitInv == Init => MemoryInv
<1> SUFFICES ASSUME Init
             PROVE  MemoryInv
  OBVIOUS
<1>1. PICK first \in Procs, frame \in [0 .. IMAGE - 1 -> Frames] :
        /\ \A i, j \in 0 .. IMAGE - 1 : frame[i] = frame[j] => i = j
        /\ pc = [p \in Procs |-> IF p = first THEN "user" ELSE "unused"]
        /\ sz = [p \in Procs |-> IF p = first THEN IMAGE ELSE 0]
        /\ pt = [p \in Procs |-> [v \in VPages |->
                    IF p = first /\ v < IMAGE
                    THEN [pa |-> frame[v], w |-> v >= TEXT, cow |-> FALSE]
                    ELSE Unmapped]]
        /\ ref = [f \in Frames |-> IF \E v \in 0 .. IMAGE - 1 : frame[v] = f THEN 1 ELSE 0]
        /\ free = {f \in Frames : \A v \in 0 .. IMAGE - 1 : frame[v] # f}
        /\ mem = [f \in Frames |-> IF \E v \in 0 .. IMAGE - 1 : frame[v] = f THEN Zero ELSE Junk]
        /\ k = [p \in Procs |-> NoLocals(p)]
        /\ panicked = FALSE
  BY Zenon DEF Init
<1>2. /\ IMAGE \in Nat /\ NPAGES \in Nat /\ IMAGE <= NPAGES /\ TEXT \in Nat
      /\ NoFrame \notin Frames
      /\ \A v \in VPages : v \in Nat /\ (v < IMAGE => v \in 0 .. IMAGE - 1)
      /\ \A v \in 0 .. IMAGE - 1 : v \in VPages /\ v < IMAGE
  BY ConstantsAssumption DEF VPages
<1>3. \A p \in Procs, v \in VPages :
        /\ p = first /\ v < IMAGE => /\ pt[p][v].pa = frame[v] /\ pt[p][v].pa \in Frames
                                     /\ ~pt[p][v].cow
        /\ ~(p = first /\ v < IMAGE) => pt[p][v] = Unmapped
  BY <1>1, <1>2
<1>4. \A p \in Procs, v \in VPages :
        ~(p = first /\ v < IMAGE) => pt[p][v].pa = NoFrame /\ ~pt[p][v].w /\ ~pt[p][v].cow
  BY <1>3 DEF Unmapped
<1>5. \A p \in Procs : /\ k[p] = NoLocals(p) /\ k[p].op = "none"
                       /\ pc[p] = (IF p = first THEN "user" ELSE "unused")
                       /\ sz[p] = (IF p = first THEN IMAGE ELSE 0)
  BY <1>1, NoLocalsFields
<1>6. ControlTypes
  BY <1>1, <1>2, Names, NoLocalsType DEF ControlTypes, CallTypes
<1>7. MemoryTypes
  <2>1. pt \in [Procs -> [VPages -> PTE]]
    <3>1. Unmapped \in PTE
      BY DEF Unmapped, PTE
    <3>2. \A v \in 0 .. IMAGE - 1 : [pa |-> frame[v], w |-> v >= TEXT, cow |-> FALSE] \in PTE
      BY <1>2 DEF PTE
    <3> QED
      BY <1>1, <1>2, <3>1, <3>2
  <2> QED
    BY Zenon, <1>1, <2>1, ConstantsAssumption DEF MemoryTypes
<1>8. LocalInv
  <2> SUFFICES ASSUME NEW p \in Procs
               PROVE  CallOK(p) /\ MapOK(p) /\ PteOK(p)
    BY DEF LocalInv
  <2>1. CallOK(p)
    BY <1>5 DEF CallOK, Looping, Copying
  <2>2. MapOK(p)
    BY <1>2, <1>3, <1>4, <1>5 DEF MapOK, Mapped, Present, Looping, Copying
  <2>3. PteOK(p)
    BY <1>2, <1>3, <1>4 DEF PteOK, Mapped
  <2> QED
    BY <2>1, <2>2, <2>3
<1>9. ForkInv
  BY <1>5 DEF ForkInv
<1>10. \A s \in Slots :
         /\ Target(s) \in Frames =>
               s[1] = first /\ s[2] \in 0 .. IMAGE - 1 /\ Target(s) = frame[s[2]]
         /\ Exclusive(s) => Target(s) \in Frames
  <2> SUFFICES ASSUME NEW s \in Slots
               PROVE  /\ Target(s) \in Frames =>
                           s[1] = first /\ s[2] \in 0 .. IMAGE - 1 /\ Target(s) = frame[s[2]]
                      /\ Exclusive(s) => Target(s) \in Frames
    OBVIOUS
  <2>1. s[1] \in Procs /\ (s[2] \in VPages \/ s[2] = HELD)
    BY SlotShape
  <2>2. ~Holding(s[1])
    BY <1>5, <2>1 DEF Holding
  <2>3. CASE s[2] = HELD
    BY <1>2, <2>2, <2>3 DEF Target, Exclusive
  <2>4. CASE s[2] # HELD
    BY <1>2, <1>3, <1>4, <2>1, <2>4 DEF Target, Exclusive
  <2> QED
    BY <2>3, <2>4
<1>11. \A s, t \in Slots : Target(s) \in Frames /\ Target(t) = Target(s) => t = s
  BY <1>1, <1>10, SlotShape
<1>12. CountsExact
  <2> SUFFICES ASSUME NEW f \in Frames
               PROVE  ref[f] = Cardinality(Refs(f))
    BY DEF CountsExact
  <2>1. CASE \E v \in 0 .. IMAGE - 1 : frame[v] = f
    <3>1. PICK v \in 0 .. IMAGE - 1 : frame[v] = f
      BY <2>1
    <3>2. <<first, v>> \in Slots /\ Target(<<first, v>>) = f
      <4>1. v \in VPages /\ v < IMAGE /\ pt[first][v].pa = f
        BY <1>2, <1>3, <3>1
      <4> QED
        BY Zenon, <4>1, SlotKinds
    <3>3. Refs(f) = {<<first, v>>}
      BY <1>11, <3>2 DEF Refs
    <3> QED
      BY Zenon, <1>1, <2>1, <3>3, FS_Singleton
  <2>2. CASE ~ \E v \in 0 .. IMAGE - 1 : frame[v] = f
    <3>1. Refs(f) = {}
      BY <1>10, <2>2 DEF Refs
    <3> QED
      BY <1>1, <2>2, <3>1, FS_EmptySet
  <2> QED
    BY <2>1, <2>2
<1>13. FrameInv
  <2>1. \A p \in Procs : Carried(p) = NoFrame
    BY <1>5 DEF Carried
  <2> QED
    BY <1>1, <1>2, <2>1 DEF FrameInv
<1>14. OwnerInv
  BY <1>10, <1>11 DEF OwnerInv
<1> QED
  BY <1>1, <1>6, <1>7, <1>8, <1>9, <1>12, <1>13, <1>14, SplitTypes DEF MemoryInv

(* Every step keeps the invariant. *)
LEMMA StepInv == MemoryInv /\ [Next]_vars => MemoryInv'
<1> SUFFICES ASSUME MemoryInv, [Next]_vars
             PROVE  MemoryInv'
  OBVIOUS
<1>1. /\ ControlTypes /\ MemoryTypes /\ ~panicked /\ LocalInv /\ ForkInv
      /\ Counted /\ CountsExact
  BY SplitTypes DEF MemoryInv, Counted
<1>2. ASSUME ControlTypes', MemoryTypes', ~panicked', LocalInv', ForkInv', Counted'
      PROVE  MemoryInv'
  <2>1. TypeOK'
    BY <1>2, SplitTypes, PTL
  <2> QED
    BY <1>2, <2>1 DEF MemoryInv, Counted
<1>3. CASE UNCHANGED vars
  <2>1. /\ ControlTypes' /\ MemoryTypes' /\ ~panicked'
        /\ ref' = ref /\ free' = free /\ \A q \in Procs : Same(q)
    BY <1>1, <1>3 DEF vars, ControlTypes, CallTypes, MemoryTypes, Same
  <2>2. \A q \in Procs : LocalOK(q)' /\ Keeps(q)
    BY SMTT(30), <1>1, <2>1, LocalFrame, SameKeeps
  <2>3. LocalInv' /\ Quiet /\ Aside
    BY <2>1, <2>2 DEF LocalInv, LocalOK, Quiet, Aside, Same
  <2> QED
    BY <1>1, <1>2, <2>1, <2>3, ForkFrame, CountQuiet DEF ControlTypes
<1>4. ASSUME NEW p \in Procs, Counting(p)
      PROVE  Counted'
  BY <1>1, <1>4, CountOwn, CountPop, CountCount, CountMove, CountDrop, CountPush, CountShare
     DEF Counting
<1>5. ASSUME NEW p \in Procs, UserStep(p)
      PROVE  MemoryInv'
  BY <1>1, <1>2, <1>4, <1>5, LocalUser, TypesUser, ForkFrame, CountQuiet DEF ControlTypes
<1>6. ASSUME NEW p \in Procs, AllocStep(p)
      PROVE  MemoryInv'
  BY <1>1, <1>2, <1>4, <1>6, LocalAlloc, TypesAlloc, ForkFrame, CountQuiet DEF ControlTypes
<1>7. ASSUME NEW p \in Procs, FreeStep(p)
      PROVE  MemoryInv'
  BY <1>1, <1>2, <1>4, <1>7, LocalFree, TypesFree, ForkFrame, CountQuiet DEF ControlTypes
<1>8. ASSUME NEW p \in Procs, ForkStep(p)
      PROVE  MemoryInv'
  BY <1>1, <1>2, <1>4, <1>8, LocalFork, TypesFork, CountQuiet
<1> QED
  BY <1>3, <1>5, <1>6, <1>7, <1>8, StepCases

(* The copy-on-write memory never leaves its invariant. *)
THEOREM MemoryInvariant == Spec => []MemoryInv
BY InitInv, StepInv, PTL DEF Spec

(* Page tables, counts, free list and calls keep their shape: no count ever *)
(* becomes negative.                                                        *)
THEOREM TypesAreKept == Spec => []TypeOK
BY MemoryInvariant, PTL DEF MemoryInv

(* reference_counter is the number of references, between any two critical  *)
(* sections of kalloc, kfree, uvmcopy and usertrap.                         *)
THEOREM CountsAreExact == Spec => []CountsExact
BY MemoryInvariant, PTL DEF MemoryInv

(* No frame leaks, and none is free and in use: kalloc and kfree carry it   *)
(* alone between their critical sections.                                   *)
THEOREM FramesAreKept == Spec => []NoFrameLost
<1>1. MemoryInv => NoFrameLost
  <2> SUFFICES ASSUME MemoryInv, NEW f \in Frames
               PROVE  /\ f \in free => ref[f] = 0
                      /\ Cardinality(Carriers(f)) = IF f \in free \/ ref[f] > 0 THEN 0 ELSE 1
    BY DEF NoFrameLost
  <2>1. Carriers(f) = {p \in Procs : Carried(p) = f}
    BY ConstantsAssumption DEF Carriers, Carried
  <2>2. ref[f] \in Nat /\ FrameInv
    BY DEF MemoryInv, TypeOK
  <2>3. CASE f \in free \/ ref[f] > 0
    <3>1. Carriers(f) = {}
      BY <2>1, <2>2, <2>3 DEF FrameInv
    <3> QED
      BY <2>2, <2>3, <3>1, FS_EmptySet DEF FrameInv
  <2>4. CASE ~(f \in free \/ ref[f] > 0)
    <3>1. PICK p \in Procs : Carried(p) = f
      BY <2>2, <2>4 DEF FrameInv
    <3>2. Carriers(f) = {p}
      BY <2>1, <2>2, <3>1 DEF FrameInv
    <3> QED
      BY Zenon, <2>4, <3>2, FS_Singleton
  <2> QED
    BY <2>3, <2>4
<1> QED
  BY <1>1, MemoryInvariant, PTL

(* A page with PTE_W is its owner's alone: fork and the page-fault handler  *)
(* never leave a shared page writable.                                      *)
THEOREM WritersAreAlone == Spec => []WritableIsPrivate
<1>1. MemoryInv => WritableIsPrivate
  <2> SUFFICES ASSUME MemoryInv, NEW s \in Slots, NEW t \in Slots,
                      s[2] # HELD, pt[s[1]][s[2]].w, Target(t) = Target(s)
               PROVE  s = t
    BY DEF WritableIsPrivate
  <2>1. Exclusive(s)
    BY DEF Exclusive
  <2> QED
    BY <2>1 DEF MemoryInv, OwnerInv
<1> QED
  BY <1>1, MemoryInvariant, PTL

(* kfree neither panics nor hangs: between its test of the count and the    *)
(* decrement, with the lock released, the count stays positive.             *)
THEOREM KfreeNeverPanics == Spec => []KfreeIsSafe
<1>1. MemoryInv => KfreeIsSafe
  BY VictimCounted, SplitTypes DEF MemoryInv, KfreeIsSafe
<1> QED
  BY <1>1, MemoryInvariant, PTL

(* Exactly the pages below its size are mapped, whenever a process is       *)
(* outside sbrk and the fault handler.                                      *)
THEOREM SizesAreMapped == Spec => []SizeIsMapped
<1>1. MemoryInv => SizeIsMapped
  <2> SUFFICES ASSUME MemoryInv, NEW p \in Procs, pc[p] \in {"user", "zombie", "fork"},
                      NEW v \in VPages
               PROVE  (pt[p][v].pa # NoFrame) <=> (v < sz[p])
    BY DEF SizeIsMapped
  <2>1. CallOK(p) /\ MapOK(p)
    BY DEF MemoryInv, LocalInv
  <2>2. k[p].op = "none"
    BY <2>1, NoLocalsFields DEF CallOK
  <2> QED
    BY <2>1, <2>2 DEF MapOK, Mapped, Present, Looping
<1> QED
  BY <1>1, MemoryInvariant, PTL

-----------------------------------------------------------------------------
(* Shared frames are not written.                                           *)

(* A frame with an owner has the count 1. *)
LEMMA OwnedOnce ==
    ASSUME MemoryInv, NEW s \in Slots, Exclusive(s)
    PROVE  ref[Target(s)] = 1
<1>1. Target(s) \in Frames
  BY OwnedIsFrame, SplitTypes DEF MemoryInv
<1>2. Refs(Target(s)) = {s}
  BY DEF Refs, MemoryInv, OwnerInv
<1> QED
  BY Zenon, <1>1, <1>2, FS_Singleton DEF MemoryInv, CountsExact

(* So has a frame that a call has allocated and not mapped yet. *)
LEMMA HeldOnce ==
    ASSUME MemoryInv, NEW p \in Procs, pc[p] \in {"move", "fill", "map"}
    PROVE  k[p].new \in Frames /\ ref[k[p].new] = 1
<1>1. Holding(p) /\ k[p].new \in Frames
  BY DEF MemoryInv, LocalInv, CallOK, Copying, Holding
<1>2. <<p, HELD>> \in Slots /\ Exclusive(<<p, HELD>>) /\ Target(<<p, HELD>>) = k[p].new
  BY <1>1, SlotKinds DEF Held
<1> QED
  BY SMTT(30), <1>1, <1>2, OwnedOnce

(* What a step makes of a page-table entry: nothing, a writable or an       *)
(* invalid one, or what it or fork finds at the same address.               *)
LEMMA EntryChange ==
    ASSUME MemoryInv, [Next]_vars, NEW q \in Procs, NEW u \in VPages
    PROVE  \/ pt'[q][u].w \/ pt'[q][u] = Unmapped
           \/ \E r \in Procs : pt'[q][u] = pt[r][u] \/ pt'[q][u] = Shared(pt[r][u])
<1> DEFINE G == \/ pt'[q][u].w \/ pt'[q][u] = Unmapped
                \/ \E r \in Procs : pt'[q][u] = pt[r][u] \/ pt'[q][u] = Shared(pt[r][u])
<1>1. ControlTypes /\ MemoryTypes /\ LocalInv /\ ForkInv
  BY SplitTypes DEF MemoryInv
<1>2. ASSUME pt' = pt
      PROVE  G
  BY <1>2
<1>3. CASE UNCHANGED vars
  BY <1>2, <1>3 DEF vars
<1>4. ASSUME NEW p \in Procs, NEW v \in VPages, PageFault(p, v)
      PROVE  G
  <2>1. pt' = pt \/ pt' = [pt EXCEPT ![p][v].w = TRUE, ![p][v].cow = FALSE]
    BY Zenon, <1>4 DEF PageFault
  <2>2. CASE pt' = [pt EXCEPT ![p][v].w = TRUE, ![p][v].cow = FALSE]
    <3>1. pt[p][v] \in PTE
      BY <1>1 DEF MemoryTypes
    <3>2. pt'[q][u] = pt[q][u] \/ pt'[q][u].w
      BY <1>1, <2>2, <3>1 DEF MemoryTypes, PTE
    <3> QED
      BY <3>2
  <2> QED
    BY Zenon, <1>2, <2>1, <2>2
<1>5. ASSUME NEW p \in Procs, (\E x \in Vals : MapCopy(p, x)) \/ FillPage(p)
      PROVE  G
  <2>1. pt' = [pt EXCEPT ![p][k[p].va] = [pa |-> k[p].new, w |-> TRUE, cow |-> FALSE]]
    BY Zenon, <1>5 DEF MapCopy, FillPage
  <2>2. pt'[q][u] = pt[q][u] \/ pt'[q][u].w
    BY <1>1, <2>1 DEF MemoryTypes
  <2> QED
    BY <2>2
<1>6. ASSUME NEW p \in Procs, KfreeDrop(p)
      PROVE  G
  <2>1. pt'[q][u] = pt[q][u] \/ pt'[q][u] = Unmapped
    BY <1>1, <1>6 DEF KfreeDrop, MemoryTypes
  <2> QED
    BY <2>1
<1>7. ASSUME NEW p \in Procs, ForkPage(p) \/ ForkFails(p)
      PROVE  G
  <2>1. k[p].child \in Procs
    BY <1>1, LocalsFields DEF ControlTypes
  <2>2. CASE ForkPage(p)
    <3>1. pt' = [pt EXCEPT ![p][k[p].va] = Shared(pt[p][k[p].va]),
                           ![k[p].child][k[p].va] = Shared(pt[p][k[p].va])]
      BY <2>2 DEF ForkPage
    <3>2. pt'[q][u] = pt[q][u] \/ pt'[q][u] = Shared(pt[p][u])
      BY <1>1, <2>1, <3>1 DEF MemoryTypes
    <3> QED
      BY <3>2
  <2>3. CASE ForkFails(p)
    <3>1. pt'[q][u] = pt[q][u] \/ pt'[q][u] = Shared(pt[q][u])
      BY <1>1, <2>3 DEF ForkFails, MemoryTypes
    <3> QED
      BY <3>1
  <2> QED
    BY <1>7, <2>2, <2>3
<1>8. ASSUME NEW p \in Procs, UserStep(p)
      PROVE  G
  <2>1. pt' = pt \/ \E v \in VPages : PageFault(p, v)
    BY Zenon, <1>8 DEF UserStep, Exit, Reap, UserWrite, CopyOut, SbrkGrow, SbrkShrink
  <2> QED
    BY <1>2, <1>4, <2>1
<1>9. ASSUME NEW p \in Procs, AllocStep(p)
      PROVE  G
  <2>1. pt' = pt \/ (\E x \in Vals : MapCopy(p, x)) \/ FillPage(p)
    BY <1>9 DEF AllocStep, KallocPop, KallocCount, KallocFails, CopyPage, FillFails
  <2> QED
    BY <1>2, <1>5, <2>1
<1>10. ASSUME NEW p \in Procs, FreeStep(p)
       PROVE  G
  <2>1. pt' = pt \/ KfreeDrop(p)
    BY <1>10 DEF FreeStep, KfreeCheck, KfreePush, NextPage, UnmapReturns
  <2> QED
    BY <1>2, <1>6, <2>1
<1>11. ASSUME NEW p \in Procs, ForkStep(p)
       PROVE  G
  <2>1. pt' = pt \/ ForkPage(p) \/ ForkFails(p)
    BY <1>11 DEF ForkStep, Fork, ForkReturns
  <2> QED
    BY <1>2, <1>7, <2>1
<1> QED
  BY <1>3, <1>8, <1>9, <1>10, <1>11, StepCases

(* No step makes a page read-only that is not text. *)
LEMMA TextStep == MemoryInv /\ TextInv /\ [Next]_vars => TextInv'
<1> SUFFICES ASSUME MemoryInv, TextInv, [Next]_vars, NEW q \in Procs, NEW u \in VPages,
                    pt'[q][u].pa # NoFrame, ~pt'[q][u].w, ~pt'[q][u].cow
             PROVE  u < TEXT
  BY DEF TextInv, Mapped
<1>1. PICK r \in Procs : pt'[q][u] = pt[r][u] \/ pt'[q][u] = Shared(pt[r][u])
  BY EntryChange DEF Unmapped
<1>2. pt[r][u] \in PTE
  BY DEF MemoryInv, TypeOK
<1>3. pt[r][u].pa # NoFrame /\ ~pt[r][u].w /\ ~pt[r][u].cow
  BY <1>1, <1>2, SharedEffect
<1> QED
  BY <1>3 DEF TextInv, Mapped

(* In the first program, only text is mapped without PTE_W. *)
LEMMA TextAtFirst == Init => TextInv
<1> SUFFICES ASSUME Init, NEW p \in Procs, NEW v \in VPages, pt[p][v].pa # NoFrame,
                    ~pt[p][v].w
             PROVE  v < TEXT
  BY DEF TextInv, Mapped
<1>1. PICK first \in Procs, frame \in [0 .. IMAGE - 1 -> Frames] :
        pt = [q \in Procs |-> [u \in VPages |->
                IF q = first /\ u < IMAGE
                THEN [pa |-> frame[u], w |-> u >= TEXT, cow |-> FALSE]
                ELSE Unmapped]]
  BY Zenon DEF Init
<1>2. pt[p][v] = [pa |-> frame[v], w |-> v >= TEXT, cow |-> FALSE]
  BY <1>1 DEF Unmapped
<1>3. v \in Int /\ TEXT \in Int
  BY ConstantsAssumption DEF VPages
<1>4. pt[p][v].w = (v >= TEXT)
  BY <1>2
<1>5. ~(v >= TEXT)
  BY <1>4, Zenon
<1> QED
  BY <1>3, <1>5

(* If no system call is given a buffer in the program text, a frame that is *)
(* shared is never written, by a process or by copyout on its behalf.  The  *)
(* hypothesis is needed: copyout writes read-only pages, shared or not.     *)
THEOREM SharedFramesAreKept ==
    (\A v \in Buffers : ~(v < TEXT)) => (Spec => SharedIsKept)
<1> SUFFICES ASSUME \A v \in Buffers : ~(v < TEXT)
             PROVE  Spec => SharedIsKept
  OBVIOUS
<1>1. Init => TextInv
  BY TextAtFirst
<1>2. MemoryInv /\ TextInv /\ [Next]_vars => [\A f \in Frames : ref[f] > 1 => mem'[f] = mem[f]]_vars
  <2> SUFFICES ASSUME MemoryInv, TextInv, [Next]_vars, NEW f \in Frames, ref[f] > 1,
                      mem'[f] # mem[f]
               PROVE  FALSE
    OBVIOUS
  <2>1. ControlTypes /\ MemoryTypes /\ LocalInv /\ CountsExact /\ FrameInv
    BY SplitTypes DEF MemoryInv
  <2>2. mem' # mem
    OBVIOUS
  <2>3. ASSUME NEW p \in Procs, NEW v \in VPages, NEW x \in Vals,
               UserWrite(p, v, x) \/ CopyOut(p, v, x)
        PROVE  FALSE
    <3>1. pt[p][v].w /\ mem' = [mem EXCEPT ![pt[p][v].pa] = x]
      BY <2>2, <2>3 DEF UserWrite, CopyOut, TextInv, Mapped
    <3>2. <<p, v>> \in Slots /\ Exclusive(<<p, v>>) /\ Target(<<p, v>>) = pt[p][v].pa
      BY Zenon, <3>1, SlotKinds
    <3>3. ref[pt[p][v].pa] = 1 /\ pt[p][v].pa \in Frames
      BY <2>1, <3>2, OwnedOnce, OwnedIsFrame
    <3> QED
      BY <2>1, <3>1, <3>3 DEF MemoryTypes
  <2>4. ASSUME NEW p \in Procs, NEW g \in Frames, KallocPop(p, g)
        PROVE  FALSE
    BY <2>1, <2>4 DEF KallocPop, FrameInv, MemoryTypes
  <2>5. ASSUME NEW p \in Procs,
               \/ CopyPage(p) \/ FillPage(p) \/ FillFails(p)
               \/ \E x \in Vals : MapCopy(p, x)
        PROVE  FALSE
    <3>1. pc[p] \in {"move", "fill", "map"} /\ \E x : mem' = [mem EXCEPT ![k[p].new] = x]
      BY <2>2, <2>5 DEF CopyPage, FillPage, FillFails, MapCopy
    <3>2. k[p].new \in Frames /\ ref[k[p].new] = 1
      BY <3>1, HeldOnce
    <3> QED
      BY SMTT(30), <2>1, <3>1, <3>2 DEF MemoryTypes
  <2>6. ASSUME NEW p \in Procs, KfreeDrop(p)
        PROVE  FALSE
    <3>1. ref[Victim(p)] = 1 /\ mem' = [mem EXCEPT ![Victim(p)] = Junk]
      BY <2>2, <2>6 DEF KfreeDrop
    <3> QED
      BY <2>1, <3>1 DEF MemoryTypes
  <2>7. ASSUME NEW p \in Procs, UserStep(p)
        PROVE  FALSE
    <3>1. mem' = mem \/ \E v \in VPages, x \in Vals : UserWrite(p, v, x) \/ CopyOut(p, v, x)
      BY Zenon, <2>7 DEF UserStep, Exit, Reap, PageFault, SbrkGrow, SbrkShrink
    <3> QED
      BY <2>2, <2>3, <3>1
  <2>8. ASSUME NEW p \in Procs, AllocStep(p)
        PROVE  FALSE
    <3>1. \/ mem' = mem \/ \E g \in Frames : KallocPop(p, g)
          \/ CopyPage(p) \/ FillPage(p) \/ FillFails(p)
          \/ \E x \in Vals : MapCopy(p, x)
      BY <2>8 DEF AllocStep, KallocCount, KallocFails
    <3> QED
      BY SMTT(30), <2>2, <2>4, <2>5, <3>1
  <2>9. ASSUME NEW p \in Procs, FreeStep(p)
         PROVE  FALSE
    <3>1. mem' = mem \/ KfreeDrop(p)
      BY <2>9 DEF FreeStep, KfreeCheck, KfreePush, NextPage, UnmapReturns
    <3> QED
      BY <2>2, <2>6, <3>1
  <2>10. ASSUME NEW p \in Procs, ForkStep(p)
         PROVE  FALSE
    BY Zenon, <2>2, <2>10 DEF ForkStep, Fork, ForkPage, ForkFails, ForkReturns
  <2> QED
    BY <2>2, <2>7, <2>8, <2>9, <2>10, StepCases DEF vars
<1> QED
  BY <1>1, <1>2, TextStep, MemoryInvariant, PTL DEF Spec, SharedIsKept

=============================================================================
