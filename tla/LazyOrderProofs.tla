--------------------------- MODULE LazyOrderProofs --------------------------
(***************************************************************************)
(* Proofs about LazyFile in time: no waiter is forgotten, no cancellation  *)
(* comes early or is taken back, and no DELETE overtakes a READ or WRITE   *)
(* of its second.                                                          *)
(***************************************************************************)
EXTENDS LazyFileProofs

(* A thread that must wait finds another one at work on its file. *)
LEMMA SomebodyWorks ==
    ASSUME MonitorInv, NEW q \in Requests, MustWait(q)
    PROVE  \E p \in Requests : File(p) = File(q) /\ pc[p] = "work"
<1>1. File(q) \in Files
  BY DEF MonitorInv, Types, File
<1>2. readercount[File(q)] # 0 \/ writercount[File(q)] # 0
  <2>1. concurrent_access[File(q)] = readercount[File(q)] + writercount[File(q)]
    BY <1>1 DEF MonitorInv, CountInv
  <2>2. readercount[File(q)] \in Int /\ writercount[File(q)] \in Int
    BY <1>1 DEF MonitorInv, Types
  <2> QED
    BY <2>1, <2>2, ConstantsAssumption DEF MustWait, ReadMustWait, WriteMustWait, DeleteMustWait
<1>3. Readers(File(q)) # {} \/ Writers(File(q)) # {}
  BY <1>1, <1>2, WorkersFinite DEF MonitorInv, CountInv
<1> QED
  BY <1>3 DEF Readers, Writers

(* A thread that leaves pthread_cond_wait's neighbourhood has signalled. *)
Awake(p) == pc[p] \in {"relock", "test", "kill", "work"}

(* Every step keeps a waker for the waiters of each file. *)
LEMMA WakerStep ==
    ASSUME MonitorInv, WaiterHasWaker, [Next]_vars PROVE WaiterHasWaker'
<1> SUFFICES ASSUME NEW f \in Files, Waiters(f)' # {}
             PROVE  \E p \in Requests : File(p)' = f /\ Awake(p)'
  BY DEF WaiterHasWaker, Awake
<1>0. Waiters(f) # {} => \E p \in Requests : File(p) = f /\ Awake(p)
  BY DEF WaiterHasWaker, Awake
<1>a. req' = req
  BY ZenonT(30) DEF Next, vars, JoinAll, Tick, Terminated, Launch, LaunchFails,
     ProcessReq, ProcessRead, ProcessWrite, ProcessDelete, LockAndFork, Withdraw, CheckAnnounced,
     Spin, EndSpin, CondWait, SpuriousWakeup, Relock, TimeOut, InTime, Decline, StartRead,
     StartWrite, StartDelete, FinishRead, FinishWrite, FinishDelete, FireBullet
<1>b. \A p : File(p)' = File(p)
  BY <1>a DEF File
<1>c. pc \in [Requests -> Labels]
  BY DEF MonitorInv, Types
<1>1. ASSUME Waiters(f)' \subseteq Waiters(f), \A p \in Requests : Awake(p) => Awake(p)'
      PROVE  \E p \in Requests : File(p)' = f /\ Awake(p)'
  BY <1>0, <1>1, <1>b
<1>2. ASSUME NEW q \in Requests, RequestStep(q)
      PROVE  \E p \in Requests : File(p)' = f /\ Awake(p)'
  <2>1. CASE CondWait(q)
    <3>1. CASE f = File(q)
      <4>1. PICK p \in Requests : File(p) = f /\ pc[p] = "work"
        BY <2>1, <3>1, SomebodyWorks DEF CondWait
      <4>2. pc'[p] = "work"
        BY <2>1, <4>1, <1>c DEF CondWait, Goto
      <4> QED
        BY <4>1, <4>2, <1>b DEF Awake
    <3>2. CASE f # File(q)
      <4>1. Waiters(f)' \subseteq Waiters(f)
        BY <2>1, <3>2, <1>b, <1>c DEF CondWait, Goto, Waiters
      <4>2. \A p \in Requests : File(p) = f /\ Awake(p) => Awake(p)'
        BY <2>1, <3>2, <1>c DEF CondWait, Goto, Awake
      <4> QED
        BY <1>0, <1>b, <4>1, <4>2
    <3> QED
      BY <3>1, <3>2
  <2>2. CASE TimeOut(q) \/ Decline(q) \/ FinishRead(q) \/ FinishWrite(q) \/ FinishDelete(q)
    <3>1. PICK label \in Finished : SignalAndGoto(q, label)
      BY <2>2 DEF TimeOut, Decline, FinishRead, FinishWrite, FinishDelete, Finished
    <3>2. label \in Labels /\ label # "waiting"
      BY DEF Labels, Finished
    <3>3. pc[q] # "waiting"
      BY Zenon, <2>2 DEF TimeOut, Decline, FinishRead, FinishWrite, FinishDelete
    <3>4. /\ pc'[q] = label
          /\ \A p \in Requests \ {q} :
                pc'[p] = pc[p] \/ (pc[p] = "waiting" /\ pc'[p] = "relock")
          /\ Waiters(f) # {} /\ f = File(q) =>
                \E v \in Requests : File(v) = f /\ pc'[v] = "relock"
      BY <3>1, <3>2, <3>3, SignalEffect DEF MonitorInv
    <3>5. Waiters(f)' \subseteq Waiters(f)
      BY <3>2, <3>4, <1>b DEF Waiters
    <3>6. CASE f = File(q)
      BY <3>4, <3>5, <3>6, <1>b DEF Awake
    <3>7. CASE f # File(q)
      BY <3>4, <3>5, <3>7, <1>0, <1>b DEF Awake
    <3> QED
      BY <3>6, <3>7
  <2>3. CASE Launch(q) \/ LockAndFork(q) \/ Withdraw(q) \/ CheckAnnounced(q) \/ EndSpin(q)
             \/ SpuriousWakeup(q) \/ Relock(q) \/ InTime(q)
    <3>1. PICK label \in Labels \ {"waiting"} :
            /\ pc' = [pc EXCEPT ![q] = label]
            /\ Awake(q) => label \in {"relock", "test", "kill", "work"}
      BY <2>3, <1>c DEF Launch, Due, LockAndFork, Withdraw, CheckAnnounced, EndSpin, SpuriousWakeup, Relock,
           InTime, Goto, Awake, Labels
    <3> QED
      BY <3>1, <1>1, <1>b, <1>c DEF Awake, Waiters
  <2>4. CASE StartRead(q) \/ StartWrite(q) \/ StartDelete(q)
    <3>1. pc' = [pc EXCEPT ![q] = "work"]
      BY <2>4 DEF StartRead, StartWrite, StartDelete, Goto
    <3> QED
      BY <3>1, <1>1, <1>b, <1>c DEF Awake, Waiters
  <2>5. CASE LaunchFails(q) \/ FireBullet(q)
    BY <2>5, <1>1, <1>b DEF LaunchFails, FireBullet, Awake, Waiters
  <2> QED
    BY <1>2, <2>1, <2>2, <2>3, <2>4, <2>5 DEF RequestStep
<1>3. CASE JoinAll \/ Tick \/ UNCHANGED vars
  BY <1>3, <1>1, <1>b DEF JoinAll, Tick, vars, Awake, Waiters
<1> QED
  BY <1>2, <1>3, StepCases

(* No waiter is ever forgotten: some other thread of the file will signal. *)
THEOREM NoForgottenWaiter == Spec => []WaiterHasWaker
<1>1. Init => WaiterHasWaker
  BY DEF Init, WaiterHasWaker, Waiters
<1> QED
  BY <1>1, WakerStep, MonitorCorrect, PTL DEF Spec

-----------------------------------------------------------------------------
(* Every step keeps the deadlines of the bullets. *)
LEMMA BulletStep ==
    ASSUME Types, Types', BulletInv, [Next]_vars PROVE BulletInv'
<1>a. /\ now \in Nat /\ now <= Horizon /\ pc \in [Requests -> Labels]
      /\ wake \in [Requests -> 0 .. Horizon] /\ bulletAt \in [Requests -> 0 .. Horizon]
      /\ bullet \in [Requests -> {"none", "armed", "unforked", "fired", "killed"}]
  BY ConstantsAssumption DEF Types
<1>b. \A p \in Requests : req[p].time \in Nat /\ req[p].time + T <= Horizon
  BY Zenon, ConstantsAssumption DEF Types
<1>c. T \in Nat \ {0} /\ Horizon \in Nat
  BY ConstantsAssumption
<1>1. ASSUME NEW q \in Requests, RequestStep(q) PROVE BulletInv'
  <2>1. CASE Launch(q)
    <3>1. now >= req[q].time /\ wake'[q] > req[q].time
      BY <2>1, <1>a, <1>b, <1>c DEF Launch, Due, After
    <3> QED
      BY <2>1, <3>1, <1>a DEF Launch, BulletInv
  <2>2. CASE LockAndFork(q)
    <3>1. now > req[q].time /\ After(T - 1) >= req[q].time + T
      BY <2>2, <1>a, <1>b, <1>c DEF LockAndFork, After, BulletInv
    <3>2. /\ pc' = [pc EXCEPT ![q] = "forked"] /\ wake' = wake /\ now' = now /\ req' = req
          /\ pc[q] = "created"
      BY <2>2 DEF LockAndFork, Goto
    <3>3. \/ /\ bullet' = [bullet EXCEPT ![q] = "armed"]
             /\ bulletAt' = [bulletAt EXCEPT ![q] = After(T - 1)]
          \/ /\ bullet' = [bullet EXCEPT ![q] = "unforked"]
             /\ bulletAt' = bulletAt
      BY <2>2 DEF LockAndFork
    <3>4. \A p \in Requests :
             /\ bullet'[p] = "armed" => bulletAt'[p] >= req[p].time + T
             /\ bullet'[p] = "fired" => now >= req[p].time + T
      BY <3>1, <3>3, <1>a DEF BulletInv
    <3>5. \A p \in Requests :
             /\ pc'[p] # "idle" => now >= req[p].time
             /\ pc'[p] = "created" => wake[p] > req[p].time
      BY <3>2, <1>a DEF BulletInv
    <3> QED
      BY <3>2, <3>4, <3>5 DEF BulletInv
  <2>3. CASE FireBullet(q)
    <3>1. now >= req[q].time + T
      BY <2>3, <1>a, <1>b, <1>c DEF FireBullet, BulletInv
    <3> QED
      BY <2>3, <3>1, <1>a DEF FireBullet, BulletInv
  <2>4. CASE LaunchFails(q)
    BY <2>4 DEF LaunchFails, BulletInv
  <2>5. CASE \/ Withdraw(q) \/ CheckAnnounced(q) \/ EndSpin(q) \/ CondWait(q) \/ SpuriousWakeup(q)
             \/ Relock(q) \/ InTime(q)
    <3>1. /\ UNCHANGED <<req, now, wake, bullet, bulletAt>> /\ pc[q] # "idle"
          /\ \E label \in Labels \ {"created"} : pc' = [pc EXCEPT ![q] = label]
      BY <2>5, <1>a DEF Withdraw, CheckAnnounced, EndSpin, CondWait, SpuriousWakeup, Relock, InTime,
           Goto, Labels
    <3> QED
      BY <3>1, <1>a DEF BulletInv
  <2>6. CASE StartRead(q) \/ StartWrite(q) \/ StartDelete(q)
    <3>1. /\ UNCHANGED <<req, now, bulletAt>> /\ pc[q] = "kill" /\ bullet' = Killed(q)
          /\ pc' = [pc EXCEPT ![q] = "work"] /\ \A p \in Requests \ {q} : wake'[p] = wake[p]
      BY <2>6, <1>a DEF StartRead, StartWrite, StartDelete, Goto
    <3>2. \A p \in Requests : bullet'[p] \in {bullet[p], "killed"}
      BY <3>1 DEF Killed
    <3> QED
      BY <3>1, <3>2, <1>a DEF BulletInv
  <2>7. CASE TimeOut(q) \/ Decline(q) \/ FinishRead(q) \/ FinishWrite(q) \/ FinishDelete(q)
    <3>1. PICK label \in Finished : SignalAndGoto(q, label)
      BY Zenon, <2>7 DEF TimeOut, Decline, FinishRead, FinishWrite, FinishDelete, Finished
    <3>2. label \in Labels /\ label # "created"
      BY DEF Labels, Finished
    <3>3. pc[q] # "waiting" /\ pc[q] # "idle"
      BY Zenon, <2>7 DEF TimeOut, Decline, FinishRead, FinishWrite, FinishDelete
    <3>4. /\ pc'[q] = label
          /\ \A p \in Requests \ {q} :
                pc'[p] = pc[p] \/ (pc[p] = "waiting" /\ pc'[p] = "relock")
      BY <3>1, <3>2, <3>3, SignalEffect
    <3>5. /\ UNCHANGED <<req, now, wake, bulletAt>>
          /\ bullet' = bullet \/ bullet' = Killed(q)
      BY Zenon, <2>7 DEF TimeOut, Decline, FinishRead, FinishWrite, FinishDelete
    <3>6. \A p \in Requests : bullet'[p] \in {bullet[p], "killed"}
      BY <3>5 DEF Killed
    <3> QED
      BY <3>2, <3>3, <3>4, <3>5, <3>6 DEF BulletInv
  <2> QED
    BY <1>1, <2>1, <2>2, <2>3, <2>4, <2>5, <2>6, <2>7 DEF RequestStep
<1>2. CASE Tick
  <2>1. now' = now + 1 /\ UNCHANGED <<req, pc, wake, bullet, bulletAt>>
    BY <1>2 DEF Tick
  <2>2. ASSUME NEW q \in Requests
        PROVE  /\ now >= req[q].time => now' >= req[q].time
               /\ now >= req[q].time + T => now' >= req[q].time + T
    BY <1>a, <1>b, <1>c, <2>1
  <2> QED
    BY <2>1, <2>2 DEF BulletInv
<1>3. CASE JoinAll \/ UNCHANGED vars
  BY <1>3 DEF JoinAll, vars, BulletInv
<1> QED
  BY <1>1, <1>2, <1>3, StepCases

(* The bullets' deadlines: one second of sleep and T - 1 more lie between a *)
(* request and the moment its bullet may print.                            *)
THEOREM BulletCorrect == Spec => []BulletInv
<1>1. Init => BulletInv
  BY DEF Init, BulletInv
<1> QED
  BY <1>1, BulletStep, TypesHold, PTL DEF Spec

(* No cancellation is reported before the user's patience has run out. *)
THEOREM CancelsOnTime == Spec => []CancelNotEarly
<1>1. BulletInv => CancelNotEarly
  BY DEF BulletInv, CancelNotEarly
<1> QED
  BY <1>1, BulletCorrect, PTL

(* A request reported as cancelled before LAZY looked at the clock is not   *)
(* taken up.                                                               *)
THEOREM CancelsAreFinal == Spec => CancelIsFinal
<1>1. Types /\ BulletInv /\ [Next]_vars =>
        [\A q \in Requests : bullet[q] = "fired" /\ pc[q] = "test" => pc'[q] # "kill"]_vars
  <2> SUFFICES ASSUME Types, BulletInv, [Next]_vars, NEW q \in Requests,
                      bullet[q] = "fired", pc[q] = "test", pc'[q] = "kill"
               PROVE  FALSE
    BY DEF vars
  <2>1. now - req[q].time >= T
    <3>1. now \in Int
      BY ConstantsAssumption DEF Types
    <3>2. req[q].time \in Nat /\ T \in Nat
      BY Zenon, ConstantsAssumption DEF Types
    <3> QED
      BY <3>1, <3>2 DEF BulletInv
  <2>2. pc \in [Requests -> Labels]
    BY DEF Types
  <2>3. ASSUME NEW p \in Requests, RequestStep(p) PROVE FALSE
    <3>1. CASE TimeOut(p) \/ Decline(p) \/ FinishRead(p) \/ FinishWrite(p) \/ FinishDelete(p)
      <4>1. PICK label \in Finished : SignalAndGoto(p, label)
        BY Zenon, <3>1 DEF TimeOut, Decline, FinishRead, FinishWrite, FinishDelete, Finished
      <4>2. label \in Labels /\ label # "kill"
        BY DEF Labels, Finished
      <4>3. pc[p] # "waiting"
        BY Zenon, <3>1 DEF TimeOut, Decline, FinishRead, FinishWrite, FinishDelete
      <4> QED
        BY Zenon, <4>1, <4>2, <4>3, SignalEffect
    <3>2. CASE InTime(p)
      BY Zenon, <3>2, <2>1, <2>2 DEF InTime, Goto, Late
    <3> QED
      BY <2>2, <2>3, <3>1, <3>2 DEF RequestStep, Launch, LaunchFails, LockAndFork, Withdraw,
           CheckAnnounced, EndSpin, CondWait, SpuriousWakeup, Relock, StartRead, StartWrite,
           StartDelete, FireBullet, Goto
  <2> QED
    BY <2>3, StepCases DEF JoinAll, Tick, vars
<1> QED
  BY <1>1, TypesHold, BulletCorrect, PTL DEF CancelIsFinal, Spec

-----------------------------------------------------------------------------
(* The order of the requests of one second.                                *)

(* A launched thread before its withdrawal, and a deleter past its spin. *)
Early(p) == pc[p] \in {"created", "forked"}
Passed(p) == pc[p] \in {"relock", "test", "waiting", "kill", "work"}

(* A slot announces finitely many threads; fewer threads need less. *)
LEMMA AnnouncersFinite ==
    ASSUME NEW f, NEW s
    PROVE  /\ IsFiniteSet(Announcers(f, s))
           /\ Cardinality(Announcers(f, s)) \in Nat
           /\ Cardinality(Announcers(f, s)) = 0 <=> Announcers(f, s) = {}
<1>1. Announcers(f, s) \in SUBSET Requests
  BY DEF Announcers
<1>2. IsFiniteSet(Announcers(f, s))
  BY <1>1, FS_Subset, ConstantsAssumption
<1> QED
  BY <1>2, FS_CardinalityType, FS_EmptySet

(* A slot holds an integer. *)
LEMMA SlotInt ==
    ASSUME NEW slots \in [Files -> [0 .. SLOTS - 1 -> Int]], NEW f \in Files,
           NEW s \in 0 .. SLOTS - 1
    PROVE  slots[f][s] \in Int
BY Zenon

(* The slots of requests, and their files. *)
LEMMA SlotTypes ==
    ASSUME Types, NEW q \in Requests
    PROVE  File(q) \in Files /\ Slot(q) \in 0 .. SLOTS - 1 /\ Op(q) \in {1, 2, 3}
<1>1. req[q].time \in Nat /\ SLOTS \in Nat \ {0}
  BY Zenon, ConstantsAssumption DEF Types
<1>2. Slot(q) \in 0 .. SLOTS - 1
  BY <1>1 DEF Slot
<1> QED
  BY <1>2 DEF Types, File, Op, READ, WRITE, DELETE

(* The steps that launch nobody, withdraw nothing and let no deleter out of *)
(* its spin loop.                                                          *)
LEMMA OrderQuiet ==
    ASSUME Types, Types', OrderInv, req' = req,
           \A f \in Files, s \in 0 .. SLOTS - 1 : time_requests[f][s] <= time_requests'[f][s],
           \A p \in Requests : /\ pc'[p] = "idle" <=> pc[p] = "idle"
                               /\ Early(p)' => Early(p)
                               /\ Op(p) = DELETE /\ Passed(p)' => Passed(p)
    PROVE  OrderInv'
<1>a. \A p : File(p)' = File(p) /\ Op(p)' = Op(p) /\ Slot(p)' = Slot(p)
  BY DEF File, Op, Slot
<1>1. ASSUME NEW f \in Files, NEW s \in 0 .. SLOTS - 1
      PROVE  Cardinality(Announcers(f, s)') <= time_requests'[f][s]
  <2>1. Announcers(f, s)' \in SUBSET Announcers(f, s)
    BY <1>a DEF Announcers, Early
  <2>2. Cardinality(Announcers(f, s)') <= Cardinality(Announcers(f, s))
    BY <2>1, AnnouncersFinite, FS_Subset
  <2>3. Cardinality(Announcers(f, s)') \in Nat /\ Cardinality(Announcers(f, s)) \in Nat
    BY <2>1, AnnouncersFinite, FS_Subset, FS_CardinalityType
  <2>4. time_requests[f][s] \in Int /\ time_requests'[f][s] \in Int
    BY Zenon, SlotInt DEF Types
  <2> QED
    BY <2>2, <2>3, <2>4 DEF OrderInv
<1>2. \A q, p \in Requests : pc'[q] # "idle" /\ pc'[p] = "idle" => NotAfter(q, p)'
  BY <1>a DEF OrderInv, NotAfter
<1>3. ASSUME NEW q \in Requests, NEW p \in Requests, Op(q) = DELETE, Passed(q)', Op(p) < DELETE,
             File(p) = File(q), req[p].time = req[q].time
      PROVE  pc'[p] # "idle" /\ ~Early(p)'
  BY <1>3 DEF OrderInv, Passed, Early
<1> QED
  BY <1>1, <1>2, <1>3, <1>a DEF OrderInv, Passed, Early

(* main launches the first of those that are left, and announces it. *)
LEMMA OrderLaunch ==
    ASSUME Types, Types', OrderInv, NEW q \in Requests, Launch(q)
    PROVE  OrderInv'
<1>a. \A p : File(p)' = File(p) /\ Op(p)' = Op(p) /\ Slot(p)' = Slot(p)
  BY DEF Launch, File, Op, Slot
<1>b. req' = req /\ pc[q] = "idle" /\ pc' = [pc EXCEPT ![q] = "created"]
  BY DEF Launch, Due
<1>c. pc \in [Requests -> Labels] /\ time_requests \in [Files -> [0 .. SLOTS - 1 -> Int]]
  BY DEF Types
<1>d. File(q) \in Files /\ Slot(q) \in 0 .. SLOTS - 1
  BY SlotTypes
<1>1. ASSUME NEW f \in Files, NEW s \in 0 .. SLOTS - 1
      PROVE  Cardinality(Announcers(f, s)') <= time_requests'[f][s]
  <2>1. CASE Op(q) < DELETE /\ f = File(q) /\ s = Slot(q)
    <3>1. Announcers(f, s)' = Announcers(f, s) \cup {q} /\ q \notin Announcers(f, s)
      BY <2>1, <1>a, <1>b, <1>c DEF Announcers
    <3>2. Cardinality(Announcers(f, s)') = Cardinality(Announcers(f, s)) + 1
      BY Zenon, <3>1, AnnouncersFinite, FS_AddElement
    <3>3. time_requests'[f][s] = time_requests[f][s] + 1
      BY <2>1, <1>c, <1>d DEF Launch, Announce
    <3>4. time_requests[f][s] \in Int /\ Cardinality(Announcers(f, s)) <= time_requests[f][s]
      BY <1>c DEF OrderInv
    <3> QED
      BY <3>2, <3>3, <3>4, AnnouncersFinite
  <2>2. CASE ~(Op(q) < DELETE /\ f = File(q) /\ s = Slot(q))
    <3>1. Announcers(f, s)' = Announcers(f, s)
      BY <2>2, <1>a, <1>b, <1>c DEF Announcers
    <3>2. time_requests'[f][s] = time_requests[f][s]
      BY <2>2, <1>c, <1>d DEF Launch, Announce
    <3> QED
      BY <3>1, <3>2 DEF OrderInv
  <2> QED
    BY <2>1, <2>2
<1>2. \A u, p \in Requests : pc'[u] # "idle" /\ pc'[p] = "idle" => NotAfter(u, p)'
  <2>1. \A p \in Requests : pc[p] = "idle" => NotAfter(q, p)
    BY DEF Launch, Due
  <2> QED
    BY <2>1, <1>a, <1>b, <1>c DEF OrderInv, NotAfter
<1>3. ASSUME NEW u \in Requests, NEW p \in Requests, Op(u) = DELETE, Passed(u)', Op(p) < DELETE,
             File(p) = File(u), req[p].time = req[u].time
      PROVE  pc'[p] # "idle" /\ ~Early(p)'
  <2>1. Passed(u)
    BY <1>3, <1>b, <1>c DEF Passed
  <2>2. pc[p] # "idle" /\ ~Early(p)
    BY <1>3, <2>1 DEF OrderInv, Passed, Early
  <2> QED
    BY <2>2, <1>b, <1>c DEF Early
<1> QED
  BY <1>1, <1>2, <1>3, <1>a, <1>b DEF OrderInv, Passed, Early

(* A reader or writer withdraws its own announcement and no other. *)
LEMMA OrderWithdraw ==
    ASSUME Types, Types', OrderInv, NEW q \in Requests, Withdraw(q)
    PROVE  OrderInv'
<1>a. \A p : File(p)' = File(p) /\ Op(p)' = Op(p) /\ Slot(p)' = Slot(p)
  BY DEF Withdraw, File, Op, Slot
<1>b. /\ req' = req /\ pc[q] = "forked" /\ pc' = [pc EXCEPT ![q] = "test"]
      /\ Op(q) < DELETE
  BY DEF Withdraw, Goto
<1>c. pc \in [Requests -> Labels] /\ time_requests \in [Files -> [0 .. SLOTS - 1 -> Int]]
  BY DEF Types
<1>d. File(q) \in Files /\ Slot(q) \in 0 .. SLOTS - 1 /\ Op(q) # DELETE
  BY <1>b, SlotTypes DEF DELETE
<1>1. ASSUME NEW f \in Files, NEW s \in 0 .. SLOTS - 1
      PROVE  Cardinality(Announcers(f, s)') <= time_requests'[f][s]
  <2>1. CASE f = File(q) /\ s = Slot(q)
    <3>1. Announcers(f, s)' = Announcers(f, s) \ {q} /\ q \in Announcers(f, s)
      BY <2>1, <1>a, <1>b, <1>c DEF Announcers
    <3>2. Cardinality(Announcers(f, s)') = Cardinality(Announcers(f, s)) - 1
      BY Zenon, <3>1, AnnouncersFinite, FS_RemoveElement
    <3>3. time_requests'[f][s] = time_requests[f][s] - 1
      BY <2>1, <1>c, <1>d DEF Withdraw
    <3>4. time_requests[f][s] \in Int /\ Cardinality(Announcers(f, s)) <= time_requests[f][s]
      BY <1>c DEF OrderInv
    <3> QED
      BY <3>2, <3>3, <3>4, AnnouncersFinite
  <2>2. CASE ~(f = File(q) /\ s = Slot(q))
    <3>1. Announcers(f, s)' = Announcers(f, s)
      BY <2>2, <1>a, <1>b, <1>c DEF Announcers
    <3>2. time_requests'[f][s] = time_requests[f][s]
      BY <2>2, <1>c, <1>d DEF Withdraw
    <3> QED
      BY <3>1, <3>2 DEF OrderInv
  <2> QED
    BY <2>1, <2>2
<1>2. \A u, p \in Requests : pc'[u] # "idle" /\ pc'[p] = "idle" => NotAfter(u, p)'
  BY <1>a, <1>b, <1>c DEF OrderInv, NotAfter
<1>3. ASSUME NEW u \in Requests, NEW p \in Requests, Op(u) = DELETE, Passed(u)', Op(p) < DELETE,
             File(p) = File(u), req[p].time = req[u].time
      PROVE  pc'[p] # "idle" /\ ~Early(p)'
  <2>1. Passed(u)
    BY <1>3, <1>b, <1>c, <1>d DEF Passed
  <2>2. pc[p] # "idle" /\ ~Early(p)
    BY <1>3, <2>1 DEF OrderInv, Passed, Early
  <2> QED
    BY <2>2, <1>b, <1>c DEF Early
<1> QED
  BY <1>1, <1>2, <1>3, <1>a, <1>b DEF OrderInv, Passed, Early

(* A deleter leaves its spin loop when its slot is empty: then every reader *)
(* and writer of its second is launched and past its withdrawal.           *)
LEMMA OrderEndSpin ==
    ASSUME Types, Types', OrderInv, NEW q \in Requests, EndSpin(q)
    PROVE  OrderInv'
<1>a. \A p : File(p)' = File(p) /\ Op(p)' = Op(p) /\ Slot(p)' = Slot(p)
  BY DEF EndSpin, File, Op, Slot
<1>b. /\ req' = req /\ time_requests' = time_requests
      /\ pc[q] \in {"spin_unlocked", "spin_locked"}
      /\ \E label \in {"relock", "test"} : pc' = [pc EXCEPT ![q] = label]
      /\ ~(time_requests[File(q)][Slot(q)] > 0)
  BY DEF EndSpin, Goto, Announced
<1>c. pc \in [Requests -> Labels] /\ time_requests \in [Files -> [0 .. SLOTS - 1 -> Int]]
  BY DEF Types
<1>d. File(q) \in Files /\ Slot(q) \in 0 .. SLOTS - 1
  BY SlotTypes
<1>1. Announcers(File(q), Slot(q)) = {}
  <2>1. /\ time_requests[File(q)][Slot(q)] \in Int
        /\ Cardinality(Announcers(File(q), Slot(q))) <= time_requests[File(q)][Slot(q)]
    BY <1>c, <1>d DEF OrderInv
  <2> QED
    BY <2>1, <1>b, AnnouncersFinite
<1>2. ASSUME NEW p \in Requests, Op(q) = DELETE, Op(p) < DELETE, File(p) = File(q),
             req[p].time = req[q].time
      PROVE  pc[p] # "idle" /\ ~Early(p)
  <2>1. ~Early(p)
    BY <1>1, <1>2 DEF Announcers, Early, Slot
  <2>2. ~NotAfter(q, p)
    <3>1. Op(p) \in {1, 2, 3} /\ req[q].time \in Nat
      BY SlotTypes, ConstantsAssumption DEF Types
    <3> QED
      BY <1>2, <3>1 DEF NotAfter, DELETE
  <2>3. pc[q] # "idle"
    BY <1>b
  <2> QED
    BY <2>1, <2>2, <2>3 DEF OrderInv
<1>3. ASSUME NEW f \in Files, NEW s \in 0 .. SLOTS - 1
      PROVE  Cardinality(Announcers(f, s)') <= time_requests'[f][s]
  <2>1. Announcers(f, s)' = Announcers(f, s)
    BY <1>a, <1>b, <1>c DEF Announcers
  <2> QED
    BY <2>1, <1>b DEF OrderInv
<1>4. \A u, p \in Requests : pc'[u] # "idle" /\ pc'[p] = "idle" => NotAfter(u, p)'
  BY <1>a, <1>b, <1>c DEF OrderInv, NotAfter
<1>5. ASSUME NEW u \in Requests, NEW p \in Requests, Op(u) = DELETE, Passed(u)', Op(p) < DELETE,
             File(p) = File(u), req[p].time = req[u].time
      PROVE  pc'[p] # "idle" /\ ~Early(p)'
  <2>1. Passed(u) => pc[p] # "idle" /\ ~Early(p)
    BY <1>5 DEF OrderInv, Passed, Early
  <2>2. pc[p] # "idle" /\ ~Early(p)
    BY <1>2, <1>5, <2>1, <1>b, <1>c DEF Passed
  <2> QED
    BY <2>2, <1>b, <1>c DEF Early
<1> QED
  BY <1>3, <1>4, <1>5, <1>a, <1>b DEF OrderInv, Passed, Early

(* Every step keeps the order. *)
LEMMA OrderStep ==
    ASSUME Types, Types', OrderInv, [Next]_vars PROVE OrderInv'
<1>c. pc \in [Requests -> Labels] /\ time_requests \in [Files -> [0 .. SLOTS - 1 -> Int]]
  BY DEF Types
<1>q. ASSUME req' = req, time_requests' = time_requests,
             \A p \in Requests : /\ pc'[p] = "idle" <=> pc[p] = "idle"
                                 /\ Early(p)' => Early(p)
                                 /\ Passed(p)' => Passed(p) \/ Op(p) # DELETE
      PROVE  OrderInv'
  <2>1. \A f \in Files, s \in 0 .. SLOTS - 1 : time_requests[f][s] <= time_requests'[f][s]
    BY <1>c, <1>q, SlotInt
  <2> QED
    BY <1>q, <2>1, OrderQuiet
<1>1. ASSUME NEW q \in Requests, RequestStep(q) PROVE OrderInv'
  <2>1. CASE LaunchFails(q)
    <3>1. req' = req /\ pc' = pc /\ Announce(q)
      BY <2>1 DEF LaunchFails
    <3>2. File(q) \in Files /\ Slot(q) \in 0 .. SLOTS - 1
      BY SlotTypes
    <3>3. ASSUME NEW f \in Files, NEW s \in 0 .. SLOTS - 1
          PROVE  time_requests[f][s] <= time_requests'[f][s]
      <4>1. time_requests[f][s] \in Int
        BY <1>c, SlotInt
      <4>2. time_requests'[f][s] \in {time_requests[f][s], time_requests[f][s] + 1}
        BY <1>c, <3>1, <3>2 DEF Announce
      <4> QED
        BY <4>1, <4>2
    <3> QED
      BY <3>1, <3>3, OrderQuiet DEF Early, Passed
  <2>2. CASE TimeOut(q) \/ Decline(q) \/ FinishRead(q) \/ FinishWrite(q) \/ FinishDelete(q)
    <3>1. PICK label \in Finished : SignalAndGoto(q, label)
      BY Zenon, <2>2 DEF TimeOut, Decline, FinishRead, FinishWrite, FinishDelete, Finished
    <3>2. label \in Labels /\ label \notin {"idle", "created", "forked"}
      BY DEF Labels, Finished
    <3>3. /\ pc[q] # "waiting" /\ pc[q] # "idle"
          /\ req' = req /\ time_requests' = time_requests
      BY Zenon, <2>2 DEF TimeOut, Decline, FinishRead, FinishWrite, FinishDelete
    <3>4. /\ pc'[q] = label
          /\ \A p \in Requests \ {q} :
                pc'[p] = pc[p] \/ (pc[p] = "waiting" /\ pc'[p] = "relock")
      BY <3>1, <3>2, <3>3, SignalEffect
    <3>5. label \notin {"relock", "test", "waiting", "kill", "work"}
      BY DEF Finished
    <3> QED
      BY <3>2, <3>3, <3>4, <3>5, <1>q DEF Early, Passed
  <2>3. CASE \/ LockAndFork(q) \/ CheckAnnounced(q) \/ CondWait(q) \/ SpuriousWakeup(q)
             \/ Relock(q) \/ InTime(q)
    <3>1. /\ req' = req /\ time_requests' = time_requests
          /\ \E label \in Labels \ {"idle", "created"} :
                /\ pc' = [pc EXCEPT ![q] = label]
                /\ label = "forked" => pc[q] = "created"
                /\ label \in {"relock", "test", "waiting", "kill", "work"} => Passed(q)
          /\ pc[q] # "idle"
      BY <2>3 DEF LockAndFork, CheckAnnounced, CondWait, SpuriousWakeup, Relock, InTime, Goto,
           Labels, Passed
    <3> QED
      BY <3>1, <1>c, <1>q DEF Early, Passed
  <2>4. CASE StartRead(q) \/ StartWrite(q) \/ StartDelete(q)
    <3>1. /\ req' = req /\ time_requests' = time_requests
          /\ pc[q] = "kill" /\ pc' = [pc EXCEPT ![q] = "work"]
      BY <2>4 DEF StartRead, StartWrite, StartDelete, Goto
    <3> QED
      BY <3>1, <1>c, <1>q DEF Early, Passed
  <2>5. CASE FireBullet(q)
    BY <2>5, <1>q DEF FireBullet, Early, Passed
  <2> QED
    BY <1>1, <2>1, <2>2, <2>3, <2>4, <2>5, OrderLaunch, OrderWithdraw, OrderEndSpin DEF RequestStep
<1>2. CASE JoinAll \/ Tick \/ UNCHANGED vars
  BY <1>2, <1>q DEF JoinAll, Tick, vars, Early, Passed
<1> QED
  BY <1>1, <1>2, StepCases

(* If malloc leaves no negative number in time_requests, the launch order   *)
(* and the announcements keep every DELETE behind the READs and WRITEs of   *)
(* its file and second.  The hypothesis is needed: a negative slot would    *)
(* hide an announced user.                                                 *)
THEOREM DeletesComeLast ==
    (\A g \in Garbage : g >= 0) => (Spec => []SameSecondOrder)
<1> SUFFICES ASSUME \A g \in Garbage : g >= 0
             PROVE  Spec => []SameSecondOrder
  OBVIOUS
<1>1. Init => OrderInv
  <2> SUFFICES ASSUME Init PROVE OrderInv
    OBVIOUS
  <2>1. \A p \in Requests : pc[p] = "idle"
    BY DEF Init
  <2>2. ASSUME NEW f \in Files, NEW s \in 0 .. SLOTS - 1
        PROVE  Cardinality(Announcers(f, s)) <= time_requests[f][s]
    <3>1. time_requests[f][s] \in Garbage
      BY DEF Init
    <3>2. time_requests[f][s] \in Int /\ time_requests[f][s] >= 0
      BY <3>1, ConstantsAssumption
    <3>3. Announcers(f, s) = {}
      BY <2>1 DEF Announcers
    <3> QED
      BY <3>2, <3>3, AnnouncersFinite
  <2> QED
    BY <2>1, <2>2 DEF OrderInv
<1>2. OrderInv => SameSecondOrder
  BY DEF OrderInv, SameSecondOrder
<1> QED
  BY <1>1, <1>2, OrderStep, TypesHold, PTL DEF Spec

=============================================================================
