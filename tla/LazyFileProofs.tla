--------------------------- MODULE LazyFileProofs ---------------------------
(***************************************************************************)
(* Proofs about LazyFile for any set of requests and files, any limit,     *)
(* patience and durations, with failing system calls, spurious wakeups and *)
(* any initial contents of time_requests.                                  *)
(***************************************************************************)
EXTENDS LazyFile, FiniteSetTheorems, TLAPS

(* The steps of one request, all branches of process_req taken together. *)
RequestStep(q) ==
    \/ Launch(q) \/ LaunchFails(q)
    \/ LockAndFork(q) \/ Withdraw(q) \/ CheckAnnounced(q) \/ EndSpin(q)
    \/ CondWait(q) \/ SpuriousWakeup(q) \/ Relock(q) \/ TimeOut(q) \/ InTime(q)
    \/ Decline(q) \/ StartRead(q) \/ StartWrite(q) \/ StartDelete(q)
    \/ FinishRead(q) \/ FinishWrite(q) \/ FinishDelete(q)
    \/ FireBullet(q)

(* A step of the program is a step of one request, of main or of the clock. *)
LEMMA StepCases ==
    ASSUME [Next]_vars
    PROVE  \/ \E q \in Requests : RequestStep(q)
           \/ JoinAll \/ Tick \/ UNCHANGED vars
BY Zenon DEF Next, RequestStep, ProcessReq, ProcessRead, ProcessWrite, ProcessDelete,
             Spin, Terminated

(* pthread_cond_signal moves the caller and perhaps one waiter. *)
LEMMA SignalEffect ==
    ASSUME Types, NEW q \in Requests, NEW label \in Labels, SignalAndGoto(q, label)
    PROVE  /\ pc' \in [Requests -> Labels]
           /\ pc[q] # "waiting" => pc'[q] = label
           /\ \A p \in Requests \ {q} :
                 \/ pc'[p] = pc[p]
                 \/ pc[p] = "waiting" /\ pc'[p] = "relock" /\ File(p) = File(q)
           /\ \A f \in Files : Waiters(f) # {} /\ f = File(q) /\ pc[q] # "waiting" =>
                 \E v \in Requests \ {q} : File(v) = f /\ pc'[v] = "relock"
<1> DEFINE f == File(q)
<1>1. pc \in [Requests -> Labels] /\ "relock" \in Labels
  BY DEF Types, Labels
<1>2. CASE Waiters(f) = {} /\ Goto(q, label)
  BY <1>1, <1>2 DEF Goto
<1>3. CASE \E v \in Waiters(f) : pc' = [pc EXCEPT ![q] = label, ![v] = "relock"]
  <2>1. PICK v \in Waiters(f) : pc' = [pc EXCEPT ![q] = label, ![v] = "relock"]
    BY Zenon, <1>3
  <2>2. v \in Requests /\ File(v) = f /\ pc[v] = "waiting"
    BY <2>1 DEF Waiters
  <2> QED
    BY <1>1, <2>1, <2>2
<1> QED
  BY <1>2, <1>3 DEF SignalAndGoto

-----------------------------------------------------------------------------
(* main starts in a state of the right types. *)
LEMMA TypeInit ==
    ASSUME Init PROVE Types
<1>1. time_requests \in [Files -> [0 .. SLOTS - 1 -> Int]]
  BY Zenon, ConstantsAssumption DEF Init
<1>2. pc \in [Requests -> Labels] /\ now \in 0 .. Horizon
  BY ConstantsAssumption DEF Init, Labels
<1>3. wake \in [Requests -> 0 .. Horizon] /\ bulletAt \in [Requests -> 0 .. Horizon]
  BY ConstantsAssumption DEF Init
<1> QED
  BY <1>1, <1>2, <1>3 DEF Init, Types

(* main's announcement changes one slot of one file by one. *)
LEMMA AnnounceTypes ==
    ASSUME NEW q, File(q) \in Files, Slot(q) \in 0 .. SLOTS - 1,
           time_requests \in [Files -> [0 .. SLOTS - 1 -> Int]], Announce(q)
    PROVE  time_requests' \in [Files -> [0 .. SLOTS - 1 -> Int]]
<1>1. time_requests[File(q)] \in [0 .. SLOTS - 1 -> Int]
  OBVIOUS
<1>2. time_requests[File(q)][Slot(q)] + 1 \in Int
  BY <1>1
<1>3. [time_requests[File(q)] EXCEPT ![Slot(q)] = time_requests[File(q)][Slot(q)] + 1]
        \in [0 .. SLOTS - 1 -> Int]
  BY <1>1, <1>2
<1> QED
  BY <1>3 DEF Announce

(* Every step of main, process_req, the bullets and the clock keeps them. *)
LEMMA TypeStep ==
    ASSUME Types, [Next]_vars PROVE Types'
<1> USE ConstantsAssumption
<1>0. UNCHANGED vars => Types'
  BY DEF vars, fileVars, Types
<1>1. ASSUME NEW q \in Requests, RequestStep(q) PROVE Types'
  <2>1. \A s \in Nat : After(s) \in 0 .. Horizon
    BY DEF After, Types
  <2>2. File(q) \in Files /\ Op(q) \in {READ, WRITE, DELETE} /\ Slot(q) \in 0 .. SLOTS - 1
    <3>1. req[q].time \in Nat /\ SLOTS \in Nat \ {0}
      BY Zenon DEF Types
    <3>2. Slot(q) \in 0 .. SLOTS - 1
      BY <3>1 DEF Slot
    <3> QED
      BY <3>2 DEF Types, File, Op
  <2>3. Killed(q) \in [Requests -> {"none", "armed", "unforked", "fired", "killed"}]
    BY DEF Killed, Types
  <2>4. CASE Launch(q)
    <3>1. time_requests' \in [Files -> [0 .. SLOTS - 1 -> Int]]
      <4>1. Announce(q) /\ time_requests \in [Files -> [0 .. SLOTS - 1 -> Int]]
        BY <2>4 DEF Launch, Types
      <4> QED
        BY <2>2, <4>1, AnnounceTypes
    <3> QED
      BY Zenon, <2>4, <2>1, <3>1 DEF Launch, Types, Labels, fileVars
  <2>5. CASE LaunchFails(q)
    <3>1. time_requests' \in [Files -> [0 .. SLOTS - 1 -> Int]]
      <4>1. Announce(q) /\ time_requests \in [Files -> [0 .. SLOTS - 1 -> Int]]
        BY <2>5 DEF LaunchFails, Types
      <4> QED
        BY <2>2, <4>1, AnnounceTypes
    <3> QED
      BY <2>5, <3>1 DEF LaunchFails, Types, fileVars
  <2>6. CASE LockAndFork(q)
    <3>1. After(T - 1) \in 0 .. Horizon
      BY <2>1
    <3>2. bullet' \in [Requests -> {"none", "armed", "unforked", "fired", "killed"}]
      BY Zenon, <2>6 DEF LockAndFork, Types
    <3>3. bulletAt' \in [Requests -> 0 .. Horizon]
      BY Zenon, <2>6, <3>1 DEF LockAndFork, Types
    <3> QED
      BY Zenon, <2>6, <2>2, <3>2, <3>3 DEF LockAndFork, Acquire, Goto, Types, Labels, fileVars
  <2>7. CASE Withdraw(q)
    <3>1. time_requests' \in [Files -> [0 .. SLOTS - 1 -> Int]]
      BY SMTT(30), <2>2, <2>7 DEF Withdraw, Types
    <3> QED
      BY SMTT(30), <2>7, <3>1 DEF Withdraw, Goto, Types, Labels, fileVars
  <2>8. CASE CheckAnnounced(q)
    BY Zenon, <2>8, <2>2 DEF CheckAnnounced, Release, Goto, Types, Labels, fileVars
  <2>9. CASE EndSpin(q) \/ SpuriousWakeup(q) \/ InTime(q)
    BY Zenon, <2>9 DEF EndSpin, SpuriousWakeup, InTime, Goto, Types, Labels, fileVars
  <2>10. CASE CondWait(q)
    BY SMTT(30), <2>10, <2>2 DEF CondWait, Release, Goto, Types, Labels, fileVars
  <2>11. CASE Relock(q)
    BY SMTT(30), <2>11, <2>2 DEF Relock, Acquire, Goto, Types, Labels, fileVars
  <2>12. "timedout" \in Labels /\ "declined" \in Labels /\ "completed" \in Labels
    BY DEF Labels, Finished
  <2>13. CASE TimeOut(q)
    <3>1. pc' \in [Requests -> Labels]
      BY <2>12, <2>13, SignalEffect DEF TimeOut
    <3> QED
      BY SMTT(30), <2>13, <2>2, <3>1 DEF TimeOut, Release, Types, fileVars
  <2>14. CASE Decline(q)
    <3>1. pc' \in [Requests -> Labels]
      BY <2>12, <2>14, SignalEffect DEF Decline
    <3> QED
      BY SMTT(30), <2>14, <2>2, <2>3, <3>1 DEF Decline, Release, Types, fileVars
  <2>15. CASE StartRead(q)
    <3>1. readercount' \in [Files -> Int] /\ concurrent_access' \in [Files -> Int]
      BY SMTT(30), <2>15, <2>2 DEF StartRead, Types
    <3>2. lock' \in [Files -> Requests \cup {NoOne}] /\ pc' \in [Requests -> Labels]
      BY Zenon, <2>15, <2>2 DEF StartRead, Release, Goto, Types, Labels
    <3> QED
      BY Zenon, <2>15, <2>1, <2>3, <3>1, <3>2 DEF StartRead, Types
  <2>16. CASE StartWrite(q)
    <3>1. writercount' \in [Files -> Int] /\ concurrent_access' \in [Files -> Int]
      BY SMTT(30), <2>16, <2>2 DEF StartWrite, Types
    <3>2. lock' \in [Files -> Requests \cup {NoOne}] /\ pc' \in [Requests -> Labels]
      BY Zenon, <2>16, <2>2 DEF StartWrite, Release, Goto, Types, Labels
    <3> QED
      BY Zenon, <2>16, <2>1, <2>3, <3>1, <3>2 DEF StartWrite, Types
  <2>17. CASE StartDelete(q)
    BY Zenon, <2>17, <2>1, <2>2, <2>3 DEF StartDelete, Goto, Types, Labels, fileVars
  <2>18. CASE FinishRead(q) \/ FinishWrite(q) \/ FinishDelete(q)
    <3>1. pc' \in [Requests -> Labels]
      BY <2>12, <2>18, SignalEffect DEF FinishRead, FinishWrite, FinishDelete
    <3>2. CASE FinishRead(q)
      <4>1. readercount' \in [Files -> Int] /\ concurrent_access' \in [Files -> Int]
        BY SMTT(30), <3>2, <2>2 DEF FinishRead, Types
      <4> QED
        BY Zenon, <3>2, <3>1, <4>1 DEF FinishRead, Types
    <3>3. CASE FinishWrite(q)
      <4>1. writercount' \in [Files -> Int] /\ concurrent_access' \in [Files -> Int]
        BY SMTT(30), <3>3, <2>2 DEF FinishWrite, Types
      <4> QED
        BY Zenon, <3>3, <3>1, <4>1 DEF FinishWrite, Types
    <3>4. CASE FinishDelete(q)
      BY SMTT(30), <3>4, <2>2, <3>1 DEF FinishDelete, Release, Types
    <3> QED
      BY <2>18, <3>2, <3>3, <3>4
  <2>19. CASE FireBullet(q)
    BY <2>19 DEF FireBullet, Types, fileVars
  <2> QED
    BY <1>1, <2>4, <2>5, <2>6, <2>7, <2>8, <2>9, <2>10, <2>11, <2>13, <2>14, <2>15, <2>16,
       <2>17, <2>18, <2>19 DEF RequestStep
<1>2. CASE JoinAll
  BY <1>2 DEF JoinAll, Types, fileVars
<1>3. CASE Tick
  BY <1>3 DEF Tick, Types, fileVars
<1> QED
  BY <1>0, <1>1, <1>2, <1>3, StepCases

(* Every variable keeps its type, the counters as integers. *)
THEOREM TypesHold == Spec => []Types
  BY TypeInit, TypeStep, PTL DEF Spec

-----------------------------------------------------------------------------
(* The working threads of a file are finitely many, and readers and writers *)
(* are different threads.                                                  *)
LEMMA WorkersFinite ==
    ASSUME NEW f
    PROVE  /\ IsFiniteSet(Readers(f)) /\ IsFiniteSet(Writers(f))
           /\ Cardinality(Readers(f)) \in Nat /\ Cardinality(Writers(f)) \in Nat
           /\ Cardinality(Readers(f)) = 0 <=> Readers(f) = {}
           /\ Cardinality(Writers(f)) = 0 <=> Writers(f) = {}
           /\ Readers(f) \cap Writers(f) = {}
<1>1. Readers(f) \in SUBSET Requests /\ Writers(f) \in SUBSET Requests
  BY DEF Readers, Writers
<1>2. IsFiniteSet(Readers(f)) /\ IsFiniteSet(Writers(f))
  BY <1>1, FS_Subset, ConstantsAssumption
<1>3. Readers(f) \cap Writers(f) = {}
  BY DEF Readers, Writers, READ, WRITE
<1> QED
  BY <1>2, <1>3, FS_CardinalityType, FS_EmptySet

(* A step that leaves the counters alone, and leaves every working thread   *)
(* at work and no other, keeps what the invariant says of working threads. *)
LEMMA QuietStep ==
    ASSUME MonitorInv, UNCHANGED <<req, fileVars>>,
           \A p \in Requests : pc'[p] = "work" <=> pc[p] = "work"
    PROVE  /\ CountInv' /\ LimitInv' /\ LiveInv'
           /\ \A p \in Requests : pc'[p] = "work" /\ Op(p)' = DELETE => ~DeleteMustWait(File(p))'
<1>1. \A f : Readers(f)' = Readers(f) /\ Writers(f)' = Writers(f)
  BY DEF Readers, Writers, File, Op
<1>2. UNCHANGED <<readercount, writercount, concurrent_access, deleted>>
  BY DEF fileVars
<1>3. CountInv'
  BY <1>1, <1>2 DEF MonitorInv, CountInv
<1>4. LimitInv'
  BY <1>2 DEF MonitorInv, LimitInv
<1>5. LiveInv'
  BY <1>2 DEF MonitorInv, LiveInv, File
<1>6. \A p \in Requests : pc'[p] = "work" /\ Op(p)' = DELETE => ~DeleteMustWait(File(p))'
  BY <1>2 DEF MonitorInv, AdmitInv, DeleteMustWait, File, Op
<1> QED
  BY <1>3, <1>4, <1>5, <1>6

(* Two threads that own the mutex of one file are the same thread. *)
LEMMA OneHolder ==
    ASSUME LockInv, NEW q \in Requests, NEW p \in Requests, Holds(q), Holds(p), File(q) = File(p)
    PROVE  q = p
BY DEF LockInv

(* Nobody works and nobody holds a mutex when main starts. *)
LEMMA MonitorInit ==
    ASSUME Init PROVE MonitorInv
<1>1. Types
  BY TypeInit
<1>2. \A f \in Files : Readers(f) = {} /\ Writers(f) = {}
  BY DEF Init, Readers, Writers
<1>3. CountInv /\ LimitInv
  <2>1. \A f \in Files : Cardinality(Readers(f)) = 0 /\ Cardinality(Writers(f)) = 0
    BY <1>2, WorkersFinite
  <2>2. \A f \in Files : readercount[f] = 0 /\ writercount[f] = 0 /\ concurrent_access[f] = 0
    BY DEF Init
  <2> QED
    BY <2>1, <2>2, ConstantsAssumption DEF CountInv, LimitInv
<1>4. LockInv /\ AdmitInv /\ LiveInv
  BY DEF Init, LockInv, Holds, AdmitInv, LiveInv
<1> QED
  BY <1>1, <1>3, <1>4 DEF MonitorInv

(* The steps that neither start nor finish an operation: the working        *)
(* threads stay the same, and so do the counters.                          *)
LEMMA MonitorQuiet ==
    ASSUME MonitorInv, Types', NEW q \in Requests,
           \/ Launch(q) \/ LaunchFails(q) \/ LockAndFork(q) \/ Withdraw(q)
           \/ CheckAnnounced(q) \/ EndSpin(q) \/ CondWait(q) \/ SpuriousWakeup(q)
           \/ Relock(q) \/ TimeOut(q) \/ InTime(q) \/ Decline(q) \/ FireBullet(q)
    PROVE  MonitorInv'
<1> USE DEF MonitorInv
<1>a. pc \in [Requests -> Labels] /\ lock \in [Files -> Requests \cup {NoOne}]
  BY Zenon DEF Types
<1>b. \A p \in Requests : File(p) \in Files
  BY DEF Types, File
<1>c. UNCHANGED <<req, fileVars>>
  BY DEF Launch, LaunchFails, LockAndFork, Withdraw, CheckAnnounced, EndSpin, CondWait,
         SpuriousWakeup, Relock, TimeOut, InTime, Decline, FireBullet
<1>d. \A p \in Requests : File(p)' = File(p) /\ Op(p)' = Op(p) /\ MustWait(p)' = MustWait(p)
  BY <1>c DEF File, Op, MustWait, ReadMustWait, WriteMustWait, DeleteMustWait, fileVars
<1>1. SUFFICES
        /\ \A p \in Requests : pc'[p] = "work" <=> pc[p] = "work"
        /\ \A p \in Requests : pc'[p] = "kill" => ~MustWait(p)
        /\ \A p \in Requests : Holds(p)' => lock'[File(p)] = p
  BY <1>c, <1>d, QuietStep DEF LockInv, AdmitInv
<1>2. CASE Launch(q)
  BY <1>2, <1>a, <1>d DEF Launch, Due, LockInv, AdmitInv, Holds
<1>3. CASE LaunchFails(q) \/ FireBullet(q)
  <2>1. pc' = pc /\ lock' = lock
    BY <1>3 DEF LaunchFails, FireBullet
  <2> QED
    BY <2>1, <1>d DEF LockInv, AdmitInv, Holds
<1>4. CASE LockAndFork(q)
  BY <1>4, <1>a, <1>b, <1>d, ConstantsAssumption
     DEF LockAndFork, Acquire, Goto, LockInv, AdmitInv, Holds
<1>5. CASE Withdraw(q)
  BY <1>5, <1>a, <1>d DEF Withdraw, Goto, LockInv, AdmitInv, Holds
<1>6. CASE CheckAnnounced(q)
  BY <1>6, <1>a, <1>b, <1>d DEF CheckAnnounced, Release, Goto, LockInv, AdmitInv, Holds
<1>7. CASE EndSpin(q)
  BY <1>7, <1>a, <1>d DEF EndSpin, Goto, LockInv, AdmitInv, Holds
<1>8. CASE CondWait(q)
  BY <1>8, <1>a, <1>b, <1>d DEF CondWait, Release, Goto, LockInv, AdmitInv, Holds
<1>9. CASE SpuriousWakeup(q)
  BY <1>9, <1>a, <1>d DEF SpuriousWakeup, Goto, LockInv, AdmitInv, Holds
<1>10. CASE Relock(q)
  BY <1>10, <1>a, <1>b, <1>d, ConstantsAssumption
     DEF Relock, Acquire, Goto, LockInv, AdmitInv, Holds
<1>11. CASE InTime(q)
  BY <1>11, <1>a, <1>d DEF InTime, Goto, LockInv, AdmitInv, Holds
<1>12. CASE TimeOut(q) \/ Decline(q)
  <2>1. Holds(q) /\ pc[q] # "work" /\ pc[q] # "waiting" /\ Release(q)
    BY <1>12 DEF TimeOut, Decline, Holds
  <2>2. /\ pc'[q] \in {"timedout", "declined"}
        /\ \A p \in Requests \ {q} : pc'[p] = pc[p] \/ (pc[p] = "waiting" /\ pc'[p] = "relock")
    <3>1. PICK label \in {"timedout", "declined"} : SignalAndGoto(q, label)
      BY <1>12 DEF TimeOut, Decline
    <3>2. label \in Labels
      BY DEF Labels, Finished
    <3> QED
      BY <2>1, <3>1, <3>2, SignalEffect
  <2> QED
    BY <1>a, <1>b, <1>d, <2>1, <2>2, OneHolder DEF Release, LockInv, AdmitInv, Holds
<1> QED
  BY <1>2, <1>3, <1>4, <1>5, <1>6, <1>7, <1>8, <1>9, <1>10, <1>11, <1>12

-----------------------------------------------------------------------------
(* The number of working readers and writers when q starts or finishes. *)
One(q, op, f) == IF Op(q) = op /\ File(q) = f THEN 1 ELSE 0

(* A thread that starts to work is one more of its kind. *)
LEMMA WorkerJoins ==
    ASSUME NEW q \in Requests, req' = req, pc[q] # "work", pc'[q] = "work",
           \A p \in Requests \ {q} : pc'[p] = pc[p], NEW f
    PROVE  /\ Cardinality(Readers(f)') = Cardinality(Readers(f)) + One(q, READ, f)
           /\ Cardinality(Writers(f)') = Cardinality(Writers(f)) + One(q, WRITE, f)
<1>1. q \notin Readers(f) /\ q \notin Writers(f)
  BY DEF Readers, Writers
<1>2. Readers(f)' = IF Op(q) = READ /\ File(q) = f THEN Readers(f) \cup {q} ELSE Readers(f)
  BY DEF Readers, File, Op
<1>3. Writers(f)' = IF Op(q) = WRITE /\ File(q) = f THEN Writers(f) \cup {q} ELSE Writers(f)
  BY DEF Writers, File, Op
<1>4. /\ Cardinality(Readers(f) \cup {q}) = Cardinality(Readers(f)) + 1
      /\ Cardinality(Writers(f) \cup {q}) = Cardinality(Writers(f)) + 1
  BY Zenon, <1>1, WorkersFinite, FS_AddElement
<1> QED
  BY <1>2, <1>3, <1>4, WorkersFinite DEF One

(* A thread that finishes its work is one less of its kind. *)
LEMMA WorkerLeaves ==
    ASSUME NEW q \in Requests, req' = req, pc[q] = "work", pc'[q] # "work",
           \A p \in Requests \ {q} : pc'[p] = "work" <=> pc[p] = "work", NEW f
    PROVE  /\ Cardinality(Readers(f)') = Cardinality(Readers(f)) - One(q, READ, f)
           /\ Cardinality(Writers(f)') = Cardinality(Writers(f)) - One(q, WRITE, f)
<1>1. /\ q \in Readers(f) <=> Op(q) = READ /\ File(q) = f
      /\ q \in Writers(f) <=> Op(q) = WRITE /\ File(q) = f
  BY DEF Readers, Writers
<1>2. Readers(f)' = Readers(f) \ {q}
  BY DEF Readers, File, Op
<1>3. Writers(f)' = Writers(f) \ {q}
  BY DEF Writers, File, Op
<1>4. /\ Cardinality(Readers(f) \ {q})
            = IF q \in Readers(f) THEN Cardinality(Readers(f)) - 1 ELSE Cardinality(Readers(f))
      /\ Cardinality(Writers(f) \ {q})
            = IF q \in Writers(f) THEN Cardinality(Writers(f)) - 1 ELSE Cardinality(Writers(f))
  BY Zenon, WorkersFinite, FS_RemoveElement
<1> QED
  BY <1>1, <1>2, <1>3, <1>4, WorkersFinite DEF One

(* The steps that start an operation. *)
LEMMA MonitorStart ==
    ASSUME MonitorInv, Types', NEW q \in Requests,
           StartRead(q) \/ StartWrite(q) \/ StartDelete(q)
    PROVE  MonitorInv'
<1> USE DEF MonitorInv
<1>a. /\ pc \in [Requests -> Labels] /\ lock \in [Files -> Requests \cup {NoOne}]
      /\ readercount \in [Files -> Int] /\ writercount \in [Files -> Int]
      /\ concurrent_access \in [Files -> Int]
  BY SMTT(30) DEF Types
<1>b. \A p \in Requests : File(p) \in Files /\ Op(p) \in {READ, WRITE, DELETE}
  BY Zenon DEF Types, File, Op
<1>c. /\ pc[q] = "kill" /\ ~deleted[File(q)] /\ pc' = [pc EXCEPT ![q] = "work"]
      /\ req' = req /\ deleted' = deleted
  BY DEF StartRead, StartWrite, StartDelete, Goto, fileVars
<1>d. \A p \in Requests : File(p)' = File(p) /\ Op(p)' = Op(p)
  BY <1>c DEF File, Op
<1>e. Holds(q) /\ ~MustWait(q)
  BY <1>c DEF Holds, AdmitInv
<1>1. LockInv'
  <2>1. \/ lock' = lock /\ Op(q) = DELETE
        \/ lock' = [lock EXCEPT ![File(q)] = NoOne] /\ Op(q) \in {READ, WRITE}
    BY DEF StartRead, StartWrite, StartDelete, Release
  <2> QED
    BY <1>a, <1>b, <1>c, <1>d, <1>e, <2>1, OneHolder DEF LockInv, Holds, READ, WRITE, DELETE
<1>2. \A f \in Files :
        /\ readercount'[f] = readercount[f] + One(q, READ, f)
        /\ writercount'[f] = writercount[f] + One(q, WRITE, f)
        /\ concurrent_access'[f] = concurrent_access[f] + One(q, READ, f) + One(q, WRITE, f)
  BY <1>a, <1>b DEF StartRead, StartWrite, StartDelete, fileVars, One, READ, WRITE, DELETE
<1>3. CountInv'
  <2>1. \A f : /\ Cardinality(Readers(f)') = Cardinality(Readers(f)) + One(q, READ, f)
               /\ Cardinality(Writers(f)') = Cardinality(Writers(f)) + One(q, WRITE, f)
    BY <1>a, <1>c, WorkerJoins
  <2>2. \A f \in Files : One(q, READ, f) \in Int /\ One(q, WRITE, f) \in Int
    BY DEF One
  <2> QED
    BY <1>2, <2>1, <2>2, <1>a DEF CountInv
<1>4. LimitInv'
  BY <1>a, <1>b, <1>2, <1>e, ConstantsAssumption
     DEF CountInv, LimitInv, MustWait, ReadMustWait, WriteMustWait, One, READ, WRITE
<1>5. LiveInv'
  BY <1>a, <1>c, <1>d DEF LiveInv
<1>6. AdmitInv'
  <2>1. \A p \in Requests : p # q /\ Holds(p) => File(p) # File(q)
    BY <1>e, OneHolder
  <2>2. \A f \in Files : f # File(q) => /\ readercount'[f] = readercount[f]
                                        /\ writercount'[f] = writercount[f]
                                        /\ concurrent_access'[f] = concurrent_access[f]
    BY <1>a, <1>2 DEF One
  <2>3. \A p \in Requests \ {q} : Holds(p) => /\ MustWait(p)' = MustWait(p)
                                              /\ DeleteMustWait(File(p))' = DeleteMustWait(File(p))
    BY <1>b, <1>d, <2>1, <2>2 DEF MustWait, ReadMustWait, WriteMustWait, DeleteMustWait
  <2>4. Op(q) = DELETE => ~DeleteMustWait(File(q))'
    BY <1>a, <1>b, <1>d, <1>e, <1>2 DEF MustWait, DeleteMustWait, One, READ, WRITE, DELETE
  <2> QED
    BY <1>a, <1>c, <1>d, <2>3, <2>4 DEF AdmitInv, Holds
<1> QED
  BY <1>1, <1>3, <1>4, <1>5, <1>6

(* A deleter at work has the file to itself. *)
LEMMA DeleterAlone ==
    ASSUME MonitorInv, NEW q \in Requests, pc[q] = "work", Op(q) = DELETE,
           NEW p \in Requests, pc[p] = "work", File(p) = File(q)
    PROVE  p = q
<1>1. CASE Op(p) = DELETE
  BY <1>1, OneHolder DEF MonitorInv, Holds
<1>2. CASE Op(p) # DELETE
  <2>1. File(q) \in Files /\ Op(p) \in {READ, WRITE, DELETE}
    BY DEF MonitorInv, Types, File, Op
  <2>2. p \in Readers(File(q)) \/ p \in Writers(File(q))
    BY <1>2, <2>1 DEF Readers, Writers
  <2>3. readercount[File(q)] > 0 \/ writercount[File(q)] > 0
    BY <2>1, <2>2, WorkersFinite DEF MonitorInv, CountInv
  <2> QED
    BY <2>3 DEF MonitorInv, AdmitInv, DeleteMustWait
<1> QED
  BY <1>1, <1>2

(* The steps that finish an operation. *)
LEMMA MonitorFinish ==
    ASSUME MonitorInv, Types', NEW q \in Requests,
           FinishRead(q) \/ FinishWrite(q) \/ FinishDelete(q)
    PROVE  MonitorInv'
<1> USE DEF MonitorInv
<1>a. /\ pc \in [Requests -> Labels] /\ lock \in [Files -> Requests \cup {NoOne}]
      /\ readercount \in [Files -> Int] /\ writercount \in [Files -> Int]
      /\ concurrent_access \in [Files -> Int] /\ deleted \in [Files -> BOOLEAN]
  BY SMTT(30) DEF Types
<1>b. \A p \in Requests : File(p) \in Files /\ Op(p) \in {READ, WRITE, DELETE}
  BY Zenon DEF Types, File, Op
<1>c. pc[q] = "work" /\ req' = req /\ SignalAndGoto(q, "completed")
  BY DEF FinishRead, FinishWrite, FinishDelete
<1>d. \A p \in Requests : File(p)' = File(p) /\ Op(p)' = Op(p)
  BY <1>c DEF File, Op
<1>e. /\ pc'[q] = "completed"
      /\ \A p \in Requests \ {q} : pc'[p] = pc[p] \/ (pc[p] = "waiting" /\ pc'[p] = "relock")
  <2>1. "completed" \in Labels
    BY DEF Labels, Finished
  <2> QED
    BY <1>c, <2>1, SignalEffect
<1>f. \A p \in Requests : Holds(p)' => p # q /\ Holds(p) /\ pc'[p] = pc[p]
  BY <1>d, <1>e DEF Holds
<1>g. \A p \in Requests : Holds(p) /\ p # q => File(p) # File(q)
  <2>1. CASE Op(q) = DELETE
    BY <2>1, <1>c, OneHolder DEF Holds
  <2>2. CASE Op(q) # DELETE
    <3>1. lock[File(q)] = NoOne
      BY <2>2 DEF FinishRead, FinishWrite, FinishDelete
    <3> QED
      BY <3>1, ConstantsAssumption DEF LockInv
  <2> QED
    BY <2>1, <2>2
<1>1. LockInv'
  <2>1. \A f \in Files : f # File(q) => lock'[f] = lock[f]
    BY <1>a, <1>b DEF FinishRead, FinishWrite, FinishDelete, Release
  <2> QED
    BY <1>b, <1>d, <1>f, <1>g, <2>1 DEF LockInv
<1>2. \A f \in Files :
        /\ readercount'[f] = readercount[f] - One(q, READ, f)
        /\ writercount'[f] = writercount[f] - One(q, WRITE, f)
        /\ concurrent_access'[f] = concurrent_access[f] - One(q, READ, f) - One(q, WRITE, f)
  BY <1>a, <1>b DEF FinishRead, FinishWrite, FinishDelete, One, READ, WRITE, DELETE
<1>3. \A f \in Files : One(q, READ, f) \in {0, 1} /\ One(q, WRITE, f) \in {0, 1}
  BY DEF One
<1>4. CountInv'
  <2>1. \A f : /\ Cardinality(Readers(f)') = Cardinality(Readers(f)) - One(q, READ, f)
               /\ Cardinality(Writers(f)') = Cardinality(Writers(f)) - One(q, WRITE, f)
    BY <1>c, <1>e, WorkerLeaves
  <2> QED
    BY <1>2, <1>3, <2>1, <1>a DEF CountInv
<1>5. LimitInv'
  BY <1>2, <1>3, <1>a, ConstantsAssumption DEF LimitInv
<1>6. LiveInv'
  <2>1. \A f \in Files : deleted'[f] => deleted[f] \/ (f = File(q) /\ Op(q) = DELETE)
    BY SMTT(30), <1>a, <1>b DEF FinishRead, FinishWrite, FinishDelete
  <2> QED
    BY <1>b, <1>c, <1>d, <1>e, <2>1, DeleterAlone DEF LiveInv
<1>7. AdmitInv'
  <2>1. \A f \in Files : f # File(q) => /\ readercount'[f] = readercount[f]
                                        /\ writercount'[f] = writercount[f]
                                        /\ concurrent_access'[f] = concurrent_access[f]
    BY SMTT(30), <1>a, <1>2 DEF One
  <2>2. \A p \in Requests : Holds(p) /\ p # q =>
            /\ MustWait(p)' = MustWait(p)
            /\ DeleteMustWait(File(p))' = DeleteMustWait(File(p))
    BY <1>b, <1>d, <1>g, <2>1 DEF MustWait, ReadMustWait, WriteMustWait, DeleteMustWait
  <2>3. \A p \in Requests : pc'[p] = "kill" \/ (pc'[p] = "work" /\ Op(p) = DELETE) => Holds(p)'
    BY <1>d DEF Holds
  <2> QED
    BY <1>d, <1>f, <2>2, <2>3 DEF AdmitInv
<1> QED
  BY <1>1, <1>4, <1>5, <1>6, <1>7

(* Every step keeps the monitor invariant. *)
LEMMA MonitorStep ==
    ASSUME MonitorInv, [Next]_vars PROVE MonitorInv'
<1>1. Types'
  BY TypeStep DEF MonitorInv
<1>2. ASSUME NEW q \in Requests, RequestStep(q) PROVE MonitorInv'
  BY <1>1, <1>2, MonitorQuiet, MonitorStart, MonitorFinish DEF RequestStep
<1>3. CASE JoinAll \/ Tick \/ UNCHANGED vars
  <2>1. UNCHANGED <<req, pc, lock, fileVars>>
    BY <1>3 DEF JoinAll, Tick, vars
  <2>2. UNCHANGED <<concurrent_access, readercount, writercount, deleted>>
    BY <2>1 DEF fileVars
  <2>3. CountInv' /\ LimitInv' /\ LiveInv'
    BY SMTT(30), <2>1, QuietStep
  <2>4. LockInv' /\ AdmitInv'
    BY <2>1, <2>2 DEF MonitorInv, LockInv, AdmitInv, Holds, File, Op, MustWait, ReadMustWait,
         WriteMustWait, DeleteMustWait
  <2> QED
    BY <1>1, <2>3, <2>4 DEF MonitorInv
<1> QED
  BY <1>2, <1>3, StepCases

(* The monitor invariant holds in every state. *)
THEOREM MonitorCorrect == Spec => []MonitorInv
  BY MonitorInit, MonitorStep, PTL DEF Spec

-----------------------------------------------------------------------------
(* Type correctness, with counters that never become negative. *)
THEOREM TypeCorrect == Spec => []TypeOK
<1>1. MonitorInv => TypeOK
  <2> SUFFICES ASSUME MonitorInv PROVE TypeOK
    OBVIOUS
  <2>1. \A f \in Files : /\ readercount[f] \in Nat /\ writercount[f] \in Nat
                         /\ concurrent_access[f] \in Nat
    BY WorkersFinite DEF MonitorInv, CountInv
  <2> QED
    BY <2>1 DEF MonitorInv, Types, TypeOK
<1> QED
  BY <1>1, MonitorCorrect, PTL

(* At most c readers and writers, at most one of them a writer, use a file  *)
(* at any time.                                                            *)
THEOREM AccessLimited == Spec => []AccessLimit
<1>1. MonitorInv => AccessLimit
  <2> SUFFICES ASSUME MonitorInv, NEW f \in Files
               PROVE  /\ Cardinality(Readers(f) \cup Writers(f)) <= c
                      /\ Cardinality(Writers(f)) <= 1
    BY DEF AccessLimit
  <2>1. Cardinality(Readers(f) \cup Writers(f)) = Cardinality(Readers(f)) + Cardinality(Writers(f))
    <3>1. Cardinality(Readers(f) \cup Writers(f))
            = Cardinality(Readers(f)) + Cardinality(Writers(f)) - Cardinality({})
      BY WorkersFinite, FS_Union
    <3> QED
      BY <3>1, WorkersFinite, FS_EmptySet
  <2> QED
    BY <2>1 DEF MonitorInv, CountInv, LimitInv
<1> QED
  BY <1>1, MonitorCorrect, PTL

(* A deleter at work is alone with its file. *)
THEOREM DeleteExclusive == Spec => []DeleteIsExclusive
<1>1. MonitorInv => DeleteIsExclusive
  BY DeleterAlone DEF DeleteIsExclusive, Readers, Writers, Deleters
<1> QED
  BY <1>1, MonitorCorrect, PTL

(* Nobody works on a deleted file. *)
THEOREM DeletedUnused == Spec => []DeletedIsUnused
<1>1. MonitorInv => DeletedIsUnused
  BY DEF MonitorInv, LiveInv, DeletedIsUnused, Readers, Writers, Deleters
<1> QED
  BY <1>1, MonitorCorrect, PTL

-----------------------------------------------------------------------------
(* The refinement: what the users see of a thread is its stage.            *)
Stages == [q \in Requests |-> Stage(q)]

(* The stage of a thread, by the place where it is. *)
LEMMA StageOf ==
    ASSUME NEW q \in Requests
    PROVE  /\ Stages[q] = "busy" <=> pc[q] = "work"
           /\ pc[q] = "completed" => Stages[q] = "completed"
           /\ pc[q] = "declined" => Stages[q] = "declined"
           /\ pc[q] = "timedout" => Stages[q] = "cancelled"
           /\ pc[q] \notin Finished \cup {"work"} => Stages[q] = "pending"
BY DEF Stages, Stage, Finished

(* When one thread moves, one stage changes. *)
LEMMA StageChange ==
    ASSUME NEW q \in Requests, NEW label, Stage(q)' = label,
           \A p \in Requests \ {q} : pc'[p] = pc[p] \/ (pc[p] = "waiting" /\ pc'[p] = "relock")
    PROVE  Stages' = [Stages EXCEPT ![q] = label]
<1>1. \A p \in Requests \ {q} : Stage(p)' = Stage(p)
  BY DEF Stage
<1> QED
  BY Zenon, <1>1 DEF Stages

(* The busy requests of the service are the working threads. *)
LEMMA BusyWorkers ==
    ASSUME NEW f
    PROVE  Service!Busy(f) = Readers(f) \cup Writers(f) \cup Deleters(f)
                             \cup {q \in Requests : File(q) = f /\ pc[q] = "work"
                                                    /\ Op(q) \notin {READ, WRITE, DELETE}}
BY StageOf DEF Service!Busy, Stages, Readers, Writers, Deleters, File, Op

(* The service counts as this module does. *)
LEMMA SameCardinality ==
    ASSUME NEW S PROVE Service!Cardinality(S) = Cardinality(S)
BY DEF Cardinality, Service!Cardinality

(* An operation starts only when the service may admit it. *)
LEMMA StartAdmissible ==
    ASSUME MonitorInv, NEW q \in Requests, pc[q] = "kill"
    PROVE  Service!Admissible(q)
<1> DEFINE f == File(q)
<1>1. f \in Files /\ ~MustWait(q) /\ Holds(q)
  BY DEF MonitorInv, Types, AdmitInv, Holds, File
<1>2. \A p \in Requests : Op(p) \in {READ, WRITE, DELETE}
  BY DEF MonitorInv, Types, Op
<1>3. Deleters(f) = {}
  BY <1>1, OneHolder DEF MonitorInv, Deleters, Holds
<1>4. Service!Busy(f) = Readers(f) \cup Writers(f)
  BY <1>2, <1>3, BusyWorkers
<1>5. Cardinality(Readers(f) \cup Writers(f)) = concurrent_access[f]
  <2>1. Cardinality(Readers(f) \cup Writers(f))
          = Cardinality(Readers(f)) + Cardinality(Writers(f)) - Cardinality({})
    BY WorkersFinite, FS_Union
  <2> QED
    BY <2>1, <1>1, WorkersFinite, FS_EmptySet DEF MonitorInv, CountInv
<1>6. Op(q) # DELETE => Cardinality(Service!Busy(f)) < c
  <2>1. concurrent_access[f] \in Int
    BY <1>1 DEF MonitorInv, Types
  <2> QED
    BY <2>1, <1>1, <1>2, <1>4, <1>5, ConstantsAssumption DEF MustWait, ReadMustWait, WriteMustWait
<1>7. Op(q) = WRITE => Writers(f) = {}
  <2>1. writercount[f] = Cardinality(Writers(f))
    BY <1>1 DEF MonitorInv, CountInv
  <2> QED
    BY <2>1, <1>1, WorkersFinite DEF MustWait, WriteMustWait
<1>8. Op(q) = DELETE => Service!Busy(f) = {}
  <2>1. readercount[f] = Cardinality(Readers(f)) /\ writercount[f] = Cardinality(Writers(f))
    BY <1>1 DEF MonitorInv, CountInv
  <2> QED
    BY <2>1, <1>1, <1>4, WorkersFinite DEF MustWait, DeleteMustWait
<1>9. \A p \in Service!Busy(f) : Op(p) # DELETE /\ (Op(q) = WRITE => Op(p) # WRITE)
  BY <1>4, <1>7 DEF Readers, Writers, READ, WRITE, DELETE
<1> QED
  BY <1>6, <1>8, <1>9, SameCardinality
     DEF Service!Admissible, File, Op, Service!WRITE, Service!DELETE, WRITE, DELETE

(* Every step is a step of the service or leaves it unchanged. *)
LEMMA ServiceStep ==
    ASSUME MonitorInv, [Next]_vars PROVE [Service!Next]_(Service!vars)
<1>a. /\ pc \in [Requests -> Labels] /\ deleted \in [Files -> BOOLEAN]
      /\ \A q \in Requests : File(q) \in Files /\ Op(q) \in {READ, WRITE, DELETE}
  BY DEF MonitorInv, Types, File, Op
<1>1. ASSUME UNCHANGED <<req, deleted>>, \A p \in Requests : Stage(p)' = Stage(p)
      PROVE  UNCHANGED Service!vars
  BY <1>1 DEF Service!vars
<1>2. ASSUME NEW q \in Requests, RequestStep(q) PROVE [Service!Next]_(Service!vars)
  <2>1. CASE StartRead(q) \/ StartWrite(q) \/ StartDelete(q)
    <3>1. /\ UNCHANGED <<req, deleted>> /\ pc[q] = "kill" /\ ~deleted[File(q)]
          /\ pc' = [pc EXCEPT ![q] = "work"]
      BY <2>1 DEF StartRead, StartWrite, StartDelete, Goto, fileVars
    <3>2. Stages[q] = "pending" /\ Stages' = [Stages EXCEPT ![q] = "busy"]
      <4>1. Stage(q)' = "busy"
        BY <3>1, <1>a DEF Stage
      <4> QED
        BY <3>1, <4>1, <1>a, StageOf, StageChange DEF Finished
    <3>3. Service!Serve(q)
      BY <3>1, <3>2, StartAdmissible DEF Service!Serve, Stages, File
    <3> QED
      BY <3>3 DEF Service!Next
  <2>2. CASE FinishRead(q) \/ FinishWrite(q) \/ FinishDelete(q) \/ Decline(q) \/ TimeOut(q)
    <3>1. PICK label \in Finished :
            /\ SignalAndGoto(q, label)
            /\ label = "completed" => pc[q] = "work"
            /\ label # "completed" => pc[q] \in {"test", "kill"} /\ UNCHANGED deleted
            /\ label = "declined" => deleted[File(q)]
      BY Zenon, <2>2 DEF FinishRead, FinishWrite, FinishDelete, Decline, TimeOut, Finished, fileVars
    <3>2. label \in Labels /\ pc[q] # "waiting"
      BY <3>1 DEF Labels, Finished
    <3>3. /\ pc'[q] = label
          /\ \A p \in Requests \ {q} :
                pc'[p] = pc[p] \/ (pc[p] = "waiting" /\ pc'[p] = "relock")
      BY <3>1, <3>2, SignalEffect DEF MonitorInv
    <3>4. Stage(q)' = IF label = "timedout" THEN "cancelled" ELSE label
      BY <3>1, <3>3 DEF Stage, Finished
    <3>5. Stages' = [Stages EXCEPT ![q] = IF label = "timedout" THEN "cancelled" ELSE label]
      BY <3>3, <3>4, StageChange
    <3>6. req' = req
      BY Zenon, <2>2 DEF FinishRead, FinishWrite, FinishDelete, Decline, TimeOut
    <3>7. CASE label = "completed"
      <4>1. Stages[q] = "busy"
        BY <3>1, <3>7, StageOf
      <4>2. deleted' = [deleted EXCEPT ![File(q)] = @ \/ Op(q) = DELETE]
        <5>1. CASE FinishDelete(q)
          BY Zenon, <5>1, <1>a DEF FinishDelete
        <5>2. CASE FinishRead(q) \/ FinishWrite(q)
          BY <5>2, <1>a DEF FinishRead, FinishWrite, READ, WRITE, DELETE
        <5>3. CASE Decline(q) \/ TimeOut(q)
          BY <5>3, <3>1, <3>7 DEF Decline, TimeOut
        <5> QED
          BY <2>2, <5>1, <5>2, <5>3
      <4>3. Service!Complete(q)
        BY <3>5, <3>6, <3>7, <4>1, <4>2 DEF Service!Complete, Stages, File, Op, Service!DELETE, DELETE
      <4> QED
        BY <4>3 DEF Service!Next
    <3>8. CASE label = "declined"
      <4>1. Stages[q] = "pending" /\ deleted' = deleted /\ deleted[File(q)]
        BY <3>1, <3>8, StageOf DEF Finished
      <4>2. Service!Decline(q)
        BY <3>5, <3>6, <3>8, <4>1 DEF Service!Decline, Stages, File
      <4> QED
        BY <4>2 DEF Service!Next
    <3>9. CASE label = "timedout"
      <4>1. Stages[q] = "pending" /\ deleted' = deleted
        BY <3>1, <3>9, StageOf DEF Finished
      <4>2. Service!GiveUp(q)
        BY <3>5, <3>6, <3>9, <4>1 DEF Service!GiveUp, Stages
      <4> QED
        BY <4>2 DEF Service!Next
    <3> QED
      BY <3>1, <3>7, <3>8, <3>9 DEF Finished
  <2>3. CASE \/ Launch(q) \/ LockAndFork(q) \/ Withdraw(q) \/ CheckAnnounced(q) \/ EndSpin(q)
             \/ CondWait(q) \/ SpuriousWakeup(q) \/ Relock(q) \/ InTime(q)
    <3>1. UNCHANGED <<req, fileVars>>
      BY <2>3 DEF Launch, LockAndFork, Withdraw, CheckAnnounced, EndSpin, CondWait, SpuriousWakeup,
           Relock, InTime
    <3>2. /\ pc[q] \notin Finished \cup {"work"}
          /\ \E label \in Labels \ (Finished \cup {"work"}) : pc' = [pc EXCEPT ![q] = label]
      BY <2>3 DEF Launch, Due, LockAndFork, Withdraw, CheckAnnounced, EndSpin, CondWait,
           SpuriousWakeup, Relock, InTime, Goto, Labels, Finished
    <3>3. \A p \in Requests : Stage(p)' = Stage(p)
      BY <3>2, <1>a DEF Stage, Finished
    <3> QED
      BY <3>1, <3>3, <1>1 DEF fileVars
  <2>4. CASE LaunchFails(q) \/ FireBullet(q)
    BY <2>4, <1>1 DEF LaunchFails, FireBullet, fileVars, Stage
  <2> QED
    BY <1>2, <2>1, <2>2, <2>3, <2>4 DEF RequestStep
<1>3. CASE JoinAll \/ Tick \/ UNCHANGED vars
  BY <1>3, <1>1 DEF JoinAll, Tick, vars, fileVars, Stage
<1> QED
  BY <1>2, <1>3, StepCases

(* The threads implement the service: every step of process_req, main, the  *)
(* clock and the bullets is a step of FileService or leaves it unchanged.   *)
THEOREM Refinement == Spec => ImplementsService
<1>1. Init => Service!Init
  <2> SUFFICES ASSUME Init PROVE Service!Init
    OBVIOUS
  <2>1. req \in [Requests -> [file : Files, op : {READ, WRITE, DELETE}, time : Nat]]
    BY Zenon, ConstantsAssumption DEF Init
  <2>2. [q \in Requests |-> Stage(q)] = [q \in Requests |-> "pending"]
    BY DEF Init, Stage
  <2> QED
    BY <2>1, <2>2 DEF Init, Service!Init, READ, WRITE, DELETE, Service!READ, Service!WRITE,
         Service!DELETE
<1> QED
  BY <1>1, ServiceStep, MonitorCorrect, PTL DEF Spec, ImplementsService, Service!Spec

=============================================================================
