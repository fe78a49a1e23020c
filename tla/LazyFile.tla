------------------------------ MODULE LazyFile ------------------------------
(***************************************************************************)
(* LAZY, the simulated file manager of concurrency/partA.c.                *)
(*                                                                         *)
(* main launches one thread per user request in the order (request time,   *)
(* operation).  Every thread runs process_req: it takes the lock of its    *)
(* file, forks a "bullet" process that will print the cancellation message *)
(* unless it is killed first, waits on the file's condition variable until *)
(* its operation may run, and then serves, declines or silently drops the  *)
(* request.                                                                *)
(*                                                                         *)
(* Time is in whole seconds, as time(NULL) reports it.  sleep and the      *)
(* scheduler may delay a thread for any longer time, so Tick is always     *)
(* possible; past Horizon every deadline has passed and later instants     *)
(* need not be told apart.                                                 *)
(***************************************************************************)
EXTENDS Integers, FiniteSets

CONSTANTS
    Requests,           \* the user requests main has read, one thread each
    Files,              \* the files, requests[i].fileid
    Times,              \* the request times that the input may name
    Garbage,            \* what malloc may leave in time_requests
    Faults,             \* the system calls that may fail: "fork", "create"
    SpuriousWakeups,    \* may pthread_cond_wait return without a signal?
    c, T, r, w, d,      \* limit, patience and durations read by main
    SLOTS,              \* REQUEST_TIME_ARRAY_SIZE
    Horizon,            \* the last instant that is told apart
    NoOne               \* the owner of a free mutex

READ == 1
WRITE == 2
DELETE == 3

ASSUME ConstantsAssumption ==
    /\ IsFiniteSet(Requests)
    /\ NoOne \notin Requests
    /\ Times \subseteq Nat
    /\ Garbage \subseteq Int
    /\ Faults \subseteq {"fork", "create"}
    /\ SpuriousWakeups \in BOOLEAN
    /\ c \in Nat \ {0}
    /\ T \in Nat \ {0}
    /\ r \in Nat
    /\ w \in Nat
    /\ d \in Nat
    /\ SLOTS \in Nat \ {0}
    /\ Horizon \in Nat
    /\ \A t \in Times : t + T <= Horizon

VARIABLES
    req,                \* [Requests -> request], the input, never changed
    now,                \* time(NULL) - start_time
    main,               \* what the main thread is doing
    pc,                 \* where the thread of each request is
    wake,               \* when the last sleep of the thread is over
    bullet,             \* the child process of each request
    bulletAt,           \* when the sleep of that child is over
    lock,               \* the owner of each file's mutex
    concurrent_access, readercount, writercount, deleted, time_requests

fileVars == <<concurrent_access, readercount, writercount, deleted>>
vars == <<req, now, main, pc, wake, bullet, bulletAt, lock, fileVars, time_requests>>

-----------------------------------------------------------------------------
(* Where a thread can be.  A thread that waits on the condition variable is *)
(* "waiting"; once signalled it is at "relock", where it still needs the    *)
(* mutex.                                                                   *)
Finished == {"completed", "declined", "timedout"}
Labels == {"idle", "created", "forked", "spin_unlocked", "spin_locked",
           "relock", "test", "waiting", "kill", "work"} \cup Finished

File(q) == req[q].file
Op(q) == req[q].op
Slot(q) == req[q].time % SLOTS
Waiters(f) == {q \in Requests : File(q) = f /\ pc[q] = "waiting"}

(* The end of a sleep of s seconds that starts now. *)
After(s) == IF now + s < Horizon THEN now + s ELSE Horizon

Init ==
    /\ req \in [Requests -> [file : Files, op : {READ, WRITE, DELETE}, time : Times]]
    /\ now = 0
    /\ main = "launching"
    /\ pc = [q \in Requests |-> "idle"]
    /\ wake = [q \in Requests |-> 0]
    /\ bullet = [q \in Requests |-> "none"]
    /\ bulletAt = [q \in Requests |-> 0]
    /\ lock = [f \in Files |-> NoOne]
    /\ concurrent_access = [f \in Files |-> 0]
    /\ readercount = [f \in Files |-> 0]
    /\ writercount = [f \in Files |-> 0]
    /\ deleted = [f \in Files |-> FALSE]
    /\ time_requests \in [Files -> [0 .. SLOTS - 1 -> Garbage]]

-----------------------------------------------------------------------------
(* main                                                                    *)

(* compareByRequestTime: a is not after b.  qsort leaves the order of equal *)
(* requests open.                                                          *)
NotAfter(a, b) ==
    \/ req[a].time < req[b].time
    \/ req[a].time = req[b].time /\ Op(a) <= Op(b)

(* q is the request the launching loop has come to, and its time has come. *)
Due(q) ==
    /\ main = "launching"
    /\ pc[q] = "idle"
    /\ \A p \in Requests : pc[p] = "idle" => NotAfter(q, p)
    /\ now >= req[q].time

(* Mutation: writes are not announced. *)
Announce_ReadsOnly(q) ==
    time_requests' =
        IF Op(q) < WRITE
        THEN [time_requests EXCEPT ![File(q)][Slot(q)] = @ + 1]
        ELSE time_requests

(* Reads and writes are announced in the slot of their request time. *)
Announce(q) ==
    time_requests' =
        IF Op(q) < DELETE
        THEN [time_requests EXCEPT ![File(q)][Slot(q)] = @ + 1]
        ELSE time_requests

Launch(q) ==
    /\ Due(q)
    /\ Announce(q)
    /\ pc' = [pc EXCEPT ![q] = "created"]
    /\ wake' = [wake EXCEPT ![q] = After(1)]
    /\ UNCHANGED <<req, now, main, bullet, bulletAt, lock, fileVars>>

(* pthread_create fails: main returns and every thread ends with it. *)
LaunchFails(q) ==
    /\ "create" \in Faults
    /\ Due(q)
    /\ Announce(q)
    /\ main' = "failed"
    /\ UNCHANGED <<req, now, pc, wake, bullet, bulletAt, lock, fileVars>>

JoinAll ==
    /\ main = "launching"
    /\ \A q \in Requests : pc[q] \in Finished
    /\ main' = "done"
    /\ UNCHANGED <<req, now, pc, wake, bullet, bulletAt, lock, fileVars, time_requests>>

-----------------------------------------------------------------------------
(* process_req: what its three branches share                              *)

Goto(q, label) == pc' = [pc EXCEPT ![q] = label]

(* pthread_cond_signal by q, which then goes on at label: one waiter of the *)
(* file, if there is any, leaves pthread_cond_wait and queues for the lock. *)
SignalAndGoto(q, label) ==
    LET f == File(q) IN
    \/ /\ Waiters(f) = {}
       /\ Goto(q, label)
    \/ \E v \in Waiters(f) : pc' = [pc EXCEPT ![q] = label, ![v] = "relock"]

Acquire(q) ==
    /\ lock[File(q)] = NoOne
    /\ lock' = [lock EXCEPT ![File(q)] = q]

Release(q) == lock' = [lock EXCEPT ![File(q)] = NoOne]

(* Mutation: the one second of sleep before the lock is gone. *)
LockAndFork_NoSleep(q) ==
    /\ pc[q] = "created"
    /\ Acquire(q)
    /\ Goto(q, "forked")
    /\ bullet' = [bullet EXCEPT ![q] = "armed"]
    /\ bulletAt' = [bulletAt EXCEPT ![q] = After(T - 1)]
    /\ UNCHANGED <<req, now, main, wake, fileVars, time_requests>>

(* After its one second of sleep the thread locks the file and forks the   *)
(* bullet.                                                                 *)
LockAndFork(q) ==
    /\ pc[q] = "created"
    /\ now >= wake[q]
    /\ Acquire(q)
    /\ Goto(q, "forked")
    /\ \/ /\ bullet' = [bullet EXCEPT ![q] = "armed"]
          /\ bulletAt' = [bulletAt EXCEPT ![q] = After(T - 1)]
       \/ /\ "fork" \in Faults
          /\ bullet' = [bullet EXCEPT ![q] = "unforked"]
          /\ UNCHANGED bulletAt
    /\ UNCHANGED <<req, now, main, wake, fileVars, time_requests>>

(* A read or write withdraws its announcement. *)
Withdraw(q) ==
    /\ pc[q] = "forked"
    /\ Op(q) < DELETE
    /\ time_requests' = [time_requests EXCEPT ![File(q)][Slot(q)] = @ - 1]
    /\ Goto(q, "test")
    /\ UNCHANGED <<req, now, main, wake, bullet, bulletAt, lock, fileVars>>

(* Mutations: one user too many, and readers that a deletion overlooks. *)
ReadMustWait_OffByOne(f) == concurrent_access[f] > c
DeleteMustWait_WritersOnly(f) == writercount[f] > 0

(* The conditions of the three pthread_cond_wait loops. *)
ReadMustWait(f) == concurrent_access[f] >= c
WriteMustWait(f) == writercount[f] > 0 \/ concurrent_access[f] >= c
DeleteMustWait(f) == readercount[f] > 0 \/ writercount[f] > 0

MustWait(q) ==
    \/ Op(q) = READ /\ ReadMustWait(File(q))
    \/ Op(q) = WRITE /\ WriteMustWait(File(q))
    \/ Op(q) = DELETE /\ DeleteMustWait(File(q))

CondWait(q) ==
    /\ pc[q] = "test"
    /\ MustWait(q)
    /\ Release(q)
    /\ Goto(q, "waiting")
    /\ UNCHANGED <<req, now, main, wake, bullet, bulletAt, fileVars, time_requests>>

SpuriousWakeup(q) ==
    /\ SpuriousWakeups
    /\ pc[q] = "waiting"
    /\ Goto(q, "relock")
    /\ UNCHANGED <<req, now, main, wake, bullet, bulletAt, lock, fileVars, time_requests>>

Relock(q) ==
    /\ pc[q] = "relock"
    /\ Acquire(q)
    /\ Goto(q, "test")
    /\ UNCHANGED <<req, now, main, wake, bullet, bulletAt, fileVars, time_requests>>

(* Mutation: one second of patience too many. *)
Late_OffByOne(q) == now - req[q].time > T

Late(q) == now - req[q].time >= T

(* Mutation: the thread that times out keeps the signal it was woken by. *)
TimeOut_NoSignal(q) ==
    /\ pc[q] = "test"
    /\ ~MustWait(q)
    /\ Late(q)
    /\ Goto(q, "timedout")
    /\ Release(q)
    /\ UNCHANGED <<req, now, main, wake, bullet, bulletAt, fileVars, time_requests>>


(* The user has lost patience: the thread leaves without a word, the bullet *)
(* prints the cancellation.                                                *)
TimeOut(q) ==
    /\ pc[q] = "test"
    /\ ~MustWait(q)
    /\ Late(q)
    /\ SignalAndGoto(q, "timedout")
    /\ Release(q)
    /\ UNCHANGED <<req, now, main, wake, bullet, bulletAt, fileVars, time_requests>>

(* The clock has been read in time; the bullet has not been killed yet. *)
InTime(q) ==
    /\ pc[q] = "test"
    /\ ~MustWait(q)
    /\ ~Late(q)
    /\ Goto(q, "kill")
    /\ UNCHANGED <<req, now, main, wake, bullet, bulletAt, lock, fileVars, time_requests>>

(* kill(bullet, 9).  A bullet that has printed is a zombie and stays what   *)
(* it is; after a failed fork the call is kill(-1, 9), which reaches every *)
(* other process of the user.                                              *)
Killed(q) ==
    LET targets == IF bullet[q] = "unforked" THEN Requests ELSE {q} IN
    [p \in Requests |-> IF p \in targets /\ bullet[p] = "armed"
                        THEN "killed" ELSE bullet[p]]

Decline(q) ==
    /\ pc[q] = "kill"
    /\ bullet' = Killed(q)
    /\ deleted[File(q)]
    /\ SignalAndGoto(q, "declined")
    /\ Release(q)
    /\ UNCHANGED <<req, now, main, wake, bulletAt, fileVars, time_requests>>

(* The operation starts.  A reader or writer is counted and unlocks; a      *)
(* deleter keeps the lock while it works.                                  *)
StartRead(q) ==
    /\ pc[q] = "kill"
    /\ Op(q) = READ
    /\ bullet' = Killed(q)
    /\ ~deleted[File(q)]
    /\ readercount' = [readercount EXCEPT ![File(q)] = @ + 1]
    /\ concurrent_access' = [concurrent_access EXCEPT ![File(q)] = @ + 1]
    /\ Release(q)
    /\ Goto(q, "work")
    /\ wake' = [wake EXCEPT ![q] = After(r)]
    /\ UNCHANGED <<req, now, main, bulletAt, writercount, deleted, time_requests>>

StartWrite(q) ==
    /\ pc[q] = "kill"
    /\ Op(q) = WRITE
    /\ bullet' = Killed(q)
    /\ ~deleted[File(q)]
    /\ writercount' = [writercount EXCEPT ![File(q)] = @ + 1]
    /\ concurrent_access' = [concurrent_access EXCEPT ![File(q)] = @ + 1]
    /\ Release(q)
    /\ Goto(q, "work")
    /\ wake' = [wake EXCEPT ![q] = After(w)]
    /\ UNCHANGED <<req, now, main, bulletAt, readercount, deleted, time_requests>>

(* Mutation: the deleter unlocks before it sleeps. *)
StartDelete_Unlocked(q) ==
    /\ pc[q] = "kill"
    /\ Op(q) = DELETE
    /\ bullet' = Killed(q)
    /\ ~deleted[File(q)]
    /\ Release(q)
    /\ Goto(q, "work")
    /\ wake' = [wake EXCEPT ![q] = After(d)]
    /\ UNCHANGED <<req, now, main, bulletAt, fileVars, time_requests>>

StartDelete(q) ==
    /\ pc[q] = "kill"
    /\ Op(q) = DELETE
    /\ bullet' = Killed(q)
    /\ ~deleted[File(q)]
    /\ Goto(q, "work")
    /\ wake' = [wake EXCEPT ![q] = After(d)]
    /\ UNCHANGED <<req, now, main, bulletAt, lock, fileVars, time_requests>>

(* The sleep is over: the thread takes the lock, leaves the counters,       *)
(* signals and unlocks, all while nobody else can touch the file.          *)
FinishRead(q) ==
    /\ pc[q] = "work"
    /\ Op(q) = READ
    /\ now >= wake[q]
    /\ lock[File(q)] = NoOne
    /\ readercount' = [readercount EXCEPT ![File(q)] = @ - 1]
    /\ concurrent_access' = [concurrent_access EXCEPT ![File(q)] = @ - 1]
    /\ SignalAndGoto(q, "completed")
    /\ UNCHANGED <<req, now, main, wake, bullet, bulletAt, lock, writercount, deleted, time_requests>>

(* Mutation: the writer leaves the readers' counter. *)
FinishWrite_WrongCounter(q) ==
    /\ pc[q] = "work"
    /\ Op(q) = WRITE
    /\ now >= wake[q]
    /\ lock[File(q)] = NoOne
    /\ readercount' = [readercount EXCEPT ![File(q)] = @ - 1]
    /\ concurrent_access' = [concurrent_access EXCEPT ![File(q)] = @ - 1]
    /\ SignalAndGoto(q, "completed")
    /\ UNCHANGED <<req, now, main, wake, bullet, bulletAt, lock, writercount, deleted, time_requests>>

FinishWrite(q) ==
    /\ pc[q] = "work"
    /\ Op(q) = WRITE
    /\ now >= wake[q]
    /\ lock[File(q)] = NoOne
    /\ writercount' = [writercount EXCEPT ![File(q)] = @ - 1]
    /\ concurrent_access' = [concurrent_access EXCEPT ![File(q)] = @ - 1]
    /\ SignalAndGoto(q, "completed")
    /\ UNCHANGED <<req, now, main, wake, bullet, bulletAt, lock, readercount, deleted, time_requests>>

FinishDelete(q) ==
    /\ pc[q] = "work"
    /\ Op(q) = DELETE
    /\ now >= wake[q]
    /\ deleted' = [deleted EXCEPT ![File(q)] = TRUE]
    /\ SignalAndGoto(q, "completed")
    /\ Release(q)
    /\ UNCHANGED <<req, now, main, wake, bullet, bulletAt, concurrent_access,
                   readercount, writercount, time_requests>>

-----------------------------------------------------------------------------
(* Only a deleter looks at the announcements.  If there are any it gives    *)
(* the lock back before it spins; a deleter that found none spins, if the   *)
(* slot fills after all, with the lock in its hands.                        *)

Announced(q) == time_requests[File(q)][Slot(q)] > 0

(* Mutation: the deleter keeps the lock while it waits for announced users. *)
CheckAnnounced_KeepsLock(q) ==
    /\ pc[q] = "forked"
    /\ Op(q) = DELETE
    /\ Goto(q, "spin_locked")
    /\ UNCHANGED <<req, now, main, wake, bullet, bulletAt, lock, fileVars, time_requests>>

CheckAnnounced(q) ==
    /\ pc[q] = "forked"
    /\ Op(q) = DELETE
    /\ \/ /\ Announced(q)
          /\ Release(q)
          /\ Goto(q, "spin_unlocked")
       \/ /\ ~Announced(q)
          /\ Goto(q, "spin_locked")
          /\ UNCHANGED lock
    /\ UNCHANGED <<req, now, main, wake, bullet, bulletAt, fileVars, time_requests>>

Spin(q) ==
    /\ pc[q] \in {"spin_unlocked", "spin_locked"}
    /\ Announced(q)
    /\ UNCHANGED vars

EndSpin(q) ==
    /\ ~Announced(q)
    /\ \/ pc[q] = "spin_unlocked" /\ Goto(q, "relock")
       \/ pc[q] = "spin_locked" /\ Goto(q, "test")
    /\ UNCHANGED <<req, now, main, wake, bullet, bulletAt, lock, fileVars, time_requests>>

-----------------------------------------------------------------------------
ProcessRead(q) ==
    /\ Op(q) = READ
    /\ \/ LockAndFork(q) \/ Withdraw(q) \/ CondWait(q) \/ Relock(q) \/ TimeOut(q)
       \/ InTime(q) \/ Decline(q) \/ StartRead(q) \/ FinishRead(q)

ProcessWrite(q) ==
    /\ Op(q) = WRITE
    /\ \/ LockAndFork(q) \/ Withdraw(q) \/ CondWait(q) \/ Relock(q) \/ TimeOut(q)
       \/ InTime(q) \/ Decline(q) \/ StartWrite(q) \/ FinishWrite(q)

ProcessDelete(q) ==
    /\ Op(q) = DELETE
    /\ \/ LockAndFork(q) \/ CheckAnnounced(q) \/ Spin(q) \/ EndSpin(q) \/ CondWait(q)
       \/ Relock(q) \/ TimeOut(q) \/ InTime(q) \/ Decline(q) \/ StartDelete(q)
       \/ FinishDelete(q)

(* The threads live as long as main has not returned. *)
ProcessReq(q) ==
    /\ main = "launching"
    /\ ProcessRead(q) \/ ProcessWrite(q) \/ ProcessDelete(q)

(* Mutation: the bullet prints only while its thread is still at it. *)
FireBullet_WithThread(q) ==
    /\ bullet[q] = "armed"
    /\ now >= bulletAt[q]
    /\ pc[q] \notin Finished
    /\ bullet' = [bullet EXCEPT ![q] = "fired"]
    /\ UNCHANGED <<req, now, main, pc, wake, bulletAt, lock, fileVars, time_requests>>

(* The bullet prints the cancellation message and exits. *)
FireBullet(q) ==
    /\ bullet[q] = "armed"
    /\ now >= bulletAt[q]
    /\ bullet' = [bullet EXCEPT ![q] = "fired"]
    /\ UNCHANGED <<req, now, main, pc, wake, bulletAt, lock, fileVars, time_requests>>

Tick ==
    /\ now < Horizon
    /\ now' = now + 1
    /\ UNCHANGED <<req, main, pc, wake, bullet, bulletAt, lock, fileVars, time_requests>>

(* main has returned; bullets it left behind may still print. *)
Terminated ==
    /\ main \in {"done", "failed"}
    /\ UNCHANGED vars

Next ==
    \/ \E q \in Requests :
          \/ Launch(q)
          \/ LaunchFails(q)
          \/ ProcessReq(q)
          \/ main = "launching" /\ SpuriousWakeup(q)
          \/ FireBullet(q)
    \/ JoinAll
    \/ Tick
    \/ Terminated

Spec == Init /\ [][Next]_vars

(* A runnable thread or process is scheduled in the end, and time passes.   *)
(* Nothing more is needed of the mutexes: a thread takes its lock a bounded *)
(* number of times, so no thread can be overtaken for ever.                 *)
Fairness ==
    /\ WF_vars(Tick)
    /\ WF_vars(JoinAll)
    /\ \A q \in Requests :
          WF_vars(Launch(q)) /\ WF_vars(ProcessReq(q)) /\ WF_vars(FireBullet(q))

FairSpec == Spec /\ Fairness

-----------------------------------------------------------------------------
(* Properties                                                              *)

Readers(f) == {q \in Requests : File(q) = f /\ Op(q) = READ /\ pc[q] = "work"}
Writers(f) == {q \in Requests : File(q) = f /\ Op(q) = WRITE /\ pc[q] = "work"}
Deleters(f) == {q \in Requests : File(q) = f /\ Op(q) = DELETE /\ pc[q] = "work"}

Types ==
    /\ req \in [Requests -> [file : Files, op : {READ, WRITE, DELETE}, time : Times]]
    /\ now \in 0 .. Horizon
    /\ main \in {"launching", "done", "failed"}
    /\ pc \in [Requests -> Labels]
    /\ wake \in [Requests -> 0 .. Horizon]
    /\ bullet \in [Requests -> {"none", "armed", "unforked", "fired", "killed"}]
    /\ bulletAt \in [Requests -> 0 .. Horizon]
    /\ lock \in [Files -> Requests \cup {NoOne}]
    /\ concurrent_access \in [Files -> Int]
    /\ readercount \in [Files -> Int]
    /\ writercount \in [Files -> Int]
    /\ deleted \in [Files -> BOOLEAN]
    /\ time_requests \in [Files -> [0 .. SLOTS - 1 -> Int]]

(* The type invariant: the counters of a file never drop below zero, so     *)
(* every decrement of process_req meets its own increment.                  *)
TypeOK ==
    /\ Types
    /\ concurrent_access \in [Files -> Nat]
    /\ readercount \in [Files -> Nat]
    /\ writercount \in [Files -> Nat]

(* No file is ever in use by more than c readers and writers, nor by two    *)
(* writers: what the wait loops of READ and WRITE are for.                  *)
AccessLimit ==
    \A f \in Files :
        /\ Cardinality(Readers(f) \cup Writers(f)) <= c
        /\ Cardinality(Writers(f)) <= 1

(* While a DELETE sleeps on a file (it keeps the mutex for that time)       *)
(* nobody reads, writes or deletes that file beside it.                     *)
DeleteIsExclusive ==
    \A f \in Files : \A q \in Deleters(f) :
        Readers(f) \cup Writers(f) \cup Deleters(f) = {q}

(* Nobody works on a file that has been deleted, however long the thread    *)
(* waited before it looked at file->deleted.                                *)
DeletedIsUnused ==
    \A f \in Files :
        deleted[f] => Readers(f) \cup Writers(f) \cup Deleters(f) = {}

(* One condition variable serves readers, writers and deleters, and         *)
(* pthread_cond_signal wakes one thread of any kind.  Still no waiter is    *)
(* forgotten: while somebody waits, another thread of the file is past the  *)
(* wait loop or on its way to it, and will signal.                          *)
WaiterHasWaker ==
    \A f \in Files :
        Waiters(f) # {} =>
            \E q \in Requests : File(q) = f /\ pc[q] \in {"relock", "test", "kill", "work"}

(* The message "cancelled ... at requesttime + T" is never printed before   *)
(* that time: the bullet sleeps T - 1 seconds, the thread slept one before. *)
CancelNotEarly ==
    \A q \in Requests : bullet[q] = "fired" => now >= req[q].time + T

(* A request that was reported as cancelled before LAZY looked at the clock *)
(* is not taken up afterwards.  (A bullet that fires between the call of    *)
(* time and the call of kill is the exception the code leaves.)             *)
CancelIsFinal ==
    [][\A q \in Requests :
           bullet[q] = "fired" /\ pc[q] = "test" => pc'[q] # "kill"]_vars

(* A DELETE is not taken up before every READ and WRITE of the same file    *)
(* and the same second has got hold of the lock: what time_requests is for. *)
SameSecondOrder ==
    \A q, p \in Requests :
        /\ Op(q) = DELETE
        /\ pc[q] \in {"kill", "work"}
        /\ Op(p) < DELETE
        /\ File(p) = File(q)
        /\ req[p].time = req[q].time
        => pc[p] \notin {"idle", "created"}

(* The threads of process_req implement the service the users see: a thread *)
(* that works is a busy request, a silent return a cancelled one.           *)
Stage(q) ==
    CASE pc[q] = "work" -> "busy"
      [] pc[q] = "timedout" -> "cancelled"
      [] pc[q] \in {"completed", "declined"} -> pc[q]
      [] OTHER -> "pending"

Service == INSTANCE FileService
    WITH stage <- [q \in Requests |-> Stage(q)], gone <- deleted

ImplementsService == Service!Spec

(* Every request is answered: completed, declined or reported as cancelled. *)
EveryRequestAnswered ==
    \A q \in Requests : <>(pc[q] \in {"completed", "declined"} \/ bullet[q] = "fired")

(* main joins all its threads and LAZY "is going back to sleep".            *)
LazyGoesBackToSleep == <>(main = "done")

-----------------------------------------------------------------------------
(* The inductive invariant behind the safety properties.                   *)

(* The threads that own the mutex of their file. *)
Holds(q) ==
    \/ pc[q] \in {"forked", "spin_locked", "test", "kill"}
    \/ pc[q] = "work" /\ Op(q) = DELETE

LockInv == \A q \in Requests : Holds(q) => lock[File(q)] = q

(* The counters count the working threads. *)
CountInv ==
    \A f \in Files :
        /\ readercount[f] = Cardinality(Readers(f))
        /\ writercount[f] = Cardinality(Writers(f))
        /\ concurrent_access[f] = readercount[f] + writercount[f]

LimitInv == \A f \in Files : concurrent_access[f] <= c /\ writercount[f] <= 1

(* What a thread found out under the lock stays true while it holds it. *)
AdmitInv ==
    \A q \in Requests :
        /\ pc[q] = "kill" => ~MustWait(q)
        /\ pc[q] = "work" /\ Op(q) = DELETE => ~DeleteMustWait(File(q))

LiveInv == \A q \in Requests : pc[q] = "work" => ~deleted[File(q)]

MonitorInv == Types /\ LockInv /\ CountInv /\ LimitInv /\ AdmitInv /\ LiveInv

(* The deadlines of the bullets and of the sleep that precedes them. *)
BulletInv ==
    \A q \in Requests :
        /\ pc[q] # "idle" => now >= req[q].time
        /\ pc[q] = "created" => wake[q] > req[q].time
        /\ bullet[q] = "armed" => bulletAt[q] >= req[q].time + T
        /\ bullet[q] = "fired" => now >= req[q].time + T

(* The readers and writers that a slot of time_requests should announce. *)
Announcers(f, s) ==
    {q \in Requests : /\ File(q) = f /\ Slot(q) = s /\ Op(q) < DELETE
                      /\ pc[q] \in {"created", "forked"}}

(* Behind SameSecondOrder: a slot announces at least those readers and      *)
(* writers, main launches in the order of its sort, and a deleter that has  *)
(* left its spin loop has no same-second user before it.                    *)
OrderInv ==
    /\ \A f \in Files, s \in 0 .. SLOTS - 1 :
          Cardinality(Announcers(f, s)) <= time_requests[f][s]
    /\ \A q, p \in Requests : pc[q] # "idle" /\ pc[p] = "idle" => NotAfter(q, p)
    /\ \A q, p \in Requests :
          /\ Op(q) = DELETE
          /\ pc[q] \in {"relock", "test", "waiting", "kill", "work"}
          /\ Op(p) < DELETE
          /\ File(p) = File(q)
          /\ req[p].time = req[q].time
          => pc[p] \notin {"idle", "created", "forked"}

=============================================================================
