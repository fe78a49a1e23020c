------------------------------- MODULE Sort -------------------------------
(* The sorting program (concurrency/partB.c): main reads a list of files and *)
(* a column, and lazy_sort sorts the list with the threads of a counting     *)
(* sort, or, from LAZY_THRESHOLD files on, with the threads of a merge sort. *)
(* The two sequential sorts of the program, with which its authors compared  *)
(* the parallel ones, are here as well. Arrays of the code start at 0, the   *)
(* sequences files and output at 1.                                          *)
EXTENDS Integers, Sequences, FiniteSets, SequencesExt

CONSTANTS
    NUM_PROCESSES,         \* the threads of the counting sort
    LAZY_THRESHOLD,        \* the number of files from which merge sort is used
    MAX_LEVEL_MERGE_SORT,  \* the depth of the tree of merge sort threads
    Base, MaxLength,       \* of the number that a file name is turned into
    Inputs                 \* what may be sorted: [files, sort_column, sorter]

(* A file name is the sequence of the letters between "file" and ".txt".     *)
(* 1 .. Base are the upper case letters, Base + 1 .. 2 * Base the lower case *)
(* ones, in the order of their codes.                                        *)
ASSUME SortAssumption ==
    /\ NUM_PROCESSES \in Nat \ {0}
    /\ LAZY_THRESHOLD \in Nat \ {0, 1}
    /\ MAX_LEVEL_MERGE_SORT \in Nat
    /\ \A in \in Inputs :
          /\ Len(in.files) > 0
          /\ \A i \in DOMAIN in.files :
                /\ in.files[i].name \in Seq(1 .. 2 * Base)
                /\ Len(in.files[i].name) \in 1 .. MaxLength

VARIABLES
    in,               \* the input
    files,            \* the array that is sorted
    pc,               \* where the main thread is
    min_value,        \* the number of the smallest file
    global_count,     \* bucket -> [frequency, size, head, lock]
    new_global_count, \* the buckets that are not empty, in order
    output,           \* the array that populate_output fills
    assigned,         \* what the loop of the second round has handed out
    thread,           \* the threads of the counting sort
    mthread           \* the threads of the merge sort, by their place in the tree

vars == <<in, files, pc, min_value, global_count, new_global_count, output, assigned, thread, mthread>>

---------------------------------------------------------------------------
(* Keys and their order *)

(* The C library's strcmp, on the whole name: ".txt" comes before a letter.  *)
Before(s, t) ==
    \/ IsStrictPrefix(s, t)
    \/ \E i \in DOMAIN s \cap DOMAIN t :
          SubSeq(s, 1, i - 1) = SubSeq(t, 1, i - 1) /\ s[i] < t[i]

toupper(c) == IF c > Base THEN c - Base ELSE c

convert_to_index(name) ==
    LET value(i) == IF i <= Len(name) THEN toupper(name[i]) ELSE 0
    IN  FoldLeft(LAMBDA index, i : index * Base + value(i), 0, [i \in 1 .. MaxLength |-> i])

(* sort_column_flag, which stays 1 if the column's name is not known. *)
sort_column_flag ==
    CASE in.sort_column = "NAME"      -> 0
      [] in.sort_column = "TIMESTAMP" -> 2
      [] OTHER                        -> 1

(* What compare_by_name, compare_by_id and compare_by_timestamp and the      *)
(* tests of merge say. Time stamps are numbers of seconds.                   *)
Less(f, g) ==
    CASE sort_column_flag = 0 -> Before(f.name, g.name)
      [] sort_column_flag = 1 -> f.id < g.id
      [] sort_column_flag = 2 -> f.timestamp < g.timestamp

(* The first smallest file and the first largest one: get_max_min_values     *)
(* compares names and time stamps as strings and ids as numbers.             *)
MinFile == FoldLeft(LAMBDA m, f : IF Less(f, m) THEN f ELSE m, files[1], files)
MaxFile == FoldLeft(LAMBDA m, f : IF Less(m, f) THEN f ELSE m, files[1], files)

(* The number that stands for a file: its bucket is the distance from the    *)
(* smallest file's number.                                                   *)
Number(f) ==
    CASE sort_column_flag = 0 -> convert_to_index(f.name)
      [] sort_column_flag = 1 -> f.id
      [] sort_column_flag = 2 -> f.timestamp

Bucket(f) == Number(f) - min_value

---------------------------------------------------------------------------
(* The counting sort *)

N == Len(files)

(* chunck_size: n / 8 files for each thread, and one more for the first ones. *)
ChunkSize(i) == N \div NUM_PROCESSES + (IF i < N % NUM_PROCESSES THEN 1 ELSE 0)
ChunkStart(i) == i * (N \div NUM_PROCESSES) + (IF i < N % NUM_PROCESSES THEN i ELSE N % NUM_PROCESSES)

(* Threads are made until all files are given out. *)
threads_used == IF N < NUM_PROCESSES THEN N ELSE NUM_PROCESSES
Workers == 0 .. threads_used - 1

EmptyBucket == [frequency |-> 0, size |-> 0, head |-> <<>>, lock |-> -1]

(* init_global_count makes the buckets up to the largest file's. *)
init_global_count == [j \in 0 .. Number(MaxFile) - Number(MinFile) |-> EmptyBucket]

NoThread == [pc |-> "none"]

(* What an entry of output points to before it is set. *)
Garbage == [name |-> <<>>, id |-> 0, timestamp |-> 0]

(* The buckets that are not empty, in their order; then size keeps the       *)
(* frequency and frequency becomes a prefix sum.                             *)
NotEmpty(count) ==
    SetToSortSeq({j \in DOMAIN count : count[j].frequency # 0}, <)

Prefix(count) ==
    [j \in DOMAIN count |->
        IF count[j].frequency = 0 THEN count[j]
        ELSE [count[j] EXCEPT !.size = count[j].frequency,
                              !.frequency = FoldFunctionOnSet(LAMBDA b, s : b.frequency + s, 0,
                                                              count, {l \in DOMAIN count : l <= j})]]

(* The loop that walks over the chunk just handed out: a chunk ends inside   *)
(* a list, and the next one starts there, or at the end of a list.           *)
Advance(from, chunk) ==
    LET size(l) == global_count[new_global_count[l + 1]].size
        walk[c \in 0 .. chunk, l \in 0 .. Len(new_global_count), prev \in 0 .. N] ==
            IF c = 0 THEN [list |-> l, skip |-> prev]
            ELSE IF c < size(l) - prev THEN [list |-> l, skip |-> prev + c]
            ELSE walk[c - (size(l) - prev), l + 1, 0]
    IN  walk[chunk, from.list, from.skip]

---------------------------------------------------------------------------
(* The merge sort *)

Sorted(seq) == \A i, j \in DOMAIN seq : i < j => ~Less(seq[j], seq[i])

Permutation(s, t) ==
    /\ Len(s) = Len(t)
    /\ \A f \in Range(s) \cup Range(t) :
          Cardinality({i \in DOMAIN s : s[i] = f}) = Cardinality({i \in DOMAIN t : t[i] = f})

(* merge: of two files that are equal the one of the left half goes first.   *)
Merge(left, right) ==
    LET m[l \in 0 .. Len(left), r \in 0 .. Len(right)] ==
            IF l = Len(left) THEN SubSeq(right, r + 1, Len(right))
            ELSE IF r = Len(right) THEN SubSeq(left, l + 1, Len(left))
            ELSE IF ~Less(right[r + 1], left[l + 1])
                 THEN <<left[l + 1]>> \o m[l + 1, r]
                 ELSE <<right[r + 1]>> \o m[l, r + 1]
    IN  m[0, 0]

(* files with the entries s .. e (of the code) replaced. *)
Replace(s, e, seq) == [i \in DOMAIN files |-> IF i - 1 \in s .. e THEN seq[i - s] ELSE files[i]]
Slice(s, e) == SubSeq(files, s + 1, e + 1)
Mid(s, e) == (s + e) \div 2

---------------------------------------------------------------------------
(* The program *)

Parallel == in.sorter = "lazy_sort"

Counting ==
    \/ in.sorter = "non_distributed_count_sort"
    \/ in.sorter = "lazy_sort" /\ N < LAZY_THRESHOLD

Init ==
    /\ in \in Inputs
    /\ files = in.files
    /\ pc = "main"
    /\ min_value = 0
    /\ global_count = <<>> /\ new_global_count = <<>> /\ output = <<>>
    /\ assigned = [next |-> 0, list |-> 0, skip |-> 0]
    /\ thread = [i \in 0 .. NUM_PROCESSES - 1 |-> NoThread]
    /\ mthread = <<>>

(* lazy_sort chooses the algorithm. For the counting sort the extreme        *)
(* values are found and the buckets up to the largest are made.              *)
StartCount ==
    /\ pc = "main" /\ Counting
    /\ pc' = "count"
    /\ min_value' = Number(MinFile)
    /\ global_count' = init_global_count
    /\ output' = [i \in DOMAIN files |-> Garbage]
    /\ UNCHANGED <<in, files, new_global_count, assigned, thread, mthread>>

StartMerge ==
    /\ pc = "main" /\ ~Counting
    /\ pc' = "merge"
    /\ mthread' = (<<>> :> [s |-> 0, e |-> N - 1, pc |-> "start"])
    /\ UNCHANGED <<in, min_value, files, global_count, new_global_count, output, assigned, thread>>

(* A pointer that init_global_count did not set is followed. *)
Crash ==
    /\ pc' = "crashed"
    /\ UNCHANGED <<in, min_value, files, global_count, new_global_count, output, assigned, thread, mthread>>

(* The main thread starts the counting threads in order; the sequential      *)
(* version calls count_local and goes on when it has returned.               *)
CreateCounter(i) ==
    /\ pc = "count" /\ i \in Workers
    /\ thread[i] = NoThread
    /\ \A j \in 0 .. i - 1 : thread[j] # NoThread /\ (Parallel \/ thread[j].pc = "counted")
    /\ thread' = [thread EXCEPT ![i] = [pc |-> "lock", i |-> ChunkStart(i),
                                        end |-> ChunkStart(i) + ChunkSize(i) - 1]]
    /\ UNCHANGED <<in, files, pc, min_value, global_count, new_global_count, output, assigned, mthread>>

(* count_local, up to the point where the list's head has been read. *)
CountLock(i) ==
    LET t == thread[i]
        b == Bucket(files[t.i + 1])
    IN  /\ pc = "count" /\ t.pc = "lock"
        /\ IF b \notin DOMAIN global_count
           THEN Crash
           ELSE /\ global_count[b].lock = -1
                /\ global_count' = [global_count EXCEPT ![b].lock = i, ![b].frequency = @ + 1]
                /\ thread' = [thread EXCEPT ![i] = [pc |-> "push", i |-> t.i, end |-> t.end,
                                                    head |-> global_count[b].head]]
                /\ UNCHANGED <<in, min_value, files, pc, new_global_count, output, assigned, mthread>>

(* The new node is made the head of the list and the lock is released. *)
AddNode_KeepsLock(b, f, head) == [global_count EXCEPT ![b].head = <<f>> \o head]

AddNode(b, f, head) == [global_count EXCEPT ![b].head = <<f>> \o head, ![b].lock = -1]

CountPush(i) ==
    LET t == thread[i]
        f == files[t.i + 1]
    IN  /\ pc = "count" /\ t.pc = "push"
        /\ global_count' = AddNode(Bucket(f), f, t.head)
        /\ thread' = [thread EXCEPT ![i] = [pc |-> IF t.i = t.end THEN "counted" ELSE "lock",
                                            i |-> t.i + 1, end |-> t.end]]
        /\ UNCHANGED <<in, min_value, files, pc, new_global_count, output, assigned, mthread>>

JoinCounters ==
    /\ pc = "count" /\ \A i \in Workers : thread[i].pc = "counted"
    /\ pc' = "populate"
    /\ new_global_count' = NotEmpty(global_count)
    /\ global_count' = Prefix(global_count)
    /\ UNCHANGED <<in, min_value, files, output, assigned, thread, mthread>>

(* The second round: each thread gets as many places of the output as it     *)
(* had files to count, and the loop finds where the next one starts while    *)
(* the threads already started run.                                          *)
CreatePopulator(i) ==
    /\ pc = "populate" /\ i \in Workers /\ assigned.next = i
    /\ \A j \in 0 .. i - 1 : Parallel \/ thread[j].pc = "populated"
    /\ thread' = [thread EXCEPT ![i] = [pc |-> "list", s |-> assigned.list, elements |-> ChunkSize(i),
                                        list_offset |-> assigned.skip, index_adder |-> assigned.skip]]
    /\ assigned' = [next |-> i + 1] @@ Advance(assigned, ChunkSize(i))
    /\ UNCHANGED <<in, files, pc, min_value, global_count, new_global_count, output, mthread>>

(* The last place of a list that is not an earlier thread's. *)
LastPlace_NoAdder(list, index_adder) == list.frequency - 1

LastPlace(list, index_adder) == list.frequency - 1 - index_adder

(* populate_output takes the next list and skips what is another thread's. *)
PopulateList(i) ==
    LET t == thread[i]
        list == global_count[new_global_count[t.s + 1]]
        rest == SubSeq(list.head, t.list_offset + 1, Len(list.head))
    IN  /\ pc = "populate" /\ t.pc = "list"
        /\ IF t.s + 1 \notin DOMAIN new_global_count
           THEN Crash
           ELSE /\ thread' = [thread EXCEPT ![i] =
                      IF rest = <<>>
                      THEN [t EXCEPT !.s = @ + 1, !.list_offset = @ - Len(list.head), !.index_adder = 0]
                      ELSE [pc |-> "store", s |-> t.s, elements |-> t.elements, head |-> rest,
                            index |-> LastPlace(list, t.index_adder)]]
                /\ UNCHANGED <<in, files, pc, min_value, global_count, new_global_count, output, assigned, mthread>>

(* It stores the list's files from its last place downwards. *)
PopulateStore(i) ==
    LET t == thread[i]
    IN  /\ pc = "populate" /\ t.pc = "store"
        /\ output' = [output EXCEPT ![t.index + 1] = Head(t.head)]
        /\ thread' = [thread EXCEPT ![i] =
              IF t.elements = 1 THEN [pc |-> "populated"]
              ELSE IF Len(t.head) = 1
              THEN [pc |-> "list", s |-> t.s + 1, elements |-> t.elements - 1,
                    list_offset |-> 0, index_adder |-> 0]
              ELSE [t EXCEPT !.head = Tail(@), !.index = @ - 1, !.elements = @ - 1]]
        /\ UNCHANGED <<in, files, pc, min_value, global_count, new_global_count, assigned, mthread>>

JoinPopulators ==
    /\ pc = "populate" /\ \A i \in Workers : thread[i].pc = "populated"
    /\ files' = output
    /\ pc' = "done"
    /\ UNCHANGED <<in, min_value, global_count, new_global_count, output, assigned, thread, mthread>>

(* merge_sort in a thread that is given more than one file and is not at     *)
(* the last level starts a thread for each half, or calls itself for one     *)
(* half after the other in the sequential version.                           *)
Splits(t) == mthread[t].s < mthread[t].e /\ (Parallel => Len(t) < MAX_LEVEL_MERGE_SORT)

CreateSorter(t, half) ==
    LET m == mthread[t]
        c == Append(t, half)
    IN  /\ pc = "merge" /\ m.pc = "start" /\ Splits(t)
        /\ c \notin DOMAIN mthread
        /\ half = 1 => /\ Append(t, 0) \in DOMAIN mthread
                       /\ Parallel \/ mthread[Append(t, 0)].pc = "returned"
        /\ mthread' = mthread @@ (c :> [s |-> IF half = 0 THEN m.s ELSE Mid(m.s, m.e) + 1,
                                        e |-> IF half = 0 THEN Mid(m.s, m.e) ELSE m.e,
                                        pc |-> "start"])
        /\ UNCHANGED <<in, files, pc, min_value, global_count, new_global_count, output, assigned, thread>>

Joined(t) ==
    \A half \in {0, 1} :
        Append(t, half) \in DOMAIN mthread /\ mthread[Append(t, half)].pc = "returned"

(* Both halves have been sorted: they are merged. *)
JoinSorters(t) ==
    LET m == mthread[t]
    IN  /\ pc = "merge" /\ m.pc = "start" /\ Splits(t)
        /\ Joined(t)
        /\ files' = Replace(m.s, m.e, Merge(Slice(m.s, Mid(m.s, m.e)), Slice(Mid(m.s, m.e) + 1, m.e)))
        /\ mthread' = [mthread EXCEPT ![t].pc = "returned"]
        /\ UNCHANGED <<in, min_value, pc, global_count, new_global_count, output, assigned, thread>>

(* The C library's qsort, which promises no order of equal files, sorts the  *)
(* part of a thread of the last level; one file needs no sorting.            *)
QuickSort(t) ==
    LET m == mthread[t]
    IN  /\ pc = "merge" /\ m.pc = "start" /\ ~Splits(t)
        /\ \E seq \in {q \in [1 .. m.e - m.s + 1 -> Range(Slice(m.s, m.e))] :
                          Permutation(q, Slice(m.s, m.e)) /\ Sorted(q)} :
              files' = Replace(m.s, m.e, seq)
        /\ mthread' = [mthread EXCEPT ![t].pc = "returned"]
        /\ UNCHANGED <<in, min_value, pc, global_count, new_global_count, output, assigned, thread>>

FinishMerge ==
    /\ pc = "merge" /\ mthread[<<>>].pc = "returned"
    /\ pc' = "done"
    /\ UNCHANGED <<in, min_value, files, global_count, new_global_count, output, assigned, thread, mthread>>

Main ==
    \/ StartCount \/ StartMerge \/ JoinCounters \/ JoinPopulators \/ FinishMerge
    \/ \E i \in Workers : CreateCounter(i) \/ CreatePopulator(i)

Thread(i) == CountLock(i) \/ CountPush(i) \/ PopulateList(i) \/ PopulateStore(i)

MergeThread(t) == (\E half \in {0, 1} : CreateSorter(t, half)) \/ JoinSorters(t) \/ QuickSort(t)

Next ==
    \/ Main
    \/ \E i \in Workers : Thread(i)
    \/ \E t \in DOMAIN mthread : MergeThread(t)

(* The operating system runs every thread that can run. *)
Spec ==
    /\ Init /\ [][Next]_vars
    /\ WF_vars(Main)
    /\ \A i \in 0 .. NUM_PROCESSES - 1 : WF_vars(Thread(i))
    /\ WF_vars(\E t \in DOMAIN mthread : MergeThread(t))

---------------------------------------------------------------------------
(* Properties *)

(* The order of the buckets is the order of the column. It always is for ids *)
(* and time stamps; for names it is the question whether convert_to_index    *)
(* tells the names apart and orders them as strcmp does.                     *)
BucketsAgree == \A f, g \in Range(in.files) : Less(f, g) <=> Bucket(f) < Bucket(g)

(* When main prints the list, it is a permutation of the input. Merge sort   *)
(* has sorted it by the column; counting sort has sorted it by the buckets,  *)
(* so by the column when these agree, and has kept the input's order of two  *)
(* files of one bucket that one thread counted. This needs the bucket locks  *)
(* (partB.c:230), the joins and the places that populate_output computes     *)
(* from the prefix sums (partB.c:246) for every interleaving of the threads. *)
SortedResult ==
    pc = "done" =>
        /\ Permutation(files, in.files)
        /\ ~Counting \/ BucketsAgree => Sorted(files)
        /\ Counting => \A i, j \in DOMAIN files :
              i < j => \/ Bucket(files[i]) < Bucket(files[j])
                       \/ /\ Bucket(files[i]) = Bucket(files[j])
                          /\ \A a, b \in DOMAIN in.files, w \in Workers :
                                /\ in.files[a] = files[i] /\ in.files[b] = files[j]
                                /\ {a - 1, b - 1} \subseteq ChunkStart(w) .. ChunkStart(w) + ChunkSize(w) - 1
                                => a < b

(* No thread follows a pointer that init_global_count did not set: every     *)
(* index of count_local (partB.c:230) is inside global_count. The README     *)
(* promises it for names in letters of both cases (src/README.md:13).        *)
NoCrash == pc # "crashed"

(* The numbers of the files stand as the files do in the column. *)
InOrder == \A f, g \in Range(in.files) : Less(f, g) => Number(f) <= Number(g)

(* Every sort comes to its end: each thread is started, gets its locks, and  *)
(* is joined (partB.c:341, 392, 589). It ends with the list printed, unless  *)
(* two names stand one way by strcmp and the other way by convert_to_index:  *)
(* letters of both cases do that, and so do names like "azz" and "b",        *)
(* because base 26 is used for the digits 0 to 26.                           *)
Terminates == <>(pc = "done" \/ (pc = "crashed" /\ ~InOrder))
===========================================================================
