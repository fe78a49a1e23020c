------------------------------ MODULE MCSort ------------------------------
(* The sorting program for model checking: three counting threads, merge     *)
(* sort from five files on with two levels of threads, and names of up to    *)
(* three letters from an alphabet of two.                                    *)
EXTENDS Sort

(* Files that differ in the column sorted by, and in one other, so that two  *)
(* files are never the same.                                                 *)
ById(ids)  == [i \in DOMAIN ids |-> [name |-> <<1>>, id |-> ids[i], timestamp |-> i]]
ByTime(ts) == [i \in DOMAIN ts |-> [name |-> <<1>>, id |-> i, timestamp |-> ts[i]]]
ByName(ns) == [i \in DOMAIN ns |-> [name |-> ns[i], id |-> i, timestamp |-> 0]]

Sorters == {"lazy_sort", "non_distributed_count_sort", "merge_sort_non_distributed"}

Keys(S, lengths) == UNION {[1 .. n -> S] : n \in lengths}

(* a, b, ab, abb in lower case, and B *)
MCNames == {<<3>>, <<4>>, <<3, 4>>, <<3, 4, 4>>, <<2>>}

MCInputs ==
    [files : {ById(k) : k \in Keys({1, 2, 4}, {1, 3, 4}) \cup Keys({1, 2}, {5})},
     sort_column : {"ID"}, sorter : {"lazy_sort"}]
    \cup
    [files : {ById(k) : k \in Keys({1, 3}, {2, 5})}, sort_column : {"other"}, sorter : Sorters]
    \cup
    [files : {ByTime(k) : k \in Keys({10, 12}, {3, 5})}, sort_column : {"TIMESTAMP"}, sorter : {"lazy_sort"}]
    \cup
    [files : {ByName(k) : k \in Keys(MCNames, {2, 3})}, sort_column : {"NAME"}, sorter : {"lazy_sort"}]
    \cup
    [files : {ByName(k) : k \in Keys({<<3>>, <<2>>, <<4>>}, {5})}, sort_column : {"NAME"}, sorter : {"lazy_sort"}]

(* Names in letters of both cases: a, b, and B. *)
MCBothCases ==
    [files : {ByName(k) : k \in Keys({<<3>>, <<4>>, <<2>>}, {2, 3})}, sort_column : {"NAME"},
     sorter : {"lazy_sort"}]
===========================================================================
