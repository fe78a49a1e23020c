------------------------------- MODULE Inode -------------------------------
(* Blocks, inodes and directories (kernel/fs.c). A file system w has the     *)
(* disk as the buffer cache shows it (dinode, used, data) and the table of   *)
(* inodes in memory; an operator takes one and gives the next. A cell of     *)
(* data is a pair: a byte <<c, 0>>, an entry <<name, inum>> or a block       *)
(* number <<"", b>>.                                                         *)
EXTENDS Integers, Sequences, FiniteSets, FiniteSetsExt, SequencesExt

CONSTANTS
    NINODES,    \* the inodes on disk
    NBLOCKS,    \* the data blocks on disk
    NINODE,     \* the inodes in memory
    BSIZE,      \* the cells of a block
    NDIRECT,    \* the direct blocks of an inode
    NINDIRECT,  \* the block numbers in an indirect block
    DIRSIZ      \* the characters of a name

ASSUME InodeAssumption == NINDIRECT <= BSIZE /\ NINODE <= NINODES

Inums == 1 .. NINODES
Blocks == 1 .. NBLOCKS
ROOTINO == 1
MAXFILE == NDIRECT + NINDIRECT
NoProc == 0
Zero == <<"", 0>>
Fault == <<"fault", 0>>  \* what copyin fails to read
Free == [type |-> "none", major |-> 0, nlink |-> 0, size |-> 0, addrs |-> [n \in 0 .. NDIRECT |-> 0]]
Unreferenced == [ref |-> 0, valid |-> FALSE, lock |-> NoProc, ino |-> Free]
panicked(w) == [w EXCEPT !.panic = TRUE]

---------------------------------------------------------------------------
(* Blocks *)

(* The first free block, all zero, or block 0: there is none. *)
balloc(w) ==
    LET b == Min(Blocks \ w.used)
    IN  IF Blocks \subseteq w.used THEN [w |-> w, addr |-> 0]
        ELSE [w |-> [w EXCEPT !.used = @ \cup {b}, !.data[b] = [k \in 0 .. BSIZE - 1 |-> Zero]],
              addr |-> b]

bfree(w, bs) == IF bs \subseteq w.used THEN [w EXCEPT !.used = @ \ bs] ELSE panicked(w)

---------------------------------------------------------------------------
(* Inodes *)

iget(w, i) ==
    IF w.itable[i].ref > 0 THEN [w EXCEPT !.itable[i].ref = @ + 1]
    ELSE IF Cardinality({j \in Inums : w.itable[j].ref > 0}) = NINODE THEN panicked(w)
    ELSE [w EXCEPT !.itable[i] = [Unreferenced EXCEPT !.ref = 1]]

idup(w, i) == [w EXCEPT !.itable[i].ref = @ + 1]

(* The first free inode, marked on disk and referenced, or 0. *)
ialloc(w, type) ==
    LET free == {i \in Inums : w.dinode[i].type = "none"}
        i == Min(free)
    IN  IF free = {} THEN [w |-> w, ip |-> 0]
        ELSE [w |-> iget([w EXCEPT !.dinode[i] = [Free EXCEPT !.type = type]], i), ip |-> i]

(* Mutant: the link count stays in memory. *)
iupdate_KeepsNlink(w, i) ==
    [w EXCEPT !.dinode[i] = [w.itable[i].ino EXCEPT !.nlink = w.dinode[i].nlink]]

iupdate(w, i) == [w EXCEPT !.dinode[i] = w.itable[i].ino]

(* ilock, for process p once the sleep lock is free. *)
ilock(w, p, i) ==
    LET e == w.itable[i]
        ino == IF e.valid THEN e.ino ELSE w.dinode[i]
    IN  IF e.ref < 1 \/ ino.type = "none" THEN panicked(w)
        ELSE [w EXCEPT !.itable[i] = [e EXCEPT !.lock = p, !.valid = TRUE, !.ino = ino]]

(* The lock of a directory, and the check of dirlookup. *)
LockDir(w, p, i) ==
    LET v == ilock(w, p, i) IN IF v.itable[i].ino.type = "dir" THEN v ELSE panicked(v)

iunlock(w, p, i) ==
    IF w.itable[i].lock # p \/ w.itable[i].ref < 1 THEN panicked(w)
    ELSE [w EXCEPT !.itable[i].lock = NoProc]

(* The blocks that an inode names, directly and in its indirect block.       *)
Indirect(w, ino) ==
    IF ino.addrs[NDIRECT] = 0 THEN {}
    ELSE {w.data[ino.addrs[NDIRECT]][k][2] : k \in 0 .. NINDIRECT - 1} \ {0}
Named(ino) == {ino.addrs[n] : n \in 0 .. NDIRECT} \ {0}

(* Mutant: what the indirect block names is not freed. *)
Contents_NoIndirect(w, ino) == Named(ino)

Contents(w, ino) == Named(ino) \cup Indirect(w, ino)

itrunc(w, i) ==
    LET v == bfree(w, Contents(w, w.itable[i].ino))
    IN  iupdate([v EXCEPT !.itable[i].ino.addrs = Free.addrs, !.itable[i].ino.size = 0], i)

(* iput of the last reference to an inode without links: it is freed, under  *)
(* its lock. Only then is the reference given up. Mutant: the count is not   *)
(* looked at.                                                                *)
LastUse_AnyRef(w, i) == w.itable[i].valid /\ w.itable[i].ino.nlink = 0

LastUse(w, i) == w.itable[i].ref = 1 /\ w.itable[i].valid /\ w.itable[i].ino.nlink = 0

ifree(w, i) ==
    LET v == itrunc(w, i)
    IN  [iupdate([v EXCEPT !.itable[i].ino.type = "none"], i) EXCEPT !.itable[i].valid = FALSE]

unref(w, i) ==
    [w EXCEPT !.itable[i] = IF @.ref = 1 THEN Unreferenced ELSE [@ EXCEPT !.ref = @ - 1]]

---------------------------------------------------------------------------
(* Contents *)

(* The type, links and size, as cells. *)
stati(ino) == << <<ino.type, ino.nlink>>, <<"", ino.size>> >>

(* The n-th block of an inode, allocated if there is none; 0 if there is no  *)
(* room for it.                                                              *)
bmap(w, i, bn) ==
    LET slot == Min({bn, NDIRECT})
        have == w.itable[i].ino.addrs[slot]
        a == IF have = 0 THEN balloc(w) ELSE [w |-> w, addr |-> have]
        v == [a.w EXCEPT !.itable[i].ino.addrs[slot] = a.addr]
        k == bn - NDIRECT
        b == balloc(v)
    IN  IF bn >= MAXFILE THEN [w |-> panicked(w), addr |-> 0]
        ELSE IF a.addr = 0 THEN [w |-> w, addr |-> 0]
        ELSE IF bn < NDIRECT THEN [w |-> v, addr |-> a.addr]
        ELSE IF v.data[a.addr][k][2] # 0 THEN [w |-> v, addr |-> v.data[a.addr][k][2]]
        ELSE IF b.addr = 0 THEN [w |-> v, addr |-> 0]
        ELSE [w |-> [b.w EXCEPT !.data[a.addr][k] = <<"", b.addr>>], addr |-> b.addr]

(* The cells of an inode from off on, at most n. *)
readi(w, i, off, n) ==
    LET size == w.itable[i].ino.size
    IN  IF off > size THEN <<>>
        ELSE [k \in 1 .. Min({n, size - off}) |->
                 w.data[bmap(w, i, (off + k - 1) \div BSIZE).addr][(off + k - 1) % BSIZE]]

(* The part of writei that fits into one block: n says how many cells of     *)
(* cells were written, -1 that none may be.                                  *)
writei(w, i, off, cells) ==
    LET b == bmap(w, i, off \div BSIZE)
        m == Min({Len(cells), BSIZE - (off % BSIZE)})
        d == [k \in 0 .. BSIZE - 1 |->
                 IF k - (off % BSIZE) \in 0 .. m - 1 THEN cells[k - (off % BSIZE) + 1]
                 ELSE b.w.data[b.addr][k]]
        v == [b.w EXCEPT !.data[b.addr] = d, !.itable[i].ino.size = Max({@, off + m})]
    IN  IF off > w.itable[i].ino.size \/ off + Len(cells) > MAXFILE * BSIZE THEN [w |-> w, n |-> -1]
        ELSE IF b.addr = 0 \/ cells[1] = Fault THEN [w |-> iupdate(b.w, i), n |-> 0]
        ELSE [w |-> iupdate(v, i), n |-> m]

---------------------------------------------------------------------------
(* Directories *)

Entries(w, dp) == readi(w, dp, 0, w.itable[dp].ino.size)

(* The offset of the entry with a name, or -1. *)
dirlookup(w, dp, name) ==
    LET found == {k \in DOMAIN Entries(w, dp) : Entries(w, dp)[k][1] = name /\ Entries(w, dp)[k][2] # 0}
    IN  IF found = {} THEN -1 ELSE Min(found) - 1

(* An entry in the first empty place; ok says whether there was one and the  *)
(* name is new.                                                              *)
dirlink(w, dp, name, i) ==
    LET empty == {k \in DOMAIN Entries(w, dp) : Entries(w, dp)[k][2] = 0}
        off == IF empty = {} THEN w.itable[dp].ino.size ELSE Min(empty) - 1
        r == writei(w, dp, off, << <<name, i>> >>)
    IN  IF dirlookup(w, dp, name) >= 0 THEN [w |-> w, ok |-> FALSE]
        ELSE [w |-> r.w, ok |-> r.n = 1]

(* Mutant: no directory is taken for full. *)
isdirempty_Always(w, dp) == TRUE

isdirempty(w, dp) == \A k \in DOMAIN Entries(w, dp) : k > 2 => Entries(w, dp)[k][2] = 0

(* A path is a sequence of elements, "/" first if it starts at the root; an  *)
(* element counts with its first DIRSIZ characters.                          *)
skipelem(elem) == IF Len(elem) > DIRSIZ THEN SubSeq(elem, 1, DIRSIZ) ELSE elem
===========================================================================
