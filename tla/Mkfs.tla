-------------------------------- MODULE Mkfs --------------------------------
(* The disk image that mkfs/mkfs.c writes. *)
EXTENDS Inode

CONSTANT Images  \* the names of the programs on the disk

ELF == <<"ELF", 0>>

Blank ==
    [dinode |-> [i \in Inums |-> Free], used |-> {}, data |-> [b \in Blocks |-> [k \in 0 .. BSIZE - 1 |-> Zero]],
     itable |-> [i \in Inums |-> Unreferenced], panic |-> FALSE]

NewInode(w, i, type) == [w EXCEPT !.dinode[i] = [Free EXCEPT !.type = type, !.nlink = 1]]

(* One cell at the end of inode i. *)
iappend(w, i, cell) ==
    LET v == [w EXCEPT !.itable[i].ino = w.dinode[i]]
    IN  [writei(v, i, w.dinode[i].size, <<cell>>).w EXCEPT !.itable[i] = Unreferenced]

(* The root directory, the programs in it, and its size made up to blocks. *)
mkfs ==
    LET root == iappend(iappend(NewInode(Blank, ROOTINO, "dir"), ROOTINO, <<".", ROOTINO>>), ROOTINO, <<"..", ROOTINO>>)
        Add(w, name) ==
            LET i == Min({j \in Inums : w.dinode[j].type = "none"})
            IN  iappend(iappend(NewInode(w, i, "file"), ROOTINO, <<name, i>>), i, ELF)
        all == FoldLeft(Add, root, Images)
    IN  [all EXCEPT !.dinode[ROOTINO].size = ((@ \div BSIZE) + 1) * BSIZE]
===========================================================================
