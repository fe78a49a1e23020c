------------------------------ MODULE FsTests ------------------------------
(* The file system tests of user/usertests.c as programs: sequences of calls *)
(* with the results that the test goes on with. Loop counts and sizes are    *)
(* parameters. A call that the test does not check may return anything.      *)
EXTENDS Integers, Sequences, SequencesExt, FiniteSets

Good == 0 .. 16
Bad == {-1}
Any0 == -1 .. 16
LastFd == -1

RDONLY == {}
WRONLY == {"wronly"}
RDWR == {"rdwr"}
CREATE == {"create"}
TRUNC == {"trunc"}

Open(path, mode, ok) == << [call |-> "open", path |-> path, mode |-> mode, ok |-> ok] >>
Mkdir(path, ok) == << [call |-> "mkdir", path |-> path, ok |-> ok] >>
Mknod(path, major, ok) == << [call |-> "mknod", path |-> path, major |-> major, ok |-> ok] >>
Chdir(path, ok) == << [call |-> "chdir", path |-> path, ok |-> ok] >>
Unlink(path, ok) == << [call |-> "unlink", path |-> path, ok |-> ok] >>
Link(old, path, ok) == << [call |-> "link", old |-> old, path |-> path, ok |-> ok] >>
Exec(path, prog) == << [call |-> "exec", path |-> path, prog |-> prog, ok |-> {0}] >>
Close(fd) == << [call |-> "close", fd |-> fd, ok |-> Any0] >>
Dup(fd, ok) == << [call |-> "dup", fd |-> fd, ok |-> ok] >>
Stat(fd, nlinks, type, size) ==
    << [call |-> "stat", fd |-> fd, ok |-> {0}, data |-> {<< <<type, n>>, <<"", size>> >> : n \in nlinks}] >>
Write(fd, cells, ok) == << [call |-> "write", fd |-> fd, cells |-> cells, ok |-> ok] >>
Read(fd, n, ok) == << [call |-> "read", fd |-> fd, n |-> n, ok |-> ok] >>
ReadThese(fd, n, data) == << [call |-> "read", fd |-> fd, n |-> n, ok |-> Any0, data |-> data] >>
ReadNames(fd, n, names) == << [call |-> "read", fd |-> fd, n |-> n, ok |-> Good, names |-> names] >>
Fork(q, prog) == << [call |-> "fork", child |-> q, prog |-> prog, ok |-> {0}] >>
Wait == << [call |-> "wait", ok |-> {0}] >>
Exit == << [call |-> "exit"] >>
WriteAll(fd, cells) == Write(fd, cells, {Len(cells)})

Bytes(c, n) == [k \in 1 .. n |-> <<c, 0>>]
For(n, Body(_)) == FlattenSeq([i \in 1 .. n |-> Body(i - 1)])
Times(n, body) == For(n, LAMBDA i : body)
File(name) == <<name>>
Numbered(prefix, i) == << prefix \o <<"0", "1", "2", "3", "4", "5", "6", "7", "8", "9">>[i + 1] >>

---------------------------------------------------------------------------
(* Contents *)

truncate1 ==
    LET f == File("truncfile")
    IN  Unlink(f, Any0) \o Open(f, CREATE \cup WRONLY \cup TRUNC, Any0)
        \o Write(3, Bytes("a", 4), Any0) \o Close(3)
        \o Open(f, RDONLY, Any0) \o Read(3, 16, {4})
        \o Open(f, WRONLY \cup TRUNC, Any0) \o Open(f, RDONLY, Any0)
        \o Read(5, 16, {0}) \o Read(3, 16, {0})
        \o Write(4, Bytes("a", 6), Any0) \o Read(5, 16, {6}) \o Read(3, 16, {2})
        \o Unlink(f, Any0) \o Close(4) \o Close(3) \o Close(5) \o Exit

truncate2 ==
    LET f == File("truncfile")
    IN  Unlink(f, Any0) \o Open(f, CREATE \cup TRUNC \cup WRONLY, Any0) \o Write(3, Bytes("a", 4), Any0)
        \o Open(f, TRUNC \cup WRONLY, Any0) \o Write(3, Bytes("x", 1), Bad)
        \o Unlink(f, Any0) \o Close(3) \o Close(4) \o Exit

truncate3(m, n) ==
    LET f == File("truncfile")
        writer == Times(m, Open(f, WRONLY, Good) \o WriteAll(3, Bytes("1", 4)) \o Close(3)
                           \o Open(f, RDONLY, Any0) \o Read(3, 16, Any0) \o Close(3))
    IN  Open(f, CREATE \cup TRUNC \cup WRONLY, Any0) \o Close(LastFd)
        \o Fork(2, writer \o Exit)
        \o Times(n, Open(f, CREATE \cup WRONLY \cup TRUNC, Good) \o WriteAll(3, Bytes("x", 3)) \o Close(3))
        \o Wait \o Unlink(f, Any0) \o Exit

writetest(n, sz) ==
    Open(File("small"), CREATE \cup RDWR, Good)
    \o Times(n, WriteAll(3, Bytes("a", sz)) \o WriteAll(3, Bytes("b", sz))) \o Close(3)
    \o Open(File("small"), RDONLY, Good) \o Read(3, n * sz * 2, {n * sz * 2}) \o Close(3)
    \o Unlink(File("small"), Good) \o Exit

writebig(blocks, bsize) ==
    LET Block(i) == << <<"", i>> >> \o Bytes("", bsize - 1)
    IN  Open(File("big"), CREATE \cup RDWR, Good)
        \o For(blocks, LAMBDA i : WriteAll(3, Block(i))) \o Close(3)
        \o Open(File("big"), RDONLY, Good)
        \o For(blocks, LAMBDA i : ReadThese(3, bsize, {Block(i)})) \o Read(3, bsize, {0})
        \o Close(3) \o Unlink(File("big"), Good) \o Exit

bigwrite(sizes) ==
    LET f == File("bigwrite")
    IN  Unlink(f, Any0)
        \o For(Len(sizes), LAMBDA i : Open(f, CREATE \cup RDWR, Good)
               \o Times(2, WriteAll(3, Bytes("", sizes[i + 1]))) \o Close(3) \o Unlink(f, Any0))
        \o Exit

bigfile(n, sz) ==
    LET f == File("bigfile.dat")
        Byte(i) == <<"", i + 1>>
    IN  Unlink(f, Any0) \o Open(f, CREATE \cup RDWR, Good)
        \o For(n, LAMBDA i : WriteAll(3, [k \in 1 .. sz |-> Byte(i)])) \o Close(3)
        \o Open(f, RDONLY, Good)
        \o For(2 * n, LAMBDA i : ReadThese(3, sz \div 2, {[k \in 1 .. sz \div 2 |-> Byte(i \div 2)]}))
        \o Read(3, sz \div 2, {0}) \o Close(3) \o Unlink(f, Any0) \o Exit

(* Two processes write through one open file. *)
sharedfd(n, sz) ==
    LET f == File("sharedfd")
        Mixed == {s \in [1 .. 2 * n * sz -> {<<"c", 0>>, <<"p", 0>>}] :
                      Cardinality({k \in DOMAIN s : s[k][1] = "c"}) = n * sz}
    IN  Unlink(f, Any0) \o Open(f, CREATE \cup RDWR, Good)
        \o Fork(2, Times(n, WriteAll(3, Bytes("c", sz))) \o Exit)
        \o Times(n, WriteAll(3, Bytes("p", sz))) \o Wait
        \o Close(3) \o Open(f, RDONLY, Good) \o ReadThese(3, 16, Mixed)
        \o Close(3) \o Unlink(f, Any0) \o Exit

(* Processes write different files at the same time. *)
fourfiles(nchild, n, sz) ==
    LET f(i) == Numbered("f", i)
        Child(i) == Open(f(i), CREATE \cup RDWR, Good) \o Times(n, WriteAll(3, Bytes(f(i)[1], sz))) \o Exit
    IN  For(nchild, LAMBDA i : Unlink(f(i), Any0) \o Fork(i + 2, Child(i)))
        \o Times(nchild, Wait)
        \o For(nchild, LAMBDA i : Open(f(i), RDONLY, Any0) \o ReadThese(3, 16, {Bytes(f(i)[1], n * sz)})
                                  \o Close(3) \o Unlink(f(i), Any0))
        \o Exit

---------------------------------------------------------------------------
(* Names *)

createtest(n) ==
    For(n, LAMBDA i : Open(Numbered("a", i), CREATE \cup RDWR, Any0) \o Close(LastFd))
    \o For(n, LAMBDA i : Unlink(Numbered("a", i), Any0)) \o Exit

opentest ==
    Open(File("echo"), RDONLY, Good) \o Close(3) \o Open(File("doesnotexist"), RDONLY, Bad) \o Exit

unlinkread ==
    LET f == File("unlinkread")
    IN  Open(f, CREATE \cup RDWR, Good) \o Write(3, Bytes("h", 5), Any0) \o Close(3)
        \o Open(f, RDWR, Good) \o Unlink(f, {0})
        \o Open(f, CREATE \cup RDWR, Any0) \o Write(4, Bytes("y", 3), Any0) \o Close(4)
        \o ReadThese(3, 16, {Bytes("h", 5)}) \o WriteAll(3, Bytes("h", 6))
        \o Close(3) \o Unlink(f, Any0) \o Exit

linktest ==
    LET f1 == File("lf1")
        f2 == File("lf2")
    IN  Unlink(f1, Any0) \o Unlink(f2, Any0) \o Open(f1, CREATE \cup RDWR, Good) \o WriteAll(3, Bytes("h", 5)) \o Close(3)
        \o Link(f1, f2, Good) \o Unlink(f1, Any0) \o Open(f1, RDONLY, Bad)
        \o Open(f2, RDONLY, Good) \o Read(3, 16, {5}) \o Close(3)
        \o Link(f2, f2, Bad) \o Unlink(f2, Any0) \o Link(f2, f1, Bad) \o Link(<<".">>, f1, Bad) \o Exit

(* Processes create and delete different files in one directory. The last    *)
(* round takes 'p' + i for the name where the rounds before took 'p' + pi:   *)
(* it removes some of the files only.                                        *)
createdelete(nchild, n) ==
    LET f(c, i) == Numbered(<<"p", "q", "r", "s">>[c + 1], i)
        Child(c) == For(n, LAMBDA i : Open(f(c, i), CREATE \cup RDWR, Good) \o Close(3)
                            \o IF i > 0 /\ i % 2 = 0 THEN Unlink(f(c, i \div 2), Good) ELSE <<>>)
        There(i) == i = 0 \/ i >= n \div 2
    IN  For(nchild, LAMBDA c : Fork(c + 2, Child(c) \o Exit)) \o Times(nchild, Wait)
        \o For(n, LAMBDA i : For(nchild, LAMBDA c :
               IF There(i) THEN Open(f(c, i), RDONLY, Good) \o Close(3) ELSE Open(f(c, i), RDONLY, Bad)))
        \o For(n, LAMBDA i : Times(nchild, Unlink(f(i, i), Any0))) \o Exit

(* Two processes create or link the same names, then open or unlink them. *)
concreate(n, rounds) ==
    LET f(i) == Numbered("C", i)
        Make(i) == Open(f(i), CREATE \cup RDWR, Good) \o Close(3)
        Opens(i) == Times(rounds, Open(f(i), RDONLY, Any0) \o Close(LastFd))
        Unlinks(i) == Times(rounds, Unlink(f(i), Any0))
        Parent(i) == IF i % 3 = 1 THEN Link(f(0), f(i), Any0) ELSE Make(i)
        Child(i) == IF i % 5 = 1 THEN Link(f(0), f(i), Any0) ELSE Make(i)
    IN  For(n, LAMBDA i : Unlink(f(i), Any0) \o Fork(2, Child(i) \o Exit) \o Parent(i) \o Wait)
        \o Open(<<".">>, RDONLY, Any0) \o ReadNames(3, 16, {f(i)[1] : i \in 0 .. n - 1}) \o Close(3)
        \o For(n, LAMBDA i : Fork(2, (IF i % 3 = 0 THEN Opens(i) ELSE Unlinks(i)) \o Exit)
                             \o (IF i % 3 = 1 THEN Opens(i) ELSE Unlinks(i)) \o Wait)
        \o Exit

(* Two processes create, link and unlink one name, each in an order of its own. *)
linkunlink(parent, child) ==
    LET x == File("x")
        Do(op) == CASE op = 0 -> Open(x, RDWR \cup CREATE, Any0) \o Close(LastFd)
                    [] op = 1 -> Link(File("echo"), x, Any0)
                    [] op = 2 -> Unlink(x, Any0)
    IN  Unlink(x, Any0) \o Fork(2, For(Len(child), LAMBDA i : Do(child[i + 1])) \o Exit)
        \o For(Len(parent), LAMBDA i : Do(parent[i + 1])) \o Wait \o Exit

exectest ==
    LET f == File("echo-ok")
        echo == WriteAll(1, << <<"O", 0>>, <<"K", 0>> >>) \o WriteAll(1, Bytes("\n", 1)) \o Exit
    IN  Unlink(f, Any0)
        \o Fork(2, Close(1) \o Open(f, CREATE \cup WRONLY, {1}) \o Exec(File("echo"), echo))
        \o Wait \o Open(f, RDONLY, Good) \o ReadThese(3, 2, {<< <<"O", 0>>, <<"K", 0>> >>}) \o Unlink(f, Any0) \o Exit

---------------------------------------------------------------------------
(* Directories *)

iputtest ==
    Mkdir(File("iputdir"), Good) \o Chdir(File("iputdir"), Good)
    \o Unlink(<<"..", "iputdir">>, Good) \o Chdir(<<"/">>, Good) \o Exit

exitiputtest ==
    Fork(2, Mkdir(File("iputdir"), Good) \o Chdir(File("iputdir"), Good)
            \o Unlink(<<"..", "iputdir">>, Good) \o Exit)
    \o Wait \o Exit

openiputtest ==
    Mkdir(File("oidir"), Good) \o Fork(2, Open(File("oidir"), RDWR, Bad) \o Exit)
    \o Unlink(File("oidir"), {0}) \o Wait \o Exit

dirtest ==
    Mkdir(File("dir0"), Good) \o Chdir(File("dir0"), Good) \o Chdir(<<"..">>, Good)
    \o Unlink(File("dir0"), Good) \o Exit

rmdot ==
    Mkdir(File("dots"), {0}) \o Chdir(File("dots"), {0})
    \o Unlink(<<".">>, Bad) \o Unlink(<<"..">>, Bad) \o Chdir(<<"/">>, {0})
    \o Unlink(<<"dots", ".">>, Bad) \o Unlink(<<"dots", "..">>, Bad) \o Unlink(File("dots"), {0}) \o Exit

dirfile ==
    LET f == File("dirfile")
        xx == <<"dirfile", "xx">>
    IN  Open(f, CREATE, Good) \o Close(3) \o Chdir(f, Bad)
        \o Open(xx, RDONLY, Bad) \o Open(xx, CREATE, Bad) \o Mkdir(xx, Bad) \o Unlink(xx, Bad)
        \o Link(File("echo"), xx, Bad) \o Unlink(f, {0})
        \o Open(<<".">>, RDWR, Bad) \o Open(<<".">>, RDONLY, Any0) \o Write(3, Bytes("x", 1), Bad) \o Close(3) \o Exit

fourteen ==
    LET s14 == "12345678901234"
        s15 == "123456789012345"
    IN  Mkdir(<<s14>>, {0}) \o Mkdir(<<s14, s15>>, {0})
        \o Open(<<s15, s15, s15>>, CREATE, Good) \o Close(3) \o Open(<<s14, s14, s14>>, RDONLY, Good) \o Close(3)
        \o Mkdir(<<s14, s14>>, Bad) \o Mkdir(<<s15, s14>>, Bad)
        \o Unlink(<<s15, s14>>, Any0) \o Unlink(<<s14, s14>>, Any0) \o Unlink(<<s14, s14, s14>>, Any0)
        \o Unlink(<<s15, s15, s15>>, Any0) \o Unlink(<<s14, s15>>, Any0) \o Unlink(<<s14>>, Any0) \o Exit

iref(n) ==
    LET d == File("irefd")
    IN  Times(n, Mkdir(d, {0}) \o Chdir(d, {0}) \o Mkdir(<<>>, Any0) \o Link(File("echo"), <<>>, Any0)
                 \o Open(<<>>, CREATE, Bad) \o Open(File("xx"), CREATE, Good) \o Close(3) \o Unlink(File("xx"), Any0))
        \o Times(n, Chdir(<<"..">>, Any0) \o Unlink(d, Any0)) \o Chdir(<<"/">>, Any0) \o Exit

bigdir(n) ==
    Unlink(File("bd"), Any0) \o Open(File("bd"), CREATE, Good) \o Close(3)
    \o For(n, LAMBDA i : Link(File("bd"), Numbered("x", i), {0})) \o Unlink(File("bd"), Any0)
    \o For(n, LAMBDA i : Unlink(Numbered("x", i), {0})) \o Exit

subdir ==
    LET dd(rest) == <<"dd">> \o rest
        dddd(name) == <<"dd", "dd", name>>
        nofile == <<"dd", "ff", "ff">>   \* "dd/ff" is a file
        nodir == <<"dd", "xx", "ff">>    \* "dd/xx" is not there
    IN  Unlink(File("ff"), Any0) \o Mkdir(dd(<<>>), {0})
        \o Open(dd(<<"ff">>), CREATE \cup RDWR, Good) \o Write(3, Bytes("f", 2), Any0) \o Close(3)
        \o Unlink(dd(<<>>), Bad) \o Mkdir(<<"/", "dd", "dd">>, {0})
        \o Open(dddd("ff"), CREATE \cup RDWR, Good) \o Write(3, Bytes("F", 2), Any0) \o Close(3)
        \o Open(<<"dd", "dd", "..", "ff">>, RDONLY, Good) \o ReadThese(3, 16, {Bytes("f", 2)}) \o Close(3)
        \o Link(dddd("ff"), dddd("ffff"), {0}) \o Unlink(dddd("ff"), {0}) \o Open(dddd("ff"), RDONLY, Bad)
        \o Chdir(dd(<<>>), {0}) \o Chdir(<<"dd", "..", "..", "dd">>, {0})
        \o Chdir(<<"dd", "..", "..", "..", "dd">>, {0}) \o Chdir(<<".", "..">>, {0})
        \o Open(dddd("ffff"), RDONLY, Good) \o Read(3, 16, {2}) \o Close(3) \o Open(dddd("ff"), RDONLY, Bad)
        \o Open(nofile, CREATE \cup RDWR, Bad) \o Open(nodir, CREATE \cup RDWR, Bad)
        \o Open(dd(<<>>), CREATE, Bad) \o Open(dd(<<>>), RDWR, Bad) \o Open(dd(<<>>), WRONLY, Bad)
        \o Link(nofile, dddd("xx"), Bad) \o Link(nodir, dddd("xx"), Bad) \o Link(dd(<<"ff">>), dddd("ffff"), Bad)
        \o Mkdir(nofile, Bad) \o Mkdir(nodir, Bad) \o Mkdir(dddd("ffff"), Bad)
        \o Unlink(nodir, Bad) \o Unlink(nofile, Bad) \o Chdir(dd(<<"ff">>), Bad) \o Chdir(dd(<<"xx">>), Bad)
        \o Unlink(dddd("ffff"), {0}) \o Unlink(dd(<<"ff">>), {0}) \o Unlink(dd(<<>>), Bad)
        \o Unlink(dd(<<"dd">>), Good) \o Unlink(dd(<<>>), Good) \o Exit

---------------------------------------------------------------------------
(* A full disk, a bad buffer, and many processes *)

(* fill: how many blocks each of the files takes before the disk is full;    *)
(* nzz: how many empty files the directory still has room for.               *)
diskfull(fill, nzz, bsize) ==
    LET big(i) == Numbered("big", i)
        zz(i) == Numbered("zz", i)
        Fill(i) == Unlink(big(i), Any0) \o Open(big(i), CREATE \cup RDWR \cup TRUNC, Good)
                   \o Times(fill[i + 1], WriteAll(3, Bytes("", bsize)))
                   \o IF i + 1 = Len(fill) THEN Write(3, Bytes("", bsize), Bad) \o Close(3) ELSE <<>>
    IN  Unlink(File("diskfulldir"), Any0) \o For(Len(fill), LAMBDA i : Fill(i) \o Close(3))
        \o For(nzz, LAMBDA i : Unlink(zz(i), Any0) \o Open(zz(i), CREATE \cup RDWR \cup TRUNC, Good) \o Close(3))
        \o Unlink(zz(nzz), Any0) \o Open(zz(nzz), CREATE \cup RDWR \cup TRUNC, Bad)
        \o Mkdir(File("diskfulldir"), Bad) \o Unlink(File("diskfulldir"), Any0)
        \o For(nzz + 1, LAMBDA i : Unlink(zz(i), Any0)) \o For(Len(fill), LAMBDA i : Unlink(big(i), Any0)) \o Exit

(* room: how many inodes are free. *)
outofinodes(room) ==
    LET zz(i) == Numbered("zz", i)
    IN  For(room, LAMBDA i : Unlink(zz(i), Any0) \o Open(zz(i), CREATE \cup RDWR \cup TRUNC, Good) \o Close(3))
        \o Unlink(zz(room), Any0) \o Open(zz(room), CREATE \cup RDWR \cup TRUNC, Bad)
        \o For(room + 1, LAMBDA i : Unlink(zz(i), Any0)) \o Exit

(* Every round writes from an address that is not mapped. *)
badwrite(rounds) ==
    LET f == File("junk")
    IN  Unlink(f, Any0)
        \o Times(rounds, Open(f, CREATE \cup WRONLY, Good) \o Write(3, << <<"fault", 0>> >>, Any0)
                         \o Close(3) \o Unlink(f, Any0))
        \o Open(f, CREATE \cup WRONLY, Good) \o WriteAll(3, Bytes("x", 1)) \o Close(3) \o Unlink(f, Any0) \o Exit

manywrites(nchild, howmany, sz) ==
    LET f(c) == Numbered("b", c)
        Child(c) == Unlink(f(c), Any0)
                    \o Times(howmany, Times(c + 1, Open(f(c), CREATE \cup RDWR, Good) \o WriteAll(3, Bytes("", sz)) \o Close(3))
                                      \o Unlink(f(c), Any0))
                    \o Unlink(f(c), Any0) \o Exit
    IN  For(nchild, LAMBDA c : Fork(c + 2, Child(c))) \o Times(nchild, Wait) \o Exit

(* user/stressfs.c with one fork. *)
stressfs(n, sz) ==
    LET f(i) == Numbered("stressfs", i)
        Work(i) == Open(f(i), CREATE \cup RDWR, Any0) \o Times(n, Write(3, Bytes("a", sz), Any0)) \o Close(3)
                   \o Open(f(i), RDONLY, Any0) \o Times(n, Read(3, sz, Any0)) \o Close(3)
    IN  Fork(2, Work(1) \o Exit) \o Work(0) \o Wait \o Exit

---------------------------------------------------------------------------
(* Other programs *)

(* user/init.c up to the shell: the console is descriptors 0, 1 and 2. *)
init ==
    Open(File("console"), RDWR, Bad) \o Mknod(File("console"), 1, Good) \o Open(File("console"), RDWR, {0})
    \o Dup(0, {1}) \o Dup(0, {2})

(* user/ls.c, on the directory in which init left the console. *)
ls(size) ==
    Open(<<".">>, RDONLY, Good) \o Stat(3, {1}, "dir", size) \o ReadNames(3, 1, {"."}) \o ReadNames(3, 1, {".."})
    \o Open(File("console"), RDONLY, {4}) \o Stat(4, {1}, "dev", 0) \o Close(4) \o Close(3) \o Exit

(* user/cat.c on a terminal: lines, then the end of the input. *)
cat(lines) ==
    FlattenSeq([n \in DOMAIN lines |-> ReadThese(0, 16, {lines[n]}) \o WriteAll(1, lines[n])])
    \o ReadThese(0, 16, {<<>>}) \o Exit

(* user/echo.c with one argument, in two processes at the same time. *)
echo(arg1, arg2) ==
    LET main(arg) == WriteAll(1, arg) \o WriteAll(1, Bytes("\n", 1)) \o Exit
    IN  Fork(2, main(arg1)) \o main(arg2)

(* The operations of user/grind.c on two names; fd is descriptor 3. *)
grind(what) ==
    LET g == "grindir"
        Touch(path) == Open(path, CREATE \cup RDWR, Any0) \o Close(LastFd)
        Reopen(path) == Close(3) \o Open(path, CREATE \cup RDWR, Any0)
    IN  CASE what = 1 -> Touch(<<g, "..", "a">>)
          [] what = 2 -> Touch(<<g, "..", g, "..", "b">>)
          [] what = 3 -> Unlink(<<g, "..", "a">>, Any0)
          [] what = 4 -> Chdir(<<g>>, {0}) \o Unlink(<<"..", "b">>, Any0) \o Chdir(<<"/">>, Any0)
          [] what = 5 -> Reopen(<<"/", g, "..", "a">>)
          [] what = 6 -> Reopen(<<"/", ".", g, ".", "..", "b">>)
          [] what = 7 -> Write(3, Bytes("", 5), Any0)
          [] what = 8 -> Read(3, 5, Any0)
          [] what = 9 -> Mkdir(<<g, "..", "a">>, Any0) \o Touch(<<"a", "..", "a", ".", "a">>) \o Unlink(<<"a", "a">>, Any0)
          [] what = 10 -> Mkdir(<<"/", "..", "b">>, Any0) \o Touch(<<g, "..", "b", "b">>) \o Unlink(<<"b", "b">>, Any0)
          [] what = 11 -> Unlink(File("b"), Any0) \o Link(<<"..", g, ".", "..", "a">>, <<"..", "b">>, Any0)
          [] what = 12 -> Unlink(<<"..", g, "..", "a">>, Any0) \o Link(<<"..", ".", "b">>, <<"/", g, "..", "a">>, Any0)

(* Its operation 21, which must always succeed. *)
grindc ==
    Unlink(File("c"), Any0) \o Open(File("c"), CREATE \cup RDWR, {3})
    \o Write(3, Bytes("x", 1), {1}) \o Stat(3, {0, 1}, "file", 1) \o Close(3) \o Unlink(File("c"), Any0)

(* Two processes, each with some of the operations. *)
go(ops) ==
    Mkdir(File("grindir"), Any0) \o Chdir(File("grindir"), {0}) \o Chdir(<<"/">>, Any0)
    \o For(Len(ops), LAMBDA i : IF ops[i + 1] = 21 THEN grindc ELSE grind(ops[i + 1])) \o Exit

iter(ops1, ops2) ==
    Unlink(File("a"), Any0) \o Unlink(File("b"), Any0) \o Fork(2, go(ops1)) \o Fork(3, go(ops2)) \o Wait \o Wait \o Exit

---------------------------------------------------------------------------
(* Programs for what the tests do not reach *)

(* One block is left and the directory is full: mkdir gets the block for the *)
(* new directory, and then cannot enter it in its parent.                    *)
mkdirfull(fill, nzz, bsize) ==
    LET big(i) == Numbered("big", i)
        zz(i) == Numbered("zz", i)
        Make(f, blocks) == Open(f, CREATE \cup RDWR \cup TRUNC, Good) \o Times(blocks, WriteAll(3, Bytes("", bsize))) \o Close(3)
    IN  For(Len(fill), LAMBDA i : Make(big(i), fill[i + 1])) \o For(nzz, LAMBDA i : Make(zz(i), 0))
        \o Mkdir(File("diskfulldir"), Bad) \o Unlink(File("diskfulldir"), Bad)
        \o Unlink(zz(0), {0}) \o Mkdir(File("diskfulldir"), {0}) \o Unlink(File("diskfulldir"), {0})
        \o For(nzz, LAMBDA i : Unlink(zz(i), Any0)) \o For(Len(fill), LAMBDA i : Unlink(big(i), {0})) \o Exit

(* Devices: one with a major number that is out of range, which cannot be    *)
(* opened, and one that no driver reads and writes.                          *)
devices(ndev) ==
    Mknod(File("far"), ndev, {0}) \o Open(File("far"), RDWR, Bad) \o Open(File("far"), CREATE \cup RDWR, Bad)
    \o Mknod(File("none"), 0, {0}) \o Mknod(File("none"), 1, Bad) \o Open(File("none"), RDWR \cup TRUNC, Good)
    \o Write(3, Bytes("x", 1), Bad) \o Read(3, 1, Bad) \o Stat(3, {1}, "dev", 0) \o Close(3)
    \o Unlink(File("far"), {0}) \o Unlink(File("none"), {0}) \o Exit
===========================================================================
