------------------------------ MODULE Programs ------------------------------
(* User programs as sequences of system calls: the shell (user/sh.c) with its *)
(* parser, init, echo and cat, and the tests of processes and pipes that the *)
(* repository ships (user/usertests.c, user/schedulertest.c). A call is a    *)
(* record; a fork carries what the child goes on to do.                      *)
EXTENDS Integers, Sequences, SequencesExt

(* The n-th value that a program has stored (process numbers and file        *)
(* descriptors) is written as the argument -n.                               *)
AnyValue == 99  \* no particular value is expected

Fork(child, fail) == [call |-> "fork", child |-> child, fail |-> fail]
Wait(pid, status) == [call |-> "wait", pid |-> pid, status |-> status]
Call(name, arg) == [call |-> name, arg |-> arg]
WriteTo(fd, bytes) == [call |-> "write", arg |-> fd, bytes |-> bytes]
WriteAll(fd, bytes) == [call |-> "writeall", arg |-> fd, bytes |-> bytes]  \* or it fails
Exit(status) == << Call("exit", status) >>

(* A test that finds a result other than it expects prints it and exits. *)
Fail == << Call("fail", 1) >>
ForkOrFail(child) == Fork(child, Fail)

(* for(;;); *)
Spin == << Call("spin", 0) >>

---------------------------------------------------------------------------
(* The shell's parser. A line is a sequence of tokens. A parser returns the  *)
(* set of its results: the command and the tokens that are left, or nothing  *)
(* at all where the shell panics over a syntax error.                        *)

MAXARGS == 10
Symbols == {"|", "(", ")", ";", "&", "<", ">", ">>"}

EXEC(argv) == [type |-> "EXEC", argv |-> argv]
redircmd(cmd, r) == [type |-> "REDIR", cmd |-> cmd, file |-> r.file, fd |-> r.fd]
pipecmd(left, right) == [type |-> "PIPE", left |-> left, right |-> right]
listcmd(left, right) == [type |-> "LIST", left |-> left, right |-> right]
backcmd(cmd) == [type |-> "BACK", cmd |-> cmd]

SyntaxError == {}
Parsed(cmd, rest) == [cmd |-> cmd, rest |-> rest]

peek(ts, toks) == ts # <<>> /\ Head(ts) \in toks
IsWord(ts) == ts # <<>> /\ Head(ts) \notin Symbols

(* The redirections at the front of the line, in order. *)
RECURSIVE parseredirs(_, _)
parseredirs(redirs, ts) ==
    IF ~peek(ts, {"<", ">", ">>"}) THEN {Parsed(redirs, ts)}
    ELSE IF ~IsWord(Tail(ts)) THEN SyntaxError
    ELSE parseredirs(Append(redirs, [file |-> ts[2], fd |-> IF ts[1] = "<" THEN 0 ELSE 1]),
                     SubSeq(ts, 3, Len(ts)))

Redirected(cmd, redirs) == FoldLeft(redircmd, cmd, redirs)

(* The arguments of a command, with redirections anywhere among them. *)
RECURSIVE parseargs(_, _, _)
parseargs(argv, redirs, ts) ==
    IF ts = <<>> \/ peek(ts, {"|", ")", "&", ";"}) THEN {Parsed(Redirected(EXEC(argv), redirs), ts)}
    ELSE IF ~IsWord(ts) \/ Len(argv) + 1 >= MAXARGS THEN SyntaxError
    ELSE UNION {parseargs(Append(argv, Head(ts)), r.cmd, r.rest) : r \in parseredirs(redirs, Tail(ts))}

RECURSIVE parseline(_)

parseblock(ts) ==
    UNION {IF ~peek(c.rest, {")"}) THEN SyntaxError
           ELSE {Parsed(Redirected(c.cmd, r.cmd), r.rest) : r \in parseredirs(<<>>, Tail(c.rest))} :
           c \in parseline(Tail(ts))}

parseexec(ts) ==
    IF peek(ts, {"("}) THEN parseblock(ts)
    ELSE UNION {parseargs(<<>>, r.cmd, r.rest) : r \in parseredirs(<<>>, ts)}

RECURSIVE parsepipe(_)
parsepipe(ts) ==
    UNION {IF ~peek(c.rest, {"|"}) THEN {c}
           ELSE {Parsed(pipecmd(c.cmd, d.cmd), d.rest) : d \in parsepipe(Tail(c.rest))} :
           c \in parseexec(ts)}

RECURSIVE Background(_)
Background(c) ==
    IF peek(c.rest, {"&"}) THEN Background(Parsed(backcmd(c.cmd), Tail(c.rest))) ELSE c

parseline(ts) ==
    UNION {IF ~peek(c.rest, {";"}) THEN {c}
           ELSE {Parsed(listcmd(c.cmd, d.cmd), d.rest) : d \in parseline(Tail(c.rest))} :
           c \in {Background(c) : c \in parsepipe(ts)}}

parsecmd(ts) == {c.cmd : c \in {c \in parseline(ts) : c.rest = <<>>}}

---------------------------------------------------------------------------
(* The shell at work *)

(* runcmd: what a child of the shell does. p[0] and p[1] of the k-th pipe    *)
(* that it or its ancestors opened are the next values stored.               *)
RECURSIVE runcmd(_, _)
runcmd(cmd, stored) ==
    CASE cmd.type = "EXEC" ->
            IF cmd.argv = <<>> THEN Exit(1) ELSE << [call |-> "exec", argv |-> cmd.argv] >> \o Exit(0)
      [] cmd.type = "REDIR" ->
            << Call("close", cmd.fd), [call |-> "open", file |-> cmd.file] >> \o runcmd(cmd.cmd, stored)
      [] cmd.type = "LIST" ->
            << Fork(runcmd(cmd.left, stored), Exit(1)), Wait(0, AnyValue) >> \o runcmd(cmd.right, stored + 1)
      [] cmd.type = "PIPE" ->
            LET p0 == -(stored + 1)
                p1 == -(stored + 2)
                Child(fd, end, sub, n) ==
                    << Call("close", fd), Call("dup", end), Call("close", p0), Call("close", p1) >>
                    \o runcmd(sub, n)
            IN  << Call("pipe", 0),
                   Fork(Child(1, p1, cmd.left, stored + 2), Exit(1)),
                   Fork(Child(0, p0, cmd.right, stored + 3), Exit(1)),
                   Call("close", p0), Call("close", p1), Wait(0, AnyValue), Wait(0, AnyValue) >> \o Exit(0)
      [] cmd.type = "BACK" -> << Fork(runcmd(cmd.cmd, stored), Exit(1)) >> \o Exit(0)

(* One line of the main loop: a child parses the line and runs it; then the  *)
(* shell waits for the next one.                                             *)
ShellChild(line) ==
    IF parsecmd(line) = SyntaxError THEN Exit(1)
    ELSE CHOOSE steps \in {runcmd(cmd, 0) : cmd \in parsecmd(line)} : TRUE
getcmd == << Call("read", 0) >>
Sh(child) == << Fork(child, Exit(1)), Wait(0, AnyValue) >> \o getcmd

(* init: it starts a shell and waits for it, and for orphans, for ever. *)
InitProgram(sh) == << Fork(sh, Fail), Call("initwait", 0) >>

(* exec: echo writes its arguments and a separator after each, cat copies. *)
echo(argv) ==
    [n \in 1 .. 2 * (Len(argv) - 1) |->
        LET i == (n + 1) \div 2
        IN  WriteTo(1, << IF n % 2 = 1 THEN argv[i + 1] ELSE IF i + 1 < Len(argv) THEN " " ELSE "\n" >>)]
    \o Exit(0)

cat == << Call("cat", 0) >> \o Exit(0)

Installed == {"echo", "cat"}
Program(argv) == IF argv[1] = "echo" THEN echo(argv) ELSE cat

---------------------------------------------------------------------------
(* The tests. Rounds stand for the hundreds of times that a test repeats     *)
(* itself.                                                                   *)

exitwait(rounds) ==
    FlattenSeq([i \in 1 .. rounds |-> << ForkOrFail(Exit(i - 1)), Wait(-i, i - 1) >>]) \o Exit(0)

killstatus == << ForkOrFail(Spin), Call("sleep", 1), Call("kill", -1), Wait(0, -1) >> \o Exit(0)

reparent ==
    << Call("getpid", 0),
       ForkOrFail(<< Fork(Exit(0), << Call("kill", -1) >> \o Fail) >> \o Exit(0)),
       Wait(-2, AnyValue) >> \o Exit(0)

(* The child and its first child both fork a second time, if they can. *)
reparent2 ==
    LET second == << Fork(Exit(0), Exit(0)) >> \o Exit(0)
    IN  << ForkOrFail(<< Fork(second, second) >> \o second), Wait(0, AnyValue) >> \o Exit(0)

twochildren ==
    << ForkOrFail(Exit(0)), ForkOrFail(Exit(0)), Wait(0, AnyValue), Wait(0, AnyValue) >> \o Exit(0)

(* n children so far; when fork fails they are waited for, and then there    *)
(* are no more.                                                              *)
RECURSIVE forktest(_, _)
forktest(n, most) ==
    LET waits == [i \in 1 .. n |-> Call("waitok", 0)] \o << Call("waitnone", 0) >> \o Exit(0)
    IN  IF n = most THEN Fail
        ELSE << Fork(Exit(0), IF n = 0 THEN Fail ELSE waits) >> \o forktest(n + 1, most)

(* The writer sends the numbers 0, 1, ... in n writes of size bytes; the     *)
(* reader asks for more every time.                                          *)
pipe1(n, size) ==
    LET sent(w) == [i \in 1 .. size |-> ToString((w - 1) * size + i - 1)]
    IN  << Call("pipe", 0),
           ForkOrFail(<< Call("close", -1) >>
                      \o [w \in 1 .. n |-> WriteAll(-2, sent(w))] \o Exit(0)),
           Call("close", -2),
           [call |-> "readall", arg |-> -1, cc |-> 1, bytes |-> FlattenSeq([w \in 1 .. n |-> sent(w)])],
           Call("close", -1), Wait(0, 0) >> \o Exit(0)

(* spinners children spin, one writes a byte and then spins; all are killed. *)
preempt(spinners) ==
    LET p0 == -(spinners + 1)
        p1 == -(spinners + 2)
    IN  [i \in 1 .. spinners |-> ForkOrFail(Spin)]
        \o << Call("pipe", 0),
              ForkOrFail(<< Call("close", p0), WriteAll(p1, <<"x">>), Call("close", p1) >> \o Spin),
              Call("close", p1),
              [call |-> "read1", arg |-> p0],
              Call("close", p0) >>
        \o [i \in 1 .. spinners |-> Call("kill", -i)] \o << Call("kill", -(spinners + 3)) >>
        \o [i \in 1 .. spinners + 1 |-> Wait(0, AnyValue)] \o Exit(0)

(* A child that sleeps and one that computes. *)
schedulertest ==
    << Fork(<< Call("sleep", 1) >> \o Exit(0), Fail), Fork(Exit(0), Fail),
       Wait(0, AnyValue), Wait(0, AnyValue) >> \o Exit(0)
===========================================================================
