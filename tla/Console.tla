------------------------------ MODULE Console ------------------------------
(* The console and the serial line (kernel/console.c, uart.c). An operator   *)
(* takes a console c and gives the next. A character is a pair; the echo of  *)
(* a character has -1 in its second place. The keys ^P (a listing of the     *)
(* processes) and NUL (nothing) are left out.                                *)
EXTENDS Integers, Sequences, FiniteSets, FiniteSetsExt, SequencesExt

CONSTANTS
    INPUT_BUF_SIZE,    \* the characters of the input ring
    UART_TX_BUF_SIZE,  \* the characters of the output ring
    UintSize           \* the values of an input index (2^32), a multiple of INPUT_BUF_SIZE

ASSUME ConsoleAssumption == UintSize % INPUT_BUF_SIZE = 0

NoChar == <<"none", 0>>
EchoOf(ch) == <<ch[1], -1>>
BACKSPACE == <<"erase", 0>>
EOF == "^D"
Uint(n) == n % UintSize
InSlot(n) == n % INPUT_BUF_SIZE
OutSlot(n) == n % UART_TX_BUF_SIZE

(* keys: what the user will type; rx: typed and not yet read from the line;  *)
(* thr: the line's transmit FIFO, which uartinit turns on; sent: what went   *)
(* out; wrote: what programs wrote; tx_lock: the holder of uart_tx_lock;     *)
(* isr: the steps of the handler; readers, writers: who sleeps on cons.r and *)
(* on uart_tx_r.                                                             *)
consoleinit(keys) ==
    [buf |-> [n \in 0 .. INPUT_BUF_SIZE - 1 |-> NoChar], r |-> 0, w |-> 0, e |-> 0,
     tx_buf |-> [n \in 0 .. UART_TX_BUF_SIZE - 1 |-> NoChar], tx_w |-> 0, tx_r |-> 0, tx_lock |-> "nobody",
     keys |-> keys, rx |-> <<>>, thr |-> <<>>, irq |-> FALSE, isr |-> <<>>,
     readers |-> {}, writers |-> {}, sent |-> <<>>, wrote |-> <<>>]

---------------------------------------------------------------------------
(* Input *)

(* The line that is being edited, from w to e. *)
Edited(c) == [n \in 1 .. Uint(c.e - c.w) |-> c.buf[InSlot(c.w + n - 1)]]

(* How many characters an erasing key takes back. A line that was given up   *)
(* at the ring's end counts as whole: its characters stay.                   *)
Erased(c, key) ==
    LET line == Edited(c)
        ends == {n \in DOMAIN line : line[n][1] = "\n"}
    IN  IF key[1] = "^U" THEN Len(line) - Max(ends \cup {0}) ELSE Min({Len(line), 1})

(* The key in the ring, and the line ready if it ends here. *)
Store(c, ch) ==
    LET e == Uint(c.e + 1)
        ready == ch[1] \in {"\n", EOF} \/ Uint(e - c.r) = INPUT_BUF_SIZE
        d == [c EXCEPT !.buf[InSlot(c.e)] = ch, !.e = e]
    IN  IF ready THEN [d EXCEPT !.w = e, !.readers = {}] ELSE d

(* The steps that echo a character: uartputc_sync waits until the line is    *)
(* idle and writes to it, without uart_tx_lock.                              *)
uartputc_sync(ch) == << <<"idle">>, <<"thr", EchoOf(ch)>> >>

consputc(ch) ==
    IF ch = BACKSPACE THEN uartputc_sync(<<"BS", 0>>) \o uartputc_sync(<<" ", 0>>) \o uartputc_sync(<<"BS", 0>>)
    ELSE uartputc_sync(ch)

(* consoleintr, with what there is to echo while cons.lock is held.          *)
consoleintr(c, key) ==
    LET n == Erased(c, key)
        ch == IF key[1] = "\r" THEN <<"\n", key[2]>> ELSE key
    IN  IF key[1] \in {"^U", "^H"}
        THEN [c EXCEPT !.e = Uint(@ - n), !.isr = FlattenSeq([k \in 1 .. n |-> consputc(BACKSPACE)]) \o @]
        ELSE IF Uint(c.e - c.r) < INPUT_BUF_SIZE
        THEN [Store(c, ch) EXCEPT !.isr = consputc(ch) \o @]
        ELSE c

(* The handler has cons.lock while it has characters to echo: the steps that *)
(* it takes after them are getc, then acquire and start.                     *)
ConsLocked(c) == c.isr # <<>> /\ Last(c.isr) = <<"getc">> /\ Len(c.isr) > 1

(* The loop of consoleread over what is there; got counts what the call has  *)
(* read before. An end of file that follows characters is left for the next  *)
(* call. The call goes on if it wants more and the line has not ended.       *)
consoleread(c, n, got) ==
    LET line == [k \in 1 .. Uint(c.w - c.r) |-> c.buf[InSlot(c.r + k - 1)]]
        ends == {k \in DOMAIN line : line[k][1] \in {"\n", EOF}}
        first == Min(ends \cup {Len(line) + 1})
        eof == ends # {} /\ first <= n /\ line[first][1] = EOF
        count == IF eof THEN first - 1 ELSE Min({n, first, Len(line)})
        eaten == IF eof /\ got + count = 0 THEN 1 ELSE count
    IN  [c |-> [c EXCEPT !.r = Uint(@ + eaten)], data |-> SubSeq(line, 1, count),
         more |-> count < n /\ ends = {}]

---------------------------------------------------------------------------
(* Output *)

(* The steps of a write of several characters. *)
consolewrite(chars) == FlattenSeq([n \in DOMAIN chars |-> << <<"uartputc", chars[n]>>, <<"uartstart">> >>])

(* Mutant: one character too many. *)
Full_OneMore(c) == c.tx_w = c.tx_r + UART_TX_BUF_SIZE + 1

Full(c) == c.tx_w = c.tx_r + UART_TX_BUF_SIZE

(* uartputc up to uartstart. *)
uartputc(c, ch) ==
    [c EXCEPT !.tx_buf[OutSlot(c.tx_w)] = ch, !.tx_w = @ + 1, !.wrote = Append(@, ch)]

(* uartstart: what it looks at before it takes a character from the ring ... *)
CanStart(c) == c.tx_w # c.tx_r /\ c.thr = <<>>
NextChar(c) == c.tx_buf[OutSlot(c.tx_r)]
Taken(c) == [c EXCEPT !.tx_r = @ + 1, !.writers = {}]

(* ... and the write to the line, where an echo may have come in between.    *)
Transmit(c, ch) == [c EXCEPT !.thr = Append(@, ch)]

---------------------------------------------------------------------------
(* The line and its interrupt *)

(* The user waits at times until a program has read the lines before. *)
Prompt == <<"prompt", 0>>
UserReady(c) == c.keys # <<>> /\ (Head(c.keys) = Prompt => c.readers # {} /\ c.r = c.e /\ c.rx = <<>> /\ c.isr = <<>>)

(* A key is pressed, or a character goes out; the line interrupts for each   *)
(* key, and when it has become idle.                                         *)
Typed(c) ==
    IF Head(c.keys) = Prompt THEN [c EXCEPT !.keys = Tail(@)]
    ELSE [c EXCEPT !.rx = Append(@, Head(c.keys)), !.keys = Tail(@), !.irq = TRUE]
Sent(c) == [c EXCEPT !.sent = Append(@, Head(c.thr)), !.thr = Tail(@), !.irq = @ \/ Len(c.thr) = 1]

(* uartintr: it reads the characters that have arrived, then it sends.       *)
Interrupted(c) == [c EXCEPT !.irq = FALSE, !.isr = << <<"getc">> >>]

uartgetc(c) ==
    IF c.rx = <<>> THEN [c EXCEPT !.isr = << <<"acquire">>, <<"start">> >>]
    ELSE consoleintr([c EXCEPT !.rx = Tail(@)], Head(c.rx))
===========================================================================
