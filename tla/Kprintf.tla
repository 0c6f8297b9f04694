------------------------------ MODULE Kprintf ------------------------------
(***************************************************************************)
(* kprintf.c and the polled output of serial.c: the format string is read  *)
(* up to its NUL, a conversion at a time, each one's characters go through *)
(* the transmit register of the UART one by one, and numbers are written   *)
(* from the right into a buffer on the stack.  That calls do not mix is    *)
(* kprintf_lock's doing (module Spinlock).  An int64_t has LONG_BITS bits, *)
(* an int half as many.  Of the UART (a 16550) the model has what the      *)
(* kernel's writes to it depend on: the divisor latch switch, loopback,    *)
(* and the transmit register, which a second write overruns.               *)
(***************************************************************************)
EXTENDS Integers, Sequences, SequencesExt

CONSTANTS
    LONG_BITS,
    DEC_BUF, HEX_BUF,   \* sizes of the buffers of putint and puthex: 21 and 17
    Formats,            \* format strings, NUL included
    Strings,            \* arguments of %s
    Longs               \* arguments of numeric conversions, as LONG_BITS unsigned bits

VARIABLES
    fmt,        \* the format, <<>> when no call is made
    p,          \* the character the loop looks at, 0 when it does not run
    todo,       \* characters handed to the serial port and not yet written
    uart,       \* its control bits and what was looped back to its receiver
    thr,        \* its transmit register, a sequence of at most one character
    wire,       \* what has been transmitted
    said,       \* history: everything handed to the serial port
    number      \* history: the last number converted and its text

kprintfVars == <<fmt, p, todo, uart, thr, wire, said, number>>

NUL == "NUL"
Digit == <<"0", "1", "2", "3", "4", "5", "6", "7", "8", "9", "a", "b", "c", "d", "e", "f">>

Silent ==
    /\ todo = <<>> /\ thr = <<>> /\ wire = <<>> /\ said = <<>>
    /\ number = <<0, 10, <<"0">>>>

\* Not in use.
KprintfIdle ==
    /\ Silent
    /\ fmt = <<>> /\ p = 0
    /\ uart = [works |-> FALSE, dlab |-> FALSE, loop |-> FALSE,
               rx |-> 0, divisor |-> 12, cpu |-> "boot"]

\* The firmware leaves the UART in any mode; one that is missing or faulty
\* returns nothing in loopback.
KprintfInit ==
    /\ Silent
    /\ fmt = <<>> /\ p = 0
    /\ uart \in [works : BOOLEAN, dlab : BOOLEAN, loop : BOOLEAN,
                 rx : {0}, divisor : {12}, cpu : {"boot"}]

----------------------------------------------------------------------------
(* serial_init: the UART's registers and the writes to them. *)

UART_DATA == 0
UART_INT_ENABLE == 1
UART_FIFO_CTRL == 2
UART_LINE_CTRL == 3
UART_MODEM_CTRL == 4

Bit(v, b) == (v \div 2^b) % 2 = 1

\* What a write does to the UART's mode (no character is sent by serial_init
\* outside loopback).
outb(u, reg, val) ==
    IF reg = UART_LINE_CTRL THEN [u EXCEPT !.dlab = Bit(val, 7)]
    ELSE IF reg = UART_MODEM_CTRL THEN [u EXCEPT !.loop = Bit(val, 4)]
    ELSE IF reg = UART_DATA /\ u.dlab THEN [u EXCEPT !.divisor = val]
    ELSE IF reg = UART_DATA /\ u.loop /\ u.works THEN [u EXCEPT !.rx = val]
    ELSE u

Write(u, writes) == FoldLeft(LAMBDA acc, w : outb(acc, w[1], w[2]), u, writes)

SelfTest(u) ==
    Write(u, << <<UART_INT_ENABLE, 0>>, <<UART_LINE_CTRL, 128>>, <<UART_DATA, 1>>,
                <<UART_INT_ENABLE, 0>>, <<UART_LINE_CTRL, 3>>, <<UART_FIFO_CTRL, 199>>,
                <<UART_MODEM_CTRL, 11>>, <<UART_MODEM_CTRL, 30>>, <<UART_DATA, 174>> >>)

\* A UART that fails the test halts the kernel.
serial_init ==
    /\ uart.cpu = "boot"
    /\ LET u == SelfTest(uart)
       IN  uart' = IF u.rx # 174 THEN [u EXCEPT !.cpu = "halted"]
                   ELSE [Write(u, << <<UART_MODEM_CTRL, 15>> >>) EXCEPT !.cpu = "up"]
    /\ UNCHANGED <<fmt, p, todo, thr, wire, said, number>>

----------------------------------------------------------------------------
(* Numbers. *)

RECURSIVE Digits(_, _, _)

\* The while loop, with pos cells of the buffer left.
Digits(value, base, pos) ==
    IF value = 0 \/ pos = 0 THEN <<>>
    ELSE Append(Digits(value \div base, base, pos - 1), Digit[(value % base) + 1])

\* With a cell for a sign it never writes.
uint_to_str_signed(value, base, buf_size) ==
    IF value = 0 THEN <<"0">> ELSE Digits(value, base, buf_size - 2)

uint_to_str(value, base, buf_size) ==
    IF value = 0 THEN <<"0">> ELSE Digits(value, base, buf_size - 1)

\* Two's complement of w bits.
Signed(v, w) == LET u == v % 2^w IN IF u < 2^(w - 1) THEN u ELSE u - 2^w

\* The negation of the least int64_t overflows; neg leaves it as it is.
kprintf_putint(value) ==
    IF value < 0
    THEN <<"-">> \o uint_to_str((-value) % 2^LONG_BITS, 10, DEC_BUF)
    ELSE uint_to_str(value, 10, DEC_BUF)

kprintf_puthex(value) == uint_to_str(value, 16, HEX_BUF)

\* serial_write_string sends a carriage return before a newline.
Lines(s) == FoldLeft(LAMBDA out, c : out \o IF c = "\n" THEN <<"\r", c>> ELSE <<c>>, <<>>, s)

----------------------------------------------------------------------------
(* One turn of the loop, for each kind of character. *)

is_long == fmt[p + 1] = "l"

\* The place of the conversion character behind "%".
Conv == IF is_long THEN p + 2 ELSE p + 1

\* The loop reads the next character once the serial port has taken the last.
Says(chars, next) ==
    /\ todo' = chars
    /\ said' = said \o chars
    /\ p' = next
    /\ UNCHANGED <<fmt, uart, thr, wire>>

At(c) == p > 0 /\ todo = <<>> /\ fmt[p] = c

kprintf(f) ==
    /\ uart.cpu = "up"
    /\ fmt = <<>>
    /\ fmt' = f /\ p' = 1
    /\ UNCHANGED <<todo, uart, thr, wire, said, number>>

Converts(c) == At("%") /\ fmt[Conv] = c

End == At(NUL) /\ Says(<<>>, 0) /\ UNCHANGED number

Plain ==
    /\ p > 0 /\ todo = <<>> /\ fmt[p] \notin {"%", NUL}
    /\ Says(<<fmt[p]>>, p + 1)
    /\ UNCHANGED number

ConvertString(s) == Converts("s") /\ Says(Lines(s), Conv + 1) /\ UNCHANGED number

ConvertChar(c) == Converts("c") /\ Says(<<c>>, Conv + 1) /\ UNCHANGED number

ConvertInt(v) ==
    LET value == Signed(v, IF is_long THEN LONG_BITS ELSE LONG_BITS \div 2)
        text == kprintf_putint(value)
    IN  /\ Converts("d")
        /\ Says(text, Conv + 1)
        /\ number' = <<value, 10, text>>

ConvertHex(v) ==
    LET value == v % 2^(IF is_long THEN LONG_BITS ELSE LONG_BITS \div 2)
        text == kprintf_puthex(value)
    IN  /\ Converts("x")
        /\ Says(text, Conv + 1)
        /\ number' = <<value, 16, text>>

ConvertPercent == Converts("%") /\ Says(<<"%">>, Conv + 1) /\ UNCHANGED number

\* Like any other character.
ConvertNul_as_other == Converts(NUL) /\ Says(<<"%", NUL>>, Conv + 1) /\ UNCHANGED number

\* The format ends inside a conversion: goto done.
ConvertNul == Converts(NUL) /\ Says(<<"%">>, 0) /\ UNCHANGED number

ConvertOther ==
    /\ At("%")
    /\ fmt[Conv] \notin {"s", "c", "d", "x", "%", NUL}
    /\ Says(<<"%", fmt[Conv]>>, Conv + 1)
    /\ UNCHANGED number

----------------------------------------------------------------------------
(* The serial port. *)

\* Without a look at the line status register.
serial_write_char_blind ==
    /\ todo # <<>>
    /\ thr' = <<Head(todo)>>
    /\ todo' = Tail(todo)
    /\ UNCHANGED <<fmt, p, uart, wire, said, number>>

serial_write_char ==
    /\ todo # <<>>
    /\ thr = <<>>
    /\ thr' = <<Head(todo)>>
    /\ todo' = Tail(todo)
    /\ UNCHANGED <<fmt, p, uart, wire, said, number>>

Transmit ==
    /\ thr # <<>>
    /\ wire' = IF uart.dlab \/ uart.loop THEN wire ELSE wire \o thr
    /\ thr' = <<>>
    /\ UNCHANGED <<fmt, p, todo, uart, said, number>>

KprintfNext ==
    \/ serial_init
    \/ \E f \in Formats : kprintf(f)
    \/ End \/ Plain
    \/ \E s \in Strings : ConvertString(s)
    \/ \E c \in {"\n"} : ConvertChar(c)
    \/ \E v \in Longs : ConvertInt(v) \/ ConvertHex(v)
    \/ ConvertPercent \/ ConvertNul \/ ConvertOther
    \/ serial_write_char
    \/ Transmit

----------------------------------------------------------------------------
(* Properties. *)

\* The number a text denotes.
Denotes(text, base) ==
    FoldLeft(LAMBDA n, c : n * base + (CHOOSE d \in 0 .. 15 : Digit[d + 1] = c), 0, text)

\* The text of a number is its digits, all of them and no leading zero, for the
\* longest numbers (which fill their buffer to the last cell) and for the least
\* int64_t, whose negation overflows, too.
NumberRight ==
    LET value == number[1] base == number[2] text == number[3]
        digits == IF value < 0 THEN Tail(text) ELSE text
    IN  /\ value < 0 => Head(text) = "-"
        /\ Denotes(digits, base) = IF value < 0 THEN -value ELSE value
        /\ Head(digits) = "0" => Len(digits) = 1

\* The loop never looks behind the NUL of the format, not even when the format
\* ends in "%" or "%l".
WithinFormat == p <= Len(fmt)

\* Every character goes out once and in order, whatever mode the firmware left
\* the UART in: none is written over another that has not been sent yet, and
\* none ends up in the divisor latch or is looped back.
NothingLost == wire \o thr \o todo = said
============================================================================
