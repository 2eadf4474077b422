------------------------------ MODULE PrintBuf ------------------------------
(***************************************************************************)
(* The buffer that JSON is printed into, and that the parser collects      *)
(* strings and numbers in: printbuf.c.  Its arithmetic is on int, where a  *)
(* sum that does not fit is undefined: the sums are Fits's arguments.      *)
(***************************************************************************)
EXTENDS Integers

CONSTANTS
    InitialSize,    \* 32: what printbuf_new allocates
    Slack,          \* 8: what an extension allocates in excess
    IntMax          \* INT_MAX

\* What the constants have to be; the modules that use this one assume it.
PrintBufAssumption ==
    /\ InitialSize \in Nat /\ Slack \in Nat /\ IntMax \in Nat
    /\ InitialSize > 0 /\ Slack > 0 /\ InitialSize < IntMax /\ Slack < IntMax

VARIABLES
    size,   \* the allocated bytes
    bpos,   \* where the next byte goes
    top,    \* one past the last byte that the last call wrote, 0 if none
    ended,  \* buf[bpos] is the zero byte
    ret     \* the last call succeeded

vars == <<size, bpos, top, ended, ret>>

\* a sum of two ints is an int
Fits(x) == x <= IntMax
Biggest(a, b) == IF a > b THEN a ELSE b

\* printbuf_extend: the size after a successful call
Extended(min) ==
    IF size >= min THEN size
    ELSE IF size > IntMax \div 2 THEN min + Slack
    ELSE Biggest(2 * size, min + Slack)

\* ... and when it refuses
ExtendRefuses(min) == size < min /\ min > IntMax - Slack

Fail == ret' = FALSE /\ UNCHANGED <<size, bpos, ended>> /\ top' = 0

\* printbuf_memappend, sprintbuf: n bytes and the zero byte behind them
AppendRefuses(n) == n > IntMax - bpos - 1

Memappend(n) ==
    LET min == bpos + n + 1 IN
    /\ ~ AppendRefuses(n)
    /\ \/ size > min /\ UNCHANGED size
       \/ size <= min /\ ~ ExtendRefuses(min) /\ size' = Extended(min)
    /\ bpos' = bpos + n
    /\ top' = bpos + n + 1
    /\ ended' = TRUE
    /\ ret' = TRUE

MemappendFails(n) ==
    /\ AppendRefuses(n) \/ size < bpos + n + 1
    /\ Fail

\* printbuf_memset: len bytes at an offset, the bytes before them zeroed
MemsetRefuses(offset, len) == len > IntMax - offset

Memset(offset, len) ==
    LET needed == offset + len IN
    /\ ~ MemsetRefuses(offset, len)
    /\ \/ size >= needed /\ UNCHANGED size
       \/ size < needed /\ ~ ExtendRefuses(needed) /\ size' = Extended(needed)
    /\ bpos' = Biggest(bpos, needed)
    /\ top' = needed
    /\ ended' = (ended /\ needed <= bpos)
    /\ ret' = TRUE

MemsetFails(offset, len) ==
    /\ MemsetRefuses(offset, len) \/ size < offset + len
    /\ Fail

\* printbuf_reset
Reset ==
    /\ bpos' = 0
    /\ ended' = TRUE
    /\ top' = 1
    /\ ret' = TRUE
    /\ UNCHANGED size
-----------------------------------------------------------------------------
\* printbuf_new
Init ==
    /\ size = InitialSize
    /\ bpos = 0
    /\ top = 1
    /\ ended = TRUE
    /\ ret = TRUE

Next ==
    \/ \E n \in 0 .. IntMax : Memappend(n) \/ MemappendFails(n)
    \/ \E offset, len \in 0 .. IntMax : Memset(offset, len) \/ MemsetFails(offset, len)
    \/ Reset

Spec == Init /\ [][Next]_vars
-----------------------------------------------------------------------------
(***************************************************************************)
(* Properties                                                              *)
(***************************************************************************)
\* The type of the state.
TypeOK ==
    /\ size \in 1 .. IntMax
    /\ bpos \in 0 .. IntMax
    /\ top \in Nat
    /\ ended \in BOOLEAN
    /\ ret \in BOOLEAN

\* No call writes past the allocated bytes, and the zero byte that ends the
\* text is inside them; sizes of half of INT_MAX and more are the hard case.
WritesInside == top <= size /\ bpos <= size /\ (ended => bpos < size)

\* No sum of a call that is not refused passes INT_MAX: printbuf.c refuses
\* "to prevent signed integer overflows with large buffers".
NoOverflow ==
    \A n \in 0 .. IntMax :
        /\ ~ AppendRefuses(n) => Fits(bpos + n + 1)
        /\ ~ AppendRefuses(n) /\ ~ ExtendRefuses(bpos + n + 1) => Fits(Extended(bpos + n + 1))
        /\ \A offset \in 0 .. IntMax :
             ~ MemsetRefuses(offset, n) /\ ~ ExtendRefuses(offset + n) => Fits(Extended(offset + n))

\* The buffer is used inside its memory, and the arithmetic inside int.
BufferSafe == TypeOK /\ WritesInside /\ NoOverflow
=============================================================================
