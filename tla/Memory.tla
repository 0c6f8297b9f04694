------------------------------- MODULE Memory -------------------------------
(***************************************************************************)
(* memcpy, memset, memmove and memcmp of memory.c as loops over the bytes  *)
(* of a small memory, from every call that the C standard allows.  A byte  *)
(* has one of BYTE values (256).                                           *)
(***************************************************************************)
EXTENDS Integers

CONSTANTS
    SIZE,       \* bytes of memory
    BYTE

ASSUME MemoryAssumption == SIZE \in Nat /\ BYTE \in Nat \ {0}

Cells == 0 .. SIZE - 1

VARIABLES
    ram,
    call,       \* the call being made: fn, dest, src (the byte c of memset), n
    i,          \* loop counter, DONE once the function has returned
    result,     \* what memcmp returned
    ram0        \* history: ram at the call

memoryVars == <<ram, call, i, result, ram0>>

DONE == -1

MemoryIdle ==
    /\ ram = [a \in Cells |-> 0] /\ ram0 = ram
    /\ call = [fn |-> "none", dest |-> 0, src |-> 0, n |-> 0]
    /\ i = DONE
    /\ result = 0

\* Both ranges lie in memory; those of memcpy do not overlap (restrict).
Calls ==
    {c \in [fn : {"memcpy", "memset", "memmove", "memcmp"},
            dest : Cells, src : Cells, n : 0 .. SIZE] :
        /\ c.dest + c.n <= SIZE
        /\ c.fn # "memset" => c.src + c.n <= SIZE
        /\ c.fn = "memcpy" => c.src + c.n <= c.dest \/ c.dest + c.n <= c.src}

\* Backwards the other way round.
Backward_swapped(c) == c.fn = "memmove" /\ c.src > c.dest

\* memmove copies from the end when the source lies below the destination.
Backward(c) == c.fn = "memmove" /\ c.src < c.dest

\* memmove to the same place returns at once.
MemoryInit ==
    /\ ram \in [Cells -> 0 .. BYTE - 1] /\ ram0 = ram
    /\ call \in Calls
    /\ i = IF call.fn = "memmove" /\ call.src = call.dest THEN DONE
           ELSE IF Backward(call) THEN call.n
           ELSE 0
    /\ result = 0

----------------------------------------------------------------------------
Store(a, b) == ram' = [ram EXCEPT ![a] = b] /\ UNCHANGED <<call, result, ram0>>

CopyForward ==
    /\ call.fn \in {"memcpy", "memmove"} /\ ~Backward(call)
    /\ i \in 0 .. call.n - 1
    /\ Store(call.dest + i, ram[call.src + i])
    /\ i' = i + 1

CopyBackward ==
    /\ Backward(call)
    /\ i > 0
    /\ Store(call.dest + i - 1, ram[call.src + i - 1])
    /\ i' = i - 1

\* The int c is cut to a byte.
SetByte ==
    /\ call.fn = "memset"
    /\ i \in 0 .. call.n - 1
    /\ Store(call.dest + i, call.src % BYTE)
    /\ i' = i + 1

CompareByte ==
    LET a == ram[call.dest + i]
        b == ram[call.src + i]
    IN  /\ call.fn = "memcmp"
        /\ i \in 0 .. call.n - 1
        /\ IF a = b THEN i' = i + 1 /\ UNCHANGED result
           ELSE i' = DONE /\ result' = IF a < b THEN -1 ELSE 1
        /\ UNCHANGED <<ram, call, ram0>>

Return ==
    /\ i = IF Backward(call) THEN 0 ELSE call.n
    /\ call.fn # "none"
    /\ i' = DONE
    /\ UNCHANGED <<ram, call, result, ram0>>

MemoryNext == CopyForward \/ CopyBackward \/ SetByte \/ CompareByte \/ Return

MemorySpec == MemoryInit /\ [][MemoryNext]_memoryVars

----------------------------------------------------------------------------
\* What the C standard says memory holds after the call.
Mandated(c, r) ==
    [a \in Cells |->
        IF a \notin c.dest .. c.dest + c.n - 1 \/ c.fn \in {"none", "memcmp"} THEN r[a]
        ELSE IF c.fn = "memset" THEN c.src % BYTE
        ELSE r[c.src + (a - c.dest)]]

\* The first place where the two ranges of a memcmp differ decides.
Compared(c, r) ==
    LET differ == {k \in 0 .. c.n - 1 : r[c.dest + k] # r[c.src + k]}
    IN  IF differ = {} THEN 0
        ELSE LET k == CHOOSE k \in differ : \A j \in differ : k <= j
             IN  IF r[c.dest + k] < r[c.src + k] THEN -1 ELSE 1

\* "They must be implemented as the C specification mandates": memmove moves
\* the bytes the source held at the call even where the ranges overlap, no
\* function writes outside its destination, and memcmp orders as it should.
AsMandated ==
    i = DONE =>
        /\ ram = Mandated(call, ram0)
        /\ call.fn = "memcmp" => result = Compared(call, ram0)
=============================================================================
