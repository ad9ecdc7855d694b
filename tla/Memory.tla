-------------------------------- MODULE Memory --------------------------------
(***************************************************************************)
(* The memory of E2Emu (src/core/memory.cpp) and its addresses             *)
(* (src/core/cpu.cpp).  A memory is the function of the cells that were    *)
(* ever written; all the others hold 0.                                    *)
(***************************************************************************)
EXTENDS Flags

PARA == 16
MEMORY_SIZE == PARA * WORD

\* Nothing wraps here: the last segments reach beyond the memory
Physical(seg, off) == PARA * seg + off

IsMemory(m) ==
    /\ m = [a \in DOMAIN m |-> m[a]]
    /\ DOMAIN m \subseteq 0 .. MEMORY_SIZE - 1
    /\ \A a \in DOMAIN m : m[a] \in 0 .. BYTE - 1

Cell(m, a) == IF a \in DOMAIN m THEN m[a] ELSE 0

\* The cells of a byte or a word at address a
Cells(a, w) == IF w = BYTE THEN {a} ELSE {a, a + 1}

MutValid(a, w) == a < MEMORY_SIZE
Valid(a, w) == \A c \in Cells(a, w) : c < MEMORY_SIZE

\* Outside of the memory reads give ones, and writes are dropped: of a word
\* also the half that lies inside
Read(m, a, w) ==
    IF ~Valid(a, w) THEN w - 1
    ELSE IF w = BYTE THEN Cell(m, a) ELSE Cell(m, a) + BYTE * Cell(m, a + 1)

Write(m, a, v, w) ==
    IF ~Valid(a, w) THEN m
    ELSE [c \in DOMAIN m \union Cells(a, w) |->
             IF c = a THEN v % BYTE
             ELSE IF c \in Cells(a, w) THEN v \div BYTE
             ELSE m[c]]
===============================================================================
