------------------------------- MODULE MachineMC -------------------------------
(***************************************************************************)
(* Guest programs for module Machine: stacks whose pointer is odd, wraps   *)
(* around or leaves the memory, all the operands, and blocks and strings   *)
(* at the ends of segments and of memory that overlap.                     *)
(***************************************************************************)
EXTENDS Machine

Instr(op, w, r, o, v, rep) == [op |-> op, w |-> w, r |-> r, o |-> o, v |-> v, rep |-> rep]
At(mod, rm, disp, over) == [mod |-> mod, rm |-> rm, disp |-> disp, over |-> over]
InReg(r) == At(3, r, 0, NoOverride)

One(op) == Instr(op, WORD, 0, InReg(0), 0, "")
Of(op, r) == Instr(op, WORD, r, InReg(0), 0, "")
On(op, w, r, o) == Instr(op, w, r, o, 0, "")
Go(op, v) == Instr(op, WORD, 0, InReg(0), v, "")
Set(r, v) == Instr("MOVI", WORD, 0, InReg(r), v, "")
Rep(op, w, rep) == Instr(op, w, 0, InReg(0), 0, rep)
SetSeg(s, v) == <<Set(AX, v), On("MOVTOSEG", WORD, s, InReg(AX))>>

Guest(code, data, segment) == [code |-> code, data |-> data, segment |-> segment]
NoData == [c \in {} |-> 0]

\* 0700h, the segment that ends with the memory, and the last one
Low == 1792
High == 61440
Last == 65535

(***************************************************************************)
(* The stack.                                                              *)
(***************************************************************************)
Fill == <<Set(AX, 4660), Set(CX, 2), Set(DX, 255), Set(BX, 65535),
          Set(BP, 256), Set(SI, 3), Set(DI, 32768)>>
Tops == {0, 1, 2, 3, 10, 65535}

Stackings ==
    {<<Of("PUSH", r), Of("PUSH", q), Of("POP", p), Of("POP", r)>> :
        r, q \in {AX, SP, DI}, p \in Reg}
    \union {<<Of("PUSHS", s), Of("PUSHS", CS), Of("POPS", t), Of("POPS", s)>> :
               s, t \in {ES, SS, DS}}
    \union {<<One("PUSHA"), Of("POP", SP)>> , <<Of("PUSH", AX), One("POPA"), One("POPA")>>,
            <<One("PUSHA"), Set(BX, 7), On("XCHG", BYTE, AH, InReg(BX)),
              Of("PUSH", SP), Of("POP", BP), One("POPA")>>,
            <<On("PUSHO", WORD, 0, InReg(SP)), Of("POP", SP), Of("PUSH", BX),
              On("PUSHO", WORD, 0, At(2, 2, 65279, SS)), Of("POP", DX), Of("POP", DX)>>,
            <<Of("PUSH", BX), One("POPF"), One("PUSHF"), One("CLD"), One("CLI"), One("SAHF"),
              One("LAHF"), One("POPF"), One("PUSHF"), Of("POP", AX), One("SAHF")>>,
            <<Of("PUSH", AX), Of("PUSH", AX), On("LEA", WORD, DI, At(1, 6, 254, SS)),
              Rep("STOS", WORD, "E"), Of("POP", AX), Of("POP", BX)>>}

\* Procedures that push, call each other and are called through registers and
\* memory; n instructions stand in front
Procedures(n) ==
    {<<Go("CALL", n + 8), Set(SI, n + 8), On("CALLO", WORD, 0, InReg(SI)),
       Instr("MOVI", WORD, 0, At(0, 7, 0, NoOverride), n + 8, ""),
       On("CALLO", WORD, 0, At(0, 7, 0, NoOverride)), Set(SI, n + 15),
       On("JMPO", WORD, 0, InReg(SI)), Of("PUSH", CX), Go("CALL", n + 12), Of("POP", BX),
       One("RET"), One("PUSHF"), One("POPF"), One("RET"), Go("JMP", 0)>>,
     <<Set(CX, 3), One("PUSHF"), Go("LOOPNE", n + 2), Set(CX, 2), One("PUSHA"),
       Go("LOOP", n + 5), One("POPA"), Go("LOOPE", n + 1), One("RET")>>,
     <<Set(AX, 16384), One("SAHF"), Set(CX, 3), One("STI"), Go("LOOPE", n + 4),
       Set(CX, 0), Of("PUSH", AX), Go("LOOPNE", n + 7)>>}

StackGuests ==
    {Guest(Fill \o <<Set(SP, top)>> \o code, NoData, segment) :
        code \in Stackings \union Procedures(8), top \in Tops, segment \in {Low, High, Last}}

(***************************************************************************)
(* Operands and flags.                                                     *)
(***************************************************************************)
Operands == [mod : 0 .. 3, rm : Reg, disp : {0, 127, 128, 65535}, over : {NoOverride, ES, SS}]

OperandGuests ==
    {Guest(Fill \o SetSeg(ES, 4096)
           \o <<On("LEA", WORD, DX, o), On("MOVFROM", w, r, o), On("XCHG", w, r, o),
                On("MOVTO", w, BX, o), On("MOVFROMSEG", WORD, ES, o),
                Instr("MOVI", w, 0, o, 43981, "")>>, NoData, segment) :
        o \in Operands, w \in Width, r \in {AX, AH}, segment \in {Low, High}}
    \union
    {Guest(Fill \o <<Of("XCHGA", SI), Instr("STOREA", w, 0, At(0, 0, 0, over), 65535, ""),
                     Instr("LOADA", w, 0, At(0, 0, 0, over), 65535, ""), One("STI")>>,
           NoData, segment) :
        w \in Width, over \in {NoOverride, SS}, segment \in {Low, High}}

(***************************************************************************)
(* Strings.  Offsets around the end of the segment, where the bytes are    *)
(* 0, 7, 7, 0, 7, 7, ...; in segment High the upper ones leave the memory. *)
(***************************************************************************)
Around == {65533, 65535, 0, 2}
Pattern(segment) ==
    [c \in {Physical(segment, o) : o \in (0 .. 6) \union (65529 .. 65541)}
           \ (MEMORY_SIZE .. AddressSpace) |-> IF c % 3 = 0 THEN 0 ELSE 7]

StringGuests ==
    {Guest(<<Set(AX, 1799), Set(SI, si), Set(DI, di), Set(CX, n), One(dir),
             Rep(op, w, rep), One("STOS")>>, Pattern(segment), segment) :
        op \in Strings, w \in Width, rep \in {"", "E", "NE"},
        si \in Around, di \in Around, n \in {0, 1, 4}, dir \in {"CLD", "STD"},
        segment \in {Low, High}}

(***************************************************************************)
(* Strings to print: across the end of a segment, and from the last        *)
(* addresses of the host into the first ones.                              *)
(***************************************************************************)
Printed(segment, end) ==
    [c \in ({Physical(segment, o) : o \in 65530 .. 65537} \ (MEMORY_SIZE .. AddressSpace))
           \union {0, 1} |-> IF c \in {1, Physical(segment, end)} THEN DOLLAR ELSE 65]

PrintGuests ==
    {Guest(<<Set(DX, dx), One("PRINT"), Set(DX, 65535), One("PRINT")>>,
           Printed(segment, end), segment) :
        dx \in {65530, 65533, 65535}, end \in {65535, 65537}, segment \in {Low, 4096}}
    \union
    {Guest(<<Set(DX, 65535), One("PRINT"), One("STI"), One("PRINT")>>, Printed(Last, 0), Last)}

GuestsMC == StackGuests \union OperandGuests \union StringGuests \union PrintGuests
===============================================================================
