-------------------------------- MODULE AluMC ---------------------------------
(***************************************************************************)
(* Guest programs for module Alu: operands at the boundaries of digits,    *)
(* signs and sizes, decimal digits, and the chains in which one            *)
(* instruction depends on the flags of those before it.                    *)
(***************************************************************************)
EXTENDS Alu

Bytes8 == {0, 1, 15, 16, 127, 128, 254, 255}
Words16 == {0, 1, 15, 255, 256, 32767, 32768, 65535}
Factors16 == {0, 1, 2, 255, 256, 32767, 32768}
Digits == 0 .. 9
Packed8 == {16 * t + u : t, u \in Digits}

\* An instruction, and a program of one operand size
I(op, w, from) == [op |-> op, w |-> w, from |-> from]
Load(w, from) == I("MOV", w, from)
One(op, w) == I(op, w, {0})

Edges(w) == IF w = BYTE THEN Bytes8 ELSE Words16
Factors(w) == IF w = BYTE THEN Bytes8 ELSE Factors16

\* A number of a lower part of size v and an upper part of size w; with two
\* words its weight would leave TLC's integers
SumPrograms(v, w) ==
    {<<Load(v, Edges(v)), I("ADD", v, Edges(v)), One(op, u), Load(w, Edges(w)),
       I("ADC", w, Edges(w)), One(op, u)>> : op \in {"INC", "DEC"}, u \in Width}

CarryPrograms(w) ==
    {<<One(c, w), Load(w, Edges(w)), I("ADC", w, Edges(w)), One("CMC", w)>> :
        c \in {"STC", "CLC"}}
    \union
    {<<Load(BYTE, Bytes8), I("ADD", BYTE, Bytes8), I("ADC", BYTE, Bytes8),
       One("DEC", WORD), I("ADC", BYTE, Bytes8)>>}

ComparePrograms(w) ==
    {<<Load(w, Edges(w)), I(op, w, Edges(w)), One("JCC", w),
       One("NOT", w), I("SBB", w, Edges(w))>> : op \in {"CMP", "SUB", "NEG"}}
    \union
    {<<Load(w, Edges(w)), I(op, w, Edges(w)), One("JCC", w), One("NEG", w)>> :
        op \in {"AND", "OR", "XOR", "TEST"}}

DividePrograms(w) ==
    {<<Load(w, Factors(w)), I("MUL", w, Factors(w)), I("DIV", w, Factors(w))>>,
     <<Load(w, Edges(w)), I("IMUL", w, Edges(w)), I("IDIV", w, Edges(w))>>,
     <<Load(w, Edges(w)), One("CWD", w), I("IDIV", w, Edges(w))>>}

DecimalPrograms ==
    {<<Load(BYTE, Packed8), I(p[1], BYTE, Packed8), One(p[2], BYTE)>> :
        p \in {<<"ADD", "DAA">>, <<"SUB", "DAS">>}}
    \union
    {<<Load(WORD, {0, 256, 65280}), Load(BYTE, Digits), I(p[1], BYTE, Digits),
       One(p[2], BYTE)>> :
        p \in {<<"ADD", "AAA">>, <<"SUB", "AAS">>}}
    \union
    {<<Load(BYTE, Digits), I("MUL", BYTE, Digits), I("AAM", BYTE, {0, 10}),
       I("AAD", BYTE, {10})>>,
     <<Load(BYTE, Bytes8), I("AAM", BYTE, {2, 10, 16}), I("AAD", BYTE, {2, 10, 16})>>}

Counts == {0, 1, 2, 7, 8, 9, 15, 16, 17, 31, 32, 33}

ShiftPrograms(w) ==
    {<<Load(w, Edges(w)), I("ADD", w, Edges(w)), I(op, w, Counts)>> : op \in {"SHL", "SHR", "SAR"}}
    \union
    {<<Load(w, Edges(w)), One(c, w), I(p[1], w, Counts), I(p[2], w, Counts)>> :
        c \in {"STC", "CLC"},
        p \in {<<"ROL", "ROR">>, <<"ROR", "ROL">>, <<"RCL", "RCR">>, <<"RCR", "RCL">>}}

\* A number of two parts doubled, or a word added and the rest doubled
DoublePrograms(v, w) ==
    {<<Load(v, Edges(v)), One(c, v), I("RCL", v, {1}), Load(w, Edges(w)), I("RCL", w, {1, 2})>> :
        c \in {"STC", "CLC"}}
    \union
    {<<Load(v, Edges(v)), I("ADD", v, Edges(v)), Load(w, Edges(w)), I("RCL", w, {1})>>}

(***************************************************************************)
(* The loops of the code, one round per place, against what module Alu     *)
(* says they make of operands at the boundaries.                           *)
(***************************************************************************)
ASSUME LoopsHaveClosedForms ==
    \A w \in Width : \A v \in Edges(w), cf \in BOOLEAN, n \in 0 .. 31, op \in Shifting :
        LET s == [v |-> v, cf |-> cf] IN Loop(op, w, s)[n] = AtOnce(op, w, s, n)

GuestPrograms ==
    DoublePrograms(BYTE, WORD) \union DoublePrograms(WORD, BYTE) \union
    ShiftPrograms(BYTE) \union ShiftPrograms(WORD) \union
    DecimalPrograms \union
    SumPrograms(BYTE, BYTE) \union SumPrograms(BYTE, WORD) \union
    SumPrograms(WORD, BYTE) \union
    UNION {CarryPrograms(w) \union ComparePrograms(w) \union DividePrograms(w) :
               w \in Width}
===============================================================================
