--------------------------------- MODULE Alu ----------------------------------
(***************************************************************************)
(* The arithmetic of E2Emu: class ALU (src/execution/alu.cpp) and the      *)
(* instructions of the interpreter (src/core/emulator.cpp) that call it    *)
(* and that decide on the flags it leaves behind.                          *)
(*                                                                         *)
(* What a program computes with these instructions is spread over several  *)
(* of them, and the flags are all that links one to the next: a number of  *)
(* many words is added word by word through CF, a comparison is a          *)
(* subtraction whose flags a jump reads, decimal numbers are repaired      *)
(* after a binary addition through AF and CF.  So guest programs are       *)
(* sequences of instructions, and the properties are about what such       *)
(* sequences compute.                                                      *)
(*                                                                         *)
(* Every instruction is modelled at the destination AL or AX; INC and DEC  *)
(* are modelled at DL or DX, the pointer or counter of a loop.  Where an   *)
(* operand lies is the decoder's concern: here it is one of the values the *)
(* program can hold; of a shift or rotation it is the count, 1 or CL.      *)
(***************************************************************************)
EXTENDS Flags, Sequences

Opcode == {"MOV", "ADD", "ADC", "SUB", "SBB", "CMP", "INC", "DEC", "NEG",
           "AND", "OR", "XOR", "NOT", "TEST", "MUL", "IMUL", "DIV", "IDIV",
           "CWD", "DAA", "DAS", "AAA", "AAS", "AAM", "AAD",
           "CLC", "STC", "CMC", "JCC",
           "SHL", "SHR", "SAR", "ROL", "ROR", "RCL", "RCR"}

(***************************************************************************)
(* An instruction has an opcode, the size of its operands and the values   *)
(* its source operand may have.                                            *)
(***************************************************************************)
CONSTANTS
    Programs,           \* the guest programs, sequences of instructions
    Stale               \* what an uninitialised uint16 may hold

ASSUME ProgramsAssumption ==
    \A p \in Programs :
        /\ p \in Seq([op : Opcode, w : Width, from : SUBSET Word])
        /\ \A i \in 1 .. Len(p) : p[i].from \subseteq 0 .. p[i].w - 1

ASSUME StaleAssumption == Stale \subseteq Word

VARIABLES
    prog, pc,           \* the program in memory and the place of IP in it
    ax, dx,             \* registers
    flags,              \* CPU::flags
    prev, last,         \* history: the last two instructions and the
                        \* registers they found
    sum                 \* history: the addition of many words in progress

vars == <<prog, pc, ax, dx, flags, prev, last, sum>>

(***************************************************************************)
(* Division of C++: towards zero, the remainder with the dividend's sign.  *)
(***************************************************************************)
Abs(v) == IF v < 0 THEN -v ELSE v

Quotient(a, b) == IF (a < 0) = (b < 0) THEN Abs(a) \div Abs(b)
                                       ELSE -(Abs(a) \div Abs(b))
Remainder(a, b) == a - b * Quotient(a, b)

(***************************************************************************)
(* Flags.                                                                  *)
(***************************************************************************)
setFlags_Logic(v, w) == Shown(v, w, FALSE, flags.AF, FALSE)

\* INC and DEC save CF, compute the flags of ADD and SUB, and restore it
MutKeepCarry(f) == f
KeepCarry(f) == With(f, flags.CF, f.AF, f.OF)

(***************************************************************************)
(* The frame of every instruction.                                         *)
(***************************************************************************)
\* The values of the source operand if the next instruction has this opcode
Source(op) == IF pc <= Len(prog) /\ prog[pc].op = op THEN prog[pc].from ELSE {}

w0 == prog[pc].w
dst0 == ax % w0                                     \* AL or AX
AL == ax % BYTE
AH == ax \div BYTE

\* The instruction is over and the machine stands at place i
Goto(i, src) ==
    /\ pc' = i
    /\ prog' = prog
    /\ prev' = last
    /\ last' = [op |-> prog[pc].op, w |-> w0, src |-> src,
                ax |-> ax, dx |-> dx, cf |-> flags.CF]
Done(src) == Goto(pc + 1, src)

Put(v) == ax' = ax - dst0 + v                       \* writes AL or AX
Bytes(high, low) == ax' = BYTE * high + low

NoSum == [adds |-> FALSE, want |-> 0, got |-> 0, weight |-> 1]

Sums == [adds : BOOLEAN, want : Int, got : Int, weight : Nat]

KeepSum == sum' = sum           \* of instructions that leave CF alone
EndSum == sum' = NoSum          \* of the others

\* An addition of src continues the sum and makes its next word v.  The carry
\* in counts as an operand unless an addition before this one produced it
Summed(src, v) ==
    LET s == IF sum.adds THEN sum ELSE NoSum
        cf == IF sum.adds THEN 0 ELSE Carry(flags)
    IN  [adds   |-> TRUE,
         want   |-> s.want + s.weight * (dst0 + src + cf),
         got    |-> s.got + s.weight * v,
         weight |-> s.weight * w0]

-------------------------------------------------------------------------------
(***************************************************************************)
(* Loading, adding and subtracting.                                        *)
(***************************************************************************)
Mov == \E src \in Source("MOV") :
    Done(src) /\ Put(src) /\ UNCHANGED <<dx, flags>> /\ KeepSum

Add == \E src \in Source("ADD") :
    LET result == dst0 + src IN
    /\ Done(src)
    /\ flags' = setFlags_Add(result, dst0, src, w0)
    /\ Put(result % w0)
    /\ sum' = [adds |-> TRUE, want |-> result, got |-> result % w0, weight |-> w0]
    /\ UNCHANGED dx

Adc == \E src \in Source("ADC") :
    LET result == dst0 + src + Carry(flags) IN
    /\ Done(src)
    /\ flags' = setFlags_Add(result, dst0, src, w0)
    /\ Put(result % w0)
    /\ sum' = Summed(src, result % w0)
    /\ UNCHANGED dx

Subtract(op, borrow) == \E src \in Source(op) :
    LET result == dst0 - src - borrow IN
    /\ Done(src)
    /\ flags' = setFlags_Sub(result, dst0, src, w0)
    /\ Put(result % w0)
    /\ EndSum
    /\ UNCHANGED dx

Sub == Subtract("SUB", 0)
Sbb == Subtract("SBB", Carry(flags))

Cmp == \E src \in Source("CMP") :
    /\ Done(src)
    /\ flags' = setFlags_Sub(dst0 - src, dst0, src, w0)
    /\ EndSum
    /\ UNCHANGED <<ax, dx>>

Inc == \E src \in Source("INC") :
    LET v == dx % w0 IN
    /\ Done(src)
    /\ flags' = KeepCarry(setFlags_Add(v + 1, v, 1, w0))
    /\ dx' = dx - v + ((v + 1) % w0)
    /\ KeepSum
    /\ UNCHANGED ax

Dec == \E src \in Source("DEC") :
    LET v == dx % w0 IN
    /\ Done(src)
    /\ flags' = KeepCarry(setFlags_Sub(v - 1, v, 1, w0))
    /\ dx' = dx - v + ((v - 1) % w0)
    /\ KeepSum
    /\ UNCHANGED ax

Neg == \E src \in Source("NEG") :
    /\ Done(src)
    /\ flags' = setFlags_Sub(-dst0, 0, dst0, w0)
    /\ Put((-dst0) % w0)
    /\ EndSum
    /\ UNCHANGED dx

(***************************************************************************)
(* Logic.                                                                  *)
(***************************************************************************)
Logic(src, v) ==
    /\ Done(src)
    /\ flags' = setFlags_Logic(v % w0, w0)
    /\ EndSum
    /\ UNCHANGED dx

AndOp == \E src \in Source("AND") :
    Logic(src, And(dst0, src)) /\ Put(And(dst0, src) % w0)
OrOp == \E src \in Source("OR") :
    Logic(src, Or(dst0, src)) /\ Put(Or(dst0, src) % w0)
XorOp == \E src \in Source("XOR") :
    Logic(src, Xor(dst0, src)) /\ Put(Xor(dst0, src) % w0)
Test == \E src \in Source("TEST") :
    Logic(src, And(dst0, src)) /\ UNCHANGED ax

NotOp == \E src \in Source("NOT") :
    Done(src) /\ Put(w0 - 1 - dst0) /\ UNCHANGED <<dx, flags>> /\ KeepSum

(***************************************************************************)
(* Shifts and rotations.  The loops of the code move a word of so many     *)
(* bits place by place; here the bits S take all n places at once.         *)
(***************************************************************************)
Size(w) == IF w = BYTE THEN 8 ELSE 16

Left(S, n, size) == {i \in 0 .. size - 1 : i - n \in S}
Right(S, n, size) == {i \in 0 .. size - 1 : i + n \in S}

\* SAR moves copies of the sign in
RightSigned(S, n, size) ==
    {i \in 0 .. size - 1 : i + n \in S \/ (i + n >= size /\ size - 1 \in S)}

\* A ring of bits turned to the left, or to the right for negative n
Turned(S, n, size) == {i \in 0 .. size - 1 : (i - n) % size \in S}

\* Only five bits of the count count, but a count of 0 touches nothing.
\* setFlags_Logic clears CF after the loop has set it
MutShift(src, S, of) ==
    /\ Done(src)
    /\ IF src % BYTE = 0 THEN UNCHANGED <<ax, flags>>
       ELSE /\ Put(Value(S))
            /\ flags' = Shown(Value(S), w0, FALSE, flags.AF,
                              IF src % 32 = 1 THEN of ELSE flags.OF)
    /\ EndSum
    /\ UNCHANGED dx
Shift(src, S, of) ==
    /\ Done(src)
    /\ IF src % BYTE = 0 THEN UNCHANGED <<ax, flags>>
       ELSE /\ Put(Value(S))
            /\ flags' = Shown(Value(S), w0, FALSE, flags.AF, src % 32 = 1 /\ of)
    /\ EndSum
    /\ UNCHANGED dx

\* The bits of the destination and the place of its sign
Operand == Bits(dst0)
Top == Size(w0) - 1

Shl == \E src \in Source("SHL") :
    LET S == Left(Operand, src % 32, Size(w0)) IN Shift(src, S, Top \in S)
Shr == \E src \in Source("SHR") :
    Shift(src, Right(Operand, src % 32, Size(w0)), Top \in Operand)
Sar == \E src \in Source("SAR") :
    Shift(src, RightSigned(Operand, src % 32, Size(w0)), FALSE)

\* Only a rotation by one place writes OF
Rotate(src, S, cf, of) ==
    /\ Done(src)
    /\ Put(Value(S))
    /\ flags' = With(flags, cf, flags.AF, IF src % 32 = 1 THEN of ELSE flags.OF)
    /\ UNCHANGED dx

Rol == \E src \in Source("ROL") :
    LET S == Turned(Operand, src, Size(w0))
        cf == IF src % Size(w0) = 0 THEN flags.CF ELSE 0 \in S
    IN  Rotate(src, S, cf, (Top \in S) # cf) /\ EndSum

Ror == \E src \in Source("ROR") :
    LET S == Turned(Operand, -src, Size(w0))
        cf == IF src % Size(w0) = 0 THEN flags.CF ELSE Top \in S
    IN  Rotate(src, S, cf, (Top \in S) # (Top - 1 \in S)) /\ EndSum

\* RCL and RCR rotate the carry too: it is the bit behind the sign
MutRing == Operand
Ring == Operand \union IF flags.CF THEN {Size(w0)} ELSE {}

\* RCL by one place adds the destination and the carry to the destination
Rcl == \E src \in Source("RCL") :
    LET S == Turned(Ring, src % 32, Size(w0) + 1)
        v == Value(S \ {Size(w0)})
        cf == Size(w0) \in S
    IN  /\ Rotate(src, S \ {Size(w0)}, cf, (Top \in S) # cf)
        /\ sum' = IF src % 32 = 1 THEN Summed(dst0, v) ELSE NoSum

Rcr == \E src \in Source("RCR") :
    LET S == Turned(Ring, -(src % 32), Size(w0) + 1)
    IN  /\ Rotate(src, S \ {Size(w0)}, Size(w0) \in S, (Top \in S) # (Top - 1 \in S))
        /\ EndSum

\* The loops themselves: a round moves the value s.v by one place and leaves
\* the bit that falls out in s.cf
Round(op, w, s) ==
    LET top == w \div 2
        msb == s.v >= top
        lsb == s.v % 2 = 1
        in(b, x) == IF b THEN x ELSE 0
    IN  CASE op = "SHL" -> [v |-> (2 * s.v) % w, cf |-> msb]
          [] op = "SHR" -> [v |-> s.v \div 2, cf |-> lsb]
          [] op = "SAR" -> [v |-> (s.v \div 2) + in(msb, top), cf |-> lsb]
          [] op = "ROL" -> [v |-> (2 * s.v + in(msb, 1)) % w, cf |-> msb]
          [] op = "ROR" -> [v |-> (s.v \div 2) + in(lsb, top), cf |-> lsb]
          [] op = "RCL" -> [v |-> (2 * s.v + in(s.cf, 1)) % w, cf |-> msb]
          [] op = "RCR" -> [v |-> (s.v \div 2) + in(s.cf, top), cf |-> lsb]

Loop(op, w, s) == LET f[i \in Nat] == IF i = 0 THEN s ELSE Round(op, w, f[i - 1])
                  IN  f

Shifting == {"SHL", "SHR", "SAR", "ROL", "ROR", "RCL", "RCR"}

\* The rounds made for a count: five bits of it, ROL and ROR leave out whole turns
RoundsFor(op, w, count) ==
    IF op \in {"ROL", "ROR"} THEN (count % 32) % Size(w) ELSE count % 32

\* What n rounds make, all at once
AtOnce(op, w, s, n) ==
    LET size == Size(w)
        B == Bits(s.v)
        ring == B \union IF s.cf THEN {size} ELSE {}
        made(S, cf) == [v |-> Value(S \ {size}), cf |-> IF n = 0 THEN s.cf ELSE cf]
    IN  CASE op = "SHL" -> made(Left(B, n, size), size - n \in B)
          [] op = "SHR" -> made(Right(B, n, size), n - 1 \in B)
          [] op = "SAR" -> made(RightSigned(B, n, size),
                                (IF n > size THEN size - 1 ELSE n - 1) \in B)
          [] op = "ROL" -> made(Turned(B, n, size), 0 \in Turned(B, n, size))
          [] op = "ROR" -> made(Turned(B, -n, size), size - 1 \in Turned(B, -n, size))
          [] op = "RCL" -> made(Turned(ring, n, size + 1), size \in Turned(ring, n, size + 1))
          [] op = "RCR" -> made(Turned(ring, -n, size + 1), size \in Turned(ring, -n, size + 1))

(***************************************************************************)
(* Multiplication and division.                                            *)
(***************************************************************************)
\* CF and OF of a product p: its upper half says more than the lower one.
\* IMUL of bytes asks for the sign of the factor AL instead
Spills(op, p) ==
    LET low == p % w0
        high == (p \div w0) % w0
        negative == IF w0 = BYTE THEN Sign(AL, BYTE) ELSE Sign(low, w0)
    IN  high # IF op = "IMUL" /\ negative THEN w0 - 1 ELSE 0

Multiply(op, p) ==
    /\ flags' = With(flags, Spills(op, p), flags.AF, Spills(op, p))
    /\ IF w0 = BYTE THEN ax' = p % WORD /\ dx' = dx
                    ELSE ax' = p % WORD /\ dx' = (p \div WORD) % WORD
    /\ EndSum

Mul == \E src \in Source("MUL") : Done(src) /\ Multiply("MUL", dst0 * src)

Imul == \E src \in Source("IMUL") :
    Done(src) /\ Multiply("IMUL", Signed(dst0, w0) * Signed(src, w0))

\* AX, or DX:AX, becomes the quotient and the remainder, cut to size
MutDividedUncut(q, r) == IF w0 = BYTE THEN Bytes(r, q) /\ dx' = dx
                                      ELSE ax' = q /\ dx' = r
MutDividedSwapped(q, r) ==
    IF w0 = BYTE THEN Bytes(q % BYTE, r % BYTE) /\ dx' = dx
                 ELSE ax' = q % WORD /\ dx' = r % WORD
Divided(q, r) == IF w0 = BYTE THEN Bytes(r % BYTE, q % BYTE) /\ dx' = dx
                              ELSE ax' = q % WORD /\ dx' = r % WORD

\* A division by zero reports nothing and never writes the remainder
Divide(dividend, divisor) ==
    /\ IF divisor = 0 THEN \E r \in Stale : Divided(0, r)
       ELSE Divided(Quotient(dividend, divisor), Remainder(dividend, divisor))
    /\ UNCHANGED flags
    /\ KeepSum

Div == \E src \in Source("DIV") :
    Done(src) /\ Divide(IF w0 = BYTE THEN ax ELSE WORD * dx + ax, src)

\* The quotient of the smallest dividend and -1 is undefined in C++: the
\* host's own division traps, and there is no next state
Idiv == \E src \in Source("IDIV") :
    /\ ~(w0 = WORD /\ dx = WORD \div 2 /\ ax = 0 /\ src = WORD - 1)
    /\ Done(src)
    /\ Divide(IF w0 = BYTE THEN Signed(ax, WORD) ELSE WORD * Signed(dx, WORD) + ax,
              Signed(src, w0))

Cwd == \E src \in Source("CWD") :
    /\ Done(src)
    /\ dx' = IF Sign(ax, WORD) THEN WORD - 1 ELSE 0
    /\ UNCHANGED <<ax, flags>>
    /\ KeepSum

(***************************************************************************)
(* Decimal adjustment.                                                     *)
(***************************************************************************)
MutLowDigitOff == AL % 16 > 9
LowDigitOff == AL % 16 > 9 \/ flags.AF
HighDigitOff == AL > 153 \/ flags.CF        \* 0x99

Daa == \E src \in Source("DAA") :
    LET low == IF LowDigitOff THEN (AL + 6) % BYTE ELSE AL
        al == IF HighDigitOff THEN (low + 96) % BYTE ELSE low
    IN  /\ Done(src)
        /\ Bytes(AH, al)
        /\ flags' = Shown(al, BYTE, HighDigitOff, LowDigitOff, flags.OF)
        /\ EndSum
        /\ UNCHANGED dx

Das == \E src \in Source("DAS") :
    LET low == IF LowDigitOff THEN (AL - 6) % BYTE ELSE AL
        al == IF HighDigitOff THEN (low - 96) % BYTE ELSE low
    IN  /\ Done(src)
        /\ Bytes(AH, al)
        /\ flags' = Shown(al, BYTE, HighDigitOff \/ low > AL, LowDigitOff, flags.OF)
        /\ EndSum
        /\ UNCHANGED dx

\* AAA and AAS carry a digit that is off by one into or out of AH
Ascii(op, by) == \E src \in Source(op) :
    LET al == IF LowDigitOff THEN (AL + 6 * by) % 16 ELSE AL % 16
        ah == IF LowDigitOff THEN (AH + by) % BYTE ELSE AH
    IN  /\ Done(src)
        /\ Bytes(ah, al)
        /\ flags' = With(flags, LowDigitOff, LowDigitOff, flags.OF)
        /\ EndSum
        /\ UNCHANGED dx

Aaa == Ascii("AAA", 1)
Aas == Ascii("AAS", -1)

\* AAM with base 0 is an error that stops the machine
Aam == \E src \in Source("AAM") :
    /\ IF src = 0 THEN Goto(Len(prog) + 1, src) /\ UNCHANGED <<ax, flags>>
       ELSE /\ Done(src)
            /\ Bytes(AL \div src, AL % src)
            /\ flags' = Shown(AL % src, BYTE, flags.CF, flags.AF, flags.OF)
    /\ KeepSum
    /\ UNCHANGED dx

Aad == \E src \in Source("AAD") :
    LET al == (AH * src + AL) % BYTE IN
    /\ Done(src)
    /\ Bytes(0, al)
    /\ flags' = Shown(al, BYTE, flags.CF, flags.AF, flags.OF)
    /\ KeepSum
    /\ UNCHANGED dx

(***************************************************************************)
(* Carry flag and jumps.                                                   *)
(***************************************************************************)
SetCarry(op, cf) == \E src \in Source(op) :
    /\ Done(src)
    /\ flags' = With(flags, cf, flags.AF, flags.OF)
    /\ EndSum
    /\ UNCHANGED <<ax, dx>>

Clc == SetCarry("CLC", FALSE)
Stc == SetCarry("STC", TRUE)
Cmc == SetCarry("CMC", ~flags.CF)

\* A jump over the next instruction
Jump == \E src \in Source("JCC") : \E cc \in Condition :
    /\ Goto(IF Taken(cc, flags) /\ pc < Len(prog) THEN pc + 2 ELSE pc + 1, src)
    /\ UNCHANGED <<ax, dx, flags>>
    /\ KeepSum

-------------------------------------------------------------------------------
Fresh == [op |-> "none", w |-> BYTE, src |-> 0,
          ax |-> 0, dx |-> 0, cf |-> FALSE]

\* After a reset every register is 0 and every flag clear
Init ==
    /\ prog \in Programs /\ pc = 1
    /\ ax = 0 /\ dx = 0 /\ flags = NoFlags
    /\ prev = Fresh /\ last = Fresh /\ sum = NoSum

Next ==
    \/ Mov \/ Add \/ Adc \/ Sub \/ Sbb \/ Cmp \/ Inc \/ Dec \/ Neg
    \/ AndOp \/ OrOp \/ XorOp \/ Test \/ NotOp
    \/ Mul \/ Imul \/ Div \/ Idiv \/ Cwd
    \/ Daa \/ Das \/ Aaa \/ Aas \/ Aam \/ Aad
    \/ Clc \/ Stc \/ Cmc \/ Jump
    \/ Shl \/ Shr \/ Sar \/ Rol \/ Ror \/ Rcl \/ Rcr

Spec == Init /\ [][Next]_vars

-------------------------------------------------------------------------------
Past == [op : Opcode \union {"none"}, w : Width, src : Word,
         ax : Word, dx : Word, cf : BOOLEAN]

\* Registers hold 16 bits whatever was computed, flags are flags, and the
\* history is one of instructions
TypeOK ==
    /\ prog \in Programs
    /\ pc \in 1 .. Len(prog) + 1
    /\ ax \in Word /\ dx \in Word
    /\ flags \in FlagSet
    /\ prev \in Past /\ last \in Past
    /\ sum \in Sums

(***************************************************************************)
(* Adding numbers of many words (ADD, then ADC for every further word,     *)
(* alu.cpp:13 and alu.cpp:109): the words of the result and the carry make *)
(* up the exact sum, although loads, jumps, divisions and the INC and DEC  *)
(* of the loop's pointer and counter run between the additions.  RCL by    *)
(* one place (alu.cpp:295) takes part as the addition of a word to itself. *)
(***************************************************************************)
SumsAreExact ==
    sum.adds => sum.want = sum.got + sum.weight * Carry(flags)

\* What the destination of instruction i was, and the two numbers it compared
Dst(i) == i.ax % i.w

Compared(i) ==
    CASE i.op \in {"CMP", "SUB"} -> <<Dst(i), i.src>>
      [] i.op = "NEG" -> <<0, Dst(i)>>
      [] i.op \in {"AND", "TEST"} -> <<And(Dst(i), i.src) % i.w, 0>>
      [] i.op = "OR" -> <<Or(Dst(i), i.src) % i.w, 0>>
      [] i.op = "XOR" -> <<Xor(Dst(i), i.src) % i.w, 0>>

\* The borrow a subtraction takes into account
BorrowIn(i) == IF i.op = "SBB" /\ i.cf THEN 1 ELSE 0

\* What a conditional jump is named after, for numbers a and b of size w
Means(cc, a, b, w) ==
    LET sa == Signed(a, w)
        sb == Signed(b, w)
        fits == sa - sb >= -(w \div 2) /\ sa - sb < w \div 2
    IN  CASE cc = "O"  -> ~fits
          [] cc = "NO" -> fits
          [] cc = "B"  -> a < b
          [] cc = "AE" -> a >= b
          [] cc = "E"  -> a = b
          [] cc = "NE" -> a # b
          [] cc = "BE" -> a <= b
          [] cc = "A"  -> a > b
          [] cc = "S"  -> Sign((a - b) % w, w)
          [] cc = "NS" -> ~Sign((a - b) % w, w)
          [] cc = "L"  -> sa < sb
          [] cc = "GE" -> sa >= sb
          [] cc = "LE" -> sa <= sb
          [] cc = "G"  -> sa > sb

(***************************************************************************)
(* The flags of CMP, SUB, NEG and of the logic instructions against the    *)
(* conditional jumps (alu.cpp:485 and alu.cpp:508 against                  *)
(* emulator.cpp:1780): a jump behind one of these instructions is taken    *)
(* exactly when the relation it is named after holds between the numbers   *)
(* compared, unsigned or signed, also where the difference overflows.      *)
(* Behind SBB, the last word of a longer comparison, that is so of all     *)
(* signed jumps (GE and G are the complements of L and LE), the incoming   *)
(* borrow counted, and of B and AE but for equal operands with a borrow,   *)
(* the one case alu.cpp:490 gets wrong.                                    *)
(***************************************************************************)
ComparisonsDecide ==
    /\ last.op \in {"CMP", "SUB", "NEG", "AND", "OR", "XOR", "TEST"} =>
           \A cc \in Condition :
               Taken(cc, flags) <=>
                   Means(cc, Compared(last)[1], Compared(last)[2], last.w)
    /\ last.op = "SBB" =>
           LET a == Dst(last)
               b == last.src
               borrow == BorrowIn(last)
               signed == Signed(a, last.w) - Signed(b, last.w) - borrow
           IN  /\ Taken("L", flags) <=> signed < 0
               /\ Taken("LE", flags) <=> signed <= 0
               /\ Taken("O", flags) <=>
                      ~(signed >= -(last.w \div 2) /\ signed < last.w \div 2)
               /\ ~(a = b /\ borrow = 1) =>
                      (Taken("B", flags) <=> a - b - borrow < 0)

\* The exact product of a multiplication, and what the registers hold of it
Product(i) == IF i.op = "MUL" THEN Dst(i) * i.src
                              ELSE Signed(Dst(i), i.w) * Signed(i.src, i.w)

Registered(i) ==
    LET number(v) == IF i.op = "MUL" THEN v ELSE Signed(v, WORD)
    IN  IF i.w = BYTE THEN number(ax) ELSE WORD * number(dx) + ax

\* The products that fit the operand's size: the upper half is the extension
\* of the lower one, by zeros or by its sign
Small(i) == IF i.op = "MUL" THEN 0 .. i.w - 1 ELSE -(i.w \div 2) .. (i.w \div 2) - 1

\* IMUL of bytes looks at the sign of the factor AL, which is not that of the
\* product's lower byte
SignMistaken(i) ==
    /\ i.op = "IMUL" /\ i.w = BYTE
    /\ Sign(Dst(i), BYTE) # Sign(Product(i) % BYTE, BYTE)

(***************************************************************************)
(* Multiplication and division (alu.cpp:31 and alu.cpp:68, and the         *)
(* registers each pair of callers passes).  A product, unsigned or signed, *)
(* of bytes or of words, is in the registers whole, and CF and OF tell     *)
(* alike whether its lower half alone would do.  Nothing is said of these  *)
(* flags where IMUL of bytes looks at the wrong sign (alu.cpp:55): see     *)
(* ProductFlagsAsDocumented.                                               *)
(* Division undoes multiplication: a product divided by one factor is the  *)
(* other factor.  A word extended by CWD is the quotient times the divisor *)
(* plus the remainder, but for the quotient that does not fit.             *)
(***************************************************************************)
ProductsAndQuotients ==
    /\ last.op \in {"MUL", "IMUL"} =>
           /\ Registered(last) = Product(last)
           /\ flags.CF = flags.OF
           /\ SignMistaken(last) \/ (flags.CF <=> Product(last) \notin Small(last))
    /\ (/\ <<prev.op, last.op>> \in {<<"MUL", "DIV">>, <<"IMUL", "IDIV">>}
        /\ prev.w = last.w /\ prev.src = last.src /\ last.src # 0)
       => /\ ax % last.w = Dst(prev)
          /\ (IF last.w = BYTE THEN AH ELSE dx) = 0
    /\ (/\ prev.op = "CWD" /\ last.op = "IDIV" /\ last.w = WORD
        /\ last.src # 0
        /\ ~(last.ax = WORD \div 2 /\ last.src = WORD - 1))
       => /\ Signed(ax, WORD) * Signed(last.src, WORD) + Signed(dx, WORD)
                = Signed(last.ax, WORD)
          /\ Abs(Signed(dx, WORD)) < Abs(Signed(last.src, WORD))

(***************************************************************************)
(* "CF and OF set if high byte (AH) is sign extension of low byte (AL)"    *)
(* (alu.cpp:54) of IMUL of bytes: the flags tell whether the product's     *)
(* upper byte is the sign extension of its lower byte, and as for every    *)
(* other multiplication they are set when it is not.                       *)
(***************************************************************************)
ProductFlagsAsDocumented ==
    last.op = "IMUL" /\ last.w = BYTE =>
        (flags.CF <=> AH # IF Sign(AL, BYTE) THEN BYTE - 1 ELSE 0)

(***************************************************************************)
(* "Carry flag (borrow)" (alu.cpp:489) of SUB, CMP and "Subtract borrow    *)
(* flag (SBB instruction)" (alu.h:45): CF is set exactly when the          *)
(* subtraction, the incoming borrow of SBB included, needs a borrow.       *)
(***************************************************************************)
CarryIsBorrow ==
    last.op \in {"SUB", "SBB", "CMP"} =>
        (flags.CF <=> Dst(last) - last.src - BorrowIn(last) < 0)

IsPacked(v) == v % 16 <= 9 /\ v \div 16 <= 9
Unpacked(v) == 10 * (v \div 16) + (v % 16)

(***************************************************************************)
(* Decimal arithmetic (alu.cpp:346 to alu.cpp:460): binary additions and   *)
(* subtractions of packed decimal numbers, repaired by DAA and DAS, and    *)
(* of digits, repaired by AAA and AAS, give the decimal result with its    *)
(* carry; AAM splits a product of digits, and AAD joins what AAM split.    *)
(***************************************************************************)
DecimalsAreExact ==
    LET a == prev.ax % BYTE
        b == prev.src
        pair == <<prev.op, last.op>>
        digits == prev.w = BYTE /\ a <= 9 /\ b <= 9
        packed == prev.w = BYTE /\ IsPacked(a) /\ IsPacked(b)
        n == Unpacked(a) + Unpacked(b)
        d == Unpacked(a) - Unpacked(b)
        h == prev.ax \div BYTE
    IN  /\ pair = <<"ADD", "DAA">> /\ packed =>
               IsPacked(AL) /\ Unpacked(AL) + 100 * Carry(flags) = n
        /\ pair = <<"SUB", "DAS">> /\ packed =>
               IsPacked(AL) /\ Unpacked(AL) - 100 * Carry(flags) = d
        /\ pair = <<"ADD", "AAA">> /\ digits =>
               AL <= 9 /\ AH = (h + Carry(flags)) % BYTE
                       /\ AL + 10 * Carry(flags) = a + b
        /\ pair = <<"SUB", "AAS">> /\ digits =>
               AL <= 9 /\ AH = (h - Carry(flags)) % BYTE
                       /\ AL - 10 * Carry(flags) = a - b
        /\ pair = <<"MUL", "AAM">> /\ digits /\ last.src = 10 =>
               AL <= 9 /\ 10 * AH + AL = a * b
        /\ pair = <<"AAM", "AAD">> /\ prev.src = last.src /\ prev.src # 0 =>
               AL = a /\ AH = 0

(***************************************************************************)
(* Rotations undo each other (alu.cpp:248 to alu.cpp:344): ROL and ROR, or *)
(* RCL and RCR, by the same count give back the destination, for any       *)
(* count, more than the number of bits too; through the carry they give    *)
(* back the carry as well.                                                 *)
(***************************************************************************)
RotationsUndo ==
    prev.w = last.w /\ prev.src = last.src =>
        LET pair == {prev.op, last.op}
        IN  /\ pair \in {{"ROL", "ROR"}, {"RCL", "RCR"}} => ax = prev.ax
            /\ pair = {"RCL", "RCR"} => flags.CF = prev.cf

\* What the loop of the code makes of the destination of instruction i
Looped(i) ==
    Loop(i.op, i.w, [v |-> Dst(i), cf |-> i.cf])[RoundsFor(i.op, i.w, i.src)]

(***************************************************************************)
(* Shifts multiply and divide by powers of two (alu.cpp:183 to             *)
(* alu.cpp:246): SHL keeps what of the product fits the operand, SHR       *)
(* rounds down a number without sign and SAR one with a sign, for counts   *)
(* beyond the number of bits too; the jumps behind them find the sign and  *)
(* the zero of the result.  The bit that fell out is lost: CF is clear     *)
(* behind every shift, since setFlags_Logic clears what the loop set       *)
(* (alu.cpp:194), so that JO behind SHL by one place finds the sign of the *)
(* result instead of a change of sign; behind SHR by one it finds the sign *)
(* of the operand, behind SAR none.  And what a shift or a rotation does   *)
(* at once is what the loop of the code does place by place, CF of a       *)
(* rotation included.                                                      *)
(***************************************************************************)
ShiftsAreExact ==
    LET n == last.src % 32
        p == 2 ^ IF n < 16 THEN n ELSE 16
        v == ax % last.w
    IN  /\ last.op = "SHL" => v = IF p >= last.w THEN 0
                                  ELSE (Dst(last) % (last.w \div p)) * p
        /\ last.op = "SHR" => v = Dst(last) \div p
        /\ last.op = "SAR" => Signed(v, last.w) = Signed(Dst(last), last.w) \div p
        /\ last.op \in {"SHL", "SHR", "SAR"} /\ last.src % BYTE # 0 =>
               /\ ~Taken("B", flags)
               /\ Taken("E", flags) <=> v = 0
               /\ Taken("S", flags) <=> Signed(v, last.w) < 0
               /\ n # 1 => (Taken("L", flags) <=> Signed(v, last.w) < 0)
               /\ n = 1 => (Taken("O", flags) <=>
                               \/ last.op = "SHL" /\ Signed(v, last.w) < 0
                               \/ last.op = "SHR" /\ Signed(Dst(last), last.w) < 0)
        /\ last.op \in Shifting => v = Looped(last).v
        /\ last.op \in {"ROL", "ROR", "RCL", "RCR"} => flags.CF = Looped(last).cf
===============================================================================
