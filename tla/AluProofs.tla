------------------------------- MODULE AluProofs -------------------------------
(***************************************************************************)
(* Theorems about module Alu, for all guest programs: of any length, with  *)
(* any operands, mixing bytes and words in any way.                        *)
(***************************************************************************)
EXTENDS Alu, FlagsProofs, SequenceTheorems, WellFoundedInduction, TLAPS

-------------------------------------------------------------------------------
(* Types *)

\* The registers and flags of a state, with the types that are needed of them.
LEMMA Registers ==
  ASSUME TypeOK
  PROVE  /\ ax \in Word /\ dx \in Word
         /\ flags \in FlagSet /\ flags.CF \in BOOLEAN /\ flags.AF \in BOOLEAN
         /\ flags.OF \in BOOLEAN
         /\ Carry(flags) \in 0 .. 1
         /\ AL \in 0 .. BYTE - 1 /\ AH \in 0 .. BYTE - 1
         /\ ax = BYTE * AH + AL
         /\ ax \in Int /\ dx \in Int /\ AL \in Int /\ AH \in Int
<1>1. ax \in Word /\ dx \in Word /\ flags \in FlagSet
  BY SMT DEF TypeOK
<1>2. flags.CF \in BOOLEAN /\ flags.AF \in BOOLEAN /\ flags.OF \in BOOLEAN
  BY <1>1, SMT DEF FlagSet
<1>3. Carry(flags) \in 0 .. 1
  BY SMT DEF Carry
<1>4. /\ AL \in 0 .. BYTE - 1 /\ AH \in 0 .. BYTE - 1
      /\ ax = BYTE * AH + AL
  <2>1. ax \in Int /\ 0 <= ax /\ ax <= 65535
    BY <1>1, WordFacts, InWord, SMT
  <2>2. /\ AL \in Int /\ 0 <= AL /\ AL <= 255
        /\ AH \in Int /\ 0 <= AH /\ AH <= 255
        /\ ax = BYTE * AH + AL
    BY <2>1, Sizes, SMT DEF AL, AH
  <2> QED BY <2>2, InWord, SMT
<1>5. ax \in Int /\ dx \in Int
  BY <1>1, WordFacts, SMT
<1>6. AL \in Int /\ AH \in Int
  BY <1>5, Sizes, SMT DEF AL, AH
<1> QED BY <1>1, <1>2, <1>3, <1>4, <1>5, <1>6, SMT

\* The next instruction and its operands.
LEMMA Frame ==
  ASSUME TypeOK, NEW op, NEW src \in Source(op)
  PROVE  /\ pc \in 1 .. Len(prog) /\ Len(prog) \in Nat
         /\ prog[pc].op = op /\ op \in Opcode
         /\ w0 \in Width
         /\ src \in 0 .. w0 - 1
         /\ dst0 \in 0 .. w0 - 1 /\ dst0 <= ax
         /\ w0 \in Int /\ src \in Int /\ dst0 \in Int
<1>1. prog \in Programs /\ pc \in 1 .. Len(prog) + 1
  BY SMT DEF TypeOK
<1>2. prog \in Seq([op : Opcode, w : Width, from : SUBSET Word])
  BY <1>1, ProgramsAssumption, Zenon
<1>3. pc <= Len(prog) /\ prog[pc].op = op /\ src \in prog[pc].from
  BY SMT DEF Source
<1>4. pc \in 1 .. Len(prog) /\ Len(prog) \in Nat
  BY <1>1, <1>2, <1>3, SMT
<1>5. prog[pc] \in [op : Opcode, w : Width, from : SUBSET Word]
  BY <1>2, <1>4, ElementOfSeq, Zenon
<1>6. w0 \in Width /\ op \in Opcode
  BY <1>3, <1>5, SMT DEF w0
<1>7. src \in 0 .. w0 - 1
  BY <1>1, <1>3, <1>4, ProgramsAssumption, SMT DEF w0
<1>8. dst0 \in 0 .. w0 - 1 /\ dst0 <= ax
  <2>1. ax \in Nat
    BY Registers, SMT DEF Word
  <2>2. w0 \in Nat /\ w0 > 0
    BY <1>6, WidthFacts, SMT
  <2> QED BY <2>1, <2>2, SMT DEF dst0
<1>9. w0 \in Int /\ src \in Int /\ dst0 \in Int
  BY <1>6, <1>7, <1>8, WidthFacts, SMT
<1> QED BY <1>3, <1>4, <1>6, <1>7, <1>8, <1>9, SMT

\* Writing AL or AX, or AL and AH.
LEMMA PutType ==
  ASSUME TypeOK, NEW op, NEW src \in Source(op), NEW v \in 0 .. w0 - 1, Put(v)
  PROVE  ax' \in Word
  BY LowType, Registers, Frame DEF Put, dst0

LEMMA BytesType ==
  ASSUME NEW high \in 0 .. BYTE - 1, NEW low \in 0 .. BYTE - 1, Bytes(high, low)
  PROVE  ax' \in Word
<1>1. /\ high \in Int /\ 0 <= high /\ high <= 255
      /\ low \in Int /\ 0 <= low /\ low <= 255
  BY InWord, Sizes, SMT
<1>2. ax' \in Int /\ 0 <= ax' /\ ax' <= 65535
  BY <1>1, Sizes, SMT DEF Bytes
<1> QED BY <1>2, InWord, SMT

LEMMA QuotientType ==
  ASSUME NEW a \in Int, NEW b \in Int, b # 0
  PROVE  Quotient(a, b) \in Int /\ Remainder(a, b) \in Int
<1>1. Abs(a) \in Nat /\ Abs(b) \in Nat \ {0}
  BY SMT DEF Abs
<1>2. Abs(a) \div Abs(b) \in Int
  BY <1>1, SMT
<1>3. Quotient(a, b) \in Int
  BY <1>2, SMT DEF Quotient
<1> QED BY <1>3, SMT DEF Remainder

LEMMA DividedType ==
  ASSUME TypeOK, NEW q \in Int, NEW r \in Int, Divided(q, r)
  PROVE  ax' \in Word /\ dx' \in Word
<1>1. CASE w0 = BYTE
  <2>1. Bytes(r % BYTE, q % BYTE) /\ dx' = dx
    BY <1>1 DEF Divided
  <2>2. ax' \in Word
    BY <2>1, ModWord, BytesType
  <2> QED BY <2>1, <2>2, Registers
<1>2. CASE w0 # BYTE
  BY <1>2, ModWord DEF Divided
<1> QED BY <1>1, <1>2

LEMMA DivideType ==
  ASSUME TypeOK, NEW a \in Int, NEW b \in Int, Divide(a, b)
  PROVE  ax' \in Word /\ dx' \in Word
<1>1. CASE b = 0
  <2>1. PICK r \in Stale : Divided(0, r)
    BY <1>1 DEF Divide
  <2>2. r \in Int
    BY StaleAssumption, WordFacts
  <2> QED BY <2>1, <2>2, DividedType
<1>2. CASE b # 0
  BY <1>2, QuotientType, DividedType DEF Divide
<1> QED BY <1>1, <1>2

\* A product leaves registers and flags.
LEMMA MultiplyType ==
  ASSUME TypeOK, NEW op, NEW p \in Int, w0 \in Width, Multiply(op, p)
  PROVE  ax' \in Word /\ dx' \in Word /\ flags' \in FlagSet
<1>1. Spills(op, p) \in BOOLEAN
  BY Zenon DEF Spills
<1>2. flags' \in FlagSet
  BY <1>1, Registers, WithType, Zenon DEF Multiply
<1>3. p \div WORD \in Int
  BY Sizes, SMT
<1>4. ax' \in Word /\ dx' \in Word
  BY <1>3, ModWord, Registers DEF Multiply
<1> QED BY <1>2, <1>4

LEMMA DigitsType ==
  ASSUME TypeOK
  PROVE  LowDigitOff \in BOOLEAN /\ HighDigitOff \in BOOLEAN
<1>1. AL \in Int
  BY Registers, Sizes, SMT
<1>2. LowDigitOff \in BOOLEAN
  BY <1>1, Registers, SMT DEF LowDigitOff
<1> QED BY <1>1, <1>2, Registers, SMT DEF HighDigitOff

-------------------------------------------------------------------------------
(* Every instruction keeps the types *)

Typed == ax' \in Word /\ dx' \in Word /\ flags' \in FlagSet

\* One instruction of the program is executed and the machine goes on at i.
Sequenced == \E op : \E src \in Source(op) : \E i \in 1 .. Len(prog) + 1 :
                 Goto(i, src)

LEMMA DoneSequenced ==
  ASSUME TypeOK, NEW op, NEW src \in Source(op), Done(src)
  PROVE  Sequenced
<1>1. pc + 1 \in 1 .. Len(prog) + 1
  BY Frame, SMT
<1> QED BY <1>1, Zenon DEF Done, Sequenced

LEMMA SumType ==
  ASSUME NEW a \in BOOLEAN, NEW x \in Int, NEW y \in Int, NEW z \in Nat
  PROVE  [adds |-> a, want |-> x, got |-> y, weight |-> z] \in Sums
  BY SMT DEF Sums

LEMMA NoSumType == NoSum \in Sums
<1>1. FALSE \in BOOLEAN /\ 0 \in Int /\ 1 \in Nat
  BY SMT
<1> QED BY <1>1, SumType, Zenon DEF NoSum

LEMMA SummedType ==
  ASSUME TypeOK, w0 \in Width, dst0 \in Int, NEW x \in Int, NEW v \in Int
  PROVE  Summed(x, v) \in Sums
<1> DEFINE s == IF sum.adds THEN sum ELSE NoSum
           cf == IF sum.adds THEN 0 ELSE Carry(flags)
           d == dst0 + x + cf
<1>1. s.want \in Int /\ s.got \in Int /\ s.weight \in Nat
  <2>1. sum \in Sums
    BY DEF TypeOK
  <2>2. s \in Sums
    BY <2>1, NoSumType
  <2> HIDE DEF s
  <2> QED BY <2>2, SMT DEF Sums
<1>2. w0 \in Nat /\ Carry(flags) \in Int
  BY WidthFacts, Registers, SMT
<1>3. d \in Int
  BY <1>2, SMT
<1>4. Summed(x, v) = [adds |-> TRUE, want |-> s.want + s.weight * d,
                      got |-> s.got + s.weight * v, weight |-> s.weight * w0]
  BY SMT DEF Summed
<1> HIDE DEF d, s
<1>5. /\ s.want + s.weight * d \in Int /\ s.got + s.weight * v \in Int
      /\ s.weight * w0 \in Nat
  BY <1>1, <1>2, <1>3, SMT
<1> QED BY <1>4, <1>5, SumType, Zenon

LEMMA MovStep ==
  ASSUME TypeOK, Mov
  PROVE  Typed /\ Sequenced /\ sum' = sum /\ flags' = flags
<1>1. PICK src \in Source("MOV") :
         Done(src) /\ Put(src) /\ UNCHANGED <<dx, flags>> /\ KeepSum
  BY DEF Mov
<1>2. ax' \in Word
  BY <1>1, Frame, PutType
<1> QED BY <1>1, <1>2, Registers, DoneSequenced DEF Typed, KeepSum

LEMMA AddStep == ASSUME TypeOK, Add PROVE Typed /\ Sequenced /\ sum' \in Sums
<1>1. PICK src \in Source("ADD") :
         /\ Done(src)
         /\ flags' = setFlags_Add(dst0 + src, dst0, src, w0)
         /\ Put((dst0 + src) % w0)
         /\ sum' = [adds |-> TRUE, want |-> dst0 + src,
                    got |-> (dst0 + src) % w0, weight |-> w0]
         /\ UNCHANGED dx
  BY DEF Add
<1>2. dst0 + src \in Int /\ w0 \in Width /\ w0 \in Nat
  BY Frame, WidthFacts, SMT
<1>3. (dst0 + src) % w0 \in 0 .. w0 - 1 /\ (dst0 + src) % w0 \in Int
  BY <1>2, ModType, SMT
<1>4. ax' \in Word
  BY <1>1, <1>3, PutType
<1>5. flags' \in FlagSet
  BY <1>1, <1>2, Frame, AddFlagsType
<1>6. sum' \in Sums
  BY <1>1, <1>2, <1>3, SumType
<1> QED BY <1>1, <1>4, <1>5, <1>6, Registers, DoneSequenced DEF Typed

LEMMA AdcStep == ASSUME TypeOK, Adc PROVE Typed /\ Sequenced /\ sum' \in Sums
<1>1. PICK src \in Source("ADC") :
         /\ Done(src)
         /\ flags' = setFlags_Add(dst0 + src + Carry(flags), dst0, src, w0)
         /\ Put((dst0 + src + Carry(flags)) % w0)
         /\ sum' = Summed(src, (dst0 + src + Carry(flags)) % w0)
         /\ UNCHANGED dx
  BY DEF Adc
<1>2. dst0 + src + Carry(flags) \in Int /\ w0 \in Width
  BY Frame, Registers, SMT
<1>3. ax' \in Word
  BY <1>1, <1>2, ModType, PutType
<1>4. flags' \in FlagSet
  BY <1>1, <1>2, Frame, AddFlagsType
<1>5. sum' \in Sums
  <2>1. (dst0 + src + Carry(flags)) % w0 \in Int /\ src \in Int /\ dst0 \in Int
    BY <1>2, Frame, ModType, SMT
  <2> QED BY <1>1, <1>2, <2>1, SummedType
<1> QED BY <1>1, <1>3, <1>4, <1>5, Registers, DoneSequenced DEF Typed

LEMMA SubtractStep ==
  ASSUME TypeOK, NEW op, NEW borrow \in 0 .. 1, Subtract(op, borrow)
  PROVE  Typed /\ Sequenced /\ sum' = NoSum
<1>1. PICK src \in Source(op) :
         /\ Done(src)
         /\ flags' = setFlags_Sub(dst0 - src - borrow, dst0, src, w0)
         /\ Put((dst0 - src - borrow) % w0)
         /\ EndSum
         /\ UNCHANGED dx
  BY DEF Subtract
<1>2. dst0 - src - borrow \in Int /\ w0 \in Width
  BY Frame, SMT
<1>3. ax' \in Word
  BY <1>1, <1>2, ModType, PutType
<1>4. flags' \in FlagSet
  BY <1>1, <1>2, Frame, SubFlagsType
<1> QED BY <1>1, <1>3, <1>4, Registers, DoneSequenced DEF Typed, EndSum

LEMMA CmpStep == ASSUME TypeOK, Cmp PROVE Typed /\ Sequenced /\ sum' = NoSum
<1>1. PICK src \in Source("CMP") :
         /\ Done(src)
         /\ flags' = setFlags_Sub(dst0 - src, dst0, src, w0)
         /\ EndSum
         /\ UNCHANGED <<ax, dx>>
  BY DEF Cmp
<1>2. dst0 - src \in Int
  BY Frame, SMT
<1>3. flags' \in FlagSet
  BY <1>1, <1>2, Frame, SubFlagsType
<1> QED BY <1>1, <1>3, Registers, DoneSequenced DEF Typed, EndSum

LEMMA NegStep == ASSUME TypeOK, Neg PROVE Typed /\ Sequenced /\ sum' = NoSum
<1>1. PICK src \in Source("NEG") :
         /\ Done(src)
         /\ flags' = setFlags_Sub(-dst0, 0, dst0, w0)
         /\ Put((-dst0) % w0)
         /\ EndSum
         /\ UNCHANGED dx
  BY DEF Neg
<1>2. -dst0 \in Int /\ 0 \in Int /\ w0 \in Width /\ dst0 \in Int
  BY Frame, SMT
<1>3. ax' \in Word
  BY <1>1, <1>2, ModType, PutType
<1>4. flags' \in FlagSet
  BY <1>1, <1>2, SubFlagsType
<1> QED BY <1>1, <1>3, <1>4, Registers, DoneSequenced DEF Typed, EndSum

LEMMA KeepCarryType ==
  ASSUME TypeOK, NEW f \in FlagSet
  PROVE  KeepCarry(f) \in FlagSet
<1>1. f.AF \in BOOLEAN /\ f.OF \in BOOLEAN
  BY SMT DEF FlagSet
<1> QED BY <1>1, Registers, WithType DEF KeepCarry

\* INC and DEC touch neither CF nor the sum.
LEMMA IncStep ==
  ASSUME TypeOK, Inc
  PROVE  Typed /\ Sequenced /\ sum' = sum /\ flags'.CF = flags.CF
<1> DEFINE v == dx % w0
<1>1. PICK src \in Source("INC") :
         /\ Done(src)
         /\ flags' = KeepCarry(setFlags_Add(v + 1, v, 1, w0))
         /\ dx' = dx - v + ((v + 1) % w0)
         /\ KeepSum
         /\ UNCHANGED ax
  BY DEF Inc
<1>2. v \in Int /\ v + 1 \in Int /\ 1 \in Int /\ w0 \in Width
  BY Registers, Frame, ModType, SMT
<1>3. dx' \in Word
  BY <1>1, <1>2, Registers, ModType, LowType
<1> HIDE DEF v
<1>4. flags' \in FlagSet
  BY <1>1, <1>2, AddFlagsType, KeepCarryType
<1>5. flags'.CF = flags.CF
  BY <1>1, SMT DEF KeepCarry, With
<1> QED BY <1>1, <1>3, <1>4, <1>5, Registers, DoneSequenced DEF Typed, KeepSum

LEMMA DecStep ==
  ASSUME TypeOK, Dec
  PROVE  Typed /\ Sequenced /\ sum' = sum /\ flags'.CF = flags.CF
<1> DEFINE v == dx % w0
<1>1. PICK src \in Source("DEC") :
         /\ Done(src)
         /\ flags' = KeepCarry(setFlags_Sub(v - 1, v, 1, w0))
         /\ dx' = dx - v + ((v - 1) % w0)
         /\ KeepSum
         /\ UNCHANGED ax
  BY DEF Dec
<1>2. v \in Int /\ v - 1 \in Int /\ 1 \in Int /\ w0 \in Width
  BY Registers, Frame, ModType, SMT
<1>3. dx' \in Word
  BY <1>1, <1>2, Registers, ModType, LowType
<1> HIDE DEF v
<1>4. flags' \in FlagSet
  BY <1>1, <1>2, SubFlagsType, KeepCarryType
<1>5. flags'.CF = flags.CF
  BY <1>1, SMT DEF KeepCarry, With
<1> QED BY <1>1, <1>3, <1>4, <1>5, Registers, DoneSequenced DEF Typed, KeepSum

LEMMA LogicType ==
  ASSUME TypeOK, NEW op, NEW src \in Source(op), NEW v \in Word, Logic(src, v)
  PROVE  /\ flags' \in FlagSet /\ dx' \in Word /\ Sequenced /\ sum' = NoSum
         /\ v % w0 \in 0 .. w0 - 1
<1>1. v \in Int /\ w0 \in Width
  BY WordFacts, Frame, SMT
<1>2. v % w0 \in 0 .. w0 - 1 /\ v % w0 \in Int /\ w0 \in Int
  BY <1>1, ModType, Frame, SMT
<1>3. flags' \in FlagSet
  <2>1. flags' = Shown(v % w0, w0, FALSE, flags.AF, FALSE)
    BY DEF Logic, setFlags_Logic
  <2>2. FALSE \in BOOLEAN /\ flags.AF \in BOOLEAN
    BY Registers
  <2> QED BY <1>2, <2>1, <2>2, FlagsType
<1> QED BY <1>2, <1>3, Registers, DoneSequenced DEF Logic, EndSum

LEMMA LogicStep ==
  ASSUME TypeOK, AndOp \/ OrOp \/ XorOp \/ Test
  PROVE  Typed /\ Sequenced /\ sum' = NoSum
<1>1. ASSUME NEW op, NEW src \in Source(op), NEW v \in Word, Logic(src, v),
             Put(v % w0) \/ ax' = ax
      PROVE  Typed /\ Sequenced /\ sum' = NoSum
  <2>1. v % w0 \in 0 .. w0 - 1
    BY <1>1, LogicType
  <2>2. ax' \in Word
    BY <1>1, <2>1, PutType, Registers
  <2> QED BY <1>1, <2>2, LogicType DEF Typed
<1>2. \A a, b : And(a, b) \in Word /\ Or(a, b) \in Word /\ Xor(a, b) \in Word
  BY ValueType DEF And, Or, Xor
<1>3. CASE AndOp
  BY <1>1, <1>2, <1>3 DEF AndOp
<1>4. CASE OrOp
  BY <1>1, <1>2, <1>4 DEF OrOp
<1>5. CASE XorOp
  BY <1>1, <1>2, <1>5 DEF XorOp
<1>6. CASE Test
  BY <1>1, <1>2, <1>6 DEF Test
<1> QED BY <1>3, <1>4, <1>5, <1>6

LEMMA NotStep ==
  ASSUME TypeOK, NotOp
  PROVE  Typed /\ Sequenced /\ sum' = sum /\ flags' = flags
<1>1. PICK src \in Source("NOT") :
         Done(src) /\ Put(w0 - 1 - dst0) /\ UNCHANGED <<dx, flags>> /\ KeepSum
  BY DEF NotOp
<1>2. w0 - 1 - dst0 \in 0 .. w0 - 1
  BY Frame, SMT
<1>3. ax' \in Word
  BY <1>1, <1>2, PutType
<1> QED BY <1>1, <1>3, Registers, DoneSequenced DEF Typed, KeepSum

LEMMA MulStep ==
  ASSUME TypeOK, Mul \/ Imul
  PROVE  Typed /\ Sequenced /\ sum' = NoSum
<1>1. ASSUME NEW op, NEW src \in Source(op), NEW p \in Int, Done(src), Multiply(op, p)
      PROVE  Typed /\ Sequenced /\ sum' = NoSum
  BY <1>1, Frame, MultiplyType, DoneSequenced DEF Typed, Multiply, EndSum
<1>2. CASE Mul
  <2>1. PICK src \in Source("MUL") : Done(src) /\ Multiply("MUL", dst0 * src)
    BY <1>2 DEF Mul
  <2>2. dst0 * src \in Int
    BY Frame, SMT
  <2> QED BY <1>1, <2>1, <2>2
<1>3. CASE Imul
  <2>1. PICK src \in Source("IMUL") :
           Done(src) /\ Multiply("IMUL", Signed(dst0, w0) * Signed(src, w0))
    BY <1>3 DEF Imul
  <2>2. Signed(dst0, w0) * Signed(src, w0) \in Int
    BY Frame, SignedType, SMT
  <2> QED BY <1>1, <2>1, <2>2
<1> QED BY <1>2, <1>3

LEMMA DivStep ==
  ASSUME TypeOK, Div \/ Idiv
  PROVE  Typed /\ Sequenced /\ sum' = sum /\ flags' = flags
<1>1. ASSUME NEW op, NEW src \in Source(op), NEW a \in Int, NEW b \in Int,
             Done(src), Divide(a, b)
      PROVE  Typed /\ Sequenced /\ sum' = sum /\ flags' = flags
  BY <1>1, DivideType, Registers, DoneSequenced DEF Typed, Divide, KeepSum
<1>2. CASE Div
  <2> DEFINE a == IF w0 = BYTE THEN ax ELSE WORD * dx + ax
  <2>1. PICK src \in Source("DIV") : Done(src) /\ Divide(a, src)
    BY <1>2 DEF Div
  <2>2. a \in Int /\ src \in Int
    BY Frame, Registers, WordFacts, SMT
  <2> HIDE DEF a
  <2> QED BY <1>1, <2>1, <2>2
<1>3. CASE Idiv
  <2> DEFINE a == IF w0 = BYTE THEN Signed(ax, WORD)
                  ELSE WORD * Signed(dx, WORD) + ax
  <2>1. PICK src \in Source("IDIV") : Done(src) /\ Divide(a, Signed(src, w0))
    BY <1>3, SMT DEF Idiv
  <2>2. Signed(ax, WORD) \in Int /\ Signed(dx, WORD) \in Int /\ Signed(src, w0) \in Int
    BY Frame, Registers, SignedType, WordFacts
  <2>3. a \in Int
    BY <2>2, Registers, WordFacts, SMT
  <2> HIDE DEF a
  <2> QED BY <1>1, <2>1, <2>2, <2>3
<1> QED BY <1>2, <1>3

LEMMA CwdStep ==
  ASSUME TypeOK, Cwd
  PROVE  Typed /\ Sequenced /\ sum' = sum /\ flags' = flags
<1>1. PICK src \in Source("CWD") :
         /\ Done(src)
         /\ dx' = IF Sign(ax, WORD) THEN WORD - 1 ELSE 0
         /\ UNCHANGED <<ax, flags>>
         /\ KeepSum
  BY DEF Cwd
<1>2. WORD - 1 \in Word /\ 0 \in Word
  BY Sizes, InWord, SMT
<1>3. dx' \in Word
  BY <1>1, <1>2
<1> QED BY <1>1, <1>3, Registers, DoneSequenced DEF Typed, KeepSum

\* DAA and DAS leave a byte in AL.
LEMMA AdjustType ==
  ASSUME NEW a \in 0 .. BYTE - 1, NEW b \in Int, NEW p
  PROVE  /\ (IF p THEN (a + b) % BYTE ELSE a) \in 0 .. BYTE - 1
         /\ (IF p THEN (a - b) % BYTE ELSE a) \in 0 .. BYTE - 1
<1>1. a \in Int
  BY WordFacts, SMT
<1>2. a + b \in Int /\ a - b \in Int
  BY <1>1, SMT
<1>3. (a + b) % BYTE \in 0 .. BYTE - 1 /\ (a - b) % BYTE \in 0 .. BYTE - 1
  BY <1>2, ModWord
<1> QED BY <1>3, Zenon

LEMMA DaaStep ==
  ASSUME TypeOK, Daa \/ Das
  PROVE  Typed /\ Sequenced /\ sum' = NoSum
<1>1. ASSUME NEW op, NEW src \in Source(op), NEW al \in 0 .. BYTE - 1, al \in Int,
             NEW cf \in BOOLEAN, Done(src), Bytes(AH, al),
             flags' = Shown(al, BYTE, cf, LowDigitOff, flags.OF),
             EndSum, UNCHANGED dx
      PROVE  Typed /\ Sequenced /\ sum' = NoSum
  <2>1. ax' \in Word
    BY <1>1, Registers, BytesType
  <2>2. flags' \in FlagSet
    BY <1>1, FlagsType, WordFacts, DigitsType, Registers
  <2> QED BY <1>1, <2>1, <2>2, Registers, DoneSequenced DEF Typed, EndSum
<1>2. CASE Daa
  <2> DEFINE low == IF LowDigitOff THEN (AL + 6) % BYTE ELSE AL
             al == IF HighDigitOff THEN (low + 96) % BYTE ELSE low
  <2>1. PICK src \in Source("DAA") :
           /\ Done(src)
           /\ Bytes(AH, al)
           /\ flags' = Shown(al, BYTE, HighDigitOff, LowDigitOff, flags.OF)
           /\ EndSum
           /\ UNCHANGED dx
    BY <1>2 DEF Daa
  <2>2. 6 \in Int /\ 96 \in Int
    BY SMT
  <2>3. low \in 0 .. BYTE - 1
    BY <2>2, AdjustType, Registers
  <2> HIDE DEF low
  <2>4. al \in 0 .. BYTE - 1
    BY <2>2, <2>3, AdjustType
  <2>5. al \in Int
    BY <2>4, WordFacts, SMT
  <2> HIDE DEF al
  <2> QED BY <1>1, <2>1, <2>4, <2>5, DigitsType
<1>3. CASE Das
  <2> DEFINE low == IF LowDigitOff THEN (AL - 6) % BYTE ELSE AL
             al == IF HighDigitOff THEN (low - 96) % BYTE ELSE low
             cf == HighDigitOff \/ low > AL
  <2>1. PICK src \in Source("DAS") :
           /\ Done(src)
           /\ Bytes(AH, al)
           /\ flags' = Shown(al, BYTE, cf, LowDigitOff, flags.OF)
           /\ EndSum
           /\ UNCHANGED dx
    BY <1>3 DEF Das
  <2>2. 6 \in Int /\ 96 \in Int
    BY SMT
  <2>3. low \in 0 .. BYTE - 1
    BY <2>2, AdjustType, Registers
  <2>4. low \in Int
    BY <2>3, WordFacts, SMT
  <2> HIDE DEF low
  <2>5. al \in 0 .. BYTE - 1 /\ al \in Int
    <3>1. al \in 0 .. BYTE - 1
      BY <2>2, <2>3, AdjustType
    <3> QED BY <3>1, WordFacts, SMT
  <2>6. cf \in BOOLEAN
    BY <2>4, DigitsType, Registers, SMT
  <2> HIDE DEF al, cf
  <2> QED BY <1>1, <2>1, <2>5, <2>6
<1> QED BY <1>2, <1>3

LEMMA AsciiStep ==
  ASSUME TypeOK, Aaa \/ Aas
  PROVE  Typed /\ Sequenced /\ sum' = NoSum
<1> SUFFICES ASSUME NEW op, NEW by \in Int, Ascii(op, by)
             PROVE  Typed /\ Sequenced /\ sum' = NoSum
  <2>1. 1 \in Int /\ -1 \in Int
    BY SMT
  <2> QED BY <2>1, Zenon DEF Aaa, Aas
<1> DEFINE al == IF LowDigitOff THEN (AL + 6 * by) % 16 ELSE AL % 16
           ah == IF LowDigitOff THEN (AH + by) % BYTE ELSE AH
<1>1. PICK src \in Source(op) :
         /\ Done(src)
         /\ Bytes(ah, al)
         /\ flags' = With(flags, LowDigitOff, LowDigitOff, flags.OF)
         /\ EndSum
         /\ UNCHANGED dx
  BY DEF Ascii
<1>2. ah \in 0 .. BYTE - 1
  <2>1. AH + by \in Int
    BY Registers, SMT
  <2> QED BY <2>1, ModWord, Registers
<1>3. al \in 0 .. BYTE - 1
  <2>1. al \in Int /\ 0 <= al /\ al <= 15
    BY Registers, SMT
  <2> HIDE DEF al
  <2> QED BY <2>1, InWord, SMT
<1> HIDE DEF al, ah
<1>4. ax' \in Word
  BY <1>1, <1>2, <1>3, BytesType
<1>5. flags' \in FlagSet
  BY <1>1, Registers, DigitsType, WithType
<1> QED BY <1>1, <1>4, <1>5, Registers, DoneSequenced DEF Typed, EndSum

\* A byte's quotient and remainder are bytes.
LEMMA ByteDivision ==
  ASSUME NEW n \in 0 .. BYTE - 1, NEW d \in Nat, d # 0
  PROVE  /\ n \div d \in 0 .. BYTE - 1 /\ n % d \in 0 .. BYTE - 1 /\ n % d \in Int
<1>1. n \in Int /\ 0 <= n /\ n <= 255
  BY WordFacts, InWord, SMT
<1>2. /\ n \div d \in Nat /\ n % d \in Nat
      /\ (n \div d) * d + (n % d) = n
  BY <1>1, SMT
<1>3. (n \div d) * d >= n \div d
  <2> DEFINE q == n \div d
  <2>1. q \in Nat
    BY <1>2
  <2> HIDE DEF q
  <2>2. q * d >= q
    BY <2>1, SMT
  <2> QED BY <2>2, SMT DEF q
<1>4. n \div d <= 255 /\ n % d <= 255
  <2>1. (n \div d) * d \in Nat
    BY <1>2, SMT
  <2> QED BY <1>1, <1>2, <1>3, <2>1, SMT
<1> QED BY <1>2, <1>4, InWord, SMT

LEMMA AamStep ==
  ASSUME TypeOK, Aam
  PROVE  Typed /\ Sequenced /\ sum' = sum /\ flags'.CF = flags.CF
<1>1. PICK src \in Source("AAM") :
         /\ IF src = 0 THEN Goto(Len(prog) + 1, src) /\ UNCHANGED <<ax, flags>>
            ELSE /\ Done(src)
                 /\ Bytes(AL \div src, AL % src)
                 /\ flags' = Shown(AL % src, BYTE, flags.CF, flags.AF, flags.OF)
         /\ KeepSum
         /\ UNCHANGED dx
  BY DEF Aam
<1>2. CASE src = 0
  <2>1. Len(prog) + 1 \in 1 .. Len(prog) + 1
    BY Frame, SMT
  <2>2. Sequenced
    BY <1>1, <1>2, <2>1, Zenon DEF Sequenced
  <2> QED BY <1>1, <1>2, <2>2, Registers DEF Typed, KeepSum
<1>3. CASE src # 0
  <2>1. src \in Nat
    BY Frame, SMT
  <2>2. /\ AL \div src \in 0 .. BYTE - 1 /\ AL % src \in 0 .. BYTE - 1
        /\ AL % src \in Int
    BY <1>3, <2>1, ByteDivision, Registers
  <2>3. /\ Done(src)
        /\ Bytes(AL \div src, AL % src)
        /\ flags' = Shown(AL % src, BYTE, flags.CF, flags.AF, flags.OF)
    BY <1>1, <1>3
  <2>4. ax' \in Word
    BY <2>2, <2>3, BytesType
  <2>5. flags' \in FlagSet
    BY <2>2, <2>3, FlagsType, WordFacts, Registers
  <2>6. flags'.CF = flags.CF
    BY <2>3, SMT DEF Shown
  <2> QED BY <1>1, <2>3, <2>4, <2>5, <2>6, Registers, DoneSequenced DEF Typed, KeepSum
<1> QED BY <1>2, <1>3

LEMMA AadStep ==
  ASSUME TypeOK, Aad
  PROVE  Typed /\ Sequenced /\ sum' = sum /\ flags'.CF = flags.CF
<1>1. PICK src \in Source("AAD") :
         /\ Done(src)
         /\ Bytes(0, (AH * src + AL) % BYTE)
         /\ flags' = Shown((AH * src + AL) % BYTE, BYTE, flags.CF, flags.AF, flags.OF)
         /\ KeepSum
         /\ UNCHANGED dx
  BY DEF Aad
<1> DEFINE al == (AH * src + AL) % BYTE
<1>2. al \in 0 .. BYTE - 1 /\ al \in Int
  <2>1. AH * src + AL \in Int
    BY Registers, Frame, SMT
  <2>2. al \in 0 .. BYTE - 1
    BY <2>1, ModWord
  <2> QED BY <2>2, WordFacts, SMT
<1>3. 0 \in 0 .. BYTE - 1
  BY InWord, SMT
<1>4. ax' \in Word
  BY <1>1, <1>2, <1>3, BytesType
<1>5. flags' \in FlagSet
  BY <1>1, <1>2, FlagsType, WordFacts, Registers
<1>6. flags'.CF = flags.CF
  BY <1>1, SMT DEF Shown
<1> QED BY <1>1, <1>4, <1>5, <1>6, Registers, DoneSequenced DEF Typed, KeepSum

LEMMA CarryStep ==
  ASSUME TypeOK, Clc \/ Stc \/ Cmc
  PROVE  Typed /\ Sequenced /\ sum' = NoSum
<1>1. ASSUME NEW op, NEW cf \in BOOLEAN, SetCarry(op, cf)
      PROVE  Typed /\ Sequenced /\ sum' = NoSum
  <2>1. PICK src \in Source(op) :
           /\ Done(src)
           /\ flags' = With(flags, cf, flags.AF, flags.OF)
           /\ EndSum
           /\ UNCHANGED <<ax, dx>>
    BY <1>1 DEF SetCarry
  <2>2. flags' \in FlagSet
    BY <2>1, WithType, Registers
  <2> QED BY <2>1, <2>2, Registers, DoneSequenced DEF Typed, EndSum
<1>2. TRUE \in BOOLEAN /\ FALSE \in BOOLEAN /\ (~flags.CF) \in BOOLEAN
  BY Zenon
<1> QED BY <1>1, <1>2, Zenon DEF Clc, Stc, Cmc

LEMMA JumpStep ==
  ASSUME TypeOK, Jump
  PROVE  Typed /\ Sequenced /\ sum' = sum /\ flags' = flags
<1>1. PICK src \in Source("JCC"), cc \in Condition :
         /\ Goto(IF Taken(cc, flags) /\ pc < Len(prog) THEN pc + 2 ELSE pc + 1, src)
         /\ UNCHANGED <<ax, dx, flags>>
         /\ KeepSum
  BY DEF Jump
<1> DEFINE i == IF Taken(cc, flags) /\ pc < Len(prog) THEN pc + 2 ELSE pc + 1
<1>2. i \in 1 .. Len(prog) + 1
  <2>1. pc \in 1 .. Len(prog) /\ Len(prog) \in Nat
    BY Frame
  <2>2. CASE Taken(cc, flags) /\ pc < Len(prog)
    BY <2>1, <2>2, SMT
  <2>3. CASE ~(Taken(cc, flags) /\ pc < Len(prog))
    <3>1. i = pc + 1
      BY <2>3, Zenon
    <3> HIDE DEF i
    <3> QED BY <2>1, <3>1, SMT
  <2> QED BY <2>2, <2>3
<1> HIDE DEF i
<1>3. Goto(i, src)
  BY <1>1 DEF i
<1>4. Sequenced
  BY <1>2, <1>3, Zenon DEF Sequenced
<1> QED BY <1>1, <1>4, Registers DEF Typed, KeepSum

-------------------------------------------------------------------------------
(* Shifts and rotations *)

LEMMA SizeFacts == Size(BYTE) = 8 /\ Size(WORD) = 16
  BY SMT DEF Size, BYTE, WORD

\* Bits that lie within an operand are a value of its size.
LEMMA ValueFits ==
  ASSUME NEW w \in Width, NEW S, \A i \in S : i \in 0 .. Size(w) - 1
  PROVE  Value(S) \in 0 .. w - 1
<1>1. CASE w = WORD
  BY <1>1, ValueType, Zenon DEF Word
<1>2. CASE w = BYTE
  <2>1. \A i \in S : i \in 0 .. 7
    <3>1. Size(w) - 1 = 7
      BY <1>2, SizeFacts, SMT
    <3> QED BY <3>1
  <2>2. /\ At(S, 8) = 0 /\ At(S, 9) = 0 /\ At(S, 10) = 0 /\ At(S, 11) = 0
        /\ At(S, 12) = 0 /\ At(S, 13) = 0 /\ At(S, 14) = 0 /\ At(S, 15) = 0
    BY ONLY <2>1, SMT DEF At
  <2>3. \A i : At(S, i) \in 0 .. 1
    BY AtType
  <2>4. Value(S) \in Int /\ 0 <= Value(S) /\ Value(S) <= 255
    BY ONLY <2>2, <2>3, ValueSum, SMT
  <2> QED BY <1>2, <2>4, InWord
<1> QED BY <1>1, <1>2 DEF Width

LEMMA WithinOperand ==
  ASSUME NEW S, NEW n, NEW size \in Nat
  PROVE  /\ \A i \in Left(S, n, size) : i \in 0 .. size - 1
         /\ \A i \in Right(S, n, size) : i \in 0 .. size - 1
         /\ \A i \in RightSigned(S, n, size) : i \in 0 .. size - 1
         /\ \A i \in Turned(S, n, size) : i \in 0 .. size - 1
         /\ \A i \in Turned(S, n, size + 1) \ {size} : i \in 0 .. size - 1
<1>1. /\ \A i \in Left(S, n, size) : i \in 0 .. size - 1
      /\ \A i \in Right(S, n, size) : i \in 0 .. size - 1
  BY Zenon DEF Left, Right
<1>2. \A i \in RightSigned(S, n, size) : i \in 0 .. size - 1
  BY Zenon DEF RightSigned
<1>3. \A i \in Turned(S, n, size) : i \in 0 .. size - 1
  BY Zenon DEF Turned
<1>4. \A i \in Turned(S, n, size + 1) \ {size} : i \in 0 .. size - 1
  <2>1. \A i \in Turned(S, n, size + 1) : i \in 0 .. size + 1 - 1
    BY SMT DEF Turned
  <2>2. \A i \in 0 .. size + 1 - 1 : i # size => i \in 0 .. size - 1
    BY SMT
  <2> QED BY <2>1, <2>2, Zenon
<1> QED BY <1>1, <1>2, <1>3, <1>4

LEMMA SizeType == ASSUME NEW w \in Width PROVE Size(w) \in Nat
  BY SMT DEF Size

LEMMA MemberBoolean == ASSUME NEW a, NEW S PROVE (a \in S) \in BOOLEAN
  BY SMT

LEMMA ShiftType ==
  ASSUME TypeOK, NEW op, NEW src \in Source(op), NEW S, NEW of \in BOOLEAN,
         \A i \in S : i \in 0 .. Size(w0) - 1, Shift(src, S, of)
  PROVE  Typed /\ Sequenced /\ sum' = NoSum
<1>1. /\ Done(src)
      /\ IF src % BYTE = 0 THEN UNCHANGED <<ax, flags>>
         ELSE /\ Put(Value(S))
              /\ flags' = Shown(Value(S), w0, FALSE, flags.AF, src % 32 = 1 /\ of)
      /\ EndSum
      /\ UNCHANGED dx
  BY DEF Shift
<1>2. w0 \in Width /\ w0 \in Int
  BY Frame
<1>3. Value(S) \in 0 .. w0 - 1 /\ Value(S) \in Int
  BY <1>2, ValueFits, ValueType, WordFacts
<1>4. CASE src % BYTE = 0
  BY <1>1, <1>4, Registers, DoneSequenced DEF Typed, EndSum
<1>5. CASE src % BYTE # 0
  <2>1. ax' \in Word
    BY <1>1, <1>3, <1>5, PutType
  <2>2. flags' = Shown(Value(S), w0, FALSE, flags.AF, src % 32 = 1 /\ of)
    BY <1>1, <1>5
  <2>3. (src % 32 = 1 /\ of) \in BOOLEAN /\ FALSE \in BOOLEAN /\ flags.AF \in BOOLEAN
    BY Registers
  <2>4. flags' \in FlagSet
    BY ONLY <1>2, <1>3, <2>2, <2>3, FlagsType
  <2> QED BY <1>1, <2>1, <2>4, Registers, DoneSequenced DEF Typed, EndSum
<1> QED BY <1>4, <1>5

LEMMA ShiftStep ==
  ASSUME TypeOK, Shl \/ Shr \/ Sar
  PROVE  Typed /\ Sequenced /\ sum' = NoSum
<1>1. CASE Shl
  <2>1. PICK src \in Source("SHL") :
           Shift(src, Left(Operand, src % 32, Size(w0)),
                 Top \in Left(Operand, src % 32, Size(w0)))
    BY <1>1 DEF Shl
  <2>2. \A i \in Left(Operand, src % 32, Size(w0)) : i \in 0 .. Size(w0) - 1
    BY Frame, SizeType, WithinOperand
  <2>3. (Top \in Left(Operand, src % 32, Size(w0))) \in BOOLEAN
    BY MemberBoolean
  <2> QED BY <2>1, <2>2, <2>3, ShiftType
<1>2. CASE Shr
  <2>1. PICK src \in Source("SHR") :
           Shift(src, Right(Operand, src % 32, Size(w0)), Top \in Operand)
    BY <1>2 DEF Shr
  <2>2. \A i \in Right(Operand, src % 32, Size(w0)) : i \in 0 .. Size(w0) - 1
    BY Frame, SizeType, WithinOperand
  <2>3. (Top \in Operand) \in BOOLEAN
    BY MemberBoolean
  <2> QED BY <2>1, <2>2, <2>3, ShiftType
<1>3. CASE Sar
  <2>1. PICK src \in Source("SAR") :
           Shift(src, RightSigned(Operand, src % 32, Size(w0)), FALSE)
    BY <1>3 DEF Sar
  <2>2. \A i \in RightSigned(Operand, src % 32, Size(w0)) : i \in 0 .. Size(w0) - 1
    BY Frame, SizeType, WithinOperand
  <2> QED BY <2>1, <2>2, ShiftType
<1> QED BY <1>1, <1>2, <1>3

LEMMA RotateType ==
  ASSUME TypeOK, NEW op, NEW src \in Source(op), NEW S, NEW cf \in BOOLEAN, NEW of \in BOOLEAN,
         \A i \in S : i \in 0 .. Size(w0) - 1, Rotate(src, S, cf, of)
  PROVE  /\ Typed /\ Sequenced /\ flags'.CF = cf
<1>1. /\ Done(src)
      /\ Put(Value(S))
      /\ flags' = With(flags, cf, flags.AF, IF src % 32 = 1 THEN of ELSE flags.OF)
      /\ UNCHANGED dx
  BY DEF Rotate
<1>2. w0 \in Width
  BY Frame
<1>3. Value(S) \in 0 .. w0 - 1
  BY <1>2, ValueFits
<1>4. ax' \in Word
  BY <1>1, <1>3, PutType
<1>5. flags' \in FlagSet
  <2>1. (IF src % 32 = 1 THEN of ELSE flags.OF) \in BOOLEAN
    BY Registers
  <2> QED BY <1>1, <2>1, Registers, WithType
<1>6. flags'.CF = cf
  BY <1>1 DEF With
<1> QED BY <1>1, <1>4, <1>5, <1>6, Registers, DoneSequenced DEF Typed

LEMMA RotateStep ==
  ASSUME TypeOK, Rol \/ Ror \/ Rcr
  PROVE  Typed /\ Sequenced /\ sum' = NoSum
<1>1. CASE Rol
  <2>1. PICK src \in Source("ROL") :
           LET S == Turned(Operand, src, Size(w0))
               cf == IF src % Size(w0) = 0 THEN flags.CF ELSE 0 \in S
           IN  Rotate(src, S, cf, (Top \in S) # cf) /\ EndSum
    BY <1>1 DEF Rol
  <2> DEFINE S == Turned(Operand, src, Size(w0))
             cf == IF src % Size(w0) = 0 THEN flags.CF ELSE 0 \in S
  <2>2. \A i \in S : i \in 0 .. Size(w0) - 1
    BY Frame, SizeType, WithinOperand
  <2>3. cf \in BOOLEAN
    BY MemberBoolean, Registers
  <2> HIDE DEF cf
  <2>4. ((Top \in S) # cf) \in BOOLEAN
    BY Zenon
  <2>5. Rotate(src, S, cf, (Top \in S) # cf) /\ EndSum
    BY <2>1 DEF cf
  <2> HIDE DEF S
  <2> QED BY <2>2, <2>3, <2>4, <2>5, RotateType DEF EndSum
<1>2. CASE Ror
  <2>1. PICK src \in Source("ROR") :
           LET S == Turned(Operand, -src, Size(w0))
               cf == IF src % Size(w0) = 0 THEN flags.CF ELSE Top \in S
           IN  Rotate(src, S, cf, (Top \in S) # (Top - 1 \in S)) /\ EndSum
    BY <1>2 DEF Ror
  <2> DEFINE S == Turned(Operand, -src, Size(w0))
             cf == IF src % Size(w0) = 0 THEN flags.CF ELSE Top \in S
  <2>2. \A i \in S : i \in 0 .. Size(w0) - 1
    BY Frame, SizeType, WithinOperand
  <2>3. cf \in BOOLEAN
    BY MemberBoolean, Registers
  <2> HIDE DEF cf
  <2>4. ((Top \in S) # (Top - 1 \in S)) \in BOOLEAN
    BY Zenon
  <2>5. Rotate(src, S, cf, (Top \in S) # (Top - 1 \in S)) /\ EndSum
    BY <2>1 DEF cf
  <2> HIDE DEF S
  <2> QED BY <2>2, <2>3, <2>4, <2>5, RotateType DEF EndSum
<1>3. CASE Rcr
  <2>1. PICK src \in Source("RCR") :
           LET S == Turned(Ring, -(src % 32), Size(w0) + 1)
           IN  /\ Rotate(src, S \ {Size(w0)}, Size(w0) \in S, (Top \in S) # (Top - 1 \in S))
               /\ EndSum
    BY <1>3 DEF Rcr
  <2> DEFINE S == Turned(Ring, -(src % 32), Size(w0) + 1)
  <2>2. \A i \in S \ {Size(w0)} : i \in 0 .. Size(w0) - 1
    BY Frame, SizeType, WithinOperand
  <2>3. (Size(w0) \in S) \in BOOLEAN /\ ((Top \in S) # (Top - 1 \in S)) \in BOOLEAN
    BY MemberBoolean, Zenon
  <2>4. Rotate(src, S \ {Size(w0)}, Size(w0) \in S, (Top \in S) # (Top - 1 \in S)) /\ EndSum
    BY <2>1
  <2> HIDE DEF S
  <2> QED BY <2>2, <2>3, <2>4, RotateType DEF EndSum
<1> QED BY <1>1, <1>2, <1>3

\* What RCL does, with its ring of bits named.
LEMMA RclParts ==
  ASSUME TypeOK, Rcl
  PROVE  \E src \in Source("RCL") : \E S \in {Turned(Ring, src % 32, Size(w0) + 1)} :
           /\ Rotate(src, S \ {Size(w0)}, Size(w0) \in S, (Top \in S) # (Size(w0) \in S))
           /\ sum' = IF src % 32 = 1 THEN Summed(dst0, Value(S \ {Size(w0)})) ELSE NoSum
  BY DEF Rcl

LEMMA RclStep ==
  ASSUME TypeOK, Rcl
  PROVE  Typed /\ Sequenced /\ sum' \in Sums
<1>1. PICK src \in Source("RCL") : \E S \in {Turned(Ring, src % 32, Size(w0) + 1)} :
         /\ Rotate(src, S \ {Size(w0)}, Size(w0) \in S, (Top \in S) # (Size(w0) \in S))
         /\ sum' = IF src % 32 = 1 THEN Summed(dst0, Value(S \ {Size(w0)})) ELSE NoSum
  BY RclParts
<1>0. PICK S \in {Turned(Ring, src % 32, Size(w0) + 1)} :
         /\ Rotate(src, S \ {Size(w0)}, Size(w0) \in S, (Top \in S) # (Size(w0) \in S))
         /\ sum' = IF src % 32 = 1 THEN Summed(dst0, Value(S \ {Size(w0)})) ELSE NoSum
  BY <1>1
<1>2. \A i \in S \ {Size(w0)} : i \in 0 .. Size(w0) - 1
  BY <1>0, Frame, SizeType, WithinOperand
<1>3. (Size(w0) \in S) \in BOOLEAN /\ ((Top \in S) # (Size(w0) \in S)) \in BOOLEAN
  BY MemberBoolean, Zenon
<1>4. Typed /\ Sequenced
  <2> DEFINE T == S \ {Size(w0)}
             cf == Size(w0) \in S
             of == (Top \in S) # (Size(w0) \in S)
  <2>1. /\ cf \in BOOLEAN /\ of \in BOOLEAN
        /\ \A i \in T : i \in 0 .. Size(w0) - 1
        /\ Rotate(src, T, cf, of)
    BY <1>0, <1>2, <1>3, Zenon
  <2> HIDE DEF T, cf, of
  <2> QED BY <2>1, RotateType
<1>5. sum' \in Sums
  <2>1. Value(S \ {Size(w0)}) \in Int /\ dst0 \in Int /\ w0 \in Width
    BY ValueType, WordFacts, Frame
  <2> QED BY <1>0, <2>1, SummedType, NoSumType
<1> QED BY <1>4, <1>5

-------------------------------------------------------------------------------
(* What steps do to the sum, and type correctness *)

\* Every step keeps the types, and it either ends the sum, or keeps it and CF,
\* or adds.
LEMMA Steps ==
  ASSUME TypeOK, Next
  PROVE  /\ Typed /\ Sequenced
         /\ \/ sum' = NoSum
            \/ sum' = sum /\ flags'.CF = flags.CF
            \/ (Add \/ Adc \/ Rcl) /\ sum' \in Sums
<1>1. CASE Mov \/ NotOp \/ Div \/ Idiv \/ Cwd \/ Jump
  BY <1>1, MovStep, NotStep, DivStep, CwdStep, JumpStep
<1>2. CASE Inc \/ Dec \/ Aam \/ Aad
  BY <1>2, IncStep, DecStep, AamStep, AadStep
<1>3. CASE Sub
  <2>1. 0 \in 0 .. 1
    BY SMT
  <2> QED BY <1>3, <2>1, SubtractStep DEF Sub
<1>4. CASE Sbb
  BY <1>4, Registers, SubtractStep DEF Sbb
<1>5. CASE Cmp \/ Neg \/ AndOp \/ OrOp \/ XorOp \/ Test
  BY <1>5, CmpStep, NegStep, LogicStep
<1>6. CASE Mul \/ Imul \/ Daa \/ Das \/ Aaa \/ Aas \/ Clc \/ Stc \/ Cmc
  BY <1>6, MulStep, DaaStep, AsciiStep, CarryStep
<1>7. CASE Add \/ Adc \/ Rcl
  BY <1>7, AddStep, AdcStep, RclStep
<1>8. CASE Shl \/ Shr \/ Sar \/ Rol \/ Ror \/ Rcr
  BY <1>8, ShiftStep, RotateStep
<1> QED BY <1>1, <1>2, <1>3, <1>4, <1>5, <1>6, <1>7, <1>8 DEF Next

\* Types are inductive by themselves.
LEMMA TypeInductive ==
  ASSUME TypeOK, [Next]_vars
  PROVE  TypeOK'
<1>1. CASE UNCHANGED vars
  BY <1>1 DEF vars, TypeOK
<1>2. CASE Next
  <2>1. Typed /\ Sequenced
    BY <1>2, Steps
  <2>2. sum' \in Sums
    <3>1. sum \in Sums
      BY DEF TypeOK
    <3> QED BY <1>2, <3>1, Steps, NoSumType
  <2>3a. PICK op : \E src \in Source(op) : \E i \in 1 .. Len(prog) + 1 : Goto(i, src)
    BY <2>1, Zenon DEF Sequenced
  <2>3. PICK src \in Source(op), i \in 1 .. Len(prog) + 1 : Goto(i, src)
    BY <2>3a, Zenon
  <2>4. prog' \in Programs /\ pc' \in 1 .. Len(prog') + 1
    BY <2>3 DEF Goto, TypeOK
  <2>5. prev' \in Past
    BY <2>3 DEF Goto, TypeOK
  <2>6. last' \in Past
    <3>1. /\ w0 \in Width /\ src \in Word /\ prog[pc].op \in Opcode
          /\ ax \in Word /\ dx \in Word /\ flags.CF \in BOOLEAN
      BY Frame, WidthFacts, Registers
    <3>2. last' = [op |-> prog[pc].op, w |-> w0, src |-> src,
                   ax |-> ax, dx |-> dx, cf |-> flags.CF]
      BY <2>3 DEF Goto
    <3> QED BY <3>1, <3>2, SMT DEF Past
  <2> QED BY <2>1, <2>2, <2>4, <2>5, <2>6, Zenon DEF TypeOK, Typed
<1> QED BY <1>1, <1>2

LEMMA TypeInit == Init => TypeOK
<1> SUFFICES ASSUME Init PROVE TypeOK
  OBVIOUS
<1>1. prog \in Programs /\ pc \in 1 .. Len(prog) + 1
  <2>1. prog \in Programs /\ pc = 1
    BY DEF Init
  <2>2. prog \in Seq([op : Opcode, w : Width, from : SUBSET Word])
    BY <2>1, ProgramsAssumption, Zenon
  <2>3. Len(prog) \in Nat
    BY <2>2, SMT
  <2> QED BY <2>1, <2>3, SMT
<1>2. 0 \in Word /\ 0 \in Int
  BY InWord, SMT
<1>3. NoFlags \in FlagSet
  BY FlagRecord DEF NoFlags
<1>4. Fresh \in Past
  <2>1. "none" \in Opcode \union {"none"} /\ BYTE \in Width /\ FALSE \in BOOLEAN
    BY WordFacts
  <2> QED BY <1>2, <2>1, SMT DEF Fresh, Past
<1> QED BY <1>1, <1>2, <1>3, <1>4, NoSumType, Zenon DEF Init, TypeOK

\* Registers, flags and the history keep their types under every instruction
\* of every guest program.
THEOREM AluTypeCorrect == Spec => []TypeOK
<1>1. Init => TypeOK
  BY TypeInit
<1>2. TypeOK /\ [Next]_vars => TypeOK'
  BY TypeInductive
<1> QED BY <1>1, <1>2, PTL DEF Spec

-------------------------------------------------------------------------------
(* Additions of many words *)

\* An addition's result is what fits its operands and what CF carries out.
LEMMA AddCarry ==
  ASSUME TypeOK, NEW op, NEW src \in Source(op), NEW c \in 0 .. 1, NEW r \in Int,
         r = dst0 + src + c, flags' = setFlags_Add(r, dst0, src, w0)
  PROVE  r = (r % w0) + w0 * Carry(flags')
<1>1. w0 \in Nat /\ w0 > 0
  BY Frame, WidthFacts, SMT
<1>2. 0 <= r /\ r < 2 * w0
  BY <1>1, Frame, SMT
<1>3. flags'.CF <=> r >= w0
  <2> DEFINE cf == r >= w0
             af == (dst0 % 16) + (src % 16) > 15
             of == Sign(dst0, w0) = Sign(src, w0) /\ Sign(dst0, w0) # Sign(r % w0, w0)
  <2>1. flags' = Shown(r % w0, w0, cf, af, of)
    BY SMT DEF setFlags_Add
  <2> HIDE DEF cf, af, of
  <2>2. flags'.CF = cf
    BY ONLY <2>1, SMT DEF Shown
  <2> QED BY <2>2 DEF cf
<1>4. CASE r >= w0
  <2>1. r % w0 = r - w0
    BY <1>1, <1>2, <1>4, SMT
  <2>2. Carry(flags') = 1
    BY <1>3, <1>4 DEF Carry
  <2> QED BY <1>1, <2>1, <2>2, SMT
<1>5. CASE r < w0
  <2>1. r % w0 = r
    BY <1>1, <1>2, <1>5, SMT
  <2>2. Carry(flags') = 0
    BY <1>1, <1>3, <1>5, SMT DEF Carry
  <2> QED BY <1>1, <2>1, <2>2, SMT
<1> QED BY <1>1, <1>4, <1>5, SMT

LEMMA AddSums == ASSUME TypeOK, Add PROVE SumsAreExact'
<1>1. PICK src \in Source("ADD") :
         /\ flags' = setFlags_Add(dst0 + src, dst0, src, w0)
         /\ sum' = [adds |-> TRUE, want |-> dst0 + src,
                    got |-> (dst0 + src) % w0, weight |-> w0]
  BY DEF Add
<1> DEFINE r == dst0 + src
<1>2. r \in Int /\ r = dst0 + src + 0 /\ 0 \in 0 .. 1
  BY Frame, SMT
<1>3. r = (r % w0) + w0 * Carry(flags')
  BY <1>1, <1>2, AddCarry
<1>4. sum'.want = r /\ sum'.got = r % w0 /\ sum'.weight = w0
  BY <1>1
<1> HIDE DEF r
<1> QED BY <1>3, <1>4, Zenon DEF SumsAreExact

LEMMA Exchange ==
  ASSUME NEW a \in Int, NEW b \in Int, NEW x1 \in Int, NEW x2 \in Int,
         NEW x3 \in Int, NEW x4 \in Int, NEW x5 \in Int,
         a + x3 = b + x2, x1 + x2 = x4 + x5
  PROVE  a + (x1 + x3) = (b + x4) + x5
  BY SMT

\* A further word v, whose exact value v and the new carry make up.
LEMMA Continued ==
  ASSUME TypeOK, SumsAreExact, w0 \in Width, dst0 \in Int, NEW x \in Int, NEW v \in Int,
         sum' = Summed(x, v),
         dst0 + x + Carry(flags) = v + w0 * Carry(flags')
  PROVE  SumsAreExact'
<1> DEFINE s == IF sum.adds THEN sum ELSE NoSum
           in == IF sum.adds THEN 0 ELSE Carry(flags)
           c == Carry(flags)
           n == Carry(flags')
           d == dst0 + x
<1>1. /\ s.want \in Int /\ s.got \in Int /\ s.weight \in Int
      /\ d \in Int /\ c \in Int /\ in \in Int /\ w0 \in Int
  <2>1. sum \in Sums
    BY DEF TypeOK
  <2>2. s \in Sums
    BY <2>1, NoSumType
  <2>3. Carry(flags) \in Int
    BY SMT DEF Carry
  <2>4. in \in Int /\ d \in Int /\ w0 \in Int
    BY <2>3, WidthFacts, SMT
  <2> HIDE DEF s, in, d
  <2>5. s.want \in Int /\ s.got \in Int /\ s.weight \in Int
    BY <2>2, SMT DEF Sums
  <2> QED BY <2>3, <2>4, <2>5
<1>3. n \in Int
  BY SMT DEF Carry
<1>4. d + c = v + w0 * n
  OBVIOUS
<1>5. /\ sum'.want = s.want + s.weight * (d + in)
      /\ sum'.got = s.got + s.weight * v
      /\ sum'.weight = s.weight * w0
  BY SMT DEF Summed
<1>6. s.want + s.weight * in = s.got + s.weight * c
  <2>1. CASE sum.adds
    <3>1. s = sum /\ in = 0
      BY <2>1
    <3>2. sum.want = sum.got + sum.weight * c
      BY <2>1, Zenon DEF SumsAreExact
    <3> HIDE DEF s, in, c
    <3>3. s.weight * in = 0
      BY <1>1, <3>1, SMT
    <3> QED BY <1>1, <3>1, <3>2, <3>3, SMT
  <2>2. CASE ~sum.adds
    <3>1. s.want = s.got /\ in = c
      BY <2>2, SMT DEF NoSum
    <3> HIDE DEF s, in, c
    <3> QED BY <3>1
  <2> QED BY <2>1, <2>2
<1> HIDE DEF s, in, c, n, d
<1> DEFINE wt == s.weight
<1>7. wt * (d + in) = wt * d + wt * in /\ wt * (d + c) = wt * d + wt * c
  BY <1>1, SMT
<1>8. wt * (v + w0 * n) = wt * v + (wt * w0) * n
  <2>1. wt * (v + w0 * n) = wt * v + wt * (w0 * n)
    BY <1>1, <1>3, SMT
  <2>2. wt * (w0 * n) = (wt * w0) * n
    BY <1>1, <1>3, SMT
  <2> QED BY <2>1, <2>2
<1>9. wt * d + wt * c = wt * v + (wt * w0) * n
  BY <1>4, <1>7, <1>8
<1>10. /\ wt * d \in Int /\ wt * c \in Int /\ wt * in \in Int /\ wt * v \in Int
       /\ (wt * w0) * n \in Int
  BY <1>1, <1>3, SMT
<1>11. s.want + (wt * d + wt * in) = (s.got + wt * v) + (wt * w0) * n
  <2> DEFINE x1 == wt * d
             x2 == wt * c
             x3 == wt * in
             x4 == wt * v
             x5 == (wt * w0) * n
             a == s.want
             b == s.got
  <2>1. a \in Int /\ b \in Int
    BY <1>1
  <2>2. x1 \in Int /\ x2 \in Int /\ x3 \in Int /\ x4 \in Int /\ x5 \in Int
    BY <1>10
  <2>3. a + x3 = b + x2 /\ x1 + x2 = x4 + x5
    BY <1>6, <1>9
  <2> HIDE DEF x1, x2, x3, x4, x5, a, b
  <2>4. a + (x1 + x3) = (b + x4) + x5
    BY ONLY <2>1, <2>2, <2>3, Exchange
  <2> QED BY <2>4 DEF x1, x2, x3, x4, x5, a, b
<1>12. sum'.want = sum'.got + sum'.weight * n
  BY <1>5, <1>7, <1>11
<1> QED BY <1>12, Zenon DEF SumsAreExact, n

LEMMA AdcSums == ASSUME TypeOK, SumsAreExact, Adc PROVE SumsAreExact'
<1>1. PICK src \in Source("ADC") :
         /\ flags' = setFlags_Add(dst0 + src + Carry(flags), dst0, src, w0)
         /\ sum' = Summed(src, (dst0 + src + Carry(flags)) % w0)
  BY DEF Adc
<1>2. /\ w0 \in Width /\ dst0 \in Int /\ src \in Int
      /\ dst0 + src + Carry(flags) \in Int /\ (dst0 + src + Carry(flags)) % w0 \in Int
  BY Frame, Registers, ModType, SMT
<1>3. dst0 + src + Carry(flags)
        = ((dst0 + src + Carry(flags)) % w0) + w0 * Carry(flags')
  BY <1>1, <1>2, Registers, AddCarry
<1> QED BY <1>1, <1>2, <1>3, Continued

\* A ring of n bits and the carry.
LEMMA RemainderSmall ==
  ASSUME NEW n \in Nat, n > 0
  PROVE  (0 - 1) % (n + 1) = n /\ \A k \in 0 .. n : k % (n + 1) = k
<1>1. (0 - 1) % (n + 1) = n
  <2> DEFINE m == n + 1
  <2>1. m \in Int /\ m > 0 /\ 0 - 1 = m * (0 - 1) + n /\ 0 <= n /\ n < m
    BY SMT
  <2> HIDE DEF m
  <2>2. (0 - 1) % m = n
    BY <2>1, SMT
  <2> QED BY <2>2 DEF m
<1>2. \A k \in 0 .. n : k % (n + 1) = k
  BY SMT
<1> QED BY <1>1, <1>2

RingOnce(B, c, n) == Turned(B \union (IF c THEN {n} ELSE {}), 1, n + 1)

LEMMA TurnedOnce ==
  ASSUME NEW n \in Nat, n > 0, NEW B, B \subseteq 0 .. n - 1, NEW c \in BOOLEAN
  PROVE  /\ 0 \in RingOnce(B, c, n) <=> c
         /\ \A k \in 1 .. n : k \in RingOnce(B, c, n) <=> k - 1 \in B
<1> DEFINE S == RingOnce(B, c, n)
           R == B \union (IF c THEN {n} ELSE {})
<1>1. S = {i \in 0 .. n : (i - 1) % (n + 1) \in R}
  <2>1. n + 1 - 1 = n
    BY SMT
  <2> QED BY <2>1 DEF Turned, RingOnce
<1> HIDE DEF S
<1>2. n \in R <=> c
  <2>1. n \notin B
    BY SMT
  <2> QED BY <2>1, SMT
<1>3. 0 \in S <=> c
  <2>1. (0 - 1) % (n + 1) = n /\ 0 \in 0 .. n
    BY RemainderSmall, SMT
  <2> HIDE DEF R
  <2> QED BY ONLY <1>1, <1>2, <2>1
<1>4. ASSUME NEW k \in 1 .. n PROVE k \in S <=> k - 1 \in B
  <2>1. k \in 0 .. n /\ k - 1 \in 0 .. n /\ k - 1 # n
    BY SMT
  <2>2. (k - 1) % (n + 1) = k - 1
    BY <2>1, RemainderSmall
  <2>3. k - 1 \in R <=> k - 1 \in B
    BY <2>1
  <2> QED BY <1>1, <2>1, <2>2, <2>3
<1> QED BY <1>3, <1>4 DEF S

LEMMA Doubled ==
  ASSUME NEW v \in Int, NEW t \in Int, NEW in \in Int, NEW x \in Int, NEW out \in Int,
         v = x + 32768 * out, t = in + 2 * x
  PROVE  2 * v + in = t + 65536 * out
  BY SMT

\* Turned by one place, the ring of a word and the carry holds twice the word
\* and the carry.
RingTurned(S, v, c, w) ==
    S = Turned(Bits(v) \union (IF c THEN {Size(w)} ELSE {}), 1, Size(w) + 1)

LEMMA RingByOne ==
  ASSUME NEW w \in Width, NEW v \in 0 .. w - 1, NEW c \in BOOLEAN, NEW S,
         RingTurned(S, v, c, w)
  PROVE  /\ Value(S \ {Size(w)}) \in 0 .. w - 1
         /\ 2 * v + (IF c THEN 1 ELSE 0)
               = Value(S \ {Size(w)}) + w * (IF Size(w) \in S THEN 1 ELSE 0)
<1> DEFINE B == Bits(v)
           T == S \ {Size(w)}
           in == IF c THEN 1 ELSE 0
           out == IF Size(w) \in S THEN 1 ELSE 0
<1>0. S = Turned(B \union (IF c THEN {Size(w)} ELSE {}), 1, Size(w) + 1)
  BY DEF RingTurned
<1>1. v \in Word /\ v \in Int /\ 0 <= v
  BY WidthFacts, SMT
<1>2. v = Value(B)
  BY <1>1, ValueOfBits
<1>3. B \subseteq 0 .. 15
  BY <1>1, BitsAt
<1>4. \A i : At(B, i) \in 0 .. 1
  BY AtType
<1>5. in \in 0 .. 1
  BY SMT
<1>6. w = BYTE \/ w = WORD
  BY SMT DEF Width
<1>7. CASE w = WORD
  <2>1. Size(w) = 16
    BY <1>7, SizeFacts
  <2> HIDE DEF B
  <2>2. /\ 0 \in S <=> c
        /\ \A k \in 1 .. 16 : k \in S <=> k - 1 \in B
    <3>1. S = RingOnce(B, c, 16)
      BY <1>0, <2>1 DEF B, RingOnce
    <3>2. 16 \in Nat /\ 16 > 0 /\ B \subseteq 0 .. 16 - 1 /\ c \in BOOLEAN
      BY <1>3, SMT
    <3> HIDE DEF T, in, out
    <3> QED BY ONLY <3>1, <3>2, TurnedOnce
  <2>3a. out = At(B, 15)
    BY ONLY <2>1, <2>2, SMT DEF At, out
  <2>3y. At(T, 0) = in
    BY ONLY <2>1, <2>2, SMT DEF At, T, in
  <2>3b. At(T, 1) = At(B, 0) /\ At(T, 2) = At(B, 1) /\ At(T, 3) = At(B, 2)
    BY ONLY <2>1, <2>2, SMT DEF At, T, in
  <2>3c. /\ At(T, 4) = At(B, 3) /\ At(T, 5) = At(B, 4)
        /\ At(T, 6) = At(B, 5) /\ At(T, 7) = At(B, 6)
    BY ONLY <2>1, <2>2, SMT DEF At, T, in
  <2>3d. /\ At(T, 8) = At(B, 7) /\ At(T, 9) = At(B, 8)
        /\ At(T, 10) = At(B, 9) /\ At(T, 11) = At(B, 10)
    BY ONLY <2>1, <2>2, SMT DEF At, T, in
  <2>3e. /\ At(T, 12) = At(B, 11) /\ At(T, 13) = At(B, 12)
        /\ At(T, 14) = At(B, 13) /\ At(T, 15) = At(B, 14)
    BY ONLY <2>1, <2>2, SMT DEF At, T, in
  <2> HIDE DEF T, in, out
  <2>4a. v = At(B, 0) + 2 * At(B, 1) + 4 * At(B, 2) + 8 * At(B, 3)
               + 16 * At(B, 4) + 32 * At(B, 5) + 64 * At(B, 6) + 128 * At(B, 7)
               + 256 * At(B, 8) + 512 * At(B, 9) + 1024 * At(B, 10) + 2048 * At(B, 11)
               + 4096 * At(B, 12) + 8192 * At(B, 13) + 16384 * At(B, 14) + 32768 * At(B, 15)
    BY ONLY <1>2, ValueSum
  <2>4b. Value(T) = At(T, 0) + 2 * At(T, 1) + 4 * At(T, 2) + 8 * At(T, 3)
               + 16 * At(T, 4) + 32 * At(T, 5) + 64 * At(T, 6) + 128 * At(T, 7)
               + 256 * At(T, 8) + 512 * At(T, 9) + 1024 * At(T, 10) + 2048 * At(T, 11)
               + 4096 * At(T, 12) + 8192 * At(T, 13) + 16384 * At(T, 14) + 32768 * At(T, 15)
    BY ONLY ValueSum
  <2>4c. \A i : At(B, i) \in Int
    BY <1>4, SMT
  <2>4d. in \in Int /\ out \in Int
    BY <1>5, <2>3a, <2>4c
  <2>4f. /\ At(B, 0) \in Int /\ At(B, 1) \in Int /\ At(B, 2) \in Int /\ At(B, 3) \in Int
         /\ At(B, 4) \in Int /\ At(B, 5) \in Int /\ At(B, 6) \in Int /\ At(B, 7) \in Int
         /\ At(B, 8) \in Int /\ At(B, 9) \in Int /\ At(B, 10) \in Int /\ At(B, 11) \in Int
         /\ At(B, 12) \in Int /\ At(B, 13) \in Int /\ At(B, 14) \in Int /\ At(B, 15) \in Int
    BY <2>4c
  <2>4e. Value(T) = in + 2 * At(B, 0) + 4 * At(B, 1) + 8 * At(B, 2)
               + 16 * At(B, 3) + 32 * At(B, 4) + 64 * At(B, 5) + 128 * At(B, 6)
               + 256 * At(B, 7) + 512 * At(B, 8) + 1024 * At(B, 9) + 2048 * At(B, 10)
               + 4096 * At(B, 11) + 8192 * At(B, 12) + 16384 * At(B, 13) + 32768 * At(B, 14)
    BY ONLY <2>3y, <2>3b, <2>3c, <2>3d, <2>3e, <2>4b
  <2>4. 2 * v + in = Value(T) + WORD * out
    <3> DEFINE x == At(B, 0) + 2 * At(B, 1) + 4 * At(B, 2) + 8 * At(B, 3) + 16 * At(B, 4)
                 + 32 * At(B, 5) + 64 * At(B, 6) + 128 * At(B, 7) + 256 * At(B, 8) + 512 * At(B, 9)
                 + 1024 * At(B, 10) + 2048 * At(B, 11) + 4096 * At(B, 12) + 8192 * At(B, 13) + 16384 * At(B, 14)
    <3>2. x \in Int
      BY ONLY <2>4f, SMT
    <3>3. v = x + 32768 * out
      BY ONLY <2>3a, <2>4a
    <3>4. Value(T) = in + 2 * x
      BY ONLY <2>4d, <2>4e, <2>4f, SMT
    <3>5. v \in Int /\ Value(T) \in Int
      BY <1>1, ValueType, WordFacts
    <3> HIDE DEF x
    <3>1. 2 * v + in = Value(T) + 65536 * out
      BY ONLY <2>4d, <3>2, <3>3, <3>4, <3>5, Doubled
    <3> QED BY ONLY <3>1, Sizes
  <2>5. Value(T) \in Word
    BY ValueType
  <2>6. Value(T) \in 0 .. w - 1
    BY <1>7, <2>5 DEF Word
  <2>7. 2 * v + in = Value(T) + w * out
    BY ONLY <1>7, <2>4, Zenon
  <2> QED BY ONLY <2>6, <2>7, Zenon DEF T, in, out
<1>8. CASE w = BYTE
  <2>1. Size(w) = 8 /\ w = 256 /\ v <= 255
    BY <1>8, Sizes, InWord, SMT DEF Size
  <2>2. /\ 8 \notin B /\ 9 \notin B /\ 10 \notin B /\ 11 \notin B
        /\ 12 \notin B /\ 13 \notin B /\ 14 \notin B /\ 15 \notin B
    <3>1. /\ v \div 256 = 0 /\ v \div 512 = 0 /\ v \div 1024 = 0 /\ v \div 2048 = 0
          /\ v \div 4096 = 0 /\ v \div 8192 = 0 /\ v \div 16384 = 0 /\ v \div 32768 = 0
      BY <1>1, <2>1, SMT
    <3> QED BY <1>1, <3>1, BitsAt, SMT
  <2> HIDE DEF B
  <2>3. S = {i \in 0 .. 8 : (i - 1) % 9 \in B \union (IF c THEN {8} ELSE {})}
    BY <1>0, <2>1, SMT DEF Turned, B
  <2>3a. /\ 0 \in S <=> c
         /\ \A k \in 1 .. 8 : k \in S <=> k - 1 \in B
    <3>1. S = RingOnce(B, c, 8)
      BY <1>0, <2>1 DEF B, RingOnce
    <3>2. 8 \in Nat /\ 8 > 0 /\ B \subseteq 0 .. 8 - 1 /\ c \in BOOLEAN
      BY <1>3, <2>2, SMT
    <3> HIDE DEF T, in, out
    <3> QED BY ONLY <3>1, <3>2, TurnedOnce
  <2>4a. At(T, 0) = in /\ out = At(B, 7)
    BY ONLY <2>1, <2>3a, SMT DEF At, T, in, out
  <2>4b. /\ At(T, 1) = At(B, 0) /\ At(T, 2) = At(B, 1) /\ At(T, 3) = At(B, 2)
         /\ At(T, 4) = At(B, 3)
    BY ONLY <2>1, <2>3a, SMT DEF At, T
  <2>4c. /\ At(T, 5) = At(B, 4) /\ At(T, 6) = At(B, 5) /\ At(T, 7) = At(B, 6)
    BY ONLY <2>1, <2>3a, SMT DEF At, T
  <2>5. /\ At(T, 8) = 0 /\ At(T, 9) = 0 /\ At(T, 10) = 0 /\ At(T, 11) = 0
        /\ At(T, 12) = 0 /\ At(T, 13) = 0 /\ At(T, 14) = 0 /\ At(T, 15) = 0
        /\ At(B, 8) = 0 /\ At(B, 9) = 0 /\ At(B, 10) = 0 /\ At(B, 11) = 0
        /\ At(B, 12) = 0 /\ At(B, 13) = 0 /\ At(B, 14) = 0 /\ At(B, 15) = 0
    BY <2>1, <2>2, <2>3, SMT DEF At
  <2> HIDE DEF T, in, out
  <2>6. 2 * v + in = Value(T) + 256 * out
    BY <1>2, <1>4, <1>5, <2>4a, <2>4b, <2>4c, <2>5, ValueSum, SMT
  <2>7. Value(T) \in Int /\ 0 <= Value(T) /\ Value(T) <= 255
    <3>1. \A i : At(T, i) \in 0 .. 1
      BY AtType
    <3> QED BY <2>5, <3>1, ValueSum, SMT
  <2>8. Value(T) \in 0 .. w - 1
    BY <1>8, <2>7, InWord
  <2> QED BY <2>1, <2>6, <2>8 DEF T, in, out
<1> QED BY <1>6, <1>7, <1>8

\* RCL by one place makes twice the destination and the carry.
LEMMA RclSums ==
  ASSUME TypeOK, SumsAreExact, Rcl
  PROVE  SumsAreExact'
<1>1. PICK src \in Source("RCL") : \E S \in {Turned(Ring, src % 32, Size(w0) + 1)} :
         /\ Rotate(src, S \ {Size(w0)}, Size(w0) \in S, (Top \in S) # (Size(w0) \in S))
         /\ sum' = IF src % 32 = 1 THEN Summed(dst0, Value(S \ {Size(w0)})) ELSE NoSum
  BY RclParts
<1>0. PICK S \in {Turned(Ring, src % 32, Size(w0) + 1)} :
         /\ Rotate(src, S \ {Size(w0)}, Size(w0) \in S, (Top \in S) # (Size(w0) \in S))
         /\ sum' = IF src % 32 = 1 THEN Summed(dst0, Value(S \ {Size(w0)})) ELSE NoSum
  BY <1>1
<1>2. CASE src % 32 # 1
  <2>1. ~sum'.adds
    BY <1>0, <1>2, SMT DEF NoSum
  <2> QED BY <2>1, Zenon DEF SumsAreExact
<1>3. CASE src % 32 = 1
  <2> DEFINE v == Value(S \ {Size(w0)})
             c == flags.CF
  <2>1. w0 \in Width /\ dst0 \in 0 .. w0 - 1 /\ dst0 \in Int /\ c \in BOOLEAN
    BY Frame, Registers
  <2>2. S = Turned(Bits(dst0) \union (IF c THEN {Size(w0)} ELSE {}), 1, Size(w0) + 1)
    BY <1>0, <1>3, Zenon DEF Ring, Operand
  <2>3. 2 * dst0 + (IF c THEN 1 ELSE 0) = v + w0 * (IF Size(w0) \in S THEN 1 ELSE 0)
    <3> DEFINE w == w0
               d == dst0
    <3>1. w \in Width /\ d \in 0 .. w - 1 /\ c \in BOOLEAN
      BY <2>1
    <3>2. RingTurned(S, d, c, w)
      BY <2>2, Zenon DEF RingTurned
    <3> HIDE DEF w, d, c
    <3>3. 2 * d + (IF c THEN 1 ELSE 0)
             = Value(S \ {Size(w)}) + w * (IF Size(w) \in S THEN 1 ELSE 0)
      BY <3>1, <3>2, RingByOne
    <3> QED BY <3>3 DEF w, d
  <2>4. flags'.CF = (Size(w0) \in S)
    BY <1>0 DEF Rotate, With
  <2>5. /\ Carry(flags) = (IF c THEN 1 ELSE 0)
        /\ Carry(flags') = (IF Size(w0) \in S THEN 1 ELSE 0)
    BY <2>4, Zenon DEF Carry
  <2>6. dst0 + dst0 + Carry(flags) = v + w0 * Carry(flags')
    <3>1. dst0 + dst0 = 2 * dst0
      BY <2>1, SMT
    <3> QED BY <2>3, <2>5, <3>1
  <2>7. v \in Int /\ sum' = Summed(dst0, v)
    BY <1>0, <1>3, ValueType, WordFacts
  <2> HIDE DEF v, c
  <2> QED BY <2>1, <2>6, <2>7, Continued
<1> QED BY <1>2, <1>3

\* With the types the claim is inductive: what the other instructions do to CF
\* they do to no sum in progress.
LEMMA SumsInductive ==
  ASSUME TypeOK, SumsAreExact, [Next]_vars
  PROVE  SumsAreExact'
<1>1. CASE UNCHANGED vars
  BY <1>1, Zenon DEF vars, SumsAreExact
<1>2. CASE Next
  <2>1. CASE sum' = NoSum
    <3>1. ~sum'.adds
      BY <2>1, SMT DEF NoSum
    <3> QED BY <3>1, Zenon DEF SumsAreExact
  <2>2. CASE sum' = sum /\ flags'.CF = flags.CF
    <3>1. Carry(flags') = Carry(flags)
      BY <2>2, Zenon DEF Carry
    <3> QED BY <2>2, <3>1, Zenon DEF SumsAreExact
  <2>3. CASE Add \/ Adc \/ Rcl
    BY <2>3, AddSums, AdcSums, RclSums
  <2> QED BY <1>2, <2>1, <2>2, <2>3, Steps
<1> QED BY <1>1, <1>2

\* ADD, ADC, RCL by one place and all that may run between them compute the
\* exact sums of numbers of any number of words.
THEOREM AluSums == Spec => []SumsAreExact
<1>1. Init => TypeOK /\ SumsAreExact
  <2>1. Init => SumsAreExact
    <3> SUFFICES ASSUME Init PROVE SumsAreExact
      OBVIOUS
    <3>1. ~sum.adds
      BY SMT DEF Init, NoSum
    <3> QED BY <3>1, Zenon DEF SumsAreExact
  <2> QED BY <2>1, TypeInit
<1>2. TypeOK /\ SumsAreExact /\ [Next]_vars => TypeOK' /\ SumsAreExact'
  BY TypeInductive, SumsInductive
<1> QED BY <1>1, <1>2, PTL DEF Spec

-------------------------------------------------------------------------------
(* Comparisons and the jumps that read their flags *)

LEMMA TakenCases ==
  ASSUME NEW f
  PROVE  /\ Taken("O", f) <=> f.OF
         /\ Taken("NO", f) <=> ~f.OF
         /\ Taken("B", f) <=> f.CF
         /\ Taken("AE", f) <=> ~f.CF
         /\ Taken("E", f) <=> f.ZF
         /\ Taken("NE", f) <=> ~f.ZF
         /\ Taken("BE", f) <=> f.CF \/ f.ZF
         /\ Taken("A", f) <=> ~f.CF /\ ~f.ZF
         /\ Taken("S", f) <=> f.SF
         /\ Taken("NS", f) <=> ~f.SF
         /\ Taken("L", f) <=> f.SF # f.OF
         /\ Taken("GE", f) <=> f.SF = f.OF
         /\ Taken("LE", f) <=> f.ZF \/ f.SF # f.OF
         /\ Taken("G", f) <=> ~f.ZF /\ f.SF = f.OF
  BY SMT DEF Taken

\* The signed difference of a and b can be written in the operands' size.
Fits(a, b, w) == /\ Signed(a, w) - Signed(b, w) >= -(w \div 2)
                 /\ Signed(a, w) - Signed(b, w) < w \div 2

LEMMA MeansCases ==
  ASSUME NEW a, NEW b, NEW w
  PROVE  /\ Means("O", a, b, w) <=> ~Fits(a, b, w)
         /\ Means("NO", a, b, w) <=> Fits(a, b, w)
         /\ Means("B", a, b, w) <=> a < b
         /\ Means("AE", a, b, w) <=> a >= b
         /\ Means("E", a, b, w) <=> a = b
         /\ Means("NE", a, b, w) <=> a # b
         /\ Means("BE", a, b, w) <=> a <= b
         /\ Means("A", a, b, w) <=> a > b
         /\ Means("S", a, b, w) <=> Sign((a - b) % w, w)
         /\ Means("NS", a, b, w) <=> ~Sign((a - b) % w, w)
         /\ Means("L", a, b, w) <=> Signed(a, w) < Signed(b, w)
         /\ Means("GE", a, b, w) <=> Signed(a, w) >= Signed(b, w)
         /\ Means("LE", a, b, w) <=> Signed(a, w) <= Signed(b, w)
         /\ Means("G", a, b, w) <=> Signed(a, w) > Signed(b, w)
  BY SMT DEF Means, Fits

\* Overflow of the subtraction a - b, as setFlags_Sub decides it.
Overflows(a, b, w) == /\ Sign(a, w) # Sign(b, w)
                      /\ Sign(a, w) # Sign((a - b) % w, w)

\* Overflow and sign of a difference against the numbers, signed.
LEMMA Differences ==
  ASSUME NEW h \in Nat, h > 0, NEW w \in Nat, w = 2 * h,
         NEW a \in 0 .. w - 1, NEW b \in 0 .. w - 1
  PROVE  /\ (a - b) % w = 0 <=> a = b
         /\ Overflows(a, b, w) <=> ~Fits(a, b, w)
         /\ (Sign((a - b) % w, w) # Overflows(a, b, w))
               <=> Signed(a, w) < Signed(b, w)
         /\ Signed(a, w) = Signed(b, w) <=> a = b
         /\ Signed(a, w) \in Int /\ Signed(b, w) \in Int
<1> DEFINE v == (a - b) % w
           sa == Signed(a, w)
           sb == Signed(b, w)
<1>1. w \div 2 = h
  BY SMT
<1>2. v = IF a >= b THEN a - b ELSE a - b + w
  BY SMT
<1>3. sa = (IF a >= h THEN a - w ELSE a) /\ sb = (IF b >= h THEN b - w ELSE b)
  BY <1>1, SMT DEF Signed
<1>4. /\ Sign(a, w) = (a >= h) /\ Sign(b, w) = (b >= h) /\ Sign(v, w) = (v >= h)
  BY <1>1, SMT DEF Sign
<1> HIDE DEF v, sa, sb
<1>5. v = 0 <=> a = b
  BY <1>2, SMT
<1>6. ((a >= h) # (b >= h) /\ (a >= h) # (v >= h)) <=> ~(sa - sb >= -h /\ sa - sb < h)
  BY <1>2, <1>3, SMT
<1>7. (v >= h) # ((a >= h) # (b >= h) /\ (a >= h) # (v >= h)) <=> sa < sb
  BY <1>2, <1>3, SMT
<1>8. sa = sb <=> a = b
  BY <1>3, SMT
<1>9. sa \in Int /\ sb \in Int
  BY <1>3, SMT
<1>10. Overflows(a, b, w) = ((a >= h) # (b >= h) /\ (a >= h) # (v >= h))
  BY <1>4 DEF Overflows, v
<1>11. Fits(a, b, w) <=> sa - sb >= -h /\ sa - sb < h
  BY <1>1 DEF Fits, sa, sb
<1> QED BY <1>4, <1>5, <1>6, <1>7, <1>8, <1>9, <1>10, <1>11 DEF v, sa, sb

\* f are the flags of a comparison of a and b.
Decided(f, a, b, w) ==
  /\ f.CF <=> a < b
  /\ f.ZF <=> (a - b) % w = 0
  /\ f.SF = Sign((a - b) % w, w)
  /\ f.OF = Overflows(a, b, w)

LEMMA JumpsDecide ==
  ASSUME NEW w \in Width, NEW a \in 0 .. w - 1, NEW b \in 0 .. w - 1,
         NEW f, Decided(f, a, b, w), NEW cc \in Condition
  PROVE  Taken(cc, f) <=> Means(cc, a, b, w)
<1> DEFINE sa == Signed(a, w)
           sb == Signed(b, w)
<1>1. PICK h \in Nat : h > 0 /\ w = 2 * h
  BY Halves
<1>2. a \in Int /\ b \in Int
  BY WidthFacts, SMT
<1>3. /\ (a - b) % w = 0 <=> a = b
      /\ Overflows(a, b, w) <=> ~Fits(a, b, w)
      /\ (Sign((a - b) % w, w) # Overflows(a, b, w)) <=> sa < sb
      /\ sa = sb <=> a = b
      /\ sa \in Int /\ sb \in Int
  BY <1>1, WidthFacts, Differences
<1> HIDE DEF sa, sb
<1>4. /\ a >= b <=> ~(a < b)
      /\ a <= b <=> (a < b \/ a = b)
      /\ a > b <=> ~(a < b) /\ a # b
      /\ sa >= sb <=> ~(sa < sb)
      /\ sa <= sb <=> (sa < sb \/ sa = sb)
      /\ sa > sb <=> ~(sa < sb) /\ sa # sb
  BY <1>2, <1>3, SMT
<1>5. /\ f.OF <=> ~Fits(a, b, w)
      /\ f.CF <=> a < b
      /\ f.ZF <=> a = b
      /\ f.SF = Sign((a - b) % w, w)
      /\ f.SF # f.OF <=> sa < sb
      /\ f.SF = f.OF <=> ~(sa < sb)
  BY <1>3 DEF Decided
<1>6. cc \in {"O", "NO", "B", "AE", "E", "NE", "BE", "A", "S", "NS",
              "L", "GE", "LE", "G"}
  BY DEF Condition
<1>7. CASE cc \in {"O", "NO", "B", "AE", "E", "NE"}
  BY <1>4, <1>5, <1>7, TakenCases, MeansCases
<1>8. CASE cc \in {"BE", "A", "S", "NS"}
  BY <1>4, <1>5, <1>8, TakenCases, MeansCases
<1>9. CASE cc \in {"L", "GE", "LE", "G"}
  BY <1>3, <1>4, <1>5, <1>9, TakenCases, MeansCases DEF sa, sb
<1> QED BY <1>6, <1>7, <1>8, <1>9

\* The flags of a subtraction, and those of a logic instruction.
LEMMA SubDecided ==
  ASSUME NEW w \in Width, NEW a \in 0 .. w - 1, NEW b \in 0 .. w - 1
  PROVE  Decided(setFlags_Sub(a - b, a, b, w), a, b, w)
<1> DEFINE cf == b > a
           af == (b % 16) > (a % 16)
           of == Sign(a, w) # Sign(b, w) /\ Sign(a, w) # Sign((a - b) % w, w)
           f == setFlags_Sub(a - b, a, b, w)
<1>1. f = Shown((a - b) % w, w, cf, af, Overflows(a, b, w))
  <2>1. f = Shown((a - b) % w, w, cf, af, of)
    BY SMT DEF setFlags_Sub
  <2>2. of = Overflows(a, b, w)
    BY DEF Overflows
  <2> HIDE DEF cf, af, of, f
  <2> QED BY <2>1, <2>2
<1>2. cf <=> a < b
  BY WidthFacts, SMT
<1> HIDE DEF cf, af, of, f
<1>3. /\ f.CF = cf
      /\ f.ZF = ((a - b) % w = 0)
      /\ f.SF = Sign((a - b) % w, w)
      /\ f.OF = Overflows(a, b, w)
  BY <1>1 DEF Shown
<1> QED BY <1>2, <1>3 DEF Decided, f

LEMMA LogicDecided ==
  ASSUME NEW w \in Width, NEW v \in 0 .. w - 1
  PROVE  /\ Decided(setFlags_Logic(v, w), v, 0, w)
         /\ 0 \in 0 .. w - 1
<1> DEFINE f == setFlags_Logic(v, w)
<1>1. w \in Nat /\ w > 0 /\ v \in Int /\ 0 <= v /\ v < w
  BY WidthFacts, SMT
<1>2. (v - 0) % w = v
  BY <1>1, SMT
<1>3. ~Overflows(v, 0, w)
  BY <1>2 DEF Overflows
<1>4. f = Shown(v, w, FALSE, flags.AF, FALSE)
  BY DEF setFlags_Logic
<1> HIDE DEF f
<1>5. ~f.CF /\ (f.ZF <=> v = 0) /\ f.SF = Sign(v, w) /\ ~f.OF /\ f.OF \in BOOLEAN
  BY <1>4 DEF Shown
<1>6. Overflows(v, 0, w) \in BOOLEAN
  BY Zenon DEF Overflows
<1>7. ~(v < 0) /\ 0 \in 0 .. w - 1
  BY <1>1, SMT
<1> QED BY <1>2, <1>3, <1>5, <1>6, <1>7 DEF Decided, f

\* The history holds the instruction that was executed.
LEMMA Executed ==
  ASSUME NEW op, NEW src \in Source(op), NEW i, Goto(i, src)
  PROVE  /\ last'.op = op /\ last'.w = w0 /\ last'.src = src
         /\ Dst(last') = dst0
<1>1. prog[pc].op = op
  BY DEF Source
<1>2. last' = [op |-> prog[pc].op, w |-> w0, src |-> src,
               ax |-> ax, dx |-> dx, cf |-> flags.CF]
  BY DEF Goto
<1>3. last'.op = op /\ last'.w = w0 /\ last'.src = src /\ last'.ax = ax
  BY <1>1, <1>2
<1> QED BY <1>3 DEF Dst, dst0

LEMMA ComparedCases ==
  ASSUME NEW i
  PROVE  /\ i.op \in {"CMP", "SUB"} => Compared(i) = <<Dst(i), i.src>>
         /\ i.op = "NEG" => Compared(i) = <<0, Dst(i)>>
         /\ i.op \in {"AND", "TEST"} => Compared(i) = <<And(Dst(i), i.src) % i.w, 0>>
         /\ i.op = "OR" => Compared(i) = <<Or(Dst(i), i.src) % i.w, 0>>
         /\ i.op = "XOR" => Compared(i) = <<Xor(Dst(i), i.src) % i.w, 0>>
  BY DEF Compared

LEMMA Decision ==
  ASSUME NEW a, NEW b, Compared(last') = <<a, b>>, last'.w \in Width,
         last'.op # "SBB",
         a \in 0 .. last'.w - 1, b \in 0 .. last'.w - 1,
         Decided(flags', a, b, last'.w)
  PROVE  ComparisonsDecide'
  BY JumpsDecide DEF ComparisonsDecide

LEMMA CmpDecides ==
  ASSUME TypeOK, Cmp \/ Sub
  PROVE  ComparisonsDecide'
<1>0. PICK op \in {"CMP", "SUB"} : \E src \in Source(op) :
         Done(src) /\ flags' = setFlags_Sub(dst0 - src, dst0, src, w0)
  <2>1. CASE Cmp
    BY <2>1 DEF Cmp
  <2>2. CASE Sub
    <3>1. PICK src \in Source("SUB") :
             Done(src) /\ flags' = setFlags_Sub(dst0 - src - 0, dst0, src, w0)
      BY <2>2 DEF Sub, Subtract
    <3>2. dst0 - src - 0 = dst0 - src
      BY Frame, SMT
    <3> QED BY <3>1, <3>2
  <2> QED BY <2>1, <2>2
<1>1. PICK src \in Source(op) :
         Done(src) /\ flags' = setFlags_Sub(dst0 - src, dst0, src, w0)
  BY <1>0
<1>2. w0 \in Width /\ src \in 0 .. w0 - 1 /\ dst0 \in 0 .. w0 - 1
  BY Frame
<1>3. /\ last'.op = op /\ last'.w = w0 /\ last'.src = src /\ Dst(last') = dst0
  BY <1>1, Executed DEF Done
<1>4. Compared(last') = <<dst0, src>>
  BY <1>3, ComparedCases
<1>5. Decided(flags', dst0, src, w0)
  BY <1>1, <1>2, SubDecided
<1> QED BY <1>2, <1>3, <1>4, <1>5, Decision

LEMMA NegDecides ==
  ASSUME TypeOK, Neg
  PROVE  ComparisonsDecide'
<1>1. PICK src \in Source("NEG") :
         Done(src) /\ flags' = setFlags_Sub(-dst0, 0, dst0, w0)
  BY DEF Neg
<1>2. w0 \in Width /\ dst0 \in 0 .. w0 - 1 /\ dst0 \in Int
  BY Frame
<1>3. 0 \in 0 .. w0 - 1 /\ 0 - dst0 = -dst0
  BY <1>2, WidthFacts, SMT
<1>4. /\ last'.op = "NEG" /\ last'.w = w0 /\ Dst(last') = dst0
  BY <1>1, Executed DEF Done
<1>5. Compared(last') = <<0, dst0>>
  BY <1>4, ComparedCases
<1>6. Decided(flags', 0, dst0, w0)
  BY <1>1, <1>2, <1>3, SubDecided
<1> QED BY <1>2, <1>3, <1>4, <1>5, <1>6, Decision

LEMMA LogicDecides ==
  ASSUME TypeOK, AndOp \/ OrOp \/ XorOp \/ Test
  PROVE  ComparisonsDecide'
<1>1. ASSUME NEW op, op # "SBB", NEW src \in Source(op), NEW v \in Word, Logic(src, v),
             Compared(last') = <<v % w0, 0>>
      PROVE  ComparisonsDecide'
  <2>1. v % w0 \in 0 .. w0 - 1 /\ w0 \in Width
    BY <1>1, LogicType, Frame
  <2>2. flags' = setFlags_Logic(v % w0, w0) /\ last'.w = w0 /\ last'.op # "SBB"
    BY <1>1, Executed DEF Logic, Done
  <2> QED BY <1>1, <2>1, <2>2, LogicDecided, Decision
<1>2. \A a, b : And(a, b) \in Word /\ Or(a, b) \in Word /\ Xor(a, b) \in Word
  BY ValueType DEF And, Or, Xor
<1>3. ASSUME NEW op, NEW src \in Source(op), NEW v, Logic(src, v)
      PROVE  last'.op = op /\ last'.w = w0 /\ last'.src = src /\ Dst(last') = dst0
  BY <1>3, Executed DEF Logic, Done
<1>4. CASE AndOp
  <2>1. PICK src \in Source("AND") : Logic(src, And(dst0, src))
    BY <1>4 DEF AndOp
  <2>2. Compared(last') = <<And(dst0, src) % w0, 0>>
    BY <1>3, <2>1, ComparedCases
  <2> QED BY <1>1, <1>2, <2>1, <2>2
<1>5. CASE OrOp
  <2>1. PICK src \in Source("OR") : Logic(src, Or(dst0, src))
    BY <1>5 DEF OrOp
  <2>2. Compared(last') = <<Or(dst0, src) % w0, 0>>
    BY <1>3, <2>1, ComparedCases
  <2> QED BY <1>1, <1>2, <2>1, <2>2
<1>6. CASE XorOp
  <2>1. PICK src \in Source("XOR") : Logic(src, Xor(dst0, src))
    BY <1>6 DEF XorOp
  <2>2. Compared(last') = <<Xor(dst0, src) % w0, 0>>
    BY <1>3, <2>1, ComparedCases
  <2> QED BY <1>1, <1>2, <2>1, <2>2
<1>7. CASE Test
  <2>1. PICK src \in Source("TEST") : Logic(src, And(dst0, src))
    BY <1>7 DEF Test
  <2>2. Compared(last') = <<And(dst0, src) % w0, 0>>
    BY <1>3, <2>1, ComparedCases
  <2> QED BY <1>1, <1>2, <2>1, <2>2
<1> QED BY <1>4, <1>5, <1>6, <1>7

\* The claim is about the last instruction alone, so every other instruction
\* ends it.
Others == Opcode \ {"CMP", "SUB", "SBB", "NEG", "AND", "OR", "XOR", "TEST"}

\* Overflow of a subtraction of b from a that leaves v, as setFlags_Sub decides it.
Overturns(a, b, v, w) == Sign(a, w) # Sign(b, w) /\ Sign(a, w) # Sign(v, w)

\* What zero, sign, overflow and carry say of the subtraction with the borrow c.
BorrowTold(a, b, c, v, w) ==
  /\ (Sign(v, w) <=> ~Overturns(a, b, v, w)) <=> Signed(a, w) - Signed(b, w) - c < 0
  /\ (v = 0 \/ (Sign(v, w) <=> ~Overturns(a, b, v, w)))
       <=> Signed(a, w) - Signed(b, w) - c <= 0
  /\ Overturns(a, b, v, w)
       <=> ~(/\ Signed(a, w) - Signed(b, w) - c >= -(w \div 2)
             /\ Signed(a, w) - Signed(b, w) - c < w \div 2)
  /\ ~(a = b /\ c = 1) => (b > a <=> a - b - c < 0)

LEMMA BorrowedDifference ==
  ASSUME NEW h \in Nat, h > 0, NEW w \in Nat, w = 2 * h,
         NEW a \in 0 .. w - 1, NEW b \in 0 .. w - 1, NEW c \in 0 .. 1,
         NEW v, v = (a - b - c) % w
  PROVE  BorrowTold(a, b, c, v, w)
<1> DEFINE sa == Signed(a, w)
           sb == Signed(b, w)
<1>1. w \div 2 = h
  BY SMT
<1>2. v = IF a - b - c >= 0 THEN a - b - c ELSE a - b - c + w
  BY SMT
<1>3. sa = (IF a >= h THEN a - w ELSE a) /\ sb = (IF b >= h THEN b - w ELSE b)
  BY <1>1, SMT DEF Signed
<1>4. /\ Sign(a, w) <=> a >= h
      /\ Sign(b, w) <=> b >= h
      /\ Sign(v, w) <=> v >= h
      /\ Sign(a, w) \in BOOLEAN /\ Sign(b, w) \in BOOLEAN /\ Sign(v, w) \in BOOLEAN
  BY <1>1, SMT DEF Sign
<1>5. Overturns(a, b, v, w) <=> ~(a >= h <=> b >= h) /\ ~(a >= h <=> v >= h)
  BY <1>4, Zenon DEF Overturns
<1> HIDE DEF sa, sb
<1>6. /\ ~(a >= h <=> b >= h) /\ ~(a >= h <=> v >= h)
         <=> ~(sa - sb - c >= -h /\ sa - sb - c < h)
  BY <1>2, <1>3, SMT
<1>7. (v >= h <=> ~(~(a >= h <=> b >= h) /\ ~(a >= h <=> v >= h)))
         <=> sa - sb - c < 0
  BY <1>2, <1>3, SMT
<1>9. (v = 0 \/ (v >= h <=> ~(~(a >= h <=> b >= h) /\ ~(a >= h <=> v >= h))))
         <=> sa - sb - c <= 0
  BY <1>2, <1>3, SMT
<1>8. ~(a = b /\ c = 1) => (b > a <=> a - b - c < 0)
  BY SMT
<1> QED BY <1>1, <1>4, <1>5, <1>6, <1>7, <1>8, <1>9 DEF sa, sb, BorrowTold

LEMMA SbbDecides ==
  ASSUME TypeOK, Sbb
  PROVE  ComparisonsDecide'
<1>1. PICK src \in Source("SBB") :
         Done(src) /\ flags' = setFlags_Sub(dst0 - src - Carry(flags), dst0, src, w0)
  BY DEF Sbb, Subtract
<1>2. /\ w0 \in Width /\ src \in 0 .. w0 - 1 /\ dst0 \in 0 .. w0 - 1
      /\ w0 \in Nat /\ Carry(flags) \in 0 .. 1
  BY Frame, Registers, WidthFacts
<1>3. PICK h \in Nat : h > 0 /\ w0 = 2 * h
  BY <1>2, Halves
<1>4. /\ last'.op = "SBB" /\ last'.w = w0 /\ last'.src = src /\ Dst(last') = dst0
      /\ last'.cf = flags.CF
  BY <1>1, Executed DEF Done, Goto
<1>5. BorrowIn(last') = Carry(flags)
  BY <1>4, Zenon DEF BorrowIn, Carry
<1> DEFINE v == (dst0 - src - Carry(flags)) % w0
           of == Overturns(dst0, src, v, w0)
           af == (src % 16) > (dst0 % 16)
           cf == src > dst0
<1>6. flags' = Shown(v, w0, cf, af, of)
  BY <1>1, Zenon DEF setFlags_Sub, Overturns
<1> HIDE DEF cf, af
<1>7. /\ flags'.CF = cf /\ flags'.SF = Sign(v, w0) /\ flags'.OF = of
      /\ flags'.ZF = (v = 0)
  BY <1>6, Zenon DEF Shown
<1>8. Sign(v, w0) \in BOOLEAN /\ of \in BOOLEAN
  <2> HIDE DEF v
  <2>1. Sign(v, w0) \in BOOLEAN
    BY SMT DEF Sign
  <2> QED BY <2>1, Zenon DEF Overturns
<1>9. /\ Taken("L", flags') <=> (Sign(v, w0) <=> ~of)
      /\ Taken("LE", flags') <=> v = 0 \/ (Sign(v, w0) <=> ~of)
      /\ Taken("O", flags') <=> of
      /\ Taken("B", flags') <=> src > dst0
  BY <1>7, <1>8, TakenCases, Zenon DEF cf
<1>10. BorrowTold(dst0, src, Carry(flags), v, w0)
  <2> HIDE DEF v
  <2>1. v = (dst0 - src - Carry(flags)) % w0
    BY DEF v
  <2> QED BY <1>2, <1>3, <2>1, BorrowedDifference
<1> HIDE DEF v
<1>11. LET a == Dst(last')
           b == last'.src
           borrow == BorrowIn(last')
           signed == Signed(a, last'.w) - Signed(b, last'.w) - borrow
       IN  /\ Taken("L", flags') <=> signed < 0
           /\ Taken("LE", flags') <=> signed <= 0
           /\ Taken("O", flags') <=>
                  ~(signed >= -(last'.w \div 2) /\ signed < last'.w \div 2)
           /\ ~(a = b /\ borrow = 1) =>
                  (Taken("B", flags') <=> a - b - borrow < 0)
  BY ONLY <1>4, <1>5, <1>9, <1>10, Zenon DEF BorrowTold
<1>12. last'.op \notin {"CMP", "SUB", "NEG", "AND", "OR", "XOR", "TEST"}
  BY <1>4
<1> QED BY ONLY <1>11, <1>12, Zenon DEF ComparisonsDecide

LEMMA OthersEnd ==
  ASSUME NEW op \in Others, NEW src \in Source(op), NEW i, Goto(i, src)
  PROVE  ComparisonsDecide'
<1>1. last'.op = op
  BY Executed
<1> QED BY <1>1 DEF Others, ComparisonsDecide

LEMMA DecideInductive ==
  ASSUME TypeOK, ComparisonsDecide, [Next]_vars
  PROVE  ComparisonsDecide'
<1>1. CASE UNCHANGED vars
  BY <1>1, Zenon DEF vars, ComparisonsDecide
<1>2. CASE Cmp \/ Sub \/ Sbb \/ Neg \/ AndOp \/ OrOp \/ XorOp \/ Test
  BY <1>2, CmpDecides, SbbDecides, NegDecides, LogicDecides
<1>3. ASSUME NEW op \in Others, \E src \in Source(op) : \E i : Goto(i, src)
      PROVE  ComparisonsDecide'
  BY <1>3, OthersEnd
<1>4. {"MOV", "ADD", "ADC", "INC", "DEC", "NOT", "MUL", "IMUL", "DIV", "IDIV",
       "CWD", "DAA", "DAS", "AAA", "AAS", "AAM", "AAD", "CLC", "STC", "CMC", "JCC",
       "SHL", "SHR", "SAR", "ROL", "ROR", "RCL", "RCR"} \subseteq Others
  BY SMT DEF Others, Opcode
<1>5. CASE Mov \/ NotOp \/ Add \/ Adc \/ Inc \/ Dec
  <2>1. CASE Mov
    BY <1>3, <1>4, <2>1, Zenon DEF Mov, Done
  <2>2. CASE NotOp
    BY <1>3, <1>4, <2>2, Zenon DEF NotOp, Done
  <2>3. CASE Add
    BY <1>3, <1>4, <2>3, Zenon DEF Add, Done
  <2>4. CASE Adc
    BY <1>3, <1>4, <2>4, Zenon DEF Adc, Done
  <2>6. CASE Inc
    BY <1>3, <1>4, <2>6, Zenon DEF Inc, Done
  <2>7. CASE Dec
    BY <1>3, <1>4, <2>7, Zenon DEF Dec, Done
  <2> QED BY <1>5, <2>1, <2>2, <2>3, <2>4, <2>6, <2>7
<1>6. CASE Mul \/ Imul \/ Div \/ Idiv \/ Cwd
  <2>1. CASE Mul
    BY <1>3, <1>4, <2>1, Zenon DEF Mul, Done
  <2>2. CASE Imul
    BY <1>3, <1>4, <2>2, Zenon DEF Imul, Done
  <2>3. CASE Div
    BY <1>3, <1>4, <2>3, Zenon DEF Div, Done
  <2>4. CASE Idiv
    BY <1>3, <1>4, <2>4, Zenon DEF Idiv, Done
  <2>5. CASE Cwd
    BY <1>3, <1>4, <2>5, Zenon DEF Cwd, Done
  <2> QED BY <1>6, <2>1, <2>2, <2>3, <2>4, <2>5
<1>7. CASE Daa \/ Das \/ Aaa \/ Aas \/ Aam \/ Aad
  <2>1. CASE Daa
    BY <1>3, <1>4, <2>1, Zenon DEF Daa, Done
  <2>2. CASE Das
    BY <1>3, <1>4, <2>2, Zenon DEF Das, Done
  <2>3. CASE Aaa
    BY <1>3, <1>4, <2>3, Zenon DEF Aaa, Ascii, Done
  <2>4. CASE Aas
    BY <1>3, <1>4, <2>4, Zenon DEF Aas, Ascii, Done
  <2>5. CASE Aam
    BY <1>3, <1>4, <2>5, Zenon DEF Aam, Done
  <2>6. CASE Aad
    BY <1>3, <1>4, <2>6, Zenon DEF Aad, Done
  <2> QED BY <1>7, <2>1, <2>2, <2>3, <2>4, <2>5, <2>6
<1>8. CASE Clc \/ Stc \/ Cmc \/ Jump
  <2>1. CASE Clc \/ Stc \/ Cmc
    BY <1>3, <1>4, <2>1, Zenon DEF Clc, Stc, Cmc, SetCarry, Done
  <2>2. CASE Jump
    BY <1>3, <1>4, <2>2, Zenon DEF Jump
  <2> QED BY <1>8, <2>1, <2>2
<1>9. CASE Shl \/ Shr \/ Sar \/ Rol \/ Ror \/ Rcl \/ Rcr
  <2>1. CASE Shl
    BY <1>3, <1>4, <2>1, Zenon DEF Shl, Shift, Done
  <2>2. CASE Shr
    BY <1>3, <1>4, <2>2, Zenon DEF Shr, Shift, Done
  <2>3. CASE Sar
    BY <1>3, <1>4, <2>3, Zenon DEF Sar, Shift, Done
  <2>4. CASE Rol
    BY <1>3, <1>4, <2>4, Zenon DEF Rol, Rotate, Done
  <2>5. CASE Ror
    BY <1>3, <1>4, <2>5, Zenon DEF Ror, Rotate, Done
  <2>6. CASE Rcl
    BY <1>3, <1>4, <2>6, Zenon DEF Rcl, Rotate, Done
  <2>7. CASE Rcr
    BY <1>3, <1>4, <2>7, Zenon DEF Rcr, Rotate, Done
  <2> QED BY <1>9, <2>1, <2>2, <2>3, <2>4, <2>5, <2>6, <2>7
<1> QED BY <1>1, <1>2, <1>5, <1>6, <1>7, <1>8, <1>9 DEF Next

\* Behind a comparison every conditional jump does what its name says, for all
\* operands of both sizes.
THEOREM AluComparisons == Spec => []ComparisonsDecide
<1>1. Init => TypeOK /\ ComparisonsDecide
  <2>1. Init => ComparisonsDecide
    BY DEF Init, Fresh, ComparisonsDecide
  <2> QED BY <2>1, TypeInit
<1>2. TypeOK /\ ComparisonsDecide /\ [Next]_vars => TypeOK' /\ ComparisonsDecide'
  BY TypeInductive, DecideInductive
<1> QED BY <1>1, <1>2, PTL DEF Spec
-------------------------------------------------------------------------------
(* Pairs of instructions *)

\* The instruction of this opcode was executed and is now the last one.
Ran(op) == prev' = last /\ last'.op = op /\ last'.op \in Opcode

LEMMA Ends ==
  ASSUME TypeOK, NEW op, \E src \in Source(op) : \E i : Goto(i, src)
  PROVE  Ran(op)
<1>1. PICK src \in Source(op) : \E i : Goto(i, src)
  OBVIOUS
<1>2. last'.op = op /\ prev' = last
  BY <1>1, Executed DEF Goto
<1>3. op \in Opcode
  BY Frame
<1> QED BY <1>2, <1>3 DEF Ran

\* The opcode in the history tells which action has taken place.
LEMMA Dispatch ==
  ASSUME TypeOK
  PROVE /\ (Mov => Ran("MOV")) /\ (Add => Ran("ADD")) /\ (Adc => Ran("ADC"))
         /\ (Sub => Ran("SUB")) /\ (Sbb => Ran("SBB")) /\ (Cmp => Ran("CMP"))
         /\ (Inc => Ran("INC")) /\ (Dec => Ran("DEC")) /\ (Neg => Ran("NEG"))
         /\ (AndOp => Ran("AND")) /\ (OrOp => Ran("OR")) /\ (XorOp => Ran("XOR"))
         /\ (Test => Ran("TEST")) /\ (NotOp => Ran("NOT")) /\ (Mul => Ran("MUL"))
         /\ (Imul => Ran("IMUL")) /\ (Div => Ran("DIV")) /\ (Idiv => Ran("IDIV"))
         /\ (Cwd => Ran("CWD")) /\ (Daa => Ran("DAA")) /\ (Das => Ran("DAS"))
         /\ (Aaa => Ran("AAA")) /\ (Aas => Ran("AAS")) /\ (Aam => Ran("AAM"))
         /\ (Aad => Ran("AAD")) /\ (Clc => Ran("CLC")) /\ (Stc => Ran("STC"))
         /\ (Cmc => Ran("CMC")) /\ (Jump => Ran("JCC")) /\ (Shl => Ran("SHL"))
         /\ (Shr => Ran("SHR")) /\ (Sar => Ran("SAR")) /\ (Rol => Ran("ROL"))
         /\ (Ror => Ran("ROR")) /\ (Rcl => Ran("RCL")) /\ (Rcr => Ran("RCR"))
<1>1. Mov => Ran("MOV")
  BY Ends, Zenon DEF Mov, Done
<1>2. Add => Ran("ADD")
  BY Ends, Zenon DEF Add, Done
<1>3. Adc => Ran("ADC")
  BY Ends, Zenon DEF Adc, Done
<1>4. Sub => Ran("SUB")
  BY Ends, Zenon DEF Sub, Subtract, Done
<1>5. Sbb => Ran("SBB")
  BY Ends, Zenon DEF Sbb, Subtract, Done
<1>6. Cmp => Ran("CMP")
  BY Ends, Zenon DEF Cmp, Done
<1>7. Inc => Ran("INC")
  BY Ends, Zenon DEF Inc, Done
<1>8. Dec => Ran("DEC")
  BY Ends, Zenon DEF Dec, Done
<1>9. Neg => Ran("NEG")
  BY Ends, Zenon DEF Neg, Done
<1>10. AndOp => Ran("AND")
  BY Ends, Zenon DEF AndOp, Logic, Done
<1>11. OrOp => Ran("OR")
  BY Ends, Zenon DEF OrOp, Logic, Done
<1>12. XorOp => Ran("XOR")
  BY Ends, Zenon DEF XorOp, Logic, Done
<1>13. Test => Ran("TEST")
  BY Ends, Zenon DEF Test, Logic, Done
<1>14. NotOp => Ran("NOT")
  BY Ends, Zenon DEF NotOp, Done
<1>15. Mul => Ran("MUL")
  BY Ends, Zenon DEF Mul, Done
<1>16. Imul => Ran("IMUL")
  BY Ends, Zenon DEF Imul, Done
<1>17. Div => Ran("DIV")
  BY Ends, Zenon DEF Div, Done
<1>18. Idiv => Ran("IDIV")
  BY Ends, Zenon DEF Idiv, Done
<1>19. Cwd => Ran("CWD")
  BY Ends, Zenon DEF Cwd, Done
<1>20. Daa => Ran("DAA")
  BY Ends, Zenon DEF Daa, Done
<1>21. Das => Ran("DAS")
  BY Ends, Zenon DEF Das, Done
<1>22. Aaa => Ran("AAA")
  BY Ends, Zenon DEF Aaa, Ascii, Done
<1>23. Aas => Ran("AAS")
  BY Ends, Zenon DEF Aas, Ascii, Done
<1>24. Aam => Ran("AAM")
  BY Ends, Zenon DEF Aam, Done
<1>25. Aad => Ran("AAD")
  BY Ends, Zenon DEF Aad, Done
<1>26. Clc => Ran("CLC")
  BY Ends, Zenon DEF Clc, SetCarry, Done
<1>27. Stc => Ran("STC")
  BY Ends, Zenon DEF Stc, SetCarry, Done
<1>28. Cmc => Ran("CMC")
  BY Ends, Zenon DEF Cmc, SetCarry, Done
<1>29. Jump => Ran("JCC")
  BY Ends, Zenon DEF Jump
<1>30. Shl => Ran("SHL")
  BY Ends, Zenon DEF Shl, Shift, Done
<1>31. Shr => Ran("SHR")
  BY Ends, Zenon DEF Shr, Shift, Done
<1>32. Sar => Ran("SAR")
  BY Ends, Zenon DEF Sar, Shift, Done
<1>33. Rol => Ran("ROL")
  BY Ends, Zenon DEF Rol, Rotate, Done
<1>34. Ror => Ran("ROR")
  BY Ends, Zenon DEF Ror, Rotate, Done
<1>35. Rcl => Ran("RCL")
  BY Ends, Zenon DEF Rcl, Rotate, Done
<1>36. Rcr => Ran("RCR")
  BY Ends, Zenon DEF Rcr, Rotate, Done
<1> QED
  BY <1>1, <1>2, <1>3, <1>4, <1>5, <1>6, <1>7, <1>8, <1>9, <1>10, <1>11,
     <1>12, <1>13, <1>14, <1>15, <1>16, <1>17, <1>18, <1>19, <1>20,
     <1>21, <1>22, <1>23, <1>24, <1>25, <1>26, <1>27, <1>28, <1>29,
     <1>30, <1>31, <1>32, <1>33, <1>34, <1>35, <1>36, Zenon

\* The opcode of the last instruction names the action taken.
LEMMA Which ==
  ASSUME TypeOK, Next
  PROVE  /\ prev' = last
         /\ (last'.op = "ROL" => Rol) /\ (last'.op = "ROR" => Ror)
         /\ (last'.op = "RCL" => Rcl) /\ (last'.op = "RCR" => Rcr)
         /\ (last'.op = "ADD" => Add) /\ (last'.op = "SUB" => Sub)
         /\ (last'.op = "DAA" => Daa) /\ (last'.op = "DAS" => Das)
         /\ (last'.op = "AAA" => Aaa) /\ (last'.op = "AAS" => Aas)
         /\ (last'.op = "AAM" => Aam) /\ (last'.op = "AAD" => Aad)
         /\ (last'.op = "MUL" => Mul) /\ (last'.op = "IMUL" => Imul)
         /\ (last'.op = "DIV" => Div) /\ (last'.op = "IDIV" => Idiv)
         /\ (last'.op = "CWD" => Cwd)
         /\ (last'.op = "SHL" => Shl) /\ (last'.op = "SHR" => Shr)
         /\ (last'.op = "SAR" => Sar)
<1>1. prev' = last
  BY Dispatch DEF Next, Ran
<1>2. /\ (last'.op = "ROL" => Rol) /\ (last'.op = "ROR" => Ror)
      /\ (last'.op = "RCL" => Rcl) /\ (last'.op = "RCR" => Rcr)
  BY Dispatch, SMT DEF Next, Ran
<1>3. /\ (last'.op = "ADD" => Add) /\ (last'.op = "SUB" => Sub)
      /\ (last'.op = "DAA" => Daa) /\ (last'.op = "DAS" => Das)
      /\ (last'.op = "AAA" => Aaa) /\ (last'.op = "AAS" => Aas)
      /\ (last'.op = "AAM" => Aam) /\ (last'.op = "AAD" => Aad)
  BY Dispatch, SMT DEF Next, Ran
<1>4. /\ (last'.op = "MUL" => Mul) /\ (last'.op = "IMUL" => Imul)
      /\ (last'.op = "DIV" => Div) /\ (last'.op = "IDIV" => Idiv)
      /\ (last'.op = "CWD" => Cwd)
  BY Dispatch, SMT DEF Next, Ran
<1>5. /\ (last'.op = "SHL" => Shl) /\ (last'.op = "SHR" => Shr)
      /\ (last'.op = "SAR" => Sar)
  BY Dispatch, SMT DEF Next, Ran
<1> QED BY <1>1, <1>2, <1>3, <1>4, <1>5

\* What the history says of the instruction just executed.
LEMMA Recorded ==
  ASSUME NEW src, Done(src)
  PROVE  /\ prev' = last /\ last'.w = w0 /\ last'.src = src
         /\ last'.ax = ax /\ last'.dx = dx /\ last'.cf = flags.CF
         /\ Dst(last') = dst0
<1>1. /\ prev' = last
      /\ last' = [op |-> prog[pc].op, w |-> w0, src |-> src,
                  ax |-> ax, dx |-> dx, cf |-> flags.CF]
  BY DEF Done, Goto
<1>2. /\ last'.w = w0 /\ last'.src = src /\ last'.ax = ax
      /\ last'.dx = dx /\ last'.cf = flags.CF
  BY <1>1
<1> QED BY <1>1, <1>2 DEF Dst, dst0

\* AL or AX after it was written, and what the writing leaves alone.
LEMMA PutReads ==
  ASSUME NEW x \in Word, NEW w \in Width, NEW v \in 0 .. w - 1
  PROVE  /\ (x - (x % w) + v) % w = v
         /\ (w = BYTE => (x - (x % w) + v) \div BYTE = x \div BYTE)
<1>1. x \in Int /\ 0 <= x /\ x <= 65535
  BY WordFacts, InWord, SMT
<1>2. CASE w = BYTE
  <2>1. v \in Int /\ 0 <= v /\ v <= 255
    BY <1>2, WordFacts, InWord, SMT
  <2>2. /\ (x - (x % BYTE) + v) % BYTE = v
        /\ (x - (x % BYTE) + v) \div BYTE = x \div BYTE
    BY <1>1, <2>1, Sizes, SMT
  <2> QED BY <1>2, <2>2
<1>3. CASE w = WORD
  <2>0. v \in Int /\ 0 <= v /\ v <= 65535
    <3>1. v \in Word
      BY <1>3, Zenon DEF Word
    <3> QED BY <3>1, InWord, SMT
  <2>1. x % WORD = x
    BY <1>1, Sizes, SMT
  <2>2. (x - (x % WORD) + v) % WORD = v
    BY <1>1, <2>0, <2>1, Sizes, SMT
  <2>3. BYTE # WORD
    BY Sizes, SMT
  <2> QED BY <1>3, <2>2, <2>3
<1> QED BY <1>2, <1>3 DEF Width

-------------------------------------------------------------------------------
(* Rotations undo each other *)

\* Turning a ring back gives the ring back.
LEMMA TurnedBack ==
  ASSUME NEW m \in {8, 9, 16, 17}, NEW n \in Int, NEW S, S \subseteq 0 .. m - 1
  PROVE  Turned(Turned(S, n, m), -n, m) = S
<1>1. ASSUME NEW i \in 0 .. m - 1
      PROVE  (i - (-n)) % m \in 0 .. m - 1 /\ (((i - (-n)) % m) - n) % m = i
  <2>1. CASE m = 8
    BY <2>1, SMT
  <2>2. CASE m = 9
    BY <2>2, SMT
  <2>3. CASE m = 16
    BY <2>3, SMT
  <2>4. CASE m = 17
    BY <2>4, SMT
  <2> QED BY <2>1, <2>2, <2>3, <2>4
<1>2. ASSUME NEW i \in 0 .. m - 1
      PROVE  (i - (-n)) % m \in Turned(S, n, m) <=> i \in S
  BY <1>1 DEF Turned
<1>3. Turned(Turned(S, n, m), -n, m) = {i \in 0 .. m - 1 : (i - (-n)) % m \in Turned(S, n, m)}
  BY Zenon DEF Turned
<1> QED BY <1>2, <1>3

\* A rotation turns a circle of bits, which may include the carry.
Rotations == {"ROL", "ROR", "RCL", "RCR"}
Carried(i) == i.op \in {"RCL", "RCR"}

Circle(i) == Bits(Dst(i)) \union IF Carried(i) /\ i.cf THEN {Size(i.w)} ELSE {}
Places(i) == IF Carried(i) THEN Size(i.w) + 1 ELSE Size(i.w)
Count(i) == IF Carried(i) THEN i.src % 32 ELSE i.src
By(i) == IF i.op \in {"ROL", "RCL"} THEN Count(i) ELSE -Count(i)
Result(i) == Turned(Circle(i), By(i), Places(i))

\* What the last instruction did if it was a rotation.
Rotated == last.op \in Rotations =>
    /\ ax = last.ax - Dst(last) + Value(Result(last) \ {Size(last.w)})
    /\ Carried(last) => (flags.CF <=> Size(last.w) \in Result(last))

LEMMA BitsFit ==
  ASSUME NEW w \in Width, NEW v \in 0 .. w - 1
  PROVE  Bits(v) \subseteq 0 .. Size(w) - 1 /\ Size(w) \in {8, 16}
<1>1. v \in Int
  BY WidthFacts, SMT
<1>2. CASE w = BYTE
  <2>1. 0 <= v /\ v <= 255
    BY <1>2, InWord, SMT
  <2>2. /\ ~((v \div 256) % 2 = 1) /\ ~((v \div 512) % 2 = 1)
        /\ ~((v \div 1024) % 2 = 1) /\ ~((v \div 2048) % 2 = 1)
        /\ ~((v \div 4096) % 2 = 1) /\ ~((v \div 8192) % 2 = 1)
        /\ ~((v \div 16384) % 2 = 1) /\ ~((v \div 32768) % 2 = 1)
    BY <1>1, <2>1, SMT
  <2>3. /\ Bits(v) \subseteq 0 .. 15
        /\ 8 \notin Bits(v) /\ 9 \notin Bits(v) /\ 10 \notin Bits(v) /\ 11 \notin Bits(v)
        /\ 12 \notin Bits(v) /\ 13 \notin Bits(v) /\ 14 \notin Bits(v) /\ 15 \notin Bits(v)
    BY <1>1, <2>2, BitsAt
  <2>4. Bits(v) \subseteq 0 .. 7
    BY <2>3, SMT
  <2> QED BY <1>2, <2>4, SizeFacts
<1>3. CASE w = WORD
  <2>1. Bits(v) \subseteq 0 .. 15
    BY <1>1, BitsAt
  <2> QED BY <1>3, <2>1, SizeFacts
<1> QED BY <1>2, <1>3 DEF Width

\* Every rotation turns the circle of its operand.
LEMMA RotatedStep ==
  ASSUME TypeOK, Next
  PROVE  Rotated'
<1>1. CASE last'.op = "ROL"
  <2>1. PICK src \in Source("ROL") :
           LET S == Turned(Operand, src, Size(w0))
               cf == IF src % Size(w0) = 0 THEN flags.CF ELSE 0 \in S
           IN  Rotate(src, S, cf, (Top \in S) # cf)
    BY <1>1, Which DEF Rol
  <2>2. Done(src) /\ ax' = ax - dst0 + Value(Turned(Operand, src, Size(w0)))
    BY <2>1 DEF Rotate, Put
  <2>3. Result(last') = Turned(Operand, src, Size(w0)) /\ ~Carried(last')
    BY <1>1, <2>2, Recorded DEF Result, Circle, By, Count, Places, Carried, Operand
  <2>4. Turned(Operand, src, Size(w0)) \ {Size(w0)} = Turned(Operand, src, Size(w0))
    BY Frame, SizeType, SMT DEF Turned
  <2> QED BY <2>2, <2>3, <2>4, Recorded DEF Rotated
<1>2. CASE last'.op = "ROR"
  <2>1. PICK src \in Source("ROR") :
           LET S == Turned(Operand, -src, Size(w0))
               cf == IF src % Size(w0) = 0 THEN flags.CF ELSE Top \in S
           IN  Rotate(src, S, cf, (Top \in S) # (Top - 1 \in S))
    BY <1>2, Which DEF Ror
  <2>2. Done(src) /\ ax' = ax - dst0 + Value(Turned(Operand, -src, Size(w0)))
    BY <2>1 DEF Rotate, Put
  <2>3. Result(last') = Turned(Operand, -src, Size(w0)) /\ ~Carried(last')
    BY <1>2, <2>2, Recorded DEF Result, Circle, By, Count, Places, Carried, Operand
  <2>4. Turned(Operand, -src, Size(w0)) \ {Size(w0)} = Turned(Operand, -src, Size(w0))
    BY Frame, SizeType, SMT DEF Turned
  <2> QED BY <2>2, <2>3, <2>4, Recorded DEF Rotated
<1>3. CASE last'.op = "RCL"
  <2> DEFINE T(src) == Turned(Ring, src % 32, Size(w0) + 1)
  <2>1. PICK src \in Source("RCL") :
           Rotate(src, T(src) \ {Size(w0)}, Size(w0) \in T(src),
                  (Top \in T(src)) # (Size(w0) \in T(src)))
    BY <1>3, Which DEF Rcl
  <2>2. /\ Done(src) /\ ax' = ax - dst0 + Value(T(src) \ {Size(w0)})
        /\ flags'.CF = (Size(w0) \in T(src))
    BY <2>1 DEF Rotate, Put, With
  <2>3. Result(last') = T(src)
    BY <1>3, <2>2, Recorded DEF Result, Circle, By, Count, Places, Carried, Operand, Ring
  <2> HIDE DEF T
  <2> QED BY <2>2, <2>3, Recorded DEF Rotated
<1>4. CASE last'.op = "RCR"
  <2> DEFINE T(src) == Turned(Ring, -(src % 32), Size(w0) + 1)
  <2>1. PICK src \in Source("RCR") :
           Rotate(src, T(src) \ {Size(w0)}, Size(w0) \in T(src),
                  (Top \in T(src)) # (Top - 1 \in T(src)))
    BY <1>4, Which DEF Rcr
  <2>2. /\ Done(src) /\ ax' = ax - dst0 + Value(T(src) \ {Size(w0)})
        /\ flags'.CF = (Size(w0) \in T(src))
    BY <2>1 DEF Rotate, Put, With
  <2>3. Result(last') = T(src)
    BY <1>4, <2>2, Recorded DEF Result, Circle, By, Count, Places, Carried, Operand, Ring
  <2> HIDE DEF T
  <2> QED BY <2>2, <2>3, Recorded DEF Rotated
<1> QED BY <1>1, <1>2, <1>3, <1>4 DEF Rotated, Rotations

LEMMA LastTypes ==
  ASSUME TypeOK
  PROVE  /\ last.w \in Width /\ last.src \in Word /\ last.ax \in Word
         /\ last.dx \in Word /\ last.cf \in BOOLEAN
         /\ last.w \in Int /\ last.src \in Int /\ last.ax \in Int /\ last.dx \in Int
         /\ Dst(last) \in 0 .. last.w - 1 /\ Dst(last) \in Word /\ Dst(last) \in Int
<1>1. /\ last.w \in Width /\ last.src \in Word /\ last.ax \in Word
      /\ last.dx \in Word /\ last.cf \in BOOLEAN
  BY DEF TypeOK, Past
<1>2. /\ last.src \in Int /\ last.ax \in Int /\ last.dx \in Int
  BY <1>1, WordFacts, Zenon
<1>3. last.w \in Int /\ last.w > 0
  BY <1>1, WidthFacts
<1>4. Dst(last) \in 0 .. last.w - 1
  BY <1>1, <1>2, ModType, Zenon DEF Dst
<1>5. Dst(last) \in Word
  BY <1>1, <1>4, WidthFacts, Zenon
<1>6. Dst(last) \in Int
  BY <1>5, WordFacts, Zenon
<1> QED BY <1>1, <1>2, <1>3, <1>4, <1>5, <1>6

\* The circle of the second rotation is the result of the first, and it is
\* turned the other way.
LEMMA TurnsBack ==
  ASSUME TypeOK, Rotated, last'.op \in Rotations, last.op \in Rotations,
         last'.w = last.w, last'.src = last.src, last'.ax = ax, last'.cf = flags.CF,
         Carried(last') <=> Carried(last),
         last'.op \in {"ROL", "RCL"} <=> ~(last.op \in {"ROL", "RCL"})
  PROVE  /\ Dst(last') = Value(Result(last) \ {Size(last.w)})
         /\ Result(last') = Circle(last)
<1> DEFINE n == Size(last.w)
           C == Circle(last)
           R == Result(last)
<1>1. /\ last.w \in Width /\ last.src \in Word /\ last.ax \in Word
      /\ last.cf \in BOOLEAN /\ flags.CF \in BOOLEAN
  BY Registers, LastTypes
<1>2. Dst(last) \in 0 .. last.w - 1
  BY LastTypes
<1>3. Bits(Dst(last)) \subseteq 0 .. n - 1 /\ n \in {8, 16}
  BY <1>1, <1>2, BitsFit
<1>4. Places(last) \in {8, 9, 16, 17} /\ C \subseteq 0 .. Places(last) - 1
  <2> HIDE DEF n
  <2>1. Places(last) = IF Carried(last) THEN n + 1 ELSE n
    BY DEF Places, n
  <2>2. C = Bits(Dst(last)) \union IF Carried(last) /\ last.cf THEN {n} ELSE {}
    BY DEF Circle, n
  <2> HIDE DEF C
  <2> QED BY <1>3, <2>1, <2>2, SMT
<1>5. \A i \in R \ {n} : i \in 0 .. n - 1
  <2>1. \A i \in R : i \in 0 .. Places(last) - 1
    BY DEF Result, Turned
  <2>2. Places(last) = n \/ Places(last) = n + 1
    BY DEF Places
  <2> HIDE DEF n, R
  <2> QED BY <1>3, <2>1, <2>2, SMT
<1>6. Value(R \ {n}) \in 0 .. last.w - 1
  <2> HIDE DEF R
  <2> QED BY <1>1, <1>5, ValueFits
<1>7. Dst(last') = Value(R \ {n})
  <2>1. ax = last.ax - Dst(last) + Value(R \ {n})
    BY DEF Rotated
  <2> HIDE DEF R, n
  <2>2. ax = last.ax - (last.ax % last.w) + Value(R \ {n})
    BY <2>1 DEF Dst
  <2>3. ax % last.w = Value(R \ {n})
    BY <1>1, <1>6, <2>2, PutReads
  <2> QED BY <2>3 DEF Dst
<1>8. Circle(last') = R
  <2>1. Bits(Dst(last')) = R \ {n}
    <3>1. R \ {n} \subseteq 0 .. 15
      <4> HIDE DEF R, n
      <4> QED BY <1>3, <1>5, SMT
    <3> HIDE DEF R, n
    <3> QED BY <1>7, <3>1, BitsOfValue
  <2>2. Carried(last) => (flags.CF <=> n \in R)
    BY DEF Rotated
  <2>3. ~Carried(last) => n \notin R
    <3>1. ~Carried(last) => R \subseteq 0 .. n - 1
      BY DEF Result, Turned, Places
    <3> HIDE DEF R, n
    <3> QED BY <1>3, <3>1, SMT
  <2>4. Circle(last') = Bits(Dst(last')) \union IF Carried(last) /\ flags.CF THEN {n} ELSE {}
    BY DEF Circle
  <2> HIDE DEF R, n
  <2> QED BY <2>1, <2>2, <2>3, <2>4
<1>9. Places(last') = Places(last) /\ By(last') = -By(last) /\ By(last) \in Int
  <2>1. Count(last') = Count(last) /\ Count(last) \in Int
    <3>1. last.src \in Int
      BY LastTypes
    <3>2. Count(last) \in Int
      BY <3>1, SMT DEF Count
    <3> QED BY <3>2 DEF Count
  <2> HIDE DEF R, n
  <2>2. Places(last') = Places(last)
    BY DEF Places
  <2>3. \/ By(last) = Count(last) /\ By(last') = -Count(last)
        \/ By(last) = -Count(last) /\ By(last') = Count(last)
    BY <2>1 DEF By
  <2> QED BY <2>1, <2>2, <2>3, SMT
<1>10. Result(last') = C
  <2>1. Result(last') = Turned(R, -By(last), Places(last))
    BY <1>8, <1>9 DEF Result
  <2>2. R = Turned(C, By(last), Places(last))
    BY DEF Result
  <2> HIDE DEF R, C
  <2> QED BY <1>4, <1>9, <2>1, <2>2, TurnedBack
<1> QED BY <1>7, <1>10

LEMMA UndoneStep ==
  ASSUME TypeOK, Rotated, Next
  PROVE  RotationsUndo'
<1>1. Rotated'
  BY RotatedStep
<1>2. SUFFICES ASSUME prev'.w = last'.w, prev'.src = last'.src,
                      {prev'.op, last'.op} \in {{"ROL", "ROR"}, {"RCL", "RCR"}}
               PROVE  /\ ax' = prev'.ax
                      /\ {prev'.op, last'.op} = {"RCL", "RCR"} => flags'.CF = prev'.cf
  BY DEF RotationsUndo
<1>3. prev' = last
  BY Which
<1>4. /\ last'.op \in Rotations /\ last.op \in Rotations
      /\ Carried(last') <=> Carried(last)
      /\ last'.op \in {"ROL", "RCL"} <=> ~(last.op \in {"ROL", "RCL"})
      /\ {prev'.op, last'.op} = {"RCL", "RCR"} => Carried(last) /\ Carried(last')
  <2>1. \/ {last.op, last'.op} = {"ROL", "ROR"}
        \/ {last.op, last'.op} = {"RCL", "RCR"}
    BY <1>2, <1>3
  <2>2. \/ last.op = "ROL" /\ last'.op = "ROR"
        \/ last.op = "ROR" /\ last'.op = "ROL"
        \/ last.op = "RCL" /\ last'.op = "RCR"
        \/ last.op = "RCR" /\ last'.op = "RCL"
    BY <2>1, SMT
  <2> QED BY <1>3, <2>1, <2>2 DEF Rotations, Carried
<1>5. last'.ax = ax /\ last'.cf = flags.CF
  <2>1. \E src : Done(src)
    BY <1>4, Which DEF Rotations, Rol, Ror, Rcl, Rcr, Rotate
  <2> QED BY <2>1, Recorded
<1>6. /\ Dst(last') = Value(Result(last) \ {Size(last.w)})
      /\ Result(last') = Circle(last)
  BY <1>2, <1>3, <1>4, <1>5, TurnsBack
<1>7. /\ last.w \in Width /\ last.ax \in Word /\ last.ax \in Int /\ Dst(last) \in 0 .. last.w - 1
      /\ Dst(last) \in Word /\ Dst(last) \in Int /\ last.cf \in BOOLEAN
  BY LastTypes
<1>8. Bits(Dst(last)) \subseteq 0 .. Size(last.w) - 1 /\ Size(last.w) \in {8, 16}
  BY <1>7, BitsFit
<1>9. Size(last.w) \notin Bits(Dst(last))
  BY <1>8, SMT
<1>10. Circle(last) \ {Size(last.w)} = Bits(Dst(last))
  BY <1>9 DEF Circle
<1>11. Value(Circle(last) \ {Size(last.w)}) = Dst(last)
  BY <1>7, <1>10, ValueOfBits
<1>12. ax' = last.ax
  <2>1. ax' = ax - Dst(last') + Dst(last)
    BY <1>1, <1>2, <1>3, <1>4, <1>5, <1>6, <1>11 DEF Rotated
  <2>2. ax = last.ax - Dst(last) + Dst(last')
    BY <1>4, <1>6 DEF Rotated
  <2>3. Dst(last') \in Int
    BY <1>6, ValueType, WordFacts
  <2> QED BY <1>7, <2>1, <2>2, <2>3, SMT
<1>13. Carried(last) => flags'.CF = last.cf
  <2> SUFFICES ASSUME Carried(last) PROVE flags'.CF = last.cf
    OBVIOUS
  <2>1. flags'.CF <=> Size(last.w) \in Circle(last)
    BY <1>1, <1>2, <1>3, <1>4, <1>6 DEF Rotated
  <2>2. Size(last.w) \in Circle(last) <=> last.cf
    BY <1>9 DEF Circle
  <2>3. flags'.CF \in BOOLEAN
    <3>1. TypeOK'
      BY TypeInductive
    <3> QED BY <3>1, SMT DEF TypeOK, FlagSet
  <2> QED BY <1>7, <2>1, <2>2, <2>3
<1> QED BY <1>3, <1>4, <1>12, <1>13

\* Rotations by the same count in opposite directions give back the operand,
\* and the carry if they went through it, for every count and both sizes.
THEOREM AluRotations == Spec => []RotationsUndo
<1>1. Init => TypeOK /\ Rotated /\ RotationsUndo
  <2>1. Init => Rotated
    BY DEF Init, Fresh, Rotated, Rotations
  <2>2. Init => RotationsUndo
    <3>1. Init => {prev.op, last.op} = {"none"}
      BY DEF Init, Fresh
    <3>2. {"none"} \notin {{"ROL", "ROR"}, {"RCL", "RCR"}}
      BY SMT
    <3> QED BY <3>1, <3>2 DEF RotationsUndo
  <2> QED BY <2>1, <2>2, TypeInit
<1>2. TypeOK /\ Rotated /\ RotationsUndo /\ [Next]_vars
         => TypeOK' /\ Rotated' /\ RotationsUndo'
  <2> SUFFICES ASSUME TypeOK, Rotated, RotationsUndo, [Next]_vars
               PROVE  TypeOK' /\ Rotated' /\ RotationsUndo'
    OBVIOUS
  <2>1. CASE Next
    BY <2>1, TypeInductive, RotatedStep, UndoneStep
  <2>2. CASE UNCHANGED vars
    <3>1. Rotated' /\ RotationsUndo'
      BY <2>2 DEF vars, Rotated, RotationsUndo
    <3> QED BY <3>1, TypeInductive
  <2> QED BY <2>1, <2>2
<1> QED BY <1>1, <1>2, PTL DEF Spec

-------------------------------------------------------------------------------
(* Decimal arithmetic *)

LEMMA Wraps ==
  ASSUME NEW k \in 0 .. 255, NEW n \in Int, n \in {k - 256, k, k + 256}
  PROVE  n % 256 = k
  BY SMT

\* What DAA and DAS make of the sum and the difference x of a and b: al, by way
\* of low, where lo and hi say which digits are off.
Repaired(a, b, x, low, al, lo, hi, by) ==
    /\ a \in 0 .. 153 /\ b \in 0 .. 153 /\ a % 16 <= 9 /\ b % 16 <= 9
    /\ x \in Int /\ low \in Int /\ al \in Int /\ lo \in BOOLEAN /\ hi \in BOOLEAN
    /\ low = IF lo THEN (x + 6 * by) % 256 ELSE x
    /\ al = IF hi THEN (low + 96 * by) % 256 ELSE low

SumRepaired(a, b, x, low, al, lo, hi) ==
    /\ Repaired(a, b, x, low, al, lo, hi, 1)
    /\ x = (a + b) % 256
    /\ lo <=> x % 16 > 9 \/ (a % 16) + (b % 16) > 15
    /\ hi <=> x > 153 \/ a + b >= 256

DifferenceRepaired(a, b, x, low, al, lo, hi) ==
    /\ Repaired(a, b, x, low, al, lo, hi, -1)
    /\ x = (a - b) % 256
    /\ lo <=> x % 16 > 9 \/ b % 16 > a % 16
    /\ hi <=> x > 153 \/ b > a

\* Packed decimal numbers and digits, added and subtracted and repaired.
LEMMA AddedPacked ==
  ASSUME NEW a, NEW b, NEW x, NEW low, NEW al, NEW lo, NEW hi,
         SumRepaired(a, b, x, low, al, lo, hi)
  PROVE  /\ IsPacked(al)
         /\ Unpacked(al) + 100 * (IF hi THEN 1 ELSE 0) = Unpacked(a) + Unpacked(b)
<1>0. /\ a \in 0 .. 153 /\ b \in 0 .. 153 /\ a % 16 <= 9 /\ b % 16 <= 9
      /\ x \in Int /\ low \in Int /\ al \in Int /\ lo \in BOOLEAN /\ hi \in BOOLEAN
      /\ x = (a + b) % 256
      /\ lo <=> x % 16 > 9 \/ (a % 16) + (b % 16) > 15
      /\ hi <=> x > 153 \/ a + b >= 256
      /\ low = IF lo THEN (x + 6) % 256 ELSE x
      /\ al = IF hi THEN (low + 96) % 256 ELSE low
  <2>1. x + 6 * 1 = x + 6 /\ low + 96 * 1 = low + 96
    BY SMT DEF SumRepaired, Repaired
  <2> QED BY <2>1 DEF SumRepaired, Repaired
<1>1. PICK p \in 0 .. 9, q \in 0 .. 9 :
         a = 16 * p + q /\ a \div 16 = p /\ a % 16 = q
  BY <1>0, SMT
<1>2. PICK r \in 0 .. 9, s \in 0 .. 9 :
         b = 16 * r + s /\ b \div 16 = r /\ b % 16 = s
  BY <1>0, SMT
<1>3. x = IF 16 * (p + r) + q + s < 256 THEN 16 * (p + r) + q + s
          ELSE 16 * (p + r) + q + s - 256
  BY <1>0, <1>1, <1>2, SMT
<1>4. lo <=> q + s > 9
  BY <1>0, <1>1, <1>2, <1>3, SMT
<1>5. low = IF q + s > 9 THEN IF p + r + 1 < 16 THEN 16 * (p + r + 1) + q + s - 10
                              ELSE 16 * (p + r - 15) + q + s - 10
            ELSE IF p + r < 16 THEN 16 * (p + r) + q + s ELSE 16 * (p + r - 16) + q + s
  BY <1>0, <1>1, <1>2, <1>3, <1>4, SMT
<1> DEFINE d == IF q + s > 9 THEN q + s - 10 ELSE q + s
           e == IF q + s > 9 THEN p + r + 1 ELSE p + r
<1>6. /\ d \in 0 .. 9 /\ e \in 0 .. 19 /\ 10 * e + d = 10 * (p + r) + q + s
      /\ low = IF e < 16 THEN 16 * e + d ELSE 16 * (e - 16) + d
      /\ hi <=> e > 9
  BY <1>0, <1>1, <1>2, <1>3, <1>4, <1>5, SMT
<1> HIDE DEF d, e
<1>7. al = IF e > 9 THEN 16 * (e - 10) + d ELSE 16 * e + d
  <2>1. CASE e > 9
    <3> DEFINE k == 16 * (e - 10) + d
    <3>1. al = (low + 96) % 256
      BY <1>0, <1>6, <2>1, SMT
    <3>2. low + 96 = k \/ low + 96 = k + 256
      BY <1>0, <1>6, SMT
    <3>3. k \in 0 .. 255
      BY <1>0, <1>6, <2>1, SMT
    <3> DEFINE z == low + 96
    <3>4. z \in Int /\ al = z % 256 /\ z \in {k - 256, k, k + 256}
      BY <1>0, <3>1, <3>2
    <3> HIDE DEF k, z
    <3>5. al = k
      BY <1>0, <3>3, <3>4, Wraps, ZenonT(30)
    <3> QED BY <1>0, <2>1, <3>5 DEF k
  <2>2. CASE ~(e > 9)
    <3>1. al = low
      BY <1>0, <1>6, <2>2, SMT
    <3> QED BY <1>0, <1>6, <2>2, <3>1, SMT
  <2> QED BY <1>0, <2>1, <2>2
<1>8. al % 16 = d /\ al \div 16 = IF e > 9 THEN e - 10 ELSE e
  BY <1>0, <1>6, <1>7, SMT
<1> QED BY <1>0, <1>1, <1>2, <1>6, <1>8, SMT DEF IsPacked, Unpacked

LEMMA SubtractedPacked ==
  ASSUME NEW a, NEW b, NEW x, NEW low, NEW al, NEW lo, NEW hi,
         DifferenceRepaired(a, b, x, low, al, lo, hi)
  PROVE  /\ IsPacked(al)
         /\ Unpacked(al) - 100 * (IF hi \/ low > x THEN 1 ELSE 0) = Unpacked(a) - Unpacked(b)
<1>0. /\ a \in 0 .. 153 /\ b \in 0 .. 153 /\ a % 16 <= 9 /\ b % 16 <= 9
      /\ x \in Int /\ low \in Int /\ al \in Int /\ lo \in BOOLEAN /\ hi \in BOOLEAN
      /\ x = (a - b) % 256
      /\ lo <=> x % 16 > 9 \/ b % 16 > a % 16
      /\ hi <=> x > 153 \/ b > a
      /\ low = IF lo THEN (x - 6) % 256 ELSE x
      /\ al = IF hi THEN (low - 96) % 256 ELSE low
  <2>1. x + 6 * (-1) = x - 6 /\ low + 96 * (-1) = low - 96
    BY SMT DEF DifferenceRepaired, Repaired
  <2> QED BY <2>1 DEF DifferenceRepaired, Repaired
<1>1. PICK p \in 0 .. 9, q \in 0 .. 9 :
         a = 16 * p + q /\ a \div 16 = p /\ a % 16 = q
  BY <1>0, SMT
<1>2. PICK r \in 0 .. 9, s \in 0 .. 9 :
         b = 16 * r + s /\ b \div 16 = r /\ b % 16 = s
  BY <1>0, SMT
<1>3. x = IF a >= b THEN 16 * (p - r) + (q - s) ELSE 256 + (16 * (p - r) + (q - s))
  BY <1>0, <1>1, <1>2, SMT
<1>4. lo <=> s > q
  BY <1>0, <1>1, <1>2, <1>3, SMT
<1> DEFINE d == IF s > q THEN 10 + (q - s) ELSE q - s
           e == IF s > q THEN (p - r) - 1 ELSE p - r
<1>5. /\ d \in 0 .. 9 /\ e \in (-10) .. 9 /\ 10 * e + d = 10 * (p - r) + (q - s)
      /\ low = IF e >= 0 THEN 16 * e + d ELSE 256 + (16 * e + d)
      /\ ~(low > x)
      /\ hi <=> e < 0
  BY <1>0, <1>1, <1>2, <1>3, <1>4, SMT
<1> HIDE DEF d, e
<1>6. al = IF e < 0 THEN 16 * (e + 10) + d ELSE 16 * e + d
  <2>1. CASE e < 0
    <3> DEFINE k == 16 * (e + 10) + d
    <3>1. al = (low - 96) % 256
      BY <1>0, <1>5, <2>1, SMT
    <3>2. low - 96 = k
      BY <1>0, <1>5, <2>1, SMT
    <3>3. k \in 0 .. 255
      BY <1>0, <1>5, <2>1, SMT
    <3> DEFINE z == low - 96
    <3>4. z \in Int /\ al = z % 256 /\ z \in {k - 256, k, k + 256}
      BY <1>0, <3>1, <3>2
    <3> HIDE DEF k, z
    <3>5. al = k
      BY <1>0, <3>3, <3>4, Wraps, ZenonT(30)
    <3> QED BY <1>0, <2>1, <3>5 DEF k
  <2>2. CASE ~(e < 0)
    <3>1. al = low
      BY <1>0, <1>5, <2>2, SMT
    <3> QED BY <1>0, <1>5, <2>2, <3>1, SMT
  <2> QED BY <1>0, <2>1, <2>2
<1>7. al % 16 = d /\ al \div 16 = IF e < 0 THEN e + 10 ELSE e
  BY <1>0, <1>5, <1>6, SMT
<1> QED BY <1>0, <1>1, <1>2, <1>5, <1>7, SMT DEF IsPacked, Unpacked

\* The same of AAA and AAS, for digits.
SumOfDigits(a, b, x, al, lo) ==
    /\ a \in 0 .. 9 /\ b \in 0 .. 9 /\ x \in Int /\ al \in Int /\ lo \in BOOLEAN
    /\ x = (a + b) % 256
    /\ lo <=> x % 16 > 9 \/ (a % 16) + (b % 16) > 15
    /\ al = IF lo THEN (x + 6) % 16 ELSE x % 16

DifferenceOfDigits(a, b, x, al, lo) ==
    /\ a \in 0 .. 9 /\ b \in 0 .. 9 /\ x \in Int /\ al \in Int /\ lo \in BOOLEAN
    /\ x = (a - b) % 256
    /\ lo <=> x % 16 > 9 \/ b % 16 > a % 16
    /\ al = IF lo THEN (x - 6) % 16 ELSE x % 16

LEMMA AddedDigits ==
  ASSUME NEW a, NEW b, NEW x, NEW al, NEW lo, SumOfDigits(a, b, x, al, lo)
  PROVE  al <= 9 /\ al + 10 * (IF lo THEN 1 ELSE 0) = a + b
  BY SMT DEF SumOfDigits

LEMMA SubtractedDigits ==
  ASSUME NEW a, NEW b, NEW x, NEW al, NEW lo, DifferenceOfDigits(a, b, x, al, lo)
  PROVE  al <= 9 /\ al - 10 * (IF lo THEN 1 ELSE 0) = a - b
  BY SMT DEF DifferenceOfDigits

\* What the last instruction left to be repaired.
Summed10 == last.op = "ADD" /\ last.w = BYTE =>
    LET a == last.ax % BYTE
        b == last.src
    IN  /\ AL = (a + b) % BYTE /\ AH = last.ax \div BYTE
        /\ flags.CF <=> a + b >= BYTE
        /\ flags.AF <=> (a % 16) + (b % 16) > 15

Differed10 == last.op = "SUB" /\ last.w = BYTE =>
    LET a == last.ax % BYTE
        b == last.src
    IN  /\ AL = (a - b) % BYTE /\ AH = last.ax \div BYTE
        /\ flags.CF <=> b > a
        /\ flags.AF <=> b % 16 > a % 16

Multiplied10 == last.op = "MUL" /\ last.w = BYTE =>
    ax = ((last.ax % BYTE) * last.src) % WORD

Split10 == last.op = "AAM" /\ last.src # 0 =>
    AL = (last.ax % BYTE) % last.src /\ AH = (last.ax % BYTE) \div last.src

Unrepaired == Summed10 /\ Differed10 /\ Multiplied10 /\ Split10

\* AL and AH after AL was written, or both were.
LEMMA PutAL ==
  ASSUME TypeOK, NEW op, NEW src \in Source(op), w0 = BYTE,
         NEW v \in 0 .. BYTE - 1, Put(v)
  PROVE  AL' = v /\ AH' = AH
<1>1. ax \in Word /\ BYTE \in Width
  BY Registers, WordFacts
<1>2. ax' = ax - (ax % BYTE) + v
  BY DEF Put, dst0
<1>3. ax' % BYTE = v /\ ax' \div BYTE = ax \div BYTE
  BY <1>1, <1>2, PutReads
<1> QED BY <1>3 DEF AL, AH

LEMMA BytesRead ==
  ASSUME NEW high \in 0 .. BYTE - 1, NEW low \in 0 .. BYTE - 1, Bytes(high, low)
  PROVE  AL' = low /\ AH' = high
<1>1. /\ high \in Int /\ 0 <= high /\ high <= 255
      /\ low \in Int /\ 0 <= low /\ low <= 255
  BY InWord, Sizes, SMT
<1>2. ax' = BYTE * high + low
  BY DEF Bytes
<1>3. ax' % BYTE = low /\ ax' \div BYTE = high
  BY <1>1, <1>2, Sizes, SMT
<1> QED BY <1>3 DEF AL, AH

LEMMA UnrepairedStep ==
  ASSUME TypeOK, Next
  PROVE  Unrepaired'
<1>1. CASE last'.op = "ADD"
  <2>1. PICK src \in Source("ADD") :
           /\ Done(src) /\ Put((dst0 + src) % w0)
           /\ flags' = setFlags_Add(dst0 + src, dst0, src, w0)
    BY <1>1, Which DEF Add
  <2>2. /\ last'.w = w0 /\ last'.src = src /\ last'.ax = ax
    BY <2>1, Recorded
  <2>3. SUFFICES ASSUME w0 = BYTE PROVE Summed10'
    BY <1>1, <2>2 DEF Unrepaired, Summed10, Differed10, Multiplied10, Split10
  <2>4. dst0 = ax % BYTE /\ dst0 \in Int /\ src \in Int
    BY <2>3, Frame DEF dst0
  <2>5. (dst0 + src) % BYTE \in 0 .. BYTE - 1
    BY <2>4, ModWord
  <2>6. AL' = (dst0 + src) % BYTE /\ AH' = AH
    BY <2>1, <2>3, <2>5, PutAL
  <2>7. /\ flags'.CF = (dst0 + src >= BYTE)
        /\ flags'.AF = ((dst0 % 16) + (src % 16) > 15)
    BY <2>1, <2>3 DEF setFlags_Add, Shown
  <2> QED BY <2>2, <2>4, <2>6, <2>7 DEF Summed10, AH
<1>2. CASE last'.op = "SUB"
  <2>1. PICK src \in Source("SUB") :
           /\ Done(src) /\ Put((dst0 - src - 0) % w0)
           /\ flags' = setFlags_Sub(dst0 - src - 0, dst0, src, w0)
    BY <1>2, Which DEF Sub, Subtract
  <2>2. /\ last'.w = w0 /\ last'.src = src /\ last'.ax = ax
    BY <2>1, Recorded
  <2>3. SUFFICES ASSUME w0 = BYTE PROVE Differed10'
    BY <1>2, <2>2 DEF Unrepaired, Summed10, Differed10, Multiplied10, Split10
  <2>4. dst0 = ax % BYTE /\ dst0 \in Int /\ src \in Int
    BY <2>3, Frame DEF dst0
  <2>5. (dst0 - src) % BYTE \in 0 .. BYTE - 1 /\ dst0 - src - 0 = dst0 - src
    BY <2>4, ModWord
  <2>6. AL' = (dst0 - src) % BYTE /\ AH' = AH
    BY <2>1, <2>3, <2>5, PutAL
  <2>7. /\ flags'.CF = (src > dst0)
        /\ flags'.AF = ((src % 16) > (dst0 % 16))
    BY <2>1, <2>3 DEF setFlags_Sub, Shown
  <2> QED BY <2>2, <2>4, <2>6, <2>7 DEF Differed10, AH
<1>3. CASE last'.op = "MUL"
  <2>1. PICK src \in Source("MUL") : Done(src) /\ Multiply("MUL", dst0 * src)
    BY <1>3, Which DEF Mul
  <2>2. /\ last'.w = w0 /\ last'.src = src /\ last'.ax = ax
    BY <2>1, Recorded
  <2>3. SUFFICES ASSUME w0 = BYTE PROVE Multiplied10'
    BY <1>3, <2>2 DEF Unrepaired, Summed10, Differed10, Multiplied10, Split10
  <2>4. dst0 = ax % BYTE
    BY <2>3 DEF dst0
  <2>5. ax' = (dst0 * src) % WORD
    BY <2>1, <2>3 DEF Multiply
  <2> QED BY <2>2, <2>4, <2>5 DEF Multiplied10
<1>4. CASE last'.op = "AAM"
  <2>1. PICK src \in Source("AAM") :
           IF src = 0 THEN Goto(Len(prog) + 1, src)
           ELSE Done(src) /\ Bytes(AL \div src, AL % src)
    BY <1>4, Which DEF Aam
  <2>2. last'.src = src /\ last'.ax = ax
    BY <2>1, Recorded DEF Done, Goto
  <2>3. SUFFICES ASSUME src # 0 PROVE Split10'
    BY <1>4, <2>2 DEF Unrepaired, Summed10, Differed10, Multiplied10, Split10
  <2>4. AL \div src \in 0 .. BYTE - 1 /\ AL % src \in 0 .. BYTE - 1
    <3>1. src \in Nat
      BY Frame, SMT
    <3> QED BY <2>3, <3>1, Registers, ByteDivision
  <2>5. AL' = AL % src /\ AH' = AL \div src
    BY <2>1, <2>3, <2>4, BytesRead
  <2> QED BY <2>2, <2>5 DEF Split10, AL
<1> QED BY <1>1, <1>2, <1>3, <1>4
     DEF Unrepaired, Summed10, Differed10, Multiplied10, Split10


LEMMA WordNumbers ==
  /\ Word = 0 .. 65535 /\ 0 .. BYTE - 1 = 0 .. 255
  /\ \A v \in Word : v \in Int /\ 0 <= v /\ v <= 65535
  BY SMT DEF Word, WORD, BYTE

\* The pair of instructions just executed.
LEMMA Paired ==
  ASSUME TypeOK, Next
  PROVE  /\ prev' = last /\ last.w \in Width /\ last.src \in Word
         /\ last.ax % BYTE \in Word /\ last.ax % BYTE \in 0 .. BYTE - 1
         /\ last.ax % BYTE \in Int /\ last.src \in Int
<1>1. last.w \in Width /\ last.src \in Word /\ last.ax \in Int /\ last.src \in Int
  BY LastTypes
<1>2. last.ax % BYTE \in 0 .. BYTE - 1
  BY <1>1, ModWord
<1>3. last.ax % BYTE \in Word
  BY <1>2, WordFacts, WidthFacts, Zenon
<1>4. last.ax % BYTE \in Int
  BY <1>3, WordFacts, Zenon
<1>5. prev' = last
  BY Which
<1> QED BY <1>1, <1>2, <1>3, <1>4, <1>5, Zenon

LEMMA PackedRange ==
  ASSUME NEW a \in Word, IsPacked(a)
  PROVE  a \in 0 .. 153 /\ a % 16 <= 9
<1>1. a \in Int /\ 0 <= a /\ a <= 65535
  BY SMTT(30) DEF Word, WORD
<1>2. a % 16 <= 9 /\ a \div 16 <= 9
  BY DEF IsPacked
<1> QED BY <1>1, <1>2, SMTT(30)

LEMMA DaaRepairs ==
  ASSUME TypeOK, Unrepaired, Next, last'.op = "DAA", last.op = "ADD", last.w = BYTE,
         NEW a \in Word, a = last.ax % BYTE, NEW b \in Word, b = last.src,
         IsPacked(a), IsPacked(b)
  PROVE  IsPacked(AL') /\ Unpacked(AL') + 100 * Carry(flags') = Unpacked(a) + Unpacked(b)
<1> DEFINE low == IF LowDigitOff THEN (AL + 6) % BYTE ELSE AL
           al == IF HighDigitOff THEN (low + 96) % BYTE ELSE low
<1>1. /\ Bytes(AH, al)
      /\ flags' = Shown(al, BYTE, HighDigitOff, LowDigitOff, flags.OF)
  BY Which DEF Daa
<1>2. AL \in Int /\ low \in Int /\ al \in 0 .. BYTE - 1 /\ al \in Int
  <2>1. AL \in Int /\ AL \in 0 .. BYTE - 1
    BY Registers
  <2>2. low \in Int /\ low \in 0 .. BYTE - 1
    <3>1. (AL + 6) % BYTE \in 0 .. BYTE - 1 /\ (AL + 6) % BYTE \in Int
      BY <2>1, Sizes, SMT
    <3> QED BY <2>1, <3>1
  <2> HIDE DEF low
  <2>3. (low + 96) % BYTE \in 0 .. BYTE - 1 /\ (low + 96) % BYTE \in Int
    BY <2>2, Sizes, SMT
  <2> QED BY <2>1, <2>2, <2>3
<1>3. AL' = al
  <2> HIDE DEF al
  <2> QED BY <1>1, <1>2, Registers, BytesRead
<1>4. Carry(flags') = IF HighDigitOff THEN 1 ELSE 0
  BY <1>1 DEF Shown, Carry
<1>5. SumRepaired(a, b, AL, low, al, LowDigitOff, HighDigitOff)
  <2>1. a \in 0 .. 153 /\ b \in 0 .. 153 /\ a % 16 <= 9 /\ b % 16 <= 9
    BY PackedRange, Zenon
  <2>2. /\ AL = (a + b) % BYTE /\ (flags.CF <=> a + b >= BYTE)
        /\ flags.AF <=> (a % 16) + (b % 16) > 15
    <3>1. Summed10
      BY DEF Unrepaired
    <3> QED BY <3>1, Zenon DEF Summed10
  <2>3. /\ LowDigitOff \in BOOLEAN /\ HighDigitOff \in BOOLEAN
        /\ LowDigitOff <=> AL % 16 > 9 \/ (a % 16) + (b % 16) > 15
        /\ HighDigitOff <=> AL > 153 \/ a + b >= BYTE
    BY <2>2 DEF LowDigitOff, HighDigitOff
  <2>4. /\ AL = (a + b) % 256 /\ low = IF LowDigitOff THEN (AL + 6) % 256 ELSE AL
        /\ al = IF HighDigitOff THEN (low + 96) % 256 ELSE low
        /\ HighDigitOff <=> AL > 153 \/ a + b >= 256
    BY <2>2, <2>3, Sizes
  <2>5. AL + 6 * (1) = AL + 6 /\ low + 96 * (1) = low + 96
    BY <1>2, SMT
  <2> HIDE DEF low, al
  <2> QED BY <1>2, <2>1, <2>3, <2>4, <2>5 DEF SumRepaired, Repaired
<1> HIDE DEF low, al
<1>6. /\ IsPacked(al)
      /\ Unpacked(al) + 100 * (IF HighDigitOff THEN 1 ELSE 0) = Unpacked(a) + Unpacked(b)
  BY <1>5, AddedPacked
<1> QED BY <1>3, <1>4, <1>6

LEMMA DasRepairs ==
  ASSUME TypeOK, Unrepaired, Next, last'.op = "DAS", last.op = "SUB", last.w = BYTE,
         NEW a \in Word, a = last.ax % BYTE, NEW b \in Word, b = last.src,
         IsPacked(a), IsPacked(b)
  PROVE  IsPacked(AL') /\ Unpacked(AL') - 100 * Carry(flags') = Unpacked(a) - Unpacked(b)
<1> DEFINE low == IF LowDigitOff THEN (AL - 6) % BYTE ELSE AL
           al == IF HighDigitOff THEN (low - 96) % BYTE ELSE low
<1>1. /\ Bytes(AH, al)
      /\ flags' = Shown(al, BYTE, HighDigitOff \/ low > AL, LowDigitOff, flags.OF)
  BY Which DEF Das
<1>2. AL \in Int /\ low \in Int /\ al \in 0 .. BYTE - 1 /\ al \in Int
  <2>1. AL \in Int /\ AL \in 0 .. BYTE - 1
    BY Registers
  <2>2. low \in Int /\ low \in 0 .. BYTE - 1
    <3>1. (AL - 6) % BYTE \in 0 .. BYTE - 1 /\ (AL - 6) % BYTE \in Int
      BY <2>1, Sizes, SMT
    <3> QED BY <2>1, <3>1
  <2> HIDE DEF low
  <2>3. (low - 96) % BYTE \in 0 .. BYTE - 1 /\ (low - 96) % BYTE \in Int
    BY <2>2, Sizes, SMT
  <2> QED BY <2>1, <2>2, <2>3
<1>3. AL' = al
  <2> HIDE DEF al
  <2> QED BY <1>1, <1>2, Registers, BytesRead
<1>4. Carry(flags') = IF HighDigitOff \/ low > AL THEN 1 ELSE 0
  BY <1>1 DEF Shown, Carry
<1>5. DifferenceRepaired(a, b, AL, low, al, LowDigitOff, HighDigitOff)
  <2>1. a \in 0 .. 153 /\ b \in 0 .. 153 /\ a % 16 <= 9 /\ b % 16 <= 9
    BY PackedRange, Zenon
  <2>2. /\ AL = (a - b) % BYTE /\ (flags.CF <=> b > a)
        /\ flags.AF <=> b % 16 > a % 16
    <3>1. Differed10
      BY DEF Unrepaired
    <3> QED BY <3>1, Zenon DEF Differed10
  <2>3. /\ LowDigitOff \in BOOLEAN /\ HighDigitOff \in BOOLEAN
        /\ LowDigitOff <=> AL % 16 > 9 \/ b % 16 > a % 16
        /\ HighDigitOff <=> AL > 153 \/ b > a
    BY <2>2 DEF LowDigitOff, HighDigitOff
  <2>4. /\ AL = (a - b) % 256 /\ low = IF LowDigitOff THEN (AL - 6) % 256 ELSE AL
        /\ al = IF HighDigitOff THEN (low - 96) % 256 ELSE low
        /\ HighDigitOff <=> AL > 153 \/ b > a
    BY <2>2, <2>3, Sizes
  <2>5. AL + 6 * (-1) = AL - 6 /\ low + 96 * (-1) = low - 96
    BY <1>2, SMT
  <2> HIDE DEF low, al
  <2> QED BY <1>2, <2>1, <2>3, <2>4, <2>5 DEF DifferenceRepaired, Repaired
<1> HIDE DEF low, al
<1>6. /\ IsPacked(al)
      /\ Unpacked(al) - 100 * (IF HighDigitOff \/ low > AL THEN 1 ELSE 0) = Unpacked(a) - Unpacked(b)
  BY <1>5, SubtractedPacked
<1> QED BY <1>3, <1>4, <1>6


\* A byte that is a digit.
LEMMA DigitRange ==
  ASSUME NEW a \in Word, a <= 9
  PROVE  a \in 0 .. 9
<1>1. a \in Int /\ 0 <= a
  BY SMT DEF Word, WORD
<1> QED BY <1>1, SMTT(30)

\* What AAA (by 1) and AAS (by -1) leave behind.
LEMMA AsciiLeaves ==
  ASSUME TypeOK, NEW op, NEW by \in {1, -1}, Ascii(op, by)
  PROVE  /\ AL' = IF LowDigitOff THEN (AL + 6 * by) % 16 ELSE AL % 16
         /\ AL' \in Int
         /\ AH' = (AH + by * Carry(flags')) % BYTE
         /\ Carry(flags') = IF LowDigitOff THEN 1 ELSE 0
<1> DEFINE al == IF LowDigitOff THEN (AL + 6 * by) % 16 ELSE AL % 16
           ah == IF LowDigitOff THEN (AH + by) % BYTE ELSE AH
<1>1. Bytes(ah, al) /\ flags' = With(flags, LowDigitOff, LowDigitOff, flags.OF)
  BY Zenon DEF Ascii
<1>2. AL \in Int /\ AH \in Int /\ AH \in 0 .. BYTE - 1
  BY Registers
<1>3. al \in 0 .. BYTE - 1 /\ al \in Int
  <2>1. \A n \in Int : n % 16 \in 0 .. BYTE - 1 /\ n % 16 \in Int
    BY Sizes, SMT
  <2>2. AL + 6 * by \in Int
    BY <1>2
  <2> QED BY <1>2, <2>1, <2>2, Zenon
<1>4. ah \in 0 .. BYTE - 1
  <2>1. AH + by \in Int
    BY <1>2
  <2>2. (AH + by) % BYTE \in 0 .. BYTE - 1
    BY <2>1, ModWord
  <2> QED BY <1>2, <2>2, Zenon
<1>5. AL' = al /\ AH' = ah
  <2> HIDE DEF al, ah
  <2> QED BY <1>1, <1>3, <1>4, BytesRead
<1>6. Carry(flags') = IF LowDigitOff THEN 1 ELSE 0
  BY <1>1 DEF With, Carry
<1>7. ah = (AH + by * (IF LowDigitOff THEN 1 ELSE 0)) % BYTE
  <2>1. AH % BYTE = AH /\ by * 1 = by /\ AH + by * 0 = AH
    BY <1>2, Sizes, SMT
  <2> QED BY <2>1, Zenon
<1> QED BY <1>3, <1>5, <1>6, <1>7, Zenon

LEMMA AaaRepairs ==
  ASSUME TypeOK, Unrepaired, Next, last'.op = "AAA", last.op = "ADD", last.w = BYTE,
         NEW a \in Word, a = last.ax % BYTE, NEW b \in Word, b = last.src,
         a <= 9, b <= 9
  PROVE  /\ AL' <= 9 /\ AH' = (last.ax \div BYTE + Carry(flags')) % BYTE
         /\ AL' + 10 * Carry(flags') = a + b
<1>1. /\ AL = (a + b) % BYTE /\ AH = last.ax \div BYTE
      /\ flags.AF <=> (a % 16) + (b % 16) > 15
  <2>1. Summed10
    BY DEF Unrepaired
  <2> QED BY <2>1, Zenon DEF Summed10
<1>2. /\ AL' = IF LowDigitOff THEN (AL + 6 * 1) % 16 ELSE AL % 16
      /\ AL' \in Int
      /\ AH' = (AH + 1 * Carry(flags')) % BYTE
      /\ Carry(flags') = IF LowDigitOff THEN 1 ELSE 0
  <2>1. Ascii("AAA", 1)
    BY Which DEF Aaa
  <2>2. 1 \in {1, -1}
    OBVIOUS
  <2> QED BY <2>1, <2>2, AsciiLeaves
<1>3. AL \in Int /\ AL + 6 * 1 = AL + 6
  BY Registers
<1>4. 1 * Carry(flags') = Carry(flags')
  BY <1>2, SMT
<1>5. /\ LowDigitOff \in BOOLEAN
      /\ LowDigitOff <=> AL % 16 > 9 \/ (a % 16) + (b % 16) > 15
  BY <1>1, Registers DEF LowDigitOff
<1>6. a \in 0 .. 9 /\ b \in 0 .. 9
  BY DigitRange
<1>7. AL = (a + b) % 256 /\ AL' = IF LowDigitOff THEN (AL + 6) % 16 ELSE AL % 16
  BY <1>1, <1>2, <1>3, Sizes
<1>8. AL' <= 9 /\ AL' + 10 * (IF LowDigitOff THEN 1 ELSE 0) = a + b
  <2> DEFINE v == AL'
             x == AL
             lo == LowDigitOff
  <2>1. /\ x \in Int /\ x = (a + b) % 256
        /\ v \in Int /\ v = IF lo THEN (x + 6) % 16 ELSE x % 16
        /\ lo \in BOOLEAN
    BY <1>2, <1>3, <1>5, <1>7
  <2>2. lo <=> x % 16 > 9 \/ (a % 16) + (b % 16) > 15
    BY <1>5
  <2> HIDE DEF v, x, lo
  <2>3. v <= 9 /\ v + 10 * (IF lo THEN 1 ELSE 0) = a + b
    <3>1. SumOfDigits(a, b, x, v, lo)
      BY <1>6, <2>1, <2>2 DEF SumOfDigits
    <3> QED BY <3>1, AddedDigits
  <2> QED BY <2>3 DEF v, lo
<1> QED BY <1>1, <1>2, <1>4, <1>8

LEMMA AasRepairs ==
  ASSUME TypeOK, Unrepaired, Next, last'.op = "AAS", last.op = "SUB", last.w = BYTE,
         NEW a \in Word, a = last.ax % BYTE, NEW b \in Word, b = last.src,
         a <= 9, b <= 9
  PROVE  /\ AL' <= 9 /\ AH' = (last.ax \div BYTE - Carry(flags')) % BYTE
         /\ AL' - 10 * Carry(flags') = a - b
<1>1. /\ AL = (a - b) % BYTE /\ AH = last.ax \div BYTE
      /\ flags.AF <=> b % 16 > a % 16
  <2>1. Differed10
    BY DEF Unrepaired
  <2> QED BY <2>1, Zenon DEF Differed10
<1>2. /\ AL' = IF LowDigitOff THEN (AL + 6 * (-1)) % 16 ELSE AL % 16
      /\ AL' \in Int
      /\ AH' = (AH + (-1) * Carry(flags')) % BYTE
      /\ Carry(flags') = IF LowDigitOff THEN 1 ELSE 0
  <2>1. Ascii("AAS", -1)
    BY Which DEF Aas
  <2>2. -1 \in {1, -1}
    OBVIOUS
  <2> QED BY <2>1, <2>2, AsciiLeaves
<1>3. AL \in Int /\ AH \in Int /\ AL + 6 * (-1) = AL - 6
  BY Registers
<1>4. AH + (-1) * Carry(flags') = AH - Carry(flags')
  BY <1>2, <1>3, SMT
<1>5. /\ LowDigitOff \in BOOLEAN
      /\ LowDigitOff <=> AL % 16 > 9 \/ b % 16 > a % 16
  BY <1>1, Registers DEF LowDigitOff
<1>6. a \in 0 .. 9 /\ b \in 0 .. 9
  BY DigitRange
<1>7. AL = (a - b) % 256 /\ AL' = IF LowDigitOff THEN (AL - 6) % 16 ELSE AL % 16
  BY <1>1, <1>2, <1>3, Sizes
<1>8. AL' <= 9 /\ AL' - 10 * (IF LowDigitOff THEN 1 ELSE 0) = a - b
  <2> DEFINE v == AL'
             x == AL
             lo == LowDigitOff
  <2>1. /\ x \in Int /\ x = (a - b) % 256
        /\ v \in Int /\ v = IF lo THEN (x - 6) % 16 ELSE x % 16
        /\ lo \in BOOLEAN
    BY <1>2, <1>3, <1>5, <1>7
  <2>2. lo <=> x % 16 > 9 \/ b % 16 > a % 16
    BY <1>5
  <2> HIDE DEF v, x, lo
  <2>3. v <= 9 /\ v - 10 * (IF lo THEN 1 ELSE 0) = a - b
    <3>1. DifferenceOfDigits(a, b, x, v, lo)
      BY <1>6, <2>1, <2>2 DEF DifferenceOfDigits
    <3> QED BY <3>1, SubtractedDigits
  <2> QED BY <2>3 DEF v, lo
<1> QED BY <1>1, <1>2, <1>4, <1>8

LEMMA AamSplits ==
  ASSUME TypeOK, Unrepaired, Next, last'.op = "AAM", last.op = "MUL", last.w = BYTE,
         last'.src = 10,
         NEW a \in Word, a = last.ax % BYTE, NEW b \in Word, b = last.src,
         a <= 9, b <= 9
  PROVE  AL' <= 9 /\ 10 * AH' + AL' = a * b
<1>1. ax = (a * b) % WORD
  BY Zenon DEF Unrepaired, Multiplied10
<1>2. a \in 0 .. 9 /\ b \in 0 .. 9
  BY DigitRange
<1>3. AL = a * b
  <2>1. a * b \in 0 .. 81
    BY <1>2, SMT
  <2> DEFINE n == a * b
  <2>2. n \in 0 .. 81 /\ ax = n % WORD
    BY <1>1, <2>1
  <2> HIDE DEF n
  <2>3. ax % BYTE = n
    BY <2>2, Sizes, SMT
  <2> QED BY <2>3 DEF n, AL
<1>4. AL' = AL % 10 /\ AH' = AL \div 10
  <2>1. Split10'
    BY UnrepairedStep DEF Unrepaired
  <2>2. last'.ax = ax
    <3>1. PICK src \in Source("AAM") :
             IF src = 0 THEN Goto(Len(prog) + 1, src) ELSE Done(src)
      BY Which DEF Aam
    <3>2. CASE src = 0
      BY <3>1, <3>2 DEF Goto
    <3>3. CASE src # 0
      BY <3>1, <3>3 DEF Done, Goto
    <3> QED BY <3>2, <3>3
  <2> QED BY <2>1, <2>2 DEF Split10, AL
<1>5. AL \in Int
  BY Registers
<1> QED BY <1>3, <1>4, <1>5, SMT

LEMMA AadJoins ==
  ASSUME TypeOK, Unrepaired, Next, last'.op = "AAD", last.op = "AAM",
         last'.src = last.src, last.src # 0
  PROVE  AL' = last.ax % BYTE /\ AH' = 0
<1> DEFINE a == last.ax % BYTE
           n == last.src
<1>1. a \in 0 .. BYTE - 1 /\ a \in Int /\ n \in Int /\ n \in Word
  BY Paired
<1>2. AL = a % n /\ AH = a \div n
  BY Zenon DEF Unrepaired, Split10
<1>3. PICK src \in Source("AAD") : Done(src) /\ Bytes(0, (AH * src + AL) % BYTE)
  BY Which DEF Aad
<1>4. src = n
  BY <1>3, Recorded
<1>5. n > 0
  <2>1. n \in Nat
    BY <1>1, SMT DEF Word
  <2> QED BY <2>1
<1> HIDE DEF a, n
<1>6. AH * n + AL = a
  BY <1>1, <1>2, <1>5, SMT
<1>7. a % BYTE = a /\ 0 \in 0 .. BYTE - 1
  BY <1>1, Sizes, SMT
<1>8. Bytes(0, a)
  BY <1>3, <1>4, <1>6, <1>7
<1>9. AL' = a /\ AH' = 0
  BY <1>1, <1>7, <1>8, BytesRead
<1> QED BY <1>9 DEF a

\* What the last instruction left, repaired or split by the next.
LEMMA RepairedStep ==
  ASSUME TypeOK, Unrepaired, Next
  PROVE  DecimalsAreExact'
<1> DEFINE a == last.ax % BYTE
           b == last.src
           digits == last.w = BYTE /\ a <= 9 /\ b <= 9
           packed == last.w = BYTE /\ IsPacked(a) /\ IsPacked(b)
<1>1. prev' = last /\ a \in Word /\ b \in Word
  BY Paired
<1>2. CASE last.op = "ADD" /\ last'.op = "DAA"
  <2>1. packed => /\ IsPacked(AL')
                  /\ Unpacked(AL') + 100 * Carry(flags') = Unpacked(a) + Unpacked(b)
    BY <1>1, <1>2, DaaRepairs
  <2> HIDE DEF a, b
  <2> QED BY <1>1, <1>2, <2>1, Zenon DEF DecimalsAreExact, a, b
<1>3. CASE last.op = "SUB" /\ last'.op = "DAS"
  <2>1. packed => /\ IsPacked(AL')
                  /\ Unpacked(AL') - 100 * Carry(flags') = Unpacked(a) - Unpacked(b)
    BY <1>1, <1>3, DasRepairs
  <2> QED BY <1>1, <1>3, <2>1, Zenon DEF DecimalsAreExact
<1>4. CASE last.op = "ADD" /\ last'.op = "AAA"
  <2>1. digits => /\ AL' <= 9 /\ AH' = (last.ax \div BYTE + Carry(flags')) % BYTE
                  /\ AL' + 10 * Carry(flags') = a + b
    BY <1>1, <1>4, AaaRepairs
  <2> QED BY <1>1, <1>4, <2>1, Zenon DEF DecimalsAreExact
<1>5. CASE last.op = "SUB" /\ last'.op = "AAS"
  <2>1. digits => /\ AL' <= 9 /\ AH' = (last.ax \div BYTE - Carry(flags')) % BYTE
                  /\ AL' - 10 * Carry(flags') = a - b
    BY <1>1, <1>5, AasRepairs
  <2> QED BY <1>1, <1>5, <2>1, Zenon DEF DecimalsAreExact
<1>6. CASE last.op = "MUL" /\ last'.op = "AAM"
  <2>1. digits /\ last'.src = 10 => AL' <= 9 /\ 10 * AH' + AL' = a * b
    BY <1>1, <1>6, AamSplits
  <2> QED BY <1>1, <1>6, <2>1, Zenon DEF DecimalsAreExact
<1>7. CASE last.op = "AAM" /\ last'.op = "AAD"
  <2>1. last'.src = last.src /\ last.src # 0 => AL' = a /\ AH' = 0
    BY <1>7, AadJoins
  <2> QED BY <1>1, <1>7, <2>1, Zenon DEF DecimalsAreExact
<1>8. CASE <<last.op, last'.op>> \notin {<<"ADD", "DAA">>, <<"SUB", "DAS">>,
             <<"ADD", "AAA">>, <<"SUB", "AAS">>, <<"MUL", "AAM">>, <<"AAM", "AAD">>}
  BY <1>1, <1>8, Zenon DEF DecimalsAreExact
<1> QED BY <1>2, <1>3, <1>4, <1>5, <1>6, <1>7, <1>8

\* The decimal adjustments make exact decimal arithmetic of the binary
\* instruction before them, for every pair of operands.
THEOREM AluDecimals == Spec => []DecimalsAreExact
<1>1. Init => TypeOK /\ Unrepaired /\ DecimalsAreExact
  <2>1. Init => last.op = "none" /\ prev.op = "none"
    BY DEF Init, Fresh
  <2>2. Init => Unrepaired
    BY <2>1 DEF Unrepaired, Summed10, Differed10, Multiplied10, Split10
  <2>3. Init => DecimalsAreExact
    BY <2>1, Zenon DEF DecimalsAreExact
  <2> QED BY <2>2, <2>3, TypeInit
<1>2. TypeOK /\ Unrepaired /\ DecimalsAreExact /\ [Next]_vars
         => TypeOK' /\ Unrepaired' /\ DecimalsAreExact'
  <2> SUFFICES ASSUME TypeOK, Unrepaired, DecimalsAreExact, [Next]_vars
               PROVE  TypeOK' /\ Unrepaired' /\ DecimalsAreExact'
    OBVIOUS
  <2>1. CASE Next
    BY <2>1, TypeInductive, UnrepairedStep, RepairedStep
  <2>2. CASE UNCHANGED vars
    <3>1. Unrepaired'
      BY <2>2 DEF vars, Unrepaired, Summed10, Differed10, Multiplied10, Split10, AL, AH
    <3>2. DecimalsAreExact'
      BY <2>2 DEF vars, DecimalsAreExact, AL, AH
    <3> QED BY <3>1, <3>2, TypeInductive
  <2> QED BY <2>1, <2>2
<1> QED BY <1>1, <1>2, PTL DEF Spec

-------------------------------------------------------------------------------
(* Divisions *)

LEMMA SignedByte ==
  ASSUME NEW v \in Int, 0 <= v, v <= 255
  PROVE  /\ Signed(v, 256) \in Int /\ -128 <= Signed(v, 256) /\ Signed(v, 256) <= 127
         /\ Signed(v, 256) % 256 = v
  BY SMT DEF Signed

LEMMA SignedWord ==
  ASSUME NEW v \in Int, 0 <= v, v <= 65535
  PROVE  /\ Signed(v, WORD) \in Int
         /\ -32768 <= Signed(v, WORD) /\ Signed(v, WORD) <= 32767
         /\ Signed(v, WORD) % WORD = v
         /\ Signed(v, WORD) = IF v >= 32768 THEN v - 65536 ELSE v
<1>1. Signed(v, 65536) = IF v >= 32768 THEN v - 65536 ELSE v
  BY SMT DEF Signed
<1>2. (v - 65536) % 65536 = v /\ v % 65536 = v
  BY SMT
<1>3. /\ Signed(v, 65536) \in Int
      /\ -32768 <= Signed(v, 65536) /\ Signed(v, 65536) <= 32767
      /\ Signed(v, 65536) % 65536 = v
  BY <1>1, <1>2, SMTT(30)
<1>4. WORD = 65536
  BY Sizes
<1> QED BY <1>1, <1>3, <1>4, SMTT(30)

LEMMA WordRange ==
  ASSUME NEW v \in 0 .. WORD - 1
  PROVE  v \in Int /\ 0 <= v /\ v <= 65535 /\ v % WORD = v
<1>1. v \in Word
  BY DEF Word
<1>2. v \in Int
  BY <1>1, WordFacts, Zenon
<1>3. 0 <= v /\ v <= 65535
  BY <1>1, <1>2, InWord
<1>4. v % 65536 = v
  BY ONLY <1>2, <1>3, SMTT(30)
<1>5. WORD = 65536
  BY Sizes
<1> QED BY <1>2, <1>3, <1>4, <1>5, SMTT(30)

LEMMA WordSigned ==
  ASSUME NEW n \in Int, -32768 <= n, n <= 32767
  PROVE  Signed(n % 65536, 65536) = n
<1>1. CASE 0 <= n
  <2>1. n % 65536 = n
    BY <1>1, SMT
  <2> QED BY <1>1, <2>1, SMT DEF Signed
<1>2. CASE n < 0
  <2>1. n % 65536 = n + 65536
    BY <1>2, SMT
  <2> QED BY <1>2, <2>1, SMT DEF Signed
<1> QED BY <1>1, <1>2

\* A factor of a product is its quotient by the other.
LEMMA FactorDivides ==
  ASSUME NEW x \in Nat, NEW y \in Nat, y # 0
  PROVE  (x * y) \div y = x
<1> DEFINE p == x * y
<1>1. p \in Nat /\ p = x * y
  BY SMT
<1> HIDE DEF p
<1>2. p \div y \in Nat /\ p % y \in Nat /\ p % y < y /\ y * (p \div y) + (p % y) = p
  BY <1>1, SMT
<1> DEFINE q == p \div y
<1> HIDE DEF q
<1>3. q \in Nat /\ y * q <= y * x /\ y * x < y * (q + 1)
  BY <1>1, <1>2, SMT DEF q
<1>4. ~(q > x)
  <2> SUFFICES ASSUME q >= x + 1 PROVE FALSE
    BY <1>3
  <2>1. y * q >= y * (x + 1)
    BY <1>3, SMT
  <2>2. y * (x + 1) = y * x + y
    BY SMT
  <2> QED BY <1>3, <2>1, <2>2, SMT
<1>5. ~(q < x)
  <2> SUFFICES ASSUME q + 1 <= x PROVE FALSE
    BY <1>3
  <2>1. y * (q + 1) <= y * x
    BY <1>3, SMT
  <2> QED BY <1>3, <2>1, SMT
<1>6. q = x
  BY <1>3, <1>4, <1>5
<1> QED BY <1>6 DEF q, p

LEMMA ExactQuotient ==
  ASSUME NEW d \in Int, NEW s \in Int, s # 0
  PROVE  Quotient(d * s, s) = d /\ Remainder(d * s, s) = 0
<1>1. Abs(d) \in Nat /\ Abs(s) \in Nat /\ Abs(s) # 0
  BY SMT DEF Abs
<1>2. (Abs(d) * Abs(s)) \div Abs(s) = Abs(d)
  BY <1>1, FactorDivides
<1>3. Abs(d * s) = Abs(d) * Abs(s)
  <2>1. CASE d >= 0 /\ s > 0
    BY <2>1, SMT DEF Abs
  <2>2. CASE d >= 0 /\ s < 0
    BY <2>2, SMT DEF Abs
  <2>3. CASE d < 0 /\ s > 0
    BY <2>3, SMT DEF Abs
  <2>4. CASE d < 0 /\ s < 0
    BY <2>4, SMT DEF Abs
  <2> QED BY <2>1, <2>2, <2>3, <2>4
<1>4. Quotient(d * s, s) = IF (d * s < 0) = (s < 0) THEN Abs(d) ELSE -Abs(d)
  BY <1>2, <1>3 DEF Quotient
<1>5. /\ s > 0 => (d * s < 0 <=> d < 0)
      /\ s < 0 => (d * s < 0 <=> d > 0)
  BY SMT
<1>6. Quotient(d * s, s) = d
  <2> HIDE DEF Quotient
  <2> DEFINE p == d * s
  <2>1. p < 0 <=> IF s > 0 THEN d < 0 ELSE d > 0
    BY <1>5
  <2>2. Quotient(p, s) = IF (p < 0) = (s < 0) THEN Abs(d) ELSE -Abs(d)
    BY <1>4
  <2>3. p \in Int
    OBVIOUS
  <2> HIDE DEF p
  <2>4. Quotient(p, s) = d
    BY <2>1, <2>2, <2>3, SMT DEF Abs
  <2> QED BY <2>4 DEF p
<1>7. d * s - s * d = 0
  BY SMT
<1> QED BY <1>6, <1>7 DEF Remainder

LEMMA ProductBound ==
  ASSUME NEW x \in Int, NEW y \in Int, NEW k \in Nat,
         -k <= x, x <= k, -k <= y, y <= k
  PROVE  x * y \in Int /\ -(k * k) <= x * y /\ x * y <= k * k
<1>1. /\ (k - x) * (k + y) >= 0 /\ (k + x) * (k - y) >= 0
      /\ (k - x) * (k - y) >= 0 /\ (k + x) * (k + y) >= 0
  <2>1. \A m, n \in Nat : m * n >= 0
    BY SMT
  <2>2. k - x \in Nat /\ k + x \in Nat /\ k - y \in Nat /\ k + y \in Nat
    OBVIOUS
  <2> QED BY <2>1, <2>2
<1>2. /\ (k - x) * (k + y) + (k + x) * (k - y) = 2 * (k * k) - 2 * (x * y)
      /\ (k - x) * (k - y) + (k + x) * (k + y) = 2 * (k * k) + 2 * (x * y)
  BY SMT
<1> QED BY <1>1, <1>2, SMT

\* The dividends IDIV and DIV see after a multiplication.
LEMMA HalvesJoined ==
  ASSUME NEW p \in Int
  PROVE  /\ 0 <= p /\ p <= 65535 => p % 65536 = p
         /\ 0 <= p /\ p <= 4294967295
              => 65536 * ((p \div 65536) % 65536) + (p % 65536) = p
         /\ -32768 <= p /\ p <= 32767 => Signed(p % 65536, 65536) = p
         /\ -1073741824 <= p /\ p <= 1073741824
              => 65536 * Signed((p \div 65536) % 65536, 65536) + (p % 65536) = p
<1>1. 0 <= p /\ p <= 65535 => p % 65536 = p
  BY SMT
<1>2. p \div 65536 \in Int /\ 65536 * (p \div 65536) + (p % 65536) = p
  BY SMT
<1>3. 0 <= p /\ p <= 4294967295 => (p \div 65536) % 65536 = p \div 65536
  BY SMT
<1>4. -1073741824 <= p /\ p <= 1073741824
         => Signed((p \div 65536) % 65536, 65536) = p \div 65536
  <2>1. -1073741824 <= p /\ p <= 1073741824
           => -32768 <= p \div 65536 /\ p \div 65536 <= 32767
    BY SMT
  <2> QED BY <1>2, <2>1, WordSigned
<1> QED BY <1>1, <1>2, <1>3, <1>4, WordSigned

\* What the upper half of an unsigned product says.
LEMMA UpperHalf ==
  ASSUME NEW p \in Int
  PROVE  /\ 0 <= p /\ p <= 65025 => ((p \div 256) % 256 = 0 <=> p < 256)
         /\ 0 <= p /\ p <= 4294836225 => ((p \div 65536) % 65536 = 0 <=> p < 65536)
<1>1. 0 <= p /\ p <= 65025 => (p \div 256) % 256 = p \div 256
  BY SMT
<1>2. 0 <= p /\ p <= 4294836225 => (p \div 65536) % 65536 = p \div 65536
  BY SMT
<1>3. p \div 256 = 0 <=> 0 <= p /\ p < 256
  BY SMT
<1>4. p \div 65536 = 0 <=> 0 <= p /\ p < 65536
  BY SMT
<1> QED BY <1>1, <1>2, <1>3, <1>4

\* The upper byte of a signed product only repeats the sign of the lower one.
LEMMA UpperByte ==
  ASSUME NEW p \in Int, -16384 <= p, p <= 16384
  PROVE  (p \div 256) % 256 = (IF p % 256 >= 128 THEN 255 ELSE 0)
            <=> -128 <= p /\ p <= 127
<1> DEFINE q == p \div 256
           low == p % 256
           h == (p \div 256) % 256
<1>1. /\ q \in Int /\ low \in Int /\ p = 256 * q + low /\ 0 <= low /\ low < 256
      /\ -64 <= q /\ q <= 64
  BY SMT
<1>2. h = IF q < 0 THEN q + 256 ELSE q
  <2> HIDE DEF q
  <2>1. q % 256 = IF q < 0 THEN q + 256 ELSE q
    BY <1>1, SMT
  <2> QED BY <2>1 DEF q
<1> HIDE DEF q, low, h
<1>3. h = (IF low >= 128 THEN 255 ELSE 0) <=> -128 <= p /\ p <= 127
  BY <1>1, <1>2, SMT
<1> QED BY <1>3 DEF h, low

\* So does the upper word.
LEMMA UpperWord ==
  ASSUME NEW p \in Int, -1073741824 <= p, p <= 1073741824
  PROVE  (p \div 65536) % 65536 = (IF p % 65536 >= 32768 THEN 65535 ELSE 0)
            <=> -32768 <= p /\ p <= 32767
<1> DEFINE q == p \div 65536
           low == p % 65536
           h == (p \div 65536) % 65536
<1>1. /\ q \in Int /\ low \in Int /\ p = 65536 * q + low /\ 0 <= low /\ low < 65536
      /\ -16384 <= q /\ q <= 16384
  BY SMT
<1>2. h = IF q < 0 THEN q + 65536 ELSE q
  <2> HIDE DEF q
  <2>1. q % 65536 = IF q < 0 THEN q + 65536 ELSE q
    BY <1>1, SMT
  <2> QED BY <2>1 DEF q
<1> HIDE DEF q, low, h
<1>3. h = (IF low >= 32768 THEN 65535 ELSE 0) <=> -32768 <= p /\ p <= 32767
  BY <1>1, <1>2, SMT
<1> QED BY <1>3 DEF h, low

InSigned(n) == n \in Int /\ -32768 <= n /\ n <= 32767

\* A quotient rounded towards zero leaves a remainder smaller than the divisor.
LEMMA QuotientRounds ==
  ASSUME NEW a \in Int, -32768 <= a, a <= 32767,
         NEW s \in Int, -32768 <= s, s <= 32767, s # 0,
         ~(a = -32768 /\ s = -1)
  PROVE  /\ InSigned(Quotient(a, s)) /\ InSigned(Remainder(a, s))
         /\ Quotient(a, s) * s + Remainder(a, s) = a
         /\ Abs(Remainder(a, s)) < Abs(s)
<1> DEFINE n == Abs(a)
           m == Abs(s)
           q == n \div m
           r == n % m
<1>1. n \in Int /\ 0 <= n /\ n <= 32768 /\ m \in Int /\ 1 <= m /\ m <= 32768
  BY SMT DEF Abs
<1>2. q \in Nat /\ r \in Nat /\ r < m /\ n = m * q + r
  <2> HIDE DEF n, m
  <2> QED BY <1>1, SMT
<1>3. q <= n /\ (m > 1 /\ n > 0 => q < n)
  <2> HIDE DEF n, m
  <2>1. CASE m = 1
    BY <1>1, <2>1, SMT
  <2>2. CASE m > 1
    <3> HIDE DEF q, r
    <3>1. m * q >= 2 * q
      BY <1>1, <1>2, <2>2, SMT
    <3> QED BY <1>1, <1>2, <2>2, <3>1, SMT
  <2> QED BY <1>1, <2>1, <2>2
<1>4. Quotient(a, s) = IF (a < 0) = (s < 0) THEN q ELSE -q
  BY DEF Quotient
<1>5. s * Quotient(a, s) = IF a < 0 THEN -(m * q) ELSE m * q
  <2> HIDE DEF q, n, r
  <2>1. /\ s * q = IF s < 0 THEN -(m * q) ELSE m * q
        /\ s * (-q) = IF s < 0 THEN m * q ELSE -(m * q)
    BY <1>2, SMT DEF Abs, m
  <2> HIDE DEF m
  <2> QED BY <1>4, <2>1, SMT
<1>6. Remainder(a, s) = IF a < 0 THEN -r ELSE r
  <2>1. Remainder(a, s) = a - s * Quotient(a, s)
    BY DEF Remainder
  <2>2. a = IF a < 0 THEN -n ELSE n
    BY SMT DEF Abs
  <2> HIDE DEF q, n, r, m
  <2>3. m * q \in Int
    BY <1>1, <1>2
  <2> QED BY <1>1, <1>2, <1>5, <2>1, <2>2, <2>3, SMT
<1>7. q <= 32768 /\ (q = 32768 => (a < 0) # (s < 0))
  <2>1. q <= 32768
    <3> HIDE DEF n, m, q
    <3> QED BY <1>1, <1>2, <1>3
  <2>2. q = 32768 => n = 32768 /\ m = 1
    <3> HIDE DEF n, m, q
    <3> QED BY <1>1, <1>2, <1>3
  <2>3. n = 32768 /\ m = 1 => a = -32768 /\ s = 1
    BY SMT DEF Abs
  <2> HIDE DEF n, m, q
  <2> QED BY <2>1, <2>2, <2>3
<1>8. InSigned(Quotient(a, s))
  <2> HIDE DEF n, m, q
  <2> QED BY <1>2, <1>4, <1>7, SMT DEF InSigned
<1>9. InSigned(Remainder(a, s)) /\ Abs(Remainder(a, s)) < m
  <2> HIDE DEF n, m, q, r
  <2> QED BY <1>1, <1>2, <1>6, SMT DEF Abs, InSigned
<1>10. Quotient(a, s) * s + Remainder(a, s) = a
  <2>1. Quotient(a, s) * s = s * Quotient(a, s) /\ s * Quotient(a, s) \in Int
    BY <1>8, SMT DEF InSigned
  <2> QED BY <2>1 DEF Remainder
<1> QED BY <1>8, <1>9, <1>10

\* What a multiplication and an extension of the sign leave to be divided.
Multiplied == last.op \in {"MUL", "IMUL"} =>
    /\ last.src \in 0 .. last.w - 1
    /\ ax = Product(last) % WORD
    /\ last.w = WORD => dx = (Product(last) \div WORD) % WORD

Extended == last.op = "CWD" =>
    ax = last.ax /\ dx = IF Sign(ax, WORD) THEN WORD - 1 ELSE 0

LEMMA UndividedStep ==
  ASSUME TypeOK, Next
  PROVE  Multiplied' /\ Extended'
<1>1. CASE last'.op = "MUL"
  <2>1. PICK src \in Source("MUL") : Done(src) /\ Multiply("MUL", dst0 * src)
    BY <1>1, Which DEF Mul
  <2>2. last'.w = w0 /\ last'.src = src /\ Dst(last') = dst0
    BY <2>1, Recorded
  <2>3. Product(last') = dst0 * src
    BY <1>1, <2>2 DEF Product
  <2>4. src \in 0 .. w0 - 1 /\ (w0 = WORD => w0 # BYTE)
    BY Frame, Sizes
  <2>5. ax' = (dst0 * src) % WORD /\ (w0 = WORD => dx' = ((dst0 * src) \div WORD) % WORD)
    BY <2>1, <2>4 DEF Multiply
  <2> QED BY <1>1, <2>2, <2>3, <2>4, <2>5 DEF Multiplied, Extended
<1>2. CASE last'.op = "IMUL"
  <2>1. PICK src \in Source("IMUL") :
           Done(src) /\ Multiply("IMUL", Signed(dst0, w0) * Signed(src, w0))
    BY <1>2, Which DEF Imul
  <2>2. last'.w = w0 /\ last'.src = src /\ Dst(last') = dst0
    BY <2>1, Recorded
  <2>3. Product(last') = Signed(dst0, w0) * Signed(src, w0)
    BY <1>2, <2>2 DEF Product
  <2>4. src \in 0 .. w0 - 1 /\ (w0 = WORD => w0 # BYTE)
    BY Frame, Sizes
  <2>5. /\ ax' = Product(last') % WORD
        /\ w0 = WORD => dx' = (Product(last') \div WORD) % WORD
    BY <2>1, <2>3, <2>4 DEF Multiply
  <2> QED BY <1>2, <2>2, <2>4, <2>5 DEF Multiplied, Extended
<1>3. CASE last'.op = "CWD"
  <2>1. PICK src \in Source("CWD") :
           Done(src) /\ dx' = (IF Sign(ax, WORD) THEN WORD - 1 ELSE 0) /\ ax' = ax
    BY <1>3, Which DEF Cwd
  <2>2. last'.ax = ax
    BY <2>1, Recorded
  <2> QED BY <1>3, <2>1, <2>2 DEF Multiplied, Extended
<1> QED BY <1>1, <1>2, <1>3 DEF Multiplied, Extended

\* A product divided by one of its factors leaves the other.
LEMMA FactorLeft ==
  ASSUME TypeOK, w0 \in Width, NEW d \in Int, NEW s \in Int, s # 0, NEW n, n = d * s,
         Divide(n, s), NEW v \in 0 .. w0 - 1, d % w0 = v
  PROVE  ax' % w0 = v /\ (IF w0 = BYTE THEN AH' ELSE dx') = 0
<1>1. Divided(d, 0)
  BY ExactQuotient DEF Divide
<1>2. 0 % BYTE = 0 /\ 0 % WORD = 0 /\ 0 \in 0 .. BYTE - 1 /\ BYTE # WORD
  BY Sizes, SMT
<1>3. CASE w0 = BYTE
  <2>1. Bytes(0, v)
    BY <1>1, <1>2, <1>3 DEF Divided
  <2>2. AL' = v /\ AH' = 0
    BY <1>2, <1>3, <2>1, BytesRead
  <2> QED BY <1>3, <2>2 DEF AL
<1>4. CASE w0 = WORD
  <2>1. ax' = v /\ dx' = 0
    BY <1>1, <1>2, <1>4 DEF Divided
  <2>2. v % WORD = v
    BY <1>4, WordRange
  <2> QED BY <1>2, <1>4, <2>1, <2>2
<1> QED BY <1>3, <1>4 DEF Width

LEMMA MulUndone ==
  ASSUME TypeOK, Multiplied, Next, last.op = "MUL", last'.op = "DIV",
         last'.w = last.w, last'.src = last.src, last.src # 0
  PROVE  ax' % last.w = Dst(last) /\ (IF last.w = BYTE THEN AH' ELSE dx') = 0
<1>1. PICK src \in Source("DIV") :
         Done(src) /\ Divide(IF w0 = BYTE THEN ax ELSE WORD * dx + ax, src)
  BY Which DEF Div
<1>2. last.w = w0 /\ last.src = src /\ w0 \in Width
  BY <1>1, Recorded, Frame
<1> DEFINE d == Dst(last)
           p == d * src
<1>3. d \in 0 .. w0 - 1 /\ d \in Int /\ src \in 0 .. w0 - 1 /\ src \in Int
  BY <1>2, LastTypes, Frame
<1>4. Product(last) = p
  BY <1>2 DEF Product
<1>5. ax = p % WORD /\ (w0 = WORD => dx = (p \div WORD) % WORD)
  BY <1>2, <1>4 DEF Multiplied
<1> HIDE DEF d
<1>6. (IF w0 = BYTE THEN ax ELSE WORD * dx + ax) = p
  <2>1. CASE w0 = BYTE
    <3>1. d <= 255 /\ src <= 255 /\ -255 <= d /\ -255 <= src
      BY <1>3, <2>1, InWord
    <3>2. 0 <= p /\ p <= 65025 /\ p \in Int
      <4>1. p \in Int /\ p <= 255 * 255
        BY <1>3, <3>1, ProductBound
      <4>2. 0 <= p
        BY <1>3, SMT
      <4> QED BY <4>1, <4>2
    <3> HIDE DEF p
    <3>3. p % 65536 = p
      BY <3>2, HalvesJoined
    <3> QED BY <1>5, <2>1, <3>3, Sizes
  <2>2. CASE w0 = WORD
    <3>1. d <= 65535 /\ src <= 65535 /\ -65535 <= d /\ -65535 <= src
      <4>1. 0 <= d /\ d <= 65535 /\ 0 <= src /\ src <= 65535
        BY <1>3, <2>2, WordRange
      <4> QED BY <1>3, <4>1
    <3>2. 0 <= p /\ p <= 4294967295 /\ p \in Int
      <4>1. p \in Int /\ p <= 65535 * 65535
        BY <1>3, <3>1, ProductBound
      <4>2. 0 <= p
        BY <1>3, SMT
      <4> QED BY <4>1, <4>2
    <3> HIDE DEF p
    <3>3. 65536 * ((p \div 65536) % 65536) + (p % 65536) = p
      BY <3>2, HalvesJoined
    <3> QED BY <1>5, <2>2, <3>3, Sizes
  <2> QED BY <1>2, <2>1, <2>2 DEF Width
<1>7. d % w0 = d
  BY <1>2, <1>3, WidthFacts, SMT
<1>8. ax' % w0 = d /\ (IF w0 = BYTE THEN AH' ELSE dx') = 0
  <2>1. Divide(p, src)
    BY <1>1, <1>6
  <2> QED BY <1>2, <1>3, <1>7, <2>1, FactorLeft
<1> QED BY <1>2, <1>8 DEF d

LEMMA ImulUndone ==
  ASSUME TypeOK, Multiplied, Next, last.op = "IMUL", last'.op = "IDIV",
         last'.w = last.w, last'.src = last.src, last.src # 0
  PROVE  ax' % last.w = Dst(last) /\ (IF last.w = BYTE THEN AH' ELSE dx') = 0
<1>1. PICK src \in Source("IDIV") :
         /\ Done(src)
         /\ Divide(IF w0 = BYTE THEN Signed(ax, WORD) ELSE WORD * Signed(dx, WORD) + ax,
                   Signed(src, w0))
  BY Which DEF Idiv
<1>2. last.w = w0 /\ last.src = src /\ w0 \in Width
  BY <1>1, Recorded, Frame
<1> DEFINE d == Signed(Dst(last), w0)
           s == Signed(src, w0)
           p == d * s
<1>3. Dst(last) \in 0 .. w0 - 1 /\ Dst(last) \in Int /\ src \in 0 .. w0 - 1 /\ src \in Int
  BY <1>2, LastTypes, Frame
<1>4. Product(last) = p
  BY <1>2 DEF Product
<1>5. ax = p % WORD /\ (w0 = WORD => dx = (p \div WORD) % WORD)
  BY <1>2, <1>4 DEF Multiplied
<1>6. CASE w0 = BYTE
  <2>1. /\ 0 <= src /\ src <= 255
        /\ 0 <= Dst(last) /\ Dst(last) <= 255
    BY <1>3, <1>6, InWord
  <2>2. /\ d \in Int /\ -128 <= d /\ d <= 127 /\ d % BYTE = Dst(last)
        /\ s \in Int /\ -128 <= s /\ s <= 127 /\ s % BYTE = src
    BY <1>3, <1>6, <2>1, SignedByte, Sizes
  <2>3. s # 0
    BY <1>2, <2>2, Sizes, SMT
  <2> HIDE DEF d, s
  <2>4. p \in Int /\ -16384 <= p /\ p <= 16384
    <3>1. -128 <= d /\ d <= 128 /\ -128 <= s /\ s <= 128 /\ 128 \in Nat
      BY <2>2
    <3>2. p \in Int /\ -(128 * 128) <= p /\ p <= 128 * 128
      BY <2>2, <3>1, ProductBound
    <3> HIDE DEF p
    <3> QED BY <3>2
  <2>5. Signed(ax, WORD) = p
    <3> HIDE DEF p
    <3>1. -32768 <= p /\ p <= 32767
      BY <2>4
    <3>2. Signed(p % 65536, 65536) = p
      BY <2>4, <3>1, HalvesJoined
    <3> QED BY <1>5, <3>2, Sizes
  <2>6. Divide(p, s)
    BY <1>1, <1>6, <2>5 DEF s
  <2>7. ax' % w0 = Dst(last) /\ (IF w0 = BYTE THEN AH' ELSE dx') = 0
    BY <1>2, <1>3, <1>6, <2>2, <2>3, <2>6, FactorLeft
  <2> QED BY <1>2, <2>7
<1>7. CASE w0 = WORD
  <2>1. /\ 0 <= src /\ src <= 65535
        /\ 0 <= Dst(last) /\ Dst(last) <= 65535
    BY <1>3, <1>7, WordRange
  <2>2. /\ d \in Int /\ -32768 <= d /\ d <= 32767 /\ d % WORD = Dst(last)
        /\ s \in Int /\ -32768 <= s /\ s <= 32767 /\ s % WORD = src
    BY <1>3, <1>7, <2>1, SignedWord
  <2>3. s # 0
    BY <1>2, <2>2, Sizes, SMT
  <2> HIDE DEF d, s
  <2>4. p \in Int /\ -1073741824 <= p /\ p <= 1073741824
    <3>1. -32768 <= d /\ d <= 32768 /\ -32768 <= s /\ s <= 32768 /\ 32768 \in Nat
      BY <2>2
    <3>2. p \in Int /\ -(32768 * 32768) <= p /\ p <= 32768 * 32768
      BY <2>2, <3>1, ProductBound
    <3> HIDE DEF p
    <3> QED BY <3>2
  <2>5. WORD * Signed(dx, WORD) + ax = p /\ WORD # BYTE
    <3> HIDE DEF p
    <3>1. 65536 * Signed((p \div 65536) % 65536, 65536) + (p % 65536) = p
      BY <2>4, HalvesJoined
    <3> QED BY <1>5, <1>7, <3>1, Sizes
  <2>6. Divide(p, s)
    BY <1>1, <1>7, <2>5 DEF s
  <2>7. ax' % w0 = Dst(last) /\ (IF w0 = BYTE THEN AH' ELSE dx') = 0
    BY <1>2, <1>3, <1>7, <2>2, <2>3, <2>6, FactorLeft
  <2> QED BY <1>2, <2>7
<1> QED BY <1>2, <1>6, <1>7 DEF Width

\* CWD and IDIV divide a word with a sign.
LEMMA ExtendedDivides ==
  ASSUME TypeOK, Extended, Next, last.op = "CWD", last'.op = "IDIV", last'.w = WORD,
         last'.src # 0, ~(last'.ax = WORD \div 2 /\ last'.src = WORD - 1)
  PROVE  /\ Signed(ax', WORD) * Signed(last'.src, WORD) + Signed(dx', WORD)
               = Signed(last'.ax, WORD)
         /\ Abs(Signed(dx', WORD)) < Abs(Signed(last'.src, WORD))
<1>1. PICK src \in Source("IDIV") :
         /\ Done(src)
         /\ Divide(IF w0 = BYTE THEN Signed(ax, WORD) ELSE WORD * Signed(dx, WORD) + ax,
                   Signed(src, w0))
  BY Which DEF Idiv
<1>2. w0 = WORD /\ w0 # BYTE /\ last'.src = src /\ last'.ax = ax
  BY <1>1, Recorded, Sizes
<1> DEFINE a == Signed(ax, WORD)
           s == Signed(src, WORD)
           q == Quotient(a, s)
           r == Remainder(a, s)
<1>3. /\ ax \in Int /\ 0 <= ax /\ ax <= 65535
      /\ src \in Int /\ 0 <= src /\ src <= 65535
  <2>1. src \in Int /\ 0 <= src /\ src <= 65535
    <3>1. src \in 0 .. WORD - 1
      BY <1>2, Frame
    <3> QED BY <3>1, WordRange
  <2>2. ax \in Word /\ ax \in Int
    BY Registers
  <2> QED BY <2>1, <2>2, InWord
<1>4. /\ a \in Int /\ -32768 <= a /\ a <= 32767 /\ a % WORD = ax
      /\ s \in Int /\ -32768 <= s /\ s <= 32767 /\ s % WORD = src
  BY <1>3, SignedWord
<1>5. s # 0 /\ ~(a = -32768 /\ s = -1)
  <2>1. src # 0 /\ ~(ax = 32768 /\ src = 65535)
    BY <1>2, Sizes, SMT
  <2>2. /\ a = IF ax >= 32768 THEN ax - 65536 ELSE ax
        /\ s = IF src >= 32768 THEN src - 65536 ELSE src
    BY <1>3, SignedWord
  <2> HIDE DEF a, s
  <2> QED BY <1>3, <2>1, <2>2, SMT
<1>6. WORD * Signed(dx, WORD) + ax = a
  <2>1. dx = IF ax >= 32768 THEN 65535 ELSE 0
    <3>1. WORD \div 2 = 32768 /\ WORD - 1 = 65535
      BY Sizes, SMT
    <3>2. dx = IF ax >= WORD \div 2 THEN WORD - 1 ELSE 0
      BY DEF Extended, Sign
    <3> QED BY <3>1, <3>2
  <2>2. a = IF ax >= 32768 THEN ax - 65536 ELSE ax
    BY Sizes, SMT DEF Signed
  <2>3. Signed(dx, WORD) = IF dx >= 32768 THEN dx - 65536 ELSE dx
    BY Sizes, SMT DEF Signed
  <2> HIDE DEF a
  <2>4. Signed(dx, WORD) = IF ax >= 32768 THEN -1 ELSE 0
    BY <2>1, <2>3, SMT
  <2> QED BY <1>3, <2>2, <2>4, Sizes, SMT
<1>7. Divided(q, r)
  BY <1>1, <1>2, <1>5, <1>6 DEF Divide
<1>8. /\ InSigned(q) /\ InSigned(r)
      /\ q * s + r = a /\ Abs(r) < Abs(s)
  <2> HIDE DEF a, s
  <2> QED BY <1>4, <1>5, QuotientRounds
<1> HIDE DEF q, r
<1>9. ax' = q % 65536 /\ dx' = r % 65536
  BY <1>2, <1>7, Sizes DEF Divided
<1>10. Signed(ax', WORD) = q /\ Signed(dx', WORD) = r
  BY <1>8, <1>9, WordSigned, Sizes DEF InSigned
<1> HIDE DEF a, s
<1>11. Signed(last'.src, WORD) = s /\ Signed(last'.ax, WORD) = a
  BY <1>2 DEF s, a
<1> QED BY <1>8, <1>10, <1>11

\* CF and OF of a product.
LEMMA Spilled ==
  ASSUME NEW op, NEW p, Multiply(op, p)
  PROVE  /\ flags'.CF = Spills(op, p) /\ flags'.OF = Spills(op, p)
         /\ ax' = p % WORD /\ (w0 # BYTE => dx' = (p \div WORD) % WORD)
<1>1. flags' = With(flags, Spills(op, p), flags.AF, Spills(op, p))
  BY DEF Multiply
<1>2. flags'.CF = Spills(op, p) /\ flags'.OF = Spills(op, p)
  BY <1>1, Zenon DEF With
<1> QED BY <1>2 DEF Multiply

Whole == /\ Registered(last) = Product(last)
         /\ flags.CF = flags.OF
         /\ SignMistaken(last) \/ (flags.CF <=> Product(last) \notin Small(last))

LEMMA MulWhole ==
  ASSUME TypeOK, Next, last'.op = "MUL"
  PROVE  Whole'
<1>1. PICK src \in Source("MUL") : Done(src) /\ Multiply("MUL", dst0 * src)
  BY Which DEF Mul
<1>2. /\ last'.w = w0 /\ last'.src = src /\ Dst(last') = dst0 /\ w0 \in Width
      /\ dst0 \in 0 .. w0 - 1 /\ dst0 \in Int /\ src \in 0 .. w0 - 1 /\ src \in Int
  BY <1>1, Recorded, Frame
<1> DEFINE d == dst0
           p == d * src
<1>3. Product(last') = p
  BY <1>2 DEF Product
<1>4. Small(last') = 0 .. w0 - 1
  BY <1>2 DEF Small
<1>5. /\ flags'.CF = Spills("MUL", p) /\ flags'.OF = Spills("MUL", p)
      /\ ax' = p % WORD /\ (w0 # BYTE => dx' = (p \div WORD) % WORD)
  BY <1>1, Spilled
<1>6. Spills("MUL", p) <=> (p \div w0) % w0 # 0
  BY Zenon DEF Spills
<1> HIDE DEF d
<1>7. CASE w0 = BYTE
  <2>1. d <= 255 /\ src <= 255 /\ -255 <= d /\ -255 <= src
    BY <1>2, <1>7, InWord DEF d
  <2>2. 0 <= p /\ p <= 65025 /\ p \in Int
    <3>1. p \in Int /\ p <= 255 * 255
      BY <1>2, <2>1, ProductBound DEF d
    <3>2. 0 <= p
      BY <1>2, SMT DEF d
    <3> QED BY <3>1, <3>2
  <2> HIDE DEF p
  <2>3. Registered(last)' = p
    <3>1. Registered(last)' = ax'
      BY <1>2, <1>7 DEF Registered
    <3>2. p % 65536 = p
      BY <2>2, HalvesJoined
    <3> QED BY <1>5, <3>1, <3>2, Sizes
  <2>4. Spills("MUL", p) <=> p \notin 0 .. w0 - 1
    <3>1. (p \div 256) % 256 = 0 <=> p < 256
      BY <2>2, UpperHalf
    <3>2. p \in 0 .. w0 - 1 <=> p < 256
      BY <1>7, <2>2, Sizes, SMT
    <3>3. (p \div w0) % w0 = (p \div 256) % 256
      BY <1>7, Sizes
    <3> QED BY <1>6, <3>1, <3>2, <3>3
  <2> QED BY <1>3, <1>4, <1>5, <2>3, <2>4 DEF Whole
<1>8. CASE w0 = WORD
  <2>1. d <= 65535 /\ src <= 65535 /\ -65535 <= d /\ -65535 <= src
    <3>1. 0 <= d /\ d <= 65535 /\ 0 <= src /\ src <= 65535
      BY <1>2, <1>8, WordRange DEF d
    <3> QED BY <1>2, <3>1 DEF d
  <2>2. 0 <= p /\ p <= 4294836225 /\ p \in Int
    <3>1. p \in Int /\ p <= 65535 * 65535
      BY <1>2, <2>1, ProductBound DEF d
    <3>2. 0 <= p
      BY <1>2, SMT DEF d
    <3> QED BY <3>1, <3>2
  <2> HIDE DEF p
  <2>0. BYTE # WORD
    BY Sizes
  <2>3. Registered(last)' = p
    <3>1. Registered(last)' = WORD * dx' + ax'
      BY <1>2, <1>8, <2>0 DEF Registered
    <3>2. 65536 * ((p \div 65536) % 65536) + (p % 65536) = p
      BY <2>2, HalvesJoined
    <3> QED BY <1>5, <1>8, <2>0, <3>1, <3>2, Sizes
  <2>4. Spills("MUL", p) <=> p \notin 0 .. w0 - 1
    <3>1. (p \div 65536) % 65536 = 0 <=> p < 65536
      BY <2>2, UpperHalf
    <3>2. p \in 0 .. w0 - 1 <=> p < 65536
      BY <1>8, <2>2, Sizes, SMT
    <3>3. (p \div w0) % w0 = (p \div 65536) % 65536
      BY <1>8, Sizes
    <3> QED BY <1>6, <3>1, <3>2, <3>3
  <2> QED BY <1>3, <1>4, <1>5, <2>3, <2>4 DEF Whole
<1> QED BY <1>2, <1>7, <1>8 DEF Width

LEMMA ImulWhole ==
  ASSUME TypeOK, Next, last'.op = "IMUL"
  PROVE  Whole'
<1>1. PICK src \in Source("IMUL") :
         Done(src) /\ Multiply("IMUL", Signed(dst0, w0) * Signed(src, w0))
  BY Which DEF Imul
<1>2. /\ last'.w = w0 /\ last'.src = src /\ Dst(last') = dst0 /\ w0 \in Width
      /\ dst0 \in 0 .. w0 - 1 /\ dst0 \in Int /\ src \in 0 .. w0 - 1 /\ src \in Int
      /\ BYTE # WORD
  BY <1>1, Recorded, Frame, Sizes
<1> DEFINE d == Signed(dst0, w0)
           s == Signed(src, w0)
           p == d * s
<1>3. Product(last') = p
  BY <1>2 DEF Product
<1>5. /\ flags'.CF = Spills("IMUL", p) /\ flags'.OF = Spills("IMUL", p)
      /\ ax' = p % WORD /\ (w0 # BYTE => dx' = (p \div WORD) % WORD)
  BY <1>1, Spilled
<1>7. CASE w0 = BYTE
  <2>1. /\ 0 <= src /\ src <= 255 /\ 0 <= dst0 /\ dst0 <= 255
    BY <1>2, <1>7, InWord
  <2>2. /\ d \in Int /\ -128 <= d /\ d <= 127
        /\ s \in Int /\ -128 <= s /\ s <= 127
    BY <1>2, <1>7, <2>1, SignedByte, Sizes
  <2>3. Spills("IMUL", p) <=> (p \div 256) % 256 # IF AL >= 128 THEN 255 ELSE 0
    <3>1. Sign(AL, BYTE) <=> AL >= 128
      BY Sizes, SMT DEF Sign
    <3>2. Spills("IMUL", p) <=> (p \div w0) % w0 # IF Sign(AL, BYTE) THEN w0 - 1 ELSE 0
      BY <1>7, Zenon DEF Spills
    <3> HIDE DEF p
    <3>3. (p \div w0) % w0 = (p \div 256) % 256 /\ w0 - 1 = 255
      BY <1>7, Sizes
    <3> QED BY <3>1, <3>2, <3>3
  <2>4. Small(last') = -(BYTE \div 2) .. (BYTE \div 2) - 1
    BY <1>2, <1>7, Zenon DEF Small
  <2>5. dst0 = AL
    BY <1>7 DEF dst0, AL
  <2> HIDE DEF d, s
  <2>7. p \in Int /\ -16384 <= p /\ p <= 16384
    <3>1. -128 <= d /\ d <= 128 /\ -128 <= s /\ s <= 128 /\ 128 \in Nat
      BY <2>2
    <3>2. p \in Int /\ -(128 * 128) <= p /\ p <= 128 * 128
      BY <2>2, <3>1, ProductBound
    <3> HIDE DEF p
    <3> QED BY <3>2
  <2> HIDE DEF p
  <2>8. Registered(last)' = p
    <3>1. Registered(last)' = Signed(ax', WORD)
      BY <1>2, <1>7 DEF Registered
    <3>2. -32768 <= p /\ p <= 32767
      BY <2>7
    <3>3. Signed(p % 65536, 65536) = p
      BY <2>7, <3>2, HalvesJoined
    <3> QED BY <1>5, <3>1, <3>3, Sizes
  <2>9. SignMistaken(last') \/ (Spills("IMUL", p) <=> p \notin Small(last'))
    <3>1. (p \div 256) % 256 = (IF p % 256 >= 128 THEN 255 ELSE 0)
             <=> -128 <= p /\ p <= 127
      BY <2>7, UpperByte
    <3>2. p \in Small(last') <=> -128 <= p /\ p <= 127
      BY <2>4, <2>7, Sizes, SMT
    <3>3. SignMistaken(last') <=> ~(Sign(AL, BYTE) <=> Sign(p % BYTE, BYTE))
      <4>1. SignMistaken(last') <=> Sign(AL, BYTE) # Sign(p % BYTE, BYTE)
        BY <1>2, <1>3, <1>7, <2>5, Zenon DEF SignMistaken
      <4>2. Sign(AL, BYTE) \in BOOLEAN /\ Sign(p % BYTE, BYTE) \in BOOLEAN
        BY SMT DEF Sign
      <4> QED BY <4>1, <4>2, Zenon
    <3>4. Sign(AL, BYTE) <=> AL >= 128
      BY Sizes, SMT DEF Sign
    <3>5. Sign(p % BYTE, BYTE) <=> p % 256 >= 128
      <4> DEFINE low == p % 256
      <4>1. low \in Int
        BY <2>7, SMT
      <4>2. p % BYTE = low
        BY Sizes
      <4> HIDE DEF low
      <4>3. Sign(low, BYTE) <=> low >= 128
        BY <4>1, Sizes, SMT DEF Sign
      <4> QED BY <4>2, <4>3 DEF low
    <3> QED BY <2>3, <3>1, <3>2, <3>3, <3>4, <3>5
  <2> QED BY <1>3, <1>5, <2>8, <2>9 DEF Whole
<1>8. CASE w0 = WORD
  <2>1. /\ 0 <= src /\ src <= 65535 /\ 0 <= dst0 /\ dst0 <= 65535
    BY <1>2, <1>8, WordRange
  <2>2. /\ d \in Int /\ -32768 <= d /\ d <= 32767
        /\ s \in Int /\ -32768 <= s /\ s <= 32767
    BY <1>2, <1>8, <2>1, SignedWord
  <2>3. Spills("IMUL", p) <=> (p \div 65536) % 65536
                                  # IF p % 65536 >= 32768 THEN 65535 ELSE 0
    <3>1. Spills("IMUL", p) <=> (p \div w0) % w0 # IF Sign(p % w0, w0) THEN w0 - 1 ELSE 0
      BY <1>2, <1>8, Zenon DEF Spills
    <3> HIDE DEF p
    <3>2. Sign(p % 65536, 65536) <=> p % 65536 >= 32768
      BY SMT DEF Sign
    <3>3. w0 = 65536
      BY <1>8, Sizes
    <3>4. /\ (p \div w0) % w0 = (p \div 65536) % 65536 /\ w0 - 1 = 65535
          /\ Sign(p % w0, w0) <=> Sign(p % 65536, 65536)
      BY <3>3
    <3> QED BY <3>1, <3>2, <3>4
  <2>4. Small(last') = -(WORD \div 2) .. (WORD \div 2) - 1
    BY <1>2, <1>8, Zenon DEF Small
  <2> HIDE DEF d, s
  <2>7. p \in Int /\ -1073741824 <= p /\ p <= 1073741824
    <3>1. -32768 <= d /\ d <= 32768 /\ -32768 <= s /\ s <= 32768 /\ 32768 \in Nat
      BY <2>2
    <3>2. p \in Int /\ -(32768 * 32768) <= p /\ p <= 32768 * 32768
      BY <2>2, <3>1, ProductBound
    <3> HIDE DEF p
    <3> QED BY <3>2
  <2> HIDE DEF p
  <2>8. Registered(last)' = p
    <3>1. Registered(last)' = WORD * Signed(dx', WORD) + ax'
      BY <1>2, <1>8 DEF Registered
    <3> DEFINE Joined(n) == n * Signed((p \div n) % n, n) + (p % n) = p
    <3>2. Joined(65536)
      BY <2>7, HalvesJoined
    <3>3. WORD = 65536
      BY Sizes
    <3>4. w0 # BYTE
      BY <1>2, <1>8
    <3>5. ax' = p % WORD /\ dx' = (p \div WORD) % WORD
      BY <1>5, <3>4, Zenon
    <3> HIDE DEF Joined
    <3>6. Joined(WORD)
      BY <3>2, <3>3
    <3> QED BY <3>1, <3>5, <3>6, Zenon DEF Joined
  <2>9. Spills("IMUL", p) <=> p \notin Small(last')
    <3>1. (p \div 65536) % 65536 = (IF p % 65536 >= 32768 THEN 65535 ELSE 0)
             <=> -32768 <= p /\ p <= 32767
      BY <2>7, UpperWord
    <3>2. p \in Small(last') <=> -32768 <= p /\ p <= 32767
      <4> DEFINE h == WORD \div 2
      <4>1. h = 32768
        BY Sizes, SMT
      <4>2. h \in Int
        BY ONLY <4>1, SMT
      <4> HIDE DEF h
      <4>3. p \in -h .. h - 1 <=> -h <= p /\ p <= h - 1
        BY ONLY <2>7, <4>2, SMT
      <4>4. -h <= p /\ p <= h - 1 <=> -32768 <= p /\ p <= 32767
        BY ONLY <2>7, <4>1, SMT
      <4>5. p \in Small(last') <=> p \in -h .. h - 1
        BY <2>4, Zenon DEF h
      <4> QED BY ONLY <4>3, <4>4, <4>5, SMT
    <3> QED BY <2>3, <3>1, <3>2
  <2> QED BY <1>3, <1>5, <2>8, <2>9 DEF Whole
<1> QED BY <1>2, <1>7, <1>8 DEF Width

LEMMA DividedStep ==
  ASSUME TypeOK, Multiplied, Extended, Next
  PROVE  ProductsAndQuotients'
<1>1. prev' = last /\ Dst(prev') = Dst(last)
  BY Which
<1>2. ASSUME <<prev'.op, last'.op>> \in {<<"MUL", "DIV">>, <<"IMUL", "IDIV">>},
             prev'.w = last'.w, prev'.src = last'.src, last'.src # 0
      PROVE  ax' % last'.w = Dst(prev') /\ (IF last'.w = BYTE THEN AH' ELSE dx') = 0
  <2>1. \/ last.op = "MUL" /\ last'.op = "DIV"
        \/ last.op = "IMUL" /\ last'.op = "IDIV"
    BY <1>1, <1>2, Zenon
  <2>2. last'.w = last.w /\ last'.src = last.src /\ last.src # 0
    BY <1>1, <1>2, Zenon
  <2>3. ax' % last.w = Dst(last) /\ (IF last.w = BYTE THEN AH' ELSE dx') = 0
    BY <2>1, <2>2, MulUndone, ImulUndone
  <2> QED BY <1>1, <2>2, <2>3, Zenon
<1>3. ASSUME prev'.op = "CWD", last'.op = "IDIV", last'.w = WORD, last'.src # 0,
             ~(last'.ax = WORD \div 2 /\ last'.src = WORD - 1)
      PROVE  /\ Signed(ax', WORD) * Signed(last'.src, WORD) + Signed(dx', WORD)
                   = Signed(last'.ax, WORD)
             /\ Abs(Signed(dx', WORD)) < Abs(Signed(last'.src, WORD))
  <2>1. last.op = "CWD"
    BY <1>1, <1>3, Zenon
  <2> QED BY <1>3, <2>1, ExtendedDivides
<1>4. ASSUME last'.op \in {"MUL", "IMUL"}
      PROVE  Whole'
  BY <1>4, MulWhole, ImulWhole
<1> QED BY <1>2, <1>3, <1>4, Zenon DEF ProductsAndQuotients, Whole

\* A multiplication leaves the whole product, and CF and OF tell whether its
\* lower half would do; a division undoes the multiplication before it, and of
\* a word extended by CWD it leaves the quotient and a remainder smaller than
\* the divisor, for all operands.
THEOREM AluProducts == Spec => []ProductsAndQuotients
<1>1. Init => TypeOK /\ Multiplied /\ Extended /\ ProductsAndQuotients
  <2>1. Init => last.op = "none" /\ prev.op = "none"
    BY DEF Init, Fresh
  <2>2. Init => Multiplied /\ Extended
    BY <2>1 DEF Multiplied, Extended
  <2>3. Init => ProductsAndQuotients
    BY <2>1, Zenon DEF ProductsAndQuotients
  <2> QED BY <2>2, <2>3, TypeInit
<1>2. TypeOK /\ Multiplied /\ Extended /\ ProductsAndQuotients /\ [Next]_vars
         => TypeOK' /\ Multiplied' /\ Extended' /\ ProductsAndQuotients'
  <2> SUFFICES ASSUME TypeOK, Multiplied, Extended, ProductsAndQuotients, [Next]_vars
               PROVE  TypeOK' /\ Multiplied' /\ Extended' /\ ProductsAndQuotients'
    OBVIOUS
  <2>1. CASE Next
    BY <2>1, TypeInductive, UndividedStep, DividedStep
  <2>2. CASE UNCHANGED vars
    <3>1. Multiplied' /\ Extended'
      BY <2>2 DEF vars, Multiplied, Extended
    <3>2. ProductsAndQuotients'
      BY <2>2 DEF vars, ProductsAndQuotients, AH, Registered
    <3> QED BY <3>1, <3>2, TypeInductive
  <2> QED BY <2>1, <2>2
<1> QED BY <1>1, <1>2, PTL DEF Spec

-------------------------------------------------------------------------------
(* Shifts *)

LEMMA Powers ==
  /\ 2^0 = 1 /\ 2^1 = 2 /\ 2^2 = 4 /\ 2^3 = 8 /\ 2^4 = 16 /\ 2^5 = 32 /\ 2^6 = 64
  /\ 2^7 = 128 /\ 2^8 = 256 /\ 2^9 = 512 /\ 2^10 = 1024 /\ 2^11 = 2048
  /\ 2^12 = 4096 /\ 2^13 = 8192 /\ 2^14 = 16384 /\ 2^15 = 32768 /\ 2^16 = 65536
  BY SMT

\* Halved n times, a number is divided by the nth power of two.
LEMMA HalvedOften ==
  ASSUME NEW h, NEW d \in Int, h[0] = d, \A n \in 0 .. 15 : h[n + 1] = h[n] \div 2
  PROVE  \A n \in 0 .. 16 : h[n] = d \div 2^n
<1>0. h[0] = d \div 1
  BY SMT
<1>1. h[1] = d \div 2
  <2>1. h[1] = h[0] \div 2
    <3>1. 0 \in 0 .. 15 /\ 0 + 1 = 1
      BY SMT
    <3> QED BY <3>1, Zenon
  <2>2. (d \div 1) \div 2 = d \div 2
    BY SMT
  <2> QED BY <1>0, <2>1, <2>2
<1>2. h[2] = d \div 4
  <2>1. h[2] = h[1] \div 2
    <3>1. 1 \in 0 .. 15 /\ 1 + 1 = 2
      BY SMT
    <3> QED BY <3>1, Zenon
  <2>2. (d \div 2) \div 2 = d \div 4
    BY SMT
  <2> QED BY <1>1, <2>1, <2>2
<1>3. h[3] = d \div 8
  <2>1. h[3] = h[2] \div 2
    <3>1. 2 \in 0 .. 15 /\ 2 + 1 = 3
      BY SMT
    <3> QED BY <3>1, Zenon
  <2>2. (d \div 4) \div 2 = d \div 8
    BY SMT
  <2> QED BY <1>2, <2>1, <2>2
<1>4. h[4] = d \div 16
  <2>1. h[4] = h[3] \div 2
    <3>1. 3 \in 0 .. 15 /\ 3 + 1 = 4
      BY SMT
    <3> QED BY <3>1, Zenon
  <2>2. (d \div 8) \div 2 = d \div 16
    BY SMT
  <2> QED BY <1>3, <2>1, <2>2
<1>5. h[5] = d \div 32
  <2>1. h[5] = h[4] \div 2
    <3>1. 4 \in 0 .. 15 /\ 4 + 1 = 5
      BY SMT
    <3> QED BY <3>1, Zenon
  <2>2. (d \div 16) \div 2 = d \div 32
    BY SMT
  <2> QED BY <1>4, <2>1, <2>2
<1>6. h[6] = d \div 64
  <2>1. h[6] = h[5] \div 2
    <3>1. 5 \in 0 .. 15 /\ 5 + 1 = 6
      BY SMT
    <3> QED BY <3>1, Zenon
  <2>2. (d \div 32) \div 2 = d \div 64
    BY SMT
  <2> QED BY <1>5, <2>1, <2>2
<1>7. h[7] = d \div 128
  <2>1. h[7] = h[6] \div 2
    <3>1. 6 \in 0 .. 15 /\ 6 + 1 = 7
      BY SMT
    <3> QED BY <3>1, Zenon
  <2>2. (d \div 64) \div 2 = d \div 128
    BY SMT
  <2> QED BY <1>6, <2>1, <2>2
<1>8. h[8] = d \div 256
  <2>1. h[8] = h[7] \div 2
    <3>1. 7 \in 0 .. 15 /\ 7 + 1 = 8
      BY SMT
    <3> QED BY <3>1, Zenon
  <2>2. (d \div 128) \div 2 = d \div 256
    BY SMT
  <2> QED BY <1>7, <2>1, <2>2
<1>9. h[9] = d \div 512
  <2>1. h[9] = h[8] \div 2
    <3>1. 8 \in 0 .. 15 /\ 8 + 1 = 9
      BY SMT
    <3> QED BY <3>1, Zenon
  <2>2. (d \div 256) \div 2 = d \div 512
    BY SMT
  <2> QED BY <1>8, <2>1, <2>2
<1>10. h[10] = d \div 1024
  <2>1. h[10] = h[9] \div 2
    <3>1. 9 \in 0 .. 15 /\ 9 + 1 = 10
      BY SMT
    <3> QED BY <3>1, Zenon
  <2>2. (d \div 512) \div 2 = d \div 1024
    BY SMT
  <2> QED BY <1>9, <2>1, <2>2
<1>11. h[11] = d \div 2048
  <2>1. h[11] = h[10] \div 2
    <3>1. 10 \in 0 .. 15 /\ 10 + 1 = 11
      BY SMT
    <3> QED BY <3>1, Zenon
  <2>2. (d \div 1024) \div 2 = d \div 2048
    BY SMT
  <2> QED BY <1>10, <2>1, <2>2
<1>12. h[12] = d \div 4096
  <2>1. h[12] = h[11] \div 2
    <3>1. 11 \in 0 .. 15 /\ 11 + 1 = 12
      BY SMT
    <3> QED BY <3>1, Zenon
  <2>2. (d \div 2048) \div 2 = d \div 4096
    BY SMT
  <2> QED BY <1>11, <2>1, <2>2
<1>13. h[13] = d \div 8192
  <2>1. h[13] = h[12] \div 2
    <3>1. 12 \in 0 .. 15 /\ 12 + 1 = 13
      BY SMT
    <3> QED BY <3>1, Zenon
  <2>2. (d \div 4096) \div 2 = d \div 8192
    BY SMT
  <2> QED BY <1>12, <2>1, <2>2
<1>14. h[14] = d \div 16384
  <2>1. h[14] = h[13] \div 2
    <3>1. 13 \in 0 .. 15 /\ 13 + 1 = 14
      BY SMT
    <3> QED BY <3>1, Zenon
  <2>2. (d \div 8192) \div 2 = d \div 16384
    BY SMT
  <2> QED BY <1>13, <2>1, <2>2
<1>15. h[15] = d \div 32768
  <2>1. h[15] = h[14] \div 2
    <3>1. 14 \in 0 .. 15 /\ 14 + 1 = 15
      BY SMT
    <3> QED BY <3>1, Zenon
  <2>2. (d \div 16384) \div 2 = d \div 32768
    BY SMT
  <2> QED BY <1>14, <2>1, <2>2
<1>16. h[16] = d \div 65536
  <2>1. h[16] = h[15] \div 2
    <3>1. 15 \in 0 .. 15 /\ 15 + 1 = 16
      BY SMT
    <3> QED BY <3>1, Zenon
  <2>2. (d \div 32768) \div 2 = d \div 65536
    BY SMT
  <2> QED BY <1>15, <2>1, <2>2
<1>17. SUFFICES ASSUME NEW n \in 0 .. 16 PROVE h[n] = d \div 2^n
  OBVIOUS
<1>18. CASE n = 0
  BY <1>0, <1>18, Powers
<1>19. CASE n = 1
  BY <1>1, <1>19, Powers
<1>20. CASE n = 2
  BY <1>2, <1>20, Powers
<1>21. CASE n = 3
  BY <1>3, <1>21, Powers
<1>22. CASE n = 4
  BY <1>4, <1>22, Powers
<1>23. CASE n = 5
  BY <1>5, <1>23, Powers
<1>24. CASE n = 6
  BY <1>6, <1>24, Powers
<1>25. CASE n = 7
  BY <1>7, <1>25, Powers
<1>26. CASE n = 8
  BY <1>8, <1>26, Powers
<1>27. CASE n = 9
  BY <1>9, <1>27, Powers
<1>28. CASE n = 10
  BY <1>10, <1>28, Powers
<1>29. CASE n = 11
  BY <1>11, <1>29, Powers
<1>30. CASE n = 12
  BY <1>12, <1>30, Powers
<1>31. CASE n = 13
  BY <1>13, <1>31, Powers
<1>32. CASE n = 14
  BY <1>14, <1>32, Powers
<1>33. CASE n = 15
  BY <1>15, <1>33, Powers
<1>34. CASE n = 16
  BY <1>16, <1>34, Powers
<1> QED BY <1>18, <1>19, <1>20, <1>21, <1>22, <1>23, <1>24, <1>25, <1>26, <1>27, <1>28, <1>29, <1>30, <1>31, <1>32, <1>33, <1>34

\* Doubled n times within w, a number is multiplied by the nth power of two.
LEMMA DoubledOnce ==
  ASSUME NEW a \in Int, NEW w \in Width
  PROVE  (2 * (a % w)) % w = (2 * a) % w
<1>1. (2 * (a % 256)) % 256 = (2 * a) % 256
  BY SMT
<1>2. (2 * (a % 65536)) % 65536 = (2 * a) % 65536
  BY SMT
<1>3. w = 256 \/ w = 65536
  BY Sizes DEF Width
<1> QED BY <1>1, <1>2, <1>3

LEMMA DoubledOften ==
  ASSUME NEW h, NEW w \in Width, NEW d \in 0 .. w - 1, h[0] = d,
         \A n \in 0 .. 15 : h[n + 1] = (2 * h[n]) % w
  PROVE  \A n \in 0 .. 16 : h[n] = (d * 2^n) % w
<1>0. d \in Int /\ h[0] = (d * 1) % w
  <2>1. CASE w = WORD
    <3>1. d \in Int /\ d % WORD = d
      BY <2>1, WordRange
    <3> QED BY <2>1, <3>1
  <2>2. CASE w = BYTE
    <3>1. d \in Int /\ 0 <= d /\ d <= 255
      BY <2>2, InWord
    <3>2. d % 256 = d
      BY <3>1, SMT
    <3> QED BY <2>2, <3>1, <3>2, Sizes
  <2> QED BY <2>1, <2>2 DEF Width
<1>1. h[1] = (d * 2) % w
  <2>1. h[1] = (2 * h[0]) % w
    <3>1. 0 \in 0 .. 15 /\ 0 + 1 = 1
      BY SMT
    <3> QED BY <3>1, Zenon
  <2>2. 2 * (d * 1) = d * 2 /\ d * 1 \in Int
    BY <1>0, SMT
  <2>3. (2 * ((d * 1) % w)) % w = (2 * (d * 1)) % w
    <3> DEFINE a == d * 1
    <3>1. a \in Int
      BY <2>2
    <3> HIDE DEF a
    <3>2. (2 * (a % w)) % w = (2 * a) % w
      BY <3>1, DoubledOnce
    <3> QED BY <3>2 DEF a
  <2> QED BY <1>0, <2>1, <2>2, <2>3
<1>2. h[2] = (d * 4) % w
  <2>1. h[2] = (2 * h[1]) % w
    <3>1. 1 \in 0 .. 15 /\ 1 + 1 = 2
      BY SMT
    <3> QED BY <3>1, Zenon
  <2>2. 2 * (d * 2) = d * 4 /\ d * 2 \in Int
    BY <1>0, SMT
  <2>3. (2 * ((d * 2) % w)) % w = (2 * (d * 2)) % w
    <3> DEFINE a == d * 2
    <3>1. a \in Int
      BY <2>2
    <3> HIDE DEF a
    <3>2. (2 * (a % w)) % w = (2 * a) % w
      BY <3>1, DoubledOnce
    <3> QED BY <3>2 DEF a
  <2> QED BY <1>1, <2>1, <2>2, <2>3
<1>3. h[3] = (d * 8) % w
  <2>1. h[3] = (2 * h[2]) % w
    <3>1. 2 \in 0 .. 15 /\ 2 + 1 = 3
      BY SMT
    <3> QED BY <3>1, Zenon
  <2>2. 2 * (d * 4) = d * 8 /\ d * 4 \in Int
    BY <1>0, SMT
  <2>3. (2 * ((d * 4) % w)) % w = (2 * (d * 4)) % w
    <3> DEFINE a == d * 4
    <3>1. a \in Int
      BY <2>2
    <3> HIDE DEF a
    <3>2. (2 * (a % w)) % w = (2 * a) % w
      BY <3>1, DoubledOnce
    <3> QED BY <3>2 DEF a
  <2> QED BY <1>2, <2>1, <2>2, <2>3
<1>4. h[4] = (d * 16) % w
  <2>1. h[4] = (2 * h[3]) % w
    <3>1. 3 \in 0 .. 15 /\ 3 + 1 = 4
      BY SMT
    <3> QED BY <3>1, Zenon
  <2>2. 2 * (d * 8) = d * 16 /\ d * 8 \in Int
    BY <1>0, SMT
  <2>3. (2 * ((d * 8) % w)) % w = (2 * (d * 8)) % w
    <3> DEFINE a == d * 8
    <3>1. a \in Int
      BY <2>2
    <3> HIDE DEF a
    <3>2. (2 * (a % w)) % w = (2 * a) % w
      BY <3>1, DoubledOnce
    <3> QED BY <3>2 DEF a
  <2> QED BY <1>3, <2>1, <2>2, <2>3
<1>5. h[5] = (d * 32) % w
  <2>1. h[5] = (2 * h[4]) % w
    <3>1. 4 \in 0 .. 15 /\ 4 + 1 = 5
      BY SMT
    <3> QED BY <3>1, Zenon
  <2>2. 2 * (d * 16) = d * 32 /\ d * 16 \in Int
    BY <1>0, SMT
  <2>3. (2 * ((d * 16) % w)) % w = (2 * (d * 16)) % w
    <3> DEFINE a == d * 16
    <3>1. a \in Int
      BY <2>2
    <3> HIDE DEF a
    <3>2. (2 * (a % w)) % w = (2 * a) % w
      BY <3>1, DoubledOnce
    <3> QED BY <3>2 DEF a
  <2> QED BY <1>4, <2>1, <2>2, <2>3
<1>6. h[6] = (d * 64) % w
  <2>1. h[6] = (2 * h[5]) % w
    <3>1. 5 \in 0 .. 15 /\ 5 + 1 = 6
      BY SMT
    <3> QED BY <3>1, Zenon
  <2>2. 2 * (d * 32) = d * 64 /\ d * 32 \in Int
    BY <1>0, SMT
  <2>3. (2 * ((d * 32) % w)) % w = (2 * (d * 32)) % w
    <3> DEFINE a == d * 32
    <3>1. a \in Int
      BY <2>2
    <3> HIDE DEF a
    <3>2. (2 * (a % w)) % w = (2 * a) % w
      BY <3>1, DoubledOnce
    <3> QED BY <3>2 DEF a
  <2> QED BY <1>5, <2>1, <2>2, <2>3
<1>7. h[7] = (d * 128) % w
  <2>1. h[7] = (2 * h[6]) % w
    <3>1. 6 \in 0 .. 15 /\ 6 + 1 = 7
      BY SMT
    <3> QED BY <3>1, Zenon
  <2>2. 2 * (d * 64) = d * 128 /\ d * 64 \in Int
    BY <1>0, SMT
  <2>3. (2 * ((d * 64) % w)) % w = (2 * (d * 64)) % w
    <3> DEFINE a == d * 64
    <3>1. a \in Int
      BY <2>2
    <3> HIDE DEF a
    <3>2. (2 * (a % w)) % w = (2 * a) % w
      BY <3>1, DoubledOnce
    <3> QED BY <3>2 DEF a
  <2> QED BY <1>6, <2>1, <2>2, <2>3
<1>8. h[8] = (d * 256) % w
  <2>1. h[8] = (2 * h[7]) % w
    <3>1. 7 \in 0 .. 15 /\ 7 + 1 = 8
      BY SMT
    <3> QED BY <3>1, Zenon
  <2>2. 2 * (d * 128) = d * 256 /\ d * 128 \in Int
    BY <1>0, SMT
  <2>3. (2 * ((d * 128) % w)) % w = (2 * (d * 128)) % w
    <3> DEFINE a == d * 128
    <3>1. a \in Int
      BY <2>2
    <3> HIDE DEF a
    <3>2. (2 * (a % w)) % w = (2 * a) % w
      BY <3>1, DoubledOnce
    <3> QED BY <3>2 DEF a
  <2> QED BY <1>7, <2>1, <2>2, <2>3
<1>9. h[9] = (d * 512) % w
  <2>1. h[9] = (2 * h[8]) % w
    <3>1. 8 \in 0 .. 15 /\ 8 + 1 = 9
      BY SMT
    <3> QED BY <3>1, Zenon
  <2>2. 2 * (d * 256) = d * 512 /\ d * 256 \in Int
    BY <1>0, SMT
  <2>3. (2 * ((d * 256) % w)) % w = (2 * (d * 256)) % w
    <3> DEFINE a == d * 256
    <3>1. a \in Int
      BY <2>2
    <3> HIDE DEF a
    <3>2. (2 * (a % w)) % w = (2 * a) % w
      BY <3>1, DoubledOnce
    <3> QED BY <3>2 DEF a
  <2> QED BY <1>8, <2>1, <2>2, <2>3
<1>10. h[10] = (d * 1024) % w
  <2>1. h[10] = (2 * h[9]) % w
    <3>1. 9 \in 0 .. 15 /\ 9 + 1 = 10
      BY SMT
    <3> QED BY <3>1, Zenon
  <2>2. 2 * (d * 512) = d * 1024 /\ d * 512 \in Int
    BY <1>0, SMT
  <2>3. (2 * ((d * 512) % w)) % w = (2 * (d * 512)) % w
    <3> DEFINE a == d * 512
    <3>1. a \in Int
      BY <2>2
    <3> HIDE DEF a
    <3>2. (2 * (a % w)) % w = (2 * a) % w
      BY <3>1, DoubledOnce
    <3> QED BY <3>2 DEF a
  <2> QED BY <1>9, <2>1, <2>2, <2>3
<1>11. h[11] = (d * 2048) % w
  <2>1. h[11] = (2 * h[10]) % w
    <3>1. 10 \in 0 .. 15 /\ 10 + 1 = 11
      BY SMT
    <3> QED BY <3>1, Zenon
  <2>2. 2 * (d * 1024) = d * 2048 /\ d * 1024 \in Int
    BY <1>0, SMT
  <2>3. (2 * ((d * 1024) % w)) % w = (2 * (d * 1024)) % w
    <3> DEFINE a == d * 1024
    <3>1. a \in Int
      BY <2>2
    <3> HIDE DEF a
    <3>2. (2 * (a % w)) % w = (2 * a) % w
      BY <3>1, DoubledOnce
    <3> QED BY <3>2 DEF a
  <2> QED BY <1>10, <2>1, <2>2, <2>3
<1>12. h[12] = (d * 4096) % w
  <2>1. h[12] = (2 * h[11]) % w
    <3>1. 11 \in 0 .. 15 /\ 11 + 1 = 12
      BY SMT
    <3> QED BY <3>1, Zenon
  <2>2. 2 * (d * 2048) = d * 4096 /\ d * 2048 \in Int
    BY <1>0, SMT
  <2>3. (2 * ((d * 2048) % w)) % w = (2 * (d * 2048)) % w
    <3> DEFINE a == d * 2048
    <3>1. a \in Int
      BY <2>2
    <3> HIDE DEF a
    <3>2. (2 * (a % w)) % w = (2 * a) % w
      BY <3>1, DoubledOnce
    <3> QED BY <3>2 DEF a
  <2> QED BY <1>11, <2>1, <2>2, <2>3
<1>13. h[13] = (d * 8192) % w
  <2>1. h[13] = (2 * h[12]) % w
    <3>1. 12 \in 0 .. 15 /\ 12 + 1 = 13
      BY SMT
    <3> QED BY <3>1, Zenon
  <2>2. 2 * (d * 4096) = d * 8192 /\ d * 4096 \in Int
    BY <1>0, SMT
  <2>3. (2 * ((d * 4096) % w)) % w = (2 * (d * 4096)) % w
    <3> DEFINE a == d * 4096
    <3>1. a \in Int
      BY <2>2
    <3> HIDE DEF a
    <3>2. (2 * (a % w)) % w = (2 * a) % w
      BY <3>1, DoubledOnce
    <3> QED BY <3>2 DEF a
  <2> QED BY <1>12, <2>1, <2>2, <2>3
<1>14. h[14] = (d * 16384) % w
  <2>1. h[14] = (2 * h[13]) % w
    <3>1. 13 \in 0 .. 15 /\ 13 + 1 = 14
      BY SMT
    <3> QED BY <3>1, Zenon
  <2>2. 2 * (d * 8192) = d * 16384 /\ d * 8192 \in Int
    BY <1>0, SMT
  <2>3. (2 * ((d * 8192) % w)) % w = (2 * (d * 8192)) % w
    <3> DEFINE a == d * 8192
    <3>1. a \in Int
      BY <2>2
    <3> HIDE DEF a
    <3>2. (2 * (a % w)) % w = (2 * a) % w
      BY <3>1, DoubledOnce
    <3> QED BY <3>2 DEF a
  <2> QED BY <1>13, <2>1, <2>2, <2>3
<1>15. h[15] = (d * 32768) % w
  <2>1. h[15] = (2 * h[14]) % w
    <3>1. 14 \in 0 .. 15 /\ 14 + 1 = 15
      BY SMT
    <3> QED BY <3>1, Zenon
  <2>2. 2 * (d * 16384) = d * 32768 /\ d * 16384 \in Int
    BY <1>0, SMT
  <2>3. (2 * ((d * 16384) % w)) % w = (2 * (d * 16384)) % w
    <3> DEFINE a == d * 16384
    <3>1. a \in Int
      BY <2>2
    <3> HIDE DEF a
    <3>2. (2 * (a % w)) % w = (2 * a) % w
      BY <3>1, DoubledOnce
    <3> QED BY <3>2 DEF a
  <2> QED BY <1>14, <2>1, <2>2, <2>3
<1>16. h[16] = (d * 65536) % w
  <2>1. h[16] = (2 * h[15]) % w
    <3>1. 15 \in 0 .. 15 /\ 15 + 1 = 16
      BY SMT
    <3> QED BY <3>1, Zenon
  <2>2. 2 * (d * 32768) = d * 65536 /\ d * 32768 \in Int
    BY <1>0, SMT
  <2>3. (2 * ((d * 32768) % w)) % w = (2 * (d * 32768)) % w
    <3> DEFINE a == d * 32768
    <3>1. a \in Int
      BY <2>2
    <3> HIDE DEF a
    <3>2. (2 * (a % w)) % w = (2 * a) % w
      BY <3>1, DoubledOnce
    <3> QED BY <3>2 DEF a
  <2> QED BY <1>15, <2>1, <2>2, <2>3
<1>17. SUFFICES ASSUME NEW n \in 0 .. 16 PROVE h[n] = (d * 2^n) % w
  OBVIOUS
<1>18. CASE n = 0
  BY <1>0, <1>18, Powers
<1>19. CASE n = 1
  BY <1>1, <1>19, Powers
<1>20. CASE n = 2
  BY <1>2, <1>20, Powers
<1>21. CASE n = 3
  BY <1>3, <1>21, Powers
<1>22. CASE n = 4
  BY <1>4, <1>22, Powers
<1>23. CASE n = 5
  BY <1>5, <1>23, Powers
<1>24. CASE n = 6
  BY <1>6, <1>24, Powers
<1>25. CASE n = 7
  BY <1>7, <1>25, Powers
<1>26. CASE n = 8
  BY <1>8, <1>26, Powers
<1>27. CASE n = 9
  BY <1>9, <1>27, Powers
<1>28. CASE n = 10
  BY <1>10, <1>28, Powers
<1>29. CASE n = 11
  BY <1>11, <1>29, Powers
<1>30. CASE n = 12
  BY <1>12, <1>30, Powers
<1>31. CASE n = 13
  BY <1>13, <1>31, Powers
<1>32. CASE n = 14
  BY <1>14, <1>32, Powers
<1>33. CASE n = 15
  BY <1>15, <1>33, Powers
<1>34. CASE n = 16
  BY <1>16, <1>34, Powers
<1> QED BY <1>18, <1>19, <1>20, <1>21, <1>22, <1>23, <1>24, <1>25, <1>26, <1>27, <1>28, <1>29, <1>30, <1>31, <1>32, <1>33, <1>34

\* The bits of a set as numbers.
LEMMA AtNumbers ==
  ASSUME NEW S
  PROVE  /\ At(S, 0) \in Int /\ At(S, 1) \in Int /\ At(S, 2) \in Int /\ At(S, 3) \in Int
         /\ At(S, 4) \in Int /\ At(S, 5) \in Int /\ At(S, 6) \in Int /\ At(S, 7) \in Int
         /\ At(S, 8) \in Int /\ At(S, 9) \in Int /\ At(S, 10) \in Int /\ At(S, 11) \in Int
         /\ At(S, 12) \in Int /\ At(S, 13) \in Int /\ At(S, 14) \in Int /\ At(S, 15) \in Int
<1>1. \A i : At(S, i) \in Int
  BY AtType, SMT
<1> QED BY <1>1

\* A set of bits moved down by one place, without its lowest bit.
MovedDown(T, S) ==
    /\ \A i \in 0 .. 14 : i \in T <=> i + 1 \in S
    /\ 15 \notin T

LEMMA HalfValue ==
  ASSUME NEW S, NEW T, MovedDown(T, S)
  PROVE  Value(S) = At(S, 0) + 2 * Value(T)
<1>1. /\ At(T, 0) = At(S, 1) /\ At(T, 1) = At(S, 2) /\ At(T, 2) = At(S, 3)
      /\ At(T, 3) = At(S, 4) /\ At(T, 4) = At(S, 5) /\ At(T, 5) = At(S, 6)
      /\ At(T, 6) = At(S, 7) /\ At(T, 7) = At(S, 8)
  BY SMT DEF At, MovedDown
<1>2. /\ At(T, 8) = At(S, 9) /\ At(T, 9) = At(S, 10) /\ At(T, 10) = At(S, 11)
      /\ At(T, 11) = At(S, 12) /\ At(T, 12) = At(S, 13) /\ At(T, 13) = At(S, 14)
      /\ At(T, 14) = At(S, 15) /\ At(T, 15) = 0
  BY SMT DEF At, MovedDown
<1>3. Value(T) = At(S, 1) + 2 * At(S, 2) + 4 * At(S, 3) + 8 * At(S, 4)
          + 16 * At(S, 5) + 32 * At(S, 6) + 64 * At(S, 7) + 128 * At(S, 8)
          + 256 * At(S, 9) + 512 * At(S, 10) + 1024 * At(S, 11)
          + 2048 * At(S, 12) + 4096 * At(S, 13) + 8192 * At(S, 14)
          + 16384 * At(S, 15) + 32768 * 0
  BY ONLY <1>1, <1>2, ValueSum
<1> QED BY ONLY <1>3, AtNumbers, ValueSum, SMT

\* What the bits below the highest amount to.
LEMMA BelowTop ==
  ASSUME NEW S
  PROVE  /\ Value(S) = Value(S \ {15}) + 32768 * At(S, 15)
         /\ Value(S \ {15}) \in Int
         /\ 0 <= Value(S \ {15}) /\ Value(S \ {15}) <= 32767
<1> DEFINE R == S \ {15}
           U == {i \in 0 .. 15 : i - 1 \in R}
<1>1. /\ At(R, 0) = At(S, 0) /\ At(R, 1) = At(S, 1) /\ At(R, 2) = At(S, 2)
      /\ At(R, 3) = At(S, 3) /\ At(R, 4) = At(S, 4) /\ At(R, 5) = At(S, 5)
      /\ At(R, 6) = At(S, 6) /\ At(R, 7) = At(S, 7) /\ At(R, 8) = At(S, 8)
      /\ At(R, 9) = At(S, 9) /\ At(R, 10) = At(S, 10) /\ At(R, 11) = At(S, 11)
      /\ At(R, 12) = At(S, 12) /\ At(R, 13) = At(S, 13) /\ At(R, 14) = At(S, 14)
      /\ At(R, 15) = 0
  BY SMT DEF At
<1>2. MovedDown(R, U)
  BY SMT DEF MovedDown
<1> HIDE DEF R, U
<1> DEFINE n == At(S, 0) + 2 * At(S, 1) + 4 * At(S, 2) + 8 * At(S, 3) + 16 * At(S, 4)
                + 32 * At(S, 5) + 64 * At(S, 6) + 128 * At(S, 7) + 256 * At(S, 8)
                + 512 * At(S, 9) + 1024 * At(S, 10) + 2048 * At(S, 11)
                + 4096 * At(S, 12) + 8192 * At(S, 13) + 16384 * At(S, 14)
<1>3. Value(R) = n + 32768 * 0 /\ Value(S) = n + 32768 * At(S, 15) /\ n \in Int
  <2>1. Value(R) = n + 32768 * 0
    BY ONLY <1>1, ValueSum
  <2>2. Value(S) = n + 32768 * At(S, 15)
    BY ONLY ValueSum
  <2>3. n \in Int
    <3>1. /\ At(S, 0) \in Int /\ At(S, 1) \in Int /\ At(S, 2) \in Int /\ At(S, 3) \in Int
          /\ At(S, 4) \in Int /\ At(S, 5) \in Int /\ At(S, 6) \in Int /\ At(S, 7) \in Int
          /\ At(S, 8) \in Int /\ At(S, 9) \in Int /\ At(S, 10) \in Int /\ At(S, 11) \in Int
          /\ At(S, 12) \in Int /\ At(S, 13) \in Int /\ At(S, 14) \in Int
      BY AtNumbers
    <3> QED BY ONLY <3>1, SMT
  <2> QED BY <2>1, <2>2, <2>3
<1> HIDE DEF n
<1>4. Value(S) = Value(R) + 32768 * At(S, 15)
  BY ONLY <1>3
<1>5. Value(U) = At(U, 0) + 2 * Value(R)
  BY <1>2, HalfValue
<1>6. \A V : Value(V) \in Int /\ 0 <= Value(V) /\ Value(V) <= 65535
  <2> SUFFICES ASSUME NEW V
               PROVE  Value(V) \in Int /\ 0 <= Value(V) /\ Value(V) <= 65535
    OBVIOUS
  <2>1. Value(V) \in Word
    BY ValueType
  <2>2. Value(V) \in Int
    BY <2>1, WordFacts
  <2> QED BY <2>1, <2>2, InWord
<1>7. At(U, 0) \in Int /\ 0 <= At(U, 0)
  BY AtType, SMT
<1>8. Value(R) \in Int /\ 0 <= Value(R) /\ Value(R) <= 32767
  <2>1. /\ Value(R) \in Int /\ 0 <= Value(R)
        /\ Value(U) \in Int /\ Value(U) <= 65535
    BY <1>6
  <2> QED BY ONLY <1>5, <1>7, <2>1, SMT
<1> QED BY <1>4, <1>8 DEF R

LEMMA RightOnce ==
  ASSUME NEW S, NEW m \in {8, 16}, S \subseteq 0 .. m - 1
  PROVE  Value(Right(S, 1, m)) = Value(S) \div 2
<1> DEFINE T == Right(S, 1, m)
<1>1. MovedDown(T, S)
  BY SMT DEF Right, MovedDown
<1>2. Value(T) \in Int /\ Value(S) \in Int /\ At(S, 0) \in 0 .. 1
  BY ValueType, WordFacts, AtType
<1> HIDE DEF T
<1>3. Value(S) = At(S, 0) + 2 * Value(T)
  BY <1>1, HalfValue
<1>4. Value(T) = Value(S) \div 2
  BY <1>2, <1>3, SMT
<1> QED BY <1>4 DEF T

\* The highest bit of an operand is its sign.
LEMMA TopIsSign ==
  ASSUME NEW w \in Width, NEW S, S \subseteq 0 .. Size(w) - 1
  PROVE  /\ Size(w) - 1 \in S <=> Value(S) >= w \div 2
         /\ Value(S) \in 0 .. w - 1
<1>1. \A i : At(S, i) \in 0 .. 1
  BY AtType
<1>2. Value(S) \in 0 .. w - 1
  BY ValueFits
<1>3. CASE w = WORD
  <2>1. Size(w) - 1 = 15 /\ w \div 2 = 32768
    BY <1>3, SizeFacts, Sizes, SMT
  <2>2. Value(S) >= 32768 <=> At(S, 15) = 1
    <3>1. At(S, 15) = 0 \/ At(S, 15) = 1
      BY SMT DEF At
    <3> DEFINE n == Value(S \ {15})
    <3>2. Value(S) = n + 32768 * At(S, 15) /\ n \in Int /\ 0 <= n /\ n <= 32767
      BY BelowTop
    <3> HIDE DEF n
    <3> QED BY ONLY <3>1, <3>2, SMT
  <2>3. At(S, 15) = 1 <=> 15 \in S
    BY SMT DEF At
  <2> QED BY <1>2, <2>1, <2>2, <2>3
<1>4. CASE w = BYTE
  <2>1. Size(w) = 8 /\ Size(w) - 1 = 7 /\ w \div 2 = 128
    BY <1>4, SizeFacts, Sizes, SMT
  <2>2. \A i \in S : i \in 0 .. 7
    BY <2>1, SMT
  <2>3. /\ At(S, 8) = 0 /\ At(S, 9) = 0 /\ At(S, 10) = 0 /\ At(S, 11) = 0
        /\ At(S, 12) = 0 /\ At(S, 13) = 0 /\ At(S, 14) = 0 /\ At(S, 15) = 0
    BY ONLY <2>2, SMT DEF At
  <2>4. Value(S) >= 128 <=> At(S, 7) = 1
    BY ONLY <1>1, <2>3, ValueSum, SMT
  <2>5. At(S, 7) = 1 <=> 7 \in S
    BY SMT DEF At
  <2> QED BY <1>2, <2>1, <2>4, <2>5
<1> QED BY <1>3, <1>4 DEF Width

LEMMA SignedRightOnce ==
  ASSUME NEW w \in Width, NEW S, S \subseteq 0 .. Size(w) - 1
  PROVE  Signed(Value(RightSigned(S, 1, Size(w))), w) = Signed(Value(S), w) \div 2
<1> DEFINE T == RightSigned(S, 1, Size(w))
           R == Right(S, 1, Size(w))
           top == IF Size(w) - 1 \in S THEN 1 ELSE 0
<1>1. Size(w) \in {8, 16} /\ T \subseteq 0 .. Size(w) - 1
  BY SizeFacts DEF Width, RightSigned
<1>2. \A i : i \in T <=> i \in R \/ (i = Size(w) - 1 /\ Size(w) - 1 \in S)
  BY <1>1, SMT DEF Right, RightSigned
<1>3. Size(w) - 1 \notin R
  BY <1>1, SMT DEF Right
<1>4. Value(R) = Value(S) \div 2
  BY <1>1, RightOnce
<1>5. Size(w) - 1 \in T <=> Size(w) - 1 \in S
  BY <1>2, <1>3
<1>6. /\ Value(S) >= w \div 2 <=> Size(w) - 1 \in S
      /\ Value(T) >= w \div 2 <=> Size(w) - 1 \in S
  BY <1>1, <1>5, TopIsSign
<1> HIDE DEF T, R
<1>7. Value(T) = Value(R) + (w \div 2) * top
  <2>1. \A i : At(T, i) = At(R, i) + IF i = Size(w) - 1 THEN top ELSE 0
    BY <1>2, <1>3, SMT DEF At
  <2>2. top \in 0 .. 1 /\ \A i : At(R, i) \in 0 .. 1
    BY AtType
  <2> HIDE DEF top
  <2>3. CASE w = BYTE
    <3>1. Size(w) - 1 = 7 /\ w \div 2 = 128
      BY <2>3, SizeFacts, Sizes, SMT
    <3>2. At(T, 7) = At(R, 7) + top /\ \A i \in 0 .. 15 : i # 7 => At(T, i) = At(R, i)
      BY <2>1, <2>2, <3>1, SMT
    <3>3. Value(T) = Value(R) + 128 * top
      <4>1. /\ At(T, 0) = At(R, 0) /\ At(T, 1) = At(R, 1) /\ At(T, 2) = At(R, 2)
            /\ At(T, 3) = At(R, 3) /\ At(T, 4) = At(R, 4) /\ At(T, 5) = At(R, 5)
            /\ At(T, 6) = At(R, 6) /\ At(T, 8) = At(R, 8) /\ At(T, 9) = At(R, 9)
            /\ At(T, 10) = At(R, 10) /\ At(T, 11) = At(R, 11) /\ At(T, 12) = At(R, 12)
            /\ At(T, 13) = At(R, 13) /\ At(T, 14) = At(R, 14) /\ At(T, 15) = At(R, 15)
        BY ONLY <3>2, SMT
      <4>2. Value(T) = At(R, 0) + 2 * At(R, 1) + 4 * At(R, 2) + 8 * At(R, 3)
                       + 16 * At(R, 4) + 32 * At(R, 5) + 64 * At(R, 6) + 128 * (At(R, 7) + top)
                       + 256 * At(R, 8) + 512 * At(R, 9) + 1024 * At(R, 10) + 2048 * At(R, 11)
                       + 4096 * At(R, 12) + 8192 * At(R, 13) + 16384 * At(R, 14) + 32768 * At(R, 15)
        BY ONLY <3>2, <4>1, ValueSum
      <4>3. top \in Int
        BY <2>2
      <4> QED BY ONLY <4>2, <4>3, AtNumbers, ValueSum, SMT
    <3> QED BY <3>1, <3>3
  <2>4. CASE w = WORD
    <3>1. Size(w) - 1 = 15 /\ w \div 2 = 32768
      BY <2>4, SizeFacts, Sizes, SMT
    <3>2. At(T, 15) = At(R, 15) + top /\ \A i \in 0 .. 15 : i # 15 => At(T, i) = At(R, i)
      BY <2>1, <2>2, <3>1, SMT
    <3>3. Value(T) = Value(R) + 32768 * top
      <4>1. /\ At(T, 0) = At(R, 0) /\ At(T, 1) = At(R, 1) /\ At(T, 2) = At(R, 2)
            /\ At(T, 3) = At(R, 3) /\ At(T, 4) = At(R, 4) /\ At(T, 5) = At(R, 5)
            /\ At(T, 6) = At(R, 6) /\ At(T, 7) = At(R, 7) /\ At(T, 8) = At(R, 8)
            /\ At(T, 9) = At(R, 9) /\ At(T, 10) = At(R, 10) /\ At(T, 11) = At(R, 11)
            /\ At(T, 12) = At(R, 12) /\ At(T, 13) = At(R, 13) /\ At(T, 14) = At(R, 14)
        BY ONLY <3>2, SMT
      <4>2. Value(T) = At(R, 0) + 2 * At(R, 1) + 4 * At(R, 2) + 8 * At(R, 3)
                       + 16 * At(R, 4) + 32 * At(R, 5) + 64 * At(R, 6) + 128 * At(R, 7)
                       + 256 * At(R, 8) + 512 * At(R, 9) + 1024 * At(R, 10) + 2048 * At(R, 11)
                       + 4096 * At(R, 12) + 8192 * At(R, 13) + 16384 * At(R, 14) + 32768 * (At(R, 15) + top)
        BY ONLY <3>2, <4>1, ValueSum
      <4>3. top \in Int
        BY <2>2
      <4> QED BY ONLY <4>2, <4>3, AtNumbers, ValueSum, SMT
    <3> QED BY <3>1, <3>3
  <2> QED BY <2>3, <2>4 DEF Width
<1>8. /\ Signed(Value(S), w) = Value(S) - w * top
      /\ Signed(Value(T), w) = Value(T) - w * top
      /\ Value(S) \in Int /\ Value(T) \in Int /\ Value(R) \in Int
  <2>1. Value(S) \in Int /\ Value(T) \in Int /\ Value(R) \in Int /\ w \in Int
    <3>1. \A U : Value(U) \in Int
      BY ValueType, WordFacts, Zenon
    <3> QED BY <3>1, WidthFacts, SMT
  <2> QED BY <1>6, <2>1, SMT DEF Signed
<1>9. Signed(Value(T), w) = Signed(Value(S), w) \div 2
  <2>1. top \in 0 .. 1 /\ (w = 256 \/ w = 65536)
    BY Sizes DEF Width
  <2> HIDE DEF top
  <2> QED BY <1>4, <1>7, <1>8, <2>1, SMT
<1> QED BY <1>9 DEF T

LEMMA LeftOnce ==
  ASSUME NEW w \in Width, NEW S, S \subseteq 0 .. Size(w) - 1
  PROVE  Value(Left(S, 1, Size(w))) = (2 * Value(S)) % w
<1> DEFINE T == Left(S, 1, Size(w))
<1>1. /\ 0 \notin T
      /\ \A i \in 1 .. Size(w) - 1 : i \in T <=> i - 1 \in S
      /\ T \subseteq 0 .. Size(w) - 1
  <2>1. Size(w) \in Nat
    BY SizeType
  <2> QED BY <2>1, SMT DEF Left
<1>2. Value(T) \in 0 .. w - 1 /\ Value(T) \in Int /\ Value(S) \in Int
  BY <1>1, ValueFits, ValueType, WordFacts
<1> HIDE DEF T
<1>3. CASE w = WORD
  <2>1. Size(w) = 16
    BY <1>3, SizeFacts
  <2>2. /\ At(T, 0) = 0 /\ At(T, 1) = At(S, 0) /\ At(T, 2) = At(S, 1)
        /\ At(T, 3) = At(S, 2) /\ At(T, 4) = At(S, 3) /\ At(T, 5) = At(S, 4)
        /\ At(T, 6) = At(S, 5) /\ At(T, 7) = At(S, 6)
    BY ONLY <1>1, <2>1, SMT DEF At
  <2>3. /\ At(T, 8) = At(S, 7) /\ At(T, 9) = At(S, 8) /\ At(T, 10) = At(S, 9)
        /\ At(T, 11) = At(S, 10) /\ At(T, 12) = At(S, 11) /\ At(T, 13) = At(S, 12)
        /\ At(T, 14) = At(S, 13) /\ At(T, 15) = At(S, 14)
    BY ONLY <1>1, <2>1, SMT DEF At
  <2>4. Value(T) = 0 + 2 * At(S, 0) + 4 * At(S, 1) + 8 * At(S, 2) + 16 * At(S, 3)
            + 32 * At(S, 4) + 64 * At(S, 5) + 128 * At(S, 6) + 256 * At(S, 7)
            + 512 * At(S, 8) + 1024 * At(S, 9) + 2048 * At(S, 10)
            + 4096 * At(S, 11) + 8192 * At(S, 12) + 16384 * At(S, 13)
            + 32768 * At(S, 14)
    BY ONLY <2>2, <2>3, ValueSum
  <2>5. 2 * Value(S) = Value(T) + 65536 * At(S, 15)
    BY ONLY <2>4, AtNumbers, ValueSum, SMT
  <2>6. At(S, 15) \in 0 .. 1 /\ 0 <= Value(T) /\ Value(T) <= 65535
    BY <1>2, <1>3, AtType, WordRange
  <2>7. (2 * Value(S)) % 65536 = Value(T)
    BY ONLY <1>2, <2>5, <2>6, SMT
  <2> QED BY <1>3, <2>7, Sizes DEF T
<1>4. CASE w = BYTE
  <2>1. Size(w) = 8
    BY <1>4, SizeFacts
  <2>2. /\ At(T, 0) = 0 /\ At(T, 1) = At(S, 0) /\ At(T, 2) = At(S, 1)
        /\ At(T, 3) = At(S, 2) /\ At(T, 4) = At(S, 3) /\ At(T, 5) = At(S, 4)
        /\ At(T, 6) = At(S, 5) /\ At(T, 7) = At(S, 6)
    BY ONLY <1>1, <2>1, SMT DEF At
  <2>3. \A U : U \subseteq 0 .. 7 => /\ At(U, 8) = 0 /\ At(U, 9) = 0 /\ At(U, 10) = 0
                                     /\ At(U, 11) = 0 /\ At(U, 12) = 0 /\ At(U, 13) = 0
                                     /\ At(U, 14) = 0 /\ At(U, 15) = 0
    BY SMT DEF At
  <2>4. S \subseteq 0 .. 7 /\ T \subseteq 0 .. 7
    <3>1. Size(w) - 1 = 7
      BY <2>1
    <3> QED BY <1>1, <3>1
  <2>5. 2 * Value(S) = Value(T) + 256 * At(S, 7)
    <3>1. /\ At(S, 8) = 0 /\ At(S, 9) = 0 /\ At(S, 10) = 0 /\ At(S, 11) = 0
          /\ At(S, 12) = 0 /\ At(S, 13) = 0 /\ At(S, 14) = 0 /\ At(S, 15) = 0
          /\ At(T, 8) = 0 /\ At(T, 9) = 0 /\ At(T, 10) = 0 /\ At(T, 11) = 0
          /\ At(T, 12) = 0 /\ At(T, 13) = 0 /\ At(T, 14) = 0 /\ At(T, 15) = 0
      BY <2>3, <2>4, Zenon
    <3>2. Value(T) = 0 + 2 * At(S, 0) + 4 * At(S, 1) + 8 * At(S, 2) + 16 * At(S, 3)
              + 32 * At(S, 4) + 64 * At(S, 5) + 128 * At(S, 6) + 256 * 0 + 512 * 0
              + 1024 * 0 + 2048 * 0 + 4096 * 0 + 8192 * 0 + 16384 * 0 + 32768 * 0
      BY ONLY <2>2, <3>1, ValueSum
    <3>3. Value(S) = At(S, 0) + 2 * At(S, 1) + 4 * At(S, 2) + 8 * At(S, 3)
              + 16 * At(S, 4) + 32 * At(S, 5) + 64 * At(S, 6) + 128 * At(S, 7) + 256 * 0
              + 512 * 0 + 1024 * 0 + 2048 * 0 + 4096 * 0 + 8192 * 0 + 16384 * 0 + 32768 * 0
      BY ONLY <3>1, ValueSum
    <3> QED BY ONLY <3>2, <3>3, AtNumbers, SMT
  <2>6. At(S, 7) \in 0 .. 1 /\ 0 <= Value(T) /\ Value(T) <= 255
    BY <1>2, <1>4, AtType, InWord
  <2>7. (2 * Value(S)) % 256 = Value(T)
    BY ONLY <1>2, <2>5, <2>6, SMT
  <2> QED BY <1>4, <2>7, Sizes DEF T
<1> QED BY <1>3, <1>4 DEF Width

\* A shift by n places is n shifts by one; beyond the operand nothing changes.
LEMMA OneMore ==
  ASSUME NEW m \in {8, 16}, NEW S, S \subseteq 0 .. m - 1, NEW n \in Nat
  PROVE  /\ Left(S, n + 1, m) = Left(Left(S, n, m), 1, m)
         /\ Right(S, n + 1, m) = Right(Right(S, n, m), 1, m)
         /\ RightSigned(S, n + 1, m) = RightSigned(RightSigned(S, n, m), 1, m)
         /\ Left(S, n, m) \subseteq 0 .. m - 1
         /\ Right(S, n, m) \subseteq 0 .. m - 1
         /\ RightSigned(S, n, m) \subseteq 0 .. m - 1
<1>1. /\ Left(S, n, m) \subseteq 0 .. m - 1
      /\ Right(S, n, m) \subseteq 0 .. m - 1
      /\ RightSigned(S, n, m) \subseteq 0 .. m - 1
  BY DEF Left, Right, RightSigned
<1>2. Left(S, n + 1, m) = Left(Left(S, n, m), 1, m)
  BY SMT DEF Left
<1>3. Right(S, n + 1, m) = Right(Right(S, n, m), 1, m)
  BY SMT DEF Right
<1>4. RightSigned(S, n + 1, m) = RightSigned(RightSigned(S, n, m), 1, m)
  BY SMT DEF RightSigned
<1> QED BY <1>1, <1>2, <1>3, <1>4

LEMMA NoneLeft ==
  ASSUME NEW m \in {8, 16}, NEW S, S \subseteq 0 .. m - 1
  PROVE  /\ Left(S, 0, m) = S /\ Right(S, 0, m) = S /\ RightSigned(S, 0, m) = S
<1>1. \A i \in 0 .. m - 1 : i - 0 = i /\ i + 0 = i /\ ~(i >= m)
  BY SMT
<1>2. Left(S, 0, m) = S
  BY <1>1, Zenon DEF Left
<1>3. Right(S, 0, m) = S
  BY <1>1, Zenon DEF Right
<1>4. RightSigned(S, 0, m) = S
  BY <1>1, Zenon DEF RightSigned
<1> QED BY <1>2, <1>3, <1>4

\* Bits moved by sixteen places or more are all gone, or all the sign.
FarOut(S, n, m) ==
    /\ Left(S, n, m) = Left(S, 16, m)
    /\ Right(S, n, m) = Right(S, 16, m)
    /\ RightSigned(S, n, m) = RightSigned(S, 16, m)

LEMMA AllOut ==
  ASSUME NEW m \in {8, 16}, NEW S, S \subseteq 0 .. m - 1, NEW n \in Nat, n >= 16
  PROVE  FarOut(S, n, m)
<1>1. \A i \in 0 .. m - 1 : /\ i - n \notin S /\ i - 16 \notin S
                            /\ i + n \notin S /\ i + 16 \notin S
                            /\ i + n >= m /\ i + 16 >= m
  BY SMT
<1>2. Left(S, n, m) = Left(S, 16, m)
  BY <1>1, Zenon DEF Left
<1>3. Right(S, n, m) = Right(S, 16, m)
  BY <1>1, Zenon DEF Right
<1>4. RightSigned(S, n, m) = RightSigned(S, 16, m)
  BY <1>1, Zenon DEF RightSigned
<1> QED BY <1>2, <1>3, <1>4 DEF FarOut

\* A shift by n places does what one by k places does, k at most 16.
Counted(n, k) == k = IF n < 16 THEN n ELSE 16

LEMMA ShiftedBy ==
  ASSUME NEW w \in Width, NEW d \in 0 .. w - 1, NEW n \in Nat, NEW k \in 0 .. 16,
         Counted(n, k)
  PROVE  /\ Value(Left(Bits(d), n, Size(w))) = (d * 2^k) % w
         /\ Value(Right(Bits(d), n, Size(w))) = d \div 2^k
         /\ Signed(Value(RightSigned(Bits(d), n, Size(w))), w) = Signed(d, w) \div 2^k
<1> DEFINE B == Bits(d)
           m == Size(w)
           l == [j \in 0 .. 16 |-> Value(Left(B, j, m))]
           r == [j \in 0 .. 16 |-> Value(Right(B, j, m))]
           s == [j \in 0 .. 16 |-> Signed(Value(RightSigned(B, j, m)), w)]
<1>1. /\ m \in {8, 16} /\ B \subseteq 0 .. m - 1
      /\ d \in Word /\ d \in Int /\ Value(B) = d /\ Signed(d, w) \in Int
  <2>1. d \in Word /\ m \in {8, 16} /\ B \subseteq 0 .. m - 1
    BY BitsFit, WidthFacts
  <2>2. d \in Int
    BY <2>1, WordFacts
  <2> QED BY <2>1, <2>2, ValueOfBits, SignedType
<1> HIDE DEF B, m
<1>2. /\ Left(B, n, m) = Left(B, k, m) /\ Right(B, n, m) = Right(B, k, m)
      /\ RightSigned(B, n, m) = RightSigned(B, k, m)
  <2>1. CASE n < 16
    BY <2>1 DEF Counted
  <2>2. CASE n >= 16
    <3>1. k = 16
      BY <2>2 DEF Counted
    <3>2. FarOut(B, n, m)
      BY <1>1, <2>2, AllOut
    <3> QED BY <3>1, <3>2, Zenon DEF FarOut
  <2> QED BY <2>1, <2>2
<1>3. 0 \in 0 .. 16 /\ \A j \in 0 .. 15 : j \in Nat /\ j \in 0 .. 16 /\ j + 1 \in 0 .. 16
  BY SMT
<1>4. Value(Left(B, k, m)) = (d * 2^k) % w
  <2>1. l[0] = d
    BY <1>1, <1>3, NoneLeft
  <2>2. \A j \in 0 .. 15 : l[j + 1] = (2 * l[j]) % w
    <3> SUFFICES ASSUME NEW j \in 0 .. 15 PROVE l[j + 1] = (2 * l[j]) % w
      OBVIOUS
    <3>1. l[j + 1] = Value(Left(B, j + 1, m)) /\ l[j] = Value(Left(B, j, m))
      BY <1>3
    <3>2. /\ Left(B, j + 1, m) = Left(Left(B, j, m), 1, m)
          /\ Left(B, j, m) \subseteq 0 .. m - 1
      BY <1>1, <1>3, OneMore
    <3>3. Value(Left(Left(B, j, m), 1, m)) = (2 * Value(Left(B, j, m))) % w
      BY <3>2, LeftOnce DEF m
    <3> QED BY <3>1, <3>2, <3>3, Zenon
  <2> HIDE DEF l
  <2>3. l[k] = (d * 2^k) % w
    BY <2>1, <2>2, DoubledOften
  <2> QED BY <2>3 DEF l
<1>5. Value(Right(B, k, m)) = d \div 2^k
  <2>1. r[0] = d
    BY <1>1, <1>3, NoneLeft
  <2>2. \A j \in 0 .. 15 : r[j + 1] = r[j] \div 2
    <3> SUFFICES ASSUME NEW j \in 0 .. 15 PROVE r[j + 1] = r[j] \div 2
      OBVIOUS
    <3>1. r[j + 1] = Value(Right(B, j + 1, m)) /\ r[j] = Value(Right(B, j, m))
      BY <1>3
    <3>2. /\ Right(B, j + 1, m) = Right(Right(B, j, m), 1, m)
          /\ Right(B, j, m) \subseteq 0 .. m - 1
      BY <1>1, <1>3, OneMore
    <3>3. Value(Right(Right(B, j, m), 1, m)) = Value(Right(B, j, m)) \div 2
      BY <1>1, <3>2, RightOnce
    <3> QED BY <3>1, <3>2, <3>3, Zenon
  <2> HIDE DEF r
  <2>3. r[k] = d \div 2^k
    BY <1>1, <2>1, <2>2, HalvedOften
  <2> QED BY <2>3 DEF r
<1>6. Signed(Value(RightSigned(B, k, m)), w) = Signed(d, w) \div 2^k
  <2>1. s[0] = Signed(d, w)
    BY <1>1, <1>3, NoneLeft
  <2>2. \A j \in 0 .. 15 : s[j + 1] = s[j] \div 2
    <3> SUFFICES ASSUME NEW j \in 0 .. 15 PROVE s[j + 1] = s[j] \div 2
      OBVIOUS
    <3>1. /\ s[j + 1] = Signed(Value(RightSigned(B, j + 1, m)), w)
          /\ s[j] = Signed(Value(RightSigned(B, j, m)), w)
      BY <1>3
    <3>2. /\ RightSigned(B, j + 1, m) = RightSigned(RightSigned(B, j, m), 1, m)
          /\ RightSigned(B, j, m) \subseteq 0 .. m - 1
      BY <1>1, <1>3, OneMore
    <3>3. Signed(Value(RightSigned(RightSigned(B, j, m), 1, m)), w)
             = Signed(Value(RightSigned(B, j, m)), w) \div 2
      BY <3>2, SignedRightOnce DEF m
    <3> QED BY <3>1, <3>2, <3>3, Zenon
  <2> DEFINE e == Signed(d, w)
  <2> HIDE DEF s, e
  <2>3. s[k] = e \div 2^k
    <3>1. e \in Int /\ s[0] = e
      BY <1>1, <2>1 DEF e
    <3> QED BY <2>2, <3>1, HalvedOften
  <2> QED BY <2>3 DEF s, e
<1> QED BY <1>2, <1>4, <1>5, <1>6 DEF B, m

\* A power of two divides the size of an operand or is a multiple of it.
LEMMA PowerOrMultiple ==
  ASSUME NEW w \in Width, NEW k \in 0 .. 16
  PROVE  /\ 2^k \in Nat /\ 2^k > 0
         /\ 2^k < w => w = 2^k * (w \div 2^k) /\ w \div 2^k \in Nat /\ w \div 2^k > 0
         /\ 2^k >= w => 2^k = w * (2^k \div w) /\ 2^k \div w \in Nat
<1> DEFINE p == 2^k
<1>1. \/ p = 1 \/ p = 2 \/ p = 4 \/ p = 8 \/ p = 16 \/ p = 32 \/ p = 64
      \/ p = 128 \/ p = 256 \/ p = 512 \/ p = 1024 \/ p = 2048
      \/ p = 4096 \/ p = 8192 \/ p = 16384 \/ p = 32768 \/ p = 65536
  <2>1. \/ k = 0 \/ k = 1 \/ k = 2 \/ k = 3 \/ k = 4 \/ k = 5 \/ k = 6 \/ k = 7
        \/ k = 8 \/ k = 9 \/ k = 10 \/ k = 11 \/ k = 12 \/ k = 13 \/ k = 14
        \/ k = 15 \/ k = 16
    BY SMT
  <2>2. CASE k = 0
    BY <2>2, Powers
  <2>3. CASE k = 1
    BY <2>3, Powers
  <2>4. CASE k = 2
    BY <2>4, Powers
  <2>5. CASE k = 3
    BY <2>5, Powers
  <2>6. CASE k = 4
    BY <2>6, Powers
  <2>7. CASE k = 5
    BY <2>7, Powers
  <2>8. CASE k = 6
    BY <2>8, Powers
  <2>9. CASE k = 7
    BY <2>9, Powers
  <2>10. CASE k = 8
    BY <2>10, Powers
  <2>11. CASE k = 9
    BY <2>11, Powers
  <2>12. CASE k = 10
    BY <2>12, Powers
  <2>13. CASE k = 11
    BY <2>13, Powers
  <2>14. CASE k = 12
    BY <2>14, Powers
  <2>15. CASE k = 13
    BY <2>15, Powers
  <2>16. CASE k = 14
    BY <2>16, Powers
  <2>17. CASE k = 15
    BY <2>17, Powers
  <2>18. CASE k = 16
    BY <2>18, Powers
  <2> QED BY <2>1, <2>2, <2>3, <2>4, <2>5, <2>6, <2>7, <2>8, <2>9, <2>10, <2>11, <2>12, <2>13, <2>14, <2>15, <2>16, <2>17, <2>18
<1>2. w = 256 \/ w = 65536
  BY Sizes DEF Width
<1> HIDE DEF p
<1>3. p \in Nat /\ p > 0
  BY <1>1, SMT
<1>4. p < w => w = p * (w \div p) /\ w \div p \in Nat /\ w \div p > 0
  BY <1>1, <1>2, SMT
<1>5. p >= w => p = w * (p \div w) /\ p \div w \in Nat
  BY <1>1, <1>2, SMT
<1> QED BY <1>3, <1>4, <1>5 DEF p

LEMMA ProductCut ==
  ASSUME NEW w \in Width, NEW d \in Int, NEW k \in 0 .. 16
  PROVE  (d * 2^k) % w = IF 2^k >= w THEN 0 ELSE (d % (w \div 2^k)) * 2^k
<1> DEFINE p == 2^k
           q == w \div p
           t == p \div w
<1>1. /\ p \in Nat /\ p > 0
      /\ p < w => w = p * q /\ q \in Nat /\ q > 0
      /\ p >= w => p = w * t /\ t \in Nat
  BY PowerOrMultiple
<1>2. w \in Nat /\ w > 0
  BY WidthFacts
<1> HIDE DEF p, q, t
<1>3. CASE p >= w
  <2>1. d * p = w * (d * t) + 0 /\ d * t \in Int
    BY <1>1, <1>2, <1>3, SMT
  <2>2. (w * (d * t) + 0) % w = 0
    BY <1>2, <2>1, ModUnique
  <2> QED BY <1>3, <2>1, <2>2 DEF p
<1>4. CASE p < w
  <2> DEFINE e == d \div q
             y == d % q
  <2>1. e \in Int /\ y \in Int /\ 0 <= y /\ y <= q - 1 /\ d = q * e + y
    BY <1>1, <1>4, SMT
  <2> HIDE DEF e, y
  <2>2. d * p = w * e + y * p
    BY <1>1, <1>4, <2>1, SMT
  <2>3. y * p \in Int /\ 0 <= y * p /\ y * p < w
    <3>1. y * p <= (q - 1) * p /\ 0 <= y * p /\ y * p \in Int
      BY <1>1, <1>4, <2>1, SMT
    <3>2. (q - 1) * p = w - p
      BY <1>1, <1>4, SMT
    <3> QED BY <1>1, <1>2, <1>4, <3>1, <3>2, SMT
  <2>4. (w * e + y * p) % w = y * p
    BY <1>2, <2>1, <2>3, ModUnique
  <2>5. ~(p >= w)
    BY <1>1, <1>2, <1>4
  <2> QED BY <2>2, <2>4, <2>5 DEF p, q, y
<1> QED BY <1>1, <1>2, <1>3, <1>4

\* A number is negative when its highest bit is set.
LEMMA Negative ==
  ASSUME NEW w \in Width, NEW v \in 0 .. w - 1
  PROVE  Sign(v, w) <=> Signed(v, w) < 0
<1>1. w \in Int /\ v \in Int /\ 0 <= v /\ v < w
  BY WidthFacts, SMT
<1>2. Sign(v, w) <=> v >= w \div 2
  BY DEF Sign
<1>3. Signed(v, w) = IF v >= w \div 2 THEN v - w ELSE v
  BY DEF Signed
<1> QED BY <1>1, <1>2, <1>3, SMT

\* What a shift leaves in the destination, and what a jump finds in the flags.
ShiftLeft(src, S, of) ==
  /\ last'.w = w0 /\ last'.src = src /\ Dst(last') = dst0
  /\ ax' % w0 = Value(S)
  /\ src % BYTE # 0 =>
         /\ ~Taken("B", flags')
         /\ Taken("E", flags') <=> Value(S) = 0
         /\ Taken("S", flags') <=> Signed(Value(S), w0) < 0
         /\ src % 32 # 1 => (Taken("L", flags') <=> Signed(Value(S), w0) < 0)
         /\ src % 32 = 1 => (Taken("O", flags') <=> of)

LEMMA ShiftLeaves ==
  ASSUME TypeOK, NEW op, NEW src \in Source(op), NEW of, NEW S,
         S \subseteq 0 .. Size(w0) - 1, Shift(src, S, of),
         src % 32 = 0 => Value(S) = dst0
  PROVE  ShiftLeft(src, S, of)
<1>1. /\ w0 \in Width /\ src \in Int /\ dst0 = ax % w0 /\ ax \in Word
  BY Frame DEF dst0, TypeOK
<1>2. Value(S) \in 0 .. w0 - 1
  BY <1>1, ValueFits
<1>3. last'.w = w0 /\ last'.src = src /\ Dst(last') = dst0
  BY Recorded DEF Shift
<1>4. ax' % w0 = Value(S)
  <2>1. CASE src % BYTE = 0
    <3>1. src % 32 = 0
      BY <1>1, <2>1, Sizes, SMT
    <3>2. ax' = ax
      BY <2>1 DEF Shift
    <3> QED BY <1>1, <3>1, <3>2
  <2>2. CASE src % BYTE # 0
    <3>1. ax' = ax - (ax % w0) + Value(S)
      BY <1>1, <2>2 DEF Shift, Put
    <3> QED BY <1>1, <1>2, <3>1, PutReads
  <2> QED BY <2>1, <2>2
<1>5. ASSUME src % BYTE # 0
      PROVE  /\ ~Taken("B", flags')
             /\ Taken("E", flags') <=> Value(S) = 0
             /\ Taken("S", flags') <=> Signed(Value(S), w0) < 0
             /\ src % 32 # 1 => (Taken("L", flags') <=> Signed(Value(S), w0) < 0)
             /\ src % 32 = 1 => (Taken("O", flags') <=> of)
  <2>1. flags' = Shown(Value(S), w0, FALSE, flags.AF, src % 32 = 1 /\ of)
    BY <1>5 DEF Shift
  <2>2. /\ flags'.ZF = (Value(S) = 0) /\ flags'.SF = Sign(Value(S), w0)
        /\ flags'.OF = (src % 32 = 1 /\ of) /\ flags'.CF = FALSE
    BY <2>1 DEF Shown
  <2>3. src % 32 # 1 => flags'.OF = FALSE
    BY <2>2
  <2>4. Sign(Value(S), w0) <=> Signed(Value(S), w0) < 0
    BY <1>1, <1>2, Negative
  <2>5. Sign(Value(S), w0) \in BOOLEAN
    BY SMT DEF Sign
  <2>6. /\ Taken("E", flags') <=> flags'.ZF
        /\ Taken("S", flags') <=> flags'.SF
        /\ Taken("L", flags') <=> flags'.SF # flags'.OF
        /\ Taken("B", flags') <=> flags'.CF
        /\ Taken("O", flags') <=> flags'.OF
    BY TakenCases
  <2>7. src % 32 # 1 => (flags'.SF # flags'.OF <=> Sign(Value(S), w0))
    <3> DEFINE sign == Sign(Value(S), w0)
    <3>1. sign \in BOOLEAN /\ flags'.SF = sign
      BY <2>2, <2>5
    <3>2. (sign # FALSE) <=> sign
      BY <3>1, Zenon
    <3> HIDE DEF sign
    <3>3. src % 32 # 1 => (flags'.SF # flags'.OF <=> sign)
      BY <2>3, <3>1, <3>2, Zenon
    <3> QED BY <3>3, Zenon DEF sign
  <2> QED BY <2>2, <2>4, <2>6, <2>7
<1> QED BY <1>3, <1>4, <1>5 DEF ShiftLeft

\* Shifted by no place the operand stays.
LEMMA Unmoved ==
  ASSUME NEW w \in Width, NEW d \in 0 .. w - 1
  PROVE  /\ Value(Left(Bits(d), 0, Size(w))) = d
         /\ Value(Right(Bits(d), 0, Size(w))) = d
         /\ Value(RightSigned(Bits(d), 0, Size(w))) = d
<1>1. Size(w) \in {8, 16} /\ Bits(d) \subseteq 0 .. Size(w) - 1
  BY BitsFit
<1>2. d \in Word /\ 0 \in Nat
  BY WidthFacts
<1>3. Value(Bits(d)) = d
  BY <1>2, ValueOfBits
<1>4. /\ Left(Bits(d), 0, Size(w)) = Bits(d) /\ Right(Bits(d), 0, Size(w)) = Bits(d)
      /\ RightSigned(Bits(d), 0, Size(w)) = Bits(d)
  BY <1>1, <1>2, NoneLeft
<1> QED BY <1>3, <1>4

\* The places a count moves an operand by, 16 standing for all above.
Capped(n) == IF n % 32 < 16 THEN n % 32 ELSE 16

LEMMA ShiftedAll ==
  ASSUME NEW w \in Width, NEW d \in 0 .. w - 1, NEW src,
         src % 32 \in Nat, Capped(src) \in 0 .. 16, Counted(src % 32, Capped(src))
  PROVE  /\ Value(Left(Bits(d), src % 32, Size(w))) = (d * 2^Capped(src)) % w
         /\ Value(Right(Bits(d), src % 32, Size(w))) = d \div 2^Capped(src)
         /\ Signed(Value(RightSigned(Bits(d), src % 32, Size(w))), w)
               = Signed(d, w) \div 2^Capped(src)
<1> DEFINE n == src % 32
           k == Capped(src)
<1>1. n \in Nat /\ k \in 0 .. 16 /\ Counted(n, k)
  OBVIOUS
<1> HIDE DEF n, k
<1>2. /\ Value(Left(Bits(d), n, Size(w))) = (d * 2^k) % w
      /\ Value(Right(Bits(d), n, Size(w))) = d \div 2^k
      /\ Signed(Value(RightSigned(Bits(d), n, Size(w))), w) = Signed(d, w) \div 2^k
  BY ONLY <1>1, w \in Width, d \in 0 .. w - 1, ShiftedBy
<1> QED BY <1>2 DEF n, k

-------------------------------------------------------------------------------
(* The loops of shifts and rotations *)

\* The least element of a set of natural numbers, and induction for sets.
LEMMA Least ==
  ASSUME NEW T \in SUBSET Nat, T # {}
  PROVE  \E x \in T : \A y \in T : x <= y
<1> DEFINE R == {p \in Nat \X Nat : p[1] < p[2]}
<1>1. IsWellFoundedOn(R, Nat)
  BY NatLessThanWellFounded DEF OpToRel
<1> HIDE DEF R
<1>2. PICK x \in T : \A y \in T : <<y, x>> \notin R
  BY <1>1, WFMin
<1>3. ASSUME NEW y \in T
      PROVE  x <= y
  <2>1. x \in Nat /\ y \in Nat /\ <<y, x>> \notin R
    BY <1>2
  <2>2. ~(y < x)
    BY <2>1 DEF R
  <2> QED BY <2>1, <2>2
<1> QED BY <1>3

LEMMA SetInduction ==
  ASSUME NEW T, 0 \in T, \A n \in Nat : n \in T => n + 1 \in T
  PROVE  Nat \subseteq T
<1> SUFFICES ASSUME Nat \ T # {} PROVE FALSE
  OBVIOUS
<1>1. PICK x \in Nat \ T : \A y \in Nat \ T : x <= y
  BY Least
<1>2. x - 1 \in Nat /\ x - 1 \notin Nat \ T
  BY <1>1
<1> QED BY <1>1, <1>2

\* The loop's function is the one that satisfies its equation.
Runs(f, op, w, s) ==
    f = [i \in Nat |-> IF i = 0 THEN s ELSE Round(op, w, f[i - 1])]

LEMMA LoopRuns ==
  ASSUME NEW op, NEW w, NEW s, NEW g, Runs(g, op, w, s)
  PROVE  Runs(Loop(op, w, s), op, w, s)
<1> DEFINE L == CHOOSE f : Runs(f, op, w, s)
<1>1. Runs(L, op, w, s)
  <2> HIDE DEF Runs
  <2> QED BY Zenon
<1>2. L = Loop(op, w, s)
  BY DEF Loop, Runs
<1> HIDE DEF L
<1> QED BY <1>1, <1>2

LEMMA SameRuns ==
  ASSUME NEW op, NEW w, NEW s, NEW g, Runs(g, op, w, s)
  PROVE  \A n \in Nat : Loop(op, w, s)[n] = g[n]
<1> DEFINE f == Loop(op, w, s)
           T == {n \in Nat : f[n] = g[n]}
<1>1. Runs(f, op, w, s)
  BY LoopRuns
<1>2. ASSUME NEW h, Runs(h, op, w, s)
      PROVE  h[0] = s /\ \A n \in Nat : h[n + 1] = Round(op, w, h[n])
  <2>1. h = [i \in Nat |-> IF i = 0 THEN s ELSE Round(op, w, h[i - 1])]
    BY <1>2 DEF Runs
  <2>2. h[0] = s
    BY <2>1
  <2>3. ASSUME NEW n \in Nat PROVE h[n + 1] = Round(op, w, h[n])
    <3>1. n + 1 \in Nat /\ n + 1 # 0 /\ (n + 1) - 1 = n
      OBVIOUS
    <3>2. h[n + 1] = Round(op, w, h[(n + 1) - 1])
      BY <2>1, <3>1, Zenon
    <3> QED BY <3>1, <3>2
  <2> QED BY <2>2, <2>3
<1>3. /\ f[0] = s /\ g[0] = s
      /\ \A n \in Nat : f[n + 1] = Round(op, w, f[n]) /\ g[n + 1] = Round(op, w, g[n])
  BY <1>1, <1>2
<1> HIDE DEF f
<1>4. 0 \in T
  BY <1>3
<1>5. \A n \in Nat : n \in T => n + 1 \in T
  BY <1>3
<1>6. Nat \subseteq T
  BY <1>4, <1>5, SetInduction
<1> QED BY <1>6 DEF f

\* The lowest and the highest bit of an operand.
LEMMA LowestBit ==
  ASSUME NEW S, NEW m \in {8, 16}, S \subseteq 0 .. m - 1
  PROVE  Value(S) % 2 = 1 <=> 0 \in S
<1>1. MovedDown(Right(S, 1, m), S)
  <2>1. CASE m = 8
    BY <2>1, SMT DEF MovedDown, Right
  <2>2. CASE m = 16
    BY <2>2, SMT DEF MovedDown, Right
  <2> QED BY <2>1, <2>2
<1> DEFINE T == Right(S, 1, m)
<1>2. Value(S) = At(S, 0) + 2 * Value(T)
  BY <1>1, HalfValue
<1>3. Value(T) \in Int
  BY ValueType, WordFacts
<1>4. At(S, 0) = IF 0 \in S THEN 1 ELSE 0
  BY DEF At
<1> HIDE DEF T
<1>5. ASSUME 0 \in S PROVE Value(S) % 2 = 1
  <2>1. Value(S) = 2 * Value(T) + 1
    BY <1>2, <1>3, <1>4, <1>5
  <2> QED BY <1>3, <2>1, SMT
<1>6. ASSUME 0 \notin S PROVE Value(S) % 2 = 0
  <2>1. Value(S) = 2 * Value(T)
    BY <1>2, <1>3, <1>4, <1>6
  <2> QED BY <1>3, <2>1, SMT
<1> QED BY <1>5, <1>6

\* The set of bits S and the bit CF as what a loop works on.
Kept(S, cf) == [v |-> Value(S), cf |-> cf]

LEMMA KeptBits ==
  ASSUME NEW w \in Width, NEW S, S \subseteq 0 .. Size(w) - 1
  PROVE  /\ Size(w) \in {8, 16}
         /\ Value(S) \in 0 .. w - 1 /\ Value(S) \in Int
         /\ Value(S) >= w \div 2 <=> Size(w) - 1 \in S
         /\ Value(S) % 2 = 1 <=> 0 \in S
         /\ Bits(Value(S)) = S
<1>1. Size(w) \in {8, 16}
  BY SizeFacts DEF Width
<1>2. /\ Value(S) \in 0 .. w - 1
      /\ Value(S) >= w \div 2 <=> Size(w) - 1 \in S
  BY TopIsSign
<1>3. Value(S) \in Int
  BY ValueType, WordFacts
<1>4. Value(S) % 2 = 1 <=> 0 \in S
  BY <1>1, LowestBit
<1>5. Bits(Value(S)) = S
  <2>1. S \subseteq 0 .. 15
    BY <1>1, SMT
  <2> QED BY <2>1, BitsOfValue
<1> QED BY <1>1, <1>2, <1>3, <1>4, <1>5

\* A round of each loop moves the set of bits by one place.
LEMMA ShiftRound ==
  ASSUME NEW w \in Width, NEW S, S \subseteq 0 .. Size(w) - 1, NEW cf
  PROVE  /\ Round("SHL", w, Kept(S, cf)) = Kept(Left(S, 1, Size(w)), Size(w) - 1 \in S)
         /\ Round("SHR", w, Kept(S, cf)) = Kept(Right(S, 1, Size(w)), 0 \in S)
         /\ Round("SAR", w, Kept(S, cf)) = Kept(RightSigned(S, 1, Size(w)), 0 \in S)
<1> DEFINE x == Value(S)
<1>1. /\ Size(w) \in {8, 16} /\ x \in 0 .. w - 1 /\ x \in Int
      /\ x >= w \div 2 <=> Size(w) - 1 \in S
      /\ x % 2 = 1 <=> 0 \in S
  BY KeptBits
<1>2. /\ Value(Left(S, 1, Size(w))) = (2 * x) % w
      /\ Value(Right(S, 1, Size(w))) = x \div 2
      /\ Signed(Value(RightSigned(S, 1, Size(w))), w) = Signed(x, w) \div 2
  BY <1>1, LeftOnce, RightOnce, SignedRightOnce
<1>3. Value(RightSigned(S, 1, Size(w)))
        = (x \div 2) + (IF x >= w \div 2 THEN w \div 2 ELSE 0)
  <2> DEFINE y == Value(RightSigned(S, 1, Size(w)))
  <2>1. y \in 0 .. w - 1 /\ y \in Int
    <3>1. RightSigned(S, 1, Size(w)) \subseteq 0 .. Size(w) - 1
      BY DEF RightSigned
    <3> QED BY <3>1, KeptBits
  <2>2. PICK h \in Nat : h > 0 /\ w = 2 * h
    BY Halves
  <2>3. Signed(y, w) = Signed(x, w) \div 2
    BY <1>2
  <2>4. w \div 2 = h
    BY <2>2, SMT
  <2> HIDE DEF x, y
  <2>5. Signed(y, w) = IF y >= h THEN y - w ELSE y
    BY <2>4 DEF Signed
  <2>6. Signed(x, w) = IF x >= h THEN x - w ELSE x
    BY <2>4 DEF Signed
  <2>7. CASE x >= h
    <3>1. (x - w) \div 2 = (x \div 2) - h
      BY <1>1, <2>2, SMT
    <3>2. (IF y >= h THEN y - w ELSE y) = (x \div 2) - h
      BY <2>3, <2>5, <2>6, <2>7, <3>1
    <3>3. (x \div 2) - h < 0
      BY <1>1, <2>2, SMT
    <3>4. y = (x \div 2) - h + w
      BY <1>1, <2>1, <2>2, <3>2, <3>3, SMT
    <3> QED BY <1>1, <2>2, <2>4, <2>7, <3>4, SMT DEF y
  <2>8. CASE ~(x >= h)
    <3>1. (IF y >= h THEN y - w ELSE y) = x \div 2
      BY <2>3, <2>5, <2>6, <2>8
    <3>2. x \div 2 >= 0
      BY <1>1, SMT
    <3>3. y = x \div 2
      BY <1>1, <2>1, <2>2, <3>1, <3>2, SMT
    <3> QED BY <1>1, <2>4, <2>8, <3>3, SMT DEF y
  <2> QED BY <2>7, <2>8
<1>4. Kept(S, cf).v = x /\ Kept(S, cf).cf = cf
  BY DEF Kept
<1> DEFINE k == Kept(S, cf)
<1> HIDE DEF x, k
<1>5. Round("SHL", w, k) = [v |-> (2 * k.v) % w, cf |-> k.v >= w \div 2]
  BY Zenon DEF Round
<1>6. Round("SHR", w, k) = [v |-> k.v \div 2, cf |-> k.v % 2 = 1]
  BY Zenon DEF Round
<1>7. Round("SAR", w, k) = [v |-> (k.v \div 2) + (IF k.v >= w \div 2 THEN w \div 2 ELSE 0),
                            cf |-> k.v % 2 = 1]
  BY Zenon DEF Round
<1>8. k.v = x
  BY <1>4 DEF k
<1>9. (x >= w \div 2) = (Size(w) - 1 \in S) /\ (x % 2 = 1) = (0 \in S)
  BY <1>1
<1> QED BY <1>2, <1>3, <1>5, <1>6, <1>7, <1>8, <1>9 DEF Kept, k

\* What a rotation by one place to the left makes, through CF and without it.
LEMMA RingLeft ==
  ASSUME NEW w \in Width, NEW S, S \subseteq 0 .. Size(w) - 1, NEW c \in BOOLEAN,
         NEW T, T = RingOnce(S, c, Size(w))
  PROVE  /\ Value(T \ {Size(w)}) \in 0 .. w - 1
         /\ 2 * Value(S) + (IF c THEN 1 ELSE 0)
               = Value(T \ {Size(w)}) + w * (IF Size(w) - 1 \in S THEN 1 ELSE 0)
         /\ Size(w) \in T <=> Size(w) - 1 \in S
<1>1. /\ Size(w) \in {8, 16} /\ Value(S) \in 0 .. w - 1 /\ Bits(Value(S)) = S
  BY KeptBits
<1>2. RingTurned(T, Value(S), c, w)
  BY <1>1 DEF RingTurned, RingOnce
<1>3. /\ Value(T \ {Size(w)}) \in 0 .. w - 1
      /\ 2 * Value(S) + (IF c THEN 1 ELSE 0)
            = Value(T \ {Size(w)}) + w * (IF Size(w) \in T THEN 1 ELSE 0)
  BY <1>1, <1>2, RingByOne
<1>4. Size(w) \in T <=> Size(w) - 1 \in S
  <2>1. Size(w) \in Nat /\ Size(w) > 0 /\ Size(w) \in 1 .. Size(w)
    BY <1>1, SMT
  <2> QED BY <2>1, TurnedOnce
<1> QED BY <1>3, <1>4

\* Twice a number and what comes in is another number and what goes out.
Spun(x, in, y, out, w) ==
    2 * x + (IF in THEN 1 ELSE 0) = y + w * (IF out THEN 1 ELSE 0)

Unspun(x, in, y, out, w) ==
    /\ (2 * x + (IF in THEN 1 ELSE 0)) % w = y
    /\ y % 2 = 1 <=> in
    /\ (y \div 2) + (IF out THEN w \div 2 ELSE 0) = x

LEMMA OneRound ==
  ASSUME NEW w \in Width, NEW x \in 0 .. w - 1, NEW y \in 0 .. w - 1,
         NEW in \in BOOLEAN, NEW out \in BOOLEAN, Spun(x, in, y, out, w)
  PROVE  Unspun(x, in, y, out, w)
<1> USE DEF Spun, Unspun
<1>1. PICK h \in Nat : h > 0 /\ w = 2 * h
  BY Halves
<1>2. w \div 2 = h
  BY <1>1, SMT
<1>3. x \in Int /\ y \in Int /\ 0 <= x /\ 0 <= y /\ y < w /\ w \in Int
  BY WidthFacts, SMT
<1>4. CASE out
  <2>1. (w + y) % w = y
    BY <1>1, <1>3, SMT
  <2>2. CASE in
    <3>1. y = 2 * (x - h) + 1
      BY <1>1, <1>3, <1>4, <2>2, SMT
    <3>2. y \div 2 = x - h /\ y % 2 = 1
      BY <1>1, <1>3, <3>1, SMT
    <3>3. 2 * x + 1 = w + y
      BY <1>1, <1>3, <3>1, SMT
    <3> QED BY <1>2, <1>3, <1>4, <2>1, <2>2, <3>2, <3>3, SMT
  <2>3. CASE ~in
    <3>1. y = 2 * (x - h)
      BY <1>1, <1>3, <1>4, <2>3, SMT
    <3>2. y \div 2 = x - h /\ y % 2 = 0
      BY <1>1, <1>3, <3>1, SMT
    <3>3. 2 * x + 0 = w + y
      BY <1>1, <1>3, <3>1, SMT
    <3> QED BY <1>2, <1>3, <1>4, <2>1, <2>3, <3>2, <3>3, SMT
  <2> QED BY <2>2, <2>3
<1>5. CASE ~out
  <2>1. y % w = y
    BY <1>1, <1>3, SMT
  <2>2. CASE in
    <3>1. y = 2 * x + 1
      BY <1>3, <1>5, <2>2, SMT
    <3>2. y \div 2 = x /\ y % 2 = 1
      BY <1>3, <3>1, SMT
    <3> QED BY <1>3, <1>5, <2>1, <2>2, <3>1, <3>2, SMT
  <2>3. CASE ~in
    <3>1. y = 2 * x + 0
      BY <1>3, <1>5, <2>3, SMT
    <3>2. y \div 2 = x /\ y % 2 = 0
      BY <1>3, <3>1, SMT
    <3> QED BY <1>3, <1>5, <2>1, <2>3, <3>1, <3>2, SMT
  <2> QED BY <2>2, <2>3
<1> QED BY <1>4, <1>5

\* The circle of S and the carry c, turned by one place to the left.
Wheel(S, c, m) == S \union IF c THEN {m} ELSE {}

BothWays(w, S, c, T) ==
    /\ Round("RCL", w, Kept(S, c)) = Kept(T \ {Size(w)}, Size(w) \in T)
    /\ Round("RCR", w, Kept(T \ {Size(w)}, Size(w) \in T)) = Kept(S, c)

LEMMA LeftRound ==
  ASSUME NEW w \in Width, NEW S, S \subseteq 0 .. Size(w) - 1, NEW c \in BOOLEAN,
         NEW T, T = Turned(Wheel(S, c, Size(w)), 1, Size(w) + 1)
  PROVE  BothWays(w, S, c, T)
<1> DEFINE m == Size(w)
           x == Value(S)
           y == Value(T \ {m})
           out == m \in T
           k == Kept(S, c)
           l == Kept(T \ {m}, out)
<1>1. T = RingOnce(S, c, m)
  BY DEF RingOnce, Wheel
<1>2. /\ y \in 0 .. w - 1
      /\ 2 * x + (IF c THEN 1 ELSE 0) = y + w * (IF m - 1 \in S THEN 1 ELSE 0)
      /\ m \in T <=> m - 1 \in S
  BY <1>1, RingLeft
<1>3. x \in 0 .. w - 1 /\ (x >= w \div 2 <=> m - 1 \in S)
  BY KeptBits
<1>4. out \in BOOLEAN /\ (out <=> m \in T)
  BY MemberBoolean
<1>5. k.v = x /\ k.cf = c /\ l.v = y /\ l.cf = out
  BY DEF Kept
<1>6. k = [v |-> x, cf |-> c] /\ l = [v |-> y, cf |-> out]
  BY DEF Kept
<1> HIDE DEF m, x, y, out, k, l
<1>7. Spun(x, c, y, out, w)
  BY <1>2, <1>4 DEF Spun
<1>8. Unspun(x, c, y, out, w)
  BY <1>2, <1>3, <1>4, <1>7, OneRound
<1>9. Round("RCL", w, k) = [v |-> (2 * k.v + (IF k.cf THEN 1 ELSE 0)) % w,
                            cf |-> k.v >= w \div 2]
  BY Zenon DEF Round
<1>10. Round("RCR", w, l) = [v |-> (l.v \div 2) + (IF l.cf THEN w \div 2 ELSE 0),
                             cf |-> l.v % 2 = 1]
  BY Zenon DEF Round
<1>11. (x >= w \div 2) = out /\ (y % 2 = 1) = c
  BY <1>2, <1>3, <1>4, <1>8 DEF Unspun
<1>12. Round("RCL", w, k) = l
  BY <1>5, <1>6, <1>8, <1>9, <1>11 DEF Unspun
<1>13. Round("RCR", w, l) = k
  BY <1>5, <1>6, <1>8, <1>10, <1>11 DEF Unspun
<1> QED BY <1>12, <1>13 DEF BothWays, k, l, m, out

\* Without the carry, the bit that falls out comes in.
LEMMA RingAlone ==
  ASSUME NEW m \in {8, 16}, NEW S, S \subseteq 0 .. m - 1, NEW c, c = (m - 1 \in S)
  PROVE  /\ RingOnce(S, c, m) \ {m} = Turned(S, 1, m)
         /\ 0 \in Turned(S, 1, m) <=> m - 1 \in S
<1> DEFINE T == RingOnce(S, c, m)
<1>1. m \in Nat /\ m > 0 /\ c \in BOOLEAN
  BY SMT
<1>2. /\ 0 \in T <=> c
      /\ \A k \in 1 .. m : k \in T <=> k - 1 \in S
  BY <1>1, TurnedOnce
<1>3. \A i \in T : i \in 0 .. m
  BY <1>1, SMT DEF RingOnce, Turned
<1> HIDE DEF T
<1>4. 0 \in Turned(S, 1, m) <=> m - 1 \in S
  <2>1. (0 - 1) % m = m - 1 /\ 0 \in 0 .. m - 1
    BY SMT
  <2> QED BY <2>1 DEF Turned
<1>5. ASSUME NEW i \in 1 .. m - 1 PROVE i \in Turned(S, 1, m) <=> i - 1 \in S
  <2>1. i \in 0 .. m - 1 /\ (i - 1) % m = i - 1
    BY SMT
  <2> QED BY <2>1 DEF Turned
<1>6. \A i \in Turned(S, 1, m) : i \in 0 .. m - 1
  BY DEF Turned
<1>7. ASSUME NEW i \in 0 .. m - 1 PROVE i \in T <=> i \in Turned(S, 1, m)
  <2>1. CASE i = 0
    BY <1>2, <1>4, <2>1
  <2>2. CASE i # 0
    <3>1. i \in 1 .. m - 1 /\ i \in 1 .. m
      BY <2>2, SMT
    <3> QED BY <1>2, <1>5, <3>1
  <2> QED BY <2>1, <2>2
<1>8. T \ {m} = Turned(S, 1, m)
  <2>1. \A i : i \in T \ {m} <=> i \in Turned(S, 1, m)
    BY <1>1, <1>3, <1>6, <1>7, SMT
  <2> QED BY <2>1
<1> QED BY <1>4, <1>8 DEF T

LEMMA AloneRound ==
  ASSUME NEW w \in Width, NEW S, S \subseteq 0 .. Size(w) - 1, NEW cf,
         NEW T, T = Turned(S, 1, Size(w))
  PROVE  /\ Round("ROL", w, Kept(S, cf)) = Kept(T, 0 \in T)
         /\ Round("ROR", w, Kept(T, cf)) = Kept(S, Size(w) - 1 \in S)
<1> DEFINE m == Size(w)
           x == Value(S)
           y == Value(T)
           k == Kept(S, cf)
           l == Kept(T, cf)
<1>0. m \in {8, 16}
  BY KeptBits
<1>7. PICK c \in BOOLEAN : c = (m - 1 \in S)
  BY MemberBoolean
<1>1. RingOnce(S, c, m) \ {m} = T /\ (0 \in T <=> c)
  BY <1>0, <1>7, RingAlone
<1>2. /\ y \in 0 .. w - 1
      /\ 2 * x + (IF c THEN 1 ELSE 0) = y + w * (IF m - 1 \in S THEN 1 ELSE 0)
  <2> DEFINE R == RingOnce(S, c, m)
             z == Value(R \ {m})
  <2>1. /\ z \in 0 .. w - 1
        /\ 2 * Value(S) + (IF c THEN 1 ELSE 0) = z + w * (IF m - 1 \in S THEN 1 ELSE 0)
    BY RingLeft, Zenon
  <2>2. z = y
    BY <1>1
  <2> HIDE DEF z
  <2> QED BY <2>1, <2>2
<1>3. x \in 0 .. w - 1 /\ (x >= w \div 2 <=> c)
  BY <1>7, KeptBits
<1>4. k.v = x /\ k.cf = cf /\ l.v = y /\ l.cf = cf
  BY DEF Kept
<1>5. Kept(T, 0 \in T) = [v |-> y, cf |-> 0 \in T] /\ Kept(S, c) = [v |-> x, cf |-> c]
  BY DEF Kept
<1>6. Spun(x, c, y, c, w)
  BY <1>2, <1>7 DEF Spun
<1> HIDE DEF m, x, y, k, l
<1>8. Unspun(x, c, y, c, w)
  BY <1>0, <1>2, <1>3, <1>6, OneRound
<1>9. Round("ROL", w, k) = [v |-> (2 * k.v + (IF k.v >= w \div 2 THEN 1 ELSE 0)) % w,
                            cf |-> k.v >= w \div 2]
  BY Zenon DEF Round
<1>10. Round("ROR", w, l) = [v |-> (l.v \div 2) + (IF l.v % 2 = 1 THEN w \div 2 ELSE 0),
                             cf |-> l.v % 2 = 1]
  BY Zenon DEF Round
<1>11. (x >= w \div 2) = c /\ (y % 2 = 1) = c /\ (0 \in T) = c
  BY <1>0, <1>1, <1>3, <1>8 DEF Unspun
<1>12. Round("ROL", w, k) = Kept(T, 0 \in T)
  BY <1>4, <1>5, <1>8, <1>9, <1>11 DEF Unspun
<1>13. Round("ROR", w, l) = Kept(S, c)
  BY <1>4, <1>5, <1>8, <1>10, <1>11 DEF Unspun
<1> QED BY <1>7, <1>12, <1>13 DEF k, l, m

\* A ring turned by one place more, and one not turned.
LEMMA TurnedOn ==
  ASSUME NEW m \in {8, 9, 16, 17}, NEW n \in Int, NEW S, S \subseteq 0 .. m - 1
  PROVE  /\ Turned(S, n + 1, m) = Turned(Turned(S, n, m), 1, m)
         /\ Turned(S, 0, m) = S
         /\ Turned(S, n, m) \subseteq 0 .. m - 1
<1>1. ASSUME NEW i \in 0 .. m - 1
      PROVE  /\ (i - 1) % m \in 0 .. m - 1
             /\ (((i - 1) % m) - n) % m = (i - (n + 1)) % m
             /\ (i - 0) % m = i
  <2>1. CASE m = 8
    BY <2>1, SMT
  <2>2. CASE m = 9
    BY <2>2, SMT
  <2>3. CASE m = 16
    BY <2>3, SMT
  <2>4. CASE m = 17
    BY <2>4, SMT
  <2> QED BY <2>1, <2>2, <2>3, <2>4
<1>2. ASSUME NEW i \in 0 .. m - 1
      PROVE  (i - 1) % m \in Turned(S, n, m) <=> (i - (n + 1)) % m \in S
  BY <1>1 DEF Turned
<1>3. /\ Turned(Turned(S, n, m), 1, m) = {i \in 0 .. m - 1 : (i - 1) % m \in Turned(S, n, m)}
      /\ Turned(S, n + 1, m) = {i \in 0 .. m - 1 : (i - (n + 1)) % m \in S}
  BY Zenon DEF Turned
<1>4. Turned(S, n + 1, m) = Turned(Turned(S, n, m), 1, m)
  BY <1>2, <1>3, Zenon
<1>5. Turned(S, 0, m) = S
  BY <1>1, Zenon DEF Turned
<1>6. Turned(S, n, m) \subseteq 0 .. m - 1
  BY DEF Turned
<1> QED BY <1>4, <1>5, <1>6

\* What a loop starts from.
Started(w) == [v : 0 .. w - 1, cf : BOOLEAN]

\* The closed form of a loop begins like the loop, and goes on like it.
GoesOn(op, w, s, n) ==
    /\ AtOnce(op, w, s, 0) = s
    /\ AtOnce(op, w, s, n + 1) = Round(op, w, AtOnce(op, w, s, n))

LEMMA StartBits ==
  ASSUME NEW w \in Width, NEW s \in Started(w)
  PROVE  /\ Size(w) \in {8, 16} /\ Bits(s.v) \subseteq 0 .. Size(w) - 1
         /\ Value(Bits(s.v)) = s.v /\ s.cf \in BOOLEAN /\ s = Kept(Bits(s.v), s.cf)
<1>1. s.v \in 0 .. w - 1 /\ s.cf \in BOOLEAN /\ s = [v |-> s.v, cf |-> s.cf]
  BY DEF Started
<1>2. Bits(s.v) \subseteq 0 .. Size(w) - 1 /\ Size(w) \in {8, 16}
  BY <1>1, BitsFit
<1>3. s.v \in Word
  BY <1>1, WidthFacts, SMT DEF Word
<1>4. Value(Bits(s.v)) = s.v
  BY <1>3, ValueOfBits
<1>5. s = Kept(Bits(s.v), s.cf)
  BY <1>1, <1>4, Zenon DEF Kept
<1> QED BY <1>1, <1>2, <1>4, <1>5

LEMMA ShiftsGoOn ==
  ASSUME NEW w \in Width, NEW s \in Started(w), NEW n \in Nat
  PROVE  GoesOn("SHL", w, s, n) /\ GoesOn("SHR", w, s, n) /\ GoesOn("SAR", w, s, n)
<1> DEFINE m == Size(w)
           B == Bits(s.v)
           L(k) == Left(B, k, m)
           R(k) == Right(B, k, m)
           A(k) == RightSigned(B, k, m)
<1>1. m \in {8, 16} /\ B \subseteq 0 .. m - 1 /\ s = Kept(B, s.cf)
  BY StartBits
<1>2. ASSUME NEW k \in Nat
      PROVE  /\ AtOnce("SHL", w, s, k) = Kept(L(k), IF k = 0 THEN s.cf ELSE m - k \in B)
             /\ AtOnce("SHR", w, s, k) = Kept(R(k), IF k = 0 THEN s.cf ELSE k - 1 \in B)
             /\ AtOnce("SAR", w, s, k) = Kept(A(k), IF k = 0 THEN s.cf
                                          ELSE (IF k > m THEN m - 1 ELSE k - 1) \in B)
  <2>1. \A T : T \subseteq 0 .. m - 1 => T \ {m} = T
    BY <1>1, SMT
  <2>2. L(k) \ {m} = L(k) /\ R(k) \ {m} = R(k) /\ A(k) \ {m} = A(k)
    BY <1>1, <2>1, OneMore
  <2>3. AtOnce("SHL", w, s, k) = Kept(L(k) \ {m}, IF k = 0 THEN s.cf ELSE m - k \in B)
    BY Zenon DEF AtOnce, Kept
  <2>4. AtOnce("SHR", w, s, k) = Kept(R(k) \ {m}, IF k = 0 THEN s.cf ELSE k - 1 \in B)
    BY Zenon DEF AtOnce, Kept
  <2>5. AtOnce("SAR", w, s, k) = Kept(A(k) \ {m}, IF k = 0 THEN s.cf
                                      ELSE (IF k > m THEN m - 1 ELSE k - 1) \in B)
    BY Zenon DEF AtOnce, Kept
  <2> QED BY ONLY <2>2, <2>3, <2>4, <2>5
<1>3. L(0) = B /\ R(0) = B /\ A(0) = B
  BY <1>1, NoneLeft
<1>4. /\ L(n + 1) = Left(L(n), 1, m) /\ R(n + 1) = Right(R(n), 1, m)
      /\ A(n + 1) = RightSigned(A(n), 1, m)
      /\ L(n) \subseteq 0 .. m - 1 /\ R(n) \subseteq 0 .. m - 1 /\ A(n) \subseteq 0 .. m - 1
  BY <1>1, OneMore
<1>5. /\ m - 1 \in L(n) <=> m - (n + 1) \in B
      /\ 0 \in R(n) <=> (n + 1) - 1 \in B
      /\ 0 \in A(n) <=> (IF n + 1 > m THEN m - 1 ELSE (n + 1) - 1) \in B
  <2>1. m - 1 \in 0 .. m - 1 /\ 0 \in 0 .. m - 1 /\ (m - 1) - n = m - (n + 1)
        /\ 0 + n = n /\ (n + 1) - 1 = n /\ (n >= m <=> n + 1 > m)
        /\ (n >= m => n \notin 0 .. m - 1)
    BY <1>1, SMT
  <2>2. n >= m => n \notin B
    BY <1>1, <2>1
  <2> HIDE DEF B, m
  <2> QED BY <2>1, <2>2 DEF Left, Right, RightSigned
<1>6. /\ Round("SHL", w, AtOnce("SHL", w, s, n)) = Kept(L(n + 1), m - 1 \in L(n))
      /\ Round("SHR", w, AtOnce("SHR", w, s, n)) = Kept(R(n + 1), 0 \in R(n))
      /\ Round("SAR", w, AtOnce("SAR", w, s, n)) = Kept(A(n + 1), 0 \in A(n))
  BY <1>2, <1>4, ShiftRound
<1>7. n + 1 \in Nat /\ n + 1 # 0 /\ 0 \in Nat
  OBVIOUS
<1> HIDE DEF m, B, L, R, A
<1>8. /\ (m - 1 \in L(n)) = (m - (n + 1) \in B)
      /\ (0 \in R(n)) = ((n + 1) - 1 \in B)
      /\ (0 \in A(n)) = ((IF n + 1 > m THEN m - 1 ELSE (n + 1) - 1) \in B)
  BY <1>5
<1>9. GoesOn("SHL", w, s, n)
  BY <1>1, <1>2, <1>3, <1>6, <1>7, <1>8 DEF GoesOn
<1>10. GoesOn("SHR", w, s, n)
  BY <1>1, <1>2, <1>3, <1>6, <1>7, <1>8 DEF GoesOn
<1>11. GoesOn("SAR", w, s, n)
  BY <1>1, <1>2, <1>3, <1>6, <1>7, <1>8 DEF GoesOn
<1> QED BY <1>9, <1>10, <1>11

LEMMA RotationsGoOn ==
  ASSUME NEW w \in Width, NEW s \in Started(w), NEW n \in Nat
  PROVE  GoesOn("ROL", w, s, n) /\ GoesOn("ROR", w, s, n)
<1> DEFINE m == Size(w)
           B == Bits(s.v)
           T(k) == Turned(B, k, m)
<1>1. m \in {8, 16} /\ m \in {8, 9, 16, 17} /\ B \subseteq 0 .. m - 1 /\ s = Kept(B, s.cf)
  BY StartBits
<1>2. ASSUME NEW k \in Int
      PROVE  T(k) \subseteq 0 .. m - 1 /\ T(k) \ {m} = T(k) /\ T(k + 1) = Turned(T(k), 1, m)
  <2>1. T(k) \subseteq 0 .. m - 1 /\ T(k + 1) = Turned(T(k), 1, m)
    BY <1>1, TurnedOn
  <2> HIDE DEF T
  <2> QED BY <1>1, <2>1, SMT
<1>3. ASSUME NEW k \in Nat
      PROVE  /\ AtOnce("ROL", w, s, k) = Kept(T(k), IF k = 0 THEN s.cf ELSE 0 \in T(k))
             /\ AtOnce("ROR", w, s, k) = Kept(T(-k), IF k = 0 THEN s.cf ELSE m - 1 \in T(-k))
  <2>1. AtOnce("ROL", w, s, k) = Kept(T(k) \ {m}, IF k = 0 THEN s.cf ELSE 0 \in T(k))
    BY Zenon DEF AtOnce, Kept
  <2>2. AtOnce("ROR", w, s, k) = Kept(T(-k) \ {m}, IF k = 0 THEN s.cf ELSE m - 1 \in T(-k))
    BY Zenon DEF AtOnce, Kept
  <2>3. k \in Int /\ -k \in Int
    OBVIOUS
  <2>4. T(k) \ {m} = T(k) /\ T(-k) \ {m} = T(-k)
    BY <1>2, <2>3
  <2> QED BY ONLY <2>1, <2>2, <2>4
<1>4. T(0) = B /\ T(-0) = B
  <2>1. T(0) = B
    BY <1>1, TurnedOn
  <2>2. Turned(T(0), -0, m) = B
    BY <1>1, TurnedBack
  <2> QED BY <2>1, <2>2
<1>5. T(n + 1) = Turned(T(n), 1, m) /\ T(n) \subseteq 0 .. m - 1
  BY <1>2
<1>6. T(-n) = Turned(T(-(n + 1)), 1, m) /\ T(-(n + 1)) \subseteq 0 .. m - 1
  <2>1. -(n + 1) \in Int /\ -(n + 1) + 1 = -n
    OBVIOUS
  <2> HIDE DEF T
  <2> QED BY <1>2, <2>1
<1>7. Round("ROL", w, AtOnce("ROL", w, s, n)) = Kept(T(n + 1), 0 \in T(n + 1))
  BY <1>3, <1>5, AloneRound
<1>8. Round("ROR", w, AtOnce("ROR", w, s, n))
        = Kept(T(-(n + 1)), m - 1 \in T(-(n + 1)))
  BY <1>3, <1>6, AloneRound
<1>9. n + 1 \in Nat /\ n + 1 # 0 /\ 0 \in Nat
  OBVIOUS
<1> HIDE DEF m, B, T
<1>10. GoesOn("ROL", w, s, n)
  BY <1>1, <1>3, <1>4, <1>7, <1>9 DEF GoesOn
<1>11. GoesOn("ROR", w, s, n)
  BY <1>1, <1>3, <1>4, <1>8, <1>9 DEF GoesOn
<1> QED BY <1>10, <1>11

\* The circle a rotation through the carry turns, and what it leaves.
RingOf(w, s) == Wheel(Bits(s.v), s.cf, Size(w))

Through(w, s, k) ==
    LET T == Turned(RingOf(w, s), k, Size(w) + 1)
    IN  Kept(T \ {Size(w)}, Size(w) \in T)

LEMMA RingStarts ==
  ASSUME NEW w \in Width, NEW s \in Started(w)
  PROVE  /\ Size(w) + 1 \in {8, 9, 16, 17}
         /\ RingOf(w, s) \subseteq 0 .. (Size(w) + 1) - 1
         /\ s = Kept(RingOf(w, s) \ {Size(w)}, Size(w) \in RingOf(w, s))
         /\ s.cf = (Size(w) \in RingOf(w, s))
         /\ Turned(RingOf(w, s), 0, Size(w) + 1) = RingOf(w, s)
         /\ Turned(RingOf(w, s), -0, Size(w) + 1) = RingOf(w, s)
<1> DEFINE m == Size(w)
           B == Bits(s.v)
           ring == Wheel(B, s.cf, m)
<1>1. m \in {8, 16} /\ m + 1 \in {8, 9, 16, 17} /\ B \subseteq 0 .. m - 1
      /\ s = Kept(B, s.cf) /\ s.cf \in BOOLEAN
  <2>1. m \in {8, 16}
    BY StartBits
  <2>2. m + 1 \in {8, 9, 16, 17}
    BY <2>1, SMT
  <2> QED BY <2>1, <2>2, StartBits
<1>2. /\ ring \subseteq 0 .. (m + 1) - 1 /\ ring \ {m} = B /\ (m \in ring <=> s.cf)
  <2> HIDE DEF B, m
  <2>1. m \notin B /\ (m + 1) - 1 = m
    BY <1>1, SMT
  <2> QED BY <1>1, <2>1, SMT DEF Wheel
<1>3. Turned(ring, 0, m + 1) = ring /\ Turned(ring, -0, m + 1) = ring
  <2>1. Turned(ring, 0, m + 1) = ring
    BY <1>1, <1>2, TurnedOn
  <2>2. Turned(Turned(ring, 0, m + 1), -0, m + 1) = ring
    BY <1>1, <1>2, TurnedBack
  <2> QED BY <2>1, <2>2
<1>4. s.cf = (m \in ring) /\ s = Kept(ring \ {m}, m \in ring)
  <2>1. s.cf = (m \in ring)
    BY <1>1, <1>2, MemberBoolean
  <2> QED BY <1>1, <1>2, <2>1
<1> QED BY <1>1, <1>2, <1>3, <1>4 DEF RingOf

LEMMA ThroughAtOnce ==
  ASSUME NEW w \in Width, NEW s \in Started(w), NEW k \in Nat
  PROVE  /\ AtOnce("RCL", w, s, k) = Through(w, s, k)
         /\ AtOnce("RCR", w, s, k) = Through(w, s, -k)
         /\ s = Through(w, s, 0) /\ s = Through(w, s, -0)
<1> DEFINE m == Size(w)
           ring == RingOf(w, s)
           T(n) == Turned(ring, n, m + 1)
<1>1. /\ AtOnce("RCL", w, s, k) = Kept(T(k) \ {m}, IF k = 0 THEN s.cf ELSE m \in T(k))
      /\ AtOnce("RCR", w, s, k) = Kept(T(-k) \ {m}, IF k = 0 THEN s.cf ELSE m \in T(-k))
  <2>1. AtOnce("RCL", w, s, k) = Kept(T(k) \ {m}, IF k = 0 THEN s.cf ELSE m \in T(k))
    BY Zenon DEF AtOnce, Kept, Wheel, RingOf
  <2>2. AtOnce("RCR", w, s, k) = Kept(T(-k) \ {m}, IF k = 0 THEN s.cf ELSE m \in T(-k))
    BY Zenon DEF AtOnce, Kept, Wheel, RingOf
  <2> QED BY <2>1, <2>2
<1>2. /\ T(0) = ring /\ T(-0) = ring /\ s.cf = (m \in ring)
      /\ s = Kept(ring \ {m}, m \in ring)
  BY RingStarts, Zenon
<1>3. s = Kept(T(0) \ {m}, m \in T(0)) /\ s = Kept(T(-0) \ {m}, m \in T(-0))
  BY <1>2, Zenon
<1>4. /\ AtOnce("RCL", w, s, k) = Kept(T(k) \ {m}, m \in T(k))
      /\ AtOnce("RCR", w, s, k) = Kept(T(-k) \ {m}, m \in T(-k))
  <2>1. CASE k = 0
    <3> HIDE DEF T, m, ring
    <3> QED BY <1>1, <1>2, <2>1, Zenon
  <2>2. CASE k # 0
    BY <1>1, <2>2, Zenon
  <2> QED BY <2>1, <2>2
<1> QED BY <1>3, <1>4, Zenon DEF Through

LEMMA CarriedGoOn ==
  ASSUME NEW w \in Width, NEW s \in Started(w), NEW n \in Nat
  PROVE  GoesOn("RCL", w, s, n) /\ GoesOn("RCR", w, s, n)
<1> DEFINE m == Size(w)
           ring == RingOf(w, s)
           T(k) == Turned(ring, k, m + 1)
           K(S) == Kept(S \ {m}, m \in S)
<1>1. m \in {8, 16}
  BY StartBits
<1>3. ASSUME NEW k \in Int
      PROVE  T(k) \subseteq 0 .. (m + 1) - 1 /\ T(k + 1) = Turned(T(k), 1, m + 1)
  <2>1. m + 1 \in {8, 9, 16, 17} /\ ring \subseteq 0 .. (m + 1) - 1
    BY RingStarts, Zenon
  <2> QED BY <1>1, <2>1, TurnedOn
<1>4. ASSUME NEW S, S \subseteq 0 .. (m + 1) - 1
      PROVE  /\ Round("RCL", w, K(S)) = K(Turned(S, 1, m + 1))
             /\ Round("RCR", w, K(Turned(S, 1, m + 1))) = K(S)
  <2>1. PICK c \in BOOLEAN : c = (m \in S)
    BY MemberBoolean
  <2>2. S \ {m} \subseteq 0 .. m - 1 /\ Wheel(S \ {m}, c, m) = S
    <3> HIDE DEF m
    <3>1. S \ {m} \subseteq 0 .. m - 1
      BY <1>1, <1>4, SMT
    <3>2. \A i : i \in Wheel(S \ {m}, c, m) <=> i \in S
      <4>1. CASE c
        BY <2>1, <4>1 DEF Wheel
      <4>2. CASE ~c
        BY <2>1, <4>2 DEF Wheel
      <4> QED BY <4>1, <4>2
    <3> QED BY <3>1, <3>2
  <2> DEFINE U == Turned(S, 1, m + 1)
  <2>3. BothWays(w, S \ {m}, c, U)
    <3>1. U = Turned(Wheel(S \ {m}, c, Size(w)), 1, Size(w) + 1)
      BY <2>2
    <3>2. S \ {m} \subseteq 0 .. Size(w) - 1
      BY <2>2
    <3> HIDE DEF U, m
    <3> QED BY <3>1, <3>2, LeftRound
  <2> QED BY <2>1, <2>3 DEF BothWays
<1>5. ASSUME NEW k \in Nat
      PROVE  /\ AtOnce("RCL", w, s, k) = K(T(k)) /\ AtOnce("RCR", w, s, k) = K(T(-k))
             /\ s = K(T(0)) /\ s = K(T(-0))
  BY ThroughAtOnce, Zenon DEF Through
<1>9. T(n + 1) = Turned(T(n), 1, m + 1) /\ T(n) \subseteq 0 .. (m + 1) - 1
  BY <1>3
<1>10. T(-n) = Turned(T(-(n + 1)), 1, m + 1) /\ T(-(n + 1)) \subseteq 0 .. (m + 1) - 1
  <2>1. -(n + 1) \in Int /\ -(n + 1) + 1 = -n
    OBVIOUS
  <2> HIDE DEF T
  <2> QED BY <1>3, <2>1
<1> HIDE DEF T, ring, m, K
<1>11. n + 1 \in Nat /\ 0 \in Nat
  OBVIOUS
<1>12. GoesOn("RCL", w, s, n)
  <2>1. Round("RCL", w, AtOnce("RCL", w, s, n)) = K(T(n + 1))
    BY <1>4, <1>5, <1>9, Zenon
  <2>2. AtOnce("RCL", w, s, n + 1) = K(T(n + 1)) /\ AtOnce("RCL", w, s, 0) = K(T(0))
    BY <1>5, <1>11, Zenon
  <2> QED BY <1>5, <1>11, <2>1, <2>2, Zenon DEF GoesOn
<1>13. GoesOn("RCR", w, s, n)
  <2>1. Round("RCR", w, AtOnce("RCR", w, s, n)) = K(T(-(n + 1)))
    BY <1>4, <1>5, <1>10, Zenon
  <2>2. AtOnce("RCR", w, s, n + 1) = K(T(-(n + 1))) /\ AtOnce("RCR", w, s, 0) = K(T(-0))
    BY <1>5, <1>11, Zenon
  <2> QED BY <1>5, <1>11, <2>1, <2>2, Zenon DEF GoesOn
<1> QED BY <1>12, <1>13

\* What the loops of the shifts and rotations make (alu.cpp:183 to
\* alu.cpp:344), for every number of rounds, every value and carry and both
\* sizes, is what the model makes at once with sets of bits.
THEOREM LoopsAtOnce ==
  \A op \in Shifting : \A w \in Width : \A s \in Started(w) :
      \A n \in Nat : Loop(op, w, s)[n] = AtOnce(op, w, s, n)
<1> SUFFICES ASSUME NEW op \in Shifting, NEW w \in Width, NEW s \in Started(w)
             PROVE  \A n \in Nat : Loop(op, w, s)[n] = AtOnce(op, w, s, n)
  OBVIOUS
<1> DEFINE g == [n \in Nat |-> AtOnce(op, w, s, n)]
<1>1. ASSUME NEW n \in Nat PROVE GoesOn(op, w, s, n)
  BY ShiftsGoOn, RotationsGoOn, CarriedGoOn DEF Shifting
<1>2. ASSUME NEW n \in Nat
      PROVE  g[n] = IF n = 0 THEN s ELSE Round(op, w, g[n - 1])
  <2>1. CASE n = 0
    BY <1>1, <2>1 DEF GoesOn
  <2>2. CASE n # 0
    <3>1. n - 1 \in Nat /\ (n - 1) + 1 = n
      BY <2>2
    <3>2. AtOnce(op, w, s, (n - 1) + 1) = Round(op, w, AtOnce(op, w, s, n - 1))
      BY <1>1, <3>1 DEF GoesOn
    <3>3. g[n] = AtOnce(op, w, s, n) /\ g[n - 1] = AtOnce(op, w, s, n - 1)
      BY <3>1
    <3> HIDE DEF g
    <3> QED BY <2>2, <3>1, <3>2, <3>3
  <2> QED BY <2>1, <2>2
<1>3. Runs(g, op, w, s)
  <2>1. g = [n \in Nat |-> g[n]]
    OBVIOUS
  <2> HIDE DEF g
  <2> QED BY <1>2, <2>1, Zenon DEF Runs
<1>4. \A n \in Nat : g[n] = AtOnce(op, w, s, n)
  OBVIOUS
<1> HIDE DEF g
<1> QED BY <1>3, <1>4, SameRuns

\* What an instruction left in the registers is what its loop makes.
LoopAgrees ==
    /\ last.op \in Shifting => ax % last.w = Looped(last).v
    /\ last.op \in Rotations => flags.CF = Looped(last).cf

\* The operand and the carry an instruction of opcode op finds.
Found == [v |-> dst0, cf |-> flags.CF]

LEMMA WhatLoops ==
  ASSUME TypeOK, NEW op \in Shifting, NEW src \in Source(op), Done(src)
  PROVE  /\ w0 \in Width /\ src \in Int /\ ax \in Word /\ dst0 = ax % w0
         /\ last'.op = op /\ last'.w = w0
         /\ Found \in Started(w0) /\ Found.v = dst0 /\ Found.cf = flags.CF
         /\ RoundsFor(op, w0, src) \in Nat
         /\ Looped(last') = AtOnce(op, w0, Found, RoundsFor(op, w0, src))
<1>1. /\ w0 \in Width /\ src \in Int /\ dst0 \in 0 .. w0 - 1 /\ prog[pc].op = op
  BY Frame
<1>2. ax \in Word /\ flags.CF \in BOOLEAN
  BY SMT DEF TypeOK, FlagSet
<1>3. /\ last'.op = op /\ last'.w = w0 /\ last'.src = src /\ Dst(last') = dst0
      /\ last'.cf = flags.CF
  <2>1. last'.op = prog[pc].op
    BY DEF Done, Goto
  <2> QED BY <1>1, <2>1, Recorded
<1>4. Found \in Started(w0) /\ Found.v = dst0 /\ Found.cf = flags.CF
  BY <1>1, <1>2 DEF Found, Started
<1>5. RoundsFor(op, w0, src) \in Nat
  <2>1. Size(w0) \in {8, 16}
    BY <1>1, <1>4, StartBits
  <2>2. src % 32 \in Nat /\ (src % 32) % Size(w0) \in Nat
    BY <1>1, <2>1, SMT
  <2> QED BY <2>2 DEF RoundsFor
<1>6. Looped(last') = Loop(op, w0, Found)[RoundsFor(op, w0, src)]
  BY <1>3, Zenon DEF Looped, Found
<1>7. Looped(last') = AtOnce(op, w0, Found, RoundsFor(op, w0, src))
  BY <1>1, <1>4, <1>5, <1>6, LoopsAtOnce
<1> QED BY <1>1, <1>2, <1>3, <1>4, <1>5, <1>7 DEF dst0

LEMMA ShiftAgrees ==
  ASSUME TypeOK, NEW op \in {"SHL", "SHR", "SAR"}, NEW src \in Source(op),
         NEW S, NEW of, Shift(src, S, of),
         S = CASE op = "SHL" -> Left(Operand, src % 32, Size(w0))
               [] op = "SHR" -> Right(Operand, src % 32, Size(w0))
               [] op = "SAR" -> RightSigned(Operand, src % 32, Size(w0))
  PROVE  LoopAgrees'
<1> DEFINE n == src % 32
<1>0. op \in Shifting
  BY DEF Shifting
<1>1. /\ w0 \in Width /\ src \in Int /\ last'.op = op /\ last'.w = w0
      /\ Found \in Started(w0) /\ Found.v = dst0
      /\ Looped(last') = AtOnce(op, w0, Found, RoundsFor(op, w0, src))
  BY <1>0, WhatLoops DEF Shift
<1>2. RoundsFor(op, w0, src) = n /\ n \in Nat
  <2>1. op \notin {"ROL", "ROR"}
    OBVIOUS
  <2>2. n \in Nat
    BY <1>1, SMT
  <2> QED BY <2>1, <2>2 DEF RoundsFor
<1>3. Size(w0) \in {8, 16} /\ Operand \subseteq 0 .. Size(w0) - 1
  BY <1>1, StartBits DEF Operand
<1>4. S \subseteq 0 .. Size(w0) - 1 /\ S \ {Size(w0)} = S
  <2>1. /\ Left(Operand, n, Size(w0)) \subseteq 0 .. Size(w0) - 1
        /\ Right(Operand, n, Size(w0)) \subseteq 0 .. Size(w0) - 1
        /\ RightSigned(Operand, n, Size(w0)) \subseteq 0 .. Size(w0) - 1
    BY DEF Left, Right, RightSigned
  <2>2. S \subseteq 0 .. Size(w0) - 1
    BY ONLY <2>1, S = CASE op = "SHL" -> Left(Operand, n, Size(w0))
               [] op = "SHR" -> Right(Operand, n, Size(w0))
               [] op = "SAR" -> RightSigned(Operand, n, Size(w0)), op \in {"SHL", "SHR", "SAR"}
  <2> QED BY <1>3, <2>2, SMT
<1>5. AtOnce(op, w0, Found, n).v = Value(S \ {Size(w0)})
  <2>1. /\ AtOnce("SHL", w0, Found, n).v = Value(Left(Operand, n, Size(w0)) \ {Size(w0)})
        /\ AtOnce("SHR", w0, Found, n).v = Value(Right(Operand, n, Size(w0)) \ {Size(w0)})
        /\ AtOnce("SAR", w0, Found, n).v
              = Value(RightSigned(Operand, n, Size(w0)) \ {Size(w0)})
    BY <1>1, Zenon DEF AtOnce, Operand
  <2> QED BY <2>1
<1>6. src % 32 = 0 => Value(S) = dst0
  <2>1. dst0 \in 0 .. w0 - 1
    BY Frame
  <2> QED BY <1>1, <2>1, Unmoved DEF Operand
<1>7. ax' % w0 = Value(S)
  BY <1>4, <1>6, ShiftLeaves DEF ShiftLeft
<1>8. last'.op \notin Rotations
  BY <1>1 DEF Rotations
<1> QED BY <1>1, <1>2, <1>4, <1>5, <1>7, <1>8 DEF LoopAgrees

\* ROL and ROR turn by the whole count, their loops leave out whole turns.
LEMMA WholeTurns ==
  ASSUME NEW m \in {8, 16}, NEW src \in Int, NEW S
  PROVE  /\ Turned(S, src, m) = Turned(S, (src % 32) % m, m)
         /\ Turned(S, -src, m) = Turned(S, -((src % 32) % m), m)
         /\ src % m = 0 <=> (src % 32) % m = 0
<1>1. ASSUME NEW i \in 0 .. m - 1
      PROVE  /\ (i - src) % m = (i - ((src % 32) % m)) % m
             /\ (i - (-src)) % m = (i - (-((src % 32) % m))) % m
  <2>1. CASE m = 8
    BY <2>1, SMT
  <2>2. CASE m = 16
    BY <2>2, SMT
  <2> QED BY <2>1, <2>2
<1>2. Turned(S, src, m) = Turned(S, (src % 32) % m, m)
  BY <1>1, Zenon DEF Turned
<1>3. Turned(S, -src, m) = Turned(S, -((src % 32) % m), m)
  BY <1>1, Zenon DEF Turned
<1>4. src % m = 0 <=> (src % 32) % m = 0
  <2>1. CASE m = 8
    BY <2>1, SMT
  <2>2. CASE m = 16
    BY <2>2, SMT
  <2> QED BY <2>1, <2>2
<1> QED BY <1>2, <1>3, <1>4

LEMMA RotateAgrees ==
  ASSUME TypeOK, NEW op \in Rotations, NEW src \in Source(op),
         NEW S, NEW cf, NEW of, Rotate(src, S, cf, of), S \subseteq 0 .. Size(w0) - 1,
         AtOnce(op, w0, Found, RoundsFor(op, w0, src)) = Kept(S, cf)
  PROVE  LoopAgrees'
<1>1. op \in Shifting /\ Done(src) /\ Put(Value(S)) /\ flags'.CF = cf
  BY DEF Shifting, Rotations, Rotate, With
<1>2. /\ w0 \in Width /\ ax \in Word /\ dst0 = ax % w0 /\ last'.op = op /\ last'.w = w0
      /\ Looped(last') = Kept(S, cf)
  BY <1>1, WhatLoops
<1>3. ax' % w0 = Value(S)
  <2>1. Value(S) \in 0 .. w0 - 1
    BY <1>2, ValueFits
  <2>2. ax' = ax - (ax % w0) + Value(S)
    BY <1>1, <1>2 DEF Put
  <2> QED BY <1>2, <2>1, <2>2, PutReads
<1> QED BY <1>1, <1>2, <1>3 DEF LoopAgrees, Kept

LEMMA LoopedStep ==
  ASSUME TypeOK, Next
  PROVE  LoopAgrees'
<1> DEFINE n(op, src) == RoundsFor(op, w0, src)
           m == Size(w0)
<1>1. CASE last'.op = "SHL"
  <2>1. PICK src \in Source("SHL") :
          Shift(src, Left(Operand, src % 32, Size(w0)),
                Top \in Left(Operand, src % 32, Size(w0)))
    BY <1>1, Which DEF Shl
  <2> QED BY <2>1, ShiftAgrees
<1>2. CASE last'.op = "SHR"
  <2>1. PICK src \in Source("SHR") :
          Shift(src, Right(Operand, src % 32, Size(w0)), Top \in Operand)
    BY <1>2, Which DEF Shr
  <2> QED BY <2>1, ShiftAgrees
<1>3. CASE last'.op = "SAR"
  <2>1. PICK src \in Source("SAR") :
          Shift(src, RightSigned(Operand, src % 32, Size(w0)), FALSE)
    BY <1>3, Which DEF Sar
  <2> QED BY <2>1, ShiftAgrees
<1>4. ASSUME NEW op \in Rotations, NEW src \in Source(op), Done(src)
      PROVE  /\ m \in {8, 16} /\ src \in Int /\ w0 \in Width
             /\ Found \in Started(w0) /\ Bits(Found.v) = Operand /\ Found.cf = flags.CF
             /\ Operand \subseteq 0 .. m - 1 /\ n(op, src) \in Nat
  <2>1. op \in Shifting
    BY DEF Shifting, Rotations
  <2>2. /\ w0 \in Width /\ src \in Int /\ Found \in Started(w0) /\ Found.v = dst0
        /\ Found.cf = flags.CF /\ n(op, src) \in Nat
    BY <1>4, <2>1, WhatLoops
  <2> QED BY <2>2, StartBits DEF Operand
<1>5. CASE last'.op = "ROL"
  <2> DEFINE S(k) == Turned(Operand, k, m)
  <2>1. PICK src \in Source("ROL") :
           Rotate(src, S(src), IF src % m = 0 THEN flags.CF ELSE 0 \in S(src),
                  (Top \in S(src)) # (IF src % m = 0 THEN flags.CF ELSE 0 \in S(src)))
    BY <1>5, Which DEF Rol
  <2> DEFINE k == (src % 32) % m
  <2>2. /\ m \in {8, 16} /\ src \in Int /\ w0 \in Width /\ Bits(Found.v) = Operand
        /\ Found.cf = flags.CF /\ n("ROL", src) \in Nat /\ "ROL" \in Rotations
    BY <1>4, <2>1 DEF Rotations, Rotate
  <2>3. n("ROL", src) = k
    BY DEF RoundsFor
  <2>4. S(src) = S(k) /\ (src % m = 0 <=> k = 0)
    BY <2>2, WholeTurns
  <2>5. S(src) \subseteq 0 .. m - 1 /\ S(src) \ {m} = S(src)
    <3>1. S(src) \subseteq 0 .. m - 1
      BY DEF Turned
    <3> QED BY <2>2, <3>1, SMT
  <2>6. AtOnce("ROL", w0, Found, k)
          = Kept(S(k) \ {m}, IF k = 0 THEN flags.CF ELSE 0 \in S(k))
    BY <2>2, Zenon DEF AtOnce, Kept
  <2>7. AtOnce("ROL", w0, Found, n("ROL", src))
          = Kept(S(src), IF src % m = 0 THEN flags.CF ELSE 0 \in S(src))
    BY <2>3, <2>4, <2>5, <2>6
  <2> QED BY <2>1, <2>2, <2>5, <2>7, RotateAgrees
<1>6. CASE last'.op = "ROR"
  <2> DEFINE S(k) == Turned(Operand, k, m)
  <2>1. PICK src \in Source("ROR") :
           Rotate(src, S(-src), IF src % m = 0 THEN flags.CF ELSE Top \in S(-src),
                  (Top \in S(-src)) # (Top - 1 \in S(-src)))
    BY <1>6, Which DEF Ror
  <2> DEFINE k == (src % 32) % m
  <2>2. /\ m \in {8, 16} /\ src \in Int /\ w0 \in Width /\ Bits(Found.v) = Operand
        /\ Found.cf = flags.CF /\ n("ROR", src) \in Nat /\ "ROR" \in Rotations
    BY <1>4, <2>1 DEF Rotations, Rotate
  <2>3. n("ROR", src) = k
    BY DEF RoundsFor
  <2>4. S(-src) = S(-k) /\ (src % m = 0 <=> k = 0)
    BY <2>2, WholeTurns
  <2>5. S(-src) \subseteq 0 .. m - 1 /\ S(-src) \ {m} = S(-src)
    <3>1. S(-src) \subseteq 0 .. m - 1
      BY DEF Turned
    <3> QED BY <2>2, <3>1, SMT
  <2>6. AtOnce("ROR", w0, Found, k)
          = Kept(S(-k) \ {m}, IF k = 0 THEN flags.CF ELSE m - 1 \in S(-k))
    BY <2>2, Zenon DEF AtOnce, Kept
  <2>7. AtOnce("ROR", w0, Found, n("ROR", src))
          = Kept(S(-src), IF src % m = 0 THEN flags.CF ELSE Top \in S(-src))
    BY <2>3, <2>4, <2>5, <2>6 DEF Top
  <2> QED BY <2>1, <2>2, <2>5, <2>7, RotateAgrees
<1>7. CASE last'.op = "RCL"
  <2> DEFINE T(src) == Turned(Ring, src % 32, m + 1)
  <2>1. PICK src \in Source("RCL") :
           Rotate(src, T(src) \ {m}, m \in T(src), (Top \in T(src)) # (m \in T(src)))
    BY <1>7, Which DEF Rcl
  <2>2. /\ m \in {8, 16} /\ w0 \in Width /\ Bits(Found.v) = Operand
        /\ Found \in Started(w0)
        /\ Found.cf = flags.CF /\ n("RCL", src) \in Nat /\ "RCL" \in Rotations
    BY <1>4, <2>1 DEF Rotations, Rotate
  <2>3. n("RCL", src) = src % 32
    BY DEF RoundsFor
  <2>4. RingOf(w0, Found) = Ring
    BY <2>2, Zenon DEF RingOf, Wheel, Ring
  <2>5. AtOnce("RCL", w0, Found, n("RCL", src)) = Through(w0, Found, src % 32)
    BY <2>2, <2>3, ThroughAtOnce
  <2>6. AtOnce("RCL", w0, Found, n("RCL", src)) = Kept(T(src) \ {m}, m \in T(src))
    BY <2>4, <2>5, Zenon DEF Through
  <2>7. T(src) \ {m} \subseteq 0 .. m - 1
    <3>1. T(src) \subseteq 0 .. (m + 1) - 1
      BY DEF Turned
    <3> HIDE DEF T, m
    <3> QED BY <2>2, <3>1, SMT
  <2> QED BY <2>1, <2>2, <2>6, <2>7, RotateAgrees
<1>8. CASE last'.op = "RCR"
  <2> DEFINE T(src) == Turned(Ring, -(src % 32), m + 1)
  <2>1. PICK src \in Source("RCR") :
           Rotate(src, T(src) \ {m}, m \in T(src), (Top \in T(src)) # (Top - 1 \in T(src)))
    BY <1>8, Which DEF Rcr
  <2>2. /\ m \in {8, 16} /\ w0 \in Width /\ Bits(Found.v) = Operand
        /\ Found \in Started(w0)
        /\ Found.cf = flags.CF /\ n("RCR", src) \in Nat /\ "RCR" \in Rotations
    BY <1>4, <2>1 DEF Rotations, Rotate
  <2>3. n("RCR", src) = src % 32
    BY DEF RoundsFor
  <2>4. RingOf(w0, Found) = Ring
    BY <2>2, Zenon DEF RingOf, Wheel, Ring
  <2>5. AtOnce("RCR", w0, Found, n("RCR", src)) = Through(w0, Found, -(src % 32))
    BY <2>2, <2>3, ThroughAtOnce
  <2>6. AtOnce("RCR", w0, Found, n("RCR", src)) = Kept(T(src) \ {m}, m \in T(src))
    BY <2>4, <2>5, Zenon DEF Through
  <2>7. T(src) \ {m} \subseteq 0 .. m - 1
    <3>1. T(src) \subseteq 0 .. (m + 1) - 1
      BY DEF Turned
    <3> HIDE DEF T, m
    <3> QED BY <2>2, <3>1, SMT
  <2> QED BY <2>1, <2>2, <2>6, <2>7, RotateAgrees
<1>9. CASE last'.op \notin Shifting
  BY <1>9, Zenon DEF LoopAgrees, Shifting, Rotations
<1> QED BY <1>1, <1>2, <1>3, <1>5, <1>6, <1>7, <1>8, <1>9 DEF Shifting

\* The highest bit of an operand is its sign.
LEMMA TopNegative ==
  ASSUME NEW w \in Width, NEW S, S \subseteq 0 .. Size(w) - 1
  PROVE  Size(w) - 1 \in S <=> Signed(Value(S), w) < 0
<1>1. Size(w) - 1 \in S <=> Sign(Value(S), w)
  BY TopIsSign DEF Sign
<1> QED BY <1>1, TopIsSign, Negative

\* Every shift computes the product or quotient.
LEMMA ShiftedStep ==
  ASSUME TypeOK, Next
  PROVE  ShiftsAreExact'
<1> DEFINE n(i) == i.src % 32
           p(i) == 2 ^ Capped(i.src)
           v == ax' % last'.w
           Flagged(of) == last'.src % BYTE # 0 =>
               /\ ~Taken("B", flags')
               /\ Taken("E", flags') <=> v = 0
               /\ Taken("S", flags') <=> Signed(v, last'.w) < 0
               /\ n(last') # 1 => (Taken("L", flags') <=> Signed(v, last'.w) < 0)
               /\ n(last') = 1 => (Taken("O", flags') <=> of)
<1>0. ASSUME NEW op, NEW src \in Source(op)
      PROVE  /\ w0 \in Width /\ dst0 \in 0 .. w0 - 1 /\ dst0 \in Int
             /\ src % 32 \in Nat /\ Capped(src) \in 0 .. 16
             /\ Counted(src % 32, Capped(src))
             /\ Operand = Bits(dst0)
             /\ Left(Operand, src % 32, Size(w0)) \subseteq 0 .. Size(w0) - 1
             /\ Right(Operand, src % 32, Size(w0)) \subseteq 0 .. Size(w0) - 1
             /\ RightSigned(Operand, src % 32, Size(w0)) \subseteq 0 .. Size(w0) - 1
  <2>1. /\ w0 \in Width /\ dst0 \in 0 .. w0 - 1 /\ dst0 \in Int
        /\ src \in Int
    BY <1>0, Frame
  <2>2. src % 32 \in Nat /\ Capped(src) \in 0 .. 16
    BY <2>1, SMT DEF Capped
  <2> QED BY <2>1, <2>2 DEF Capped, Counted, Operand, Left, Right, RightSigned
<1>1. CASE last'.op = "SHL"
  <2>1. PICK src \in Source("SHL") :
          LET S == Left(Operand, src % 32, Size(w0)) IN Shift(src, S, Top \in S)
    BY <1>1, Which DEF Shl
  <2> DEFINE S == Left(Operand, src % 32, Size(w0))
             k == Capped(src)
  <2>2. Value(S) = (dst0 * 2^k) % w0
    BY <1>0, ShiftedAll
  <2>3. Value(S) = IF 2^k >= w0 THEN 0 ELSE (dst0 % (w0 \div 2^k)) * 2^k
    BY <1>0, <2>2, ProductCut
  <2>4. src % 32 = 0 => Value(S) = dst0
    BY <1>0, Unmoved
  <2>5. Shift(src, S, Top \in S) /\ S \subseteq 0 .. Size(w0) - 1
    BY <1>0, <2>1
  <2> HIDE DEF S
  <2>6. v = Value(S) /\ last'.src = src /\ last'.w = w0 /\ Dst(last') = dst0
        /\ Flagged(Top \in S)
    <3>1. ShiftLeft(src, S, Top \in S)
      BY <2>4, <2>5, ShiftLeaves
    <3> QED BY <3>1 DEF ShiftLeft
  <2>7. v = IF p(last') >= last'.w THEN 0
            ELSE (Dst(last') % (last'.w \div p(last'))) * p(last')
    BY <2>3, <2>6
  <2>8. last'.op # "SHR" /\ last'.op # "SAR"
    BY <1>1
  <2>9. Flagged(Signed(v, last'.w) < 0)
    <3>1. Top \in S <=> Signed(Value(S), w0) < 0
      BY <1>0, <2>5, TopNegative DEF Top
    <3> QED BY <2>6, <3>1
  <2>10. LoopAgrees'
    BY LoopedStep
  <2> HIDE DEF v
  <2> QED BY ONLY <2>7, <2>8, <2>9, <2>10 DEF ShiftsAreExact, LoopAgrees, Rotations, Capped, v
<1>2. CASE last'.op = "SHR"
  <2>1. PICK src \in Source("SHR") :
          Shift(src, Right(Operand, src % 32, Size(w0)), Top \in Operand)
    BY <1>2, Which DEF Shr
  <2> DEFINE S == Right(Operand, src % 32, Size(w0))
             k == Capped(src)
  <2>2. Value(S) = dst0 \div 2^k
    BY <1>0, ShiftedAll
  <2>4. src % 32 = 0 => Value(S) = dst0
    BY <1>0, Unmoved
  <2>5. Shift(src, S, Top \in Operand) /\ S \subseteq 0 .. Size(w0) - 1
    BY <1>0, <2>1
  <2> HIDE DEF S
  <2>6. v = Value(S) /\ last'.src = src /\ last'.w = w0 /\ Dst(last') = dst0
        /\ Flagged(Top \in Operand)
    <3>1. ShiftLeft(src, S, Top \in Operand)
      BY <2>4, <2>5, ShiftLeaves
    <3> QED BY <3>1 DEF ShiftLeft
  <2>7. v = Dst(last') \div p(last')
    BY <2>2, <2>6
  <2>8. last'.op # "SHL" /\ last'.op # "SAR"
    BY <1>2
  <2>9. Flagged(Signed(Dst(last'), last'.w) < 0)
    <3>1. Operand \subseteq 0 .. Size(w0) - 1 /\ Value(Operand) = dst0
      <4>1. dst0 \in Word
        BY <1>0, WidthFacts
      <4> QED BY <1>0, <4>1, BitsFit, ValueOfBits
    <3>2. Top \in Operand <=> Signed(dst0, w0) < 0
      BY <1>0, <3>1, TopNegative DEF Top
    <3> QED BY <2>6, <3>2
  <2>10. LoopAgrees'
    BY LoopedStep
  <2> HIDE DEF v
  <2> QED BY ONLY <2>7, <2>8, <2>9, <2>10 DEF ShiftsAreExact, LoopAgrees, Rotations, Capped, v
<1>3. CASE last'.op = "SAR"
  <2>1. PICK src \in Source("SAR") :
          Shift(src, RightSigned(Operand, src % 32, Size(w0)), FALSE)
    BY <1>3, Which DEF Sar
  <2> DEFINE S == RightSigned(Operand, src % 32, Size(w0))
             k == Capped(src)
  <2>2. Signed(Value(S), w0) = Signed(dst0, w0) \div 2^k
    BY <1>0, ShiftedAll
  <2>4. src % 32 = 0 => Value(S) = dst0
    BY <1>0, Unmoved
  <2>5. Shift(src, S, FALSE) /\ S \subseteq 0 .. Size(w0) - 1
    BY <1>0, <2>1
  <2> HIDE DEF S
  <2>6. v = Value(S) /\ last'.src = src /\ last'.w = w0 /\ Dst(last') = dst0
        /\ Flagged(FALSE)
    <3>1. ShiftLeft(src, S, FALSE)
      BY <2>4, <2>5, ShiftLeaves
    <3> QED BY <3>1 DEF ShiftLeft
  <2>7. Signed(v, last'.w) = Signed(Dst(last'), last'.w) \div p(last')
    BY <2>2, <2>6
  <2>8. last'.op # "SHL" /\ last'.op # "SHR"
    BY <1>3
  <2>9. Flagged(FALSE)
    BY <2>6
  <2>10. LoopAgrees'
    BY LoopedStep
  <2> HIDE DEF v
  <2> QED BY ONLY <2>7, <2>8, <2>9, <2>10 DEF ShiftsAreExact, LoopAgrees, Rotations, Capped, v
<1>4. CASE last'.op \notin {"SHL", "SHR", "SAR"}
  BY <1>4, LoopedStep, Zenon DEF ShiftsAreExact, LoopAgrees, Rotations
<1> QED BY <1>1, <1>2, <1>3, <1>4

\* SHL, SHR and SAR multiply and divide by powers of two, the zero and sign
\* flags they leave describe the result, CF is clear and OF of a shift by one
\* place a sign, and every shift and rotation leaves
\* what its loop makes (alu.cpp:183 to alu.cpp:344), for every count, both
\* sizes and any guest program.
THEOREM AluShifts == Spec => []ShiftsAreExact
<1>1. Init => TypeOK /\ ShiftsAreExact
  <2>1. Init => last.op = "none"
    BY DEF Init, Fresh
  <2> QED BY <2>1, TypeInit, Zenon DEF ShiftsAreExact, Shifting
<1>2. TypeOK /\ ShiftsAreExact /\ [Next]_vars => TypeOK' /\ ShiftsAreExact'
  <2> SUFFICES ASSUME TypeOK, ShiftsAreExact, [Next]_vars
               PROVE  TypeOK' /\ ShiftsAreExact'
    OBVIOUS
  <2>1. CASE Next
    BY <2>1, TypeInductive, ShiftedStep
  <2>2. CASE UNCHANGED vars
    <3>1. ShiftsAreExact'
      BY <2>2 DEF vars, ShiftsAreExact
    <3> QED BY <3>1, TypeInductive
  <2> QED BY <2>1, <2>2
<1> QED BY <1>1, <1>2, PTL DEF Spec
===============================================================================
