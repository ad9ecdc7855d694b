---------------------------- MODULE MachineProofs ------------------------------
(***************************************************************************)
(* Proofs about memory and module Machine, for any guest programs: types,  *)
(* the words on the stack and what pops make of them, the addresses of     *)
(* LEA, and the instructions of many rounds.                               *)
(***************************************************************************)
EXTENDS Machine, FlagsProofs, SequenceTheorems

-------------------------------------------------------------------------------
(* Memory: a read gives what the last write put there, and other cells keep *)
(* their value.                                                             *)

LEMMA MemorySizes == PARA \in Nat /\ MEMORY_SIZE \in Nat /\ PARA = 16
  BY Sizes, SMT DEF PARA, MEMORY_SIZE

LEMMA PhysicalType ==
  ASSUME NEW seg \in Word, NEW off \in Word PROVE Physical(seg, off) \in Nat
<1>1. seg \in Nat /\ off \in Nat
  BY WordFacts, InWord, SMT
<1> QED BY <1>1, MemorySizes, SMT DEF Physical

\* A byte or a word.
LEMMA TwoWidths == ASSUME NEW w \in Width PROVE w = BYTE \/ w = WORD
  BY SMT DEF Width

LEMMA WidthsDiffer == WORD # BYTE
  BY Sizes, SMT

LEMMA CellsAt ==
  ASSUME NEW a \in Nat
  PROVE  Cells(a, BYTE) = {a} /\ Cells(a, WORD) = {a, a + 1}
  BY WidthsDiffer, Zenon DEF Cells

LEMMA CellsType ==
  ASSUME NEW a \in Nat, NEW w \in Width PROVE a \in Cells(a, w) /\ Cells(a, w) \subseteq Nat
<1>1. a + 1 \in Nat
  BY SMT
<1> QED BY <1>1 DEF Cells

LEMMA ValidBoolean == ASSUME NEW a, NEW w PROVE Valid(a, w) \in BOOLEAN
  BY Zenon DEF Valid

LEMMA CellType ==
  ASSUME NEW m, IsMemory(m), NEW a PROVE Cell(m, a) \in 0 .. BYTE - 1
<1>1. 0 \in 0 .. BYTE - 1
  BY InWord, SMT
<1> QED BY <1>1, Zenon DEF Cell, IsMemory

\* What Read gives is a value of its size.
LEMMA ReadType ==
  ASSUME NEW m, IsMemory(m), NEW a, NEW w \in Width
  PROVE  Read(m, a, w) \in 0 .. w - 1
<1>1. CASE ~Valid(a, w)
  <2>1. w - 1 \in 0 .. w - 1
    BY WidthFacts, SMT
  <2> QED BY <1>1, <2>1, Zenon DEF Read
<1>2. CASE Valid(a, w) /\ w = BYTE
  BY <1>2, CellType, Zenon DEF Read
<1>3. CASE Valid(a, w) /\ w = WORD
  <2> DEFINE x == Cell(m, a)
             y == Cell(m, a + 1)
  <2>1. Read(m, a, w) = x + BYTE * y
    BY <1>3, WidthsDiffer, Zenon DEF Read
  <2>2. x \in 0 .. BYTE - 1 /\ y \in 0 .. BYTE - 1
    BY CellType
  <2> HIDE DEF x, y
  <2>3. x \in Int /\ 0 <= x /\ x <= 255 /\ y \in Int /\ 0 <= y /\ y <= 255
    BY <2>2, Sizes, InWord, SMT
  <2>4. x + BYTE * y \in Int /\ 0 <= x + BYTE * y /\ x + BYTE * y <= 65535
    BY <2>3, Sizes, SMT
  <2>5. x + BYTE * y \in Word
    BY <2>4, InWord, SMT
  <2> QED BY <1>3, <2>1, <2>5, Zenon DEF Word
<1> QED BY <1>1, <1>2, <1>3, TwoWidths, Zenon

\* The two bytes of a word, or the one of a byte.
LEMMA Bytes ==
  ASSUME NEW v \in Word
  PROVE  /\ v % BYTE \in 0 .. BYTE - 1 /\ v \div BYTE \in 0 .. BYTE - 1
         /\ (v % BYTE) + BYTE * (v \div BYTE) = v
<1>1. v \in Int /\ 0 <= v /\ v <= 65535
  BY WordFacts, InWord, SMT
<1>2. /\ v % BYTE \in Int /\ 0 <= v % BYTE /\ v % BYTE <= 255
      /\ v \div BYTE \in Int /\ 0 <= v \div BYTE /\ v \div BYTE <= 255
      /\ (v % BYTE) + BYTE * (v \div BYTE) = v
  BY <1>1, Sizes, SMT
<1> QED BY <1>2, InWord, SMT

LEMMA OneByte == ASSUME NEW v \in 0 .. BYTE - 1 PROVE v % BYTE = v
<1>1. v \in Int /\ 0 <= v /\ v <= 255
  BY Sizes, InWord, SMT
<1> QED BY <1>1, Sizes, SMT

\* What a write leaves in a cell.
LEMMA CellWritten ==
  ASSUME NEW m, IsMemory(m), NEW a \in Nat, NEW w \in Width, NEW v, Valid(a, w), NEW c
  PROVE  Cell(Write(m, a, v, w), c) =
             IF c = a THEN v % BYTE
             ELSE IF c \in Cells(a, w) THEN v \div BYTE ELSE Cell(m, c)
<1>1. Write(m, a, v, w) = [d \in DOMAIN m \union Cells(a, w) |->
                              IF d = a THEN v % BYTE
                              ELSE IF d \in Cells(a, w) THEN v \div BYTE ELSE m[d]]
  BY Zenon DEF Write
<1>2. a \in Cells(a, w)
  BY CellsType
<1>3. DOMAIN Write(m, a, v, w) = DOMAIN m \union Cells(a, w)
  BY <1>1, Zenon
<1>4. CASE c \in DOMAIN m \union Cells(a, w)
  BY <1>1, <1>2, <1>3, <1>4, Zenon DEF Cell
<1>5. CASE c \notin DOMAIN m \union Cells(a, w)
  BY <1>2, <1>3, <1>5, Zenon DEF Cell
<1> QED BY <1>4, <1>5, Zenon

\* Cells outside of a write keep their value.
LEMMA CellKept ==
  ASSUME NEW m, IsMemory(m), NEW a \in Nat, NEW w \in Width, NEW v, NEW c,
         c \notin Cells(a, w) \/ ~Valid(a, w)
  PROVE  Cell(Write(m, a, v, w), c) = Cell(m, c)
<1>1. CASE ~Valid(a, w)
  BY <1>1, Zenon DEF Write
<1>2. CASE Valid(a, w)
  <2>1. c \notin Cells(a, w) /\ c # a
    BY <1>2, CellsType
  <2>2. Cell(Write(m, a, v, w), c) =
            IF c = a THEN v % BYTE
            ELSE IF c \in Cells(a, w) THEN v \div BYTE ELSE Cell(m, c)
    BY <1>2, CellWritten
  <2> QED BY <2>1, <2>2, Zenon
<1> QED BY <1>1, <1>2, Zenon

LEMMA WriteType ==
  ASSUME NEW m, IsMemory(m), NEW a \in Nat, NEW w \in Width, NEW v \in 0 .. w - 1
  PROVE  IsMemory(Write(m, a, v, w))
<1>1. CASE ~Valid(a, w)
  BY <1>1, Zenon DEF Write
<1>2. CASE Valid(a, w)
  <2> DEFINE n == Write(m, a, v, w)
  <2>1. n = [d \in DOMAIN m \union Cells(a, w) |->
                IF d = a THEN v % BYTE
                ELSE IF d \in Cells(a, w) THEN v \div BYTE ELSE m[d]]
    BY <1>2, Zenon DEF Write
  <2>2. DOMAIN n = DOMAIN m \union Cells(a, w)
    BY <2>1, Zenon
  <2>3. n = [d \in DOMAIN n |-> n[d]]
    BY <2>1, <2>2, Zenon
  <2>4. Cells(a, w) \subseteq 0 .. MEMORY_SIZE - 1
    BY <1>2, CellsType, MemorySizes, SMT DEF Valid
  <2>5. v \in Word
    BY WidthFacts, SMT
  <2>6. v % BYTE \in 0 .. BYTE - 1 /\ v \div BYTE \in 0 .. BYTE - 1
    BY <2>5, Bytes
  <2>7. \A d \in DOMAIN n : n[d] \in 0 .. BYTE - 1
    BY <2>1, <2>2, <2>6, Zenon DEF IsMemory
  <2>8. DOMAIN n \subseteq 0 .. MEMORY_SIZE - 1
    BY <2>2, <2>4, Zenon DEF IsMemory
  <2> QED BY <2>3, <2>7, <2>8, Zenon DEF IsMemory
<1> QED BY <1>1, <1>2, Zenon

\* A read gives what was written.
LEMMA ReadWritten ==
  ASSUME NEW m, IsMemory(m), NEW a \in Nat, NEW w \in Width, NEW v \in 0 .. w - 1,
         Valid(a, w)
  PROVE  Read(Write(m, a, v, w), a, w) = v
<1> DEFINE n == Write(m, a, v, w)
<1>1. CASE w = BYTE
  <2>1. Cell(n, a) = v % BYTE
    BY CellWritten
  <2>2. v % BYTE = v
    BY <1>1, OneByte
  <2> QED BY <1>1, <2>1, <2>2, Zenon DEF Read
<1>2. CASE w = WORD
  <2>1. a + 1 \in Cells(a, w) /\ a + 1 # a
    BY <1>2, CellsAt, SMT
  <2>2. Cell(n, a) = v % BYTE
    BY CellWritten
  <2>3. Cell(n, a + 1) = v \div BYTE
    BY <2>1, CellWritten
  <2>4. (v % BYTE) + BYTE * (v \div BYTE) = v
    BY <1>2, Bytes DEF Word
  <2> QED BY <1>2, <2>2, <2>3, <2>4, WidthsDiffer, Zenon DEF Read
<1> QED BY <1>1, <1>2, TwoWidths, Zenon

\* A read sees no more than its cells.
LEMMA ReadSame ==
  ASSUME NEW m, NEW n, NEW a \in Nat, NEW w \in Width,
         \A c \in Cells(a, w) : Cell(n, c) = Cell(m, c)
  PROVE  Read(n, a, w) = Read(m, a, w)
<1>1. CASE w = BYTE
  <2>1. Cell(n, a) = Cell(m, a)
    BY <1>1, CellsAt, Zenon
  <2> QED BY <1>1, <2>1, Zenon DEF Read
<1>2. CASE w = WORD
  <2>1. Cell(n, a) = Cell(m, a) /\ Cell(n, a + 1) = Cell(m, a + 1)
    BY <1>2, CellsAt, Zenon
  <2> QED BY <1>2, <2>1, WidthsDiffer, Zenon DEF Read
<1> QED BY <1>1, <1>2, TwoWidths, Zenon

\* A read elsewhere is not affected by a write.
LEMMA ReadKept ==
  ASSUME NEW m, IsMemory(m), NEW a \in Nat, NEW w \in Width, NEW v,
         NEW b \in Nat, NEW u \in Width, Cells(a, w) \intersect Cells(b, u) = {}
  PROVE  Read(Write(m, a, v, w), b, u) = Read(m, b, u)
<1>1. \A c \in Cells(b, u) : Cell(Write(m, a, v, w), c) = Cell(m, c)
  <2> TAKE c \in Cells(b, u)
  <2>1. c \notin Cells(a, w)
    BY Zenon
  <2> QED BY <2>1, CellKept
<1> QED BY <1>1, ReadSame

-------------------------------------------------------------------------------
(* Types *)

Data == regs \in RegSet /\ segs \in [SegReg -> Word] /\ IsMemory(mem)
FlagData == flags \in FlagSet /\ modes \in ModeSet
Frame == IsCode(prog) /\ pc \in Nat /\ out \in Seq(0 .. BYTE - 1) /\ IsJob(job)
Pops == {"none"} \union Stacking \union Control
IsPopped(p) == p.op \in Pops /\ p.r \in Reg /\ p.from \in EntrySet
History == stack \in Seq(EntrySet) /\ IsPopped(popped)

LEMMA TypeParts == TypeOK <=> Data /\ FlagData /\ Frame /\ History
  BY Zenon DEF TypeOK, Data, FlagData, Frame, History, IsPopped, Pops

LEMMA TypePartsNext == Data' /\ FlagData' /\ Frame' /\ History' => TypeOK'
  BY Zenon DEF TypeOK, Data, FlagData, Frame, History, IsPopped, Pops

LEMMA Registers ==
  /\ AX \in Reg /\ CX \in Reg /\ DX \in Reg /\ BX \in Reg
  /\ SP \in Reg /\ BP \in Reg /\ SI \in Reg /\ DI \in Reg /\ AH \in Reg
  /\ ES \in SegReg /\ CS \in SegReg /\ SS \in SegReg /\ DS \in SegReg
  BY SMT DEF AX, CX, DX, BX, SP, BP, SI, DI, AH, Reg, ES, CS, SS, DS, SegReg

LEMMA RegisterType == ASSUME Data, NEW r \in Reg PROVE regs[r] \in Word /\ regs[r] \in Int
<1>1. regs[r] \in Word
  BY Zenon DEF Data, RegSet
<1> QED BY <1>1, WordFacts

LEMMA SegmentType == ASSUME Data, NEW s \in SegReg PROVE segs[s] \in Word
  BY Zenon DEF Data

LEMMA GetRegType ==
  ASSUME Data, NEW r \in Reg, NEW w \in Width
  PROVE  GetReg(r, w) \in 0 .. w - 1
<1>1. CASE w = WORD
  BY <1>1, RegisterType, Zenon DEF GetReg, Word
<1>2. CASE w = BYTE /\ r < 4
  BY <1>2, RegisterType, Bytes, WidthsDiffer, Zenon DEF GetReg
<1>3. CASE w = BYTE /\ ~(r < 4)
  <2>1. r - 4 \in Reg
    BY <1>3, SMT DEF Reg
  <2> QED BY <1>3, <2>1, RegisterType, Bytes, WidthsDiffer, Zenon DEF GetReg
<1> QED BY <1>1, <1>2, <1>3, TwoWidths, Zenon

\* A register with a new lower or upper byte.
LEMMA LowSet ==
  ASSUME NEW x \in Word, NEW v \in 0 .. BYTE - 1 PROVE x - (x % BYTE) + v \in Word
  BY LowType, WordFacts

LEMMA HighSet ==
  ASSUME NEW x \in Word, NEW v \in 0 .. BYTE - 1 PROVE (x % BYTE) + BYTE * v \in Word
<1>1. v \in Int /\ 0 <= v /\ v <= 255
  BY Sizes, InWord, SMT
<1>2. x % BYTE \in Int /\ 0 <= x % BYTE /\ x % BYTE <= 255
  BY Bytes, Sizes, InWord, SMT
<1>3. /\ (x % BYTE) + BYTE * v \in Int
      /\ 0 <= (x % BYTE) + BYTE * v /\ (x % BYTE) + BYTE * v <= 65535
  BY <1>1, <1>2, Sizes, SMT
<1> QED BY <1>3, InWord, SMT

LEMMA SetRegType ==
  ASSUME NEW rs \in RegSet, NEW r \in Reg, NEW w \in Width, NEW v \in 0 .. w - 1
  PROVE  SetReg(rs, r, v, w) \in RegSet
<1>1. CASE w = WORD
  BY <1>1, Zenon DEF SetReg, RegSet, Word
<1>2. CASE w = BYTE /\ r < 4
  <2>1. rs[r] - (rs[r] % BYTE) + v \in Word
    BY <1>2, LowSet, Zenon DEF RegSet
  <2> QED BY <1>2, <2>1, WidthsDiffer, Zenon DEF SetReg, RegSet
<1>3. CASE w = BYTE /\ ~(r < 4)
  <2>1. r - 4 \in Reg
    BY <1>3, SMT DEF Reg
  <2>2. (rs[r - 4] % BYTE) + BYTE * v \in Word
    BY <1>3, <2>1, HighSet, Zenon DEF RegSet
  <2> QED BY <1>3, <2>1, <2>2, WidthsDiffer, Zenon DEF SetReg, RegSet
<1> QED BY <1>1, <1>2, <1>3, TwoWidths, Zenon

LEMMA SetWord ==
  ASSUME NEW rs \in RegSet, NEW r \in Reg, NEW v \in Word
  PROVE  [rs EXCEPT ![r] = v] \in RegSet
  BY Zenon DEF RegSet

LEMMA SetSegment ==
  ASSUME NEW ss \in [SegReg -> Word], NEW s \in SegReg, NEW v \in Word
  PROVE  [ss EXCEPT ![s] = v] \in [SegReg -> Word]
  BY Zenon

LEMMA ReadWord == ASSUME Data, NEW a PROVE Read(mem, a, WORD) \in Word
  BY ReadType, WordFacts, Zenon DEF Data, Word

(* Instructions and operands *)

LEMMA InstructionType ==
  ASSUME Frame, pc \in 1 .. Len(prog)
  PROVE  /\ IsInstruction(ins) /\ ins.op \in Opcode /\ ins.w \in Width /\ ins.r \in Reg
         /\ ins.o \in Operand /\ ins.v \in Word /\ ins.rep \in {"", "E", "NE"}
<1>1. IsInstruction(ins)
  BY Zenon DEF Frame, IsCode, ins
<1>2. ins \in Instruction
  BY <1>1, Zenon DEF IsInstruction
<1> QED BY <1>1, <1>2, Zenon DEF Instruction

LEMMA OperandParts ==
  ASSUME NEW o \in Operand
  PROVE  /\ o.mod \in 0 .. 3 /\ o.rm \in Reg /\ o.disp \in Word
         /\ o.over \in SegReg \union {NoOverride}
  BY Zenon DEF Operand

LEMMA BaseType == ASSUME Data, NEW rm \in Reg PROVE Base(rm) \in Int /\ LeaBase(rm) = Base(rm)
<1>1. \A r \in Reg : regs[r] \in Int
  BY RegisterType
<1>2. Base(rm) \in Int
  BY <1>1, Registers, SMT DEF Base, Reg
<1>3. LeaBase(rm) = Base(rm)
  BY Zenon DEF Base, LeaBase
<1> QED BY <1>2, <1>3

LEMMA DisplacementType ==
  ASSUME NEW o \in Operand, o.mod # 3 PROVE Displacement(o) \in Int
<1>1. o.mod = 0 \/ o.mod = 1 \/ o.mod = 2
  BY OperandParts, SMT
<1>2. o.disp \in Int /\ Signed(o.disp % BYTE, BYTE) \in Int
  <2>1. o.disp \in Int
    BY OperandParts, WordFacts
  <2>2. o.disp % BYTE \in Int
    BY <2>1, Sizes, SMT
  <2> QED BY <2>1, <2>2, SignedType, WordFacts
<1> QED BY <1>1, <1>2, SMT DEF Displacement

LEMMA OffsetType ==
  ASSUME Data, NEW o \in Operand, o.mod # 3 PROVE Offset(o) \in Word
<1>1. CASE IsDirect(o)
  BY <1>1, OperandParts, Zenon DEF Offset
<1>2. CASE ~IsDirect(o)
  <2>1. Base(o.rm) + Displacement(o) \in Int
    BY BaseType, DisplacementType, OperandParts, SMT
  <2> QED BY <1>2, <2>1, ModWord, Zenon DEF Offset
<1> QED BY <1>1, <1>2

LEMMA SegmentOf == ASSUME NEW o \in Operand PROVE Segment(o) \in SegReg
  BY OperandParts, Registers, Zenon DEF Segment

LEMMA AddressType ==
  ASSUME Data, NEW o \in Operand, o.mod # 3 PROVE Address(o) \in Nat
  BY OffsetType, SegmentOf, SegmentType, PhysicalType, Zenon DEF Address

LEMMA ReadOperandType ==
  ASSUME Data, NEW o \in Operand, NEW w \in Width PROVE ReadOperand(o, w) \in 0 .. w - 1
<1>1. CASE o.mod = 3
  BY <1>1, GetRegType, OperandParts, Zenon DEF ReadOperand
<1>2. CASE o.mod # 3
  BY <1>2, ReadType, Zenon DEF ReadOperand, Data
<1> QED BY <1>1, <1>2

LEMMA WriteOperandType ==
  ASSUME Data, NEW o \in Operand, NEW w \in Width, NEW v \in 0 .. w - 1, WriteOperand(o, v, w)
  PROVE  regs' \in RegSet /\ IsMemory(mem')
<1>1. CASE o.mod = 3
  BY <1>1, SetRegType, OperandParts, Zenon DEF WriteOperand, Data
<1>2. CASE o.mod # 3
  BY <1>2, WriteType, AddressType, Zenon DEF WriteOperand, Data
<1> QED BY <1>1, <1>2

LEMMA ReadOperandWord ==
  ASSUME Data, NEW o \in Operand PROVE ReadOperand(o, WORD) \in Word
  BY ReadOperandType, WordFacts, Zenon DEF Word

(* Flags *)

LEMMA FlagFields ==
  ASSUME FlagData
  PROVE  /\ flags.CF \in BOOLEAN /\ flags.ZF \in BOOLEAN /\ flags.SF \in BOOLEAN
         /\ flags.PF \in BOOLEAN /\ flags.AF \in BOOLEAN /\ flags.OF \in BOOLEAN
         /\ modes.TF \in BOOLEAN /\ modes.IE \in BOOLEAN /\ modes.DF \in BOOLEAN
  BY Zenon DEF FlagData, FlagSet, ModeSet

LEMMA ModeRecord ==
  ASSUME NEW t \in BOOLEAN, NEW i \in BOOLEAN, NEW d \in BOOLEAN
  PROVE  [TF |-> t, IE |-> i, DF |-> d] \in ModeSet
  BY Zenon DEF ModeSet

LEMMA Member == ASSUME NEW a, NEW S PROVE (a \in S) \in BOOLEAN
  BY SMT

LEMMA FromWordType == ASSUME NEW v, fromWord(v) PROVE FlagData'
<1> DEFINE S == Bits(v)
           c == 0 \in S
           p == 2 \in S
           a == 4 \in S
           z == 6 \in S
           s == 7 \in S
           o == 11 \in S
           t == 8 \in S
           i == 9 \in S
           d == 10 \in S
<1>1. /\ flags' = [CF |-> c, PF |-> p, AF |-> a, ZF |-> z, SF |-> s, OF |-> o]
      /\ modes' = [TF |-> t, IE |-> i, DF |-> d]
  BY DEF fromWord
<1>2. /\ c \in BOOLEAN /\ p \in BOOLEAN /\ a \in BOOLEAN /\ z \in BOOLEAN /\ s \in BOOLEAN
      /\ o \in BOOLEAN /\ t \in BOOLEAN /\ i \in BOOLEAN /\ d \in BOOLEAN
  BY Member
<1> HIDE DEF c, p, a, z, s, o, t, i, d
<1>3. flags' \in FlagSet
  BY <1>1, <1>2, Zenon DEF FlagSet
<1>4. modes' \in ModeSet
  BY <1>1, <1>2, Zenon DEF ModeSet
<1> QED BY <1>3, <1>4, Zenon DEF FlagData

LEMMA FlagsKept == ASSUME FlagData, KeepFlags PROVE FlagData'
  BY Zenon DEF FlagData, KeepFlags

LEMMA ToWordType == toWord \in Word
  BY ValueType, Zenon DEF toWord

(* The frame and the history *)

LEMMA NoMemory == IsMemory([c \in {} |-> 0])
  BY Zenon DEF IsMemory

LEMMA ZeroWord == 0 \in Word
  BY InWord, SMT

LEMMA NoFlagsType == NoFlags \in FlagSet
  BY Zenon DEF NoFlags, FlagSet

LEMMA NoJobType == IsJob(NoJob)
<1>1. NoJob.regs \in RegSet
  BY ZeroWord, Zenon DEF NoJob, RegSet
<1>2. /\ NoJob.op = "none" /\ NoJob.w = BYTE /\ NoJob.rep = "" /\ NoJob.n = 0
      /\ NoJob.active = FALSE /\ NoJob.mem = [c \in {} |-> 0]
  BY Zenon DEF NoJob
<1>3. 0 \in Nat
  BY SMT
<1> QED BY <1>1, <1>2, <1>3, NoMemory, WordFacts, Zenon DEF IsJob

LEMMA EntryRecord ==
  ASSUME NEW op \in Pops, NEW r \in Reg, NEW v \in Word, NEW rs \in RegSet,
         NEW ss \in [SegReg -> Word], NEW f \in FlagSet, NEW md \in ModeSet, NEW n \in Nat
  PROVE  [op |-> op, r |-> r, word |-> v, regs |-> rs, segs |-> ss,
          flags |-> f, modes |-> md, pc |-> n] \in EntrySet
  BY Zenon DEF EntrySet, Pops

LEMMA EntryType ==
  ASSUME Data, FlagData, Frame, NEW op \in Pops, NEW r \in Reg, NEW v \in Word
  PROVE  Entry(op, r, v) \in EntrySet
  BY EntryRecord, Zenon DEF Entry, Data, FlagData, Frame

LEMMA EntryParts ==
  ASSUME NEW e \in EntrySet
  PROVE  /\ e.op \in Pops /\ e.r \in Reg /\ e.word \in Word /\ e.regs \in RegSet
         /\ e.segs \in [SegReg -> Word] /\ e.flags \in FlagSet /\ e.modes \in ModeSet
         /\ e.pc \in Nat
  BY Zenon DEF EntrySet, Pops

LEMMA NoEntryType == NoEntry \in EntrySet
<1>1. [r \in Reg |-> 0] \in RegSet /\ [s \in SegReg |-> 0] \in [SegReg -> Word]
  BY ZeroWord, Zenon DEF RegSet
<1>2. "none" \in Pops /\ 0 \in Reg /\ 0 \in Nat
  BY SMT DEF Pops, Reg
<1>3. [TF |-> FALSE, IE |-> FALSE, DF |-> FALSE] \in ModeSet
  BY ModeRecord
<1> QED BY <1>1, <1>2, <1>3, ZeroWord, NoFlagsType, EntryRecord, Zenon DEF NoEntry

LEMMA NoPopType == IsPopped(NoPop)
<1>1. "none" \in Pops /\ 0 \in Reg
  BY SMT DEF Pops, Reg
<1> QED BY <1>1, NoEntryType, Zenon DEF NoPop, IsPopped

LEMMA OnceType ==
  ASSUME Frame, NEW n \in Nat, Goto(n), Once
  PROVE  Frame'
<1>1. job' = NoJob /\ prog' = prog /\ pc' = n /\ out' = out
  BY Zenon DEF Goto, Once
<1> QED BY <1>1, NoJobType, Zenon DEF Frame

LEMMA KeptType == ASSUME History, StackKept PROVE History'
<1>1. (stack' = stack \/ stack' = <<>>) /\ popped' = NoPop
  BY Zenon DEF StackKept
<1> QED BY <1>1, EmptySeq, NoPopType, Zenon DEF History

LEMMA NextPlace == ASSUME Frame PROVE pc + 1 \in Nat /\ Len(prog) + 1 \in Nat
<1>1. pc \in Nat /\ prog \in Seq(Instruction)
  BY Zenon DEF Frame, IsCode
<1> QED BY <1>1, SMT

LEMMA PlainType == ASSUME Frame, History, Plain PROVE Frame' /\ History'
<1>1. Goto(pc + 1) /\ StackKept /\ Once
  BY Zenon DEF Plain
<1> QED BY <1>1, NextPlace, OnceType, KeptType

LEMMA PlaceInWord ==
  ASSUME Frame, pc \in 1 .. Len(prog) PROVE pc + 1 \in Word
<1>1. /\ pc \in Nat /\ Len(prog) \in Nat /\ Len(prog) < WORD - 1 /\ pc <= Len(prog)
  <2>1. prog \in Seq(Instruction) /\ Len(prog) < WORD - 1 /\ pc \in Nat
    BY Zenon DEF Frame, IsCode
  <2> QED BY <2>1, SMT
<1> QED BY <1>1, WordFacts, Sizes, InWord, SMT

-------------------------------------------------------------------------------
(* Every action keeps the types *)

LEMMA RunsType ==
  ASSUME TypeOK, NEW op, Runs(op)
  PROVE  /\ Data /\ FlagData /\ Frame /\ History
         /\ pc \in 1 .. Len(prog) /\ IsInstruction(ins) /\ ins.op = op
         /\ ins.w \in Width /\ ins.r \in Reg /\ ins.o \in Operand /\ ins.v \in Word
<1>1. Data /\ FlagData /\ Frame /\ History
  BY TypeParts
<1>2. pc \in 1 .. Len(prog) /\ ins.op = op
  BY Zenon DEF Runs
<1> QED BY <1>1, <1>2, InstructionType

\* The instructions that write an operand and nothing else.
LEMMA WritingType ==
  ASSUME TypeOK, NEW op, Runs(op), NEW w \in Width, NEW v \in 0 .. w - 1,
         WriteOperand(ins.o, v, w), UNCHANGED segs, KeepFlags, Plain
  PROVE  TypeOK'
<1>1. Data /\ FlagData /\ Frame /\ History /\ ins.o \in Operand
  BY RunsType
<1>2. regs' \in RegSet /\ IsMemory(mem')
  BY <1>1, WriteOperandType
<1>3. Data'
  BY <1>1, <1>2, Zenon DEF Data
<1> QED BY <1>1, <1>3, FlagsKept, PlainType, TypePartsNext

LEMMA MovImmediateType == ASSUME TypeOK, MovImmediate PROVE TypeOK'
<1>1. /\ Runs("MOVI") /\ WriteOperand(ins.o, ins.v % ins.w, ins.w)
      /\ UNCHANGED segs /\ KeepFlags /\ Plain
  BY Zenon DEF MovImmediate
<1>2. ins.w \in Width /\ ins.v \in Int
  BY <1>1, RunsType, WordFacts
<1>3. ins.v % ins.w \in 0 .. ins.w - 1
  BY <1>2, ModType
<1> QED BY <1>1, <1>2, <1>3, WritingType

LEMMA MovToType == ASSUME TypeOK, MovTo PROVE TypeOK'
<1>1. /\ Runs("MOVTO") /\ WriteOperand(ins.o, GetReg(ins.r, ins.w), ins.w)
      /\ UNCHANGED segs /\ KeepFlags /\ Plain
  BY Zenon DEF MovTo
<1>2. Data /\ ins.w \in Width /\ ins.r \in Reg
  BY <1>1, RunsType
<1> QED BY <1>1, <1>2, GetRegType, WritingType

LEMMA MovFromSegmentType == ASSUME TypeOK, MovFromSegment PROVE TypeOK'
<1>1. /\ Runs("MOVFROMSEG") /\ WriteOperand(ins.o, segs[ins.r], WORD)
      /\ UNCHANGED segs /\ KeepFlags /\ Plain
  BY Zenon DEF MovFromSegment
<1>2. Data /\ ins.r \in SegReg
  BY <1>1, RunsType DEF IsInstruction
<1>3. segs[ins.r] \in 0 .. WORD - 1
  BY <1>2, SegmentType, Zenon DEF Word
<1> QED BY <1>1, <1>3, WordFacts, WritingType

\* The instructions that compute registers and nothing else.
LEMMA ComputingType ==
  ASSUME TypeOK, NEW op, Runs(op), regs' \in RegSet, UNCHANGED <<segs, mem>>, KeepFlags, Plain
  PROVE  TypeOK'
<1>1. Data /\ FlagData /\ Frame /\ History
  BY RunsType
<1>2. Data'
  BY <1>1, Zenon DEF Data
<1> QED BY <1>1, <1>2, FlagsKept, PlainType, TypePartsNext

LEMMA MovFromType == ASSUME TypeOK, MovFrom PROVE TypeOK'
<1>1. /\ Runs("MOVFROM") /\ regs' = SetReg(regs, ins.r, ReadOperand(ins.o, ins.w), ins.w)
      /\ UNCHANGED <<segs, mem>> /\ KeepFlags /\ Plain
  BY Zenon DEF MovFrom
<1>2. Data /\ ins.w \in Width /\ ins.r \in Reg /\ ins.o \in Operand /\ regs \in RegSet
  BY <1>1, RunsType DEF Data
<1>3. regs' \in RegSet
  BY <1>1, <1>2, ReadOperandType, SetRegType
<1> QED BY <1>1, <1>3, ComputingType

LEMMA MovToSegmentType == ASSUME TypeOK, MovToSegment PROVE TypeOK'
<1>1. /\ Runs("MOVTOSEG") /\ segs' = [segs EXCEPT ![ins.r] = ReadOperand(ins.o, WORD)]
      /\ UNCHANGED <<regs, mem>> /\ KeepFlags /\ Plain
  BY Zenon DEF MovToSegment
<1>2. Data /\ FlagData /\ Frame /\ History /\ ins.r \in SegReg /\ ins.o \in Operand
  BY <1>1, RunsType DEF IsInstruction
<1>3. Data'
  BY <1>1, <1>2, ReadOperandWord, SetSegment, Zenon DEF Data
<1> QED BY <1>1, <1>2, <1>3, FlagsKept, PlainType, TypePartsNext

LEMMA DirectType == ASSUME Data, ins.o \in Operand, ins.v \in Word PROVE Direct \in Nat
<1>1. (IF ins.o.over = NoOverride THEN DS ELSE ins.o.over) \in SegReg
  BY OperandParts, Registers, Zenon
<1> QED BY <1>1, SegmentType, PhysicalType, Zenon DEF Direct

LEMMA LoadAccumulatorType == ASSUME TypeOK, LoadAccumulator PROVE TypeOK'
<1>1. /\ Runs("LOADA") /\ regs' = SetReg(regs, AX, Read(mem, Direct, ins.w), ins.w)
      /\ UNCHANGED <<segs, mem>> /\ KeepFlags /\ Plain
  BY Zenon DEF LoadAccumulator
<1>2. ins.w \in Width /\ regs \in RegSet /\ IsMemory(mem)
  BY <1>1, RunsType DEF Data
<1>3. regs' \in RegSet
  <2>1. Read(mem, Direct, ins.w) \in 0 .. ins.w - 1
    BY <1>2, ReadType
  <2> QED BY <1>1, <1>2, <2>1, Registers, SetRegType
<1> QED BY <1>1, <1>3, ComputingType

LEMMA StoreAccumulatorType == ASSUME TypeOK, StoreAccumulator PROVE TypeOK'
<1>1. /\ Runs("STOREA") /\ mem' = Write(mem, Direct, GetReg(AX, ins.w), ins.w)
      /\ UNCHANGED <<regs, segs>> /\ KeepFlags /\ Plain
  BY Zenon DEF StoreAccumulator
<1>2. /\ Data /\ FlagData /\ Frame /\ History
      /\ ins.w \in Width /\ ins.o \in Operand /\ ins.v \in Word
  BY <1>1, RunsType
<1>3. IsMemory(mem')
  <2>1. Direct \in Nat /\ IsMemory(mem)
    BY <1>2, DirectType DEF Data
  <2>2. GetReg(AX, ins.w) \in 0 .. ins.w - 1
    BY <1>2, GetRegType, Registers
  <2> QED BY <1>1, <1>2, <2>1, <2>2, WriteType
<1>4. Data'
  BY <1>1, <1>2, <1>3, Zenon DEF Data
<1> QED BY <1>1, <1>2, <1>4, FlagsKept, PlainType, TypePartsNext

\* LEA adds up what the decoder adds up.
LEMMA LeaOffsetIs == ASSUME Data, NEW o \in Operand PROVE LeaOffset(o) = Offset(o)
<1>1. LeaBase(o.rm) = Base(o.rm)
  BY OperandParts, BaseType
<1> DEFINE d == CASE o.mod = 0 -> 0
                  [] o.mod = 1 -> Signed(o.disp % BYTE, BYTE)
                  [] o.mod = 2 -> o.disp
<1>2. LeaOffset(o) = IF IsDirect(o) THEN o.disp ELSE (LeaBase(o.rm) + d) % WORD
  BY DEF LeaOffset, IsDirect
<1>3. Displacement(o) = d
  BY DEF Displacement
<1> HIDE DEF d
<1> QED BY <1>1, <1>2, <1>3, Zenon DEF Offset

LEMMA LeaType == ASSUME TypeOK, Lea PROVE TypeOK'
<1>1. /\ Runs("LEA") /\ UNCHANGED <<segs, mem>> /\ KeepFlags /\ StackKept /\ Once
      /\ \/ ins.o.mod = 3 /\ UNCHANGED regs /\ Goto(Len(prog) + 1)
         \/ /\ ins.o.mod # 3 /\ regs' = [regs EXCEPT ![ins.r] = LeaOffset(ins.o)]
            /\ Goto(pc + 1)
  BY Zenon DEF Lea, setError
<1>2. Data /\ FlagData /\ Frame /\ History /\ ins.r \in Reg /\ ins.o \in Operand
  BY <1>1, RunsType
<1>3. Frame'
  BY <1>1, <1>2, NextPlace, OnceType
<1>4. CASE ins.o.mod = 3
  <2>1. Data'
    BY <1>1, <1>2, <1>4, Zenon DEF Data
  <2> QED BY <1>1, <1>2, <1>3, <2>1, FlagsKept, KeptType, TypePartsNext
<1>5. CASE ins.o.mod # 3
  <2>1. LeaOffset(ins.o) \in Word
    BY <1>2, <1>5, LeaOffsetIs, OffsetType
  <2>2. regs' \in RegSet
    BY <1>1, <1>2, <1>5, <2>1, SetWord DEF Data
  <2>3. Data'
    BY <1>1, <1>2, <2>2, Zenon DEF Data
  <2> QED BY <1>1, <1>2, <1>3, <2>3, FlagsKept, KeptType, TypePartsNext
<1> QED BY <1>4, <1>5

LEMMA XchgAccumulatorType == ASSUME TypeOK, XchgAccumulator PROVE TypeOK'
<1>1. /\ Runs("XCHGA")
      /\ regs' = SetReg(SetReg(regs, AX, regs[ins.r], WORD), ins.r, regs[AX], WORD)
      /\ UNCHANGED <<segs, mem>> /\ KeepFlags /\ Plain
  BY Zenon DEF XchgAccumulator
<1>2. Data /\ ins.r \in Reg /\ regs \in RegSet
  BY <1>1, RunsType DEF Data
<1>3. regs[ins.r] \in 0 .. WORD - 1 /\ regs[AX] \in 0 .. WORD - 1
  BY <1>2, RegisterType, Registers, Zenon DEF Word
<1>4. regs' \in RegSet
  BY <1>1, <1>2, <1>3, Registers, WordFacts, SetRegType
<1> QED BY <1>1, <1>4, ComputingType

LEMMA XchgType == ASSUME TypeOK, Xchg PROVE TypeOK'
<1> DEFINE a == ReadOperand(ins.o, ins.w)
           b == GetReg(ins.r, ins.w)
<1>1. /\ Runs("XCHG") /\ UNCHANGED segs /\ KeepFlags /\ Plain
      /\ \/ /\ ins.o.mod = 3
            /\ regs' = SetReg(SetReg(regs, ins.o.rm, b, ins.w), ins.r, a, ins.w)
            /\ UNCHANGED mem
         \/ /\ ins.o.mod # 3
            /\ regs' = SetReg(regs, ins.r, a, ins.w)
            /\ mem' = Write(mem, Address(ins.o), b, ins.w)
  BY DEF Xchg
<1>2. /\ Data /\ FlagData /\ Frame /\ History
      /\ ins.r \in Reg /\ ins.w \in Width /\ ins.o \in Operand /\ ins.o.rm \in Reg
      /\ regs \in RegSet /\ IsMemory(mem)
  BY <1>1, RunsType, OperandParts DEF Data
<1>3. a \in 0 .. ins.w - 1 /\ b \in 0 .. ins.w - 1
  BY <1>2, ReadOperandType, GetRegType
<1> HIDE DEF a, b
<1>4. regs' \in RegSet
  BY <1>1, <1>2, <1>3, SetRegType
<1>5. IsMemory(mem')
  BY <1>1, <1>2, <1>3, AddressType, WriteType
<1>6. Data'
  BY <1>1, <1>2, <1>4, <1>5, Zenon DEF Data
<1> QED BY <1>1, <1>2, <1>6, FlagsKept, PlainType, TypePartsNext

LEMMA LahfType == ASSUME TypeOK, Lahf PROVE TypeOK'
<1>1. /\ Runs("LAHF") /\ regs' = SetReg(regs, AH, toWord % BYTE, BYTE)
      /\ UNCHANGED <<segs, mem>> /\ KeepFlags /\ Plain
  BY Zenon DEF Lahf
<1>2. regs \in RegSet
  BY <1>1, RunsType DEF Data
<1>3. regs' \in RegSet
  BY <1>1, <1>2, ToWordType, Bytes, Registers, WordFacts, SetRegType
<1> QED BY <1>1, <1>3, ComputingType

LEMMA FlaggingType ==
  ASSUME TypeOK, NEW op, Runs(op), FlagData', UNCHANGED <<regs, segs, mem>>, Plain
  PROVE  TypeOK'
<1>1. Data /\ Frame /\ History
  BY RunsType
<1>2. Data'
  BY <1>1, Zenon DEF Data
<1> QED BY <1>1, <1>2, PlainType, TypePartsNext

LEMMA SahfType == ASSUME TypeOK, Sahf PROVE TypeOK'
<1>1. /\ Runs("SAHF") /\ fromWord(toWord - (toWord % BYTE) + GetReg(AH, BYTE))
      /\ UNCHANGED <<regs, segs, mem>> /\ Plain
  BY Zenon DEF Sahf
<1> QED BY <1>1, FromWordType, FlaggingType

LEMMA SetModeType ==
  ASSUME TypeOK, NEW op, NEW m \in ModeSet, SetMode(op, m) PROVE TypeOK'
<1>1. /\ Runs(op) /\ modes' = m /\ UNCHANGED <<regs, segs, mem, flags>> /\ Plain
  BY Zenon DEF SetMode
<1>2. FlagData'
  BY <1>1, RunsType, Zenon DEF FlagData
<1> QED BY <1>1, <1>2, FlaggingType

LEMMA ModesType ==
  ASSUME TypeOK
  PROVE  /\ [modes EXCEPT !.DF = FALSE] \in ModeSet /\ [modes EXCEPT !.DF = TRUE] \in ModeSet
         /\ [modes EXCEPT !.IE = FALSE] \in ModeSet /\ [modes EXCEPT !.IE = TRUE] \in ModeSet
<1>1. modes \in ModeSet
  BY TypeParts DEF FlagData
<1> QED BY <1>1, Zenon DEF ModeSet

LEMMA JumpToType ==
  ASSUME TypeOK, NEW op, Runs(op), regs' \in RegSet, NEW n \in Nat, JumpTo(n) PROVE TypeOK'
<1>1. Goto(n) /\ UNCHANGED <<segs, mem>> /\ KeepFlags /\ StackKept /\ Once
  BY Zenon DEF JumpTo
<1>2. Data /\ FlagData /\ Frame /\ History
  BY RunsType
<1>3. Data'
  BY <1>1, <1>2, Zenon DEF Data
<1> QED BY <1>1, <1>2, <1>3, FlagsKept, OnceType, KeptType, TypePartsNext

LEMMA WordIsNat == ASSUME NEW v \in Word PROVE v \in Nat
  BY InWord, WordFacts, SMT

LEMMA JmpType == ASSUME TypeOK, Jmp PROVE TypeOK'
<1>1. Runs("JMP") /\ UNCHANGED regs /\ JumpTo(ins.v)
  BY Zenon DEF Jmp
<1>2. ins.v \in Word /\ regs \in RegSet
  BY <1>1, RunsType DEF Data
<1> QED BY <1>1, <1>2, WordIsNat, JumpToType

LEMMA JmpOperandType == ASSUME TypeOK, JmpOperand PROVE TypeOK'
<1>1. Runs("JMPO") /\ UNCHANGED regs /\ JumpTo(ReadOperand(ins.o, WORD))
  BY Zenon DEF JmpOperand
<1>2. Data /\ ins.o \in Operand /\ regs \in RegSet
  BY <1>1, RunsType DEF Data
<1> QED BY <1>1, <1>2, ReadOperandWord, WordIsNat, JumpToType

LEMMA LoopWhileType == ASSUME TypeOK, NEW op, NEW more, LoopWhile(op, more) PROVE TypeOK'
<1>1. /\ Runs(op) /\ regs' = [regs EXCEPT ![CX] = (@ - 1) % WORD]
      /\ (JumpTo(ins.v) \/ JumpTo(pc + 1))
  <2>1. JumpTo(IF regs[CX] # 1 /\ more THEN ins.v ELSE pc + 1)
    BY Zenon DEF LoopWhile
  <2> QED BY <2>1 DEF LoopWhile
<1>2. Data /\ Frame /\ ins.v \in Word /\ regs \in RegSet
  BY <1>1, RunsType DEF Data
<1>3. (regs[CX] - 1) % WORD \in Word
  BY <1>2, RegisterType, Registers, ModWord, SMT
<1>4. regs' \in RegSet
  BY <1>1, <1>2, <1>3, Registers, SetWord, Zenon
<1> QED BY <1>1, <1>2, <1>4, NextPlace, WordIsNat, JumpToType

(* The stack *)

LEMMA PushType ==
  ASSUME TypeOK, NEW o, Runs(o), NEW op \in Pops, NEW r \in Reg, NEW v \in Word,
         Push(op, r, v), NEW n \in Nat, Goto(n)
  PROVE  TypeOK'
<1> DEFINE sp == (regs[SP] - 2) % WORD
           e == Entry(op, r, v)
<1>1. /\ regs' = [regs EXCEPT ![SP] = sp]
      /\ mem' = Write(mem, Physical(segs[SS], sp), v, WORD)
      /\ stack' = Append(stack, e) \/ stack' = <<>>
      /\ popped' = NoPop
      /\ UNCHANGED segs /\ KeepFlags /\ Once
  BY Zenon DEF Push
<1>2. Data /\ FlagData /\ Frame /\ History
  BY RunsType
<1>3. sp \in Word
  <2>1. regs[SP] - 2 \in Int
    BY <1>2, RegisterType, Registers, SMT
  <2> QED BY <2>1, ModWord
<1>4. e \in EntrySet
  BY <1>2, EntryType
<1> HIDE DEF sp, e
<1>5. IsMemory(mem')
  BY <1>1, <1>2, <1>3, SegmentType, Registers, PhysicalType, WordFacts, WriteType DEF Data, Word
<1>6. regs' \in RegSet
  BY <1>1, <1>2, <1>3, SetWord, Registers, Zenon DEF Data
<1>7. Data'
  BY <1>1, <1>2, <1>5, <1>6, Zenon DEF Data
<1>8. stack' \in Seq(EntrySet)
  <2>1. Append(stack, e) \in Seq(EntrySet)
    BY <1>2, <1>4, AppendProperties DEF History
  <2> QED BY <1>1, <2>1, EmptySeq
<1>9. History'
  BY <1>1, <1>8, NoPopType, Zenon DEF History
<1> QED BY <1>1, <1>2, <1>7, <1>9, FlagsKept, OnceType, TypePartsNext

LEMMA PushedType == ASSUME Data, NEW r \in Reg PROVE Pushed(r) \in Word
<1>1. regs[SP] - 2 \in Int
  BY RegisterType, Registers, SMT
<1> QED BY <1>1, ModWord, RegisterType, Zenon DEF Pushed

LEMMA PushesType ==
  ASSUME TypeOK
  PROVE  /\ PushRegister => TypeOK'
         /\ PushSegment => TypeOK'
         /\ PushOperand => TypeOK'
         /\ PushFlags => TypeOK'
         /\ Call => TypeOK'
         /\ CallOperand => TypeOK'
<1>1. {"PUSH", "PUSHS", "PUSHO", "PUSHF", "CALL"} \subseteq Pops /\ 0 \in Reg
  BY SMT DEF Pops, Stacking, Control, Reg
<1>2. Data /\ Frame /\ pc + 1 \in Nat
  BY TypeParts, NextPlace
<1>3. ASSUME PushRegister PROVE TypeOK'
  <2>1. Runs("PUSH") /\ Push("PUSH", ins.r, Pushed(ins.r)) /\ Goto(pc + 1)
    BY <1>3, Zenon DEF PushRegister
  <2>2. ins.r \in Reg
    BY <2>1, RunsType
  <2> QED BY <1>1, <1>2, <2>1, <2>2, PushedType, PushType
<1>4. ASSUME PushSegment PROVE TypeOK'
  <2>1. Runs("PUSHS") /\ Push("PUSHS", ins.r, segs[ins.r]) /\ Goto(pc + 1)
    BY <1>4, Zenon DEF PushSegment
  <2>2. ins.r \in Reg /\ ins.r \in SegReg
    BY <2>1, RunsType DEF IsInstruction
  <2> QED BY <1>1, <1>2, <2>1, <2>2, SegmentType, PushType
<1>5. ASSUME PushOperand PROVE TypeOK'
  <2>1. Runs("PUSHO") /\ Push("PUSHO", 0, ReadOperand(ins.o, WORD)) /\ Goto(pc + 1)
    BY <1>5, Zenon DEF PushOperand
  <2>2. ins.o \in Operand
    BY <2>1, RunsType
  <2> QED BY <1>1, <1>2, <2>1, <2>2, ReadOperandWord, PushType
<1>6. ASSUME PushFlags PROVE TypeOK'
  <2>1. Runs("PUSHF") /\ Push("PUSHF", 0, toWord) /\ Goto(pc + 1)
    BY <1>6, Zenon DEF PushFlags
  <2> QED BY <1>1, <1>2, <2>1, ToWordType, PushType
<1>7. ASSUME Call PROVE TypeOK'
  <2>1. Runs("CALL") /\ Push("CALL", 0, pc + 1) /\ Goto(ins.v)
    BY <1>7, Zenon DEF Call
  <2>2. ins.v \in Nat /\ pc + 1 \in Word
    BY <1>2, <2>1, RunsType, WordIsNat, PlaceInWord
  <2> QED BY <1>1, <1>2, <2>1, <2>2, PushType
<1>8. ASSUME CallOperand PROVE TypeOK'
  <2>1. Runs("CALLO") /\ Push("CALL", 0, pc + 1) /\ Goto(ReadOperand(ins.o, WORD))
    BY <1>8, Zenon DEF CallOperand
  <2>2. ReadOperand(ins.o, WORD) \in Nat /\ pc + 1 \in Word
    BY <1>2, <2>1, RunsType, ReadOperandWord, WordIsNat, PlaceInWord
  <2> QED BY <1>1, <1>2, <2>1, <2>2, PushType
<1> QED BY <1>3, <1>4, <1>5, <1>6, <1>7, <1>8

LEMMA PushedAllType ==
  ASSUME Data, NEW m, IsMemory(m), NEW r \in Reg PROVE IsMemory(PushedAll(m, r))
<1> DEFINE p == (regs[SP] - 2 * (r + 1)) % WORD
<1>1. p \in Word
  <2>1. regs[SP] - 2 * (r + 1) \in Int
    BY RegisterType, Registers, SMT DEF Reg
  <2> QED BY <2>1, ModWord
<1>2. PushedAll(m, r) = Write(m, Physical(segs[SS], p), regs[r], WORD)
  BY DEF PushedAll
<1> HIDE DEF p
<1>3. Physical(segs[SS], p) \in Nat /\ regs[r] \in 0 .. WORD - 1
  BY <1>1, SegmentType, Registers, PhysicalType, RegisterType DEF Word
<1> QED BY <1>2, <1>3, WordFacts, WriteType

LEMMA PushAllType == ASSUME TypeOK, PushAll PROVE TypeOK'
<1> DEFINE m1 == PushedAll(mem, AX)
           m2 == PushedAll(m1, CX)
           m3 == PushedAll(m2, DX)
           m4 == PushedAll(m3, BX)
           m5 == PushedAll(m4, SP)
           m6 == PushedAll(m5, BP)
           m7 == PushedAll(m6, SI)
           es == [k \in 1 .. 8 |-> Entry("PUSHA", k - 1, regs[k - 1])]
<1>1. /\ Runs("PUSHA") /\ mem' = PushedAll(m7, DI)
      /\ regs' = [regs EXCEPT ![SP] = (@ - 16) % WORD]
      /\ stack' = stack \o es \/ stack' = <<>>
      /\ popped' = NoPop
      /\ UNCHANGED segs /\ KeepFlags /\ Once /\ Goto(pc + 1)
  BY DEF PushAll
<1>2. Data /\ FlagData /\ Frame /\ History /\ regs \in RegSet
  BY <1>1, RunsType DEF Data
<1>3. IsMemory(m1)
  BY <1>2, PushedAllType, Registers DEF Data
<1> HIDE DEF m1
<1>4. IsMemory(m2)
  BY <1>2, <1>3, PushedAllType, Registers
<1> HIDE DEF m2
<1>5. IsMemory(m3)
  BY <1>2, <1>4, PushedAllType, Registers
<1> HIDE DEF m3
<1>6. IsMemory(m4)
  BY <1>2, <1>5, PushedAllType, Registers
<1> HIDE DEF m4
<1>7. IsMemory(m5)
  BY <1>2, <1>6, PushedAllType, Registers
<1> HIDE DEF m5
<1>8. IsMemory(m6)
  BY <1>2, <1>7, PushedAllType, Registers
<1> HIDE DEF m6
<1>9. IsMemory(m7)
  BY <1>2, <1>8, PushedAllType, Registers
<1> HIDE DEF m7
<1>10. IsMemory(mem')
  BY <1>1, <1>2, <1>9, PushedAllType, Registers
<1>11. regs' \in RegSet
  <2>1. (regs[SP] - 16) % WORD \in Word
    BY <1>2, RegisterType, Registers, ModWord, SMT
  <2> QED BY <1>1, <1>2, <2>1, SetWord, Registers, Zenon
<1>12. Data'
  BY <1>1, <1>2, <1>10, <1>11, Zenon DEF Data
<1>13. es \in Seq(EntrySet)
  <2>1. \A k \in 1 .. 8 : Entry("PUSHA", k - 1, regs[k - 1]) \in EntrySet
    <3> TAKE k \in 1 .. 8
    <3>1. k - 1 \in Reg /\ "PUSHA" \in Pops
      BY SMT DEF Reg, Pops, Stacking
    <3>2. regs[k - 1] \in Word
      BY <1>2, <3>1, RegisterType
    <3> QED BY <1>2, <3>1, <3>2, EntryType
  <2>2. es \in [1 .. 8 -> EntrySet]
    BY <2>1, Zenon
  <2>3. 8 \in Nat
    BY SMT
  <2> QED BY <2>2, <2>3, SeqDef
<1> HIDE DEF es
<1>14. stack \o es \in Seq(EntrySet)
  BY <1>2, <1>13, ConcatProperties DEF History
<1>15. History'
  <2>1. stack' \in Seq(EntrySet)
    BY <1>1, <1>14, EmptySeq
  <2> QED BY <1>1, <2>1, NoPopType, Zenon DEF History
<1> QED BY <1>1, <1>2, <1>12, <1>15, NextPlace, FlagsKept, OnceType, TypePartsNext

LEMMA TopType == ASSUME Data, NEW n PROVE Top(n) \in Word
  BY ReadWord, Zenon DEF Top

LEMMA PoppedType == ASSUME NEW rs \in RegSet PROVE Popped(rs) \in RegSet
<1>1. rs[SP] + 2 \in Int
  <2>1. rs[SP] \in Word
    BY Registers, Zenon DEF RegSet
  <2>2. rs[SP] \in Int
    BY <2>1, WordFacts
  <2> QED BY <2>2, SMT
<1>2. (rs[SP] + 2) % WORD \in Word
  BY <1>1, ModWord
<1> QED BY <1>2, SetWord, Registers, Zenon DEF Popped

\* The last entry of the history, and what is below it.
LEMMA LastEntry ==
  ASSUME History, stack # <<>>
  PROVE  /\ stack[Len(stack)] \in EntrySet /\ Len(stack) \in 1 .. Len(stack)
         /\ Len(stack) \in Nat
         /\ \A n \in 0 .. Len(stack) :
                /\ SubSeq(stack, 1, n) \in Seq(EntrySet) /\ Len(SubSeq(stack, 1, n)) = n
                /\ \A k \in 1 .. n : SubSeq(stack, 1, n)[k] = stack[k]
<1>1. stack \in Seq(EntrySet)
  BY DEF History
<1>2. Len(stack) \in Nat \ {0}
  BY <1>1, EmptySeq
<1>3. Len(stack) \in 1 .. Len(stack)
  BY <1>2, SMT
<1>4. stack[Len(stack)] \in EntrySet
  BY <1>1, <1>3, ElementOfSeq
<1>5. ASSUME NEW n \in 0 .. Len(stack)
      PROVE  /\ SubSeq(stack, 1, n) \in Seq(EntrySet) /\ Len(SubSeq(stack, 1, n)) = n
             /\ \A k \in 1 .. n : SubSeq(stack, 1, n)[k] = stack[k]
  <2>1. \A k \in 1 .. n : stack[k] \in EntrySet
    <3> TAKE k \in 1 .. n
    <3>1. k \in 1 .. Len(stack)
      BY <1>2, SMT
    <3> QED BY <1>1, <3>1, ElementOfSeq
  <2>2. 1 \in Int /\ n \in Int
    BY <1>2, SMT
  <2>3. /\ SubSeq(stack, 1, n) \in Seq(EntrySet)
        /\ Len(SubSeq(stack, 1, n)) = IF 1 <= n THEN n - 1 + 1 ELSE 0
        /\ \A k \in 1 .. n - 1 + 1 : SubSeq(stack, 1, n)[k] = stack[1 + k - 1]
    BY <2>1, <2>2, SubSeqProperties
  <2>4. \A k \in 1 .. n : k \in 1 .. n - 1 + 1 /\ 1 + k - 1 = k
    BY <2>2, SMT
  <2>5. Len(SubSeq(stack, 1, n)) = n
    BY <2>2, <2>3, SMT
  <2> QED BY <2>3, <2>4, <2>5
<1> QED BY <1>2, <1>3, <1>4, <1>5

LEMMA PopHistory ==
  ASSUME History, NEW op \in Pops, NEW r \in Reg, Pop(op, r) PROVE History'
<1>1. /\ stack' = <<>> \/ (stack # <<>> /\ stack' = SubSeq(stack, 1, Len(stack) - 1))
      /\ popped' = [op |-> op, r |-> r,
                    from |-> IF stack = <<>> THEN NoEntry ELSE stack[Len(stack)]]
  BY Zenon DEF Pop
<1>2. stack' \in Seq(EntrySet)
  <2>1. CASE stack' = <<>>
    BY <2>1, EmptySeq
  <2>2. CASE stack # <<>> /\ stack' = SubSeq(stack, 1, Len(stack) - 1)
    <3>1. Len(stack) - 1 \in 0 .. Len(stack)
      BY <2>2, LastEntry, SMT
    <3> QED BY <2>2, <3>1, LastEntry
  <2> QED BY <1>1, <2>1, <2>2
<1>3. (IF stack = <<>> THEN NoEntry ELSE stack[Len(stack)]) \in EntrySet
  BY LastEntry, NoEntryType
<1>4. IsPopped(popped')
  BY <1>1, <1>3, Zenon DEF IsPopped
<1> QED BY <1>2, <1>4, Zenon DEF History

LEMMA PopType ==
  ASSUME TypeOK, NEW o, Runs(o), NEW op \in Pops, NEW r \in Reg, Pop(op, r),
         regs' \in RegSet, segs' \in [SegReg -> Word], FlagData', NEW n \in Nat, Goto(n)
  PROVE  TypeOK'
<1>1. UNCHANGED mem /\ Once
  BY DEF Pop
<1>2. Data /\ Frame /\ History
  BY RunsType
<1>3. Data'
  BY <1>1, <1>2, Zenon DEF Data
<1> QED BY <1>1, <1>2, <1>3, PopHistory, OnceType, TypePartsNext

LEMMA PopsType ==
  ASSUME TypeOK
  PROVE  /\ PopRegister => TypeOK'
         /\ PopSegment => TypeOK'
         /\ PopFlags => TypeOK'
         /\ Ret => TypeOK'
<1>1. {"POP", "POPS", "POPF", "RET"} \subseteq Pops /\ 0 \in Reg
  BY SMT DEF Pops, Stacking, Control, Reg
<1>2. /\ Data /\ FlagData /\ Frame /\ pc + 1 \in Nat
      /\ regs \in RegSet /\ segs \in [SegReg -> Word]
  BY TypeParts, NextPlace DEF Data
<1>3. ASSUME PopRegister PROVE TypeOK'
  <2>1. /\ Runs("POP") /\ regs' = Popped([regs EXCEPT ![ins.r] = Top(0)])
        /\ UNCHANGED segs /\ KeepFlags /\ Pop("POP", ins.r) /\ Goto(pc + 1)
    BY <1>3, Zenon DEF PopRegister
  <2>2. ins.r \in Reg
    BY <2>1, RunsType
  <2>3. regs' \in RegSet
    BY <1>2, <2>1, <2>2, TopType, SetWord, PoppedType
  <2>4. segs' \in [SegReg -> Word]
    BY <1>2, <2>1
  <2> QED BY <1>1, <1>2, <2>1, <2>2, <2>3, <2>4, FlagsKept, PopType
<1>4. ASSUME PopSegment PROVE TypeOK'
  <2>1. /\ Runs("POPS") /\ regs' = Popped(regs) /\ segs' = [segs EXCEPT ![ins.r] = Top(0)]
        /\ KeepFlags /\ Pop("POPS", ins.r) /\ Goto(pc + 1)
    BY <1>4, Zenon DEF PopSegment
  <2>2. ins.r \in Reg /\ ins.r \in SegReg
    BY <2>1, RunsType DEF IsInstruction
  <2>3. regs' \in RegSet /\ segs' \in [SegReg -> Word]
    <3>1. segs' \in [SegReg -> Word]
      BY <1>2, <2>1, <2>2, TopType, SetSegment
    <3> QED BY <1>2, <2>1, <3>1, PoppedType
  <2> QED BY <1>1, <1>2, <2>1, <2>2, <2>3, FlagsKept, PopType
<1>5. ASSUME PopFlags PROVE TypeOK'
  <2>1. /\ Runs("POPF") /\ regs' = Popped(regs) /\ fromWord(Top(0))
        /\ UNCHANGED segs /\ Pop("POPF", 0) /\ Goto(pc + 1)
    BY <1>5, Zenon DEF PopFlags
  <2>2. regs' \in RegSet /\ segs' \in [SegReg -> Word]
    BY <1>2, <2>1, PoppedType
  <2> QED BY <1>1, <1>2, <2>1, <2>2, FromWordType, PopType
<1>6. ASSUME Ret PROVE TypeOK'
  <2>1. /\ Runs("RET") /\ regs' = Popped(regs)
        /\ UNCHANGED segs /\ KeepFlags /\ Pop("RET", 0) /\ Goto(Top(0))
    BY <1>6, Zenon DEF Ret
  <2>2. regs' \in RegSet /\ segs' \in [SegReg -> Word]
    BY <1>2, <2>1, PoppedType
  <2> QED BY <1>1, <1>2, <2>1, <2>2, FlagsKept, TopType, WordIsNat, PopType
<1> QED BY <1>3, <1>4, <1>5, <1>6

LEMMA PopAllType == ASSUME TypeOK, PopAll PROVE TypeOK'
<1>1. /\ Runs("POPA")
      /\ regs' = [r \in Reg |-> IF r = SP THEN (regs[SP] + 16) % WORD ELSE Top(7 - r)]
      /\ stack' = <<>> \/ (Len(stack) >= 8 /\ stack' = SubSeq(stack, 1, Len(stack) - 8))
      /\ popped' = [op |-> "POPA", r |-> 0,
                    from |-> IF WholePusha THEN stack[Len(stack)] ELSE NoEntry]
      /\ UNCHANGED <<segs, mem>> /\ KeepFlags /\ Once /\ Goto(pc + 1)
  BY Zenon DEF PopAll
<1>2. Data /\ FlagData /\ Frame /\ History
  BY <1>1, RunsType
<1>3. (regs[SP] + 16) % WORD \in Word
  BY <1>2, RegisterType, Registers, ModWord, SMT
<1>4. regs' \in RegSet
  BY <1>1, <1>2, <1>3, TopType, Zenon DEF RegSet
<1>5. Data'
  BY <1>1, <1>2, <1>4, Zenon DEF Data
<1>6. Len(stack) >= 8 => stack # <<>>
  BY EmptySeq, SMT
<1>7. stack' \in Seq(EntrySet)
  <2>1. CASE stack' = <<>>
    BY <2>1, EmptySeq
  <2>2. CASE Len(stack) >= 8 /\ stack' = SubSeq(stack, 1, Len(stack) - 8)
    <3>1. Len(stack) - 8 \in 0 .. Len(stack)
      BY <1>2, <1>6, <2>2, LastEntry, SMT
    <3> QED BY <1>2, <1>6, <2>2, <3>1, LastEntry
  <2> QED BY <1>1, <2>1, <2>2
<1>8. IsPopped(popped')
  <2>1. "POPA" \in Pops /\ 0 \in Reg
    BY SMT DEF Pops, Stacking, Reg
  <2>2. (IF WholePusha THEN stack[Len(stack)] ELSE NoEntry) \in EntrySet
    BY <1>2, <1>6, LastEntry, NoEntryType, Zenon DEF WholePusha
  <2> QED BY <1>1, <2>1, <2>2, Zenon DEF IsPopped
<1>9. History'
  BY <1>7, <1>8, Zenon DEF History
<1> QED BY <1>1, <1>2, <1>5, <1>9, NextPlace, FlagsKept, OnceType, TypePartsNext

(* Strings *)

LEMMA StepIs == ASSUME NEW w \in Width PROVE Step(w) = 1 \/ Step(w) = 2
  BY SMT DEF Step

LEMMA MovedType ==
  ASSUME NEW off \in Int, NEW n \in Int, NEW w \in Width PROVE Moved(off, n, w) \in Word
<1> DEFINE d == off + (IF modes.DF THEN -n ELSE n) * Step(w)
<1>1. d \in Int
  BY StepIs, SMT
<1>2. Moved(off, n, w) = d % WORD
  BY DEF Moved
<1> HIDE DEF d
<1> QED BY <1>1, <1>2, ModWord

LEMMA ElementType ==
  ASSUME Data, FlagData, NEW op, NEW w \in Width, NEW cx \in Word, Element(op, w, cx)
  PROVE  Data' /\ FlagData'
<1> DEFINE from == Read(mem, Physical(segs[DS], regs[SI]), w)
           dest == Physical(segs[ES], regs[DI])
           to == Read(mem, dest, w)
           a == GetReg(AX, w)
           loaded == IF op = "LODS" THEN SetReg(regs, AX, from, w) ELSE regs
           si == Moved(regs[SI], 1, w)
           di == Moved(regs[DI], 1, w)
<1>1. /\ regs' = [r \in Reg |-> IF r = SI /\ op \in UsesSI THEN si
                                ELSE IF r = DI /\ op \in UsesDI THEN di
                                ELSE IF r = CX THEN cx ELSE loaded[r]]
      /\ mem' = CASE op = "MOVS" -> Write(mem, dest, from, w)
                  [] op = "STOS" -> Write(mem, dest, a, w)
                  [] OTHER -> mem
      /\ flags' = CASE op = "CMPS" -> setFlags_Sub(to - from, to, from, w)
                    [] op = "SCAS" -> setFlags_Sub(a - to, a, to, w)
                    [] OTHER -> flags
      /\ UNCHANGED <<segs, modes>>
  BY DEF Element
<1>2. from \in 0 .. w - 1 /\ to \in 0 .. w - 1 /\ a \in 0 .. w - 1
  BY ReadType, GetRegType, Registers DEF Data
<1>3. dest \in Nat
  BY PhysicalType, SegmentType, RegisterType, Registers
<1>4. si \in Word /\ di \in Word
  <2>1. 1 \in Int
    BY SMT
  <2> QED BY <2>1, RegisterType, Registers, MovedType
<1> HIDE DEF si, di
<1>5. loaded \in RegSet
  BY <1>2, SetRegType, Registers DEF Data
<1> HIDE DEF loaded
<1>6. \A r \in Reg : loaded[r] \in Word
  BY <1>5, Zenon DEF RegSet
<1>7. regs' \in RegSet
  BY <1>1, <1>4, <1>6, Zenon DEF RegSet
<1> HIDE DEF from, to, dest, a
<1>8. IsMemory(mem')
  <2>1. IsMemory(mem) /\ IsMemory(Write(mem, dest, from, w)) /\ IsMemory(Write(mem, dest, a, w))
    BY <1>2, <1>3, WriteType DEF Data
  <2> QED BY <1>1, <2>1, Zenon
<1>9. flags' \in FlagSet
  <2>1. w \in Int
    BY WidthFacts, SMT
  <2>2. from \in Int /\ to \in Int /\ a \in Int
    BY <1>2, <2>1, SMT
  <2>3. to - from \in Int /\ a - to \in Int
    BY <2>2, SMT
  <2>4. setFlags_Sub(to - from, to, from, w) \in FlagSet /\ setFlags_Sub(a - to, a, to, w) \in FlagSet
    BY <2>2, <2>3, SubFlagsType
  <2> QED BY <1>1, <2>4, Zenon DEF FlagData
<1> QED BY <1>1, <1>7, <1>8, <1>9, Zenon DEF Data, FlagData

LEMMA StringOnceType == ASSUME TypeOK, StringOnce PROVE TypeOK'
<1>1. PICK op \in Strings : Runs(op) /\ Element(op, ins.w, regs[CX]) /\ Plain
  BY DEF StringOnce
<1>2. Data /\ FlagData /\ Frame /\ History /\ ins.w \in Width
  BY <1>1, RunsType
<1> QED BY <1>1, <1>2, RegisterType, Registers, ElementType, PlainType, TypePartsNext

LEMMA RepeatsType ==
  ASSUME TypeOK, Repeats
  PROVE  /\ Data /\ FlagData /\ Frame /\ History /\ pc \in 1 .. Len(prog)
         /\ ins.op \in Opcode /\ ins.w \in Width /\ ins.rep \in {"", "E", "NE"} /\ ins.rep # ""
<1>1. Data /\ FlagData /\ Frame /\ History
  BY TypeParts
<1>2. pc \in 1 .. Len(prog) /\ ins.rep # ""
  BY DEF Repeats
<1> QED BY <1>1, <1>2, InstructionType

LEMMA RepNothingType == ASSUME TypeOK, RepNothing PROVE TypeOK'
<1>1. Repeats /\ UNCHANGED <<regs, segs, mem>> /\ KeepFlags /\ Plain
  BY Zenon DEF RepNothing
<1>2. Data /\ FlagData /\ Frame /\ History
  BY <1>1, RepeatsType
<1>3. Data'
  BY <1>1, <1>2, Zenon DEF Data
<1> QED BY <1>1, <1>2, <1>3, FlagsKept, PlainType, TypePartsNext

LEMMA RepInvalidType == ASSUME TypeOK, RepInvalid PROVE TypeOK'
<1>1. /\ Repeats /\ UNCHANGED <<regs, segs, mem>> /\ KeepFlags
      /\ Goto(Len(prog) + 1) /\ StackKept /\ Once
  BY Zenon DEF RepInvalid, setError
<1>2. Data /\ FlagData /\ Frame /\ History
  BY <1>1, RepeatsType
<1>3. Data'
  BY <1>1, <1>2, Zenon DEF Data
<1> QED BY <1>1, <1>2, <1>3, NextPlace, FlagsKept, OnceType, KeptType, TypePartsNext

(* Jobs *)

LEMMA JobParts ==
  ASSUME NEW j, IsJob(j)
  PROVE  /\ j.op \in {"none", "PRINT"} \union Repeated /\ j.w \in Width
         /\ j.rep \in {"", "E", "NE"} /\ j.n \in Nat /\ j.active \in BOOLEAN
         /\ j.regs \in RegSet /\ IsMemory(j.mem)
  BY DEF IsJob

LEMMA JobRecord ==
  ASSUME NEW op \in {"none", "PRINT"} \union Repeated, NEW w \in Width,
         NEW rep \in {"", "E", "NE"}, NEW n \in Nat, NEW b \in BOOLEAN,
         NEW rs \in RegSet, NEW m, IsMemory(m)
  PROVE  IsJob([op |-> op, w |-> w, rep |-> rep, n |-> n, active |-> b, regs |-> rs, mem |-> m])
<1> DEFINE j == [op |-> op, w |-> w, rep |-> rep, n |-> n, active |-> b, regs |-> rs, mem |-> m]
<1>1. /\ j.op = op /\ j.w = w /\ j.rep = rep /\ j.n = n /\ j.active = b
      /\ j.regs = rs /\ j.mem = m
  BY Zenon
<1> HIDE DEF j
<1>2. IsJob(j)
  BY <1>1, Zenon DEF IsJob
<1> QED BY <1>2 DEF j

LEMMA JobType ==
  ASSUME Data, Frame, NEW op \in {"PRINT"} \union Repeated, NEW w \in Width,
         NEW rep \in {"", "E", "NE"}
  PROVE  IsJob(Job(op, w, rep))
<1>1. CASE job.active
  <2>1. Job(op, w, rep) = job
    BY <1>1, Zenon DEF Job
  <2>2. IsJob(job)
    BY Zenon DEF Frame
  <2> QED BY <2>1, <2>2
<1>2. CASE ~job.active
  <2>1. Job(op, w, rep) = [op |-> op, w |-> w, rep |-> rep, n |-> 0, active |-> TRUE,
                           regs |-> regs, mem |-> mem]
    BY <1>2, Zenon DEF Job
  <2>2. 0 \in Nat
    BY ZeroWord, WordIsNat
  <2>3. op \in {"none", "PRINT"} \union Repeated
    BY Zenon
  <2> QED BY <2>1, <2>2, <2>3, JobRecord DEF Data
<1> QED BY <1>1, <1>2

LEMMA NextNat == ASSUME NEW n \in Nat PROVE n + 1 \in Nat
  BY SMT

LEMMA RoundsType ==
  ASSUME NEW j, IsJob(j), NEW n \in Nat, NEW b \in BOOLEAN PROVE IsJob(Rounds(j, n, b))
  BY JobParts, JobRecord, Zenon DEF Rounds

LEMMA GoesOnBoolean == ASSUME NEW op, NEW rep PROVE GoesOn(op, rep) \in BOOLEAN
  BY Zenon DEF GoesOn

LEMMA RepRoundType == ASSUME TypeOK, RepRound PROVE TypeOK'
<1> DEFINE more == GoesOn(ins.op, ins.rep)
           j == Job(ins.op, ins.w, ins.rep)
<1>1. /\ Repeats /\ regs[CX] # 0 /\ ins.op \in Repeated
      /\ Element(ins.op, ins.w, regs[CX] - 1)
      /\ Goto(IF more THEN pc ELSE pc + 1) /\ job' = Rounds(j, j.n + 1, more)
      /\ StackKept /\ UNCHANGED out
  BY DEF RepRound
<1>2. /\ Data /\ FlagData /\ Frame /\ History
      /\ ins.w \in Width /\ ins.rep \in {"", "E", "NE"}
  BY <1>1, RepeatsType
<1>3. regs[CX] - 1 \in Word
  <2>1. regs[CX] \in Word /\ regs[CX] \in Int
    BY <1>2, RegisterType, Registers
  <2> QED BY <1>1, <2>1, InWord, SMT
<1>4. IsJob(job')
  <2>1. IsJob(j)
    BY <1>1, <1>2, JobType
  <2>2. j.n + 1 \in Nat
    BY <2>1, JobParts, NextNat
  <2>3. more \in BOOLEAN
    BY GoesOnBoolean
  <2> HIDE DEF j, more
  <2> QED BY <1>1, <2>1, <2>2, <2>3, RoundsType
<1>5. Frame'
  <2>1. pc' \in Nat /\ prog' = prog /\ out' = out
    BY <1>1, <1>2, NextPlace DEF Goto, Frame
  <2> QED BY <1>2, <1>4, <2>1, Zenon DEF Frame
<1> QED BY <1>1, <1>2, <1>3, <1>5, ElementType, KeptType, TypePartsNext

LEMMA PrintType == ASSUME TypeOK, int21_PrintString PROVE TypeOK'
<1> DEFINE j == Job("PRINT", BYTE, "")
           ch == Read(mem, PrintAt(j.n), BYTE)
           printed == IF job.active THEN out ELSE <<>>
<1>1. /\ Runs("PRINT") /\ UNCHANGED <<regs, segs, mem>> /\ KeepFlags /\ StackKept
      /\ \/ ch = DOLLAR /\ job' = Rounds(j, j.n, FALSE) /\ out' = printed /\ Goto(pc + 1)
         \/ /\ ch # DOLLAR /\ job' = Rounds(j, j.n + 1, TRUE) /\ out' = Append(printed, ch)
            /\ Goto(pc)
  BY DEF int21_PrintString
<1>2. Data /\ FlagData /\ Frame /\ History
  BY <1>1, RunsType
<1>3. Data'
  BY <1>1, <1>2, Zenon DEF Data
<1>4. IsJob(j) /\ j.n \in Nat /\ j.n + 1 \in Nat
  <2>1. IsJob(j)
    BY <1>2, WordFacts, JobType
  <2>2. j.n \in Nat
    BY <2>1, JobParts
  <2> QED BY <2>1, <2>2, NextNat
<1>5. ch \in 0 .. BYTE - 1
  BY <1>2, ReadType, WordFacts DEF Data
<1>6. printed \in Seq(0 .. BYTE - 1)
  BY <1>2, EmptySeq DEF Frame
<1> HIDE DEF j, ch, printed
<1>7. IsJob(job')
  BY <1>1, <1>4, RoundsType
<1>8. out' \in Seq(0 .. BYTE - 1)
  <2>1. Append(printed, ch) \in Seq(0 .. BYTE - 1)
    BY <1>5, <1>6, AppendProperties
  <2> QED BY <1>1, <1>6, <2>1, Zenon
<1>9. pc' \in Nat /\ prog' = prog
  BY <1>1, <1>2, NextPlace DEF Goto, Frame
<1>10. Frame'
  BY <1>2, <1>7, <1>8, <1>9, Zenon DEF Frame
<1> QED BY <1>1, <1>2, <1>3, <1>10, FlagsKept, KeptType, TypePartsNext

(* The theorem *)

LEMMA BiosFacts ==
  /\ \A o \in DOMAIN BiosData : BiosData[o] \in 0 .. BYTE - 1
  /\ \A o \in DOMAIN BiosData : BiosBase + o \in 0 .. MEMORY_SIZE - 1
  /\ \A o \in DOMAIN BiosData : (BiosBase + o) - BiosBase = o
<1>1. DOMAIN BiosData = {73, 74, 76, 77, 132}
  BY DEF BiosData
<1>2. BiosBase = 1024
  BY SMT DEF BiosBase, Physical, PARA
<1>3. MEMORY_SIZE \in Int /\ MEMORY_SIZE > 2000
  BY Sizes, SMT DEF MEMORY_SIZE, PARA
<1>4. ASSUME NEW o \in DOMAIN BiosData PROVE BiosData[o] \in Int /\ 0 <= BiosData[o] /\ BiosData[o] <= 255
  BY <1>1, SMT DEF BiosData
<1>5. \A o \in DOMAIN BiosData : BiosData[o] \in 0 .. BYTE - 1
  BY <1>4, Sizes, SMT
<1> QED BY <1>1, <1>2, <1>3, <1>5, SMT

LEMMA LoadedType == ASSUME NEW d, IsMemory(d) PROVE IsMemory(Loaded(d))
<1> DEFINE B == {BiosBase + o : o \in DOMAIN BiosData}
           m == Loaded(d)
<1>1. \A a \in B : BiosData[a - BiosBase] \in 0 .. BYTE - 1
  BY BiosFacts, Zenon
<1>2. B \subseteq 0 .. MEMORY_SIZE - 1
  BY BiosFacts, Zenon
<1>3. m = [a \in DOMAIN d \union B |-> IF a \in DOMAIN d THEN d[a] ELSE BiosData[a - BiosBase]]
  BY Zenon DEF Loaded
<1> HIDE DEF B, m
<1>4. DOMAIN m = DOMAIN d \union B /\ m = [a \in DOMAIN m |-> m[a]]
  BY <1>3, Zenon
<1>5. \A a \in DOMAIN m : m[a] \in 0 .. BYTE - 1
  BY <1>1, <1>3, <1>4, Zenon DEF IsMemory
<1>6. DOMAIN m \subseteq 0 .. MEMORY_SIZE - 1
  BY <1>2, <1>4, Zenon DEF IsMemory
<1>7. IsMemory(m)
  BY <1>4, <1>5, <1>6, Zenon DEF IsMemory
<1> QED BY <1>7 DEF m

LEMMA InitType == ASSUME Init PROVE TypeOK
<1>1. PICK g \in Guests :
          /\ prog = g.code /\ pc = 1
          /\ regs = [r \in Reg |-> IF r = SP THEN WORD - 2 ELSE 0]
          /\ segs = [s \in SegReg |-> g.segment]
          /\ mem = Loaded(g.data)
          /\ flags = NoFlags /\ modes = [TF |-> FALSE, IE |-> FALSE, DF |-> FALSE]
          /\ out = <<>> /\ job = NoJob
          /\ stack = <<>> /\ popped = NoPop
  BY Zenon DEF Init
<1>2. IsCode(g.code) /\ IsMemory(g.data) /\ g.segment \in Word
  BY GuestsAssumption
<1>3. Data
  <2>1. WORD - 2 \in Word
    BY Sizes, InWord, SMT
  <2>2. regs \in RegSet
    BY <1>1, <2>1, ZeroWord, Zenon DEF RegSet
  <2> QED BY <1>1, <1>2, <2>2, LoadedType, Zenon DEF Data
<1>4. FlagData
  BY <1>1, NoFlagsType, ModeRecord, Zenon DEF FlagData
<1>5. Frame
  <2>1. 1 \in Nat
    BY SMT
  <2> QED BY <1>1, <1>2, <2>1, EmptySeq, NoJobType, Zenon DEF Frame
<1>6. History
  BY <1>1, EmptySeq, NoPopType, Zenon DEF History
<1> QED BY <1>3, <1>4, <1>5, <1>6, TypeParts

LEMMA StepType == ASSUME TypeOK, [Next]_vars PROVE TypeOK'
<1>1. CASE UNCHANGED vars
  <2>1. /\ regs' = regs /\ segs' = segs /\ mem' = mem /\ prog' = prog /\ pc' = pc
        /\ flags' = flags /\ modes' = modes /\ out' = out /\ job' = job
        /\ stack' = stack /\ popped' = popped
    BY <1>1, Zenon DEF vars
  <2> QED BY <2>1, Zenon DEF TypeOK
<1>2. CASE Cld \/ Std \/ Cli \/ Sti
  BY <1>2, ModesType, SetModeType DEF Cld, Std, Cli, Sti
<1>3. CASE Loop \/ LoopEqual \/ LoopNotEqual
  BY <1>3, LoopWhileType DEF Loop, LoopEqual, LoopNotEqual
<1> QED
  BY <1>1, <1>2, <1>3, MovImmediateType, MovToType, MovFromType, MovFromSegmentType,
     MovToSegmentType, LoadAccumulatorType, StoreAccumulatorType, LeaType,
     XchgAccumulatorType, XchgType, LahfType, SahfType, PushesType, PushAllType, PopsType,
     PopAllType, JmpType, JmpOperandType, StringOnceType, RepNothingType, RepInvalidType,
     RepRoundType, PrintType, Zenon DEF Next

\* Registers keep to 16 bits, memory to its bytes and everything else to its
\* type, whatever the guest program is.
THEOREM MachineTypeCorrect == Spec => []TypeOK
<1>1. Init => TypeOK
  BY InitType
<1>2. TypeOK /\ [Next]_vars => TypeOK'
  BY StepType
<1> QED BY <1>1, <1>2, PTL DEF Spec

-------------------------------------------------------------------------------
(* LEA *)

\* LEA puts the offset into a register at which all the other instructions
\* find the operand.
THEOREM MachineLea == Spec => LeaIsAddress
<1>1. ASSUME TypeOK, Lea, ins.o.mod # 3
      PROVE  Physical(segs[Segment(ins.o)], regs'[ins.r]) = Address(ins.o)
  <2>1. Runs("LEA") /\ regs' = [regs EXCEPT ![ins.r] = LeaOffset(ins.o)]
    BY <1>1, Zenon DEF Lea
  <2>2. Data /\ ins.r \in Reg /\ ins.o \in Operand
    BY <1>1, <2>1, RunsType
  <2>3. regs'[ins.r] = LeaOffset(ins.o)
    BY <2>1, <2>2, Zenon DEF Data, RegSet
  <2> QED BY <2>2, <2>3, LeaOffsetIs, Zenon DEF Address
<1>2. TypeOK /\ [Next]_vars
      => [Lea /\ ins.o.mod # 3 =>
             Physical(segs[Segment(ins.o)], regs'[ins.r]) = Address(ins.o)]_vars
  BY <1>1
<1> QED BY <1>2, MachineTypeCorrect, PTL DEF Spec, LeaIsAddress

-------------------------------------------------------------------------------
(* The stack *)

\* The address of the word that is j words above the top of the stack.
SlotAt(j, sp, ss) == Physical(ss, (sp + 2 * j) % WORD)
Slot(j) == SlotAt(j, regs[SP], segs[SS])

LEMMA Modular ==
  ASSUME NEW x \in Int, NEW y \in Int PROVE ((x % WORD) + y) % WORD = (x + y) % WORD
<1>1. WORD = 65536
  BY Sizes
<1> QED BY <1>1, SMT

LEMMA Within == ASSUME NEW x \in Word PROVE x % WORD = x
<1>1. x \in Int /\ 0 <= x /\ x <= 65535
  BY InWord, WordFacts
<1> QED BY <1>1, Sizes, SMT

LEMMA SlotOffset ==
  ASSUME Data, NEW j \in Int
  PROVE  regs[SP] \in Word /\ regs[SP] \in Int /\ (regs[SP] + 2 * j) % WORD \in Word
<1>1. regs[SP] \in Word /\ regs[SP] \in Int
  BY RegisterType, Registers
<1>2. regs[SP] + 2 * j \in Int
  BY <1>1, SMT
<1> QED BY <1>1, <1>2, ModWord

LEMMA SlotType == ASSUME Data, NEW j \in Int PROVE Slot(j) \in Nat
  BY SlotOffset, SegmentType, Registers, PhysicalType DEF Slot, SlotAt

\* Two offsets that differ by an even number are not closer than a word.
LEMMA Apart ==
  ASSUME NEW s \in Int, NEW j \in Int, NEW k \in Int, j < k, 2 * (k - j) < WORD
  PROVE  LET x == (s + 2 * j) % WORD
             y == (s + 2 * k) % WORD
         IN  x - y >= 2 \/ y - x >= 2
<1>1. 2 * (k - j) < 65536
  BY Sizes, SMT
<1>2. ((s + 2 * j) % 65536) - ((s + 2 * k) % 65536) >= 2 \/ ((s + 2 * k) % 65536) - ((s + 2 * j) % 65536) >= 2
  BY <1>1, SMT
<1> QED BY <1>2, Sizes, SMT

LEMMA CellsApart ==
  ASSUME NEW a \in Nat, NEW b \in Nat, a - b >= 2 \/ b - a >= 2
  PROVE  Cells(a, WORD) \intersect Cells(b, WORD) = {}
<1>1. Cells(a, WORD) = {a, a + 1} /\ Cells(b, WORD) = {b, b + 1}
  BY CellsAt
<1>2. a # b /\ a # b + 1 /\ a + 1 # b /\ a + 1 # b + 1
  BY SMT
<1> QED BY <1>1, <1>2, Zenon

\* Slots do not overlap unless they wrap around the whole segment.
LEMMA SlotsApart ==
  ASSUME Data, NEW j \in Int, NEW k \in Int, j # k, 2 * (k - j) < WORD, 2 * (j - k) < WORD
  PROVE  Cells(Slot(j), WORD) \intersect Cells(Slot(k), WORD) = {}
<1> DEFINE x == (regs[SP] + 2 * j) % WORD
           y == (regs[SP] + 2 * k) % WORD
<1>1. x \in Word /\ y \in Word /\ regs[SP] \in Int
  BY SlotOffset
<1>2. x - y >= 2 \/ y - x >= 2
  <2>1. CASE j < k
    BY <1>1, <2>1, Apart
  <2>2. CASE k < j
    BY <1>1, <2>2, Apart
  <2> QED BY <2>1, <2>2, SMT
<1>3. Slot(j) = Physical(segs[SS], x) /\ Slot(k) = Physical(segs[SS], y)
  BY DEF Slot, SlotAt
<1> HIDE DEF x, y
<1>4. x \in Int /\ y \in Int /\ segs[SS] \in Int
  BY <1>1, WordFacts, SegmentType, Registers
<1>5. Slot(j) - Slot(k) >= 2 \/ Slot(k) - Slot(j) >= 2
  BY <1>2, <1>3, <1>4, MemorySizes, SMT DEF Physical
<1> QED BY <1>5, SlotType, CellsApart

\* What the slots are when SP has moved.
LEMMA SlotsMoved ==
  ASSUME NEW sp \in Int, NEW ss, NEW d \in Int, NEW j \in Int
  PROVE  /\ (((sp + 2 * d) % WORD) + 2 * j) % WORD = (sp + 2 * (j + d)) % WORD
         /\ SlotAt(j, (sp + 2 * d) % WORD, ss) = SlotAt(j + d, sp, ss)
<1>1. sp + 2 * d \in Int /\ 2 * j \in Int /\ sp + 2 * d + 2 * j = sp + 2 * (j + d)
  BY SMT
<1>2. (((sp + 2 * d) % WORD) + 2 * j) % WORD = (sp + 2 * d + 2 * j) % WORD
  BY <1>1, Modular
<1>3. (((sp + 2 * d) % WORD) + 2 * j) % WORD = (sp + 2 * (j + d)) % WORD
  BY <1>1, <1>2
<1> QED BY <1>3, Zenon DEF SlotAt

\* The word that an entry pushed, from the machine that it found.
PushedWord(e) ==
    /\ e.op = "PUSH" => e.word = IF e.r = SP THEN (e.regs[SP] - 2) % WORD ELSE e.regs[e.r]
    /\ e.op = "PUSHS" => e.r \in SegReg /\ e.word = e.segs[e.r]
    /\ e.op = "PUSHF" => e.word = Value(Raised(e.flags, e.modes))
    /\ e.op = "CALL" => e.word = e.pc + 1
    /\ e.op = "PUSHA" => e.word = e.regs[e.r]

\* The word of an entry lies j words above the top.
Held(e, j, sp, ss, m) ==
    /\ Place(e) = (sp + 2 * j) % WORD
    /\ Valid(SlotAt(j, sp, ss), WORD)
    /\ Read(m, SlotAt(j, sp, ss), WORD) = e.word
    /\ PushedWord(e)

StackInv ==
    /\ 2 * Len(stack) <= WORD
    /\ \A n \in 1 .. Len(stack) : Held(stack[n], Len(stack) - n, regs[SP], segs[SS], mem)

LEMMA StackInvHolds == ASSUME StackInv PROVE StackHolds
<1>1. ASSUME NEW n \in 1 .. Len(stack)
      PROVE  LET place == Place(stack[n])
                 a == Physical(segs[SS], place)
             IN  /\ place = (regs[SP] + 2 * (Len(stack) - n)) % WORD
                 /\ Valid(a, WORD)
                 /\ Read(mem, a, WORD) = stack[n].word
  BY Zenon DEF StackInv, Held, SlotAt
<1> QED BY <1>1, Zenon DEF StackInv, StackHolds

LEMMA StackLength == ASSUME History PROVE stack \in Seq(EntrySet) /\ Len(stack) \in Nat
  BY LenProperties DEF History

LEMMA NoStack == ASSUME stack' = <<>> PROVE StackInv'
<1>1. Len(stack') = 0
  BY EmptySeq
<1>2. \A n \in 1 .. 0 : FALSE
  BY SMT
<1>3. 2 * 0 <= WORD
  BY Sizes, SMT
<1> QED BY <1>1, <1>2, <1>3, Zenon DEF StackInv

\* An entry stays where it is when its word and the pointer do, or is as much
\* higher as the pointer is lower.
LEMMA StaysHeld ==
  ASSUME NEW e, NEW sp \in Int, NEW ss, NEW m, NEW k, NEW j \in Int, NEW d \in Int,
         Held(e, j + d, sp, ss, m),
         Read(k, SlotAt(j + d, sp, ss), WORD) = Read(m, SlotAt(j + d, sp, ss), WORD)
  PROVE  Held(e, j, (sp + 2 * d) % WORD, ss, k)
<1>1. /\ Place(e) = (sp + 2 * (j + d)) % WORD
      /\ Valid(SlotAt(j + d, sp, ss), WORD)
      /\ Read(k, SlotAt(j + d, sp, ss), WORD) = e.word
      /\ PushedWord(e)
  BY Zenon DEF Held
<1> DEFINE top == (sp + 2 * d) % WORD
<1>2. (top + 2 * j) % WORD = (sp + 2 * (j + d)) % WORD
  BY SlotsMoved
<1>3. SlotAt(j, top, ss) = SlotAt(j + d, sp, ss)
  BY SlotsMoved
<1> HIDE DEF top
<1>4. Held(e, j, top, ss, k)
  BY <1>1, <1>2, <1>3, Zenon DEF Held
<1> QED BY <1>4 DEF top

\* Instructions that are not about the stack.
LEMMA StackKeptHolds == ASSUME TypeOK, TypeOK', StackInv, StackKept PROVE StackInv'
<1>1. CASE stack' = <<>>
  BY <1>1, NoStack
<1>2. CASE stack' # <<>>
  <2>1. /\ stack' = stack /\ regs'[SP] = regs[SP] /\ segs'[SS] = segs[SS]
        /\ \A n \in 1 .. Len(stack) : \A c \in PlaceCells(stack[n]) : Cell(mem', c) = Cell(mem, c)
    BY <1>2, Zenon DEF StackKept
  <2>2. ASSUME NEW n \in 1 .. Len(stack)
        PROVE  Held(stack[n], Len(stack) - n, regs[SP], segs[SS], mem')
    <3> DEFINE j == Len(stack) - n
    <3>1. Held(stack[n], j, regs[SP], segs[SS], mem)
      BY Zenon DEF StackInv
    <3>2. j \in Int /\ Data
      BY TypeParts, StackLength, SMT
    <3> HIDE DEF j
    <3>3. PlaceCells(stack[n]) = Cells(Slot(j), WORD)
      BY <3>1, Zenon DEF PlaceCells, Held, Slot, SlotAt
    <3>4. Read(mem', Slot(j), WORD) = Read(mem, Slot(j), WORD)
      BY <2>1, <3>2, <3>3, SlotType, WordFacts, ReadSame
    <3>5. Held(stack[n], j, regs[SP], segs[SS], mem')
      BY <3>1, <3>4, Zenon DEF Held, Slot
    <3> QED BY <3>5 DEF j
  <2>3. 2 * Len(stack) <= WORD
    BY DEF StackInv
  <2> QED BY <2>1, <2>2, <2>3, Zenon DEF StackInv
<1> QED BY <1>1, <1>2

\* A write into a slot that no entry has leaves the entries held.
LEMMA WriteKeepsHeld ==
  ASSUME Data, NEW m, IsMemory(m), NEW e, NEW j \in Int, NEW k \in Int, NEW v,
         Held(e, j, regs[SP], segs[SS], m),
         j # k, 2 * (k - j) < WORD, 2 * (j - k) < WORD
  PROVE  Held(e, j, regs[SP], segs[SS], Write(m, Slot(k), v, WORD))
<1>1. Cells(Slot(k), WORD) \intersect Cells(Slot(j), WORD) = {}
  BY SlotsApart
<1>2. Read(Write(m, Slot(k), v, WORD), Slot(j), WORD) = Read(m, Slot(j), WORD)
  BY <1>1, SlotType, WordFacts, ReadKept
<1> QED BY <1>2, Zenon DEF Held, Slot

\* What is written into a valid slot is held there.
LEMMA WriteHolds ==
  ASSUME Data, NEW m, IsMemory(m), NEW e, NEW k \in Int, NEW v \in Word,
         Valid(Slot(k), WORD), Place(e) = (regs[SP] + 2 * k) % WORD, e.word = v, PushedWord(e)
  PROVE  Held(e, k, regs[SP], segs[SS], Write(m, Slot(k), v, WORD))
<1>1. v \in 0 .. WORD - 1
  BY DEF Word
<1>2. Read(Write(m, Slot(k), v, WORD), Slot(k), WORD) = v
  BY <1>1, SlotType, WordFacts, ReadWritten
<1> QED BY <1>2, Zenon DEF Held, Slot

LEMMA OneDown ==
  ASSUME NEW x \in Int PROVE x + 2 * (-1) = x - 2 /\ -1 \in Int
  BY SMT

LEMMA PushHolds ==
  ASSUME TypeOK, StackInv, NEW op \in Pops, op # "PUSHA", NEW r \in Reg, NEW v \in Word,
         Push(op, r, v), PushedWord(Entry(op, r, v))
  PROVE  StackInv'
<1> DEFINE sp == (regs[SP] - 2) % WORD
           e == Entry(op, r, v)
<1>1. /\ regs' = [regs EXCEPT ![SP] = sp]
      /\ mem' = Write(mem, Physical(segs[SS], sp), v, WORD)
      /\ stack' = IF Fits(1, regs[SP]) THEN Append(stack, e) ELSE <<>>
      /\ segs' = segs
  BY Zenon DEF Push
<1>2. Data /\ FlagData /\ Frame /\ History /\ IsMemory(mem)
  BY TypeParts DEF Data
<1>3. regs[SP] \in Int /\ regs' [SP] = sp
  BY <1>1, <1>2, RegisterType, Registers, Zenon DEF Data, RegSet
<1>4. sp = (regs[SP] + 2 * (-1)) % WORD /\ -1 \in Int
  BY <1>3, OneDown
<1>5. mem' = Write(mem, Slot(-1), v, WORD)
  BY <1>1, <1>4, Zenon DEF Slot, SlotAt
<1>6. e \in EntrySet /\ PushedWord(e) /\ e.word = v /\ Place(e) = sp
  <2>1. e \in EntrySet
    BY <1>2, EntryType
  <2>2. e.word = v /\ e.op = op /\ e.regs = regs
    BY Zenon DEF Entry
  <2>3. Place(e) = (e.regs[SP] - 2 * 1) % WORD
    BY <2>2, Zenon DEF Place
  <2>4. regs[SP] - 2 * 1 = regs[SP] - 2
    BY <1>3, SMT
  <2> QED BY <2>1, <2>2, <2>3, <2>4
<1> HIDE DEF sp, e
<1>7. CASE ~Fits(1, regs[SP])
  BY <1>1, <1>7, NoStack
<1>8. CASE Fits(1, regs[SP])
  <2>1. stack \in Seq(EntrySet) /\ Len(stack) \in Nat
    BY <1>2, StackLength
  <2>2. 2 * (Len(stack) + 1) <= WORD /\ Valid(Slot(-1), WORD)
    <3>1. 1 \in 1 .. 1 /\ regs[SP] - 2 * 1 = regs[SP] + 2 * (-1)
      BY <1>3, SMT
    <3> QED BY <1>8, <3>1, Zenon DEF Fits, Slot, SlotAt
  <2>3. /\ Len(stack') = Len(stack) + 1
        /\ \A n \in 1 .. Len(stack) : stack'[n] = stack[n]
        /\ stack'[Len(stack) + 1] = e
    BY <1>1, <1>6, <1>8, <2>1, AppendProperties
  <2>4. ASSUME NEW n \in 1 .. Len(stack)
        PROVE  Held(stack'[n], Len(stack') - n, sp, segs[SS], mem')
    <3> DEFINE j == Len(stack) - n
    <3>1. Held(stack[n], j, regs[SP], segs[SS], mem)
      BY Zenon DEF StackInv
    <3>2. j \in Int /\ j # -1 /\ 2 * (-1 - j) < WORD /\ 2 * (j - (-1)) < WORD
      BY <2>1, <2>2, Sizes, SMT
    <3>3. j + 1 \in Int /\ (j + 1) + (-1) = j /\ Len(stack) + 1 - n = j + 1
      BY <2>1, SMT
    <3> HIDE DEF j
    <3>4. Held(stack[n], j, regs[SP], segs[SS], mem')
      BY <1>2, <1>4, <1>5, <3>1, <3>2, WriteKeepsHeld
    <3>5. Held(stack[n], j + 1, sp, segs[SS], mem')
      BY <1>3, <1>4, <3>3, <3>4, StaysHeld
    <3> QED BY <2>3, <3>3, <3>5
  <2>5. Held(e, 0, sp, segs[SS], mem')
    <3>1. Held(e, -1, regs[SP], segs[SS], mem')
      BY <1>2, <1>4, <1>5, <1>6, <2>2, WriteHolds
    <3>2. 0 \in Int /\ 0 + (-1) = -1
      BY SMT
    <3> QED BY <1>3, <1>4, <3>1, <3>2, StaysHeld
  <2>6. ASSUME NEW n \in 1 .. Len(stack')
        PROVE  Held(stack'[n], Len(stack') - n, regs'[SP], segs'[SS], mem')
    <3>1. CASE n \in 1 .. Len(stack)
      BY <1>1, <1>3, <2>4, <3>1
    <3>2. CASE n = Len(stack')
      <4>1. Len(stack') - n = 0
        BY <2>1, <2>3, <3>2, SMT
      <4> QED BY <1>1, <1>3, <2>3, <2>5, <3>2, <4>1
    <3> QED BY <2>1, <2>3, <3>1, <3>2, SMT
  <2> QED BY <2>2, <2>3, <2>6, Zenon DEF StackInv
<1> QED BY <1>7, <1>8

\* A pop takes entries off the end: k of them when SP goes up by k words.
LEMMA PopHolds ==
  ASSUME TypeOK, StackInv, NEW k \in Nat, k <= Len(stack),
         stack' = SubSeq(stack, 1, Len(stack) - k), stack # <<>>,
         regs'[SP] = (regs[SP] + 2 * k) % WORD, segs'[SS] = segs[SS], mem' = mem
  PROVE  StackInv'
<1>1. Data /\ History /\ Len(stack) \in Nat /\ regs[SP] \in Int
  BY TypeParts, StackLength, RegisterType, Registers
<1>2. Len(stack) - k \in 0 .. Len(stack)
  BY <1>1, SMT
<1>3. /\ Len(stack') = Len(stack) - k
      /\ \A n \in 1 .. Len(stack') : stack'[n] = stack[n]
  BY <1>1, <1>2, LastEntry
<1>4. ASSUME NEW n \in 1 .. Len(stack')
      PROVE  Held(stack'[n], Len(stack') - n, regs'[SP], segs'[SS], mem')
  <2> DEFINE j == Len(stack') - n
  <2>1. n \in 1 .. Len(stack) /\ j \in Int /\ k \in Int /\ Len(stack) - n = j + k
    BY <1>1, <1>3, SMT
  <2>2. Held(stack[n], j + k, regs[SP], segs[SS], mem)
    BY <2>1, Zenon DEF StackInv
  <2> HIDE DEF j
  <2>3. Held(stack[n], j, (regs[SP] + 2 * k) % WORD, segs[SS], mem)
    BY <1>1, <2>1, <2>2, StaysHeld
  <2> QED BY <1>3, <2>3 DEF j
<1>5. 2 * Len(stack') <= WORD
  BY <1>1, <1>3, Sizes, SMT DEF StackInv
<1> QED BY <1>4, <1>5, Zenon DEF StackInv

LEMMA OnePopHolds == ASSUME TypeOK, StackInv, NEW op, NEW r, Pop(op, r) PROVE StackInv'
<1>1. mem' = mem
  BY DEF Pop
<1>2. CASE stack' = <<>>
  BY <1>2, NoStack
<1>3. CASE stack' # <<>>
  <2>1. /\ stack # <<>> /\ regs'[SP] = (regs[SP] + 2) % WORD /\ segs'[SS] = segs[SS]
        /\ stack' = SubSeq(stack, 1, Len(stack) - 1)
    BY <1>3, Zenon DEF Pop
  <2>2. 1 \in Nat /\ 2 * 1 = 2
    BY SMT
  <2>3. 1 <= Len(stack)
    BY <2>1, TypeParts, LastEntry, SMT
  <2> QED BY <1>1, <2>1, <2>2, <2>3, PopHolds
<1> QED BY <1>2, <1>3

LEMMA PopAllHolds == ASSUME TypeOK, StackInv, PopAll PROVE StackInv'
<1>1. /\ Runs("POPA")
      /\ regs' = [r \in Reg |-> IF r = SP THEN (regs[SP] + 16) % WORD ELSE Top(7 - r)]
      /\ stack' = <<>> \/ (Len(stack) >= 8 /\ stack' = SubSeq(stack, 1, Len(stack) - 8))
      /\ segs' = segs /\ mem' = mem
  BY Zenon DEF PopAll
<1>2. CASE stack' = <<>>
  BY <1>2, NoStack
<1>3. CASE Len(stack) >= 8 /\ stack' = SubSeq(stack, 1, Len(stack) - 8)
  <2>1. 8 \in Nat /\ 2 * 8 = 16
    BY SMT
  <2>2. regs'[SP] = (regs[SP] + 16) % WORD
    BY <1>1, Registers, Zenon
  <2>3. stack # <<>>
    BY <1>3, EmptySeq, SMT
  <2>4. 8 <= Len(stack)
    BY <1>3, TypeParts, StackLength, SMT
  <2> QED BY <1>1, <1>3, <2>1, <2>2, <2>3, <2>4, PopHolds
<1> QED BY <1>1, <1>2, <1>3

(* PUSHA, one register after the other *)

Saved(r) == Entry("PUSHA", r, regs[r])

\* The entries there were, and the first n registers, are held.
PushedSome(m, n) ==
    /\ IsMemory(m)
    /\ \A k \in 1 .. Len(stack) : Held(stack[k], Len(stack) - k, regs[SP], segs[SS], m)
    /\ \A q \in 0 .. n - 1 : Held(Saved(q), -(q + 1), regs[SP], segs[SS], m)

LEMMA SavedType ==
  ASSUME Data, FlagData, Frame, NEW r \in Reg
  PROVE  /\ Saved(r) \in EntrySet /\ Saved(r).word = regs[r] /\ PushedWord(Saved(r))
         /\ Place(Saved(r)) = (regs[SP] + 2 * (-(r + 1))) % WORD
<1>1. Saved(r) \in EntrySet
  <2>1. "PUSHA" \in Pops
    BY SMT DEF Pops, Stacking
  <2> QED BY <2>1, EntryType, RegisterType DEF Saved
<1>2. /\ Saved(r).op = "PUSHA" /\ Saved(r).r = r /\ Saved(r).word = regs[r]
      /\ Saved(r).regs = regs
  BY Zenon DEF Saved, Entry
<1>3. PushedWord(Saved(r))
  BY <1>2, SMT DEF PushedWord
<1>4. Place(Saved(r)) = (regs[SP] - 2 * (r + 1)) % WORD
  BY <1>2, Zenon DEF Place
<1>5. regs[SP] - 2 * (r + 1) = regs[SP] + 2 * (-(r + 1))
  BY RegisterType, Registers, SMT DEF Reg
<1> QED BY <1>1, <1>2, <1>3, <1>4, <1>5

LEMMA PushedStep ==
  ASSUME TypeOK, Fits(8, regs[SP]), NEW m, NEW r \in Reg, PushedSome(m, r)
  PROVE  PushedSome(PushedAll(m, r), r + 1)
<1> DEFINE j == -(r + 1)
           after == PushedAll(m, r)
<1>1. Data /\ FlagData /\ Frame /\ History /\ Len(stack) \in Nat
  BY TypeParts, StackLength
<1>2. r \in Int /\ 0 <= r /\ r <= 7 /\ j \in Int /\ r + 1 \in 1 .. 8
  BY SMT DEF Reg
<1>3. regs[SP] - 2 * (r + 1) = regs[SP] + 2 * j
  BY <1>1, <1>2, RegisterType, Registers, SMT
<1>4. after = Write(m, Slot(j), regs[r], WORD)
  BY <1>3, Zenon DEF PushedAll, Slot, SlotAt
<1>5. Valid(Slot(j), WORD) /\ 2 * (Len(stack) + 8) <= WORD
  BY <1>2, <1>3, Zenon DEF Fits, Slot, SlotAt
<1>6. IsMemory(m)
  BY DEF PushedSome
<1>7. IsMemory(after)
  BY <1>1, <1>6, PushedAllType
<1>8. ASSUME NEW k \in 1 .. Len(stack)
      PROVE  Held(stack[k], Len(stack) - k, regs[SP], segs[SS], after)
  <2> DEFINE l == Len(stack) - k
  <2>1. Held(stack[k], l, regs[SP], segs[SS], m)
    BY Zenon DEF PushedSome
  <2>2. l \in Int /\ l # j /\ 2 * (j - l) < WORD /\ 2 * (l - j) < WORD
    BY <1>1, <1>2, <1>5, Sizes, SMT
  <2> HIDE DEF l, j
  <2>3. Held(stack[k], l, regs[SP], segs[SS], Write(m, Slot(j), regs[r], WORD))
    BY <1>1, <1>2, <1>6, <2>1, <2>2, WriteKeepsHeld
  <2> QED BY <1>4, <2>3 DEF l
<1>9. ASSUME NEW q \in 0 .. (r + 1) - 1
      PROVE  Held(Saved(q), -(q + 1), regs[SP], segs[SS], after)
  <2>1. CASE q = r
    <3>1. regs[r] \in Word
      BY <1>1, RegisterType
    <3> QED BY <1>1, <1>2, <1>4, <1>5, <1>6, <2>1, <3>1, SavedType, WriteHolds
  <2>2. CASE q # r
    <3> DEFINE l == -(q + 1)
    <3>1. q \in 0 .. r - 1 /\ l \in Int /\ l # j /\ 2 * (j - l) < WORD /\ 2 * (l - j) < WORD
      BY <1>2, <2>2, Sizes, SMT
    <3>2. Held(Saved(q), l, regs[SP], segs[SS], m)
      BY <3>1, Zenon DEF PushedSome
    <3> HIDE DEF l, j
    <3>3. Held(Saved(q), l, regs[SP], segs[SS], Write(m, Slot(j), regs[r], WORD))
      BY <1>1, <1>2, <1>6, <3>1, <3>2, WriteKeepsHeld
    <3> QED BY <1>4, <3>3 DEF l
  <2> QED BY <2>1, <2>2
<1> HIDE DEF j, after
<1>10. \A k \in 1 .. Len(stack) : Held(stack[k], Len(stack) - k, regs[SP], segs[SS], after)
  BY <1>8
<1>11. \A q \in 0 .. (r + 1) - 1 : Held(Saved(q), -(q + 1), regs[SP], segs[SS], after)
  BY <1>9
<1>12. PushedSome(after, r + 1)
  BY <1>7, <1>10, <1>11, Zenon DEF PushedSome
<1> QED BY <1>12 DEF after

LEMMA PushAllHolds == ASSUME TypeOK, StackInv, PushAll PROVE StackInv'
<1> DEFINE m1 == PushedAll(mem, AX)
           m2 == PushedAll(m1, CX)
           m3 == PushedAll(m2, DX)
           m4 == PushedAll(m3, BX)
           m5 == PushedAll(m4, SP)
           m6 == PushedAll(m5, BP)
           m7 == PushedAll(m6, SI)
           m8 == PushedAll(m7, DI)
           es == [k \in 1 .. 8 |-> Entry("PUSHA", k - 1, regs[k - 1])]
<1>1. /\ mem' = m8 /\ regs' = [regs EXCEPT ![SP] = (@ - 16) % WORD] /\ segs' = segs
      /\ stack' = IF Fits(8, regs[SP]) THEN stack \o es ELSE <<>>
  BY DEF PushAll
<1>2. Data /\ FlagData /\ Frame /\ History /\ Len(stack) \in Nat /\ regs[SP] \in Int
  BY TypeParts, StackLength, RegisterType, Registers
<1>3. CASE ~Fits(8, regs[SP])
  BY <1>1, <1>3, NoStack
<1>4. CASE Fits(8, regs[SP])
  <2>1. PushedSome(mem, 0)
    <3>1. \A r \in 0 .. 0 - 1 : FALSE
      BY SMT
    <3> QED BY <1>2, <3>1, Zenon DEF PushedSome, StackInv, Data
  <2>2. PushedSome(m1, 1)
    BY <1>4, <2>1, PushedStep DEF AX, Reg
  <2> HIDE DEF m1
  <2>3. PushedSome(m2, 2)
    BY <1>4, <2>2, PushedStep DEF CX, Reg
  <2> HIDE DEF m2
  <2>4. PushedSome(m3, 3)
    BY <1>4, <2>3, PushedStep DEF DX, Reg
  <2> HIDE DEF m3
  <2>5. PushedSome(m4, 4)
    BY <1>4, <2>4, PushedStep DEF BX, Reg
  <2> HIDE DEF m4
  <2>6. PushedSome(m5, 5)
    BY <1>4, <2>5, PushedStep DEF SP, Reg
  <2> HIDE DEF m5
  <2>7. PushedSome(m6, 6)
    BY <1>4, <2>6, PushedStep DEF BP, Reg
  <2> HIDE DEF m6
  <2>8. PushedSome(m7, 7)
    BY <1>4, <2>7, PushedStep DEF SI, Reg
  <2> HIDE DEF m7
  <2>9. PushedSome(m8, 8)
    BY <1>4, <2>8, PushedStep DEF DI, Reg
  <2> HIDE DEF m8
  <2>10. \A k \in 1 .. 8 : k - 1 \in Reg /\ k - 1 \in 0 .. 8 - 1 /\ -(k - 1 + 1) = -k
    BY SMT DEF Reg
  <2>11. es \in Seq(EntrySet) /\ Len(es) = 8 /\ \A k \in 1 .. 8 : es[k] = Saved(k - 1)
    <3>1. \A k \in 1 .. 8 : es[k] = Saved(k - 1)
      BY Zenon DEF Saved
    <3>2. \A k \in 1 .. 8 : es[k] \in EntrySet
      BY <1>2, <2>10, <3>1, SavedType
    <3>3. es \in [1 .. 8 -> EntrySet]
      BY <3>2, Zenon
    <3>4. 8 \in Nat
      BY SMT
    <3>5. es \in Seq(EntrySet)
      BY <3>3, <3>4, SeqDef
    <3>6. Len(es) = 8
      BY <3>3, <3>4, <3>5, LenProperties, SMT
    <3> QED BY <3>1, <3>5, <3>6
  <2> HIDE DEF es
  <2>12. /\ Len(stack') = Len(stack) + 8
         /\ \A n \in 1 .. Len(stack) + 8 :
                stack'[n] = IF n <= Len(stack) THEN stack[n] ELSE es[n - Len(stack)]
    <3>1. stack \in Seq(EntrySet) /\ es \in Seq(EntrySet)
      BY <1>2, <2>11, StackLength
    <3>2. /\ Len(stack \o es) = Len(stack) + Len(es)
          /\ \A n \in 1 .. Len(stack) + Len(es) :
                 (stack \o es)[n] = IF n <= Len(stack) THEN stack[n] ELSE es[n - Len(stack)]
      BY <3>1, ConcatProperties
    <3> QED BY <1>1, <1>4, <2>11, <3>2, Zenon
  <2>13. regs'[SP] = (regs[SP] + 2 * (-8)) % WORD
    <3>1. regs'[SP] = (regs[SP] - 16) % WORD
      BY <1>1, <1>2, Registers, Zenon DEF Data, RegSet
    <3>2. regs[SP] - 16 = regs[SP] + 2 * (-8)
      BY <1>2, SMT
    <3> QED BY <3>1, <3>2
  <2>14. ASSUME NEW n \in 1 .. Len(stack')
         PROVE  Held(stack'[n], Len(stack') - n, regs'[SP], segs'[SS], mem')
    <3> DEFINE j == Len(stack') - n
    <3>1. j \in Int /\ -8 \in Int /\ j + (-8) = Len(stack) - n
      BY <1>2, <2>12, SMT
    <3>2. Held(stack'[n], j + (-8), regs[SP], segs[SS], mem')
      <4>1. CASE n <= Len(stack)
        <5>1. n \in 1 .. Len(stack)
          BY <1>2, <2>12, <4>1, SMT
        <5> QED BY <1>1, <2>9, <2>12, <3>1, <4>1, <5>1, Zenon DEF PushedSome
      <4>2. CASE ~(n <= Len(stack))
        <5> DEFINE k == n - Len(stack)
        <5>1. k \in 1 .. 8 /\ Len(stack) - n = -k
          BY <1>2, <2>12, <4>2, SMT
        <5>2. stack'[n] = Saved(k - 1)
          BY <2>11, <2>12, <4>2, <5>1
        <5> HIDE DEF k
        <5>3. Held(Saved(k - 1), -k, regs[SP], segs[SS], m8)
          BY <2>9, <2>10, <5>1, Zenon DEF PushedSome
        <5> QED BY <1>1, <3>1, <5>1, <5>2, <5>3
      <4> QED BY <4>1, <4>2
    <3> HIDE DEF j
    <3>3. Held(stack'[n], j, (regs[SP] + 2 * (-8)) % WORD, segs[SS], mem')
      BY <1>2, <3>1, <3>2, StaysHeld
    <3> QED BY <1>1, <2>13, <3>3 DEF j
  <2>15. 2 * Len(stack') <= WORD
    <3>1. 2 * (Len(stack) + 8) <= WORD
      BY <1>4, Zenon DEF Fits
    <3> QED BY <2>12, <3>1, Zenon
  <2> QED BY <2>14, <2>15, Zenon DEF StackInv
<1> QED BY <1>3, <1>4
\* The instructions that are not about the stack.
LEMMA NotStacking ==
  ASSUME \/ MovImmediate \/ MovTo \/ MovFrom \/ MovFromSegment \/ MovToSegment
         \/ LoadAccumulator \/ StoreAccumulator \/ Lea \/ XchgAccumulator \/ Xchg
         \/ Lahf \/ Sahf \/ Cld \/ Std \/ Cli \/ Sti \/ Jmp \/ JmpOperand
         \/ Loop \/ LoopEqual \/ LoopNotEqual
         \/ StringOnce \/ RepNothing \/ RepInvalid \/ RepRound \/ int21_PrintString
  PROVE  StackKept
<1>1. ASSUME NEW op, NEW m, SetMode(op, m) PROVE StackKept
  BY <1>1, Zenon DEF SetMode, Plain
<1>2. ASSUME NEW n, JumpTo(n) PROVE StackKept
  BY <1>2, Zenon DEF JumpTo
<1>3. ASSUME NEW op, NEW more, LoopWhile(op, more) PROVE StackKept
  BY <1>2, <1>3, Zenon DEF LoopWhile
<1>4. CASE \/ MovImmediate \/ MovTo \/ MovFrom \/ MovFromSegment \/ MovToSegment
           \/ LoadAccumulator \/ StoreAccumulator \/ Lea
  BY <1>4, Zenon DEF MovImmediate, MovTo, MovFrom, MovFromSegment, MovToSegment,
     LoadAccumulator, StoreAccumulator, Lea, Plain
<1>5. CASE XchgAccumulator \/ Xchg \/ Lahf \/ Sahf
  BY <1>5, Zenon DEF XchgAccumulator, Xchg, Lahf, Sahf, Plain
<1>6. CASE Cld \/ Std \/ Cli \/ Sti
  BY <1>1, <1>6, Zenon DEF Cld, Std, Cli, Sti
<1>7. CASE Jmp \/ JmpOperand \/ Loop \/ LoopEqual \/ LoopNotEqual
  BY <1>2, <1>3, <1>7, Zenon DEF Jmp, JmpOperand, Loop, LoopEqual, LoopNotEqual
<1>8. CASE StringOnce \/ RepNothing \/ RepInvalid \/ RepRound \/ int21_PrintString
  BY <1>8, Zenon DEF StringOnce, RepNothing, RepInvalid, RepRound, int21_PrintString, Plain
<1> QED BY <1>4, <1>5, <1>6, <1>7, <1>8

LEMMA EntryPushed ==
  ASSUME TypeOK, NEW r \in Reg, NEW v \in Word
  PROVE  /\ PushedWord(Entry("PUSH", r, Pushed(r)))
         /\ r \in SegReg => PushedWord(Entry("PUSHS", r, segs[r]))
         /\ PushedWord(Entry("PUSHO", r, v))
         /\ PushedWord(Entry("PUSHF", r, toWord))
         /\ PushedWord(Entry("CALL", r, pc + 1))
<1>1. \A op, w : /\ Entry(op, r, w).op = op /\ Entry(op, r, w).r = r
                 /\ Entry(op, r, w).word = w /\ Entry(op, r, w).regs = regs
                 /\ Entry(op, r, w).segs = segs /\ Entry(op, r, w).flags = flags
                 /\ Entry(op, r, w).modes = modes /\ Entry(op, r, w).pc = pc
  BY Zenon DEF Entry
<1>2. PushedWord(Entry("PUSH", r, Pushed(r)))
  BY <1>1, SMT DEF PushedWord, Pushed
<1>3. r \in SegReg => PushedWord(Entry("PUSHS", r, segs[r]))
  BY <1>1, SMT DEF PushedWord
<1>4. PushedWord(Entry("PUSHO", r, v))
  BY <1>1, SMT DEF PushedWord
<1>5. PushedWord(Entry("PUSHF", r, toWord))
  BY <1>1, SMT DEF PushedWord, toWord
<1>6. PushedWord(Entry("CALL", r, pc + 1))
  BY <1>1, SMT DEF PushedWord
<1> QED BY <1>2, <1>3, <1>4, <1>5, <1>6

LEMMA PushesHold ==
  ASSUME TypeOK, StackInv,
         PushRegister \/ PushSegment \/ PushOperand \/ PushFlags \/ Call \/ CallOperand
  PROVE  StackInv'
<1>1. /\ {"PUSH", "PUSHS", "PUSHO", "PUSHF", "CALL"} \subseteq Pops /\ 0 \in Reg
      /\ "PUSH" # "PUSHA" /\ "PUSHS" # "PUSHA" /\ "PUSHO" # "PUSHA"
      /\ "PUSHF" # "PUSHA" /\ "CALL" # "PUSHA"
  BY SMT DEF Pops, Stacking, Control, Reg
<1>2. CASE PushRegister
  <2>1. Runs("PUSH") /\ Push("PUSH", ins.r, Pushed(ins.r))
    BY <1>2, Zenon DEF PushRegister
  <2>2. Data /\ ins.r \in Reg
    BY <2>1, RunsType
  <2>3. Pushed(ins.r) \in Word
    BY <2>2, PushedType
  <2> QED BY <1>1, <2>1, <2>2, <2>3, ZeroWord, EntryPushed, PushHolds
<1>3. CASE PushSegment
  <2>1. Runs("PUSHS") /\ Push("PUSHS", ins.r, segs[ins.r])
    BY <1>3, Zenon DEF PushSegment
  <2>2. Data /\ ins.r \in Reg /\ ins.r \in SegReg
    BY <2>1, RunsType DEF IsInstruction
  <2>3. segs[ins.r] \in Word
    BY <2>2, SegmentType
  <2> QED BY <1>1, <2>1, <2>2, <2>3, EntryPushed, PushHolds
<1>4. CASE PushOperand
  <2>1. Runs("PUSHO") /\ Push("PUSHO", 0, ReadOperand(ins.o, WORD))
    BY <1>4, Zenon DEF PushOperand
  <2>2. Data /\ ins.o \in Operand
    BY <2>1, RunsType
  <2>3. ReadOperand(ins.o, WORD) \in Word
    BY <2>2, ReadOperandWord
  <2> QED BY <1>1, <2>1, <2>3, EntryPushed, PushHolds
<1>5. CASE PushFlags
  <2>1. Push("PUSHF", 0, toWord)
    BY <1>5, Zenon DEF PushFlags
  <2> QED BY <1>1, <2>1, ToWordType, EntryPushed, PushHolds
<1>6. CASE Call \/ CallOperand
  <2>1. \E op : Runs(op) /\ Push("CALL", 0, pc + 1)
    BY <1>6, Zenon DEF Call, CallOperand
  <2>2. pc + 1 \in Word
    BY <2>1, RunsType, PlaceInWord
  <2> QED BY <1>1, <2>1, <2>2, EntryPushed, PushHolds
<1> QED BY <1>2, <1>3, <1>4, <1>5, <1>6

LEMMA StackStep == ASSUME TypeOK, StackInv, [Next]_vars PROVE StackInv'
<1>1. TypeOK'
  BY StepType
<1>2. CASE UNCHANGED vars
  <2>1. regs' = regs /\ segs' = segs /\ mem' = mem /\ stack' = stack
    BY <1>2, Zenon DEF vars
  <2> QED BY <2>1, Zenon DEF StackInv
<1>3. CASE PushRegister \/ PushSegment \/ PushOperand \/ PushFlags \/ Call \/ CallOperand
  BY <1>3, PushesHold
<1>4. CASE PopRegister \/ PopSegment \/ PopFlags \/ Ret
  <2>1. \E op, r : Pop(op, r)
    BY <1>4, Zenon DEF PopRegister, PopSegment, PopFlags, Ret
  <2> QED BY <2>1, OnePopHolds
<1>5. CASE PushAll \/ PopAll
  BY <1>5, PushAllHolds, PopAllHolds
<1>6. CASE StackKept
  BY <1>1, <1>6, StackKeptHolds
<1> QED BY <1>2, <1>3, <1>4, <1>5, <1>6, NotStacking, Zenon DEF Next

LEMMA StackInit == ASSUME Init PROVE StackInv
<1>1. stack = <<>>
  BY Zenon DEF Init
<1>2. Len(stack) = 0
  BY <1>1, EmptySeq
<1>3. (\A n \in 1 .. 0 : FALSE) /\ 2 * 0 <= WORD
  BY Sizes, SMT
<1> QED BY <1>2, <1>3, Zenon DEF StackInv

\* Whatever a program pushes, pops and writes, on whatever stack: what was
\* pushed and not popped is in memory, as deep as it was pushed.
THEOREM MachineStack == Spec => []StackHolds
<1>1. Init => StackInv
  BY StackInit
<1>2. TypeOK /\ StackInv /\ [Next]_vars => StackInv'
  BY StackStep
<1>3. StackInv => StackHolds
  BY StackInvHolds
<1> QED BY <1>1, <1>2, <1>3, MachineTypeCorrect, PTL DEF Spec
-------------------------------------------------------------------------------
(* Pushes and pops *)

LEMMA KeptPairs == ASSUME popped' = NoPop PROVE PairsAreInverse'
<1>1. popped'.op = "none"
  BY Zenon DEF NoPop
<1>2. /\ popped'.op # "POP" /\ popped'.op # "POPS" /\ popped'.op # "POPF"
      /\ popped'.op # "RET" /\ popped'.op # "POPA"
  BY <1>1, SMT
<1> QED BY <1>2, Zenon DEF PairsAreInverse

\* The entries on top of the stack, and what pops find of them.
LEMMA OnTop ==
  ASSUME TypeOK, StackInv, NEW k \in Nat, k < Len(stack)
  PROVE  LET e == stack[Len(stack) - k]
         IN  /\ e \in EntrySet /\ PushedWord(e) /\ Top(k) = e.word
             /\ Place(e) = (regs[SP] + 2 * k) % WORD
<1>1. stack \in Seq(EntrySet) /\ Len(stack) \in Nat
  BY TypeParts, StackLength
<1>2. Len(stack) - k \in 1 .. Len(stack) /\ Len(stack) - (Len(stack) - k) = k
  BY <1>1, SMT
<1>3. Held(stack[Len(stack) - k], k, regs[SP], segs[SS], mem)
  BY <1>2, Zenon DEF StackInv
<1>4. stack[Len(stack) - k] \in EntrySet
  BY <1>1, <1>2, ElementOfSeq
<1> QED BY <1>3, <1>4, Zenon DEF Held, SlotAt, Top

LEMMA LastOnTop ==
  ASSUME TypeOK, StackInv, stack # <<>>
  PROVE  LET e == stack[Len(stack)]
         IN  e \in EntrySet /\ PushedWord(e) /\ Top(0) = e.word /\ Place(e) = regs[SP]
<1>1. Data /\ History /\ regs[SP] \in Word /\ regs[SP] \in Int
  BY TypeParts, RegisterType, Registers
<1>2. 0 \in Nat /\ 0 < Len(stack) /\ Len(stack) - 0 = Len(stack)
  BY <1>1, LastEntry, SMT
<1>3. (regs[SP] + 2 * 0) % WORD = regs[SP]
  <2>1. regs[SP] + 2 * 0 = regs[SP]
    BY <1>1, SMT
  <2> QED BY <1>1, <2>1, Within
<1> QED BY <1>2, <1>3, OnTop

LEMMA UpAgain ==
  ASSUME NEW x \in Word, NEW d \in Int PROVE (((x - d) % WORD) + d) % WORD = x
<1>1. x \in Int /\ x - d \in Int /\ x - d + d = x
  BY WordFacts, SMT
<1>2. (((x - d) % WORD) + d) % WORD = (x - d + d) % WORD
  BY <1>1, Modular
<1> QED BY <1>1, <1>2, Within

\* What a pop of one word has taken, and the pointer above it.
LEMMA PopTakes ==
  ASSUME TypeOK, StackInv, NEW op, NEW r, Pop(op, r)
  PROVE  /\ popped'.op = op /\ popped'.r = r
         /\ \/ popped'.from.op = "none"
            \/ /\ popped'.from \in EntrySet /\ PushedWord(popped'.from)
               /\ Top(0) = popped'.from.word
               /\ popped'.from.op # "PUSHA" => (regs[SP] + 2) % WORD = popped'.from.regs[SP]
<1>1. popped' = [op |-> op, r |-> r,
                 from |-> IF stack = <<>> THEN NoEntry ELSE stack[Len(stack)]]
  BY Zenon DEF Pop
<1>2. CASE stack = <<>>
  <2>1. popped'.from.op = "none"
    BY <1>1, <1>2, Zenon DEF NoEntry
  <2> QED BY <1>1, <2>1
<1>3. CASE stack # <<>>
  <2> DEFINE e == stack[Len(stack)]
  <2>1. e \in EntrySet /\ PushedWord(e) /\ Top(0) = e.word /\ Place(e) = regs[SP]
    BY <1>3, LastOnTop
  <2>2. popped'.from = e
    BY <1>1, <1>3
  <2> HIDE DEF e
  <2>3. ASSUME e.op # "PUSHA" PROVE (regs[SP] + 2) % WORD = e.regs[SP]
    <3>1. e.regs[SP] \in Word
      BY <2>1, EntryParts, Registers, Zenon DEF RegSet
    <3>2. 2 * 1 = 2 /\ 2 \in Int
      BY SMT
    <3>3. Place(e) = (e.regs[SP] - 2) % WORD
      BY <2>3, <3>2, Zenon DEF Place
    <3> QED BY <2>1, <3>1, <3>2, <3>3, UpAgain
  <2> QED BY <1>1, <2>1, <2>2, <2>3
<1> QED BY <1>2, <1>3

LEMMA PoppedSP ==
  ASSUME NEW rs \in RegSet
  PROVE  /\ Popped(rs)[SP] = (rs[SP] + 2) % WORD
         /\ \A r \in Reg \ {SP} : Popped(rs)[r] = rs[r]
  BY Registers, Zenon DEF Popped, RegSet

LEMMA PopPair == ASSUME TypeOK, StackInv, PopRegister PROVE PairsAreInverse'
<1>1. /\ Runs("POP") /\ regs' = Popped([regs EXCEPT ![ins.r] = Top(0)])
      /\ Pop("POP", ins.r)
  BY Zenon DEF PopRegister
<1>2. Data /\ ins.r \in Reg /\ regs \in RegSet
  BY <1>1, RunsType DEF Data
<1> DEFINE e == popped'.from
           rs == [regs EXCEPT ![ins.r] = Top(0)]
<1>3. ASSUME e.op = "PUSH", popped'.r = SP <=> e.r = SP
      PROVE  regs'[popped'.r] = e.regs[e.r] /\ regs'[SP] = e.regs[SP]
  <2>1. /\ popped'.r = ins.r /\ e \in EntrySet /\ PushedWord(e) /\ Top(0) = e.word
        /\ (regs[SP] + 2) % WORD = e.regs[SP]
    <3>1. e.op # "none" /\ e.op # "PUSHA"
      BY <1>3, SMT
    <3> QED BY <1>1, <3>1, PopTakes
  <2> HIDE DEF e
  <2>2. e.word = IF e.r = SP THEN (e.regs[SP] - 2) % WORD ELSE e.regs[e.r]
    BY <1>3, <2>1, Zenon DEF PushedWord
  <2>3. rs \in RegSet /\ rs[ins.r] = e.word /\ (ins.r # SP => rs[SP] = regs[SP])
    BY <1>2, <2>1, TopType, SetWord, Registers, Zenon DEF RegSet
  <2>4. regs' = Popped(rs)
    BY <1>1
  <2> HIDE DEF rs
  <2>5. CASE ins.r = SP
    <3>1. e.regs[SP] \in Word
      BY <2>1, EntryParts, Registers, Zenon DEF RegSet
    <3>2. e.r = SP /\ regs'[SP] = (e.word + 2) % WORD
      BY <1>3, <2>1, <2>3, <2>4, <2>5, PoppedSP
    <3>3. 2 \in Int
      BY SMT
    <3>4. regs'[SP] = e.regs[SP]
      BY <2>2, <3>1, <3>2, <3>3, UpAgain
    <3> QED BY <2>1, <2>5, <3>2, <3>4
  <2>6. CASE ins.r # SP
    <3>1. regs'[SP] = (regs[SP] + 2) % WORD /\ regs'[ins.r] = e.word
      BY <1>2, <2>3, <2>4, <2>6, PoppedSP
    <3>2. e.r # SP
      BY <1>3, <2>1, <2>6
    <3> QED BY <2>1, <2>2, <3>1, <3>2
  <2> QED BY <2>5, <2>6
<1>4. popped'.op = "POP"
  BY <1>1, PopTakes
<1>5. popped'.op # "POPS" /\ popped'.op # "POPF" /\ popped'.op # "RET" /\ popped'.op # "POPA"
  BY <1>4, SMT
<1> QED BY <1>3, <1>5, Zenon DEF PairsAreInverse

LEMMA PopSegmentPair == ASSUME TypeOK, StackInv, PopSegment PROVE PairsAreInverse'
<1>1. /\ Runs("POPS") /\ regs' = Popped(regs) /\ segs' = [segs EXCEPT ![ins.r] = Top(0)]
      /\ Pop("POPS", ins.r)
  BY Zenon DEF PopSegment
<1>2. ins.r \in SegReg /\ regs \in RegSet /\ segs \in [SegReg -> Word]
  BY <1>1, RunsType DEF Data, IsInstruction
<1> DEFINE e == popped'.from
<1>3. ASSUME e.op = "PUSHS" PROVE segs'[popped'.r] = e.segs[e.r] /\ regs'[SP] = e.regs[SP]
  <2>1. /\ popped'.r = ins.r /\ PushedWord(e) /\ Top(0) = e.word
        /\ (regs[SP] + 2) % WORD = e.regs[SP]
    <3>1. e.op # "none" /\ e.op # "PUSHA"
      BY <1>3, SMT
    <3> QED BY <1>1, <3>1, PopTakes
  <2>2. e.word = e.segs[e.r]
    BY <1>3, <2>1, Zenon DEF PushedWord
  <2>3. segs'[ins.r] = Top(0) /\ regs'[SP] = (regs[SP] + 2) % WORD
    BY <1>1, <1>2, PoppedSP
  <2> QED BY <2>1, <2>2, <2>3
<1>4. popped'.op = "POPS"
  BY <1>1, PopTakes
<1>5. popped'.op # "POP" /\ popped'.op # "POPF" /\ popped'.op # "RET" /\ popped'.op # "POPA"
  BY <1>4, SMT
<1> HIDE DEF e
<1> QED BY <1>3, <1>5, Zenon DEF PairsAreInverse, e

LEMMA SameBit ==
  ASSUME NEW S, NEW T, S = T \intersect 0 .. 15, NEW n \in 0 .. 15, NEW b \in BOOLEAN,
         n \in T <=> b
  PROVE  (n \in S) = b
<1>1. n \in S <=> n \in T
  BY Zenon
<1>2. (n \in S) \in BOOLEAN
  BY Member
<1> QED BY <1>1, <1>2, Zenon

\* The flags come back from their word.
LEMMA FlagsBack ==
  ASSUME NEW f \in FlagSet, NEW m \in ModeSet, fromWord(Value(Raised(f, m)))
  PROVE  flags' = f /\ modes' = m
<1> DEFINE S == Bits(Value(Raised(f, m)))
<1>1. /\ f.CF \in BOOLEAN /\ f.ZF \in BOOLEAN /\ f.SF \in BOOLEAN
      /\ f.PF \in BOOLEAN /\ f.AF \in BOOLEAN /\ f.OF \in BOOLEAN
      /\ m.TF \in BOOLEAN /\ m.IE \in BOOLEAN /\ m.DF \in BOOLEAN
  BY Zenon DEF FlagSet, ModeSet
<1>2. S = Raised(f, m) \intersect 0 .. 15
  BY BitsOfValue
<1>3. /\ 0 \in 0 .. 15 /\ 2 \in 0 .. 15 /\ 4 \in 0 .. 15 /\ 6 \in 0 .. 15 /\ 7 \in 0 .. 15
      /\ 8 \in 0 .. 15 /\ 9 \in 0 .. 15 /\ 10 \in 0 .. 15 /\ 11 \in 0 .. 15
  BY SMT
<1>4. \A n \in 0 .. 15 :
        n \in Raised(f, m) <=>
            CASE n = 0 -> f.CF [] n = 1 -> TRUE [] n = 2 -> f.PF [] n = 4 -> f.AF
              [] n = 6 -> f.ZF [] n = 7 -> f.SF [] n = 8 -> m.TF [] n = 9 -> m.IE
              [] n = 10 -> m.DF [] n = 11 -> f.OF [] OTHER -> FALSE
  BY Zenon DEF Raised
<1>5. /\ 0 \in Raised(f, m) <=> f.CF
      /\ 2 \in Raised(f, m) <=> f.PF
      /\ 4 \in Raised(f, m) <=> f.AF
      /\ 6 \in Raised(f, m) <=> f.ZF
      /\ 7 \in Raised(f, m) <=> f.SF
      /\ 8 \in Raised(f, m) <=> m.TF
      /\ 9 \in Raised(f, m) <=> m.IE
      /\ 10 \in Raised(f, m) <=> m.DF
      /\ 11 \in Raised(f, m) <=> f.OF
  BY <1>3, <1>4, SMT
<1>6. /\ (0 \in S) = f.CF /\ (2 \in S) = f.PF /\ (4 \in S) = f.AF
      /\ (6 \in S) = f.ZF /\ (7 \in S) = f.SF /\ (8 \in S) = m.TF
      /\ (9 \in S) = m.IE /\ (10 \in S) = m.DF /\ (11 \in S) = f.OF
  <2> HIDE DEF S
  <2>1. (0 \in S) = f.CF /\ (2 \in S) = f.PF /\ (4 \in S) = f.AF
    BY <1>1, <1>2, <1>3, <1>5, SameBit
  <2>2. (6 \in S) = f.ZF /\ (7 \in S) = f.SF /\ (8 \in S) = m.TF
    BY <1>1, <1>2, <1>3, <1>5, SameBit
  <2>3. (9 \in S) = m.IE /\ (10 \in S) = m.DF /\ (11 \in S) = f.OF
    BY <1>1, <1>2, <1>3, <1>5, SameBit
  <2> QED BY <2>1, <2>2, <2>3
<1>7. /\ flags' = [CF |-> 0 \in S, PF |-> 2 \in S, AF |-> 4 \in S,
                   ZF |-> 6 \in S, SF |-> 7 \in S, OF |-> 11 \in S]
      /\ modes' = [TF |-> 8 \in S, IE |-> 9 \in S, DF |-> 10 \in S]
  BY Zenon DEF fromWord
<1> HIDE DEF S
<1>8. flags' = [CF |-> f.CF, PF |-> f.PF, AF |-> f.AF, ZF |-> f.ZF, SF |-> f.SF, OF |-> f.OF]
  BY <1>6, <1>7
<1>9. modes' = [TF |-> m.TF, IE |-> m.IE, DF |-> m.DF]
  BY <1>6, <1>7
<1>10. f = [CF |-> f.CF, PF |-> f.PF, AF |-> f.AF, ZF |-> f.ZF, SF |-> f.SF, OF |-> f.OF]
  BY Zenon DEF FlagSet
<1>11. m = [TF |-> m.TF, IE |-> m.IE, DF |-> m.DF]
  BY Zenon DEF ModeSet
<1> QED BY <1>8, <1>9, <1>10, <1>11

LEMMA PopFlagsPair == ASSUME TypeOK, StackInv, PopFlags PROVE PairsAreInverse'
<1>1. Runs("POPF") /\ regs' = Popped(regs) /\ fromWord(Top(0)) /\ Pop("POPF", 0)
  BY Zenon DEF PopFlags
<1>2. regs \in RegSet
  BY <1>1, RunsType DEF Data
<1> DEFINE e == popped'.from
<1>3. ASSUME e.op = "PUSHF"
      PROVE  flags' = e.flags /\ modes' = e.modes /\ regs'[SP] = e.regs[SP]
  <2>1. /\ e \in EntrySet /\ PushedWord(e) /\ Top(0) = e.word
        /\ (regs[SP] + 2) % WORD = e.regs[SP]
    <3>1. e.op # "none" /\ e.op # "PUSHA"
      BY <1>3, SMT
    <3> QED BY <1>1, <3>1, PopTakes
  <2>2. e.word = Value(Raised(e.flags, e.modes))
    BY <1>3, <2>1, Zenon DEF PushedWord
  <2>3. e.flags \in FlagSet /\ e.modes \in ModeSet
    BY <2>1, EntryParts
  <2> HIDE DEF e
  <2>4. flags' = e.flags /\ modes' = e.modes
    BY <1>1, <2>1, <2>2, <2>3, FlagsBack
  <2> QED BY <1>1, <1>2, <2>1, <2>4, PoppedSP
<1>4. popped'.op = "POPF"
  BY <1>1, PopTakes
<1>5. popped'.op # "POP" /\ popped'.op # "POPS" /\ popped'.op # "RET" /\ popped'.op # "POPA"
  BY <1>4, SMT
<1> QED BY <1>3, <1>5, Zenon DEF PairsAreInverse

LEMMA RetPair == ASSUME TypeOK, StackInv, Ret PROVE PairsAreInverse'
<1>1. Runs("RET") /\ regs' = Popped(regs) /\ Pop("RET", 0) /\ pc' = Top(0)
  BY Zenon DEF Ret, Goto
<1>2. regs \in RegSet
  BY <1>1, RunsType DEF Data
<1> DEFINE e == popped'.from
<1>3. ASSUME e.op = "CALL" PROVE pc' = e.pc + 1 /\ regs'[SP] = e.regs[SP]
  <2>1. /\ PushedWord(e) /\ Top(0) = e.word /\ (regs[SP] + 2) % WORD = e.regs[SP]
    <3>1. e.op # "none" /\ e.op # "PUSHA"
      BY <1>3, SMT
    <3> QED BY <1>1, <3>1, PopTakes
  <2>2. e.word = e.pc + 1
    BY <1>3, <2>1, Zenon DEF PushedWord
  <2> QED BY <1>1, <1>2, <2>1, <2>2, PoppedSP
<1>4. popped'.op = "RET"
  BY <1>1, PopTakes
<1>5. popped'.op # "POP" /\ popped'.op # "POPS" /\ popped'.op # "POPF" /\ popped'.op # "POPA"
  BY <1>4, SMT
<1> QED BY <1>3, <1>5, Zenon DEF PairsAreInverse

LEMMA PopAllPair == ASSUME TypeOK, StackInv, PopAll PROVE PairsAreInverse'
<1>1. /\ Runs("POPA")
      /\ regs' = [r \in Reg |-> IF r = SP THEN (regs[SP] + 16) % WORD ELSE Top(7 - r)]
      /\ popped' = [op |-> "POPA", r |-> 0,
                    from |-> IF WholePusha THEN stack[Len(stack)] ELSE NoEntry]
  BY Zenon DEF PopAll
<1> DEFINE e == stack[Len(stack)]
<1>2. ASSUME WholePusha PROVE regs' = e.regs
  <2>1. Data /\ History /\ Len(stack) \in Nat
    BY TypeParts, StackLength
  <2>2. Len(stack) >= 8
    BY <1>2, Zenon DEF WholePusha
  <2>3. ASSUME NEW r \in Reg
        PROVE  LET f == stack[Len(stack) - (7 - r)]
               IN  /\ f.op = "PUSHA" /\ f.r = r /\ f.regs = e.regs /\ f.word = e.regs[r]
                   /\ Top(7 - r) = e.regs[r] /\ Place(f) = (regs[SP] + 2 * (7 - r)) % WORD
    <3> DEFINE f == stack[Len(stack) - (7 - r)]
    <3>1. Len(stack) - 7 + r = Len(stack) - (7 - r) /\ 7 - r \in Nat /\ 7 - r < Len(stack)
      BY <2>1, <2>2, SMT DEF Reg
    <3>2. f.op = "PUSHA" /\ f.r = r /\ f.regs = e.regs
      BY <1>2, <3>1, Zenon DEF WholePusha
    <3>3. /\ PushedWord(f) /\ Top(7 - r) = f.word
          /\ Place(f) = (regs[SP] + 2 * (7 - r)) % WORD
      BY <3>1, OnTop
    <3> HIDE DEF f
    <3>4. f.word = f.regs[f.r]
      BY <3>2, <3>3, Zenon DEF PushedWord
    <3> QED BY <3>2, <3>3, <3>4 DEF f
  <2>4. e \in EntrySet
    BY <2>1, <2>2, EmptySeq, LastEntry, SMT
  <2>5. (regs[SP] + 16) % WORD = e.regs[SP]
    <3>1. DI \in Reg /\ Len(stack) - (7 - DI) = Len(stack) /\ 2 * (DI + 1) = 16 /\ 16 \in Int
      BY <2>1, SMT DEF DI, Reg
    <3>2. 7 - DI = 0 /\ regs[SP] + 2 * 0 = regs[SP]
      BY <2>1, RegisterType, Registers, SMT DEF DI
    <3>3. regs[SP] \in Word /\ e.regs[SP] \in Word
      BY <2>1, <2>4, RegisterType, EntryParts, Registers, Zenon DEF RegSet
    <3>4. e.op = "PUSHA" /\ e.r = DI /\ Place(e) = (regs[SP] + 2 * (7 - DI)) % WORD
      BY <2>3, <3>1
    <3>5. Place(e) = regs[SP]
      BY <3>2, <3>3, <3>4, Within
    <3>6. Place(e) = (e.regs[SP] - 16) % WORD
      BY <3>1, <3>4, Zenon DEF Place
    <3> QED BY <3>1, <3>3, <3>5, <3>6, UpAgain
  <2>6. e.regs \in [Reg -> Word]
    BY <2>4, EntryParts DEF RegSet
  <2> HIDE DEF e
  <2>7. \A r \in Reg : regs'[r] = e.regs[r]
    BY <1>1, <2>3, <2>5, Zenon
  <2> QED BY <1>1, <2>6, <2>7, Zenon
<1>3. popped'.from.op = "PUSHA" => WholePusha /\ popped'.from = e
  <2>1. NoEntry.op # "PUSHA"
    BY SMT DEF NoEntry
  <2> QED BY <1>1, <2>1
<1>4. popped'.op = "POPA"
  BY <1>1
<1>5. popped'.op # "POP" /\ popped'.op # "POPS" /\ popped'.op # "POPF" /\ popped'.op # "RET"
  BY <1>4, SMT
<1> QED BY <1>2, <1>3, <1>5, Zenon DEF PairsAreInverse

LEMMA PairsStep ==
  ASSUME TypeOK, StackInv, PairsAreInverse, [Next]_vars PROVE PairsAreInverse'
<1>1. CASE UNCHANGED vars
  <2>1. /\ regs' = regs /\ segs' = segs /\ flags' = flags /\ modes' = modes
        /\ pc' = pc /\ popped' = popped
    BY <1>1, Zenon DEF vars
  <2> QED BY <2>1, Zenon DEF PairsAreInverse
<1>2. CASE PushRegister \/ PushSegment \/ PushOperand \/ PushFlags \/ Call \/ CallOperand
  <2>1. \E op, r, v : Push(op, r, v)
    BY <1>2, Zenon DEF PushRegister, PushSegment, PushOperand, PushFlags, Call, CallOperand
  <2>2. popped' = NoPop
    BY <2>1, Zenon DEF Push
  <2> QED BY <2>2, KeptPairs
<1>3. CASE PushAll
  <2>1. popped' = NoPop
    BY <1>3, Zenon DEF PushAll
  <2> QED BY <2>1, KeptPairs
<1>4. CASE StackKept
  <2>1. popped' = NoPop
    BY <1>4, Zenon DEF StackKept
  <2> QED BY <2>1, KeptPairs
<1> QED
  BY <1>1, <1>2, <1>3, <1>4, NotStacking, PopPair, PopSegmentPair, PopFlagsPair, RetPair,
     PopAllPair, Zenon DEF Next

\* A pop undoes the push whose word it takes, whatever has run in between.
THEOREM MachinePairs == Spec => []PairsAreInverse
<1>1. Init => StackInv /\ PairsAreInverse
  <2>1. ASSUME popped = NoPop PROVE PairsAreInverse
    <3>1. popped.op = "none"
      BY <2>1, Zenon DEF NoPop
    <3>2. /\ popped.op # "POP" /\ popped.op # "POPS" /\ popped.op # "POPF"
          /\ popped.op # "RET" /\ popped.op # "POPA"
      BY <3>1, SMT
    <3> QED BY <3>2, Zenon DEF PairsAreInverse
  <2>2. Init => popped = NoPop
    BY Zenon DEF Init
  <2> QED BY <2>1, <2>2, StackInit
<1>2. TypeOK /\ StackInv /\ PairsAreInverse /\ [Next]_vars => StackInv' /\ PairsAreInverse'
  BY StackStep, PairsStep
<1> QED BY <1>1, <1>2, MachineTypeCorrect, PTL DEF Spec
-------------------------------------------------------------------------------
(* Instructions of many rounds *)

\* The offset n elements away from off, and the addresses of the elements of
\* a job j, in given segments and modes.
Away(off, n, w, md) == (off + (IF md.DF THEN -n ELSE n) * Step(w)) % WORD
FromOf(j, n, ss, md) == Physical(ss[DS], Away(j.regs[SI], n, j.w, md))
ToOf(j, n, ss, md) == Physical(ss[ES], Away(j.regs[DI], n, j.w, md))
AccumulatorOf(j) == IF j.w = WORD THEN j.regs[AX] ELSE j.regs[AX] % BYTE

CountedOf(j, rs, md) ==
    /\ j.n <= j.regs[CX] /\ rs[CX] = j.regs[CX] - j.n
    /\ \A r \in Reg \ {CX, SI, DI} : rs[r] = j.regs[r]
    /\ rs[SI] = IF j.op \in UsesSI THEN Away(j.regs[SI], j.n, j.w, md) ELSE j.regs[SI]
    /\ rs[DI] = Away(j.regs[DI], j.n, j.w, md)

\* What a block has become: its elements, where nothing disturbs them, and
\* nothing else.
Undisturbed(j, n, ss, md) ==
    /\ Valid(ToOf(j, n, ss, md), j.w)
    /\ \A k \in n + 1 .. j.n - 1 :
           Cells(ToOf(j, k, ss, md), j.w) \intersect Cells(ToOf(j, n, ss, md), j.w) = {}
    /\ j.op = "MOVS" =>
           \A k \in 0 .. n - 1 :
               Cells(ToOf(j, k, ss, md), j.w) \intersect Cells(FromOf(j, n, ss, md), j.w) = {}
Written(j, m, ss, md) ==
    \A n \in 0 .. j.n - 1 :
        Undisturbed(j, n, ss, md) =>
            Read(m, ToOf(j, n, ss, md), j.w) =
                IF j.op = "STOS" THEN AccumulatorOf(j)
                ELSE Read(j.mem, FromOf(j, n, ss, md), j.w)
Confined(j, m, ss, md) ==
    \A c : \/ Cell(m, c) = Cell(j.mem, c)
          \/ \E n \in 0 .. j.n - 1 :
                /\ Valid(ToOf(j, n, ss, md), j.w) /\ c \in Cells(ToOf(j, n, ss, md), j.w)

\* What a search has seen.
EqualOf(j, n, ss, md) ==
    Read(j.mem, ToOf(j, n, ss, md), j.w) =
        IF j.op = "SCAS" THEN AccumulatorOf(j) ELSE Read(j.mem, FromOf(j, n, ss, md), j.w)
Searched(j, n, ss, md) == \A k \in 0 .. n - 1 : EqualOf(j, k, ss, md) <=> j.rep = "E"

RepInv ==
    job.op \in Repeated =>
        /\ job.n > 0
        /\ CountedOf(job, regs, modes)
        /\ job.active <=> regs[CX] # 0 /\ (job.op \in Compares => (flags.ZF <=> job.rep = "E"))
BlockInv ==
    job.op \in {"MOVS", "STOS"} =>
        Written(job, mem, segs, modes) /\ Confined(job, mem, segs, modes)
SearchInv ==
    job.op \in Compares =>
        /\ mem = job.mem
        /\ Searched(job, job.n - 1, segs, modes)
        /\ flags.ZF <=> EqualOf(job, job.n - 1, segs, modes)

\* A job that goes on belongs to the next instruction.
RunningInv ==
    job.active =>
        /\ pc \in 1 .. Len(prog) /\ ins.op = job.op
        /\ job.op # "PRINT" => ins.w = job.w /\ ins.rep = job.rep

RoundsInv == RunningInv /\ RepInv /\ BlockInv /\ SearchInv

LEMMA MovedIsAway ==
  \A off, n, w : Moved(off, n, w) = Away(off, n, w, modes)
  BY Zenon DEF Moved, Away

LEMMA AwayType ==
  ASSUME NEW off \in Int, NEW n \in Int, NEW w \in Width, NEW md
  PROVE  Away(off, n, w, md) \in Word
<1> DEFINE d == off + (IF md.DF THEN -n ELSE n) * Step(w)
<1>1. d \in Int
  BY StepIs, SMT
<1>2. Away(off, n, w, md) = d % WORD
  BY DEF Away
<1> HIDE DEF d
<1> QED BY <1>1, <1>2, ModWord

LEMMA AwayNone ==
  ASSUME NEW off \in Word, NEW w \in Width, NEW md PROVE Away(off, 0, w, md) = off
<1>1. off \in Int
  BY WordFacts
<1>2. off + (IF md.DF THEN -0 ELSE 0) * Step(w) = off
  BY <1>1, StepIs, SMT
<1> QED BY <1>2, Within, Zenon DEF Away

LEMMA AwayMore ==
  ASSUME NEW off \in Int, NEW n \in Int, NEW w \in Width, NEW md
  PROVE  Away(Away(off, n, w, md), 1, w, md) = Away(off, n + 1, w, md)
<1> DEFINE s == Step(w)
           x == off + (IF md.DF THEN -n ELSE n) * s
           y == (IF md.DF THEN -1 ELSE 1) * s
<1>1. s = 1 \/ s = 2
  BY StepIs
<1>2. Away(Away(off, n, w, md), 1, w, md) = ((x % WORD) + y) % WORD
  BY Zenon DEF Away
<1>3. Away(off, n + 1, w, md) = (off + (IF md.DF THEN -(n + 1) ELSE n + 1) * s) % WORD
  BY Zenon DEF Away
<1> HIDE DEF s
<1>4. x \in Int /\ y \in Int
  BY <1>1, SMT
<1>5. x + y = off + (IF md.DF THEN -(n + 1) ELSE n + 1) * s
  BY <1>1, SMT
<1> HIDE DEF x, y
<1>6. ((x % WORD) + y) % WORD = (x + y) % WORD
  BY <1>4, Modular
<1> QED BY <1>2, <1>3, <1>5, <1>6
LEMMA SmallRemainder ==
  ASSUME NEW x \in Int, NEW y \in Int, NEW w \in Width,
         0 <= x, x < w, 0 <= y, y < w
  PROVE  (x - y) % w = 0 <=> x = y
<1>1. ASSUME NEW d \in Int, -256 < d, d < 256 PROVE d % 256 = 0 <=> d = 0
  BY <1>1, SMT
<1>2. ASSUME NEW d \in Int, -65536 < d, d < 65536 PROVE d % 65536 = 0 <=> d = 0
  BY <1>2, SMT
<1>3. x - y \in Int /\ (x - y = 0 <=> x = y)
  BY SMT
<1>4. CASE w = BYTE
  <2>1. w = 256
    BY <1>4, Sizes
  <2>2. -256 < x - y /\ x - y < 256
    BY <2>1, SMT
  <2>3. (x - y) % 256 = 0 <=> x - y = 0
    BY <1>1, <1>3, <2>2
  <2> QED BY <1>3, <2>1, <2>3
<1>5. CASE w = WORD
  <2>1. w = 65536
    BY <1>5, Sizes
  <2>2. -65536 < x - y /\ x - y < 65536
    BY <2>1, SMT
  <2>3. (x - y) % 65536 = 0 <=> x - y = 0
    BY <1>2, <1>3, <2>2
  <2> QED BY <1>3, <2>1, <2>3
<1> QED BY <1>4, <1>5, TwoWidths

\* The flag ZF of a comparison.
LEMMA ZeroOfSub ==
  ASSUME NEW w \in Width, NEW x \in 0 .. w - 1, NEW y \in 0 .. w - 1
  PROVE  setFlags_Sub(x - y, x, y, w).ZF <=> x = y
<1> DEFINE f == setFlags_Sub(x - y, x, y, w)
<1>1. f.ZF = ((x - y) % w = 0)
  BY SMT DEF setFlags_Sub, Shown
<1>2. (x - y) % w = 0 <=> x = y
  <2>1. w \in Int
    BY WidthFacts, SMT
  <2>2. x \in Int /\ y \in Int /\ 0 <= x /\ x < w /\ 0 <= y /\ y < w
    BY <2>1, SMT
  <2> QED BY <2>2, SmallRemainder
<1> QED BY <1>1, <1>2

LEMMA RegisterNumbers ==
  /\ AX = 0 /\ AX < 4
  /\ CX # SI /\ CX # DI /\ SI # DI /\ AX \in Reg \ {CX, SI, DI}
  /\ UsesDI \intersect {"MOVS", "STOS", "CMPS", "SCAS"} = {"MOVS", "STOS", "CMPS", "SCAS"}
  /\ Repeated = {"MOVS", "STOS", "CMPS", "SCAS"} /\ Compares = {"CMPS", "SCAS"}
  /\ UsesSI = {"MOVS", "CMPS", "LODS"}
  /\ "LODS" \notin Repeated
  BY SMT DEF AX, CX, SI, DI, Reg, UsesDI, Repeated, Compares, UsesSI

LEMMA ElementParts ==
  ASSUME Data, FlagData, NEW op \in Repeated, NEW w \in Width, NEW cx \in Word,
         Element(op, w, cx)
  PROVE  LET to == Physical(segs[ES], regs[DI])
             from == Read(mem, Physical(segs[DS], regs[SI]), w)
         IN  /\ regs'[CX] = cx /\ \A r \in Reg \ {CX, SI, DI} : regs'[r] = regs[r]
             /\ regs'[SI] = IF op \in UsesSI THEN Away(regs[SI], 1, w, modes) ELSE regs[SI]
             /\ regs'[DI] = Away(regs[DI], 1, w, modes)
             /\ segs' = segs /\ modes' = modes
             /\ op = "MOVS" => mem' = Write(mem, to, from, w)
             /\ op = "STOS" => mem' = Write(mem, to, GetReg(AX, w), w)
             /\ op \in Compares =>
                    /\ mem' = mem
                    /\ flags'.ZF <=> Read(mem, to, w) = IF op = "SCAS" THEN GetReg(AX, w) ELSE from
<1> DEFINE from == Read(mem, Physical(segs[DS], regs[SI]), w)
           dest == Physical(segs[ES], regs[DI])
           to == Read(mem, dest, w)
           a == GetReg(AX, w)
           loaded == IF op = "LODS" THEN SetReg(regs, AX, from, w) ELSE regs
           si == Moved(regs[SI], 1, w)
           di == Moved(regs[DI], 1, w)
<1>1. /\ regs' = [r \in Reg |-> IF r = SI /\ op \in UsesSI THEN si
                                ELSE IF r = DI /\ op \in UsesDI THEN di
                                ELSE IF r = CX THEN cx ELSE loaded[r]]
      /\ mem' = CASE op = "MOVS" -> Write(mem, dest, from, w)
                  [] op = "STOS" -> Write(mem, dest, a, w)
                  [] OTHER -> mem
      /\ flags' = CASE op = "CMPS" -> setFlags_Sub(to - from, to, from, w)
                    [] op = "SCAS" -> setFlags_Sub(a - to, a, to, w)
                    [] OTHER -> flags
      /\ UNCHANGED <<segs, modes>>
  BY DEF Element
<1>2. from \in 0 .. w - 1 /\ to \in 0 .. w - 1 /\ a \in 0 .. w - 1
  BY ReadType, GetRegType, Registers DEF Data
<1>3. loaded = regs /\ op \in UsesDI
  <2>1. op # "LODS" /\ op \in UsesDI
    BY RegisterNumbers
  <2> QED BY <2>1
<1>4. si = Away(regs[SI], 1, w, modes) /\ di = Away(regs[DI], 1, w, modes)
  BY MovedIsAway
<1> HIDE DEF si, di, loaded
<1>5. /\ regs'[CX] = cx /\ \A r \in Reg \ {CX, SI, DI} : regs'[r] = regs[r]
      /\ regs'[SI] = IF op \in UsesSI THEN Away(regs[SI], 1, w, modes) ELSE regs[SI]
      /\ regs'[DI] = Away(regs[DI], 1, w, modes)
  BY <1>1, <1>3, <1>4, RegisterNumbers, Registers, Zenon
<1>6. (op = "MOVS" => mem' = Write(mem, dest, from, w)) /\ (op = "STOS" => mem' = Write(mem, dest, a, w))
  <2> HIDE DEF from, to, a, dest
  <2> QED BY <1>1, SMT
<1>7. ASSUME op \in Compares
      PROVE  mem' = mem /\ (flags'.ZF <=> to = IF op = "SCAS" THEN a ELSE from)
  <2> HIDE DEF from, to, a, dest
  <2>1. CASE op = "CMPS"
    <3>1. mem' = mem /\ flags' = setFlags_Sub(to - from, to, from, w)
      BY <1>1, <2>1, SMT
    <3>2. flags'.ZF <=> to = from
      BY <1>2, <3>1, ZeroOfSub
    <3>3. op # "SCAS"
      BY <2>1, SMT
    <3> QED BY <3>1, <3>2, <3>3
  <2>2. CASE op = "SCAS"
    <3>1. mem' = mem /\ flags' = setFlags_Sub(a - to, a, to, w)
      BY <1>1, <2>2, SMT
    <3>2. flags'.ZF <=> a = to
      BY <1>2, <3>1, ZeroOfSub
    <3> QED BY <2>2, <3>1, <3>2
  <2> QED BY <1>7, <2>1, <2>2, RegisterNumbers
<1> QED BY <1>1, <1>5, <1>6, <1>7

LEMMA RoundsOf ==
  ASSUME NEW j, NEW n, NEW b
  PROVE  LET k == Rounds(j, n, b)
         IN  /\ k.op = j.op /\ k.w = j.w /\ k.rep = j.rep /\ k.n = n /\ k.active = b
             /\ k.regs = j.regs /\ k.mem = j.mem
  BY Zenon DEF Rounds

\* The job that a round belongs to, before the round.
LEMMA JobNow ==
  ASSUME TypeOK, RoundsInv, Repeats, ins.op \in Repeated, regs[CX] # 0
  PROVE  LET j == Job(ins.op, ins.w, ins.rep)
         IN  /\ j.op = ins.op /\ j.w = ins.w /\ j.rep = ins.rep /\ IsJob(j)
             /\ CountedOf(j, regs, modes)
             /\ j.op \in {"MOVS", "STOS"} =>
                    Written(j, mem, segs, modes) /\ Confined(j, mem, segs, modes)
             /\ j.op \in Compares => mem = j.mem /\ Searched(j, j.n, segs, modes)
<1> DEFINE j == Job(ins.op, ins.w, ins.rep)
<1>1. Data /\ FlagData /\ Frame /\ ins.w \in Width /\ ins.rep \in {"", "E", "NE"}
  BY RepeatsType
<1>2. IsJob(j)
  BY <1>1, JobType
<1>3. ins.op # "PRINT"
  BY SMT DEF Repeated, Compares
<1>4. CASE job.active
  <2>1. j = job
    BY <1>4, Zenon DEF Job
  <2>2. j.op = ins.op /\ j.w = ins.w /\ j.rep = ins.rep
    BY <1>3, <1>4, <2>1, Zenon DEF RoundsInv, RunningInv
  <2>3. CountedOf(j, regs, modes)
    BY <2>1, <2>2, Zenon DEF RoundsInv, RepInv
  <2>4. j.op \in {"MOVS", "STOS"} =>
            Written(j, mem, segs, modes) /\ Confined(j, mem, segs, modes)
    BY <2>1, Zenon DEF RoundsInv, BlockInv
  <2>5. ASSUME j.op \in Compares PROVE mem = j.mem /\ Searched(j, j.n, segs, modes)
    <3>1. /\ mem = j.mem /\ Searched(j, j.n - 1, segs, modes)
          /\ flags.ZF <=> EqualOf(j, j.n - 1, segs, modes)
      BY <2>1, <2>5, Zenon DEF RoundsInv, SearchInv
    <3>2. flags.ZF <=> j.rep = "E"
      BY <1>4, <2>1, <2>2, <2>5, Zenon DEF RoundsInv, RepInv
    <3>3. j.n \in Nat
      BY <1>2, JobParts
    <3>4. ASSUME NEW k \in 0 .. j.n - 1 PROVE k = j.n - 1 \/ k \in 0 .. (j.n - 1) - 1
      BY <3>3, SMT
    <3> HIDE DEF j
    <3> QED BY <3>1, <3>2, <3>4, Zenon DEF Searched
  <2> HIDE DEF j
  <2> QED BY <1>2, <2>2, <2>3, <2>4, <2>5 DEF j
<1>5. CASE ~job.active
  <2>1. j = [op |-> ins.op, w |-> ins.w, rep |-> ins.rep, n |-> 0, active |-> TRUE,
             regs |-> regs, mem |-> mem]
    BY <1>5, Zenon DEF Job
  <2>2. /\ j.op = ins.op /\ j.w = ins.w /\ j.rep = ins.rep /\ j.n = 0
        /\ j.regs = regs /\ j.mem = mem
    BY <2>1
  <2> HIDE DEF j
  <2>3. CountedOf(j, regs, modes)
    <3>1. regs[CX] \in Int /\ 0 <= regs[CX] /\ regs[CX] - 0 = regs[CX]
      <4>1. regs[CX] \in Word /\ regs[CX] \in Int
        BY <1>1, RegisterType, Registers
      <4> QED BY <4>1, InWord, SMT
    <3>2. regs[SI] \in Word /\ regs[DI] \in Word /\ j.w \in Width
      BY <1>1, <2>2, RegisterType, Registers
    <3>3. Away(regs[SI], 0, j.w, modes) = regs[SI] /\ Away(regs[DI], 0, j.w, modes) = regs[DI]
      BY <3>2, AwayNone
    <3> QED BY <2>2, <3>1, <3>3 DEF CountedOf
  <2>4. \A k \in 0 .. 0 - 1 : FALSE
    BY SMT
  <2>5. Written(j, mem, segs, modes) /\ Confined(j, mem, segs, modes)
    BY <2>2, <2>4, Zenon DEF Written, Confined
  <2>6. Searched(j, j.n, segs, modes)
    BY <2>2, <2>4, Zenon DEF Searched
  <2> QED BY <1>2, <2>2, <2>3, <2>5, <2>6 DEF j
<1> HIDE DEF j
<1> QED BY <1>4, <1>5 DEF j
\* One round: the element of the job j that it handles, and the job after it.
LEMMA RoundParts ==
  ASSUME TypeOK, RoundsInv, RepRound
  PROVE  LET j == Job(ins.op, ins.w, ins.rep)
             to == ToOf(j, j.n, segs, modes)
             from == Read(mem, FromOf(j, j.n, segs, modes), j.w)
         IN  /\ j.op = ins.op /\ j.w = ins.w /\ j.rep = ins.rep /\ IsJob(j)
             /\ j.op \in Repeated /\ regs[CX] # 0
             /\ CountedOf(j, regs, modes) /\ CountedOf(job', regs', modes')
             /\ job' = Rounds(j, j.n + 1, GoesOn(j.op, j.rep))
             /\ segs' = segs /\ modes' = modes
             /\ regs'[CX] = regs[CX] - 1
             /\ j.op = "MOVS" => mem' = Write(mem, to, from, j.w)
             /\ j.op = "STOS" => mem' = Write(mem, to, AccumulatorOf(j), j.w)
             /\ j.op \in Compares =>
                    /\ mem' = mem
                    /\ flags'.ZF <=>
                           Read(mem, to, j.w) = IF j.op = "SCAS" THEN AccumulatorOf(j) ELSE from
<1> DEFINE j == Job(ins.op, ins.w, ins.rep)
           to == ToOf(j, j.n, segs, modes)
           from == Read(mem, FromOf(j, j.n, segs, modes), j.w)
<1>1. /\ Repeats /\ regs[CX] # 0 /\ ins.op \in Repeated
      /\ Element(ins.op, ins.w, regs[CX] - 1)
      /\ job' = Rounds(j, j.n + 1, GoesOn(ins.op, ins.rep))
  BY DEF RepRound
<1>2. Data /\ FlagData /\ ins.w \in Width
  BY <1>1, RepeatsType
<1>3. regs[CX] \in Int /\ 0 < regs[CX] /\ regs[CX] - 1 \in Word
  <2>1. regs[CX] \in Word /\ regs[CX] \in Int
    BY <1>2, RegisterType, Registers
  <2> QED BY <1>1, <2>1, InWord, SMT
<1>4. /\ j.op = ins.op /\ j.w = ins.w /\ j.rep = ins.rep /\ IsJob(j)
      /\ CountedOf(j, regs, modes)
  BY <1>1, JobNow
<1> HIDE DEF j
<1>5. j.n \in Nat /\ j.n \in Int /\ j.regs \in RegSet /\ j.n + 1 \in Nat
  <2>1. j.n \in Nat /\ j.regs \in RegSet
    BY <1>4, JobParts
  <2> QED BY <2>1, SMT
<1>6. j.regs[CX] \in Int /\ j.regs[SI] \in Int /\ j.regs[DI] \in Int
  BY <1>5, Registers, WordFacts, Zenon DEF RegSet
<1>7. /\ j.n <= j.regs[CX] /\ regs[CX] = j.regs[CX] - j.n
      /\ \A r \in Reg \ {CX, SI, DI} : regs[r] = j.regs[r]
      /\ regs[SI] = IF j.op \in UsesSI THEN Away(j.regs[SI], j.n, j.w, modes) ELSE j.regs[SI]
      /\ regs[DI] = Away(j.regs[DI], j.n, j.w, modes)
  BY <1>4, Zenon DEF CountedOf
<1>8. /\ regs'[CX] = regs[CX] - 1 /\ \A r \in Reg \ {CX, SI, DI} : regs'[r] = regs[r]
      /\ regs'[SI] = IF j.op \in UsesSI THEN Away(regs[SI], 1, j.w, modes) ELSE regs[SI]
      /\ regs'[DI] = Away(regs[DI], 1, j.w, modes)
      /\ segs' = segs /\ modes' = modes
      /\ j.op = "MOVS" => mem' = Write(mem, Physical(segs[ES], regs[DI]),
                                      Read(mem, Physical(segs[DS], regs[SI]), j.w), j.w)
      /\ j.op = "STOS" => mem' = Write(mem, Physical(segs[ES], regs[DI]), GetReg(AX, j.w), j.w)
      /\ j.op \in Compares =>
             /\ mem' = mem
             /\ flags'.ZF <=> Read(mem, Physical(segs[ES], regs[DI]), j.w) =
                    IF j.op = "SCAS" THEN GetReg(AX, j.w)
                    ELSE Read(mem, Physical(segs[DS], regs[SI]), j.w)
  BY <1>1, <1>2, <1>3, <1>4, ElementParts
<1>9. to = Physical(segs[ES], regs[DI])
  BY <1>7, Zenon DEF ToOf
<1>10. j.op \in UsesSI => from = Read(mem, Physical(segs[DS], regs[SI]), j.w)
  BY <1>7, Zenon DEF FromOf
<1>11. GetReg(AX, j.w) = AccumulatorOf(j)
  <2>1. regs[AX] = j.regs[AX]
    BY <1>7, RegisterNumbers
  <2> QED BY <2>1, RegisterNumbers, Zenon DEF GetReg, AccumulatorOf
<1>12. /\ "MOVS" \in UsesSI /\ "CMPS" \in UsesSI
       /\ \A op \in Compares : op = "SCAS" \/ op = "CMPS"
  BY SMT DEF UsesSI, Compares
<1>13. CountedOf(job', regs', modes')
  <2> DEFINE k == Rounds(j, j.n + 1, GoesOn(ins.op, ins.rep))
  <2>1. k.op = j.op /\ k.w = j.w /\ k.n = j.n + 1 /\ k.regs = j.regs
    BY RoundsOf
  <2> HIDE DEF k
  <2>2. j.n + 1 <= j.regs[CX] /\ regs[CX] - 1 = j.regs[CX] - (j.n + 1)
    BY <1>3, <1>5, <1>6, <1>7, SMT
  <2>3. /\ Away(Away(j.regs[SI], j.n, j.w, modes), 1, j.w, modes)
              = Away(j.regs[SI], j.n + 1, j.w, modes)
        /\ Away(Away(j.regs[DI], j.n, j.w, modes), 1, j.w, modes)
              = Away(j.regs[DI], j.n + 1, j.w, modes)
    BY <1>2, <1>4, <1>5, <1>6, AwayMore
  <2>4. CountedOf(k, regs', modes)
    BY <1>7, <1>8, <2>1, <2>2, <2>3, Zenon DEF CountedOf
  <2> QED BY <1>1, <1>8, <2>4 DEF k
<1> HIDE DEF to, from
<1>14. /\ j.op = "MOVS" => mem' = Write(mem, to, from, j.w)
       /\ j.op = "STOS" => mem' = Write(mem, to, AccumulatorOf(j), j.w)
  BY <1>8, <1>9, <1>10, <1>11, <1>12, Zenon
<1>15. j.op \in Compares =>
           /\ mem' = mem
           /\ flags'.ZF <=>
                  Read(mem, to, j.w) = IF j.op = "SCAS" THEN AccumulatorOf(j) ELSE from
  BY <1>8, <1>9, <1>10, <1>11, <1>12
<1> QED BY <1>1, <1>4, <1>8, <1>13, <1>14, <1>15 DEF j, to, from

LEMMA RepStep == ASSUME TypeOK, RoundsInv, RepRound PROVE RepInv'
<1> DEFINE j == Job(ins.op, ins.w, ins.rep)
<1>1. /\ IsJob(j) /\ CountedOf(job', regs', modes')
      /\ job' = Rounds(j, j.n + 1, GoesOn(j.op, j.rep)) /\ regs'[CX] = regs[CX] - 1
  BY RoundParts
<1> HIDE DEF j
<1>2. /\ job'.op = j.op /\ job'.rep = j.rep /\ job'.n = j.n + 1
      /\ job'.active = GoesOn(j.op, j.rep)
  BY <1>1, RoundsOf
<1>3. j.n + 1 > 0
  <2>1. j.n \in Nat
    BY <1>1, JobParts
  <2> QED BY <2>1, SMT
<1>4. regs[CX] - 1 # 0 <=> regs[CX] # 1
  BY TypeParts, RegisterType, Registers, SMT
<1>5. job'.active <=> regs'[CX] # 0 /\ (job'.op \in Compares => (flags'.ZF <=> job'.rep = "E"))
  BY <1>1, <1>2, <1>4, Zenon DEF GoesOn
<1> QED BY <1>1, <1>2, <1>3, <1>5, Zenon DEF RepInv

LEMMA SearchStep == ASSUME TypeOK, RoundsInv, RepRound PROVE SearchInv'
<1> DEFINE j == Job(ins.op, ins.w, ins.rep)
<1>1. /\ j.op = ins.op /\ j.w = ins.w /\ j.rep = ins.rep /\ IsJob(j) /\ j.op \in Repeated
      /\ regs[CX] # 0
      /\ job' = Rounds(j, j.n + 1, GoesOn(j.op, j.rep)) /\ segs' = segs /\ modes' = modes
      /\ j.op \in Compares =>
             /\ mem' = mem
             /\ flags'.ZF <=> Read(mem, ToOf(j, j.n, segs, modes), j.w) =
                    IF j.op = "SCAS" THEN AccumulatorOf(j)
                    ELSE Read(mem, FromOf(j, j.n, segs, modes), j.w)
  BY RoundParts
<1>2. Repeats /\ ins.op \in Repeated
  BY Zenon DEF RepRound
<1>3. j.op \in Compares => mem = j.mem /\ Searched(j, j.n, segs, modes)
  BY <1>1, <1>2, JobNow
<1> HIDE DEF j
<1> DEFINE k == Rounds(j, j.n + 1, GoesOn(j.op, j.rep))
<1>4. /\ k.op = j.op /\ k.w = j.w /\ k.rep = j.rep /\ k.n = j.n + 1
      /\ k.regs = j.regs /\ k.mem = j.mem
  BY RoundsOf
<1> HIDE DEF k
<1>5. (j.n + 1) - 1 = j.n
  <2>1. j.n \in Nat
    BY <1>1, JobParts
  <2> QED BY <2>1, SMT
<1>6. \A n : EqualOf(k, n, segs, modes) <=> EqualOf(j, n, segs, modes)
  BY <1>4, Zenon DEF EqualOf, AccumulatorOf, FromOf, ToOf
<1>7. ASSUME k.op \in Compares
      PROVE  /\ mem' = k.mem /\ Searched(k, k.n - 1, segs', modes')
             /\ flags'.ZF <=> EqualOf(k, k.n - 1, segs', modes')
  <2>1. mem' = k.mem /\ mem = j.mem /\ Searched(j, j.n, segs, modes)
    BY <1>1, <1>3, <1>4, <1>7
  <2>2. Searched(k, k.n - 1, segs, modes)
    BY <1>4, <1>5, <1>6, <2>1, Zenon DEF Searched
  <2>3. flags'.ZF <=> EqualOf(j, j.n, segs, modes)
    BY <1>1, <1>4, <1>7, <2>1, Zenon DEF EqualOf
  <2> QED BY <1>1, <1>4, <1>5, <1>6, <2>1, <2>2, <2>3, Zenon
<1>8. job' = k
  BY <1>1 DEF k
<1> QED BY <1>7, <1>8, Zenon DEF SearchInv
\* The addresses of the elements, and the accumulator, have their types.
LEMMA ElementAddresses ==
  ASSUME Data, NEW j, IsJob(j), NEW n \in Int
  PROVE  /\ ToOf(j, n, segs, modes) \in Nat /\ FromOf(j, n, segs, modes) \in Nat
         /\ AccumulatorOf(j) \in 0 .. j.w - 1
<1>1. j.regs \in RegSet /\ j.w \in Width
  BY JobParts
<1>2. j.regs[SI] \in Int /\ j.regs[DI] \in Int /\ j.regs[AX] \in Word
  BY <1>1, Registers, WordFacts, Zenon DEF RegSet
<1>3. Away(j.regs[SI], n, j.w, modes) \in Word /\ Away(j.regs[DI], n, j.w, modes) \in Word
  BY <1>1, <1>2, AwayType
<1>4. ToOf(j, n, segs, modes) \in Nat /\ FromOf(j, n, segs, modes) \in Nat
  BY <1>3, SegmentType, Registers, PhysicalType DEF ToOf, FromOf
<1>5. AccumulatorOf(j) \in 0 .. j.w - 1
  <2>1. CASE j.w = WORD
    BY <1>2, <2>1, Zenon DEF AccumulatorOf, Word
  <2>2. CASE j.w = BYTE
    BY <1>2, <2>2, Bytes, WidthsDiffer, Zenon DEF AccumulatorOf
  <2> QED BY <1>1, <2>1, <2>2, TwoWidths
<1> QED BY <1>4, <1>5

\* The element that a round writes, in the block of the job j.
LEMMA BlockGrows ==
  ASSUME Data, NEW j, IsJob(j), j.op \in {"MOVS", "STOS"},
         Written(j, mem, segs, modes), Confined(j, mem, segs, modes),
         NEW b, NEW m,
         m = Write(mem, ToOf(j, j.n, segs, modes),
                   IF j.op = "STOS" THEN AccumulatorOf(j)
                   ELSE Read(mem, FromOf(j, j.n, segs, modes), j.w), j.w)
  PROVE  LET k == Rounds(j, j.n + 1, b)
         IN  Written(k, m, segs, modes) /\ Confined(k, m, segs, modes)
<1> DEFINE k == Rounds(j, j.n + 1, b)
           N == j.n
           to(n) == ToOf(j, n, segs, modes)
           from(n) == FromOf(j, n, segs, modes)
           v == IF j.op = "STOS" THEN AccumulatorOf(j) ELSE Read(mem, from(N), j.w)
<1>1. /\ k.op = j.op /\ k.w = j.w /\ k.n = N + 1 /\ k.regs = j.regs /\ k.mem = j.mem
  BY RoundsOf
<1>2. N \in Nat /\ j.w \in Width /\ IsMemory(mem)
  BY JobParts DEF Data
<1>3. /\ N \in Int /\ (N + 1) - 1 = N /\ N \in 0 .. N
      /\ \A q \in 0 .. N - 1 : q \in 0 .. N /\ q \in Int /\ N \in q + 1 .. N
      /\ \A q \in 0 .. N - 1 : \A l \in q + 1 .. N - 1 : l \in q + 1 .. N
      /\ \A q \in 0 .. N : q = N \/ q \in 0 .. N - 1
  BY <1>2, SMT
<1>4. to(N) \in Nat /\ from(N) \in Nat /\ v \in 0 .. j.w - 1
  BY <1>2, <1>3, ElementAddresses, ReadType
<1>5. m = Write(mem, to(N), v, j.w)
  OBVIOUS
<1>6. \A n : ToOf(k, n, segs, modes) = to(n) /\ FromOf(k, n, segs, modes) = from(n)
  BY <1>1, Zenon DEF ToOf, FromOf
<1>7. AccumulatorOf(k) = AccumulatorOf(j)
  BY <1>1, Zenon DEF AccumulatorOf
<1>8. ASSUME NEW n, Undisturbed(k, n, segs, modes)
      PROVE  /\ Valid(to(n), j.w)
             /\ \A l \in n + 1 .. N : Cells(to(l), j.w) \intersect Cells(to(n), j.w) = {}
             /\ j.op = "MOVS" =>
                    \A l \in 0 .. n - 1 : Cells(to(l), j.w) \intersect Cells(from(n), j.w) = {}
  <2> HIDE DEF k
  <2>1. k.n - 1 = N
    BY <1>1, <1>3
  <2>2. /\ Valid(ToOf(k, n, segs, modes), k.w)
        /\ \A l \in n + 1 .. N :
               Cells(ToOf(k, l, segs, modes), k.w) \intersect Cells(ToOf(k, n, segs, modes), k.w) = {}
        /\ k.op = "MOVS" => \A l \in 0 .. n - 1 :
               Cells(ToOf(k, l, segs, modes), k.w) \intersect Cells(FromOf(k, n, segs, modes), k.w) = {}
    BY <1>8, <2>1, Zenon DEF Undisturbed
  <2> HIDE DEF to, from
  <2>3. Valid(to(n), j.w)
    BY <1>1, <1>6, <2>2
  <2>4. ASSUME NEW l \in n + 1 .. N
        PROVE  Cells(to(l), j.w) \intersect Cells(to(n), j.w) = {}
    BY <1>1, <1>6, <2>2
  <2>5. ASSUME j.op = "MOVS", NEW l \in 0 .. n - 1
        PROVE  Cells(to(l), j.w) \intersect Cells(from(n), j.w) = {}
    <3>1. Cells(ToOf(k, l, segs, modes), k.w) \intersect Cells(FromOf(k, n, segs, modes), k.w) = {}
      BY <1>1, <2>2, <2>5
    <3> QED BY <1>1, <1>6, <3>1
  <2> QED BY <2>3, <2>4, <2>5
<1> HIDE DEF k, v
<1>9. ASSUME NEW q \in 0 .. N - 1, Undisturbed(k, q, segs, modes)
      PROVE  Read(m, to(q), j.w) =
                 IF j.op = "STOS" THEN AccumulatorOf(j) ELSE Read(j.mem, from(q), j.w)
  <2>1. Undisturbed(j, q, segs, modes)
    BY <1>3, <1>8, <1>9, Zenon DEF Undisturbed
  <2>2. Read(mem, to(q), j.w) =
            IF j.op = "STOS" THEN AccumulatorOf(j) ELSE Read(j.mem, from(q), j.w)
    BY <2>1, Zenon DEF Written
  <2>3. Cells(to(N), j.w) \intersect Cells(to(q), j.w) = {}
    BY <1>3, <1>8, <1>9
  <2>4. to(q) \in Nat
    BY <1>3, ElementAddresses
  <2>5. Read(m, to(q), j.w) = Read(mem, to(q), j.w)
    BY <1>2, <1>4, <1>5, <2>3, <2>4, ReadKept
  <2> QED BY <2>2, <2>5
<1>10. ASSUME Undisturbed(k, N, segs, modes)
       PROVE  Read(m, to(N), j.w) =
                  IF j.op = "STOS" THEN AccumulatorOf(j) ELSE Read(j.mem, from(N), j.w)
  <2>1. Valid(to(N), j.w)
    BY <1>8, <1>10
  <2>2. Read(m, to(N), j.w) = v
    BY <1>2, <1>4, <1>5, <2>1, ReadWritten
  <2>3. ASSUME j.op = "MOVS" PROVE Read(mem, from(N), j.w) = Read(j.mem, from(N), j.w)
    <3>1. ASSUME NEW c \in Cells(from(N), j.w) PROVE Cell(mem, c) = Cell(j.mem, c)
      <4>1. \A l \in 0 .. N - 1 : Cells(to(l), j.w) \intersect Cells(from(N), j.w) = {}
        BY <1>8, <1>10, <2>3
      <4>2. \A l \in 0 .. N - 1 : c \notin Cells(to(l), j.w)
        BY <4>1, Zenon
      <4> QED BY <4>2, Zenon DEF Confined
    <3> QED BY <1>2, <1>4, <3>1, ReadSame
  <2>4. j.op = "STOS" \/ (j.op = "MOVS" /\ j.op # "STOS")
    BY SMT
  <2> QED BY <2>2, <2>3, <2>4 DEF v
<1>11. Written(k, m, segs, modes)
  <2>1. ASSUME NEW n \in 0 .. N, Undisturbed(k, n, segs, modes)
        PROVE  Read(m, to(n), j.w) =
                   IF j.op = "STOS" THEN AccumulatorOf(j) ELSE Read(j.mem, from(n), j.w)
    <3>1. CASE n = N
      BY <1>10, <2>1, <3>1
    <3>2. CASE n \in 0 .. N - 1
      BY <1>9, <2>1, <3>2
    <3> QED BY <1>3, <3>1, <3>2
  <2> QED BY <1>1, <1>3, <1>6, <1>7, <2>1, Zenon DEF Written
<1>12. Confined(k, m, segs, modes)
  <2>1. ASSUME NEW c
        PROVE  \/ Cell(m, c) = Cell(j.mem, c)
               \/ \E n \in 0 .. N : Valid(to(n), j.w) /\ c \in Cells(to(n), j.w)
    <3>1. CASE c \in Cells(to(N), j.w) /\ Valid(to(N), j.w)
      BY <1>3, <3>1, Zenon
    <3>2. CASE c \notin Cells(to(N), j.w) \/ ~Valid(to(N), j.w)
      <4>1. Cell(m, c) = Cell(mem, c)
        BY <1>2, <1>4, <1>5, <3>2, CellKept
      <4>2. \/ Cell(mem, c) = Cell(j.mem, c)
            \/ \E n \in 0 .. N - 1 : Valid(to(n), j.w) /\ c \in Cells(to(n), j.w)
        BY Zenon DEF Confined
      <4> QED BY <1>3, <4>1, <4>2, Zenon
    <3> QED BY <3>1, <3>2
  <2> QED BY <1>1, <1>3, <1>6, <2>1, Zenon DEF Confined
<1> QED BY <1>11, <1>12 DEF k

LEMMA BlockStep == ASSUME TypeOK, RoundsInv, RepRound PROVE BlockInv'
<1> DEFINE j == Job(ins.op, ins.w, ins.rep)
           b == GoesOn(j.op, j.rep)
           k == Rounds(j, j.n + 1, b)
           v == IF j.op = "STOS" THEN AccumulatorOf(j)
                ELSE Read(mem, FromOf(j, j.n, segs, modes), j.w)
<1>1. /\ j.op = ins.op /\ IsJob(j) /\ job' = k /\ segs' = segs /\ modes' = modes
      /\ j.op = "MOVS" => mem' = Write(mem, ToOf(j, j.n, segs, modes),
                                      Read(mem, FromOf(j, j.n, segs, modes), j.w), j.w)
      /\ j.op = "STOS" => mem' = Write(mem, ToOf(j, j.n, segs, modes), AccumulatorOf(j), j.w)
  BY RoundParts
<1>2. Repeats /\ ins.op \in Repeated /\ regs[CX] # 0
  BY Zenon DEF RepRound
<1>3. j.op \in {"MOVS", "STOS"} =>
          Written(j, mem, segs, modes) /\ Confined(j, mem, segs, modes)
  BY <1>1, <1>2, JobNow
<1> HIDE DEF j, b
<1>4. k.op = j.op
  BY RoundsOf
<1>5. ASSUME j.op \in {"MOVS", "STOS"}
      PROVE  Written(k, mem', segs, modes) /\ Confined(k, mem', segs, modes)
  <2>1. mem' = Write(mem, ToOf(j, j.n, segs, modes), v, j.w)
    <3>1. j.op = "STOS" \/ (j.op = "MOVS" /\ j.op # "STOS")
      BY <1>5, SMT
    <3> QED BY <1>1, <3>1
  <2>2. Data
    BY TypeParts
  <2> QED BY <1>1, <1>3, <1>5, <2>1, <2>2, BlockGrows
<1> HIDE DEF k
<1> QED BY <1>1, <1>4, <1>5, Zenon DEF BlockInv

LEMMA RunningStep == ASSUME TypeOK, RoundsInv, RepRound PROVE RunningInv'
<1> DEFINE j == Job(ins.op, ins.w, ins.rep)
<1>1. /\ j.op = ins.op /\ j.w = ins.w /\ j.rep = ins.rep
      /\ job' = Rounds(j, j.n + 1, GoesOn(j.op, j.rep))
  BY RoundParts
<1>2. pc \in 1 .. Len(prog) /\ prog' = prog /\ (GoesOn(ins.op, ins.rep) => pc' = pc)
  BY Zenon DEF RepRound, Repeats, Goto
<1> HIDE DEF j
<1>3. /\ job'.op = ins.op /\ job'.w = ins.w /\ job'.rep = ins.rep
      /\ job'.active => GoesOn(ins.op, ins.rep)
  BY <1>1, RoundsOf
<1> QED BY <1>2, <1>3, Zenon DEF RunningInv, ins
\* The instructions that run once.
LEMMA OnlyOnce ==
  ASSUME \/ MovImmediate \/ MovTo \/ MovFrom \/ MovFromSegment \/ MovToSegment
         \/ LoadAccumulator \/ StoreAccumulator \/ Lea \/ XchgAccumulator \/ Xchg
         \/ Lahf \/ Sahf \/ Cld \/ Std \/ Cli \/ Sti \/ Jmp \/ JmpOperand
         \/ PushRegister \/ PushSegment \/ PushOperand \/ PushFlags \/ PushAll
         \/ PopRegister \/ PopSegment \/ PopFlags \/ PopAll
         \/ Call \/ CallOperand \/ Ret
         \/ Loop \/ LoopEqual \/ LoopNotEqual \/ StringOnce \/ RepNothing \/ RepInvalid
  PROVE  Once
<1>1. ASSUME NEW op, NEW m, SetMode(op, m) PROVE Once
  BY <1>1, Zenon DEF SetMode, Plain
<1>2. ASSUME NEW n, JumpTo(n) PROVE Once
  BY <1>2, Zenon DEF JumpTo
<1>3. ASSUME NEW op, NEW more, LoopWhile(op, more) PROVE Once
  BY <1>2, <1>3, Zenon DEF LoopWhile
<1>4. ASSUME NEW op, NEW r, NEW v, Push(op, r, v) PROVE Once
  BY <1>4, Zenon DEF Push
<1>5. ASSUME NEW op, NEW r, Pop(op, r) PROVE Once
  BY <1>5, Zenon DEF Pop
<1>6. CASE \/ MovImmediate \/ MovTo \/ MovFrom \/ MovFromSegment \/ MovToSegment
           \/ LoadAccumulator \/ StoreAccumulator \/ Lea
  BY <1>6, Zenon DEF MovImmediate, MovTo, MovFrom, MovFromSegment, MovToSegment,
     LoadAccumulator, StoreAccumulator, Lea, Plain
<1>7. CASE XchgAccumulator \/ Xchg \/ Lahf \/ Sahf
  BY <1>7, Zenon DEF XchgAccumulator, Xchg, Lahf, Sahf, Plain
<1>8. CASE Cld \/ Std \/ Cli \/ Sti
  BY <1>1, <1>8, Zenon DEF Cld, Std, Cli, Sti
<1>9. CASE Jmp \/ JmpOperand \/ Loop \/ LoopEqual \/ LoopNotEqual
  BY <1>2, <1>3, <1>9, Zenon DEF Jmp, JmpOperand, Loop, LoopEqual, LoopNotEqual
<1>10. CASE StringOnce \/ RepNothing \/ RepInvalid
  BY <1>10, Zenon DEF StringOnce, RepNothing, RepInvalid, Plain
<1>11. CASE PushRegister \/ PushSegment \/ PushOperand \/ PushFlags \/ Call \/ CallOperand
  BY <1>4, <1>11, Zenon DEF PushRegister, PushSegment, PushOperand, PushFlags, Call, CallOperand
<1>12. CASE PopRegister \/ PopSegment \/ PopFlags \/ Ret
  BY <1>5, <1>12, Zenon DEF PopRegister, PopSegment, PopFlags, Ret
<1>13. CASE PushAll \/ PopAll
  BY <1>13, Zenon DEF PushAll, PopAll
<1> QED BY <1>6, <1>7, <1>8, <1>9, <1>10, <1>11, <1>12, <1>13

\* What INT 21h/09h has printed after the rounds done.  That it comes to an end
\* follows: it has not passed a dollar sign.
Printed ==
    LET byte(n) == Read(mem, (PARA * segs[DS] + regs[DX] + n) % AddressSpace, BYTE)
    IN  job.op = "PRINT" =>
            /\ Len(out) = job.n
            /\ \A n \in 1 .. job.n : out[n] = byte(n - 1) /\ out[n] # DOLLAR
            /\ ~job.active => byte(job.n) = DOLLAR

LEMMA NoRounds == ASSUME job = NoJob PROVE RoundsInv /\ Printed
<1>1. job.op = "none" /\ job.active = FALSE
  BY Zenon DEF NoJob
<1>2. /\ job.op \notin Repeated /\ job.op \notin {"MOVS", "STOS"} /\ job.op \notin Compares
      /\ job.op # "PRINT"
  BY <1>1, SMT DEF Repeated, Compares
<1> QED
  BY <1>1, <1>2, Zenon DEF RoundsInv, RunningInv, RepInv, BlockInv, SearchInv, Printed

LEMMA NoRoundsNext == ASSUME job' = NoJob PROVE RoundsInv' /\ Printed'
<1>1. job'.op = "none" /\ job'.active = FALSE
  BY Zenon DEF NoJob
<1>2. /\ job'.op \notin Repeated /\ job'.op \notin {"MOVS", "STOS"} /\ job'.op \notin Compares
      /\ job'.op # "PRINT"
  BY <1>1, SMT DEF Repeated, Compares
<1> QED
  BY <1>1, <1>2, Zenon DEF RoundsInv, RunningInv, RepInv, BlockInv, SearchInv, Printed

\* One character: the job before and after it.
LEMMA PrintParts ==
  ASSUME TypeOK, RoundsInv, Printed, int21_PrintString
  PROVE  LET j == Job("PRINT", BYTE, "")
             byte(n) == Read(mem, (PARA * segs[DS] + regs[DX] + n) % AddressSpace, BYTE)
             printed == IF job.active THEN out ELSE <<>>
         IN  /\ j.op = "PRINT" /\ j.n \in Nat /\ printed \in Seq(0 .. BYTE - 1)
             /\ Len(printed) = j.n
             /\ \A n \in 1 .. j.n : printed[n] = byte(n - 1) /\ printed[n] # DOLLAR
             /\ \/ /\ byte(j.n) = DOLLAR /\ job' = Rounds(j, j.n, FALSE) /\ out' = printed
                \/ /\ byte(j.n) # DOLLAR /\ job' = Rounds(j, j.n + 1, TRUE)
                   /\ out' = Append(printed, byte(j.n)) /\ pc' = pc
             /\ Runs("PRINT") /\ prog' = prog /\ UNCHANGED <<regs, segs, mem>>
             /\ byte(j.n) \in 0 .. BYTE - 1
<1> DEFINE j == Job("PRINT", BYTE, "")
           byte(n) == Read(mem, (PARA * segs[DS] + regs[DX] + n) % AddressSpace, BYTE)
           printed == IF job.active THEN out ELSE <<>>
<1>1. byte(j.n) = Read(mem, PrintAt(j.n), BYTE)
  BY Zenon DEF PrintAt, Physical
<1>2. /\ Runs("PRINT") /\ UNCHANGED <<regs, segs, mem>>
      /\ LET ch == Read(mem, PrintAt(j.n), BYTE)
         IN  \/ ch = DOLLAR /\ job' = Rounds(j, j.n, FALSE) /\ out' = printed /\ Goto(pc + 1)
             \/ /\ ch # DOLLAR /\ job' = Rounds(j, j.n + 1, TRUE)
                /\ out' = Append(printed, ch) /\ Goto(pc)
  BY DEF int21_PrintString
<1>3. Data /\ Frame
  BY <1>2, RunsType
<1>4. /\ \/ /\ byte(j.n) = DOLLAR /\ job' = Rounds(j, j.n, FALSE) /\ out' = printed
         \/ /\ byte(j.n) # DOLLAR /\ job' = Rounds(j, j.n + 1, TRUE)
            /\ out' = Append(printed, byte(j.n)) /\ pc' = pc
      /\ prog' = prog
  <2> HIDE DEF j, printed, byte
  <2> QED BY <1>1, <1>2, Zenon DEF Goto
<1>5. byte(j.n) \in 0 .. BYTE - 1
  BY <1>3, ReadType, WordFacts DEF Data
<1>6. /\ j.op = "PRINT" /\ j.n \in Nat /\ printed \in Seq(0 .. BYTE - 1)
      /\ Len(printed) = j.n
      /\ \A n \in 1 .. j.n : printed[n] = byte(n - 1) /\ printed[n] # DOLLAR
  <2>1. CASE job.active
    <3>1. j = job /\ printed = out
      BY <2>1, Zenon DEF Job
    <3>2. job.op = "PRINT"
      BY <1>2, <2>1, Zenon DEF RoundsInv, RunningInv, Runs
    <3>3. job.n \in Nat /\ out \in Seq(0 .. BYTE - 1)
      BY <1>3, JobParts DEF Frame
    <3>4. /\ Len(out) = job.n
          /\ \A n \in 1 .. job.n : out[n] = byte(n - 1) /\ out[n] # DOLLAR
      BY <3>2, Zenon DEF Printed
    <3> HIDE DEF j, printed, byte
    <3> QED BY <3>1, <3>2, <3>3, <3>4
  <2>2. CASE ~job.active
    <3>1. j.op = "PRINT" /\ j.n = 0 /\ printed = <<>>
      BY <2>2 DEF Job
    <3>2. (\A n \in 1 .. 0 : FALSE) /\ 0 \in Nat
      BY SMT
    <3>3. <<>> \in Seq(0 .. BYTE - 1) /\ Len(<<>>) = 0
      BY EmptySeq
    <3> HIDE DEF j, printed, byte
    <3> QED BY <3>1, <3>2, <3>3
  <2> QED BY <2>1, <2>2
<1> HIDE DEF j, byte, printed
<1> QED BY <1>2, <1>4, <1>5, <1>6 DEF j, byte, printed

LEMMA PrintRounds ==
  ASSUME TypeOK, RoundsInv, Printed, int21_PrintString
  PROVE  RoundsInv' /\ Printed'
<1> DEFINE j == Job("PRINT", BYTE, "")
           byte(n) == Read(mem, (PARA * segs[DS] + regs[DX] + n) % AddressSpace, BYTE)
           printed == IF job.active THEN out ELSE <<>>
<1>1. /\ j.op = "PRINT" /\ j.n \in Nat /\ printed \in Seq(0 .. BYTE - 1)
      /\ Len(printed) = j.n
      /\ \A n \in 1 .. j.n : printed[n] = byte(n - 1) /\ printed[n] # DOLLAR
      /\ \/ /\ byte(j.n) = DOLLAR /\ job' = Rounds(j, j.n, FALSE) /\ out' = printed
         \/ /\ byte(j.n) # DOLLAR /\ job' = Rounds(j, j.n + 1, TRUE)
            /\ out' = Append(printed, byte(j.n)) /\ pc' = pc
      /\ Runs("PRINT") /\ prog' = prog /\ UNCHANGED <<regs, segs, mem>>
      /\ byte(j.n) \in 0 .. BYTE - 1
  BY PrintParts
<1> HIDE DEF j, printed, byte
<1>2. \A n, b : Rounds(j, n, b).op = "PRINT" /\ Rounds(j, n, b).n = n /\ Rounds(j, n, b).active = b
  BY <1>1, RoundsOf
<1>3. job'.op = "PRINT"
  <2>1. Rounds(j, j.n, FALSE).op = "PRINT" /\ Rounds(j, j.n + 1, TRUE).op = "PRINT"
    BY <1>2
  <2>2. job' = Rounds(j, j.n, FALSE) \/ job' = Rounds(j, j.n + 1, TRUE)
    BY <1>1, Zenon
  <2> QED BY <2>1, <2>2
<1>4. RunningInv'
  <2>1. job'.active => pc' = pc
    <3>1. Rounds(j, j.n, FALSE).active = FALSE
      BY <1>2
    <3> QED BY <1>1, <3>1, Zenon
  <2> QED BY <1>1, <1>3, <2>1, Zenon DEF RunningInv, Runs, ins
<1>5. RepInv' /\ BlockInv' /\ SearchInv'
  <2>1. job'.op \notin Repeated /\ job'.op \notin {"MOVS", "STOS"} /\ job'.op \notin Compares
    BY <1>3, SMT DEF Repeated, Compares
  <2> QED BY <2>1, Zenon DEF RepInv, BlockInv, SearchInv
<1>6. /\ Len(out') = job'.n
      /\ \A n \in 1 .. job'.n : out'[n] = byte(n - 1) /\ out'[n] # DOLLAR
      /\ ~job'.active => byte(job'.n) = DOLLAR
  <2>1. CASE byte(j.n) = DOLLAR /\ job' = Rounds(j, j.n, FALSE) /\ out' = printed
    BY <1>1, <1>2, <2>1
  <2>2. CASE /\ byte(j.n) # DOLLAR /\ job' = Rounds(j, j.n + 1, TRUE)
             /\ out' = Append(printed, byte(j.n))
    <3>1. /\ Len(out') = j.n + 1
          /\ \A n \in 1 .. j.n : out'[n] = printed[n]
          /\ out'[j.n + 1] = byte(j.n)
      BY <1>1, <2>2, AppendProperties
    <3>2. job'.n = j.n + 1 /\ job'.active = TRUE
      BY <1>2, <2>2
    <3>3. ASSUME NEW n \in 1 .. j.n + 1 PROVE out'[n] = byte(n - 1) /\ out'[n] # DOLLAR
      <4>1. CASE n \in 1 .. j.n
        BY <1>1, <3>1, <4>1
      <4>2. CASE n = j.n + 1
        <5>1. n - 1 = j.n
          BY <1>1, <4>2, SMT
        <5> QED BY <2>2, <3>1, <4>2, <5>1
      <4>3. n \in 1 .. j.n \/ n = j.n + 1
        BY <1>1, SMT
      <4> QED BY <4>1, <4>2, <4>3
    <3> QED BY <3>1, <3>2, <3>3
  <2> QED BY <1>1, <2>1, <2>2
<1>7. Printed'
  BY <1>1, <1>6, Zenon DEF Printed, byte
<1> QED BY <1>4, <1>5, <1>7, Zenon DEF RoundsInv

LEMMA RoundsStep ==
  ASSUME TypeOK, RoundsInv, Printed, [Next]_vars PROVE RoundsInv' /\ Printed'
<1>1. CASE UNCHANGED vars
  <2>1. /\ regs' = regs /\ segs' = segs /\ mem' = mem /\ prog' = prog /\ pc' = pc
        /\ flags' = flags /\ modes' = modes /\ out' = out /\ job' = job
    BY <1>1, Zenon DEF vars
  <2>2. RoundsInv'
    BY <2>1, Zenon DEF RoundsInv, RunningInv, RepInv, BlockInv, SearchInv, ins
  <2>3. Printed'
    BY <2>1, Zenon DEF Printed
  <2> QED BY <2>2, <2>3
<1>2. CASE Once
  <2>1. job' = NoJob
    BY <1>2, Zenon DEF Once
  <2> QED BY <2>1, NoRoundsNext
<1>3. CASE RepRound
  <2>1. RoundsInv'
    BY <1>3, RunningStep, RepStep, BlockStep, SearchStep, Zenon DEF RoundsInv
  <2>2. job'.op \in Repeated
    <3> DEFINE j == Job(ins.op, ins.w, ins.rep)
    <3>1. j.op \in Repeated /\ job' = Rounds(j, j.n + 1, GoesOn(j.op, j.rep))
      BY <1>3, RoundParts
    <3> HIDE DEF j
    <3> QED BY <3>1, RoundsOf
  <2>3. job'.op # "PRINT"
    BY <2>2, SMT DEF Repeated, Compares
  <2> QED BY <2>1, <2>3, Zenon DEF Printed
<1>4. CASE int21_PrintString
  BY <1>4, PrintRounds
<1> QED BY <1>1, <1>2, <1>3, <1>4, OnlyOnce, Zenon DEF Next

(* What the invariant says of the properties *)

LEMMA CountedIs == CountedOf(job, regs, modes) => Counted
  BY MovedIsAway, Zenon DEF CountedOf, Counted

LEMMA ElementsAre ==
  /\ \A n : To(n) = ToOf(job, n, segs, modes) /\ From(n) = FromOf(job, n, segs, modes)
  /\ Accumulator = AccumulatorOf(job)
  BY MovedIsAway, Zenon DEF To, From, ToOf, FromOf, Accumulator, AccumulatorOf

LEMMA BlocksFollow == ASSUME RoundsInv PROVE BlocksAreWritten
<1>1. ASSUME job.op \in {"MOVS", "STOS"}
      PROVE  /\ CountedOf(job, regs, modes) /\ (job.active <=> regs[CX] # 0)
             /\ Written(job, mem, segs, modes) /\ Confined(job, mem, segs, modes)
  <2>1. job.op \in Repeated /\ job.op \notin Compares
    BY <1>1, SMT DEF Repeated, Compares
  <2> QED BY <1>1, <2>1, Zenon DEF RoundsInv, RepInv, BlockInv
<1>2. ASSUME job.op \in {"MOVS", "STOS"}, NEW n \in 0 .. job.n - 1,
             Inside(To(n)), \A k \in n + 1 .. job.n - 1 : ~Meet(To(k), To(n)),
             job.op = "MOVS" => \A k \in 0 .. n - 1 : ~Meet(To(k), From(n))
      PROVE  Read(mem, To(n), job.w) = IF job.op = "STOS" THEN Accumulator
                                       ELSE Read(job.mem, From(n), job.w)
  <2>1. Undisturbed(job, n, segs, modes)
    BY <1>2, ElementsAre DEF Undisturbed, Inside, Valid, Meet
  <2> QED BY <1>1, <1>2, <2>1, ElementsAre, Zenon DEF Written
<1>3. ASSUME job.op \in {"MOVS", "STOS"}, NEW c
      PROVE  \/ Cell(mem, c) = Cell(job.mem, c)
             \/ \E n \in 0 .. job.n - 1 : Inside(To(n)) /\ c \in Cells(To(n), job.w)
  BY <1>1, <1>3, ElementsAre DEF Confined, Inside, Valid
<1>4. job.op \in {"MOVS", "STOS"} => Counted
  BY <1>1, CountedIs
<1> QED BY <1>1, <1>2, <1>3, <1>4, Zenon DEF BlocksAreWritten

LEMMA SearchFollows == ASSUME TypeOK, RoundsInv PROVE SearchStopsAtFirst
<1> DEFINE equal(n) == Read(mem, To(n), job.w) =
                           IF job.op = "SCAS" THEN Accumulator ELSE Read(mem, From(n), job.w)
<1>1. ASSUME job.op \in Compares
      PROVE  /\ Counted /\ mem = job.mem /\ job.n > 0
             /\ \A n \in 0 .. job.n - 2 : equal(n) <=> job.rep = "E"
             /\ flags.ZF <=> equal(job.n - 1)
             /\ job.active <=> regs[CX] # 0 /\ (flags.ZF <=> job.rep = "E")
  <2>1. job.op \in Repeated
    BY <1>1, Zenon DEF Repeated
  <2>2. /\ job.n > 0 /\ CountedOf(job, regs, modes)
        /\ job.active <=> regs[CX] # 0 /\ (flags.ZF <=> job.rep = "E")
    BY <1>1, <2>1, Zenon DEF RoundsInv, RepInv
  <2>3. /\ mem = job.mem /\ Searched(job, job.n - 1, segs, modes)
        /\ flags.ZF <=> EqualOf(job, job.n - 1, segs, modes)
    BY <1>1, Zenon DEF RoundsInv, SearchInv
  <2>4. \A n : equal(n) <=> EqualOf(job, n, segs, modes)
    BY <2>3, ElementsAre, Zenon DEF EqualOf
  <2> HIDE DEF equal
  <2>5. \A n \in 0 .. job.n - 2 : equal(n) <=> job.rep = "E"
    <3>1. job.n \in Nat
      BY TypeParts, JobParts DEF Frame
    <3>2. \A n \in 0 .. job.n - 2 : n \in 0 .. (job.n - 1) - 1
      BY <3>1, SMT
    <3> QED BY <2>3, <2>4, <3>2, Zenon DEF Searched
  <2> QED BY <2>2, <2>3, <2>4, <2>5, CountedIs
<1> QED BY <1>1, Zenon DEF SearchStopsAtFirst

\* The invariant of the instructions of many rounds.
LEMMA RoundsHold == Spec => [](RoundsInv /\ Printed)
<1>1. Init => RoundsInv /\ Printed
  BY NoRounds, Zenon DEF Init
<1>2. TypeOK /\ (RoundsInv /\ Printed) /\ [Next]_vars => (RoundsInv /\ Printed)'
  BY RoundsStep
<1> QED BY <1>1, <1>2, MachineTypeCorrect, PTL DEF Spec

\* A REP of MOVS or STOS leaves in memory what its elements ask for, where
\* nothing disturbs them, and no other cell has changed.
THEOREM MachineBlocks == Spec => []BlocksAreWritten
<1>1. RoundsInv /\ Printed => BlocksAreWritten
  BY BlocksFollow
<1> QED BY <1>1, RoundsHold, PTL

\* A REP of CMPS or SCAS stops at the first element that ends the search.
THEOREM MachineSearch == Spec => []SearchStopsAtFirst
<1>1. TypeOK /\ (RoundsInv /\ Printed) => SearchStopsAtFirst
  BY SearchFollows
<1> QED BY <1>1, RoundsHold, MachineTypeCorrect, PTL

\* A cell with a dollar sign is not passed, wherever on the circle of the
\* host's addresses it lies.
LEMMA PrintedEnds ==
  ASSUME TypeOK, Printed, job.op = "PRINT", NEW c \in DOMAIN mem, mem[c] = DOLLAR
  PROVE  job.n <= (c - (PARA * segs[DS] + regs[DX])) % AddressSpace
<1> DEFINE start == PARA * segs[DS] + regs[DX]
           ahead == (c - start) % AddressSpace
           byte(n) == Read(mem, (start + n) % AddressSpace, BYTE)
<1>1. start \in Int /\ job.n \in Nat
  <2>1. segs[DS] \in Word /\ regs[DX] \in Word
    <3>1. DS \in SegReg /\ DX \in Reg
      BY DEF DS, DX, SegReg, Reg
    <3> QED BY <3>1, Zenon DEF TypeOK, RegSet
  <2>2. \A a, b \in Int : 16 * a + b \in Int
    BY SMT
  <2>3. start \in Int
    BY <2>1, <2>2, WordFacts DEF PARA
  <2>4. job.n \in Nat
    BY Zenon DEF TypeOK, IsJob
  <2> QED BY <2>3, <2>4
<1>2. c \in Int /\ 0 <= c /\ c < MEMORY_SIZE /\ c < AddressSpace /\ AddressSpace \in Nat
  <2>1. c \in 0 .. MEMORY_SIZE - 1
    BY Zenon DEF TypeOK, IsMemory
  <2>2. MEMORY_SIZE \in Int /\ WORD \in Int /\ 0 < WORD
    BY MemorySizes, Sizes
  <2>3. AddressSpace \in Nat /\ AddressSpace >= MEMORY_SIZE + WORD
    BY AddressSpaceAssumption
  <2> QED BY <2>1, <2>2, <2>3, SMT
<1> HIDE DEF start
<1>3. ahead \in Int /\ 0 <= ahead /\ (start + ahead) % AddressSpace = c
  BY <1>1, <1>2, AheadRound
<1>4. byte(ahead) = DOLLAR
  <2>1. Valid(c, BYTE)
    BY <1>2 DEF Valid, Cells
  <2> QED BY <1>3, <2>1 DEF Read, Cell
<1>5. SUFFICES ASSUME ahead < job.n PROVE FALSE
  BY <1>1, <1>3 DEF start
<1>6. ahead + 1 \in 1 .. job.n /\ (ahead + 1) - 1 = ahead
  BY <1>1, <1>3, <1>5
<1>7. \A n \in 1 .. job.n : out[n] = byte(n - 1) /\ out[n] # DOLLAR
  BY Zenon DEF Printed, start
<1> HIDE DEF ahead, byte
<1> QED BY <1>4, <1>6, <1>7

\* INT 21h/09h prints the bytes up to the first dollar sign, and ends if there
\* is any.
THEOREM MachinePrint == Spec => []PrintsTheString
<1>1. TypeOK /\ Printed => PrintsTheString
  BY PrintedEnds, Zenon DEF Printed, PrintsTheString
<1> QED BY <1>1, RoundsHold, MachineTypeCorrect, PTL
===============================================================================
