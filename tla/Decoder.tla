-------------------------------- MODULE Decoder -------------------------------
(***************************************************************************)
(* The registers of the CPU (src/core/cpu.cpp) and the operands that the   *)
(* decoder (src/execution/decoder.cpp) finds for the ModR/M byte of an     *)
(* instruction, its displacement and its segment override.                 *)
(***************************************************************************)
EXTENDS Memory

VARIABLES
    regs,               \* the general registers, by their number
    segs,               \* the segment registers, by their number
    mem

AX == 0
CX == 1
DX == 2
BX == 3
SP == 4
BP == 5
SI == 6
DI == 7
Reg == 0 .. 7
AH == 4                 \* the numbers of byte registers: 0 to 3 are the lower
                        \* halves of AX to BX, 4 to 7 the upper ones
ES == 0
CS == 1
SS == 2
DS == 3
SegReg == 0 .. 3
NoOverride == -1

Operand == [mod : 0 .. 3, rm : Reg, disp : Word, over : SegReg \union {NoOverride}]

(***************************************************************************)
(* Registers.                                                              *)
(***************************************************************************)
GetReg(r, w) ==
    IF w = WORD THEN regs[r]
    ELSE IF r < 4 THEN regs[r] % BYTE ELSE regs[r - 4] \div BYTE

\* The registers rs with v in register r
SetReg(rs, r, v, w) ==
    IF w = WORD THEN [rs EXCEPT ![r] = v]
    ELSE IF r < 4 THEN [rs EXCEPT ![r] = @ - (@ % BYTE) + v]
    ELSE [rs EXCEPT ![r - 4] = (@ % BYTE) + BYTE * v]

(***************************************************************************)
(* Effective addresses.                                                    *)
(***************************************************************************)
Base(rm) ==
    CASE rm = 0 -> regs[BX] + regs[SI]
      [] rm = 1 -> regs[BX] + regs[DI]
      [] rm = 2 -> regs[BP] + regs[SI]
      [] rm = 3 -> regs[BP] + regs[DI]
      [] rm = 4 -> regs[SI]
      [] rm = 5 -> regs[DI]
      [] rm = 6 -> regs[BP]
      [] rm = 7 -> regs[BX]

\* A displacement of 8 bits has a sign; with mod 0 and rm 6 the operand is at
\* the displacement itself
IsDirect(o) == o.mod = 0 /\ o.rm = 6

Displacement(o) ==
    CASE o.mod = 0 -> 0
      [] o.mod = 1 -> Signed(o.disp % BYTE, BYTE)
      [] o.mod = 2 -> o.disp

Offset(o) == IF IsDirect(o) THEN o.disp
                            ELSE (Base(o.rm) + Displacement(o)) % WORD

\* An override wins; what BP points to lies in the stack segment
Segment(o) ==
    IF o.over # NoOverride THEN o.over
    ELSE IF o.rm \in {2, 3, 6} /\ ~IsDirect(o) THEN SS ELSE DS

Address(o) == Physical(segs[Segment(o)], Offset(o))

(***************************************************************************)
(* Operands: with mod 3 a register, else memory.                           *)
(***************************************************************************)
ReadOperand(o, w) ==
    IF o.mod = 3 THEN GetReg(o.rm, w) ELSE Read(mem, Address(o), w)

WriteOperand(o, v, w) ==
    IF o.mod = 3 THEN regs' = SetReg(regs, o.rm, v, w) /\ mem' = mem
                 ELSE regs' = regs /\ mem' = Write(mem, Address(o), v, w)
===============================================================================
