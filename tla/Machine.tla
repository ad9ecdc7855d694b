-------------------------------- MODULE Machine --------------------------------
(***************************************************************************)
(* The instructions of E2Emu that move data between registers, memory and  *)
(* the stack, that call and loop, and the ones that run many rounds before *)
(* the next instruction: strings under a REP prefix and the output of a    *)
(* string by INT 21h/09h (src/core/emulator.cpp,                           *)
(* src/interrupts/interrupt_controller.cpp).                               *)
(*                                                                         *)
(* The code of a guest is a sequence of decoded instructions, and IP       *)
(* counts instructions: how bytes are fetched is left out, and with it     *)
(* programs that write to their own code.  A program stops at an           *)
(* instruction it does not have.                                           *)
(***************************************************************************)
EXTENDS Decoder, Sequences

CONSTANTS
    Guests,             \* the programs: code, data and the segment they are
                        \* loaded into
    AddressSpace        \* the physical addresses of the host, 2^32 in the code

Transfers == {"MOVI", "MOVTO", "MOVFROM", "MOVFROMSEG", "MOVTOSEG", "LEA",
              "LOADA", "STOREA", "XCHGA", "XCHG", "LAHF", "SAHF",
              "CLD", "STD", "CLI", "STI"}
Stacking == {"PUSH", "POP", "PUSHS", "POPS", "PUSHO", "PUSHF", "POPF", "PUSHA", "POPA"}
Control == {"CALL", "CALLO", "RET", "JMP", "JMPO", "LOOP", "LOOPE", "LOOPNE"}
Strings == {"MOVS", "CMPS", "STOS", "LODS", "SCAS"}
Opcode == Transfers \union Stacking \union Control \union Strings \union {"PRINT"}

\* An instruction has a register r, an operand o, an immediate value or a
\* target v, and perhaps a prefix: REP and REPE are one byte, REPNE the other
Instruction == [op : Opcode, w : Width, r : Reg, o : Operand, v : Word,
                rep : {"", "E", "NE"}]

\* What the code would find behind the array of segment registers is left
\* out, and so are instructions that write CS
IsInstruction(i) ==
    /\ i \in Instruction
    /\ i.op \in {"MOVFROMSEG", "MOVTOSEG", "PUSHS", "POPS"} => i.r \in SegReg
    /\ i.op \in {"MOVTOSEG", "POPS"} => i.r # CS

IsCode(c) ==
    /\ c \in Seq(Instruction) /\ Len(c) < WORD - 1
    /\ \A n \in 1 .. Len(c) : IsInstruction(c[n])

ASSUME GuestsAssumption ==
    \A g \in Guests :
        /\ IsCode(g.code)
        /\ IsMemory(g.data) /\ g.segment \in Word

ASSUME AddressSpaceAssumption ==
    AddressSpace \in Nat /\ AddressSpace >= MEMORY_SIZE + WORD

VARIABLES
    prog, pc,           \* the program and the place of IP in it
    flags, modes,       \* CPU::flags: what results show, and TF, IF and DF
    out,                \* what INT 21h/09h has printed
    job,                \* the rounds of the instruction at pc, with the
                        \* machine that their first one found
    stack,              \* history: the words pushed and not popped yet, each
                        \* with the machine that pushed it
    popped              \* history: what the last instruction popped

vars == <<regs, segs, mem, prog, pc, flags, modes, out, job, stack, popped>>

(***************************************************************************)
(* The flags as a word.  The flag IF is named IE here.                     *)
(***************************************************************************)
ModeSet == [TF : BOOLEAN, IE : BOOLEAN, DF : BOOLEAN]

\* The bits of the flags f and the modes m; bit 1 is always set
Raised(f, m) ==
    {n \in 0 .. 15 :
        CASE n = 0 -> f.CF [] n = 1 -> TRUE [] n = 2 -> f.PF [] n = 4 -> f.AF
          [] n = 6 -> f.ZF [] n = 7 -> f.SF [] n = 8 -> m.TF [] n = 9 -> m.IE
          [] n = 10 -> m.DF [] n = 11 -> f.OF [] OTHER -> FALSE}

toWord == Value(Raised(flags, modes))

fromWord(v) ==
    LET S == Bits(v) IN
    /\ flags' = [CF |-> 0 \in S, PF |-> 2 \in S, AF |-> 4 \in S,
                 ZF |-> 6 \in S, SF |-> 7 \in S, OF |-> 11 \in S]
    /\ modes' = [TF |-> 8 \in S, IE |-> 9 \in S, DF |-> 10 \in S]

KeepFlags == UNCHANGED <<flags, modes>>

(***************************************************************************)
(* The frame of the instructions.                                          *)
(***************************************************************************)
ins == prog[pc]

\* The next instruction has this opcode and no prefix
Runs(op) == pc \in 1 .. Len(prog) /\ ins.op = op /\ ins.rep = ""

Goto(n) == pc' = n /\ prog' = prog
setError == Goto(Len(prog) + 1)             \* stops the machine

NoJob == [op |-> "none", w |-> BYTE, rep |-> "", n |-> 0, active |-> FALSE,
          regs |-> [r \in Reg |-> 0], mem |-> [c \in {} |-> 0]]
NoEntry == [op |-> "none", r |-> 0, word |-> 0, regs |-> [r \in Reg |-> 0],
            segs |-> [s \in SegReg |-> 0], flags |-> NoFlags,
            modes |-> [TF |-> FALSE, IE |-> FALSE, DF |-> FALSE], pc |-> 0]
NoPop == [op |-> "none", r |-> 0, from |-> NoEntry]

Once == job' = NoJob /\ UNCHANGED out       \* no instruction of many rounds

\* The offset of the word that an entry of the history pushed: the eight of
\* PUSHA, numbered like their registers, come one below the other
Place(e) == (e.regs[SP] - 2 * (IF e.op = "PUSHA" THEN e.r + 1 ELSE 1)) % WORD
PlaceCells(e) == Cells(Physical(segs[SS], Place(e)), WORD)

\* Instructions that are not about the stack keep it unless they move SS or
\* SP or write into one of its words: then the program knows what it does
StackKept ==
    /\ stack' = IF /\ regs'[SP] = regs[SP] /\ segs'[SS] = segs[SS]
                   /\ \A n \in 1 .. Len(stack) : \A c \in PlaceCells(stack[n]) :
                          Cell(mem', c) = Cell(mem, c)
                THEN stack ELSE <<>>
    /\ popped' = NoPop

Plain == Goto(pc + 1) /\ StackKept /\ Once

-------------------------------------------------------------------------------
(***************************************************************************)
(* Moving data.                                                            *)
(***************************************************************************)
MovImmediate ==
    /\ Runs("MOVI")
    /\ WriteOperand(ins.o, ins.v % ins.w, ins.w)
    /\ UNCHANGED segs /\ KeepFlags /\ Plain

MovTo ==
    /\ Runs("MOVTO")
    /\ WriteOperand(ins.o, GetReg(ins.r, ins.w), ins.w)
    /\ UNCHANGED segs /\ KeepFlags /\ Plain

MovFrom ==
    /\ Runs("MOVFROM")
    /\ regs' = SetReg(regs, ins.r, ReadOperand(ins.o, ins.w), ins.w)
    /\ UNCHANGED <<segs, mem>> /\ KeepFlags /\ Plain

MovFromSegment ==
    /\ Runs("MOVFROMSEG")
    /\ WriteOperand(ins.o, segs[ins.r], WORD)
    /\ UNCHANGED segs /\ KeepFlags /\ Plain

MovToSegment ==
    /\ Runs("MOVTOSEG")
    /\ segs' = [segs EXCEPT ![ins.r] = ReadOperand(ins.o, WORD)]
    /\ UNCHANGED <<regs, mem>> /\ KeepFlags /\ Plain

\* MOV between AL or AX and a direct address
Direct == Physical(segs[IF ins.o.over = NoOverride THEN DS ELSE ins.o.over], ins.v)

LoadAccumulator ==
    /\ Runs("LOADA")
    /\ regs' = SetReg(regs, AX, Read(mem, Direct, ins.w), ins.w)
    /\ UNCHANGED <<segs, mem>> /\ KeepFlags /\ Plain

StoreAccumulator ==
    /\ Runs("STOREA")
    /\ mem' = Write(mem, Direct, GetReg(AX, ins.w), ins.w)
    /\ UNCHANGED <<regs, segs>> /\ KeepFlags /\ Plain

\* LEA has a table of its own of what addresses are made of
MutLeaBase(rm) ==
    CASE rm = 0 -> regs[BX] + regs[SI] [] rm = 1 -> regs[BX] + regs[DI]
      [] rm = 2 -> regs[BP] + regs[SI] [] rm = 3 -> regs[BP] + regs[DI]
      [] rm = 4 -> regs[SI] [] rm = 5 -> regs[DI]
      [] rm = 6 -> regs[BX] [] rm = 7 -> regs[BP]
LeaBase(rm) ==
    CASE rm = 0 -> regs[BX] + regs[SI] [] rm = 1 -> regs[BX] + regs[DI]
      [] rm = 2 -> regs[BP] + regs[SI] [] rm = 3 -> regs[BP] + regs[DI]
      [] rm = 4 -> regs[SI] [] rm = 5 -> regs[DI]
      [] rm = 6 -> regs[BP] [] rm = 7 -> regs[BX]

LeaOffset(o) ==
    IF o.mod = 0 /\ o.rm = 6 THEN o.disp
    ELSE (LeaBase(o.rm) + CASE o.mod = 0 -> 0
                            [] o.mod = 1 -> Signed(o.disp % BYTE, BYTE)
                            [] o.mod = 2 -> o.disp) % WORD

\* LEA of a register is an error
Lea ==
    /\ Runs("LEA")
    /\ IF ins.o.mod = 3 THEN UNCHANGED regs /\ setError
       ELSE regs' = [regs EXCEPT ![ins.r] = LeaOffset(ins.o)] /\ Goto(pc + 1)
    /\ UNCHANGED <<segs, mem>> /\ KeepFlags /\ StackKept /\ Once

XchgAccumulator ==
    /\ Runs("XCHGA")
    /\ regs' = SetReg(SetReg(regs, AX, regs[ins.r], WORD), ins.r, regs[AX], WORD)
    /\ UNCHANGED <<segs, mem>> /\ KeepFlags /\ Plain

Xchg ==
    /\ Runs("XCHG")
    /\ LET a == ReadOperand(ins.o, ins.w)
           b == GetReg(ins.r, ins.w)
       IN  IF ins.o.mod = 3
           THEN /\ regs' = SetReg(SetReg(regs, ins.o.rm, b, ins.w), ins.r, a, ins.w)
                /\ UNCHANGED mem
           ELSE /\ regs' = SetReg(regs, ins.r, a, ins.w)
                /\ mem' = Write(mem, Address(ins.o), b, ins.w)
    /\ UNCHANGED segs /\ KeepFlags /\ Plain

Lahf ==
    /\ Runs("LAHF")
    /\ regs' = SetReg(regs, AH, toWord % BYTE, BYTE)
    /\ UNCHANGED <<segs, mem>> /\ KeepFlags /\ Plain

Sahf ==
    /\ Runs("SAHF")
    /\ fromWord(toWord - (toWord % BYTE) + GetReg(AH, BYTE))
    /\ UNCHANGED <<regs, segs, mem>> /\ Plain

SetMode(op, m) ==
    /\ Runs(op)
    /\ modes' = m
    /\ UNCHANGED <<regs, segs, mem, flags>> /\ Plain

Cld == SetMode("CLD", [modes EXCEPT !.DF = FALSE])
Std == SetMode("STD", [modes EXCEPT !.DF = TRUE])
Cli == SetMode("CLI", [modes EXCEPT !.IE = FALSE])
Sti == SetMode("STI", [modes EXCEPT !.IE = TRUE])

(***************************************************************************)
(* The stack.                                                              *)
(***************************************************************************)
Entry(op, r, v) == [op |-> op, r |-> r, word |-> v, regs |-> regs, segs |-> segs,
                    flags |-> flags, modes |-> modes, pc |-> pc]

\* More words than the segment holds, or words outside of the memory, are no
\* stack: what was pushed is lost
Fits(n, top) == /\ 2 * (Len(stack) + n) <= WORD
                /\ \A k \in 1 .. n : Valid(Physical(segs[SS], (top - 2 * k) % WORD), WORD)

Push(op, r, v) ==
    LET sp == (regs[SP] - 2) % WORD IN
    /\ regs' = [regs EXCEPT ![SP] = sp]
    /\ mem' = Write(mem, Physical(segs[SS], sp), v, WORD)
    /\ stack' = IF Fits(1, regs[SP]) THEN Append(stack, Entry(op, r, v)) ELSE <<>>
    /\ popped' = NoPop
    /\ UNCHANGED segs /\ KeepFlags /\ Once

\* PUSH SP pushes what SP has become
MutPushed(r) == regs[r]
Pushed(r) == IF r = SP THEN (regs[SP] - 2) % WORD ELSE regs[r]

PushRegister == Runs("PUSH") /\ Push("PUSH", ins.r, Pushed(ins.r)) /\ Goto(pc + 1)
PushSegment == Runs("PUSHS") /\ Push("PUSHS", ins.r, segs[ins.r]) /\ Goto(pc + 1)
PushOperand == Runs("PUSHO") /\ Push("PUSHO", 0, ReadOperand(ins.o, WORD)) /\ Goto(pc + 1)
PushFlags == Runs("PUSHF") /\ Push("PUSHF", 0, toWord) /\ Goto(pc + 1)

\* Memory m with register r pushed where PUSHA puts it
MutPushedAll(m, r) ==
    Write(m, Physical(segs[SS], (regs[SP] - 2 * r) % WORD), regs[r], WORD)
PushedAll(m, r) ==
    Write(m, Physical(segs[SS], (regs[SP] - 2 * (r + 1)) % WORD), regs[r], WORD)

PushAll ==
    /\ Runs("PUSHA")
    /\ LET half == PushedAll(PushedAll(PushedAll(PushedAll(mem, AX), CX), DX), BX)
       IN  mem' = PushedAll(PushedAll(PushedAll(PushedAll(half, SP), BP), SI), DI)
    /\ regs' = [regs EXCEPT ![SP] = (@ - 16) % WORD]
    /\ stack' = IF Fits(8, regs[SP])
                THEN stack \o [k \in 1 .. 8 |-> Entry("PUSHA", k - 1, regs[k - 1])] ELSE <<>>
    /\ popped' = NoPop
    /\ UNCHANGED segs /\ KeepFlags /\ Once /\ Goto(pc + 1)

\* The word n places above the top of the stack
Top(n) == Read(mem, Physical(segs[SS], (regs[SP] + 2 * n) % WORD), WORD)

Pop(op, r) ==
    /\ stack' = IF /\ stack # <<>>
                   /\ regs'[SP] = (regs[SP] + 2) % WORD /\ segs'[SS] = segs[SS]
                THEN SubSeq(stack, 1, Len(stack) - 1) ELSE <<>>
    /\ popped' = [op |-> op, r |-> r,
                  from |-> IF stack = <<>> THEN NoEntry ELSE stack[Len(stack)]]
    /\ UNCHANGED mem /\ Once

MutPopped(rs) == [rs EXCEPT ![SP] = @ + 2]
Popped(rs) == [rs EXCEPT ![SP] = (@ + 2) % WORD]

\* POP SP adds to what it popped
PopRegister ==
    /\ Runs("POP")
    /\ regs' = Popped([regs EXCEPT ![ins.r] = Top(0)])
    /\ UNCHANGED segs /\ KeepFlags /\ Pop("POP", ins.r) /\ Goto(pc + 1)

PopSegment ==
    /\ Runs("POPS")
    /\ regs' = Popped(regs)
    /\ segs' = [segs EXCEPT ![ins.r] = Top(0)]
    /\ KeepFlags /\ Pop("POPS", ins.r) /\ Goto(pc + 1)

PopFlags ==
    /\ Runs("POPF")
    /\ regs' = Popped(regs)
    /\ fromWord(Top(0))
    /\ UNCHANGED segs /\ Pop("POPF", 0) /\ Goto(pc + 1)

\* The eight words on top are those of one PUSHA
WholePusha ==
    /\ Len(stack) >= 8
    /\ \A r \in Reg : LET e == stack[Len(stack) - 7 + r] IN
           e.op = "PUSHA" /\ e.r = r /\ e.regs = stack[Len(stack)].regs

\* POPA skips the word of SP
PopAll ==
    /\ Runs("POPA")
    /\ regs' = [r \in Reg |-> IF r = SP THEN (regs[SP] + 16) % WORD ELSE Top(7 - r)]
    /\ stack' = IF Len(stack) >= 8 THEN SubSeq(stack, 1, Len(stack) - 8) ELSE <<>>
    /\ popped' = [op |-> "POPA", r |-> 0,
                  from |-> IF WholePusha THEN stack[Len(stack)] ELSE NoEntry]
    /\ UNCHANGED <<segs, mem>> /\ KeepFlags /\ Once /\ Goto(pc + 1)

(***************************************************************************)
(* Calls, jumps and loops.                                                 *)
(***************************************************************************)
Call == Runs("CALL") /\ Push("CALL", 0, pc + 1) /\ Goto(ins.v)
CallOperand ==
    Runs("CALLO") /\ Push("CALL", 0, pc + 1) /\ Goto(ReadOperand(ins.o, WORD))

Ret ==
    /\ Runs("RET")
    /\ regs' = Popped(regs)
    /\ UNCHANGED segs /\ KeepFlags /\ Pop("RET", 0) /\ Goto(Top(0))

JumpTo(n) == Goto(n) /\ UNCHANGED <<segs, mem>> /\ KeepFlags /\ StackKept /\ Once

Jmp == Runs("JMP") /\ UNCHANGED regs /\ JumpTo(ins.v)
JmpOperand == Runs("JMPO") /\ UNCHANGED regs /\ JumpTo(ReadOperand(ins.o, WORD))

\* CX is counted down first, so 0 means 65536 laps
LoopWhile(op, more) ==
    /\ Runs(op)
    /\ regs' = [regs EXCEPT ![CX] = (@ - 1) % WORD]
    /\ JumpTo(IF regs[CX] # 1 /\ more THEN ins.v ELSE pc + 1)

Loop == LoopWhile("LOOP", TRUE)
LoopEqual == LoopWhile("LOOPE", flags.ZF)
LoopNotEqual == LoopWhile("LOOPNE", ~flags.ZF)

(***************************************************************************)
(* Strings.  SI points into the segment of DS, whatever override there is, *)
(* and DI into that of ES.                                                 *)
(***************************************************************************)
Step(w) == IF w = BYTE THEN 1 ELSE 2

\* The offset n elements of size w from off, in the direction of DF
Moved(off, n, w) == (off + (IF modes.DF THEN -n ELSE n) * Step(w)) % WORD

UsesSI == {"MOVS", "CMPS", "LODS"}
UsesDI == {"MOVS", "CMPS", "STOS", "SCAS"}
Compares == {"CMPS", "SCAS"}

\* One element, with cx left of them; compared is the one at DI with the one
\* at SI, or the accumulator with the one at DI
Element(op, w, cx) ==
    LET from == Read(mem, Physical(segs[DS], regs[SI]), w)
        dest == Physical(segs[ES], regs[DI])
        to == Read(mem, dest, w)
        a == GetReg(AX, w)
        loaded == IF op = "LODS" THEN SetReg(regs, AX, from, w) ELSE regs
    IN  /\ regs' = [r \in Reg |->
                       IF r = SI /\ op \in UsesSI THEN Moved(regs[SI], 1, w)
                       ELSE IF r = DI /\ op \in UsesDI THEN Moved(regs[DI], 1, w)
                       ELSE IF r = CX THEN cx
                       ELSE loaded[r]]
        /\ mem' = CASE op = "MOVS" -> Write(mem, dest, from, w)
                    [] op = "STOS" -> Write(mem, dest, a, w)
                    [] OTHER -> mem
        /\ flags' = CASE op = "CMPS" -> setFlags_Sub(to - from, to, from, w)
                      [] op = "SCAS" -> setFlags_Sub(a - to, a, to, w)
                      [] OTHER -> flags
        /\ UNCHANGED <<segs, modes>>

StringOnce ==
    \E op \in Strings : Runs(op) /\ Element(op, ins.w, regs[CX]) /\ Plain

Repeats == pc \in 1 .. Len(prog) /\ ins.rep # ""
Repeated == {"MOVS", "STOS"} \union Compares

\* With CX = 0 a prefix skips whatever instruction follows it
RepNothing ==
    /\ Repeats /\ regs[CX] = 0
    /\ UNCHANGED <<regs, segs, mem>> /\ KeepFlags /\ Plain

RepInvalid ==
    /\ Repeats /\ regs[CX] # 0 /\ ins.op \notin Repeated
    /\ UNCHANGED <<regs, segs, mem>> /\ KeepFlags /\ setError /\ StackKept /\ Once

\* What a round of the instruction belongs to, and the same with n rounds done
Job(op, w, rep) ==
    IF job.active THEN job
    ELSE [op |-> op, w |-> w, rep |-> rep, n |-> 0, active |-> TRUE,
          regs |-> regs, mem |-> mem]
Rounds(j, n, active) ==
    [op |-> j.op, w |-> j.w, rep |-> j.rep, n |-> n, active |-> active,
     regs |-> j.regs, mem |-> j.mem]

\* REP, REPE and REPNE are told apart only after a comparison
MutGoesOn(op, rep) == regs[CX] # 1
GoesOn(op, rep) == regs[CX] # 1 /\ (op \in Compares => (flags'.ZF <=> rep = "E"))

RepRound ==
    /\ Repeats /\ regs[CX] # 0 /\ ins.op \in Repeated
    /\ Element(ins.op, ins.w, regs[CX] - 1)
    /\ LET more == GoesOn(ins.op, ins.rep)
           j == Job(ins.op, ins.w, ins.rep)
       IN  Goto(IF more THEN pc ELSE pc + 1) /\ job' = Rounds(j, j.n + 1, more)
    /\ StackKept /\ UNCHANGED out

(***************************************************************************)
(* INT 21h/09h prints what DS:DX points to, up to a dollar sign.  It counts*)
(* physical addresses up, past the end of the segment.                     *)
(***************************************************************************)
DOLLAR == 36

MutPrintAt(n) == Physical(segs[DS], (regs[DX] + n) % WORD)
PrintAt(n) == (Physical(segs[DS], regs[DX]) + n) % AddressSpace

int21_PrintString ==
    /\ Runs("PRINT")
    /\ LET j == Job("PRINT", BYTE, "")
           ch == Read(mem, PrintAt(j.n), BYTE)
           printed == IF job.active THEN out ELSE <<>>
       IN  IF ch = DOLLAR
           THEN job' = Rounds(j, j.n, FALSE) /\ out' = printed /\ Goto(pc + 1)
           ELSE job' = Rounds(j, j.n + 1, TRUE) /\ out' = Append(printed, ch) /\ Goto(pc)
    /\ UNCHANGED <<regs, segs, mem>> /\ KeepFlags /\ StackKept

-------------------------------------------------------------------------------
\* What reset leaves in the BIOS data area: mode, columns, page size and rows
BiosBase == Physical(64, 0)
BiosData == [o \in {73, 74, 76, 77, 132} |->
                CASE o = 73 -> 3 [] o = 74 -> 80 [] o = 76 -> 160 [] o = 77 -> 15
                  [] o = 132 -> 24]

\* What loadProgram makes of it
Loaded(d) == [a \in DOMAIN d \union {BiosBase + o : o \in DOMAIN BiosData} |->
                 IF a \in DOMAIN d THEN d[a] ELSE BiosData[a - BiosBase]]

Init ==
    \E g \in Guests :
        /\ prog = g.code /\ pc = 1
        /\ regs = [r \in Reg |-> IF r = SP THEN WORD - 2 ELSE 0]
        /\ segs = [s \in SegReg |-> g.segment]
        /\ mem = Loaded(g.data)
        /\ flags = NoFlags /\ modes = [TF |-> FALSE, IE |-> FALSE, DF |-> FALSE]
        /\ out = <<>> /\ job = NoJob
        /\ stack = <<>> /\ popped = NoPop

Next ==
    \/ MovImmediate \/ MovTo \/ MovFrom \/ MovFromSegment \/ MovToSegment
    \/ LoadAccumulator \/ StoreAccumulator \/ Lea \/ XchgAccumulator \/ Xchg
    \/ Lahf \/ Sahf \/ Cld \/ Std \/ Cli \/ Sti
    \/ PushRegister \/ PushSegment \/ PushOperand \/ PushFlags \/ PushAll
    \/ PopRegister \/ PopSegment \/ PopFlags \/ PopAll
    \/ Call \/ CallOperand \/ Ret \/ Jmp \/ JmpOperand
    \/ Loop \/ LoopEqual \/ LoopNotEqual
    \/ StringOnce \/ RepNothing \/ RepInvalid \/ RepRound
    \/ int21_PrintString

Spec == Init /\ [][Next]_vars

-------------------------------------------------------------------------------
(***************************************************************************)
(* What should hold.                                                       *)
(***************************************************************************)
RegSet == [Reg -> Word]
EntrySet == [op : {"none"} \union Stacking \union Control, r : Reg, word : Word,
             regs : RegSet, segs : [SegReg -> Word], flags : FlagSet, modes : ModeSet,
             pc : Nat]

IsJob(j) ==
    /\ j.op \in {"none", "PRINT"} \union Repeated /\ j.w \in Width
    /\ j.rep \in {"", "E", "NE"} /\ j.n \in Nat /\ j.active \in BOOLEAN
    /\ j.regs \in RegSet /\ IsMemory(j.mem)

\* The type of every variable; registers never leave their 16 bits and memory
\* its bytes, whatever instructions compute
TypeOK ==
    /\ regs \in RegSet /\ segs \in [SegReg -> Word] /\ IsMemory(mem)
    /\ IsCode(prog) /\ pc \in Nat
    /\ flags \in FlagSet /\ modes \in ModeSet
    /\ out \in Seq(0 .. BYTE - 1)
    /\ IsJob(job)
    /\ stack \in Seq(EntrySet)
    /\ popped.op \in {"none"} \union Stacking \union Control /\ popped.r \in Reg
    /\ popped.from \in EntrySet

\* However pushes, pops, calls and other instructions mix, where SP is odd or
\* wraps around, and where PUSHA pushes eight words at once: each word that
\* was pushed and not popped yet lies in memory unchanged, as far above SP as
\* there are words on top of it
StackHolds ==
    /\ 2 * Len(stack) <= WORD
    /\ \A n \in 1 .. Len(stack) :
           LET place == Place(stack[n])
               a == Physical(segs[SS], place)
           IN  /\ place = (regs[SP] + 2 * (Len(stack) - n)) % WORD
               /\ Valid(a, WORD)
               /\ Read(mem, a, WORD) = stack[n].word

\* A pop that takes the word of a push of its own kind undoes it, whatever
\* ran in between: POP gives the register the value it had at the PUSH, SP
\* included, POPF every flag, RET goes to the instruction after the CALL, and
\* POPA brings back all of the registers of the PUSHA
PairsAreInverse ==
    LET e == popped.from
        pair(pop, push) == popped.op = pop /\ e.op = push
    IN  /\ pair("POP", "PUSH") /\ (popped.r = SP <=> e.r = SP) =>
               regs[popped.r] = e.regs[e.r] /\ regs[SP] = e.regs[SP]
        /\ pair("POPS", "PUSHS") => segs[popped.r] = e.segs[e.r] /\ regs[SP] = e.regs[SP]
        /\ pair("POPF", "PUSHF") =>
               flags = e.flags /\ modes = e.modes /\ regs[SP] = e.regs[SP]
        /\ pair("RET", "CALL") => pc = e.pc + 1 /\ regs[SP] = e.regs[SP]
        /\ pair("POPA", "PUSHA") => regs = e.regs

\* LEA, which adds up addresses by itself, gives the offset at which every
\* other instruction with the same operand reads and writes, with signs,
\* wrap around and the displacement that stands alone
LeaIsAddress ==
    [][Lea /\ ins.o.mod # 3 =>
           Physical(segs[Segment(ins.o)], regs'[ins.r]) = Address(ins.o)]_vars

\* The addresses of the elements of a job, counted from 0
From(n) == Physical(segs[DS], Moved(job.regs[SI], n, job.w))
To(n) == Physical(segs[ES], Moved(job.regs[DI], n, job.w))
Inside(a) == \A c \in Cells(a, job.w) : c < MEMORY_SIZE
Meet(a, b) == Cells(a, job.w) \intersect Cells(b, job.w) # {}
Accumulator == IF job.w = WORD THEN job.regs[AX] ELSE job.regs[AX] % BYTE

\* A REP has counted its elements, and moved its pointers over them, in the
\* direction of DF
Counted ==
    /\ job.n <= job.regs[CX] /\ regs[CX] = job.regs[CX] - job.n
    /\ \A r \in Reg \ {CX, SI, DI} : regs[r] = job.regs[r]
    /\ regs[SI] = IF job.op \in UsesSI THEN Moved(job.regs[SI], job.n, job.w) ELSE job.regs[SI]
    /\ regs[DI] = Moved(job.regs[DI], job.n, job.w)

\* REP MOVS and STOS do for the block what its elements ask for, also where
\* it crosses the end of its segment or of the memory, goes downwards or
\* overlaps itself: an element holds what was at its source before the REP,
\* unless an earlier element was written over the source or a later one over
\* the element; and no other cell has changed
BlocksAreWritten ==
    job.op \in {"MOVS", "STOS"} =>
        /\ Counted
        /\ job.active <=> regs[CX] # 0
        /\ \A n \in 0 .. job.n - 1 :
               /\ Inside(To(n))
               /\ \A k \in n + 1 .. job.n - 1 : ~Meet(To(k), To(n))
               /\ job.op = "MOVS" => \A k \in 0 .. n - 1 : ~Meet(To(k), From(n))
               => Read(mem, To(n), job.w) = IF job.op = "STOS" THEN Accumulator
                                            ELSE Read(job.mem, From(n), job.w)
        /\ \A c \in DOMAIN mem \union DOMAIN job.mem :
               Cell(mem, c) = Cell(job.mem, c)
               \/ \E n \in 0 .. job.n - 1 : Inside(To(n)) /\ c \in Cells(To(n), job.w)

\* REPE and REPNE stop at the first element that ends the search, or after
\* the last, with CX, SI and DI just behind it, ZF of that element and memory
\* as it was
SearchStopsAtFirst ==
    LET equal(n) == Read(mem, To(n), job.w) =
                        IF job.op = "SCAS" THEN Accumulator ELSE Read(mem, From(n), job.w)
    IN  job.op \in Compares =>
            /\ Counted /\ mem = job.mem /\ job.n > 0
            /\ \A n \in 0 .. job.n - 2 : equal(n) <=> job.rep = "E"
            /\ flags.ZF <=> equal(job.n - 1)
            /\ job.active <=> regs[CX] # 0 /\ (flags.ZF <=> job.rep = "E")

\* INT 21h/09h has printed the bytes in front of the first dollar sign, also
\* past the end of the segment, of the memory or of the host's addresses; and
\* it comes to an end wherever memory holds a dollar sign: it never goes
\* further than from DS:DX up to that cell, once round the host's addresses
PrintsTheString ==
    LET start == PARA * segs[DS] + regs[DX]
        byte(n) == Read(mem, (start + n) % AddressSpace, BYTE)
    IN  job.op = "PRINT" =>
            /\ Len(out) = job.n
            /\ \A n \in 1 .. job.n : out[n] = byte(n - 1) /\ out[n] # DOLLAR
            /\ ~job.active => byte(job.n) = DOLLAR
            /\ \A c \in DOMAIN mem : mem[c] = DOLLAR => job.n <= (c - start) % AddressSpace
===============================================================================
