# TLA+ models of E2Emu

E2Emu is an 8086 emulator library in C++. A host application (a GUI, a test) creates an `Emulator`, loads a binary, calls `step()` or `run()`, and is called back while the guest program executes. The modules in this directory model the library's control, its keyboard, its display, its ports, its arithmetic, and the instructions that move data through registers, memory and stack. TLC checks them on small instances, and TLAPS proves the safety properties that matter most for every value of the constants.

Contents: [inventory](#inventory), [modules](#modules), [how state and actions correspond to the code](#how-the-models-correspond-to-the-code), [runs](#what-the-runs-check), [findings](#where-the-code-and-its-documentation-disagree), [proofs](#what-is-proved), [what is left out](#what-is-not-modelled), [plan](#plan).

## Inventory

Paths are relative to `src/`.

| Component | State | Operations | Talks to |
|---|---|---|---|
| Execution control (`core/emulator.cpp` 12-139, 2220-2260) | execution state, error message, instruction count | `step`, `run`, `halt`, `reset`, `loadProgram`, `setError` | calls the host back in the middle of `step()`; dispatches to everything below |
| Keyboard (`interrupts/interrupt_controller.cpp` 251-300, 350-362) | `m_keyboard_buffer` | `queueKeypress`, `clearKeyboardBuffer`, INT 16h/00h and 01h, INT 21h/01h | fed by the host in any callback, read by the guest |
| Interrupt dispatch (`interrupts/*`) | `m_custom_handlers` | `handleInterrupt`, `setHandler`, `clearHandlers` | host handlers run inside an INT |
| Display (`devices/vga_device.*`, INT 10h) | text and graphics buffer, cursor, CRTC registers, retrace toggle, mode | teletype, putChar, scrolling, pixels, modes, synchronisation, ports 3D4h, 3D5h, 3DAh | writes the two windows in memory; guests store there directly |
| Ports (`devices/port_controller.*`, IN and OUT in `core/emulator.cpp`) | device map, cached and predefined values, interactive mode | `in`, `out`, register, unregister, clear | devices; asks and tells the host in callbacks |
| ALU (`execution/alu.*`), conditional jumps | flags | arithmetic, logic, decimal adjustment, shifts, rotations | registers, the jumps of the interpreter |
| Interpreter (`core/emulator.cpp` 141-2218) | none of its own | one `case` per opcode | all of the above |
| CPU registers (`core/cpu.*`) | 8 registers, 4 segment registers, IP, flags | byte and word access, reset, physical addresses | everything |
| Memory (`core/memory.*`) | 1 MB | byte and word access, load, clear | interpreter, display |
| Decoder (`execution/decoder.*`) | segment override | ModR/M, effective addresses, operands | registers, memory |
| Stack, calls, loops; strings and REP (cases of `executeInstruction`) | SP, SS, IP; SI, DI, CX, DF | PUSH to POPA, CALL, RET, LOOP; MOVS, CMPS, STOS, LODS, SCAS | registers, memory, flags |
| String output (INT 21h/09h) | none | a loop up to `$` | memory, teletype |
| Disk, clock (INT 13h, 1Ah) | tick count, midnight flag | stub, wall clock | host clock |

What is hard about it, and what has to be true:

- **Callbacks.** The library has one thread, but `step()` calls the host in up to three places per instruction and the host may queue keys, halt, reset, reload or hook interrupts there. State read before a callback is used after it. No instruction may start on a stopped machine; what the host was told has to match the state; the accounts of `run()` have to be right.
- **Waiting by re-execution.** A blocking keyboard read has no blocked state. It moves IP back by two and the instruction runs again, perhaps thousands of times, with prefixes and host operations in between. No key may be lost, repeated or reordered, the guest must not get past the read without a key, and a `run()` with a budget has to return.
- **Two copies.** The display keeps its own buffer and mirrors it in guest memory, which the guest may write behind the device's back. The copies must agree on every cell nobody stored into directly, across scrolling, mode changes, syncs and resets.
- **Two halves.** The cursor is programmed as two bytes of one offset; a word port access is two byte accesses with callbacks in between and may cross port 65535.
- **Many sources of one answer.** A port read is answered by a device, the cache, the user or a predefined value. The user must be asked once, and what was written must be read.
- **Flags as the only link.** Multi-word sums, comparisons with jumps, and decimal arithmetic are spread over several instructions which communicate only by flags.
- **Pairs.** PUSH and POP, PUSHA and POPA, PUSHF and POPF, CALL and RET are undone by each other, through memory that other instructions write, with a stack pointer that may be odd, wrap around, or be the register pushed.
- **Many rounds in one instruction.** REP and INT 21h/09h loop inside a single `step()`. A block may overlap itself, run downwards, wrap in its segment or leave the memory; a search must stop where the loop of single instructions would.
- **Boundaries.** The last column and row, tabs over the edge, counters that wrap, sums and differences that overflow in two operand sizes, segments that reach beyond the memory.

`PROJECT.json` lists every one of these hazards at the line where it bites, with the properties that would see it go wrong.

## Modules

| Module | Kind | What it models |
|---|---|---|
| `Emulator` | state machine | execution control, host callbacks, interrupt dispatch, keyboard services |
| `KeyQueue` | abstract specification | the keyboard as a queue without a buffer; `Emulator` implements it |
| `EmulatorMC` | instance | keys and eight-byte guest programs |
| `EmulatorProofs` | proofs | eleven theorems |
| `Vga` | state machine | `VGADevice`, INT 10h, direct stores, CRTC and status ports |
| `Paper` | abstract specification | teletype output on an endless sheet |
| `VgaTerminal` | composition | `Vga` used through teletype only, implements `Paper` |
| `VgaLoops` | state machine | the loops of `Vga`'s services cell by cell, with the host looking on; implements `Vga` |
| `VgaMC`, `VgaTerminalMC`, `VgaLoopsMC` | instances | characters, attributes, windows |
| `VgaProofs` | proofs | the device's inductive invariant and five properties |
| `VgaTerminalProofs` | proofs | teletype output implements `Paper` |
| `VgaLoopsProofs` | proofs | the loops implement `Vga`; what the host sees in them |
| `Ports` | state machine | `PortController`, IN and OUT with their callbacks |
| `PortsMC`, `PortsProofs` | instance, proofs | invariant and four theorems |
| `Flags` | operators | words and their bits, flags of results, conditions of jumps |
| `FlagsProofs` | proofs | what those operators compute, cited by the other proofs |
| `Alu` | state machine | guest programs of arithmetic instructions, shifts, rotations and conditional jumps at real operand sizes |
| `AluMC`, `AluProofs` | instance, proofs | chains of instructions; all seven invariants of the run |
| `Memory`, `Decoder` | operators | memory with its end, physical addresses; registers, effective addresses, operands |
| `Machine` | state machine | data transfer, stack, calls, loops, string instructions with REP, INT 21h/09h |
| `MachineMC` | instance | guest programs around the ends of stack, segment and memory |
| `MachineProofs` | proofs | reads and writes of memory; all seven properties of `Machine` |

`Machine` extends `Decoder`, which extends `Memory`, which extends `Flags`; `Alu` extends `Flags` too.

No module that is proved about declares a RECURSIVE operator.

## How the models correspond to the code

**Emulator.** `pc` says who is in control: the host between calls (`host`), the emulator before an instruction (`exec`), or the host inside a handler (`handler`), inside `onStateChanged`/`onError` (`stopping`) or inside the callbacks behind an instruction (`executed`). Guest code is bytes in `mem`, decoded as `executeInstruction()` does, for the instructions that touch control state: INT, HLT, MOV AH, JMP, JZ, NOP, a segment prefix, and opcodes that raise errors in the first byte or in the middle of an instruction. `err` holds the value of IP when `setError` ran, which is what the message in the program identifies. `told`, `attempts`, `owed`, `delivered` and `peeked` are histories: what a host could have recorded. `exited` is one too: whether INT 21h/4Ch was the last to set the state. The services of screen, disk and clock are one action (`DeviceService`) that leaves any answer in AX, or the success of the disk's stub. IP wraps at `CodeSize` instead of 2^16 and `size_t` at `SizeMod` instead of 2^64.

**Vga.** `screen` and `picture` are the buffers with their memory windows, plus `dirty`: the cells the guest stored into since a device operation last wrote them. Characters that teletype does not act on are one letter, because nothing depends on which one it is. `crtc`, `vretrace` and `status` are the ports; `high`, `low` and `byPort` are histories of how the cursor was last set. Every INT 10h service, every public operation of the device that changes state, and `Emulator::reset` as far as the display sees it, is an action.

**VgaTerminal** adds the history `gone`, the rows that left the screen. The refinement mapping reads the paper as `gone` followed by the screen and the head as the cursor, `Len(gone)` lines further down.

**VgaLoops** takes apart what is one step in `Vga`. Scrolling, filling and clearing are loops over `putChar`, which calls the host back for every cell. `loop` is the loop a service is in: the cells still to come, where each gets its contents from, and where the cursor goes at the end. `DrawCell` is one call of `putChar`, on the first cell left in the order of the two `for` loops; a state with the loop running is what the callback finds. The refinement mapping shows `Vga` the screen and the cursor as they will be when the loop is done, so that a service takes place when its loop is entered. Operations without such a loop, and those whose loop calls nobody back, are the actions of `Vga`.

**Ports.** An instruction is three kinds of step: its start, a byte access that may end in the user's answer (`asked`), and the report of the access (`told`), after which the second byte of a word follows or the instruction finishes. Between the steps the host acts. `sent`, `asked`, `fresh` and `stored` are histories.

**Alu.** A guest program is a sequence of instructions, each with an opcode, an operand size and the values its source may have; the state is AX, DX and the flags. Moduli are 256 and 65536, as in the program. Flag formulas (in `Flags`) are those of `setFlags_Add`, `setFlags_Sub` and `setFlags_Logic`, including the borrow that `setFlags_Sub` does not see; division by zero leaves a value from `Stale`, the contents of an uninitialised variable. `prev`, `last` and `sum` are histories: the last two instructions with the registers they found, and the exact value of the addition of many words in progress.

Bitwise operations are written with sets of bit positions (`Bits`, `Value`), so that the module stays within what the proof system reads. The loops of shifts and rotations are taken at once: `Left`, `Right`, `RightSigned` move a set of bits by the whole count, `Turned` turns a ring of 8, 9, 16 or 17 places; a count is cut to five bits first, as in the code. The loops of the code are there as well: `Round` is a turn of each, in the arithmetic of the code, `Loop` a recursive function that takes as many turns as it is asked for, and `AtOnce` the closed form. `ShiftsAreExact` demands that what the instruction left is what its loop makes.

**Machine.** A guest is a sequence of decoded instructions, its data and the segment it is loaded into; `pc` counts instructions, from 1. Registers and segment registers are functions of their numbers, as in `regs16` and `seg_regs`; `mem` is the function of the cells ever written. Flags that results show are `flags`, the others (TF, IF, DF) `modes`. There is an action for each `case` of `executeInstruction()`, or for a few that differ in the operand size or the register alone.

The loops inside an instruction, REP and INT 21h/09h, are a step per round (`RepRound`, `int21_PrintString`). Nothing can come between the rounds in the code, and nothing can in the model, since `pc` stays where it is; but a property sees the middle of the loop. `job` is the history of the loop: the registers and the memory that its first round found, and how many rounds were done. `stack` holds, for each word pushed and not popped, what pushed it and the registers, segment registers and flags that the push found; it is forgotten when the program does something else to its stack: moves SP or SS, writes over a word, or pushes more than the segment or the memory can hold. `popped` is what the last pop took.

What `Machine` keeps of the code that a reader might not expect:

- Addresses do not wrap at 20 bits. Segment FFFFh reaches to 10FFEFh, where reads give ones and writes vanish, of a word across the end also the half that lies inside.
- PUSH r16 of SP stores the decremented value, and PUSH r/m16 of the same register the old one; POP SP adds 2 to what it popped.
- CMPS compares destination minus source. String instructions ignore a segment override. A REP before LODS is an error unless CX is 0, and then a REP skips whatever opcode follows.
- INT 21h/09h counts physical addresses: it goes on past the end of the segment, and past the end of the memory, where it prints FFh, into address 0 at the end of the host's 32 bits.

## What the runs check

Bounds are named constants of the modules; the `.cfg` files give them values.

| Run | Properties | What it shows, and why the bounds are enough |
|---|---|---|
| `control` | `TypeOK`, `KeysInOrder`, `PeekIsPromise`, `ReadWaits`, `KeyboardImplemented`, `ExecutesOnlyWhenRunning`, `ToldTruth`, `ErrorIsExplained`, `RunWithinBudget`, `RunCountLag`, `RunGetsShorter` | Two keys in any order, one of whose scan codes is a service number; guests that block behind a prefix, check and read, read without waiting and exit through INT 21h/4Ch, halt, ask the disk for something and go on, or fail in the first or a later byte of an instruction; the host queues, clears, halts, resets, reloads, hooks and unhooks INT 16h in every callback; `run()` without a limit and with a limit of 1, whose single instruction may be a read that waits; that larger limits run down is what `RunRunsDown` proves. Order needs two keys; the code segment has eight bytes, so that IP wraps behind an INT in its last two and a waiting read has to step back across the end; `size_t` has three values, the fewest with which a count that is too low, right and too high can be told apart. |
| `interactive` | `EveryKeyArrives`, `RunReturns` | Liveness, see below; three keys, budgets 0, 1 and 3, guests that block, poll or read without waiting. |
| `device` | `TypeOK`, `CursorOnScreen`, `CursorHalves`, `PicturesCoherent`, `RetraceComesAndGoes` | A screen of 2 by 2 with a tab stop in each column, so that tabs end inside and beyond the row; cursor bytes 14 and 15 of a byte of 16 values, so that offsets lie on and far below the screen. Only blanks are drawn here; text is the matter of `loops`. |
| `terminal` | `PrintsOnPaper` | All sequences of letter, LF, CR, BS and HT on 3 columns and 2 rows until two lines scrolled off: wrapping by character and tab, in the last row too. |
| `loops` | `NothingVanishes`, `TextCoherent`, `DrawsAtOnce` | Every operation of host and guest but CRTC writes and pixels, on a screen of one column and three rows, the fewest with which rows move by one and by two and a row is read after another was written; the last row cleared as a window, the upper rows shifted by one and the whole screen by two, and a character written more often than the row has room for (INT 10h/09h). What a second column can add is a wider window and an order within the row, which `LoopsAreServices`, `RowsStayInSight` and `TextStaysCoherent` cover at every width. |
| `ports` | `TypeOK`, `ReadsWhatWasSent`, `AsksOnce`, `WordsComeBack` | Two ports, so that every word access crosses the last one; devices come and go and the host acts in every callback. |
| `arithmetic` | `TypeOK`, `SumsAreExact`, `ComparisonsDecide`, `ProductsAndQuotients`, `DecimalsAreExact`, `RotationsUndo`, `ShiftsAreExact` | Real operand sizes. Operands at the boundaries of digits, signs and sizes in every combination; all digits and all packed decimal numbers for the decimal instructions; counts of shifts and rotations below, at and above the number of bits and behind the cut to five bits. An assumption of `AluMC` compares the loops with their closed forms for some operands, before they are proved equal for all. |
| `machine` | `TypeOK`, `StackHolds`, `PairsAreInverse`, `BlocksAreWritten`, `SearchStopsAtFirst`, `PrintsTheString`, `LeaIsAddress` | Real sizes of registers, segments and memory. Stacks in three segments, one of which ends with the memory and one beyond it, with SP at 0, odd, about to wrap, and in the middle of the eight words of PUSHA; procedures called directly, through registers and through memory; every ModR/M operand with displacements at the ends of their range and with overrides; every string instruction with every prefix, size and direction, with pointers on both sides of the end of the segment, 0, 1 and 4 elements, so that blocks overlap both ways; strings printed across the ends of segment, memory and host addresses. `AddressSpace` is 1114112 instead of 2^32, which leaves the last segment inside and brings address 0 into reach. |
| `state_changes_reported`, `asks_again`, `borrow`, `imul_flags` | one each | Violations, see [below](#where-the-code-and-its-documentation-disagree). |

Deadlock is checked except in `arithmetic`, `borrow`, `imul_flags` and `machine`, whose guest programs end.

**Fairness.** Liveness is claimed in two places. In `interactive`, `Instruction` and `CallbackReturns` are weakly fair: `run()` is a loop on one thread that nothing but its own callbacks interrupts, and a callback is assumed to return. `Start` and `Rerun` are weakly fair as an assumption about the host: in an interactive session it loads a program and calls `run()` again whenever it returned. No fairness is assumed of the user: keys may stop coming, and then a `run()` with a budget still has to return, while every key that was queued has to arrive. In `device`, only the guest's polling of port 3DAh is fair, since a retrace bit that changes by being read is of use only to a guest that reads it.

Every property of every passing run has a mutant in `PROJECT.json`: a definition of the model changed the way a plausible bug would change the code, which TLC finds by that property.

## Where the code and its documentation disagree

Checked, as runs that TLC ends with a counterexample:

- `state_changes_reported`: INT 21h/4Ch sets the state to HALTED without `notifyStateChanged`, so a host that follows `onStateChanged` ("Called on state changes", `core/types.h:106`) shows a running machine. `ToldTruth` says that nothing else goes unreported: unless this exit was the last to set the state, the state told last is the machine's.
- `asks_again`: `reset()` clears the cached port values "so IN instruction asks for input again" (`core/emulator.cpp:51`), but `in()` stores the user's answer after the callback returned. A reset from inside that callback is undone, and the next run does not ask.
- `borrow`: SBB sets CF from `src > dst` without the borrow it subtracted (`execution/alu.cpp:490`): 5 - 5 with CF set gives FFFFh and no borrow, and subtractions of several words come out wrong.
- `imul_flags`: IMUL of bytes is said to set CF and OF by whether AH "is sign extension of low byte (AL)" (`execution/alu.cpp:54`). The code looks at the sign of the factor that was in AL before (`alu.cpp:55`): 1 times -128 sets the flags, although FF80h fits a byte. `ProductsAndQuotients` says nothing of the flags where the two signs differ (`SignMistaken`), and the documented interval everywhere else.

Met while modelling, without a run of their own, first those that a comment contradicts:

- `run()` is documented to return the "number of instructions executed" (`core/emulator.h:67`), but an instruction that ends the run, HLT, an error or an exit, is not counted (`core/emulator.cpp:127-131`). `RunCountLag` states what it returns exactly: the number of instructions started if the limit ended the run, one less otherwise.
- A custom handler that returns false is said to halt (`interrupts/interrupt_controller.h:48`). It ends the current `step()` or `run()` only; the state stays RUNNING and the next call continues behind the INT.
- The status port is said to have bit 0 always set (`devices/vga_device.cpp:36`). Reads give 08h and 00h in turn. `RetraceComesAndGoes` speaks of bit 3, the retrace.
- `reset` is said to "Reset emulator to initial state" (`core/emulator.h:54`). It keeps the keyboard buffer, the handlers, the CRTC registers and the graphics buffer. The models keep them too, and no property asks that they be gone.
- Physical addresses are said to have 20 bits (`core/cpu.h:103`, `core/types.h:21`) and reach 10FFEFh.

And others: SHL, SHR and SAR lose CF because `setFlags_Logic` clears it afterwards; INT 1Ah/01h stores a tick count that 00h does not read, and the midnight flag is never set; ADC and SBB compute AF without the carry, so decimal additions of several bytes are wrong; `div()` leaves the remainder uninitialised for a zero divisor; SBB AL, imm8 fetches its operand through SS instead of CS (`core/emulator.cpp:920`); CMPSB and CMPSW compare in the order destination minus source; `onMemoryChanged` and `onScreenUpdated` are never called; `setDefaultPortValue` has no effect in interactive mode; `setVideoMode` to graphics clears the buffer and not memory, `reset` clears memory and not the graphics buffer; `getError()` keeps the last message behind a halt or a load.

## What is proved

All theorems hold for every value of the constants the named assumptions allow; nothing else is assumed. `tlapm` checks every proof to the last leaf.

**EmulatorProofs.** `TypeCorrect` is inductive by itself. A lemma (`KeyboardSteps`) reduces every step to one of five as far as the keyboard is concerned: a key taken, a key announced, a key queued, all keys thrown away, or nothing. From it follow `KeysStayInOrder`, `PeekKeepsItsPromise` and `KeyboardRefinement` (the buffer implements `KeyQueue`). The control theorems share `ControlInv`, which strengthens `ExecutesOnlyWhenRunning`, `ToldTruth` and `ErrorIsExplained` by what holds inside each callback. `HostIsTold` needs the history `exited`, since HALTED behind INT 21h/4Ch and HALTED behind HLT are the same state of the program. The accounts of `run()` need `RunInv`: what `count` and `attempts` are at each point where control can be; from it `RunKeepsBudget` and `RunCountsAllButTheLast` (the result is exact: all instructions started when the limit ended the run, all but the last otherwise), for every width of `size_t`. `RunRunsDown` is the part of termination that is safety: a `run()` with a limit has a measure (`StepsLeft`: four for each instruction it may still count, less what is done of the present one) that every step of the emulator makes smaller and no host operation changes, be it a reset or a load from a callback; `RunReturns` adds by fairness that the steps come. `BlockingReadWaits` rests on a lemma about wrapping: moving IP back by two undoes the two increments at every address and behind every prefix.

**VgaProofs.** `IInv` has one part per group of variables; the cursor part says how a cursor position follows from the programmed halves. It is inductive, and yields `DeviceTypeCorrect`, `TextStaysCoherent`, `PicturesStayCoherent`, `CursorStaysOnScreen` and `CursorHalvesStay`, for screens of every size, every tab stop and every width of a byte.

**VgaTerminalProofs.** `PrintedIsOnPaper`: the refinement of `Paper`, for screens of every size, every tab stop and text of any length. The lines of the sheet are those that are gone and those of the screen (`SheetLines`). Two lemmas carry the argument: a cell written on the screen is the same cell written on the sheet (`PutOnSheet`), and scrolling, which moves every row of the screen and takes one off it, only adds an empty line to the sheet (`ScrollOnSheet`). With them every character is one step of the head or none (`OutputOnPaper`).

**VgaLoopsProofs.** `LoopInv` says of a loop under way: the cells left are behind those drawn (`Ordered`), they have their old contents (`Untouched`), and those drawn have the contents of the cell they move up from (`Moved`). Since a cell's source lies in a later row, it is among the cells left when the cell is drawn (`BelowIsLeft`); from this follow `RowsStayInSight` and `CallbacksFindCoherence`. `LoopsAreServices` is the refinement: drawing a cell takes it out of the cells left and puts into the screen what drawing the rest would have put there, so the screen as it will be stays the same (`SameScreen`), and only entering a loop is a step of `Vga`.

**PortsProofs.** `IInv` relates the cache to the history of what was sent (`Held`), the ports asked to the cached ones (`AskedKept`), and the last word to the two ports it lies in, also in the middle of an access (`StoredHeld`, `ReadingStored`). It yields the three action properties of the run, for any number of ports and any host.

**AluProofs.** `AluTypeCorrect`: for every guest program, registers hold 16 bits and flags are flags. `AluSums`: sums of any number of words, of bytes and words mixed, are exact; the types and the property are inductive together, because every instruction either adds, or ends the sum, or leaves both the sum and CF alone (`Steps`). `AluComparisons`: behind CMP, SUB, NEG and the logic instructions, all fourteen conditional jumps that the code implements decide what they are named after, for all operands; the core is `Differences`, which relates sign and overflow of a difference modulo 2h to the signed order of its operands, for every h. Behind SBB (`SbbDecides`) the signed jumps, LE and G with their zero flag among them, and O hold with the borrow counted, although `setFlags_Sub` never sees it: SF and OF come from the sign of the result, which has the borrow in it. B is wrong in one case, which the theorem excludes and `borrow` exhibits. 

The other four properties of `Alu` speak of an instruction and the one before it, so each rests on what the first of the two leaves for the second:

- `AluRotations`: `Rotated` says that AX (with CF, for RCL and RCR) holds the circle of bits its operand was, turned by the count. `TurnedBack` then gives back the circle, whose length is 8, 9, 16 or 17.
- `AluDecimals`: `Unrepaired` says what ADD, SUB, MUL and AAM leave of two digits, AF and CF included. `AddedPacked`, `SubtractedPacked` and their likes are the decimal arithmetic of the repair, with one case for each digit that is off.
- `AluProducts`: a product lies in the registers whole because neither factor exceeds its size (`MulWhole`, `ImulWhole`); CF and OF ask for the upper half, and `UpperHalf`, `UpperByte` and `UpperWord` say which products have one of nothing but zeros or signs. IMUL of bytes asks for the sign of the factor AL; where that is the sign of the product's low byte, the flags are right, and elsewhere (`SignMistaken`) `imul_flags` shows that they are not. For divisions, `Multiplied` says that the two halves of a product, joined, are the product, and `Extended` that CWD keeps the signed value. `ExactQuotient` and `QuotientRounds` are the facts on division towards zero that C++ promises and TLA+ does not.
- `AluShifts`: a shift by one place halves or doubles (`RightOnce`, `SignedRightOnce`, `LeftOnce`), shifts add up (`OneMore`), and halving or doubling often enough is dividing or multiplying by the power (`HalvedOften`, `DoubledOften`); `ProductCut` says which bits of the product remain. Of the flags it says what `setFlags_Logic` and the comparison behind it leave: CF clear, and by one place OF the sign of the result (SHL) or of the operand (SHR), since the highest bit is the sign (`TopNegative`). That the loops make what the model makes at once, for every number of rounds (`LoopsAtOnce`), is an induction over the rounds. A round of each loop is one of the moves by one place (`ShiftRound`, `LeftRound`, `AloneRound`: doubling a number and adding what comes in is another number and what falls out), so the closed form satisfies the equation of the loop's function (`GoesOn`), and only one function does (`SameRuns`). The induction itself, `SetInduction`, is stated for sets, from the well-foundedness of the natural numbers, because the provers cannot instantiate a theorem about operators.

**FlagsProofs** holds what the other proofs cite: bits and values, the parts of a word, differences and their flags.

**MachineProofs.** All properties of the run, for every guest program and every size of the host's address space. It starts with memory: a word is read back where it was written, and elsewhere what was there. `MachineTypeCorrect` is inductive by itself: registers keep to 16 bits and memory to its bytes. `MachineLea` unfolds the two tables of addresses.

`MachineStack` and `MachinePairs` rest on `StackInv`: each entry of the history is *held*, which says that its word lies in memory where the entry's own place says, as many words above SP as there are entries on top, and that this word is what the kind of push stores of the registers and flags it found (`PushedWord`). `StackHolds` alone is not enough for the pairs, since it does not say what the word means. A push keeps the others held because slots of one stack do not overlap unless they go round the whole segment (`SlotsApart`, by arithmetic modulo 65536), which `Fits` rules out; a pop takes the slot with number 0.

`MachineBlocks`, `MachineSearch` and `MachinePrint` rest on `RoundsInv`: in the middle of a job, the instruction at `pc` is the one the job is about, CX and the pointers are what the rounds done make of those at the start (`CountedOf`), and of the block written so far each element is *written* unless one of the rounds later wrote over it or over its source, and nothing else has changed (`Written`, `Confined`, `Undisturbed`). A round adds one element at the end; the earlier ones stay by the disjointness that the property itself demands. That INT 21h/09h does not run past a dollar sign (`PrintedEnds`) is arithmetic modulo the host's addresses: the way from DS:DX to a cell, less the rounds made, is the way still to go (`AheadRound`), and it cannot be 0 in a round that printed.

Only model-checked: liveness (`EveryKeyArrives`, `RunReturns`, `RetraceComesAndGoes`), which is out of the prover's reach, ENABLED with it. Induction over data is there where the set of numbers a fact holds for can be named (`SetInduction`); theorems of the library that take an operator cannot be used.

## What is not modelled

- How instructions are fetched byte by byte outside `Emulator`, and with it programs that write to their own code. In `Machine` CALL pushes the number of an instruction instead of its offset.
- Instructions that write CS (POP CS, MOV CS), and segment registers numbered 4 to 7 in a ModR/M byte: the code then indexes behind the array of four.
- Arithmetic on memory operands: `Alu` computes in registers, `Decoder` finds operands, and the `case`s of the interpreter join the two without conditions of their own.
- INT 13h is a stub, INT 1Ah converts the host's clock: nothing to state of several steps. INT 21h/09h in a memory without a dollar sign: the loop of the code has no end there, and neither has the model's.
- `Memory::readRange` and the write callback, which nothing in the library uses.
- A host that calls `step()`, `run()` or `in()` from inside a callback of the same operation, writes registers directly through `getCPU()`, or replaces the handler that is running (the closure being executed is destroyed); a host with several threads, which nothing in the library locks against.
- The echo of INT 21h/01h is a teletype output: it is covered by `Paper`, not repeated in `Emulator`.
- Wording of messages, glyphs, colours beyond two.
- Build files, tests and documentation have no behaviour.

## Plan

The order is that of importance: control first, since every other component runs inside it. Done: `Emulator` (with `KeyQueue`), `Vga` (with `Paper` above it and `VgaLoops` below), `Ports`, `Alu` with shifts and rotations, `Machine` with `Memory` and `Decoder`.

1. Composition of `Emulator` and `Ports`: an instruction that is re-executed or reset while a port access is in progress.
