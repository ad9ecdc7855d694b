------------------------------- MODULE Emulator -------------------------------
(***************************************************************************)
(* The execution core of E2Emu: class Emulator (src/core/emulator.cpp)     *)
(* with the keyboard half of class InterruptController                     *)
(* (src/interrupts/interrupt_controller.cpp).                              *)
(*                                                                         *)
(* One host application drives one emulator.  It calls step() or run(),    *)
(* and while such a call is in progress the emulator calls back into the   *)
(* host: onStateChanged and onError when the machine stops,                *)
(* onInstructionExecuted and onRegistersChanged after an instruction, and  *)
(* the host's own interrupt handlers.  In every callback, as between calls,*)
(* the host may use the rest of the API: queue keys, halt, reset, load     *)
(* another program, hook interrupts.  The variable pc says who is in       *)
(* control.                                                                *)
(*                                                                         *)
(* Guest code is kept as bytes, for the instructions that touch control    *)
(* state; the data instructions are modelled elsewhere and are all NOP     *)
(* here.  IP wraps at CodeSize instead of 2^16 and size_t at SizeMod       *)
(* instead of 2^64.                                                        *)
(*                                                                         *)
(* Left out: a host that writes registers directly through getCPU(), that  *)
(* calls step() or run() from inside a callback, or that replaces the      *)
(* interrupt handler that is running (the running closure is destroyed).   *)
(***************************************************************************)
EXTENDS Integers, Sequences

CONSTANTS
    Keys,        \* keystrokes, records [ah |-> scan code, al |-> character]
    NoKey,       \* not a keystroke
    Programs,    \* binaries the host can load, functions on Addr
    CodeSize,    \* bytes of the code segment; IP wraps here
    Hookable,    \* interrupt vectors the host may install a handler for
    SizeMod,     \* values of the C++ type size_t
    Budgets,     \* arguments the host passes to run(); 0 is "no limit"
    MaxKeys      \* bound on the keystrokes in flight or received

Addr == 0 .. CodeSize - 1
Byte == 0 .. 255
Words == [ah : Byte, al : Byte]

ASSUME KeysAssumption == Keys \subseteq Words /\ NoKey \notin Keys
ASSUME CodeSizeAssumption == CodeSize \in Nat \ {0}
ASSUME ProgramsAssumption == Programs \subseteq [Addr -> Byte]
ASSUME HookableAssumption == Hookable \subseteq Byte
ASSUME SizeModAssumption == SizeMod \in Nat /\ SizeMod > 1
ASSUME BudgetsAssumption == Budgets \subseteq 0 .. SizeMod - 1
ASSUME MaxKeysAssumption == MaxKeys \in Nat

NoError == -1

States == {"RUNNING", "HALTED", "ERROR", "BREAKPOINT"}

VARIABLES
    mem, ip, ax, zf,       \* code bytes, IP, AX and the zero flag
    state,                 \* CPU::state
    err,                   \* m_error: where IP was when it was set, or NoError
    icount,                \* m_instruction_count
    kbd,                   \* m_keyboard_buffer
    hooked,                \* vectors in m_custom_handlers
    pc,                    \* who is in control, see TypeOK
    call, max, count,      \* the API call in progress; run()'s parameter and local
    \* What a host could have recorded:
    told,                  \* the last state onStateChanged reported
    exited,                \* the guest's INT 21h/4Ch was the last to set the state
    attempts,              \* executeInstruction() calls of the last run()
    owed,                  \* keys injected and not thrown away
    delivered,             \* keys the guest took out of the buffer
    peeked                 \* the key INT 16h/01h announced and nobody took yet

guestVars == <<mem, ip, ax, zf>>
controlVars == <<state, err, told, exited>>
keyVars == <<kbd, owed, delivered, peeked>>
callVars == <<pc, call, max, count, attempts>>
vars == <<guestVars, controlVars, icount, keyVars, hooked, callVars>>

\* Every variable stays in the range of the C++ object it stands for.
TypeOK ==
    /\ mem \in [Addr -> Byte] /\ ip \in Addr /\ ax \in Words /\ zf \in BOOLEAN
    /\ state \in States /\ told \in States /\ exited \in BOOLEAN
    /\ err \in Addr \union {NoError}
    /\ icount \in 0 .. SizeMod - 1 /\ count \in 0 .. SizeMod - 1
    /\ attempts \in 0 .. SizeMod - 1 /\ max \in 0 .. SizeMod - 1
    /\ kbd \in Seq(Keys) /\ owed \in Seq(Keys) /\ delivered \in Seq(Keys)
    /\ peeked \in Keys \union {NoKey}
    /\ hooked \subseteq Hookable
    /\ call \in {"none", "step", "run"}
    /\ pc \in {"host",       \* no call in progress
               "exec",       \* step() is about to execute an instruction
               "handler",    \* inside a handler the host installed
               "stopping",   \* in onStateChanged or onError, the machine just stopped
               "executed"}   \* in onInstructionExecuted or onRegistersChanged

-------------------------------------------------------------------------------
(* Machine words *)

MutIncNoWrap(n) == n + 1
Inc(n) == (n + 1) % SizeMod
Wrap(a) == a % CodeSize
Int8(b) == IF b < 128 THEN b ELSE b - 256

-------------------------------------------------------------------------------
(* Control state *)

\* m_cpu.state is assigned and onStateChanged reports it.
Announce(s) == state' = s /\ told' = s /\ exited' = FALSE

MutHaltedQuietly == state' = "HALTED" /\ exited' = FALSE /\ UNCHANGED <<told, err>>
Halted == Announce("HALTED") /\ UNCHANGED err

\* setError, called with IP where the instruction has left it.
MutFailedKeepsMessage == /\ Announce("ERROR")
                         /\ err' = IF err = NoError THEN ip' ELSE err
Failed == Announce("ERROR") /\ err' = ip'

\* Where step() goes when executeInstruction() returned true: the instruction
\* is counted before the callbacks run.
Completes == /\ pc' = "executed"
             /\ icount' = Inc(icount)
             /\ UNCHANGED <<call, max, count>>

\* step() returns ok to the host, or to the loop of run(), which counts the
\* instruction only when ok and goes on while its budget lasts.
MutStepReturnsAnyway(ok) ==
    LET counted == IF call = "run" THEN Inc(count) ELSE count
        again == call = "run" /\ (max = 0 \/ counted < max)
    IN  /\ count' = counted
        /\ pc' = IF again THEN "exec" ELSE "host"
        /\ call' = IF again THEN "run" ELSE "none"
        /\ UNCHANGED max
MutStepReturnsLate(ok) ==
    LET counted == IF call = "run" /\ ok THEN Inc(count) ELSE count
        again == call = "run" /\ ok /\ (max = 0 \/ count < max)
    IN  /\ count' = counted
        /\ pc' = IF again THEN "exec" ELSE "host"
        /\ call' = IF again THEN "run" ELSE "none"
        /\ UNCHANGED max
MutStepReturnsNever(ok) ==
    LET counted == IF call = "run" /\ ok THEN Inc(count) ELSE count
        again == call = "run" /\ ok
    IN  /\ count' = counted
        /\ pc' = IF again THEN "exec" ELSE "host"
        /\ call' = IF again THEN "run" ELSE "none"
        /\ UNCHANGED max
StepReturns(ok) ==
    LET counted == IF call = "run" /\ ok THEN Inc(count) ELSE count
        again == call = "run" /\ ok /\ (max = 0 \/ counted < max)
    IN  /\ count' = counted
        /\ pc' = IF again THEN "exec" ELSE "host"
        /\ call' = IF again THEN "run" ELSE "none"
        /\ UNCHANGED max

-------------------------------------------------------------------------------
(* The interpreter *)

Prefixes == {38, 46, 54, 62}     \* 26, 2E, 36, 3E: segment overrides
HLT == 244                       \* F4
INT == 205                       \* CD
MOV_AH == 180                    \* B4
JMP == 235                       \* EB
JZ == 116                        \* 74
JNZ == 117                       \* 75
IRET == 207                      \* CF, one of the opcodes the switch lacks
Missing == {IRET} \union Prefixes
GRP3 == 246                      \* F6; second bytes C8..CF select no operation

\* The first byte behind a prefix; a second prefix is an opcode like any other.
OpcodeAt == IF mem[ip] \in Prefixes THEN Wrap(ip + 1) ELSE ip
Opcode == mem[OpcodeAt]
Operand == mem[Wrap(OpcodeAt + 1)]
After1 == Wrap(OpcodeAt + 1)
After2 == Wrap(OpcodeAt + 2)

Executing == /\ pc = "exec"
             /\ attempts' = IF call = "run" THEN Inc(attempts) ELSE attempts

NoOperation == Opcode = GRP3 /\ Operand \in 200 .. 207

\* NOP, and every data instruction: they leave this module's state alone.
Nop == /\ Executing /\ ~NoOperation
       /\ Opcode \notin Missing \union {HLT, INT, MOV_AH, JMP, JZ, JNZ}
       /\ ip' = After1
       /\ Completes
       /\ UNCHANGED <<mem, ax, zf, controlVars, keyVars, hooked>>

MovAH == /\ Executing /\ Opcode = MOV_AH
         /\ ip' = After2
         /\ ax' = [ax EXCEPT !.ah = Operand]
         /\ Completes
         /\ UNCHANGED <<mem, zf, controlVars, keyVars, hooked>>

Taken == Opcode = JMP \/ (Opcode = JZ /\ zf) \/ (Opcode = JNZ /\ ~zf)

Jump == /\ Executing /\ Opcode \in {JMP, JZ, JNZ}
        /\ ip' = IF Taken THEN Wrap(After2 + Int8(Operand)) ELSE After2
        /\ Completes
        /\ UNCHANGED <<mem, ax, zf, controlVars, keyVars, hooked>>

\* HLT halts the machine and tells the host; step() will return false.
Hlt == /\ Executing /\ Opcode = HLT
       /\ ip' = After1
       /\ Halted
       /\ pc' = "stopping"
       /\ UNCHANGED <<mem, ax, zf, icount, keyVars, hooked, call, max, count>>

\* The default case of the switch: IP stays on the opcode (behind a prefix).
Unimplemented == /\ Executing /\ Opcode \in Missing
                 /\ ip' = OpcodeAt
                 /\ Failed
                 /\ pc' = "stopping"
                 /\ UNCHANGED <<mem, ax, zf, icount, keyVars, hooked, call, max, count>>

\* A group opcode whose second byte selects no operation, as every other error
\* found in mid-instruction: IP is already behind what was fetched.
Invalid == /\ Executing /\ NoOperation
           /\ ip' = After2
           /\ Failed
           /\ pc' = "stopping"
           /\ UNCHANGED <<mem, ax, zf, icount, keyVars, hooked, call, max, count>>

-------------------------------------------------------------------------------
(* INT n: the host's handlers come first, then the emulator's services *)

Interrupt == Executing /\ Opcode = INT
Service(v, ah) == Interrupt /\ Operand = v /\ v \notin hooked /\ ax.ah = ah

KEYBOARD == 22     \* INT 16h
DOS == 33          \* INT 21h

\* The handler is a closure of the host: it runs before step() goes on.
EnterHandler == /\ Interrupt /\ Operand \in hooked
                /\ ip' = After2
                /\ pc' = "handler"
                /\ UNCHANGED <<mem, ax, zf, controlVars, icount, keyVars, hooked,
                               call, max, count>>

\* A handler that returns false makes step() return false, and nothing else.
HandlerReturns(ok) == /\ pc = "handler"
                      /\ IF ok THEN Completes ELSE StepReturns(FALSE) /\ UNCHANGED icount
                      /\ UNCHANGED <<guestVars, controlVars, keyVars, hooked, attempts>>

MutTakeKeyLeavesIt == /\ UNCHANGED <<kbd, owed>>
                      /\ delivered' = Append(delivered, Head(kbd))
                      /\ peeked' = NoKey
MutTakeKeyNewest == /\ kbd' = SubSeq(kbd, 1, Len(kbd) - 1)
                    /\ delivered' = Append(delivered, kbd[Len(kbd)])
                    /\ peeked' = NoKey
                    /\ UNCHANGED owed
TakeKey == /\ kbd' = Tail(kbd)
           /\ delivered' = Append(delivered, Head(kbd))
           /\ peeked' = NoKey
           /\ UNCHANGED owed

\* Where a read that finds no key leaves IP: an INT is two bytes long.
MutAgainPastInt == After2
Again == Wrap(After2 - 2)

\* INT 16h/00h: read a key, or step IP back on the INT so that it runs again.
ReadKeystroke ==
    /\ Service(KEYBOARD, 0)
    /\ IF kbd # <<>>
       THEN TakeKey /\ ax' = Head(kbd) /\ ip' = After2
       ELSE ip' = Again /\ UNCHANGED <<ax, keyVars>>
    /\ Completes
    /\ UNCHANGED <<mem, zf, controlVars, hooked>>

\* What INT 16h/01h reports in ZF.
MutNoKeyWaiting == kbd # <<>>
NoKeyWaiting == kbd = <<>>

\* INT 16h/01h: look at the oldest key and leave it in the buffer.
CheckKeystroke ==
    /\ Service(KEYBOARD, 1)
    /\ ip' = After2
    /\ zf' = NoKeyWaiting
    /\ IF kbd # <<>>
       THEN ax' = Head(kbd) /\ peeked' = Head(kbd)
       ELSE UNCHANGED <<ax, peeked>>
    /\ Completes
    /\ UNCHANGED <<mem, controlVars, kbd, owed, delivered, hooked>>

\* INT 21h/01h: read a character without waiting; AL = 0 when there is none.
ReadCharacter ==
    /\ Service(DOS, 1)
    /\ ip' = After2
    /\ IF kbd # <<>>
       THEN TakeKey /\ ax' = [ax EXCEPT !.al = Head(kbd).al]
       ELSE ax' = [ax EXCEPT !.al = 0] /\ UNCHANGED keyVars
    /\ Completes
    /\ UNCHANGED <<mem, zf, controlVars, hooked>>

\* INT 21h/4Ch: the state is assigned directly, onStateChanged is not called,
\* and step() returns false at once.
Exit == /\ Service(DOS, 76)
        /\ ip' = After2
        /\ state' = "HALTED" /\ exited' = TRUE
        /\ StepReturns(FALSE)
        /\ UNCHANGED <<mem, ax, zf, err, told, icount, keyVars, hooked>>

VIDEO == 16        \* INT 10h
DISK == 19         \* INT 13h
CLOCK == 26        \* INT 1Ah

\* What the services of screen, disk and clock may leave in AX.  The disk says
\* success; of the others any answer is allowed for.
Answers == IF Operand = DISK THEN {[ax EXCEPT !.ah = 0]} ELSE Words

DeviceService == /\ Interrupt /\ Operand \in {VIDEO, DISK, CLOCK} \ hooked
                 /\ ip' = After2
                 /\ ax' \in Answers
                 /\ Completes
                 /\ UNCHANGED <<mem, zf, controlVars, keyVars, hooked>>

\* Every other service: the screen output of INT 21h and the vectors nobody
\* serves.  They touch nothing this module keeps.
OtherService ==
    /\ Interrupt /\ Operand \notin {VIDEO, DISK, CLOCK} \union hooked
    /\ ~(Operand = KEYBOARD /\ ax.ah \in {0, 1})
    /\ ~(Operand = DOS /\ ax.ah \in {1, 76})
    /\ ip' = After2
    /\ Completes
    /\ UNCHANGED <<mem, ax, zf, controlVars, keyVars, hooked>>

Instruction == \/ Nop \/ MovAH \/ Jump \/ Hlt \/ Unimplemented \/ Invalid
               \/ EnterHandler \/ ReadKeystroke \/ CheckKeystroke
               \/ ReadCharacter \/ Exit \/ DeviceService \/ OtherService

-------------------------------------------------------------------------------
(* Callbacks return to the emulator *)

\* onInstructionExecuted and onRegistersChanged are done: only now does step()
\* look at the state the host may have changed.
ExecutedReturns == /\ pc = "executed"
                   /\ StepReturns(state = "RUNNING")
                   /\ UNCHANGED <<guestVars, controlVars, icount, keyVars, hooked, attempts>>

\* onStateChanged or onError is done: step() returns false whatever the host did.
StoppingReturns == /\ pc = "stopping"
                   /\ StepReturns(FALSE)
                   /\ UNCHANGED <<guestVars, controlVars, icount, keyVars, hooked, attempts>>

CallbackReturns == \/ ExecutedReturns
                   \/ StoppingReturns
                   \/ \E ok \in BOOLEAN : HandlerReturns(ok)

-------------------------------------------------------------------------------
(* The host *)

\* A step() or run() on a machine that is not running returns at once.
CallStep == /\ pc = "host" /\ state = "RUNNING"
            /\ pc' = "exec" /\ call' = "step"
            /\ UNCHANGED <<guestVars, controlVars, icount, keyVars, hooked,
                           max, count, attempts>>

MutCallRunKeepsCount(m) ==
    /\ pc = "host" /\ state = "RUNNING"
    /\ pc' = "exec" /\ call' = "run"
    /\ max' = m /\ attempts' = 0 /\ UNCHANGED count
    /\ UNCHANGED <<guestVars, controlVars, icount, keyVars, hooked>>
CallRun(m) == /\ pc = "host" /\ state = "RUNNING"
              /\ pc' = "exec" /\ call' = "run"
              /\ max' = m /\ count' = 0 /\ attempts' = 0
              /\ UNCHANGED <<guestVars, controlVars, icount, keyVars, hooked>>

HostInControl == pc # "exec"

MutPush(k) == kbd' = <<k>> \o kbd
Push(k) == kbd' = Append(kbd, k)

QueueKeypress(k) == /\ HostInControl /\ Len(owed) < MaxKeys
                    /\ Push(k)
                    /\ owed' = Append(owed, k)
                    /\ UNCHANGED <<guestVars, controlVars, icount, delivered, peeked,
                                   hooked, callVars>>

ClearKeyboardBuffer == /\ HostInControl
                       /\ kbd' = <<>> /\ owed' = delivered /\ peeked' = NoKey
                       /\ UNCHANGED <<guestVars, controlVars, icount, delivered,
                                      hooked, callVars>>

Halt == /\ HostInControl
        /\ Halted
        /\ UNCHANGED <<guestVars, icount, keyVars, hooked, callVars>>

\* Memory, registers, the count and the error go back to their initial values;
\* the keyboard buffer and the handlers stay as they are.
Reset == /\ HostInControl
         /\ mem' = [a \in Addr |-> 0] /\ ip' = 0
         /\ ax' = [ah |-> 0, al |-> 0] /\ zf' = FALSE
         /\ Announce("HALTED") /\ err' = NoError /\ icount' = 0
         /\ UNCHANGED <<keyVars, hooked, callVars>>

\* The general registers, the flags, the count and the error message are kept.
LoadProgram(p) == /\ HostInControl
                  /\ mem' = p /\ ip' = 0
                  /\ Announce("RUNNING") /\ UNCHANGED err
                  /\ UNCHANGED <<ax, zf, icount, keyVars, hooked, callVars>>

SetHandler(v) == /\ HostInControl /\ pc # "handler"
                 /\ hooked' = hooked \union {v}
                 /\ UNCHANGED <<guestVars, controlVars, icount, keyVars, callVars>>

ClearHandlers == /\ HostInControl /\ pc # "handler"
                 /\ hooked' = {}
                 /\ UNCHANGED <<guestVars, controlVars, icount, keyVars, callVars>>

HostCall == \/ CallStep
            \/ \E m \in Budgets : CallRun(m)

HostOperation == \/ \E k \in Keys : QueueKeypress(k)
                 \/ ClearKeyboardBuffer
                 \/ Halt
                 \/ Reset
                 \/ \E p \in Programs : LoadProgram(p)
                 \/ \E v \in Hookable : SetHandler(v)
                 \/ ClearHandlers

-------------------------------------------------------------------------------
Init == /\ mem = [a \in Addr |-> 0] /\ ip = 0
        /\ ax = [ah |-> 0, al |-> 0] /\ zf = FALSE
        /\ state = "HALTED" /\ told = "HALTED" /\ exited = FALSE
        /\ err = NoError /\ icount = 0
        /\ kbd = <<>> /\ owed = <<>> /\ delivered = <<>> /\ peeked = NoKey
        /\ hooked = {}
        /\ pc = "host" /\ call = "none" /\ max = 0 /\ count = 0 /\ attempts = 0

Next == Instruction \/ CallbackReturns \/ HostCall \/ HostOperation

Spec == Init /\ [][Next]_vars

-------------------------------------------------------------------------------
(* Fairness: the emulator's thread keeps executing, callbacks return, and   *)
(* in an interactive session the host calls run() again when it returned.   *)

Fairness == WF_vars(Instruction) /\ WF_vars(CallbackReturns)

\* An interactive session: the host loads one program and from then on only
\* queues keys and calls run().
Start == /\ state = "HALTED" /\ mem = [a \in Addr |-> 0]
         /\ \E p \in Programs : LoadProgram(p)
Rerun == \E m \in Budgets : CallRun(m)
PressKey == \E k \in Keys : QueueKeypress(k)
InteractiveNext == Instruction \/ CallbackReturns \/ Start \/ Rerun \/ PressKey
InteractiveSpec == /\ Init /\ [][InteractiveNext]_vars
                   /\ Fairness /\ WF_vars(Start) /\ WF_vars(Rerun)

-------------------------------------------------------------------------------
(* Safety *)

\* Every key the host queued and did not throw away is either in what the
\* guest received or still in the buffer, once, in the order it was queued:
\* reads, checks and re-executed reads neither lose, repeat nor reorder keys.
KeysInOrder == owed = delivered \o kbd

\* When INT 16h/01h told the guest that a key is waiting, that very key is
\* the one its next read returns, however many keys the host queues meanwhile.
PeekIsPromise == peeked # NoKey => kbd # <<>> /\ Head(kbd) = peeked

\* executeInstruction() runs only on a machine in state RUNNING, although
\* callbacks may have halted, reset or reloaded it since the last look.
ExecutesOnlyWhenRunning == pc = "exec" => state = "RUNNING"

\* The host's picture of the machine, built from onStateChanged, is right
\* unless the guest has left through INT 21h/4Ch and nothing set the state
\* since: then the machine is halted and looks RUNNING.  Every other way to
\* stop it, HLT, errors and the host's own halt() and reset(), is reported.
ToldTruth == IF exited THEN told = "RUNNING" /\ state = "HALTED" ELSE told = state

\* While the machine is in state ERROR its message is the one of the error that
\* stopped it, and IP is still where that error left it: no earlier message
\* survives and nothing moves IP, whatever halts, resets and reloads came before.
ErrorIsExplained == state = "ERROR" => err = ip

\* run(n) never starts more than n instructions, counting those that stop
\* the machine and the re-executions of a read that waits for a key.
RunWithinBudget == max > 0 => attempts <= max

\* A run() that came back because of its limit, the last one the host made.
EndedByLimit == call # "run" /\ max > 0 /\ count = max

\* What the result of run() says of the instructions it started, which
\* emulator.h:67 calls "Number of instructions executed".  It is their number
\* only when the run ended by its limit.  An instruction that ends the run in
\* any other way, HLT, an error, INT 21h/4Ch, a handler that returned false or a
\* callback that halted the machine, is never counted (emulator.cpp:127-131),
\* not even when it was completed: the result is exactly one less.  Within the
\* run the one in progress is missing.
RunCountLag == \/ attempts = IF EndedByLimit \/ (call = "run" /\ pc = "exec")
                             THEN count ELSE Inc(count)
               \/ call # "run" /\ attempts = 0 /\ count = 0     \* no run() so far

\* The guest gets past INT 16h/00h only with the oldest key in AX; while it
\* waits, AX stays as it is and IP stays on the INT, prefixed or not.
AtBlockingRead == /\ pc = "exec" /\ Opcode = INT /\ Operand = KEYBOARD
                  /\ KEYBOARD \notin hooked /\ ax.ah = 0

ReadWaits ==
    [][AtBlockingRead /\ pc' # "exec" =>
          IF delivered' = delivered
          THEN mem[ip'] = INT /\ mem[Wrap(ip' + 1)] = KEYBOARD /\ ax' = ax
          ELSE ax' = Head(kbd) /\ kbd' = Tail(kbd)]_vars

\* The steps a run() with a budget has left before it returns, at most: four for
\* each instruction still to be counted, less those already made of this one.
StepsLeft == 4 * (max - count) - (CASE pc = "exec"    -> 0
                                    [] pc = "handler" -> 1
                                    [] OTHER          -> 2)

\* Every step of the emulator brings a run() with a budget nearer to its return,
\* though the guest may be waiting for a key and nothing else changes; and the
\* host takes none of the way back, by reset(), loadProgram() or any other call
\* from a callback.
RunGetsShorter ==
    [][call = "run" /\ max > 0 =>
          IF HostOperation THEN StepsLeft' = StepsLeft
          ELSE call' = "none" \/ (0 < StepsLeft' /\ StepsLeft' < StepsLeft)]_vars

-------------------------------------------------------------------------------
(* Refinement and liveness *)

KQ == INSTANCE KeyQueue WITH sent <- owed, got <- delivered

\* The buffer, the services that read it and the API that fills and clears it
\* implement the keyboard of module KeyQueue.
KeyboardImplemented == KQ!Spec

\* A run() with a budget comes back to the host even when the guest waits for
\* a key nobody presses.
RunReturns == (call = "run" /\ max > 0) ~> (call = "none")

\* In an interactive session of programs that read in a loop every key that
\* was queued reaches the guest, however the host slices the run.
EveryKeyArrives == \A n \in 1 .. MaxKeys : (Len(owed) >= n) ~> (Len(delivered) >= n)

-------------------------------------------------------------------------------
(* What the documentation says and the code does not do *)

\* types.h:106 documents onStateChanged as "Called on state changes".
StateChangesAreReported == told = state
===============================================================================
