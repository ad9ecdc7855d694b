---------------------------- MODULE EmulatorProofs ----------------------------
(***************************************************************************)
(* Theorems about module Emulator, for every set of keys and programs,     *)
(* every size of the code segment and of size_t, and any number of keys.   *)
(***************************************************************************)
EXTENDS Emulator, SequenceTheorems, TLAPS

USE KeysAssumption, CodeSizeAssumption, ProgramsAssumption, HookableAssumption,
    SizeModAssumption, BudgetsAssumption

\* IP arithmetic stays inside the code segment.
LEMMA WrapInAddr == \A a \in Int : Wrap(a) \in Addr
  BY DEF Wrap, Addr

\* size_t arithmetic stays inside size_t.
LEMMA IncInRange == \A n \in 0 .. SizeMod - 1 : Inc(n) \in 0 .. SizeMod - 1
  BY DEF Inc

\* A displacement of a short jump is an integer.
LEMMA Int8IsInt == \A b \in Byte : Int8(b) \in Int
  BY DEF Int8, Byte

-------------------------------------------------------------------------------
(* Type correctness *)

\* The bytes the interpreter looks at are bytes, at addresses of the segment.
LEMMA FetchType ==
  ASSUME TypeOK
  PROVE  /\ OpcodeAt \in Addr /\ Opcode \in Byte /\ Operand \in Byte
         /\ After1 \in Addr /\ After2 \in Addr /\ Again \in Addr
         /\ Wrap(After2 + Int8(Operand)) \in Addr
<1>1. ip \in Int /\ Addr \subseteq Int
  BY DEF TypeOK, Addr
<1>2. OpcodeAt \in Addr
  BY <1>1, WrapInAddr DEF OpcodeAt, TypeOK
<1>3. After1 \in Addr /\ After2 \in Addr
  BY <1>1, <1>2, WrapInAddr DEF After1, After2
<1>4. Again \in Addr
  BY <1>1, <1>3, WrapInAddr DEF Again
<1>5. Opcode \in Byte /\ Operand \in Byte
  <2>1. mem \in [Addr -> Byte]
    BY DEF TypeOK
  <2>2. Wrap(OpcodeAt + 1) \in Addr
    BY <1>1, <1>2, WrapInAddr
  <2> QED BY <1>2, <2>1, <2>2 DEF Opcode, Operand
<1>6. Wrap(After2 + Int8(Operand)) \in Addr
  BY <1>1, <1>3, <1>5, WrapInAddr, Int8IsInt
<1> QED BY <1>2, <1>3, <1>4, <1>5, <1>6

\* Returning from step() leaves the call variables well typed.
LEMMA StepReturnsType ==
  ASSUME TypeOK, NEW ok \in BOOLEAN, StepReturns(ok)
  PROVE  /\ count' \in 0 .. SizeMod - 1 /\ max' \in 0 .. SizeMod - 1
         /\ call' \in {"none", "step", "run"}
         /\ pc' \in {"host", "exec"}
  BY IncInRange DEF TypeOK, StepReturns

\* Taking a key out of a buffer that holds one leaves the keyboard well typed.
LEMMA TakeKeyType ==
  ASSUME TypeOK, kbd # <<>>, TakeKey
  PROVE  /\ kbd' \in Seq(Keys) /\ owed' \in Seq(Keys) /\ delivered' \in Seq(Keys)
         /\ peeked' \in Keys \union {NoKey}
         /\ Head(kbd) \in Keys
<1>1. Head(kbd) \in Keys /\ Tail(kbd) \in Seq(Keys)
  BY HeadTailProperties DEF TypeOK
<1> QED BY <1>1 DEF TypeOK, TakeKey

LEMMA InitType == Init => TypeOK
<1> SUFFICES ASSUME Init PROVE TypeOK
  OBVIOUS
<1> USE DEF Init
<1>1. mem \in [Addr -> Byte] /\ ip \in Addr /\ ax \in Words /\ zf \in BOOLEAN
  <2>1. 0 \in Byte /\ 0 \in Addr
    BY DEF Byte, Addr
  <2> QED BY <2>1 DEF Words
<1>2. kbd \in Seq(Keys) /\ owed \in Seq(Keys) /\ delivered \in Seq(Keys)
  OBVIOUS
<1>3. 0 \in 0 .. SizeMod - 1
  OBVIOUS
<1> QED BY <1>1, <1>2, <1>3 DEF TypeOK, States

LEMMA InstructionType == TypeOK /\ Instruction => TypeOK'
<1> SUFFICES ASSUME TypeOK, Instruction PROVE TypeOK'
  OBVIOUS
<1> USE FetchType, IncInRange
<1>1. CASE Nop
  BY <1>1 DEF Nop, Executing, Completes, TypeOK, controlVars, keyVars
<1>2. CASE MovAH
  BY <1>2 DEF MovAH, Executing, Completes, TypeOK, controlVars, keyVars, Words
<1>3. CASE Jump
  BY <1>3 DEF Jump, Executing, Completes, TypeOK, controlVars, keyVars
<1>4. CASE Hlt
  BY <1>4 DEF Hlt, Executing, Halted, Announce, TypeOK, keyVars, States
<1>5. CASE Unimplemented
  BY <1>5 DEF Unimplemented, Executing, Failed, Announce, TypeOK, keyVars, States
<1>12. CASE Invalid
  BY <1>12 DEF Invalid, Executing, Failed, Announce, TypeOK, keyVars, States
<1>6. CASE EnterHandler
  BY <1>6 DEF EnterHandler, Interrupt, Executing, TypeOK, controlVars, keyVars
<1>7. CASE ReadKeystroke
  <2> USE <1>7 DEF ReadKeystroke, Service, Interrupt, Executing, Completes
  <2>1. CASE kbd # <<>>
    BY <2>1, TakeKeyType DEF TypeOK, controlVars
  <2>2. CASE kbd = <<>>
    BY <2>2 DEF TypeOK, controlVars, keyVars
  <2> QED BY <2>1, <2>2
<1>8. CASE CheckKeystroke
  <2>1. kbd # <<>> => Head(kbd) \in Keys
    BY HeadTailProperties DEF TypeOK
  <2> QED BY <1>8, <2>1 DEF CheckKeystroke, Service, Interrupt, Executing, Completes,
                 NoKeyWaiting, TypeOK, controlVars
<1>9. CASE ReadCharacter
  <2> USE <1>9 DEF ReadCharacter, Service, Interrupt, Executing, Completes
  <2>1. CASE kbd # <<>>
    BY <2>1, TakeKeyType DEF TypeOK, controlVars, Words
  <2>2. CASE kbd = <<>>
    <3>1. [ax EXCEPT !.al = 0] \in Words
      <4>1. ax \in Words /\ 0 \in Byte
        BY DEF TypeOK, Byte
      <4> QED BY <4>1 DEF Words
    <3> QED BY <2>2, <3>1 DEF TypeOK, controlVars, keyVars
  <2> QED BY <2>1, <2>2
<1>10. CASE Exit
  BY <1>10, StepReturnsType
     DEF Exit, Service, Interrupt, Executing, TypeOK, keyVars, States
<1>11. CASE OtherService
  BY <1>11 DEF OtherService, Interrupt, Executing, Completes, TypeOK, controlVars, keyVars
<1>13. CASE DeviceService
  <2>1. [ax EXCEPT !.ah = 0] \in Words
    <3>1. ax \in Words /\ 0 \in Byte
      BY DEF TypeOK, Byte
    <3> QED BY <3>1 DEF Words
  <2>2. ax' \in Words
    BY <1>13, <2>1 DEF DeviceService, Answers
  <2> QED BY <1>13, <2>2
          DEF DeviceService, Interrupt, Executing, Completes, TypeOK, controlVars, keyVars
<1> QED BY <1>1, <1>2, <1>3, <1>4, <1>5, <1>6, <1>7, <1>8, <1>9, <1>10, <1>11, <1>12, <1>13
        DEF Instruction

LEMMA CallbackType == TypeOK /\ CallbackReturns => TypeOK'
<1> SUFFICES ASSUME TypeOK, CallbackReturns PROVE TypeOK'
  OBVIOUS
<1> USE StepReturnsType, IncInRange
    DEF TypeOK, guestVars, controlVars, keyVars
<1>1. CASE ExecutedReturns
  <2>1. (state = "RUNNING") \in BOOLEAN
    OBVIOUS
  <2> QED BY <1>1, <2>1 DEF ExecutedReturns
<1>2. CASE StoppingReturns
  BY <1>2 DEF StoppingReturns
<1>3. CASE HandlerReturns(TRUE)
  BY <1>3 DEF HandlerReturns, Completes
<1>4. CASE HandlerReturns(FALSE)
  BY <1>4 DEF HandlerReturns
<1> QED BY <1>1, <1>2, <1>3, <1>4 DEF CallbackReturns

LEMMA HostType == TypeOK /\ (HostCall \/ HostOperation) => TypeOK'
<1> SUFFICES ASSUME TypeOK, HostCall \/ HostOperation PROVE TypeOK'
  OBVIOUS
<1> USE DEF TypeOK, guestVars, controlVars, keyVars, callVars
<1>1. CASE CallStep
  BY <1>1 DEF CallStep
<1>2. ASSUME NEW m \in Budgets, CallRun(m) PROVE TypeOK'
  BY <1>2 DEF CallRun
<1>3. ASSUME NEW k \in Keys, QueueKeypress(k) PROVE TypeOK'
  BY <1>3 DEF QueueKeypress, Push
<1>4. CASE ClearKeyboardBuffer
  BY <1>4 DEF ClearKeyboardBuffer
<1>5. CASE Halt
  BY <1>5 DEF Halt, Halted, Announce, States
<1>6. CASE Reset
  <2>1. 0 \in Byte /\ 0 \in Addr
    BY DEF Byte, Addr
  <2>2. mem' \in [Addr -> Byte] /\ ip' \in Addr /\ ax' \in Words /\ zf' \in BOOLEAN
    BY <1>6, <2>1 DEF Reset, Words
  <2>3. state' \in States /\ told' \in States /\ exited' \in BOOLEAN
    BY <1>6 DEF Reset, Announce, States
  <2>5. err' \in Addr \union {NoError} /\ icount' \in 0 .. SizeMod - 1
    BY <1>6 DEF Reset
  <2>4. UNCHANGED <<kbd, owed, delivered, peeked, hooked, pc, call, max, count, attempts>>
    BY <1>6 DEF Reset
  <2> QED BY <2>2, <2>3, <2>4, <2>5
<1>7. ASSUME NEW p \in Programs, LoadProgram(p) PROVE TypeOK'
  <2>1. mem' \in [Addr -> Byte] /\ ip' \in Addr
    BY <1>7 DEF LoadProgram, Addr
  <2>2. state' \in States /\ told' \in States /\ exited' \in BOOLEAN
    BY <1>7 DEF LoadProgram, Announce, States
  <2>3. UNCHANGED <<ax, zf, err, icount, kbd, owed, delivered, peeked, hooked,
                    pc, call, max, count, attempts>>
    BY <1>7 DEF LoadProgram
  <2> QED BY <2>1, <2>2, <2>3
<1>8. ASSUME NEW v \in Hookable, SetHandler(v) PROVE TypeOK'
  BY <1>8 DEF SetHandler
<1>9. CASE ClearHandlers
  BY <1>9 DEF ClearHandlers
<1> QED BY <1>1, <1>2, <1>3, <1>4, <1>5, <1>6, <1>7, <1>8, <1>9 DEF HostCall, HostOperation

\* The emulator's state stays in the ranges of its C++ types.
THEOREM TypeCorrect == Spec => []TypeOK
<1>1. TypeOK /\ [Next]_vars => TypeOK'
  <2>1. TypeOK /\ UNCHANGED vars => TypeOK'
    BY DEF TypeOK, vars, guestVars, controlVars, keyVars, callVars
  <2> QED BY <2>1, InstructionType, CallbackType, HostType DEF Next
<1> QED BY <1>1, InitType, PTL DEF Spec

-------------------------------------------------------------------------------
(* The keyboard.  Five kinds of step touch it; the lemma names them, and the *)
(* keyboard theorems look at nothing else.                                   *)

KeyTaken == kbd # <<>> /\ TakeKey
KeyAnnounced == /\ kbd # <<>> /\ peeked' = Head(kbd)
                /\ UNCHANGED <<kbd, owed, delivered>>
KeyQueued == \E k \in Keys : /\ kbd' = Append(kbd, k) /\ owed' = Append(owed, k)
                             /\ UNCHANGED <<delivered, peeked>>
KeysCleared == /\ kbd' = <<>> /\ owed' = delivered /\ peeked' = NoKey
               /\ UNCHANGED delivered

LEMMA KeyboardSteps ==
  ASSUME [Next]_vars
  PROVE  UNCHANGED keyVars \/ KeyTaken \/ KeyAnnounced \/ KeyQueued \/ KeysCleared
<1> USE DEF keyVars
<1>1. CASE Instruction
  <2> USE DEF KeyTaken, KeyAnnounced
  <2>1. CASE ReadKeystroke
    BY <2>1 DEF ReadKeystroke
  <2>2. CASE CheckKeystroke
    BY <2>2 DEF CheckKeystroke
  <2>3. CASE ReadCharacter
    BY <2>3 DEF ReadCharacter
  <2> QED BY <1>1, <2>1, <2>2, <2>3
          DEF Instruction, Nop, MovAH, Jump, Hlt, Unimplemented, Invalid, EnterHandler, Exit,
              DeviceService, OtherService
<1>2. CASE CallbackReturns
  BY <1>2 DEF CallbackReturns, ExecutedReturns, StoppingReturns, HandlerReturns
<1>3. CASE HostCall
  BY <1>3 DEF HostCall, CallStep, CallRun
<1>4. CASE HostOperation
  <2>1. ASSUME NEW k \in Keys, QueueKeypress(k) PROVE KeyQueued
    BY <2>1 DEF QueueKeypress, Push, KeyQueued
  <2>2. CASE ClearKeyboardBuffer
    BY <2>2 DEF ClearKeyboardBuffer, KeysCleared
  <2> QED BY <1>4, <2>1, <2>2 DEF HostOperation, Halt, Reset, LoadProgram,
                                  SetHandler, ClearHandlers
<1>5. CASE UNCHANGED vars
  BY <1>5 DEF vars
<1> QED BY <1>1, <1>2, <1>3, <1>4, <1>5 DEF Next

\* Moving the head of a sequence to the end of the one before it keeps their
\* concatenation, which is how a read leaves owed alone.
LEMMA MoveHead ==
  ASSUME NEW S, NEW d \in Seq(S), NEW b \in Seq(S), b # <<>>
  PROVE  Append(d, Head(b)) \o Tail(b) = d \o b
<1>1. /\ Head(b) \in S /\ Tail(b) \in Seq(S) /\ Len(Tail(b)) = Len(b) - 1
      /\ \A i \in 1 .. Len(Tail(b)) : Tail(b)[i] = b[i + 1]
  BY HeadTailProperties
<1>2. Len(b) \in Nat \ {0} /\ Len(d) \in Nat
  BY EmptySeq
<1> DEFINE l == Append(d, Head(b)) \o Tail(b)
           r == d \o b
<1>3. Append(d, Head(b)) \in Seq(S) /\ Len(Append(d, Head(b))) = Len(d) + 1
  BY <1>1
<1>4. l \in Seq(S) /\ r \in Seq(S) /\ Len(l) = Len(r)
  BY <1>1, <1>2, <1>3, ConcatProperties
<1>5. ASSUME NEW i \in 1 .. Len(l) PROVE l[i] = r[i]
  <2>1. l[i] = IF i <= Len(d) + 1 THEN Append(d, Head(b))[i] ELSE Tail(b)[i - (Len(d) + 1)]
    BY <1>1, <1>2, <1>3, ConcatProperties
  <2>2. r[i] = IF i <= Len(d) THEN d[i] ELSE b[i - Len(d)]
    BY <1>1, <1>2, <1>4, ConcatProperties
  <2>3. CASE i <= Len(d)
    BY <2>1, <2>2, <2>3, <1>2
  <2>4. CASE i = Len(d) + 1
    BY <2>1, <2>2, <2>4, <1>2
  <2>5. CASE i > Len(d) + 1
    <3>1. Len(l) = Len(d) + Len(b)
      BY <1>4, ConcatProperties
    <3>2. i - (Len(d) + 1) \in 1 .. Len(Tail(b))
      BY <1>1, <1>2, <2>5, <3>1
    <3> QED BY <2>1, <2>2, <2>5, <3>2, <1>1, <1>2
  <2> QED BY <2>3, <2>4, <2>5, <1>2
<1> HIDE DEF l, r
<1>6. l = r
  BY <1>4, <1>5, SeqEqual
<1> QED BY <1>6 DEF l, r

LEMMA KeysInOrderStep == TypeOK /\ KeysInOrder /\ [Next]_vars => KeysInOrder'
<1> SUFFICES ASSUME TypeOK, KeysInOrder, [Next]_vars PROVE KeysInOrder'
  OBVIOUS
<1> USE DEF KeysInOrder
<1>0. kbd \in Seq(Keys) /\ delivered \in Seq(Keys)
  BY DEF TypeOK
<1>1. CASE UNCHANGED keyVars
  BY <1>1 DEF keyVars
<1>2. CASE KeyTaken
  BY <1>0, <1>2, MoveHead DEF KeyTaken, TakeKey
<1>3. CASE KeyAnnounced
  BY <1>3 DEF KeyAnnounced
<1>4. CASE KeyQueued
  <2>1. PICK k \in Keys : /\ kbd' = Append(kbd, k) /\ owed' = Append(owed, k)
                          /\ delivered' = delivered
    BY <1>4 DEF KeyQueued
  <2>2. Append(delivered \o kbd, k) = delivered \o Append(kbd, k)
    <3>1. /\ Append(kbd, k) = kbd \o <<k>> /\ <<k>> \in Seq(Keys)
          /\ Append(delivered \o kbd, k) = (delivered \o kbd) \o <<k>>
      BY <1>0
    <3> QED BY <1>0, <3>1, ConcatAssociative
  <2> QED BY <2>1, <2>2
<1>5. CASE KeysCleared
  BY <1>0, <1>5, ConcatEmptySeq DEF KeysCleared
<1> QED BY <1>1, <1>2, <1>3, <1>4, <1>5, KeyboardSteps

\* For any set of keys, any programs and any interleaving of host operations
\* with the guest, no key is lost, repeated or reordered.
THEOREM KeysStayInOrder == Spec => []KeysInOrder
<1>1. Init => KeysInOrder
  BY ConcatEmptySeq, EmptySeq DEF Init, KeysInOrder
<1> QED BY <1>1, TypeCorrect, KeysInOrderStep, PTL DEF Spec

\* A key INT 16h/01h announced stays the next key to be read until it is.
THEOREM PeekKeepsItsPromise == Spec => []PeekIsPromise
<1>1. Init => PeekIsPromise
  BY DEF Init, PeekIsPromise
<1>2. TypeOK /\ PeekIsPromise /\ [Next]_vars => PeekIsPromise'
  <2> SUFFICES ASSUME TypeOK, PeekIsPromise, [Next]_vars PROVE PeekIsPromise'
    OBVIOUS
  <2> USE DEF PeekIsPromise
  <2>1. CASE UNCHANGED keyVars
    BY <2>1 DEF keyVars
  <2>2. CASE KeyTaken
    BY <2>2 DEF KeyTaken, TakeKey
  <2>3. CASE KeyAnnounced
    BY <2>3 DEF KeyAnnounced
  <2>4. CASE KeyQueued
    <3>1. PICK k \in Keys : kbd' = Append(kbd, k) /\ peeked' = peeked
      BY <2>4 DEF KeyQueued
    <3>2. kbd \in Seq(Keys)
      BY DEF TypeOK
    <3> QED BY <3>1, <3>2
  <2>5. CASE KeysCleared
    BY <2>5 DEF KeysCleared
  <2> QED BY <2>1, <2>2, <2>3, <2>4, <2>5, KeyboardSteps
<1> QED BY <1>1, <1>2, TypeCorrect, PTL DEF Spec

\* The keyboard buffer with its readers implements module KeyQueue: taking the
\* head of the buffer is receiving the oldest key not yet received.
THEOREM KeyboardRefinement == Spec => KeyboardImplemented
<1>1. Init => KQ!Init
  BY DEF Init, KQ!Init
<1>2. TypeOK /\ KeysInOrder /\ [Next]_vars => [KQ!Next]_(KQ!keyVars)
  <2> SUFFICES ASSUME TypeOK, KeysInOrder, [Next]_vars PROVE [KQ!Next]_(KQ!keyVars)
    OBVIOUS
  <2> USE DEF KQ!Next, KQ!keyVars
  <2>0. kbd \in Seq(Keys) /\ delivered \in Seq(Keys)
    BY DEF TypeOK
  <2>1. CASE UNCHANGED keyVars
    BY <2>1 DEF keyVars
  <2>2. CASE KeyTaken
    <3>1. /\ Len(delivered) \in Nat /\ Len(kbd) \in Nat \ {0}
          /\ owed = delivered \o kbd
      BY <2>0, <2>2, EmptySeq, LenProperties DEF KeyTaken, KeysInOrder
    <3>2. Len(delivered) < Len(owed) /\ owed[Len(delivered) + 1] = kbd[1]
      BY <2>0, <3>1, ConcatProperties
    <3>3. KQ!Receive
      BY <2>0, <2>2, <3>2 DEF KQ!Receive, KeyTaken, TakeKey
    <3> QED BY <3>3
  <2>3. CASE KeyAnnounced
    BY <2>3 DEF KeyAnnounced
  <2>4. CASE KeyQueued
    BY <2>4 DEF KeyQueued, KQ!Press
  <2>5. CASE KeysCleared
    BY <2>5 DEF KeysCleared, KQ!Discard
  <2> QED BY <2>1, <2>2, <2>3, <2>4, <2>5, KeyboardSteps
<1> QED BY <1>1, <1>2, TypeCorrect, KeysStayInOrder, PTL
        DEF Spec, KeyboardImplemented, KQ!Spec

-------------------------------------------------------------------------------
(* Control.  ExecutesOnlyWhenRunning is the invariant the others need: an    *)
(* instruction starts in state RUNNING, so what the host was told is still   *)
(* true, and no instruction moves IP away from where an error left it.       *)

\* What a return from step() does to pc: back to the loop only when ok.
LEMMA StepReturnsPc ==
  ASSUME NEW ok \in BOOLEAN, StepReturns(ok)
  PROVE  pc' = "host" \/ (pc' = "exec" /\ ok)
  BY DEF StepReturns

ControlInv == ExecutesOnlyWhenRunning /\ ToldTruth /\ ErrorIsExplained

LEMMA ControlInstruction == TypeOK /\ ControlInv /\ Instruction => ControlInv'
<1> SUFFICES ASSUME TypeOK, ControlInv, Instruction PROVE ControlInv'
  OBVIOUS
<1> USE DEF ControlInv, ExecutesOnlyWhenRunning, ToldTruth, ErrorIsExplained, controlVars
<1>0. state = "RUNNING"
  BY DEF Instruction, Nop, MovAH, Jump, Hlt, Unimplemented, Invalid, EnterHandler, ReadKeystroke,
         CheckKeystroke, ReadCharacter, Exit, DeviceService, OtherService, Service,
         Interrupt, Executing
<1> USE <1>0
<1>1. CASE Nop
  BY <1>1 DEF Nop, Completes
<1>2. CASE MovAH
  BY <1>2 DEF MovAH, Completes
<1>3. CASE Jump
  BY <1>3 DEF Jump, Completes
<1>4. CASE Hlt
  BY <1>4 DEF Hlt, Halted, Announce
<1>5. CASE Unimplemented
  BY <1>5 DEF Unimplemented, Failed, Announce
<1>12. CASE Invalid
  BY <1>12 DEF Invalid, Failed, Announce
<1>6. CASE EnterHandler
  BY <1>6 DEF EnterHandler
<1>7. CASE ReadKeystroke
  BY <1>7 DEF ReadKeystroke, Completes
<1>8. CASE CheckKeystroke
  BY <1>8 DEF CheckKeystroke, Completes
<1>9. CASE ReadCharacter
  BY <1>9 DEF ReadCharacter, Completes
<1>10. CASE Exit
  BY <1>10, StepReturnsPc DEF Exit
<1>11. CASE OtherService
  BY <1>11 DEF OtherService, Completes
<1>13. CASE DeviceService
  BY <1>13 DEF DeviceService, Completes
<1> QED BY <1>1, <1>2, <1>3, <1>4, <1>5, <1>6, <1>7, <1>8, <1>9, <1>10, <1>11, <1>12, <1>13
        DEF Instruction

LEMMA ControlRest ==
  ControlInv /\ (CallbackReturns \/ HostCall \/ HostOperation \/ UNCHANGED vars)
    => ControlInv'
<1> SUFFICES ASSUME ControlInv,
                    CallbackReturns \/ HostCall \/ HostOperation \/ UNCHANGED vars
             PROVE  ControlInv'
  OBVIOUS
<1> USE DEF ControlInv, ExecutesOnlyWhenRunning, ToldTruth, ErrorIsExplained,
            controlVars, guestVars, callVars
<1>1. CASE ExecutedReturns
  <2>1. (state = "RUNNING") \in BOOLEAN
    OBVIOUS
  <2> QED BY <1>1, <2>1, StepReturnsPc DEF ExecutedReturns
<1>2. CASE StoppingReturns
  BY <1>2, StepReturnsPc DEF StoppingReturns
<1>3. CASE HandlerReturns(TRUE)
  BY <1>3 DEF HandlerReturns, Completes
<1>4. CASE HandlerReturns(FALSE)
  BY <1>4, StepReturnsPc DEF HandlerReturns
<1>5. CASE HostCall
  BY <1>5 DEF HostCall, CallStep, CallRun
<1>6. CASE Halt
  BY <1>6 DEF Halt, Halted, Announce, HostInControl
<1>7. CASE Reset
  BY <1>7 DEF Reset, Announce, HostInControl
<1>8. ASSUME NEW p \in Programs, LoadProgram(p) PROVE ControlInv'
  BY <1>8 DEF LoadProgram, Announce, HostInControl
<1>9. CASE HostOperation
  BY <1>6, <1>7, <1>8, <1>9
     DEF HostOperation, QueueKeypress, ClearKeyboardBuffer, SetHandler, ClearHandlers
<1>10. CASE UNCHANGED vars
  BY <1>10 DEF vars
<1> QED BY <1>1, <1>2, <1>3, <1>4, <1>5, <1>9, <1>10 DEF CallbackReturns

LEMMA ControlAlways == Spec => []ControlInv
<1>1. Init => ControlInv
  BY DEF Init, ControlInv, ExecutesOnlyWhenRunning, ToldTruth, ErrorIsExplained
<1>2. TypeOK /\ ControlInv /\ [Next]_vars => ControlInv'
  BY ControlInstruction, ControlRest DEF Next
<1> QED BY <1>1, <1>2, TypeCorrect, PTL DEF Spec

\* No instruction starts on a machine that is not RUNNING, whatever the
\* callbacks of the previous one did to it.
THEOREM OnlyRunningExecutes == Spec => []ExecutesOnlyWhenRunning
  BY ControlAlways, PTL DEF ControlInv

\* The host's picture of the state is right unless INT 21h/4Ch was the last to
\* set it: no HLT, error, halt() or reset() goes unreported.
THEOREM HostIsTold == Spec => []ToldTruth
  BY ControlAlways, PTL DEF ControlInv

\* In state ERROR the message is that of the error that left IP where it is.
THEOREM ErrorsAreExplained == Spec => []ErrorIsExplained
  BY ControlAlways, PTL DEF ControlInv

-------------------------------------------------------------------------------
(* The accounts of run(): how many instructions it started and counted at    *)
(* every point where control can be.                                         *)

RunInv ==
    /\ pc = "host" <=> call = "none"
    /\ call = "run" => (max > 0 => count < max)
    /\ call = "run" /\ pc = "exec" => attempts = count
    /\ call = "run" /\ pc # "exec" => attempts = Inc(count)
    /\ call # "run" => RunCountLag /\ RunWithinBudget

\* Below the budget of a run() the loop counter does not wrap.
LEMMA IncBelowBudget ==
  ASSUME TypeOK, max > 0, count < max
  PROVE  Inc(count) = count + 1
<1>1. count + 1 \in 0 .. SizeMod - 1
  BY DEF TypeOK
<1> QED BY <1>1 DEF Inc

\* step() returns after its instruction was started and before it is counted.
LEMMA RunStepReturns ==
  ASSUME TypeOK, NEW ok \in BOOLEAN, StepReturns(ok),
         call # "none", call = "run" => (max > 0 => count < max),
         call = "run" => attempts' = Inc(count),
         call # "run" => attempts' = attempts /\ RunCountLag /\ RunWithinBudget
  PROVE  RunInv'
<1>1. max \in 0 .. SizeMod - 1 /\ count \in 0 .. SizeMod - 1
  BY DEF TypeOK
<1>2. max' = max
  BY DEF StepReturns
<1>3. CASE call # "run"
  BY <1>2, <1>3 DEF StepReturns, RunInv, RunCountLag, EndedByLimit, RunWithinBudget
<1>4. CASE call = "run" /\ ~ok
  <2>1. pc' = "host" /\ call' = "none" /\ count' = count /\ attempts' = Inc(count)
    BY <1>4 DEF StepReturns
  <2>2. ~(max > 0 /\ count = max)
    BY <1>1, <1>4
  <2>3. max > 0 => Inc(count) <= max
    BY <1>1, <1>4, IncBelowBudget
  <2> QED BY <1>2, <2>1, <2>2, <2>3 DEF RunInv, RunCountLag, EndedByLimit, RunWithinBudget
<1>5. CASE call = "run" /\ ok
  <2>1. count' = Inc(count) /\ attempts' = count'
    BY <1>5 DEF StepReturns
  <2>2. max > 0 => count' <= max
    BY <1>1, <1>5, <2>1, IncBelowBudget
  <2>3. CASE max = 0 \/ count' < max
    BY <1>1, <1>2, <1>5, <2>1, <2>3 DEF StepReturns, RunInv
  <2>4. CASE ~(max = 0 \/ count' < max)
    <3>1. pc' = "host" /\ call' = "none"
      BY <1>5, <2>1, <2>4 DEF StepReturns
    <3>2. count' \in Int /\ count' = max' /\ max' > 0
      BY <1>1, <1>2, <2>1, <2>2, <2>4 DEF Inc
    <3> QED BY <2>1, <3>1, <3>2 DEF RunInv, RunCountLag, EndedByLimit, RunWithinBudget
  <2> QED BY <2>3, <2>4
<1> QED BY <1>3, <1>4, <1>5

LEMMA RunInvStep == TypeOK /\ RunInv /\ [Next]_vars => RunInv'
<1> SUFFICES ASSUME TypeOK, RunInv, [Next]_vars PROVE RunInv'
  OBVIOUS
<1>1. CASE Instruction /\ pc' # "host"
  <2>1. /\ pc = "exec" /\ pc' # "exec" /\ UNCHANGED <<call, max, count>>
        /\ attempts' = IF call = "run" THEN Inc(attempts) ELSE attempts
    BY <1>1 DEF Instruction, Nop, MovAH, Jump, Hlt, Unimplemented, Invalid, EnterHandler,
       ReadKeystroke, CheckKeystroke, ReadCharacter, Exit, DeviceService, OtherService, Service,
       Interrupt, Executing, Completes, StepReturns
  <2> QED BY <1>1, <2>1 DEF RunInv, RunCountLag, EndedByLimit, RunWithinBudget
<1>2. CASE Instruction /\ pc' = "host"
  <2>1. Exit
    BY <1>2 DEF Instruction, Nop, MovAH, Jump, Hlt, Unimplemented, Invalid, EnterHandler,
       ReadKeystroke, CheckKeystroke, ReadCharacter, DeviceService, OtherService, Completes
  <2>2. /\ pc = "exec" /\ StepReturns(FALSE)
        /\ attempts' = IF call = "run" THEN Inc(attempts) ELSE attempts
    BY <2>1 DEF Exit, Service, Interrupt, Executing
  <2> QED BY <2>2, RunStepReturns DEF RunInv
<1>3. CASE CallbackReturns
  <2>1. CASE HandlerReturns(TRUE)
    BY <2>1 DEF HandlerReturns, Completes, RunInv, RunCountLag, EndedByLimit, RunWithinBudget
  <2>2. CASE ~HandlerReturns(TRUE)
    <3>1. PICK ok \in BOOLEAN : /\ StepReturns(ok) /\ attempts' = attempts
                                /\ pc \in {"executed", "stopping", "handler"}
      <4>1. (state = "RUNNING") \in BOOLEAN
        OBVIOUS
      <4> QED BY <1>3, <2>2, <4>1
              DEF CallbackReturns, ExecutedReturns, StoppingReturns, HandlerReturns
    <3> QED BY <3>1, RunStepReturns DEF RunInv
  <2> QED BY <2>1, <2>2
<1>4. CASE CallStep
  BY <1>4 DEF CallStep, RunInv, RunCountLag, EndedByLimit, RunWithinBudget
<1>5. ASSUME NEW m \in Budgets, CallRun(m) PROVE RunInv'
  BY <1>5 DEF CallRun, RunInv
<1>6. CASE HostOperation \/ UNCHANGED vars
  <2>1. UNCHANGED callVars
    BY <1>6 DEF vars, HostOperation, QueueKeypress, ClearKeyboardBuffer, Halt, Reset,
                LoadProgram, SetHandler, ClearHandlers
  <2> QED BY <2>1 DEF callVars, RunInv, RunCountLag, EndedByLimit, RunWithinBudget
<1> QED BY <1>1, <1>2, <1>3, <1>4, <1>5, <1>6 DEF Next, HostCall

LEMMA RunAlways == Spec => []RunInv
<1>1. Init => RunInv
  BY DEF Init, RunInv, RunCountLag, EndedByLimit, RunWithinBudget
<1> QED BY <1>1, RunInvStep, TypeCorrect, PTL DEF Spec

\* run(n) starts at most n instructions, for every n that fits size_t.
THEOREM RunKeepsBudget == Spec => []RunWithinBudget
<1>1. TypeOK /\ RunInv => RunWithinBudget
  <2> SUFFICES ASSUME TypeOK, RunInv, max > 0 PROVE attempts <= max
    BY DEF RunWithinBudget
  <2>1. max \in 0 .. SizeMod - 1 /\ count \in 0 .. SizeMod - 1
    BY DEF TypeOK
  <2>2. CASE call = "run"
    BY <2>1, <2>2, IncBelowBudget DEF RunInv
  <2>3. CASE call # "run"
    BY <2>3 DEF RunInv, RunWithinBudget
  <2> QED BY <2>2, <2>3
<1> QED BY <1>1, RunAlways, TypeCorrect, PTL

\* A run() that ended by its limit returns the number of instructions it
\* started, every other one that number less one.
THEOREM RunCountsAllButTheLast == Spec => []RunCountLag
<1>1. RunInv => RunCountLag
  BY DEF RunInv, RunCountLag, EndedByLimit
<1> QED BY <1>1, RunAlways, PTL

-------------------------------------------------------------------------------
(* The way of run() to its return.  Until step() returns, an instruction goes *)
(* from exec to a callback or through a handler to a callback; what is counted *)
(* when step() returns is worth more than going back to exec.                  *)

\* Steps of an instruction that stays in its call.
LEMMA InstructionPc ==
  ASSUME Instruction
  PROVE  /\ pc = "exec"
         /\ \/ /\ pc' \in {"handler", "executed", "stopping"}
               /\ UNCHANGED <<call, max, count>>
            \/ StepReturns(FALSE)
  BY DEF Instruction, Nop, MovAH, Jump, Hlt, Unimplemented, Invalid, EnterHandler,
     ReadKeystroke, CheckKeystroke, ReadCharacter, Exit, DeviceService, OtherService, Service,
     Interrupt, Executing, Completes

\* Steps of a callback that returns.
LEMMA CallbackPc ==
  ASSUME CallbackReturns
  PROVE  /\ pc \in {"handler", "executed", "stopping"}
         /\ \/ /\ pc = "handler" /\ pc' = "executed"
               /\ UNCHANGED <<call, max, count>>
            \/ StepReturns(FALSE)
            \/ pc = "executed" /\ StepReturns(TRUE)
<1>1. ASSUME NEW ok \in BOOLEAN, HandlerReturns(ok)
      PROVE  /\ pc = "handler"
             /\ \/ pc' = "executed" /\ UNCHANGED <<call, max, count>>
                \/ StepReturns(FALSE)
  BY <1>1 DEF HandlerReturns, Completes
<1>2. CASE ExecutedReturns /\ state = "RUNNING"
  BY <1>2 DEF ExecutedReturns
<1>3. CASE ExecutedReturns /\ state # "RUNNING"
  BY <1>3 DEF ExecutedReturns
<1>4. CASE StoppingReturns
  BY <1>4 DEF StoppingReturns
<1> QED BY <1>1, <1>2, <1>3, <1>4 DEF CallbackReturns

\* A step of the host is none of the emulator's: it is a call, or leaves the
\* call in progress alone.
LEMMA HostKeepsCall == HostOperation => UNCHANGED callVars
  BY DEF HostOperation, QueueKeypress, ClearKeyboardBuffer, Halt, Reset,
         LoadProgram, SetHandler, ClearHandlers

\* Every step of the emulator takes at least one from the steps that a run() with
\* a budget has left, for every budget; the host's calls put none back.
THEOREM RunRunsDown == Spec => RunGetsShorter
<1> DEFINE Shorter == call = "run" /\ max > 0 =>
               IF HostOperation THEN StepsLeft' = StepsLeft
               ELSE call' = "none" \/ (0 < StepsLeft' /\ StepsLeft' < StepsLeft)
<1>1. TypeOK /\ TypeOK' /\ RunInv /\ [Next]_vars => [Shorter]_vars
  <2> SUFFICES ASSUME TypeOK, TypeOK', RunInv, Next, call = "run", max > 0
               PROVE  IF HostOperation THEN StepsLeft' = StepsLeft
                      ELSE call' = "none" \/ (0 < StepsLeft' /\ StepsLeft' < StepsLeft)
    OBVIOUS
  <2>0. max \in Int /\ count \in Int /\ max' \in Int /\ count' \in Int /\ count < max
    BY DEF TypeOK, RunInv
  <2>1. CASE HostOperation
    BY <2>1, HostKeepsCall DEF callVars, StepsLeft
  <2>2. pc # "host"
    BY DEF RunInv
  <2>3. CASE UNCHANGED <<call, max, count>> /\ pc = "exec"
             /\ pc' \in {"handler", "executed", "stopping"}
    BY <2>0, <2>3, HostKeepsCall DEF StepsLeft, callVars
  <2>4. CASE UNCHANGED <<call, max, count>> /\ pc = "handler" /\ pc' = "executed"
    BY <2>0, <2>4, HostKeepsCall DEF StepsLeft, callVars
  <2>5. CASE StepReturns(FALSE)
    <3>1. call' = "none"
      BY <2>5 DEF StepReturns
    <3> QED BY <3>1, HostKeepsCall DEF callVars
  <2>6. CASE pc = "executed" /\ StepReturns(TRUE)
    <3>1. count' = count + 1 /\ max' = max
      BY <2>0, <2>6, IncBelowBudget DEF StepReturns
    <3>2. call' = "none" \/ (pc' = "exec" /\ count' < max)
      BY <2>6, <3>1 DEF StepReturns
    <3>3. StepsLeft = 4 * (max - count) - 2
      BY <2>6 DEF StepsLeft
    <3>4. CASE pc' = "exec" /\ count' < max
      <4>1. StepsLeft' = 4 * (max' - count')
        BY <2>0, <3>4 DEF StepsLeft
      <4>2. 0 < StepsLeft' /\ StepsLeft' < StepsLeft
        BY <2>0, <3>1, <3>3, <3>4, <4>1
      <4> QED BY <4>2, <2>6, <3>4, HostKeepsCall DEF callVars
    <3> QED BY <2>6, <3>1, <3>2, <3>4, HostKeepsCall, <2>0 DEF callVars
  <2>7. CASE Instruction
    BY <2>3, <2>5, <2>7, InstructionPc
  <2>8. CASE CallbackReturns
    BY <2>4, <2>5, <2>6, <2>8, CallbackPc
  <2>9. ~HostCall
    BY <2>2 DEF HostCall, CallStep, CallRun
  <2> QED BY <2>1, <2>7, <2>8, <2>9 DEF Next
<1> QED BY <1>1, TypeCorrect, RunAlways, PTL DEF Spec, RunGetsShorter

-------------------------------------------------------------------------------
(* The blocking read.  Stepping IP back by the length of the INT must undo   *)
(* the two increments, also when the instruction lies across the end of the  *)
(* code segment.                                                             *)

LEMMA WrapIsModular ==
  ASSUME NEW a \in Addr
  PROVE  Wrap(a) = a /\ Wrap(a - CodeSize) = a
  BY DEF Wrap, Addr

LEMMA BackTwo == ASSUME NEW a \in Addr PROVE Wrap(Wrap(a + 2) - 2) = a
<1>0. a \in Int /\ CodeSize \in Int
  BY DEF Addr
<1>1. CASE CodeSize = 1
  BY <1>1 DEF Wrap, Addr
<1>2. CASE a + 2 < CodeSize
  <2>1. Wrap(a + 2) = a + 2
    BY <1>0, <1>2, WrapIsModular DEF Addr
  <2> QED BY <1>0, <2>1, WrapIsModular
<1>3. CASE CodeSize > 1 /\ a + 2 >= CodeSize
  <2>1. a + 2 - CodeSize \in Addr
    BY <1>3 DEF Addr
  <2>2. Wrap(a + 2) = a + 2 - CodeSize
    BY <1>0, <2>1 DEF Wrap, Addr
  <2> QED BY <1>0, <2>2, WrapIsModular
<1> QED BY <1>0, <1>1, <1>2, <1>3

LEMMA AgainIsTheInt == TypeOK => Again = OpcodeAt
  BY FetchType, BackTwo DEF Again, After2

\* A guest at INT 16h/00h leaves it only with a key: until then it finds
\* itself at the same INT with the same AX, at any address and behind any prefix.
THEOREM BlockingReadWaits == Spec => ReadWaits
<1> DEFINE Waits == AtBlockingRead /\ pc' # "exec" =>
               IF delivered' = delivered
               THEN mem[ip'] = INT /\ mem[Wrap(ip' + 1)] = KEYBOARD /\ ax' = ax
               ELSE ax' = Head(kbd) /\ kbd' = Tail(kbd)
<1>1. TypeOK /\ [Next]_vars => [Waits]_vars
  <2> SUFFICES ASSUME TypeOK, Next, AtBlockingRead PROVE Waits
    BY DEF vars
  <2>1. ReadKeystroke
    <3>1. Instruction
      BY DEF Next, AtBlockingRead, CallbackReturns, ExecutedReturns, StoppingReturns,
             HandlerReturns, HostCall, CallStep, CallRun, HostOperation, HostInControl,
             QueueKeypress, ClearKeyboardBuffer, Halt, Reset, LoadProgram, SetHandler,
             ClearHandlers
    <3> QED BY <3>1 DEF AtBlockingRead, Instruction, Nop, MovAH, Jump, Hlt,
               Unimplemented, Invalid, NoOperation, GRP3, EnterHandler, CheckKeystroke, ReadCharacter, Exit,
               DeviceService, OtherService, Service, Interrupt, INT, HLT, MOV_AH, JMP, JZ,
               JNZ, IRET, Missing, Prefixes, KEYBOARD, DOS, VIDEO, DISK, CLOCK
  <2>2. CASE kbd # <<>>
    <3>1. delivered' # delivered
      <4>1. delivered \in Seq(Keys) /\ Head(kbd) \in Keys
        BY <2>2, HeadTailProperties DEF TypeOK
      <4>2. Len(Append(delivered, Head(kbd))) # Len(delivered)
        BY <4>1
      <4> QED BY <2>1, <2>2, <4>2 DEF ReadKeystroke, TakeKey
    <3> QED BY <2>1, <2>2, <3>1 DEF ReadKeystroke, TakeKey
  <2>3. CASE kbd = <<>>
    <3>1. ip' = OpcodeAt /\ ax' = ax /\ delivered' = delivered
      BY <2>1, <2>3, AgainIsTheInt DEF ReadKeystroke, keyVars
    <3> QED BY <3>1 DEF AtBlockingRead, Opcode, Operand
  <2> QED BY <2>2, <2>3
<1> QED BY <1>1, TypeCorrect, PTL DEF Spec, ReadWaits
===============================================================================
