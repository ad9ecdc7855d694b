------------------------------ MODULE PortsProofs ------------------------------
(***************************************************************************)
(* Theorems about module Ports, for every number of ports and every set of *)
(* bytes that the guest, the host and the user choose from.                *)
(***************************************************************************)
EXTENDS Ports, TLAPS

USE PortsAssumption, ByteAssumption

-------------------------------------------------------------------------------
(* Type correctness *)

LEMMA AtType ==
  ASSUME NEW o \in Operations
  PROVE  At(o) \in Port
  BY DEF At, Operations, Port

LEMMA NothingType == Nothing \in Operations
<1>1. 0 \in Port
  BY DEF Port
<1> QED BY <1>1 DEF Nothing, Operations

LEMMA SecondType ==
  ASSUME TypeOK
  PROVE  Second \in Operations /\ Second.port = op.port /\ Second.kind = op.kind
         /\ Second.bytes = op.bytes /\ Second.word = op.word /\ Second.half = 1
  BY DEF TypeOK, Second, Operations

\* A lookup of in() leaves every variable it writes well typed.
LEMMA InType ==
  ASSUME TypeOK, NEW o \in Operations, In(o)
  PROVE  /\ pc' \in {"idle", "asked", "told"} /\ op' \in Operations /\ value' \in Byte
         /\ asked' \subseteq Port /\ fresh' \subseteq Port
         /\ UNCHANGED <<maps, sent, stored>>
<1>1. At(o) \in Port
  BY AtType
<1>2. Hit(At(o)) => cached[At(o)] \in Byte
  BY <1>1 DEF Hit, TypeOK, Map
<1>3. Predefined(At(o)) \in Byte
  BY <1>1 DEF Predefined, TypeOK, Map
<1> QED BY <1>1, <1>2, <1>3 DEF In, Tell, Ask, TypeOK

\* out() leaves every variable it writes well typed.
LEMMA WriteType ==
  ASSUME TypeOK, NEW p \in Port, NEW v \in Byte, Write(p, v)
  PROVE  /\ cached' \in Map /\ sent' \in Map /\ fresh' \subseteq Port
         /\ UNCHANGED <<device, predefined, interactive, asked>>
  BY DEF Write, TypeOK, Map

LEMMA InitType == Init => TypeOK
<1>1. Empty \in Map
  BY DEF Empty, Map
<1> QED BY <1>1, NothingType DEF Init, TypeOK

LEMMA InstructionType == TypeOK /\ Instruction => TypeOK'
<1> SUFFICES ASSUME TypeOK, Instruction PROVE TypeOK'
  OBVIOUS
<1>1. ASSUME NEW p \in Port, NEW word \in BOOLEAN, NEW kind \in {"in", "host"},
             StartIn(kind, word, p)
      PROVE  TypeOK'
  <2> DEFINE o == [kind |-> kind, word |-> word, port |-> p, half |-> 0, bytes |-> <<0, 0>>]
  <2>1. o \in Operations
    BY DEF Operations
  <2>2. In(o)
    BY <1>1 DEF StartIn
  <2> HIDE DEF o
  <2> QED BY <1>1, <2>1, <2>2, InType DEF StartIn, TypeOK, maps
<1>2. ASSUME NEW p \in Port, NEW word \in BOOLEAN, NEW bytes \in Sent \X Sent,
             StartOut(word, p, bytes)
      PROVE  TypeOK'
  <2> DEFINE o == [kind |-> "out", word |-> word, port |-> p, half |-> 0, bytes |-> bytes]
  <2>1. o \in Operations /\ bytes[1] \in Byte /\ bytes \in Byte \X Byte
    BY DEF Operations
  <2>2. Tell(o, bytes[1]) /\ Write(p, bytes[1]) /\ Spoil({p})
    BY <1>2 DEF StartOut
  <2> HIDE DEF o
  <2> QED BY <1>2, <2>1, <2>2, WriteType DEF StartOut, Tell, Spoil, TypeOK
<1>3. CASE ReadOn
  <2>1. In(Second)
    BY <1>3 DEF ReadOn
  <2> QED BY <1>3, <2>1, InType, SecondType DEF ReadOn, TypeOK, maps
<1>4. CASE WriteOn
  <2>1. At(Second) \in Port /\ op.bytes[2] \in Byte /\ op.port \in Port
        /\ op.bytes \in Byte \X Byte
    BY SecondType, AtType DEF TypeOK, Operations
  <2>2. Write(At(Second), op.bytes[2]) /\ Tell(Second, op.bytes[2])
    BY <1>4 DEF WriteOn
  <2>3. stored' \subseteq [port : Port, bytes : Byte \X Byte]
    BY <1>4, <2>1 DEF WriteOn
  <2> QED BY <1>4, <2>1, <2>2, <2>3, WriteType, SecondType DEF WriteOn, Tell, TypeOK
<1>5. CASE Finish
  <2>1. ax' \in Byte \X Byte
    BY <1>5 DEF Finish, WordOf, TypeOK
  <2> QED BY <1>5, <2>1, NothingType DEF Finish, TypeOK, maps, history
<1> QED BY <1>1, <1>2, <1>3, <1>4, <1>5 DEF Instruction

LEMMA HostType == TypeOK /\ Host => TypeOK'
<1> SUFFICES ASSUME TypeOK, Host PROVE TypeOK'
  OBVIOUS
<1>1. ASSUME NEW v \in Answers, Answer(v) PROVE TypeOK'
  <2>1. At(op) \in Port /\ op \in Operations
    BY AtType DEF TypeOK
  <2> QED BY <1>1, <2>1 DEF Answer, Kept, Tell, Spoil, TypeOK, Map
<1>2. ASSUME NEW p \in Port, StartIn("host", FALSE, p) PROVE TypeOK'
  <2> DEFINE o == [kind |-> "host", word |-> FALSE, port |-> p, half |-> 0, bytes |-> <<0, 0>>]
  <2>1. o \in Operations
    BY DEF Operations
  <2>2. In(o)
    BY <1>2 DEF StartIn
  <2> HIDE DEF o
  <2> QED BY <1>2, <2>1, <2>2, InType DEF StartIn, TypeOK, maps
<1>3. CASE ClearCachedValues \/ Clear \/ Reset
  <2>1. Empty \in Map
    BY DEF Empty, Map
  <2> QED BY <1>3, <2>1 DEF ClearCachedValues, Clear, Reset, Forget, TypeOK, access
<1>4. ASSUME NEW p \in Port, NEW v \in Defaults, SetDefaultPortValue(p, v) PROVE TypeOK'
  BY <1>4 DEF SetDefaultPortValue, TypeOK, Map, access, history
<1>5. ASSUME NEW b \in BOOLEAN, SetInteractiveMode(b) PROVE TypeOK'
  BY <1>5 DEF SetInteractiveMode, TypeOK, access, history
<1>6. ASSUME NEW ps \in Ranges, RegisterDevice(ps) \/ UnregisterDevice(ps) PROVE TypeOK'
  <2>1. ps \subseteq Port
    BY DEF Ranges
  <2> QED BY <1>6, <2>1 DEF RegisterDevice, UnregisterDevice, Spoil, TypeOK, access, history
<1>7. ASSUME NEW p \in Port, NEW v \in Sent, HostOut(p, v) PROVE TypeOK'
  BY <1>7, WriteType DEF HostOut, Spoil, TypeOK, access
<1> QED BY <1>1, <1>2, <1>3, <1>4, <1>5, <1>6, <1>7 DEF Host

\* Every port map, register and history variable keeps its type.
THEOREM PortsTypeCorrect == Spec => []TypeOK
<1>1. TypeOK /\ [Next]_vars => TypeOK'
  <2>1. TypeOK /\ UNCHANGED vars => TypeOK'
    BY DEF TypeOK, vars, maps, access, history
  <2> QED BY <2>1, InstructionType, HostType DEF Next
<1> QED BY <1>1, InitType, PTL DEF Spec

-------------------------------------------------------------------------------
(* The inductive invariant *)

After(p) == (p + 1) % PORTS

\* The cache is the history of what each port was sent.
Held == sent = cached

\* A port the user was asked for is cached, unless he is being asked just now.
AskedKept == \A p \in asked : cached[p] # None \/ (pc = "asked" /\ At(op) = p)

\* Both ports of a stored word hold it and have no device.
StoredHeld == \A w \in stored :
                 /\ cached[w.port] = w.bytes[1] /\ w.port \notin device
                 /\ cached[After(w.port)] = w.bytes[2] /\ After(w.port) \notin device

\* A word being read from where a word is stored has the bytes of that word so
\* far, and the user is not asked for them.
ReadingStored ==
    \A w \in stored :
       /\ pc = "asked" => At(op) \notin {w.port, After(w.port)}
       /\ pc = "told" /\ op.kind = "in" /\ w.port = op.port
             => IF op.half = 0 THEN value = w.bytes[1]
                               ELSE low = w.bytes[1] /\ value = w.bytes[2]
       /\ pc = "asked" /\ w.port = op.port /\ op.half = 1 => low = w.bytes[1]

IInv == TypeOK /\ Held /\ AskedKept /\ StoredHeld /\ ReadingStored

\* The two halves of an operation are at two different ports.
LEMMA Halves ==
  ASSUME NEW o \in Operations
  PROVE  /\ o.half = 0 => At(o) = o.port
         /\ o.half = 1 => At(o) = After(o.port)
         /\ After(o.port) \in Port /\ After(o.port) # o.port
<1>1. o.port \in Port /\ o.port \in Nat
  BY DEF Operations, Port
<1>2. o.port < PORTS - 1 => After(o.port) = o.port + 1
  BY <1>1 DEF After, Port
<1>3. o.port = PORTS - 1 => After(o.port) = 0
  BY <1>1 DEF After, Port
<1>4. o.port % PORTS = o.port
  BY <1>1 DEF Port
<1>5. After(o.port) \in Port /\ After(o.port) # o.port
  <2>1. CASE o.port < PORTS - 1
    BY <1>1, <1>2, <2>1 DEF Port
  <2>2. CASE o.port = PORTS - 1
    BY <1>1, <1>3, <2>2 DEF Port
  <2> QED BY <1>1, <2>1, <2>2 DEF Port
<1>6. o.half = 0 => At(o) = o.port % PORTS
  BY <1>1 DEF At
<1> QED BY <1>4, <1>5, <1>6 DEF At, After

LEMMA StoredPorts ==
  ASSUME TypeOK, NEW w \in stored
  PROVE  w.port \in Port /\ After(w.port) \in Port /\ After(w.port) # w.port
         /\ w.bytes[1] \in Byte /\ w.bytes[2] \in Byte
<1>1. w \in [port : Port, bytes : Byte \X Byte]
  BY DEF TypeOK
<1> DEFINE o == [kind |-> "in", word |-> TRUE, port |-> w.port, half |-> 0, bytes |-> w.bytes]
<1>2. o \in Operations
  BY <1>1 DEF Operations
<1>3. o.port = w.port
  OBVIOUS
<1> HIDE DEF o
<1> QED BY <1>1, <1>2, <1>3, Halves

\* None is no byte.
LEMMA NoneIsNoByte == None \notin Byte
  BY DEF None

\* What a lookup leaves behind: the question only for a port that holds
\* nothing, and the cached byte whenever there is one.
LEMMA InFinds ==
  ASSUME NEW o, In(o)
  PROVE  /\ pc' = "asked" => cached[At(o)] = None /\ At(o) \notin device
                            /\ asked' = asked \union {At(o)}
         /\ pc' # "asked" => asked' = asked
         /\ cached[At(o)] # None /\ At(o) \notin device
               => pc' = "told" /\ value' = cached[At(o)]
         /\ op' = o /\ pc' \in {"asked", "told"}
         /\ UNCHANGED <<device, cached, sent, stored>>
  BY DEF In, Tell, Ask, Hit, maps

\* The kinds of steps, as far as the invariant goes.
LookStep == \E o \in Operations :
               /\ In(o)
               /\ \/ pc = "idle" /\ o.half = 0 /\ UNCHANGED low
                  \/ pc = "told" /\ op.kind = "in" /\ More /\ o = Second /\ low' = value
WriteStep == \E p \in Port, v \in Byte :
                /\ Write(p, v)
                /\ \/ Spoil({p}) /\ UNCHANGED <<op, value, low, pc>>
                   \/ Spoil({p}) /\ pc' = "told" /\ op'.kind = "out" /\ pc = "idle"
HostStep == /\ UNCHANGED <<cached, sent, asked, access>>
            /\ \/ UNCHANGED stored /\ device' \subseteq device
               \/ \E ps \in SUBSET Port : Spoil(ps) /\ device' = device \union ps
ForgetStep == Forget /\ device' \subseteq device /\ UNCHANGED access
EndStep == Finish
KeepStep == UNCHANGED vars

LEMMA Steps ==
  ASSUME TypeOK, [Next]_vars
  PROVE  \/ LookStep \/ WriteStep \/ HostStep \/ ForgetStep \/ EndStep \/ KeepStep
         \/ WriteOn \/ \E v \in Answers : Answer(v)
<1>1. ASSUME NEW p \in Port, NEW word \in BOOLEAN, NEW kind \in {"in", "host"},
             StartIn(kind, word, p)
      PROVE  LookStep
  <2> DEFINE o == [kind |-> kind, word |-> word, port |-> p, half |-> 0, bytes |-> <<0, 0>>]
  <2>1. o \in Operations /\ o.half = 0
    BY DEF Operations
  <2>2. In(o) /\ pc = "idle" /\ UNCHANGED low
    BY <1>1 DEF StartIn
  <2> HIDE DEF o
  <2> QED BY <2>1, <2>2 DEF LookStep
<1>2. ASSUME NEW p \in Port, NEW word \in BOOLEAN, NEW bytes \in Sent \X Sent,
             StartOut(word, p, bytes)
      PROVE  WriteStep
  <2>1. bytes[1] \in Byte
    OBVIOUS
  <2>2. Write(p, bytes[1]) /\ Spoil({p}) /\ pc' = "told" /\ op'.kind = "out" /\ pc = "idle"
    BY <1>2 DEF StartOut, Tell
  <2> QED BY <2>1, <2>2 DEF WriteStep
<1>3. ASSUME ReadOn PROVE LookStep
  <2>1. Second \in Operations /\ In(Second) /\ pc = "told" /\ op.kind = "in" /\ More
        /\ low' = value
    BY <1>3, SecondType DEF ReadOn
  <2> QED BY <2>1 DEF LookStep
<1>4. ClearCachedValues \/ Clear \/ Reset => ForgetStep
  BY DEF ClearCachedValues, Clear, Reset, ForgetStep
<1>5. ASSUME NEW ps \in Ranges, RegisterDevice(ps) \/ UnregisterDevice(ps) PROVE HostStep
  <2>1. ps \in SUBSET Port
    BY DEF Ranges
  <2> QED BY <1>5, <2>1 DEF RegisterDevice, UnregisterDevice, HostStep, access, history
<1>6. ASSUME NEW p \in Port, NEW v \in Sent, HostOut(p, v) PROVE WriteStep
  <2>1. v \in Byte /\ Write(p, v) /\ Spoil({p}) /\ UNCHANGED <<op, value, low, pc>>
    BY <1>6 DEF HostOut, access
  <2> QED BY <2>1 DEF WriteStep
<1>7. ASSUME \/ \E p \in Port, v \in Defaults : SetDefaultPortValue(p, v)
             \/ \E b \in BOOLEAN : SetInteractiveMode(b)
      PROVE  HostStep
  BY <1>7 DEF SetDefaultPortValue, SetInteractiveMode, HostStep, access, history
<1> QED BY <1>1, <1>2, <1>3, <1>4, <1>5, <1>6, <1>7
        DEF Next, Instruction, Host, EndStep, KeepStep

LEMMA HeldStep ==
  ASSUME TypeOK, Held, [Next]_vars
  PROVE  Held'
<1>1. ASSUME NEW v \in Answers, Answer(v) PROVE Held'
  BY <1>1 DEF Answer, Kept, Held
<1>2. CASE LookStep
  <2>1. PICK o \in Operations : In(o)
    BY <1>2 DEF LookStep
  <2> QED BY <2>1, InFinds DEF Held
<1>3. CASE WriteStep \/ WriteOn
  <2>1. PICK p, v : Write(p, v)
    BY <1>3 DEF WriteStep, WriteOn
  <2> QED BY <2>1 DEF Write, Held
<1>4. CASE ForgetStep
  BY <1>4 DEF ForgetStep, Forget, Held
<1>5. CASE HostStep \/ EndStep \/ KeepStep
  BY <1>5 DEF HostStep, EndStep, KeepStep, Finish, Held, maps, history, vars
<1> QED BY <1>1, <1>2, <1>3, <1>4, <1>5, Steps

LEMMA AskedStep ==
  ASSUME TypeOK, AskedKept, [Next]_vars
  PROVE  AskedKept'
<1> USE NoneIsNoByte
<1>1. ASSUME NEW v \in Answers, Answer(v) PROVE AskedKept'
  <2>1. v \in Byte /\ At(op) \in Port
    BY AtType DEF TypeOK
  <2>2. cached' = [cached EXCEPT ![At(op)] = v] /\ asked' = asked
    BY <1>1 DEF Answer, Kept
  <2> QED BY <2>1, <2>2 DEF AskedKept, TypeOK, Map
<1>2. CASE LookStep
  <2>1. PICK o \in Operations : In(o) /\ pc \in {"idle", "told"}
    BY <1>2 DEF LookStep
  <2>2. \A p \in asked : cached[p] # None
    BY <2>1 DEF AskedKept
  <2>3. cached' = cached /\ op' = o
    BY <2>1, InFinds
  <2>4. CASE pc' = "asked"
    <3>1. asked' = asked \union {At(op')} 
      BY <2>1, <2>3, <2>4, InFinds
    <3>2. At(op)' = At(op')
      BY DEF At
    <3> QED BY <2>2, <2>3, <2>4, <3>1, <3>2 DEF AskedKept
  <2>5. CASE pc' # "asked"
    <3>1. asked' = asked
      BY <2>1, <2>5, InFinds
    <3> QED BY <2>2, <2>3, <3>1 DEF AskedKept
  <2> QED BY <2>4, <2>5
<1>3. CASE WriteStep
  <2>1. PICK p \in Port, v \in Byte :
           /\ Write(p, v)
           /\ UNCHANGED <<op, pc>> \/ pc = "idle"
    BY <1>3 DEF WriteStep
  <2>2. asked' = asked /\ \A q \in asked : cached[q] # None => cached'[q] # None
    BY <2>1 DEF Write, TypeOK, Map
  <2> QED BY <2>1, <2>2 DEF AskedKept, At
<1>4. CASE WriteOn
  <2>1. Write(At(Second), op.bytes[2]) /\ pc = "told" /\ op.bytes[2] \in Byte
    BY <1>4 DEF WriteOn, TypeOK, Operations
  <2>2. asked' = asked /\ \A q \in asked : cached[q] # None => cached'[q] # None
    BY <2>1 DEF Write, TypeOK, Map
  <2> QED BY <2>1, <2>2 DEF AskedKept
<1>5. CASE ForgetStep
  BY <1>5 DEF ForgetStep, Forget, AskedKept
<1>6. CASE HostStep \/ KeepStep
  BY <1>6 DEF HostStep, KeepStep, AskedKept, At, access, maps, history, vars
<1>7. CASE EndStep
  BY <1>7 DEF EndStep, Finish, AskedKept, maps, history
<1> QED BY <1>1, <1>2, <1>3, <1>4, <1>5, <1>6, <1>7, Steps

LEMMA StoredStep ==
  ASSUME TypeOK, StoredHeld, [Next]_vars
  PROVE  StoredHeld'
<1>1. ASSUME NEW v \in Answers, Answer(v) PROVE StoredHeld'
  <2>1. /\ cached' = [cached EXCEPT ![At(op)] = v] /\ device' = device
        /\ \A w \in stored' : w \in stored /\ At(op) \notin {w.port, After(w.port)}
    BY <1>1 DEF Answer, Kept, Spoil, After
  <2> QED BY <2>1, StoredPorts DEF StoredHeld, TypeOK, Map
<1>2. CASE LookStep
  BY <1>2, InFinds DEF LookStep, StoredHeld
<1>3. CASE WriteStep
  <2>1. PICK p \in Port, v \in Byte : Write(p, v) /\ Spoil({p})
    BY <1>3 DEF WriteStep
  <2>2. /\ device' = device
        /\ \A q \in Port : q # p => cached'[q] = cached[q]
        /\ \A w \in stored' : w \in stored /\ p \notin {w.port, After(w.port)}
    BY <2>1 DEF Write, Spoil, After, TypeOK, Map
  <2> QED BY <2>2, StoredPorts DEF StoredHeld
<1>4. CASE WriteOn
  <2>1. /\ op \in Operations /\ op.half = 0 /\ op.port \in Port
        /\ At(Second) = After(op.port) /\ After(op.port) \in Port /\ After(op.port) # op.port
    <3>1. op \in Operations /\ op.half = 0 /\ op.port \in Port
      BY <1>4 DEF WriteOn, More, TypeOK, Operations
    <3> QED BY <3>1, Halves, SecondType
  <2>2. Write(After(op.port), op.bytes[2])
    BY <1>4, <2>1 DEF WriteOn
  <2>3. SUFFICES ASSUME NEW w \in stored'
                 PROVE  /\ cached'[w.port] = w.bytes[1] /\ w.port \notin device'
                        /\ cached'[After(w.port)] = w.bytes[2] /\ After(w.port) \notin device'
    BY DEF StoredHeld, After
  <2>4. /\ w = [port |-> op.port, bytes |-> op.bytes]
        /\ op.port \notin device /\ After(op.port) \notin device
        /\ cached[op.port] = op.bytes[1]
    BY <1>4, <2>1 DEF WriteOn
  <2>5. /\ cached' = [cached EXCEPT ![After(op.port)] = op.bytes[2]]
        /\ device' = device
    BY <2>2, <2>4 DEF Write
  <2> QED BY <2>1, <2>4, <2>5 DEF TypeOK, Map
<1>5. CASE ForgetStep
  BY <1>5 DEF ForgetStep, Forget, StoredHeld
<1>6. CASE HostStep
  <2>1. CASE UNCHANGED stored /\ device' \subseteq device
    BY <1>6, <2>1 DEF HostStep, StoredHeld
  <2>2. ASSUME NEW ps \in SUBSET Port, Spoil(ps), device' = device \union ps
        PROVE  StoredHeld'
    <3>1. \A w \in stored' : w \in stored /\ w.port \notin ps /\ After(w.port) \notin ps
      BY <2>2 DEF Spoil, After
    <3> QED BY <1>6, <2>2, <3>1 DEF HostStep, StoredHeld
  <2> QED BY <1>6, <2>1, <2>2 DEF HostStep
<1>7. CASE EndStep \/ KeepStep
  BY <1>7 DEF EndStep, Finish, KeepStep, StoredHeld, maps, history, vars
<1> QED BY <1>1, <1>2, <1>3, <1>4, <1>5, <1>6, <1>7, Steps

LEMMA ReadingStep ==
  ASSUME TypeOK, StoredHeld, ReadingStored, [Next]_vars
  PROVE  ReadingStored'
<1> USE NoneIsNoByte
<1>1. ASSUME NEW v \in Answers, Answer(v) PROVE ReadingStored'
  <2>1. /\ op \in Operations /\ op' = op /\ low' = low /\ pc' = "told" /\ pc = "asked"
        /\ \A w \in stored' : w \in stored /\ At(op) \notin {w.port, After(w.port)}
    BY <1>1 DEF Answer, Tell, Spoil, After, TypeOK
  <2>2. \A w \in stored' : w.port # op.port
    BY <2>1, Halves DEF Operations
  <2> QED BY <2>1, <2>2 DEF ReadingStored
<1>2. CASE LookStep
  <2>1. PICK o \in Operations :
           /\ In(o)
           /\ \/ pc = "idle" /\ o.half = 0 /\ UNCHANGED low
              \/ pc = "told" /\ op.kind = "in" /\ More /\ o = Second /\ low' = value
    BY <1>2 DEF LookStep
  <2>2. /\ stored' = stored /\ op' = o /\ pc' \in {"asked", "told"}
        /\ pc' = "asked" => cached[At(o)] = None
        /\ cached[At(o)] # None /\ At(o) \notin device => pc' = "told" /\ value' = cached[At(o)]
    BY <2>1, InFinds
  <2> SUFFICES ASSUME NEW w \in stored
               PROVE  /\ pc' = "asked" => At(o) \notin {w.port, After(w.port)}
                      /\ pc' = "told" /\ o.kind = "in" /\ w.port = o.port
                            => IF o.half = 0 THEN value' = w.bytes[1]
                                             ELSE low' = w.bytes[1] /\ value' = w.bytes[2]
                      /\ pc' = "asked" /\ w.port = o.port /\ o.half = 1 => low' = w.bytes[1]
    <3>1. At(op)' = At(op')
      BY DEF At
    <3> QED BY <2>2, <3>1 DEF ReadingStored, After
  <2>3. /\ cached[w.port] = w.bytes[1] /\ w.port \notin device
        /\ cached[After(w.port)] = w.bytes[2] /\ After(w.port) \notin device
        /\ w.bytes[1] # None /\ w.bytes[2] # None
    BY StoredPorts DEF StoredHeld
  <2>4. pc' = "asked" => At(o) \notin {w.port, After(w.port)}
    BY <2>2, <2>3
  <2>5. /\ o.half = 0 => At(o) = o.port
        /\ o.half = 1 => At(o) = After(o.port)
        /\ o.half \in {0, 1}
    BY Halves DEF Operations
  <2>6. CASE o.half = 0
    BY <2>2, <2>3, <2>4, <2>5, <2>6
  <2>7. CASE o.half = 1
    <3>1. /\ pc = "told" /\ op.kind = "in" /\ low' = value /\ op.half = 0
          /\ o.port = op.port
      BY <2>1, <2>7, SecondType DEF More
    <3>2. w.port = o.port => low' = w.bytes[1]
      BY <3>1 DEF ReadingStored
    <3> QED BY <2>2, <2>3, <2>4, <2>5, <2>7, <3>2
  <2> QED BY <2>5, <2>6, <2>7
<1>3. CASE WriteStep
  <2>1. PICK p \in Port, v \in Byte :
           /\ Spoil({p})
           /\ \/ UNCHANGED <<op, value, low, pc>>
              \/ pc' = "told" /\ op'.kind = "out"
    BY <1>3 DEF WriteStep
  <2>2. stored' \subseteq stored
    BY <2>1 DEF Spoil
  <2> QED BY <2>1, <2>2 DEF ReadingStored, At, After
<1>4. CASE WriteOn
  <2>1. pc' = "told" /\ op'.kind = "out"
    BY <1>4, SecondType DEF WriteOn, Tell
  <2> QED BY <2>1 DEF ReadingStored
<1>5. CASE ForgetStep
  BY <1>5 DEF ForgetStep, Forget, ReadingStored
<1>6. CASE HostStep
  <2>1. stored' \subseteq stored /\ UNCHANGED access
    BY <1>6 DEF HostStep, Spoil
  <2> QED BY <2>1 DEF ReadingStored, access, At, After
<1>7. CASE EndStep
  BY <1>7 DEF EndStep, Finish, ReadingStored
<1>8. CASE KeepStep
  BY <1>8 DEF KeepStep, vars, access, history, ReadingStored, At, After
<1> QED BY <1>1, <1>2, <1>3, <1>4, <1>5, <1>6, <1>7, <1>8, Steps

LEMMA StepIInv == IInv /\ [Next]_vars => IInv'
<1>1. TypeOK /\ [Next]_vars => TypeOK'
  BY InstructionType, HostType DEF Next, TypeOK, vars, maps, access, history
<1> QED BY <1>1, HeldStep, AskedStep, StoredStep, ReadingStep DEF IInv

LEMMA InitIInv == Init => IInv
  BY InitType DEF Init, IInv, Held, AskedKept, StoredHeld, ReadingStored

THEOREM PortsInvariant == Spec => []IInv
  BY InitIInv, StepIInv, PTL DEF Spec

-------------------------------------------------------------------------------
(* The properties *)

\* A port without a device reads as what it was last sent, for any number of
\* ports and any behaviour of the host inside its callbacks.
THEOREM PortsRead == Spec => ReadsWhatWasSent
<1>1. IInv /\ [Next]_vars /\ Looked /\ sent[At(op')] # None => value' = sent[At(op')]
  <2> SUFFICES ASSUME IInv, [Next]_vars, Looked, sent[At(op')] # None
               PROVE  value' = sent[At(op')]
    OBVIOUS
  <2> USE DEF IInv
  <2>1. pc' = "told" /\ op'.kind # "out" /\ At(op') \notin device
        /\ (op' # op \/ pc = "idle")
    BY DEF Looked
  <2>2. CASE LookStep
    <3>1. PICK o \in Operations : In(o)
      BY <2>2 DEF LookStep
    <3>2. op' = o /\ (cached[At(o)] # None /\ At(o) \notin device => value' = cached[At(o)])
      BY <3>1, InFinds
    <3> QED BY <2>1, <3>2 DEF Held
  <2>3. ~WriteStep
    BY <2>1 DEF WriteStep
  <2>4. ~HostStep /\ ~ForgetStep /\ ~KeepStep
    BY <2>1 DEF HostStep, ForgetStep, KeepStep, access, vars
  <2>5. ~EndStep
    BY <2>1 DEF EndStep, Finish
  <2>6. ~WriteOn
    BY <2>1, SecondType DEF WriteOn, Tell
  <2>7. \A v \in Answers : ~Answer(v)
    BY <2>1 DEF Answer, Tell
  <2> QED BY <2>2, <2>3, <2>4, <2>5, <2>6, <2>7, Steps
<1> QED BY <1>1, PortsInvariant, PTL DEF Spec, ReadsWhatWasSent

\* The user is asked at most once for a port between two clearings.
THEOREM PortsAskOnce == Spec => AsksOnce
<1>1. IInv /\ [Next]_vars /\ pc' = "asked" /\ pc # "asked" => At(op') \notin asked
  <2> SUFFICES ASSUME IInv, [Next]_vars, pc' = "asked", pc # "asked"
               PROVE  At(op') \notin asked
    OBVIOUS
  <2> USE DEF IInv
  <2>1. CASE LookStep
    <3>1. PICK o \in Operations : In(o)
      BY <2>1 DEF LookStep
    <3>2. op' = o /\ cached[At(o)] = None
      BY <3>1, InFinds
    <3> QED BY <3>2 DEF AskedKept
  <2>2. ~WriteStep /\ ~HostStep /\ ~ForgetStep /\ ~KeepStep /\ ~EndStep /\ ~WriteOn
    BY DEF WriteStep, HostStep, ForgetStep, KeepStep, EndStep, Finish, WriteOn, Tell,
           access, vars
  <2>3. \A v \in Answers : ~Answer(v)
    BY DEF Answer, Tell
  <2> QED BY <2>1, <2>2, <2>3, Steps
<1> QED BY <1>1, PortsInvariant, PTL DEF Spec, AsksOnce

\* A word that was written to two ports is read back from them, for any number
\* of ports.
THEOREM PortsKeepWords == Spec => WordsComeBack
<1>1. IInv => (Finish /\ op.kind = "in" /\ op.word
                 => \A w \in stored : w.port = op.port => ax' = w.bytes)
  <2> SUFFICES ASSUME IInv, Finish, op.kind = "in", op.word,
                      NEW w \in stored, w.port = op.port
               PROVE  ax' = w.bytes
    OBVIOUS
  <2>1. op.half = 1 /\ pc = "told"
    BY DEF Finish, More, IInv, TypeOK, Operations
  <2>2. low = w.bytes[1] /\ value = w.bytes[2]
    BY <2>1 DEF IInv, ReadingStored
  <2>3. w.bytes \in Byte \X Byte
    BY DEF IInv, TypeOK
  <2> QED BY <2>2, <2>3 DEF Finish, WordOf
<1> QED BY <1>1, PortsInvariant, PTL DEF Spec, WordsComeBack
===============================================================================
