-------------------------------- MODULE Ports ---------------------------------
(***************************************************************************)
(* The port space of E2Emu: class PortController                           *)
(* (src/devices/port_controller.cpp) and the IN and OUT instructions of    *)
(* the interpreter that drive it (src/core/emulator.cpp).                  *)
(*                                                                         *)
(* A port without a device has no hardware behind it.  It reads as what    *)
(* was last written to it or answered by the user for it; failing that the *)
(* user is asked, or, outside interactive mode, a predefined value is      *)
(* used.  Both the question and the report of every access are callbacks   *)
(* of the host in the middle of an instruction, and the host may call the  *)
(* controller, or reset the machine, from inside them.                     *)
(*                                                                         *)
(* Not modelled: a host that calls in() or step() from inside a callback   *)
(* of in().  The immediate forms of the instructions differ from the DX    *)
(* forms only in the ports they reach.                                     *)
(***************************************************************************)
EXTENDS Integers

CONSTANTS
    PORTS,          \* number of ports, 65536
    Byte,           \* values of a port
    Floating,       \* what a port with nothing behind it reads as, 0xFF
    Sent,           \* bytes the guest and the host write
    Answers,        \* bytes the user answers and the devices return
    Defaults        \* bytes the host predefines

ASSUME PortsAssumption == PORTS \in Nat \ {0, 1}
ASSUME ByteAssumption == /\ 0 \in Byte /\ Floating \in Byte
                         /\ Sent \subseteq Byte /\ Answers \subseteq Byte
                         /\ Defaults \subseteq Byte
                         /\ -1 \notin Byte

Port == 0 .. PORTS - 1
None == -1          \* no entry in a map
Map == [Port -> Byte \union {None}]
Empty == [p \in Port |-> None]

VARIABLES
    device,         \* the keys of m_port_map
    cached,         \* m_cached_ports
    predefined,     \* m_predefined_ports
    interactive,    \* m_interactive_mode
    ax,             \* AL and AH
    pc,             \* "idle"; "asked" or "told": the host's callback runs
    op,             \* the instruction: what it does, its port, the byte it is at
    value,          \* the byte just read or written
    low,            \* the first byte of a word that is being read
    sent,           \* history: what each port was last written or answered
                    \* since the values were cleared
    asked, fresh,   \* history: ports asked for, ports not accessed, since then
    stored          \* history: the last word written (at most one), while both
                    \* of its ports hold it

maps == <<device, cached, predefined, interactive>>
access == <<pc, op, value, low>>
history == <<sent, asked, fresh, stored>>
vars == <<maps, ax, access, history>>

Operations == [kind : {"in", "out", "host"}, word : BOOLEAN, port : Port,
               half : {0, 1}, bytes : Byte \X Byte]

\* The operation, while there is none.
Nothing == [kind |-> "in", word |-> FALSE, port |-> 0, half |-> 0, bytes |-> <<0, 0>>]

TypeOK ==
    /\ device \subseteq Port
    /\ cached \in Map /\ predefined \in Map /\ interactive \in BOOLEAN
    /\ ax \in Byte \X Byte
    /\ pc \in {"idle", "asked", "told"} /\ op \in Operations
    /\ value \in Byte /\ low \in Byte
    /\ sent \in Map /\ asked \subseteq Port /\ fresh \subseteq Port
    /\ stored \subseteq [port : Port, bytes : Byte \X Byte]

-------------------------------------------------------------------------------
(* One access to one port *)

\* The port of the half an operation is at; uint16 wraps behind the last one.
At(o) == (o.port + o.half) % PORTS

\* The word written last is no longer what its two ports hold.
Spoil(ps) == stored' = {w \in stored : {w.port, (w.port + 1) % PORTS} \intersect ps = {}}

\* m_port_access_callback: the access of o with byte v is reported.
Tell(o, v) == pc' = "told" /\ op' = o /\ value' = v

\* Ask the user about the port of o.
Ask(o) == /\ pc' = "asked" /\ op' = o /\ UNCHANGED value
          /\ asked' = asked \union {At(o)}

\* What a port without a device and without a cached byte reads as when nobody
\* is asked.
MutPredefined(p) == predefined[p]
Predefined(p) == IF predefined[p] # None THEN predefined[p] ELSE Floating

\* Whether in() finds the byte in the cache.
MutHit(p) == cached[p] # None /\ (predefined[p] = None \/ interactive)
Hit(p) == cached[p] # None

\* in(): the device, then the cache, then the user or the predefined value.
In(o) ==
    LET p == At(o)
    IN  /\ \/ /\ p \in device
              /\ \E v \in Answers : Tell(o, v)
              /\ UNCHANGED asked
           \/ /\ p \notin device /\ Hit(p)
              /\ Tell(o, cached[p])
              /\ UNCHANGED asked
           \/ /\ p \notin device /\ ~Hit(p) /\ interactive
              /\ Ask(o)
           \/ /\ p \notin device /\ ~Hit(p) /\ ~interactive
              /\ Tell(o, Predefined(p))
              /\ UNCHANGED asked
        /\ fresh' = fresh \ {p}
        /\ UNCHANGED <<maps, sent, stored>>

\* The byte the user gave is kept for later reads of the port.
MutKept(p, v) == cached
Kept(p, v) == [cached EXCEPT ![p] = v]

Answer(v) ==
    /\ pc = "asked"
    /\ cached' = Kept(At(op), v)
    /\ Tell(op, v)
    /\ sent' = [sent EXCEPT ![At(op)] = v]
    /\ Spoil({At(op)})
    /\ UNCHANGED <<device, predefined, interactive, ax, low, asked, fresh>>

\* out(): the device, or the cache.
Write(p, v) ==
    /\ IF p \in device
       THEN UNCHANGED <<cached, sent>>
       ELSE /\ cached' = [cached EXCEPT ![p] = v]
            /\ sent' = [sent EXCEPT ![p] = v]
    /\ fresh' = fresh \ {p}
    /\ UNCHANGED <<device, predefined, interactive, asked>>

-------------------------------------------------------------------------------
(* The instructions *)

\* IN AL and IN AX, and a call of in() by the host itself.
StartIn(kind, word, p) ==
    /\ pc = "idle"
    /\ In([kind |-> kind, word |-> word, port |-> p, half |-> 0, bytes |-> <<0, 0>>])
    /\ UNCHANGED <<ax, low>>

\* OUT of AL or AX, with the accumulator the guest loaded before.
StartOut(word, p, bytes) ==
    /\ pc = "idle"
    /\ LET o == [kind |-> "out", word |-> word, port |-> p, half |-> 0, bytes |-> bytes]
       IN  Tell(o, bytes[1])
    /\ ax' = bytes
    /\ Write(p, bytes[1]) /\ Spoil({p})
    /\ UNCHANGED low

More == op.word /\ op.half = 0
Second == [op EXCEPT !.half = 1]

\* The report of the first byte of a word returns.
ReadOn == /\ pc = "told" /\ op.kind = "in" /\ More
          /\ low' = value
          /\ In(Second)
          /\ UNCHANGED ax

WriteOn ==
    /\ pc = "told" /\ op.kind = "out" /\ More
    /\ Tell(Second, op.bytes[2])
    /\ Write(At(Second), op.bytes[2])
    /\ stored' = IF {op.port, At(Second)} \intersect device = {} /\ cached[op.port] = op.bytes[1]
                 THEN {[port |-> op.port, bytes |-> op.bytes]} ELSE {}
    /\ UNCHANGED <<ax, low>>

\* The report of the last byte returns; IN sets AL or AX.
MutWordOf(lo, hi) == <<hi, lo>>
WordOf(lo, hi) == <<lo, hi>>
Finish ==
    /\ pc = "told" /\ ~More
    /\ pc' = "idle"
    /\ ax' = IF op.kind # "in" THEN ax
             ELSE IF op.word THEN WordOf(low, value) ELSE <<value, ax[2]>>
    /\ op' = Nothing /\ value' = 0 /\ low' = 0
    /\ UNCHANGED <<maps, history>>

-------------------------------------------------------------------------------
(* The host, between instructions and inside callbacks *)

Forget == /\ cached' = Empty /\ sent' = Empty /\ asked' = {} /\ fresh' = Port
          /\ stored' = {}

ClearCachedValues == Forget /\ UNCHANGED <<device, predefined, interactive, ax, access>>

Clear == /\ Forget /\ device' = {} /\ predefined' = Empty
         /\ UNCHANGED <<interactive, ax, access>>

\* Emulator::reset clears the registers and the cached values.
Reset == Forget /\ ax' = <<0, 0>> /\ UNCHANGED <<device, predefined, interactive, access>>

SetDefaultPortValue(p, v) ==
    /\ predefined' = [predefined EXCEPT ![p] = v]
    /\ UNCHANGED <<device, cached, interactive, ax, access, history>>

SetInteractiveMode(b) ==
    /\ interactive' = b
    /\ UNCHANGED <<device, cached, predefined, ax, access, history>>

RegisterDevice(ps) ==
    /\ device' = device \union ps
    /\ Spoil(ps)
    /\ UNCHANGED <<cached, predefined, interactive, ax, access, sent, asked, fresh>>

UnregisterDevice(ps) ==
    /\ device' = device \ ps
    /\ UNCHANGED <<cached, predefined, interactive, ax, access, history>>

\* The host calls out().
HostOut(p, v) == Write(p, v) /\ Spoil({p}) /\ UNCHANGED <<ax, access>>

-------------------------------------------------------------------------------
Init == /\ device = {} /\ cached = Empty /\ predefined = Empty /\ interactive = TRUE
        /\ ax = <<0, 0>>
        /\ pc = "idle" /\ value = 0 /\ low = 0
        /\ op = Nothing
        /\ sent = Empty /\ asked = {} /\ fresh = Port /\ stored = {}

Instruction == \/ \E p \in Port, word \in BOOLEAN : StartIn("in", word, p)
               \/ \E p \in Port, word \in BOOLEAN, bytes \in Sent \X Sent :
                     StartOut(word, p, bytes)
               \/ ReadOn \/ WriteOn \/ Finish

Ranges == {{p \in Port : first <= p /\ p <= last} : first \in Port, last \in Port}

Host == \/ \E v \in Answers : Answer(v)
        \/ \E p \in Port : StartIn("host", FALSE, p)
        \/ ClearCachedValues \/ Clear \/ Reset
        \/ \E p \in Port, v \in Defaults : SetDefaultPortValue(p, v)
        \/ \E b \in BOOLEAN : SetInteractiveMode(b)
        \/ \E ps \in Ranges : RegisterDevice(ps) \/ UnregisterDevice(ps)
        \/ \E p \in Port, v \in Sent : HostOut(p, v)

Next == Instruction \/ Host

Spec == Init /\ [][Next]_vars

-------------------------------------------------------------------------------
(* Properties *)

\* A lookup of in() ended in this step, without asking the user.
Looked == /\ op' # op \/ pc = "idle"
          /\ pc' = "told" /\ op'.kind # "out" /\ At(op') \notin device

\* A port without a device reads as what was last written to it or answered for
\* it, until the values are cleared: whatever the host predefines, whether it
\* is asked, and although a device covered the port for a while.
ReadsWhatWasSent == [][Looked /\ sent[At(op')] # None => value' = sent[At(op')]]_vars

\* The user is asked at most once for a port between two clearings, in however
\* many instructions, halves of words and modes the port is read.
AsksOnce == [][pc' = "asked" /\ pc # "asked" => At(op') \notin asked]_vars

\* The byte of a word that goes to the second port is the one that is read back
\* from it: IN AX after OUT AX gives AX, also across the last port and with
\* callbacks in between, as long as nobody writes or clears one of the ports.
WordsComeBack ==
    [][Finish /\ op.kind = "in" /\ op.word
       => \A w \in stored : w.port = op.port => ax' = w.bytes]_vars

-------------------------------------------------------------------------------
(* What a comment says and the code does not do *)

\* emulator.cpp:51 says why reset() clears the cached values: "so IN
\* instruction asks for input again".
AsksAgain == [][Looked /\ interactive => At(op') \notin fresh]_vars
===============================================================================
