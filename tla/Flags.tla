-------------------------------- MODULE Flags ---------------------------------
(***************************************************************************)
(* Words, their bits, and the flags that describe results: the part of     *)
(* class ALU (src/execution/alu.cpp) that is a function of its arguments,  *)
(* and the conditions of the conditional jumps.                            *)
(***************************************************************************)
EXTENDS Integers, FiniteSets

BYTE == 256             \* the moduli of the two operand sizes
WORD == 65536
Width == {BYTE, WORD}
Word == 0 .. WORD - 1

Signed(v, w) == IF v >= w \div 2 THEN v - w ELSE v

Bits(v) == {i \in 0 .. 15 : (v \div 2^i) % 2 = 1}

Value(S) == LET one(i) == IF i \in S THEN 1 ELSE 0
                four(i) == one(i) + 2 * one(i+1) + 4 * one(i+2) + 8 * one(i+3)
            IN  four(0) + 16 * four(4) + 256 * four(8) + 4096 * four(12)

And(a, b) == Value(Bits(a) \intersect Bits(b))
Or(a, b) == Value(Bits(a) \union Bits(b))
Xor(a, b) == Value((Bits(a) \union Bits(b)) \ (Bits(a) \intersect Bits(b)))

(***************************************************************************)
(* Flags.                                                                  *)
(***************************************************************************)
FlagSet == [CF : BOOLEAN, ZF : BOOLEAN, SF : BOOLEAN,
            PF : BOOLEAN, AF : BOOLEAN, OF : BOOLEAN]

NoFlags == [CF |-> FALSE, ZF |-> FALSE, SF |-> FALSE,
            PF |-> FALSE, AF |-> FALSE, OF |-> FALSE]

EvenParity(v) == Cardinality(Bits(v % BYTE)) % 2 = 0

Sign(v, w) == v >= w \div 2

\* The flags that show a result v of size w, next to given CF, AF and OF
Shown(v, w, cf, af, of) ==
    [CF |-> cf, ZF |-> v = 0, SF |-> Sign(v, w),
     PF |-> EvenParity(v), AF |-> af, OF |-> of]

setFlags_Add(result, dst, src, w) ==
    LET v == result % w
    IN  Shown(v, w, result >= w, (dst % 16) + (src % 16) > 15,
              Sign(dst, w) = Sign(src, w) /\ Sign(dst, w) # Sign(v, w))

MutSetFlags_Sub(result, dst, src, w) ==
    LET v == result % w
    IN  Shown(v, w, src > dst, (src % 16) > (dst % 16),
              Sign(dst, w) = Sign(src, w) /\ Sign(dst, w) # Sign(v, w))
setFlags_Sub(result, dst, src, w) ==
    LET v == result % w
    IN  Shown(v, w, src > dst, (src % 16) > (dst % 16),
              Sign(dst, w) # Sign(src, w) /\ Sign(dst, w) # Sign(v, w))

\* Flags f with other carries and overflow
With(f, cf, af, of) ==
    [CF |-> cf, ZF |-> f.ZF, SF |-> f.SF, PF |-> f.PF, AF |-> af, OF |-> of]

Condition == {"O", "NO", "B", "AE", "E", "NE", "BE", "A", "S", "NS",
              "L", "GE", "LE", "G"}

Carry(f) == IF f.CF THEN 1 ELSE 0

\* The conditional jumps
Taken(cc, f) ==
    CASE cc = "O"  -> f.OF
      [] cc = "NO" -> ~f.OF
      [] cc = "B"  -> f.CF
      [] cc = "AE" -> ~f.CF
      [] cc = "E"  -> f.ZF
      [] cc = "NE" -> ~f.ZF
      [] cc = "BE" -> f.CF \/ f.ZF
      [] cc = "A"  -> ~f.CF /\ ~f.ZF
      [] cc = "S"  -> f.SF
      [] cc = "NS" -> ~f.SF
      [] cc = "L"  -> f.SF # f.OF
      [] cc = "GE" -> f.SF = f.OF
      [] cc = "LE" -> f.ZF \/ f.SF # f.OF
      [] cc = "G"  -> ~f.ZF /\ f.SF = f.OF
===============================================================================
