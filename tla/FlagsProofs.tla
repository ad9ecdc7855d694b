------------------------------ MODULE FlagsProofs ------------------------------
(***************************************************************************)
(* Facts about words, bits and flags which the proofs about guest programs *)
(* rest on.                                                                *)
(***************************************************************************)
EXTENDS Flags, TLAPS

LEMMA FlagRecord ==
  ASSUME NEW cf \in BOOLEAN, NEW z \in BOOLEAN, NEW s \in BOOLEAN,
         NEW p \in BOOLEAN, NEW af \in BOOLEAN, NEW of \in BOOLEAN
  PROVE  [CF |-> cf, ZF |-> z, SF |-> s, PF |-> p, AF |-> af, OF |-> of] \in FlagSet
  BY Zenon DEF FlagSet

LEMMA FlagsType ==
  ASSUME NEW v \in Int, NEW w \in Int,
         NEW cf \in BOOLEAN, NEW af \in BOOLEAN, NEW of \in BOOLEAN
  PROVE  Shown(v, w, cf, af, of) \in FlagSet
<1> DEFINE z == v = 0
<1>1. z \in BOOLEAN
  OBVIOUS
<1>2. Sign(v, w) \in BOOLEAN
  BY DEF Sign
<1>3. EvenParity(v) \in BOOLEAN
  BY Zenon DEF EvenParity
<1>4. Shown(v, w, cf, af, of) = [CF |-> cf, ZF |-> z, SF |-> Sign(v, w),
                                 PF |-> EvenParity(v), AF |-> af, OF |-> of]
  BY DEF Shown
<1> HIDE DEF z
<1>5. [CF |-> cf, ZF |-> z, SF |-> Sign(v, w),
       PF |-> EvenParity(v), AF |-> af, OF |-> of] \in FlagSet
  BY ONLY <1>1, <1>2, <1>3, FlagRecord, Zenon
<1> QED BY <1>4, <1>5, Zenon

\* The sizes as numbers, for steps that must not unfold them in an interval.
LEMMA Sizes == BYTE = 256 /\ WORD = 65536 /\ BYTE \in Int /\ WORD \in Int
  BY SMT DEF BYTE, WORD

LEMMA WidthFacts ==
  ASSUME NEW w \in Width
  PROVE  w \in Nat /\ w > 0 /\ w <= WORD /\ 0 .. w - 1 \subseteq Word
<1>1. w \in Nat /\ w > 0 /\ w <= WORD
  BY SMT DEF BYTE, WORD, Width
<1>2. 0 .. w - 1 \subseteq Word
  <2>1. WORD \in Int
    BY Sizes, SMT
  <2> QED BY <1>1, <2>1, SMT DEF Word
<1> QED BY <1>1, <1>2, SMT

\* What lies in a word or in a byte.
LEMMA InWord ==
  ASSUME NEW x \in Int
  PROVE  /\ x \in Word <=> 0 <= x /\ x <= 65535
         /\ x \in 0 .. BYTE - 1 <=> 0 <= x /\ x <= 255
<1>1. WORD \in Int /\ BYTE \in Int
  BY Sizes, SMT
<1>2. /\ x \in Word <=> 0 <= x /\ x <= WORD - 1
      /\ x \in 0 .. BYTE - 1 <=> 0 <= x /\ x <= BYTE - 1
  BY <1>1, SMT DEF Word
<1> QED BY <1>2, Sizes, SMT

LEMMA ModType ==
  ASSUME NEW v \in Int, NEW w \in Width
  PROVE  v % w \in 0 .. w - 1
  BY WidthFacts, SMT

LEMMA WordFacts ==
  BYTE \in Width /\ WORD \in Width /\ BYTE \in Int /\ WORD \in Int
  /\ Word \subseteq Int
  BY Sizes, SMT DEF Width, Word

LEMMA AddFlagsType ==
  ASSUME NEW r \in Int, NEW d \in Int, NEW s \in Int, NEW w \in Width
  PROVE  setFlags_Add(r, d, s, w) \in FlagSet
<1>1. r % w \in Int /\ w \in Int
  BY ModType, WidthFacts, SMT
<1> DEFINE cf == r >= w
           af == (d % 16) + (s % 16) > 15
           of == Sign(d, w) = Sign(s, w) /\ Sign(d, w) # Sign(r % w, w)
<1>2. cf \in BOOLEAN /\ af \in BOOLEAN /\ of \in BOOLEAN
  BY <1>1, SMT
<1>3. setFlags_Add(r, d, s, w) = Shown(r % w, w, cf, af, of)
  BY SMT DEF setFlags_Add
<1> HIDE DEF cf, af, of
<1>4. Shown(r % w, w, cf, af, of) \in FlagSet
  BY ONLY <1>1, <1>2, FlagsType, Zenon
<1> QED BY <1>3, <1>4, SMT

LEMMA SubFlagsType ==
  ASSUME NEW r \in Int, NEW d \in Int, NEW s \in Int, NEW w \in Width
  PROVE  setFlags_Sub(r, d, s, w) \in FlagSet
<1>1. r % w \in Int /\ w \in Int
  BY ModType, WidthFacts, SMT
<1> DEFINE cf == s > d
           af == (s % 16) > (d % 16)
           of == Sign(d, w) # Sign(s, w) /\ Sign(d, w) # Sign(r % w, w)
<1>2. cf \in BOOLEAN /\ af \in BOOLEAN /\ of \in BOOLEAN
  BY <1>1, SMT
<1>3. setFlags_Sub(r, d, s, w) = Shown(r % w, w, cf, af, of)
  BY SMT DEF setFlags_Sub
<1> HIDE DEF cf, af, of
<1>4. Shown(r % w, w, cf, af, of) \in FlagSet
  BY ONLY <1>1, <1>2, FlagsType, Zenon
<1> QED BY <1>3, <1>4, SMT

\* Writing carries and overflow leaves flags.
LEMMA WithType ==
  ASSUME NEW f \in FlagSet,
         NEW cf \in BOOLEAN, NEW af \in BOOLEAN, NEW of \in BOOLEAN
  PROVE  With(f, cf, af, of) \in FlagSet
<1>1. f.ZF \in BOOLEAN /\ f.SF \in BOOLEAN /\ f.PF \in BOOLEAN
  BY SMT DEF FlagSet
<1> QED BY <1>1, FlagRecord, Zenon DEF With

\* Any set of bits is a word.
LEMMA ValueType == ASSUME NEW S PROVE Value(S) \in Word
<1> DEFINE one(i) == IF i \in S THEN 1 ELSE 0
           four(i) == one(i) + 2 * one(i+1) + 4 * one(i+2) + 8 * one(i+3)
<1>1. \A i : one(i) \in 0 .. 1
  BY SMT
<1>2. Value(S) = four(0) + 16 * four(4) + 256 * four(8) + 4096 * four(12)
  BY SMT DEF Value
<1> HIDE DEF one
<1>3. \A i : four(i) \in 0 .. 15
  BY <1>1, SMT
<1> HIDE DEF four
<1>4. /\ four(0) \in 0 .. 15 /\ four(4) \in 0 .. 15
      /\ four(8) \in 0 .. 15 /\ four(12) \in 0 .. 15
  BY <1>3, SMT
<1>5. /\ four(0) \in Int /\ 0 <= four(0) /\ four(0) <= 15
      /\ four(4) \in Int /\ 0 <= four(4) /\ four(4) <= 15
      /\ four(8) \in Int /\ 0 <= four(8) /\ four(8) <= 15
      /\ four(12) \in Int /\ 0 <= four(12) /\ four(12) <= 15
  BY <1>4, SMT
<1> DEFINE a0 == four(0)
           a4 == four(4)
           a8 == four(8)
           a12 == four(12)
<1>7. Value(S) = a0 + 16 * a4 + 256 * a8 + 4096 * a12
  BY <1>2, SMT
<1>8. /\ a0 \in Int /\ 0 <= a0 /\ a0 <= 15 /\ a4 \in Int /\ 0 <= a4 /\ a4 <= 15
      /\ a8 \in Int /\ 0 <= a8 /\ a8 <= 15 /\ a12 \in Int /\ 0 <= a12 /\ a12 <= 15
  BY <1>5, SMT
<1> HIDE DEF a0, a4, a8, a12
<1>9. a0 + 16 * a4 + 256 * a8 + 4096 * a12 \in Word
  <2> DEFINE n == a0 + 16 * a4 + 256 * a8 + 4096 * a12
  <2>1. n \in Int /\ 0 <= n /\ n <= 65535
    BY <1>8, SMT
  <2> HIDE DEF n
  <2>2. n \in Word
    BY <2>1, InWord, SMT
  <2> QED BY <2>2, SMT DEF n
<1> QED BY ONLY <1>7, <1>9, SMT

\* A number is its own remainder, whatever multiple of the modulus is added.
LEMMA ModUnique ==
  ASSUME NEW w \in Nat, NEW e \in Int, NEW y \in Int, 0 <= y, y < w
  PROVE  (w * e + y) % w = y
<1> DEFINE x == w * e + y
<1>1. x \in Int /\ x = w * e + y
  BY SMT
<1> HIDE DEF x
<1> DEFINE q == x \div w
<1>2. q \in Int /\ x % w \in Int /\ 0 <= x % w /\ x % w < w /\ x = w * q + (x % w)
  BY <1>1, SMT
<1> HIDE DEF q
<1>3. ~(q > e)
  <2> SUFFICES ASSUME q >= e + 1 PROVE FALSE
    BY <1>2
  <2>1. w * q >= w * (e + 1) /\ w * (e + 1) = w * e + w
    BY <1>2, SMT
  <2> QED BY <1>1, <1>2, <2>1, SMT
<1>4. ~(q < e)
  <2> SUFFICES ASSUME q + 1 <= e PROVE FALSE
    BY <1>2
  <2>1. w * e >= w * (q + 1) /\ w * (q + 1) = w * q + w
    BY <1>2, SMT
  <2> QED BY <1>1, <1>2, <2>1, SMT
<1>5. q = e
  BY <1>2, <1>3, <1>4
<1>6. x % w = y
  BY <1>1, <1>2, <1>5, SMT
<1> QED BY <1>6 DEF x

\* Going from s on by what c is ahead of it, round a circle of n places, leads to c.
LEMMA AheadRound ==
  ASSUME NEW n \in Nat, NEW s \in Int, NEW c \in Int, 0 <= c, c < n
  PROVE  /\ (c - s) % n \in Int /\ 0 <= (c - s) % n
         /\ (s + ((c - s) % n)) % n = c
<1> DEFINE r == (c - s) % n
           q == (c - s) \div n
<1>1. r \in Int /\ q \in Int /\ 0 <= r /\ c - s = n * q + r
  BY SMT
<1>2. -q \in Int /\ n * q \in Int /\ n * (-q) = -(n * q)
  BY <1>1, SMT
<1> HIDE DEF q, r
<1>3. s + r = n * (-q) + c
  BY <1>1, <1>2, SMT
<1>4. (n * (-q) + c) % n = c
  BY <1>2, ModUnique
<1> QED BY <1>1, <1>3, <1>4 DEF r

LEMMA ModWord ==
  ASSUME NEW v \in Int
  PROVE  v % WORD \in Word /\ v % BYTE \in 0 .. BYTE - 1
  BY ModType, WordFacts, SMT DEF Word

\* Writing the lower byte or the whole of a register.
LEMMA LowType ==
  ASSUME NEW x \in Word, NEW w \in Width, NEW v \in 0 .. w - 1
  PROVE  x - (x % w) + v \in Word
<1>1. w = BYTE \/ w = WORD
  BY SMT DEF Width
<1>2. x \in Int /\ 0 <= x /\ x <= 65535
  BY WordFacts, InWord, SMT
<1>3. CASE w = BYTE
  <2>1. v \in Int /\ 0 <= v /\ v <= 255
    BY <1>3, WordFacts, InWord, SMT
  <2>2. /\ x - (x % BYTE) + v \in Int
        /\ 0 <= x - (x % BYTE) + v /\ x - (x % BYTE) + v <= 65535
    BY <1>2, <2>1, Sizes, SMT
  <2> QED BY <1>3, <2>2, InWord, SMT
<1>4. CASE w = WORD
  <2>1. x % WORD = x
    <3>1. 0 <= x /\ x <= WORD - 1 /\ WORD \in Int
      BY WordFacts, SMT DEF Word
    <3> QED BY <1>2, <3>1, SMT
  <2>2. v \in Int
    BY <1>4, WordFacts, SMT
  <2>3. x - (x % WORD) + v = v
    BY <1>2, <2>1, <2>2, SMT
  <2> QED BY <1>4, <2>3, SMT DEF Word
<1> QED BY <1>1, <1>3, <1>4

LEMMA SignedType ==
  ASSUME NEW v \in Int, NEW w \in Width
  PROVE  Signed(v, w) \in Int
  BY WidthFacts, SMT DEF Signed

LEMMA Halves == ASSUME NEW w \in Width PROVE \E h \in Nat : h > 0 /\ w = 2 * h
<1>1. w = BYTE \/ w = WORD
  BY SMT DEF Width
<1>2. CASE w = BYTE
  <2>1. 128 \in Nat /\ 128 > 0 /\ w = 2 * 128
    BY <1>2, Sizes, SMT
  <2> QED BY <2>1
<1>3. CASE w = WORD
  <2>1. 32768 \in Nat /\ 32768 > 0 /\ w = 2 * 32768
    BY <1>3, Sizes, SMT
  <2> QED BY <2>1
<1> QED BY <1>1, <1>2, <1>3

-------------------------------------------------------------------------------
(* Words and their bits *)

At(S, i) == IF i \in S THEN 1 ELSE 0

LEMMA AtType == ASSUME NEW S, NEW i PROVE At(S, i) \in 0 .. 1
  BY SMT DEF At

\* The value of a set of bits, written out.
LEMMA ValueSum ==
  ASSUME NEW S
  PROVE  Value(S) = At(S, 0) + 2 * At(S, 1) + 4 * At(S, 2) + 8 * At(S, 3)
                  + 16 * At(S, 4) + 32 * At(S, 5) + 64 * At(S, 6) + 128 * At(S, 7)
                  + 256 * At(S, 8) + 512 * At(S, 9) + 1024 * At(S, 10)
                  + 2048 * At(S, 11) + 4096 * At(S, 12) + 8192 * At(S, 13)
                  + 16384 * At(S, 14) + 32768 * At(S, 15)
<1> DEFINE one(i) == IF i \in S THEN 1 ELSE 0
           four(i) == one(i) + 2 * one(i+1) + 4 * one(i+2) + 8 * one(i+3)
<1>1. Value(S) = four(0) + 16 * four(4) + 256 * four(8) + 4096 * four(12)
  BY SMT DEF Value
<1>2. \A i : one(i) = At(S, i)
  BY SMT DEF At
<1> HIDE DEF one
<1>3. /\ four(0) = At(S, 0) + 2 * At(S, 1) + 4 * At(S, 2) + 8 * At(S, 3)
      /\ four(4) = At(S, 4) + 2 * At(S, 5) + 4 * At(S, 6) + 8 * At(S, 7)
      /\ four(8) = At(S, 8) + 2 * At(S, 9) + 4 * At(S, 10) + 8 * At(S, 11)
      /\ four(12) = At(S, 12) + 2 * At(S, 13) + 4 * At(S, 14) + 8 * At(S, 15)
  BY <1>2, SMT
<1> HIDE DEF four
<1>4. \A i : At(S, i) \in Int
  BY SMT DEF At
<1> QED BY <1>1, <1>3, <1>4, SMT

\* Reading the bits of a word one by one.
LEMMA BitsAt ==
  ASSUME NEW v \in Int
  PROVE  /\ Bits(v) \subseteq 0 .. 15
         /\ 0 \in Bits(v) <=> (v \div 1) % 2 = 1
         /\ 1 \in Bits(v) <=> (v \div 2) % 2 = 1
         /\ 2 \in Bits(v) <=> (v \div 4) % 2 = 1
         /\ 3 \in Bits(v) <=> (v \div 8) % 2 = 1
         /\ 4 \in Bits(v) <=> (v \div 16) % 2 = 1
         /\ 5 \in Bits(v) <=> (v \div 32) % 2 = 1
         /\ 6 \in Bits(v) <=> (v \div 64) % 2 = 1
         /\ 7 \in Bits(v) <=> (v \div 128) % 2 = 1
         /\ 8 \in Bits(v) <=> (v \div 256) % 2 = 1
         /\ 9 \in Bits(v) <=> (v \div 512) % 2 = 1
         /\ 10 \in Bits(v) <=> (v \div 1024) % 2 = 1
         /\ 11 \in Bits(v) <=> (v \div 2048) % 2 = 1
         /\ 12 \in Bits(v) <=> (v \div 4096) % 2 = 1
         /\ 13 \in Bits(v) <=> (v \div 8192) % 2 = 1
         /\ 14 \in Bits(v) <=> (v \div 16384) % 2 = 1
         /\ 15 \in Bits(v) <=> (v \div 32768) % 2 = 1
  BY SMT DEF Bits

\* The bits of a set's value are the set: its binary digits are read off one
\* by one, halving what remains.
LEMMA BitsOfValue == ASSUME NEW S PROVE Bits(Value(S)) = S \intersect 0 .. 15
<1> DEFINE v == Value(S)
           a0 == At(S, 0)
           a1 == At(S, 1)
           a2 == At(S, 2)
           a3 == At(S, 3)
           a4 == At(S, 4)
           a5 == At(S, 5)
           a6 == At(S, 6)
           a7 == At(S, 7)
           a8 == At(S, 8)
           a9 == At(S, 9)
           a10 == At(S, 10)
           a11 == At(S, 11)
           a12 == At(S, 12)
           a13 == At(S, 13)
           a14 == At(S, 14)
           a15 == At(S, 15)
<1>0a. /\ a0 \in 0 .. 1 /\ a1 \in 0 .. 1 /\ a2 \in 0 .. 1 /\ a3 \in 0 .. 1
       /\ a4 \in 0 .. 1 /\ a5 \in 0 .. 1 /\ a6 \in 0 .. 1 /\ a7 \in 0 .. 1
       /\ a8 \in 0 .. 1 /\ a9 \in 0 .. 1 /\ a10 \in 0 .. 1 /\ a11 \in 0 .. 1
       /\ a12 \in 0 .. 1 /\ a13 \in 0 .. 1 /\ a14 \in 0 .. 1 /\ a15 \in 0 .. 1
  BY AtType
<1>0b. v = a0 + 2 * a1 + 4 * a2 + 8 * a3 + 16 * a4 + 32 * a5 + 64 * a6 + 128 * a7
           + 256 * a8 + 512 * a9 + 1024 * a10 + 2048 * a11 + 4096 * a12 + 8192 * a13
           + 16384 * a14 + 32768 * a15
  BY ValueSum
<1>0c. v \in Int
  BY ValueType, WordFacts
<1>0d. Bits(v) \subseteq 0 .. 15
  BY <1>0c, BitsAt
<1> HIDE DEF v, a0, a1, a2, a3, a4, a5, a6, a7, a8, a9, a10, a11, a12, a13, a14, a15
<1> DEFINE r15 == a15
           r14 == a14 + 2 * r15
           r13 == a13 + 2 * r14
           r12 == a12 + 2 * r13
           r11 == a11 + 2 * r12
           r10 == a10 + 2 * r11
           r9 == a9 + 2 * r10
           r8 == a8 + 2 * r9
           r7 == a7 + 2 * r8
           r6 == a6 + 2 * r7
           r5 == a5 + 2 * r6
           r4 == a4 + 2 * r5
           r3 == a3 + 2 * r4
           r2 == a2 + 2 * r3
           r1 == a1 + 2 * r2
<1>1. v = a0 + 2 * r1
  BY <1>0a, <1>0b, SMT
<1>2. /\ r1 \in Int /\ r2 \in Int /\ r3 \in Int /\ r4 \in Int /\ r5 \in Int
      /\ r6 \in Int /\ r7 \in Int /\ r8 \in Int /\ r9 \in Int /\ r10 \in Int
      /\ r11 \in Int /\ r12 \in Int /\ r13 \in Int /\ r14 \in Int /\ r15 \in Int
  BY <1>0a, SMT
<1>3. /\ r1 = a1 + 2 * r2
      /\ r2 = a2 + 2 * r3
      /\ r3 = a3 + 2 * r4
      /\ r4 = a4 + 2 * r5
      /\ r5 = a5 + 2 * r6
      /\ r6 = a6 + 2 * r7
      /\ r7 = a7 + 2 * r8
      /\ r8 = a8 + 2 * r9
      /\ r9 = a9 + 2 * r10
      /\ r10 = a10 + 2 * r11
      /\ r11 = a11 + 2 * r12
      /\ r12 = a12 + 2 * r13
      /\ r13 = a13 + 2 * r14
      /\ r14 = a14 + 2 * r15
      /\ r15 = a15
  OBVIOUS
<1> HIDE DEF r1, r2, r3, r4, r5, r6, r7, r8, r9, r10, r11, r12, r13, r14, r15
<1>4. v \div 2 = r1 /\ (v \div 1) % 2 = a0
  BY <1>0a, <1>0c, <1>1, <1>2, SMT
<1>5. v \div 4 = r2 /\ (v \div 2) % 2 = a1
  <2>1. v \div 4 = (v \div 2) \div 2
    BY <1>0c, SMT
  <2>2. v \div 2 = a1 + 2 * r2 /\ r2 \in Int /\ a1 \in 0 .. 1
    BY <1>0a, <1>2, <1>3, <1>4
  <2> QED BY <2>1, <2>2, SMT
<1>6. v \div 8 = r3 /\ (v \div 4) % 2 = a2
  <2>1. v \div 8 = (v \div 4) \div 2
    BY <1>0c, SMT
  <2>2. v \div 4 = a2 + 2 * r3 /\ r3 \in Int /\ a2 \in 0 .. 1
    BY <1>0a, <1>2, <1>3, <1>5
  <2> QED BY <2>1, <2>2, SMT
<1>7. v \div 16 = r4 /\ (v \div 8) % 2 = a3
  <2>1. v \div 16 = (v \div 8) \div 2
    BY <1>0c, SMT
  <2>2. v \div 8 = a3 + 2 * r4 /\ r4 \in Int /\ a3 \in 0 .. 1
    BY <1>0a, <1>2, <1>3, <1>6
  <2> QED BY <2>1, <2>2, SMT
<1>8. v \div 32 = r5 /\ (v \div 16) % 2 = a4
  <2>1. v \div 32 = (v \div 16) \div 2
    BY <1>0c, SMT
  <2>2. v \div 16 = a4 + 2 * r5 /\ r5 \in Int /\ a4 \in 0 .. 1
    BY <1>0a, <1>2, <1>3, <1>7
  <2> QED BY <2>1, <2>2, SMT
<1>9. v \div 64 = r6 /\ (v \div 32) % 2 = a5
  <2>1. v \div 64 = (v \div 32) \div 2
    BY <1>0c, SMT
  <2>2. v \div 32 = a5 + 2 * r6 /\ r6 \in Int /\ a5 \in 0 .. 1
    BY <1>0a, <1>2, <1>3, <1>8
  <2> QED BY <2>1, <2>2, SMT
<1>10. v \div 128 = r7 /\ (v \div 64) % 2 = a6
  <2>1. v \div 128 = (v \div 64) \div 2
    BY <1>0c, SMT
  <2>2. v \div 64 = a6 + 2 * r7 /\ r7 \in Int /\ a6 \in 0 .. 1
    BY <1>0a, <1>2, <1>3, <1>9
  <2> QED BY <2>1, <2>2, SMT
<1>11. v \div 256 = r8 /\ (v \div 128) % 2 = a7
  <2>1. v \div 256 = (v \div 128) \div 2
    BY <1>0c, SMT
  <2>2. v \div 128 = a7 + 2 * r8 /\ r8 \in Int /\ a7 \in 0 .. 1
    BY <1>0a, <1>2, <1>3, <1>10
  <2> QED BY <2>1, <2>2, SMT
<1>12. v \div 512 = r9 /\ (v \div 256) % 2 = a8
  <2>1. v \div 512 = (v \div 256) \div 2
    BY <1>0c, SMT
  <2>2. v \div 256 = a8 + 2 * r9 /\ r9 \in Int /\ a8 \in 0 .. 1
    BY <1>0a, <1>2, <1>3, <1>11
  <2> QED BY <2>1, <2>2, SMT
<1>13. v \div 1024 = r10 /\ (v \div 512) % 2 = a9
  <2>1. v \div 1024 = (v \div 512) \div 2
    BY <1>0c, SMT
  <2>2. v \div 512 = a9 + 2 * r10 /\ r10 \in Int /\ a9 \in 0 .. 1
    BY <1>0a, <1>2, <1>3, <1>12
  <2> QED BY <2>1, <2>2, SMT
<1>14. v \div 2048 = r11 /\ (v \div 1024) % 2 = a10
  <2>1. v \div 2048 = (v \div 1024) \div 2
    BY <1>0c, SMT
  <2>2. v \div 1024 = a10 + 2 * r11 /\ r11 \in Int /\ a10 \in 0 .. 1
    BY <1>0a, <1>2, <1>3, <1>13
  <2> QED BY <2>1, <2>2, SMT
<1>15. v \div 4096 = r12 /\ (v \div 2048) % 2 = a11
  <2>1. v \div 4096 = (v \div 2048) \div 2
    BY <1>0c, SMT
  <2>2. v \div 2048 = a11 + 2 * r12 /\ r12 \in Int /\ a11 \in 0 .. 1
    BY <1>0a, <1>2, <1>3, <1>14
  <2> QED BY <2>1, <2>2, SMT
<1>16. v \div 8192 = r13 /\ (v \div 4096) % 2 = a12
  <2>1. v \div 8192 = (v \div 4096) \div 2
    BY <1>0c, SMT
  <2>2. v \div 4096 = a12 + 2 * r13 /\ r13 \in Int /\ a12 \in 0 .. 1
    BY <1>0a, <1>2, <1>3, <1>15
  <2> QED BY <2>1, <2>2, SMT
<1>17. v \div 16384 = r14 /\ (v \div 8192) % 2 = a13
  <2>1. v \div 16384 = (v \div 8192) \div 2
    BY <1>0c, SMT
  <2>2. v \div 8192 = a13 + 2 * r14 /\ r14 \in Int /\ a13 \in 0 .. 1
    BY <1>0a, <1>2, <1>3, <1>16
  <2> QED BY <2>1, <2>2, SMT
<1>18. v \div 32768 = r15 /\ (v \div 16384) % 2 = a14
  <2>1. v \div 32768 = (v \div 16384) \div 2
    BY <1>0c, SMT
  <2>2. v \div 16384 = a14 + 2 * r15 /\ r15 \in Int /\ a14 \in 0 .. 1
    BY <1>0a, <1>2, <1>3, <1>17
  <2> QED BY <2>1, <2>2, SMT
<1>19. (v \div 32768) % 2 = a15
  BY <1>0a, <1>3, <1>18, SMT
<1>20. 0 \in Bits(v) <=> 0 \in S
  <2>1. 0 \in Bits(v) <=> (v \div 1) % 2 = 1
    BY <1>0c, BitsAt
  <2> QED BY <2>1, <1>4, SMT DEF a0, At
<1>21. 1 \in Bits(v) <=> 1 \in S
  <2>1. 1 \in Bits(v) <=> (v \div 2) % 2 = 1
    BY <1>0c, BitsAt
  <2> QED BY <2>1, <1>5, SMT DEF a1, At
<1>22. 2 \in Bits(v) <=> 2 \in S
  <2>1. 2 \in Bits(v) <=> (v \div 4) % 2 = 1
    BY <1>0c, BitsAt
  <2> QED BY <2>1, <1>6, SMT DEF a2, At
<1>23. 3 \in Bits(v) <=> 3 \in S
  <2>1. 3 \in Bits(v) <=> (v \div 8) % 2 = 1
    BY <1>0c, BitsAt
  <2> QED BY <2>1, <1>7, SMT DEF a3, At
<1>24. 4 \in Bits(v) <=> 4 \in S
  <2>1. 4 \in Bits(v) <=> (v \div 16) % 2 = 1
    BY <1>0c, BitsAt
  <2> QED BY <2>1, <1>8, SMT DEF a4, At
<1>25. 5 \in Bits(v) <=> 5 \in S
  <2>1. 5 \in Bits(v) <=> (v \div 32) % 2 = 1
    BY <1>0c, BitsAt
  <2> QED BY <2>1, <1>9, SMT DEF a5, At
<1>26. 6 \in Bits(v) <=> 6 \in S
  <2>1. 6 \in Bits(v) <=> (v \div 64) % 2 = 1
    BY <1>0c, BitsAt
  <2> QED BY <2>1, <1>10, SMT DEF a6, At
<1>27. 7 \in Bits(v) <=> 7 \in S
  <2>1. 7 \in Bits(v) <=> (v \div 128) % 2 = 1
    BY <1>0c, BitsAt
  <2> QED BY <2>1, <1>11, SMT DEF a7, At
<1>28. 8 \in Bits(v) <=> 8 \in S
  <2>1. 8 \in Bits(v) <=> (v \div 256) % 2 = 1
    BY <1>0c, BitsAt
  <2> QED BY <2>1, <1>12, SMT DEF a8, At
<1>29. 9 \in Bits(v) <=> 9 \in S
  <2>1. 9 \in Bits(v) <=> (v \div 512) % 2 = 1
    BY <1>0c, BitsAt
  <2> QED BY <2>1, <1>13, SMT DEF a9, At
<1>30. 10 \in Bits(v) <=> 10 \in S
  <2>1. 10 \in Bits(v) <=> (v \div 1024) % 2 = 1
    BY <1>0c, BitsAt
  <2> QED BY <2>1, <1>14, SMT DEF a10, At
<1>31. 11 \in Bits(v) <=> 11 \in S
  <2>1. 11 \in Bits(v) <=> (v \div 2048) % 2 = 1
    BY <1>0c, BitsAt
  <2> QED BY <2>1, <1>15, SMT DEF a11, At
<1>32. 12 \in Bits(v) <=> 12 \in S
  <2>1. 12 \in Bits(v) <=> (v \div 4096) % 2 = 1
    BY <1>0c, BitsAt
  <2> QED BY <2>1, <1>16, SMT DEF a12, At
<1>33. 13 \in Bits(v) <=> 13 \in S
  <2>1. 13 \in Bits(v) <=> (v \div 8192) % 2 = 1
    BY <1>0c, BitsAt
  <2> QED BY <2>1, <1>17, SMT DEF a13, At
<1>34. 14 \in Bits(v) <=> 14 \in S
  <2>1. 14 \in Bits(v) <=> (v \div 16384) % 2 = 1
    BY <1>0c, BitsAt
  <2> QED BY <2>1, <1>18, SMT DEF a14, At
<1>35. 15 \in Bits(v) <=> 15 \in S
  <2>1. 15 \in Bits(v) <=> (v \div 32768) % 2 = 1
    BY <1>0c, BitsAt
  <2> QED BY <2>1, <1>19, SMT DEF a15, At
<1> QED BY <1>0d, <1>20, <1>21, <1>22, <1>23, <1>24, <1>25, <1>26, <1>27, <1>28, <1>29, <1>30, <1>31, <1>32, <1>33, <1>34, <1>35, SMT DEF v

\* A word is the value of its bits.
LEMMA ValueOfBits == ASSUME NEW v \in Word PROVE Value(Bits(v)) = v
<1>1. v \in Int /\ 0 <= v /\ v <= 65535
  BY WordFacts, InWord, SMT
<1>2. /\ At(Bits(v), 0) = (v \div 1) % 2
      /\ At(Bits(v), 1) = (v \div 2) % 2
      /\ At(Bits(v), 2) = (v \div 4) % 2
      /\ At(Bits(v), 3) = (v \div 8) % 2
      /\ At(Bits(v), 4) = (v \div 16) % 2
      /\ At(Bits(v), 5) = (v \div 32) % 2
      /\ At(Bits(v), 6) = (v \div 64) % 2
      /\ At(Bits(v), 7) = (v \div 128) % 2
      /\ At(Bits(v), 8) = (v \div 256) % 2
      /\ At(Bits(v), 9) = (v \div 512) % 2
      /\ At(Bits(v), 10) = (v \div 1024) % 2
      /\ At(Bits(v), 11) = (v \div 2048) % 2
      /\ At(Bits(v), 12) = (v \div 4096) % 2
      /\ At(Bits(v), 13) = (v \div 8192) % 2
      /\ At(Bits(v), 14) = (v \div 16384) % 2
      /\ At(Bits(v), 15) = (v \div 32768) % 2
  BY <1>1, BitsAt, SMT DEF At
<1>3. v = (v \div 2) * 2 + At(Bits(v), 0)
  BY <1>1, <1>2, SMT
<1>4. v \div 2 = 2 * (v \div 4) + At(Bits(v), 1)
  BY <1>1, <1>2, SMT
<1>5. v \div 4 = 2 * (v \div 8) + At(Bits(v), 2)
  BY <1>1, <1>2, SMT
<1>6. v \div 8 = 2 * (v \div 16) + At(Bits(v), 3)
  BY <1>1, <1>2, SMT
<1>7. v \div 16 = 2 * (v \div 32) + At(Bits(v), 4)
  BY <1>1, <1>2, SMT
<1>8. v \div 32 = 2 * (v \div 64) + At(Bits(v), 5)
  BY <1>1, <1>2, SMT
<1>9. v \div 64 = 2 * (v \div 128) + At(Bits(v), 6)
  BY <1>1, <1>2, SMT
<1>10. v \div 128 = 2 * (v \div 256) + At(Bits(v), 7)
  BY <1>1, <1>2, SMT
<1>11. v \div 256 = 2 * (v \div 512) + At(Bits(v), 8)
  BY <1>1, <1>2, SMT
<1>12. v \div 512 = 2 * (v \div 1024) + At(Bits(v), 9)
  BY <1>1, <1>2, SMT
<1>13. v \div 1024 = 2 * (v \div 2048) + At(Bits(v), 10)
  BY <1>1, <1>2, SMT
<1>14. v \div 2048 = 2 * (v \div 4096) + At(Bits(v), 11)
  BY <1>1, <1>2, SMT
<1>15. v \div 4096 = 2 * (v \div 8192) + At(Bits(v), 12)
  BY <1>1, <1>2, SMT
<1>16. v \div 8192 = 2 * (v \div 16384) + At(Bits(v), 13)
  BY <1>1, <1>2, SMT
<1>17. v \div 16384 = 2 * (v \div 32768) + At(Bits(v), 14)
  BY <1>1, <1>2, SMT
<1>18. v \div 32768 = At(Bits(v), 15)
  <2>1. (v \div 32768) % 2 = At(Bits(v), 15)
    BY <1>2
  <2> QED BY <1>1, <2>1, SMT
<1> DEFINE d1 == v \div 2
           d2 == v \div 4
           d3 == v \div 8
           d4 == v \div 16
           d5 == v \div 32
           d6 == v \div 64
           d7 == v \div 128
           d8 == v \div 256
           d9 == v \div 512
           d10 == v \div 1024
           d11 == v \div 2048
           d12 == v \div 4096
           d13 == v \div 8192
           d14 == v \div 16384
           d15 == v \div 32768
           b0 == At(Bits(v), 0)
           b1 == At(Bits(v), 1)
           b2 == At(Bits(v), 2)
           b3 == At(Bits(v), 3)
           b4 == At(Bits(v), 4)
           b5 == At(Bits(v), 5)
           b6 == At(Bits(v), 6)
           b7 == At(Bits(v), 7)
           b8 == At(Bits(v), 8)
           b9 == At(Bits(v), 9)
           b10 == At(Bits(v), 10)
           b11 == At(Bits(v), 11)
           b12 == At(Bits(v), 12)
           b13 == At(Bits(v), 13)
           b14 == At(Bits(v), 14)
           b15 == At(Bits(v), 15)
<1>19. /\ d1 \in Int /\ d2 \in Int /\ d3 \in Int /\ d4 \in Int /\ d5 \in Int
       /\ d6 \in Int /\ d7 \in Int /\ d8 \in Int /\ d9 \in Int /\ d10 \in Int
       /\ d11 \in Int /\ d12 \in Int /\ d13 \in Int /\ d14 \in Int /\ d15 \in Int
       /\ b0 \in Int /\ b1 \in Int /\ b2 \in Int /\ b3 \in Int /\ b4 \in Int /\ b5 \in Int
       /\ b6 \in Int /\ b7 \in Int /\ b8 \in Int /\ b9 \in Int /\ b10 \in Int /\ b11 \in Int
       /\ b12 \in Int /\ b13 \in Int /\ b14 \in Int /\ b15 \in Int
  <2>1. \A i : At(Bits(v), i) \in Int
    BY AtType, SMT
  <2> QED BY <1>1, <2>1, SMT
<1>20. /\ v = d1 * 2 + b0
       /\ d1 = 2 * d2 + b1
       /\ d2 = 2 * d3 + b2
       /\ d3 = 2 * d4 + b3
       /\ d4 = 2 * d5 + b4
       /\ d5 = 2 * d6 + b5
       /\ d6 = 2 * d7 + b6
       /\ d7 = 2 * d8 + b7
       /\ d8 = 2 * d9 + b8
       /\ d9 = 2 * d10 + b9
       /\ d10 = 2 * d11 + b10
       /\ d11 = 2 * d12 + b11
       /\ d12 = 2 * d13 + b12
       /\ d13 = 2 * d14 + b13
       /\ d14 = 2 * d15 + b14
       /\ d15 = b15
  BY <1>3, <1>4, <1>5, <1>6, <1>7, <1>8, <1>9, <1>10, <1>11, <1>12, <1>13, <1>14, <1>15, <1>16, <1>17, <1>18
<1>21. Value(Bits(v)) = b0 + 2 * b1 + 4 * b2 + 8 * b3 + 16 * b4 + 32 * b5 + 64 * b6
           + 128 * b7 + 256 * b8 + 512 * b9 + 1024 * b10 + 2048 * b11 + 4096 * b12
           + 8192 * b13 + 16384 * b14 + 32768 * b15
  BY ValueSum
<1> HIDE DEF d1, d2, d3, d4, d5, d6, d7, d8, d9, d10, d11, d12, d13, d14, d15,
             b0, b1, b2, b3, b4, b5, b6, b7, b8, b9, b10, b11, b12, b13, b14, b15
<1> QED BY <1>19, <1>20, <1>21, SMT
===============================================================================
