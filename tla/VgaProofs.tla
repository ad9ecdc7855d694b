------------------------------- MODULE VgaProofs -------------------------------
(***************************************************************************)
(* Theorems about module Vga, for every size of the screen, of its tab     *)
(* stops and of a byte, and for every set of characters, attributes and    *)
(* colours.                                                                *)
(***************************************************************************)
EXTENDS Vga, TLAPS

USE SizeAssumption, CellAssumption, PixelAssumption, InputAssumption

-------------------------------------------------------------------------------
(* Arithmetic *)

\* Quotient and remainder put together give the number back.
LEMMA DivMod ==
  ASSUME NEW n \in Nat, NEW d \in Nat \ {0}
  PROVE  /\ n \div d \in Nat /\ n % d \in 0 .. d - 1
         /\ (n \div d) * d + (n % d) = n
  OBVIOUS

\* Two digits are found again in the number they make.
LEMMA Digits ==
  ASSUME NEW d \in Nat \ {0}, NEW a \in Nat, NEW b \in 0 .. d - 1
  PROVE  /\ a * d + b \in Nat
         /\ (a * d + b) \div d = a
         /\ (a * d + b) % d = b
  OBVIOUS

-------------------------------------------------------------------------------
(* Surfaces: two copies of the same cells and the cells stored into *)

\* What TextCoherent and PicturesCoherent say of one surface.
Coherent(s, D) == \A p \in D : p \notin s.dirty => s.buf[p] = s.mem[p]

\* Drawing keeps a surface a surface and its copies coherent, whatever is
\* drawn where.
LEMMA DrawKeeps ==
  ASSUME NEW D, NEW V, NEW s \in Surface(D, V), Coherent(s, D),
         NEW area, NEW f, \A p \in D \intersect area : f[p] \in V
  PROVE  Draw(s, area, f) \in Surface(D, V) /\ Coherent(Draw(s, area, f), D)
<1>1. /\ s.buf \in [D -> V] /\ s.mem \in [D -> V] /\ s.dirty \in SUBSET D
      /\ DOMAIN s.buf = D /\ DOMAIN s.mem = D
  BY DEF Surface
<1> DEFINE d == Draw(s, area, f)
<1>2. /\ d.buf = [p \in D |-> IF p \in area THEN f[p] ELSE s.buf[p]]
      /\ d.mem = [p \in D |-> IF p \in area THEN f[p] ELSE s.mem[p]]
      /\ d.dirty = s.dirty \ area
  BY <1>1 DEF Draw
<1>3. d \in Surface(D, V)
  <2>1. d.buf \in [D -> V]
    BY <1>1, <1>2
  <2>2. d.mem \in [D -> V]
    BY <1>1, <1>2
  <2>3. d.dirty \in SUBSET D
    BY <1>1, <1>2
  <2>4. d = [buf |-> d.buf, mem |-> d.mem, dirty |-> d.dirty]
    BY DEF Draw
  <2> HIDE DEF d
  <2> QED BY <2>1, <2>2, <2>3, <2>4 DEF Surface
<1>4. Coherent(d, D)
  <2> SUFFICES ASSUME NEW p \in D, p \notin d.dirty PROVE d.buf[p] = d.mem[p]
    BY DEF Coherent
  <2>1. CASE p \in area
    BY <1>2, <2>1
  <2>2. CASE p \notin area
    <3>1. s.buf[p] = s.mem[p]
      BY <1>2, <2>2 DEF Coherent
    <3> HIDE DEF d
    <3> QED BY <1>2, <2>2, <3>1
  <2> QED BY <2>1, <2>2
<1> QED BY <1>3, <1>4

\* Filling with one value is drawing.
LEMMA FillKeeps ==
  ASSUME NEW D, NEW V, NEW s \in Surface(D, V), Coherent(s, D),
         NEW area, NEW v \in V
  PROVE  Fill(s, area, v) \in Surface(D, V) /\ Coherent(Fill(s, area, v), D)
<1>1. \A p \in D \intersect area : [q \in area |-> v][p] \in V
  OBVIOUS
<1> QED BY <1>1, DrawKeeps DEF Fill

\* A store of the guest marks the cell it makes differ.
LEMMA StoreKeeps ==
  ASSUME NEW D, NEW V, NEW s \in Surface(D, V), Coherent(s, D),
         NEW p \in D, NEW v \in V
  PROVE  Store(s, p, v) \in Surface(D, V) /\ Coherent(Store(s, p, v), D)
<1> DEFINE d == Store(s, p, v)
<1>1. s.buf \in [D -> V] /\ s.mem \in [D -> V] /\ s.dirty \in SUBSET D
  BY DEF Surface
<1>2. /\ d.buf = s.buf /\ d.mem = [s.mem EXCEPT ![p] = v]
      /\ d.dirty = s.dirty \union {p}
      /\ d = [buf |-> d.buf, mem |-> d.mem, dirty |-> d.dirty]
  BY DEF Store
<1> HIDE DEF d
<1>3. d.mem \in [D -> V] /\ d.dirty \in SUBSET D
  BY <1>1, <1>2
<1>4. d \in Surface(D, V)
  BY <1>1, <1>2, <1>3 DEF Surface
<1>5. Coherent(d, D)
  BY <1>1, <1>2 DEF Coherent
<1> QED BY <1>4, <1>5 DEF d

\* A sync makes the copies equal.
LEMMA SyncKeeps ==
  ASSUME NEW D, NEW V, NEW s \in Surface(D, V)
  PROVE  /\ FromMemory(s) \in Surface(D, V) /\ Coherent(FromMemory(s), D)
         /\ ToMemory(s) \in Surface(D, V) /\ Coherent(ToMemory(s), D)
  BY DEF FromMemory, ToMemory, Surface, Coherent

-------------------------------------------------------------------------------
(* What each action leaves on the screen and in the picture *)

ScreenOK(s) == s \in Surface(Grid, Cell) /\ Coherent(s, Grid)
PictureOK(s) == s \in Surface(Pixels, Colors) /\ Coherent(s, Pixels)

LEMMA PutOK ==
  ASSUME NEW s, ScreenOK(s), NEW y, NEW x, NEW c \in Cell
  PROVE  ScreenOK(Put(s, y, x, c))
  BY FillKeeps DEF Put, ScreenOK

\* Cells move up within the window, cells below it are filled in.
LEMMA RaisedCells ==
  ASSUME NEW s, ScreenOK(s), NEW w \in SUBSET Grid, NEW n \in Nat,
         NEW bottom \in Int, bottom <= HEIGHT - 1, NEW fill \in Cell
  PROVE  \A p \in w : Raised(s, w, n, bottom, fill)[p] \in Cell
<1> SUFFICES ASSUME NEW p \in w
             PROVE  (IF p[1] + n <= bottom THEN s.buf[<<p[1] + n, p[2]>>] ELSE fill) \in Cell
  BY DEF Raised
<1>1. s.buf \in [Grid -> Cell]
  BY DEF ScreenOK, Surface
<1>2. p[1] \in Rows /\ p[2] \in Cols
  BY DEF Grid
<1>3. p[1] + n <= bottom => <<p[1] + n, p[2]>> \in Grid
  BY <1>2 DEF Grid, Rows
<1> QED BY <1>1, <1>3

LEMMA BlankIsCell == Blank \in Cell /\ Zero \in Cell
  BY DEF Blank, Zero, Cell

LEMMA ScrollOK ==
  ASSUME NEW s, ScreenOK(s)
  PROVE  ScreenOK(ScrollUp(s))
<1>1. HEIGHT - 1 \in Int /\ 1 \in Nat
  OBVIOUS
<1>2. \A p \in Grid : Raised(s, Grid, 1, HEIGHT - 1, Blank)[p] \in Cell
  BY <1>1, RaisedCells, BlankIsCell
<1> QED BY <1>2, DrawKeeps DEF ScrollUp, ScreenOK

LEMMA AdvanceOK ==
  ASSUME NEW s, ScreenOK(s), NEW x, Advance(s, x)
  PROVE  ScreenOK(screen')
  BY ScrollOK DEF Advance, LineEnd

LEMMA TeletypeOK ==
  ASSUME ScreenOK(screen), NEW ch \in Typed, Teletype(ch)
  PROVE  ScreenOK(screen')
<1>1. CASE ch = "LF"
  BY <1>1, AdvanceOK DEF Teletype
<1>2. CASE ch = "CR"
  BY <1>2 DEF Teletype
<1>3. CASE ch = "BS"
  BY <1>3, PutOK, BlankIsCell DEF Teletype
<1>4. CASE ch = "HT"
  BY <1>4, AdvanceOK DEF Teletype
<1>5. CASE ch \notin {"LF", "CR", "BS", "HT"}
  <2>1. <<ch, 7>> \in Cell
    BY <1>5 DEF Cell
  <2>2. ScreenOK(Put(screen, cy, cx, <<ch, 7>>))
    BY <2>1, PutOK
  <2>3. Advance(Put(screen, cy, cx, <<ch, 7>>), cx + 1)
    BY <1>5 DEF Teletype
  <2> QED BY <2>2, <2>3, AdvanceOK
<1> QED BY <1>1, <1>2, <1>3, <1>4, <1>5

LEMMA ScrollWindowOK ==
  ASSUME ScreenOK(screen), NEW w \in Windows, ScrollWindow(w[1], w[2], w[3])
  PROVE  ScreenOK(screen')
<1> DEFINE last == Clamp(w[3][3], HEIGHT - 1)
           window == {p \in Grid : /\ p[1] \in w[3][1] .. last
                                   /\ p[2] \in w[3][2] .. Clamp(w[3][4], WIDTH - 1)}
           fill == <<Space, w[2]>>
<1>1. w[1] \in Nat /\ w[2] \in Attrs /\ w[3][3] \in Nat
  OBVIOUS
<1>2. last \in Int /\ last <= HEIGHT - 1
  BY <1>1 DEF Clamp
<1>3. fill \in Cell
  BY <1>1 DEF Cell
<1>4. window \in SUBSET Grid
  OBVIOUS
<1>5. screen' = IF w[1] = 0 THEN Fill(screen, window, fill)
                ELSE Draw(screen, window, Raised(screen, window, w[1], last, fill))
  BY DEF ScrollWindow
<1> HIDE DEF last, window, fill
<1>6. CASE w[1] = 0
  BY <1>3, <1>5, <1>6, FillKeeps DEF ScreenOK
<1>7. CASE w[1] # 0
  <2>1. \A p \in window : Raised(screen, window, w[1], last, fill)[p] \in Cell
    BY <1>1, <1>2, <1>3, <1>4, RaisedCells
  <2> QED BY <1>5, <1>7, <2>1, DrawKeeps DEF ScreenOK
<1> QED BY <1>6, <1>7

\* Every step keeps the two copies of the text screen coherent.
LEMMA ScreenStep ==
  ASSUME ScreenOK(screen), [Next]_vars
  PROVE  ScreenOK(screen')
<1> USE BlankIsCell
<1>1. ASSUME NEW ch \in Typed, Teletype(ch) PROVE ScreenOK(screen')
  BY <1>1, TeletypeOK
<1>2. ASSUME NEW c \in Drawn, NEW n \in 0 .. WIDTH + 1, WriteChar(c[1], c[2], n)
      PROVE  ScreenOK(screen')
  <2>1. <<c[1], c[2]>> \in Cell
    BY DEF Cell
  <2> QED BY <1>2, <2>1, FillKeeps DEF WriteChar, ScreenOK
<1>3. ASSUME NEW w \in Windows, ScrollWindow(w[1], w[2], w[3]) PROVE ScreenOK(screen')
  BY <1>3, ScrollWindowOK
<1>4. ASSUME NEW m \in Modes, SetVideoMode(m) PROVE ScreenOK(screen')
  BY <1>4, FillKeeps DEF SetVideoMode, ScreenOK
<1>5. ASSUME NEW p \in Grid, NEW c \in Drawn, StoreText(p, c) PROVE ScreenOK(screen')
  <2>1. c \in Cell
    BY DEF Cell
  <2> QED BY <1>5, <2>1, StoreKeeps DEF StoreText, ScreenOK
<1>6. ASSUME NEW x, NEW y, NEW c \in Drawn, PutChar(x, y, c) PROVE ScreenOK(screen')
  <2>1. c \in Cell
    BY DEF Cell
  <2> QED BY <1>6, <2>1, PutOK DEF PutChar
<1>7. CASE ClearScreen \/ Reset
  BY <1>7, FillKeeps DEF ClearScreen, Reset, ScreenOK
<1>8. CASE SyncBufferFromMemory \/ SyncBufferToMemory
  BY <1>8, SyncKeeps DEF SyncBufferFromMemory, SyncBufferToMemory, ScreenOK
<1>9. CASE screen' = screen
  BY <1>9
<1>10. /\ GraphicsService => screen' = screen
       /\ PortAccess => screen' = screen
       /\ \A p \in Pixels, c \in Colors : StorePixel(p, c) => screen' = screen
       /\ \A x, y : SetCursorPosition(x, y) => screen' = screen
  BY DEF GraphicsService, PutPixel, PortAccess, WriteIndex, WriteData, ReadStatus,
         StorePixel, SetCursorPosition
<1>11. UNCHANGED vars => screen' = screen
  BY DEF vars
<1> QED BY <1>1, <1>2, <1>3, <1>4, <1>5, <1>6, <1>7, <1>8, <1>9, <1>10, <1>11
        DEF Next, TextService, ModeService, DirectStore, HostOperation

\* And the two copies of the picture.
LEMMA PictureStep ==
  ASSUME PictureOK(picture), [Next]_vars
  PROVE  PictureOK(picture')
<1>2. ASSUME NEW p \in Pixels, NEW c \in Colors, PutPixel(p, c) PROVE PictureOK(picture')
  BY <1>2, FillKeeps DEF PutPixel, PictureOK
<1>3. ASSUME NEW p \in Pixels, NEW c \in Colors, StorePixel(p, c) PROVE PictureOK(picture')
  BY <1>3, StoreKeeps DEF StorePixel, PictureOK
<1>4. ASSUME NEW m \in Modes, SetVideoMode(m) PROVE PictureOK(picture')
  <2>1. CASE m = "GRAPHICS"
    <3>1. picture' = [buf |-> [p \in Pixels |-> 0], mem |-> picture.mem, dirty |-> Pixels]
      BY <1>4, <2>1 DEF SetVideoMode
    <3>2. picture.mem \in [Pixels -> Colors]
      BY DEF PictureOK, Surface
    <3> QED BY <3>1, <3>2 DEF PictureOK, Surface, Coherent
  <2>2. CASE m # "GRAPHICS"
    BY <1>4, <2>2 DEF SetVideoMode
  <2> QED BY <2>1, <2>2
<1>5. CASE Reset
  <2>1. picture' = [buf |-> picture.buf, mem |-> [p \in Pixels |-> 0], dirty |-> Pixels]
    BY <1>5 DEF Reset
  <2>2. picture.buf \in [Pixels -> Colors]
    BY DEF PictureOK, Surface
  <2> QED BY <2>1, <2>2 DEF PictureOK, Surface, Coherent
<1>6. CASE ClearScreen
  BY <1>6, FillKeeps DEF ClearScreen, PictureOK
<1>7. CASE SyncBufferFromMemory \/ SyncBufferToMemory
  BY <1>7, SyncKeeps DEF SyncBufferFromMemory, SyncBufferToMemory, PictureOK
<1>8. CASE picture' = picture
  BY <1>8
<1>9. /\ TextService => picture' = picture
      /\ PortAccess => picture' = picture
      /\ \A p, c : StoreText(p, c) => picture' = picture
      /\ \A x, y, c : PutChar(x, y, c) => picture' = picture
  BY DEF TextService, Teletype, WriteChar, ScrollWindow, SetCursorPosition,
         PortAccess, WriteIndex, WriteData, ReadStatus, StoreText, PutChar
<1>10. UNCHANGED vars => picture' = picture
  BY DEF vars
<1> QED BY <1>2, <1>3, <1>4, <1>5, <1>6, <1>7, <1>8, <1>9, <1>10
        DEF Next, GraphicsService, ModeService, DirectStore, HostOperation

-------------------------------------------------------------------------------
(* The cursor *)

\* Where the cursor can be, and what it says of the programmed halves.
CursorOK == /\ cx \in Cols /\ cy \in Nat /\ byPort \in BOOLEAN
            /\ cy \in Rows \/ byPort
            /\ high \in Registers \union {None} /\ low \in Registers \union {None}
            /\ CursorHalves

\* Moving the cursor to a place on the screen forgets the programmed halves.
LEMMA MoveToOK ==
  ASSUME NEW x \in Cols, NEW y \in Nat, MoveTo(x, y), byPort' \in BOOLEAN,
         y \in Rows \/ byPort'
  PROVE  CursorOK'
  BY DEF MoveTo, CursorOK, CursorHalves, None

\* Output moves right within the row, or to the start of a row of the screen.
LEMMA AdvanceCursor ==
  ASSUME CursorOK, NEW s, NEW x \in Nat, Advance(s, x)
  PROVE  CursorOK'
<1>1. CASE x < WIDTH
  <2>1. x \in Cols
    BY <1>1 DEF Cols
  <2> QED BY <1>1, <2>1, MoveToOK DEF Advance, CursorOK
<1>2. CASE ~(x < WIDTH)
  <2>1. 0 \in Cols /\ NextRow \in Nat /\ NextRow \in Rows
    BY DEF Cols, Rows, NextRow, CursorOK
  <2>2. MoveTo(0, NextRow) /\ byPort' = FALSE
    BY <1>2 DEF Advance
  <2> QED BY <2>1, <2>2, MoveToOK
<1> QED BY <1>1, <1>2

LEMMA TeletypeCursor ==
  ASSUME CursorOK, NEW ch \in Typed, Teletype(ch)
  PROVE  CursorOK'
<1>1. cx \in Nat /\ cx \in Cols /\ 0 \in Cols /\ cy \in Nat
  BY DEF CursorOK, Cols
<1>2. CASE ch = "LF"
  BY <1>2, AdvanceCursor DEF Teletype
<1>3. CASE ch = "CR"
  BY <1>1, <1>3, MoveToOK DEF Teletype, CursorOK
<1>4. CASE ch = "BS"
  <2>1. cx > 0 => cx - 1 \in Cols
    BY <1>1 DEF Cols
  <2> QED BY <1>1, <1>4, <2>1, MoveToOK DEF Teletype, CanStepBack, CursorOK
<1>5. CASE ch = "HT"
  <2>1. cx \div TAB \in Nat
    BY <1>1, DivMod
  <2>2. ((cx \div TAB) + 1) * TAB \in Nat
    BY <2>1
  <2> QED BY <1>5, <2>2, AdvanceCursor DEF Teletype
<1>6. CASE ch \notin {"LF", "CR", "BS", "HT"}
  <2>1. Advance(Put(screen, cy, cx, <<ch, 7>>), cx + 1) /\ cx + 1 \in Nat
    BY <1>1, <1>6 DEF Teletype
  <2> QED BY <2>1, AdvanceCursor
<1> QED BY <1>2, <1>3, <1>4, <1>5, <1>6

\* The offset the cursor is moved to is the offset it then has.
LEMMA MoveToOffsetOK ==
  ASSUME NEW o \in Nat, MoveToOffset(o)
  PROVE  cx' \in Cols /\ cy' \in Nat /\ byPort' = TRUE /\ Offset' = o
<1>1. /\ o \div WIDTH \in Nat /\ o % WIDTH \in 0 .. WIDTH - 1
      /\ (o \div WIDTH) * WIDTH + (o % WIDTH) = o
  BY DivMod
<1> QED BY <1>1 DEF MoveToOffset, Offset, Cols

LEMMA WriteDataCursor ==
  ASSUME CursorOK, NEW v \in PortBytes, WriteData(v)
  PROVE  CursorOK'
<1>1. v \in Registers /\ v \in 0 .. BYTE - 1 /\ v \in Nat /\ v # None
  BY DEF Registers, None
<1>2. Offset \in Nat
  <2>1. cx \in Nat /\ cy \in Nat
    BY DEF CursorOK, Cols
  <2>2. cy * WIDTH \in Nat
    BY <2>1
  <2> QED BY <2>1, <2>2 DEF Offset
<1>9. BYTE \in Nat \ {0}
  OBVIOUS
<1> DEFINE upper == Offset \div BYTE
           lower == Offset % BYTE
<1>3. upper \in Nat /\ lower \in 0 .. BYTE - 1
  <2> DEFINE o == Offset
  <2>1. o \in Nat
    BY <1>2
  <2> HIDE DEF o
  <2>2. o \div BYTE \in Nat /\ o % BYTE \in 0 .. BYTE - 1
    BY <1>9, <2>1, DivMod
  <2> QED BY <2>2 DEF o
<1>4. (high # None => upper = high) /\ (low # None => lower = low)
  BY DEF CursorOK, CursorHalves
<1>5. high \in Registers \union {None} /\ low \in Registers \union {None}
  BY DEF CursorOK
<1>6. CASE crtc.index = CURSOR_HIGH
  <2>1. MoveToOffset(v * BYTE + lower) /\ high' = v /\ low' = low
    BY <1>6 DEF WriteData, WithHigh, CURSOR_HIGH, CURSOR_LOW
  <2> HIDE DEF upper, lower
  <2>2. /\ v * BYTE + lower \in Nat
        /\ (v * BYTE + lower) \div BYTE = v /\ (v * BYTE + lower) % BYTE = lower
    BY <1>1, <1>3, Digits
  <2>3. cx' \in Cols /\ cy' \in Nat /\ byPort' = TRUE /\ Offset' = v * BYTE + lower
    BY <2>1, <2>2, MoveToOffsetOK
  <2> QED BY <1>1, <1>4, <1>5, <2>1, <2>2, <2>3 DEF CursorOK, CursorHalves
<1>7. CASE crtc.index = CURSOR_LOW
  <2> DEFINE kept == upper % BYTE
  <2>1. MoveToOffset(kept * BYTE + v) /\ low' = v /\ high' = high
    BY <1>7 DEF WriteData, WithLow, CURSOR_HIGH, CURSOR_LOW
  <2> HIDE DEF upper, lower
  <2>2. kept \in Nat /\ (high # None => kept = high)
    <3>1. kept \in 0 .. BYTE - 1
      BY <1>3, <1>9, DivMod
    <3>2. ASSUME high # None PROVE kept = high
      <4>1. upper = high /\ high \in 0 .. BYTE - 1
        BY <1>4, <1>5, <3>2 DEF Registers
      <4>2. high % BYTE = high
        BY <4>1
      <4> QED BY <4>1, <4>2
    <3> QED BY <3>1, <3>2
  <2> HIDE DEF kept
  <2>3. /\ kept * BYTE + v \in Nat
        /\ (kept * BYTE + v) \div BYTE = kept /\ (kept * BYTE + v) % BYTE = v
    BY <1>1, <2>2, Digits
  <2>4. cx' \in Cols /\ cy' \in Nat /\ byPort' = TRUE /\ Offset' = kept * BYTE + v
    BY <2>1, <2>3, MoveToOffsetOK
  <2> QED BY <1>1, <1>5, <2>1, <2>2, <2>3, <2>4 DEF CursorOK, CursorHalves
<1>8. CASE crtc.index \notin {CURSOR_HIGH, CURSOR_LOW}
  BY <1>8 DEF WriteData, cursorVars, CursorOK, CursorHalves, Offset
<1> QED BY <1>6, <1>7, <1>8

\* Every step keeps the cursor where it may be and its halves in force.
LEMMA CursorStep ==
  ASSUME CursorOK, [Next]_vars
  PROVE  CursorOK'
<1>1. 0 \in Cols /\ 0 \in Rows /\ 0 \in Nat
  BY DEF Cols, Rows
<1>2. ASSUME NEW ch \in Typed, Teletype(ch) PROVE CursorOK'
  BY <1>2, TeletypeCursor
<1>3. ASSUME NEW x \in 0 .. WIDTH, NEW y \in 0 .. HEIGHT, SetCursorPosition(x, y)
      PROVE  CursorOK'
  <2>1. Clamp(x, WIDTH - 1) \in Cols /\ Clamp(y, HEIGHT - 1) \in Rows
    BY DEF Clamp, Cols, Rows
  <2>2. Clamp(y, HEIGHT - 1) \in Nat
    BY <2>1 DEF Rows
  <2>3. MoveTo(Clamp(x, WIDTH - 1), Clamp(y, HEIGHT - 1)) /\ byPort' = FALSE
    BY <1>3 DEF SetCursorPosition
  <2> QED BY <2>1, <2>2, <2>3, MoveToOK
<1>4. ASSUME NEW m \in Modes, SetVideoMode(m) PROVE CursorOK'
  BY <1>1, <1>4, MoveToOK DEF SetVideoMode
<1>5. CASE ClearScreen \/ Reset
  BY <1>1, <1>5, MoveToOK DEF ClearScreen, Reset
<1>6. ASSUME NEW v \in PortBytes, WriteData(v) PROVE CursorOK'
  BY <1>6, WriteDataCursor
<1>7. CASE UNCHANGED cursorVars
  BY <1>7 DEF cursorVars, CursorOK, CursorHalves, Offset
<1>8. /\ \A ch, a, n : WriteChar(ch, a, n) => UNCHANGED cursorVars
      /\ \A n, a, w : ScrollWindow(n, a, w) => UNCHANGED cursorVars
      /\ GraphicsService => UNCHANGED cursorVars
      /\ \A v : WriteIndex(v) => UNCHANGED cursorVars
      /\ ReadStatus => UNCHANGED cursorVars
      /\ DirectStore => UNCHANGED cursorVars
      /\ \A x, y, c : PutChar(x, y, c) => UNCHANGED cursorVars
      /\ SyncBufferFromMemory \/ SyncBufferToMemory => UNCHANGED cursorVars
      /\ UNCHANGED vars => UNCHANGED cursorVars
  BY DEF WriteChar, ScrollWindow, GraphicsService, PutPixel, WriteIndex, ReadStatus,
         DirectStore, StoreText, StorePixel, PutChar, SyncBufferFromMemory,
         SyncBufferToMemory, vars
<1> QED BY <1>2, <1>3, <1>4, <1>5, <1>6, <1>7, <1>8
        DEF Next, TextService, ModeService, PortAccess, HostOperation

-------------------------------------------------------------------------------
(* The theorems *)

\* The variables no property is about keep their types.
RestOK == /\ mode \in Modes
          /\ crtc \in [index : Registers, data : Registers]
          /\ vretrace \in BOOLEAN /\ status \in {None, 0, 8}

LEMMA RestStep ==
  ASSUME RestOK, CursorOK, [Next]_vars
  PROVE  RestOK'
<1>1. \A v \in PortBytes : v \in Registers
  BY DEF Registers
<1>2. ASSUME NEW x \in 0 .. WIDTH, NEW y \in 0 .. HEIGHT, SetCursorPosition(x, y)
      PROVE  RestOK'
  <2> DEFINE o == Clamp(y, HEIGHT - 1) * WIDTH + Clamp(x, WIDTH - 1)
  <2>1. Clamp(y, HEIGHT - 1) \in Nat /\ Clamp(x, WIDTH - 1) \in Nat
    BY DEF Clamp
  <2>2. o \in Nat
    BY <2>1
  <2>3. crtc' = [crtc EXCEPT !.data = o % BYTE]
    BY <1>2 DEF SetCursorPosition
  <2> HIDE DEF o
  <2>4. BYTE \in Nat \ {0}
    OBVIOUS
  <2>5. o % BYTE \in Registers
    BY <2>2, <2>4, DivMod DEF Registers
  <2> QED BY <1>2, <2>3, <2>5 DEF SetCursorPosition, RestOK
<1>3. ASSUME NEW v \in PortBytes, WriteIndex(v) \/ WriteData(v) PROVE RestOK'
  BY <1>1, <1>3 DEF WriteIndex, WriteData, RestOK
<1>4. CASE ReadStatus
  BY <1>4 DEF ReadStatus, Toggled, RestOK
<1>5. CASE \/ \E m \in Modes : SetVideoMode(m)
           \/ Reset
  BY <1>5 DEF SetVideoMode, Reset, portVars, RestOK, Modes
<1>6. CASE UNCHANGED <<mode, portVars>>
  BY <1>6 DEF portVars, RestOK
<1>7. /\ \A ch : Teletype(ch) => UNCHANGED <<mode, portVars>>
      /\ \A ch, a, n : WriteChar(ch, a, n) => UNCHANGED <<mode, portVars>>
      /\ \A n, a, w : ScrollWindow(n, a, w) => UNCHANGED <<mode, portVars>>
      /\ GraphicsService => UNCHANGED <<mode, portVars>>
      /\ DirectStore => UNCHANGED <<mode, portVars>>
      /\ \A x, y, c : PutChar(x, y, c) => UNCHANGED <<mode, portVars>>
      /\ ClearScreen \/ SyncBufferFromMemory \/ SyncBufferToMemory
             => UNCHANGED <<mode, portVars>>
      /\ UNCHANGED vars => UNCHANGED <<mode, portVars>>
  BY DEF Teletype, WriteChar, ScrollWindow, GraphicsService, PutPixel, DirectStore,
         StoreText, StorePixel, PutChar, ClearScreen, SyncBufferFromMemory,
         SyncBufferToMemory, vars
<1> QED BY <1>2, <1>3, <1>4, <1>5, <1>6, <1>7
        DEF Next, TextService, ModeService, PortAccess, HostOperation

\* The inductive invariant of the device.
IInv == ScreenOK(screen) /\ PictureOK(picture) /\ CursorOK /\ RestOK

LEMMA InitIInv == Init => IInv
<1> SUFFICES ASSUME Init PROVE IInv
  OBVIOUS
<1>1. ScreenOK(screen)
  BY BlankIsCell DEF Init, ScreenOK, Surface, Coherent
<1>2. PictureOK(picture)
  BY DEF Init, PictureOK, Surface, Coherent
<1>3. CursorOK
  <2>1. 0 \in Cols /\ 0 \in Rows /\ 0 \in Nat
    BY DEF Cols, Rows
  <2> QED BY <2>1 DEF Init, CursorOK, CursorHalves
<1>4. RestOK
  <2>1. 0 \in Registers
    BY DEF Registers
  <2> QED BY <2>1 DEF Init, RestOK, Modes
<1> QED BY <1>1, <1>2, <1>3, <1>4 DEF IInv

LEMMA StepIInv == IInv /\ [Next]_vars => IInv'
  BY ScreenStep, PictureStep, CursorStep, RestStep DEF IInv, ScreenOK, PictureOK

\* In every reachable state of every device the invariant holds.
THEOREM DeviceInvariant == Spec => []IInv
  BY InitIInv, StepIInv, PTL DEF Spec

\* Every variable of the device stays in the range the code gives it: no cursor
\* left of the first column or above the first row, bytes in the registers.
THEOREM DeviceTypeCorrect == Spec => []TypeOK
<1>1. IInv => TypeOK
  <2>1. CursorOK => cx \in Nat
    BY DEF CursorOK, Cols
  <2> QED BY <2>1 DEF IInv, ScreenOK, PictureOK, CursorOK, RestOK, TypeOK
<1> QED BY <1>1, DeviceInvariant, PTL

\* Buffer and text window agree on every cell the guest did not store into, on
\* screens of every size.
THEOREM TextStaysCoherent == Spec => []TextCoherent
<1>1. IInv => TextCoherent
  BY DEF IInv, ScreenOK, Coherent, TextCoherent
<1> QED BY <1>1, DeviceInvariant, PTL

\* The same for the pixels of the graphics buffer and its window.
THEOREM PicturesStayCoherent == Spec => []PicturesCoherent
<1>1. IInv => PicturesCoherent
  BY DEF IInv, PictureOK, Coherent, PicturesCoherent
<1> QED BY <1>1, DeviceInvariant, PTL

\* Output never takes the cursor off the screen.
THEOREM CursorStaysOnScreen == Spec => []CursorOnScreen
<1>1. IInv => CursorOnScreen
  BY DEF IInv, CursorOK, CursorOnScreen
<1> QED BY <1>1, DeviceInvariant, PTL

\* Each half of a cursor offset stays as programmed until something other than
\* the CRTC moves the cursor, for every width of the screen and of a byte.
THEOREM CursorHalvesStay == Spec => []CursorHalves
<1>1. IInv => CursorHalves
  BY DEF IInv, CursorOK
<1> QED BY <1>1, DeviceInvariant, PTL
===============================================================================
