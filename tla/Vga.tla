--------------------------------- MODULE Vga ----------------------------------
(***************************************************************************)
(* The display of E2Emu: class VGADevice (src/devices/vga_device.cpp), the *)
(* services of INT 10h that drive it (src/interrupts/                      *)
(* interrupt_controller.cpp), and the two windows of memory that mirror it.*)
(*                                                                         *)
(* The device keeps its own copy of the screen, m_text_buffer, beside the  *)
(* text window of memory at B8000h, and the same for graphics at A0000h.   *)
(* Its operations write both copies; a guest that stores into the window   *)
(* changes only memory until somebody calls a sync.  The CRT controller    *)
(* shows the cursor to guests as two bytes of one offset.                  *)
(*                                                                         *)
(* A screen is a record of both copies, and of the cells the guest stored  *)
(* into directly since a device operation last wrote them ("dirty", a      *)
(* history the properties need).  Sizes are constants: 80, 25, 8 and 256   *)
(* in the program.                                                         *)
(***************************************************************************)
EXTENDS Integers

CONSTANTS
    WIDTH, HEIGHT,  \* TEXT_WIDTH, TEXT_HEIGHT
    TAB,            \* distance of the tab stops
    BYTE,           \* values of a byte, which an offset is split into two of
    Chars,          \* characters a cell can hold
    Attrs,          \* attributes a cell can hold
    Space, Nul,     \* two of the characters
    Pixels,         \* positions of the graphics buffer
    Colors,         \* colours of a pixel, 0 is black
    \* What host and guest pass to the operations:
    Typed,          \* characters for teletype output
    Drawn,          \* cells for putChar, INT 10h/09h and direct stores
    Windows,        \* calls of INT 10h/06h: <<lines, attribute, window>>
    PortBytes       \* bytes written to the CRTC

ASSUME SizeAssumption == /\ WIDTH \in Nat \ {0} /\ HEIGHT \in Nat \ {0}
                         /\ TAB \in Nat \ {0}
                         /\ BYTE \in Nat /\ BYTE > 15
ASSUME CellAssumption == /\ Space \in Chars /\ Nul \in Chars
                         /\ {0, 7} \subseteq Attrs
ASSUME PixelAssumption == 0 \in Colors
ASSUME InputAssumption ==
    /\ Typed \subseteq Chars \union {"LF", "CR", "BS", "HT"}
    /\ Drawn \subseteq Chars \X Attrs
    /\ Windows \subseteq Nat \X Attrs \X (Nat \X Nat \X Nat \X Nat)
    /\ PortBytes \subseteq 0 .. BYTE - 1

Control == {"LF", "CR", "BS", "HT"}      \* the characters teletype acts on
Rows == 0 .. HEIGHT - 1
Cols == 0 .. WIDTH - 1
Grid == Rows \X Cols
Cell == Chars \X Attrs
Blank == <<Space, 7>>
Zero == <<Nul, 0>>
Registers == 0 .. BYTE - 1
Modes == {"TEXT", "GRAPHICS", "UNKNOWN"}
None == -1

VARIABLES
    screen,         \* text: buf, the buffer; mem, the window; dirty
    picture,        \* graphics: the same three
    mode,           \* m_current_mode
    cx, cy,         \* m_cursor_x, m_cursor_y
    crtc,           \* m_crtc_index and m_crtc_data
    vretrace,       \* m_vretrace
    status,         \* what the guest last read from port 3DAh
    high, low,      \* the halves of the cursor offset the guest programmed
                    \* since anything else moved the cursor
    byPort          \* the cursor was last moved through the CRTC

cursorVars == <<cx, cy, high, low, byPort>>
portVars == <<crtc, vretrace, status>>
vars == <<screen, picture, mode, cursorVars, portVars>>

Surface(D, V) == [buf : [D -> V], mem : [D -> V], dirty : SUBSET D]

TypeOK ==
    /\ screen \in Surface(Grid, Cell)
    /\ picture \in Surface(Pixels, Colors)
    /\ mode \in Modes
    /\ cx \in Nat /\ cy \in Nat
    /\ crtc \in [index : Registers, data : Registers]
    /\ vretrace \in BOOLEAN /\ status \in {None, 0, 8}
    /\ high \in Registers \union {None} /\ low \in Registers \union {None}
    /\ byPort \in BOOLEAN

-------------------------------------------------------------------------------
(* Drawing *)

\* Both copies get the same values on area; the rest is left alone.
MutDrawBufferOnly(s, area, f) ==
    [s EXCEPT !.buf = [p \in DOMAIN s.buf |-> IF p \in area THEN f[p] ELSE s.buf[p]],
              !.dirty = @ \ area]
Draw(s, area, f) ==
    [buf   |-> [p \in DOMAIN s.buf |-> IF p \in area THEN f[p] ELSE s.buf[p]],
     mem   |-> [p \in DOMAIN s.mem |-> IF p \in area THEN f[p] ELSE s.mem[p]],
     dirty |-> s.dirty \ area]

Fill(s, area, v) == Draw(s, area, [p \in area |-> v])

\* putChar: positions outside the screen are ignored.
Put(s, y, x, c) == Fill(s, {<<y, x>>} \intersect Grid, c)

\* The new contents of window w when everything in it moves up n rows.
MutRaisedLastRowKept(s, w, n, bottom, fill) ==
    [p \in w |-> IF p[1] + n <= bottom THEN s.buf[<<p[1] + n, p[2]>>] ELSE s.buf[p]]
Raised(s, w, n, bottom, fill) ==
    [p \in w |-> IF p[1] + n <= bottom THEN s.buf[<<p[1] + n, p[2]>>] ELSE fill]

\* scrollUp: every row is copied from the buffer, never from memory, and
\* written to both.
ScrollUp(s) == Draw(s, Grid, Raised(s, Grid, 1, HEIGHT - 1, Blank))

-------------------------------------------------------------------------------
(* The cursor *)

\* Anything but the CRTC moved the cursor: no programmed half is in force.
MoveTo(x, y) == cx' = x /\ cy' = y /\ high' = None /\ low' = None

\* The row after the last one is made by scrolling.
MutNextRowUnbounded == cy + 1
NextRow == IF cy + 1 < HEIGHT THEN cy + 1 ELSE HEIGHT - 1
LineEnd(s) == IF cy + 1 < HEIGHT THEN s ELSE ScrollUp(s)

Advance(s, x) == IF x < WIDTH
                 THEN MoveTo(x, cy) /\ screen' = s /\ UNCHANGED byPort
                 ELSE /\ MoveTo(0, NextRow) /\ screen' = LineEnd(s)
                      /\ byPort' = FALSE

MutCanStepBack == TRUE
CanStepBack == cx > 0

\* teletypeOutput: print, or act on one of four control characters.
Teletype(ch) ==
    /\ CASE ch = "LF" -> Advance(screen, WIDTH)
         [] ch = "CR" -> MoveTo(0, cy) /\ UNCHANGED <<screen, byPort>>
         [] ch = "BS" -> IF CanStepBack
                         THEN /\ MoveTo(cx - 1, cy) /\ UNCHANGED byPort
                              /\ screen' = Put(screen, cy, cx - 1, Blank)
                         ELSE MoveTo(cx, cy) /\ UNCHANGED <<screen, byPort>>
         [] ch = "HT" -> Advance(screen, ((cx \div TAB) + 1) * TAB)
         [] OTHER     -> Advance(Put(screen, cy, cx, <<ch, 7>>), cx + 1)
    /\ UNCHANGED <<picture, mode, portVars>>

\* std::clamp
Clamp(v, top) == IF v > top THEN top ELSE v

\* INT 10h/02h and setCursorPosition: the position is clamped to the screen and
\* the data register takes the low half of the offset.
SetCursorPosition(x, y) ==
    LET col == Clamp(x, WIDTH - 1)
        row == Clamp(y, HEIGHT - 1)
    IN  /\ MoveTo(col, row) /\ byPort' = FALSE
        /\ crtc' = [crtc EXCEPT !.data = (row * WIDTH + col) % BYTE]
        /\ UNCHANGED <<screen, picture, mode, vretrace, status>>

-------------------------------------------------------------------------------
(* INT 10h *)

\* INT 10h/09h: n copies from the cursor on, cut off at the end of the row.
\* Every n beyond the width does the same.
WriteChar(ch, attr, n) ==
    /\ screen' = Fill(screen, {p \in Grid : p[1] = cy /\ p[2] \in cx .. cx + n - 1},
                      <<ch, attr>>)
    /\ UNCHANGED <<picture, mode, cursorVars, portVars>>

\* INT 10h/06h: scroll a window up n rows, or clear it when n = 0.  The lower
\* right corner is clamped to the screen, the upper left one is not.
ScrollWindow(n, attr, corners) ==
    LET top == corners[1]
        left == corners[2]
        bottom == corners[3]
        right == corners[4]
        last == Clamp(bottom, HEIGHT - 1)
        window == {p \in Grid : /\ p[1] \in top .. last
                                /\ p[2] \in left .. Clamp(right, WIDTH - 1)}
        fill == <<Space, attr>>
    IN  /\ screen' = IF n = 0
                     THEN Fill(screen, window, fill)
                     ELSE Draw(screen, window, Raised(screen, window, n, last, fill))
        /\ UNCHANGED <<picture, mode, cursorVars, portVars>>

\* INT 10h/00h and setVideoMode.  Text mode clears buffer and window to zero
\* bytes; graphics mode clears the buffer and leaves its window as it is.
SetVideoMode(m) ==
    /\ mode' = m
    /\ MoveTo(0, 0) /\ byPort' = FALSE
    /\ screen' = IF m = "TEXT" THEN Fill(screen, Grid, Zero) ELSE screen
    /\ picture' = IF m = "GRAPHICS"
                  THEN [buf   |-> [p \in Pixels |-> 0], mem |-> picture.mem,
                        dirty |-> Pixels]
                  ELSE picture
    /\ UNCHANGED <<portVars>>

\* INT 10h/0Ch and putPixel.
PutPixel(p, c) ==
    /\ picture' = Fill(picture, {p} \intersect Pixels, c)
    /\ UNCHANGED <<screen, mode, cursorVars, portVars>>

-------------------------------------------------------------------------------
(* The CRT controller *)

Offset == cy * WIDTH + cx

WriteIndex(v) ==
    /\ crtc' = [crtc EXCEPT !.index = v]
    /\ UNCHANGED <<screen, picture, mode, cursorVars, vretrace, status>>

\* The cursor goes to an offset of two bytes, which may lie below the screen.
MoveToOffset(o) == cx' = o % WIDTH /\ cy' = o \div WIDTH /\ byPort' = TRUE

\* One byte of the offset is replaced, the other one masked in.
MutWithHigh(o, v) == v * BYTE + o
WithHigh(o, v) == v * BYTE + (o % BYTE)
WithLow(o, v) == ((o \div BYTE) % BYTE) * BYTE + v

CURSOR_HIGH == 14       \* 0Eh
CURSOR_LOW == 15        \* 0Fh

\* Writing one half of the cursor offset keeps the other.
WriteData(v) ==
    /\ crtc' = [crtc EXCEPT !.data = v]
    /\ CASE crtc.index = CURSOR_HIGH ->
              MoveToOffset(WithHigh(Offset, v)) /\ high' = v /\ UNCHANGED low
         [] crtc.index = CURSOR_LOW ->
              MoveToOffset(WithLow(Offset, v)) /\ low' = v
                /\ UNCHANGED high
         [] OTHER -> UNCHANGED cursorVars
    /\ UNCHANGED <<screen, picture, mode, vretrace, status>>

\* Port 3DAh: every read flips the retrace bit; no other bit is ever set.
MutToggled == TRUE
Toggled == ~vretrace
ReadStatus ==
    /\ vretrace' = Toggled
    /\ status' = IF vretrace' THEN 8 ELSE 0
    /\ UNCHANGED <<screen, picture, mode, cursorVars, crtc>>

-------------------------------------------------------------------------------
(* Stores of the guest into the windows, and the rest of the host's API *)

Store(s, p, v) == [buf   |-> s.buf,
                   mem   |-> [s.mem EXCEPT ![p] = v],
                   dirty |-> s.dirty \union {p}]

StoreText(p, c) == /\ screen' = Store(screen, p, c)
                   /\ UNCHANGED <<picture, mode, cursorVars, portVars>>

StorePixel(p, c) == /\ picture' = Store(picture, p, c)
                    /\ UNCHANGED <<screen, mode, cursorVars, portVars>>

PutChar(x, y, c) == /\ screen' = Put(screen, y, x, c)
                    /\ UNCHANGED <<picture, mode, cursorVars, portVars>>

\* clearScreen clears the surface of the current mode, buffer and window.
ClearScreen ==
    /\ screen' = IF mode = "TEXT" THEN Fill(screen, Grid, Blank) ELSE screen
    /\ picture' = IF mode = "GRAPHICS" THEN Fill(picture, Pixels, 0) ELSE picture
    /\ MoveTo(0, 0) /\ byPort' = FALSE
    /\ UNCHANGED <<mode, portVars>>

FromMemory(s) == [s EXCEPT !.buf = s.mem, !.dirty = {}]
ToMemory(s) == [s EXCEPT !.mem = s.buf, !.dirty = {}]

SyncBufferFromMemory ==
    /\ screen' = IF mode = "TEXT" THEN FromMemory(screen) ELSE screen
    /\ picture' = IF mode = "GRAPHICS" THEN FromMemory(picture) ELSE picture
    /\ UNCHANGED <<mode, cursorVars, portVars>>

SyncBufferToMemory ==
    /\ screen' = IF mode = "TEXT" THEN ToMemory(screen) ELSE screen
    /\ picture' = IF mode = "GRAPHICS" THEN ToMemory(picture) ELSE picture
    /\ UNCHANGED <<mode, cursorVars, portVars>>

\* Emulator::reset: memory is cleared and text mode set.
\* The graphics buffer, the CRTC and the retrace toggle keep their values.
Reset ==
    /\ mode' = "TEXT"
    /\ screen' = Fill(screen, Grid, Zero)
    /\ picture' = [buf |-> picture.buf, mem |-> [p \in Pixels |-> 0], dirty |-> Pixels]
    /\ MoveTo(0, 0) /\ byPort' = FALSE
    /\ UNCHANGED portVars

-------------------------------------------------------------------------------
Init == /\ screen = [buf |-> [p \in Grid |-> Zero], mem |-> [p \in Grid |-> Zero],
                     dirty |-> {}]
        /\ picture = [buf |-> [p \in Pixels |-> 0], mem |-> [p \in Pixels |-> 0],
                      dirty |-> {}]
        /\ mode = "TEXT"
        /\ cx = 0 /\ cy = 0 /\ high = None /\ low = None /\ byPort = FALSE
        /\ crtc = [index |-> 0, data |-> 0] /\ vretrace = FALSE /\ status = None
       

TextService == \/ \E ch \in Typed : Teletype(ch)
               \/ \E c \in Drawn, n \in 0 .. WIDTH + 1 : WriteChar(c[1], c[2], n)
               \/ \E w \in Windows : ScrollWindow(w[1], w[2], w[3])
               \/ \E x \in 0 .. WIDTH, y \in 0 .. HEIGHT : SetCursorPosition(x, y)

GraphicsService == \E p \in Pixels, c \in Colors : PutPixel(p, c)

ModeService == \E m \in Modes : SetVideoMode(m)

PortAccess == \/ \E v \in PortBytes : WriteIndex(v) \/ WriteData(v)
              \/ ReadStatus

DirectStore == \/ \E p \in Grid, c \in Drawn : StoreText(p, c)
               \/ \E p \in Pixels, c \in Colors : StorePixel(p, c)

HostOperation == \/ \E x \in -1 .. WIDTH, y \in -1 .. HEIGHT, c \in Drawn : PutChar(x, y, c)
                 \/ ClearScreen \/ SyncBufferFromMemory \/ SyncBufferToMemory \/ Reset

Next == TextService \/ GraphicsService \/ ModeService \/ PortAccess \/ DirectStore
            \/ HostOperation

Spec == Init /\ [][Next]_vars

-------------------------------------------------------------------------------
(* Safety *)

\* The buffer the host renders and the window the guest reads agree on every
\* cell the guest has not stored into directly, in every mode and after any
\* mixture of output, scrolling, mode changes, syncs and resets.
TextCoherent == \A p \in Grid : p \notin screen.dirty => screen.buf[p] = screen.mem[p]

\* The same for pixels; setting graphics mode and reset each clear only one of
\* the two copies, so that all pixels count as dirty behind them.
PicturesCoherent ==
    \A p \in Pixels : p \notin picture.dirty => picture.buf[p] = picture.mem[p]

\* The cursor is always in a column of the screen, and in a row of it unless it
\* was put below the screen through the CRTC: no output, wrapping, tabulation,
\* backspace or scrolling takes it out.
CursorOnScreen == cx \in Cols /\ (cy \in Rows \/ byPort)

\* A cursor offset is programmed in two writes, in either order and with other
\* port accesses, prints on the screen or stores in between: each half stays
\* what it was set to until something other than the CRTC moves the cursor.
CursorHalves == /\ high # None => (Offset \div BYTE) = high
                /\ low # None => Offset % BYTE = low

-------------------------------------------------------------------------------
(* Liveness *)

PollingSpec == Spec /\ WF_vars(ReadStatus)

\* Bit 3 of what the guest last read from port 3DAh: a retrace is under way.
Retrace == (status \div 8) % 2 = 1

\* A guest that polls port 3DAh for the start and then the end of a retrace
\* finds bit 3 set and then clear again and again, whatever else is done to the
\* device.  Nothing is said of the other bits.
RetraceComesAndGoes == []<>(status # None /\ Retrace) /\ []<>(status # None /\ ~Retrace)

===============================================================================
