------------------------------- MODULE VgaLoops -------------------------------
(***************************************************************************)
(* The display of module Vga, cell by cell.  Scrolling, filling and        *)
(* clearing are loops over putChar (scrollUp, int10_ScrollUp,              *)
(* int10_WriteChar, clearScreen), and every putChar calls the host back    *)
(* with part of the loop done: the buffer is read and written in place,    *)
(* and the cursor is still where the loop needs it.  A state with the loop *)
(* running is what such a callback finds; the host looks at it and draws.  *)
(*                                                                         *)
(* All loops go through their cells row by row, which module Vga does in   *)
(* one step; here it is shown that this makes no difference.               *)
(***************************************************************************)
EXTENDS Vga

VARIABLE loop   \* the loop a service is in

loopVars == <<vars, loop>>

(***************************************************************************)
(* The cells of a loop and those it has still to come to; each gets what   *)
(* is n rows below it, down to row last, or fill; with n = 0 all get fill. *)
(* When the loop is done the cursor goes to <<x, y>>.  The buffer at the   *)
(* start is history.                                                       *)
(***************************************************************************)
Idle == [running |-> FALSE, area |-> {}, cells |-> {}, n |-> 0, last |-> 0,
         fill |-> Blank, x |-> 0, y |-> 0, from |-> <<>>]

Enter(area, n, last, fill, x, y) ==
    loop' = [running |-> TRUE, area |-> area, cells |-> area, n |-> n, last |-> last,
             fill |-> fill, x |-> x, y |-> y, from |-> screen'.buf]

\* The screen with some cells of the loop drawn
Drawing(cells) == IF loop.n = 0
                  THEN Fill(screen, cells, loop.fill)
                  ELSE Draw(screen, cells,
                            Raised(screen, cells, loop.n, loop.last, loop.fill))

\* for y upwards, and in it for x upwards
MutBefore(p, q) == p[1] > q[1] \/ (p[1] = q[1] /\ p[2] < q[2])
Before(p, q) == p[1] < q[1] \/ (p[1] = q[1] /\ p[2] < q[2])

-------------------------------------------------------------------------------
\* The line ends below the last row: the cursor is put there, and scrollUp runs.
Scrolling(ch) == /\ \/ ch = "LF"
                    \/ ch = "HT" /\ ((cx \div TAB) + 1) * TAB >= WIDTH
                    \/ ch \notin Control /\ cx + 1 >= WIDTH
                 /\ cy + 1 >= HEIGHT

TeletypeScrolls(ch) ==
    /\ screen' = IF ch \in Control THEN screen ELSE Put(screen, cy, cx, <<ch, 7>>)
    /\ MoveTo(0, cy + 1) /\ byPort' = FALSE
    /\ Enter(Grid, 1, HEIGHT - 1, Blank, 0, HEIGHT - 1)
    /\ UNCHANGED <<picture, mode, portVars>>

EnterWindow(n, attr, corners) ==
    LET last == Clamp(corners[3], HEIGHT - 1)
        window == {p \in Grid : /\ p[1] \in corners[1] .. last
                                /\ p[2] \in corners[2] .. Clamp(corners[4], WIDTH - 1)}
    IN  /\ UNCHANGED vars
        /\ Enter(window, n, last, <<Space, attr>>, cx, cy)

MutEnterWriteWraps(ch, attr, n) ==
    LET start == cy * WIDTH + cx
        area == {p \in Grid : p[1] * WIDTH + p[2] \in start .. start + n - 1}
    IN  /\ UNCHANGED vars
        /\ Enter(area, 0, 0, <<ch, attr>>, cx, cy)
EnterWrite(ch, attr, n) ==
    /\ UNCHANGED vars
    /\ Enter({p \in Grid : p[1] = cy /\ p[2] \in cx .. cx + n - 1}, 0, 0, <<ch, attr>>, cx, cy)

EnterClear ==
    /\ mode = "TEXT"
    /\ high' = None /\ low' = None /\ byPort' = FALSE
    /\ UNCHANGED <<screen, picture, mode, cx, cy, portVars>>
    /\ Enter(Grid, 0, 0, Blank, 0, 0)

DrawCell ==
    \E p \in loop.cells :
        /\ \A q \in loop.cells \ {p} : Before(p, q)
        /\ screen' = Drawing({p})
        /\ loop' = [loop EXCEPT !.cells = @ \ {p}]
        /\ UNCHANGED <<picture, mode, cursorVars, portVars>>

Leave == /\ loop.cells = {}
         /\ cx' = loop.x /\ cy' = loop.y
         /\ loop' = Idle
         /\ UNCHANGED <<screen, picture, mode, high, low, byPort, portVars>>

\* Operations without a loop, or with one that calls nobody back.
Stay == /\ \/ \E ch \in Typed : ~Scrolling(ch) /\ Teletype(ch)
           \/ \E x \in 0 .. WIDTH, y \in 0 .. HEIGHT : SetCursorPosition(x, y)
           \/ GraphicsService \/ ModeService \/ PortAccess \/ DirectStore
           \/ \E x \in -1 .. WIDTH, y \in -1 .. HEIGHT, c \in Drawn : PutChar(x, y, c)
           \/ mode # "TEXT" /\ ClearScreen
           \/ SyncBufferFromMemory \/ SyncBufferToMemory \/ Reset
        /\ UNCHANGED loop

LoopInit == Init /\ loop = Idle

LoopNext ==
    \/ /\ ~loop.running
       /\ \/ \E ch \in Typed : Scrolling(ch) /\ TeletypeScrolls(ch)
          \/ \E w \in Windows : EnterWindow(w[1], w[2], w[3])
          \/ \E c \in Drawn, n \in 0 .. WIDTH + 1 : EnterWrite(c[1], c[2], n)
          \/ EnterClear
          \/ Stay
    \/ loop.running /\ (DrawCell \/ Leave)

LoopSpec == LoopInit /\ [][LoopNext]_loopVars

-------------------------------------------------------------------------------
Whole == INSTANCE Vga WITH
            screen <- IF loop.running THEN Drawing(loop.cells) ELSE screen,
            cx <- IF loop.running THEN loop.x ELSE cx,
            cy <- IF loop.running THEN loop.y ELSE cy

\* Although every loop reads the rows it has written and is written over by,
\* each service does to the screen what it would do in one step: a row is read
\* before it is overwritten.
DrawsAtOnce == Whole!Spec

\* The host sees no row vanish that is to stay: while rows are moving up, every
\* cell that remains is shown at its old place or at its new one.
NothingVanishes ==
    loop.running /\ loop.n > 0 =>
        \A p \in loop.area : p[1] + loop.n <= loop.last =>
            LET q == <<p[1] + loop.n, p[2]>>
            IN  loop.from[q] \in {screen.buf[p], screen.buf[q]}
===============================================================================
