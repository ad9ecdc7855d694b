---------------------------- MODULE VgaLoopsProofs -----------------------------
(***************************************************************************)
(* Theorems about module VgaLoops, for screens of every size and windows   *)
(* of every shape: a loop in place does what one simultaneous move does,   *)
(* and nothing vanishes while it runs.                                     *)
(***************************************************************************)
EXTENDS VgaLoops, VgaProofs

USE SizeAssumption, CellAssumption, PixelAssumption, InputAssumption

(***************************************************************************)
(* The loop has come to a part of its cells that lies before the others;   *)
(* those hold what they are to hold, the others what they held, and what a *)
(* cell is to hold lies behind it.                                         *)
(***************************************************************************)
Below(p) == <<p[1] + loop.n, p[2]>>

Ordered == /\ loop.cells \subseteq loop.area /\ loop.area \subseteq Grid
           /\ \A p \in loop.area \ loop.cells, q \in loop.cells : Before(p, q)

Closed == loop.n > 0 => \A p \in loop.area : p[1] + loop.n <= loop.last => Below(p) \in loop.area

Untouched == loop.n > 0 => \A p \in loop.cells : screen.buf[p] = loop.from[p]

Moved == loop.n > 0 =>
    \A p \in loop.area \ loop.cells :
        p[1] + loop.n <= loop.last => screen.buf[p] = loop.from[Below(p)]

LoopTypes == /\ loop.running \in BOOLEAN /\ loop.n \in Nat
             /\ loop.last \in Int /\ loop.last <= HEIGHT - 1
             /\ loop.fill \in Cell
             /\ loop = [running |-> loop.running, area |-> loop.area, cells |-> loop.cells,
                        n |-> loop.n, last |-> loop.last, fill |-> loop.fill,
                        x |-> loop.x, y |-> loop.y, from |-> loop.from]

Resting == ~loop.running => loop = Idle

LoopInv == LoopTypes /\ Resting /\ Ordered /\ Closed /\ Untouched /\ Moved /\ ScreenOK(screen)

-------------------------------------------------------------------------------
LEMMA Ahead ==
  ASSUME NEW p \in Grid, NEW n \in Nat, n > 0
  PROVE  /\ Before(p, <<p[1] + n, p[2]>>) /\ ~Before(<<p[1] + n, p[2]>>, p)
         /\ <<p[1] + n, p[2]>> # p
<1>1. p[1] \in Int
  BY DEF Grid, Rows
<1>2. <<p[1] + n, p[2]>>[1] = p[1] + n
  OBVIOUS
<1> DEFINE q == <<p[1] + n, p[2]>>
<1> HIDE DEF q
<1>3. q[1] = p[1] + n
  BY <1>2 DEF q
<1>4. p[1] < q[1] /\ ~(q[1] < p[1]) /\ q[1] # p[1]
  BY <1>1, <1>3
<1>5. Before(p, q) /\ ~Before(q, p) /\ q # p
  BY <1>4 DEF Before
<1> QED BY <1>5 DEF q

\* The cell below one the loop has still to come to is one of those, too.
LEMMA BelowIsLeft ==
  ASSUME LoopInv, loop.n > 0, NEW p \in loop.cells, p[1] + loop.n <= loop.last
  PROVE  Below(p) \in loop.cells /\ Below(p) # p /\ Below(p) \in Grid
<1>1. p \in loop.area /\ p \in Grid /\ loop.n \in Nat
  BY DEF LoopInv, Ordered, LoopTypes
<1>2. Below(p) \in loop.area /\ Below(p) \in Grid
  BY <1>1 DEF LoopInv, Closed, Ordered
<1>3. Before(p, Below(p)) /\ ~Before(Below(p), p) /\ Below(p) # p
  BY <1>1, Ahead DEF Below
<1>4. Below(p) \in loop.cells
  BY <1>2, <1>3 DEF LoopInv, Ordered
<1> QED BY <1>2, <1>3, <1>4

\* What is to stay is shown where it was or where it goes.
LEMMA ShownSomewhere == LoopInv => NothingVanishes
<1> SUFFICES ASSUME LoopInv, loop.n > 0, NEW p \in loop.area, p[1] + loop.n <= loop.last
             PROVE  loop.from[Below(p)] \in {screen.buf[p], screen.buf[Below(p)]}
  BY DEF NothingVanishes, Below
<1>1. CASE p \in loop.cells
  <2>1. Below(p) \in loop.cells
    BY <1>1, BelowIsLeft
  <2>2. screen.buf[Below(p)] = loop.from[Below(p)]
    BY <2>1 DEF LoopInv, Untouched
  <2> QED BY <2>2
<1>2. CASE p \notin loop.cells
  BY <1>2 DEF LoopInv, Moved
<1> QED BY <1>1, <1>2

-------------------------------------------------------------------------------
(* One cell *)

\* What cell p of loop l on screen s gets
NewOf(s, l, p) == IF l.n > 0 /\ p[1] + l.n <= l.last
                  THEN s.buf[<<p[1] + l.n, p[2]>>] ELSE l.fill

\* A screen where some cells were drawn, in one expression
DrawnOf(s, l, cells) ==
    [buf   |-> [p \in Grid |-> IF p \in cells THEN NewOf(s, l, p) ELSE s.buf[p]],
     mem   |-> [p \in Grid |-> IF p \in cells THEN NewOf(s, l, p) ELSE s.mem[p]],
     dirty |-> s.dirty \ cells]

DrawingOf(s, l, cells) == IF l.n = 0
                          THEN Fill(s, cells, l.fill)
                          ELSE Draw(s, cells, Raised(s, cells, l.n, l.last, l.fill))

LEMMA DrawingIs ==
  ASSUME NEW s, NEW l, l.n \in Nat, ScreenOK(s), NEW cells \in SUBSET Grid
  PROVE  DrawingOf(s, l, cells) = DrawnOf(s, l, cells)
<1>1. DOMAIN s.buf = Grid /\ DOMAIN s.mem = Grid
  BY DEF ScreenOK, Surface
<1>2. CASE l.n = 0
  <2>1. \A p : NewOf(s, l, p) = l.fill
    BY <1>2 DEF NewOf
  <2>2. DrawingOf(s, l, cells) = Draw(s, cells, [p \in cells |-> l.fill])
    BY <1>2 DEF DrawingOf, Fill
  <2>3. Draw(s, cells, [p \in cells |-> l.fill]) =
          [buf   |-> [p \in Grid |-> IF p \in cells THEN [q \in cells |-> l.fill][p]
                                                    ELSE s.buf[p]],
           mem   |-> [p \in Grid |-> IF p \in cells THEN [q \in cells |-> l.fill][p]
                                                    ELSE s.mem[p]],
           dirty |-> s.dirty \ cells]
    BY <1>1 DEF Draw
  <2>4. \A p \in cells : [q \in cells |-> l.fill][p] = NewOf(s, l, p)
    BY <2>1
  <2> DEFINE f == [q \in cells |-> l.fill]
  <2>5. /\ \A p \in cells : f[p] = NewOf(s, l, p)
        /\ DrawingOf(s, l, cells) =
             [buf   |-> [p \in Grid |-> IF p \in cells THEN f[p] ELSE s.buf[p]],
              mem   |-> [p \in Grid |-> IF p \in cells THEN f[p] ELSE s.mem[p]],
              dirty |-> s.dirty \ cells]
    BY <2>2, <2>3, <2>4
  <2> HIDE DEF f
  <2> QED BY <2>5 DEF DrawnOf
<1>3. CASE l.n # 0
  <2> DEFINE f == Raised(s, cells, l.n, l.last, l.fill)
  <2>1. \A p \in cells : f[p] = NewOf(s, l, p)
    <3>1. l.n > 0
      BY <1>3
    <3> QED BY <3>1 DEF Raised, NewOf
  <2>2. DrawingOf(s, l, cells) = Draw(s, cells, f)
    BY <1>3 DEF DrawingOf
  <2> HIDE DEF f
  <2>3. Draw(s, cells, f) =
          [buf   |-> [p \in Grid |-> IF p \in cells THEN f[p] ELSE s.buf[p]],
           mem   |-> [p \in Grid |-> IF p \in cells THEN f[p] ELSE s.mem[p]],
           dirty |-> s.dirty \ cells]
    BY <1>1 DEF Draw
  <2> QED BY <2>1, <2>2, <2>3 DEF DrawnOf
<1> QED BY <1>2, <1>3

\* Drawing keeps the screen a screen.
LEMMA DrawingOK ==
  ASSUME LoopTypes, ScreenOK(screen), NEW cells \in SUBSET Grid
  PROVE  ScreenOK(Drawing(cells))
<1>1. CASE loop.n = 0
  BY <1>1, FillKeeps DEF Drawing, LoopTypes, ScreenOK
<1>2. CASE loop.n # 0
  <2>1. \A p \in cells : Raised(screen, cells, loop.n, loop.last, loop.fill)[p] \in Cell
    BY RaisedCells DEF LoopTypes
  <2> QED BY <1>2, <2>1, DrawKeeps DEF Drawing, ScreenOK
<1> QED BY <1>1, <1>2

LEMMA CellStep ==
  ASSUME LoopInv, loop.running, DrawCell
  PROVE  \E p \in loop.cells :
            /\ \A q \in loop.cells \ {p} : Before(p, q)
            /\ screen' = DrawnOf(screen, loop, {p})
            /\ ScreenOK(screen')
            /\ loop'.running = loop.running /\ loop'.area = loop.area
            /\ loop'.cells = loop.cells \ {p} /\ loop'.n = loop.n
            /\ loop'.last = loop.last /\ loop'.fill = loop.fill
            /\ loop'.x = loop.x /\ loop'.y = loop.y /\ loop'.from = loop.from
            /\ screen'.buf[p] = NewOf(screen, loop, p)
            /\ \A q \in Grid \ {p} : screen'.buf[q] = screen.buf[q]
            /\ \A q \in Grid \ {p} : screen'.mem[q] = screen.mem[q]
<1>1. PICK p \in loop.cells :
         /\ \A q \in loop.cells \ {p} : Before(p, q)
         /\ screen' = Drawing({p})
         /\ loop' = [loop EXCEPT !.cells = @ \ {p}]
  BY DEF DrawCell
<1>2. LoopTypes /\ ScreenOK(screen) /\ p \in Grid
  BY DEF LoopInv, Ordered
<1>3. screen' = DrawnOf(screen, loop, {p}) /\ ScreenOK(screen')
  BY <1>1, <1>2, DrawingIs, DrawingOK DEF Drawing, DrawingOf, LoopTypes
<1>4. /\ screen'.buf[p] = NewOf(screen, loop, p)
      /\ \A q \in Grid \ {p} : screen'.buf[q] = screen.buf[q]
      /\ \A q \in Grid \ {p} : screen'.mem[q] = screen.mem[q]
  BY <1>2, <1>3 DEF DrawnOf
<1>5. loop' = [running |-> loop.running, area |-> loop.area, cells |-> loop.cells \ {p},
               n |-> loop.n, last |-> loop.last, fill |-> loop.fill,
               x |-> loop.x, y |-> loop.y, from |-> loop.from]
  BY <1>1, <1>2 DEF LoopTypes
<1>6. /\ loop'.running = loop.running /\ loop'.area = loop.area
      /\ loop'.cells = loop.cells \ {p} /\ loop'.n = loop.n
      /\ loop'.last = loop.last /\ loop'.fill = loop.fill
      /\ loop'.x = loop.x /\ loop'.y = loop.y /\ loop'.from = loop.from
  BY <1>5
<1> QED BY <1>1, <1>3, <1>4, <1>6

\* Drawing a cell keeps the invariant.
LEMMA CellInv ==
  ASSUME LoopInv, loop.running, DrawCell
  PROVE  LoopInv'
<1>1. PICK p \in loop.cells :
         /\ \A q \in loop.cells \ {p} : Before(p, q)
         /\ ScreenOK(screen')
         /\ loop'.running = loop.running /\ loop'.area = loop.area
         /\ loop'.cells = loop.cells \ {p} /\ loop'.n = loop.n
         /\ loop'.last = loop.last /\ loop'.fill = loop.fill
         /\ loop'.x = loop.x /\ loop'.y = loop.y /\ loop'.from = loop.from
         /\ screen'.buf[p] = NewOf(screen, loop, p)
         /\ \A q \in Grid \ {p} : screen'.buf[q] = screen.buf[q]
  BY CellStep
<1>2. /\ LoopTypes /\ Ordered /\ Closed /\ Untouched /\ Moved
      /\ p \in loop.area /\ p \in Grid /\ loop.cells \subseteq Grid
  BY DEF LoopInv, Ordered
<1>3. LoopTypes'
  <2>1. PICK q \in loop.cells : loop' = [loop EXCEPT !.cells = @ \ {q}]
    BY DEF DrawCell
  <2>2. loop' = [running |-> loop.running, area |-> loop.area, cells |-> loop.cells \ {q},
                 n |-> loop.n, last |-> loop.last, fill |-> loop.fill,
                 x |-> loop.x, y |-> loop.y, from |-> loop.from]
    BY <1>2, <2>1 DEF LoopTypes
  <2>3. loop' = [running |-> loop'.running, area |-> loop'.area, cells |-> loop'.cells,
                 n |-> loop'.n, last |-> loop'.last, fill |-> loop'.fill,
                 x |-> loop'.x, y |-> loop'.y, from |-> loop'.from]
    BY <2>2
  <2> QED BY <1>1, <1>2, <2>3 DEF LoopTypes
<1>4. Ordered'
  <2>1. loop'.cells \subseteq loop'.area /\ loop'.area \subseteq Grid
    BY <1>1, <1>2 DEF Ordered
  <2>2. ASSUME NEW r \in loop.area \ (loop.cells \ {p}), NEW q \in loop.cells \ {p}
        PROVE  Before(r, q)
    <3>1. CASE r = p
      BY <1>1, <3>1
    <3>2. CASE r # p
      BY <1>2, <3>2 DEF Ordered
    <3> QED BY <3>1, <3>2
  <2> QED BY <1>1, <2>1, <2>2 DEF Ordered
<1>5. Closed'
  BY <1>1, <1>2 DEF Closed, Below
<1>6. Untouched'
  <2> SUFFICES ASSUME loop.n > 0, NEW q \in loop.cells \ {p}
               PROVE  screen'.buf[q] = loop.from[q]
    BY <1>1 DEF Untouched
  <2>1. screen'.buf[q] = screen.buf[q]
    BY <1>1, <1>2
  <2> QED BY <1>2, <2>1 DEF Untouched
<1>7. Moved'
  <2> SUFFICES ASSUME loop.n > 0, NEW q \in loop.area \ (loop.cells \ {p}),
                      q[1] + loop.n <= loop.last
               PROVE  screen'.buf[q] = loop.from[Below(q)]
    BY <1>1 DEF Moved, Below
  <2>1. CASE q = p
    <3>1. NewOf(screen, loop, p) = screen.buf[Below(p)]
      BY <2>1 DEF NewOf, Below
    <3>2. Below(p) \in loop.cells
      BY <2>1, BelowIsLeft
    <3>3. screen.buf[Below(p)] = loop.from[Below(p)]
      BY <1>2, <3>2 DEF Untouched
    <3> QED BY <1>1, <2>1, <3>1, <3>3
  <2>2. CASE q # p
    <3>1. q \in loop.area \ loop.cells /\ q \in Grid
      BY <1>2, <2>2 DEF Ordered
    <3>2. screen'.buf[q] = screen.buf[q]
      BY <1>1, <2>2, <3>1
    <3> QED BY <1>2, <3>1, <3>2 DEF Moved
  <2> QED BY <2>1, <2>2
<1>8. Resting'
  BY <1>1 DEF Resting
<1> QED BY <1>1, <1>3, <1>4, <1>5, <1>6, <1>7, <1>8 DEF LoopInv

\* What is left to draw makes the same screen before and after the cell.
LEMMA SameScreen ==
  ASSUME LoopInv, loop.running, DrawCell
  PROVE  Drawing(loop.cells)' = Drawing(loop.cells)
<1>1. PICK p \in loop.cells :
         /\ \A q \in loop.cells \ {p} : Before(p, q)
         /\ screen' = DrawnOf(screen, loop, {p})
         /\ ScreenOK(screen')
         /\ loop'.cells = loop.cells \ {p} /\ loop'.n = loop.n
         /\ loop'.last = loop.last /\ loop'.fill = loop.fill
         /\ screen'.buf[p] = NewOf(screen, loop, p)
         /\ \A q \in Grid \ {p} : screen'.buf[q] = screen.buf[q]
         /\ \A q \in Grid \ {p} : screen'.mem[q] = screen.mem[q]
  BY CellStep
<1>2. /\ loop.n \in Nat /\ ScreenOK(screen) /\ loop.cells \in SUBSET Grid
      /\ p \in Grid /\ loop.cells \ {p} \in SUBSET Grid
  BY DEF LoopInv, LoopTypes, Ordered
<1> DEFINE rest == loop.cells \ {p}
           a == DrawnOf(screen, loop, loop.cells)
           b == DrawnOf(screen', loop', rest)
<1>3. Drawing(loop.cells) = a
  BY <1>2, DrawingIs DEF Drawing, DrawingOf
<1>4. Drawing(loop.cells)' = b
  <2>1. Drawing(loop.cells)' = DrawingOf(screen', loop', rest)
    BY <1>1 DEF Drawing, DrawingOf
  <2> QED BY <1>1, <1>2, <2>1, DrawingIs
<1>5. ASSUME NEW q \in rest PROVE NewOf(screen', loop', q) = NewOf(screen, loop, q)
  <2>1. CASE loop.n > 0 /\ q[1] + loop.n <= loop.last
    <3>1. Below(q) \in loop.cells /\ Below(q) \in Grid
      BY <1>5, <2>1, BelowIsLeft
    <3>2. Below(q) # p
      <4>1. q \in Grid /\ Before(p, q)
        BY <1>1, <1>2, <1>5
      <4>2. ~Before(Below(q), q)
        <5>1. q \in Grid /\ loop.n \in Nat /\ loop.n > 0
          BY <1>2, <2>1, <4>1
        <5> HIDE DEF rest, a, b
        <5> QED BY ONLY <5>1, Ahead DEF Below
      <4> DEFINE r == Below(q)
      <4> HIDE DEF r
      <4>3. ~Before(r, q) => r # p
        BY <4>1, Zenon
      <4> QED BY <4>2, <4>3 DEF r
    <3>3. screen'.buf[Below(q)] = screen.buf[Below(q)]
      BY <1>1, <3>1, <3>2
    <3> QED BY <1>1, <2>1, <3>3 DEF NewOf, Below
  <2>2. CASE ~(loop.n > 0 /\ q[1] + loop.n <= loop.last)
    BY <1>1, <2>2 DEF NewOf
  <2> QED BY <2>1, <2>2
<1>6. screen'.mem[p] = NewOf(screen, loop, p) /\ screen'.dirty = screen.dirty \ {p}
  BY <1>1, <1>2 DEF DrawnOf
<1>7. ASSUME NEW q \in Grid
      PROVE  /\ (IF q \in rest THEN NewOf(screen', loop', q) ELSE screen'.buf[q])
                   = (IF q \in loop.cells THEN NewOf(screen, loop, q) ELSE screen.buf[q])
             /\ (IF q \in rest THEN NewOf(screen', loop', q) ELSE screen'.mem[q])
                   = (IF q \in loop.cells THEN NewOf(screen, loop, q) ELSE screen.mem[q])
  <2>1. CASE q \in rest
    BY <1>5, <2>1
  <2>2. CASE q = p
    BY <1>1, <1>6, <2>2
  <2>3. CASE q \notin rest /\ q # p
    BY <1>1, <1>7, <2>3
  <2> QED BY <2>1, <2>2, <2>3
<1>8. screen'.dirty \ rest = screen.dirty \ loop.cells
  BY <1>6
<1>9. a = b
  BY <1>7, <1>8 DEF DrawnOf
<1> QED BY <1>3, <1>4, <1>9

-------------------------------------------------------------------------------
(* All steps *)

LEMMA Begins ==
  ASSUME NEW area \in SUBSET Grid, NEW n \in Nat, NEW last \in Int, last <= HEIGHT - 1,
         NEW fill \in Cell, NEW x, NEW y, Enter(area, n, last, fill, x, y),
         ScreenOK(screen'),
         n > 0 => \A p \in area : p[1] + n <= last => <<p[1] + n, p[2]>> \in area
  PROVE  LoopInv'
<1>1. /\ loop'.running = TRUE /\ loop'.area = area /\ loop'.cells = area /\ loop'.n = n
      /\ loop'.last = last /\ loop'.fill = fill /\ loop'.x = x /\ loop'.y = y
      /\ loop'.from = screen'.buf
      /\ loop' = [running |-> loop'.running, area |-> loop'.area, cells |-> loop'.cells,
                  n |-> loop'.n, last |-> loop'.last, fill |-> loop'.fill,
                  x |-> loop'.x, y |-> loop'.y, from |-> loop'.from]
  BY DEF Enter
<1>2. LoopTypes'
  BY <1>1 DEF LoopTypes
<1>3. Ordered' /\ Untouched' /\ Moved' /\ Resting'
  BY <1>1 DEF Ordered, Untouched, Moved, Resting
<1>4. Closed'
  BY <1>1 DEF Closed, Below
<1> QED BY <1>2, <1>3, <1>4 DEF LoopInv

LEMMA Rests ==
  ASSUME loop' = Idle, ScreenOK(screen')
  PROVE  LoopInv'
<1>1. /\ loop'.running = FALSE /\ loop'.area = {} /\ loop'.cells = {} /\ loop'.n = 0
      /\ loop'.last = 0 /\ loop'.fill = Blank
      /\ loop' = [running |-> loop'.running, area |-> loop'.area, cells |-> loop'.cells,
                  n |-> loop'.n, last |-> loop'.last, fill |-> loop'.fill,
                  x |-> loop'.x, y |-> loop'.y, from |-> loop'.from]
  BY DEF Idle
<1>2. LoopTypes'
  <2>1. 0 \in Nat /\ 0 \in Int /\ 0 <= HEIGHT - 1 /\ FALSE \in BOOLEAN
    OBVIOUS
  <2> QED BY <1>1, <2>1, BlankIsCell, Zenon DEF LoopTypes
<1>3. Ordered' /\ Untouched' /\ Moved' /\ Resting' /\ Closed'
  BY <1>1 DEF Ordered, Untouched, Moved, Resting, Closed
<1> QED BY <1>2, <1>3 DEF LoopInv

LEMMA RestsFirst ==
  ASSUME loop = Idle, ScreenOK(screen)
  PROVE  LoopInv
<1>1. /\ loop.running = FALSE /\ loop.area = {} /\ loop.cells = {} /\ loop.n = 0
      /\ loop.last = 0 /\ loop.fill = Blank
      /\ loop = [running |-> loop.running, area |-> loop.area, cells |-> loop.cells,
                 n |-> loop.n, last |-> loop.last, fill |-> loop.fill,
                 x |-> loop.x, y |-> loop.y, from |-> loop.from]
  BY DEF Idle
<1>2. LoopTypes
  <2>1. 0 \in Nat /\ 0 \in Int /\ 0 <= HEIGHT - 1 /\ FALSE \in BOOLEAN
    OBVIOUS
  <2> QED BY <1>1, <2>1, BlankIsCell, Zenon DEF LoopTypes
<1>3. Ordered /\ Untouched /\ Moved /\ Resting /\ Closed
  BY <1>1 DEF Ordered, Untouched, Moved, Resting, Closed
<1> QED BY <1>2, <1>3 DEF LoopInv

LEMMA ScrollBegins ==
  ASSUME LoopInv, NEW ch \in Typed, TeletypeScrolls(ch)
  PROVE  LoopInv'
<1>1. ScreenOK(screen')
  <2>1. CASE ch \in Control
    BY <2>1 DEF TeletypeScrolls, LoopInv
  <2>2. CASE ch \notin Control
    <3>1. <<ch, 7>> \in Cell
      BY <2>2 DEF Cell, Control
    <3> QED BY <2>2, <3>1, PutOK DEF TeletypeScrolls, LoopInv
  <2> QED BY <2>1, <2>2
<1>2. \A p \in Grid : p[1] + 1 <= HEIGHT - 1 => <<p[1] + 1, p[2]>> \in Grid
  BY DEF Grid, Rows
<1>3. Enter(Grid, 1, HEIGHT - 1, Blank, 0, HEIGHT - 1)
  BY DEF TeletypeScrolls
<1>4. HEIGHT - 1 \in Int /\ 1 \in Nat /\ HEIGHT - 1 <= HEIGHT - 1 /\ Grid \in SUBSET Grid
  OBVIOUS
<1> QED BY <1>1, <1>2, <1>3, <1>4, BlankIsCell, Begins

LEMMA WindowBegins ==
  ASSUME LoopInv, NEW w \in Windows, EnterWindow(w[1], w[2], w[3])
  PROVE  LoopInv'
<1> DEFINE last == Clamp(w[3][3], HEIGHT - 1)
           window == {p \in Grid : /\ p[1] \in w[3][1] .. last
                                   /\ p[2] \in w[3][2] .. Clamp(w[3][4], WIDTH - 1)}
           fill == <<Space, w[2]>>
<1>1. w[1] \in Nat /\ w[2] \in Attrs /\ w[3][3] \in Nat /\ w[3][1] \in Nat
  OBVIOUS
<1>2. last \in Int /\ last <= HEIGHT - 1
  BY <1>1 DEF Clamp
<1>3. fill \in Cell
  BY <1>1 DEF Cell
<1>4. ScreenOK(screen') /\ Enter(window, w[1], last, fill, cx, cy)
  BY DEF EnterWindow, vars, LoopInv
<1>5. window \in SUBSET Grid
  OBVIOUS
<1>6. ASSUME NEW p \in window, p[1] + w[1] <= last PROVE <<p[1] + w[1], p[2]>> \in window
  <2>1. p \in Grid /\ p[1] \in Int /\ p[2] \in Cols /\ p[1] >= w[3][1] /\ p[1] >= 0
    BY <1>1, <1>2, <1>6 DEF Grid, Rows
  <2>2. p[1] + w[1] \in Rows /\ p[1] + w[1] \in w[3][1] .. last
    BY <1>1, <1>2, <1>6, <2>1 DEF Rows
  <2>3. <<p[1] + w[1], p[2]>> \in Grid
    BY <2>1, <2>2 DEF Grid
  <2> HIDE DEF last
  <2> QED BY <1>6, <2>2, <2>3
<1> HIDE DEF last, window, fill
<1> QED BY <1>1, <1>2, <1>3, <1>4, <1>5, <1>6, Begins

LEMMA FillBegins ==
  ASSUME LoopInv
  PROVE  /\ \A c \in Drawn : \A n : EnterWrite(c[1], c[2], n) => LoopInv'
         /\ EnterClear => LoopInv'
<1>1. ASSUME NEW c \in Drawn, NEW n, EnterWrite(c[1], c[2], n) PROVE LoopInv'
  <2> DEFINE area == {p \in Grid : p[1] = cy /\ p[2] \in cx .. cx + n - 1}
  <2>1. <<c[1], c[2]>> \in Cell
    BY DEF Cell
  <2>2. ScreenOK(screen') /\ Enter(area, 0, 0, <<c[1], c[2]>>, cx, cy)
    BY <1>1 DEF EnterWrite, vars, LoopInv
  <2>3. area \in SUBSET Grid
    OBVIOUS
  <2> HIDE DEF area
  <2>4. 0 \in Nat /\ 0 \in Int /\ 0 <= HEIGHT - 1 /\ ~(0 > 0)
    OBVIOUS
  <2> QED BY <2>1, <2>2, <2>3, <2>4, Begins
<1>2. ASSUME EnterClear PROVE LoopInv'
  <2>1. ScreenOK(screen') /\ Enter(Grid, 0, 0, Blank, 0, 0)
    BY <1>2 DEF EnterClear, LoopInv
  <2>2. 0 \in Nat /\ 0 \in Int /\ 0 <= HEIGHT - 1 /\ ~(0 > 0) /\ Grid \in SUBSET Grid
    OBVIOUS
  <2> QED BY <2>1, <2>2, BlankIsCell, Begins
<1> QED BY <1>1, <1>2

\* What stays without a loop is a step of module Vga.
LEMMA StaySteps == ASSUME Stay PROVE Next /\ loop' = loop
<1>1. Next
  BY Zenon DEF Stay, Next, TextService, HostOperation
<1> QED BY <1>1 DEF Stay

LEMMA LoopStep == ASSUME LoopInv, [LoopNext]_loopVars PROVE LoopInv'
<1>1. CASE UNCHANGED loopVars
  BY <1>1 DEF loopVars, vars, LoopInv, LoopTypes, Resting, Ordered, Closed, Untouched,
              Moved, Below
<1>2. CASE LoopNext /\ loop.running
  <2>1. CASE DrawCell
    BY <1>2, <2>1, CellInv
  <2>2. CASE Leave
    BY <2>2, Rests DEF Leave, LoopInv
  <2> QED BY <1>2, <2>1, <2>2 DEF LoopNext
<1>3. CASE LoopNext /\ ~loop.running
  <2>1. CASE \E ch \in Typed : Scrolling(ch) /\ TeletypeScrolls(ch)
    BY <2>1, ScrollBegins
  <2>2. CASE \E w \in Windows : EnterWindow(w[1], w[2], w[3])
    BY <2>2, WindowBegins
  <2>3. CASE \/ \E c \in Drawn, n \in 0 .. WIDTH + 1 : EnterWrite(c[1], c[2], n)
             \/ EnterClear
    BY <2>3, FillBegins
  <2>4. CASE Stay
    <3>1. Next /\ loop' = loop /\ loop = Idle
      BY <1>3, <2>4, StaySteps DEF LoopInv, Resting
    <3>2. ScreenOK(screen')
      BY <3>1, ScreenStep DEF LoopInv
    <3> QED BY <3>1, <3>2, Rests
  <2> QED BY <1>3, <2>1, <2>2, <2>3, <2>4 DEF LoopNext
<1> QED BY <1>1, <1>2, <1>3

LEMMA LoopStart == LoopInit => LoopInv
<1> SUFFICES ASSUME LoopInit PROVE LoopInv
  OBVIOUS
<1>1. ScreenOK(screen)
  BY InitIInv DEF LoopInit, IInv
<1> QED BY <1>1, RestsFirst DEF LoopInit

THEOREM LoopInvariant == LoopSpec => []LoopInv
  BY LoopStart, LoopStep, PTL DEF LoopSpec

\* While rows move up on the screen, every cell that is to stay is shown at its
\* old place or at its new one in every callback, for windows of every shape
\* and moves by any number of rows.
THEOREM RowsStayInSight == LoopSpec => []NothingVanishes
  BY LoopInvariant, ShownSomewhere, PTL

\* Buffer and memory agree in the callbacks, too, on all cells the guest has
\* not stored into.
THEOREM CallbacksFindCoherence == LoopSpec => []TextCoherent
<1>1. LoopInv => TextCoherent
  BY DEF LoopInv, ScreenOK, Coherent, TextCoherent
<1> QED BY <1>1, LoopInvariant, PTL

-------------------------------------------------------------------------------
(* Refinement of Vga *)

\* The screen and the cursor of the service as if it were done
ScreenThen == IF loop.running THEN Drawing(loop.cells) ELSE screen
ColThen == IF loop.running THEN loop.x ELSE cx
RowThen == IF loop.running THEN loop.y ELSE cy

LEMMA WholeInit == LoopInit => Whole!Init
<1> SUFFICES ASSUME LoopInit PROVE Whole!Init
  OBVIOUS
<1>1. loop.running = FALSE
  BY DEF LoopInit, Idle
<1>2. Init
  BY DEF LoopInit
<1> QED BY <1>1, <1>2 DEF Init, Whole!Init, Whole!Grid, Grid, Whole!Rows, Rows, Whole!Cols, Cols,
                Whole!Zero, Zero, Whole!None, None

\* Drawing a cell and returning from a loop change nothing of it.
LEMMA WholeStutters ==
  ASSUME LoopInv, loop.running, DrawCell \/ Leave
  PROVE  UNCHANGED Whole!vars
<1>1. CASE DrawCell
  <2>1. ScreenThen' = ScreenThen /\ ColThen' = ColThen /\ RowThen' = RowThen
    <3>1. Drawing(loop.cells)' = Drawing(loop.cells)
      BY <1>1, SameScreen
    <3>2. loop'.running = loop.running /\ loop'.x = loop.x /\ loop'.y = loop.y
      BY <1>1, CellStep
    <3> QED BY <3>1, <3>2, Zenon DEF ScreenThen, ColThen, RowThen
  <2>2. UNCHANGED <<picture, mode, cursorVars, portVars>>
    BY <1>1 DEF DrawCell
  <2> QED BY <2>1, <2>2 DEF Whole!vars, Whole!cursorVars, Whole!portVars, cursorVars, portVars,
                     ScreenThen, ColThen, RowThen
<1>2. CASE Leave
  <2>1. Drawing(loop.cells) = screen
    <3>1. loop.n \in Nat /\ ScreenOK(screen) /\ {} \in SUBSET Grid /\ loop.cells = {}
      BY <1>2 DEF LoopInv, LoopTypes, Leave
    <3>2. Drawing(loop.cells) = DrawnOf(screen, loop, {})
      BY <3>1, DrawingIs DEF Drawing, DrawingOf
    <3>3. DrawnOf(screen, loop, {}) = [buf   |-> [p \in Grid |-> screen.buf[p]],
                                       mem   |-> [p \in Grid |-> screen.mem[p]],
                                       dirty |-> screen.dirty]
      BY DEF DrawnOf
    <3>4. /\ screen.buf \in [Grid -> Cell] /\ screen.mem \in [Grid -> Cell]
          /\ screen = [buf |-> screen.buf, mem |-> screen.mem, dirty |-> screen.dirty]
      BY <3>1 DEF ScreenOK, Surface
    <3> QED BY <3>2, <3>3, <3>4
  <2>2. /\ loop'.running = FALSE /\ screen' = screen /\ cx' = loop.x /\ cy' = loop.y
        /\ UNCHANGED <<picture, mode, high, low, byPort, portVars>>
    BY <1>2 DEF Leave, Idle
  <2>3. ScreenThen' = ScreenThen /\ ColThen' = ColThen /\ RowThen' = RowThen
    BY <2>1, <2>2, Zenon DEF ScreenThen, ColThen, RowThen
  <2> QED BY <2>2, <2>3 DEF Whole!vars, Whole!cursorVars, Whole!portVars, portVars,
                     ScreenThen, ColThen, RowThen
<1> QED BY <1>1, <1>2

\* An operation without a loop is the same operation.
LEMMA WholeStays ==
  ASSUME LoopInv, ~loop.running, Stay
  PROVE  Whole!Next
<1>1. loop.running = FALSE /\ loop'.running = FALSE
  BY StaySteps DEF LoopInv, LoopTypes
<1> USE <1>1 DEF Whole!MoveTo, MoveTo, Whole!Put, Put, Whole!Fill, Fill, Whole!Draw, Draw,
                 Whole!Blank, Blank, Whole!Zero, Zero, Whole!None, None, Whole!portVars, portVars,
                 Whole!Grid, Grid, Whole!Rows, Rows, Whole!Cols, Cols, Whole!cursorVars, cursorVars
<1>2. ASSUME NEW ch \in Typed, Teletype(ch) PROVE Whole!Teletype(ch)
  <2> USE <1>2
  <2>1. ASSUME NEW s, NEW x, Advance(s, x) PROVE Whole!Advance(s, x)
    BY <2>1 DEF Advance, Whole!Advance, NextRow, Whole!NextRow, LineEnd, Whole!LineEnd,
                ScrollUp, Whole!ScrollUp, Raised, Whole!Raised
  <2>2. UNCHANGED <<picture, mode, portVars>> /\ UNCHANGED <<picture, mode, Whole!portVars>>
    BY DEF Teletype
  <2>3. CASE ch = "LF"
    <3>1. Advance(screen, WIDTH)
      BY <2>3 DEF Teletype
    <3>2. Whole!Advance(ScreenThen, WIDTH)
      BY <2>1, <3>1 DEF ScreenThen
    <3> QED BY <2>2, <2>3, <3>2 DEF Whole!Teletype, ScreenThen
  <2>4. CASE ch = "CR"
    BY <2>4 DEF Teletype, Whole!Teletype
  <2>5. CASE ch = "BS"
    BY <2>5 DEF Teletype, Whole!Teletype, CanStepBack, Whole!CanStepBack
  <2>6. CASE ch = "HT"
    <3>1. Advance(screen, ((cx \div TAB) + 1) * TAB)
      BY <2>6 DEF Teletype
    <3>2. Whole!Advance(ScreenThen, ((ColThen \div TAB) + 1) * TAB)
      BY <2>1, <3>1 DEF ScreenThen, ColThen
    <3> QED BY <2>2, <2>6, <3>2 DEF Whole!Teletype, ScreenThen, ColThen
  <2>7. CASE ch \notin {"LF", "CR", "BS", "HT"}
    <3>1. Advance(Put(screen, cy, cx, <<ch, 7>>), cx + 1)
      BY <2>7 DEF Teletype
    <3>2. Whole!Advance(Whole!Put(ScreenThen, RowThen, ColThen, <<ch, 7>>), ColThen + 1)
      BY <2>1, <3>1 DEF ScreenThen, ColThen, RowThen
    <3> QED BY <2>2, <2>7, <3>2 DEF Whole!Teletype, ScreenThen, ColThen, RowThen
  <2> QED BY <2>3, <2>4, <2>5, <2>6, <2>7
<1>3. ASSUME NEW x \in 0 .. WIDTH, NEW y \in 0 .. HEIGHT, SetCursorPosition(x, y)
      PROVE  Whole!SetCursorPosition(x, y)
  BY <1>3 DEF SetCursorPosition, Whole!SetCursorPosition, Clamp, Whole!Clamp
<1>4. ASSUME NEW x \in -1 .. WIDTH, NEW y \in -1 .. HEIGHT, NEW c \in Drawn, PutChar(x, y, c)
      PROVE  Whole!PutChar(x, y, c)
  BY <1>4 DEF PutChar, Whole!PutChar
<1>5. ASSUME NEW p \in Grid, NEW c \in Drawn, StoreText(p, c) PROVE Whole!StoreText(p, c)
  BY <1>5 DEF StoreText, Whole!StoreText, Store, Whole!Store
<1>6. ASSUME NEW m, SetVideoMode(m) PROVE Whole!SetVideoMode(m)
  BY <1>6 DEF SetVideoMode, Whole!SetVideoMode
<1>7. ASSUME SyncBufferFromMemory PROVE Whole!SyncBufferFromMemory
  BY <1>7 DEF SyncBufferFromMemory, Whole!SyncBufferFromMemory, FromMemory, Whole!FromMemory
<1>8. ASSUME SyncBufferToMemory PROVE Whole!SyncBufferToMemory
  BY <1>8 DEF SyncBufferToMemory, Whole!SyncBufferToMemory, ToMemory, Whole!ToMemory
<1>9. ASSUME Reset PROVE Whole!Reset
  BY <1>9 DEF Reset, Whole!Reset
<1>10. ASSUME ClearScreen PROVE Whole!ClearScreen
  BY <1>10 DEF ClearScreen, Whole!ClearScreen
<1>11. ASSUME GraphicsService PROVE Whole!GraphicsService
  BY <1>11 DEF GraphicsService, Whole!GraphicsService, PutPixel, Whole!PutPixel
<1>12. ASSUME ModeService PROVE Whole!ModeService
  <2>1. Whole!Modes = Modes
    BY DEF Modes, Whole!Modes
  <2> QED BY <1>6, <1>12, <2>1, Zenon DEF ModeService, Whole!ModeService
<1>13. ASSUME NEW p, NEW c, StorePixel(p, c) PROVE Whole!StorePixel(p, c)
  BY <1>13 DEF StorePixel, Whole!StorePixel, Store, Whole!Store
<1>14. ASSUME DirectStore PROVE Whole!DirectStore
  <2>1. Whole!Grid = Grid
    OBVIOUS
  <2> QED BY <1>5, <1>13, <1>14, <2>1, Zenon DEF DirectStore, Whole!DirectStore
<1>15. ASSUME NEW v, WriteIndex(v) PROVE Whole!WriteIndex(v)
  BY <1>15 DEF WriteIndex, Whole!WriteIndex
<1>16. ASSUME NEW v, WriteData(v) PROVE Whole!WriteData(v)
  BY <1>16 DEF WriteData, Whole!WriteData, WithHigh, Whole!WithHigh, WithLow, Whole!WithLow,
               Offset, Whole!Offset, MoveToOffset, Whole!MoveToOffset,
               CURSOR_HIGH, Whole!CURSOR_HIGH, CURSOR_LOW, Whole!CURSOR_LOW
<1>17. ASSUME ReadStatus PROVE Whole!ReadStatus
  BY <1>17 DEF ReadStatus, Whole!ReadStatus, Toggled, Whole!Toggled
<1>18. ASSUME PortAccess PROVE Whole!PortAccess
  BY <1>15, <1>16, <1>17, <1>18, Zenon DEF PortAccess, Whole!PortAccess
<1>19. \/ \E ch \in Typed : Whole!Teletype(ch)
       \/ \E x \in 0 .. WIDTH, y \in 0 .. HEIGHT : Whole!SetCursorPosition(x, y)
       \/ Whole!GraphicsService \/ Whole!ModeService \/ Whole!PortAccess \/ Whole!DirectStore
       \/ \E x \in -1 .. WIDTH, y \in -1 .. HEIGHT, c \in Drawn : Whole!PutChar(x, y, c)
       \/ Whole!ClearScreen
       \/ Whole!SyncBufferFromMemory \/ Whole!SyncBufferToMemory \/ Whole!Reset
  <2> USE Zenon
  <2>1. CASE \E ch \in Typed : Teletype(ch)
    BY <2>1, <1>2
  <2>2. CASE \E x \in 0 .. WIDTH, y \in 0 .. HEIGHT : SetCursorPosition(x, y)
    BY <2>2, <1>3
  <2>3. CASE \E x \in -1 .. WIDTH, y \in -1 .. HEIGHT, c \in Drawn : PutChar(x, y, c)
    BY <2>3, <1>4
  <2>4. CASE GraphicsService \/ ModeService \/ PortAccess \/ DirectStore
    BY <2>4, <1>11, <1>12, <1>14, <1>18
  <2>5. CASE ClearScreen \/ SyncBufferFromMemory \/ SyncBufferToMemory \/ Reset
    BY <2>5, <1>7, <1>8, <1>9, <1>10
  <2> QED BY <2>1, <2>2, <2>3, <2>4, <2>5 DEF Stay
<1> QED BY <1>19, Zenon DEF Whole!Next, Whole!TextService, Whole!HostOperation

\* The whole of a loop, as it is entered
LEMMA Entered ==
  ASSUME NEW area, NEW n, NEW last, NEW fill, NEW x, NEW y, Enter(area, n, last, fill, x, y)
  PROVE  /\ ScreenThen' = IF n = 0 THEN Fill(screen', area, fill)
                          ELSE Draw(screen', area, Raised(screen', area, n, last, fill))
         /\ ColThen' = x /\ RowThen' = y
<1>1. /\ loop'.running = TRUE /\ loop'.cells = area /\ loop'.n = n /\ loop'.last = last
      /\ loop'.fill = fill /\ loop'.x = x /\ loop'.y = y
  BY DEF Enter
<1> QED BY <1>1 DEF ScreenThen, ColThen, RowThen, Drawing

\* Entering a loop does to what will be shown what the service does.
LEMMA WholeEnters ==
  ASSUME ~loop.running
  PROVE  /\ \A w \in Windows : EnterWindow(w[1], w[2], w[3])
                                 => Whole!ScrollWindow(w[1], w[2], w[3])
         /\ \A c \in Drawn, n \in 0 .. WIDTH + 1 : EnterWrite(c[1], c[2], n)
                                 => Whole!WriteChar(c[1], c[2], n)
         /\ EnterClear => Whole!ClearScreen
<1>1. ScreenThen = screen /\ ColThen = cx /\ RowThen = cy
  BY DEF ScreenThen, ColThen, RowThen
<1> USE DEF Whole!MoveTo, MoveTo, Whole!Fill, Fill, Whole!Draw, Draw,
            Whole!Blank, Blank, Whole!None, None, Whole!portVars, portVars,
            Whole!Grid, Grid, Whole!Rows, Rows, Whole!Cols, Cols, Whole!cursorVars, cursorVars
<1>2. ASSUME NEW w \in Windows, EnterWindow(w[1], w[2], w[3])
      PROVE  Whole!ScrollWindow(w[1], w[2], w[3])
  <2> DEFINE last == Clamp(w[3][3], HEIGHT - 1)
             window == {p \in Grid : /\ p[1] \in w[3][1] .. last
                                     /\ p[2] \in w[3][2] .. Clamp(w[3][4], WIDTH - 1)}
             fill == <<Space, w[2]>>
  <2>1. UNCHANGED vars /\ Enter(window, w[1], last, fill, cx, cy)
    BY <1>2 DEF EnterWindow
  <2>2. /\ ScreenThen' = IF w[1] = 0 THEN Fill(screen, window, fill)
                         ELSE Draw(screen, window, Raised(screen, window, w[1], last, fill))
        /\ ColThen' = cx /\ RowThen' = cy
        /\ UNCHANGED <<picture, mode, high, low, byPort, portVars>>
    <3> HIDE DEF last, window, fill, Fill, Draw, portVars
    <3>1. /\ screen' = screen /\ cx' = cx /\ cy' = cy
          /\ UNCHANGED <<picture, mode, high, low, byPort, portVars>>
      BY <2>1 DEF vars, cursorVars
    <3>2. Enter(window, w[1], last, fill, cx, cy)
      BY <2>1
    <3>3. /\ ScreenThen' = IF w[1] = 0 THEN Fill(screen', window, fill)
                     ELSE Draw(screen', window, Raised(screen', window, w[1], last, fill))
          /\ ColThen' = cx /\ RowThen' = cy
      BY <3>2, Entered
    <3> QED BY <3>1, <3>3
  <2>3. /\ \A s, a, v : Whole!Fill(s, a, v) = Fill(s, a, v)
        /\ \A s, a, f : Whole!Draw(s, a, f) = Draw(s, a, f)
        /\ \A s, a, n, b, v : Whole!Raised(s, a, n, b, v) = Raised(s, a, n, b, v)
        /\ \A a, b : Whole!Clamp(a, b) = Clamp(a, b)
        /\ Whole!Grid = Grid
    BY DEF Whole!Raised, Raised, Whole!Clamp, Clamp
  <2> USE DEF Whole!ScrollWindow
  <2>4. /\ ScreenThen' = IF w[1] = 0 THEN Whole!Fill(ScreenThen, window, fill)
              ELSE Whole!Draw(ScreenThen, window, Whole!Raised(ScreenThen, window, w[1], last, fill))
        /\ UNCHANGED <<picture, mode, Whole!cursorVars, Whole!portVars>>
    <3> HIDE DEF last, window, fill, Fill, Draw, Whole!Fill, Whole!Draw
    <3>1. ScreenThen' = IF w[1] = 0 THEN Whole!Fill(ScreenThen, window, fill)
              ELSE Whole!Draw(ScreenThen, window, Whole!Raised(ScreenThen, window, w[1], last, fill))
      BY <1>1, <2>2, <2>3
    <3>2. UNCHANGED <<picture, mode, Whole!cursorVars, Whole!portVars>>
      BY <1>1, <2>2 DEF ScreenThen, ColThen, RowThen
    <3> QED BY <3>1, <3>2
  <2>5. /\ last = Whole!Clamp(w[3][3], HEIGHT - 1)
        /\ window = {p \in Whole!Grid : /\ p[1] \in w[3][1] .. last
                                 /\ p[2] \in w[3][2] .. Whole!Clamp(w[3][4], WIDTH - 1)}
    BY <2>3
  <2> HIDE DEF last, window, Fill, Draw, Whole!Fill, Whole!Draw
  <2> QED BY <2>4, <2>5 DEF ScreenThen, ColThen, RowThen
<1>3. ASSUME NEW c \in Drawn, NEW n \in 0 .. WIDTH + 1, EnterWrite(c[1], c[2], n)
      PROVE  Whole!WriteChar(c[1], c[2], n)
  <2> DEFINE area == {p \in Grid : p[1] = cy /\ p[2] \in cx .. cx + n - 1}
  <2>1. UNCHANGED vars /\ Enter(area, 0, 0, <<c[1], c[2]>>, cx, cy)
    BY <1>3 DEF EnterWrite
  <2>2. /\ ScreenThen' = Fill(screen, area, <<c[1], c[2]>>)
        /\ ColThen' = cx /\ RowThen' = cy
        /\ UNCHANGED <<picture, mode, high, low, byPort, portVars>>
    BY <2>1, Entered DEF vars
  <2> QED BY <1>1, <2>2 DEF Whole!WriteChar, ScreenThen, ColThen, RowThen
<1>4. ASSUME EnterClear PROVE Whole!ClearScreen
  <2>1. Enter(Grid, 0, 0, Blank, 0, 0)
    BY <1>4 DEF EnterClear
  <2>2. /\ ScreenThen' = Fill(screen, Grid, Blank) /\ ColThen' = 0 /\ RowThen' = 0
        /\ mode = "TEXT" /\ high' = None /\ low' = None /\ byPort' = FALSE
        /\ UNCHANGED <<picture, mode, portVars>>
    BY <1>4, <2>1, Entered DEF EnterClear
  <2> QED BY <1>1, <2>2 DEF Whole!ClearScreen, ScreenThen, ColThen, RowThen
<1> QED BY <1>2, <1>3, <1>4

LEMMA WholeScrolls ==
  ASSUME ~loop.running, cx \in Nat, cy \in Nat, NEW ch \in Typed, Scrolling(ch), TeletypeScrolls(ch)
  PROVE  Whole!Teletype(ch)
<1>1. ScreenThen = screen /\ ColThen = cx /\ RowThen = cy
  BY DEF ScreenThen, ColThen, RowThen
<1> DEFINE s == IF ch \in Control THEN screen ELSE Put(screen, cy, cx, <<ch, 7>>)
<1>2. /\ screen' = s /\ byPort' = FALSE /\ high' = None /\ low' = None
      /\ Enter(Grid, 1, HEIGHT - 1, Blank, 0, HEIGHT - 1)
      /\ UNCHANGED <<picture, mode, portVars>>
  BY DEF TeletypeScrolls, MoveTo
<1>3. /\ ScreenThen' = Draw(s, Grid, Raised(s, Grid, 1, HEIGHT - 1, Blank))
      /\ ColThen' = 0 /\ RowThen' = HEIGHT - 1
  <2>1. ~(1 = 0)
    OBVIOUS
  <2> QED BY <1>2, <2>1, Entered
<1>4. ASSUME NEW x, ~(x < WIDTH) PROVE Whole!Advance(s, x)
  <2>1. ~(cy + 1 < HEIGHT)
    BY DEF Scrolling
  <2> HIDE DEF s
  <2> QED BY <1>1, <1>2, <1>3, <1>4, <2>1 DEF Whole!Advance, Whole!MoveTo, Whole!None, None,
        Whole!NextRow, Whole!LineEnd, Whole!ScrollUp, Whole!Raised, Raised, Whole!Draw, Draw,
        Whole!Grid, Grid, Whole!Rows, Rows, Whole!Cols, Cols, Whole!Blank, Blank,
        ScreenThen, ColThen, RowThen
<1>5. UNCHANGED <<picture, mode, Whole!portVars>>
  BY <1>2 DEF portVars, Whole!portVars
<1>6. CASE ch = "LF"
  <2>1. s = screen /\ ~(WIDTH < WIDTH)
    BY <1>6 DEF Control
  <2>2. Whole!Advance(ScreenThen, WIDTH)
    BY <1>1, <1>4, <2>1
  <2> QED BY <1>5, <1>6, <2>2 DEF Whole!Teletype, ScreenThen
<1>7. CASE ch = "HT"
  <2>1. s = screen /\ ~(((cx \div TAB) + 1) * TAB < WIDTH)
    <3>1. (cx \div TAB) + 1 \in Nat
      BY DivMod
    <3>2. ((cx \div TAB) + 1) * TAB \in Int
      BY <3>1
    <3>3. ((cx \div TAB) + 1) * TAB >= WIDTH /\ s = screen
      BY <1>7, Zenon DEF Control, Scrolling
    <3> QED BY <3>2, <3>3
  <2>2. Whole!Advance(ScreenThen, ((ColThen \div TAB) + 1) * TAB)
    BY <1>1, <1>4, <2>1
  <2> QED BY <1>5, <1>7, <2>2 DEF Whole!Teletype, ScreenThen, ColThen
<1>8. CASE ch \notin Control
  <2>1. s = Put(screen, cy, cx, <<ch, 7>>) /\ ~(cx + 1 < WIDTH)
    BY <1>8 DEF Control, Scrolling
  <2>2. Whole!Put(screen, cy, cx, <<ch, 7>>) = Put(screen, cy, cx, <<ch, 7>>)
    BY DEF Whole!Put, Put, Whole!Fill, Fill, Whole!Draw, Draw, Whole!Grid, Grid,
           Whole!Rows, Rows, Whole!Cols, Cols
  <2>3. Whole!Advance(Whole!Put(ScreenThen, RowThen, ColThen, <<ch, 7>>), ColThen + 1)
    BY <1>1, <1>4, <2>1, <2>2
  <2> QED BY <1>5, <1>8, <2>3 DEF Whole!Teletype, Control, ScreenThen, ColThen, RowThen
<1> QED BY <1>6, <1>7, <1>8 DEF Scrolling, Control

\* The cursor stays a place, whether on the screen or below it.
CursorNat == /\ cx \in Nat /\ cy \in Nat
             /\ loop.x \in Nat /\ loop.y \in Nat

LEMMA NatAdvances ==
  ASSUME CursorNat, NEW s, NEW x \in Nat, Advance(s, x)
  PROVE  cx' \in Nat /\ cy' \in Nat
  BY DEF CursorNat, Advance, MoveTo, NextRow

LEMMA NatStays ==
  ASSUME CursorNat, Stay
  PROVE  cx' \in Nat /\ cy' \in Nat
<1>1. ASSUME NEW ch \in Typed, Teletype(ch) PROVE cx' \in Nat /\ cy' \in Nat
  <2>1. ((cx \div TAB) + 1) * TAB \in Nat
    <3> DEFINE k == (cx \div TAB) + 1
    <3>1. k \in Nat /\ TAB \in Nat
      <4>1. cx \in Nat /\ TAB \in Nat \ {0}
        BY SizeAssumption DEF CursorNat
      <4>2. cx \div TAB \in Nat
        BY ONLY <4>1, DivMod
      <4> QED BY ONLY <4>1, <4>2
    <3> HIDE DEF k
    <3>2. k * TAB \in Nat
      BY <3>1
    <3> QED BY <3>2 DEF k
  <2>2. CASE ch = "LF"
    BY <1>1, <2>2, NatAdvances DEF Teletype
  <2>3. CASE ch \in {"CR", "BS"}
    BY <1>1, <2>3 DEF Teletype, CanStepBack, MoveTo, CursorNat
  <2>4. CASE ch = "HT"
    BY <1>1, <2>1, <2>4, NatAdvances DEF Teletype
  <2>5. CASE ch \notin {"LF", "CR", "BS", "HT"}
    <3>1. Advance(Put(screen, cy, cx, <<ch, 7>>), cx + 1) /\ cx + 1 \in Nat
      BY <1>1, <2>5 DEF Teletype, CursorNat
    <3> QED BY <3>1, NatAdvances
  <2> QED BY <2>2, <2>3, <2>4, <2>5
<1>2. ASSUME NEW x \in 0 .. WIDTH, NEW y \in 0 .. HEIGHT, SetCursorPosition(x, y)
      PROVE  cx' \in Nat /\ cy' \in Nat
  BY <1>2 DEF SetCursorPosition, MoveTo, Clamp
<1>3. ASSUME NEW v \in PortBytes, WriteData(v) PROVE cx' \in Nat /\ cy' \in Nat
  <2>1. cy * WIDTH \in Nat /\ cx \in Nat
    BY DEF CursorNat
  <2>2. Offset \in Nat
    BY ONLY <2>1 DEF Offset
  <2>3. BYTE \in Nat \ {0} /\ v \in Nat
    OBVIOUS
  <2>4. Offset \div BYTE \in Nat /\ Offset % BYTE \in Nat
    <3>1. ASSUME NEW o \in Nat PROVE o \div BYTE \in Nat /\ o % BYTE \in 0 .. BYTE - 1
      BY <2>3, DivMod
    <3>2. Offset \div BYTE \in Nat /\ Offset % BYTE \in 0 .. BYTE - 1
      BY <2>2, <3>1, Zenon
    <3> QED BY <2>3, <3>2
  <2>5. (Offset \div BYTE) % BYTE \in Nat
    BY ONLY <2>3, <2>4, DivMod
  <2>6. WithHigh(Offset, v) \in Nat /\ WithLow(Offset, v) \in Nat
    <3>1. ASSUME NEW a \in Nat, NEW b \in Nat PROVE a * BYTE + b \in Nat
      <4>1. a * BYTE \in Nat
        BY <2>3
      <4> QED BY <4>1
    <3> QED BY <2>3, <2>4, <2>5, <3>1, Zenon DEF WithHigh, WithLow
  <2>7. ASSUME NEW o \in Nat, MoveToOffset(o) PROVE cx' \in Nat /\ cy' \in Nat
    <3>1. cx' \in Cols /\ cy' \in Nat
      BY <2>7, MoveToOffsetOK
    <3> QED BY <3>1 DEF Cols
  <2>8. \/ MoveToOffset(WithHigh(Offset, v))
        \/ MoveToOffset(WithLow(Offset, v))
        \/ UNCHANGED cursorVars
    BY <1>3 DEF WriteData
  <2> QED BY <2>6, <2>7, <2>8 DEF cursorVars, CursorNat
<1>4. ASSUME \/ GraphicsService \/ ModeService \/ DirectStore
             \/ \E v : WriteIndex(v)
             \/ ReadStatus
             \/ \E x, y, c : PutChar(x, y, c)
             \/ ClearScreen \/ SyncBufferFromMemory \/ SyncBufferToMemory \/ Reset
      PROVE  cx' \in Nat /\ cy' \in Nat
  <2>1. CASE ModeService \/ ClearScreen \/ Reset
    BY <2>1 DEF ModeService, SetVideoMode, ClearScreen, Reset, MoveTo
  <2>2. CASE UNCHANGED cursorVars
    BY <2>2 DEF cursorVars, CursorNat
  <2>3. /\ GraphicsService => UNCHANGED cursorVars
        /\ DirectStore => UNCHANGED cursorVars
        /\ \A v : WriteIndex(v) => UNCHANGED cursorVars
        /\ ReadStatus => UNCHANGED cursorVars
        /\ \A x, y, c : PutChar(x, y, c) => UNCHANGED cursorVars
        /\ SyncBufferFromMemory \/ SyncBufferToMemory => UNCHANGED cursorVars
    BY DEF GraphicsService, PutPixel, DirectStore, StoreText, StorePixel, WriteIndex,
           ReadStatus, PutChar, SyncBufferFromMemory, SyncBufferToMemory
  <2> QED BY <1>4, <2>1, <2>2, <2>3, Zenon
<1>5. PortAccess => cx' \in Nat /\ cy' \in Nat
  BY <1>3, <1>4, Zenon DEF PortAccess
<1> QED BY <1>1, <1>2, <1>4, <1>5, Zenon DEF Stay

LEMMA NatStep == ASSUME LoopInv, CursorNat, [LoopNext]_loopVars PROVE CursorNat'
<1>1. CASE UNCHANGED loopVars
  BY <1>1 DEF loopVars, vars, cursorVars, CursorNat
<1>2. CASE LoopNext /\ loop.running
  <2>1. CASE DrawCell
    BY <1>2, <2>1, CellStep DEF DrawCell, cursorVars, CursorNat
  <2>2. CASE Leave
    BY <2>2 DEF Leave, Idle, CursorNat
  <2> QED BY <1>2, <2>1, <2>2 DEF LoopNext
<1>3. CASE LoopNext /\ ~loop.running
  <2>1. ASSUME NEW ch \in Typed, TeletypeScrolls(ch) PROVE CursorNat'
    BY <2>1 DEF TeletypeScrolls, MoveTo, Enter, CursorNat
  <2>2. ASSUME \/ \E w \in Windows : EnterWindow(w[1], w[2], w[3])
               \/ \E c \in Drawn, n \in 0 .. WIDTH + 1 : EnterWrite(c[1], c[2], n)
        PROVE  CursorNat'
    BY <2>2 DEF EnterWindow, EnterWrite, Enter, vars, cursorVars, CursorNat
  <2>3. CASE EnterClear
    BY <2>3 DEF EnterClear, Enter, CursorNat
  <2>4. CASE Stay
    BY <2>4, NatStays, StaySteps DEF CursorNat
  <2> QED BY <1>3, <2>1, <2>2, <2>3, <2>4, Zenon DEF LoopNext
<1> QED BY <1>1, <1>2, <1>3

LEMMA WholeStep ==
  ASSUME LoopInv, CursorNat, [LoopNext]_loopVars
  PROVE  [Whole!Next]_(Whole!vars)
<1>1. CASE UNCHANGED loopVars
  BY <1>1 DEF loopVars, vars, Drawing, cursorVars, portVars,
              Whole!vars, Whole!cursorVars, Whole!portVars
<1>2. CASE LoopNext /\ loop.running
  BY <1>2, WholeStutters DEF LoopNext
<1>3. CASE LoopNext /\ ~loop.running
  <2>1. ASSUME NEW ch \in Typed, Scrolling(ch), TeletypeScrolls(ch) PROVE Whole!Next
    BY <1>3, <2>1, WholeScrolls, Zenon DEF CursorNat, Whole!Next, Whole!TextService
  <2>2. ASSUME NEW w \in Windows, EnterWindow(w[1], w[2], w[3]) PROVE Whole!Next
    BY <1>3, <2>2, WholeEnters, Zenon DEF Whole!Next, Whole!TextService
  <2>3. ASSUME NEW c \in Drawn, NEW n \in 0 .. WIDTH + 1, EnterWrite(c[1], c[2], n)
        PROVE  Whole!Next
    BY <1>3, <2>3, WholeEnters, Zenon DEF Whole!Next, Whole!TextService
  <2>4. CASE EnterClear
    BY <1>3, <2>4, WholeEnters, Zenon DEF Whole!Next, Whole!HostOperation
  <2>5. CASE Stay
    BY <1>3, <2>5, WholeStays
  <2> QED BY <1>3, <2>1, <2>2, <2>3, <2>4, <2>5 DEF LoopNext
<1> QED BY <1>1, <1>2, <1>3

\* The loops of scrolling, filling and clearing, which work in place cell by
\* cell, implement the one-step services of module Vga, on screens of every
\* size, for windows of every shape and for moves by any number of rows.
THEOREM LoopsAreServices == LoopSpec => DrawsAtOnce
<1>1. LoopInv /\ CursorNat /\ [LoopNext]_loopVars => [Whole!Next]_(Whole!vars)
  BY WholeStep
<1>2. LoopInit => CursorNat
  BY DEF LoopInit, Init, Idle, CursorNat
<1>3. LoopInv /\ CursorNat /\ [LoopNext]_loopVars => LoopInv' /\ CursorNat'
  BY LoopStep, NatStep
<1>4. LoopSpec => Whole!Init /\ [][Whole!Next]_(Whole!vars)
  BY <1>1, <1>2, <1>3, WholeInit, LoopStart, PTL DEF LoopSpec
<1> QED BY <1>4 DEF DrawsAtOnce, Whole!Spec
===============================================================================
