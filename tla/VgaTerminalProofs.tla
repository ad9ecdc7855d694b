-------------------------- MODULE VgaTerminalProofs ---------------------------
(***************************************************************************)
(* Teletype output implements paper, for every size of the screen and of   *)
(* its tab stops, every set of characters and every number of lines.       *)
(***************************************************************************)
EXTENDS VgaTerminal, VgaProofs, SequenceTheorems

USE SizeAssumption, CellAssumption, InputAssumption

-------------------------------------------------------------------------------
(* Lines of text *)

Line == [Cols -> Cell]
Text(s) == [i \in 1 .. HEIGHT |-> Row(s, i - 1)]
EmptyLine == [x \in Cols |-> Blank]

LEMMA OnScreenIsText == OnScreen = Text(screen) /\ OnScreen' = Text(screen')
  BY DEF OnScreen, Text, Row

LEMMA RowIsLine ==
  ASSUME NEW s, ScreenOK(s), NEW y \in Rows
  PROVE  Row(s, y) \in Line /\ \A x \in Cols : Row(s, y)[x] = s.buf[<<y, x>>]
  BY DEF ScreenOK, Surface, Grid, Row, Line

LEMMA EmptyIsLine == EmptyLine \in Line
  BY BlankIsCell DEF EmptyLine, Line

LEMMA TextIsLines ==
  ASSUME NEW s, ScreenOK(s)
  PROVE  /\ Text(s) \in Seq(Line) /\ Len(Text(s)) = HEIGHT
         /\ \A i \in 1 .. HEIGHT : Text(s)[i] = Row(s, i - 1)
<1>1. ASSUME NEW i \in 1 .. HEIGHT PROVE Row(s, i - 1) \in Line
  <2>1. i - 1 \in Rows
    BY DEF Rows
  <2> QED BY <2>1, RowIsLine
<1>2. Text(s) \in [1 .. HEIGHT -> Line]
  BY <1>1 DEF Text
<1>3. Text(s) \in Seq(Line)
  <2> DEFINE t == Text(s)
  <2>1. t \in [1 .. HEIGHT -> Line]
    BY <1>2
  <2> HIDE DEF t
  <2>2. [1 .. HEIGHT -> Line] \in {[1 .. n -> Line] : n \in Nat}
    OBVIOUS
  <2>3. t \in UNION {[1 .. n -> Line] : n \in Nat}
    BY <2>1, <2>2
  <2>4. Seq(Line) = UNION {[1 .. n -> Line] : n \in Nat}
    BY SeqDef, Zenon
  <2>5. t \in Seq(Line)
    BY <2>3, <2>4, Zenon
  <2> QED BY <2>5 DEF t
<1>4. Len(Text(s)) = HEIGHT
  <2> DEFINE t == Text(s)
  <2>1. t \in [1 .. HEIGHT -> Line] /\ t \in Seq(Line)
    BY <1>2, <1>3
  <2> HIDE DEF t
  <2>2. Len(t) \in Nat /\ DOMAIN t = 1 .. Len(t) /\ DOMAIN t = 1 .. HEIGHT
    BY <2>1, LenProperties
  <2> DEFINE n == Len(t)
  <2>3. n \in Nat /\ 1 .. n = 1 .. HEIGHT
    BY <2>2
  <2> HIDE DEF n
  <2>4. HEIGHT \in 1 .. n /\ (n > 0 => n \in 1 .. HEIGHT)
    <3>1. HEIGHT \in 1 .. HEIGHT /\ (n > 0 => n \in 1 .. n)
      BY <2>3
    <3> QED BY <2>3, <3>1
  <2>5. n = HEIGHT
    BY <2>3, <2>4
  <2> QED BY <2>5 DEF n, t
<1> QED BY <1>3, <1>4 DEF Text

\* A sheet: the lines that are gone, and the screen below them.
LEMMA SheetLines ==
  ASSUME NEW g \in Seq(Line), NEW s, ScreenOK(s)
  PROVE  /\ g \o Text(s) \in Seq(Line)
         /\ Len(g) \in Nat
         /\ Len(g \o Text(s)) = Len(g) + HEIGHT
         /\ \A i \in 1 .. Len(g) + HEIGHT :
              (g \o Text(s))[i] = IF i <= Len(g) THEN g[i] ELSE Row(s, i - Len(g) - 1)
<1>1. /\ Text(s) \in Seq(Line) /\ Len(Text(s)) = HEIGHT
      /\ \A i \in 1 .. HEIGHT : Text(s)[i] = Row(s, i - 1)
  BY TextIsLines
<1>2. Len(g) \in Nat
  BY LenProperties
<1>3. /\ g \o Text(s) \in Seq(Line)
      /\ Len(g \o Text(s)) = Len(g) + HEIGHT
      /\ \A i \in 1 .. Len(g) + HEIGHT :
           (g \o Text(s))[i] = IF i <= Len(g) THEN g[i] ELSE Text(s)[i - Len(g)]
  BY <1>1, ConcatProperties
<1>4. ASSUME NEW i \in 1 .. Len(g) + HEIGHT
      PROVE  (g \o Text(s))[i] = IF i <= Len(g) THEN g[i] ELSE Row(s, i - Len(g) - 1)
  <2>1. ~(i <= Len(g)) => i - Len(g) \in 1 .. HEIGHT
    BY <1>2
  <2> QED BY <1>1, <1>3, <2>1
<1> QED BY <1>2, <1>3, <1>4

\* Sheet p with cell x of line k replaced.
Written(p, k, x, c) == [p EXCEPT ![k][x] = c]

\* A cell written on the screen is the same cell written on the sheet.
LEMMA PutOnSheet ==
  ASSUME NEW g \in Seq(Line), NEW s, ScreenOK(s),
         NEW y \in Rows, NEW x \in Cols, NEW c \in Cell
  PROVE  g \o Text(Put(s, y, x, c)) = Written(g \o Text(s), Len(g) + y + 1, x, c)
<1> DEFINE t == Put(s, y, x, c)
           k == Len(g) + y + 1
           p == g \o Text(s)
           q == g \o Text(t)
           r == [p EXCEPT ![k] = [p[k] EXCEPT ![x] = c]]
<1>1. ScreenOK(t)
  BY PutOK
<1>2. \A v \in Rows, u \in Cols :
        t.buf[<<v, u>>] = IF v = y /\ u = x THEN c ELSE s.buf[<<v, u>>]
  <2>1. s.buf \in [Grid -> Cell]
    BY DEF ScreenOK, Surface
  <2>2. t.buf = [z \in Grid |-> IF z \in {<<y, x>>} \intersect Grid THEN c ELSE s.buf[z]]
    BY <2>1 DEF Put, Fill, Draw
  <2> HIDE DEF t
  <2> QED BY <2>2 DEF Grid
<1>3. /\ p \in Seq(Line) /\ Len(g) \in Nat /\ Len(p) = Len(g) + HEIGHT
      /\ \A i \in 1 .. Len(g) + HEIGHT :
           p[i] = IF i <= Len(g) THEN g[i] ELSE Row(s, i - Len(g) - 1)
  BY SheetLines
<1>4. /\ q \in Seq(Line) /\ Len(q) = Len(g) + HEIGHT
      /\ \A i \in 1 .. Len(g) + HEIGHT :
           q[i] = IF i <= Len(g) THEN g[i] ELSE Row(t, i - Len(g) - 1)
  BY <1>1, SheetLines
<1> HIDE DEF t, p, q
<1>5. k \in 1 .. Len(p) /\ p[k] = Row(s, y)
  <2>1. k \in 1 .. Len(g) + HEIGHT /\ ~(k <= Len(g)) /\ k - Len(g) - 1 = y
    BY <1>3 DEF Rows
  <2> QED BY <1>3, <2>1
<1>6. Row(s, y) \in Line /\ \A u \in Cols : Row(s, y)[u] = s.buf[<<y, u>>]
  BY RowIsLine
<1>7. [p[k] EXCEPT ![x] = c] = Row(t, y)
  <2>1. [Row(s, y) EXCEPT ![x] = c] = [u \in Cols |-> IF u = x THEN c ELSE s.buf[<<y, u>>]]
    BY <1>6 DEF Line
  <2>2. Row(t, y) = [u \in Cols |-> IF u = x THEN c ELSE s.buf[<<y, u>>]]
    BY <1>2 DEF Row
  <2> QED BY <1>5, <2>1, <2>2
<1>8. ASSUME NEW v \in Rows, v # y PROVE Row(t, v) = Row(s, v)
  BY <1>2, <1>8 DEF Row
<1>9. Row(t, y) \in Line
  BY <1>1, RowIsLine
<1>10. /\ r \in Seq(Line) /\ Len(r) = Len(p)
       /\ \A i \in 1 .. Len(p) : r[i] = IF i = k THEN Row(t, y) ELSE p[i]
  <2> DEFINE e == Row(t, y)
  <2>1. r = [p EXCEPT ![k] = e]
    BY <1>7
  <2> HIDE DEF e, k, r
  <2>2. e \in Line /\ k \in 1 .. Len(p) /\ p \in Seq(Line)
    BY <1>3, <1>5, <1>9 DEF e
  <2>3. /\ r \in Seq(Line) /\ Len(r) = Len(p)
        /\ \A i \in 1 .. Len(p) : r[i] = IF i = k THEN e ELSE p[i]
    BY <2>1, <2>2, ExceptSeq
  <2> QED BY <2>3 DEF e
<1>11. ASSUME NEW i \in 1 .. Len(g) + HEIGHT PROVE q[i] = r[i]
  <2>1. CASE i <= Len(g)
    <3>1. i # k
      BY <1>3, <2>1 DEF Rows
    <3> HIDE DEF r, k
    <3> QED BY <1>3, <1>4, <1>10, <2>1, <3>1
  <2>2. CASE i > Len(g)
    <3>1. /\ i - Len(g) - 1 \in Rows /\ ~(i <= Len(g))
          /\ i = k <=> i - Len(g) - 1 = y
      BY <1>3, <2>2 DEF Rows
    <3> HIDE DEF r, k
    <3> QED BY <1>3, <1>4, <1>8, <1>10, <3>1
  <2> QED BY <1>3, <2>1, <2>2
<1>12. q = r
  <2> HIDE DEF r, k
  <2> QED BY <1>3, <1>4, <1>10, <1>11, SeqEqual
<1> QED BY <1>12 DEF p, q, t, Written

\* Scrolling takes the top line of the screen off it and adds an empty one:
\* to the sheet, only the empty line is new.
LEMMA ScrollOnSheet ==
  ASSUME NEW g \in Seq(Line), NEW s, ScreenOK(s)
  PROVE  Append(g, Row(s, 0)) \o Text(ScrollUp(s)) = Append(g \o Text(s), EmptyLine)
<1> DEFINE t == ScrollUp(s)
           h == Append(g, Row(s, 0))
           p == g \o Text(s)
           q == h \o Text(t)
           r == Append(p, EmptyLine)
<1>1. ScreenOK(t)
  BY ScrollOK
<1>2. \A v \in Rows : Row(t, v) = IF v + 1 < HEIGHT THEN Row(s, v + 1) ELSE EmptyLine
  <2>1. s.buf \in [Grid -> Cell]
    BY DEF ScreenOK, Surface
  <2>2. t.buf = [z \in Grid |-> IF z[1] + 1 <= HEIGHT - 1
                                THEN s.buf[<<z[1] + 1, z[2]>>] ELSE Blank]
    BY <2>1 DEF ScrollUp, Draw, Raised
  <2> HIDE DEF t
  <2> TAKE v \in Rows
  <2>3. Row(t, v) = [x \in Cols |-> IF v + 1 <= HEIGHT - 1
                                    THEN s.buf[<<v + 1, x>>] ELSE Blank]
    BY <2>2 DEF Row, Grid
  <2>4. v + 1 <= HEIGHT - 1 <=> v + 1 < HEIGHT
    BY DEF Rows
  <2> QED BY <2>3, <2>4 DEF Row, EmptyLine
<1>3. /\ p \in Seq(Line) /\ Len(g) \in Nat /\ Len(p) = Len(g) + HEIGHT
      /\ \A i \in 1 .. Len(g) + HEIGHT :
           p[i] = IF i <= Len(g) THEN g[i] ELSE Row(s, i - Len(g) - 1)
  BY SheetLines
<1>4. Row(s, 0) \in Line
  BY RowIsLine DEF Rows
<1>5. /\ h \in Seq(Line) /\ Len(h) = Len(g) + 1
      /\ \A i \in 1 .. Len(g) + 1 : h[i] = IF i <= Len(g) THEN g[i] ELSE Row(s, 0)
  BY <1>3, <1>4, AppendProperties
<1>6. /\ q \in Seq(Line) /\ Len(q) = Len(g) + 1 + HEIGHT
      /\ \A i \in 1 .. Len(g) + 1 + HEIGHT :
           q[i] = IF i <= Len(g) + 1 THEN h[i] ELSE Row(t, i - (Len(g) + 1) - 1)
  <2> HIDE DEF t, h
  <2> QED BY <1>1, <1>5, SheetLines
<1>7. /\ r \in Seq(Line) /\ Len(r) = Len(g) + HEIGHT + 1
      /\ \A i \in 1 .. Len(g) + HEIGHT : r[i] = p[i]
      /\ r[Len(g) + HEIGHT + 1] = EmptyLine
  <2> HIDE DEF p
  <2>1. /\ r \in Seq(Line) /\ Len(r) = Len(p) + 1
        /\ \A i \in 1 .. Len(p) : r[i] = p[i]
        /\ r[Len(p) + 1] = EmptyLine
    BY <1>3, EmptyIsLine, AppendProperties
  <2> HIDE DEF r
  <2> QED BY <1>3, <2>1
<1> HIDE DEF t, h, p, q, r
<1>8. ASSUME NEW i \in 1 .. Len(g) + HEIGHT + 1 PROVE q[i] = r[i]
  <2>1. CASE i <= Len(g)
    <3>1. q[i] = g[i]
      BY <1>3, <1>5, <1>6, <2>1
    <3>2. p[i] = g[i]
      BY <1>3, <2>1
    <3> QED BY <1>3, <1>7, <2>1, <3>1, <3>2
  <2>2. CASE i = Len(g) + 1
    <3>1. q[i] = Row(s, 0)
      BY <1>3, <1>5, <1>6, <2>2
    <3>2. p[i] = Row(s, 0)
      BY <1>3, <2>2
    <3> QED BY <1>3, <1>7, <2>2, <3>1, <3>2
  <2>3. CASE i > Len(g) + 1
    <3> DEFINE v == i - Len(g) - 2
    <3>1. v \in Rows /\ v = i - (Len(g) + 1) - 1 /\ v + 1 = i - Len(g) - 1
      BY <1>3, <2>3 DEF Rows
    <3>2. q[i] = Row(t, v)
      BY <1>3, <1>6, <2>3, <3>1
    <3>3. CASE i <= Len(g) + HEIGHT
      <4>1. v + 1 < HEIGHT /\ r[i] = p[i] /\ p[i] = Row(s, v + 1)
        BY <1>3, <1>7, <2>3, <3>1, <3>3
      <4> HIDE DEF v
      <4> QED BY <1>2, <3>1, <3>2, <4>1
    <3>4. CASE i = Len(g) + HEIGHT + 1
      <4>1. ~(v + 1 < HEIGHT) /\ r[i] = EmptyLine
        BY <1>3, <1>7, <3>4
      <4> HIDE DEF v
      <4> QED BY <1>2, <3>1, <3>2, <4>1
    <3> QED BY <1>3, <3>3, <3>4
  <2> QED BY <1>3, <2>1, <2>2, <2>3
<1>9. q = r
  <2>1. Len(q) = Len(r) /\ \A i \in 1 .. Len(q) : q[i] = r[i]
    BY <1>3, <1>6, <1>7, <1>8
  <2> QED BY <1>6, <1>7, <2>1, SeqEqual
<1> QED BY <1>9 DEF q, r, h, p, t

-------------------------------------------------------------------------------
(* One character *)

\* The cursor is on the screen and all that is gone are lines of the screen.
TInv == ScreenOK(screen) /\ cx \in Cols /\ cy \in Rows /\ gone \in Seq(Line)

\* The end of a line, after s was drawn: the next line of the screen, or a new
\* one below it, is the next line of the sheet.
LEMMA LineEnds ==
  ASSUME TInv, NEW s, ScreenOK(s), NEW x, ~(x < WIDTH), Advance(s, x),
         gone' = IF cy = HEIGHT - 1 THEN Append(gone, Row(s, 0)) ELSE gone
  PROVE  Sheet!Feed(gone \o Text(s)) /\ TInv'
<1>1. /\ cx \in Cols /\ cy \in Rows /\ gone \in Seq(Line)
      /\ cx' = 0 /\ cy' = NextRow /\ screen' = LineEnd(s)
  BY DEF TInv, Advance, MoveTo
<1>2. Len(gone) \in Nat /\ Len(gone \o Text(s)) = Len(gone) + HEIGHT
  BY <1>1, SheetLines
<1>3. ScreenOK(screen') /\ OnScreen' = Text(screen')
  BY AdvanceOK, OnScreenIsText
<1>4. Row(s, 0) \in Line
  BY RowIsLine DEF Rows
<1>5. Sheet!BlankLine = EmptyLine
  BY DEF Sheet!BlankLine, EmptyLine, Cols
<1> DEFINE p == gone \o Text(s)
<1>6. SUFFICES /\ gone' \o Text(screen') = IF Len(gone) + cy + 1 = Len(p)
                                           THEN Append(p, EmptyLine) ELSE p
               /\ Len(gone') + cy' + 1 = Len(gone) + cy + 1 + 1
               /\ gone' \in Seq(Line) /\ cy' \in Rows
  <2>1. 0 \in Cols
    BY DEF Cols
  <2>2. TInv'
    BY <1>1, <1>3, <1>6, <2>1 DEF TInv
  <2>3. Sheet!Feed(p)
    BY <1>1, <1>3, <1>5, <1>6 DEF Sheet!Feed
  <2> QED BY <2>2, <2>3
<1>7. CASE cy = HEIGHT - 1
  <2>1. gone' = Append(gone, Row(s, 0)) /\ screen' = ScrollUp(s) /\ cy' = cy
    BY <1>1, <1>7 DEF LineEnd, NextRow
  <2>2. Len(gone') = Len(gone) + 1 /\ gone' \in Seq(Line)
    BY <1>1, <1>4, <2>1, AppendProperties
  <2>3. gone' \o Text(screen') = Append(p, EmptyLine)
    BY <1>1, <2>1, ScrollOnSheet
  <2>4. Len(gone) + cy + 1 = Len(p)
    BY <1>2, <1>7
  <2>5. Len(gone') + cy' + 1 = Len(gone) + cy + 1 + 1
    BY <1>1, <1>2, <2>1, <2>2 DEF Rows
  <2> HIDE DEF p
  <2> QED BY <1>1, <2>1, <2>2, <2>3, <2>4, <2>5
<1>8. CASE cy # HEIGHT - 1
  <2>1. gone' = gone /\ screen' = s /\ cy' = cy + 1
    BY <1>1, <1>8 DEF LineEnd, NextRow, Rows
  <2>2. Len(gone) + cy + 1 # Len(p) /\ cy' \in Rows
    BY <1>1, <1>2, <1>8, <2>1 DEF Rows
  <2>3. Len(gone') + cy' + 1 = Len(gone) + cy + 1 + 1
    <3>1. Len(gone') = Len(gone) /\ cy \in Nat
      BY <1>1, <2>1 DEF Rows
    <3> DEFINE n == Len(gone)
    <3>2. n \in Nat /\ cy' = cy + 1 /\ Len(gone') = n
      BY <1>2, <2>1, <3>1
    <3> HIDE DEF p, n
    <3>3. n + (cy + 1) + 1 = n + cy + 1 + 1
      BY <3>1, <3>2
    <3> QED BY <3>2, <3>3, Zenon DEF n
  <2>4. gone' \o Text(screen') = p
    BY <2>1
  <2> HIDE DEF p
  <2> QED BY <1>1, <2>1, <2>2, <2>3, <2>4
<1> QED BY <1>7, <1>8

\* Within a line: the head moves there, what was drawn is drawn on the sheet.
LEMMA LineGoesOn ==
  ASSUME TInv, NEW x \in Cols, MoveTo(x, cy), ScreenOK(screen'), gone' = gone
  PROVE  /\ TInv'
         /\ gone' \o OnScreen' = gone \o Text(screen')
         /\ cx' = x /\ Len(gone') + cy' + 1 = Len(gone) + cy + 1
  BY OnScreenIsText DEF TInv, MoveTo

\* Every character is one step of the head over the paper, or none.
LEMMA OutputOnPaper ==
  ASSUME TInv, NEW ch \in Typed, Output(ch)
  PROVE  [Sheet!Next]_(Sheet!paperVars) /\ TInv'
<1>1. /\ ScreenOK(screen) /\ cx \in Cols /\ cy \in Rows /\ gone \in Seq(Line)
      /\ cx \in Nat /\ cy \in Nat
  BY DEF TInv, Cols, Rows
<1>2. /\ Teletype(ch)
      /\ gone' = IF Scrolls(ch) THEN Append(gone, TopLine(ch)) ELSE gone
  BY DEF Output
<1>3. OnScreen = Text(screen)
  BY OnScreenIsText
<1>4. CASE ch = "LF"
  <2>1. Advance(screen, WIDTH) /\ ~(WIDTH < WIDTH)
    BY <1>2, <1>4 DEF Teletype
  <2>2. gone' = IF cy = HEIGHT - 1 THEN Append(gone, Row(screen, 0)) ELSE gone
    BY <1>2, <1>4 DEF Scrolls, EndsLine, TopLine, Control
  <2>3. Sheet!Feed(gone \o Text(screen)) /\ TInv'
    BY <1>1, <2>1, <2>2, LineEnds
  <2> QED BY <1>3, <2>3 DEF Sheet!Next, Sheet!LineFeed
<1>5. CASE ch = "CR"
  <2>1. MoveTo(0, cy) /\ screen' = screen
    BY <1>2, <1>5 DEF Teletype
  <2>2. gone' = gone
    BY <1>2, <1>5 DEF Scrolls, EndsLine, Control
  <2>3. 0 \in Cols
    BY DEF Cols
  <2>4. /\ TInv' /\ gone' \o OnScreen' = gone \o OnScreen
        /\ cx' = 0 /\ Len(gone') + cy' + 1 = Len(gone) + cy + 1
    BY <1>1, <1>3, <2>1, <2>2, <2>3, LineGoesOn
  <2> QED BY <2>4 DEF Sheet!Next, Sheet!CarriageReturn
<1>6. CASE ch = "BS"
  <2>1. gone' = gone
    BY <1>2, <1>6 DEF Scrolls, EndsLine, Control
  <2>2. CASE ~(cx > 0)
    <3>1. MoveTo(cx, cy) /\ screen' = screen
      BY <1>2, <1>6, <2>2 DEF Teletype, CanStepBack
    <3>2. /\ TInv' /\ gone' \o OnScreen' = gone \o OnScreen
          /\ cx' = cx /\ Len(gone') + cy' + 1 = Len(gone) + cy + 1
      BY <1>1, <1>3, <2>1, <3>1, LineGoesOn
    <3> QED BY <3>2 DEF Sheet!paperVars
  <2>3. CASE cx > 0
    <3>1. cx - 1 \in Cols
      BY <1>1, <2>3 DEF Cols
    <3>2. MoveTo(cx - 1, cy) /\ screen' = Put(screen, cy, cx - 1, Blank)
      BY <1>2, <1>6, <2>3 DEF Teletype, CanStepBack
    <3>3. ScreenOK(screen')
      BY <1>1, <3>2, PutOK, BlankIsCell
    <3>4. /\ TInv' /\ gone' \o OnScreen' = gone \o Text(screen')
          /\ cx' = cx - 1 /\ Len(gone') + cy' + 1 = Len(gone) + cy + 1
      BY <2>1, <3>1, <3>2, <3>3, LineGoesOn
    <3>5. gone \o Text(screen')
            = [gone \o OnScreen EXCEPT ![Len(gone) + cy + 1][cx - 1] = Blank]
      <4>1. gone \o Text(Put(screen, cy, cx - 1, Blank))
              = Written(gone \o Text(screen), Len(gone) + cy + 1, cx - 1, Blank)
        BY <1>1, <3>1, BlankIsCell, PutOnSheet
      <4> QED BY <1>3, <3>2, <4>1 DEF Written
    <3> QED BY <2>3, <3>4, <3>5 DEF Sheet!Next, Sheet!Backspace
  <2> QED BY <2>2, <2>3
<1>7. CASE ch = "HT"
  <2> DEFINE stop == ((cx \div TAB) + 1) * TAB
  <2>1. stop \in Nat
    <3>1. cx \div TAB \in Nat
      BY <1>1, DivMod
    <3> QED BY <3>1
  <2>2. Advance(screen, stop)
    BY <1>2, <1>7 DEF Teletype
  <2>3. gone' = IF stop >= WIDTH /\ cy = HEIGHT - 1
                THEN Append(gone, Row(screen, 0)) ELSE gone
    BY <1>2, <1>7 DEF Scrolls, EndsLine, TopLine, Control
  <2>4. (Sheet!Tabulate <=> IF stop < WIDTH
                            THEN /\ cx' = stop
                                 /\ gone' \o OnScreen' = gone \o OnScreen
                                 /\ Len(gone') + cy' + 1 = Len(gone) + cy + 1
                            ELSE Sheet!LineFeed)
    BY DEF Sheet!Tabulate
  <2> HIDE DEF stop
  <2>5. CASE stop < WIDTH
    <3>1. stop \in Cols /\ MoveTo(stop, cy) /\ screen' = screen /\ gone' = gone
      BY <2>1, <2>2, <2>3, <2>5 DEF Advance, Cols
    <3>2. /\ TInv' /\ gone' \o OnScreen' = gone \o OnScreen
          /\ cx' = stop /\ Len(gone') + cy' + 1 = Len(gone) + cy + 1
      BY <1>1, <1>3, <3>1, LineGoesOn
    <3> QED BY <2>4, <2>5, <3>2 DEF Sheet!Next
  <2>6. CASE ~(stop < WIDTH)
    <3>1. gone' = IF cy = HEIGHT - 1 THEN Append(gone, Row(screen, 0)) ELSE gone
      BY <2>1, <2>3, <2>6
    <3>2. Sheet!Feed(gone \o Text(screen)) /\ TInv'
      BY <1>1, <2>2, <2>6, <3>1, LineEnds
    <3> QED BY <1>3, <2>4, <2>6, <3>2 DEF Sheet!Next, Sheet!LineFeed
  <2> QED BY <2>5, <2>6
<1>8. CASE ch \notin Control
  <2> DEFINE s == Put(screen, cy, cx, <<ch, 7>>)
  <2>1. <<ch, 7>> \in Cell /\ White(ch) = <<ch, 7>> /\ ch \in Typed \ Control
    BY <1>8 DEF Cell, Control, White
  <2>2. ScreenOK(s)
    BY <1>1, <2>1, PutOK
  <2>3. Advance(s, cx + 1)
    BY <1>2, <1>8 DEF Teletype, Control
  <2>4. gone' = IF cx + 1 >= WIDTH /\ cy = HEIGHT - 1
                THEN Append(gone, Row(s, 0)) ELSE gone
    BY <1>2, <1>8 DEF Scrolls, EndsLine, TopLine, Control
  <2>5. gone \o Text(s) = [gone \o OnScreen EXCEPT ![Len(gone) + cy + 1][cx] = White(ch)]
    <3>1. s = Put(screen, cy, cx, <<ch, 7>>)
      OBVIOUS
    <3>2. gone \o Text(Put(screen, cy, cx, <<ch, 7>>))
            = Written(gone \o Text(screen), Len(gone) + cy + 1, cx, <<ch, 7>>)
      BY <1>1, <2>1, PutOnSheet
    <3> HIDE DEF s
    <3> QED BY <1>3, <2>1, <3>1, <3>2 DEF Written
  <2> HIDE DEF s
  <2>6. Sheet!Type(ch) <=> IF cx + 1 < WIDTH
                           THEN /\ gone' \o OnScreen' = gone \o Text(s)
                                /\ cx' = cx + 1
                                /\ Len(gone') + cy' + 1 = Len(gone) + cy + 1
                           ELSE Sheet!Feed(gone \o Text(s))
    BY <2>5 DEF Sheet!Type
  <2>7. CASE cx + 1 < WIDTH
    <3>1. cx + 1 \in Cols /\ MoveTo(cx + 1, cy) /\ screen' = s /\ gone' = gone
      BY <1>1, <2>3, <2>4, <2>7 DEF Advance, Cols
    <3>2. /\ TInv' /\ gone' \o OnScreen' = gone \o Text(s)
          /\ cx' = cx + 1 /\ Len(gone') + cy' + 1 = Len(gone) + cy + 1
      BY <2>2, <3>1, LineGoesOn
    <3> QED BY <2>1, <2>6, <2>7, <3>2 DEF Sheet!Next
  <2>8. CASE ~(cx + 1 < WIDTH)
    <3>1. gone' = IF cy = HEIGHT - 1 THEN Append(gone, Row(s, 0)) ELSE gone
      BY <1>1, <2>4, <2>8
    <3>2. Sheet!Feed(gone \o Text(s)) /\ TInv'
      BY <1>1, <2>2, <2>3, <2>8, <3>1, LineEnds
    <3> QED BY <2>1, <2>6, <2>8, <3>2 DEF Sheet!Next
  <2> QED BY <2>7, <2>8
<1> QED BY <1>4, <1>5, <1>6, <1>7, <1>8 DEF Control
-------------------------------------------------------------------------------
(* The refinement *)

LEMMA TerminalStarts ==
  TerminalInit => Sheet!Init /\ TInv
<1> SUFFICES ASSUME TerminalInit PROVE Sheet!Init /\ TInv
  OBVIOUS
<1>1. /\ screen = [buf |-> [p \in Grid |-> Blank], mem |-> [p \in Grid |-> Blank],
                   dirty |-> {}]
      /\ cx = 0 /\ cy = 0 /\ gone = <<>>
  BY DEF TerminalInit
<1>2. ScreenOK(screen)
  BY <1>1, BlankIsCell DEF ScreenOK, Surface, Coherent
<1>3. /\ TInv
  BY <1>1, <1>2 DEF TInv, Cols, Rows
<1>4. /\ OnScreen \in Seq(Line) /\ Len(OnScreen) = HEIGHT
      /\ \A i \in 1 .. HEIGHT : OnScreen[i] = Row(screen, i - 1)
  BY <1>2, OnScreenIsText, TextIsLines
<1>5. gone \o OnScreen = OnScreen /\ Len(gone) = 0
  BY <1>1, <1>4, ConcatEmptySeq, EmptySeq
<1>6. \A y \in Rows : Row(screen, y) = EmptyLine
  BY <1>1 DEF Row, EmptyLine, Grid
<1>7. OnScreen \in Seq({EmptyLine})
  <2>1. ASSUME NEW i \in 1 .. HEIGHT PROVE OnScreen[i] \in {EmptyLine}
    <3>1. i - 1 \in Rows
      BY DEF Rows
    <3> QED BY <1>4, <1>6, <3>1
  <2>2. OnScreen \in [1 .. HEIGHT -> {EmptyLine}]
    BY <2>1 DEF OnScreen
  <2>3. [1 .. HEIGHT -> {EmptyLine}] \in {[1 .. n -> {EmptyLine}] : n \in Nat}
    OBVIOUS
  <2>4. OnScreen \in UNION {[1 .. n -> {EmptyLine}] : n \in Nat}
    BY <2>2, <2>3
  <2>5. Seq({EmptyLine}) = UNION {[1 .. n -> {EmptyLine}] : n \in Nat}
    BY SeqDef, Zenon
  <2> QED BY <2>4, <2>5, Zenon
<1>8. Sheet!BlankLine = EmptyLine
  BY DEF Sheet!BlankLine, EmptyLine, Cols
<1> QED BY <1>1, <1>3, <1>5, <1>7, <1>8 DEF Sheet!Init

\* Teletype output is writing on paper: whatever is printed on a cleared
\* screen, in text of any length, every cell is on the screen or among the
\* lines that scrolled off, where an endless sheet would have it.
THEOREM PrintedIsOnPaper == TerminalSpec => PrintsOnPaper
<1>1. TInv /\ [TerminalNext]_<<vars, gone>> => [Sheet!Next]_(Sheet!paperVars) /\ TInv'
  <2> SUFFICES ASSUME TInv, [TerminalNext]_<<vars, gone>>
               PROVE  [Sheet!Next]_(Sheet!paperVars) /\ TInv'
    OBVIOUS
  <2>1. CASE TerminalNext
    BY <2>1, OutputOnPaper DEF TerminalNext
  <2>2. CASE UNCHANGED <<vars, gone>>
    <3>1. screen' = screen /\ cx' = cx /\ cy' = cy /\ gone' = gone
      BY <2>2 DEF vars, cursorVars
    <3>2. OnScreen' = OnScreen
      BY <3>1, OnScreenIsText
    <3> QED BY <3>1, <3>2 DEF TInv, Sheet!paperVars
  <2> QED BY <2>1, <2>2
<1> QED BY <1>1, TerminalStarts, PTL DEF TerminalSpec, PrintsOnPaper, Sheet!Spec
===============================================================================
