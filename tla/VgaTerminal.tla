----------------------------- MODULE VgaTerminal ------------------------------
(***************************************************************************)
(* The display of module Vga used as a terminal, through teletype output   *)
(* only (INT 10h/0Eh, INT 21h/02h and 09h), on a cleared text screen.  It  *)
(* implements module Paper: the screen is the last HEIGHT lines of it.     *)
(***************************************************************************)
EXTENDS Vga, Sequences

CONSTANT MaxGone    \* bound on the lines scrolled off the screen

VARIABLE gone       \* history: the lines that scrolled off, oldest first

Row(s, y) == [x \in Cols |-> s.buf[<<y, x>>]]
OnScreen == [i \in 1 .. HEIGHT |-> Row(screen, i - 1)]

TerminalInit ==
    /\ screen = [buf |-> [p \in Grid |-> Blank], mem |-> [p \in Grid |-> Blank],
                 dirty |-> {}]
    /\ picture = [buf |-> [p \in Pixels |-> 0], mem |-> [p \in Pixels |-> 0],
                  dirty |-> {}]
    /\ mode = "TEXT"
    /\ cx = 0 /\ cy = 0 /\ high = None /\ low = None /\ byPort = FALSE
    /\ crtc = [index |-> 0, data |-> 0] /\ vretrace = FALSE /\ status = None
    /\ gone = <<>>

EndsLine(ch) == \/ ch = "LF"
                \/ ch = "HT" /\ ((cx \div TAB) + 1) * TAB >= WIDTH
                \/ ch \notin Control /\ cx + 1 >= WIDTH

Scrolls(ch) == EndsLine(ch) /\ cy = HEIGHT - 1

\* The line that leaves the screen, with the character written last.
TopLine(ch) == LET s == IF ch \in Control THEN screen ELSE Put(screen, cy, cx, <<ch, 7>>)
               IN  Row(s, 0)

Output(ch) ==
    /\ Scrolls(ch) => Len(gone) < MaxGone
    /\ Teletype(ch)
    /\ gone' = IF Scrolls(ch) THEN Append(gone, TopLine(ch)) ELSE gone

TerminalNext == \E ch \in Typed : Output(ch)

TerminalSpec == TerminalInit /\ [][TerminalNext]_<<vars, gone>>

White(ch) == <<ch, 7>>

Sheet == INSTANCE Paper WITH
            Glyphs <- Typed \ Control, Ink <- White, Empty <- Blank,
            lines <- gone \o OnScreen, row <- Len(gone) + cy + 1, col <- cx

\* Everything printed is on the screen or scrolled off it in the order and the
\* place it was printed: wrapping at the right edge, tabs over it, backspaces
\* and line feeds in the last row lose, move or overwrite nothing.
PrintsOnPaper == Sheet!Spec
===============================================================================
