-------------------------------- MODULE Paper ---------------------------------
(***************************************************************************)
(* What teletype output promises: it writes on an endless sheet of paper.  *)
(* There is no screen and no scrolling here; a line feed behind the last   *)
(* line adds a blank one, and what was written stays.                      *)
(***************************************************************************)
EXTENDS Integers, Sequences

CONSTANTS
    WIDTH,          \* columns of the paper
    TAB,            \* distance of the tab stops
    Glyphs,         \* printable characters
    Ink(_),         \* the cell a printed character makes
    Empty           \* the cell of blank paper

VARIABLES
    lines,          \* the lines so far, each a function on the columns
    row, col        \* the head: a line of the paper (from 1), a column (from 0)

paperVars == <<lines, row, col>>

BlankLine == [x \in 0 .. WIDTH - 1 |-> Empty]

Init == /\ lines \in Seq({BlankLine}) /\ row = 1 /\ col = 0

\* The head goes to the next line, on paper that holds p.
Feed(p) == /\ lines' = IF row = Len(p) THEN Append(p, BlankLine) ELSE p
           /\ row' = row + 1
           /\ col' = 0

LineFeed == Feed(lines)

CarriageReturn == col' = 0 /\ UNCHANGED <<lines, row>>

\* The cell before the head on the same line is wiped.
Backspace == /\ col > 0
             /\ col' = col - 1
             /\ lines' = [lines EXCEPT ![row][col - 1] = Empty]
             /\ UNCHANGED row

Tabulate == LET stop == ((col \div TAB) + 1) * TAB
            IN  IF stop < WIDTH THEN col' = stop /\ UNCHANGED <<lines, row>> ELSE LineFeed

Type(ch) == LET typed == [lines EXCEPT ![row][col] = Ink(ch)]
            IN  IF col + 1 < WIDTH
                THEN lines' = typed /\ col' = col + 1 /\ UNCHANGED row
                ELSE Feed(typed)

Next == LineFeed \/ CarriageReturn \/ Backspace \/ Tabulate \/ \E ch \in Glyphs : Type(ch)

Spec == Init /\ [][Next]_paperVars
===============================================================================
