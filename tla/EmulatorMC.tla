------------------------------ MODULE EmulatorMC ------------------------------
(***************************************************************************)
(* Instances of module Emulator for TLC: keys, binaries and bounds.        *)
(***************************************************************************)
EXTENDS Emulator

\* Two keystrokes; the first one's scan code is a service number of INT 16h,
\* so that a guest which does not reload AH after a read calls another service.
MCKeys == {[ah |-> 1, al |-> 97], [ah |-> 30, al |-> 0]}
MCOneKey == {[ah |-> 1, al |-> 97]}

\* A binary, followed by NOPs up to the end of the code segment.
Binary(s) == [a \in Addr |-> IF a < Len(s) THEN s[a + 1] ELSE 144]

\* mov ah,0 / cs: int 16h / jmp start         reads with a prefixed INT
Echo == Binary(<<180, 0, 46, 205, 22, 235, 249>>)
\* mov ah,1 / int 16h / jz start / int 16h    checks, then calls with AH = scan code
Check == Binary(<<180, 1, 205, 22, 116, 250, 205, 22>>)
\* mov ah,1 / int 21h / mov ah,4Ch / int 21h  reads without waiting, then exits
Dos == Binary(<<180, 1, 205, 33, 180, 76, 205, 33>>)
\* mov ah,0 / cs: int 16h / jz start / iret   reads once or for ever, then a bad opcode
Reads == Binary(<<180, 0, 46, 205, 22, 116, 249, 207>>)
\* int 13h / jz +1 / hlt / es: grp3           disk stub, halt, error in mid-instruction
Stop == Binary(<<205, 19, 116, 1, 244, 38, 246, 200>>)
\* mov ah,1 / int 16h / jz start / mov ah,0 / int 16h    polls, then reads
Poll == Binary(<<180, 1, 205, 22, 116, 250, 180, 0, 205, 22>>)
\* mov ah,1 / int 21h                         reads without waiting, for ever
DosLoop == Binary(<<180, 1, 205, 33>>)

MCGuests == {Reads, Check, Dos, Stop}
MCLoops == {Echo, Poll, DosLoop}
===============================================================================
