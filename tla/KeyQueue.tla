------------------------------- MODULE KeyQueue -------------------------------
(***************************************************************************)
(* What the keyboard of the emulator promises to a guest program and to    *)
(* the host application, without saying how: the host presses keys, the    *)
(* guest receives them one by one in the order they were pressed, and the  *)
(* host may throw away what the guest has not received yet.                *)
(*                                                                         *)
(* There is no buffer here.  Module Emulator implements this specification *)
(* with InterruptController's m_keyboard_buffer, which guest programs read *)
(* through INT 16h and INT 21h.                                            *)
(***************************************************************************)
EXTENDS Naturals, Sequences

CONSTANT Keys       \* the keystrokes the host can inject

VARIABLES
    sent,           \* keystrokes pressed and not thrown away, oldest first
    got             \* keystrokes the guest received, oldest first

keyVars == <<sent, got>>

Init == sent = <<>> /\ got = <<>>

\* The host presses key k.
Press(k) == sent' = Append(sent, k) /\ UNCHANGED got

\* The guest receives the oldest key it has not received yet.
Receive == /\ Len(got) < Len(sent)
           /\ got' = Append(got, sent[Len(got) + 1])
           /\ UNCHANGED sent

\* The host throws away every key the guest has not received yet.
Discard == sent' = got /\ UNCHANGED got

Next == Receive \/ Discard \/ \E k \in Keys : Press(k)

Spec == Init /\ [][Next]_keyVars
===============================================================================
