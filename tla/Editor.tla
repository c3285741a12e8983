------------------------------- MODULE Editor -------------------------------
(***************************************************************************)
(* What the input box promises: a line of characters with a cursor between *)
(* two of them.  A key inserts, erases or passes over one whole character. *)
(* A line into which something came that is no character is garbled, and   *)
(* nothing is promised of it until it is empty again.                      *)
(***************************************************************************)
EXTENDS Naturals, Sequences

CONSTANT Chars

VARIABLES before, after, garbled

vars == <<before, after, garbled>>

Init == before = <<>> /\ after = <<>> /\ garbled = FALSE

Last(s) == s[Len(s)]
AllButLast(s) == SubSeq(s, 1, Len(s) - 1)

Insert(c) ==
    /\ before' = Append(before, c)
    /\ UNCHANGED after

Erase ==
    /\ before # <<>>
    /\ before' = AllButLast(before)
    /\ UNCHANGED after

Left ==
    /\ before # <<>>
    /\ before' = AllButLast(before)
    /\ after' = <<Last(before)>> \o after

Right ==
    /\ after # <<>>
    /\ before' = Append(before, Head(after))
    /\ after' = Tail(after)

Home == before' = <<>> /\ after' = before \o after
End == before' = before \o after /\ after' = <<>>

\* The line was sent, or its command carried out.
Clear == before' = <<>> /\ after' = <<>>

Edit == (\E c \in Chars : Insert(c)) \/ Erase \/ Left \/ Right \/ Home \/ End \/ Clear

Next ==
    \/ ~garbled /\ Edit /\ UNCHANGED garbled
    \/ Clear /\ garbled' = ~garbled

Spec == Init /\ [][Next]_vars
=============================================================================
