------------------------------ MODULE Channel ------------------------------
(***************************************************************************)
(* What a chat promises its two users: each sees the texts the other typed *)
(* complete, once and in the order they were typed.  Texts are numbered in *)
(* the order their author typed them.  Chat implements this as long as the *)
(* connection is the first one and nobody types over a text that has not   *)
(* left yet; MCChat's runs show both and what happens otherwise.           *)
(***************************************************************************)
EXTENDS Naturals, Sequences

CONSTANT Peers

VARIABLES
    typed,  \* typed[p]: how many texts p's user has sent
    shown   \* shown[p]: the texts of the other peer on p's screen

vars == <<typed, shown>>

Other(p) == CHOOSE q \in Peers : q # p

Init ==
    /\ typed = [p \in Peers |-> 0]
    /\ shown = [p \in Peers |-> <<>>]

Type(p) ==
    /\ typed' = [typed EXCEPT ![p] = @ + 1]
    /\ UNCHANGED shown

Show(p) ==
    /\ Len(shown[p]) < typed[Other(p)]
    /\ shown' = [shown EXCEPT ![p] = Append(@, Len(@) + 1)]
    /\ UNCHANGED typed

Next == \E p \in Peers : Type(p) \/ Show(p)

Spec == Init /\ [][Next]_vars

\* Nobody has to type, but what was typed has to be shown.
FairSpec == Spec /\ \A p \in Peers : WF_vars(Show(p))
=============================================================================
