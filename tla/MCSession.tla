----------------------------- MODULE MCSession -----------------------------
(***************************************************************************)
(* Instances of Session for TLC.  Alice and Bob have each other's keys;    *)
(* Carol has Alice's, but Alice was started with Bob's.                    *)
(***************************************************************************)
EXTENDS Session

CONSTANTS alice, bob, carol

MCTwo == {alice, bob}
MCThree == {alice, bob, carol}
MCAlice == {alice}
MCBob == {bob}
MCNobody == {}

MCFriend == [p \in Peers |-> IF p = alice THEN bob ELSE alice]
MCVersion == [p \in Peers |-> 0]
MCOldCarol == [p \in Peers |-> IF p = carol THEN 1 ELSE 0]

\* Nobody dials; the others dial Alice; everybody dials the others.
MCNoDials == [p \in Peers |-> {}]
MCDialAlice == [p \in Peers |-> {alice} \ {p}]
MCDialOthers == [p \in Peers |-> Peers \ {p}]
=============================================================================
