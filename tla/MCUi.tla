------------------------------- MODULE MCUi -------------------------------
(* An instance of Ui: a slash, and a letter of two bytes.                  *)
EXTENDS Ui

MCWidth == [c \in Chars |-> IF c = Slash THEN 1 ELSE 2]
MCTerminals == {[width |-> 2, height |-> 5], [width |-> 3, height |-> 4]}
=============================================================================
