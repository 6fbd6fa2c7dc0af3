---------------------------- MODULE MCCandyText ----------------------------
(***************************************************************************)
(* A font with one black pixel for each character.                         *)
(***************************************************************************)
EXTENDS CandyText

OnePixelFont == [c \in 0 .. Plus |-> {<<c \div 8, c % 8>>}]
=============================================================================
