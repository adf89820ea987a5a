-------------------------------- MODULE MCUndo --------------------------------
(***************************************************************************)
(* Instances of UndoLedger: objects and names are model values.            *)
(***************************************************************************)
EXTENDS UndoLedger, TLC

CONSTANTS x, y, a, b, c

TwoObjects == {x, y}
ThreeNames == {a, b, c}

AnyNameAndObject == Permutations(Names) \cup Permutations(Objects)
===============================================================================
