------------------------------- MODULE MCService -------------------------------
(***************************************************************************)
(* Instances of ApplicationService: threads are model values.              *)
(***************************************************************************)
EXTENDS ApplicationService, TLC

CONSTANTS browsing, mutating1, mutating2, window

OneBrowser  == {browsing}
TwoMutators == {mutating1, mutating2}
Window      == {window}

AnyMutator == Permutations(TwoMutators)
===============================================================================
