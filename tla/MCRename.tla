------------------------------- MODULE MCRename -------------------------------
(***************************************************************************)
(* Instances of RenameTransaction for TLC: up to three sources "a", "b"    *)
(* and "c" with temporary names of their own, and the shapes of plan that  *)
(* decide in which order names become free.                                *)
(***************************************************************************)
EXTENDS RenameTransactionProps, TLC

MCOriginalName  == [s \in Sources |-> <<"a", "b", "c">>[s + 1]]
MCTemporaryName == [s \in Sources |-> <<"ta", "tb", "tc">>[s + 1]]

\* Two sources that swap names.
SwapFinalName == [s \in Sources |-> <<"b", "a">>[s + 1]]
SwapNames     == {MCOriginalName[s] : s \in Sources}
                   \cup {MCTemporaryName[s] : s \in Sources}

\* Every source takes the name of the next one, the last a new name.
ShiftFinalName == [s \in Sources |-> IF s = N - 1 THEN "z" ELSE MCOriginalName[s + 1]]
ShiftNames     == SwapNames \cup {"z"}

\* The first two sources swap names, the third takes a new one.
SwapAndMoveFinalName == [s \in Sources |-> <<"b", "a", "z">>[s + 1]]

\* Every source only changes the case of its name.
CaseFinalName == MCOriginalName
CaseNames     == SwapNames
=============================================================================
