-------------------------------- MODULE MCShell --------------------------------
(***************************************************************************)
(* Instances of Shell: a source, two rule chains and one that does not     *)
(* compile, one or two transactions in the ledger.                         *)
(***************************************************************************)
EXTENDS Shell

CONSTANTS none, edited, broken, x, first, second
===============================================================================
