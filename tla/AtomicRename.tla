----------------------------- MODULE AtomicRename -----------------------------
(***************************************************************************)
(* What a rename transaction looks like from outside: every source has one *)
(* name at a time, only an announced transaction without a verdict changes *)
(* names, and the verdict is all or nothing.  No journal, no schedule, no  *)
(* failures.                                                               *)
(***************************************************************************)
CONSTANTS Sources, OriginalName, TemporaryName, FinalName

VARIABLES
  name,       \* name[s]: where source s is
  verdict     \* "unannounced", "open", "completed" or "rolledBack"

vars == <<name, verdict>>

Init == name = OriginalName /\ verdict = "unannounced"

\* The durable header: from here on a restart finds the transaction.
Announce ==
  /\ verdict = "unannounced" /\ verdict' = "open"
  /\ name' = name

\* Names go through the temporary one in both directions.
Move(s) ==
  /\ verdict = "open"
  /\ \/ name[s] = TemporaryName[s] /\ name' = [name EXCEPT ![s] = OriginalName[s]]
     \/ name[s] = TemporaryName[s] /\ name' = [name EXCEPT ![s] = FinalName[s]]
     \/ name[s] \in {OriginalName[s], FinalName[s]}
          /\ name' = [name EXCEPT ![s] = TemporaryName[s]]
  /\ verdict' = verdict

Complete ==
  /\ verdict = "open" /\ verdict' = "completed"
  /\ name = FinalName /\ name' = name

\* Also of a transaction whose header was never known to be durable.
RollBack ==
  /\ verdict \in {"unannounced", "open"} /\ verdict' = "rolledBack"
  /\ name = OriginalName /\ name' = name

Next == Announce \/ (\E s \in Sources : Move(s)) \/ Complete \/ RollBack

Spec == Init /\ [][Next]_vars
=============================================================================
