------------------------------ MODULE DurableLog ------------------------------
(***************************************************************************)
(* What a journal file promises to whoever reads it, at any moment and     *)
(* after any crash: a log of records the protocol accepts, that only grows *)
(* at its end, of which a loss of power takes nothing that was             *)
(* acknowledged, and that nothing is ever appended to once its end is torn *)
(* and nobody is writing it.  Module JournalFile implements it with        *)
(* frames, locks and several processes; the journal module                 *)
(* RenameTransaction keeps is one too (LoggedTransaction).                 *)
(***************************************************************************)
EXTENDS Naturals, Sequences

CONSTANTS
  Records,     \* the records a transaction may consist of
  Legal(_)     \* the protocol accepts these records, one after the other

VARIABLES
  log,         \* the records a reader finds
  safe,        \* how many of them were acknowledged
  torn,        \* something unreadable follows them, left by a writer that is gone
  rewritten    \* another program has rewritten the file: no promise holds

vars == <<log, safe, torn, rewritten>>

\* A log is empty or was left, whole, by an earlier run.
Init ==
  /\ Legal(log) /\ safe = Len(log)
  /\ torn = FALSE /\ rewritten = FALSE

\* A record is whole, and acknowledged with that or not yet.
Extend ==
  /\ ~torn
  /\ \E r \in Records : Legal(Append(log, r)) /\ log' = Append(log, r)
  /\ safe' \in {safe, Len(log')} /\ UNCHANGED <<torn, rewritten>>

Acknowledge == ~torn /\ safe' = Len(log) /\ UNCHANGED <<log, torn, rewritten>>

\* The writer of a record stops within it.
Tear == ~torn /\ torn' = TRUE /\ UNCHANGED <<log, safe, rewritten>>

\* Power is lost.  The end that is left may be unreadable; all of it is
\* where power cannot reach it.
Lose ==
  /\ \E k \in safe..Len(log) : log' = SubSeq(log, 1, k)
  /\ safe' \in {safe, Len(log')}
  /\ torn' \in BOOLEAN /\ UNCHANGED rewritten

Rewrite ==
  /\ ~rewritten /\ rewritten' = TRUE
  /\ log' = << >> /\ safe' = 0 /\ torn' = FALSE

Next == ~rewritten /\ (Extend \/ Acknowledge \/ Tear \/ Lose \/ Rewrite)

Spec == Init /\ [][Next]_vars
===============================================================================
