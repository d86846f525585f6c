--------------------------- MODULE MCOutboxWorker ---------------------------
(***************************************************************************)
(* Instances of OutboxWorker for TLC.                                      *)
(***************************************************************************)
EXTENDS OutboxWorker, TLC

CONSTANTS w1, w2, o1

\* Workers differ in nothing but their names.
Swap == Permutations(Worker)
=============================================================================
