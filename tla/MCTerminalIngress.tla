-------------------------- MODULE MCTerminalIngress --------------------------
(* Instances of TerminalIngress for TLC.                                   *)
EXTENDS TerminalIngress, TLC, FiniteSetsExt

(* The third chunk is as large as the budget, every other has one byte.    *)
SizeOf(c) == IF c = 3 THEN MaxBytes ELSE 1
SumOfSizes == [S \in SUBSET Chunk |-> MapThenSumSet(SizeOf, S)]
=============================================================================
