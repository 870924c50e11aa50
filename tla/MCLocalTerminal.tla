--------------------------- MODULE MCLocalTerminal ---------------------------
(* Instances of LocalTerminal for TLC.                                     *)
EXTENDS LocalTerminal

CONSTANTS o1, o2

(* o1 runs a command and waits for a prompt; o2 types text on the line.    *)
OneTypes ==
    [op \in Op |-> [submit |-> op = o1, wait |-> TRUE, patient |-> op = o1]]

(* The user types, or an agent interrupts, once in a posix shell.          *)
PosixInput == [kind \in Shells |-> IF kind = "posix" THEN 1 ELSE 0]
=============================================================================
