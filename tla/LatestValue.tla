------------------------------ MODULE LatestValue ------------------------------
(***************************************************************************)
(* What two threads that exchange values through a locked buffer are       *)
(* promised: every value that is stored is one that was produced, each     *)
(* newer than the one before, and a reader obtains the value stored last,  *)
(* whole.  Values may be skipped and read more than once.  Values are      *)
(* numbered in the order in which they are produced; 0 is the initial one. *)
(***************************************************************************)
EXTENDS Naturals

VARIABLES newest,  \* the number of values produced
          slot,    \* the value in the buffer
          out      \* the value the reader obtained last

vars == <<newest, slot, out>>

Init == newest = 0 /\ slot = 0 /\ out = 0

Produce == newest' = newest + 1 /\ UNCHANGED <<slot, out>>

Store == slot' \in (slot + 1)..newest /\ UNCHANGED <<newest, out>>

Read == out' = slot /\ UNCHANGED <<newest, slot>>

Next == Produce \/ Store \/ Read

Spec == Init /\ [][Next]_vars
===============================================================================
