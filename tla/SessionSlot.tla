---------------------------- MODULE SessionSlot ----------------------------
(***************************************************************************)
(* What a single-flight session cache promises its dials: one slot, and one *)
(* connect at a time, which alone may fill the slot.  Anyone may empty it.   *)
(***************************************************************************)
EXTENDS Naturals

VARIABLES
  slot,   \* the cached connection, 0 when there is none
  busy    \* a connect is in flight

Init == slot = 0 /\ busy = FALSE

Begin  == ~busy /\ busy' = TRUE /\ UNCHANGED slot
Store  == busy /\ slot' \in Nat \ {0} /\ UNCHANGED busy
Finish == busy /\ busy' = FALSE /\ UNCHANGED slot
Evict  == slot' = 0 /\ UNCHANGED busy

Next == Begin \/ Store \/ Finish \/ Evict

Spec == Init /\ [][Next]_<<slot, busy>>
=============================================================================
