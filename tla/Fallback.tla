------------------------------ MODULE Fallback ------------------------------
(***************************************************************************)
(* The cascade fallback outbound (rsb-protocol/src/fallback.rs): dials that *)
(* share the index of the active child.  A dial tries the active child and  *)
(* the ones below it, and a success further down makes that child the       *)
(* active one.  TCP and UDP dials run the same code on the same index.      *)
(*                                                                         *)
(* A dial runs on its own thread, so every load and store of the index is a *)
(* step of its own.  Once ended it may start over: Callers bounds how many    *)
(* overlap, not how many there are.                                         *)
(***************************************************************************)
EXTENDS Integers

CONSTANTS
  Callers,  \* concurrent dials of the group
  N       \* number of children

ASSUME NAssumption == N \in Nat \ {0}   \* from_raw: "fallback: outbounds required"

Children == 0..(N - 1)

VARIABLES
  active,   \* active_idx
  reached,  \* history: the children that have answered a dial
  pc,       \* per dial: where it is,
  idx,      \* the child it is trying,
  before,   \* active_before
  cur       \* and on_failover's reading of the index

vars == <<active, reached, pc, idx, before, cur>>

Final == {"idle", "ok", "err", "cancelled"}

TypeOK ==
  /\ active \in Children /\ reached \subseteq Children
  /\ pc \in [Callers -> {"order", "before", "try", "failover", "store"} \cup Final]
  /\ idx \in [Callers -> Children] /\ before \in [Callers -> Children]
  /\ cur \in [Callers -> Children]

Init ==
  /\ active = 0 /\ reached = {}
  /\ pc = [d \in Callers |-> "idle"]
  /\ idx = [d \in Callers |-> 0]
  /\ before = [d \in Callers |-> 0] /\ cur = [d \in Callers |-> 0]
-----------------------------------------------------------------------------
Goto(d, next) == pc' = [pc EXCEPT ![d] = next]

Start(d) ==
  /\ pc[d] \in Final
  /\ Goto(d, "order")
  /\ UNCHANGED <<active, reached, idx, before, cur>>

\* dial_order: the active child and the ones below it, top to bottom.
DialOrder(d) ==
  /\ pc[d] = "order"
  /\ idx' = [idx EXCEPT ![d] = active]
  /\ Goto(d, "before")
  /\ UNCHANGED <<active, reached, before, cur>>

\* The index is read a second time for active_before.
ActiveBefore(d) ==
  /\ pc[d] = "before"
  /\ before' = [before EXCEPT ![d] = active]
  /\ Goto(d, "try")
  /\ UNCHANGED <<active, reached, idx, cur>>

\* Mutant of ChildFails: the cascade starts over at the top.
ChildFailsWraps(d) ==
  /\ pc[d] = "try"
  /\ idx' = [idx EXCEPT ![d] = (@ + 1) % N]
  /\ UNCHANGED <<active, reached, pc, before, cur>>

\* Mutant of ChildFails: one child too many.
ChildFailsPastEnd(d) ==
  /\ pc[d] = "try"
  /\ idx' = [idx EXCEPT ![d] = @ + 1]
  /\ IF idx[d] = N THEN Goto(d, "err") ELSE UNCHANGED pc
  /\ UNCHANGED <<active, reached, before, cur>>

\* The child is missing, fails, or exceeds dial_timeout: the next one is
\* tried, and after the last one the dial fails.
ChildFails(d) ==
  /\ pc[d] = "try"
  /\ IF idx[d] = N - 1
       THEN Goto(d, "err") /\ UNCHANGED idx
       ELSE idx' = [idx EXCEPT ![d] = @ + 1] /\ UNCHANGED pc
  /\ UNCHANGED <<active, reached, before, cur>>

ChildAnswers(d) ==
  /\ pc[d] = "try"
  /\ reached' = reached \cup {idx[d]}
  /\ Goto(d, IF idx[d] > before[d] THEN "failover" ELSE "ok")
  /\ UNCHANGED <<active, idx, before, cur>>

\* on_failover reads the index and returns unless the child is below it ...
OnFailover(d) ==
  /\ pc[d] = "failover"
  /\ cur' = [cur EXCEPT ![d] = active]
  /\ Goto(d, IF idx[d] <= active THEN "ok" ELSE "store")
  /\ UNCHANGED <<active, reached, idx, before>>

\* Mutant of SetActive: sticks to the child above the one that answered.
SetActiveAbove(d) ==
  /\ pc[d] = "store"
  /\ active' = idx[d] - 1
  /\ Goto(d, "ok")
  /\ UNCHANGED <<reached, idx, before, cur>>

\* ... and otherwise stores it.
SetActive(d) ==
  /\ pc[d] = "store"
  /\ active' = idx[d]
  /\ Goto(d, "ok")
  /\ UNCHANGED <<reached, idx, before, cur>>

\* The caller gives up while a child is being dialled, the only await.
Cancel(d) ==
  /\ pc[d] = "try"
  /\ Goto(d, "cancelled")
  /\ UNCHANGED <<active, reached, idx, before, cur>>

Dial(d) ==
  \/ DialOrder(d) \/ ActiveBefore(d) \/ ChildFails(d) \/ ChildAnswers(d)
  \/ OnFailover(d) \/ SetActive(d)

Next == \E d \in Callers : Start(d) \/ Dial(d) \/ Cancel(d)

\* A spawned task makes progress; that a child fails if it does not answer is
\* dial_timeout's doing.
Fairness == \A d \in Callers : WF_vars(Dial(d))

Spec == Init /\ [][Next]_vars /\ Fairness
-----------------------------------------------------------------------------
(* Properties *)

\* The cascade sticks only to a child that has answered: a child that was
\* merely tried, or skipped, never becomes active.
StickyHasAnswered == active = 0 \/ active \in reached

\* Once a dial has failed over, the primary is never the active child again,
\* however late a failover stores the index it decided on.
NeverBackToPrimary == [][active > 0 => active' > 0]_active

\* Every dial ends: the cascade goes down only and each child has a timeout.
DialsEnd == \A d \in Callers : pc[d] = "order" ~> pc[d] \in Final

\* What on_failover's doc comment says, "Stick further down the cascade; never
\* move upward."  Broken: its load and its store are two steps, and a failover
\* to a higher child may be stored after one to a lower child.
NeverMovesUpward == [][active' >= active]_active
-----------------------------------------------------------------------------
(***************************************************************************)
(* Why these hold although the load and the store of the index race: the    *)
(* invariant that every step keeps.                                         *)
(***************************************************************************)
\* A dial that is about to stick to a child has had an answer from it, and the
\* child is not the primary: it lies below the index the dial started from.
Reaching ==
  \A d \in Callers : pc[d] \in {"failover", "store"} => idx[d] > 0 /\ idx[d] \in reached

IInv == TypeOK /\ StickyHasAnswered /\ Reaching
=============================================================================
