---------------------------- MODULE DnsUpstream ----------------------------
(***************************************************************************)
(* DnsRouter::lookup_uncached (rsb-dns/lib.rs): which upstream servers one  *)
(* lookup tries, and in which order, over every small configuration.        *)
(*                                                                         *)
(* A server is named by its position in its router's list.  A server of     *)
(* type "resolved" or "local" hands the lookup over to the router that is   *)
(* registered for its service (resolved_registry.rs).                       *)
(***************************************************************************)
EXTENDS Integers, Sequences

CONSTANTS
  Routers,    \* DnsRouter instances
  Main,       \* the one that is asked
  Services,   \* tags of resolved services
  NoRouter,   \* registry value of a service that is not running
  MaxServers  \* bound on the servers of a router

Transports == {"query", "fakeip"} \cup Services
ServerLists == UNION {[1..n -> Transports] : n \in 0..MaxServers}

VARIABLES
  servers,    \* per router: the transports of its servers
  preferred,  \* per router: pick_server's choice for the host, 0 if it has none
  registry,   \* per service: the registered router
  current, pinned, attempted, \* the locals of lookup_uncached
  todo,       \* the candidates left in this round
  pc, answer  \* where it is, and who answered

config == <<servers, preferred, registry>>
vars == <<config, current, pinned, attempted, todo, pc, answer>>

TypeOK ==
  /\ servers \in [Routers -> ServerLists]
  /\ \A r \in Routers : preferred[r] \in 0..Len(servers[r])
  /\ registry \in [Services -> Routers \cup {NoRouter}]
  /\ current \in Routers /\ pinned \in BOOLEAN
  /\ attempted \subseteq 1..MaxServers
  /\ todo \subseteq 1..Len(servers[current])
  /\ pc \in {"round", "try", "done"}
  /\ answer \in {"none", "upstream", "fake", "system"}

Init ==
  /\ servers \in [Routers -> ServerLists]
  /\ preferred \in [Routers -> 0..MaxServers]
  /\ \A r \in Routers :
       preferred[r] \in (IF servers[r] = <<>> THEN {0} ELSE 1..Len(servers[r]))
  /\ registry \in [Services -> Routers \cup {NoRouter}]
  /\ current = Main /\ pinned = FALSE /\ attempted = {} /\ todo = {}
  /\ pc = "round" /\ answer = "none"
-----------------------------------------------------------------------------

\* Mutant of Candidates: fakeip servers are candidates like the others.
CandidatesFake(r) == 1..Len(servers[r])

\* The preferred server and the others, but fakeip only if it is preferred.
Candidates(r) == {i \in 1..Len(servers[r]) : i = preferred[r] \/ servers[r][i] # "fakeip"}

\* Candidate i is in turn: the preferred server first, then the others in the
\* order of the list.
InTurn(i) ==
  \/ i = preferred[current]
  \/ preferred[current] \notin todo /\ \A j \in todo : i <= j

Round ==
  /\ pc = "round"
  /\ todo' = Candidates(current)
  /\ pc' = "try"
  /\ UNCHANGED <<config, current, pinned, attempted, answer>>

\* Candidate i is the next one.  Tags are unique, so the test of `attempted`
\* lets every candidate of a round through.
TakeNext(i) == pc = "try" /\ InTurn(i)

Transport(i) == servers[current][i]

\* A failed or empty query, a fakeip server without a pool, a service that is
\* not running: on to the next candidate.
Empty(i) ==
  /\ TakeNext(i)
  /\ Transport(i) \in Services => registry[Transport(i)] = NoRouter
  /\ attempted' = attempted \cup {i}
  /\ todo' = todo \ {i}
  /\ UNCHANGED <<config, current, pinned, pc, answer>>

Answer(i) ==
  /\ TakeNext(i)
  /\ Transport(i) \notin Services
  /\ answer' = IF Transport(i) = "fakeip" THEN "fake" ELSE "upstream"
  /\ pc' = "done"
  /\ UNCHANGED <<config, current, pinned, attempted, todo>>

\* Mutant of HandOver: what the previous router attempted is kept.
HandOverKeeps(i) ==
  /\ TakeNext(i)
  /\ Transport(i) \in Services /\ registry[Transport(i)] # NoRouter
  /\ current' = registry[Transport(i)]
  /\ pinned' = TRUE
  /\ UNCHANGED <<config, attempted, todo, pc, answer>>

\* A running service: continue with its router, with nothing attempted yet.
HandOver(i) ==
  /\ TakeNext(i)
  /\ Transport(i) \in Services /\ registry[Transport(i)] # NoRouter
  /\ current' = registry[Transport(i)]
  /\ pinned' = TRUE /\ attempted' = {} /\ todo' = {}
  /\ UNCHANGED <<config, pc, answer>>

\* Mutant of EndRound: returns without asking the system resolver.
EndRoundFails ==
  /\ pc = "try" /\ todo = {}
  /\ pc' = IF pinned /\ attempted = {} THEN "round" ELSE "done"
  /\ UNCHANGED <<config, current, pinned, attempted, todo, answer>>

\* The round is over: another one after a hand-over, else the system resolver.
EndRound ==
  /\ pc = "try" /\ todo = {}
  /\ IF pinned /\ attempted = {} THEN pc' = "round" /\ UNCHANGED answer
     ELSE pc' = "done" /\ answer' = "system"
  /\ UNCHANGED <<config, current, pinned, attempted, todo>>

Next ==
  \/ Round \/ EndRound
  \/ \E i \in todo : Empty(i) \/ Answer(i) \/ HandOver(i)

Spec == Init /\ [][Next]_vars /\ WF_vars(Next)
-----------------------------------------------------------------------------
(* Properties *)

\* The system resolver, which may be polluted, is asked only when every upstream
\* of the router in charge was asked and none answered; fakeip servers that no
\* rule selects do not count.
SystemIsLastResort ==
  answer = "system" =>
    \A i \in 1..Len(servers[current]) :
      i \in attempted \/ (servers[current][i] = "fakeip" /\ i # preferred[current])

\* A fake address is only given for a host that the rules send to fakeip.
FakeOnlyIfPreferred ==
  answer = "fake" => servers[current][preferred[current]] = "fakeip"

\* Inductive form of the two invariants below: what is left of a round is
\* among the candidates of the router in charge, and every one of those was
\* asked or is still to be, unless a hand-over has just emptied the round.
IInv ==
  /\ servers \in [Routers -> ServerLists] /\ registry \in [Services -> Routers \cup {NoRouter}]
  /\ current \in Routers /\ pinned \in BOOLEAN
  /\ pc = "round" => answer = "none"
  /\ pc = "try" =>
       /\ answer = "none" /\ todo \subseteq Candidates(current)
       /\ \/ pinned /\ attempted = {} /\ todo = {}
          \/ Candidates(current) \subseteq attempted \cup todo
  /\ pc \in {"round", "try", "done"}
  /\ SystemIsLastResort /\ FakeOnlyIfPreferred

\* A lookup that is handed to no resolved service ends, with an answer or with
\* the system resolver's.  One that is handed over may not: the router it is
\* handed to may hand it back, and nothing is remembered as attempted.
AnsweredOrHandedOver == answer # "none" \/ pinned
EndsUnlessHandedOver == <>AnsweredOrHandedOver
=============================================================================
