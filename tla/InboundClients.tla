--------------------------- MODULE InboundClients ---------------------------
(***************************************************************************)
(* The clients of one mixed, http or socks inbound                          *)
(* (rsb-protocol/src/inbound_proxy.rs), from accept to close: the cap on    *)
(* active connections, the permits of the handshakes and of the dials       *)
(* through a proxy, the watch on the client while its dial is prepared, and *)
(* the entries Dialer::dial_tcp (rsb-core/src/runtime.rs) tracks.           *)
(*                                                                         *)
(* What the two peers do (send, answer, read, hang up) may happen or not;   *)
(* the timers of the code always fire.  A handshake is one step: it reads a *)
(* finite request, and each of its reads is timed.                          *)
(***************************************************************************)
EXTENDS Integers, FiniteSets

CONSTANTS
  Clients,
  MaxActive,         \* MAX_ACTIVE_CONNECTIONS
  HandshakePermits,  \* MAX_CONCURRENT_INBOUND
  DialPermits        \* MAX_CONCURRENT_DIALS

VARIABLES
  open,     \* the accept loop runs
  active,   \* active_conns
  hsFree,   \* free handshake permits
  dialFree, \* free permits of DIAL_LIMITER
  pc,
  kind,     \* what a client asked for
  direct,   \* its first routing said direct
  early,    \* there is data to forward before the relay
  gone,     \* clients that have hung up
  tracked,  \* clients whose dial is in the ConnectionManager
  lost      \* history: clients whose dial was dropped or had no outbound

request == <<kind, direct, early>>
permits == <<hsFree, dialFree>>
dials == <<tracked, lost>>
vars == <<open, active, permits, pc, request, gone, dials>>

Kinds == {"connect", "socks", "plain"}
Dialling == {"check", "resolve", "permit", "dial"}
Connected == {"reply", "early", "relay"}
Tasks == {"queue", "handshake", "end"} \cup Dialling \cup Connected

TypeOK ==
  /\ open \in BOOLEAN
  /\ active \in 0..MaxActive
  /\ hsFree \in 0..HandshakePermits /\ dialFree \in 0..DialPermits
  /\ pc \in [Clients -> {"out", "refused", "closed"} \cup Tasks]
  /\ kind \in [Clients -> Kinds]
  /\ direct \in [Clients -> BOOLEAN] /\ early \in [Clients -> BOOLEAN]
  /\ gone \subseteq Clients /\ tracked \subseteq Clients /\ lost \subseteq Clients

Init ==
  /\ open = TRUE /\ active = 0
  /\ hsFree = HandshakePermits /\ dialFree = DialPermits
  /\ pc = [c \in Clients |-> "out"] /\ kind = [c \in Clients |-> "socks"]
  /\ direct = [c \in Clients |-> FALSE] /\ early = [c \in Clients |-> FALSE]
  /\ gone = {} /\ tracked = {} /\ lost = {}
-----------------------------------------------------------------------------
(* Accept loop *)

Goto(c, l) == pc' = [pc EXCEPT ![c] = l]

\* Mutant of Accept: the cap is off by one.
AcceptPastCap(c) ==
  /\ open /\ pc[c] = "out"
  /\ \/ active <= MaxActive /\ active' = active + 1 /\ Goto(c, "queue")
     \/ active > MaxActive /\ Goto(c, "refused") /\ UNCHANGED active
  /\ UNCHANGED <<open, permits, request, gone, dials>>

\* At the cap the client is reset, otherwise its task holds a guard to the end.
Accept(c) ==
  /\ open /\ pc[c] = "out"
  /\ \/ active < MaxActive /\ active' = active + 1 /\ Goto(c, "queue")
     \/ active >= MaxActive /\ Goto(c, "refused") /\ UNCHANGED active
  /\ UNCHANGED <<open, permits, request, gone, dials>>

\* close stops the accept loop; the tasks of accepted clients go on.
Close ==
  /\ open /\ open' = FALSE
  /\ UNCHANGED <<active, permits, pc, request, gone, dials>>

ClientHangsUp(c) ==
  /\ pc[c] \in Tasks /\ c \notin gone
  /\ gone' = gone \cup {c}
  /\ UNCHANGED <<open, active, permits, pc, request, dials>>
-----------------------------------------------------------------------------
(* Handshake *)

\* A permit, or after INBOUND_ACQUIRE_TIMEOUT without one a 503.
HandshakePermit(c) ==
  /\ pc[c] = "queue"
  /\ \/ hsFree > 0 /\ hsFree' = hsFree - 1 /\ Goto(c, "handshake")
     \/ hsFree = 0 /\ Goto(c, "end") /\ UNCHANGED hsFree
  /\ UNCHANGED <<open, active, dialFree, request, gone, dials>>

\* A read times out or fails, or the request is not one the proxy serves.
HandshakeFails(c) ==
  /\ pc[c] = "handshake"
  /\ hsFree' = hsFree + 1 /\ Goto(c, "end")
  /\ UNCHANGED <<open, active, dialFree, request, gone, dials>>

\* The permit is given back before the dial.  A CONNECT may be followed by
\* data already read; a plain request is itself data for the remote.
HandshakeDone(c) ==
  /\ pc[c] = "handshake" /\ c \notin gone
  /\ \E k \in Kinds, e \in BOOLEAN :
       /\ (k = "socks" => ~e) /\ (k = "plain" => e)
       /\ kind' = [kind EXCEPT ![c] = k] /\ early' = [early EXCEPT ![c] = e]
  /\ hsFree' = hsFree + 1 /\ Goto(c, "check")
  /\ UNCHANGED <<open, active, dialFree, direct, gone, dials>>
-----------------------------------------------------------------------------
(* dial_tcp_only *)

ReleaseDial(c) ==
  dialFree' = IF pc[c] = "dial" /\ ~direct[c] THEN dialFree + 1 ELSE dialFree

\* A client that is gone before the resolution is let go.
CheckClient(c) ==
  /\ pc[c] = "check"
  /\ Goto(c, IF c \in gone THEN "end" ELSE "resolve")
  /\ UNCHANGED <<open, active, permits, request, gone, dials>>

\* resolve_for_connect routes, and resolves what is not direct.
Resolved(c) ==
  /\ pc[c] = "resolve"
  /\ \E d \in BOOLEAN :
       /\ direct' = [direct EXCEPT ![c] = d]
       /\ Goto(c, IF d THEN "dial" ELSE "permit")
       /\ tracked' = IF d THEN tracked \cup {c} ELSE tracked
  /\ UNCHANGED <<open, active, permits, kind, early, gone, lost>>

\* RESOLVE_TIMEOUT, or an error before it.
ResolveFails(c) ==
  /\ pc[c] = "resolve" /\ Goto(c, "end")
  /\ UNCHANGED <<open, active, permits, request, gone, dials>>

\* A permit of DIAL_LIMITER, or PROXY_DIAL_ACQUIRE_TIMEOUT, which may win
\* against a permit that came free at the same time.
DialPermit(c) ==
  /\ pc[c] = "permit"
  /\ \/ dialFree > 0 /\ dialFree' = dialFree - 1
        /\ Goto(c, "dial") /\ tracked' = tracked \cup {c}
     \/ Goto(c, "end") /\ UNCHANGED <<dialFree, tracked>>
  /\ UNCHANGED <<open, active, hsFree, request, gone, lost>>

\* The 50 ms tick finds the client gone, and the dial is dropped.
ClientWatch(c) ==
  /\ pc[c] \in {"resolve", "permit", "dial"} /\ c \in gone
  /\ ReleaseDial(c) /\ Goto(c, "end")
  /\ lost' = IF pc[c] = "dial" THEN lost \cup {c} ELSE lost
  /\ UNCHANGED <<open, active, hsFree, request, gone, tracked>>

DialAnswers(c) ==
  /\ pc[c] = "dial"
  /\ ReleaseDial(c) /\ Goto(c, "reply")
  /\ UNCHANGED <<open, active, hsFree, request, gone, dials>>

\* Mutant of DialFails: the entry of a failed dial stays.
DialFailsTracked(c) ==
  /\ pc[c] = "dial"
  /\ ReleaseDial(c) /\ Goto(c, "end")
  /\ UNCHANGED <<open, active, hsFree, request, gone, dials>>

\* The outbound reports an error; Dialer::dial_tcp forgets the entry.
DialFails(c) ==
  /\ pc[c] = "dial"
  /\ ReleaseDial(c) /\ Goto(c, "end")
  /\ tracked' = tracked \ {c}
  /\ UNCHANGED <<open, active, hsFree, request, gone, lost>>

\* OUTBOUND_DIAL_TIMEOUT drops dial_tcp, or its early return for a tag
\* without an outbound skips the untracking.
DialTimesOut(c) ==
  /\ pc[c] = "dial"
  /\ ReleaseDial(c) /\ Goto(c, "end")
  /\ lost' = lost \cup {c}
  /\ UNCHANGED <<open, active, hsFree, request, gone, tracked>>

\* Mutant of HardBudget: the dial keeps its permit.
HardBudgetKeepsPermit(c) ==
  /\ pc[c] \in Dialling /\ kind[c] = "connect"
  /\ Goto(c, "end")
  /\ lost' = IF pc[c] = "dial" THEN lost \cup {c} ELSE lost
  /\ UNCHANGED <<open, active, permits, request, gone, tracked>>

\* CONNECT_HARD_BUDGET drops dial_tcp_only wherever it is.
HardBudget(c) ==
  /\ pc[c] \in Dialling /\ kind[c] = "connect"
  /\ ReleaseDial(c) /\ Goto(c, "end")
  /\ lost' = IF pc[c] = "dial" THEN lost \cup {c} ELSE lost
  /\ UNCHANGED <<open, active, hsFree, request, gone, tracked>>
-----------------------------------------------------------------------------
(* Relay *)

\* Dropping the stream untracks the connection.
HangUp(c) ==
  /\ tracked' = tracked \ {c} /\ Goto(c, "end")
  /\ UNCHANGED <<open, active, permits, request, gone, lost>>

\* The client hears of the dial only now (a plain request hears nothing).
Reply(c) ==
  /\ pc[c] = "reply"
  /\ Goto(c, IF early[c] THEN "early" ELSE "relay")
  /\ UNCHANGED <<open, active, permits, request, gone, dials>>

ReplyFails(c) == pc[c] = "reply" /\ kind[c] # "plain" /\ c \in gone /\ HangUp(c)

\* The remote takes the data read so far,
EarlyForwarded(c) ==
  /\ pc[c] = "early" /\ Goto(c, "relay")
  /\ UNCHANGED <<open, active, permits, request, gone, dials>>

\* or fails.  No timer runs meanwhile.
EarlyFails(c) == pc[c] = "early" /\ HangUp(c)

\* One of the pumps ends.
RelayEnds(c) == pc[c] = "relay" /\ HangUp(c)


\* RELAY_IDLE_TIMEOUT, RELAY_WRITE_IDLE_TIMEOUT or at last RELAY_TOTAL_TIMEOUT.
RelayTimesOut(c) == pc[c] = "relay" /\ HangUp(c)

\* The task ends: socket aborted, locals and ActiveConnGuard dropped.
Finish(c) ==
  /\ pc[c] = "end"
  /\ active' = active - 1 /\ Goto(c, "closed")
  /\ kind' = [kind EXCEPT ![c] = "socks"]
  /\ direct' = [direct EXCEPT ![c] = FALSE] /\ early' = [early EXCEPT ![c] = FALSE]
  /\ gone' = gone \ {c}
  /\ UNCHANGED <<open, permits, dials>>
-----------------------------------------------------------------------------
Peers(c) ==
  \/ Accept(c) \/ ClientHangsUp(c) \/ HandshakeDone(c) \/ Resolved(c) \/ DialAnswers(c)
  \/ DialFails(c) \/ EarlyForwarded(c) \/ EarlyFails(c) \/ RelayEnds(c)

\* The steps that the code takes by itself.
Timers(c) ==
  \/ HandshakePermit(c) \/ HandshakeFails(c) \/ CheckClient(c) \/ ResolveFails(c)
  \/ DialPermit(c) \/ ClientWatch(c) \/ DialTimesOut(c) \/ HardBudget(c)
  \/ Reply(c) \/ ReplyFails(c) \/ RelayTimesOut(c) \/ Finish(c)

Next == Close \/ \E c \in Clients : Peers(c) \/ Timers(c)

\* Timers fire and ready tasks run; nothing is assumed of the peers.
Fairness == \A c \in Clients : WF_vars(Timers(c))

Spec == Init /\ [][Next]_vars /\ Fairness
-----------------------------------------------------------------------------
(* Properties *)

\* Every way out of a task gives back what it took: the active count and the
\* free permits of both semaphores agree with the tasks, also when the hard
\* budget or the client's end drops a dial half way.
PermitsBalanced ==
  /\ active = Cardinality({c \in Clients : pc[c] \in Tasks})
  /\ hsFree + Cardinality({c \in Clients : pc[c] = "handshake"}) = HandshakePermits
  /\ dialFree + Cardinality({c \in Clients : pc[c] = "dial" /\ ~direct[c]}) = DialPermits

\* A connection in the ConnectionManager belongs to a running dial or relay,
\* unless its dial was dropped before it answered or had no outbound: only
\* those entries outlive their task (runtime.rs, dial_tcp).
UntrackedUnlessLost ==
  tracked \subseteq lost \cup {c \in Clients : pc[c] \in {"dial"} \cup Connected}

\* Whatever the peers do, the timers bring every task to its end, except one
\* that forwards early data.
Queued(c) == pc[c] = "queue"
ClosedOrEarly(c) == pc[c] \in {"closed", "early"}
TasksEndUnlessEarly == \A c \in Clients : Queued(c) ~> ClosedOrEarly(c)

-----------------------------------------------------------------------------
(* Inductive invariant *)

\* The tasks, those in their handshake, and those whose dial has a permit.
Active == {c \in Clients : pc[c] \in Tasks}
Shaking == {c \in Clients : pc[c] = "handshake"}
Holding == {c \in Clients : pc[c] = "dial" /\ ~direct[c]}

\* Client c goes on to l, takes what l holds and gives back what it held.
Moves(c, l) ==
  /\ pc' = [pc EXCEPT ![c] = l]
  /\ direct' \in [Clients -> BOOLEAN] /\ \A d \in Clients : d # c => direct'[d] = direct[d]
  /\ l = "permit" => ~direct'[c]
  /\ active' = active + (IF pc[c] \in Tasks THEN 0 ELSE 1) - (IF l \in Tasks THEN 0 ELSE 1)
  /\ hsFree' = hsFree + (IF pc[c] = "handshake" THEN 1 ELSE 0) - (IF l = "handshake" THEN 1 ELSE 0)
  /\ dialFree' = dialFree + (IF pc[c] = "dial" /\ ~direct[c] THEN 1 ELSE 0)
                          - (IF l = "dial" /\ ~direct'[c] THEN 1 ELSE 0)
  /\ lost \subseteq lost' /\ tracked' \subseteq tracked \cup {c}
  /\ c \in tracked' => c \in lost' \/ l \in {"dial"} \cup Connected

\* Only a dial that is not direct waits for a permit, the counters are numbers,
\* and what is held and tracked is as the properties say.
IInv ==
  /\ pc \in [Clients -> {"out", "refused", "closed"} \cup Tasks]
  /\ direct \in [Clients -> BOOLEAN]
  /\ \A c \in Clients : pc[c] = "permit" => ~direct[c]
  /\ active = Cardinality(Active)
  /\ hsFree = HandshakePermits - Cardinality(Shaking)
  /\ dialFree = DialPermits - Cardinality(Holding)
  /\ UntrackedUnlessLost
=============================================================================
