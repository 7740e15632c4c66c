----------------------------- MODULE Hy2Client -----------------------------
(***************************************************************************)
(* The session cache of the Hysteria2 outbound (hysteria2/client.rs): dials *)
(* share one QUIC session, connect it single-flight, and a port-hopping     *)
(* task changes the server port and resets the session.                     *)
(*                                                                         *)
(* A connection is named by the generation its attempt drew.  The probe     *)
(* loop only logs, so it has no action here.                                *)
(***************************************************************************)
EXTENDS Integers, TLAPS

CONSTANTS
  TcpDials, UdpDials,  \* concurrent dial_tcp and dial_udp calls
  Ports,               \* the server ports hopping chooses from
  MaxHops              \* bound on the number of hops

Dials == TcpDials \cup UdpDials

ASSUME KindsAssumption == TcpDials \cap UdpDials = {}
ASSUME PortsAssumption == Ports # {}
ASSUME HopsAssumption == MaxHops \in Nat

VARIABLES
  session,      \* connection of the cached session, 0 when None
  sessionGen,   \* its generation field
  sessionPort,  \* its port field
  aged,         \* it is older than max_session_age
  generation,   \* shared.generation
  port,         \* shared.current_port
  inflight,     \* shared.connect_inflight
  live,         \* open connections
  closing,      \* closed connections whose close watcher has not run
  pc, tries,    \* per dial
  ask,          \* per dial: the port get_connection loaded
  own, ownGen,  \* per dial: connection in hand, generation read for its session
  late,         \* history: dials that began to wait when no connect was in flight
  hopper, hops  \* the hopping task, and the hops it made

slot == <<session, sessionGen, sessionPort, aged>>
dial == <<pc, tries, ask, own, ownGen, late>>
vars == <<slot, generation, port, inflight, live, closing, dial, hopper, hops>>

GetPc == {"load", "lookup", "cas", "subscribe", "wait"}
EstPc == {"est", "estreset", "estbump", "connect", "install", "leave"}
Final == {"ok", "err", "cancelled"}
DialPc == {"retryreset", "open", "reply"} \cup GetPc \cup EstPc \cup Final

TypeOK ==
  /\ generation \in Nat
  /\ session \in 0..generation /\ sessionGen \in 0..generation
  /\ sessionPort \in Ports /\ port \in Ports /\ aged \in BOOLEAN
  /\ inflight \in BOOLEAN
  /\ live \in SUBSET (1..generation) /\ closing \in SUBSET (1..generation)
  /\ pc \in [Dials -> DialPc] /\ tries \in [Dials -> 0..1]
  /\ ask \in [Dials -> Ports]
  /\ own \in [Dials -> 0..generation] /\ ownGen \in [Dials -> 0..generation]
  /\ late \in SUBSET Dials
  /\ hopper \in {"sleep", "reset"} /\ hops \in 0..MaxHops

Init ==
  /\ session = 0 /\ sessionGen = 0 /\ aged = FALSE
  /\ generation = 0 /\ inflight = FALSE
  /\ port \in Ports /\ sessionPort = port
  /\ live = {} /\ closing = {}
  /\ pc = [d \in Dials |-> "load"] /\ tries = [d \in Dials |-> 0]
  /\ ask = [d \in Dials |-> port]
  /\ own = [d \in Dials |-> 0] /\ ownGen = [d \in Dials |-> 0]
  /\ late = {} /\ hopper = "sleep" /\ hops = 0
-----------------------------------------------------------------------------
\* session_is_usable, for the port the dial loaded.
UsableOn(p) == session \in live /\ sessionPort = p /\ ~aged

\* Mutant of Reset: bumps the generation even when nothing is cached.
ResetAlwaysBumps ==
  /\ session' = 0 /\ aged' = FALSE
  /\ generation' = generation + 1
  /\ live' = live \ {session}
  /\ closing' = closing \cup (live \cap {session})
  /\ UNCHANGED <<sessionGen, sessionPort>>

\* reset_session: take the session, bump the generation, close the connection.
Reset ==
  \/ session = 0 /\ UNCHANGED <<slot, generation, live, closing>>
  \/ /\ session # 0
     /\ session' = 0 /\ aged' = FALSE
     /\ generation' = generation + 1
     /\ live' = live \ {session}
     /\ closing' = closing \cup (live \cap {session})
     /\ UNCHANGED <<sessionGen, sessionPort>>

\* Dial d moves on with connection c in hand (0: none).
Goto(d, next, c) ==
  /\ pc' = [pc EXCEPT ![d] = next]
  /\ own' = [own EXCEPT ![d] = c]


\* ConnectGuard::drop wakes the dials already waiting; no permit is stored.
DropGuard(d, next, c) ==
  /\ inflight' = FALSE
  /\ pc' = [e \in Dials |-> IF e = d THEN next
                            ELSE IF pc[e] = "wait" THEN "load" ELSE pc[e]]
  /\ own' = [own EXCEPT ![d] = c]

\* dial_tcp retries once after any error, resetting first only for a session
\* error; dial_udp retries once after resetting.
AfterError(d, class) ==
  IF tries[d] = 1 THEN "err"
  ELSE IF d \in UdpDials \/ class = "session" THEN "retryreset" ELSE "load"
-----------------------------------------------------------------------------
(* get_connection and establish_session *)

LoadPort(d) ==
  /\ pc[d] = "load"
  /\ ask' = [ask EXCEPT ![d] = port]
  /\ Goto(d, "lookup", 0)
  /\ UNCHANGED <<slot, generation, port, inflight, live, closing, tries, ownGen, late, hopper, hops>>

\* What dial d does with the connection it got: dial_udp is done.
Got(d) == IF d \in TcpDials THEN "open" ELSE "ok"

GetCached(d) ==
  /\ pc[d] = "lookup"
  /\ IF UsableOn(ask[d]) THEN Goto(d, Got(d), session) ELSE Goto(d, "cas", 0)
  /\ UNCHANGED <<slot, generation, port, inflight, live, closing, tries, ask, ownGen, late, hopper, hops>>

\* Mutant of GetCas: stores the flag without testing it.
GetCasBlind(d) ==
  /\ pc[d] = "cas"
  /\ Goto(d, "est", 0)
  /\ inflight' = TRUE
  /\ UNCHANGED <<slot, generation, port, live, closing, tries, ask, ownGen, late, hopper, hops>>

GetCas(d) ==
  /\ pc[d] = "cas"
  /\ Goto(d, IF inflight THEN "subscribe" ELSE "est", 0)
  /\ inflight' = TRUE
  /\ UNCHANGED <<slot, generation, port, live, closing, tries, ask, ownGen, late, hopper, hops>>

\* notified() is created after the failed exchange and awaited with no timeout.
GetSubscribe(d) ==
  /\ pc[d] = "subscribe"
  /\ Goto(d, "wait", 0)
  /\ late' = IF inflight THEN late \ {d} ELSE late \cup {d}
  /\ UNCHANGED <<slot, generation, port, inflight, live, closing, tries, ask, ownGen, hopper, hops>>

EstCached(d) ==
  /\ pc[d] = "est"
  /\ IF UsableOn(ask[d]) THEN DropGuard(d, Got(d), session)
     ELSE Goto(d, "estreset", 0) /\ UNCHANGED inflight
  /\ UNCHANGED <<slot, generation, port, live, closing, tries, ask, ownGen, late, hopper, hops>>

\* Mutant of EstReset: reconnects without closing the session it replaces.
EstKeepOld(d) ==
  /\ pc[d] = "estreset"
  /\ Goto(d, "estbump", 0)
  /\ UNCHANGED <<slot, generation, port, inflight, live, closing, tries, ask, ownGen, late, hopper, hops>>

EstReset(d) ==
  /\ pc[d] = "estreset"
  /\ Reset
  /\ Goto(d, "estbump", 0)
  /\ UNCHANGED <<port, inflight, tries, ask, ownGen, late, hopper, hops>>

\* Mutant of EstBump: draws a generation without storing the counter.
EstBumpUnstored(d) ==
  /\ pc[d] = "estbump"
  /\ Goto(d, "connect", generation + 1)
  /\ UNCHANGED <<slot, generation, port, inflight, live, closing, tries, ask, ownGen, late, hopper, hops>>

EstBump(d) ==
  /\ pc[d] = "estbump"
  /\ generation' = generation + 1
  /\ Goto(d, "connect", generation + 1)
  /\ UNCHANGED <<slot, port, inflight, live, closing, tries, ask, ownGen, late, hopper, hops>>

\* connect_session authenticates, then labels the session with the generation
\* it loads now; the close watcher gets the one drawn in establish_session.
ConnectOk(d) ==
  /\ pc[d] = "connect"
  /\ live' = live \cup {own[d]}
  /\ ownGen' = [ownGen EXCEPT ![d] = generation]
  /\ Goto(d, "install", own[d])
  /\ UNCHANGED <<slot, generation, port, inflight, closing, tries, ask, late, hopper, hops>>

ConnectFail(d) ==
  /\ pc[d] = "connect"
  /\ \E class \in {"session", "other"} : DropGuard(d, AfterError(d, class), 0)
  /\ tries' = [tries EXCEPT ![d] = 1]
  /\ UNCHANGED <<slot, generation, port, live, closing, ask, ownGen, late, hopper, hops>>

Install(d) ==
  /\ pc[d] = "install"
  /\ session' = own[d] /\ sessionGen' = ownGen[d] /\ sessionPort' = ask[d] /\ aged' = FALSE
  /\ Goto(d, "leave", own[d])
  /\ UNCHANGED <<generation, port, inflight, live, closing, tries, ask, ownGen, late, hopper, hops>>

\* establish_session returns its own connection, whatever the cache holds now.
EstLeave(d) ==
  /\ pc[d] = "leave"
  /\ DropGuard(d, Got(d), own[d])
  /\ UNCHANGED <<slot, generation, port, live, closing, tries, ask, ownGen, late, hopper, hops>>
-----------------------------------------------------------------------------
(* dial_tcp, dial_udp, close *)

OpenStream(d) ==
  /\ pc[d] = "open" /\ own[d] \in live
  /\ Goto(d, "reply", own[d])
  /\ UNCHANGED <<slot, generation, port, inflight, live, closing, tries, ask, ownGen, late, hopper, hops>>

ReadReply(d) ==
  /\ pc[d] = "reply" /\ own[d] \in live
  /\ Goto(d, "ok", own[d])
  /\ UNCHANGED <<slot, generation, port, inflight, live, closing, tries, ask, ownGen, late, hopper, hops>>

StreamFail(d) ==
  /\ \E class \in {"session", "other"} :
       /\ pc[d] = "reply" \/ (pc[d] = "open" /\ class = "other")
       /\ Goto(d, AfterError(d, class), 0)
  /\ tries' = [tries EXCEPT ![d] = 1]
  /\ UNCHANGED <<slot, generation, port, inflight, live, closing, ask, ownGen, late, hopper, hops>>

RetryReset(d) ==
  /\ pc[d] = "retryreset"
  /\ Reset
  /\ Goto(d, "load", 0)
  /\ UNCHANGED <<port, inflight, tries, ask, ownGen, late, hopper, hops>>

\* The caller's timeout drops the dial future at an await.
Cancel(d) ==
  /\ pc[d] \in {"retryreset", "lookup", "wait", "est", "estreset", "connect", "install",
                "open", "reply"}
  /\ IF pc[d] \in EstPc THEN DropGuard(d, "cancelled", 0)
     ELSE Goto(d, "cancelled", 0) /\ UNCHANGED inflight
  /\ UNCHANGED <<slot, generation, port, live, closing, tries, ask, ownGen, late, hopper, hops>>

Dial(d) ==
  \/ LoadPort(d) \/ GetCached(d) \/ GetCas(d) \/ GetSubscribe(d)
  \/ EstCached(d) \/ EstReset(d) \/ EstBump(d) \/ ConnectOk(d) \/ ConnectFail(d) \/ Install(d)
  \/ EstLeave(d) \/ OpenStream(d) \/ ReadReply(d) \/ StreamFail(d) \/ RetryReset(d)
-----------------------------------------------------------------------------
(* Port hopping, close watchers and the environment. *)

\* The hopping task, started by the first get_connection: store the new port ...
HopPort ==
  /\ hopper = "sleep" /\ hops < MaxHops
  /\ \E d \in Dials : pc[d] # "load"
  /\ port' \in Ports
  /\ hops' = hops + 1
  /\ hopper' = "reset"
  /\ UNCHANGED <<slot, generation, inflight, live, closing, dial>>

\* ... then reset the session.
HopReset ==
  /\ hopper = "reset"
  /\ Reset
  /\ hopper' = "sleep"
  /\ UNCHANGED <<port, inflight, dial, hops>>

CloseWatcher(c) ==
  /\ c \in closing
  /\ closing' = closing \ {c}
  /\ IF session = c /\ sessionGen = c
     THEN session' = 0 /\ aged' = FALSE /\ UNCHANGED <<sessionGen, sessionPort>>
     ELSE UNCHANGED slot
  /\ UNCHANGED <<generation, port, inflight, live, dial, hopper, hops>>

\* Outbound::close.
Close ==
  /\ session # 0
  /\ Reset
  /\ UNCHANGED <<port, inflight, dial, hopper, hops>>

ConnectionLost(c) ==
  /\ c \in live
  /\ live' = live \ {c}
  /\ closing' = closing \cup {c}
  /\ UNCHANGED <<slot, generation, port, inflight, dial, hopper, hops>>

AgeOut ==
  /\ session \in live /\ ~aged
  /\ aged' = TRUE
  /\ UNCHANGED <<session, sessionGen, sessionPort, generation, port, inflight, live, closing, dial,
                 hopper, hops>>

Environment ==
  \/ HopPort \/ HopReset \/ Close \/ AgeOut
  \/ \E d \in Dials : Cancel(d)
  \/ \E c \in closing : CloseWatcher(c)
  \/ \E c \in live : ConnectionLost(c)

Next == Environment \/ \E d \in Dials : Dial(d)

\* Connects, opens and reads are bounded by timeouts; waiting for the guard of
\* another dial is not.
Fairness == \A d \in Dials : WF_vars(Dial(d))

Spec == Init /\ [][Next]_vars /\ Fairness
-----------------------------------------------------------------------------
(* Properties *)

\* The close watcher can recognise the session it belongs to: the label that
\* connect_session loads is the one establish_session drew, although resets by
\* retries, hops and close() run between the two.
SessionLabelled == session # 0 => sessionGen = session

\* A session leaves the cache only once its connection is closed: it is never
\* overwritten by a newer one while still open (establish_session resets first
\* and no second connect can run).
SessionLeavesClosed ==
  [][session # 0 /\ session' # session => session \notin live']_vars

\* The slot behaves as a single-flight cache: only the dial that holds
\* connect_inflight stores a session, one at a time.
Slot == INSTANCE SessionSlot WITH slot <- session, busy <- inflight
SlotSpec == Slot!Spec

\* A dial ends, or it waits for a wake-up it missed: it lost the exchange, and
\* the guard was dropped before it had created notified().
Stranded(d) == pc[d] = "wait" /\ d \in late
-----------------------------------------------------------------------------
(* Proofs, for any dials, ports and number of hops *)

\* TypeOK, in parts that the steps disturb separately.
CacheOK ==
  /\ generation \in Nat /\ session \in 0..generation /\ sessionGen \in 0..generation
  /\ live \in SUBSET (1..generation) /\ closing \in SUBSET (1..generation)
TaskOK ==
  /\ pc \in [Dials -> DialPc]
  /\ own \in [Dials -> 0..generation] /\ ownGen \in [Dials -> 0..generation]
RestOK ==
  /\ sessionPort \in Ports /\ port \in Ports /\ aged \in BOOLEAN /\ inflight \in BOOLEAN
  /\ tries \in [Dials -> 0..1] /\ ask \in [Dials -> Ports] /\ late \in SUBSET Dials
  /\ hopper \in {"sleep", "reset"} /\ hops \in 0..MaxHops

\* The flag is set while a dial is inside establish_session, and at most one is.
Exclusive ==
  /\ \A d \in Dials : pc[d] \in EstPc => inflight
  /\ \A d, e \in Dials : pc[d] \in EstPc /\ pc[e] \in EstPc => d = e

\* Past its reset the connecting dial keeps the cache empty, so that no reset
\* bumps the generation it drew before its session is labelled and stored.
Connecting ==
  \A d \in Dials :
    /\ pc[d] \in {"estbump", "connect", "install"} => session = 0
    /\ pc[d] \in {"connect", "install"} => own[d] = generation /\ own[d] # 0
    /\ pc[d] = "connect" => own[d] \notin live \cup closing
    /\ pc[d] = "install" => ownGen[d] = own[d]

\* A connection whose watcher is about to run is closed.
ClosingIsClosed == closing \cap live = {}

IInv == CacheOK /\ TaskOK /\ RestOK /\ Exclusive /\ Connecting /\ SessionLabelled /\ ClosingIsClosed

shared == <<session, sessionGen, generation, live, closing>>

\* A dial moves on without connecting: the cache and the flag are as they were.
LEMMA GotoKeeps ==
  ASSUME IInv, NEW d \in Dials, NEW next \in DialPc, NEW c \in 0..generation,
         Goto(d, next, c), UNCHANGED <<shared, inflight, ownGen>>, RestOK',
         next \in EstPc => pc[d] \in EstPc,
         next \notin {"estbump", "connect", "install"}
  PROVE  IInv'
<1>1. \A e \in Dials : pc'[e] = (IF e = d THEN next ELSE pc[e])
                       /\ own'[e] = (IF e = d THEN c ELSE own[e])
  BY DEF IInv, TaskOK, Goto
<1>2. CacheOK' /\ SessionLabelled' /\ ClosingIsClosed'
  BY DEF IInv, CacheOK, SessionLabelled, ClosingIsClosed, shared
<1>3. TaskOK'
  BY DEF IInv, TaskOK, Goto, shared
<1>4. Exclusive'
  BY <1>1 DEF IInv, Exclusive
<1>5. Connecting'
  BY <1>1 DEF IInv, Connecting, shared
<1> QED BY <1>2, <1>3, <1>4, <1>5 DEF IInv

\* The guard is dropped: the flag is clear, and no dial is inside any more.
LEMMA DropGuardKeeps ==
  ASSUME IInv, NEW d \in Dials, NEW next \in DialPc \ EstPc, NEW c \in 0..generation,
         pc[d] \in EstPc, DropGuard(d, next, c), UNCHANGED <<shared, ownGen>>, RestOK'
  PROVE  IInv' /\ inflight /\ inflight' = FALSE
<1>1. \A e \in Dials : pc'[e] \notin EstPc
  BY DEF IInv, TaskOK, DropGuard, Exclusive, EstPc
<1>2. CacheOK' /\ SessionLabelled' /\ ClosingIsClosed'
  BY DEF IInv, CacheOK, SessionLabelled, ClosingIsClosed, shared
<1>3. TaskOK'
  <2>1. pc' \in [Dials -> DialPc]
    BY DEF IInv, TaskOK, DropGuard, DialPc, GetPc
  <2>2. own' \in [Dials -> 0..generation'] /\ ownGen' \in [Dials -> 0..generation']
    BY DEF IInv, TaskOK, DropGuard, shared
  <2> QED BY <2>1, <2>2 DEF TaskOK
<1>4. Exclusive' /\ Connecting'
  BY <1>1 DEF Exclusive, Connecting, EstPc
<1>5. inflight /\ inflight' = FALSE
  BY DEF IInv, Exclusive, DropGuard
<1> QED BY <1>2, <1>3, <1>4, <1>5 DEF IInv

\* A reset closes what it takes out of the cache, and does nothing to a dial
\* that connects, whose cache is empty.
LEMMA ResetKeeps ==
  ASSUME IInv, Reset, RestOK', UNCHANGED <<inflight, ownGen>>,
         pc' \in [Dials -> DialPc], own' \in [Dials -> 0..generation],
         \A e \in Dials : pc'[e] \in EstPc =>
           \/ pc'[e] = pc[e] /\ own'[e] = own[e]
           \/ pc'[e] = "estbump" /\ pc[e] = "estreset"
  PROVE  IInv' /\ session' = 0
<1>0. session' = 0
  BY DEF Reset, slot
<1>1. generation \in Nat /\ generation' \in Nat /\ generation' >= generation
  BY DEF IInv, CacheOK, Reset
<1>2. 0..generation \subseteq 0..generation' /\ 1..generation \subseteq 1..generation'
  BY <1>1
<1>3. live' \subseteq live /\ closing' \subseteq closing \cup live /\ closing' \cap live' = {}
  BY DEF IInv, ClosingIsClosed, Reset
<1>4. CacheOK'
  <2>1. sessionGen' = sessionGen
    BY DEF Reset, slot
  <2> QED BY <2>1, <1>0, <1>1, <1>2, <1>3 DEF IInv, CacheOK
<1>5. TaskOK'
  BY <1>2 DEF IInv, TaskOK
<1>6. Exclusive'
  BY DEF IInv, Exclusive, EstPc
<1>7. ASSUME NEW e \in Dials, pc'[e] \in {"connect", "install"}
      PROVE  /\ pc'[e] = pc[e] /\ own'[e] = own[e] /\ ownGen'[e] = ownGen[e]
             /\ generation' = generation /\ live' = live /\ closing' = closing
  <2>1. pc'[e] = pc[e] /\ own'[e] = own[e]
    BY <1>7 DEF EstPc
  <2>2. session = 0
    BY <2>1, <1>7 DEF IInv, Connecting
  <2> QED BY <2>1, <2>2 DEF Reset
<1>8. Connecting'
  BY <1>0, <1>7 DEF IInv, Connecting
<1>9. SessionLabelled' /\ ClosingIsClosed'
  BY <1>0, <1>3 DEF SessionLabelled, ClosingIsClosed
<1> QED BY <1>0, <1>4, <1>5, <1>6, <1>8, <1>9 DEF IInv

\* The labels of an error's next step.
LEMMA AfterErrorType ==
  ASSUME NEW d \in Dials, NEW class \in {"session", "other"}
  PROVE  AfterError(d, class) \in {"err", "retryreset", "load"}
BY DEF AfterError

\* Every step of a dial keeps the invariant.
LEMMA DialKeeps ==
  ASSUME IInv, NEW d \in Dials, Dial(d)
  PROVE  IInv'
<1> USE DEF DialPc, GetPc, EstPc, Final
<1>0. 0 \in 0..generation /\ session \in 0..generation /\ own[d] \in 0..generation /\ generation \in Nat
  BY DEF IInv, CacheOK, TaskOK
<1>a. RestOK
  BY DEF IInv
<1>1. CASE LoadPort(d)
  <2>1. RestOK'
    BY <1>1, <1>a DEF LoadPort, RestOK, slot
  <2> QED BY <1>1, <2>1, <1>0, GotoKeeps DEF LoadPort, slot, shared
<1>2. CASE GetCached(d)
  <2>1. RestOK' /\ UNCHANGED <<shared, inflight, ownGen>>
    BY <1>2, <1>a DEF GetCached, RestOK, slot, shared
  <2>2. PICK next \in {"open", "ok", "cas"}, c \in 0..generation : Goto(d, next, c)
    BY <1>2, <1>0 DEF GetCached, Got
  <2> QED BY <2>1, <2>2, GotoKeeps
<1>3. CASE GetCas(d)
  <2>a. RestOK'
    BY <1>3, <1>a DEF GetCas, RestOK, slot
  <2>1. CASE inflight
    <3>1. Goto(d, "subscribe", 0) /\ UNCHANGED inflight
      BY <2>1, <1>3, <1>a DEF GetCas, RestOK
    <3> QED BY <3>1, <2>a, <1>3, <1>0, GotoKeeps DEF GetCas, slot, shared
  <2>2. CASE ~inflight
    <3>1. Goto(d, "est", 0) /\ inflight' /\ UNCHANGED shared /\ UNCHANGED ownGen
      BY <2>2, <1>3 DEF GetCas, slot, shared
    <3>2. \A e \in Dials : pc'[e] = (IF e = d THEN "est" ELSE pc[e])
                           /\ own'[e] = (IF e = d THEN 0 ELSE own[e])
      BY <3>1 DEF IInv, TaskOK, Goto
    <3>3. CacheOK' /\ SessionLabelled' /\ ClosingIsClosed'
      BY <3>1 DEF IInv, CacheOK, SessionLabelled, ClosingIsClosed, shared
    <3>4. TaskOK'
      BY <3>1, <1>0 DEF IInv, TaskOK, Goto, shared
    <3>5. Exclusive'
      BY <3>1, <3>2, <2>2 DEF IInv, Exclusive
    <3>6. Connecting'
      BY <3>1, <3>2 DEF IInv, Connecting, shared
    <3> QED BY <2>a, <3>3, <3>4, <3>5, <3>6 DEF IInv
  <2> QED BY <2>1, <2>2
<1>4. CASE GetSubscribe(d)
  <2>1. RestOK'
    BY <1>4, <1>a DEF GetSubscribe, RestOK, slot
  <2> QED BY <1>4, <2>1, <1>0, GotoKeeps DEF GetSubscribe, slot, shared
<1>5. CASE EstCached(d)
  <2>1. UNCHANGED <<shared, ownGen>> /\ UNCHANGED <<sessionPort, aged, port, tries, ask, late, hopper, hops>>
    BY <1>5 DEF EstCached, slot, shared
  <2>2. CASE UsableOn(ask[d])
    <3>1. PICK next \in {"open", "ok"} : DropGuard(d, next, session)
      BY <2>2, <1>5 DEF EstCached, Got
    <3>2. RestOK'
      BY <2>1, <3>1, <1>a DEF RestOK, DropGuard
    <3> QED BY <1>5, <2>1, <3>1, <3>2, <1>0, DropGuardKeeps DEF EstCached
  <2>3. CASE ~UsableOn(ask[d])
    <3>1. Goto(d, "estreset", 0) /\ UNCHANGED inflight
      BY <2>3, <1>5 DEF EstCached
    <3>2. RestOK'
      BY <2>1, <3>1, <1>a DEF RestOK
    <3> QED BY <1>5, <2>1, <3>1, <3>2, <1>0, GotoKeeps DEF EstCached
  <2> QED BY <2>2, <2>3
<1>6. CASE EstReset(d)
  <2>1. aged' \in BOOLEAN /\ sessionPort' = sessionPort
    BY <1>6, <1>a DEF EstReset, Reset, RestOK, slot
  <2>2. RestOK' /\ UNCHANGED <<inflight, ownGen>>
    BY <1>6, <2>1, <1>a DEF EstReset, RestOK
  <2>3. pc' \in [Dials -> DialPc] /\ own' \in [Dials -> 0..generation]
    BY <1>6, <1>0 DEF EstReset, Goto, IInv, TaskOK
  <2>4. \A e \in Dials : pc'[e] \in EstPc =>
           \/ pc'[e] = pc[e] /\ own'[e] = own[e]
           \/ pc'[e] = "estbump" /\ pc[e] = "estreset"
    BY <1>6 DEF EstReset, Goto, IInv, TaskOK
  <2> QED BY <1>6, <2>2, <2>3, <2>4, ResetKeeps DEF EstReset
<1>7. CASE EstBump(d)
  <2>1. 0..generation \subseteq 0..(generation + 1) /\ 1..generation \subseteq 1..(generation + 1)
        /\ generation + 1 \in 0..(generation + 1) /\ generation + 1 \in Nat \ {0}
    BY <1>0
  <2>2. /\ generation' = generation + 1
        /\ UNCHANGED <<session, sessionGen, live, closing, inflight, ownGen>>
    BY <1>7 DEF EstBump, slot
  <2>3. \A e \in Dials : pc'[e] = (IF e = d THEN "connect" ELSE pc[e])
                         /\ own'[e] = (IF e = d THEN generation + 1 ELSE own[e])
    BY <1>7 DEF EstBump, IInv, TaskOK, Goto
  <2>4. CacheOK' /\ SessionLabelled' /\ ClosingIsClosed'
    BY <2>1, <2>2 DEF IInv, CacheOK, SessionLabelled, ClosingIsClosed
  <2>5. TaskOK'
    <3>1. pc' \in [Dials -> DialPc] /\ own' \in [Dials -> 0..(generation + 1)]
      BY <1>7, <2>1 DEF EstBump, Goto, IInv, TaskOK
    <3> QED BY <2>1, <2>2, <3>1 DEF IInv, TaskOK
  <2>6. RestOK'
    BY <1>7, <1>a DEF EstBump, RestOK, slot
  <2>7. Exclusive'
    BY <1>7, <2>2, <2>3 DEF EstBump, IInv, Exclusive
  <2>8. generation + 1 \notin live \cup closing
    BY <1>0 DEF IInv, CacheOK
  <2>9. \A e \in Dials : e # d => pc'[e] \notin {"estbump", "connect", "install"}
    BY <1>7, <2>3 DEF EstBump, IInv, Exclusive
  <2>10. session = 0
    BY <1>7 DEF EstBump, IInv, Connecting
  <2>11. Connecting'
    BY <2>1, <2>2, <2>3, <2>8, <2>9, <2>10 DEF Connecting
  <2> QED BY <2>4, <2>5, <2>6, <2>7, <2>11 DEF IInv
<1>8. CASE ConnectOk(d)
  <2>1. own[d] \in 1..generation /\ own[d] \notin closing /\ own[d] = generation /\ session = 0
    BY <1>8, <1>0 DEF ConnectOk, IInv, Connecting
  <2>2. /\ live' = live \cup {own[d]}
        /\ UNCHANGED <<session, sessionGen, generation, closing, inflight>>
    BY <1>8 DEF ConnectOk, slot
  <2>3. \A e \in Dials : /\ pc'[e] = (IF e = d THEN "install" ELSE pc[e])
                         /\ own'[e] = own[e]
                         /\ ownGen'[e] = (IF e = d THEN generation ELSE ownGen[e])
    BY <1>8 DEF ConnectOk, IInv, TaskOK, Goto
  <2>4. CacheOK' /\ SessionLabelled' /\ ClosingIsClosed'
    BY <2>1, <2>2 DEF IInv, CacheOK, SessionLabelled, ClosingIsClosed
  <2>5. TaskOK'
    BY <1>8, <2>2, <1>0 DEF ConnectOk, Goto, IInv, TaskOK, CacheOK
  <2>6. RestOK'
    BY <1>8, <1>a DEF ConnectOk, RestOK, slot
  <2>7. Exclusive'
    BY <1>8, <2>2, <2>3 DEF ConnectOk, IInv, Exclusive
  <2>8. \A e \in Dials : e # d => pc'[e] \notin {"estbump", "connect", "install"}
    BY <1>8, <2>3 DEF ConnectOk, IInv, Exclusive
  <2>9. Connecting'
    BY <2>1, <2>2, <2>3, <2>8, <1>0 DEF Connecting
  <2> QED BY <2>4, <2>5, <2>6, <2>7, <2>9 DEF IInv
<1>9. CASE ConnectFail(d)
  <2>1. UNCHANGED <<shared, ownGen>> /\ UNCHANGED <<sessionPort, aged, port, ask, late, hopper, hops>>
    BY <1>9 DEF ConnectFail, slot, shared
  <2>2. PICK next \in {"err", "retryreset", "load"} : DropGuard(d, next, 0)
    BY <1>9, AfterErrorType DEF ConnectFail
  <2>3. RestOK'
    <3>1. tries' \in [Dials -> 0..1]
      BY <1>9, <1>a DEF ConnectFail, RestOK
    <3> QED BY <2>1, <2>2, <3>1, <1>a DEF RestOK, DropGuard
  <2> QED BY <1>9, <2>1, <2>2, <2>3, <1>0, DropGuardKeeps DEF ConnectFail
<1>10. CASE Install(d)
  <2>1. own[d] = generation /\ ownGen[d] = own[d]
    BY <1>10 DEF Install, IInv, Connecting
  <2>2. /\ session' = own[d] /\ sessionGen' = own[d]
        /\ UNCHANGED <<generation, live, closing, inflight, ownGen>>
    BY <1>10, <2>1 DEF Install
  <2>3. \A e \in Dials : pc'[e] = (IF e = d THEN "leave" ELSE pc[e])
    BY <1>10 DEF Install, Goto, IInv, TaskOK
  <2>4. CacheOK' /\ SessionLabelled' /\ ClosingIsClosed'
    BY <2>2, <1>0 DEF IInv, CacheOK, SessionLabelled, ClosingIsClosed
  <2>5. TaskOK'
    BY <1>10, <2>2, <1>0 DEF Install, Goto, IInv, TaskOK
  <2>6. RestOK'
    BY <1>10, <1>a DEF Install, RestOK
  <2>7. Exclusive'
    BY <1>10, <2>2, <2>3 DEF Install, IInv, Exclusive
  <2>8. \A e \in Dials : pc'[e] \notin {"estbump", "connect", "install"}
    BY <1>10, <2>3 DEF Install, IInv, Exclusive
  <2> QED BY <2>4, <2>5, <2>6, <2>7, <2>8 DEF IInv, Connecting
<1>11. CASE EstLeave(d)
  <2>1. UNCHANGED <<shared, ownGen>> /\ UNCHANGED <<sessionPort, aged, port, tries, ask, late, hopper, hops>>
    BY <1>11 DEF EstLeave, slot, shared
  <2>2. PICK next \in {"open", "ok"} : DropGuard(d, next, own[d])
    BY <1>11 DEF EstLeave, Got
  <2>3. RestOK'
    BY <2>1, <2>2, <1>a DEF RestOK, DropGuard
  <2> QED BY <1>11, <2>1, <2>2, <2>3, <1>0, DropGuardKeeps DEF EstLeave
<1>12. CASE OpenStream(d)
  <2>1. RestOK'
    BY <1>12, <1>a DEF OpenStream, RestOK, slot
  <2> QED BY <1>12, <2>1, <1>0, GotoKeeps DEF OpenStream, slot, shared
<1>13. CASE ReadReply(d)
  <2>1. RestOK'
    BY <1>13, <1>a DEF ReadReply, RestOK, slot
  <2> QED BY <1>13, <2>1, <1>0, GotoKeeps DEF ReadReply, slot, shared
<1>14. CASE StreamFail(d)
  <2>1. RestOK' /\ UNCHANGED <<shared, inflight, ownGen>>
    BY <1>14, <1>a DEF StreamFail, RestOK, slot, shared
  <2>2. PICK next \in {"err", "retryreset", "load"} : Goto(d, next, 0)
    BY <1>14, AfterErrorType DEF StreamFail
  <2> QED BY <2>1, <2>2, <1>0, GotoKeeps
<1>15. CASE RetryReset(d)
  <2>1. aged' \in BOOLEAN /\ sessionPort' = sessionPort
    BY <1>15, <1>a DEF RetryReset, Reset, RestOK, slot
  <2>2. RestOK' /\ UNCHANGED <<inflight, ownGen>>
    BY <1>15, <2>1, <1>a DEF RetryReset, RestOK
  <2>3. pc' \in [Dials -> DialPc] /\ own' \in [Dials -> 0..generation]
    BY <1>15, <1>0 DEF RetryReset, Goto, IInv, TaskOK
  <2>4. \A e \in Dials : pc'[e] \in EstPc => pc'[e] = pc[e] /\ own'[e] = own[e]
    BY <1>15 DEF RetryReset, Goto, IInv, TaskOK
  <2> QED BY <1>15, <2>2, <2>3, <2>4, ResetKeeps DEF RetryReset
<1> QED BY <1>1, <1>2, <1>3, <1>4, <1>5, <1>6, <1>7, <1>8, <1>9, <1>10, <1>11, <1>12,
           <1>13, <1>14, <1>15 DEF Dial

\* And every step of the environment does.
LEMMA EnvironmentKeeps ==
  ASSUME IInv, Environment
  PROVE  IInv'
<1>a. RestOK /\ TaskOK
  BY DEF IInv
<1>1. CASE HopPort
  <2>1. RestOK'
    BY <1>1, <1>a, HopsAssumption DEF HopPort, RestOK, slot, dial
  <2> QED BY <1>1, <2>1 DEF HopPort, slot, dial, IInv, CacheOK, TaskOK, Exclusive, Connecting,
                            SessionLabelled, ClosingIsClosed
<1>2. ASSUME Reset, UNCHANGED <<port, inflight, dial, hops>>, hopper' \in {"sleep", "reset"}
      PROVE  IInv'
  <2>1. aged' \in BOOLEAN /\ sessionPort' = sessionPort
    BY <1>2, <1>a DEF Reset, RestOK, slot
  <2>2. RestOK' /\ UNCHANGED <<inflight, ownGen>>
    BY <1>2, <2>1, <1>a DEF RestOK, dial
  <2>3. pc' = pc /\ own' = own
    BY <1>2 DEF dial
  <2> QED BY <1>2, <2>2, <2>3, <1>a, ResetKeeps DEF TaskOK
<1>3. CASE HopReset
  BY <1>3, <1>2 DEF HopReset
<1>4. CASE Close
  BY <1>4, <1>2, <1>a DEF Close, RestOK
<1>5. CASE AgeOut
  <2>1. RestOK'
    BY <1>5, <1>a DEF AgeOut, RestOK, dial
  <2> QED BY <1>5, <2>1 DEF AgeOut, dial, IInv, CacheOK, TaskOK, Exclusive, Connecting,
                            SessionLabelled, ClosingIsClosed
<1>6. ASSUME NEW d \in Dials, Cancel(d) PROVE IInv'
  <2>1. UNCHANGED <<shared, ownGen>> /\ UNCHANGED <<sessionPort, aged, port, tries, ask, late, hopper, hops>>
    BY <1>6 DEF Cancel, slot, shared
  <2>2. "cancelled" \in DialPc \ EstPc /\ 0 \in 0..generation
    BY DEF DialPc, Final, EstPc, IInv, CacheOK
  <2>3. CASE pc[d] \in EstPc
    <3>1. DropGuard(d, "cancelled", 0)
      BY <1>6, <2>3 DEF Cancel
    <3>2. RestOK'
      BY <2>1, <3>1, <1>a DEF RestOK, DropGuard
    <3> QED BY <2>1, <2>2, <2>3, <3>1, <3>2, DropGuardKeeps
  <2>4. CASE pc[d] \notin EstPc
    <3>1. Goto(d, "cancelled", 0) /\ UNCHANGED inflight
      BY <1>6, <2>4 DEF Cancel
    <3>2. RestOK'
      BY <2>1, <3>1, <1>a DEF RestOK
    <3> QED BY <2>1, <2>2, <3>1, <3>2, GotoKeeps DEF EstPc
  <2> QED BY <2>3, <2>4
<1>7. ASSUME NEW c \in closing, CloseWatcher(c) PROVE IInv'
  <2>1. RestOK'
    <3>1. aged' \in BOOLEAN /\ sessionPort' = sessionPort
      BY <1>7, <1>a DEF CloseWatcher, RestOK, slot
    <3> QED BY <1>7, <3>1, <1>a DEF CloseWatcher, RestOK, dial
  <2>2. /\ session' \in {0, session} /\ closing' \subseteq closing
        /\ UNCHANGED <<sessionGen, generation, live, inflight, pc, own, ownGen>>
    BY <1>7 DEF CloseWatcher, slot, dial
  <2>3. CacheOK' /\ TaskOK'
    BY <2>2 DEF IInv, CacheOK, TaskOK
  <2>4. Exclusive' /\ ClosingIsClosed' /\ SessionLabelled'
    BY <2>2 DEF IInv, Exclusive, ClosingIsClosed, SessionLabelled
  <2>5. Connecting'
    BY <2>2 DEF IInv, Connecting
  <2> QED BY <2>1, <2>3, <2>4, <2>5 DEF IInv
<1>8. ASSUME NEW c \in live, ConnectionLost(c) PROVE IInv'
  <2>1. RestOK'
    BY <1>8, <1>a DEF ConnectionLost, RestOK, slot, dial
  <2>2. /\ live' = live \ {c} /\ closing' = closing \cup {c}
        /\ UNCHANGED <<session, sessionGen, generation, inflight, pc, own, ownGen>>
    BY <1>8 DEF ConnectionLost, slot, dial
  <2>3. CacheOK' /\ TaskOK'
    BY <2>2 DEF IInv, CacheOK, TaskOK
  <2>4. Exclusive' /\ ClosingIsClosed' /\ SessionLabelled'
    BY <2>2 DEF IInv, Exclusive, ClosingIsClosed, SessionLabelled
  <2>5. Connecting'
    BY <2>2 DEF IInv, Connecting
  <2> QED BY <2>1, <2>3, <2>4, <2>5 DEF IInv
<1> QED BY <1>1, <1>3, <1>4, <1>5, <1>6, <1>7, <1>8 DEF Environment

\* The invariant holds throughout.
LEMMA Invariance == Spec => []IInv
<1>1. Init => IInv
  <2> SUFFICES ASSUME Init PROVE IInv
    OBVIOUS
  <2>1. CacheOK /\ SessionLabelled /\ ClosingIsClosed
    BY DEF Init, CacheOK, SessionLabelled, ClosingIsClosed
  <2>2. TaskOK
    BY DEF Init, TaskOK, DialPc, GetPc
  <2>3. aged \in BOOLEAN /\ inflight \in BOOLEAN
    BY DEF Init
  <2>4. RestOK
    BY <2>3, HopsAssumption DEF Init, RestOK
  <2>5. Exclusive /\ Connecting
    BY DEF Init, Exclusive, Connecting, EstPc
  <2> QED BY <2>1, <2>2, <2>4, <2>5 DEF IInv
<1>2. IInv /\ [Next]_vars => IInv'
  <2> SUFFICES ASSUME IInv, [Next]_vars PROVE IInv'
    OBVIOUS
  <2>1. CASE Next
    BY <2>1, DialKeeps, EnvironmentKeeps DEF Next
  <2>2. CASE UNCHANGED vars
    BY <2>2 DEF vars, slot, dial, IInv, CacheOK, TaskOK, RestOK, Exclusive, Connecting,
                SessionLabelled, ClosingIsClosed
  <2> QED BY <2>1, <2>2
<1> QED BY <1>1, <1>2, PTL DEF Spec

\* The close watcher can recognise its session, for any dials, ports and hops.
THEOREM Labelled == Spec => []SessionLabelled
<1>1. IInv => SessionLabelled
  BY DEF IInv
<1> QED BY <1>1, Invariance, PTL

\* Every step keeps the types, for any dials, ports and hops.
THEOREM TypeCorrect == Spec => []TypeOK
<1>1. IInv => TypeOK
  BY DEF IInv, TypeOK, CacheOK, TaskOK, RestOK
<1> QED BY <1>1, Invariance, PTL

\* What a step does to slot and flag: it takes or drops the flag, or stores a
\* session into the empty slot under the flag, or evicts one that is then closed.
Keeps ==
  /\ session' = session
  /\ UNCHANGED inflight \/ (inflight /\ inflight' = FALSE) \/ (~inflight /\ inflight' = TRUE)
Stores == inflight /\ UNCHANGED inflight /\ session = 0 /\ session' \in Nat \ {0}
Evicts == UNCHANGED inflight /\ session' = 0 /\ session \notin live'
SlotStep == Keeps \/ Stores \/ Evicts

\* Every step keeps the slot, stores into it or evicts what is closed.
LEMMA StepIsSlotStep ==
  ASSUME IInv, [Next]_vars
  PROVE  SlotStep
<1>1. ASSUME UNCHANGED <<session, inflight>> PROVE SlotStep
  BY <1>1 DEF SlotStep, Keeps
<1>2. ASSUME Reset, UNCHANGED inflight PROVE SlotStep
  BY <1>2 DEF Reset, slot, SlotStep, Keeps, Evicts
<1>3. ASSUME NEW d \in Dials, NEW next, NEW c, pc[d] \in EstPc, DropGuard(d, next, c), UNCHANGED session
      PROVE  SlotStep
  BY <1>3 DEF DropGuard, SlotStep, Keeps, IInv, Exclusive
<1>4. ASSUME NEW d \in Dials, Dial(d) PROVE SlotStep
  <2>1. CASE GetCas(d)
    BY <2>1 DEF GetCas, slot, SlotStep, Keeps, IInv, RestOK
  <2>2. CASE Install(d)
    <3>1. inflight /\ own[d] # 0 /\ session = 0 /\ own[d] \in Nat
      BY <2>2 DEF Install, IInv, Exclusive, Connecting, EstPc, CacheOK
    <3> QED BY <2>2, <3>1 DEF Install, SlotStep, Stores
  <2>3. CASE EstCached(d)
    BY <2>3, <1>1, <1>3 DEF EstCached, EstPc, slot
  <2>4. CASE ConnectFail(d)
    BY <2>4, <1>3 DEF ConnectFail, EstPc, slot
  <2>5. CASE EstLeave(d)
    BY <2>5, <1>3 DEF EstLeave, EstPc, slot
  <2>6. CASE EstReset(d) \/ RetryReset(d)
    BY <2>6, <1>2 DEF EstReset, RetryReset
  <2>7. CASE \/ LoadPort(d) \/ GetCached(d) \/ GetSubscribe(d) \/ EstBump(d) \/ ConnectOk(d)
             \/ OpenStream(d) \/ ReadReply(d) \/ StreamFail(d)
    BY <2>7, <1>1 DEF LoadPort, GetCached, GetSubscribe, EstBump, ConnectOk, OpenStream, ReadReply,
                      StreamFail, slot
  <2> QED BY <1>4, <2>1, <2>2, <2>3, <2>4, <2>5, <2>6, <2>7 DEF Dial
<1>5. CASE Environment
  <2>1. CASE HopReset \/ Close
    BY <2>1, <1>2 DEF HopReset, Close
  <2>2. CASE HopPort \/ AgeOut \/ \E c \in live : ConnectionLost(c)
    BY <2>2, <1>1 DEF HopPort, AgeOut, ConnectionLost, slot
  <2>3. ASSUME NEW d \in Dials, Cancel(d) PROVE SlotStep
    BY <2>3, <1>1, <1>3 DEF Cancel, slot
  <2>4. ASSUME NEW c \in closing, CloseWatcher(c) PROVE SlotStep
    BY <2>4 DEF CloseWatcher, slot, SlotStep, Keeps, Evicts, IInv, ClosingIsClosed
  <2> QED BY <1>5, <2>1, <2>2, <2>3, <2>4 DEF Environment
<1>6. CASE UNCHANGED vars
  BY <1>6, <1>1 DEF vars, slot
<1> QED BY <1>4, <1>5, <1>6 DEF Next

\* The Hysteria2 session cache (establish_session, ConnectGuard, reset_session,
\* port hopping and the close watcher) implements the single-flight slot.
THEOREM ImplementsSlot == Spec => SlotSpec
<1>1. Init => Slot!Init
  BY DEF Init, Slot!Init
<1>2. IInv /\ [Next]_vars => [Slot!Next]_<<session, inflight>>
  <2> SUFFICES ASSUME IInv, [Next]_vars PROVE [Slot!Next]_<<session, inflight>>
    OBVIOUS
  <2>1. CASE Keeps
    BY <2>1 DEF Keeps, Slot!Next, Slot!Begin, Slot!Finish
  <2>2. CASE Stores
    BY <2>2 DEF Stores, Slot!Next, Slot!Store
  <2>3. CASE Evicts
    BY <2>3 DEF Evicts, Slot!Next, Slot!Evict
  <2> QED BY <2>1, <2>2, <2>3, StepIsSlotStep DEF SlotStep
<1> QED BY <1>1, <1>2, Invariance, PTL DEF Spec, SlotSpec, Slot!Spec

\* A session leaves the cache closed: it is never overwritten, and every other
\* way out closes it first.
THEOREM LeavesClosed == Spec => SessionLeavesClosed
<1> DEFINE Closed == session # 0 /\ session' # session => session \notin live'
<1>1. IInv /\ [Next]_vars => [Closed]_vars
  <2> SUFFICES ASSUME IInv, [Next]_vars PROVE Closed
    OBVIOUS
  <2> QED BY StepIsSlotStep DEF SlotStep, Keeps, Stores, Evicts
<1> QED BY <1>1, Invariance, PTL DEF Spec, SessionLeavesClosed
=============================================================================
