----------------------------- MODULE RstClient -----------------------------
(***************************************************************************)
(* The session cache of the RST outbound (rst/client.rs).  TCP dials run    *)
(* under a dial permit and a work timeout; on failure they rebuild the      *)
(* session when it is dead, or after WEDGE_REBUILD_AFTER timeout-like       *)
(* failures in a row.                                                       *)
(*                                                                         *)
(* A connection is named by the generation drawn once it is authenticated.  *)
(***************************************************************************)
EXTENDS Integers, FiniteSets, TLAPS

CONSTANTS
  TcpDials,         \* dial_tcp calls that need a dial permit
  DnsDials,         \* dial_tcp calls to port 53, which need none
  UdpDials,         \* dial_udp calls
  Rounds,           \* the sets of dials that may be made; the others are dropped at once
  DialPermits,      \* dial_concurrency
  WedgeRebuildAfter \* WEDGE_REBUILD_AFTER

Dials == TcpDials \cup DnsDials \cup UdpDials

ASSUME KindsAssumption == UdpDials \cap (TcpDials \cup DnsDials) = {}
ASSUME BoundsAssumption == DialPermits \in Nat /\ WedgeRebuildAfter \in Nat

VARIABLES
  session,     \* the cached connection, 0 when None
  aged,        \* it is older than max_session_age
  generation,  \* shared.generation
  inflight,    \* shared.connect_inflight
  timeouts,    \* shared.consecutive_timeouts
  live,        \* open connections
  closing,     \* closed connections whose close watcher has not run
  pc, own,     \* per dial: where it is, the connection in hand
  tries, fault \* per dial: rebuilds made, class of its last error

cache == <<session, aged, generation, live, closing>>
vars == <<cache, inflight, timeouts, pc, own, tries, fault>>

GetPc == {"lookup", "cas", "subscribe", "wait", "recheck", "fetch"}
EstPc == {"est", "connect", "install", "leave"}
Work == GetPc \cup EstPc \cup {"open", "reply"}
Handling == {"check", "deadreset", "count", "wedgereset", "clear"}
\* Where dial_tcp_inner's work is suspended at an await.
Awaits == {"lookup", "wait", "recheck", "est", "connect", "install", "fetch", "open", "reply"}
Final == {"ok", "err", "cancelled"}

TypeOK ==
  /\ generation \in Nat
  /\ session \in 0..generation /\ aged \in BOOLEAN
  /\ live \in SUBSET (1..generation) /\ closing \in SUBSET (1..generation)
  /\ inflight \in BOOLEAN /\ timeouts \in Nat
  /\ pc \in [Dials -> {"start"} \cup Work \cup Handling \cup Final]
  /\ own \in [Dials -> 0..generation]
  /\ tries \in [Dials -> 0..1] /\ fault \in [Dials -> {"none", "timeout", "other", "dead"}]

Init ==
  /\ session = 0 /\ aged = FALSE /\ generation = 0
  /\ live = {} /\ closing = {}
  /\ inflight = FALSE /\ timeouts = 0
  /\ own = [d \in Dials |-> 0]
  /\ tries = [d \in Dials |-> 0] /\ fault = [d \in Dials |-> "none"]
  /\ \E D \in Rounds : pc = [d \in Dials |-> IF d \in D THEN "start" ELSE "cancelled"]
-----------------------------------------------------------------------------
SessionUsable == session \in live /\ ~aged

\* reset_session: the generation is bumped whether or not a session was taken.
Reset ==
  /\ session' = 0 /\ aged' = FALSE
  /\ generation' = generation + 1
  /\ live' = live \ {session}
  /\ closing' = closing \cup (live \cap {session})

Goto(d, next, c) ==
  /\ pc' = [pc EXCEPT ![d] = next]
  /\ own' = [own EXCEPT ![d] = c]

\* Guard::drop wakes the dials already waiting; no permit is stored.
DropGuard(d, next, c) ==
  /\ inflight' = FALSE
  /\ pc' = [e \in Dials |-> IF e = d THEN next
                            ELSE IF pc[e] = "wait" THEN "recheck" ELSE pc[e]]
  /\ own' = [own EXCEPT ![d] = c]

\* The work future is dropped or returns: its guard, if any, is released.
LeaveWork(d, next) ==
  IF pc[d] \in EstPc THEN DropGuard(d, next, 0)
  ELSE Goto(d, next, 0) /\ UNCHANGED inflight

\* dial_tcp examines the error of its first attempt; a second error is final,
\* and so is any error of dial_udp.
Failed(d, class) ==
  /\ LeaveWork(d, IF d \in UdpDials \/ tries[d] = 1 THEN "err" ELSE "check")
  /\ fault' = [fault EXCEPT ![d] = class]
  /\ UNCHANGED <<cache, timeouts, tries>>

HoldsPermit(d) == pc[d] \in Work
PermitFree == Cardinality({e \in TcpDials : HoldsPermit(e)}) < DialPermits
-----------------------------------------------------------------------------
(* dial_tcp_inner: permit, then get_connection and establish *)

Acquire(d) ==
  /\ pc[d] = "start"
  /\ d \in TcpDials => PermitFree
  /\ Goto(d, "lookup", 0)
  /\ UNCHANGED <<cache, inflight, timeouts, tries, fault>>

\* "rst: dial queue timeout" counts as timeout-like.
AcquireTimeout(d) ==
  pc[d] = "start" /\ d \in TcpDials /\ ~PermitFree /\ Failed(d, "timeout")

\* What a dial does with its connection: dial_udp is done.
Got(d) == IF d \in UdpDials THEN "ok" ELSE "open"

Lookup(d) ==
  /\ pc[d] = "lookup"
  /\ IF SessionUsable THEN Goto(d, Got(d), session) ELSE Goto(d, "cas", 0)
  /\ UNCHANGED <<cache, inflight, timeouts, tries, fault>>

\* Mutant of EstCas: stores the flag without testing it.
EstCasBlind(d) ==
  /\ pc[d] = "cas"
  /\ Goto(d, "est", 0)
  /\ inflight' = TRUE
  /\ UNCHANGED <<cache, timeouts, tries, fault>>

EstCas(d) ==
  /\ pc[d] = "cas"
  /\ Goto(d, IF inflight THEN "subscribe" ELSE "est", 0)
  /\ inflight' = TRUE
  /\ UNCHANGED <<cache, timeouts, tries, fault>>

Subscribe(d) ==
  /\ pc[d] = "subscribe"
  /\ Goto(d, "wait", 0)
  /\ UNCHANGED <<cache, inflight, timeouts, tries, fault>>

\* Woken: done if a usable session is cached, else race for the flag again.
Recheck(d) ==
  /\ pc[d] = "recheck"
  /\ Goto(d, IF SessionUsable THEN "fetch" ELSE "cas", 0)
  /\ UNCHANGED <<cache, inflight, timeouts, tries, fault>>

\* Under the guard: connect unless a usable session is cached by now.
EstCached(d) ==
  /\ pc[d] = "est"
  /\ IF SessionUsable THEN LeaveWork(d, "fetch")
     ELSE Goto(d, "connect", 0) /\ UNCHANGED inflight
  /\ UNCHANGED <<cache, timeouts, tries, fault>>

\* Mutant of ConnectOk: labels the connection without storing the counter.
ConnectUnlabelled(d) ==
  /\ pc[d] = "connect"
  /\ live' = live \cup {generation + 1}
  /\ Goto(d, "install", generation + 1)
  /\ UNCHANGED <<session, aged, generation, closing, inflight, timeouts, tries, fault>>

\* Connected and authenticated: draw a generation, spawn the close watcher.
ConnectOk(d) ==
  /\ pc[d] = "connect"
  /\ generation' = generation + 1
  /\ live' = live \cup {generation + 1}
  /\ Goto(d, "install", generation + 1)
  /\ UNCHANGED <<session, aged, closing, inflight, timeouts, tries, fault>>

ConnectFail(d) == pc[d] = "connect" /\ \E class \in {"timeout", "other"} : Failed(d, class)

\* The new session overwrites a dead or aged one without closing it.
Install(d) ==
  /\ pc[d] = "install"
  /\ session' = own[d] /\ aged' = FALSE
  /\ Goto(d, "leave", 0)
  /\ UNCHANGED <<generation, live, closing, inflight, timeouts, tries, fault>>

EstLeave(d) ==
  /\ pc[d] = "leave"
  /\ LeaveWork(d, "fetch")
  /\ UNCHANGED <<cache, timeouts, tries, fault>>

\* After establish, take whatever is cached, usable or not.
Fetch(d) ==
  /\ pc[d] = "fetch"
  /\ \/ /\ session # 0
        /\ Goto(d, Got(d), session)
        /\ UNCHANGED <<cache, inflight, timeouts, tries, fault>>
     \/ session = 0 /\ Failed(d, "other")
-----------------------------------------------------------------------------
(* The stream, and dial_tcp's handling of errors *)

OpenStream(d) ==
  /\ pc[d] = "open" /\ own[d] \in live
  /\ Goto(d, "reply", own[d])
  /\ UNCHANGED <<cache, inflight, timeouts, tries, fault>>

\* The server accepted: dial_tcp clears consecutive_timeouts, except after it
\* rebuilt a dead session.
ReadReply(d) ==
  /\ pc[d] = "reply" /\ own[d] \in live
  /\ Goto(d, "ok", own[d])
  /\ timeouts' = IF fault[d] = "dead" THEN timeouts ELSE 0
  /\ UNCHANGED <<cache, inflight, tries, fault>>

\* A rejected, closed or failed stream: never timeout-like.  A timed-out
\* open_bi is not either, its message is hidden behind "open rst stream".
StreamFail(d) == pc[d] \in {"open", "reply"} /\ Failed(d, "other")

\* Mutant of WorkTimeout: the work is not bounded.
WorkUnbounded(d) == FALSE /\ UNCHANGED vars

\* DIAL_WORK_TIMEOUT drops the work future at whichever await it is.
WorkTimeout(d) == pc[d] \in Awaits /\ d \notin UdpDials /\ Failed(d, "timeout")

\* session_connection_dead.
CheckDead(d) ==
  /\ pc[d] = "check"
  /\ Goto(d, IF session \notin live THEN "deadreset"
             ELSE IF fault[d] = "timeout" THEN "count" ELSE "err", 0)
  /\ UNCHANGED <<cache, inflight, timeouts, tries, fault>>

CountTimeout(d) ==
  /\ pc[d] = "count"
  /\ timeouts' = timeouts + 1
  /\ Goto(d, IF timeouts + 1 < WedgeRebuildAfter THEN "err" ELSE "wedgereset", 0)
  /\ UNCHANGED <<cache, inflight, tries, fault>>

\* Both rebuilds reset the session and dial once more.
Rebuild(d) ==
  /\ pc[d] \in {"deadreset", "wedgereset"}
  /\ Reset
  /\ tries' = [tries EXCEPT ![d] = 1]
  /\ fault' = [fault EXCEPT ![d] = IF pc[d] = "deadreset" THEN "dead" ELSE @]
  /\ Goto(d, "clear", 0)
  /\ UNCHANGED <<inflight, timeouts>>

ClearTimeouts(d) ==
  /\ pc[d] = "clear"
  /\ timeouts' = 0
  /\ Goto(d, "start", 0)
  /\ UNCHANGED <<cache, inflight, tries, fault>>

Dial(d) ==
  \/ Acquire(d) \/ AcquireTimeout(d) \/ Lookup(d) \/ EstCas(d) \/ Subscribe(d) \/ Recheck(d)
  \/ EstCached(d) \/ ConnectOk(d) \/ ConnectFail(d) \/ Install(d) \/ EstLeave(d) \/ Fetch(d)
  \/ OpenStream(d) \/ ReadReply(d) \/ StreamFail(d) \/ WorkTimeout(d)
  \/ CheckDead(d) \/ CountTimeout(d) \/ Rebuild(d) \/ ClearTimeouts(d)
-----------------------------------------------------------------------------
(* Close watchers and the environment *)

\* The caller drops the dial future at an await.
Cancel(d) ==
  /\ pc[d] \in Awaits \cup {"start", "check", "deadreset", "wedgereset"}
  /\ LeaveWork(d, "cancelled")
  /\ UNCHANGED <<cache, timeouts, tries, fault>>

\* Mutant of CloseWatcher: clears the cache without comparing the session.
CloseWatcherBlind(c) ==
  /\ c \in closing
  /\ closing' = closing \ {c}
  /\ session' = 0 /\ aged' = FALSE
  /\ UNCHANGED <<generation, live, inflight, timeouts, pc, own, tries, fault>>

CloseWatcher(c) ==
  /\ c \in closing
  /\ closing' = closing \ {c}
  /\ session' = IF session = c THEN 0 ELSE session
  /\ aged' = (aged /\ session # c)
  /\ UNCHANGED <<generation, live, inflight, timeouts, pc, own, tries, fault>>

\* Outbound::close; with nothing cached it would only burn a generation.
Close ==
  /\ session # 0
  /\ Reset
  /\ UNCHANGED <<inflight, timeouts, pc, own, tries, fault>>

ConnectionLost(c) ==
  /\ c \in live
  /\ live' = live \ {c}
  /\ closing' = closing \cup {c}
  /\ UNCHANGED <<session, aged, generation, inflight, timeouts, pc, own, tries, fault>>

AgeOut ==
  /\ session \in live /\ ~aged
  /\ aged' = TRUE
  /\ UNCHANGED <<session, generation, live, closing, inflight, timeouts, pc, own, tries, fault>>

Environment ==
  \/ Close \/ AgeOut
  \/ \E d \in Dials : Cancel(d)
  \/ \E c \in closing : CloseWatcher(c)
  \/ \E c \in live : ConnectionLost(c)

Next == Environment \/ \E d \in Dials : Dial(d)

\* Every await of a dial but notified() is bounded by a timeout.
Fairness == \A d \in Dials : WF_vars(Dial(d))

Spec == Init /\ [][Next]_vars /\ Fairness
-----------------------------------------------------------------------------
(* Properties *)

\* The slot behaves as a single-flight cache: only the dial that holds
\* connect_inflight stores a session, one at a time.
Slot == INSTANCE SessionSlot WITH slot <- session, busy <- inflight
SlotSpec == Slot!Spec

\* A session leaves the cache for a cause: what establish overwrites is dead or
\* past max_session_age, never one other dials could still use, and a live one is
\* dropped only by being closed: the close watcher of an earlier connection never
\* evicts its successor.
SessionsLeaveForCause ==
  [][/\ session' # session /\ session' # 0 => ~SessionUsable
     /\ session' = 0 /\ session \in live => session \notin live']_vars

\* Every TCP dial ends: the work timeout covers the wait for another dial's
\* connect, so a missed wake-up costs a failed dial and not a stuck one.
TcpDialsTerminate == <>(\A d \in TcpDials \cup DnsDials : pc[d] \in Final)

\* What the comment on AUTH_TIMEOUT says bounding authentication prevents, "all
\* dials wedge": every UDP dial ends too.  Broken: dial_udp waits on
\* connect_notify with no timeout and can miss its wake-up.
UdpDialsTerminate == <>(\A d \in UdpDials : pc[d] \in Final)

\* What the comment on session_connection_dead says, "Stream-level errors must
\* not use this as a cue to tear down siblings": the rebuild of a session found
\* dead closes no live one.  Broken: another dial may store a fresh session
\* between the check and the reset.
DeadRebuildSparesLive ==
  [][\A d \in Dials : pc[d] = "deadreset" /\ pc'[d] = "clear" => session \notin live]_vars
-----------------------------------------------------------------------------
(* Proofs, for any dials, permits and rounds *)

PcValues == {"start"} \cup Work \cup Handling \cup Final

\* The flag is set while a dial is inside a connect, and one dial is at most.
Exclusive ==
  /\ \A d \in Dials : pc[d] \in EstPc => inflight
  /\ \A d, e \in Dials : pc[d] \in EstPc /\ pc[e] \in EstPc => d = e

\* A dial that is about to store a session has one, and while a dial connects
\* the cache holds none that another dial could use.
Connecting ==
  /\ \A d \in Dials : pc[d] = "install" => own[d] # 0
  /\ \A d \in Dials : pc[d] \in {"connect", "install"} => ~SessionUsable

\* A connection whose watcher is about to run is closed.
ClosingIsClosed == closing \cap live = {}

IInv == TypeOK /\ Exclusive /\ Connecting /\ ClosingIsClosed

\* A dial moves on: it does not enter a connect, has a connection in hand when
\* it stores one, and the cache is as it was.
LEMMA GotoKeeps ==
  ASSUME IInv, NEW d \in Dials, NEW next \in PcValues, NEW c \in 0..generation,
         Goto(d, next, c), UNCHANGED <<cache, inflight>>,
         next \in EstPc => pc[d] \in EstPc,
         next = "install" => c # 0,
         next \in {"connect", "install"} => ~SessionUsable,
         timeouts' \in Nat, tries' \in [Dials -> 0..1],
         fault' \in [Dials -> {"none", "timeout", "other", "dead"}]
  PROVE  IInv'
<1>1. TypeOK'
  BY DEF IInv, TypeOK, Goto, cache, PcValues
<1>2. \A e \in Dials : pc'[e] = IF e = d THEN next ELSE pc[e]
  BY DEF IInv, TypeOK, Goto
<1>3. \A e \in Dials : own'[e] = IF e = d THEN c ELSE own[e]
  BY DEF IInv, TypeOK, Goto
<1>4. Exclusive'
  BY <1>2 DEF IInv, Exclusive
<1>5. Connecting'
  BY <1>2, <1>3 DEF IInv, Connecting, SessionUsable, cache
<1>6. ClosingIsClosed'
  BY DEF IInv, ClosingIsClosed, cache
<1> QED BY <1>1, <1>4, <1>5, <1>6 DEF IInv

\* A dial leaves its work, and the connect if it is in one: the flag is clear
\* then, and no other dial is inside.
LEMMA LeaveKeeps ==
  ASSUME IInv, NEW d \in Dials, NEW next \in PcValues \ EstPc, LeaveWork(d, next), UNCHANGED cache,
         timeouts' \in Nat, tries' \in [Dials -> 0..1],
         fault' \in [Dials -> {"none", "timeout", "other", "dead"}]
  PROVE  IInv' /\ (UNCHANGED inflight \/ (inflight /\ inflight' = FALSE))
<1>0. 0 \in 0..generation
  BY DEF IInv, TypeOK
<1>1. CASE pc[d] \notin EstPc
  <2>1. Goto(d, next, 0) /\ UNCHANGED inflight
    BY <1>1 DEF LeaveWork
  <2>2. IInv'
    BY <2>1, <1>0, GotoKeeps DEF EstPc
  <2> QED BY <2>1, <2>2
<1>2. CASE pc[d] \in EstPc
  <2>1. DropGuard(d, next, 0) /\ inflight /\ inflight' = FALSE
    BY <1>2 DEF LeaveWork, IInv, Exclusive, DropGuard
  <2>a. pc' \in [Dials -> PcValues] /\ own' \in [Dials -> 0..generation]
    BY <2>1, <1>0 DEF IInv, TypeOK, DropGuard, PcValues, Work, GetPc
  <2>2. TypeOK'
    BY <2>1, <2>a DEF IInv, TypeOK, cache, PcValues
  <2>3. \A e \in Dials : pc'[e] \notin EstPc
    BY <2>1, <1>2 DEF IInv, TypeOK, DropGuard, Exclusive, EstPc
  <2>4. Exclusive' /\ Connecting'
    BY <2>3 DEF Exclusive, Connecting, EstPc
  <2>5. ClosingIsClosed'
    BY DEF IInv, ClosingIsClosed, cache
  <2> QED BY <2>1, <2>2, <2>4, <2>5 DEF IInv
<1> QED BY <1>1, <1>2

\* An error of a dial.
LEMMA FailedKeeps ==
  ASSUME IInv, NEW d \in Dials, NEW class \in {"timeout", "other"}, Failed(d, class)
  PROVE  IInv' /\ UNCHANGED cache /\ (UNCHANGED inflight \/ (inflight /\ inflight' = FALSE))
<1>1. UNCHANGED cache /\ timeouts' \in Nat /\ tries' \in [Dials -> 0..1]
  BY DEF Failed, IInv, TypeOK
<1>2. fault' \in [Dials -> {"none", "timeout", "other", "dead"}]
  BY DEF Failed, IInv, TypeOK
<1>3. PICK next \in {"err", "check"} : LeaveWork(d, next)
  BY DEF Failed
<1>4. next \in PcValues \ EstPc
  BY DEF PcValues, Final, Handling, EstPc
<1> QED BY <1>1, <1>2, <1>3, <1>4, LeaveKeeps

\* A reset closes what it takes out of the cache.
LEMMA ResetKeeps ==
  ASSUME IInv, Reset, UNCHANGED inflight, timeouts' \in Nat, tries' \in [Dials -> 0..1],
         fault' \in [Dials -> {"none", "timeout", "other", "dead"}],
         pc' \in [Dials -> PcValues], own' \in [Dials -> 0..generation],
         \A d \in Dials : pc'[d] \in EstPc => pc'[d] = pc[d] /\ own'[d] = own[d]
  PROVE  IInv'
<1>1. TypeOK'
  <2>a. aged' \in BOOLEAN
    BY DEF Reset
  <2>1. generation \in Nat /\ generation' \in Nat /\ session' \in 0..generation'
    BY DEF IInv, TypeOK, Reset
  <2>2. 0..generation \subseteq 0..generation' /\ 1..generation \subseteq 1..generation'
    BY DEF IInv, TypeOK, Reset
  <2>3. live' \in SUBSET (1..generation') /\ closing' \in SUBSET (1..generation')
    BY <2>2 DEF IInv, TypeOK, Reset
  <2>4. own' \in [Dials -> 0..generation']
    BY <2>2
  <2> QED BY <2>a, <2>1, <2>3, <2>4 DEF IInv, TypeOK, PcValues
<1>2. Exclusive'
  BY DEF IInv, Exclusive
<1>3. ~SessionUsable'
  BY DEF IInv, TypeOK, Reset, SessionUsable
<1>4. Connecting'
  BY <1>3 DEF IInv, Connecting, EstPc
<1>5. ClosingIsClosed'
  BY DEF IInv, ClosingIsClosed, Reset
<1> QED BY <1>1, <1>2, <1>4, <1>5 DEF IInv

\* Every step of a dial keeps the invariant.
LEMMA DialKeeps ==
  ASSUME IInv, NEW d \in Dials, Dial(d)
  PROVE  IInv'
<1> USE DEF PcValues, Work, GetPc, EstPc, Handling, Final
<1>0. 0 \in 0..generation /\ session \in 0..generation /\ own[d] \in 0..generation /\ generation \in Nat
  BY DEF IInv, TypeOK
<1>a. timeouts \in Nat /\ tries \in [Dials -> 0..1]
      /\ fault \in [Dials -> {"none", "timeout", "other", "dead"}]
  BY DEF IInv, TypeOK
<1>1. CASE Acquire(d)
  BY <1>1, <1>0, <1>a, GotoKeeps DEF Acquire
<1>2. CASE AcquireTimeout(d)
  BY <1>2, FailedKeeps DEF AcquireTimeout
<1>3. CASE Lookup(d)
  <2>1. PICK next \in {"ok", "open", "cas"}, c \in 0..generation : Goto(d, next, c)
    BY <1>3, <1>0 DEF Lookup, Got
  <2> QED BY <1>3, <2>1, <1>a, GotoKeeps DEF Lookup
<1>4. CASE EstCas(d)
  <2>1. CASE inflight
    <3>1. Goto(d, "subscribe", 0) /\ UNCHANGED inflight
      BY <2>1, <1>4 DEF EstCas, IInv, TypeOK
    <3> QED BY <3>1, <1>4, <1>0, <1>a, GotoKeeps DEF EstCas
  <2>2. CASE ~inflight
    <3>1. Goto(d, "est", 0) /\ inflight' /\ UNCHANGED cache /\ UNCHANGED <<timeouts, tries, fault>>
      BY <2>2, <1>4 DEF EstCas
    <3>2. TypeOK'
      BY <3>1, <1>4, <1>0 DEF IInv, TypeOK, Goto, cache, EstCas
    <3>3. \A e \in Dials : pc'[e] = (IF e = d THEN "est" ELSE pc[e]) /\ own'[e] = (IF e = d THEN 0 ELSE own[e])
      BY <3>1 DEF IInv, TypeOK, Goto
    <3>4. Exclusive'
      BY <3>1, <3>3, <2>2 DEF IInv, Exclusive
    <3>5. Connecting' /\ ClosingIsClosed'
      BY <3>1, <3>3 DEF IInv, Connecting, ClosingIsClosed, SessionUsable, cache
    <3> QED BY <3>2, <3>4, <3>5 DEF IInv
  <2> QED BY <2>1, <2>2
<1>5. CASE Subscribe(d)
  BY <1>5, <1>0, <1>a, GotoKeeps DEF Subscribe
<1>6. CASE Recheck(d)
  <2>1. PICK next \in {"fetch", "cas"} : Goto(d, next, 0)
    BY <1>6 DEF Recheck
  <2> QED BY <1>6, <2>1, <1>0, <1>a, GotoKeeps DEF Recheck
<1>7. CASE EstCached(d)
  <2>1. CASE SessionUsable
    BY <2>1, <1>7, <1>a, LeaveKeeps DEF EstCached
  <2>2. CASE ~SessionUsable
    BY <2>2, <1>7, <1>0, <1>a, GotoKeeps DEF EstCached
  <2> QED BY <2>1, <2>2
<1>8. CASE ConnectOk(d)
  <2>1. 0..generation \subseteq 0..(generation + 1) /\ 1..generation \subseteq 1..(generation + 1)
        /\ generation + 1 \in 1..(generation + 1) /\ generation + 1 \in 0..(generation + 1)
    BY <1>0
  <2>2. TypeOK'
    BY <1>8, <2>1, <1>0 DEF ConnectOk, Goto, IInv, TypeOK
  <2>3. \A e \in Dials : pc'[e] = (IF e = d THEN "install" ELSE pc[e])
                        /\ own'[e] = (IF e = d THEN generation + 1 ELSE own[e])
    BY <1>8 DEF ConnectOk, IInv, TypeOK, Goto
  <2>4. Exclusive'
    BY <1>8, <2>3 DEF ConnectOk, IInv, Exclusive
  <2>5. generation + 1 \notin closing /\ session # generation + 1
    BY <1>0 DEF IInv, TypeOK
  <2>6. Connecting'
    BY <1>8, <2>3, <2>5, <1>0 DEF ConnectOk, IInv, Connecting, SessionUsable
  <2>7. ClosingIsClosed'
    BY <1>8, <2>5 DEF ConnectOk, IInv, ClosingIsClosed
  <2> QED BY <2>2, <2>4, <2>6, <2>7 DEF IInv
<1>9. CASE ConnectFail(d)
  BY <1>9, FailedKeeps DEF ConnectFail
<1>10. CASE Install(d)
  <2>1. TypeOK'
    BY <1>10, <1>0 DEF Install, Goto, IInv, TypeOK
  <2>2. \A e \in Dials : pc'[e] = (IF e = d THEN "leave" ELSE pc[e])
    BY <1>10 DEF Install, Goto, IInv, TypeOK
  <2>3. Exclusive'
    BY <1>10, <2>2 DEF Install, IInv, Exclusive
  <2>4. \A e \in Dials : pc'[e] \notin {"connect", "install"}
    BY <1>10, <2>2 DEF Install, IInv, Exclusive
  <2>5. Connecting' /\ ClosingIsClosed'
    BY <1>10, <2>4 DEF Install, IInv, Connecting, ClosingIsClosed
  <2> QED BY <2>1, <2>3, <2>5 DEF IInv
<1>11. CASE EstLeave(d)
  BY <1>11, <1>a, LeaveKeeps DEF EstLeave
<1>12. CASE Fetch(d)
  <2>1. CASE session # 0 /\ Goto(d, Got(d), session) /\ UNCHANGED <<cache, inflight, timeouts, tries, fault>>
    <3>1. PICK next \in {"ok", "open"} : Goto(d, next, session)
      BY <2>1 DEF Got
    <3> QED BY <3>1, <2>1, <1>0, <1>a, GotoKeeps
  <2>2. CASE Failed(d, "other")
    BY <2>2, FailedKeeps
  <2> QED BY <1>12, <2>1, <2>2 DEF Fetch
<1>13. CASE OpenStream(d)
  BY <1>13, <1>0, <1>a, GotoKeeps DEF OpenStream
<1>14. CASE ReadReply(d)
  <2>1. timeouts' \in Nat
    BY <1>14, <1>a DEF ReadReply
  <2> QED BY <2>1, <1>14, <1>0, <1>a, GotoKeeps DEF ReadReply
<1>15. CASE StreamFail(d)
  BY <1>15, FailedKeeps DEF StreamFail
<1>16. CASE WorkTimeout(d)
  BY <1>16, FailedKeeps DEF WorkTimeout
<1>17. CASE CheckDead(d)
  <2>1. PICK next \in {"deadreset", "count", "err"} : Goto(d, next, 0)
    BY <1>17 DEF CheckDead
  <2> QED BY <1>17, <2>1, <1>0, <1>a, GotoKeeps DEF CheckDead
<1>18. CASE CountTimeout(d)
  <2>1. PICK next \in {"err", "wedgereset"} : Goto(d, next, 0)
    BY <1>18 DEF CountTimeout
  <2>2. timeouts' \in Nat
    BY <1>18, <1>a DEF CountTimeout
  <2> QED BY <1>18, <2>1, <2>2, <1>0, <1>a, GotoKeeps DEF CountTimeout
<1>19. CASE Rebuild(d)
  <2>1. pc' \in [Dials -> PcValues] /\ own' \in [Dials -> 0..generation]
    BY <1>19, <1>0 DEF Rebuild, Goto, IInv, TypeOK
  <2>2. \A e \in Dials : pc'[e] \in EstPc => pc'[e] = pc[e] /\ own'[e] = own[e]
    BY <1>19 DEF Rebuild, Goto, IInv, TypeOK
  <2>3. tries' \in [Dials -> 0..1] /\ fault' \in [Dials -> {"none", "timeout", "other", "dead"}]
    BY <1>19, <1>a DEF Rebuild
  <2> QED BY <1>19, <2>1, <2>2, <2>3, <1>a, ResetKeeps DEF Rebuild
<1>20. CASE ClearTimeouts(d)
  <2>1. timeouts' \in Nat
    BY <1>20 DEF ClearTimeouts
  <2> QED BY <2>1, <1>20, <1>0, <1>a, GotoKeeps DEF ClearTimeouts
<1> QED BY <1>1, <1>2, <1>3, <1>4, <1>5, <1>6, <1>7, <1>8, <1>9, <1>10, <1>11, <1>12,
           <1>13, <1>14, <1>15, <1>16, <1>17, <1>18, <1>19, <1>20 DEF Dial

\* And every step of the environment does.
LEMMA EnvironmentKeeps ==
  ASSUME IInv, Environment
  PROVE  IInv'
<1>a. /\ timeouts \in Nat /\ tries \in [Dials -> 0..1] /\ pc \in [Dials -> PcValues]
      /\ fault \in [Dials -> {"none", "timeout", "other", "dead"}] /\ own \in [Dials -> 0..generation]
  BY DEF IInv, TypeOK, PcValues
<1>1. CASE Close
  BY <1>1, <1>a, ResetKeeps DEF Close
<1>2. CASE AgeOut
  <2>1. TypeOK'
    BY <1>2 DEF AgeOut, IInv, TypeOK
  <2>2. Exclusive' /\ Connecting' /\ ClosingIsClosed'
    BY <1>2 DEF AgeOut, IInv, Exclusive, Connecting, ClosingIsClosed, SessionUsable
  <2> QED BY <2>1, <2>2 DEF IInv
<1>3. ASSUME NEW d \in Dials, Cancel(d) PROVE IInv'
  <2>1. "cancelled" \in PcValues \ EstPc
    BY DEF PcValues, Final, EstPc
  <2> QED BY <1>3, <2>1, <1>a, LeaveKeeps DEF Cancel
<1>4. ASSUME NEW c \in closing, CloseWatcher(c) PROVE IInv'
  <2>1. TypeOK'
    BY <1>4 DEF CloseWatcher, IInv, TypeOK
  <2>2. Exclusive' /\ ClosingIsClosed'
    BY <1>4 DEF CloseWatcher, IInv, Exclusive, ClosingIsClosed
  <2>3. 0 \notin live
    BY DEF IInv, TypeOK
  <2>4. Connecting'
    BY <1>4, <2>3 DEF CloseWatcher, IInv, Connecting, SessionUsable
  <2> QED BY <2>1, <2>2, <2>4 DEF IInv
<1>5. ASSUME NEW c \in live, ConnectionLost(c) PROVE IInv'
  <2>1. TypeOK'
    BY <1>5 DEF ConnectionLost, IInv, TypeOK
  <2>2. Exclusive' /\ Connecting' /\ ClosingIsClosed'
    BY <1>5 DEF ConnectionLost, IInv, Exclusive, Connecting, ClosingIsClosed, SessionUsable
  <2> QED BY <2>1, <2>2 DEF IInv
<1> QED BY <1>1, <1>2, <1>3, <1>4, <1>5 DEF Environment

\* The invariant holds throughout.
LEMMA Invariance == Spec => []IInv
<1>1. Init => IInv
  <2> SUFFICES ASSUME Init PROVE IInv
    OBVIOUS
  <2>1. pc \in [Dials -> {"start", "cancelled"}]
    BY DEF Init
  <2>a. aged \in BOOLEAN /\ inflight \in BOOLEAN
    BY DEF Init
  <2>b. generation \in Nat /\ session \in 0..generation /\ timeouts \in Nat
        /\ own \in [Dials -> 0..generation] /\ tries \in [Dials -> 0..1]
    BY DEF Init
  <2>2. TypeOK
    BY <2>1, <2>a, <2>b DEF Init, TypeOK, Final
  <2>3. Exclusive /\ Connecting /\ ClosingIsClosed
    BY <2>1 DEF Init, Exclusive, Connecting, ClosingIsClosed, EstPc
  <2> QED BY <2>2, <2>3 DEF IInv
<1>2. IInv /\ [Next]_vars => IInv'
  <2> SUFFICES ASSUME IInv, [Next]_vars PROVE IInv'
    OBVIOUS
  <2>1. CASE Next
    BY <2>1, DialKeeps, EnvironmentKeeps DEF Next
  <2>2. CASE UNCHANGED vars
    BY <2>2 DEF vars, cache, IInv, TypeOK, Exclusive, Connecting, ClosingIsClosed, SessionUsable
  <2> QED BY <2>1, <2>2
<1> QED BY <1>1, <1>2, PTL DEF Spec

\* Every step keeps the types, for any dials, permits and rounds.
THEOREM TypeCorrect == Spec => []TypeOK
<1>1. IInv => TypeOK
  BY DEF IInv
<1> QED BY <1>1, Invariance, PTL

\* What a step does to slot and flag: it takes or drops the flag, or stores a
\* session over one that is of no use, under the flag, or evicts one that is
\* then closed.
Keeps ==
  /\ session' = session
  /\ UNCHANGED inflight \/ (inflight /\ inflight' = FALSE) \/ (~inflight /\ inflight' = TRUE)
Stores == inflight /\ UNCHANGED inflight /\ session' \in Nat \ {0} /\ ~SessionUsable
Evicts == UNCHANGED inflight /\ session' = 0 /\ session \notin live'
SlotStep == Keeps \/ Stores \/ Evicts

\* Every step keeps the slot, stores into it or evicts what is closed.
LEMMA StepIsSlotStep ==
  ASSUME IInv, [Next]_vars
  PROVE  SlotStep
<1>1. ASSUME UNCHANGED <<cache, inflight>> PROVE SlotStep
  BY <1>1 DEF cache, SlotStep, Keeps
<1>2. ASSUME NEW d \in Dials, NEW class \in {"timeout", "other"}, Failed(d, class) PROVE SlotStep
  BY <1>2, FailedKeeps DEF cache, SlotStep, Keeps
<1>3. ASSUME Reset, UNCHANGED inflight PROVE SlotStep
  BY <1>3 DEF Reset, SlotStep, Evicts
<1>4. ASSUME NEW d \in Dials, NEW next \in {"fetch", "cancelled"}, LeaveWork(d, next),
             UNCHANGED <<cache, timeouts, tries, fault>>
      PROVE  SlotStep
  <2>1. next \in PcValues \ EstPc
    BY DEF PcValues, Work, GetPc, Final, EstPc
  <2>2. timeouts' \in Nat /\ tries' \in [Dials -> 0..1]
        /\ fault' \in [Dials -> {"none", "timeout", "other", "dead"}]
    BY <1>4 DEF IInv, TypeOK
  <2> QED BY <1>4, <2>1, <2>2, LeaveKeeps DEF SlotStep, Keeps, cache
<1>5. ASSUME NEW d \in Dials, Dial(d) PROVE SlotStep
  <2>1. CASE EstCas(d)
    BY <2>1 DEF EstCas, cache, SlotStep, Keeps, IInv, TypeOK
  <2>2. CASE Install(d)
    <3>1. inflight /\ own[d] # 0 /\ ~SessionUsable
      BY <2>2 DEF Install, IInv, Exclusive, Connecting, EstPc
    <3>2. own[d] \in Nat
      BY DEF IInv, TypeOK
    <3> QED BY <2>2, <3>1, <3>2 DEF Install, SlotStep, Stores
  <2>3. CASE ConnectOk(d)
    BY <2>3 DEF ConnectOk, SlotStep, Keeps
  <2>4. CASE EstCached(d) \/ EstLeave(d)
    BY <2>4, <1>1, <1>4 DEF EstCached, EstLeave
  <2>5. CASE Rebuild(d)
    BY <2>5, <1>3 DEF Rebuild
  <2>6. CASE AcquireTimeout(d) \/ ConnectFail(d) \/ StreamFail(d) \/ WorkTimeout(d)
    BY <2>6, <1>2 DEF AcquireTimeout, ConnectFail, StreamFail, WorkTimeout
  <2>7. CASE Fetch(d)
    BY <2>7, <1>1, <1>2 DEF Fetch
  <2>8. CASE \/ Acquire(d) \/ Lookup(d) \/ Subscribe(d) \/ Recheck(d) \/ OpenStream(d)
             \/ ReadReply(d) \/ CheckDead(d) \/ CountTimeout(d) \/ ClearTimeouts(d)
    BY <2>8, <1>1 DEF Acquire, Lookup, Subscribe, Recheck, OpenStream, ReadReply, CheckDead,
                      CountTimeout, ClearTimeouts
  <2> QED BY <1>5, <2>1, <2>2, <2>3, <2>4, <2>5, <2>6, <2>7, <2>8 DEF Dial
<1>6. CASE Environment
  <2>1. CASE Close
    BY <2>1, <1>3 DEF Close
  <2>2. CASE AgeOut \/ \E c \in live : ConnectionLost(c)
    BY <2>2 DEF AgeOut, ConnectionLost, SlotStep, Keeps
  <2>3. CASE \E d \in Dials : Cancel(d)
    BY <2>3, <1>4 DEF Cancel
  <2>4. ASSUME NEW c \in closing, CloseWatcher(c) PROVE SlotStep
    BY <2>4 DEF CloseWatcher, SlotStep, Keeps, Evicts, IInv, ClosingIsClosed
  <2> QED BY <1>6, <2>1, <2>2, <2>3, <2>4 DEF Environment
<1>7. CASE UNCHANGED vars
  BY <1>7, <1>1 DEF vars, cache
<1> QED BY <1>5, <1>6, <1>7 DEF Next

\* The RST session cache (establish, its Guard, reset_session and the close
\* watcher) implements the single-flight slot, for any number of dials.
THEOREM ImplementsSlot == Spec => SlotSpec
<1>1. Init => Slot!Init
  BY DEF Init, Slot!Init
<1>2. IInv /\ [Next]_vars => [Slot!Next]_<<session, inflight>>
  <2> SUFFICES ASSUME IInv, [Next]_vars PROVE [Slot!Next]_<<session, inflight>>
    OBVIOUS
  <2>1. CASE Keeps
    BY <2>1 DEF Keeps, Slot!Next, Slot!Begin, Slot!Finish
  <2>2. CASE Stores
    BY <2>2 DEF Stores, Slot!Next, Slot!Store
  <2>3. CASE Evicts
    BY <2>3 DEF Evicts, Slot!Next, Slot!Evict
  <2> QED BY <2>1, <2>2, <2>3, StepIsSlotStep DEF SlotStep
<1> QED BY <1>1, <1>2, Invariance, PTL DEF Spec, SlotSpec, Slot!Spec

\* No session that other dials could use is overwritten, and a live one leaves
\* the cache only by being closed, for any number of dials.
THEOREM LeavesForCause == Spec => SessionsLeaveForCause
<1> DEFINE Cause == /\ session' # session /\ session' # 0 => ~SessionUsable
                    /\ session' = 0 /\ session \in live => session \notin live'
<1>1. IInv /\ [Next]_vars => [Cause]_vars
  <2> SUFFICES ASSUME IInv, [Next]_vars PROVE Cause
    OBVIOUS
  <2>1. 0 \notin live
    BY DEF IInv, TypeOK
  <2> QED BY <2>1, StepIsSlotStep DEF SlotStep, Keeps, Stores, Evicts
<1> QED BY <1>1, Invariance, PTL DEF Spec, SessionsLeaveForCause
=============================================================================
