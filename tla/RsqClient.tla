----------------------------- MODULE RsqClient -----------------------------
(***************************************************************************)
(* The session cache of the RSQ outbound (rsq/client.rs): one cached QUIC   *)
(* session shared by concurrent TCP and UDP dials, a single-flight connect  *)
(* guarded by connect_inflight, a background prober that resets and rewarms *)
(* the session, and one close watcher per connection.                       *)
(*                                                                         *)
(* A connection is named by the generation of the attempt that made it: the *)
(* counter only grows, so no two attempts share one.  0 is "no session".    *)
(***************************************************************************)
EXTENDS Integers, FiniteSets

CONSTANTS
  TcpDials,    \* dial_tcp calls that need a dial permit
  DnsDials,    \* dial_tcp calls to port 53, which need none
  UdpDials,    \* dial_udp calls
  Rounds,      \* the sets of dials that are made, with Prober when probes come due;
               \* the other dials are dropped at once
  Prober,      \* the probe task started by the first get_connection
  DialPermits, \* DEFAULT_DIAL_CONCURRENCY
  MaxProbes    \* bound on the number of probes

Dials == TcpDials \cup DnsDials \cup UdpDials
Procs == Dials \cup {Prober}

ASSUME ProberAssumption == Prober \notin Dials
ASSUME KindsAssumption == UdpDials \cap (TcpDials \cup DnsDials) = {}
ASSUME BoundsAssumption == DialPermits \in Nat /\ MaxProbes \in Nat

VARIABLES
  session,     \* the cached session, 0 when None
  generation,  \* shared.generation
  inflight,    \* shared.connect_inflight
  aged,        \* the cached session is older than max_session_age
  live,        \* authenticated connections with no close_reason
  closing,     \* closed connections whose close watcher has not run yet
  pc, own,     \* per task: where it is, and the session or attempt it holds
  tries,       \* per dial: retries already spent
  fails,       \* consecutive_probe_fails
  probes,      \* probes made so far
  cut,         \* history: dials whose session reset_session took from them
  rewarmed     \* history: the prober has run establish_session

cache == <<session, generation, aged, live, closing>>
probing == <<fails, probes, rewarmed>>
vars == <<cache, inflight, pc, own, tries, cut, probing>>

GetPc == {"get", "cas", "subscribe", "wait"}
EstPc == {"est", "estreset", "estbump", "connect", "install", "estcheck"}
StreamPc == {"got", "open", "reply", "verify"}
Final == {"ok", "err", "cancelled"}
DialPc == {"start", "retryreset"} \cup GetPc \cup EstPc \cup StreamPc \cup Final
ProbePc == {"sleep", "probe", "probereset"} \cup EstPc

TypeOK ==
  /\ generation \in Nat
  /\ session \in 0..generation
  /\ aged \in BOOLEAN
  /\ live \in SUBSET (1..generation)
  /\ closing \in SUBSET (1..generation)
  /\ inflight \in BOOLEAN
  /\ pc \in [Procs -> DialPc \cup ProbePc]
  /\ own \in [Procs -> 0..generation]
  /\ tries \in [Dials -> 0..1]
  /\ cut \in SUBSET Dials
  /\ fails \in 0..1
  /\ probes \in 0..MaxProbes
  /\ rewarmed \in BOOLEAN

Init ==
  /\ session = 0 /\ generation = 0 /\ aged = FALSE
  /\ live = {} /\ closing = {}
  /\ inflight = FALSE
  /\ own = [p \in Procs |-> 0]
  /\ tries = [d \in Dials |-> 0]
  /\ cut = {}
  /\ fails = 0 /\ rewarmed = FALSE
  /\ \E D \in Rounds :
       /\ pc = [p \in Procs |-> IF p = Prober THEN "sleep" ELSE IF p \in D THEN "start" ELSE "cancelled"]
       /\ probes = IF Prober \in D THEN 0 ELSE MaxProbes
-----------------------------------------------------------------------------
(* Shared helpers. *)

\* session_is_usable of the cached session: not closed and not too old.
SessionUsable == session \in live /\ ~aged

\* Mutant of Reset: bumps the generation even when nothing is cached.
ResetAlwaysBumps ==
  /\ session' = 0
  /\ generation' = generation + 1
  /\ aged' = FALSE
  /\ live' = live \ {session}
  /\ closing' = closing \cup (live \cap {session})
  /\ cut' = cut \cup {d \in Dials : session # 0 /\ own[d] = session}

\* reset_session: take the cached session, bump the generation, close it.
Reset ==
  \/ session = 0 /\ UNCHANGED <<cache, cut>>
  \/ /\ session # 0
     /\ session' = 0
     /\ generation' = generation + 1
     /\ aged' = FALSE
     /\ live' = live \ {session}
     /\ closing' = closing \cup (live \cap {session})
     /\ cut' = cut \cup {d \in Dials : own[d] = session}

\* Task p moves on holding connection c (0: none); nobody else is woken.
Goto(p, next, c) ==
  /\ pc' = [pc EXCEPT ![p] = next]
  /\ own' = [own EXCEPT ![p] = c]

\* ConnectGuard::drop: clear connect_inflight and wake the tasks that are
\* already waiting on connect_notify (notify_waiters stores no permit).
DropGuard(p, next, c) ==
  /\ inflight' = FALSE
  /\ pc' = [q \in Procs |-> IF q = p THEN next
                            ELSE IF pc[q] = "wait" THEN "get" ELSE pc[q]]
  /\ own' = [own EXCEPT ![p] = c]

\* Leave establish_session: a dial holds the guard, the prober does not.
LeaveEstablish(p, next, c) ==
  IF p = Prober THEN Goto(p, "sleep", 0) /\ UNCHANGED inflight ELSE DropGuard(p, next, c)

\* Whether dial_tcp or dial_udp retries after an error of the given class.
\* "fast": should_fail_fast_without_retry; "reset": should_reset_rsq_session.
Retries(d, class) == tries[d] = 0 /\ (d \in UdpDials \/ class = "reset")
AfterError(p, class) == IF p # Prober /\ Retries(p, class) THEN "retryreset" ELSE "err"
CountTry(p, class) ==
  tries' = IF AfterError(p, class) = "retryreset" THEN [tries EXCEPT ![p] = 1] ELSE tries

HoldsPermit(d) == pc[d] \in GetPc \cup EstPc \cup StreamPc
PermitFree == Cardinality({e \in TcpDials : HoldsPermit(e)}) < DialPermits
-----------------------------------------------------------------------------
(* get_connection *)

\* dial_tcp_inner takes a dial permit unless the port is 53.
Acquire(d) ==
  /\ pc[d] = "start"
  /\ d \in TcpDials => PermitFree
  /\ Goto(d, "get", 0)
  /\ UNCHANGED <<cache, inflight, tries, cut, probing>>

\* "rsq: dial queue timeout": fails fast.
AcquireTimeout(d) ==
  /\ pc[d] = "start" /\ d \in TcpDials /\ ~PermitFree
  /\ Goto(d, "err", 0)
  /\ UNCHANGED <<cache, inflight, tries, cut, probing>>

GetCached(d) ==
  /\ pc[d] = "get"
  /\ IF SessionUsable THEN Goto(d, "got", session) ELSE Goto(d, "cas", 0)
  /\ cut' = cut \ {d}
  /\ UNCHANGED <<cache, inflight, tries, probing>>

\* Mutant of GetCas: stores the flag without testing it.
GetCasBlind(d) ==
  /\ pc[d] = "cas"
  /\ Goto(d, "est", 0)
  /\ inflight' = TRUE
  /\ UNCHANGED <<cache, tries, cut, probing>>

\* compare_exchange on connect_inflight.
GetCas(d) ==
  /\ pc[d] = "cas"
  /\ Goto(d, IF inflight THEN "subscribe" ELSE "est", 0)
  /\ inflight' = TRUE
  /\ UNCHANGED <<cache, tries, cut, probing>>

\* connect_notify.notified() is created only now, after the failed exchange.
GetSubscribe(d) ==
  /\ pc[d] = "subscribe"
  /\ Goto(d, "wait", 0)
  /\ UNCHANGED <<cache, inflight, tries, cut, probing>>

\* Mutant of WaitTimeout: waits on connect_notify without a timeout.
WaitForever(d) == FALSE /\ UNCHANGED vars

\* CONNECT_WAIT_TIMEOUT: "wait for session connect timed out".
WaitTimeout(d) ==
  /\ pc[d] = "wait"
  /\ Goto(d, AfterError(d, "fast"), 0)
  /\ CountTry(d, "fast")
  /\ UNCHANGED <<cache, inflight, cut, probing>>
-----------------------------------------------------------------------------
(* establish_session, run by a dial under the guard or by the prober. *)

EstCached(p) ==
  /\ pc[p] = "est"
  /\ IF SessionUsable THEN LeaveEstablish(p, "got", session)
     ELSE Goto(p, "estreset", 0) /\ UNCHANGED inflight
  /\ cut' = cut \ {p}
  /\ UNCHANGED <<cache, tries, probing>>

EstReset(p) ==
  /\ pc[p] = "estreset"
  /\ Reset
  /\ Goto(p, "estbump", 0)
  /\ UNCHANGED <<inflight, tries, probing>>

\* Mutant of EstBump: computes the next generation without storing it.
EstBumpUnstored(p) ==
  /\ pc[p] = "estbump"
  /\ Goto(p, "connect", generation + 1)
  /\ UNCHANGED <<cache, inflight, tries, cut, probing>>

EstBump(p) ==
  /\ pc[p] = "estbump"
  /\ generation' = generation + 1
  /\ Goto(p, "connect", generation + 1)
  /\ UNCHANGED <<session, aged, live, closing, inflight, tries, cut, probing>>

\* connect_session succeeds, authentication included, and the close watcher
\* is spawned; the ping and demux tasks keep the connection alive from here.
ConnectOk(p) ==
  /\ pc[p] = "connect"
  /\ live' = live \cup {own[p]}
  /\ Goto(p, "install", own[p])
  /\ UNCHANGED <<session, generation, aged, closing, inflight, tries, cut, probing>>

\* establish_session fails with an error of the given class.
EstFail(p, class) ==
  /\ LeaveEstablish(p, AfterError(p, class), 0)
  /\ CountTry(p, class)
  /\ UNCHANGED <<cache, cut, probing>>

ConnectFail(p) ==
  /\ pc[p] = "connect"
  /\ \E class \in {"reset", "other"} : EstFail(p, class)

\* The new session overwrites whatever is cached.
Install(p) ==
  /\ pc[p] = "install"
  /\ session' = own[p]
  /\ aged' = FALSE
  /\ Goto(p, "estcheck", 0)
  /\ UNCHANGED <<generation, live, closing, inflight, tries, cut, probing>>

\* Return the cached session, or "rsq: session lost after establish".
EstCheck(p) ==
  /\ pc[p] = "estcheck"
  /\ \/ /\ SessionUsable
        /\ LeaveEstablish(p, "got", session)
        /\ cut' = cut \ {p}
        /\ UNCHANGED <<cache, tries, probing>>
     \/ ~SessionUsable /\ EstFail(p, "other")

Establish(p) ==
  \/ EstCached(p) \/ EstReset(p) \/ EstBump(p)
  \/ ConnectOk(p) \/ ConnectFail(p) \/ Install(p) \/ EstCheck(p)
-----------------------------------------------------------------------------
(* dial_tcp, dial_udp *)

\* dial_udp needs only a session whose server relays UDP; dial_tcp_inner checks
\* the session's generation.
GotSession(d) ==
  /\ pc[d] = "got"
  /\ IF d \in UdpDials THEN \E udpEnabled \in BOOLEAN : Goto(d, IF udpEnabled THEN "ok" ELSE "err", 0)
     ELSE IF own[d] = generation THEN Goto(d, "open", own[d]) ELSE Goto(d, "err", 0)
  /\ UNCHANGED <<cache, inflight, tries, cut, probing>>

\* open_bi, then the generation again before TCP_OPEN is written.
OpenStream(d) ==
  /\ pc[d] = "open"
  /\ own[d] \in live
  /\ IF own[d] = generation THEN Goto(d, "reply", own[d]) ELSE Goto(d, "err", 0)
  /\ UNCHANGED <<cache, inflight, tries, cut, probing>>

\* The TCP_OPEN reply arrives; the generation is checked once more after it.
ReadReply(d) ==
  /\ pc[d] = "reply"
  /\ own[d] \in live
  /\ Goto(d, "verify", own[d])
  /\ UNCHANGED <<cache, inflight, tries, cut, probing>>

\* Mutant of VerifyReply: trusts the check made before the reply was read.
VerifyNothing(d) ==
  /\ pc[d] = "verify"
  /\ Goto(d, "ok", 0)
  /\ UNCHANGED <<cache, inflight, tries, cut, probing>>

VerifyReply(d) ==
  /\ pc[d] = "verify"
  /\ Goto(d, IF own[d] = generation THEN "ok" ELSE "err", 0)
  /\ UNCHANGED <<cache, inflight, tries, cut, probing>>

\* The stream cannot be opened (its error is hidden behind the context "open
\* rsq stream", so it resets nothing), or no acceptable reply arrives.
StreamFail(d) ==
  /\ \E class \in {"reset", "other"} :
       /\ pc[d] = "reply" \/ (pc[d] = "open" /\ class = "other")
       /\ Goto(d, AfterError(d, class), 0)
       /\ CountTry(d, class)
  /\ UNCHANGED <<cache, inflight, cut, probing>>

\* The one retry: reset whatever session is cached now and dial again.
RetryReset(d) ==
  /\ pc[d] = "retryreset"
  /\ Reset
  /\ Goto(d, "start", 0)
  /\ UNCHANGED <<inflight, tries, probing>>

\* The caller's timeout drops the dial future at an await.  The permit goes
\* with it, and the guard if the dial was establishing.  A connection that is
\* authenticated but not yet stored stays open: its tasks were spawned.
Cancel(d) ==
  /\ pc[d] \in {"start", "retryreset", "get", "wait", "est", "estreset", "connect",
                "install", "estcheck", "open", "reply"}
  /\ IF pc[d] \in EstPc THEN DropGuard(d, "cancelled", 0)
     ELSE Goto(d, "cancelled", 0) /\ UNCHANGED inflight
  /\ UNCHANGED <<cache, tries, cut, probing>>

Dial(d) ==
  \/ Acquire(d) \/ AcquireTimeout(d) \/ GetCached(d) \/ GetCas(d) \/ GetSubscribe(d)
  \/ WaitTimeout(d) \/ Establish(d) \/ GotSession(d) \/ OpenStream(d) \/ ReadReply(d)
  \/ VerifyReply(d) \/ StreamFail(d) \/ RetryReset(d)
-----------------------------------------------------------------------------
(* The probe loop, the close watchers, and the environment. *)

\* The loop runs once some get_connection has started it.
ProbePick ==
  /\ pc[Prober] = "sleep"
  /\ \E d \in Dials : pc[d] # "start"
  /\ probes < MaxProbes
  /\ probes' = probes + 1
  /\ IF SessionUsable THEN Goto(Prober, "probe", session) /\ UNCHANGED fails
     ELSE Goto(Prober, "sleep", 0) /\ fails' = 0
  /\ UNCHANGED <<cache, inflight, tries, cut, rewarmed>>

ProbeOk ==
  /\ pc[Prober] = "probe"
  /\ own[Prober] \in live
  /\ fails' = 0
  /\ Goto(Prober, "sleep", 0)
  /\ UNCHANGED <<cache, inflight, tries, cut, probes, rewarmed>>

\* open_bi timed out: reset and rewarm at once.
ProbeTimeout ==
  /\ pc[Prober] = "probe"
  /\ fails' = 0
  /\ Goto(Prober, "probereset", 0)
  /\ UNCHANGED <<cache, inflight, tries, cut, probes, rewarmed>>

\* open_bi failed: reset and rewarm at the second failure in a row.
ProbeFailed ==
  /\ pc[Prober] = "probe"
  /\ fails' = (fails + 1) % 2
  /\ Goto(Prober, IF fails = 1 THEN "probereset" ELSE "sleep", 0)
  /\ UNCHANGED <<cache, inflight, tries, cut, probes, rewarmed>>

\* Resets the session that is cached now, then runs establish_session
\* without taking connect_inflight.
ProbeReset ==
  /\ pc[Prober] = "probereset"
  /\ Reset
  /\ rewarmed' = TRUE
  /\ Goto(Prober, "est", 0)
  /\ UNCHANGED <<inflight, tries, fails, probes>>

Probe == ProbePick \/ ProbeOk \/ ProbeTimeout \/ ProbeFailed \/ ProbeReset \/ Establish(Prober)

\* Mutant of CloseWatcher: clears the cache without comparing the session.
CloseWatcherBlind(c) ==
  /\ c \in closing
  /\ closing' = closing \ {c}
  /\ session' = 0
  /\ aged' = FALSE
  /\ UNCHANGED <<generation, live, inflight, pc, own, tries, cut, probing>>

\* spawn_close_watcher: clears the cache only if it still holds this session.
CloseWatcher(c) ==
  /\ c \in closing
  /\ closing' = closing \ {c}
  /\ session' = IF session = c THEN 0 ELSE session
  /\ aged' = (aged /\ session # c)
  /\ UNCHANGED <<generation, live, inflight, pc, own, tries, cut, probing>>

\* Outbound::close.
Close ==
  /\ session # 0
  /\ Reset
  /\ UNCHANGED <<inflight, pc, own, tries, probing>>

\* The peer, the idle timeout or the ping loop closes a connection.
ConnectionLost(c) ==
  /\ c \in live
  /\ live' = live \ {c}
  /\ closing' = closing \cup {c}
  /\ UNCHANGED <<session, generation, aged, inflight, pc, own, tries, cut, probing>>

\* The cached session reaches max_session_age.
AgeOut ==
  /\ session \in live /\ ~aged
  /\ aged' = TRUE
  /\ UNCHANGED <<session, generation, live, closing, inflight, pc, own, tries, cut, probing>>

Environment ==
  \/ Close \/ AgeOut
  \/ \E d \in Dials : Cancel(d)
  \/ \E c \in closing : CloseWatcher(c)
  \/ \E c \in live : ConnectionLost(c)

Next == Probe \/ Environment \/ \E d \in Dials : Dial(d)

\* Every wait of a dial ends: by progress, by an error or by a timeout.
Fairness == \A d \in Dials : WF_vars(Dial(d))

Spec == Init /\ [][Next]_vars /\ Fairness
-----------------------------------------------------------------------------
(* Properties *)

\* Single-flight connect: connect_inflight is set exactly while one dial runs
\* establish_session, and never two do (ConnectGuard in get_connection).
Establishing == {d \in Dials : pc[d] \in EstPc}
ConnectExclusive ==
  /\ inflight <=> Establishing # {}
  /\ \A d, e \in Establishing : d = e

\* A generation-stale session is cached only after the prober has rewarmed:
\* on the dial path alone the cached session is always the newest attempt, so
\* "session generation expired" cannot persist.
StaleOnlyAfterRewarm == ~rewarmed /\ session # 0 => session = generation

\* reset_session cuts off the dials that hold the session it takes: none of
\* them returns a stream on the closed connection (generation_still_current).
NoStreamOnResetSession ==
  [][\A d \in TcpDials \cup DnsDials : pc[d] # "ok" /\ pc'[d] = "ok" => d \notin cut]_vars

\* The late close event of an earlier connection never evicts the session that
\* replaced it: the cache gives up a live session only by closing it.
LiveSessionEvictedOnlyByReset ==
  [][session' = 0 /\ session \in live => session \notin live']_vars

\* Every dial ends, whatever the network, the prober or close() do: no wait on
\* connect_notify is endless even when its wake-up was missed.
AllDialsEnded == \A d \in Dials : pc[d] \in Final
DialsTerminate == <>AllDialsEnded

\* What the probe loop says of a timed-out probe, "reset and rebuild": once
\* nobody is establishing or resetting, the session the cache hands out is one
\* a dial accepts.  Broken when a rewarm and a dial's connect overlap: the
\* older attempt is stored last, and every dial then fails fast on it.
RebuiltSessionDialable ==
  ~inflight /\ pc[Prober] = "sleep" /\ SessionUsable => session = generation

\* What reset_session's comment says, "Dropping session closes the Endpoint and
\* releases the local UDP socket": an authenticated connection is open only
\* while it is cached or about to be.  Broken when Install drops a session by
\* overwriting it, or a dial is cancelled before it stores its session: the
\* ping, demux and watcher tasks still hold the connection.
DroppedSessionCloses ==
  \A c \in live : c = session \/ \E p \in Procs : pc[p] = "install" /\ own[p] = c
=============================================================================
