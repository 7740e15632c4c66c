------------------------------ MODULE WireGuard ------------------------------
(***************************************************************************)
(* The WireGuard outbound (wireguard_outbound.rs), which starts its tunnel  *)
(* with the first dial, and the tunnel (rsb-wireguard/src/lib.rs): one task *)
(* that moves packets between the TUN device, the noise state of each peer  *)
(* and one UDP socket.  The noise state is boringtun's Tunn: it holds       *)
(* packets back until its handshake is answered.  Messages may be lost,     *)
(* delayed and reordered, and a peer may move to another address.           *)
(***************************************************************************)
EXTENDS Integers, Sequences, FiniteSets

CONSTANTS
  Dials,       \* tasks that dial through the outbound
  Peers,       \* peers of the tunnel,
  Configured,  \* their configured endpoints, None in server mode,
  AllowedIps,  \* and their allowed_ips: sets of blocks [fam, addr, prefix]
  Addrs, None, \* addresses of peers on the network
  Dests,       \* destinations of packets: [fam, addr]
  MaxPackets,  \* packets read from the device
  MaxMoves,    \* moves of a peer
  MaxLosses    \* messages the network loses; another may stay under way for ever

VARIABLES
  dial, lock, started,   \* the dials, and WireGuardOutbound::started with its holder
  port, tasks, handle,   \* who has the UDP port; tunnel tasks alive; a stored handle
  closing, early,        \* the call of close; it found the tunnel not started
  refused,               \* the system refused the socket or the device
  tunn, queue, endpoint, \* per peer: PeerState
  where, seen,           \* per peer: its address, and those its packets came from
  net,                   \* messages under way
  routed, packets, moves, losses \* what was sent to whom, and the counters

outbound == <<dial, lock, started, port, tasks, handle, closing, early, refused>>
remote == <<where, moves, losses>>
vars == <<outbound, tunn, queue, endpoint, remote, seen, net, routed, packets>>

Free == "free"
\* Widths of the address families; a byte of the second has two bits.
Width == [v4 |-> 4, v6 |-> 6]
ByteBits == 2

Init ==
  /\ dial = [d \in Dials |-> "idle"] /\ lock = Free /\ started = FALSE
  /\ port = Free /\ tasks = 0 /\ handle = FALSE
  /\ closing = "no" /\ early = FALSE /\ refused = FALSE
  /\ tunn = [p \in Peers |-> "none"] /\ queue = [p \in Peers |-> <<>>]
  /\ endpoint = Configured /\ where \in [Peers -> Addrs]
  /\ seen = [p \in Peers |-> {}] /\ net = {} /\ routed = {} /\ packets = 0 /\ moves = 0 /\ losses = 0
-----------------------------------------------------------------------------
(* The outbound *)

SetDial(d, pc) == dial' = [dial EXCEPT ![d] = pc]
Tunnel == <<tunn, queue, endpoint, remote, seen, net, routed, packets>>

\* Mutant of EnsureStarted: the lock is not kept for the start.
EnsureStartedUnlocked(d) ==
  /\ dial[d] = "idle"
  /\ SetDial(d, IF started THEN "done" ELSE "start")
  /\ UNCHANGED <<lock, started, port, tasks, handle, closing, early, refused, Tunnel>>

\* ensure_started: the lock is held for the whole start.
EnsureStarted(d) ==
  /\ dial[d] = "idle" /\ lock = Free
  /\ IF started THEN SetDial(d, "done") /\ UNCHANGED lock
     ELSE SetDial(d, "start") /\ lock' = d
  /\ UNCHANGED <<started, port, tasks, handle, closing, early, refused, Tunnel>>

Unlocked(d) == IF lock = d THEN Free ELSE lock

\* WireGuardTunnel::start: the socket cannot be bound twice.
Bind(d) ==
  /\ dial[d] = "start"
  /\ \/ port = Free /\ port' = d /\ SetDial(d, "bound") /\ UNCHANGED <<lock, refused>>
     \/ /\ SetDial(d, "failed") /\ lock' = Unlocked(d)
        /\ refused' = (refused \/ port = Free) /\ UNCHANGED port
  /\ UNCHANGED <<started, tasks, handle, closing, early, Tunnel>>

CreateTun(d) ==
  /\ dial[d] = "bound"
  /\ \/ SetDial(d, "device") /\ UNCHANGED <<lock, port, refused>>
     \/ SetDial(d, "failed") /\ port' = Free /\ refused' = TRUE /\ lock' = Unlocked(d)
  /\ UNCHANGED <<started, tasks, handle, closing, early, Tunnel>>

\* The task subscribes to shutdown and runs, and then its handle is stored.
Spawn(d) ==
  /\ dial[d] = "device"
  /\ tasks' = tasks + 1 /\ SetDial(d, "spawned")
  /\ UNCHANGED <<lock, started, port, handle, closing, early, refused, Tunnel>>

Store(d) ==
  /\ dial[d] = "spawned"
  /\ handle' = TRUE /\ started' = TRUE /\ lock' = Unlocked(d) /\ SetDial(d, "done")
  /\ UNCHANGED <<port, tasks, closing, early, refused, Tunnel>>

\* Mutant of Shutdown: the outbound may start again.
ShutdownResets ==
  /\ closing = "no"
  /\ closing' = "sent" /\ early' = ~started /\ started' = FALSE
  /\ tasks' = 0 /\ port' = IF tasks > 0 THEN Free ELSE port
  /\ UNCHANGED <<dial, lock, handle, refused, Tunnel>>

\* close: shutdown reaches the tasks that subscribed; then the handle, if it is
\* there by now, is aborted.
Shutdown ==
  /\ closing = "no"
  /\ closing' = "sent" /\ early' = ~started
  /\ tasks' = 0 /\ port' = IF tasks > 0 THEN Free ELSE port
  /\ UNCHANGED <<dial, lock, started, handle, refused, Tunnel>>

Abort ==
  /\ closing = "sent"
  /\ closing' = "closed" /\ handle' = FALSE
  /\ tasks' = IF handle THEN 0 ELSE tasks
  /\ port' = IF handle /\ tasks > 0 THEN Free ELSE port
  /\ UNCHANGED <<dial, lock, started, early, refused, Tunnel>>
-----------------------------------------------------------------------------
(* Routing by allowed_ips *)

\* Mutant of Ipv6Match: the bits of the last byte are not compared.
Ipv6MatchBytes(n, a, prefix) ==
  LET byte(x, i) == (x \div 2^(Width["v6"] - ByteBits * i)) % 2^ByteBits IN
  \A i \in 1..prefix \div ByteBits : byte(n, i) = byte(a, i)

\* Whole bytes, and the leading bits of the next one.
Ipv6Match(n, a, prefix) ==
  LET byte(x, i) == (x \div 2^(Width["v6"] - ByteBits * i)) % 2^ByteBits
      full == prefix \div ByteBits
      rem == prefix % ByteBits IN
  /\ \A i \in 1..full : byte(n, i) = byte(a, i)
  /\ rem > 0 => byte(n, full + 1) \div 2^(ByteBits - rem) = byte(a, full + 1) \div 2^(ByteBits - rem)

\* The words under the mask of the prefix.
Ipv4Match(n, a, prefix) ==
  LET rest == IF prefix >= Width["v4"] THEN 1 ELSE 2^(Width["v4"] - prefix) IN
  n \div rest = a \div rest

Contains(c, dest) ==
  /\ c.fam = dest.fam
  /\ IF c.fam = "v4" THEN Ipv4Match(c.addr, dest.addr, c.prefix)
     ELSE Ipv6Match(c.addr, dest.addr, c.prefix)

\* The peers whose blocks hold the destination; the map yields one of them.
Matching(dest) == {p \in Peers : \E c \in AllowedIps[p] : Contains(c, dest)}
-----------------------------------------------------------------------------
(* The task *)

Running == tasks > 0
Msg(kind, peer, from, to) == [kind |-> kind, peer |-> peer, from |-> from, to |-> to]
Send(kind, p, to) == Msg(kind, p, "self", to)

\* Mutant of DrainTunn: only the timers are served.
DrainTunnTimers(p, tn, q, ep) ==
  [queue |-> q, msgs |-> IF tn = "waiting" THEN {Send("init", p, ep)} ELSE {}]

\* Held packets go out once there is a session, and a handshake without an
\* answer is sent again.
DrainTunn(p, tn, q, ep) ==
  IF tn = "session" THEN [queue |-> <<>>, msgs |-> IF q = <<>> THEN {} ELSE {Send("data", p, ep)}]
  ELSE [queue |-> q, msgs |-> IF tn = "waiting" THEN {Send("init", p, ep)} ELSE {}]

\* encapsulate holds a packet back without a session, and starts the handshake.
EncapsulateToPeer(p, dest, ep) ==
  IF tunn[p] = "session"
  THEN net' = net \cup {Send("data", p, ep)} /\ UNCHANGED <<tunn, queue>>
  ELSE /\ queue' = [queue EXCEPT ![p] = Append(@, dest)]
       /\ tunn' = [tunn EXCEPT ![p] = "waiting"]
       /\ net' = IF tunn[p] = "none" THEN net \cup {Send("init", p, ep)} ELSE net

\* A packet from the device goes to a matching peer that has an endpoint.
TunRead(dest) ==
  /\ Running /\ packets < MaxPackets /\ packets' = packets + 1
  /\ \/ Matching(dest) = {} /\ UNCHANGED <<tunn, queue, net, routed>>
     \/ \E p \in Matching(dest) :
          IF endpoint[p] = None THEN UNCHANGED <<tunn, queue, net, routed>>
          ELSE /\ routed' = routed \cup {[peer |-> p, dest |-> dest]}
               /\ EncapsulateToPeer(p, dest, endpoint[p])
  /\ UNCHANGED <<outbound, endpoint, remote, seen>>

\* Every second each peer with an endpoint is drained.
Tick ==
  /\ Running
  /\ LET has == {p \in Peers : endpoint[p] # None}
         out(p) == DrainTunn(p, tunn[p], queue[p], endpoint[p]) IN
     /\ queue' = [p \in Peers |-> IF p \in has THEN out(p).queue ELSE queue[p]]
     /\ net' = net \cup UNION {out(p).msgs : p \in has}
  /\ UNCHANGED <<outbound, tunn, endpoint, remote, seen, routed, packets>>

\* Tunn::decapsulate: a peer opens what was sealed for it and fits its state.
Opens(p, m) ==
  /\ m.peer = p
  /\ CASE m.kind = "init" -> TRUE
       [] m.kind = "resp" -> tunn[p] = "waiting"
       [] m.kind = "data" -> tunn[p] = "session"

\* Mutant of Recv: every peer's endpoint follows the datagram.
RecvAll(m) ==
  /\ Running /\ m \in net /\ m.to = "self"
  /\ \E p \in Peers : Opens(p, m)
  /\ endpoint' = [q \in Peers |-> m.from]
  /\ seen' = [seen EXCEPT ![m.peer] = @ \cup {m.from}]
  /\ tunn' = [tunn EXCEPT ![m.peer] = "session"]
  /\ net' = net \ {m}
  /\ UNCHANGED <<outbound, queue, remote, routed, packets>>

\* What a peer that opens a datagram does with it: it answers and is drained.
HandleDatagram(p, m) ==
  LET out == DrainTunn(p, "session", queue[p], m.from) IN
  /\ Opens(p, m)
  /\ tunn' = [tunn EXCEPT ![p] = "session"]
  /\ queue' = [queue EXCEPT ![p] = out.queue]
  /\ net' = (net \ {m}) \cup out.msgs
            \cup IF m.kind = "init" THEN {Send("resp", p, m.from)} ELSE {}

\* A datagram: the first peer that opens it takes it, and is found at its source
\* from now on.
Recv(m) ==
  /\ Running /\ m \in net /\ m.to = "self"
  /\ \/ /\ \A p \in Peers : ~Opens(p, m)
        /\ net' = net \ {m}
        /\ UNCHANGED <<tunn, queue, endpoint, seen>>
     \/ \E p \in Peers :
          /\ HandleDatagram(p, m)
          /\ endpoint' = [endpoint EXCEPT ![p] = m.from]
          /\ seen' = [seen EXCEPT ![p] = @ \cup {m.from}]
  /\ UNCHANGED <<outbound, remote, routed, packets>>
-----------------------------------------------------------------------------
(* Network and peers *)

\* A message reaches the peer if it still is where it was sent to.
PeerReceives(m) ==
  /\ m \in net /\ m.to # "self"
  /\ net' = IF m.to = where[m.peer] /\ m.kind = "init"
            THEN (net \ {m}) \cup {Msg("resp", m.peer, m.to, "self")} ELSE net \ {m}
  /\ UNCHANGED <<outbound, tunn, queue, endpoint, remote, seen, routed, packets>>

\* A peer starts a handshake or sends data, perhaps from a new address.
PeerSends(p) ==
  /\ moves < MaxMoves /\ moves' = moves + 1
  /\ \E a \in Addrs, k \in {"init", "data"} :
       where' = [where EXCEPT ![p] = a] /\ net' = net \cup {Msg(k, p, a, "self")}
  /\ UNCHANGED <<losses, outbound, tunn, queue, endpoint, seen, routed, packets>>

Lose(m) ==
  /\ losses < MaxLosses /\ losses' = losses + 1
  /\ m \in net /\ net' = net \ {m}
  /\ UNCHANGED <<outbound, tunn, queue, endpoint, where, moves, seen, routed, packets>>

Next ==
  \/ \E d \in Dials : EnsureStarted(d) \/ Bind(d) \/ CreateTun(d) \/ Spawn(d) \/ Store(d)
  \/ Shutdown \/ Abort \/ Tick
  \/ \E dest \in Dests : TunRead(dest)
  \/ \E m \in net : Recv(m) \/ PeerReceives(m) \/ Lose(m)
  \/ \E p \in Peers : PeerSends(p)

\* For fairness: the handshake of a peer is delivered to it, and its answer here.
InitArrives(p) == \E m \in net : m.kind = "init" /\ m.peer = p /\ m.to = where[p] /\ PeerReceives(m)
AnswerArrives(p) == \E m \in net : m.kind = "resp" /\ m.peer = p /\ Recv(m)

\* The interval ticks, and a message that is not lost arrives.
Spec ==
  /\ Init /\ [][Next]_vars /\ WF_vars(Tick)
  /\ \A p \in Peers : WF_vars(InitArrives(p)) /\ WF_vars(AnswerArrives(p))
-----------------------------------------------------------------------------
(* Properties *)

TypeOK ==
  /\ dial \in [Dials -> {"idle", "start", "bound", "device", "spawned", "done", "failed"}]
  /\ lock \in Dials \cup {Free} /\ port \in Dials \cup {Free} /\ tasks \in 0..Cardinality(Dials)
  /\ closing \in {"no", "sent", "closed"} /\ tunn \in [Peers -> {"none", "waiting", "session"}]
  /\ endpoint \in [Peers -> Addrs \cup {None}] /\ where \in [Peers -> Addrs]
  /\ \A p \in Peers : Len(queue[p]) <= MaxPackets

\* Dials that come together share one tunnel: none of them fails because another
\* is starting it, only when the system refuses the socket or the device
\* (ensure_started keeps its lock for the whole start).
DialsShareTunnel == \A d \in Dials : dial[d] = "failed" => refused

\* A tunnel that had started when close was called is gone for good once close
\* returns: no later dial brings it back (started stays set).
ClosedStaysClosed == closing = "closed" /\ ~early => tasks = 0

\* Packets and answers for a peer go to its configured endpoint or to an address
\* that this peer, and no other, has sent from (the endpoint update in the
\* receive branch of start).
EndpointIsPeers ==
  \A p \in Peers : endpoint[p] \in {Configured[p]} \cup seen[p]

\* A packet goes to a peer one of whose blocks has the destination's leading
\* bits (ipv4_match, ipv6_match).
Bit(x, w, i) == (x \div 2^(w - i)) % 2
SentIsAllowed ==
  \A s \in routed : \E c \in AllowedIps[s.peer] :
    LET w == Width[c.fam] IN
    c.fam = s.dest.fam /\ \A i \in 1..c.prefix : Bit(c.addr, w, i) = Bit(s.dest.addr, w, i)

\* A packet that waits for a handshake with a peer that is where its endpoint
\* says goes out, as long as the tunnel runs, the peer stays, and not every
\* retransmission is lost (drain_tunn on every tick and every datagram).
Held(p) == queue[p] # <<>> /\ endpoint[p] = where[p]
Excused(p) == queue[p] = <<>> \/ endpoint[p] # where[p] \/ ~Running
HeldPacketsGo == \A p \in Peers : Held(p) ~> Excused(p)
-----------------------------------------------------------------------------
(* Inductive invariant of the outbound *)

Starting == {"start", "bound", "device", "spawned"}

\* A dial that starts the tunnel has the lock and found it not started, only
\* it may have the port until then, and after a close that found the tunnel
\* started nothing runs.
IInv ==
  /\ dial \in [Dials -> Starting \cup {"idle", "done", "failed"}]
  /\ \A d \in Dials : dial[d] \in Starting => lock = d /\ ~started
  /\ started \/ port = Free \/ \E d \in Dials : dial[d] \in Starting \ {"start"}
  /\ closing \in {"no", "sent", "closed"}
  /\ closing # "no" /\ ~early => started /\ tasks = 0
  /\ DialsShareTunnel
=============================================================================
