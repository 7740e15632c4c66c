---------------------------- MODULE MCOutbounds ----------------------------
(***************************************************************************)
(* The outbounds and what they speak: the groups, the dials of an RSQ       *)
(* client with several sets of them in one run (two that compete for a      *)
(* permit, two that compete for the connect), UDP over RSQ, RST and         *)
(* Hysteria2, pooled connections, VMess, WireGuard and Tailscale, with the  *)
(* proofs about the fallback group, the UDP relays and the shared           *)
(* connections and tunnels.                                                 *)
(* One run checks several components that share no state: a behaviour is    *)
(* one of the component that part names.  The components proved about have  *)
(* variables and constants of their own; the others are on the instance     *)
(* given here, and the variables v1, v2, ... hold the state of the one      *)
(* that runs.                                                               *)
(***************************************************************************)
EXTENDS Fallback, Sequences, FiniteSetTheorems, TLAPS

CONSTANTS
  Sockets, Sessions, QueueCap, MaxNet,   \* of UDP over RSQ
  Ids, Tasks, Socks,                     \* of UDP over RST and Hysteria2
  DialTasks, Api, Rounds, GroupSize, MaxDelay,
                                         \* of a urltest group, with Tasks
  Kinds, PoolDials, Users, Credentials, PoolDests, MaxConns,
                                         \* of pooled connections
  Peers, Configured, AllowedIps, Addrs, NoAddr, Dests, MaxPackets, MaxMoves, MaxLosses
                                         \* of WireGuard, with DialTasks

\* Tasks and sockets are finitely many, a queue has a capacity, 0 is no
\* identifier, and no dial is called what a lock is when nobody has it.
ASSUME FiniteAssumption == IsFiniteSet(Tasks) /\ IsFiniteSet(Socks)
ASSUME QueueAssumption == QueueCap \in Nat
ASSUME IdentifierAssumption ==
  0 \notin Ids /\ 0 \notin Socks /\ Sockets # {} /\ Sessions \subseteq Nat \ {0}
ASSUME DialsAssumption == 0 \notin Tasks /\ "free" \notin DialTasks \cup PoolDials

\* The outbounds of the run: two TUIC users and a dial with the password of
\* the other; two WireGuard peers, one of them without an endpoint.
TuicUsers == {[uuid |-> "u", password |-> "p"], [uuid |-> "v", password |-> "q"]}
TuicCredentials == {[uuid |-> "u", password |-> "p"], [uuid |-> "u", password |-> "q"]}
TuicDests == {[fam |-> "v4", port |-> 1]}
WgConfigured == [p |-> "a", q |-> "none"]
WgAllowedIps ==
  [p |-> {[fam |-> "v4", addr |-> 8, prefix |-> 2]},
   q |-> {[fam |-> "v6", addr |-> 40, prefix |-> 3]}]
WgDests ==
  {[fam |-> "v4", addr |-> 10], [fam |-> "v6", addr |-> 41], [fam |-> "v6", addr |-> 36]}

VARIABLES
  part,  \* the component that runs
  conn, socket, demux, rsqInbox, c2s, s2c, rsqSessions, sess, rsqRelay,
  answers, late,
  proto, up, sock, readers, inbox, task, tid, using, sessions, owner, relay,
  asked, back,
  prober, run, delays, selected, urlPc, raced,
  kind, cred, lock, cached, conns, live, dial, refused, hit, served, closed,
  wgDial, wgLock, started, port, tasks, handle, closing, early, wgRefused,
  tunn, queue, endpoint, where, seen, net, routed, packets, moves, losses,
  v1, v2, v3, v4, v5, v6, v7, v8, v9, v10, v11, v12, v13, v14, v15, v16, v17  \* of the others

\* The registers from the n-th on, which a component with fewer does not use.
from17 == <<v17>>
from14 == <<v14, v15, v16, from17>>
from1 == <<v1, v2, v3, v4, v5, v6, v7, v8, v9, v10, v11, v12, v13, from14>>
\* The first n registers.
first13 == <<v1, v2, v3, v4, v5, v6, v7, v8, v9, v10, v11, v12, v13>>
first17 == <<first13, v14, v15, v16, v17>>
\* The registers from the n-th on while they are not used.
Idle17 == v17 = "idle"
Idle14 == v14 = "idle" /\ v15 = "idle" /\ v16 = "idle" /\ Idle17
Idle1 ==
  /\ v1 = "idle" /\ v2 = "idle" /\ v3 = "idle" /\ v4 = "idle"
  /\ v5 = "idle" /\ v6 = "idle" /\ v7 = "idle" /\ v8 = "idle"
  /\ v9 = "idle" /\ v10 = "idle" /\ v11 = "idle" /\ v12 = "idle"
  /\ v13 = "idle" /\ Idle14

\* The state of each component.
ofRsqUdp == <<conn, socket, demux, rsqInbox, c2s, s2c, rsqSessions, sess,
              rsqRelay, answers, late>>
ofQuicUdp == <<proto, up, sock, readers, inbox, task, tid, using, sessions,
               owner, relay, asked, back>>
ofUrlTest == <<prober, run, delays, selected, urlPc, raced>>
ofPooled == <<kind, cred, lock, cached, conns, live, dial, refused, hit,
              served, closed>>
ofWireGuard == <<wgDial, wgLock, started, port, tasks, handle, closing,
                 early, wgRefused, tunn, queue, endpoint, where, seen, net,
                 routed, packets, moves, losses>>
state == <<part, vars, ofRsqUdp, ofQuicUdp, ofUrlTest, ofPooled, ofWireGuard, from1>>
-----------------------------------------------------------------------------
(* The fallback group.                                                      *)

\* The group starts at the primary with no dial under way.
LEMMA FallbackInit == Init => IInv
<1> SUFFICES ASSUME Init PROVE IInv
    BY Zenon
<1>1. 0 \in Children
    BY NAssumption DEF Children
<1>2. TypeOK
    BY <1>1, Zenon DEF Init, TypeOK, Final
<1>3. StickyHasAnswered /\ Reaching
    BY Zenon DEF Init, StickyHasAnswered, Reaching
<1> QED
    BY <1>2, <1>3, Zenon DEF IInv

\* Every load, answer and store of fallback.rs keeps the inductive invariant.
LEMMA FallbackStep == IInv /\ [Next]_vars => IInv'
<1> SUFFICES ASSUME IInv, [Next]_vars PROVE IInv'
    BY Zenon
<1> USE NAssumption DEF IInv
<1>1. ASSUME NEW d \in Callers, Start(d) PROVE IInv'
    BY <1>1, Zenon DEF Start, Goto, TypeOK, StickyHasAnswered, Reaching, Final, Children
<1>2. ASSUME NEW d \in Callers, DialOrder(d) PROVE IInv'
    BY <1>2, Zenon DEF DialOrder, Goto, TypeOK, StickyHasAnswered, Reaching, Final, Children
<1>3. ASSUME NEW d \in Callers, ActiveBefore(d) PROVE IInv'
    BY <1>3, Zenon DEF ActiveBefore, Goto, TypeOK, StickyHasAnswered, Reaching, Final, Children
<1>4. ASSUME NEW d \in Callers, ChildFails(d) PROVE IInv'
    <2>1. TypeOK'
      BY <1>4 DEF ChildFails, Goto, TypeOK, Final, Children
    <2>2. StickyHasAnswered' /\ Reaching'
      BY <1>4, Zenon DEF ChildFails, Goto, TypeOK, StickyHasAnswered, Reaching
    <2> QED
      BY <2>1, <2>2, Zenon
<1>5. ASSUME NEW d \in Callers, ChildAnswers(d) PROVE IInv'
    <2>1. TypeOK'
      BY <1>5, Zenon DEF ChildAnswers, Goto, TypeOK, Final, Children
    <2>2. StickyHasAnswered'
      BY <1>5, Zenon DEF ChildAnswers, StickyHasAnswered
    <2>3. Reaching'
      BY <1>5 DEF ChildAnswers, Goto, TypeOK, Reaching, Children
    <2> QED
      BY <2>1, <2>2, <2>3, Zenon
<1>6. ASSUME NEW d \in Callers, OnFailover(d) PROVE IInv'
    BY <1>6, Zenon DEF OnFailover, Goto, TypeOK, StickyHasAnswered, Reaching, Final, Children
<1>7. ASSUME NEW d \in Callers, SetActive(d) PROVE IInv'
    BY <1>7, Zenon DEF SetActive, Goto, TypeOK, StickyHasAnswered, Reaching, Final, Children
<1>8. ASSUME NEW d \in Callers, Cancel(d) PROVE IInv'
    BY <1>8, Zenon DEF Cancel, Goto, TypeOK, StickyHasAnswered, Reaching, Final, Children
<1>9. CASE UNCHANGED vars
    BY <1>9, Zenon DEF vars, TypeOK, StickyHasAnswered, Reaching
<1> QED
    BY <1>1, <1>2, <1>3, <1>4, <1>5, <1>6, <1>7, <1>8, <1>9, Zenon DEF Next, Dial

\* No store of the index takes the group back to the primary.
LEMMA FallbackOnly == ASSUME IInv, [Next]_vars, active > 0 PROVE active' > 0
<1>1. CASE active' # active
  <2>1. PICK d \in Callers : SetActive(d)
    BY <1>1, Zenon DEF Next, Dial, vars, Start, DialOrder, ActiveBefore, ChildFails, ChildAnswers,
       OnFailover, Cancel
  <2> QED BY <2>1, Zenon DEF SetActive, IInv, Reaching
<1> QED BY <1>1, Zenon
-----------------------------------------------------------------------------
(* UDP over RSQ: a session and the socket it serves.                        *)

RsqUdpRelay == INSTANCE RsqUdpRelay WITH
  inbox <- rsqInbox, sessions <- rsqSessions, relay <- rsqRelay

\* The component counts as this module does.
LEMMA RsqUdpRelayCount == \A S : RsqUdpRelay!Cardinality(S) = Cardinality(S)
BY Zenon DEF RsqUdpRelay!Cardinality, Cardinality, RsqUdpRelay!IsFiniteSet, IsFiniteSet

\* A session is marked closed, and used or left idle.
LEMMA RsqUdpMark ==
  ASSUME NEW r \in RsqUdpRelay!Session
  PROVE  /\ [r EXCEPT !.closed = TRUE] \in RsqUdpRelay!Session /\ [r EXCEPT !.closed = TRUE].closed
         /\ [r EXCEPT !.closed = TRUE].of = r.of
         /\ [r EXCEPT !.idle = FALSE] \in RsqUdpRelay!Session /\ [r EXCEPT !.idle = FALSE].of = r.of
         /\ [r EXCEPT !.idle = FALSE].closed = r.closed
BY Zenon DEF RsqUdpRelay!Session

\* What does not touch the server's sessions and relays keeps what is said of them.
LEMMA RsqUdpServerKept ==
  ASSUME RsqUdpRelay!IInv, RsqUdpRelay!TypeOK', UNCHANGED <<rsqSessions, sess, rsqRelay, late>>
  PROVE  RsqUdpRelay!IInv'
BY Zenon DEF RsqUdpRelay!IInv, RsqUdpRelay!OneOpenSession, RsqUdpRelay!OneLateAnswer,
   RsqUdpRelay!SessionsAreTheirs, RsqUdpRelay!LateIsLast, RsqUdpRelay!Made

\* The client's steps and an answer on its way leave the server's sessions
\* alone.
LEMMA RsqUdpClient ==
  ASSUME RsqUdpRelay!IInv,
         \/ \E s \in Sockets :
              \/ RsqUdpRelay!Open(s) \/ RsqUdpRelay!SendTo(s) \/ RsqUdpRelay!DropSocket(s)
              \/ RsqUdpRelay!Demux(s) \/ RsqUdpRelay!RecvFrom(s)
         \/ (\E n \in Sessions : RsqUdpRelay!Answer(n))
         \/ RsqUdpRelay!EndReader \/ RsqUdpRelay!Lose \/ RsqUdpRelay!Disconnect
         \/ UNCHANGED RsqUdpRelay!vars
  PROVE  RsqUdpRelay!IInv'
<1> USE QueueAssumption
<1>1. UNCHANGED <<rsqSessions, sess, rsqRelay, late>>
  BY RsqUdpRelayCount, Zenon DEF RsqUdpRelay!Open, RsqUdpRelay!SendTo, RsqUdpRelay!DropSocket,
     RsqUdpRelay!Demux, RsqUdpRelay!RecvFrom, RsqUdpRelay!Answer, RsqUdpRelay!EndReader,
     RsqUdpRelay!Lose, RsqUdpRelay!Disconnect, RsqUdpRelay!server, RsqUdpRelay!vars
<1>2. ASSUME NEW s \in Sockets,
             RsqUdpRelay!Open(s) \/ RsqUdpRelay!SendTo(s) \/ RsqUdpRelay!DropSocket(s)
      PROVE  RsqUdpRelay!TypeOK'
  <2>1. CASE RsqUdpRelay!Open(s)
    BY <2>1, Zenon DEF RsqUdpRelay!IInv, RsqUdpRelay!TypeOK, RsqUdpRelay!Session, RsqUdpRelay!Open,
       RsqUdpRelay!server
  <2>2. CASE RsqUdpRelay!SendTo(s)
    BY <2>2, RsqUdpRelayCount DEF RsqUdpRelay!IInv, RsqUdpRelay!TypeOK, RsqUdpRelay!Session,
       RsqUdpRelay!SendTo, RsqUdpRelay!server, RsqUdpRelay!client
  <2>3. CASE RsqUdpRelay!DropSocket(s)
    BY <2>3 DEF RsqUdpRelay!IInv, RsqUdpRelay!TypeOK, RsqUdpRelay!Session, RsqUdpRelay!DropSocket,
       RsqUdpRelay!server
  <2> QED BY <1>2, <2>1, <2>2, <2>3, Zenon
<1>3. ASSUME NEW s \in Sockets, RsqUdpRelay!Demux(s) \/ RsqUdpRelay!RecvFrom(s)
      PROVE  RsqUdpRelay!TypeOK'
  BY <1>3 DEF RsqUdpRelay!IInv, RsqUdpRelay!TypeOK, RsqUdpRelay!Session, RsqUdpRelay!Demux,
     RsqUdpRelay!RecvFrom, RsqUdpRelay!server
<1>4. ASSUME NEW n \in Sessions, RsqUdpRelay!Answer(n) PROVE RsqUdpRelay!TypeOK'
  BY <1>4, Zenon DEF RsqUdpRelay!IInv, RsqUdpRelay!TypeOK, RsqUdpRelay!Session, RsqUdpRelay!Answer,
     RsqUdpRelay!client
<1>5. ASSUME RsqUdpRelay!EndReader \/ RsqUdpRelay!Lose \/ RsqUdpRelay!Disconnect
      \/ UNCHANGED RsqUdpRelay!vars
      PROVE  RsqUdpRelay!TypeOK'
  <2>1. demux' \subseteq demux /\ c2s' \subseteq c2s /\ s2c' \subseteq s2c
    BY <1>5, Zenon
       DEF RsqUdpRelay!EndReader, RsqUdpRelay!Lose, RsqUdpRelay!Disconnect, RsqUdpRelay!client,
       RsqUdpRelay!server, RsqUdpRelay!vars
  <2>2. UNCHANGED <<socket, rsqInbox, RsqUdpRelay!server>>
    BY <1>5, Zenon
       DEF RsqUdpRelay!EndReader, RsqUdpRelay!Lose, RsqUdpRelay!Disconnect, RsqUdpRelay!client,
       RsqUdpRelay!server, RsqUdpRelay!vars
  <2>3. conn' \in BOOLEAN
    BY <1>5, Zenon DEF RsqUdpRelay!IInv, RsqUdpRelay!TypeOK, RsqUdpRelay!EndReader, RsqUdpRelay!Lose,
       RsqUdpRelay!Disconnect, RsqUdpRelay!vars
  <2> QED BY <2>1, <2>2, <2>3, Zenon
             DEF RsqUdpRelay!IInv, RsqUdpRelay!TypeOK, RsqUdpRelay!Session, RsqUdpRelay!server
<1> QED BY <1>1, <1>2, <1>3, <1>4, <1>5, RsqUdpServerKept, Zenon

\* The session is removed and marked in one step.
LEMMA RsqUdpClose ==
  ASSUME RsqUdpRelay!IInv, NEW s \in Sockets, RsqUdpRelay!HandleClose(s)
  PROVE  RsqUdpRelay!IInv'
<1> USE IdentifierAssumption DEF RsqUdpRelay!IInv
<1>1. CASE rsqSessions[s] = RsqUdpRelay!None
  BY <1>1, RsqUdpServerKept, Zenon
     DEF RsqUdpRelay!TypeOK, RsqUdpRelay!Session, RsqUdpRelay!HandleClose, RsqUdpRelay!client
<1>2. CASE rsqSessions[s] # RsqUdpRelay!None
  <2> DEFINE n == rsqSessions[s]
  <2>1. n \in Sessions /\ n \in RsqUdpRelay!Made /\ sess[n].of = s
    BY <1>2, Zenon DEF RsqUdpRelay!TypeOK, RsqUdpRelay!SessionsAreTheirs
  <2>2. /\ rsqSessions' = [rsqSessions EXCEPT ![s] = RsqUdpRelay!None]
        /\ sess' = [sess EXCEPT ![n].closed = TRUE]
        /\ UNCHANGED <<rsqRelay, late>>
    BY <1>2, Zenon DEF RsqUdpRelay!HandleClose
  <2>3. sess[n] \in RsqUdpRelay!Session /\ sess'[n] = [sess[n] EXCEPT !.closed = TRUE]
    BY <2>1, <2>2, Zenon DEF RsqUdpRelay!TypeOK, RsqUdpRelay!Session
  <2>4. sess' \in [Sessions -> RsqUdpRelay!Session]
    BY <2>1, <2>2, <2>3, RsqUdpMark, Zenon DEF RsqUdpRelay!TypeOK
  <2>5. RsqUdpRelay!TypeOK'
    BY <2>4, Zenon
       DEF RsqUdpRelay!TypeOK, RsqUdpRelay!Session, RsqUdpRelay!HandleClose, RsqUdpRelay!client
  <2>6. \A m \in Sessions \ {n} : sess'[m] = sess[m]
    BY <2>2, Zenon DEF RsqUdpRelay!TypeOK, RsqUdpRelay!Session
  <2>7. sess'[n].closed /\ sess'[n].of = s /\ RsqUdpRelay!Made' = RsqUdpRelay!Made
    BY <2>1, <2>2 DEF RsqUdpRelay!TypeOK, RsqUdpRelay!Made
  <2> HIDE DEF n
  <2>8. RsqUdpRelay!OneOpenSession'
    BY <2>2 DEF RsqUdpRelay!TypeOK, RsqUdpRelay!Session, RsqUdpRelay!OneOpenSession,
       RsqUdpRelay!SessionsAreTheirs, RsqUdpRelay!Made, n
  <2>9. RsqUdpRelay!SessionsAreTheirs'
    BY <2>1, <2>2, Zenon
       DEF RsqUdpRelay!TypeOK, RsqUdpRelay!SessionsAreTheirs, RsqUdpRelay!None, RsqUdpRelay!Made
  <2>10. RsqUdpRelay!LateIsLast' /\ RsqUdpRelay!OneLateAnswer'
    BY <2>2 DEF RsqUdpRelay!LateIsLast, RsqUdpRelay!OneLateAnswer
  <2> QED BY <2>5, <2>8, <2>9, <2>10, Zenon
<1> QED BY <1>1, <1>2, Zenon

\* A packet finds the socket's session, or makes one when there is none open.
LEMMA RsqUdpData ==
  ASSUME RsqUdpRelay!IInv, NEW s \in Sockets, RsqUdpRelay!HandleData(s)
  PROVE  RsqUdpRelay!IInv'
<1> USE IdentifierAssumption DEF RsqUdpRelay!IInv
<1>1. PICK n \in Sessions :
        /\ IF rsqSessions[s] # RsqUdpRelay!None THEN n = rsqSessions[s] /\ sess' = [sess EXCEPT ![n].idle = FALSE]
           ELSE n \notin RsqUdpRelay!Made
             /\ sess' = [sess EXCEPT ![n] = [of |-> s, closed |-> FALSE, idle |-> FALSE]]
        /\ rsqSessions' = [rsqSessions EXCEPT ![s] = n]
        /\ rsqRelay' = [rsqRelay EXCEPT ![n] = IF @ = "none" THEN "check" ELSE @]
  BY Zenon DEF RsqUdpRelay!HandleData
<1>2. UNCHANGED <<conn, RsqUdpRelay!client, s2c, answers, late>> /\ c2s' \subseteq c2s
  BY Zenon DEF RsqUdpRelay!HandleData
<1>3. RsqUdpRelay!TypeOK'
  <2>1. sess' \in [Sessions -> RsqUdpRelay!Session]
    <3>1. CASE rsqSessions[s] # RsqUdpRelay!None
      <4>1. /\ sess' = [sess EXCEPT ![n] = [sess[n] EXCEPT !.idle = FALSE]]
            /\ sess[n] \in RsqUdpRelay!Session
        BY <1>1, <3>1, Zenon DEF RsqUdpRelay!TypeOK
      <4>2. [sess[n] EXCEPT !.idle = FALSE] \in RsqUdpRelay!Session
        BY <4>1, RsqUdpMark, Zenon
      <4> QED BY <4>1, <4>2, Zenon DEF RsqUdpRelay!TypeOK
    <3>2. CASE rsqSessions[s] = RsqUdpRelay!None
      <4>1. [of |-> s, closed |-> FALSE, idle |-> FALSE] \in RsqUdpRelay!Session
        BY Zenon DEF RsqUdpRelay!Session
      <4> QED BY <1>1, <3>2, <4>1, Zenon DEF RsqUdpRelay!TypeOK
    <3> QED BY <3>1, <3>2, Zenon
  <2> QED BY <1>1, <1>2, <2>1, Zenon DEF RsqUdpRelay!TypeOK, RsqUdpRelay!Session, RsqUdpRelay!client
<1>4. \A m \in Sessions \ {n} : sess'[m] = sess[m] /\ rsqRelay'[m] = rsqRelay[m]
  BY <1>1, Zenon DEF RsqUdpRelay!TypeOK, RsqUdpRelay!Session
<1>5. rsqRelay'[n] # "none" /\ RsqUdpRelay!Made' = RsqUdpRelay!Made \cup {n}
  BY <1>1 DEF RsqUdpRelay!TypeOK, RsqUdpRelay!Session, RsqUdpRelay!Made
<1>6. sess'[n].of = s /\ ~sess'[n].closed
  <2>1. CASE rsqSessions[s] # RsqUdpRelay!None
    <3>1. sess'[n] = [sess[n] EXCEPT !.idle = FALSE] /\ sess[n] \in RsqUdpRelay!Session
      BY <1>1, <2>1, Zenon DEF RsqUdpRelay!TypeOK
    <3>2. sess[n].of = s /\ ~sess[n].closed
      BY <1>1, <2>1, Zenon DEF RsqUdpRelay!SessionsAreTheirs
    <3> QED BY <3>1, <3>2
  <2>2. CASE rsqSessions[s] = RsqUdpRelay!None
    BY <1>1, <2>2 DEF RsqUdpRelay!TypeOK
  <2> QED BY <2>1, <2>2, Zenon
<1>7. \A m \in RsqUdpRelay!Made \ {n} : sess[m].closed \/ sess[m].of # s
  BY <1>1, Zenon DEF RsqUdpRelay!OneOpenSession, RsqUdpRelay!Made, RsqUdpRelay!None
<1>8. RsqUdpRelay!OneOpenSession'
  BY <1>1, <1>4, <1>6, <1>7
     DEF RsqUdpRelay!TypeOK, RsqUdpRelay!Session, RsqUdpRelay!OneOpenSession, RsqUdpRelay!Made
<1>9. RsqUdpRelay!SessionsAreTheirs'
  BY <1>1, <1>6 DEF RsqUdpRelay!TypeOK, RsqUdpRelay!SessionsAreTheirs, RsqUdpRelay!Made
<1>10. late[n] = 0
  BY <1>1 DEF RsqUdpRelay!TypeOK, RsqUdpRelay!Session, RsqUdpRelay!LateIsLast,
     RsqUdpRelay!SessionsAreTheirs, RsqUdpRelay!Made
<1>11. RsqUdpRelay!LateIsLast' /\ RsqUdpRelay!OneLateAnswer'
  <2>1. late' = late /\ ~(late[n] > 0)
    BY <1>2, <1>10
  <2>2. RsqUdpRelay!OneLateAnswer'
    BY <2>1, Zenon DEF RsqUdpRelay!OneLateAnswer
  <2>3. ASSUME NEW m \in Sessions, late'[m] > 0
        PROVE  sess'[m].closed /\ rsqRelay'[m] \in {"check", "ended"}
    <3>1. m # n /\ late[m] > 0
      BY <2>1, <2>3, Zenon
    <3> QED BY <1>4, <3>1, Zenon DEF RsqUdpRelay!LateIsLast
  <2> QED BY <2>2, <2>3, Zenon DEF RsqUdpRelay!LateIsLast
<1> QED BY <1>3, <1>8, <1>9, <1>11, Zenon

\* Pruning, and the end of the connection: what is removed is marked.
LEMMA RsqUdpRemove ==
  ASSUME RsqUdpRelay!IInv, RsqUdpRelay!PruneSessions \/ RsqUdpRelay!ServerEnd
  PROVE  RsqUdpRelay!IInv'
<1> USE IdentifierAssumption DEF RsqUdpRelay!IInv
<1>1. /\ UNCHANGED <<conn, RsqUdpRelay!client, c2s, s2c, rsqRelay, answers, late>>
      /\ RsqUdpRelay!Made' = RsqUdpRelay!Made
  BY DEF RsqUdpRelay!PruneSessions, RsqUdpRelay!ServerEnd, RsqUdpRelay!Made
<1>2. /\ rsqSessions' \in [Sockets -> Sessions \cup {RsqUdpRelay!None}]
      /\ sess' \in [Sessions -> RsqUdpRelay!Session]
      /\ \A n \in Sessions : sess'[n].of = sess[n].of /\ (sess[n].closed => sess'[n].closed)
  <2>1. rsqSessions' \in [Sockets -> Sessions \cup {RsqUdpRelay!None}]
    BY DEF RsqUdpRelay!TypeOK, RsqUdpRelay!Session, RsqUdpRelay!PruneSessions, RsqUdpRelay!ServerEnd
  <2>2. \A n \in Sessions :
          sess[n] \in RsqUdpRelay!Session /\ sess'[n] \in {sess[n], [sess[n] EXCEPT !.closed = TRUE]}
    BY DEF RsqUdpRelay!TypeOK, RsqUdpRelay!Session, RsqUdpRelay!PruneSessions, RsqUdpRelay!ServerEnd
  <2>3. sess' = [n \in Sessions |-> sess'[n]]
    BY Zenon DEF RsqUdpRelay!PruneSessions, RsqUdpRelay!ServerEnd
  <2>4. ASSUME NEW n \in Sessions
        PROVE  /\ sess'[n] \in RsqUdpRelay!Session /\ sess'[n].of = sess[n].of
               /\ (sess[n].closed => sess'[n].closed)
    <3>1. sess[n] \in RsqUdpRelay!Session
      BY <2>2, Zenon
    <3>2. CASE sess'[n] = sess[n]
      BY <3>1, <3>2, Zenon
    <3>3. CASE sess'[n] = [sess[n] EXCEPT !.closed = TRUE]
      BY <3>1, <3>3, RsqUdpMark, Zenon
    <3> QED BY <2>2, <3>2, <3>3, Zenon
  <2> QED BY <2>1, <2>3, <2>4, Zenon
<1>3. RsqUdpRelay!TypeOK'
  BY <1>1, <1>2, Zenon DEF RsqUdpRelay!TypeOK, RsqUdpRelay!Session, RsqUdpRelay!client
<1>4. \A s \in Sockets : rsqSessions'[s] # RsqUdpRelay!None => rsqSessions'[s] = rsqSessions[s]
  BY DEF RsqUdpRelay!PruneSessions, RsqUdpRelay!ServerEnd
<1>5. \A s \in Sockets : rsqSessions'[s] # RsqUdpRelay!None => sess'[rsqSessions[s]] = sess[rsqSessions[s]]
  BY DEF RsqUdpRelay!TypeOK, RsqUdpRelay!Session, RsqUdpRelay!PruneSessions, RsqUdpRelay!ServerEnd
<1>6. RsqUdpRelay!SessionsAreTheirs'
  BY <1>1, <1>4, <1>5, Zenon DEF RsqUdpRelay!SessionsAreTheirs
<1>7. ASSUME NEW n \in RsqUdpRelay!Made, ~sess'[n].closed PROVE rsqSessions'[sess'[n].of] = n
  BY <1>7 DEF RsqUdpRelay!TypeOK, RsqUdpRelay!Session, RsqUdpRelay!Made, RsqUdpRelay!None,
     RsqUdpRelay!OneOpenSession, RsqUdpRelay!PruneSessions, RsqUdpRelay!ServerEnd
<1>8. RsqUdpRelay!OneOpenSession'
  BY <1>1, <1>7, Zenon DEF RsqUdpRelay!OneOpenSession
<1>9. RsqUdpRelay!LateIsLast' /\ RsqUdpRelay!OneLateAnswer'
  BY <1>1, <1>2, Zenon DEF RsqUdpRelay!LateIsLast, RsqUdpRelay!OneLateAnswer
<1> QED BY <1>3, <1>6, <1>8, <1>9, Zenon

\* The relay of a session looks at the mark before every answer.
LEMMA RsqUdpRelays ==
  ASSUME RsqUdpRelay!IInv, NEW n \in Sessions, RsqUdpRelay!Idle(n) \/ RsqUdpRelay!Relay(n)
  PROVE  RsqUdpRelay!IInv'
<1> USE DEF RsqUdpRelay!IInv
<1>1. CASE RsqUdpRelay!Idle(n)
  <2>1. RsqUdpRelay!TypeOK' /\ \A m \in Sessions :
          sess'[m].of = sess[m].of /\ sess'[m].closed = sess[m].closed
    BY <1>1, ZenonT(30), Zenon
       DEF RsqUdpRelay!TypeOK, RsqUdpRelay!Session, RsqUdpRelay!Idle, RsqUdpRelay!client,
       RsqUdpRelay!Made
  <2>2. UNCHANGED <<rsqSessions, rsqRelay, late>> /\ RsqUdpRelay!Made' = RsqUdpRelay!Made
    BY <1>1, Zenon DEF RsqUdpRelay!Idle, RsqUdpRelay!Made
  <2>3. RsqUdpRelay!OneOpenSession' /\ RsqUdpRelay!SessionsAreTheirs'
    BY <2>1, <2>2, Zenon DEF RsqUdpRelay!OneOpenSession, RsqUdpRelay!SessionsAreTheirs, RsqUdpRelay!Made
  <2>4. RsqUdpRelay!OneLateAnswer' /\ RsqUdpRelay!LateIsLast'
    BY <2>1, <2>2, Zenon DEF RsqUdpRelay!OneLateAnswer, RsqUdpRelay!LateIsLast
  <2> QED BY <2>1, <2>3, <2>4, Zenon
<1>2. CASE RsqUdpRelay!Relay(n)
  <2>1. UNCHANGED <<rsqSessions, sess>> /\ rsqRelay[n] # "none"
    BY <1>2, Zenon
       DEF RsqUdpRelay!Relay, RsqUdpRelay!CheckClosed, RsqUdpRelay!RelayBack, RsqUdpRelay!RelayEnd
  <2>2. \E to \in {"check", "recv", "ended"} : rsqRelay' = [rsqRelay EXCEPT ![n] = to]
    BY <1>2, Zenon
       DEF RsqUdpRelay!Relay, RsqUdpRelay!CheckClosed, RsqUdpRelay!RelayBack, RsqUdpRelay!RelayEnd
  <2>3. RsqUdpRelay!Made' = RsqUdpRelay!Made
    BY <2>1, <2>2, Zenon DEF RsqUdpRelay!TypeOK, RsqUdpRelay!Session, RsqUdpRelay!Made
  <2>4. RsqUdpRelay!OneOpenSession' /\ RsqUdpRelay!SessionsAreTheirs'
    BY <2>1, <2>3, Zenon DEF RsqUdpRelay!OneOpenSession, RsqUdpRelay!SessionsAreTheirs
  <2>5. CASE RsqUdpRelay!CheckClosed(n) \/ RsqUdpRelay!RelayEnd(n)
    BY <2>5, <2>4, Zenon DEF RsqUdpRelay!TypeOK, RsqUdpRelay!Session, RsqUdpRelay!CheckClosed,
       RsqUdpRelay!RelayEnd, RsqUdpRelay!client, RsqUdpRelay!LateIsLast, RsqUdpRelay!OneLateAnswer
  <2>6. CASE RsqUdpRelay!RelayBack(n)
    BY <2>6, <2>4 DEF RsqUdpRelay!TypeOK, RsqUdpRelay!Session, RsqUdpRelay!LateIsLast,
       RsqUdpRelay!RelayBack, RsqUdpRelay!client, RsqUdpRelay!OneLateAnswer
  <2> QED BY <1>2, <2>5, <2>6, Zenon DEF RsqUdpRelay!Relay
<1> QED BY <1>1, <1>2, Zenon

\* Every step of the client, the network and the server keeps the invariant.
LEMMA RsqUdpInvariance ==
  ASSUME RsqUdpRelay!IInv, [RsqUdpRelay!Next]_(RsqUdpRelay!vars)
  PROVE  RsqUdpRelay!IInv'
BY RsqUdpClient, RsqUdpClose, RsqUdpData, RsqUdpRemove, RsqUdpRelays, Zenon DEF RsqUdpRelay!Next

\* It holds for a new connection.
LEMMA RsqUdpInit == RsqUdpRelay!Init => RsqUdpRelay!IInv
BY IdentifierAssumption, QueueAssumption DEF RsqUdpRelay!Init, RsqUdpRelay!IInv, RsqUdpRelay!TypeOK,
   RsqUdpRelay!Session, RsqUdpRelay!OneOpenSession, RsqUdpRelay!OneLateAnswer,
   RsqUdpRelay!SessionsAreTheirs, RsqUdpRelay!LateIsLast, RsqUdpRelay!Made, RsqUdpRelay!None,
   RsqUdpRelay!Blank
-----------------------------------------------------------------------------
(* Counting and sequences.                                                 *)

\* A finite set that gains an element of a finite set counts one more.
LEMMA CountUp ==
  ASSUME NEW S, IsFiniteSet(S), NEW T \in SUBSET S, NEW c \in S \ T
  PROVE  /\ Cardinality(T) \in Nat /\ Cardinality(S) \in Nat
         /\ Cardinality(T \cup {c}) = Cardinality(T) + 1
         /\ Cardinality(T) < Cardinality(S)
<1>1. IsFiniteSet(T)
  BY FS_Subset, Zenon
<1>2. Cardinality(T) \in Nat /\ Cardinality(S) \in Nat
  BY <1>1, FS_CardinalityType, Zenon
<1>3. Cardinality(T \cup {c}) = Cardinality(T) + 1
  BY <1>1, FS_AddElement, Zenon
<1>4. Cardinality(T \cup {c}) <= Cardinality(S)
  <2>1. T \cup {c} \in SUBSET S
    BY Zenon
  <2> QED BY <2>1, FS_Subset, Zenon
<1> QED BY <1>2, <1>3, <1>4

\* A finite set that loses an element counts one less.
LEMMA CountDown ==
  ASSUME NEW S, IsFiniteSet(S), NEW T \in SUBSET S, NEW c \in T
  PROVE  /\ Cardinality(T) \in Nat /\ Cardinality(S) \in Nat /\ Cardinality(T) > 0
         /\ Cardinality(T \ {c}) = Cardinality(T) - 1
         /\ Cardinality(T) <= Cardinality(S)
<1>1. IsFiniteSet(T)
  BY FS_Subset, Zenon
<1>2. Cardinality(T) \in Nat /\ Cardinality(S) \in Nat /\ Cardinality(T) <= Cardinality(S)
  BY <1>1, FS_CardinalityType, FS_Subset, Zenon
<1>3. Cardinality(T \ {c}) = Cardinality(T) - 1
  BY <1>1, FS_RemoveElement, Zenon
<1>4. IsFiniteSet(T \ {c})
  BY <1>1, FS_Subset, Zenon
<1>5. Cardinality(T \ {c}) \in Nat
  BY <1>4, FS_CardinalityType, Zenon
<1> QED BY <1>2, <1>3, <1>5
-----------------------------------------------------------------------------
(* UDP over RST and Hysteria2: answers are counted against the requests.    *)

QuicUdp == INSTANCE QuicUdp

\* The component counts as this module does.
LEMMA QuicUdpCount == \A S : QuicUdp!Cardinality(S) = Cardinality(S)
BY Zenon DEF QuicUdp!Cardinality, Cardinality, QuicUdp!IsFiniteSet, IsFiniteSet

\* The sets that are counted are finite, before and after a step.
LEMMA QuicUdpCounts ==
  ASSUME NEW T \in SUBSET Tasks, NEW K \in SUBSET Socks
  PROVE  /\ IsFiniteSet(T) /\ Cardinality(T) \in Nat /\ Cardinality(T) <= Cardinality(Tasks)
         /\ IsFiniteSet(K) /\ Cardinality(K) \in Nat /\ Cardinality(Tasks) \in Nat
BY FiniteAssumption, FS_Subset, FS_CardinalityType, Zenon

\* The client's sockets are opened, ask and are dropped, and readers end.
LEMMA QuicUdpClient ==
  ASSUME QuicUdp!IInv,
         \/ \E i \in Ids : QuicUdp!OpenSocket(i) \/ QuicUdp!DropSocket(i) \/ QuicUdp!ReaderEnds(i)
         \/ \E i \in Ids, t \in Tasks : QuicUdp!SendTo(i, t)
         \/ UNCHANGED QuicUdp!vars
  PROVE  QuicUdp!IInv'
<1> USE DEF QuicUdp!IInv
<1>1. ASSUME NEW i \in Ids, QuicUdp!OpenSocket(i) \/ QuicUdp!DropSocket(i) \/ QuicUdp!ReaderEnds(i)
      PROVE  QuicUdp!IInv'
  BY <1>1, QuicUdpCount DEF QuicUdp!OpenSocket, QuicUdp!DropSocket, QuicUdp!ReaderEnds, QuicUdp!TypeOK,
     QuicUdp!server, QuicUdp!NoDeafSocket, QuicUdp!HandlersHoldTheirs, QuicUdp!EachAskedFor,
     QuicUdp!Within, QuicUdp!ToCome, QuicUdp!AskedFor
<1>2. ASSUME NEW i \in Ids, NEW t \in Tasks, QuicUdp!SendTo(i, t) PROVE QuicUdp!IInv'
  BY <1>2, QuicUdpCount DEF QuicUdp!TypeOK, QuicUdp!SendTo, QuicUdp!client, QuicUdp!NoDeafSocket,
     QuicUdp!HandlersHoldTheirs, QuicUdp!AskedFor, QuicUdp!ToCome, QuicUdp!EachAskedFor, QuicUdp!Within
<1>3. CASE UNCHANGED QuicUdp!vars
  BY <1>3, QuicUdpCount DEF QuicUdp!TypeOK, QuicUdp!NoDeafSocket, QuicUdp!HandlersHoldTheirs,
     QuicUdp!EachAskedFor, QuicUdp!Within, QuicUdp!ToCome, QuicUdp!AskedFor, QuicUdp!vars
<1> QED BY <1>1, <1>2, <1>3, Zenon

\* Looking up, binding, inserting and starting count nothing; a socket that is
\* bound anew has nothing to come.
LEMMA QuicUdpPrepare ==
  ASSUME QuicUdp!IInv, NEW t \in Tasks,
         QuicUdp!Lookup(t) \/ QuicUdp!Bind(t) \/ QuicUdp!Insert(t) \/ QuicUdp!StartRelay(t)
  PROVE  QuicUdp!IInv'
<1> USE IdentifierAssumption DEF QuicUdp!IInv
<1>1. UNCHANGED <<proto, up, QuicUdp!client, tid, asked, back>>
  BY Zenon DEF QuicUdp!Lookup, QuicUdp!Bind, QuicUdp!Insert, QuicUdp!StartRelay
<1>2. /\ task[t] \in {"lookup", "bind", "insert", "start"} /\ tid[t] \in Ids
      /\ \E to \in {"bind", "insert", "start", "send"} : task' = [task EXCEPT ![t] = to]
  BY Zenon DEF QuicUdp!Lookup, QuicUdp!Bind, QuicUdp!Insert, QuicUdp!StartRelay, QuicUdp!Goto,
     QuicUdp!HandlersHoldTheirs
<1>3. \A j \in Ids : QuicUdp!AskedFor(j)' = QuicUdp!AskedFor(j)
  BY <1>1, <1>2, QuicUdpCount DEF QuicUdp!TypeOK, QuicUdp!AskedFor
<1>4. CASE QuicUdp!Lookup(t)
  BY <1>4, <1>3, QuicUdpCount DEF QuicUdp!TypeOK, QuicUdp!Lookup, QuicUdp!Goto, QuicUdp!client,
     QuicUdp!None, QuicUdp!NoDeafSocket, QuicUdp!HandlersHoldTheirs, QuicUdp!ToCome,
     QuicUdp!EachAskedFor, QuicUdp!Within
<1>5. CASE QuicUdp!Bind(t)
  BY <1>5, <1>3, QuicUdpCount DEF QuicUdp!Bind, QuicUdp!Goto, QuicUdp!TypeOK, QuicUdp!client,
     QuicUdp!HandlersHoldTheirs, QuicUdp!None, QuicUdp!ToCome, QuicUdp!NoDeafSocket,
     QuicUdp!EachAskedFor, QuicUdp!Within
<1>6. CASE QuicUdp!Insert(t)
  BY <1>6, <1>3, QuicUdpCount DEF QuicUdp!TypeOK, QuicUdp!Insert, QuicUdp!Goto, QuicUdp!client,
     QuicUdp!NoDeafSocket, QuicUdp!HandlersHoldTheirs, QuicUdp!ToCome, QuicUdp!EachAskedFor,
     QuicUdp!Within
<1>7. CASE QuicUdp!StartRelay(t)
  BY <1>7, <1>3, QuicUdpCount DEF QuicUdp!TypeOK, QuicUdp!StartRelay, QuicUdp!Goto, QuicUdp!client,
     QuicUdp!HandlersHoldTheirs, QuicUdp!NoDeafSocket, QuicUdp!ToCome, QuicUdp!EachAskedFor,
     QuicUdp!Within
<1> QED BY <1>4, <1>5, <1>6, <1>7, Zenon

\* A handler that is done has asked for one answer at most.
LEMMA QuicUdpDone ==
  ASSUME QuicUdp!IInv, NEW t \in Tasks, QuicUdp!BadDatagram(t) \/ QuicUdp!Forward(t)
  PROVE  QuicUdp!IInv'
<1> USE DEF QuicUdp!IInv
<1>1. /\ UNCHANGED <<proto, up, QuicUdp!client, tid, using, sessions, owner, relay, back>>
      /\ task' = [task EXCEPT ![t] = "done"] /\ task[t] \in {"lookup", "send"} /\ tid[t] \in Ids
  BY Zenon DEF QuicUdp!BadDatagram, QuicUdp!Forward, QuicUdp!Goto, QuicUdp!HandlersHoldTheirs
<1>2. \A j \in Ids :
        QuicUdp!AskedFor(j) \in SUBSET Tasks /\ QuicUdp!ToCome(j) \in SUBSET Socks /\ inbox[j] \in Nat
  BY QuicUdpCount DEF QuicUdp!TypeOK, QuicUdp!AskedFor, QuicUdp!ToCome
<1>3. /\ QuicUdp!AskedFor(tid[t])' = QuicUdp!AskedFor(tid[t]) \cup {t}
      /\ t \in Tasks \ QuicUdp!AskedFor(tid[t])
  BY <1>1, QuicUdpCount, Zenon DEF QuicUdp!TypeOK, QuicUdp!AskedFor
<1>4. \A j \in Ids \ {tid[t]} : QuicUdp!AskedFor(j)' = QuicUdp!AskedFor(j)
  BY <1>1, QuicUdpCount, Zenon DEF QuicUdp!TypeOK, QuicUdp!AskedFor
<1>5. /\ Cardinality(QuicUdp!AskedFor(tid[t])') = Cardinality(QuicUdp!AskedFor(tid[t])) + 1
      /\ Cardinality(QuicUdp!AskedFor(tid[t])) \in Nat
  BY <1>1, <1>2, <1>3, CountUp, FiniteAssumption, Zenon
<1>6. CASE QuicUdp!BadDatagram(t)
  <2>1. QuicUdp!TypeOK' /\ QuicUdp!NoDeafSocket' /\ QuicUdp!HandlersHoldTheirs'
    BY <1>1, <1>6, QuicUdpCount, Zenon
       DEF QuicUdp!TypeOK, QuicUdp!NoDeafSocket, QuicUdp!HandlersHoldTheirs,
       QuicUdp!BadDatagram, QuicUdp!client
  <2>2. \A j \in Ids : QuicUdp!ToCome(j)' = QuicUdp!ToCome(j)
    BY <1>6, Zenon DEF QuicUdp!ToCome, QuicUdp!BadDatagram
  <2>3. ASSUME NEW j \in Ids PROVE QuicUdp!Within(j)'
    <3>1. /\ QuicUdp!Within(j) /\ Cardinality(QuicUdp!AskedFor(j)) \in Nat
          /\ Cardinality(QuicUdp!ToCome(j)) \in Nat
      BY <1>2, QuicUdpCounts, Zenon DEF QuicUdp!EachAskedFor
    <3>2. Cardinality(QuicUdp!AskedFor(j)') \in {Cardinality(QuicUdp!AskedFor(j)), Cardinality(QuicUdp!AskedFor(j)) + 1}
      <4>1. CASE j = tid[t]
        BY <1>1, <1>5, <4>1, Zenon DEF QuicUdp!AskedFor
      <4>2. CASE j # tid[t]
        BY <1>4, <4>2, Zenon
      <4> QED BY <4>1, <4>2, Zenon
    <3>3. /\ QuicUdp!ToCome(j)' = QuicUdp!ToCome(j) /\ inbox'[j] = inbox[j] /\ back' = back
          /\ inbox[j] \in Nat
      BY <1>1, <1>2, <2>2, Zenon DEF QuicUdp!client
    <3> QED BY <3>1, <3>2, <3>3, QuicUdpCount DEF QuicUdp!Within
  <2> QED BY <2>1, <2>3, Zenon DEF QuicUdp!EachAskedFor
<1>7. CASE QuicUdp!Forward(t)
  <2>1. /\ asked' = asked \cup {using[t]} /\ using[t] \in Socks /\ owner[using[t]] = tid[t]
        /\ relay[using[t]] # "off"
    BY <1>7, Zenon DEF QuicUdp!Forward, QuicUdp!Goto, QuicUdp!HandlersHoldTheirs
  <2>2. QuicUdp!TypeOK' /\ QuicUdp!NoDeafSocket' /\ QuicUdp!HandlersHoldTheirs'
    BY <1>1, <2>1, QuicUdpCount, Zenon
       DEF QuicUdp!TypeOK, QuicUdp!NoDeafSocket, QuicUdp!HandlersHoldTheirs, QuicUdp!client
  <2>3. \A j \in Ids \ {tid[t]} : QuicUdp!ToCome(j)' = QuicUdp!ToCome(j)
    BY <1>1, <2>1, Zenon DEF QuicUdp!ToCome
  <2>4. QuicUdp!ToCome(tid[t])' = QuicUdp!ToCome(tid[t]) \cup {using[t]}
    BY <1>1, <2>1, Zenon DEF QuicUdp!ToCome
  <2>5. /\ Cardinality(QuicUdp!ToCome(tid[t])') \in {Cardinality(QuicUdp!ToCome(tid[t])), Cardinality(QuicUdp!ToCome(tid[t])) + 1}
        /\ Cardinality(QuicUdp!ToCome(tid[t])) \in Nat
    <3>1. CASE using[t] \in QuicUdp!ToCome(tid[t])
      <4>1. QuicUdp!ToCome(tid[t])' = QuicUdp!ToCome(tid[t])
        BY <2>4, <3>1, Zenon
      <4> QED BY <1>1, <1>2, <4>1, QuicUdpCounts, Zenon
    <3>2. CASE using[t] \notin QuicUdp!ToCome(tid[t])
      <4>1. using[t] \in Socks \ QuicUdp!ToCome(tid[t]) /\ QuicUdp!ToCome(tid[t]) \in SUBSET Socks
        BY <1>1, <1>2, <2>1, <3>2, Zenon
      <4>2. /\ Cardinality(QuicUdp!ToCome(tid[t]) \cup {using[t]}) = Cardinality(QuicUdp!ToCome(tid[t])) + 1
            /\ Cardinality(QuicUdp!ToCome(tid[t])) \in Nat
        BY <4>1, CountUp, FiniteAssumption, Zenon
      <4> QED BY <2>4, <4>2, Zenon
    <3> QED BY <3>1, <3>2, Zenon
  <2>6. QuicUdp!Within(tid[t])'
    <3>1. /\ QuicUdp!Within(tid[t]) /\ inbox'[tid[t]] = inbox[tid[t]] /\ inbox[tid[t]] \in Nat
          /\ back' = back
      BY <1>1, <1>2, Zenon DEF QuicUdp!client, QuicUdp!EachAskedFor
    <3> QED BY <1>1, <1>5, <2>5, <3>1, QuicUdpCount DEF QuicUdp!Within
  <2>7. \A j \in Ids \ {tid[t]} : QuicUdp!Within(j)'
    BY <1>1, <1>4, <2>3, QuicUdpCount, Zenon DEF QuicUdp!EachAskedFor, QuicUdp!Within, QuicUdp!client
  <2> QED BY <1>1, <2>2, <2>6, <2>7, Zenon DEF QuicUdp!EachAskedFor
<1> QED BY <1>6, <1>7, Zenon

\* The answer that was to come is on its way, or lost.
LEMMA QuicUdpBack == ASSUME QuicUdp!IInv, NEW k \in Socks, QuicUdp!RelayBack(k) PROVE QuicUdp!IInv'
<1> USE DEF QuicUdp!IInv
<1>1. /\ relay[k] = "on" /\ k \in asked /\ asked' = asked \ {k} /\ owner[k] \in Ids
      /\ UNCHANGED <<proto, up, QuicUdp!client, task, tid, using, sessions, owner>>
      /\ back' \in {back, back \cup {owner[k]}}
      /\ relay' \in {relay, [relay EXCEPT ![k] = "ended"]}
  BY Zenon DEF QuicUdp!RelayBack, QuicUdp!HandlersHoldTheirs
<1>2. QuicUdp!TypeOK' /\ QuicUdp!NoDeafSocket' /\ QuicUdp!HandlersHoldTheirs'
  BY <1>1, QuicUdpCount
     DEF QuicUdp!TypeOK, QuicUdp!client, QuicUdp!NoDeafSocket, QuicUdp!HandlersHoldTheirs
<1>3. \A j \in Ids : QuicUdp!AskedFor(j)' = QuicUdp!AskedFor(j) /\ QuicUdp!AskedFor(j) \in SUBSET Tasks
  BY <1>1, Zenon DEF QuicUdp!AskedFor
<1>4. \A j \in Ids : QuicUdp!ToCome(j) \in SUBSET Socks /\ inbox[j] \in Nat
  BY QuicUdpCount DEF QuicUdp!TypeOK, QuicUdp!ToCome
<1>5. \A j \in Ids \ {owner[k]} : QuicUdp!ToCome(j)' = QuicUdp!ToCome(j) /\ (j \in back' <=> j \in back)
  BY <1>1, Zenon DEF QuicUdp!ToCome
<1>6. QuicUdp!ToCome(owner[k])' = QuicUdp!ToCome(owner[k]) \ {k} /\ k \in QuicUdp!ToCome(owner[k])
  BY <1>1, Zenon DEF QuicUdp!ToCome
<1>7. /\ Cardinality(QuicUdp!ToCome(owner[k])') = Cardinality(QuicUdp!ToCome(owner[k])) - 1
      /\ Cardinality(QuicUdp!ToCome(owner[k])) \in Nat
  BY <1>1, <1>4, <1>6, CountDown, FiniteAssumption, Zenon
<1>8. QuicUdp!Within(owner[k])'
  <2>1. /\ QuicUdp!Within(owner[k]) /\ Cardinality(QuicUdp!AskedFor(owner[k])) \in Nat
        /\ QuicUdp!AskedFor(owner[k])' = QuicUdp!AskedFor(owner[k])
    BY <1>1, <1>3, QuicUdpCounts, Zenon DEF QuicUdp!EachAskedFor
  <2>2. inbox'[owner[k]] = inbox[owner[k]] /\ inbox[owner[k]] \in Nat /\ owner'[k] = owner[k]
    BY <1>1, <1>4, Zenon DEF QuicUdp!client
  <2> QED BY <1>7, <2>1, <2>2, QuicUdpCount DEF QuicUdp!Within
<1>9. \A j \in Ids \ {owner[k]} : QuicUdp!Within(j)'
  BY <1>1, <1>3, <1>5, QuicUdpCount, Zenon DEF QuicUdp!EachAskedFor, QuicUdp!Within, QuicUdp!client
<1> QED BY <1>1, <1>2, <1>8, <1>9, Zenon DEF QuicUdp!EachAskedFor

\* An answer reaches the socket of its session or none, and is gone.
LEMMA QuicUdpRead ==
  ASSUME QuicUdp!IInv, NEW r \in Ids, NEW i \in Ids, QuicUdp!ReadDatagram(r, i) PROVE QuicUdp!IInv'
<1> USE DEF QuicUdp!IInv
<1>1. /\ i \in back /\ back' = back \ {i} /\ UNCHANGED <<proto, up, sock, readers, QuicUdp!server>>
      /\ inbox' \in {inbox, [inbox EXCEPT ![i] = @ + 1]}
  BY Zenon DEF QuicUdp!ReadDatagram
<1>2. QuicUdp!NoDeafSocket' /\ QuicUdp!HandlersHoldTheirs'
  BY <1>1, Zenon DEF QuicUdp!NoDeafSocket, QuicUdp!HandlersHoldTheirs, QuicUdp!server
<1>3. \A j \in Ids : /\ QuicUdp!AskedFor(j)' = QuicUdp!AskedFor(j) /\ QuicUdp!ToCome(j)' = QuicUdp!ToCome(j)
                     /\ QuicUdp!AskedFor(j) \in SUBSET Tasks /\ QuicUdp!ToCome(j) \in SUBSET Socks
  BY <1>1, QuicUdpCount, Zenon DEF QuicUdp!TypeOK, QuicUdp!AskedFor, QuicUdp!ToCome, QuicUdp!server
<1>4. Cardinality(Tasks) \in Nat
  BY FiniteAssumption, FS_CardinalityType, Zenon
<1>5. \A j \in Ids : /\ Cardinality(QuicUdp!AskedFor(j)) \in Nat
                     /\ Cardinality(QuicUdp!AskedFor(j)) <= Cardinality(Tasks)
                     /\ Cardinality(QuicUdp!ToCome(j)) \in Nat /\ inbox[j] \in Nat
  <2>1. \A j \in Ids : inbox[j] \in Nat
    BY QuicUdpCount DEF QuicUdp!TypeOK
  <2> QED BY <1>3, <2>1, QuicUdpCounts, Zenon
<1>6. \A j \in Ids \ {i} : inbox'[j] = inbox[j] /\ (j \in back' <=> j \in back)
  BY <1>1, QuicUdpCount, Zenon DEF QuicUdp!TypeOK
<1>7. inbox'[i] \in {inbox[i], inbox[i] + 1} /\ i \notin back'
  BY <1>1, QuicUdpCount, Zenon DEF QuicUdp!TypeOK
<1>8. QuicUdp!Within(i)
  BY Zenon DEF QuicUdp!EachAskedFor
<1>9. inbox[i] + 1 + Cardinality(QuicUdp!ToCome(i)) <= Cardinality(QuicUdp!AskedFor(i))
  BY <1>1, <1>8, QuicUdpCount, Zenon DEF QuicUdp!Within
<1>10. QuicUdp!Within(i)'
  BY <1>3, <1>5, <1>7, <1>9, QuicUdpCount DEF QuicUdp!Within
<1>11. \A j \in Ids \ {i} : QuicUdp!Within(j)'
  BY <1>3, <1>6, QuicUdpCount, Zenon DEF QuicUdp!EachAskedFor, QuicUdp!Within
<1>12. inbox'[i] \in 0..Cardinality(Tasks)
  BY <1>4, <1>5, <1>7, <1>9
<1>13. inbox' \in [Ids -> 0..Cardinality(Tasks)]
  BY <1>1, <1>12, QuicUdpCount, Zenon DEF QuicUdp!TypeOK
<1>14. QuicUdp!TypeOK'
  BY <1>1, <1>13, QuicUdpCount, Zenon DEF QuicUdp!TypeOK, QuicUdp!server
<1> QED BY <1>2, <1>10, <1>11, <1>14, Zenon DEF QuicUdp!EachAskedFor

\* A connection that closes ends what it carried.
LEMMA QuicUdpCloseConn == ASSUME QuicUdp!IInv, QuicUdp!CloseConn PROVE QuicUdp!IInv'
<1> USE DEF QuicUdp!IInv
<1>1. UNCHANGED <<proto, QuicUdp!client, QuicUdp!server>> /\ back' = {} /\ up' = FALSE
  BY Zenon DEF QuicUdp!CloseConn
<1>2. QuicUdp!TypeOK' /\ QuicUdp!NoDeafSocket' /\ QuicUdp!HandlersHoldTheirs'
  BY <1>1, QuicUdpCount, Zenon DEF QuicUdp!TypeOK, QuicUdp!NoDeafSocket, QuicUdp!HandlersHoldTheirs,
     QuicUdp!client, QuicUdp!server
<1>3. ASSUME NEW j \in Ids PROVE QuicUdp!Within(j)'
  BY <1>1, QuicUdpCounts, QuicUdpCount DEF QuicUdp!AskedFor, QuicUdp!ToCome, QuicUdp!client,
     QuicUdp!server, QuicUdp!TypeOK, QuicUdp!EachAskedFor, QuicUdp!Within
<1> QED BY <1>2, <1>3, Zenon DEF QuicUdp!EachAskedFor

\* Every step of the client, the readers and the tasks keeps the invariant.
LEMMA QuicUdpInvariance == ASSUME QuicUdp!IInv, [QuicUdp!Next]_(QuicUdp!vars) PROVE QuicUdp!IInv'
BY QuicUdpClient, QuicUdpPrepare, QuicUdpDone, QuicUdpBack, QuicUdpRead,
   QuicUdpCloseConn, Zenon DEF QuicUdp!Next, QuicUdp!RstReader, QuicUdp!Hy2Reader, QuicUdp!Reader,
   QuicUdp!RstHandler, QuicUdp!Hy2Handler, QuicUdp!HandleUdpDatagram, QuicUdp!RstRelayBack,
   QuicUdp!Hy2RelayBack

\* It holds for a new connection.
LEMMA QuicUdpInit == QuicUdp!Init => QuicUdp!IInv
<1> SUFFICES ASSUME QuicUdp!Init PROVE QuicUdp!IInv
  BY Zenon
<1>1. Cardinality(Tasks) \in Nat
  BY FiniteAssumption, FS_CardinalityType, Zenon
<1>2. QuicUdp!TypeOK /\ QuicUdp!NoDeafSocket /\ QuicUdp!HandlersHoldTheirs
  BY <1>1, QuicUdpCount
     DEF QuicUdp!Init, QuicUdp!TypeOK, QuicUdp!NoDeafSocket, QuicUdp!HandlersHoldTheirs, QuicUdp!None
<1>3. \A i \in Ids : QuicUdp!ToCome(i) = {} /\ QuicUdp!AskedFor(i) = {}
  BY Zenon DEF QuicUdp!Init, QuicUdp!ToCome, QuicUdp!AskedFor
<1>4. \A i \in Ids : inbox[i] = 0 /\ i \notin back
  BY Zenon DEF QuicUdp!Init
<1>5. ASSUME NEW i \in Ids PROVE QuicUdp!Within(i)
  BY <1>3, <1>4, FS_EmptySet, QuicUdpCount DEF QuicUdp!Within
<1> QED BY <1>2, <1>5, Zenon DEF QuicUdp!IInv, QuicUdp!EachAskedFor

\* A socket that was given an answer had asked.
LEMMA QuicUdpSafe == QuicUdp!IInv => QuicUdp!OwnAnswersOnly
<1> SUFFICES ASSUME QuicUdp!IInv, NEW i \in Ids PROVE inbox[i] <= Cardinality(QuicUdp!AskedFor(i))
  BY QuicUdpCount, Zenon DEF QuicUdp!OwnAnswersOnly, QuicUdp!AskedFor
<1>1. QuicUdp!AskedFor(i) \in SUBSET Tasks /\ QuicUdp!ToCome(i) \in SUBSET Socks
  BY QuicUdpCount, Zenon DEF QuicUdp!IInv, QuicUdp!TypeOK, QuicUdp!AskedFor, QuicUdp!ToCome
<1>2. /\ Cardinality(QuicUdp!AskedFor(i)) \in Nat /\ Cardinality(QuicUdp!ToCome(i)) \in Nat
      /\ Cardinality(Tasks) \in Nat
  BY <1>1, QuicUdpCounts, Zenon
<1>3. inbox[i] \in Nat /\ QuicUdp!Within(i)
  BY QuicUdpCount DEF QuicUdp!IInv, QuicUdp!TypeOK, QuicUdp!EachAskedFor
<1> QED BY <1>2, <1>3, QuicUdpCount DEF QuicUdp!Within
-----------------------------------------------------------------------------
(* The prober of a urltest group.                                           *)

UrlTest == INSTANCE UrlTest WITH
  Dials <- DialTasks, N <- GroupSize, handle <- prober, pc <- urlPc

\* No prober runs and the handle is empty.
LEMMA UrlTestInit == UrlTest!Init => UrlTest!IInv
<1> SUFFICES ASSUME UrlTest!Init PROVE UrlTest!IInv
  BY Zenon
<1>1. /\ prober = UrlTest!None /\ raced = FALSE
      /\ \E R : run = [p \in UrlTest!Probers |-> IF p \in Tasks \cup R THEN "off" ELSE "aborted"]
  BY Zenon DEF UrlTest!Init
<1>2. run \in [UrlTest!Probers -> {"off", "probing", "sleep", "held", "aborted"}]
  BY <1>1, Zenon
<1>3. UrlTest!Running = {}
  BY <1>1, Zenon DEF UrlTest!Running, UrlTest!Probers
<1> QED BY <1>1, <1>2, <1>3, Zenon DEF UrlTest!IInv, UrlTest!ProberIsHandled

\* What leaves the handle, the history and the running tasks alone keeps them.
LEMMA UrlTestKeeps ==
  ASSUME UrlTest!IInv, UNCHANGED <<prober, raced>>, UrlTest!Running' = UrlTest!Running,
         run' \in [UrlTest!Probers -> {"off", "probing", "sleep", "held", "aborted"}]
  PROVE  UrlTest!IInv'
BY Zenon DEF UrlTest!IInv, UrlTest!ProberIsHandled

\* A dial starts a prober only when it found none; a second one makes it a race.
LEMMA UrlTestDial == ASSUME UrlTest!IInv, NEW d \in DialTasks, UrlTest!Dial(d) PROVE UrlTest!IInv'
<1>1. CASE UrlTest!CheckHandle(d) \/ UrlTest!DialSelected(d)
  <2>1. UNCHANGED <<prober, run, raced>>
    BY <1>1, Zenon DEF UrlTest!CheckHandle, UrlTest!DialSelected
  <2>2. UrlTest!Running' = UrlTest!Running
    BY <2>1, Zenon DEF UrlTest!Running
  <2> QED BY <2>1, <2>2, UrlTestKeeps, Zenon DEF UrlTest!IInv
<1>2. CASE UrlTest!StartProbe(d)
  <2>1. PICK t \in Tasks : run[t] = "off" /\ run' = [run EXCEPT ![t] = "probing"] /\ prober' = t
    BY <1>2, Zenon DEF UrlTest!StartProbe
  <2>2. raced' = (raced \/ prober # UrlTest!None)
    BY <1>2, Zenon DEF UrlTest!StartProbe
  <2>3. /\ run' \in [UrlTest!Probers -> {"off", "probing", "sleep", "held", "aborted"}]
        /\ t \in UrlTest!Probers
        /\ run'[t] = "probing" /\ \A u \in Tasks \ {t} : run'[u] = run[u]
    BY <2>1, Zenon DEF UrlTest!IInv, UrlTest!Probers
  <2>4. UrlTest!Running' = UrlTest!Running \cup {t}
    BY <2>3, Zenon DEF UrlTest!Running
  <2>5. ASSUME ~raced' PROVE UrlTest!Running' = {t}
    <3>1. UrlTest!Running = {}
      BY <2>2, <2>5, Zenon DEF UrlTest!IInv, UrlTest!ProberIsHandled
    <3> QED BY <2>4, <3>1, Zenon
  <2>6. t # UrlTest!None
    BY DialsAssumption, Zenon DEF UrlTest!None
  <2>7. raced' \in BOOLEAN
    BY <2>2, Zenon DEF UrlTest!IInv
  <2> QED BY <2>1, <2>3, <2>5, <2>6, <2>7, Zenon DEF UrlTest!IInv, UrlTest!ProberIsHandled
<1> QED BY <1>1, <1>2, Zenon DEF UrlTest!Dial

\* A round of a task begins and ends while the task runs.
LEMMA UrlTestRound ==
  ASSUME UrlTest!IInv, NEW p \in UrlTest!Probers, UrlTest!Round(p)
  PROVE  UrlTest!IInv'
<1>1. UNCHANGED <<prober, raced>>
  BY Zenon DEF UrlTest!Round, UrlTest!Probe, UrlTest!NoAnswer, UrlTest!EndRound, UrlTest!BeginRound
<1>2. PICK l \in {"off", "probing", "sleep", "held"} :
        /\ run' = [run EXCEPT ![p] = l]
        /\ p \in Tasks => l # "off" /\ run[p] \in {"probing", "sleep", "held"}
  <2>1. CASE UrlTest!Probe(p)
    <3>1. run[p] = "probing" /\ run' = run
      BY <2>1, Zenon DEF UrlTest!Probe
    <3>2. run = [run EXCEPT ![p] = "probing"]
      BY <3>1, Zenon DEF UrlTest!IInv
    <3> QED BY <3>1, <3>2, Zenon
  <2>2. CASE UrlTest!NoAnswer(p)
    BY <2>2, Zenon DEF UrlTest!NoAnswer
  <2>3. CASE UrlTest!EndRound(p)
    BY <2>3, Zenon DEF UrlTest!EndRound
  <2>4. CASE UrlTest!BeginRound(p)
    BY <2>4, Zenon DEF UrlTest!BeginRound
  <2> QED BY <2>1, <2>2, <2>3, <2>4, Zenon DEF UrlTest!Round
<1>3. /\ run' \in [UrlTest!Probers -> {"off", "probing", "sleep", "held", "aborted"}]
      /\ run'[p] = l /\ \A q \in UrlTest!Probers \ {p} : run'[q] = run[q]
  BY <1>2, Zenon DEF UrlTest!IInv
<1>4. UrlTest!Running' = UrlTest!Running
  BY <1>2, <1>3, Zenon DEF UrlTest!Running, UrlTest!Probers
<1> QED BY <1>1, <1>3, <1>4, UrlTestKeeps, Zenon

\* close aborts the task in the handle.
LEMMA UrlTestClose == ASSUME UrlTest!IInv, UrlTest!Close PROVE UrlTest!IInv'
<1>1. /\ prober \in Tasks /\ prober # UrlTest!None /\ prober' = UrlTest!None /\ raced' = raced
      /\ run' = [run EXCEPT ![prober] = "aborted"]
  BY Zenon DEF UrlTest!Close, UrlTest!IInv
<1>2. /\ run' \in [UrlTest!Probers -> {"off", "probing", "sleep", "held", "aborted"}]
      /\ run'[prober] = "aborted" /\ \A t \in Tasks \ {prober} : run'[t] = run[t]
  BY <1>1, Zenon DEF UrlTest!IInv, UrlTest!Probers
<1>3. UrlTest!Running' = UrlTest!Running \ {prober}
  BY <1>2, Zenon DEF UrlTest!Running
<1> QED BY <1>1, <1>2, <1>3, Zenon DEF UrlTest!IInv, UrlTest!ProberIsHandled

\* Every step keeps the invariant.
LEMMA UrlTestInvariance == ASSUME UrlTest!IInv, [UrlTest!Next]_(UrlTest!vars) PROVE UrlTest!IInv'
<1>1. ASSUME UNCHANGED UrlTest!vars PROVE UrlTest!IInv'
  BY <1>1, Zenon DEF UrlTest!vars, UrlTest!IInv, UrlTest!ProberIsHandled, UrlTest!Running
<1> QED BY <1>1, UrlTestDial, UrlTestRound, UrlTestClose, Zenon DEF UrlTest!Next
-----------------------------------------------------------------------------
(* Pooled connections: TUIC, Hysteria and SSH.                              *)

PooledDial == INSTANCE PooledDial WITH
  Dials <- PoolDials, Dests <- PoolDests

\* The component counts as this module does.
LEMMA PooledDialCount == \A S : PooledDial!Cardinality(S) = Cardinality(S)
BY Zenon DEF PooledDial!Cardinality, Cardinality, PooledDial!IsFiniteSet, IsFiniteSet

\* No connection, and no dial under way.
LEMMA PooledInit == PooledDial!Init => PooledDial!IInv
<1> SUFFICES ASSUME PooledDial!Init PROVE PooledDial!IInv
  BY Zenon
<1>1. /\ lock = PooledDial!Free /\ cached = 0 /\ conns = 0 /\ live = {}
      /\ dial \in [PoolDials -> [pc : {"idle"}, conn : {0}, dest : PoolDests]]
  BY Zenon DEF PooledDial!Init
<1>2. dial \in [PoolDials -> [pc : {"idle", "connect", "open", "answer", "done", "failed"},
                         conn : Nat, dest : PoolDests]]
  BY <1>1
<1>3. \A d \in PoolDials : dial[d].pc = "idle"
  BY <1>1, Zenon
<1> QED BY <1>1, <1>2, <1>3, Zenon DEF PooledDial!IInv, PooledDial!UsesLive, PooledDial!FailsWithCause

\* A dial that goes on to l, on connection c, is there; the others stay.
LEMMA PooledGoes ==
  ASSUME PooledDial!IInv, NEW d \in PoolDials, NEW c \in Nat,
         NEW l \in {"idle", "connect", "open", "answer", "done", "failed"},
         PooledDial!Takes(d, c, l) \/ (PooledDial!Goes(d, l) /\ c = dial[d].conn)
  PROVE  /\ dial' \in [PoolDials -> [pc : {"idle", "connect", "open", "answer", "done", "failed"},
                                conn : Nat, dest : PoolDests]]
         /\ dial'[d].pc = l /\ dial'[d].conn = c
         /\ \A e \in PoolDials \ {d} : dial'[e] = dial[e]
BY DEF PooledDial!IInv, PooledDial!Takes, PooledDial!Goes

\* Connections of dials are numbers.
LEMMA PooledConn == ASSUME PooledDial!IInv, NEW d \in PoolDials PROVE dial[d].conn \in Nat
BY Zenon DEF PooledDial!IInv

\* With the mutex free no dial connects; a dial that connects is the only one.
LEMMA PooledAlone ==
  ASSUME PooledDial!IInv
  PROVE  /\ lock = PooledDial!Free => \A e \in PoolDials : dial[e].pc # "connect"
         /\ \A d \in PoolDials : dial[d].pc = "connect"
              => lock = d /\ live = {} /\ \A e \in PoolDials \ {d} : dial[e].pc # "connect"
BY DialsAssumption, Zenon DEF PooledDial!IInv, PooledDial!Free

\* A QUIC dial takes the connection that lives, or the mutex when none does.
LEMMA PooledAcquire ==
  ASSUME PooledDial!IInv, NEW d \in PoolDials, PooledDial!Acquire(d)
  PROVE  PooledDial!IInv'
<1>1. /\ kind \in PooledDial!Quic /\ dial[d].pc = "idle" /\ lock = PooledDial!Free
      /\ UNCHANGED <<kind, cred, cached, conns, live, refused, hit>>
  BY Zenon DEF PooledDial!Acquire
<1>2. \A e \in PoolDials : dial[e].pc # "connect"
  BY <1>1, PooledAlone, Zenon
<1>3. CASE PooledDial!Usable
  <2>1. PooledDial!Takes(d, cached, "open") /\ lock' = PooledDial!Free /\ cached \in live
    BY <1>3, Zenon DEF PooledDial!Acquire, PooledDial!Usable
  <2>2. cached \in Nat
    BY Zenon DEF PooledDial!IInv
  <2>3. /\ dial' \in [PoolDials -> [pc : {"idle", "connect", "open", "answer", "done", "failed"},
                               conn : Nat, dest : PoolDests]]
        /\ dial'[d].pc = "open" /\ dial'[d].conn = cached
        /\ \A e \in PoolDials \ {d} : dial'[e] = dial[e]
    BY <2>1, <2>2, PooledGoes, Zenon
  <2> QED BY <1>1, <1>2, <2>1, <2>3, Zenon
             DEF PooledDial!IInv, PooledDial!UsesLive, PooledDial!FailsWithCause
<1>4. CASE ~PooledDial!Usable
  <2>1. PooledDial!Goes(d, "connect") /\ lock' = d /\ live = {}
    BY <1>4, Zenon DEF PooledDial!Acquire, PooledDial!Usable, PooledDial!IInv
  <2>2. /\ dial' \in [PoolDials -> [pc : {"idle", "connect", "open", "answer", "done", "failed"},
                               conn : Nat, dest : PoolDests]]
        /\ dial'[d].pc = "connect" /\ \A e \in PoolDials \ {d} : dial'[e] = dial[e]
    BY <2>1, PooledGoes, PooledConn, Zenon
  <2> QED BY <1>1, <1>2, <2>1, <2>2, Zenon
             DEF PooledDial!IInv, PooledDial!UsesLive, PooledDial!FailsWithCause
<1> QED BY <1>3, <1>4, Zenon

\* An SSH dial takes any session there is and keeps the mutex.
LEMMA PooledSsh ==
  ASSUME PooledDial!IInv, NEW d \in PoolDials, PooledDial!SshAcquire(d)
  PROVE  PooledDial!IInv'
<1>1. /\ kind \notin PooledDial!Quic /\ dial[d].pc = "idle" /\ lock = PooledDial!Free /\ lock' = d
      /\ UNCHANGED <<kind, cred, cached, conns, live, refused, hit>>
  BY Zenon DEF PooledDial!SshAcquire, PooledDial!Quic
<1>2. \A e \in PoolDials : dial[e].pc # "connect"
  BY <1>1, PooledAlone, Zenon
<1>3. CASE cached # 0
  <2>1. PooledDial!Takes(d, cached, "open") /\ cached \in Nat
    BY <1>3, Zenon DEF PooledDial!SshAcquire, PooledDial!IInv
  <2>2. /\ dial' \in [PoolDials -> [pc : {"idle", "connect", "open", "answer", "done", "failed"},
                               conn : Nat, dest : PoolDests]]
        /\ dial'[d].pc = "open" /\ \A e \in PoolDials \ {d} : dial'[e] = dial[e]
    BY <2>1, PooledGoes, Zenon
  <2> QED BY <1>1, <1>2, <2>2, Zenon DEF PooledDial!IInv, PooledDial!FailsWithCause
<1>4. CASE cached = 0
  <2>1. PooledDial!Goes(d, "connect") /\ live = {}
    BY <1>4, Zenon DEF PooledDial!SshAcquire, PooledDial!IInv
  <2>2. /\ dial' \in [PoolDials -> [pc : {"idle", "connect", "open", "answer", "done", "failed"},
                               conn : Nat, dest : PoolDests]]
        /\ dial'[d].pc = "connect" /\ \A e \in PoolDials \ {d} : dial'[e] = dial[e]
    BY <2>1, PooledGoes, PooledConn, Zenon
  <2> QED BY <1>1, <1>2, <2>1, <2>2, Zenon DEF PooledDial!IInv, PooledDial!FailsWithCause
<1> QED BY <1>3, <1>4, Zenon

\* The handshake makes the only connection that lives.
LEMMA PooledConnected ==
  ASSUME PooledDial!IInv, NEW d \in PoolDials, PooledDial!Connected(d)
  PROVE  PooledDial!IInv'
<1>1. /\ dial[d].pc = "connect" /\ conns' = conns + 1 /\ live' = live \cup {conns + 1}
      /\ cached' = conns + 1 /\ PooledDial!Takes(d, conns + 1, "open")
      /\ lock' \in {lock, PooledDial!Unlocked(d)}
      /\ UNCHANGED <<kind, cred, refused, hit>>
  BY Zenon DEF PooledDial!Connected
<1>2. lock = d /\ live = {} /\ \A e \in PoolDials \ {d} : dial[e].pc # "connect"
  BY <1>1, PooledAlone, Zenon
<1>3. conns + 1 \in Nat /\ conns + 1 # 0
  BY DEF PooledDial!IInv
<1>4. /\ dial' \in [PoolDials -> [pc : {"idle", "connect", "open", "answer", "done", "failed"},
                             conn : Nat, dest : PoolDests]]
      /\ dial'[d].pc = "open" /\ dial'[d].conn = conns + 1
      /\ \A e \in PoolDials \ {d} : dial'[e] = dial[e]
  BY <1>1, <1>3, PooledGoes, Zenon
<1>5. lock' \in PoolDials \cup {PooledDial!Free} /\ live' = {conns + 1}
  BY <1>1, <1>2, Zenon DEF PooledDial!Unlocked
<1>6. (kind \in PooledDial!Quic => \A e \in PoolDials : PooledDial!UsesLive(e))'
  BY <1>1, <1>2, <1>4, <1>5, Zenon DEF PooledDial!IInv, PooledDial!UsesLive
<1>7. PooledDial!FailsWithCause'
  BY <1>1, <1>4, Zenon DEF PooledDial!IInv, PooledDial!FailsWithCause
<1>8. \A e \in PoolDials : dial'[e].pc # "connect" /\ (dial'[e].pc = "answer" => kind' = "tuic")
  BY <1>1, <1>2, <1>4, Zenon DEF PooledDial!IInv
<1> QED BY <1>1, <1>3, <1>4, <1>5, <1>6, <1>7, <1>8, Zenon DEF PooledDial!IInv

\* A handshake that fails is the server's refusal, and lets the mutex go.
LEMMA PooledConnectFails ==
  ASSUME PooledDial!IInv, NEW d \in PoolDials, PooledDial!ConnectFails(d)
  PROVE  PooledDial!IInv'
<1>1. /\ dial[d].pc = "connect" /\ PooledDial!Goes(d, "failed") /\ refused' = refused \cup {d}
      /\ lock' = PooledDial!Unlocked(d) /\ UNCHANGED <<kind, cred, cached, conns, live, hit>>
  BY Zenon DEF PooledDial!ConnectFails
<1>2. lock = d /\ \A e \in PoolDials \ {d} : dial[e].pc # "connect"
  BY <1>1, PooledAlone, Zenon
<1>3. /\ dial' \in [PoolDials -> [pc : {"idle", "connect", "open", "answer", "done", "failed"},
                             conn : Nat, dest : PoolDests]]
      /\ dial'[d].pc = "failed" /\ \A e \in PoolDials \ {d} : dial'[e] = dial[e]
  BY <1>1, PooledGoes, PooledConn, Zenon
<1>4. PooledDial!FailsWithCause'
  BY <1>1, <1>3, Zenon DEF PooledDial!IInv, PooledDial!FailsWithCause
<1> QED BY <1>1, <1>2, <1>3, <1>4, Zenon DEF PooledDial!IInv, PooledDial!UsesLive, PooledDial!Unlocked

\* A stream that cannot be opened is one whose connection closed under the dial.
LEMMA PooledOpen ==
  ASSUME PooledDial!IInv, NEW d \in PoolDials, PooledDial!OpenStream(d)
  PROVE  PooledDial!IInv'
<1>1. dial[d].pc = "open" /\ lock' = PooledDial!Unlocked(d)
      /\ UNCHANGED <<kind, cred, cached, conns, live, refused, hit>>
  BY Zenon DEF PooledDial!OpenStream
<1>2. PICK l \in {"failed", "answer", "done"} :
        /\ PooledDial!Goes(d, l) /\ (l = "failed" => dial[d].conn \notin live)
        /\ (l = "answer" => kind = "tuic" /\ dial[d].conn \in live)
  BY Zenon DEF PooledDial!OpenStream
<1>3. /\ dial' \in [PoolDials -> [pc : {"idle", "connect", "open", "answer", "done", "failed"},
                             conn : Nat, dest : PoolDests]]
      /\ dial'[d].pc = l /\ dial'[d].conn = dial[d].conn
      /\ \A e \in PoolDials \ {d} : dial'[e] = dial[e]
  BY <1>2, PooledGoes, PooledConn, Zenon
<1>4. PooledDial!FailsWithCause'
  BY <1>1, <1>2, <1>3, Zenon DEF PooledDial!IInv, PooledDial!FailsWithCause, PooledDial!UsesLive
<1>5. lock' \in PoolDials \cup {PooledDial!Free} /\ \A e \in PoolDials \ {d} : lock = e => lock' = e
  BY <1>1, Zenon DEF PooledDial!Unlocked, PooledDial!IInv
<1>6. \A e \in PoolDials : dial'[e].pc = "connect" => lock' = e /\ live' = {}
  BY <1>1, <1>2, <1>3, <1>5, Zenon DEF PooledDial!IInv
<1>7. (kind \in PooledDial!Quic => \A e \in PoolDials : PooledDial!UsesLive(e))'
  BY <1>1, <1>2, <1>3, Zenon DEF PooledDial!IInv, PooledDial!UsesLive
<1> QED BY <1>1, <1>2, <1>3, <1>4, <1>5, <1>6, <1>7, Zenon DEF PooledDial!IInv

\* The server refuses a user it does not know, or the answer is lost with the
\* connection.
LEMMA PooledAnswers ==
  ASSUME PooledDial!IInv, NEW d \in PoolDials, PooledDial!TuicAnswers(d) \/ PooledDial!AnswerLost(d)
  PROVE  PooledDial!IInv'
<1>1. /\ dial[d].pc = "answer"
      /\ UNCHANGED <<kind, cred, lock, cached, conns, live, refused, hit>>
  BY Zenon DEF PooledDial!TuicAnswers, PooledDial!AnswerLost
<1>2. PICK l \in {"failed", "done"} :
        PooledDial!Goes(d, l) /\ (l = "failed" => ~PooledDial!Authorised(cred) \/ dial[d].conn \notin live)
  BY Zenon DEF PooledDial!TuicAnswers, PooledDial!AnswerLost
<1>3. /\ dial' \in [PoolDials -> [pc : {"idle", "connect", "open", "answer", "done", "failed"},
                             conn : Nat, dest : PoolDests]]
      /\ dial'[d].pc = l /\ \A e \in PoolDials \ {d} : dial'[e] = dial[e]
  BY <1>2, PooledGoes, PooledConn, Zenon
<1>4. PooledDial!Authorised(cred)' = PooledDial!Authorised(cred)
  BY <1>1, Zenon DEF PooledDial!Authorised
<1>5. PooledDial!FailsWithCause'
  BY <1>1, <1>2, <1>3, <1>4, Zenon DEF PooledDial!IInv, PooledDial!FailsWithCause, PooledDial!UsesLive
<1> QED BY <1>1, <1>2, <1>3, <1>5, Zenon DEF PooledDial!IInv, PooledDial!UsesLive

\* A connection that ends is marked with the dials that use it.
LEMMA PooledCloses ==
  ASSUME PooledDial!IInv, PooledDial!Close \/ \E c \in live : PooledDial!ConnCloses(c)
  PROVE  PooledDial!IInv'
<1>1. UNCHANGED <<kind, cred, lock, conns, dial, refused>>
  BY Zenon DEF PooledDial!Close, PooledDial!ConnCloses
<1>2. CASE \E c \in live : PooledDial!ConnCloses(c)
  <2>1. PICK c \in live : PooledDial!ConnCloses(c)
    BY <1>2, Zenon
  <2>2. live' = live \ {c} /\ hit' = hit \cup PooledDial!Using(c) /\ cached' = cached
    BY <2>1, Zenon DEF PooledDial!ConnCloses
  <2>3. (kind \in PooledDial!Quic => \A e \in PoolDials : PooledDial!UsesLive(e))'
    BY <1>1, <2>2, Zenon DEF PooledDial!IInv, PooledDial!UsesLive, PooledDial!Using
  <2>4. PooledDial!FailsWithCause'
    BY <1>1, <2>2, Zenon DEF PooledDial!IInv, PooledDial!FailsWithCause, PooledDial!Authorised
  <2> QED BY <1>1, <2>2, <2>3, <2>4, Zenon DEF PooledDial!IInv
<1>3. CASE PooledDial!Close /\ kind \in PooledDial!Quic
  <2>1. /\ lock = PooledDial!Free /\ live' = live \ {cached}
        /\ hit' = hit \cup PooledDial!Using(cached) /\ cached' = 0
    BY <1>3, Zenon DEF PooledDial!Close
  <2>2. live' = {} /\ \A c \in live : c = cached
    BY <2>1, Zenon DEF PooledDial!IInv
  <2>3. (kind \in PooledDial!Quic => \A e \in PoolDials : PooledDial!UsesLive(e))'
    BY <1>1, <2>1, <2>2, Zenon DEF PooledDial!IInv, PooledDial!UsesLive, PooledDial!Using
  <2>4. PooledDial!FailsWithCause'
    BY <1>1, <2>1, Zenon DEF PooledDial!IInv, PooledDial!FailsWithCause, PooledDial!Authorised
  <2>5. \A e \in PoolDials : dial[e].pc # "connect"
    BY <2>1, PooledAlone, Zenon
  <2> QED BY <1>1, <2>1, <2>2, <2>3, <2>4, <2>5, Zenon DEF PooledDial!IInv
<1>4. CASE PooledDial!Close /\ kind \notin PooledDial!Quic
  <2>1. UNCHANGED <<live, hit, cached>>
    BY <1>4, Zenon DEF PooledDial!Close
  <2> QED BY <1>1, <2>1, Zenon
             DEF PooledDial!IInv, PooledDial!UsesLive, PooledDial!FailsWithCause, PooledDial!Authorised
<1> QED BY <1>2, <1>3, <1>4, Zenon

\* Every step keeps the invariant.
LEMMA PooledInvariance ==
  ASSUME PooledDial!IInv, [PooledDial!Next]_(PooledDial!vars)
  PROVE  PooledDial!IInv'
<1>1. ASSUME UNCHANGED PooledDial!vars PROVE PooledDial!IInv'
  BY <1>1, Zenon DEF PooledDial!vars, PooledDial!IInv, PooledDial!UsesLive, PooledDial!FailsWithCause,
     PooledDial!Authorised
<1> QED BY <1>1, PooledAcquire, PooledSsh, PooledConnected, PooledConnectFails, PooledOpen,
           PooledAnswers, PooledCloses, Zenon DEF PooledDial!Next, PooledDial!Step

\* A dial fails for cause, and one connection lives at most.
LEMMA PooledSafe ==
  ASSUME PooledDial!IInv
  PROVE  PooledDial!FailsWithCause /\ PooledDial!OneConnection
<1>1. live = {} \/ live = {cached}
  BY Zenon DEF PooledDial!IInv
<1>2. Cardinality(live) \in {0, 1}
  BY <1>1, FS_EmptySet, FS_Singleton, Zenon
<1>3. PooledDial!OneConnection
  BY <1>2, PooledDialCount DEF PooledDial!OneConnection
<1> QED BY <1>3, Zenon DEF PooledDial!IInv
-----------------------------------------------------------------------------
(* The start and the close of a WireGuard tunnel.                           *)

WireGuard == INSTANCE WireGuard WITH
  Dials <- DialTasks, None <- NoAddr, dial <- wgDial, lock <- wgLock,
  refused <- wgRefused

\* The component counts as this module does.
LEMMA WireGuardCount == \A S : WireGuard!Cardinality(S) = Cardinality(S)
BY Zenon DEF WireGuard!Cardinality, Cardinality, WireGuard!IsFiniteSet, IsFiniteSet

\* No dial has asked for the tunnel yet.
LEMMA WireGuardInit == WireGuard!Init => WireGuard!IInv
<1> SUFFICES ASSUME WireGuard!Init PROVE WireGuard!IInv
  BY Zenon
<1>1. wgDial = [d \in DialTasks |-> "idle"] /\ port = WireGuard!Free /\ closing = "no"
  BY Zenon DEF WireGuard!Init
<1>2. wgDial \in [DialTasks -> WireGuard!Starting \cup {"idle", "done", "failed"}]
  BY <1>1, Zenon
<1>3. \A d \in DialTasks : wgDial[d] = "idle"
  BY <1>1, Zenon
<1> QED BY <1>1, <1>2, <1>3, Zenon DEF WireGuard!IInv, WireGuard!Starting, WireGuard!DialsShareTunnel

\* Only one dial starts the tunnel: that with the lock, and the port is its own.
LEMMA WireGuardAlone ==
  ASSUME WireGuard!IInv, NEW d \in DialTasks, wgDial[d] \in WireGuard!Starting
  PROVE  /\ wgLock = d /\ ~started /\ \A e \in DialTasks \ {d} : wgDial[e] \notin WireGuard!Starting
         /\ ~(closing # "no" /\ ~early)
         /\ wgDial[d] = "start" => port = WireGuard!Free
BY Zenon DEF WireGuard!IInv, WireGuard!Starting

\* A dial that goes on to l is there, and the others are where they were.
LEMMA WireGuardGoes ==
  ASSUME WireGuard!IInv, NEW d \in DialTasks,
         NEW l \in WireGuard!Starting \cup {"idle", "done", "failed"},
         WireGuard!SetDial(d, l)
  PROVE  /\ wgDial' \in [DialTasks -> WireGuard!Starting \cup {"idle", "done", "failed"}]
         /\ wgDial'[d] = l /\ \A e \in DialTasks \ {d} : wgDial'[e] = wgDial[e]
BY Zenon DEF WireGuard!IInv, WireGuard!SetDial

\* A dial takes the lock to start the tunnel, or finds it started.
LEMMA WireGuardEnsure ==
  ASSUME WireGuard!IInv, NEW d \in DialTasks, WireGuard!EnsureStarted(d)
  PROVE  WireGuard!IInv'
<1>1. /\ wgDial[d] = "idle" /\ wgLock = WireGuard!Free
      /\ UNCHANGED <<started, port, tasks, closing, early, wgRefused>>
  BY Zenon DEF WireGuard!EnsureStarted
<1>2. \A e \in DialTasks : wgDial[e] \notin WireGuard!Starting
  BY <1>1, DialsAssumption, Zenon DEF WireGuard!IInv, WireGuard!Free
<1>3. CASE started
  <2>1. WireGuard!SetDial(d, "done")
    BY <1>3, Zenon DEF WireGuard!EnsureStarted
  <2>2. /\ wgDial' \in [DialTasks -> WireGuard!Starting \cup {"idle", "done", "failed"}]
        /\ wgDial'[d] = "done" /\ \A e \in DialTasks \ {d} : wgDial'[e] = wgDial[e]
    BY <2>1, WireGuardGoes, Zenon
  <2> QED BY <1>1, <1>2, <1>3, <2>2, Zenon
             DEF WireGuard!IInv, WireGuard!Starting, WireGuard!DialsShareTunnel
<1>4. CASE ~started
  <2>1. WireGuard!SetDial(d, "start") /\ wgLock' = d
    BY <1>4, Zenon DEF WireGuard!EnsureStarted
  <2>2. /\ wgDial' \in [DialTasks -> WireGuard!Starting \cup {"idle", "done", "failed"}]
        /\ wgDial'[d] = "start" /\ \A e \in DialTasks \ {d} : wgDial'[e] = wgDial[e]
    BY <2>1, WireGuardGoes, Zenon DEF WireGuard!Starting
  <2>3. port = WireGuard!Free
    BY <1>2, <1>4, Zenon DEF WireGuard!IInv
  <2> QED BY <1>1, <1>2, <1>4, <2>1, <2>2, <2>3, Zenon
             DEF WireGuard!IInv, WireGuard!Starting, WireGuard!DialsShareTunnel
<1> QED BY <1>3, <1>4, Zenon

\* The dial that starts the tunnel binds the port, which is free: a refusal is
\* the system's.
LEMMA WireGuardBind ==
  ASSUME WireGuard!IInv, NEW d \in DialTasks, WireGuard!Bind(d)
  PROVE  WireGuard!IInv'
<1>1. wgDial[d] = "start" /\ UNCHANGED <<started, tasks, closing, early>>
  BY Zenon DEF WireGuard!Bind
<1>2. /\ wgLock = d /\ ~started /\ \A e \in DialTasks \ {d} : wgDial[e] \notin WireGuard!Starting
      /\ ~(closing # "no" /\ ~early) /\ port = WireGuard!Free
  BY <1>1, WireGuardAlone, Zenon DEF WireGuard!Starting
<1>3. CASE WireGuard!SetDial(d, "bound") /\ UNCHANGED <<wgLock, wgRefused>>
  <2>1. /\ wgDial' \in [DialTasks -> WireGuard!Starting \cup {"idle", "done", "failed"}]
        /\ wgDial'[d] = "bound" /\ \A e \in DialTasks \ {d} : wgDial'[e] = wgDial[e]
    BY <1>3, WireGuardGoes, Zenon DEF WireGuard!Starting
  <2> QED BY <1>1, <1>2, <1>3, <2>1, Zenon
             DEF WireGuard!IInv, WireGuard!Starting, WireGuard!DialsShareTunnel
<1>4. CASE WireGuard!SetDial(d, "failed") /\ wgRefused' = (wgRefused \/ port = WireGuard!Free)
      /\ UNCHANGED port
  <2>1. /\ wgDial' \in [DialTasks -> WireGuard!Starting \cup {"idle", "done", "failed"}]
        /\ wgDial'[d] = "failed" /\ \A e \in DialTasks \ {d} : wgDial'[e] = wgDial[e]
    BY <1>4, WireGuardGoes, Zenon
  <2>2. wgRefused'
    BY <1>2, <1>4, Zenon
  <2>3. \A e \in DialTasks : wgDial'[e] \notin WireGuard!Starting
    BY <1>2, <2>1, Zenon DEF WireGuard!Starting
  <2> QED BY <1>1, <1>2, <1>4, <2>1, <2>2, <2>3, Zenon DEF WireGuard!IInv, WireGuard!DialsShareTunnel
<1> QED BY <1>3, <1>4, Zenon DEF WireGuard!Bind

\* With the socket it asks for the device; only the system can refuse it.
LEMMA WireGuardCreate ==
  ASSUME WireGuard!IInv, NEW d \in DialTasks, WireGuard!CreateTun(d)
  PROVE  WireGuard!IInv'
<1>1. wgDial[d] = "bound" /\ UNCHANGED <<started, tasks, closing, early>>
  BY Zenon DEF WireGuard!CreateTun
<1>2. /\ wgLock = d /\ ~started /\ \A e \in DialTasks \ {d} : wgDial[e] \notin WireGuard!Starting
      /\ ~(closing # "no" /\ ~early)
  BY <1>1, WireGuardAlone, Zenon DEF WireGuard!Starting
<1>3. CASE WireGuard!SetDial(d, "device") /\ UNCHANGED <<wgLock, port, wgRefused>>
  <2>1. /\ wgDial' \in [DialTasks -> WireGuard!Starting \cup {"idle", "done", "failed"}]
        /\ wgDial'[d] = "device" /\ \A e \in DialTasks \ {d} : wgDial'[e] = wgDial[e]
    BY <1>3, WireGuardGoes, Zenon DEF WireGuard!Starting
  <2> QED BY <1>1, <1>2, <1>3, <2>1, Zenon
             DEF WireGuard!IInv, WireGuard!Starting, WireGuard!DialsShareTunnel
<1>4. CASE WireGuard!SetDial(d, "failed") /\ port' = WireGuard!Free /\ wgRefused' = TRUE
  <2>1. /\ wgDial' \in [DialTasks -> WireGuard!Starting \cup {"idle", "done", "failed"}]
        /\ wgDial'[d] = "failed" /\ \A e \in DialTasks \ {d} : wgDial'[e] = wgDial[e]
    BY <1>4, WireGuardGoes, Zenon
  <2>2. \A e \in DialTasks : wgDial'[e] \notin WireGuard!Starting
    BY <1>2, <2>1, Zenon DEF WireGuard!Starting
  <2> QED BY <1>1, <1>2, <1>4, <2>1, <2>2, Zenon DEF WireGuard!IInv, WireGuard!DialsShareTunnel
<1> QED BY <1>3, <1>4, Zenon DEF WireGuard!CreateTun

\* The task runs, then its handle is stored and the lock let go.
LEMMA WireGuardSpawn ==
  ASSUME WireGuard!IInv, NEW d \in DialTasks, WireGuard!Spawn(d) \/ WireGuard!Store(d)
  PROVE  WireGuard!IInv'
<1>1. wgDial[d] \in WireGuard!Starting \ {"start"} /\ UNCHANGED <<port, closing, early, wgRefused>>
  BY Zenon DEF WireGuard!Spawn, WireGuard!Store, WireGuard!Starting
<1>2. /\ wgLock = d /\ ~started /\ \A e \in DialTasks \ {d} : wgDial[e] \notin WireGuard!Starting
      /\ ~(closing # "no" /\ ~early)
  BY <1>1, WireGuardAlone, Zenon
<1>3. CASE WireGuard!Spawn(d)
  <2>1. WireGuard!SetDial(d, "spawned") /\ UNCHANGED <<wgLock, started>>
    BY <1>3, Zenon DEF WireGuard!Spawn
  <2>2. /\ wgDial' \in [DialTasks -> WireGuard!Starting \cup {"idle", "done", "failed"}]
        /\ wgDial'[d] = "spawned" /\ \A e \in DialTasks \ {d} : wgDial'[e] = wgDial[e]
    BY <2>1, WireGuardGoes, Zenon DEF WireGuard!Starting
  <2> QED BY <1>1, <1>2, <2>1, <2>2, Zenon
             DEF WireGuard!IInv, WireGuard!Starting, WireGuard!DialsShareTunnel
<1>4. CASE WireGuard!Store(d)
  <2>1. WireGuard!SetDial(d, "done") /\ started' = TRUE
    BY <1>4, Zenon DEF WireGuard!Store
  <2>2. /\ wgDial' \in [DialTasks -> WireGuard!Starting \cup {"idle", "done", "failed"}]
        /\ wgDial'[d] = "done" /\ \A e \in DialTasks \ {d} : wgDial'[e] = wgDial[e]
    BY <2>1, WireGuardGoes, Zenon
  <2>3. \A e \in DialTasks : wgDial'[e] \notin WireGuard!Starting
    BY <1>2, <2>2, Zenon DEF WireGuard!Starting
  <2> QED BY <1>1, <1>2, <2>1, <2>2, <2>3, Zenon DEF WireGuard!IInv, WireGuard!DialsShareTunnel
<1> QED BY <1>3, <1>4, Zenon

\* close ends the tasks there are; a tunnel that had started stays marked so.
LEMMA WireGuardClose ==
  ASSUME WireGuard!IInv, WireGuard!Shutdown \/ WireGuard!Abort
  PROVE  WireGuard!IInv'
<1>1. UNCHANGED <<wgDial, wgLock, started, wgRefused>> /\ port' \in {port, WireGuard!Free}
  BY Zenon DEF WireGuard!Shutdown, WireGuard!Abort
<1>2. closing' \in {"sent", "closed"}
  BY Zenon DEF WireGuard!Shutdown, WireGuard!Abort
<1>3. ASSUME ~early' PROVE started' /\ tasks' = 0
  <2>1. CASE WireGuard!Shutdown
    BY <1>3, <2>1, Zenon DEF WireGuard!Shutdown
  <2>2. CASE WireGuard!Abort
    BY <1>3, <2>2, Zenon DEF WireGuard!Abort, WireGuard!IInv
  <2> QED BY <2>1, <2>2, Zenon
<1> QED BY <1>1, <1>2, <1>3, Zenon DEF WireGuard!IInv, WireGuard!DialsShareTunnel

\* The packets of the tunnel leave the outbound alone.
LEMMA WireGuardPackets == ASSUME WireGuard!IInv, UNCHANGED WireGuard!outbound PROVE WireGuard!IInv'
BY Zenon DEF WireGuard!IInv, WireGuard!outbound, WireGuard!DialsShareTunnel

\* Every step keeps the invariant.
LEMMA WireGuardInvariance ==
  ASSUME WireGuard!IInv, [WireGuard!Next]_(WireGuard!vars)
  PROVE  WireGuard!IInv'
<1>1. ASSUME UNCHANGED WireGuard!vars PROVE UNCHANGED WireGuard!outbound
  BY <1>1, Zenon DEF WireGuard!vars
<1>2. ASSUME WireGuard!Tick \/ \E dest \in Dests : WireGuard!TunRead(dest)
      PROVE  UNCHANGED WireGuard!outbound
  BY <1>2, Zenon DEF WireGuard!Tick, WireGuard!TunRead
<1>3. ASSUME NEW m, WireGuard!Recv(m) \/ WireGuard!PeerReceives(m) \/ WireGuard!Lose(m)
      PROVE  UNCHANGED WireGuard!outbound
  BY <1>3, Zenon DEF WireGuard!Recv, WireGuard!PeerReceives, WireGuard!Lose
<1>4. ASSUME NEW p, WireGuard!PeerSends(p) PROVE UNCHANGED WireGuard!outbound
  BY <1>4, Zenon DEF WireGuard!PeerSends
<1> QED BY <1>1, <1>2, <1>3, <1>4, WireGuardEnsure, WireGuardBind, WireGuardCreate, WireGuardSpawn,
           WireGuardClose, WireGuardPackets, Zenon DEF WireGuard!Next

\* A dial fails only by the system's refusal, and a closed tunnel stays closed.
LEMMA WireGuardSafe ==
  ASSUME WireGuard!IInv
  PROVE  WireGuard!DialsShareTunnel /\ WireGuard!ClosedStaysClosed
BY Zenon DEF WireGuard!IInv, WireGuard!ClosedStaysClosed
-----------------------------------------------------------------------------
(* The run: one of the components.                                          *)

RsqClient == INSTANCE RsqClient WITH
  TcpDials <- {"t1", "t2"}, DnsDials <- {}, UdpDials <- {"u1"},
  Rounds <- {{"t1", "t2"}, {"t1", "u1"}}, Prober <- "prober", DialPermits <- 1,
  MaxProbes <- 0,
  session <- v1, generation <- v2, inflight <- v3, aged <- v4, live <- v5,
  closing <- v6, pc <- v7, own <- v8, tries <- v9, fails <- v10, probes <- v11,
  cut <- v12, rewarmed <- v13
VmessAead == INSTANCE VmessAead WITH
  Users <- {"u1","u2","u3"},
  Configs <- {<<"u1">>,<<"u1","u2">>,<<"u2","u1","u2">>}, Skews <- -3..3,
  MaxSkew <- 2, Dests <- [kind : {"v4","v6"}, port : {1}], Paddings <- {0,15},
  FieldLen <- 2, BodyLen <- 1,
  uuid <- v1, users <- v2, skew <- v3, dest <- v4, padding <- v5, packet <- v6,
  accepted <- v7, client <- v8, server <- v9, response <- v10, arrived <- v11,
  eof <- v12, reader <- v13, filled <- v14, taken <- v15, task <- v16, cut <- v17
TailscaleNode == INSTANCE TailscaleNode WITH
  MaxStarts <- 2, MaxRecords <- 2,
  dir <- v1, control <- v2, disk <- v3, pc <- v4, starts <- v5, local <- v6,
  reg <- v7, wg <- v8, controlKey <- v9, wire <- v10, conn <- v11,
  serverKey <- v12, session <- v13, registered <- v14, tagFailed <- v15,
  upKey <- v16

\* The state of a component that does not run.
NoRsqUdp ==
  /\ conn = "idle" /\ socket = "idle" /\ demux = "idle" /\ rsqInbox = "idle"
  /\ c2s = "idle" /\ s2c = "idle" /\ rsqSessions = "idle" /\ sess = "idle"
  /\ rsqRelay = "idle" /\ answers = "idle" /\ late = "idle"
NoQuicUdp ==
  /\ proto = "idle" /\ up = "idle" /\ sock = "idle" /\ readers = "idle"
  /\ inbox = "idle" /\ task = "idle" /\ tid = "idle" /\ using = "idle"
  /\ sessions = "idle" /\ owner = "idle" /\ relay = "idle" /\ asked = "idle"
  /\ back = "idle"
NoUrlTest ==
  /\ prober = "idle" /\ run = "idle" /\ delays = "idle" /\ selected = "idle"
  /\ urlPc = "idle" /\ raced = "idle"
NoPooled ==
  /\ kind = "idle" /\ cred = "idle" /\ lock = "idle" /\ cached = "idle"
  /\ conns = "idle" /\ live = "idle" /\ dial = "idle" /\ refused = "idle"
  /\ hit = "idle" /\ served = "idle" /\ closed = "idle"
NoWireGuard ==
  /\ wgDial = "idle" /\ wgLock = "idle" /\ started = "idle" /\ port = "idle"
  /\ tasks = "idle" /\ handle = "idle" /\ closing = "idle" /\ early = "idle"
  /\ wgRefused = "idle" /\ tunn = "idle" /\ queue = "idle"
  /\ endpoint = "idle" /\ where = "idle" /\ seen = "idle" /\ net = "idle"
  /\ routed = "idle" /\ packets = "idle" /\ moves = "idle" /\ losses = "idle"

MCInit ==
  /\ part \in {"fallback", "rsqudp", "quicudp", "urltest", "pooled", "wireguard", "rsq", "vmess", "tailscale"}
  /\ Init
  /\ IF part = "rsqudp" THEN RsqUdpRelay!Init ELSE NoRsqUdp
  /\ IF part = "quicudp" THEN QuicUdp!Init ELSE NoQuicUdp
  /\ IF part = "urltest" THEN UrlTest!Init ELSE NoUrlTest
  /\ IF part = "pooled" THEN PooledDial!Init ELSE NoPooled
  /\ IF part = "wireguard" THEN WireGuard!Init ELSE NoWireGuard
  /\ \/ part \in {"fallback", "rsqudp", "quicudp", "urltest", "pooled", "wireguard"} /\ Idle1
     \/ part = "rsq" /\ RsqClient!Init /\ Idle14
     \/ part = "vmess" /\ VmessAead!Init
     \/ part = "tailscale" /\ TailscaleNode!Init /\ Idle17

\* The components that do not run keep their state.
OthersStay ==
  /\ UNCHANGED part
  /\ IF part = "fallback" THEN TRUE ELSE UNCHANGED vars
  /\ IF part = "rsqudp" THEN TRUE ELSE UNCHANGED ofRsqUdp
  /\ IF part = "quicudp" THEN TRUE ELSE UNCHANGED ofQuicUdp
  /\ IF part = "urltest" THEN TRUE ELSE UNCHANGED ofUrlTest
  /\ IF part = "pooled" THEN TRUE ELSE UNCHANGED ofPooled
  /\ IF part = "wireguard" THEN TRUE ELSE UNCHANGED ofWireGuard
  /\ IF part \in {"fallback", "rsqudp", "quicudp", "urltest", "pooled", "wireguard"} THEN UNCHANGED from1 ELSE TRUE

MCNext ==
  \/ part = "fallback" /\ Next /\ OthersStay
  \/ part = "rsqudp" /\ RsqUdpRelay!Next /\ OthersStay
  \/ part = "quicudp" /\ QuicUdp!Next /\ OthersStay
  \/ part = "urltest" /\ UrlTest!Next /\ OthersStay
  \/ part = "pooled" /\ PooledDial!Next /\ OthersStay
  \/ part = "wireguard" /\ WireGuard!Next /\ OthersStay
  \/ part = "rsq" /\ RsqClient!Next /\ UNCHANGED from14 /\ OthersStay
  \/ part = "vmess" /\ VmessAead!Next /\ OthersStay
  \/ part = "tailscale" /\ TailscaleNode!Next /\ UNCHANGED from17 /\ OthersStay

\* What is fair while a component runs, as in its module.
MCFairness ==
  /\ \A d \in Callers : WF_vars(part = "fallback" /\ Dial(d))
  /\ \A n \in Sessions : WF_ofRsqUdp(part = "rsqudp" /\ RsqUdpRelay!Relay(n))
  /\ \A n \in Sessions : WF_ofRsqUdp(part = "rsqudp" /\ RsqUdpRelay!Idle(n))
  /\ WF_ofRsqUdp(part = "rsqudp" /\ RsqUdpRelay!PruneSessions)
  /\ \A t \in Tasks : WF_ofQuicUdp(part = "quicudp" /\ QuicUdp!HandleUdpDatagram(t))
  /\ \A k \in Socks : WF_ofQuicUdp(part = "quicudp" /\ QuicUdp!RelayBack(k))
  /\ \A i \in Ids : WF_ofQuicUdp(part = "quicudp" /\ QuicUdp!Reader(i))
  /\ \A d \in {"t1", "t2", "u1"} : WF_first13(part = "rsq" /\ RsqClient!Dial(d))
  /\ \A t \in Tasks : WF_ofUrlTest(part = "urltest" /\ UrlTest!Round(t))
  /\ \A d \in PoolDials : WF_ofPooled(part = "pooled" /\ PooledDial!Step(d))
  /\ WF_first17(part = "vmess" /\ VmessAead!WriteHandshake)
  /\ WF_first17(part = "vmess" /\ VmessAead!AcceptHandshake)
  /\ WF_first17(part = "vmess" /\ VmessAead!WriteServerResponse)
  /\ WF_first17(part = "vmess" /\ VmessAead!Serve)
  /\ WF_first17(part = "vmess" /\ VmessAead!Deliver)
  /\ WF_first17(part = "vmess" /\ VmessAead!Ends)
  /\ WF_first17(part = "vmess" /\ VmessAead!ReadLen)
  /\ WF_first17(part = "vmess" /\ VmessAead!ReadHeader)
  /\ WF_first17(part = "vmess" /\ VmessAead!ReadBody)
  /\ WF_ofWireGuard(part = "wireguard" /\ WireGuard!Tick)
  /\ \A p \in Peers : WF_ofWireGuard(part = "wireguard" /\ WireGuard!InitArrives(p))
  /\ \A p \in Peers : WF_ofWireGuard(part = "wireguard" /\ WireGuard!AnswerArrives(p))

MCSpec == MCInit /\ [][MCNext]_state /\ MCFairness
-----------------------------------------------------------------------------
\* Every component keeps its types.
TypesOK ==
  /\ TypeOK
  /\ part = "rsqudp" => RsqUdpRelay!TypeOK
  /\ part = "quicudp" => QuicUdp!TypeOK
  /\ part = "rsq" => RsqClient!TypeOK
  /\ part = "urltest" => UrlTest!TypeOK
  /\ part = "pooled" => PooledDial!TypeOK
  /\ part = "vmess" => VmessAead!TypeOK
  /\ part = "wireguard" => WireGuard!TypeOK
  /\ part = "tailscale" => TailscaleNode!TypeOK

\* A group moves for a cause: a fallback group that left its primary never
\* returns to it, and a round of a urltest selects the quickest of the
\* children that answered it, or nothing.
GroupsMoveForCause ==
  [][/\ active > 0 => active' > 0
     /\ part = "urltest" => UrlTest!RoundSelects]_state

\* UDP answers reach the socket that asked and no other: a session id has one
\* open session, a session that was dropped answers once more at most, no
\* socket is left without a reader, and none is given an answer of another.
AnswersFindTheirSocket ==
  /\ part = "rsqudp" => RsqUdpRelay!OneOpenSession
  /\ part = "rsqudp" => RsqUdpRelay!OneLateAnswer
  /\ part = "quicudp" => QuicUdp!NoDeafSocket
  /\ part = "quicudp" => QuicUdp!OwnAnswersOnly

\* Dials share what the code means them to share: one connection per outbound,
\* made under its lock, whose loss is the only cause of a failed dial; one
\* WireGuard tunnel, that stays closed once closed; and one prober per
\* urltest, which close can stop.
ConnectionsShared ==
  /\ part = "pooled" => PooledDial!FailsWithCause
  /\ part = "pooled" => PooledDial!OneConnection
  /\ part = "wireguard" => WireGuard!DialsShareTunnel
  /\ part = "wireguard" => WireGuard!ClosedStaysClosed
  /\ part = "urltest" => UrlTest!ProberIsHandled

\* Both ends mean the same: a server serves exactly the users it is configured
\* with, payload starts behind the answer's header, packets go only to the
\* peer whose addresses allow them and to where it was last heard, and a
\* Tailscale node has the control server's keys, uses the key it registered
\* and keeps its identity over restarts.
PeersAgree ==
  /\ part = "pooled" => PooledDial!ServedIsAuthorised
  /\ part = "vmess" => VmessAead!AcceptsItsUsers
  /\ part = "vmess" => VmessAead!PayloadBehindAnswer
  /\ part = "wireguard" => WireGuard!EndpointIsPeers
  /\ part = "wireguard" => WireGuard!SentIsAllowed
  /\ part = "tailscale" => TailscaleNode!KeysAgree
  /\ part = "tailscale" => TailscaleNode!UsedIsRegistered
  /\ part = "tailscale" => TailscaleNode!SameIdentity

\* Every dial ends, though it waits for permits, connects, replies and locks
\* of others: in a fallback group, an RSQ client, and on a pooled connection;
\* so do a probe round and the read of a VMess answer, UDP relays end with
\* their connection or session, and a packet held for a WireGuard handshake
\* goes out unless its peer is unreachable.
\* (The tasks, dials and sockets of a component are interchangeable, so one
\* stands for all; part never changes, so one formula serves all components.)
OneSocket == CHOOSE s \in Sockets : TRUE
OneSock == CHOOSE k \in Socks : TRUE
OneTask == CHOOSE t \in Tasks : TRUE
OneDial == CHOOSE d \in PoolDials : TRUE
Waits ==
  \/ part \in {"rsq", "vmess"}
  \/ part = "urltest" /\ UrlTest!Probing(OneTask)
  \/ part = "pooled" /\ PooledDial!Idle(OneDial)
  \/ part = "rsqudp" /\ RsqUdpRelay!ConnGone
  \/ part = "quicudp" /\ QuicUdp!Orphaned(OneSock)
HasEnded ==
  /\ part = "rsq" => RsqClient!AllDialsEnded
  /\ part = "vmess" => VmessAead!Returned
  /\ part = "urltest" => ~UrlTest!Probing(OneTask)
  /\ part = "pooled" => PooledDial!Ended(OneDial)
  /\ part = "rsqudp" => RsqUdpRelay!NoneRuns
  /\ part = "quicudp" => QuicUdp!Ended(OneSock)
AlsoWaits(p) ==
  \/ part = "rsqudp" /\ RsqUdpRelay!Dropped(OneSocket)
  \/ part = "wireguard" /\ WireGuard!Held(p)
AlsoEnded(p) ==
  /\ part = "rsqudp" => RsqUdpRelay!Forgotten(OneSocket)
  /\ part = "wireguard" => WireGuard!Excused(p)
AllDialsEnd ==
  /\ (part = "fallback" => DialsEnd)
  /\ Waits ~> HasEnded
  /\ \A p \in Peers : AlsoWaits(p) ~> AlsoEnded(p)
-----------------------------------------------------------------------------
\* The inductive invariant: that of the component that runs, and of the group.
MCInv ==
  /\ IInv
  /\ part = "rsqudp" => RsqUdpRelay!IInv
  /\ part = "quicudp" => QuicUdp!IInv
  /\ part = "urltest" => UrlTest!IInv
  /\ part = "pooled" => PooledDial!IInv
  /\ part = "wireguard" => WireGuard!IInv

\* The components start in a state of their invariant.
LEMMA OutboundsInit == MCInit => MCInv
BY FallbackInit, RsqUdpInit, QuicUdpInit, UrlTestInit, PooledInit, WireGuardInit, Zenon
   DEF MCInit, MCInv

\* A step of the run is one of the component that runs, and no step of another.
LEMMA OutboundsSteps ==
  ASSUME [MCNext]_state
  PROVE  /\ part' = part /\ [Next]_vars
         /\ part = "rsqudp" => [RsqUdpRelay!Next]_(RsqUdpRelay!vars)
         /\ part = "quicudp" => [QuicUdp!Next]_(QuicUdp!vars)
         /\ part = "urltest" => [UrlTest!Next]_(UrlTest!vars)
         /\ part = "pooled" => [PooledDial!Next]_(PooledDial!vars)
         /\ part = "wireguard" => [WireGuard!Next]_(WireGuard!vars)
<1>1. part' = part /\ [Next]_vars
  BY Zenon DEF MCNext, OthersStay, state
<1>2. part = "rsqudp" => [RsqUdpRelay!Next]_(RsqUdpRelay!vars)
  BY Zenon DEF MCNext, OthersStay, state, ofRsqUdp, RsqUdpRelay!vars
<1>3. part = "quicudp" => [QuicUdp!Next]_(QuicUdp!vars)
  BY Zenon DEF MCNext, OthersStay, state, ofQuicUdp, QuicUdp!vars
<1>4. part = "urltest" => [UrlTest!Next]_(UrlTest!vars)
  BY Zenon DEF MCNext, OthersStay, state, ofUrlTest, UrlTest!vars
<1>5. part = "pooled" => [PooledDial!Next]_(PooledDial!vars)
  BY Zenon DEF MCNext, OthersStay, state, ofPooled, PooledDial!vars
<1>6. part = "wireguard" => [WireGuard!Next]_(WireGuard!vars)
  BY Zenon DEF MCNext, OthersStay, state, ofWireGuard, WireGuard!vars, WireGuard!outbound,
         WireGuard!remote
<1> QED BY <1>1, <1>2, <1>3, <1>4, <1>5, <1>6, Zenon

\* Every run stays in the invariant.
LEMMA OutboundsInvariant == MCSpec => []MCInv
<1>1. ASSUME MCInv, [MCNext]_state PROVE MCInv'
  BY <1>1, OutboundsSteps, FallbackStep, RsqUdpInvariance, QuicUdpInvariance, UrlTestInvariance,
     PooledInvariance, WireGuardInvariance, Zenon DEF MCInv
<1>2. MCInv /\ [MCNext]_state => MCInv'
  BY <1>1, Zenon
<1> QED BY <1>2, OutboundsInit, PTL DEF MCSpec

\* The index of a fallback group is the primary's or that of a child that has
\* answered, for every number of children and of dials that overlap.
THEOREM SticksToAnswers == MCSpec => []StickyHasAnswered
<1>1. MCInv => StickyHasAnswered
  BY Zenon DEF MCInv, IInv
<1> QED BY <1>1, OutboundsInvariant, PTL

\* No step takes a fallback group that left its primary back to it: on_failover
\* stores only an index above the one that was active.
THEOREM NoFailback == MCSpec => NeverBackToPrimary
<1>1. ASSUME MCInv, [MCNext]_state PROVE [active > 0 => active' > 0]_active
  BY <1>1, OutboundsSteps, FallbackOnly, Zenon DEF MCInv
<1>2. MCInv /\ [MCNext]_state => [active > 0 => active' > 0]_active
  BY <1>1, Zenon
<1> QED BY <1>2, OutboundsInvariant, PTL DEF MCSpec, NeverBackToPrimary

\* UDP answers reach the socket that asked, for every number of sessions,
\* sockets, datagrams and answers and every capacity of a queue.
THEOREM AnswersFind == MCSpec => []AnswersFindTheirSocket
<1>1. MCInv => AnswersFindTheirSocket
  BY QuicUdpSafe, Zenon DEF MCInv, AnswersFindTheirSocket, RsqUdpRelay!IInv, QuicUdp!IInv
<1> QED BY <1>1, OutboundsInvariant, PTL

\* An outbound has one live connection at most and a QUIC dial fails only when
\* refused or when the connection closed under it; dials share one WireGuard
\* tunnel, gone for good once closed; and a urltest holds the handle of its
\* only prober unless two first dials raced: for every number of dials, tasks,
\* connections and peers.
THEOREM SharedConnections == MCSpec => []ConnectionsShared
<1>1. MCInv => ConnectionsShared
  BY PooledSafe, WireGuardSafe, Zenon DEF MCInv, ConnectionsShared, UrlTest!IInv
<1> QED BY <1>1, OutboundsInvariant, PTL
=============================================================================
