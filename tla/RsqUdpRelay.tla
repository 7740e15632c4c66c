---------------------------- MODULE RsqUdpRelay -----------------------------
(***************************************************************************)
(* UDP over one RSQ connection.  Client: sockets (rsq/udp_client.rs) that   *)
(* share the connection's datagrams through the demultiplexer               *)
(* (rsq/udp_demux.rs).  Server (rsq/server.rs): a session per socket, made  *)
(* by its first packet, with a task that relays the answers back.           *)
(* Datagrams may be lost and reordered.  Packets are whole here:            *)
(* RsqFragments covers their fragments.                                     *)
(***************************************************************************)
EXTENDS Integers, FiniteSets

CONSTANTS
  Sockets,   \* client sockets; next_udp_session_id gives each its own id
  Sessions,  \* server sessions that may be made: 1..n
  QueueCap,  \* UDP_DEMUX_QUEUE_CAP
  MaxNet     \* packets in flight to the server

None == 0

VARIABLES
  conn,      \* whether the QUIC connection is open
  socket,    \* per socket: "new", "open" or "dropped"
  demux,     \* sockets registered with the demultiplexer
  inbox,     \* per socket: packets in its channel
  c2s,       \* datagrams in flight: <<socket, "data" or "close">>
  s2c,       \* sockets with an answer in flight
  sessions,  \* per socket: the server's session for it, or None
  sess,      \* per session: [of, closed, idle]
  relay,     \* per session: "none", "check", "recv" or "ended"
  answers,   \* per session: whether an answer waits on its socket
  late       \* history, per session: packets relayed back after it closed

vars == <<conn, socket, demux, inbox, c2s, s2c, sessions, sess, relay, answers, late>>
client == <<socket, demux, inbox>>
server == <<sessions, sess, relay, answers, late>>

Session == [of : Sockets, closed : BOOLEAN, idle : BOOLEAN]
Made == {n \in Sessions : relay[n] # "none"}
Blank == [of |-> CHOOSE s \in Sockets : TRUE, closed |-> FALSE, idle |-> FALSE]

TypeOK ==
  /\ conn \in BOOLEAN
  /\ socket \in [Sockets -> {"new", "open", "dropped"}]
  /\ demux \subseteq Sockets /\ inbox \in [Sockets -> 0..QueueCap]
  /\ c2s \subseteq Sockets \X {"data", "close"}
  /\ s2c \subseteq Sockets
  /\ sessions \in [Sockets -> Sessions \cup {None}]
  /\ sess \in [Sessions -> Session]
  /\ relay \in [Sessions -> {"none", "check", "recv", "ended"}]
  /\ answers \in [Sessions -> BOOLEAN]
  /\ late \in [Sessions -> 0..2]

Init ==
  /\ conn = TRUE /\ socket = [s \in Sockets |-> "new"] /\ demux = {}
  /\ inbox = [s \in Sockets |-> 0] /\ c2s = {} /\ s2c = {}
  /\ sessions = [s \in Sockets |-> None]
  /\ sess = [n \in Sessions |-> Blank] /\ relay = [n \in Sessions |-> "none"]
  /\ answers = [n \in Sessions |-> FALSE]
  /\ late = [n \in Sessions |-> 0]
-----------------------------------------------------------------------------
(* The client. *)

\* rsq_udp_socket: registered before anything is sent.
Open(s) ==
  /\ conn /\ socket[s] = "new"
  /\ socket' = [socket EXCEPT ![s] = "open"] /\ demux' = demux \cup {s}
  /\ UNCHANGED <<conn, inbox, c2s, s2c, server>>

SendTo(s) ==
  /\ conn /\ socket[s] = "open" /\ Cardinality(c2s) < MaxNet
  /\ c2s' = c2s \cup {<<s, "data">>}
  /\ UNCHANGED <<conn, client, s2c, server>>

\* Drop: a close datagram, best effort, and the registration goes.
DropSocket(s) ==
  /\ socket[s] = "open"
  /\ socket' = [socket EXCEPT ![s] = "dropped"] /\ demux' = demux \ {s}
  /\ inbox' = [inbox EXCEPT ![s] = 0]
  /\ c2s' = IF conn THEN c2s \cup {<<s, "close">>} ELSE c2s
  /\ UNCHANGED <<conn, s2c, server>>

\* read_loop: try_send to the session's channel, which drops when full.
Demux(s) ==
  /\ conn /\ s \in s2c /\ s2c' = s2c \ {s}
  /\ inbox' = [inbox EXCEPT ![s] = IF s \in demux /\ @ < QueueCap THEN @ + 1 ELSE @]
  /\ UNCHANGED <<conn, socket, demux, c2s, server>>

RecvFrom(s) ==
  /\ socket[s] = "open" /\ inbox[s] > 0
  /\ inbox' = [inbox EXCEPT ![s] = @ - 1]
  /\ UNCHANGED <<conn, socket, demux, c2s, s2c, server>>

\* The read loop ends with the connection and closes every channel.
EndReader ==
  /\ ~conn /\ demux # {}
  /\ demux' = {}
  /\ UNCHANGED <<conn, socket, inbox, c2s, s2c, server>>
-----------------------------------------------------------------------------
(* The network. *)

Lose == \/ \E d \in c2s : c2s' = c2s \ {d} /\ UNCHANGED <<conn, client, s2c, server>>
        \/ \E d \in s2c : s2c' = s2c \ {d} /\ UNCHANGED <<conn, client, c2s, server>>

Disconnect ==
  /\ conn /\ conn' = FALSE /\ c2s' = {} /\ s2c' = {}
  /\ UNCHANGED <<client, server>>

\* A destination answers what was forwarded to it.
Answer(n) ==
  /\ conn /\ n \in Made /\ ~answers[n] /\ relay[n] # "ended"
  /\ answers' = [answers EXCEPT ![n] = TRUE]
  /\ UNCHANGED <<conn, client, c2s, s2c, sessions, sess, relay, late>>
-----------------------------------------------------------------------------
(* The server. *)

\* handle_udp_datagram of a close: the session is removed and marked.
HandleClose(s) ==
  /\ conn /\ <<s, "close">> \in c2s /\ c2s' = c2s \ {<<s, "close">>}
  /\ sessions' = [sessions EXCEPT ![s] = None]
  /\ sess' = IF sessions[s] = None THEN sess ELSE [sess EXCEPT ![sessions[s]].closed = TRUE]
  /\ UNCHANGED <<conn, client, s2c, relay, answers, late>>

\* handle_udp_datagram of a packet: the session is found or made, its relay
\* started once, and the packet forwarded.
HandleData(s) ==
  /\ conn /\ <<s, "data">> \in c2s /\ c2s' = c2s \ {<<s, "data">>}
  /\ \E n \in Sessions :
       /\ IF sessions[s] # None THEN n = sessions[s] /\ sess' = [sess EXCEPT ![n].idle = FALSE]
          ELSE /\ n \notin Made /\ \A m \in Sessions : m < n => m \in Made
               /\ sess' = [sess EXCEPT ![n] = [of |-> s, closed |-> FALSE, idle |-> FALSE]]
       /\ sessions' = [sessions EXCEPT ![s] = n]
       /\ relay' = [relay EXCEPT ![n] = IF @ = "none" THEN "check" ELSE @]
  /\ UNCHANGED <<conn, client, s2c, answers, late>>

\* UDP_SESSION_IDLE passes without a packet from the client.
Idle(n) ==
  /\ n \in Made /\ ~sess[n].idle
  /\ sess' = [sess EXCEPT ![n].idle = TRUE]
  /\ UNCHANGED <<conn, client, c2s, s2c, sessions, relay, answers, late>>


\* Mutant of PruneSessions: a session that has an answer to relay is spared.
PruneSessionsSparing ==
  /\ conn
  /\ \E s \in Sockets :
       /\ sessions[s] # None /\ sess[sessions[s]].idle /\ answers[sessions[s]]
       /\ sessions' = [sessions EXCEPT ![s] = None]
       /\ sess' = [sess EXCEPT ![sessions[s]].closed = TRUE]
  /\ UNCHANGED <<conn, client, c2s, s2c, relay, answers, late>>

PruneSessions ==
  /\ conn /\ \E s \in Sockets : sessions[s] # None /\ sess[sessions[s]].idle
  /\ sessions' = [s \in Sockets |-> IF sessions[s] # None /\ sess[sessions[s]].idle THEN None ELSE sessions[s]]
  /\ sess' = [n \in Sessions |-> IF n \in Made /\ sess[n].idle
                                 THEN [sess[n] EXCEPT !.closed = TRUE] ELSE sess[n]]
  /\ UNCHANGED <<conn, client, c2s, s2c, relay, answers, late>>

\* serve_connection leaves its loop: every session is marked and removed.
ServerEnd ==
  /\ ~conn /\ \E s \in Sockets : sessions[s] # None
  /\ sessions' = [s \in Sockets |-> None]
  /\ sess' = [n \in Sessions |-> IF \E s \in Sockets : sessions[s] = n
                                 THEN [sess[n] EXCEPT !.closed = TRUE] ELSE sess[n]]
  /\ UNCHANGED <<conn, client, c2s, s2c, relay, answers, late>>

\* relay_udp_back: the mark is only looked at between two packets.
CheckClosed(n) ==
  /\ relay[n] = "check"
  /\ relay' = [relay EXCEPT ![n] = IF sess[n].closed THEN "ended" ELSE "recv"]
  /\ UNCHANGED <<conn, client, c2s, s2c, sessions, sess, answers, late>>

\* Mutant of RelayBack: the loop never looks at the mark again.
RelayBackForever(n) ==
  /\ relay[n] = "recv" /\ conn
  /\ answers[n] /\ answers' = [answers EXCEPT ![n] = FALSE]
  /\ s2c' = s2c \cup {sess[n].of}
  /\ late' = [late EXCEPT ![n] = IF sess[n].closed /\ @ < 2 THEN @ + 1 ELSE @]
  /\ UNCHANGED <<conn, client, c2s, sessions, sess, relay>>

\* The answer goes out under the address the session was made with.
RelayBack(n) ==
  /\ relay[n] = "recv" /\ conn
  /\ answers[n] /\ answers' = [answers EXCEPT ![n] = FALSE]
  /\ s2c' = s2c \cup {sess[n].of}
  /\ late' = [late EXCEPT ![n] = IF sess[n].closed THEN @ + 1 ELSE @]
  /\ relay' = [relay EXCEPT ![n] = "check"]
  /\ UNCHANGED <<conn, client, c2s, sessions, sess>>

\* Mutant of RelayEnd: only the mark ends a relay.
RelayEndOnMark(n) ==
  /\ relay[n] = "recv" /\ ~conn /\ sess[n].closed /\ answers[n]
  /\ relay' = [relay EXCEPT ![n] = "ended"]
  /\ UNCHANGED <<conn, client, c2s, s2c, sessions, sess, answers, late>>

RelayEnd(n) ==
  /\ relay[n] = "recv" /\ ~conn
  /\ relay' = [relay EXCEPT ![n] = "ended"]
  /\ UNCHANGED <<conn, client, c2s, s2c, sessions, sess, answers, late>>

Relay(n) == CheckClosed(n) \/ RelayBack(n) \/ RelayEnd(n)

Next ==
  \/ \E s \in Sockets :
       Open(s) \/ SendTo(s) \/ HandleData(s) \/ DropSocket(s) \/ Demux(s) \/ RecvFrom(s) \/ HandleClose(s)
  \/ \E n \in Sessions : Idle(n) \/ Relay(n) \/ Answer(n)
  \/ EndReader \/ Lose \/ Disconnect \/ PruneSessions \/ ServerEnd

\* Spawned tasks and timers keep running.
Fairness == WF_vars(PruneSessions) /\ \A n \in Sessions : WF_vars(Relay(n)) /\ WF_vars(Idle(n))
Spec == Init /\ [][Next]_vars /\ Fairness
-----------------------------------------------------------------------------
\* The server answers a socket over one session at a time: a session that is
\* no longer the socket's has been marked closed, so a pruned or closed one
\* and its successor never both relay on.
OneOpenSession ==
  \A n \in Made : sess[n].closed \/ sessions[sess[n].of] = n

\* A session that is closed while its relay waits for an answer relays that
\* one and no more.
OneLateAnswer == \A n \in Sessions : late[n] <= 1

\* Every relay ends once the connection is gone, also one that waits for an
\* answer that will not come.
ConnGone == ~conn
NoneRuns == \A n \in Sessions : relay[n] \notin {"check", "recv"}
RelaysEnd == ConnGone ~> NoneRuns

\* A packet overtaken by its socket's close makes a session nobody will
\* close: pruning or the end of the connection removes it.
Dropped(s) == socket[s] = "dropped"
Forgotten(s) == sessions[s] = None \/ ~conn
StraySessionsGo == \A s \in Sockets : Dropped(s) ~> Forgotten(s)

\* What makes the first two inductive: the session of a socket was made for it
\* and is open, and a relay that has answered late is closed and will see so
\* before it looks for another answer.
SessionsAreTheirs ==
  \A s \in Sockets : sessions[s] # None =>
    sessions[s] \in Made /\ sess[sessions[s]].of = s /\ ~sess[sessions[s]].closed
LateIsLast == \A n \in Sessions : late[n] > 0 => sess[n].closed /\ relay[n] \in {"check", "ended"}
IInv == TypeOK /\ OneOpenSession /\ OneLateAnswer /\ SessionsAreTheirs /\ LateIsLast
=============================================================================
