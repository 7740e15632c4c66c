------------------------------ MODULE QuicUdp -------------------------------
(***************************************************************************)
(* UDP over one RST or Hysteria2 connection.  Client side (udp_client.rs):  *)
(* every socket has a reader task on the shared connection, which takes the *)
(* next datagram whosever it is and drops it unless it is its session's.    *)
(* Server side (handle_udp_datagram, relay_udp_back of server.rs): every    *)
(* datagram is handled by a task of its own, which looks the session up,    *)
(* binds a socket if there is none, starts the socket's relay and forwards. *)
(***************************************************************************)
EXTENDS Integers, FiniteSets

CONSTANTS
  Ids,      \* session ids, each of one client socket
  Tasks,    \* datagrams from the client, each with its handler task
  Socks     \* sockets the server may bind

None == 0

VARIABLES
  proto,    \* "rst" or "hy2"
  up,       \* whether the QUIC connection is open
  sock,     \* id -> "unborn", "open" or "dropped": the client's socket
  readers,  \* ids whose reader task runs
  inbox,    \* id -> number of answers delivered to its socket
  task,     \* handler -> "none", "lookup", "bind", "insert", "start", "send", "done"
  tid,      \* handler -> session id of its datagram
  using,    \* handler -> the server socket it forwards through
  sessions, \* the server's map: id -> socket or None
  owner,    \* server socket -> the session id it was bound for, None if unbound
  relay,    \* server socket -> "off", "on" or "ended"
  asked,    \* server sockets that have forwarded and whose target has yet to answer
  back      \* ids of the answers on their way to the client, one of each

vars == <<proto, up, sock, readers, inbox, task, tid, using, sessions, owner, relay, asked, back>>
client == <<sock, readers, inbox>>
server == <<task, tid, using, sessions, owner, relay, asked>>

TypeOK ==
  /\ proto \in {"rst", "hy2"} /\ up \in BOOLEAN
  /\ sock \in [Ids -> {"unborn", "open", "dropped"}] /\ readers \subseteq Ids
  /\ inbox \in [Ids -> 0..Cardinality(Tasks)]
  /\ task \in [Tasks -> {"none", "lookup", "bind", "insert", "start", "send", "done"}]
  /\ tid \in [Tasks -> Ids \cup {None}] /\ using \in [Tasks -> Socks \cup {None}]
  /\ sessions \in [Ids -> Socks \cup {None}] /\ owner \in [Socks -> Ids \cup {None}]
  /\ relay \in [Socks -> {"off", "on", "ended"}] /\ asked \subseteq Socks
  /\ back \subseteq Ids

Init ==
  /\ proto \in {"rst", "hy2"} /\ up = TRUE
  /\ sock = [i \in Ids |-> "unborn"] /\ readers = {} /\ inbox = [i \in Ids |-> 0]
  /\ task = [t \in Tasks |-> "none"] /\ tid = [t \in Tasks |-> None]
  /\ using = [t \in Tasks |-> None] /\ sessions = [i \in Ids |-> None]
  /\ owner = [k \in Socks |-> None] /\ relay = [k \in Socks |-> "off"]
  /\ asked = {} /\ back = {}
-----------------------------------------------------------------------------
(* The client. *)

\* rst_udp_socket: a fresh session id and its reader task.
OpenSocket(i) ==
  /\ sock[i] = "unborn" /\ sock' = [sock EXCEPT ![i] = "open"]
  /\ readers' = readers \cup {i}
  /\ UNCHANGED <<proto, up, inbox, server, back>>

\* The reader task is not told; it goes on reading.
DropSocket(i) ==
  /\ sock[i] = "open" /\ sock' = [sock EXCEPT ![i] = "dropped"]
  /\ UNCHANGED <<proto, up, readers, inbox, server, back>>

\* send_to; the server spawns a handler for the datagram.
SendTo(i, t) ==
  /\ up /\ sock[i] = "open" /\ task[t] = "none" /\ \A u \in Tasks : u < t => task[u] # "none"
  /\ task' = [task EXCEPT ![t] = "lookup"] /\ tid' = [tid EXCEPT ![t] = i]
  /\ UNCHANGED <<proto, up, client, using, sessions, owner, relay, asked, back>>

\* Mutant of ReadDatagram: whatever arrives is handed to the reader's socket.
ReadDatagramAny(r, i) ==
  /\ up /\ r \in readers /\ i \in back /\ back' = back \ {i}
  /\ inbox' = IF sock[r] = "open" THEN [inbox EXCEPT ![r] = @ + 1] ELSE inbox
  /\ UNCHANGED <<proto, up, sock, readers, server>>

\* The reader of session r takes an answer of session i.
ReadDatagram(r, i) ==
  /\ up /\ r \in readers /\ i \in back /\ back' = back \ {i}
  /\ inbox' = IF r = i /\ sock[i] = "open" THEN [inbox EXCEPT ![i] = @ + 1] ELSE inbox
  /\ UNCHANGED <<proto, up, sock, readers, server>>

\* read_datagram fails: the reader ends.
ReaderEnds(r) ==
  /\ ~up /\ r \in readers /\ readers' = readers \ {r}
  /\ UNCHANGED <<proto, up, sock, inbox, server, back>>
-----------------------------------------------------------------------------
(* The server. *)

Goto(t, from, to) == task[t] = from /\ task' = [task EXCEPT ![t] = to]

\* The target is resolved, which awaits, and the session looked up.
Lookup(t) ==
  /\ task[t] = "lookup"
  /\ IF sessions[tid[t]] # None
       THEN Goto(t, "lookup", "start") /\ using' = [using EXCEPT ![t] = sessions[tid[t]]]
       ELSE Goto(t, "lookup", "bind") /\ UNCHANGED using
  /\ UNCHANGED <<proto, up, client, tid, sessions, owner, relay, asked, back>>

\* A datagram that does not decode, is a fragment or cannot be resolved.
BadDatagram(t) ==
  /\ Goto(t, "lookup", "done")
  /\ UNCHANGED <<proto, up, client, tid, using, sessions, owner, relay, asked, back>>

Bind(t) ==
  /\ Goto(t, "bind", "insert")
  /\ \E k \in Socks : /\ owner[k] = None /\ \A j \in Socks : j < k => owner[j] # None
                      /\ owner' = [owner EXCEPT ![k] = tid[t]]
                      /\ using' = [using EXCEPT ![t] = k]
  /\ UNCHANGED <<proto, up, client, tid, sessions, relay, asked, back>>

\* insert replaces a session another handler has inserted meanwhile.
Insert(t) ==
  /\ Goto(t, "insert", "start")
  /\ sessions' = [sessions EXCEPT ![tid[t]] = using[t]]
  /\ UNCHANGED <<proto, up, client, tid, using, owner, relay, asked, back>>

\* Mutant of StartRelay: the flag belongs to the session id, not to the socket.
StartRelayPerId(t) ==
  /\ Goto(t, "start", "send")
  /\ relay' = IF \E k \in Socks : owner[k] = tid[t] /\ relay[k] # "off" THEN relay
              ELSE [relay EXCEPT ![using[t]] = "on"]
  /\ UNCHANGED <<proto, up, client, tid, using, sessions, owner, asked, back>>

\* compare_exchange of relay_started, and the spawned relay_udp_back.
StartRelay(t) ==
  /\ Goto(t, "start", "send")
  /\ relay' = [relay EXCEPT ![using[t]] = IF @ = "off" THEN "on" ELSE @]
  /\ UNCHANGED <<proto, up, client, tid, using, sessions, owner, asked, back>>

Forward(t) ==
  /\ Goto(t, "send", "done") /\ asked' = asked \cup {using[t]}
  /\ UNCHANGED <<proto, up, client, tid, using, sessions, owner, relay, back>>

\* Mutant of RelayBack: a failed send is ignored.
RelayBackIgnores(k) ==
  /\ relay[k] = "on" /\ k \in asked /\ asked' = asked \ {k}
  /\ back' = IF up THEN back \cup {owner[k]} ELSE back
  /\ UNCHANGED <<proto, up, client, task, tid, using, sessions, owner, relay>>

\* recv_from returns the target's answer; send_datagram fails on a closed
\* connection, and only that ends the relay.
RelayBack(k) ==
  /\ relay[k] = "on" /\ k \in asked /\ asked' = asked \ {k}
  /\ IF up THEN back' = back \cup {owner[k]} /\ UNCHANGED relay
           ELSE relay' = [relay EXCEPT ![k] = "ended"] /\ UNCHANGED back
  /\ UNCHANGED <<proto, up, client, task, tid, using, sessions, owner>>

\* The connection closes; sessions and relays are left to themselves.
CloseConn ==
  /\ up /\ up' = FALSE /\ back' = {}
  /\ UNCHANGED <<proto, client, server>>

HandleUdpDatagram(t) ==
  Lookup(t) \/ BadDatagram(t) \/ Bind(t) \/ Insert(t) \/ StartRelay(t) \/ Forward(t)
RstHandler(t) == proto = "rst" /\ HandleUdpDatagram(t)
Hy2Handler(t) == proto = "hy2" /\ HandleUdpDatagram(t)
RstRelayBack(k) == proto = "rst" /\ RelayBack(k)
Hy2RelayBack(k) == proto = "hy2" /\ RelayBack(k)
Reader(r) == ReaderEnds(r) \/ \E i \in Ids : ReadDatagram(r, i)
RstReader(r) == proto = "rst" /\ Reader(r)
Hy2Reader(r) == proto = "hy2" /\ Reader(r)

Next ==
  \/ \E i \in Ids : OpenSocket(i) \/ DropSocket(i) \/ RstReader(i) \/ Hy2Reader(i)
  \/ \E i \in Ids, t \in Tasks : SendTo(i, t)
  \/ \E t \in Tasks : RstHandler(t) \/ Hy2Handler(t)
  \/ \E k \in Socks : RstRelayBack(k) \/ Hy2RelayBack(k)
  \/ CloseConn

\* Handlers, readers and relays are spawned tasks; targets answer.
Fairness ==
  /\ \A t \in Tasks : WF_vars(HandleUdpDatagram(t))
  /\ \A k \in Socks : WF_vars(RelayBack(k))
  /\ \A r \in Ids : WF_vars(Reader(r))
Spec == Init /\ [][Next]_vars /\ Fairness
-----------------------------------------------------------------------------
\* A socket that forwards has a relay listening for the answer, also one that
\* another handler of the same session has replaced in the map: whichever of
\* two racing sockets a datagram leaves through, its answer comes back.
NoDeafSocket == \A k \in asked : relay[k] # "off"

\* An answer is delivered to the socket of its session or to none: a socket
\* never receives more answers than its own datagrams asked for.
OwnAnswersOnly ==
  \A i \in Ids : inbox[i] <= Cardinality({t \in Tasks : tid[t] = i /\ task[t] = "done"})

\* A relay whose connection has closed ends once its target answers.
Orphaned(k) == ~up /\ relay[k] = "on" /\ k \in asked
Ended(k) == relay[k] = "ended"
RelaysEnd == \A k \in Socks : Orphaned(k) ~> Ended(k)

\* What makes the first two inductive: a handler past its lookup forwards
\* through a socket of its own session, whose relay runs once it is to send,
\* and every answer that was delivered, is on its way or is still to come was
\* asked for by a handler of the session that is done.
HandlersHoldTheirs ==
  /\ \A t \in Tasks :
       /\ task[t] # "none" => tid[t] \in Ids
       /\ task[t] \in {"insert", "start", "send"} => using[t] \in Socks /\ owner[using[t]] = tid[t]
       /\ task[t] = "send" => relay[using[t]] # "off"
  /\ \A i \in Ids : sessions[i] # None => owner[sessions[i]] = i
  /\ \A k \in asked : owner[k] \in Ids
AskedFor(i) == {t \in Tasks : tid[t] = i /\ task[t] = "done"}
ToCome(i) == {k \in asked : owner[k] = i}
Within(i) ==
  inbox[i] + (IF i \in back THEN 1 ELSE 0) + Cardinality(ToCome(i)) <= Cardinality(AskedFor(i))
EachAskedFor == \A i \in Ids : Within(i)
IInv == TypeOK /\ NoDeafSocket /\ HandlersHoldTheirs /\ EachAskedFor
=============================================================================
