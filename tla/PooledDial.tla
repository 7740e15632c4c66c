----------------------------- MODULE PooledDial -----------------------------
(***************************************************************************)
(* The outbounds that keep one connection for all dials behind a mutex:     *)
(* TuicOutbound (tuic.rs), HysteriaOutbound (hysteria_outbound.rs) and the  *)
(* SshSessionPool of ssh_client.rs.  The QUIC outbounds look whether the    *)
(* connection was closed and let go of the mutex before they open a stream; *)
(* the SSH pool keeps whatever session it has and holds the mutex until the *)
(* channel is open.  A TUIC dial ends with the answer to its request, which *)
(* the inbound of the same file gives.                                      *)
(***************************************************************************)
EXTENDS Integers, FiniteSets

CONSTANTS
  Kinds,       \* kinds of outbound considered
  Dials,       \* concurrent dials
  Users,       \* users of the TUIC inbound, [uuid, password],
  Credentials, \* and what dials of the outbound present
  Dests,       \* destinations: [fam, port]
  MaxConns     \* connections ever made

VARIABLES
  kind, cred,     \* configuration of the outbound
  lock, cached,   \* holder of the mutex, and the number of the kept connection
  conns, live,    \* connections made so far, and those that still live
  dial,           \* per dial: where it stands, its connection and destination
  refused, hit,   \* dials whose connect failed; those whose connection closed under them
  served,         \* what the TUIC inbound dialled: dial and destination
  closed          \* close was called on the outbound

vars == <<kind, cred, lock, cached, conns, live, dial, refused, hit, served, closed>>

Free == "free"
Quic == {"tuic", "hysteria"}

TypeOK ==
  /\ kind \in Kinds /\ cred \in Credentials /\ lock \in Dials \cup {Free}
  /\ cached \in 0..MaxConns /\ conns \in 0..MaxConns /\ live \subseteq 1..MaxConns
  /\ \A d \in Dials : dial[d].pc \in {"idle", "connect", "open", "answer", "done", "failed"}
  /\ refused \subseteq Dials /\ hit \subseteq Dials

Init ==
  /\ kind \in Kinds /\ cred \in Credentials /\ lock = Free /\ cached = 0
  /\ conns = 0 /\ live = {} /\ refused = {} /\ hit = {} /\ served = {} /\ closed = FALSE
  /\ dial \in [Dials -> [pc : {"idle"}, conn : {0}, dest : Dests]]

Goes(d, pc) == dial' = [dial EXCEPT ![d].pc = pc]
Takes(d, c, pc) == dial' = [dial EXCEPT ![d].pc = pc, ![d].conn = c]
-----------------------------------------------------------------------------
(* The kept connection *)


\* The QUIC outbounds ask for the close reason.
Usable == cached # 0 /\ cached \in live

\* Mutant of Acquire: the mutex is let go before the handshake.
AcquireUnlocked(d) ==
  /\ kind \in Quic /\ dial[d].pc = "idle" /\ lock = Free
  /\ IF Usable THEN Takes(d, cached, "open") ELSE Goes(d, "connect")
  /\ UNCHANGED lock
  /\ UNCHANGED <<kind, cred, cached, conns, live, refused, hit, served, closed>>

\* A live connection is taken and the mutex let go; else the mutex is kept for
\* the handshake.
Acquire(d) ==
  /\ kind \in Quic /\ dial[d].pc = "idle" /\ lock = Free
  /\ IF Usable THEN Takes(d, cached, "open") ELSE Goes(d, "connect")
  /\ lock' = IF Usable THEN Free ELSE d
  /\ UNCHANGED <<kind, cred, cached, conns, live, refused, hit, served, closed>>

\* The SSH pool takes any session it has, and keeps the mutex until the dial ends.
SshAcquire(d) ==
  /\ kind = "ssh" /\ dial[d].pc = "idle" /\ lock = Free
  /\ IF cached # 0 THEN Takes(d, cached, "open") ELSE Goes(d, "connect")
  /\ lock' = d
  /\ UNCHANGED <<kind, cred, cached, conns, live, refused, hit, served, closed>>

Unlocked(d) == IF lock = d THEN Free ELSE lock

\* The handshake with the server, under the mutex.
Connected(d) ==
  /\ dial[d].pc = "connect" /\ conns < MaxConns
  /\ conns' = conns + 1 /\ live' = live \cup {conns + 1} /\ cached' = conns + 1
  /\ Takes(d, conns + 1, "open")
  /\ lock' = IF kind \in Quic THEN Unlocked(d) ELSE lock
  /\ UNCHANGED <<kind, cred, refused, hit, served, closed>>

\* No connection, or the host key or the authentication fails.
ConnectFails(d) ==
  /\ dial[d].pc = "connect"
  /\ Goes(d, "failed") /\ refused' = refused \cup {d} /\ lock' = Unlocked(d)
  /\ UNCHANGED <<kind, cred, cached, conns, live, hit, served, closed>>

\* Mutant of OpenStream: a stream that cannot be opened keeps the mutex.
OpenStreamKeeps(d) ==
  /\ dial[d].pc = "open"
  /\ Goes(d, IF dial[d].conn \notin live THEN "failed"
             ELSE IF kind = "tuic" THEN "answer" ELSE "done")
  /\ lock' = IF dial[d].conn \in live THEN Unlocked(d) ELSE lock
  /\ UNCHANGED <<kind, cred, cached, conns, live, refused, hit, served, closed>>

\* open_bi and the request, or direct-tcpip; only TUIC waits for an answer.
OpenStream(d) ==
  /\ dial[d].pc = "open"
  /\ Goes(d, IF dial[d].conn \notin live THEN "failed"
             ELSE IF kind = "tuic" THEN "answer" ELSE "done")
  /\ lock' = Unlocked(d)
  /\ UNCHANGED <<kind, cred, cached, conns, live, refused, hit, served, closed>>


\* One user must have both.
Authorised(c) == \E u \in Users : u.uuid = c.uuid /\ u.password = c.password

\* handle_tuic_stream: a user that is known is answered before the destination
\* is dialled.
TuicAnswers(d) ==
  /\ dial[d].pc = "answer" /\ dial[d].conn \in live
  /\ IF Authorised(cred)
     THEN Goes(d, "done") /\ served' = served \cup {[dial |-> d, dest |-> dial[d].dest]}
     ELSE Goes(d, "failed") /\ UNCHANGED served
  /\ UNCHANGED <<kind, cred, lock, cached, conns, live, refused, hit, closed>>

\* The answer of a connection that is gone never comes: read_exact fails.
AnswerLost(d) ==
  /\ dial[d].pc = "answer" /\ dial[d].conn \notin live
  /\ Goes(d, "failed")
  /\ UNCHANGED <<kind, cred, lock, cached, conns, live, refused, hit, served, closed>>
-----------------------------------------------------------------------------
Using(c) == {d \in Dials : dial[d].conn = c /\ dial[d].pc \in {"open", "answer"}}

\* The server, or an idle timeout, ends a connection.
ConnCloses(c) ==
  /\ c \in live
  /\ live' = live \ {c} /\ hit' = hit \cup Using(c)
  /\ UNCHANGED <<kind, cred, lock, cached, conns, dial, refused, served, closed>>

\* close of the QUIC outbounds waits for the mutex and ends the connection; that
\* of the SSH outbound does nothing.
Close ==
  /\ ~closed /\ closed' = TRUE
  /\ kind \in Quic => lock = Free
  /\ IF kind \in Quic
     THEN live' = live \ {cached} /\ hit' = hit \cup Using(cached) /\ cached' = 0
     ELSE UNCHANGED <<live, hit, cached>>
  /\ UNCHANGED <<kind, cred, lock, conns, dial, refused, served>>

Step(d) ==
  Acquire(d) \/ SshAcquire(d) \/ Connected(d) \/ ConnectFails(d) \/ OpenStream(d)
    \/ TuicAnswers(d) \/ AnswerLost(d)
Next == (\E d \in Dials : Step(d)) \/ (\E c \in live : ConnCloses(c)) \/ Close

\* Every dial goes on: handshakes end, servers answer.
Spec == Init /\ [][Next]_vars /\ \A d \in Dials : WF_vars(Step(d))
-----------------------------------------------------------------------------
(* Properties *)

\* A dial through a QUIC outbound fails only because the server refused the
\* connection or the user, or because the connection closed while the dial was
\* using it: a connection that died earlier is replaced (close_reason in
\* TuicOutbound::connect and HysteriaOutbound::get_connection).
FailsWithCause ==
  \A d \in Dials : dial[d].pc = "failed" /\ kind \in Quic
    => d \in refused \cup hit \/ (kind = "tuic" /\ ~Authorised(cred))

\* The outbound never has two live connections: dials that find none wait for
\* the first of them to connect (the mutex is held through the handshake).
OneConnection == Cardinality(live) <= 1

\* The TUIC inbound dials a destination for a user with its own password only
\* (handle_tuic_stream).
ServedIsAuthorised == served # {} => \E u \in Users : cred = u

\* Every dial ends: the mutex is never kept by a dial that is over
\* (dial_tcp of the three outbounds).
Idle(d) == dial[d].pc = "idle"
Ended(d) == dial[d].pc \in {"done", "failed"}
DialsEnd == \A d \in Dials : Idle(d) ~> Ended(d)
-----------------------------------------------------------------------------
(* Inductive invariant *)

\* A dial that uses a connection has a live one, or it closed under the dial.
UsesLive(d) == dial[d].pc \in {"open", "answer"} => dial[d].conn \in live \/ d \in hit

\* Only the kept connection may live, a dial that connects holds the mutex and
\* found none, and only TUIC waits for answers.
IInv ==
  /\ dial \in [Dials -> [pc : {"idle", "connect", "open", "answer", "done", "failed"},
                        conn : Nat, dest : Dests]]
  /\ cached \in Nat /\ conns \in Nat /\ lock \in Dials \cup {Free}
  /\ live \subseteq {cached} /\ 0 \notin live
  /\ \A d \in Dials : dial[d].pc = "connect" => lock = d /\ live = {}
  /\ \A d \in Dials : dial[d].pc = "answer" => kind = "tuic"
  /\ kind \in Quic => \A d \in Dials : UsesLive(d)
  /\ FailsWithCause
=============================================================================
