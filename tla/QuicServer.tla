----------------------------- MODULE QuicServer -----------------------------
(***************************************************************************)
(* The connections of the RSQ, RST and Hysteria2 servers (run and           *)
(* serve_connection of the three server.rs): authentication, the user's     *)
(* connection slot, the accept loop and its end.                            *)
(*                                                                         *)
(* RSQ authenticates on a control stream (authenticate_control, and         *)
(* verify_auth_req with the replay cache of rsq/auth.rs), whose loop then   *)
(* holds a handle of the connection.  The other two answer one HTTP/3       *)
(* request (authenticate_via_h3) and on success forget the h3 object, which *)
(* would close the connection.  All connections are of one user.            *)
(***************************************************************************)
EXTENDS Integers, FiniteSets

CONSTANTS
  Conns,    \* QUIC connections
  Nonces,   \* the client_random values of authentication requests
  Limit,    \* connection limit of the user
  Skew,     \* AUTH_MAX_SKEW_SECS = REPLAY_TTL_SECS
  MaxTime

VARIABLES
  server,   \* "rsq", "rst" or "hy2"
  conn,     \* connection -> where its task stands
  open,     \* connections that are not closed
  left,     \* connections whose peer closed them, or was lost
  held,     \* connections with a handle outside their task
  slots,    \* connections counted for the user
  now,      \* the server's clock
  stamp,    \* nonce -> timestamp of the request, -1 before it is made
  good,     \* nonces of requests whose proof matches a password
  seen,     \* the replay cache: nonce -> time of insertion, -1 if absent
  accepted  \* history: nonce -> how often it was accepted

replay == <<now, stamp, good, seen, accepted>>
vars == <<server, conn, open, left, held, slots, replay>>

Stages == {"new", "auth", "authed", "serving", "ended"}

TypeOK ==
  /\ server \in {"rsq", "rst", "hy2"}
  /\ conn \in [Conns -> Stages] /\ open \subseteq Conns /\ left \subseteq Conns /\ held \subseteq Conns
  /\ slots \in 0..Cardinality(Conns)
  /\ now \in 0..MaxTime /\ stamp \in [Nonces -> -1..MaxTime] /\ good \subseteq Nonces
  /\ seen \in [Nonces -> -1..MaxTime] /\ accepted \in [Nonces -> 0..Cardinality(Conns)]

Init ==
  /\ server \in {"rsq", "rst", "hy2"}
  /\ conn = [c \in Conns |-> "new"] /\ open = {} /\ left = {} /\ held = {} /\ slots = 0
  /\ now = 0 /\ stamp = [n \in Nonces |-> -1] /\ good = {}
  /\ seen = [n \in Nonces |-> -1] /\ accepted = [n \in Nonces |-> 0]

Go(c, from, to) == conn[c] = from /\ conn' = [conn EXCEPT ![c] = to]

\* A returning task drops its handles; the connection closes unless there is
\* another.
Dropped(c) == open' = IF c \in held THEN open ELSE open \ {c}
-----------------------------------------------------------------------------
\* run: a connection is accepted and its task started.
Accept(c) ==
  /\ Go(c, "new", "auth") /\ open' = open \cup {c}
  /\ UNCHANGED <<server, left, held, slots, replay>>

\* RSQ: the control stream ends, breaks or exceeds 16384 bytes without a frame.
NoRequest(c) ==
  /\ server = "rsq" /\ Go(c, "auth", "ended") /\ Dropped(c)
  /\ UNCHANGED <<server, left, held, slots, replay>>

\* HTTP/3: any other request gets 404; an error or no request gets nothing.
Rejected(c) ==
  /\ server # "rsq" /\ Go(c, "auth", "ended") /\ Dropped(c)
  /\ UNCHANGED <<server, left, held, slots, replay>>

\* Mutant of Authenticated: the h3 object goes out of scope.
AuthenticatedDropsH3(c) ==
  /\ server # "rsq" /\ Go(c, "auth", "authed") /\ c \in open
  /\ open' = open \ {c}
  /\ UNCHANGED <<server, left, held, slots, replay>>

\* HTTP/3: the first request has the path, the method and a known password.
Authenticated(c) ==
  /\ server # "rsq" /\ Go(c, "auth", "authed") /\ c \in open
  /\ held' = held \cup {c}
  /\ UNCHANGED <<server, open, left, slots, replay>>

AuthStep(c) == Authenticated(c) \/ Rejected(c)
-----------------------------------------------------------------------------
(* RSQ's authentication requests and the replay cache *)

Tick ==
  /\ server = "rsq" /\ now < MaxTime /\ now' = now + 1
  /\ UNCHANGED <<server, conn, open, left, held, slots, stamp, good, seen, accepted>>

\* encode_auth_req, by a clock that is not ahead of the server's.
MakeRequest(n) ==
  /\ server = "rsq" /\ stamp[n] = -1 /\ \E t \in 0..now : stamp' = [stamp EXCEPT ![n] = t]
  /\ good' \in {good, good \cup {n}}
  /\ UNCHANGED <<server, conn, open, left, held, slots, now, seen, accepted>>

\* Mutant of Fresh: the cache forgets a request within the skew.
FreshShort == [n \in Nonces |-> IF seen[n] >= 0 /\ now - seen[n] < Skew THEN seen[n] ELSE -1]

\* retain of check_and_insert
Fresh == [n \in Nonces |-> IF seen[n] >= 0 /\ now - seen[n] <= Skew THEN seen[n] ELSE -1]

\* abs_diff(timestamp, now)
Timely(n) == now - stamp[n] <= Skew /\ stamp[n] - now <= Skew

\* verify_auth_req accepts: AUTH_OK is written and the control loop spawned.
Verified(c, n) ==
  /\ server = "rsq" /\ Go(c, "auth", "authed")
  /\ stamp[n] >= 0 /\ Timely(n) /\ n \in good /\ Fresh[n] = -1
  /\ seen' = [Fresh EXCEPT ![n] = now]
  /\ accepted' = [accepted EXCEPT ![n] = @ + 1]
  /\ held' = held \cup {c}
  /\ UNCHANGED <<server, open, left, slots, now, stamp, good>>

\* verify_auth_req refuses; the cache is only looked at after the proof.
Refused(c, n) ==
  /\ server = "rsq" /\ Go(c, "auth", "ended") /\ Dropped(c)
  /\ stamp[n] >= 0 /\ (~Timely(n) \/ n \notin good \/ Fresh[n] >= 0)
  /\ seen' = IF Timely(n) /\ n \in good THEN Fresh ELSE seen
  /\ UNCHANGED <<server, left, held, slots, now, stamp, good, accepted>>
-----------------------------------------------------------------------------
\* acquire_user; refused, the task returns and the other handle is left.
Acquire(c) ==
  /\ IF slots < Limit
       THEN Go(c, "authed", "serving") /\ slots' = slots + 1 /\ UNCHANGED open
       ELSE Go(c, "authed", "ended") /\ UNCHANGED slots /\ Dropped(c)
  /\ UNCHANGED <<server, left, held, replay>>

\* The client closes, or the transport's idle timeout does.
Closed(c) ==
  /\ c \in open /\ open' = open \ {c} /\ left' = left \cup {c}
  /\ UNCHANGED <<server, conn, held, slots, replay>>


\* Mutant of LoopEnds: an ended accept loop is entered again.
LoopAgain(c) ==
  /\ c \notin open /\ Go(c, "serving", "authed") /\ slots' = slots - 1
  /\ UNCHANGED <<server, open, left, held, replay>>

\* Mutant of LoopEnds: the slot is given back by hand and by the guard.
LoopEndsTwice(c) ==
  /\ c \notin open /\ Go(c, "serving", "ended") /\ slots' = slots - 2
  /\ UNCHANGED <<server, open, left, held, replay>>

\* closed() or an error of accept_bi or read_datagram: the guard is dropped.
LoopEnds(c) ==
  /\ c \notin open /\ Go(c, "serving", "ended") /\ slots' = slots - 1
  /\ UNCHANGED <<server, open, left, held, replay>>

Serve(c) == Acquire(c) \/ LoopEnds(c)
RsqServe(c) == server = "rsq" /\ Serve(c)
RstServe(c) == server = "rst" /\ Serve(c)
Hy2Serve(c) == server = "hy2" /\ Serve(c)

Next ==
  \/ Tick \/ \E n \in Nonces : MakeRequest(n)
  \/ \E c \in Conns : Accept(c) \/ NoRequest(c) \/ AuthStep(c) \/ Closed(c)
  \/ \E c \in Conns, n \in Nonces : Verified(c, n) \/ Refused(c, n)
  \/ \E c \in Conns : RsqServe(c) \/ RstServe(c) \/ Hy2Serve(c)

\* The task of a connection is spawned and runs on; peers and time do as they like.
Fairness == \A c \in Conns : WF_vars(Serve(c))
Spec == Init /\ [][Next]_vars /\ Fairness
-----------------------------------------------------------------------------
\* A request stamped by a clock that is not ahead of the server's is accepted
\* at most once, however often and on however many connections it arrives:
\* the cache remembers it for as long as its timestamp is let through.
AcceptedOnce == \A n \in Nonces : accepted[n] <= 1

Serving == {c \in Conns : conn[c] = "serving"}

\* The user's slots are those of the connections being served, within the
\* limit, whoever closes a connection and when.
SlotsAreServed ==
  slots = Cardinality(Serving) /\ slots <= Limit

\* The server closes a connection only by ending its task: until then, and
\* so also after the h3 object is gone, it is open or its peer has left.
ServedStaysOpen ==
  \A c \in Conns : conn[c] \in {"auth", "authed", "serving"} => c \in open \cup left

\* Every slot comes back when its connection is closed.
Left(c) == conn[c] = "serving" /\ c \notin open
Ended(c) == conn[c] = "ended"
SlotsReturn == \A c \in Conns : Left(c) ~> Ended(c)

\* What makes the first three inductive: a request that was accepted is in the
\* cache, under a time not before its stamp, for as long as the stamp passes.
Remembered ==
  \A n \in Nonces :
    /\ stamp[n] <= now /\ seen[n] <= now
    /\ accepted[n] > 0 => stamp[n] >= 0 /\ (now - stamp[n] <= Skew => seen[n] >= stamp[n])
IInv == TypeOK /\ SlotsAreServed /\ AcceptedOnce /\ Remembered /\ ServedStaysOpen
=============================================================================
