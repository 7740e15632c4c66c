--------------------------- MODULE ProxyHandshake ---------------------------
(***************************************************************************)
(* What a client of the mixed inbound says before its tunnel is up, and what *)
(* of it reaches the target (handle_client, handle_socks5,                  *)
(* handle_http_connect, handle_http_proxy of inbound_proxy.rs).  HTTP is    *)
(* read through a buffer that may hold bytes behind the header; SOCKS5 is   *)
(* read field by field.  A redirected connection has no handshake at all.   *)
(***************************************************************************)
EXTENDS Integers, Sequences, SequencesExt

CONSTANT MaxData   \* pieces of data the client sends behind its handshake

Data == [i \in 1..MaxData |-> <<"data", i>>]
Connect == <<"line", 1>>
Get == <<"line", 2>>
PathLine == <<"line", 0>>   \* a request line with the path only
Other == <<"line", 3>>
Host == <<"header", 1>>
Header == <<"header", 2>>
Blank == <<"blank", 0>>
Greeting == <<"socks", 1>>
Request == <<"socks", 2>>

\* What a client of each kind sends; a client may also stop anywhere.
Scripts == {
  <<Connect, Host, Blank>>, <<Connect, Blank>>,
  <<Get, Host, Header, Blank>>, <<Get, Header, Blank>>,
  <<Other, Blank>>, <<Greeting, Request>>, <<>> }

VARIABLES
  script,   \* the client's handshake
  wire,     \* pieces the client has yet to send or the server to read
  closed,   \* whether the client has closed
  buf,      \* the read buffer of the HTTP handler
  request,  \* header lines read so far
  pc,       \* "peek", "http", "socks", "dial", "reply", "early", "relay", "done"
  kind,     \* "none", "connect", "plain", "socks" or "redirect"
  first,    \* bytes to be written to the target before the relay starts
  out       \* what the target has received

vars == <<script, wire, closed, buf, request, pc, kind, first, out>>

TypeOK ==
  /\ script \in Scripts /\ wire \in Seq({"data", "line", "header", "blank", "socks"} \X Nat)
  /\ closed \in BOOLEAN
  /\ pc \in {"peek", "http", "socks", "dial", "reply", "early", "relay", "done"}
  /\ kind \in {"none", "connect", "plain", "socks", "redirect"}
  /\ Len(buf) <= MaxData + 4 /\ Len(request) <= 4 /\ Len(first) <= MaxData + 4
  /\ Len(out) <= MaxData + 5

Init ==
  /\ script \in Scripts /\ wire = script \o Data /\ closed = FALSE
  /\ buf = <<>> /\ request = <<>> /\ first = <<>> /\ out = <<>>
  /\ \/ pc = "peek" /\ kind = "none" /\ script # <<>>
     \/ pc = "dial" /\ kind = "redirect" /\ script = <<>>

Goto(from, to) == pc = from /\ pc' = to
Drop(s, n) == SubSeq(s, n + 1, Len(s))
-----------------------------------------------------------------------------
\* The client stops sending and closes.
ClientCloses ==
  /\ ~closed /\ closed' = TRUE /\ wire' = <<>>
  /\ UNCHANGED <<script, buf, request, pc, kind, first, out>>

\* handle_client: the first byte decides, without being consumed.
Peek ==
  /\ pc = "peek"
  /\ pc' = IF wire = <<>> THEN "done" ELSE IF Head(wire)[1] = "socks" THEN "socks" ELSE "http"
  /\ UNCHANGED <<script, wire, closed, buf, request, kind, first, out>>

\* Any step that waits for the client gives up when its time is over.
TimesOut ==
  /\ pc \in {"peek", "http", "socks"} /\ pc' = "done"
  /\ UNCHANGED <<script, wire, closed, buf, request, kind, first, out>>

\* The buffer is filled with whatever has arrived when it is empty.
Fill ==
  /\ pc = "http" /\ buf = <<>>
  /\ \E n \in 1..Len(wire) : buf' = SubSeq(wire, 1, n) /\ wire' = Drop(wire, n)
  /\ UNCHANGED <<script, closed, request, pc, kind, first, out>>

ReadLine ==
  /\ pc = "http" /\ buf # <<>> /\ Head(buf)[1] \in {"line", "header"}
  /\ request' = Append(request, Head(buf)) /\ buf' = Tail(buf)
  /\ UNCHANGED <<script, wire, closed, pc, kind, first, out>>

\* Mutant of Rewritten: a Host line is always added.
RewrittenAdding(req) == <<PathLine>> \o Tail(req) \o <<Host, Blank>>

\* rewrite_http_request: the request line loses the host, the header keeps its
\* lines and has a Host line at the end if it had none.
Rewritten(req) ==
  <<PathLine>> \o Tail(req)
     \o (IF Contains(req, Host) THEN <<>> ELSE <<Host>>) \o <<Blank>>

\* Mutant of EndHeader: what is in the buffer is dropped with the reader.
EndHeaderDropsBuffer ==
  /\ pc = "http" /\ request # <<>>
  /\ \/ buf # <<>> /\ Head(buf) = Blank
     \/ buf = <<>> /\ closed /\ wire = <<>>
  /\ LET method == Head(request) IN
       IF method = Connect THEN kind' = "connect" /\ first' = <<>> /\ pc' = "dial"
       ELSE IF method = Get THEN kind' = "plain" /\ first' = Rewritten(request) /\ pc' = "dial"
       ELSE pc' = "done" /\ UNCHANGED <<kind, first>>
  /\ buf' = <<>>
  /\ UNCHANGED <<script, wire, closed, request, out>>

\* An empty line, or the end of the stream, ends the header.  CONNECT keeps
\* the buffer; a plain request is rewritten, and the buffer is dropped.
EndHeader ==
  /\ pc = "http" /\ request # <<>>
  /\ \/ buf # <<>> /\ Head(buf) = Blank
     \/ buf = <<>> /\ closed /\ wire = <<>>
  /\ LET method == Head(request) IN
       IF method = Connect
         THEN kind' = "connect" /\ pc' = "dial" /\ first' = IF buf = <<>> THEN <<>> ELSE Tail(buf)
       ELSE IF method = Get THEN kind' = "plain" /\ first' = Rewritten(request) /\ pc' = "dial"
       ELSE pc' = "done" /\ UNCHANGED <<kind, first>>
  /\ buf' = <<>>
  /\ UNCHANGED <<script, wire, closed, request, out>>

\* A first line that is not a request line: no method or no target.
BadLine ==
  /\ pc = "http" /\ request = <<>>
  /\ \/ buf # <<>> /\ Head(buf)[1] # "line"
     \/ buf = <<>> /\ closed /\ wire = <<>>
  /\ pc' = "done"
  /\ UNCHANGED <<script, wire, closed, buf, request, kind, first, out>>

\* read_exact of the greeting, which is answered, and of the request.
SocksField ==
  /\ pc = "socks" /\ wire # <<>> /\ wire' = Tail(wire)
  /\ IF Head(wire) = Request THEN pc' = "dial" /\ kind' = "socks" ELSE UNCHANGED <<pc, kind>>
  /\ UNCHANGED <<script, closed, buf, request, first, out>>

\* dial_tcp_only; a failure is answered with 502 where HTTP is spoken.
Dial ==
  /\ pc = "dial"
  /\ pc' \in {"done", IF kind \in {"connect", "socks"} THEN "reply" ELSE "early"}
  /\ UNCHANGED <<script, wire, closed, buf, request, kind, first, out>>

\* The client is told only now that its tunnel is up.
Reply ==
  /\ \E to \in {"early", "done"} : Goto("reply", to)
  /\ UNCHANGED <<script, wire, closed, buf, request, kind, first, out>>

\* The buffered bytes or the rewritten request go first.
Early ==
  /\ Goto("early", "relay") /\ out' = first /\ first' = <<>>
  /\ UNCHANGED <<script, wire, closed, buf, request, kind>>

\* relay_proxy, upstream
Relay ==
  /\ pc = "relay" /\ wire # <<>> /\ out' = Append(out, Head(wire)) /\ wire' = Tail(wire)
  /\ UNCHANGED <<script, closed, buf, request, pc, kind, first>>

RelayEnds ==
  /\ pc = "relay" /\ wire = <<>> /\ pc' = "done"
  /\ UNCHANGED <<script, wire, closed, buf, request, kind, first, out>>

Next ==
  \/ ClientCloses \/ Peek \/ TimesOut \/ Fill \/ ReadLine \/ EndHeader \/ BadLine
  \/ SocksField \/ Dial \/ Reply \/ Early \/ Relay \/ RelayEnds
Spec == Init /\ [][Next]_vars
-----------------------------------------------------------------------------
\* Through a tunnel (CONNECT, SOCKS5 or redirected) the target receives the
\* client's data from the first byte on, in order, however it was cut, and
\* nothing of the handshake.
TunnelIsTransparent ==
  kind \in {"connect", "socks", "redirect"} => out = SubSeq(Data, 1, Len(out))

\* A forwarded request names its host exactly once, in a header, and the line
\* no longer does; what follows it is the client's data in order.
ForwardedRequest ==
  (kind = "plain" /\ out # <<>>) =>
    /\ Head(out) = PathLine
    /\ \E n \in 1..Len(out) :
         /\ out[n] = Blank
         /\ {i \in 1..n : out[i] = Host} # {} /\ \A i, j \in 1..n : (out[i] = Host /\ out[j] = Host) => i = j
         /\ \A i \in n + 1..Len(out) : out[i][1] = "data" /\ (i > n + 1 => out[i][2] > out[i-1][2])
=============================================================================
