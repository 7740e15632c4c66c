----------------------------- MODULE RsqControl -----------------------------
(***************************************************************************)
(* The control stream of an RSQ session after AUTH (rsq/control.rs), with   *)
(* the frame decoder it reads through (rsq/protocol.rs): the client sends a *)
(* PING and waits for a PONG, the server answers, and both read a byte      *)
(* stream that may be cut anywhere.                                         *)
(*                                                                         *)
(* A frame is four pieces, the cuts the decoder tells apart: five bytes of  *)
(* header, the sixth, the length, and the padding.                          *)
(***************************************************************************)
EXTENDS Integers, Sequences

CONSTANTS
  Threshold,  \* PONG_FAIL_CLOSE_THRESHOLD
  MaxFly      \* frames a direction of the stream holds

VARIABLES
  ping, pong,  \* pieces in flight, to the server and to the client
  cbuf, sbuf,  \* what the client (in wait_for_pong) and the server have read
  cpc,         \* client: "sleep", "wait" or "closed"
  fails,       \* consecutive_pong_timeouts
  serving,     \* whether the server's loop runs
  damaged      \* history: pieces of a frame were dropped, or a read stopped at byte 6

vars == <<ping, pong, cbuf, sbuf, cpc, fails, serving, damaged>>

Frame == <<1, 2, 3, 4>>

TypeOK ==
  /\ {ping, pong, cbuf, sbuf} \subseteq Seq(1..4)
  /\ cpc \in {"sleep", "wait", "closed"} /\ fails \in 0..Threshold
  /\ serving \in BOOLEAN /\ damaged \in BOOLEAN

Init ==
  /\ ping = <<>> /\ pong = <<>> /\ cbuf = <<>> /\ sbuf = <<>>
  /\ cpc = "sleep" /\ fails = 0 /\ serving = TRUE /\ damaged = FALSE
-----------------------------------------------------------------------------
\* The stretches of the stream that are shorter than six bytes.
Short == {<<>>, <<1>>, <<2>>, <<3>>, <<2, 3>>}

\* try_decode_frame: six bytes and no length is an error ("empty varint"),
\* any other part of a frame is Ok(None).
Decode(buf) ==
  IF buf \in Short THEN "more"
  ELSE IF Head(buf) # 1 \/ Len(buf) = 2 THEN "bad"
  ELSE IF Len(buf) < 4 THEN "more" ELSE "frame"

Rest(buf) == SubSeq(buf, 5, Len(buf))
Partial(buf) == Len(buf) % 4 # 0

\* client_ping_loop: the interval has passed.
Ping ==
  /\ cpc = "sleep" /\ Len(ping) <= 4 * (MaxFly - 1)
  /\ ping' = ping \o Frame /\ cbuf' = <<>> /\ cpc' = "wait"
  /\ UNCHANGED <<pong, sbuf, fails, serving, damaged>>

\* wait_for_pong, while the buffer holds no frame.
ReadPong(n) ==
  /\ cpc = "wait" /\ Decode(cbuf) = "more" /\ n <= Len(pong)
  /\ cbuf' = cbuf \o SubSeq(pong, 1, n) /\ pong' = SubSeq(pong, n + 1, Len(pong))
  /\ UNCHANGED <<ping, sbuf, cpc, fails, serving, damaged>>

\* Mutant of GotPong: the rest of the frame is left in the stream.
GotPongSkips ==
  /\ cpc = "wait" /\ Decode(cbuf) = "frame"
  /\ fails' = 0 /\ cpc' = "sleep" /\ cbuf' = <<>> /\ pong' = SubSeq(cbuf, 4, Len(cbuf)) \o pong
  /\ damaged' = (damaged \/ Partial(cbuf))
  /\ UNCHANGED <<ping, sbuf, serving>>

\* The PONG is there; what was read after it is dropped with the buffer.
GotPong ==
  /\ cpc = "wait" /\ Decode(cbuf) = "frame"
  /\ fails' = 0 /\ cpc' = "sleep" /\ cbuf' = <<>>
  /\ damaged' = (damaged \/ Partial(cbuf))
  /\ UNCHANGED <<ping, pong, sbuf, serving>>

\* Mutant of PongTimeout: the first timeout closes the connection.
PongTimeoutCloses ==
  /\ cpc = "wait" /\ Decode(cbuf) = "more"
  /\ fails' = fails + 1 /\ cpc' = "closed" /\ cbuf' = <<>>
  /\ damaged' = (damaged \/ Partial(cbuf))
  /\ UNCHANGED <<ping, pong, sbuf, serving>>

\* PONG_TIMEOUT without a byte: the buffer goes, the stream does not.
PongTimeout ==
  /\ cpc = "wait" /\ Decode(cbuf) = "more"
  /\ fails' = fails + 1 /\ cbuf' = <<>>
  /\ cpc' = IF fails' >= Threshold THEN "closed" ELSE "sleep"
  /\ damaged' = (damaged \/ Partial(cbuf))
  /\ UNCHANGED <<ping, pong, sbuf, serving>>

\* A bad frame ends the loop, and spawn_client_ping closes the connection.
BadPong ==
  /\ cpc = "wait" /\ Decode(cbuf) = "bad"
  /\ cpc' = "closed" /\ damaged' = (damaged \/ Len(cbuf) = 2)
  /\ UNCHANGED <<ping, pong, cbuf, sbuf, fails, serving>>

\* Mutant of StreamEnded: the end of the stream is one more soft failure.
StreamEndedRetried ==
  /\ ~serving /\ cpc = "wait" /\ Decode(cbuf) = "more" /\ pong = <<>>
  /\ cpc' = "sleep" /\ cbuf' = <<>>
  /\ UNCHANGED <<ping, pong, sbuf, fails, serving, damaged>>

\* The server's halves of the stream are gone: the next PING cannot be
\* written, and the end of the PONGs is read as the end of the stream.
StreamEnded ==
  /\ ~serving
  /\ cpc = "sleep" \/ (cpc = "wait" /\ Decode(cbuf) = "more" /\ pong = <<>>)
  /\ cpc' = "closed" /\ UNCHANGED <<ping, pong, cbuf, sbuf, fails, serving, damaged>>

\* server_control_loop
ReadPing(n) ==
  /\ serving /\ cpc # "closed" /\ Decode(sbuf) = "more" /\ n <= Len(ping)
  /\ sbuf' = sbuf \o SubSeq(ping, 1, n) /\ ping' = SubSeq(ping, n + 1, Len(ping))
  /\ UNCHANGED <<pong, cbuf, cpc, fails, serving, damaged>>

Pong ==
  /\ serving /\ Decode(sbuf) = "frame" /\ Len(pong) <= 4 * (MaxFly - 1)
  /\ pong' = pong \o Frame /\ sbuf' = Rest(sbuf)
  /\ UNCHANGED <<ping, cbuf, cpc, fails, serving, damaged>>

BadPing ==
  /\ serving /\ Decode(sbuf) = "bad"
  /\ serving' = FALSE /\ damaged' = (damaged \/ Len(sbuf) = 2)
  /\ UNCHANGED <<ping, pong, cbuf, sbuf, cpc, fails>>

Client == Ping \/ (\E n \in 1..(4 * MaxFly) : ReadPong(n)) \/ GotPong \/ PongTimeout
          \/ BadPong \/ StreamEnded
Server == (\E n \in 1..(4 * MaxFly) : ReadPing(n)) \/ Pong \/ BadPing
Next == Client \/ Server

\* Both loops are spawned tasks; the client's sleep and wait are timers.
Fairness == WF_vars(Client) /\ WF_vars(Server)
Spec == Init /\ [][Next]_vars /\ Fairness
-----------------------------------------------------------------------------
\* The client gives the connection up only after Threshold timeouts in a row,
\* except when the stream was cut inside a frame and the cut-off piece was
\* dropped, or a read stopped right after the sixth byte.
ClosesOnThreshold == cpc = "closed" => fails = Threshold \/ damaged

\* As long as no frame was cut, the server's loop keeps running and whatever
\* the client has read begins with a frame: late and repeated PONGs do not
\* put the two out of step.
InStep ==
  ~damaged => /\ serving
              /\ \A buf \in {cbuf, sbuf} : buf # <<>> => Head(buf) = 1

\* Once the server's loop has ended the client notices and closes.
ServerGone == ~serving
ClientClosed == cpc = "closed"
DeadServerNoticed == ServerGone ~> ClientClosed

\* What makes the first two inductive: while nothing was cut off, what a side has
\* read and what it has still to read are whole frames; a client that sleeps
\* has read nothing, and one that goes on has timeouts left.
Frames(s) == Len(s) % 4 = 0 /\ \A i \in 1..Len(s) : s[i] = ((i - 1) % 4) + 1
WholeFrames == ~damaged => serving /\ Frames(cbuf \o pong) /\ Frames(sbuf \o ping)
ClientGoesOn ==
  /\ cpc = "sleep" => cbuf = <<>>
  /\ cpc # "closed" => fails < Threshold
IInv == TypeOK /\ WholeFrames /\ ClientGoesOn /\ ClosesOnThreshold
=============================================================================
