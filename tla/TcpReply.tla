------------------------------ MODULE TcpReply ------------------------------
(***************************************************************************)
(* The reply to a TCP request of RST and Hysteria2 as the client reads it   *)
(* (encode_tcp_response, try_decode_tcp_response and the varints of         *)
(* rst/protocol.rs and hysteria2/protocol.rs, the read loop of open_tcp in  *)
(* rst/client.rs and hysteria2/client.rs): the bytes arrive in pieces, and  *)
(* after each piece the decoder is asked whether the reply is complete.     *)
(***************************************************************************)
EXTENDS Integers, Sequences, SequencesExt

CONSTANTS
  MsgLens,   \* lengths of the message, some above the one-byte varints
  PadLens,   \* lengths of the padding
  DataLens,  \* bytes of the target that follow the reply
  MaxPiece   \* bytes of one piece at the start and at the end; the rest comes at once

Filler(n) == [i \in 1..n |-> 7]
Drop(s, n) == SubSeq(s, n + 1, Len(s))

\* write_varint and read_varint for values below 2^14
Varint(v) == IF v <= 63 THEN <<v>> ELSE <<(v \div 256) + 64, v % 256>>

\* The value and what is left, or the error.
ReadVarint(b) ==
  IF b = <<>> THEN [err |-> "empty varint"]
  ELSE IF Head(b) < 64 THEN [err |-> "", val |-> Head(b), rest |-> Tail(b)]
  ELSE IF Len(b) < 2 THEN [err |-> "truncated varint"]
  ELSE [err |-> "", val |-> (b[1] - 64) * 256 + b[2], rest |-> Drop(b, 2)]

EncodeTcpResponse(ok, msg, pad) ==
  <<IF ok THEN 0 ELSE 1>> \o Varint(msg) \o Filler(msg) \o Varint(pad) \o Filler(pad)

\* Mutant of DecodeTcpResponse: the padding is not skipped.
DecodeTcpResponsePadded(b) ==
  IF b = <<>> THEN [err |-> "truncated tcp response"] ELSE
  LET m == ReadVarint(Tail(b)) IN
    IF m.err # "" THEN [err |-> m.err]
    ELSE IF Len(m.rest) < m.val THEN [err |-> "truncated message"] ELSE
    LET p == ReadVarint(Drop(m.rest, m.val)) IN
      IF p.err # "" THEN [err |-> p.err]
      ELSE [err |-> "", ok |-> Head(b) = 0, rest |-> p.rest]

DecodeTcpResponse(b) ==
  IF b = <<>> THEN [err |-> "truncated tcp response"] ELSE
  LET m == ReadVarint(Tail(b)) IN
    IF m.err # "" THEN [err |-> m.err]
    ELSE IF Len(m.rest) < m.val THEN [err |-> "truncated message"] ELSE
    LET p == ReadVarint(Drop(m.rest, m.val)) IN
      IF p.err # "" THEN [err |-> p.err]
      ELSE IF Len(p.rest) < p.val THEN [err |-> "truncated padding"]
      ELSE [err |-> "", ok |-> Head(b) = 0, rest |-> Drop(p.rest, p.val)]

\* msg.contains("truncated")
Truncated == {"truncated tcp response", "truncated varint", "truncated message", "truncated padding"}

VARIABLES
  want,   \* what the server sent: whether ok, and the data after the reply
  wire,   \* bytes still to arrive
  buf,    \* the client's buffer
  out     \* "reading", "ok", "refused", "error" or "closed"

vars == <<want, wire, buf, out>>

TypeOK ==
  /\ want.ok \in BOOLEAN /\ want.data \in DataLens
  /\ wire \in Seq(0..255) /\ buf \in Seq(0..255)
  /\ out \in {"reading", "ok", "refused", "error", "closed"}

Init ==
  /\ want \in [ok : BOOLEAN, data : DataLens]
  /\ \E m \in MsgLens, p \in PadLens :
       wire = EncodeTcpResponse(want.ok, m, p) \o Filler(want.data)
  /\ buf = <<>> /\ out = "reading"

\* try_decode_tcp_response on the buffer b
TryDecode(b) ==
  LET r == DecodeTcpResponse(b) IN
    IF b = <<>> \/ r.err \in Truncated THEN out' = "reading" /\ buf' = b
    ELSE IF r.err # "" THEN out' = "error" /\ buf' = b
    ELSE out' = (IF r.ok THEN "ok" ELSE "refused") /\ buf' = r.rest

\* One read of the client, and the decoder's verdict on all read so far.
ReadPiece(n) ==
  /\ out = "reading" /\ n <= Len(wire)
  /\ wire' = Drop(wire, n) /\ TryDecode(buf \o SubSeq(wire, 1, n))
  /\ UNCHANGED want

\* The server closes the stream with the reply incomplete.
StreamEnds ==
  /\ out = "reading" /\ out' = "closed"
  /\ UNCHANGED <<want, wire, buf>>

Pieces == {n \in 1..Len(wire) : n <= MaxPiece \/ Len(wire) - n <= MaxPiece}
Next == (\E n \in Pieces : ReadPiece(n)) \/ StreamEnds
Spec == Init /\ [][Next]_vars
-----------------------------------------------------------------------------
\* However the bytes are cut, a decoded reply is the one that was sent, and
\* the data behind it stays in the buffer or on the wire, to the byte.
DecodedIsSent ==
  out \in {"ok", "refused"} =>
    (out = "ok") = want.ok /\ Len(buf) + Len(wire) = want.data

\* "returns `None` if more bytes are needed" (protocol.rs:104): a piece of a
\* reply is never an error.  Broken: a length that has not begun to arrive is an
\* "empty varint", which does not count as truncated.
PieceIsNotAnError == out # "error"
=============================================================================
