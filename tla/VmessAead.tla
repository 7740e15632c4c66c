------------------------------ MODULE VmessAead -----------------------------
(***************************************************************************)
(* The VMess AEAD handshake (rsb-protocol/src/vmess_aead.rs, used by        *)
(* vmess.rs): the client's sealed request, the server that looks for the    *)
(* user it is from and answers, and the client's stream, which reads the    *)
(* answer in front of the first payload, as far as it has arrived.          *)
(*                                                                         *)
(* A derived key is the key and the path it was derived from, a ciphertext  *)
(* is what it was sealed with, and opens under the same.  Of the answer only *)
(* lengths count on the wire: its two ciphertexts and the payload arrive in *)
(* pieces of any length.                                                    *)
(***************************************************************************)
EXTENDS Integers, Sequences

CONSTANTS
  Users,     \* user ids
  Configs,   \* the server's users, as sequences
  Skews,     \* clock of the client against the server's
  MaxSkew,   \* 120 seconds
  Dests,     \* destinations: [kind, port]
  Paddings,  \* padding lengths of the request header
  FieldLen,  \* length of either ciphertext of the answer,
  BodyLen    \* and of the payload, on the wire

VARIABLES
  uuid, users, skew, dest, padding, \* the client, the server's users, the request
  packet,            \* the request under way
  accepted,          \* the server's VmessAcceptResult
  client, server,
  response,          \* the server's answer
  arrived, eof,      \* bytes the client's socket has got of it, and whether it has ended
  reader, filled,    \* VmessResponseState
  taken,             \* bytes read from the socket
  task,              \* the caller's read: running, waiting with a waker, or without
  cut                \* history: a poll has found part of a ciphertext only

request == <<uuid, users, skew, dest, padding>>
answer == <<response, arrived, eof>>
reading == <<reader, filled, taken, task, cut>>
vars == <<request, packet, accepted, client, server, answer, reading>>

None == [none |-> TRUE]
AddrLen(kind) == IF kind = "v4" THEN 4 ELSE 16
Total == 2 * FieldLen + BodyLen

TypeOK ==
  /\ uuid \in Users /\ users \in Configs /\ skew \in Skews /\ dest \in Dests /\ padding \in Paddings
  /\ client \in {"start", "sent", "failed"} /\ server \in {"read", "answer", "body", "done", "failed"}
  /\ arrived \in 0..Total /\ eof \in BOOLEAN
  /\ reader \in {"len", "header", "done"} /\ filled \in 0..FieldLen /\ taken \in 0..arrived
  /\ task \in {"run", "waits", "stuck", "error", "got", "ended"} /\ cut \in BOOLEAN

Init ==
  /\ uuid \in Users /\ users \in Configs /\ skew \in Skews /\ dest \in Dests /\ padding \in Paddings
  /\ packet = None /\ accepted = None /\ client = "start" /\ server = "read"
  /\ response = None /\ arrived = 0 /\ eof = FALSE
  /\ reader = "len" /\ filled = 0 /\ taken = 0 /\ task = "run" /\ cut = FALSE
-----------------------------------------------------------------------------
(* Keys *)

CmdKey(u) == <<"cmd", u>>
Kdf(key, path) == <<"kdf", key, path>>
Seal(key, nonce, plain, aad) == [key |-> key, nonce |-> nonce, plain |-> plain, aad |-> aad]
Opens(c, key, nonce, aad) == c.key = key /\ c.nonce = nonce /\ c.aad = aad
AuthId(key, ts) == [key |-> Kdf(key, <<"AuthID">>), ts |-> ts]

RequestKey(cmdKey, what, auth, nonce) == Kdf(cmdKey, <<what, auth, nonce>>)

ResponseKey(key, what) == Kdf(<<"sha", key>>, <<what>>)
-----------------------------------------------------------------------------
(* The client's request *)

\* encode_header: 38 bytes, port and address, the padding and a checksum.
EncodeHeader ==
  [dest |-> dest, padding |-> padding, key |-> "rk", nonce |-> "rn", response |-> "v",
   len |-> 38 + 3 + AddrLen(dest.kind) + padding + 4]

WriteHandshake ==
  /\ client = "start" /\ client' = "sent"
  /\ LET cmdKey == CmdKey(uuid)
         auth == AuthId(cmdKey, skew)
         header == EncodeHeader
         K(what) == RequestKey(cmdKey, what, auth, "cn")
     IN packet' = [auth |-> auth, nonce |-> "cn",
                   len |-> Seal(K("LenKey"), K("LenIV"), header.len, auth),
                   header |-> Seal(K("Key"), K("IV"), header, auth)]
  /\ UNCHANGED <<request, accepted, server, answer, reading>>
-----------------------------------------------------------------------------
(* The server *)

DecodeAuthId(u, auth) == auth.key = Kdf(CmdKey(u), <<"AuthID">>)

\* Mutant of AuthTimestampValid: only clocks behind the server's are checked.
AuthTimestampBehind(ts) == -ts <= MaxSkew

AuthTimestampValid(ts) == (IF ts < 0 THEN -ts ELSE ts) <= MaxSkew

\* parse_request_header: what is between the fixed part and the padding is the
\* address, which read_address takes from the front.
ParseRequestHeader(h) ==
  LET end == h.len - (4 + h.padding)
  IN IF end <= 38 \/ end - 41 < AddrLen(h.dest.kind) THEN None
     ELSE [dest |-> h.dest, key |-> h.key, nonce |-> h.nonce, response |-> h.response]

\* The first user whose key decodes the id, and in time, is the client's.
AcceptHandshake ==
  /\ server = "read" /\ packet # None
  /\ LET hits == {i \in DOMAIN users : DecodeAuthId(users[i], packet.auth) /\ AuthTimestampValid(packet.auth.ts)}
     IN IF hits = {} THEN server' = "failed" /\ UNCHANGED accepted
        ELSE LET user == users[CHOOSE i \in hits : \A j \in hits : i <= j]
                 K(what) == RequestKey(CmdKey(user), what, packet.auth, packet.nonce)
                 h == ParseRequestHeader(packet.header.plain)
             IN IF /\ Opens(packet.len, K("LenKey"), K("LenIV"), packet.auth)
                   /\ Opens(packet.header, K("Key"), K("IV"), packet.auth)
                   /\ packet.len.plain = packet.header.plain.len /\ h # None
                THEN accepted' = [user |-> user, request |-> h] /\ server' = "answer"
                ELSE server' = "failed" /\ UNCHANGED accepted
  /\ UNCHANGED <<request, packet, client, answer, reading>>

\* write_server_response: before the destination is dialled.
WriteServerResponse ==
  /\ server = "answer" /\ server' = "body"
  /\ LET r == accepted.request IN
     response' = [len |-> Seal(ResponseKey(r.key, "LenKey"), ResponseKey(r.nonce, "LenIV"), 4, None),
                  header |-> Seal(ResponseKey(r.key, "Key"), ResponseKey(r.nonce, "IV"), r.response, None)]
  /\ UNCHANGED <<request, packet, accepted, client, arrived, eof, reading>>

\* serve_vmess: the dial succeeds and the payload follows, or the connection
\* ends after the answer.
Sent == IF server = "body" THEN 2 * FieldLen ELSE IF server = "done" THEN Total ELSE 0
Serve ==
  /\ server = "body" /\ server' \in {"done", "failed"}
  /\ UNCHANGED <<request, packet, accepted, client, answer, reading>>
-----------------------------------------------------------------------------
(* The network: bytes arrive, and wake a reader that waits for them *)

Deliver ==
  /\ response # None /\ \E n \in (arrived + 1)..(IF server = "failed" THEN 2 * FieldLen ELSE Sent) : arrived' = n
  /\ task' = IF task = "waits" THEN "run" ELSE task
  /\ UNCHANGED <<request, packet, accepted, client, server, response, eof, reader, filled, taken, cut>>

Ends ==
  /\ server = "failed" /\ ~eof /\ (response # None => arrived = 2 * FieldLen) /\ eof' = TRUE
  /\ task' = IF task = "waits" THEN "run" ELSE task
  /\ UNCHANGED <<request, packet, accepted, client, server, response, arrived, reader, filled, taken, cut>>
-----------------------------------------------------------------------------
(* VmessResponseStream::poll_read *)

Available == arrived - taken
Take(n) == IF Available < n THEN Available ELSE n

\* Mutant of Field: one read is taken for the whole field.
FieldOnce(st, next, ok) ==
  /\ task = "run" /\ client = "sent" /\ reader = st
  /\ LET n == Take(FieldLen) IN
     \/ n = 0 /\ ~eof /\ task' = "waits" /\ UNCHANGED <<reader, taken>>
     \/ n > 0 /\ taken' = taken + n /\ reader' = next /\ task' = task
  /\ UNCHANGED <<request, packet, accepted, client, server, answer, filled, cut>>

\* advance_response in the state reader = st: what has arrived is copied.  A
\* field that is not complete yet gives Pending, and no waker is left with the
\* socket; nothing at all gives Pending with one.
Field(st, next, ok) ==
  /\ task = "run" /\ client = "sent" /\ reader = st
  /\ LET n == Take(FieldLen - filled) IN
     \/ /\ n = 0 /\ ~eof /\ task' = "waits" /\ UNCHANGED <<reader, filled, taken, cut>>
     \/ /\ (n > 0 \/ eof) /\ filled + n < FieldLen
        /\ filled' = filled + n /\ taken' = taken + n /\ cut' = TRUE /\ task' = "stuck" /\ UNCHANGED reader
     \/ /\ n > 0 /\ filled + n = FieldLen
        /\ filled' = 0 /\ taken' = taken + n /\ UNCHANGED cut
        /\ IF ok THEN reader' = next /\ task' = task ELSE reader' = "done" /\ task' = "error"
  /\ UNCHANGED <<request, packet, accepted, client, server, answer>>

\* Mutant of ReadLen: the field is complete, and the poll ends all the same.
ReadLenReturns ==
  /\ task = "run" /\ client = "sent" /\ reader = "len" /\ Available >= FieldLen
  /\ reader' = "header" /\ taken' = taken + FieldLen /\ task' = "stuck"
  /\ UNCHANGED <<request, packet, accepted, client, server, answer, filled, cut>>

ReadLen == Field("len", "header", Opens(response.len, ResponseKey("rk", "LenKey"), ResponseKey("rn", "LenIV"), None))

ReadHeader == Field("header", "done", Opens(response.header, ResponseKey("rk", "Key"), ResponseKey("rn", "IV"), None))

ReadBody ==
  /\ task = "run" /\ client = "sent" /\ reader = "done"
  /\ \/ Available = 0 /\ ~eof /\ task' = "waits" /\ UNCHANGED taken
     \/ Available = 0 /\ eof /\ task' = "ended" /\ UNCHANGED taken
     \/ Available > 0 /\ task' = "got" /\ taken' = arrived
  /\ UNCHANGED <<request, packet, accepted, client, server, answer, reader, filled, cut>>

Next ==
  \/ WriteHandshake \/ AcceptHandshake \/ WriteServerResponse \/ Serve
  \/ Deliver \/ Ends \/ ReadLen \/ ReadHeader \/ ReadBody

\* The runtime polls what is woken and runs the server's task; the connection
\* delivers, or ends, what was sent.
Spec ==
  /\ Init /\ [][Next]_vars
  /\ WF_vars(WriteHandshake) /\ WF_vars(AcceptHandshake) /\ WF_vars(WriteServerResponse) /\ WF_vars(Serve)
  /\ WF_vars(Deliver) /\ WF_vars(Ends) /\ WF_vars(ReadLen) /\ WF_vars(ReadHeader) /\ WF_vars(ReadBody)
-----------------------------------------------------------------------------
(* Properties *)

\* The server takes a request for exactly the user it was sealed for, and with
\* the destination it names, if and only if the user is one of its own and the
\* clocks are at most MaxSkew apart, on either side.
AcceptsItsUsers ==
  /\ server \notin {"read", "failed"} =>
       accepted.user = uuid /\ accepted.request.dest = dest /\ -MaxSkew <= skew /\ skew <= MaxSkew
  /\ server = "failed" /\ accepted = None =>
       ~(\E i \in DOMAIN users : users[i] = uuid) \/ skew > MaxSkew \/ skew < -MaxSkew

\* The caller never sees a byte of the answer as payload, and the answer of the
\* server it asked always opens.
PayloadBehindAnswer ==
  /\ task = "got" => taken > 2 * FieldLen
  /\ task # "error"

\* Unless a poll finds a ciphertext incomplete, the caller's read returns, with
\* the payload or the end of the connection.  (A poll that does finds part of
\* the answer, or the end in front of it, leaves no waker and is never polled
\* again.)
Returned == cut \/ task \in {"got", "ended", "error"}
ReadReturns == <>Returned
=============================================================================
