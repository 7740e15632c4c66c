----------------------------- MODULE RealityTls -----------------------------
(***************************************************************************)
(* A REALITY connection: the client of reality.rs and utls/tls13.rs, the    *)
(* inbound of reality_inbound.rs, and the site it hides behind.  The client *)
(* seals its short id and its clock into the session id of the ClientHello; *)
(* the inbound answers the handshake itself when it can open the seal and   *)
(* otherwise joins the client to the site.  Keys are symbolic: a key is the *)
(* side that writes with it, the cipher suite, and the transcript it was    *)
(* derived from.  A record opens when key and sequence number are the       *)
(* reader's.                                                                *)
(***************************************************************************)
EXTENDS Integers, Sequences

CONSTANTS
  Skews,      \* client clock minus server clock,
  MaxDiff,    \* and max_time_difference, 0 when not configured
  ShortIds,   \* short ids of clients,
  Allowed,    \* and the configured ones
  MaxData     \* records each side sends once it is open

VARIABLES
  setup,      \* what the two sides are configured with, and how the site answers
  cpc, spc,   \* where client and inbound stand
  c2s, s2c,   \* records on their way
  hello,      \* the ServerHello each side knows
  keys,       \* the application keys each side derived
  seqs,       \* per side: sequence number of the next record read and written
  got,        \* payload each side delivered
  broken      \* what upset the record stream: "late", the client's Finished was
              \* not there within two seconds; "cut", a record arrived in pieces;
              \* "retried", the socket was full

vars == <<setup, cpc, spc, c2s, s2c, hello, keys, seqs, got, broken>>

\* The default of max_time_difference, 120 seconds, in units of 60.
DefaultDiff == 2
Sides == {"client", "server"}
Sites == {"down", "tls12", "aes128", "aes256", "chacha"}
NoHello == [from |-> "none", cipher |-> "none"]
NoKey == [use |-> "none", side |-> "client", cipher |-> "none", over |-> <<>>]
NoKeys == [client |-> NoKey, server |-> NoKey]

Record(type, key, seq, msgs) == [type |-> type, key |-> key, seq |-> seq, msgs |-> msgs]
Ccs == Record("ccs", NoKey, 0, <<>>)
ClientHello == Record("hello", NoKey, 0, <<>>)
ServerHello(h) == Record("hello", NoKey, 0, <<h.from, h.cipher>>)

\* read_encrypted_record: the reader has the key, and counts as the writer did.
Opens(r, key, seq) == r.key = key /\ r.seq = seq
HasFinished(msgs) == \E i \in DOMAIN msgs : msgs[i] = "fin"
-----------------------------------------------------------------------------
(* Authentication: patch_reality_session, verify_reality_session *)

\* Mutant of ShortIdMatches: a zero in the client's id is the wildcard.
ShortIdMatchesBack(allowed, id) == \A i \in DOMAIN id : id[i] = 0 \/ allowed[i] = id[i]

\* A zero byte of a configured short id matches every byte.
ShortIdMatches(allowed, id) == \A i \in DOMAIN id : allowed[i] = 0 \/ allowed[i] = id[i]

ValidateSessionPlain(skew, id) ==
  /\ (IF skew < 0 THEN -skew ELSE skew) <= (IF MaxDiff = 0 THEN DefaultDiff ELSE MaxDiff)
  /\ \E a \in Allowed : ShortIdMatches(a, id)

\* The seal opens when the client used the inbound's public key.
VerifyRealitySession == setup.paired /\ ValidateSessionPlain(setup.skew, setup.id)
-----------------------------------------------------------------------------
(* The key schedule *)

\* The hello is hashed with its session id zeroed, by client and inbound; the
\* site hashes what it received.
Transcript(h) == <<IF h.from = "site" THEN "hello" ELSE "hello0", h.from>>

HandshakeKey(side, h, t) ==
  [use |-> "handshake", side |-> side, cipher |-> h.cipher, over |-> t]
Flight == <<"extensions", "cert", "verify", "fin">>
AppKeys(h, t) == [s \in Sides |->
  [use |-> "application", side |-> s, cipher |-> h.cipher, over |-> t]]
-----------------------------------------------------------------------------
Setups ==
  [paired : BOOLEAN, skew : Skews, id : ShortIds, site : Sites, combined : BOOLEAN]

Init ==
  /\ setup \in Setups
  /\ cpc = "hello" /\ spc = "accept" /\ c2s = <<>> /\ s2c = <<>>
  /\ hello = [s \in Sides |-> NoHello] /\ keys = [s \in Sides |-> NoKeys]
  /\ seqs = [s \in Sides |-> [read |-> 0, write |-> 0]]
  /\ got = [s \in Sides |-> 0] /\ broken = {}

\* reality_connect up to the first answer.
SendHello ==
  /\ cpc = "hello"
  /\ cpc' = "serverhello" /\ c2s' = Append(c2s, ClientHello)
  /\ UNCHANGED <<setup, spc, s2c, hello, keys, seqs, got, broken>>

\* The answer of the site, as relay_passthrough brings it.
SiteFlight == LET h == [from |-> "site", cipher |-> setup.site] IN
  <<ServerHello(h),
    Record("enc", HandshakeKey("server", h, Transcript(h)), 0, Flight)>>

\* A hello the inbound cannot authenticate goes to the site, which the client
\* then talks to.
RelayPassthrough ==
  /\ spc = "accept" /\ c2s # <<>> /\ ~VerifyRealitySession
  /\ spc' = "passthrough" /\ c2s' = Tail(c2s)
  /\ s2c' = IF setup.site \in {"down", "tls12"} THEN s2c ELSE s2c \o SiteFlight
  /\ UNCHANGED <<setup, cpc, hello, keys, seqs, got, broken>>

\* rebuild_server_hello: the site's ServerHello with the inbound's key share,
\* when the site is reached and answers with TLS 1.3.
MirrorDestHandshake ==
  {[from |-> "mirror", cipher |-> c] : c \in {setup.site} \ {"down", "tls12"}}


\* The first suite of the inbound's order that the client offers: every profile
\* offers AES-128.
PickClientCipher == "aes128"

\* Otherwise a hello of its own.
MirrorAndAccept ==
  IF MirrorDestHandshake = {} THEN [from |-> "local", cipher |-> PickClientCipher]
  ELSE CHOOSE h \in MirrorDestHandshake : TRUE

\* The flight under the server's handshake key: one record for the whole when the
\* hello is mirrored and long, one for each message otherwise.
ServerFlight(h) ==
  LET k == HandshakeKey("server", h, Transcript(h)) IN
  IF h.from = "mirror" /\ setup.combined THEN <<Record("enc", k, 0, Flight)>>
  ELSE [i \in 1..4 |-> Record("enc", k, i - 1, <<Flight[i]>>)]

\* accept_reality_core: the ServerHello goes out first, then a suite the
\* inbound cannot do ends it; the application keys are derived at once.
AcceptReality ==
  /\ spc = "accept" /\ c2s # <<>> /\ VerifyRealitySession
  /\ c2s' = Tail(c2s)
  /\ LET h == MirrorAndAccept
         sent == <<ServerHello(h)>> IN
     /\ hello' = [hello EXCEPT !["server"] = h]
     /\ IF h.cipher \notin {"aes128", "aes256"}
        THEN spc' = "failed" /\ s2c' = s2c \o sent /\ UNCHANGED keys
        ELSE /\ spc' = "drain"
             /\ s2c' = s2c \o sent \o <<Ccs>> \o ServerFlight(h)
             /\ keys' = [keys EXCEPT !["server"] = AppKeys(h, Transcript(h) \o Flight)]
  /\ UNCHANGED <<setup, cpc, seqs, got, broken>>

ServeConnection == RelayPassthrough \/ AcceptReality
-----------------------------------------------------------------------------
(* tls13_handshake_core *)

ReadServerHello ==
  /\ cpc = "serverhello" /\ s2c # <<>>
  /\ LET h == [from |-> Head(s2c).msgs[1], cipher |-> Head(s2c).msgs[2]]
         \* the client always hashes the zeroed hello
         mine == IF h.from = "site" THEN [h EXCEPT !.from = "mirror"] ELSE h IN
     /\ hello' = [hello EXCEPT !["client"] = mine]
     /\ cpc' = IF h.cipher = "chacha" THEN "failed" ELSE "flight"
  /\ s2c' = Tail(s2c)
  /\ UNCHANGED <<setup, spc, c2s, keys, seqs, got, broken>>

ClientFails ==
  /\ cpc' = "failed"
  /\ UNCHANGED <<setup, spc, c2s, hello, keys, seqs, got, broken>>

\* Mutant of ClientTranscript: the client's own Finished is hashed too, as in
\* the branch without REALITY.
ClientTranscriptWithFinished(h) == Transcript(h) \o Flight \o <<"fin">>

\* With REALITY the application keys come from the transcript up to the
\* server's Finished.
ClientTranscript(h) == Transcript(h) \o Flight

\* The certificate's signature is one with the secret that client and inbound
\* share.
VerifyRealityCertificate == setup.paired

\* The flight is complete: the certificate must be signed with the shared
\* secret, Finished goes out, and the application ciphers are built, for which
\* only the key length of AES-128 is accepted.
FinishHandshake(h) ==
  IF ~VerifyRealityCertificate THEN ClientFails
  ELSE /\ c2s' = c2s \o <<Ccs, Record("enc", HandshakeKey("client", h, Transcript(h)), 0, <<"fin">>)>>
       /\ seqs' = [seqs EXCEPT !["client"].read = 0]
       /\ keys' = [keys EXCEPT !["client"] = AppKeys(h, ClientTranscript(h))]
       /\ cpc' = IF h.cipher = "aes128" THEN "open" ELSE "failed"
       /\ UNCHANGED <<setup, spc, hello, got, broken>>

\* One record of the server's flight; a CCS is skipped.
ReadFlight ==
  /\ cpc = "flight" /\ s2c # <<>>
  /\ s2c' = Tail(s2c)
  /\ LET r == Head(s2c)
         h == hello["client"]
         opens == Opens(r, HandshakeKey("server", h, Transcript(h)), seqs["client"].read) IN
     \/ /\ r.type = "ccs"
        /\ UNCHANGED <<setup, cpc, spc, c2s, hello, keys, seqs, got, broken>>
     \/ r.type = "enc" /\ ~opens /\ ClientFails
     \/ /\ r.type = "enc" /\ opens
        /\ IF HasFinished(r.msgs) THEN FinishHandshake(h)
           ELSE /\ seqs' = [seqs EXCEPT !["client"].read = @ + 1]
                /\ UNCHANGED <<setup, cpc, spc, c2s, hello, keys, got, broken>>
-----------------------------------------------------------------------------
(* drain_client_finished *)

\* Mutant of Drain: the record after the Finished is taken as well.
DrainOneMore ==
  /\ spc = "drain" /\ Len(c2s) > 1
  /\ c2s' = IF Head(c2s).type = "ccs" THEN Tail(c2s) ELSE Tail(Tail(c2s))
  /\ spc' = IF Head(c2s).type = "ccs" THEN "drain" ELSE "open"
  /\ UNCHANGED <<setup, cpc, s2c, hello, keys, seqs, got, broken>>

\* A record while Finished is awaited: a CCS is skipped, and the Finished, or
\* a record that does not open, ends the wait.
Drain ==
  /\ spc = "drain" /\ c2s # <<>>
  /\ c2s' = Tail(c2s)
  /\ spc' = IF Head(c2s).type = "ccs" THEN "drain" ELSE "open"
  /\ UNCHANGED <<setup, cpc, s2c, hello, keys, seqs, got, broken>>

\* Two seconds without a Finished: the connection is used all the same.
DrainTimeout ==
  /\ spc = "drain"
  /\ spc' = "open" /\ broken' = broken \cup {"late"}
  /\ UNCHANGED <<setup, cpc, c2s, s2c, hello, keys, seqs, got>>
-----------------------------------------------------------------------------
(* Application data *)

Pc(s) == IF s = "client" THEN cpc ELSE spc
SetPc(s, v) ==
  /\ cpc' = IF s = "client" THEN v ELSE cpc
  /\ spc' = IF s = "server" THEN v ELSE spc

\* A record that the socket takes whole.
PollWrite(s) ==
  LET r == Record("enc", keys[s][s], seqs[s].write, <<"data">>) IN
  /\ Pc(s) = "open" /\ seqs[s].write < MaxData
  /\ c2s' = IF s = "client" THEN Append(c2s, r) ELSE c2s
  /\ s2c' = IF s = "server" THEN Append(s2c, r) ELSE s2c
  /\ seqs' = [seqs EXCEPT ![s].write = @ + 1]
  /\ UNCHANGED <<setup, cpc, spc, hello, keys, got, broken>>

\* The socket is full: the record is thrown away, and the counter has moved.
PollWritePending(s) ==
  /\ Pc(s) = "open" /\ seqs[s].write < MaxData
  /\ seqs' = [seqs EXCEPT ![s].write = @ + 1]
  /\ broken' = broken \cup {"retried"}
  /\ UNCHANGED <<setup, cpc, spc, c2s, s2c, hello, keys, got>>

\* A record whose body is not all there: the header is kept, the part of the
\* body that was read is lost, and the bytes that follow are taken for it.
PollReadCut(s) ==
  LET cut(wire) == [wire EXCEPT ![1].key = NoKey] IN
  /\ Pc(s) = "open"
  /\ \/ s = "client" /\ s2c # <<>> /\ s2c' = cut(s2c) /\ UNCHANGED c2s
     \/ s = "server" /\ c2s # <<>> /\ c2s' = cut(c2s) /\ UNCHANGED s2c
  /\ broken' = broken \cup {"cut"}
  /\ UNCHANGED <<setup, cpc, spc, hello, keys, seqs, got>>

\* poll_read_app_plain: a CCS is skipped, a record that opens is delivered,
\* and any other ends the connection.
PollRead(s) ==
  LET wire == IF s = "client" THEN s2c ELSE c2s
      peer == IF s = "client" THEN "server" ELSE "client" IN
  /\ Pc(s) = "open" /\ wire # <<>>
  /\ c2s' = IF s = "server" THEN Tail(c2s) ELSE c2s
  /\ s2c' = IF s = "client" THEN Tail(s2c) ELSE s2c
  /\ \/ Head(wire).type = "ccs" /\ UNCHANGED <<cpc, spc, seqs, got>>
     \/ /\ Head(wire).type = "enc"
        /\ IF Opens(Head(wire), keys[s][peer], seqs[s].read)
           THEN /\ seqs' = [seqs EXCEPT ![s].read = @ + 1]
                /\ got' = [got EXCEPT ![s] = @ + 1]
                /\ UNCHANGED <<cpc, spc>>
           ELSE SetPc(s, "failed") /\ UNCHANGED <<seqs, got>>
  /\ UNCHANGED <<setup, hello, keys, broken>>

Next ==
  \/ SendHello \/ ServeConnection
  \/ ReadServerHello \/ ReadFlight \/ Drain \/ DrainTimeout
  \/ \E s \in Sides : PollWrite(s) \/ PollWritePending(s) \/ PollRead(s) \/ PollReadCut(s)

Spec == Init /\ [][Next]_vars
-----------------------------------------------------------------------------
(* Properties *)

TypeOK ==
  /\ cpc \in {"hello", "serverhello", "flight", "open", "failed"}
  /\ spc \in {"accept", "passthrough", "drain", "open", "failed"}
  /\ got \in [Sides -> 0..MaxData] /\ broken \subseteq {"late", "cut", "retried"}
  /\ seqs \in [Sides -> [read : 0..MaxData + 4, write : 0..MaxData]]

\* A client with the inbound's key, a clock within the tolerance and a short id
\* that equals a configured one is served whatever the site does: its handshake
\* fails only when the mirrored suite is one the application ciphers lack
\* (UtlsTlsStream::handshake builds AES-128 only).
Registered == setup.paired /\ setup.id \in Allowed
              /\ setup.skew \in -DefaultDiff..DefaultDiff /\ (MaxDiff = 0 \/ MaxDiff >= DefaultDiff)
RegisteredIsServed ==
  Registered /\ setup.site \notin {"aes256", "chacha"}
    => spc # "passthrough" /\ (spc = "failed" => broken # {})

\* Client and inbound, once both are open, write with the keys the other reads
\* with, whichever ServerHello was used and however the flight was packed
\* (derive_application_keys on both sides).
KeysAgree == cpc = "open" /\ spc \in {"drain", "open"} => keys["client"] = keys["server"]

\* A client is open only with an inbound that accepted it: a client whose hello
\* went to the site never takes the site for its inbound, and the inbound's
\* wildcards do not let in a client whose short id is not configured
\* (verify_reality_certificate, validate_session_plain).
OpenMeansAccepted ==
  cpc = "open" => /\ spc \in {"drain", "open", "failed"}
                  /\ \E a \in Allowed : \A i \in DOMAIN a : a[i] \in {0, setup.id[i]}

\* Unless the Finished was late, a record came in pieces or the socket was full,
\* every record one side writes opens on the other: the handshake record is gone
\* before the first read with application keys, no data is taken for it, and the
\* counters stay in step (drain_client_finished, poll_read_app_plain, poll_write).
RecordsOpen ==
  broken = {} /\ cpc = "open"
    => /\ spc \in {"drain", "open"}
       /\ spc = "open" /\ c2s = <<>> => got["server"] = seqs["client"].write
       /\ spc = "open" /\ s2c = <<>> => got["client"] = seqs["server"].write
=============================================================================
