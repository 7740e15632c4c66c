------------------------------ MODULE ShadowTls -----------------------------
(***************************************************************************)
(* ShadowTLS version 3 from end to end (rsb-protocol/src/shadowtls): the    *)
(* client's TLS handshake with a real site through the server, the server's *)
(* two relaying tasks, which wrap what the site sends and wait for the      *)
(* client's authentication record, and the verified connection after it.    *)
(*                                                                         *)
(* Records are delivered whole, and no connection breaks.  A keyed hash is the sequence it was        *)
(* computed over; the site's records are numbered, and so are the payloads  *)
(* of either side.                                                          *)
(***************************************************************************)
EXTENDS Integers, Sequences

CONSTANTS
  MaxTickets, \* records the site sends after the handshake
  MaxData     \* payloads each side sends

Body(from, n) == [from |-> from, n |-> n]
Record(type, mac, body) == [type |-> type, mac |-> mac, body |-> body]
NoMac == <<>>
Tag(s) == Body(IF s = "client" THEN "C" ELSE "S", 0)  \* what either side's chain starts with
Flight == 1  \* the site's encrypted handshake records, one here

VARIABLES
  known, tls13, strict,      \* the password is the server's; what the site speaks; strict_mode
  client, server,            \* progress of the two sides
  c2s, s2c, site,            \* records under way, and from the site to the server
  sent, finished,            \* records the site has sent; it has the client's Finished
  writeMac, readMac,         \* hash chains of the wrapped handshake records
  authorized,                \* V3HandshakeConn
  authDone, s2cTask,         \* relay_handshake_auth
  ignore,                    \* hmac_ignore is set
  pending,                   \* records stashed for VerifiedConn
  chain,                     \* hash chains of the verified connection: <<who, direction>>
  data,                      \* payloads sent, per side
  got,                       \* history: what the caller on each side has read
  late, first                \* history: wrapped records the client got after its handshake;
                             \* the server took a record with payload for authentication
setup == <<known, tls13, strict>>
links == <<c2s, s2c, site>>
macs == <<writeMac, readMac, authorized>>
relay == <<authDone, s2cTask>>
conn == <<ignore, pending, chain, data, got>>
vars == <<setup, client, server, links, sent, finished, macs, relay, conn, late, first>>

Sides == {"client", "server"}

TypeOK ==
  /\ known \in BOOLEAN /\ tls13 \in BOOLEAN /\ strict \in BOOLEAN
  /\ client \in {"hello", "hs", "finished", "stash", "open", "failed"}
  /\ server \in {"hello", "passthrough", "relay", "join", "open", "failed"}
  /\ sent \in 0..(1 + Flight + MaxTickets) /\ finished \in BOOLEAN
  /\ authorized \in BOOLEAN /\ authDone \in BOOLEAN /\ s2cTask \in {"check", "read", "done"}
  /\ ignore \in BOOLEAN /\ data \in [Sides -> 0..MaxData] /\ late \in 0..MaxTickets /\ first \in BOOLEAN
  /\ DOMAIN got = Sides

Init ==
  /\ known \in BOOLEAN /\ tls13 \in BOOLEAN /\ strict \in BOOLEAN
  /\ client = "hello" /\ server = "hello" /\ c2s = <<>> /\ s2c = <<>> /\ site = <<>>
  /\ sent = 0 /\ finished = FALSE /\ writeMac = <<>> /\ readMac = <<>> /\ authorized = FALSE
  /\ authDone = FALSE /\ s2cTask = "check" /\ ignore = FALSE /\ pending = <<>>
  /\ chain = [s \in Sides |-> [write |-> <<>>, read |-> <<>>]]
  /\ data = [s \in Sides |-> 0] /\ got = [s \in Sides |-> <<>>] /\ late = 0 /\ first = FALSE
-----------------------------------------------------------------------------
(* The site *)

SiteSends ==
  /\ \/ sent \in 1..Flight \/ (finished /\ sent \in (Flight + 1)..(Flight + MaxTickets))
  /\ sent' = sent + 1
  /\ site' = Append(site, Record(IF tls13 THEN "app" ELSE "hs", NoMac, Body("site", sent)))
  /\ UNCHANGED <<setup, client, server, c2s, s2c, finished, macs, relay, conn, late, first>>
-----------------------------------------------------------------------------
(* The server *)

\* The session id is keyed with the password of one of the users.
VerifyV3ClientHello == known

IsServerHelloTls13 == tls13

\* serve_v3: the hello goes to the site, whose answer goes back.  A hello
\* without the right keyed session id is only relayed from then on, and so is,
\* in strict mode, a site that does not speak TLS 1.3.
ServeV3 ==
  /\ server = "hello" /\ client = "hs" /\ c2s # <<>>
  /\ c2s' = Tail(c2s) /\ sent' = 1
  /\ s2c' = Append(s2c, Record("hello", NoMac, Body("site", 0)))
  /\ server' = IF VerifyV3ClientHello /\ (strict => IsServerHelloTls13) THEN "relay" ELSE "passthrough"
  /\ UNCHANGED <<setup, client, site, finished, macs, relay, conn, late, first>>

Passthrough ==
  /\ server = "passthrough"
  /\ \/ c2s # <<>> /\ c2s' = Tail(c2s) /\ finished' = TRUE /\ UNCHANGED <<s2c, site>>
     \/ site # <<>> /\ s2c' = Append(s2c, Head(site)) /\ site' = Tail(site) /\ UNCHANGED <<c2s, finished>>
  /\ UNCHANGED <<setup, client, server, sent, macs, relay, conn, late, first>>

\* client_auth_frame: the hash over the server's random, "C" and the payload.
ClientAuthFrame(r) == r.type = "app" /\ r.mac = <<Tag("client")>> \o (IF r.body.n = 0 THEN <<>> ELSE <<r.body>>)

\* The task that reads the client: a record is authentication, and its payload
\* dropped, or it goes to the site.
ClientTask ==
  /\ server = "relay" /\ c2s # <<>> /\ c2s' = Tail(c2s)
  /\ IF ClientAuthFrame(Head(c2s))
     THEN /\ authDone' = TRUE /\ server' = "join"
          /\ first' = (first \/ Head(c2s).body.n > 0) /\ UNCHANGED finished
     ELSE finished' = TRUE /\ UNCHANGED <<authDone, server, first>>
  /\ UNCHANGED <<setup, client, s2c, site, sent, macs, s2cTask, conn, late>>

\* wrap_server_app_data: application data gets the chained hash.
WrapServerAppData(r) ==
  IF r.type = "app" THEN Record("app", Append(writeMac, r.body), r.body) ELSE r

\* The task that reads the site looks at auth_done before each read only.
ServerTaskCheck ==
  /\ server \in {"relay", "join"} /\ s2cTask = "check"
  /\ s2cTask' = IF authDone THEN "done" ELSE "read"
  /\ UNCHANGED <<setup, client, server, links, sent, finished, macs, authDone, conn, late, first>>

ServerTaskRead ==
  /\ server \in {"relay", "join", "open"} /\ s2cTask = "read" /\ site # <<>>
  /\ s2c' = Append(s2c, WrapServerAppData(Head(site)))
  /\ writeMac' = IF Head(site).type = "app" THEN Append(writeMac, Head(site).body) ELSE writeMac
  /\ site' = Tail(site) /\ s2cTask' = "check"
  /\ UNCHANGED <<setup, client, server, c2s, sent, finished, readMac, authorized, authDone, conn, late, first>>

\* The site closes on the shutdown of its half: the read fails after auth_done.
ServerTaskEnds ==
  /\ server = "join" /\ s2cTask = "read" /\ site = <<>> /\ s2cTask' = "done"
  /\ UNCHANGED <<setup, client, server, links, sent, finished, macs, authDone, conn, late, first>>

\* Mutant of Join: the task that reads the site is not waited for.
JoinEarly ==
  /\ server = "join" /\ server' = "open"
  /\ UNCHANGED <<setup, client, links, sent, finished, macs, relay, conn, late, first>>

Join ==
  /\ server = "join" /\ s2cTask = "done" /\ server' = "open"
  /\ UNCHANGED <<setup, client, links, sent, finished, macs, relay, conn, late, first>>
-----------------------------------------------------------------------------
(* The client *)

\* handshake_v3 signs the hello's session id with the password.
Hello ==
  /\ client = "hello" /\ client' = "hs"
  /\ c2s' = Append(c2s, Record("hello", NoMac, Body("client", 0)))
  /\ UNCHANGED <<setup, server, s2c, site, sent, finished, macs, relay, conn, late, first>>

\* The version the hello names, or a suite that only TLS 1.3 has.
HelloNamesTls13 == tls13

\* Mutant of HandshakeRead: a record that does not match leaves authorized.
HandshakeReadLax ==
  /\ client = "hs" /\ s2c # <<>> /\ s2c' = Tail(s2c)
  /\ LET r == Head(s2c) IN
     /\ authorized' = IF r.type = "hello" THEN TRUE ELSE authorized
     /\ readMac' = IF r.type = "app" THEN Append(readMac, r.body) ELSE readMac
     /\ client' = IF r.body.n = Flight THEN "finished" ELSE "hs"
  /\ UNCHANGED <<setup, server, c2s, site, sent, finished, writeMac, relay, conn, late, first>>

\* V3HandshakeConn::poll_read under the TLS handshake, which ends with the
\* site's last record: without TLS 1.3 the hello alone authorises.
HandshakeRead ==
  /\ client = "hs" /\ s2c # <<>> /\ s2c' = Tail(s2c)
  /\ LET r == Head(s2c) IN
     /\ readMac' = IF r.type = "app" THEN Append(readMac, r.body) ELSE readMac
     /\ authorized' = CASE r.type = "hello" -> ~HelloNamesTls13
                        [] r.type = "app" -> r.mac = Append(readMac, r.body)
                        [] OTHER -> authorized
     /\ client' = IF r.body.n = Flight THEN "finished" ELSE "hs"
  /\ UNCHANGED <<setup, server, c2s, site, sent, finished, writeMac, relay, conn, late, first>>

BuildClientAuthFrame == Record("app", <<Tag("client")>>, Body("client", 0))

\* The handshake's last record goes out; connect_v3 gives up unless the
\* connection is authorised, and with TLS 1.3 sends the empty authentication.
Finished ==
  /\ client = "finished"
  /\ LET fin == Record("fin", NoMac, Body("client", 0))
         ok == authorized /\ (strict => tls13)
     IN /\ c2s' = c2s \o <<fin>> \o (IF ok /\ tls13 THEN <<BuildClientAuthFrame>> ELSE <<>>)
        /\ client' = IF ~ok THEN "failed" ELSE IF tls13 THEN "stash" ELSE "open"
        /\ ignore' = TRUE
  /\ UNCHANGED <<setup, server, s2c, site, sent, finished, macs, relay, pending, chain, data, got, late, first>>

\* stash_post_handshake_records: until 150 ms pass without a record, records
\* are discarded, up to one of application data, which is kept as it is.
Stash ==
  /\ client = "stash"
  /\ \/ client' = "open" /\ UNCHANGED <<s2c, pending, late>>
     \/ /\ s2c # <<>> /\ s2c' = Tail(s2c) /\ late' = late + (IF Head(s2c).body.from = "site" THEN 1 ELSE 0)
        /\ IF Head(s2c).type = "app"
           THEN pending' = <<Head(s2c)>> /\ client' = "open"
           ELSE UNCHANGED <<pending, client>>
  /\ UNCHANGED <<setup, server, c2s, site, sent, finished, macs, relay, ignore, chain, data, got, first>>
-----------------------------------------------------------------------------
(* VerifiedConn, on both sides *)

Phase(s) == IF s = "client" THEN client ELSE server
Other(s) == IF s = "client" THEN "server" ELSE "client"
Link(s) == IF s = "client" THEN s2c ELSE c2s

Write(s) ==
  /\ Phase(s) = "open" /\ data[s] < MaxData /\ data' = [data EXCEPT ![s] = @ + 1]
  /\ LET body == Body(s, data[s] + 1)
         mac == Append(chain[s].write, body)
         r == Record("app", <<Tag(s)>> \o mac, body)
     IN /\ chain' = [chain EXCEPT ![s].write = mac]
        /\ IF s = "client" THEN c2s' = Append(c2s, r) /\ UNCHANGED s2c ELSE s2c' = Append(s2c, r) /\ UNCHANGED c2s
  /\ UNCHANGED <<setup, client, server, site, sent, finished, macs, relay, ignore, pending, got, late, first>>

\* What was stashed is handed to the caller first, as it is.
ReadPending ==
  /\ client = "open" /\ pending # <<>> /\ pending' = <<>>
  /\ got' = [got EXCEPT !["client"] = Append(@, Body("record", 0))]
  /\ UNCHANGED <<setup, client, server, links, sent, finished, macs, relay, ignore, chain, data, late, first>>

\* Mutant of Verified: the hash is not compared.
VerifiedAll(s, r) == r.type = "app"

Verified(s, r) == r.type = "app" /\ r.mac = <<Tag(Other(s))>> \o Append(chain[s].read, r.body)

\* A record that continues the handshake's chain is passed over, once, and only
\* as the first; any other must continue the chain of the other side.
Read(s) ==
  /\ Phase(s) = "open" /\ Link(s) # <<>> /\ (s = "client" => pending = <<>>)
  /\ LET r == Head(Link(s))
         skip == s = "client" /\ ignore /\ r.mac = Append(readMac, r.body)
         ok == Verified(s, r)
     IN /\ got' = IF ok /\ ~skip THEN [got EXCEPT ![s] = Append(@, r.body)] ELSE got
        /\ chain' = IF skip THEN chain ELSE [chain EXCEPT ![s].read = Append(@, r.body)]
        /\ client' = IF s = "client" /\ ~skip /\ ~ok THEN "failed" ELSE client
        /\ server' = IF s = "server" /\ ~ok THEN "failed" ELSE server
        /\ late' = late + (IF r.body.from = "site" THEN 1 ELSE 0)
  /\ ignore' = IF s = "client" THEN FALSE ELSE ignore
  /\ IF s = "client" THEN s2c' = Tail(s2c) /\ UNCHANGED c2s ELSE c2s' = Tail(c2s) /\ UNCHANGED s2c
  /\ UNCHANGED <<setup, site, sent, finished, macs, relay, pending, data, first>>

Next ==
  \/ SiteSends \/ ServeV3 \/ Passthrough \/ ClientTask
  \/ ServerTaskCheck \/ ServerTaskRead \/ ServerTaskEnds \/ Join
  \/ Hello \/ HandshakeRead \/ Finished \/ Stash \/ ReadPending
  \/ \E s \in Sides : Write(s) \/ Read(s)

Spec == Init /\ [][Next]_vars
-----------------------------------------------------------------------------
(* Properties *)

\* A client behind TLS 1.3 opens its connection only towards a server that has
\* the password and relays for it: one that is passed through to the site
\* gives up at the end of the handshake.
OpensWithServerOnly ==
  tls13 /\ client \in {"stash", "open"} => known /\ server \in {"relay", "join", "open", "failed"}

\* With TLS 1.3, and nothing caught in the window of
\* stash_post_handshake_records, no record is refused on either side, whatever
\* the site still sent into the end of the handshake, as long as one record of
\* it at most reaches the client late.
Unstashed ==
  tls13 /\ pending = <<>> /\ \A i \in DOMAIN got["client"] : got["client"][i].from # "record"
VerifiedConnHolds ==
  Unstashed /\ late <= 1 => server # "failed" /\ (client = "failed" => ~authorized)

\* What each caller reads is what the other side sent, in order, however many
\* records of the site are late.
DataArrives ==
  Unstashed => \A s \in Sides : \A i \in DOMAIN got[s] : got[s][i] = Body(Other(s), i)

\* What the comment in client_auth_frame expects, that the authentication may
\* carry the client's first bytes.  Broken: the payload of the accepted record
\* is dropped, and with a site that speaks TLS 1.2 only that is the first
\* payload of this program's own client.
FirstBytesArrive == ~first
=============================================================================
