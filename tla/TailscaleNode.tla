---------------------------- MODULE TailscaleNode ----------------------------
(***************************************************************************)
(* The embedded Tailscale node: resolve_wireguard_config and                *)
(* bootstrap_from_auth_key (tailscale_embedded.rs), register_peers with its *)
(* fallbacks (tailscale_control.rs) and the Noise_IK handshake it speaks to *)
(* the control server (tailscale_noise.rs), over starts, crashes and        *)
(* restarts.  A configuration with a key or a state file of its own needs   *)
(* none of this and is left out.  Cryptography is symbolic: a Diffie-Hellman result is the pair *)
(* of its keys, a chaining key the sequence of the results mixed into it,   *)
(* and a ciphertext what it was made from.                                  *)
(***************************************************************************)
EXTENDS Integers, Sequences

CONSTANTS
  MaxStarts,   \* starts of the program
  MaxRecords   \* records of the server's answer

VARIABLES
  dir, control,      \* configuration: state_directory, control_url
  disk,              \* rsbox-tailscale.json
  pc, starts,
  local, reg,        \* keys of bootstrap_from_auth_key and of ControlRegistration
  wg,                \* the WireGuard configuration in the making
  controlKey,        \* PublicKey of GET /key
  wire,              \* the message under way
  conn,              \* NoiseConn of the client
  serverKey, session,  \* control server: its key, and its end of the connection
  registered,        \* control server: node keys it has registered
  tagFailed,         \* client_finish refused the server's tag
  upKey              \* the key of the first start that came up

node == <<local, reg, wg>>
noise == <<controlKey, wire, conn, session, tagFailed>>
config == <<dir, control>>
vars == <<config, disk, pc, starts, node, noise, serverKey, registered, upKey>>

NoKey == 0
Keys == 0..(2 * MaxStarts)
Wg(key, peers, from) == [key |-> key, peers |-> peers, from |-> from]
NoWg == Wg(NoKey, "none", "none")
Wgs == [key : Keys, peers : {"none", "raw", "wg"},
        from : {"none", "local", "noise", "http", "headscale"}]
NoDisk == [st |-> "none", wg |-> NoWg]

\* SymmetricState.  An item of the hash is plain data or a ciphertext.
Initialize == [h |-> <<>>, ck |-> <<>>]
Plain(x) == [key |-> <<>>, msg |-> x]
MixHash(s, item) == [s EXCEPT !.h = Append(@, item)]
MixDh(s, a, b) == [s EXCEPT !.ck = Append(@, {a, b})]
Encrypted(s, msg) == [key |-> s.ck, ad |-> s.h, msg |-> msg]
EncryptAndHash(s, msg) == MixHash(s, [key |-> s.ck, msg |-> msg])
Opens(s, ct) == ct.key = s.ck /\ ct.ad = s.h
\* The two halves of the key material.
Split(s) == [first |-> <<s.ck, 1>>, second |-> <<s.ck, 2>>]

NoConn == [tx |-> <<<<>>, 0>>, rx |-> <<<<>>, 0>>]
NoCt == [key |-> <<>>, ad |-> <<>>, msg |-> "-"]
Quiet == [kind |-> "none", a |-> NoCt, b |-> NoCt, key |-> <<<<>>, 0>>, records |-> 0]

TypeOK ==
  /\ dir \in BOOLEAN /\ control \in BOOLEAN /\ tagFailed \in BOOLEAN
  /\ disk \in [st : {"none", "torn", "saved"}, wg : Wgs] /\ wg \in Wgs
  /\ pc \in {"down", "key", "noise", "finish", "record", "map", "http", "headscale",
             "save", "write", "up", "failed"}
  /\ starts \in 0..MaxStarts /\ local \in Keys /\ reg \in Keys /\ upKey \in Keys
  /\ registered \subseteq Keys /\ {controlKey, serverKey} \subseteq {"-", "c1", "c2"}

Init ==
  /\ dir \in BOOLEAN /\ control \in BOOLEAN
  /\ disk = NoDisk /\ pc = "down" /\ starts = 0 /\ local = NoKey /\ reg = NoKey /\ wg = NoWg
  /\ controlKey = "-" /\ wire = Quiet /\ conn = NoConn /\ session = NoConn
  /\ tagFailed = FALSE /\ serverKey = "c1" /\ registered = {} /\ upKey = NoKey

\* normalize_wireguard, and the tunnel's start, which needs a private key.
ComesUp(c) ==
  /\ pc' = IF c.key = NoKey THEN "failed" ELSE "up"
  /\ upKey' = IF upKey = NoKey THEN c.key ELSE upKey
-----------------------------------------------------------------------------
(* resolve_wireguard_config and bootstrap_from_auth_key *)

\* New keys, and the configuration that does without a control server.
Bootstrap ==
  /\ local' = 2 * starts + 1 /\ reg' = 2 * starts + 2
  /\ wg' = Wg(2 * starts + 1, "none", "local")
  /\ pc' = IF control THEN "key" ELSE "save"
  /\ UNCHANGED <<disk, upKey>>

\* Mutant of Resolve: the auth_key comes before the state directory.
ResolveAuthKeyFirst ==
  /\ pc = "down" /\ starts < MaxStarts /\ starts' = starts + 1
  /\ Bootstrap
  /\ UNCHANGED <<config, noise, serverKey, registered>>

\* A saved state is used as it is; a file that does not parse is an error.
Resolve ==
  /\ pc = "down" /\ starts < MaxStarts /\ starts' = starts + 1
  /\ \/ /\ dir /\ disk.st = "saved"
        /\ wg' = disk.wg /\ ComesUp(disk.wg) /\ UNCHANGED <<disk, local, reg>>
     \/ /\ dir /\ disk.st = "torn"
        /\ pc' = "failed" /\ UNCHANGED <<disk, node, upKey>>
     \/ ~(dir /\ disk.st # "none") /\ Bootstrap
  /\ UNCHANGED <<config, noise, serverKey, registered>>

\* Without a state directory nothing is saved.
Save ==
  /\ pc = "save"
  /\ IF dir THEN pc' = "write" /\ UNCHANGED upKey ELSE ComesUp(wg)
  /\ UNCHANGED <<config, disk, starts, node, noise, serverKey, registered>>

\* std::fs::write: the file is cut to nothing before it is filled.
Write ==
  /\ pc = "write"
  /\ \/ disk' = [st |-> "saved", wg |-> wg] /\ ComesUp(wg)
     \/ pc' = "failed" /\ UNCHANGED <<disk, upKey>>
  /\ UNCHANGED <<config, starts, node, noise, serverKey, registered>>

\* The program stops or crashes, anywhere.
Crash ==
  /\ pc # "down"
  /\ pc' = "down" /\ local' = NoKey /\ reg' = NoKey /\ wg' = NoWg
  /\ controlKey' = "-" /\ wire' = Quiet /\ conn' = NoConn /\ session' = NoConn
  /\ \/ UNCHANGED disk
     \/ pc = "write" /\ disk' = [st |-> "torn", wg |-> NoWg]
  /\ UNCHANGED <<config, starts, tagFailed, serverKey, registered, upKey>>
-----------------------------------------------------------------------------
(* tailscale_noise.rs *)

\* SymmetricState up to where the client's machine key is encrypted, and the
\* state after the whole initiation, for a peer whose key is k.
AfterEs(k) ==
  MixDh(MixHash(MixHash(MixHash(Initialize, Plain("prologue")), Plain(k)), Plain("e")), "e", k)
AfterSs(k) == MixDh(EncryptAndHash(AfterEs(k), "m"), "m", k)

ClientInitiation(k) ==
  [Quiet EXCEPT !.kind = "init", !.a = Encrypted(AfterEs(k), "m"),
                !.b = Encrypted(AfterSs(k), "")]

\* Mutant of ClientStateForFinish: the closing tag is not hashed again.
ClientStateForFinishNoTag(k) == AfterSs(k)

\* The state is computed a second time for the second message.
ClientStateForFinish(k) == EncryptAndHash(AfterSs(k), "")

\* What both ends mix in for the server's answer.
AfterSe(s) == MixDh(MixDh(MixHash(s, Plain("s")), "e", "s"), "m", "s")

\* Whatever goes wrong with Noise, register_peers goes on over HTTP.
NoiseFails ==
  pc' = "http" /\ wire' = Quiet /\ conn' = NoConn /\ session' = NoConn

\* noise_register connects and sends the initiation, or cannot.
SendInitiation ==
  /\ pc = "noise"
  /\ \/ pc' = "finish" /\ wire' = ClientInitiation(controlKey) /\ UNCHANGED <<conn, session>>
     \/ NoiseFails
  /\ UNCHANGED <<config, disk, starts, node, controlKey, tagFailed, serverKey, registered, upKey>>

\* The control server opens the initiation with its own key and answers, or
\* answers with an error.
ServerAnswers ==
  /\ wire.kind = "init"
  /\ LET s == EncryptAndHash(AfterSs(serverKey), "")
         t == AfterSe(s)
         keys == Split(EncryptAndHash(t, ""))
     IN IF Opens(AfterEs(serverKey), wire.a) /\ Opens(AfterSs(serverKey), wire.b)
        THEN /\ wire' = [Quiet EXCEPT !.kind = "resp", !.a = Encrypted(t, "")]
             /\ session' = [tx |-> keys.second, rx |-> keys.first]
        ELSE wire' = [Quiet EXCEPT !.kind = "error"] /\ UNCHANGED session
  /\ UNCHANGED <<config, disk, pc, starts, node, controlKey, conn, tagFailed, serverKey,
                 registered, upKey>>

\* The request, in records under the sending key.
WriteAll(key) == [Quiet EXCEPT !.kind = "request", !.key = key]

ClientFinish ==
  /\ pc = "finish" /\ wire.kind \in {"resp", "error"}
  /\ LET s == AfterSe(ClientStateForFinish(controlKey))
         keys == Split(EncryptAndHash(s, ""))
     IN IF wire.kind = "resp" /\ Opens(s, wire.a)
        THEN /\ conn' = [tx |-> keys.first, rx |-> keys.second] /\ pc' = "record"
             /\ wire' = WriteAll(keys.first)
             /\ UNCHANGED <<session, tagFailed>>
        ELSE NoiseFails /\ tagFailed' = (tagFailed \/ wire.kind = "resp")
  /\ UNCHANGED <<config, disk, starts, node, controlKey, serverKey, registered, upKey>>

\* The server registers the node and answers, in one record or in several.
ServerRegisters ==
  /\ wire.kind = "request" /\ wire.key = session.rx
  /\ registered' = registered \cup {reg}
  /\ \E n \in 1..MaxRecords :
       wire' = [Quiet EXCEPT !.kind = "answer", !.key = session.tx, !.records = n]
  /\ UNCHANGED <<config, disk, pc, starts, node, controlKey, conn, session, tagFailed,
                 serverKey, upKey>>

\* parse_noise_register_payload sees one record: an answer in several does not parse.
PayloadParses == wire.records = 1

\* Mutant of ParseRegisterResponse: the key is the one made before registration.
ParseRegisterResponseLocal(p) == Wg(local, p, "noise")

\* The server's peers are taken as they are.
ParseRegisterResponse(p) == Wg(reg, p, "noise")

ReadRecord ==
  /\ pc = "record" /\ wire.kind = "answer"
  /\ IF wire.key = conn.rx /\ PayloadParses
     THEN /\ pc' = "map" /\ \E p \in {"none", "raw"} : wg' = ParseRegisterResponse(p)
          /\ wire' = Quiet /\ UNCHANGED <<conn, session>>
     ELSE NoiseFails /\ UNCHANGED wg
  /\ UNCHANGED <<config, disk, starts, local, reg, controlKey, tagFailed, serverKey,
                 registered, upKey>>

\* The connection breaks.
ConnectionLost ==
  /\ pc \in {"finish", "record"} /\ NoiseFails
  /\ UNCHANGED <<config, disk, starts, node, controlKey, tagFailed, serverKey, registered, upKey>>
-----------------------------------------------------------------------------
(* register_peers and headscale_register *)

FetchControlKey ==
  /\ pc = "key"
  /\ \/ controlKey' = serverKey /\ pc' = "noise"
     \/ pc' = "headscale" /\ UNCHANGED controlKey
  /\ UNCHANGED <<config, disk, starts, node, wire, conn, session, tagFailed, serverKey,
                 registered, upKey>>

\* map_to_wg_peers puts the peers into WireGuard's form.
MapToWgPeers(c) == [c EXCEPT !.peers = "wg"]

\* The peers of fetch_map_peers, if there are any, replace those of the registration.
FetchMapPeers ==
  /\ pc = "map" /\ pc' = "save"
  /\ \/ wg' = MapToWgPeers(wg)
     \/ UNCHANGED wg
  /\ UNCHANGED <<config, disk, starts, local, reg, noise, serverKey, registered, upKey>>

\* http_register returns the server's answer as the configuration; when it fails
\* (the answer may be what is lost) parse_local_wg makes one without peers.
HttpRegister ==
  /\ pc = "http" /\ pc' = "save"
  /\ \/ wg' = Wg(NoKey, "raw", "http") /\ registered' = registered \cup {reg}
     \/ wg' = Wg(reg, "none", "local") /\ registered' \in {registered, registered \cup {reg}}
  /\ UNCHANGED <<config, disk, starts, local, reg, noise, serverKey, upKey>>

HeadscaleRegister ==
  /\ pc = "headscale" /\ pc' = "save"
  /\ \/ /\ wg' = [wg EXCEPT !.peers = "wg", !.from = "headscale"]
        /\ registered' = registered \cup {local}
     \/ UNCHANGED wg /\ registered' \in {registered, registered \cup {local}}
  /\ UNCHANGED <<config, disk, starts, local, reg, noise, serverKey, upKey>>

\* The control server changes its key.
RotateKey ==
  /\ serverKey = "c1" /\ serverKey' = "c2"
  /\ UNCHANGED <<config, disk, pc, starts, node, noise, registered, upKey>>

Next ==
  \/ Resolve \/ Save \/ Write \/ Crash
  \/ FetchControlKey \/ SendInitiation \/ ClientFinish \/ ReadRecord \/ ConnectionLost
  \/ FetchMapPeers \/ HttpRegister \/ HeadscaleRegister
  \/ ServerAnswers \/ ServerRegisters \/ RotateKey

Spec == Init /\ [][Next]_vars
-----------------------------------------------------------------------------
(* Properties *)

\* The handshake state the client computes a second time is that of its first
\* message: a control server that opened the initiation is never refused, and
\* then each end writes with the key the other reads with, the server being the
\* one whose key was fetched (client_initiation, client_state_for_finish,
\* client_finish).
KeysAgree ==
  /\ ~tagFailed
  /\ conn # NoConn /\ session # NoConn => conn.tx = session.rx /\ conn.rx = session.tx

\* A node that comes up with what a control server returned runs under a key
\* that server registered, and not under the other key pair of the same start
\* (bootstrap_from_auth_key and ControlRegistration each make one).
UsedIsRegistered == pc = "up" /\ wg.from \in {"noise", "headscale"} => wg.key \in registered

\* With a state directory every start that comes up has the same identity,
\* whatever starts crashed before and between (resolve_wireguard_config).
SameIdentity == pc = "up" /\ dir => wg.key = upKey
=============================================================================
