----------------------------- MODULE VlessTrojan ----------------------------
(***************************************************************************)
(* One connection through a VLESS, VLESS over REALITY or Trojan inbound     *)
(* (rsb-protocol/src/vless.rs, reality_inbound.rs, trojan.rs): the          *)
(* outbound's request header and its wait for the answer, how the inbound   *)
(* takes the header out of what one or several reads bring, dials and       *)
(* answers, and the payloads in both directions.                            *)
(*                                                                         *)
(* The stream below is TLS: a read returns some of the records that have    *)
(* arrived, whole.  A header is one record, of this program's outbounds, or *)
(* two.  Payloads are numbered.                                             *)
(***************************************************************************)
EXTENDS Integers, Sequences, FiniteSets

CONSTANTS
  MaxUp, MaxDown  \* payloads of the client and of the destination

Servers == {"vless", "reality", "trojan"}
AddrKinds == {"v4", "v6"}

VARIABLES
  server,      \* the inbound's kind
  waits,       \* a VLESS outbound with TLS and no vision flow waits for the answer
  pieces,      \* records of the header
  dest,        \* kind of the destination's address
  listed,      \* the inbound has the user
  cpc, spc,    \* the outbound, and the inbound: its next step
  up, down,    \* records under way
  got,         \* pieces of the header the inbound has
  steps,       \* what it still has to do before it relays
  rest,        \* payloads it read with the header and kept
  dialled,     \* address kind it dialled, or "none"
  sent, back,  \* payloads sent by the client and by the destination
  remote,      \* payloads the destination has got
  response_read, \* VlessResponseStream
  caller       \* what the caller has read

setup == <<server, waits, pieces, dest, listed>>
ends == <<sent, back, remote, caller, response_read>>
vars == <<setup, cpc, spc, up, down, got, steps, rest, dialled, ends>>

Ack == -1
Hdr == 0

TypeOK ==
  /\ server \in Servers /\ waits \in BOOLEAN /\ pieces \in 1..2 /\ dest \in AddrKinds /\ listed \in BOOLEAN
  /\ cpc \in {"start", "ack", "open", "failed"} /\ spc \in {"read", "serve", "relay", "failed"}
  /\ up \in Seq(Hdr..MaxUp) /\ down \in Seq(Ack..MaxDown) /\ got \in 0..2
  /\ dialled \in AddrKinds \cup {"none", "other"} /\ sent \in 0..MaxUp /\ back \in 0..MaxDown
  /\ response_read \in BOOLEAN

Init ==
  /\ server \in Servers /\ waits \in (IF server = "trojan" THEN {FALSE} ELSE BOOLEAN)
  /\ pieces \in 1..2 /\ dest \in AddrKinds /\ listed \in BOOLEAN
  /\ cpc = "start" /\ spc = "read" /\ up = <<>> /\ down = <<>> /\ got = 0 /\ steps = <<>> /\ rest = <<>>
  /\ dialled = "none" /\ sent = 0 /\ back = 0 /\ remote = <<>> /\ response_read = FALSE /\ caller = <<>>
-----------------------------------------------------------------------------
(* Addresses *)

\* Mutant of EncodeAddress: VLESS uses the address types of SOCKS.
EncodeAddressSocks(kind) == IF kind = "v4" THEN 1 ELSE 4

EncodeSocksAddress(kind) == IF kind = "v4" THEN 1 ELSE 4

\* encode_port_first_socksaddr; Trojan uses encode_socks_address.
EncodeAddress(kind) ==
  IF server = "trojan" THEN EncodeSocksAddress(kind) ELSE IF kind = "v4" THEN 1 ELSE 3

\* read_address.
ReadAddress(atyp) == CASE atyp = 1 -> "v4" [] atyp = 3 -> "v6" [] OTHER -> "other"

\* decode_socks_address.
DecodeSocksAddress(atyp) == CASE atyp = 1 -> "v4" [] atyp = 4 -> "v6" [] OTHER -> "other"

Decode(atyp) == IF server = "trojan" THEN DecodeSocksAddress(atyp) ELSE ReadAddress(atyp)
-----------------------------------------------------------------------------
(* The outbound *)

BuildVlessRequest == [i \in 1..pieces |-> Hdr]
EncodeTrojanRequest == [i \in 1..pieces |-> Hdr]

\* Mutant of Connect: the outbound does not wait for the answer.
ConnectAtOnce ==
  /\ cpc = "start" /\ up' = up \o BuildVlessRequest /\ cpc' = "open"
  /\ UNCHANGED <<setup, spc, down, got, steps, rest, dialled, ends>>

\* VlessOutbound::connect writes the header.
Connect ==
  /\ cpc = "start" /\ server # "trojan" /\ up' = up \o BuildVlessRequest
  /\ cpc' = IF waits THEN "ack" ELSE "open"
  /\ UNCHANGED <<setup, spc, down, got, steps, rest, dialled, ends>>

\* TrojanOutbound::connect: there is no answer to wait for.
ConnectTrojan ==
  /\ cpc = "start" /\ server = "trojan" /\ up' = up \o EncodeTrojanRequest /\ cpc' = "open"
  /\ UNCHANGED <<setup, spc, down, got, steps, rest, dialled, ends>>

\* read_vless_ack: within 15 seconds, or the connection is given up.
ReadVlessAck ==
  /\ cpc = "ack"
  /\ \/ down # <<>> /\ Head(down) = Ack /\ down' = Tail(down) /\ cpc' = "open" /\ response_read' = TRUE
     \/ cpc' = "failed" /\ UNCHANGED <<down, response_read>>
  /\ UNCHANGED <<setup, spc, up, got, steps, rest, dialled, sent, back, remote, caller>>

Send ==
  /\ cpc = "open" /\ sent < MaxUp
  /\ sent' = sent + 1 /\ up' = Append(up, sent + 1)
  /\ UNCHANGED <<setup, cpc, spc, down, got, steps, rest, dialled, back, remote, caller, response_read>>

\* Mutant of Receive: what comes is payload.
ReceiveRaw ==
  /\ cpc = "open" /\ down # <<>> /\ down' = Tail(down) /\ caller' = Append(caller, Head(down))
  /\ UNCHANGED <<setup, cpc, spc, up, got, steps, rest, dialled, sent, back, remote, response_read>>

\* VlessResponseStream::poll_read strips the answer once; Trojan has none.
Receive ==
  /\ cpc = "open" /\ down # <<>> /\ down' = Tail(down)
  /\ IF server # "trojan" /\ ~response_read
     THEN response_read' = TRUE /\ UNCHANGED caller
     ELSE caller' = Append(caller, Head(down)) /\ UNCHANGED response_read
  /\ UNCHANGED <<setup, cpc, spc, up, got, steps, rest, dialled, sent, back, remote>>
-----------------------------------------------------------------------------
(* The inbound *)

\* What follows the header, in the order of serve_trojan, serve_vless and
\* serve_vless_over_tls.
TrojanSteps == <<"dial", "forward", "session">>

\* Mutant of VlessSteps: the answer goes out before the dial.
VlessStepsAckFirst == <<"ack", "dial", "session">>

VlessSteps == <<"dial", "ack", "session">>

RealitySteps == <<"ack", "dial", "session">>

Steps == CASE server = "trojan" -> TrojanSteps [] server = "vless" -> VlessSteps [] OTHER -> RealitySteps

\* vless_request_len and the length check of serve_vless: h pieces of the header
\* are all of it.
VlessRequestComplete(h) == h >= pieces

\* serve_trojan keeps what follows the header; serve_vless leaves it in its
\* buffer, and read_vless_request cuts it off.
Rest(s) == IF server = "trojan" THEN s ELSE <<>>

\* Where a read that leaves the inbound with h pieces of the header gets it.
\* serve_trojan wants the whole header in its one read, from a listed user.
TrojanRead(h) == IF h >= pieces /\ listed THEN "serve" ELSE "failed"

\* serve_vless likewise.
VlessRead(h) == IF VlessRequestComplete(h) /\ listed THEN "serve" ELSE "failed"

\* serve_vless_over_tls: read_vless_request goes on reading.
RealityRead(h) ==
  IF ~VlessRequestComplete(h) THEN "read" ELSE IF listed THEN "serve" ELSE "failed"

ReadRequest ==
  /\ spc = "read" /\ up # <<>>
  /\ \E k \in 1..Len(up) :
       LET h == got + Cardinality({i \in 1..k : up[i] = Hdr})
       IN /\ up' = SubSeq(up, k + 1, Len(up)) /\ got' = h
          /\ spc' = CASE server = "trojan" -> TrojanRead(h)
                      [] server = "vless" -> VlessRead(h)
                      [] OTHER -> RealityRead(h)
          /\ IF spc' = "serve"
             THEN steps' = Steps /\ rest' = Rest(SelectSeq(SubSeq(up, 1, k), LAMBDA x : x # Hdr))
             ELSE UNCHANGED <<steps, rest>>
  /\ UNCHANGED <<setup, cpc, down, dialled, ends>>

\* The next step; the dial and begin_for_uuid, or its like, can fail.
Step ==
  /\ spc = "serve"
  /\ \/ /\ steps # <<>> /\ steps' = Tail(steps) /\ UNCHANGED spc
        /\ CASE Head(steps) = "dial" -> dialled' = Decode(EncodeAddress(dest)) /\ UNCHANGED <<down, remote>>
             [] Head(steps) = "forward" -> remote' = remote \o rest /\ UNCHANGED <<down, dialled>>
             [] Head(steps) = "ack" -> down' = Append(down, Ack) /\ UNCHANGED <<remote, dialled>>
             [] OTHER -> UNCHANGED <<down, remote, dialled>>
     \/ /\ steps # <<>> /\ Head(steps) \in {"dial", "session"}
        /\ spc' = "failed" /\ UNCHANGED <<steps, down, remote, dialled>>
     \/ steps = <<>> /\ spc' = "relay" /\ UNCHANGED <<steps, down, remote, dialled>>
  /\ UNCHANGED <<setup, cpc, up, got, rest, sent, back, caller, response_read>>

\* relay_streams_user.
RelayUp ==
  /\ spc = "relay" /\ up # <<>> /\ remote' = Append(remote, Head(up)) /\ up' = Tail(up)
  /\ UNCHANGED <<setup, cpc, spc, down, got, steps, rest, dialled, sent, back, caller, response_read>>

RelayDown ==
  /\ spc = "relay" /\ back < MaxDown /\ back' = back + 1 /\ down' = Append(down, back + 1)
  /\ UNCHANGED <<setup, cpc, spc, up, got, steps, rest, dialled, sent, remote, caller, response_read>>

Next ==
  \/ Connect \/ ConnectTrojan \/ ReadVlessAck \/ Send \/ Receive
  \/ ReadRequest \/ Step \/ RelayUp \/ RelayDown

Spec == Init /\ [][Next]_vars
-----------------------------------------------------------------------------
(* Properties *)

FromOne(s) == \A i \in DOMAIN s : s[i] = i

\* Nothing the client sent is skipped or reordered on its way to the
\* destination, whatever arrives together with the header: by Trojan, which
\* forwards it, and by an outbound that waits for the answer, so that nothing
\* can.  (An outbound that does not wait loses what arrives with the header.)
NothingSkipped == server = "trojan" \/ waits => FromOne(remote)

\* The inbound dials the address the outbound was asked for, in the encoding of
\* either protocol.
DialsTheDestination == dialled \in {"none", dest}

\* Towards a plain VLESS inbound a dial that waits returns only when the
\* destination has been reached: a failed dial fails the caller's.
OpenMeansDialled == server = "vless" /\ waits /\ cpc = "open" => dialled # "none"

\* The caller reads the destination's payloads in order, and never the answer.
CallerReadsPayload == FromOne(caller)
=============================================================================
