----------------------------- MODULE ObfsSocket -----------------------------
(***************************************************************************)
(* The obfuscating UDP sockets under quinn: obfs.rs and obfs_socket.rs of   *)
(* rsq, rst and hysteria2.  What quinn transmits is encoded as one buffer,  *)
(* a salt and the content combined with a hash of it; what the socket       *)
(* receives, several datagrams at a time, is decoded in place, and buffers  *)
(* without a decodable datagram are closed up (rsq and rst).                *)
(*                                                                         *)
(* A byte of the wire is the salt, or a byte of a packet with the salt and  *)
(* the place of the hash it is combined with; it decodes only with these.   *)
(***************************************************************************)
EXTENDS Integers, Sequences, FiniteSets

CONSTANTS
  Peers,       \* addresses packets come from
  PacketLen,   \* bytes of a packet
  MaxPads,     \* MAX_V2_PAD; 0 with version 1
  Batch,       \* datagrams one recv returns at most
  MaxSent      \* bound on datagrams sent

HashLen == 2
SaltLen == 1
Nothing == <<>>

VARIABLES
  kind,     \* "rsq", "rst" (the same code) or "hy2"
  offload,  \* the socket splits a transmit, or joins datagrams
  sent,     \* packets sent so far: address and content
  wire,     \* datagrams under way: address and bytes, in order of arrival
  given,    \* what poll_recv has handed to quinn
  noise     \* datagrams of others so far
vars == <<kind, offload, sent, wire, given, noise>>

\* Content of packet number n: distinct bytes.
Content(n) == [i \in 1..PacketLen |-> <<n, i>>]
-----------------------------------------------------------------------------
\* xor_payload, to and fro: the byte at place i with the hash of a salt.
Xor(salt, bytes) == [i \in DOMAIN bytes |-> <<salt, i % HashLen, bytes[i]>>]
Unxor(salt, bytes) ==
  [i \in DOMAIN bytes |->
     IF bytes[i][1] = salt /\ bytes[i][2] = i % HashLen THEN bytes[i][3] ELSE <<0, 0>>]

Padding(pads) == [i \in 1..pads |-> <<0, i>>] \o (IF MaxPads = 0 THEN <<>> ELSE <<<<0, pads>>>>)

\* encode: a fresh salt, the payload, in version 2 padding and its length.
Encode(salt, payload, pads) == <<<<salt, 0, <<0, 0>>>>>> \o Xor(salt, payload \o Padding(pads))

\* decode_owned
Decode(packet) ==
  IF Len(packet) <= SaltLen THEN Nothing
  ELSE LET inner == Unxor(packet[1][1], Tail(packet))
           pads == IF MaxPads = 0 THEN -1 ELSE inner[Len(inner)][2]
       IN IF Len(inner) < 1 + pads THEN Nothing ELSE SubSeq(inner, 1, Len(inner) - 1 - pads)
-----------------------------------------------------------------------------
Init ==
  /\ kind \in {"rsq", "rst", "hy2"} /\ offload \in BOOLEAN
  /\ sent = <<>> /\ wire = <<>> /\ given = <<>> /\ noise = 0

\* try_send; with segmentation offload the encoded buffer of two packets is
\* cut at segment_size, the length quinn gave for them.
TrySend(p) ==
  /\ Len(sent) < MaxSent
  /\ \E pads \in 0..MaxPads, salt \in {Len(sent) + 1} :
       \/ /\ sent' = Append(sent, [from |-> p, bytes |-> Content(salt)])
          /\ wire' = Append(wire, [from |-> p, bytes |-> Encode(salt, Content(salt), pads)])
       \/ /\ offload /\ Len(sent) + 1 < MaxSent
          /\ sent' = sent \o <<[from |-> p, bytes |-> Content(salt)], [from |-> p, bytes |-> Content(salt + 1)]>>
          /\ LET all == Encode(salt, Content(salt) \o Content(salt + 1), pads) IN
               wire' = wire \o <<[from |-> p, bytes |-> SubSeq(all, 1, PacketLen)],
                                 [from |-> p, bytes |-> SubSeq(all, PacketLen + 1, Len(all))]>>
  /\ UNCHANGED <<kind, offload, given, noise>>

\* A datagram too short to be one of ours arrives.
Noise(p) ==
  /\ noise < 1 /\ noise' = noise + 1 /\ Len(wire) < MaxSent
  /\ wire' = Append(wire, [from |-> p, bytes |-> <<<<99, 0, <<0, 0>>>>>>])
  /\ UNCHANGED <<kind, offload, sent, given>>

\* Mutant of DecodedKept: the meta of a datagram does not move with its content.
DecodedKeptMetaStays(got) ==
  LET kept == SelectSeq([i \in DOMAIN got |-> <<i>>], LAMBDA i : Decode(got[i[1]].bytes) # Nothing) IN
  [o \in DOMAIN kept |-> [from |-> got[o].from, bytes |-> Decode(got[kept[o][1]].bytes)]]

\* The datagrams of one recv that decode, in order and with their addresses.
DecodedKept(got) ==
  LET kept == SelectSeq(got, LAMBDA d : Decode(d.bytes) # Nothing) IN
  [o \in DOMAIN kept |-> [from |-> kept[o].from, bytes |-> Decode(kept[o].bytes)]]

\* Hysteria2 leaves the others as they are.
DecodedInPlace(got) ==
  [i \in DOMAIN got |->
     [from |-> got[i].from,
      bytes |-> IF Decode(got[i].bytes) = Nothing THEN got[i].bytes ELSE Decode(got[i].bytes)]]

Decoded(got) == IF kind = "hy2" THEN DecodedInPlace(got) ELSE DecodedKept(got)

\* poll_recv; with receive offload neighbours of one address come as one.
PollRecv ==
  /\ \E n \in 1..Batch :
       /\ n <= Len(wire) /\ wire' = SubSeq(wire, n + 1, Len(wire))
       /\ given' = given \o Decoded(SubSeq(wire, 1, n))
  /\ UNCHANGED <<kind, offload, sent, noise>>

PollRecvJoined ==
  /\ offload /\ Len(wire) >= 2 /\ wire[1].from = wire[2].from
  /\ Len(wire[1].bytes) = Len(wire[2].bytes)
  /\ wire' = SubSeq(wire, 3, Len(wire))
  /\ given' = given \o Decoded(<<[from |-> wire[1].from, bytes |-> wire[1].bytes \o wire[2].bytes]>>)
  /\ UNCHANGED <<kind, offload, sent, noise>>

\* UDP loses and reorders.
Lose ==
  /\ wire # <<>> /\ wire' = Tail(wire) /\ UNCHANGED <<kind, offload, sent, given, noise>>
Reorder ==
  /\ Len(wire) >= 2 /\ wire' = <<wire[2], wire[1]>> \o SubSeq(wire, 3, Len(wire))
  /\ UNCHANGED <<kind, offload, sent, given, noise>>

Next ==
  \/ \E p \in Peers : TrySend(p) \/ Noise(p)
  \/ PollRecv \/ PollRecvJoined \/ Lose \/ Reorder
Spec == Init /\ [][Next]_vars
-----------------------------------------------------------------------------
TypeOK ==
  /\ kind \in {"rsq", "rst", "hy2"} /\ offload \in BOOLEAN /\ noise \in 0..1 /\ Len(sent) \in 0..MaxSent
  /\ \A i \in DOMAIN wire : wire[i].from \in Peers
  /\ \A i \in DOMAIN given : given[i].from \in Peers

=============================================================================
