---------------------------- MODULE RsqFragments ----------------------------
(***************************************************************************)
(* RSQ's UDP fragments (rsq/udp_fragment.rs, the header of rsq/protocol.rs  *)
(* and the send loop of rsq/udp_client.rs): a session cuts its packets into *)
(* datagrams, the connection loses, repeats and reorders them, and the      *)
(* other side puts them together by (session, packet id).  The packet id is *)
(* 16 bits wide and wraps; here it wraps at IdSpace.                        *)
(*                                                                         *)
(* A payload is its length in units of MAX_FRAGMENT_PAYLOAD and a datagram  *)
(* carries, as history, the packet it was cut from.                         *)
(***************************************************************************)
EXTENDS Integers, Sequences, FiniteSetsExt

CONSTANTS
  MaxPackets,    \* packets sent
  IdSpace,       \* packet ids before the counter wraps (2^16)
  MaxCount,      \* MAX_UDP_FRAGMENTS
  Lengths,       \* payload lengths, in fragments
  Addrs,         \* destinations
  MaxPending,    \* prune_stale's limit
  MaxNet         \* datagrams the network holds

VARIABLES
  sent,      \* the packets handed to send_to, in order: [addr, len]
  queue,     \* frames of the packet being sent that are still to go
  net,       \* datagrams in flight
  packets,   \* the reassembler: packet id -> [count, addr, parts]
  out        \* completed packets: [addr, parts]

vars == <<sent, queue, net, packets, out>>

Datagram == [of : 1..MaxPackets, id : 0..(IdSpace - 1), frag : 0..(MaxCount - 1),
             count : 1..MaxCount, addr : Addrs]
Ids == 0..(IdSpace - 1)

TypeOK ==
  /\ sent \in Seq([addr : Addrs, len : Lengths]) /\ Len(sent) <= MaxPackets
  /\ queue \in Seq(Datagram) /\ net \subseteq Datagram
  /\ DOMAIN packets \subseteq Ids
  /\ \A o \in out : o.addr \in Addrs /\ o.parts \in Seq(1..MaxPackets)

Init ==
  /\ sent = <<>> /\ queue = <<>> /\ net = {} /\ out = {}
  /\ packets = [i \in {} |-> {}]
-----------------------------------------------------------------------------
\* fragment_payload of packet k: an empty or short payload is one fragment.
Fragments(k, addr, len) ==
  LET count == IF len <= 1 THEN 1 ELSE len
  IN [i \in 1..count |-> [of |-> k, id |-> (k - 1) % IdSpace, frag |-> i - 1,
                          count |-> count, addr |-> addr]]

\* send_to: the packet id is taken before the payload is refused.
SendTo(addr, len) ==
  /\ queue = <<>> /\ Len(sent) < MaxPackets
  /\ sent' = Append(sent, [addr |-> addr, len |-> len])
  /\ queue' = IF len > MaxCount THEN <<>> ELSE Fragments(Len(sent'), addr, len)
  /\ UNCHANGED <<net, packets, out>>

SendDatagram ==
  /\ queue # <<>> /\ Cardinality(net) < MaxNet
  /\ net' = net \cup {Head(queue)} /\ queue' = Tail(queue)
  /\ UNCHANGED <<sent, packets, out>>

Lose(d) == d \in net /\ net' = net \ {d} /\ UNCHANGED <<sent, queue, packets, out>>

Drop(id) == [i \in DOMAIN packets \ {id} |-> packets[i]]
Store(id, asm) == [i \in DOMAIN packets \cup {id} |-> IF i = id THEN asm ELSE packets[i]]


\* The checks of ingest on an assembly that has begun.
Matches(asm, d) == asm.count = d.count /\ asm.addr = d.addr

\* The assembly after fragment d.
Grown(d) ==
  LET old == IF d.id \in DOMAIN packets THEN packets[d.id]
             ELSE [count |-> d.count, addr |-> d.addr, parts |-> [i \in {} |-> 0]]
  IN [old EXCEPT !.parts = [i \in DOMAIN @ \cup {d.frag} |-> IF i = d.frag THEN d.of ELSE @[i]]]

InOrder(asm) == [i \in 1..asm.count |-> asm.parts[i - 1]]

\* Mutant of Pruned: incomplete packets stay until they expire.
PrunedNothing(ps) == {ps}

\* prune_stale after an incomplete fragment: beyond the limit any may go.
Pruned(ps) ==
  IF Cardinality(DOMAIN ps) <= MaxPending THEN {ps}
  ELSE {[i \in keep |-> ps[i]] : keep \in kSubset(MaxPending, DOMAIN ps)}

\* The datagram arrives; it may arrive again.
Ingest(d, again) ==
  /\ d \in net /\ net' = IF again THEN net ELSE net \ {d}
  /\ IF d.count <= 1
     THEN out' = out \cup {[addr |-> d.addr, parts |-> <<d.of>>]} /\ UNCHANGED packets
     ELSE IF d.id \in DOMAIN packets /\ ~Matches(packets[d.id], d)
     THEN packets' = Drop(d.id) /\ UNCHANGED out
     ELSE LET asm == Grown(d)
          IN IF Cardinality(DOMAIN asm.parts) = asm.count
             THEN /\ packets' = Drop(d.id)
                  /\ out' = out \cup {[addr |-> asm.addr, parts |-> InOrder(asm)]}
             ELSE packets' \in Pruned(Store(d.id, asm)) /\ UNCHANGED out
  /\ UNCHANGED <<sent, queue>>

\* FRAGMENT_TTL passes for the assembly, and prune_expired removes it.
Expire(id) ==
  /\ id \in DOMAIN packets
  /\ packets' = Drop(id)
  /\ UNCHANGED <<sent, queue, net, out>>

Next ==
  \/ \E a \in Addrs, l \in Lengths : SendTo(a, l)
  \/ SendDatagram
  \/ \E d \in net : Lose(d) \/ \E again \in BOOLEAN : Ingest(d, again)
  \/ \E id \in DOMAIN packets : Expire(id)

Spec == Init /\ [][Next]_vars
-----------------------------------------------------------------------------
FragmentCount(k) == IF sent[k].len <= 1 THEN 1 ELSE sent[k].len

\* What ingest completes has every fragment in its place, and all of them
\* come from packets with its destination, its number of fragments and one
\* packet id, however the datagrams were lost, repeated or reordered.  Only a
\* packet id that has come round again within FRAGMENT_TTL can mix two.
WholePackets ==
  \A o \in out : \A i \in DOMAIN o.parts :
    LET k == o.parts[i]
    IN /\ sent[k].addr = o.addr /\ FragmentCount(k) = Len(o.parts)
       /\ (k - o.parts[1]) % IdSpace = 0

\* Incomplete packets never pile up beyond the limit the read loop sets.
PendingBounded == Cardinality(DOMAIN packets) <= MaxPending
=============================================================================
