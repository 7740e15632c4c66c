----------------------------- MODULE MCServer -----------------------------
(***************************************************************************)
(* The RSQ, RST and Hysteria2 servers: their connections, the control       *)
(* stream of RSQ, and the TCP relays, with the proofs of what they promise. *)
(* One run checks several components that share no state: a behaviour is    *)
(* one of the component that part names, and the others stay idle.          *)
(***************************************************************************)
EXTENDS RsqControl, FiniteSetTheorems, TLAPS

CONSTANTS
  Conns, Nonces, Limit, Skew, MaxTime,   \* of the connections
  MaxUp, MaxDown                         \* of the TCP relays

\* Connections are finitely many, and bounds are numbers.
ASSUME FiniteAssumption == IsFiniteSet(Conns)
ASSUME NumberAssumption ==
  Threshold \in Nat \ {0} /\ Limit \in Nat /\ Skew \in Nat /\ MaxTime \in Nat

VARIABLES
  part,  \* the component that runs
  server, conn, open, left, held, slots, now, stamp, good, seen, accepted,
  relayed, pc, reply, sent, eof, prefix, taken, loop, got, recorded, quota,
  stalled, missed, idled

\* The state of each component.
ofConnections == <<server, conn, open, left, held, slots, now, stamp, good,
                   seen, accepted>>
ofTcp == <<relayed, pc, reply, sent, eof, prefix, taken, loop, got, recorded,
           quota, stalled, missed, idled>>
state == <<part, vars, ofConnections, ofTcp>>
-----------------------------------------------------------------------------
(* The control stream of RSQ: frames stay whole while nothing is cut off.   *)

\* The pieces of two stretches of the stream, one after the other.
LEMMA Joined ==
  ASSUME NEW s \in Seq(1..4), NEW t \in Seq(1..4)
  PROVE  /\ s \o t \in Seq(1..4) /\ Len(s) \in Nat /\ Len(t) \in Nat
         /\ Len(s \o t) = Len(s) + Len(t)
         /\ \A i \in 1..Len(s) : (s \o t)[i] = s[i]
         /\ \A i \in 1..Len(t) : (s \o t)[Len(s) + i] = t[i]
OBVIOUS

\* A stretch of the stream cut in two.
LEMMA Parted ==
  ASSUME NEW s \in Seq(1..4), NEW k \in 0..Len(s)
  PROVE  /\ SubSeq(s, 1, k) \in Seq(1..4) /\ Len(SubSeq(s, 1, k)) = k
         /\ \A i \in 1..k : SubSeq(s, 1, k)[i] = s[i]
         /\ SubSeq(s, k + 1, Len(s)) \in Seq(1..4) /\ Len(SubSeq(s, k + 1, Len(s))) = Len(s) - k
         /\ \A i \in 1..(Len(s) - k) : SubSeq(s, k + 1, Len(s))[i] = s[k + i]
OBVIOUS

\* Places in a frame repeat after four pieces.
LEMMA Mod4 ==
  ASSUME NEW a \in Nat, NEW b \in Nat, a % 4 = 0
  PROVE  (a + b) % 4 = b % 4 /\ (b \in 0..3 => b % 4 = b)
OBVIOUS

\* Whole frames, told of the two stretches.
LEMMA FramesJoined ==
  ASSUME NEW s \in Seq(1..4), NEW t \in Seq(1..4)
  PROVE  Frames(s \o t) <=> /\ (Len(s) + Len(t)) % 4 = 0
                            /\ \A i \in 1..Len(s) : s[i] = ((i - 1) % 4) + 1
                            /\ \A i \in 1..Len(t) : t[i] = ((Len(s) + i - 1) % 4) + 1
<1> DEFINE R == /\ (Len(s) + Len(t)) % 4 = 0
                /\ \A i \in 1..Len(s) : s[i] = ((i - 1) % 4) + 1
                /\ \A i \in 1..Len(t) : t[i] = ((Len(s) + i - 1) % 4) + 1
<1> DEFINE j == s \o t
<1>1. /\ j \in Seq(1..4) /\ Len(s) \in Nat /\ Len(t) \in Nat /\ Len(j) = Len(s) + Len(t)
      /\ \A i \in 1..Len(s) : j[i] = s[i]
      /\ \A i \in 1..Len(t) : j[Len(s) + i] = t[i]
  OBVIOUS
<1> HIDE DEF j
<1>2. ASSUME Frames(j) PROVE R
  <2>1. /\ (Len(s) + Len(t)) % 4 = 0
        /\ \A i \in 1..(Len(s) + Len(t)) : j[i] = ((i - 1) % 4) + 1
    BY <1>1, <1>2, Zenon DEF Frames
  <2>2. \A i \in 1..Len(s) : i \in 1..(Len(s) + Len(t))
    OBVIOUS
  <2>3. \A i \in 1..Len(t) : Len(s) + i \in 1..(Len(s) + Len(t))
    OBVIOUS
  <2>4. \A i \in 1..Len(s) : s[i] = ((i - 1) % 4) + 1
    BY <1>1, <2>1, <2>2, Zenon
  <2>5. \A i \in 1..Len(t) : t[i] = ((Len(s) + i - 1) % 4) + 1
    <3> TAKE i \in 1..Len(t)
    <3> DEFINE m == Len(s) + i
    <3>1. m \in 1..(Len(s) + Len(t)) /\ j[m] = t[i]
      BY <1>1
    <3> HIDE DEF m
    <3>2. t[i] = ((m - 1) % 4) + 1
      BY <2>1, <3>1, Zenon
    <3> QED BY <3>2 DEF m
  <2> QED BY <2>1, <2>4, <2>5, Zenon
<1>3. ASSUME R PROVE Frames(j)
  <2>1. ASSUME NEW i \in 1..(Len(s) + Len(t)) PROVE j[i] = ((i - 1) % 4) + 1
    <3>1. CASE i <= Len(s)
      BY <1>1, <1>3, <3>1
    <3>2. CASE i > Len(s)
      <4> DEFINE m == i - Len(s)
      <4>1. m \in 1..Len(t) /\ Len(s) + m = i
        BY <3>2
      <4> HIDE DEF m
      <4>2. j[i] = t[m] /\ t[m] = ((Len(s) + m - 1) % 4) + 1
        BY <1>1, <1>3, <4>1, Zenon
      <4> QED BY <4>1, <4>2
    <3> QED BY <3>1, <3>2
  <2> QED BY <1>1, <1>3, <2>1, Zenon DEF Frames
<1> QED BY <1>2, <1>3, Zenon DEF j

\* What a reader has and what is left for it are the same stream before and
\* after a read.
LEMMA ReadKeeps ==
  ASSUME NEW s \in Seq(1..4), NEW t \in Seq(1..4), NEW n \in 1..Len(t)
  PROVE  /\ s \o SubSeq(t, 1, n) \in Seq(1..4) /\ SubSeq(t, n + 1, Len(t)) \in Seq(1..4)
         /\ Frames(s \o t) => Frames((s \o SubSeq(t, 1, n)) \o SubSeq(t, n + 1, Len(t)))
<1> DEFINE a == SubSeq(t, 1, n)
           b == SubSeq(t, n + 1, Len(t))
<1>1. /\ n \in Nat /\ Len(s) \in Nat /\ Len(t) \in Nat
      /\ a \in Seq(1..4) /\ Len(a) = n /\ \A i \in 1..n : a[i] = t[i]
      /\ b \in Seq(1..4) /\ Len(b) = Len(t) - n /\ \A i \in 1..(Len(t) - n) : b[i] = t[n + i]
  BY Parted
<1> HIDE DEF a, b
<1> DEFINE c == s \o a
<1>2. /\ c \in Seq(1..4) /\ Len(c) = Len(s) + n
      /\ \A i \in 1..Len(s) : c[i] = s[i]
      /\ \A i \in 1..n : c[Len(s) + i] = a[i]
  BY <1>1, Joined, Zenon
<1> HIDE DEF c
<1>3. ASSUME Frames(s \o t) PROVE Frames(c \o b)
  <2>1. /\ (Len(s) + Len(t)) % 4 = 0
        /\ \A i \in 1..Len(s) : s[i] = ((i - 1) % 4) + 1
        /\ \A i \in 1..Len(t) : t[i] = ((Len(s) + i - 1) % 4) + 1
    BY <1>3, FramesJoined, Zenon
  <2>2. Len(c) + Len(b) = Len(s) + Len(t)
    BY <1>1, <1>2
  <2>3. ASSUME NEW i \in 1..Len(c) PROVE c[i] = ((i - 1) % 4) + 1
    <3>1. CASE i <= Len(s)
      BY <1>2, <2>1, <3>1
    <3>2. CASE i > Len(s)
      <4>1. i - Len(s) \in 1..n /\ i - Len(s) \in 1..Len(t) /\ Len(s) + (i - Len(s)) = i
        BY <1>2, <3>2
      <4>2. c[i] = t[i - Len(s)]
        BY <1>1, <1>2, <4>1, Zenon
      <4>3. t[i - Len(s)] = ((Len(s) + (i - Len(s)) - 1) % 4) + 1
        BY <2>1, <4>1, Zenon
      <4> QED BY <4>2, <4>3
    <3> QED BY <3>1, <3>2
  <2>4. ASSUME NEW i \in 1..Len(b) PROVE b[i] = ((Len(c) + i - 1) % 4) + 1
    BY <1>1, <1>2, <2>1
  <2> QED BY <1>1, <1>2, <2>1, <2>2, <2>3, <2>4, FramesJoined, Zenon
<1> QED BY <1>3 DEF a, b, c

\* A frame that is written makes one frame more.
LEMMA WriteKeeps ==
  ASSUME NEW s \in Seq(1..4), NEW t \in Seq(1..4)
  PROVE  /\ t \o Frame \in Seq(1..4)
         /\ Frames(s \o t) => Frames(s \o (t \o Frame))
<1>1. Frame \in Seq(1..4) /\ Len(Frame) = 4 /\ \A j \in 1..4 : Frame[j] = j
  BY DEF Frame
<1> DEFINE u == t \o Frame
<1>2. /\ u \in Seq(1..4) /\ Len(u) = Len(t) + 4 /\ Len(t) \in Nat /\ Len(s) \in Nat
      /\ \A i \in 1..Len(t) : u[i] = t[i]
      /\ \A i \in 1..4 : u[Len(t) + i] = i
  <2>1. /\ u \in Seq(1..4) /\ Len(t) \in Nat /\ Len(u) = Len(t) + Len(Frame)
        /\ \A i \in 1..Len(t) : u[i] = t[i]
        /\ \A i \in 1..Len(Frame) : u[Len(t) + i] = Frame[i]
    BY <1>1, Joined, Zenon
  <2> HIDE DEF u
  <2> QED BY <1>1, <2>1
<1> HIDE DEF u
<1>3. ASSUME Frames(s \o t) PROVE Frames(s \o u)
  <2>1. /\ (Len(s) + Len(t)) % 4 = 0
        /\ \A i \in 1..Len(s) : s[i] = ((i - 1) % 4) + 1
        /\ \A i \in 1..Len(t) : t[i] = ((Len(s) + i - 1) % 4) + 1
    BY <1>3, FramesJoined, Zenon
  <2>2. (Len(s) + Len(u)) % 4 = 0
    BY <1>2, <2>1
  <2>3. ASSUME NEW i \in 1..Len(u) PROVE u[i] = ((Len(s) + i - 1) % 4) + 1
    <3>1. CASE i <= Len(t)
      BY <1>2, <2>1, <3>1
    <3>2. CASE i > Len(t)
      <4>1. i - Len(t) \in 1..4 /\ Len(t) + (i - Len(t)) = i
        BY <1>2, <3>2
      <4>2. u[i] = i - Len(t)
        BY <1>2, <4>1, Zenon
      <4>3. (Len(s) + i - 1) % 4 = i - Len(t) - 1
        <5> DEFINE a == Len(s) + Len(t)
                   m == i - Len(t) - 1
        <5>1. Len(s) \in Nat /\ Len(t) \in Nat /\ i \in Int
          OBVIOUS
        <5>2. a \in Nat /\ m \in Nat /\ m \in 0..3 /\ a + m = Len(s) + i - 1 /\ m = i - Len(t) - 1
          BY <4>1
        <5>3. a % 4 = 0
          BY <2>1, Zenon
        <5> HIDE DEF a, m
        <5>4. (a + m) % 4 = m
          BY <5>2, <5>3, Mod4, Zenon
        <5> QED BY <5>2, <5>4, Zenon
      <4> QED BY <4>2, <4>3
    <3> QED BY <3>1, <3>2
  <2> QED BY <1>2, <2>1, <2>2, <2>3, FramesJoined, Zenon
<1> QED BY <1>2, <1>3, Zenon DEF u

\* Dropping whole frames from the front leaves whole frames.
LEMMA DropKeeps ==
  ASSUME NEW s \in Seq(1..4), NEW t \in Seq(1..4), NEW k \in 0..Len(s), k % 4 = 0, Frames(s \o t)
  PROVE  Frames(SubSeq(s, k + 1, Len(s)) \o t)
<1> DEFINE u == SubSeq(s, k + 1, Len(s))
<1>1. /\ k \in Nat /\ Len(s) \in Nat /\ Len(t) \in Nat
      /\ u \in Seq(1..4) /\ Len(u) = Len(s) - k /\ \A i \in 1..(Len(s) - k) : u[i] = s[k + i]
  OBVIOUS
<1> HIDE DEF u
<1>2. /\ (Len(s) + Len(t)) % 4 = 0
      /\ \A i \in 1..Len(s) : s[i] = ((i - 1) % 4) + 1
      /\ \A i \in 1..Len(t) : t[i] = ((Len(s) + i - 1) % 4) + 1
  BY FramesJoined, Zenon
<1>3. ASSUME NEW a \in Nat PROVE (k + a) % 4 = a % 4
  BY Mod4
<1>4. (Len(u) + Len(t)) % 4 = 0
  BY <1>1, <1>2, <1>3
<1>5. ASSUME NEW i \in 1..Len(u) PROVE u[i] = ((i - 1) % 4) + 1
  <2> DEFINE a == i - 1
  <2>1. k \in Nat /\ Len(s) \in Nat /\ i \in 1..(Len(s) - k) /\ u[i] = s[k + i]
    BY <1>1, Zenon
  <2>2. k + i \in 1..Len(s) /\ u[i] = s[k + i] /\ a \in Nat /\ k + a = (k + i) - 1
    BY <2>1
  <2>3. s[k + i] = (((k + i) - 1) % 4) + 1
    BY <1>2, <2>2, Zenon
  <2> HIDE DEF a
  <2>4. u[i] = (a % 4) + 1
    BY <1>3, <2>2, <2>3, Zenon
  <2> QED BY <2>4, Zenon DEF a
<1>6. ASSUME NEW i \in 1..Len(t) PROVE t[i] = ((Len(u) + i - 1) % 4) + 1
  <2> DEFINE a == Len(u) + i - 1
  <2>1. a \in Nat /\ k + a = Len(s) + i - 1
    BY <1>1
  <2>2. t[i] = ((Len(s) + i - 1) % 4) + 1
    BY <1>2, Zenon
  <2> HIDE DEF a
  <2>3. t[i] = (a % 4) + 1
    BY <1>3, <2>1, <2>2, Zenon
  <2> QED BY <2>3, Zenon DEF a
<1> QED BY <1>1, <1>4, <1>5, <1>6, FramesJoined, Zenon DEF u

\* A buffer that starts a stream of frames starts with a header, so that only
\* a read that stopped after the sixth byte is refused.
LEMMA FramesStart ==
  ASSUME NEW s \in Seq(1..4), NEW t \in Seq(1..4), Frames(s \o t)
  PROVE  /\ s # <<>> => Head(s) = 1
         /\ Decode(s) = "bad" => Len(s) = 2
BY DEF Frames, Short, Decode

\* The client's steps keep what the two sides have read in frames.
LEMMA RsqControlClient ==
  ASSUME IInv, \/ Ping \/ (\E n \in 1..(4 * MaxFly) : ReadPong(n)) \/ GotPong \/ PongTimeout
               \/ BadPong \/ StreamEnded
  PROVE  IInv'
<1> USE NumberAssumption DEF IInv
<1>1. ping \in Seq(1..4) /\ pong \in Seq(1..4) /\ cbuf \in Seq(1..4) /\ sbuf \in Seq(1..4)
  BY Zenon DEF TypeOK
<1>2. CASE Ping
  BY <1>2, WriteKeeps, Zenon DEF Ping, ClientGoesOn, TypeOK, ClosesOnThreshold, WholeFrames
<1>3. ASSUME NEW n \in 1..(4 * MaxFly), ReadPong(n) PROVE IInv'
  <2>1. /\ cpc = "wait" /\ n <= Len(pong) /\ UNCHANGED <<ping, sbuf, cpc, fails, serving, damaged>>
        /\ cbuf' = cbuf \o SubSeq(pong, 1, n) /\ pong' = SubSeq(pong, n + 1, Len(pong))
    BY <1>3, Zenon DEF ReadPong
  <2>2. n \in 1..Len(pong)
    BY <2>1
  <2>3. /\ cbuf' \in Seq(1..4) /\ pong' \in Seq(1..4)
        /\ (Frames(cbuf \o pong) => Frames(cbuf' \o pong'))
    BY <1>1, <2>1, ReadKeeps
  <2>4. TypeOK' /\ ClientGoesOn' /\ ClosesOnThreshold'
    BY <2>1, <2>3, Zenon DEF TypeOK, ClientGoesOn, ClosesOnThreshold
  <2> QED BY <2>1, <2>3, <2>4, Zenon DEF WholeFrames
<1>4. CASE GotPong \/ PongTimeout
  <2>1. /\ cpc = "wait" /\ cbuf' = <<>> /\ UNCHANGED <<ping, pong, sbuf, serving>>
        /\ damaged' = (damaged \/ Partial(cbuf)) /\ fails' \in {0, fails + 1}
        /\ cpc' = IF fails' >= Threshold THEN "closed" ELSE "sleep"
    BY <1>4 DEF GotPong, PongTimeout
  <2>2. fails \in 0..Threshold /\ fails < Threshold /\ <<>> \in Seq(1..4)
    BY <2>1 DEF TypeOK, ClientGoesOn
  <2>3. damaged' \in BOOLEAN
    BY <2>1, Zenon
  <2>4. TypeOK' /\ ClientGoesOn' /\ ClosesOnThreshold'
    BY <2>1 DEF TypeOK, ClientGoesOn, ClosesOnThreshold
  <2>5. ASSUME ~damaged' PROVE Frames(cbuf' \o pong)
    <3>1. Frames(cbuf \o pong) /\ ~Partial(cbuf)
      BY <2>1, <2>5, Zenon DEF WholeFrames
    <3>2. Len(cbuf) % 4 = 0 /\ Len(cbuf) \in 0..Len(cbuf)
      BY <3>1 DEF Partial
    <3>3. Frames(SubSeq(cbuf, Len(cbuf) + 1, Len(cbuf)) \o pong)
      BY <1>1, <3>1, <3>2, DropKeeps, Zenon
    <3>4. SubSeq(cbuf, Len(cbuf) + 1, Len(cbuf)) = <<>>
      OBVIOUS
    <3> QED BY <2>1, <3>3, <3>4, Zenon
  <2> QED BY <2>1, <2>4, <2>5, Zenon DEF WholeFrames
<1>5. CASE BadPong
  BY <1>5, FramesStart, Zenon DEF BadPong, WholeFrames, TypeOK, ClientGoesOn, ClosesOnThreshold
<1>6. CASE StreamEnded
  BY <1>6, Zenon DEF StreamEnded, TypeOK, WholeFrames, ClientGoesOn, ClosesOnThreshold
<1> QED BY <1>2, <1>3, <1>4, <1>5, <1>6, Zenon

\* The server's steps do so too.
LEMMA RsqControlServer ==
  ASSUME IInv, (\E n \in 1..(4 * MaxFly) : ReadPing(n)) \/ Pong \/ BadPing PROVE IInv'
<1> USE NumberAssumption DEF IInv
<1>1. ping \in Seq(1..4) /\ pong \in Seq(1..4) /\ cbuf \in Seq(1..4) /\ sbuf \in Seq(1..4)
  BY Zenon DEF TypeOK
<1>2. ASSUME NEW n \in 1..(4 * MaxFly), ReadPing(n) PROVE IInv'
  <2>1. /\ n <= Len(ping) /\ UNCHANGED <<pong, cbuf, cpc, fails, serving, damaged>>
        /\ sbuf' = sbuf \o SubSeq(ping, 1, n) /\ ping' = SubSeq(ping, n + 1, Len(ping))
    BY <1>2, Zenon DEF ReadPing
  <2>2. n \in 1..Len(ping)
    BY <2>1
  <2>3. /\ sbuf' \in Seq(1..4) /\ ping' \in Seq(1..4)
        /\ (Frames(sbuf \o ping) => Frames(sbuf' \o ping'))
    BY <1>1, <2>1, ReadKeeps
  <2>4. TypeOK' /\ ClientGoesOn' /\ ClosesOnThreshold'
    BY <2>1, <2>3, Zenon DEF TypeOK, ClientGoesOn, ClosesOnThreshold
  <2> QED BY <2>1, <2>3, <2>4, Zenon DEF WholeFrames
<1>3. CASE Pong
  BY <1>3, WriteKeeps, DropKeeps
     DEF Pong, Rest, Decode, TypeOK, ClientGoesOn, ClosesOnThreshold, WholeFrames
<1>4. CASE BadPing
  <2>1. /\ serving' = FALSE /\ damaged' = (damaged \/ Len(sbuf) = 2) /\ Decode(sbuf) = "bad"
        /\ UNCHANGED <<ping, pong, cbuf, sbuf, cpc, fails>>
    BY <1>4, Zenon DEF BadPing
  <2>2. damaged'
    BY <1>1, <2>1, FramesStart, Zenon DEF WholeFrames
  <2> QED BY <2>1, <2>2, Zenon DEF TypeOK, WholeFrames, ClientGoesOn, ClosesOnThreshold
<1> QED BY <1>2, <1>3, <1>4, Zenon

\* Every step on the control stream keeps the invariant.
LEMMA RsqControlInvariance == ASSUME IInv, [Next]_vars PROVE IInv'
BY RsqControlClient, RsqControlServer, Zenon
   DEF IInv, TypeOK, WholeFrames, ClientGoesOn, ClosesOnThreshold, vars, Next, Client, Server

\* It holds for a new control stream.
LEMMA RsqControlInit == Init => IInv
<1> SUFFICES ASSUME Init PROVE IInv
  BY Zenon
<1>1. <<>> \in Seq(1..4) /\ Frames(<<>> \o <<>>)
  BY DEF Frames
<1>2. TypeOK
  <2>1. serving \in BOOLEAN /\ damaged \in BOOLEAN /\ cpc \in {"sleep", "wait", "closed"}
    BY Zenon DEF Init
  <2>2. fails \in 0..Threshold
    BY NumberAssumption DEF Init
  <2> QED BY <2>1, <2>2 DEF Init, TypeOK
<1>3. WholeFrames /\ ClosesOnThreshold
  BY <1>1, Zenon DEF Init, WholeFrames, ClosesOnThreshold
<1>4. ClientGoesOn
  BY NumberAssumption DEF Init, ClientGoesOn
<1> QED BY <1>2, <1>3, <1>4, Zenon DEF IInv

\* While whole frames are read, what a side has read begins with a frame.
LEMMA RsqControlSafe == IInv => InStep
BY FramesStart, Zenon DEF IInv, TypeOK, WholeFrames, InStep
-----------------------------------------------------------------------------
(* The TCP relays of the three servers.                                     *)

TcpRelay == INSTANCE TcpRelay WITH
  server <- relayed

\* The chunks 1, 2, ..., n and the next one after them.
LEMMA NextChunk ==
  ASSUME NEW S, NEW s \in Seq(S), s = [i \in 1..Len(s) |-> i], Len(s) + 1 \in S
  PROVE  /\ Append(s, Len(s) + 1) \in Seq(S) /\ Len(Append(s, Len(s) + 1)) = Len(s) + 1
         /\ Append(s, Len(s) + 1) = [i \in 1..Len(Append(s, Len(s) + 1)) |-> i]
<1>1. Append(s, Len(s) + 1) \in Seq(S) /\ Len(Append(s, Len(s) + 1)) = Len(s) + 1 /\ Len(s) \in Nat
  OBVIOUS
<1>2. \A i \in 1..Len(s) + 1 : Append(s, Len(s) + 1)[i] = i
  OBVIOUS
<1> QED BY <1>1, <1>2

\* What happens around the loops leaves them in place: a side that has closed
\* sends nothing more, and quota that is used up does not come back.
LEMMA TcpAround ==
  ASSUME TcpRelay!IInv,
         \/ \E d \in TcpRelay!Dirs :
              TcpRelay!Send(d) \/ TcpRelay!Finish(d) \/ TcpRelay!StopReading(d)
         \/ TcpRelay!UseUpQuota \/ UNCHANGED TcpRelay!vars
  PROVE  TcpRelay!IInv'
<1> USE DEF TcpRelay!IInv
<1>1. UNCHANGED <<relayed, pc, reply, prefix, TcpRelay!copying>>
  BY Zenon DEF TcpRelay!Send, TcpRelay!Finish, TcpRelay!StopReading, TcpRelay!UseUpQuota, TcpRelay!vars
<1>2. TcpRelay!NothingSkipped' /\ TcpRelay!EndsForCause'
  BY <1>1, Zenon DEF TcpRelay!NothingSkipped, TcpRelay!EndsForCause, TcpRelay!Opening, TcpRelay!copying
<1>3. ASSUME NEW d \in TcpRelay!Dirs, TcpRelay!Send(d) PROVE TcpRelay!TypeOK' /\ TcpRelay!InPlace'
  BY <1>3 DEF TcpRelay!TypeOK, TcpRelay!InPlace, TcpRelay!Send, TcpRelay!copying
<1>4. ASSUME NEW d \in TcpRelay!Dirs, TcpRelay!Finish(d) \/ TcpRelay!StopReading(d)
      PROVE  TcpRelay!TypeOK' /\ TcpRelay!InPlace'
  <2>1. UNCHANGED <<relayed, sent, quota, TcpRelay!copying>> /\ \A e \in TcpRelay!Dirs : eof[e] => eof'[e]
    BY <1>4, Zenon DEF TcpRelay!TypeOK, TcpRelay!Finish, TcpRelay!StopReading
  <2>2. TcpRelay!InPlace'
    BY <2>1, Zenon DEF TcpRelay!InPlace, TcpRelay!copying
  <2>3. TcpRelay!TypeOK'
    BY <1>4, Zenon DEF TcpRelay!TypeOK, TcpRelay!Finish, TcpRelay!StopReading, TcpRelay!copying
  <2> QED BY <2>2, <2>3, Zenon
<1>5. CASE TcpRelay!UseUpQuota \/ UNCHANGED TcpRelay!vars
  <2>1. TcpRelay!TypeOK'
    BY <1>5, Zenon
       DEF TcpRelay!TypeOK, TcpRelay!UseUpQuota, TcpRelay!copying, TcpRelay!vars, TcpRelay!peers
  <2>2. UNCHANGED <<relayed, sent, eof, TcpRelay!copying>> /\ (quota' => quota)
    BY <1>5 DEF TcpRelay!TypeOK, TcpRelay!UseUpQuota, TcpRelay!vars, TcpRelay!peers
  <2>3. TcpRelay!InPlace'
    BY <2>2, Zenon DEF TcpRelay!InPlace, TcpRelay!copying
  <2> QED BY <1>2, <2>1, <2>3, Zenon
<1> QED BY <1>2, <1>3, <1>4, <1>5, Zenon

\* The handler ends an answered stream for cause only.
LEMMA TcpHandler == ASSUME TcpRelay!IInv, TcpRelay!Handler PROVE TcpRelay!IInv'
<1> USE DEF TcpRelay!IInv
<1>1. UNCHANGED <<relayed, sent, eof, stalled, quota, taken, loop, got, recorded, missed, idled>>
  BY Zenon
     DEF TcpRelay!Handler, TcpRelay!ReadOpen, TcpRelay!BadOpen, TcpRelay!Connect, TcpRelay!ReplyOk,
     TcpRelay!SelectRsq, TcpRelay!CloseAll, TcpRelay!Select, TcpRelay!Goto, TcpRelay!peers,
     TcpRelay!copying
<1>2. TcpRelay!NothingSkipped' /\ TcpRelay!InPlace'
  BY <1>1, Zenon DEF TcpRelay!NothingSkipped, TcpRelay!InPlace
<1>3. /\ pc' \in {"header", "dial", "reply", "copy", "await", "close", "done"}
      /\ reply' \in {"none", "ok", "err"} /\ prefix' \in Nat
  BY DEF TcpRelay!TypeOK, TcpRelay!Handler, TcpRelay!ReadOpen, TcpRelay!BadOpen, TcpRelay!Connect,
     TcpRelay!ReplyOk, TcpRelay!SelectRsq, TcpRelay!CloseAll, TcpRelay!Select, TcpRelay!Goto,
     TcpRelay!Dirs
<1>4. TcpRelay!TypeOK'
  BY <1>1, <1>3, Zenon DEF TcpRelay!TypeOK
<1>5. TcpRelay!EndsForCause'
  <2>1. CASE TcpRelay!ReadOpen \/ TcpRelay!BadOpen \/ TcpRelay!Connect \/ TcpRelay!ReplyOk
    BY <2>1, Zenon DEF TcpRelay!EndsForCause, TcpRelay!Opening, TcpRelay!ReadOpen, TcpRelay!BadOpen,
       TcpRelay!Connect, TcpRelay!ReplyOk, TcpRelay!Goto
  <2>2. CASE TcpRelay!SelectRsq \/ TcpRelay!CloseAll
    BY <1>1, <2>2, Zenon
       DEF TcpRelay!EndsForCause, TcpRelay!Opening, TcpRelay!SelectRsq, TcpRelay!CloseAll,
       TcpRelay!Goto
  <2>3. CASE TcpRelay!Select
    BY <1>1, <2>3, Zenon
       DEF TcpRelay!EndsForCause, TcpRelay!Opening, TcpRelay!Select, TcpRelay!Goto, TcpRelay!AtEnd
  <2> QED BY <2>1, <2>2, <2>3, Zenon DEF TcpRelay!Handler
<1> QED BY <1>2, <1>4, <1>5, Zenon

\* The chunk a loop writes is the one after those it has written.
LEMMA TcpWrite ==
  ASSUME TcpRelay!IInv, NEW d \in TcpRelay!Dirs, TcpRelay!WriteAll(d)
  PROVE  TcpRelay!IInv'
<1> USE DEF TcpRelay!IInv
<1>1. /\ taken[d] = Len(got[d]) + 1 /\ got[d] = [i \in 1..Len(got[d]) |-> i]
      /\ got[d] \in Seq(Nat) /\ Len(got[d]) + 1 \in Nat
  BY DEF TcpRelay!TypeOK, TcpRelay!NothingSkipped, TcpRelay!InPlace, TcpRelay!WriteAll, TcpRelay!Copy
<1> DEFINE next == Append(got[d], taken[d])
<1>2. next \in Seq(Nat) /\ Len(next) = Len(got[d]) + 1 /\ next = [i \in 1..Len(next) |-> i]
  BY <1>1, NextChunk, Zenon
<1>3. got' = [got EXCEPT ![d] = next] /\ loop' = [loop EXCEPT ![d] = "record"]
  BY Zenon DEF TcpRelay!WriteAll, TcpRelay!Copy
<1> HIDE DEF next
<1>4. TcpRelay!TypeOK'
  BY <1>2, <1>3 DEF TcpRelay!TypeOK, TcpRelay!WriteAll, TcpRelay!Copy, TcpRelay!peers
<1>5. got'[d] = next /\ \A e \in TcpRelay!Dirs \ {d} : got'[e] = got[e]
  BY <1>3, Zenon DEF TcpRelay!TypeOK
<1>6. TcpRelay!NothingSkipped'
  BY <1>2, <1>5, Zenon DEF TcpRelay!NothingSkipped
<1>7. TcpRelay!InPlace'
  BY <1>1, <1>2, <1>3, <1>5
     DEF TcpRelay!TypeOK, TcpRelay!InPlace, TcpRelay!WriteAll, TcpRelay!Copy, TcpRelay!peers
<1>8. TcpRelay!EndsForCause'
  BY Zenon
     DEF TcpRelay!TypeOK, TcpRelay!EndsForCause, TcpRelay!Opening, TcpRelay!WriteAll, TcpRelay!Copy,
     TcpRelay!Polled
<1> QED BY <1>4, <1>6, <1>7, <1>8, Zenon

\* The other steps of a loop move only that loop.
LEMMA TcpLoop ==
  ASSUME TcpRelay!IInv, NEW d \in TcpRelay!Dirs,
         TcpRelay!Read(d) \/ TcpRelay!ReadEof(d) \/ TcpRelay!ReadIdle(d) \/ TcpRelay!CheckQuota(d)
           \/ TcpRelay!Record(d) \/ TcpRelay!Fails(d)
  PROVE  TcpRelay!IInv'
<1> USE DEF TcpRelay!IInv
<1>1. UNCHANGED <<relayed, pc, reply, prefix, sent, eof, stalled, quota, got>>
  BY Zenon DEF TcpRelay!Read, TcpRelay!ReadEof, TcpRelay!ReadIdle, TcpRelay!CheckQuota, TcpRelay!Record,
     TcpRelay!Fails, TcpRelay!Copy, TcpRelay!peers
<1>2. TcpRelay!NothingSkipped'
  BY <1>1, Zenon DEF TcpRelay!NothingSkipped
<1>3. TcpRelay!EndsForCause'
  BY <1>1, Zenon DEF TcpRelay!EndsForCause, TcpRelay!Opening, TcpRelay!Read, TcpRelay!ReadEof,
     TcpRelay!ReadIdle, TcpRelay!CheckQuota, TcpRelay!Record, TcpRelay!Fails, TcpRelay!Copy,
     TcpRelay!Polled
<1>4. TcpRelay!TypeOK'
  <2>1. CASE TcpRelay!Read(d) \/ TcpRelay!Record(d)
    <3>1. missed' \in SUBSET TcpRelay!Dirs
      <4>1. missed \in SUBSET TcpRelay!Dirs /\ TcpRelay!Other(d) \in TcpRelay!Dirs
        BY Zenon DEF TcpRelay!TypeOK, TcpRelay!Other, TcpRelay!Dirs
      <4>2. missed' \subseteq missed \cup {TcpRelay!Other(d)}
        BY <2>1, Zenon DEF TcpRelay!Read, TcpRelay!Record
      <4> QED BY <4>1, <4>2, Zenon
    <3>2. taken[d] + 1 \in Nat /\ recorded[d] + 1 \in Nat
      BY DEF TcpRelay!TypeOK
    <3>3. taken' \in [TcpRelay!Dirs -> Nat] /\ recorded' \in [TcpRelay!Dirs -> Nat]
      BY <2>1, <3>2, Zenon DEF TcpRelay!TypeOK, TcpRelay!Read, TcpRelay!Record
    <3> QED BY <1>1, <2>1, <3>1, <3>3, Zenon
               DEF TcpRelay!TypeOK, TcpRelay!Read, TcpRelay!Record, TcpRelay!Copy
  <2>2. CASE TcpRelay!ReadEof(d) \/ TcpRelay!ReadIdle(d) \/ TcpRelay!CheckQuota(d) \/ TcpRelay!Fails(d)
    BY <1>1, <2>2, Zenon DEF TcpRelay!TypeOK, TcpRelay!ReadEof, TcpRelay!ReadIdle, TcpRelay!CheckQuota,
       TcpRelay!Fails, TcpRelay!Copy
  <2> QED BY <2>1, <2>2, Zenon
<1>5. ASSUME NEW e \in TcpRelay!Dirs \ {d} PROVE TcpRelay!InPlace!(e)'
  <2>1. UNCHANGED <<loop[e], taken[e], recorded[e]>>
    BY Zenon
       DEF TcpRelay!TypeOK, TcpRelay!Read, TcpRelay!ReadEof, TcpRelay!ReadIdle, TcpRelay!CheckQuota,
       TcpRelay!Record, TcpRelay!Fails, TcpRelay!Copy
  <2> QED BY <1>1, <2>1, Zenon DEF TcpRelay!InPlace
<1>6. Len(got[d]) \in Nat /\ taken[d] \in Nat /\ sent[d] \in Nat /\ recorded[d] \in Nat
  BY DEF TcpRelay!TypeOK
<1>7. CASE TcpRelay!Read(d) \/ TcpRelay!Record(d)
  <2>1. TcpRelay!InPlace!(d)'
    BY <1>1, <1>6, <1>7
       DEF TcpRelay!TypeOK, TcpRelay!InPlace, TcpRelay!Read, TcpRelay!Record, TcpRelay!Copy
  <2> QED BY <1>2, <1>3, <1>4, <1>5, <2>1, Zenon DEF TcpRelay!InPlace
<1>8. CASE TcpRelay!ReadEof(d) \/ TcpRelay!ReadIdle(d) \/ TcpRelay!CheckQuota(d) \/ TcpRelay!Fails(d)
  <2>1. UNCHANGED <<taken, recorded>>
    BY <1>8, Zenon DEF TcpRelay!ReadEof, TcpRelay!ReadIdle, TcpRelay!CheckQuota, TcpRelay!Fails
  <2>2. TcpRelay!InPlace!(d)'
    BY <1>1, <1>6, <1>8, <2>1, Zenon DEF TcpRelay!TypeOK, TcpRelay!InPlace, TcpRelay!ReadEof,
       TcpRelay!ReadIdle, TcpRelay!CheckQuota, TcpRelay!Fails, TcpRelay!Copy
  <2> QED BY <1>2, <1>3, <1>4, <1>5, <2>2, Zenon DEF TcpRelay!InPlace
<1> QED BY <1>7, <1>8, Zenon

\* Every step of a relay keeps the invariant.
LEMMA TcpInvariance == ASSUME TcpRelay!IInv, [TcpRelay!Next]_(TcpRelay!vars) PROVE TcpRelay!IInv'
BY TcpAround, TcpHandler, TcpWrite, TcpLoop, Zenon
   DEF TcpRelay!Next, TcpRelay!RsqCopy, TcpRelay!RstCopy, TcpRelay!Hy2Copy, TcpRelay!CopyStep

\* It holds when a stream is accepted.
LEMMA TcpInit == TcpRelay!Init => TcpRelay!IInv
BY DEF TcpRelay!Init, TcpRelay!IInv, TcpRelay!TypeOK, TcpRelay!NothingSkipped, TcpRelay!InPlace,
   TcpRelay!EndsForCause, TcpRelay!Dirs

\* The invariant gives what the relay promises.
LEMMA TcpSafe == TcpRelay!IInv => TcpRelay!RecordedIsWritten /\ TcpRelay!OrderlyEndIsComplete
BY DEF TcpRelay!IInv, TcpRelay!TypeOK, TcpRelay!InPlace, TcpRelay!EndsForCause,
   TcpRelay!RecordedIsWritten, TcpRelay!OrderlyEndIsComplete
-----------------------------------------------------------------------------
(* Counting and sequences.                                                 *)

\* A finite set that gains an element of a finite set counts one more.
LEMMA CountUp ==
  ASSUME NEW S, IsFiniteSet(S), NEW T \in SUBSET S, NEW c \in S \ T
  PROVE  /\ Cardinality(T) \in Nat /\ Cardinality(S) \in Nat
         /\ Cardinality(T \cup {c}) = Cardinality(T) + 1
         /\ Cardinality(T) < Cardinality(S)
<1>1. IsFiniteSet(T)
  BY FS_Subset, Zenon
<1>2. Cardinality(T) \in Nat /\ Cardinality(S) \in Nat
  BY <1>1, FS_CardinalityType, Zenon
<1>3. Cardinality(T \cup {c}) = Cardinality(T) + 1
  BY <1>1, FS_AddElement, Zenon
<1>4. Cardinality(T \cup {c}) <= Cardinality(S)
  <2>1. T \cup {c} \in SUBSET S
    BY Zenon
  <2> QED BY <2>1, FS_Subset, Zenon
<1> QED BY <1>2, <1>3, <1>4

\* A finite set that loses an element counts one less.
LEMMA CountDown ==
  ASSUME NEW S, IsFiniteSet(S), NEW T \in SUBSET S, NEW c \in T
  PROVE  /\ Cardinality(T) \in Nat /\ Cardinality(S) \in Nat /\ Cardinality(T) > 0
         /\ Cardinality(T \ {c}) = Cardinality(T) - 1
         /\ Cardinality(T) <= Cardinality(S)
<1>1. IsFiniteSet(T)
  BY FS_Subset, Zenon
<1>2. Cardinality(T) \in Nat /\ Cardinality(S) \in Nat /\ Cardinality(T) <= Cardinality(S)
  BY <1>1, FS_CardinalityType, FS_Subset, Zenon
<1>3. Cardinality(T \ {c}) = Cardinality(T) - 1
  BY <1>1, FS_RemoveElement, Zenon
<1>4. IsFiniteSet(T \ {c})
  BY <1>1, FS_Subset, Zenon
<1>5. Cardinality(T \ {c}) \in Nat
  BY <1>4, FS_CardinalityType, Zenon
<1> QED BY <1>2, <1>3, <1>5
-----------------------------------------------------------------------------
(* The connections of the three servers.                                    *)

QuicServer == INSTANCE QuicServer

\* The component counts as this module does.
LEMMA QuicServerCount == \A S : QuicServer!Cardinality(S) = Cardinality(S)
BY Zenon DEF QuicServer!Cardinality, Cardinality, QuicServer!IsFiniteSet, IsFiniteSet

\* A step that serves no connection more or less leaves the slots alone.
LEMMA QuicSlotsKept ==
  ASSUME QuicServer!SlotsAreServed, QuicServer!Serving' = QuicServer!Serving, UNCHANGED slots
  PROVE  QuicServer!SlotsAreServed'
BY QuicServerCount, Zenon DEF QuicServer!SlotsAreServed

\* acquire_user counts the connection it lets through, within the limit.
LEMMA QuicAcquire ==
  ASSUME QuicServer!IInv, NEW c \in Conns, QuicServer!Acquire(c)
  PROVE  QuicServer!IInv'
<1> USE DEF QuicServer!IInv
<1>1. CASE slots < Limit
  <2>1. /\ QuicServer!Serving' = QuicServer!Serving \cup {c} /\ c \in Conns \ QuicServer!Serving
        /\ QuicServer!Serving \in SUBSET Conns
    BY <1>1, QuicServerCount, Zenon
       DEF QuicServer!TypeOK, QuicServer!Acquire, QuicServer!Go, QuicServer!Serving
  <2>2. slots = Cardinality(QuicServer!Serving) /\ slots' = slots + 1
    BY <1>1, QuicServerCount, Zenon DEF QuicServer!SlotsAreServed, QuicServer!Acquire
  <2>3. /\ Cardinality(QuicServer!Serving) \in Nat /\ Cardinality(Conns) \in Nat
        /\ Cardinality(QuicServer!Serving') = Cardinality(QuicServer!Serving) + 1
        /\ Cardinality(QuicServer!Serving) < Cardinality(Conns)
    BY <2>1, CountUp, FiniteAssumption, Zenon
  <2>4. /\ slots' = Cardinality(QuicServer!Serving') /\ slots' \in 0..Cardinality(Conns)
        /\ slots' <= Limit
    BY <2>2, <2>3, <1>1, NumberAssumption
  <2> QED BY <1>1, <2>4, QuicServerCount, Zenon DEF QuicServer!TypeOK, QuicServer!Stages,
             QuicServer!SlotsAreServed, QuicServer!AcceptedOnce, QuicServer!Remembered,
             QuicServer!ServedStaysOpen, QuicServer!Acquire, QuicServer!Go, QuicServer!replay
<1>2. CASE ~(slots < Limit)
  BY <1>2, QuicSlotsKept, QuicServerCount, Zenon
     DEF QuicServer!TypeOK, QuicServer!Acquire, QuicServer!Go,
     QuicServer!Dropped, QuicServer!Serving, QuicServer!Stages, QuicServer!AcceptedOnce,
     QuicServer!Remembered, QuicServer!ServedStaysOpen, QuicServer!replay
<1> QED BY <1>1, <1>2, Zenon

\* The guard is dropped with the loop.
LEMMA QuicLoopEnds ==
  ASSUME QuicServer!IInv, NEW c \in Conns, QuicServer!LoopEnds(c)
  PROVE  QuicServer!IInv'
<1> USE DEF QuicServer!IInv
<1>1. /\ QuicServer!Serving' = QuicServer!Serving \ {c} /\ c \in QuicServer!Serving
      /\ QuicServer!Serving \in SUBSET Conns
  BY QuicServerCount, Zenon
     DEF QuicServer!TypeOK, QuicServer!LoopEnds, QuicServer!Go, QuicServer!Serving
<1>2. slots = Cardinality(QuicServer!Serving) /\ slots <= Limit /\ slots' = slots - 1
  BY QuicServerCount, Zenon DEF QuicServer!SlotsAreServed, QuicServer!LoopEnds
<1>3. /\ Cardinality(QuicServer!Serving) \in Nat /\ Cardinality(Conns) \in Nat
      /\ Cardinality(QuicServer!Serving) > 0
      /\ Cardinality(QuicServer!Serving') = Cardinality(QuicServer!Serving) - 1
      /\ Cardinality(QuicServer!Serving) <= Cardinality(Conns)
  BY <1>1, CountDown, FiniteAssumption, Zenon
<1>4. /\ slots' = Cardinality(QuicServer!Serving') /\ slots' \in 0..Cardinality(Conns)
      /\ slots' <= Limit
  BY <1>2, <1>3, NumberAssumption
<1> QED BY <1>4, QuicServerCount, Zenon
           DEF QuicServer!TypeOK, QuicServer!Stages, QuicServer!SlotsAreServed,
           QuicServer!AcceptedOnce, QuicServer!Remembered, QuicServer!ServedStaysOpen,
           QuicServer!LoopEnds, QuicServer!Go, QuicServer!replay

\* A request that was accepted before is in the cache while its time is near
\* enough, so the cache tells it from a new one.
LEMMA QuicVerified ==
  ASSUME QuicServer!IInv, NEW c \in Conns, NEW n \in Nonces, QuicServer!Verified(c, n)
  PROVE  QuicServer!IInv'
<1> USE NumberAssumption DEF QuicServer!IInv
<1>1. QuicServer!Serving' = QuicServer!Serving /\ slots' = slots
  BY QuicServerCount, Zenon
     DEF QuicServer!TypeOK, QuicServer!Verified, QuicServer!Go, QuicServer!Serving
<1>2. accepted[n] = 0
  BY QuicServerCount DEF QuicServer!TypeOK, QuicServer!Verified, QuicServer!Remembered,
     QuicServer!Timely, QuicServer!Fresh
<1>3. 1 \in 0..Cardinality(Conns)
  <2>1. {} \in SUBSET Conns /\ c \in Conns \ {}
    BY Zenon
  <2>2. /\ Cardinality({}) \in Nat /\ Cardinality(Conns) \in Nat
        /\ Cardinality({}) < Cardinality(Conns)
    BY <2>1, CountUp, FiniteAssumption, Zenon
  <2> QED BY <2>2
<1>4. seen' \in [Nonces -> -1..MaxTime]
  BY QuicServerCount DEF QuicServer!TypeOK, QuicServer!Verified, QuicServer!Fresh
<1>5. QuicServer!TypeOK'
  BY <1>2, <1>3, <1>4, QuicServerCount
     DEF QuicServer!TypeOK, QuicServer!Stages, QuicServer!Verified, QuicServer!Go
<1>6. QuicServer!AcceptedOnce'
  BY <1>2, QuicServerCount DEF QuicServer!TypeOK, QuicServer!AcceptedOnce, QuicServer!Verified
<1>7. QuicServer!Remembered'
  BY QuicServerCount DEF QuicServer!TypeOK, QuicServer!Remembered, QuicServer!Verified,
     QuicServer!Timely, QuicServer!Fresh
<1>8. QuicServer!ServedStaysOpen'
  BY QuicServerCount, Zenon
     DEF QuicServer!TypeOK, QuicServer!ServedStaysOpen, QuicServer!Verified, QuicServer!Go
<1> QED BY <1>1, <1>5, <1>6, <1>7, <1>8, QuicSlotsKept, Zenon

\* A refusal may shorten the cache by what is too old to pass.
LEMMA QuicRefused ==
  ASSUME QuicServer!IInv, NEW c \in Conns, NEW n \in Nonces, QuicServer!Refused(c, n)
  PROVE  QuicServer!IInv'
<1> USE NumberAssumption DEF QuicServer!IInv
<1>1. QuicServer!SlotsAreServed' /\ QuicServer!ServedStaysOpen'
  BY QuicSlotsKept, QuicServerCount, Zenon DEF QuicServer!TypeOK, QuicServer!Refused, QuicServer!Go,
     QuicServer!Dropped, QuicServer!Serving, QuicServer!ServedStaysOpen
<1>2. QuicServer!TypeOK'
  BY QuicServerCount DEF QuicServer!TypeOK, QuicServer!Stages, QuicServer!Refused, QuicServer!Go,
     QuicServer!Dropped, QuicServer!Fresh
<1>3. QuicServer!AcceptedOnce' /\ QuicServer!Remembered'
  BY QuicServerCount DEF QuicServer!TypeOK, QuicServer!Refused, QuicServer!AcceptedOnce,
     QuicServer!Remembered, QuicServer!Timely, QuicServer!Fresh
<1> QED BY <1>1, <1>2, <1>3, Zenon

\* Every step of the servers keeps the invariant.
LEMMA QuicInvariance ==
  ASSUME QuicServer!IInv, [QuicServer!Next]_(QuicServer!vars)
  PROVE  QuicServer!IInv'
<1> USE NumberAssumption DEF QuicServer!IInv
<1>1. CASE QuicServer!Tick
  BY <1>1, QuicSlotsKept, QuicServerCount DEF QuicServer!Tick, QuicServer!Serving, QuicServer!TypeOK,
     QuicServer!AcceptedOnce, QuicServer!Remembered, QuicServer!ServedStaysOpen
<1>2. ASSUME NEW n \in Nonces, QuicServer!MakeRequest(n)
      PROVE  QuicServer!IInv'
  BY <1>2, QuicSlotsKept, QuicServerCount DEF QuicServer!MakeRequest, QuicServer!Serving,
     QuicServer!TypeOK, QuicServer!AcceptedOnce, QuicServer!Remembered, QuicServer!ServedStaysOpen
<1>3. ASSUME NEW c \in Conns,
      QuicServer!Accept(c) \/ QuicServer!NoRequest(c) \/ QuicServer!AuthStep(c) \/ QuicServer!Closed(c)
      PROVE  QuicServer!IInv'
  <2> USE <1>3 DEF QuicServer!Accept, QuicServer!NoRequest, QuicServer!AuthStep,
        QuicServer!Authenticated, QuicServer!Rejected, QuicServer!Closed, QuicServer!Go,
        QuicServer!Dropped, QuicServer!replay
  <2>1. QuicServer!Serving' = QuicServer!Serving /\ slots' = slots
    BY QuicServerCount, Zenon DEF QuicServer!Serving, QuicServer!TypeOK
  <2>2. QuicServer!TypeOK' /\ QuicServer!ServedStaysOpen'
    BY QuicServerCount, Zenon DEF QuicServer!TypeOK, QuicServer!Stages, QuicServer!ServedStaysOpen
  <2>3. QuicServer!AcceptedOnce' /\ QuicServer!Remembered'
    BY Zenon DEF QuicServer!AcceptedOnce, QuicServer!Remembered
  <2> QED BY <2>1, <2>2, <2>3, QuicSlotsKept, Zenon
<1>4. CASE UNCHANGED QuicServer!vars
  BY <1>4, QuicServerCount, Zenon DEF QuicServer!vars, QuicServer!replay, QuicServer!TypeOK,
     QuicServer!Stages, QuicServer!SlotsAreServed, QuicServer!Serving, QuicServer!AcceptedOnce,
     QuicServer!Remembered, QuicServer!ServedStaysOpen
<1> QED BY <1>1, <1>2, <1>3, <1>4, QuicAcquire, QuicLoopEnds, QuicVerified, QuicRefused, Zenon
        DEF QuicServer!Next, QuicServer!RsqServe, QuicServer!RstServe, QuicServer!Hy2Serve,
        QuicServer!Serve

\* It holds when the server starts.
LEMMA QuicInit == QuicServer!Init => QuicServer!IInv
<1> SUFFICES ASSUME QuicServer!Init PROVE QuicServer!IInv
  BY Zenon
<1>1. QuicServer!Serving = {} /\ Cardinality(Conns) \in Nat
  BY FS_CardinalityType, FiniteAssumption, Zenon DEF QuicServer!Init, QuicServer!Serving
<1>2. slots = Cardinality(QuicServer!Serving)
  BY <1>1, FS_EmptySet, Zenon DEF QuicServer!Init
<1> QED BY <1>1, <1>2, NumberAssumption, QuicServerCount DEF QuicServer!Init, QuicServer!IInv,
           QuicServer!TypeOK, QuicServer!Stages, QuicServer!SlotsAreServed, QuicServer!AcceptedOnce,
           QuicServer!Remembered, QuicServer!ServedStaysOpen
-----------------------------------------------------------------------------
(* The run: one of the components.                                          *)

\* The state of a component that does not run.
NoConnections ==
  /\ server = "idle" /\ conn = "idle" /\ open = "idle" /\ left = "idle"
  /\ held = "idle" /\ slots = "idle" /\ now = "idle" /\ stamp = "idle"
  /\ good = "idle" /\ seen = "idle" /\ accepted = "idle"
NoTcp ==
  /\ relayed = "idle" /\ pc = "idle" /\ reply = "idle" /\ sent = "idle"
  /\ eof = "idle" /\ prefix = "idle" /\ taken = "idle" /\ loop = "idle"
  /\ got = "idle" /\ recorded = "idle" /\ quota = "idle" /\ stalled = "idle"
  /\ missed = "idle" /\ idled = "idle"

MCInit ==
  /\ part \in {"control", "connections", "tcp"}
  /\ Init
  /\ IF part = "connections" THEN QuicServer!Init ELSE NoConnections
  /\ IF part = "tcp" THEN TcpRelay!Init ELSE NoTcp

\* The components that do not run keep their state.
OthersStay ==
  /\ UNCHANGED part
  /\ IF part = "control" THEN TRUE ELSE UNCHANGED vars
  /\ IF part = "connections" THEN TRUE ELSE UNCHANGED ofConnections
  /\ IF part = "tcp" THEN TRUE ELSE UNCHANGED ofTcp

MCNext ==
  \/ part = "control" /\ Next /\ OthersStay
  \/ part = "connections" /\ QuicServer!Next /\ OthersStay
  \/ part = "tcp" /\ TcpRelay!Next /\ OthersStay

\* What is fair while a component runs, as in its module.
MCFairness ==
  /\ WF_vars(part = "control" /\ Client)
  /\ WF_vars(part = "control" /\ Server)
  /\ \A c \in Conns : WF_ofConnections(part = "connections" /\ QuicServer!Serve(c))
  /\ WF_ofTcp(part = "tcp" /\ TcpRelay!Handler)
  /\ \A d \in {"up", "down"} : WF_ofTcp(part = "tcp" /\ TcpRelay!CopyStep(d))

MCSpec == MCInit /\ [][MCNext]_state /\ MCFairness
-----------------------------------------------------------------------------
\* Every component keeps its types.
TypesOK ==
  /\ part = "control" => TypeOK
  /\ part = "connections" => QuicServer!TypeOK
  /\ part = "tcp" => TcpRelay!TypeOK

\* Connections and streams are served: a user's slots are those of the
\* connections being served, which stay open while the peer does, and an
\* authentication is accepted once; pings and pongs stay in step whatever is
\* late, and the client closes only at the threshold; a relay skips nothing,
\* neither the bytes read along with the request, records no byte it did not
\* write, and one that ends in order has carried all.
StreamsServed ==
  /\ part = "connections" => QuicServer!SlotsAreServed
  /\ part = "connections" => QuicServer!ServedStaysOpen
  /\ part = "connections" => QuicServer!AcceptedOnce
  /\ part = "control" => InStep
  /\ part = "control" => ClosesOnThreshold
  /\ part = "tcp" => TcpRelay!NothingSkipped
  /\ part = "tcp" => TcpRelay!RecordedIsWritten
  /\ part = "tcp" => TcpRelay!OrderlyEndIsComplete

\* What a server started ends: a connection that is left gives its slot back,
\* relays end when both sides did or when one is idle, and a client notices
\* that the server of its control stream is gone.
\* (The connections are interchangeable, so one stands for all.)
OneConn == CHOOSE c \in Conns : TRUE
SessionsEnd ==
  /\ (part = "control" /\ ServerGone) ~> (part = "control" => ClientClosed)
  /\ (part = "connections" /\ QuicServer!Left(OneConn)) ~> (part = "connections" => QuicServer!Ended(OneConn))
  /\ (part = "tcp" /\ TcpRelay!ToEnd) ~> (part = "tcp" => TcpRelay!EndedOrStalled)
-----------------------------------------------------------------------------
\* The inductive invariant: that of the component that runs, and of the control
\* stream.
MCInv ==
  /\ IInv
  /\ part = "connections" => QuicServer!IInv
  /\ part = "tcp" => TcpRelay!IInv

\* A component starts in a state of its invariant.
LEMMA ServerInit == MCInit => MCInv
BY RsqControlInit, QuicInit, TcpInit, Zenon DEF MCInit, MCInv

\* A step of the run is a step of the component that runs.
LEMMA ServerStep == ASSUME MCInv, [MCNext]_state PROVE MCInv'
<1>1. /\ part' = part /\ [Next]_vars
      /\ part = "connections" => [QuicServer!Next]_(QuicServer!vars)
      /\ part = "tcp" => [TcpRelay!Next]_(TcpRelay!vars)
  BY Zenon DEF MCNext, OthersStay, state, ofConnections, ofTcp, QuicServer!vars, QuicServer!replay,
     TcpRelay!vars, TcpRelay!peers, TcpRelay!copying
<1>2. IInv'
  BY <1>1, RsqControlInvariance, Zenon DEF MCInv
<1> QED BY <1>1, <1>2, QuicInvariance, TcpInvariance, Zenon DEF MCInv

\* Every run stays in the invariant.
LEMMA ServerInvariant == MCSpec => []MCInv
<1>1. MCInv /\ [MCNext]_state => MCInv'
  BY ServerStep, Zenon
<1> QED BY <1>1, ServerInit, PTL DEF MCSpec

\* Every component of the servers keeps its types, for every number of
\* connections, requests and chunks and every limit.
THEOREM ServerTypes == MCSpec => []TypesOK
<1>1. MCInv => TypesOK
  BY Zenon DEF MCInv, TypesOK, IInv, QuicServer!IInv, TcpRelay!IInv
<1> QED BY <1>1, ServerInvariant, PTL

\* Slots, authentications, control frames and the bytes of a relay are kept for
\* any number of connections, requests and chunks, any limit, clock skew and
\* threshold, and wherever a read stops.
THEOREM ServerServes == MCSpec => []StreamsServed
<1>1. MCInv => StreamsServed
  BY RsqControlSafe, TcpSafe, Zenon DEF MCInv, StreamsServed, IInv, QuicServer!IInv, TcpRelay!IInv
<1> QED BY <1>1, ServerInvariant, PTL
=============================================================================
