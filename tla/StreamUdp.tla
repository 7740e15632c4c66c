----------------------------- MODULE StreamUdp ------------------------------
(***************************************************************************)
(* UDP carried over one proxied stream: XUDP frames (xudp.rs) and the plain *)
(* frames of udp_over_tcp.rs.  Several tasks of an association send through *)
(* the same writer, under its mutex; one task reads the frames of the peer  *)
(* and hands the datagrams to the receiver through an unbounded channel.    *)
(*                                                                         *)
(* A frame goes into the stream in two parts, its header and its payload.   *)
(***************************************************************************)
EXTENDS Integers, Sequences, FiniteSets

CONSTANTS
  Senders,   \* tasks that call send_to
  Targets,   \* destinations
  MaxSends,  \* bound on datagrams sent
  MaxFrames  \* bound on frames of the peer

\* XUDP or udp_over_tcp.
Formats == {"xudp", "uot"}
\* Frames of the peer: with an address, with a name that resolves or not, of
\* another network, and cut short by the end of the stream.
FrameKinds == {"addr", "name", "unknown_name", "other_net", "cut"}

VARIABLES
  format,
  lock,      \* sender that holds the writer
  pc, job,   \* per sender: where send_to is, and its target
  seen,      \* targets the writer has announced
  isNew,     \* what the holder found of its target
  wire,      \* parts in the stream, in order
  broken,    \* the stream refuses writes
  sends,     \* history: datagrams sent
  incoming,  \* frames of the peer not read yet
  frames,    \* number of frames the peer has sent
  reader,    \* the reading task: "running", "ended"
  last,      \* history: the frame it read last
  queue,     \* the channel
  socket,    \* the ProxyUdpSocket is held by the relay
  received   \* history: frames handed to the relay
out == <<lock, pc, job, seen, isNew, wire, broken, sends>>
in == <<incoming, frames, reader, last, queue, received>>
vars == <<format, out, in, socket>>

Parts == [part : {"new", "keep", "payload"}, target : Targets, by : Senders]

TypeOK ==
  /\ format \in Formats /\ lock \in SUBSET Senders
  /\ pc \in [Senders -> {"idle", "wait", "check", "header", "payload"}]
  /\ job \in [Senders -> Targets] /\ seen \subseteq Targets /\ isNew \in BOOLEAN
  /\ wire \in Seq(Parts) /\ broken \in BOOLEAN /\ sends \in 0..MaxSends
  /\ incoming \in Seq(FrameKinds) /\ frames \in 0..MaxFrames
  /\ reader \in {"running", "ended"} /\ last \in FrameKinds \cup {"no"} /\ queue \in Seq(1..MaxFrames)
  /\ socket \in BOOLEAN /\ received \in Seq(1..MaxFrames)

Init ==
  /\ format \in Formats /\ lock = {} /\ pc = [s \in Senders |-> "idle"]
  /\ job = [s \in Senders |-> CHOOSE t \in Targets : TRUE] /\ seen = {} /\ isNew = FALSE /\ wire = <<>>
  /\ broken = FALSE /\ sends = 0
  /\ incoming = <<>> /\ frames = 0 /\ reader = "running" /\ last = "no" /\ queue = <<>>
  /\ socket = TRUE /\ received = <<>>
-----------------------------------------------------------------------------
(* send_to *)

Goto(s, l) == pc' = [pc EXCEPT ![s] = l]

Call(s) ==
  /\ socket /\ pc[s] = "idle" /\ sends < MaxSends
  /\ sends' = sends + 1 /\ Goto(s, "wait") /\ \E t \in Targets : job' = [job EXCEPT ![s] = t]
  /\ UNCHANGED <<format, lock, seen, isNew, wire, broken, in, socket>>

\* Mutant of Lock: the target is looked up before the mutex is held.
LockAfterCheck(s) ==
  /\ \/ pc[s] = "wait" /\ Goto(s, "check") /\ UNCHANGED <<lock, isNew, seen>>
     \/ /\ pc[s] = "check" /\ lock = {} /\ lock' = {s} /\ Goto(s, "header")
        /\ isNew' = TRUE /\ seen' = seen \cup {job[s]}
  /\ UNCHANGED <<format, job, wire, broken, sends, in, socket>>

\* The mutex, then in XUDP whether the target is new, which marks it.
Lock(s) ==
  /\ pc[s] = "wait" /\ lock = {} /\ lock' = {s} /\ Goto(s, "header")
  /\ isNew' = (format = "xudp" /\ job[s] \notin seen)
  /\ seen' = IF format = "xudp" THEN seen \cup {job[s]} ELSE seen
  /\ UNCHANGED <<format, job, wire, broken, sends, in, socket>>

Frame(s) ==
  <<[part |-> IF isNew THEN "new" ELSE "keep", target |-> job[s], by |-> s],
    [part |-> "payload", target |-> job[s], by |-> s]>>

\* write_all, in two polls; an error leaves what was written.
Write(s) ==
  /\ pc[s] \in {"header", "payload"}
  /\ \/ /\ ~broken /\ wire' = Append(wire, Frame(s)[IF pc[s] = "header" THEN 1 ELSE 2])
        /\ Goto(s, IF pc[s] = "header" THEN "payload" ELSE "idle")
        /\ lock' = IF pc[s] = "header" THEN lock ELSE {}
     \/ broken /\ Goto(s, "idle") /\ lock' = {} /\ UNCHANGED wire
  /\ UNCHANGED <<format, job, seen, isNew, broken, sends, in, socket>>

Break == ~broken /\ broken' = TRUE /\ UNCHANGED <<format, lock, pc, job, seen, isNew, wire, sends, in, socket>>
-----------------------------------------------------------------------------
(* The reading task *)

PeerSends ==
  /\ frames < MaxFrames /\ frames' = frames + 1
  /\ \E k \in FrameKinds : incoming' = Append(incoming, k)
  /\ UNCHANGED <<format, out, reader, last, queue, socket, received>>

\* What read_xudp_frame and read_frame make of a frame: a datagram, an error
\* when it is cut or its name does not resolve, and of another network None
\* from the first and an unsupported address type from the second.
ReadFrame(k) == IF k \in {"addr", "name"} THEN "datagram" ELSE IF k = "other_net" THEN "none" ELSE "error"

\* Mutant of Read: an error is passed over.
ReadGoesOn ==
  /\ reader = "running" /\ incoming # <<>>
  /\ queue' = IF ReadFrame(Head(incoming)) = "datagram" /\ socket
              THEN Append(queue, frames - Len(incoming) + 1) ELSE queue
  /\ incoming' = Tail(incoming) /\ last' = Head(incoming)
  /\ UNCHANGED <<format, out, frames, reader, socket, received>>

\* Only a datagram keeps the loop going; a send into a channel without a
\* receiver is ignored.
Read ==
  /\ reader = "running" /\ incoming # <<>>
  /\ LET got == ReadFrame(Head(incoming))
     IN /\ queue' = IF got = "datagram" /\ socket THEN Append(queue, frames - Len(incoming) + 1) ELSE queue
        /\ reader' = IF got = "datagram" THEN "running" ELSE "ended"
  /\ incoming' = Tail(incoming) /\ last' = Head(incoming)
  /\ UNCHANGED <<format, out, frames, socket, received>>

RecvFrom ==
  /\ socket /\ queue # <<>>
  /\ received' = Append(received, Head(queue)) /\ queue' = Tail(queue)
  /\ UNCHANGED <<format, out, incoming, frames, reader, last, socket>>

\* The relay lets go of the socket; the reading task holds its half.
DropSocket ==
  /\ socket /\ lock = {} /\ socket' = FALSE /\ queue' = <<>>
  /\ pc' = [s \in Senders |-> "idle"]
  /\ UNCHANGED <<format, lock, job, seen, isNew, wire, broken, sends, incoming, frames, reader, last, received>>

Next ==
  \/ \E s \in Senders : Call(s) \/ Lock(s) \/ Write(s)
  \/ Break \/ PeerSends \/ Read \/ RecvFrom \/ DropSocket

Spec == Init /\ [][Next]_vars
-----------------------------------------------------------------------------
(* Properties *)

\* Frames of concurrent senders never mix in the stream, and in XUDP the first
\* frame of every target, and no other, announces it: what the peer needs to
\* tell the datagrams apart.
Header(i) == wire[i].part # "payload"
StreamIsFramed ==
  /\ \A i \in DOMAIN wire :
       IF Header(i) THEN i < Len(wire) => ~Header(i + 1) /\ wire[i + 1].by = wire[i].by
       ELSE i > 1 /\ Header(i - 1) /\ wire[i - 1].by = wire[i].by
  /\ \A i \in DOMAIN wire : Header(i) =>
       ((wire[i].part = "new")
          <=> format = "xudp" /\ \A j \in 1..(i - 1) : wire[j].target # wire[i].target)

\* The relay receives the peer's datagrams in order and without a gap: the
\* first frame that is not a datagram is the end, it is never skipped.
NoGap == \A i \in DOMAIN received : received[i] = i

\* What the comment in read_xudp_frame says of frames that are not UDP, that
\* they are skipped.  Broken: the reading loop ends on the None they return.
OtherFramesSkipped == format = "xudp" /\ reader = "ended" => last # "other_net"
=============================================================================
