------------------------------ MODULE TcpRelay ------------------------------
(***************************************************************************)
(* One TCP stream on the RSQ, RST and Hysteria2 servers (handle_tcp_stream  *)
(* and the copy loops of the three relay.rs): the request is read, the      *)
(* target dialled, and two loops copy.  A loop reads, checks the quota,     *)
(* writes, and records.                                                     *)
(*                                                                         *)
(* On RSQ whatever follows the request is kept for the loop, a read has an  *)
(* idle limit, and the first loop to end ends the relay; on the other two   *)
(* the client waits for the reply, and the first loop to end, if it did not *)
(* fail, is followed by waiting for the other.                              *)
(*                                                                         *)
(* The bytes of a side are the chunks 1, 2, ... in the order it sent them.  *)
(***************************************************************************)
EXTENDS Integers, Sequences

CONSTANTS MaxUp, MaxDown   \* chunks the client and the target send

Dirs == {"up", "down"}
Other(d) == IF d = "up" THEN "down" ELSE "up"
MaxChunks(d) == IF d = "up" THEN MaxUp ELSE MaxDown

VARIABLES
  server,   \* "rsq", "rst" or "hy2"
  pc,       \* "header", "dial", "reply", "copy", "await", "close" or "done"
  reply,    \* what the client was told: "none", "ok" or "err"
  sent,     \* per direction: chunks the sending side has sent
  eof,      \* per direction: whether it has closed its side
  prefix,   \* chunks that came in one read with the request
  taken,    \* per direction: chunks read so far
  loop,     \* per direction: "read", "quota", "write", "record", "ok" or "error"
  got,      \* per direction: chunks written to the receiving side
  recorded, \* per direction: chunks recorded as traffic
  quota,    \* whether the user's quota still allows traffic
  stalled,  \* directions whose receiver no longer reads
  missed,   \* history: directions that, on RSQ, wait while the other one gets bytes
  idled     \* history: the direction whose idle limit ended the relay

peers == <<sent, eof, stalled, quota>>
copying == <<taken, loop, got, recorded, missed, idled>>
vars == <<server, pc, reply, prefix, peers, copying>>

TypeOK ==
  /\ server \in {"rsq", "rst", "hy2"} /\ reply \in {"none", "ok", "err"}
  /\ pc \in {"header", "dial", "reply", "copy", "await", "close", "done"}
  /\ sent \in [Dirs -> Nat] /\ eof \in [Dirs -> BOOLEAN] /\ prefix \in Nat
  /\ taken \in [Dirs -> Nat] /\ recorded \in [Dirs -> Nat]
  /\ loop \in [Dirs -> {"read", "quota", "write", "record", "ok", "error"}]
  /\ got \in [Dirs -> Seq(Nat)]
  /\ quota \in BOOLEAN /\ stalled \in SUBSET Dirs
  /\ missed \in SUBSET Dirs /\ idled \in Dirs \cup {"none"}

Init ==
  /\ server \in {"rsq", "rst", "hy2"} /\ pc = "header" /\ reply = "none"
  /\ sent = [d \in Dirs |-> 0] /\ eof = [d \in Dirs |-> FALSE]
  /\ prefix = 0 /\ taken = [d \in Dirs |-> 0]
  /\ loop = [d \in Dirs |-> "read"] /\ got = [d \in Dirs |-> <<>>]
  /\ recorded = [d \in Dirs |-> 0] /\ quota = TRUE
  /\ stalled = {} /\ missed = {} /\ idled = "none"
-----------------------------------------------------------------------------
(* The client, the target and other relays of the user; what they do after   *)
(* the handler has ended changes nothing here.                               *)

Copying == pc \in {"copy", "await"}
Opening == pc \in {"header", "dial", "reply"}

Send(d) ==
  /\ Copying \/ (d = "up" /\ server = "rsq" /\ Opening)
  /\ ~eof[d] /\ sent[d] < MaxChunks(d)
  /\ sent' = [sent EXCEPT ![d] = @ + 1]
  /\ UNCHANGED <<server, pc, reply, prefix, eof, stalled, quota, copying>>

Finish(d) ==
  /\ Copying \/ (d = "up" /\ Opening)
  /\ ~eof[d] /\ eof' = [eof EXCEPT ![d] = TRUE]
  /\ UNCHANGED <<server, pc, reply, prefix, sent, stalled, quota, copying>>

StopReading(d) ==
  /\ Copying /\ d \notin stalled /\ stalled' = stalled \cup {d}
  /\ UNCHANGED <<server, pc, reply, prefix, sent, eof, quota, copying>>

UseUpQuota ==
  /\ Copying /\ quota /\ quota' = FALSE
  /\ UNCHANGED <<server, pc, reply, prefix, sent, eof, stalled, copying>>
-----------------------------------------------------------------------------
(* Request and dial *)

Goto(from, to) == pc = from /\ pc' = to /\ UNCHANGED <<server, peers>>

\* Mutant of ReadOpen: what follows the request is dropped with the buffer.
ReadOpenOnly ==
  /\ Goto("header", "dial") /\ prefix' = 0
  /\ \E n \in 0..sent["up"] : taken' = [taken EXCEPT !["up"] = n]
  /\ UNCHANGED <<reply, loop, got, recorded, missed, idled>>

\* The request is complete; the rest of the buffer becomes the prefix.
ReadOpen ==
  /\ Goto("header", "dial") /\ \E n \in 0..sent["up"] : prefix' = n
  /\ UNCHANGED <<reply, copying>>

\* Closed early, broken, or (RST and Hysteria2) a target that does not
\* resolve: the stream is dropped.  RSQ answers another frame, or a large one.
BadOpen ==
  /\ Goto("header", "done") /\ UNCHANGED <<prefix, copying>>
  /\ UNCHANGED reply \/ (server = "rsq" /\ reply' = "err")

\* resolve_target, is_forbidden_dest and connect; a failure is answered, but
\* on Hysteria2 it is an error of the handler, which drops the stream.
Connect ==
  /\ \/ Goto("dial", "reply") /\ UNCHANGED reply
     \/ Goto("dial", "done") /\ reply' = IF server = "hy2" THEN reply ELSE "err"
  /\ UNCHANGED <<prefix, copying>>

ReplyOk == Goto("reply", "copy") /\ reply' = "ok" /\ UNCHANGED <<prefix, copying>>
-----------------------------------------------------------------------------
(* The copy loops *)

AtEnd(d) == loop[d] \in {"ok", "error"}
Polled(d) == pc = "copy" \/ (pc = "await" /\ AtEnd(Other(d)))
Copy(d, from, to) ==
  /\ Polled(d) /\ loop[d] = from /\ loop' = [loop EXCEPT ![d] = to]
  /\ UNCHANGED <<server, pc, reply, prefix, peers>>

\* A chunk, on RSQ of the prefix first (PrefixedRecvStream).
Read(d) ==
  /\ Copy(d, "read", "quota") /\ taken[d] < sent[d]
  /\ taken' = [taken EXCEPT ![d] = @ + 1]
  /\ missed' = IF server = "rsq" THEN missed \cup {Other(d)} ELSE missed
  /\ UNCHANGED <<got, recorded, idled>>

\* Mutant of ReadEof: the end of the stream is taken for one before it is reached.
ReadEofEarly(d) ==
  /\ Copy(d, "read", "ok") /\ eof[d]
  /\ UNCHANGED <<taken, got, recorded, missed, idled>>

ReadEof(d) ==
  /\ Copy(d, "read", "ok") /\ eof[d] /\ taken[d] = sent[d]
  /\ UNCHANGED <<taken, got, recorded, missed, idled>>

\* read_with_idle: RELAY_IDLE_TIMEOUT without a byte in this direction.
ReadIdle(d) ==
  /\ server = "rsq" /\ Copy(d, "read", "ok") /\ ~eof[d] /\ taken[d] = sent[d]
  /\ idled' = d
  /\ UNCHANGED <<taken, got, recorded, missed>>

\* user_quota_ok; a refused chunk is dropped and the loop ends.
CheckQuota(d) ==
  /\ Copy(d, "quota", IF quota THEN "write" ELSE "ok")
  /\ UNCHANGED <<taken, got, recorded, missed, idled>>

\* Mutant of WriteAll: recorded before it is known to be written.
WriteAllRecorded(d) ==
  /\ Copy(d, "write", "record") /\ recorded' = [recorded EXCEPT ![d] = taken[d]]
  /\ UNCHANGED <<taken, got, missed, idled>>

\* throttle or the pacer, and write_all.
WriteAll(d) ==
  /\ Copy(d, "write", "record") /\ d \notin stalled
  /\ got' = [got EXCEPT ![d] = Append(@, taken[d])]
  /\ UNCHANGED <<taken, recorded, missed, idled>>

\* record_traffic
Record(d) ==
  /\ Copy(d, "record", "read") /\ recorded' = [recorded EXCEPT ![d] = @ + 1]
  /\ missed' = missed \ {d}
  /\ UNCHANGED <<taken, got, idled>>

\* A read or a write fails: the stream was reset or the peer is gone.
Fails(d) ==
  /\ \E at \in {"read", "write"} : Copy(d, at, "error")
  /\ UNCHANGED <<taken, got, recorded, missed, idled>>

CopyStep(d) == Read(d) \/ ReadEof(d) \/ ReadIdle(d) \/ CheckQuota(d) \/ WriteAll(d) \/ Record(d)
RsqCopy(d) == server = "rsq" /\ CopyStep(d)
RstCopy(d) == server = "rst" /\ CopyStep(d)
Hy2Copy(d) == server = "hy2" /\ CopyStep(d)
-----------------------------------------------------------------------------
(* The end *)

\* Mutant of SelectRsq: the relay waits for both directions to end.
SelectBoth ==
  /\ server = "rsq" /\ \A d \in Dirs : AtEnd(d)
  /\ Goto("copy", "close") /\ UNCHANGED <<reply, prefix, copying>>

\* select! on RSQ: either loop ends and the other is dropped where it stands,
\* which is at an await: a write, a read or a sleep of the pacer.
SelectRsq ==
  /\ server = "rsq" /\ \E d \in Dirs : AtEnd(d)
  /\ Goto("copy", "close") /\ UNCHANGED <<reply, prefix, copying>>

\* shutdown, finish, SO_LINGER 0, and the relay session is dropped.
CloseAll == Goto("close", "done") /\ UNCHANGED <<reply, prefix, copying>>

\* select! on RST and Hysteria2: an error of the loop that ends first ends the
\* handler; after an orderly end the other is awaited and its result ignored.
Select ==
  /\ server # "rsq" /\ UNCHANGED <<reply, prefix, copying>>
  /\ \/ (\E d \in Dirs : loop[d] = "ok") /\ Goto("copy", "await")
     \/ (\E d \in Dirs : loop[d] = "error") /\ Goto("copy", "done")
     \/ (\A d \in Dirs : AtEnd(d)) /\ Goto("await", "done")

Handler == ReadOpen \/ BadOpen \/ Connect \/ ReplyOk \/ SelectRsq \/ CloseAll \/ Select

Next ==
  \/ \E d \in Dirs : Send(d) \/ Finish(d) \/ StopReading(d)
  \/ \E d \in Dirs : RsqCopy(d) \/ RstCopy(d) \/ Hy2Copy(d) \/ Fails(d)
  \/ UseUpQuota \/ Handler

\* The handler is a spawned task.
Fairness == WF_vars(Handler) /\ \A d \in Dirs : WF_vars(CopyStep(d))
Spec == Init /\ [][Next]_vars /\ Fairness
-----------------------------------------------------------------------------
\* Each side receives what the other sent, from the first chunk on, in order
\* and without gaps: also the chunks that arrived together with the request.
NothingSkipped == \A d \in Dirs : got[d] = [i \in 1..Len(got[d]) |-> i]

\* What is recorded for the user was written, and what was written is
\* recorded but for the chunk the end of the relay interrupted.
RecordedIsWritten ==
  \A d \in Dirs : recorded[d] <= Len(got[d]) /\ Len(got[d]) <= recorded[d] + 1

\* On RST and Hysteria2 a side that has closed still receives all the other
\* one sends until it closes too: the relay ends after an orderly end of both
\* directions, a failure, or when the quota is used up.
OrderlyEndIsComplete ==
  (server # "rsq" /\ pc = "done" /\ reply = "ok" /\ quota /\ \A d \in Dirs : loop[d] # "error")
     => \A d \in Dirs : eof[d] /\ Len(got[d]) = sent[d]

\* A relay ends.  On RSQ an end of stream or the idle limit of one direction is
\* enough, unless both receivers have stopped reading: a write has no time
\* limit.  On the others one closed side is not enough: its end is not passed
\* on, and the handler waits for the other one.
ToEnd == Copying /\ IF server = "rsq" THEN stalled # Dirs ELSE \A d \in Dirs : eof[d]
EndedOrStalled == pc = "done" \/ IF server = "rsq" THEN stalled = Dirs ELSE stalled # {}
RelayEnds == ToEnd ~> EndedOrStalled

\* "No bytes either direction -> tear down" (relay.rs:19): the idle limit
\* ends a relay only when the other direction has been quiet as well.
IdleMeansBothQuiet == idled \notin missed

\* What makes the first three inductive: where a loop stands says how many of
\* the chunks it has taken are written and recorded; on RST and Hysteria2 a
\* loop that ended in order with quota left has carried all, and a handler
\* that answered ends only after an error or after both loops.
InPlace ==
  \A d \in Dirs :
    /\ Len(got[d]) <= taken[d] /\ taken[d] <= sent[d]
    /\ recorded[d] = IF loop[d] = "record" THEN Len(got[d]) - 1 ELSE Len(got[d])
    /\ loop[d] \in {"read", "record"} => taken[d] = Len(got[d])
    /\ loop[d] \in {"quota", "write"} => taken[d] = Len(got[d]) + 1
    /\ loop[d] = "ok" /\ quota /\ server # "rsq" => eof[d] /\ Len(got[d]) = sent[d]
EndsForCause ==
  /\ (Opening => reply = "none") /\ (pc = "close" => server = "rsq")
  /\ (server # "rsq" /\ pc = "done" /\ reply = "ok")
        => (\E d \in Dirs : loop[d] = "error") \/ \A d \in Dirs : loop[d] = "ok"
IInv == TypeOK /\ NothingSkipped /\ InPlace /\ EndsForCause
=============================================================================
