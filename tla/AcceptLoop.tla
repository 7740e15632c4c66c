----------------------------- MODULE AcceptLoop -----------------------------
(***************************************************************************)
(* The life of a listening inbound: start binds the address and spawns the  *)
(* accept loop, the loop selects between the shutdown signal and the next   *)
(* connection and hands each connection to a task of its own, close sends   *)
(* the signal and aborts the loop without waiting for it.  Two inbounds     *)
(* follow each other on one address, as when the program is stopped and     *)
(* started again.                                                           *)
(*                                                                         *)
(* The abort takes effect when the loop is between two polls.  A client's   *)
(* connection waits in the kernel's backlog until it is accepted.           *)
(***************************************************************************)
EXTENDS Integers

CONSTANTS
  Backlog,   \* bound on connections waiting to be accepted,
  MaxConns   \* and on those accepted by one inbound

\* What tells the inbounds apart: whether start first builds a TLS acceptor
\* from files, where the address is bound, and whether an accept can fail.
Vless == [files |-> TRUE, bind |-> "start", fails |-> TRUE]
Trojan == [files |-> TRUE, bind |-> "start", fails |-> TRUE]
Vmess == [files |-> TRUE, bind |-> "start", fails |-> TRUE]
Tuic == [files |-> TRUE, bind |-> "start", fails |-> FALSE]
Shadowsocks == [files |-> FALSE, bind |-> "start", fails |-> TRUE]
Reality == [files |-> FALSE, bind |-> "start", fails |-> TRUE]
ShadowTls == [files |-> FALSE, bind |-> "start", fails |-> TRUE]
AnyTls == [files |-> FALSE, bind |-> "task", fails |-> FALSE]
Kinds == {Vless, Trojan, Vmess, Tuic, Shadowsocks, Reality, ShadowTls, AnyTls}

I == 1..2

VARIABLES
  kind,     \* of each inbound
  status,   \* what the engine knows: "new", "ok", "failed", "closed"
  task,     \* the spawned task: "none", "unbound", "parked", "polling", "ended"
  shutdown, \* the watch channel's value
  aborted,  \* the task's handle was aborted
  port,     \* the inbound that has the address bound, or 0
  backlog,
  conns,    \* connections each inbound serves
  broken    \* an accept failed
vars == <<kind, status, task, shutdown, aborted, port, backlog, conns, broken>>

TypeOK ==
  /\ kind \in [I -> Kinds] /\ status \in [I -> {"new", "ok", "failed", "closed"}]
  /\ task \in [I -> {"none", "unbound", "parked", "polling", "ended"}]
  /\ shutdown \in [I -> BOOLEAN] /\ aborted \in [I -> BOOLEAN] /\ broken \in [I -> BOOLEAN]
  /\ port \in 0..2 /\ backlog \in 0..Backlog /\ conns \in [I -> 0..MaxConns]

Init ==
  /\ \E k \in Kinds : kind = [i \in I |-> k]
  /\ status = [i \in I |-> "new"] /\ task = [i \in I |-> "none"]
  /\ shutdown = [i \in I |-> FALSE] /\ aborted = [i \in I |-> FALSE] /\ broken = [i \in I |-> FALSE]
  /\ port = 0 /\ backlog = 0 /\ conns = [i \in I |-> 0]
-----------------------------------------------------------------------------
\* start of the second inbound comes after close of the first has returned.
MayStart(i) == status[i] = "new" /\ \A j \in I : j < i => status[j] \in {"failed", "closed"}

StartFails(i) ==
  /\ MayStart(i) /\ (kind[i].files \/ (kind[i].bind = "start" /\ port # 0))
  /\ status' = [status EXCEPT ![i] = "failed"]
  /\ UNCHANGED <<kind, task, shutdown, aborted, port, backlog, conns, broken>>

Start(i) ==
  /\ MayStart(i) /\ status' = [status EXCEPT ![i] = "ok"]
  /\ \/ kind[i].bind = "task" /\ task' = [task EXCEPT ![i] = "unbound"] /\ UNCHANGED port
     \/ kind[i].bind = "start" /\ port = 0 /\ port' = i /\ task' = [task EXCEPT ![i] = "parked"]
  /\ UNCHANGED <<kind, shutdown, aborted, backlog, conns, broken>>

\* anytls binds in the task; an address in use is logged there, and is no
\* error of start.
Listen(i) ==
  /\ task[i] = "unbound" /\ ~aborted[i]
  /\ IF port = 0 THEN port' = i /\ task' = [task EXCEPT ![i] = "parked"]
                 ELSE task' = [task EXCEPT ![i] = "ended"] /\ UNCHANGED port
  /\ UNCHANGED <<kind, status, shutdown, aborted, backlog, conns, broken>>

\* The loop's task is dropped, its socket with it; the kernel resets what waits.
End(i) ==
  /\ task' = [task EXCEPT ![i] = "ended"]
  /\ IF port = i THEN port' = 0 /\ backlog' = 0 ELSE UNCHANGED <<port, backlog>>

Connect ==
  /\ port # 0 /\ backlog < Backlog /\ backlog' = backlog + 1
  /\ UNCHANGED <<kind, status, task, shutdown, aborted, port, conns, broken>>

Wake(i) ==
  /\ task[i] = "parked" /\ ~aborted[i] /\ (shutdown[i] \/ backlog > 0)
  /\ task' = [task EXCEPT ![i] = "polling"]
  /\ UNCHANGED <<kind, status, shutdown, aborted, port, backlog, conns, broken>>

Park(i) ==
  /\ task[i] = "polling" /\ ~shutdown[i] /\ backlog = 0
  /\ task' = [task EXCEPT ![i] = "parked"]
  /\ UNCHANGED <<kind, status, shutdown, aborted, port, backlog, conns, broken>>

\* Mutant of Accept: the connection is served in the loop, and its error ends it.
AcceptInline(i) ==
  /\ task[i] = "polling" /\ backlog > 0 /\ conns[i] < MaxConns
  /\ End(i) /\ UNCHANGED <<kind, status, shutdown, aborted, conns, broken>>

\* Both branches of the select may be ready: either may be taken.
Accept(i) ==
  /\ task[i] = "polling" /\ backlog > 0 /\ conns[i] < MaxConns
  /\ backlog' = backlog - 1 /\ conns' = [conns EXCEPT ![i] = @ + 1]
  /\ UNCHANGED <<kind, status, task, shutdown, aborted, port, broken>>

\* The first accept that fails is the last: the loop breaks.
AcceptFails(i) ==
  /\ task[i] = "polling" /\ kind[i].fails
  /\ broken' = [broken EXCEPT ![i] = TRUE] /\ End(i)
  /\ UNCHANGED <<kind, status, shutdown, aborted, conns>>

SeeShutdown(i) ==
  /\ task[i] = "polling" /\ shutdown[i] /\ End(i)
  /\ UNCHANGED <<kind, status, shutdown, aborted, conns, broken>>

\* serve_vless and its like return; their errors are logged.
ConnEnds(i) ==
  /\ conns[i] > 0 /\ conns' = [conns EXCEPT ![i] = @ - 1]
  /\ UNCHANGED <<kind, status, task, shutdown, aborted, port, backlog, broken>>

\* Mutant of Close: the handle is dropped, which detaches the loop.
CloseDetaches(i) ==
  /\ status[i] = "ok" /\ status' = [status EXCEPT ![i] = "closed"]
  /\ UNCHANGED <<kind, task, shutdown, aborted, port, backlog, conns, broken>>

Close(i) ==
  /\ status[i] = "ok" /\ status' = [status EXCEPT ![i] = "closed"]
  /\ shutdown' = [shutdown EXCEPT ![i] = TRUE] /\ aborted' = [aborted EXCEPT ![i] = TRUE]
  /\ UNCHANGED <<kind, task, port, backlog, conns, broken>>

\* The runtime drops an aborted task between its polls.
Drop(i) ==
  /\ aborted[i] /\ task[i] \in {"unbound", "parked"} /\ End(i)
  /\ UNCHANGED <<kind, status, shutdown, aborted, conns, broken>>

Step(i) ==
  \/ StartFails(i) \/ Start(i) \/ Listen(i) \/ Wake(i) \/ Park(i) \/ Accept(i) \/ AcceptFails(i)
  \/ SeeShutdown(i) \/ ConnEnds(i) \/ Close(i) \/ Drop(i)

Next == Connect \/ \E i \in I : Step(i)

\* The runtime drops aborted tasks, and a select with both branches ready takes
\* each of them in its turn.
Spec == Init /\ [][Next]_vars /\ \A i \in I : WF_vars(SeeShutdown(i)) /\ WF_vars(Drop(i))
-----------------------------------------------------------------------------
(* Properties *)

\* From start to close an inbound has its address, whatever its connections do:
\* only a failed accept takes it away.  (anytls may never get it: its start
\* does not bind.)
HoldsItsAddress ==
  \A i \in I : status[i] = "ok" /\ kind[i].bind = "start" /\ ~broken[i] => port = i

\* close gives the address back, even when it comes while the loop is being
\* polled and more connections wait.  Not before it returns: a start that
\* follows at once can still fail.
Closed(i) == status[i] = "closed"
Released(i) == port # i
AddressComesBack == \A i \in I : Closed(i) ~> Released(i)
-----------------------------------------------------------------------------
(* Inductive invariant *)

\* A loop that listens has the address; from start to close nothing stops one
\* that bound it in start but a failed accept.
Listening(i) == task[i] \in {"parked", "polling"}
IInv ==
  /\ DOMAIN kind = I /\ status \in [I -> {"new", "ok", "failed", "closed"}]
  /\ task \in [I -> {"none", "unbound", "parked", "polling", "ended"}]
  /\ shutdown \in [I -> BOOLEAN] /\ aborted \in [I -> BOOLEAN] /\ broken \in [I -> BOOLEAN]
  /\ \A i \in I :
       /\ Listening(i) => port = i
       /\ status[i] \in {"new", "ok"} => ~shutdown[i] /\ ~aborted[i]
       /\ status[i] = "ok" /\ kind[i].bind = "start" /\ ~broken[i] => Listening(i)

\* A step of inbound i after which the invariant holds of i, and which takes
\* the address from no other.
Becomes(i, st, t, sh, ab, br) ==
  /\ UNCHANGED kind /\ (port' = port \/ port \in {0, i})
  /\ status' = [status EXCEPT ![i] = st] /\ task' = [task EXCEPT ![i] = t]
  /\ shutdown' = [shutdown EXCEPT ![i] = sh] /\ aborted' = [aborted EXCEPT ![i] = ab]
  /\ broken' = [broken EXCEPT ![i] = br]
  /\ t \in {"parked", "polling"} => port' = i
  /\ st \in {"new", "ok"} => ~sh /\ ~ab
  /\ st = "ok" /\ kind[i].bind = "start" /\ ~br => t \in {"parked", "polling"}
=============================================================================
