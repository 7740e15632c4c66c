----------------------------- MODULE DnsExchange -----------------------------
(***************************************************************************)
(* The dns inbound (dns_inbound.rs) and the raw exchange behind it          *)
(* (exchange_inner in rsb-dns/src/lib.rs).  The receive loop copies each    *)
(* query out of its one buffer and spawns a task, which asks the servers of *)
(* the router in order; a "resolved" server hands the query to the router   *)
(* another service has registered (resolved_registry.rs), for good and only *)
(* once.  Without an answer the task looks the name up and builds a         *)
(* response of its own.                                                     *)
(***************************************************************************)
EXTENDS Integers, Sequences

CONSTANTS
  Peers,       \* clients, each with one query outstanding
  Ids,         \* query ids
  Tasks,       \* bound on concurrent tasks
  Configs,     \* server lists of the main router: "udp", "stream", "fakeip", "resolved"
  Service,     \* the server list of the registered router
  MaxQueries,  \* bound on queries
  MaxToggles,  \* bound on registrations
  None

NoQuery == [peer |-> None, id |-> 0]

VARIABLES
  main,        \* the server list of the router
  registered,  \* whether the service is in the registry
  toggles,
  running,     \* whether the receive loop runs
  queries,     \* queries sent so far
  arrived,     \* datagrams at the socket
  buf,         \* the buffer of the loop
  task,        \* "free", "next", "udp", "stream", "lookup", "reply"
  query,       \* each task's copy of its query
  onService,   \* whether the task asks the service's router
  pos,         \* server in turn
  answered     \* id each peer's last query had, and the id of its answer
vars == <<main, registered, toggles, running, queries, arrived, buf, task, query, onService, pos, answered>>
env == <<main, registered, toggles, running, queries, arrived, buf>>

TypeOK ==
  /\ main \in Configs /\ registered \in BOOLEAN /\ toggles \in 0..MaxToggles /\ running \in BOOLEAN
  /\ queries \in 0..MaxQueries /\ arrived \subseteq [peer : Peers, id : Ids]
  /\ buf \in [peer : Peers, id : Ids] \cup {NoQuery}
  /\ task \in [Tasks -> {"free", "next", "udp", "stream", "lookup", "reply"}]
  /\ query \in [Tasks -> [peer : Peers, id : Ids] \cup {NoQuery}]
  /\ onService \in [Tasks -> BOOLEAN] /\ \A t \in Tasks : pos[t] \in 1..Len(main) + Len(Service) + 1
  /\ answered \in [Peers -> [asked : Ids \cup {0}, got : Ids \cup {0}]]

Init ==
  /\ main \in Configs /\ registered \in BOOLEAN /\ toggles = 0 /\ running = TRUE /\ queries = 0
  /\ arrived = {} /\ buf = NoQuery /\ task = [t \in Tasks |-> "free"]
  /\ query = [t \in Tasks |-> NoQuery] /\ onService = [t \in Tasks |-> FALSE]
  /\ pos = [t \in Tasks |-> 1] /\ answered = [p \in Peers |-> [asked |-> 0, got |-> 0]]

Set(f, t, v) == [f EXCEPT ![t] = v]
Servers(t) == IF onService[t] THEN Service ELSE main
Busy(t) == task[t] # "free"
Quiet(p) == (\A q \in arrived : q.peer # p) /\ \A t \in Tasks : task[t] = "free" \/ query[t].peer # p
-----------------------------------------------------------------------------
\* A client asks again once its last query is over.
Ask(p) ==
  /\ queries < MaxQueries /\ Quiet(p) /\ queries' = queries + 1
  /\ \E id \in Ids \ {answered[p].asked} :
       /\ arrived' = arrived \cup {[peer |-> p, id |-> id]}
       /\ answered' = Set(answered, p, [asked |-> id, got |-> 0])
  /\ UNCHANGED <<main, registered, toggles, running, buf, task, query, onService, pos>>

\* recv_from fills the buffer; the copy is made before the task is spawned.
Receive(t) ==
  /\ running /\ task[t] = "free"
  /\ \E q \in arrived :
       /\ arrived' = arrived \ {q} /\ buf' = q
       /\ query' = Set(query, t, q)
  /\ task' = Set(task, t, "next") /\ pos' = Set(pos, t, 1) /\ onService' = Set(onService, t, FALSE)
  /\ UNCHANGED <<main, registered, toggles, running, queries, answered>>

\* DnsInbound::close; tasks already spawned go on.
Close ==
  /\ running /\ running' = FALSE
  /\ UNCHANGED <<main, registered, toggles, queries, arrived, buf, task, query, onService, pos, answered>>

\* register_resolved_service and unregister_resolved_service
Toggle ==
  /\ toggles < MaxToggles /\ toggles' = toggles + 1 /\ registered' = ~registered
  /\ UNCHANGED <<main, running, queries, arrived, buf, task, query, onService, pos, answered>>

\* Mutant of NextServer: a resolved server of the service is followed too.
NextServerFollows(t) ==
  /\ task[t] = "next"
  /\ IF pos[t] > Len(Servers(t)) THEN task' = Set(task, t, "lookup") /\ UNCHANGED <<pos, onService>>
     ELSE LET s == Servers(t)[pos[t]] IN
       \/ s \in {"udp", "stream"} /\ task' = Set(task, t, s) /\ UNCHANGED <<pos, onService>>
       \/ s = "fakeip" /\ task' = Set(task, t, "lookup") /\ UNCHANGED <<pos, onService>>
       \/ /\ s = "resolved" /\ registered
          /\ onService' = Set(onService, t, TRUE) /\ pos' = Set(pos, t, 1) /\ UNCHANGED task
       \/ s = "resolved" /\ ~registered /\ task' = Set(task, t, "lookup") /\ UNCHANGED <<pos, onService>>
  /\ UNCHANGED <<env, query, answered>>

\* One turn of the loop over the servers.  The end of the list, a fakeip
\* server, and a resolved one that is not registered, end the exchange with
\* an error; the service's own resolved servers are skipped.
NextServer(t) ==
  /\ task[t] = "next"
  /\ IF pos[t] > Len(Servers(t)) THEN task' = Set(task, t, "lookup") /\ UNCHANGED <<pos, onService>>
     ELSE LET s == Servers(t)[pos[t]] IN
       \/ s \in {"udp", "stream"} /\ task' = Set(task, t, s) /\ UNCHANGED <<pos, onService>>
       \/ s = "fakeip" /\ task' = Set(task, t, "lookup") /\ UNCHANGED <<pos, onService>>
       \/ /\ s = "resolved" /\ onService[t]
          /\ pos' = Set(pos, t, pos[t] + 1) /\ UNCHANGED <<task, onService>>
       \/ /\ s = "resolved" /\ ~onService[t] /\ registered
          /\ onService' = Set(onService, t, TRUE) /\ pos' = Set(pos, t, 1) /\ UNCHANGED task
       \/ /\ s = "resolved" /\ ~onService[t] /\ ~registered
          /\ task' = Set(task, t, "lookup") /\ UNCHANGED <<pos, onService>>
  /\ UNCHANGED <<env, query, answered>>

\* query_udp_raw, query_tcp_raw, query_dot_raw, query_doh_raw: an answer, or
\* an error (for udp at the latest after the timeout) and the next server.
\* Each query has a socket of its own.
Served(t) ==
  /\ task[t] \in {"udp", "stream"} /\ task' = Set(task, t, "reply")
  /\ UNCHANGED <<env, query, onService, pos, answered>>
Failed(t) ==
  /\ task[t] \in {"udp", "stream"}
  /\ task' = Set(task, t, "next") /\ pos' = Set(pos, t, pos[t] + 1)
  /\ UNCHANGED <<env, query, onService, answered>>

\* handle_dns_query without an answer: lookup and build_response, or no reply.
Lookup(t) ==
  /\ task[t] = "lookup" /\ task' \in {Set(task, t, "reply"), Set(task, t, "free")}
  /\ query' = IF task'[t] = "free" THEN Set(query, t, NoQuery) ELSE query
  /\ UNCHANGED <<env, onService, pos, answered>>

\* Mutant of Reply: the query is read from the buffer of the loop.
ReplyFromBuffer(t) ==
  /\ task[t] = "reply" /\ task' = Set(task, t, "free") /\ query' = Set(query, t, NoQuery)
  /\ answered' = [answered EXCEPT ![query[t].peer].got = buf.id]
  /\ UNCHANGED <<env, onService, pos>>

\* The response carries the id of the task's query to the peer it came from.
Reply(t) ==
  /\ task[t] = "reply" /\ task' = Set(task, t, "free") /\ query' = Set(query, t, NoQuery)
  /\ answered' = [answered EXCEPT ![query[t].peer].got = query[t].id]
  /\ UNCHANGED <<env, onService, pos>>

Step(t) == NextServer(t) \/ Lookup(t) \/ Reply(t) \/ (task[t] = "udp" /\ Failed(t))
Next ==
  \/ \E p \in Peers : Ask(p)
  \/ \E t \in Tasks : \/ Receive(t) \/ NextServer(t) \/ Served(t) \/ Failed(t) \/ Lookup(t) \/ Reply(t)
  \/ Close \/ Toggle
Spec == Init /\ [][Next]_vars /\ \A t \in Tasks : WF_vars(Step(t))
-----------------------------------------------------------------------------
\* A client gets the answer to the query it has outstanding, whatever other
\* queries arrive while its task waits for a server.
OwnAnswer == \A p \in Peers : answered[p].got \in {0, answered[p].asked}

\* Inductive form of OwnAnswer: what has arrived and what a task works on is
\* the query that its client has outstanding.
Outstanding(q) == q \in [peer : Peers, id : Ids] /\ answered[q.peer].asked = q.id
IInv ==
  /\ task \in [Tasks -> {"free", "next", "udp", "stream", "lookup", "reply"}]
  /\ DOMAIN query = Tasks
  /\ answered \in [Peers -> [asked : Ids \cup {0}, got : Ids \cup {0}]]
  /\ \A q \in arrived : Outstanding(q)
  /\ \A t \in Tasks : Busy(t) => Outstanding(query[t])
  /\ OwnAnswer

\* A query is answered or given up, though services come, go and refer to
\* each other, unless a stream server neither answers nor closes: those have
\* no timeout.
Over(t) == task[t] \in {"free", "stream"}
QueriesEnd == \A t \in Tasks : Busy(t) ~> Over(t)
=============================================================================
