----------------------------- MODULE MCInbound -----------------------------
(***************************************************************************)
(* A request and what carries it: the two routings of one CONNECT, checked *)
(* for every configuration of up to two rules over a private and a public  *)
(* address, the listener and the life of the clients, the handshakes and   *)
(* record streams of the inbounds and of the outbounds that face them,     *)
(* datagrams in fragments, over streams and through the obfuscated socket, *)
(* the reply to a TCP request, and TUN; with the proofs about the routings, *)
(* the clients, the listeners and TUN.                                      *)
(* One run checks several components that share no state: a behaviour is    *)
(* one of the component that part names.  The components proved about have  *)
(* variables and constants of their own; the others are on the instance     *)
(* given here, and the variables v1, v2, ... hold the state of the one      *)
(* that runs.                                                               *)
(***************************************************************************)
EXTENDS ConnectRoute, FiniteSetTheorems, TLAPS

CONSTANTS
  freedom, node,                                     \* a direct outbound and another
  home, far, any,                                    \* addresses
  Clients, MaxActive, HandshakePermits, DialPermits, \* of an inbound
  Backlog, MaxConns,                                 \* of the listeners
  MaxGen, Attempts, Targets                          \* of TUN

\* Clients are finitely many, and bounds are numbers.
ASSUME ClientsAssumption == IsFiniteSet(Clients) /\ HandshakePermits \in Nat /\ DialPermits \in Nat
ASSUME TunAssumption == MaxGen \in Nat /\ Targets \in Nat

\* For TLC: the outbounds, addresses and rules.
MCTags == {freedom, node}
MCDirectTags == {freedom}
MCAddrs == {any, home, far}
MCPrivateAddrs == {home}

\* Fields a kind does not use are fixed.
MCRules ==
  [port : BOOLEAN, kind : {"private", "only"},
   names : {FALSE}, ips : {{}}, geoip : {{}}, tag : MCTags]
  \cup
  [port : {FALSE}, kind : {"geo"},
   names : BOOLEAN, ips : {{}, {far}}, geoip : {{}, {any, home}}, tag : MCTags]
  \cup
  [port : {FALSE}, kind : {"list"},
   names : BOOLEAN, ips : {{}, {far}, {any}}, geoip : {{}}, tag : MCTags]

VARIABLES
  part,  \* the component that runs
  open, active, hsFree, dialFree, clientPc, asked, direct, early, gone,
  tracked, lost,
  listens, status, loop, shutdown, aborted, port, backlog, conns, broken,
  gen, tunPc, tries, installed, recorded, reader, dev, table, flow, up, app,
  remote,
  v1, v2, v3, v4, v5, v6, v7, v8, v9, v10, v11, v12, v13, v14, v15, v16, v17,
  v18, v19, v20, v21, v22  \* of the others

\* The registers from the n-th on, which a component with fewer does not use.
from19 == <<v19, v20, v21, v22>>
from17 == <<v17, v18, from19>>
from11 == <<v11, v12, v13, v14, v15, v16, from17>>
from10 == <<v10, from11>>
from7 == <<v7, v8, v9, from10>>
from6 == <<v6, from7>>
from5 == <<v5, from6>>
from1 == <<v1, v2, v3, v4, from5>>
\* The registers from the n-th on while they are not used.
Idle19 == v19 = "idle" /\ v20 = "idle" /\ v21 = "idle" /\ v22 = "idle"
Idle17 == v17 = "idle" /\ v18 = "idle" /\ Idle19
Idle11 ==
  /\ v11 = "idle" /\ v12 = "idle" /\ v13 = "idle" /\ v14 = "idle" /\ v15 = "idle"
  /\ v16 = "idle" /\ Idle17
Idle10 == v10 = "idle" /\ Idle11
Idle7 == v7 = "idle" /\ v8 = "idle" /\ v9 = "idle" /\ Idle10
Idle6 == v6 = "idle" /\ Idle7
Idle5 == v5 = "idle" /\ Idle6
Idle1 == v1 = "idle" /\ v2 = "idle" /\ v3 = "idle" /\ v4 = "idle" /\ Idle5

\* The state of each component.
ofClients == <<open, active, hsFree, dialFree, clientPc, asked, direct,
               early, gone, tracked, lost>>
ofAccept == <<listens, status, loop, shutdown, aborted, port, backlog, conns,
              broken>>
ofTun == <<gen, tunPc, tries, installed, recorded, reader, dev, table, flow,
           up, app, remote>>
state == <<part, vars, ofClients, ofAccept, ofTun, from1>>
-----------------------------------------------------------------------------
(* The two routings of a request.                                           *)

\* A rule that does not see the placeholder cannot tell it from no address.
LEMMA PlaceholderIsNone ==
  ASSUME NEW r \in Rules, ~SeesPlaceholder(r)
  PROVE  Matches(r, Unspecified) <=> Matches(r, None)
BY RulesAssumption, AddrsAssumption, Zenon
   DEF Matches, RuleSetMatches, SeesPlaceholder, RuleType

\* Neither can a list of such rules.
LEMMA RouteOfPlaceholder ==
  ASSUME rules \in Seq(Rules), \A i \in DOMAIN rules : ~SeesPlaceholder(rules[i])
  PROVE  Route(Unspecified) = Route(None)
<1>1. ASSUME NEW i \in DOMAIN rules
      PROVE  Matches(rules[i], Unspecified) <=> Matches(rules[i], None)
  <2>1. rules[i] \in Rules /\ ~SeesPlaceholder(rules[i])
    OBVIOUS
  <2> QED BY <2>1, PlaceholderIsNone, Zenon
<1>2. {i \in DOMAIN rules : Matches(rules[i], Unspecified)}
        = {i \in DOMAIN rules : Matches(rules[i], None)}
  BY <1>1, Zenon
<1> QED BY <1>2, Zenon DEF Route

\* RuleRouter::route depends on nothing the steps change.
LEMMA RouteKept ==
  ASSUME UNCHANGED config, NEW a
  PROVE  Route(a)' = Route(a)
BY Zenon DEF config, Route, Matches, RuleSetMatches

\* The initial states satisfy the inductive invariant.
LEMMA InitIInv == Init => IInv
<1> SUFFICES ASSUME Init PROVE IInv
  BY Zenon
<1>1. rules \in Seq(Rules)
  <2>1. PICK n \in 0..MaxRules : rules \in [1..n -> Rules]
    BY Zenon DEF Init
  <2>2. n \in Nat
    BY MaxRulesAssumption
  <2> QED BY <2>1, <2>2
<1> QED BY <1>1, Zenon DEF Init, IInv, Placeholder, DirectNamesStayDirect

\* Every step of a request preserves it.
LEMMA StepIInv == IInv /\ [Next]_vars => IInv'
<1> SUFFICES ASSUME IInv, [Next]_vars PROVE IInv'
  BY Zenon
<1>1. UNCHANGED config
  BY Zenon DEF Next, vars, RouteTag, Resolve, Permit, DialTcp
<1>2. Route(None)' = Route(None)
  BY <1>1, RouteKept, Zenon
<1>3. rules' = rules /\ domain' = domain /\ dest' = dest
  BY <1>1, Zenon DEF config
<1>4. CASE RouteTag
  <2>1. domain => first' = Route(None)
    BY <1>4, Zenon DEF RouteTag, IInv, Placeholder
  <2> QED BY <1>2, <1>3, <1>4, <2>1, Zenon
          DEF RouteTag, IInv, Placeholder, DirectNamesStayDirect
<1>5. CASE Resolve
  BY <1>2, <1>3, <1>5, Zenon DEF Resolve, IInv, Placeholder, DirectNamesStayDirect, IsDirect
<1>6. CASE Permit
  BY <1>2, <1>3, <1>6, Zenon DEF Permit, IInv, Placeholder, DirectNamesStayDirect, IsDirect
<1>7. CASE DialTcp
  <2>1. Placeholder'
    BY <1>2, <1>3, <1>7, Zenon DEF DialTcp, IInv, Placeholder, IsDirect
  <2>2. ASSUME domain, IsDirect(first), \A i \in DOMAIN rules : ~SeesPlaceholder(rules[i])
        PROVE  second' = first
    <3>1. second' = Route(Unspecified)
      BY <1>7, <2>2, Zenon DEF DialTcp, IInv, Placeholder
    <3>2. Route(Unspecified) = Route(None)
      BY <2>2, RouteOfPlaceholder, Zenon DEF IInv, Placeholder
    <3>3. first = Route(None)
      BY <1>7, <2>2, Zenon DEF DialTcp, IInv, Placeholder
    <3> QED BY <3>1, <3>2, <3>3, Zenon
  <2>3. first' = first
    BY <1>7, Zenon DEF DialTcp
  <2>4. DirectNamesStayDirect'
    BY <1>3, <2>2, <2>3, Zenon DEF DirectNamesStayDirect, IsDirect, SeesPlaceholder
  <2> QED BY <2>1, <2>4, Zenon DEF IInv
<1>8. CASE UNCHANGED vars
  BY <1>2, <1>3, <1>8, Zenon DEF vars, IInv, Placeholder, DirectNamesStayDirect, IsDirect
<1> QED BY <1>4, <1>5, <1>6, <1>7, <1>8, Zenon DEF Next
-----------------------------------------------------------------------------
(* The listeners.                                                           *)

AcceptLoop == INSTANCE AcceptLoop WITH
  kind <- listens, task <- loop

\* No inbound has started.
LEMMA AcceptInit == AcceptLoop!Init => AcceptLoop!IInv
BY Zenon DEF AcceptLoop!Init, AcceptLoop!IInv, AcceptLoop!Listening

\* Such a step keeps the invariant.
LEMMA AcceptOne ==
  ASSUME AcceptLoop!IInv, NEW i \in AcceptLoop!I,
         NEW st \in {"new", "ok", "failed", "closed"},
         NEW t \in {"none", "unbound", "parked", "polling", "ended"},
         NEW sh \in BOOLEAN, NEW ab \in BOOLEAN, NEW br \in BOOLEAN,
         AcceptLoop!Becomes(i, st, t, sh, ab, br)
  PROVE  AcceptLoop!IInv'
<1>1. /\ status' \in [AcceptLoop!I -> {"new", "ok", "failed", "closed"}]
      /\ loop' \in [AcceptLoop!I -> {"none", "unbound", "parked", "polling", "ended"}]
  BY Zenon DEF AcceptLoop!IInv, AcceptLoop!Becomes
<1>2. /\ shutdown' \in [AcceptLoop!I -> BOOLEAN] /\ aborted' \in [AcceptLoop!I -> BOOLEAN]
      /\ broken' \in [AcceptLoop!I -> BOOLEAN]
  BY Zenon DEF AcceptLoop!IInv, AcceptLoop!Becomes
<1>3. /\ status'[i] = st /\ loop'[i] = t /\ shutdown'[i] = sh /\ aborted'[i] = ab /\ broken'[i] = br
      /\ \A j \in AcceptLoop!I : j # i => /\ status'[j] = status[j] /\ loop'[j] = loop[j]
                                          /\ broken'[j] = broken[j]
                                          /\ shutdown'[j] = shutdown[j] /\ aborted'[j] = aborted[j]
  BY Zenon DEF AcceptLoop!IInv, AcceptLoop!Becomes
<1>4. ASSUME NEW j \in AcceptLoop!I, j # i, AcceptLoop!Listening(j)' PROVE port' = j
  <2>1. AcceptLoop!Listening(j) /\ j # 0
    BY <1>3, <1>4 DEF AcceptLoop!Listening, AcceptLoop!I
  <2>2. port = j
    BY <2>1, Zenon DEF AcceptLoop!IInv
  <2> QED BY <1>4, <2>1, <2>2, Zenon DEF AcceptLoop!Becomes
<1>5. ASSUME NEW j \in AcceptLoop!I
      PROVE  /\ AcceptLoop!Listening(j)' => port' = j
             /\ status'[j] \in {"new", "ok"} => ~shutdown'[j] /\ ~aborted'[j]
             /\ status'[j] = "ok" /\ listens'[j].bind = "start" /\ ~broken'[j] => AcceptLoop!Listening(j)'
  <2>1. CASE j = i
    BY <1>3, <2>1, Zenon DEF AcceptLoop!Listening, AcceptLoop!Becomes
  <2>2. CASE j # i
    BY <1>3, <1>4, <2>2, Zenon DEF AcceptLoop!IInv, AcceptLoop!Listening, AcceptLoop!Becomes
  <2> QED BY <2>1, <2>2, Zenon
<1> QED BY <1>1, <1>2, <1>5, Zenon DEF AcceptLoop!IInv, AcceptLoop!Becomes

\* What AcceptOne needs of the parts a step leaves alone.
LEMMA AcceptSame ==
  ASSUME AcceptLoop!IInv, NEW i \in AcceptLoop!I
  PROVE  /\ status[i] \in {"new", "ok", "failed", "closed"}
         /\ status = [status EXCEPT ![i] = status[i]]
         /\ loop[i] \in {"none", "unbound", "parked", "polling", "ended"}
         /\ loop = [loop EXCEPT ![i] = loop[i]]
         /\ shutdown[i] \in BOOLEAN /\ shutdown = [shutdown EXCEPT ![i] = shutdown[i]]
         /\ aborted[i] \in BOOLEAN /\ aborted = [aborted EXCEPT ![i] = aborted[i]]
         /\ broken[i] \in BOOLEAN /\ broken = [broken EXCEPT ![i] = broken[i]]
         /\ loop[i] \in {"parked", "polling"} => port = i
         /\ status[i] \in {"new", "ok"} => ~shutdown[i] /\ ~aborted[i]
         /\ status[i] = "ok" /\ listens[i].bind = "start" /\ ~broken[i] => loop[i] \in {"parked", "polling"}
<1>1. /\ status[i] \in {"new", "ok", "failed", "closed"}
      /\ loop[i] \in {"none", "unbound", "parked", "polling", "ended"}
  BY Zenon DEF AcceptLoop!IInv
<1>2. shutdown[i] \in BOOLEAN /\ aborted[i] \in BOOLEAN /\ broken[i] \in BOOLEAN
  BY Zenon DEF AcceptLoop!IInv
<1>3. status = [status EXCEPT ![i] = status[i]] /\ loop = [loop EXCEPT ![i] = loop[i]]
  BY Zenon DEF AcceptLoop!IInv
<1>4. /\ shutdown = [shutdown EXCEPT ![i] = shutdown[i]]
      /\ aborted = [aborted EXCEPT ![i] = aborted[i]]
      /\ broken = [broken EXCEPT ![i] = broken[i]]
  BY Zenon DEF AcceptLoop!IInv
<1> QED BY <1>1, <1>2, <1>3, <1>4, Zenon DEF AcceptLoop!IInv, AcceptLoop!Listening

\* start binds the address or leaves it to the task, or fails.
LEMMA AcceptStart ==
  ASSUME AcceptLoop!IInv, NEW i \in AcceptLoop!I, AcceptLoop!StartFails(i) \/ AcceptLoop!Start(i)
  PROVE  AcceptLoop!IInv'
<1>1. status[i] = "new" /\ UNCHANGED <<listens, shutdown, aborted, broken>>
  BY Zenon DEF AcceptLoop!StartFails, AcceptLoop!Start, AcceptLoop!MayStart
<1>2. CASE AcceptLoop!StartFails(i)
  <2>1. status' = [status EXCEPT ![i] = "failed"] /\ loop' = loop /\ port' = port
    BY <1>2, Zenon DEF AcceptLoop!StartFails
  <2>2. AcceptLoop!Becomes(i, "failed", loop[i], shutdown[i], aborted[i], broken[i])
    BY <1>1, <2>1, AcceptSame, Zenon DEF AcceptLoop!Becomes
  <2> QED BY <2>2, AcceptSame, AcceptOne
<1>3. CASE AcceptLoop!Start(i)
  <2>1. status' = [status EXCEPT ![i] = "ok"]
    BY <1>3, Zenon DEF AcceptLoop!Start
  <2>2. CASE listens[i].bind = "task" /\ loop' = [loop EXCEPT ![i] = "unbound"] /\ UNCHANGED port
    <3>1. AcceptLoop!Becomes(i, "ok", "unbound", shutdown[i], aborted[i], broken[i])
      BY <1>1, <2>1, <2>2, AcceptSame, Zenon DEF AcceptLoop!Becomes
    <3> QED BY <3>1, AcceptSame, AcceptOne
  <2>3. CASE port = 0 /\ port' = i /\ loop' = [loop EXCEPT ![i] = "parked"]
    <3>1. AcceptLoop!Becomes(i, "ok", "parked", shutdown[i], aborted[i], broken[i])
      BY <1>1, <2>1, <2>3, AcceptSame, Zenon DEF AcceptLoop!Becomes
    <3> QED BY <3>1, AcceptSame, AcceptOne
  <2> QED BY <1>3, <2>2, <2>3, Zenon DEF AcceptLoop!Start
<1> QED BY <1>2, <1>3, Zenon

\* The task finds the address free, or ends.
LEMMA AcceptListen ==
  ASSUME AcceptLoop!IInv, NEW i \in AcceptLoop!I, AcceptLoop!Listen(i)
  PROVE  AcceptLoop!IInv'
<1>1. loop[i] = "unbound" /\ UNCHANGED <<listens, status, shutdown, aborted, broken>>
  BY Zenon DEF AcceptLoop!Listen
<1>2. CASE port = 0 /\ port' = i /\ loop' = [loop EXCEPT ![i] = "parked"]
  <2>1. AcceptLoop!Becomes(i, status[i], "parked", shutdown[i], aborted[i], broken[i])
    BY <1>1, <1>2, AcceptSame, Zenon DEF AcceptLoop!Becomes
  <2> QED BY <2>1, AcceptSame, AcceptOne
<1>3. CASE loop' = [loop EXCEPT ![i] = "ended"] /\ UNCHANGED port
  <2>1. AcceptLoop!Becomes(i, status[i], "ended", shutdown[i], aborted[i], broken[i])
    BY <1>1, <1>3, AcceptSame, Zenon DEF AcceptLoop!Becomes
  <2> QED BY <2>1, AcceptSame, AcceptOne
<1> QED BY <1>2, <1>3, Zenon DEF AcceptLoop!Listen

\* The loop waits and is woken.
LEMMA AcceptPoll ==
  ASSUME AcceptLoop!IInv, NEW i \in AcceptLoop!I, AcceptLoop!Wake(i) \/ AcceptLoop!Park(i)
  PROVE  AcceptLoop!IInv'
<1>1. /\ UNCHANGED <<listens, status, shutdown, aborted, port, broken>>
      /\ loop[i] \in {"parked", "polling"}
  BY Zenon DEF AcceptLoop!Wake, AcceptLoop!Park
<1>2. PICK t \in {"parked", "polling"} : loop' = [loop EXCEPT ![i] = t]
  BY Zenon DEF AcceptLoop!Wake, AcceptLoop!Park
<1>3. AcceptLoop!Becomes(i, status[i], t, shutdown[i], aborted[i], broken[i])
  BY <1>1, <1>2, AcceptSame, Zenon DEF AcceptLoop!Becomes
<1> QED BY <1>3, AcceptSame, AcceptOne

\* The loop ends: an accept failed, or the inbound was closed.
LEMMA AcceptEnd ==
  ASSUME AcceptLoop!IInv, NEW i \in AcceptLoop!I,
         AcceptLoop!AcceptFails(i) \/ AcceptLoop!SeeShutdown(i) \/ AcceptLoop!Drop(i)
  PROVE  AcceptLoop!IInv'
<1>1. /\ UNCHANGED <<listens, status, shutdown, aborted>> /\ loop' = [loop EXCEPT ![i] = "ended"]
      /\ port' = port \/ port = i
  BY Zenon DEF AcceptLoop!AcceptFails, AcceptLoop!SeeShutdown, AcceptLoop!Drop, AcceptLoop!End
<1>2. CASE AcceptLoop!AcceptFails(i)
  <2>1. broken' = [broken EXCEPT ![i] = TRUE]
    BY <1>2, Zenon DEF AcceptLoop!AcceptFails
  <2>2. AcceptLoop!Becomes(i, status[i], "ended", shutdown[i], aborted[i], TRUE)
    BY <1>1, <2>1, AcceptSame, Zenon DEF AcceptLoop!Becomes
  <2> QED BY <2>2, AcceptSame, AcceptOne, Zenon
<1>3. CASE AcceptLoop!SeeShutdown(i) \/ AcceptLoop!Drop(i)
  <2>1. broken' = broken /\ (shutdown[i] \/ aborted[i])
    BY <1>3, Zenon DEF AcceptLoop!SeeShutdown, AcceptLoop!Drop
  <2>2. status[i] \notin {"new", "ok"}
    BY <2>1, AcceptSame, Zenon
  <2>3. AcceptLoop!Becomes(i, status[i], "ended", shutdown[i], aborted[i], broken[i])
    BY <1>1, <2>1, <2>2, AcceptSame, Zenon DEF AcceptLoop!Becomes
  <2> QED BY <2>3, AcceptSame, AcceptOne
<1> QED BY <1>2, <1>3, Zenon

\* close is seen by the loop later.
LEMMA AcceptClose ==
  ASSUME AcceptLoop!IInv, NEW i \in AcceptLoop!I, AcceptLoop!Close(i)
  PROVE  AcceptLoop!IInv'
<1>1. /\ status' = [status EXCEPT ![i] = "closed"] /\ shutdown' = [shutdown EXCEPT ![i] = TRUE]
      /\ aborted' = [aborted EXCEPT ![i] = TRUE] /\ UNCHANGED <<listens, loop, port, broken>>
  BY Zenon DEF AcceptLoop!Close
<1>2. AcceptLoop!Becomes(i, "closed", loop[i], TRUE, TRUE, broken[i])
  BY <1>1, AcceptSame, Zenon DEF AcceptLoop!Becomes
<1> QED BY <1>2, AcceptSame, AcceptOne, Zenon

\* Every step keeps the invariant.
LEMMA AcceptInvariance == AcceptLoop!IInv /\ [AcceptLoop!Next]_(AcceptLoop!vars) => AcceptLoop!IInv'
<1> SUFFICES ASSUME AcceptLoop!IInv, [AcceptLoop!Next]_(AcceptLoop!vars) PROVE AcceptLoop!IInv'
  BY Zenon
<1>1. ASSUME UNCHANGED <<listens, status, loop, shutdown, aborted, port, broken>>
      PROVE  AcceptLoop!IInv'
  BY <1>1, Zenon DEF AcceptLoop!IInv, AcceptLoop!Listening
<1>2. CASE UNCHANGED AcceptLoop!vars \/ AcceptLoop!Connect
  BY <1>1, <1>2, Zenon DEF AcceptLoop!vars, AcceptLoop!Connect
<1>3. ASSUME NEW i \in AcceptLoop!I, AcceptLoop!Step(i) PROVE AcceptLoop!IInv'
  <2>1. CASE AcceptLoop!Accept(i) \/ AcceptLoop!ConnEnds(i)
    BY <1>1, <2>1, Zenon DEF AcceptLoop!Accept, AcceptLoop!ConnEnds
  <2> QED BY <1>3, <2>1, AcceptStart, AcceptListen, AcceptPoll, AcceptEnd, AcceptClose, Zenon
             DEF AcceptLoop!Step
<1> QED BY <1>2, <1>3, Zenon DEF AcceptLoop!Next

\* The invariant says who holds the address.
LEMMA AcceptHolds == AcceptLoop!IInv => AcceptLoop!HoldsItsAddress
BY Zenon DEF AcceptLoop!IInv, AcceptLoop!HoldsItsAddress
-----------------------------------------------------------------------------
(* Counting and sequences.                                                 *)

\* Counting the first n numbers, and what is left when some of a set are taken.
LEMMA CountFirst ==
  ASSUME NEW n \in Nat PROVE IsFiniteSet(1..n) /\ Cardinality(1..n) = n
BY FS_Interval
-----------------------------------------------------------------------------
(* TUN.                                                                     *)

TunInbound == INSTANCE TunInbound WITH
  pc <- tunPc, task <- reader

\* The component counts as this module does.
LEMMA TunInboundCount == \A S : TunInbound!Cardinality(S) = Cardinality(S)
BY Zenon DEF TunInbound!Cardinality, Cardinality, TunInbound!IsFiniteSet, IsFiniteSet

\* Nothing is built.
LEMMA TunInit == TunInbound!Init => TunInbound!IInv
BY TunAssumption DEF TunInbound!Init, TunInbound!IInv, TunInbound!Gens

\* What the steps of the host leave to the flow.
LEMMA TunUdp ==
  ASSUME TunInbound!IInv, UNCHANGED TunInbound!udp
  PROVE  (flow # "relay" => up # "running")'
BY Zenon DEF TunInbound!IInv, TunInbound!udp

\* The routes that are in are the first, and the one in turn follows them.
LEMMA TunTurn ==
  ASSUME TunInbound!Installing
  PROVE  \E k \in 0..Targets :
             installed = 1..k /\ TunInbound!Turn = k + 1 /\ installed \cup {TunInbound!Turn} = 1..(k + 1)
<1>1. PICK k \in 0..Targets : installed = 1..k
  BY Zenon DEF TunInbound!Installing
<1>2. k \in Nat
  BY TunAssumption
<1>3. Cardinality(installed) = k
  BY <1>1, <1>2, CountFirst, Zenon
<1>4. 1..k \cup {k + 1} = 1..(k + 1)
  BY <1>2
<1> QED BY <1>1, <1>3, <1>4, TunInboundCount, Zenon DEF TunInbound!Turn

\* A new generation has no task.
LEMMA TunBuild == ASSUME TunInbound!IInv, TunInbound!Build PROVE TunInbound!IInv'
<1>1. /\ tunPc = "idle" /\ gen < MaxGen /\ gen' = gen + 1 /\ tunPc' = "create"
      /\ UNCHANGED <<installed, recorded, reader, dev, table, TunInbound!udp>>
  BY Zenon DEF TunInbound!Build
<1>2. gen \in 0..MaxGen /\ gen' \in TunInbound!Gens /\ gen' \in 0..MaxGen
  BY <1>1, TunAssumption DEF TunInbound!IInv, TunInbound!Gens
<1>3. reader[gen'] = "none" /\ \A g \in TunInbound!Gens : g > gen' => reader[g] = "none"
  BY <1>1, <1>2, TunAssumption DEF TunInbound!IInv, TunInbound!Gens
<1> QED BY <1>1, <1>2, <1>3, TunUdp, Zenon DEF TunInbound!IInv

\* The interface is free when no task holds it.
LEMMA TunCreate == ASSUME TunInbound!IInv, TunInbound!CreateDevice PROVE TunInbound!IInv'
<1>1. /\ tunPc = "create" /\ UNCHANGED <<gen, recorded, reader, table, TunInbound!udp>>
      /\ \/ dev = 0 /\ dev' = gen /\ tunPc' = "route" /\ installed' = {}
         \/ tunPc' = "failed" /\ UNCHANGED dev
  BY Zenon DEF TunInbound!CreateDevice
<1>2. gen \in TunInbound!Gens /\ table = {} /\ reader[gen] = "none"
  BY <1>1, Zenon DEF TunInbound!IInv
<1>3. CASE dev = 0 /\ dev' = gen /\ tunPc' = "route" /\ installed' = {}
  <2>1. 0 \in 0..Targets /\ 1..0 = {}
    BY TunAssumption
  <2>2. TunInbound!Installing'
    BY <1>1, <1>2, <1>3, <2>1, Zenon DEF TunInbound!Installing
  <2>3. \A g \in TunInbound!Gens : reader[g] \notin {"running", "aborted"}
    BY <1>3 DEF TunInbound!IInv, TunInbound!Gens
  <2> QED BY <1>1, <1>2, <1>3, <2>2, <2>3, TunUdp, Zenon DEF TunInbound!IInv
<1>4. CASE tunPc' = "failed" /\ UNCHANGED dev
  BY <1>1, <1>2, <1>4, TunUdp, Zenon DEF TunInbound!IInv
<1> QED BY <1>1, <1>3, <1>4, Zenon

\* The route in turn is added, or the attempt is to be repeated.
LEMMA TunRoute ==
  ASSUME TunInbound!IInv, TunInbound!RouteAdd \/ TunInbound!Sleep
  PROVE  TunInbound!IInv'
<1>1. /\ tunPc \in {"route", "sleep"} /\ tunPc' \in {"route", "sleep"}
      /\ UNCHANGED <<gen, recorded, reader, dev, TunInbound!udp>>
  BY Zenon DEF TunInbound!RouteAdd, TunInbound!Sleep
<1>2. TunInbound!Installing
  BY <1>1, Zenon DEF TunInbound!IInv
<1>3. CASE TunInbound!RouteAdd /\ installed' = installed \cup {TunInbound!Turn}
      /\ table' = table \cup {TunInbound!Turn}
  <2>1. PICK k \in 0..Targets :
          installed = 1..k /\ TunInbound!Turn = k + 1 /\ installed \cup {TunInbound!Turn} = 1..(k + 1)
    BY <1>2, TunTurn, Zenon
  <2>2. k + 1 \in 0..Targets
    BY <1>3, <2>1, TunAssumption DEF TunInbound!RouteAdd
  <2>3. installed' = 1..(k + 1) /\ table' = installed'
    BY <1>2, <1>3, <2>1, Zenon DEF TunInbound!Installing
  <2>4. TunInbound!Installing'
    BY <1>1, <1>2, <2>2, <2>3, Zenon DEF TunInbound!Installing
  <2> QED BY <1>1, <2>4, TunUdp, Zenon DEF TunInbound!IInv
<1>4. CASE UNCHANGED <<installed, table>>
  <2>1. TunInbound!Installing'
    BY <1>1, <1>2, <1>4, Zenon DEF TunInbound!Installing
  <2> QED BY <1>1, <2>1, TunUdp, Zenon DEF TunInbound!IInv
<1> QED BY <1>3, <1>4, Zenon DEF TunInbound!RouteAdd, TunInbound!Sleep

\* A start that fails takes the device with it, and no other task held that.
LEMMA TunFails ==
  ASSUME TunInbound!IInv, tunPc \in {"route", "sleep", "stack"}, tunPc' = "failed",
         TunInbound!DropDevice, UNCHANGED <<gen, recorded, reader, TunInbound!udp>>
  PROVE  TunInbound!IInv'
<1>1. gen \in TunInbound!Gens /\ dev = gen /\ reader[gen] = "none" /\ table' = {}
  BY Zenon DEF TunInbound!IInv, TunInbound!Installing, TunInbound!DropDevice
<1>2. \A g \in TunInbound!Gens : reader[g] \notin {"running", "aborted"}
  BY <1>1, Zenon DEF TunInbound!IInv
<1> QED BY <1>1, <1>2, TunUdp, Zenon DEF TunInbound!IInv

\* When no route is in turn all are in.
LEMMA TunRecord == ASSUME TunInbound!IInv, TunInbound!Record PROVE TunInbound!IInv'
<1>1. /\ tunPc = "route" /\ TunInbound!Turn > Targets
      /\ recorded' = [recorded EXCEPT ![gen] = installed] /\ tunPc' = "stack"
      /\ UNCHANGED <<gen, installed, reader, dev, table, TunInbound!udp>>
  BY Zenon DEF TunInbound!Record
<1>2. TunInbound!Installing /\ gen \in TunInbound!Gens
  BY <1>1, Zenon DEF TunInbound!IInv
<1>3. PICK k \in 0..Targets : installed = 1..k /\ TunInbound!Turn = k + 1
  BY <1>2, TunTurn, Zenon
<1>4. k = Targets
  BY <1>1, <1>3, TunAssumption
<1>5. TunInbound!Installing' /\ recorded'[gen'] = 1..Targets /\ DOMAIN recorded' = TunInbound!Gens
  BY <1>1, <1>2, <1>3, <1>4, Zenon DEF TunInbound!Installing, TunInbound!IInv
<1> QED BY <1>1, <1>2, <1>3, <1>4, <1>5, TunUdp, Zenon DEF TunInbound!IInv

\* The stack runs on the device, or the start fails.
LEMMA TunStack == ASSUME TunInbound!IInv, TunInbound!StartStack PROVE TunInbound!IInv'
<1>1. tunPc = "stack" /\ UNCHANGED <<gen, installed, recorded, TunInbound!udp>>
  BY Zenon DEF TunInbound!StartStack
<1>2. /\ TunInbound!Installing /\ gen \in TunInbound!Gens /\ installed = 1..Targets
      /\ recorded[gen] = 1..Targets
  BY <1>1, Zenon DEF TunInbound!IInv
<1>3. CASE reader' = [reader EXCEPT ![gen] = "running"] /\ tunPc' = "serving" /\ UNCHANGED <<dev, table>>
  <2>1. /\ reader' \in [TunInbound!Gens -> {"none", "running", "aborted", "gone"}]
        /\ reader'[gen] = "running"
        /\ \A g \in TunInbound!Gens : g # gen => reader'[g] = reader[g]
    BY <1>2, <1>3, Zenon DEF TunInbound!IInv
  <2>2. dev' = gen /\ table' = 1..Targets
    BY <1>2, <1>3, Zenon DEF TunInbound!Installing
  <2>3. \A g \in TunInbound!Gens : reader'[g] \in {"running", "aborted"} => dev' = g
    BY <1>3, <2>1, <2>2, Zenon DEF TunInbound!IInv
  <2>4. \A g \in TunInbound!Gens : g > gen => reader'[g] = "none"
    BY <2>1 DEF TunInbound!IInv, TunInbound!Gens
  <2> QED BY <1>1, <1>2, <1>3, <2>1, <2>2, <2>3, <2>4, TunUdp, Zenon DEF TunInbound!IInv
<1>4. CASE tunPc' = "failed" /\ TunInbound!DropDevice /\ UNCHANGED reader
  BY <1>1, <1>4, TunFails, Zenon
<1> QED BY <1>3, <1>4, Zenon DEF TunInbound!StartStack

\* close deletes every route there is.
LEMMA TunClose == ASSUME TunInbound!IInv, TunInbound!Close PROVE TunInbound!IInv'
<1>1. /\ tunPc \in {"serving", "failed"} /\ tunPc' = "idle"
      /\ UNCHANGED <<gen, dev, TunInbound!udp>>
      /\ reader' = [reader EXCEPT ![gen] = IF @ = "running" THEN "aborted" ELSE @]
      /\ recorded' = [recorded EXCEPT ![gen] = {}] /\ table' = table \ recorded[gen]
  BY Zenon DEF TunInbound!Close
<1>2. gen \in TunInbound!Gens
  BY <1>1, Zenon DEF TunInbound!IInv
<1>3. table' = {}
  BY <1>1, Zenon DEF TunInbound!IInv
<1>4. /\ reader' \in [TunInbound!Gens -> {"none", "running", "aborted", "gone"}]
      /\ DOMAIN recorded' = TunInbound!Gens
      /\ \A g \in TunInbound!Gens :
           reader'[g] = IF g = gen /\ reader[g] = "running" THEN "aborted" ELSE reader[g]
  BY <1>1, <1>2, Zenon DEF TunInbound!IInv
<1>5. \A g \in TunInbound!Gens : reader'[g] \in {"running", "aborted"} => dev' = g
  BY <1>1, <1>4, Zenon DEF TunInbound!IInv
<1>6. \A g \in TunInbound!Gens : g > gen => reader'[g] = "none"
  BY <1>2, <1>4, Zenon DEF TunInbound!IInv
<1> QED BY <1>1, <1>2, <1>3, <1>4, <1>5, <1>6, TunUdp, Zenon DEF TunInbound!IInv

\* The task that ends holds the device: no start does, and after it no task.
LEMMA TunTask ==
  ASSUME TunInbound!IInv, NEW g \in TunInbound!Gens, TunInbound!TaskEnds(g)
  PROVE  TunInbound!IInv'
<1>1. /\ reader[g] \in {"aborted", "running"} /\ reader' = [reader EXCEPT ![g] = "gone"] /\ dev' = 0
      /\ table' = {}
      /\ UNCHANGED <<gen, tunPc, installed, recorded, flow, up>>
  BY Zenon DEF TunInbound!TaskEnds, TunInbound!DropDevice
<1>2. dev = g /\ \A h \in TunInbound!Gens : h # g => reader[h] \notin {"running", "aborted"}
  BY <1>1, Zenon DEF TunInbound!IInv
<1>3. /\ reader' \in [TunInbound!Gens -> {"none", "running", "aborted", "gone"}]
      /\ reader'[g] = "gone"
      /\ \A h \in TunInbound!Gens : h # g => reader'[h] = reader[h]
  BY <1>1, Zenon DEF TunInbound!IInv
<1>4. tunPc \notin {"route", "sleep", "stack"} /\ (tunPc = "create" => gen # g)
  BY <1>1, <1>2, Zenon DEF TunInbound!IInv, TunInbound!Installing
<1>5. \A h \in TunInbound!Gens : reader'[h] \notin {"running", "aborted"}
  BY <1>2, <1>3, Zenon
<1>6. \A h \in TunInbound!Gens : h > gen => reader'[h] = "none"
  BY <1>1, <1>3, Zenon DEF TunInbound!IInv
<1>7. tunPc = "serving" => reader'[gen] = "gone"
  BY <1>2, <1>3, Zenon DEF TunInbound!IInv
<1>8. tunPc = "create" => reader'[gen] = "none"
  BY <1>3, <1>4, Zenon DEF TunInbound!IInv
<1>9. flow' # "relay" => up' # "running"
  BY <1>1, Zenon DEF TunInbound!IInv
<1> QED BY <1>1, <1>3, <1>4, <1>5, <1>6, <1>7, <1>8, <1>9, Zenon DEF TunInbound!IInv

\* The copying task runs while the flow is relayed.
LEMMA TunFlow == ASSUME TunInbound!IInv, TunInbound!FlowNext PROVE TunInbound!IInv'
<1>1. UNCHANGED <<gen, tunPc, installed, recorded, reader, dev, table>>
  BY Zenon DEF TunInbound!FlowNext, TunInbound!Accept, TunInbound!ReadFirst, TunInbound!Advance,
     TunInbound!UpEnds, TunInbound!DownEnds, TunInbound!AppCloses, TunInbound!RemoteFails,
     TunInbound!host
<1>2. flow' # "relay" => up' # "running"
  BY Zenon DEF TunInbound!IInv, TunInbound!FlowNext, TunInbound!Accept, TunInbound!ReadFirst,
     TunInbound!Advance, TunInbound!UpEnds, TunInbound!DownEnds, TunInbound!AppCloses,
     TunInbound!RemoteFails
<1> QED BY <1>1, <1>2, Zenon DEF TunInbound!IInv, TunInbound!Installing

\* Every step keeps the invariant.
LEMMA TunInvariance == TunInbound!IInv /\ [TunInbound!Next]_(TunInbound!vars) => TunInbound!IInv'
<1> SUFFICES ASSUME TunInbound!IInv, [TunInbound!Next]_(TunInbound!vars) PROVE TunInbound!IInv'
  BY Zenon
<1>1. CASE UNCHANGED TunInbound!vars
  BY <1>1, Zenon
     DEF TunInbound!IInv, TunInbound!Installing, TunInbound!vars, TunInbound!host, TunInbound!udp
<1>2. CASE TunInbound!GiveUp \/ TunInbound!Cancel
  BY <1>2, TunFails, Zenon DEF TunInbound!GiveUp, TunInbound!Cancel
<1> QED BY <1>1, <1>2, TunBuild, TunCreate, TunRoute, TunRecord, TunStack, TunClose, TunTask,
           TunFlow, Zenon DEF TunInbound!Next

\* The invariant says what serves and what is left.
LEMMA TunHolds ==
  TunInbound!IInv
    => /\ TunInbound!ServesWithAllRoutes /\ TunInbound!NoRouteUnaccounted
       /\ TunInbound!FlowEndsWhole
BY Zenon DEF TunInbound!IInv, TunInbound!ServesWithAllRoutes, TunInbound!NoRouteUnaccounted,
   TunInbound!FlowEndsWhole
-----------------------------------------------------------------------------
(* The clients of an inbound.                                               *)

InboundClients == INSTANCE InboundClients WITH
  pc <- clientPc, kind <- asked

\* The component counts as this module does.
LEMMA InboundClientsCount == \A S : InboundClients!Cardinality(S) = Cardinality(S)
BY Zenon DEF InboundClients!Cardinality, Cardinality, InboundClients!IsFiniteSet, IsFiniteSet

\* Two sets of clients that differ at most in c differ by one at most.
LEMMA ClientsCount ==
  ASSUME NEW S \in SUBSET Clients, NEW R \in SUBSET Clients, NEW c \in Clients,
         S \ {c} = R \ {c}
  PROVE  /\ Cardinality(S) \in Nat /\ Cardinality(R) \in Nat
         /\ c \in S /\ c \in R => Cardinality(R) = Cardinality(S)
         /\ c \notin S /\ c \notin R => Cardinality(R) = Cardinality(S)
         /\ c \notin S /\ c \in R => Cardinality(R) = Cardinality(S) + 1
         /\ c \in S /\ c \notin R => Cardinality(R) = Cardinality(S) - 1
<1>1. IsFiniteSet(S) /\ IsFiniteSet(R)
  BY ClientsAssumption, FS_Subset, Zenon
<1>2. Cardinality(S) \in Nat /\ Cardinality(R) \in Nat
  BY <1>1, FS_CardinalityType, Zenon
<1>3. c \in S /\ c \in R => S = R
  OBVIOUS
<1>4. c \notin S /\ c \notin R => S = R
  OBVIOUS
<1>5. ASSUME c \notin S, c \in R PROVE Cardinality(R) = Cardinality(S) + 1
  <2>1. R = S \cup {c}
    BY <1>5, Zenon
  <2> QED BY <1>1, <1>5, <2>1, FS_AddElement, Zenon
<1>6. ASSUME c \in S, c \notin R PROVE Cardinality(R) = Cardinality(S) - 1
  <2>1. R = S \ {c}
    BY <1>6, Zenon
  <2> QED BY <1>1, <1>6, <2>1, FS_RemoveElement, Zenon
<1> QED BY <1>2, <1>3, <1>4, <1>5, <1>6, Zenon

\* A client goes on to l: what its step takes and gives back is what l and its
\* last place hold.
LEMMA ClientsMove ==
  ASSUME InboundClients!IInv, NEW c \in Clients,
         NEW l \in {"refused", "closed"} \cup InboundClients!Tasks,
         InboundClients!Moves(c, l)
  PROVE  InboundClients!IInv'
<1>1. /\ clientPc' \in [Clients -> {"out", "refused", "closed"} \cup InboundClients!Tasks]
      /\ clientPc'[c] = l /\ \A d \in Clients : d # c => clientPc'[d] = clientPc[d]
  BY InboundClientsCount, Zenon DEF InboundClients!IInv, InboundClients!Moves
<1>2. \A d \in Clients : clientPc'[d] = "permit" => ~direct'[d]
  BY <1>1, InboundClientsCount, Zenon DEF InboundClients!IInv, InboundClients!Moves
<1>3. active' = Cardinality(InboundClients!Active')
  <2>1. InboundClients!Active \in SUBSET Clients /\ InboundClients!Active' \in SUBSET Clients
    BY Zenon DEF InboundClients!Active
  <2>2. /\ InboundClients!Active \ {c} = InboundClients!Active' \ {c}
        /\ (c \in InboundClients!Active <=> clientPc[c] \in InboundClients!Tasks)
        /\ (c \in InboundClients!Active' <=> l \in InboundClients!Tasks)
    BY <1>1, Zenon DEF InboundClients!Active
  <2>3. active = Cardinality(InboundClients!Active)
    BY InboundClientsCount, Zenon DEF InboundClients!IInv
  <2> QED BY <2>1, <2>2, <2>3, ClientsCount DEF InboundClients!Moves
<1>4. hsFree' = HandshakePermits - Cardinality(InboundClients!Shaking')
  <2>1. InboundClients!Shaking \in SUBSET Clients /\ InboundClients!Shaking' \in SUBSET Clients
    BY Zenon DEF InboundClients!Shaking
  <2>2. /\ InboundClients!Shaking \ {c} = InboundClients!Shaking' \ {c}
        /\ (c \in InboundClients!Shaking <=> clientPc[c] = "handshake")
        /\ (c \in InboundClients!Shaking' <=> l = "handshake")
    BY <1>1, Zenon DEF InboundClients!Shaking
  <2>3. hsFree = HandshakePermits - Cardinality(InboundClients!Shaking)
    BY InboundClientsCount, Zenon DEF InboundClients!IInv
  <2> QED BY <2>1, <2>2, <2>3, ClientsCount, ClientsAssumption DEF InboundClients!Moves
<1>5. dialFree' = DialPermits - Cardinality(InboundClients!Holding')
  <2>1. InboundClients!Holding \in SUBSET Clients /\ InboundClients!Holding' \in SUBSET Clients
    BY Zenon DEF InboundClients!Holding
  <2>2. /\ InboundClients!Holding \ {c} = InboundClients!Holding' \ {c}
        /\ (c \in InboundClients!Holding <=> clientPc[c] = "dial" /\ ~direct[c])
        /\ (c \in InboundClients!Holding' <=> l = "dial" /\ ~direct'[c])
    BY <1>1, Zenon DEF InboundClients!Holding, InboundClients!Moves
  <2>3. dialFree = DialPermits - Cardinality(InboundClients!Holding)
    BY InboundClientsCount, Zenon DEF InboundClients!IInv
  <2> QED BY <2>1, <2>2, <2>3, ClientsCount, ClientsAssumption DEF InboundClients!Moves
<1>6. InboundClients!UntrackedUnlessLost'
  <2> SUFFICES ASSUME NEW d \in tracked', d \notin lost'
               PROVE  d \in Clients /\ clientPc'[d] \in {"dial"} \cup InboundClients!Connected
    BY Zenon DEF InboundClients!UntrackedUnlessLost
  <2>1. CASE d = c
    BY <1>1, <2>1, Zenon DEF InboundClients!Moves
  <2>2. CASE d # c
    BY <1>1, <2>2, InboundClientsCount, Zenon
       DEF InboundClients!Moves, InboundClients!IInv, InboundClients!UntrackedUnlessLost
  <2> QED BY <2>1, <2>2, Zenon
<1> QED BY <1>1, <1>2, <1>3, <1>4, <1>5, <1>6, InboundClientsCount, Zenon
           DEF InboundClients!IInv, InboundClients!Moves

\* The counters are numbers.
LEMMA ClientsNumbers == InboundClients!IInv => active \in Int /\ hsFree \in Int /\ dialFree \in Int
<1> SUFFICES ASSUME InboundClients!IInv PROVE active \in Int /\ hsFree \in Int /\ dialFree \in Int
  BY Zenon
<1>1. /\ IsFiniteSet(InboundClients!Active) /\ IsFiniteSet(InboundClients!Shaking)
      /\ IsFiniteSet(InboundClients!Holding)
  BY ClientsAssumption, FS_Subset, Zenon
     DEF InboundClients!Active, InboundClients!Shaking, InboundClients!Holding
<1> QED BY <1>1, FS_CardinalityType, ClientsAssumption, InboundClientsCount DEF InboundClients!IInv

\* A client that stays in its place takes and gives nothing.
LEMMA ClientsStay ==
  ASSUME InboundClients!IInv,
         UNCHANGED <<active, InboundClients!permits, clientPc, direct, InboundClients!dials>>
  PROVE  InboundClients!IInv'
BY InboundClientsCount, Zenon DEF InboundClients!IInv, InboundClients!permits, InboundClients!dials,
   InboundClients!Active, InboundClients!Shaking, InboundClients!Holding,
   InboundClients!UntrackedUnlessLost

\* A client moves without permits, its dial as it was.
LEMMA ClientsPass ==
  ASSUME InboundClients!IInv, NEW c \in Clients,
         NEW l \in {"queue", "check", "resolve", "end"} \cup InboundClients!Connected,
         InboundClients!Goto(c, l),
         clientPc[c] \in InboundClients!Tasks, clientPc[c] # "handshake",
         InboundClients!ReleaseDial(c), UNCHANGED <<active, hsFree, direct>>,
         lost \subseteq lost', tracked' \subseteq tracked,
         c \in tracked' => c \in lost' \/ l \in InboundClients!Connected
  PROVE  InboundClients!IInv'
<1>1. /\ clientPc' = [clientPc EXCEPT ![c] = l] /\ direct' = direct /\ active' = active
      /\ hsFree' = hsFree
      /\ dialFree' = IF clientPc[c] = "dial" /\ ~direct[c] THEN dialFree + 1 ELSE dialFree
  BY Zenon DEF InboundClients!Goto, InboundClients!ReleaseDial
<1>2. l \in InboundClients!Tasks /\ l \notin {"handshake", "dial", "permit"}
  BY Zenon DEF InboundClients!Tasks, InboundClients!Connected, InboundClients!Dialling
<1>3. direct' \in [Clients -> BOOLEAN] /\ active \in Int /\ hsFree \in Int /\ dialFree \in Int
  BY <1>1, ClientsNumbers, InboundClientsCount, Zenon DEF InboundClients!IInv
<1>4. /\ active' = active + (IF clientPc[c] \in InboundClients!Tasks THEN 0 ELSE 1) - (IF l \in InboundClients!Tasks THEN 0 ELSE 1)
      /\ hsFree' = hsFree + (IF clientPc[c] = "handshake" THEN 1 ELSE 0) - (IF l = "handshake" THEN 1 ELSE 0)
  BY <1>1, <1>2, <1>3
<1>5. dialFree' = dialFree + (IF clientPc[c] = "dial" /\ ~direct[c] THEN 1 ELSE 0)
                           - (IF l = "dial" /\ ~direct'[c] THEN 1 ELSE 0)
  BY <1>1, <1>2, <1>3
<1>6. InboundClients!Moves(c, l)
  BY <1>1, <1>2, <1>3, <1>4, <1>5, Zenon DEF InboundClients!Moves
<1> QED BY <1>2, <1>6, ClientsMove, Zenon

\* A client before its dial, or after its relay, is tracked only if it was lost.
LEMMA ClientsTracked ==
  ASSUME InboundClients!IInv, NEW c \in Clients
  PROVE  c \in tracked => c \in lost \/ clientPc[c] \in {"dial"} \cup InboundClients!Connected
BY InboundClientsCount, Zenon DEF InboundClients!IInv, InboundClients!UntrackedUnlessLost

\* The steps that hold no permit, or give back that of the dial.
LEMMA ClientsPasses ==
  ASSUME InboundClients!IInv, NEW c \in Clients,
         \/ InboundClients!CheckClient(c) \/ InboundClients!ResolveFails(c)
         \/ InboundClients!ClientWatch(c) \/ InboundClients!DialAnswers(c)
         \/ InboundClients!DialFails(c)
         \/ InboundClients!DialTimesOut(c) \/ InboundClients!HardBudget(c)
         \/ InboundClients!Reply(c) \/ InboundClients!ReplyFails(c)
         \/ InboundClients!EarlyForwarded(c)
         \/ InboundClients!EarlyFails(c) \/ InboundClients!RelayEnds(c)
         \/ InboundClients!RelayTimesOut(c)
  PROVE  InboundClients!IInv'
<1>1. c \in tracked => c \in lost \/ clientPc[c] \in {"dial"} \cup InboundClients!Connected
  BY ClientsTracked, Zenon
<1>2. CASE InboundClients!CheckClient(c)
  <2>1. PICK l \in {"end", "resolve"} : InboundClients!Goto(c, l)
    BY <1>2, Zenon DEF InboundClients!CheckClient
  <2>2. /\ clientPc[c] = "check" /\ UNCHANGED <<active, hsFree, direct, lost, tracked>>
        /\ InboundClients!ReleaseDial(c)
    BY <1>2, Zenon DEF InboundClients!CheckClient, InboundClients!permits, InboundClients!request,
       InboundClients!dials, InboundClients!ReleaseDial
  <2>3. /\ clientPc[c] \in InboundClients!Tasks
        /\ clientPc[c] \notin {"dial"} \cup InboundClients!Connected
    BY <2>2, Zenon DEF InboundClients!Tasks, InboundClients!Dialling, InboundClients!Connected
  <2> QED BY <1>1, <2>1, <2>2, <2>3, ClientsPass, Zenon
<1>3. CASE InboundClients!ResolveFails(c)
  <2>1. /\ clientPc[c] = "resolve" /\ InboundClients!Goto(c, "end")
        /\ UNCHANGED <<active, hsFree, direct, lost, tracked>> /\ InboundClients!ReleaseDial(c)
    BY <1>3, Zenon DEF InboundClients!ResolveFails, InboundClients!permits, InboundClients!request,
       InboundClients!dials, InboundClients!ReleaseDial
  <2>2. /\ clientPc[c] \in InboundClients!Tasks
        /\ clientPc[c] \notin {"dial"} \cup InboundClients!Connected
    BY <2>1, Zenon DEF InboundClients!Tasks, InboundClients!Dialling, InboundClients!Connected
  <2> QED BY <1>1, <2>1, <2>2, ClientsPass, Zenon
<1>4. CASE InboundClients!ClientWatch(c) \/ InboundClients!HardBudget(c)
  <2>1. /\ clientPc[c] \in InboundClients!Dialling /\ InboundClients!Goto(c, "end")
        /\ UNCHANGED <<active, hsFree, direct, tracked>> /\ InboundClients!ReleaseDial(c)
        /\ lost' = IF clientPc[c] = "dial" THEN lost \cup {c} ELSE lost
    BY <1>4, Zenon DEF InboundClients!ClientWatch, InboundClients!HardBudget, InboundClients!request,
       InboundClients!Dialling
  <2>2. /\ clientPc[c] \in InboundClients!Tasks /\ clientPc[c] # "handshake"
        /\ clientPc[c] \notin InboundClients!Connected
    BY <2>1, Zenon DEF InboundClients!Tasks, InboundClients!Dialling, InboundClients!Connected
  <2> QED BY <1>1, <2>1, <2>2, ClientsPass, Zenon
<1>5. CASE InboundClients!DialAnswers(c)
  <2>1. /\ clientPc[c] = "dial" /\ InboundClients!Goto(c, "reply")
        /\ UNCHANGED <<active, hsFree, direct, lost, tracked>> /\ InboundClients!ReleaseDial(c)
    BY <1>5, Zenon DEF InboundClients!DialAnswers, InboundClients!request, InboundClients!dials
  <2>2. clientPc[c] \in InboundClients!Tasks /\ "reply" \in InboundClients!Connected
    BY <2>1, Zenon DEF InboundClients!Tasks, InboundClients!Dialling, InboundClients!Connected
  <2> QED BY <2>1, <2>2, ClientsPass, Zenon
<1>6. CASE InboundClients!DialFails(c) \/ InboundClients!DialTimesOut(c)
  <2>1. /\ clientPc[c] = "dial" /\ InboundClients!Goto(c, "end")
        /\ UNCHANGED <<active, hsFree, direct>> /\ InboundClients!ReleaseDial(c)
        /\ lost \subseteq lost' /\ tracked' \subseteq tracked /\ (c \in lost' \/ c \notin tracked')
    BY <1>6, Zenon DEF InboundClients!DialFails, InboundClients!DialTimesOut, InboundClients!request
  <2>2. clientPc[c] \in InboundClients!Tasks
    BY <2>1, Zenon DEF InboundClients!Tasks, InboundClients!Dialling
  <2> QED BY <2>1, <2>2, ClientsPass, Zenon
<1>7. CASE InboundClients!Reply(c) \/ InboundClients!EarlyForwarded(c)
  <2>1. PICK l \in {"early", "relay"} : InboundClients!Goto(c, l)
    BY <1>7, Zenon DEF InboundClients!Reply, InboundClients!EarlyForwarded
  <2>2. /\ clientPc[c] \in {"reply", "early"} /\ UNCHANGED <<active, hsFree, direct, lost, tracked>>
        /\ InboundClients!ReleaseDial(c)
    BY <1>7, Zenon DEF InboundClients!Reply, InboundClients!EarlyForwarded, InboundClients!permits,
       InboundClients!request, InboundClients!dials, InboundClients!ReleaseDial
  <2>3. clientPc[c] \in InboundClients!Tasks /\ l \in InboundClients!Connected
    BY <2>1, <2>2, Zenon DEF InboundClients!Tasks, InboundClients!Connected
  <2> QED BY <2>1, <2>2, <2>3, ClientsPass, Zenon
<1>8. CASE InboundClients!ReplyFails(c) \/ InboundClients!EarlyFails(c)
      \/ InboundClients!RelayEnds(c) \/ InboundClients!RelayTimesOut(c)
  <2>1. clientPc[c] \in InboundClients!Connected /\ InboundClients!HangUp(c)
    BY <1>8, Zenon DEF InboundClients!ReplyFails, InboundClients!EarlyFails, InboundClients!RelayEnds,
       InboundClients!RelayTimesOut, InboundClients!Connected
  <2>2. clientPc[c] \in InboundClients!Tasks /\ clientPc[c] \notin {"handshake", "dial"}
    BY <2>1, Zenon DEF InboundClients!Tasks, InboundClients!Connected
  <2>3. /\ InboundClients!Goto(c, "end") /\ UNCHANGED <<active, hsFree, direct, lost>>
        /\ InboundClients!ReleaseDial(c)
        /\ tracked' = tracked \ {c}
    BY <2>1, <2>2, Zenon DEF InboundClients!HangUp, InboundClients!permits, InboundClients!request,
       InboundClients!ReleaseDial
  <2> QED BY <2>2, <2>3, ClientsPass, Zenon
<1> QED BY <1>2, <1>3, <1>4, <1>5, <1>6, <1>7, <1>8, Zenon

\* At the cap a client is refused, below it counted.
LEMMA ClientsAccept ==
  ASSUME InboundClients!IInv, NEW c \in Clients, InboundClients!Accept(c)
  PROVE  InboundClients!IInv'
<1>1. /\ clientPc[c] = "out" /\ UNCHANGED <<hsFree, dialFree, direct, lost, tracked>>
      /\ \/ active' = active + 1 /\ InboundClients!Goto(c, "queue")
         \/ active' = active /\ InboundClients!Goto(c, "refused")
  BY Zenon
     DEF InboundClients!Accept, InboundClients!permits, InboundClients!request, InboundClients!dials
<1>2. /\ clientPc[c] \notin InboundClients!Tasks /\ "queue" \in InboundClients!Tasks
      /\ "refused" \notin InboundClients!Tasks
  BY <1>1, Zenon DEF InboundClients!Tasks, InboundClients!Dialling, InboundClients!Connected
<1>3. c \in tracked => c \in lost
  BY <1>1, ClientsTracked, Zenon DEF InboundClients!Connected
<1>4. active \in Int /\ hsFree \in Int /\ dialFree \in Int /\ direct \in [Clients -> BOOLEAN]
  BY ClientsNumbers, InboundClientsCount, Zenon DEF InboundClients!IInv
<1>5. CASE active' = active + 1 /\ InboundClients!Goto(c, "queue")
  <2>1. InboundClients!Moves(c, "queue")
    BY <1>1, <1>2, <1>3, <1>4, <1>5 DEF InboundClients!Moves, InboundClients!Goto
  <2> QED BY <1>2, <2>1, ClientsMove, Zenon
<1>6. CASE active' = active /\ InboundClients!Goto(c, "refused")
  <2>1. InboundClients!Moves(c, "refused")
    BY <1>1, <1>2, <1>3, <1>4, <1>6 DEF InboundClients!Moves, InboundClients!Goto
  <2> QED BY <1>2, <2>1, ClientsMove, Zenon
<1> QED BY <1>1, <1>5, <1>6, Zenon

\* The permit of a handshake is taken or not to be had, and given back.
LEMMA ClientsHandshake ==
  ASSUME InboundClients!IInv, NEW c \in Clients,
         InboundClients!HandshakePermit(c) \/ InboundClients!HandshakeFails(c)
           \/ InboundClients!HandshakeDone(c)
  PROVE  InboundClients!IInv'
<1>1. /\ UNCHANGED <<active, dialFree, direct, lost, tracked>>
      /\ \/ clientPc[c] = "queue" /\ hsFree' = hsFree - 1 /\ InboundClients!Goto(c, "handshake")
         \/ clientPc[c] = "queue" /\ hsFree' = hsFree /\ InboundClients!Goto(c, "end")
         \/ clientPc[c] = "handshake" /\ hsFree' = hsFree + 1 /\ InboundClients!Goto(c, "end")
         \/ clientPc[c] = "handshake" /\ hsFree' = hsFree + 1 /\ InboundClients!Goto(c, "check")
  BY Zenon
     DEF InboundClients!HandshakePermit, InboundClients!HandshakeFails, InboundClients!HandshakeDone,
     InboundClients!request, InboundClients!dials
<1>2. /\ clientPc[c] \in InboundClients!Tasks /\ "handshake" \in InboundClients!Tasks
      /\ "end" \in InboundClients!Tasks /\ "check" \in InboundClients!Tasks
  BY <1>1, Zenon DEF InboundClients!Tasks, InboundClients!Dialling
<1>3. c \in tracked => c \in lost
  BY <1>1, ClientsTracked, Zenon DEF InboundClients!Connected
<1>4. active \in Int /\ hsFree \in Int /\ dialFree \in Int /\ direct \in [Clients -> BOOLEAN]
  BY ClientsNumbers, InboundClientsCount, Zenon DEF InboundClients!IInv
<1>5. CASE clientPc[c] = "queue" /\ hsFree' = hsFree - 1 /\ InboundClients!Goto(c, "handshake")
  <2>1. InboundClients!Moves(c, "handshake")
    BY <1>1, <1>2, <1>3, <1>4, <1>5 DEF InboundClients!Moves, InboundClients!Goto
  <2> QED BY <1>2, <2>1, ClientsMove, Zenon
<1>6. CASE clientPc[c] = "queue" /\ hsFree' = hsFree /\ InboundClients!Goto(c, "end")
  <2>1. InboundClients!Moves(c, "end")
    BY <1>1, <1>2, <1>3, <1>4, <1>6 DEF InboundClients!Moves, InboundClients!Goto
  <2> QED BY <1>2, <2>1, ClientsMove, Zenon
<1>7. CASE clientPc[c] = "handshake" /\ hsFree' = hsFree + 1 /\ InboundClients!Goto(c, "end")
  <2>1. InboundClients!Moves(c, "end")
    BY <1>1, <1>2, <1>3, <1>4, <1>7 DEF InboundClients!Moves, InboundClients!Goto
  <2> QED BY <1>2, <2>1, ClientsMove, Zenon
<1>8. CASE clientPc[c] = "handshake" /\ hsFree' = hsFree + 1 /\ InboundClients!Goto(c, "check")
  <2>1. InboundClients!Moves(c, "check")
    BY <1>1, <1>2, <1>3, <1>4, <1>8 DEF InboundClients!Moves, InboundClients!Goto
  <2> QED BY <1>2, <2>1, ClientsMove, Zenon
<1> QED BY <1>1, <1>5, <1>6, <1>7, <1>8, Zenon

\* A direct dial needs no permit and another waits for one.
LEMMA ClientsResolved ==
  ASSUME InboundClients!IInv, NEW c \in Clients, InboundClients!Resolved(c)
  PROVE  InboundClients!IInv'
<1>1. PICK d \in BOOLEAN :
        /\ direct' = [direct EXCEPT ![c] = d]
        /\ InboundClients!Goto(c, IF d THEN "dial" ELSE "permit")
        /\ tracked' = IF d THEN tracked \cup {c} ELSE tracked
  BY Zenon DEF InboundClients!Resolved
<1>2. clientPc[c] = "resolve" /\ UNCHANGED <<active, hsFree, dialFree, lost>>
  BY Zenon DEF InboundClients!Resolved, InboundClients!permits
<1>3. /\ clientPc[c] \in InboundClients!Tasks /\ "dial" \in InboundClients!Tasks
      /\ "permit" \in InboundClients!Tasks
  BY <1>2, Zenon DEF InboundClients!Tasks, InboundClients!Dialling
<1>4. c \in tracked => c \in lost
  BY <1>2, ClientsTracked, Zenon DEF InboundClients!Connected
<1>5. active \in Int /\ hsFree \in Int /\ dialFree \in Int
  BY ClientsNumbers, Zenon
<1>6. direct' \in [Clients -> BOOLEAN] /\ direct'[c] = d /\ \A e \in Clients :
        e # c => direct'[e] = direct[e]
  BY <1>1, InboundClientsCount, Zenon DEF InboundClients!IInv
<1>7. CASE d
  <2>1. InboundClients!Moves(c, "dial")
    BY <1>1, <1>2, <1>3, <1>4, <1>5, <1>6, <1>7 DEF InboundClients!Moves, InboundClients!Goto
  <2> QED BY <1>3, <2>1, ClientsMove, Zenon
<1>8. CASE ~d
  <2>1. InboundClients!Moves(c, "permit")
    BY <1>1, <1>2, <1>3, <1>4, <1>5, <1>6, <1>8 DEF InboundClients!Moves, InboundClients!Goto
  <2> QED BY <1>3, <2>1, ClientsMove, Zenon
<1> QED BY <1>7, <1>8, Zenon

\* A permit is taken for the dial, or the wait times out.
LEMMA ClientsDialPermit ==
  ASSUME InboundClients!IInv, NEW c \in Clients, InboundClients!DialPermit(c)
  PROVE  InboundClients!IInv'
<1>1. /\ clientPc[c] = "permit" /\ UNCHANGED <<active, hsFree, direct, lost>>
      /\ \/ dialFree' = dialFree - 1 /\ InboundClients!Goto(c, "dial") /\ tracked' = tracked \cup {c}
         \/ InboundClients!Goto(c, "end") /\ UNCHANGED <<dialFree, tracked>>
  BY Zenon DEF InboundClients!DialPermit, InboundClients!request
<1>2. /\ clientPc[c] \in InboundClients!Tasks /\ "dial" \in InboundClients!Tasks
      /\ "end" \in InboundClients!Tasks
  BY <1>1, Zenon DEF InboundClients!Tasks, InboundClients!Dialling
<1>3. c \in tracked => c \in lost
  BY <1>1, ClientsTracked, Zenon DEF InboundClients!Connected
<1>4. /\ active \in Int /\ hsFree \in Int /\ dialFree \in Int /\ direct \in [Clients -> BOOLEAN]
      /\ ~direct[c]
  BY <1>1, ClientsNumbers, InboundClientsCount, Zenon DEF InboundClients!IInv
<1>5. CASE dialFree' = dialFree - 1 /\ InboundClients!Goto(c, "dial") /\ tracked' = tracked \cup {c}
  <2>1. InboundClients!Moves(c, "dial")
    BY <1>1, <1>2, <1>3, <1>4, <1>5 DEF InboundClients!Moves, InboundClients!Goto
  <2> QED BY <1>2, <2>1, ClientsMove, Zenon
<1>6. CASE InboundClients!Goto(c, "end") /\ UNCHANGED <<dialFree, tracked>>
  <2>1. InboundClients!Moves(c, "end")
    BY <1>1, <1>2, <1>3, <1>4, <1>6 DEF InboundClients!Moves, InboundClients!Goto
  <2> QED BY <1>2, <2>1, ClientsMove, Zenon
<1> QED BY <1>1, <1>5, <1>6, Zenon

\* The end of a task is counted.
LEMMA ClientsFinish ==
  ASSUME InboundClients!IInv, NEW c \in Clients, InboundClients!Finish(c)
  PROVE  InboundClients!IInv'
<1>1. /\ clientPc[c] = "end" /\ active' = active - 1
      /\ clientPc' = [clientPc EXCEPT ![c] = "closed"]
      /\ direct' = [direct EXCEPT ![c] = FALSE] /\ UNCHANGED <<hsFree, dialFree, lost, tracked>>
  BY Zenon DEF InboundClients!Finish, InboundClients!permits, InboundClients!dials, InboundClients!Goto
<1>2. clientPc[c] \in InboundClients!Tasks /\ "closed" \notin InboundClients!Tasks
  BY <1>1, Zenon DEF InboundClients!Tasks, InboundClients!Dialling, InboundClients!Connected
<1>3. c \in tracked => c \in lost
  BY <1>1, ClientsTracked, Zenon DEF InboundClients!Connected
<1>4. active \in Int /\ hsFree \in Int /\ dialFree \in Int
  BY ClientsNumbers, Zenon
<1>5. direct' \in [Clients -> BOOLEAN] /\ \A e \in Clients : e # c => direct'[e] = direct[e]
  BY <1>1, InboundClientsCount, Zenon DEF InboundClients!IInv
<1>6. InboundClients!Moves(c, "closed")
  BY <1>1, <1>2, <1>3, <1>4, <1>5 DEF InboundClients!Moves
<1> QED BY <1>6, ClientsMove, Zenon

\* Nobody has come.
LEMMA ClientsInit == InboundClients!Init => InboundClients!IInv
<1> SUFFICES ASSUME InboundClients!Init PROVE InboundClients!IInv
  BY Zenon
<1>1. \A c \in Clients : clientPc[c] = "out" /\ "out" \notin InboundClients!Tasks
  BY Zenon
     DEF InboundClients!Init, InboundClients!Tasks, InboundClients!Dialling, InboundClients!Connected
<1>2. InboundClients!Active = {} /\ InboundClients!Shaking = {} /\ InboundClients!Holding = {}
  BY <1>1, Zenon DEF InboundClients!Active, InboundClients!Shaking, InboundClients!Holding
<1>3. Cardinality({}) = 0
  BY FS_EmptySet, Zenon
<1>4. active = 0 /\ hsFree = HandshakePermits /\ dialFree = DialPermits /\ tracked = {}
  BY Zenon DEF InboundClients!Init
<1>5. /\ clientPc \in [Clients -> {"out", "refused", "closed"} \cup InboundClients!Tasks]
      /\ direct \in [Clients -> BOOLEAN]
  BY Zenon DEF InboundClients!Init
<1> QED BY <1>1, <1>2, <1>3, <1>4, <1>5, ClientsAssumption, InboundClientsCount
           DEF InboundClients!IInv, InboundClients!UntrackedUnlessLost

\* Every step keeps the invariant.
LEMMA ClientsInvariance ==
  InboundClients!IInv /\ [InboundClients!Next]_(InboundClients!vars)
    => InboundClients!IInv'
<1> SUFFICES ASSUME InboundClients!IInv, [InboundClients!Next]_(InboundClients!vars)
             PROVE  InboundClients!IInv'
  BY Zenon
<1>1. CASE UNCHANGED InboundClients!vars
  BY <1>1, ClientsStay, Zenon DEF InboundClients!vars, InboundClients!request
<1>2. CASE InboundClients!Close
  BY <1>2, ClientsStay, Zenon DEF InboundClients!Close, InboundClients!request
<1>3. ASSUME NEW c \in Clients, InboundClients!Peers(c) \/ InboundClients!Timers(c)
      PROVE  InboundClients!IInv'
  <2>1. CASE InboundClients!ClientHangsUp(c)
    BY <2>1, ClientsStay, Zenon DEF InboundClients!ClientHangsUp, InboundClients!request
  <2> QED BY <1>3, <2>1, ClientsAccept, ClientsHandshake, ClientsResolved, ClientsDialPermit,
             ClientsFinish, ClientsPasses, Zenon DEF InboundClients!Peers, InboundClients!Timers
<1> QED BY <1>1, <1>2, <1>3, Zenon DEF InboundClients!Next

\* The invariant says what is held.
LEMMA ClientsHold ==
  InboundClients!IInv
    => InboundClients!PermitsBalanced /\ InboundClients!UntrackedUnlessLost
<1> SUFFICES ASSUME InboundClients!IInv
             PROVE  InboundClients!PermitsBalanced /\ InboundClients!UntrackedUnlessLost
  BY Zenon
<1>1. Cardinality(InboundClients!Shaking) \in Nat /\ Cardinality(InboundClients!Holding) \in Nat
  BY ClientsAssumption, FS_Subset, FS_CardinalityType, Zenon
     DEF InboundClients!Shaking, InboundClients!Holding
<1>2. /\ active = Cardinality(InboundClients!Active)
      /\ hsFree + Cardinality(InboundClients!Shaking) = HandshakePermits
      /\ dialFree + Cardinality(InboundClients!Holding) = DialPermits
  BY <1>1, ClientsAssumption, InboundClientsCount DEF InboundClients!IInv
<1> QED BY <1>2, InboundClientsCount, Zenon DEF InboundClients!IInv, InboundClients!PermitsBalanced,
           InboundClients!Active, InboundClients!Shaking, InboundClients!Holding
-----------------------------------------------------------------------------
(* The run: one of the components.                                          *)

ProxyHandshake == INSTANCE ProxyHandshake WITH
  MaxData <- 3,
  script <- v1, wire <- v2, closed <- v3, buf <- v4, request <- v5, pc <- v6,
  kind <- v7, first <- v8, out <- v9
VlessTrojan == INSTANCE VlessTrojan WITH
  MaxUp <- 2, MaxDown <- 2,
  server <- v1, waits <- v2, pieces <- v3, dest <- v4, listed <- v5, cpc <- v6,
  spc <- v7, up <- v8, down <- v9, got <- v10, steps <- v11, rest <- v12,
  dialled <- v13, sent <- v14, back <- v15, remote <- v16, response_read <- v17,
  caller <- v18
RealityTls == INSTANCE RealityTls WITH
  Skews <- {-3,-2,0,2,3}, MaxDiff <- 0, ShortIds <- {<<1,0>>,<<1,2>>,<<2,1>>},
  Allowed <- {<<1,2>>,<<2,0>>}, MaxData <- 2,
  setup <- v1, cpc <- v2, spc <- v3, c2s <- v4, s2c <- v5, hello <- v6, keys <- v7,
  seqs <- v8, got <- v9, broken <- v10
ShadowTls == INSTANCE ShadowTls WITH
  MaxTickets <- 2, MaxData <- 2,
  known <- v1, tls13 <- v2, strict <- v3, client <- v4, server <- v5, c2s <- v6,
  s2c <- v7, site <- v8, sent <- v9, finished <- v10, writeMac <- v11,
  readMac <- v12, authorized <- v13, authDone <- v14, s2cTask <- v15,
  ignore <- v16, pending <- v17, chain <- v18, data <- v19, got <- v20,
  late <- v21, first <- v22
StreamUdp == INSTANCE StreamUdp WITH
  Senders <- {1,2}, Targets <- {"t1","t2"}, MaxSends <- 2, MaxFrames <- 2,
  format <- v1, lock <- v2, pc <- v3, job <- v4, seen <- v5, isNew <- v6,
  wire <- v7, broken <- v8, sends <- v9, incoming <- v10, frames <- v11,
  reader <- v12, last <- v13, queue <- v14, socket <- v15, received <- v16
RsqFragments == INSTANCE RsqFragments WITH
  MaxPackets <- 3, IdSpace <- 2, MaxCount <- 3, Lengths <- {1,2,3,4},
  Addrs <- {"a","b"}, MaxPending <- 1, MaxNet <- 2,
  sent <- v1, queue <- v2, net <- v3, packets <- v4, out <- v5
ObfsSocket == INSTANCE ObfsSocket WITH
  Peers <- {"p", "q"}, PacketLen <- 2, MaxPads <- 1, Batch <- 3, MaxSent <- 3,
  kind <- v1, offload <- v2, sent <- v3, wire <- v4, given <- v5, noise <- v6
TcpReply == INSTANCE TcpReply WITH
  MsgLens <- {2, 63, 64}, PadLens <- {0, 2, 65}, DataLens <- {0, 3}, MaxPiece <- 3,
  want <- v1, wire <- v2, buf <- v3, out <- v4

\* The request while another component runs.
Quiet == Init /\ rules = <<>> /\ ~domain /\ dest = far /\ defaultTag = node

\* The state of a component that does not run.
NoClients ==
  /\ open = "idle" /\ active = "idle" /\ hsFree = "idle" /\ dialFree = "idle"
  /\ clientPc = "idle" /\ asked = "idle" /\ direct = "idle" /\ early = "idle"
  /\ gone = "idle" /\ tracked = "idle" /\ lost = "idle"
NoAccept ==
  /\ listens = "idle" /\ status = "idle" /\ loop = "idle" /\ shutdown = "idle"
  /\ aborted = "idle" /\ port = "idle" /\ backlog = "idle" /\ conns = "idle"
  /\ broken = "idle"
NoTun ==
  /\ gen = "idle" /\ tunPc = "idle" /\ tries = "idle" /\ installed = "idle"
  /\ recorded = "idle" /\ reader = "idle" /\ dev = "idle" /\ table = "idle"
  /\ flow = "idle" /\ up = "idle" /\ app = "idle" /\ remote = "idle"

MCInit ==
  /\ part \in {"route", "clients", "accept", "tun", "handshake", "vless",
              "reality", "shadowtls", "streamudp", "fragments", "obfs",
              "reply"}
  /\ IF part = "route" THEN Init ELSE Quiet
  /\ IF part = "clients" THEN InboundClients!Init ELSE NoClients
  /\ IF part = "accept" THEN AcceptLoop!Init ELSE NoAccept
  /\ IF part = "tun" THEN TunInbound!Init ELSE NoTun
  /\ \/ part \in {"route", "clients", "accept", "tun"} /\ Idle1
     \/ part = "handshake" /\ ProxyHandshake!Init /\ Idle10
     \/ part = "vless" /\ VlessTrojan!Init /\ Idle19
     \/ part = "reality" /\ RealityTls!Init /\ Idle11
     \/ part = "shadowtls" /\ ShadowTls!Init
     \/ part = "streamudp" /\ StreamUdp!Init /\ Idle17
     \/ part = "fragments" /\ RsqFragments!Init /\ Idle6
     \/ part = "obfs" /\ ObfsSocket!Init /\ Idle7
     \/ part = "reply" /\ TcpReply!Init /\ Idle5

\* The components that do not run keep their state.
OthersStay ==
  /\ UNCHANGED part
  /\ IF part = "route" THEN TRUE ELSE UNCHANGED vars
  /\ IF part = "clients" THEN TRUE ELSE UNCHANGED ofClients
  /\ IF part = "accept" THEN TRUE ELSE UNCHANGED ofAccept
  /\ IF part = "tun" THEN TRUE ELSE UNCHANGED ofTun
  /\ IF part \in {"route", "clients", "accept", "tun"} THEN UNCHANGED from1 ELSE TRUE

MCNext ==
  \/ part = "route" /\ Next /\ OthersStay
  \/ part = "clients" /\ InboundClients!Next /\ OthersStay
  \/ part = "accept" /\ AcceptLoop!Next /\ OthersStay
  \/ part = "tun" /\ TunInbound!Next /\ OthersStay
  \/ part = "handshake" /\ ProxyHandshake!Next /\ UNCHANGED from10 /\ OthersStay
  \/ part = "vless" /\ VlessTrojan!Next /\ UNCHANGED from19 /\ OthersStay
  \/ part = "reality" /\ RealityTls!Next /\ UNCHANGED from11 /\ OthersStay
  \/ part = "shadowtls" /\ ShadowTls!Next /\ OthersStay
  \/ part = "streamudp" /\ StreamUdp!Next /\ UNCHANGED from17 /\ OthersStay
  \/ part = "fragments" /\ RsqFragments!Next /\ UNCHANGED from6 /\ OthersStay
  \/ part = "obfs" /\ ObfsSocket!Next /\ UNCHANGED from7 /\ OthersStay
  \/ part = "reply" /\ TcpReply!Next /\ UNCHANGED from5 /\ OthersStay

\* What is fair while a component runs, as in its module.
MCFairness ==
  /\ \A c \in Clients : WF_ofClients(part = "clients" /\ InboundClients!Timers(c))
  /\ \A i \in 1..2 : WF_ofAccept(part = "accept" /\ AcceptLoop!SeeShutdown(i))
  /\ \A i \in 1..2 : WF_ofAccept(part = "accept" /\ AcceptLoop!Drop(i))

MCSpec == MCInit /\ [][MCNext]_state /\ MCFairness
-----------------------------------------------------------------------------
\* Every component keeps its types.
TypesOK ==
  /\ TypeOK
  /\ part = "clients" => InboundClients!TypeOK
  /\ part = "accept" => AcceptLoop!TypeOK
  /\ part = "tun" => TunInbound!TypeOK
  /\ part = "handshake" => ProxyHandshake!TypeOK
  /\ part = "vless" => VlessTrojan!TypeOK
  /\ part = "reality" => RealityTls!TypeOK
  /\ part = "shadowtls" => ShadowTls!TypeOK
  /\ part = "streamudp" => StreamUdp!TypeOK
  /\ part = "fragments" => RsqFragments!TypeOK
  /\ part = "obfs" => ObfsSocket!TypeOK
  /\ part = "reply" => TcpReply!TypeOK

\* What was taken is held, and given back: the permits in use are those of the
\* clients that hold them, a client that is gone is tracked only if its future
\* was dropped, a listener holds its address while it runs, TUN serves with
\* all its routes and none is left that nobody will remove, and a flow ends as
\* a whole.
GivenBack ==
  /\ part = "clients" => InboundClients!PermitsBalanced
  /\ part = "clients" => InboundClients!UntrackedUnlessLost
  /\ part = "accept" => AcceptLoop!HoldsItsAddress
  /\ part = "tun" => TunInbound!ServesWithAllRoutes
  /\ part = "tun" => TunInbound!NoRouteUnaccounted
  /\ part = "tun" => TunInbound!FlowEndsWhole

\* A tunnel carries what was sent behind its handshake, however it is cut into
\* pieces: the destination gets the client's bytes from the first one on and,
\* for a plain request, the request rewritten; the server dials what the
\* client asked for before it says so, and the caller reads payload, never a
\* header.
TunnelsTransparent ==
  /\ part = "handshake" => ProxyHandshake!TunnelIsTransparent
  /\ part = "handshake" => ProxyHandshake!ForwardedRequest
  /\ part = "vless" => VlessTrojan!NothingSkipped
  /\ part = "vless" => VlessTrojan!DialsTheDestination
  /\ part = "vless" => VlessTrojan!OpenMeansDialled
  /\ part = "vless" => VlessTrojan!CallerReadsPayload



\* Tasks end: a client's task does unless it forwards early data, and the
\* address of a listener that was closed comes back, even when the close finds
\* the loop being polled.
\* (The clients are interchangeable, so one stands for all; part never changes,
\* so one formula serves both components.)
OneClient == CHOOSE c \in Clients : TRUE
Waits(i) ==
  \/ part = "clients" /\ InboundClients!Queued(OneClient)
  \/ part = "accept" /\ AcceptLoop!Closed(i)
HasEnded(i) ==
  /\ part = "clients" => InboundClients!ClosedOrEarly(OneClient)
  /\ part = "accept" => AcceptLoop!Released(i)
-----------------------------------------------------------------------------
\* The inductive invariant: that of the request, and of the component that runs.
MCInv ==
  /\ IInv
  /\ part = "clients" => InboundClients!IInv
  /\ part = "accept" => AcceptLoop!IInv
  /\ part = "tun" => TunInbound!IInv

\* Every component starts in a state of its invariant.
LEMMA InboundInit == MCInit => MCInv
BY InitIInv, ClientsInit, AcceptInit, TunInit, Zenon DEF MCInit, MCInv, Quiet

\* A step of the run is one of the component that runs, and no step of another.
LEMMA InboundSteps ==
  ASSUME [MCNext]_state
  PROVE  /\ part' = part /\ [Next]_vars
         /\ part = "clients" => [InboundClients!Next]_(InboundClients!vars)
         /\ part = "accept" => [AcceptLoop!Next]_(AcceptLoop!vars)
         /\ part = "tun" => [TunInbound!Next]_(TunInbound!vars)
BY Zenon DEF MCNext, OthersStay, state, ofClients, ofAccept, ofTun, InboundClients!vars,
   InboundClients!request, InboundClients!permits, InboundClients!dials, AcceptLoop!vars,
   TunInbound!vars, TunInbound!host, TunInbound!udp

\* Every run stays in the invariant.
LEMMA InboundInvariant == MCSpec => []MCInv
<1>1. ASSUME MCInv, [MCNext]_state PROVE MCInv'
  BY <1>1, InboundSteps, StepIInv, ClientsInvariance, AcceptInvariance, TunInvariance, Zenon DEF MCInv
<1>2. MCInv /\ [MCNext]_state => MCInv'
  BY <1>1, Zenon
<1> QED BY <1>2, InboundInit, PTL DEF MCSpec

\* With any rules that neither list ports nor the placeholder, the second
\* routing (Dialer::dial_tcp) of a name keeps a direct decision of the first
\* (resolve_for_connect).
THEOREM DirectDecisionKept == MCSpec => []DirectNamesStayDirect
<1>1. MCInv => DirectNamesStayDirect
  BY Zenon DEF MCInv, IInv
<1> QED BY <1>1, InboundInvariant, PTL

\* Permits, the count of connections, addresses and routes are given back, for
\* any number of clients, permits, connections, generations and routes.
THEOREM TakenIsGivenBack == MCSpec => []GivenBack
<1>1. MCInv => GivenBack
  BY ClientsHold, AcceptHolds, TunHolds, Zenon DEF MCInv, GivenBack
<1> QED BY <1>1, InboundInvariant, PTL
=============================================================================
