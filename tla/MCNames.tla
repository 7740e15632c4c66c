------------------------------ MODULE MCNames ------------------------------
(***************************************************************************)
(* Names and what is kept about them: the lookups that share a gate, the    *)
(* choice of an upstream, raw exchanges, compiled rule sets and how they    *)
(* are loaded; the reload of a configuration, the process and its library   *)
(* interface, provider nodes, and the file of the selectors' choices, with  *)
(* the proofs about all of them but the rule sets.                          *)
(* One run checks several components that share no state: a behaviour is    *)
(* one of the component that part names.  The components proved about have  *)
(* variables and constants of their own; the others are on the instance     *)
(* given here, and the variables v1, v2, ... hold the state of the one      *)
(* that runs.                                                               *)
(***************************************************************************)
EXTENDS DnsLookup, Sequences, FiniteSets, TLAPS

CONSTANTS
  DnsRouters, Main, Services, NoRouter, MaxServers,          \* of the upstreams
  Peers, Ids, Tasks, Lists, Service, MaxQueries, MaxToggles, \* of raw exchanges
  Reloads, Configs,                                          \* of reloads
  MaxStarts, MaxReloads,                                     \* of the process
  Configured, Selectors, LinkNames, Protocols, MaxLines,     \* of the providers
  Groups, Members, Default, Requests, MaxRuns,               \* of the cache file
  Absent                                                     \* no value

\* The router that is asked is one, no reload is named like the absence of one,
\* the configured tags are a number of them, and the providers are in sequence.
ASSUME RouterAssumption == Main \in DnsRouters
ASSUME ReloadAssumption == Absent \notin Reloads
ASSUME ProviderAssumption == Cardinality(Configured) \in Nat /\ Selectors \in Seq(STRING)

VARIABLES
  part,  \* the component that runs
  servers, preferred, registry, current, pinned, attempted, todo, upPc,
  answer,
  main, registered, toggles, running, queries, arrived, buf, task, query,
  onService, pos, answered,
  users, options, managed, listening, local, lock, reloadPc, conf, overlap,
  stage, boxRunning, held, boxRegistry, resolved, instance, failed, reloads,
  outbounds, tags, provider, lines, nodeTags, mergePc,
  up, selected, cache, file, reqPc, req, snap, overlapped, starts,
  v1, v2, v3, v4, v5, v6, v7, v8, v9  \* of the others

\* The registers, the last of which one of the components does not use.
from9 == <<v9>>
from1 == <<v1, v2, v3, v4, v5, v6, v7, v8, v9>>
Idle9 == v9 = "idle"
Idle1 ==
  /\ v1 = "idle" /\ v2 = "idle" /\ v3 = "idle" /\ v4 = "idle" /\ v5 = "idle"
  /\ v6 = "idle" /\ v7 = "idle" /\ v8 = "idle" /\ Idle9

\* The state of each component.
ofUpstream == <<servers, preferred, registry, current, pinned, attempted,
                todo, upPc, answer>>
ofExchange == <<main, registered, toggles, running, queries, arrived, buf,
                task, query, onService, pos, answered>>
ofReload == <<users, options, managed, listening, local, lock, reloadPc,
              conf, overlap>>
ofBox == <<stage, boxRunning, held, boxRegistry, resolved, instance, failed,
           reloads>>
ofProviders == <<outbounds, tags, provider, lines, nodeTags, mergePc>>
ofCache == <<up, selected, cache, file, reqPc, req, snap, overlapped, starts>>
state == <<part, vars, ofUpstream, ofExchange, ofReload, ofBox, ofProviders, ofCache, from1>>
-----------------------------------------------------------------------------
(* The lookups that share a gate.                                           *)

\* No lookup is under way in a new router.
LEMMA LookupInit == Init => IInv
<1> SUFFICES ASSUME Init PROVE IInv BY Zenon
<1>1. TypeOK
  <2>1. gates \in Nat /\ gate \in 0..gates
    BY DEF Init
  <2>2. cached \in BOOLEAN
    BY Zenon DEF Init
  <2>3. mine \in [Lookups -> 0..gates]
    BY DEF Init
  <2>4. pc \in [Lookups -> {"start"}]
    BY Zenon DEF Init
  <2> QED BY <2>1, <2>2, <2>3, <2>4, Zenon DEF TypeOK
<1>2. \A l \in Lookups : pc[l] = "start"
  BY Zenon DEF Init
<1> QED BY <1>1, <1>2, Zenon DEF IInv, GateExclusive, Waiters, Queriers, Removers, Inside

\* No step of a lookup, its caller or the clock breaks the type invariant.
LEMMA LookupTypes ==
  ASSUME TypeOK, [Next]_vars PROVE TypeOK'
<1>1. CASE Expire
  BY <1>1, Zenon DEF TypeOK, Expire
<1>2. ASSUME NEW l \in Lookups, TakeGate(l) PROVE TypeOK'
  <2>1. gates' \in Nat /\ gates <= gates' /\ gate' \in 0..gates'
    BY <1>2 DEF TypeOK, TakeGate
  <2>2. mine' = [mine EXCEPT ![l] = gate'] /\ cached' = cached
    BY <1>2, Zenon DEF TakeGate
  <2>3. mine' \in [Lookups -> 0..gates']
    BY <2>1, <2>2 DEF TypeOK
  <2>4. pc' = [pc EXCEPT ![l] = "lock"]
    BY <1>2, Zenon DEF TakeGate, Goto
  <2> QED BY <2>1, <2>2, <2>3, <2>4, Zenon DEF TypeOK
<1>3. ASSUME NEW l \in Lookups, Lookup(l), ~TakeGate(l) PROVE TypeOK'
  <2> USE <1>3 DEF TypeOK, Goto, Final
  <2>1. CASE CacheGet(l) BY <2>1, Zenon DEF CacheGet
  <2>2. CASE Lock(l) BY <2>2, Zenon DEF Lock
  <2>3. CASE Recheck(l) BY <2>3, Zenon DEF Recheck
  <2>4. CASE QueryOk(l) BY <2>4, Zenon DEF QueryOk
  <2>5. CASE QueryFail(l) BY <2>5, Zenon DEF QueryFail
  <2>6. CASE CachePut(l) BY <2>6, Zenon DEF CachePut
  <2>7. CASE RemoveGate(l) BY <2>7 DEF RemoveGate
  <2> QED BY <2>1, <2>2, <2>3, <2>4, <2>5, <2>6, <2>7, Zenon DEF Lookup
<1>4. ASSUME NEW l \in Lookups, Cancel(l) PROVE TypeOK'
  BY <1>4, Zenon DEF TypeOK, Cancel, Goto, Final
<1>5. CASE UNCHANGED vars
  BY <1>5, Zenon DEF TypeOK, vars
<1> QED BY <1>1, <1>2, <1>3, <1>4, <1>5, Zenon DEF Next

\* Steps keep the four facts that SingleFlight rests on.
LEMMA LookupGates ==
  ASSUME IInv, [Next]_vars
  PROVE GateExclusive' /\ Waiters' /\ Queriers' /\ Removers'
<1> USE DEF IInv, TypeOK, GateExclusive, Waiters, Queriers, Removers, Inside
<1>1. CASE Expire
  BY <1>1, Zenon DEF Expire
<1>2. ASSUME NEW l \in Lookups, CacheGet(l)
      PROVE GateExclusive' /\ Waiters' /\ Queriers' /\ Removers'
  BY <1>2, Zenon DEF CacheGet, Goto
<1>3. ASSUME NEW l \in Lookups, TakeGate(l)
      PROVE GateExclusive' /\ Waiters' /\ Queriers' /\ Removers'
  <2>1. gate' # 0 /\ (gate # 0 => gate' = gate) /\ cached' = cached
    BY <1>3 DEF TakeGate
  <2>2. pc[l] = "gate" /\ pc'[l] = "lock" /\ mine'[l] = gate'
    BY <1>3, Zenon DEF TakeGate, Goto
  <2>3. \A k \in Lookups : k # l => pc'[k] = pc[k] /\ mine'[k] = mine[k]
    BY <1>3, Zenon DEF TakeGate, Goto
  <2> QED BY <2>1, <2>2, <2>3
<1>4. ASSUME NEW l \in Lookups, Lock(l)
      PROVE GateExclusive' /\ Waiters' /\ Queriers' /\ Removers'
  BY <1>4, Zenon DEF Lock, Goto, Locked
<1>5. ASSUME NEW l \in Lookups, Recheck(l)
      PROVE GateExclusive' /\ Waiters' /\ Queriers' /\ Removers'
  BY <1>5 DEF Recheck, Goto
<1>6. ASSUME NEW l \in Lookups, QueryOk(l) \/ QueryFail(l) \/ Cancel(l)
      PROVE GateExclusive' /\ Waiters' /\ Queriers' /\ Removers'
  BY <1>6 DEF QueryOk, QueryFail, Cancel, Goto
<1>7. ASSUME NEW l \in Lookups, CachePut(l)
      PROVE GateExclusive' /\ Waiters' /\ Queriers' /\ Removers'
  <2>1. pc[l] = "put" /\ pc'[l] = "remove" /\ cached' /\ gate' = gate /\ mine' = mine
    BY <1>7, Zenon DEF CachePut, Goto
  <2>2. \A k \in Lookups : k # l => pc'[k] = pc[k]
    BY <1>7, Zenon DEF CachePut, Goto
  <2>3. \A k \in Lookups : k # l => pc[k] \notin {"query", "put"}
    BY <2>1, Zenon
  <2> QED BY <2>1, <2>2, <2>3, Zenon
<1>8. ASSUME NEW l \in Lookups, RemoveGate(l)
      PROVE GateExclusive' /\ Waiters' /\ Queriers' /\ Removers'
  <2>1. cached /\ cached' = cached /\ mine' = mine
    BY <1>8, Zenon DEF RemoveGate
  <2>2. pc'[l] = "ok" /\ \A k \in Lookups : k # l => pc'[k] = pc[k]
    BY <1>8, Zenon DEF RemoveGate, Goto
  <2> QED BY <2>1, <2>2, Zenon
<1>9. CASE UNCHANGED vars
  BY <1>9, Zenon DEF vars
<1> QED BY <1>1, <1>2, <1>3, <1>4, <1>5, <1>6, <1>7, <1>8, <1>9, Zenon DEF Next, Lookup

\* Every step of a lookup, its caller or the clock keeps the invariant.
LEMMA LookupInvariance == IInv /\ [Next]_vars => IInv'
BY LookupTypes, LookupGates, Zenon DEF IInv
-----------------------------------------------------------------------------
(* The reload of a configuration.                                           *)

ConfigReload == INSTANCE ConfigReload WITH
  None <- Absent, pc <- reloadPc

\* No reload has begun.
LEMMA ReloadInit == ConfigReload!Init => ConfigReload!IInv
<1> SUFFICES ASSUME ConfigReload!Init PROVE ConfigReload!IInv
  BY Zenon
<1>1. ConfigReload!TypeOK
  <2>1. overlap \in BOOLEAN
    BY Zenon DEF ConfigReload!Init
  <2>2. conf \in [Reloads -> Configs \cup {Absent}] /\ reloadPc \in [Reloads -> {"idle"}]
    BY Zenon DEF ConfigReload!Init
  <2> QED BY <2>1, <2>2, ReloadAssumption, Zenon
             DEF ConfigReload!Init, ConfigReload!TypeOK, ConfigReload!Amounts, ConfigReload!Ended
<1>2. \A r \in Reloads : ~ConfigReload!Busy(r)
  BY Zenon DEF ConfigReload!Init, ConfigReload!Busy
<1> QED BY <1>1, <1>2, Zenon DEF ConfigReload!Init, ConfigReload!IInv, ConfigReload!ServedMatchesStored,
           ConfigReload!SoloReloadApplies

\* A reload that begins while no other runs finds everything on one configuration.
LEMMA ReloadBegins ==
  ASSUME ConfigReload!IInv, NEW r \in Reloads, ConfigReload!Begin(r), NEW l \in {"ingest", "users"},
         NEW c \in Configs,
         reloadPc' = [reloadPc EXCEPT ![r] = l], conf' = [conf EXCEPT ![r] = c],
         l = "users" => c = options, users' = {}
  PROVE  ConfigReload!IInv'
<1>1. /\ reloadPc[r] = "idle" /\ UNCHANGED <<options, managed, listening, local, lock>>
      /\ overlap' = (overlap \/ ConfigReload!Running # {})
  BY Zenon DEF ConfigReload!Begin, ConfigReload!inbounds
<1>2. /\ reloadPc'[r] = l /\ conf'[r] = c
      /\ \A q \in Reloads : q # r => reloadPc'[q] = reloadPc[q] /\ conf'[q] = conf[q]
  BY Zenon DEF ConfigReload!IInv, ConfigReload!TypeOK
<1>3. ConfigReload!TypeOK'
  <2>1. overlap' \in BOOLEAN
    BY <1>1, Zenon DEF ConfigReload!IInv, ConfigReload!TypeOK
  <2>2. conf' \in [Reloads -> Configs \cup {Absent}]
    BY Zenon DEF ConfigReload!IInv, ConfigReload!TypeOK
  <2> QED BY <1>1, <1>2, <2>1, <2>2, Zenon DEF ConfigReload!IInv, ConfigReload!TypeOK
<1>4. \A q \in Reloads : ConfigReload!Busy(q)' => conf'[q] \in Configs /\ ConfigReload!HolderAt(q)'
  BY <1>1, <1>2, Zenon DEF ConfigReload!IInv, ConfigReload!Busy, ConfigReload!HolderAt
<1>5. ASSUME ~overlap' PROVE ~overlap /\ \A q \in Reloads : ~ConfigReload!Busy(q)
  BY <1>1, <1>5, Zenon DEF ConfigReload!Running
<1>6. ~overlap' => \A p, q \in Reloads : ConfigReload!Busy(p)' /\ ConfigReload!Busy(q)' => p = q
  BY <1>2, <1>5, Zenon DEF ConfigReload!Busy
<1>7. ASSUME ~overlap', \A q \in Reloads : reloadPc'[q] # "failed", NEW q \in Reloads,
             ConfigReload!Busy(q)'
      PROVE  ConfigReload!SoloAt(q)'
  <2>1. q = r
    BY <1>2, <1>5, <1>7, Zenon DEF ConfigReload!Busy
  <2>2. \A p \in Reloads : reloadPc[p] \in {"idle", "done"}
    BY <1>1, <1>2, <1>5, <1>7, Zenon
       DEF ConfigReload!IInv, ConfigReload!TypeOK, ConfigReload!Busy, ConfigReload!Ended
  <2>3. managed = options /\ listening = "all"
    BY <1>5, <1>7, <2>2, Zenon DEF ConfigReload!IInv, ConfigReload!SoloReloadApplies
  <2> QED BY <1>1, <1>2, <2>1, <2>3, Zenon DEF ConfigReload!SoloAt
<1>8. ConfigReload!ServedMatchesStored' /\ ConfigReload!SoloReloadApplies'
  BY <1>1, <1>2, Zenon
     DEF ConfigReload!IInv, ConfigReload!ServedMatchesStored, ConfigReload!SoloReloadApplies
<1> QED BY <1>3, <1>4, <1>6, <1>7, <1>8, Zenon DEF ConfigReload!IInv

\* A reload begins, of a new configuration or of the stored one.
LEMMA ReloadClear ==
  ASSUME ConfigReload!IInv, NEW r \in Reloads,
         ConfigReload!ClearUsers(r) \/ ConfigReload!ClearStoredUsers(r)
  PROVE  ConfigReload!IInv'
<1>1. CASE ConfigReload!ClearUsers(r)
  <2>1. PICK c \in Configs : conf' = [conf EXCEPT ![r] = c]
    BY <1>1, Zenon DEF ConfigReload!ClearUsers
  <2> QED BY <1>1, <2>1, ReloadBegins, Zenon DEF ConfigReload!ClearUsers, ConfigReload!Goto
<1>2. CASE ConfigReload!ClearStoredUsers(r)
  <2>1. options \in Configs
    BY Zenon DEF ConfigReload!IInv, ConfigReload!TypeOK
  <2> QED BY <1>2, <2>1, ReloadBegins, Zenon DEF ConfigReload!ClearStoredUsers, ConfigReload!Goto
<1> QED BY <1>1, <1>2, Zenon

\* A step of a reload to l keeps the invariant if it keeps what is said of the
\* reload, of the holder of the lock and of the inbounds.
LEMMA ReloadGoesOn ==
  ASSUME ConfigReload!IInv, NEW r \in Reloads, ConfigReload!Busy(r),
         NEW l \in {"context", "lock", "close", "build", "start", "store", "done", "failed"},
         reloadPc' = [reloadPc EXCEPT ![r] = l], UNCHANGED <<conf, overlap>>, ConfigReload!TypeOK',
         l \notin ConfigReload!Ended => ConfigReload!HolderAt(r)',
         \A q \in Reloads \ {r} : ConfigReload!HolderAt(q) => ConfigReload!HolderAt(q)',
         ConfigReload!ServedMatchesStored',
         l \notin ConfigReload!Ended /\ ConfigReload!SoloAt(r) => ConfigReload!SoloAt(r)',
         l = "done" /\ ConfigReload!SoloAt(r) => users' = {options'} /\ managed' = options'
           /\ listening' = "all"
  PROVE  ConfigReload!IInv'
<1>1. reloadPc'[r] = l /\ reloadPc[r] # "failed" /\ \A q \in Reloads : q # r => reloadPc'[q] = reloadPc[q]
  BY Zenon DEF ConfigReload!IInv, ConfigReload!TypeOK, ConfigReload!Busy, ConfigReload!Ended
<1>2. \A q \in Reloads :
        ConfigReload!Busy(q)' => ConfigReload!Busy(q) /\ (q = r => l \notin ConfigReload!Ended)
  BY <1>1, Zenon DEF ConfigReload!Busy, ConfigReload!Ended
<1>3. \A q \in Reloads : ConfigReload!Busy(q)' => conf'[q] \in Configs /\ ConfigReload!HolderAt(q)'
  BY <1>2, Zenon DEF ConfigReload!IInv
<1>4. ~overlap' => \A p, q \in Reloads : ConfigReload!Busy(p)' /\ ConfigReload!Busy(q)' => p = q
  BY <1>2, Zenon DEF ConfigReload!IInv
<1>5. ASSUME ~overlap', l # "failed", \A q \in Reloads : reloadPc'[q] # "failed"
      PROVE  ConfigReload!SoloAt(r)
  BY <1>1, <1>5, Zenon DEF ConfigReload!IInv
<1>6. ASSUME ~overlap', \A q \in Reloads : reloadPc'[q] # "failed", NEW q \in Reloads,
             ConfigReload!Busy(q)'
      PROVE  ConfigReload!SoloAt(q)'
  BY <1>1, <1>2, <1>5, <1>6, Zenon DEF ConfigReload!IInv
<1>7. ConfigReload!SoloReloadApplies'
  BY <1>1, <1>5, Zenon DEF ConfigReload!SoloReloadApplies
<1> QED BY <1>3, <1>4, <1>6, <1>7, Zenon DEF ConfigReload!IInv

\* The users are entered, the context is built, the lock is taken.
LEMMA ReloadUnlocked ==
  ASSUME ConfigReload!IInv, NEW r \in Reloads,
         ConfigReload!IngestUsers(r) \/ ConfigReload!FromOptions(r) \/ ConfigReload!Lock(r)
  PROVE  ConfigReload!IInv'
<1>1. CASE ConfigReload!IngestUsers(r)
  <2> DEFINE l == IF reloadPc[r] = "ingest" THEN "context" ELSE "done"
  <2>1. /\ reloadPc[r] \in {"ingest", "users"}
        /\ UNCHANGED <<options, managed, listening, local, lock, conf, overlap>>
        /\ users' = users \cup {conf[r]} /\ reloadPc' = [reloadPc EXCEPT ![r] = l]
        /\ l \in {"context", "done"}
    BY <1>1, Zenon DEF ConfigReload!IngestUsers, ConfigReload!inbounds, ConfigReload!Goto
  <2>2. ConfigReload!Busy(r) /\ conf[r] \in Configs
    BY <2>1, Zenon DEF ConfigReload!IInv, ConfigReload!Busy, ConfigReload!Ended
  <2>3. l = "done" => reloadPc[r] = "users"
    BY <2>1, Zenon
  <2> HIDE DEF l
  <2>4. reloadPc'[r] = l /\ \A q \in Reloads : q # r => reloadPc'[q] = reloadPc[q]
    BY <2>1, Zenon DEF ConfigReload!IInv, ConfigReload!TypeOK
  <2>5. ConfigReload!TypeOK'
    BY <2>1, <2>2, <2>4, Zenon DEF ConfigReload!IInv, ConfigReload!TypeOK, ConfigReload!Ended
  <2>6. /\ (l \notin ConfigReload!Ended => ConfigReload!HolderAt(r)')
        /\ (\A q \in Reloads \ {r} : ConfigReload!HolderAt(q) => ConfigReload!HolderAt(q)')
        /\ ConfigReload!ServedMatchesStored'
    BY <2>1, <2>4, Zenon DEF ConfigReload!IInv, ConfigReload!HolderAt, ConfigReload!ServedMatchesStored,
       ConfigReload!Ended
  <2>7. ConfigReload!SoloAt(r) => users' = {conf[r]} /\ managed' = options' /\ listening' = "all"
        /\ (l = "done" => conf[r] = options')
    BY <2>1, <2>3, Zenon DEF ConfigReload!SoloAt
  <2>8. l \notin ConfigReload!Ended /\ ConfigReload!SoloAt(r) => ConfigReload!SoloAt(r)'
    BY <2>1, <2>4, <2>7, Zenon DEF ConfigReload!SoloAt, ConfigReload!Ended
  <2> QED BY <2>1, <2>2, <2>5, <2>6, <2>7, <2>8, ReloadGoesOn, Zenon
<1>2. ASSUME ConfigReload!FromOptions(r), NEW l \in {"lock", "failed"}, ConfigReload!Goto(r, l)
      PROVE  ConfigReload!IInv'
  <2>1. /\ reloadPc[r] = "context"
        /\ UNCHANGED <<users, options, managed, listening, lock, conf, overlap>>
        /\ reloadPc' = [reloadPc EXCEPT ![r] = l] /\ local' = "bare"
    BY <1>2, Zenon DEF ConfigReload!FromOptions, ConfigReload!inbounds, ConfigReload!Goto
  <2>2. ConfigReload!Busy(r)
    BY <2>1, Zenon DEF ConfigReload!Busy, ConfigReload!Ended
  <2>3. reloadPc'[r] = l /\ \A q \in Reloads : q # r => reloadPc'[q] = reloadPc[q]
    BY <2>1, Zenon DEF ConfigReload!IInv, ConfigReload!TypeOK
  <2>4. ConfigReload!TypeOK'
    BY <2>1, <2>3, Zenon DEF ConfigReload!IInv, ConfigReload!TypeOK, ConfigReload!Ended
  <2>5. /\ ConfigReload!HolderAt(r)'
        /\ (\A q \in Reloads \ {r} : ConfigReload!HolderAt(q) => ConfigReload!HolderAt(q)')
        /\ ConfigReload!ServedMatchesStored'
    BY <2>1, <2>3, Zenon DEF ConfigReload!IInv, ConfigReload!HolderAt, ConfigReload!ServedMatchesStored
  <2>6. l \notin ConfigReload!Ended /\ ConfigReload!SoloAt(r) => ConfigReload!SoloAt(r)'
    BY <2>1, <2>3, Zenon DEF ConfigReload!SoloAt, ConfigReload!Ended
  <2> QED BY <2>1, <2>2, <2>4, <2>5, <2>6, ReloadGoesOn, Zenon
<1>3. CASE ConfigReload!Lock(r)
  <2>1. /\ reloadPc[r] = "lock" /\ lock = Absent
        /\ UNCHANGED <<users, options, managed, listening, local, conf, overlap>>
        /\ reloadPc' = [reloadPc EXCEPT ![r] = "close"] /\ lock' = r
    BY <1>3, Zenon DEF ConfigReload!Lock, ConfigReload!inbounds, ConfigReload!Goto
  <2>2. ConfigReload!Busy(r)
    BY <2>1, Zenon DEF ConfigReload!Busy, ConfigReload!Ended
  <2>3. reloadPc'[r] = "close" /\ \A q \in Reloads : q # r => reloadPc'[q] = reloadPc[q]
    BY <2>1, Zenon DEF ConfigReload!IInv, ConfigReload!TypeOK
  <2>4. ConfigReload!TypeOK'
    BY <2>1, <2>3, ReloadAssumption, Zenon
       DEF ConfigReload!IInv, ConfigReload!TypeOK, ConfigReload!Ended
  <2>5. /\ ConfigReload!HolderAt(r)'
        /\ (\A q \in Reloads \ {r} : ConfigReload!HolderAt(q) => ConfigReload!HolderAt(q)')
        /\ ConfigReload!ServedMatchesStored'
    BY <2>1, <2>3, ReloadAssumption, Zenon
       DEF ConfigReload!IInv, ConfigReload!HolderAt, ConfigReload!ServedMatchesStored
  <2>6. ConfigReload!SoloAt(r) => ConfigReload!SoloAt(r)'
    BY <2>1, <2>3, Zenon DEF ConfigReload!SoloAt
  <2> QED BY <2>1, <2>2, <2>4, <2>5, <2>6, ReloadGoesOn, Zenon DEF ConfigReload!Ended
<1> QED BY <1>1, <1>2, <1>3, Zenon DEF ConfigReload!FromOptions

\* No other reload is said to have done anything while r holds the lock.
LEMMA ReloadOthers ==
  ASSUME ConfigReload!IInv, NEW r \in Reloads, lock = r, NEW l,
         reloadPc' = [reloadPc EXCEPT ![r] = l]
  PROVE  /\ reloadPc'[r] = l /\ \A q \in Reloads : q # r => reloadPc'[q] = reloadPc[q]
         /\ \A q \in Reloads \ {r} : ConfigReload!HolderAt(q) => ConfigReload!HolderAt(q)'
<1>1. reloadPc'[r] = l /\ \A q \in Reloads : q # r => reloadPc'[q] = reloadPc[q]
  BY Zenon DEF ConfigReload!IInv, ConfigReload!TypeOK
<1>2. \A q \in Reloads \ {r} : reloadPc'[q] \notin {"close", "build", "start", "store"}
  BY <1>1, Zenon DEF ConfigReload!IInv, ConfigReload!TypeOK
<1> QED BY <1>1, <1>2, Zenon DEF ConfigReload!HolderAt

\* A step of the holder of the lock, which it keeps or gives back.
LEMMA ReloadHolder ==
  ASSUME ConfigReload!IInv, NEW r \in Reloads, reloadPc[r] \in {"close", "build", "start", "store"},
         NEW l \in {"build", "start", "store", "done", "failed"}, reloadPc' = [reloadPc EXCEPT ![r] = l],
         UNCHANGED <<users, local, conf, overlap>>, options' \in Configs, managed' \in Configs,
         listening' \in ConfigReload!Amounts,
         lock' = IF l \in ConfigReload!Ended THEN Absent ELSE r,
         l \notin ConfigReload!Ended => ConfigReload!HolderAt(r)',
         l \in ConfigReload!Ended => ConfigReload!ServedMatchesStored',
         l \notin ConfigReload!Ended /\ ConfigReload!SoloAt(r) => ConfigReload!SoloAt(r)',
         l = "done" /\ ConfigReload!SoloAt(r) => users' = {options'} /\ managed' = options'
           /\ listening' = "all"
  PROVE  ConfigReload!IInv'
<1>1. ConfigReload!Busy(r) /\ lock = r
  BY Zenon DEF ConfigReload!Busy, ConfigReload!Ended, ConfigReload!IInv, ConfigReload!TypeOK
<1>2. reloadPc'[r] = l /\ \A q \in Reloads : q # r => reloadPc'[q] = reloadPc[q]
  BY <1>1, ReloadOthers, Zenon
<1>3. \A q \in Reloads \ {r} : reloadPc[q] \notin {"close", "build", "start", "store"}
  BY <1>1, Zenon DEF ConfigReload!IInv, ConfigReload!TypeOK
<1>4. \A q \in Reloads : (reloadPc'[q] \in {"close", "build", "start", "store"}) <=> lock' = q
  BY <1>2, <1>3, ReloadAssumption, Zenon DEF ConfigReload!Ended
<1>5. /\ reloadPc' \in [Reloads -> {"idle", "ingest", "users", "context", "lock", "close", "build", "start", "store"} \cup ConfigReload!Ended]
      /\ lock' \in Reloads \cup {Absent}
  BY Zenon DEF ConfigReload!IInv, ConfigReload!TypeOK, ConfigReload!Ended
<1>6. ConfigReload!TypeOK'
  BY <1>4, <1>5, Zenon DEF ConfigReload!IInv, ConfigReload!TypeOK
<1>7. ConfigReload!ServedMatchesStored'
  BY ReloadAssumption, Zenon DEF ConfigReload!ServedMatchesStored
<1>8. \A q \in Reloads \ {r} : ConfigReload!HolderAt(q) => ConfigReload!HolderAt(q)'
  BY <1>1, ReloadOthers, Zenon
<1>9. l \in {"context", "lock", "close", "build", "start", "store", "done", "failed"}
  BY Zenon
<1> QED BY <1>1, <1>6, <1>7, <1>8, <1>9, ReloadGoesOn, Zenon

\* The old inbounds are closed and the new ones built.
LEMMA ReloadBuild ==
  ASSUME ConfigReload!IInv, NEW r \in Reloads,
         ConfigReload!CloseAll(r) \/ ConfigReload!BuildInbounds(r)
  PROVE  ConfigReload!IInv'
<1>1. /\ options \in Configs /\ managed \in Configs /\ listening \in ConfigReload!Amounts
      /\ (ConfigReload!Busy(r) => conf[r] \in Configs /\ ConfigReload!HolderAt(r))
      /\ \A l : reloadPc' = [reloadPc EXCEPT ![r] = l] => reloadPc'[r] = l
  BY Zenon DEF ConfigReload!IInv, ConfigReload!TypeOK
<1>2. reloadPc[r] \in {"close", "build"} => lock = r
  BY Zenon DEF ConfigReload!IInv, ConfigReload!TypeOK
<1>3. CASE ConfigReload!CloseAll(r)
  <2>1. /\ reloadPc[r] = "close"
        /\ UNCHANGED <<users, options, managed, local, lock, conf, overlap>>
        /\ listening' = "none" /\ reloadPc' = [reloadPc EXCEPT ![r] = "build"]
    BY <1>3, Zenon DEF ConfigReload!CloseAll, ConfigReload!Goto
  <2>2. /\ ConfigReload!HolderAt(r)' /\ (ConfigReload!SoloAt(r) => ConfigReload!SoloAt(r)')
        /\ listening' \in ConfigReload!Amounts
    BY <1>1, <2>1, Zenon DEF ConfigReload!HolderAt, ConfigReload!SoloAt, ConfigReload!Amounts
  <2> QED BY <1>1, <1>2, <2>1, <2>2, ReloadHolder, Zenon DEF ConfigReload!Ended
<1>4. CASE ConfigReload!BuildInbounds(r)
  <2>1. reloadPc[r] = "build" /\ UNCHANGED <<users, options, listening, local, conf, overlap>>
    BY <1>4, Zenon DEF ConfigReload!BuildInbounds
  <2>2. conf[r] \in Configs /\ listening = "none"
    BY <1>1, <2>1, Zenon DEF ConfigReload!Busy, ConfigReload!Ended, ConfigReload!HolderAt
  <2>3. CASE managed' = conf[r] /\ ConfigReload!Goto(r, "start") /\ UNCHANGED lock
    <3>1. ConfigReload!HolderAt(r)' /\ (ConfigReload!SoloAt(r) => ConfigReload!SoloAt(r)')
      BY <1>1, <2>1, <2>2, <2>3, Zenon DEF ConfigReload!HolderAt, ConfigReload!SoloAt, ConfigReload!Goto
    <3> QED BY <1>1, <1>2, <2>1, <2>2, <2>3, <3>1, ReloadHolder, Zenon
               DEF ConfigReload!Ended, ConfigReload!Goto
  <2>4. CASE ConfigReload!Goto(r, "failed") /\ lock' = Absent /\ UNCHANGED managed
    <3>1. ConfigReload!ServedMatchesStored'
      BY <2>1, <2>2, Zenon DEF ConfigReload!ServedMatchesStored
    <3> QED BY <1>1, <2>1, <2>4, <3>1, ReloadHolder, Zenon DEF ConfigReload!Ended, ConfigReload!Goto
  <2> QED BY <1>4, <2>3, <2>4, Zenon DEF ConfigReload!BuildInbounds
<1> QED BY <1>3, <1>4, Zenon

\* The new inbounds are started and their options stored.
LEMMA ReloadStart ==
  ASSUME ConfigReload!IInv, NEW r \in Reloads,
         ConfigReload!StartAll(r) \/ ConfigReload!StoreOptions(r)
  PROVE  ConfigReload!IInv'
<1>1. /\ options \in Configs /\ managed \in Configs /\ listening \in ConfigReload!Amounts
      /\ (ConfigReload!Busy(r) => conf[r] \in Configs /\ ConfigReload!HolderAt(r))
      /\ \A l : reloadPc' = [reloadPc EXCEPT ![r] = l] => reloadPc'[r] = l
  BY Zenon DEF ConfigReload!IInv, ConfigReload!TypeOK
<1>2. reloadPc[r] \in {"start", "store"} => lock = r
  BY Zenon DEF ConfigReload!IInv, ConfigReload!TypeOK
<1>3. CASE ConfigReload!StartAll(r)
  <2>1. reloadPc[r] = "start" /\ UNCHANGED <<users, options, managed, local, conf, overlap>>
    BY <1>3, Zenon DEF ConfigReload!StartAll
  <2>2. managed = conf[r]
    BY <1>1, <2>1, Zenon DEF ConfigReload!Busy, ConfigReload!Ended, ConfigReload!HolderAt
  <2>3. CASE listening' = "all" /\ ConfigReload!Goto(r, "store") /\ UNCHANGED lock
    <3>1. /\ ConfigReload!HolderAt(r)' /\ (ConfigReload!SoloAt(r) => ConfigReload!SoloAt(r)')
          /\ listening' \in ConfigReload!Amounts
      BY <1>1, <2>1, <2>2, <2>3, Zenon
         DEF ConfigReload!HolderAt, ConfigReload!SoloAt, ConfigReload!Goto, ConfigReload!Amounts
    <3> QED BY <1>1, <1>2, <2>1, <2>3, <3>1, ReloadHolder, Zenon
               DEF ConfigReload!Ended, ConfigReload!Goto
  <2>4. CASE listening' \in {"none", "some"} /\ ConfigReload!Goto(r, "failed") /\ lock' = Absent
    <3>1. ConfigReload!ServedMatchesStored' /\ listening' \in ConfigReload!Amounts
      BY <2>4, Zenon DEF ConfigReload!ServedMatchesStored, ConfigReload!Amounts
    <3> QED BY <1>1, <2>1, <2>4, <3>1, ReloadHolder, Zenon DEF ConfigReload!Ended, ConfigReload!Goto
  <2> QED BY <1>3, <2>3, <2>4, Zenon DEF ConfigReload!StartAll
<1>4. CASE ConfigReload!StoreOptions(r)
  <2>1. /\ reloadPc[r] = "store" /\ options' = conf[r] /\ lock' = Absent
        /\ reloadPc' = [reloadPc EXCEPT ![r] = "done"]
        /\ UNCHANGED <<users, managed, listening, local, conf, overlap>>
    BY <1>4, Zenon DEF ConfigReload!StoreOptions, ConfigReload!inbounds, ConfigReload!Goto
  <2>2. managed = conf[r] /\ listening = "all" /\ conf[r] \in Configs
    BY <1>1, <2>1, Zenon DEF ConfigReload!Busy, ConfigReload!Ended, ConfigReload!HolderAt
  <2>3. /\ ConfigReload!ServedMatchesStored'
        /\ (ConfigReload!SoloAt(r) => users' = {options'} /\ managed' = options' /\ listening' = "all")
    BY <2>1, <2>2, Zenon DEF ConfigReload!ServedMatchesStored, ConfigReload!SoloAt
  <2> QED BY <1>1, <2>1, <2>2, <2>3, ReloadHolder, Zenon DEF ConfigReload!Ended
<1> QED BY <1>3, <1>4, Zenon

\* A reload that is dropped gives the lock back, and leaves inbounds that do not
\* all listen or are still the old ones.
LEMMA ReloadCancel ==
  ASSUME ConfigReload!IInv, NEW r \in Reloads, ConfigReload!Cancel(r)
  PROVE  ConfigReload!IInv'
<1>1. /\ reloadPc[r] \in {"lock", "close", "start"} /\ reloadPc' = [reloadPc EXCEPT ![r] = "failed"]
      /\ UNCHANGED <<users, options, managed, local, conf, overlap>>
  BY Zenon DEF ConfigReload!Cancel, ConfigReload!Goto
<1>2. /\ ConfigReload!Busy(r) /\ options \in Configs /\ managed \in Configs
      /\ listening \in ConfigReload!Amounts
  BY <1>1, Zenon DEF ConfigReload!IInv, ConfigReload!TypeOK, ConfigReload!Busy, ConfigReload!Ended
<1>3. ConfigReload!HolderAt(r)
  BY <1>2, Zenon DEF ConfigReload!IInv
<1>4. CASE reloadPc[r] = "lock"
  <2>1. UNCHANGED <<listening, lock>>
    BY <1>4, Zenon DEF ConfigReload!Cancel
  <2>2. reloadPc'[r] = "failed" /\ \A q \in Reloads : q # r => reloadPc'[q] = reloadPc[q]
    BY <1>1, Zenon DEF ConfigReload!IInv, ConfigReload!TypeOK
  <2>3. ConfigReload!TypeOK'
    BY <1>1, <1>4, <2>1, <2>2, Zenon DEF ConfigReload!IInv, ConfigReload!TypeOK, ConfigReload!Ended
  <2>4. ConfigReload!ServedMatchesStored' /\ \A q \in Reloads \ {r} :
          ConfigReload!HolderAt(q) => ConfigReload!HolderAt(q)'
    BY <1>1, <2>1, <2>2, Zenon
       DEF ConfigReload!IInv, ConfigReload!ServedMatchesStored, ConfigReload!HolderAt
  <2> QED BY <1>1, <1>2, <2>3, <2>4, ReloadGoesOn, Zenon DEF ConfigReload!Ended
<1>5. CASE reloadPc[r] \in {"close", "start"}
  <2>1. /\ lock' = Absent /\ listening' \in ConfigReload!Amounts
        /\ (listening' = "all" => reloadPc[r] = "close" /\ listening = "all")
    BY <1>2, <1>5, Zenon DEF ConfigReload!Cancel, ConfigReload!Amounts
  <2>2. ConfigReload!ServedMatchesStored'
    BY <1>1, <1>3, <2>1, Zenon DEF ConfigReload!ServedMatchesStored, ConfigReload!HolderAt
  <2> QED BY <1>1, <1>2, <1>5, <2>1, <2>2, ReloadHolder, Zenon DEF ConfigReload!Ended
<1> QED BY <1>1, <1>4, <1>5, Zenon

\* Every step of a reload keeps the invariant.
LEMMA ReloadInvariance ==
  ConfigReload!IInv /\ [ConfigReload!Next]_(ConfigReload!vars)
    => ConfigReload!IInv'
<1>1. ConfigReload!IInv /\ UNCHANGED ConfigReload!vars => ConfigReload!IInv'
  BY DEF ConfigReload!vars, ConfigReload!IInv, ConfigReload!TypeOK, ConfigReload!Busy,
     ConfigReload!HolderAt, ConfigReload!SoloAt, ConfigReload!ServedMatchesStored,
     ConfigReload!SoloReloadApplies
<1> QED BY <1>1, ReloadClear, ReloadUnlocked, ReloadBuild, ReloadStart, ReloadCancel, Zenon
           DEF ConfigReload!Next, ConfigReload!Step
-----------------------------------------------------------------------------
(* The cache file of the selectors.                                         *)

SelectorCache == INSTANCE SelectorCache WITH
  MaxStarts <- MaxRuns, None <- Absent, pc <- reqPc

\* No choice is a value for every group.
LEMMA CacheNoChoices == SelectorCache!NoChoices \in [Groups -> Members \cup {Absent}]
BY Zenon DEF SelectorCache!NoChoices

\* The program has not been started.
LEMMA CacheInit == SelectorCache!Init => SelectorCache!IInv
<1> SUFFICES ASSUME SelectorCache!Init PROVE SelectorCache!IInv
  BY Zenon
<1>1. /\ file \in [torn : BOOLEAN, selectors : [Groups -> Members \cup {Absent}]]
      /\ snap \in [Requests -> [Groups -> Members \cup {Absent}]]
  BY CacheNoChoices, Zenon DEF SelectorCache!Init
<1> QED BY <1>1, CacheNoChoices, Zenon
           DEF SelectorCache!Init, SelectorCache!IInv, SelectorCache!AloneIsSaved,
           SelectorCache!StopSaves

\* The cache is what the file holds, and the choices in use are the cache's.
LEMMA CacheStart == SelectorCache!IInv /\ SelectorCache!Start => SelectorCache!IInv'
<1> SUFFICES ASSUME SelectorCache!IInv, SelectorCache!Start PROVE SelectorCache!IInv'
  BY Zenon
<1>1. /\ up' = "up" /\ overlapped' = FALSE /\ UNCHANGED <<file, req, snap>>
      /\ reqPc' = [r \in Requests |-> "idle"]
      /\ cache' = IF file.torn THEN SelectorCache!NoChoices ELSE file.selectors
      /\ selected' = [g \in Groups |-> IF cache'[g] # Absent THEN cache'[g] ELSE Default]
  BY Zenon DEF SelectorCache!Start
<1>2. cache' \in [Groups -> Members \cup {Absent}]
  BY <1>1, CacheNoChoices, Zenon DEF SelectorCache!IInv
<1>3. /\ reqPc' \in [Requests -> {"idle", "set", "snapshot", "open", "write", "done"}]
      /\ DOMAIN selected' = Groups
  BY <1>1, Zenon
<1>4. \A r \in Requests : ~SelectorCache!InProgress(r)'
  BY <1>1, Zenon DEF SelectorCache!InProgress
<1>5. SelectorCache!AloneIsSaved'
  BY <1>1, Zenon DEF SelectorCache!AloneIsSaved
<1> QED BY <1>1, <1>2, <1>3, <1>4, <1>5, Zenon DEF SelectorCache!IInv, SelectorCache!StopSaves

\* A request that begins alone finds the cache and the file in order.
LEMMA CacheSelect ==
  ASSUME SelectorCache!IInv, NEW r \in Requests, SelectorCache!Select(r)
  PROVE  SelectorCache!IInv'
<1> DEFINE g == req[r].group
           c == req[r].choice
<1>1. /\ up = "up" /\ UNCHANGED <<up, cache, file, req, snap>>
      /\ overlapped' = (overlapped \/ ~SelectorCache!Quiet)
      /\ reqPc' = [reqPc EXCEPT ![r] = "set"] /\ selected' = [selected EXCEPT ![g] = c]
  BY Zenon DEF SelectorCache!Select, SelectorCache!program, SelectorCache!Goto
<1>2. g \in Groups
  BY Zenon DEF SelectorCache!IInv
<1> HIDE DEF g, c
<1>3. /\ reqPc' \in [Requests -> {"idle", "set", "snapshot", "open", "write", "done"}]
      /\ DOMAIN selected' = Groups
      /\ overlapped' \in BOOLEAN /\ reqPc'[r] = "set" /\ \A q \in Requests : q # r => reqPc'[q] = reqPc[q]
  BY <1>1, Zenon DEF SelectorCache!IInv
<1>4. ~SelectorCache!Quiet' /\ SelectorCache!InProgress(r)'
  BY <1>3, Zenon DEF SelectorCache!Quiet, SelectorCache!InProgress
<1>5. ASSUME ~overlapped'
      PROVE  \A q \in Requests : SelectorCache!InProgress(q)' => q = r /\ SelectorCache!Alone(q)'
  <2>1. ~overlapped /\ SelectorCache!Quiet
    BY <1>1, <1>5, Zenon
  <2>2. SelectorCache!CacheServed(Groups) /\ SelectorCache!FileKnown
    BY <1>1, <2>1, Zenon DEF SelectorCache!IInv, SelectorCache!AloneIsSaved, SelectorCache!CacheServed,
       SelectorCache!FileKnown
  <2>3. \A q \in Requests : SelectorCache!InProgress(q)' => q = r
    BY <1>3, <2>1, Zenon DEF SelectorCache!Quiet, SelectorCache!InProgress
  <2>4. selected'[g] = c /\ \A h \in Groups \ {g} : selected'[h] = selected[h]
    BY <1>1, <1>2, Zenon DEF SelectorCache!IInv
  <2>5. SelectorCache!Alone(r)'
    BY <1>1, <1>3, <2>2, <2>3, <2>4, Zenon
       DEF SelectorCache!Alone, SelectorCache!CacheServed, SelectorCache!FileKnown, g, c
  <2> QED BY <2>3, <2>5, Zenon
<1> QED BY <1>1, <1>3, <1>4, <1>5, Zenon
           DEF SelectorCache!IInv, SelectorCache!AloneIsSaved, SelectorCache!StopSaves

\* A request in progress goes on to l.
LEMMA CacheGoesOn ==
  ASSUME SelectorCache!IInv, NEW r \in Requests, SelectorCache!InProgress(r), up # "down",
         SelectorCache!Alone(r) /\ ~overlapped /\ up = "up" => SelectorCache!Alone(r)',
         NEW l \in {"snapshot", "open", "write"}, reqPc' = [reqPc EXCEPT ![r] = l],
         UNCHANGED <<up, overlapped, selected, req>>, cache' \in [Groups -> Members \cup {Absent}],
         file' \in [torn : BOOLEAN, selectors : [Groups -> Members \cup {Absent}]],
         snap' \in [Requests -> [Groups -> Members \cup {Absent}]]
  PROVE  SelectorCache!IInv'
<1>1. /\ reqPc' \in [Requests -> {"idle", "set", "snapshot", "open", "write", "done"}]
      /\ reqPc'[r] = l /\ \A q \in Requests : q # r => reqPc'[q] = reqPc[q]
  BY Zenon DEF SelectorCache!IInv
<1>2. ~SelectorCache!Quiet' /\ ~SelectorCache!Quiet
  BY <1>1, Zenon DEF SelectorCache!Quiet, SelectorCache!InProgress
<1>3. up # "stopped"
  BY <1>2, Zenon DEF SelectorCache!IInv
<1>4. ASSUME up = "up", ~overlapped
      PROVE  \A q \in Requests : SelectorCache!InProgress(q)' => SelectorCache!Alone(q)'
  <2>1. SelectorCache!Alone(r)
    BY <1>4, Zenon DEF SelectorCache!IInv
  <2>2. \A q \in Requests : SelectorCache!InProgress(q)' => q = r
    BY <1>1, <2>1, Zenon DEF SelectorCache!Alone, SelectorCache!InProgress
  <2> QED BY <1>4, <2>1, <2>2, Zenon
<1> QED BY <1>1, <1>2, <1>3, <1>4, Zenon
           DEF SelectorCache!IInv, SelectorCache!AloneIsSaved, SelectorCache!StopSaves

\* The choice is stored in the cache, and the file is behind it.
LEMMA CacheSetSelector ==
  ASSUME SelectorCache!IInv, NEW r \in Requests, SelectorCache!SetSelector(r)
  PROVE  SelectorCache!IInv'
<1> DEFINE g == req[r].group
           c == req[r].choice
<1>1. /\ reqPc[r] = "set" /\ up # "down" /\ UNCHANGED <<up, selected, file, req, snap, overlapped>>
      /\ reqPc' = [reqPc EXCEPT ![r] = "snapshot"] /\ cache' = [cache EXCEPT ![g] = c]
  BY Zenon DEF SelectorCache!SetSelector, SelectorCache!program, SelectorCache!Goto
<1>2. g \in Groups /\ c \in Members
  BY Zenon DEF SelectorCache!IInv
<1>3. SelectorCache!Alone(r) => selected[g] = c /\ SelectorCache!CacheServed(Groups \ {g})
      /\ \A q \in Requests : SelectorCache!InProgress(q) => q = r
  BY <1>1, Zenon DEF SelectorCache!Alone
<1> HIDE DEF g, c
<1>4. /\ cache' \in [Groups -> Members \cup {Absent}] /\ cache'[g] = c
      /\ \A h \in Groups \ {g} : cache'[h] = cache[h]
  BY <1>1, <1>2, Zenon DEF SelectorCache!IInv
<1>5. reqPc'[r] = "snapshot" /\ \A q \in Requests :
        SelectorCache!InProgress(q)' => SelectorCache!InProgress(q) \/ q = r
  BY <1>1, Zenon DEF SelectorCache!IInv, SelectorCache!InProgress
<1>6. SelectorCache!Alone(r) => SelectorCache!Alone(r)'
  BY <1>1, <1>2, <1>3, <1>4, <1>5, Zenon DEF SelectorCache!Alone, SelectorCache!CacheServed
<1> QED BY <1>1, <1>4, <1>6, CacheGoesOn, Zenon DEF SelectorCache!IInv, SelectorCache!InProgress

\* The copy to write is the cache.
LEMMA CacheSnapshot ==
  ASSUME SelectorCache!IInv, NEW r \in Requests, SelectorCache!Snapshot(r)
  PROVE  SelectorCache!IInv'
<1>1. /\ reqPc[r] = "snapshot" /\ up # "down"
      /\ UNCHANGED <<up, selected, cache, file, req, overlapped>>
      /\ reqPc' = [reqPc EXCEPT ![r] = "open"] /\ snap' = [snap EXCEPT ![r] = cache]
  BY Zenon DEF SelectorCache!Snapshot, SelectorCache!program, SelectorCache!Goto
<1>2. snap' \in [Requests -> [Groups -> Members \cup {Absent}]] /\ snap'[r] = cache
  BY <1>1, Zenon DEF SelectorCache!IInv
<1>3. reqPc'[r] = "open" /\ \A q \in Requests :
        SelectorCache!InProgress(q)' => SelectorCache!InProgress(q) \/ q = r
  BY <1>1, Zenon DEF SelectorCache!IInv, SelectorCache!InProgress
<1>4. SelectorCache!Alone(r) => SelectorCache!Alone(r)'
  BY <1>1, <1>2, <1>3, Zenon DEF SelectorCache!Alone, SelectorCache!CacheServed
<1> QED BY <1>1, <1>2, <1>4, CacheGoesOn, Zenon DEF SelectorCache!IInv, SelectorCache!InProgress

\* The file is emptied.
LEMMA CacheOpen ==
  ASSUME SelectorCache!IInv, NEW r \in Requests, SelectorCache!Open(r)
  PROVE  SelectorCache!IInv'
<1>1. /\ reqPc[r] = "open" /\ up # "down"
      /\ UNCHANGED <<up, selected, cache, req, snap, overlapped>>
      /\ reqPc' = [reqPc EXCEPT ![r] = "write"]
      /\ file' = [torn |-> TRUE, selectors |-> SelectorCache!NoChoices]
  BY Zenon DEF SelectorCache!Open, SelectorCache!program, SelectorCache!Goto
<1>2. file' \in [torn : BOOLEAN, selectors : [Groups -> Members \cup {Absent}]] /\ file'.torn
  BY <1>1, CacheNoChoices, Zenon
<1>3. reqPc'[r] = "write" /\ \A q \in Requests :
        SelectorCache!InProgress(q)' => SelectorCache!InProgress(q) \/ q = r
  BY <1>1, Zenon DEF SelectorCache!IInv, SelectorCache!InProgress
<1>4. SelectorCache!Alone(r) => SelectorCache!Alone(r)'
  BY <1>1, <1>2, <1>3, Zenon DEF SelectorCache!Alone, SelectorCache!CacheServed
<1> QED BY <1>1, <1>2, <1>4, CacheGoesOn, Zenon DEF SelectorCache!IInv, SelectorCache!InProgress

\* The file is written: with the cache, if the request was alone, or torn.
LEMMA CacheWrite ==
  ASSUME SelectorCache!IInv, NEW r \in Requests, SelectorCache!Write(r)
  PROVE  SelectorCache!IInv'
<1>1. /\ reqPc[r] = "write" /\ up # "down"
      /\ UNCHANGED <<up, selected, cache, req, snap, overlapped>>
      /\ reqPc' = [reqPc EXCEPT ![r] = "done"]
      /\ file' = [torn |-> FALSE, selectors |-> snap[r]]
           \/ file' = [torn |-> TRUE, selectors |-> SelectorCache!NoChoices]
  BY Zenon DEF SelectorCache!Write, SelectorCache!program, SelectorCache!Goto
<1>2. file' \in [torn : BOOLEAN, selectors : [Groups -> Members \cup {Absent}]]
  <2>1. snap[r] \in [Groups -> Members \cup {Absent}]
    BY Zenon DEF SelectorCache!IInv
  <2>2. CASE file' = [torn |-> FALSE, selectors |-> snap[r]]
    BY <2>1, <2>2, Zenon
  <2>3. CASE file' = [torn |-> TRUE, selectors |-> SelectorCache!NoChoices]
    BY <2>3, CacheNoChoices, Zenon
  <2> QED BY <1>1, <2>2, <2>3, Zenon
<1>3. /\ reqPc' \in [Requests -> {"idle", "set", "snapshot", "open", "write", "done"}]
      /\ reqPc'[r] = "done" /\ \A q \in Requests : q # r => reqPc'[q] = reqPc[q]
  BY <1>1, Zenon DEF SelectorCache!IInv
<1>4. up # "stopped"
  BY <1>1, Zenon DEF SelectorCache!IInv, SelectorCache!Quiet, SelectorCache!InProgress
<1>5. ASSUME up = "up", ~overlapped
      PROVE (\A q \in Requests : ~SelectorCache!InProgress(q)') /\ SelectorCache!AloneIsSaved'
  <2>1. SelectorCache!Alone(r)
    BY <1>1, <1>5, Zenon DEF SelectorCache!IInv, SelectorCache!InProgress
  <2>2. \A q \in Requests : ~SelectorCache!InProgress(q)'
    BY <1>3, <2>1, Zenon DEF SelectorCache!Alone, SelectorCache!InProgress
  <2>3. SelectorCache!CacheServed(Groups) /\ snap[r] = cache
    BY <1>1, <2>1, Zenon DEF SelectorCache!Alone
  <2>4. ~file'.torn => file'.selectors = cache
    BY <1>1, <2>3
  <2> QED BY <1>1, <2>2, <2>3, <2>4, Zenon DEF SelectorCache!AloneIsSaved, SelectorCache!CacheServed
<1> QED BY <1>1, <1>2, <1>3, <1>4, <1>5, Zenon
           DEF SelectorCache!IInv, SelectorCache!StopSaves, SelectorCache!AloneIsSaved

\* The last flush and the end of the process.
LEMMA CacheEnd ==
  SelectorCache!IInv /\ (SelectorCache!Stop \/ SelectorCache!Flush \/ SelectorCache!Exit)
    => SelectorCache!IInv'
<1> SUFFICES ASSUME SelectorCache!IInv,
                    SelectorCache!Stop \/ SelectorCache!Flush \/ SelectorCache!Exit
             PROVE  SelectorCache!IInv'
  BY Zenon
<1>1. CASE SelectorCache!Stop
  BY <1>1, Zenon
     DEF SelectorCache!IInv, SelectorCache!Stop, SelectorCache!AloneIsSaved, SelectorCache!StopSaves
<1>2. CASE SelectorCache!Flush
  <2>1. UNCHANGED <<selected, cache, reqPc, req, snap, overlapped>> /\ up' \in {"stopped", "late"}
    BY <1>2, Zenon DEF SelectorCache!Flush
  <2>2. file' \in [torn : BOOLEAN, selectors : [Groups -> Members \cup {Absent}]]
    <3>1. cache \in [Groups -> Members \cup {Absent}]
      BY Zenon DEF SelectorCache!IInv
    <3>2. file' = [torn |-> FALSE, selectors |-> cache]
          \/ file' = [torn |-> TRUE, selectors |-> SelectorCache!NoChoices]
      BY <1>2, Zenon DEF SelectorCache!Flush
    <3>3. CASE file' = [torn |-> FALSE, selectors |-> cache]
      BY <3>1, <3>3, Zenon
    <3>4. CASE file' = [torn |-> TRUE, selectors |-> SelectorCache!NoChoices]
      BY <3>4, CacheNoChoices, Zenon
    <3> QED BY <3>2, <3>3, <3>4, Zenon
  <2>3. up' = "stopped" => SelectorCache!Quiet /\ ~file'.torn /\ file'.selectors = cache
    BY <1>2 DEF SelectorCache!Flush
  <2>4. SelectorCache!Quiet => SelectorCache!Quiet'
    BY <2>1, Zenon DEF SelectorCache!Quiet, SelectorCache!InProgress
  <2> QED BY <2>1, <2>2, <2>3, <2>4, Zenon
             DEF SelectorCache!IInv, SelectorCache!AloneIsSaved, SelectorCache!StopSaves
<1>3. CASE SelectorCache!Exit
  BY <1>3, Zenon
     DEF SelectorCache!IInv, SelectorCache!Exit, SelectorCache!AloneIsSaved, SelectorCache!StopSaves
<1> QED BY <1>1, <1>2, <1>3, Zenon

\* Every step of the program and its requests keeps the invariant.
LEMMA CacheInvariance ==
  SelectorCache!IInv /\ [SelectorCache!Next]_(SelectorCache!vars)
    => SelectorCache!IInv'
<1>1. SelectorCache!IInv /\ UNCHANGED SelectorCache!vars => SelectorCache!IInv'
  BY DEF SelectorCache!vars, SelectorCache!IInv, SelectorCache!Alone, SelectorCache!InProgress,
     SelectorCache!Quiet, SelectorCache!CacheServed, SelectorCache!FileKnown,
     SelectorCache!AloneIsSaved, SelectorCache!StopSaves
<1> QED BY <1>1, CacheStart, CacheEnd, CacheSelect, CacheSetSelector, CacheSnapshot, CacheOpen,
           CacheWrite, Zenon DEF SelectorCache!Next
-----------------------------------------------------------------------------
(* The process and its library interface.                                   *)

LibBox == INSTANCE LibBox WITH
  running <- boxRunning, registry <- boxRegistry

\* The parts in order.
LEMMA BoxStages ==
  /\ Len(LibBox!Stages) = 8 /\ LibBox!Stages[3] = "new" /\ LibBox!Stages[8] = "inbounds"
  /\ \A k \in 1..8 : LibBox!Stages[k] = "new" => k = 3
<1>1. \A k \in 1..8 : k = 1 \/ k = 2 \/ k = 3 \/ k = 4 \/ k = 5 \/ k = 6 \/ k = 7 \/ k = 8
  OBVIOUS
<1>2. Len(LibBox!Stages) = 8 /\ LibBox!Stages[3] = "new" /\ LibBox!Stages[8] = "inbounds"
  BY Zenon DEF LibBox!Stages
<1>3. /\ LibBox!Stages[1] # "new" /\ LibBox!Stages[2] # "new" /\ LibBox!Stages[4] # "new"
      /\ LibBox!Stages[5] # "new"
      /\ LibBox!Stages[6] # "new" /\ LibBox!Stages[7] # "new" /\ LibBox!Stages[8] # "new"
  BY Zenon DEF LibBox!Stages
<1> QED BY <1>1, <1>2, <1>3, Zenon

\* Nothing runs before the first start.
LEMMA BoxInit == LibBox!Init => LibBox!IInv
<1> SUFFICES ASSUME LibBox!Init PROVE LibBox!IInv
  BY Zenon
<1>1. /\ DOMAIN boxRegistry = LibBox!Names /\ (\A n \in LibBox!Names : boxRegistry[n] = LibBox!None)
      /\ "service" \in LibBox!Names
  BY Zenon DEF LibBox!Init, LibBox!Names
<1>2. boxRunning \in BOOLEAN /\ resolved \in BOOLEAN /\ ~boxRunning
  BY Zenon DEF LibBox!Init
<1>3. stage = 0 /\ instance \in Nat /\ reloads \in Nat /\ held = {}
  BY Zenon DEF LibBox!Init
<1> QED BY <1>1, <1>2, <1>3, BoxStages DEF LibBox!IInv, LibBox!Ended, LibBox!NothingLeftBehind,
           LibBox!RegistryIsCurrent, LibBox!LocalHasOutbounds

\* A start is under way: the routers of the instances before it are those of
\* starts that failed.
LEMMA BoxStartCall == LibBox!IInv /\ LibBox!StartCall => LibBox!IInv'
<1> SUFFICES ASSUME LibBox!IInv, LibBox!StartCall PROVE LibBox!IInv'
  BY Zenon
<1>1. /\ stage = 0 /\ ~boxRunning /\ instance' = instance + 1 /\ stage' = 1 /\ resolved' \in BOOLEAN
      /\ UNCHANGED <<boxRunning, held, boxRegistry, failed, reloads>>
  BY Zenon DEF LibBox!StartCall
<1>2. \A n \in LibBox!Names : boxRegistry[n] # LibBox!None => boxRegistry[n].start \in failed
  BY <1>1 DEF LibBox!IInv, LibBox!RegistryIsCurrent
<1>3. LibBox!RegistryIsCurrent' /\ LibBox!Ended("service")'
  BY <1>1, <1>2, Zenon DEF LibBox!RegistryIsCurrent, LibBox!Ended, LibBox!Names
<1>4. LibBox!NothingLeftBehind' /\ LibBox!LocalHasOutbounds'
  BY <1>1 DEF LibBox!NothingLeftBehind, LibBox!LocalHasOutbounds
<1> QED BY <1>1, <1>3, <1>4, BoxStages DEF LibBox!IInv

\* What the part in turn registers is the router of this start.
LEMMA BoxRegistered ==
  ASSUME LibBox!IInv, stage > 0
  PROVE  /\ DOMAIN LibBox!Registered = LibBox!Names
         /\ \A n \in LibBox!Names :
              LibBox!Registered[n] = boxRegistry[n] \/ LibBox!Registered[n] = LibBox!Router
         /\ (stage >= 3 => LibBox!Registered["local"] = LibBox!Router)
         /\ (~resolved => LibBox!Registered["service"] = boxRegistry["service"])
<1>1. stage \in 1..8
  BY BoxStages DEF LibBox!IInv
<1>2. CASE LibBox!Stages[stage] = "new"
  BY <1>1, <1>2, BoxStages, Zenon DEF LibBox!IInv, LibBox!Registered, LibBox!Names, LibBox!Router
<1>3. CASE LibBox!Stages[stage] # "new" /\ LibBox!Stages[stage] = "services" /\ resolved
  <2>1. stage # 3 /\ LibBox!Registered = [boxRegistry EXCEPT !["service"] = LibBox!Router]
    BY <1>1, <1>3, BoxStages, Zenon DEF LibBox!Registered
  <2> QED BY <1>1, <1>3, <2>1 DEF LibBox!IInv, LibBox!Names
<1>4. CASE LibBox!Stages[stage] # "new" /\ ~(LibBox!Stages[stage] = "services" /\ resolved)
  <2>1. stage # 3 /\ LibBox!Registered = boxRegistry
    BY <1>1, <1>4, BoxStages, Zenon DEF LibBox!Registered
  <2> QED BY <1>1, <2>1 DEF LibBox!IInv
<1> QED BY <1>2, <1>3, <1>4, Zenon

\* A part is started, the last of them with the instance.
LEMMA BoxStartPart == LibBox!IInv /\ LibBox!StartPart => LibBox!IInv'
<1> SUFFICES ASSUME LibBox!IInv, LibBox!StartPart PROVE LibBox!IInv'
  BY Zenon
<1>1. /\ stage \in 1..8 /\ boxRegistry' = LibBox!Registered
      /\ UNCHANGED <<resolved, instance, failed, reloads>>
      /\ stage' = (IF stage = 8 THEN 0 ELSE stage + 1) /\ boxRunning' = (stage = 8)
  BY BoxStages DEF LibBox!IInv, LibBox!StartPart
<1>2. /\ stage' \in 0..8 /\ boxRunning' \in BOOLEAN /\ (boxRunning' => stage' = 0)
      /\ (boxRunning' \/ stage' > 0) /\ LibBox!NothingLeftBehind'
  <2>1. CASE stage = 8
    <3>1. stage' = 0 /\ boxRunning' = TRUE
      BY <1>1, <2>1, Zenon
    <3> QED BY <3>1 DEF LibBox!NothingLeftBehind
  <2>2. CASE stage # 8
    <3>1. stage' = stage + 1 /\ boxRunning' = FALSE
      BY <1>1, <2>2, Zenon
    <3> QED BY <1>1, <2>2, <3>1 DEF LibBox!NothingLeftBehind
  <2> QED BY <2>1, <2>2, Zenon
<1>3. LibBox!Router' = LibBox!Router /\ LibBox!Router.start = instance
  BY <1>1, Zenon DEF LibBox!Router
<1>4. LibBox!RegistryIsCurrent' /\ (~resolved' => LibBox!Ended("service")')
  <2>1. \A n \in LibBox!Names : boxRegistry'[n] = boxRegistry[n] \/ boxRegistry'[n] = LibBox!Router
    BY <1>1, BoxRegistered
  <2>2. LibBox!RegistryIsCurrent'
    BY <1>1, <1>2, <1>3, <2>1, Zenon DEF LibBox!IInv, LibBox!RegistryIsCurrent
  <2>3. ~resolved => boxRegistry'["service"] = boxRegistry["service"]
    BY <1>1, BoxRegistered
  <2> QED BY <1>1, <2>2, <2>3, Zenon DEF LibBox!IInv, LibBox!Ended
<1>5. (stage' > 3 => boxRegistry'["local"] = LibBox!Router') /\ LibBox!LocalHasOutbounds'
  <2>1. CASE stage = 8
    BY <1>1, <1>3, <2>1, BoxRegistered DEF LibBox!LocalHasOutbounds
  <2>2. CASE stage # 8
    <3>1. stage' = stage + 1 /\ boxRunning' = FALSE
      BY <1>1, <2>2, Zenon
    <3> QED BY <1>1, <1>3, <2>2, <3>1, BoxRegistered DEF LibBox!LocalHasOutbounds
  <2> QED BY <2>1, <2>2, Zenon
<1>6. DOMAIN boxRegistry' = LibBox!Names
  BY <1>1, BoxRegistered
<1> QED BY <1>1, <1>2, <1>4, <1>5, <1>6, BoxStages, Zenon DEF LibBox!IInv

\* A part that is not configured is none that registers a router.
LEMMA BoxSkipPart == LibBox!IInv /\ LibBox!SkipPart => LibBox!IInv'
<1> SUFFICES ASSUME LibBox!IInv, LibBox!SkipPart PROVE LibBox!IInv'
  BY Zenon
<1>1. /\ stage \in 1..7 /\ stage # 3 /\ stage' = stage + 1
      /\ UNCHANGED <<boxRunning, held, boxRegistry, resolved, instance, failed, reloads>>
  BY BoxStages DEF LibBox!IInv, LibBox!SkipPart
<1>2. LibBox!Router' = LibBox!Router /\ ~boxRunning
  BY <1>1 DEF LibBox!Router, LibBox!IInv
<1>3. LibBox!RegistryIsCurrent' /\ LibBox!NothingLeftBehind' /\ LibBox!LocalHasOutbounds'
  BY <1>1, <1>2
     DEF LibBox!IInv, LibBox!RegistryIsCurrent, LibBox!NothingLeftBehind, LibBox!LocalHasOutbounds
<1>4. /\ (stage' > 3 => boxRegistry'["local"] = LibBox!Router')
      /\ (~resolved' => LibBox!Ended("service")')
  BY <1>1, <1>2 DEF LibBox!IInv, LibBox!Ended
<1> QED BY <1>1, <1>3, <1>4, BoxStages DEF LibBox!IInv

\* A start that fails leaves its routers, and is one that failed.
LEMMA BoxFailPart == LibBox!IInv /\ LibBox!FailPart => LibBox!IInv'
<1> SUFFICES ASSUME LibBox!IInv, LibBox!FailPart PROVE LibBox!IInv'
  BY Zenon
<1>1. /\ boxRegistry' \in {boxRegistry, LibBox!Registered} /\ held' = {} /\ stage' = 0
      /\ failed' = failed \cup {instance}
      /\ stage > 0 /\ UNCHANGED <<boxRunning, resolved, instance, reloads>>
  BY Zenon DEF LibBox!FailPart
<1>2. ~boxRunning
  BY <1>1 DEF LibBox!IInv
<1>3. LibBox!Router' = LibBox!Router /\ LibBox!Router.start = instance
  BY <1>1, Zenon DEF LibBox!Router
<1>4. LibBox!RegistryIsCurrent' /\ (~resolved' => LibBox!Ended("service")')
  BY <1>1, <1>2, <1>3, BoxRegistered, Zenon
     DEF LibBox!IInv, LibBox!RegistryIsCurrent, LibBox!Ended, LibBox!Names
<1> QED BY <1>1, <1>2, <1>4, BoxRegistered, BoxStages
           DEF LibBox!IInv, LibBox!NothingLeftBehind, LibBox!LocalHasOutbounds

\* The router that a reload registers belongs to the instance that runs.
LEMMA BoxReload == LibBox!IInv /\ LibBox!Reload => LibBox!IInv'
BY BoxStages DEF LibBox!IInv, LibBox!Reload, LibBox!Names, LibBox!Ended, LibBox!Router,
   LibBox!NothingLeftBehind, LibBox!RegistryIsCurrent, LibBox!LocalHasOutbounds

\* A stop takes both names back.
LEMMA BoxStopCall == LibBox!IInv /\ LibBox!StopCall => LibBox!IInv'
<1> SUFFICES ASSUME LibBox!IInv, LibBox!StopCall PROVE LibBox!IInv'
  BY Zenon
<1>1. /\ stage = 0 /\ boxRunning' = FALSE /\ held' = {}
      /\ UNCHANGED <<stage, resolved, instance, failed, reloads>>
      /\ boxRegistry' = [n \in LibBox!Names |-> IF n = "service" /\ ~resolved THEN boxRegistry[n] ELSE LibBox!None]
  BY Zenon DEF LibBox!StopCall
<1>2. \A n \in LibBox!Names :
        boxRegistry'[n] = LibBox!None
          \/ (boxRegistry'[n] = boxRegistry[n] /\ boxRegistry[n].start \in failed)
  BY <1>1, Zenon DEF LibBox!IInv, LibBox!Ended
<1>3. DOMAIN boxRegistry' = LibBox!Names /\ "service" \in LibBox!Names
  BY <1>1, Zenon DEF LibBox!Names
<1>4. LibBox!RegistryIsCurrent' /\ (~resolved' => LibBox!Ended("service")')
  BY <1>1, <1>2, <1>3, Zenon DEF LibBox!RegistryIsCurrent, LibBox!Ended
<1>5. /\ boxRunning' \in BOOLEAN /\ ~boxRunning' /\ LibBox!NothingLeftBehind'
      /\ LibBox!LocalHasOutbounds'
  BY <1>1, Zenon DEF LibBox!NothingLeftBehind, LibBox!LocalHasOutbounds
<1> QED BY <1>1, <1>3, <1>4, <1>5, BoxStages DEF LibBox!IInv

\* Every call and every part keeps the invariant.
LEMMA BoxInvariance == LibBox!IInv /\ [LibBox!Next]_(LibBox!vars) => LibBox!IInv'
<1>1. ASSUME LibBox!IInv, UNCHANGED LibBox!vars PROVE LibBox!IInv'
  <2>1. /\ LibBox!Router' = LibBox!Router /\ (LibBox!Ended("service") => LibBox!Ended("service")')
        /\ LibBox!NothingLeftBehind' /\ LibBox!LocalHasOutbounds'
    BY <1>1, Zenon DEF LibBox!vars, LibBox!IInv, LibBox!Router, LibBox!Ended, LibBox!NothingLeftBehind,
       LibBox!LocalHasOutbounds
  <2>2. LibBox!RegistryIsCurrent'
    BY <1>1, Zenon DEF LibBox!vars, LibBox!IInv, LibBox!RegistryIsCurrent
  <2> QED BY <1>1, <2>1, <2>2, Zenon DEF LibBox!vars, LibBox!IInv
<1> QED BY <1>1, BoxStartCall, BoxStartPart, BoxSkipPart, BoxFailPart, BoxReload, BoxStopCall, Zenon
           DEF LibBox!Next
-----------------------------------------------------------------------------
(* Raw exchanges.                                                           *)

DnsExchange == INSTANCE DnsExchange WITH
  Configs <- Lists, None <- Absent

\* Nothing has arrived when the inbound starts.
LEMMA ExchangeInit == DnsExchange!Init => DnsExchange!IInv
BY DEF DnsExchange!Init, DnsExchange!IInv, DnsExchange!Busy, DnsExchange!OwnAnswer

\* A client asks only when none of its queries is on its way.
LEMMA ExchangeAsk ==
  ASSUME DnsExchange!IInv, NEW p \in Peers, DnsExchange!Ask(p)
  PROVE  DnsExchange!IInv'
<1>1. PICK n \in Ids : /\ arrived' = arrived \cup {[peer |-> p, id |-> n]}
                       /\ answered' = [answered EXCEPT ![p] = [asked |-> n, got |-> 0]]
  BY Zenon DEF DnsExchange!Ask, DnsExchange!Set
<1>2. UNCHANGED <<task, query>> /\ DnsExchange!Quiet(p)
  BY Zenon DEF DnsExchange!Ask
<1>3. answered' \in [Peers -> [asked : Ids \cup {0}, got : Ids \cup {0}]]
  BY <1>1, Zenon DEF DnsExchange!IInv
<1>4. \A q \in [peer : Peers, id : Ids] : q.peer # p => answered'[q.peer] = answered[q.peer]
  BY <1>1, Zenon DEF DnsExchange!IInv
<1>5. answered'[p] = [asked |-> n, got |-> 0]
  BY <1>1, Zenon DEF DnsExchange!IInv
<1>6. ASSUME NEW q \in arrived' PROVE DnsExchange!Outstanding(q)'
  <2>1. CASE q = [peer |-> p, id |-> n]
    BY <1>5, <2>1 DEF DnsExchange!Outstanding
  <2>2. CASE q \in arrived
    <3>1. q \in [peer : Peers, id : Ids] /\ answered[q.peer].asked = q.id /\ q.peer # p
      BY <1>2, <2>2, Zenon DEF DnsExchange!IInv, DnsExchange!Outstanding, DnsExchange!Quiet
    <3> QED BY <1>4, <3>1, Zenon DEF DnsExchange!Outstanding
  <2> QED BY <1>1, <1>6, <2>1, <2>2, Zenon
<1>7. \A t \in Tasks : DnsExchange!Busy(t)' => DnsExchange!Outstanding(query[t])'
  BY <1>2, <1>4, Zenon
     DEF DnsExchange!IInv, DnsExchange!Outstanding, DnsExchange!Quiet, DnsExchange!Busy
<1>8. DnsExchange!OwnAnswer'
  BY <1>1, <1>5, Zenon DEF DnsExchange!IInv, DnsExchange!OwnAnswer
<1> QED BY <1>2, <1>3, <1>6, <1>7, <1>8, Zenon DEF DnsExchange!IInv

\* A task takes the query that has arrived.
LEMMA ExchangeReceive ==
  ASSUME DnsExchange!IInv, NEW t \in Tasks, DnsExchange!Receive(t)
  PROVE  DnsExchange!IInv'
<1>1. PICK q \in arrived : arrived' = arrived \ {q} /\ query' = [query EXCEPT ![t] = q]
  BY Zenon DEF DnsExchange!Receive, DnsExchange!Set
<1>2. task' = [task EXCEPT ![t] = "next"] /\ answered' = answered
  BY Zenon DEF DnsExchange!Receive, DnsExchange!Set
<1>3. \A r \in arrived' : DnsExchange!Outstanding(r)'
  BY <1>1, <1>2, Zenon DEF DnsExchange!IInv, DnsExchange!Outstanding
<1>4. \A u \in Tasks : DnsExchange!Busy(u)' => DnsExchange!Outstanding(query[u])'
  BY <1>1, <1>2, Zenon DEF DnsExchange!IInv, DnsExchange!Outstanding, DnsExchange!Busy
<1>5. DnsExchange!OwnAnswer'
  BY <1>2, Zenon DEF DnsExchange!IInv, DnsExchange!OwnAnswer
<1> QED BY <1>1, <1>2, <1>3, <1>4, <1>5, Zenon DEF DnsExchange!IInv

\* A task that goes on keeps its query.
LEMMA ExchangeGoesOn ==
  ASSUME DnsExchange!IInv, NEW t \in Tasks, DnsExchange!Busy(t),
         UNCHANGED <<arrived, query, answered>>,
         NEW s \in {"next", "udp", "stream", "lookup", "reply"}, task' = DnsExchange!Set(task, t, s)
  PROVE  DnsExchange!IInv'
<1>1. \A u \in Tasks : DnsExchange!Busy(u)' => DnsExchange!Busy(u)
  BY Zenon DEF DnsExchange!IInv, DnsExchange!Busy, DnsExchange!Set
<1>2. task' \in [Tasks -> {"free", "next", "udp", "stream", "lookup", "reply"}]
  BY Zenon DEF DnsExchange!IInv, DnsExchange!Set
<1>3. \A u \in Tasks : DnsExchange!Busy(u)' => DnsExchange!Outstanding(query[u])'
  BY <1>1, Zenon DEF DnsExchange!IInv, DnsExchange!Outstanding
<1>4. \A r \in arrived' : DnsExchange!Outstanding(r)'
  BY Zenon DEF DnsExchange!IInv, DnsExchange!Outstanding
<1> QED BY <1>2, <1>3, <1>4, Zenon DEF DnsExchange!IInv, DnsExchange!OwnAnswer

\* A task that is over has no query.
LEMMA ExchangeOver ==
  ASSUME DnsExchange!IInv, NEW t \in Tasks, UNCHANGED arrived,
         task' = DnsExchange!Set(task, t, "free"),
         query' = DnsExchange!Set(query, t, DnsExchange!NoQuery), DnsExchange!OwnAnswer',
         answered' \in [Peers -> [asked : Ids \cup {0}, got : Ids \cup {0}]],
         \A p \in Peers : answered'[p].asked = answered[p].asked
  PROVE  DnsExchange!IInv'
<1>1. \A u \in Tasks : DnsExchange!Busy(u)' => DnsExchange!Busy(u) /\ query'[u] = query[u]
  BY Zenon DEF DnsExchange!IInv, DnsExchange!Busy, DnsExchange!Set
<1>2. /\ task' \in [Tasks -> {"free", "next", "udp", "stream", "lookup", "reply"}]
      /\ DOMAIN query' = Tasks
  BY Zenon DEF DnsExchange!IInv, DnsExchange!Set
<1>3. \A r \in [peer : Peers, id : Ids] : answered'[r.peer].asked = answered[r.peer].asked
  BY Zenon
<1>4. ASSUME NEW u \in Tasks, DnsExchange!Busy(u)' PROVE DnsExchange!Outstanding(query[u])'
  <2>1. query'[u] = query[u] /\ DnsExchange!Outstanding(query[u])
    BY <1>1, <1>4, Zenon DEF DnsExchange!IInv
  <2> QED BY <1>3, <2>1, Zenon DEF DnsExchange!Outstanding
<1>5. ASSUME NEW r \in arrived' PROVE DnsExchange!Outstanding(r)'
  <2>1. DnsExchange!Outstanding(r)
    BY <1>5, Zenon DEF DnsExchange!IInv
  <2> QED BY <1>3, <2>1, Zenon DEF DnsExchange!Outstanding
<1> QED BY <1>2, <1>4, <1>5, Zenon DEF DnsExchange!IInv

\* A step of the tasks, the inbound or the registry that leaves all queries alone.
LEMMA ExchangeStays ==
  ASSUME DnsExchange!IInv, UNCHANGED <<task, arrived, query, answered>> PROVE DnsExchange!IInv'
BY Zenon DEF DnsExchange!IInv, DnsExchange!Busy, DnsExchange!Outstanding, DnsExchange!OwnAnswer

\* The task asks a server, passes one over or gives up.
LEMMA ExchangeServers ==
  ASSUME DnsExchange!IInv, NEW t \in Tasks,
         DnsExchange!NextServer(t) \/ DnsExchange!Served(t) \/ DnsExchange!Failed(t)
  PROVE  DnsExchange!IInv'
<1>1. UNCHANGED <<arrived, query, answered>> /\ DnsExchange!Busy(t)
  BY Zenon DEF DnsExchange!NextServer, DnsExchange!Served, DnsExchange!Failed, DnsExchange!env,
     DnsExchange!Busy
<1>2. UNCHANGED task \/ \E s \in {"next", "udp", "stream", "lookup", "reply"} :
        task' = DnsExchange!Set(task, t, s)
  BY Zenon DEF DnsExchange!NextServer, DnsExchange!Served, DnsExchange!Failed
<1> QED BY <1>1, <1>2, ExchangeGoesOn, ExchangeStays, Zenon

\* The name is looked up: with a reply or without one.
LEMMA ExchangeLookup ==
  ASSUME DnsExchange!IInv, NEW t \in Tasks, DnsExchange!Lookup(t)
  PROVE  DnsExchange!IInv'
<1>1. UNCHANGED <<arrived, answered>> /\ DnsExchange!Busy(t)
  BY Zenon DEF DnsExchange!Lookup, DnsExchange!env, DnsExchange!Busy
<1>2. CASE task' = DnsExchange!Set(task, t, "reply")
  <2>1. task'[t] = "reply"
    BY <1>2, Zenon DEF DnsExchange!IInv, DnsExchange!Set
  <2>2. query' = query
    BY <2>1, Zenon DEF DnsExchange!Lookup
  <2> QED BY <1>1, <1>2, <2>2, ExchangeGoesOn, Zenon
<1>3. CASE task' = DnsExchange!Set(task, t, "free")
  <2>1. task'[t] = "free"
    BY <1>3, Zenon DEF DnsExchange!IInv, DnsExchange!Set
  <2>2. query' = DnsExchange!Set(query, t, DnsExchange!NoQuery)
    BY <2>1, Zenon DEF DnsExchange!Lookup
  <2>3. /\ DnsExchange!OwnAnswer'
        /\ answered' \in [Peers -> [asked : Ids \cup {0}, got : Ids \cup {0}]]
    BY <1>1, Zenon DEF DnsExchange!IInv, DnsExchange!OwnAnswer
  <2> QED BY <1>1, <1>3, <2>2, <2>3, ExchangeOver, Zenon
<1> QED BY <1>2, <1>3, Zenon DEF DnsExchange!Lookup

\* The reply carries the id that its client waits for.
LEMMA ExchangeReply ==
  ASSUME DnsExchange!IInv, NEW t \in Tasks, DnsExchange!Reply(t)
  PROVE  DnsExchange!IInv'
<1> DEFINE q == query[t]
<1>1. q \in [peer : Peers, id : Ids] /\ answered[q.peer].asked = q.id
  BY Zenon DEF DnsExchange!IInv, DnsExchange!Reply, DnsExchange!Busy, DnsExchange!Outstanding
<1>2. answered' = [answered EXCEPT ![q.peer].got = q.id]
  BY Zenon DEF DnsExchange!Reply
<1> HIDE DEF q
<1>3. \A p \in Peers : /\ answered'[p].asked = answered[p].asked
                       /\ answered'[p].got = IF p = q.peer THEN q.id ELSE answered[p].got
  BY <1>1, <1>2, Zenon DEF DnsExchange!IInv
<1>4. answered' \in [Peers -> [asked : Ids \cup {0}, got : Ids \cup {0}]]
  BY <1>1, <1>2, Zenon DEF DnsExchange!IInv
<1>5. DnsExchange!OwnAnswer'
  BY <1>1, <1>3, Zenon DEF DnsExchange!IInv, DnsExchange!OwnAnswer
<1> QED BY <1>3, <1>4, <1>5, ExchangeOver, Zenon DEF DnsExchange!Reply, DnsExchange!env

\* Every step of the inbound keeps the invariant.
LEMMA ExchangeInvariance ==
  DnsExchange!IInv /\ [DnsExchange!Next]_(DnsExchange!vars)
    => DnsExchange!IInv'
<1>1. DnsExchange!IInv /\ DnsExchange!Next => DnsExchange!IInv'
  <2> SUFFICES ASSUME DnsExchange!IInv, DnsExchange!Next PROVE DnsExchange!IInv'
    BY Zenon
  <2>1. CASE DnsExchange!Close \/ DnsExchange!Toggle
    BY <2>1, ExchangeStays, Zenon DEF DnsExchange!Close, DnsExchange!Toggle
  <2> QED BY <2>1, ExchangeAsk, ExchangeReceive, ExchangeServers, ExchangeLookup, ExchangeReply, Zenon
             DEF DnsExchange!Next
<1>2. DnsExchange!IInv /\ UNCHANGED DnsExchange!vars => DnsExchange!IInv'
  BY ExchangeStays, Zenon DEF DnsExchange!vars
<1> QED BY <1>1, <1>2, Zenon
-----------------------------------------------------------------------------
(* The choice of an upstream.                                               *)

DnsUpstream == INSTANCE DnsUpstream WITH
  Routers <- DnsRouters, pc <- upPc

\* A lookup starts with the router that is asked and no server attempted.
LEMMA UpstreamInit == DnsUpstream!Init => DnsUpstream!IInv
BY RouterAssumption, Zenon DEF DnsUpstream!Init, DnsUpstream!IInv, DnsUpstream!SystemIsLastResort,
   DnsUpstream!FakeOnlyIfPreferred

\* A round starts with all candidates of the router in charge.
LEMMA UpstreamRound == DnsUpstream!IInv /\ DnsUpstream!Round => DnsUpstream!IInv'
BY Zenon DEF DnsUpstream!IInv, DnsUpstream!Round, DnsUpstream!config, DnsUpstream!Candidates,
   DnsUpstream!SystemIsLastResort, DnsUpstream!FakeOnlyIfPreferred

\* A server that does not answer was asked, and the others are left.
LEMMA UpstreamEmpty ==
  ASSUME DnsUpstream!IInv, NEW i \in todo, DnsUpstream!Empty(i)
  PROVE  DnsUpstream!IInv'
<1>1. /\ UNCHANGED <<servers, preferred, registry, current, pinned, upPc, answer>> /\ upPc = "try"
      /\ attempted' = attempted \cup {i} /\ todo' = todo \ {i}
  BY Zenon DEF DnsUpstream!Empty, DnsUpstream!TakeNext, DnsUpstream!config
<1>2. /\ answer = "none" /\ todo \subseteq DnsUpstream!Candidates(current)
      /\ DnsUpstream!Candidates(current) \subseteq attempted \cup todo
  BY <1>1, Zenon DEF DnsUpstream!IInv
<1>3. DnsUpstream!Candidates(current)' = DnsUpstream!Candidates(current)
  BY <1>1, Zenon DEF DnsUpstream!Candidates
<1>4. /\ todo' \subseteq DnsUpstream!Candidates(current)'
      /\ DnsUpstream!Candidates(current)' \subseteq attempted' \cup todo'
  BY <1>1, <1>2, <1>3, Zenon
<1> QED BY <1>1, <1>2, <1>4, Zenon
           DEF DnsUpstream!IInv, DnsUpstream!SystemIsLastResort, DnsUpstream!FakeOnlyIfPreferred

\* A fakeip server that answers is the preferred one.
LEMMA UpstreamAnswer ==
  ASSUME DnsUpstream!IInv, NEW i \in todo, DnsUpstream!Answer(i)
  PROVE  DnsUpstream!IInv'
<1>1. /\ UNCHANGED <<servers, preferred, registry, current, pinned, attempted, todo>>
      /\ upPc = "try" /\ upPc' = "done"
      /\ answer' = IF servers[current][i] = "fakeip" THEN "fake" ELSE "upstream"
  BY Zenon DEF DnsUpstream!Answer, DnsUpstream!TakeNext, DnsUpstream!Transport, DnsUpstream!config
<1>2. i = preferred[current] \/ servers[current][i] # "fakeip"
  BY <1>1, Zenon DEF DnsUpstream!IInv, DnsUpstream!Candidates
<1> QED BY <1>1, <1>2, Zenon
           DEF DnsUpstream!IInv, DnsUpstream!SystemIsLastResort, DnsUpstream!FakeOnlyIfPreferred

\* A hand-over leaves an empty round at the router of the service.
LEMMA UpstreamHandOver ==
  ASSUME DnsUpstream!IInv, NEW i \in todo, DnsUpstream!HandOver(i)
  PROVE  DnsUpstream!IInv'
<1>1. /\ UNCHANGED <<servers, preferred, registry, upPc, answer>> /\ upPc = "try" /\ pinned' = TRUE
      /\ attempted' = {} /\ todo' = {}
  BY Zenon DEF DnsUpstream!HandOver, DnsUpstream!TakeNext, DnsUpstream!config
<1>2. current' \in DnsRouters
  BY Zenon DEF DnsUpstream!HandOver, DnsUpstream!IInv
<1> QED BY <1>1, <1>2, Zenon
           DEF DnsUpstream!IInv, DnsUpstream!SystemIsLastResort, DnsUpstream!FakeOnlyIfPreferred

\* The system resolver is asked when no candidate is left.
LEMMA UpstreamEndRound == DnsUpstream!IInv /\ DnsUpstream!EndRound => DnsUpstream!IInv'
<1> SUFFICES ASSUME DnsUpstream!IInv, DnsUpstream!EndRound PROVE DnsUpstream!IInv'
  BY Zenon
<1>1. /\ UNCHANGED <<servers, preferred, registry, current, pinned, attempted, todo>>
      /\ upPc = "try" /\ todo = {}
  BY Zenon DEF DnsUpstream!EndRound, DnsUpstream!config
<1>2. CASE pinned /\ attempted = {}
  BY <1>1, <1>2, Zenon DEF DnsUpstream!IInv, DnsUpstream!EndRound, DnsUpstream!SystemIsLastResort,
     DnsUpstream!FakeOnlyIfPreferred
<1>3. CASE ~(pinned /\ attempted = {})
  <2>1. upPc' = "done" /\ answer' = "system"
    BY <1>3, Zenon DEF DnsUpstream!EndRound
  <2>2. DnsUpstream!Candidates(current) \subseteq attempted
    BY <1>1, <1>3, Zenon DEF DnsUpstream!IInv
  <2>3. DnsUpstream!SystemIsLastResort'
    BY <1>1, <2>2, Zenon DEF DnsUpstream!SystemIsLastResort, DnsUpstream!Candidates
  <2> QED BY <1>1, <2>1, <2>3, Zenon DEF DnsUpstream!IInv, DnsUpstream!FakeOnlyIfPreferred
<1> QED BY <1>2, <1>3, Zenon

\* Every step of a lookup keeps the invariant.
LEMMA UpstreamInvariance ==
  DnsUpstream!IInv /\ [DnsUpstream!Next]_(DnsUpstream!vars)
    => DnsUpstream!IInv'
<1>1. DnsUpstream!IInv /\ DnsUpstream!Next => DnsUpstream!IInv'
  BY UpstreamRound, UpstreamEmpty, UpstreamAnswer, UpstreamHandOver, UpstreamEndRound, Zenon
     DEF DnsUpstream!Next
<1>2. DnsUpstream!IInv /\ UNCHANGED DnsUpstream!vars => DnsUpstream!IInv'
  BY DEF DnsUpstream!vars, DnsUpstream!config, DnsUpstream!IInv, DnsUpstream!Candidates,
     DnsUpstream!SystemIsLastResort, DnsUpstream!FakeOnlyIfPreferred
<1> QED BY <1>1, <1>2, Zenon
-----------------------------------------------------------------------------
(* Provider nodes.                                                          *)

ProviderMerge == INSTANCE ProviderMerge WITH
  Names <- LinkNames, None <- Absent, p <- provider, pc <- mergePc

\* The component counts as this module does.
LEMMA ProviderMergeCount == \A S : ProviderMerge!Cardinality(S) = Cardinality(S)
BY Zenon DEF ProviderMerge!Cardinality, Cardinality, ProviderMerge!IsFiniteSet, IsFiniteSet

\* Every line that is a link has a tag.
LEMMA ProviderTag ==
  \A l \in ProviderMerge!Lines : l.kind = "link"
    => ProviderMerge!NodeTag(l) \in ProviderMerge!AllTags
BY DEF ProviderMerge!Lines, ProviderMerge!NodeTag, ProviderMerge!AllTags

\* The configured outbounds come first.
LEMMA ProviderInit == ProviderMerge!Init => ProviderMerge!IInv
<1> SUFFICES ASSUME ProviderMerge!Init PROVE ProviderMerge!IInv
  BY Zenon
<1> DEFINE c == Cardinality(Configured)
<1>1. c \in Nat
  BY ProviderAssumption, Zenon
<1>2. PICK s \in [1..c -> Configured] :
        /\ \A n, k \in DOMAIN s : s[n] = s[k] => n = k
        /\ outbounds = [n \in DOMAIN s |-> [kind |-> "node", tag |-> s[n], members |-> <<>>]]
  BY ProviderMergeCount, Zenon DEF ProviderMerge!Init, ProviderMerge!Entry
<1> HIDE DEF c
<1> DEFINE E == [kind : {"node", "selector"}, tag : ProviderMerge!AllTags, members : Seq(ProviderMerge!AllTags)]
<1>3. outbounds \in [1..c -> E]
  <2>1. <<>> \in Seq(ProviderMerge!AllTags)
    OBVIOUS
  <2>2. \A n \in 1..c : s[n] \in ProviderMerge!AllTags
    BY Zenon DEF ProviderMerge!AllTags
  <2> QED BY <1>2, <2>1, <2>2, Zenon
<1> HIDE DEF E
<1>4. outbounds \in Seq(E) /\ DOMAIN outbounds = 1..c
  BY <1>1, <1>3
<1>5. ProviderMerge!TagsAreUnique /\ ProviderMerge!SelectorsHaveMembers
  BY <1>2, <1>4, Zenon DEF ProviderMerge!TagsAreUnique, ProviderMerge!SelectorsHaveMembers
<1>6. /\ Len(Selectors) \in Nat /\ provider = 1 /\ lines = <<>> /\ nodeTags = <<>>
      /\ tags = ProviderMerge!TagsOf(outbounds) /\ mergePc = "provider"
  BY ProviderAssumption, ProviderMergeCount DEF ProviderMerge!Init
<1> QED BY <1>4, <1>5, <1>6 DEF ProviderMerge!IInv, E

\* An outbound that is appended with a free tag, and with members that are nodes.
LEMMA ProviderAppend ==
  ASSUME ProviderMerge!IInv, NEW kind \in {"node", "selector"}, NEW tag \in ProviderMerge!AllTags,
         NEW members \in Seq(ProviderMerge!AllTags),
         tag \notin tags,
         kind = "selector" => members # <<>> /\ \A m \in DOMAIN members : ProviderMerge!IsNode(members[m]),
         outbounds' = Append(outbounds, ProviderMerge!Entry(kind, tag, members))
  PROVE  /\ outbounds' \in Seq([kind : {"node", "selector"}, tag : ProviderMerge!AllTags, members : Seq(ProviderMerge!AllTags)])
         /\ ProviderMerge!TagsAreUnique' /\ ProviderMerge!SelectorsHaveMembers'
         /\ ProviderMerge!TagsOf(outbounds') = tags \cup {tag}
         /\ \A t : ProviderMerge!IsNode(t) => ProviderMerge!IsNode(t)'
         /\ kind = "node" => ProviderMerge!IsNode(tag)'
<1> DEFINE e == ProviderMerge!Entry(kind, tag, members)
           E == [kind : {"node", "selector"}, tag : ProviderMerge!AllTags, members : Seq(ProviderMerge!AllTags)]
           len == Len(outbounds)
<1>1. e \in E /\ e.kind = kind /\ e.tag = tag /\ e.members = members
  BY Zenon DEF ProviderMerge!Entry
<1>2. /\ outbounds \in Seq(E) /\ ProviderMerge!TagsAreUnique /\ ProviderMerge!SelectorsHaveMembers
      /\ tags = ProviderMerge!TagsOf(outbounds)
  BY Zenon DEF ProviderMerge!IInv
<1>3. outbounds' = Append(outbounds, e)
  BY Zenon
<1> HIDE DEF e, E
<1>4. /\ outbounds' \in Seq(E) /\ len \in Nat /\ DOMAIN outbounds = 1..len
      /\ DOMAIN outbounds' = 1..len + 1
      /\ outbounds'[len + 1] = e /\ \A n \in 1..len : outbounds'[n] = outbounds[n]
  BY <1>1, <1>2, <1>3
<1> HIDE DEF len
<1>5. \A n \in 1..len + 1 : n \in 1..len \/ n = len + 1
  BY <1>4
<1>6. \A n \in 1..len : outbounds[n].tag # tag
  BY <1>2, <1>4, Zenon DEF ProviderMerge!TagsOf
<1>7. ProviderMerge!TagsAreUnique'
  BY <1>1, <1>2, <1>4, <1>5, <1>6 DEF ProviderMerge!TagsAreUnique
<1>8. ProviderMerge!TagsOf(outbounds') = tags \cup {tag}
  BY <1>1, <1>2, <1>4, <1>5 DEF ProviderMerge!TagsOf
<1>9. /\ (\A t : ProviderMerge!IsNode(t) => ProviderMerge!IsNode(t)')
      /\ (kind = "node" => ProviderMerge!IsNode(tag)')
  BY <1>1, <1>4 DEF ProviderMerge!IsNode
<1>10. ASSUME NEW n \in 1..len + 1, outbounds'[n].kind = "selector"
       PROVE  /\ outbounds'[n].members # <<>>
              /\ \A m \in DOMAIN outbounds'[n].members :
                   \E k \in 1..n - 1 :
                     outbounds'[k].kind = "node" /\ outbounds'[k].tag = outbounds'[n].members[m]
  <2>1. CASE n \in 1..len
    <3>1. \A k \in 1..n - 1 : outbounds'[k] = outbounds[k]
      BY <1>4, <2>1
    <3>2. outbounds'[n] = outbounds[n]
      BY <1>4, <2>1, Zenon
    <3> QED BY <1>2, <1>4, <1>10, <2>1, <3>1, <3>2 DEF ProviderMerge!SelectorsHaveMembers
  <2>2. CASE n = len + 1
    <3>1. /\ outbounds'[n] = e /\ members # <<>>
          /\ (\A m \in DOMAIN members : ProviderMerge!IsNode(members[m]))
          /\ n - 1 = len
      BY <1>1, <1>4, <1>10, <2>2
    <3>2. \A m \in DOMAIN members : \E k \in 1..len :
            outbounds[k].kind = "node" /\ outbounds[k].tag = members[m]
      BY <1>4, <3>1, Zenon DEF ProviderMerge!IsNode
    <3>3. \A m \in DOMAIN members : \E k \in 1..len :
            outbounds'[k].kind = "node" /\ outbounds'[k].tag = members[m]
      BY <1>4, <3>2, Zenon
    <3>4. outbounds'[n].members = members
      BY <1>1, <3>1, Zenon
    <3> QED BY <3>1, <3>3, <3>4, Zenon
  <2> QED BY <1>5, <2>1, <2>2, Zenon
<1>11. ProviderMerge!SelectorsHaveMembers'
  BY <1>4, <1>10 DEF ProviderMerge!SelectorsHaveMembers
<1> QED BY <1>4, <1>7, <1>8, <1>9, <1>11, Zenon DEF E

\* A step that adds no outbound.
LEMMA ProviderStays ==
  ASSUME ProviderMerge!IInv, UNCHANGED <<outbounds, tags>>
  PROVE  /\ outbounds' \in Seq([kind : {"node", "selector"}, tag : ProviderMerge!AllTags, members : Seq(ProviderMerge!AllTags)])
         /\ tags' = ProviderMerge!TagsOf(outbounds') /\ ProviderMerge!TagsAreUnique'
         /\ ProviderMerge!SelectorsHaveMembers' /\ \A t :
              ProviderMerge!IsNode(t) => ProviderMerge!IsNode(t)'
BY DEF ProviderMerge!IInv, ProviderMerge!TagsAreUnique, ProviderMerge!SelectorsHaveMembers,
   ProviderMerge!IsNode

\* A subscription is fetched, and nothing contributed yet; or passed over.
LEMMA ProviderFetch ==
  ProviderMerge!IInv /\ (ProviderMerge!PassOver \/ ProviderMerge!Fetch \/ ProviderMerge!Merged)
    => ProviderMerge!IInv'
<1> SUFFICES ASSUME ProviderMerge!IInv,
                    ProviderMerge!PassOver \/ ProviderMerge!Fetch \/ ProviderMerge!Merged
             PROVE  ProviderMerge!IInv'
  BY Zenon
<1>1. UNCHANGED <<outbounds, tags>>
  BY Zenon DEF ProviderMerge!PassOver, ProviderMerge!Fetch, ProviderMerge!Merged
<1>2. Len(Selectors) \in Nat /\ DOMAIN Selectors = 1..Len(Selectors)
  BY ProviderAssumption
<1>3. CASE ProviderMerge!PassOver
  <2>1. /\ provider' \in 1..Len(Selectors) + 1 /\ UNCHANGED <<lines, nodeTags, mergePc>>
        /\ mergePc = "provider"
    BY <1>2, <1>3 DEF ProviderMerge!IInv, ProviderMerge!PassOver
  <2> QED BY <1>1, <2>1, ProviderStays, Zenon DEF ProviderMerge!IInv
<1>4. CASE ProviderMerge!Fetch
  <2>1. UNCHANGED provider /\ provider \in DOMAIN Selectors
    BY <1>4, Zenon DEF ProviderMerge!Fetch, ProviderMerge!Subscribed
  <2>2. /\ lines' \in Seq(ProviderMerge!Lines) /\ nodeTags' \in Seq(ProviderMerge!AllTags)
        /\ \A m \in DOMAIN nodeTags' : ProviderMerge!IsNode(nodeTags'[m])
    <3>1. CASE UNCHANGED <<lines, nodeTags>>
      BY <3>1, Zenon DEF ProviderMerge!IInv
    <3>2. ASSUME nodeTags' = <<>>, NEW n \in 0..MaxLines, lines' \in [1..n -> ProviderMerge!Lines]
          PROVE  /\ lines' \in Seq(ProviderMerge!Lines) /\ nodeTags' \in Seq(ProviderMerge!AllTags)
                 /\ \A m \in DOMAIN nodeTags' : ProviderMerge!IsNode(nodeTags'[m])
      BY <3>2
    <3> QED BY <1>4, <3>1, <3>2, Zenon DEF ProviderMerge!Fetch
  <2>3. \A m \in DOMAIN nodeTags' : ProviderMerge!IsNode(nodeTags[m])'
    BY <1>1, <2>2, ProviderStays, Zenon
  <2> QED BY <1>1, <2>1, <2>2, <2>3, ProviderStays, Zenon DEF ProviderMerge!IInv
<1>5. CASE ProviderMerge!Merged
  <2>1. UNCHANGED <<provider, lines, nodeTags>> /\ mergePc' = "merged"
    BY <1>5, Zenon DEF ProviderMerge!Merged
  <2> QED BY <1>1, <2>1, ProviderStays, Zenon DEF ProviderMerge!IInv
<1> QED BY <1>3, <1>4, <1>5, Zenon

\* A line adds a node whose tag is free, or nothing.
LEMMA ProviderLine == ProviderMerge!IInv /\ ProviderMerge!Line => ProviderMerge!IInv'
<1> SUFFICES ASSUME ProviderMerge!IInv, ProviderMerge!Line PROVE ProviderMerge!IInv'
  BY Zenon
<1>1. /\ mergePc = "lines" /\ lines # <<>> /\ lines' = Tail(lines)
      /\ UNCHANGED <<provider, mergePc>>
      /\ lines \in Seq(ProviderMerge!Lines) /\ nodeTags \in Seq(ProviderMerge!AllTags)
      /\ tags = ProviderMerge!TagsOf(outbounds)
  BY Zenon DEF ProviderMerge!IInv, ProviderMerge!Line
<1>2. Head(lines) \in ProviderMerge!Lines /\ lines' \in Seq(ProviderMerge!Lines)
  BY <1>1
<1> PICK t : t = ProviderMerge!NodeTag(Head(lines))
  BY Zenon
<1>3. CASE Head(lines).kind = "link" /\ t \notin tags
  <2>1. t \in ProviderMerge!AllTags /\ <<>> \in Seq(ProviderMerge!AllTags)
    BY <1>2, <1>3, ProviderTag
  <2>2. /\ tags' = tags \cup {t} /\ nodeTags' = Append(nodeTags, t)
        /\ outbounds' = Append(outbounds, ProviderMerge!Entry("node", t, <<>>))
    BY <1>3, Zenon DEF ProviderMerge!Line, ProviderMerge!AddNode
  <2>3. /\ outbounds' \in Seq([kind : {"node", "selector"}, tag : ProviderMerge!AllTags, members : Seq(ProviderMerge!AllTags)])
        /\ ProviderMerge!TagsAreUnique' /\ ProviderMerge!SelectorsHaveMembers'
        /\ ProviderMerge!TagsOf(outbounds') = tags \cup {t}
        /\ (\A u : ProviderMerge!IsNode(u) => ProviderMerge!IsNode(u)') /\ ProviderMerge!IsNode(t)'
    BY <1>3, <2>1, <2>2, ProviderAppend, Zenon
  <2>4. nodeTags' \in Seq(ProviderMerge!AllTags) /\ \A m \in DOMAIN nodeTags' :
          nodeTags'[m] = t \/ (m \in DOMAIN nodeTags /\ nodeTags'[m] = nodeTags[m])
    <3>1. /\ nodeTags \in Seq(ProviderMerge!AllTags) /\ nodeTags' = Append(nodeTags, t)
          /\ t \in ProviderMerge!AllTags
      BY <1>1, <2>1, <2>2, Zenon
    <3>2. /\ nodeTags' \in Seq(ProviderMerge!AllTags) /\ DOMAIN nodeTags = 1..Len(nodeTags)
          /\ DOMAIN nodeTags' = 1..Len(nodeTags) + 1
      BY <3>1
    <3>3. \A m \in 1..Len(nodeTags) + 1 : nodeTags'[m] = IF m = Len(nodeTags) + 1 THEN t ELSE nodeTags[m]
      BY <3>1
    <3> QED BY <3>1, <3>2, <3>3
  <2>5. \A m \in DOMAIN nodeTags' : ProviderMerge!IsNode(nodeTags[m])'
    BY <2>3, <2>4, Zenon DEF ProviderMerge!IInv, ProviderMerge!IsNode
  <2> QED BY <1>1, <1>2, <2>2, <2>3, <2>4, <2>5, Zenon DEF ProviderMerge!IInv
<1>4. CASE ~(Head(lines).kind = "link" /\ t \notin tags)
  <2>1. UNCHANGED <<outbounds, tags, nodeTags>>
    BY <1>4, Zenon DEF ProviderMerge!Line, ProviderMerge!AddNode
  <2> QED BY <1>1, <1>2, <2>1, ProviderStays, Zenon DEF ProviderMerge!IInv
<1> QED BY <1>3, <1>4, Zenon

\* A provider ends with its selector or without one.
LEMMA ProviderEnd == ProviderMerge!IInv /\ ProviderMerge!EndProvider => ProviderMerge!IInv'
<1> SUFFICES ASSUME ProviderMerge!IInv, ProviderMerge!EndProvider PROVE ProviderMerge!IInv'
  BY Zenon
<1> DEFINE sel == Selectors[provider]
<1>1. /\ mergePc = "lines" /\ mergePc' = "provider" /\ provider' = provider + 1
      /\ UNCHANGED <<lines, nodeTags>>
      /\ provider \in DOMAIN Selectors /\ nodeTags \in Seq(ProviderMerge!AllTags)
      /\ lines \in Seq(ProviderMerge!Lines)
  BY Zenon DEF ProviderMerge!IInv, ProviderMerge!EndProvider
<1>2. provider' \in 1..Len(Selectors) + 1
  BY <1>1, ProviderAssumption
<1>3. CASE sel # Absent /\ nodeTags # <<>> /\ sel \notin tags
  <2>1. sel \in ProviderMerge!AllTags
    BY <1>1, Zenon DEF ProviderMerge!AllTags
  <2>2. /\ tags' = tags \cup {sel}
        /\ outbounds' = Append(outbounds, ProviderMerge!Entry("selector", sel, nodeTags))
    BY <1>3, Zenon DEF ProviderMerge!EndProvider
  <2>3. \A m \in DOMAIN nodeTags : ProviderMerge!IsNode(nodeTags[m])
    BY Zenon DEF ProviderMerge!IInv
  <2> HIDE DEF sel
  <2>4. /\ outbounds' \in Seq([kind : {"node", "selector"}, tag : ProviderMerge!AllTags, members : Seq(ProviderMerge!AllTags)])
        /\ ProviderMerge!TagsAreUnique' /\ ProviderMerge!SelectorsHaveMembers'
        /\ ProviderMerge!TagsOf(outbounds') = tags \cup {sel}
        /\ \A u : ProviderMerge!IsNode(u) => ProviderMerge!IsNode(u)'
    BY <1>1, <1>3, <2>1, <2>2, <2>3, ProviderAppend, Zenon
  <2> QED BY <1>1, <1>2, <2>2, <2>3, <2>4, Zenon DEF ProviderMerge!IInv
<1>4. CASE ~(sel # Absent /\ nodeTags # <<>> /\ sel \notin tags)
  <2>1. UNCHANGED <<outbounds, tags>>
    BY <1>4, Zenon DEF ProviderMerge!EndProvider
  <2> QED BY <1>1, <1>2, <2>1, ProviderStays, Zenon DEF ProviderMerge!IInv
<1> QED BY <1>3, <1>4, Zenon

\* Every step of the merge keeps the invariant.
LEMMA ProviderInvariance ==
  ProviderMerge!IInv /\ [ProviderMerge!Next]_(ProviderMerge!vars)
    => ProviderMerge!IInv'
<1>1. ProviderMerge!IInv /\ UNCHANGED ProviderMerge!vars => ProviderMerge!IInv'
  BY ProviderStays, Zenon DEF ProviderMerge!vars, ProviderMerge!IInv
<1> QED BY <1>1, ProviderFetch, ProviderLine, ProviderEnd, Zenon DEF ProviderMerge!Next
-----------------------------------------------------------------------------
(* Counting and sequences.                                                 *)


-----------------------------------------------------------------------------
(* The run: one of the components.                                          *)

SuccinctKeys == INSTANCE SuccinctKeys WITH
  Letters <- {3, 4}, MaxLen <- 2, MaxKeys <- 3, Word <- 4, KeyLimit <- 2,
  file <- v1, leaves <- v2, labelBitmap <- v3, labels <- v4, stack <- v5,
  current <- v6, result <- v7, pc <- v8
RuleSetLoad == INSTANCE RuleSetLoad WITH
  Conf <- <<"p", "a", "b">>,
  Kind <- [p |-> "path", a |-> "url", b |-> "url", e |-> "url", g |-> "url"],
  Geo <- <<"b", "e", "g">>, Embedded <- {"e"},
  Name <- [p |-> "p", a |-> "a", b |-> "b", e |-> "e", g |-> "g"], MaxUrls <- 2,
  MaxStarts <- 3, None <- "none",
  disk <- v1, starts <- v2, pc <- v3, i <- v4, url <- v5, body <- v6, map <- v7,
  sets <- v8, cached <- v9

\* For TLC: server lists with a service and with fakeip, a registered router that
\* refers on, and a provider between two that is not supported.
MCLists == {<<"stream", "resolved">>, <<"fakeip">>}
MCService == <<"resolved", "udp">>
MCSelectors == <<"s", "unsupported", "s">>

\* The state of a component that does not run.
NoUpstream ==
  /\ servers = "idle" /\ preferred = "idle" /\ registry = "idle"
  /\ current = "idle" /\ pinned = "idle" /\ attempted = "idle"
  /\ todo = "idle" /\ upPc = "idle" /\ answer = "idle"
NoExchange ==
  /\ main = "idle" /\ registered = "idle" /\ toggles = "idle"
  /\ running = "idle" /\ queries = "idle" /\ arrived = "idle" /\ buf = "idle"
  /\ task = "idle" /\ query = "idle" /\ onService = "idle" /\ pos = "idle"
  /\ answered = "idle"
NoReload ==
  /\ users = "idle" /\ options = "idle" /\ managed = "idle"
  /\ listening = "idle" /\ local = "idle" /\ lock = "idle"
  /\ reloadPc = "idle" /\ conf = "idle" /\ overlap = "idle"
NoBox ==
  /\ stage = "idle" /\ boxRunning = "idle" /\ held = "idle"
  /\ boxRegistry = "idle" /\ resolved = "idle" /\ instance = "idle"
  /\ failed = "idle" /\ reloads = "idle"
NoProviders ==
  /\ outbounds = "idle" /\ tags = "idle" /\ provider = "idle"
  /\ lines = "idle" /\ nodeTags = "idle" /\ mergePc = "idle"
NoCache ==
  /\ up = "idle" /\ selected = "idle" /\ cache = "idle" /\ file = "idle"
  /\ reqPc = "idle" /\ req = "idle" /\ snap = "idle" /\ overlapped = "idle"
  /\ starts = "idle"

MCInit ==
  /\ part \in {"lookup", "upstream", "exchange", "reload", "box", "providers", "cache", "keys", "load"}
  /\ Init
  /\ IF part = "upstream" THEN DnsUpstream!Init ELSE NoUpstream
  /\ IF part = "exchange" THEN DnsExchange!Init ELSE NoExchange
  /\ IF part = "reload" THEN ConfigReload!Init ELSE NoReload
  /\ IF part = "box" THEN LibBox!Init ELSE NoBox
  /\ IF part = "providers" THEN ProviderMerge!Init ELSE NoProviders
  /\ IF part = "cache" THEN SelectorCache!Init ELSE NoCache
  /\ \/ part \in {"lookup", "upstream", "exchange", "reload", "box", "providers", "cache"} /\ Idle1
     \/ part = "keys" /\ SuccinctKeys!Init /\ Idle9
     \/ part = "load" /\ RuleSetLoad!Init

\* The components that do not run keep their state.
OthersStay ==
  /\ UNCHANGED part
  /\ IF part = "lookup" THEN TRUE ELSE UNCHANGED vars
  /\ IF part = "upstream" THEN TRUE ELSE UNCHANGED ofUpstream
  /\ IF part = "exchange" THEN TRUE ELSE UNCHANGED ofExchange
  /\ IF part = "reload" THEN TRUE ELSE UNCHANGED ofReload
  /\ IF part = "box" THEN TRUE ELSE UNCHANGED ofBox
  /\ IF part = "providers" THEN TRUE ELSE UNCHANGED ofProviders
  /\ IF part = "cache" THEN TRUE ELSE UNCHANGED ofCache
  /\ IF part \in {"lookup", "upstream", "exchange", "reload", "box", "providers", "cache"} THEN UNCHANGED from1 ELSE TRUE

MCNext ==
  \/ part = "lookup" /\ Next /\ OthersStay
  \/ part = "upstream" /\ DnsUpstream!Next /\ OthersStay
  \/ part = "exchange" /\ DnsExchange!Next /\ OthersStay
  \/ part = "reload" /\ ConfigReload!Next /\ OthersStay
  \/ part = "box" /\ LibBox!Next /\ OthersStay
  \/ part = "providers" /\ ProviderMerge!Next /\ OthersStay
  \/ part = "cache" /\ SelectorCache!Next /\ OthersStay
  \/ part = "keys" /\ SuccinctKeys!Next /\ UNCHANGED from9 /\ OthersStay
  \/ part = "load" /\ RuleSetLoad!Next /\ OthersStay

\* What is fair while a component runs, as in its module.
MCFairness ==
  /\ \A l \in Lookups : WF_vars(part = "lookup" /\ Lookup(l))
  /\ WF_ofUpstream(part = "upstream" /\ DnsUpstream!Next)
  /\ \A t \in Tasks : WF_ofExchange(part = "exchange" /\ DnsExchange!Step(t))
  /\ \A r \in Reloads : WF_ofReload(part = "reload" /\ ConfigReload!Step(r))

MCSpec == MCInit /\ [][MCNext]_state /\ MCFairness
-----------------------------------------------------------------------------
\* Every component keeps its types.
TypesOK ==
  /\ TypeOK
  /\ part = "upstream" => DnsUpstream!TypeOK
  /\ part = "exchange" => DnsExchange!TypeOK
  /\ part = "keys" => SuccinctKeys!TypeOK
  /\ part = "load" => RuleSetLoad!TypeOK
  /\ part = "reload" => ConfigReload!TypeOK
  /\ part = "box" => LibBox!TypeOK
  /\ part = "providers" => ProviderMerge!TypeOK
  /\ part = "cache" => SelectorCache!TypeOK

\* An answer is the one that was due: the system resolver is asked only after
\* every server failed, a fake address is given only to those who prefer one,
\* and a client gets the answer to the query it has outstanding.
RightServerAnswers ==
  /\ part = "upstream" => DnsUpstream!SystemIsLastResort
  /\ part = "upstream" => DnsUpstream!FakeOnlyIfPreferred
  /\ part = "exchange" => DnsExchange!OwnAnswer

\* Rule sets are the ones configured: the keys of a compiled set come back as
\* they went in, no configured set is missing after a start, none holds the
\* rules of another, and one that was loaded once can be loaded without the
\* network.
RuleSetsHold ==
  /\ part = "keys" => SuccinctKeys!KeysComeBack
  /\ part = "load" => RuleSetLoad!NoConfiguredSetMissing
  /\ part = "load" => RuleSetLoad!OwnRules
  /\ part = "load" => RuleSetLoad!StartsOffline

\* What runs is what was configured: a reload leaves the inbounds of the
\* stored options running and, alone, applies all of it; a start or stop that
\* failed leaves nothing behind in the process, nor an outbound that is not
\* the instance's; provider nodes have their own tags and selectors their
\* members; a choice that nothing raced is the one in the file.
ConfigurationHolds ==
  /\ part = "reload" => ConfigReload!ServedMatchesStored
  /\ part = "reload" => ConfigReload!SoloReloadApplies
  /\ part = "box" => LibBox!NothingLeftBehind
  /\ part = "box" => LibBox!RegistryIsCurrent
  /\ part = "box" => LibBox!LocalHasOutbounds
  /\ part = "providers" => ProviderMerge!TagsAreUnique
  /\ part = "providers" => ProviderMerge!SelectorsHaveMembers
  /\ part = "cache" => SelectorCache!AloneIsSaved
  /\ part = "cache" => SelectorCache!StopSaves

\* Whoever asks is answered: every lookup returns though it waits at a gate
\* others may leave or drop, a query that is handed to no other router ends,
\* and so do exchanges and reloads.
\* (The tasks and reloads of a component are interchangeable, so one stands
\* for all; part never changes, so one formula serves all components.)
OneTask == CHOOSE t \in Tasks : TRUE
OneReload == CHOOSE r \in Reloads : TRUE
Waits ==
  \/ part = "upstream"
  \/ part = "exchange" /\ DnsExchange!Busy(OneTask)
  \/ part = "reload" /\ ConfigReload!Begun(OneReload)
HasEnded ==
  /\ part = "upstream" => DnsUpstream!AnsweredOrHandedOver
  /\ part = "exchange" => DnsExchange!Over(OneTask)
  /\ part = "reload" => ConfigReload!Over(OneReload)
RequestsReturn ==
  /\ (part = "lookup" => LookupsReturn)
  /\ Waits ~> HasEnded
-----------------------------------------------------------------------------
\* The inductive invariant: that of the lookups, and of the component that runs.
MCInv ==
  /\ IInv
  /\ part = "upstream" => DnsUpstream!IInv
  /\ part = "exchange" => DnsExchange!IInv
  /\ part = "reload" => ConfigReload!IInv
  /\ part = "box" => LibBox!IInv
  /\ part = "providers" => ProviderMerge!IInv
  /\ part = "cache" => SelectorCache!IInv

\* Every component starts in a state of its invariant.
LEMMA NamesInit == MCInit => MCInv
BY LookupInit, UpstreamInit, ExchangeInit, ReloadInit, BoxInit, ProviderInit, CacheInit, Zenon
   DEF MCInit, MCInv

\* A step of the run is one of the component that runs, and no step of another.
LEMMA NamesSteps ==
  ASSUME [MCNext]_state
  PROVE  /\ part' = part /\ [Next]_vars
         /\ part = "upstream" => [DnsUpstream!Next]_(DnsUpstream!vars)
         /\ part = "exchange" => [DnsExchange!Next]_(DnsExchange!vars)
         /\ part = "reload" => [ConfigReload!Next]_(ConfigReload!vars)
         /\ part = "box" => [LibBox!Next]_(LibBox!vars)
         /\ part = "providers" => [ProviderMerge!Next]_(ProviderMerge!vars)
         /\ part = "cache" => [SelectorCache!Next]_(SelectorCache!vars)
BY Zenon DEF MCNext, OthersStay, state, ofUpstream, ofExchange, ofReload, ofBox, ofProviders, ofCache,
   DnsUpstream!vars, DnsExchange!vars, ConfigReload!vars, LibBox!vars, ProviderMerge!vars,
   SelectorCache!vars, DnsUpstream!config

\* Every run stays in the invariant.
LEMMA NamesInvariant == MCSpec => []MCInv
<1>1. ASSUME MCInv, [MCNext]_state PROVE MCInv'
  BY <1>1, NamesSteps, LookupInvariance, UpstreamInvariance, ExchangeInvariance, ReloadInvariance,
     BoxInvariance, ProviderInvariance, CacheInvariance, Zenon DEF MCInv
<1>2. MCInv /\ [MCNext]_state => MCInv'
  BY <1>1, Zenon
<1> QED BY <1>2, NamesInit, PTL DEF MCSpec

\* However many lookups of a hostname race, are answered, fail or are dropped,
\* one at most is querying upstream.
THEOREM OneQueryAtATime == MCSpec => []SingleFlight
<1>1. MCInv => SingleFlight
  BY Zenon DEF MCInv, IInv, GateExclusive, Queriers, SingleFlight, Inside
<1> QED BY <1>1, NamesInvariant, PTL

\* Lookups and exchanges are answered by the server that was due, for every
\* number of routers, servers, services, clients and tasks.
THEOREM ServersAnswer == MCSpec => []RightServerAnswers
<1>1. MCInv => RightServerAnswers
  BY Zenon DEF MCInv, RightServerAnswers, DnsUpstream!IInv, DnsExchange!IInv
<1> QED BY <1>1, NamesInvariant, PTL

\* What runs is what was configured, for every number of reloads that overlap,
\* starts, providers with their lines, and requests that write the file.
THEOREM ConfigurationKept == MCSpec => []ConfigurationHolds
<1>1. MCInv => ConfigurationHolds
  BY Zenon DEF MCInv, ConfigurationHolds, ConfigReload!IInv, LibBox!IInv, ProviderMerge!IInv,
     SelectorCache!IInv
<1> QED BY <1>1, NamesInvariant, PTL
=============================================================================
