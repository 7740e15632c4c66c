----------------------------- MODULE DnsLookup -----------------------------
(***************************************************************************)
(* DnsRouter::lookup for one hostname (rsb-dns/lib.rs): the positive cache  *)
(* and the single-flight gate.  Hostnames share no state.                   *)
(*                                                                         *)
(* A gate is named by the number of gates made before it, plus one.         *)
(***************************************************************************)
EXTENDS Integers

CONSTANT Lookups  \* calls of lookup, each made once

VARIABLES
  cached,   \* lookup_cache holds a fresh answer
  gate,     \* the gate in lookup_inflight, 0 when absent
  gates,    \* gates made so far
  pc, mine  \* per lookup: where it is, its gate

vars == <<cached, gate, gates, pc, mine>>

Final == {"ok", "err", "cancelled"}

TypeOK ==
  /\ cached \in BOOLEAN
  /\ gates \in Nat /\ gate \in 0..gates
  /\ pc \in [Lookups -> {"start", "gate", "lock", "check", "query", "put", "remove"} \cup Final]
  /\ mine \in [Lookups -> 0..gates]

Init ==
  /\ cached = FALSE /\ gate = 0 /\ gates = 0
  /\ pc = [l \in Lookups |-> "start"] /\ mine = [l \in Lookups |-> 0]
-----------------------------------------------------------------------------
Goto(l, next) == pc' = [pc EXCEPT ![l] = next]

\* The lookups inside the critical section of gate g.
Inside == {"check", "query", "put", "remove"}


Locked(g) == \E l \in Lookups : mine[l] = g /\ pc[l] \in Inside

\* The first cache_get, without the gate.
CacheGet(l) ==
  /\ pc[l] = "start"
  /\ Goto(l, IF cached THEN "ok" ELSE "gate")
  /\ UNCHANGED <<cached, gate, gates, mine>>

\* Mutant of TakeGate: makes a gate and does not count it.
TakeGateUncounted(l) ==
  /\ pc[l] = "gate"
  /\ gate' = IF gate = 0 THEN gates + 1 ELSE gate
  /\ mine' = [mine EXCEPT ![l] = gate']
  /\ Goto(l, "lock")
  /\ UNCHANGED <<cached, gates>>

\* The gate of the hostname, made if there is none.
TakeGate(l) ==
  /\ pc[l] = "gate"
  /\ gates' = IF gate = 0 THEN gates + 1 ELSE gates
  /\ gate' = IF gate = 0 THEN gates + 1 ELSE gate
  /\ mine' = [mine EXCEPT ![l] = gate']
  /\ Goto(l, "lock")
  /\ UNCHANGED cached

Lock(l) ==
  /\ pc[l] = "lock" /\ ~Locked(mine[l])
  /\ Goto(l, "check")
  /\ UNCHANGED <<cached, gate, gates, mine>>

\* The second cache_get, under the gate; a hit leaves the gate in the map.
Recheck(l) ==
  /\ pc[l] = "check"
  /\ Goto(l, IF cached THEN "ok" ELSE "query")
  /\ UNCHANGED <<cached, gate, gates, mine>>

\* lookup_uncached returns addresses: an upstream's answer, or those of the
\* system resolver, which fails rather than answer with none.
QueryOk(l) ==
  /\ pc[l] = "query"
  /\ Goto(l, "put")
  /\ UNCHANGED <<cached, gate, gates, mine>>

\* Mutant of QueryFail: takes the gate away on errors too.
QueryFailRemoves(l) ==
  /\ pc[l] = "query"
  /\ Goto(l, "err")
  /\ gate' = 0
  /\ UNCHANGED <<cached, gates, mine>>

\* lookup_uncached fails: `?` returns, and the gate stays in the map.
QueryFail(l) ==
  /\ pc[l] = "query"
  /\ Goto(l, "err")
  /\ UNCHANGED <<cached, gate, gates, mine>>

CachePut(l) ==
  /\ pc[l] = "put"
  /\ cached' = TRUE
  /\ Goto(l, "remove")
  /\ UNCHANGED <<gate, gates, mine>>

\* Removes the hostname's gate, whichever it is.
RemoveGate(l) ==
  /\ pc[l] = "remove"
  /\ gate' = 0
  /\ Goto(l, "ok")
  /\ UNCHANGED <<cached, gates, mine>>

Lookup(l) ==
  \/ CacheGet(l) \/ TakeGate(l) \/ Lock(l) \/ Recheck(l)
  \/ QueryOk(l) \/ QueryFail(l) \/ CachePut(l) \/ RemoveGate(l)

\* The caller drops the lookup at an await: the gate is unlocked, not removed.
Cancel(l) ==
  /\ pc[l] \in {"lock", "query"}
  /\ Goto(l, "cancelled")
  /\ UNCHANGED <<cached, gate, gates, mine>>

\* DNS_CACHE_TTL passes.  Five minutes are longer than it takes a lookup that
\* found the cache empty to look again once the gate is free.
Expire ==
  /\ cached
  /\ \A l \in Lookups : pc[l] \notin {"gate", "lock", "check", "put", "remove"}
  /\ cached' = FALSE
  /\ UNCHANGED <<gate, gates, pc, mine>>

Next == Expire \/ \E l \in Lookups : Lookup(l) \/ Cancel(l)

\* The gate is a fair mutex, and a query ends: by itself or by its caller.
Fairness == \A l \in Lookups : WF_vars(Lookup(l))

Spec == Init /\ [][Next]_vars /\ Fairness
-----------------------------------------------------------------------------
(* Properties *)

\* The comment on lookup_inflight, "avoid N concurrent UDP queries via RST": at
\* most one lookup of a hostname queries upstream at a time, although gates are
\* removed while others wait on them and a new one may be made meanwhile.
SingleFlight ==
  \A k, l \in Lookups : pc[k] = "query" /\ pc[l] = "query" => k = l

\* Every lookup returns: a failed or cancelled query passes the gate on.
LookupsReturn == <>(\A l \in Lookups : pc[l] \in Final)

\* Inductive form of SingleFlight.  A gate is removed only once the answer is
\* cached, so a lookup that waits on a gate no longer in the map will find the
\* answer and not query (Waiters), while one that queries holds the gate of
\* the map and nothing is cached (Queriers).  A gate admits one lookup.
GateExclusive ==
  \A k, l \in Lookups :
    pc[k] \in Inside /\ pc[l] \in Inside /\ mine[k] = mine[l] => k = l

Waiters ==
  \A l \in Lookups :
    pc[l] \in {"lock", "check"} => mine[l] # 0 /\ (mine[l] = gate \/ cached)

Queriers ==
  \A l \in Lookups :
    pc[l] \in {"query", "put"} => mine[l] # 0 /\ mine[l] = gate /\ ~cached

Removers == \A l \in Lookups : pc[l] = "remove" => cached

IInv == TypeOK /\ GateExclusive /\ Waiters /\ Queriers /\ Removers
=============================================================================
