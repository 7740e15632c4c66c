---------------------------- MODULE UserSessions ---------------------------
(***************************************************************************)
(* Relay sessions of one panel user: the user registry, its hot reload,     *)
(* ConnectionManager's admission and traffic accounting, and the two halves *)
(* of every relay (user_registry.rs, connection_manager.rs, user_relay.rs,  *)
(* UserRelaySession in inbound_proxy.rs).                                   *)
(*                                                                         *)
(* Users share nothing but the registry's maps, so one is enough.  A        *)
(* session whose lookup misses the user runs under another name and without *)
(* limits.                                                                  *)
(***************************************************************************)
EXTENDS Integers, FiniteSets

CONSTANTS
  Sessions,        \* relays begun for the user
  MaxConnections,  \* limits.max_connections
  MaxTraffic,      \* limits.max_traffic_bytes
  MaxChunk,        \* bytes one read may return
  MaxReloads       \* bound on the number of reloads

VARIABLES
  registered,       \* the user is in the registry's maps
  reloads,          \* reloads begun
  active,           \* runtime.active
  used,             \* runtime.uplink and runtime.downlink
  tracked,          \* ConnectionManager.active
  pc, known, chunk  \* per session: where it is, whether its lookup found the
                    \* user, and the bytes each half has read and not recorded

vars == <<registered, reloads, active, used, tracked, pc, known, chunk>>

Halves == {"up", "down"}
Chunks == 0..MaxChunk   \* what one read may return; 0 is end of file
Quiet == [h \in Halves |-> 0]

TypeOK ==
  /\ registered \in BOOLEAN /\ reloads \in 0..MaxReloads
  /\ active \in Nat /\ used \in [Halves -> Nat]
  /\ tracked \subseteq Sessions
  /\ pc \in [Sessions -> {"lookup", "slots", "quota", "begin", "relay", "done"}]
  /\ known \in [Sessions -> BOOLEAN]
  /\ chunk \in [Sessions -> [Halves -> Chunks]]

Init ==
  /\ registered = TRUE /\ reloads = 0
  /\ active = 0 /\ used = Quiet /\ tracked = {}
  /\ pc = [s \in Sessions |-> "lookup"]
  /\ known = [s \in Sessions |-> FALSE]
  /\ chunk = [s \in Sessions |-> Quiet]
-----------------------------------------------------------------------------
(* Admission: user_relay::begin_for_*, then acquire_user *)

Total == used["up"] + used["down"]
WithinQuota(s) == known[s] => Total < MaxTraffic

Goto(s, next) == pc' = [pc EXCEPT ![s] = next]

\* A miss is not an error: the session gets UserLimits::default().
Lookup(s) ==
  /\ pc[s] = "lookup"
  /\ known' = [known EXCEPT ![s] = registered]
  /\ Goto(s, "slots")
  /\ UNCHANGED <<registered, reloads, active, used, tracked, chunk>>

CheckSlots(s) ==
  /\ pc[s] = "slots"
  /\ Goto(s, IF known[s] /\ active >= MaxConnections THEN "done" ELSE "quota")
  /\ UNCHANGED <<registered, reloads, active, used, tracked, known, chunk>>

CheckQuota(s) ==
  /\ pc[s] = "quota"
  /\ Goto(s, IF WithinQuota(s) THEN "begin" ELSE "done")
  /\ UNCHANGED <<registered, reloads, active, used, tracked, known, chunk>>

\* The slot is taken and the connection tracked.
Begin(s) ==
  /\ pc[s] = "begin"
  /\ active' = IF known[s] THEN active + 1 ELSE active
  /\ tracked' = tracked \cup {s}
  /\ Goto(s, "relay")
  /\ UNCHANGED <<registered, reloads, used, known, chunk>>
-----------------------------------------------------------------------------
(* The relay: relay_user_half in both directions *)

\* Mutant of Read: relays without asking for the quota.
ReadUnchecked(s, h) ==
  /\ pc[s] = "relay" /\ chunk[s][h] = 0
  /\ \E n \in Chunks : chunk' = [chunk EXCEPT ![s][h] = n]
  /\ UNCHANGED <<registered, reloads, active, used, tracked, pc, known>>

\* A half reads and finds the quota not used up; the write is pending.
Read(s, h) ==
  /\ pc[s] = "relay" /\ chunk[s][h] = 0
  /\ WithinQuota(s)
  /\ \E n \in Chunks \ {0} : chunk' = [chunk EXCEPT ![s][h] = n]
  /\ UNCHANGED <<registered, reloads, active, used, tracked, pc, known>>

\* The write completes and record_traffic counts it, after throttle and
\* write_all, so the quota it was checked against may be gone.
Record(s, h) ==
  /\ pc[s] = "relay" /\ chunk[s][h] > 0
  /\ used' = IF known[s] THEN [used EXCEPT ![h] = @ + chunk[s][h]] ELSE used
  /\ chunk' = [chunk EXCEPT ![s][h] = 0]
  /\ UNCHANGED <<registered, reloads, active, tracked, pc, known>>

\* Either half ends: end of file, an error, or the quota.  The other is
\* dropped, and the session gives back its slot and is untracked.
End(s) ==
  /\ pc[s] = "relay"
  /\ active' = IF known[s] THEN active - 1 ELSE active
  /\ tracked' = tracked \ {s}
  /\ chunk' = [chunk EXCEPT ![s] = Quiet]
  /\ Goto(s, "done")
  /\ UNCHANGED <<registered, reloads, used, known>>

Session(s) ==
  \/ Lookup(s) \/ CheckSlots(s) \/ CheckQuota(s) \/ Begin(s)
  \/ \E h \in Halves : Read(s, h) \/ Record(s, h)
  \/ End(s)
-----------------------------------------------------------------------------
(* Reload and statistics *)


\* reload_from_options clears the maps (the runtime counters stay) ...
ReloadClear ==
  /\ registered /\ reloads < MaxReloads
  /\ registered' = FALSE /\ reloads' = reloads + 1
  /\ UNCHANGED <<active, used, tracked, pc, known, chunk>>

\* ... and then registers the users of the new options again.
ReloadIngest ==
  /\ ~registered
  /\ registered' = TRUE
  /\ UNCHANGED <<reloads, active, used, tracked, pc, known, chunk>>

\* query_v2ray_stats with reset zeroes the counter the quota is read from.
ResetStat(h) ==
  /\ used' = [used EXCEPT ![h] = 0]
  /\ UNCHANGED <<registered, reloads, active, tracked, pc, known, chunk>>

Next ==
  \/ \E s \in Sessions : Session(s)
  \/ ReloadClear \/ ReloadIngest
  \/ \E h \in Halves : ResetStat(h)

Spec == Init /\ [][Next]_vars
-----------------------------------------------------------------------------
(* Properties *)

\* Slots are neither leaked nor given back twice, across refusals, drops and
\* reloads: runtime.active counts the user's running relays, and exactly the
\* running relays are tracked.
Relaying == {s \in Sessions : pc[s] = "relay" /\ known[s]}
SlotsBalanced ==
  /\ active = Cardinality(Relaying)
  /\ tracked = {s \in Sessions : pc[s] = "relay"}

\* The quota is checked before a chunk is written and counted after: it is
\* exceeded by at most one chunk of every half of every session, however the
\* checks, the writes and the counting of the sessions interleave.
\* (A byte that is read and not counted is the half it is of and its place.)
Places == (Sessions \X Halves) \X (1..MaxChunk)
Pending == {b \in Places : known[b[1][1]] /\ b[2] <= chunk[b[1][1]][b[1][2]]}
Carried == Total + Cardinality(Pending)
QuotaOverrunBounded ==
  Carried > 0 => Carried <= MaxTraffic - 1 + 2 * Cardinality(Sessions) * MaxChunk

\* What acquire_user's doc comment and test say of max_connections: "Check
\* quotas and increment active connection count".  Broken: the check and the
\* increment are two steps.
ConnectionLimitHolds == active <= MaxConnections

\* What UserRelaySession's doc comment says of a relay, "per-user traffic stats,
\* quota, connection limits": every relay of the user runs under the user's
\* limits.  Broken: reload empties the registry before it fills it again.
RelaysAreLimited == \A s \in Sessions : pc[s] = "relay" => known[s]

\* What makes the first two inductive: only a running relay has bytes it read.
OnlyRelaysRead == \A s \in Sessions : pc[s] # "relay" => chunk[s] = Quiet
IInv == TypeOK /\ SlotsBalanced /\ QuotaOverrunBounded /\ OnlyRelaysRead
=============================================================================
