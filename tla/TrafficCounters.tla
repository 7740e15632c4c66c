-------------------------- MODULE TrafficCounters ---------------------------
(***************************************************************************)
(* The traffic counters of rsb-core/connection_manager.rs: relays add to    *)
(* five counters one after the other (record_traffic), while the statistics *)
(* service reads them all and, when asked to, stores zero in those it read  *)
(* (query_v2ray_stats, reset_stat_name).  One direction of one user.        *)
(***************************************************************************)
EXTENDS Integers, Sequences, FiniteSets

CONSTANTS
  Relays,     \* tasks that record traffic
  MaxRecords, \* chunks recorded in all
  MaxQueries

\* The order in which record_traffic adds, and in which the entries are listed.
Counters == <<"global", "outbound", "inbound", "user", "runtime">>
Listed == <<"global", "inbound", "outbound", "user">>
Names == {Counters[i] : i \in 1..5}
Reported == {Listed[i] : i \in 1..4}

VARIABLES
  count,    \* counter -> value
  step,     \* relay -> how many counters it has added its chunk to, 0 when idle
  records,  \* chunks recorded so far, or being recorded
  added,    \* history: counter -> all that was ever added to it
  q,        \* the query: "idle", "read" or "reset"
  at,       \* position of the query in its list
  match,    \* counters the pattern matches
  resets,   \* whether the query resets
  queries,  \* queries so far
  seen,     \* counter -> value this query read
  billed,   \* history: counter -> sum of what resetting queries returned
  ever      \* history: whether a query ever reset

vars == <<count, step, records, added, q, at, match, resets, queries, seen, billed, ever>>
query == <<q, at, match, resets, queries, seen, billed, ever>>

Zero == [n \in Names |-> 0]

TypeOK ==
  /\ count \in [Names -> 0..MaxRecords] /\ added \in [Names -> 0..MaxRecords]
  /\ step \in [Relays -> 0..4] /\ records \in 0..MaxRecords
  /\ q \in {"idle", "read", "reset"} /\ at \in 1..5 /\ match \subseteq Reported
  /\ resets \in BOOLEAN /\ queries \in 0..MaxQueries
  /\ seen \in [Names -> 0..MaxRecords] /\ billed \in [Names -> Nat] /\ ever \in BOOLEAN

Init ==
  /\ count = Zero /\ step = [r \in Relays |-> 0] /\ records = 0 /\ added = Zero
  /\ q = "idle" /\ at = 1 /\ match = {} /\ resets = FALSE /\ queries = 0
  /\ seen = Zero /\ billed = Zero /\ ever = FALSE
-----------------------------------------------------------------------------
\* Mutant of Add: the outbound's counter is left out.
AddSkipping(r) ==
  LET n == Counters[step[r] + 1] IN
  /\ step[r] = 0 => records < MaxRecords
  /\ records' = IF step[r] = 0 THEN records + 1 ELSE records
  /\ count' = IF n = "outbound" THEN count ELSE [count EXCEPT ![n] = @ + 1]
  /\ added' = [added EXCEPT ![n] = @ + 1]
  /\ step' = [step EXCEPT ![r] = (@ + 1) % 5]
  /\ UNCHANGED query

\* record_traffic: one fetch_add after the other.
Add(r) ==
  LET n == Counters[step[r] + 1] IN
  /\ step[r] = 0 => records < MaxRecords
  /\ records' = IF step[r] = 0 THEN records + 1 ELSE records
  /\ count' = [count EXCEPT ![n] = @ + 1]
  /\ added' = [added EXCEPT ![n] = @ + 1]
  /\ step' = [step EXCEPT ![r] = (@ + 1) % 5]
  /\ UNCHANGED query

BeginQuery ==
  /\ q = "idle" /\ queries < MaxQueries /\ queries' = queries + 1
  /\ q' = "read" /\ at' = 1 /\ match' \in {Reported, {"user"}} /\ resets' \in BOOLEAN
  /\ seen' = Zero
  /\ UNCHANGED <<count, step, records, added, billed, ever>>

\* v2ray_stat_entries: the entries are snapshots, taken one by one.
ReadEntry ==
  /\ q = "read" /\ at <= 4
  /\ seen' = [seen EXCEPT ![Listed[at]] = count[Listed[at]]] /\ at' = at + 1
  /\ UNCHANGED <<count, step, records, added, q, match, resets, queries, billed, ever>>

EndRead ==
  /\ q = "read" /\ at = 5 /\ at' = 1 /\ q' = IF resets THEN "reset" ELSE "idle"
  /\ billed' = IF resets THEN [n \in Names |-> billed[n] + IF n \in match THEN seen[n] ELSE 0] ELSE billed
  /\ ever' = (ever \/ resets)
  /\ UNCHANGED <<count, step, records, added, match, resets, queries, seen>>


\* reset_stat_name; the user's entry also clears what the quota looks at.
ResetEntry ==
  /\ q = "reset" /\ at <= 4
  /\ count' = LET n == Listed[at] IN
       IF n \notin match THEN count
       ELSE IF n = "user" THEN [count EXCEPT !["user"] = 0, !["runtime"] = 0]
       ELSE [count EXCEPT ![n] = 0]
  /\ at' = at + 1
  /\ UNCHANGED <<step, records, added, q, match, resets, queries, seen, billed, ever>>

EndReset ==
  /\ q = "reset" /\ at = 5 /\ at' = 1 /\ q' = "idle"
  /\ UNCHANGED <<count, step, records, added, match, resets, queries, seen, billed, ever>>

Next ==
  \/ \E r \in Relays : Add(r)
  \/ BeginQuery \/ ReadEntry \/ EndRead \/ ResetEntry \/ EndReset
Spec == Init /\ [][Next]_vars
-----------------------------------------------------------------------------
\* Summing what the resetting queries returned never counts a byte twice:
\* traffic recorded between the read and the reset may be missing from the
\* sum, none is in it again.
NeverBilledTwice ==
  q = "idle" => \A n \in Reported : billed[n] + count[n] <= added[n]

\* Until a query resets, the counters of all relays at rest agree: what the
\* global counter shows is what inbounds, outbounds and users sum up to.
QuietCountersAgree ==
  (~ever /\ \A r \in Relays : step[r] = 0) => \A n \in Names : count[n] = count["global"]

\* What makes these inductive: a chunk is in one counter and not in the next only
\* while its relay stands between the two; before a reset a counter shows all
\* that was added; and what a resetting query has read of an entry it has not
\* cleared yet is billed and still in the counter.
Between(i) == {r \in Relays : step[r] = i}
AddedInOrder ==
  /\ records = added["global"]
  /\ \A i \in 1..4 : added[Counters[i]] = added[Counters[i + 1]] + Cardinality(Between(i))
ShowsWhatWasAdded ==
  /\ \A n \in Names : count[n] <= added[n]
  /\ ~ever => q # "reset" /\ \A n \in Names : count[n] = added[n]
ToReset == {n \in match : q = "reset" /\ \E i \in at..4 : Listed[i] = n}
BilledOnce ==
  \A n \in Reported :
    /\ (q = "read" \/ n \in ToReset) => seen[n] <= count[n]
    /\ billed[n] + count[n] <= added[n] + IF n \in ToReset THEN seen[n] ELSE 0
IInv == TypeOK /\ AddedInOrder /\ ShowsWhatWasAdded /\ BilledOnce
=============================================================================
