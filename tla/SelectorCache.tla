--------------------------- MODULE SelectorCache ---------------------------
(***************************************************************************)
(* A selector's choice and its persistence: SelectorControl and             *)
(* OutboundController (group.rs), the clash API's select_proxy and          *)
(* CacheFileService (rsb-api/src/lib.rs).  A request stores the choice,     *)
(* notes it in the cache and writes the cache file, each under a lock of    *)
(* its own or none; a start of the program loads the file and restores the  *)
(* choices.                                                                 *)
(***************************************************************************)
EXTENDS Integers

CONSTANTS
  Groups, Members,  \* selectors, and their outbounds; the first is Default
  Default,
  Requests,         \* requests to PUT /proxies/{name}
  MaxStarts,        \* bound on starts of the program
  None

Choices == [Groups -> Members]
NoChoices == [g \in Groups |-> None]

VARIABLES
  up,        \* "down", "up", "flush", "stopped", or
             \* "late": stopped with requests in progress or a failed flush
  selected,  \* outbound in use of each group
  cache,     \* CacheState
  file,      \* what the cache file holds, or that it is torn
  pc,        \* of each request: "idle", "set", "snapshot", "open", "write", "done"
  req,       \* its group and choice
  snap,      \* the cache it is to write
  overlapped,\* two requests have been in progress at once since the start
  starts
vars == <<up, selected, cache, file, pc, req, snap, overlapped, starts>>
program == <<up, starts>>

InProgress(r) == pc[r] \notin {"idle", "done"}
Quiet == \A r \in Requests : ~InProgress(r)

TypeOK ==
  /\ up \in {"down", "up", "flush", "stopped", "late"} /\ starts \in 0..MaxStarts
  /\ selected \in Choices /\ overlapped \in BOOLEAN
  /\ cache \in [Groups -> Members \cup {None}]
  /\ file.torn \in BOOLEAN /\ file.selectors \in [Groups -> Members \cup {None}]
  /\ pc \in [Requests -> {"idle", "set", "snapshot", "open", "write", "done"}]
  /\ req \in [Requests -> [group : Groups, choice : Members]]
  /\ snap \in [Requests -> [Groups -> Members \cup {None}]]

Init ==
  /\ up = "down" /\ starts = 0 /\ overlapped = FALSE
  /\ selected = [g \in Groups |-> Default] /\ cache = NoChoices
  /\ file = [torn |-> FALSE, selectors |-> NoChoices]
  /\ pc = [r \in Requests |-> "idle"] /\ snap = [r \in Requests |-> NoChoices]
  /\ req \in [Requests -> [group : Groups, choice : Members]]

Goto(r, l) == pc' = [pc EXCEPT ![r] = l]
-----------------------------------------------------------------------------
\* CacheFileService::start and restore_selectors: a file that does not parse is
\* passed over.
Start ==
  /\ up = "down" /\ starts < MaxStarts /\ starts' = starts + 1 /\ up' = "up"
  /\ cache' = IF file.torn THEN NoChoices ELSE file.selectors
  /\ selected' = [g \in Groups |-> IF cache'[g] # None THEN cache'[g] ELSE Default]
  /\ pc' = [r \in Requests |-> "idle"] /\ overlapped' = FALSE
  /\ UNCHANGED <<file, req, snap>>

\* controller.select: the index is stored.
Select(r) ==
  /\ up = "up" /\ pc[r] = "idle"
  /\ selected' = [selected EXCEPT ![req[r].group] = req[r].choice]
  /\ overlapped' = (overlapped \/ ~Quiet)
  /\ Goto(r, "set") /\ UNCHANGED <<program, cache, file, req, snap>>

\* cache.set_selector
SetSelector(r) ==
  /\ up # "down" /\ pc[r] = "set"
  /\ cache' = [cache EXCEPT ![req[r].group] = req[r].choice]
  /\ Goto(r, "snapshot") /\ UNCHANGED <<program, selected, file, req, snap, overlapped>>

\* Mutant of Snapshot: of the cache file, the request's own group is written.
SnapshotOwn(r) ==
  /\ up # "down" /\ pc[r] = "snapshot"
  /\ snap' = [snap EXCEPT ![r] = [NoChoices EXCEPT ![req[r].group] = cache[req[r].group]]]
  /\ Goto(r, "open") /\ UNCHANGED <<program, selected, cache, file, req, overlapped>>

\* cache.flush takes a copy of the cache under its lock,
Snapshot(r) ==
  /\ up # "down" /\ pc[r] = "snapshot"
  /\ snap' = [snap EXCEPT ![r] = cache]
  /\ Goto(r, "open") /\ UNCHANGED <<program, selected, cache, file, req, overlapped>>

\* and tokio::fs::write first empties the file
Open(r) ==
  /\ up # "down" /\ pc[r] = "open"
  /\ file' = [torn |-> TRUE, selectors |-> NoChoices]
  /\ Goto(r, "write") /\ UNCHANGED <<program, selected, cache, req, snap, overlapped>>

\* and then writes it; a write may fail.
Write(r) ==
  /\ up # "down" /\ pc[r] = "write"
  /\ \/ file' = [torn |-> FALSE, selectors |-> snap[r]]
     \/ file' = [torn |-> TRUE, selectors |-> NoChoices]
  /\ Goto(r, "done") /\ UNCHANGED <<program, selected, cache, req, snap, overlapped>>

\* Ctrl+C: no request is taken any more; those in progress go on.
Stop ==
  /\ up = "up" /\ up' = "flush"
  /\ UNCHANGED <<starts, selected, cache, file, pc, req, snap, overlapped>>

\* Mutant of Flush: the final flush is left out.
FlushNot ==
  /\ up = "flush" /\ up' = IF Quiet THEN "stopped" ELSE "late"
  /\ UNCHANGED <<starts, selected, cache, file, pc, req, snap, overlapped>>

\* The flush on the way out, taken as one step: nothing of the program's own
\* runs beside it but requests in progress.  Its error is ignored.
Flush ==
  /\ up = "flush"
  /\ \/ /\ file' = [torn |-> FALSE, selectors |-> cache]
        /\ up' = IF Quiet THEN "stopped" ELSE "late"
     \/ file' = [torn |-> TRUE, selectors |-> NoChoices] /\ up' = "late"
  /\ UNCHANGED <<starts, selected, cache, pc, req, snap, overlapped>>

\* The process is gone, from wherever it was.
Exit ==
  /\ up # "down" /\ up' = "down"
  /\ pc' = [r \in Requests |-> "done"]
  /\ UNCHANGED <<starts, selected, cache, file, req, snap, overlapped>>

Next ==
  \/ Start \/ Stop \/ Flush \/ Exit
  \/ \E r \in Requests : Select(r) \/ SetSelector(r) \/ Snapshot(r) \/ Open(r) \/ Write(r)
Spec == Init /\ [][Next]_vars
-----------------------------------------------------------------------------
\* A choice made while no other request was in progress is the one in the
\* cache and, once its file is written, in the file: it survives a crash.
AloneIsSaved ==
  up = "up" /\ Quiet /\ ~overlapped =>
    /\ \A g \in Groups : cache[g] # None => cache[g] = selected[g]
    /\ ~file.torn => file.selectors = cache

\* An orderly stop leaves every choice the cache knows in the file, whatever
\* writes of requests came in which order, if none is still in progress and
\* the last flush succeeds.
StopSaves == up = "stopped" => ~file.torn /\ file.selectors = cache

\* Inductive form of the two invariants, while the program is up and no two
\* requests have overlapped: what a request has done to the cache and the
\* file at each of its steps.
CacheServed(G) == \A g \in G : cache[g] # None => cache[g] = selected[g]
FileKnown == ~file.torn => file.selectors = cache
Alone(r) ==
  /\ \A q \in Requests : InProgress(q) => q = r
  /\ pc[r] = "set" =>
       /\ CacheServed(Groups \ {req[r].group}) /\ FileKnown
       /\ selected[req[r].group] = req[r].choice
  /\ pc[r] # "set" => CacheServed(Groups)
  /\ pc[r] \in {"open", "write"} => snap[r] = cache
  /\ pc[r] = "write" => file.torn
IInv ==
  /\ up \in {"down", "up", "flush", "stopped", "late"} /\ overlapped \in BOOLEAN
  /\ DOMAIN selected = Groups /\ cache \in [Groups -> Members \cup {None}]
  /\ file \in [torn : BOOLEAN, selectors : [Groups -> Members \cup {None}]]
  /\ pc \in [Requests -> {"idle", "set", "snapshot", "open", "write", "done"}]
  /\ req \in [Requests -> [group : Groups, choice : Members]]
  /\ snap \in [Requests -> [Groups -> Members \cup {None}]]
  /\ up = "stopped" => Quiet
  /\ up = "up" /\ ~overlapped => \A r \in Requests : InProgress(r) => Alone(r)
  /\ AloneIsSaved /\ StopSaves
=============================================================================
