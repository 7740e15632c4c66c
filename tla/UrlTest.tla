------------------------------- MODULE UrlTest -------------------------------
(***************************************************************************)
(* The urltest group (rsb-protocol/src/group.rs, urltest.rs): TCP dials      *)
(* start the background prober when none is stored, every round of a prober *)
(* probes the members one after the other and stores the quickest as the    *)
(* selected one, the API runs rounds of its own, and close aborts the       *)
(* stored prober.  Dials run on different threads: the test of the handle   *)
(* and the store of a new one are two steps.                                *)
(***************************************************************************)
EXTENDS Integers, Sequences, FiniteSetsExt

CONSTANTS
  Dials,     \* concurrent TCP dials
  Tasks,     \* background probers that may be spawned
  Api,       \* concurrent run_url_test requests
  Rounds,    \* the sets of dials and requests that are made; the others are not
  N,         \* members of the group
  MaxDelay   \* largest latency of a probe

None == 0    \* no task in the handle, no latency for a member

Members == 1..N
Probers == Tasks \cup Api

VARIABLES
  handle,    \* the stored task
  run,       \* per prober: "off", "probing", "sleep", "held" or "aborted"
  delays,    \* per prober: the latencies its round has so far, None a failure
  selected,  \* the member dials go to
  pc,        \* per dial
  raced      \* history: a dial stored a prober over another one

vars == <<handle, run, delays, selected, pc, raced>>

TypeOK ==
  /\ handle \in Tasks \cup {None}
  /\ run \in [Probers -> {"off", "probing", "sleep", "held", "aborted"}]
  /\ \A p \in Probers : Len(delays[p]) <= N /\ delays[p] \in Seq(0..MaxDelay)
  /\ selected \in Members /\ raced \in BOOLEAN
  /\ pc \in [Dials -> {"idle", "start", "select", "never"}]

Init ==
  /\ handle = None /\ selected = 1 /\ raced = FALSE
  /\ delays = [p \in Probers |-> <<>>]
  /\ \E R \in Rounds :
       /\ run = [p \in Probers |-> IF p \in Tasks \cup R THEN "off" ELSE "aborted"]
       /\ pc = [d \in Dials |-> IF d \in R THEN "idle" ELSE "never"]
-----------------------------------------------------------------------------
\* dial_tcp: the lock is released before the branch is taken.
CheckHandle(d) ==
  /\ pc[d] = "idle"
  /\ pc' = [pc EXCEPT ![d] = IF handle = None THEN "start" ELSE "select"]
  /\ UNCHANGED <<handle, run, delays, selected, raced>>

\* start_probe: a stored task that is replaced keeps running, detached.
StartProbe(d) ==
  /\ pc[d] = "start"
  /\ \E t \in Tasks :
       /\ run[t] = "off"
       /\ run' = [run EXCEPT ![t] = "probing"] /\ handle' = t
  /\ raced' = (raced \/ handle # None)
  /\ pc' = [pc EXCEPT ![d] = "select"]
  /\ UNCHANGED <<delays, selected>>

\* selected_tag, then the member is dialled.
DialSelected(d) ==
  /\ pc[d] = "select"
  /\ pc' = [pc EXCEPT ![d] = "idle"]
  /\ UNCHANGED <<handle, run, delays, selected, raced>>

\* Mutant of Probe: a failed probe begins the round again.
ProbeRetries(p) ==
  /\ run[p] = "probing" /\ Len(delays[p]) < N
  /\ \E ms \in 0..MaxDelay :
       delays' = [delays EXCEPT ![p] = IF ms = None THEN <<>> ELSE Append(@, ms)]
  /\ UNCHANGED <<handle, run, selected, pc, raced>>

\* probe_latency of the next member: resolved, dialled, answered with a good
\* status, or failed on the way.
Probe(p) ==
  /\ run[p] = "probing" /\ Len(delays[p]) < N
  /\ \E ms \in 0..MaxDelay : delays' = [delays EXCEPT ![p] = Append(@, ms)]
  /\ UNCHANGED <<handle, run, selected, pc, raced>>

\* The read of the answer has no time limit: a member that accepts the probe
\* and says nothing holds the round for good.
NoAnswer(p) ==
  /\ run[p] = "probing" /\ Len(delays[p]) < N
  /\ run' = [run EXCEPT ![p] = "held"]
  /\ UNCHANGED <<handle, delays, selected, pc, raced>>

\* The loop of run_probe: a member replaces the best one when it is quicker.
Best(ds) ==
  LET step[i \in 0..Len(ds)] ==
        IF i = 0 THEN [ms |-> MaxDelay + 1, idx |-> 1]
        ELSE IF ds[i] # None /\ ds[i] < step[i - 1].ms THEN [ms |-> ds[i], idx |-> i]
        ELSE step[i - 1]
  IN step[Len(ds)].idx

\* Mutant of EndRound: a round nobody answered selects the first member.
EndRoundAlwaysStores(p) ==
  /\ run[p] = "probing" /\ Len(delays[p]) = N
  /\ selected' = Best(delays[p])
  /\ run' = [run EXCEPT ![p] = IF p \in Tasks THEN "sleep" ELSE "off"]
  /\ delays' = [delays EXCEPT ![p] = <<>>]
  /\ UNCHANGED <<handle, pc, raced>>

EndRound(p) ==
  /\ run[p] = "probing" /\ Len(delays[p]) = N
  /\ selected' = IF \E i \in Members : delays[p][i] # None THEN Best(delays[p]) ELSE selected
  /\ run' = [run EXCEPT ![p] = IF p \in Tasks THEN "sleep" ELSE "off"]
  /\ delays' = [delays EXCEPT ![p] = <<>>]
  /\ UNCHANGED <<handle, pc, raced>>

\* The interval has passed, or the API asks for a round.
BeginRound(p) ==
  /\ run[p] = (IF p \in Tasks THEN "sleep" ELSE "off")
  /\ run' = [run EXCEPT ![p] = "probing"]
  /\ UNCHANGED <<handle, delays, selected, pc, raced>>

\* Mutant of Close: the task is taken out of the handle and runs on.
CloseDetaches ==
  /\ handle # None
  /\ handle' = None
  /\ UNCHANGED <<run, delays, selected, pc, raced>>

Close ==
  /\ handle # None
  /\ run' = [run EXCEPT ![handle] = "aborted"]
  /\ delays' = [delays EXCEPT ![handle] = <<>>]
  /\ handle' = None
  /\ UNCHANGED <<selected, pc, raced>>

Round(p) == Probe(p) \/ NoAnswer(p) \/ EndRound(p) \/ BeginRound(p)
Dial(d) == CheckHandle(d) \/ StartProbe(d) \/ DialSelected(d)
Next == (\E d \in Dials : Dial(d)) \/ (\E p \in Probers : Round(p)) \/ Close

\* A prober is a spawned task: the scheduler keeps running it.
Fairness == \A p \in Tasks : WF_vars(Round(p))
Spec == Init /\ [][Next]_vars /\ Fairness
-----------------------------------------------------------------------------
Running == {t \in Tasks : run[t] \in {"probing", "sleep", "held"}}

\* Unless two first dials raced, every background prober that runs is the
\* one the handle holds: close ends it, and no second one stores results.
ProberIsHandled == raced \/ Running = IF handle = None THEN {} ELSE {handle}

\* A finished round selects the first of the quickest members that answered
\* it, and leaves the selection alone when none did.
RoundSelects ==
  \A p \in Probers :
    (run[p] = "probing" /\ Len(delays[p]) = N /\ delays'[p] = <<>> /\ run'[p] # "aborted")
    => LET up == {i \in Members : delays[p][i] # None}
           quickest == {i \in up : \A j \in up : delays[p][i] <= delays[p][j]}
       IN selected' = IF up = {} THEN selected ELSE Min(quickest)
SelectsQuickest == [][RoundSelects]_vars

\* A background round ends, or its prober is aborted, or a member that never
\* answers holds it: failures of members never stop the probing.
Probing(t) == run[t] = "probing"
RoundsEnd == \A t \in Tasks : Probing(t) ~> ~Probing(t)
-----------------------------------------------------------------------------
(* Inductive invariant *)

\* The handle holds a task or none, and probers are in one of their states.
IInv ==
  /\ handle \in Tasks \cup {None}
  /\ run \in [Probers -> {"off", "probing", "sleep", "held", "aborted"}]
  /\ raced \in BOOLEAN /\ ProberIsHandled
=============================================================================
