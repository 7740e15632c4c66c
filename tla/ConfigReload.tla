---------------------------- MODULE ConfigReload ----------------------------
(***************************************************************************)
(* Hot reload (rsb-protocol/src/reload.rs) of a running RsBox (engine.rs).  *)
(* A reload replaces the users of the UserRegistry before it takes the lock *)
(* of the InboundManager, and stores the options under that lock once the   *)
(* new inbounds listen.  Reloads are requests of the management API, each   *)
(* on its own task, so they interleave; the request's task is dropped at an *)
(* await when its client disconnects.                                       *)
(*                                                                         *)
(* A configuration is a model value.  The registry's maps are the set of    *)
(* configurations whose users they hold.                                    *)
(***************************************************************************)
EXTENDS Naturals

CONSTANTS
  Reloads,  \* reload requests
  Configs,  \* configurations
  None      \* no reload and no configuration

VARIABLES
  users,     \* configurations with users in the registry
  options,   \* the stored options
  managed,   \* configuration the InboundManager was built from
  listening, \* how many of its inbounds listen
  local,     \* whether the DnsRouter registered as "local" has its outbounds
  lock,      \* holder of the InboundManager's mutex
  pc, conf,  \* per reload: progress, and the configuration it applies
  overlap    \* history: some reload began while another was running

vars == <<users, options, managed, listening, local, lock, pc, conf, overlap>>
inbounds == <<managed, listening>>

Amounts == {"none", "some", "all"}
Ended == {"done", "failed"}

TypeOK ==
  /\ users \subseteq Configs /\ options \in Configs /\ managed \in Configs
  /\ listening \in Amounts /\ local \in {"wired", "bare"}
  /\ lock \in Reloads \cup {None}
  /\ pc \in [Reloads -> {"idle", "ingest", "users", "context", "lock", "close", "build",
                         "start", "store"} \cup Ended]
  /\ conf \in [Reloads -> Configs \cup {None}]
  /\ overlap \in BOOLEAN
  /\ \A r \in Reloads : (pc[r] \in {"close", "build", "start", "store"}) <=> lock = r

\* RsBox::new and start have run.
Init ==
  /\ options \in Configs /\ managed = options /\ users = {options}
  /\ listening = "all" /\ local = "wired" /\ lock = None
  /\ pc = [r \in Reloads |-> "idle"] /\ conf = [r \in Reloads |-> None]
  /\ overlap = FALSE
-----------------------------------------------------------------------------
Goto(r, l) == pc' = [pc EXCEPT ![r] = l]

Busy(r) == pc[r] \notin {"idle"} \cup Ended
Running == {r \in Reloads : Busy(r)}

Begin(r) ==
  /\ pc[r] = "idle"
  /\ overlap' = (overlap \/ Running # {})
  /\ UNCHANGED <<options, inbounds, local, lock>>

\* Mutant of ClearUsers: the users of the old configuration stay.
ClearUsersKept(r) ==
  /\ Begin(r)
  /\ \E c \in Configs : conf' = [conf EXCEPT ![r] = c]
  /\ Goto(r, "ingest") /\ UNCHANGED users

\* reload: the registry's maps are cleared,
ClearUsers(r) ==
  /\ Begin(r)
  /\ \E c \in Configs : conf' = [conf EXCEPT ![r] = c]
  /\ users' = {} /\ Goto(r, "ingest")

\* reload_users without a body: the same for the stored options, whose read
\* lock it keeps until the users are in.
ClearStoredUsers(r) ==
  /\ Begin(r)
  /\ conf' = [conf EXCEPT ![r] = options]
  /\ users' = {} /\ Goto(r, "users")

\* then the users of the configuration are entered.
IngestUsers(r) ==
  /\ pc[r] \in {"ingest", "users"}
  /\ users' = users \cup {conf[r]}
  /\ Goto(r, IF pc[r] = "ingest" THEN "context" ELSE "done")
  /\ UNCHANGED <<options, inbounds, local, lock, conf, overlap>>

\* BuildContext::from_options registers a DnsRouter of its own as "local",
\* then asks for the default outbound, which may be missing.
FromOptions(r) ==
  /\ pc[r] = "context"
  /\ local' = "bare"
  /\ \E l \in {"lock", "failed"} : Goto(r, l)
  /\ UNCHANGED <<users, options, inbounds, lock, conf, overlap>>

Lock(r) ==
  /\ pc[r] = "lock" /\ lock = None
  /\ lock' = r /\ Goto(r, "close")
  /\ UNCHANGED <<users, options, inbounds, local, conf, overlap>>

CloseAll(r) ==
  /\ pc[r] = "close"
  /\ listening' = "none" /\ Goto(r, "build")
  /\ UNCHANGED <<users, options, managed, local, lock, conf, overlap>>

\* Mutant of BuildInbounds: the error path keeps the lock.
BuildInboundsLeak(r) ==
  /\ pc[r] = "build"
  /\ \/ managed' = conf[r] /\ Goto(r, "start")
     \/ Goto(r, "failed") /\ UNCHANGED managed
  /\ UNCHANGED <<users, options, listening, local, lock, conf, overlap>>

\* An inbound that cannot be built fails the reload; the closed ones stay.
BuildInbounds(r) ==
  /\ pc[r] = "build"
  /\ \/ managed' = conf[r] /\ Goto(r, "start") /\ UNCHANGED lock
     \/ Goto(r, "failed") /\ lock' = None /\ UNCHANGED managed
  /\ UNCHANGED <<users, options, listening, local, conf, overlap>>


\* start_all stops at the first inbound that does not start.
StartAll(r) ==
  /\ pc[r] = "start"
  /\ \/ listening' = "all" /\ Goto(r, "store") /\ UNCHANGED lock
     \/ listening' \in {"none", "some"} /\ Goto(r, "failed") /\ lock' = None
  /\ UNCHANGED <<users, options, managed, local, conf, overlap>>

\* The write lock waits for the readers of reload_users.
StoreOptions(r) ==
  /\ pc[r] = "store" /\ \A q \in Reloads : pc[q] # "users"
  /\ options' = conf[r] /\ lock' = None /\ Goto(r, "done")
  /\ UNCHANGED <<users, inbounds, local, conf, overlap>>

\* The API client disconnects while the handler awaits the lock, close_all or
\* start_all; the guard goes with it, and what was closed or started stays so.
Cancel(r) ==
  /\ pc[r] \in {"lock", "close", "start"}
  /\ \/ pc[r] = "lock" /\ UNCHANGED <<listening, lock>>
     \/ pc[r] = "close" /\ lock' = None
        /\ listening' \in {listening, "none"} \cup (IF listening = "all" THEN {"some"} ELSE {})
     \/ pc[r] = "start" /\ lock' = None /\ listening' \in {"none", "some"}
  /\ Goto(r, "failed")
  /\ UNCHANGED <<users, options, managed, local, conf, overlap>>

Step(r) ==
  \/ IngestUsers(r) \/ FromOptions(r) \/ Lock(r) \/ CloseAll(r)
  \/ BuildInbounds(r) \/ StartAll(r) \/ StoreOptions(r)

Next == \E r \in Reloads : ClearUsers(r) \/ ClearStoredUsers(r) \/ Step(r) \/ Cancel(r)

\* The runtime runs every ready task, and the mutex is handed over in order.
Fairness == \A r \in Reloads : WF_vars(Step(r))

Spec == Init /\ [][Next]_vars /\ Fairness
-----------------------------------------------------------------------------
(* Properties *)

\* Between reloads, inbounds that all listen are those of the stored options:
\* a reload that fails or is dropped on its way leaves neither the old options
\* beside the new listeners nor the reverse (reload.rs, the order under the lock).
ServedMatchesStored == lock = None /\ listening = "all" => managed = options

\* Reloads that neither overlap nor fail leave registry, inbounds and stored
\* options on one configuration.
SoloReloadApplies ==
  ~overlap /\ (\A r \in Reloads : pc[r] \in {"idle", "done"})
    => users = {options} /\ managed = options /\ listening = "all"

\* Inductive form of the two invariants: what the holder of the lock has done
\* to the inbounds, and how far a reload that overlaps with none has come.
HolderAt(r) ==
  /\ pc[r] = "close" => (listening = "all" => managed = options)
  /\ pc[r] \in {"build", "start"} => listening = "none"
  /\ pc[r] \in {"start", "store"} => managed = conf[r]
  /\ pc[r] = "store" => listening = "all"
SoloAt(r) ==
  /\ pc[r] \in {"ingest", "users"} => users = {}
  /\ pc[r] = "users" => conf[r] = options
  /\ pc[r] \notin {"ingest", "users"} => users = {conf[r]}
  /\ pc[r] \in {"ingest", "users", "context", "lock", "close"} => managed = options /\ listening = "all"
IInv ==
  /\ TypeOK
  /\ \A r \in Reloads : Busy(r) => conf[r] \in Configs /\ HolderAt(r)
  /\ ~overlap => \A r, q \in Reloads : Busy(r) /\ Busy(q) => r = q
  /\ ~overlap /\ (\A r \in Reloads : pc[r] # "failed") => \A r \in Reloads : Busy(r) => SoloAt(r)
  /\ ServedMatchesStored /\ SoloReloadApplies

\* Every reload comes to an end: none is left waiting for a lock that an error
\* path of another kept.
Begun(r) == pc[r] = "ingest"
Over(r) == pc[r] \in Ended
ReloadsEnd == \A r \in Reloads : Begun(r) ~> Over(r)

\* What reload's comment promises: "Apply a new config: refresh users, restart
\* inbounds, update stored options."  Broken by two overlapping reloads that
\* both succeed: the users of one stay with the options of the other.
AppliedWhole ==
  (\A r \in Reloads : pc[r] = "done") => users = {options}

\* What RsBox::new sees to: "DNS servers with `detour` (e.g. 8.8.8.8 via RSQ)
\* need outbounds after build."  Broken: a reload registers a router without.
LocalRouterIsWired == local = "wired"
=============================================================================
