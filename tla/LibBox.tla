------------------------------- MODULE LibBox -------------------------------
(***************************************************************************)
(* The embedding interface (rsb-libbox/src/lib.rs) and what it starts and   *)
(* stops: the helpers around the engine, the engine's own parts in order    *)
(* (RsBox::new, start, close in engine.rs), and the process-wide registry   *)
(* of DNS routers (rsb-dns/src/resolved_registry.rs), which outlives them.  *)
(* A start that fails drops the runtime, and with it all tasks and sockets; *)
(* the engine's close is not called then.                                   *)
(***************************************************************************)
EXTENDS Integers, Sequences

CONSTANTS
  MaxStarts,   \* bound on calls of rsbox_start
  MaxReloads   \* bound on reloads of the configuration

\* Names in the registry: the engine's own, and that of a resolved service.
Names == {"local", "service"}

\* The parts in the order they are started, and the one after each.
Stages == <<"cache", "quic", "new", "clash", "v2ray", "services", "endpoints", "inbounds">>
StageNames == {Stages[i] : i \in DOMAIN Stages}

\* A router: of which start, and made by whom; and none.
Routers == [start : 1..MaxStarts, by : {"engine", "reload"}]
None == [start |-> 0, by |-> "nobody"]

VARIABLES
  stage,      \* 0, or the place in Stages of a start under way
  running,    \* STATE holds an instance
  held,       \* parts that hold a socket, a task or firewall rules
  registry,   \* router under each name
  resolved,   \* the configuration has a resolved service
  instance,   \* number of the latest start
  failed,     \* starts that failed
  reloads
vars == <<stage, running, held, registry, resolved, instance, failed, reloads>>

TypeOK ==
  /\ stage \in 0..Len(Stages) /\ running \in BOOLEAN /\ held \subseteq StageNames
  /\ registry \in [Names -> Routers \cup {None}] /\ resolved \in BOOLEAN
  /\ instance \in 0..MaxStarts /\ failed \subseteq 1..MaxStarts /\ reloads \in 0..MaxReloads

Init ==
  /\ stage = 0 /\ running = FALSE /\ held = {} /\ registry = [n \in Names |-> None]
  /\ resolved = FALSE /\ instance = 0 /\ failed = {} /\ reloads = 0

Router == [start |-> instance, by |-> "engine"]
-----------------------------------------------------------------------------
\* rsbox_start takes the lock of STATE and refuses a second instance.
StartCall ==
  /\ stage = 0 /\ ~running /\ instance < MaxStarts
  /\ instance' = instance + 1 /\ stage' = 1 /\ resolved' \in BOOLEAN
  /\ UNCHANGED <<running, held, registry, failed, reloads>>

\* Mutant of Registered: RsBox::new leaves the registry alone.
RegisteredServicesOnly ==
  IF Stages[stage] = "services" /\ resolved THEN [registry EXCEPT !["service"] = Router] ELSE registry

\* What the part in turn has done when it fails or is done: RsBox::new has
\* registered its router first of all, and a resolved service before it binds.
Registered ==
  CASE Stages[stage] = "new" -> [registry EXCEPT !["local"] = Router]
    [] Stages[stage] = "services" /\ resolved -> [registry EXCEPT !["service"] = Router]
    [] OTHER -> registry

\* A part is started.  RsBox::new binds nothing and holds nothing.
StartPart ==
  /\ stage > 0 /\ registry' = Registered
  /\ held' = held \cup ({Stages[stage]} \ {"cache", "new"})
  /\ stage' = IF stage = Len(Stages) THEN 0 ELSE stage + 1
  /\ running' = (stage = Len(Stages))
  /\ UNCHANGED <<resolved, instance, failed, reloads>>

\* A part that is not configured.
SkipPart ==
  /\ stage > 0 /\ Stages[stage] \notin {"new", "inbounds"}
  /\ Stages[stage] = "services" => ~resolved
  /\ stage' = stage + 1
  /\ UNCHANGED <<running, held, registry, resolved, instance, failed, reloads>>

\* Mutant of FailPart: the firewall rules stay when a later part fails.
FailPartKeepsQuic ==
  /\ stage > 0 /\ Stages[stage] # "quic" /\ registry' \in {registry, Registered}
  /\ held' = held \cap {"quic"} /\ stage' = 0 /\ failed' = failed \cup {instance}
  /\ UNCHANGED <<running, resolved, instance, reloads>>

\* A part fails (try_install of the QUIC block cannot): what was started goes
\* with the runtime, the firewall rules with their guard.
FailPart ==
  /\ stage > 0 /\ Stages[stage] # "quic" /\ registry' \in {registry, Registered}
  /\ held' = {} /\ stage' = 0 /\ failed' = failed \cup {instance}
  /\ UNCHANGED <<running, resolved, instance, reloads>>

\* ConfigReload::reload makes a router that is registered and then not used.
Reload ==
  /\ running /\ stage = 0 /\ reloads < MaxReloads /\ reloads' = reloads + 1
  /\ registry' = [registry EXCEPT !["local"] = [start |-> instance, by |-> "reload"]]
  /\ UNCHANGED <<stage, running, held, resolved, instance, failed>>

\* Mutant of StopCall: the services are not closed.
StopCallNoServices ==
  /\ stage = 0 /\ running /\ running' = FALSE /\ held' = {}
  /\ registry' = [registry EXCEPT !["local"] = None]
  /\ UNCHANGED <<stage, resolved, instance, failed, reloads>>

\* rsbox_stop: RsBox::close unregisters both names, then the helpers are
\* stopped and everything is dropped.
StopCall ==
  /\ stage = 0 /\ running /\ running' = FALSE /\ held' = {}
  /\ registry' = [n \in Names |-> IF n = "service" /\ ~resolved THEN registry[n] ELSE None]
  /\ UNCHANGED <<stage, resolved, instance, failed, reloads>>

Next == StartCall \/ StartPart \/ SkipPart \/ FailPart \/ Reload \/ StopCall
Spec == Init /\ [][Next]_vars
-----------------------------------------------------------------------------
\* Between a stop, or a start that failed, and the next start nothing listens,
\* runs or filters.
NothingLeftBehind == stage = 0 /\ ~running => held = {}

\* A router in the registry belongs to the instance that runs or is being
\* started, or to a start that failed.
RegistryIsCurrent ==
  \A n \in Names : registry[n] # None =>
    \/ registry[n].start = instance /\ (running \/ stage > 0)
    \/ registry[n].start \in failed

\* Until the first reload, what runs under the engine's name is the router
\* that was given the outbounds.
LocalHasOutbounds ==
  running /\ reloads = 0 => registry["local"] = Router

\* Inductive form of the invariants: one start or one instance at a time, which
\* has its router once RsBox::new is done; the one of a service that is not
\* configured is left from a start that failed.
Ended(n) == registry[n] # None => registry[n].start \in failed
IInv ==
  /\ stage \in 0..Len(Stages) /\ running \in BOOLEAN /\ resolved \in BOOLEAN
  /\ instance \in Nat /\ reloads \in Nat /\ DOMAIN registry = Names
  /\ running => stage = 0
  /\ stage > 3 => registry["local"] = Router
  /\ ~resolved => Ended("service")
  /\ NothingLeftBehind /\ RegistryIsCurrent /\ LocalHasOutbounds
=============================================================================
