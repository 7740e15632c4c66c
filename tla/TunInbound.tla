----------------------------- MODULE TunInbound -----------------------------
(***************************************************************************)
(* The TUN inbound (rsb-protocol/src/tun_mode.rs): the device, the routes   *)
(* installed on it through the kernel's routing socket                      *)
(* (rsb-core/src/platform), and the UDP flows of its IP stack.  Every       *)
(* generation of the inbound is one build of it by the configuration reload *)
(* (reload.rs): the reload closes the old one, then starts the new one      *)
(* under the same interface name, and is dropped at an await when the       *)
(* request that asked for it goes away.                                     *)
(*                                                                         *)
(* The kernel drops the routes of an interface with the interface.          *)
(***************************************************************************)
EXTENDS Integers, FiniteSets

CONSTANTS
  MaxGen,    \* bound on generations
  Attempts,  \* tries per route (10 in the code)
  Targets    \* number of route targets: 2 strict, 1 otherwise

VARIABLES
  gen, pc,    \* the latest generation, and where its start or close is
  tries,      \* failed attempts at the route in turn
  installed,  \* routes install_tun_routes has added so far
  recorded,   \* per generation: self.routes
  task,       \* per generation: its accept task, which holds the device
  dev,        \* generation whose device has the interface name, or 0
  table,      \* routes in the kernel on that interface
  flow, up, app, remote  \* a UDP flow of the current stack
host == <<gen, pc, tries, installed, recorded, task, dev, table>>
udp == <<flow, up, app, remote>>
vars == <<host, udp>>

Gens == 1..MaxGen

TypeOK ==
  /\ gen \in 0..MaxGen
  /\ pc \in {"idle", "create", "route", "sleep", "record", "stack", "serving", "failed", "closing"}
  /\ tries \in 0..Attempts /\ installed \subseteq 1..Targets
  /\ recorded \in [Gens -> SUBSET (1..Targets)]
  /\ task \in [Gens -> {"none", "running", "aborted", "gone"}]
  /\ dev \in 0..MaxGen /\ table \subseteq 1..Targets
  /\ flow \in {"none", "first", "resolve", "dial", "send", "relay", "end"}
  /\ up \in {"none", "running", "ended"} /\ app \in {"open", "closed"}
  /\ remote \in {"none", "open", "failed"}

Init ==
  /\ gen = 0 /\ pc = "idle" /\ tries = 0 /\ installed = {}
  /\ recorded = [g \in Gens |-> {}] /\ task = [g \in Gens |-> "none"]
  /\ dev = 0 /\ table = {}
  /\ flow = "none" /\ up = "none" /\ app = "closed" /\ remote = "none"
-----------------------------------------------------------------------------
(* Start, close, and the reload that calls them *)

\* The device is dropped, and the kernel forgets its routes.
DropDevice == dev' = 0 /\ table' = {}

\* build_inbounds makes a new TunInbound; start is called on it.
Build ==
  /\ pc = "idle" /\ gen < MaxGen
  /\ gen' = gen + 1 /\ pc' = "create"
  /\ UNCHANGED <<tries, installed, recorded, task, dev, table, udp>>

\* The name is taken while the device of an older generation is not dropped.
CreateDevice ==
  /\ pc = "create"
  /\ \/ dev = 0 /\ dev' = gen /\ pc' = "route" /\ tries' = 0 /\ installed' = {}
     \/ pc' = "failed" /\ UNCHANGED <<dev, tries, installed>>
  /\ UNCHANGED <<gen, recorded, task, table, udp>>

Turn == Cardinality(installed) + 1

\* What a netlink request comes back with: sent and acknowledged without an
\* error code, or not.
Answers == {"ok", "err"}

\* route_add of the target in turn.
RouteAdd ==
  /\ pc = "route" /\ Turn <= Targets
  /\ \E answer \in Answers :
     \/ /\ answer = "ok" /\ installed' = installed \cup {Turn} /\ table' = table \cup {Turn}
        /\ tries' = 0 /\ UNCHANGED pc
     \/ /\ answer = "err" /\ tries + 1 < Attempts /\ tries' = tries + 1 /\ pc' = "sleep"
        /\ UNCHANGED <<installed, table>>
  /\ UNCHANGED <<gen, recorded, task, dev, udp>>

Sleep == pc = "sleep" /\ pc' = "route" /\ UNCHANGED <<gen, tries, installed, recorded, task, dev, table, udp>>

\* Mutant of GiveUp: the last failure is passed over.
GiveUpSilently ==
  /\ pc = "route" /\ Turn <= Targets /\ tries + 1 = Attempts
  /\ installed' = installed \cup {Turn} /\ tries' = 0
  /\ UNCHANGED <<gen, pc, recorded, task, dev, table, udp>>

\* The last attempt fails: the routes of this start are deleted again, and
\* with the error the device goes.
GiveUp ==
  /\ pc = "route" /\ Turn <= Targets /\ tries + 1 = Attempts
  /\ installed' = {} /\ tries' = 0 /\ pc' = "failed" /\ DropDevice
  /\ UNCHANGED <<gen, recorded, task, udp>>

\* All routes are in; the list is stored for close.
Record ==
  /\ pc = "route" /\ Turn > Targets
  /\ recorded' = [recorded EXCEPT ![gen] = installed] /\ pc' = "stack"
  /\ UNCHANGED <<gen, tries, installed, task, dev, table, udp>>

\* An MTU the stack refuses fails the start after the routes are in.
StartStack ==
  /\ pc = "stack"
  /\ \/ task' = [task EXCEPT ![gen] = "running"] /\ pc' = "serving" /\ UNCHANGED <<dev, table>>
     \/ pc' = "failed" /\ DropDevice /\ UNCHANGED task
  /\ UNCHANGED <<gen, tries, installed, recorded, udp>>

\* The request that reloads is dropped while install_tun_routes sleeps.
Cancel ==
  /\ pc = "sleep" /\ pc' = "failed" /\ DropDevice
  /\ UNCHANGED <<gen, tries, installed, recorded, task, udp>>

\* Mutant of Close: the routes are left to the kernel.
CloseLeavesRoutes ==
  /\ pc \in {"serving", "failed"}
  /\ task' = [task EXCEPT ![gen] = IF @ = "running" THEN "aborted" ELSE @]
  /\ recorded' = [recorded EXCEPT ![gen] = {}]
  /\ pc' = "idle"
  /\ UNCHANGED <<gen, tries, installed, dev, table, udp>>

\* close aborts the accept task, without waiting for it, then deletes the
\* recorded routes, which fails where the interface is gone.
Close ==
  /\ pc \in {"serving", "failed"}
  /\ task' = [task EXCEPT ![gen] = IF @ = "running" THEN "aborted" ELSE @]
  /\ recorded' = [recorded EXCEPT ![gen] = {}]
  /\ table' = table \ recorded[gen]
  /\ pc' = "idle"
  /\ UNCHANGED <<gen, tries, installed, dev, udp>>

\* The accept task ends: aborted, or because the stack failed.
TaskEnds(g) ==
  /\ task[g] \in {"aborted", "running"}
  /\ task' = [task EXCEPT ![g] = "gone"] /\ DropDevice
  /\ app' = "closed"
  /\ UNCHANGED <<gen, pc, tries, installed, recorded, flow, up, remote>>
-----------------------------------------------------------------------------
(* handle_tun_udp: one flow, its copying task `up`, and the handler itself, *)
(* which copies the answers                                                *)

Accept ==
  /\ \E g \in Gens : task[g] = "running"
  /\ flow = "none" /\ flow' = "first" /\ app' = "open"
  /\ UNCHANGED <<host, up, remote>>

\* The first datagram is read, for the sniffer; an end of the flow ends it.
ReadFirst ==
  /\ flow = "first"
  /\ flow' = IF app = "open" THEN "resolve" ELSE "end"
  /\ UNCHANGED <<host, up, app, remote>>

\* resolve_destination, dial_udp and the first send_to may each fail.
Advance ==
  /\ flow \in {"resolve", "dial", "send"}
  /\ \/ flow' = "end" /\ UNCHANGED <<remote, up>>
     \/ flow = "resolve" /\ flow' = "dial" /\ UNCHANGED <<remote, up>>
     \/ flow = "dial" /\ flow' = "send" /\ remote' = "open" /\ UNCHANGED up
     \/ flow = "send" /\ remote = "open" /\ flow' = "relay" /\ up' = "running" /\ UNCHANGED remote
  /\ UNCHANGED <<host, app>>

\* The task that copies from the flow ends with it or when a send fails.
UpEnds ==
  /\ up = "running" /\ (app = "closed" \/ remote = "failed")
  /\ up' = "ended" /\ UNCHANGED <<host, flow, app, remote>>

\* Mutant of DownEnds: the task is not aborted.
DownEndsAlone ==
  /\ flow = "relay" /\ (remote = "failed" \/ app = "closed")
  /\ flow' = "end" /\ UNCHANGED <<host, up, app, remote>>

\* recv_from fails, or an answer arrives that the closed flow cannot take:
\* the loop is left and the task aborted.
DownEnds ==
  /\ flow = "relay" /\ (remote = "failed" \/ app = "closed")
  /\ flow' = "end" /\ up' = "ended" /\ UNCHANGED <<host, app, remote>>

AppCloses == app = "open" /\ app' = "closed" /\ UNCHANGED <<host, flow, up, remote>>
RemoteFails == remote = "open" /\ remote' = "failed" /\ UNCHANGED <<host, flow, up, app>>

FlowNext == Accept \/ ReadFirst \/ Advance \/ UpEnds \/ DownEnds \/ AppCloses \/ RemoteFails
Next ==
  \/ Build \/ CreateDevice \/ RouteAdd \/ Sleep \/ GiveUp \/ Record \/ StartStack \/ Cancel \/ Close
  \/ \E g \in Gens : TaskEnds(g)
  \/ FlowNext

Spec == Init /\ [][Next]_vars
-----------------------------------------------------------------------------
(* Properties *)

\* A TUN inbound that serves has every one of its routes, whatever attempts
\* failed, whichever reload was cancelled in the middle and however late the
\* task of the closed generation ends: half of the addresses never bypass it.
ServesWithAllRoutes ==
  pc = "serving" /\ task[gen] = "running" => dev = gen /\ table = 1..Targets

\* Between reloads no route is left that the next close would not delete: a
\* route in the kernel while nothing serves belongs to a device the start in
\* progress, or a task not yet dropped, still holds.
NoRouteUnaccounted ==
  pc \in {"idle", "failed"} => table = {}

\* A finished flow has no copying task left behind.
FlowEndsWhole == flow = "end" => up # "running"
-----------------------------------------------------------------------------
(* Inductive invariant *)

\* While a start holds the device its routes are the kernel's, the first ones
\* of the list.
Installing ==
  /\ dev = gen /\ table = installed /\ task[gen] = "none"
  /\ \E k \in 0..Targets : installed = 1..k

\* A task that is not gone holds the device, so that no later generation has
\* it; what close will delete is all there is.
IInv ==
  /\ gen \in 0..MaxGen /\ (pc # "idle" => gen \in Gens)
  /\ pc \in {"idle", "create", "route", "sleep", "stack", "serving", "failed"}
  /\ DOMAIN recorded = Gens /\ task \in [Gens -> {"none", "running", "aborted", "gone"}]
  /\ \A g \in Gens : task[g] \in {"running", "aborted"} => dev = g
  /\ \A g \in Gens : g > gen => task[g] = "none"
  /\ pc = "create" => task[gen] = "none"
  /\ pc \in {"idle", "create", "failed"} => table = {}
  /\ pc \in {"route", "sleep", "stack"} => Installing
  /\ pc = "stack" => installed = 1..Targets
  /\ pc \in {"stack", "serving"} => recorded[gen] = 1..Targets
  /\ pc = "serving" => \/ task[gen] = "running" /\ table = 1..Targets
                       \/ task[gen] = "gone" /\ table = {}
  /\ flow # "relay" => up # "running"
=============================================================================
