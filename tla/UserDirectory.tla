--------------------------- MODULE UserDirectory ----------------------------
(***************************************************************************)
(* The user registry (rsb-core/user_registry.rs) and the per-user limiters  *)
(* (user_limiter of connection_manager.rs).  A reload clears five maps and  *)
(* fills them again record by record, while sessions look users up by       *)
(* password, by trojan hash, by uuid or by inbound (user_relay.rs), and     *)
(* take the limiter of the user's name.                                     *)
(***************************************************************************)
EXTENDS Integers, FiniteSets, Sequences

CONSTANTS
  Configs,   \* the users of a configuration: sequences of user objects
  Sessions,
  MaxLimiters

\* A user object: the inbound it stands in, its secret, its name ("" when the
\* object has none), whether it is known by uuid or by password, its speed.
User == [inb : STRING, secret : STRING, name : STRING, kind : {"uuid", "password"}, speed : Nat]
NilName == "nil"
DisplayName(u) == IF u.name # "" THEN u.name ELSE IF u.kind = "uuid" THEN u.secret ELSE NilName

Maps == {"uuid", "name", "password", "hash"}
Absent == [inb |-> "", secret |-> "", name |-> "", kind |-> "", speed |-> 0]
Secrets == UNION {{c[i].secret : i \in 1..Len(c)} : c \in Configs}
UserNames == UNION {{DisplayName(c[i]) : i \in 1..Len(c)} : c \in Configs}
Inbounds == UNION {{c[i].inb : i \in 1..Len(c)} : c \in Configs}
Records == UNION {{c[i] : i \in 1..Len(c)} : c \in Configs}
Keys == Secrets \cup UserNames

VARIABLES
  cfg,      \* the configuration in force
  maps,     \* map -> key -> record
  inbound,  \* by_inbound: inbound -> sequence of records
  at,       \* next record to register, 0 when no reload runs
  part,     \* maps of that record already written
  limiter,  \* name -> limiter, 0 for none
  made,     \* limiters made so far: limiter -> speed
  session   \* session -> [name, lim], lim 0 without a limiter

Session == [name : UserNames \cup {""}, lim : 0..MaxLimiters]

vars == <<cfg, maps, inbound, at, part, limiter, made, session>>

TypeOK ==
  /\ cfg \in Configs /\ at \in 0..Len(cfg) /\ part \in {"maps", "secret", "inbound"}
  /\ maps \in [Maps -> [Keys -> Records \cup {Absent}]]
  /\ inbound \in [Inbounds -> Seq(Records)]
  /\ limiter \in [UserNames -> 0..MaxLimiters] /\ made \in Seq(Nat) /\ Len(made) <= MaxLimiters
  /\ session \in [Sessions -> Session]

Empty == [m \in Maps |-> [k \in Keys |-> Absent]]
First(c) == IF c = <<>> THEN 0 ELSE 1
NoSession == [name |-> "", lim |-> 0]

Init ==
  /\ cfg \in Configs /\ maps = Empty /\ inbound = [i \in Inbounds |-> <<>>]
  /\ at = First(cfg) /\ part = "maps"
  /\ limiter = [n \in UserNames |-> 0] /\ made = <<>>
  /\ session = [s \in Sessions |-> NoSession]
-----------------------------------------------------------------------------
\* Mutant of ReloadClear: the map of trojan hashes is not cleared.
ReloadClearMost ==
  /\ at = 0 /\ cfg' \in Configs \ {cfg}
  /\ maps' = [Empty EXCEPT !["hash"] = maps["hash"]]
  /\ inbound' = [i \in Inbounds |-> <<>>]
  /\ at' = First(cfg') /\ part' = "maps"
  /\ UNCHANGED <<limiter, made, session>>

\* reload_from_options: the maps are cleared; runtime counters and limiters stay.
ReloadClear ==
  /\ at = 0 /\ cfg' \in Configs \ {cfg}
  /\ maps' = Empty /\ inbound' = [i \in Inbounds |-> <<>>]
  /\ at' = First(cfg') /\ part' = "maps"
  /\ UNCHANGED <<limiter, made, session>>

\* register: by_uuid and by_name, where a later record replaces an earlier one;
\* a password user has a uuid derived from the password.
RegisterName ==
  /\ at \in 1..Len(cfg) /\ part = "maps" /\ part' = "secret"
  /\ maps' = [maps EXCEPT !["uuid"][cfg[at].secret] = cfg[at],
                          !["name"][DisplayName(cfg[at])] = cfg[at]]
  /\ UNCHANGED <<cfg, inbound, at, limiter, made, session>>

\* by_password and by_trojan_hash, for users with a password
RegisterSecret ==
  /\ at \in 1..Len(cfg) /\ part = "secret" /\ part' = "inbound"
  /\ maps' = IF cfg[at].kind = "uuid" THEN maps
             ELSE [maps EXCEPT !["password"][cfg[at].secret] = cfg[at],
                               !["hash"][cfg[at].secret] = cfg[at]]
  /\ UNCHANGED <<cfg, inbound, at, limiter, made, session>>

RegisterInbound ==
  /\ at \in 1..Len(cfg) /\ part = "inbound" /\ part' = "maps"
  /\ inbound' = [inbound EXCEPT ![cfg[at].inb] = Append(@, cfg[at])]
  /\ at' = IF at = Len(cfg) THEN 0 ELSE at + 1
  /\ UNCHANGED <<cfg, maps, limiter, made, session>>

\* Mutant of Limiter: a new limiter for every session.
LimiterPerSession(n, speed) ==
  IF speed = 0 THEN made' = made /\ limiter' = limiter
  ELSE made' = Append(made, speed) /\ limiter' = [limiter EXCEPT ![n] = Len(made) + 1]

\* user_limiter: entry(name).or_insert_with, so the first speed stays.
Limiter(n, speed) ==
  IF speed = 0 \/ limiter[n] # 0 THEN made' = made /\ limiter' = limiter
  ELSE made' = Append(made, speed) /\ limiter' = [limiter EXCEPT ![n] = Len(made) + 1]

Start(s, rec) ==
  LET n == DisplayName(rec) IN
  /\ session[s] = NoSession /\ Len(made) < MaxLimiters
  /\ Limiter(n, rec.speed)
  /\ session' = [session EXCEPT ![s] = [name |-> n, lim |-> IF rec.speed = 0 THEN 0 ELSE limiter'[n]]]
  /\ UNCHANGED <<cfg, maps, inbound, at, part>>

\* begin_for_uuid, begin_for_password, begin_for_trojan_hash: a user that is
\* not found has default limits, and no limiter.
BeginFor(s, m, k) == maps[m][k] # Absent /\ Start(s, maps[m][k])

\* begin_for_inbound: the first user of the inbound.
BeginForInbound(s, i) == inbound[i] # <<>> /\ Start(s, Head(inbound[i]))

EndSession(s) ==
  /\ session[s] # NoSession /\ session' = [session EXCEPT ![s] = NoSession]
  /\ UNCHANGED <<cfg, maps, inbound, at, part, limiter, made>>

Next ==
  \/ ReloadClear \/ RegisterName \/ RegisterSecret \/ RegisterInbound
  \/ \E s \in Sessions :
       \/ \E m \in Maps \ {"name"}, k \in Secrets : BeginFor(s, m, k)
       \/ \E i \in Inbounds : BeginForInbound(s, i)
       \/ EndSession(s)
Spec == Init /\ [][Next]_vars
-----------------------------------------------------------------------------
Current == {cfg[i] : i \in 1..Len(cfg)}

\* The last of the first n records with a password decides what it finds.
HasPassword(u, pw) == u.kind = "password" /\ u.secret = pw
LastStands(c, found, n) ==
  \A i \in 1..n : c[i].kind = "password" =>
    \E j \in i..n : /\ HasPassword(c[j], c[i].secret) /\ found[c[i].secret] = c[j]
                    /\ \A l \in (j + 1)..n : ~HasPassword(c[l], c[i].secret)

\* After a reload every lookup returns a user of the new configuration, by
\* password the last one that has it, and the lookups by password and by hash
\* agree.
LookupsAreCurrent ==
  at = 0 =>
    /\ \A m \in Maps, k \in Keys : maps[m][k] # Absent => maps[m][k] \in Current
    /\ \A k \in Secrets : maps["password"][k] = maps["hash"][k]
    /\ LastStands(cfg, maps["password"], Len(cfg))

\* All sessions of a user that are throttled share one limiter, also across
\* reloads: the speed limits the user, not the connection.
OneLimiterPerUser ==
  \A s, t \in Sessions :
    (session[s].name = session[t].name /\ session[s].lim # 0 /\ session[t].lim # 0)
       => session[s].lim = session[t].lim

\* What makes these inductive: the same of a registration half done, of the
\* records whose passwords are registered; and a name keeps its limiter.
Done == IF at = 0 THEN Len(cfg) ELSE IF part = "inbound" THEN at ELSE at - 1
SoFar ==
  /\ \A m \in Maps, k \in Keys : maps[m][k] # Absent => maps[m][k] \in Current
  /\ \A k \in Secrets : maps["password"][k] = maps["hash"][k]
  /\ LastStands(cfg, maps["password"], Done)
LimiterStays ==
  /\ \A n \in UserNames : limiter[n] <= Len(made)
  /\ \A s \in Sessions : session[s].lim # 0 =>
       session[s].name \in UserNames /\ limiter[session[s].name] = session[s].lim
IInv == TypeOK /\ SoFar /\ LimiterStays
=============================================================================
