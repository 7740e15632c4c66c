------------------------------ MODULE MCUsers ------------------------------
(***************************************************************************)
(* What a server keeps of its users: the bucket they share, the sessions,   *)
(* the counters and the directory, with the proofs of what they promise.    *)
(* One run checks several components that share no state: a behaviour is    *)
(* one of the component that part names, and the others stay idle.          *)
(***************************************************************************)
EXTENDS RateLimiter, Sequences, FiniteSetTheorems, TLAPS

CONSTANTS
  Sessions, MaxConnections, MaxTraffic, MaxChunk, MaxReloads,  \* of a user
  Relays, MaxRecords, MaxQueries,                              \* of the counters
  Configs, MaxLimiters                                         \* of the directory

\* Sessions and relays are finitely many, and bounds are numbers.
ASSUME FiniteAssumption == IsFiniteSet(Sessions) /\ IsFiniteSet(Relays)
ASSUME NumberAssumption ==
  /\ MaxTraffic \in Nat /\ MaxChunk \in Nat /\ MaxReloads \in Nat
  /\ MaxRecords \in Nat /\ MaxQueries \in Nat /\ MaxLimiters \in Nat

VARIABLES
  part,  \* the component that runs
  registered, reloads, active, used, tracked, pc, known, chunk,
  count, step, records, added, q, at, match, resets, queries, seen, billed,
  ever,
  cfg, maps, inbound, row, stage, limiter, made, session

\* The state of each component.
ofSessions == <<registered, reloads, active, used, tracked, pc, known, chunk>>
ofCounters == <<count, step, records, added, q, at, match, resets, queries,
                seen, billed, ever>>
ofDirectory == <<cfg, maps, inbound, row, stage, limiter, made, session>>
state == <<part, vars, ofSessions, ofCounters, ofDirectory>>
-----------------------------------------------------------------------------
(* The limiter, for every rate, set of senders and sizes.                   *)

\* The tokens acquire_wait finds, after the cap, fit in the bucket.
LEMMA RefilledType ==
  ASSUME TypeOK PROVE Refilled \in 0..Cap /\ Cap \in Nat
  BY RateAssumption DEF TypeOK, Refilled, AtMost, Cap

\* A sender in throttle asks for a number of bytes.
LEMMA SizeType ==
  ASSUME TypeOK, NEW s \in Senders PROVE size[s] \in Nat
<1>1. size[s] \in Sizes \cup {0}
  BY Zenon DEF TypeOK
<1>2. CASE size[s] \in Sizes
  BY <1>2, SizesAssumption, Zenon
<1>3. CASE size[s] = 0
  BY <1>3
<1> QED BY <1>1, <1>2, <1>3, Zenon

\* A new limiter starts with half a bucket and no excess.
LEMMA LimiterInit == Init => IInv
  BY RateAssumption DEF Init, IInv, TypeOK, Shared, Refilled, AtMost, Cap

\* No step of acquire_wait, throttle or the clock breaks the type invariant.
LEMMA LimiterTypes ==
  ASSUME TypeOK, [Next]_vars PROVE TypeOK'
<1>1. Refilled \in 0..Cap /\ Cap \in Nat
  BY RefilledType, Zenon
<1>2. CASE Tick
  BY <1>1, <1>2 DEF TypeOK, Tick, AtMost
<1>3. ASSUME NEW s \in Senders, Throttle(s) PROVE TypeOK'
  BY <1>3, Zenon DEF TypeOK, Throttle, Cap
<1>4. ASSUME NEW s \in Senders, Pass(s) PROVE TypeOK'
  <2>1. size[s] \in Nat /\ size[s] <= Refilled
    BY <1>4, SizeType, Zenon DEF Pass
  <2>2. tokens' \in 0..Cap /\ since' \in 0..Cap /\ excess' \in Nat
    BY <1>1, <1>4, <2>1 DEF TypeOK, Pass
  <2>3. size' \in [Senders -> Sizes \cup {0}] /\ sleep' \in [Senders -> Nat]
    BY <1>4, Zenon DEF TypeOK, Pass
  <2> QED BY <2>2, <2>3, Zenon DEF TypeOK, Cap
<1>5. ASSUME NEW s \in Senders, Wait(s) PROVE TypeOK'
  <2>1. size[s] - Refilled \in Nat
    <3>1. size[s] \in Nat
      BY SizeType, Zenon
    <3>2. Refilled < size[s]
      BY <1>5, Zenon DEF Wait
    <3> QED BY <1>1, <3>1, <3>2
  <2>2. tokens' \in 0..Cap /\ since' \in 0..Cap /\ excess' \in Nat
    BY <1>1, <1>5 DEF TypeOK, Wait
  <2>3. size' \in [Senders -> Sizes \cup {0}] /\ sleep' \in [Senders -> Nat]
    BY <1>5, <2>1, Zenon DEF TypeOK, Wait
  <2> QED BY <2>2, <2>3, Zenon DEF TypeOK, Cap
<1>6. ASSUME NEW s \in Senders, Abandon(s) PROVE TypeOK'
  BY <1>6, Zenon DEF TypeOK, Abandon, Cap
<1>7. CASE UNCHANGED vars
  BY <1>7, Zenon DEF TypeOK, vars, Cap
<1> QED BY <1>2, <1>3, <1>4, <1>5, <1>6, <1>7, Zenon DEF Next

\* The excess and the tokens keep sharing the capacity: what Pass adds to one
\* it takes from the other, and a tick moves one byte the other way.
LEMMA LimiterShares ==
  ASSUME IInv, [Next]_vars PROVE Shared'
<1> USE RateAssumption
<1>1. TypeOK /\ Shared /\ Refilled \in 0..Cap /\ Cap \in Nat
  BY RefilledType, Zenon DEF IInv
<1>2. CASE Tick
  BY <1>1, <1>2 DEF TypeOK, Tick, Shared, Refilled, AtMost, Cap
<1>3. ASSUME NEW s \in Senders, Throttle(s) PROVE Shared'
  BY <1>1, <1>3, Zenon DEF Throttle, Shared, Refilled, AtMost, Cap
<1>4. ASSUME NEW s \in Senders, Pass(s) PROVE Shared'
  <2>1. size[s] \in Nat /\ size[s] <= Refilled
    BY <1>1, <1>4, SizeType, Zenon DEF Pass
  <2>2. tokens' = Refilled - size[s] /\ since' = 0 /\ excess' = excess + size[s]
    BY <1>4, Zenon DEF Pass
  <2>3. Refilled' = Refilled - size[s]
    BY <1>1, <2>1, <2>2 DEF Refilled, AtMost, Cap
  <2>4. excess \in Nat
    BY <1>1, Zenon DEF TypeOK
  <2> QED BY <1>1, <2>1, <2>2, <2>3, <2>4 DEF Shared, Cap
<1>5. ASSUME NEW s \in Senders, Wait(s) PROVE Shared'
  <2>1. tokens' = 0 /\ since' = 0 /\ excess' = excess
    BY <1>5, Zenon DEF Wait
  <2>2. Refilled' = 0
    BY <2>1 DEF Refilled, AtMost, Cap
  <2>3. excess \in Nat
    BY <1>1, Zenon DEF TypeOK
  <2> QED BY <1>1, <2>1, <2>2, <2>3 DEF Shared, Cap
<1>6. ASSUME NEW s \in Senders, Abandon(s) PROVE Shared'
  BY <1>1, <1>6, Zenon DEF Abandon, Shared, Refilled, AtMost, Cap
<1>7. CASE UNCHANGED vars
  BY <1>1, <1>7, Zenon DEF vars, Shared, Refilled, AtMost, Cap
<1> QED BY <1>2, <1>3, <1>4, <1>5, <1>6, <1>7, Zenon DEF Next

\* For every rate and any number of relays that share the limiter, throttle
\* never lets through more than the rate plus one full bucket over an interval.
LEMMA LimiterBounded == IInv => BurstBounded
<1> SUFFICES ASSUME IInv PROVE BurstBounded
  BY Zenon
<1>1. Refilled \in 0..Cap /\ Cap \in Nat
  BY RefilledType, Zenon DEF IInv
<1> QED BY <1>1 DEF IInv, TypeOK, Shared, BurstBounded
-----------------------------------------------------------------------------
(* The directory of users, loaded again record by record.                   *)

UserDirectory == INSTANCE UserDirectory WITH
  at <- row, part <- stage
ASSUME ConfigsAreUsers == Configs \subseteq Seq(UserDirectory!User)

\* A record of a configuration is a user object, and none is Absent.
LEMMA DirectoryRecord ==
  ASSUME NEW u \in UserDirectory!Records
  PROVE  /\ u \in UserDirectory!User /\ u # UserDirectory!Absent
         /\ UserDirectory!DisplayName(u) \in UserDirectory!UserNames
         /\ u.inb \in UserDirectory!Inbounds /\ u.secret \in UserDirectory!Secrets
<1>1. PICK c \in Configs : \E i \in 1..Len(c) : u = c[i]
  BY Zenon DEF UserDirectory!Records
<1>2. c \in Seq(UserDirectory!User)
  BY ConfigsAreUsers, Zenon
<1>3. u \in UserDirectory!User
  BY <1>1, <1>2
<1>4. u # UserDirectory!Absent
  <2>1. u.kind \in {"uuid", "password"}
    BY <1>3, Zenon DEF UserDirectory!User
  <2>2. UserDirectory!Absent.kind = ""
    BY Zenon DEF UserDirectory!Absent
  <2> QED BY <2>1, <2>2, Zenon
<1> QED BY <1>1, <1>3, <1>4 DEF UserDirectory!UserNames, UserDirectory!Inbounds, UserDirectory!Secrets

\* A configuration is a sequence of users, each one of the records.
LEMMA DirectoryAt ==
  ASSUME NEW c \in Configs
  PROVE  /\ c \in Seq(UserDirectory!User) /\ Len(c) \in Nat
         /\ \A i \in 1..Len(c) : c[i] \in UserDirectory!Records
BY ConfigsAreUsers DEF UserDirectory!Records

\* A reload starts from empty maps.
LEMMA DirectoryEmpty ==
  ASSUME NEW c \in Configs
  PROVE  /\ UserDirectory!First(c) \in 0..Len(c) /\ (UserDirectory!First(c) = 0 => Len(c) = 0)
         /\ UserDirectory!First(c) \in {0, 1}
         /\ UserDirectory!Empty \in [UserDirectory!Maps -> [UserDirectory!Keys -> UserDirectory!Records \cup {UserDirectory!Absent}]]
         /\ [i \in UserDirectory!Inbounds |-> <<>>] \in [UserDirectory!Inbounds -> Seq(UserDirectory!Records)]
         /\ \A m \in UserDirectory!Maps, k \in UserDirectory!Keys :
              UserDirectory!Empty[m][k] = UserDirectory!Absent
         /\ \A k \in UserDirectory!Secrets :
              UserDirectory!Empty["password"][k] = UserDirectory!Empty["hash"][k]
BY DEF UserDirectory!First, UserDirectory!Empty, UserDirectory!Maps, UserDirectory!Keys

\* A reload starts with empty maps.
LEMMA DirectoryReload ==
  ASSUME UserDirectory!IInv, UserDirectory!ReloadClear
  PROVE  UserDirectory!IInv'
<1> USE NumberAssumption DEF UserDirectory!IInv
<1>1. /\ cfg' \in Configs /\ maps' = UserDirectory!Empty
      /\ inbound' = [i \in UserDirectory!Inbounds |-> <<>>]
      /\ row' = UserDirectory!First(cfg') /\ stage' = "maps" /\ UNCHANGED <<limiter, made, session>>
  BY Zenon DEF UserDirectory!ReloadClear
<1>2. UserDirectory!TypeOK' /\ UserDirectory!LimiterStays'
  BY <1>1, DirectoryEmpty, Zenon DEF UserDirectory!TypeOK, UserDirectory!LimiterStays
<1>3. UserDirectory!Done' = 0
  BY <1>1, DirectoryEmpty DEF UserDirectory!Done
<1>4. UserDirectory!LastStands(cfg, maps["password"], UserDirectory!Done)'
  BY <1>3 DEF UserDirectory!LastStands
<1>5. /\ \A m \in UserDirectory!Maps, k \in UserDirectory!Keys : maps'[m][k] = UserDirectory!Absent
      /\ \A k \in UserDirectory!Secrets : maps'["password"][k] = maps'["hash"][k]
  BY <1>1, DirectoryEmpty, Zenon
<1> QED BY <1>2, <1>4, <1>5, Zenon DEF UserDirectory!SoFar

\* A record replaces an earlier one under its key, and is of the configuration.
LEMMA DirectoryRegister ==
  ASSUME UserDirectory!IInv,
         UserDirectory!RegisterName \/ UserDirectory!RegisterSecret \/ UserDirectory!RegisterInbound
  PROVE  UserDirectory!IInv'
<1> USE NumberAssumption DEF UserDirectory!IInv
<1> DEFINE u == cfg[row]
<1>1. /\ row \in 1..Len(cfg) /\ Len(cfg) \in Nat /\ cfg \in Configs /\ u \in UserDirectory!Records
      /\ u \in UserDirectory!User
      /\ u.secret \in UserDirectory!Secrets /\ u.secret \in UserDirectory!Keys
      /\ UserDirectory!DisplayName(u) \in UserDirectory!UserNames
      /\ UserDirectory!DisplayName(u) \in UserDirectory!Keys
      /\ u.inb \in UserDirectory!Inbounds /\ u \in UserDirectory!Current
  <2>1. row \in 1..Len(cfg) /\ cfg \in Configs
    BY Zenon DEF UserDirectory!TypeOK, UserDirectory!RegisterName, UserDirectory!RegisterSecret,
       UserDirectory!RegisterInbound
  <2>2. Len(cfg) \in Nat /\ u \in UserDirectory!Records
    BY <2>1, DirectoryAt, Zenon
  <2>3. /\ u \in UserDirectory!User /\ UserDirectory!DisplayName(u) \in UserDirectory!UserNames
        /\ u.inb \in UserDirectory!Inbounds /\ u.secret \in UserDirectory!Secrets
    BY <2>2, DirectoryRecord, Zenon
  <2> QED BY <2>1, <2>2, <2>3, Zenon DEF UserDirectory!Keys, UserDirectory!Current
<1>2. /\ UNCHANGED <<cfg, limiter, made, session>> /\ UserDirectory!LimiterStays'
      /\ UserDirectory!Current' = UserDirectory!Current
  BY DEF UserDirectory!RegisterName, UserDirectory!RegisterSecret, UserDirectory!RegisterInbound,
     UserDirectory!LimiterStays, UserDirectory!Current
<1>3. CASE UserDirectory!RegisterName
  <2>1. /\ stage = "maps" /\ stage' = "secret" /\ UNCHANGED <<row, inbound>>
        /\ maps' = [maps EXCEPT !["uuid"][u.secret] = u, !["name"][UserDirectory!DisplayName(u)] = u]
    BY <1>3, Zenon DEF UserDirectory!RegisterName
  <2> HIDE DEF u
  <2>2. /\ maps' \in [UserDirectory!Maps -> [UserDirectory!Keys -> UserDirectory!Records \cup {UserDirectory!Absent}]]
        /\ \A m \in UserDirectory!Maps, k \in UserDirectory!Keys : maps'[m][k] \in {maps[m][k], u}
        /\ maps'["password"] = maps["password"] /\ maps'["hash"] = maps["hash"]
    BY <1>1, <2>1, Zenon DEF UserDirectory!TypeOK, UserDirectory!Maps
  <2>3. UserDirectory!TypeOK'
    BY <1>2, <2>1, <2>2, Zenon DEF UserDirectory!TypeOK
  <2>4. UserDirectory!Done' = UserDirectory!Done
    BY <1>2, <2>1, Zenon DEF UserDirectory!Done
  <2>5. UserDirectory!LastStands(cfg, maps["password"], UserDirectory!Done)'
    BY <1>2, <2>2, <2>4, Zenon DEF UserDirectory!SoFar
  <2> QED BY <1>1, <1>2, <2>2, <2>3, <2>5, Zenon DEF UserDirectory!SoFar
<1>4. CASE UserDirectory!RegisterSecret
  <2>1. /\ stage = "secret" /\ stage' = "inbound" /\ UNCHANGED <<row, inbound>>
        /\ maps' = IF u.kind = "uuid" THEN maps
                   ELSE [maps EXCEPT !["password"][u.secret] = u, !["hash"][u.secret] = u]
    BY <1>4, Zenon DEF UserDirectory!RegisterSecret
  <2>2. UserDirectory!Done = row - 1 /\ UserDirectory!Done' = row
    BY <1>1, <2>1 DEF UserDirectory!Done
  <2>3. u.kind \in {"uuid", "password"}
    BY <1>1, Zenon DEF UserDirectory!User
  <2>4. \A i \in 1..Len(cfg) :
          cfg[i].secret \in UserDirectory!Keys /\ cfg[i].secret \in UserDirectory!Secrets
    BY <1>1, DirectoryAt, DirectoryRecord, Zenon DEF UserDirectory!Keys
  <2>5. CASE u.kind = "uuid"
    <3>1. maps' = maps /\ UserDirectory!TypeOK'
      BY <1>2, <2>1, <2>5, Zenon DEF UserDirectory!TypeOK
    <3>2. ASSUME NEW i \in 1..row, cfg[i].kind = "password"
          PROVE  \E j \in i..row : /\ UserDirectory!HasPassword(cfg[j], cfg[i].secret)
                                   /\ maps["password"][cfg[i].secret] = cfg[j]
                                   /\ \A l \in (j + 1)..row :
                                        ~UserDirectory!HasPassword(cfg[l], cfg[i].secret)
      <4>1. i \in 1..(row - 1)
        BY <1>1, <2>5, <3>2
      <4>2. PICK j \in i..(row - 1) : /\ UserDirectory!HasPassword(cfg[j], cfg[i].secret)
                                      /\ maps["password"][cfg[i].secret] = cfg[j]
                                      /\ \A l \in (j + 1)..(row - 1) :
                                           ~UserDirectory!HasPassword(cfg[l], cfg[i].secret)
        BY <2>2, <3>2, <4>1, Zenon DEF UserDirectory!SoFar, UserDirectory!LastStands
      <4>3. ~UserDirectory!HasPassword(cfg[row], cfg[i].secret)
        BY <2>5, Zenon DEF UserDirectory!HasPassword
      <4>4. j \in i..row /\ \A l \in (j + 1)..row : l \in (j + 1)..(row - 1) \/ l = row
        BY <1>1
      <4> QED BY <4>2, <4>3, <4>4, Zenon
    <3>3. UserDirectory!LastStands(cfg, maps["password"], UserDirectory!Done)'
      BY <3>2, <1>2, <2>2, <3>1, Zenon DEF UserDirectory!LastStands
    <3> QED BY <1>2, <3>1, <3>3, Zenon DEF UserDirectory!SoFar
  <2>6. CASE u.kind = "password"
    <3>1. maps' = [maps EXCEPT !["password"][u.secret] = u, !["hash"][u.secret] = u]
      BY <2>1, <2>6, Zenon
    <3>2. UserDirectory!HasPassword(cfg[row], u.secret)
      BY <2>6, Zenon DEF UserDirectory!HasPassword
    <3> HIDE DEF u
    <3>3. /\ maps' \in [UserDirectory!Maps -> [UserDirectory!Keys -> UserDirectory!Records \cup {UserDirectory!Absent}]]
          /\ \A m \in UserDirectory!Maps, k \in UserDirectory!Keys : maps'[m][k] \in {maps[m][k], u}
          /\ maps'["password"][u.secret] = u /\ maps'["hash"][u.secret] = u
          /\ \A k \in UserDirectory!Keys \ {u.secret} : /\ maps'["password"][k] = maps["password"][k]
                                                        /\ maps'["hash"][k] = maps["hash"][k]
      BY <1>1, <3>1, Zenon DEF UserDirectory!TypeOK, UserDirectory!Maps
    <3>4. UserDirectory!TypeOK'
      BY <1>2, <2>1, <3>3, Zenon DEF UserDirectory!TypeOK
    <3>5. \A k \in UserDirectory!Secrets : maps'["password"][k] = maps'["hash"][k]
      BY <3>3, Zenon DEF UserDirectory!SoFar, UserDirectory!Keys
    <3>6. ASSUME NEW i \in 1..row, cfg[i].kind = "password"
          PROVE  \E j \in i..row : /\ UserDirectory!HasPassword(cfg[j], cfg[i].secret)
                                   /\ maps'["password"][cfg[i].secret] = cfg[j]
                                   /\ \A l \in (j + 1)..row :
                                        ~UserDirectory!HasPassword(cfg[l], cfg[i].secret)
      <4>1. CASE cfg[i].secret = u.secret
        BY <1>1, <3>3, <4>1, <3>2 DEF u
      <4>2. CASE cfg[i].secret # u.secret
        <5>1. i # row
          BY <4>2, Zenon DEF u
        <5>2. i \in 1..(row - 1)
          BY <1>1, <5>1
        <5>3. PICK j \in i..(row - 1) :
                /\ UserDirectory!HasPassword(cfg[j], cfg[i].secret)
                /\ maps["password"][cfg[i].secret] = cfg[j]
                /\ \A l \in (j + 1)..(row - 1) : ~UserDirectory!HasPassword(cfg[l], cfg[i].secret)
          BY <2>2, <3>6, <5>2, Zenon DEF UserDirectory!SoFar, UserDirectory!LastStands
        <5>4. ~UserDirectory!HasPassword(cfg[row], cfg[i].secret)
          BY <4>2, Zenon DEF u, UserDirectory!HasPassword
        <5>5. i \in 1..Len(cfg) /\ j \in i..row /\ \A l \in (j + 1)..row :
                l \in (j + 1)..(row - 1) \/ l = row
          BY <1>1
        <5>6. maps'["password"][cfg[i].secret] = maps["password"][cfg[i].secret]
          BY <2>4, <3>3, <4>2, <5>5, Zenon
        <5> QED BY <5>3, <5>4, <5>5, <5>6, Zenon
      <4> QED BY <4>1, <4>2, Zenon
    <3>7. UserDirectory!LastStands(cfg, maps["password"], UserDirectory!Done)'
      BY <3>6, <1>2, <2>2, Zenon DEF UserDirectory!LastStands
    <3> QED BY <1>1, <1>2, <3>3, <3>4, <3>5, <3>7, Zenon DEF UserDirectory!SoFar
  <2> QED BY <2>3, <2>5, <2>6, Zenon
<1>5. CASE UserDirectory!RegisterInbound
  BY <1>5, <1>1, <1>2
     DEF UserDirectory!RegisterInbound, UserDirectory!Done, UserDirectory!TypeOK, UserDirectory!SoFar
<1> QED BY <1>3, <1>4, <1>5, Zenon

\* A session takes the limiter of its name; the first one makes it.
LEMMA DirectoryStart ==
  ASSUME UserDirectory!IInv, NEW s \in Sessions, NEW u \in UserDirectory!Records,
         UserDirectory!Start(s, u)
  PROVE  UserDirectory!IInv'
<1> USE NumberAssumption DEF UserDirectory!IInv
<1> DEFINE n == UserDirectory!DisplayName(u)
<1>1. n \in UserDirectory!UserNames /\ u.speed \in Nat
  BY DirectoryRecord, Zenon DEF UserDirectory!User
<1> HIDE DEF n
<1>2. /\ Len(made) < MaxLimiters /\ UserDirectory!Limiter(n, u.speed)
      /\ UNCHANGED <<cfg, maps, inbound, row, stage>>
      /\ session' = [session EXCEPT ![s] = [name |-> n, lim |-> IF u.speed = 0 THEN 0 ELSE limiter'[n]]]
  BY Zenon DEF UserDirectory!Start, n
<1>3. UserDirectory!SoFar'
  BY <1>2 DEF UserDirectory!SoFar, UserDirectory!Done, UserDirectory!Current
<1>4. /\ limiter' \in [UserDirectory!UserNames -> 0..MaxLimiters] /\ made' \in Seq(Nat)
      /\ Len(made') <= MaxLimiters
      /\ \A m \in UserDirectory!UserNames : limiter'[m] <= Len(made')
      /\ \A m \in UserDirectory!UserNames : limiter[m] # 0 => limiter'[m] = limiter[m]
  <2>1. CASE u.speed = 0 \/ limiter[n] # 0
    BY <1>2, <2>1, Zenon DEF UserDirectory!Limiter, UserDirectory!TypeOK, UserDirectory!LimiterStays
  <2>2. CASE ~(u.speed = 0 \/ limiter[n] # 0)
    <3>1. made' = Append(made, u.speed) /\ limiter' = [limiter EXCEPT ![n] = Len(made) + 1]
      BY <1>2, <2>2, Zenon DEF UserDirectory!Limiter
    <3>2. made' \in Seq(Nat) /\ Len(made') = Len(made) + 1 /\ Len(made) \in Nat
      BY <1>1, <3>1 DEF UserDirectory!TypeOK
    <3>3. \A m \in UserDirectory!UserNames : limiter[m] \in Nat /\ limiter[m] <= Len(made)
      BY DEF UserDirectory!TypeOK, UserDirectory!LimiterStays
    <3> QED BY <1>1, <1>2, <2>2, <3>1, <3>3 DEF UserDirectory!TypeOK
  <2> QED BY <2>1, <2>2, Zenon
<1> DEFINE l == IF u.speed = 0 THEN 0 ELSE limiter'[n]
           r == [name |-> n, lim |-> l]
<1>5. l \in 0..MaxLimiters /\ (l # 0 => limiter'[n] = l)
  BY <1>1, <1>4
<1>6. session' = [session EXCEPT ![s] = r]
  BY <1>2, Zenon
<1> HIDE DEF l
<1>7. r \in UserDirectory!Session /\ r.name = n /\ (r.lim # 0 => limiter'[n] = r.lim)
  BY <1>1, <1>5, Zenon DEF UserDirectory!Session
<1> HIDE DEF r
<1>8. UserDirectory!TypeOK'
  BY <1>2, <1>4, <1>6, <1>7 DEF UserDirectory!TypeOK
<1>9. UserDirectory!LimiterStays'
  BY <1>1, <1>6, <1>7, <1>4, Zenon DEF UserDirectory!TypeOK, UserDirectory!LimiterStays
<1> QED BY <1>3, <1>8, <1>9, Zenon

\* Looking a user up and using the limiter change no map but the limiters'.
LEMMA DirectorySession ==
  ASSUME UserDirectory!IInv, NEW s \in Sessions,
         \/ \E m \in UserDirectory!Maps \ {"name"}, k \in UserDirectory!Secrets :
              UserDirectory!BeginFor(s, m, k)
         \/ \E i \in UserDirectory!Inbounds : UserDirectory!BeginForInbound(s, i)
         \/ UserDirectory!EndSession(s)
  PROVE  UserDirectory!IInv'
<1>1. ASSUME NEW m \in UserDirectory!Maps \ {"name"}, NEW k \in UserDirectory!Secrets,
             UserDirectory!BeginFor(s, m, k)
      PROVE  UserDirectory!IInv'
  <2>1. maps[m][k] \in UserDirectory!Records /\ UserDirectory!Start(s, maps[m][k])
    BY <1>1, Zenon
       DEF UserDirectory!BeginFor, UserDirectory!IInv, UserDirectory!TypeOK, UserDirectory!Keys
  <2> QED BY <2>1, DirectoryStart, Zenon
<1>2. ASSUME NEW i \in UserDirectory!Inbounds, UserDirectory!BeginForInbound(s, i)
      PROVE  UserDirectory!IInv'
  BY <1>2, DirectoryStart DEF UserDirectory!BeginForInbound, UserDirectory!IInv, UserDirectory!TypeOK
<1>3. CASE UserDirectory!EndSession(s)
  <2> USE NumberAssumption DEF UserDirectory!IInv
  <2>1. /\ session' = [session EXCEPT ![s] = UserDirectory!NoSession]
        /\ UNCHANGED <<cfg, maps, inbound, row, stage, limiter, made>>
    BY <1>3, Zenon DEF UserDirectory!EndSession
  <2>2. UserDirectory!NoSession \in UserDirectory!Session /\ UserDirectory!NoSession.lim = 0
    BY DEF UserDirectory!NoSession, UserDirectory!Session
  <2>3. UserDirectory!TypeOK'
    BY <2>1, <2>2, Zenon DEF UserDirectory!TypeOK
  <2>4. UserDirectory!LimiterStays'
    BY <2>1, <2>2, Zenon DEF UserDirectory!TypeOK, UserDirectory!LimiterStays
  <2>5. UserDirectory!SoFar'
    BY <2>1 DEF UserDirectory!SoFar, UserDirectory!Done, UserDirectory!Current
  <2> QED BY <2>3, <2>4, <2>5, Zenon
<1> QED BY <1>1, <1>2, <1>3, Zenon

\* Every step of reloads and sessions keeps the invariant.
LEMMA DirectoryInvariance ==
  ASSUME UserDirectory!IInv, [UserDirectory!Next]_(UserDirectory!vars)
  PROVE  UserDirectory!IInv'
<1>1. CASE UNCHANGED UserDirectory!vars
  <2>1. UserDirectory!TypeOK' /\ UserDirectory!LimiterStays'
    BY <1>1, Zenon
       DEF UserDirectory!IInv, UserDirectory!TypeOK, UserDirectory!LimiterStays, UserDirectory!vars
  <2>2. UserDirectory!SoFar'
    BY <1>1 DEF UserDirectory!IInv, UserDirectory!SoFar, UserDirectory!Done, UserDirectory!Current,
       UserDirectory!vars
  <2> QED BY <2>1, <2>2, Zenon DEF UserDirectory!IInv
<1> QED BY <1>1, DirectoryReload, DirectoryRegister, DirectorySession, Zenon DEF UserDirectory!Next

\* It holds at the start of the first load.
LEMMA DirectoryInit == UserDirectory!Init => UserDirectory!IInv
<1> SUFFICES ASSUME UserDirectory!Init PROVE UserDirectory!IInv
  BY Zenon
<1> USE NumberAssumption
<1>1. /\ cfg \in Configs /\ maps = UserDirectory!Empty /\ row = UserDirectory!First(cfg)
      /\ stage = "maps"
      /\ inbound = [i \in UserDirectory!Inbounds |-> <<>>]
      /\ limiter = [n \in UserDirectory!UserNames |-> 0] /\ made = <<>>
      /\ session = [s \in Sessions |-> UserDirectory!NoSession]
  BY Zenon DEF UserDirectory!Init
<1>2. UserDirectory!NoSession \in UserDirectory!Session /\ UserDirectory!NoSession.lim = 0
  BY DEF UserDirectory!NoSession, UserDirectory!Session
<1>3. made \in Seq(Nat) /\ Len(made) = 0
  BY <1>1
<1>4. UserDirectory!TypeOK
  BY <1>1, <1>2, DirectoryEmpty DEF UserDirectory!TypeOK
<1>5. UserDirectory!LimiterStays
  BY <1>1, <1>2 DEF UserDirectory!LimiterStays
<1>6. UserDirectory!Done = 0
  BY <1>1, DirectoryEmpty DEF UserDirectory!Done
<1>7. UserDirectory!LastStands(cfg, maps["password"], UserDirectory!Done)
  BY <1>6 DEF UserDirectory!LastStands
<1>8. /\ \A m \in UserDirectory!Maps, k \in UserDirectory!Keys : maps[m][k] = UserDirectory!Absent
      /\ \A k \in UserDirectory!Secrets : maps["password"][k] = maps["hash"][k]
  BY <1>1, DirectoryEmpty, Zenon
<1> QED BY <1>4, <1>5, <1>7, <1>8, Zenon DEF UserDirectory!IInv, UserDirectory!SoFar

\* The invariant gives what the directory promises.
LEMMA DirectorySafe ==
  UserDirectory!IInv
    => UserDirectory!LookupsAreCurrent /\ UserDirectory!OneLimiterPerUser
BY Zenon DEF UserDirectory!IInv, UserDirectory!TypeOK, UserDirectory!SoFar, UserDirectory!LimiterStays,
   UserDirectory!Done, UserDirectory!LookupsAreCurrent, UserDirectory!OneLimiterPerUser
-----------------------------------------------------------------------------
(* Counting and sequences.                                                 *)

\* A finite set that gains an element of a finite set counts one more.
LEMMA CountUp ==
  ASSUME NEW S, IsFiniteSet(S), NEW T \in SUBSET S, NEW c \in S \ T
  PROVE  /\ Cardinality(T) \in Nat /\ Cardinality(S) \in Nat
         /\ Cardinality(T \cup {c}) = Cardinality(T) + 1
         /\ Cardinality(T) < Cardinality(S)
<1>1. IsFiniteSet(T)
  BY FS_Subset, Zenon
<1>2. Cardinality(T) \in Nat /\ Cardinality(S) \in Nat
  BY <1>1, FS_CardinalityType, Zenon
<1>3. Cardinality(T \cup {c}) = Cardinality(T) + 1
  BY <1>1, FS_AddElement, Zenon
<1>4. Cardinality(T \cup {c}) <= Cardinality(S)
  <2>1. T \cup {c} \in SUBSET S
    BY Zenon
  <2> QED BY <2>1, FS_Subset, Zenon
<1> QED BY <1>2, <1>3, <1>4

\* A finite set that loses an element counts one less.
LEMMA CountDown ==
  ASSUME NEW S, IsFiniteSet(S), NEW T \in SUBSET S, NEW c \in T
  PROVE  /\ Cardinality(T) \in Nat /\ Cardinality(S) \in Nat /\ Cardinality(T) > 0
         /\ Cardinality(T \ {c}) = Cardinality(T) - 1
         /\ Cardinality(T) <= Cardinality(S)
<1>1. IsFiniteSet(T)
  BY FS_Subset, Zenon
<1>2. Cardinality(T) \in Nat /\ Cardinality(S) \in Nat /\ Cardinality(T) <= Cardinality(S)
  BY <1>1, FS_CardinalityType, FS_Subset, Zenon
<1>3. Cardinality(T \ {c}) = Cardinality(T) - 1
  BY <1>1, FS_RemoveElement, Zenon
<1>4. IsFiniteSet(T \ {c})
  BY <1>1, FS_Subset, Zenon
<1>5. Cardinality(T \ {c}) \in Nat
  BY <1>4, FS_CardinalityType, Zenon
<1> QED BY <1>2, <1>3, <1>5

\* Counting the first n numbers, and what is left when some of a set are taken.
LEMMA CountFirst ==
  ASSUME NEW n \in Nat PROVE IsFiniteSet(1..n) /\ Cardinality(1..n) = n
BY FS_Interval

LEMMA CountLess ==
  ASSUME NEW S, IsFiniteSet(S), NEW T \in SUBSET S
  PROVE  /\ Cardinality(S) \in Nat /\ Cardinality(T) \in Nat
         /\ Cardinality(S \ T) = Cardinality(S) - Cardinality(T)
<1>1. S \cap T = T
  BY Zenon
<1> QED BY <1>1, FS_Difference, FS_CardinalityType, FS_Subset, ZenonT(30)
-----------------------------------------------------------------------------
(* The sessions of a user: slots and quota.                                 *)

UserSessions == INSTANCE UserSessions

\* The component counts as this module does.
LEMMA UserSessionsCount == \A S : UserSessions!Cardinality(S) = Cardinality(S)
BY Zenon DEF UserSessions!Cardinality, Cardinality, UserSessions!IsFiniteSet, IsFiniteSet

\* No more can be pending than every half of every session reads at once.
LEMMA UserPendingFits ==
  /\ IsFiniteSet(UserSessions!Places)
  /\ Cardinality(UserSessions!Places) = 2 * Cardinality(Sessions) * MaxChunk
  /\ Cardinality(UserSessions!Places) \in Nat
<1>1. IsFiniteSet(UserSessions!Halves) /\ Cardinality(UserSessions!Halves) = 2
  <2>1. IsFiniteSet({"up"}) /\ Cardinality({"up"}) = 1
    BY FS_Singleton, Zenon
  <2>2. IsFiniteSet({"up"} \cup {"down"}) /\ Cardinality({"up"} \cup {"down"}) = 2
    BY <2>1, FS_AddElement
  <2>3. {"up"} \cup {"down"} = UserSessions!Halves
    BY Zenon DEF UserSessions!Halves
  <2> QED BY <2>2, <2>3, Zenon
<1>2. IsFiniteSet(1..MaxChunk) /\ Cardinality(1..MaxChunk) = MaxChunk
  BY CountFirst, NumberAssumption, Zenon
<1>3. /\ IsFiniteSet(Sessions \X UserSessions!Halves) /\ Cardinality(Sessions) \in Nat
      /\ Cardinality(Sessions \X UserSessions!Halves) = Cardinality(Sessions) * 2
  BY <1>1, FS_Product, FiniteAssumption, FS_CardinalityType, Zenon
<1> DEFINE E == Sessions \X UserSessions!Halves
           C == 1..MaxChunk
<1> HIDE DEF E, C
<1>4. IsFiniteSet(E \X C) /\ Cardinality(E \X C) = Cardinality(E) * Cardinality(C)
  BY <1>2, <1>3, FS_Product, Zenon DEF E, C
<1>5. /\ IsFiniteSet(UserSessions!Places)
      /\ Cardinality(UserSessions!Places) = (Cardinality(Sessions) * 2) * MaxChunk
  BY <1>2, <1>3, <1>4, Zenon DEF UserSessions!Places, E, C
<1> QED BY <1>3, <1>5, NumberAssumption

\* Pending bytes are finitely many: no more than all buffers hold.
LEMMA UserPendingType ==
  ASSUME NEW P \in SUBSET UserSessions!Places
  PROVE  /\ IsFiniteSet(P) /\ Cardinality(P) \in Nat
         /\ Cardinality(P) <= 2 * Cardinality(Sessions) * MaxChunk
BY UserPendingFits, FS_Subset, FS_CardinalityType, Zenon

\* Pending bytes are places of the sessions' buffers.
LEMMA UserPendingPlaces ==
  /\ UserSessions!Pending \in SUBSET UserSessions!Places
  /\ UserSessions!Pending' \in SUBSET UserSessions!Places
BY Zenon DEF UserSessions!Pending, UserSessions!Places

\* The counted traffic is a number.
LEMMA UserTotalType == UserSessions!TypeOK => UserSessions!Total \in Nat
BY DEF UserSessions!TypeOK, UserSessions!Total, UserSessions!Halves

\* A step that carries no more keeps the bound.
LEMMA UserNoMore ==
  ASSUME UserSessions!TypeOK, UserSessions!TypeOK', UserSessions!QuotaOverrunBounded,
         UserSessions!Carried' <= UserSessions!Carried
  PROVE  UserSessions!QuotaOverrunBounded'
<1>1. Cardinality(UserSessions!Pending') \in Nat /\ UserSessions!Total' \in Nat
  BY UserPendingPlaces, UserPendingType DEF UserSessions!TypeOK, UserSessions!Total, UserSessions!Halves
<1>2. Cardinality(UserSessions!Pending) \in Nat /\ UserSessions!Total \in Nat
  BY UserPendingPlaces, UserPendingType, UserTotalType, Zenon
<1>3. Cardinality(Sessions) \in Nat
  BY FiniteAssumption, FS_CardinalityType, Zenon
<1> DEFINE b == 2 * Cardinality(Sessions) * MaxChunk
<1>4. b \in Nat
  BY <1>3, NumberAssumption
<1> HIDE DEF b
<1> SUFFICES (UserSessions!Carried > 0 => UserSessions!Carried <= MaxTraffic - 1 + b)
      => (UserSessions!Carried' > 0 => UserSessions!Carried' <= MaxTraffic - 1 + b)
  BY UserSessionsCount, Zenon DEF UserSessions!QuotaOverrunBounded, b
<1> QED BY <1>1, <1>2, <1>4, NumberAssumption, UserSessionsCount DEF UserSessions!Carried

\* A step that leaves what was read and counted alone.
LEMMA UserCountsKept ==
  ASSUME UserSessions!TypeOK, UserSessions!TypeOK', UserSessions!QuotaOverrunBounded,
         UserSessions!Pending' = UserSessions!Pending, used' = used
  PROVE  UserSessions!QuotaOverrunBounded'
BY UserPendingPlaces, UserPendingType, UserTotalType, UserNoMore, UserSessionsCount
   DEF UserSessions!Carried, UserSessions!Total

\* The step counts what it takes from the pending bytes.
LEMMA UserRecord ==
  ASSUME UserSessions!IInv, NEW s \in Sessions, NEW h \in UserSessions!Halves,
         UserSessions!Record(s, h)
  PROVE  UserSessions!IInv'
<1> USE DEF UserSessions!IInv
<1>1. chunk[s][h] \in 1..MaxChunk /\ chunk[s][h] \in Nat /\ MaxChunk \in Nat
  BY NumberAssumption DEF UserSessions!TypeOK, UserSessions!Record, UserSessions!Chunks
<1>2. /\ chunk' = [chunk EXCEPT ![s][h] = 0]
      /\ UNCHANGED <<registered, reloads, active, tracked, pc, known>>
      /\ used' = IF known[s] THEN [used EXCEPT ![h] = @ + chunk[s][h]] ELSE used
      /\ pc[s] = "relay"
  BY Zenon DEF UserSessions!Record
<1>3. UserSessions!TypeOK'
  BY <1>1, <1>2 DEF UserSessions!TypeOK, UserSessions!Chunks
<1>4. UserSessions!SlotsBalanced' /\ UserSessions!OnlyRelaysRead'
  BY <1>2, UserSessionsCount, Zenon DEF UserSessions!Relaying, UserSessions!SlotsBalanced,
     UserSessions!TypeOK, UserSessions!OnlyRelaysRead, UserSessions!Quiet
<1>5. \A t \in Sessions, g \in UserSessions!Halves :
        chunk'[t][g] = IF t = s /\ g = h THEN 0 ELSE chunk[t][g]
  BY <1>2, Zenon DEF UserSessions!TypeOK
<1>6. CASE known[s]
  <2> DEFINE B == {<<s, h>>} \X (1..chunk[s][h])
  <2>1. IsFiniteSet(B) /\ Cardinality(B) = chunk[s][h]
    <3>1. IsFiniteSet({<<s, h>>}) /\ Cardinality({<<s, h>>}) = 1
      BY FS_Singleton, Zenon
    <3>2. IsFiniteSet(1..chunk[s][h]) /\ Cardinality(1..chunk[s][h]) = chunk[s][h]
      BY <1>1, CountFirst, Zenon
    <3>3. IsFiniteSet(B) /\ Cardinality(B) = 1 * chunk[s][h]
      BY <3>1, <3>2, FS_Product, ZenonT(30)
    <3> QED BY <3>3, <1>1
  <2>2. B \subseteq UserSessions!Places
    BY <1>1 DEF UserSessions!Places
  <2>3. B \subseteq UserSessions!Pending
    BY <1>6, <2>2 DEF UserSessions!Pending
  <2>4. UserSessions!Pending' = UserSessions!Pending \ B
    BY <1>2, <1>5 DEF UserSessions!Places, UserSessions!Pending
  <2> HIDE DEF B
  <2>5. IsFiniteSet(UserSessions!Pending) /\ Cardinality(UserSessions!Pending) \in Nat
    BY UserPendingPlaces, UserPendingType, Zenon
  <2>6. Cardinality(UserSessions!Pending') = Cardinality(UserSessions!Pending) - chunk[s][h]
    BY <2>1, <2>3, <2>4, <2>5, CountLess, Zenon
  <2>7. UserSessions!Total' = UserSessions!Total + chunk[s][h]
    BY <1>1, <1>2, <1>6 DEF UserSessions!TypeOK, UserSessions!Total, UserSessions!Halves
  <2>8. UserSessions!Carried' <= UserSessions!Carried
    BY <2>5, <2>6, <2>7, <1>1, UserTotalType, UserSessionsCount DEF UserSessions!Carried
  <2> QED BY <1>3, <1>4, <2>8, UserNoMore, Zenon
<1>7. CASE ~known[s]
  BY <1>2, <1>7, <1>3, <1>4, UserCountsKept DEF UserSessions!Pending, UserSessions!Places
<1> QED BY <1>6, <1>7, Zenon

\* A half reads while the quota is not used up, so the bytes that are counted
\* are below it, and those that are not are one chunk of every half.
LEMMA UserRead ==
  ASSUME UserSessions!IInv, NEW s \in Sessions, NEW h \in UserSessions!Halves,
         UserSessions!Read(s, h)
  PROVE  UserSessions!IInv'
<1> USE DEF UserSessions!IInv
<1>1. PICK n \in UserSessions!Chunks : chunk' = [chunk EXCEPT ![s][h] = n]
  BY Zenon DEF UserSessions!Read
<1>2. /\ UNCHANGED <<registered, reloads, active, used, tracked, pc, known>>
      /\ UserSessions!WithinQuota(s) /\ pc[s] = "relay"
  BY Zenon DEF UserSessions!Read
<1>3. UserSessions!TypeOK'
  BY <1>1, <1>2, Zenon DEF UserSessions!TypeOK
<1>4. UserSessions!Relaying' = UserSessions!Relaying
  BY <1>2, Zenon DEF UserSessions!Relaying
<1>5. UserSessions!SlotsBalanced' /\ UserSessions!OnlyRelaysRead'
  BY <1>1, <1>2, <1>4, UserSessionsCount, Zenon DEF UserSessions!TypeOK, UserSessions!SlotsBalanced,
     UserSessions!OnlyRelaysRead, UserSessions!Quiet
<1>6. CASE known[s]
  <2>1. UserSessions!Total < MaxTraffic /\ UserSessions!Total' = UserSessions!Total
    BY <1>2, <1>6, Zenon DEF UserSessions!WithinQuota, UserSessions!Total
  <2>2. Cardinality(Sessions) \in Nat
    BY FiniteAssumption, FS_CardinalityType, Zenon
  <2> DEFINE b == 2 * Cardinality(Sessions) * MaxChunk
  <2>3. Cardinality(UserSessions!Pending') \in Nat /\ Cardinality(UserSessions!Pending') <= b
    BY UserPendingPlaces, UserPendingType, Zenon
  <2>4. b \in Nat
    BY <2>2, NumberAssumption
  <2> HIDE DEF b
  <2>5. UserSessions!Carried' <= MaxTraffic - 1 + b
    BY <2>1, <2>3, <2>4, NumberAssumption, UserTotalType, UserSessionsCount DEF UserSessions!Carried
  <2> QED BY <1>3, <1>5, <2>5, UserSessionsCount, Zenon DEF UserSessions!QuotaOverrunBounded, b
<1>7. CASE ~known[s]
  BY <1>1, <1>2, <1>7, <1>5, UserCountsKept, Zenon
     DEF UserSessions!TypeOK, UserSessions!Pending, UserSessions!Places
<1> QED BY <1>6, <1>7, Zenon

\* A relay takes one slot ...
LEMMA UserBegin ==
  ASSUME UserSessions!IInv, NEW s \in Sessions, UserSessions!Begin(s)
  PROVE  UserSessions!IInv'
<1> USE DEF UserSessions!IInv
<1>1. UserSessions!Pending' = UserSessions!Pending /\ used' = used
  BY Zenon DEF UserSessions!Begin, UserSessions!Pending
<1>2. UserSessions!OnlyRelaysRead'
  BY Zenon DEF UserSessions!TypeOK, UserSessions!OnlyRelaysRead, UserSessions!Begin, UserSessions!Goto,
     UserSessions!Quiet
<1>3. UserSessions!TypeOK'
  BY DEF UserSessions!TypeOK, UserSessions!Begin, UserSessions!Goto
<1>4. UserSessions!SlotsBalanced'
  <2>1. tracked' = {t \in Sessions : pc'[t] = "relay"}
    BY UserSessionsCount, Zenon
       DEF UserSessions!TypeOK, UserSessions!SlotsBalanced, UserSessions!Begin, UserSessions!Goto
  <2>2. CASE known[s]
    <3>1. /\ UserSessions!Relaying' = UserSessions!Relaying \cup {s}
          /\ s \in Sessions \ UserSessions!Relaying /\ UserSessions!Relaying \in SUBSET Sessions
      BY <2>2, Zenon
         DEF UserSessions!TypeOK, UserSessions!Begin, UserSessions!Goto, UserSessions!Relaying
    <3>2. active' = active + 1 /\ active = Cardinality(UserSessions!Relaying)
      BY <2>2, UserSessionsCount, Zenon DEF UserSessions!Begin, UserSessions!SlotsBalanced
    <3>3. active' = Cardinality(UserSessions!Relaying')
      BY <3>1, <3>2, CountUp, FiniteAssumption, Zenon
    <3> QED BY <2>1, <3>3, UserSessionsCount, Zenon DEF UserSessions!SlotsBalanced
  <2>3. CASE ~known[s]
    <3>1. UserSessions!Relaying' = UserSessions!Relaying /\ active' = active
      BY <2>3, Zenon
         DEF UserSessions!TypeOK, UserSessions!Begin, UserSessions!Goto, UserSessions!Relaying
    <3> QED BY <2>1, <3>1, UserSessionsCount, Zenon DEF UserSessions!SlotsBalanced
  <2> QED BY <2>2, <2>3, Zenon
<1> QED BY <1>1, <1>2, <1>3, <1>4, UserCountsKept, Zenon

\* ... and gives it back; what it read and did not write is not counted.
LEMMA UserEnd ==
  ASSUME UserSessions!IInv, NEW s \in Sessions, UserSessions!End(s)
  PROVE  UserSessions!IInv'
<1> USE DEF UserSessions!IInv
<1>1. /\ chunk' = [chunk EXCEPT ![s] = UserSessions!Quiet] /\ pc' = [pc EXCEPT ![s] = "done"]
      /\ pc[s] = "relay"
      /\ UNCHANGED <<registered, reloads, used, known>> /\ tracked' = tracked \ {s}
      /\ active' = IF known[s] THEN active - 1 ELSE active
  BY Zenon DEF UserSessions!End, UserSessions!Goto
<1>2. UserSessions!OnlyRelaysRead'
  BY <1>1, Zenon DEF UserSessions!TypeOK, UserSessions!OnlyRelaysRead
<1>3. UserSessions!SlotsBalanced' /\ active' \in Nat
  <2>1. tracked' = {t \in Sessions : pc'[t] = "relay"}
    BY <1>1, UserSessionsCount, Zenon DEF UserSessions!TypeOK, UserSessions!SlotsBalanced
  <2>2. CASE known[s]
    <3>1. /\ UserSessions!Relaying' = UserSessions!Relaying \ {s} /\ s \in UserSessions!Relaying
          /\ UserSessions!Relaying \in SUBSET Sessions
      BY <1>1, <2>2, Zenon DEF UserSessions!TypeOK, UserSessions!Relaying
    <3>2. active' = active - 1 /\ active = Cardinality(UserSessions!Relaying)
      BY <1>1, <2>2, UserSessionsCount, Zenon DEF UserSessions!SlotsBalanced
    <3>3. active' = Cardinality(UserSessions!Relaying') /\ active' \in Nat
      BY <3>1, <3>2, CountDown, FiniteAssumption
    <3> QED BY <2>1, <3>3, UserSessionsCount, Zenon DEF UserSessions!SlotsBalanced
  <2>3. CASE ~known[s]
    <3>1. UserSessions!Relaying' = UserSessions!Relaying /\ active' = active
      BY <1>1, <2>3, Zenon DEF UserSessions!TypeOK, UserSessions!Relaying
    <3> QED BY <2>1, <3>1, UserSessionsCount, Zenon DEF UserSessions!TypeOK, UserSessions!SlotsBalanced
  <2> QED BY <2>2, <2>3, Zenon
<1>4. UserSessions!TypeOK'
  BY NumberAssumption, <1>1, <1>3 DEF UserSessions!Quiet, UserSessions!Chunks, UserSessions!TypeOK
<1>5. UserSessions!Pending' \subseteq UserSessions!Pending
  BY <1>1 DEF UserSessions!Pending, UserSessions!Places, UserSessions!TypeOK, UserSessions!Quiet
<1>6. Cardinality(UserSessions!Pending') <= Cardinality(UserSessions!Pending)
  BY <1>5, UserPendingPlaces, UserPendingType, FS_Subset, Zenon
<1>7. UserSessions!Total' = UserSessions!Total
  BY <1>1, Zenon DEF UserSessions!Total
<1>8. Cardinality(UserSessions!Pending') \in Nat /\ Cardinality(UserSessions!Pending) \in Nat
  BY UserPendingPlaces, UserPendingType, Zenon
<1>9. UserSessions!Carried' <= UserSessions!Carried
  BY <1>6, <1>7, <1>8, UserTotalType, UserSessionsCount DEF UserSessions!Carried
<1> QED BY <1>2, <1>3, <1>4, <1>9, UserNoMore, Zenon

\* A session that does not relay yet has read nothing, whoever it is found to be.
LEMMA UserAdmission ==
  ASSUME UserSessions!IInv, NEW s \in Sessions,
         UserSessions!Lookup(s) \/ UserSessions!CheckSlots(s) \/ UserSessions!CheckQuota(s)
  PROVE  UserSessions!IInv'
<1> USE DEF UserSessions!IInv
<1>1. /\ UNCHANGED <<registered, reloads, active, used, tracked, chunk>> /\ pc[s] # "relay"
      /\ \E to \in {"slots", "done", "quota", "begin"} : pc' = [pc EXCEPT ![s] = to]
      /\ \A t \in Sessions \ {s} : known'[t] = known[t]
      /\ known' \in [Sessions -> BOOLEAN]
  BY Zenon
     DEF UserSessions!TypeOK, UserSessions!Lookup, UserSessions!CheckSlots, UserSessions!CheckQuota,
     UserSessions!Goto
<1>2. UserSessions!TypeOK' /\ UserSessions!OnlyRelaysRead'
  BY <1>1, Zenon DEF UserSessions!TypeOK, UserSessions!OnlyRelaysRead
<1>3. \A t \in Sessions : pc'[t] = "relay" <=> pc[t] = "relay"
  BY <1>1, Zenon DEF UserSessions!TypeOK
<1>4. /\ UserSessions!Relaying' = UserSessions!Relaying
      /\ tracked' = {t \in Sessions : pc'[t] = "relay"}
  BY <1>1, UserSessionsCount DEF UserSessions!Relaying, UserSessions!SlotsBalanced
<1>5. UserSessions!SlotsBalanced'
  BY <1>1, <1>4, UserSessionsCount, Zenon DEF UserSessions!SlotsBalanced
<1>6. chunk[s] = UserSessions!Quiet
  BY <1>1, Zenon DEF UserSessions!OnlyRelaysRead
<1>7. UserSessions!Pending' = UserSessions!Pending
  BY <1>1, <1>6 DEF UserSessions!Places, UserSessions!Pending, UserSessions!Quiet
<1> QED BY <1>1, <1>2, <1>5, <1>7, UserCountsKept, Zenon

\* Every step of the sessions, reloads and queries keeps the invariant.
LEMMA UserInvariance ==
  ASSUME UserSessions!IInv, [UserSessions!Next]_(UserSessions!vars)
  PROVE  UserSessions!IInv'
<1> USE DEF UserSessions!IInv
<1>1. CASE UserSessions!ReloadClear \/ UserSessions!ReloadIngest \/ UNCHANGED UserSessions!vars
  <2>1. UserSessions!TypeOK'
    <3>1. registered' \in BOOLEAN
      BY <1>1, Zenon DEF UserSessions!TypeOK, UserSessions!ReloadClear, UserSessions!ReloadIngest,
         UserSessions!vars
    <3>2. reloads' \in 0..MaxReloads
      BY <1>1, NumberAssumption DEF UserSessions!TypeOK, UserSessions!ReloadClear,
         UserSessions!ReloadIngest, UserSessions!vars
    <3> QED BY <1>1, <3>1, <3>2, Zenon DEF UserSessions!TypeOK, UserSessions!ReloadClear,
               UserSessions!ReloadIngest, UserSessions!vars
  <2>2. UNCHANGED <<active, used, tracked, pc, known, chunk>>
    BY <1>1, Zenon DEF UserSessions!ReloadClear, UserSessions!ReloadIngest, UserSessions!vars
  <2>3. /\ UserSessions!Relaying' = UserSessions!Relaying
        /\ UserSessions!Pending' = UserSessions!Pending
    BY <2>2, Zenon DEF UserSessions!Relaying, UserSessions!Pending
  <2> QED BY <2>1, <2>2, <2>3, UserCountsKept, UserSessionsCount, Zenon
             DEF UserSessions!SlotsBalanced, UserSessions!OnlyRelaysRead
<1>2. ASSUME NEW h \in UserSessions!Halves, UserSessions!ResetStat(h) PROVE UserSessions!IInv'
  BY <1>2, UserPendingType, UserNoMore, UserSessionsCount DEF UserSessions!TypeOK,
     UserSessions!ResetStat, UserSessions!Total, UserSessions!Halves, UserSessions!Relaying,
     UserSessions!Pending, UserSessions!Carried, UserSessions!SlotsBalanced, UserSessions!OnlyRelaysRead
<1> QED BY <1>1, <1>2, UserAdmission, UserBegin, UserRead, UserRecord, UserEnd, Zenon
           DEF UserSessions!Next, UserSessions!Session

\* It holds before the first session.
LEMMA UserInit == UserSessions!Init => UserSessions!IInv
<1> SUFFICES ASSUME UserSessions!Init PROVE UserSessions!IInv
  BY Zenon
<1>1. UserSessions!TypeOK /\ UserSessions!OnlyRelaysRead
  BY NumberAssumption DEF UserSessions!Init, UserSessions!TypeOK, UserSessions!OnlyRelaysRead,
     UserSessions!Quiet, UserSessions!Chunks
<1>2. UserSessions!Relaying = {} /\ UserSessions!Pending = {}
  BY Zenon DEF UserSessions!Init, UserSessions!Relaying, UserSessions!Pending, UserSessions!Places
<1>3. Cardinality(UserSessions!Relaying) = 0 /\ Cardinality(UserSessions!Pending) = 0
  BY <1>2, FS_EmptySet, Zenon
<1>4. UserSessions!SlotsBalanced
  BY <1>3, UserSessionsCount, Zenon DEF UserSessions!Init, UserSessions!SlotsBalanced
<1>5. UserSessions!Carried = 0
  BY <1>3, UserSessionsCount DEF UserSessions!Init, UserSessions!Carried, UserSessions!Total,
     UserSessions!Quiet, UserSessions!Halves
<1> QED BY <1>1, <1>4, <1>5, UserSessionsCount DEF UserSessions!IInv, UserSessions!QuotaOverrunBounded
-----------------------------------------------------------------------------
(* The traffic counters and the queries that reset them.                    *)

TrafficCounters == INSTANCE TrafficCounters

\* The component counts as this module does.
LEMMA TrafficCountersCount == \A S : TrafficCounters!Cardinality(S) = Cardinality(S)
BY Zenon DEF TrafficCounters!Cardinality, Cardinality, TrafficCounters!IsFiniteSet, IsFiniteSet

\* The counters are five, in the order of record_traffic; four are listed.
LEMMA CountersAre ==
  /\ TrafficCounters!Names = {"global", "outbound", "inbound", "user", "runtime"}
  /\ TrafficCounters!Reported = {"global", "inbound", "outbound", "user"}
  /\ TrafficCounters!Counters[1] = "global" /\ TrafficCounters!Counters[2] = "outbound"
  /\ TrafficCounters!Counters[3] = "inbound"
  /\ TrafficCounters!Counters[4] = "user" /\ TrafficCounters!Counters[5] = "runtime"
  /\ TrafficCounters!Listed[1] = "global" /\ TrafficCounters!Listed[2] = "inbound"
  /\ TrafficCounters!Listed[3] = "outbound" /\ TrafficCounters!Listed[4] = "user"
BY DEF TrafficCounters!Counters, TrafficCounters!Listed, TrafficCounters!Names, TrafficCounters!Reported

\* The counters are five different ones.
LEMMA CountersDiffer ==
  /\ \A i \in 1..5 : TrafficCounters!Counters[i] \in TrafficCounters!Names
  /\ \A i, j \in 1..5 : TrafficCounters!Counters[i] = TrafficCounters!Counters[j] => i = j
BY CountersAre

\* A query lists each counter once.
LEMMA ListedDiffer ==
  /\ \A i \in 1..4 :
       TrafficCounters!Listed[i] \in TrafficCounters!Reported
         /\ TrafficCounters!Listed[i] \in TrafficCounters!Names
  /\ \A i, j \in 1..4 : TrafficCounters!Listed[i] = TrafficCounters!Listed[j] => i = j
  /\ \A n \in TrafficCounters!Reported : n \in TrafficCounters!Names
BY CountersAre

\* Adding to a counter takes the relay from one place to the next.
LEMMA TrafficAdd ==
  ASSUME TrafficCounters!IInv, NEW r \in Relays, TrafficCounters!Add(r)
  PROVE  TrafficCounters!IInv'
<1> USE NumberAssumption DEF TrafficCounters!IInv
<1> DEFINE k == step[r] + 1
           n == TrafficCounters!Counters[k]
<1>1. k \in 1..5 /\ n \in TrafficCounters!Names
  BY CountersDiffer DEF TrafficCounters!TypeOK
<1>2. /\ k = 1 => records < MaxRecords
      /\ records' = IF k = 1 THEN records + 1 ELSE records
      /\ count' = [count EXCEPT ![n] = @ + 1] /\ added' = [added EXCEPT ![n] = @ + 1]
      /\ step' = [step EXCEPT ![r] = (@ + 1) % 5]
      /\ UNCHANGED <<q, at, match, resets, queries, seen, billed, ever>>
  BY DEF TrafficCounters!TypeOK, TrafficCounters!Add, TrafficCounters!query
<1>3. /\ step' \in [Relays -> 0..4] /\ step'[r] = (IF k = 5 THEN 0 ELSE k)
      /\ \A s \in Relays \ {r} : step'[s] = step[s]
  BY <1>2 DEF TrafficCounters!TypeOK
<1>4. \A i \in 1..4 : /\ TrafficCounters!Between(i) \in SUBSET Relays
                      /\ Cardinality(TrafficCounters!Between(i)) \in Nat
                      /\ i = step[r]
                           => Cardinality(TrafficCounters!Between(i)') = Cardinality(TrafficCounters!Between(i)) - 1 /\ Cardinality(TrafficCounters!Between(i)) > 0
                      /\ i = k
                           => Cardinality(TrafficCounters!Between(i)') = Cardinality(TrafficCounters!Between(i)) + 1
                      /\ i \notin {step[r], k}
                           => Cardinality(TrafficCounters!Between(i)') = Cardinality(TrafficCounters!Between(i))
  <2> TAKE i \in 1..4
  <2>1. TrafficCounters!Between(i) \in SUBSET Relays
    BY Zenon DEF TrafficCounters!Between
  <2>2. Cardinality(TrafficCounters!Between(i)) \in Nat
    BY <2>1, FiniteAssumption, FS_Subset, FS_CardinalityType, Zenon
  <2>3. ASSUME i = step[r]
        PROVE  /\ Cardinality(TrafficCounters!Between(i)') = Cardinality(TrafficCounters!Between(i)) - 1
               /\ Cardinality(TrafficCounters!Between(i)) > 0
    <3>1. /\ TrafficCounters!Between(i)' = TrafficCounters!Between(i) \ {r}
          /\ r \in TrafficCounters!Between(i)
      BY <1>3, <2>3 DEF TrafficCounters!Between
    <3> HIDE DEF k
    <3> QED BY <2>1, <3>1, FiniteAssumption, CountDown, Zenon
  <2>4. ASSUME i = k
        PROVE  Cardinality(TrafficCounters!Between(i)') = Cardinality(TrafficCounters!Between(i)) + 1
    <3>1. /\ TrafficCounters!Between(i)' = TrafficCounters!Between(i) \cup {r}
          /\ r \in Relays \ TrafficCounters!Between(i)
      BY <1>3, <2>4 DEF TrafficCounters!Between, TrafficCounters!TypeOK
    <3> HIDE DEF k
    <3> QED BY <2>1, <3>1, FiniteAssumption, CountUp, Zenon
  <2>5. ASSUME i \notin {step[r], k} PROVE TrafficCounters!Between(i)' = TrafficCounters!Between(i)
    BY <1>3, <2>5 DEF TrafficCounters!Between
  <2> QED BY <2>1, <2>2, <2>3, <2>4, <2>5, Zenon
<1>5. added \in [TrafficCounters!Names -> Nat] /\ count \in [TrafficCounters!Names -> Nat]
  BY DEF TrafficCounters!TypeOK
<1>6. /\ added' \in [TrafficCounters!Names -> Nat] /\ count' \in [TrafficCounters!Names -> Nat]
      /\ added'[n] = added[n] + 1 /\ count'[n] = count[n] + 1
      /\ \A m \in TrafficCounters!Names \ {n} : added'[m] = added[m] /\ count'[m] = count[m]
  BY <1>1, <1>2, <1>5
<1>7. \A i \in 1..5 :
        added'[TrafficCounters!Counters[i]] = added[TrafficCounters!Counters[i]] + IF i = k THEN 1 ELSE 0
  BY <1>1, <1>6, CountersDiffer
<1>8. records' = added'["global"]
  BY <1>2, CountersAre, TrafficCountersCount DEF TrafficCounters!TypeOK, TrafficCounters!AddedInOrder
<1>9. ASSUME NEW i \in 1..4
      PROVE  added'[TrafficCounters!Counters[i]] = added'[TrafficCounters!Counters[i + 1]] + Cardinality(TrafficCounters!Between(i)')
  BY CountersDiffer, <1>7, <1>4, TrafficCountersCount
     DEF TrafficCounters!AddedInOrder, TrafficCounters!TypeOK
<1>10. TrafficCounters!AddedInOrder'
  BY <1>8, <1>9, TrafficCountersCount, Zenon DEF TrafficCounters!AddedInOrder
<1>11. records' \in 0..MaxRecords
  BY <1>2 DEF TrafficCounters!TypeOK
<1>12. added' \in [TrafficCounters!Names -> 0..MaxRecords]
  <2>1. \A i \in 1..4 : added'[TrafficCounters!Counters[i + 1]] <= added'[TrafficCounters!Counters[i]]
    <3> TAKE i \in 1..4
    <3>1. Cardinality(TrafficCounters!Between(i)') \in Nat
      BY FiniteAssumption, FS_Subset, FS_CardinalityType, Zenon DEF TrafficCounters!Between
    <3>2. added'[TrafficCounters!Counters[i + 1]] \in Nat
      BY <1>6, CountersDiffer
    <3> QED BY <1>9, <3>1, <3>2
  <2>2. /\ added'[TrafficCounters!Counters[2]] <= added'[TrafficCounters!Counters[1]]
        /\ added'[TrafficCounters!Counters[3]] <= added'[TrafficCounters!Counters[2]]
        /\ added'[TrafficCounters!Counters[4]] <= added'[TrafficCounters!Counters[3]]
        /\ added'[TrafficCounters!Counters[5]] <= added'[TrafficCounters!Counters[4]]
    BY <2>1
  <2>3. added'["global"] <= MaxRecords
    BY <1>8, <1>11
  <2>4. \A m \in TrafficCounters!Names : added'[m] \in Nat
    BY <1>6, Zenon
  <2>5. \A m \in TrafficCounters!Names : added'[m] <= MaxRecords
    BY <2>2, <2>3, <2>4, CountersAre
  <2> QED BY <1>6, <2>5
<1>13. TrafficCounters!ShowsWhatWasAdded'
  BY <1>2, <1>5 DEF TrafficCounters!ShowsWhatWasAdded
<1>14. count' \in [TrafficCounters!Names -> 0..MaxRecords]
  BY <1>6, <1>12, <1>13 DEF TrafficCounters!ShowsWhatWasAdded
<1>15. TrafficCounters!TypeOK'
  BY <1>2, <1>12, <1>14 DEF TrafficCounters!TypeOK
<1>16. TrafficCounters!BilledOnce'
  <2>1. /\ TrafficCounters!ToReset' = TrafficCounters!ToReset
        /\ TrafficCounters!ToReset \subseteq TrafficCounters!Reported
        /\ UNCHANGED <<q, seen, billed>>
    BY <1>2, Zenon DEF TrafficCounters!ToReset, TrafficCounters!TypeOK
  <2> QED BY <1>2, <2>1 DEF TrafficCounters!TypeOK, TrafficCounters!BilledOnce
<1> QED BY <1>10, <1>13, <1>15, <1>16, Zenon

\* A query reads a counter no higher than it stands, and bills what it read
\* before it clears.
LEMMA TrafficQuery ==
  ASSUME TrafficCounters!IInv,
         TrafficCounters!BeginQuery \/ TrafficCounters!ReadEntry \/ TrafficCounters!EndRead
  PROVE  TrafficCounters!IInv'
<1> USE NumberAssumption, ListedDiffer DEF TrafficCounters!IInv
<1>1. UNCHANGED <<count, step, records, added>>
  BY Zenon DEF TrafficCounters!BeginQuery, TrafficCounters!ReadEntry, TrafficCounters!EndRead
<1>2. TrafficCounters!AddedInOrder'
  BY <1>1, TrafficCountersCount, Zenon DEF TrafficCounters!AddedInOrder, TrafficCounters!Between
<1>3. \A m \in TrafficCounters!Reported :
        count[m] \in Nat /\ added[m] \in Nat /\ billed[m] \in Nat /\ seen[m] \in Nat
  BY DEF TrafficCounters!TypeOK
<1>4. CASE TrafficCounters!BeginQuery
  BY <1>4, CountersAre, <1>2 DEF TrafficCounters!TypeOK, TrafficCounters!BeginQuery,
     TrafficCounters!Zero, TrafficCounters!ShowsWhatWasAdded, TrafficCounters!BilledOnce,
     TrafficCounters!ToReset
<1>5. CASE TrafficCounters!ReadEntry
  BY <1>5, <1>2 DEF TrafficCounters!TypeOK, TrafficCounters!ReadEntry,
     TrafficCounters!ShowsWhatWasAdded, TrafficCounters!BilledOnce, TrafficCounters!ToReset
<1>6. CASE TrafficCounters!EndRead
  <2>1. TrafficCounters!TypeOK' /\ TrafficCounters!ShowsWhatWasAdded'
    BY <1>6, <1>2 DEF TrafficCounters!TypeOK, TrafficCounters!EndRead, TrafficCounters!ShowsWhatWasAdded
  <2>2. TrafficCounters!ToReset = {} /\ TrafficCounters!ToReset' = IF resets THEN match ELSE {}
    BY <1>6 DEF TrafficCounters!EndRead, TrafficCounters!TypeOK, TrafficCounters!ToReset,
       TrafficCounters!Reported
  <2>3. TrafficCounters!BilledOnce'
    BY <1>3, <1>6, <2>2 DEF TrafficCounters!TypeOK, TrafficCounters!EndRead,
       TrafficCounters!BilledOnce, TrafficCounters!Reported
  <2> QED BY <1>2, <2>1, <2>3, Zenon
<1> QED BY <1>4, <1>5, <1>6, Zenon

\* Clearing a counter loses what came after the read, and bills nothing again.
LEMMA TrafficReset ==
  ASSUME TrafficCounters!IInv, TrafficCounters!ResetEntry \/ TrafficCounters!EndReset
  PROVE  TrafficCounters!IInv'
<1> USE NumberAssumption, ListedDiffer DEF TrafficCounters!IInv
<1>1. /\ UNCHANGED <<step, records, added, match, resets, queries, seen, billed, ever>>
      /\ q = "reset" /\ ever
  BY Zenon DEF TrafficCounters!ResetEntry, TrafficCounters!EndReset, TrafficCounters!TypeOK,
     TrafficCounters!ShowsWhatWasAdded
<1>2. TrafficCounters!AddedInOrder'
  BY <1>1, TrafficCountersCount, Zenon DEF TrafficCounters!AddedInOrder, TrafficCounters!Between
<1>3. \A m \in TrafficCounters!Reported :
        count[m] \in Nat /\ added[m] \in Nat /\ billed[m] \in Nat /\ seen[m] \in Nat
  BY DEF TrafficCounters!TypeOK
<1>4. CASE TrafficCounters!ResetEntry
  <2>1. \A m \in TrafficCounters!Names : count'[m] \in {count[m], 0}
    BY <1>4, CountersAre, Zenon DEF TrafficCounters!TypeOK, TrafficCounters!ResetEntry
  <2>2. /\ count' \in [TrafficCounters!Names -> 0..MaxRecords]
        /\ TrafficCounters!Listed[at] \in TrafficCounters!Reported /\ at' = at + 1 /\ at \in 1..4
    BY <1>4, CountersAre DEF TrafficCounters!TypeOK, TrafficCounters!ResetEntry
  <2>3. TrafficCounters!TypeOK' /\ TrafficCounters!ShowsWhatWasAdded'
    BY <1>1, <1>4, <2>1, <2>2
       DEF TrafficCounters!TypeOK, TrafficCounters!ShowsWhatWasAdded, TrafficCounters!ResetEntry
  <2>4. /\ TrafficCounters!ToReset' = TrafficCounters!ToReset \ {TrafficCounters!Listed[at]}
        /\ (TrafficCounters!Listed[at] \in match => count'[TrafficCounters!Listed[at]] = 0)
    BY <1>1, <1>4, <2>2, CountersAre
       DEF TrafficCounters!TypeOK, TrafficCounters!ResetEntry, TrafficCounters!ToReset
  <2>5. TrafficCounters!Listed[at] \in TrafficCounters!ToReset <=> TrafficCounters!Listed[at] \in match
    BY <1>1, <2>2 DEF TrafficCounters!ToReset
  <2>6. /\ TrafficCounters!ToReset \subseteq match
        /\ \A m \in TrafficCounters!Reported \ {TrafficCounters!Listed[at]} : count'[m] = count[m]
    BY <1>4, <2>2, CountersAre, Zenon
       DEF TrafficCounters!TypeOK, TrafficCounters!ResetEntry, TrafficCounters!ToReset
  <2>7. TrafficCounters!BilledOnce'
    BY <1>1, <1>3, <1>4, <2>2, <2>4, <2>5, <2>6
       DEF TrafficCounters!BilledOnce, TrafficCounters!ResetEntry
  <2> QED BY <1>2, <2>3, <2>7, Zenon
<1>5. CASE TrafficCounters!EndReset
  <2>1. at = 5 /\ at' = 1 /\ q' = "idle" /\ count' = count
    BY <1>5, Zenon DEF TrafficCounters!EndReset
  <2>2. TrafficCounters!TypeOK' /\ TrafficCounters!ShowsWhatWasAdded'
    BY <1>1, <2>1 DEF TrafficCounters!TypeOK, TrafficCounters!ShowsWhatWasAdded
  <2>3. TrafficCounters!ToReset = {} /\ TrafficCounters!ToReset' = {}
    BY <2>1 DEF TrafficCounters!ToReset
  <2> QED BY <1>1, <1>2, <2>1, <2>2, <2>3, Zenon DEF TrafficCounters!BilledOnce
<1> QED BY <1>4, <1>5, Zenon

\* Every step of relays and queries keeps the invariant.
LEMMA TrafficInvariance ==
  ASSUME TrafficCounters!IInv, [TrafficCounters!Next]_(TrafficCounters!vars)
  PROVE  TrafficCounters!IInv'
<1>1. CASE UNCHANGED TrafficCounters!vars
  BY <1>1, TrafficCountersCount, Zenon DEF TrafficCounters!IInv, TrafficCounters!TypeOK,
     TrafficCounters!AddedInOrder, TrafficCounters!ShowsWhatWasAdded, TrafficCounters!BilledOnce,
     TrafficCounters!Between, TrafficCounters!ToReset, TrafficCounters!vars
<1> QED BY <1>1, TrafficAdd, TrafficQuery, TrafficReset, Zenon DEF TrafficCounters!Next

\* It holds when the counters are new.
LEMMA TrafficInit == TrafficCounters!Init => TrafficCounters!IInv
<1> SUFFICES ASSUME TrafficCounters!Init PROVE TrafficCounters!IInv
  BY Zenon
<1> USE NumberAssumption DEF TrafficCounters!Init, TrafficCounters!Zero
<1>1. TrafficCounters!TypeOK
  <2>1. /\ resets \in BOOLEAN /\ ever \in BOOLEAN /\ match \subseteq TrafficCounters!Reported
        /\ q \in {"idle", "read", "reset"}
    BY Zenon
  <2>2. 0 \in 0..MaxRecords /\ 0 \in 0..MaxQueries
    OBVIOUS
  <2>3. /\ count \in [TrafficCounters!Names -> 0..MaxRecords]
        /\ billed \in [TrafficCounters!Names -> Nat] /\ step \in [Relays -> 0..4]
    OBVIOUS
  <2> QED BY <2>1 DEF TrafficCounters!TypeOK
<1>2. TrafficCounters!ShowsWhatWasAdded
  BY DEF TrafficCounters!ShowsWhatWasAdded
<1>3. TrafficCounters!BilledOnce
  BY ListedDiffer DEF TrafficCounters!ToReset, TrafficCounters!BilledOnce
<1>4. \A i \in 1..4 : TrafficCounters!Between(i) = {}
  BY DEF TrafficCounters!Between
<1>5. TrafficCounters!AddedInOrder
  BY CountersDiffer, CountersAre, <1>4, FS_EmptySet, TrafficCountersCount
     DEF TrafficCounters!AddedInOrder
<1> QED BY <1>1, <1>5, <1>2, <1>3, Zenon DEF TrafficCounters!IInv

\* The invariant gives what the counters promise.
LEMMA TrafficSafe ==
  TrafficCounters!IInv
    => TrafficCounters!NeverBilledTwice /\ TrafficCounters!QuietCountersAgree
<1> SUFFICES ASSUME TrafficCounters!IInv
             PROVE  TrafficCounters!NeverBilledTwice /\ TrafficCounters!QuietCountersAgree
  BY Zenon
<1>1. TrafficCounters!NeverBilledTwice
  BY ListedDiffer DEF TrafficCounters!IInv, TrafficCounters!TypeOK, TrafficCounters!NeverBilledTwice,
     TrafficCounters!BilledOnce, TrafficCounters!ToReset
<1>2. ASSUME ~ever, \A r \in Relays : step[r] = 0, NEW n \in TrafficCounters!Names
      PROVE  count[n] = count["global"]
  <2>1. \A i \in 1..4 : TrafficCounters!Between(i) = {}
    BY <1>2 DEF TrafficCounters!Between
  <2>2. \A i \in 1..4 : added[TrafficCounters!Counters[i]] = added[TrafficCounters!Counters[i + 1]]
    <3>1. ASSUME NEW i \in 1..4
          PROVE  /\ added[TrafficCounters!Counters[i + 1]] \in Nat
                 /\ Cardinality(TrafficCounters!Between(i)) = 0
      <4>1. i + 1 \in 1..5 /\ TrafficCounters!Counters[i + 1] \in TrafficCounters!Names
        BY CountersDiffer
      <4>2. added \in [TrafficCounters!Names -> Nat]
        BY DEF TrafficCounters!IInv, TrafficCounters!TypeOK
      <4> QED BY <2>1, <4>1, <4>2, FS_EmptySet, Zenon
    <3> QED BY <3>1, TrafficCountersCount DEF TrafficCounters!IInv, TrafficCounters!AddedInOrder
  <2>3. \A m \in TrafficCounters!Names : count[m] = added[m]
    BY <1>2, Zenon DEF TrafficCounters!IInv, TrafficCounters!ShowsWhatWasAdded
  <2>4. \A m \in TrafficCounters!Names : added[m] = added["global"]
    BY <2>2, CountersAre
  <2> QED BY <2>3, <2>4, CountersAre, Zenon
<1> QED BY <1>1, <1>2, Zenon DEF TrafficCounters!QuietCountersAgree
-----------------------------------------------------------------------------
(* The run: one of the components.                                          *)

\* Two configurations for TLC: with a name and without, a secret that two users
\* have, and a user of another kind.
MCUser(inb, secret, name, kind, speed) ==
  [inb |-> inb, secret |-> secret, name |-> name, kind |-> kind, speed |-> speed]
MCConfigs ==
  {<<MCUser("i1", "p1", "", "password", 1), MCUser("i1", "p2", "", "password", 2)>>,
   <<MCUser("i2", "p1", "ann", "password", 2), MCUser("i2", "p3", "", "uuid", 1),
     MCUser("i1", "p1", "", "password", 0)>>}

\* The state of a component that does not run.
NoSessions ==
  /\ registered = "idle" /\ reloads = "idle" /\ active = "idle"
  /\ used = "idle" /\ tracked = "idle" /\ pc = "idle" /\ known = "idle"
  /\ chunk = "idle"
NoCounters ==
  /\ count = "idle" /\ step = "idle" /\ records = "idle" /\ added = "idle"
  /\ q = "idle" /\ at = "idle" /\ match = "idle" /\ resets = "idle"
  /\ queries = "idle" /\ seen = "idle" /\ billed = "idle" /\ ever = "idle"
NoDirectory ==
  /\ cfg = "idle" /\ maps = "idle" /\ inbound = "idle" /\ row = "idle"
  /\ stage = "idle" /\ limiter = "idle" /\ made = "idle" /\ session = "idle"

MCInit ==
  /\ part \in {"bucket", "sessions", "counters", "directory"}
  /\ Init
  /\ IF part = "sessions" THEN UserSessions!Init ELSE NoSessions
  /\ IF part = "counters" THEN TrafficCounters!Init ELSE NoCounters
  /\ IF part = "directory" THEN UserDirectory!Init ELSE NoDirectory

\* The components that do not run keep their state.
OthersStay ==
  /\ UNCHANGED part
  /\ IF part = "bucket" THEN TRUE ELSE UNCHANGED vars
  /\ IF part = "sessions" THEN TRUE ELSE UNCHANGED ofSessions
  /\ IF part = "counters" THEN TRUE ELSE UNCHANGED ofCounters
  /\ IF part = "directory" THEN TRUE ELSE UNCHANGED ofDirectory

MCNext ==
  \/ part = "bucket" /\ Next /\ OthersStay
  \/ part = "sessions" /\ UserSessions!Next /\ OthersStay
  \/ part = "counters" /\ TrafficCounters!Next /\ OthersStay
  \/ part = "directory" /\ UserDirectory!Next /\ OthersStay

MCSpec == MCInit /\ [][MCNext]_state
-----------------------------------------------------------------------------
\* Every component keeps its types.
TypesOK ==
  /\ TypeOK
  /\ part = "sessions" => UserSessions!TypeOK
  /\ part = "counters" => TrafficCounters!TypeOK
  /\ part = "directory" => UserDirectory!TypeOK

\* Who is admitted, and as whom: the count of a user's connections is that of
\* the sessions still open, also over reloads, and exactly these are tracked;
\* users are looked up in the configuration in force and share one limiter.
AdmissionKept ==
  /\ part = "sessions" => UserSessions!SlotsBalanced
  /\ part = "directory" => UserDirectory!LookupsAreCurrent
  /\ part = "directory" => UserDirectory!OneLimiterPerUser

\* What a user is billed and held to: a query never bills a byte twice,
\* counters nobody is changing agree, a quota is overrun by one chunk of each
\* half of each session at most, and a limiter lets through no more than its
\* rate and one bucket.
TrafficCounted ==
  /\ BurstBounded
  /\ part = "counters" => TrafficCounters!NeverBilledTwice
  /\ part = "counters" => TrafficCounters!QuietCountersAgree
  /\ part = "sessions" => UserSessions!QuotaOverrunBounded
-----------------------------------------------------------------------------
\* The inductive invariant: that of the component that runs, and of the limiter.
MCInv ==
  /\ IInv
  /\ part = "sessions" => UserSessions!IInv
  /\ part = "counters" => TrafficCounters!IInv
  /\ part = "directory" => UserDirectory!IInv

\* A component starts in a state of its invariant.
LEMMA UsersInit == MCInit => MCInv
BY LimiterInit, UserInit, TrafficInit, DirectoryInit, Zenon DEF MCInit, MCInv

\* A step of the run is a step of the component that runs.
LEMMA UsersStep == ASSUME MCInv, [MCNext]_state PROVE MCInv'
<1>1. /\ part' = part /\ [Next]_vars
      /\ part = "sessions" => [UserSessions!Next]_(UserSessions!vars)
      /\ part = "counters" => [TrafficCounters!Next]_(TrafficCounters!vars)
      /\ part = "directory" => [UserDirectory!Next]_(UserDirectory!vars)
  BY Zenon DEF MCNext, OthersStay, state, ofSessions, ofCounters, ofDirectory, UserSessions!vars,
     TrafficCounters!vars, UserDirectory!vars
<1>2. IInv'
  BY <1>1, LimiterTypes, LimiterShares, Zenon DEF MCInv, IInv
<1> QED BY <1>1, <1>2, UserInvariance, TrafficInvariance, DirectoryInvariance, Zenon DEF MCInv

\* Every run stays in the invariant.
LEMMA UsersInvariant == MCSpec => []MCInv
<1>1. MCInv /\ [MCNext]_state => MCInv'
  BY UsersStep, Zenon
<1> QED BY <1>1, UsersInit, PTL DEF MCSpec

\* Every component keeps its types, for every number of sessions and relays,
\* every limit and every set of configurations.
THEOREM UsersTypes == MCSpec => []TypesOK
<1>1. MCInv => TypesOK
  BY Zenon DEF MCInv, TypesOK, IInv, UserSessions!IInv, TrafficCounters!IInv, UserDirectory!IInv
<1> QED BY <1>1, UsersInvariant, PTL

\* runtime.active and the tracked connections are those of the running relays
\* for any number of sessions and reloads, and a lookup finds the users of the
\* configuration in force, each with one limiter, for any configurations.
THEOREM UsersAdmitted == MCSpec => []AdmissionKept
<1>1. MCInv => AdmissionKept
  BY DirectorySafe, Zenon DEF MCInv, AdmissionKept, UserSessions!IInv
<1> QED BY <1>1, UsersInvariant, PTL

\* No byte is billed twice, for any number of relays, records and resetting
\* queries; max_traffic is overrun by one chunk of each half of each session at
\* most; throttle lets through the rate and one bucket at most.
THEOREM UsersCounted == MCSpec => []TrafficCounted
<1>1. MCInv => TrafficCounted
  BY LimiterBounded, TrafficSafe, Zenon DEF MCInv, TrafficCounted, UserSessions!IInv
<1> QED BY <1>1, UsersInvariant, PTL
=============================================================================
