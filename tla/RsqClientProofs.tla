-------------------------- MODULE RsqClientProofs --------------------------
(***************************************************************************)
(* Proofs about the RSQ session cache for any set of dials, any number of   *)
(* permits and any number of probes.                                       *)
(***************************************************************************)
EXTENDS RsqClient, TLAPS

\* Dials and the prober each stay in their own part of the code, and a task
\* that connects holds the generation of its attempt.
PcOK ==
  /\ pc[Prober] \in ProbePc
  /\ \A d \in Dials : pc[d] \in DialPc
  /\ \A p \in Procs : pc[p] \in {"connect", "install"} => own[p] # 0

\* A dial in establish_session implies the flag, and is the only one there.
Exclusive ==
  /\ \A d \in Dials : pc[d] \in EstPc => inflight
  /\ inflight => \E d \in Dials : pc[d] \in EstPc
  /\ \A d, e \in Dials : pc[d] \in EstPc /\ pc[e] \in EstPc => d = e

\* While the prober has not rewarmed, the dial past its reset keeps the cache
\* empty until it stores its own, newest, attempt.
Newest ==
  ~rewarmed =>
    /\ pc[Prober] \notin EstPc
    /\ session # 0 => session = generation
    /\ \A d \in Dials : pc[d] \in {"estbump", "connect", "install"} => session = 0
    /\ \A d \in Dials : pc[d] \in {"connect", "install"} => own[d] = generation

\* A dial whose session was reset holds an expired generation.
CutExpired == \A d \in cut : pc[d] \in StreamPc => own[d] < generation

IInv == TypeOK /\ PcOK /\ Exclusive /\ Newest /\ CutExpired
-----------------------------------------------------------------------------
\* The initial state satisfies the inductive invariant.
LEMMA InitIInv == Init => IInv
<1> SUFFICES ASSUME Init PROVE IInv
  OBVIOUS
<1>a. /\ pc \in [Procs -> {"sleep", "start", "cancelled"}]
      /\ pc[Prober] = "sleep"
      /\ \A d \in Dials : pc[d] \in {"start", "cancelled"}
  <2>1. PICK D \in Rounds :
          pc = [p \in Procs |-> IF p = Prober THEN "sleep" ELSE IF p \in D THEN "start" ELSE "cancelled"]
    BY DEF Init
  <2> QED BY <2>1, ProberAssumption DEF Procs
<1>1. TypeOK
  <2>1. pc \in [Procs -> DialPc \cup ProbePc]
    BY <1>a DEF DialPc, ProbePc, GetPc, EstPc, StreamPc, Final
  <2>2. /\ generation \in Nat /\ session \in 0..generation
        /\ live \in SUBSET (1..generation) /\ closing \in SUBSET (1..generation)
    BY DEF Init
  <2>3. own \in [Procs -> 0..generation] /\ tries \in [Dials -> 0..1]
    BY DEF Init
  <2>4. fails \in 0..1 /\ probes \in 0..MaxProbes
    BY BoundsAssumption DEF Init
  <2>5. /\ cut \in SUBSET Dials
        /\ aged \in BOOLEAN /\ inflight \in BOOLEAN /\ rewarmed \in BOOLEAN
    BY DEF Init
  <2> QED BY <2>1, <2>2, <2>3, <2>4, <2>5 DEF TypeOK
<1>2. PcOK /\ Exclusive
  BY <1>a DEF Init, PcOK, Exclusive, DialPc, ProbePc, EstPc, GetPc, StreamPc, Final, Procs
<1>3. Newest /\ CutExpired
  BY <1>a DEF Init, Newest, CutExpired, EstPc, Procs
<1> QED BY <1>1, <1>2, <1>3 DEF IInv


(* TypeOK, in three parts that the steps disturb separately. *)
CacheOK ==
  /\ generation \in Nat /\ session \in 0..generation /\ aged \in BOOLEAN
  /\ live \in SUBSET (1..generation) /\ closing \in SUBSET (1..generation)
TaskOK == pc \in [Procs -> DialPc \cup ProbePc] /\ own \in [Procs -> 0..generation]
RestOK ==
  /\ inflight \in BOOLEAN /\ tries \in [Dials -> 0..1] /\ cut \in SUBSET Dials
  /\ fails \in 0..1 /\ probes \in 0..MaxProbes /\ rewarmed \in BOOLEAN

\* The three parts make up TypeOK, before and after a step.
LEMMA TypeParts ==
  /\ TypeOK <=> CacheOK /\ TaskOK /\ RestOK
  /\ TypeOK' <=> CacheOK' /\ TaskOK' /\ RestOK'
BY DEF TypeOK, CacheOK, TaskOK, RestOK

\* reset_session keeps the cache well typed and empties it; it bumps the
\* generation exactly when it takes a session.
LEMMA ResetFacts ==
  ASSUME CacheOK, cut \in SUBSET Dials, Reset
  PROVE  /\ CacheOK' /\ generation <= generation'
         /\ session' = 0
         /\ cut' \in SUBSET Dials
         /\ session = 0 => generation' = generation /\ cut' = cut
         /\ session # 0 => generation' = generation + 1
<1>1. CASE session = 0
  <2>1. UNCHANGED <<cache, cut>>
    BY <1>1 DEF Reset
  <2> QED BY <1>1, <2>1 DEF CacheOK, cache
<1>2. CASE session # 0
  <2>1. generation' = generation + 1 /\ session' = 0 /\ aged' = FALSE
    BY <1>2 DEF Reset
  <2>2. live' = live \ {session} /\ closing' = closing \cup (live \cap {session})
    BY <1>2 DEF Reset
  <2>3. \A c \in 1..generation : c \in 1..generation'
    BY <2>1 DEF CacheOK
  <2>4. live' \in SUBSET (1..generation')
    BY <2>2, <2>3 DEF CacheOK
  <2>5. closing' \in SUBSET (1..generation')
    BY <2>2, <2>3 DEF CacheOK
  <2>6. cut' \in SUBSET Dials
    BY <1>2 DEF Reset
  <2>7. generation' \in Nat /\ generation <= generation'
    BY <2>1 DEF CacheOK
  <2>8. session' \in 0..generation'
    BY <2>1, <2>7
  <2>9. aged' \in BOOLEAN
    BY <2>1
  <2>10. CacheOK'
    BY <2>4, <2>5, <2>7, <2>8, <2>9 DEF CacheOK
  <2> QED BY <1>2, <2>1, <2>6, <2>7, <2>10
<1> QED BY <1>1, <1>2

\* A step that leaves the cache alone keeps it well typed.
LEMMA CacheKept == ASSUME CacheOK, UNCHANGED cache PROVE CacheOK' /\ generation' = generation
BY DEF CacheOK, cache

\* A step that leaves the counters alone keeps them well typed.
LEMMA RestKept ==
  ASSUME RestOK, UNCHANGED <<inflight, tries, cut, probing>> PROVE RestOK'
BY DEF RestOK, probing

\* Moving one task keeps the types of pc and own.
LEMMA GotoType ==
  ASSUME TaskOK, generation \in Nat, generation' \in Nat, generation <= generation',
         NEW p \in Procs, NEW next \in DialPc \cup ProbePc, NEW c \in 0..generation',
         Goto(p, next, c)
  PROVE  TaskOK'
<1>1. \A q \in Procs : own[q] \in 0..generation'
  BY DEF TaskOK
<1> QED BY <1>1 DEF TaskOK, Goto

\* Dropping the guard keeps the types of pc and own.
LEMMA DropGuardType ==
  ASSUME TaskOK, generation' = generation,
         NEW p \in Procs, NEW next \in DialPc \cup ProbePc, NEW c \in 0..generation,
         DropGuard(p, next, c)
  PROVE  TaskOK' /\ inflight' \in BOOLEAN
<1>1. "get" \in DialPc
  BY DEF DialPc, GetPc
<1> QED BY <1>1 DEF TaskOK, DropGuard

\* Every place a step may go to is a place.
LEMMA Places ==
  /\ {"start", "retryreset", "sleep", "probe", "probereset"} \subseteq DialPc \cup ProbePc
  /\ GetPc \cup EstPc \cup StreamPc \cup Final \subseteq DialPc \cup ProbePc
  /\ \A p, class : AfterError(p, class) \in {"retryreset", "err"}
BY DEF DialPc, ProbePc, AfterError

\* Leaving establish_session keeps the types of pc, own and connect_inflight.
LEMMA LeaveType ==
  ASSUME TaskOK, generation \in Nat, inflight \in BOOLEAN, generation' = generation,
         NEW p \in Procs, NEW next \in DialPc \cup ProbePc, NEW c \in 0..generation,
         LeaveEstablish(p, next, c)
  PROVE  TaskOK' /\ inflight' \in BOOLEAN
<1>1. CASE p = Prober
  <2>1. Goto(p, "sleep", 0) /\ inflight' = inflight
    BY <1>1 DEF LeaveEstablish
  <2>2. "sleep" \in DialPc \cup ProbePc /\ 0 \in 0..generation'
    BY Places
  <2> QED BY <2>1, <2>2, GotoType
<1>2. CASE p # Prober
  BY <1>2, DropGuardType DEF LeaveEstablish
<1> QED BY <1>1, <1>2

\* Counting a retry keeps the type of tries.
LEMMA CountTryType ==
  ASSUME tries \in [Dials -> 0..1], NEW p \in Procs, NEW class, CountTry(p, class)
  PROVE  tries' \in [Dials -> 0..1]
BY DEF CountTry, AfterError, Procs

\* Every step of establish_session keeps the types.
LEMMA EstablishTypeOK ==
  ASSUME TypeOK, PcOK, NEW p \in Procs, Establish(p) PROVE TypeOK'
<1> USE DEF EstPc, StreamPc
<1>0. /\ CacheOK /\ TaskOK /\ RestOK
      /\ generation \in Nat /\ session \in 0..generation /\ own[p] \in 0..generation
      /\ 0 \in 0..generation
      /\ inflight \in BOOLEAN /\ tries \in [Dials -> 0..1] /\ cut \in SUBSET Dials
  BY TypeParts DEF CacheOK, TaskOK, RestOK
<1>1. CASE EstCached(p)
  <2>1. CacheOK' /\ generation' = generation
    BY <1>0, <1>1, CacheKept DEF EstCached
  <2>2. TaskOK' /\ inflight' \in BOOLEAN
    <3>1. CASE SessionUsable
      BY <1>0, <1>1, <2>1, <3>1, Places, LeaveType DEF EstCached
    <3>2. CASE ~SessionUsable
      BY <1>0, <1>1, <2>1, <3>2, Places, GotoType DEF EstCached
    <3> QED BY <3>1, <3>2
  <2>3. RestOK'
    BY <1>0, <1>1, <2>2 DEF EstCached, RestOK, probing
  <2> QED BY <2>1, <2>2, <2>3, TypeParts
<1>2. CASE EstReset(p)
  <2>1. CacheOK' /\ generation <= generation' /\ cut' \in SUBSET Dials /\ generation' \in Nat
    BY <1>0, <1>2, ResetFacts DEF EstReset, CacheOK
  <2>2. TaskOK'
    BY <1>0, <1>2, <2>1, Places, GotoType DEF EstReset
  <2>3. RestOK'
    BY <1>0, <1>2, <2>1 DEF EstReset, RestOK, probing
  <2> QED BY <2>1, <2>2, <2>3, TypeParts
<1>3. CASE EstBump(p)
  <2>1. generation' = generation + 1 /\ UNCHANGED <<session, aged, live, closing>>
    BY <1>3 DEF EstBump
  <2>2. \A c \in Nat : /\ c \in 0..generation => c \in 0..generation'
                       /\ c \in 1..generation => c \in 1..generation'
    BY <1>0, <2>1
  <2>3. live' \in SUBSET (1..generation') /\ closing' \in SUBSET (1..generation')
    BY <2>1, <2>2, <1>0 DEF CacheOK
  <2>4. CacheOK'
    BY <1>0, <2>1, <2>2, <2>3 DEF CacheOK
  <2>5. TaskOK'
    <3>1. generation' \in Nat /\ generation <= generation' /\ generation + 1 \in 0..generation'
      BY <1>0, <2>1
    <3>2. Goto(p, "connect", generation + 1) /\ "connect" \in DialPc \cup ProbePc
      BY <1>3, Places DEF EstBump
    <3> QED BY <1>0, <3>1, <3>2, GotoType
  <2>6. RestOK'
    BY <1>0, <1>3, RestKept DEF EstBump
  <2> QED BY <2>4, <2>5, <2>6, TypeParts
<1>4. CASE ConnectOk(p)
  <2>1. own[p] \in 1..generation
    BY <1>0, <1>4 DEF PcOK, ConnectOk
  <2>2. CacheOK' /\ generation' = generation
    BY <1>0, <1>4, <2>1 DEF ConnectOk, CacheOK
  <2>3. TaskOK'
    BY <1>0, <1>4, <2>2, Places, GotoType DEF ConnectOk
  <2>4. RestOK'
    BY <1>0, <1>4, RestKept DEF ConnectOk
  <2> QED BY <2>2, <2>3, <2>4, TypeParts
<1>5. ASSUME NEW class, EstFail(p, class) PROVE TypeOK'
  <2>1. CacheOK' /\ generation' = generation
    BY <1>0, <1>5, CacheKept DEF EstFail
  <2>2. TaskOK' /\ inflight' \in BOOLEAN
    BY <1>0, <1>5, <2>1, Places, LeaveType DEF EstFail, Final
  <2>3. RestOK'
    BY <1>0, <1>5, <2>2, CountTryType DEF EstFail, RestOK, probing
  <2> QED BY <2>1, <2>2, <2>3, TypeParts
<1>6. CASE ConnectFail(p)
  BY <1>5, <1>6 DEF ConnectFail
<1>7. CASE Install(p)
  <2>1. CacheOK' /\ generation' = generation
    BY <1>0, <1>7 DEF Install, CacheOK
  <2>2. TaskOK'
    BY <1>0, <1>7, <2>1, Places, GotoType DEF Install
  <2>3. RestOK'
    BY <1>0, <1>7, RestKept DEF Install
  <2> QED BY <2>1, <2>2, <2>3, TypeParts
<1>8. CASE EstCheck(p)
  <2>1. CASE SessionUsable
    <3>1. CacheOK' /\ generation' = generation
      BY <1>0, <1>8, <2>1, CacheKept DEF EstCheck
    <3>2. TaskOK' /\ inflight' \in BOOLEAN
      BY <1>0, <1>8, <2>1, <3>1, Places, LeaveType DEF EstCheck
    <3>3. RestOK'
      BY <1>0, <1>8, <2>1, <3>2 DEF EstCheck, RestOK, probing
    <3> QED BY <3>1, <3>2, <3>3, TypeParts
  <2>2. CASE ~SessionUsable
    BY <1>5, <1>8, <2>2 DEF EstCheck
  <2> QED BY <2>1, <2>2
<1> QED BY <1>1, <1>2, <1>3, <1>4, <1>6, <1>7, <1>8 DEF Establish

\* A step that only moves a task keeps the types.
LEMMA MoveTypeOK ==
  ASSUME TypeOK, NEW p \in Procs, NEW next \in DialPc \cup ProbePc, NEW c \in 0..generation,
         Goto(p, next, c), UNCHANGED cache, RestOK'
  PROVE  TypeOK'
<1>1. CacheOK /\ TaskOK /\ generation \in Nat
  BY TypeParts DEF CacheOK
<1>2. CacheOK' /\ generation' = generation
  BY <1>1, CacheKept
<1>3. TaskOK'
  BY <1>1, <1>2, GotoType
<1> QED BY <1>2, <1>3, TypeParts

\* Every step of a dial keeps the types.
LEMMA DialTypeOK ==
  ASSUME TypeOK, PcOK, NEW d \in Dials, Dial(d) PROVE TypeOK'
<1> USE DEF GetPc, EstPc, StreamPc, Final
<1>0. /\ CacheOK /\ TaskOK /\ RestOK /\ d \in Procs
      /\ generation \in Nat /\ session \in 0..generation /\ own[d] \in 0..generation
      /\ 0 \in 0..generation
      /\ inflight \in BOOLEAN /\ tries \in [Dials -> 0..1] /\ cut \in SUBSET Dials
  BY TypeParts DEF CacheOK, TaskOK, RestOK, Procs
<1>1. CASE Acquire(d)
  BY <1>0, <1>1, RestKept, Places, MoveTypeOK DEF Acquire
<1>2. CASE AcquireTimeout(d)
  BY <1>0, <1>2, RestKept, Places, MoveTypeOK DEF AcquireTimeout
<1>3. CASE GetCached(d)
  <2>1. RestOK'
    BY <1>0, <1>3 DEF GetCached, RestOK, probing
  <2> QED BY <1>0, <1>3, <2>1, Places, MoveTypeOK DEF GetCached
<1>4. CASE GetCas(d)
  <2>1. RestOK'
    BY <1>0, <1>4 DEF GetCas, RestOK, probing
  <2> QED BY <1>0, <1>4, <2>1, Places, MoveTypeOK DEF GetCas
<1>5. CASE GetSubscribe(d)
  BY <1>0, <1>5, RestKept, Places, MoveTypeOK DEF GetSubscribe
<1>6. CASE WaitTimeout(d)
  <2>1. RestOK'
    BY <1>0, <1>6, CountTryType DEF WaitTimeout, RestOK, probing
  <2> QED BY <1>0, <1>6, <2>1, Places, MoveTypeOK DEF WaitTimeout
<1>7. CASE Establish(d)
  BY <1>0, <1>7, EstablishTypeOK
<1>8. CASE GotSession(d)
  BY <1>0, <1>8, RestKept, Places, MoveTypeOK DEF GotSession
<1>9. CASE OpenStream(d)
  BY <1>0, <1>9, RestKept, Places, MoveTypeOK DEF OpenStream
<1>10. CASE ReadReply(d)
  BY <1>0, <1>10, RestKept, Places, MoveTypeOK DEF ReadReply
<1>11. CASE VerifyReply(d)
  BY <1>0, <1>11, RestKept, Places, MoveTypeOK DEF VerifyReply
<1>12. CASE StreamFail(d)
  <2>1. RestOK'
    BY <1>0, <1>12, CountTryType DEF StreamFail, RestOK, probing
  <2> QED BY <1>0, <1>12, <2>1, Places, MoveTypeOK DEF StreamFail
<1>13. CASE RetryReset(d)
  <2>1. CacheOK' /\ generation <= generation' /\ cut' \in SUBSET Dials /\ generation' \in Nat
    BY <1>0, <1>13, ResetFacts DEF RetryReset, CacheOK
  <2>2. TaskOK'
    BY <1>0, <1>13, <2>1, Places, GotoType DEF RetryReset
  <2>3. RestOK'
    BY <1>0, <1>13, <2>1 DEF RetryReset, RestOK, probing
  <2> QED BY <2>1, <2>2, <2>3, TypeParts
<1> QED BY <1>1, <1>2, <1>3, <1>4, <1>5, <1>6, <1>7, <1>8, <1>9, <1>10, <1>11, <1>12,
           <1>13 DEF Dial

\* Every step of the probe loop keeps the types.
LEMMA ProbeTypeOK ==
  ASSUME TypeOK, PcOK, Probe PROVE TypeOK'
<1>0. /\ CacheOK /\ TaskOK /\ RestOK /\ Prober \in Procs
      /\ generation \in Nat /\ session \in 0..generation /\ 0 \in 0..generation
      /\ cut \in SUBSET Dials /\ fails \in 0..1 /\ probes \in 0..MaxProbes
  BY TypeParts DEF CacheOK, TaskOK, RestOK, Procs
<1>1. CASE ProbePick
  <2>1. fails' \in 0..1 /\ probes' \in 0..MaxProbes
    BY <1>0, <1>1, BoundsAssumption DEF ProbePick
  <2>2. RestOK'
    BY <1>0, <1>1, <2>1 DEF ProbePick, RestOK
  <2> QED BY <1>0, <1>1, <2>2, Places, MoveTypeOK DEF ProbePick
<1>2. CASE ProbeOk
  <2>1. RestOK'
    BY <1>0, <1>2 DEF ProbeOk, RestOK
  <2> QED BY <1>0, <1>2, <2>1, Places, MoveTypeOK DEF ProbeOk
<1>3. CASE ProbeTimeout
  <2>1. RestOK'
    BY <1>0, <1>3 DEF ProbeTimeout, RestOK
  <2> QED BY <1>0, <1>3, <2>1, Places, MoveTypeOK DEF ProbeTimeout
<1>4. CASE ProbeFailed
  <2>1. fails' \in 0..1
    BY <1>0, <1>4 DEF ProbeFailed
  <2>2. RestOK'
    BY <1>0, <1>4, <2>1 DEF ProbeFailed, RestOK
  <2> QED BY <1>0, <1>4, <2>2, Places, MoveTypeOK DEF ProbeFailed
<1>5. CASE ProbeReset
  <2>1. CacheOK' /\ generation <= generation' /\ cut' \in SUBSET Dials /\ generation' \in Nat
    BY <1>0, <1>5, ResetFacts DEF ProbeReset, CacheOK
  <2>2. TaskOK'
    BY <1>0, <1>5, <2>1, Places, GotoType DEF ProbeReset, EstPc
  <2>3. RestOK'
    BY <1>0, <1>5, <2>1 DEF ProbeReset, RestOK
  <2> QED BY <2>1, <2>2, <2>3, TypeParts
<1>6. CASE Establish(Prober)
  BY <1>0, <1>6, EstablishTypeOK
<1> QED BY <1>1, <1>2, <1>3, <1>4, <1>5, <1>6 DEF Probe

\* Close events, losses, ageing, cancellation and close() keep the types.
LEMMA EnvironmentTypeOK ==
  ASSUME TypeOK, Environment PROVE TypeOK'
<1>0. /\ CacheOK /\ TaskOK /\ RestOK
      /\ generation \in Nat /\ session \in 0..generation /\ 0 \in 0..generation
      /\ inflight \in BOOLEAN /\ aged \in BOOLEAN /\ cut \in SUBSET Dials
  BY TypeParts DEF CacheOK, TaskOK, RestOK
<1>1. CASE Close
  <2>1. CacheOK' /\ generation <= generation' /\ cut' \in SUBSET Dials /\ generation' \in Nat
    BY <1>0, <1>1, ResetFacts DEF Close, CacheOK
  <2>2. \A c \in 0..generation : c \in 0..generation'
    BY <1>0, <2>1
  <2>3. TaskOK'
    BY <1>0, <1>1, <2>2 DEF Close, TaskOK
  <2>4. RestOK'
    BY <1>0, <1>1, <2>1 DEF Close, RestOK, probing
  <2> QED BY <2>1, <2>3, <2>4, TypeParts
<1>2. CASE AgeOut
  BY <1>0, <1>2, RestKept, TypeParts DEF AgeOut, CacheOK, TaskOK
<1>3. ASSUME NEW d \in Dials, Cancel(d) PROVE TypeOK'
  <2>1. CacheOK' /\ generation' = generation /\ d \in Procs
    BY <1>0, <1>3, CacheKept DEF Cancel, Procs
  <2>2. "cancelled" \in DialPc \cup ProbePc
    BY Places DEF Final
  <2>3. TaskOK' /\ inflight' \in BOOLEAN
    <3>1. CASE pc[d] \in EstPc
      BY <1>0, <1>3, <2>1, <2>2, <3>1, DropGuardType DEF Cancel
    <3>2. CASE pc[d] \notin EstPc
      BY <1>0, <1>3, <2>1, <2>2, <3>2, GotoType DEF Cancel
    <3> QED BY <3>1, <3>2
  <2>4. RestOK'
    BY <1>0, <1>3, <2>3 DEF Cancel, RestOK, probing
  <2> QED BY <2>1, <2>3, <2>4, TypeParts
<1>4. ASSUME NEW c \in closing, CloseWatcher(c) PROVE TypeOK'
  <2>1. session' \in 0..generation
    BY <1>0, <1>4 DEF CloseWatcher
  <2>2. closing' \in SUBSET (1..generation)
    BY <1>0, <1>4 DEF CloseWatcher, CacheOK
  <2>3. aged' \in BOOLEAN
    BY <1>4 DEF CloseWatcher
  <2>4. CacheOK'
    BY <1>0, <1>4, <2>1, <2>2, <2>3 DEF CloseWatcher, CacheOK
  <2>5. TaskOK' /\ RestOK'
    BY <1>0, <1>4, RestKept DEF CloseWatcher, TaskOK
  <2> QED BY <2>4, <2>5, TypeParts
<1>5. ASSUME NEW c \in live, ConnectionLost(c) PROVE TypeOK'
  <2>1. live' \in SUBSET (1..generation) /\ closing' \in SUBSET (1..generation)
    BY <1>0, <1>5 DEF ConnectionLost, CacheOK
  <2>2. CacheOK'
    BY <1>0, <1>5, <2>1 DEF ConnectionLost, CacheOK
  <2>3. TaskOK' /\ RestOK'
    BY <1>0, <1>5, RestKept DEF ConnectionLost, TaskOK
  <2> QED BY <2>2, <2>3, TypeParts
<1> QED BY <1>1, <1>2, <1>3, <1>4, <1>5 DEF Environment
-----------------------------------------------------------------------------
(* How a step moves the tasks, and what that keeps. *)

\* Task p goes to next holding c; the others stay or are woken.
Moved(p, next, c) ==
  /\ pc'[p] = next /\ own'[p] = c
  /\ \A q \in Procs \ {p} : /\ own'[q] = own[q]
                            /\ pc'[q] = pc[q] \/ (pc[q] = "wait" /\ pc'[q] = "get")

\* Both ways of moving a task move only that task.
LEMMA MovedFacts ==
  ASSUME TaskOK, NEW p \in Procs, NEW next, NEW c
  PROVE  /\ Goto(p, next, c) => Moved(p, next, c)
         /\ DropGuard(p, next, c) => Moved(p, next, c) /\ inflight' = FALSE
         /\ LeaveEstablish(p, next, c) =>
              IF p = Prober THEN Moved(p, "sleep", 0) /\ inflight' = inflight
              ELSE Moved(p, next, c) /\ inflight' = FALSE
<1>1. Goto(p, next, c) => Moved(p, next, c)
  BY DEF TaskOK, Goto, Moved
<1>2. DropGuard(p, next, c) => Moved(p, next, c) /\ inflight' = FALSE
  BY DEF TaskOK, DropGuard, Moved
<1>3. ASSUME p = Prober, LeaveEstablish(p, next, c)
      PROVE  Moved(p, "sleep", 0) /\ inflight' = inflight
  BY <1>3 DEF TaskOK, LeaveEstablish, Goto, Moved
<1>4. ASSUME p # Prober, LeaveEstablish(p, next, c)
      PROVE  Moved(p, next, c) /\ inflight' = FALSE
  BY <1>2, <1>4 DEF LeaveEstablish
<1> QED BY <1>1, <1>2, <1>3, <1>4

\* A step that neither enters nor leaves establish_session.
LEMMA ExclusiveKept ==
  ASSUME Exclusive, inflight' = inflight,
         \A d \in Dials : pc'[d] \in EstPc <=> pc[d] \in EstPc
  PROVE  Exclusive'
BY DEF Exclusive

\* A dial that takes the free flag enters establish_session alone.
LEMMA ExclusiveEntered ==
  ASSUME Exclusive, ~inflight, inflight' = TRUE, NEW d \in Dials, pc'[d] \in EstPc,
         \A e \in Dials : e # d /\ pc'[e] \in EstPc => pc[e] \in EstPc
  PROVE  Exclusive'
BY DEF Exclusive

\* The dial that drops the guard was the only one establishing.
LEMMA ExclusiveLeft ==
  ASSUME Exclusive, inflight' = FALSE, NEW d \in Dials, pc[d] \in EstPc, pc'[d] \notin EstPc,
         \A e \in Dials : e # d /\ pc'[e] \in EstPc => pc[e] \in EstPc
  PROVE  Exclusive'
BY DEF Exclusive

\* A task that moves within its own part of the code keeps PcOK.
LEMMA PcKept ==
  ASSUME PcOK, NEW p \in Procs, NEW next, NEW c, Moved(p, next, c),
         p = Prober => next \in ProbePc, p \in Dials => next \in DialPc,
         next \in {"connect", "install"} => c # 0
  PROVE  PcOK'
<1>1. "get" \in DialPc /\ "wait" \notin ProbePc
  BY DEF DialPc, ProbePc, GetPc, EstPc
<1>2. pc'[Prober] \in ProbePc
  BY <1>1 DEF PcOK, Moved, Procs
<1>3. \A d \in Dials : pc'[d] \in DialPc
  BY <1>1 DEF PcOK, Moved, Procs
<1>4. \A q \in Procs : pc'[q] \in {"connect", "install"} => own'[q] # 0
  BY DEF PcOK, Moved
<1> QED BY <1>2, <1>3, <1>4 DEF PcOK

(* The rest of the invariant, step by step. *)
Safe == PcOK /\ Exclusive /\ Newest /\ CutExpired

\* What a step keeps when it moves a dial outside establish_session.
LEMMA CalmDialSafe ==
  ASSUME IInv, NEW d \in Dials, NEW next \in DialPc \ EstPc, NEW c,
         Moved(d, next, c), pc[d] \notin EstPc,
         UNCHANGED cache, inflight' = inflight, rewarmed' = rewarmed, cut' \subseteq cut,
         next \in StreamPc /\ d \in cut' => pc[d] \in StreamPc /\ c = own[d]
  PROVE  Safe'
<1> USE ProberAssumption DEF IInv, Procs
<1>1. "get" \in DialPc /\ "get" \notin EstPc /\ "get" \notin StreamPc /\ "wait" \notin EstPc
  BY DEF DialPc, GetPc, EstPc, StreamPc
<1>2. PcOK'
  BY PcKept DEF EstPc
<1>3. Exclusive'
  <2>1. \A e \in Dials : pc'[e] \in EstPc <=> pc[e] \in EstPc
    BY <1>1 DEF Moved
  <2> QED BY <2>1, ExclusiveKept
<1>4. Newest'
  BY DEF Newest, Moved, EstPc, cache
<1>5. CutExpired'
  BY <1>1 DEF CutExpired, Moved, TypeOK, cache
<1> QED BY <1>2, <1>3, <1>4, <1>5 DEF Safe

\* What a step keeps when it takes a dial out of establish_session.
LEMMA LeaveDialSafe ==
  ASSUME IInv, NEW d \in Dials, NEW next \in DialPc \ EstPc, NEW c,
         Moved(d, next, c), pc[d] \in EstPc,
         UNCHANGED cache, inflight' = FALSE, rewarmed' = rewarmed, cut' \subseteq cut,
         next \in StreamPc => d \notin cut'
  PROVE  Safe'
<1> USE ProberAssumption DEF IInv, Procs
<1>1. "get" \in DialPc /\ "get" \notin EstPc /\ "get" \notin StreamPc /\ "wait" \notin EstPc
  BY DEF DialPc, GetPc, EstPc, StreamPc
<1>2. PcOK'
  BY PcKept DEF EstPc
<1>3. Exclusive'
  <2>1. \A e \in Dials : e # d /\ pc'[e] \in EstPc => pc[e] \in EstPc
    BY <1>1 DEF Moved
  <2> QED BY <2>1, ExclusiveLeft DEF Moved
<1>4. Newest'
  BY DEF Newest, Moved, EstPc, cache
<1>5. CutExpired'
  BY <1>1 DEF CutExpired, Moved, TypeOK, cache
<1> QED BY <1>2, <1>3, <1>4, <1>5 DEF Safe

\* What a step keeps when it moves the prober and leaves the cache alone.
LEMMA CalmProbeSafe ==
  ASSUME IInv, NEW next \in ProbePc, NEW c, Moved(Prober, next, c),
         next \in EstPc => pc[Prober] \in EstPc,
         next \in {"connect", "install"} => c # 0,
         UNCHANGED cache, inflight' = inflight, rewarmed' = rewarmed, cut' \subseteq cut
  PROVE  Safe'
<1> USE ProberAssumption DEF IInv, Procs
<1>1. "get" \in DialPc /\ "get" \notin EstPc /\ "get" \notin StreamPc /\ "wait" \notin EstPc
  BY DEF DialPc, GetPc, EstPc, StreamPc
<1>2. PcOK'
  BY PcKept
<1>3. Exclusive'
  <2>1. \A e \in Dials : pc'[e] \in EstPc <=> pc[e] \in EstPc
    BY <1>1 DEF Moved
  <2> QED BY <2>1, ExclusiveKept
<1>4. Newest'
  BY <1>1 DEF Newest, Moved, EstPc, cache
<1>5. CutExpired'
  BY <1>1 DEF CutExpired, Moved, TypeOK, cache
<1> QED BY <1>2, <1>3, <1>4, <1>5 DEF Safe

\* What reset_session keeps when task p runs it: a dial or the prober, in or
\* out of establish_session.
LEMMA ResetSafe ==
  ASSUME IInv, Reset, inflight' = inflight, NEW p \in Procs, NEW next, Moved(p, next, 0),
         next \notin StreamPc, next \notin {"connect", "install"},
         p \in Dials => next \in DialPc /\ (next \in EstPc <=> pc[p] \in EstPc),
         p = Prober => next \in ProbePc /\ (next \in EstPc => pc[p] \in EstPc \/ rewarmed'),
         rewarmed => rewarmed'
  PROVE  Safe'
<1> USE ProberAssumption DEF IInv, Procs
<1>1. "get" \in DialPc /\ "get" \notin EstPc /\ "get" \notin StreamPc /\ "wait" \notin EstPc
  BY DEF DialPc, GetPc, EstPc, StreamPc
<1>2. /\ generation \in Nat /\ generation' \in Nat /\ generation <= generation'
      /\ session \in 0..generation /\ session' = 0
      /\ session = 0 => generation' = generation /\ cut' = cut
      /\ session # 0 => generation' = generation + 1
  BY ResetFacts, TypeParts DEF CacheOK, RestOK
<1>3. PcOK'
  BY PcKept
<1>4. Exclusive'
  <2>1. \A e \in Dials : pc'[e] \in EstPc <=> pc[e] \in EstPc
    BY <1>1 DEF Moved
  <2> QED BY <2>1, ExclusiveKept
<1>5. Newest'
  <2> SUFFICES ASSUME ~rewarmed' PROVE /\ pc'[Prober] \notin EstPc
                                       /\ \A d \in Dials : pc'[d] \in {"connect", "install"} =>
                                            own'[d] = generation'
    BY <1>2 DEF Newest
  <2>1. pc'[Prober] \notin EstPc
    BY <1>1 DEF Newest, Moved
  <2>2. ASSUME NEW d \in Dials, pc'[d] \in {"connect", "install"}
        PROVE  own'[d] = generation'
    <3>1. d # p /\ pc[d] \in {"connect", "install"} /\ own'[d] = own[d]
      BY <2>2 DEF Moved
    <3>2. session = 0 /\ own[d] = generation
      BY <3>1 DEF Newest
    <3> QED BY <1>2, <3>1, <3>2
  <2> QED BY <2>1, <2>2
<1>6. CutExpired'
  <2> SUFFICES ASSUME NEW d \in cut', pc'[d] \in StreamPc PROVE own'[d] < generation'
    BY DEF CutExpired
  <2>1. d \in Dials /\ d # p /\ pc[d] \in StreamPc /\ own'[d] = own[d]
    BY <1>1, ResetFacts, TypeParts DEF Moved, RestOK
  <2>2. own[d] \in Nat
    BY <2>1 DEF TypeOK
  <2>3. CASE d \in cut
    BY <1>2, <2>1, <2>2, <2>3 DEF CutExpired
  <2>4. CASE d \notin cut
    <3>1. session # 0 /\ own[d] = session
      BY <2>4 DEF Reset
    <3> QED BY <1>2, <2>1, <3>1
  <2> QED BY <2>3, <2>4
<1> QED BY <1>3, <1>4, <1>5, <1>6 DEF Safe

\* Every step of establish_session keeps the rest of the invariant.
LEMMA EstablishSafe ==
  ASSUME IInv, NEW p \in Procs, Establish(p) PROVE Safe'
<1> USE ProberAssumption
<1>0. /\ TaskOK /\ RestOK /\ CacheOK /\ generation \in Nat /\ own[p] \in 0..generation
      /\ p \in Dials \/ p = Prober
      /\ PcOK /\ Exclusive /\ Newest /\ CutExpired
  BY TypeParts DEF IInv, TaskOK, CacheOK, Procs
<1>1. /\ {"start", "retryreset"} \cup StreamPc \cup Final \subseteq DialPc \ EstPc
      /\ "sleep" \in ProbePc /\ "sleep" \notin EstPc
      /\ EstPc \subseteq DialPc /\ EstPc \subseteq ProbePc
      /\ \A class : AfterError(p, class) \in DialPc \ EstPc /\ AfterError(p, class) \notin StreamPc
  BY DEF DialPc, ProbePc, GetPc, EstPc, StreamPc, Final, AfterError
<1>2. ASSUME NEW next \in DialPc \ EstPc, NEW c, LeaveEstablish(p, next, c), pc[p] \in EstPc,
             UNCHANGED cache, rewarmed' = rewarmed, cut' \subseteq cut,
             next \in StreamPc => p \notin cut'
      PROVE  Safe'
  <2>1. CASE p = Prober
    BY <1>0, <1>1, <1>2, <2>1, MovedFacts, CalmProbeSafe
  <2>2. CASE p # Prober
    BY <1>0, <1>1, <1>2, <2>2, MovedFacts, LeaveDialSafe
  <2> QED BY <2>1, <2>2
<1>3. CASE EstCached(p)
  <2>1. /\ pc[p] \in EstPc /\ UNCHANGED cache /\ rewarmed' = rewarmed
        /\ cut' \subseteq cut /\ p \notin cut'
    BY <1>3 DEF EstCached, EstPc, probing
  <2>2. CASE SessionUsable
    <3>1. LeaveEstablish(p, "got", session) /\ "got" \in DialPc \ EstPc
      BY <1>1, <1>3, <2>2 DEF EstCached, StreamPc
    <3> QED BY <1>2, <2>1, <3>1
  <2>3. CASE ~SessionUsable
    <3>1. Moved(p, "estreset", 0) /\ inflight' = inflight
      BY <1>0, <1>3, <2>3, MovedFacts DEF EstCached
    <3>2. PcOK'
      BY <1>0, <1>1, <3>1, PcKept DEF EstPc
    <3>3. Exclusive'
      <4>1. \A d \in Dials : pc'[d] \in EstPc <=> pc[d] \in EstPc
        BY <2>1, <3>1 DEF Moved, Procs, EstPc
      <4> QED BY <1>0, <3>1, <4>1, ExclusiveKept
    <3>4. Newest'
      BY <1>0, <2>1, <3>1 DEF Newest, Moved, Procs, EstPc, cache
    <3>5. CutExpired'
      BY <1>0, <2>1, <3>1 DEF CutExpired, Moved, Procs, StreamPc, RestOK, cache
    <3> QED BY <3>2, <3>3, <3>4, <3>5 DEF Safe
  <2> QED BY <2>2, <2>3
<1>4. CASE EstReset(p)
  <2>1. Moved(p, "estbump", 0)
    BY <1>0, <1>4, MovedFacts DEF EstReset
  <2>2. /\ Reset /\ inflight' = inflight /\ rewarmed' = rewarmed
        /\ pc[p] \in EstPc /\ "estbump" \in EstPc /\ "estbump" \notin StreamPc
    BY <1>4 DEF EstReset, EstPc, StreamPc, probing
  <2> QED BY <1>0, <1>1, <2>1, <2>2, ResetSafe
<1>5. CASE EstBump(p)
  <2>1. /\ Moved(p, "connect", generation + 1) /\ inflight' = inflight
        /\ generation' = generation + 1 /\ session' = session /\ cut' = cut
        /\ rewarmed' = rewarmed /\ pc[p] = "estbump"
    BY <1>0, <1>5, MovedFacts DEF EstBump, probing
  <2>2. PcOK'
    BY <1>0, <1>1, <2>1, PcKept DEF EstPc
  <2>3. Exclusive'
    <3>1. \A d \in Dials : pc'[d] \in EstPc <=> pc[d] \in EstPc
      BY <2>1 DEF Moved, Procs, EstPc
    <3> QED BY <1>0, <2>1, <3>1, ExclusiveKept
  <2>4. Newest'
    <3> SUFFICES ASSUME ~rewarmed PROVE Newest'
      BY <2>1 DEF Newest
    <3>1. p \in Dials /\ session = 0
      BY <1>0, <2>1 DEF Newest, EstPc
    <3>2. \A d \in Dials : d # p => pc[d] \notin EstPc
      BY <1>0, <2>1, <3>1 DEF Exclusive, EstPc
    <3>3. \A d \in Dials : d # p => pc'[d] \notin {"connect", "install"}
      BY <2>1, <3>2 DEF Moved, Procs, EstPc
    <3>4. pc'[Prober] \notin EstPc
      BY <1>0, <2>1, <3>1 DEF Newest, Moved, Procs, EstPc
    <3> QED BY <2>1, <3>1, <3>3, <3>4 DEF Newest, Moved
  <2>5. CutExpired'
    <3> SUFFICES ASSUME NEW d \in cut, pc'[d] \in StreamPc PROVE own'[d] < generation'
      BY <2>1 DEF CutExpired
    <3>1. d \in Procs /\ d # p /\ pc[d] \in StreamPc /\ own'[d] = own[d]
      BY <1>0, <2>1 DEF Moved, Procs, StreamPc, RestOK
    <3>2. own[d] \in Nat /\ own[d] < generation
      BY <1>0, <3>1 DEF CutExpired, TaskOK
    <3> QED BY <1>0, <2>1, <3>1, <3>2
  <2> QED BY <2>2, <2>3, <2>4, <2>5 DEF Safe
<1>6. CASE ConnectOk(p)
  <2>1. /\ Moved(p, "install", own[p]) /\ inflight' = inflight /\ pc[p] = "connect"
        /\ generation' = generation /\ session' = session /\ cut' = cut
        /\ rewarmed' = rewarmed
    BY <1>0, <1>6, MovedFacts DEF ConnectOk, probing
  <2>2. PcOK'
    BY <1>0, <1>1, <2>1, PcKept DEF EstPc, PcOK
  <2>3. Exclusive'
    <3>1. \A d \in Dials : pc'[d] \in EstPc <=> pc[d] \in EstPc
      BY <2>1 DEF Moved, Procs, EstPc
    <3> QED BY <1>0, <2>1, <3>1, ExclusiveKept
  <2>4. Newest'
    BY <1>0, <2>1 DEF Newest, Moved, Procs, EstPc
  <2>5. CutExpired'
    BY <1>0, <2>1 DEF CutExpired, Moved, Procs, StreamPc, RestOK
  <2> QED BY <2>2, <2>3, <2>4, <2>5 DEF Safe
<1>7. ASSUME NEW class, EstFail(p, class), pc[p] \in EstPc PROVE Safe'
  BY <1>1, <1>2, <1>7 DEF EstFail, probing
<1>8. CASE ConnectFail(p)
  BY <1>7, <1>8 DEF ConnectFail, EstPc
<1>9. CASE Install(p)
  <2>1. /\ Moved(p, "estcheck", 0) /\ inflight' = inflight /\ pc[p] = "install"
        /\ generation' = generation /\ session' = own[p] /\ cut' = cut
        /\ rewarmed' = rewarmed
    BY <1>0, <1>9, MovedFacts DEF Install, probing
  <2>2. PcOK'
    BY <1>0, <1>1, <2>1, PcKept DEF EstPc
  <2>3. Exclusive'
    <3>1. \A d \in Dials : pc'[d] \in EstPc <=> pc[d] \in EstPc
      BY <2>1 DEF Moved, Procs, EstPc
    <3> QED BY <1>0, <2>1, <3>1, ExclusiveKept
  <2>4. Newest'
    <3> SUFFICES ASSUME ~rewarmed PROVE Newest'
      BY <2>1 DEF Newest
    <3>1. p \in Dials /\ own[p] = generation
      BY <1>0, <2>1 DEF Newest, EstPc
    <3>2. \A d \in Dials : d # p => pc[d] \notin EstPc
      BY <1>0, <2>1, <3>1 DEF Exclusive, EstPc
    <3>3. \A d \in Dials : pc'[d] \notin {"estbump", "connect", "install"}
      BY <2>1, <3>2 DEF Moved, Procs, EstPc
    <3>4. pc'[Prober] \notin EstPc
      BY <1>0, <2>1, <3>1 DEF Newest, Moved, Procs, EstPc
    <3> QED BY <2>1, <3>1, <3>3, <3>4 DEF Newest
  <2>5. CutExpired'
    BY <1>0, <2>1 DEF CutExpired, Moved, Procs, StreamPc, RestOK
  <2> QED BY <2>2, <2>3, <2>4, <2>5 DEF Safe
<1>10. CASE EstCheck(p)
  <2>1. CASE SessionUsable
    <3>1. /\ LeaveEstablish(p, "got", session) /\ "got" \in DialPc \ EstPc
          /\ pc[p] \in EstPc /\ UNCHANGED cache /\ rewarmed' = rewarmed
          /\ cut' \subseteq cut /\ p \notin cut'
      BY <1>1, <1>10, <2>1 DEF EstCheck, EstPc, StreamPc, probing
    <3> QED BY <1>2, <3>1
  <2>2. CASE ~SessionUsable
    BY <1>7, <1>10, <2>2 DEF EstCheck, EstPc
  <2> QED BY <2>1, <2>2
<1> QED BY <1>3, <1>4, <1>5, <1>6, <1>8, <1>9, <1>10 DEF Establish

\* Every step of a dial keeps the rest of the invariant.
LEMMA DialSafe ==
  ASSUME IInv, NEW d \in Dials, Dial(d) PROVE Safe'
<1> USE ProberAssumption
<1>0. TaskOK /\ RestOK /\ CacheOK /\ d \in Procs /\ PcOK /\ Exclusive /\ Newest /\ CutExpired
  BY TypeParts DEF IInv, Procs
<1>1. /\ {"start", "retryreset"} \cup GetPc \cup StreamPc \cup Final \subseteq DialPc \ EstPc
      /\ {"start", "retryreset"} \cup GetPc \cup Final \subseteq DialPc \ StreamPc
      /\ \A class : AfterError(d, class) \in DialPc \ EstPc /\ AfterError(d, class) \notin StreamPc
  BY DEF DialPc, GetPc, EstPc, StreamPc, Final, AfterError
<1>2. ASSUME NEW next \in DialPc \ (EstPc \cup StreamPc), NEW c, Goto(d, next, c),
             pc[d] \notin EstPc, UNCHANGED <<cache, inflight, rewarmed, cut>>
      PROVE  Safe'
  BY <1>0, <1>2, MovedFacts, CalmDialSafe
<1>3. ASSUME NEW next \in StreamPc, Goto(d, next, own[d]),
             pc[d] \in StreamPc, UNCHANGED <<cache, inflight, rewarmed, cut>>
      PROVE  Safe'
  BY <1>0, <1>1, <1>3, MovedFacts, CalmDialSafe
<1>4. CASE Acquire(d)
  BY <1>1, <1>2, <1>4 DEF Acquire, GetPc, EstPc, probing
<1>5. CASE AcquireTimeout(d)
  BY <1>1, <1>2, <1>5 DEF AcquireTimeout, Final, EstPc, probing
<1>6. CASE GetCached(d)
  <2>1. /\ pc[d] \notin EstPc /\ UNCHANGED cache /\ inflight' = inflight
        /\ rewarmed' = rewarmed /\ cut' \subseteq cut /\ d \notin cut'
    BY <1>6 DEF GetCached, EstPc, probing
  <2>2. \E next \in DialPc \ EstPc : \E c : Moved(d, next, c)
    BY <1>0, <1>1, <1>6, MovedFacts DEF GetCached, GetPc, StreamPc
  <2> QED BY <2>1, <2>2, CalmDialSafe
<1>7. CASE GetCas(d)
  <2>1. CASE inflight
    BY <1>1, <1>2, <1>7, <2>1 DEF GetCas, GetPc, EstPc, probing
  <2>2. CASE ~inflight
    <3>1. /\ Moved(d, "est", 0) /\ UNCHANGED cache /\ inflight' = TRUE
          /\ rewarmed' = rewarmed /\ cut' = cut
      BY <1>0, <1>7, <2>2, MovedFacts DEF GetCas, probing
    <3>2. PcOK'
      BY <1>0, <3>1, PcKept DEF DialPc, EstPc
    <3>3. Exclusive'
      <4>1. pc'[d] \in EstPc /\ \A e \in Dials : e # d /\ pc'[e] \in EstPc => pc[e] \in EstPc
        BY <3>1 DEF Moved, Procs, EstPc
      <4> QED BY <1>0, <2>2, <3>1, <4>1, ExclusiveEntered
    <3>4. Newest'
      BY <1>0, <3>1 DEF Newest, Moved, Procs, EstPc, cache
    <3>5. CutExpired'
      BY <1>0, <3>1 DEF CutExpired, Moved, Procs, StreamPc, RestOK, cache
    <3> QED BY <3>2, <3>3, <3>4, <3>5 DEF Safe
  <2> QED BY <2>1, <2>2
<1>8. CASE GetSubscribe(d)
  BY <1>1, <1>2, <1>8 DEF GetSubscribe, GetPc, EstPc, probing
<1>9. CASE WaitTimeout(d)
  BY <1>1, <1>2, <1>9 DEF WaitTimeout, EstPc, probing
<1>10. CASE Establish(d)
  BY <1>0, <1>10, EstablishSafe
<1>11. CASE GotSession(d)
  BY <1>1, <1>2, <1>3, <1>11 DEF GotSession, Final, StreamPc, EstPc, probing
<1>12. CASE OpenStream(d)
  BY <1>1, <1>2, <1>3, <1>12 DEF OpenStream, Final, StreamPc, EstPc, probing
<1>13. CASE ReadReply(d)
  BY <1>1, <1>3, <1>13 DEF ReadReply, StreamPc, EstPc, probing
<1>14. CASE VerifyReply(d)
  BY <1>1, <1>2, <1>14 DEF VerifyReply, Final, EstPc, probing
<1>15. CASE StreamFail(d)
  BY <1>1, <1>2, <1>15 DEF StreamFail, EstPc, probing
<1>16. CASE RetryReset(d)
  <2>1. Moved(d, "start", 0) /\ Reset /\ inflight' = inflight /\ rewarmed' = rewarmed
    BY <1>0, <1>16, MovedFacts DEF RetryReset, probing
  <2>2. pc[d] \notin EstPc /\ "start" \notin EstPc \cup StreamPc /\ "start" \in DialPc
    BY <1>16 DEF RetryReset, EstPc, StreamPc, DialPc
  <2> QED BY <1>0, <2>1, <2>2, ResetSafe
<1> QED BY <1>4, <1>5, <1>6, <1>7, <1>8, <1>9, <1>10, <1>11, <1>12, <1>13, <1>14, <1>15,
           <1>16 DEF Dial

\* Every step of the probe loop keeps the rest of the invariant.
LEMMA ProbeSafe ==
  ASSUME IInv, Probe PROVE Safe'
<1>0. TaskOK /\ Prober \in Procs
  BY TypeParts DEF IInv, Procs
<1>1. /\ {"sleep", "probe", "probereset"} \subseteq ProbePc \ EstPc
      /\ "est" \in ProbePc /\ "est" \notin StreamPc
  BY DEF ProbePc, EstPc, StreamPc
<1>2. ASSUME NEW next \in ProbePc \ EstPc, NEW c, Goto(Prober, next, c),
             UNCHANGED <<cache, inflight, rewarmed, cut>>
      PROVE  Safe'
  BY <1>0, <1>2, MovedFacts, CalmProbeSafe DEF EstPc
<1>3. CASE ProbePick
  BY <1>1, <1>2, <1>3 DEF ProbePick
<1>4. CASE ProbeOk
  BY <1>1, <1>2, <1>4 DEF ProbeOk
<1>5. CASE ProbeTimeout
  BY <1>1, <1>2, <1>5 DEF ProbeTimeout
<1>6. CASE ProbeFailed
  BY <1>1, <1>2, <1>6 DEF ProbeFailed
<1>7. CASE ProbeReset
  <2>1. Moved(Prober, "est", 0) /\ Reset /\ inflight' = inflight /\ rewarmed'
    BY <1>0, <1>7, MovedFacts DEF ProbeReset
  <2> QED BY <1>0, <1>1, <2>1, ResetSafe, ProberAssumption
<1>8. CASE Establish(Prober)
  BY <1>0, <1>8, EstablishSafe
<1> QED BY <1>3, <1>4, <1>5, <1>6, <1>7, <1>8 DEF Probe

\* Close events, losses, ageing, cancellation and close() keep the rest of the
\* invariant.
LEMMA EnvironmentSafe ==
  ASSUME IInv, Environment PROVE Safe'
<1>0. /\ TaskOK /\ RestOK /\ CacheOK /\ PcOK /\ Exclusive /\ Newest /\ CutExpired
      /\ generation \in Nat
  BY TypeParts DEF IInv, CacheOK
<1>1. ASSUME UNCHANGED <<generation, inflight, pc, own, cut, rewarmed>>,
             session' = session \/ session' = 0
      PROVE  Safe'
  <2>1. PcOK' /\ Exclusive'
    BY <1>0, <1>1 DEF PcOK, Exclusive
  <2>2. Newest' /\ CutExpired'
    BY <1>0, <1>1 DEF Newest, CutExpired
  <2> QED BY <2>1, <2>2 DEF Safe
<1>2. CASE Close
  <2>1. /\ Reset /\ inflight' = inflight /\ pc' = pc /\ own' = own /\ rewarmed' = rewarmed
        /\ session # 0
    BY <1>2 DEF Close, probing
  <2>2. /\ generation' = generation + 1 /\ session' = 0
        /\ session \in 0..generation
        /\ cut' = cut \cup {d \in Dials : own[d] = session}
    BY <1>0, <2>1 DEF Reset, CacheOK
  <2>3. PcOK' /\ Exclusive'
    BY <1>0, <2>1 DEF PcOK, Exclusive
  <2>4. Newest'
    BY <1>0, <2>1, <2>2 DEF Newest
  <2>5. CutExpired'
    <3> SUFFICES ASSUME NEW d \in cut', pc[d] \in StreamPc PROVE own[d] < generation'
      BY <2>1 DEF CutExpired
    <3>1. d \in Procs /\ own[d] \in Nat
      BY <1>0, <2>2 DEF RestOK, TaskOK, Procs
    <3>2. CASE d \in cut
      BY <1>0, <2>2, <3>1, <3>2 DEF CutExpired
    <3>3. CASE d \notin cut
      BY <1>0, <2>2, <3>1, <3>3
    <3> QED BY <3>2, <3>3
  <2> QED BY <2>3, <2>4, <2>5 DEF Safe
<1>3. CASE AgeOut
  BY <1>1, <1>3 DEF AgeOut, probing
<1>4. ASSUME NEW d \in Dials, Cancel(d) PROVE Safe'
  <2>1. /\ d \in Procs /\ UNCHANGED cache /\ rewarmed' = rewarmed /\ cut' = cut
        /\ "cancelled" \in DialPc \ EstPc /\ "cancelled" \notin StreamPc
    BY <1>4 DEF Cancel, Procs, probing, DialPc, EstPc, StreamPc, Final
  <2>2. CASE pc[d] \in EstPc
    BY <1>0, <1>4, <2>1, <2>2, MovedFacts, LeaveDialSafe DEF Cancel
  <2>3. CASE pc[d] \notin EstPc
    BY <1>0, <1>4, <2>1, <2>3, MovedFacts, CalmDialSafe DEF Cancel
  <2> QED BY <2>2, <2>3
<1>5. ASSUME NEW c \in closing, CloseWatcher(c) PROVE Safe'
  BY <1>1, <1>5 DEF CloseWatcher, probing
<1>6. ASSUME NEW c \in live, ConnectionLost(c) PROVE Safe'
  BY <1>1, <1>6 DEF ConnectionLost, probing
<1> QED BY <1>2, <1>3, <1>4, <1>5, <1>6 DEF Environment

\* Every step, a stuttering one included, keeps the inductive invariant.
LEMMA NextIInv == IInv /\ [Next]_vars => IInv'
<1> SUFFICES ASSUME IInv, [Next]_vars PROVE IInv'
  OBVIOUS
<1>1. TypeOK /\ PcOK
  BY DEF IInv
<1>2. CASE Probe
  BY <1>1, <1>2, ProbeTypeOK, ProbeSafe DEF IInv, Safe
<1>3. CASE Environment
  BY <1>1, <1>3, EnvironmentTypeOK, EnvironmentSafe DEF IInv, Safe
<1>4. ASSUME NEW d \in Dials, Dial(d) PROVE IInv'
  BY <1>1, <1>4, DialTypeOK, DialSafe DEF IInv, Safe
<1>5. CASE UNCHANGED vars
  <2>1. UNCHANGED <<session, generation, aged, live, closing, inflight, pc, own, tries, cut,
                    fails, probes, rewarmed>>
    BY <1>5 DEF vars, cache, probing
  <2>2. TypeOK'
    BY <1>1, <2>1 DEF TypeOK
  <2>3. PcOK' /\ Exclusive'
    BY <2>1 DEF IInv, PcOK, Exclusive
  <2>4. Newest' /\ CutExpired'
    BY <2>1 DEF IInv, Newest, CutExpired
  <2> QED BY <2>2, <2>3, <2>4 DEF IInv
<1> QED BY <1>2, <1>3, <1>4, <1>5 DEF Next
-----------------------------------------------------------------------------
\* The inductive invariant holds in every reachable state.
LEMMA Inductive == Spec => []IInv
BY InitIInv, NextIInv, PTL DEF Spec

\* The state of RsqShared and of every task stays well typed.
THEOREM TypeCorrect == Spec => []TypeOK
<1>1. IInv => TypeOK
  BY DEF IInv
<1> QED BY <1>1, Inductive, PTL

\* connect_inflight is set exactly while one dial runs establish_session, and
\* no two dials run it together, however many dials, cancellations and resets
\* there are.
THEOREM SingleFlight == Spec => []ConnectExclusive
<1>1. IInv => ConnectExclusive
  BY DEF IInv, Exclusive, ConnectExclusive, Establishing
<1> QED BY <1>1, Inductive, PTL

\* The dial path alone never caches a session whose generation has expired;
\* only a rewarm by the prober can.
THEOREM NoStaleSessionWithoutRewarm == Spec => []StaleOnlyAfterRewarm
<1>1. IInv => StaleOnlyAfterRewarm
  BY DEF IInv, Newest, StaleOnlyAfterRewarm
<1> QED BY <1>1, Inductive, PTL

\* reset_session cuts off every TCP dial that holds the session it takes: no
\* such dial returns a stream, whenever the reset falls between its awaits.
THEOREM ResetCutsDials == Spec => NoStreamOnResetSession
<1> DEFINE Ends(d) == pc[d] # "ok" /\ pc'[d] = "ok"
<1>1. ASSUME IInv, [Next]_vars, NEW d \in TcpDials \cup DnsDials, Ends(d)
      PROVE  d \notin cut
  <2>0. /\ TaskOK /\ d \in Dials /\ d \in Procs /\ d # Prober /\ d \notin UdpDials
        /\ generation \in Nat
    BY <1>1, TypeParts, ProberAssumption, KindsAssumption DEF IInv, Dials, Procs, CacheOK
  <2>1. \A p \in Procs : \A next, c : next # "ok" =>
          /\ ~Goto(p, next, c) /\ ~DropGuard(p, next, c) /\ ~LeaveEstablish(p, next, c)
    BY <1>1, <2>0 DEF TaskOK, Goto, DropGuard, LeaveEstablish
  <2>2. \A p \in Procs : \A next, c : p # d => ~Goto(p, next, c)
    BY <1>1, <2>0 DEF TaskOK, Goto
  <2>3. \A p \in Procs : \A class : AfterError(p, class) # "ok"
    BY DEF AfterError
  <2>4. pc' # pc
    BY <1>1
  <2>5. Prober \in Procs /\ \A e \in Dials : e \in Procs
    BY DEF Procs
  <2>6. \A p \in Procs : ~Establish(p)
    BY <2>1, <2>3 DEF Establish, EstCached, EstReset, EstBump, ConnectOk, ConnectFail, EstFail,
                      Install, EstCheck
  <2>7. ~Probe
    BY <2>1, <2>5, <2>6 DEF Probe, ProbePick, ProbeOk, ProbeTimeout, ProbeFailed, ProbeReset
  <2>8. ~Environment
    BY <2>1, <2>4, <2>5 DEF Environment, Close, AgeOut, Cancel, CloseWatcher, ConnectionLost
  <2>9. PICK e \in Dials : Dial(e)
    BY <1>1, <2>4, <2>7, <2>8 DEF Next, vars
  <2>10. VerifyReply(e) \/ GotSession(e)
    BY <2>1, <2>3, <2>5, <2>6, <2>9 DEF Dial, Acquire, AcquireTimeout, GetCached, GetCas,
       GetSubscribe, WaitTimeout, OpenStream, ReadReply, StreamFail, RetryReset
  <2>11. e = d
    BY <2>2, <2>5, <2>10 DEF VerifyReply, GotSession
  <2>12. pc[d] = "verify" /\ own[d] = generation
    BY <2>0, <2>1, <2>10, <2>11 DEF VerifyReply, GotSession
  <2> QED BY <1>1, <2>0, <2>12 DEF IInv, CutExpired, StreamPc
<1>2. IInv /\ [Next]_vars => [\A d \in TcpDials \cup DnsDials : Ends(d) => d \notin cut]_vars
  BY <1>1
<1> QED BY <1>2, Inductive, PTL DEF Spec, NoStreamOnResetSession
-----------------------------------------------------------------------------
(* Connections have names of their own: what a task is connecting is not open
   yet, and no two tasks connect the same. *)
Fresh ==
  /\ closing \cap live = {}
  /\ \A p \in Procs : pc[p] = "connect" => own[p] \notin live \cup closing
  /\ \A p, q \in Procs : p # q /\ pc[p] = "connect" /\ pc[q] = "connect" => own[p] # own[q]

\* No task begins to connect.
NoneBegins == \A p \in Procs : pc'[p] = "connect" => pc[p] = "connect" /\ own'[p] = own[p]

\* Connections are closed at most.
OnlyCloses == live' \subseteq live /\ closing' \subseteq closing \cup live /\ closing' \cap live' = {}

\* Moving a task anywhere but into a connect begins none.
LEMMA MoveBeginsNone ==
  ASSUME TaskOK
  PROVE  /\ UNCHANGED <<pc, own>> => NoneBegins
         /\ \A p \in Procs : \A next, c : next # "connect" =>
              /\ Goto(p, next, c) => NoneBegins
              /\ DropGuard(p, next, c) => NoneBegins
              /\ LeaveEstablish(p, next, c) => NoneBegins
<1>1. UNCHANGED <<pc, own>> => NoneBegins
  BY DEF NoneBegins
<1>2. ASSUME NEW p \in Procs, NEW next, NEW c, next # "connect", Goto(p, next, c) PROVE NoneBegins
  BY <1>2 DEF TaskOK, Goto, NoneBegins
<1>3. ASSUME NEW p \in Procs, NEW next, NEW c, next # "connect", DropGuard(p, next, c) PROVE NoneBegins
  BY <1>3 DEF TaskOK, DropGuard, NoneBegins
<1> QED BY <1>1, <1>2, <1>3 DEF LeaveEstablish

\* A step either begins or ends a connect, or begins none and closes at most;
\* what it takes out of the cache is then closed.
LEMMA StepFacts ==
  ASSUME IInv, Fresh, [Next]_vars
  PROVE  /\ \/ \E p \in Procs : EstBump(p) \/ ConnectOk(p)
            \/ NoneBegins /\ OnlyCloses
         /\ session' = 0 /\ session \in live => session \notin live'
<1>0. /\ TaskOK /\ 0 \notin live /\ closing \cap live = {} /\ Prober \in Procs /\ Dials \subseteq Procs
      /\ \A p \in Procs : pc[p] = "install" => own[p] # 0
  BY TypeParts DEF IInv, CacheOK, Fresh, PcOK, Procs
<1> DEFINE Goal == /\ \/ \E p \in Procs : EstBump(p) \/ ConnectOk(p)
                      \/ NoneBegins /\ OnlyCloses
                   /\ session' = 0 /\ session \in live => session \notin live'
<1>1. ASSUME NoneBegins, UNCHANGED cache PROVE Goal
  BY <1>0, <1>1 DEF OnlyCloses, cache
<1>2. ASSUME NoneBegins, Reset PROVE Goal
  BY <1>0, <1>2 DEF Reset, OnlyCloses, cache
<1>3. \A p, class : AfterError(p, class) # "connect"
  BY DEF AfterError
<1> HIDE DEF Goal
<1>4. ASSUME NEW p \in Procs, Establish(p) PROVE Goal
  <2>1. CASE EstBump(p)
    BY <2>1, <1>0 DEF EstBump, Goal
  <2>2. CASE ConnectOk(p)
    BY <2>2, <1>0 DEF ConnectOk, Goal
  <2>3. CASE Install(p)
    <3>1. NoneBegins
      BY <2>3, <1>0, MoveBeginsNone DEF Install
    <3> QED BY <2>3, <3>1, <1>0 DEF Install, Goal, OnlyCloses
  <2>4. CASE EstCached(p)
    BY <2>4, <1>0, <1>1, MoveBeginsNone DEF EstCached
  <2>5. CASE EstReset(p)
    BY <2>5, <1>0, <1>2, MoveBeginsNone DEF EstReset
  <2>6. CASE ConnectFail(p)
    BY <2>6, <1>0, <1>1, <1>3, MoveBeginsNone DEF ConnectFail, EstFail
  <2>7. CASE EstCheck(p)
    BY <2>7, <1>0, <1>1, <1>3, MoveBeginsNone DEF EstCheck, EstFail
  <2> QED BY <1>4, <2>1, <2>2, <2>3, <2>4, <2>5, <2>6, <2>7 DEF Establish
<1>5. ASSUME NEW d \in Dials, Dial(d) PROVE Goal
  <2>1. CASE Establish(d)
    BY <2>1, <1>0, <1>4
  <2>2. CASE RetryReset(d)
    BY <2>2, <1>0, <1>2, MoveBeginsNone DEF RetryReset
  <2>3. CASE Acquire(d) \/ AcquireTimeout(d) \/ GetCached(d) \/ GetCas(d) \/ GetSubscribe(d)
    BY <2>3, <1>0, <1>1, MoveBeginsNone DEF Acquire, AcquireTimeout, GetCached, GetCas, GetSubscribe
  <2>4. CASE WaitTimeout(d) \/ StreamFail(d)
    BY <2>4, <1>0, <1>1, <1>3, MoveBeginsNone DEF WaitTimeout, StreamFail
  <2>5. CASE GotSession(d) \/ OpenStream(d) \/ ReadReply(d) \/ VerifyReply(d)
    BY <2>5, <1>0, <1>1, MoveBeginsNone DEF GotSession, OpenStream, ReadReply, VerifyReply
  <2> QED BY <1>5, <2>1, <2>2, <2>3, <2>4, <2>5 DEF Dial
<1>6. ASSUME Probe PROVE Goal
  <2>1. CASE ProbeReset
    BY <2>1, <1>0, <1>2, MoveBeginsNone DEF ProbeReset
  <2>2. CASE ProbePick \/ ProbeOk \/ ProbeTimeout \/ ProbeFailed
    BY <2>2, <1>0, <1>1, MoveBeginsNone DEF ProbePick, ProbeOk, ProbeTimeout, ProbeFailed
  <2> QED BY <1>0, <1>4, <1>6, <2>1, <2>2 DEF Probe
<1>7. ASSUME Environment PROVE Goal
  <2>1. CASE Close
    BY <2>1, <1>0, <1>2, MoveBeginsNone DEF Close
  <2>2. CASE \E d \in Dials : Cancel(d)
    BY <2>2, <1>0, <1>1, MoveBeginsNone DEF Cancel
  <2>3. CASE AgeOut
    <3>1. NoneBegins
      BY <2>3, <1>0, MoveBeginsNone DEF AgeOut
    <3> QED BY <2>3, <3>1, <1>0 DEF AgeOut, Goal, OnlyCloses
  <2>4. ASSUME NEW c \in closing, CloseWatcher(c) PROVE Goal
    <3>1. NoneBegins
      BY <2>4, <1>0, MoveBeginsNone DEF CloseWatcher
    <3> QED BY <2>4, <3>1, <1>0 DEF CloseWatcher, Goal, OnlyCloses
  <2>5. ASSUME NEW c \in live, ConnectionLost(c) PROVE Goal
    <3>1. NoneBegins
      BY <2>5, <1>0, MoveBeginsNone DEF ConnectionLost
    <3> QED BY <2>5, <3>1, <1>0 DEF ConnectionLost, Goal, OnlyCloses
  <2> QED BY <1>7, <2>1, <2>2, <2>3, <2>4, <2>5 DEF Environment
<1>8. ASSUME UNCHANGED vars PROVE Goal
  BY <1>8, <1>0, <1>1, MoveBeginsNone DEF vars
<1> QED BY <1>5, <1>6, <1>7, <1>8 DEF Next, Goal

\* The names stay fresh.
LEMMA FreshKept == IInv /\ Fresh /\ [Next]_vars => Fresh'
<1> SUFFICES ASSUME IInv, Fresh, [Next]_vars PROVE Fresh'
  OBVIOUS
<1>0. TaskOK /\ CacheOK /\ generation \in Nat
  BY TypeParts DEF IInv, CacheOK
<1>1. CASE NoneBegins /\ OnlyCloses
  BY <1>1 DEF Fresh, NoneBegins, OnlyCloses
<1>2. ASSUME NEW p \in Procs, EstBump(p) PROVE Fresh'
  <2>1. \A q \in Procs : /\ pc'[q] = (IF q = p THEN "connect" ELSE pc[q])
                         /\ own'[q] = (IF q = p THEN generation + 1 ELSE own[q])
    BY <1>0, <1>2 DEF EstBump, Goto, TaskOK
  <2>2. generation + 1 \notin live \cup closing /\ \A q \in Procs : own[q] # generation + 1
    BY <1>0 DEF TaskOK, CacheOK
  <2>3. UNCHANGED <<live, closing>>
    BY <1>2 DEF EstBump
  <2> QED BY <2>1, <2>2, <2>3 DEF Fresh
<1>3. ASSUME NEW p \in Procs, ConnectOk(p) PROVE Fresh'
  <2>1. /\ pc[p] = "connect" /\ live' = live \cup {own[p]} /\ closing' = closing
        /\ \A q \in Procs : /\ pc'[q] = (IF q = p THEN "install" ELSE pc[q])
                            /\ own'[q] = own[q]
    BY <1>0, <1>3 DEF ConnectOk, Goto, TaskOK
  <2> QED BY <2>1 DEF Fresh
<1> QED BY <1>1, <1>2, <1>3, StepFacts

\* The close event of an earlier connection never evicts its successor: a live
\* session leaves the cache only by being closed, for any dials and probes.
THEOREM LiveSessionKept == Spec => LiveSessionEvictedOnlyByReset
<1>1. Init => Fresh
  BY ProberAssumption DEF Init, Fresh, Procs
<1>2. Spec => []Fresh
  BY <1>1, FreshKept, Inductive, PTL DEF Spec
<1>3. IInv /\ Fresh /\ [Next]_vars => [session' = 0 /\ session \in live => session \notin live']_vars
  BY StepFacts
<1> QED BY <1>2, <1>3, Inductive, PTL DEF Spec, LiveSessionEvictedOnlyByReset
=============================================================================
