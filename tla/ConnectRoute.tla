---------------------------- MODULE ConnectRoute ----------------------------
(***************************************************************************)
(* How a CONNECT or SOCKS request gets its outbound.  RuleRouter::route     *)
(* (rsb-route/src/lib.rs) is asked twice: resolve_for_connect               *)
(* (inbound_proxy.rs) asks before the name is resolved, to choose the       *)
(* resolver and to decide whether the dial takes a dial permit, and         *)
(* Dialer::dial_tcp (rsb-core/src/runtime.rs) asks again with the           *)
(* destination, and dials what it is told.                                  *)
(*                                                                         *)
(* There is one request, so a rule is what it says of this request.  A rule *)
(* whose inbound, network, port list, source, protocol or process excludes  *)
(* the request never matches and is left out.                               *)
(***************************************************************************)
EXTENDS Integers, Sequences, FiniteSetsExt

CONSTANTS
  Rules,        \* the rules that occur in configurations
  MaxRules,     \* bound on their number in one configuration
  Tags,         \* tags of the outbounds,
  DirectTags,   \* and of those of type direct
  Addrs,        \* destination addresses
  Unspecified,  \* 0.0.0.0, the placeholder for a name
  PrivateAddrs, \* the addresses is_private_ip accepts
  None          \* Option::None

ASSUME TagsAssumption == DirectTags \subseteq Tags /\ None \notin Tags
ASSUME AddrsAssumption ==
  Unspecified \in Addrs /\ PrivateAddrs \subseteq Addrs /\ None \notin Addrs
ASSUME MaxRulesAssumption == MaxRules \in Nat

\* A rule: whether it lists ports, what kind of matcher it has, whether its
\* names match the request's, the addresses it lists, and its outbound.
\* "list" stands for domain, domain_suffix, domain_keyword, ip_cidr and
\* rule_set, which match alike; "only" is a rule without a matcher of its own.
RuleType == [port : BOOLEAN, kind : {"private", "geo", "list", "only"},
             names : BOOLEAN, ips : SUBSET Addrs, geoip : SUBSET Addrs, tag : Tags]

ASSUME RulesAssumption == Rules \subseteq RuleType

VARIABLES
  rules, defaultTag,  \* configuration
  domain, dest,       \* the request: whether it names a host, and its address
  pc,
  first,              \* outbound of the first routing
  resolved,           \* destination after resolution
  queued,             \* the dial holds a permit of DIAL_LIMITER
  second              \* outbound of the second routing, the one dialled

config == <<rules, defaultTag, domain, dest>>
vars == <<config, pc, first, resolved, queued, second>>

TypeOK ==
  /\ rules \in Seq(Rules) /\ Len(rules) <= MaxRules /\ defaultTag \in Tags
  /\ domain \in BOOLEAN /\ dest \in Addrs
  /\ pc \in {"route", "resolve", "permit", "dial", "dialled", "err"}
  /\ first \in Tags \cup {None} /\ second \in Tags \cup {None}
  /\ resolved \in Addrs \cup {None} /\ queued \in BOOLEAN
  /\ (pc = "dialled" => second \in Tags) /\ (pc = "dial" => resolved # None)

\* A host name comes with the placeholder address.
Init ==
  /\ \E n \in 0..MaxRules : rules \in [1..n -> Rules]
  /\ defaultTag \in Tags
  /\ domain \in BOOLEAN /\ dest \in Addrs /\ (domain => dest = Unspecified)
  /\ pc = "route" /\ first = None /\ resolved = None /\ queued = FALSE /\ second = None
-----------------------------------------------------------------------------
(* RuleRouter::route for the request with destination a *)

RuleSetMatches(r, a) == (domain /\ r.names) \/ a \in r.ips

\* Mutant of Matches: the placeholder counts as an address for geoip.
MatchesPlaceholder(r, a) ==
  /\ r.port => a # None
  /\ \/ r.kind = "private" /\ a \in PrivateAddrs \ {Unspecified}
     \/ r.kind = "geo" /\ (RuleSetMatches(r, a) \/ a \in r.geoip)
     \/ r.kind = "list" /\ RuleSetMatches(r, a)
     \/ r.kind = "only"

Matches(r, a) ==
  /\ r.port => a # None
  /\ \/ r.kind = "private" /\ a \in PrivateAddrs \ {Unspecified}
     \/ r.kind = "geo" /\ (RuleSetMatches(r, a) \/ a \in r.geoip \ {Unspecified})
     \/ r.kind = "list" /\ RuleSetMatches(r, a)
     \/ r.kind = "only"

\* Mutant of Route: no rule, no outbound.
RouteWithoutDefault(a) ==
  LET hits == {i \in DOMAIN rules : Matches(rules[i], a)}
  IN IF hits = {} THEN None ELSE rules[Min(hits)].tag

\* The first rule that matches decides.
Route(a) ==
  LET hits == {i \in DOMAIN rules : Matches(rules[i], a)}
  IN IF hits = {} THEN defaultTag ELSE rules[Min(hits)].tag
-----------------------------------------------------------------------------
IsDirect(tag) == tag \in DirectTags

\* The placeholder is kept from the router.
RouteTag ==
  /\ pc = "route"
  /\ first' = Route(IF dest = Unspecified THEN None ELSE dest)
  /\ pc' = "resolve"
  /\ UNCHANGED <<config, resolved, queued, second>>

\* An address needs no resolution, a direct outbound does its own, and for
\* the others DnsRouter answers with some address or fails.
Resolve ==
  /\ pc = "resolve"
  /\ \/ ~domain /\ resolved' = dest /\ pc' = "permit"
     \/ domain /\ IsDirect(first) /\ resolved' = Unspecified /\ pc' = "permit"
     \/ domain /\ ~IsDirect(first) /\ resolved' \in Addrs /\ pc' = "permit"
     \/ domain /\ ~IsDirect(first) /\ pc' = "err" /\ UNCHANGED resolved
  /\ UNCHANGED <<config, first, queued, second>>

\* A dial the first routing calls direct needs no permit; another gets one,
\* or fails because the queue is saturated.
Permit ==
  /\ pc = "permit"
  /\ \/ queued' = ~IsDirect(first) /\ pc' = "dial"
     \/ ~IsDirect(first) /\ pc' = "err" /\ UNCHANGED queued
  /\ UNCHANGED <<config, first, resolved, second>>

\* Dialer::dial_tcp routes again; metadata.destination is now the resolved one.
DialTcp ==
  /\ pc = "dial"
  /\ second' = Route(resolved)
  /\ pc' = "dialled"
  /\ UNCHANGED <<config, first, resolved, queued>>

Next == RouteTag \/ Resolve \/ Permit \/ DialTcp

Spec == Init /\ [][Next]_vars
-----------------------------------------------------------------------------
(* Properties *)

\* The placeholder address that stands for an unresolved name in the second
\* routing never matches a geoip or ip_is_private rule: a name that was routed
\* to a direct outbound is dialled directly, unless some rule lists ports or
\* lists the placeholder among its addresses.
SeesPlaceholder(r) == r.port \/ Unspecified \in r.ips
DirectNamesStayDirect ==
  pc = "dialled" /\ domain /\ IsDirect(first)
    => \/ second = first
       \/ \E i \in DOMAIN rules : SeesPlaceholder(rules[i])

\* What the comment on MAX_CONCURRENT_DIALS demands, that a direct connection
\* must never enter the permit queue of the proxied ones.  Broken: the permit
\* is decided by the first routing, the outbound by the second.
DirectNeverQueues == pc = "dialled" /\ IsDirect(second) => ~queued
-----------------------------------------------------------------------------
(* Inductive invariant *)

\* What the two routings of a name have in common: the first saw no address,
\* and a direct outbound leaves the placeholder to the second.
Placeholder ==
  /\ rules \in Seq(Rules)
  /\ domain => dest = Unspecified
  /\ domain /\ pc # "route" => first = Route(None)
  /\ domain /\ pc \in {"permit", "dial"} /\ IsDirect(first) => resolved = Unspecified

\* The invariant that every step of a request preserves.
IInv == Placeholder /\ DirectNamesStayDirect
=============================================================================
