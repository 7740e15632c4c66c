----------------------------- MODULE RuleSetLoad -----------------------------
(***************************************************************************)
(* Loading the rule-sets of a router (load_rule_sets in                     *)
(* rsb-route/src/lib.rs, read_or_fetch_urls in rule_cache.rs).  The sets of *)
(* the configuration come first, then those the geosite and geoip rules     *)
(* name.  A remote set is read from the cache directory, or fetched from    *)
(* its URLs and written there.  The directory outlives the process, and the *)
(* process may die in the middle of a write.                                *)
(***************************************************************************)
EXTENDS Integers, Sequences, FiniteSets, Functions

CONSTANTS
  Conf,        \* the configured sets, a sequence of tags
  Kind,        \* for each tag "path", "inline" or "url"; geo sets are remote
  Geo,         \* tags of geo sets, a sequence
  Embedded,    \* the geo tags whose set is part of the program
  Name,        \* for each tag its file name after sanitize_tag
  MaxUrls,     \* URLs of a remote set
  MaxStarts,   \* bound on starts of the process
  None

Tags == {Conf[i] : i \in DOMAIN Conf} \cup {Geo[i] : i \in DOMAIN Geo}
Order == Conf \o Geo
IsGeo(i) == i > Len(Conf)
Files == {Name[t] : t \in Tags}
\* A body: whose set it is, and whether it parses.  "short" is a file of less
\* than 64 bytes.
Bodies == [of : Tags, parses : BOOLEAN]
NoFile == [of |-> None, parses |-> FALSE]
Short == [of |-> None, parses |-> TRUE]

VARIABLES
  disk,      \* the cache directory
  starts,
  pc,        \* "down", "next", "cache", "fetch", "write", "parse", "ready", "failed"
  i,         \* position in Order
  url,       \* URL in turn
  body,      \* what has been read
  map,       \* sets loaded by this start
  sets,      \* the sets the router answers from
  cached     \* whether every remote set was well cached when this start began
vars == <<disk, starts, pc, i, url, body, map, sets, cached>>

TypeOK ==
  /\ disk \in [Files -> Bodies \cup {NoFile, Short}] /\ starts \in 0..MaxStarts
  /\ pc \in {"down", "next", "cache", "fetch", "write", "parse", "ready", "failed"}
  /\ i \in 1..Len(Order) + 1 /\ url \in 1..MaxUrls + 1 /\ body \in Bodies \cup {NoFile}
  /\ DOMAIN map \subseteq Tags /\ DOMAIN sets \subseteq Tags /\ cached \in BOOLEAN

Empty == [t \in {} |-> NoFile]
Init ==
  /\ disk = [f \in Files |-> NoFile] /\ starts = 0 /\ pc = "down" /\ i = 1 /\ url = 1
  /\ body = NoFile /\ map = Empty /\ sets = Empty /\ cached = FALSE

Tag == Order[i]
Remote(n) == Kind[Order[n]] = "url"
Insert(f, t, b) == [x \in DOMAIN f \cup {t} |-> IF x = t THEN b ELSE f[x]]
-----------------------------------------------------------------------------
\* RuleRouter::new and the call of load_rule_sets; the map starts empty.
Start ==
  /\ pc = "down" /\ starts < MaxStarts /\ starts' = starts + 1
  /\ pc' = "next" /\ i' = 1 /\ map' = Empty /\ sets' = Empty /\ body' = NoFile /\ url' = 1
  /\ cached' = \A n \in DOMAIN Order : Remote(n) => disk[Name[Order[n]]] \in [of : {Order[n]}, parses : {TRUE}]
  /\ UNCHANGED disk

\* The next set.  A geo set that is already there is not loaded again, one of
\* the program's own is taken from it and written to the cache; a path is
\* read, or fails the load; inline rules are parsed in place.
Next1 ==
  /\ pc = "next" /\ i <= Len(Order)
  /\ \/ /\ IsGeo(i) /\ Tag \in DOMAIN map
        /\ i' = i + 1 /\ UNCHANGED <<pc, disk, body, map>>
     \/ /\ IsGeo(i) /\ Tag \notin DOMAIN map /\ Tag \in Embedded
        /\ LET b == [of |-> Tag, parses |-> TRUE] IN
             /\ map' = Insert(map, Tag, b)
             /\ disk' \in {disk, [disk EXCEPT ![Name[Tag]] = b]}
        /\ i' = i + 1 /\ UNCHANGED <<pc, body>>
     \/ /\ Remote(i) /\ (IsGeo(i) => Tag \notin DOMAIN map \cup Embedded)
        /\ pc' = "cache" /\ UNCHANGED <<disk, body, map, i>>
     \/ /\ ~Remote(i)
        /\ \/ body' = [of |-> Tag, parses |-> TRUE] /\ pc' = "parse"
           \/ Kind[Tag] = "path" /\ pc' = "failed" /\ UNCHANGED body
        /\ UNCHANGED <<disk, map, i>>
  /\ UNCHANGED <<starts, url, sets, cached>>

\* Mutant of ReadCache: the URLs come first.
ReadCacheLast ==
  /\ pc = "cache" /\ pc' = "fetch" /\ url' = 1
  /\ UNCHANGED <<disk, body, starts, i, map, sets, cached>>

\* A file of at least 64 bytes is used as it is; otherwise the URLs are tried.
ReadCache ==
  /\ pc = "cache"
  /\ IF disk[Name[Tag]] \in Bodies
       THEN body' = disk[Name[Tag]] /\ pc' = "parse" /\ UNCHANGED url
       ELSE pc' = "fetch" /\ url' = 1 /\ UNCHANGED body
  /\ UNCHANGED <<disk, starts, i, map, sets, cached>>

\* One URL: an error leads to the next, a success to its body, whatever it is.
Fetch ==
  /\ pc = "fetch" /\ url <= MaxUrls
  /\ \/ url' = url + 1 /\ UNCHANGED <<body, pc>>
     \/ \E p \in BOOLEAN : body' = [of |-> Tag, parses |-> p] /\ pc' = "write" /\ UNCHANGED url
  /\ UNCHANGED <<disk, starts, i, map, sets, cached>>

\* Mutant of Give: the failure of a configured set is passed over.
GiveAnyUp == i' = i + 1 /\ pc' = "next"

\* A set that cannot be had fails the load, a geo set is passed over.
Give == IF IsGeo(i) THEN i' = i + 1 /\ pc' = "next" ELSE pc' = "failed" /\ UNCHANGED i

NoUrlLeft ==
  /\ pc = "fetch" /\ url > MaxUrls /\ Give
  /\ UNCHANGED <<disk, starts, url, body, map, sets, cached>>

\* Mutant of WriteCache: the name is that of the set before.
WriteCacheStale ==
  /\ pc = "write" /\ pc' = "parse"
  /\ disk' = [disk EXCEPT ![Name[Order[IF i = 1 THEN 1 ELSE i - 1]]] = body]
  /\ UNCHANGED <<starts, i, url, body, map, sets, cached>>

\* The body is written to the cache unparsed; a failed write is only logged.
WriteCache ==
  /\ pc = "write" /\ pc' = "parse"
  /\ disk' \in {disk, [disk EXCEPT ![Name[Tag]] = body]}
  /\ UNCHANGED <<starts, i, url, body, map, sets, cached>>

Parse ==
  /\ pc = "parse"
  /\ IF body.parses
       THEN map' = Insert(map, Tag, body) /\ i' = i + 1 /\ pc' = "next"
       ELSE Give /\ UNCHANGED map
  /\ UNCHANGED <<disk, starts, url, body, sets, cached>>

\* Only a complete load replaces the sets of the router.
Finish ==
  /\ pc = "next" /\ i > Len(Order) /\ pc' = "ready" /\ sets' = map
  /\ UNCHANGED <<disk, starts, i, url, body, map, cached>>

\* The process ends.  In the middle of a write the file is left cut.
Stop ==
  /\ pc # "down" /\ pc' = "down" /\ sets' = Empty
  /\ disk' \in {disk} \cup
       (IF pc = "write" THEN {[disk EXCEPT ![Name[Tag]] = Short],
                              [disk EXCEPT ![Name[Tag]] = [of |-> Tag, parses |-> FALSE]]} ELSE {})
  /\ UNCHANGED <<starts, i, url, body, map, cached>>

Next ==
  \/ Start \/ Next1 \/ ReadCache \/ Fetch \/ NoUrlLeft \/ WriteCache \/ Parse \/ Finish \/ Stop
Spec == Init /\ [][Next]_vars
-----------------------------------------------------------------------------
\* A router that answers has every configured set, parsed as a whole; only geo
\* sets may be missing.
NoConfiguredSetMissing ==
  pc = "ready" =>
    /\ \A n \in DOMAIN Conf : Conf[n] \in DOMAIN sets
    /\ \A t \in DOMAIN sets : sets[t].parses

\* Whatever was fetched, cut or cached before, a set holds the rules published
\* under its own tag, unless another tag has the same file name.
OwnRules ==
  \A t \in DOMAIN sets :
    sets[t].of = t \/ \E u \in Tags \ {t} : Name[u] = Name[t]

\* With every remote set well cached a start needs no network: it fails only
\* for a path that cannot be read.
StartsOffline ==
  (pc = "failed" /\ cached) => Kind[Tag] = "path"
=============================================================================
