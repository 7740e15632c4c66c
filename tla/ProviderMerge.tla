---------------------------- MODULE ProviderMerge ----------------------------
(***************************************************************************)
(* Merging subscriptions into the configuration (merge_outbound_providers   *)
(* and Subscription in rsb-core/src/subscription.rs).  Each provider is     *)
(* fetched in turn; its lines become outbounds under tags that are not      *)
(* taken, and those tags become the members of a selector.  The outbounds   *)
(* are then built from the merged list, where a selector needs its members. *)
(***************************************************************************)
EXTENDS Integers, Sequences, FiniteSets

CONSTANTS
  Configured,   \* tags of the configured outbounds, a set
  Selectors,    \* selector tags of the providers, a sequence; None for none
  Names,        \* names of share links; None for a link without one
  Protocols,    \* protocols of share links, each the default tag of its links
  MaxLines,     \* bound on the lines of a subscription
  None

Subscribed == {p \in DOMAIN Selectors : Selectors[p] # "unsupported"}
\* A line: a comment, something that is no share link, or a link.
Lines == {[kind |-> k, proto |-> q, name |-> None] : k \in {"comment", "bad"}, q \in {None}}
           \cup [kind : {"link"}, proto : Protocols, name : Names]

AllTags == Configured \cup {Selectors[n] : n \in DOMAIN Selectors} \cup Names \cup Protocols

VARIABLES
  outbounds,   \* [kind, tag, members] of the merged configuration, in order
  tags,        \* existing_tags
  p,           \* provider in turn
  lines,       \* what is left of its subscription
  nodeTags,    \* tags it has contributed
  pc           \* "provider", "lines", "merged", "failed"
vars == <<outbounds, tags, p, lines, nodeTags, pc>>

Entry(kind, tag, members) == [kind |-> kind, tag |-> tag, members |-> members]
TagsOf(obs) == {obs[n].tag : n \in DOMAIN obs}

TypeOK ==
  /\ p \in 1..Len(Selectors) + 1 /\ lines \in Seq(Lines) /\ Len(lines) <= MaxLines
  /\ tags = TagsOf(outbounds) /\ Len(nodeTags) <= MaxLines
  /\ pc \in {"provider", "lines", "merged", "failed"}

Init ==
  /\ \E s \in [1..Cardinality(Configured) -> Configured] :
       /\ \A n, k \in DOMAIN s : s[n] = s[k] => n = k
       /\ outbounds = [n \in DOMAIN s |-> Entry("node", s[n], <<>>)]
  /\ tags = TagsOf(outbounds) /\ p = 1 /\ lines = <<>> /\ nodeTags = <<>> /\ pc = "provider"
-----------------------------------------------------------------------------
\* A provider of another type is passed over.
PassOver ==
  /\ pc = "provider" /\ p <= Len(Selectors) /\ p \notin Subscribed /\ p' = p + 1
  /\ UNCHANGED <<outbounds, tags, lines, nodeTags, pc>>

\* fetch_from_base and parse_content: the lines of a file or a response, plain
\* or from Base64; an error ends the whole merge.
Fetch ==
  /\ pc = "provider" /\ p \in Subscribed
  /\ \/ /\ pc' = "lines" /\ nodeTags' = <<>>
        /\ \E n \in 0..MaxLines : lines' \in [1..n -> Lines]
     \/ pc' = "failed" /\ UNCHANGED <<lines, nodeTags>>
  /\ UNCHANGED <<outbounds, tags, p>>

\* parse_single_link and value_to_outbound: a link without a name is tagged
\* with its protocol.
NodeTag(l) == IF l.name = None THEN l.proto ELSE l.name

\* Mutant of AddNode: the duplicates of the configuration only are skipped.
AddNodeTwice(tag) ==
  IF tag \in Configured THEN UNCHANGED <<outbounds, tags, nodeTags>>
  ELSE /\ tags' = tags \cup {tag} /\ nodeTags' = Append(nodeTags, tag)
       /\ outbounds' = Append(outbounds, Entry("node", tag, <<>>))

\* A tag that is taken leaves the node out.
AddNode(tag) ==
  IF tag \in tags THEN UNCHANGED <<outbounds, tags, nodeTags>>
  ELSE /\ tags' = tags \cup {tag} /\ nodeTags' = Append(nodeTags, tag)
       /\ outbounds' = Append(outbounds, Entry("node", tag, <<>>))

\* The next line.  What is no valid link is skipped with a warning.
Line ==
  /\ pc = "lines" /\ lines # <<>> /\ lines' = Tail(lines)
  /\ IF Head(lines).kind = "link" THEN AddNode(NodeTag(Head(lines)))
     ELSE UNCHANGED <<outbounds, tags, nodeTags>>
  /\ UNCHANGED <<p, pc>>

\* Mutant of EndProvider: the members are not reset for the next provider.
EndProviderKeeps ==
  /\ pc = "lines" /\ lines = <<>> /\ pc' = "provider" /\ p' = p + 1
  /\ LET sel == Selectors[p] IN
       IF sel # None /\ sel \notin tags
         THEN /\ tags' = tags \cup {sel}
              /\ outbounds' = Append(outbounds, Entry("selector", sel, nodeTags))
         ELSE UNCHANGED <<outbounds, tags>>
  /\ UNCHANGED <<lines, nodeTags>>

\* The selector of the provider, if it has members and its tag is free.
EndProvider ==
  /\ pc = "lines" /\ lines = <<>> /\ pc' = "provider" /\ p' = p + 1
  /\ LET sel == Selectors[p] IN
       IF sel # None /\ nodeTags # <<>> /\ sel \notin tags
         THEN /\ tags' = tags \cup {sel}
              /\ outbounds' = Append(outbounds, Entry("selector", sel, nodeTags))
         ELSE UNCHANGED <<outbounds, tags>>
  /\ UNCHANGED <<lines, nodeTags>>

Merged ==
  /\ pc = "provider" /\ p > Len(Selectors) /\ pc' = "merged"
  /\ UNCHANGED <<outbounds, tags, p, lines, nodeTags>>

Next == PassOver \/ Fetch \/ Line \/ EndProvider \/ Merged
Spec == Init /\ [][Next]_vars
-----------------------------------------------------------------------------
\* Outbounds are looked up by tag: no two of them share one, whatever the
\* providers, their selectors and the configuration are called.
TagsAreUnique ==
  \A n, k \in DOMAIN outbounds : outbounds[n].tag = outbounds[k].tag => n = k

\* A selector has members, and each of them is an outbound merged before it.
SelectorsHaveMembers ==
  \A n \in DOMAIN outbounds : outbounds[n].kind = "selector" =>
    /\ outbounds[n].members # <<>>
    /\ \A m \in DOMAIN outbounds[n].members :
         \E k \in 1..n - 1 : outbounds[k].kind = "node" /\ outbounds[k].tag = outbounds[n].members[m]

\* Inductive form of the two invariants: existing_tags holds the tags in use,
\* and the tags a provider has contributed are those of nodes.
IsNode(tag) == \E k \in DOMAIN outbounds : outbounds[k].kind = "node" /\ outbounds[k].tag = tag
IInv ==
  /\ outbounds \in Seq([kind : {"node", "selector"}, tag : AllTags, members : Seq(AllTags)])
  /\ p \in 1..Len(Selectors) + 1 /\ lines \in Seq(Lines) /\ nodeTags \in Seq(AllTags)
  /\ pc = "lines" => p \in DOMAIN Selectors
  /\ tags = TagsOf(outbounds)
  /\ \A m \in DOMAIN nodeTags : IsNode(nodeTags[m])
  /\ TagsAreUnique /\ SelectorsHaveMembers
=============================================================================
