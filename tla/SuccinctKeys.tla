---------------------------- MODULE SuccinctKeys ----------------------------
(***************************************************************************)
(* How the domains of a binary rule-set are read (read_domain_matcher and   *)
(* succinct_keys of rsb-route/src/srs.rs).  The file holds a trie of the    *)
(* reversed domains as two bitmaps and a row of labels: the nodes are       *)
(* numbered breadth first, a node contributes a 0 for each child and then a *)
(* 1 to labelBitmap, and its bit of leaves says whether a key ends there.   *)
(* The reader walks it depth first with an explicit position; the recursion *)
(* of the code is the stack of this model.                                  *)
(***************************************************************************)
EXTENDS Integers, Sequences, FiniteSets, SequencesExt

CONSTANTS
  Letters,    \* the characters of domains, numbers above the marks
  MaxLen,     \* bound on the length of a domain
  MaxKeys,    \* bound on the keys of one file
  Word,       \* bits of a word (64 in the code)
  KeyLimit    \* keys after which the reader stops (500000 in the code)

Cr == 1   \* marks a suffix
Lf == 2   \* marks a suffix with its own domain

Domains == UNION {[1..n -> Letters] : n \in 1..MaxLen}
\* A key is a reversed domain, with a mark behind it for a suffix.
Key(d, m) == Reverse(d) \o (IF m = 0 THEN <<>> ELSE <<m>>)

VARIABLES
  file,       \* what was written: pairs of a domain and its mark, 0 for none
  leaves, labelBitmap, labels,
  stack,      \* frames of traverse: the node and the position in the bitmap
  current,    \* labels on the way down
  result,     \* keys found
  pc          \* "walk", "split", "done"
vars == <<file, leaves, labelBitmap, labels, stack, current, result, pc>>

Written == {Key(e[1], e[2]) : e \in file}
-----------------------------------------------------------------------------
(* The writer of the file, another program *)

Before(s, t) ==
  \/ Len(s) < Len(t)
  \/ Len(s) = Len(t) /\ \E i \in DOMAIN s : s[i] < t[i] /\ \A j \in 1..i - 1 : s[j] = t[j]
Nodes(keys) ==
  LET all == UNION {{SubSeq(k, 1, n) : n \in 0..Len(k)} : k \in keys}
  IN [i \in 1..Cardinality(all) |->
        CHOOSE v \in all : Cardinality({w \in all : Before(w, v)}) = i - 1]
Kids(nodes, v) ==
  SelectSeq(nodes, LAMBDA w : Len(w) = Len(v) + 1 /\ SubSeq(w, 1, Len(v)) = v)
Padded(bits) == bits \o [i \in 1..(Word - (Len(bits) % Word)) % Word |-> 0]

Encode(keys) ==
  LET nodes == Nodes(keys)
      rows == [n \in DOMAIN nodes |-> Kids(nodes, nodes[n])]
  IN [leaves |-> Padded([n \in DOMAIN nodes |-> IF nodes[n] \in keys THEN 1 ELSE 0]),
      bitmap |-> Padded(FlattenSeq([n \in DOMAIN rows |-> [i \in DOMAIN rows[n] |-> 0] \o <<1>>])),
      labels |-> FlattenSeq([n \in DOMAIN rows |-> [i \in DOMAIN rows[n] |-> Last(rows[n][i])]])]
-----------------------------------------------------------------------------
(* The reader; positions count from 0 *)

GetBit(words, i) == IF i < Len(words) THEN words[i + 1] ELSE 0
Ones(bm, i) == Cardinality({k \in 1..i : k <= Len(bm) /\ bm[k] = 1})


\* Zeros among the first i bits.
CountZeros(bm, i) == i - Ones(bm, i)

\* The position of the i-th one, or the length if there is none.
SelectIthOne(bm, i) ==
  LET at == {k \in DOMAIN bm : bm[k] = 1 /\ Ones(bm, k) = i + 1}
  IN IF at = {} THEN Len(bm) ELSE (CHOOSE k \in at : TRUE) - 1

\* What a call of traverse does on entry, for the labels down to it.
Found(node, down, res) ==
  IF Len(res) <= KeyLimit /\ GetBit(leaves, node) = 1 THEN Append(res, down) ELSE res

Init ==
  /\ \E f \in [1..MaxKeys -> Domains \X {0, Cr, Lf}] : file = {f[i] : i \in 1..MaxKeys}
  /\ LET e == Encode(Written) IN leaves = e.leaves /\ labelBitmap = e.bitmap /\ labels = e.labels
  /\ stack = <<[node |-> 0, bm |-> 0]>> /\ current = <<>> /\ pc = "walk"
  /\ result = Found(0, <<>>, <<>>)

TypeOK ==
  /\ pc \in {"walk", "split", "done"} /\ Len(current) <= MaxLen + 1
  /\ Len(stack) <= MaxLen + 2 /\ Len(result) <= KeyLimit + 1

Top == stack[Len(stack)]
Under == SubSeq(stack, 1, Len(stack) - 1)
Stops ==
  \/ Len(result) > KeyLimit
  \/ Top.bm >= Len(labelBitmap) \/ GetBit(labelBitmap, Top.bm) = 1
  \/ Top.bm - Top.node >= Len(labels)

\* traverse for the next child.
Descend ==
  /\ pc = "walk" /\ stack # <<>> /\ ~Stops
  /\ LET next == CountZeros(labelBitmap, Top.bm + 1)
         down == Append(current, labels[Top.bm - Top.node + 1])
     IN /\ current' = down
        /\ result' = Found(next, down, result)
        /\ stack' = Append(stack, [node |-> next,
                                   bm |-> SelectIthOne(labelBitmap, IF next = 0 THEN 0 ELSE next - 1) + 1])
  /\ UNCHANGED <<file, leaves, labelBitmap, labels, pc>>

\* The end of a call: its label is dropped and the caller goes on.
Return ==
  /\ pc = "walk" /\ stack # <<>> /\ Stops
  /\ IF Under = <<>> THEN stack' = <<>> /\ pc' = "split" /\ UNCHANGED current
     ELSE /\ stack' = [Under EXCEPT ![Len(Under)].bm = @ + 1]
          /\ current' = SubSeq(current, 1, Len(current) - 1) /\ UNCHANGED pc
  /\ UNCHANGED <<file, leaves, labelBitmap, labels, result>>

\* read_domain_matcher: each key is reversed, and a mark in front of it makes
\* it a suffix; the result is the pair of a domain and whether it is one.
Split ==
  /\ pc = "split" /\ pc' = "done"
  /\ result' = [i \in DOMAIN result |->
                  LET d == Reverse(result[i]) IN
                    IF d # <<>> /\ d[1] \in {Cr, Lf} THEN <<0>> \o Tail(d) ELSE d]
  /\ UNCHANGED <<file, leaves, labelBitmap, labels, stack, current>>

Next == Descend \/ Return \/ Split
Spec == Init /\ [][Next]_vars
-----------------------------------------------------------------------------
\* The reader returns the domains that were written, no other, and each with
\* its meaning, an exact domain or a suffix; it leaves some out only if there
\* are more than its limit.
Meaning(e) == IF e[2] = 0 THEN e[1] ELSE <<0>> \o e[1]
KeysComeBack ==
  pc = "done" =>
    LET got == {result[i] : i \in DOMAIN result}
        want == {Meaning(e) : e \in file}
    IN got \subseteq want /\ (Cardinality(file) <= KeyLimit => got = want)
=============================================================================
