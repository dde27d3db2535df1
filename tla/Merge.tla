------------------------------- MODULE Merge --------------------------------
(***************************************************************************)
(* Package merge: the three-way merge of two changes, as operators.         *)
(*                                                                          *)
(* A line is a number; zero is the empty token that splitting after every   *)
(* newline leaves at the end of a file, negative numbers are the conflict   *)
(* markers.  Every line ends in a newline.  A blob is its text: the id of a *)
(* blob is a hash of it, so two files have one id when their texts agree.   *)
(* Trees are flat: a path is one name, so flatten and buildTree are inverse *)
(* to each other.  No verb passes a Regenerator, so there is none here.     *)
(***************************************************************************)
EXTENDS Integers, Sequences, FiniteSets, SequencesExt

CONSTANT Paths

EndOfFile == 0
MarkOurs == -1
MarkMid == -2
MarkTheirs == -3

\* A file, or what stands for one that is not there.
Absent == [has |-> FALSE, text |-> <<>>, exec |-> FALSE]
File(text, exec) == [has |-> TRUE, text |-> text, exec |-> exec]

EmptyTree == [p \in Paths |-> Absent]

-----------------------------------------------------------------------------
(* diff3.go                                                                 *)

\* The pairs <<i, j>> that align a with b, a longest common subsequence.  What is left of a
\* from i on and of b from j on: their first lines go together, or one of the two goes alone.
lcsPairs(a, b) ==
    LET pairs[i \in 1..(Len(a) + 1), j \in 1..(Len(b) + 1)] ==
          LET down == pairs[i + 1, j]
              right == pairs[i, j + 1]
          IN  IF i > Len(a) \/ j > Len(b) THEN {}
              ELSE IF a[i] = b[j] THEN {<<i, j>>} \cup pairs[i + 1, j + 1]
              ELSE IF Cardinality(down) >= Cardinality(right) THEN down ELSE right
    IN  pairs[1, 1]

\* Lines of the ancestor that neither side changed, and the end.
Anchors(o, a, b) ==
    LET matchA == lcsPairs(o, a)
        matchB == lcsPairs(o, b)
        both == {<<x[1], x[2], y[2]>> : x \in matchA, y \in matchB}
        stable == {n \in both : <<n[1], n[3]>> \in matchB}
    IN  SetToSortSeq(stable, LAMBDA m, n : m[1] < n[1])
          \o <<<<Len(o) + 1, Len(a) + 1, Len(b) + 1>>>>

Chosen(region) == [out |-> region, conflict |-> FALSE]

\* What a region between two anchors becomes.
Region(o, a, b) ==
    IF a = b \/ o = b THEN Chosen(a)
    ELSE IF o = a THEN Chosen(b)
    ELSE [out |-> <<MarkOurs>> \o a \o <<MarkMid>> \o b \o <<MarkTheirs>>, conflict |-> TRUE]

merge3(o, a, b) ==
    LET Step(acc, n) ==
          LET r == Region(SubSeq(o, acc.at[1] + 1, n[1] - 1), SubSeq(a, acc.at[2] + 1, n[2] - 1),
                          SubSeq(b, acc.at[3] + 1, n[3] - 1))
          IN  [at |-> n, conflict |-> acc.conflict \/ r.conflict,
               out |-> acc.out \o r.out \o (IF n[1] <= Len(o) THEN <<a[n[2]]>> ELSE <<>>)]
    IN  FoldLeft(Step, [at |-> <<0, 0, 0>>, out |-> <<>>, conflict |-> FALSE], Anchors(o, a, b))

-----------------------------------------------------------------------------
(* merge.go: files and trees.                                               *)

\* lines, and the joining that undoes it.
lines(text) == IF text = <<>> THEN <<>> ELSE Append(text, EndOfFile)
Joined(tokens) == SelectSeq(tokens, LAMBDA l : l # EndOfFile)

\* Only ids are compared, never modes.
sameAsBase(x, b) == x.has = b.has /\ x.text = b.text

pickMode(o, t) == IF o.has THEN o.exec ELSE t.exec

resolveConflict(b, o, t) ==
    LET m == merge3(lines(b.text), lines(o.text), lines(t.text))
    IN  [file |-> File(Joined(m.out), pickMode(o, t)), conflict |-> m.conflict]

Taken(file) == [file |-> file, conflict |-> FALSE]

\* Both sides agree (or both have deleted it), only theirs has changed, only ours has, or both.
MergeFile(b, o, t) ==
    IF sameAsBase(o, t) THEN Taken(o)
    ELSE IF sameAsBase(o, b) THEN Taken(t)
    ELSE IF sameAsBase(t, b) THEN Taken(o)
    ELSE resolveConflict(b, o, t)

mergeTrees(base, ours, theirs) ==
    LET m == [p \in Paths |-> MergeFile(base[p], ours[p], theirs[p])]
    IN  [tree |-> [p \in Paths |-> m[p].file], conflict |-> \E p \in Paths : m[p].conflict]

-----------------------------------------------------------------------------
(* merge.go: histories.  A change is a record with its tree and its parents; *)
(* cs is the sequence of all changes, and an id is an index into it.        *)
(* Every ancestor's object is assumed to be in the store: parents() takes   *)
(* one it cannot read for a change without parents, says nothing of it, and *)
(* would merge from other bases.                                            *)

collectAncestors(cs, id) ==
    LET set[c \in DOMAIN cs] == {c} \cup UNION {set[p] : p \in cs[c].parents}
    IN  set[id]

MutantMergeBases(cs, a, b) ==
    LET common == collectAncestors(cs, a) \cap collectAncestors(cs, b)
    IN  {CHOOSE c \in common : \A d \in common : c >= d}

\* Common ancestors that are not ancestors of a common ancestor.
MergeBases(cs, a, b) ==
    LET common == collectAncestors(cs, a) \cap collectAncestors(cs, b)
        dominated == UNION {collectAncestors(cs, p) : p \in UNION {cs[c].parents : c \in common}}
    IN  common \ dominated

\* Bases are ordered by their hashes, which is to say in any order; here by their numbers.
Ordered(ids) == SetToSortSeq(ids, <)

\* No base: the empty tree.  One: its tree.  More: a fold of merges, the first of which has
\* a base of its own and the others none.
virtualBaseTree(cs, ids) ==
    LET baseTree[some \in SUBSET DOMAIN cs] ==
          LET bases == Ordered(some)
              Fold(acc, i) ==
                LET sub == IF i = 2 THEN baseTree[MergeBases(cs, bases[1], bases[2])] ELSE EmptyTree
                IN  mergeTrees(sub, acc, cs[bases[i]].tree).tree
          IN  IF some = {} THEN EmptyTree
              ELSE FoldLeft(Fold, cs[bases[1]].tree, [i \in 1..(Len(bases) - 1) |-> i + 1])
    IN  baseTree[ids]

\* Merge: the merged tree, and whether it is free of conflicts.
MergeOf(cs, ours, theirs) ==
    LET base == virtualBaseTree(cs, MergeBases(cs, ours, theirs))
    IN  mergeTrees(base, cs[ours].tree, cs[theirs].tree)
=============================================================================
