------------------------------ MODULE Workcopy ------------------------------
(***************************************************************************)
(* One repository's working copy (package worktree and the verbs commit,    *)
(* merge, checkout and propose), the branch it commits to, and a peer whose *)
(* changes it merges and who merges ours.                                   *)
(*                                                                          *)
(* A verb is a process: it reads refs and files, writes files, and swaps    *)
(* the branch once, at the end.  Between its steps the user goes on editing *)
(* files, and other verbs (a promotion, a daemon) may move the branch.      *)
(* Nothing records which change the files in the directory came from.       *)
(*                                                                          *)
(* The clock counts seconds.  Two writes in one second have the same mtime, *)
(* which is the worst the index can meet; all texts have the same size.     *)
(***************************************************************************)
EXTENDS Merge, Functions

CONSTANTS
    Root,         \* the tree both repositories start from
    Selections,   \* what `propose` may be told: a set of paths, {} for all
    Scopes,       \* the scopes it may be given: sets of paths
    MaxEdits,     \* bound: edits of a file's text by our user
    MaxShifts,    \* bound: files moved or given another mode
    MaxCommits,   \* bound: commits by our user
    MaxPeer,      \* bound: changes made by the peer
    MaxMerges,    \* bound: merges by our user
    MaxPeerMerges,\* bound: merges by the peer
    MaxScans,     \* bound: scans of the working tree
    MaxTicks,     \* bound: seconds that pass
    MaxMoves,     \* bound: checkouts, and moves of the branch by other verbs
    Cost, Budget  \* bound on all of these together, each at its cost

Bounds == [edits |-> MaxEdits, shifts |-> MaxShifts, commits |-> MaxCommits, peer |-> MaxPeer, merges |-> MaxMerges,
           peerMerges |-> MaxPeerMerges, scans |-> MaxScans, ticks |-> MaxTicks, moves |-> MaxMoves]

ASSUME WorkcopyAssumption ==
    /\ IsFiniteSet(Paths) /\ Root = [p \in Paths |-> Root[p]]
    /\ \A p \in Paths : Root[p] = Absent \/ Root[p] = File(Root[p].text, Root[p].exec)
    /\ Selections \subseteq SUBSET Paths /\ Scopes \subseteq SUBSET Paths
    /\ \A b \in DOMAIN Bounds : Bounds[b] \in Nat
    /\ Budget \in Nat /\ Cost \in [DOMAIN Bounds -> Nat]

VARIABLES
    changes,   \* every change, ours and the peer's; an id is an index
    main,      \* our branch
    peer,      \* the peer's branch, as last fetched
    work,      \* the directory: a file for every path
    stat,      \* of each file: when it was last written, and its inode
    index,     \* the staleness cache: its entries, and when it was saved
    clock,
    verb,      \* the verb at work and its locals
    used,      \* how much of each bound is used up
    spent,     \* and of the budget
    typed,     \* history: lines our user wrote, with their path
    removed,   \* history: lines our user took away
    left,      \* history: lines of files that a tree laid out here does not have
    based,     \* history: the change the directory was made from, 0 for a mixture
    raced      \* history: files with the tuple, but not the text, that the index remembers

repo == <<changes, main, peer>>
dir == <<work, stat>>
history == <<typed, removed, left, based, raced>>
budget == <<used, spent>>
workcopyVars == <<repo, dir, index, clock, verb, budget, history>>

NoStat == [mtime |-> 0, inode |-> 0]
NoEntry == [stat |-> NoStat, file |-> Absent]
NoEntries == [p \in Paths |-> NoEntry]

NoVerb == [pc |-> "idle", ours |-> 0, theirs |-> 0, on |-> 0, tree |-> EmptyTree, todo |-> {},
           file |-> {}, stat |-> NoStat, exec |-> FALSE, idx |-> NoEntries, only |-> {},
           touched |-> {}]

\* The inodes of new files: numbers no file has, so those of removed files come again.
NewInodes(st, new) ==
    CHOOSE f \in [new -> 1..(2 * Cardinality(Paths))] :
        /\ IsInjective(f)
        /\ \A p \in new : \A q \in Paths \ new : f[p] # st[q].inode

WorkcopyInit ==
    /\ changes = <<[tree |-> Root, parents |-> {}, by |-> "root", on |-> 0]>>
    /\ main = 1 /\ peer = 1
    /\ work = Root
    /\ LET there == {p \in Paths : Root[p].has}
           inode == NewInodes([p \in Paths |-> NoStat], there)
       IN  stat = [p \in Paths |-> IF p \in there THEN [mtime |-> 1, inode |-> inode[p]] ELSE NoStat]
    /\ index = [written |-> 0, entry |-> NoEntries]
    /\ clock = 1
    /\ verb = NoVerb
    /\ used = [b \in DOMAIN Bounds |-> 0] /\ spent = 0
    /\ typed = {} /\ removed = {} /\ left = {} /\ based = 1 /\ raced = {}

At(pc) == verb.pc = pc
Return == verb' = NoVerb
Use(b) ==
    /\ used[b] < Bounds[b] /\ spent + Cost[b] <= Budget
    /\ used' = [used EXCEPT ![b] = @ + 1]
    /\ spent' = spent + Cost[b]

\* New lines are numbered, so a line tells who wrote it.
NewLine == 10 + used.edits
PeerLine == 20 + used.peer

LinesOf(tree) == UNION {{<<p, tree[p].text[i]>> : i \in DOMAIN tree[p].text} : p \in Paths}

-----------------------------------------------------------------------------
(* The user edits files, at any time.  Commit and merge read or write the    *)
(* directory in one step of theirs, so an edit beside them is as good as one *)
(* before or after; beside a scan it is not.                                *)

Inserted(f, i, l) == File(SubSeq(f.text, 1, i) \o <<l>> \o SubSeq(f.text, i + 1, Len(f.text)), f.exec)
Shortened(f, i) == File(RemoveAt(f.text, i), f.exec)

\* What one edit makes of a file: a line more, a line less, nothing.
Edited(f, l) ==
    {Inserted(f, i, l) : i \in 0..Len(f.text)}
    \cup {Shortened(f, i) : i \in DOMAIN f.text}
    \cup (IF f.has THEN {Absent} ELSE {})

\* An entry that has the tuple of a file but another text.
Mistaken(e, f, st) == e.file.has /\ f.has /\ e.stat = st /\ e.file.text # f.text

\* The directory becomes w with the stat tuples st.
Become(w, st) ==
    LET hit == {p \in Paths : w[p] # work[p] \/ st[p] # stat[p]}
    IN  /\ work' = w /\ stat' = st
        /\ typed' = typed \cup (LinesOf(w) \ LinesOf(work))
        /\ removed' = removed \cup (LinesOf(work) \ LinesOf(w))
        /\ verb' = IF At("idle") THEN verb ELSE [verb EXCEPT !.touched = @ \cup hit]
        /\ raced' = raced \cup {p \in hit : \/ Mistaken(verb.idx[p], w[p], st[p])
                                            \/ /\ Mistaken(index.entry[p], w[p], st[p])
                                               /\ st[p].mtime < index.written}
        /\ UNCHANGED <<repo, index, clock, left, based>>

UserTurn == At("idle") \/ At("scan") \/ At("read")

\* A file that is there keeps its inode.
Written(p, f) ==
    CASE ~ f.has -> NoStat
      [] f.has /\ work[p].has -> [stat[p] EXCEPT !.mtime = clock]
      [] OTHER -> [mtime |-> clock, inode |-> NewInodes(stat, {p})[p]]

EditFile(p) ==
  /\ UserTurn /\ Use("edits")
  /\ \E f \in Edited(work[p], NewLine) :
        Become([work EXCEPT ![p] = f], [stat EXCEPT ![p] = Written(p, f)])

ChangeMode(p) ==
    /\ UserTurn /\ work[p].has /\ Use("shifts")
    /\ Become([work EXCEPT ![p] = File(@.text, ~ @.exec)], stat)

\* mv: inode and mtime go with the file.
MoveFile(p, q) ==
    /\ UserTurn /\ work[p].has /\ ~ work[q].has /\ Use("shifts")
    /\ Become([work EXCEPT ![p] = Absent, ![q] = work[p]],
              [stat EXCEPT ![p] = NoStat, ![q] = stat[p]])

\* Nothing looks at the clock before the first scan.
SecondPasses ==
    /\ used.scans > 0 /\ Use("ticks")
    /\ clock' = clock + 1
    /\ UNCHANGED <<repo, dir, index, verb, history>>

-----------------------------------------------------------------------------
(* worktree.Checkout: files of the tree are written, others stay; a file    *)
(* that is there keeps its mode (os.WriteFile).                             *)

MutantCheckout(tree) ==
    /\ LET there == {p \in Paths : tree[p].has /\ ~ work[p].has}
           inode == NewInodes(stat, there)
       IN  /\ work' = [p \in Paths |-> IF p \in there THEN tree[p] ELSE work[p]]
           /\ stat' = [p \in Paths |-> IF p \in there THEN [mtime |-> clock, inode |-> inode[p]] ELSE stat[p]]
    /\ left' = left \cup LinesOf([p \in Paths |-> IF tree[p].has THEN Absent ELSE work[p]])
    /\ UNCHANGED <<typed, removed, raced>>

Checkout(tree) ==
    /\ LET new == {p \in Paths : tree[p].has /\ ~ work[p].has}
           inode == NewInodes(stat, new)
           Lay(p) == File(tree[p].text, IF p \in new THEN tree[p].exec ELSE work[p].exec)
           Num(p) == IF p \in new THEN inode[p] ELSE stat[p].inode
       IN  /\ work' = [p \in Paths |-> IF tree[p].has THEN Lay(p) ELSE work[p]]
           /\ stat' = [p \in Paths |-> IF tree[p].has THEN [mtime |-> clock, inode |-> Num(p)] ELSE stat[p]]
    /\ left' = left \cup LinesOf([p \in Paths |-> IF tree[p].has THEN Absent ELSE work[p]])
    /\ UNCHANGED <<typed, removed, raced>>

\* checkout <ref>: no ref moves.
CheckoutVerb(c) ==
    /\ At("idle") /\ Use("moves")
    /\ Checkout(changes[c].tree)
    /\ based' = c
    /\ UNCHANGED <<repo, index, clock, verb>>

-----------------------------------------------------------------------------
(* commit: the tree, then the parent, then the swap.  (Nothing stops an      *)
(* empty commit; our user makes none.)                                      *)

CommitTree ==
    /\ At("idle") /\ work # changes[main].tree /\ Use("commits")
    /\ verb' = [NoVerb EXCEPT !.pc = "commitHead", !.tree = work, !.on = based]
    /\ UNCHANGED <<repo, dir, index, clock, history>>

\* A pre-commit hook may veto.
CommitHead ==
    /\ At("commitHead")
    /\ \/ verb' = [verb EXCEPT !.pc = "commitSwap", !.ours = main]
       \/ Return
    /\ UNCHANGED <<repo, dir, index, clock, budget, history>>

CommitSwap ==
    /\ At("commitSwap")
    /\ IF main = verb.ours
         THEN /\ changes' = Append(changes, [tree |-> verb.tree, parents |-> {main}, by |-> "commit",
                                             on |-> verb.on])
              /\ main' = Len(changes')
              /\ based' = Len(changes')
         ELSE UNCHANGED <<changes, main, based>>
    /\ Return
    /\ UNCHANGED <<peer, dir, index, clock, budget, typed, removed, left, raced>>

-----------------------------------------------------------------------------
(* merge: both heads, the merged tree into the directory, then the swap.    *)

MergeHeads ==
    /\ At("idle") /\ Use("merges")
    /\ verb' = [NoVerb EXCEPT !.pc = "merge", !.ours = main, !.theirs = peer]
    /\ UNCHANGED <<repo, dir, index, clock, history>>

\* Conflict or not, the directory is written; only a clean merge goes on.
MergeWrite ==
    /\ At("merge")
    /\ LET m == MergeOf(changes, verb.ours, verb.theirs)
       IN  /\ Checkout(m.tree)
           /\ verb' = IF m.conflict THEN NoVerb ELSE [verb EXCEPT !.pc = "mergeSwap", !.tree = m.tree]
    /\ based' = 0
    /\ UNCHANGED <<repo, index, clock, budget>>

MergeSwap ==
    /\ At("mergeSwap")
    /\ IF main = verb.ours
         THEN /\ changes' = Append(changes, [tree |-> verb.tree, parents |-> {verb.ours, verb.theirs},
                                             by |-> "merge", on |-> 0])
              /\ main' = Len(changes')
              /\ based' = Len(changes')
         ELSE UNCHANGED <<changes, main, based>>
    /\ Return
    /\ UNCHANGED <<peer, dir, index, clock, budget, typed, removed, left, raced>>

-----------------------------------------------------------------------------
(* The peer, whose directory is always that of its branch; and other verbs   *)
(* in our repository, such as a promotion, that move the branch.  A verb     *)
(* reads the peer's branch once, at its beginning, so a commit that arrives  *)
(* while it runs might as well arrive after it; but two merges that cross    *)
(* must run at the same time.                                               *)

PeerCommit(p) ==
    /\ At("idle") /\ Use("peer")
    /\ \E f \in Edited(changes[peer].tree[p], PeerLine) :
          changes' = Append(changes, [tree |-> [changes[peer].tree EXCEPT ![p] = f], parents |-> {peer},
                                      by |-> "peer", on |-> peer])
    /\ peer' = Len(changes')
    /\ UNCHANGED <<main, dir, index, clock, verb, history>>

PeerMerge ==
    /\ At("idle") \/ At("merge")
    /\ main \notin collectAncestors(changes, peer)
    /\ Use("peerMerges")
    /\ LET m == MergeOf(changes, peer, main)
       IN  /\ ~ m.conflict
           /\ changes' = Append(changes, [tree |-> m.tree, parents |-> {peer, main}, by |-> "merge", on |-> 0])
    /\ peer' = Len(changes')
    /\ UNCHANGED <<main, dir, index, clock, verb, history>>

MovedElsewhere ==
    /\ main # peer /\ Use("moves")
    /\ main' = peer
    /\ UNCHANGED <<changes, peer, dir, index, clock, verb, history>>

-----------------------------------------------------------------------------
(* propose: the base, a scan through the index, the selected edits.         *)

\* In a task's checkout the base is the change it was made from, elsewhere HEAD.  The base
\* is read, the directory listed and the index loaded; edits between these are as good as
\* edits before them.  A file that comes after the listing is not seen.
ProposeBase ==
    /\ At("idle") /\ Use("scans")
    /\ \E base \in {1, main} :
          verb' = [NoVerb EXCEPT !.pc = "scan", !.ours = base, !.todo = {p \in Paths : work[p].has},
                                 !.idx = index.entry]
    /\ UNCHANGED <<repo, dir, index, clock, history>>

MutantClean(e, st, exec) ==
    /\ e.file.has /\ e.stat = st /\ e.file.exec = exec
    /\ index.written # 0 => st.mtime <= index.written

\* Index.clean: the tuple agrees, and the file is older than the second of the last save.
Clean(e, st, exec) ==
    /\ e.file.has /\ e.stat = st /\ e.file.exec = exec
    /\ index.written # 0 => st.mtime < index.written

\* Files come in the order of their names.
NextFile == CHOOSE p \in verb.todo : TRUE

\* scanDir, up to a file's stat.  tree collects what the scan reports; a file that is gone
\* since the listing fails the scan.
ScanStat(p) ==
    /\ At("scan") /\ verb.todo # {} /\ p = NextFile
    /\ verb' = IF ~ work[p].has THEN NoVerb
               ELSE IF Clean(verb.idx[p], stat[p], work[p].exec)
               THEN [verb EXCEPT !.todo = @ \ {p}, !.tree[p] = verb.idx[p].file]
               ELSE [verb EXCEPT !.pc = "read", !.file = {p}, !.stat = stat[p], !.exec = work[p].exec]
    /\ UNCHANGED <<repo, dir, index, clock, budget, history>>

\* The content is read after the stat; a file that is gone by then fails the scan.
ScanRead(p) ==
    /\ At("read") /\ verb.file = {p}
    /\ LET f == File(work[p].text, verb.exec)
       IN  verb' = IF ~ work[p].has THEN NoVerb
                   ELSE [verb EXCEPT !.pc = "scan", !.file = {}, !.todo = @ \ {p}, !.tree[p] = f,
                                     !.stat = NoStat, !.exec = FALSE,
                                     !.idx[p] = [stat |-> verb.stat, file |-> f]]
    /\ UNCHANGED <<repo, dir, index, clock, budget, history>>

\* Entries of files that are gone are pruned, then Index.Save.
SaveIndex ==
    /\ At("scan") /\ verb.todo = {}
    /\ index' = [written |-> clock,
                 entry |-> [p \in Paths |-> IF verb.tree[p].has THEN verb.idx[p] ELSE NoEntry]]
    /\ verb' = [verb EXCEPT !.pc = "select", !.idx = NoEntries]
    /\ raced' = {p \in raced : Mistaken(index'.entry[p], work[p], stat[p])}
    /\ UNCHANGED <<repo, dir, clock, budget, typed, removed, left, based>>

\* Compare: paths added, removed, modified or with another mode; a removed file whose text
\* reappears is a rename, one for each text.
Compare(base, new) ==
    LET added == {p \in Paths : new[p].has /\ ~ base[p].has}
        gone == {p \in Paths : base[p].has /\ ~ new[p].has}
        byHash == {[from |-> r, to |-> a] : r \in gone, a \in added}
        same == {x \in byHash : base[x.from].text = new[x.to].text}
        renamed == {CHOOSE x \in same : base[x.from].text = base[y.from].text : y \in same}
    IN  [added |-> added \ {x.to : x \in renamed}, removed |-> gone \ {x.from : x \in renamed},
         changed |-> {p \in Paths : base[p].has /\ new[p].has /\ base[p] # new[p]}, renamed |-> renamed]

\* SelectEdits, first part: the paths to write and the paths to delete.
EditsOf(d) == [write |-> d.added \cup d.changed \cup {x.to : x \in d.renamed},
               del |-> d.removed \cup {x.from : x \in d.renamed}]

Overlay(base, new, write, del) ==
    [p \in Paths |-> IF p \in del THEN Absent ELSE IF p \in write THEN new[p] ELSE base[p]]

\* SelectEdits refuses a path outside the scope, a named path that has not changed, and
\* an empty selection.
SelectEdits(only, scope) ==
    /\ At("select")
    /\ LET base == changes[verb.ours].tree
           e == EditsOf(Compare(base, verb.tree))
           all == e.write \cup e.del
           kept == IF only = {} THEN all ELSE only
       IN  verb' = IF all \subseteq scope /\ only \subseteq all /\ kept # {}
                     THEN [verb EXCEPT !.pc = "pool", !.only = only,
                                       !.tree = Overlay(base, verb.tree, e.write \cap kept, e.del \cap kept)]
                     ELSE NoVerb
    /\ UNCHANGED <<repo, dir, index, clock, budget, history>>

\* core.Propose records the change in the pool (see Promotion); no ref moves.
Propose ==
    /\ At("pool")
    /\ Return
    /\ UNCHANGED <<repo, dir, index, clock, budget, history>>

-----------------------------------------------------------------------------
WorkcopyNext ==
    \/ \E p \in Paths : EditFile(p) \/ ChangeMode(p) \/ PeerCommit(p) \/ ScanStat(p) \/ ScanRead(p)
    \/ \E p, q \in Paths : MoveFile(p, q)
    \/ \E c \in {main, peer} : CheckoutVerb(c)
    \/ \E only \in Selections, scope \in Scopes : SelectEdits(only, scope)
    \/ SecondPasses \/ ProposeBase \/ CommitTree \/ CommitHead \/ CommitSwap
    \/ MergeHeads \/ MergeWrite \/ MergeSwap \/ PeerMerge \/ MovedElsewhere
    \/ SaveIndex \/ Propose

WorkcopySpec == WorkcopyInit /\ [][WorkcopyNext]_workcopyVars

-----------------------------------------------------------------------------
(* Properties.                                                              *)

WorkcopyTypeOK ==
    /\ main \in DOMAIN changes /\ peer \in DOMAIN changes /\ based \in 0..Len(changes)
    /\ \A p \in Paths : work[p].has <=> stat[p] # NoStat
    /\ \A p, q \in Paths : stat[p].inode = stat[q].inode /\ work[p].has => p = q
    /\ \A p \in Paths : stat[p].mtime <= clock
    /\ index.written <= clock /\ \A b \in DOMAIN Bounds : used[b] \in 0..Bounds[b]
    /\ spent <= Budget

Lines(c) == LinesOf(changes[c].tree)
Ids == DOMAIN changes
Plain == {c \in Ids : changes[c].by # "merge"}
Inherited(c) == UNION {Lines(p) : p \in changes[c].parents}
Inserts(c) == Lines(c) \ Inherited(c)
Deletes(c) == Inherited(c) \ Lines(c)

\* A line written by one change only; markers, lines brought back by a commit from a file
\* that should have gone, and lines of a merge committed by hand are not.
WrittenOnce(l) == l[2] > 0 /\ Cardinality({c \in Plain : l \in Inserts(c)}) = 1

\* A merge keeps everybody's work (merge.go Merge, MergeBases, virtualBaseTree, diff3.go
\* merge3), however often two branches have been merged into each other: the newest change,
\* when it is a merge, has a line exactly when one of its ancestors wrote it and none took it
\* away.  (Changes are never altered, so every merge change was the newest once.)
MergedLines ==
    LET m == Len(changes)
        anc == collectAncestors(changes, m)
    IN  changes[m].by = "merge" =>
            \A l \in UNION {Lines(c) : c \in Ids} :
              WrittenOnce(l) =>
                (l \in Lines(m) <=> /\ \E c \in anc \cap Plain : l \in Inserts(c)
                                   /\ \A c \in anc \cap Plain : l \notin Deletes(c))

\* A commit holds its author's edits and nothing else (main.go cmdCommit, cmdMerge,
\* cmdCheckout, worktree.go Checkout), merges and checkouts before it notwithstanding: where
\* the newest change is a commit whose parent is the change the directory was made from,
\* what it takes away the user removed, and what it adds the user typed or an earlier
\* checkout has left.
OwnEditsOnly ==
    /\ WorkcopyTypeOK
    /\ LET c == Len(changes)
       IN  changes[c].by = "commit" /\ changes[c].parents = {changes[c].on} =>
             Deletes(c) \subseteq removed /\ Inserts(c) \subseteq typed \cup left

\* A proposal is what is in the directory (scan.go Scan, Index, Compare, SelectEdits, Overlay),
\* whatever the index remembers: the paths selected are as they are on disk, the others as in
\* the base; except files edited while the verb ran, and files rewritten, before the second of
\* the save, to the very tuple by which the index remembers another text.
ProposesTheDirectory ==
    At("pool") =>
        \A p \in Paths \ (verb.touched \cup raced) :
            verb.tree[p] = IF verb.only = {} \/ p \in verb.only THEN work[p] ELSE changes[verb.ours].tree[p]
=============================================================================
