----------------------------- MODULE Promotion -----------------------------
(* Optimistic concurrency at promotion (internal/mcp, internal/core and the
   commit, propose and promote commands): tasks read a pinned base through the
   gate, which logs every hash it resolves, and propose changes that carry the
   log; operators promote changes, checking first whether what a change read is
   still there; people commit in between.

   Objects are content addressed, so a hash stands for what it hashes.  A tree
   has one file in each directory.  Refs are the atomic registers of
   RefRegister.  A call of a tool is one step: it touches no shared state but
   the grant's read set, which only grows.  Of the hashes the gate records,
   the ids of changes, tickets and notes are left out: they are in no tree, so
   they cannot make a change stale.                                          *)
EXTENDS Naturals, Sequences

CONSTANTS Dirs,        \* the directories of the repository
          Contents,    \* what a file may hold
          Tasks,       \* the tasks, each with its grant
          Scope,       \* Scope[t]: the directories t's grant covers
          Promoters,   \* the operators that run promote
          MaxChanges,  \* bound: changes ever stored
          MaxConns     \* bound: connections to one task's gate

ASSUME PromotionAssumption ==
    /\ Scope \in [Tasks -> SUBSET Dirs]
    /\ Contents # {}
    /\ MaxChanges \in Nat \ {0} /\ MaxConns \in Nat

Trees == [Dirs -> Contents]

Root(tree) == <<"root", tree>>      \* the hash of the whole tree,
Subtree(c) == <<"subtree", c>>      \* of a directory with the file c in it,
Blob(c) == <<"blob", c>>            \* and of a file

Hashes == {Root(tree) : tree \in Trees}
          \cup {Subtree(c) : c \in Contents} \cup {Blob(c) : c \in Contents}

VARIABLES
    changes,  \* the change objects, in the order they were stored
    main,     \* refs/heads/main
    base,     \* base[t]: the change t was started from, or NoChange
    conns,    \* conns[t]: how often t's gate has been connected to
    reads,    \* reads[t]: Grant.Reads
    seen,     \* history: what t was shown, file contents and listings
    promote,  \* promote[p]: the promotion p has under way
    move      \* history: the promotion that was accepted last

vars == <<changes, main, base, conns, reads, seen, promote, move>>

NoChange == 0

Ids == 1 .. Len(changes)

Shown == [files : SUBSET Contents, listing : BOOLEAN]

NothingShown == [files |-> {}, listing |-> FALSE]

\* A stored change: its tree, its first parent, its provenance, and what the task
\* that made it had been shown.
Stored == [tree : Trees, parent : 0 .. MaxChanges, reads : SUBSET Hashes, seen : Shown]

\* step: the next thing to do; tip: the value of main that the reads were
\* checked against; lease: the value that the update expects.
Promotions ==
    [step : {"idle", "check", "lease", "swap"}, new : Ids \cup {NoChange}, force : BOOLEAN,
     tip : Ids \cup {NoChange}, lease : Ids \cup {NoChange}]

NoPromotion == [step |-> "idle", new |-> NoChange, force |-> FALSE, tip |-> NoChange, lease |-> NoChange]

\* Every variable holds a value of the kind the code keeps there.
TypeOK ==
    /\ changes \in Seq(Stored) /\ Len(changes) <= MaxChanges
    /\ \A x \in Ids : changes[x].parent \in 0 .. x - 1
    /\ main \in Ids
    /\ base \in [Tasks -> Ids \cup {NoChange}]
    /\ conns \in [Tasks -> 0 .. MaxConns]
    /\ reads \in [Tasks -> SUBSET Hashes]
    /\ seen \in [Tasks -> Shown]
    /\ promote \in [Promoters -> Promotions]
    /\ move \in [new : Ids, old : Ids, tip : Ids \cup {NoChange}, force : BOOLEAN]

Init ==
    /\ \E c \in Contents : changes = <<[tree |-> [d \in Dirs |-> c], parent |-> NoChange,
                                        reads |-> {}, seen |-> NothingShown]>>
    /\ main = 1
    /\ base = [t \in Tasks |-> NoChange]
    /\ conns = [t \in Tasks |-> 0]
    /\ reads = [t \in Tasks |-> {}]
    /\ seen = [t \in Tasks |-> NothingShown]
    /\ promote = [p \in Promoters |-> NoPromotion]
    /\ move = [new |-> 1, old |-> 1, tip |-> NoChange, force |-> TRUE]

Tree(x) == changes[x].tree

Files(x) == {Tree(x)[d] : d \in Dirs}

\* The change object that is stored, whose provenance lists the reads.
Store(tree, parent, read, shown) ==
    /\ Len(changes) < MaxChanges
    /\ changes' = Append(changes, [tree |-> tree, parent |-> parent, reads |-> read, seen |-> shown])

-----------------------------------------------------------------------------
(* The gate.                                                                *)

\* StartTask: the task reads and proposes from what main is now.
Start(t) ==
    /\ base[t] = NoChange
    /\ base' = [base EXCEPT ![t] = main]
    /\ UNCHANGED <<changes, main, conns, reads, seen, promote, move>>

\* Mutant: every gate has a read set of its own.
ConnectAfresh(t) ==
    /\ base[t] # NoChange /\ conns[t] < MaxConns
    /\ conns' = [conns EXCEPT ![t] = @ + 1]
    /\ reads' = [reads EXCEPT ![t] = {}]
    /\ UNCHANGED <<changes, main, base, seen, promote, move>>

\* acceptLoop and NewGate: the connections of a task share its read set.
Connect(t) ==
    /\ base[t] # NoChange /\ conns[t] < MaxConns
    /\ conns' = [conns EXCEPT ![t] = @ + 1]
    /\ UNCHANGED <<changes, main, base, reads, seen, promote, move>>

\* A call that resolves hs and shows the client the contents of fs, of which
\* those that the base has count.  A path out of the scope is refused, and so is
\* every call once the grant has expired.
Call(t, hs, fs, listing) ==
    /\ conns[t] > 0
    /\ Len(changes) < MaxChanges   \* bound: a later read can be in no proposal
    /\ reads' = [reads EXCEPT ![t] = @ \cup hs]
    /\ seen' = [seen EXCEPT ![t] = [files |-> @.files \cup (fs \cap Files(base[t])),
                                    listing |-> @.listing \/ listing]]
    /\ UNCHANGED <<changes, main, base, conns, promote, move>>

\* readLog.Tree: the root, the directory and what is in it.
Listed(x, d) == {Root(Tree(x)), Subtree(Tree(x)[d]), Blob(Tree(x)[d])}

\* list_tree
ListTree(t) == \E d \in Scope[t] : Call(t, Listed(base[t], d), {}, TRUE)

\* read_file: blobAt lists the directory, then the blob is read.
ReadFile(t) == \E d \in Scope[t] : Call(t, Listed(base[t], d), {Tree(base[t])[d]}, TRUE)

\* find_files and search_text: the scope is walked unrecorded, and only the
\* files that match, or that are searched, are recorded.
Search(t) ==
    \E D \in SUBSET Scope[t] :
      LET found == {Tree(base[t])[d] : d \in D} IN
      Call(t, {Blob(c) : c \in found}, found, FALSE)

\* read_change, and read_log with a path: the change's tree.
ReadChange(t) == \E x \in Ids : Call(t, {Root(Tree(x))}, {}, FALSE)

\* diff of a change: the files of the scope in which it differs from its first
\* parent, on both sides.
Diff(t) ==
    \E x \in Ids :
      LET old == changes[x].parent
          D   == {d \in Scope[t] : Tree(x)[d] # Tree(old)[d]}
          fs  == {Tree(x)[d] : d \in D} \cup {Tree(old)[d] : d \in D} IN
      /\ old # NoChange
      /\ Call(t, {Blob(c) : c \in fs}, fs, FALSE)

\* toolPropose: files sent, or changed in the checkout, replace the base's inside
\* the scope and count as read; core.Propose stores the change on the base.
Propose(t) ==
    \E D \in (SUBSET Scope[t]) \ {{}} : \E new \in [D -> Contents] :
      LET read == reads[t] \cup {Blob(new[d]) : d \in D} IN
      /\ conns[t] > 0
      /\ Store([d \in Dirs |-> IF d \in D THEN new[d] ELSE Tree(base[t])[d]], base[t], read, seen[t])
      /\ reads' = [reads EXCEPT ![t] = read]
      /\ UNCHANGED <<main, base, conns, seen, promote, move>>

Gate(t) ==
    \/ Connect(t) \/ ListTree(t) \/ ReadFile(t) \/ Search(t)
    \/ ReadChange(t) \/ Diff(t) \/ Propose(t)

-----------------------------------------------------------------------------
(* The commands.                                                            *)

\* commit: the tree is whatever the working directory holds.  What main is when
\* the ref is swapped is the parent it was read as, or the commit fails and
\* stores a change nobody names.  propose outside a task does the same without
\* a move of main; neither has a read log.
Commit ==
    \E tree \in Trees :
      /\ Store(tree, main, {}, NothingShown)
      /\ main' \in {main, Len(changes) + 1}
      /\ UNCHANGED <<base, conns, reads, seen, promote, move>>

\* core.CollectReach
Reach(tree) == {Root(tree)} \cup {Subtree(tree[d]) : d \in Dirs} \cup {Blob(tree[d]) : d \in Dirs}

\* Mutant: a read is stale when it was not there and is now.
StaleSwapped(x, tip) ==
    LET old == changes[x].parent IN
    /\ old # NoChange /\ old # tip
    /\ \E h \in changes[x].reads : h \notin Reach(Tree(old)) /\ h \in Reach(Tree(tip))

\* CheckReadStaleness and DependencyStale: something that x read in the tree it
\* was built on is nowhere in the tree of the tip.
Stale(x, tip) ==
    LET old == changes[x].parent IN
    /\ old # NoChange /\ old # tip
    /\ \E h \in changes[x].reads : h \in Reach(Tree(old)) /\ h \notin Reach(Tree(tip))

SetPromote(p, r) ==
    /\ promote' = [promote EXCEPT ![p] = r]
    /\ UNCHANGED <<changes, base, conns, reads, seen>>

\* promote <ref> <new> [--allow-stale], once the change's authority and scope
\* have been verified.
PromoteStart(p) ==
    /\ promote[p].step = "idle"
    /\ \E x \in Ids, force \in BOOLEAN :
         SetPromote(p, [NoPromotion EXCEPT !.step = IF force THEN "lease" ELSE "check",
                                           !.new = x, !.force = force])
    /\ UNCHANGED <<main, move>>

\* checkPromotionReadsNotStale: main is resolved, and a stale change refused.
PromoteCheck(p) ==
    /\ promote[p].step = "check"
    /\ SetPromote(p, IF Stale(promote[p].new, main) THEN NoPromotion
                     ELSE [promote[p] EXCEPT !.step = "lease", !.tip = main])
    /\ UNCHANGED <<main, move>>

\* The lease is what main is now, resolved a second time.
PromoteLease(p) ==
    /\ promote[p].step = "lease"
    /\ SetPromote(p, [promote[p] EXCEPT !.step = "swap", !.lease = main])
    /\ UNCHANGED <<main, move>>

\* Verifier.Verify: it swaps the ref when its value is the lease.
PromoteSwap(p) ==
    /\ promote[p].step = "swap"
    /\ SetPromote(p, NoPromotion)
    /\ \/ /\ main = promote[p].lease
          /\ main' = promote[p].new
          /\ move' = [new |-> promote[p].new, old |-> main,
                      tip |-> promote[p].tip, force |-> promote[p].force]
       \/ /\ main # promote[p].lease
          /\ UNCHANGED <<main, move>>

\* One of the guards that this module leaves open refuses: the signature, the
\* authority, the task's scope, the approval of the ticket, the check evidence.
PromoteRefuse(p) ==
    /\ promote[p].step # "idle"
    /\ SetPromote(p, NoPromotion)
    /\ UNCHANGED <<main, move>>

Promote(p) ==
    PromoteStart(p) \/ PromoteCheck(p) \/ PromoteLease(p) \/ PromoteSwap(p) \/ PromoteRefuse(p)

Next ==
    \/ \E t \in Tasks : Start(t) \/ Gate(t)
    \/ \E p \in Promoters : Promote(p)
    \/ Commit

Spec == Init /\ [][Next]_vars

-----------------------------------------------------------------------------
\* What a task was shown before it proposed is in the provenance of the change,
\* over however many connections it was shown ("provenance accumulates across
\* the whole task", daemon.go).
ReadsInProvenance ==
    \A x \in Ids : {Blob(c) : c \in changes[x].seen.files} \subseteq changes[x].reads

\* main stood still between the check of the last promotion and its lease.
Undisturbed == ~move.force /\ move.tip = move.old

\* When main stands still between the check and the lease, what the task was
\* shown is still somewhere in the tree that its change replaces: nobody changed
\* it while the task worked (dependency.go).
ShownStillThere ==
    Undisturbed => changes[move.new].seen.files \subseteq Files(move.old)

\* A task that listed a directory or read a file depends on the whole tree: its
\* change is promoted only over a tree equal to the one it read, so it reverts
\* nobody's work, read or not (readLog.Tree records the root).
ListingPinsTree ==
    Undisturbed /\ changes[move.new].seen.listing => Tree(move.old) = Tree(changes[move.new].parent)

\* Provenance does its work (readlog.go, dependency.go): it holds what the task was shown, and
\* what it holds of a listing keeps the change from reverting anybody.
ProvenanceInv == TypeOK /\ ReadsInProvenance /\ ListingPinsTree
=============================================================================
