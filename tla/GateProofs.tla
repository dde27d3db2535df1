----------------------------- MODULE GateProofs -----------------------------
(* Machine-checked proofs about what the gate serves to agents: promotions and
   what they were shown (Promotion), for any directories and contents, any
   number of tasks and operators, and any bounds on changes and connections;
   and what it says of affected paths and of edges (Affected), for any files,
   analyzers, builds and queries.                                            *)
EXTENDS Promotion, Affected, FiniteSetTheorems, SequenceTheorems, WellFoundedInduction, TLAPS

\* A read set holds what its task was shown: the file contents, which are the base's, and the tree
\* of a listing.
Kept(t) ==
    /\ {Blob(c) : c \in seen[t].files} \subseteq reads[t]
    /\ base[t] # NoChange => seen[t].files \subseteq Files(base[t])
    /\ (base[t] # NoChange /\ seen[t].listing) => Root(Tree(base[t])) \in reads[t]
    /\ base[t] = NoChange => (conns[t] = 0 /\ seen[t] = NothingShown)

ReadsKept == \A t \in Tasks : Kept(t)

\* So does the provenance of a change, which is built on what its task was shown.
Provided(x) ==
    LET y == changes[x].parent IN
    /\ {Blob(c) : c \in changes[x].seen.files} \subseteq changes[x].reads
    /\ y # NoChange => changes[x].seen.files \subseteq Files(y)
    /\ (y # NoChange /\ changes[x].seen.listing) => Root(Tree(y)) \in changes[x].reads
    /\ y = NoChange => changes[x].seen = NothingShown

Provenance == \A x \in Ids : Provided(x)

\* A promotion that is not forced goes on only from a check that it passed.
Passed(r) ==
    /\ r.step # "idle" => r.new \in Ids
    /\ r.step = "swap" => r.lease \in Ids
    /\ r.step = "check" => ~r.force
    /\ (r.step \in {"lease", "swap"} /\ ~r.force) => (r.tip \in Ids /\ ~Stale(r.new, r.tip))

Checked == \A p \in Promoters : Passed(promote[p])

\* The promotion accepted last was one of those.
LastChecked == ~move.force => move.tip \in Ids /\ ~Stale(move.new, move.tip)

\* The inductive invariant.
IInv == TypeOK /\ ReadsKept /\ Provenance /\ Checked /\ LastChecked

-----------------------------------------------------------------------------
(* Hashes, and the changes there are.                                       *)

\* A hash stands for what it hashes.
LEMMA HashesApart ==
  /\ \A a, b : Root(a) = Root(b) => a = b
  /\ \A a, b : Blob(a) = Blob(b) => a = b
  /\ \A a, b : Root(a) # Subtree(b) /\ Root(a) # Blob(b) /\ Subtree(a) # Blob(b)
BY DEF Root, Subtree, Blob

\* What the variables are.
LEMMA Kinds ==
  ASSUME TypeOK
  PROVE  /\ Len(changes) \in Nat /\ NoChange \notin Ids
         /\ \A x \in Ids : /\ changes[x] \in Stored /\ Tree(x) \in Trees
                          /\ changes[x].parent \in Ids \cup {NoChange}
                          /\ changes[x].reads \subseteq Hashes /\ changes[x].seen \in Shown
         /\ \A t \in Tasks : /\ base[t] \in Ids \cup {NoChange} /\ reads[t] \subseteq Hashes
                             /\ seen[t] \in Shown /\ conns[t] \in 0 .. MaxConns
                             /\ Scope[t] \subseteq Dirs
         /\ \A p \in Promoters : promote[p] \in Promotions
<1>1. Len(changes) \in Nat /\ \A x \in Ids : changes[x] \in Stored
  BY LenProperties, ElementOfSeq DEF TypeOK, Ids
<1>2. NoChange \notin Ids /\ \A x \in Ids : changes[x].parent \in Ids \cup {NoChange}
  BY <1>1 DEF TypeOK, Ids, NoChange
<1>3. \A x \in Ids : Tree(x) \in Trees /\ changes[x].reads \subseteq Hashes /\ changes[x].seen \in Shown
  BY <1>1 DEF Stored, Tree
<1> QED
  BY <1>1, <1>2, <1>3, PromotionAssumption DEF TypeOK

\* The hashes of a tree are hashes.
LEMMA TreeHashes ==
  ASSUME NEW tree \in Trees
  PROVE  /\ Root(tree) \in Hashes
         /\ \A d \in Dirs : Subtree(tree[d]) \in Hashes /\ Blob(tree[d]) \in Hashes /\ tree[d] \in Contents
BY DEF Trees, Hashes

\* The changes there are stay what they are.
Grew == Ids \subseteq Ids' /\ \A x \in Ids : changes'[x] = changes[x]

\* Whether a change is stale at a tip is settled when both are stored.
LEMMA StaleStays ==
  ASSUME TypeOK, Grew, NEW x \in Ids, NEW tip \in Ids
  PROVE  Stale(x, tip)' <=> Stale(x, tip)
<1> DEFINE old == changes[x].parent
<1>1. old \in Ids \cup {NoChange} /\ changes'[x] = changes[x] /\ Tree(tip)' = Tree(tip)
  BY Kinds DEF Grew, Tree
<1>2. CASE old = NoChange
  BY <1>1, <1>2 DEF Stale
<1>3. CASE old \in Ids
  <2>1. PICK k : k = old
    OBVIOUS
  <2>2. Tree(k)' = Tree(k) /\ changes'[x].parent = k
    BY <1>1, <1>3, <2>1 DEF Grew, Tree
  <2>3. \A tree : Reach(tree)' = Reach(tree)
    BY DEF Reach
  <2> QED
    BY <1>1, <2>1, <2>2, <2>3 DEF Stale
<1> QED
  BY <1>1, <1>2, <1>3

\* What a change has read of its parent's tree is in the tree of a tip that it is not stale at.
LEMMA StillThere ==
  ASSUME TypeOK, NEW x \in Ids, NEW tip \in Ids, ~Stale(x, tip), changes[x].parent # NoChange,
         NEW h \in changes[x].reads, h \in Reach(Tree(changes[x].parent))
  PROVE  h \in Reach(Tree(tip))
BY DEF Stale

\* A change that is stored.
LEMMA Storing ==
  ASSUME TypeOK, NEW tree \in Trees, NEW parent \in Ids, NEW read \in SUBSET Hashes, NEW shown \in Shown,
         Store(tree, parent, read, shown),
         NEW n, n = Len(changes) + 1
  PROVE  /\ Grew /\ Ids' = Ids \cup {n} /\ n \notin Ids /\ n # NoChange
         /\ changes'[n] = [tree |-> tree, parent |-> parent, reads |-> read, seen |-> shown]
         /\ changes' \in Seq(Stored) /\ Len(changes') <= MaxChanges
         /\ \A x \in Ids' : changes'[x].parent \in 0 .. x - 1
<1> DEFINE c == [tree |-> tree, parent |-> parent, reads |-> read, seen |-> shown]
<1>1. /\ Len(changes) \in Nat /\ Len(changes) < MaxChanges /\ MaxChanges \in Nat
      /\ changes' = Append(changes, c) /\ changes \in Seq(Stored)
  BY Kinds, PromotionAssumption DEF Store, TypeOK
<1>2. c \in Stored
  <2>1. parent \in 0 .. MaxChanges
    BY <1>1 DEF Ids
  <2> QED
    BY <2>1 DEF Stored
<1>3. c.parent = parent
  OBVIOUS
<1> HIDE DEF c
<1>4. /\ changes' \in Seq(Stored) /\ Len(changes') = Len(changes) + 1 /\ changes'[n] = c
      /\ \A x \in 1 .. Len(changes) : changes'[x] = changes[x]
  BY <1>1, <1>2, AppendProperties
<1>5. Ids' = Ids \cup {n} /\ n \notin Ids /\ n # NoChange
  BY <1>1, <1>4 DEF Ids, NoChange
<1>6. Grew
  BY <1>4, <1>5 DEF Grew, Ids
<1>7. \A x \in Ids' : changes'[x].parent \in 0 .. x - 1
  <2>1. changes'[n].parent \in 0 .. n - 1
    BY <1>1, <1>3, <1>4 DEF Ids
  <2>2. \A x \in Ids : changes'[x].parent \in 0 .. x - 1
    BY <1>6 DEF TypeOK, Grew
  <2> QED
    BY <1>5, <2>1, <2>2
<1>8. changes'[n] = [tree |-> tree, parent |-> parent, reads |-> read, seen |-> shown]
  BY <1>4 DEF c
<1>9. Len(changes') <= MaxChanges
  BY <1>1, <1>4
<1> QED
  BY <1>4, <1>5, <1>6, <1>7, <1>8, <1>9

-----------------------------------------------------------------------------
(* The invariant is inductive.                                              *)

\* Promotions do not notice what is stored or read meanwhile.
LEMMA ChecksStay ==
  ASSUME IInv, Grew, promote' = promote, move' = move
  PROVE  /\ Checked' /\ LastChecked'
         /\ promote' \in [Promoters -> Promotions']
         /\ move' \in [new : Ids', old : Ids', tip : Ids' \cup {NoChange}, force : BOOLEAN]
<1>1. move \in [new : Ids, old : Ids, tip : Ids \cup {NoChange}, force : BOOLEAN]
  BY DEF IInv, TypeOK
<1>2. Ids \subseteq Ids' /\ promote \in [Promoters -> Promotions]
  BY DEF Grew, IInv, TypeOK
<1>3. Promotions \subseteq Promotions'
  BY <1>2 DEF Promotions
<1>4. \A x \in Ids, tip \in Ids : Stale(x, tip)' <=> Stale(x, tip)
  BY StaleStays DEF IInv
<1>5. LastChecked'
  <2>1. PICK x, k : x = move.new /\ k = move.tip
    OBVIOUS
  <2>2. x \in Ids /\ (~move.force => k \in Ids /\ ~Stale(x, k))
    BY <1>1, <2>1 DEF IInv, LastChecked
  <2>3. ~move.force => k \in Ids' /\ ~Stale(x, k)'
    BY <1>2, <1>4, <2>2
  <2>4. move'.new = x /\ move'.tip = k
    BY <2>1
  <2> QED
    BY <2>3, <2>4 DEF LastChecked, Stale
<1>6. Checked'
  <2>1. \A r : Passed(r) => Passed(r)'
    BY <1>2, <1>4 DEF Passed
  <2>2. ASSUME NEW p \in Promoters, NEW r, r = promote[p]
        PROVE  Passed(r)'
    BY <2>1, <2>2 DEF IInv, Checked
  <2> QED
    BY <2>2 DEF Checked, Passed, Stale
<1>7. move' \in [new : Ids', old : Ids', tip : Ids' \cup {NoChange}, force : BOOLEAN]
  BY <1>1, <1>2
<1> QED
  BY <1>2, <1>3, <1>5, <1>6, <1>7

\* A stored change keeps its tree and its provenance.
LEMMA ProvenanceStays ==
  ASSUME IInv, Grew, NEW x \in Ids
  PROVE  Tree(x)' = Tree(x) /\ Files(x)' = Files(x) /\ Provided(x)'
<1>1. \A z \in Ids : Tree(z)' = Tree(z) /\ Files(z)' = Files(z)
  BY DEF Grew, Tree, Files
<1>2. PICK y : y = changes[x].parent
  OBVIOUS
<1>3. y \in Ids \cup {NoChange} /\ changes'[x] = changes[x]
  BY <1>2, Kinds DEF IInv, Grew
<1>4. /\ {Blob(c) : c \in changes[x].seen.files} \subseteq changes[x].reads
      /\ y # NoChange => changes[x].seen.files \subseteq Files(y)
      /\ (y # NoChange /\ changes[x].seen.listing) => Root(Tree(y)) \in changes[x].reads
      /\ y = NoChange => changes[x].seen = NothingShown
  BY <1>2 DEF IInv, Provenance, Provided
<1>5. y # NoChange => (Tree(y)' = Tree(y) /\ Files(y)' = Files(y))
  BY <1>1, <1>3
<1>6. /\ {Blob(c) : c \in changes'[x].seen.files} \subseteq changes'[x].reads
      /\ y # NoChange => changes'[x].seen.files \subseteq Files(y)'
      /\ (y # NoChange /\ changes'[x].seen.listing) => Root(Tree(y)') \in changes'[x].reads
      /\ y = NoChange => changes'[x].seen = NothingShown
  BY <1>3, <1>4, <1>5
<1>7. changes'[x].parent = y
  BY <1>2, <1>3
<1> QED
  BY <1>1, <1>6, <1>7 DEF Provided, Files, Tree, Root, Blob, NothingShown, NoChange

\* A step of the gate that stores nothing.
LEMMA ReaderStep ==
  ASSUME IInv, UNCHANGED <<changes, main, promote, move>>, ReadsKept',
         base' \in [Tasks -> Ids \cup {NoChange}], conns' \in [Tasks -> 0 .. MaxConns],
         reads' \in [Tasks -> SUBSET Hashes], seen' \in [Tasks -> Shown]
  PROVE  IInv'
<1>1. Grew /\ Ids' = Ids
  BY DEF Grew, Ids
<1>2. TypeOK'
  BY <1>1, ChecksStay DEF IInv, TypeOK
<1>3. Provenance'
  BY <1>1, ProvenanceStays DEF Provenance
<1> QED
  BY <1>1, <1>2, <1>3, ChecksStay DEF IInv

\* A task that starts has been shown nothing.
LEMMA StartKeeps ==
  ASSUME IInv, NEW t \in Tasks, Start(t)
  PROVE  IInv'
<1>1. base' \in [Tasks -> Ids \cup {NoChange}] /\ base'[t] = main /\ main # NoChange
  BY Kinds DEF IInv, TypeOK, Start
<1>2. \A u \in Tasks : u # t => base'[u] = base[u]
  BY DEF IInv, TypeOK, Start
<1>3. UNCHANGED <<changes, main, conns, reads, seen, promote, move>>
  BY DEF Start
<1>4. Kept(t)'
  <2>1. seen[t] = NothingShown
    BY DEF IInv, ReadsKept, Kept, Start
  <2> QED
    BY <1>1, <1>3, <2>1 DEF Kept, NothingShown
<1>5. \A u \in Tasks : u # t => Kept(u)'
  BY <1>2, <1>3 DEF IInv, ReadsKept, Kept, Files, Tree
<1>6. ReadsKept'
  BY <1>4, <1>5 DEF ReadsKept
<1> QED
  BY <1>1, <1>3, <1>6, ReaderStep DEF IInv, TypeOK

\* A connection changes nothing but the count.
LEMMA ConnectKeeps ==
  ASSUME IInv, NEW t \in Tasks, Connect(t)
  PROVE  IInv'
<1>1. conns' \in [Tasks -> 0 .. MaxConns] /\ \A u \in Tasks : u # t => conns'[u] = conns[u]
  BY PromotionAssumption DEF IInv, TypeOK, Connect
<1>2. UNCHANGED <<changes, main, base, reads, seen, promote, move>> /\ base[t] # NoChange
  BY DEF Connect
<1>3. ReadsKept'
  BY <1>1, <1>2 DEF IInv, ReadsKept, Kept, Files, Tree
<1> QED
  BY <1>1, <1>2, <1>3, ReaderStep DEF IInv, TypeOK

\* A gate that has been connected to has a base.
LEMMA Based ==
  ASSUME IInv, NEW t \in Tasks, conns[t] > 0
  PROVE  base[t] \in Ids /\ base[t] # NoChange /\ Tree(base[t]) \in Trees /\ Scope[t] \subseteq Dirs
<1>1. base[t] # NoChange
  BY DEF IInv, ReadsKept, Kept
<1> QED
  BY <1>1, Kinds DEF IInv

\* A call records what it shows, so that the read set goes on holding it.
LEMMA CallKeeps ==
  ASSUME IInv, NEW t \in Tasks, NEW hs \in SUBSET Hashes, NEW fs, NEW listing \in BOOLEAN,
         {Blob(c) : c \in fs} \subseteq hs,
         listing => Root(Tree(base[t])) \in hs,
         Call(t, hs, fs, listing)
  PROVE  IInv'
<1> DEFINE shown == [files |-> seen[t].files \cup (fs \cap Files(base[t])),
                     listing |-> (seen[t].listing \/ listing)]
<1>1. /\ UNCHANGED <<changes, main, base, conns, promote, move>>
      /\ reads' = [reads EXCEPT ![t] = reads[t] \cup hs] /\ seen' = [seen EXCEPT ![t] = shown]
  BY DEF Call
<1>2. base[t] # NoChange /\ Files(base[t]) \subseteq Contents
  <2>1. base[t] # NoChange /\ Tree(base[t]) \in Trees
    BY Based DEF Call
  <2> QED
    BY <2>1, TreeHashes DEF Files
<1>3. shown \in Shown
  <2>1. seen[t].files \in SUBSET Contents /\ seen[t].listing \in BOOLEAN
    BY Kinds DEF IInv, Shown
  <2> QED
    BY <1>2, <2>1 DEF Shown
<1>4. shown.files = seen[t].files \cup (fs \cap Files(base[t])) /\ shown.listing = (seen[t].listing \/ listing)
  OBVIOUS
<1> HIDE DEF shown
<1>5. reads' \in [Tasks -> SUBSET Hashes] /\ reads'[t] = reads[t] \cup hs
  BY <1>1, Kinds DEF IInv, TypeOK
<1>6. seen' \in [Tasks -> Shown] /\ seen'[t] = shown
  BY <1>1, <1>3 DEF IInv, TypeOK
<1>7. Kept(t)
  BY DEF IInv, ReadsKept
<1>8. Kept(t)'
  <2>1. {Blob(c) : c \in seen'[t].files} \subseteq reads'[t]
    BY <1>4, <1>5, <1>6, <1>7 DEF Kept
  <2>2. seen'[t].files \subseteq Files(base[t])
    BY <1>2, <1>4, <1>6, <1>7 DEF Kept
  <2>3. seen'[t].listing => Root(Tree(base[t])) \in reads'[t]
    BY <1>2, <1>4, <1>5, <1>6, <1>7 DEF Kept
  <2>4. base'[t] = base[t] /\ Files(base[t])' = Files(base[t]) /\ Tree(base[t])' = Tree(base[t])
    BY <1>1 DEF Files, Tree
  <2> QED
    BY <1>2, <2>1, <2>2, <2>3, <2>4 DEF Kept, Files, Tree
<1>9. \A u \in Tasks : u # t => Kept(u)'
  <2>1. \A u \in Tasks : u # t => (reads'[u] = reads[u] /\ seen'[u] = seen[u])
    BY <1>1 DEF IInv, TypeOK
  <2> QED
    BY <1>1, <2>1 DEF IInv, ReadsKept, Kept, Files, Tree
<1>10. ReadsKept'
  BY <1>8, <1>9 DEF ReadsKept
<1> QED
  BY <1>1, <1>5, <1>6, <1>10, ReaderStep DEF IInv, TypeOK

\* The calls that show something record it.
LEMMA ReaderKeeps ==
  ASSUME IInv, NEW t \in Tasks,
         ListTree(t) \/ ReadFile(t) \/ Search(t) \/ ReadChange(t) \/ Diff(t)
  PROVE  IInv'
<1>0. conns[t] > 0
  BY DEF ListTree, ReadFile, Search, ReadChange, Diff, Call
<1>1. base[t] \in Ids /\ Tree(base[t]) \in Trees /\ Scope[t] \subseteq Dirs
  BY <1>0, Based
<1>2. \A d \in Scope[t] : /\ Listed(base[t], d) \in SUBSET Hashes
                          /\ Root(Tree(base[t])) \in Listed(base[t], d)
                          /\ Blob(Tree(base[t])[d]) \in Listed(base[t], d)
  BY <1>1, TreeHashes DEF Listed
<1>3. CASE ListTree(t)
  <2>1. PICK d \in Scope[t] : Call(t, Listed(base[t], d), {}, TRUE)
    BY <1>3 DEF ListTree
  <2>2. {Blob(c) : c \in {}} \subseteq Listed(base[t], d)
    OBVIOUS
  <2> QED
    BY <1>2, <2>1, <2>2, CallKeeps
<1>4. CASE ReadFile(t)
  <2>1. PICK d \in Scope[t] : Call(t, Listed(base[t], d), {Tree(base[t])[d]}, TRUE)
    BY <1>4 DEF ReadFile
  <2>2. {Blob(c) : c \in {Tree(base[t])[d]}} \subseteq Listed(base[t], d)
    BY <1>2
  <2> QED
    BY <1>2, <2>1, <2>2, CallKeeps
<1>5. CASE Search(t)
  <2>1. PICK D \in SUBSET Scope[t] :
          Call(t, {Blob(c) : c \in {Tree(base[t])[d] : d \in D}}, {Tree(base[t])[d] : d \in D}, FALSE)
    BY <1>5 DEF Search
  <2>2. {Blob(c) : c \in {Tree(base[t])[d] : d \in D}} \in SUBSET Hashes
    BY <1>1, TreeHashes
  <2> QED
    BY <2>1, <2>2, CallKeeps
<1>6. CASE ReadChange(t)
  <2>1. PICK x \in Ids : Call(t, {Root(Tree(x))}, {}, FALSE)
    BY <1>6 DEF ReadChange
  <2>2. {Root(Tree(x))} \in SUBSET Hashes
    BY <2>1, Kinds, TreeHashes DEF IInv
  <2>3. {Blob(c) : c \in {}} \subseteq {Root(Tree(x))}
    OBVIOUS
  <2> QED
    BY <2>1, <2>2, <2>3, CallKeeps
<1>7. CASE Diff(t)
  <2>1. PICK x \in Ids :
          LET old == changes[x].parent
              D   == {d \in Scope[t] : Tree(x)[d] # Tree(old)[d]}
              fs  == {Tree(x)[d] : d \in D} \cup {Tree(old)[d] : d \in D} IN
          /\ old # NoChange
          /\ Call(t, {Blob(c) : c \in fs}, fs, FALSE)
    BY <1>7 DEF Diff
  <2> DEFINE old == changes[x].parent
             D   == {d \in Scope[t] : Tree(x)[d] # Tree(old)[d]}
             fs  == {Tree(x)[d] : d \in D} \cup {Tree(old)[d] : d \in D}
  <2>2. old \in Ids /\ Tree(x) \in Trees /\ Tree(old) \in Trees
    BY <2>1, Kinds DEF IInv
  <2>3. \A c \in fs : Blob(c) \in Hashes
    BY <1>1, <2>2, TreeHashes
  <2>4. Call(t, {Blob(c) : c \in fs}, fs, FALSE)
    BY <2>1
  <2> HIDE DEF fs
  <2>5. {Blob(c) : c \in fs} \in SUBSET Hashes
    BY <2>3
  <2> QED
    BY <2>4, <2>5, CallKeeps
<1> QED
  BY <1>3, <1>4, <1>5, <1>6, <1>7

\* A step that stores a change whose provenance is in order.
LEMMA StoreKeeps ==
  ASSUME IInv, NEW tree \in Trees, NEW parent \in Ids, NEW read \in SUBSET Hashes, NEW shown \in Shown,
         Store(tree, parent, read, shown),
         {Blob(c) : c \in shown.files} \subseteq read,
         shown.files \subseteq Files(parent),
         shown.listing => Root(Tree(parent)) \in read,
         UNCHANGED <<base, conns, seen, promote, move>>,
         reads' \in [Tasks -> SUBSET Hashes],
         \A t \in Tasks : reads[t] \subseteq reads'[t],
         main' \in {main, Len(changes) + 1}
  PROVE  IInv'
<1>1. PICK n : n = Len(changes) + 1
  OBVIOUS
<1>2. /\ Grew /\ Ids' = Ids \cup {n} /\ n \notin Ids /\ n # NoChange
      /\ changes'[n] = [tree |-> tree, parent |-> parent, reads |-> read, seen |-> shown]
      /\ changes' \in Seq(Stored) /\ Len(changes') <= MaxChanges
      /\ \A x \in Ids' : changes'[x].parent \in 0 .. x - 1
  BY <1>1, Storing DEF IInv
<1>3. base' \in [Tasks -> Ids' \cup {NoChange}] /\ main' \in Ids'
  BY <1>1, <1>2 DEF IInv, TypeOK
<1>4. TypeOK'
  BY <1>2, <1>3, ChecksStay DEF IInv, TypeOK
<1>5. \A x \in Ids : Tree(x)' = Tree(x) /\ Files(x)' = Files(x) /\ Provided(x)'
  BY <1>2, ProvenanceStays
<1>6. Provided(n)'
  <2>1. /\ changes'[n].parent = parent /\ changes'[n].reads = read /\ changes'[n].seen = shown
        /\ parent # NoChange
    BY <1>2, Kinds DEF IInv
  <2>2. /\ shown.files \subseteq Files(parent)'
        /\ shown.listing => Root(Tree(parent)') \in read
    BY <1>5
  <2> QED
    BY <2>1, <2>2 DEF Provided, Files, Tree, Root, Blob, NothingShown, NoChange
<1>7. Provenance'
  BY <1>2, <1>5, <1>6 DEF Provenance
<1>8. ReadsKept'
  <2> SUFFICES ASSUME NEW t \in Tasks PROVE Kept(t)'
    BY DEF ReadsKept
  <2>1. PICK b : b = base[t]
    OBVIOUS
  <2>2. /\ {Blob(c) : c \in seen[t].files} \subseteq reads'[t]
        /\ b # NoChange => seen[t].files \subseteq Files(b)
        /\ (b # NoChange /\ seen[t].listing) => Root(Tree(b)) \in reads'[t]
        /\ b = NoChange => (conns[t] = 0 /\ seen[t] = NothingShown)
    BY <2>1 DEF IInv, ReadsKept, Kept
  <2>3. b # NoChange => (Files(b)' = Files(b) /\ Tree(b)' = Tree(b))
    BY <1>5, <2>1, Kinds DEF IInv
  <2>4. /\ {Blob(c) : c \in seen'[t].files} \subseteq reads'[t]
        /\ b # NoChange => seen'[t].files \subseteq Files(b)'
        /\ (b # NoChange /\ seen'[t].listing) => Root(Tree(b)') \in reads'[t]
        /\ b = NoChange => (conns'[t] = 0 /\ seen'[t] = NothingShown)
    BY <2>2, <2>3
  <2>5. base'[t] = b
    BY <2>1
  <2> QED
    BY <2>4, <2>5 DEF Kept, Files, Tree, Root, Blob, NothingShown, NoChange
<1> QED
  BY <1>2, <1>4, <1>7, <1>8, ChecksStay DEF IInv

\* A proposal carries the read set, and what the task was shown with it.
LEMMA ProposeKeeps ==
  ASSUME IInv, NEW t \in Tasks, Propose(t)
  PROVE  IInv'
<1>1. PICK D \in (SUBSET Scope[t]) \ {{}} : \E new \in [D -> Contents] :
        LET read == reads[t] \cup {Blob(new[d]) : d \in D} IN
        /\ conns[t] > 0
        /\ Store([d \in Dirs |-> IF d \in D THEN new[d] ELSE Tree(base[t])[d]], base[t], read, seen[t])
        /\ reads' = [reads EXCEPT ![t] = read]
        /\ UNCHANGED <<main, base, conns, seen, promote, move>>
  BY DEF Propose
<1>2. PICK new \in [D -> Contents] :
        LET read == reads[t] \cup {Blob(new[d]) : d \in D} IN
        /\ conns[t] > 0
        /\ Store([d \in Dirs |-> IF d \in D THEN new[d] ELSE Tree(base[t])[d]], base[t], read, seen[t])
        /\ reads' = [reads EXCEPT ![t] = read]
        /\ UNCHANGED <<main, base, conns, seen, promote, move>>
  BY <1>1
<1> DEFINE read == reads[t] \cup {Blob(new[d]) : d \in D}
           tree == [d \in Dirs |-> IF d \in D THEN new[d] ELSE Tree(base[t])[d]]
<1>3. base[t] \in Ids /\ base[t] # NoChange /\ Tree(base[t]) \in Trees /\ Scope[t] \subseteq Dirs
  BY <1>2, Based
<1>4. tree \in Trees
  BY <1>3 DEF Trees
<1>5. read \in SUBSET Hashes /\ reads[t] \subseteq read
  BY Kinds DEF IInv, Hashes
<1>6. /\ {Blob(c) : c \in seen[t].files} \subseteq read
      /\ seen[t].files \subseteq Files(base[t])
      /\ seen[t].listing => Root(Tree(base[t])) \in read
  BY <1>3, <1>5 DEF IInv, ReadsKept, Kept
<1>7. /\ Store(tree, base[t], read, seen[t])
      /\ reads' = [reads EXCEPT ![t] = read]
      /\ UNCHANGED <<main, base, conns, seen, promote, move>>
  BY <1>2
<1> HIDE DEF tree, read
<1>8. reads' \in [Tasks -> SUBSET Hashes] /\ \A u \in Tasks : reads[u] \subseteq reads'[u]
  BY <1>5, <1>7 DEF IInv, TypeOK
<1>9. seen[t] \in Shown
  BY Kinds DEF IInv
<1> QED
  BY <1>3, <1>4, <1>5, <1>6, <1>7, <1>8, <1>9, StoreKeeps

\* A commit outside a task was shown nothing and lists nothing.
LEMMA CommitKeeps ==
  ASSUME IInv, Commit
  PROVE  IInv'
<1>1. PICK tree \in Trees : /\ Store(tree, main, {}, NothingShown)
                           /\ main' \in {main, Len(changes) + 1}
                           /\ UNCHANGED <<base, conns, reads, seen, promote, move>>
  BY DEF Commit
<1>2. NothingShown \in Shown /\ NothingShown.files = {} /\ ~NothingShown.listing
  BY DEF NothingShown, Shown
<1>3. {Blob(c) : c \in NothingShown.files} \subseteq {} /\ NothingShown.files \subseteq Files(main)
  BY <1>2
<1>4. reads' \in [Tasks -> SUBSET Hashes] /\ main \in Ids /\ \A t \in Tasks : reads[t] \subseteq reads'[t]
  BY <1>1 DEF IInv, TypeOK
<1> HIDE DEF NothingShown
<1> QED
  BY <1>1, <1>2, <1>3, <1>4, StoreKeeps

\* A step of a command that leaves its promotion sound, and what it moved as well.
LEMMA PromotionStep ==
  ASSUME IInv, NEW p \in Promoters, NEW r \in Promotions, Passed(r), SetPromote(p, r), main' \in Ids,
         move' \in [new : Ids, old : Ids, tip : Ids \cup {NoChange}, force : BOOLEAN],
         ~move'.force => move'.tip \in Ids /\ ~Stale(move'.new, move'.tip)
  PROVE  IInv'
<1>1. /\ UNCHANGED <<changes, base, conns, reads, seen>>
      /\ promote' = [promote EXCEPT ![p] = r]
  BY DEF SetPromote
<1>2. Ids' = Ids /\ Promotions' = Promotions
  BY <1>1 DEF Ids, Promotions
<1>3. promote' \in [Promoters -> Promotions] /\ promote'[p] = r
      /\ \A q \in Promoters : q # p => promote'[q] = promote[q]
  BY <1>1 DEF IInv, TypeOK
<1>4. TypeOK'
  BY <1>1, <1>2, <1>3 DEF IInv, TypeOK
<1>5. ReadsKept' /\ Provenance'
  BY <1>1, <1>2 DEF IInv, ReadsKept, Kept, Provenance, Provided, Files, Tree
<1>6. Checked'
  <2>1. ASSUME NEW q \in Promoters PROVE Passed(promote'[q])
    BY <1>3 DEF IInv, Checked
  <2>2. ASSUME NEW q \in Promoters, NEW s, s = promote'[q] PROVE Passed(s)'
    BY <1>1, <1>2, <2>1, <2>2 DEF Passed, Stale, Tree
  <2> QED
    BY <2>2 DEF Checked, Passed, Stale, Tree
<1>7. LastChecked'
  BY <1>1, <1>2 DEF LastChecked, Stale, Tree
<1> QED
  BY <1>4, <1>5, <1>6, <1>7 DEF IInv

\* A promotion goes on only from a check that found nothing stale.
LEMMA PromoteKeeps ==
  ASSUME IInv, NEW p \in Promoters, Promote(p)
  PROVE  IInv'
<1>1. /\ promote[p] \in Promotions /\ Passed(promote[p]) /\ main \in Ids
      /\ move \in [new : Ids, old : Ids, tip : Ids \cup {NoChange}, force : BOOLEAN]
      /\ ~move.force => move.tip \in Ids /\ ~Stale(move.new, move.tip)
  BY Kinds DEF IInv, Checked, LastChecked, TypeOK
<1>2. NoPromotion \in Promotions /\ Passed(NoPromotion)
  BY DEF NoPromotion, Promotions, Passed
<1>3. CASE PromoteStart(p)
  <2>1. PICK x \in Ids, force \in BOOLEAN :
          SetPromote(p, [NoPromotion EXCEPT !.step = IF force THEN "lease" ELSE "check",
                                            !.new = x, !.force = force])
    BY <1>3 DEF PromoteStart
  <2> DEFINE r == [NoPromotion EXCEPT !.step = IF force THEN "lease" ELSE "check",
                                      !.new = x, !.force = force]
  <2>2. r \in Promotions /\ Passed(r)
    BY DEF NoPromotion, Promotions, Passed
  <2> HIDE DEF r
  <2> QED
    BY <1>1, <1>3, <2>1, <2>2, PromotionStep DEF PromoteStart, r
<1>4. CASE PromoteCheck(p)
  <2> DEFINE r == [promote[p] EXCEPT !.step = "lease", !.tip = main]
  <2>1. CASE Stale(promote[p].new, main)
    <3>1. SetPromote(p, NoPromotion) /\ UNCHANGED <<main, move>>
      BY <1>4, <2>1 DEF PromoteCheck
    <3> QED
      BY <1>1, <1>2, <3>1, PromotionStep
  <2>2. CASE ~Stale(promote[p].new, main)
    <3>1. SetPromote(p, r) /\ UNCHANGED <<main, move>>
      BY <1>4, <2>2 DEF PromoteCheck
    <3>2. r \in Promotions
      BY <1>1 DEF Promotions
    <3>3. /\ r.step = "lease" /\ r.tip = main /\ r.new = promote[p].new /\ r.force = promote[p].force
          /\ promote[p].step = "check"
      BY <1>1, <1>4 DEF Promotions, PromoteCheck
    <3> HIDE DEF r
    <3>4. Passed(r)
      BY <1>1, <2>2, <3>3 DEF Passed
    <3> QED
      BY <1>1, <3>1, <3>2, <3>4, PromotionStep
  <2> QED
    BY <2>1, <2>2
<1>5. CASE PromoteLease(p)
  <2> DEFINE r == [promote[p] EXCEPT !.step = "swap", !.lease = main]
  <2>1. SetPromote(p, r) /\ UNCHANGED <<main, move>>
    BY <1>5 DEF PromoteLease
  <2>2. r \in Promotions
    BY <1>1 DEF Promotions
  <2>3. /\ r.step = "swap" /\ r.lease = main /\ r.new = promote[p].new /\ r.force = promote[p].force
        /\ r.tip = promote[p].tip /\ promote[p].step = "lease"
    BY <1>1, <1>5 DEF Promotions, PromoteLease
  <2> HIDE DEF r
  <2>4. Passed(r)
    BY <1>1, <2>3 DEF Passed
  <2> QED
    BY <1>1, <2>1, <2>2, <2>4, PromotionStep
<1>6. CASE PromoteSwap(p)
  <2>1. SetPromote(p, NoPromotion) /\ promote[p].step = "swap"
    BY <1>6 DEF PromoteSwap
  <2>2. CASE UNCHANGED <<main, move>>
    BY <1>1, <1>2, <2>1, <2>2, PromotionStep
  <2>3. CASE /\ main' = promote[p].new
             /\ move' = [new |-> promote[p].new, old |-> main,
                         tip |-> promote[p].tip, force |-> promote[p].force]
    <3>1. /\ promote[p].new \in Ids
          /\ ~promote[p].force => (promote[p].tip \in Ids /\ ~Stale(promote[p].new, promote[p].tip))
      BY <1>1, <2>1 DEF Passed
    <3>2. promote[p].tip \in Ids \cup {NoChange} /\ promote[p].force \in BOOLEAN
      BY <1>1 DEF Promotions
    <3>3. move' \in [new : Ids, old : Ids, tip : Ids \cup {NoChange}, force : BOOLEAN]
      BY <1>1, <2>3, <3>1, <3>2
    <3>4. ~move'.force => move'.tip \in Ids /\ ~Stale(move'.new, move'.tip)
      BY <2>3, <3>1
    <3> QED
      BY <1>2, <2>1, <2>3, <3>1, <3>3, <3>4, PromotionStep
  <2> QED
    BY <1>6, <2>2, <2>3 DEF PromoteSwap
<1>7. CASE PromoteRefuse(p)
  BY <1>1, <1>2, <1>7, PromotionStep DEF PromoteRefuse
<1> QED
  BY <1>3, <1>4, <1>5, <1>6, <1>7 DEF Promote

\* At the start there is one change, without a parent.
LEMMA InitIInv == Init => IInv
<1> SUFFICES ASSUME Init PROVE IInv
  OBVIOUS
<1>1. PICK c \in Contents : changes = <<[tree |-> [d \in Dirs |-> c], parent |-> NoChange,
                                         reads |-> {}, seen |-> NothingShown]>>
  BY DEF Init
<1>2. Len(changes) = 1 /\ Ids = {1}
  BY <1>1 DEF Ids
<1>3. /\ changes[1] = [tree |-> [d \in Dirs |-> c], parent |-> NoChange, reads |-> {}, seen |-> NothingShown]
      /\ changes[1].parent = NoChange /\ changes[1].seen = NothingShown
  BY <1>1
<1>4. NothingShown \in Shown /\ NothingShown.files = {}
  BY DEF NothingShown, Shown
<1>5. changes \in Seq(Stored)
  <2>1. changes[1] \in Stored
    BY <1>3, <1>4, PromotionAssumption DEF Stored, Trees, NoChange
  <2> QED
    BY <1>1, <1>3, <2>1
<1>6. NoPromotion \in Promotions /\ Passed(NoPromotion)
  BY DEF NoPromotion, Promotions, Passed
<1>7. /\ main = 1 /\ base = [t \in Tasks |-> NoChange] /\ conns = [t \in Tasks |-> 0]
      /\ reads = [t \in Tasks |-> {}] /\ seen = [t \in Tasks |-> NothingShown]
      /\ promote = [p \in Promoters |-> NoPromotion]
      /\ move = [new |-> 1, old |-> 1, tip |-> NoChange, force |-> TRUE]
  BY DEF Init
<1>8. TypeOK
  <2>1. Len(changes) <= MaxChanges /\ \A x \in Ids : changes[x].parent \in 0 .. x - 1
    BY <1>2, <1>3, PromotionAssumption DEF NoChange
  <2>2. /\ main \in Ids /\ base \in [Tasks -> Ids \cup {NoChange}]
        /\ conns \in [Tasks -> 0 .. MaxConns] /\ reads \in [Tasks -> SUBSET Hashes]
    BY <1>2, <1>7, PromotionAssumption
  <2>3. seen \in [Tasks -> Shown] /\ promote \in [Promoters -> Promotions]
    BY <1>4, <1>6, <1>7
  <2>4. move \in [new : Ids, old : Ids, tip : Ids \cup {NoChange}, force : BOOLEAN]
    BY <1>2, <1>7
  <2> QED
    BY <1>5, <2>1, <2>2, <2>3, <2>4 DEF TypeOK
<1>9. ReadsKept
  <2>1. \A t \in Tasks : base[t] = NoChange /\ conns[t] = 0 /\ seen[t] = NothingShown
    BY <1>7
  <2>2. \A t \in Tasks : {Blob(c1) : c1 \in seen[t].files} \subseteq reads[t]
    BY <1>4, <2>1
  <2> QED
    BY <2>1, <2>2 DEF ReadsKept, Kept
<1>10. Provenance
  <2>1. {Blob(c1) : c1 \in changes[1].seen.files} \subseteq changes[1].reads
    BY <1>3, <1>4
  <2> QED
    BY <1>2, <1>3, <2>1 DEF Provenance, Provided
<1>11. Checked /\ LastChecked
  BY <1>6, <1>7 DEF Checked, LastChecked
<1> QED
  BY <1>8, <1>9, <1>10, <1>11 DEF IInv

\* One step per action.
LEMMA NextIInv == IInv /\ [Next]_vars => IInv'
<1> SUFFICES ASSUME IInv, [Next]_vars PROVE IInv'
  OBVIOUS
<1>1. ASSUME NEW t \in Tasks, Start(t) \/ Gate(t) PROVE IInv'
  BY <1>1, StartKeeps, ConnectKeeps, ReaderKeeps, ProposeKeeps DEF Gate
<1>2. ASSUME NEW p \in Promoters, Promote(p) PROVE IInv'
  BY <1>2, PromoteKeeps
<1>3. CASE Commit
  BY <1>3, CommitKeeps
<1>4. CASE UNCHANGED vars
  <2>1. UNCHANGED <<changes, main, base, conns, reads, seen, promote, move>>
    BY <1>4 DEF vars
  <2>2. ReadsKept' /\ Ids' = Ids
    BY <2>1 DEF IInv, ReadsKept, Kept, Files, Tree, Ids
  <2> QED
    BY <2>1, <2>2, ReaderStep DEF IInv, TypeOK
<1> QED
  BY <1>1, <1>2, <1>3, <1>4 DEF Next

\* Tasks, operators and people can do nothing, in any order, that breaks the invariant.
THEOREM Invariance == Spec => []IInv
BY InitIInv, NextIInv, PTL DEF Spec

-----------------------------------------------------------------------------
(* What it means for a promotion.                                           *)

\* What the change promoted last has read of its parent's tree is in the tree it replaced.
LEMMA ReplacesWhatItRead ==
  ASSUME IInv, Undisturbed, changes[move.new].parent # NoChange,
         NEW h \in changes[move.new].reads, h \in Reach(Tree(changes[move.new].parent))
  PROVE  h \in Reach(Tree(move.old))
<1>1. move.new \in Ids /\ move.old \in Ids /\ move.tip = move.old /\ ~Stale(move.new, move.old)
  BY DEF IInv, TypeOK, LastChecked, Undisturbed
<1> QED
  BY <1>1, StillThere DEF IInv

\* Provenance holds everything that a task was shown before it proposed, over all its connections
\* (daemon.go, readlog.go), and a change made by a task that listed a directory or read a file is
\* promoted, when main stands still meanwhile, only over the very tree that the task read.
THEOREM ProvenanceHolds == Spec => []ProvenanceInv
<1>1. IInv => ProvenanceInv
  <2> SUFFICES ASSUME IInv PROVE ProvenanceInv
    OBVIOUS
  <2>1. ReadsInProvenance
    BY DEF IInv, Provenance, Provided, ReadsInProvenance
  <2>2. ListingPinsTree
    <3> SUFFICES ASSUME Undisturbed, changes[move.new].seen.listing
                 PROVE  Tree(move.old) = Tree(changes[move.new].parent)
      BY DEF ListingPinsTree
    <3> DEFINE y == changes[move.new].parent
    <3>1. move.new \in Ids
      BY DEF IInv, TypeOK
    <3>2. y # NoChange /\ Root(Tree(y)) \in changes[move.new].reads
      BY <3>1 DEF IInv, Provenance, Provided, NothingShown
    <3>3. Root(Tree(y)) \in Reach(Tree(move.old))
      BY <3>2, ReplacesWhatItRead DEF Reach
    <3> QED
      BY <3>3, HashesApart DEF Reach
  <2> QED
    BY <2>1, <2>2 DEF ProvenanceInv, IInv
<1> QED
  BY <1>1, Invariance, PTL

\* The file contents that a task was shown are in the tree that its change replaces, however many
\* commits and promotions went by since it started: CheckReadStaleness over the recorded reads
\* (dependency.go) is as strong as a check of every read itself, as long as main stands still
\* between the check and the lease.
THEOREM ShownHolds == Spec => []ShownStillThere
<1>1. IInv => ShownStillThere
  <2> SUFFICES ASSUME IInv, Undisturbed, NEW c \in changes[move.new].seen.files
               PROVE  c \in Files(move.old)
    BY DEF ShownStillThere
  <2> DEFINE y == changes[move.new].parent
  <2>1. move.new \in Ids
    BY DEF IInv, TypeOK
  <2>2. y # NoChange /\ c \in Files(y) /\ Blob(c) \in changes[move.new].reads
    BY <2>1 DEF IInv, Provenance, Provided, NothingShown
  <2>3. Blob(c) \in Reach(Tree(move.old))
    BY <2>2, ReplacesWhatItRead DEF Reach, Files
  <2> QED
    BY <2>3, HashesApart DEF Reach, Files
<1> QED
  BY <1>1, Invariance, PTL

-----------------------------------------------------------------------------
(* Graph.Affected reaches all and only what has to be reached.              *)

\* One round: what is there, and whoever imports it.
Round(deps, S) == S \cup {p \in Paths : deps[p] \cap S # {}}

\* r holds what is there after each round.
Rounds(deps, changed, r) ==
    r = [n \in Nat |-> IF n = 0 THEN changed ELSE Round(deps, r[n - 1])]

\* A set of numbers has a least member.
LEMMA LeastNumber ==
  ASSUME NEW T, T \subseteq Nat, T # {}
  PROVE  \E x \in T : \A y \in T : x <= y
<1> DEFINE R == {s \in Nat \X Nat : s[1] < s[2]}
<1>1. IsWellFoundedOn(R, Nat)
  BY NatLessThanWellFounded, Zenon DEF OpToRel
<1>2. PICK x \in T : \A y \in T : ~ (<<y, x>> \in R)
  <2> HIDE DEF R
  <2> QED
    BY <1>1, WFMin
<1>3. ASSUME NEW y \in T PROVE x <= y
  <2>1. ~ (<<y, x>> \in R) /\ x \in Nat /\ y \in Nat
    BY <1>2
  <2>2. ~ (y < x)
    BY <2>1
  <2> QED
    BY <2>1, <2>2
<1> QED
  BY <1>3

\* There are rounds.
LEMMA RoundsExist ==
  ASSUME NEW deps, NEW changed, changed \subseteq Paths
  PROVE  \E r : Rounds(deps, changed, r)
<1> DEFINE Upto(n) == {g \in [0 .. n -> SUBSET Paths] :
                         g[0] = changed /\ \A i \in 1 .. n : g[i] = Round(deps, g[i - 1])}
<1>1. \A n \in Nat : Upto(n) # {}
  <2> DEFINE T == {n \in Nat : Upto(n) = {}}
  <2> SUFFICES ASSUME T # {} PROVE FALSE
    OBVIOUS
  <2>1. PICK m \in T : \A y \in T : m <= y
    <3>1. T \subseteq Nat
      OBVIOUS
    <3> HIDE DEF T
    <3> QED
      BY <3>1, LeastNumber
  <2>2. m # 0
    <3>1. [i \in 0 .. 0 |-> changed] \in Upto(0)
      OBVIOUS
    <3> QED
      BY <3>1
  <2>3. m \in Nat /\ m - 1 \in Nat /\ m - 1 \notin T
    BY <2>1, <2>2
  <2>4. PICK g : g \in Upto(m - 1)
    BY <2>3
  <2> DEFINE h == [i \in 0 .. m |-> IF i = m THEN Round(deps, g[m - 1]) ELSE g[i]]
  <2>5. g \in [0 .. (m - 1) -> SUBSET Paths] /\ g[0] = changed
        /\ \A i \in 1 .. (m - 1) : g[i] = Round(deps, g[i - 1])
    BY <2>4
  <2>6. Round(deps, g[m - 1]) \subseteq Paths
    BY <2>3, <2>5 DEF Round
  <2>7. h \in [0 .. m -> SUBSET Paths] /\ h[0] = changed
    BY <2>2, <2>3, <2>5, <2>6
  <2>8. ASSUME NEW i \in 1 .. m PROVE h[i] = Round(deps, h[i - 1])
    <3>1. h[i - 1] = g[i - 1]
      BY <2>3
    <3>2. CASE i = m
      BY <3>1, <3>2, <2>3
    <3>3. CASE i # m
      BY <3>1, <3>3, <2>3, <2>5
    <3> QED
      BY <3>2, <3>3
  <2>9. h \in Upto(m)
    <3> HIDE DEF h
    <3> QED
      BY <2>7, <2>8
  <2> QED
    BY <2>9, <2>1
<1>2. ASSUME NEW n \in Nat, NEW m \in Nat, NEW g \in Upto(n), NEW h \in Upto(m), NEW k \in Nat, k <= n, k <= m
      PROVE  g[k] = h[k]
  <2> DEFINE T == {i \in Nat : i <= n /\ i <= m /\ g[i] # h[i]}
  <2> SUFFICES ASSUME T # {} PROVE FALSE
    BY <1>2
  <2>1. PICK i \in T : \A y \in T : i <= y
    <3>1. T \subseteq Nat
      OBVIOUS
    <3> HIDE DEF T
    <3> QED
      BY <3>1, LeastNumber
  <2>2. i \in Nat /\ i # 0 /\ i <= n /\ i <= m
    OBVIOUS
  <2>3. i - 1 \in Nat /\ i - 1 \notin T /\ i - 1 <= n /\ i - 1 <= m
    BY <2>1, <2>2
  <2>4. g[i - 1] = h[i - 1]
    BY <2>3
  <2>5. g[i] = Round(deps, g[i - 1]) /\ h[i] = Round(deps, h[i - 1])
    BY <2>2
  <2> QED
    BY <2>4, <2>5
<1> DEFINE some(n) == CHOOSE g : g \in Upto(n)
           r == [n \in Nat |-> some(n)[n]]
<1>3. \A n \in Nat : some(n) \in Upto(n)
  <2> HIDE DEF Upto
  <2> QED
    BY <1>1
<1>4. ASSUME NEW n \in Nat PROVE r[n] = IF n = 0 THEN changed ELSE Round(deps, r[n - 1])
  <2>1. some(n) \in Upto(n) /\ r[n] = some(n)[n]
    BY <1>3
  <2>2. CASE n = 0
    <3> HIDE DEF some
    <3> QED
      BY <2>1, <2>2
  <2>3. CASE n # 0
    <3>1. n - 1 \in Nat /\ n - 1 <= n
      BY <2>3
    <3>2. some(n - 1) \in Upto(n - 1) /\ r[n - 1] = some(n - 1)[n - 1]
      BY <3>1, <1>3
    <3>3. some(n)[n] = Round(deps, some(n)[n - 1])
      <4> HIDE DEF some
      <4> QED
        BY <2>1, <2>3
    <3>4. some(n)[n - 1] = some(n - 1)[n - 1]
      <4> HIDE DEF some, Upto, r
      <4> QED
        BY <1>2, <2>1, <3>1, <3>2
    <3> HIDE DEF some, Upto, r
    <3> QED
      BY <2>1, <2>3, <3>2, <3>3, <3>4
  <2> QED
    BY <2>2, <2>3
<1>5. r = [n \in Nat |-> IF n = 0 THEN changed ELSE Round(deps, r[n - 1])]
  <2>1. r = [n \in Nat |-> r[n]]
    <3> HIDE DEF some
    <3> QED
      OBVIOUS
  <2> HIDE DEF r
  <2> QED
    BY <1>4, <2>1
<1> QED
  <2> HIDE DEF r
  <2> QED
    BY <1>5 DEF Rounds

\* What is there after a round is among the paths and was there, or was imported, before.
LEMMA RoundsGrow ==
  ASSUME NEW deps, NEW changed, changed \subseteq Paths, NEW r, Rounds(deps, changed, r)
  PROVE  /\ r[0] = changed
         /\ \A n \in Nat : /\ r[n + 1] = Round(deps, r[n]) /\ r[n] \subseteq r[n + 1]
                           /\ changed \subseteq r[n] /\ r[n] \subseteq Paths
<1>1. r[0] = changed /\ \A i \in Nat : r[i + 1] = Round(deps, r[i])
  BY DEF Rounds
<1>2. \A i \in Nat : r[i] \subseteq r[i + 1]
  BY <1>1 DEF Round
<1> DEFINE T == {i \in Nat : ~ (changed \subseteq r[i] /\ r[i] \subseteq Paths)}
<1>3. T = {}
  <2> SUFFICES ASSUME T # {} PROVE FALSE
    OBVIOUS
  <2>1. PICK m \in T : \A y \in T : m <= y
    <3>1. T \subseteq Nat
      OBVIOUS
    <3> HIDE DEF T
    <3> QED
      BY <3>1, LeastNumber
  <2>2. m \in Nat /\ m # 0
    BY <1>1
  <2>3. m - 1 \in Nat /\ m - 1 \notin T /\ (m - 1) + 1 = m
    BY <2>1, <2>2
  <2>4. changed \subseteq r[m - 1] /\ r[m - 1] \subseteq Paths
    BY <2>3
  <2>5. r[m] = Round(deps, r[m - 1]) /\ r[m - 1] \subseteq r[m]
    BY <1>1, <1>2, <2>3
  <2>6. changed \subseteq r[m] /\ r[m] \subseteq Paths
    BY <2>4, <2>5 DEF Round
  <2> QED
    BY <2>6
<1> QED
  BY <1>1, <1>2, <1>3

\* Whatever has the first paths and is closed under the rounds has what is there after any.
LEMMA RoundsLeast ==
  ASSUME NEW deps, NEW changed, NEW r, Rounds(deps, changed, r),
         NEW S, changed \subseteq S, Round(deps, S) \subseteq S
  PROVE  \A n \in Nat : r[n] \subseteq S
<1>1. r[0] = changed /\ \A i \in Nat : r[i + 1] = Round(deps, r[i])
  BY DEF Rounds
<1> DEFINE T == {i \in Nat : ~ (r[i] \subseteq S)}
<1>2. T = {}
  <2> SUFFICES ASSUME T # {} PROVE FALSE
    OBVIOUS
  <2>1. PICK m \in T : \A y \in T : m <= y
    <3>1. T \subseteq Nat
      OBVIOUS
    <3> HIDE DEF T
    <3> QED
      BY <3>1, LeastNumber
  <2>2. m \in Nat /\ m # 0
    BY <1>1
  <2>3. m - 1 \in Nat /\ m - 1 \notin T /\ (m - 1) + 1 = m
    BY <2>1, <2>2
  <2>4. r[m - 1] \subseteq S
    BY <2>3
  <2>5. r[m] = Round(deps, r[m - 1])
    BY <1>1, <2>3
  <2>6. r[m] \subseteq S
    BY <2>4, <2>5 DEF Round
  <2> QED
    BY <2>6
<1> QED
  BY <1>2

\* After as many rounds as there are paths nothing is added any more.
LEMMA RoundsEnd ==
  ASSUME NEW deps, NEW changed, changed \subseteq Paths, NEW r, Rounds(deps, changed, r), IsFiniteSet(Paths)
  PROVE  Round(deps, r[Cardinality(Paths)]) = r[Cardinality(Paths)]
<1> DEFINE N == Cardinality(Paths)
<1>1. N \in Nat
  BY FS_CardinalityType
<1>2. \A n \in Nat : r[n + 1] = Round(deps, r[n]) /\ r[n] \subseteq r[n + 1] /\ r[n] \subseteq Paths
  <2>1. \A n \in Nat : /\ r[n + 1] = Round(deps, r[n]) /\ r[n] \subseteq r[n + 1]
                      /\ changed \subseteq r[n] /\ r[n] \subseteq Paths
    BY RoundsGrow
  <2> QED
    BY <2>1
<1>3. \A n \in Nat : IsFiniteSet(r[n]) /\ Cardinality(r[n]) \in Nat /\ Cardinality(r[n]) <= N
  BY <1>2, FS_Subset, FS_CardinalityType
<1> HIDE DEF N
<1>4. CASE \E k \in 0 .. N : r[k + 1] = r[k]
  <2>1. PICK k \in 0 .. N : r[k + 1] = r[k]
    BY <1>4
  <2> DEFINE T == {i \in Nat : k <= i /\ r[i] # r[k]}
  <2>2. T = {}
    <3> SUFFICES ASSUME T # {} PROVE FALSE
      OBVIOUS
    <3>1. PICK m \in T : \A y \in T : m <= y
      <4>1. T \subseteq Nat
        OBVIOUS
      <4> HIDE DEF T
      <4> QED
        BY <4>1, LeastNumber
    <3>2. m \in Nat /\ k <= m /\ m # k /\ r[m] # r[k]
      OBVIOUS
    <3>3. m - 1 \in Nat /\ k <= m - 1 /\ m - 1 \notin T
      BY <3>1, <3>2
    <3>4. r[m - 1] = r[k]
      BY <3>3
    <3>5. r[m] = Round(deps, r[m - 1]) /\ r[k + 1] = Round(deps, r[k])
      BY <1>2, <3>2, <3>3
    <3> QED
      BY <2>1, <3>2, <3>4, <3>5
  <2>3. r[N] = r[k] /\ r[N + 1] = r[k]
    BY <1>1, <2>2
  <2> QED
    BY <1>1, <1>2, <2>3 DEF N
<1>5. CASE \A k \in 0 .. N : r[k + 1] # r[k]
  <2> DEFINE T == {i \in Nat : i <= N + 1 /\ Cardinality(r[i]) < i}
  <2>1. T = {}
    <3> SUFFICES ASSUME T # {} PROVE FALSE
      OBVIOUS
    <3>1. PICK m \in T : \A y \in T : m <= y
      <4>1. T \subseteq Nat
        OBVIOUS
      <4> HIDE DEF T
      <4> QED
        BY <4>1, LeastNumber
    <3>2. m \in Nat /\ m <= N + 1 /\ Cardinality(r[m]) < m /\ Cardinality(r[m]) \in Nat
      BY <1>3
    <3>3. m - 1 \in 0 .. N /\ m - 1 \notin T /\ (m - 1) + 1 = m
      BY <1>1, <3>1, <3>2
    <3>4. Cardinality(r[m - 1]) >= m - 1 /\ Cardinality(r[m - 1]) \in Nat
      BY <1>1, <1>3, <3>3
    <3>5. r[m - 1] \subseteq r[m] /\ r[m - 1] # r[m]
      BY <1>2, <1>5, <3>3
    <3>6. Cardinality(r[m - 1]) <= Cardinality(r[m]) /\ Cardinality(r[m - 1]) # Cardinality(r[m])
      BY <1>3, <3>2, <3>5, FS_Subset
    <3> QED
      BY <3>2, <3>4, <3>6
  <2>2. Cardinality(r[N + 1]) >= N + 1
    BY <1>1, <1>3, <2>1
  <2> QED
    BY <1>1, <1>3, <2>2
<1> QED
  BY <1>4, <1>5

\* What the graph answers is the least set that has the first paths and whoever imports a member.
LEMMA AffectedLeast ==
  ASSUME IsFiniteSet(Paths), NEW changed, changed \subseteq Paths, NEW q, NEW deps, query[q].deps = deps
  PROVE  AffectedBy(q, changed) = Least(Upward(deps), changed)
<1> DEFINE Body(r) == [n \in Nat |-> IF n = 0 THEN changed
                         ELSE LET near == r[n - 1]
                              IN  near \cup {p \in Paths : query[q].deps[p] \cap near # {}}]
           r == CHOOSE f : f = Body(f)
<1>1. AffectedBy(q, changed) = r[Cardinality(Paths)]
  BY DEF AffectedBy
<1>2. \A f : Body(f) = [n \in Nat |-> IF n = 0 THEN changed ELSE Round(deps, f[n - 1])]
  BY DEF Round
<1>3. Rounds(deps, changed, r)
  <2>1. \E f : f = Body(f)
    <3>1. PICK f : Rounds(deps, changed, f)
      BY RoundsExist
    <3>2. f = Body(f)
      <4> HIDE DEF Body
      <4> QED
        BY <1>2, <3>1 DEF Rounds
    <3> QED
      BY <3>2
  <2>2. r = Body(r)
    <3> HIDE DEF Body
    <3> QED
      BY <2>1
  <2> HIDE DEF r, Body
  <2> QED
    BY <1>2, <2>2 DEF Rounds
<1> HIDE DEF r
<1> DEFINE R == r[Cardinality(Paths)]
<1>4. /\ changed \subseteq R /\ R \subseteq Paths /\ Round(deps, R) = R
  <2>1. Cardinality(Paths) \in Nat
    BY FS_CardinalityType
  <2>2. Round(deps, R) = R
    BY <1>3, RoundsEnd, Zenon
  <2> QED
    BY <1>3, <2>1, <2>2, RoundsGrow
<1> HIDE DEF R
<1>5. ASSUME NEW S \in SUBSET Paths
      PROVE  S \in Upward(deps) <=> Round(deps, S) \subseteq S
  BY DEF Round, Upward
<1>6. R \in Upward(deps)
  BY <1>4, <1>5
<1>7. ASSUME NEW S \in Upward(deps), changed \subseteq S PROVE R \subseteq S
  <2>1. S \in SUBSET Paths
    BY DEF Upward
  <2>2. Round(deps, S) \subseteq S
    BY <1>5, <2>1
  <2>3. \A n \in Nat : r[n] \subseteq S
    BY <1>3, <1>7, <2>2, RoundsLeast
  <2> QED
    BY <2>3, FS_CardinalityType DEF R
<1>8. Least(Upward(deps), changed) = R
  BY <1>4, <1>6, <1>7 DEF Least
<1> QED
  BY <1>1, <1>8 DEF R

-----------------------------------------------------------------------------
(* Queries, and what the cache holds for them.                              *)

\* What may be under a key: its text, its module, the build its maker took itself for.
Keys == (Blobs \cup {NoBlob}) \X (Modules \cup {NoModule}) \X (Binaries \cup {unknownExtractor})
Entries == [specs : SUBSET Specifiers, path : Paths, whole : BOOLEAN, stray : BOOLEAN]

Records == [pc : {"idle", "files", "put", "write"}, tree : Nat, binary : Binaries \cup {0},
            id : Binaries \cup {unknownExtractor}, wasm : Registry \cup {<<>>}, todo : SUBSET Paths, file : SUBSET Paths,
            deps : [Paths -> SUBSET Paths], torn : BOOLEAN, twin : BOOLEAN, stray : BOOLEAN]

QueryKinds ==
    /\ trees \in Seq(FlatTree) /\ Len(trees) > 0
    /\ manifest \in Registry /\ binary \in Binaries
    /\ DOMAIN cache \subseteq Keys /\ cache \in [DOMAIN cache -> Entries]
    /\ query \in [Queries -> Records]
    /\ edits \in 0 .. MaxEdits /\ sets \in 0 .. MaxSets
    /\ queries \in 0 .. MaxQueries /\ faults \in 0 .. MaxFaults

\* What the analyzer named by a key finds in the file of a path, or build n where it names none.
Finds(n, k, p) ==
    IF k[2] # NoModule THEN Output[k[2]][p][k[1]]
    ELSE IF ExtOf[p] \in BuiltinExts THEN Builtin[n][k[1]] ELSE {}

\* An entry is what its key's analyzer found in the file it was made from, or empty for want of the
\* write; the build is some build, and the one of the key unless the entry is a stray.
SoundEntry(k, e) ==
    IF e.whole THEN \E n \in Binaries : e.specs = Finds(n, k, e.path) /\ (~ e.stray => n = k[3])
    ELSE e.specs = {}

CacheSound == \A k \in DOMAIN cache : SoundEntry(k, cache[k])

\* What a query finds in a file that it reads anew, and what it would if it were of build n.
FoundBy(r, n, p) ==
    IF p \in There(r.tree)
      THEN Targets(p, specifiersFor(n, r.wasm, p, FilesOf(r.tree)[p]), There(r.tree))
      ELSE {}
Found(r, p) == FoundBy(r, r.binary, p)

\* A query that runs has a tree, a build and the analyzers it started with, and works on one of the
\* files it has still to do ...
Begun(r) ==
    /\ r.tree \in 1 .. Len(trees) /\ r.binary \in Binaries /\ r.wasm \in Registry
    /\ r.todo \subseteq There(r.tree)
    /\ r.pc \in {"put", "write"} => \E p \in r.todo : r.file = {p}
    /\ r.pc = "files" => r.file = {}

\* ... and has for the others what reading them anew would find: less where an entry was torn, what
\* another build finds where one was a stray, something else where one was a twin's.
DepsSound(r) ==
    ~ r.twin => \A p \in Paths :
       /\ \A d \in r.deps[p] : \E n \in Binaries : d \in FoundBy(r, n, p)
       /\ ~ r.stray => r.deps[p] \subseteq Found(r, p)
       /\ (~ r.stray /\ ~ r.torn /\ p \notin r.todo) => r.deps[p] = Found(r, p)

Sound(r) == r = NoQuery \/ (r.pc # "idle" /\ Begun(r) /\ DepsSound(r))

QueriesSound == \A q \in Queries : Sound(query[q])

\* The inductive invariant.
AInv == QueryKinds /\ CacheSound /\ QueriesSound

\* What the constants are.
LEMMA AConstants ==
  /\ IsFiniteSet(Paths) /\ FirstTree \in FlatTree /\ NoBlob \notin Blobs /\ NoModule \notin Modules
  /\ Binaries \subseteq Nat \ {0} /\ Binaries # {}
  /\ FirstManifest \in Registry
  /\ \A p \in Paths : ExtOf[p] \in Exts
  /\ \A n \in Binaries, b \in Blobs : Builtin[n][b] \subseteq Specifiers
  /\ \A m \in Modules, p \in Paths, b \in Blobs : Output[m][p][b] \subseteq Specifiers
  /\ MaxEdits \in Nat /\ MaxSets \in Nat /\ MaxQueries \in Nat /\ MaxFaults \in Nat
  /\ Scopes \subseteq SUBSET Paths
<1>1. /\ ExtOf \in [Paths -> Exts] /\ Builtin \in [Binaries -> [Blobs -> SUBSET Specifiers]]
      /\ Output \in [Modules -> [Paths -> [Blobs -> SUBSET Specifiers]]] /\ Binaries \subseteq Nat \ {0} /\ Binaries # {}
  BY AffectedAssumption
<1>2. \A m \in Modules, p \in Paths, b \in Blobs : Output[m][p][b] \subseteq Specifiers
  BY <1>1
<1>3. \A n \in Binaries, b \in Blobs : Builtin[n][b] \subseteq Specifiers
  BY <1>1
<1>4. Binaries \subseteq Nat \ {0} /\ Binaries # {} /\ FirstManifest \in Registry
  BY <1>1, AffectedAssumption DEF Registry
<1>5. \A p \in Paths : ExtOf[p] \in Exts
  BY <1>1
<1>6. IsFiniteSet(Paths)
  BY AffectedAssumption
<1>7. /\ FirstTree \in FlatTree /\ NoBlob \notin Blobs /\ NoModule \notin Modules
      /\ MaxEdits \in Nat /\ MaxSets \in Nat /\ MaxQueries \in Nat /\ MaxFaults \in Nat
      /\ Scopes \subseteq SUBSET Paths
  BY AffectedAssumption
<1> QED
  BY <1>2, <1>3, <1>4, <1>5, <1>6, <1>7

\* What is in a tree, and what follows from a file of it.
LEMMA Findings ==
  ASSUME QueryKinds, NEW t \in 0 .. Len(trees)
  PROVE  /\ FilesOf(t) \in FlatTree /\ There(t) \subseteq Paths
         /\ \A p \in There(t) : FilesOf(t)[p] \in Blobs
         /\ \A p, specs : Targets(p, specs, There(t)) \subseteq Paths \ {p}
         /\ \A p \in There(t), n \in Binaries, w \in Registry :
               /\ specifiersFor(n, w, p, FilesOf(t)[p]) \subseteq Specifiers
               /\ specifiersFor(n, w, p, FilesOf(t)[p]) = Finds(n, <<FilesOf(t)[p], w[ExtOf[p]], n>>, p)
<1>1. FilesOf(t) \in FlatTree
  BY DEF FilesOf, FlatTree, QueryKinds
<1>2. There(t) \subseteq Paths /\ \A p \in There(t) : FilesOf(t)[p] \in Blobs
  BY <1>1 DEF There, FlatTree
<1>3. ASSUME NEW p, NEW specs PROVE Targets(p, specs, There(t)) \subseteq Paths \ {p}
  <2>1. \A s : resolveSpecifier(p, s, There(t)) \subseteq Paths \ {p}
    BY <1>2 DEF resolveSpecifier, resolvePackage, resolvePath
  <2> QED
    BY <2>1 DEF Targets
<1>4. ASSUME NEW p \in There(t), NEW n \in Binaries, NEW w \in Registry
      PROVE  /\ specifiersFor(n, w, p, FilesOf(t)[p]) \subseteq Specifiers
             /\ specifiersFor(n, w, p, FilesOf(t)[p]) = Finds(n, <<FilesOf(t)[p], w[ExtOf[p]], n>>, p)
  <2>1. p \in Paths /\ ExtOf[p] \in Exts /\ FilesOf(t)[p] \in Blobs /\ w[ExtOf[p]] \in Modules \cup {NoModule}
    BY <1>2, AConstants DEF Registry
  <2> QED
    BY <2>1, AConstants DEF specifiersFor, extractBuiltin, runWasmAnalyzer, BuiltinCovers, Finds
<1> QED
  BY <1>1, <1>2, <1>3, <1>4

\* A step that leaves the trees alone changes nothing in what a query should find.
LEMMA SameSound ==
  ASSUME trees' = trees, NEW r
  PROVE  Sound(r)' <=> Sound(r)
<1>1. \A t : FilesOf(t)' = FilesOf(t) /\ There(t)' = There(t)
  BY DEF FilesOf, There
<1>2. \A p, n : FoundBy(r, n, p)' = FoundBy(r, n, p)
  BY <1>1 DEF FoundBy
<1>3. DepsSound(r)' <=> DepsSound(r)
  BY <1>2 DEF DepsSound, Found
<1>4. Begun(r)' <=> Begun(r)
  BY <1>1 DEF Begun
<1> QED
  BY <1>3, <1>4 DEF Sound

\* A step of one query.
LEMMA OneQuery ==
  ASSUME AInv, NEW q \in Queries, NEW r, trees' = trees,
         query' = [query EXCEPT ![q] = r], r \in Records, Sound(r)
  PROVE  query' \in [Queries -> Records] /\ QueriesSound'
<1>1. query' \in [Queries -> Records] /\ \A x \in Queries : query'[x] = IF x = q THEN r ELSE query[x]
  BY DEF AInv, QueryKinds
<1>2. ASSUME NEW x \in Queries PROVE Sound(query[x])'
  <2>1. Sound(query'[x])
    BY <1>1 DEF AInv, QueriesSound
  <2>2. \A y : Sound(y)' <=> Sound(y)
    BY SameSound
  <2> QED
    BY <2>1, <2>2
<1> QED
  BY <1>1, <1>2 DEF QueriesSound

LEMMA AffectedBegins == AffectedInit => AInv
<1> SUFFICES ASSUME AffectedInit PROVE AInv
  OBVIOUS
<1>1. binary \in Binaries
  <2>1. \E n \in Binaries : \A m \in Binaries : n <= m
    BY AConstants, LeastNumber
  <2> QED
    BY <2>1 DEF AffectedInit
<1>2. trees \in Seq(FlatTree) /\ Len(trees) > 0
  BY AConstants DEF AffectedInit
<1>3. manifest \in Registry
  BY AConstants DEF AffectedInit
<1>4. DOMAIN cache = {} /\ cache \in [DOMAIN cache -> Entries]
  BY DEF AffectedInit
<1>5. NoQuery \in Records
  BY DEF NoQuery, NoDeps, Records, unknownExtractor
<1>6. query \in [Queries -> Records] /\ \A q \in Queries : query[q] = NoQuery
  BY <1>5 DEF AffectedInit
<1>7. QueryKinds
  BY <1>1, <1>2, <1>3, <1>4, <1>6, AConstants DEF QueryKinds, AffectedInit
<1> QED
  BY <1>4, <1>6, <1>7 DEF AInv, CacheSound, QueriesSound, Sound

\* A query begins.
LEMMA BuildStep ==
  ASSUME AInv, NEW q \in Queries, NEW t \in DOMAIN trees, NEW n \in Binaries, buildGraph(q, t, n)
  PROVE  AInv'
<1>1. t \in 1 .. Len(trees) /\ t \in 0 .. Len(trees) /\ t \in Nat
  BY DEF AInv, QueryKinds
<1>2. There(t) \subseteq Paths
  BY <1>1, Findings DEF AInv
<1>3. PICK id \in Binaries \cup {unknownExtractor} :
        /\ extractorID(n, id)
        /\ query' = [query EXCEPT ![q] =
             [NoQuery EXCEPT !.pc = "files", !.tree = t, !.binary = n, !.id = id, !.wasm = Analyzers,
                             !.todo = There(t)]]
  BY DEF buildGraph
<1> DEFINE r == [NoQuery EXCEPT !.pc = "files", !.tree = t, !.binary = n, !.id = id, !.wasm = Analyzers,
                                  !.todo = There(t)]
<1>4. /\ r.pc = "files" /\ r.tree = t /\ r.binary = n /\ r.wasm = manifest /\ r.todo = There(t)
      /\ r.file = {} /\ r.deps = NoDeps /\ r.torn = FALSE /\ r.twin = FALSE
  BY DEF NoQuery, Analyzers
<1>5. r \in Records
  BY <1>1, <1>2 DEF Records, NoQuery, NoDeps, Analyzers, AInv, QueryKinds
<1>6. query' = [query EXCEPT ![q] = r]
  BY <1>3
<1> HIDE DEF r
<1>7. Begun(r)
  BY <1>1, <1>4 DEF Begun, AInv, QueryKinds
<1>8. DepsSound(r)
  BY <1>2, <1>4 DEF DepsSound, Found, FoundBy, NoDeps
<1>9. trees' = trees /\ manifest' = manifest /\ binary' = binary /\ cache' = cache /\ edits' = edits /\ sets' = sets
      /\ queries < MaxQueries /\ queries' = queries + 1
  BY DEF buildGraph
<1>10. faults' \in 0 .. MaxFaults
  BY <1>3, AConstants DEF extractorID, AInv, QueryKinds
<1>11. query' \in [Queries -> Records] /\ QueriesSound'
  BY <1>4, <1>5, <1>6, <1>7, <1>8, <1>9, OneQuery DEF Sound
<1>12. queries' \in 0 .. MaxQueries
  BY <1>9, AConstants DEF AInv, QueryKinds
<1>13. QueryKinds'
  BY <1>9, <1>10, <1>11, <1>12 DEF AInv, QueryKinds
<1>14. CacheSound'
  BY <1>9 DEF AInv, CacheSound, SoundEntry, Finds
<1> QED
  BY <1>11, <1>13, <1>14 DEF AInv

\* What holds of a query at work.
LEMMA AtWork ==
  ASSUME AInv, NEW q \in Queries, query[q].pc # "idle"
  PROVE  /\ query[q] \in Records /\ Begun(query[q]) /\ DepsSound(query[q])
         /\ query[q].tree \in 0 .. Len(trees)
         /\ \A p \in query[q].todo :
               /\ p \in Paths /\ p \in There(query[q].tree)
               /\ CacheKey(q, p) \in Keys
               /\ \A n \in Binaries :
                     /\ Finds(n, CacheKey(q, p), p) \subseteq Specifiers
                     /\ specifiersFor(n, query[q].wasm, p, FilesOf(query[q].tree)[p])
                          = Finds(n, CacheKey(q, p), p)
                     /\ FoundBy(query[q], n, p)
                          = Targets(p, Finds(n, CacheKey(q, p), p), There(query[q].tree))
<1>1. query[q] \in Records /\ Begun(query[q]) /\ DepsSound(query[q])
  BY DEF AInv, QueryKinds, QueriesSound, Sound, NoQuery
<1>2. query[q].tree \in 0 .. Len(trees)
  BY <1>1 DEF Begun, AInv, QueryKinds
<1>3. ASSUME NEW p \in query[q].todo
      PROVE  p \in Paths /\ p \in There(query[q].tree) /\ CacheKey(q, p) \in Keys
  <2>1. p \in There(query[q].tree) /\ p \in Paths /\ FilesOf(query[q].tree)[p] \in Blobs
    BY <1>1, <1>2, Findings DEF Begun, AInv
  <2>2. query[q].wasm[ExtOf[p]] \in Modules \cup {NoModule}
    BY <1>1, <2>1, AConstants DEF Begun, Registry
  <2>3. query[q].id \in Binaries \cup {unknownExtractor}
    BY <1>1 DEF Records
  <2> QED
    BY <2>1, <2>2, <2>3 DEF CacheKey, Keys
<1>4. ASSUME NEW p \in query[q].todo, NEW n \in Binaries
      PROVE  /\ Finds(n, CacheKey(q, p), p) \subseteq Specifiers
             /\ specifiersFor(n, query[q].wasm, p, FilesOf(query[q].tree)[p]) = Finds(n, CacheKey(q, p), p)
             /\ FoundBy(query[q], n, p)
                  = Targets(p, Finds(n, CacheKey(q, p), p), There(query[q].tree))
  <2>1. query[q].wasm \in Registry
    BY <1>1 DEF Begun
  <2>2. /\ specifiersFor(n, query[q].wasm, p, FilesOf(query[q].tree)[p]) \subseteq Specifiers
        /\ specifiersFor(n, query[q].wasm, p, FilesOf(query[q].tree)[p])
             = Finds(n, <<FilesOf(query[q].tree)[p], query[q].wasm[ExtOf[p]], n>>, p)
    BY <1>2, <1>3, <2>1, Findings DEF AInv
  <2>3. Finds(n, <<FilesOf(query[q].tree)[p], query[q].wasm[ExtOf[p]], n>>, p) = Finds(n, CacheKey(q, p), p)
    BY DEF Finds, CacheKey
  <2> QED
    BY <1>3, <2>2, <2>3 DEF FoundBy
<1> QED
  BY <1>1, <1>2, <1>3, <1>4

\* What an entry says holds of another file that it can speak for.
LEMMA SpeaksFor ==
  ASSUME AInv, NEW q \in Queries, NEW p \in Paths, CacheKey(q, p) \in DOMAIN cache,
         Alike(q, cache[CacheKey(q, p)].path, p)
  PROVE  LET e == cache[CacheKey(q, p)]
         IN  IF e.whole
               THEN \E n \in Binaries : /\ e.specs = Finds(n, CacheKey(q, p), p)
                                        /\ ~ e.stray => n = query[q].id
               ELSE e.specs = {}
<1> DEFINE k == CacheKey(q, p)
           e == cache[k]
<1>1. SoundEntry(k, e)
  BY DEF AInv, CacheSound
<1>2. k[2] = query[q].wasm[ExtOf[p]] /\ k[3] = query[q].id
  BY DEF CacheKey
<1>3. Alike(q, e.path, p)
  OBVIOUS
<1> HIDE DEF k, e
<1>4. \A n : Finds(n, k, e.path) = Finds(n, k, p)
  BY <1>2, <1>3 DEF Alike, Finds
<1>5. IF e.whole
        THEN \E n \in Binaries : e.specs = Finds(n, k, p) /\ (~ e.stray => n = query[q].id)
        ELSE e.specs = {}
  BY <1>1, <1>2, <1>4 DEF SoundEntry
<1> QED
  BY <1>5 DEF k, e

\* A hit takes the entry for what its file says.
LEMMA HitStep ==
  ASSUME AInv, NEW q \in Queries, NEW p \in Paths, CacheHit(q, p)
  PROVE  AInv'
<1> DEFINE e == cache[CacheKey(q, p)]
           o == query[q]
           D == Targets(p, e.specs, There(o.tree))
           alike == Alike(q, e.path, p)
           mistaken == Mistaken(q)
           r == [o EXCEPT !.todo = @ \ {p}, !.deps[p] = D, !.torn = @ \/ ~ e.whole,
                          !.twin = @ \/ ~ alike, !.stray = @ \/ e.stray \/ mistaken]
<1>1. /\ o.pc = "files" /\ p \in o.todo /\ CacheKey(q, p) \in DOMAIN cache
      /\ trees' = trees /\ manifest' = manifest /\ binary' = binary /\ cache' = cache
      /\ edits' = edits /\ sets' = sets /\ queries' = queries /\ faults' = faults
      /\ query' = [query EXCEPT ![q] = r]
  <2>1. o.todo # {} => (CHOOSE x \in o.todo : TRUE) \in o.todo
    BY Zenon
  <2>2. query' = [query EXCEPT ![q] = r]
    <3>1. query' = [query EXCEPT ![q].todo = @ \ {p}, ![q].deps[p] = D,
                                 ![q].torn = @ \/ ~ e.whole, ![q].twin = @ \/ ~ alike,
                                 ![q].stray = @ \/ e.stray \/ mistaken]
      BY DEF CacheHit
    <3>2. query \in [Queries -> Records]
      BY DEF AInv, QueryKinds
    <3> HIDE DEF e, D, alike, mistaken
    <3> QED
      BY <3>1, <3>2 DEF Records
  <2> QED
    BY <2>1, <2>2 DEF CacheHit, At, NextFile, affectedVars, bounds
<1>2. o \in Records /\ Begun(o) /\ DepsSound(o) /\ o.tree \in 0 .. Len(trees)
  BY <1>1, AtWork
<1>3. p \in There(o.tree) /\ \A n \in Binaries :
        FoundBy(o, n, p) = Targets(p, Finds(n, CacheKey(q, p), p), There(o.tree))
  BY <1>1, AtWork
<1>4. /\ e \in Entries
      /\ alike => IF e.whole
                    THEN \E n \in Binaries : /\ e.specs = Finds(n, CacheKey(q, p), p)
                                             /\ ~ e.stray => n = o.id
                    ELSE e.specs = {}
  <2>1. e \in Entries
    BY <1>1 DEF AInv, QueryKinds
  <2> QED
    BY <1>1, <2>1, SpeaksFor
<1>5. D \subseteq Paths
  BY <1>2, Findings DEF AInv
<1>6. mistaken <=> o.id # o.binary
  BY DEF Mistaken
<1> HIDE DEF o, e, alike, mistaken
\* What the entry says of the file is what some build finds, and this one unless it is a stray.
<1>7. ASSUME alike
      PROVE  IF e.whole
               THEN \E n \in Binaries : /\ D = FoundBy(o, n, p)
                                        /\ ~ e.stray /\ ~ mistaken => n = o.binary
               ELSE D = {}
  <2>1. CASE e.whole
    <3>1. PICK n \in Binaries : e.specs = Finds(n, CacheKey(q, p), p) /\ (~ e.stray => n = o.id)
      BY <1>4, <1>7, <2>1
    <3>2. D = FoundBy(o, n, p)
      BY <1>3, <3>1
    <3>3. ~ e.stray /\ ~ mistaken => n = o.binary
      BY <1>6, <3>1
    <3> HIDE DEF D
    <3> QED
      BY <2>1, <3>2, <3>3
  <2>2. CASE ~ e.whole
    BY <1>4, <1>7, <2>2 DEF Targets
  <2> QED
    BY <2>1, <2>2
<1> HIDE DEF D
<1>8. /\ r.pc = "files" /\ r.tree = o.tree /\ r.binary = o.binary /\ r.wasm = o.wasm
      /\ r.todo = o.todo \ {p} /\ r.file = o.file /\ r.torn = (o.torn \/ ~ e.whole)
      /\ r.twin = (o.twin \/ ~ alike) /\ r.stray = (o.stray \/ e.stray \/ mistaken)
      /\ r.deps = [o.deps EXCEPT ![p] = D]
      /\ r \in Records
  BY <1>1, <1>2, <1>4, <1>5 DEF Records, Entries
<1> HIDE DEF r
<1>9. \A n, x : FoundBy(r, n, x) = FoundBy(o, n, x) /\ Found(r, x) = Found(o, x)
  BY <1>8 DEF Found, FoundBy
<1>10. Begun(r)
  BY <1>1, <1>2, <1>8 DEF Begun
<1>11. DepsSound(r)
  <2> SUFFICES ASSUME ~ r.twin, NEW x \in Paths
               PROVE  /\ \A d \in r.deps[x] : \E n \in Binaries : d \in FoundBy(r, n, x)
                      /\ ~ r.stray => r.deps[x] \subseteq Found(r, x)
                      /\ (~ r.stray /\ ~ r.torn /\ x \notin r.todo) => r.deps[x] = Found(r, x)
    BY DEF DepsSound
  <2>1. ~ o.twin /\ alike /\ o.deps \in [Paths -> SUBSET Paths]
        /\ (~ r.torn => ~ o.torn /\ e.whole) /\ (~ r.stray => ~ o.stray /\ ~ e.stray /\ ~ mistaken)
    BY <1>2, <1>8 DEF Records
  <2>2. CASE x = p
    <3>1. r.deps[x] = D
      BY <1>8, <2>1, <2>2
    <3>2. CASE e.whole
      <4>1. PICK n \in Binaries : /\ D = FoundBy(o, n, p)
                                  /\ ~ e.stray /\ ~ mistaken => n = o.binary
        BY <1>7, <2>1, <3>2
      <4>2. ~ r.stray => D = Found(o, p)
        BY <2>1, <4>1 DEF Found
      <4> QED
        BY <1>9, <2>2, <3>1, <4>1, <4>2
    <3>3. CASE ~ e.whole
      <4>1. D = {}
        BY <1>7, <2>1, <3>3
      <4> QED
        BY <2>1, <3>1, <3>3, <4>1
    <3> QED
      BY <3>2, <3>3
  <2>3. CASE x # p
    <3>1. r.deps[x] = o.deps[x] /\ (x \notin r.todo => x \notin o.todo)
      BY <1>8, <2>1, <2>3
    <3> QED
      BY <1>2, <1>9, <2>1, <3>1 DEF DepsSound
  <2> QED
    BY <2>2, <2>3
<1>12. query' \in [Queries -> Records] /\ QueriesSound'
  BY <1>1, <1>8, <1>10, <1>11, OneQuery DEF Sound
<1>13. QueryKinds'
  BY <1>1, <1>12 DEF AInv, QueryKinds
<1> QED
  BY <1>1, <1>12, <1>13 DEF AInv, CacheSound

\* A miss only remembers which file it is about.
LEMMA MissStep ==
  ASSUME AInv, NEW q \in Queries, NEW p \in Paths, CacheMiss(q, p)
  PROVE  AInv'
<1> DEFINE o == query[q]
           r == [o EXCEPT !.pc = "put", !.file = {p}]
<1>1. /\ o.pc = "files" /\ p \in o.todo
      /\ trees' = trees /\ manifest' = manifest /\ binary' = binary /\ cache' = cache
      /\ edits' = edits /\ sets' = sets /\ queries' = queries /\ faults' = faults
      /\ query' = [query EXCEPT ![q] = r]
  <2>1. o.todo # {} => (CHOOSE x \in o.todo : TRUE) \in o.todo
    BY Zenon
  <2> QED
    BY <2>1 DEF CacheMiss, At, NextFile, affectedVars, bounds
<1>2. o \in Records /\ Begun(o) /\ DepsSound(o)
  BY <1>1, AtWork
<1> HIDE DEF o
<1>3. /\ r.pc = "put" /\ r.tree = o.tree /\ r.binary = o.binary /\ r.wasm = o.wasm /\ r.todo = o.todo
      /\ r.file = {p} /\ r.torn = o.torn /\ r.twin = o.twin /\ r.stray = o.stray /\ r.deps = o.deps /\ r \in Records
  BY <1>2 DEF Records
<1> HIDE DEF r
<1>4. Begun(r)
  BY <1>1, <1>2, <1>3 DEF Begun
<1>5. DepsSound(r)
  <2>1. \A n, x : FoundBy(r, n, x) = FoundBy(o, n, x) /\ Found(r, x) = Found(o, x)
    BY <1>3 DEF Found, FoundBy
  <2> QED
    BY <1>2, <1>3, <2>1 DEF DepsSound
<1>6. query' \in [Queries -> Records] /\ QueriesSound'
  BY <1>1, <1>3, <1>4, <1>5, OneQuery DEF Sound
<1>7. QueryKinds'
  BY <1>1, <1>6 DEF AInv, QueryKinds
<1> QED
  BY <1>1, <1>6, <1>7 DEF AInv, CacheSound

\* An entry put under a key, empty or with what its maker finds, keeps the cache sound.
LEMMA PutKeeps ==
  ASSUME AInv, NEW q \in Queries, NEW p \in Paths, NEW specs \in SUBSET Specifiers,
         NEW whole \in BOOLEAN, CacheKey(q, p) \in Keys, query[q].binary \in Binaries,
         specs = IF whole THEN Finds(query[q].binary, CacheKey(q, p), p) ELSE {},
         CachePut(q, specs, p, whole)
  PROVE  DOMAIN cache' \subseteq Keys /\ cache' \in [DOMAIN cache' -> Entries] /\ CacheSound'
<1> DEFINE k == CacheKey(q, p)
           e == [specs |-> specs, path |-> p, whole |-> whole, stray |-> Mistaken(q)]
<1>1. cache' = [x \in DOMAIN cache \cup {k} |-> IF x = k THEN e ELSE cache[x]]
  BY DEF CachePut
<1>2. /\ e \in Entries /\ e.specs = specs /\ e.path = p /\ e.whole = whole
      /\ ~ e.stray => k[3] = query[q].binary
  BY DEF Entries, Mistaken, CacheKey
<1>3. SoundEntry(k, e)
  <2> HIDE DEF e
  <2> QED
    BY <1>2 DEF SoundEntry
<1> HIDE DEF e, k
<1>4. DOMAIN cache' = DOMAIN cache \cup {k} /\ \A x \in DOMAIN cache' : cache'[x] = IF x = k THEN e ELSE cache[x]
  BY <1>1
<1>5. \A x \in DOMAIN cache' : cache'[x] \in Entries
  BY <1>2, <1>4 DEF AInv, QueryKinds
<1>6. \A x, y : SoundEntry(x, y)' <=> SoundEntry(x, y)
  BY DEF SoundEntry, Finds
<1>7. \A x \in DOMAIN cache' : SoundEntry(x, cache'[x])
  BY <1>3, <1>4 DEF AInv, CacheSound
<1>8. CacheSound'
  BY <1>7 DEF CacheSound, SoundEntry, Finds
<1>9. cache' = [x \in DOMAIN cache' |-> cache'[x]]
  BY <1>1
<1>10. k \in Keys
  BY DEF k
<1> QED
  BY <1>4, <1>5, <1>8, <1>9, <1>10 DEF AInv, QueryKinds

LEMMA TruncateStep ==
  ASSUME AInv, NEW q \in Queries, NEW p \in Paths, Truncate(q, p)
  PROVE  AInv'
<1> DEFINE o == query[q]
           r == [o EXCEPT !.pc = "write"]
<1>1. /\ o.pc = "put" /\ p \in o.file /\ query' = [query EXCEPT ![q] = r]
      /\ CachePut(q, {}, p, FALSE)
      /\ trees' = trees /\ manifest' = manifest /\ binary' = binary
      /\ edits' = edits /\ sets' = sets /\ queries' = queries /\ faults' = faults
  BY DEF Truncate, At, Goto, bounds
<1>2. o \in Records /\ Begun(o) /\ DepsSound(o)
  BY <1>1, AtWork
<1>3. p \in o.todo /\ CacheKey(q, p) \in Keys /\ o.binary \in Binaries
  <2>1. p \in o.todo
    BY <1>1, <1>2 DEF Begun
  <2> QED
    BY <1>1, <1>2, <2>1, AtWork DEF Begun
<1>4. DOMAIN cache' \subseteq Keys /\ cache' \in [DOMAIN cache' -> Entries] /\ CacheSound'
  BY <1>1, <1>3, PutKeeps
<1> HIDE DEF o
<1>5. /\ r.pc = "write" /\ r.tree = o.tree /\ r.binary = o.binary /\ r.wasm = o.wasm /\ r.todo = o.todo
      /\ r.file = o.file /\ r.torn = o.torn /\ r.twin = o.twin /\ r.stray = o.stray /\ r.deps = o.deps /\ r \in Records
  BY <1>2 DEF Records
<1> HIDE DEF r
<1>6. Begun(r)
  BY <1>1, <1>2, <1>5 DEF Begun
<1>7. DepsSound(r)
  <2>1. \A n, x : FoundBy(r, n, x) = FoundBy(o, n, x) /\ Found(r, x) = Found(o, x)
    BY <1>5 DEF Found, FoundBy
  <2> QED
    BY <1>2, <1>5, <2>1 DEF DepsSound
<1>8. query' \in [Queries -> Records] /\ QueriesSound'
  BY <1>1, <1>5, <1>6, <1>7, OneQuery DEF Sound
<1>9. QueryKinds'
  BY <1>1, <1>4, <1>8 DEF AInv, QueryKinds
<1> QED
  BY <1>4, <1>8, <1>9 DEF AInv

\* What is written is what the query takes for its file.
LEMMA WriteStep ==
  ASSUME AInv, NEW q \in Queries, NEW p \in Paths, Write(q, p)
  PROVE  AInv'
<1> DEFINE o == query[q]
           specs == specifiersFor(o.binary, o.wasm, p, FilesOf(o.tree)[p])
           D == Targets(p, specs, There(o.tree))
           r == [o EXCEPT !.pc = "files", !.file = {}, !.todo = @ \ {p}, !.deps[p] = D]
<1>1. /\ o.pc = "write" /\ p \in o.file
      /\ CachePut(q, specs, p, TRUE)
      /\ trees' = trees /\ manifest' = manifest /\ binary' = binary
      /\ edits' = edits /\ sets' = sets /\ queries' = queries /\ faults' = faults
  BY DEF Write, At, bounds
<1>2. o \in Records /\ Begun(o) /\ DepsSound(o) /\ o.tree \in 0 .. Len(trees)
  BY <1>1, AtWork
<1>3. p \in o.todo /\ o.file = {p}
  BY <1>1, <1>2 DEF Begun
<1>4. /\ CacheKey(q, p) \in Keys /\ specs = Finds(o.binary, CacheKey(q, p), p) /\ specs \subseteq Specifiers
      /\ Found(o, p) = D /\ o.binary \in Binaries
  <2>1. o.binary \in Binaries
    BY <1>2 DEF Begun
  <2> QED
    BY <1>1, <1>3, <2>1, AtWork DEF Found
<1>5. DOMAIN cache' \subseteq Keys /\ cache' \in [DOMAIN cache' -> Entries] /\ CacheSound'
  <2> HIDE DEF specs
  <2> QED
    BY <1>1, <1>4, PutKeeps
<1>6. D \subseteq Paths
  BY <1>2, Findings DEF AInv
<1>7. query' = [query EXCEPT ![q] = r]
  <2>1. query' = [query EXCEPT ![q].pc = "files", ![q].file = {}, ![q].todo = @ \ {p}, ![q].deps[p] = D]
    BY DEF Write
  <2>2. query \in [Queries -> Records]
    BY DEF AInv, QueryKinds
  <2> HIDE DEF D
  <2> QED
    BY <2>1, <2>2 DEF Records
<1> HIDE DEF o, D, specs
<1>8. /\ r.pc = "files" /\ r.tree = o.tree /\ r.binary = o.binary /\ r.wasm = o.wasm
      /\ r.todo = o.todo \ {p} /\ r.file = {} /\ r.torn = o.torn /\ r.twin = o.twin /\ r.stray = o.stray
      /\ r.deps = [o.deps EXCEPT ![p] = D] /\ r \in Records
  BY <1>2, <1>6 DEF Records
<1> HIDE DEF r
<1>9. \A n, x : FoundBy(r, n, x) = FoundBy(o, n, x) /\ Found(r, x) = Found(o, x)
  BY <1>8 DEF Found, FoundBy
<1>10. Begun(r)
  BY <1>1, <1>2, <1>8 DEF Begun
<1>11. DepsSound(r)
  <2>1. o.deps \in [Paths -> SUBSET Paths]
    BY <1>2 DEF Records
  <2>2. r.deps[p] = Found(r, p)
    BY <1>4, <1>8, <1>9, <2>1
  <2>3. \A d \in r.deps[p] : \E n \in Binaries : d \in FoundBy(r, n, p)
    BY <1>4, <1>8, <2>2 DEF Found
  <2>4. \A x \in Paths \ {p} : r.deps[x] = o.deps[x]
    BY <1>8, <2>1
  <2> QED
    BY <1>2, <1>8, <1>9, <2>2, <2>3, <2>4 DEF DepsSound
<1>12. query' \in [Queries -> Records] /\ QueriesSound'
  BY <1>1, <1>7, <1>8, <1>10, <1>11, OneQuery DEF Sound
<1>13. QueryKinds'
  BY <1>1, <1>5, <1>12 DEF AInv, QueryKinds
<1> QED
  BY <1>5, <1>12, <1>13 DEF AInv

\* A query that answers or is killed is over.
LEMMA OverStep ==
  ASSUME AInv, NEW q \in Queries, Answer(q) \/ Kill(q)
  PROVE  AInv'
<1>1. /\ query' = [query EXCEPT ![q] = NoQuery] /\ cache' = cache
      /\ trees' = trees /\ manifest' = manifest /\ binary' = binary
      /\ edits' = edits /\ sets' = sets /\ queries' = queries
      /\ faults' = faults \/ (faults < MaxFaults /\ faults' = faults + 1)
  BY DEF Answer, Kill, bounds
<1>2. NoQuery \in Records /\ Sound(NoQuery)
  BY DEF NoQuery, NoDeps, Records, Sound, unknownExtractor
<1>3. query' \in [Queries -> Records] /\ QueriesSound'
  BY <1>1, <1>2, OneQuery
<1>4. faults' \in 0 .. MaxFaults
  BY <1>1, AConstants DEF AInv, QueryKinds
<1>5. QueryKinds'
  BY <1>1, <1>3, <1>4 DEF AInv, QueryKinds
<1> QED
  BY <1>1, <1>3, <1>5 DEF AInv, CacheSound

\* A commit adds a tree and leaves those that queries work on.
LEMMA CommitStep ==
  ASSUME AInv, NEW c \in Commits, CommitFile(c[1], c[2])
  PROVE  AInv'
<1>1. /\ trees' = Append(trees, [trees[Len(trees)] EXCEPT ![c[1]] = c[2]])
      /\ edits < MaxEdits /\ edits' = edits + 1
      /\ manifest' = manifest /\ binary' = binary /\ cache' = cache /\ query' = query
      /\ sets' = sets /\ queries' = queries /\ faults' = faults
  BY DEF CommitFile
<1>2. trees \in Seq(FlatTree) /\ Len(trees) > 0 /\ trees[Len(trees)] \in FlatTree
  BY DEF AInv, QueryKinds
<1>3. c[1] \in Paths /\ c[2] \in Blobs \cup {NoBlob}
  BY AffectedAssumption
<1>4. [trees[Len(trees)] EXCEPT ![c[1]] = c[2]] \in FlatTree
  BY <1>2, <1>3 DEF FlatTree
<1>5. /\ trees' \in Seq(FlatTree) /\ Len(trees') = Len(trees) + 1
      /\ \A t \in 1 .. Len(trees) : trees'[t] = trees[t]
  BY <1>1, <1>2, <1>4
<1>6. QueryKinds'
  BY <1>1, <1>2, <1>5, AConstants DEF AInv, QueryKinds
<1>7. ASSUME NEW q \in Queries PROVE Sound(query[q])'
  <2> DEFINE r == query[q]
  <2>1. CASE r = NoQuery
    BY <1>1, <2>1 DEF Sound, NoQuery, NoDeps
  <2>2. CASE r.pc # "idle"
    <3>1. Begun(r) /\ DepsSound(r)
      BY <2>2, AtWork
    <3>2. r.tree \in 1 .. Len(trees)
      BY <3>1 DEF Begun
    <3>3. FilesOf(r.tree)' = FilesOf(r.tree) /\ There(r.tree)' = There(r.tree)
      BY <1>1, <1>5, <3>2 DEF FilesOf, There
    <3>4. \A n, x : FoundBy(r, n, x)' = FoundBy(r, n, x)
      BY <1>1, <3>3 DEF FoundBy
    <3>5. DepsSound(r)'
      BY <1>1, <3>1, <3>4 DEF DepsSound, Found
    <3>6. Begun(r)'
      BY <1>1, <1>2, <1>5, <3>1, <3>3 DEF Begun
    <3> QED
      BY <1>1, <2>2, <3>5, <3>6 DEF Sound
  <2> QED
    BY <2>1, <2>2 DEF AInv, QueriesSound, Sound
<1>8. QueriesSound'
  BY <1>7 DEF QueriesSound
<1> QED
  BY <1>1, <1>6, <1>8 DEF AInv, CacheSound

\* A registration, a new build, or nothing at all.
LEMMA AsideStep ==
  ASSUME AInv,
         (\E r \in Registrations : cmdHook(r[1], r[2])) \/ Upgrade \/ UNCHANGED affectedVars
  PROVE  AInv'
<1>1. trees' = trees /\ cache' = cache /\ query' = query /\ edits' = edits /\ queries' = queries /\ faults' = faults
  BY DEF cmdHook, Upgrade, affectedVars, bounds
<1>2. manifest' \in Registry /\ sets' \in 0 .. MaxSets
  <2>1. CASE \E r \in Registrations : cmdHook(r[1], r[2])
    <3>1. PICK r \in Registrations : cmdHook(r[1], r[2])
      BY <2>1
    <3>2. r[1] \in Exts /\ r[2] \in Modules
      BY AffectedAssumption
    <3> QED
      BY <3>1, <3>2, AConstants DEF cmdHook, SetHook, Registry, AInv, QueryKinds
  <2>2. CASE Upgrade \/ UNCHANGED affectedVars
    BY <2>2 DEF Upgrade, affectedVars, bounds, AInv, QueryKinds
  <2> QED
    BY <2>1, <2>2
<1>3. binary' \in Binaries
  BY DEF cmdHook, Upgrade, affectedVars, bounds, AInv, QueryKinds
<1>4. QueryKinds'
  BY <1>1, <1>2, <1>3 DEF AInv, QueryKinds
<1>5. QueriesSound'
  <2>1. \A y : Sound(y)' <=> Sound(y)
    BY <1>1, SameSound
  <2> QED
    BY <1>1, <2>1 DEF AInv, QueriesSound
<1> QED
  BY <1>1, <1>4, <1>5 DEF AInv, CacheSound

LEMMA AffectedInvariant ==
  AffectedSpec => []AInv
<1>1. AffectedInit => AInv
  BY AffectedBegins
<1>2. AInv /\ [AffectedNext]_affectedVars => AInv'
  <2> SUFFICES ASSUME AInv, [AffectedNext]_affectedVars PROVE AInv'
    OBVIOUS
  <2>1. CASE \E q \in Queries, t \in DOMAIN trees, n \in Binaries : buildGraph(q, t, n)
    BY <2>1, BuildStep
  <2>2. CASE \E q \in Queries, p \in Paths : CacheHit(q, p) \/ CacheMiss(q, p)
    BY <2>2, HitStep, MissStep
  <2>3. CASE \E q \in Queries, p \in Paths : Truncate(q, p) \/ Write(q, p)
    BY <2>3, TruncateStep, WriteStep
  <2>4. CASE \E q \in Queries : Answer(q) \/ Kill(q)
    BY <2>4, OverStep
  <2>5. CASE \E c \in Commits : CommitFile(c[1], c[2])
    BY <2>5, CommitStep
  <2>6. CASE (\E r \in Registrations : cmdHook(r[1], r[2])) \/ Upgrade \/ UNCHANGED affectedVars
    BY <2>6, AsideStep
  <2> QED
    BY <2>1, <2>2, <2>3, <2>4, <2>5, <2>6 DEF AffectedNext
<1> QED
  BY <1>1, <1>2, PTL DEF AffectedSpec

\* A query that has built its graph has what reading every file anew would find, or less where an
\* entry was torn, or what some build finds where one was a stray, unless an entry was a twin's.
LEMMA GraphFound ==
  ASSUME AInv, NEW q \in Queries, Built(q)
  PROVE  /\ query[q] \in Records
         /\ ~ query[q].twin =>
              \A p \in Paths : \A d \in query[q].deps[p] : \E n \in Binaries : d \in ImportsBy(q, n)[p]
         /\ ~ query[q].twin /\ ~ query[q].stray =>
              /\ \A p \in Paths : query[q].deps[p] \subseteq Imports(q)[p]
              /\ ~ query[q].torn => query[q].deps = Imports(q)
<1>1. query[q].pc # "idle" /\ query[q].todo = {}
  BY DEF Built, At
<1>2. query[q] \in Records /\ DepsSound(query[q])
  BY <1>1, AtWork
<1>3. \A n : ImportsBy(q, n) = [p \in Paths |-> FoundBy(query[q], n, p)]
  BY DEF ImportsBy, FoundBy
<1>4. Imports(q) = [p \in Paths |-> Found(query[q], p)]
  BY <1>3 DEF Imports, Found
<1>5. ASSUME ~ query[q].twin
      PROVE  \A p \in Paths : \A d \in query[q].deps[p] : \E n \in Binaries : d \in ImportsBy(q, n)[p]
  BY <1>2, <1>3, <1>5 DEF DepsSound
<1>6. ASSUME ~ query[q].twin, ~ query[q].stray
      PROVE  \A p \in Paths : query[q].deps[p] \subseteq Found(query[q], p)
  BY <1>2, <1>6 DEF DepsSound
<1>7. ASSUME ~ query[q].twin, ~ query[q].stray, ~ query[q].torn
      PROVE  query[q].deps = [p \in Paths |-> Found(query[q], p)]
  <2>1. \A p \in Paths : query[q].deps[p] = Found(query[q], p)
    BY <1>1, <1>2, <1>7 DEF DepsSound
  <2>2. query[q].deps = [p \in Paths |-> query[q].deps[p]]
    BY <1>2 DEF Records
  <2> QED
    BY <2>1, <2>2
<1> QED
  BY <1>2, <1>4, <1>5, <1>6, <1>7

\* QueryKinds says all that TypeOK says.
LEMMA AffectedTypes == AInv => AffectedTypeOK
<1> SUFFICES ASSUME AInv PROVE AffectedTypeOK
  OBVIOUS
<1>1. \A t \in DOMAIN trees : trees[t] \in FlatTree
  BY DEF AInv, QueryKinds
<1>2. \A k \in DOMAIN cache : cache[k].specs \subseteq Specifiers /\ cache[k].path \in Paths
  BY DEF AInv, QueryKinds, Entries
<1>3. ASSUME NEW q \in Queries
      PROVE  /\ query[q].tree \in 0 .. Len(trees)
             /\ query[q].todo \cup query[q].file \subseteq There(query[q].tree)
             /\ query[q].deps \in [Paths -> SUBSET Paths]
  <2>1. CASE query[q] = NoQuery
    BY <2>1 DEF NoQuery, NoDeps, AInv, QueryKinds
  <2>2. CASE query[q].pc # "idle"
    <3>1. query[q] \in Records /\ Begun(query[q]) /\ query[q].tree \in 0 .. Len(trees)
      BY <2>2, AtWork
    <3>2. query[q].file \subseteq query[q].todo
      BY <2>2, <3>1 DEF Begun, Records
    <3> QED
      BY <3>1, <3>2 DEF Begun, Records
  <2> QED
    BY <2>1, <2>2 DEF AInv, QueriesSound, Sound
<1> QED
  BY <1>1, <1>2, <1>3 DEF AffectedTypeOK, AInv, QueryKinds

\* The answer of `affected` and of the gate's tool is the one that reading every file anew gives,
\* for every base and every scope (core/affected.go, affected.go), unless the query took an entry that
\* was torn, was made from a file it cannot speak for, or is in the name of another build.
THEOREM AffectedAsAnew ==
  AffectedSpec => []AffectedExact
<1>1. AInv => AffectedExact
  <2> SUFFICES ASSUME AInv, NEW q \in Queries, Built(q),
                      ~ query[q].torn, ~ query[q].twin, ~ query[q].stray
               PROVE  /\ \A b \in 0 .. Len(trees) :
                           AffectedResult(q, b).affected
                             = Least(Upward(Imports(q)), Changed(b, query[q].tree))
                      /\ \A scope \in Scopes :
                           LET r == toolAffected(q, scope)
                           IN  /\ r.pulled \cup r.changed.named = cmdAffected(q).affected \cap scope
                               /\ r.affected.withheld + Cardinality(r.affected.named)
                                    = Cardinality(cmdAffected(q).affected)
    BY AffectedTypes DEF AffectedExact
  <2>1. query[q].deps = Imports(q)
    BY GraphFound
  <2>2. \A b : Changed(b, query[q].tree) \subseteq Paths
    BY DEF Changed
  <2>3. ASSUME NEW b
        PROVE  AffectedResult(q, b).affected
                 = Least(Upward(Imports(q)), Changed(b, query[q].tree))
    BY <2>1, <2>2, AConstants, AffectedLeast DEF AffectedResult
  <2> DEFINE whole == cmdAffected(q)
  <2>4. whole.changed \subseteq whole.affected /\ whole.affected \subseteq Paths
    BY <2>3 DEF cmdAffected, AffectedResult, Least, Changed
  <2>5. ASSUME NEW scope \in Scopes
        PROVE  LET r == toolAffected(q, scope)
               IN  /\ r.pulled \cup r.changed.named = whole.affected \cap scope
                   /\ r.affected.withheld + Cardinality(r.affected.named) = Cardinality(whole.affected)
    <3> DEFINE r == toolAffected(q, scope)
    <3>1. /\ r.affected.named = whole.affected \cap scope
          /\ r.affected.withheld = Cardinality(whole.affected \ scope)
          /\ r.changed.named = whole.changed \cap scope
          /\ r.pulled = (whole.affected \cap scope) \cap (whole.affected \ whole.changed)
      BY DEF toolAffected, partitionByScope, Pulled
    <3> HIDE DEF r, whole
    <3>2. IsFiniteSet(whole.affected)
      BY <2>4, AConstants, FS_Subset
    <3>3. /\ Cardinality(whole.affected \ scope)
               = Cardinality(whole.affected) - Cardinality(whole.affected \cap scope)
          /\ Cardinality(whole.affected) \in Nat /\ Cardinality(whole.affected \cap scope) \in Nat
      BY <3>2, FS_Difference, FS_Intersection, FS_CardinalityType
    <3>4. r.pulled \cup r.changed.named = whole.affected \cap scope
      BY <2>4, <3>1
    <3>5. r.affected.withheld + Cardinality(r.affected.named) = Cardinality(whole.affected)
      BY <3>1, <3>3
    <3> QED
      BY <3>4, <3>5 DEF r
  <2> QED
    BY <2>3, <2>5
<1> QED
  BY <1>1, AffectedInvariant, PTL

\* What `graph edge`, `graph deps`, `graph rdeps` and the gate's tool say of an edge is a fact, or is
\* not said (graphquery/query.go Edge); for entries of another file's or in the name of another build,
\* as far as AnswersHonest says.
THEOREM EdgesHonest ==
  AffectedSpec => []AnswersHonest
<1>1. AInv => AnswersHonest
  <2> SUFFICES ASSUME AInv, NEW q \in Queries, Built(q)
               PROVE  /\ \A from, to \in Paths :
                           LET a == Edge(q, from, to)
                               own == ~ query[q].twin /\ ~ query[q].stray
                           IN  /\ a = "present" /\ ~ query[q].twin => \E n \in Binaries : to \in ImportsBy(q, n)[from]
                               /\ a = "present" /\ own => to \in Imports(q)[from]
                               /\ to \in Imports(q)[from] /\ own => query[q].torn \/ PresentOr(a, TRUE)
                               /\ a = "absent" => {from, to} \subseteq coverageOf(q).analyzed
                               /\ Complete(coverageOf(q)) /\ {from, to} \subseteq There(query[q].tree)
                                    => a # "unknown"
                               /\ PresentOr(a, FALSE) <=> from \in cmdGraph(q, "rdeps", to)
                               /\ PresentOr(a, FALSE) <=> to \in cmdGraph(q, "deps", from)
                      /\ \A scope \in Scopes, p \in Paths : p \in scope =>
                           LET r == toolGraph(q, "dependents", p, scope)
                           IN  /\ r.named = {d \in scope : toolGraphEdge(q, d, p, scope) = "present"}
                               /\ r.withheld = Cardinality(cmdGraph(q, "rdeps", p) \ scope)
    BY DEF AnswersHonest
  <2>1. /\ query[q].deps \in [Paths -> SUBSET Paths]
        /\ ~ query[q].twin =>
             \A p \in Paths : \A d \in query[q].deps[p] : \E n \in Binaries : d \in ImportsBy(q, n)[p]
        /\ ~ query[q].twin /\ ~ query[q].stray =>
             /\ \A p \in Paths : query[q].deps[p] \subseteq Imports(q)[p]
             /\ ~ query[q].torn => query[q].deps = Imports(q)
    BY GraphFound DEF Records
  <2>2. ASSUME NEW to \in Paths PROVE cmdGraph(q, "rdeps", to) = {d \in Paths : to \in query[q].deps[d]}
    <3>1. cmdGraph(q, "rdeps", to) = {otherEnd(to, e) : e \in Dependents(q, to)}
      BY DEF cmdGraph
    <3>2. ASSUME NEW d \in Paths, to \in query[q].deps[d]
          PROVE  <<d, to>> \in Dependents(q, to) /\ otherEnd(to, <<d, to>>) = d
      BY <3>2 DEF Dependents, DerivedEdges, otherEnd
    <3>3. ASSUME NEW e \in Dependents(q, to)
          PROVE  otherEnd(to, e) \in Paths /\ to \in query[q].deps[otherEnd(to, e)]
      <4>1. e \in Paths \X Paths /\ e[2] \in query[q].deps[e[1]] /\ e[2] = to
        BY DEF Dependents, DerivedEdges
      <4> QED
        BY <4>1 DEF otherEnd
    <3> QED
      BY <3>1, <3>2, <3>3
  <2>3. ASSUME NEW from \in Paths PROVE cmdGraph(q, "deps", from) = query[q].deps[from]
    <3>1. cmdGraph(q, "deps", from) = {otherEnd(from, e) : e \in Dependencies(q, from)}
      BY DEF cmdGraph
    <3>2. ASSUME NEW d \in query[q].deps[from]
          PROVE  <<from, d>> \in Dependencies(q, from) /\ otherEnd(from, <<from, d>>) = d
      BY <2>1 DEF Dependencies, DerivedEdges, otherEnd
    <3>3. ASSUME NEW e \in Dependencies(q, from)
          PROVE  otherEnd(from, e) \in query[q].deps[from]
      <4>1. e \in Paths \X Paths /\ e[2] \in query[q].deps[e[1]] /\ e[1] = from
        BY DEF Dependencies, DerivedEdges
      <4> QED
        BY <4>1 DEF otherEnd
    <3> QED
      BY <3>1, <3>2, <3>3
  <2>4. ASSUME NEW from \in Paths, NEW to \in Paths
        PROVE  LET a == Edge(q, from, to)
                   own == ~ query[q].twin /\ ~ query[q].stray
               IN  /\ a = "present" /\ ~ query[q].twin => \E n \in Binaries : to \in ImportsBy(q, n)[from]
                   /\ a = "present" /\ own => to \in Imports(q)[from]
                   /\ to \in Imports(q)[from] /\ own => query[q].torn \/ PresentOr(a, TRUE)
                   /\ a = "absent" => {from, to} \subseteq coverageOf(q).analyzed
                   /\ Complete(coverageOf(q)) /\ {from, to} \subseteq There(query[q].tree)
                        => a # "unknown"
                   /\ PresentOr(a, FALSE) <=> from \in cmdGraph(q, "rdeps", to)
                   /\ PresentOr(a, FALSE) <=> to \in cmdGraph(q, "deps", from)
    <3> DEFINE a == Edge(q, from, to)
    <3>1. a \in {"present", "absent", "unknown"} /\ (a = "present" <=> to \in query[q].deps[from])
      BY DEF Edge
    <3>2. a = "absent" => {from, to} \subseteq coverageOf(q).analyzed
      BY DEF Edge, coverageOf
    <3>3. Complete(coverageOf(q)) /\ {from, to} \subseteq There(query[q].tree) => a # "unknown"
      BY DEF Edge, coverageOf, Complete
    <3> HIDE DEF a
    <3>4. to \in Imports(q)[from] /\ ~ query[q].twin /\ ~ query[q].stray
             => query[q].torn \/ PresentOr(a, TRUE)
      BY <2>1, <3>1 DEF PresentOr
    <3>6. /\ a = "present" /\ ~ query[q].twin => \E n \in Binaries : to \in ImportsBy(q, n)[from]
          /\ a = "present" /\ ~ query[q].twin /\ ~ query[q].stray => to \in Imports(q)[from]
      BY <2>1, <3>1
    <3>5. PresentOr(a, FALSE) <=> to \in query[q].deps[from]
      BY <3>1 DEF PresentOr
    <3> QED
      BY <2>2, <2>3, <3>2, <3>3, <3>4, <3>5, <3>6 DEF a
  <2>5. ASSUME NEW scope \in Scopes, NEW p \in Paths, p \in scope
        PROVE  LET r == toolGraph(q, "dependents", p, scope)
               IN  /\ r.named = {d \in scope : toolGraphEdge(q, d, p, scope) = "present"}
                   /\ r.withheld = Cardinality(cmdGraph(q, "rdeps", p) \ scope)
    <3> DEFINE r == toolGraph(q, "dependents", p, scope)
    <3>1. r.named = cmdGraph(q, "rdeps", p) \cap scope /\ r.withheld = Cardinality(cmdGraph(q, "rdeps", p) \ scope)
      BY DEF toolGraph, derivedPayload, partitionByScope, cmdGraph
    <3>2. ASSUME NEW d \in scope
          PROVE  toolGraphEdge(q, d, p, scope) = "present" <=> p \in query[q].deps[d]
      BY <2>5 DEF toolGraphEdge, Edge
    <3>3. scope \subseteq Paths
      BY AConstants
    <3> QED
      BY <2>2, <3>1, <3>2, <3>3
  <2> QED
    BY <2>4, <2>5
<1> QED
  BY <1>1, AffectedInvariant, PTL
=============================================================================
