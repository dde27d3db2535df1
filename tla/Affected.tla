------------------------------ MODULE Affected ------------------------------
(***************************************************************************)
(* What a change affects, and who depends on whom: package affected, its    *)
(* wiring in core (affected.go, graph.go) and package graphquery, behind    *)
(* `affected`, `graph` and the gate's tools of the same names.              *)
(*                                                                          *)
(* A query is a process.  It loads the analyzers in force, then takes the   *)
(* files of one tree, each through the specifier cache on disk: a hit is    *)
(* believed, a miss is analyzed and put.  A put truncates the entry's file  *)
(* and then writes it (os.WriteFile), and nothing locks it.  From the       *)
(* graph it has built the query answers.  Meanwhile files are committed,    *)
(* analyzers registered, and the binary is replaced by a newer one.         *)
(*                                                                          *)
(* Entries are filed under the build that makes them, and a process learns  *)
(* its build by hashing the file it was started from, once, when it first   *)
(* needs to know: by then the file may be that of another build.            *)
(*                                                                          *)
(* Trees are flat and all names are in one directory.  A text is what the   *)
(* analyzers make of it.  That a query fails, because an object is missing  *)
(* or an analyzer exits nonzero, is as good as a kill.                      *)
(***************************************************************************)
EXTENDS Naturals, Sequences, FiniteSets

CONSTANTS
    Queries,     \* queries that may run at the same time
    Paths, Exts,
    ExtOf,       \* ExtOf[p]: the extension of a path
    Blobs, NoBlob,
    FirstTree,   \* the first tree
    FirstManifest, \* and the analyzers registered then
    Modules, NoModule,  \* analyzer modules
    Binaries,    \* numbers from 1: builds of varvig with other extractors
    BuiltinExts, \* the extensions the built-in extractors read
    Builtin,     \* Builtin[n][b]: what build n extracts from b, in such a file
    Output,      \* Output[m][p][b]: what module m, which is told the path, extracts from b
    Candidates,  \* of a path specifier: the names it may stand for, best first
    Members,     \* of a package specifier: the names of the package's files
    ModuleFile,  \* go.mod, which names the module that packages are imported by
    Scopes,      \* what a task may see: sets of paths
    Commits,     \* what may be committed: a path with its new text, or none
    Registrations, \* what may be registered: an extension with its module
    MaxEdits, MaxSets, MaxQueries, MaxFaults, Budget  \* bounds: of each, and of all together

FlatTree == [Paths -> Blobs \cup {NoBlob}]
Specifiers == DOMAIN Candidates \cup DOMAIN Members

ASSUME AffectedAssumption ==
    /\ ExtOf \in [Paths -> Exts] /\ BuiltinExts \subseteq Exts
    /\ NoBlob \notin Blobs /\ NoModule \notin Modules /\ FirstTree \in FlatTree /\ IsFiniteSet(Paths)
    /\ FirstManifest \in [Exts -> Modules \cup {NoModule}]
    /\ Builtin \in [Binaries -> [Blobs -> SUBSET Specifiers]]
    /\ Output \in [Modules -> [Paths -> [Blobs -> SUBSET Specifiers]]]
    /\ DOMAIN Candidates \cap DOMAIN Members = {} /\ Binaries \subseteq Nat \ {0} /\ Binaries # {}
    /\ \A s \in DOMAIN Candidates : Candidates[s] \in Seq(Paths)
    /\ \A s \in DOMAIN Members : Members[s] \subseteq Paths
    /\ Scopes \subseteq SUBSET Paths
    /\ Commits \subseteq Paths \X (Blobs \cup {NoBlob}) /\ Registrations \subseteq Exts \X Modules
    /\ MaxEdits \in Nat /\ MaxSets \in Nat /\ MaxQueries \in Nat /\ MaxFaults \in Nat /\ Budget \in Nat

VARIABLES
    trees,     \* the changes of the branch, each with its tree
    manifest,  \* refs/hooks: the module registered for each extension
    binary,    \* the build in the file of the executable
    cache,     \* .varvig/index/deps: entries by key
    query,     \* query[q]: program counter and locals
    edits, sets, queries, faults

bounds == <<edits, sets, queries, faults>>
affectedVars == <<trees, manifest, binary, cache, query, bounds>>

Registry == [Exts -> Modules \cup {NoModule}]
NoDeps == [p \in Paths |-> {}]
NoQuery == [pc |-> "idle", tree |-> 0, binary |-> 0, id |-> 0, wasm |-> <<>>, todo |-> {}, file |-> {},
            deps |-> NoDeps, torn |-> FALSE, twin |-> FALSE, stray |-> FALSE]

AffectedInit ==
    /\ trees = <<FirstTree>>
    /\ manifest = FirstManifest
    /\ binary = CHOOSE n \in Binaries : \A m \in Binaries : n <= m
    /\ cache = <<>>
    /\ query = [q \in Queries |-> NoQuery]
    /\ edits = 0 /\ sets = 0 /\ queries = 0 /\ faults = 0

\* Many queries beside few other events, or few beside many.
Within(cost) == 2 * queries + edits + sets + faults + binary + cost <= Budget

At(q, pc) == query[q].pc = pc
Goto(q, pc) == query' = [query EXCEPT ![q].pc = pc]

\* FlattenTree: the files of a change's tree; before the first change there are none.
FilesOf(t) == IF t = 0 THEN [p \in Paths |-> NoBlob] ELSE trees[t]
There(t) == {p \in Paths : FilesOf(t)[p] # NoBlob}
FirstParent(t) == t - 1

-----------------------------------------------------------------------------
(* Extraction and resolution.                                               *)

BuiltinCovers(p) == ExtOf[p] \in BuiltinExts
extractBuiltin(bin, p, b) == IF BuiltinCovers(p) THEN Builtin[bin][b] ELSE {}
runWasmAnalyzer(m, p, b) == Output[m][p][b]

\* A module registered for the extension goes before the built-in extractor.
specifiersFor(bin, wasm, p, b) ==
    LET m == wasm[ExtOf[p]]
    IN  IF m = NoModule THEN extractBuiltin(bin, p, b) ELSE runWasmAnalyzer(m, p, b)

\* The first candidate that is there.
resolvePath(s, there) ==
    {p \in there : \E i \in DOMAIN Candidates[s] :
        Candidates[s][i] = p /\ \A j \in 1..(i - 1) : Candidates[s][j] \notin there}

detectGoModule(there) == ModuleFile \in there

\* All files of the package; outside a module there are no packages.
resolvePackage(s, there) == IF detectGoModule(there) THEN Members[s] \cap there ELSE {}

resolveSpecifier(p, s, there) ==
    (IF s \in DOMAIN Members THEN resolvePackage(s, there) ELSE resolvePath(s, there)) \ {p}

Targets(p, specs, there) == UNION {resolveSpecifier(p, s, there) : s \in specs}

MutantCacheKey(q, p) == <<FilesOf(query[q].tree)[p], query[q].wasm[ExtOf[p]]>>

\* "Every component that determined the answer": the text, the module, the build that the
\* process takes itself for; not the path.
CacheKey(q, p) ==
    <<FilesOf(query[q].tree)[p], query[q].wasm[ExtOf[p]], query[q].id>>

-----------------------------------------------------------------------------
(* The graph of one tree.                                                   *)

\* The modules registered under analyze:<ext>, read once when the query begins.
Analyzers == manifest

unknownExtractor == 0

\* What a process of build n takes itself for: it hashes the file it was started from, at this
\* query or an earlier one of its own, or cannot read it.
extractorID(n, id) ==
    \/ id \in n..binary /\ UNCHANGED faults
    \/ id = unknownExtractor /\ faults < MaxFaults /\ Within(3) /\ faults' = faults + 1

\* A query of a process that was started while build n was there.  (It hashes after it has
\* loaded the analyzers, but an upgrade in between is as good as one before.)
buildGraph(q, t, n) ==
    /\ At(q, "idle") /\ queries < MaxQueries /\ Within(2) /\ n <= binary
    /\ queries' = queries + 1
    /\ \E id \in Binaries \cup {unknownExtractor} :
         /\ extractorID(n, id)
         /\ query' = [query EXCEPT ![q] =
              [NoQuery EXCEPT !.pc = "files", !.tree = t, !.binary = n, !.id = id, !.wasm = Analyzers,
                              !.todo = There(t)]]
    /\ UNCHANGED <<trees, manifest, binary, cache, edits, sets>>

\* Files come in any order; entries of different keys have nothing to do with each other, so
\* one order stands for all.
NextFile(q) == CHOOSE p \in query[q].todo : TRUE

\* Does what the file of an entry was say anything of p?  A module may look at the path, an
\* extractor looks at the extension.
Alike(q, from, p) ==
    IF query[q].wasm[ExtOf[p]] # NoModule THEN from = p ELSE ExtOf[from] = ExtOf[p]

\* Has the process taken itself for another build?
Mistaken(q) == query[q].id # query[q].binary

\* DiskCache.Get: whatever the file holds.  (torn: it was empty for want of a write; twin: it
\* was made from a file it cannot speak for; stray: under another build's name, the entry by
\* its maker or the query.)
CacheHit(q, p) ==
    LET entry == cache[CacheKey(q, p)]
    IN  /\ At(q, "files") /\ query[q].todo # {} /\ p = NextFile(q)
        /\ CacheKey(q, p) \in DOMAIN cache
        /\ query' = [query EXCEPT ![q].todo = @ \ {p},
                                  ![q].deps[p] = Targets(p, entry.specs, There(query[q].tree)),
                                  ![q].torn = @ \/ ~ entry.whole,
                                  ![q].twin = @ \/ ~ Alike(q, entry.path, p),
                                  ![q].stray = @ \/ entry.stray \/ Mistaken(q)]
        /\ UNCHANGED <<trees, manifest, binary, cache, bounds>>

\* A miss: the file is analyzed, and DiskCache.Put makes an empty entry of that name ...
CacheMiss(q, p) ==
    /\ At(q, "files") /\ query[q].todo # {} /\ p = NextFile(q)
    /\ CacheKey(q, p) \notin DOMAIN cache
    /\ query' = [query EXCEPT ![q].pc = "put", ![q].file = {p}]
    /\ UNCHANGED <<trees, manifest, binary, cache, bounds>>

CachePut(q, specs, p, whole) ==
    LET key == CacheKey(q, p)
        entry == [specs |-> specs, path |-> p, whole |-> whole, stray |-> Mistaken(q)]
    IN  cache' = [k \in DOMAIN cache \cup {key} |-> IF k = key THEN entry ELSE cache[k]]

Truncate(q, p) ==
    /\ At(q, "put") /\ p \in query[q].file
    /\ CachePut(q, {}, p, FALSE)
    /\ Goto(q, "write")
    /\ UNCHANGED <<trees, manifest, binary, bounds>>

\* ... and writes it.
Write(q, p) ==
    LET specs == specifiersFor(query[q].binary, query[q].wasm, p, FilesOf(query[q].tree)[p])
    IN  /\ At(q, "write") /\ p \in query[q].file
        /\ CachePut(q, specs, p, TRUE)
        /\ query' = [query EXCEPT ![q].pc = "files", ![q].file = {}, ![q].todo = @ \ {p},
                                  ![q].deps[p] = Targets(p, specs, There(query[q].tree))]
        /\ UNCHANGED <<trees, manifest, binary, bounds>>

Built(q) == At(q, "files") /\ query[q].todo = {}

\* The answers below, and the query is over.
Answer(q) ==
    /\ Built(q)
    /\ query' = [query EXCEPT ![q] = NoQuery]
    /\ UNCHANGED <<trees, manifest, binary, cache, bounds>>

\* Only a kill inside a put leaves anything behind.
Kill(q) ==
    /\ At(q, "write") /\ faults < MaxFaults /\ Within(1)
    /\ faults' = faults + 1
    /\ query' = [query EXCEPT ![q] = NoQuery]
    /\ UNCHANGED <<trees, manifest, binary, cache, edits, sets, queries>>

-----------------------------------------------------------------------------
(* The answers, from the graph of a query that has built it.                *)

\* DiffTrees: paths whose ids differ.
Changed(base, t) == {p \in Paths : FilesOf(base)[p] # FilesOf(t)[p]}

\* Graph.Affected: the changed paths, and again and again the dependents of what is there.
AffectedBy(q, changed) ==
    LET reach[n \in Nat] ==
          IF n = 0 THEN changed
          ELSE LET near == reach[n - 1] IN near \cup {p \in Paths : query[q].deps[p] \cap near # {}}
    IN  reach[Cardinality(Paths)]

covered(q, p) == BuiltinCovers(p) \/ query[q].wasm[ExtOf[p]] # NoModule

coverageOf(q) ==
    LET files == There(query[q].tree)
    IN  [analyzed |-> {p \in files : covered(q, p)}, unanalyzed |-> {p \in files : ~ covered(q, p)}]

Complete(c) == c.unanalyzed = {}

\* core.Affected: what `affected <base> <new>` prints.
AffectedResult(q, base) ==
    LET changed == Changed(base, query[q].tree)
    IN  [changed |-> changed, affected |-> AffectedBy(q, changed), coverage |-> coverageOf(q)]

Pulled(r) == r.affected \ r.changed

\* With no arguments the base is the first parent.
cmdAffected(q) == AffectedResult(q, FirstParent(query[q].tree))

\* Paths outside a task's scope are counted, not named.
partitionByScope(paths, scope) == [named |-> paths \cap scope, withheld |-> Cardinality(paths \ scope)]

\* The gate's tool asks the same as the verb.
toolAffected(q, scope) ==
    LET r == cmdAffected(q)
        affected == partitionByScope(r.affected, scope)
    IN  [affected |-> affected, changed |-> partitionByScope(r.changed, scope),
         pulled |-> affected.named \cap Pulled(r), coverage |-> r.coverage]

\* core.DerivedEdges, and the two ways graphquery.Query looks at them.
DerivedEdges(q) == {e \in Paths \X Paths : e[2] \in query[q].deps[e[1]]}
Dependencies(q, p) == {e \in DerivedEdges(q) : e[1] = p}
Dependents(q, p) == {e \in DerivedEdges(q) : e[2] = p}

otherEnd(p, e) == IF e[1] = p THEN e[2] ELSE e[1]

\* graph deps, graph rdeps.
cmdGraph(q, verb, p) ==
    {otherEnd(p, e) : e \in IF verb = "deps" THEN Dependencies(q, p) ELSE Dependents(q, p)}

\* The gate's tool, for a path in the task's scope: the same edges, by their other ends.
derivedPayload(p, edges, scope) == partitionByScope({otherEnd(p, e) : e \in edges}, scope)
toolGraph(q, dir, p, scope) ==
    derivedPayload(p, IF dir = "dependencies" THEN Dependencies(q, p) ELSE Dependents(q, p), scope)

MutantEdge(q, from, to) == IF to \in query[q].deps[from] THEN "present" ELSE "absent"

\* graph edge: three answers.
Edge(q, from, to) ==
    IF to \in query[q].deps[from] THEN "present"
    ELSE IF \A p \in {from, to} : p \in There(query[q].tree) /\ covered(q, p) THEN "absent"
    ELSE "unknown"

\* The one way to make two of them.
PresentOr(answer, unknownMeans) == answer = "present" \/ (answer = "unknown" /\ unknownMeans)

\* The gate refuses to speak of paths outside the task's scope.
toolGraphEdge(q, from, to, scope) ==
    IF {from, to} \subseteq scope THEN Edge(q, from, to) ELSE "refused"

-----------------------------------------------------------------------------
(* Commits, analyzers and builds.                                           *)

CommitFile(p, b) ==
    /\ edits < MaxEdits /\ Within(1) /\ trees[Len(trees)][p] # b
    /\ trees' = Append(trees, [trees[Len(trees)] EXCEPT ![p] = b])
    /\ edits' = edits + 1
    /\ UNCHANGED <<manifest, binary, cache, query, sets, queries, faults>>

\* SetHook reads the manifest, resolves the ref once more and swaps; of two at a time one
\* would be lost.
SetHook(e, m) == manifest' = [manifest EXCEPT ![e] = m]

\* hook set analyze:<ext>, one at a time.
cmdHook(e, m) ==
    /\ sets < MaxSets /\ Within(1) /\ m # manifest[e]
    /\ sets' = sets + 1
    /\ SetHook(e, m)
    /\ UNCHANGED <<trees, binary, cache, query, edits, queries, faults>>

\* A newer build replaces the binary; processes that run go on with theirs.
Upgrade ==
    /\ binary + 1 \in Binaries /\ Within(1)
    /\ binary' = binary + 1
    /\ UNCHANGED <<trees, manifest, cache, query, bounds>>

AffectedNext ==
    \/ \E q \in Queries :
         \/ \E t \in DOMAIN trees, n \in Binaries : buildGraph(q, t, n)
         \/ \E p \in Paths : CacheHit(q, p) \/ CacheMiss(q, p) \/ Truncate(q, p) \/ Write(q, p)
         \/ Answer(q) \/ Kill(q)
    \/ \E c \in Commits : CommitFile(c[1], c[2])
    \/ \E r \in Registrations : cmdHook(r[1], r[2])
    \/ Upgrade

AffectedSpec == AffectedInit /\ [][AffectedNext]_affectedVars

-----------------------------------------------------------------------------
(* Properties.                                                              *)

AffectedTypeOK ==
    /\ \A t \in DOMAIN trees : trees[t] \in FlatTree
    /\ manifest \in Registry /\ binary \in Binaries
    /\ \A k \in DOMAIN cache : cache[k].specs \subseteq Specifiers /\ cache[k].path \in Paths
    /\ \A q \in Queries : /\ query[q].tree \in 0..Len(trees)
                          /\ query[q].todo \cup query[q].file \subseteq There(query[q].tree)
                          /\ query[q].deps \in [Paths -> SUBSET Paths]
    /\ edits \in 0..MaxEdits /\ sets \in 0..MaxSets /\ queries \in 0..MaxQueries /\ faults \in 0..MaxFaults

\* What the analyzers that q started with, and the extractors of build n, find in its tree.
ImportsBy(q, n) ==
    LET files == FilesOf(query[q].tree)
        there == There(query[q].tree)
    IN  [p \in Paths |-> IF p \in there
                           THEN Targets(p, specifiersFor(n, query[q].wasm, p, files[p]), there)
                           ELSE {}]
Imports(q) == ImportsBy(q, query[q].binary)

\* The sets that contain whatever imports a member of theirs, and the least with some paths.
Upward(imports) == {S \in SUBSET Paths : \A r \in Paths \ S : imports[r] \cap S = {}}
Least(above, changed) == {p \in Paths : \A S \in above : changed \subseteq S => p \in S}

\* "Affected is Changed plus their transitive dependents" (core/affected.go): the answer is the
\* one that analyzing every file anew would give, whatever the cache has gathered under other
\* builds and other analyzers and whoever writes it meanwhile; and what the gate names and
\* withholds adds up to what the verb prints.  Except where a query read an entry between its
\* truncation and its write, or one made from a file it cannot speak for, or one in the name
\* of another build (graph.go extractorID: the maker or the query was started before the
\* binary was replaced and hashed after, or could not hash).
AffectedExact ==
    /\ AffectedTypeOK
    /\ \A q \in Queries : Built(q) /\ ~ query[q].torn /\ ~ query[q].twin /\ ~ query[q].stray =>
         LET upward == Upward(Imports(q))
             whole == cmdAffected(q)
         IN  /\ \A base \in 0..Len(trees) :
                  AffectedResult(q, base).affected = Least(upward, Changed(base, query[q].tree))
             /\ \A scope \in Scopes :
                  LET r == toolAffected(q, scope)
                  IN  /\ r.pulled \cup r.changed.named = whole.affected \cap scope
                      /\ r.affected.withheld + Cardinality(r.affected.named) = Cardinality(whole.affected)

\* "No edge" is a fact about the code or it is not said (graphquery/query.go Edge, PathCovered,
\* coverageOf): an edge is called absent only if analyzers in force have read both files; under
\* complete coverage every question about files of the tree is decided; the lists of the verbs
\* and of the gate say the same as the single answers, and the gate's lists conceal nothing but
\* names.  An edge called present is one that the query's build finds in the files, and a caller
\* that takes unknown for present misses none that it finds; except, as above, for entries of
\* another file's and, for what is present, in the name of another build, when the edge is one
\* that some build finds, and for what is missed, torn ones too.
AnswersHonest ==
    \A q \in Queries : Built(q) =>
      LET c == coverageOf(q)
          own == ~ query[q].twin /\ ~ query[q].stray
      IN  /\ \A from, to \in Paths :
               LET a == Edge(q, from, to)
               IN  /\ a = "present" /\ ~ query[q].twin => \E n \in Binaries : to \in ImportsBy(q, n)[from]
                   /\ a = "present" /\ own => to \in Imports(q)[from]
                   /\ to \in Imports(q)[from] /\ own => query[q].torn \/ PresentOr(a, TRUE)
                   /\ a = "absent" => {from, to} \subseteq c.analyzed
                   /\ Complete(c) /\ {from, to} \subseteq There(query[q].tree) => a # "unknown"
                   /\ PresentOr(a, FALSE) <=> from \in cmdGraph(q, "rdeps", to)
                   /\ PresentOr(a, FALSE) <=> to \in cmdGraph(q, "deps", from)
          /\ \A scope \in Scopes, p \in Paths : p \in scope =>
               LET r == toolGraph(q, "dependents", p, scope)
               IN  /\ r.named = {d \in scope : toolGraphEdge(q, d, p, scope) = "present"}
                   /\ r.withheld = Cardinality(cmdGraph(q, "rdeps", p) \ scope)
=============================================================================
