# A TLA+ verification project for varvig

varvig is a version control system for repositories that many agents write at
once: a content-addressed object store, refs moved by compare-and-swap, a
transaction scheduler, speculative candidate pools with garbage collection,
signed ref updates, replication between peers, signed decisions that gate
promotions, a bridge to an external tracker, and queries about what depends on
what. This directory holds models
of the parts where concurrency, failure and ordering decide correctness, the
TLC configurations that check them on small instances, and TLAPS proofs.
Paths below are relative to `src/varvig/`.

Contents: [Inventory](#inventory) · [Modules](#modules) · [Runs](#runs) ·
[Proofs](#proofs) · [Met while modelling](#met-while-modelling) · [Not modelled](#not-modelled) ·
[Plan](#plan) · [Running](#running)

## Inventory

| Component | State it keeps | Operations | Used by / uses | What is hard | What makes it correct |
|---|---|---|---|---|---|
| `refs` | one file per ref, one reflog per ref, one lock file | `CompareAndSwap`, `Create`, `Delete`, `Resolve`, `List`, `AppendLog`, `ExpireLog` | every writer of refs | several processes, kills between system calls, torn log lines, stale locks | swaps are atomic; the reflog tells the history; callers return |
| `store`, `object`, `multihash` | immutable objects by identity | `PutRaw`, `Get`, `Has`, `Walk`, `Delete`; `Links` | everything | partial transfers, unknown types | content addressing: an identity means the same everywhere |
| `txn` | claims held, semaphore, per-transaction workspace | `Run`, `runOne`, `acquire`, `release`, `Read`/`Write`/`Remove`, overlap reports | `core`, `refs`, `store` | goroutines, retries, cancellation, conflicting claims | serializable, in rank order, nobody waits for ever |
| `spec` | candidate files per task | `Add`, `SetScore`, `List`, `Prune`, `Promote` | `core`, `gc` | files replaced by others between read and write | what is pooled or promoted is whole; a refusal is never outranked |
| `gc` | none (marks in memory) | `Collect` | `refs`, reflogs, `spec`, `pin`, `store` | interruption half way, roots that change, unknown types | deletes nothing reachable, keeps nothing else |
| `edge` | durable edges as notes, collectable edges as files | `Put`, `putEphemeral`, `ForgetState` | `spec`, `notes`, `graphquery` | budget counted without a lock | budget roughly kept; edges die with their state |
| `pin` | refs whose names carry an expiry | pin, unpin, reap | `p2p`, `gc` | quota race, re-pin, expiry boundary | a pin holds until its time and not longer |
| `refupdate`, `trust` | replay guard, trust lines | `Verify`; `Add`, `Remove`, `Authorized` | `refs`, `store` | checks overtaken before the swap, redelivery, skew | only what was signed and authorized, once |
| `p2p`, `wire`, `reserved` | sessions; remote-tracking refs | clone, fetch, push, notes and reserved-ref sync, pin requests | `store`, `refs`, `hook` | broken connections, concurrent writers on both sides | what arrives is whole; nothing unseen is overwritten |
| `notes`, `idchain`, `ticket` | chains of objects under a ref | `Add`, `New`, `Revise` | `refs`, `store`, `p2p` | read, then swap | a chain only grows |
| `daemon`, `task`, `peercred` | tasks, sockets, credential table | `StartTask`, `StopTask`, `Reap`, `Sign`, `Close` | `mcp`, `core` | expiry against in-flight requests | no signature after the end of a task |
| `mcp`, `core` | a task's read log and capabilities | gate verbs, `Propose`, `Commit`, the staleness check of `promote` | `spec`, `refs`, `notes` | the base moves while a task works and while an operator promotes | what a task was shown is recorded and still true when its change is promoted |
| `attest`, `principal`, `blocked`, `check`, `assertion`, `deps` | signed decisions, evidence, reports, claims and scopes as note chains; the org chart and the policy as refs | `Attach`, `Derive`, `PromotionBlocked`, `Admit`; `Add`/`Remove`; `Run`; `Widen` | `notes`, `spec`, `ticket`, `cmd` | decisions race with promotions; two resolves before one swap | a decision made before a promotion began binds it; no note is lost; the chart is the outcome of its updates |
| `bridge` | the link note with its watermarks | `apply-inbound`, `needs-push`, `mark-pushed`, `transition`, `nudge`, `link` | `ticket`, `edge`, `attest`, a tracker | polls repeat, both sides are edited, watermarks are read-modify-write | no echo, nothing applied twice, both sides come to agree |
| `merge` | none | `MergeBases`, `Merge` | `cmd` | criss-cross histories | everybody's lines, once |
| `worktree` | the directory; the stat cache | `Checkout`, `WriteTree`, `Scan`, `SelectEdits`, `BuildTree` | `cmd` | files change under a verb; mtimes of a second; nothing records the base | a commit or proposal is what its author did |
| `affected`, `graphquery` | the specifier cache | `BuildGraph`, `Affected`; `Edge`, `Dependents` | `core`, `mcp`, `cmd` | the cache is shared by processes, builds and analyzers | the answer is that of a fresh analysis; no false "absent" |
| `textdiff`, `score` | none | pure functions | `cmd` | | |
| `gitport`, `gitobj` | a Git repository | import, export | `cmd` | interruption | resumable |
| `hook` | a manifest under a ref | `SetHook`; veto before a ref moves | `p2p`, `core`, `affected` | two registrations at once | a refusal stops the move |
| `identity`, `sshkey`, `readapi`, `agentrules`, `conformance`, `cmd`, `tools` | none of their own | input, output, formats | | | |

How they interact: all durable state is objects plus refs. Writers put objects
first and then swap a ref; the collector and the replicator start from refs and
follow links. Hence the order of the modules: `RefStore` justifies treating a
ref as an atomic register, and the other modules build on that register.

`PROJECT.json` lists the hazards this code is exposed to, each at its line, with
the property that would catch it going wrong or the reason there is none yet.

## Modules

### `RefRegister` and `RefStore` — package `refs`

`RefRegister` is the abstract specification: per name one value, a call that is
pending until a single indivisible `Move` (from exactly the value its caller
expects) or `Refuse` decides it, or that gives up without effect.

`RefStore` is `internal/refs` system call by system call. State: the lock file,
the ref files, the reflogs (complete lines with their position, and how the file
ends: whole, without its newline, cut in a header, or damaged for good), per process a
program counter and arguments. Actions:

| action | code |
|---|---|
| `CompareAndSwap`, `AppendLog`, `ExpireLog` | the three kinds of call |
| `Acquire`, `TimeOut`, `Unlock`, `LockError` | `lock.go`: `O_EXCL`, ten-second deadline, deferred remove |
| `Check` | resolve and compare under the lock |
| `CreateTemp`, `FillTemp`, `Rename`, `RemoveRef` | `refs.go`: temporary file, rename, or removal for a deletion |
| `appendLog`, `WriteLine`, `TearLine` | `reflog.go`: one line, possibly after an unterminated one, possibly cut short; after a line cut in its header the two may parse as one (`AddGlued`) that says neither |
| `ExpireRead`, `RewriteLog` | expiry by count and by time |
| `IOError`, `AppendError`, `Crash`, `Restart` | any call fails; the process dies between any two calls |
| `BreakLock` | the operator removes a lock file no running process owns (outside the code: nothing in `refs` breaks a lock) |

Abstraction: contents are identities; messages are two kinds; temporary files
that nobody reads are not state.

### `Txn` — package `txn`

`Run` as one goroutine per transaction, each with the program counter of the
code: wait for lower-ranked conflicting predecessors (`WaitPreds`), take a slot
of the semaphore (`TakeSlot`), acquire a claim or sleep on the condition variable,
derive from the tip, apply in the workspace with the capability check, commit by
compare-and-swap, back off and derive again, release. `Cancel`, `External` (another
process moves the ref) and `CommitError` (the ref store fails, before or after it
moved) are the environment. Prefixes are sequences of segments, so "covers" is the
prefix relation and `""` is the empty sequence. File contents record who wrote them
and what that transaction saw, so that two orders of conflicting work differ.
Two `Run` calls may share one scheduler and with it the lock manager.

### `RefUpdate` — packages `refupdate` and `trust`

Verifiers on one repository take an update through the pipeline of `verify.go`,
one action per check: `Receive` (decode, authenticate, expiry, authority against
the trust store as read then, with the clock as read then), `CheckObjects`,
`CheckNonce` (both guards forget a nonce whose `not_after` has passed, which 0, no expiry,
always has), `Swap`, `SwapError` (before or after the ref has moved: `Verify` calls both a conflict),
`Audit`. Between any two the clock ticks, trust lines come and go, objects arrive
and others move the ref; a verifier may be killed and the guard or the ref store
fail. Updates are records with a flag that says whether the signature verifies.

### `Retention` — packages `spec`, `gc`, `store`, the collectable half of `edge`

Agents' calls are file by file: `PutRaw` in link order, `Add` (stat, then write),
`SetScore` (read, then write), `ReadDir`/`ReadFile`, `Rank`/`Remove`/`ForgetState`
for `PruneWithEdges`, `Best`/`Swap` for `PromoteWithPolicy`, `PutEphemeral` (count,
then write). The collector marks object by object, walks and deletes one by one,
and may be killed at any of these. Pins come, go and expire; reflogs expire or
are torn. The collector starts only while no agent's call is under way and no
call starts during it: `gc.go` declares itself an offline operation and nothing
enforces it; this assumption is the guard of `Collect` and of `Begin`, and is
listed as a hazard.

### `Sync` — packages `p2p`, `notes`, `idchain` and the commands clone, fetch, push

A hub and its clients, each with an object store and a branch, a note chain and a
reserved ref. A session goes through the three namespaces; objects travel one at
a time, tip first; the receiver checks that the closure is whole before any ref
moves; heads are pushed under the lease of the tracking ref, notes and reserved refs
only forward. People commit, merge, annotate and revise on every side meanwhile
(`notes.Add` is a read and a later swap), the hook may refuse, and the connection may
break after any step (`Drop`), including between the hub's swap and the reply.

### `Daemon` — packages `daemon` and `task`

Each control request and each tick of the reaper is a goroutine; a step is what one
does between two points where another can come in (`d.mu`, the table's mutex, a read of
the clock, the closing of a socket). `Mint`/`Register` are `StartTask`, `Take`/`Forget`/
`StopReturn` are `StopTask`, `ReapRead`/`ReapTake`/`ReapClose` are `Reap` called by the
ticker and by list and status requests, `Ask`/`Get`/`Answer` a signature for a checkout,
`Shutdown`/`CloseTake`/`CloseOne`/`Exit` the end of the process, which may cut any of the
others short. A task is its identity: a key is fresh, so ids do not repeat. Of a request
the model remembers whether it came after the expiry or after the call that revoked the
task had returned (`late`). Connections to a gate that are open when their task is revoked
stay usable until the grant expires, as the comment of `StopTask` says; they are in
`Promotion`, not here.

### `Promotion` — packages `mcp`, `core`, commands `commit`, `propose`, `promote`

Optimistic concurrency end to end. A task reads a pinned base through the gate, which adds
every hash it resolves to the grant's read set (`ListTree`, `ReadFile`, `Search`,
`ReadChange`, `Diff`), and `Propose`s a change that carries the set. People `Commit` meanwhile.
`promote` is `PromoteStart`, `PromoteCheck` (main resolved, reads compared), `PromoteLease`
(main resolved again), `PromoteSwap`; the guards of other modules (signature, authority,
scope, approval, evidence) may refuse at any point (`PromoteRefuse`). A hash is what it
hashes, a tree one file per directory; `seen` records what the client was really shown, so
that the read set can be compared with it. `Reach` and `Stale` are `CollectReach` and
`DependencyStale`.

### `Bridge` — package `bridge` and the `bridge` verbs

One ticket, one tracker row, a connector that polls and pushes, people on both sides. A verb
reads the head (`NeedsHead`, `MarkHead`, `TransHead`, `Poll`), then the link (`ApplyGet` and the
steps that decide: `ApplyInbound`, `NeedsPush`, `MarkPushed`, `TransitionOnce`), then writes through
`notes.Add` (`AddTip`, `AddSwap`) or `idchain.Revise` (`ReviseHead`, `ReviseSwap`), which each read once
more before they swap. `LocalWins`, `Echo` and `Recorded` are the three tests that the watermarks
exist for. `TrackerEdit`, `TrackerMove`, `TrackerField` are people in the tracker, `Send` is the
connector's write into the row, `TicketsRevise` and `BridgeLink` are verbs people run. `KillVerb` kills a
connector's verb between its writes. The history variables `typed`, `sent`, `raced` remember what somebody
typed, what reached the row, and which heads moved while the connector looked.

### `Governance` — packages `attest`, `principal`, `ticket`, `check`, `blocked`, `assertion`, `deps`, commands `promote` and `spec promote`

Everything that decides about a promotion. Nineteen calls (`Calls`) become verbs; each reads refs one at a
time, decides and swaps one ref at a time. `AddTip`/`AddSwap` are the two halves of `notes.Add`, by which
attestations (`Attest`), evidence (`Check`), reports and widenings (`ReportBlocked`, `Widen`), scopes, comments,
claims (`ClaimAdd`, `ClaimPromote`) and artifacts (`AttachArtifact`, then `Pin`) all reach their chain.
`PrincipalOld`, `PrincipalEntries`, `PrincipalSwap` are `principal.update`, which resolves the ref twice.
`promote` is `PromoteApproval`, `PromoteEvidence`, `Lease`, `Move`; `spec promote` takes the candidates in the
order the pool lists them (`NextCandidate`), walks the ancestors of each note by note (`PromotionBlocked`), asks the policy and
keeps the best that is admitted (`Admit`, `Outdoes`). In the walk attestations that cannot be read disqualify
the candidate (`Disqualify`), and a change that cannot be read ends the walk above it without a word (`Pass` without
parents); either may happen to any change at any time.
`Derive` is `Approved`. `Collect` takes an artifact's object if no pin holds it. `moves` remembers of each promotion
what vetoes and how much evidence there was when it began, and which changes its walk could not read. Of what
`Artifacts` lists, the model has what index notes name (`attachedRefIDs`), not what the head change and fulfilling commits
name themselves (`artifact.go:92`): those are links of changes, which `Retention` keeps.

### `Merge` and `Workcopy` — packages `merge`, `worktree`, commands `commit`, `checkout`, `merge`, `propose`

`Merge` is the three-way merge as operators: `MergeBases` (common ancestors that no other one descends
from), `virtualBaseTree`, `mergeTrees` per file, `resolveConflict`, and `merge3` over the pairs that `lcsPairs`
walks out of the table of common subsequences, tie broken as in the code. Every ancestor's object is taken to be in the
store: `parents` takes one it cannot read for a change without parents (`merge.go:371`), which would shorten the sets of
ancestors and merge from other bases without an error. `MergedLines` is stated of whole histories.

`Workcopy` puts them into a repository with a directory. Verbs are processes: `CommitTree`,
`CommitHead`, `CommitSwap`; `MergeHeads`, `MergeWrite` (files first), `MergeSwap`; `CheckoutVerb`; `propose` as
`ProposeBase` (with the listing of the directory, so later files are not seen), a scan file by file (`NextFile`,
`ScanStat`, `ScanRead`; it fails when a listed file is gone), `SaveIndex`, `Propose`. Paths are in one directory. Meanwhile the user
edits, moves and chmods files, a peer commits and merges, another verb may move the branch. Files have a
modification time in seconds and an inode, the index remembers both, so `Clean` can be fooled as in the
code; `raced` are the files for which it then is (`Mistaken`). A line carries the number of the edit that
made it, so lines can be followed through merges. `based` remembers which change the directory was made
from, which the code does not.

### `Affected` — packages `affected`, `graphquery`, `core` (affected.go, graph.go), commands and tools `affected`, `graph`, `hook set`

A query loads the analyzers in force (`Analyzers`), then takes the files of a tree one at a time:
`NextFile`, `CacheHit` or `CacheMiss`, `CachePut` as `Truncate` and `Write`. From the graph it answers with
operators: `AffectedResult`, `cmdAffected`, `toolAffected`; `DerivedEdges`, `Dependents`, `cmdGraph`, `toolGraph`;
`Edge`, `PresentOr`, `toolGraphEdge`; `coverageOf` says what has been analyzed. The cache on disk outlives queries.
`CommitFile`, `SetHook`, `Upgrade` change files, analyzers and the build meanwhile; `Kill` leaves a truncated entry.
A text is what each build extracts from it, and each module, which is told the path too. A process may have been started
under an older build than the executable's file now is; it hashes that file on first use, so it may take itself for the
newer build (`extractorID`), or for the unknown one when it cannot read the file, and `CacheKey` has the build it takes itself for.
`torn`, `twin` and `stray` remember, per query, that it met an entry between its truncation and its write, one made from a file it
cannot speak for (another extension, for a module another path), or one in the name of another build
(its maker's or its own).

`Bridge`, `Affected` and `Workcopy` have their `Init`, `Next`, `Spec`, `TypeOK` and `vars` under names of their own (`BridgeInit`,
`AffectedSpec`, ...), because each is proved about in one module together with another component.

In every module but `RefStore` a ref is an atomic register. That is
what theorem `Refinement` below establishes about `RefStore`. The one thing the register
hides, an error reported after the move, is an action of `Txn`, `RefUpdate` and `Retention`;
in `Sync` it looks like a reply that is lost.

## Runs

| run | instance | checks | result |
|---|---|---|---|
| `refstore` | 2 processes, 1 ref, 1 identity and "none", 2 timestamps, 3 calls, 1 fault | `TypeOK`, `LockExclusive`, `CheckedValueHolds`, `HistoryKept`, `ImplementsRegister`, `CallsReturn` | hold |
| `txn_batch` | every batch of 3 out of 6 declarations, 2 slots, 3 attempts, 1 foreign move, 1 fault | `SerialInv`, `SerialInRank` | hold |
| `txn_live` | 3 transactions over two `Run` calls, cancellation, 1 fault, 2 attempts | `OnceEach`, `HeldConflictFree`, `RunReturns` | hold |
| `refupdate` | 2 verifiers, 6 updates (two of them with one nonce, one without an expiry), 2 deliveries, time 0..3 with skew 1, 1 other change, 1 fault | `WholeInv`, `OnceBeforeNotAfter`, `AppliedAsSigned` | hold |
| `retention` | 2 agents, 2 changes over shared trees, 1 pin, 3 edges with budget 1, 4 calls, 1 fault | `RetentionInv`, `SweepsOnlyGarbage` | hold |
| `sync` | a hub, a client that has cloned and one that has not, 4 objects, 3 sessions, 1 broken connection | `TrackingInv`, `ArrivesWhole`, `NeverClobbers`, `NothingUnseenLost` | hold |
| `daemon` | 2 tasks of lifetime 1, time 0..2, 1 list connection and the ticker, 1 signing connection | `TypeOK`, `KeysForgotten`, `NoLateSignature`, `NoStrayFiles`, `RevokedForGood`, `ExpiryRevokes` | hold |
| `promotion` | 1 task that covers one of 2 directories, 2 contents, 3 changes, 2 connections, 1 operator | `ProvenanceInv`, `ShownStillThere` | hold |
| `bridge` | 1 connector, 1 author, 3 texts, 1 local revision, 2 tracker events, 1 kill | `BridgeInv`, `ResyncIdempotent`, `Converges` | hold |
| `governance` | 2 people, 4 calls out of 19 (2 of them of the kinds no decision reads), 2 changes in line, 2 revisions, 2 keys, 1 kill | `ArtifactsReadable`, `PromotionHeeds`, `ChartSerial`, `NotesOnlyGrow` | hold |
| `workcopy` | 2 files, budgeted: 2 edits, 2 commits, 1 peer change, 2 merges and 1 by the peer, 2 scans, 1 second, 1 checkout or foreign move, 1 rename or chmod | `MergedLines`, `OwnEditsOnly`, `ProposesTheDirectory` | hold |
| `affected` | 2 processes for 3 queries, 4 files with 4 extensions, 3 texts, 2 builds, 2 modules, budgeted: 1 commit, 1 registration, 1 upgrade, 1 kill or executable that cannot be read | `AffectedExact`, `AnswersHonest` | hold |

A run's first invariant is in most cases a conjunction of named parts, each with its own comment in the
module: `HistoryKept` (`ReflogInOrder`, `HeldRecoverable`), `SerialInv` (`CommitsSerial`, `RankOrder`,
`ReportsAgree`, `NobodyExhausted`), `WholeInv` (`NoDanglingRef`), `RetentionInv` (`RootsIntact`, `SweepExact`,
`BudgetNearlyKept`), `TrackingInv` (`TrackingHonest`), `ProvenanceInv` (`ReadsInProvenance`, `ListingPinsTree`),
`BridgeInv` (`InboundHonest`). They hold in the same states, so one run asks them together.

Why the bounds are enough for what the runs ask:

- `refstore`: an interference needs two processes and one ref; creation, deletion
  and recreation need one identity beside "none"; three calls let a swap, an audit
  and an expiry overlap, or a swap follow a lost line. One fault is one torn line,
  one lost line or one stale lock. Two timestamps let the clock go back. Two moves
  in a row without a line, which `HeldRecoverable` excludes, need two faults.
- `txn_batch`: with three transactions there are chains of two conflicts and a
  bystander; the declarations cover nested prefixes, reader against writer, the whole
  repository, a removal, an access outside the declaration. With two slots one
  transaction always waits. `NobodyExhausted` has two competitors and three attempts.
- `txn_live`: two attempts, so that both a retry and giving up happen.
- `refupdate`: time 0..3 with expiries 1 and 2 and skew 1 passes through before,
  at, within the skew of and after an expiry.
- `retention`: two calls race and two more follow; a shared tree makes a wrongly
  swept object somebody's loss; one kill is enough for a half-done call or sweep, and
  what follows it meets the remains.
- `sync`: objects 1 and 2 exist at the start, so two more are written; three sessions
  are a push or fetch that breaks, another client's, and one that meets the outcome.

- `daemon`: two tasks let `Close` and `Reap` hold one while the other is started or
  stopped; two reapers overlap; time 2 is past the expiry of a task minted at 0, and a task
  minted at 1 is still valid then, at its edge.
- `promotion`: the three changes are the base, the task's and somebody's commit; a file
  can change inside and outside the scope, change back, or move to the other directory with
  its content; the second connection meets the reads of the first. Contents are symmetric.

- `bridge`: the hard cases are two edits that cross and one that returns to an older text, which needs
  three texts; one local revision falls into every gap of the connector's verbs; one kill falls between
  any two of its writes. `Converges` is checked over the same states.
- `governance`: two verbs race and two more precede or follow them: an approval, a veto, a
  new revision and a promotion are four calls; so are an approval, evidence that fails, evidence that passes and a promotion,
  all of `c1`. `c2` is based on `c1` and implements the second revision, so for the candidates of `spec promote` a
  veto can lie on an ancestor, and an approval on an older revision. Comments, artifacts, claims, scopes, reports and widenings,
  which nothing else reads, share a bound of two (`MaxAsides`). A kill is looked at only between the two notes of
  `AttachArtifact`: everywhere else a killed verb is one that has not gone on. `Collect` is taken only
  while nobody is in a verb, since `gc` is an offline operation.
- `workcopy`: two merges and one by the peer make a criss-cross with two bases; two edits of one
  file and a second file distinguish what merges take from where. Each action has a price and all share
  one budget (`Cost`, `Budget`), so that a history is long in merges or has scans, not both. The user
  edits only where a verb reads files (`UserTurn`) and the peer moves only between verbs: elsewhere their steps
  commute with the verb's. A scan's clock starts to matter after the first scan. Three bases at once, for
  which the virtual base is the empty tree, do not occur in these bounds.
- `affected`: a removal to which another candidate succeeds, a new text, a text that is there under another extension;
  a specifier that names a file, one that names a package; an extension read by a module only, by a build
  only, by either, by neither; a module that looks at the path. The first query fills the cache, the second and third meet its
  entries. Queries cost two, other events one and a failure to hash three of a common `Budget`, which still lets an old
  process file its answers under the new build's name and a new one read them.
  The files of a tree are taken in one order (`NextFile`; the cache is per text, so the order shows only
  in what a concurrent query meets), and only one `hook set` is under way at a time.

`CHECK_DEADLOCK FALSE` is set where the bounded environment may simply have nothing
left to do (everywhere but in `Txn`). `Txn` keeps deadlock checking:
a batch that stops before every goroutine is done is an error.

Symmetry is used for interchangeable verifiers (`RefUpdate`), agents and edges
(`RetentionCollect.cfg`), contents (`Promotion`), people (`Governance`) and queries (`Affected`), in runs
without liveness only.

Fairness. `RefStore!FairSpec` has weak fairness of each process' steps: a running
process goes on, and the lock loop ends by its deadline even if the lock is never
free. Nothing is assumed of starting calls, of faults or of the operator.
`Txn!FairSpec` has weak fairness of each goroutine: `sync.Cond` waiters are woken by
`Broadcast` and the tests for predecessors, slot and claim are evaluated again; no
fairness is assumed of cancellation or of other processes. `Daemon!Fairness` has the
goroutines that hold work go on, the 30-second ticker call `Reap`, and `main` return after
`ServeControl`; nobody has to start, stop or sign anything, and the clock need not advance.
`Bridge!Fairness` has a verb that began end, and the connector keep polling and asking what to push. The
second is outside the code: a connector is a process of the operator's that calls the `bridge` verbs
(`TICKETS.md:416`: it reports the same state every poll); it is strong fairness because a verb of its own is under way in between. Nobody
has to edit anything.
`Sync` states no liveness:
`wire.go` reads frames without a deadline, so a silent peer blocks a session for ever
and the code gives nothing to assume.

## Proofs

Eight modules hold machine-checked proofs, each about one component or two (`InboundProofs`, `CheckoutProofs`, `GateProofs`), for every value of
their constants. A theorem about a run's property carries the run's small instance over to any number of
processes, tasks, objects, calls and faults. All proofs go the same way: an inductive invariant `IInv`, which
is the property and what it rests on; one lemma that it holds initially; one lemma per action or per conjunct that
the step keeps it; and the theorems, which follow from `IInv` (an action property from `IInv` and one
step). TLC checked an invariant on the run's instance first. No theorem assumes more of the constants than
the module's `ASSUME`, which the runs evaluate, except where it says so below.

| module | theorem | says |
|---|---|---|
| `RefStoreProofs` | `TypeCorrect`, `MutualExclusion`, `NoLostUpdate` | `[]TypeOK`, `[]LockExclusive`, `[]CheckedValueHolds` |
| | `HistoryTold` | `[]HistoryKept` |
| | `Refinement` | `ImplementsRegister` |
| `TxnProofs` | `BatchesSerial`, `EffectsOnce` | `[]SerialInv`, `[]OnceEach` |
| | `ConflictsExclude` (if `ClaimsNamed`) | `[]HeldConflictFree` |
| `InboundProofs` | `RepositoryWhole`, `NoReplayBeforeNotAfter`, `AppliedWithAuthority` | `[]WholeInv`, `[]OnceBeforeNotAfter`, `[]AppliedAsSigned` |
| | `InboundIsHonest`, `ResyncLeavesNothing` (if `OneConnector`) | `[]BridgeInv`, `[]ResyncIdempotent` |
| `RetentionProofs` | `RetentionSafe`, `CollectsOnlyGarbage` (if `Unknown = {}`) | `[]RetentionInv`, `SweepsOnlyGarbage` |
| `SyncProofs` | `TrackingSound` | `[]TrackingInv` |
| | `WritesAreWhole`, `SyncMovesForward`, `PushesOverWhatItHas` | `ArrivesWhole`, `NeverClobbers`, `NothingUnseenLost` |
| `CheckoutProofs` | `TypeCorrect`, `NoKeyLeftBehind`, `NoSignatureAfterRevocation`, `FilesRemoved` | `[]TypeOK`, `[]KeysForgotten`, `[]NoLateSignature`, `[]NoStrayFiles` |
| | `ServedTasksReachable`, `RevocationIsFinal` | `[]ServedIsOpen`, `RevokedForGood` |
| | `CommitsAreOwn`, `ProposalsAreFaithful` | `[]OwnEditsOnly`, `[]ProposesTheDirectory` |
| `GateProofs` | `ProvenanceHolds`, `ShownHolds` | `[]ProvenanceInv`, `[]ShownStillThere` |
| | `AffectedAsAnew`, `EdgesHonest` | `[]AffectedExact`, `[]AnswersHonest` |
| `GovernanceProofs` | `ListedArtifactsStay`, `PromotionsHeed`, `ChartUpdatesSerial` | `[]ArtifactsReadable`, `[]PromotionHeeds`, `[]ChartSerial` |
| | `NotesNeverLost` | `NotesOnlyGrow` |

### `RefStoreProofs`

`IInv == TypeOK /\ LockExclusive /\ CheckedValueHolds /\ PhaseMatches`. `LockExclusive` carries the weight: that
the file exists while its owner is in the critical section is what stops a second `O_EXCL` creation and what makes
the deferred removal take away only one's own lock. `CheckedValueHolds` needs it, since only a process in the
critical section writes a ref. The refinement needs `CheckedValueHolds`, because `RefRegister!Move` demands the
expected value at the moment of the rename, several steps after the check. `PhaseMatches` ties the program
point to the kind of call; without it an expiry's rename could not be told from a swap's. Under the mapping `CallOf` a
swap is pending until the rename (or the removal, or the refusing check), then decided until the call returns;
audits and expiries are stuttering. `QuietStep` disposes of the actions that touch neither lock nor refs.

`HistoryTold` adds `HInv`: there is a function from the moves that were logged to the swap lines that keeps their order
(`Telling`); a ref holds what it was moved to last and was moved there from what it held before (`Chained`); a swap
that is about to append has made the last move of its ref, and no line tells it yet (`Untold`, which is where the lock
comes in: no other process moves the ref or appends in between); positions grow along a file (`Numbered`). A failed or
torn append leaves a gap in the logged moves; a line glued of two (`GluedLine`, `GluedTold`) is no swap line, so it tells no move. `SameRank` turns the function into what `ReflogInOrder` says in
cardinalities.

### `TxnProofs`

`IInv` says per transaction how far it has come: `Ending` (no result and no effect before the end, never two effects),
`Derived` (what is about to be committed is what the transaction makes of its base, so that a swap that succeeds extends the
chain serially), `Following` (whoever has started, or has taken effect, has seen its predecessors end, which gives rank order),
`Losing` (each attempt but the last was lost to a change of its own, which bounds the attempts by the chain), `Declared`; and of the
semaphore, that it counts the transactions inside (`SlotsCounted`). `ConflictsExclude` adds `Holding`: every
running transaction has an entry of its own among the claims held. `release` removes one entry that looks like
its claim, so this needs the hypothesis `ClaimsNamed`: no two declarations that differ are rendered as the same text. The
declarations of the `txn_live` run satisfy it, and without it the property fails (*An empty claim*, below).

### `InboundProofs`

About `RefUpdate`: `Entitled` and `NewIsHere` say what a verifier has established by the step it has reached: that the update is signed by a key the trust
file it read then allowed to move this ref, and that the new object is here; trust may change and objects only arrive, so
both are still true of the update when it is applied. The replay guard is the hard part: `Remembered` says that the guards hold the nonce
of every update applied, or about to be, while its `not_after` has not passed, and `SwapsApart` that no verifier
about to swap clashes with another or with an update applied. Two updates may carry one nonce with different
expiries, so `OnceBeforeNotAfter` compares the times of both checks with both. It is about dated updates only: the guards forget
the others at once (*A nonce never remembered*, below).

About `Bridge`, `BInv`. What a text in the row can be is the key: `Explained` says that somebody typed it, or that it is the text of
the revision sent last and of everything the connector made since. `Since` says of the head a verb has read that only
local revisions, all of them `raced`, were made after it; `Told` that a local revision a watermark names was sent or raced. When an
inbound edit passes `Echo` and `LocalWins`, its head is the one pushed last, so the edit was typed or the head was raced (`ApplyInboundStep`). For
repetitions, `Paid` counts: each repeated attestation, and one more while one is owed, has a kill or a lost link
write to its account. One is owed (`Owing`) when the newest link does not say what was attested last and nobody is about to
write one that does, or when a verb is about to attest it again. `InOrder` (attestations go to later and later revisions) makes what
is repeated the last one. The hypothesis `OneConnector` is the code's intended use. Two connectors on one row have no
common cursor: each takes the other's push for an edit, and two `PutOnce` at once write an edge twice.

### `RetentionProofs`

`CallsWhole` says that the change a call is about to record or promote is whole, and stays so because the collector runs while no call is under way
(`Offline`). The collector is described by two bounds: `Marked`, that whatever the roots lead to is marked or on the work list,
and `Grounded`, that any set that holds the roots and is closed under links holds everything marked. Together they
make a finished mark phase exactly the reachable set (`Marking`, `Sweeping`), without induction over paths. Links are
followed only for types the build knows, hence `Unknown = {}` (*Unknown object types*, below). `BudgetCommitted` counts, per
candidate, the edges and the writers that have passed the check, which gives the overrun of at most one edge per
concurrent writer.

### `SyncProofs`

`Sound` says what a session has established by the step it has reached, branch by branch: what it will record has been the
hub's head and is whole at the client; what it will send is whole there and, for notes and reserved refs, leads to what it
replaces. It stays true while people write on both sides, because objects are never removed and a closure, once whole, does not
change. `HeadsWhole` has branches and tracking refs whole, but not notes, whose targets `notes.Add` looks up only one level deep.
The three action properties are about single steps of a session from such a state.

### `CheckoutProofs`

About `Daemon`, `IInv`. `Registered`: whatever is in the map, the table or a call's hands went through `Register`, which happens once, so
nothing comes back. `TakenOnce`: the map and the hands are disjoint, so the call that closes a socket is the only one
to. `EmptyHanded`: a call that takes tasks has closed those it took before. `OpenExactly`: an open socket of a registered
task is in the map or in some call's hands, which is what makes a revoked one closed; `FilesExactly` says the same of the
socket files, and that `Close` leaves the map empty. `LateRefused`: a late request that is not answered yet will be refused, since its key is gone, or the clock it
carries is past an expiry that no step changes. `DaemonAssumption`: lifetimes are positive, as `task.New` demands; the ticker
is no connection.

About `Workcopy`, `WorkcopyInv`. Commits: `BasedHonest` relates the directory to the change it was made from, which is what the code does not record:
what is missing the user removed, what is more was typed or left behind. `LaidOut` establishes it for a checkout, and a merge is
without such a change (`based = 0`) from the write of its files to its swap, when `Merging` gives it back. `Committing` says no edit comes
between the tree and the swap, as an edit beside `WriteTree` is as good as one before or after. Of a merge it matters only that it makes
a tree of two trees (`MergedTree`). Proposals: `IndexHonest` says an entry is of the file's text unless the file is `raced` or of the second
of the save, in which case `Clean` refuses it; `Scanned` says the same of what a scan has in hand, and `EditsComplete` that the edits of `Compare` take
the base to the directory whatever it takes for renames. `OwnEditsOnly` contains the types, so the proof shows too that no two files
have one inode: `NewInodesFresh`, that there are always numbers left, is the pigeonhole principle again.
`WorkcopyAssumption` says the paths are finite and the first tree is one.

### `GateProofs`

About `Promotion`: `Kept` says of a task that its read set holds the files it was shown, all of which are the base's, and the tree of a listing;
`Provided` says of a change that its provenance and its parent are in the same relation, which `Propose` hands over
whatever the number of connections. `Passed` says of a promotion that is not forced that the change was not stale
at the tip it was checked against, and `StaleStays` that this does not change when objects are added. That a hash stands for what it hashes (`HashesApart`)
then gives the theorems.

About `Affected`, `AInv`. `CacheSound`: an entry is what its key's analyzer found in a file like the one it was made from, or
empty for want of the write. `DepsSound`: a query that has met no torn, twin or stray entry has, for the files it is done with,
the dependencies a fresh analysis finds; torn ones only take away, and stray ones are what some build finds. What `AffectedResult` and `Dependents` then make of the graph, they make of the
same graph as a fresh query. That the traversal ends with the least closed set, which is how `AffectedExact` states the result, is
`AffectedLeast`: the rounds grow (`RoundsGrow`), stay within every closed set (`RoundsLeast`), and have stopped growing after as many rounds
as there are paths, by the pigeonhole principle (`RoundsEnd`). That the recursive function of the rounds exists at all is `RoundsExist`, from the
well-ordering of the naturals. `AffectedAssumption` says the paths are finite, the builds not empty, and scopes sets of paths.

### `GovernanceProofs`

`Sound` describes the locals of a verb, nineteen kinds of them, by the step it has reached: what it has still to write
fits its chain (`Writing`), how its two reads of the chart lie in the order of updates (`Charting`), what it has found of approvals, evidence
and vetoes (`Heeding`), and how far its walk over the ancestors has come (`Walking`: of what was popped nothing is vetoed
and the parents of all that could be read were pushed, so an empty work list means all ancestors but those behind a change that was not read). Decisions are notes and notes only grow (`Grew`), so what was
found stays. `Pinned` ties an artifact that is listed to its pin or to a verb that is about to write it. `CallsAssumption` says
that a run's calls are among those the verbs can be given, and that the model values for a ticket, a claim and a change differ.

### Only model-checked

- Liveness (`CallsReturn`, `RunReturns`, `ExpiryRevokes`, `Converges`): liveness under fairness is out of the prover's reach.
- `SerialInRank` folds over a sequence computed by sorting; what a fold computes is shown by induction over data.
- `MergedLines` is about what `lcsPairs`, the ancestor walk and the virtual base compute, recursive functions all three: induction over data
  again. They are functions and not recursive operators so that `Workcopy` can be proved about.

## Met while modelling

The properties above are what the code keeps. Where a comment or document promises more, the
property says what remains true, and here is what does not. None of these has a run of its own.

Excluded by name from a property:

- *Specifier cache, extension* (`Affected`, `twin`). The key (`graph.go:102`, `graph.go:192`) is the text, the module and the
  build, not the extension that chooses the built-in extractor. A text that is analyzed as `.rb` and then
  committed as `.js` keeps the analysis of the first, under complete coverage, although
  `graph.go:192` says every component is in the key and `core/graph.go:58` says an incremental and a fresh answer agree.
- *Specifier cache, path* (`Affected`, `twin`). A module is given the path (`wasmanalyze.go:28`), the key does not have it: two
  files of one text share what the module made of the first, although `wasmanalyze.go:21` calls the output content-only and
  its caching sound.
- *Specifier cache, build* (`Affected`, `stray`). The key's build is a hash of the file at the executable's path, taken on first use
  (`graph.go:221`). A process that was started before an upgrade and hashes after it files the old extractors' answers under
  the new build, and every later query believes them, although `graph.go:213` calls the hash the running binary's own and
  `core/affected.go:276` says a stale entry is never trusted. Builds that cannot be hashed share one name (`unknownExtractor`).
- *Specifier cache, torn entry* (`Affected`, `torn`). `DiskCache.Put` truncates and writes (`cache.go:71`). A
  reader in between, or a kill, makes an empty entry, which means "no dependencies" to every later query.
- *Local revision under the connector* (`Bridge`, `raced`). A revision made between the connector's read of the
  head and its own revision is gone over, although `TICKETS.md:629` says the tracker loses.
- *Echo* (`Bridge`, `Converges`). `LastPulled` (`bridge.go:255`) also drops an edit that returns the row to the
  text pulled last, although it is no round trip (`TICKETS.md:444` asks to drop no-op round trips): row and
  ticket then stay apart.
- *Repeated attestation* (`ResyncIdempotent` allows one per kill and per link write lost): the attestation comes before the
  watermark (`bridge.go:317`), and the link note is read, changed and written without a check.
- *Org chart* (`ChartSerial`). `update` resolves the ref for the swap and again for the contents
  (`principal.go:155`, `principal.go:159`); when the chart returns to a former value in between, an entry removed comes
  back. Its comment says a concurrent writer retries; it is refused.
- *Artifact listed before it is pinned* (`ArtifactsReadable`, `torn`): `artifact.go:65`, then `artifact.go:68`; after a kill in between a
  collection takes the object, and `Artifacts` fails for the whole ticket (`artifact.go:131`).
- *Same-second edit* (`ProposesTheDirectory`, `raced`). The index is stamped when it is saved (`scan.go:70`), not when the scan
  began: a file rewritten after its hashing, in its second, with a save in a later one, is never looked at again. So is a file moved
  onto a hashed path with the inode that path had, made in the same second: `mv` keeps the time. `scan.go:31` says the cache
  never changes a result. The proof demanded the second case, which takes more edits than the run has.
- *Files left behind* (`OwnEditsOnly`, `left`). `Checkout` removes nothing (`worktree.go:93`), so what a merge deleted the next commit
  adds again.
- *Commit over another base* (`OwnEditsOnly`, `based`). Nothing records which change the directory came from: a commit after
  a checkout of another change, or after a promotion elsewhere, reverts what lies between (`main.go:445`).
- *An empty claim* (`HeldConflictFree` runs with claims that all name something). `sameClaim` (`lock.go:125`) compares joined
  prefixes; no prefix and the prefix `""` both join to `""`, so releasing the one releases a claim on everything.
- *A nonce forgotten early* (`OnceBeforeNotAfter`). The guards drop it at `not_after` (`replay.go:86`), the expiry check accepts until
  `not_after` plus skew (`verify.go:92`), although `replay.go:15` says the check rejects the update by then.
- *A nonce never remembered* (`OnceBeforeNotAfter`, `Dated`). An update whose `not_after` is 0 never expires (`verify.go:92`), but the guards
  see in 0 a time that has passed (`replay.go:37`, `replay.go:86`) and drop it at the next check: it is accepted again whenever the
  ref is back at its `expected_old`. `AUTH.md:113` says a repeat is rejected, and `replay.go:15` that what is forgotten has expired.
  `AppliedAsSigned` still holds of each application. The run's instance has such an update, and without the exclusion the property fails there.
- *A veto behind an unreadable change* (`PromotionHeeds`, `unread`). `PromotionBlocked` passes over a change it cannot read, with all its
  ancestors (`status.go:149`); its comment leaves that to "the closure check on promotion", and `spec promote` makes none
  (`spec.go:308`).
- *A tip leased unchecked* (`ShownStillThere`, `Undisturbed`). `promote` resolves the ref for the staleness check
  and again for the lease (`promote.go:93`, `promote.go:203`).
- *Unknown object types* (`Unknown` is empty in the run). Marking follows `Links`, which is empty for a type the build does not know
  (`gc.go:130`), although `links.go:12` says a collector must never assume so.

In decisions and promotions: `varvig promote` looks at vetoes on the fulfilled revision only, not on the change or its
ancestors, while `TICKETS.md:297`, `TICKETS.md:555` and `README.md:338` say a veto blocks promotion; `VetoGate` is applied by `spec promote`
alone, which in turn does not ask whether the fulfilled revision is approved. The evidence `check` records is always for the
change's own tree, so `Promotion` never answers `Stale` through the verb. `assert promote` does not apply the rule that
ties strength to kind, and `Derive` is fed by `Verify`, not `VerifyWithPrincipal`. A superseded revision's scope still blocks its own
ticket (`deps.Blockers`). `PutOnce` looks and then writes, so two at once write twice. Nudge lookups are keyed by revision, the link by ticket
(`score/extract.go`). In merges: a change of mode alone is dropped; deleting an empty file against adding lines to it is a
clean merge that keeps it; a file and a directory of one name both enter the tree; a conflict resolved by hand is committed
without the second parent; `cmdMerge` does not look whether theirs is merged already; with three bases the virtual
base is empty. In queries: importers of a file that was removed are not affected, since the graph is of the new tree;
`SetHook` reads the manifest and then resolves the ref again (`manifest.go:42`), so one of two registrations at once is lost; two
helpers disagree on the extension of a dotfile.

Elsewhere: a swap whose reflog line cannot be
appended has moved the ref (`refs.go:119`), although the repository's README says every move
is recorded; `spec.Add` can erase a score given between its look and its write
(`spec.go:65`), although its comment calls it safe for concurrent callers; the gate records
the root of the tree with every listing and every file read, so a task that read one file is
stale after any change anywhere, although `promote.go:90` says a path the change never read
does not block; a proposal of the `propose` command carries no reads and is never stale, and
a promotion is not required to descend from the tip it replaces; the audit line carries a value resolved
before the lock (`reflog.go:57`); `List` may return a temporary file as a ref
(`refs.go:135`); `Verify` reports an infrastructure failure of the swap as a conflict
(`verify.go:137`); edges outlive a prune that is interrupted (`spec.go:178`); `notes.Add`
does not retry although its comment says a racing writer does (`notes.go:65`); a pin is
granted for an object whose closure is missing (`p2p.go:258`); a note on an object that is
not whole makes every fetch of that note fail (`p2p.go:165`); `Daemon.Close` leaves the
credential table (`daemon.go:243`).

## Not modelled

Byte formats (`object`'s codec, `multihash`, `gitobj`, `sshkey`, `wire`'s frames): what
matters of them is that an identity determines a content, and that is built in;
their round trips are covered by the repository's golden vectors. Cryptography: a
signature is the fact of who signed. WebAssembly and external commands: their answer is
a nondeterministic choice, or a table for analyzers. Floating-point scores: small numbers. Read-only HTTP
queries (`readapi`), rendering, argument parsing: no state. `gitport` translates objects one after the other and
writes refs at the end; nothing runs beside it. The server's pin handlers (quota, re-pin), task records and
markers of daemon checkouts, and the gate's handling of directly named hashes are left for later.
`PROJECT.json` gives the reason per component.

## Plan

Modelled so far: `RefRegister`, `RefStore`, `Txn`, `RefUpdate`, `Retention`, `Sync`, `Daemon`, `Promotion`, `Bridge`,
`Governance`, `Merge`, `Workcopy`, `Affected`. Proved about: all of them, of `Merge` only
that it makes trees of trees.

Next theorems: an abstract specification of `Txn` as a sequence of serial steps, with its chain of commits as the mapping, would make
`CommitsSerial` a refinement.

Next modules: the pin handlers of `p2p` (a pinned object is whole; the quota race), the task records of `core`
(`RecordTask` rewrites one file without a lock), `gitport`.

## Running

    tlc -workers 2 -config RefStoreCalls.cfg RefStore
    tlc -workers 2 -config TxnBatch.cfg MCTxn
    tlc -workers 2 -config WorkcopyVerbs.cfg MCWorkcopy
    tlapm RefStoreProofs.tla        (and the other seven *Proofs modules)

Every run's module and configuration are in `PROJECT.json`, next to the mutant of the
model that each property is shown to catch.
