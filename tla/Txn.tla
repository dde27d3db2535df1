-------------------------------- MODULE Txn --------------------------------
(* Package txn (internal/txn): the transaction scheduler.  Each transaction
   declares path prefixes it reads and writes; Run ranks the batch, lets a
   transaction start once every lower-ranked transaction it conflicts with is
   over, and runOne derives from the ref's tip, applies, commits by
   compare-and-swap and re-derives when it loses.  Paths are sequences of
   segments, so that "a covers a/b" is the prefix relation.  The ref is the
   atomic register of RefRegister; its history is kept as the chain of changes
   it has pointed at.                                                       *)
EXTENDS Naturals, Integers, FiniteSets, Sequences

CONSTANTS N,            \* number of transactions
          Paths,        \* the concrete files
          Decls,        \* the transactions a batch may be made of
          Batches,      \* names of the Run calls sharing the scheduler
          Concurrency,  \* s.concurrency
          MaxAttempts,  \* s.maxAttempts
          ByPriority,   \* PriorityOrder or ScoreOrder rather than InputOrder
          MayCancel,    \* the context may be cancelled
          MaxExternal,  \* bound: moves of the ref by other processes
          MaxFaults     \* bound: ref store errors

Txns == 1 .. N

\* A sequence, whatever it holds.
IsSeq(s) == s \in Seq({s[k] : k \in DOMAIN s})

ASSUME TxnAssumption ==
    /\ N \in Nat
    /\ Concurrency \in Nat \ {0}
    /\ MaxAttempts \in Nat \ {0}
    /\ ByPriority \in BOOLEAN
    /\ MayCancel \in BOOLEAN
    /\ MaxExternal \in Nat
    /\ MaxFaults \in Nat
    \* reads, writes: normalized prefixes; touch, drop: what Apply writes and
    \* removes; sees: what it reads; fails: Apply returns an error of its own.
    /\ \A d \in Decls : /\ DOMAIN d = {"reads", "writes", "sees", "touch", "drop",
                                       "fails", "prio", "batch"}
                        /\ d.sees \subseteq Paths
                        /\ d.touch \subseteq Paths
                        /\ d.drop \subseteq Paths
                        /\ d.batch \in Batches
    /\ \A q \in Paths \cup UNION {d.reads \cup d.writes : d \in Decls} : IsSeq(q)

VARIABLES
    txn,        \* txn[i]: the declaration of transaction i
    pc,         \* pc[i]: where its goroutine stands
    slots,      \* slots[b]: entries in the sem channel of Run b
    held,       \* lm.held, in the order of admission
    base,       \* base[i]: the tip i derived from, 0 for no tip
    tree,       \* tree[i]: the files i is about to commit
    attempts,   \* attempts[i]
    res,        \* res[i]: the result
    observed,   \* observed[i]: Result.Writes
    chain,      \* the changes the ref has pointed at, oldest first
    cancelled,  \* cancelled[b]: the context of Run b is done
    faults

vars == <<txn, pc, slots, held, base, tree, attempts, res, observed, chain,
          cancelled, faults>>

-----------------------------------------------------------------------------
(* Claims and conflicts.                                                    *)

\* pathCovers: the whole repository (the empty prefix), the path itself or an
\* ancestor directory of it.
pathCovers(a, b) == Len(a) <= Len(b) /\ SubSeq(b, 1, Len(a)) = a

\* Mutant: only equal prefixes overlap.
overlapEqual(a, b) == a = b

overlap(a, b) == pathCovers(a, b) \/ pathCovers(b, a)

setsOverlap(as, bs) == \E a \in as, b \in bs : overlap(a, b)

conflicts(x, y) == \/ setsOverlap(x.writes, y.writes)
                   \/ setsOverlap(x.writes, y.reads)
                   \/ setsOverlap(x.reads, y.writes)

Claim(i) == [reads |-> txn[i].reads, writes |-> txn[i].writes]

\* strings.Join of a prefix set: no prefix at all and the empty prefix alone
\* both give the empty string.
Joined(s) == IF s = {<<>>} THEN {} ELSE s

sameClaim(a, b) == Joined(a.reads) = Joined(b.reads) /\ Joined(a.writes) = Joined(b.writes)

inScope(p, prefixes) == \E q \in prefixes : pathCovers(q, p)

readable(i, p) == inScope(p, txn[i].reads) \/ inScope(p, txn[i].writes)

-----------------------------------------------------------------------------
(* The admission order.                                                     *)

\* The position in the order is the number of transactions before: higher
\* priority first under PriorityOrder (Score under ScoreOrder), then the name
\* and the index, which i stands for; only the index under InputOrder.
Before(i, j) == IF ByPriority /\ txn[i].prio # txn[j].prio
                THEN txn[i].prio > txn[j].prio
                ELSE i < j

rank(i) == Cardinality({j \in Txns : txn[j].batch = txn[i].batch /\ Before(j, i)})

\* The transactions of the same Run that i waits for.
isPred(j, i) == /\ txn[j].batch = txn[i].batch
                /\ conflicts(Claim(i), Claim(j))
                /\ rank(j) < rank(i)

preds(i) == {j \in Txns \ {i} : isPred(j, i)}

-----------------------------------------------------------------------------
(* Trees.  A file's content is what its writer saw, so that two different
   orders of conflicting work can be told apart; <<>> is an absent file.    *)

NoFiles == [p \in Paths |-> <<>>]

FilesAt(k) == IF k = 0 THEN NoFiles ELSE chain[k].files

\* finalize: the pending writes and removals over the base.
Effect(i, f) == [p \in Paths |->
                   IF p \in txn[i].drop THEN <<>>
                   ELSE IF p \in txn[i].touch THEN <<i, [q \in txn[i].sees |-> f[q]]>>
                   ELSE f[p]]

Written(i) == txn[i].touch \cup txn[i].drop

Change(who, k, f) == [by |-> who, parent |-> k, files |-> f]

tip == Len(chain)

\* The changes other processes made.
Foreign == {k \in DOMAIN chain : chain[k].by = 0}

-----------------------------------------------------------------------------
PCs == {"preds", "sem", "acquire", "waiting", "attempt", "apply", "commit",
        "backoff", "release", "leave", "done"}

Results == {"none", "committed", "noop", "error", "cancelled", "exhausted"}

Running == {"attempt", "apply", "commit", "backoff", "release"}

\* Every variable holds a value of the kind the code keeps there.
TypeOK ==
    /\ txn \in [Txns -> Decls]
    /\ pc \in [Txns -> PCs]
    /\ slots \in [Batches -> 0 .. Concurrency]
    /\ held \in Seq({Claim(i) : i \in Txns})
    /\ base \in [Txns -> 0 .. Len(chain)]
    /\ DOMAIN tree = Txns /\ \A i \in Txns : DOMAIN tree[i] = Paths
    /\ attempts \in [Txns -> 0 .. MaxAttempts]
    /\ res \in [Txns -> Results]
    /\ observed \in [Txns -> SUBSET Paths]
    /\ IsSeq(chain)
    /\ \A k \in DOMAIN chain : /\ chain[k].by \in Txns \cup {0}
                               /\ chain[k].parent \in 0 .. Len(chain)
                               /\ DOMAIN chain[k].files = Paths
    /\ cancelled \in [Batches -> BOOLEAN]
    /\ faults \in 0 .. MaxFaults

Init ==
    /\ txn \in [Txns -> Decls]
    /\ pc = [i \in Txns |-> "preds"]
    /\ slots = [b \in Batches |-> 0]
    /\ held = <<>>
    /\ base = [i \in Txns |-> 0]
    /\ tree = [i \in Txns |-> NoFiles]
    /\ attempts = [i \in Txns |-> 0]
    /\ res = [i \in Txns |-> "none"]
    /\ observed = [i \in Txns |-> {}]
    /\ chain = <<>>
    /\ cancelled = [b \in Batches |-> FALSE]
    /\ faults = 0

Goto(i, l) == pc' = [pc EXCEPT ![i] = l]

Finish(i, l, r) == Goto(i, l) /\ res' = [res EXCEPT ![i] = r]

\* ctx.Err() # nil for the Run of i.
Done(i) == cancelled[txn[i].batch]

-----------------------------------------------------------------------------
(* Run: one goroutine per transaction.                                      *)

\* The done channels of all predecessors are closed.
WaitPreds(i) ==
    /\ pc[i] = "preds"
    /\ \A j \in preds(i) : pc[j] = "done"
    /\ Goto(i, "sem")
    /\ UNCHANGED <<txn, slots, held, base, tree, attempts, res, observed, chain,
                   cancelled, faults>>

\* A slot of the Run's semaphore.
TakeSlot(i) ==
    /\ pc[i] = "sem"
    /\ slots[txn[i].batch] < Concurrency
    /\ slots' = [slots EXCEPT ![txn[i].batch] = @ + 1]
    /\ Goto(i, "acquire")
    /\ UNCHANGED <<txn, held, base, tree, attempts, res, observed, chain,
                   cancelled, faults>>

\* ctx.Done() in either select.
Abandon(i) ==
    /\ pc[i] \in {"preds", "sem"}
    /\ Done(i)
    /\ Finish(i, "done", "cancelled")
    /\ UNCHANGED <<txn, slots, held, base, tree, attempts, observed, chain,
                   cancelled, faults>>

\* The deferred receive from sem, then close(done[i]).
Leave(i) ==
    /\ pc[i] = "leave"
    /\ slots' = [slots EXCEPT ![txn[i].batch] = @ - 1]
    /\ Goto(i, "done")
    /\ UNCHANGED <<txn, held, base, tree, attempts, res, observed, chain,
                   cancelled, faults>>

-----------------------------------------------------------------------------
(* The lock manager.                                                        *)

\* Mutant: only the claim admitted last is looked at.
anyConflictLast(c) == held # <<>> /\ conflicts(held[Len(held)], c)

anyConflict(c) == \E k \in DOMAIN held : conflicts(held[k], c)

\* One turn of acquire's loop under the mutex: give up, take the claim, or wait
\* on the condition variable.
acquire(i) ==
    /\ pc[i] = "acquire"
    /\ \/ Done(i) /\ Finish(i, "leave", "cancelled") /\ UNCHANGED held
       \/ /\ ~Done(i) /\ ~anyConflict(Claim(i))
          /\ held' = Append(held, Claim(i))
          /\ Goto(i, "attempt")
          /\ UNCHANGED res
       \/ ~Done(i) /\ anyConflict(Claim(i)) /\ Goto(i, "waiting") /\ UNCHANGED <<held, res>>
    /\ UNCHANGED <<txn, slots, base, tree, attempts, observed, chain, cancelled, faults>>

\* The claim dropped by release(c): the first that sameClaim accepts.
FirstSame(c) ==
    {k \in DOMAIN held : sameClaim(held[k], c) /\ \A l \in 1 .. k - 1 : ~sameClaim(held[l], c)}

Without(k) == SubSeq(held, 1, k - 1) \o SubSeq(held, k + 1, Len(held))

\* Mutant: release does not broadcast.
releaseSilently(i) ==
    /\ pc[i] = "release"
    /\ IF FirstSame(Claim(i)) = {} THEN UNCHANGED held
       ELSE \E k \in FirstSame(Claim(i)) : held' = Without(k)
    /\ Goto(i, "leave")
    /\ UNCHANGED <<txn, slots, base, tree, attempts, res, observed, chain,
                   cancelled, faults>>

\* release: drop the claim and wake every waiter.
release(i) ==
    /\ pc[i] = "release"
    /\ IF FirstSame(Claim(i)) = {} THEN UNCHANGED held
       ELSE \E k \in FirstSame(Claim(i)) : held' = Without(k)
    /\ pc' = [j \in Txns |-> IF j = i THEN "leave"
                             ELSE IF pc[j] = "waiting" THEN "acquire" ELSE pc[j]]
    /\ UNCHANGED <<txn, slots, base, tree, attempts, res, observed, chain,
                   cancelled, faults>>

-----------------------------------------------------------------------------
(* runOne: one turn of the attempt loop is derive, apply, commit.           *)

\* The loop condition, the context check and the reading of the tip and its tree.
Derive(i) ==
    /\ pc[i] = "attempt"
    /\ \/ /\ attempts[i] >= MaxAttempts
          /\ Finish(i, "release", "exhausted")
          /\ UNCHANGED <<attempts, base>>
       \/ /\ attempts[i] < MaxAttempts /\ Done(i)
          /\ attempts' = [attempts EXCEPT ![i] = @ + 1]
          /\ Finish(i, "release", "cancelled")
          /\ UNCHANGED base
       \/ /\ attempts[i] < MaxAttempts /\ ~Done(i)
          /\ attempts' = [attempts EXCEPT ![i] = @ + 1]
          /\ base' = [base EXCEPT ![i] = tip]
          /\ Goto(i, "apply")
          /\ UNCHANGED res
    /\ UNCHANGED <<txn, slots, held, tree, observed, chain, cancelled, faults>>

\* Every access of Apply stays within the declared sets.
InScope(i) == /\ \A p \in txn[i].sees : readable(i, p)
              /\ \A p \in Written(i) : inScope(p, txn[i].writes)

\* Apply on a workspace over the base: an error of its own or of the workspace,
\* no change at all, or a new tree to commit.
Apply(i) ==
    /\ pc[i] = "apply"
    /\ \/ /\ txn[i].fails \/ ~InScope(i)
          /\ Finish(i, "release", "error")
          /\ UNCHANGED <<tree, observed>>
       \/ /\ ~txn[i].fails /\ InScope(i) /\ Written(i) = {}
          /\ Finish(i, "release", "noop")
          /\ UNCHANGED <<tree, observed>>
       \/ /\ ~txn[i].fails /\ InScope(i) /\ Written(i) # {}
          /\ observed' = [observed EXCEPT ![i] = Written(i)]
          /\ tree' = [tree EXCEPT ![i] = Effect(i, FilesAt(base[i]))]
          /\ Goto(i, "commit")
          /\ UNCHANGED res
    /\ UNCHANGED <<txn, slots, held, base, attempts, chain, cancelled, faults>>

\* CompareAndSwap from the base to the new change; a conflict goes round again.
Commit(i) ==
    /\ pc[i] = "commit"
    /\ IF tip = base[i]
         THEN /\ chain' = Append(chain, Change(i, base[i], tree[i]))
              /\ Finish(i, "release", "committed")
         ELSE /\ Goto(i, "backoff")
              /\ UNCHANGED <<chain, res>>
    /\ UNCHANGED <<txn, slots, held, base, tree, attempts, observed, cancelled, faults>>

\* Mutant: any error of the ref store is taken for a conflict.
CommitErrorRetry(i) ==
    /\ pc[i] = "commit"
    /\ faults < MaxFaults
    /\ faults' = faults + 1
    /\ \/ UNCHANGED chain
       \/ tip = base[i] /\ chain' = Append(chain, Change(i, base[i], tree[i]))
    /\ Goto(i, "backoff")
    /\ UNCHANGED <<txn, slots, held, base, tree, attempts, res, observed, cancelled>>

\* Any other error of the ref store is final.  The ref may have moved all the
\* same: its reflog line is written after it.
CommitError(i) ==
    /\ pc[i] = "commit"
    /\ faults < MaxFaults
    /\ faults' = faults + 1
    /\ \/ UNCHANGED chain
       \/ tip = base[i] /\ chain' = Append(chain, Change(i, base[i], tree[i]))
    /\ Finish(i, "release", "error")
    /\ UNCHANGED <<txn, slots, held, base, tree, attempts, observed, cancelled>>

\* Mutant: a retry commits the tree it already has.
BackoffNoDerive(i) ==
    /\ pc[i] = "backoff"
    /\ base' = [base EXCEPT ![i] = tip]
    /\ Goto(i, "commit")
    /\ UNCHANGED <<txn, slots, held, tree, attempts, res, observed, chain,
                   cancelled, faults>>

\* The select between the context and the backoff timer.
Backoff(i) ==
    /\ pc[i] = "backoff"
    /\ \/ Done(i) /\ Finish(i, "release", "cancelled")
       \/ Goto(i, "attempt") /\ UNCHANGED res
    /\ UNCHANGED <<txn, slots, held, base, tree, attempts, observed, chain,
                   cancelled, faults>>

-----------------------------------------------------------------------------
(* The environment.                                                         *)

Cancel(b) ==
    /\ MayCancel
    /\ ~cancelled[b]
    /\ cancelled' = [cancelled EXCEPT ![b] = TRUE]
    /\ UNCHANGED <<txn, pc, slots, held, base, tree, attempts, res, observed, chain, faults>>

\* Another process moves the ref: it rewrites one file.
External(p) ==
    /\ Cardinality(Foreign) < MaxExternal
    /\ chain' = Append(chain, Change(0, tip, [FilesAt(tip) EXCEPT ![p] = <<0>>]))
    /\ UNCHANGED <<txn, pc, slots, held, base, tree, attempts, res, observed,
                   cancelled, faults>>

Step(i) == \/ WaitPreds(i) \/ TakeSlot(i) \/ Abandon(i) \/ Leave(i)
           \/ acquire(i) \/ release(i)
           \/ Derive(i) \/ Apply(i) \/ Commit(i) \/ CommitError(i) \/ Backoff(i)

\* Run has returned.
Finished == (\A i \in Txns : pc[i] = "done") /\ UNCHANGED vars

Next == \/ \E i \in Txns : Step(i)
        \/ \E b \in Batches : Cancel(b)
        \/ \E p \in Paths : External(p)
        \/ Finished

Spec == Init /\ [][Next]_vars

\* Goroutines keep running; nothing makes the caller cancel or others write.
FairSpec == Spec /\ \A i \in Txns : WF_vars(Step(i))

-----------------------------------------------------------------------------
(* Properties.                                                              *)

\* Changes are totally ordered and each is exactly what its transaction makes
\* of the change before it: however commits interleave, nobody's work is built
\* on, or overwrites, a state it has not seen (strict serializability).
CommitsSerial ==
    \A k \in DOMAIN chain :
       /\ chain[k].parent = k - 1
       /\ chain[k].by # 0 => chain[k].files = Effect(chain[k].by, FilesAt(k - 1))

\* A transaction takes effect at most once, whatever it retries, and if it
\* reports a commit it took effect.
OnceEach ==
    \A i \in Txns :
       /\ Cardinality({k \in DOMAIN chain : chain[k].by = i}) <= 1
       /\ res[i] = "committed" => \E k \in DOMAIN chain : chain[k].by = i
       /\ res[i] \in {"noop", "cancelled", "exhausted"} => \A k \in DOMAIN chain : chain[k].by # i

\* Of two conflicting transactions of one Run the lower-ranked takes effect
\* first, whichever goroutine is faster.
RankOrder ==
    \A l \in DOMAIN chain, k \in DOMAIN chain :
       l < k /\ {chain[l].by, chain[k].by} \subseteq Txns /\ chain[l].by # chain[k].by
         => ~isPred(chain[k].by, chain[l].by)

\* The lock manager admits no two conflicting transactions at a time.
HeldConflictFree ==
    \A i, j \in Txns : i # j /\ pc[i] \in Running /\ pc[j] \in Running
                         => ~conflicts(Claim(i), Claim(j))

\* The reports agree with each other: what a successful transaction wrote lies
\* within its declaration (Drift finds no undeclared write), and every observed
\* overlap lies within a declared one.
prefixIntersection(as, bs) ==
    {IF pathCovers(x[1], x[2]) THEN x[2] ELSE x[1] : x \in {y \in as \X bs : overlap(y[1], y[2])}}

WroteUndeclared(i) == {p \in observed[i] : ~inScope(p, txn[i].writes)}

ObservedOverlaps(i, j) == observed[i] \cap observed[j]

ReportsAgree ==
    \A i \in Txns :
       /\ WroteUndeclared(i) = {}
       /\ \A j \in Txns \ {i} : \A p \in ObservedOverlaps(i, j) :
             inScope(p, prefixIntersection(txn[i].writes, txn[j].writes))

\* Losing the swap means somebody else won it: a transaction runs out of
\* attempts only if the others of its batch and other processes moved the ref
\* that often while it tried.
NobodyExhausted ==
    (N - 1) + Cardinality(Foreign) < MaxAttempts => \A i \in Txns : res[i] # "exhausted"

\* What Run promises of a batch (txn.go): commits are serial and in rank order, the
\* reports of what was touched agree with the declarations, and no attempt is lost to
\* anything but somebody else's progress.
SerialInv == TypeOK /\ CommitsSerial /\ RankOrder /\ ReportsAgree /\ NobodyExhausted

\* Every transaction ends and Run returns, also when the context is cancelled
\* while some wait for a predecessor, a slot or a claim.
RunReturns == <>(\A i \in Txns : pc[i] = "done")
=============================================================================
