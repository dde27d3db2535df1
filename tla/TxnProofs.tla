----------------------------- MODULE TxnProofs -----------------------------
(* Machine-checked proofs about Txn, for batches of any size, any declarations
   and any number of workers, attempts, foreign writes and faults.           *)
EXTENDS Txn, FiniteSetTheorems, SequenceTheorems, TLAPS

\* i has taken effect.
In(i) == \E k \in DOMAIN chain : chain[k].by = i

\* The transactions of a Run that hold one of its slots.
Slotted(b) == {i \in Txns : txn[i].batch = b /\ pc[i] \notin {"preds", "sem", "done"}}

SlotsCounted == \A b \in Batches : slots[b] = Cardinality(Slotted(b))

\* Before it has ended, a transaction has no result and no effect; afterwards the result says
\* whether it has had one, and it has never had two.
Ending(i) ==
    /\ pc[i] \notin {"release", "leave", "done"} => res[i] = "none" /\ ~In(i)
    /\ res[i] = "committed" => In(i)
    /\ res[i] \in {"noop", "cancelled", "exhausted"} => ~In(i)
    /\ \A k, l \in DOMAIN chain : chain[k].by = i /\ chain[l].by = i => k = l

\* What is about to be committed was made of the base.
Derived(i) == pc[i] = "commit" => tree[i] = Effect(i, FilesAt(base[i]))

\* Each attempt but the last was lost to a change of its own.
Losing(i) ==
    /\ pc[i] \in {"preds", "sem", "acquire", "waiting"} => attempts[i] = 0
    /\ pc[i] \in {"attempt", "backoff"} => attempts[i] <= Len(chain)
    /\ pc[i] \in {"apply", "commit"} => attempts[i] <= base[i] + 1
    /\ res[i] = "exhausted" => MaxAttempts <= Len(chain)

\* Whoever has started has seen its predecessors end.
Following(i) ==
    pc[i] \notin {"preds", "done"} \/ In(i) => \A j \in preds(i) : pc[j] = "done"

\* What was written lies within the declaration.
Declared(i) == \A p \in observed[i] : p \in Paths /\ inScope(p, txn[i].writes)

Sound(i) == Ending(i) /\ Derived(i) /\ Losing(i) /\ Following(i) /\ Declared(i)

\* The inductive invariant.
IInv == /\ TypeOK /\ SlotsCounted
        /\ \A i \in Txns : Sound(i)
        /\ CommitsSerial /\ RankOrder

\* The claims that release tells apart: of two declarations that strings.Join renders alike, none
\* is empty where the other names the whole repository.
ClaimsNamed ==
    \A d, e \in Decls : sameClaim(d, e) => d.reads = e.reads /\ d.writes = e.writes

Active == {i \in Txns : pc[i] \in Running}

\* Every running transaction has an entry of its own among the claims held.
Holding ==
    \E f \in [Active -> DOMAIN held] :
       /\ \A i, j \in Active : f[i] = f[j] => i = j
       /\ \A i \in Active : held[f[i]] = Claim(i)

HInv == IInv /\ Holding /\ HeldConflictFree

-----------------------------------------------------------------------------
(* The chain.                                                               *)

\* The chain is a sequence of whatever it holds.
LEMMA ChainIs ==
  ASSUME TypeOK
  PROVE  Len(chain) \in Nat /\ DOMAIN chain = 1 .. Len(chain)
BY LenProperties DEF TypeOK, IsSeq

\* t is s with x at its end.
Extends(s, x, t) ==
    /\ Len(s) \in Nat /\ Len(t) = Len(s) + 1
    /\ DOMAIN s = 1 .. Len(s) /\ DOMAIN t = 1 .. Len(s) + 1
    /\ \A k \in 1 .. Len(s) : t[k] = s[k]
    /\ t[Len(s) + 1] = x
    /\ IsSeq(t)

\* Append makes such a sequence.
LEMMA AppendIs ==
  ASSUME NEW s, IsSeq(s), NEW x, NEW t, t = Append(s, x)
  PROVE  Extends(s, x, t)
<1> DEFINE S == {s[k] : k \in DOMAIN s} \cup {x}
<1>1. s \in Seq(S) /\ x \in S
  <2>1. {s[k] : k \in DOMAIN s} \subseteq S
    OBVIOUS
  <2> QED
    BY <2>1, SeqMonotonic DEF IsSeq
<1> HIDE DEF S
<1>2. /\ t \in Seq(S) /\ Len(t) = Len(s) + 1 /\ t[Len(s) + 1] = x
      /\ \A k \in 1 .. Len(s) : t[k] = s[k]
  BY <1>1, AppendProperties
<1>3. /\ Len(s) \in Nat /\ DOMAIN s = 1 .. Len(s)
      /\ Len(t) \in Nat /\ DOMAIN t = 1 .. Len(t) /\ t \in [1 .. Len(t) -> S]
  BY <1>1, <1>2, LenProperties
<1>4. IsSeq(t)
  <2>1. t \in [1 .. Len(t) -> {t[k] : k \in DOMAIN t}]
    BY <1>3
  <2> QED
    BY <1>3, <2>1 DEF IsSeq
<1> QED
  BY <1>2, <1>3, <1>4 DEF Extends

\* The chain keeps what it has, and its new changes are nothing of j's.
Grows(j) ==
    /\ Len(chain) <= Len(chain')
    /\ \A k \in DOMAIN chain : k \in DOMAIN chain' /\ chain'[k] = chain[k]
    /\ \A k \in DOMAIN chain' : k \in DOMAIN chain \/ chain'[k].by # j

\* c is the chain's new change, and there was no other.
Appends(c) == chain' = Append(chain, c)

\* The chain after an append.
LEMMA Appended ==
  ASSUME TypeOK, NEW c, Appends(c)
  PROVE  /\ Len(chain') = Len(chain) + 1
         /\ DOMAIN chain = 1 .. Len(chain) /\ DOMAIN chain' = 1 .. Len(chain) + 1
         /\ Len(chain) \in Nat
         /\ \A k \in DOMAIN chain : chain'[k] = chain[k]
         /\ chain'[Len(chain) + 1] = c
         /\ IsSeq(chain')
<1>1. IsSeq(chain)
  BY DEF TypeOK
<1>2. PICK s, t : s = chain /\ t = chain'
  OBVIOUS
<1>3. IsSeq(s) /\ t = Append(s, c)
  BY <1>1, <1>2 DEF Appends
<1>4. Extends(s, c, t)
  BY <1>3, AppendIs
<1> QED
  BY <1>2, <1>4 DEF Extends

\* An append by somebody else is growth for j.
LEMMA AppendedGrows ==
  ASSUME TypeOK, NEW c, Appends(c), NEW j, c.by # j
  PROVE  Grows(j)
<1>1. \A k \in DOMAIN chain' : k \in DOMAIN chain \/ k = Len(chain) + 1
  BY Appended
<1> QED
  BY <1>1, Appended DEF Grows

\* So is no append at all.
LEMMA SameGrows ==
  ASSUME TypeOK, chain' = chain, NEW j
  PROVE  Grows(j)
BY ChainIs DEF Grows

\* The files of a change stay what they are.
LEMMA FilesStay ==
  ASSUME TypeOK, NEW j, Grows(j), NEW k \in 0 .. Len(chain)
  PROVE  FilesAt(k)' = FilesAt(k)
BY ChainIs DEF FilesAt, Grows

\* What a transaction makes of a state depends on its declaration only.
LEMMA EffectStays ==
  ASSUME txn' = txn, NEW i, NEW f
  PROVE  Effect(i, f)' = Effect(i, f)
BY DEF Effect

\* So does what it waits for.
LEMMA PredsStay ==
  ASSUME txn' = txn
  PROVE  /\ \A i, j : isPred(j, i)' = isPred(j, i)
         /\ \A i : preds(i)' = preds(i)
         /\ \A i : Claim(i)' = Claim(i)
<1>1. \A i : Claim(i)' = Claim(i)
  BY DEF Claim
<1>2. \A i : rank(i)' = rank(i)
  BY DEF rank, Before
<1>3. \A i, j : isPred(j, i)' = isPred(j, i)
  BY <1>1, <1>2 DEF isPred
<1> QED
  BY <1>1, <1>3 DEF preds

\* What a step leaves of a transaction that does not make it: it may be woken.
Leaves(j) ==
    /\ base'[j] = base[j] /\ tree'[j] = tree[j] /\ attempts'[j] = attempts[j]
    /\ res'[j] = res[j] /\ observed'[j] = observed[j]
    /\ pc'[j] = pc[j] \/ (pc[j] = "waiting" /\ pc'[j] = "acquire")

\* Who has ended stays so.
StayDone == txn' = txn /\ \A k \in Txns : pc[k] = "done" => pc'[k] = "done"

\* Nothing that is so of a transaction is undone by the steps of others.
LEMMA InStays ==
  ASSUME NEW j, Grows(j)
  PROVE  /\ In(j)' <=> In(j)
         /\ (\A k, l \in DOMAIN chain : chain[k].by = j /\ chain[l].by = j => k = l)
            => (\A k, l \in DOMAIN chain' : chain'[k].by = j /\ chain'[l].by = j => k = l)
BY DEF In, Grows

\* A result is not undone by others.
LEMMA EndingStays ==
  ASSUME NEW j \in Txns, Ending(j), Grows(j), Leaves(j)
  PROVE  Ending(j)'
BY InStays DEF Ending, Leaves

\* Nor is a tree that was made of its base.
LEMMA DerivedStays ==
  ASSUME TypeOK, NEW j \in Txns, Derived(j), Grows(j), Leaves(j), txn' = txn
  PROVE  Derived(j)'
<1>1. PICK k, f : k = base[j] /\ f = FilesAt(k)
  OBVIOUS
<1>2. k \in 0 .. Len(chain)
  BY <1>1 DEF TypeOK
<1>3. FilesAt(k)' = f
  BY <1>1, <1>2, FilesStay
<1>4. Effect(j, f)' = Effect(j, f)
  BY EffectStays
<1>5. pc'[j] = "commit" => tree'[j] = Effect(j, f)
  BY <1>1 DEF Derived, Leaves
<1>6. base'[j] = k
  BY <1>1 DEF Leaves
<1> QED
  BY <1>3, <1>4, <1>5, <1>6 DEF Derived

\* Nor an account of lost attempts.
LEMMA LosingStays ==
  ASSUME TypeOK, TypeOK', NEW j \in Txns, Losing(j), Grows(j), Leaves(j)
  PROVE  Losing(j)'
<1>1. /\ Len(chain) \in Nat /\ Len(chain') \in Nat /\ Len(chain) <= Len(chain')
      /\ attempts[j] \in Nat /\ MaxAttempts \in Nat
  BY ChainIs, TxnAssumption, LenProperties DEF TypeOK, Grows, IsSeq
<1> QED
  BY <1>1 DEF Losing, Leaves

\* Nor the end of a predecessor.
LEMMA FollowingStays ==
  ASSUME NEW j \in Txns, Following(j), Grows(j), Leaves(j), StayDone
  PROVE  Following(j)'
<1>1. preds(j)' = preds(j) /\ preds(j) \subseteq Txns
  BY PredsStay DEF StayDone, preds
<1>2. (pc'[j] \notin {"preds", "done"} \/ In(j)') => (pc[j] \notin {"preds", "done"} \/ In(j))
  BY InStays DEF Leaves
<1> QED
  BY <1>1, <1>2 DEF Following, StayDone

\* Nor a report.
LEMMA DeclaredStays ==
  ASSUME NEW j \in Txns, Declared(j), observed'[j] = observed[j], txn' = txn
  PROVE  Declared(j)'
BY DEF Declared

\* All that is so of a transaction stays so while others step.
LEMMA OthersStay ==
  ASSUME TypeOK, TypeOK', NEW j \in Txns, Sound(j), Grows(j), Leaves(j), StayDone
  PROVE  Sound(j)'
BY EndingStays, DerivedStays, LosingStays, FollowingStays, DeclaredStays DEF Sound, StayDone, Leaves

-----------------------------------------------------------------------------
(* What a transaction's own steps do.                                       *)

\* The change that i commits.
Own(i) == Change(i, base[i], tree[i])

\* i's swap succeeds: the tip is still the base.
Swaps(i) ==
    /\ pc[i] = "commit" /\ tip = base[i] /\ Appends(Own(i))
    /\ pc'[i] = "release" /\ res'[i] \in {"committed", "error"}

\* A step of i is its own; others are woken at most, and the chain changes by i's swap only.
LEMMA StepShape ==
  ASSUME TypeOK, NEW i \in Txns, Step(i)
  PROVE  /\ StayDone /\ pc[i] # "done" /\ cancelled' = cancelled
         /\ pc' \in [Txns -> PCs]
         /\ \A j \in Txns \ {i} : Leaves(j)
         /\ chain' = chain \/ Swaps(i)
<1>1. /\ pc \in [Txns -> PCs] /\ base \in [Txns -> 0 .. Len(chain)] /\ DOMAIN tree = Txns
      /\ attempts \in [Txns -> 0 .. MaxAttempts] /\ res \in [Txns -> Results]
      /\ observed \in [Txns -> SUBSET Paths]
  BY DEF TypeOK
<1>2. pc[i] # "done" /\ cancelled' = cancelled /\ txn' = txn
  BY DEF Step, WaitPreds, TakeSlot, Abandon, Leave, acquire, release, Derive, Apply, Commit, CommitError,
         Backoff
<1>3. \/ \E l \in PCs : pc' = [pc EXCEPT ![i] = l]
      \/ pc' = [j \in Txns |-> IF j = i THEN "leave" ELSE IF pc[j] = "waiting" THEN "acquire" ELSE pc[j]]
  <2>1. CASE release(i)
    BY <2>1 DEF release
  <2>2. CASE ~release(i)
    BY <2>2 DEF Step, WaitPreds, TakeSlot, Abandon, Leave, acquire, Derive, Apply, Commit, CommitError,
           Backoff, Goto, Finish, PCs
  <2> QED
    BY <2>1, <2>2
<1>4. /\ pc' \in [Txns -> PCs]
      /\ \A j \in Txns \ {i} : pc'[j] = pc[j] \/ (pc[j] = "waiting" /\ pc'[j] = "acquire")
  BY <1>1, <1>3 DEF PCs
<1>5. \A j \in Txns \ {i} :
         /\ base'[j] = base[j] /\ tree'[j] = tree[j] /\ attempts'[j] = attempts[j]
         /\ res'[j] = res[j] /\ observed'[j] = observed[j]
  BY <1>1 DEF Step, WaitPreds, TakeSlot, Abandon, Leave, acquire, release, Derive, Apply, Commit,
         CommitError, Backoff, Finish
<1>6. chain' = chain \/ Swaps(i)
  <2>1. CASE Commit(i)
    BY <1>1, <2>1 DEF Commit, Swaps, Own, Appends, Finish, Goto
  <2>2. CASE CommitError(i)
    BY <1>1, <2>2 DEF CommitError, Swaps, Own, Appends, Finish, Goto
  <2>3. CASE ~Commit(i) /\ ~CommitError(i)
    BY <2>3 DEF Step, WaitPreds, TakeSlot, Abandon, Leave, acquire, release, Derive, Apply, Backoff
  <2> QED
    BY <2>1, <2>2, <2>3
<1>7. StayDone
  BY <1>2, <1>4 DEF StayDone
<1> QED
  BY <1>2, <1>4, <1>5, <1>6, <1>7 DEF Leaves

\* The chain has what others have put there.
LEMMA StepGrows ==
  ASSUME TypeOK, NEW i \in Txns, Step(i)
  PROVE  /\ \A j \in Txns \ {i} : Grows(j)
         /\ chain' = chain => Grows(i)
<1>1. Own(i).by = i
  BY DEF Own, Change
<1>2. Swaps(i) => \A j \in Txns \ {i} : Grows(j)
  BY <1>1, AppendedGrows DEF Swaps
<1> QED
  BY <1>2, StepShape, SameGrows

\* The result tells whether the transaction has taken effect.
LEMMA EndingKept ==
  ASSUME TypeOK, NEW i \in Txns, Ending(i), Step(i)
  PROVE  Ending(i)'
<1>1. /\ pc \in [Txns -> PCs] /\ res \in [Txns -> Results]
  BY DEF TypeOK
<1>2. CASE Swaps(i)
  <2>1. ~In(i)
    BY <1>2 DEF Swaps, Ending
  <2>2. /\ Len(chain) \in Nat /\ DOMAIN chain = 1 .. Len(chain) /\ DOMAIN chain' = 1 .. Len(chain) + 1
        /\ \A k \in DOMAIN chain : chain'[k] = chain[k]
        /\ chain'[Len(chain) + 1] = Own(i)
    BY <1>2, Appended DEF Swaps
  <2>3. Own(i).by = i
    BY DEF Own, Change
  <2>4. Len(chain) + 1 \in DOMAIN chain' /\ \A k \in DOMAIN chain' : k \in DOMAIN chain \/ k = Len(chain) + 1
    BY <2>2
  <2>5. \A k \in DOMAIN chain' : chain'[k].by = i <=> k = Len(chain) + 1
    BY <2>1, <2>2, <2>3, <2>4 DEF In
  <2> QED
    BY <1>2, <2>4, <2>5 DEF Ending, In, Swaps
<1>3. CASE chain' = chain
  <2>1. In(i)' <=> In(i)
    BY <1>3 DEF In
  <2>2. \/ res'[i] = res[i] /\ (pc'[i] \notin {"release", "leave", "done"} => pc[i] \notin {"release", "leave", "done"})
        \/ /\ pc[i] \notin {"release", "leave", "done"}
           /\ pc'[i] \in {"release", "leave", "done"}
           /\ res'[i] \in {"noop", "cancelled", "exhausted", "error"}
    <3>1. CASE release(i)
      BY <1>1, <3>1 DEF release
    <3>2. CASE Commit(i) \/ CommitError(i)
      <4>1. chain # Append(chain, Own(i))
        <5>1. Appends(Own(i)) => Len(chain') = Len(chain) + 1 /\ Len(chain) \in Nat
          BY Appended
        <5> QED
          BY <1>3, <5>1 DEF Appends
      <4> QED
        BY <1>1, <1>3, <3>2, <4>1 DEF Commit, CommitError, Own, Goto, Finish
    <3>3. CASE ~release(i) /\ ~Commit(i) /\ ~CommitError(i)
      BY <1>1, <3>3 DEF Step, WaitPreds, TakeSlot, Abandon, Leave, acquire, Derive, Apply, Backoff, Goto,
             Finish
    <3> QED
      BY <3>1, <3>2, <3>3
  <2> QED
    BY <1>3, <2>1, <2>2 DEF Ending
<1> QED
  BY <1>2, <1>3, StepShape

\* Only Apply makes a tree to commit, of the base it has.
LEMMA DerivedKept ==
  ASSUME TypeOK, NEW i \in Txns, Derived(i), Step(i)
  PROVE  Derived(i)'
<1>1. /\ pc \in [Txns -> PCs] /\ DOMAIN tree = Txns
  BY DEF TypeOK
<1>2. pc'[i] = "commit" => Apply(i)
  BY <1>1 DEF Step, WaitPreds, TakeSlot, Abandon, Leave, acquire, release, Derive, Commit, CommitError,
         Backoff, Goto, Finish
<1>3. CASE Apply(i) /\ pc'[i] = "commit"
  <2>1. /\ tree'[i] = Effect(i, FilesAt(base[i]))
        /\ chain' = chain /\ base' = base /\ txn' = txn
    BY <1>1, <1>3 DEF Apply, Goto, Finish
  <2>2. PICK f : f = FilesAt(base[i])
    OBVIOUS
  <2>3. FilesAt(base[i])' = f
    BY <2>1, <2>2 DEF FilesAt
  <2>4. Effect(i, f)' = Effect(i, f)
    BY <2>1, EffectStays
  <2> QED
    BY <2>1, <2>2, <2>3, <2>4 DEF Derived
<1> QED
  BY <1>2, <1>3 DEF Derived

\* A turn of the loop is lost only when the tip has moved past the base.
LEMMA LosingKept ==
  ASSUME TypeOK, TypeOK', NEW i \in Txns, Losing(i), Step(i)
  PROVE  Losing(i)'
<1>1. /\ pc \in [Txns -> PCs] /\ attempts \in [Txns -> 0 .. MaxAttempts] /\ res \in [Txns -> Results]
      /\ base \in [Txns -> 0 .. Len(chain)] /\ Len(chain) \in Nat /\ MaxAttempts \in Nat \ {0}
  BY ChainIs, TxnAssumption DEF TypeOK
<1>2. Len(chain') \in Nat /\ Len(chain) <= Len(chain')
  BY <1>1, Appended, StepShape DEF Swaps
<1>3. CASE release(i) \/ WaitPreds(i) \/ TakeSlot(i) \/ Abandon(i) \/ Leave(i) \/ acquire(i)
  BY <1>1, <1>3 DEF release, WaitPreds, TakeSlot, Abandon, Leave, acquire, Goto, Finish, Losing
<1>4. CASE Derive(i)
  BY <1>1, <1>4 DEF Derive, Goto, Finish, Losing, tip
<1>5. CASE Apply(i) \/ Backoff(i)
  BY <1>1, <1>5 DEF Apply, Backoff, Goto, Finish, Losing
<1>6. CASE Commit(i) \/ CommitError(i)
  <2>1. /\ pc[i] = "commit" /\ attempts' = attempts /\ base' = base
        /\ \/ pc'[i] = "release" /\ res'[i] \in {"committed", "error"}
           \/ pc'[i] = "backoff" /\ res'[i] = res[i] /\ Len(chain) # base[i]
    BY <1>1, <1>6 DEF Commit, CommitError, Goto, Finish, tip
  <2> QED
    BY <1>1, <1>2, <2>1 DEF Losing
<1> QED
  BY <1>3, <1>4, <1>5, <1>6 DEF Step

\* A transaction starts when its predecessors have ended, and they stay so.
LEMMA FollowingKept ==
  ASSUME TypeOK, NEW i \in Txns, Following(i), Ending(i), Step(i)
  PROVE  Following(i)'
<1>1. preds(i)' = preds(i) /\ preds(i) \subseteq Txns /\ StayDone /\ pc \in [Txns -> PCs]
  BY PredsStay, StepShape DEF StayDone, preds, TypeOK
<1>2. CASE WaitPreds(i)
  BY <1>1, <1>2 DEF WaitPreds, Following, StayDone
<1>3. CASE ~WaitPreds(i) /\ pc[i] # "preds"
  <2>1. pc[i] # "done"
    BY StepShape
  <2> QED
    BY <1>1, <1>3, <2>1 DEF Following, StayDone
<1>4. CASE ~WaitPreds(i) /\ pc[i] = "preds"
  <2>1. pc'[i] = "done" /\ chain' = chain
    BY <1>1, <1>4 DEF Step, TakeSlot, Abandon, Leave, acquire, release, Derive, Apply, Commit, CommitError,
           Backoff, Goto, Finish
  <2>2. ~In(i)'
    BY <1>4, <2>1 DEF Ending, In
  <2> QED
    BY <2>1, <2>2 DEF Following
<1> QED
  BY <1>2, <1>3, <1>4

\* Apply succeeds only within the declared sets.
LEMMA DeclaredKept ==
  ASSUME TypeOK, NEW i \in Txns, Declared(i), Step(i)
  PROVE  Declared(i)'
<1>1. observed \in [Txns -> SUBSET Paths] /\ txn[i] \in Decls /\ txn' = txn
  BY StepShape DEF TypeOK, StayDone
<1>2. observed' = observed \/ (InScope(i) /\ observed' = [observed EXCEPT ![i] = Written(i)])
  BY DEF Step, WaitPreds, TakeSlot, Abandon, Leave, acquire, release, Derive, Apply, Commit, CommitError,
         Backoff
<1>3. Written(i) \subseteq Paths
  BY <1>1, TxnAssumption DEF Written
<1> QED
  BY <1>1, <1>2, <1>3 DEF Declared, InScope

\* All that is so of a transaction is so again after its own step.
LEMMA ActorSound ==
  ASSUME TypeOK, TypeOK', NEW i \in Txns, Sound(i), Step(i)
  PROVE  Sound(i)'
BY EndingKept, DerivedKept, LosingKept, FollowingKept, DeclaredKept DEF Sound

-----------------------------------------------------------------------------
(* The invariant is inductive.                                              *)

\* The claims held, with one of them dropped.
LEMMA WithoutIs ==
  ASSUME NEW S, held \in Seq(S), NEW k \in 1 .. Len(held)
  PROVE  /\ Without(k) \in Seq(S) /\ Len(Without(k)) = Len(held) - 1
         /\ \A m \in 1 .. Len(held) - 1 : Without(k)[m] = IF m < k THEN held[m] ELSE held[m + 1]
<1>1. Len(held) \in Nat /\ k \in Nat /\ k >= 1 /\ k <= Len(held) /\ \A m \in 1 .. Len(held) : held[m] \in S
  BY LenProperties, ElementOfSeq
<1> DEFINE a == SubSeq(held, 1, k - 1)
           b == SubSeq(held, k + 1, Len(held))
<1>2. /\ a \in Seq(S) /\ Len(a) = k - 1
      /\ \A m \in 1 .. k - 1 : a[m] = held[m]
  BY <1>1, SubSeqProperties
<1>3. /\ b \in Seq(S) /\ Len(b) = Len(held) - k
      /\ \A m \in 1 .. Len(held) - k : b[m] = held[m + k]
  <2>1. k + 1 \in Int /\ Len(held) \in Int /\ \A m \in k + 1 .. Len(held) : held[m] \in S
    BY <1>1
  <2>2. /\ b \in Seq(S) /\ Len(b) = IF k + 1 <= Len(held) THEN Len(held) - (k + 1) + 1 ELSE 0
        /\ \A m \in 1 .. Len(held) - (k + 1) + 1 : b[m] = held[(k + 1) + m - 1]
    BY <2>1, SubSeqProperties
  <2> HIDE DEF b
  <2> QED
    BY <1>1, <2>2
<1> HIDE DEF a, b
<1>4. /\ a \o b \in Seq(S) /\ Len(a \o b) = Len(held) - 1
      /\ \A m \in 1 .. Len(held) - 1 : (a \o b)[m] = IF m <= k - 1 THEN a[m] ELSE b[m - (k - 1)]
  BY <1>1, <1>2, <1>3, ConcatProperties
<1>5. \A m \in 1 .. Len(held) - 1 : (a \o b)[m] = IF m < k THEN held[m] ELSE held[m + 1]
  <2> TAKE m \in 1 .. Len(held) - 1
  <2>1. CASE m < k
    BY <1>1, <1>2, <1>4, <2>1
  <2>2. CASE ~(m < k)
    <3>1. m - (k - 1) \in 1 .. Len(held) - k /\ (m - (k - 1)) + k = m + 1
      BY <1>1, <2>2
    <3> QED
      BY <1>1, <1>3, <1>4, <2>2, <3>1
  <2> QED
    BY <2>1, <2>2
<1> QED
  BY <1>4, <1>5 DEF Without, a, b

\* The slots taken.
LEMMA SlottedIs ==
  ASSUME TypeOK, NEW b \in Batches
  PROVE  IsFiniteSet(Slotted(b)) /\ Cardinality(Slotted(b)) \in Nat
<1>1. IsFiniteSet(Txns)
  BY TxnAssumption, FS_Interval DEF Txns
<1> QED
  BY <1>1, FS_Subset, FS_CardinalityType DEF Slotted

\* A Run's slot is taken and given back by the transaction that holds it.
LEMMA StepSlots ==
  ASSUME TypeOK, SlotsCounted, NEW i \in Txns, Step(i)
  PROVE  slots' \in [Batches -> 0 .. Concurrency] /\ SlotsCounted'
<1>1. /\ slots \in [Batches -> 0 .. Concurrency] /\ txn[i].batch \in Batches /\ txn' = txn
      /\ pc \in [Txns -> PCs] /\ Concurrency \in Nat
  BY StepShape, TxnAssumption DEF TypeOK, StayDone
<1>2. \A j \in Txns \ {i} : pc'[j] \in {"preds", "sem", "done"} <=> pc[j] \in {"preds", "sem", "done"}
  BY StepShape DEF Leaves, StayDone
<1>3. CASE TakeSlot(i)
  <2>1. /\ pc[i] = "sem" /\ pc'[i] = "acquire" /\ slots[txn[i].batch] < Concurrency
        /\ slots' = [slots EXCEPT ![txn[i].batch] = @ + 1]
    BY <1>1, <1>3 DEF TakeSlot, Goto
  <2>2. \A b \in Batches : Slotted(b)' = IF b = txn[i].batch THEN Slotted(b) \cup {i} ELSE Slotted(b)
    BY <1>1, <1>2, <2>1 DEF Slotted
  <2>3. i \notin Slotted(txn[i].batch)
    BY <2>1 DEF Slotted
  <2>4. Cardinality(Slotted(txn[i].batch) \cup {i}) = Cardinality(Slotted(txn[i].batch)) + 1
    BY <1>1, <2>3, SlottedIs, FS_AddElement
  <2>5. \A b \in Batches : slots'[b] = Cardinality(Slotted(b)')
    BY <1>1, <2>1, <2>2, <2>4 DEF SlotsCounted
  <2> QED
    BY <1>1, <2>1, <2>5 DEF SlotsCounted
<1>4. CASE Leave(i)
  <2>1. /\ pc[i] = "leave" /\ pc'[i] = "done"
        /\ slots' = [slots EXCEPT ![txn[i].batch] = @ - 1]
    BY <1>1, <1>4 DEF Leave, Goto
  <2>2. \A b \in Batches : Slotted(b)' = IF b = txn[i].batch THEN Slotted(b) \ {i} ELSE Slotted(b)
    BY <1>1, <1>2, <2>1 DEF Slotted
  <2>3. i \in Slotted(txn[i].batch)
    BY <2>1 DEF Slotted
  <2>4. /\ Cardinality(Slotted(txn[i].batch) \ {i}) = Cardinality(Slotted(txn[i].batch)) - 1
        /\ Cardinality(Slotted(txn[i].batch) \ {i}) \in Nat
    BY <1>1, <2>3, SlottedIs, FS_RemoveElement, FS_CardinalityType
  <2>5. \A b \in Batches : slots'[b] = Cardinality(Slotted(b)')
    BY <1>1, <2>1, <2>2, <2>4 DEF SlotsCounted
  <2>6. slots[txn[i].batch] - 1 \in 0 .. Concurrency
    BY <1>1, <2>4 DEF SlotsCounted
  <2> QED
    BY <1>1, <2>1, <2>5, <2>6 DEF SlotsCounted
<1>5. CASE ~TakeSlot(i) /\ ~Leave(i)
  <2>1. slots' = slots /\ (pc'[i] \in {"preds", "sem", "done"} <=> pc[i] \in {"preds", "sem", "done"})
    BY <1>1, <1>5 DEF Step, WaitPreds, Abandon, acquire, release, Derive, Apply, Commit, CommitError,
           Backoff, Goto, Finish
  <2>2. \A b \in Batches : Slotted(b)' = Slotted(b)
    BY <1>1, <1>2, <2>1 DEF Slotted
  <2> QED
    BY <1>1, <2>1, <2>2 DEF SlotsCounted
<1> QED
  BY <1>3, <1>4, <1>5

\* What is held are claims.
LEMMA StepHeld ==
  ASSUME TypeOK, NEW i \in Txns, Step(i)
  PROVE  held' \in Seq({Claim(j) : j \in Txns})
<1> DEFINE S == {Claim(j) : j \in Txns}
<1>1. held \in Seq(S) /\ Claim(i) \in S
  BY DEF TypeOK
<1> HIDE DEF S
<1>2. \/ held' = held \/ held' = Append(held, Claim(i))
      \/ \E k \in DOMAIN held : held' = Without(k)
  BY DEF Step, WaitPreds, TakeSlot, Abandon, Leave, acquire, release, Derive, Apply, Commit, CommitError,
         Backoff, FirstSame
<1>3. DOMAIN held = 1 .. Len(held)
  BY <1>1, LenProperties
<1>4. held' \in Seq(S)
  BY <1>1, <1>2, <1>3, WithoutIs, AppendProperties
<1> QED
  BY <1>4 DEF S

\* A chain that gets one change more, on its tip, is still one.
ChainOK ==
    /\ IsSeq(chain)
    /\ \A k \in DOMAIN chain : /\ chain[k].by \in Txns \cup {0}
                               /\ chain[k].parent \in 0 .. Len(chain)
                               /\ DOMAIN chain[k].files = Paths

\* The change may be anybody's, if it is of the kind and on the tip or below.
LEMMA AppendKeepsChain ==
  ASSUME TypeOK, NEW c, Appends(c), c.by \in Txns \cup {0}, c.parent \in 0 .. Len(chain),
         DOMAIN c.files = Paths
  PROVE  ChainOK' /\ base \in [Txns -> 0 .. Len(chain')]
<1>1. /\ Len(chain') = Len(chain) + 1 /\ Len(chain) \in Nat
      /\ DOMAIN chain = 1 .. Len(chain) /\ DOMAIN chain' = 1 .. Len(chain) + 1
      /\ \A k \in DOMAIN chain : chain'[k] = chain[k]
      /\ chain'[Len(chain) + 1] = c /\ IsSeq(chain')
  BY Appended
<1>2. \A k \in DOMAIN chain' : k \in DOMAIN chain \/ k = Len(chain) + 1
  BY <1>1
<1>3. 0 .. Len(chain) \subseteq 0 .. Len(chain')
  BY <1>1
<1> QED
  BY <1>1, <1>2, <1>3 DEF ChainOK, TypeOK

\* Every variable keeps its kind under a transaction's steps.
LEMMA StepKinds ==
  ASSUME TypeOK, SlotsCounted, NEW i \in Txns, Step(i)
  PROVE  TypeOK'
<1>1. /\ base \in [Txns -> 0 .. Len(chain)] /\ DOMAIN tree = Txns
      /\ \A j \in Txns : DOMAIN tree[j] = Paths
      /\ attempts \in [Txns -> 0 .. MaxAttempts] /\ res \in [Txns -> Results]
      /\ observed \in [Txns -> SUBSET Paths]
      /\ cancelled \in [Batches -> BOOLEAN] /\ faults \in 0 .. MaxFaults /\ MaxFaults \in Nat
      /\ Len(chain) \in Nat /\ MaxAttempts \in Nat \ {0} /\ txn \in [Txns -> Decls]
  BY ChainIs, TxnAssumption DEF TypeOK
<1>2. ChainOK' /\ base' \in [Txns -> 0 .. Len(chain')]
  <2>1. CASE Swaps(i)
    <3>1. Own(i).by = i /\ Own(i).parent = base[i] /\ Own(i).files = tree[i]
      BY DEF Own, Change
    <3>2. Appends(Own(i)) /\ base' = base
      <4>1. pc[i] = "commit"
        BY <2>1 DEF Swaps
      <4> QED
        BY <2>1, <4>1 DEF Swaps, Step, WaitPreds, TakeSlot, Abandon, Leave, acquire, release, Derive,
               Apply, Commit, CommitError, Backoff
    <3> QED
      BY <1>1, <3>1, <3>2, AppendKeepsChain
  <2>2. CASE chain' = chain
    <3>1. base' = base \/ base' = [base EXCEPT ![i] = Len(chain)]
      BY DEF Step, WaitPreds, TakeSlot, Abandon, Leave, acquire, release, Derive, Apply, Commit,
             CommitError, Backoff, tip
    <3>2. base' \in [Txns -> 0 .. Len(chain)]
      BY <1>1, <3>1
    <3> QED
      BY <2>2, <3>2 DEF ChainOK, TypeOK
  <2> QED
    BY <2>1, <2>2, StepShape
<1>3. DOMAIN tree' = Txns /\ \A j \in Txns : DOMAIN tree'[j] = Paths
  <2>1. tree' = tree \/ tree' = [tree EXCEPT ![i] = Effect(i, FilesAt(base[i]))]
    BY DEF Step, WaitPreds, TakeSlot, Abandon, Leave, acquire, release, Derive, Apply, Commit,
           CommitError, Backoff
  <2>2. DOMAIN Effect(i, FilesAt(base[i])) = Paths
    BY DEF Effect
  <2> QED
    BY <1>1, <2>1, <2>2
<1>4. attempts' \in [Txns -> 0 .. MaxAttempts]
  <2>1. attempts' = attempts \/ (attempts[i] < MaxAttempts /\ attempts' = [attempts EXCEPT ![i] = @ + 1])
    BY DEF Step, WaitPreds, TakeSlot, Abandon, Leave, acquire, release, Derive, Apply, Commit,
           CommitError, Backoff
  <2>2. attempts[i] < MaxAttempts => attempts[i] + 1 \in 0 .. MaxAttempts
    BY <1>1
  <2> QED
    BY <1>1, <2>1, <2>2
<1>5. res' \in [Txns -> Results]
  <2>1. res' = res \/ \E r \in Results : res' = [res EXCEPT ![i] = r]
    BY DEF Step, WaitPreds, TakeSlot, Abandon, Leave, acquire, release, Derive, Apply, Commit,
           CommitError, Backoff, Finish, Results
  <2> QED
    BY <1>1, <2>1
<1>6. observed' \in [Txns -> SUBSET Paths]
  <2>1. observed' = observed \/ observed' = [observed EXCEPT ![i] = Written(i)]
    BY DEF Step, WaitPreds, TakeSlot, Abandon, Leave, acquire, release, Derive, Apply, Commit,
           CommitError, Backoff
  <2>2. Written(i) \in SUBSET Paths
    BY <1>1, TxnAssumption DEF Written
  <2> QED
    BY <1>1, <2>1, <2>2
<1>7. faults' \in 0 .. MaxFaults
  <2>1. faults' = faults \/ (faults < MaxFaults /\ faults' = faults + 1)
    BY DEF Step, WaitPreds, TakeSlot, Abandon, Leave, acquire, release, Derive, Apply, Commit,
           CommitError, Backoff
  <2> QED
    BY <1>1, <2>1
<1>8. txn' = txn /\ cancelled' = cancelled /\ pc' \in [Txns -> PCs]
  BY StepShape DEF StayDone
<1>9. held' \in Seq({Claim(j)' : j \in Txns})
  <2>1. {Claim(j)' : j \in Txns} = {Claim(j) : j \in Txns}
    BY <1>8, PredsStay
  <2> QED
    BY <2>1, StepHeld
<1>10. slots' \in [Batches -> 0 .. Concurrency]
  BY StepSlots
<1> QED
  BY <1>1, <1>2, <1>3, <1>4, <1>5, <1>6, <1>7, <1>8, <1>9, <1>10 DEF TypeOK, ChainOK

\* Each change is what its transaction makes of the one before it: the swap is from the base.
LEMMA StepSerial ==
  ASSUME TypeOK, CommitsSerial, NEW i \in Txns, Derived(i), Step(i)
  PROVE  CommitsSerial'
<1>1. txn' = txn
  BY StepShape DEF StayDone
<1>2. \A k \in DOMAIN chain : k \in Nat /\ k - 1 \in 0 .. Len(chain)
  BY ChainIs
<1>3. CASE chain' = chain
  <2>1. \A k : FilesAt(k)' = FilesAt(k)
    BY <1>3 DEF FilesAt
  <2> QED
    BY <1>1, <1>3, <2>1, EffectStays DEF CommitsSerial
<1>4. CASE Swaps(i)
  <2>1. /\ Appends(Own(i)) /\ Len(chain) = base[i] /\ tree[i] = Effect(i, FilesAt(base[i]))
    BY <1>4 DEF Swaps, Derived, tip
  <2>2. Own(i).by = i /\ Own(i).parent = base[i] /\ Own(i).files = tree[i]
    BY DEF Own, Change
  <2>3. /\ DOMAIN chain' = 1 .. Len(chain) + 1 /\ DOMAIN chain = 1 .. Len(chain) /\ Len(chain) \in Nat
        /\ \A k \in DOMAIN chain : chain'[k] = chain[k]
        /\ chain'[Len(chain) + 1] = Own(i)
    BY <2>1, Appended
  <2>4. 0 \notin Txns
    BY DEF Txns
  <2>5. ASSUME NEW k \in 0 .. Len(chain) PROVE FilesAt(k)' = FilesAt(k)
    BY <2>3 DEF FilesAt
  <2>6. ASSUME NEW k \in DOMAIN chain'
        PROVE  /\ chain'[k].parent = k - 1
               /\ chain'[k].by # 0 => chain'[k].files = Effect(chain'[k].by, FilesAt(k - 1)')
    <3>1. CASE k \in DOMAIN chain
      BY <1>2, <2>3, <2>5, <3>1 DEF CommitsSerial
    <3>2. CASE k = Len(chain) + 1
      <4>1. k - 1 = Len(chain) /\ k - 1 \in 0 .. Len(chain)
        BY <2>3, <3>2
      <4> QED
        BY <2>1, <2>2, <2>3, <2>5, <3>2, <4>1
    <3> QED
      BY <2>3, <3>1, <3>2
  <2> QED
    BY <1>1, <2>6, EffectStays DEF CommitsSerial
<1> QED
  BY <1>3, <1>4, StepShape

\* Who is in the chain has seen its predecessors end, so none of them comes after it.
LEMMA StepInOrder ==
  ASSUME TypeOK, RankOrder, \A j \in Txns : Following(j), NEW i \in Txns, Step(i)
  PROVE  RankOrder'
<1>1. \A j, l : isPred(j, l)' = isPred(j, l)
  BY StepShape, PredsStay DEF StayDone
<1>2. CASE chain' = chain
  BY <1>1, <1>2 DEF RankOrder, Txns
<1>3. CASE Swaps(i)
  <2>1. /\ DOMAIN chain' = 1 .. Len(chain) + 1 /\ DOMAIN chain = 1 .. Len(chain) /\ Len(chain) \in Nat
        /\ \A k \in DOMAIN chain : chain'[k] = chain[k]
        /\ chain'[Len(chain) + 1] = Own(i) /\ Own(i).by = i /\ pc[i] = "commit"
    BY <1>3, Appended DEF Swaps, Own, Change
  <2>2. ASSUME NEW l \in DOMAIN chain', NEW k \in DOMAIN chain', l < k,
               {chain'[l].by, chain'[k].by} \subseteq Txns, chain'[l].by # chain'[k].by
        PROVE  ~isPred(chain'[k].by, chain'[l].by)
    <3>1. l \in DOMAIN chain /\ chain'[l] = chain[l]
      BY <2>1, <2>2
    <3>2. CASE k \in DOMAIN chain
      BY <2>1, <2>2, <3>1, <3>2 DEF RankOrder
    <3>3. CASE k = Len(chain) + 1
      <4>1. chain'[k].by = i /\ chain[l].by \in Txns /\ chain[l].by # i
        BY <2>1, <2>2, <3>1, <3>3
      <4>2. In(chain[l].by)
        BY <3>1 DEF In
      <4>3. i \notin preds(chain[l].by)
        BY <2>1, <4>1, <4>2 DEF Following
      <4> QED
        BY <3>1, <4>1, <4>3 DEF preds
    <3> QED
      BY <2>1, <3>2, <3>3
  <2> QED
    BY <1>1, <2>2 DEF RankOrder, Txns
<1> QED
  BY <1>2, <1>3, StepShape

\* A transaction's step keeps the invariant.
LEMMA StepInv ==
  ASSUME IInv, NEW i \in Txns, Step(i)
  PROVE  IInv'
<1>1. TypeOK /\ SlotsCounted /\ TypeOK'
  BY StepKinds DEF IInv
<1>2. \A j \in Txns : Sound(j)'
  BY <1>1, ActorSound, OthersStay, StepShape, StepGrows DEF IInv
<1>3. CommitsSerial' /\ RankOrder'
  BY <1>1, StepSerial, StepInOrder DEF IInv, Sound
<1> QED
  BY <1>1, <1>2, <1>3, StepSlots DEF IInv

\* Other processes only add to the chain.
LEMMA ExternalInv ==
  ASSUME IInv, NEW p \in Paths, External(p)
  PROVE  IInv'
<1> DEFINE c == Change(0, tip, [FilesAt(tip) EXCEPT ![p] = <<0>>])
<1>1. /\ Appends(c) /\ txn' = txn /\ pc' = pc /\ slots' = slots /\ held' = held /\ base' = base
      /\ tree' = tree /\ attempts' = attempts /\ res' = res /\ observed' = observed
      /\ cancelled' = cancelled /\ faults' = faults
  BY DEF External, Appends
<1>2. Len(chain) \in Nat /\ DOMAIN chain = 1 .. Len(chain)
  BY ChainIs DEF IInv
<1>3. c.by = 0 /\ c.parent = Len(chain) /\ DOMAIN c.files = Paths
  <2>1. DOMAIN FilesAt(tip) = Paths
    <3>1. CASE tip = 0
      BY <3>1 DEF FilesAt, NoFiles
    <3>2. CASE tip # 0
      <4>1. tip \in DOMAIN chain
        BY <1>2, <3>2 DEF tip
      <4> QED
        BY <3>2, <4>1 DEF FilesAt, IInv, TypeOK
    <3> QED
      BY <3>1, <3>2
  <2>2. DOMAIN [FilesAt(tip) EXCEPT ![p] = <<0>>] = Paths
    BY <2>1
  <2> QED
    BY <2>2 DEF Change, tip
<1>4. Len(chain) \in 0 .. Len(chain) /\ 0 \notin Txns
  BY <1>2 DEF Txns
<1> HIDE DEF c
<1>5. ChainOK' /\ base \in [Txns -> 0 .. Len(chain')]
  BY <1>1, <1>3, <1>4, AppendKeepsChain DEF IInv
<1>6. TypeOK'
  <2>1. {Claim(j)' : j \in Txns} = {Claim(j) : j \in Txns}
    BY <1>1, PredsStay
  <2> QED
    BY <1>1, <1>5, <2>1 DEF IInv, TypeOK, ChainOK
<1>7. \A j \in Txns : Sound(j)'
  <2>1. \A j \in Txns : Grows(j)
    BY <1>1, <1>3, <1>4, AppendedGrows DEF IInv
  <2>2. StayDone /\ \A j \in Txns : Leaves(j)
    BY <1>1 DEF StayDone, Leaves
  <2> QED
    BY <1>6, <2>1, <2>2, OthersStay DEF IInv
<1>8. SlotsCounted'
  BY <1>1 DEF IInv, SlotsCounted, Slotted
<1>9. /\ DOMAIN chain' = 1 .. Len(chain) + 1
      /\ \A k \in DOMAIN chain : chain'[k] = chain[k]
      /\ chain'[Len(chain) + 1] = c
  BY <1>1, Appended DEF IInv
<1>10. CommitsSerial'
  <2>1. ASSUME NEW k \in 0 .. Len(chain) PROVE FilesAt(k)' = FilesAt(k)
    BY <1>2, <1>9 DEF FilesAt
  <2>2. ASSUME NEW k \in DOMAIN chain'
        PROVE  /\ chain'[k].parent = k - 1
               /\ chain'[k].by # 0 => chain'[k].files = Effect(chain'[k].by, FilesAt(k - 1)')
    <3>1. CASE k \in DOMAIN chain
      <4>1. k - 1 \in 0 .. Len(chain)
        BY <1>2, <3>1
      <4> QED
        BY <1>9, <2>1, <3>1, <4>1 DEF IInv, CommitsSerial
    <3>2. CASE k = Len(chain) + 1
      BY <1>2, <1>3, <1>9, <3>2
    <3> QED
      BY <1>2, <1>9, <3>1, <3>2
  <2> QED
    BY <1>1, <2>2, EffectStays DEF CommitsSerial
<1>11. RankOrder'
  <2>1. \A j, l : isPred(j, l)' = isPred(j, l)
    BY <1>1, PredsStay
  <2>2. ASSUME NEW l \in DOMAIN chain', NEW k \in DOMAIN chain', l < k,
               {chain'[l].by, chain'[k].by} \subseteq Txns, chain'[l].by # chain'[k].by
        PROVE  ~isPred(chain'[k].by, chain'[l].by)
    <3>1. k # Len(chain) + 1 /\ l # Len(chain) + 1
      BY <1>3, <1>4, <1>9, <2>2
    <3>2. k \in DOMAIN chain /\ l \in DOMAIN chain
      BY <1>2, <1>9, <2>2, <3>1
    <3> QED
      BY <1>9, <2>2, <3>2 DEF IInv, RankOrder
  <2> QED
    BY <2>1, <2>2 DEF RankOrder, Txns
<1> QED
  BY <1>6, <1>7, <1>8, <1>10, <1>11 DEF IInv

\* A cancelled context, and a Run that has returned, change nothing of it.
LEMMA QuietInv ==
  ASSUME IInv,
         /\ txn' = txn /\ pc' = pc /\ slots' = slots /\ held' = held /\ base' = base
         /\ tree' = tree /\ attempts' = attempts /\ res' = res /\ observed' = observed
         /\ chain' = chain /\ faults' = faults,
         cancelled' \in [Batches -> BOOLEAN]
  PROVE  IInv'
<1>1. TypeOK'
  <2>1. {Claim(j)' : j \in Txns} = {Claim(j) : j \in Txns}
    BY PredsStay
  <2> QED
    BY <2>1 DEF IInv, TypeOK
<1>2. \A j \in Txns : Sound(j)'
  <2>1. \A j \in Txns : Grows(j)
    BY SameGrows DEF IInv
  <2>2. StayDone /\ \A j \in Txns : Leaves(j)
    BY DEF StayDone, Leaves
  <2> QED
    BY <1>1, <2>1, <2>2, OthersStay DEF IInv
<1>3. SlotsCounted'
  BY DEF IInv, SlotsCounted, Slotted
<1>4. CommitsSerial'
  <2>1. \A k : FilesAt(k)' = FilesAt(k)
    BY DEF FilesAt
  <2> QED
    BY <2>1, EffectStays DEF CommitsSerial, IInv
<1>5. RankOrder'
  BY PredsStay DEF RankOrder, IInv
<1> QED
  BY <1>1, <1>2, <1>3, <1>4, <1>5 DEF IInv

\* The invariant holds at the start.
LEMMA InitIInv ==
  ASSUME Init
  PROVE  IInv
<1>1. /\ N \in Nat /\ Concurrency \in Nat \ {0} /\ MaxAttempts \in Nat \ {0} /\ MaxFaults \in Nat
  BY TxnAssumption
<1>2. chain = <<>> /\ Len(chain) = 0 /\ DOMAIN chain = {} /\ IsSeq(chain)
  BY DEF Init, IsSeq
<1>3. TypeOK
  BY <1>1, <1>2 DEF Init, TypeOK, NoFiles, PCs, Results
<1>4. SlotsCounted
  <2>1. \A b \in Batches : Slotted(b) = {}
    BY DEF Init, Slotted
  <2> QED
    BY <2>1, FS_EmptySet DEF Init, SlotsCounted
<1>5. ASSUME NEW i \in Txns PROVE Sound(i)
  <2>1. pc[i] = "preds" /\ res[i] = "none" /\ attempts[i] = 0 /\ observed[i] = {} /\ ~In(i)
    BY <1>2 DEF Init, In
  <2> QED
    BY <1>2, <2>1 DEF Sound, Ending, Derived, Losing, Following, Declared
<1>6. CommitsSerial /\ RankOrder
  BY <1>2 DEF CommitsSerial, RankOrder
<1> QED
  BY <1>3, <1>4, <1>5, <1>6 DEF IInv

\* Every step keeps the invariant.
LEMMA NextInv ==
  ASSUME IInv, [Next]_vars
  PROVE  IInv'
<1>1. cancelled \in [Batches -> BOOLEAN]
  BY DEF IInv, TypeOK
<1>2. ASSUME NEW b \in Batches, Cancel(b) PROVE IInv'
  <2>1. cancelled' \in [Batches -> BOOLEAN]
    BY <1>1, <1>2 DEF Cancel
  <2> QED
    BY <1>2, <2>1, QuietInv DEF Cancel
<1>3. CASE UNCHANGED vars
  BY <1>1, <1>3, QuietInv DEF vars
<1> QED
  BY <1>2, <1>3, StepInv, ExternalInv DEF Next, Finished

\* The invariant of the proofs.
THEOREM Invariance == Spec => []IInv
<1>1. Init => IInv
  BY InitIInv
<1>2. IInv /\ [Next]_vars => IInv'
  BY NextInv
<1> QED
  BY <1>1, <1>2, PTL DEF Spec

-----------------------------------------------------------------------------
(* Serial batches.                                                          *)

\* A prefix has the segments of what it covers.
LEMMA CoversSegments ==
  ASSUME NEW a, NEW p, IsSeq(a), IsSeq(p), pathCovers(a, p)
  PROVE  /\ Len(a) \in Nat /\ Len(p) \in Nat /\ Len(a) <= Len(p)
         /\ \A m \in 1 .. Len(a) : a[m] = p[m]
<1>1. /\ Len(a) \in Nat /\ Len(p) \in Nat /\ Len(a) <= Len(p) /\ a = SubSeq(p, 1, Len(a))
  BY LenProperties DEF IsSeq, pathCovers
<1> DEFINE S == {p[k] : k \in DOMAIN p}
<1>2. \A m \in 1 .. Len(a) : p[m] \in S
  BY <1>1, LenProperties DEF IsSeq
<1> HIDE DEF S
<1>3. \A m \in 1 .. Len(a) - 1 + 1 : SubSeq(p, 1, Len(a))[m] = p[1 + m - 1]
  BY <1>1, <1>2, SubSeqProperties
<1>4. \A m \in 1 .. Len(a) : a[m] = p[m]
  <2> TAKE m \in 1 .. Len(a)
  <2>1. m \in 1 .. Len(a) - 1 + 1 /\ 1 + m - 1 = m
    BY <1>1
  <2> QED
    BY <1>1, <1>3, <2>1
<1> QED
  BY <1>1, <1>4

\* Of two prefixes of one path, the shorter covers the longer.
LEMMA PrefixesNest ==
  ASSUME NEW a, NEW b, NEW p, IsSeq(a), IsSeq(b), IsSeq(p), pathCovers(a, p), pathCovers(b, p),
         Len(a) <= Len(b)
  PROVE  pathCovers(a, b)
<1>1. /\ Len(a) \in Nat /\ Len(b) \in Nat
      /\ \A m \in 1 .. Len(a) : a[m] = p[m]
      /\ \A m \in 1 .. Len(b) : b[m] = p[m]
  BY CoversSegments
<1> DEFINE S == {a[k] : k \in DOMAIN a}
           c == SubSeq(b, 1, Len(a))
<1>2. a \in Seq(S) /\ \A m \in 1 .. Len(a) : a[m] \in S
  BY LenProperties DEF IsSeq
<1>3. \A m \in 1 .. Len(a) : m \in 1 .. Len(b) /\ b[m] = a[m] /\ b[m] \in S
  BY <1>1, <1>2
<1> HIDE DEF S
<1>4. /\ c \in Seq(S) /\ Len(c) = IF 1 <= Len(a) THEN Len(a) - 1 + 1 ELSE 0
      /\ \A m \in 1 .. Len(a) - 1 + 1 : c[m] = b[1 + m - 1]
  <2>1. 1 \in Int /\ Len(a) \in Int
    BY <1>1
  <2> QED
    BY <1>3, <2>1, SubSeqProperties
<1> HIDE DEF c
<1>5. Len(c) = Len(a)
  BY <1>1, <1>4
<1>6. \A m \in 1 .. Len(a) : c[m] = a[m]
  <2> TAKE m \in 1 .. Len(a)
  <2>1. m \in 1 .. Len(a) - 1 + 1 /\ 1 + m - 1 = m
    BY <1>1
  <2> QED
    BY <1>3, <1>4, <2>1
<1>7. c = a
  BY <1>2, <1>4, <1>5, <1>6, SeqEqual
<1> QED
  BY <1>7 DEF pathCovers, c

\* The reports agree: what two transactions have both touched lies in an overlap both declared.
LEMMA Agreement ==
  ASSUME IInv
  PROVE  ReportsAgree
<1>1. ASSUME NEW i \in Txns PROVE WroteUndeclared(i) = {}
  BY DEF IInv, Sound, Declared, WroteUndeclared
<1>2. ASSUME NEW i \in Txns, NEW j \in Txns, NEW p \in ObservedOverlaps(i, j)
      PROVE  inScope(p, prefixIntersection(txn[i].writes, txn[j].writes))
  <2>1. /\ p \in Paths /\ inScope(p, txn[i].writes) /\ inScope(p, txn[j].writes)
    BY <1>2 DEF IInv, Sound, Declared, ObservedOverlaps
  <2>2. PICK a \in txn[i].writes, b \in txn[j].writes : pathCovers(a, p) /\ pathCovers(b, p)
    BY <2>1 DEF inScope
  <2>3. txn[i] \in Decls /\ txn[j] \in Decls
    BY DEF IInv, TypeOK
  <2>4. IsSeq(a) /\ IsSeq(b) /\ IsSeq(p)
    BY <2>1, <2>2, <2>3, TxnAssumption
  <2>5. pathCovers(a, b) \/ pathCovers(b, a)
    <3>1. Len(a) \in Nat /\ Len(b) \in Nat
      BY <2>2, <2>4, CoversSegments
    <3>2. Len(a) <= Len(b) \/ Len(b) <= Len(a)
      BY <3>1
    <3> QED
      BY <2>2, <2>4, <3>2, PrefixesNest
  <2> DEFINE q == IF pathCovers(a, b) THEN b ELSE a
  <2>6. q \in prefixIntersection(txn[i].writes, txn[j].writes)
    <3>1. <<a, b>> \in {y \in txn[i].writes \X txn[j].writes : overlap(y[1], y[2])}
      BY <2>5 DEF overlap
    <3> QED
      BY <3>1 DEF prefixIntersection
  <2>7. pathCovers(q, p)
    BY <2>2
  <2> QED
    BY <2>6, <2>7 DEF inScope
<1> QED
  BY <1>1, <1>2 DEF ReportsAgree

\* Every lost attempt is a change of somebody else's, and the others of the batch make one each.
LEMMA Perseverance ==
  ASSUME IInv
  PROVE  NobodyExhausted
<1> SUFFICES ASSUME NEW i \in Txns, res[i] = "exhausted"
             PROVE  ~((N - 1) + Cardinality(Foreign) < MaxAttempts)
  BY DEF NobodyExhausted
<1>1. /\ MaxAttempts <= Len(chain) /\ ~In(i) /\ \A j \in Txns : Ending(j)
  BY DEF IInv, Sound, Losing, Ending
<1>2. N \in Nat /\ MaxAttempts \in Nat
  BY TxnAssumption
<1>3. Len(chain) \in Nat /\ DOMAIN chain = 1 .. Len(chain)
  BY ChainIs DEF IInv
<1>4. \A k \in DOMAIN chain : chain[k].by \in Txns \cup {0}
  BY DEF IInv, TypeOK
<1> DEFINE Ours == {k \in DOMAIN chain : chain[k].by \in Txns}
           f == [k \in Ours |-> chain[k].by]
<1>5. f \in Injection(Ours, Txns \ {i})
  <2>1. f \in [Ours -> Txns \ {i}]
    BY <1>1 DEF In
  <2>2. \A k, l \in Ours : f[k] = f[l] => k = l
    BY <1>1 DEF Ending
  <2> QED
    BY <2>1, <2>2 DEF Injection, IsInjective
<1>6. IsFiniteSet(Txns \ {i}) /\ Cardinality(Txns \ {i}) = N - 1
  <2>1. IsFiniteSet(Txns) /\ Cardinality(Txns) = N
    <3>1. Cardinality(1 .. N) = IF 1 > N THEN 0 ELSE N - 1 + 1
      BY <1>2, FS_Interval
    <3> QED
      BY <1>2, <3>1, FS_Interval DEF Txns
  <2> QED
    BY <2>1, FS_RemoveElement
<1> HIDE DEF f
<1>7. IsFiniteSet(Ours) /\ Cardinality(Ours) <= N - 1
  BY <1>5, <1>6, FS_Injection
<1>8. IsFiniteSet(DOMAIN chain) /\ Cardinality(DOMAIN chain) = Len(chain)
  <2>1. Cardinality(1 .. Len(chain)) = IF 1 > Len(chain) THEN 0 ELSE Len(chain) - 1 + 1
    BY <1>3, FS_Interval
  <2> QED
    BY <1>3, <2>1, FS_Interval
<1>9. IsFiniteSet(Foreign)
  BY <1>8, FS_Subset DEF Foreign
<1>10. DOMAIN chain = Foreign \cup Ours
  BY <1>4 DEF Foreign
<1> HIDE DEF Ours
<1>11. Len(chain) <= Cardinality(Foreign) + Cardinality(Ours)
  <2>1. Cardinality(Foreign \cup Ours) = Cardinality(Foreign) + Cardinality(Ours) - Cardinality(Foreign \cap Ours)
    BY <1>7, <1>9, FS_Union
  <2>2. /\ Cardinality(Foreign \cap Ours) \in Nat /\ Cardinality(Foreign) \in Nat
        /\ Cardinality(Ours) \in Nat
    BY <1>7, <1>9, FS_Intersection, FS_CardinalityType
  <2> QED
    BY <1>3, <1>8, <1>10, <2>1, <2>2
<1>12. Cardinality(Foreign) \in Nat /\ Cardinality(Ours) \in Nat
  BY <1>7, <1>9, FS_CardinalityType
<1> QED
  BY <1>1, <1>2, <1>3, <1>7, <1>11, <1>12

\* What Run promises of a batch (txn.go runOne): commits are serial, conflicting transactions commit
\* in rank order, the reports agree with the declarations and with each other, and nobody runs out of
\* attempts but by the progress of others.
THEOREM BatchesSerial == Spec => []SerialInv
<1>1. IInv => SerialInv
  BY Agreement, Perseverance DEF IInv, SerialInv
<1> QED
  BY <1>1, Invariance, PTL

\* A transaction takes effect at most once, however often it is re-derived, and its result does not
\* deny it (txn.go runOne: only a swap that failed goes round again).
THEOREM EffectsOnce == Spec => []OnceEach
<1>1. IInv => OnceEach
  <2> SUFFICES ASSUME IInv, NEW i \in Txns
               PROVE  /\ Cardinality({k \in DOMAIN chain : chain[k].by = i}) <= 1
                      /\ res[i] = "committed" => \E k \in DOMAIN chain : chain[k].by = i
                      /\ res[i] \in {"noop", "cancelled", "exhausted"}
                            => \A k \in DOMAIN chain : chain[k].by # i
    BY DEF OnceEach
  <2> DEFINE T == {k \in DOMAIN chain : chain[k].by = i}
  <2>1. Ending(i)
    BY DEF IInv, Sound
  <2>2. Cardinality(T) <= 1
    <3>1. CASE T = {}
      <4>1. Cardinality(T) = 0
        BY <3>1, FS_EmptySet
      <4> QED
        BY <4>1
    <3>2. CASE T # {}
      <4>1. PICK k : T = {k}
        BY <2>1, <3>2 DEF Ending
      <4>2. Cardinality(T) = 1
        BY <4>1, FS_Singleton
      <4> QED
        BY <4>2
    <3> QED
      BY <3>1, <3>2
  <2> QED
    BY <2>1, <2>2 DEF Ending, In
<1> QED
  BY <1>1, Invariance, PTL

-----------------------------------------------------------------------------
(* The lock manager.                                                        *)

\* Whether two claims conflict does not depend on which is asked first.
LEMMA ConflictsBothWays ==
  ASSUME NEW x, NEW y, conflicts(x, y)
  PROVE  conflicts(y, x)
BY DEF conflicts, setsOverlap, overlap

\* The claim that release drops is, for all it can tell, the caller's; with claims it can tell apart it
\* is equal to it.
LEMMA SameIsEqual ==
  ASSUME ClaimsNamed, TypeOK, NEW i \in Txns, NEW j \in Txns, sameClaim(Claim(j), Claim(i))
  PROVE  Claim(j) = Claim(i)
<1>1. txn[i] \in Decls /\ txn[j] \in Decls
  BY DEF TypeOK
<1>2. sameClaim(txn[j], txn[i])
  BY DEF sameClaim, Claim
<1> QED
  BY <1>1, <1>2 DEF ClaimsNamed, Claim

\* Taking a claim, with nobody conflicting.
LEMMA AcquireHolds ==
  ASSUME HInv, NEW i \in Txns, pc[i] = "acquire", ~anyConflict(Claim(i)),
         held' = Append(held, Claim(i)), txn' = txn, Active' = Active \cup {i}
  PROVE  Holding' /\ HeldConflictFree'
<1> DEFINE S == {Claim(j) : j \in Txns}
<1>1. held \in Seq(S) /\ Claim(i) \in S /\ i \notin Active
  BY DEF HInv, IInv, TypeOK, Active, Running
<1> HIDE DEF S
<1>2. /\ Len(held) \in Nat /\ DOMAIN held = 1 .. Len(held) /\ DOMAIN held' = 1 .. Len(held) + 1
      /\ \A m \in 1 .. Len(held) : held'[m] = held[m]
      /\ held'[Len(held) + 1] = Claim(i)
  <2>1. /\ held' \in Seq(S) /\ Len(held') = Len(held) + 1
        /\ \A m \in 1 .. Len(held) : held'[m] = held[m]
        /\ held'[Len(held) + 1] = Claim(i)
    BY <1>1, AppendProperties
  <2> QED
    BY <1>1, <2>1, LenProperties
<1>3. PICK f \in [Active -> DOMAIN held] :
         /\ \A j, l \in Active : f[j] = f[l] => j = l
         /\ \A j \in Active : held[f[j]] = Claim(j)
  BY DEF HInv, Holding
<1> DEFINE g == [j \in Active \cup {i} |-> IF j = i THEN Len(held) + 1 ELSE f[j]]
<1>4. g \in [Active' -> DOMAIN held']
  BY <1>2, <1>3
<1>5. \A j \in Active : f[j] # Len(held) + 1
  BY <1>2, <1>3
<1>6. \A j, l \in Active' : g[j] = g[l] => j = l
  BY <1>1, <1>3, <1>5
<1>7. \A j \in Active' : held'[g[j]] = Claim(j)
  BY <1>1, <1>2, <1>3
<1>8. \A j : Claim(j)' = Claim(j)
  BY PredsStay
<1> HIDE DEF g
<1>9. Holding'
  BY <1>4, <1>6, <1>7, <1>8 DEF Holding
<1>10. \A j \in Active : ~conflicts(Claim(j), Claim(i)) /\ ~conflicts(Claim(i), Claim(j))
  BY <1>3, ConflictsBothWays DEF anyConflict
<1>11. \A j, l \in Active' : j # l => ~conflicts(Claim(j), Claim(l))
  BY <1>10 DEF HInv, HeldConflictFree, Active
<1>12. HeldConflictFree'
  <2>1. \A j \in Txns : pc'[j] \in Running => j \in Active'
    BY DEF Active, Running
  <2> QED
    BY <1>8, <1>11, <2>1 DEF HeldConflictFree, Running
<1> QED
  BY <1>9, <1>12

\* Giving one back: whoever's entry it is, the others keep one each.
LEMMA ReleaseHolds ==
  ASSUME ClaimsNamed, HInv, NEW i \in Txns, i \in Active, NEW k \in FirstSame(Claim(i)),
         held' = Without(k), txn' = txn, Active' = Active \ {i}
  PROVE  Holding'
<1> DEFINE S == {Claim(j) : j \in Txns}
<1>1. held \in Seq(S)
  BY DEF HInv, IInv, TypeOK
<1>2. /\ Len(held) \in Nat /\ DOMAIN held = 1 .. Len(held) /\ k \in 1 .. Len(held)
      /\ held[k] \in S /\ sameClaim(held[k], Claim(i))
  BY <1>1, LenProperties, ElementOfSeq DEF FirstSame
<1>3. held[k] = Claim(i)
  BY <1>2, SameIsEqual DEF HInv, IInv
<1> HIDE DEF S
<1>4. /\ DOMAIN held' = 1 .. Len(held) - 1
      /\ \A m \in 1 .. Len(held) - 1 : held'[m] = IF m < k THEN held[m] ELSE held[m + 1]
  <2>1. Without(k) \in Seq(S) /\ Len(Without(k)) = Len(held) - 1
    BY <1>1, <1>2, WithoutIs
  <2> QED
    BY <1>1, <1>2, <2>1, WithoutIs, LenProperties
<1>5. PICK f \in [Active -> DOMAIN held] :
         /\ \A j, l \in Active : f[j] = f[l] => j = l
         /\ \A j \in Active : held[f[j]] = Claim(j)
  BY DEF HInv, Holding
\* The one whose entry was dropped takes over i's.
<1> DEFINE h(j) == IF f[j] = k THEN f[i] ELSE f[j]
           g == [j \in Active \ {i} |-> IF h(j) < k THEN h(j) ELSE h(j) - 1]
<1>6. \A j \in Active \ {i} : /\ h(j) \in 1 .. Len(held) /\ h(j) # k /\ held[h(j)] = Claim(j)
  BY <1>2, <1>3, <1>5
<1>7. \A j, l \in Active \ {i} : h(j) = h(l) => j = l
  BY <1>5
<1> HIDE DEF h
<1>8. \A j \in Active \ {i} : g[j] \in 1 .. Len(held) - 1
  BY <1>2, <1>6
<1>9. \A j, l \in Active \ {i} : g[j] = g[l] => j = l
  BY <1>2, <1>6, <1>7
<1>10. \A j \in Active \ {i} : held'[g[j]] = Claim(j)
  <2> TAKE j \in Active \ {i}
  <2>1. CASE h(j) < k
    BY <1>2, <1>4, <1>6, <1>8, <2>1
  <2>2. CASE ~(h(j) < k)
    <3>1. g[j] = h(j) - 1 /\ ~(g[j] < k) /\ g[j] + 1 = h(j)
      BY <1>2, <1>6, <2>2
    <3> QED
      BY <1>4, <1>6, <1>8, <3>1
  <2> QED
    BY <2>1, <2>2
<1>11. g \in [Active' -> DOMAIN held']
  BY <1>4, <1>8
<1>12. \A j : Claim(j)' = Claim(j)
  BY PredsStay
<1> HIDE DEF g
<1> QED
  BY <1>9, <1>10, <1>11, <1>12 DEF Holding

\* Fewer run, with the same claims or fewer of them held.
LEMMA FewerHold ==
  ASSUME HInv, txn' = txn, Active' \subseteq Active
  PROVE  /\ HeldConflictFree'
         /\ held' = held => Holding'
<1>1. \A j : Claim(j)' = Claim(j)
  BY PredsStay
<1>2. \A j, l \in Active' : j # l => ~conflicts(Claim(j), Claim(l))
  BY DEF HInv, HeldConflictFree, Active
<1>3. \A j \in Txns : pc'[j] \in Running => j \in Active'
  BY DEF Active, Running
<1>4. HeldConflictFree'
  BY <1>1, <1>2, <1>3 DEF HeldConflictFree, Running
<1>5. ASSUME held' = held PROVE Holding'
  <2>1. PICK f \in [Active -> DOMAIN held] :
           /\ \A j, l \in Active : f[j] = f[l] => j = l
           /\ \A j \in Active : held[f[j]] = Claim(j)
    BY DEF HInv, Holding
  <2> DEFINE g == [j \in Active' |-> f[j]]
  <2>2. /\ g \in [Active' -> DOMAIN held']
        /\ \A j, l \in Active' : g[j] = g[l] => j = l
        /\ \A j \in Active' : held'[g[j]] = Claim(j)
    BY <1>5, <2>1
  <2> HIDE DEF g
  <2> QED
    BY <1>1, <2>2 DEF Holding
<1> QED
  BY <1>4, <1>5

\* A transaction's step keeps the claims and the exclusion.
LEMMA StepHolds ==
  ASSUME ClaimsNamed, HInv, NEW i \in Txns, Step(i)
  PROVE  Holding' /\ HeldConflictFree'
<1>1. /\ txn' = txn /\ pc \in [Txns -> PCs] /\ pc' \in [Txns -> PCs]
      /\ \A j \in Txns \ {i} : j \in Active' <=> j \in Active
  <2>1. \A j \in Txns \ {i} : Leaves(j)
    BY StepShape DEF HInv, IInv
  <2> QED
    BY <2>1, StepShape DEF HInv, IInv, TypeOK, StayDone, Leaves, Active, Running
<1>2. CASE acquire(i) /\ ~Done(i) /\ ~anyConflict(Claim(i))
  <2>1. pc[i] = "acquire" /\ held' = Append(held, Claim(i)) /\ pc'[i] = "attempt"
    BY <1>1, <1>2 DEF acquire, Goto
  <2>2. Active' = Active \cup {i}
    BY <1>1, <2>1 DEF Active, Running
  <2> QED
    BY <1>1, <1>2, <2>1, <2>2, AcquireHolds
<1>3. CASE release(i)
  <2>1. /\ i \in Active /\ pc'[i] = "leave"
        /\ held' = held \/ \E k \in FirstSame(Claim(i)) : held' = Without(k)
    BY <1>1, <1>3 DEF release, Active, Running
  <2>2. Active' = Active \ {i}
    BY <1>1, <2>1 DEF Active, Running
  <2> QED
    BY <1>1, <2>1, <2>2, ReleaseHolds, FewerHold
<1>4. CASE ~release(i) /\ ~(acquire(i) /\ ~Done(i) /\ ~anyConflict(Claim(i)))
  <2>1. held' = held /\ (pc'[i] \in Running => pc[i] \in Running)
    BY <1>1, <1>4 DEF Step, WaitPreds, TakeSlot, Abandon, Leave, acquire, Derive, Apply, Commit,
           CommitError, Backoff, Goto, Finish, Running
  <2>2. Active' \subseteq Active
    BY <1>1, <2>1 DEF Active
  <2> QED
    BY <1>1, <2>1, <2>2, FewerHold
<1> QED
  BY <1>2, <1>3, <1>4

\* The lock manager admits no two conflicting transactions at a time, of one Run or of several that
\* share it (lock.go anyConflict, release), if its release can tell their claims apart; with an empty
\* set of prefixes beside one of the whole repository it cannot.
THEOREM ConflictsExclude ==
  ASSUME ClaimsNamed
  PROVE  Spec => []HeldConflictFree
<1>1. Init => HInv
  <2> SUFFICES ASSUME Init PROVE HInv
    OBVIOUS
  <2>1. Active = {}
    BY DEF Init, Active, Running
  <2>2. HeldConflictFree
    BY DEF Init, HeldConflictFree, Running
  <2>3. Holding
    <3> DEFINE f == [j \in {} |-> 0]
    <3>1. f \in [Active -> DOMAIN held]
      BY <2>1
    <3> QED
      BY <2>1, <3>1 DEF Holding
  <2> QED
    BY <2>2, <2>3, InitIInv DEF HInv
<1>2. HInv /\ [Next]_vars => HInv'
  <2> SUFFICES ASSUME HInv, [Next]_vars PROVE HInv'
    OBVIOUS
  <2>1. IInv'
    BY NextInv DEF HInv
  <2>2. ASSUME NEW i \in Txns, Step(i) PROVE Holding' /\ HeldConflictFree'
    BY <2>2, StepHolds
  <2>3. ASSUME txn' = txn, pc' = pc, held' = held PROVE Holding' /\ HeldConflictFree'
    <3>1. Active' = Active
      BY <2>3 DEF Active
    <3> QED
      BY <2>3, <3>1, FewerHold
  <2>4. Holding' /\ HeldConflictFree'
    <3>1. (\E i \in Txns : Step(i)) \/ (txn' = txn /\ pc' = pc /\ held' = held)
      BY DEF Next, Cancel, External, Finished, vars
    <3> QED
      BY <2>2, <2>3, <3>1
  <2> QED
    BY <2>1, <2>4 DEF HInv
<1>3. HInv => HeldConflictFree
  BY DEF HInv
<1> QED
  BY <1>1, <1>2, <1>3, PTL DEF Spec

=============================================================================
