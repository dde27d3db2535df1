---------------------------- MODULE InboundProofs ----------------------------
(* Machine-checked proofs about what comes in from outside: signed ref updates
   (RefUpdate), for any number of verifiers, any set of updates, records and
   scopes and any bounds; and rows of a tracker (Bridge), for one connector, any
   number of authors, any texts and decisions and any bounds.               *)
EXTENDS RefUpdate, Bridge, FiniteSetTheorems, SequenceTheorems, TLAPS

\* The right the verdict rests on, spelled out on the update v works on.
HeldBy(v) ==
    \E r \in job[v].trust :
       /\ r.fp = job[v].u.signer
       /\ r.right >= RightPromote
       /\ \A k \in DOMAIN r.scope :
             k \in DOMAIN job[v].u.scope /\ r.scope[k] = job[v].u.scope[k]

\* Past Receive, the update is signed and its signer was entitled.
Entitled ==
    \A v \in Verifiers :
       pc[v] \in {"objects", "nonce", "swap"} => job[v].u.signed /\ HeldBy(v)

\* Past CheckObjects, the new object is here.
NewIsHere ==
    \A v \in Verifiers : pc[v] \in {"nonce", "swap"} => job[v].u.new \in objects \cup {NoId}

\* A verifier's time is never ahead of the clock.
NowBehind == \A v \in Verifiers : job[v].now <= clock

\* The guard remembers an entry while its not_after has not passed: for the
\* updates applied and for those a verifier is about to apply.
Entry(u) == [key |-> Key(u), expires |-> u.expires]

Remembered ==
    /\ \A i \in DOMAIN applied : clock <= applied[i].u.expires => Entry(applied[i].u) \in seen
    /\ \A v \in Verifiers :
          pc[v] = "swap" /\ clock <= job[v].u.expires => Entry(job[v].u) \in seen

\* Two checks of one nonce, neither made after the other's not_after.
Clash(u, checked, w, rechecked) ==
    Key(u) = Key(w) /\ checked <= w.expires /\ rechecked <= u.expires

\* No verifier about to swap clashes with another or with an update applied.
SwapsApart ==
    \A v \in Verifiers : pc[v] = "swap" =>
       /\ \A w \in Verifiers \ {v} :
             pc[w] = "swap" => ~Clash(job[v].u, job[v].checked, job[w].u, job[w].checked)
       /\ \A i \in DOMAIN applied :
             ~Clash(job[v].u, job[v].checked, applied[i].u, applied[i].checked)

\* The inductive invariant.
IInv == /\ TypeOK /\ NoDanglingRef /\ Entitled /\ NewIsHere /\ NowBehind
        /\ Remembered /\ SwapsApart /\ OnceBeforeNotAfter /\ AppliedAsSigned

-----------------------------------------------------------------------------
(* About the operators.                                                     *)

\* Scope.Covers, path segment by path segment.
LEMMA CoversPointwise ==
  ASSUME NEW sc \in Scopes, NEW target \in Scopes, Covers(sc, target)
  PROVE  \A k \in DOMAIN sc : k \in DOMAIN target /\ sc[k] = target[k]
<1>1. sc \in Seq({sc[k] : k \in DOMAIN sc}) /\ target \in Seq({target[k] : k \in DOMAIN target})
  BY RefUpdateAssumption DEF RefUpdateAssumption
<1>2. Len(sc) \in Nat /\ Len(target) \in Nat /\ DOMAIN sc = 1 .. Len(sc)
      /\ DOMAIN target = 1 .. Len(target)
  BY <1>1, LenProperties
<1>3. Len(sc) <= Len(target) /\ SubSeq(target, 1, Len(sc)) = sc
  BY DEF Covers
<1>4. \A k \in 1 .. Len(sc) : SubSeq(target, 1, Len(sc))[k] = target[k]
  BY <1>1, <1>2, <1>3
<1>5. QED
  BY <1>2, <1>3, <1>4

\* The fields of an update.
LEMMA UpdateFields ==
  ASSUME NEW u \in Updates
  PROVE  /\ u.ref \in Names /\ u.old \in Vals /\ u.new \in Vals /\ u.scope \in Scopes
         /\ u.signer \in Principals /\ u.nonce \in Nat /\ u.expires \in Nat
         /\ u.evidence \subseteq Ids /\ u.signed \in BOOLEAN
  BY RefUpdateAssumption DEF RefUpdateAssumption, Update

\* What Swap records of v's verdict.
LEMMA AppliedRecords ==
  ASSUME NEW v \in Verifiers
  PROVE  Applied(v) = [u |-> job[v].u, checked |-> job[v].checked,
                       from |-> refs[job[v].u.ref], held |-> HeldBy(v)]
  BY DEF Applied, HeldBy

\* It is a swap of the declared kind.
LEMMA AppliedIsPromotion ==
  ASSUME TypeOK, NEW v \in Verifiers, job[v].u \in Updates
  PROVE  Applied(v) \in Promotion
<1>1. job[v].checked \in 0 .. MaxTime
  BY DEF TypeOK, Job
<1>2. refs[job[v].u.ref] \in Vals
  BY UpdateFields DEF TypeOK
<1>3. HeldBy(v) \in BOOLEAN
  BY DEF HeldBy
<1>4. QED
  BY <1>1, <1>2, <1>3, AppliedRecords DEF Promotion

-----------------------------------------------------------------------------
(* Every step preserves the invariant; one lemma for each conjunct.         *)

\* Every step keeps the declared types.
LEMMA NextTypeOK ==
  ASSUME TypeOK, [Next]_vars
  PROVE  TypeOK'
<1> USE RefUpdateAssumption DEF RefUpdateAssumption, TypeOK, Vals
<1>1. CASE UNCHANGED vars
  BY <1>1 DEF vars
<1>2. ASSUME NEW v \in Verifiers, NEW u \in Updates, Receive(v, u) PROVE TypeOK'
  <2>1. [u |-> u, now |-> clock, trust |-> trust, checked |-> 0] \in Job
    BY DEF Job
  <2>2. job' \in [Verifiers -> Job]
    BY <1>2, <2>1 DEF Receive
  <2>3. \A w \in Verifiers : pc'[w] # "idle" => job'[w].u \in Updates
    BY <1>2 DEF Receive, Answer, Goto
  <2>4. QED
    BY <1>2, <2>2, <2>3 DEF Receive, Answer, Goto
<1>3. ASSUME NEW v \in Verifiers, CheckObjects(v) PROVE TypeOK'
  BY <1>3 DEF CheckObjects, Answer, Goto
<1>4. ASSUME NEW v \in Verifiers, CheckNonce(v) PROVE TypeOK'
  <2>1. job[v].u \in Updates /\ job[v].u.expires \in Nat
    BY <1>4, UpdateFields DEF CheckNonce
  <2>2. seen' \subseteq [key : {Key(u) : u \in Updates}, expires : Nat]
    BY <1>4, <2>1 DEF CheckNonce, Pruned
  <2>3. /\ [job[v] EXCEPT !.checked = clock] \in Job
        /\ [job[v] EXCEPT !.checked = clock].u = job[v].u
    <3>1. job[v] \in Job /\ clock \in 0 .. MaxTime
      OBVIOUS
    <3>2. [job[v] EXCEPT !.checked = clock] \in Job
      BY <3>1 DEF Job
    <3>3. [job[v] EXCEPT !.checked = clock].u = job[v].u
      BY <3>1 DEF Job
    <3>4. QED
      BY <3>2, <3>3
  <2>4. job' = job \/ job' = [job EXCEPT ![v] = [job[v] EXCEPT !.checked = clock]]
    BY <1>4 DEF CheckNonce
  <2>5. job' \in [Verifiers -> Job]
    BY <2>3, <2>4
  <2>6. \A w \in Verifiers : job'[w].u = job[w].u
    BY <2>3, <2>4
  <2>7. QED
    BY <1>4, <2>1, <2>2, <2>5, <2>6 DEF CheckNonce, Answer, Goto
<1>5. ASSUME NEW v \in Verifiers, Swap(v) \/ SwapError(v) PROVE TypeOK'
  <2>1. /\ job[v].u \in Updates
        /\ job[v].u.ref \in Names /\ job[v].u.new \in Vals
    BY <1>5, UpdateFields DEF Swap, SwapError
  <2>2. refs' \in [Names -> Vals]
    BY <1>5, <2>1 DEF Swap, SwapError, Moved
  <2>3. Applied(v) \in Promotion
    BY <2>1, AppliedIsPromotion
  <2>4. applied' \in Seq(Promotion)
    <3>1. applied' = applied \/ applied' = Append(applied, Applied(v))
      BY <1>5 DEF Swap, SwapError, Moved
    <3>2. QED
      BY <2>3, <3>1, AppendProperties
  <2>5. QED
    BY <1>5, <2>1, <2>2, <2>4 DEF Swap, SwapError, Answer, Goto
<1>6. ASSUME NEW v \in Verifiers, GuardError(v) \/ Audit(v) \/ Crash(v)
      PROVE TypeOK'
  BY <1>6 DEF GuardError, Audit, Crash, Answer, Goto
<1>7. CASE Tick
  BY <1>7 DEF Tick
<1>8. ASSUME NEW i \in Ids, Arrive(i) PROVE TypeOK'
  BY <1>8 DEF Arrive
<1>9. ASSUME NEW n \in Names, NEW x \in Vals, MoveRef(n, x) PROVE TypeOK'
  BY <1>9 DEF MoveRef
<1>10. ASSUME NEW r \in Records, TrustAdd(r) PROVE TypeOK'
  BY <1>10 DEF TrustAdd
<1>11. ASSUME NEW fp \in Principals, TrustRemove(fp) PROVE TypeOK'
  BY <1>11 DEF TrustRemove
<1>12. QED
  BY <1>1, <1>2, <1>3, <1>4, <1>5, <1>6, <1>7, <1>8, <1>9, <1>10, <1>11 DEF Next

\* CheckNonce leaves the update, the time and the trust store v works with.
LEMMA SameJob ==
  ASSUME TypeOK, NEW v \in Verifiers, CheckNonce(v)
  PROVE  /\ \A w \in Verifiers : /\ job'[w].u = job[w].u /\ job'[w].now = job[w].now
                                 /\ job'[w].trust = job[w].trust
         /\ \A w \in Verifiers \ {v} : job'[w] = job[w]
<1>1. job[v] \in Job
  BY DEF TypeOK
<1>2. /\ [job[v] EXCEPT !.checked = clock].u = job[v].u
      /\ [job[v] EXCEPT !.checked = clock].now = job[v].now
      /\ [job[v] EXCEPT !.checked = clock].trust = job[v].trust
  BY <1>1 DEF Job
<1>3. job' = job \/ job' = [job EXCEPT ![v] = [job[v] EXCEPT !.checked = clock]]
  BY DEF CheckNonce
<1>4. QED
  BY <1>2, <1>3 DEF TypeOK

\* Objects only arrive, and a swap brings in one that is here.
LEMMA NextNoDanglingRef ==
  ASSUME TypeOK, NewIsHere, NoDanglingRef, [Next]_vars
  PROVE  NoDanglingRef'
<1>1. CASE UNCHANGED <<refs, objects>>
  BY <1>1 DEF NoDanglingRef
<1>2. ASSUME NEW v \in Verifiers, Swap(v) \/ SwapError(v) PROVE NoDanglingRef'
  <2>1. job[v].u \in Updates /\ job[v].u.new \in objects \cup {NoId}
    BY <1>2 DEF Swap, SwapError, TypeOK, NewIsHere
  <2>2. QED
    BY <1>2, <2>1 DEF Swap, SwapError, Moved, TypeOK, NoDanglingRef
<1>3. ASSUME NEW i \in Ids, Arrive(i) PROVE NoDanglingRef'
  BY <1>3 DEF Arrive, NoDanglingRef
<1>4. ASSUME NEW n \in Names, NEW x \in Vals, MoveRef(n, x) PROVE NoDanglingRef'
  BY <1>4 DEF MoveRef, TypeOK, NoDanglingRef
<1>5. QED
  BY <1>1, <1>2, <1>3, <1>4
  DEF vars, Next, Receive, CheckObjects, CheckNonce, Audit, GuardError, Crash, Tick,
      TrustAdd, TrustRemove

\* An update passes Receive only when Authorized said yes, on the trust store v keeps.
LEMMA NextEntitled ==
  ASSUME TypeOK, Entitled, [Next]_vars
  PROVE  Entitled'
<1>1. CASE UNCHANGED <<pc, job>>
  BY <1>1 DEF Entitled, HeldBy
<1>2. ASSUME NEW v \in Verifiers, NEW u \in Updates, Receive(v, u) PROVE Entitled'
  <2>1. \A w \in Verifiers \ {v} : pc'[w] = pc[w] /\ job'[w] = job[w]
    BY <1>2 DEF Receive, Answer, Goto, TypeOK
  <2>2. job'[v] = [u |-> u, now |-> clock, trust |-> trust, checked |-> 0]
    BY <1>2 DEF Receive, TypeOK
  <2>3. ASSUME pc'[v] \in {"objects", "nonce", "swap"} PROVE u.signed /\ HeldBy(v)'
    <3>1. u.signed /\ Authorized(trust, u.signer, RightPromote, u.scope)
      BY <1>2, <2>3, UpdateFields DEF Receive, Answer, Goto, TypeOK
    <3>2. PICK r \in trust : r.fp = u.signer /\ Allows(r.right, RightPromote)
                             /\ Covers(r.scope, u.scope)
      BY <3>1 DEF Authorized
    <3>3. r.scope \in Scopes /\ u.scope \in Scopes
      BY RefUpdateAssumption, UpdateFields DEF RefUpdateAssumption, Record, TypeOK
    <3>4. \A k \in DOMAIN r.scope : k \in DOMAIN u.scope /\ r.scope[k] = u.scope[k]
      BY <3>2, <3>3, CoversPointwise
    <3>5. QED
      BY <2>2, <3>1, <3>2, <3>4 DEF HeldBy, Allows
  <2>4. QED
    BY <2>1, <2>2, <2>3 DEF Entitled, HeldBy
<1>3. ASSUME NEW v \in Verifiers, CheckObjects(v) PROVE Entitled'
  BY <1>3 DEF CheckObjects, Answer, Goto, TypeOK, Entitled, HeldBy
<1>4. ASSUME NEW v \in Verifiers, CheckNonce(v) PROVE Entitled'
  <2>1. \A w \in Verifiers : pc'[w] \in {"objects", "nonce", "swap"}
                               => pc[w] \in {"objects", "nonce", "swap"}
    BY <1>4 DEF CheckNonce, Answer, Goto, TypeOK
  <2>2. QED
    BY <1>4, <2>1, SameJob DEF Entitled, HeldBy
<1>5. ASSUME NEW v \in Verifiers,
             Swap(v) \/ SwapError(v) \/ GuardError(v) \/ Audit(v) \/ Crash(v)
      PROVE Entitled'
  BY <1>5 DEF Swap, SwapError, GuardError, Audit, Crash, Answer, Goto, TypeOK, Entitled, HeldBy
<1>6. QED
  BY <1>1, <1>2, <1>3, <1>4, <1>5
  DEF vars, Next, Tick, Arrive, MoveRef, TrustAdd, TrustRemove

\* No object is removed, so the check still holds at the swap.
LEMMA NextNewIsHere ==
  ASSUME TypeOK, NewIsHere, [Next]_vars
  PROVE  NewIsHere'
<1>1. CASE UNCHANGED <<pc, job, objects>>
  BY <1>1 DEF NewIsHere
<1>2. ASSUME NEW v \in Verifiers, NEW u \in Updates, Receive(v, u) PROVE NewIsHere'
  BY <1>2 DEF Receive, Answer, Goto, TypeOK, NewIsHere
<1>3. ASSUME NEW v \in Verifiers, CheckObjects(v) PROVE NewIsHere'
  BY <1>3 DEF CheckObjects, Answer, Goto, TypeOK, NewIsHere
<1>4. ASSUME NEW v \in Verifiers, CheckNonce(v) PROVE NewIsHere'
  <2>1. \A w \in Verifiers : pc'[w] \in {"nonce", "swap"} => pc[w] \in {"nonce", "swap"}
    BY <1>4 DEF CheckNonce, Answer, Goto, TypeOK
  <2>2. objects' = objects
    BY <1>4 DEF CheckNonce
  <2>3. QED
    BY <1>4, <2>1, <2>2, SameJob DEF NewIsHere
<1>5. ASSUME NEW v \in Verifiers,
             Swap(v) \/ SwapError(v) \/ GuardError(v) \/ Audit(v) \/ Crash(v)
      PROVE NewIsHere'
  BY <1>5 DEF Swap, SwapError, GuardError, Audit, Crash, Answer, Goto, TypeOK, NewIsHere
<1>6. ASSUME NEW i \in Ids, Arrive(i) PROVE NewIsHere'
  BY <1>6 DEF Arrive, NewIsHere
<1>7. QED
  BY <1>1, <1>2, <1>3, <1>4, <1>5, <1>6 DEF vars, Next, Tick, MoveRef, TrustAdd, TrustRemove

\* The clock does not go back.
LEMMA NextNowBehind ==
  ASSUME TypeOK, NowBehind, [Next]_vars
  PROVE  NowBehind'
<1> USE RefUpdateAssumption DEF RefUpdateAssumption
<1>1. CASE UNCHANGED <<job, clock>>
  BY <1>1 DEF NowBehind
<1>2. ASSUME NEW v \in Verifiers, NEW u \in Updates, Receive(v, u) PROVE NowBehind'
  BY <1>2 DEF Receive, TypeOK, NowBehind
<1>3. ASSUME NEW v \in Verifiers, CheckNonce(v) PROVE NowBehind'
  <2>1. clock' = clock
    BY <1>3 DEF CheckNonce
  <2>2. QED
    BY <1>3, <2>1, SameJob DEF NowBehind
<1>4. CASE Tick
  <2>1. \A w \in Verifiers : job[w].now \in 0 .. MaxTime
    BY DEF TypeOK, Job
  <2>2. QED
    BY <1>4, <2>1 DEF Tick, TypeOK, NowBehind
<1>5. QED
  BY <1>1, <1>2, <1>3, <1>4
  DEF vars, Next, CheckObjects, Swap, Audit, SwapError, GuardError, Crash, Arrive, MoveRef,
      TrustAdd, TrustRemove

\* A swap, answered as such or not, adds at most one entry, the one of v's verdict, and takes v
\* out of "swap".
LEMMA SwapAppends ==
  ASSUME TypeOK, NEW v \in Verifiers, Swap(v) \/ SwapError(v)
  PROVE  /\ pc[v] = "swap" /\ pc'[v] # "swap"
         /\ \A w \in Verifiers \ {v} : pc'[w] = pc[w]
         /\ DOMAIN applied \subseteq DOMAIN applied'
         /\ \A i \in DOMAIN applied : applied'[i] = applied[i]
         /\ \A i \in DOMAIN applied' \ DOMAIN applied :
               /\ i = Len(applied) + 1 /\ applied'[i] = Applied(v)
               /\ refs[job[v].u.ref] = job[v].u.old
<1>1. applied \in Seq(Promotion) /\ Applied(v) \in Promotion
  BY AppliedIsPromotion DEF Swap, SwapError, TypeOK
<1>2. \/ applied' = applied
      \/ applied' = Append(applied, Applied(v)) /\ refs[job[v].u.ref] = job[v].u.old
  BY DEF Swap, SwapError, Moved
<1>3. pc[v] = "swap" /\ pc'[v] # "swap" /\ \A w \in Verifiers \ {v} : pc'[w] = pc[w]
  BY DEF Swap, SwapError, Answer, TypeOK
<1>4. QED
  BY <1>1, <1>2, <1>3, AppendProperties

\* What is applied is of the declared kind.
LEMMA AppliedFields ==
  ASSUME TypeOK, NEW i \in DOMAIN applied
  PROVE  applied[i].u \in Updates /\ applied[i].checked \in Nat /\ applied[i].u.expires \in Nat
<1>1. applied[i] \in Promotion
  BY ElementOfSeq, LenProperties DEF TypeOK
<1>2. QED
  BY <1>1, UpdateFields, RefUpdateAssumption DEF Promotion, RefUpdateAssumption

\* A guard drops an entry only when its not_after is before the time the verifier
\* started at, and the clock has passed that since.
LEMMA NextRemembered ==
  ASSUME TypeOK, NowBehind, Remembered, [Next]_vars
  PROVE  Remembered'
<1>1. CASE UNCHANGED <<clock, applied, pc, job, seen>>
  BY <1>1 DEF Remembered, Entry, Key
<1>2. ASSUME NEW v \in Verifiers, NEW u \in Updates, Receive(v, u) PROVE Remembered'
  <2>1. pc'[v] # "swap" /\ \A w \in Verifiers \ {v} : pc'[w] = pc[w] /\ job'[w] = job[w]
    BY <1>2 DEF Receive, Answer, Goto, TypeOK
  <2>2. UNCHANGED <<clock, applied, seen>>
    BY <1>2 DEF Receive
  <2>3. QED
    BY <2>1, <2>2 DEF Remembered, Entry, Key
<1>3. ASSUME NEW v \in Verifiers, CheckNonce(v) PROVE Remembered'
  <2>1. clock' = clock /\ applied' = applied
    BY <1>3 DEF CheckNonce
  <2>2. ASSUME NEW e \in seen, clock <= e.expires PROVE e \in seen'
    <3>1. job[v].now <= clock /\ job[v].now \in Nat /\ clock \in Nat /\ e.expires \in Nat
      BY RefUpdateAssumption DEF NowBehind, TypeOK, Job, RefUpdateAssumption
    <3>2. e \in Pruned(seen, job[v].now)
      BY <2>2, <3>1 DEF Pruned
    <3>3. QED
      BY <1>3, <3>2 DEF CheckNonce
  <2>3. \A w \in Verifiers \ {v} : pc'[w] = pc[w]
    BY <1>3 DEF CheckNonce, Answer, Goto, TypeOK
  <2>4. pc'[v] = "swap" => Entry(job[v].u) \in seen'
    BY <1>3 DEF CheckNonce, Answer, Goto, TypeOK, Entry
  <2>5. \A u : Entry(u).expires = u.expires
    BY DEF Entry
  <2>6. \A w \in Verifiers : job'[w].u = job[w].u
    BY <1>3, SameJob
  <2>7. QED
    BY <2>1, <2>2, <2>3, <2>4, <2>5, <2>6 DEF Remembered, Entry, Key
<1>4. ASSUME NEW v \in Verifiers, Swap(v) \/ SwapError(v) PROVE Remembered'
  <2>1. clock' = clock /\ seen' = seen /\ job' = job
    BY <1>4 DEF Swap, SwapError
  <2>2. Applied(v).u = job[v].u
    BY AppliedRecords
  <2>3. QED
    BY <1>4, <2>1, <2>2, SwapAppends DEF Remembered, Entry, Key
<1>5. ASSUME NEW v \in Verifiers,
             CheckObjects(v) \/ GuardError(v) \/ Audit(v) \/ Crash(v)
      PROVE Remembered'
  <2>1. \A w \in Verifiers : pc'[w] = "swap" => pc[w] = "swap"
    BY <1>5 DEF CheckObjects, GuardError, Audit, Crash, Answer, Goto, TypeOK
  <2>2. UNCHANGED <<clock, applied, job, seen>>
    BY <1>5 DEF CheckObjects, GuardError, Audit, Crash
  <2>3. QED
    BY <2>1, <2>2 DEF Remembered, Entry, Key
<1>6. CASE Tick
  <2>1. clock \in Nat /\ clock' = clock + 1 /\ UNCHANGED <<applied, pc, job, seen>>
    BY <1>6, RefUpdateAssumption DEF Tick, TypeOK, RefUpdateAssumption
  <2>2. \A i \in DOMAIN applied : clock + 1 <= applied[i].u.expires => clock <= applied[i].u.expires
    BY <2>1, AppliedFields
  <2>3. \A v \in Verifiers : pc[v] = "swap" =>
          (clock + 1 <= job[v].u.expires => clock <= job[v].u.expires)
    BY <2>1, UpdateFields DEF TypeOK
  <2>4. QED
    BY <2>1, <2>2, <2>3 DEF Remembered, Entry, Key
<1>7. QED
  BY <1>1, <1>2, <1>3, <1>4, <1>5, <1>6 DEF vars, Next, Arrive, MoveRef, TrustAdd, TrustRemove

\* The guard lets v pass only when no entry of its nonce is left, and then the
\* not_after of every update applied or about to be has passed.
LEMMA PassedAlone ==
  ASSUME TypeOK, NowBehind, Remembered, NEW v \in Verifiers, CheckNonce(v), pc'[v] = "swap",
         NEW u \in Updates, Key(u) = Key(job[v].u),
         clock <= u.expires => Entry(u) \in seen
  PROVE  ~(job'[v].checked <= u.expires)
<1>1. job'[v].checked = clock
  BY DEF CheckNonce, Answer, Goto, TypeOK, Job
<1>2. SUFFICES ASSUME clock <= u.expires PROVE FALSE
  BY <1>1
<1>3. job[v].now <= clock /\ job[v].now \in Nat /\ clock \in Nat /\ u.expires \in Nat
  BY UpdateFields, RefUpdateAssumption DEF NowBehind, TypeOK, Job, RefUpdateAssumption
<1>4. Entry(u) \in Pruned(seen, job[v].now)
  BY <1>2, <1>3 DEF Pruned, Entry
<1>5. QED
  BY <1>4 DEF CheckNonce, Answer, Goto, TypeOK, Entry

\* Only one of the checks of a nonce lets its verifier pass while it is valid.
LEMMA NextSwapsApart ==
  ASSUME TypeOK, NowBehind, Remembered, SwapsApart, [Next]_vars
  PROVE  SwapsApart'
<1>1. CASE UNCHANGED <<pc, job, applied>>
  BY <1>1 DEF SwapsApart, Clash, Key
<1>2. ASSUME NEW v \in Verifiers, NEW u \in Updates, Receive(v, u) PROVE SwapsApart'
  <2>1. pc'[v] # "swap" /\ \A w \in Verifiers \ {v} : pc'[w] = pc[w] /\ job'[w] = job[w]
    BY <1>2 DEF Receive, Answer, Goto, TypeOK
  <2>2. applied' = applied
    BY <1>2 DEF Receive
  <2>3. QED
    BY <2>1, <2>2 DEF SwapsApart, Clash, Key
<1>3. ASSUME NEW v \in Verifiers, CheckNonce(v) PROVE SwapsApart'
  <2>1. applied' = applied
    BY <1>3 DEF CheckNonce
  <2>2. \A w \in Verifiers \ {v} : pc'[w] = pc[w] /\ job'[w] = job[w]
    BY <1>3, SameJob DEF CheckNonce, Answer, Goto, TypeOK
  <2>3. job'[v].u = job[v].u
    BY <1>3, SameJob
  <2>4. ASSUME NEW w \in Verifiers \ {v}, pc'[v] = "swap", pc'[w] = "swap"
        PROVE  /\ ~Clash(job'[v].u, job'[v].checked, job'[w].u, job'[w].checked)
               /\ ~Clash(job'[w].u, job'[w].checked, job'[v].u, job'[v].checked)
    <3>1. pc[w] = "swap" /\ job'[w] = job[w] /\ job[w].u \in Updates
      BY <2>2, <2>4 DEF TypeOK
    <3>2. clock <= job[w].u.expires => Entry(job[w].u) \in seen
      BY <3>1 DEF Remembered
    <3>3. Key(job[w].u) = Key(job[v].u) => ~(job'[v].checked <= job[w].u.expires)
      BY <1>3, <2>4, <3>1, <3>2, PassedAlone
    <3>4. QED
      BY <2>3, <3>1, <3>3 DEF Clash
  <2>5. ASSUME NEW i \in DOMAIN applied, pc'[v] = "swap"
        PROVE  ~Clash(job'[v].u, job'[v].checked, applied[i].u, applied[i].checked)
    <3>1. applied[i].u \in Updates
      BY AppliedFields
    <3>2. clock <= applied[i].u.expires => Entry(applied[i].u) \in seen
      BY DEF Remembered
    <3>3. Key(applied[i].u) = Key(job[v].u) => ~(job'[v].checked <= applied[i].u.expires)
      BY <1>3, <2>5, <3>1, <3>2, PassedAlone
    <3>4. QED
      BY <2>3, <3>3 DEF Clash
  <2>6. QED
    BY <2>1, <2>2, <2>4, <2>5 DEF SwapsApart, Clash, Key
<1>4. ASSUME NEW v \in Verifiers, Swap(v) \/ SwapError(v) PROVE SwapsApart'
  <2>1. job' = job
    BY <1>4 DEF Swap, SwapError
  <2>2. Applied(v).u = job[v].u /\ Applied(v).checked = job[v].checked
    BY AppliedRecords
  <2>3. QED
    BY <1>4, <2>1, <2>2, SwapAppends DEF SwapsApart, Clash, Key
<1>5. ASSUME NEW v \in Verifiers,
             CheckObjects(v) \/ GuardError(v) \/ Audit(v) \/ Crash(v)
      PROVE SwapsApart'
  <2>1. \A w \in Verifiers : pc'[w] = "swap" => pc[w] = "swap"
    BY <1>5 DEF CheckObjects, GuardError, Audit, Crash, Answer, Goto, TypeOK
  <2>2. UNCHANGED <<applied, job>>
    BY <1>5 DEF CheckObjects, GuardError, Audit, Crash
  <2>3. QED
    BY <2>1, <2>2 DEF SwapsApart, Clash, Key
<1>6. QED
  BY <1>1, <1>2, <1>3, <1>4, <1>5 DEF vars, Next, Tick, Arrive, MoveRef, TrustAdd, TrustRemove

\* Only a swap, if it is one reported as failed, applies an update, and it clashes with none
\* applied before.
LEMMA NextOnceBeforeNotAfter ==
  ASSUME TypeOK, SwapsApart, OnceBeforeNotAfter, [Next]_vars
  PROVE  OnceBeforeNotAfter'
<1>1. CASE UNCHANGED applied
  BY <1>1 DEF OnceBeforeNotAfter, Key
<1>2. ASSUME NEW v \in Verifiers, Swap(v) \/ SwapError(v) PROVE OnceBeforeNotAfter'
  <2>1. Applied(v).u = job[v].u /\ Applied(v).checked = job[v].checked
    BY AppliedRecords
  <2>2. \A i \in DOMAIN applied : ~Clash(job[v].u, job[v].checked, applied[i].u, applied[i].checked)
    BY <1>2, SwapAppends DEF SwapsApart
  <2>3. QED
    BY <1>2, <2>1, <2>2, SwapAppends DEF OnceBeforeNotAfter, Clash, Key
<1>3. QED
  BY <1>1, <1>2
  DEF vars, Next, Receive, CheckObjects, CheckNonce, Audit, GuardError, Crash, Tick,
      Arrive, MoveRef, TrustAdd, TrustRemove

\* A swap replaces the value the update expects, on the right v found.
LEMMA NextAppliedAsSigned ==
  ASSUME TypeOK, Entitled, AppliedAsSigned, [Next]_vars
  PROVE  AppliedAsSigned'
<1>1. CASE UNCHANGED applied
  BY <1>1 DEF AppliedAsSigned
<1>2. ASSUME NEW v \in Verifiers, Swap(v) \/ SwapError(v) PROVE AppliedAsSigned'
  <2>1. job[v].u.signed /\ HeldBy(v)
    BY <1>2, SwapAppends DEF Entitled
  <2>2. Applied(v).u = job[v].u /\ Applied(v).from = refs[job[v].u.ref]
    BY AppliedRecords
  <2>3. Applied(v).held = HeldBy(v)
    BY AppliedRecords
  <2>4. Applied(v).held
    BY <2>1, <2>3, Zenon
  <2>5. ASSUME NEW k \in DOMAIN applied', k \notin DOMAIN applied
        PROVE  applied'[k] = Applied(v) /\ refs[job[v].u.ref] = job[v].u.old
    BY <1>2, <2>5, SwapAppends
  <2>6. \A k \in DOMAIN applied : applied'[k] = applied[k]
    BY <1>2, SwapAppends
  <2>7. QED
    BY <2>1, <2>2, <2>4, <2>5, <2>6, Zenon DEF AppliedAsSigned
<1>3. QED
  BY <1>1, <1>2
  DEF vars, Next, Receive, CheckObjects, CheckNonce, Audit, GuardError, Crash, Tick,
      Arrive, MoveRef, TrustAdd, TrustRemove

\* The invariant holds at the start.
LEMMA InitIInv == Init => IInv
<1> SUFFICES ASSUME Init PROVE IInv
  OBVIOUS
<1>1. NoJob \in Job /\ NoJob.now = 0
  BY RefUpdateAssumption DEF NoJob, Job, RefUpdateAssumption
<1>2. TypeOK
  BY <1>1, RefUpdateAssumption DEF Init, TypeOK, Vals, RefUpdateAssumption
<1>3. NoDanglingRef /\ Entitled /\ NewIsHere /\ NowBehind
  BY <1>1 DEF Init, NoDanglingRef, Entitled, NewIsHere, NowBehind
<1>4. Remembered /\ SwapsApart /\ OnceBeforeNotAfter /\ AppliedAsSigned
  BY DEF Init, Remembered, SwapsApart, OnceBeforeNotAfter, AppliedAsSigned
<1>5. QED
  BY <1>2, <1>3, <1>4 DEF IInv

\* The invariant holds in every state.
THEOREM Invariance == Spec => []IInv
<1>1. ASSUME IInv, [Next]_vars PROVE IInv'
  BY <1>1, NextTypeOK, NextNoDanglingRef, NextEntitled, NextNewIsHere, NextNowBehind,
     NextRemembered, NextSwapsApart, NextOnceBeforeNotAfter, NextAppliedAsSigned
  DEF IInv
<1>2. QED
  BY <1>1, InitIInv, PTL DEF Spec

-----------------------------------------------------------------------------
\* The repository the verifiers share stays well formed: what Verify swaps in was
\* found by its presence check and nothing removes it before the swap.
THEOREM RepositoryWhole == Spec => []WholeInv
  BY Invariance, PTL DEF IInv, WholeInv

\* The nonce of a dated update takes effect at most once through checks made
\* before a not_after it was signed with has passed, however many verifiers run
\* Verify at once.  An update that is not dated has no such protection.
THEOREM NoReplayBeforeNotAfter == Spec => []OnceBeforeNotAfter
  BY Invariance, PTL DEF IInv

\* Whatever Verify applies was signed by a principal entitled to promote on the
\* declared scope and replaced the value its signer expected.
THEOREM AppliedWithAuthority == Spec => []AppliedAsSigned
  BY Invariance, PTL DEF IInv

-----------------------------------------------------------------------------
(* The bridge: what its invariant is made of.                               *)

\* One connector keeps one row: of two, each takes the other's work for an edit of the row.
OneConnector == \A c, d \in Conns : c = d

\* A revision made locally has reached the row, or was made while the connector was at work.
Told(h) == revs[h].by = "local" => h \in sent \cup raced

\* Since h became head only local revisions were made, at which the connector was at work.
Since(h) == \A k \in DOMAIN revs : k > h => revs[k].by = "local" /\ k \in raced

\* A text that is in the row was typed there, or is that of the revision sent last and of whatever
\* the connector has made since.
Explained(s) ==
    \/ s \in typed
    \/ \E r \in sent : /\ revs[r].spec = s
                       /\ \A x \in sent : x <= r
                       /\ \A k \in DOMAIN revs : k > r /\ revs[k].by = "bridge" => revs[k].spec = s

\* The watermarks of a link name revisions that are there.
Marks(l) == l.pushed \in DOMAIN revs /\ Told(l.pushed) /\ l.transHead <= HeadRev

\* The last attestation is what the link says was recorded last.
Noted(l) == atts[Len(atts)].dec = l.trans /\ atts[Len(atts)].rev = l.transHead

Unnoted == Len(atts) > 0 /\ ~ Noted(link)

\* A verb is about to write that link ...
Pending(r) == r.pc \in {"tip", "swap"} /\ Len(atts) > 0 /\ Noted(r.link)

\* ... or about to attest what was attested last.
Again(r) ==
    /\ r.pc \in {"attest", "attach"} /\ Len(atts) > 0
    /\ atts[Len(atts)].dec = r.dec /\ atts[Len(atts)].rev = r.head

\* A transition may be attested once more.
Owing ==
    \/ Unnoted /\ \A c \in Conns : ~ Pending(proc[c])
    \/ \E c \in Conns : Again(proc[c])

\* Every repetition, and one that may come, is paid for.
Paid == Cardinality({i \in DOMAIN atts : SameBefore(i)}) + (IF Owing THEN 1 ELSE 0) <= crashes + lost

\* A link that is carried says what the newest does, unless that has been replaced.
Current(r) == r.seen = tip => r.link.trans = link.trans /\ r.link.transHead = link.transHead

\* What a connector's verb knows.
Knows(r) ==
    /\ r.pc \in {"revise", "cas", "attest", "attach"} => Marks(r.link) /\ Current(r)
    /\ r.pc \in {"applyLink", "revise", "cas", "send", "markLink", "transLink", "attest", "attach",
                 "edgeList", "edgeAdd", "edgeSwap"} => r.head \in DOMAIN revs
    /\ r.pc \in {"apply", "applyLink"} => r.spec \in Specs /\ Explained(r.spec)
    /\ r.pc \in {"apply", "applyLink", "revise", "cas"} => row.spec \in typed \/ row.spec = r.spec
    /\ r.pc \in {"applyLink", "send"} => \A x \in sent : x <= r.head
    /\ r.pc \in {"applyLink", "send", "revise", "cas"} => Since(r.head)
    /\ r.pc \in {"revise", "cas"} => Told(r.head) /\ (r.spec \in typed \/ r.head \in raced)
    /\ r.pc = "cas" => r.base >= r.head
    /\ r.pc = "mark" => Told(HeadRev)
    /\ r.pc = "markLink" => Told(r.head)
    /\ r.pc \in {"trans", "transLink", "attest", "attach"} => r.dec \in Decisions
    /\ r.pc \in {"transLink", "attest", "attach"} => \A i \in DOMAIN atts : atts[i].rev <= r.head
    /\ r.pc \in {"edgeAdd", "edgeSwap"} => \A i \in DOMAIN edges : edges[i] # r.head

\* What anybody's verb knows.
Good(p, r) ==
    /\ r.head <= HeadRev /\ r.base <= HeadRev /\ r.seen <= tip
    /\ r.pc = "swap" => r.seen <= r.tip /\ r.tip <= tip
    /\ r.pc \in {"tip", "swap"} => Marks(r.link) /\ (Current(r) \/ (p \in Conns /\ Pending(r)))
    /\ r.pc \in {"revise", "cas"} => r.spec \in Specs
    /\ p \in Authors => r.pc \in {"idle", "revise", "cas", "tip", "swap"}
    /\ p \in Conns => Knows(r)

\* Attestations go to later and later revisions.
InOrder == \A i, j \in DOMAIN atts : i <= j => atts[i].rev <= atts[j].rev

EdgesOnce == \A i, j \in DOMAIN edges : edges[i] = edges[j] => i = j

\* The inductive invariant.
BInv ==
    /\ BridgeTypeOK /\ revs[1].by = "local"
    /\ Marks(link) /\ Explained(row.spec) /\ InboundHonest
    /\ \A p \in Procs : Good(p, proc[p])
    /\ InOrder /\ EdgesOnce /\ Paid

-----------------------------------------------------------------------------
(* The bridge: the steps that read, and write nothing but what a verb knows. *)

\* All but the verbs and the count of edits.
rest == <<revs, link, tip, atts, edges, row, crashes, sent, typed, lost, raced>>

\* What the invariant says of one process.
LEMMA ProcLocals ==
    ASSUME BInv, NEW p \in Procs
    PROVE  /\ proc[p] \in Locals /\ Good(p, proc[p])
           /\ proc = [q \in Procs |-> proc[q]]
    BY DEF BInv, BridgeTypeOK

\* A step that only takes p on to r keeps the invariant if what r knows is true, if it is
\* owed for when r is about to attest again, and if p does not give up a link that would
\* have said so.
LEMMA QuietStep ==
    ASSUME BInv, NEW p \in Procs, NEW r \in Locals, Good(p, r),
           p \in Conns /\ Again(r) => Owing,
           p \in Conns /\ Pending(proc[p]) => Pending(r),
           proc' = [proc EXCEPT ![p] = r], edits' \in 0..MaxEdits, UNCHANGED rest
    PROVE  BInv'
    <1>1. revs' = revs /\ link' = link /\ tip' = tip /\ atts' = atts /\ edges' = edges
          /\ row' = row /\ crashes' = crashes /\ sent' = sent /\ typed' = typed /\ lost' = lost
          /\ raced' = raced
        BY DEF rest
    <1>2. proc' \in [Procs -> Locals]
        BY DEF BInv, BridgeTypeOK
    <1>3. \A q \in Procs : proc'[q] = IF q = p THEN r ELSE proc[q]
        BY DEF BInv, BridgeTypeOK
    <1>4. BridgeTypeOK'
        BY <1>1, <1>2 DEF BInv, BridgeTypeOK, HeadRev
    <1>5. ASSUME NEW q \in Procs PROVE Good(q, proc[q])'
        <2>1. Good(q, proc'[q])
            BY <1>3 DEF BInv
        <2>2. QED BY <1>1, <2>1 DEF Good, Knows, Marks, Current, Told, Since, Explained, Pending, Noted, HeadRev
    <1>6. Owing' => Owing
        <2>1. CASE Unnoted /\ \A c \in Conns : ~ Pending(proc'[c])
            <3>1. \A c \in Conns : Pending(proc[c]) => Pending(proc'[c])
                BY <1>3 DEF Procs
            <3>2. QED BY <2>1, <3>1 DEF Owing
        <2>2. CASE \E c \in Conns : Again(proc'[c])
            <3>1. PICK c \in Conns : Again(proc'[c])
                BY <2>2
            <3>2. CASE c = p BY <3>1, <3>2, <1>3 DEF Procs
            <3>3. CASE c # p BY <3>1, <3>3, <1>3 DEF Procs, Owing
            <3>4. QED BY <3>2, <3>3
        <2>3. Owing' => (Unnoted /\ \A c \in Conns : ~ Pending(proc'[c])) \/ (\E c \in Conns : Again(proc'[c]))
            BY <1>1 DEF Owing, Unnoted, Pending, Again, Noted
        <2>4. QED BY <2>1, <2>2, <2>3
    <1>7. Paid'
        <2>1. {i \in DOMAIN atts : SameBefore(i)}' = {i \in DOMAIN atts : SameBefore(i)}
            BY <1>1 DEF SameBefore
        <2> DEFINE N == Cardinality({i \in DOMAIN atts : SameBefore(i)})
        <2>2. N + (IF Owing THEN 1 ELSE 0) <= crashes + lost
            BY DEF BInv, Paid
        <2>3. N \in Nat
            <3>1. IsFiniteSet(DOMAIN atts)
                BY FS_Interval DEF BInv, BridgeTypeOK
            <3>2. QED BY <3>1, FS_Subset, FS_CardinalityType
        <2>4. N' = N BY <2>1
        <2>5. N' + (IF Owing' THEN 1 ELSE 0) <= crashes' + lost'
            <3> HIDE DEF N
            <3>1. crashes + lost \in Nat BY DEF BInv, BridgeTypeOK
            <3>2. QED BY <1>1, <1>6, <2>2, <2>3, <2>4, <3>1
        <2>6. QED BY <2>5 DEF Paid
    <1>8. (revs[1].by = "local" /\ Marks(link) /\ Explained(row.spec) /\ InboundHonest /\ InOrder /\ EdgesOnce)'
        BY <1>1 DEF BInv, Marks, Explained, InboundHonest, InOrder, EdgesOnce, Told, HeadRev
    <1>9. QED BY <1>4, <1>5, <1>7, <1>8 DEF BInv

\* Sequences by their elements.
LEMMA SeqOf ==
    ASSUME NEW S, NEW s \in Seq(S)
    PROVE  /\ Len(s) \in Nat /\ DOMAIN s = 1..Len(s)
           /\ \A i \in DOMAIN s : s[i] \in S
    OBVIOUS

\* What the types of the state come to.
LEMMA Shapes ==
    ASSUME BInv
    PROVE  /\ HeadRev \in Nat /\ HeadRev > 0 /\ DOMAIN revs = 1..HeadRev
           /\ \A k \in DOMAIN revs : revs[k] \in [spec : Specs, by : {"local", "bridge"}]
           /\ tip \in Nat /\ link \in Link
           /\ Len(atts) \in Nat /\ DOMAIN atts = 1..Len(atts)
           /\ \A i \in DOMAIN atts : atts[i] \in [rev : 1..HeadRev, dec : Decisions]
           /\ Len(edges) \in Nat /\ DOMAIN edges = 1..Len(edges)
           /\ \A i \in DOMAIN edges : edges[i] \in 1..HeadRev
           /\ crashes + lost \in Nat /\ lost \in Nat /\ crashes \in Nat
           /\ sent \subseteq 1..HeadRev /\ raced \subseteq 1..HeadRev
           /\ edits \in 0..MaxEdits
    <1>1. BridgeTypeOK BY DEF BInv
    <1>2. HeadRev \in Nat /\ HeadRev > 0 /\ DOMAIN revs = 1..HeadRev
          /\ \A k \in DOMAIN revs : revs[k] \in [spec : Specs, by : {"local", "bridge"}]
        BY ONLY <1>1, SeqOf DEF BridgeTypeOK, HeadRev
    <1>3. Len(atts) \in Nat /\ DOMAIN atts = 1..Len(atts)
          /\ \A i \in DOMAIN atts : atts[i] \in [rev : 1..HeadRev, dec : Decisions]
        BY ONLY <1>1, SeqOf DEF BridgeTypeOK
    <1>4. Len(edges) \in Nat /\ DOMAIN edges = 1..Len(edges)
          /\ \A i \in DOMAIN edges : edges[i] \in 1..HeadRev
        BY ONLY <1>1, SeqOf DEF BridgeTypeOK
    <1>5. QED BY <1>1, <1>2, <1>3, <1>4, BridgeAssumption DEF BridgeTypeOK

LEMMA PollStep ==
    ASSUME OneConnector, BInv, NEW p \in Conns, Poll(p)
    PROVE  BInv'
    <1> DEFINE r == [proc[p] EXCEPT !.pc = "apply", !.spec = row.spec]
    <1>1. proc[p] \in Locals /\ Good(p, proc[p]) /\ p \in Procs
        BY ProcLocals DEF Procs
    <1>2. r \in Locals
        BY <1>1, Shapes, BridgeAssumption DEF BInv, BridgeTypeOK, Poll, ReadHead, At, Locals
    <1>3. Good(p, r)
        BY <1>1, Shapes, BridgeAssumption DEF BInv, BridgeTypeOK, Poll, ReadHead, At, Good, Knows, Marks, Current, Told, Since, Explained, Pending, Noted, HeadRev, Procs
    <1>4. ~ Again(r) /\ ~ Pending(proc[p])
        BY <1>1 DEF Poll, ReadHead, At, Again, Pending
    <1>5. proc' = [proc EXCEPT ![p] = r]
        BY <1>1, ProcLocals DEF Poll, ReadHead, At, Locals, StepTo, Return
    <1>6. UNCHANGED rest /\ edits' \in 0..MaxEdits
        BY DEF Poll, ReadHead, rest, repo, history, BInv, BridgeTypeOK
    <1>7. QED BY <1>1, <1>2, <1>3, <1>4, <1>5, <1>6, QuietStep

LEMMA ApplyGetStep ==
    ASSUME OneConnector, BInv, NEW p \in Procs, ApplyGet(p)
    PROVE  BInv'
    <1> DEFINE r == [proc[p] EXCEPT !.pc = "applyLink", !.head = HeadRev]
    <1>1. proc[p] \in Locals /\ Good(p, proc[p]) /\ p \in Procs
        BY ProcLocals DEF Procs
    <1>2. r \in Locals
        BY <1>1, Shapes, BridgeAssumption DEF ApplyGet, ReadHead, At, Locals
    <1>3. Good(p, r)
        BY <1>1, Shapes, BridgeAssumption DEF BInv, BridgeTypeOK, ApplyGet, ReadHead, At, Good, Knows, Marks, Current, Told, Since, Explained, Pending, Noted, HeadRev, Procs
    <1>4. ~ Again(r) /\ ~ Pending(proc[p])
        BY <1>1 DEF ApplyGet, ReadHead, At, Again, Pending
    <1>5. proc' = [proc EXCEPT ![p] = r]
        BY <1>1, ProcLocals DEF ApplyGet, ReadHead, At, Locals, StepTo, Return
    <1>6. UNCHANGED rest /\ edits' \in 0..MaxEdits
        BY DEF ApplyGet, ReadHead, rest, repo, history, BInv, BridgeTypeOK
    <1>7. QED BY <1>1, <1>2, <1>3, <1>4, <1>5, <1>6, QuietStep

LEMMA NeedsHeadStep ==
    ASSUME OneConnector, BInv, NEW p \in Conns, NeedsHead(p)
    PROVE  BInv'
    <1> DEFINE r == [proc[p] EXCEPT !.pc = "needs", !.head = HeadRev]
    <1>1. proc[p] \in Locals /\ Good(p, proc[p]) /\ p \in Procs
        BY ProcLocals DEF Procs
    <1>2. r \in Locals
        BY <1>1, Shapes, BridgeAssumption DEF NeedsHead, ReadHead, At, Locals
    <1>3. Good(p, r)
        BY <1>1, Shapes, BridgeAssumption DEF BInv, BridgeTypeOK, NeedsHead, ReadHead, At, Good, Knows, Marks, Current, Told, Since, Explained, Pending, Noted, HeadRev, Procs
    <1>4. ~ Again(r) /\ ~ Pending(proc[p])
        BY <1>1 DEF NeedsHead, ReadHead, At, Again, Pending
    <1>5. proc' = [proc EXCEPT ![p] = r]
        BY <1>1, ProcLocals DEF NeedsHead, ReadHead, At, Locals, StepTo, Return
    <1>6. UNCHANGED rest /\ edits' \in 0..MaxEdits
        BY DEF NeedsHead, ReadHead, rest, repo, history, BInv, BridgeTypeOK
    <1>7. QED BY <1>1, <1>2, <1>3, <1>4, <1>5, <1>6, QuietStep

LEMMA TicketSpecStep ==
    ASSUME OneConnector, BInv, NEW p \in Procs, TicketSpec(p)
    PROVE  BInv'
    <1> DEFINE r == [proc[p] EXCEPT !.pc = "send", !.head = HeadRev]
    <1>1. proc[p] \in Locals /\ Good(p, proc[p]) /\ p \in Procs
        BY ProcLocals DEF Procs
    <1>2. r \in Locals
        BY <1>1, Shapes, BridgeAssumption DEF TicketSpec, ReadHead, At, Locals
    <1>3. Good(p, r)
        BY <1>1, Shapes, BridgeAssumption DEF TicketSpec, ReadHead, At, Good, Knows, Marks, Current, Told, Since, Pending, Noted, Procs
    <1>4. ~ Again(r) /\ ~ Pending(proc[p])
        BY <1>1 DEF TicketSpec, ReadHead, At, Again, Pending
    <1>5. proc' = [proc EXCEPT ![p] = r]
        BY <1>1, ProcLocals DEF TicketSpec, ReadHead, At, Locals, StepTo, Return
    <1>6. UNCHANGED rest /\ edits' \in 0..MaxEdits
        BY DEF TicketSpec, ReadHead, rest, repo, history, BInv, BridgeTypeOK
    <1>7. QED BY <1>1, <1>2, <1>3, <1>4, <1>5, <1>6, QuietStep

LEMMA MarkHeadStep ==
    ASSUME OneConnector, BInv, NEW p \in Procs, MarkHead(p)
    PROVE  BInv'
    <1> DEFINE r == [proc[p] EXCEPT !.pc = "markLink", !.head = HeadRev]
    <1>1. proc[p] \in Locals /\ Good(p, proc[p]) /\ p \in Procs
        BY ProcLocals DEF Procs
    <1>2. r \in Locals
        BY <1>1, Shapes, BridgeAssumption DEF MarkHead, ReadHead, At, Locals
    <1>3. Good(p, r)
        BY <1>1, Shapes, BridgeAssumption DEF BInv, BridgeTypeOK, MarkHead, ReadHead, At, Good, Knows, Marks, Current, Told, Since, Explained, Pending, Noted, HeadRev, Procs
    <1>4. ~ Again(r) /\ ~ Pending(proc[p])
        BY <1>1 DEF MarkHead, ReadHead, At, Again, Pending
    <1>5. proc' = [proc EXCEPT ![p] = r]
        BY <1>1, ProcLocals DEF MarkHead, ReadHead, At, Locals, StepTo, Return
    <1>6. UNCHANGED rest /\ edits' \in 0..MaxEdits
        BY DEF MarkHead, ReadHead, rest, repo, history, BInv, BridgeTypeOK
    <1>7. QED BY <1>1, <1>2, <1>3, <1>4, <1>5, <1>6, QuietStep

LEMMA ReviseHeadStep ==
    ASSUME OneConnector, BInv, NEW p \in Procs, ReviseHead(p)
    PROVE  BInv'
    <1> DEFINE r == [proc[p] EXCEPT !.pc = "cas", !.base = HeadRev]
    <1>1. proc[p] \in Locals /\ Good(p, proc[p]) /\ p \in Procs
        BY ProcLocals DEF Procs
    <1>2. r \in Locals
        BY <1>1, Shapes, BridgeAssumption DEF ReviseHead, ReadHead, At, Locals
    <1>3. Good(p, r)
        BY <1>1, Shapes, BridgeAssumption DEF BInv, BridgeTypeOK, ReviseHead, ReadHead, At, Good, Knows, Marks, Current, Told, Since, Explained, Pending, Noted, HeadRev, Procs
    <1>4. ~ Again(r) /\ ~ Pending(proc[p])
        BY <1>1 DEF ReviseHead, ReadHead, At, Again, Pending
    <1>5. proc' = [proc EXCEPT ![p] = r]
        BY <1>1, ProcLocals DEF ReviseHead, ReadHead, At, Locals, StepTo, Return
    <1>6. UNCHANGED rest /\ edits' \in 0..MaxEdits
        BY DEF ReviseHead, ReadHead, rest, repo, history, BInv, BridgeTypeOK
    <1>7. QED BY <1>1, <1>2, <1>3, <1>4, <1>5, <1>6, QuietStep

LEMMA TransitionStep ==
    ASSUME OneConnector, BInv, NEW p \in Conns, Transition(p)
    PROVE  BInv'
    <1> DEFINE r == [proc[p] EXCEPT !.pc = "trans", !.dec = row.dec]
    <1>1. proc[p] \in Locals /\ Good(p, proc[p]) /\ p \in Procs
        BY ProcLocals DEF Procs
    <1>2. r \in Locals
        BY <1>1, Shapes, BridgeAssumption DEF BInv, BridgeTypeOK, Transition, ReadHead, At, Locals
    <1>3. Good(p, r)
        BY <1>1, Shapes, BridgeAssumption DEF BInv, BridgeTypeOK, Transition, ReadHead, At, Good, Knows, Marks, Current, Told, Since, Explained, Pending, Noted, HeadRev, Procs
    <1>4. ~ Again(r) /\ ~ Pending(proc[p])
        BY <1>1 DEF Transition, ReadHead, At, Again, Pending
    <1>5. proc' = [proc EXCEPT ![p] = r]
        BY <1>1, ProcLocals DEF Transition, ReadHead, At, Locals, StepTo, Return
    <1>6. UNCHANGED rest /\ edits' \in 0..MaxEdits
        BY DEF Transition, ReadHead, rest, repo, history, BInv, BridgeTypeOK
    <1>7. QED BY <1>1, <1>2, <1>3, <1>4, <1>5, <1>6, QuietStep

LEMMA TransHeadStep ==
    ASSUME OneConnector, BInv, NEW p \in Procs, TransHead(p)
    PROVE  BInv'
    <1> DEFINE r == [proc[p] EXCEPT !.pc = "transLink", !.head = HeadRev]
    <1>1. proc[p] \in Locals /\ Good(p, proc[p]) /\ p \in Procs
        BY ProcLocals DEF Procs
    <1>2. r \in Locals
        BY <1>1, Shapes, BridgeAssumption DEF TransHead, ReadHead, At, Locals
    <1>3. Good(p, r)
        BY <1>1, Shapes, BridgeAssumption DEF TransHead, ReadHead, At, Good, Knows, Marks, Current, Told, Since, Pending, Noted, Procs
    <1>4. ~ Again(r) /\ ~ Pending(proc[p])
        BY <1>1 DEF TransHead, ReadHead, At, Again, Pending
    <1>5. proc' = [proc EXCEPT ![p] = r]
        BY <1>1, ProcLocals DEF TransHead, ReadHead, At, Locals, StepTo, Return
    <1>6. UNCHANGED rest /\ edits' \in 0..MaxEdits
        BY DEF TransHead, ReadHead, rest, repo, history, BInv, BridgeTypeOK
    <1>7. QED BY <1>1, <1>2, <1>3, <1>4, <1>5, <1>6, QuietStep

LEMMA TicketsReviseStep ==
    ASSUME OneConnector, BInv, NEW p \in Authors, NEW s \in Specs, TicketsRevise(p, s)
    PROVE  BInv'
    <1> DEFINE r == [proc[p] EXCEPT !.pc = "revise", !.spec = s]
    <1>1. proc[p] \in Locals /\ Good(p, proc[p]) /\ p \in Procs
        BY ProcLocals DEF Procs
    <1>2. r \in Locals
        BY <1>1, Shapes, BridgeAssumption DEF TicketsRevise, ReadHead, At, Locals
    <1>3. Good(p, r)
        BY <1>1, Shapes, BridgeAssumption DEF BInv, BridgeTypeOK, TicketsRevise, ReadHead, At, Good, Knows, Marks, Current, Told, Since, Explained, Pending, Noted, HeadRev, Procs
    <1>4. ~ Again(r) /\ ~ Pending(proc[p])
        BY <1>1 DEF TicketsRevise, ReadHead, At, Again, Pending
    <1>5. proc' = [proc EXCEPT ![p] = r]
        BY <1>1, ProcLocals DEF TicketsRevise, ReadHead, At, Locals, StepTo, Return
    <1>6. UNCHANGED rest /\ edits' \in 0..MaxEdits
        BY DEF TicketsRevise, ReadHead, rest, repo, history, BInv, BridgeTypeOK
    <1>7. QED BY <1>1, <1>2, <1>3, <1>4, <1>5, <1>6, QuietStep

LEMMA ImportStep ==
    ASSUME OneConnector, BInv, NEW p \in Conns, ImportTicketEdge(p)
    PROVE  BInv'
    <1> DEFINE r == [proc[p] EXCEPT !.pc = "edgeList", !.head = HeadRev]
    <1>1. proc[p] \in Locals /\ Good(p, proc[p]) /\ p \in Procs
        BY ProcLocals DEF Procs
    <1>2. r \in Locals
        BY <1>1, Shapes, BridgeAssumption DEF ImportTicketEdge, ReadHead, At, Locals
    <1>3. Good(p, r)
        BY <1>1, Shapes, BridgeAssumption DEF BInv, BridgeTypeOK, ImportTicketEdge, ReadHead, At, Good, Knows, Marks, Current, Told, Since, Explained, Pending, Noted, HeadRev, Procs
    <1>4. ~ Again(r) /\ ~ Pending(proc[p])
        BY <1>1 DEF ImportTicketEdge, ReadHead, At, Again, Pending
    <1>5. proc' = [proc EXCEPT ![p] = r]
        BY <1>1, ProcLocals DEF ImportTicketEdge, ReadHead, At, Locals, StepTo, Return
    <1>6. UNCHANGED rest /\ edits' \in 0..MaxEdits
        BY DEF ImportTicketEdge, ReadHead, rest, repo, history, BInv, BridgeTypeOK
    <1>7. QED BY <1>1, <1>2, <1>3, <1>4, <1>5, <1>6, QuietStep

\* An idle process claims nothing.
LEMMA IdleGood ==
    ASSUME BInv, NEW p \in Procs
    PROVE  Idle \in Locals /\ Good(p, Idle) /\ ~ Again(Idle)
    <1>1. Idle \in Locals
        BY DEF Idle, Locals, Link
    <1>2. Good(p, Idle) /\ ~ Again(Idle)
        BY Shapes DEF Good, Knows, Idle, Again
    <1>3. QED BY <1>1, <1>2

\* A verb that is about to write the link l, made from the chain at length v.
Linked(l, v) == [Idle EXCEPT !.pc = "tip", !.link = l, !.seen = v]

\* When the watermarks of l are honest, it may be carried.
LEMMA LinkGood ==
    ASSUME BInv, NEW p \in Procs, NEW l \in Link, NEW v \in Nat, v <= tip, Marks(l),
           v = tip => \/ l.trans = link.trans /\ l.transHead = link.transHead
                      \/ p \in Conns /\ Len(atts) > 0 /\ Noted(l)
    PROVE  Linked(l, v) \in Locals /\ Good(p, Linked(l, v)) /\ ~ Again(Linked(l, v))
    <1> DEFINE r == Linked(l, v)
    <1>1. Idle \in Locals
        BY IdleGood
    <1>2. r \in Locals
        BY <1>1 DEF Locals, Linked
    <1>3. Good(p, r) /\ ~ Again(r)
        <2>1. r.pc = "tip" /\ r.seen = v /\ r.head = 0 /\ r.base = 0 /\ r.tip = 0 /\ r.link = l
            BY DEF Linked, Idle
        <2> HIDE DEF r
        <2>2. Current(r) \/ (p \in Conns /\ Pending(r))
            <3>1. CASE v # tip \/ (l.trans = link.trans /\ l.transHead = link.transHead)
                BY <2>1, <3>1 DEF Current
            <3>2. CASE p \in Conns /\ Len(atts) > 0 /\ Noted(l)
                BY <2>1, <3>2 DEF Pending
            <3>3. QED BY <3>1, <3>2
        <2>3. QED BY <2>1, <2>2, Shapes DEF Good, Knows, Again
    <1>4. QED BY <1>2, <1>3

\* A verb that gives up.
LEMMA ReturnStep ==
    ASSUME BInv, NEW p \in Procs, ~ Pending(proc[p]), Return(p), UNCHANGED rest,
           edits' \in 0..MaxEdits
    PROVE  BInv'
    BY IdleGood, QuietStep DEF Return

\* A verb that goes on to write the link l.
LEMMA SetLinkStep ==
    ASSUME BInv, NEW p \in Procs, ~ Pending(proc[p]), UNCHANGED rest, edits' \in 0..MaxEdits,
           NEW l \in Link, Marks(l), l.trans = link.trans, l.transHead = link.transHead,
           SetLink(p, l, tip)
    PROVE  BInv'
    <1>1. Linked(l, tip) \in Locals /\ Good(p, Linked(l, tip)) /\ ~ Again(Linked(l, tip))
        BY LinkGood, Shapes
    <1>2. proc' = [proc EXCEPT ![p] = Linked(l, tip)]
        BY DEF SetLink, Linked
    <1>3. QED BY <1>1, <1>2, QuietStep

\* An inbound edit is taken up only when the head is what was pushed last: a text nobody typed
\* is then the text of a revision before the head, and the head was made under the connector.
LEMMA ApplyInboundStep ==
    ASSUME OneConnector, BInv, NEW p \in Procs, ApplyInbound(p)
    PROVE  BInv'
    <1>1. proc[p] \in Locals /\ Good(p, proc[p]) /\ Marks(link)
        BY ProcLocals DEF BInv
    <1>2. At(p, "applyLink") /\ ~ Pending(proc[p]) /\ p \in Conns
        BY <1>1 DEF ApplyInbound, At, Pending, Good, Procs
    <1>3. UNCHANGED rest /\ edits' \in 0..MaxEdits
        BY Shapes DEF ApplyInbound, rest, repo, history
    <1>4. CASE Return(p)
        BY <1>2, <1>3, <1>4, ReturnStep
    <1>5. CASE SetLink(p, [link EXCEPT !.pulled = proc[p].spec], tip)
        <2> DEFINE l == [link EXCEPT !.pulled = proc[p].spec]
        <2>1. proc[p].spec \in Specs
            BY <1>1, <1>2 DEF Good, Knows, At
        <2>2. l \in Link /\ l.trans = link.trans /\ l.transHead = link.transHead /\ l.pushed = link.pushed
            BY <2>1, Shapes DEF Link
        <2>3. Marks(l)
            BY <2>2, <1>1 DEF Marks
        <2> HIDE DEF l
        <2>4. SetLink(p, l, tip)
            BY <1>5 DEF l
        <2>5. QED BY <1>2, <1>3, <2>2, <2>3, <2>4, SetLinkStep
    <1>6. CASE /\ ~ Echo(p) /\ ~ LocalWins(p)
               /\ proc' = [proc EXCEPT ![p].pc = "revise", ![p].link = link, ![p].seen = tip]
        <2> DEFINE r == [proc[p] EXCEPT !.pc = "revise", !.link = link, !.seen = tip]
        <2>1. r \in Locals
            BY <1>1, Shapes DEF Locals
        <2>2. r.pc = "revise" /\ r.link = link /\ r.seen = tip /\ r.head = proc[p].head
              /\ r.base = proc[p].base /\ r.spec = proc[p].spec /\ r.dec = proc[p].dec
            BY <1>1 DEF Locals
        <2>3. proc[p].head = link.pushed
            BY <1>1, <1>6, Shapes DEF LocalWins, Marks
        <2>4. Told(proc[p].head)
            BY <2>3, <1>1 DEF Marks
        <2>5. /\ proc[p].head \in DOMAIN revs /\ Explained(proc[p].spec) /\ proc[p].spec \in Specs
              /\ (row.spec \in typed \/ row.spec = proc[p].spec)
              /\ (\A x \in sent : x <= proc[p].head) /\ Since(proc[p].head)
            BY <1>1, <1>2 DEF Good, Knows, At
        <2>6. proc[p].spec \in typed \/ proc[p].head \in raced
            <3>1. revs[proc[p].head].spec # proc[p].spec
                BY <1>6 DEF Echo
            <3>2. ASSUME proc[p].spec \notin typed, proc[p].head \notin raced PROVE FALSE
                <4>1. PICK s \in sent : /\ revs[s].spec = proc[p].spec
                                        /\ \A x \in sent : x <= s
                                        /\ \A k \in DOMAIN revs : k > s /\ revs[k].by = "bridge"
                                              => revs[k].spec = proc[p].spec
                    BY <2>5, <3>2 DEF Explained
                <4>2. s # proc[p].head /\ s \in Nat /\ s <= proc[p].head /\ proc[p].head \in Nat
                    BY <4>1, <3>1, <2>5, Shapes
                <4>3. revs[proc[p].head].by = "local"
                    <5>1. revs[proc[p].head].by # "bridge"
                        BY <4>1, <4>2, <3>1, <2>5
                    <5>2. revs[proc[p].head] \in [spec : Specs, by : {"local", "bridge"}]
                        BY <2>5, Shapes
                    <5>3. QED BY <5>1, <5>2
                <4>4. proc[p].head \in sent
                    BY <4>3, <2>4, <3>2 DEF Told
                <4>5. QED BY <4>1, <4>2, <4>4
            <3>3. QED BY <3>2
        <2>7. Good(p, r) /\ ~ Again(r)
            <3>1. Current(r)
                BY <2>2 DEF Current
            <3>2. p \notin Authors
                BY <1>2, BridgeAssumption
            <3>3. proc[p].head <= HeadRev /\ proc[p].base <= HeadRev /\ tip <= tip
                BY <1>1, Shapes DEF Good
            <3> HIDE DEF r
            <3>4. Knows(r)
                BY <2>2, <2>4, <2>5, <2>6, <3>1, <1>1 DEF Knows
            <3>5. QED BY <2>2, <2>5, <3>1, <3>2, <3>3, <3>4 DEF Good, Again
        <2>8. proc' = [proc EXCEPT ![p] = r]
            BY <1>6, <1>1, ProcLocals DEF Locals
        <2> HIDE DEF r
        <2>9. QED BY <1>2, <1>3, <2>1, <2>7, <2>8, QuietStep
    <1>7. QED BY <1>4, <1>5, <1>6 DEF ApplyInbound

LEMMA NeedsPushStep ==
    ASSUME OneConnector, BInv, NEW p \in Procs, NeedsPush(p)
    PROVE  BInv'
    <1> DEFINE r == [proc[p] EXCEPT !.pc = "fetch"]
    <1>1. proc[p] \in Locals /\ Good(p, proc[p])
        BY ProcLocals
    <1>2. At(p, "needs") /\ ~ Pending(proc[p]) /\ p \notin Authors
        BY <1>1 DEF NeedsPush, At, Pending, Good
    <1>3. UNCHANGED rest /\ edits' \in 0..MaxEdits
        BY Shapes DEF NeedsPush, rest, repo, history
    <1>4. CASE StepTo(p, "fetch")
        <2>1. r \in Locals
            BY <1>1 DEF Locals
        <2>2. Good(p, r) /\ ~ Again(r)
            BY <1>1, <1>2 DEF Locals, Good, Knows, Again
        <2>3. proc' = [proc EXCEPT ![p] = r]
            BY <1>4, ProcLocals DEF StepTo, Locals
        <2> HIDE DEF r
        <2>4. QED BY <1>2, <1>3, <2>1, <2>2, <2>3, QuietStep
    <1>5. QED BY <1>2, <1>3, <1>4, ReturnStep DEF NeedsPush

LEMMA MarkPushedStep ==
    ASSUME OneConnector, BInv, NEW p \in Procs, MarkPushed(p)
    PROVE  BInv'
    <1> DEFINE l == [link EXCEPT !.pushed = proc[p].head]
    <1>1. proc[p] \in Locals /\ Good(p, proc[p]) /\ Marks(link)
        BY ProcLocals DEF BInv
    <1>2. At(p, "markLink") /\ ~ Pending(proc[p]) /\ p \in Conns
        BY <1>1 DEF MarkPushed, At, Pending, Good, Procs
    <1>3. UNCHANGED rest /\ edits' \in 0..MaxEdits
        BY Shapes DEF MarkPushed, rest, repo, history
    <1>4. l \in Link /\ l.trans = link.trans /\ l.transHead = link.transHead /\ l.pushed = proc[p].head
        BY <1>1, Shapes DEF Link, Locals
    <1>5. Marks(l)
        BY <1>4, <1>1, <1>2 DEF Marks, Good, Knows, At
    <1>6. SetLink(p, l, tip)
        BY DEF MarkPushed
    <1> HIDE DEF l
    <1>7. QED BY <1>2, <1>3, <1>4, <1>5, <1>6, SetLinkStep

LEMMA SetFieldStep ==
    ASSUME OneConnector, BInv, NEW p \in Conns, SetField(p)
    PROVE  BInv'
    <1> DEFINE l == [link EXCEPT !.field = row.field]
    <1>1. proc[p] \in Locals /\ Marks(link) /\ p \in Procs /\ row.field \in Nat
        BY ProcLocals DEF BInv, BridgeTypeOK, Procs
    <1>2. ~ Pending(proc[p])
        BY <1>1 DEF SetField, At, Pending
    <1>3. UNCHANGED rest /\ edits' \in 0..MaxEdits
        BY Shapes DEF SetField, rest, repo, history
    <1>4. l \in Link /\ l.trans = link.trans /\ l.transHead = link.transHead /\ l.pushed = link.pushed
        BY <1>1, Shapes DEF Link
    <1>5. Marks(l)
        BY <1>4, <1>1 DEF Marks
    <1>6. SetLink(p, l, tip)
        BY DEF SetField
    <1> HIDE DEF l
    <1>7. QED BY <1>1, <1>2, <1>3, <1>4, <1>5, <1>6, SetLinkStep

LEMMA BridgeLinkStep ==
    ASSUME OneConnector, BInv, NEW p \in Procs, BridgeLink(p)
    PROVE  BInv'
    <1> DEFINE l == [link EXCEPT !.foreign = edits + 1]
    <1>1. proc[p] \in Locals /\ Marks(link)
        BY ProcLocals DEF BInv
    <1>2. ~ Pending(proc[p])
        BY <1>1 DEF BridgeLink, At, Pending
    <1>3. UNCHANGED rest /\ edits' \in 0..MaxEdits
        BY Shapes, BridgeAssumption DEF BridgeLink, rest, repo, history
    <1>4. l \in Link /\ l.trans = link.trans /\ l.transHead = link.transHead /\ l.pushed = link.pushed
        <2>1. edits + 1 \in Nat
            BY Shapes, BridgeAssumption
        <2>2. QED BY <1>1, <2>1, Shapes DEF Link
    <1>5. Marks(l)
        BY <1>4, <1>1 DEF Marks
    <1>6. SetLink(p, l, tip)
        BY DEF BridgeLink
    <1> HIDE DEF l
    <1>7. QED BY <1>1, <1>2, <1>3, <1>4, <1>5, <1>6, SetLinkStep

LEMMA TransitionOnceStep ==
    ASSUME OneConnector, BInv, NEW p \in Procs, TransitionOnce(p)
    PROVE  BInv'
    <1> DEFINE r == [proc[p] EXCEPT !.pc = "attest", !.link = link, !.seen = tip]
    <1>1. proc[p] \in Locals /\ Good(p, proc[p]) /\ Marks(link)
        BY ProcLocals DEF BInv
    <1>2. At(p, "transLink") /\ ~ Pending(proc[p]) /\ p \in Conns
        BY <1>1 DEF TransitionOnce, At, Pending, Good, Procs
    <1>3. UNCHANGED rest /\ edits' \in 0..MaxEdits
        BY Shapes DEF TransitionOnce, rest, repo, history
    <1>4. CASE Return(p)
        BY <1>2, <1>3, <1>4, ReturnStep
    <1>5. CASE ~ Recorded(p) /\ proc' = [proc EXCEPT ![p].pc = "attest", ![p].link = link, ![p].seen = tip]
        <2>1. r \in Locals
            BY <1>1, Shapes DEF Locals
        <2>2. r.pc = "attest" /\ r.link = link /\ r.seen = tip /\ r.head = proc[p].head
              /\ r.base = proc[p].base /\ r.spec = proc[p].spec /\ r.dec = proc[p].dec
            BY <1>1 DEF Locals
        <2>3. Good(p, r)
            <3>1. Current(r)
                BY <2>2 DEF Current
            <3>2. p \notin Authors
                BY <1>2, BridgeAssumption
            <3>3. proc[p].head <= HeadRev /\ proc[p].base <= HeadRev /\ tip <= tip
                BY <1>1, Shapes DEF Good
            <3>4. /\ proc[p].dec \in Decisions /\ proc[p].head \in DOMAIN revs
                  /\ \A i \in DOMAIN atts : atts[i].rev <= proc[p].head
                BY <1>1, <1>2 DEF Good, Knows, At
            <3> HIDE DEF r
            <3>5. QED BY <2>2, <3>1, <3>2, <3>3, <3>4, <1>1 DEF Good, Knows
        <2>4. Again(r) => Owing
            <3>1. SUFFICES ASSUME Again(r) PROVE Owing
                OBVIOUS
            <3>2. Unnoted
                BY <3>1, <2>2, <1>5 DEF Again, Unnoted, Noted, Recorded
            <3>3. QED BY <3>2, <1>2 DEF Owing, OneConnector
        <2>5. proc' = [proc EXCEPT ![p] = r]
            BY <1>5, <1>1, ProcLocals DEF Locals
        <2> HIDE DEF r
        <2>6. QED BY <1>2, <1>3, <2>1, <2>3, <2>4, <2>5, QuietStep
    <1>6. QED BY <1>4, <1>5 DEF TransitionOnce

LEMMA NotesOnNat ==
    ASSUME BInv, NEW n
    PROVE  /\ NotesOn(n) \in Nat /\ OnRev(n) \in Nat
           /\ OnRev(n) = 0 => \A i \in DOMAIN edges : edges[i] # n
    <1>1. IsFiniteSet(DOMAIN atts) /\ IsFiniteSet(DOMAIN edges)
        BY Shapes, FS_Interval
    <1>2. IsFiniteSet({i \in DOMAIN atts : atts[i].rev = n}) /\ IsFiniteSet({i \in DOMAIN edges : edges[i] = n})
        BY <1>1, FS_Subset
    <1>3. NotesOn(n) \in Nat /\ OnRev(n) \in Nat
        BY <1>2, FS_CardinalityType DEF NotesOn, OnRev
    <1>4. OnRev(n) = 0 => {i \in DOMAIN edges : edges[i] = n} = {}
        BY <1>2, FS_EmptySet DEF OnRev
    <1>5. QED BY <1>3, <1>4

LEMMA AttestTipStep ==
    ASSUME OneConnector, BInv, NEW p \in Procs, AttestTip(p)
    PROVE  BInv'
    <1> DEFINE r == [proc[p] EXCEPT !.pc = "attach", !.tip = NotesOn(proc[p].head)]
    <1>1. proc[p] \in Locals /\ Good(p, proc[p])
        BY ProcLocals
    <1>2. At(p, "attest") /\ ~ Pending(proc[p]) /\ p \in Conns
        BY <1>1 DEF AttestTip, At, Pending, Good, Procs
    <1>3. UNCHANGED rest /\ edits' \in 0..MaxEdits
        BY Shapes DEF AttestTip, rest, repo, history
    <1>4. r \in Locals
        BY <1>1, NotesOnNat DEF Locals
    <1>5. r.pc = "attach" /\ r.link = proc[p].link /\ r.seen = proc[p].seen /\ r.head = proc[p].head
              /\ r.base = proc[p].base /\ r.spec = proc[p].spec /\ r.dec = proc[p].dec
        BY <1>1 DEF Locals
    <1>6. Good(p, r)
        <2> HIDE DEF r
        <2>1. QED BY <1>1, <1>2, <1>5, BridgeAssumption DEF Good, Knows, At, Current, Pending
    <1>7. Again(r) => Owing
        <2> HIDE DEF r
        <2>1. Again(r) => Again(proc[p])
            BY <1>2, <1>5 DEF Again, At
        <2>2. QED BY <2>1, <1>2 DEF Owing
    <1>8. proc' = [proc EXCEPT ![p] = r]
        BY <1>1, ProcLocals DEF AttestTip, Locals
    <1> HIDE DEF r
    <1>9. QED BY <1>2, <1>3, <1>4, <1>6, <1>7, <1>8, QuietStep

LEMMA PutOnceStep ==
    ASSUME OneConnector, BInv, NEW p \in Procs, PutOnce(p)
    PROVE  BInv'
    <1> DEFINE r == [proc[p] EXCEPT !.pc = "edgeAdd"]
    <1>1. proc[p] \in Locals /\ Good(p, proc[p])
        BY ProcLocals
    <1>2. At(p, "edgeList") /\ ~ Pending(proc[p]) /\ p \notin Authors /\ p \in Conns
        BY <1>1 DEF PutOnce, At, Pending, Good, Procs
    <1>3. UNCHANGED rest /\ edits' \in 0..MaxEdits
        BY Shapes DEF PutOnce, rest, repo, history
    <1>4. CASE ~ (OnRev(proc[p].head) > 0) /\ StepTo(p, "edgeAdd")
        <2>1. r \in Locals
            BY <1>1 DEF Locals
        <2>2. \A i \in DOMAIN edges : edges[i] # proc[p].head
            BY <1>4, NotesOnNat
        <2>3. Good(p, r) /\ ~ Again(r)
            BY <1>1, <1>2, <2>2 DEF Locals, Good, Knows, Again, At
        <2>4. proc' = [proc EXCEPT ![p] = r]
            BY <1>4, ProcLocals DEF StepTo, Locals
        <2> HIDE DEF r
        <2>5. QED BY <1>2, <1>3, <2>1, <2>3, <2>4, QuietStep
    <1>5. QED BY <1>2, <1>3, <1>4, ReturnStep DEF PutOnce

LEMMA EdgeTipStep ==
    ASSUME OneConnector, BInv, NEW p \in Procs, EdgeTip(p)
    PROVE  BInv'
    <1> DEFINE r == [proc[p] EXCEPT !.pc = "edgeSwap", !.tip = OnRev(proc[p].head)]
    <1>1. proc[p] \in Locals /\ Good(p, proc[p])
        BY ProcLocals
    <1>2. At(p, "edgeAdd") /\ ~ Pending(proc[p]) /\ p \notin Authors /\ p \in Conns
        BY <1>1 DEF EdgeTip, At, Pending, Good, Procs
    <1>3. UNCHANGED rest /\ edits' \in 0..MaxEdits
        BY Shapes DEF EdgeTip, rest, repo, history
    <1>4. r \in Locals
        BY <1>1, NotesOnNat DEF Locals
    <1>5. Good(p, r) /\ ~ Again(r)
        BY <1>1, <1>2 DEF Locals, Good, Knows, Again, At
    <1>6. proc' = [proc EXCEPT ![p] = r]
        BY <1>1, ProcLocals DEF EdgeTip, Locals
    <1> HIDE DEF r
    <1>7. QED BY <1>2, <1>3, <1>4, <1>5, <1>6, QuietStep

LEMMA AddTipStep ==
    ASSUME OneConnector, BInv, NEW p \in Procs, AddTip(p)
    PROVE  BInv'
    <1> DEFINE r == [proc[p] EXCEPT !.pc = "swap", !.tip = tip]
    <1>1. proc[p] \in Locals /\ Good(p, proc[p])
        BY ProcLocals
    <1>2. At(p, "tip")
        BY DEF AddTip
    <1>3. UNCHANGED rest /\ edits' \in 0..MaxEdits
        BY Shapes DEF AddTip, rest, repo, history
    <1>4. r \in Locals
        BY <1>1, Shapes DEF Locals
    <1>5. r.pc = "swap" /\ r.link = proc[p].link /\ r.seen = proc[p].seen /\ r.head = proc[p].head
              /\ r.base = proc[p].base /\ r.spec = proc[p].spec /\ r.dec = proc[p].dec /\ r.tip = tip
        BY <1>1 DEF Locals
    <1>6. Good(p, r) /\ ~ Again(r) /\ (Pending(proc[p]) => Pending(r))
        <2> HIDE DEF r
        <2>1. QED BY <1>1, <1>2, <1>5, Shapes DEF Good, Knows, At, Current, Pending, Again
    <1>7. proc' = [proc EXCEPT ![p] = r]
        BY <1>1, ProcLocals DEF AddTip, Locals
    <1> HIDE DEF r
    <1>8. QED BY <1>3, <1>4, <1>6, <1>7, QuietStep

-----------------------------------------------------------------------------
(* The bridge: the steps that write.                                        *)

\* The attestations that repeat one.
Repeats == {i \in DOMAIN atts : SameBefore(i)}

LEMMA RepeatsNat ==
    ASSUME BInv
    PROVE  IsFiniteSet(Repeats) /\ Cardinality(Repeats) \in Nat
           /\ Cardinality(Repeats) + (IF Owing THEN 1 ELSE 0) <= crashes + lost
    <1>1. IsFiniteSet(DOMAIN atts)
        BY Shapes, FS_Interval
    <1>2. IsFiniteSet(Repeats)
        BY <1>1, FS_Subset DEF Repeats
    <1>3. QED BY <1>2, FS_CardinalityType DEF BInv, Paid, Repeats

\* Without an attestation, what is owed must not grow, or is paid for.
LEMMA StillPaid ==
    ASSUME BInv, atts' = atts, crashes' \in Nat, lost' \in Nat,
           \/ (Owing' => Owing) /\ crashes' + lost' >= crashes + lost
           \/ crashes' + lost' >= crashes + lost + 1
    PROVE  Paid'
    <1>1. Repeats' = Repeats
        BY DEF Repeats, SameBefore
    <1>2. Cardinality(Repeats) \in Nat /\ crashes + lost \in Nat
          /\ Cardinality(Repeats) + (IF Owing THEN 1 ELSE 0) <= crashes + lost
        BY RepeatsNat, Shapes
    <1>3. Cardinality(Repeats) + (IF Owing' THEN 1 ELSE 0) <= crashes' + lost'
        BY <1>2
    <1>4. QED BY <1>1, <1>3 DEF Paid, Repeats

LEMMA SeqWider ==
    ASSUME NEW S, NEW T, S \subseteq T, NEW s \in Seq(S)
    PROVE  s \in Seq(T)
    OBVIOUS

\* The write of a link: one that is lost, or goes over a link it has not read, pays for what it
\* makes the newest link forget.
LEMMA AddSwapStep ==
    ASSUME OneConnector, BInv, NEW p \in Procs, AddSwap(p)
    PROVE  BInv'
    <1> DEFINE l == proc[p].link
    <1>1. /\ proc[p] \in Locals /\ Good(p, proc[p]) /\ proc[p].pc = "swap"
          /\ l \in Link /\ proc[p].tip \in Nat /\ proc[p].seen \in Nat
        BY ProcLocals DEF AddSwap, At, Locals
    <1>2. /\ revs' = revs /\ atts' = atts /\ edges' = edges /\ row' = row /\ edits' = edits
          /\ crashes' = crashes /\ sent' = sent /\ typed' = typed /\ raced' = raced
          /\ lost' = IF tip = proc[p].seen THEN lost ELSE lost + 1
          /\ \/ tip = proc[p].tip /\ link' = l /\ tip' = tip + 1
             \/ tip # proc[p].tip /\ link' = link /\ tip' = tip
        BY DEF AddSwap
    <1>3. Marks(l) /\ (Current(proc[p]) \/ Pending(proc[p])) /\ proc[p].seen <= proc[p].tip /\ proc[p].tip <= tip
        BY <1>1 DEF Good
    <1>4. /\ \A q \in Procs : proc'[q] = IF q = p THEN Idle ELSE proc[q]
          /\ proc' \in [Procs -> Locals]
        BY IdleGood DEF AddSwap, Return, BInv, BridgeTypeOK
    <1>5. BridgeTypeOK'
        <2>1. link' \in Link /\ tip' \in Nat /\ lost' \in Nat
            BY <1>1, <1>2, Shapes
        <2>2. QED BY <1>2, <1>4, <2>1 DEF BInv, BridgeTypeOK, HeadRev
    <1>6. ASSUME NEW q \in Procs PROVE Good(q, proc[q])'
        <2>1. Good(q, proc'[q])
            BY <1>4, IdleGood DEF BInv
        <2>2. proc'[q] \in Locals /\ tip \in Nat
            BY <1>4, Shapes
        <2>3. CASE tip # proc[p].tip
            BY <1>2, <2>1, <2>3 DEF Good, Knows, Marks, Current, Told, Since, Explained, Pending, Noted, HeadRev
        <2>4. CASE tip = proc[p].tip
            <3>1. proc'[q].seen # tip' /\ proc'[q].seen <= tip'
                BY <1>2, <2>1, <2>2, <2>4 DEF Good, Locals
            <3>2. proc'[q].tip <= tip => proc'[q].tip <= tip'
                BY <1>2, <2>2, <2>4 DEF Locals
            <3>3. PICK r : /\ r = proc'[q] /\ Good(q, r) /\ r.seen # tip' /\ r.seen <= tip' /\ (r.tip <= tip => r.tip <= tip')
                BY <2>1, <3>1, <3>2
            <3>4. Good(q, r)'
                BY <1>2, <3>3 DEF Good, Knows, Marks, Current, Told, Since, Explained, HeadRev
            <3>5. QED BY <3>3, <3>4
        <2>5. QED BY <2>3, <2>4
    <1>7. Paid'
        <2>1. CASE tip # proc[p].seen
            BY <1>2, <2>1, Shapes, StillPaid
        <2>2. CASE tip = proc[p].seen
            <3>1. tip = proc[p].tip /\ link' = l
                BY <1>1, <1>2, <1>3, <2>2, Shapes
            <3>2. ASSUME Owing' PROVE Owing
                <4>1. CASE \E c \in Conns : Again(proc'[c])
                    <5>1. PICK c \in Conns : Again(proc'[c])
                        BY <4>1
                    <5>2. c # p
                        BY <5>1, <1>4, IdleGood
                    <5>3. QED BY <5>1, <5>2, <1>4 DEF Owing, Procs
                <4>2. CASE Len(atts) > 0 /\ ~ Noted(l) /\ \A c \in Conns : ~ Pending(proc'[c])
                    <5>1. ~ Pending(proc[p])
                        BY <4>2 DEF Pending
                    <5>2. Noted(link) => Noted(l)
                        BY <5>1, <1>3, <2>2 DEF Current, Noted
                    <5>3. \A c \in Conns : ~ Pending(proc[c])
                        BY <4>2, <5>1, <1>4 DEF Procs
                    <5>4. QED BY <4>2, <5>2, <5>3 DEF Owing, Unnoted
                <4>3. Owing' => \/ \E c \in Conns : Again(proc'[c])
                                \/ Len(atts) > 0 /\ ~ Noted(l) /\ \A c \in Conns : ~ Pending(proc'[c])
                    BY <1>2, <3>1 DEF Owing, Unnoted, Noted, Pending, Again
                <4>4. QED BY <3>2, <4>1, <4>2, <4>3
            <3>3. QED BY <1>2, <2>2, <3>2, Shapes, StillPaid
        <2>3. QED BY <2>1, <2>2
    <1>8. Marks(link)'
        BY <1>2, <1>3 DEF BInv, Marks, Told, HeadRev
    <1>9. (revs[1].by = "local" /\ Explained(row.spec) /\ InboundHonest /\ InOrder /\ EdgesOnce)'
        BY <1>2 DEF BInv, Explained, InboundHonest, InOrder, EdgesOnce
    <1>10. QED BY <1>5, <1>6, <1>7, <1>8, <1>9 DEF BInv

LEMMA KillVerbStep ==
    ASSUME OneConnector, BInv, NEW p \in Procs, KillVerb(p)
    PROVE  BInv'
    <1>1. /\ revs' = revs /\ atts' = atts /\ edges' = edges /\ row' = row /\ edits' = edits
          /\ crashes' = crashes + 1 /\ sent' = sent /\ typed' = typed /\ raced' = raced
          /\ lost' = lost /\ link' = link /\ tip' = tip /\ crashes' \in 0..MaxCrashes
        BY BridgeAssumption DEF KillVerb, repo, history, BInv, BridgeTypeOK
    <1>2. /\ \A q \in Procs : proc'[q] = IF q = p THEN Idle ELSE proc[q]
          /\ proc' \in [Procs -> Locals]
        BY IdleGood DEF KillVerb, Return, BInv, BridgeTypeOK
    <1>3. BridgeTypeOK'
        BY <1>1, <1>2 DEF BInv, BridgeTypeOK, HeadRev
    <1>4. ASSUME NEW q \in Procs PROVE Good(q, proc[q])'
        <2>1. Good(q, proc'[q])
            BY <1>2, IdleGood DEF BInv
        <2>2. QED BY <1>1, <2>1 DEF Good, Knows, Marks, Current, Told, Since, Explained, Pending, Noted, HeadRev
    <1>5. Paid'
        BY <1>1, Shapes, StillPaid
    <1>6. (revs[1].by = "local" /\ Marks(link) /\ Explained(row.spec) /\ InboundHonest /\ InOrder /\ EdgesOnce)'
        BY <1>1 DEF BInv, Marks, Told, HeadRev, Explained, InboundHonest, InOrder, EdgesOnce
    <1>7. QED BY <1>3, <1>4, <1>5, <1>6 DEF BInv

\* What is done in the tracker can only add to what was typed.
LEMMA TrackerStep ==
    ASSUME BInv, UNCHANGED <<repo, proc, crashes, sent, lost, raced>>, edits' \in 0..MaxEdits,
           typed \subseteq typed', typed' \subseteq Specs,
           row' \in [spec : Specs, dec : Decisions \cup {NoDecision}, field : Nat, dep : BOOLEAN],
           row'.spec = row.spec \/ row'.spec \in typed'
    PROVE  BInv'
    <1>1. /\ revs' = revs /\ atts' = atts /\ edges' = edges /\ proc' = proc /\ crashes' = crashes
          /\ sent' = sent /\ raced' = raced /\ lost' = lost /\ link' = link /\ tip' = tip
        BY DEF repo
    <1>2. BridgeTypeOK'
        BY <1>1 DEF BInv, BridgeTypeOK, HeadRev
    <1>3. ASSUME NEW s, Explained(s) PROVE Explained(s)'
        BY <1>1, <1>3 DEF Explained
    <1>4. ASSUME NEW q \in Procs PROVE Good(q, proc[q])'
        <2>1. PICK r : r = proc[q] /\ Good(q, r)
            BY DEF BInv
        <2>2. /\ Explained(r.spec) => Explained(r.spec)'
              /\ row.spec \in typed \/ row.spec = r.spec => row'.spec \in typed' \/ row'.spec = r.spec
              /\ r.spec \in typed => r.spec \in typed'
            BY <1>1, <1>3
        <2>3. Good(q, r)'
            BY <1>1, <2>1, <2>2 DEF Good, Knows, Marks, Current, Told, Since, Pending, Noted, HeadRev
        <2>4. QED BY <1>1, <2>1, <2>3
    <1>5. Paid'
        <2>1. Owing' => Owing
            BY <1>1 DEF Owing, Unnoted, Noted, Pending, Again
        <2>2. QED BY <1>1, <2>1, Shapes, StillPaid
    <1>6. Explained(row.spec)'
        <2>1. Explained(row.spec)
            BY DEF BInv
        <2>2. QED BY <1>1, <2>1 DEF Explained
    <1>7. (revs[1].by = "local" /\ Marks(link) /\ InboundHonest /\ InOrder /\ EdgesOnce)'
        BY <1>1 DEF BInv, Marks, Told, HeadRev, InboundHonest, InOrder, EdgesOnce
    <1>8. QED BY <1>2, <1>4, <1>5, <1>6, <1>7 DEF BInv

LEMMA TrackerEditStep ==
    ASSUME BInv, NEW s \in Specs, TrackerEdit(s)
    PROVE  BInv'
    <1>1. row \in [spec : Specs, dec : Decisions \cup {NoDecision}, field : Nat, dep : BOOLEAN] /\ typed \subseteq Specs
        BY DEF BInv, BridgeTypeOK
    <1>2. /\ row' \in [spec : Specs, dec : Decisions \cup {NoDecision}, field : Nat, dep : BOOLEAN]
          /\ row'.spec \in typed' /\ typed \subseteq typed' /\ typed' \subseteq Specs
        BY <1>1 DEF TrackerEdit
    <1>3. edits' \in 0..MaxEdits /\ UNCHANGED <<repo, proc, crashes, sent, lost, raced>>
        BY Shapes, BridgeAssumption DEF TrackerEdit
    <1>4. QED BY <1>2, <1>3, TrackerStep

LEMMA TrackerMoveStep ==
    ASSUME BInv, NEW d \in Decisions, TrackerMove(d)
    PROVE  BInv'
    <1>1. row \in [spec : Specs, dec : Decisions \cup {NoDecision}, field : Nat, dep : BOOLEAN] /\ typed \subseteq Specs
        BY DEF BInv, BridgeTypeOK
    <1>2. /\ row' \in [spec : Specs, dec : Decisions \cup {NoDecision}, field : Nat, dep : BOOLEAN]
          /\ row'.spec = row.spec /\ typed' = typed
        BY <1>1 DEF TrackerMove, history
    <1>3. edits' \in 0..MaxEdits /\ UNCHANGED <<repo, proc, crashes, sent, lost, raced>>
        BY Shapes, BridgeAssumption DEF TrackerMove, history
    <1>4. QED BY <1>1, <1>2, <1>3, TrackerStep

LEMMA TrackerFieldStep ==
    ASSUME BInv, TrackerField
    PROVE  BInv'
    <1>1. row \in [spec : Specs, dec : Decisions \cup {NoDecision}, field : Nat, dep : BOOLEAN] /\ typed \subseteq Specs
        BY DEF BInv, BridgeTypeOK
    <1>2. edits + 1 \in Nat
        BY Shapes, BridgeAssumption
    <1>3. /\ row' \in [spec : Specs, dec : Decisions \cup {NoDecision}, field : Nat, dep : BOOLEAN]
          /\ row'.spec = row.spec /\ typed' = typed
        BY <1>1, <1>2 DEF TrackerField, history
    <1>4. edits' \in 0..MaxEdits /\ UNCHANGED <<repo, proc, crashes, sent, lost, raced>>
        BY Shapes, BridgeAssumption DEF TrackerField, history
    <1>5. QED BY <1>1, <1>3, <1>4, TrackerStep

LEMMA EdgeSwapStep ==
    ASSUME OneConnector, BInv, NEW p \in Procs, EdgeSwap(p)
    PROVE  BInv'
    <1>1. proc[p] \in Locals /\ Good(p, proc[p]) /\ Return(p)
        BY ProcLocals DEF EdgeSwap
    <1>2. At(p, "edgeSwap") /\ ~ Pending(proc[p]) /\ p \in Conns
        BY <1>1 DEF EdgeSwap, At, Pending, Good, Procs
    <1>3. /\ revs' = revs /\ atts' = atts /\ row' = row /\ edits' = edits
          /\ crashes' = crashes /\ sent' = sent /\ typed' = typed /\ raced' = raced
          /\ lost' = lost /\ link' = link /\ tip' = tip
        BY DEF EdgeSwap, history
    <1>4. CASE edges' = edges
        <2>1. UNCHANGED rest /\ edits' \in 0..MaxEdits
            BY <1>3, <1>4, Shapes DEF rest
        <2>2. QED BY <1>1, <1>2, <2>1, ReturnStep
    <1>5. CASE edges' = Append(edges, proc[p].head)
        <2>1. proc[p].head \in 1..HeadRev /\ \A i \in DOMAIN edges : edges[i] # proc[p].head
            BY <1>1, <1>2, Shapes DEF Good, Knows, At
        <2>2. edges \in Seq(1..HeadRev) /\ edges' \in Seq(1..HeadRev)
            BY <1>5, <2>1 DEF BInv, BridgeTypeOK
        <2>3. /\ \A q \in Procs : proc'[q] = IF q = p THEN Idle ELSE proc[q]
              /\ proc' \in [Procs -> Locals]
            BY <1>1, IdleGood DEF Return, BInv, BridgeTypeOK
        <2>4. BridgeTypeOK'
            BY <1>3, <2>2, <2>3 DEF BInv, BridgeTypeOK, HeadRev
        <2>5. ASSUME NEW q \in Procs PROVE Good(q, proc[q])'
            <3>1. PICK r : r = proc'[q] /\ Good(q, r)
                BY <2>3, IdleGood DEF BInv
            <3>2. r.pc \in {"edgeAdd", "edgeSwap"} => q \in Authors
                <4>1. CASE q = p BY <4>1, <2>3, <3>1 DEF Idle
                <4>2. CASE q # p BY <4>2, <1>2 DEF OneConnector, Procs
                <4>3. QED BY <4>1, <4>2
            <3>3. Good(q, r)'
                BY <1>3, <3>1, <3>2 DEF Good, Knows, Marks, Current, Told, Since, Explained, Pending, Noted, HeadRev
            <3>4. QED BY <3>1, <3>3
        <2>6. Paid'
            <3>1. Owing' => Owing
                <4>1. \A c \in Conns : Again(proc'[c]) => Again(proc[c])
                    BY <2>3, IdleGood DEF Procs
                <4>2. \A c \in Conns : Pending(proc[c]) => Pending(proc'[c])
                    BY <2>3, <1>2 DEF Procs
                <4>3. Owing' => \/ Unnoted /\ \A c \in Conns : ~ Pending(proc'[c])
                                \/ \E c \in Conns : Again(proc'[c])
                    BY <1>3 DEF Owing, Unnoted, Noted, Pending, Again
                <4>4. QED BY <4>1, <4>2, <4>3 DEF Owing
            <3>2. QED BY <1>3, <3>1, Shapes, StillPaid
        <2>7. EdgesOnce'
            <3>1. /\ DOMAIN edges' = 1..(Len(edges) + 1) /\ edges'[Len(edges) + 1] = proc[p].head
                  /\ \A i \in 1..Len(edges) : edges'[i] = edges[i]
                BY <1>5, <2>2
            <3>2. EdgesOnce
                BY DEF BInv
            <3>3. QED BY <3>1, <3>2, <2>1, Shapes DEF EdgesOnce
        <2>8. (revs[1].by = "local" /\ Marks(link) /\ Explained(row.spec) /\ InboundHonest /\ InOrder)'
            BY <1>3 DEF BInv, Marks, Told, HeadRev, Explained, InboundHonest, InOrder
        <2>9. QED BY <2>4, <2>5, <2>6, <2>7, <2>8 DEF BInv
    <1>6. QED BY <1>4, <1>5 DEF EdgeSwap

\* The push: the row now says what the revision sent last says.
LEMMA SendStep ==
    ASSUME OneConnector, BInv, NEW p \in Procs, Send(p)
    PROVE  BInv'
    <1> DEFINE h == proc[p].head
               r == [Idle EXCEPT !.pc = "mark"]
    <1>1. proc[p] \in Locals /\ Good(p, proc[p]) /\ proc[p].pc = "send"
        BY ProcLocals DEF Send, At
    <1>2. ~ Pending(proc[p]) /\ p \in Conns
        BY <1>1 DEF Pending, Good, Procs
    <1>3. h \in DOMAIN revs /\ Since(h) /\ \A x \in sent : x <= h
        BY <1>1, <1>2 DEF Good, Knows
    <1>4. /\ revs' = revs /\ atts' = atts /\ edges' = edges /\ edits' = edits
          /\ crashes' = crashes /\ typed' = typed /\ raced' = raced
          /\ lost' = lost /\ link' = link /\ tip' = tip
          /\ row' = [row EXCEPT !.spec = revs[h].spec] /\ sent' = sent \cup {h}
        BY DEF Send, repo
    <1>5. r \in Locals /\ r.pc = "mark" /\ r.head = 0 /\ r.base = 0 /\ r.seen = 0
        BY IdleGood DEF Idle, Locals
    <1>6. /\ \A q \in Procs : proc'[q] = IF q = p THEN r ELSE proc[q]
          /\ proc' \in [Procs -> Locals]
        BY <1>5 DEF Send, BInv, BridgeTypeOK
    <1> HIDE DEF r, h
    <1>7. row.spec' = revs[h].spec
        BY <1>4 DEF BInv, BridgeTypeOK
    <1>8. BridgeTypeOK'
        <2>1. row' \in [spec : Specs, dec : Decisions \cup {NoDecision}, field : Nat, dep : BOOLEAN]
            BY <1>3, <1>4, Shapes DEF BInv, BridgeTypeOK
        <2>2. sent' \subseteq 1..HeadRev
            BY <1>3, <1>4, Shapes
        <2>3. QED BY <1>4, <1>6, <2>1, <2>2 DEF BInv, BridgeTypeOK, HeadRev
    <1>9. \A k : Told(k) => Told(k)'
        BY <1>4 DEF Told
    <1>10. ASSUME NEW q \in Procs PROVE Good(q, proc[q])'
        <2>1. CASE q = p
            <3>1. Told(HeadRev)'
                <4>1. CASE h = HeadRev
                    BY <4>1, <1>4 DEF Told, HeadRev
                <4>2. CASE h # HeadRev
                    <5>1. HeadRev \in DOMAIN revs /\ HeadRev > h
                        BY <4>2, <1>3, Shapes
                    <5>2. HeadRev \in raced
                        BY <5>1, <1>3 DEF Since
                    <5>3. QED BY <5>2, <1>4 DEF Told, HeadRev
                <4>3. QED BY <4>1, <4>2
            <3>2. p \notin Authors
                BY <1>2, BridgeAssumption
            <3>3. HeadRev' \in Nat /\ tip' \in Nat
                BY <1>4, Shapes DEF HeadRev
            <3>4. PICK t : t = r
                OBVIOUS
            <3>5. Good(p, t)'
                BY <3>1, <3>2, <3>3, <3>4, <1>5 DEF Good, Knows
            <3>6. QED BY <2>1, <3>4, <3>5, <1>6
        <2>2. CASE q # p
            <3>1. q \notin Conns
                BY <2>2, <1>2 DEF OneConnector
            <3>2. PICK t : t = proc'[q] /\ Good(q, t)
                BY <2>2, <1>6 DEF BInv
            <3>3. Good(q, t)'
                BY <1>4, <1>9, <3>1, <3>2 DEF Good, Marks, Current, Pending, Noted, HeadRev
            <3>4. QED BY <3>2, <3>3
        <2>3. QED BY <2>1, <2>2
    <1>11. Paid'
        <2>1. Owing' => Owing
            <3>1. \A c \in Conns : Again(proc'[c]) => Again(proc[c])
                BY <1>5, <1>6 DEF Procs, Again
            <3>2. \A c \in Conns : Pending(proc[c]) => Pending(proc'[c])
                BY <1>6, <1>2 DEF Procs
            <3>3. Owing' => \/ Unnoted /\ \A c \in Conns : ~ Pending(proc'[c])
                            \/ \E c \in Conns : Again(proc'[c])
                BY <1>4 DEF Owing, Unnoted, Noted, Pending, Again
            <3>4. QED BY <3>1, <3>2, <3>3 DEF Owing
        <2>2. QED BY <1>4, <2>1, Shapes, StillPaid
    <1>12. Explained(row.spec)'
        <2>1. /\ h \in sent' /\ revs'[h].spec = row'.spec
              /\ \A x \in sent' : x <= h
            BY <1>3, <1>4, <1>7, Shapes
        <2>2. \A k \in DOMAIN revs' : ~ (k > h /\ revs'[k].by = "bridge")
            BY <1>3, <1>4 DEF Since
        <2>3. QED BY <2>1, <2>2 DEF Explained
    <1>13. (revs[1].by = "local" /\ Marks(link) /\ InboundHonest /\ InOrder /\ EdgesOnce)'
        BY <1>4 DEF BInv, Marks, Told, HeadRev, InboundHonest, InOrder, EdgesOnce
    <1>14. QED BY <1>8, <1>10, <1>11, <1>12, <1>13 DEF BInv

\* A decision is attested again only when it was owed: attestations are in the order of their
\* revisions, so what it repeats is the last one.
LEMMA AttestSwapStep ==
    ASSUME OneConnector, BInv, NEW p \in Procs, AttestSwap(p)
    PROVE  BInv'
    <1>0. PICK h, d, n, l, r : /\ h = proc[p].head /\ d = proc[p].dec /\ n = Len(atts)
                               /\ l = [proc[p].link EXCEPT !.trans = proc[p].dec, !.transHead = proc[p].head]
                               /\ r = Linked(l, proc[p].seen)
        OBVIOUS
    <1>1. proc[p] \in Locals /\ Good(p, proc[p]) /\ proc[p].pc = "attach"
        BY ProcLocals DEF AttestSwap, At
    <1>2. ~ Pending(proc[p]) /\ p \in Conns /\ p \notin Authors
        BY <1>1 DEF Pending, Good, Procs
    <1>3. /\ revs' = revs /\ edges' = edges /\ edits' = edits /\ row' = row
          /\ crashes' = crashes /\ typed' = typed /\ raced' = raced /\ sent' = sent
          /\ lost' = lost /\ link' = link /\ tip' = tip
        BY DEF AttestSwap, history
    <1>4. CASE Return(p) /\ atts' = atts
        <2>1. UNCHANGED rest /\ edits' \in 0..MaxEdits
            BY <1>3, <1>4, Shapes DEF rest
        <2>2. QED BY <1>4, <1>2, <2>1, ReturnStep
    <1>5. CASE atts' = Append(atts, [rev |-> h, dec |-> d]) /\ SetLink(p, l, proc[p].seen)
        <2>1. /\ h \in 1..HeadRev /\ d \in Decisions /\ Marks(proc[p].link)
              /\ \A i \in DOMAIN atts : atts[i].rev <= h
            BY <1>0, <1>1, <1>2, Shapes DEF Good, Knows
        <2>2. /\ l \in Link /\ l.pushed = proc[p].link.pushed /\ l.trans = d /\ l.transHead = h
            BY <1>0, <1>1, <2>1 DEF Locals, Link
        <2>3. r \in Locals /\ r.pc = "tip" /\ r.link = l /\ r.seen = proc[p].seen /\ r.head = 0 /\ r.base = 0
            <3>1. Idle \in Locals
                BY IdleGood
            <3>2. proc[p].seen \in Nat
                BY <1>1 DEF Locals
            <3>3. QED BY <1>0, <3>1, <3>2, <2>2 DEF Linked, Locals, Idle
        <2>4. proc' = [proc EXCEPT ![p] = r]
            BY <1>0, <1>5 DEF SetLink, Linked
        <2>5. /\ \A q \in Procs : proc'[q] = IF q = p THEN r ELSE proc[q]
              /\ proc' \in [Procs -> Locals]
            BY <2>3, <2>4 DEF BInv, BridgeTypeOK
        <2>6. /\ atts \in Seq([rev : 1..HeadRev, dec : Decisions]) /\ [rev |-> h, dec |-> d] \in [rev : 1..HeadRev, dec : Decisions]
            BY <2>1 DEF BInv, BridgeTypeOK
        <2>7. /\ atts' \in Seq([rev : 1..HeadRev, dec : Decisions])
              /\ n \in Nat /\ Len(atts') = n + 1 /\ DOMAIN atts' = 1..(n + 1) /\ DOMAIN atts = 1..n
              /\ \A i \in 1..n : atts'[i] = atts[i]
              /\ atts'[n + 1] = [rev |-> h, dec |-> d]
            BY <1>0, <1>5, <2>6
        <2>8. BridgeTypeOK'
            BY <1>3, <2>5, <2>7 DEF BInv, BridgeTypeOK, HeadRev
        <2>9. Noted(l)' /\ Len(atts)' > 0
            BY <2>2, <2>7 DEF Noted
        <2>10. \A k : Told(k) => Told(k)'
            BY <1>3 DEF Told
        <2>11. ASSUME NEW q \in Procs PROVE Good(q, proc[q])'
            <3>1. CASE q = p
                <4>1. PICK t : t = r
                    OBVIOUS
                <4>2. Marks(t.link)'
                    BY <4>1, <1>3, <2>1, <2>2, <2>3, <2>10, Shapes DEF Marks, HeadRev
                <4>3. Pending(t)'
                    BY <4>1, <2>3, <2>9 DEF Pending, Noted
                <4>4. HeadRev' \in Nat /\ proc[p].seen <= tip
                    BY <1>3, <1>1, Shapes DEF HeadRev, Good
                <4>5. t.pc = "tip" /\ t.seen <= tip' /\ t.head = 0 /\ t.base = 0
                    BY <4>1, <4>4, <2>3, <1>3
                <4>6. Good(p, t)'
                    BY <1>2, <4>2, <4>3, <4>4, <4>5 DEF Good, Knows
                <4>7. QED BY <3>1, <4>1, <4>6, <2>5
            <3>2. CASE q # p
                <4>1. q \notin Conns
                    BY <3>2, <1>2 DEF OneConnector
                <4>2. PICK t : t = proc'[q] /\ Good(q, t)
                    BY <3>2, <2>5 DEF BInv
                <4>3. Good(q, t)'
                    BY <1>3, <2>10, <4>1, <4>2 DEF Good, Marks, Current, HeadRev
                <4>4. QED BY <4>2, <4>3
            <3>3. QED BY <3>1, <3>2
        <2>12. InOrder'
            <3>1. InOrder /\ \A i \in 1..n : atts[i].rev \in Nat
                <4>1. \A i \in 1..n : atts[i] \in [rev : 1..HeadRev, dec : Decisions]
                    BY <2>7, Shapes
                <4>2. QED BY <4>1, Shapes DEF BInv
            <3>2. h \in Nat /\ atts'[n + 1].rev = h
                BY <2>1, <2>7, Shapes
            <3>3. QED BY <2>1, <2>7, <3>1, <3>2 DEF InOrder
        <2>13. Paid'
            <3>1. ~ Owing'
                <4>1. Pending(proc[p])'
                    BY <2>3, <2>5, <2>9 DEF Pending, Noted
                <4>2. \A c \in Conns : c = p
                    BY <1>2 DEF OneConnector
                <4>3. ~ Again(proc[p])'
                    BY <2>3, <2>5 DEF Again
                <4>4. QED BY <1>2, <4>1, <4>2, <4>3 DEF Owing
            <3>2. \A i \in 1..n : SameBefore(i)' => SameBefore(i)
                BY <2>7 DEF SameBefore
            <3>3. SameBefore(n + 1)' => Owing
                <4>1. SUFFICES ASSUME SameBefore(n + 1)' PROVE Again(proc[p])
                    BY <1>2 DEF Owing
                <4>2. PICK g \in 1..n : /\ atts'[g] = atts'[n + 1]
                                        /\ \A j \in (g + 1)..n : atts'[j].rev # atts'[n + 1].rev
                    BY <4>1, <2>7 DEF SameBefore
                <4>3. atts[g].rev = h /\ atts[g].dec = d
                    BY <4>2, <2>7
                <4>4. g = n
                    <5>1. ASSUME g # n PROVE FALSE
                        <6>1. n \in (g + 1)..n /\ g <= n /\ g \in DOMAIN atts /\ n \in DOMAIN atts
                            BY <5>1, <2>7
                        <6>2. atts[n].rev # h
                            BY <6>1, <4>2, <2>7
                        <6>3. atts[g].rev <= atts[n].rev /\ atts[n].rev <= h
                            BY <6>1, <2>1 DEF BInv, InOrder
                        <6>4. atts[n].rev \in Nat /\ h \in Nat
                            BY <6>1, <2>1, Shapes
                        <6>5. QED BY <6>2, <6>3, <6>4, <4>3
                    <5>2. QED BY <5>1
                <4>5. QED BY <4>2, <4>3, <4>4, <1>0, <1>1 DEF Again
            <3>4. IsFiniteSet(Repeats) /\ Cardinality(Repeats) \in Nat
                  /\ Cardinality(Repeats) + (IF Owing THEN 1 ELSE 0) <= crashes + lost
                BY RepeatsNat
            <3>5. Cardinality(Repeats') <= crashes + lost
                <4>1. CASE SameBefore(n + 1)'
                    <5>1. Repeats' \subseteq Repeats \cup {n + 1}
                        BY <2>7, <3>2 DEF Repeats
                    <5>2. IsFiniteSet(Repeats \cup {n + 1}) /\ Cardinality(Repeats \cup {n + 1}) <= Cardinality(Repeats) + 1
                        <6>1. n + 1 \notin Repeats
                            BY <2>7 DEF Repeats
                        <6>2. IsFiniteSet(Repeats) /\ Cardinality(Repeats) \in Nat
                            BY <3>4
                        <6>3. /\ IsFiniteSet(Repeats \cup {n + 1})
                              /\ Cardinality(Repeats \cup {n + 1}) = Cardinality(Repeats) + 1
                            BY ONLY <6>1, <6>2, FS_AddElement
                        <6>4. QED BY <6>2, <6>3
                    <5>3. Cardinality(Repeats') <= Cardinality(Repeats \cup {n + 1}) /\ Cardinality(Repeats') \in Nat
                          /\ Cardinality(Repeats \cup {n + 1}) \in Nat
                        BY <5>1, <5>2, FS_Subset, FS_CardinalityType
                    <5>4. QED BY <4>1, <3>3, <3>4, <5>2, <5>3, Shapes
                <4>2. CASE ~ SameBefore(n + 1)'
                    <5>1. Repeats' \subseteq Repeats
                        BY <4>2, <2>7, <3>2 DEF Repeats
                    <5>2. Cardinality(Repeats') <= Cardinality(Repeats) /\ Cardinality(Repeats') \in Nat
                        BY <5>1, <3>4, FS_Subset, FS_CardinalityType
                    <5>3. QED BY <3>4, <5>2, Shapes
                <4>3. QED BY <4>1, <4>2
            <3>6. Cardinality(Repeats') \in Nat
                <4>1. IsFiniteSet(1..(n + 1))
                    BY <2>7, FS_Interval
                <4>2. Repeats' \subseteq 1..(n + 1)
                    BY <2>7 DEF Repeats
                <4>3. QED BY <4>1, <4>2, FS_Subset, FS_CardinalityType
            <3>7. Cardinality(Repeats') + (IF Owing' THEN 1 ELSE 0) <= crashes' + lost'
                BY <3>1, <3>5, <3>6, <1>3
            <3>8. QED BY <3>7 DEF Paid, Repeats
        <2>14. (revs[1].by = "local" /\ Marks(link) /\ Explained(row.spec) /\ InboundHonest /\ EdgesOnce)'
            BY <1>3 DEF BInv, Marks, Told, HeadRev, Explained, InboundHonest, EdgesOnce
        <2>15. QED BY <2>8, <2>11, <2>12, <2>13, <2>14 DEF BInv
    <1>6. QED BY <1>0, <1>4, <1>5 DEF AttestSwap

\* What appending a revision changes and what it does not.
LEMMA Appended ==
    ASSUME BInv, NEW x \in [spec : Specs, by : {"local", "bridge"}], revs' = Append(revs, x)
    PROVE  /\ HeadRev' = HeadRev + 1 /\ DOMAIN revs' = 1..(HeadRev + 1)
           /\ revs'[HeadRev + 1] = x
           /\ \A k \in 1..HeadRev : revs'[k] = revs[k]
           /\ revs' \in Seq([spec : Specs, by : {"local", "bridge"}])
    BY DEF BInv, BridgeTypeOK, HeadRev

LEMMA AppendedTypes ==
    ASSUME BInv, NEW x \in [spec : Specs, by : {"local", "bridge"}], revs' = Append(revs, x),
           raced \subseteq raced', raced' \subseteq raced \cup {HeadRev + 1},
           UNCHANGED <<link, tip, atts, edges, row, edits, crashes, sent, typed, lost>>,
           proc' \in [Procs -> Locals]
    PROVE  BridgeTypeOK' /\ InOrder' /\ EdgesOnce' /\ revs'[1].by = "local"
    <1>1. HeadRev \in Nat /\ HeadRev > 0 /\ HeadRev' = HeadRev + 1
        BY Appended, Shapes
    <1>2. 1..HeadRev \subseteq 1..HeadRev'
        BY <1>1
    <1>3. /\ atts \in Seq([rev : 1..HeadRev, dec : Decisions])
          /\ [rev : 1..HeadRev, dec : Decisions] \subseteq [rev : 1..HeadRev', dec : Decisions]
          /\ edges \in Seq(1..HeadRev)
        BY <1>2 DEF BInv, BridgeTypeOK
    <1>4. atts' \in Seq([rev : 1..HeadRev', dec : Decisions])
        BY <1>3, SeqWider
    <1>5. edges' \in Seq(1..HeadRev')
        BY <1>2, <1>3, SeqWider
    <1>6. sent' \subseteq 1..HeadRev' /\ raced' \subseteq 1..HeadRev'
        BY <1>1, <1>2, Shapes
    <1>7. revs' \in Seq([spec : Specs, by : {"local", "bridge"}]) /\ HeadRev' > 0
        <2>1. revs' \in Seq([spec : Specs, by : {"local", "bridge"}])
            BY Appended
        <2>2. QED BY <1>1, <2>1
    <1>8. BridgeTypeOK'
        BY <1>4, <1>5, <1>6, <1>7 DEF BInv, BridgeTypeOK
    <1>9. QED BY <1>1, <1>8, Appended DEF BInv, InOrder, EdgesOnce

\* A revision made by a person: it is raced if the connector is at work on the head.
LEMMA AuthorSwapStep ==
    ASSUME OneConnector, BInv, NEW p \in Authors, ReviseSwap(p), proc[p].base = HeadRev
    PROVE  BInv'
    <1>1. p \in Procs /\ p \notin Conns
        BY BridgeAssumption DEF Procs
    <1>2. proc[p] \in Locals /\ Good(p, proc[p]) /\ proc[p].pc = "cas"
        BY <1>1, ProcLocals DEF ReviseSwap, At
    <1>3. PICK x : x = [spec |-> proc[p].spec, by |-> "local"]
        OBVIOUS
    <1>4. /\ revs' = Append(revs, x) /\ link' = link /\ tip' = tip /\ atts' = atts /\ edges' = edges
          /\ row' = row /\ edits' = edits /\ crashes' = crashes /\ sent' = sent /\ typed' = typed
          /\ lost' = lost /\ Return(p)
          /\ raced' = IF \E q \in Conns : Working(q) THEN raced \cup {HeadRev + 1} ELSE raced
        BY <1>1, <1>3 DEF ReviseSwap
    <1>5. x \in [spec : Specs, by : {"local", "bridge"}] /\ x.by = "local"
        BY <1>2, <1>3 DEF Good
    <1>6. /\ HeadRev \in Nat /\ HeadRev > 0 /\ HeadRev' = HeadRev + 1 /\ DOMAIN revs = 1..HeadRev
          /\ DOMAIN revs' = 1..(HeadRev + 1) /\ revs'[HeadRev + 1].by = "local"
          /\ \A k \in 1..HeadRev : revs'[k] = revs[k]
        BY <1>4, <1>5, Appended, Shapes
    <1>7. /\ \A q \in Procs : proc'[q] = IF q = p THEN Idle ELSE proc[q]
          /\ proc' \in [Procs -> Locals]
        BY <1>1, <1>4, IdleGood DEF Return, BInv, BridgeTypeOK
    <1>8. BridgeTypeOK' /\ InOrder' /\ EdgesOnce' /\ revs'[1].by = "local"
        BY <1>4, <1>5, <1>7, AppendedTypes
    <1>9. \A k \in DOMAIN revs : Told(k) => Told(k)'
        BY <1>4, <1>6 DEF Told
    <1>10. \A lk \in Link : Marks(lk) => Marks(lk)'
        BY <1>6, <1>9 DEF Marks, Link
    <1>11. \A s : Explained(s) => Explained(s)'
        <2>1. SUFFICES ASSUME NEW s, Explained(s) PROVE Explained(s)'
            OBVIOUS
        <2>2. CASE s \in typed
            BY <2>2, <1>4 DEF Explained
        <2>3. CASE s \notin typed
            <3>1. PICK t \in sent : /\ revs[t].spec = s
                                    /\ \A y \in sent : y <= t
                                    /\ \A k \in DOMAIN revs : k > t /\ revs[k].by = "bridge" => revs[k].spec = s
                BY <2>1, <2>3 DEF Explained
            <3>2. t \in 1..HeadRev
                BY Shapes
            <3>3. ASSUME NEW k \in DOMAIN revs', k > t, revs'[k].by = "bridge" PROVE revs'[k].spec = s
                <4>1. k \in 1..HeadRev
                    BY <3>3, <1>6
                <4>2. QED BY <4>1, <3>3, <3>1, <1>6
            <3>4. t \in sent' /\ revs'[t].spec = s /\ \A y \in sent' : y <= t
                BY <3>1, <3>2, <1>4, <1>6
            <3>5. QED BY <3>3, <3>4 DEF Explained
        <2>4. QED BY <2>2, <2>3
    <1>12. ASSUME NEW q \in Procs PROVE Good(q, proc[q])'
        <2>1. PICK r : r = proc'[q] /\ Good(q, r) /\ (q # p => r = proc[q]) /\ (q = p => r = Idle)
            BY <1>7, <1>1, IdleGood DEF BInv
        <2>2. (q \in Conns /\ r.pc \in {"applyLink", "revise", "cas", "send", "mark"}) => HeadRev + 1 \in raced'
            <3>1. q \in Conns => q # p
                BY <1>1
            <3>2. QED BY <3>1, <2>1, <1>4 DEF Working
        <2>3. \A k : Since(k) /\ HeadRev + 1 \in raced' => Since(k)'
            BY <1>4, <1>6 DEF Since
        <2>4. HeadRev + 1 \in raced' => Told(HeadRev)'
            <3>1. HeadRev' \in raced' => Told(HeadRev)'
                BY DEF Told
            <3>2. QED BY <3>1, <1>6
        <2>5. q \in Conns => Knows(r)'
            <3>1. SUFFICES ASSUME q \in Conns PROVE Knows(r)'
                OBVIOUS
            <3>2. Knows(r)
                BY <2>1, <3>1 DEF Good
            <3>3. /\ r.head \in DOMAIN revs => r.head \in DOMAIN revs' /\ (Told(r.head) => Told(r.head)')
                  /\ r.head \in raced => r.head \in raced'
                BY <1>4, <1>6, <1>9
            <3>4. /\ r.pc \in {"revise", "cas", "attest", "attach"} => Marks(r.link)' /\ Current(r)'
                  /\ r.pc \in {"apply", "applyLink"} => Explained(r.spec)'
                  /\ r.pc \in {"applyLink", "send", "revise", "cas"} => Since(r.head)'
                  /\ r.pc = "mark" => Told(HeadRev)'
                <4>1. r.link \in Link
                    BY <1>7, <2>1 DEF Locals
                <4>2. QED BY <4>1, <1>4, <1>10, <1>11, <2>2, <2>3, <2>4, <3>1, <3>2, <3>3 DEF Knows, Current
            <3>5. QED BY <1>4, <3>2, <3>3, <3>4 DEF Knows
        <2>6. /\ r.head <= HeadRev' /\ r.base <= HeadRev'
            <3>1. r \in Locals
                BY <1>7, <2>1
            <3>2. QED BY <3>1, <2>1, <1>6 DEF Good, Locals
        <2>7. Good(q, r)'
            <3>1. r.link \in Link
                BY <1>7, <2>1 DEF Locals
            <3>2. QED BY <1>4, <1>10, <2>1, <2>5, <2>6, <3>1 DEF Good, Current, Pending, Noted
        <2>8. QED BY <2>1, <2>7
    <1>13. Paid'
        <2>1. Owing' => Owing
            BY <1>1, <1>4, <1>7 DEF Owing, Unnoted, Noted, Pending, Again, Procs
        <2>2. QED BY <1>4, <2>1, Shapes, StillPaid
    <1>14. Marks(link)' /\ Explained(row.spec)'
        BY <1>4, <1>10, <1>11, Shapes DEF BInv
    <1>15. InboundHonest'
        <2>1. SUFFICES ASSUME NEW k \in DOMAIN revs', revs'[k].by = "bridge", k - 1 \notin raced'
                       PROVE  /\ revs'[k].spec \in typed'
                              /\ revs'[k - 1].by = "local" => k - 1 \in sent'
            BY DEF InboundHonest
        <2>2. k \in 1..HeadRev /\ k # 1
            BY <2>1, <1>6, <1>8
        <2>3. k - 1 \in 1..HeadRev /\ k - 1 \notin raced
            BY <2>1, <2>2, <1>4, <1>6
        <2>4. InboundHonest
            BY DEF BInv
        <2>5. revs[k].by = "bridge"
            BY <2>1, <2>2, <1>6
        <2>6. revs[k].spec \in typed /\ (revs[k - 1].by = "local" => k - 1 \in sent)
            BY <2>2, <2>3, <2>4, <2>5, <1>6 DEF InboundHonest
        <2>7. QED BY <2>2, <2>3, <2>6, <1>4, <1>6
    <1>16. QED BY <1>8, <1>12, <1>13, <1>14, <1>15 DEF BInv

\* A revision made by the connector, of a text from the row.
LEMMA BridgeSwapStep ==
    ASSUME OneConnector, BInv, NEW p \in Conns, ReviseSwap(p), proc[p].base = HeadRev
    PROVE  BInv'
    <1>1. p \in Procs /\ p \notin Authors
        BY BridgeAssumption DEF Procs
    <1>2. proc[p] \in Locals /\ Good(p, proc[p]) /\ proc[p].pc = "cas" /\ ~ Pending(proc[p])
        BY <1>1, ProcLocals DEF ReviseSwap, At, Pending
    <1>3. PICK h, s, v, x, l, r :
              /\ h = proc[p].head /\ s = proc[p].spec /\ v = proc[p].seen
              /\ x = [spec |-> s, by |-> "bridge"]
              /\ l = [proc[p].link EXCEPT !.pulled = s, !.pushed = HeadRev + 1]
              /\ r = Linked(l, v)
        OBVIOUS
    <1>4. /\ revs' = Append(revs, x) /\ link' = link /\ tip' = tip /\ atts' = atts /\ edges' = edges
          /\ row' = row /\ edits' = edits /\ crashes' = crashes /\ sent' = sent /\ typed' = typed
          /\ lost' = lost /\ raced' = raced /\ proc' = [proc EXCEPT ![p] = r]
        BY <1>1, <1>3 DEF ReviseSwap, SetLink, Linked
    <1>5. /\ Marks(proc[p].link) /\ Current(proc[p]) /\ h \in DOMAIN revs /\ Since(h) /\ Told(h)
          /\ row.spec \in typed \/ row.spec = s
          /\ s \in typed \/ h \in raced
          /\ s \in Specs /\ h <= HeadRev /\ v <= tip
        BY <1>2, <1>3 DEF Good, Knows
    <1>6. x \in [spec : Specs, by : {"local", "bridge"}] /\ x.by = "bridge" /\ x.spec = s
        BY <1>3, <1>5
    <1>7. /\ HeadRev \in Nat /\ HeadRev > 0 /\ HeadRev' = HeadRev + 1 /\ DOMAIN revs = 1..HeadRev
          /\ DOMAIN revs' = 1..(HeadRev + 1) /\ revs'[HeadRev + 1] = x
          /\ \A k \in 1..HeadRev : revs'[k] = revs[k]
        BY <1>4, <1>6, Appended, Shapes
    <1>8. /\ l \in Link /\ l.pushed = HeadRev + 1 /\ l.trans = proc[p].link.trans
          /\ l.transHead = proc[p].link.transHead
        <2>1. proc[p].link \in Link /\ HeadRev + 1 \in Nat /\ s \in Specs \cup {NoSpec}
            BY <1>2, <1>5, <1>7 DEF Locals
        <2>2. l = [proc[p].link EXCEPT !.pulled = s, !.pushed = HeadRev + 1]
            BY <1>3
        <2>3. QED BY <2>1, <2>2 DEF Link
    <1>9. r \in Locals /\ r.pc = "tip" /\ r.link = l /\ r.seen = v /\ r.head = 0 /\ r.base = 0
        <2>1. Idle \in Locals
            BY <1>1, IdleGood
        <2>2. v \in Nat
            BY <1>2, <1>3 DEF Locals
        <2>3. r = Linked(l, v)
            BY <1>3
        <2>4. QED BY <2>1, <2>2, <2>3, <1>8 DEF Linked, Locals, Idle
    <1>10. /\ \A q \in Procs : proc'[q] = IF q = p THEN r ELSE proc[q]
           /\ proc' \in [Procs -> Locals]
        BY <1>4, <1>9 DEF BInv, BridgeTypeOK
    <1>11. BridgeTypeOK' /\ InOrder' /\ EdgesOnce' /\ revs'[1].by = "local"
        BY <1>4, <1>6, <1>10, AppendedTypes
    <1>12. \A k \in DOMAIN revs : Told(k) => Told(k)'
        BY <1>4, <1>7 DEF Told
    <1>13. \A lk \in Link : Marks(lk) => Marks(lk)'
        BY <1>7, <1>12 DEF Marks, Link
    <1>14. ASSUME NEW q \in Procs PROVE Good(q, proc[q])'
        <2>1. CASE q = p
            <3>1. Marks(l)'
                <4>1. PICK k : k = HeadRev + 1
                    OBVIOUS
                <4>2. revs'[k].by = "bridge" /\ l.pushed = k /\ k \in DOMAIN revs'
                    BY <4>1, <1>6, <1>7, <1>8
                <4>3. Told(l.pushed)'
                    BY <4>2 DEF Told
                <4>4. l.transHead <= HeadRev'
                    BY <1>5, <1>7, <1>8 DEF Marks, Link
                <4>5. QED BY <4>2, <4>3, <4>4 DEF Marks
            <3>2. Current(r)'
                BY <1>3, <1>4, <1>5, <1>8, <1>9 DEF Current
            <3>3. r.head <= HeadRev' /\ r.base <= HeadRev' /\ r.seen <= tip'
                BY <1>4, <1>5, <1>7, <1>9
            <3>4. Good(p, r)'
                BY <1>1, <1>9, <3>1, <3>2, <3>3 DEF Good, Knows
            <3>5. QED BY <2>1, <3>4, <1>10
        <2>2. CASE q # p
            <3>1. q \notin Conns
                BY <2>2 DEF OneConnector
            <3>2. PICK t : t = proc'[q] /\ Good(q, t) /\ t \in Locals
                BY <2>2, <1>10 DEF BInv
            <3>3. t.head <= HeadRev' /\ t.base <= HeadRev'
                BY <3>2, <1>7 DEF Good, Locals
            <3>4. Good(q, t)'
                <4>1. t.link \in Link
                    BY <3>2 DEF Locals
                <4>2. QED BY <1>4, <1>13, <3>1, <3>2, <3>3, <4>1 DEF Good, Current
            <3>5. QED BY <3>2, <3>4
        <2>3. QED BY <2>1, <2>2
    <1>15. Paid'
        <2>1. Owing' => Owing
            <3>1. \A c \in Conns : Again(proc'[c]) => Again(proc[c])
                BY <1>9, <1>10 DEF Procs, Again
            <3>2. \A c \in Conns : Pending(proc[c]) => Pending(proc'[c])
                BY <1>10, <1>2 DEF Procs
            <3>3. Owing' => \/ Unnoted /\ \A c \in Conns : ~ Pending(proc'[c])
                            \/ \E c \in Conns : Again(proc'[c])
                BY <1>4 DEF Owing, Unnoted, Noted, Pending, Again
            <3>4. QED BY <3>1, <3>2, <3>3 DEF Owing
        <2>2. QED BY <1>4, <2>1, Shapes, StillPaid
    <1>16. Marks(link)'
        BY <1>4, <1>13, Shapes DEF BInv
    <1>17. Explained(row.spec)'
        <2>1. CASE row.spec \in typed
            BY <2>1, <1>4 DEF Explained
        <2>2. CASE row.spec \notin typed
            <3>1. row.spec = s
                BY <2>2, <1>5
            <3>2. Explained(row.spec)
                BY DEF BInv
            <3>3. PICK t \in sent : /\ revs[t].spec = s
                                    /\ \A y \in sent : y <= t
                                    /\ \A k \in DOMAIN revs : k > t /\ revs[k].by = "bridge" => revs[k].spec = s
                BY <2>2, <3>1, <3>2 DEF Explained
            <3>4. t \in 1..HeadRev
                BY Shapes
            <3>5. ASSUME NEW k \in DOMAIN revs', k > t, revs'[k].by = "bridge" PROVE revs'[k].spec = s
                <4>1. CASE k = HeadRev + 1
                    BY <4>1, <1>6, <1>7
                <4>2. CASE k # HeadRev + 1
                    <5>1. k \in 1..HeadRev
                        BY <4>2, <1>7
                    <5>2. QED BY <5>1, <3>5, <3>3, <1>7
                <4>3. QED BY <4>1, <4>2
            <3>6. t \in sent' /\ revs'[t].spec = s /\ \A y \in sent' : y <= t
                BY <3>3, <3>4, <1>4, <1>7
            <3>7. row'.spec = s
                BY <3>1, <1>4
            <3>8. QED BY <3>5, <3>6, <3>7 DEF Explained
        <2>3. QED BY <2>1, <2>2
    <1>18. InboundHonest'
        <2>1. SUFFICES ASSUME NEW k \in DOMAIN revs', revs'[k].by = "bridge", k - 1 \notin raced'
                       PROVE  /\ revs'[k].spec \in typed'
                              /\ revs'[k - 1].by = "local" => k - 1 \in sent'
            BY DEF InboundHonest
        <2>2. CASE k = HeadRev + 1
            <3>1. HeadRev \notin raced /\ revs'[k].spec = s /\ revs'[k - 1] = revs[HeadRev]
                BY <2>1, <2>2, <1>4, <1>6, <1>7
            <3>2. h = HeadRev
                <4>1. h # HeadRev => HeadRev > h /\ HeadRev \in DOMAIN revs
                    BY <1>5, <1>7
                <4>2. QED BY <4>1, <3>1, <1>5 DEF Since
            <3>3. s \in typed /\ (revs[HeadRev].by = "local" => HeadRev \in sent)
                BY <3>1, <3>2, <1>5 DEF Told
            <3>4. QED BY <2>2, <3>1, <3>3, <1>4, <1>7
        <2>3. CASE k # HeadRev + 1
            <3>1. k \in 1..HeadRev /\ k # 1
                BY <2>1, <2>3, <1>7, <1>11
            <3>2. k - 1 \in 1..HeadRev /\ k - 1 \notin raced
                BY <2>1, <3>1, <1>4, <1>7
            <3>3. revs[k].by = "bridge"
                BY <2>1, <3>1, <1>7
            <3>4. InboundHonest
                BY DEF BInv
            <3>5. revs[k].spec \in typed /\ (revs[k - 1].by = "local" => k - 1 \in sent)
                BY <3>1, <3>2, <3>3, <3>4, <1>7 DEF InboundHonest
            <3>6. QED BY <3>1, <3>2, <3>5, <1>4, <1>7
        <2>4. QED BY <2>2, <2>3
    <1>19. QED BY <1>11, <1>14, <1>15, <1>16, <1>17, <1>18 DEF BInv

LEMMA ReviseSwapStep ==
    ASSUME OneConnector, BInv, NEW p \in Procs, ReviseSwap(p)
    PROVE  BInv'
    <1>1. CASE proc[p].base = HeadRev
        BY <1>1, AuthorSwapStep, BridgeSwapStep DEF Procs
    <1>2. CASE proc[p].base # HeadRev
        <2>1. Return(p) /\ UNCHANGED rest /\ edits' \in 0..MaxEdits
            BY <1>2, Shapes DEF ReviseSwap, rest
        <2>2. ~ Pending(proc[p])
            BY DEF ReviseSwap, At, Pending
        <2>3. QED BY <2>1, <2>2, ReturnStep
    <1>3. QED BY <1>1, <1>2

-----------------------------------------------------------------------------
(* The bridge: the theorems.                                                *)

\* The ticket as it is after the first push.
LEMMA BInvInit ==
    ASSUME BridgeInit
    PROVE  BInv
    <1>1. /\ revs = <<[spec |-> Genesis, by |-> "local"]>> /\ tip = 1 /\ atts = <<>> /\ edges = <<>>
          /\ row = [spec |-> Genesis, dec |-> NoDecision, field |-> 0, dep |-> FALSE]
          /\ proc = [p \in Procs |-> Idle] /\ edits = 0 /\ crashes = 0
          /\ sent = {1} /\ typed = {} /\ lost = 0 /\ raced = {}
        BY DEF BridgeInit
    <1>2. link \in Link /\ link.pushed = 1 /\ link.transHead = 0
        BY DEF BridgeInit, Idle, Link
    <1>3. /\ revs \in Seq([spec : Specs, by : {"local", "bridge"}]) /\ HeadRev = 1 /\ DOMAIN revs = {1}
          /\ revs[1].by = "local" /\ revs[1].spec = Genesis
        BY <1>1, BridgeAssumption DEF HeadRev
    <1>4. Idle \in Locals
        BY DEF Idle, Locals, Link
    <1>5. Len(atts) = 0 /\ DOMAIN atts = {} /\ DOMAIN edges = {}
          /\ atts \in Seq([rev : 1..HeadRev, dec : Decisions]) /\ edges \in Seq(1..HeadRev)
        BY <1>1
    <1>6. BridgeTypeOK
        BY <1>1, <1>2, <1>3, <1>4, <1>5, BridgeAssumption DEF BridgeTypeOK
    <1>7. Marks(link) /\ Explained(row.spec) /\ InboundHonest
        BY <1>1, <1>2, <1>3 DEF Marks, Told, Explained, InboundHonest
    <1>8. \A p \in Procs : Good(p, proc[p])
        BY <1>1, <1>3 DEF Good, Knows, Idle
    <1>9. InOrder /\ EdgesOnce
        BY <1>5 DEF InOrder, EdgesOnce
    <1>10. Paid
        <2>1. {i \in DOMAIN atts : SameBefore(i)} = {}
            BY <1>5
        <2>2. ~ Owing
            BY <1>5 DEF Owing, Unnoted, Again
        <2>3. QED BY <2>1, <2>2, <1>1, FS_EmptySet DEF Paid
    <1>11. QED BY <1>3, <1>6, <1>7, <1>8, <1>9, <1>10 DEF BInv

\* One step per action.
LEMMA BInvStep ==
    ASSUME OneConnector, BInv, [BridgeNext]_bridgeVars
    PROVE  BInv'
    <1>1. ASSUME NEW p \in Procs, Continue(p) PROVE BInv'
        BY <1>1, ApplyGetStep, ApplyInboundStep, ReviseHeadStep, ReviseSwapStep, NeedsPushStep,
           TicketSpecStep, SendStep, MarkHeadStep, MarkPushedStep, TransHeadStep, TransitionOnceStep,
           AttestTipStep, AttestSwapStep, PutOnceStep, EdgeTipStep, EdgeSwapStep, AddTipStep,
           AddSwapStep DEF Continue
    <1>2. ASSUME NEW p \in Conns, \/ Poll(p) \/ NeedsHead(p) \/ Transition(p) \/ SetField(p)
                                  \/ ImportTicketEdge(p) \/ KillVerb(p)
          PROVE BInv'
        BY <1>2, PollStep, NeedsHeadStep, TransitionStep, SetFieldStep, ImportStep, KillVerbStep DEF Procs
    <1>3. CASE UNCHANGED bridgeVars
        <2>1. UNCHANGED rest /\ proc' = proc /\ edits' = edits
            BY <1>3 DEF bridgeVars, rest, repo, history
        <2>2. UNCHANGED <<repo, proc, crashes, sent, lost, raced>> /\ row' = row /\ typed' = typed
            BY <2>1 DEF rest, repo
        <2>3. row \in [spec : Specs, dec : Decisions \cup {NoDecision}, field : Nat, dep : BOOLEAN] /\ typed \subseteq Specs
            BY DEF BInv, BridgeTypeOK
        <2>4. QED BY <2>1, <2>2, <2>3, Shapes, TrackerStep
    <1>4. QED BY <1>1, <1>2, <1>3, TicketsReviseStep, BridgeLinkStep, TrackerEditStep, TrackerMoveStep,
              TrackerFieldStep DEF BridgeNext

\* The invariant of the bridge.
LEMMA BInvHolds ==
    ASSUME OneConnector
    PROVE  BridgeSpec => []BInv
    BY BInvInit, BInvStep, PTL DEF BridgeSpec

\* bridge.go ApplyInbound, NeedsPush, MarkPushed: with one connector, no watermark names a
\* revision that is not there, a revision the connector makes carries a text somebody typed,
\* and it goes over nothing that had not been in the row, but for revisions made while the
\* connector was between reading the head and acting on it.
THEOREM InboundIsHonest ==
    ASSUME OneConnector
    PROVE  BridgeSpec => []BridgeInv
    <1>1. BInv => BridgeInv
        BY Shapes DEF BInv, BridgeInv, Marks
    <1>2. QED BY <1>1, BInvHolds, PTL

\* bridge.go RecordTransitionOnce, edge/store.go PutOnce: with one connector, a transition is
\* attested again at most once for each verb killed and each link write lost, and no edge is
\* imported twice for one revision.
THEOREM ResyncLeavesNothing ==
    ASSUME OneConnector
    PROVE  BridgeSpec => []ResyncIdempotent
    <1>1. BInv => ResyncIdempotent
        <2>1. SUFFICES ASSUME BInv PROVE ResyncIdempotent
            OBVIOUS
        <2>2. Cardinality(Repeats) <= crashes + lost
            BY <2>1, RepeatsNat, Shapes
        <2>3. QED BY <2>1, <2>2 DEF ResyncIdempotent, BInv, EdgesOnce, Repeats
    <1>2. QED BY <1>1, BInvHolds, PTL
=============================================================================
