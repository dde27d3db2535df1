----------------------------- MODULE RefUpdate -----------------------------
(* Packages refupdate and trust (internal/refupdate, internal/trust): signed
   ref updates.  A verifier authenticates an update, checks its expiry, the
   signer's authority and the presence of the objects it names, consumes its
   nonce and only then swaps the ref.  Several verifiers run side by side on
   one repository, an update may be delivered more than once, and everything
   between the first check and the swap may be overtaken: the clock, the trust
   store, the object store and the ref.                                     *)
EXTENDS Naturals, Integers, FiniteSets, Sequences

CONSTANTS Verifiers,   \* running verifiers
          Updates,     \* the signed updates in circulation (see Update)
          Names, Ids, NoId,
          Principals,  \* fingerprints
          Records,     \* lines the trust store may hold (see Record)
          Scopes,      \* scopes as sequences of path segments; <<>> is "/"
          Skew,        \* effective clock skew: Verify never uses zero
          MaxTime,     \* bound: the clock
          MaxEvents,   \* bound: deliveries
          MaxOther,    \* bound: changes made by others (refs, trust lines)
          MaxFaults    \* bound: failed ref store and guard calls

Vals == Ids \cup {NoId}

\* A decoded payload and whether its signature verifies.  expires is not_after;
\* 0 means that the update is not dated and stays valid for ever.  The replay key is (signer, ref, nonce).
Update == [ref : Names, old : Vals, new : Vals, scope : Scopes, signer : Principals,
           nonce : Nat, expires : Nat, evidence : SUBSET Ids, signed : BOOLEAN]

\* Rights in increasing order; a right allows itself and the lower ones.
Rights == 1 .. 3
RightPropose == 2
RightPromote == 3

Record == [fp : Principals, scope : Scopes, right : Rights]

ASSUME RefUpdateAssumption ==
    /\ NoId \notin Ids
    /\ Updates \subseteq Update
    /\ Records \subseteq Record
    /\ \A sc \in Scopes : sc \in Seq({sc[k] : k \in DOMAIN sc})
    /\ Skew \in Nat \ {0}
    /\ MaxTime \in Nat \ {0} /\ MaxEvents \in Nat /\ MaxOther \in Nat /\ MaxFaults \in Nat

VARIABLES
    clock,     \* unix time, in the unit of expires: positive
    refs,      \* the ref store (RefRegister)
    objects,   \* identities present in the object store
    trust,     \* principal lines of the trust store
    seen,      \* the replay guard: [key, expires]
    pc,        \* pc[v]: the next check of verifier v
    job,       \* job[v]: the update, the clock and trust v started with, and
               \*   (history) when it asked the guard
    out,       \* out[v]: v's last answer
    events, others, faults,
    \* History:
    applied,   \* the swaps made, in order: [u, checked, from, held]
    audits     \* audited rejections: <<update, reason>>

vars == <<clock, refs, objects, trust, seen, pc, job, out, events, others, faults,
          applied, audits>>

Key(u) == <<u.signer, u.ref, u.nonce>>

\* Scope.Covers: a scope covers its own path and everything below it.
Covers(sc, target) == Len(sc) <= Len(target) /\ SubSeq(target, 1, Len(sc)) = sc

Allows(r, want) == r >= want

\* Mutant: any record of the signer will do.
AuthorizedAnyScope(t, fp, want, scope) == \E r \in t : r.fp = fp /\ Allows(r.right, want)

Authorized(t, fp, want, scope) ==
    \E r \in t : r.fp = fp /\ Allows(r.right, want) /\ Covers(r.scope, scope)

NoJob == [u |-> CHOOSE u \in Updates : TRUE, now |-> 0, trust |-> {}, checked |-> 0]

Job == [u : Updates \cup {NoJob.u}, now : 0 .. MaxTime, trust : SUBSET Records,
        checked : 0 .. MaxTime]

Promotion == [u : Updates, checked : 0 .. MaxTime, from : Vals, held : BOOLEAN]

\* Every variable holds a value of the kind the code keeps there.
TypeOK ==
    /\ clock \in 1 .. MaxTime
    /\ refs \in [Names -> Vals]
    /\ objects \subseteq Ids
    /\ trust \subseteq Records
    /\ seen \subseteq [key : {Key(u) : u \in Updates}, expires : Nat]
    /\ pc \in [Verifiers -> {"idle", "objects", "nonce", "swap", "audit"}]
    /\ job \in [Verifiers -> Job]
    /\ \A v \in Verifiers : pc[v] # "idle" => job[v].u \in Updates
    /\ applied \in Seq(Promotion)
    /\ out \in [Verifiers -> {"none", "accepted", "unsigned", "expired", "unauthorized",
                              "missing", "replay", "conflict", "error"}]

Init ==
    /\ clock = 1
    /\ refs = [n \in Names |-> NoId]
    /\ objects = {}
    /\ trust \in SUBSET Records
    /\ seen = {}
    /\ pc = [v \in Verifiers |-> "idle"]
    /\ job = [v \in Verifiers |-> NoJob]
    /\ out = [v \in Verifiers |-> "none"]
    /\ events = 0 /\ others = 0 /\ faults = 0
    /\ applied = <<>>
    /\ audits = {}

Answer(v, l, r) == pc' = [pc EXCEPT ![v] = l] /\ out' = [out EXCEPT ![v] = r]

Goto(v, l) == pc' = [pc EXCEPT ![v] = l] /\ UNCHANGED out

\* History: the swap v makes, and whether the signer held, when v received the
\* update, the right to promote on a scope containing the declared one.
Applied(v) ==
    LET u == job[v].u IN
    [u |-> u, checked |-> job[v].checked, from |-> refs[u.ref],
     held |-> \E r \in job[v].trust : /\ r.fp = u.signer
                                      /\ r.right >= RightPromote
                                      /\ \A k \in DOMAIN r.scope :
                                            k \in DOMAIN u.scope /\ r.scope[k] = u.scope[k]]

-----------------------------------------------------------------------------
(* Verify.                                                                  *)

\* The expiry check tolerates Skew.
Expired(u, now) == u.expires # 0 /\ now > u.expires + Skew

\* A signed update arrives, perhaps not for the first time.  The trust store
\* and the time are read now; signature, expiry and authority are decided on
\* them.  Nothing is recorded for an update whose signature does not verify.
Receive(v, u) ==
    /\ pc[v] = "idle"
    /\ events < MaxEvents
    /\ events' = events + 1
    /\ job' = [job EXCEPT ![v] = [u |-> u, now |-> clock, trust |-> trust, checked |-> 0]]
    /\ CASE ~u.signed -> Answer(v, "idle", "unsigned")
         [] u.signed /\ Expired(u, clock) -> Answer(v, "audit", "expired")
         [] /\ u.signed /\ ~Expired(u, clock)
            /\ ~Authorized(trust, u.signer, RightPromote, u.scope)
              -> Answer(v, "audit", "unauthorized")
         [] OTHER -> Goto(v, "objects")
    /\ UNCHANGED <<clock, refs, objects, trust, seen, others, faults, applied, audits>>

\* Mutant: only the evidence is looked up.
CheckObjectsEvidence(v) ==
    LET u == job[v].u IN
    /\ pc[v] = "objects"
    /\ IF u.evidence \subseteq objects THEN Goto(v, "nonce") ELSE Answer(v, "audit", "missing")
    /\ UNCHANGED <<clock, refs, objects, trust, seen, job, events, others, faults,
                   applied, audits>>

\* The new object and the evidence must be here, before the nonce is spent.
CheckObjects(v) ==
    LET u == job[v].u IN
    /\ pc[v] = "objects"
    /\ IF ({u.new} \ {NoId}) \cup u.evidence \subseteq objects
         THEN Goto(v, "nonce") ELSE Answer(v, "audit", "missing")
    /\ UNCHANGED <<clock, refs, objects, trust, seen, job, events, others, faults,
                   applied, audits>>

\* Mutant: the guard prunes by the limit of the expiry check reversed in sign.
PrunedEarly(s, now) == {e \in s : e.expires >= now + Skew}

\* The entries a guard keeps when asked at time now.  That of an update that is
\* not dated is dropped at the next check: here 0 is a time long past.
Pruned(s, now) == {e \in s : e.expires >= now}

\* ReplayGuard.Check under its lock, with the time Verify started at.  A replay
\* leaves the file alone.
CheckNonce(v) ==
    LET u == job[v].u
        kept == Pruned(seen, job[v].now)
    IN /\ pc[v] = "nonce"
       /\ IF \E e \in kept : e.key = Key(u)
            THEN Answer(v, "audit", "replay") /\ UNCHANGED <<seen, job>>
            ELSE /\ seen' = kept \cup {[key |-> Key(u), expires |-> u.expires]}
                 /\ job' = [job EXCEPT ![v].checked = clock]
                 /\ Goto(v, "swap")
       /\ UNCHANGED <<clock, refs, objects, trust, events, others, faults, applied,
                      audits>>

\* The ref moves from expected_old to new.
Moved(v) ==
    LET u == job[v].u IN
    /\ refs[u.ref] = u.old
    /\ refs' = [refs EXCEPT ![u.ref] = u.new]
    /\ applied' = Append(applied, Applied(v))

\* CompareAndSwap.
Swap(v) ==
    /\ pc[v] = "swap"
    /\ IF refs[job[v].u.ref] = job[v].u.old
         THEN Moved(v) /\ Answer(v, "idle", "accepted")
         ELSE Answer(v, "audit", "conflict") /\ UNCHANGED <<refs, applied>>
    /\ UNCHANGED <<clock, objects, trust, seen, job, events, others, faults, audits>>

\* Any other failure of CompareAndSwap is answered as a conflict too: a lock
\* timeout, or a reflog that cannot be written when the ref has moved already.
SwapError(v) ==
    /\ pc[v] = "swap"
    /\ faults < MaxFaults
    /\ faults' = faults + 1
    /\ Answer(v, "audit", "conflict")
    /\ Moved(v) \/ UNCHANGED <<refs, applied>>
    /\ UNCHANGED <<clock, objects, trust, seen, job, events, others, audits>>

\* The guard's lock or file fails: an error, nothing recorded.
GuardError(v) ==
    /\ pc[v] = "nonce"
    /\ faults < MaxFaults
    /\ faults' = faults + 1
    /\ Answer(v, "idle", "error")
    /\ UNCHANGED <<clock, refs, objects, trust, seen, job, events, others, applied, audits>>

\* The rejection is appended to the ref's reflog (see RefStore for the append).
Audit(v) ==
    /\ pc[v] = "audit"
    /\ audits' = audits \cup {<<job[v].u, out[v]>>}
    /\ Goto(v, "idle")
    /\ UNCHANGED <<clock, refs, objects, trust, seen, job, events, others, faults,
                   applied>>

\* The verifier is killed and another takes its place.
Crash(v) ==
    /\ pc[v] # "idle"
    /\ faults < MaxFaults
    /\ faults' = faults + 1
    /\ Answer(v, "idle", "none")
    /\ UNCHANGED <<clock, refs, objects, trust, seen, job, events, others, applied, audits>>

-----------------------------------------------------------------------------
(* What else happens to the repository.                                     *)

Tick == /\ clock < MaxTime
        /\ clock' = clock + 1
        /\ UNCHANGED <<refs, objects, trust, seen, pc, job, out, events, others, faults,
                       applied, audits>>

\* An object is transferred.
Arrive(i) == /\ i \notin objects
             /\ objects' = objects \cup {i}
             /\ UNCHANGED <<clock, refs, trust, seen, pc, job, out, events, others, faults,
                            applied, audits>>

Other == others < MaxOther /\ others' = others + 1

\* Another writer moves a ref to a present object or deletes it.
MoveRef(n, x) == /\ Other
                 /\ x \in objects \cup {NoId}
                 /\ refs' = [refs EXCEPT ![n] = x]
                 /\ UNCHANGED <<clock, objects, trust, seen, pc, job, out, events, faults,
                                applied, audits>>

\* trust.Add: onboarding appends a line.
TrustAdd(r) == /\ Other
               /\ trust' = trust \cup {r}
               /\ UNCHANGED <<clock, refs, objects, seen, pc, job, out, events, faults,
                              applied, audits>>

\* trust.Remove: offboarding drops every line of a fingerprint.
TrustRemove(fp) == /\ Other
                   /\ trust' = {r \in trust : r.fp # fp}
                   /\ UNCHANGED <<clock, refs, objects, seen, pc, job, out, events, faults,
                                  applied, audits>>

Next == \/ \E v \in Verifiers :
             \/ \E u \in Updates : Receive(v, u)
             \/ CheckObjects(v) \/ CheckNonce(v) \/ Swap(v) \/ Audit(v)
             \/ SwapError(v) \/ GuardError(v) \/ Crash(v)
        \/ Tick
        \/ \E i \in Ids : Arrive(i)
        \/ \E n \in Names, x \in Vals : MoveRef(n, x)
        \/ \E r \in Records : TrustAdd(r)
        \/ \E fp \in Principals : TrustRemove(fp)

Spec == Init /\ [][Next]_vars

-----------------------------------------------------------------------------
(* Properties.                                                              *)

Dated(u) == u.expires # 0

\* Whatever arrives twice and whoever verifies it, the nonce of a dated update
\* takes effect at most once through checks made before a not_after it was
\* signed with has passed: crashes, conflicts, swaps that failed when the ref
\* had moved, verifiers that started long ago and two updates signed with one
\* nonce included.  It says nothing of an update that is not dated: Verify takes
\* that for valid for ever (verify.go:92) and the guard forgets it at the next
\* check (replay.go:37, :86), so that it is applied again as often as the ref is
\* back at its expected_old, against replay.go:15-17.
OnceBeforeNotAfter ==
    \A i, j \in DOMAIN applied :
       /\ Key(applied[i].u) = Key(applied[j].u)
       /\ Dated(applied[i].u) /\ Dated(applied[j].u)
       /\ applied[i].checked <= applied[j].u.expires
       /\ applied[j].checked <= applied[i].u.expires
       => i = j

\* The ref never points at an object that is not here, although the presence
\* check and the swap are separate steps.
NoDanglingRef == \A n \in Names : refs[n] \in objects \cup {NoId}

\* The repository the verifiers share stays well formed (verify.go Verify): no ref that
\* leads nowhere, and guards, trust store and records of the declared kinds.
WholeInv == TypeOK /\ NoDanglingRef

\* What takes effect was signed by a principal who held, when the update was
\* received, promote authority over the declared scope, and it replaced exactly
\* the value its signer expected, whatever moved the ref or changed the trust
\* store in between.
AppliedAsSigned ==
    \A k \in DOMAIN applied :
       applied[k].u.signed /\ applied[k].held /\ applied[k].from = applied[k].u.old
=============================================================================
