--------------------------- MODULE RetentionProofs ---------------------------
(* Machine-checked proofs about Retention, for any number of agents, any graph
   of objects and any bounds.  What concerns the collector is proved for a
   build that knows the types of all objects (Unknown = {}): it cannot look
   for links in the others.                                                 *)
EXTENDS Retention, FiniteSetTheorems, TLAPS

\* The collector runs while no agent does.
Offline == gc.step # "off" => \A p \in Procs : pc[p] = "idle"

\* What a call works with, by the step it has reached.
Arguments ==
    \A p \in Procs :
       /\ pc[p] = "put" => call[p].todo \subseteq Objs
       /\ pc[p] \in {"put", "stat", "readEntry", "writeEntry", "swap", "writeEdge"} =>
             call[p].c \in Cands
       /\ pc[p] = "readEntry" => call[p].n \in Scores
       /\ pc[p] = "writeEdge" => call[p].todo \in {{e} : e \in Edges}
       /\ pc[p] \in {"readDir", "read"} => DOMAIN call[p].seen \subseteq Cands

\* The change a call is about to record or promote is whole, and so is every
\* candidate a listing has read, even if its file has been removed since.
CallsWhole ==
    \A p \in Procs :
       /\ pc[p] = "put" => Closure(call[p].c) \subseteq objects \cup call[p].todo
       /\ pc[p] \in {"stat", "writeEntry", "swap"} => Closure(call[p].c) \subseteq objects
       /\ pc[p] = "read" => \A c \in DOMAIN call[p].seen : Closure(c) \subseteq objects
       /\ pc[p] = "readDir" => DOMAIN call[p].seen = {}

\* R is marked but for what is still on the work list, and so is all that the
\* marked objects link to.
Marked(R, live, work) ==
    /\ R \cap objects \subseteq live \cup work
    /\ \A x \in live : Links[x] \cap objects \subseteq live \cup work

\* Nothing is marked that R does not lead to.
Grounded(R, live) ==
    \A S \in SUBSET objects : R \cap objects \subseteq S /\ MarkClosed(S) => live \subseteq S

\* The collector has marked, or will, exactly what the roots lead to ...
Marking ==
    gc.step = "mark" =>
       /\ gc.live \subseteq objects
       /\ Marked(Roots(gc.now), gc.live, gc.work)
       /\ Grounded(Roots(gc.now), (gc.live \cup gc.work) \cap objects)

\* ... and deletes exactly what it has not marked.
Sweeping ==
    gc.step \in {"sweep", "done"} =>
       /\ gc.live \subseteq objects
       /\ gc.work \cap gc.live = {}
       /\ Marked(Roots(gc.now), gc.live, {})
       /\ Grounded(Roots(gc.now), gc.live)
       /\ ~gc.dry => objects \subseteq gc.live \cup gc.work
       /\ gc.step = "done" => gc.work = {}

\* The agents that have counted the edges of c and will write one more.
Writers(c) == {p \in Procs : pc[p] = "writeEdge" /\ call[p].c = c}

\* Each of them has counted fewer than the budget.
BudgetCommitted ==
    \A c \in Cands :
       /\ IsFiniteSet(edges[c])
       /\ Cardinality(edges[c]) + Cardinality(Writers(c)) <= MaxPerState + Cardinality(Procs) - 1

\* The inductive invariant.
IInv == /\ TypeOK /\ Offline /\ Arguments /\ CallsWhole /\ RootsIntact
        /\ Marking /\ Sweeping /\ BudgetCommitted

-----------------------------------------------------------------------------
(* About the operators.                                                     *)

\* What x leads to contains x and is closed.
LEMMA ClosureIsClosed ==
  ASSUME NEW x \in Objs
  PROVE  x \in Closure(x) /\ Closure(x) \subseteq Objs /\ Closed(Closure(x))
<1>1. x \in Closure(x) /\ Closure(x) \subseteq Objs
  BY DEF Closure
<1>2. ASSUME NEW y \in Closure(x), NEW z \in Links[y] PROVE z \in Closure(x)
  <2>1. z \in Objs
    BY <1>1, RetentionAssumption DEF RetentionAssumption
  <2>2. ASSUME NEW S \in SUBSET Objs, x \in S, Closed(S) PROVE z \in S
    BY <2>2 DEF Closure, Closed
  <2>3. QED
    BY <2>1, <2>2 DEF Closure
<1>3. QED
  BY <1>1, <1>2 DEF Closed

\* Closure is the least closed set.
LEMMA ClosureIsLeast ==
  ASSUME NEW x \in Objs, NEW S \in SUBSET Objs, x \in S, Closed(S)
  PROVE  Closure(x) \subseteq S
  BY DEF Closure

\* A change that is whole and marked is marked with all that it leads to.
LEMMA WholeIsMarked ==
  ASSUME TypeOK, NEW x \in Objs, NEW live \in SUBSET objects, x \in live,
         Closure(x) \subseteq objects, MarkClosed(live)
  PROVE  Closure(x) \subseteq live
<1>1. Closed(Closure(x) \cap live)
  BY ClosureIsClosed DEF Closed, MarkClosed
<1>2. QED
  BY <1>1, ClosureIsClosed, ClosureIsLeast

\* Reachability is the least marked set.
LEMMA ReachableIsLeast ==
  ASSUME NEW R, NEW S \in SUBSET objects, R \cap objects \subseteq S, MarkClosed(S)
  PROVE  Reachable(R) \subseteq S
  BY DEF Reachable

\* Two ways to name what a collection keeps: the roots the collector starts
\* from are what its user relies on.
LEMMA RootsAreProtected ==
  ASSUME TypeOK, NEW now \in Nat
  PROVE  Protected(now) = Roots(now)
<1>1. \A q \in pins : now < q.notAfter <=> ~(q.notAfter <= now)
  BY RetentionAssumption DEF RetentionAssumption, TypeOK
<1>2. {q \in pins : now < q.notAfter} = {q \in pins : ~(q.notAfter <= now)}
  BY <1>1
<1>3. QED
  BY <1>2 DEF Protected, Roots

\* A listing holds entries of candidates.
LEMMA ListingFields ==
  ASSUME NEW f \in Listings
  PROVE  DOMAIN f \subseteq Cands /\ DOMAIN f \subseteq Objs /\ \A x \in DOMAIN f : f[x] \in Entry
<1>1. PICK D \in SUBSET Cands : f \in [D -> Entry]
  BY DEF Listings
<1>2. QED
  BY <1>1, RetentionAssumption DEF RetentionAssumption

\* Roots are identities.
LEMMA RootsTyped ==
  ASSUME TypeOK, NEW now
  PROVE  Roots(now) \subseteq Objs
<1>1. DOMAIN pool \subseteq Objs
  BY ListingFields DEF TypeOK
<1>2. {head} \ {NoId} \subseteq Objs
  BY RetentionAssumption DEF TypeOK, RetentionAssumption
<1>3. \A q \in pins : q.id \in Objs
  BY RetentionAssumption DEF TypeOK, RetentionAssumption
<1>4. QED
  BY <1>1, <1>2, <1>3 DEF Roots, TypeOK

\* A listing with one entry set.
Put(f, c, e) == [x \in DOMAIN f \cup {c} |-> IF x = c THEN e ELSE f[x]]

\* It is a listing ...
LEMMA ListingSet ==
  ASSUME NEW f \in Listings, NEW c \in Cands, NEW e \in Entry
  PROVE  Put(f, c, e) \in Listings
<1>1. PICK D \in SUBSET Cands : f \in [D -> Entry]
  BY DEF Listings
<1>2. Put(f, c, e) \in [D \cup {c} -> Entry]
  BY <1>1 DEF Put
<1>3. QED
  BY <1>1, <1>2 DEF Listings

\* ... and so is one with an entry removed.
LEMMA ListingRemove ==
  ASSUME NEW f \in Listings, NEW c
  PROVE  [x \in DOMAIN f \ {c} |-> f[x]] \in Listings
<1>1. PICK D \in SUBSET Cands : f \in [D -> Entry]
  BY DEF Listings
<1>2. [x \in DOMAIN f \ {c} |-> f[x]] \in [D \ {c} -> Entry]
  BY <1>1
<1>3. QED
  BY <1>1, <1>2 DEF Listings

\* A call's next step may change any of its fields.
LEMMA CallFields ==
  ASSUME NEW k \in Calls
  PROVE  /\ k.kind \in Kinds /\ k.c \in Cands \cup {NoId} /\ k.todo \subseteq Objs \cup Edges
         /\ k.seen \in Listings /\ k.n \in Nat /\ k.entry \in Entry
  BY DEF Calls

\* No call is a call.
LEMMA NoCallIsCall == NoCall \in Calls
<1>1. <<>> \in [{} -> Entry]
  OBVIOUS
<1>2. <<>> \in Listings
  BY <1>1 DEF Listings
<1>3. Unscored \in Entry
  BY DEF Unscored, Entry
<1>4. QED
  BY <1>2, <1>3 DEF NoCall, Calls, Kinds
-----------------------------------------------------------------------------
(* Every step preserves the invariant; one lemma for each conjunct.         *)

\* A call begins with arguments of the declared kinds.
LEMMA BeginTypeOK ==
  ASSUME TypeOK, NEW p \in Procs, NEW l \in {"put", "readEntry", "readDir", "writeEdge"},
         NEW k \in Calls, Begin(p, l, k)
  PROVE  TypeOK'
  BY DEF Begin, Goto, TypeOK, store

\* Every agent step keeps the declared types.
LEMMA StepTypeOK ==
  ASSUME TypeOK, Arguments, NEW p \in Procs, Step(p)
  PROVE  TypeOK'
<1> USE RetentionAssumption DEF RetentionAssumption
<1>1. call[p] \in Calls /\ NoCall \in Calls
  BY NoCallIsCall DEF TypeOK
<1>2. Return(p) => call' \in [Procs -> Calls] /\ pc' = [pc EXCEPT ![p] = "idle"]
  BY <1>1 DEF Return, Goto, TypeOK
<1>3. CASE PutRaw(p)
  <2>1. PICK x \in call[p].todo :
           /\ objects' = objects \cup {x}
           /\ call' = [call EXCEPT ![p] = [call[p] EXCEPT !.todo = @ \ {x}]]
           /\ pc' = [pc EXCEPT ![p] = IF call[p].todo = {x} THEN "stat" ELSE "put"]
    BY <1>3 DEF PutRaw, Goto
  <2>2. x \in Objs
    BY <1>3 DEF PutRaw, Arguments
  <2>3. [call[p] EXCEPT !.todo = @ \ {x}] \in Calls
    BY <1>1 DEF Calls
  <2>4. QED
    BY <1>3, <2>1, <2>2, <2>3 DEF PutRaw, TypeOK
<1>4. CASE Add(p)
  BY <1>2, <1>4 DEF Add, Goto, TypeOK, store
<1>5. CASE ReadEntry(p)
  <2>1. [call[p] EXCEPT !.entry = [scored |-> TRUE, score |-> call[p].n]] \in Calls
    BY <1>1, <1>5 DEF ReadEntry, Arguments, Calls, Entry
  <2>2. \/ Return(p)
        \/ /\ call' = [call EXCEPT ![p] = [call[p] EXCEPT !.entry =
                                             [scored |-> TRUE, score |-> call[p].n]]]
           /\ pc' = [pc EXCEPT ![p] = "writeEntry"]
    BY <1>5 DEF ReadEntry, Goto
  <2>3. QED
    BY <1>2, <1>5, <2>1, <2>2 DEF ReadEntry, TypeOK, store
<1>6. CASE WriteEntry(p)
  <2>1. call[p].c \in Cands /\ call[p].entry \in Entry
    BY <1>1, <1>6, CallFields DEF WriteEntry, Arguments
  <2>2. pool' \in Listings
    <3>1. Put(pool, call[p].c, call[p].entry) \in Listings
      BY <2>1, ListingSet DEF TypeOK
    <3>2. QED
      BY <1>6, <3>1 DEF WriteEntry, Put
  <2>3. QED
    BY <1>2, <1>6, <2>2 DEF WriteEntry, TypeOK
<1>7. CASE ReadDir(p)
  <2>1. [call[p] EXCEPT !.todo = DOMAIN pool] \in Calls
    <3>1. DOMAIN pool \subseteq Objs
      BY ListingFields DEF TypeOK
    <3>2. QED
      BY <1>1, <3>1 DEF Calls
  <2>2. call' = [call EXCEPT ![p] = [call[p] EXCEPT !.todo = DOMAIN pool]]
    BY <1>7 DEF ReadDir
  <2>3. QED
    BY <1>7, <2>1, <2>2 DEF ReadDir, Goto, TypeOK, store
<1>8. CASE ReadFile(p)
  <2>1. SUFFICES ASSUME NEW c \in call[p].todo, c \in DOMAIN pool,
                        call' = [call EXCEPT
                                  ![p].todo = @ \ {c},
                                  ![p].seen = [x \in DOMAIN @ \cup {c} |->
                                                 IF x = c THEN pool[c] ELSE @[x]]],
                        UNCHANGED pc
                 PROVE  TypeOK'
    BY <1>2, <1>8 DEF ReadFile, TypeOK, store
  <2> DEFINE k == [call[p] EXCEPT !.todo = @ \ {c}, !.seen = Put(@, c, pool[c])]
  <2>2. c \in Cands /\ pool[c] \in Entry
    BY <2>1, ListingFields DEF TypeOK
  <2>3. Put(call[p].seen, c, pool[c]) \in Listings
    BY <1>1, <2>2, CallFields, ListingSet
  <2>4. k \in Calls
    BY <1>1, <2>3 DEF Calls
  <2>5. call' = [call EXCEPT ![p] = k]
    BY <1>1, <2>1 DEF Calls, TypeOK, Put
  <2>6. call' \in [Procs -> Calls]
    BY <2>4, <2>5 DEF TypeOK
  <2>7. QED
    BY <1>8, <2>1, <2>6 DEF ReadFile, TypeOK, store
<1>9. CASE Rank(p)
  <2>1. Dropped(call[p]) \subseteq Objs
    BY <1>1, CallFields, ListingFields DEF Dropped
  <2>2. [call[p] EXCEPT !.todo = Dropped(call[p])] \in Calls
    BY <1>1, <2>1 DEF Calls
  <2>3. \/ Return(p)
        \/ /\ call' = [call EXCEPT ![p] = [call[p] EXCEPT !.todo = Dropped(call[p])]]
           /\ pc' = [pc EXCEPT ![p] = "remove"]
    BY <1>9 DEF Rank, Goto
  <2>4. QED
    BY <1>2, <1>9, <2>2, <2>3 DEF Rank, TypeOK, store
<1>10. CASE Remove(p)
  <2>1. PICK c \in call[p].todo :
          /\ pool' = [x \in DOMAIN pool \ {c} |-> pool[x]]
          /\ IF call[p].todo = {c}
               THEN /\ call' = [call EXCEPT ![p] = [call[p] EXCEPT !.todo = Dropped(call[p])]]
                    /\ pc' = [pc EXCEPT ![p] = "forget"]
               ELSE /\ call' = [call EXCEPT ![p] = [call[p] EXCEPT !.todo = @ \ {c}]]
                    /\ UNCHANGED pc
    BY <1>10 DEF Remove, Goto
  <2>2. Dropped(call[p]) \subseteq Objs
    BY <1>1, CallFields, ListingFields DEF Dropped
  <2>3. /\ [call[p] EXCEPT !.todo = Dropped(call[p])] \in Calls
        /\ [call[p] EXCEPT !.todo = @ \ {c}] \in Calls
    BY <1>1, <2>2 DEF Calls
  <2>4. pool' \in Listings
    BY <2>1, ListingRemove DEF TypeOK
  <2>5. QED
    BY <1>10, <2>1, <2>3, <2>4 DEF Remove, TypeOK
<1>11. CASE ForgetState(p)
  <2>1. PICK c \in call[p].todo :
          /\ edges' = [edges EXCEPT ![c] = {}]
          /\ \/ Return(p)
             \/ call' = [call EXCEPT ![p] = [call[p] EXCEPT !.todo = @ \ {c}]] /\ UNCHANGED pc
    BY <1>11 DEF ForgetState
  <2>2. [call[p] EXCEPT !.todo = @ \ {c}] \in Calls
    BY <1>1 DEF Calls
  <2>3. edges' \in [Cands -> SUBSET Edges]
    BY <2>1 DEF TypeOK
  <2>4. QED
    BY <1>2, <1>11, <2>1, <2>2, <2>3 DEF ForgetState, TypeOK
<1>12. CASE Best(p)
  <2>1. \/ Return(p)
        \/ \E c \in Admissible(call[p].seen) :
              /\ call' = [call EXCEPT ![p].c = c, ![p].n = head]
              /\ Goto(p, "swap")
    BY <1>12 DEF Best
  <2>2. SUFFICES ASSUME NEW c \in Admissible(call[p].seen),
                        call' = [call EXCEPT ![p].c = c, ![p].n = head], Goto(p, "swap")
                 PROVE  TypeOK'
    BY <1>2, <1>12, <2>1 DEF Best, TypeOK, store
  <2>3. c \in Cands
    BY <1>12 DEF Best, Arguments, Admissible
  <2>4. head \in Nat
    BY DEF TypeOK, NoId
  <2>5. [call[p] EXCEPT !.c = c, !.n = head] \in Calls
    BY <1>1, <2>3, <2>4 DEF Calls
  <2>6. call' = [call EXCEPT ![p] = [call[p] EXCEPT !.c = c, !.n = head]]
    BY <1>1, <2>2 DEF Calls, TypeOK
  <2>7. call' \in [Procs -> Calls]
    BY <2>5, <2>6 DEF TypeOK
  <2>8. QED
    BY <1>12, <2>2, <2>7 DEF Best, Goto, TypeOK, store
<1>13. CASE Swap(p)
  <2>1. call[p].c \in Cands
    BY <1>13 DEF Swap, Arguments
  <2>2. QED
    BY <1>2, <1>13, <2>1 DEF Swap, TypeOK
<1>14. CASE WriteEdge(p)
  <2>1. call[p].todo \subseteq Edges
    BY <1>14 DEF WriteEdge, Arguments
  <2>2. edges' \in [Cands -> SUBSET Edges]
    BY <1>14, <2>1 DEF WriteEdge, TypeOK
  <2>3. QED
    BY <1>2, <1>14, <2>2 DEF WriteEdge, TypeOK
<1>15. QED
  BY <1>3, <1>4, <1>5, <1>6, <1>7, <1>8, <1>9, <1>10, <1>11, <1>12, <1>13, <1>14 DEF Step

\* Every step keeps the declared types.
LEMMA NextTypeOK ==
  ASSUME TypeOK, Arguments, [Next]_vars
  PROVE  TypeOK'
<1> USE RetentionAssumption DEF RetentionAssumption
<1>1. CASE UNCHANGED vars
  BY <1>1 DEF vars, TypeOK
<1>2. ASSUME NEW p \in Procs, Step(p) PROVE TypeOK'
  BY <1>2, StepTypeOK
<1>3. ASSUME NEW p \in Procs, NEW c \in Cands, Propose(p, c) PROVE TypeOK'
  <2>1. [NoCall EXCEPT !.kind = "propose", !.c = c, !.todo = Closure(c)] \in Calls
    BY NoCallIsCall, ClosureIsClosed DEF Calls, Kinds
  <2>2. QED
    BY <1>3, <2>1, BeginTypeOK DEF Propose
<1>4. ASSUME NEW p \in Procs, NEW c \in Cands, NEW n \in Scores, SetScore(p, c, n) PROVE TypeOK'
  <2>1. [NoCall EXCEPT !.kind = "score", !.c = c, !.n = n] \in Calls
    BY NoCallIsCall DEF Calls, Kinds
  <2>2. QED
    BY <1>4, <2>1, BeginTypeOK DEF SetScore
<1>5. ASSUME NEW p \in Procs, NEW c \in Cands, NEW e \in Edges, PutEphemeral(p, c, e)
      PROVE TypeOK'
  <2>1. [NoCall EXCEPT !.kind = "edge", !.c = c, !.todo = {e}] \in Calls
    BY NoCallIsCall DEF Calls, Kinds
  <2>2. QED
    BY <1>5, <2>1, BeginTypeOK DEF PutEphemeral
<1>6. ASSUME NEW p \in Procs, NEW k \in Keeps, Prune(p, k) PROVE TypeOK'
  <2>1. [NoCall EXCEPT !.kind = "prune", !.n = k] \in Calls
    BY NoCallIsCall DEF Calls, Kinds
  <2>2. QED
    BY <1>6, <2>1, BeginTypeOK DEF Prune
<1>7. ASSUME NEW p \in Procs, PromoteWithPolicy(p) PROVE TypeOK'
  <2>1. [NoCall EXCEPT !.kind = "promote"] \in Calls
    BY NoCallIsCall DEF Calls, Kinds
  <2>2. QED
    BY <1>7, <2>1, BeginTypeOK DEF PromoteWithPolicy
<1>8. ASSUME NEW p \in Procs, SwapTorn(p) PROVE TypeOK'
  BY <1>8, NoCallIsCall DEF SwapTorn, Return, Goto, Arguments, TypeOK
<1>9. ASSUME NEW p \in Procs, Abort(p) PROVE TypeOK'
  BY <1>9, NoCallIsCall DEF Abort, Return, Goto, TypeOK, store
<1>10. ASSUME NEW q \in Pins, Pin(q) \/ Unpin(q) PROVE TypeOK'
  BY <1>10 DEF Pin, Unpin, TypeOK
<1>11. CASE Tick
  BY <1>11 DEF Tick, TypeOK, store
<1>12. ASSUME NEW kept \in SUBSET logged, ExpireAll(kept) PROVE TypeOK'
  BY <1>12 DEF ExpireAll, TypeOK
<1>13. ASSUME NEW dry \in BOOLEAN, Collect(dry) PROVE TypeOK'
  <2>1. Roots(clock) \subseteq Objs
    BY RootsTyped DEF TypeOK
  <2>2. gc' \in Collections
    BY <1>13, <2>1 DEF Collect, Collections, TypeOK
  <2>3. QED
    BY <1>13, <2>2 DEF Collect, TypeOK, store
<1>14. CASE Mark
  <2>1. PICK x \in gc.work :
          gc' = IF x \in objects
                THEN [gc EXCEPT !.live = @ \cup {x},
                                !.work = (@ \cup Found(x)) \ (gc.live \cup {x})]
                ELSE [gc EXCEPT !.work = @ \ {x}]
    BY <1>14 DEF Mark
  <2>2. gc \in Collections
    BY DEF TypeOK
  <2>3. x \in Objs /\ Found(x) \subseteq Objs
    BY <2>2 DEF Found, Collections
  <2>4. gc' \in Collections
    BY <2>1, <2>2, <2>3 DEF Collections
  <2>5. QED
    BY <1>14, <2>4 DEF Mark, TypeOK, store
<1>15. CASE Walk
  <2>1. gc \in Collections /\ objects \subseteq Objs
    BY DEF TypeOK
  <2>2. gc' \in Collections
    BY <1>15, <2>1 DEF Walk, Collections
  <2>3. QED
    BY <1>15, <2>2 DEF Walk, TypeOK, store
<1>16. CASE Sweep
  <2>1. gc \in Collections
    BY DEF TypeOK
  <2>2. gc' \in Collections
    BY <1>16, <2>1 DEF Sweep, Collections
  <2>3. QED
    BY <1>16, <2>2 DEF Sweep, TypeOK
<1>17. CASE Report \/ CollectReturns \/ CollectAborts
  <2>1. gc \in Collections
    BY DEF TypeOK
  <2>2. Off \in Collections /\ [gc EXCEPT !.step = "done"] \in Collections
    BY <2>1 DEF Collections, Off
  <2>3. gc' \in Collections
    BY <1>17, <2>2 DEF Report, CollectReturns, CollectAborts
  <2>4. QED
    BY <1>17, <2>3 DEF Report, CollectReturns, CollectAborts, TypeOK, store
<1>18. QED
  BY <1>1, <1>2, <1>3, <1>4, <1>5, <1>6, <1>7, <1>8, <1>9, <1>10, <1>11, <1>12, <1>13, <1>14, <1>15,
     <1>16, <1>17
  DEF Next, Call

\* What an agent's step makes of its own call: it ends, begins or goes on, with
\* the arguments it has been given or has read.
Ended(p) == pc'[p] = "idle"

Began(p) ==
    /\ gc.step = "off"
    /\ \/ /\ pc'[p] = "put"
          /\ call'[p].c \in Cands /\ call'[p].todo = Closure(call'[p].c)
       \/ pc'[p] = "readEntry" /\ call'[p].c \in Cands /\ call'[p].n \in Scores
       \/ pc'[p] = "readDir" /\ DOMAIN call'[p].seen = {}
       \/ /\ pc'[p] = "writeEdge" /\ call'[p].c \in Cands
          /\ \E e \in Edges : call'[p].todo = {e}
          /\ Cardinality(edges[call'[p].c]) < MaxPerState

WentOn(p) ==
    /\ pc[p] # "idle"
    /\ pc'[p] # "writeEdge"
    /\ \/ /\ pc[p] = "put" /\ call'[p].c = call[p].c
          /\ \E x \in call[p].todo :
                /\ objects' = objects \cup {x} /\ call'[p].todo = call[p].todo \ {x}
                /\ pc'[p] = IF call[p].todo = {x} THEN "stat" ELSE "put"
       \/ pc[p] = "stat" /\ pc'[p] = "writeEntry" /\ call'[p].c = call[p].c
       \/ pc[p] = "readEntry" /\ pc'[p] = "writeEntry" /\ call'[p].c = call[p].c
          /\ call[p].c \in DOMAIN pool
       \/ pc[p] = "readDir" /\ pc'[p] = "read" /\ call'[p].seen = call[p].seen
       \/ pc[p] = "read" /\ pc'[p] = "read"
          /\ DOMAIN call'[p].seen \subseteq DOMAIN call[p].seen \cup DOMAIN pool
       \/ pc'[p] \in {"remove", "forget"}
       \/ pc[p] = "read" /\ pc'[p] = "swap" /\ call'[p].c \in DOMAIN call[p].seen

\* An agent's step, failures included.
AgentStep(p) == Step(p) \/ Call(p) \/ SwapTorn(p) \/ Abort(p)

\* Each agent's step is one of these and leaves the other agents' calls alone.
LEMMA AgentOutcome ==
  ASSUME TypeOK, NEW p \in Procs, AgentStep(p)
  PROVE  /\ \A q \in Procs \ {p} : pc'[q] = pc[q] /\ call'[q] = call[q]
         /\ Ended(p) \/ Began(p) \/ WentOn(p)
<1>1. pc \in [Procs -> {"idle", "put", "stat", "readEntry", "writeEntry", "readDir", "read",
                        "remove", "forget", "swap", "writeEdge"}]
      /\ call \in [Procs -> Calls] /\ call[p] \in Calls
  BY DEF TypeOK
<1> DEFINE Others == \A q \in Procs \ {p} : pc'[q] = pc[q] /\ call'[q] = call[q]
<1>2. ASSUME NEW l, NEW k, Begin(p, l, k)
      PROVE  Others /\ pc'[p] = l /\ call'[p] = k /\ gc.step = "off"
  BY <1>1, <1>2 DEF Begin, Goto
<1>3. ASSUME Return(p) PROVE Others /\ Ended(p)
  BY <1>1, <1>3 DEF Return, Goto, Ended
<1>4. ASSUME NEW l, Goto(p, l) PROVE pc'[p] = l /\ \A q \in Procs \ {p} : pc'[q] = pc[q]
  BY <1>1, <1>4 DEF Goto
<1>5. ASSUME NEW c \in Cands, Propose(p, c) PROVE Others /\ Began(p)
  <2> DEFINE k == [NoCall EXCEPT !.kind = "propose", !.c = c, !.todo = Closure(c)]
  <2>1. k.c = c /\ k.todo = Closure(c)
    BY DEF NoCall
  <2>2. Begin(p, "put", k)
    BY <1>5 DEF Propose
  <2> HIDE DEF k
  <2>3. QED
    BY <1>2, <1>5, <2>1, <2>2 DEF Began
<1>6. ASSUME NEW c \in Cands, NEW n \in Scores, SetScore(p, c, n) PROVE Others /\ Began(p)
  <2> DEFINE k == [NoCall EXCEPT !.kind = "score", !.c = c, !.n = n]
  <2>1. k.c = c /\ k.n = n
    BY DEF NoCall
  <2>2. Begin(p, "readEntry", k)
    BY <1>6 DEF SetScore
  <2> HIDE DEF k
  <2>3. QED
    BY <1>2, <1>6, <2>1, <2>2 DEF Began
<1>7. ASSUME NEW c \in Cands, NEW e \in Edges, PutEphemeral(p, c, e) PROVE Others /\ Began(p)
  <2> DEFINE k == [NoCall EXCEPT !.kind = "edge", !.c = c, !.todo = {e}]
  <2>1. k.c = c /\ k.todo = {e}
    BY DEF NoCall
  <2>2. Begin(p, "writeEdge", k)
    BY <1>7 DEF PutEphemeral
  <2> HIDE DEF k
  <2>3. QED
    BY <1>2, <1>7, <2>1, <2>2 DEF Began, PutEphemeral
<1>8. ASSUME NEW n \in Keeps, Prune(p, n) PROVE Others /\ Began(p)
  <2> DEFINE k == [NoCall EXCEPT !.kind = "prune", !.n = n]
  <2>1. k.seen = <<>>
    BY DEF NoCall
  <2>2. Begin(p, "readDir", k)
    BY <1>8 DEF Prune
  <2> HIDE DEF k
  <2>3. QED
    BY <1>2, <2>1, <2>2 DEF Began
<1>9. ASSUME PromoteWithPolicy(p) PROVE Others /\ Began(p)
  <2> DEFINE k == [NoCall EXCEPT !.kind = "promote"]
  <2>1. k.seen = <<>>
    BY DEF NoCall
  <2>2. Begin(p, "readDir", k)
    BY <1>9 DEF PromoteWithPolicy
  <2> HIDE DEF k
  <2>3. QED
    BY <1>2, <1>9, <2>1, <2>2 DEF Began
<1>10. CASE PutRaw(p)
  <2>1. PICK x \in call[p].todo :
           /\ objects' = objects \cup {x}
           /\ call' = [call EXCEPT ![p] = [call[p] EXCEPT !.todo = @ \ {x}]]
           /\ pc' = [pc EXCEPT ![p] = IF call[p].todo = {x} THEN "stat" ELSE "put"]
    BY <1>10 DEF PutRaw, Goto
  <2>2. /\ [call[p] EXCEPT !.todo = @ \ {x}].todo = call[p].todo \ {x}
        /\ [call[p] EXCEPT !.todo = @ \ {x}].c = call[p].c
    BY <1>1 DEF Calls
  <2>3. QED
    BY <1>1, <1>10, <2>1, <2>2 DEF PutRaw, WentOn
<1>11. CASE Add(p)
  BY <1>1, <1>3, <1>4, <1>11 DEF Add, WentOn
<1>12. CASE ReadEntry(p)
  <2>1. \/ Return(p)
        \/ /\ call' = [call EXCEPT ![p] = [call[p] EXCEPT !.entry =
                                             [scored |-> TRUE, score |-> call[p].n]]]
           /\ Goto(p, "writeEntry") /\ call[p].c \in DOMAIN pool
    BY <1>12 DEF ReadEntry
  <2>2. [call[p] EXCEPT !.entry = [scored |-> TRUE, score |-> call[p].n]].c = call[p].c
    BY <1>1 DEF Calls
  <2>3. pc[p] = "readEntry"
    BY <1>12 DEF ReadEntry
  <2> DEFINE k == [call[p] EXCEPT !.entry = [scored |-> TRUE, score |-> call[p].n]]
  <2> HIDE DEF k
  <2>4. ASSUME call' = [call EXCEPT ![p] = k], Goto(p, "writeEntry"), call[p].c \in DOMAIN pool,
               k.c = call[p].c
        PROVE  Others /\ WentOn(p)
    <3>1. pc'[p] = "writeEntry" /\ call'[p] = k /\ Others
      BY <1>1, <1>4, <2>4
    <3>2. QED
      BY <2>3, <2>4, <3>1 DEF WentOn
  <2>5. QED
    BY <1>3, <2>1, <2>2, <2>4 DEF k
<1>13. CASE ReadDir(p)
  <2>1. call' = [call EXCEPT ![p] = [call[p] EXCEPT !.todo = DOMAIN pool]]
    BY <1>13 DEF ReadDir
  <2>2. [call[p] EXCEPT !.todo = DOMAIN pool].seen = call[p].seen
    BY <1>1 DEF Calls
  <2>3. QED
    BY <1>1, <1>4, <1>13, <2>1, <2>2 DEF ReadDir, WentOn
<1>14. CASE ReadFile(p)
  <2>1. \/ Return(p)
        \/ \E c \in DOMAIN pool :
              /\ call' = [call EXCEPT ![p].todo = @ \ {c}, ![p].seen = Put(@, c, pool[c])]
              /\ UNCHANGED pc
    BY <1>14 DEF ReadFile, Put
  <2>2. SUFFICES ASSUME NEW c \in DOMAIN pool, UNCHANGED pc,
                        call' = [call EXCEPT ![p].todo = @ \ {c}, ![p].seen = Put(@, c, pool[c])]
                 PROVE  Others /\ WentOn(p)
    BY <1>3, <2>1
  <2>3. call'[p].seen = Put(call[p].seen, c, pool[c]) /\ \A q \in Procs \ {p} : call'[q] = call[q]
    BY <1>1, <2>2 DEF Calls
  <2>4. QED
    BY <1>1, <1>14, <2>2, <2>3 DEF ReadFile, WentOn, Put
<1>15. CASE Rank(p)
  <2>1. \/ Return(p)
        \/ /\ call' = [call EXCEPT ![p] = [call[p] EXCEPT !.todo = Dropped(call[p])]]
           /\ Goto(p, "remove")
    BY <1>15 DEF Rank
  <2>2. QED
    BY <1>1, <1>3, <1>4, <1>15, <2>1 DEF Rank, WentOn
<1>16. CASE Remove(p)
  <2>1. PICK k : call' = [call EXCEPT ![p] = k]
    BY <1>16 DEF Remove
  <2>2. pc' = [pc EXCEPT ![p] = "forget"] \/ pc' = pc
    BY <1>16 DEF Remove, Goto
  <2>3. QED
    BY <1>1, <1>16, <2>1, <2>2 DEF Remove, WentOn
<1>17. CASE ForgetState(p)
  <2>1. Return(p) \/ \E k : call' = [call EXCEPT ![p] = k] /\ pc' = pc
    BY <1>17 DEF ForgetState
  <2>2. QED
    BY <1>1, <1>3, <1>17, <2>1 DEF ForgetState, WentOn
<1>18. CASE Best(p)
  <2>1. Return(p) \/ \E c \in DOMAIN call[p].seen :
          /\ call' = [call EXCEPT ![p].c = c, ![p].n = head] /\ Goto(p, "swap")
    BY <1>18 DEF Best, Admissible
  <2>2. SUFFICES ASSUME NEW c \in DOMAIN call[p].seen,
                        call' = [call EXCEPT ![p].c = c, ![p].n = head], Goto(p, "swap")
                 PROVE  Others /\ WentOn(p)
    BY <1>3, <2>1
  <2>3. call'[p].c = c /\ \A q \in Procs \ {p} : call'[q] = call[q]
    BY <1>1, <2>2 DEF Calls
  <2>4. pc[p] = "read" /\ pc'[p] = "swap" /\ \A q \in Procs \ {p} : pc'[q] = pc[q]
    BY <1>4, <1>18, <2>2 DEF Best
  <2>5. QED
    BY <2>2, <2>3, <2>4 DEF WentOn
<1>19. CASE WriteEntry(p) \/ Swap(p) \/ WriteEdge(p) \/ SwapTorn(p) \/ Abort(p)
  BY <1>3, <1>19 DEF WriteEntry, Swap, WriteEdge, SwapTorn, Abort
<1>20. QED
  BY <1>5, <1>6, <1>7, <1>8, <1>9, <1>10, <1>11, <1>12, <1>13, <1>14, <1>15, <1>16, <1>17, <1>18,
     <1>19
  DEF AgentStep, Step, Call

\* What an agent's step does to the store: objects only arrive, and what enters the
\* pool or the branch is the change of the call.
LEMMA AgentWrites ==
  ASSUME TypeOK, NEW p \in Procs, AgentStep(p)
  PROVE  /\ gc' = gc /\ objects \subseteq objects'
         /\ pc[p] # "put" => objects' = objects
         /\ \/ DOMAIN pool' \subseteq DOMAIN pool
            \/ pc[p] = "writeEntry" /\ DOMAIN pool' = DOMAIN pool \cup {call[p].c}
         /\ head' = head \/ (pc[p] = "swap" /\ head' = call[p].c)
<1>1. CASE Step(p)
  <2>1. CASE PutRaw(p)
    BY <2>1 DEF PutRaw
  <2>2. CASE WriteEntry(p)
    BY <2>2 DEF WriteEntry
  <2>3. CASE Remove(p)
    BY <2>3 DEF Remove
  <2>4. CASE Swap(p)
    BY <2>4 DEF Swap
  <2>5. CASE Add(p) \/ ReadEntry(p) \/ ReadDir(p) \/ ReadFile(p) \/ Rank(p) \/ Best(p)
    BY <2>5 DEF Add, ReadEntry, ReadDir, ReadFile, Rank, Best, store
  <2>6. CASE ForgetState(p) \/ WriteEdge(p)
    BY <2>6 DEF ForgetState, WriteEdge
  <2>7. QED
    BY <1>1, <2>1, <2>2, <2>3, <2>4, <2>5, <2>6 DEF Step
<1>2. CASE Call(p)
  BY <1>2 DEF Call, Propose, SetScore, PutEphemeral, Prune, PromoteWithPolicy, Begin, store
<1>3. CASE SwapTorn(p)
  BY <1>3 DEF SwapTorn
<1>4. CASE Abort(p)
  BY <1>4 DEF Abort, store
<1>5. QED
  BY <1>1, <1>2, <1>3, <1>4 DEF AgentStep

\* An agent's call goes on or ends only while it is under way.
LEMMA AgentBusy ==
  ASSUME TypeOK, NEW p \in Procs, AgentStep(p)
  PROVE  pc[p] = "idle" => gc.step = "off"
  BY DEF AgentStep, Step, Call, SwapTorn, Abort, PutRaw, Add, ReadEntry, WriteEntry, ReadDir, ReadFile,
         Rank, Remove, ForgetState, Best, Swap, WriteEdge, Propose, SetScore, PutEphemeral, Prune,
         PromoteWithPolicy, Begin

\* The collector's steps, and those that only the time or a peer takes.
CollectorStep ==
    (\E dry \in BOOLEAN : Collect(dry)) \/ Mark \/ Walk \/ Sweep \/ Report \/ CollectReturns \/ CollectAborts

PeerStep ==
    (\E q \in Pins : Pin(q) \/ Unpin(q)) \/ Tick \/ (\E kept \in SUBSET logged : ExpireAll(kept))

\* Every step is an agent's, the collector's or a peer's.
LEMMA NextCases ==
  ASSUME [Next]_vars
  PROVE  UNCHANGED vars \/ (\E p \in Procs : AgentStep(p)) \/ CollectorStep \/ PeerStep
  BY DEF Next, AgentStep, CollectorStep, PeerStep

\* Peers touch neither objects nor candidates nor the branch, and the collector
\* deletes objects and nothing else.
LEMMA OthersWrite ==
  ASSUME CollectorStep \/ PeerStep \/ UNCHANGED vars
  PROVE  /\ UNCHANGED <<pc, call, head, pool, edges>>
         /\ objects' = objects \/ Sweep
         /\ gc.step # "off" => UNCHANGED <<pins, logged>>
         /\ CollectorStep \/ gc' = gc
  BY DEF CollectorStep, PeerStep, Collect, Mark, Walk, Sweep, Report, CollectReturns, CollectAborts,
         Pin, Unpin, Tick, ExpireAll, vars, store

\* The collector starts when no agent is at work, and no agent starts until it ends.
LEMMA NextOffline ==
  ASSUME TypeOK, Offline, [Next]_vars
  PROVE  Offline'
<1>1. CASE UNCHANGED vars \/ PeerStep
  BY <1>1 DEF Offline, PeerStep, Pin, Unpin, Tick, ExpireAll, vars, store
<1>2. CASE CollectorStep
  <2>1. \/ gc.step # "off" /\ UNCHANGED pc
        \/ UNCHANGED pc /\ \A p \in Procs : pc[p] = "idle"
    BY <1>2 DEF CollectorStep, Collect, Mark, Walk, Sweep, Report, CollectReturns, CollectAborts, store
  <2>2. QED
    BY <2>1 DEF Offline
<1>3. ASSUME NEW p \in Procs, AgentStep(p) PROVE Offline'
  <2>1. gc' = gc /\ (pc[p] = "idle" => gc.step = "off")
    BY <1>3, AgentWrites, AgentBusy
  <2>2. QED
    BY <2>1 DEF Offline
<1>4. QED
  BY <1>1, <1>2, <1>3, NextCases

\* A call goes on with the arguments it has.
LEMMA NextArguments ==
  ASSUME TypeOK, Arguments, [Next]_vars
  PROVE  Arguments'
<1>1. CASE UNCHANGED vars \/ PeerStep \/ CollectorStep
  <2>1. UNCHANGED <<pc, call>>
    BY <1>1, OthersWrite
  <2>2. QED
    BY <2>1 DEF Arguments
<1>2. ASSUME NEW p \in Procs, AgentStep(p) PROVE Arguments'
  <2>1. \A q \in Procs \ {p} : pc'[q] = pc[q] /\ call'[q] = call[q]
    BY <1>2, AgentOutcome
  <2>2. CASE Ended(p)
    BY <2>1, <2>2 DEF Ended, Arguments
  <2>3. CASE Began(p)
    <3>1. pc'[p] = "put" => call'[p].c \in Cands /\ call'[p].todo \subseteq Objs
      BY <2>3, ClosureIsClosed, RetentionAssumption DEF Began, RetentionAssumption
    <3>2. pc'[p] = "readDir" => DOMAIN call'[p].seen \subseteq Cands
      BY <2>3 DEF Began
    <3>3. QED
      BY <2>1, <2>3, <3>1, <3>2 DEF Began, Arguments
  <2>4. CASE WentOn(p)
    <3>1. DOMAIN pool \subseteq Cands
      BY ListingFields DEF TypeOK
    <3>2. pc'[p] # "readEntry" /\ pc'[p] # "readDir" /\ pc'[p] # "writeEdge"
      BY <2>4 DEF WentOn
    <3>3. pc'[p] = "put" => call'[p].todo \subseteq Objs
      BY <2>4 DEF WentOn, Arguments
    <3>4. pc'[p] \in {"put", "stat", "writeEntry", "swap"} => call'[p].c \in Cands
      BY <2>4, <3>1 DEF WentOn, Arguments
    <3>5. pc'[p] = "read" => DOMAIN call'[p].seen \subseteq Cands
      BY <2>4, <3>1 DEF WentOn, Arguments
    <3>6. QED
      BY <2>1, <3>2, <3>3, <3>4, <3>5 DEF Arguments
  <2>5. QED
    BY <1>2, <2>2, <2>3, <2>4, AgentOutcome
<1>3. QED
  BY <1>1, <1>2, NextCases

\* A sweep that deletes leaves whole what its roots lead to.
LEMMA SweepKeepsRoots ==
  ASSUME TypeOK, Sweeping, RootsIntact, Sweep
  PROVE  \A x \in ({head} \ {NoId}) \cup DOMAIN pool : Closure(x) \subseteq objects'
<1> SUFFICES ASSUME NEW x \in ({head} \ {NoId}) \cup DOMAIN pool
             PROVE  Closure(x) \subseteq objects'
  OBVIOUS
<1>1. /\ gc.live \subseteq objects /\ gc.work \cap gc.live = {}
      /\ Roots(gc.now) \cap objects \subseteq gc.live /\ MarkClosed(gc.live)
  BY DEF Sweeping, Sweep, Marked, MarkClosed
<1>2. x \in Roots(gc.now) /\ x \in Objs
  BY RootsTyped DEF Roots
<1>3. x \in Closure(x) /\ Closure(x) \subseteq objects
  BY <1>2, ClosureIsClosed DEF RootsIntact
<1>4. Closure(x) \subseteq gc.live
  BY <1>1, <1>2, <1>3, WholeIsMarked
<1>5. QED
  BY <1>1, <1>4 DEF Sweep

\* Between the reading of a candidate and the writing of its file nothing that it
\* leads to goes.
LEMMA NextCallsWhole ==
  ASSUME TypeOK, Offline, Arguments, CallsWhole, RootsIntact, [Next]_vars
  PROVE  CallsWhole'
<1>1. CASE UNCHANGED vars \/ PeerStep \/ CollectorStep
  <2>1. UNCHANGED <<pc, call>> /\ (objects' = objects \/ Sweep)
    BY <1>1, OthersWrite
  <2>2. Sweep => \A p \in Procs : pc[p] = "idle"
    BY DEF Sweep, Offline
  <2>3. QED
    BY <2>1, <2>2 DEF CallsWhole
<1>2. ASSUME NEW p \in Procs, AgentStep(p) PROVE CallsWhole'
  <2>1. \A q \in Procs \ {p} : pc'[q] = pc[q] /\ call'[q] = call[q]
    BY <1>2, AgentOutcome
  <2>2. objects \subseteq objects'
    BY <1>2, AgentWrites
  <2>3. CASE Ended(p)
    BY <2>1, <2>2, <2>3 DEF Ended, CallsWhole
  <2>4. CASE Began(p)
    BY <2>1, <2>2, <2>4 DEF Began, CallsWhole
  <2>5. CASE WentOn(p)
    <3>1. \A c \in DOMAIN pool : Closure(c) \subseteq objects
      BY DEF RootsIntact
    <3>2. pc'[p] = "put" => Closure(call'[p].c) \subseteq objects' \cup call'[p].todo
      BY <2>5 DEF WentOn, CallsWhole
    <3>3. pc'[p] = "stat" => Closure(call'[p].c) \subseteq objects'
      BY <2>5 DEF WentOn, CallsWhole
    <3>4. pc'[p] \in {"writeEntry", "swap"} => Closure(call'[p].c) \subseteq objects'
      BY <2>2, <2>5, <3>1 DEF WentOn, CallsWhole
    <3>5. pc'[p] = "read" => \A c \in DOMAIN call'[p].seen : Closure(c) \subseteq objects'
      BY <2>2, <2>5, <3>1 DEF WentOn, CallsWhole
    <3>6. pc'[p] # "readDir"
      BY <2>5 DEF WentOn
    <3>7. QED
      BY <2>1, <2>2, <3>2, <3>3, <3>4, <3>5, <3>6 DEF CallsWhole
  <2>6. QED
    BY <1>2, <2>3, <2>4, <2>5, AgentOutcome
<1>3. QED
  BY <1>1, <1>2, NextCases

\* What enters the pool or the branch is whole, and no sweep takes anything from it.
LEMMA NextRootsIntact ==
  ASSUME TypeOK, CallsWhole, Sweeping, RootsIntact, [Next]_vars
  PROVE  RootsIntact'
<1>1. CASE UNCHANGED vars \/ PeerStep \/ CollectorStep
  <2>1. UNCHANGED <<head, pool>> /\ (objects' = objects \/ Sweep)
    BY <1>1, OthersWrite
  <2>2. QED
    BY <2>1, SweepKeepsRoots DEF RootsIntact
<1>2. ASSUME NEW p \in Procs, AgentStep(p) PROVE RootsIntact'
  <2>1. \A x \in ({head'} \ {NoId}) \cup DOMAIN pool' :
           \/ x \in ({head} \ {NoId}) \cup DOMAIN pool
           \/ pc[p] \in {"writeEntry", "swap"} /\ x = call[p].c
    BY <1>2, AgentWrites
  <2>2. objects \subseteq objects'
    BY <1>2, AgentWrites
  <2>3. QED
    BY <2>1, <2>2 DEF RootsIntact, CallsWhole
<1>3. QED
  BY <1>1, <1>2, NextCases

\* Nobody moves a root while the collector is at work.
LEMMA RootsStay ==
  ASSUME TypeOK, Offline, [Next]_vars, gc.step # "off"
  PROVE  /\ \A now : Roots(now)' = Roots(now)
         /\ UNCHANGED vars \/ CollectorStep \/ PeerStep
<1>1. \A p \in Procs : ~AgentStep(p)
  BY AgentBusy DEF Offline
<1>2. UNCHANGED vars \/ CollectorStep \/ PeerStep
  BY <1>1, NextCases
<1>3. UNCHANGED <<head, pool, pins, logged>>
  BY <1>2, OthersWrite
<1>4. QED
  BY <1>2, <1>3 DEF Roots

\* One object is marked, and what it links to is put on the work list.
LEMMA MarkOne ==
  ASSUME Unknown = {}, TypeOK, Marking, NEW R, R = Roots(gc.now), Mark
  PROVE  /\ gc'.step = "mark" /\ gc'.now = gc.now /\ objects' = objects
         /\ gc'.live \subseteq objects
         /\ Marked(R, gc'.live, gc'.work)
         /\ Grounded(R, (gc'.live \cup gc'.work) \cap objects)
<1>1. gc \in Collections /\ gc.step = "mark" /\ objects' = objects
  BY DEF Mark, TypeOK, store
<1>2. PICK x \in gc.work :
        gc' = IF x \in objects
              THEN [gc EXCEPT !.live = @ \cup {x}, !.work = (@ \cup Links[x]) \ (gc.live \cup {x})]
              ELSE [gc EXCEPT !.work = @ \ {x}]
  BY DEF Mark, Found
<1>3. gc.live \subseteq objects /\ Marked(R, gc.live, gc.work)
      /\ Grounded(R, (gc.live \cup gc.work) \cap objects)
  BY <1>1 DEF Marking
<1>4. CASE x \in objects
  <2>1. /\ gc'.live = gc.live \cup {x} /\ gc'.work = (gc.work \cup Links[x]) \ (gc.live \cup {x})
        /\ gc'.step = "mark" /\ gc'.now = gc.now
    BY <1>1, <1>2, <1>4 DEF Collections
  <2>2. Marked(R, gc'.live, gc'.work)
    BY <1>3, <2>1 DEF Marked
  <2>3. Grounded(R, (gc'.live \cup gc'.work) \cap objects)
    <3> SUFFICES ASSUME NEW S \in SUBSET objects, R \cap objects \subseteq S, MarkClosed(S)
                 PROVE  (gc'.live \cup gc'.work) \cap objects \subseteq S
      BY DEF Grounded
    <3>1. (gc.live \cup gc.work) \cap objects \subseteq S
      BY <1>3 DEF Grounded
    <3>2. x \in S
      BY <1>4, <3>1
    <3>3. Links[x] \cap objects \subseteq S
      BY <3>2 DEF MarkClosed
    <3>4. QED
      BY <2>1, <3>1, <3>2, <3>3
  <2>4. QED
    BY <1>1, <1>3, <1>4, <2>1, <2>2, <2>3
<1>5. CASE x \notin objects
  <2>1. /\ gc'.live = gc.live /\ gc'.work = gc.work \ {x}
        /\ gc'.step = "mark" /\ gc'.now = gc.now
    BY <1>1, <1>2, <1>5 DEF Collections
  <2>2. Marked(R, gc'.live, gc'.work)
    BY <1>3, <1>5, <2>1 DEF Marked
  <2>3. (gc'.live \cup gc'.work) \cap objects = (gc.live \cup gc.work) \cap objects
    BY <1>5, <2>1
  <2>4. QED
    BY <1>1, <1>3, <2>1, <2>2, <2>3
<1>6. QED
  BY <1>4, <1>5

\* Marking neither forgets a root or a link nor follows one that is not there.
LEMMA NextMarking ==
  ASSUME Unknown = {}, TypeOK, Offline, Marking, [Next]_vars
  PROVE  Marking'
<1> SUFFICES ASSUME gc'.step = "mark" PROVE Marking'
  BY DEF Marking
<1>1. CASE gc.step = "off"
  <2>1. PICK dry \in BOOLEAN : Collect(dry)
    <3>1. CollectorStep
      BY <1>1, NextCases, AgentWrites, OthersWrite
    <3>2. QED
      BY <1>1, <3>1 DEF CollectorStep, Mark, Walk, Sweep, Report, CollectReturns, CollectAborts
  <2>2. /\ gc'.live = {} /\ gc'.now = clock /\ gc'.work = Roots(clock)
        /\ UNCHANGED <<objects, head, pins, logged, pool>>
    BY <2>1 DEF Collect, store
  <2>3. Roots(gc.now)' = Roots(clock)
    BY <2>2 DEF Roots
  <2>4. QED
    BY <2>2, <2>3 DEF Marking, Marked, Grounded, MarkClosed
<1>2. CASE gc.step = "mark" /\ Mark
  <2>1. Roots(gc.now)' = Roots(gc.now)
    BY <1>2, RootsStay, MarkOne
  <2>2. QED
    BY <1>2, <2>1, MarkOne DEF Marking, Marked, Grounded, MarkClosed
<1>3. CASE gc.step # "off" /\ ~Mark
  <2>1. UNCHANGED vars \/ PeerStep
    <3>1. ~(\E dry \in BOOLEAN : Collect(dry)) /\ ~CollectReturns /\ ~CollectAborts
      BY <1>3 DEF Collect, CollectReturns, CollectAborts, Off
    <3>2. ~Walk /\ ~Sweep /\ ~Report
      BY DEF TypeOK, Collections, Walk, Sweep, Report
    <3>3. QED
      BY <1>3, <3>1, <3>2, RootsStay DEF CollectorStep
  <2>2. gc' = gc /\ objects' = objects
    BY <2>1 DEF PeerStep, Pin, Unpin, Tick, ExpireAll, vars, store
  <2>3. Roots(gc.now)' = Roots(gc.now)
    BY <1>3, <2>2, RootsStay
  <2>4. QED
    BY <2>2, <2>3 DEF Marking, Marked, Grounded, MarkClosed
<1>4. QED
  BY <1>1, <1>2, <1>3 DEF Mark

\* A deletion leaves the marked objects and what leads to them.
LEMMA SweepOne ==
  ASSUME TypeOK, NEW R, NEW live, live \subseteq objects, R \cap objects \subseteq live,
         MarkClosed(live), Grounded(R, live),
         objects' \subseteq objects, live \subseteq objects'
  PROVE  \A S \in SUBSET objects' :
            /\ R \cap objects' \subseteq S
            /\ \A x \in S : Links[x] \cap objects' \subseteq S
            => live \subseteq S
<1> SUFFICES ASSUME NEW S \in SUBSET objects', R \cap objects' \subseteq S,
                    \A x \in S : Links[x] \cap objects' \subseteq S
             PROVE  live \subseteq S
  OBVIOUS
<1>1. R \cap objects \subseteq S \cap live
  OBVIOUS
<1>2. MarkClosed(S \cap live)
  BY DEF MarkClosed
<1>3. QED
  BY <1>1, <1>2 DEF Grounded

\* The sweep deletes what is not marked and nothing else.
LEMMA NextSweeping ==
  ASSUME TypeOK, Offline, Marking, Sweeping, [Next]_vars
  PROVE  Sweeping'
<1> SUFFICES ASSUME gc'.step \in {"sweep", "done"} PROVE Sweeping'
  BY DEF Sweeping
<1>1. gc \in Collections
  BY DEF TypeOK
<1>2. gc.step # "off"
  <2>1. SUFFICES ASSUME gc.step = "off" PROVE FALSE
    OBVIOUS
  <2>2. gc' = gc \/ CollectorStep
    BY NextCases, AgentWrites, OthersWrite
  <2>3. QED
    BY <2>1, <2>2
    DEF CollectorStep, Collect, Mark, Walk, Sweep, Report, CollectReturns, CollectAborts
<1>3. Roots(gc.now)' = Roots(gc'.now)
  BY <1>2, RootsStay DEF Roots
<1>4. \A now : Roots(now)' = Roots(now)
  BY <1>2, RootsStay
<1>5. CASE Walk
  <2>1. /\ gc'.live = gc.live /\ gc'.now = gc.now /\ gc'.dry = gc.dry /\ gc'.step = "sweep"
        /\ gc'.work = objects \ gc.live /\ objects' = objects
    BY <1>1, <1>5 DEF Walk, Collections, store
  <2>2. /\ gc.live \subseteq objects /\ Marked(Roots(gc.now), gc.live, {})
        /\ Grounded(Roots(gc.now), gc.live)
    <3>1. gc.step = "mark" /\ gc.work = {}
      BY <1>5 DEF Walk
    <3>2. gc.live = (gc.live \cup gc.work) \cap objects
      BY <3>1 DEF Marking
    <3>3. QED
      BY <3>1, <3>2 DEF Marking
  <2>3. Roots(gc.now)' = Roots(gc.now)
    BY <1>3, <1>4, <2>1
  <2>4. QED
    BY <2>1, <2>2, <2>3 DEF Sweeping, Marked, Grounded, MarkClosed
<1>6. CASE Sweep
  <2>1. PICK x \in gc.work :
          /\ objects' = IF gc.dry THEN objects ELSE objects \ {x}
          /\ gc' = [gc EXCEPT !.work = @ \ {x}]
    BY <1>6 DEF Sweep
  <2>2. /\ gc'.live = gc.live /\ gc'.now = gc.now /\ gc'.dry = gc.dry /\ gc'.step = "sweep"
        /\ gc'.work = gc.work \ {x}
    BY <1>1, <1>6, <2>1 DEF Sweep, Collections
  <2>3. /\ gc.live \subseteq objects /\ gc.work \cap gc.live = {}
        /\ Marked(Roots(gc.now), gc.live, {}) /\ Grounded(Roots(gc.now), gc.live)
        /\ ~gc.dry => objects \subseteq gc.live \cup gc.work
    BY <1>6 DEF Sweep, Sweeping
  <2>4. objects' \subseteq objects /\ gc.live \subseteq objects'
    BY <2>1, <2>3
  <2>5. Roots(gc.now)' = Roots(gc.now)
    BY <1>3, <1>4, <2>2
  <2>6. Marked(Roots(gc.now), gc.live, {})'
    BY <2>2, <2>3, <2>4, <2>5 DEF Marked
  <2>7. Grounded(Roots(gc.now), gc.live)'
    <3>1. Roots(gc.now) \cap objects \subseteq gc.live /\ MarkClosed(gc.live)
      BY <2>3 DEF Marked, MarkClosed
    <3>2. QED
      BY <2>2, <2>3, <2>4, <2>5, <3>1, SweepOne DEF Grounded, MarkClosed
  <2>8. ~gc'.dry => objects' \subseteq gc'.live \cup gc'.work
    BY <2>1, <2>2, <2>3
  <2>9. QED
    BY <2>2, <2>3, <2>4, <2>6, <2>7, <2>8 DEF Sweeping
<1>7. CASE Report
  <2>1. /\ gc'.live = gc.live /\ gc'.now = gc.now /\ gc'.dry = gc.dry /\ gc'.work = {}
        /\ gc.work = {} /\ gc.step = "sweep" /\ objects' = objects
    BY <1>1, <1>7 DEF Report, Collections, store
  <2>2. Roots(gc.now)' = Roots(gc.now)
    BY <1>3, <1>4, <2>1
  <2>3. QED
    BY <2>1, <2>2 DEF Sweeping, Marked, Grounded, MarkClosed
<1>8. CASE ~Walk /\ ~Sweep /\ ~Report
  <2>1. UNCHANGED vars \/ PeerStep
    <3>1. ~(\E dry \in BOOLEAN : Collect(dry)) /\ ~CollectReturns /\ ~CollectAborts
      BY <1>2 DEF Collect, CollectReturns, CollectAborts, Off
    <3>2. ~Mark
      <4>1. SUFFICES ASSUME Mark PROVE FALSE
        OBVIOUS
      <4>2. gc.step = "mark" /\ gc'.step = gc.step
        BY <1>1, <4>1 DEF Mark, Collections
      <4>3. QED
        BY <4>2
    <3>3. QED
      BY <1>2, <1>8, <3>1, <3>2, RootsStay DEF CollectorStep
  <2>2. gc' = gc /\ objects' = objects
    BY <2>1 DEF PeerStep, Pin, Unpin, Tick, ExpireAll, vars, store
  <2>3. Roots(gc.now)' = Roots(gc.now)
    BY <1>3, <1>4, <2>2
  <2>4. QED
    BY <2>2, <2>3 DEF Sweeping, Marked, Grounded, MarkClosed
<1>9. QED
  BY <1>5, <1>6, <1>7, <1>8

\* An edge is written by a call that has counted, or forgotten.
LEMMA AgentEdges ==
  ASSUME TypeOK, Arguments, NEW p \in Procs, AgentStep(p)
  PROVE  \/ \A c \in Cands : edges'[c] \subseteq edges[c]
         \/ /\ pc[p] = "writeEdge" /\ pc'[p] = "idle"
            /\ \E e \in Edges : edges' = [edges EXCEPT ![call[p].c] = @ \cup {e}]
<1>1. CASE WriteEdge(p)
  BY <1>1 DEF WriteEdge, Return, Goto, Arguments, TypeOK
<1>2. CASE ForgetState(p)
  BY <1>2 DEF ForgetState, TypeOK
<1>3. CASE ~WriteEdge(p) /\ ~ForgetState(p)
  <2>1. edges' = edges
    BY <1>3
    DEF AgentStep, Step, Call, SwapTorn, Abort, PutRaw, Add, ReadEntry, WriteEntry, ReadDir, ReadFile,
        Rank, Remove, Best, Swap, Propose, SetScore, PutEphemeral, Prune, PromoteWithPolicy, Begin, store
  <2>2. QED
    BY <2>1
<1>4. QED
  BY <1>1, <1>2, <1>3

\* A call that begins to write an edge has counted fewer than the budget.
LEMMA BeganEdges ==
  ASSUME TypeOK, NEW p \in Procs, AgentStep(p), pc'[p] = "writeEdge"
  PROVE  call'[p].c \in Cands /\ Cardinality(edges[call'[p].c]) < MaxPerState
  BY AgentOutcome DEF Ended, Began, WentOn

\* The agents about to write are agents, so there are finitely many.
LEMMA WritersFinite ==
  ASSUME NEW c
  PROVE  /\ IsFiniteSet(Writers(c)) /\ Cardinality(Writers(c)) \in Nat
         /\ Cardinality(Writers(c)) <= Cardinality(Procs)
  BY FS_Subset, FS_CardinalityType, RetentionAssumption DEF Writers, RetentionAssumption

\* However the agents race, the edges written and those about to be exceed the
\* budget by no more than the agents that counted at once.
LEMMA NextBudgetCommitted ==
  ASSUME TypeOK, Arguments, BudgetCommitted, [Next]_vars
  PROVE  BudgetCommitted'
<1> USE RetentionAssumption DEF RetentionAssumption
<1>0. Cardinality(Procs) \in Nat
  BY FS_CardinalityType
<1>1. CASE UNCHANGED vars \/ PeerStep \/ CollectorStep
  <2>1. UNCHANGED <<pc, call, edges>>
    BY <1>1, OthersWrite
  <2>2. QED
    BY <2>1 DEF BudgetCommitted, Writers
<1>2. ASSUME NEW p \in Procs, AgentStep(p), NEW c \in Cands
      PROVE  /\ IsFiniteSet(edges'[c])
             /\ Cardinality(edges'[c]) + Cardinality(Writers(c)')
                  <= MaxPerState + Cardinality(Procs) - 1
  <2>1. IsFiniteSet(edges[c]) /\ Cardinality(edges[c]) \in Nat
        /\ Cardinality(edges[c]) + Cardinality(Writers(c)) <= MaxPerState + Cardinality(Procs) - 1
    BY FS_CardinalityType DEF BudgetCommitted
  <2>2. /\ IsFiniteSet(Writers(c)) /\ Cardinality(Writers(c)) \in Nat
        /\ Cardinality(Writers(c)) <= Cardinality(Procs)
    BY WritersFinite
  <2>3. \A q \in Procs \ {p} : pc'[q] = pc[q] /\ call'[q] = call[q]
    BY <1>2, AgentOutcome
  <2>4. Writers(c)' \subseteq Procs
    BY DEF Writers
  <2>5. /\ IsFiniteSet(Writers(c)') /\ Cardinality(Writers(c)') \in Nat
        /\ Cardinality(Writers(c)') <= Cardinality(Procs)
    BY <2>4, FS_Subset, FS_CardinalityType
  <2>6. CASE \A d \in Cands : edges'[d] \subseteq edges[d]
    <3>1. IsFiniteSet(edges'[c]) /\ Cardinality(edges'[c]) \in Nat
          /\ Cardinality(edges'[c]) <= Cardinality(edges[c])
      BY <2>1, <2>6, FS_Subset, FS_CardinalityType
    <3>2. CASE pc'[p] = "writeEdge" /\ call'[p].c = c
      BY <1>0, <1>2, <2>1, <2>5, <3>1, <3>2, BeganEdges
    <3>3. CASE ~(pc'[p] = "writeEdge" /\ call'[p].c = c)
      <4>1. Writers(c)' \subseteq Writers(c)
        BY <2>3, <3>3 DEF Writers
      <4>2. Cardinality(Writers(c)') <= Cardinality(Writers(c))
        BY <2>2, <4>1, FS_Subset
      <4>3. QED
        BY <1>0, <2>1, <2>2, <2>5, <3>1, <4>2
    <3>4. QED
      BY <3>2, <3>3
  <2>7. CASE /\ pc[p] = "writeEdge" /\ pc'[p] = "idle"
             /\ \E e \in Edges : edges' = [edges EXCEPT ![call[p].c] = @ \cup {e}]
    <3>1. PICK e \in Edges : edges' = [edges EXCEPT ![call[p].c] = @ \cup {e}]
      BY <2>7
    <3>2. CASE call[p].c = c
      <4>1. edges'[c] = edges[c] \cup {e}
        BY <3>1, <3>2 DEF TypeOK
      <4>2. IsFiniteSet(edges'[c]) /\ Cardinality(edges'[c]) \in Nat
            /\ Cardinality(edges'[c]) <= Cardinality(edges[c]) + 1
        <5>1. /\ IsFiniteSet(edges[c] \cup {e})
              /\ \/ Cardinality(edges[c] \cup {e}) = Cardinality(edges[c])
                 \/ Cardinality(edges[c] \cup {e}) = Cardinality(edges[c]) + 1
          BY <2>1, FS_AddElement
        <5>2. QED
          BY <2>1, <4>1, <5>1
      <4>3. Writers(c)' = Writers(c) \ {p} /\ p \in Writers(c)
        BY <2>3, <2>7, <3>2 DEF Writers
      <4>4. Cardinality(Writers(c)') = Cardinality(Writers(c)) - 1
        BY <2>2, <4>3, FS_RemoveElement
      <4>5. QED
        BY <1>0, <2>1, <2>2, <2>5, <4>2, <4>4
    <3>3. CASE call[p].c # c
      <4>1. edges'[c] = edges[c]
        BY <3>1, <3>3 DEF TypeOK
      <4>2. Writers(c)' \subseteq Writers(c)
        BY <2>3, <2>7 DEF Writers
      <4>3. Cardinality(Writers(c)') <= Cardinality(Writers(c))
        BY <2>2, <4>2, FS_Subset
      <4>4. QED
        BY <1>0, <2>1, <2>2, <2>5, <4>1, <4>3
    <3>4. QED
      BY <3>2, <3>3
  <2>8. QED
    BY <1>2, <2>6, <2>7, AgentEdges
<1>3. QED
  BY <1>1, <1>2, NextCases DEF BudgetCommitted

\* The invariant holds at the start.
LEMMA InitIInv == Init => IInv
<1> SUFFICES ASSUME Init PROVE IInv
  OBVIOUS
<1>1. TypeOK
  <2>1. <<>> \in [{} -> Entry]
    OBVIOUS
  <2>2. <<>> \in Listings
    BY <2>1 DEF Listings
  <2>3. Off \in Collections /\ 0 \in 0 .. MaxTime
    BY RetentionAssumption DEF Off, Collections, RetentionAssumption
  <2>4. /\ pc \in [Procs -> {"idle", "put", "stat", "readEntry", "writeEntry", "readDir", "read",
                            "remove", "forget", "swap", "writeEdge"}]
        /\ call \in [Procs -> Calls] /\ edges \in [Cands -> SUBSET Edges]
    BY NoCallIsCall DEF Init
  <2>5. objects = {} /\ head = NoId /\ pins = {} /\ logged = {} /\ damaged = FALSE /\ pool = <<>>
        /\ clock = 0 /\ gc = Off
    BY DEF Init
  <2>6. /\ pool \in Listings /\ gc \in Collections /\ clock \in 0 .. MaxTime
        /\ objects \subseteq Objs /\ pins \subseteq Pins /\ logged \subseteq Objs
    BY <2>2, <2>3, <2>5
  <2>7. QED
    BY <2>4, <2>5, <2>6, Zenon DEF TypeOK
<1>2. Offline /\ Arguments /\ CallsWhole
  BY DEF Init, Offline, Arguments, CallsWhole, Off
<1>3. RootsIntact
  BY DEF Init, RootsIntact
<1>4. Marking /\ Sweeping
  BY DEF Init, Marking, Sweeping, Off
<1>5. BudgetCommitted
  <2>1. \A c : Writers(c) = {}
    BY DEF Init, Writers
  <2>2. Cardinality(Procs) \in Nat /\ Cardinality(Procs) # 0 /\ MaxPerState \in Nat
    BY FS_CardinalityType, FS_EmptySet, RetentionAssumption DEF RetentionAssumption
  <2>3. \A c \in Cands : edges[c] = {}
    BY DEF Init
  <2>4. IsFiniteSet({}) /\ Cardinality({}) = 0
    BY FS_EmptySet
  <2>5. 0 + 0 <= MaxPerState + Cardinality(Procs) - 1
    BY <2>2
  <2>6. ASSUME NEW c \in Cands
        PROVE  /\ IsFiniteSet(edges[c]) /\ Cardinality(edges[c]) = 0
               /\ Cardinality(Writers(c)) = 0
    BY <2>1, <2>3, <2>4, Zenon
  <2>7. QED
    BY <2>5, <2>6 DEF BudgetCommitted
<1>6. QED
  BY <1>1, <1>2, <1>3, <1>4, <1>5 DEF IInv

\* The invariant holds in every state.
THEOREM Invariance == ASSUME Unknown = {} PROVE Spec => []IInv
<1>1. ASSUME IInv, [Next]_vars PROVE IInv'
  BY <1>1, NextTypeOK, NextOffline, NextArguments, NextCallsWhole, NextRootsIntact, NextMarking,
     NextSweeping, NextBudgetCommitted
  DEF IInv
<1>2. QED
  BY <1>1, InitIInv, PTL DEF Spec

-----------------------------------------------------------------------------
\* A collection that has finished has left exactly what its roots lead to.
LEMMA DoneIsExact ==
  ASSUME TypeOK, Sweeping
  PROVE  SweepExact
<1> SUFFICES ASSUME gc.step = "done", ~gc.dry PROVE objects = Reachable(Protected(gc.now))
  BY DEF SweepExact
<1>1. gc.now \in Nat
  BY RetentionAssumption DEF TypeOK, Collections, RetentionAssumption
<1>2. Protected(gc.now) = Roots(gc.now)
  BY <1>1, RootsAreProtected
<1>3. gc.live = objects /\ Grounded(Roots(gc.now), objects)
  BY DEF Sweeping
<1>4. objects \subseteq Reachable(Roots(gc.now))
  BY <1>3 DEF Grounded, Reachable
<1>5. QED
  BY <1>2, <1>4 DEF Reachable

\* The budget is exceeded by racing writers only.
LEMMA BudgetHolds ==
  ASSUME BudgetCommitted
  PROVE  BudgetNearlyKept
<1> SUFFICES ASSUME NEW c \in Cands
             PROVE  Cardinality(edges[c]) <= MaxPerState + Cardinality(Procs) - 1
  BY DEF BudgetNearlyKept
<1>1. Cardinality(Writers(c)) \in Nat /\ Cardinality(edges[c]) \in Nat /\ Cardinality(Procs) \in Nat
  BY WritersFinite, FS_CardinalityType, RetentionAssumption DEF BudgetCommitted, RetentionAssumption
<1>2. QED
  BY <1>1, RetentionAssumption DEF BudgetCommitted, RetentionAssumption

\* Through promotion, pruning, racing writes and interrupted sweeps (gc.Collect) the
\* branch and every candidate stay whole, a collection that reports success is
\* exact, and the edge budget (putEphemeral) is exceeded by racing writers only.
THEOREM RetentionSafe == ASSUME Unknown = {} PROVE Spec => []RetentionInv
<1>1. IInv => RetentionInv
  BY DoneIsExact, BudgetHolds DEF IInv, RetentionInv
<1>2. QED
  BY <1>1, Invariance, PTL

\* gc.Collect deletes an object only if nothing that the branch, a reflog, a
\* candidate or an unexpired pin names leads to it through what is there.
THEOREM CollectsOnlyGarbage == ASSUME Unknown = {} PROVE Spec => SweepsOnlyGarbage
<1>1. ASSUME IInv, [Next]_vars
      PROVE  [(objects \ objects') \cap Reachable(Protected(gc.now)) = {}]_vars
  <2>1. CASE Sweep
    <3>1. /\ gc.live \subseteq objects /\ gc.work \cap gc.live = {}
          /\ Roots(gc.now) \cap objects \subseteq gc.live /\ MarkClosed(gc.live)
      BY <1>1, <2>1 DEF IInv, Sweeping, Sweep, Marked, MarkClosed
    <3>2. gc.now \in Nat
      BY <1>1, RetentionAssumption DEF IInv, TypeOK, Collections, RetentionAssumption
    <3>3. Reachable(Protected(gc.now)) \subseteq gc.live
      BY <1>1, <3>1, <3>2, RootsAreProtected, ReachableIsLeast DEF IInv
    <3>4. objects \ objects' \subseteq gc.work
      BY <2>1 DEF Sweep
    <3>5. QED
      BY <3>1, <3>3, <3>4
  <2>2. CASE ~Sweep
    <3>1. objects \subseteq objects'
      BY <1>1, <2>2, NextCases, AgentWrites, OthersWrite DEF IInv
    <3>2. QED
      BY <3>1
  <2>3. QED
    BY <2>1, <2>2
<1>2. QED
  BY <1>1, Invariance, PTL DEF Spec, SweepsOnlyGarbage
=============================================================================
