----------------------------- MODULE Retention -----------------------------
(* Packages spec, gc, store and the collectable half of edge (internal/spec,
   internal/gc, internal/store, internal/edge/ephemeral.go): what keeps an
   object alive and what deletes it.  Agents put changes into the object store,
   record them as candidates of a task, score, promote and prune them, all as
   files that other processes replace at the same time.  The collector marks
   from the refs, the reflogs and the pool and sweeps the rest; it runs while
   no agent does (package gc calls itself an offline operation), but it may be
   interrupted half way.  Refs are the atomic registers of RefRegister.     *)
EXTENDS Naturals, FiniteSets

CONSTANTS Procs,     \* agents sharing the repository
          Objs,      \* object identities, numbers in the order of their names
          Links,     \* Links[x]: the objects that x's encoding names
          Unknown,   \* objects of a type this build does not know
          Cands,     \* the changes among them that are proposed
          Scores,    \* scores a scorer may give
          Refused,   \* changes the promotion policy refuses
          Pins,      \* pins a peer may ask for: [id, notAfter]
          Edges,     \* collectable edges a state may carry
          MaxPerState,
          Keeps,     \* keepTopK arguments
          MaxTime,   \* bound: the clock
          MaxOps,    \* bound: agent calls started
          MaxFaults  \* bound: kills, failed deletions and torn reflog lines

NoId == 0

ASSUME RetentionAssumption ==
    /\ Objs \subseteq Nat \ {NoId}
    /\ Links \in [Objs -> SUBSET Objs]
    /\ \A x \in Objs : \A y \in Links[x] : y < x
    /\ Unknown \subseteq Objs
    /\ Cands \subseteq Objs /\ Refused \subseteq Cands
    /\ Scores \subseteq Nat /\ Keeps \subseteq Nat
    /\ Pins \subseteq [id : Objs, notAfter : Nat]
    /\ IsFiniteSet(Procs) /\ Procs # {}
    /\ MaxPerState \in Nat /\ MaxTime \in Nat /\ MaxOps \in Nat /\ MaxFaults \in Nat

VARIABLES
    objects,  \* the object store
    head,     \* the branch ref that promotion moves
    pins,     \* the pin refs
    logged,   \* identities named in some reflog
    damaged,  \* some reflog does not parse
    pool,     \* the candidate files of the task, by change
    edges,    \* edges[c]: the files under spec-edges/c
    clock,
    pc, call, \* pc[p], call[p]: the next step of p's call and its variables
    gc,       \* the collector: its step, marks and work list
    ops, faults

vars == <<objects, head, pins, logged, damaged, pool, edges, clock, pc, call, gc, ops, faults>>

Entry == [scored : BOOLEAN, score : Scores \cup {0}]

\* The files of a directory of candidates, by change, and what a listing has read.
Listings == UNION {[D -> Entry] : D \in SUBSET Cands}

Unscored == [scored |-> FALSE, score |-> 0]

NoCall == [kind |-> "none", c |-> NoId, todo |-> {}, seen |-> <<>>, n |-> 0, entry |-> Unscored]

Kinds == {"none", "propose", "score", "prune", "promote", "edge"}

Calls == [kind : Kinds, c : Cands \cup {NoId}, todo : SUBSET (Objs \cup Edges),
          seen : Listings, n : Nat, entry : Entry]

Collections == [step : {"off", "mark", "sweep", "done"}, live : SUBSET Objs,
                work : SUBSET Objs, now : 0 .. MaxTime, dry : BOOLEAN]

Off == [step |-> "off", live |-> {}, work |-> {}, now |-> 0, dry |-> FALSE]

\* Every variable holds a value of the kind the code keeps there.
TypeOK ==
    /\ objects \subseteq Objs
    /\ head \in Cands \cup {NoId}
    /\ pins \subseteq Pins
    /\ logged \subseteq Objs
    /\ damaged \in BOOLEAN
    /\ pool \in Listings
    /\ edges \in [Cands -> SUBSET Edges]
    /\ clock \in 0 .. MaxTime
    /\ pc \in [Procs -> {"idle", "put", "stat", "readEntry", "writeEntry", "readDir", "read",
                         "remove", "forget", "swap", "writeEdge"}]
    /\ call \in [Procs -> Calls]
    /\ gc \in Collections

Init ==
    /\ objects = {}
    /\ head = NoId
    /\ pins = {}
    /\ logged = {}
    /\ damaged = FALSE
    /\ pool = <<>>
    /\ edges = [c \in Cands |-> {}]
    /\ clock = 0
    /\ pc = [p \in Procs |-> "idle"]
    /\ call = [p \in Procs |-> NoCall]
    /\ gc = Off
    /\ ops = 0
    /\ faults = 0

store == <<objects, head, pins, logged, damaged, pool, edges>>

Goto(p, l) == pc' = [pc EXCEPT ![p] = l]

Return(p) == Goto(p, "idle") /\ call' = [call EXCEPT ![p] = NoCall]

Begin(p, l, k) ==
    /\ pc[p] = "idle"
    /\ gc.step = "off"
    /\ ops < MaxOps
    /\ ops' = ops + 1
    /\ Goto(p, l)
    /\ call' = [call EXCEPT ![p] = k]
    /\ UNCHANGED <<store, clock, gc, faults>>

-----------------------------------------------------------------------------
(* Objects.                                                                 *)

\* S contains the links of its members.
Closed(S) == \A x \in S : Links[x] \subseteq S

\* All that x leads to.
Closure(x) == {y \in Objs : \A S \in SUBSET Objs : x \in S /\ Closed(S) => y \in S}

\* The links this build finds in x: it cannot look into a type it does not know.
Found(x) == IF x \in Unknown THEN {} ELSE Links[x]

\* A set of present objects that marking would not leave.
MarkClosed(S) == \A x \in S : Links[x] \cap objects \subseteq S

\* What can be reached from R through objects that are present.
Reachable(R) ==
    {x \in objects : \A S \in SUBSET objects : R \cap objects \subseteq S /\ MarkClosed(S) => x \in S}

-----------------------------------------------------------------------------
(* The agents.                                                              *)

\* Propose stores the change with everything it names and adds it to the pool.
Propose(p, c) == Begin(p, "put", [NoCall EXCEPT !.kind = "propose", !.c = c, !.todo = Closure(c)])

\* PutRaw of one object, after the objects it names: a temporary file renamed
\* into place unless the object is there.
PutRaw(p) ==
    /\ pc[p] = "put"
    /\ \E x \in call[p].todo :
          /\ Links[x] \cap call[p].todo = {}
          /\ objects' = objects \cup {x}
          /\ call' = [call EXCEPT ![p].todo = @ \ {x}]
          /\ Goto(p, IF call[p].todo = {x} THEN "stat" ELSE "put")
    /\ UNCHANGED <<head, pins, logged, damaged, pool, edges, clock, gc, ops, faults>>

\* Add: nothing to do if the candidate's file is there.
Add(p) ==
    /\ pc[p] = "stat"
    /\ IF call[p].c \in DOMAIN pool THEN Return(p) ELSE Goto(p, "writeEntry") /\ UNCHANGED call
    /\ UNCHANGED <<store, clock, gc, ops, faults>>

SetScore(p, c, s) ==
    Begin(p, "readEntry", [NoCall EXCEPT !.kind = "score", !.c = c, !.n = s])

\* SetScore reads the entry; a missing file is an error.
ReadEntry(p) ==
    /\ pc[p] = "readEntry"
    /\ IF call[p].c \in DOMAIN pool
         THEN /\ call' = [call EXCEPT ![p].entry = [scored |-> TRUE, score |-> call[p].n]]
              /\ Goto(p, "writeEntry")
         ELSE Return(p)
    /\ UNCHANGED <<store, clock, gc, ops, faults>>

\* writeEntry renames a temporary file over the candidate's, wherever that
\* stands by now.
WriteEntry(p) ==
    /\ pc[p] = "writeEntry"
    /\ pool' = [c \in DOMAIN pool \cup {call[p].c} |->
                  IF c = call[p].c THEN call[p].entry ELSE pool[c]]
    /\ Return(p)
    /\ UNCHANGED <<objects, head, pins, logged, damaged, edges, clock, gc, ops, faults>>

Prune(p, k) == Begin(p, "readDir", [NoCall EXCEPT !.kind = "prune", !.n = k])

PromoteWithPolicy(p) == Begin(p, "readDir", [NoCall EXCEPT !.kind = "promote"])

\* List reads the directory and then one file after the other; a file that has
\* gone meanwhile is an error.
ReadDir(p) ==
    /\ pc[p] = "readDir"
    /\ call' = [call EXCEPT ![p].todo = DOMAIN pool]
    /\ Goto(p, "read")
    /\ UNCHANGED <<store, clock, gc, ops, faults>>

ReadFile(p) ==
    /\ pc[p] = "read"
    /\ \E c \in call[p].todo :
          /\ \A x \in call[p].todo : c <= x
          /\ IF c \in DOMAIN pool
               THEN /\ call' = [call EXCEPT
                                  ![p].todo = @ \ {c},
                                  ![p].seen = [x \in DOMAIN @ \cup {c} |->
                                                 IF x = c THEN pool[c] ELSE @[x]]]
                    /\ UNCHANGED pc
               ELSE Return(p)
    /\ UNCHANGED <<store, clock, gc, ops, faults>>

\* The order of the retention policy: scored first, higher scores first, ties
\* in the order of the listing.
Above(seen, x, y) ==
    \/ seen[x].scored /\ ~seen[y].scored
    \/ seen[x].scored = seen[y].scored /\ seen[x].score > seen[y].score
    \/ seen[x] = seen[y] /\ x < y

Dropped(k) ==
    {c \in DOMAIN k.seen : Cardinality({x \in DOMAIN k.seen : Above(k.seen, x, c)}) >= k.n}

\* Prune sorts what it listed and keeps the first keepTopK.
Rank(p) ==
    /\ pc[p] = "read" /\ call[p].todo = {} /\ call[p].kind = "prune"
    /\ IF Dropped(call[p]) = {}
         THEN Return(p)
         ELSE /\ call' = [call EXCEPT ![p].todo = Dropped(call[p])]
              /\ Goto(p, "remove")
    /\ UNCHANGED <<store, clock, gc, ops, faults>>

\* It removes the other files, one by one; one that is gone already is fine.
Remove(p) ==
    /\ pc[p] = "remove"
    /\ \E c \in call[p].todo :
          /\ pool' = [x \in DOMAIN pool \ {c} |-> pool[x]]
          /\ IF call[p].todo = {c}
               THEN /\ call' = [call EXCEPT ![p].todo = Dropped(call[p])]
                    /\ Goto(p, "forget")
               ELSE /\ call' = [call EXCEPT ![p].todo = @ \ {c}]
                    /\ UNCHANGED pc
    /\ UNCHANGED <<objects, head, pins, logged, damaged, edges, clock, gc, ops, faults>>

\* PruneWithEdges then forgets the edges of every state it dropped.
ForgetState(p) ==
    /\ pc[p] = "forget"
    /\ \E c \in call[p].todo :
          /\ edges' = [edges EXCEPT ![c] = {}]
          /\ IF call[p].todo = {c}
               THEN Return(p)
               ELSE call' = [call EXCEPT ![p].todo = @ \ {c}] /\ UNCHANGED pc
    /\ UNCHANGED <<objects, head, pins, logged, damaged, pool, clock, gc, ops, faults>>

Admissible(seen) == {c \in DOMAIN seen : seen[c].scored /\ c \notin Refused}

\* The highest score among the scored candidates the policy admits, the first
\* listed of equals; without one promotion fails.  The ref is resolved next.
Best(p) ==
    LET k == call[p] IN
    /\ pc[p] = "read" /\ k.todo = {} /\ k.kind = "promote"
    /\ \/ Admissible(k.seen) = {} /\ Return(p)
       \/ \E c \in Admissible(k.seen) :
             /\ \A x \in Admissible(k.seen) \ {c} : ~Above(k.seen, x, c)
             /\ call' = [call EXCEPT ![p].c = c, ![p].n = head]
             /\ Goto(p, "swap")
    /\ UNCHANGED <<store, clock, gc, ops, faults>>

\* CompareAndSwap from the value just resolved; both values enter the reflog.
Swap(p) ==
    /\ pc[p] = "swap"
    /\ IF head = call[p].n
         THEN /\ head' = call[p].c
              /\ logged' = logged \cup ({head, call[p].c} \ {NoId})
         ELSE UNCHANGED <<head, logged>>
    /\ Return(p)
    /\ UNCHANGED <<objects, pins, damaged, pool, edges, clock, gc, ops, faults>>

\* putEphemeral: a recorded edge is done, a full directory is refused ...
PutEphemeral(p, c, e) ==
    /\ e \notin edges[c]
    /\ Cardinality(edges[c]) < MaxPerState
    /\ Begin(p, "writeEdge", [NoCall EXCEPT !.kind = "edge", !.c = c, !.todo = {e}])

\* ... and otherwise the file is written, whatever has come or gone since.
WriteEdge(p) ==
    /\ pc[p] = "writeEdge"
    /\ edges' = [edges EXCEPT ![call[p].c] = @ \cup call[p].todo]
    /\ Return(p)
    /\ UNCHANGED <<objects, head, pins, logged, damaged, pool, clock, gc, ops, faults>>

Fault == faults < MaxFaults /\ faults' = faults + 1

\* The swap's reflog line is cut short: the ref has moved, the log is unreadable.
SwapTorn(p) ==
    /\ Fault
    /\ pc[p] = "swap"
    /\ head = call[p].n
    /\ head' = call[p].c
    /\ damaged' = TRUE
    /\ Return(p)
    /\ UNCHANGED <<objects, pins, logged, pool, edges, clock, gc, ops>>

\* An agent is killed, or an I/O error ends its call, between two steps.
Abort(p) ==
    /\ Fault
    /\ pc[p] # "idle"
    /\ Return(p)
    /\ UNCHANGED <<store, clock, gc, ops>>

-----------------------------------------------------------------------------
(* Peers, time and reflog expiry.                                           *)

\* A pin is a ref whose name carries its expiry; the peer that asks must name
\* an object that is here.
Pin(q) ==
    /\ gc.step = "off"
    /\ q \notin pins /\ q.id \in objects /\ clock < q.notAfter
    /\ pins' = pins \cup {q}
    /\ logged' = logged \cup {q.id}
    /\ UNCHANGED <<objects, head, damaged, pool, edges, clock, pc, call, gc, ops, faults>>

Unpin(q) ==
    /\ gc.step = "off"
    /\ q \in pins
    /\ pins' = pins \ {q}
    /\ logged' = logged \cup {q.id}
    /\ UNCHANGED <<objects, head, damaged, pool, edges, clock, pc, call, gc, ops, faults>>

Tick ==
    /\ clock < MaxTime
    /\ clock' = clock + 1
    /\ UNCHANGED <<store, pc, call, gc, ops, faults>>

\* gc --prune-reflog: ExpireAll may drop any part of the logs (RefStore has the
\* policy); a log that does not parse is an error.
ExpireAll(kept) ==
    /\ gc.step = "off"
    /\ ~damaged
    /\ kept \subseteq logged
    /\ logged' = kept
    /\ UNCHANGED <<objects, head, pins, damaged, pool, edges, clock, pc, call, gc, ops, faults>>

-----------------------------------------------------------------------------
(* The collector.                                                           *)

\* Mutants: the reflogs are not walked; the pool is not a root.
RootsNoReflog(now) ==
    ({head} \ {NoId}) \cup {q.id : q \in {x \in pins : x.notAfter > now}} \cup DOMAIN pool

RootsNoPool(now) ==
    ({head} \ {NoId}) \cup {q.id : q \in {x \in pins : x.notAfter > now}} \cup logged

\* Ref targets other than expired pins, identities in reflogs, candidates.
Roots(now) ==
    ({head} \ {NoId}) \cup {q.id : q \in {x \in pins : ~(x.notAfter <= now)}}
       \cup logged \cup DOMAIN pool

\* Collect begins, with or without --dry-run.  A reflog that does not parse
\* ends it before anything is marked.
Collect(dry) ==
    /\ gc.step = "off"
    /\ \A p \in Procs : pc[p] = "idle"
    /\ ~damaged
    /\ gc' = [step |-> "mark", live |-> {}, work |-> Roots(clock), now |-> clock, dry |-> dry]
    /\ UNCHANGED <<store, clock, pc, call, ops, faults>>

\* mark of one object: one that is absent is skipped.
Mark ==
    /\ gc.step = "mark"
    /\ \E x \in gc.work :
          gc' = IF x \in objects
                THEN [gc EXCEPT !.live = @ \cup {x},
                                !.work = (@ \cup Found(x)) \ (gc.live \cup {x})]
                ELSE [gc EXCEPT !.work = @ \ {x}]
    /\ UNCHANGED <<store, clock, pc, call, ops, faults>>

\* Walk collects the identities that are not marked.
Walk ==
    /\ gc.step = "mark" /\ gc.work = {}
    /\ gc' = [gc EXCEPT !.step = "sweep", !.work = objects \ gc.live]
    /\ UNCHANGED <<store, clock, pc, call, ops, faults>>

\* One of them is deleted, or only reported.
Sweep ==
    /\ gc.step = "sweep"
    /\ \E x \in gc.work :
          /\ objects' = IF gc.dry THEN objects ELSE objects \ {x}
          /\ gc' = [gc EXCEPT !.work = @ \ {x}]
    /\ UNCHANGED <<head, pins, logged, damaged, pool, edges, clock, pc, call, ops, faults>>

Report ==
    /\ gc.step = "sweep" /\ gc.work = {}
    /\ gc' = [gc EXCEPT !.step = "done"]
    /\ UNCHANGED <<store, clock, pc, call, ops, faults>>

CollectReturns ==
    /\ gc.step = "done"
    /\ gc' = Off
    /\ UNCHANGED <<store, clock, pc, call, ops, faults>>

\* The collector is killed, or an object cannot be read or deleted.
CollectAborts ==
    /\ Fault
    /\ gc.step \in {"mark", "sweep"}
    /\ gc' = Off
    /\ UNCHANGED <<store, clock, pc, call, ops>>

-----------------------------------------------------------------------------
Step(p) ==
    \/ PutRaw(p) \/ Add(p) \/ ReadEntry(p) \/ WriteEntry(p) \/ ReadDir(p) \/ ReadFile(p)
    \/ Rank(p) \/ Remove(p) \/ ForgetState(p) \/ Best(p) \/ Swap(p) \/ WriteEdge(p)

Call(p) ==
    \/ \E c \in Cands : \/ Propose(p, c)
                        \/ \E s \in Scores : SetScore(p, c, s)
                        \/ \E e \in Edges : PutEphemeral(p, c, e)
    \/ \E k \in Keeps : Prune(p, k)
    \/ PromoteWithPolicy(p)

Next ==
    \/ \E p \in Procs : Step(p) \/ Call(p) \/ SwapTorn(p) \/ Abort(p)
    \/ \E q \in Pins : Pin(q) \/ Unpin(q)
    \/ Tick
    \/ \E kept \in SUBSET logged : ExpireAll(kept)
    \/ \E dry \in BOOLEAN : Collect(dry)
    \/ Mark \/ Walk \/ Sweep \/ Report \/ CollectReturns \/ CollectAborts

Spec == Init /\ [][Next]_vars

-----------------------------------------------------------------------------
(* Properties.                                                              *)

\* What a user relies on finding again at a given time.
Protected(now) ==
    ({head} \ {NoId}) \cup logged \cup DOMAIN pool \cup {q.id : q \in {x \in pins : now < x.notAfter}}

\* The branch and every candidate are whole: everything they lead to is in the
\* store, through promotion, pruning, racing writes of a candidate's file,
\* reflog expiry, interrupted puts and interrupted sweeps.
RootsIntact == \A x \in ({head} \ {NoId}) \cup DOMAIN pool : Closure(x) \subseteq objects

\* An object leaves the store only if nothing protected leads to it through
\* what is there, whatever an earlier, interrupted sweep has left.
SweepsOnlyGarbage ==
    [][(objects \ objects') \cap Reachable(Protected(gc.now)) = {}]_vars

\* A collection that reports success has left nothing but what is protected,
\* expired pins included: a second one would find nothing.
SweepExact ==
    gc.step = "done" /\ ~gc.dry => objects = Reachable(Protected(gc.now))

\* The edge budget counts the files before it writes one, without a lock: agents
\* that race exceed it, but by no more than their number.
BudgetNearlyKept ==
    \A c \in Cands : Cardinality(edges[c]) <= MaxPerState + Cardinality(Procs) - 1

\* What the collector and the agents keep between them (gc.go Collect, spec.go, ephemeral.go):
\* roots whole, a finished collection exact, the budget exceeded by racing writers only.
RetentionInv == TypeOK /\ RootsIntact /\ SweepExact /\ BudgetNearlyKept
=============================================================================
