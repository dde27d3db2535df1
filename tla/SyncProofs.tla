----------------------------- MODULE SyncProofs -----------------------------
(* Machine-checked proofs about Sync, for any number of clients and any bounds
   on what is written, on the sessions and on the broken connections.        *)
EXTENDS Sync, SequenceTheorems, TLAPS

\* All that x leads to is at p.
WholeAt(p, x) == x = NoId \/ Closure(x) \subseteq objects[p]

\* The hub's branch is where the history says it has been.
HubRecorded == refs[Hub].head \in heads \cup {NoId}

\* The branch of a peer is whole there, and so is what a client has tracked; a note may not be:
\* notes.Add asks for the target only.
HeadsWhole ==
    /\ \A p \in Peers : WholeAt(p, refs[p].head)
    /\ \A c \in Clients : WholeAt(c, tracked[c])

\* What a session of c has established by the step it has reached.
Sound(c, s) ==
    /\ s.step \in {"recv", "record", "send", "ack"} => s.new \in Ids
    /\ s.step = "recv" /\ s.at = "head" => s.new \in heads
    /\ s.step = "record" => s.at = "head" /\ s.new \in heads /\ WholeAt(c, s.new)
    /\ s.step \in {"send", "ack"} /\ s.at = "head" => WholeAt(c, s.new)
    /\ s.step = "send" /\ s.at = "head" => WholeAt(c, s.old)
    /\ s.step = "send" /\ s.at # "head" => s.old = NoId \/ s.old \in Closure(s.new)
    /\ s.step = "ack" /\ s.at = "head" /\ s.ok => s.new \in heads

SessionsSound == \A c \in Clients : Sound(c, sess[c])

\* The inductive invariant.
IInv == TypeOK /\ TrackingHonest /\ HubRecorded /\ HeadsWhole /\ SessionsSound

-----------------------------------------------------------------------------
(* Objects and what they lead to.                                           *)

\* A set of objects that is closed in S.
ClosedIn(S, T) == \A z \in T \cap S : links[z] \subseteq T

\* What there are of objects, and what they may name.
LEMMA IdsAre ==
  ASSUME TypeOK
  PROVE  /\ Len(links) \in Nat /\ NoId \notin Ids /\ Ids \subseteq Nat
         /\ \A x \in Ids : links[x] \subseteq Ids
         /\ Target \in Ids /\ Nothing \notin Ids /\ NoId # Nothing
<1>1. Len(links) \in Nat /\ Len(links) >= 2 /\ Len(links) <= MaxObjs /\ MaxObjs \in Nat
  BY SyncAssumption DEF TypeOK
<1> QED
  BY <1>1 DEF TypeOK, Ids, NoId, Target, Nothing

\* A walk stays within every closed set that contains its start.
LEMMA WalkIsLeast ==
  ASSUME NEW S, NEW x, NEW T, T \subseteq Ids, x \in T, ClosedIn(S, T)
  PROVE  Walk(S, x) \subseteq T
BY DEF Walk, ClosedIn

\* What a walk has found is closed: it has followed every link it could.
LEMMA WalkIsClosed ==
  ASSUME TypeOK, NEW S, NEW x \in Ids
  PROVE  x \in Walk(S, x) /\ Walk(S, x) \subseteq Ids /\ ClosedIn(S, Walk(S, x))
<1>1. x \in Walk(S, x) /\ Walk(S, x) \subseteq Ids
  BY DEF Walk
<1>2. ASSUME NEW z \in Walk(S, x) \cap S, NEW y \in links[z] PROVE y \in Walk(S, x)
  <2>1. y \in Ids /\ z \in Ids
    BY <1>1, <1>2, IdsAre
  <2>2. ASSUME NEW T \in SUBSET Ids, x \in T, \A w \in T \cap S : links[w] \subseteq T
        PROVE  y \in T
    <3>1. z \in T
      BY <1>2, <2>2 DEF Walk
    <3> QED
      BY <1>2, <2>2, <3>1
  <2> QED
    BY <2>1, <2>2 DEF Walk
<1> QED
  BY <1>1, <1>2 DEF ClosedIn

\* What a peer can walk is part of the closure (Reaches).
LEMMA WalkInClosure ==
  ASSUME TypeOK, NEW S, NEW x \in Ids
  PROVE  Walk(S, x) \subseteq Closure(x)
<1>1. /\ x \in Closure(x) /\ Closure(x) \subseteq Ids /\ ClosedIn(Ids, Closure(x))
  BY WalkIsClosed DEF Closure
<1>2. ClosedIn(S, Closure(x))
  BY <1>1 DEF ClosedIn
<1> QED
  BY <1>1, <1>2, WalkIsLeast

\* A walk that found everything in the store found the closure (hasClosure).
LEMMA WholeIsWhole ==
  ASSUME TypeOK, NEW S, NEW x \in Ids, Whole(S, x)
  PROVE  Closure(x) \subseteq S
<1>1. x \in Walk(S, x) /\ Walk(S, x) \subseteq Ids /\ ClosedIn(S, Walk(S, x)) /\ Walk(S, x) \subseteq S
  BY WalkIsClosed DEF Whole
<1>2. ClosedIn(Ids, Walk(S, x))
  BY <1>1 DEF ClosedIn
<1>3. Walk(Ids, x) \subseteq Walk(S, x)
  BY <1>1, <1>2, WalkIsLeast
<1> QED
  BY <1>1, <1>3 DEF Closure

-----------------------------------------------------------------------------
(* What only grows.                                                         *)

Grew ==
    /\ Len(links) <= Len(links')
    /\ \A x \in Ids : links'[x] = links[x]
    /\ \A p \in Peers : objects[p] \subseteq objects'[p]
    /\ heads \subseteq heads'

\* An object leads to the same, whatever is written later.
LEMMA ClosureStays ==
  ASSUME TypeOK, TypeOK', Grew, NEW x \in Ids
  PROVE  x \in Ids' /\ Closure(x)' = Closure(x)
<1>1. /\ Ids \subseteq Ids' /\ \A z \in Ids : links[z] \subseteq Ids /\ links'[z] = links[z]
  <2>1. Len(links) \in Nat /\ Len(links') \in Nat /\ Len(links) <= Len(links')
    BY IdsAre DEF TypeOK, Grew
  <2> QED
    BY <2>1, IdsAre DEF Grew, Ids
<1>2. /\ x \in Closure(x) /\ Closure(x) \subseteq Ids
      /\ \A z \in Closure(x) : links[z] \subseteq Closure(x)
  BY WalkIsClosed DEF Closure, ClosedIn
<1>3. ASSUME NEW y \in Closure(x)' PROVE y \in Closure(x)
  <2>1. Closure(x) \in SUBSET (Ids') /\ \A z \in Closure(x) \cap Ids' : links'[z] \subseteq Closure(x)
    BY <1>1, <1>2
  <2>2. \A T \in SUBSET (Ids') : x \in T /\ (\A z \in T \cap Ids' : links'[z] \subseteq T) => y \in T
    BY <1>3 DEF Closure, Walk
  <2> QED
    BY <1>2, <2>1, <2>2
<1>4. ASSUME NEW y \in Closure(x) PROVE y \in Closure(x)'
  <2>1. ASSUME NEW T \in SUBSET (Ids'), x \in T, \A z \in T \cap Ids' : links'[z] \subseteq T
        PROVE  y \in T
    <3>1. T \cap Ids \in SUBSET Ids /\ x \in T \cap Ids
          /\ \A z \in (T \cap Ids) \cap Ids : links[z] \subseteq T \cap Ids
      BY <1>1, <2>1
    <3> QED
      BY <1>4, <3>1 DEF Closure, Walk
  <2>2. y \in Ids'
    BY <1>1, <1>2, <1>4
  <2> QED
    BY <2>1, <2>2 DEF Closure, Walk
<1> QED
  BY <1>1, <1>3, <1>4

\* What was whole at a peer stays whole there.
LEMMA WholeStays ==
  ASSUME TypeOK, TypeOK', Grew, NEW p \in Peers, NEW x \in Ids \cup {NoId}, WholeAt(p, x)
  PROVE  WholeAt(p, x)'
BY ClosureStays DEF WholeAt, Grew

\* A session that makes no step keeps what it has established.
LEMMA SoundStays ==
  ASSUME TypeOK, TypeOK', Grew, NEW c \in Clients, NEW s \in Sessions, Sound(c, s)
  PROVE  Sound(c, s)' /\ (s \in Sessions)'
<1>1. s.old \in Ids \cup {NoId} /\ s.new \in Ids \cup {NoId} /\ c \in Peers
  BY DEF Sessions, Peers
<1>2. Ids \subseteq Ids' /\ heads \subseteq heads'
  BY ClosureStays DEF Grew
<1>3. (s \in Sessions)'
  BY <1>2 DEF Sessions
<1>4. \A x \in Ids \cup {NoId} : WholeAt(c, x) => WholeAt(c, x)'
  BY <1>1, WholeStays
<1>5. ASSUME s.step = "send", s.at # "head" PROVE s.old = NoId \/ s.old \in Closure(s.new)'
  <2>1. s.new \in Ids
    BY <1>5 DEF Sound
  <2>2. Closure(s.new)' = Closure(s.new)
    BY <2>1, ClosureStays
  <2> QED
    BY <1>5, <2>2 DEF Sound
<1> QED
  BY <1>1, <1>2, <1>3, <1>4, <1>5 DEF Sound

-----------------------------------------------------------------------------
(* What the actions are made of.                                            *)

\* Storing an object at p adds one to what there is, and p has it.
LEMMA Stored ==
  ASSUME TypeOK, NEW p \in Peers, NEW ls \in SUBSET Ids, Store(p, ls)
  PROVE  /\ Len(links') = Len(links) + 1 /\ Ids \subseteq Ids' /\ Len(links) + 1 \in Ids'
         /\ links' \in Seq(SUBSET (1 .. MaxObjs)) /\ Len(links') \in 2 .. MaxObjs
         /\ \A x \in Ids : links'[x] = links[x]
         /\ links'[Len(links) + 1] = ls
         /\ \A x \in Ids' : links'[x] \subseteq 1 .. x - 1
         /\ objects' \in [Peers -> SUBSET (Ids')]
         /\ objects'[p] = objects[p] \cup {Len(links) + 1}
         /\ \A q \in Peers : objects[q] \subseteq objects'[q]
<1>1. /\ Len(links) \in Nat /\ Len(links) >= 2 /\ Len(links) < MaxObjs /\ MaxObjs \in Nat
      /\ links \in Seq(SUBSET (1 .. MaxObjs))
  BY SyncAssumption DEF TypeOK, Store
<1>2. ls \in SUBSET (1 .. MaxObjs)
  BY <1>1 DEF Ids
<1>3. /\ links' \in Seq(SUBSET (1 .. MaxObjs)) /\ Len(links') = Len(links) + 1
      /\ \A x \in 1 .. Len(links) : links'[x] = links[x]
      /\ links'[Len(links) + 1] = ls
  BY <1>1, <1>2, AppendProperties DEF Store
<1>4. Ids \subseteq Ids' /\ Len(links) + 1 \in Ids'
      /\ \A x \in Ids' : x \in Ids \/ x = Len(links) + 1
  BY <1>1, <1>3 DEF Ids
<1>5. \A x \in Ids' : links'[x] \subseteq 1 .. x - 1
  <2>1. \A x \in Ids : links'[x] \subseteq 1 .. x - 1
    BY <1>3 DEF TypeOK, Ids
  <2>2. ls \subseteq 1 .. (Len(links) + 1) - 1
    BY <1>1 DEF Ids
  <2> QED
    BY <1>3, <1>4, <2>1, <2>2
<1>6. objects \in [Peers -> SUBSET Ids]
      /\ objects' = [objects EXCEPT ![p] = objects[p] \cup {Len(links) + 1}]
  BY DEF TypeOK, Store
<1>7. objects \in [Peers -> SUBSET (Ids')]
  BY <1>4, <1>6
<1>8. /\ objects' \in [Peers -> SUBSET (Ids')]
      /\ objects'[p] = objects[p] \cup {Len(links) + 1}
      /\ \A q \in Peers : objects[q] \subseteq objects'[q]
  BY <1>4, <1>6, <1>7
<1> QED
  BY <1>1, <1>3, <1>4, <1>5, <1>8 DEF Ids

\* An object just stored leads to what its links lead to.
LEMMA ClosureOfNew ==
  ASSUME TypeOK, NEW p \in Peers, NEW ls \in SUBSET Ids, Store(p, ls), NEW x, x = Len(links) + 1
  PROVE  Closure(x)' \subseteq {x} \cup UNION {Closure(y) : y \in ls}
<1> DEFINE T == {x} \cup UNION {Closure(y) : y \in ls}
<1>1. \A y \in ls : Closure(y) \subseteq Ids /\ ClosedIn(Ids, Closure(y)) /\ y \in Closure(y)
  BY WalkIsClosed DEF Closure
<1>2. /\ Ids \subseteq Ids' /\ x \in Ids' /\ links'[x] = ls
      /\ \A z \in Ids : links'[z] = links[z]
  BY Stored
<1>3. T \in SUBSET (Ids') /\ x \in T
  BY <1>1, <1>2
<1>4. ASSUME NEW z \in T PROVE links'[z] \subseteq T
  <2>1. CASE z = x
    BY <1>1, <1>2, <2>1
  <2>2. CASE z # x
    <3>1. PICK y \in ls : z \in Closure(y)
      BY <1>4, <2>2
    <3>2. links'[z] \subseteq Closure(y)
      BY <1>1, <1>2, <3>1 DEF ClosedIn
    <3> QED
      BY <3>1, <3>2
  <2> QED
    BY <2>1, <2>2
<1>5. ASSUME NEW y \in Closure(x)' PROVE y \in T
  <2>1. \A U \in SUBSET (Ids') : x \in U /\ (\A z \in U \cap Ids' : links'[z] \subseteq U) => y \in U
    BY <1>5 DEF Closure, Walk
  <2> HIDE DEF T
  <2> QED
    BY <1>3, <1>4, <2>1
<1> QED
  BY <1>5

\* A ref that is set has the value it is set to, and the others keep theirs.
LEMMA RefSet ==
  ASSUME NEW S, refs \in [Peers -> [Names -> S]], NEW p \in Peers, NEW n \in Names, NEW x \in S,
         SetRef(p, n, x)
  PROVE  /\ refs' \in [Peers -> [Names -> S]]
         /\ refs'[p][n] = x
         /\ \A q \in Peers, m \in Names : <<q, m>> # <<p, n>> => refs'[q][m] = refs[q][m]
<1>1. refs[p] \in [Names -> S] /\ refs' = [refs EXCEPT ![p] = [refs[p] EXCEPT ![n] = x]]
  BY DEF SetRef
<1>2. [refs[p] EXCEPT ![n] = x] \in [Names -> S]
  BY <1>1
<1> QED
  BY <1>1, <1>2

\* A session of c is replaced by one that has established what it should have.
Turned(c) == \E l \in Sessions : sess' = [sess EXCEPT ![c] = l] /\ Sound(c, l)'

\* Where a session ends, or goes on to the next namespace.
LEMMA Rests ==
  ASSUME TypeOK, NEW c \in Clients
  PROVE  /\ Set(c, NoSession) => Turned(c)
         /\ Advance(c) => Turned(c)
         /\ Fail(c) => Turned(c)
<1>1. NoSession \in Sessions /\ NoSession.step = "idle"
  BY DEF NoSession, Sessions, Names
<1>2. Set(c, NoSession) => Turned(c)
  BY <1>1 DEF Turned, Set, Sound
<1>3. sess[c].dir \in {"none", "clone", "fetch", "push"}
  <2>1. sess[c] \in Sessions
    BY DEF TypeOK
  <2> QED
    BY <2>1 DEF Sessions
<1>4. Advance(c) => Turned(c)
  <2> DEFINE go(n) == [NoSession EXCEPT !.dir = sess[c].dir, !.at = n, !.step = "list"]
  <2>1. \A n \in Names : go(n) \in Sessions /\ go(n).step = "list"
    BY <1>3 DEF NoSession, Sessions, Names
  <2>2. Advance(c) => Set(c, NoSession) \/ Set(c, go("note")) \/ Set(c, go("lease"))
    BY DEF Advance
  <2>3. \A n \in Names : Set(c, go(n)) => Turned(c)
    <3> HIDE DEF go
    <3> QED
      BY <2>1 DEF Turned, Set, Sound
  <2> QED
    BY <1>2, <2>2, <2>3 DEF Names
<1> QED
  BY <1>2, <1>4 DEF Fail

\* Without a new object, what there is leads where it led.
LEMMA SameClosures ==
  ASSUME links' = links
  PROVE  Ids' = Ids /\ Sessions' = Sessions /\ \A x : Closure(x)' = Closure(x)
BY DEF Ids, Sessions, Closure, Walk

\* What a session holds, and what it may read, is of the declared kinds.
LEMMA Kinds ==
  ASSUME TypeOK, NEW c \in Clients
  PROVE  /\ sess[c] \in Sessions /\ sess[c].at \in Names
         /\ sess[c].old \in Ids \cup {NoId} /\ sess[c].new \in Ids \cup {NoId}
         /\ sess[c].done \subseteq Ids /\ sess[c].work \subseteq Ids
         /\ \A p \in Peers, n \in Names : refs[p][n] \in Ids \cup {NoId}
         /\ tracked[c] \in Ids \cup {NoId}
         /\ Have(c) \in Ids \cup {NoId}
         /\ \A S, x : Marked(S, x) \subseteq Ids
         /\ c \in Peers /\ Hub \in Peers /\ Hub # c /\ "head" \in Names
<1>1. sess[c] \in Sessions /\ tracked[c] \in Ids \cup {NoId}
  BY DEF TypeOK
<1>2. \A p \in Peers, n \in Names : refs[p][n] \in Ids \cup {NoId}
  BY DEF TypeOK
<1>3. /\ sess[c].at \in Names
      /\ sess[c].old \in Ids \cup {NoId} /\ sess[c].new \in Ids \cup {NoId}
      /\ sess[c].done \subseteq Ids /\ sess[c].work \subseteq Ids
  BY <1>1 DEF Sessions
<1>4. c \in Peers /\ Hub \in Peers /\ Hub # c /\ "head" \in Names
  BY SyncAssumption DEF Peers, Names
<1>5. Have(c) \in Ids \cup {NoId}
  BY <1>1, <1>2, <1>3, <1>4 DEF Have
<1>6. \A S, x : Marked(S, x) \subseteq Ids
  BY DEF Marked, Walk
<1> QED
  BY <1>1, <1>2, <1>3, <1>4, <1>5, <1>6

\* A transfer that begins is a session.
LEMMA Begun ==
  ASSUME TypeOK, NEW s \in Sessions, NEW old \in Ids \cup {NoId}, NEW new \in Ids \cup {NoId},
         NEW done \in SUBSET Ids, NEW work \in SUBSET Ids, NEW step \in {"recv", "send"}
  PROVE  [s EXCEPT !.step = step, !.old = old, !.new = new, !.done = done, !.work = work] \in Sessions
BY DEF Sessions

\* One that goes on is a session.
LEMMA Continued ==
  ASSUME TypeOK, NEW s \in Sessions, NEW done \in SUBSET Ids, NEW work \in SUBSET Ids
  PROVE  [s EXCEPT !.done = done, !.work = work] \in Sessions
BY DEF Sessions

\* One that is answered is a session.
LEMMA Answered ==
  ASSUME TypeOK, NEW s \in Sessions, NEW ok \in BOOLEAN
  PROVE  [s EXCEPT !.step = "ack", !.ok = ok] \in Sessions
BY DEF Sessions

-----------------------------------------------------------------------------
(* What each step of a session establishes.                                 *)

\* What was whole is whole after a step that loses nothing and stores nothing new.
LEMMA WholeKept ==
  ASSUME links' = links, NEW p, NEW x, WholeAt(p, x), objects[p] \subseteq objects'[p]
  PROVE  WholeAt(p, x)'
BY SameClosures DEF WholeAt

\* A session that has what it should still has it when it is put in place.
LEMMA Turns ==
  ASSUME links' = links, heads \subseteq heads', NEW c, objects[c] \subseteq objects'[c],
         NEW l \in Sessions, Sound(c, l), sess' = [sess EXCEPT ![c] = l]
  PROVE  Turned(c)
<1>1. \A x : WholeAt(c, x) => WholeAt(c, x)'
  BY WholeKept
<1>2. Sound(c, l)'
  BY <1>1, SameClosures DEF Sound
<1> QED
  BY <1>2 DEF Turned

\* The tip a client asks for is one the hub's branch has had.
LEMMA GetObjectsTurns ==
  ASSUME IInv, NEW c \in Clients, GetObjects(c)
  PROVE  Turned(c)
<1> DEFINE s == sess[c]
           tip == refs[Hub][s.at]
           done == Marked(objects[Hub], Have(c))
           work == {tip} \ done
           l == [s EXCEPT !.step = "recv", !.old = Have(c), !.new = tip, !.done = done, !.work = work]
<1>1. tip = NoId => Turned(c)
  BY Rests DEF GetObjects, IInv
<1>2. ASSUME tip # NoId PROVE Turned(c)
  <2>1. /\ s \in Sessions /\ Have(c) \in Ids \cup {NoId} /\ tip \in Ids \cup {NoId}
        /\ done \in SUBSET Ids /\ tip \in Ids
    BY <1>2, Kinds DEF IInv
  <2>2. work \in SUBSET Ids
    BY <2>1
  <2>3. l \in Sessions
    <3> HIDE DEF s, tip, done, work
    <3> QED
      BY <2>1, <2>2, Begun DEF IInv
  <2>4. l.step = "recv" /\ l.new = tip /\ l.at = s.at
    BY <2>1 DEF Sessions
  <2>5. s.at = "head" => tip \in heads
    BY <1>2 DEF IInv, HubRecorded
  <2>6. links' = links /\ heads' = heads /\ sess' = [sess EXCEPT ![c] = l]
    BY <1>2 DEF GetObjects, Set
  <2>7. Sound(c, l)
    <3> HIDE DEF l, tip, s
    <3> QED
      BY <2>1, <2>4, <2>5, <2>6 DEF Sound
  <2>8. objects' = objects
    BY DEF GetObjects
  <2> HIDE DEF l
  <2> QED
    BY <2>3, <2>6, <2>7, <2>8, Turns
<1> QED
  BY <1>1, <1>2

\* Objects arrive one by one; what the session is about stays.
LEMMA RecvObjectTurns ==
  ASSUME IInv, NEW c \in Clients, RecvObject(c)
  PROVE  Turned(c)
<1> DEFINE s == sess[c]
           done(x) == s.done \cup {x}
           work(x) == (s.work \cup links[x]) \ (s.done \cup {x})
           l(x) == [s EXCEPT !.done = done(x), !.work = work(x)]
<1>1. PICK x \in s.work :
         \/ sess' = [sess EXCEPT ![c] = l(x)]
         \/ Set(c, NoSession)
  BY DEF RecvObject, Set
<1>2. ASSUME sess' = [sess EXCEPT ![c] = l(x)] PROVE Turned(c)
  <2>1. s \in Sessions /\ x \in Ids /\ links[x] \subseteq Ids
        /\ s.done \subseteq Ids /\ s.work \subseteq Ids
    BY <1>1, Kinds, IdsAre DEF IInv
  <2>2. done(x) \in SUBSET Ids /\ work(x) \in SUBSET Ids
    BY <2>1
  <2>3. l(x) \in Sessions
    <3> HIDE DEF s, done, work
    <3> QED
      BY <2>1, <2>2, Continued DEF IInv
  <2>4. l(x).step = "recv" /\ l(x).new = s.new /\ l(x).at = s.at /\ s.step = "recv"
    BY <2>1 DEF Sessions, RecvObject, At
  <2>5. links' = links /\ heads' = heads
    BY DEF RecvObject
  <2>6. Sound(c, s)
    BY DEF IInv, SessionsSound
  <2>7. Sound(c, l(x))
    <3> HIDE DEF l, s
    <3> QED
      BY <2>4, <2>6 DEF Sound
  <2>8. objects[c] \subseteq objects'[c]
    BY Kinds DEF RecvObject, IInv, TypeOK
  <2> HIDE DEF l
  <2> QED
    BY <1>2, <2>3, <2>5, <2>7, <2>8, Turns
<1> QED
  BY <1>1, <1>2, Rests DEF IInv

\* A clone goes on to record a tip that is whole.
LEMMA ReceivedTurns ==
  ASSUME IInv, NEW c \in Clients, Received(c)
  PROVE  Turned(c)
<1> DEFINE s == sess[c]
           l == [s EXCEPT !.step = "record"]
<1>1. CASE Fail(c) \/ Advance(c)
  BY <1>1, Rests DEF IInv
<1>2. CASE ~(Fail(c) \/ Advance(c))
  <2>1. /\ s.step = "recv" /\ Whole(objects[c], s.new) /\ s.at = "head"
        /\ Set(c, l) /\ links' = links /\ heads' = heads /\ objects' = objects
    BY <1>2 DEF Received, At
  <2>2. s \in Sessions /\ Sound(c, s)
    BY Kinds DEF IInv, SessionsSound
  <2>3. s.new \in Ids /\ s.new \in heads
    BY <2>1, <2>2 DEF Sound
  <2>4. WholeAt(c, s.new)
    BY <2>1, <2>3, WholeIsWhole DEF WholeAt, IInv
  <2>5. l \in Sessions /\ l.step = "record" /\ l.new = s.new /\ l.at = "head"
    BY <2>1, <2>2 DEF Sessions
  <2>6. Sound(c, l)
    <3> HIDE DEF l, s
    <3> QED
      BY <2>3, <2>4, <2>5 DEF Sound
  <2>7. sess' = [sess EXCEPT ![c] = l]
    BY <2>1 DEF Set
  <2> HIDE DEF l
  <2> QED
    BY <2>1, <2>5, <2>6, <2>7, Turns
<1> QED
  BY <1>1, <1>2

\* A push begins.
LEMMA BeginTurns ==
  ASSUME TypeOK, NEW c \in Clients, NEW old \in Ids \cup {NoId}, NEW new \in Ids,
         links' = links, objects' = objects, heads' = heads,
         Begin(c, sess[c], old, new),
         sess[c].at = "head" => WholeAt(c, new) /\ WholeAt(c, old),
         sess[c].at # "head" => old = NoId \/ old \in Closure(new)
  PROVE  Turned(c)
<1> DEFINE s == sess[c]
           done == Marked(objects[c], old)
           work == {new} \ done
           l == [s EXCEPT !.step = "send", !.old = old, !.new = new, !.done = done, !.work = work]
<1>1. s \in Sessions /\ done \in SUBSET Ids /\ work \in SUBSET Ids
  BY Kinds
<1>2. l \in Sessions
  <2> HIDE DEF s, done, work
  <2> QED
    BY <1>1, Begun
<1>3. l.step = "send" /\ l.new = new /\ l.old = old /\ l.at = s.at
  BY <1>1 DEF Sessions
<1>4. Sound(c, l)
  <2> HIDE DEF l
  <2> QED
    BY <1>3 DEF Sound
<1>5. sess' = [sess EXCEPT ![c] = l]
  BY DEF Begin, Set
<1> HIDE DEF l
<1> QED
  BY <1>2, <1>4, <1>5, Turns

\* What a head's push sends, and what it would replace, is whole at the client.
LEMMA ReadHeadTurns ==
  ASSUME IInv, NEW c \in Clients, ReadHead(c)
  PROVE  Turned(c)
<1>1. CASE refs[c].head = NoId
  BY <1>1, Rests DEF ReadHead, IInv
<1>2. CASE refs[c].head # NoId
  <2>1. refs[c].head \in Ids /\ tracked[c] \in Ids \cup {NoId} /\ c \in Peers
    BY <1>2, Kinds DEF IInv
  <2>2. WholeAt(c, refs[c].head) /\ WholeAt(c, tracked[c])
    BY <2>1 DEF IInv, HeadsWhole
  <2>3. /\ sess[c].at = "head" /\ Begin(c, sess[c], tracked[c], refs[c].head)
        /\ links' = links /\ objects' = objects /\ heads' = heads
    BY <1>2 DEF ReadHead
  <2> QED
    BY <2>1, <2>2, <2>3, BeginTurns DEF IInv
<1> QED
  BY <1>1, <1>2

\* What another ref's push sends leads to what it would replace.
LEMMA ReadRefTurns ==
  ASSUME IInv, NEW c \in Clients, ReadRef(c)
  PROVE  Turned(c)
<1> DEFINE ours == refs[c][sess[c].at]
           theirs == refs[Hub][sess[c].at]
<1>1. CASE Advance(c) \/ Fail(c)
  BY <1>1, Rests DEF IInv
<1>2. CASE ~(Advance(c) \/ Fail(c))
  <2>1. /\ ours # NoId /\ Supersedes(objects[c], theirs, ours)
        /\ Begin(c, sess[c], theirs, ours) /\ sess[c].at # "head"
        /\ links' = links /\ objects' = objects /\ heads' = heads
    BY <1>2 DEF ReadRef
  <2>2. ours \in Ids /\ theirs \in Ids \cup {NoId}
    BY <2>1, Kinds DEF IInv
  <2>3. theirs = NoId \/ theirs \in Closure(ours)
    BY <2>1, <2>2, WalkInClosure DEF Supersedes, Reaches, IInv
  <2> QED
    BY <2>1, <2>2, <2>3, BeginTurns DEF IInv
<1> QED
  BY <1>1, <1>2

\* Objects leave one by one; the client loses none.
LEMMA SendObjectTurns ==
  ASSUME IInv, NEW c \in Clients, SendObject(c)
  PROVE  Turned(c)
<1> DEFINE s == sess[c]
           done(x) == s.done \cup {x}
           work(x) == (s.work \cup links[x]) \ (s.done \cup {x})
           l(x) == [s EXCEPT !.done = done(x), !.work = work(x)]
<1>1. PICK x \in s.work :
         \/ /\ objects' = [objects EXCEPT ![Hub] = @ \cup {x}]
            /\ sess' = [sess EXCEPT ![c] = l(x)]
         \/ Fail(c)
  BY DEF SendObject, Set
<1>2. ASSUME objects' = [objects EXCEPT ![Hub] = @ \cup {x}], sess' = [sess EXCEPT ![c] = l(x)]
      PROVE  Turned(c)
  <2>1. s \in Sessions /\ x \in Ids /\ links[x] \subseteq Ids
        /\ s.done \subseteq Ids /\ s.work \subseteq Ids
    BY <1>1, Kinds, IdsAre DEF IInv
  <2>2. done(x) \in SUBSET Ids /\ work(x) \in SUBSET Ids
    BY <2>1
  <2>3. l(x) \in Sessions
    <3> HIDE DEF s, done, work
    <3> QED
      BY <2>1, <2>2, Continued DEF IInv
  <2>4. l(x).step = "send" /\ l(x).new = s.new /\ l(x).old = s.old /\ l(x).at = s.at
        /\ s.step = "send"
    BY <2>1 DEF Sessions, SendObject, At
  <2>5. links' = links /\ heads' = heads
    BY DEF SendObject
  <2>6. Sound(c, s)
    BY DEF IInv, SessionsSound
  <2>7. objects[c] \subseteq objects'[c]
    BY <1>2, Kinds DEF IInv, TypeOK
  <2>8. Sound(c, l(x))
    <3> HIDE DEF l, s
    <3> QED
      BY <2>4, <2>6 DEF Sound
  <2> HIDE DEF l
  <2> QED
    BY <1>2, <2>3, <2>5, <2>7, <2>8, Turns
<1> QED
  BY <1>1, <1>2, Rests DEF IInv

\* A push that the hub takes puts its value among those the hub's branch has had.
LEMMA ServePushTurns ==
  ASSUME IInv, NEW c \in Clients, NEW allowed \in BOOLEAN, ServePush(c, allowed)
  PROVE  Turned(c)
<1> DEFINE s == sess[c]
           ok == Whole(objects[Hub], s.new) /\ allowed /\ refs[Hub][s.at] = s.old
           l == [s EXCEPT !.step = "ack", !.ok = ok]
<1>1. s \in Sessions /\ Sound(c, s) /\ s.step = "send" /\ ok \in BOOLEAN
  BY Kinds DEF IInv, SessionsSound, ServePush, At
<1>2. l \in Sessions
  <2> HIDE DEF s, ok
  <2> QED
    BY <1>1, Answered DEF IInv
<1>3. l.step = "ack" /\ l.new = s.new /\ l.at = s.at
  BY <1>1 DEF Sessions
<1>4. l.ok <=> ok
  <2> HIDE DEF ok
  <2>1. s \in Sessions
    BY <1>1
  <2> HIDE DEF s
  <2>2. l.ok = ok
    BY <2>1 DEF Sessions
  <2> QED
    BY <2>2
<1>5. links' = links /\ objects' = objects /\ (ok /\ s.at = "head" => s.new \in heads')
  BY DEF ServePush
<1>6. sess' = [sess EXCEPT ![c] = l]
  BY DEF ServePush, Set
<1>7. PICK k : k = l
  OBVIOUS
<1>8. /\ k.step = "ack" /\ k.new \in Ids
      /\ k.at = "head" => WholeAt(c, k.new)
      /\ k.at = "head" /\ k.ok => k.new \in heads'
  <2> HIDE DEF l, s, ok
  <2> QED
    BY <1>1, <1>3, <1>4, <1>5, <1>7 DEF Sound
<1>9. k.at = "head" => WholeAt(c, k.new)'
  BY <1>5, <1>8, WholeKept
<1>10. Sound(c, k)'
  BY <1>5, <1>8, <1>9, SameClosures DEF Sound
<1> HIDE DEF l
<1> QED
  BY <1>2, <1>6, <1>7, <1>10 DEF Turned

\* The steps of a session.
Session(c) == Step(c) \/ Drop(c) \/ \E dir \in {"clone", "fetch", "push"} : Dial(c, dir)

\* Every step of a session leaves one that has established what it should have.
LEMMA SessionTurns ==
  ASSUME IInv, NEW c \in Clients, Session(c)
  PROVE  Turned(c)
<1>1. ASSUME RecordTip(c) \/ ReadReply(c) \/ Drop(c) PROVE Turned(c)
  BY <1>1, Rests DEF RecordTip, ReadReply, Drop, IInv
<1>2. ASSUME NEW dir \in {"clone", "fetch", "push"}, Dial(c, dir) PROVE Turned(c)
  <2> DEFINE l == [NoSession EXCEPT !.dir = dir, !.step = "list"]
  <2>1. l \in Sessions /\ l.step = "list"
    BY DEF NoSession, Sessions, Names
  <2>2. Sound(c, l)
    <3> HIDE DEF l
    <3> QED
      BY <2>1 DEF Sound
  <2>3. links' = links /\ objects' = objects /\ heads' = heads /\ sess' = [sess EXCEPT ![c] = l]
    BY <1>2 DEF Dial, Set
  <2> HIDE DEF l
  <2> QED
    BY <2>1, <2>2, <2>3, Turns
<1> QED
  BY <1>1, <1>2, GetObjectsTurns, RecvObjectTurns, ReceivedTurns, ReadHeadTurns, ReadRefTurns,
     SendObjectTurns, ServePushTurns DEF Session, Step

-----------------------------------------------------------------------------
(* The invariant is inductive.                                              *)

\* No step of a session makes an object or loses one, and the refs keep their kinds.
LEMMA SessionKeepsKinds ==
  ASSUME IInv, NEW c \in Clients, Session(c)
  PROVE  /\ links' = links /\ Grew
         /\ TypeOK'
<1>1. /\ objects \in [Peers -> SUBSET Ids] /\ refs \in [Peers -> [Names -> Ids \cup {NoId}]]
      /\ tracked \in [Clients -> Ids \cup {NoId}] /\ heads \subseteq Ids
      /\ dials \in 0 .. MaxSessions /\ drops \in 0 .. MaxDrops
      /\ Len(links) \in Nat /\ MaxSessions \in Nat /\ MaxDrops \in Nat
      /\ sess[c].work \subseteq Ids /\ sess[c].at \in Names /\ c \in Peers /\ Hub \in Peers
      /\ "head" \in Names /\ sess[c].new \in Ids \cup {NoId}
  BY IdsAre, Kinds, SyncAssumption DEF IInv, TypeOK
<1>2. links' = links /\ adding' = adding
  BY DEF Session, Step, Drop, Dial, GetObjects, RecvObject, Received, RecordTip, ReadHead, ReadRef,
         SendObject, ReadReply, ServePush
<1>3. /\ objects' \in [Peers -> SUBSET Ids]
      /\ \A p \in Peers : objects[p] \subseteq objects'[p]
  <2>1. \/ objects' = objects
        \/ \E p \in {c, Hub}, x \in sess[c].work : objects' = [objects EXCEPT ![p] = @ \cup {x}]
    BY DEF Session, Step, Drop, Dial, GetObjects, RecvObject, Received, RecordTip, ReadHead, ReadRef,
           SendObject, ReadReply, ServePush
  <2> QED
    BY <1>1, <2>1
<1>4. refs' \in [Peers -> [Names -> Ids \cup {NoId}]]
  <2>1. \/ refs' = refs
        \/ \E p \in {c, Hub}, n \in {"head", sess[c].at} : SetRef(p, n, sess[c].new)
    BY DEF Session, Step, Drop, Dial, GetObjects, RecvObject, Received, RecordTip, ReadHead, ReadRef,
           SendObject, ReadReply, ServePush
  <2>2. ASSUME NEW p \in {c, Hub}, NEW n \in {"head", sess[c].at}, SetRef(p, n, sess[c].new)
        PROVE  refs' \in [Peers -> [Names -> Ids \cup {NoId}]]
    <3>1. p \in Peers /\ n \in Names
      BY <1>1
    <3> DEFINE S == Ids \cup {NoId}
    <3>2. refs \in [Peers -> [Names -> S]] /\ sess[c].new \in S
      BY <1>1
    <3> HIDE DEF S
    <3>3. refs' \in [Peers -> [Names -> S]]
      BY <2>2, <3>1, <3>2, RefSet
    <3> QED
      BY <3>3 DEF S
  <2> QED
    BY <1>1, <2>1, <2>2
<1>5. tracked' \in [Clients -> Ids \cup {NoId}]
  <2>1. tracked' = tracked \/ tracked' = [tracked EXCEPT ![c] = sess[c].new]
    BY DEF Session, Step, Drop, Dial, GetObjects, RecvObject, Received, RecordTip, ReadHead, ReadRef,
           SendObject, ReadReply, ServePush
  <2> QED
    BY <1>1, <2>1
<1>6. heads' \subseteq Ids /\ heads \subseteq heads'
  <2>1. heads' = heads \/ (heads' = heads \cup {sess[c].new} /\ At(c, "send"))
    BY DEF Session, Step, Drop, Dial, GetObjects, RecvObject, Received, RecordTip, ReadHead, ReadRef,
           SendObject, ReadReply, ServePush
  <2>2. At(c, "send") => sess[c].new \in Ids
    BY DEF IInv, SessionsSound, Sound, At
  <2> QED
    BY <1>1, <2>1, <2>2
<1>7. dials' \in 0 .. MaxSessions /\ drops' \in 0 .. MaxDrops
  <2>1. /\ dials' = dials \/ (dials < MaxSessions /\ dials' = dials + 1)
        /\ drops' = drops \/ (drops < MaxDrops /\ drops' = drops + 1)
    BY DEF Session, Step, Drop, Dial, GetObjects, RecvObject, Received, RecordTip, ReadHead, ReadRef,
           SendObject, ReadReply, ServePush
  <2> QED
    BY <1>1, <2>1
<1>8. sess' \in [Clients -> Sessions]
  <2>1. sess \in [Clients -> Sessions]
    BY DEF IInv, TypeOK
  <2> QED
    BY <2>1, SessionTurns DEF Turned
<1>9. Grew
  BY <1>1, <1>2, <1>3, <1>6 DEF Grew
<1>10. TypeOK'
  <2>1. Ids' = Ids /\ Sessions' = Sessions
    BY <1>2, SameClosures
  <2> QED
    BY <1>2, <1>3, <1>4, <1>5, <1>6, <1>7, <1>8, <2>1 DEF IInv, TypeOK
<1> QED
  BY <1>2, <1>9, <1>10

\* What people write: the objects each stores name what there is.
LEMMA WriteStores ==
  ASSUME TypeOK, NEW p \in Peers, Write(p)
  PROVE  \/ /\ NoteRead(p)
         \/ \E ls \in SUBSET Ids : Store(p, ls)
<1>1. /\ \A n \in Names : refs[p][n] \in Ids \cup {NoId}
      /\ adding[p] \in Ids \cup {NoId, Nothing}
      /\ p \in Clients => tracked[p] \in Ids \cup {NoId}
      /\ Target \in Ids
  BY IdsAre DEF TypeOK
<1>2. refs[p].head \in Ids \cup {NoId} /\ refs[p].lease \in Ids \cup {NoId}
  BY <1>1 DEF Names
<1>3. {refs[p].head} \ {NoId} \in SUBSET Ids
  BY <1>2
<1>4. p \in Clients /\ Merge(p) => \E ls \in SUBSET Ids : Store(p, ls)
  <2>1. ASSUME p \in Clients, Merge(p) PROVE {refs[p].head, tracked[p]} \in SUBSET Ids
    BY <1>1, <1>2, <2>1 DEF Merge
  <2> QED
    BY <2>1 DEF Merge
<1>5. NoteWrite(p) => \E ls \in SUBSET Ids : Store(p, ls)
  <2>1. ASSUME NoteWrite(p) PROVE {Target, adding[p]} \ {NoId} \in SUBSET Ids
    BY <1>1, <2>1 DEF NoteWrite
  <2> QED
    BY <2>1 DEF NoteWrite
<1>6. Revise(p) => \E ls \in SUBSET Ids : Store(p, ls)
  <2>1. ASSUME Revise(p) PROVE {refs[p].lease} \in SUBSET Ids
    BY <1>2, <2>1 DEF Revise
  <2> QED
    BY <2>1 DEF Revise
<1>7. UpdateRef(p) => \E ls \in SUBSET Ids : Store(p, ls)
  BY DEF UpdateRef
<1>8. Commit(p) => \E ls \in SUBSET Ids : Store(p, ls)
  BY <1>3 DEF Commit
<1> QED
  BY <1>4, <1>5, <1>6, <1>7, <1>8 DEF Write

\* People write objects and refs, not sessions.
LEMMA WriteKeepsKinds ==
  ASSUME TypeOK, NEW p \in Peers, Write(p)
  PROVE  /\ tracked' = tracked /\ sess' = sess /\ Grew
         /\ TypeOK'
<1>1. /\ tracked' = tracked /\ sess' = sess /\ dials' = dials /\ drops' = drops
      /\ heads' = heads \/ Move(p)
  BY DEF Write, Commit, Merge, Move, NoteRead, NoteWrite, UpdateRef, Revise
<1>2. CASE NoteRead(p)
  <2>1. /\ links' = links /\ objects' = objects /\ refs' = refs /\ heads' = heads
        /\ adding' = [adding EXCEPT ![p] = refs[p].note]
    BY <1>2 DEF NoteRead
  <2>2. refs[p].note \in Ids \cup {NoId} /\ adding \in [Peers -> Ids \cup {NoId, Nothing}]
    BY DEF TypeOK, Names
  <2>3. adding' \in [Peers -> Ids \cup {NoId, Nothing}]
    BY <2>1, <2>2
  <2>4. Ids' = Ids /\ Sessions' = Sessions /\ Nothing' = Nothing
    BY <2>1, SameClosures DEF Nothing
  <2>5. TypeOK'
    BY <1>1, <2>1, <2>3, <2>4 DEF TypeOK
  <2>6. Grew
    BY <2>1, IdsAre DEF Grew
  <2> QED
    BY <1>1, <2>5, <2>6
<1>3. CASE \E ls \in SUBSET Ids : Store(p, ls)
  <2>1. PICK ls \in SUBSET Ids : Store(p, ls)
    BY <1>3
  <2> DEFINE new == Len(links) + 1
             S == Ids' \cup {NoId}
  <2>2. Ids \subseteq Ids' /\ new \in Ids'
    BY <2>1, Stored
  <2>3. heads' \subseteq Ids' /\ heads \subseteq heads'
    <3>1. heads \subseteq Ids
      BY DEF TypeOK
    <3>2. heads' = heads \/ heads' = heads \cup {new}
      BY <1>1 DEF Move
    <3> HIDE DEF new
    <3> QED
      BY <2>2, <3>1, <3>2
  <2>4. refs' \in [Peers -> [Names -> S]]
    <3>1. refs' = refs \/ \E n \in Names : SetRef(p, n, new)
      BY DEF Write, Commit, Merge, Move, NoteRead, NoteWrite, UpdateRef, Revise, Names
    <3>2. refs \in [Peers -> [Names -> S]] /\ new \in S
      BY <2>2 DEF TypeOK
    <3> HIDE DEF S, new
    <3> QED
      BY <3>1, <3>2, RefSet
  <2>5. adding' \in [Peers -> S \cup {Nothing}]
    <3>1. adding \in [Peers -> S \cup {Nothing}]
      BY <2>2 DEF TypeOK
    <3>2. \/ adding' = adding
          \/ adding' = [adding EXCEPT ![p] = Nothing]
          \/ adding' = [adding EXCEPT ![p] = refs[p].note]
      BY DEF Write, Commit, Merge, Move, NoteRead, NoteWrite, UpdateRef, Revise
    <3>3. refs[p].note \in S
      BY <2>2 DEF TypeOK, Names
    <3> HIDE DEF S
    <3> QED
      BY <3>1, <3>2, <3>3
  <2>6. sess' \in [Clients -> Sessions']
    <3>1. Sessions \subseteq Sessions'
      BY <2>2 DEF Sessions
    <3> QED
      BY <1>1, <3>1 DEF TypeOK
  <2>7. tracked' \in [Clients -> S]
    BY <1>1, <2>2 DEF TypeOK
  <2>8. /\ links' \in Seq(SUBSET (1 .. MaxObjs)) /\ Len(links') \in 2 .. MaxObjs
        /\ Len(links') = Len(links) + 1
        /\ \A x \in Ids : links'[x] = links[x]
        /\ \A x \in Ids' : links'[x] \subseteq 1 .. x - 1
        /\ objects' \in [Peers -> SUBSET (Ids')]
        /\ \A q \in Peers : objects[q] \subseteq objects'[q]
    BY <2>1, Stored
  <2>9. TypeOK'
    BY <1>1, <2>3, <2>4, <2>5, <2>6, <2>7, <2>8 DEF TypeOK, Nothing
  <2>10. Grew
    BY <2>3, <2>8, IdsAre DEF Grew
  <2> QED
    BY <1>1, <2>9, <2>10
<1> QED
  BY <1>2, <1>3, WriteStores

\* What a session writes is whole where it is written: the tip of a fetch or a clone is checked
\* before its ref moves, the hub checks a push, and what is tracked after them was checked before.
LEMMA LandsWhole ==
  ASSUME IInv, NEW c \in Clients, Session(c)
  PROVE  /\ \A p \in Peers, n \in Names :
               refs'[p][n] # refs[p][n] =>
                  refs'[p][n] \in Ids /\ Closure(refs'[p][n]) \subseteq objects'[p]
         /\ tracked'[c] # tracked[c] =>
               tracked'[c] \in Ids /\ Closure(tracked'[c]) \subseteq objects[c]
<1> DEFINE s == sess[c]
<1>1. /\ s.at \in Names /\ c \in Peers /\ Hub \in Peers /\ "head" \in Names /\ s.new \in Ids \cup {NoId}
      /\ refs \in [Peers -> [Names -> Ids \cup {NoId}]]
      /\ tracked \in [Clients -> Ids \cup {NoId}]
  BY Kinds DEF IInv, TypeOK
<1>2. Sound(c, s)
  BY DEF IInv, SessionsSound
<1>3. ASSUME NEW p \in Peers, NEW n \in Names, refs'[p][n] # refs[p][n]
      PROVE  refs'[p][n] \in Ids /\ Closure(refs'[p][n]) \subseteq objects'[p]
  <2>1. /\ objects' = objects /\ s.step \in {"recv", "send"}
        /\ \E q \in {c, Hub}, m \in {"head", s.at} : SetRef(q, m, s.new) /\ Whole(objects[q], s.new)
    BY <1>3 DEF Session, Step, Drop, Dial, GetObjects, RecvObject, Received, RecordTip, ReadHead, ReadRef,
           SendObject, ReadReply, ServePush, At
  <2>2. PICK q \in {c, Hub}, m \in {"head", s.at} : SetRef(q, m, s.new) /\ Whole(objects[q], s.new)
    BY <2>1
  <2>3. s.new \in Ids
    BY <1>2, <2>1 DEF Sound
  <2>4. Closure(s.new) \subseteq objects[q]
    BY <2>2, <2>3, WholeIsWhole DEF IInv
  <2>5. q \in Peers /\ m \in Names
    BY <1>1, <2>2
  <2>6. refs' = [refs EXCEPT ![q][m] = s.new]
    BY <2>2 DEF SetRef
  <2>7. q = p /\ refs'[p][n] = s.new
    <3> HIDE DEF s
    <3> QED
      BY <1>1, <1>3, <2>5, <2>6
  <2> QED
    BY <2>1, <2>3, <2>4, <2>7
<1>4. ASSUME tracked'[c] # tracked[c]
      PROVE  tracked'[c] \in Ids /\ Closure(tracked'[c]) \subseteq objects[c]
  <2>1. /\ tracked' = [tracked EXCEPT ![c] = s.new]
        /\ \/ s.step = "recv" /\ Whole(objects[c], s.new)
           \/ s.step = "record"
           \/ s.step = "ack" /\ s.at = "head"
    BY <1>4 DEF Session, Step, Drop, Dial, GetObjects, RecvObject, Received, RecordTip, ReadHead, ReadRef,
           SendObject, ReadReply, ServePush, At
  <2>2. tracked'[c] = s.new
    BY <1>1, <2>1
  <2>3. s.new \in Ids
    BY <1>2, <2>1 DEF Sound
  <2>4. WholeAt(c, s.new)
    <3>1. CASE s.step = "recv" /\ Whole(objects[c], s.new)
      BY <2>3, <3>1, WholeIsWhole DEF IInv, WholeAt
    <3>2. CASE s.step = "record"
      BY <1>2, <3>2 DEF Sound
    <3>3. CASE s.step = "ack" /\ s.at = "head"
      BY <1>2, <3>3 DEF Sound
    <3> QED
      BY <2>1, <3>1, <3>2, <3>3
  <2>5. s.new # NoId
    BY <2>3, IdsAre DEF IInv
  <2> QED
    BY <2>2, <2>3, <2>4, <2>5 DEF WholeAt
<1> QED
  BY <1>3, <1>4

\* A branch that people move is whole: its parents are.
LEMMA MovesWhole ==
  ASSUME IInv, NEW p \in Peers, Write(p), NEW q \in Peers
  PROVE  refs'[q].head = refs[q].head \/ (refs'[q].head # NoId /\ WholeAt(q, refs[q].head)')
<1>1. CASE Commit(p) \/ (p \in Clients /\ Merge(p))
  <2>1. /\ refs \in [Peers -> [Names -> Ids \cup {NoId}]] /\ "head" \in Names
        /\ refs[p].head \in Ids \cup {NoId}
        /\ p \in Clients => tracked[p] \in Ids \cup {NoId}
    BY DEF IInv, TypeOK, Names
  <2>2. \E ls \in SUBSET Ids : Store(p, ls) /\ \A y \in ls : WholeAt(p, y) /\ y # NoId
    <3>1. WholeAt(p, refs[p].head) /\ (p \in Clients => WholeAt(p, tracked[p]))
      BY DEF IInv, HeadsWhole
    <3>2. CASE Commit(p)
      <4>1. {refs[p].head} \ {NoId} \in SUBSET Ids
        BY <2>1
      <4> QED
        BY <3>1, <3>2, <4>1 DEF Commit
    <3>3. CASE p \in Clients /\ Merge(p)
      <4>1. {refs[p].head, tracked[p]} \in SUBSET Ids /\ refs[p].head # NoId /\ tracked[p] # NoId
        BY <2>1, <3>3 DEF Merge
      <4> QED
        BY <3>1, <3>3, <4>1 DEF Merge
    <3> QED
      BY <1>1, <3>2, <3>3
  <2>3. PICK ls \in SUBSET Ids : Store(p, ls) /\ \A y \in ls : WholeAt(p, y) /\ y # NoId
    BY <2>2
  <2>4. PICK x : x = Len(links) + 1
    OBVIOUS
  <2>5. Closure(x)' \subseteq {x} \cup UNION {Closure(y) : y \in ls}
    BY <2>3, <2>4, ClosureOfNew DEF IInv
  <2>6. x \in Ids' /\ objects'[p] = objects[p] \cup {x}
    BY <2>3, <2>4, Stored DEF IInv
  <2>7. Closure(x)' \subseteq objects'[p]
    BY <2>3, <2>5, <2>6 DEF WholeAt
  <2>8. refs' = [refs EXCEPT ![p]["head"] = x]
    BY <1>1, <2>4 DEF Commit, Merge, Move, SetRef
  <2>9. CASE q = p
    <3>1. refs'[q].head = x
      BY <2>1, <2>8, <2>9
    <3>2. x # NoId
      BY <2>4, IdsAre DEF IInv, NoId
    <3>3. WholeAt(q, refs[q].head)'
      BY <2>7, <2>9, <3>1 DEF WholeAt
    <3> QED
      BY <3>1, <3>2, <3>3
  <2>10. CASE q # p
    BY <2>1, <2>8, <2>10
  <2> QED
    BY <2>9, <2>10
<1>2. CASE NoteRead(p) \/ NoteWrite(p) \/ UpdateRef(p) \/ Revise(p)
  <2>1. refs' = refs \/ \E n \in {"note", "lease"} : refs' = [refs EXCEPT ![p][n] = Len(links) + 1]
    BY <1>2 DEF NoteRead, NoteWrite, UpdateRef, Revise, SetRef
  <2>2. refs \in [Peers -> [Names -> Ids \cup {NoId}]] /\ "head" \in Names
    BY DEF IInv, TypeOK, Names
  <2> QED
    BY <2>1, <2>2
<1> QED
  BY <1>1, <1>2 DEF Write

\* A step is one of a session or of somebody who writes, and keeps what there was.
LEMMA NextSplit ==
  ASSUME IInv, Next
  PROVE  /\ TypeOK' /\ Grew
         /\ \/ \E c \in Clients : Session(c)
            \/ \E p \in Peers : Write(p)
BY SessionKeepsKinds, WriteKeepsKinds DEF Next, Session, IInv

\* Every variable keeps its kind.
LEMMA NextTypeOK ==
  ASSUME IInv, [Next]_vars
  PROVE  TypeOK'
<1>1. CASE Next
  BY <1>1, NextSplit
<1>2. CASE UNCHANGED vars
  BY <1>2 DEF vars, IInv, TypeOK, Ids, Sessions, Nothing
<1> QED
  BY <1>1, <1>2

\* What a fetch, a clone or an accepted push records is something the hub's branch has been.
LEMMA NextTrackingHonest ==
  ASSUME IInv, Next
  PROVE  TrackingHonest'
<1>1. /\ tracked \in [Clients -> Ids \cup {NoId}] /\ heads \subseteq heads'
      /\ \A c \in Clients : tracked[c] \in heads \cup {NoId}
  BY NextSplit DEF IInv, TypeOK, TrackingHonest, Grew
<1>2. ASSUME NEW c \in Clients, Session(c) PROVE TrackingHonest'
  <2> DEFINE s == sess[c]
  <2>1. tracked' = tracked \/ (tracked' = [tracked EXCEPT ![c] = s.new] /\ s.new \in heads)
    <3>1. \/ tracked' = tracked
          \/ /\ tracked' = [tracked EXCEPT ![c] = s.new]
             /\ \/ s.step = "recv" /\ s.at = "head"
                \/ s.step = "record"
                \/ s.step = "ack" /\ s.at = "head" /\ s.ok
      BY <1>2 DEF Session, Step, Drop, Dial, GetObjects, RecvObject, Received, RecordTip, ReadHead,
             ReadRef, SendObject, ReadReply, ServePush, At
    <3>2. Sound(c, s)
      BY DEF IInv, SessionsSound
    <3> HIDE DEF s
    <3> QED
      BY <3>1, <3>2 DEF Sound
  <2> HIDE DEF s
  <2> QED
    BY <1>1, <2>1 DEF TrackingHonest
<1>3. ASSUME NEW p \in Peers, Write(p) PROVE TrackingHonest'
  BY <1>1, <1>3, WriteKeepsKinds DEF TrackingHonest, IInv
<1> QED
  BY <1>2, <1>3, NextSplit

\* Every move of the hub's branch is recorded.
LEMMA NextHubRecorded ==
  ASSUME IInv, Next
  PROVE  HubRecorded'
<1>1. /\ refs \in [Peers -> [Names -> Ids \cup {NoId}]] /\ heads \subseteq heads'
      /\ refs[Hub].head \in heads \cup {NoId}
      /\ "head" \in Names /\ Hub \in Peers
  BY NextSplit DEF IInv, TypeOK, HubRecorded, Grew, Names, Peers
<1>2. ASSUME NEW c \in Clients, Session(c) PROVE HubRecorded'
  <2> DEFINE s == sess[c]
  <2>1. \/ refs' = refs
        \/ \E n \in Names : refs' = [refs EXCEPT ![c][n] = s.new]
        \/ refs' = [refs EXCEPT ![Hub][s.at] = s.new] /\ (s.at = "head" => s.new \in heads')
    <3>1. s.at \in Names
      BY <1>2, Kinds DEF IInv
    <3> QED
      BY <1>1, <1>2, <3>1 DEF Session, Step, Drop, Dial, GetObjects, RecvObject, Received, RecordTip,
             ReadHead, ReadRef, SendObject, ReadReply, ServePush, SetRef
  <2>2. s.at \in Names /\ c \in Peers /\ Hub # c
    BY <1>2, Kinds DEF IInv
  <2> HIDE DEF s
  <2> QED
    BY <1>1, <2>1, <2>2 DEF HubRecorded
<1>3. ASSUME NEW p \in Peers, Write(p) PROVE HubRecorded'
  <2>1. \/ refs' = refs
        \/ \E n \in {"note", "lease"} : refs' = [refs EXCEPT ![p][n] = Len(links) + 1]
        \/ /\ refs' = [refs EXCEPT ![p]["head"] = Len(links) + 1]
           /\ p = Hub => Len(links) + 1 \in heads'
    BY <1>3 DEF Write, Commit, Merge, Move, NoteRead, NoteWrite, UpdateRef, Revise, SetRef
  <2> QED
    BY <1>1, <2>1 DEF HubRecorded
<1> QED
  BY <1>2, <1>3, NextSplit

\* Branches and tracking refs stay whole.
LEMMA NextHeadsWhole ==
  ASSUME IInv, Next
  PROVE  HeadsWhole'
<1>1. TypeOK /\ TypeOK' /\ Grew
  BY NextSplit DEF IInv
<1>2. /\ \A p \in Peers : refs[p].head \in Ids \cup {NoId} /\ WholeAt(p, refs[p].head)
      /\ \A c \in Clients : tracked[c] \in Ids \cup {NoId} /\ WholeAt(c, tracked[c])
  BY DEF IInv, TypeOK, HeadsWhole, Names
<1>3. \A p \in Peers, x \in Ids \cup {NoId} : WholeAt(p, x) => WholeAt(p, x)'
  BY <1>1, WholeStays
<1>4. ASSUME NEW p \in Peers, refs'[p].head = refs[p].head PROVE WholeAt(p, refs[p].head)'
  <2>1. PICK x : x = refs[p].head
    OBVIOUS
  <2>2. WholeAt(p, x)' /\ refs'[p].head = x
    BY <1>2, <1>3, <1>4, <2>1
  <2> QED
    BY <2>2 DEF WholeAt
<1>5. ASSUME NEW c \in Clients, tracked'[c] = tracked[c] PROVE WholeAt(c, tracked[c])'
  <2>1. PICK x : x = tracked[c]
    OBVIOUS
  <2>2. WholeAt(c, x)' /\ tracked'[c] = x
    BY <1>2, <1>3, <1>5, <2>1 DEF Peers
  <2> QED
    BY <2>2 DEF WholeAt
<1>6. ASSUME NEW c \in Clients, Session(c) PROVE HeadsWhole'
  <2>1. links' = links
    BY <1>6, SessionKeepsKinds
  <2>2. ASSUME NEW p \in Peers, refs'[p].head # refs[p].head PROVE WholeAt(p, refs[p].head)'
    <3>1. PICK x : x = refs'[p].head
      OBVIOUS
    <3>2. Closure(x) \subseteq objects'[p]
      BY <1>6, <2>2, <3>1, LandsWhole DEF Names
    <3>3. Closure(x)' \subseteq objects'[p]
      BY <2>1, <3>2, SameClosures
    <3> QED
      BY <3>1, <3>3 DEF WholeAt
  <2>3. ASSUME NEW d \in Clients, tracked'[d] # tracked[d] PROVE WholeAt(d, tracked[d])'
    <3>1. d = c
      <4>1. tracked' = tracked \/ tracked' = [tracked EXCEPT ![c] = sess[c].new]
        BY <1>6 DEF Session, Step, Drop, Dial, GetObjects, RecvObject, Received, RecordTip, ReadHead,
               ReadRef, SendObject, ReadReply, ServePush
      <4>2. tracked \in [Clients -> Ids \cup {NoId}]
        BY DEF IInv, TypeOK
      <4> QED
        BY <2>3, <4>1, <4>2
    <3>2. PICK x : x = tracked'[c]
      OBVIOUS
    <3>3. x \in Ids /\ WholeAt(c, x)
      BY <1>6, <2>3, <3>1, <3>2, LandsWhole DEF WholeAt
    <3>4. WholeAt(c, x)'
      BY <1>3, <3>3 DEF Peers
    <3> QED
      BY <3>1, <3>2, <3>4 DEF WholeAt
  <2> QED
    BY <1>4, <1>5, <2>2, <2>3 DEF HeadsWhole
<1>7. ASSUME NEW q \in Peers, Write(q) PROVE HeadsWhole'
  <2>1. \A p \in Peers : WholeAt(p, refs[p].head)'
    BY <1>4, <1>7, MovesWhole
  <2>2. \A c \in Clients : WholeAt(c, tracked[c])'
    BY <1>1, <1>5, <1>7, WriteKeepsKinds
  <2> QED
    BY <2>1, <2>2 DEF HeadsWhole
<1> QED
  BY <1>6, <1>7, NextSplit

\* A session that steps has what it should, and the others keep it.
LEMMA NextSessionsSound ==
  ASSUME IInv, Next
  PROVE  SessionsSound'
<1>1. TypeOK /\ TypeOK' /\ Grew
  BY NextSplit DEF IInv
<1>2. sess \in [Clients -> Sessions]
  BY <1>1 DEF TypeOK
<1>3. ASSUME NEW d \in Clients, sess'[d] = sess[d] PROVE Sound(d, sess[d])'
  <2>1. PICK m : m = sess[d]
    OBVIOUS
  <2>2. m \in Sessions /\ Sound(d, m)
    BY <1>2, <2>1 DEF IInv, SessionsSound
  <2>3. Sound(d, m)'
    BY <1>1, <2>2, SoundStays
  <2> QED
    BY <1>3, <2>1, <2>3 DEF Sound
<1>4. ASSUME NEW c \in Clients, Session(c), NEW d \in Clients PROVE Sound(d, sess[d])'
  <2>1. PICK l \in Sessions : sess' = [sess EXCEPT ![c] = l] /\ Sound(c, l)'
    BY <1>4, SessionTurns DEF Turned
  <2>2. CASE d = c
    <3>1. sess'[d] = l
      BY <1>2, <2>1, <2>2
    <3> QED
      BY <2>1, <2>2, <3>1 DEF Sound
  <2>3. CASE d # c
    BY <1>2, <1>3, <2>1, <2>3
  <2> QED
    BY <2>2, <2>3
<1>5. ASSUME NEW p \in Peers, Write(p), NEW d \in Clients PROVE Sound(d, sess[d])'
  BY <1>1, <1>3, <1>5, WriteKeepsKinds
<1> QED
  BY <1>4, <1>5, NextSplit DEF SessionsSound

\* The hub's one change and its tree are whole at the hub and at who has cloned it.
LEMMA InitIInv ==
  ASSUME Init
  PROVE  IInv
<1> DEFINE with == Cloned \cup {Hub}
<1>1. links = <<{}, {1}>> /\ Len(links) = 2 /\ Ids = {1, 2} /\ NoId = 0 /\ Target = 2
  BY DEF Init, Ids, NoId, Target
<1>2. MaxObjs \in Nat /\ MaxObjs >= 2 /\ MaxSessions \in Nat /\ MaxDrops \in Nat
      /\ Hub \notin Clients /\ Cloned \subseteq Clients
  BY SyncAssumption
<1>3. links \in Seq(SUBSET (1 .. MaxObjs))
  <2>1. {} \in SUBSET (1 .. MaxObjs) /\ {1} \in SUBSET (1 .. MaxObjs)
    BY <1>2
  <2> QED
    BY <1>1, <2>1
<1>4. links[1] = {} /\ links[2] = {1}
  BY <1>1
<1>5. \A x \in Ids : links[x] \subseteq 1 .. x - 1
  BY <1>1, <1>4
<1>6. objects = [p \in Peers |-> IF p \in with THEN {1, 2} ELSE {}]
  BY DEF Init, Target
<1>7. refs = [p \in Peers |-> [n \in Names |-> IF p \in with /\ n = "head" THEN 2 ELSE 0]]
  BY DEF Init, Target, NoId
<1>8. tracked = [c \in Clients |-> IF c \in Cloned THEN 2 ELSE 0]
  BY DEF Init, Target, NoId
<1>9. NoSession \in Sessions /\ NoSession.step = "idle"
  BY DEF NoSession, Sessions, Names
<1>10. sess = [c \in Clients |-> NoSession] /\ heads = {2} /\ dials = 0 /\ drops = 0
       /\ adding = [p \in Peers |-> Nothing]
  BY DEF Init, Target
<1>11. TypeOK
  <2>1. objects \in [Peers -> SUBSET Ids]
    BY <1>1, <1>6
  <2>2. refs \in [Peers -> [Names -> Ids \cup {NoId}]]
    BY <1>1, <1>7
  <2>3. tracked \in [Clients -> Ids \cup {NoId}]
    BY <1>1, <1>8
  <2>4. sess \in [Clients -> Sessions]
    BY <1>9, <1>10
  <2> QED
    BY <1>1, <1>2, <1>3, <1>5, <1>10, <2>1, <2>2, <2>3, <2>4 DEF TypeOK
<1>12. \A p \in with : WholeAt(p, 2)
  <2>1. Closure(2) \subseteq {1, 2}
    BY <1>1 DEF Closure, Walk
  <2>2. \A p \in with : p \in Peers /\ objects[p] = {1, 2}
    BY <1>2, <1>6 DEF Peers
  <2> QED
    BY <2>1, <2>2 DEF WholeAt
<1>13. HeadsWhole
  <2>1. \A p \in Peers : refs[p].head = IF p \in with THEN 2 ELSE 0
    BY <1>7 DEF Names
  <2>2. \A p : WholeAt(p, 0)
    BY DEF WholeAt, NoId
  <2>3. \A c \in Clients : c \in Peers /\ tracked[c] = IF c \in Cloned THEN 2 ELSE 0
    BY <1>8 DEF Peers
  <2> QED
    BY <1>12, <2>1, <2>2, <2>3 DEF HeadsWhole
<1>14. HubRecorded
  <2>1. Hub \in Peers /\ "head" \in Names
    BY DEF Peers, Names
  <2> QED
    BY <1>7, <1>10, <2>1 DEF HubRecorded
<1>15. TrackingHonest
  BY <1>1, <1>8, <1>10 DEF TrackingHonest
<1>16. SessionsSound
  BY <1>9, <1>10 DEF SessionsSound, Sound
<1> QED
  BY <1>11, <1>13, <1>14, <1>15, <1>16 DEF IInv

\* The invariant of the proofs: what has been established on the way is still so when it is used,
\* whatever others write and wherever connections break.
THEOREM Invariance == Spec => []IInv
<1>1. Init => IInv
  BY InitIInv
<1>2. IInv /\ [Next]_vars => IInv'
  <2>1. CASE IInv /\ Next
    BY <2>1, NextSplit, NextTrackingHonest, NextHubRecorded, NextHeadsWhole, NextSessionsSound DEF IInv
  <2>2. CASE IInv /\ UNCHANGED vars
    <3>1. Ids' = Ids /\ Sessions' = Sessions /\ \A x : Closure(x)' = Closure(x)
      BY <2>2, SameClosures DEF vars
    <3>2. TypeOK'
      BY <2>2, NextTypeOK
    <3>3. (TrackingHonest /\ HubRecorded)'
      BY <2>2 DEF vars, IInv, TrackingHonest, HubRecorded
    <3>4. HeadsWhole'
      BY <2>2, <3>1 DEF vars, IInv, HeadsWhole, WholeAt
    <3>5. SessionsSound'
      BY <2>2, <3>1 DEF vars, IInv, SessionsSound, Sound, WholeAt
    <3> QED
      BY <3>2, <3>3, <3>4, <3>5 DEF IInv
  <2> QED
    BY <2>1, <2>2
<1> QED
  BY <1>1, <1>2, PTL DEF Spec

-----------------------------------------------------------------------------
(* The theorems.                                                            *)

\* The tracking ref is something the hub's branch has really been, whatever replies were lost
\* (main.go cmdFetch, cmdPush: recorded only when the hub has accepted).
THEOREM TrackingSound == Spec => []TrackingInv
<1>1. IInv => TrackingInv
  BY DEF IInv, TrackingInv
<1> QED
  BY <1>1, Invariance, PTL

\* Only the client whose session it is steps it.
LEMMA OneSession ==
  ASSUME IInv, [Next]_vars, NEW c \in Clients, Synced(c)
  PROVE  Session(c)
<1>1. Next
  BY DEF vars, Synced
<1>2. \A p \in Peers : ~Write(p)
  BY WriteKeepsKinds DEF IInv, Synced
<1>3. PICK d \in Clients : Session(d)
  BY <1>1, <1>2, NextSplit
<1>4. sess \in [Clients -> Sessions] /\ \E l \in Sessions : sess' = [sess EXCEPT ![d] = l]
  BY <1>3, SessionTurns DEF Turned, IInv, TypeOK
<1> QED
  BY <1>3, <1>4 DEF Synced

\* Whatever a session writes is whole where it is written, though transfers start at the tip and
\* may stop anywhere (p2p.go hasClosure, before every ref is moved).
THEOREM WritesAreWhole == Spec => ArrivesWhole
<1> DEFINE A == \A c \in Clients : Synced(c) =>
                   /\ \A p \in Peers, n \in Names :
                         refs'[p][n] # refs[p][n] => Closure(refs'[p][n]) \subseteq objects'[p]
                   /\ tracked'[c] # tracked[c] => Closure(tracked'[c]) \subseteq objects'[c]
<1>1. IInv /\ [Next]_vars => A
  <2> SUFFICES ASSUME IInv, [Next]_vars, NEW c \in Clients, Synced(c)
               PROVE  /\ \A p \in Peers, n \in Names :
                            refs'[p][n] # refs[p][n] => Closure(refs'[p][n]) \subseteq objects'[p]
                      /\ tracked'[c] # tracked[c] => Closure(tracked'[c]) \subseteq objects'[c]
    OBVIOUS
  <2>1. Session(c)
    BY OneSession
  <2>2. Grew /\ c \in Peers
    BY <2>1, SessionKeepsKinds DEF Peers
  <2>3. ASSUME tracked'[c] # tracked[c] PROVE Closure(tracked'[c]) \subseteq objects'[c]
    <3>1. Closure(tracked'[c]) \subseteq objects[c]
      BY <2>1, <2>3, LandsWhole
    <3> QED
      BY <2>2, <3>1 DEF Grew
  <2> QED
    BY <2>1, <2>3, LandsWhole
<1>2. IInv /\ [Next]_vars => [A]_vars
  BY <1>1
<1> HIDE DEF A
<1>3. Spec => [][A]_vars
  BY <1>2, Invariance, PTL DEF Spec
<1> QED
  BY <1>3 DEF ArrivesWhole, A

\* Sync never takes a note or a reserved ref back or aside: its new value leads to the one it
\* replaces, on either side, whoever wrote meanwhile (the swap is from what was compared).
THEOREM SyncMovesForward == Spec => NeverClobbers
<1> DEFINE A == \A c \in Clients, p \in Peers, n \in {"note", "lease"} :
                   Synced(c) /\ refs'[p][n] # refs[p][n] /\ refs[p][n] # NoId
                      => refs[p][n] \in Closure(refs'[p][n])
<1>1. IInv /\ [Next]_vars => A
  <2> SUFFICES ASSUME IInv, [Next]_vars, NEW c \in Clients, NEW p \in Peers, NEW n \in {"note", "lease"},
                      Synced(c), refs'[p][n] # refs[p][n], refs[p][n] # NoId
               PROVE  refs[p][n] \in Closure(refs'[p][n])
    OBVIOUS
  <2> DEFINE s == sess[c]
  <2>1. Session(c)
    BY OneSession
  <2>2. /\ s.at \in Names /\ c \in Peers /\ Hub \in Peers /\ Sound(c, s)
        /\ refs \in [Peers -> [Names -> Ids \cup {NoId}]] /\ n \in Names
    BY Kinds DEF IInv, TypeOK, SessionsSound, Names
  <2>3. \E q \in {c, Hub} :
           /\ \/ refs' = [refs EXCEPT ![q][s.at] = s.new]
              \/ refs' = [refs EXCEPT ![q]["head"] = s.new]
           /\ s.at # "head" => /\ refs[q][s.at] = s.old
                               /\ refs' = [refs EXCEPT ![q][s.at] = s.new]
                               /\ \/ s.step = "recv" /\ Supersedes(objects[c], s.old, s.new)
                                  \/ s.step = "send"
    BY <2>1 DEF Session, Step, Drop, Dial, GetObjects, RecvObject, Received, RecordTip, ReadHead, ReadRef,
           SendObject, ReadReply, ServePush, At, SetRef
  <2>4. PICK q \in {c, Hub} :
           /\ \/ refs' = [refs EXCEPT ![q][s.at] = s.new]
              \/ refs' = [refs EXCEPT ![q]["head"] = s.new]
           /\ s.at # "head" => /\ refs[q][s.at] = s.old
                               /\ refs' = [refs EXCEPT ![q][s.at] = s.new]
                               /\ \/ s.step = "recv" /\ Supersedes(objects[c], s.old, s.new)
                                  \/ s.step = "send"
    BY <2>3
  <2>5. p = q /\ n = s.at /\ refs'[p][n] = s.new /\ refs[p][n] = s.old
    <3> HIDE DEF s
    <3> QED
      BY <2>2, <2>4
  <2>6. s.step \in {"recv", "send"} => s.new \in Ids
    BY <2>2 DEF Sound
  <2>7. CASE s.step = "recv" /\ Supersedes(objects[c], s.old, s.new)
    <3>1. s.old \in Walk(objects[c], s.new)
      BY <2>5, <2>7 DEF Supersedes, Reaches
    <3>2. s.old \in Closure(s.new)
      BY <2>6, <2>7, <3>1, WalkInClosure DEF IInv
    <3> QED
      BY <2>5, <3>2
  <2>8. CASE s.step = "send"
    BY <2>2, <2>5, <2>8 DEF Sound
  <2> QED
    BY <2>4, <2>5, <2>7, <2>8
<1>2. IInv /\ [Next]_vars => [A]_vars
  BY <1>1
<1> HIDE DEF A
<1>3. Spec => [][A]_vars
  BY <1>2, Invariance, PTL DEF Spec
<1> QED
  BY <1>3 DEF NeverClobbers, A

\* A push may replace the hub's head by one that does not descend from it, but only if the pusher
\* holds the whole of what it replaces (the lease is the tracking ref, which is whole).
THEOREM PushesOverWhatItHas == Spec => NothingUnseenLost
<1> DEFINE A == \A c \in Clients :
                   Synced(c) /\ refs'[Hub].head # refs[Hub].head /\ refs[Hub].head # NoId
                      => Closure(refs[Hub].head) \subseteq objects[c]
<1>1. IInv /\ [Next]_vars => A
  <2> SUFFICES ASSUME IInv, [Next]_vars, NEW c \in Clients,
                      Synced(c), refs'[Hub].head # refs[Hub].head, refs[Hub].head # NoId
               PROVE  Closure(refs[Hub].head) \subseteq objects[c]
    OBVIOUS
  <2> DEFINE s == sess[c]
  <2>1. Session(c)
    BY OneSession
  <2>2. /\ s.at \in Names /\ c \in Peers /\ Hub \in Peers /\ Hub # c /\ Sound(c, s)
        /\ refs \in [Peers -> [Names -> Ids \cup {NoId}]] /\ "head" \in Names
    BY Kinds DEF IInv, TypeOK, SessionsSound
  <2>3. \/ refs' = refs
        \/ \E m \in Names : refs' = [refs EXCEPT ![c][m] = s.new]
        \/ /\ refs' = [refs EXCEPT ![Hub][s.at] = s.new]
           /\ s.step = "send" /\ refs[Hub][s.at] = s.old
    BY <2>1, <2>2 DEF Session, Step, Drop, Dial, GetObjects, RecvObject, Received, RecordTip, ReadHead,
           ReadRef, SendObject, ReadReply, ServePush, At, SetRef
  <2>4. s.at = "head" /\ s.step = "send" /\ refs[Hub].head = s.old
    <3> HIDE DEF s
    <3> QED
      BY <2>2, <2>3
  <2> QED
    BY <2>2, <2>4 DEF Sound, WholeAt
<1>2. IInv /\ [Next]_vars => [A]_vars
  BY <1>1
<1> HIDE DEF A
<1>3. Spec => [][A]_vars
  BY <1>2, Invariance, PTL DEF Spec
<1> QED
  BY <1>3 DEF NothingUnseenLost, A

=============================================================================
